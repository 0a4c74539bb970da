---------------------------- MODULE TableEvents ----------------------------
(***************************************************************************)
(* The add and remove events of the tables of the data model.  The thread  *)
(* of updateHandler visits the tables every minute and broadcasts one      *)
(* event for each entry that came or went since its last visit, which it   *)
(* knows from a counter per table.  RegisterForEvents, called over IARM,   *)
(* sets the counters back, so that the caller is told of every entry.      *)
(*                                                                         *)
(* Some profiles count and send in sendAddRemoveEvents, one by one; others *)
(* in a loop of their own that sets the counter at the end.  Some reset    *)
(* their counter under the lock that the visit holds; some under another   *)
(* lock, or none.  A step is one event, one update of a counter, or one    *)
(* reset.                                                                  *)
(***************************************************************************)
EXTENDS Integers, Sequences

CONSTANTS
    Table,        \* the tables
    Order,        \* in the order the thread visits them, and resets them
    Stepped,      \* those that go through sendAddRemoveEvents
    Locked,       \* those reset under the lock that the visit holds
    Cleared,      \* those that updateHandler::reset resets
    MaxEntries,   \* bound on the entries of a table
    QueryOutcomes \* whether the profile can tell the number of entries

ASSUME ConstantsAssumption ==
    /\ Order \in Seq(Table) /\ Len(Order) > 0
    /\ \A t \in Table : \E i \in 1..Len(Order) : Order[i] = t
    /\ \A i, j \in 1..Len(Order) : Order[i] = Order[j] => i = j
    /\ Stepped \subseteq Table /\ Locked \subseteq Table /\ Cleared \subseteq Table
    /\ MaxEntries \in Nat
    /\ QueryOutcomes \subseteq BOOLEAN

VARIABLES
    actual,  \* the entries a table has
    saved,   \* the counter of the last visit: curNumOf..., saved..., noOf...
    at,      \* the table being visited, 0 when the thread sleeps
    phase,   \* before the number is read, between events, between an event
             \* and the counter
    new,     \* the number read
    tmpNoDev,\* the loops of the profiles count here
    stopped, \* updateHandler::stopped
    resetAt, \* the table that RegisterForEvents is about to reset, 0 if none
    told     \* history: additions less removals the caller was told of since
             \* it registered

vars == <<actual, saved, at, phase, new, tmpNoDev, stopped, resetAt, told>>
thread == <<at, phase, new, tmpNoDev>>

Visited(t) == at > 0 /\ Order[at] = t

(* The thread holds the lock of the profile.                               *)
Held(t) == Visited(t) /\ phase # "query"

-----------------------------------------------------------------------------
(* The thread: run, and in each profile checkForUpdates.                   *)

Wake ==
    /\ at = 0 /\ ~stopped
    /\ at' = 1
    /\ phase' = "query"
    /\ UNCHANGED <<actual, saved, new, tmpNoDev, stopped, resetAt, told>>

(* Mutant: one table more than there are.                                  *)
NextTableOver ==
    /\ at' = (at + 1) % (Len(Order) + 2)
    /\ phase' = "query"

NextTable ==
    /\ at' = (at + 1) % (Len(Order) + 1)
    /\ phase' = "query"

Query(t) ==
    /\ Visited(t) /\ phase = "query"
    /\ \/ /\ TRUE \in QueryOutcomes
          /\ new' = actual[t] /\ tmpNoDev' = actual[t]
          /\ phase' = "events"
          /\ UNCHANGED at
       \/ /\ FALSE \in QueryOutcomes
          /\ NextTable
          /\ UNCHANGED <<new, tmpNoDev>>
    /\ UNCHANGED <<actual, saved, stopped, resetAt, told>>

(* One turn of a loop of sendAddRemoveEvents: the event, then the counter. *)
SteppedEvent(t) ==
    /\ t \in Stepped
    /\ Visited(t) /\ phase = "events" /\ saved[t] # new
    /\ told' = [told EXCEPT ![t] = IF saved[t] > new THEN @ - 1 ELSE @ + 1]
    /\ phase' = IF saved[t] > new THEN "countDown" ELSE "countUp"
    /\ UNCHANGED <<actual, saved, at, new, tmpNoDev, stopped, resetAt>>

SteppedCount(t) ==
    /\ Visited(t) /\ phase \in {"countDown", "countUp"}
    /\ saved' = [saved EXCEPT ![t] = IF phase = "countDown" THEN @ - 1 ELSE @ + 1]
    /\ phase' = "events"
    /\ UNCHANGED <<actual, at, new, tmpNoDev, stopped, resetAt, told>>

SteppedDone(t) ==
    /\ t \in Stepped
    /\ Visited(t) /\ phase = "events" /\ saved[t] = new
    /\ NextTable
    /\ UNCHANGED <<actual, saved, new, tmpNoDev, stopped, resetAt, told>>

(* One turn of a profile's own loop, and its end.                          *)
LoopEvent(t) ==
    /\ t \notin Stepped
    /\ Visited(t) /\ phase = "events" /\ saved[t] # tmpNoDev
    /\ told' = [told EXCEPT ![t] = IF saved[t] > tmpNoDev THEN @ - 1 ELSE @ + 1]
    /\ tmpNoDev' = IF saved[t] > tmpNoDev THEN tmpNoDev + 1 ELSE tmpNoDev - 1
    /\ UNCHANGED <<actual, saved, at, phase, new, stopped, resetAt>>

(* Mutant: the counter is set to what the loop counted up or down to.      *)
LoopDoneCursor(t) ==
    /\ t \notin Stepped
    /\ Visited(t) /\ phase = "events" /\ saved[t] = tmpNoDev
    /\ saved' = [saved EXCEPT ![t] = tmpNoDev]
    /\ NextTable
    /\ UNCHANGED <<actual, new, tmpNoDev, stopped, resetAt, told>>

LoopDone(t) ==
    /\ t \notin Stepped
    /\ Visited(t) /\ phase = "events" /\ saved[t] = tmpNoDev
    /\ saved' = [saved EXCEPT ![t] = new]
    /\ NextTable
    /\ UNCHANGED <<actual, new, tmpNoDev, stopped, resetAt, told>>

(* updateHandler::stop; the visit under way is finished.                   *)
Stop ==
    /\ ~stopped
    /\ stopped' = TRUE
    /\ UNCHANGED <<actual, saved, thread, resetAt, told>>

-----------------------------------------------------------------------------
(* RegisterForEvents: updateHandler::reset, one profile after the other.   *)

RegisterForEvents ==
    /\ resetAt = 0
    /\ resetAt' = 1
    /\ UNCHANGED <<actual, saved, thread, stopped, told>>

(* Mutant: the reset returns before it sets the counter back.              *)
ResetNothing(t) ==
    /\ resetAt > 0 /\ Order[resetAt] = t
    /\ t \in Locked => ~Held(t)
    /\ saved' = saved
    /\ told' = [told EXCEPT ![t] = 0]
    /\ resetAt' = (resetAt + 1) % (Len(Order) + 1)
    /\ UNCHANGED <<actual, thread, stopped>>

Reset(t) ==
    /\ resetAt > 0 /\ Order[resetAt] = t
    /\ t \in Locked => ~Held(t)
    /\ saved' = IF t \in Cleared THEN [saved EXCEPT ![t] = 0] ELSE saved
    /\ told' = [told EXCEPT ![t] = 0]
    /\ resetAt' = (resetAt + 1) % (Len(Order) + 1)
    /\ UNCHANGED <<actual, thread, stopped>>

(* Entries come and go.                                                    *)
Change(t, n) ==
    /\ n # actual[t]
    /\ actual' = [actual EXCEPT ![t] = n]
    /\ UNCHANGED <<saved, thread, stopped, resetAt, told>>

Init ==
    /\ actual \in [Table -> 0..MaxEntries]
    /\ saved = [t \in Table |-> 0]
    /\ at = 0
    /\ phase = "query"
    /\ new = 0 /\ tmpNoDev = 0
    /\ stopped = FALSE
    /\ resetAt = 0
    /\ told = [t \in Table |-> 0]

Visit(t) ==
    \/ Query(t)
    \/ SteppedEvent(t) \/ SteppedCount(t) \/ SteppedDone(t)
    \/ LoopEvent(t) \/ LoopDone(t)

Thread == Wake \/ \E t \in Table : Visit(t)

Next ==
    \/ Wake
    \/ \E t \in Table : Visit(t) \/ Reset(t)
    \/ Stop
    \/ RegisterForEvents
    \/ \E t \in Table, n \in 0..MaxEntries : Change(t, n)

Spec == Init /\ [][Next]_vars

(* The thread is scheduled as long as it can run; a reset gets a lock that *)
(* is free again and again, as a visit holds it for an instant a minute;   *)
(* and a profile that is asked every minute does not fail for ever.        *)
LiveSpec ==
    /\ Spec
    /\ WF_vars(Thread)
    /\ SF_vars(\E t \in Table : Reset(t))
    /\ \A t \in Table : SF_vars(Query(t) /\ phase' = "events")

-----------------------------------------------------------------------------
(* Properties.                                                             *)

(* Every variable holds a value of the type the code gives it; a counter   *)
(* is an int, which a race may take below zero.                            *)
TypeOK ==
    /\ actual \in [Table -> 0..MaxEntries]
    /\ saved \in [Table -> Int]
    /\ told \in [Table -> Int]
    /\ at \in 0..Len(Order)
    /\ phase \in {"query", "events", "countDown", "countUp"}
    /\ new \in 0..MaxEntries
    /\ tmpNoDev \in Int
    /\ stopped \in BOOLEAN
    /\ resetAt \in 0..Len(Order)

(* The tables whose counter a visit cannot overwrite after a reset, and    *)
(* which RegisterForEvents does not forget.                                *)
Reliable == Locked \intersect Cleared

(* Between two visits the counter of a table is what the caller has been   *)
(* told since it registered, so that the next visit tells it the rest.     *)
Rebroadcast == \A t \in Reliable : ~Held(t) => saved[t] = told[t]

(* Once the entries, the caller and the process stay as they are, the      *)
(* caller is told of every entry there is, and of no other.                *)
CatchesUp ==
    \A t \in Reliable, n \in 0..MaxEntries :
        <>[](actual[t] = n /\ resetAt = 0 /\ ~stopped) => <>[](told[t] = n)
=============================================================================
