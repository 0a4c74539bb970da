------------------------- MODULE TableEventsProofs -------------------------
(***************************************************************************)
(* A caller that registers is told of every entry of a table whose counter *)
(* updateHandler resets, under the lock that the visit holds, whatever the *)
(* tables and however the visits and the resets interleave.                *)
(***************************************************************************)
EXTENDS TableEvents, TLAPS

(* The table after the last one is none.                                   *)
LEMMA NextIndex ==
    ASSUME NEW i \in 0..Len(Order)
    PROVE  (i + 1) % (Len(Order) + 1) \in 0..Len(Order)
<1>1. Len(Order) \in Nat /\ Len(Order) + 1 > 0
  BY ConstantsAssumption
<1> QED
  BY <1>1, Z3

LEMMA Bounds == {0, 1} \subseteq 0..Len(Order) /\ 0 \in 0..MaxEntries
<1>1. Len(Order) \in Nat /\ Len(Order) > 0 /\ MaxEntries \in Nat
  BY ConstantsAssumption
<1> QED
  BY <1>1

LEMMA TypeInit == Init => TypeOK
<1> SUFFICES ASSUME Init
             PROVE  TypeOK
  OBVIOUS
<1>1. /\ actual \in [Table -> 0..MaxEntries]
      /\ phase = "query" /\ stopped \in BOOLEAN
  BY DEF Init
<1>3. at \in 0..Len(Order) /\ resetAt \in 0..Len(Order)
  BY Bounds DEF Init
<1>4. new \in 0..MaxEntries /\ tmpNoDev \in Int
  BY Bounds DEF Init
<1>2. saved \in [Table -> Int] /\ told \in [Table -> Int]
  <2>1. [t \in Table |-> 0] \in [Table -> Int]
    OBVIOUS
  <2> QED
    BY <2>1 DEF Init
<1> QED
  BY <1>1, <1>2, <1>3, <1>4 DEF TypeOK

LEMMA TypeStep == TypeOK /\ [Next]_vars => TypeOK'
<1> SUFFICES ASSUME TypeOK, [Next]_vars
             PROVE  TypeOK'
  OBVIOUS
<1> USE DEF TypeOK, thread
<1>0. (at + 1) % (Len(Order) + 1) \in 0..Len(Order)
  BY NextIndex
<1>1. CASE Wake
  BY <1>1, Bounds DEF Wake
<1>2. ASSUME NEW t \in Table, Visit(t)
      PROVE  TypeOK'
  <2>1. CASE Query(t)
    <3>1. actual[t] \in 0..MaxEntries /\ actual[t] \in Int
      OBVIOUS
    <3>2. /\ at' \in 0..Len(Order) /\ phase' \in {"query", "events"}
          /\ new' \in 0..MaxEntries /\ tmpNoDev' \in Int
      BY <2>1, <1>0, <3>1 DEF Query, NextTable
    <3> QED
      BY <2>1, <3>2 DEF Query
  <2>2. CASE SteppedEvent(t)
    BY <2>2 DEF SteppedEvent
  <2>3. CASE SteppedCount(t)
    BY <2>3 DEF SteppedCount
  <2>4. CASE SteppedDone(t)
    BY <2>4, <1>0 DEF SteppedDone, NextTable
  <2>5. CASE LoopEvent(t)
    BY <2>5 DEF LoopEvent
  <2>6. CASE LoopDone(t)
    BY <2>6, <1>0 DEF LoopDone, NextTable
  <2> QED
    BY <1>2, <2>1, <2>2, <2>3, <2>4, <2>5, <2>6 DEF Visit
<1>3. ASSUME NEW t \in Table, Reset(t)
      PROVE  TypeOK'
  <2>1. (resetAt + 1) % (Len(Order) + 1) \in 0..Len(Order)
    BY NextIndex
  <2> QED
    BY <1>3, <2>1 DEF Reset
<1>4. CASE Stop
  BY <1>4 DEF Stop
<1>5. CASE RegisterForEvents
  BY <1>5, Bounds DEF RegisterForEvents
<1>6. ASSUME NEW t \in Table, NEW n \in 0..MaxEntries, Change(t, n)
      PROVE  TypeOK'
  BY <1>6 DEF Change
<1>7. CASE UNCHANGED vars
  BY <1>7 DEF vars
<1> QED
  BY <1>1, <1>2, <1>3, <1>4, <1>5, <1>6, <1>7 DEF Next

(* Every variable keeps to its type.                                       *)
THEOREM TypeCorrect == Spec => []TypeOK
BY TypeInit, TypeStep, PTL DEF Spec

-----------------------------------------------------------------------------
(* While a table is visited, what is still owed to its counter.            *)
Owed(t) ==
    /\ t \in Stepped /\ phase = "events" => told[t] = saved[t]
    /\ phase = "countDown" => told[t] = saved[t] - 1
    /\ phase = "countUp" => told[t] = saved[t] + 1
    /\ phase \in {"countDown", "countUp"} => t \in Stepped
    /\ t \notin Stepped => told[t] + tmpNoDev = saved[t] + new

Balance(t) == IF Held(t) THEN Owed(t) ELSE saved[t] = told[t]

Balanced == \A t \in Reliable : Balance(t)

(* Only one table is visited at a time.                                    *)
LEMMA OneVisited ==
    ASSUME NEW t \in Table, NEW u \in Table, Visited(t), Visited(u)
    PROVE  t = u
BY DEF Visited

(* A step of the visit of t leaves the balance of the others.              *)
LEMMA VisitSparesOthers ==
    ASSUME NEW t \in Table, NEW u \in Table, t # u, TypeOK, Balance(u), Visit(t)
    PROVE  Balance(u)'
<1>1. Visited(t) /\ ~Visited(u)
  BY OneVisited
     DEF Visit, Query, SteppedEvent, SteppedCount, SteppedDone, LoopEvent, LoopDone
<1>2. saved[u] = told[u]
  BY <1>1 DEF Balance, Held
<1>3. saved'[u] = saved[u] /\ told'[u] = told[u]
  BY DEF TypeOK, Visit, Query, SteppedEvent, SteppedCount, SteppedDone, LoopEvent, LoopDone
<1>4. at' = at \/ phase' = "query"
  BY DEF Visit, Query, SteppedEvent, SteppedCount, SteppedDone, LoopEvent, LoopDone,
         NextTable
<1>5. ~Held(u)'
  BY <1>1, <1>4 DEF Held, Visited
<1> QED
  BY <1>2, <1>3, <1>5 DEF Balance

LEMMA VisitBalanced ==
    ASSUME NEW t \in Table, TypeOK, Balance(t), Visit(t)
    PROVE  Balance(t)'
<1> USE DEF TypeOK, Balance
<1>1. CASE Query(t)
  <2>1. saved[t] = told[t] /\ saved' = saved /\ told' = told
    BY <1>1 DEF Query, Held
  <2>2. CASE phase' = "query"
    BY <2>1, <2>2 DEF Held
  <2>3. CASE phase' # "query"
    <3>1. at' = at /\ phase' = "events" /\ new' = tmpNoDev' /\ new' \in 0..MaxEntries
      BY <1>1, <2>3 DEF Query, NextTable
    <3>2. Held(t)'
      BY <1>1, <3>1 DEF Query, Held, Visited
    <3>3. Owed(t)'
      BY <2>1, <3>1 DEF Owed
    <3> QED
      BY <3>2, <3>3
  <2> QED
    BY <2>2, <2>3
<1>2. ASSUME SteppedEvent(t) \/ SteppedCount(t) \/ LoopEvent(t)
      PROVE  Balance(t)'
  <2>1. Held(t) /\ Held(t)'
    BY <1>2 DEF SteppedEvent, SteppedCount, LoopEvent, Held, Visited
  <2>2. Owed(t)
    BY <2>1
  <2>3. CASE SteppedEvent(t)
    BY <2>1, <2>2, <2>3 DEF SteppedEvent, Owed
  <2>4. CASE SteppedCount(t)
    BY <2>1, <2>2, <2>4 DEF SteppedCount, Owed
  <2>5. CASE LoopEvent(t)
    BY <2>1, <2>2, <2>5 DEF LoopEvent, Owed
  <2> QED
    BY <1>2, <2>3, <2>4, <2>5
<1>3. ASSUME SteppedDone(t) \/ LoopDone(t)
      PROVE  Balance(t)'
  <2>1. Held(t) /\ ~Held(t)' /\ told' = told
    BY <1>3 DEF SteppedDone, LoopDone, NextTable, Held, Visited
  <2>2. saved'[t] = told[t]
    BY <1>3, <2>1 DEF SteppedDone, LoopDone, Owed
  <2> QED
    BY <2>1, <2>2
<1> QED
  BY <1>1, <1>2, <1>3 DEF Visit

LEMMA BalancedStep ==
    ASSUME TypeOK, Balanced, [Next]_vars
    PROVE  Balanced'
<1> SUFFICES ASSUME NEW u \in Reliable
             PROVE  Balance(u)'
  BY DEF Balanced
<1>0. /\ u \in Table /\ u \in Locked /\ u \in Cleared
      /\ Balance(u)
  BY ConstantsAssumption DEF Reliable, Balanced
<1> USE DEF Balance
<1>1. CASE Wake
  BY <1>0, <1>1 DEF Wake, Held, Visited
<1>2. ASSUME NEW t \in Table, Visit(t)
      PROVE  Balance(u)'
  BY <1>0, <1>2, VisitSparesOthers, VisitBalanced
<1>3. ASSUME NEW t \in Table, Reset(t)
      PROVE  Balance(u)'
  <2>2. CASE t = u
    BY <1>0, <1>3, <2>2 DEF TypeOK, Reset, thread, Held, Visited
  <2>3. CASE t # u
    <3>1. Held(u)' = Held(u) /\ saved'[u] = saved[u] /\ told'[u] = told[u]
      BY <1>0, <1>3, <2>3 DEF TypeOK, Reset, thread, Held, Visited
    <3>2. Owed(u) => Owed(u)'
      BY <1>3, <3>1 DEF Reset, thread, Owed
    <3> QED
      BY <1>0, <3>1, <3>2
  <2> QED
    BY <2>2, <2>3
<1>4. ASSUME UNCHANGED <<saved, thread, told>>
      PROVE  Balance(u)'
  BY <1>0, <1>4 DEF thread, Held, Visited, Owed
<1>5. CASE Stop
  BY <1>4, <1>5 DEF Stop
<1>6. CASE RegisterForEvents
  BY <1>4, <1>6 DEF RegisterForEvents
<1>7. ASSUME NEW t \in Table, NEW n \in 0..MaxEntries, Change(t, n)
      PROVE  Balance(u)'
  BY <1>4, <1>7 DEF Change
<1>8. CASE UNCHANGED vars
  BY <1>4, <1>8 DEF vars, thread
<1> QED
  BY <1>1, <1>2, <1>3, <1>5, <1>6, <1>7, <1>8 DEF Next

(* A table that is reset under the lock of its visit, and not forgotten:   *)
(* between two visits its counter is what the caller has been told.        *)
THEOREM ResetsTellAll == Spec => []Rebroadcast
<1>1. Init => Balanced
  BY ConstantsAssumption
     DEF Init, Balanced, Balance, Reliable, Held, Visited
<1>2. TypeOK /\ Balanced /\ [Next]_vars => Balanced'
  BY BalancedStep
<1>3. Balanced => Rebroadcast
  BY DEF Balanced, Balance, Rebroadcast
<1> QED
  BY <1>1, <1>2, <1>3, TypeCorrect, PTL DEF Spec
=============================================================================
