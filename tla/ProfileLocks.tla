---------------------------- MODULE ProfileLocks ----------------------------
(***************************************************************************)
(* The threads of the process on their paths through the locks.  A thread  *)
(* makes one call after the other: those that serve WebPA, HTTP, rbus and  *)
(* IARM make requests, the thread of updateHandler visits the profiles.    *)
(* A step takes a lock, gives one back, or begins or ends a use of state.  *)
(*                                                                         *)
(* A GMutex is made by the first call of getLock, without a lock of its    *)
(* own: two threads may both find none and make one each.  What a lock     *)
(* still excludes after that, or after it was given back by a thread that  *)
(* does not hold it, nothing says: the model lets every thread pass a      *)
(* spoiled lock, and claims nothing of what it was there for.              *)
(***************************************************************************)
EXTENDS LockPaths

CONSTANTS
    Thread,      \* the threads
    Scope,       \* the calls of a behaviour are of one scope: of profiles
                 \* that use the state of each other
    Calls(_, _)  \* the paths of the calls that a thread makes in a scope

VARIABLES
    scope,  \* the scope of the behaviour
    path,   \* the path a thread is on
    at,     \* the place of its next step on it, 0 between calls
    making, \* the threads that found that a lock is not made
    owner,  \* who holds a lock
    made,   \* the lazy locks that are made
    spoiled \* the locks nothing is known of

ASSUME ThreadAssumption == "free" \notin Thread

vars == <<scope, path, at, making, owner, made, spoiled>>

Free == "free"

(* On path p, the lock l is held when step i comes.                        *)
HeldAt(p, i, l) ==
    \E j \in 1..(i - 1) :
        /\ p[j] = Lock(l)
        /\ \A k \in (j + 1)..(i - 1) : p[k] # Unlock(l)

(* The locks that p gives back without holding them.                       *)
Stray(p) ==
    {p[i].lock : i \in {j \in 1..Len(p) :
                          p[j].op = "unlock" /\ ~HeldAt(p, j, p[j].lock)}}

(* What is asked of a path: it uses state that is not shared only under    *)
(* its lock, takes locks in the order of their tiers, and gives them back. *)
Guarded(p) ==
    \A i \in 1..Len(p) : \A s \in p[i].uses :
        s \in Shared \/ s[1] \in Stray(p) \/ HeldAt(p, i, s[1])

Ordered(p) ==
    \A i \in 1..Len(p) : p[i].op = "lock" =>
        \A l \in AllLocks : HeldAt(p, i, l) => Tier(l) < Tier(p[i].lock)

Closed(p) == \A l \in AllLocks : ~HeldAt(p, Len(p) + 1, l)

Disciplined(s) ==
    \A t \in Thread : \A p \in Calls(s, t) :
        Guarded(p) /\ Ordered(p) /\ Closed(p)

Step(t) == path[t][at[t]]

Spoil(locks) ==
    /\ spoiled' = spoiled \cup locks
    /\ owner' = [l \in AllLocks |-> IF l \in locks THEN Free ELSE owner[l]]

(* The step of t is done; a call ends with the last step of its path.      *)
Pass(t) ==
    LET last == at[t] = Len(path[t])
    IN /\ at' = [at EXCEPT ![t] = IF last THEN 0 ELSE @ + 1]
       /\ path' = [path EXCEPT ![t] = IF last THEN <<>> ELSE @]

-----------------------------------------------------------------------------

Call(t) ==
    /\ at[t] = 0
    /\ \E p \in Calls(scope, t) :
        /\ p # <<>>
        /\ path' = [path EXCEPT ![t] = p]
        /\ Spoil(Stray(p))
    /\ at' = [at EXCEPT ![t] = 1]
    /\ UNCHANGED <<scope, making, made>>

(* getLock, in three steps: no mutex was found, it is made, it is locked.  *)
SeeNone(t) ==
    /\ at[t] > 0 /\ t \notin making
    /\ Step(t).op = "lock" /\ Step(t).lock \in Lazy \ made
    /\ making' = making \cup {t}
    /\ UNCHANGED <<scope, path, at, owner, made, spoiled>>

Make(t) ==
    /\ t \in making
    /\ Spoil(IF Step(t).lock \in made THEN {Step(t).lock} ELSE {})
    /\ made' = made \cup {Step(t).lock}
    /\ making' = making \ {t}
    /\ UNCHANGED <<scope, path, at>>

(* The lock is there, but another thread holds it.                         *)
Waits(t) ==
    /\ at[t] > 0 /\ t \notin making
    /\ Step(t).op = "lock"
    /\ Step(t).lock \notin (Lazy \ made) \cup spoiled
    /\ owner[Step(t).lock] # Free

(* Mutant: the lock is taken though another thread holds it.               *)
XAcquireHeld(t) ==
    /\ at[t] > 0 /\ t \notin making
    /\ Step(t).op = "lock" /\ Step(t).lock \notin Lazy \ made
    /\ owner' = [owner EXCEPT ![Step(t).lock] = t]
    /\ Pass(t)
    /\ UNCHANGED <<scope, making, made, spoiled>>

Acquire(t) ==
    /\ at[t] > 0 /\ t \notin making
    /\ Step(t).op = "lock" /\ Step(t).lock \notin Lazy \ made
    /\ ~Waits(t)
    /\ owner' = IF Step(t).lock \in spoiled THEN owner
                ELSE [owner EXCEPT ![Step(t).lock] = t]
    /\ Pass(t)
    /\ UNCHANGED <<scope, making, made, spoiled>>

Release(t) ==
    /\ at[t] > 0 /\ Step(t).op = "unlock"
    /\ owner' = [owner EXCEPT ![Step(t).lock] = Free]
    /\ Pass(t)
    /\ UNCHANGED <<scope, making, made, spoiled>>

(* A thread uses state from the step before to this one.                   *)
Used(t) ==
    /\ at[t] > 0 /\ Step(t).op = "use"
    /\ Pass(t)
    /\ UNCHANGED <<scope, making, owner, made, spoiled>>

Init ==
    /\ scope \in Scope
    /\ path = [t \in Thread |-> <<>>]
    /\ at = [t \in Thread |-> 0]
    /\ making = {}
    /\ owner = [l \in AllLocks |-> Free]
    /\ made = {} /\ spoiled = {}

Next == \E t \in Thread : \/ Call(t) \/ SeeNone(t) \/ Make(t)
                          \/ Acquire(t) \/ Release(t) \/ Used(t)

Spec == Init /\ [][Next]_vars

-----------------------------------------------------------------------------
(* Properties                                                              *)

(* What the variables may hold.  The paths of the scope keep the           *)
(* discipline of the locks, which is looked at when nothing has happened   *)
(* yet; a thread that makes a lock is at one; nobody holds a spoiled lock. *)
TypeOK ==
    /\ scope \in Scope
    /\ (made = {} /\ \A t \in Thread : at[t] = 0) => Disciplined(scope)
    /\ \A t \in Thread : path[t] \in Calls(scope, t) \cup {<<>>}
    /\ \A t \in Thread : at[t] \in 0..Len(path[t])
    /\ making \subseteq {t \in Thread : at[t] > 0 /\ Step(t).op = "lock"}
    /\ owner \in [AllLocks -> Thread \cup {Free}]
    /\ made \subseteq Lazy
    /\ spoiled \subseteq {l \in AllLocks : owner[l] = Free}

Using(t) == IF at[t] > 0 THEN Step(t).uses ELSE {}

(* Two threads are never in the same state at once, unless the code shares *)
(* it without its lock or that lock is spoiled: a reset, a request or a    *)
(* visit never meets another in the counters, instances or notifications   *)
(* of a profile.                                                           *)
Apart ==
    \A t, u \in Thread : t # u =>
        \A s \in Using(t) \cap Using(u) : s \in Shared \/ s[1] \in spoiled

(* As long as a thread is in a call, one of them does not wait for a lock: *)
(* no circle of threads that wait for each other, and no early return that *)
(* leaves a lock locked for the calls to come.                             *)
NoDeadlock ==
    (\E t \in Thread : at[t] > 0) => \E t \in Thread : at[t] > 0 /\ ~Waits(t)

(* A thread that waits for a lock holds only locks of the tiers before it. *)
(* The order is kept nowhere in the code: it is what the nested calls of   *)
(* the dispatch, the handlers and the profiles come to.                    *)
InOrder ==
    \A t \in Thread : Waits(t) =>
        \A l \in AllLocks : owner[l] = t => Tier(l) < Tier(Step(t).lock)
=============================================================================
