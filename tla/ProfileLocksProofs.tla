------------------------- MODULE ProfileLocksProofs -------------------------
(***************************************************************************)
(* For any number of threads and any scopes of disciplined paths: two      *)
(* threads are never in the same guarded state, a thread waits only for    *)
(* locks of tiers above those it holds, and one of the threads in calls    *)
(* does not wait.                                                          *)
(*                                                                         *)
(* The invariant behind them is that the locks a thread holds are those    *)
(* that the part of its path behind it has locked and not unlocked.        *)
(***************************************************************************)
EXTENDS ProfileLocks, TLAPS

(* A sequence of steps on locks, and of uses of state.                     *)
IsPath(p) ==
    /\ \E S : p \in Seq(S)
    /\ \A i \in 1..Len(p) :
        \/ \E l \in AllLocks : p[i] = Lock(l) \/ p[i] = Unlock(l)
        \/ \E states : p[i] = Use(states)

(* What the run checks of the paths of the handlers.                       *)
Discipline ==
    /\ \A s \in Scope : Disciplined(s)
    /\ \A s \in Scope : \A t \in Thread : \A p \in Calls(s, t) : IsPath(p)

(* Thread t has locked l on its path so far.                               *)
Has(t, l) == at[t] > 0 /\ HeldAt(path[t], at[t], l)

Places ==
    /\ scope \in Scope
    /\ path = [t \in Thread |-> path[t]]
    /\ at \in [Thread -> Nat]
    /\ \A t \in Thread : path[t] \in Calls(scope, t) \cup {<<>>}
    /\ \A t \in Thread : at[t] \in 0..Len(path[t])

Making ==
    /\ making \subseteq Thread
    /\ \A t \in making : at[t] > 0 /\ Step(t).op = "lock" /\ Step(t).lock \in Lazy
    /\ made \subseteq Lazy

Owners ==
    /\ owner \in [AllLocks -> Thread \cup {Free}]
    /\ spoiled \subseteq {l \in AllLocks : owner[l] = Free}

(* What a thread has locked it holds, unless the lock is spoiled.          *)
HeldOwned ==
    \A t \in Thread : \A l \in AllLocks \ spoiled : Has(t, l) => owner[l] = t

OwnedHeld == \A t \in Thread : \A l \in AllLocks : owner[l] = t => Has(t, l)

StraySpoiled == \A t \in Thread : at[t] > 0 => Stray(path[t]) \subseteq spoiled

IInv == Places /\ Making /\ Owners /\ HeldOwned /\ OwnedHeld /\ StraySpoiled

-----------------------------------------------------------------------------
(* Facts about paths                                                       *)

LEMMA TierRange == \A l \in AllLocks : Tier(l) \in 1..4
  BY DEF Tier, AllLocks

LEMMA StepKinds ==
    /\ \A l, m : Lock(l) # Unlock(m)
    /\ \A l, m : Lock(l) = Lock(m) => l = m
    /\ \A l, m : Unlock(l) = Unlock(m) => l = m
    /\ \A l : Lock(l).op = "lock" /\ Lock(l).lock = l
    /\ \A l : Unlock(l).op = "unlock" /\ Unlock(l).lock = l
    /\ \A states : Use(states).op = "use"
  BY DEF Lock, Unlock, Use

LEMMA NothingFirst == \A p, l : ~HeldAt(p, 1, l)
  BY DEF HeldAt

LEMMA HeldNext ==
    ASSUME NEW p, NEW l, NEW i \in Nat \ {0}
    PROVE  HeldAt(p, i + 1, l)
           <=> p[i] = Lock(l) \/ (HeldAt(p, i, l) /\ p[i] # Unlock(l))
<1>1. ASSUME HeldAt(p, i + 1, l), p[i] # Lock(l)
      PROVE  HeldAt(p, i, l) /\ p[i] # Unlock(l)
  <2>1. PICK j \in 1..i : /\ p[j] = Lock(l)
                          /\ \A k \in (j + 1)..i : p[k] # Unlock(l)
    BY <1>1 DEF HeldAt
  <2>2. j \in 1..(i - 1) /\ i \in (j + 1)..i
    BY <2>1, <1>1
  <2> QED
    BY <2>1, <2>2 DEF HeldAt
<1>2. ASSUME p[i] = Lock(l)
      PROVE  HeldAt(p, i + 1, l)
  <2>1. i \in 1..i /\ \A k \in (i + 1)..i : FALSE
    OBVIOUS
  <2> QED
    BY <1>2, <2>1 DEF HeldAt
<1>3. ASSUME HeldAt(p, i, l), p[i] # Unlock(l)
      PROVE  HeldAt(p, i + 1, l)
  <2>1. PICK j \in 1..(i - 1) :
          p[j] = Lock(l) /\ \A k \in (j + 1)..(i - 1) : p[k] # Unlock(l)
    BY <1>3 DEF HeldAt
  <2>2. j \in 1..i /\ \A k \in (j + 1)..i : k = i \/ k \in (j + 1)..(i - 1)
    OBVIOUS
  <2> QED
    BY <1>3, <2>1, <2>2 DEF HeldAt
<1> QED
  BY <1>1, <1>2, <1>3

(* A thread in a call is on a disciplined path.                            *)
LEMMA InCall ==
    ASSUME Discipline, Places, NEW t \in Thread, at[t] > 0
    PROVE  /\ path[t] \in Calls(scope, t)
           /\ IsPath(path[t])
           /\ Guarded(path[t]) /\ Ordered(path[t]) /\ Closed(path[t])
           /\ Len(path[t]) \in Nat /\ at[t] \in 1..Len(path[t])
<1>1. Len(<<>>) = 0
  OBVIOUS
<1>2. path[t] # <<>>
  BY <1>1 DEF Places
<1>3. path[t] \in Calls(scope, t) /\ scope \in Scope
  BY <1>2 DEF Places
<1>4. IsPath(path[t]) /\ Guarded(path[t]) /\ Ordered(path[t]) /\ Closed(path[t])
  BY <1>3 DEF Discipline, Disciplined
<1>5. Len(path[t]) \in Nat
  BY <1>4 DEF IsPath
<1> QED
  BY <1>3, <1>4, <1>5 DEF Places

LEMMA StepIs ==
    ASSUME Discipline, Places, NEW t \in Thread, at[t] > 0
    PROVE  /\ Step(t).op = "lock" =>
                Step(t).lock \in AllLocks /\ Step(t) = Lock(Step(t).lock)
           /\ Step(t).op = "unlock" =>
                Step(t).lock \in AllLocks /\ Step(t) = Unlock(Step(t).lock)
<1>1. \/ \E l \in AllLocks : Step(t) = Lock(l) \/ Step(t) = Unlock(l)
      \/ \E states : Step(t) = Use(states)
  BY InCall DEF IsPath, Step
<1>2. ASSUME NEW l \in AllLocks, Step(t) = Lock(l)
      PROVE  Step(t).op # "unlock" /\ Step(t).lock = l
  BY <1>2, StepKinds
<1>3. ASSUME NEW l \in AllLocks, Step(t) = Unlock(l)
      PROVE  Step(t).op # "lock" /\ Step(t).lock = l
  BY <1>3, StepKinds
<1>4. ASSUME NEW states, Step(t) = Use(states)
      PROVE  Step(t).op # "lock" /\ Step(t).op # "unlock"
  BY <1>4, StepKinds
<1> QED
  BY <1>1, <1>2, <1>3, <1>4

LEMMA StrayLocks == ASSUME NEW p, IsPath(p) PROVE Stray(p) \subseteq AllLocks
<1>1. ASSUME NEW i \in 1..Len(p), p[i].op = "unlock"
      PROVE  p[i].lock \in AllLocks
  <2>1. \/ \E l \in AllLocks : p[i] = Lock(l) \/ p[i] = Unlock(l)
        \/ \E states : p[i] = Use(states)
    BY DEF IsPath
  <2>2. ASSUME NEW l \in AllLocks, p[i] = Lock(l) \/ p[i] = Unlock(l)
        PROVE  p[i].lock \in AllLocks
    BY <2>2 DEF Lock, Unlock
  <2>3. ASSUME NEW states, p[i] = Use(states)
        PROVE  FALSE
    BY <1>1, <2>3 DEF Use
  <2> QED
    BY <2>1, <2>2, <2>3
<1> QED
  BY <1>1 DEF Stray

-----------------------------------------------------------------------------
(* What a step past one place does                                         *)

LEMMA PassHas ==
    ASSUME Discipline, Places, NEW t \in Thread, at[t] > 0, Pass(t), NEW l \in AllLocks
    PROVE  /\ Has(t, l)' <=> \/ Step(t) = Lock(l)
                             \/ Has(t, l) /\ Step(t) # Unlock(l)
           /\ \A u \in Thread \ {t} : Has(u, l)' <=> Has(u, l)
<1> DEFINE p == path[t]
           last == at[t] = Len(p)
<1>1. /\ Len(p) \in Nat /\ at[t] \in 1..Len(p) /\ Closed(p)
  BY InCall
<1>2. HeldAt(p, at[t] + 1, l)
      <=> Step(t) = Lock(l) \/ (Has(t, l) /\ Step(t) # Unlock(l))
  BY <1>1, HeldNext DEF Has, Step
<1>3. /\ at'[t] = IF last THEN 0 ELSE at[t] + 1
      /\ path'[t] = IF last THEN <<>> ELSE p
      /\ \A u \in Thread \ {t} : at'[u] = at[u] /\ path'[u] = path[u]
  BY DEF Pass, Places
<1>4. last => ~HeldAt(p, at[t] + 1, l)
  BY <1>1 DEF Closed
<1>5. ~last => (Has(t, l)' <=> HeldAt(p, at[t] + 1, l))
  BY <1>1, <1>3 DEF Has
<1> QED
  BY <1>1, <1>2, <1>3, <1>4, <1>5 DEF Has


LEMMA PassPlaces ==
    ASSUME Discipline, IInv, NEW t \in Thread \ making, at[t] > 0, Pass(t),
           scope' = scope, making' = making, made' = made, spoiled' = spoiled
    PROVE  Places' /\ Making' /\ StraySpoiled'
<1> DEFINE last == at[t] = Len(path[t])
<1>1. /\ Len(path[t]) \in Nat /\ at[t] \in 1..Len(path[t])
      /\ path[t] \in Calls(scope, t)
  BY InCall DEF IInv
<1>2. Places /\ Making /\ StraySpoiled
  BY DEF IInv
<1>3. /\ at' = [at EXCEPT ![t] = IF last THEN 0 ELSE @ + 1]
      /\ path' = [path EXCEPT ![t] = IF last THEN <<>> ELSE @]
  BY DEF Pass
<1>4. /\ at'[t] = IF last THEN 0 ELSE at[t] + 1
      /\ path'[t] = IF last THEN <<>> ELSE path[t]
      /\ \A u \in Thread \ {t} : at'[u] = at[u] /\ path'[u] = path[u]
  BY <1>2, <1>3 DEF Places
<1>5. Places'
  <2>1. scope' \in Scope /\ at' \in [Thread -> Nat]
    BY <1>1, <1>2, <1>3 DEF Places
  <2>2. path' = [u \in Thread |-> path'[u]]
    BY <1>2, <1>3 DEF Places
  <2>3. ASSUME NEW u \in Thread
        PROVE  path'[u] \in Calls(scope, u) \cup {<<>>}
    BY <1>1, <1>2, <1>4 DEF Places
  <2>4. at'[t] \in 0..Len(path'[t])
    <3>1. CASE last
      <4>1. Len(<<>>) = 0
        OBVIOUS
      <4> QED
        BY <3>1, <4>1, <1>4
    <3>2. CASE ~last
      BY <3>2, <1>1, <1>4
    <3> QED
      BY <3>1, <3>2
  <2>5. \A u \in Thread : at'[u] \in 0..Len(path'[u])
    BY <2>4, <1>2, <1>4 DEF Places
  <2> QED
    BY <2>1, <2>2, <2>3, <2>5 DEF Places
<1>6. Making'
  BY <1>2, <1>4 DEF Making, Step
<1>7. StraySpoiled'
  <2>1. at'[t] > 0 => path'[t] = path[t]
    BY <1>1, <1>4
  <2> QED
    BY <2>1, <1>2, <1>4 DEF StraySpoiled
<1> QED
  BY <1>5, <1>6, <1>7

-----------------------------------------------------------------------------
(* The invariant                                                           *)

LEMMA InitInv == ASSUME ThreadAssumption, Init PROVE IInv
<1>1. Places
  <2>1. Len(<<>>) = 0
    OBVIOUS
  <2> QED
    BY <2>1 DEF Init, Places
<1>2. Making /\ StraySpoiled
  BY DEF Init, Making, StraySpoiled
<1>3. Owners
  BY DEF Init, Owners
<1>4. HeldOwned /\ OwnedHeld
  BY DEF Init, HeldOwned, OwnedHeld, Has, ThreadAssumption, Free
<1> QED
  BY <1>1, <1>2, <1>3, <1>4 DEF IInv

LEMMA AcquireInv ==
    ASSUME ThreadAssumption, Discipline, IInv, NEW t \in Thread, Acquire(t)
    PROVE  IInv'
<1> DEFINE l == Step(t).lock
<1>1. /\ at[t] > 0 /\ t \notin making /\ Step(t).op = "lock"
      /\ l \notin Lazy \ made /\ ~Waits(t) /\ Pass(t)
      /\ owner' = IF l \in spoiled THEN owner ELSE [owner EXCEPT ![l] = t]
      /\ scope' = scope /\ making' = making /\ made' = made
      /\ spoiled' = spoiled
  BY DEF Acquire
<1>2. Places /\ Owners /\ HeldOwned /\ OwnedHeld
  BY DEF IInv
<1>3. Step(t) = Lock(l) /\ l \in AllLocks
  BY <1>1, <1>2, StepIs
<1>4. Places' /\ Making' /\ StraySpoiled'
  BY <1>1, PassPlaces
<1>5. \A m \in AllLocks : /\ Has(t, m)' <=> m = l \/ Has(t, m)
                          /\ \A u \in Thread \ {t} : Has(u, m)' <=> Has(u, m)
  <2> SUFFICES ASSUME NEW m \in AllLocks
               PROVE  /\ Has(t, m)' <=> m = l \/ Has(t, m)
                      /\ \A u \in Thread \ {t} : Has(u, m)' <=> Has(u, m)
    OBVIOUS
  <2>1. Step(t) = Lock(m) <=> m = l
    BY <1>3, StepKinds
  <2>2. Step(t) # Unlock(m)
    BY <1>3, StepKinds
  <2> QED
    BY <1>1, <1>2, <2>1, <2>2, PassHas
<1>6. l \notin spoiled => owner[l] = Free
  BY <1>1 DEF Waits
<1> HIDE DEF l
<1>7. Owners'
  BY <1>1, <1>2, <1>3 DEF Owners
<1>8. HeldOwned'
  BY <1>1, <1>2, <1>3, <1>5, <1>6
     DEF HeldOwned, Owners, ThreadAssumption, Free
<1>9. OwnedHeld'
  BY <1>1, <1>2, <1>3, <1>5 DEF OwnedHeld, Owners
<1> QED
  BY <1>4, <1>7, <1>8, <1>9 DEF IInv

LEMMA ReleaseInv ==
    ASSUME ThreadAssumption, Discipline, IInv, NEW t \in Thread, Release(t)
    PROVE  IInv'
<1> DEFINE l == Step(t).lock
<1>1. /\ at[t] > 0 /\ Step(t).op = "unlock" /\ Pass(t)
      /\ owner' = [owner EXCEPT ![l] = Free]
      /\ scope' = scope /\ making' = making /\ made' = made
      /\ spoiled' = spoiled
  BY DEF Release
<1>2. /\ Places /\ Making /\ Owners /\ HeldOwned /\ OwnedHeld
      /\ StraySpoiled
  BY DEF IInv
<1>3. Step(t) = Unlock(l) /\ l \in AllLocks
  BY <1>1, <1>2, StepIs
<1>4. t \notin making
  BY <1>1, <1>2 DEF Making
<1>5. Places' /\ Making' /\ StraySpoiled'
  BY <1>1, <1>4, PassPlaces
<1>6. \A m \in AllLocks : /\ Has(t, m)' <=> m # l /\ Has(t, m)
                          /\ \A u \in Thread \ {t} : Has(u, m)' <=> Has(u, m)
  <2> SUFFICES ASSUME NEW m \in AllLocks
               PROVE  /\ Has(t, m)' <=> m # l /\ Has(t, m)
                      /\ \A u \in Thread \ {t} : Has(u, m)' <=> Has(u, m)
    OBVIOUS
  <2>1. Step(t) = Unlock(m) <=> m = l
    BY <1>3, StepKinds
  <2>2. Step(t) # Lock(m)
    BY <1>3, StepKinds
  <2> QED
    BY <1>1, <1>2, <2>1, <2>2, PassHas
<1>7. l \in spoiled \/ Has(t, l)
  <2>1. at[t] \in 1..Len(path[t])
    BY <1>1, <1>2, InCall
  <2>2. ~Has(t, l) => l \in Stray(path[t])
    BY <1>1, <2>1 DEF Has, Stray, Step
  <2> QED
    BY <1>1, <1>2, <2>2 DEF StraySpoiled
<1> HIDE DEF l
<1>8. Owners'
  BY <1>1, <1>2, <1>3 DEF Owners
<1>9. HeldOwned'
  BY <1>1, <1>2, <1>3, <1>6, <1>7 DEF HeldOwned, Owners
<1>10. OwnedHeld'
  BY <1>1, <1>2, <1>3, <1>6 DEF OwnedHeld, Owners, ThreadAssumption, Free
<1> QED
  BY <1>5, <1>8, <1>9, <1>10 DEF IInv

LEMMA UsedInv ==
    ASSUME Discipline, IInv, NEW t \in Thread, Used(t)
    PROVE  IInv'
<1>1. /\ at[t] > 0 /\ Step(t).op = "use" /\ Pass(t) /\ owner' = owner
      /\ scope' = scope /\ making' = making /\ made' = made
      /\ spoiled' = spoiled
  BY DEF Used
<1>2. Places /\ Making /\ Owners /\ HeldOwned /\ OwnedHeld
  BY DEF IInv
<1>3. t \notin making
  BY <1>1, <1>2 DEF Making
<1>4. Places' /\ Making' /\ StraySpoiled'
  BY <1>1, <1>3, PassPlaces
<1>5. \A u \in Thread, m \in AllLocks : Has(u, m)' <=> Has(u, m)
  <2> SUFFICES ASSUME NEW m \in AllLocks
               PROVE  \A u \in Thread : Has(u, m)' <=> Has(u, m)
    OBVIOUS
  <2>1. Step(t) # Lock(m) /\ Step(t) # Unlock(m)
    BY <1>1, StepKinds
  <2> QED
    BY <1>1, <1>2, <2>1, PassHas
<1>6. Owners' /\ HeldOwned' /\ OwnedHeld'
  BY <1>1, <1>2, <1>5 DEF Owners, HeldOwned, OwnedHeld
<1> QED
  BY <1>4, <1>6 DEF IInv

LEMMA CallInv ==
    ASSUME ThreadAssumption, Discipline, IInv, NEW t \in Thread, Call(t)
    PROVE  IInv'
<1>1. PICK p \in Calls(scope, t) :
        /\ p # <<>>
        /\ path' = [path EXCEPT ![t] = p]
        /\ spoiled' = spoiled \cup Stray(p)
        /\ owner' = [l \in AllLocks |->
                       IF l \in Stray(p) THEN Free ELSE owner[l]]
  BY DEF Call, Spoil
<1>2. /\ at[t] = 0 /\ at' = [at EXCEPT ![t] = 1]
      /\ scope' = scope /\ making' = making /\ made' = made
  BY DEF Call
<1>3. /\ Places /\ Making /\ Owners /\ HeldOwned /\ OwnedHeld
      /\ StraySpoiled
  BY DEF IInv
<1>4. IsPath(p)
  BY <1>3 DEF Places, Discipline
<1>5. /\ at'[t] = 1 /\ path'[t] = p
      /\ \A u \in Thread \ {t} : at'[u] = at[u] /\ path'[u] = path[u]
  BY <1>1, <1>2, <1>3 DEF Places
<1>6. Len(p) \in Nat \ {0}
  BY <1>1, <1>4 DEF IsPath
<1>7. Places'
  <2>1. scope' \in Scope /\ at' \in [Thread -> Nat]
    BY <1>2, <1>3 DEF Places
  <2>2. path' = [u \in Thread |-> path'[u]]
    BY <1>1, <1>3 DEF Places
  <2>3. \A u \in Thread : /\ path'[u] \in Calls(scope, u) \cup {<<>>}
                          /\ at'[u] \in 0..Len(path'[u])
    BY <1>3, <1>5, <1>6 DEF Places
  <2> QED
    BY <2>1, <2>2, <2>3, <1>2 DEF Places
<1>8. Making'
  BY <1>2, <1>3, <1>5 DEF Making, Step
<1>9. Owners'
  BY <1>1, <1>3, <1>4, StrayLocks DEF Owners
<1>10. \A m \in AllLocks : /\ ~Has(t, m) /\ ~Has(t, m)'
                           /\ \A u \in Thread \ {t} : Has(u, m)' <=> Has(u, m)
  BY <1>2, <1>5, NothingFirst DEF Has
<1>11. HeldOwned'
  BY <1>1, <1>3, <1>10 DEF HeldOwned
<1>12. OwnedHeld'
  BY <1>1, <1>3, <1>10 DEF OwnedHeld, ThreadAssumption, Free
<1>13. StraySpoiled'
  BY <1>1, <1>3, <1>5 DEF StraySpoiled
<1> QED
  BY <1>7, <1>8, <1>9, <1>11, <1>12, <1>13 DEF IInv

LEMMA MakeInv ==
    ASSUME ThreadAssumption, Discipline, IInv, NEW t \in Thread, Make(t)
    PROVE  IInv'
<1> DEFINE l == Step(t).lock
           twice == IF l \in made THEN {l} ELSE {}
<1>1. /\ t \in making /\ made' = made \cup {l} /\ making' = making \ {t}
      /\ scope' = scope /\ path' = path /\ at' = at
      /\ spoiled' = spoiled \cup twice
      /\ owner' = [m \in AllLocks |->
                     IF m \in twice THEN Free ELSE owner[m]]
  BY DEF Make, Spoil
<1>2. /\ Places /\ Making /\ Owners /\ HeldOwned /\ OwnedHeld
      /\ StraySpoiled
  BY DEF IInv
<1>3. at[t] > 0 /\ l \in Lazy /\ l \in AllLocks
  BY <1>1, <1>2, StepIs DEF Making
<1>4. Places' /\ StraySpoiled'
  BY <1>1, <1>2 DEF Places, StraySpoiled
<1>5. Making'
  BY <1>1, <1>2, <1>3 DEF Making, Step
<1>6. \A u \in Thread, m \in AllLocks : Has(u, m)' <=> Has(u, m)
  BY <1>1 DEF Has
<1>7. twice \subseteq AllLocks
  BY <1>3
<1> HIDE DEF twice
<1>8. Owners'
  BY <1>1, <1>2, <1>7 DEF Owners
<1>9. HeldOwned'
  BY <1>1, <1>2, <1>6 DEF HeldOwned
<1>10. OwnedHeld'
  BY <1>1, <1>2, <1>6 DEF OwnedHeld, ThreadAssumption, Free
<1> QED
  BY <1>4, <1>5, <1>8, <1>9, <1>10 DEF IInv

LEMMA SeeNoneInv ==
    ASSUME IInv, NEW t \in Thread, SeeNone(t)
    PROVE  IInv'
<1>1. /\ at[t] > 0 /\ Step(t).op = "lock" /\ Step(t).lock \in Lazy \ made
      /\ making' = making \cup {t}
      /\ UNCHANGED <<scope, path, at, owner, made, spoiled>>
  BY DEF SeeNone
<1>2. Places' /\ Owners' /\ HeldOwned' /\ OwnedHeld' /\ StraySpoiled'
  BY <1>1 DEF IInv, Places, Owners, HeldOwned, OwnedHeld, StraySpoiled, Has
<1>3. Making'
  BY <1>1 DEF IInv, Making, Step
<1> QED
  BY <1>2, <1>3 DEF IInv

(* The locks a thread holds are those its path has locked and not          *)
(* unlocked, in every state of every set of threads.                       *)
THEOREM Invariant == ASSUME Discipline PROVE Spec => []IInv
<1>1. Init => IInv
  BY ThreadAssumption, InitInv
<1>2. IInv /\ [Next]_vars => IInv'
  <2> SUFFICES ASSUME IInv, [Next]_vars PROVE IInv'
    OBVIOUS
  <2>1. CASE UNCHANGED vars
    BY <2>1 DEF vars, IInv, Places, Making, Owners, HeldOwned, OwnedHeld,
                StraySpoiled, Has, Step
  <2>2. ASSUME NEW t \in Thread,
               \/ Call(t) \/ SeeNone(t) \/ Make(t)
               \/ Acquire(t) \/ Release(t) \/ Used(t)
        PROVE  IInv'
    BY <2>2, ThreadAssumption, CallInv, SeeNoneInv, MakeInv, AcquireInv,
       ReleaseInv, UsedInv
  <2> QED
    BY <2>1, <2>2 DEF Next
<1> QED
  BY <1>1, <1>2, PTL DEF Spec


-----------------------------------------------------------------------------
(* What the invariant says                                                 *)

(* Every variable stays within its type, on the disciplined paths of the   *)
(* handlers.                                                               *)
THEOREM TypeCorrect == ASSUME Discipline PROVE Spec => []TypeOK
<1>1. IInv => TypeOK
  <2> SUFFICES ASSUME IInv PROVE TypeOK
    OBVIOUS
  <2>1. scope \in Scope /\ Disciplined(scope)
    BY DEF IInv, Places, Discipline
  <2>2. making \subseteq {t \in Thread : at[t] > 0 /\ Step(t).op = "lock"}
    BY DEF IInv, Making
  <2> QED
    BY <2>1, <2>2 DEF IInv, Places, Making, Owners, TypeOK
<1> QED
  BY <1>1, Invariant, PTL

(* Two threads are never in the same state of a profile at once, unless    *)
(* the code shares it without its lock or that lock is spoiled.            *)
THEOREM Separated ==
    ASSUME Discipline PROVE Spec => []Apart
<1>1. IInv => Apart
  <2> SUFFICES ASSUME IInv, NEW t \in Thread, NEW u \in Thread, t # u,
                      NEW s \in Using(t) \cap Using(u),
                      s \notin Shared, s[1] \notin spoiled
               PROVE  FALSE
    BY DEF Apart
  <2>1. Places /\ HeldOwned /\ StraySpoiled
    BY DEF IInv
  <2>2. at[t] > 0 /\ at[u] > 0 /\ s \in Step(t).uses /\ s \in Step(u).uses
    BY DEF Using
  <2>3. ASSUME NEW v \in Thread, at[v] > 0, s \in Step(v).uses
        PROVE  s[1] \in AllLocks /\ owner[s[1]] = v
    <3>1. /\ at[v] \in 1..Len(path[v])
          /\ Guarded(path[v]) /\ IsPath(path[v])
      BY <2>1, <2>3, InCall
    <3>2. s[1] \notin Stray(path[v])
      BY <2>1, <2>3 DEF StraySpoiled
    <3>3. HeldAt(path[v], at[v], s[1])
      BY <2>3, <3>1, <3>2 DEF Guarded, Step
    <3>4. PICK j \in 1..(at[v] - 1) : path[v][j] = Lock(s[1])
      BY <3>3 DEF HeldAt
    <3>5. \/ \E l \in AllLocks : path[v][j] = Lock(l) \/ path[v][j] = Unlock(l)
          \/ \E states : path[v][j] = Use(states)
      BY <3>1, <3>4 DEF IsPath
    <3>6. s[1] \in AllLocks
      <4>1. ASSUME NEW l \in AllLocks,
                   path[v][j] = Lock(l) \/ path[v][j] = Unlock(l)
            PROVE  s[1] \in AllLocks
        BY <3>4, <4>1 DEF Lock, Unlock
      <4>2. ASSUME NEW states, path[v][j] = Use(states)
            PROVE  FALSE
        BY <3>4, <4>2 DEF Lock, Use
      <4> QED
        BY <3>5, <4>1, <4>2
    <3> QED
      BY <2>1, <2>3, <3>3, <3>6 DEF HeldOwned, Has
  <2> QED
    BY <2>2, <2>3
<1> QED
  BY <1>1, Invariant, PTL

LEMMA OrderHolds ==
    ASSUME Discipline, IInv, NEW t \in Thread, Waits(t), NEW l \in AllLocks,
           owner[l] = t
    PROVE  Tier(l) < Tier(Step(t).lock)
<1>1. at[t] > 0 /\ Step(t).op = "lock"
  BY DEF Waits
<1>2. Ordered(path[t]) /\ at[t] \in 1..Len(path[t])
  BY <1>1, InCall DEF IInv
<1>3. HeldAt(path[t], at[t], l)
  BY DEF IInv, OwnedHeld, Has
<1> QED
  BY <1>1, <1>2, <1>3 DEF Ordered, Step

(* A thread that waits for a lock holds only locks of the tiers before it. *)
THEOREM OrderAlways == ASSUME Discipline PROVE Spec => []InOrder
<1>1. IInv => InOrder
  BY OrderHolds DEF InOrder
<1> QED
  BY <1>1, Invariant, PTL

(* Who holds the lock that a waiting thread waits for waits, if at all,    *)
(* for a lock of a higher tier.                                            *)
LEMMA Climb ==
    ASSUME Discipline, IInv, NEW t \in Thread, Waits(t)
    PROVE  /\ Step(t).lock \in AllLocks
           /\ \E u \in Thread :
                /\ at[u] > 0
                /\ Waits(u) => Tier(Step(t).lock) < Tier(Step(u).lock)
<1>1. at[t] > 0 /\ Step(t).op = "lock" /\ owner[Step(t).lock] # Free
  BY DEF Waits
<1>2. Step(t).lock \in AllLocks
  BY <1>1, StepIs DEF IInv
<1>3. PICK u \in Thread : owner[Step(t).lock] = u
  BY <1>1, <1>2 DEF IInv, Owners
<1>4. at[u] > 0
  BY <1>2, <1>3 DEF IInv, OwnedHeld, Has
<1>5. Waits(u) => Tier(Step(t).lock) < Tier(Step(u).lock)
  BY <1>2, <1>3, OrderHolds
<1> QED
  BY <1>2, <1>4, <1>5

(* As long as a thread is in a call, one of them does not wait: with four  *)
(* tiers, four threads that wait for each other would need a fifth tier.   *)
THEOREM NeverStuck == ASSUME Discipline PROVE Spec => []NoDeadlock
<1>1. IInv => NoDeadlock
  <2> SUFFICES ASSUME IInv, NEW t \in Thread, at[t] > 0,
                      \A u \in Thread : at[u] > 0 => Waits(u)
               PROVE  FALSE
    BY DEF NoDeadlock
  <2>1. ASSUME NEW u \in Thread, at[u] > 0
        PROVE  /\ Tier(Step(u).lock) \in 1..4
               /\ \E v \in Thread :
                    at[v] > 0 /\ Tier(Step(u).lock) < Tier(Step(v).lock)
    BY <2>1, Climb, TierRange
  <2>2. PICK t2 \in Thread :
          at[t2] > 0 /\ Tier(Step(t).lock) < Tier(Step(t2).lock)
    BY <2>1
  <2>3. PICK t3 \in Thread :
          at[t3] > 0 /\ Tier(Step(t2).lock) < Tier(Step(t3).lock)
    BY <2>1, <2>2
  <2>4. PICK t4 \in Thread :
          at[t4] > 0 /\ Tier(Step(t3).lock) < Tier(Step(t4).lock)
    BY <2>1, <2>3
  <2>5. PICK t5 \in Thread :
          at[t5] > 0 /\ Tier(Step(t4).lock) < Tier(Step(t5).lock)
    BY <2>1, <2>4
  <2>6. /\ Tier(Step(t).lock) \in 1..4 /\ Tier(Step(t2).lock) \in 1..4
        /\ Tier(Step(t3).lock) \in 1..4 /\ Tier(Step(t4).lock) \in 1..4
        /\ Tier(Step(t5).lock) \in 1..4
    BY <2>1, <2>2, <2>3, <2>4, <2>5
  <2> QED
    BY <2>2, <2>3, <2>4, <2>5, <2>6
<1> QED
  BY <1>1, Invariant, PTL

=============================================================================
