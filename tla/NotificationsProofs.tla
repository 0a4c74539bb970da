------------------------- MODULE NotificationsProofs ------------------------
(***************************************************************************)
(* For any number of threads and notifications: a thread is on its way for *)
(* each notification in the queue, and none is sent before the connection  *)
(* has been open, even when getInstance makes two handlers.                *)
(***************************************************************************)
EXTENDS Notifications, FiniteSetTheorems, TLAPS

-----------------------------------------------------------------------------
(* Types, with what a thread holds at each label.                          *)

Holding == \A t \in Thread : pc[t] \in {"push", "send"} => hold[t] \in Note

(* There is a queue once a handler is made, and while one pops.            *)
QueueThere ==
    /\ \A t \in Thread : pc[t] = "callback" => Len(queues) > 0
    /\ \A t \in Thread : pc[t] = "pop" => at[t] > 0

(* A pusher makes the handler in the middle of notifying.                  *)
HoldingEarly ==
    \A t \in Pusher : pc[t] \in {"construct", "assign"} => hold[t] \in Note

TypeInv == TypeOK /\ Holding /\ QueueThere /\ HoldingEarly

LEMMA Powers == 2^2 = 4 /\ 2^3 = 8 /\ 2^4 = 16 /\ 2^5 = 32
<1>1. 2^2 = 4
  BY SMT
<1>2. 2^3 = 8
  BY SMT
<1>3. 2^4 = 16
  BY SMT
<1>4. 2^5 = 32
  BY SMT
<1> QED
  BY <1>1, <1>2, <1>3, <1>4

(* The pauses of connect_parodus.                                          *)
Pauses == {<<2, 0>>, <<3, 3>>, <<4, 7>>, <<5, 15>>}

LEMMA NextPause ==
    ASSUME <<c, backoffRetryTime>> \in Pauses, RetryConnect
    PROVE  <<c', backoffRetryTime'>> \in Pauses
<1> USE DEF RetryConnect, max_retry_sleep, Pauses
<1>1. CASE c = 2 /\ backoffRetryTime = 0
  BY <1>1, Powers
<1>2. CASE c = 3 /\ backoffRetryTime = 3
  BY <1>2, Powers
<1>3. CASE c = 4 /\ backoffRetryTime = 7
  BY <1>3, Powers
<1>4. CASE c = 5 /\ backoffRetryTime = 15
  BY <1>4, Powers
<1> QED
  BY <1>1, <1>2, <1>3, <1>4

LEMMA TypeInit == Init => TypeInv
<1> SUFFICES ASSUME Init
             PROVE  TypeInv
  OBVIOUS
<1> USE DEF Init
<1>1. queues \in Seq(Seq(Note)) /\ Len(queues) = 0
  OBVIOUS
<1>2. pc \in [Thread -> {"start", "idle"}]
  OBVIOUS
<1>3. at \in [Thread -> 0..Len(queues)]
  BY <1>1
<1>4. hold \in [Thread -> Note \union {None}] /\ retry_count \in [Thread -> 0..3]
  OBVIOUS
<1>5. pc \in [Thread -> Label]
  BY <1>2 DEF Label
<1>6. TypeOK
  BY <1>1, <1>3, <1>4, <1>5 DEF TypeOK
<1>7. \A t \in Thread : pc[t] \in {"start", "idle"}
  BY <1>2
<1> QED
  BY <1>6, <1>7 DEF TypeInv, Holding, QueueThere, HoldingEarly, Thread

(* The notification a thread pushes goes to the end of the last queue.     *)
LEMMA PushType ==
    ASSUME NEW t \in Thread, TypeInv, Push(t)
    PROVE  /\ queues' \in Seq(Seq(Note)) /\ Len(queues') = Len(queues)
           /\ Len(queues) > 0
<1> USE DEF Push, TypeInv, TypeOK, notificationQueue
<1>1. hold[t] \in Note
  BY DEF Holding
<1>2. Len(queues) \in 1..Len(queues) /\ queues[Len(queues)] \in Seq(Note)
  OBVIOUS
<1>3. Append(queues[Len(queues)], hold[t]) \in Seq(Note)
  BY <1>1, <1>2
<1> QED
  BY <1>2, <1>3

LEMMA PopType ==
    ASSUME NEW t \in Thread, TypeInv, Pop(t)
    PROVE  /\ queues' \in Seq(Seq(Note)) /\ Len(queues') = Len(queues)
           /\ Head(queues[at[t]]) \in Note
<1> USE DEF Pop, TypeInv, TypeOK
<1>1. at[t] \in 1..Len(queues)
  BY DEF QueueThere
<1>2. queues[at[t]] \in Seq(Note) /\ queues[at[t]] # <<>>
  BY <1>1
<1>3. Tail(queues[at[t]]) \in Seq(Note) /\ Head(queues[at[t]]) \in Note
  BY <1>2
<1> QED
  BY <1>1, <1>3

LEMMA OneMore ==
    ASSUME NEW n \in 0..3, n < 3
    PROVE  n + 1 \in 0..3
OBVIOUS

LEMMA NotifyType ==
    ASSUME NEW t \in Thread, TypeInv, Notify(t)
    PROVE  TypeInv'
<1> USE DEF TypeInv, TypeOK, Holding, QueueThere, HoldingEarly, Label, Rest,
            Goto, handler, connection, thread, fates, notificationQueue, Thread
<1>1. CASE Construct(t)
  <2>1. <<>> \in Seq(Note)
    OBVIOUS
  <2>2. queues' \in Seq(Seq(Note)) /\ Len(queues') = Len(queues) + 1
    BY <1>1, <2>1 DEF Construct
  <2> QED
    BY <1>1, <2>2 DEF Construct
<1>2. CASE Assign(t)
  BY <1>2, ConstantsAssumption DEF Assign
<1>3. CASE Refuse(t)
  BY <1>3 DEF Refuse
<1>4. CASE Push(t)
  BY <1>4, PushType DEF Push
<1>5. CASE GetNotificationQueue(t)
  BY <1>5 DEF GetNotificationQueue
<1>6. CASE Pop(t)
  BY <1>6, PopType DEF Pop
<1>7. CASE PopTimesOut(t)
  BY <1>7 DEF PopTimesOut
<1>8. CASE Send(t)
  BY <1>8 DEF Send
<1>9. CASE SendFails(t)
  <2>1. CASE retry_count[t] < 3
    <3>1. retry_count' \in [Thread -> 0..3]
      <4>1. retry_count[t] \in 0..3
        OBVIOUS
      <4>2. retry_count[t] + 1 \in 0..3
        BY <2>1, <4>1, OneMore
      <4> QED
        BY <1>9, <2>1, <4>2 DEF SendFails
    <3> QED
      BY <1>9, <2>1, <3>1 DEF SendFails
  <2>2. CASE ~(retry_count[t] < 3)
    <3>1. retry_count' \in [Thread -> 0..3]
      BY <1>9, <2>2 DEF SendFails
    <3>2. hold[t] \in Note
      BY <1>9 DEF SendFails
    <3>3. /\ pc' = [pc EXCEPT ![t] = Rest(t)]
          /\ hold' = [hold EXCEPT ![t] = None]
          /\ dropped' = dropped \union {hold[t]}
          /\ queues' = queues /\ at' = at
      BY <1>9, <2>2 DEF SendFails
    <3>4. /\ dropped' \subseteq Note
          /\ hold' \in [Thread -> Note \union {None}]
          /\ pc' \in [Thread -> Label]
      BY <3>2, <3>3
    <3>5. Holding' /\ QueueThere' /\ HoldingEarly'
      BY <3>3
    <3> QED
      BY <1>9, <3>1, <3>4, <3>5 DEF SendFails
  <2> QED
    BY <2>1, <2>2
<1> QED
  BY <1>1, <1>2, <1>3, <1>4, <1>5, <1>6, <1>7, <1>8, <1>9 DEF Notify

LEMMA ParodusType ==
    ASSUME TypeInv, ParodusThread
    PROVE  TypeInv'
<1> USE DEF TypeInv, TypeOK, Holding, QueueThere, HoldingEarly, Label,
            Goto, handler, connection, thread, fates, Thread
<1>1. ASSUME NEW ok \in BOOLEAN, LoadDataModel(ok)
      PROVE  TypeInv'
  BY <1>1, ConstantsAssumption DEF LoadDataModel
<1>2. CASE RetryConnect
  <2>1. <<c', backoffRetryTime'>> \in Pauses
    BY <1>2, NextPause DEF Pauses
  <2> QED
    BY <1>2, <2>1 DEF RetryConnect, Pauses
<1>3. CASE Connect
  BY <1>3, ConstantsAssumption DEF Connect
<1>4. CASE ClientInstance
  BY <1>4, ConstantsAssumption DEF ClientInstance, GetInstance
<1>5. CASE RegisterNotifyCallback
  BY <1>5, ConstantsAssumption DEF RegisterNotifyCallback
<1>6. CASE Receive
  BY <1>6, ConstantsAssumption DEF Receive
<1>7. ASSUME NEW ok \in BOOLEAN, Received(ok)
      PROVE  TypeInv'
  BY <1>7, ConstantsAssumption DEF Received
<1>8. CASE WaitTimesOut
  BY <1>8, ConstantsAssumption DEF WaitTimesOut
<1>9. CASE Close
  BY <1>9, ConstantsAssumption DEF Close
<1> QED
  BY <1>1, <1>2, <1>3, <1>4, <1>5, <1>6, <1>7, <1>8, <1>9 DEF ParodusThread

LEMMA TypeStep == TypeInv /\ [Next]_vars => TypeInv'
<1> SUFFICES ASSUME TypeInv, [Next]_vars
             PROVE  TypeInv'
  OBVIOUS
<1>1. ASSUME NEW t \in Thread, Notify(t)
      PROVE  TypeInv'
  BY <1>1, NotifyType
<1>2. ASSUME NEW t \in Thread, NEW n \in Note, Raise(t, n)
      PROVE  TypeInv'
  BY <1>2 DEF Raise, GetInstance, TypeInv, TypeOK, Holding, QueueThere,
              HoldingEarly, Label, Goto, handler, connection, fates, Thread
<1>3. CASE ParodusThread
  BY <1>3, ParodusType
<1>4. CASE Stop
  BY <1>4 DEF Stop, TypeInv, TypeOK, Holding, QueueThere, HoldingEarly, Label,
              handler, connection, thread, fates, Thread
<1>5. CASE UNCHANGED vars
  BY <1>5 DEF vars, TypeInv, TypeOK, Holding, QueueThere, HoldingEarly,
              handler, connection, thread, fates
<1> QED
  BY <1>1, <1>2, <1>3, <1>4, <1>5 DEF Next

(* Every variable keeps the type the code gives it.                        *)
THEOREM TypeCorrect == Spec => []TypeOK
<1>1. TypeInv => TypeOK
  BY DEF TypeInv
<1> QED
  BY TypeInit, TypeStep, <1>1, PTL DEF Spec

-----------------------------------------------------------------------------
(* The callback is there only when the connection is, or was.              *)

Connected ==
    /\ pc[Client] \notin {"start", "connect", "done"} => libparodus_instance
    /\ notifyUpdateCallback => pc[Client] \notin {"start", "connect"}
    /\ \A t \in Thread : pc[t] \in {"callback", "pop", "send"} => notifyUpdateCallback

LEMMA ConnectedStep == TypeInv /\ Connected /\ [Next]_vars => Connected'
<1> SUFFICES ASSUME TypeInv, Connected, [Next]_vars
             PROVE  Connected'
  OBVIOUS
<1> USE DEF Connected, Goto, Rest, handler, connection, thread, fates, Thread
<1>0. pc \in [Thread -> Label]
  BY DEF TypeInv, TypeOK
<1>1. ASSUME NEW t \in Thread, Notify(t)
      PROVE  Connected'
  <2>1. CASE Construct(t)
    BY <1>0, <2>1 DEF Construct
  <2>2. CASE Assign(t)
    BY <1>0, <2>2 DEF Assign
  <2>3. CASE Refuse(t)
    BY <1>0, <2>3 DEF Refuse
  <2>4. CASE Push(t)
    BY <1>0, <2>4 DEF Push
  <2>5. CASE GetNotificationQueue(t)
    BY <1>0, <2>5 DEF GetNotificationQueue
  <2>6. CASE Pop(t)
    BY <1>0, <2>6 DEF Pop
  <2>7. CASE PopTimesOut(t)
    BY <1>0, <2>7 DEF PopTimesOut
  <2>8. CASE Send(t)
    BY <1>0, <2>8 DEF Send
  <2>9. CASE SendFails(t)
    <3>1. /\ pc[t] = "send"
          /\ pc' = pc \/ pc' = [pc EXCEPT ![t] = Rest(t)]
          /\ UNCHANGED <<libparodus_instance, notifyUpdateCallback>>
      BY <2>9 DEF SendFails
    <3> QED
      BY <1>0, <3>1
  <2> QED
    BY <1>1, <2>1, <2>2, <2>3, <2>4, <2>5, <2>6, <2>7, <2>8, <2>9 DEF Notify
<1>2. ASSUME NEW t \in Thread, NEW n \in Note, Raise(t, n)
      PROVE  Connected'
  BY <1>0, <1>2 DEF Raise, GetInstance
<1>3. CASE ParodusThread
  BY <1>0, <1>3 DEF ParodusThread, LoadDataModel, RetryConnect, Connect,
     ClientInstance, GetInstance, RegisterNotifyCallback, Receive, Received,
     WaitTimesOut, Close
<1>4. CASE Stop
  BY <1>0, <1>4 DEF Stop
<1>5. CASE UNCHANGED vars
  BY <1>5 DEF vars
<1> QED
  BY <1>1, <1>2, <1>3, <1>4, <1>5 DEF Next

(* No thread tries to send before the connection has been open.            *)
THEOREM NoEarlySend == Spec => []SendConnected
<1>1. Init => Connected
  BY DEF Init, Connected, Thread
<1>2. Connected => SendConnected
  BY DEF Connected, SendConnected
<1> QED
  BY TypeInit, TypeStep, ConnectedStep, <1>1, <1>2, PTL DEF Spec

-----------------------------------------------------------------------------
(* A thread for each notification in the last queue.                       *)

LEMMA PoppingFinite == IsFiniteSet(Popping) /\ Cardinality(Popping) \in Nat
<1>1. IsFiniteSet(Thread)
  BY ConstantsAssumption, FS_AddElement DEF Thread
<1>2. Popping \subseteq Thread
  BY DEF Popping
<1>3. IsFiniteSet(Popping)
  BY <1>1, <1>2, FS_Subset
<1> QED
  BY <1>3, FS_CardinalityType

(* A step that neither pushes nor pops keeps the queues, and the threads   *)
(* that have yet to pop.                                                   *)
LEMMA OtherStep ==
    ASSUME TypeInv, queues' = queues, Popping' = Popping, Drained
    PROVE  Drained'
BY DEF Drained, notificationQueue

LEMMA DrainedNotify ==
    ASSUME NEW t \in Thread, TypeInv, Drained, Notify(t)
    PROVE  Drained'
<1> USE DEF Goto, Rest, notificationQueue
<1>0. /\ pc \in [Thread -> Label] /\ at \in [Thread -> 0..Len(queues)]
      /\ queues \in Seq(Seq(Note))
  BY DEF TypeInv, TypeOK
<1>1. CASE Construct(t)
  <2>1. queues' = Append(queues, <<>>)
    BY <1>1 DEF Construct
  <2>2. Len(queues'[Len(queues')]) = 0
    BY <1>0, <2>1
  <2>3. Cardinality(Popping') \in Nat
    <3>1. IsFiniteSet(Thread)
      BY ConstantsAssumption, FS_AddElement DEF Thread
    <3>2. Popping' \subseteq Thread
      BY DEF Popping
    <3> QED
      BY <3>1, <3>2, FS_Subset, FS_CardinalityType
  <2> QED
    BY <2>2, <2>3 DEF Drained
<1>2. CASE Assign(t)
  BY <1>0, <1>2, OtherStep DEF Assign, Popping, thread
<1>3. CASE Refuse(t)
  BY <1>0, <1>3, OtherStep DEF Refuse, Popping, handler
<1>4. CASE Push(t)
  <2>1. /\ Len(queues') = Len(queues) /\ Len(queues) > 0
        /\ queues'[Len(queues)] = Append(queues[Len(queues)], hold[t])
    BY <1>0, <1>4, PushType DEF Push
  <2>2. Len(queues'[Len(queues)]) = Len(queues[Len(queues)]) + 1
    <3>1. queues[Len(queues)] \in Seq(Note)
      BY <1>0, <2>1
    <3> QED
      BY <2>1, <3>1
  <2>3. Popping' = Popping \union {t} /\ t \notin Popping
    BY <1>0, <1>4, <2>1 DEF Push, Popping
  <2>4. Cardinality(Popping') = Cardinality(Popping) + 1
    BY <2>3, PoppingFinite, FS_AddElement
  <2>5. Len(queues[Len(queues)]) \in Nat
    BY <1>0, <2>1
  <2> QED
    BY <2>1, <2>2, <2>4, <2>5, PoppingFinite DEF Drained
<1>5. CASE GetNotificationQueue(t)
  <2>1. Popping' = Popping /\ queues' = queues
    BY <1>0, <1>5 DEF GetNotificationQueue, Popping, handler
  <2> QED
    BY <2>1, OtherStep
<1>6. CASE Pop(t)
  <2>1. at[t] \in 1..Len(queues) /\ Len(queues') = Len(queues)
    BY <1>0, <1>6, PopType DEF Pop, TypeInv, QueueThere
  <2>2. CASE at[t] = Len(queues)
    <3>1. /\ queues[Len(queues)] \in Seq(Note) /\ queues[Len(queues)] # <<>>
          /\ queues'[Len(queues)] = Tail(queues[Len(queues)])
      BY <1>0, <1>6, <2>1, <2>2 DEF Pop
    <3>2. /\ Len(queues'[Len(queues)]) = Len(queues[Len(queues)]) - 1
          /\ Len(queues[Len(queues)]) \in Nat
      BY <3>1
    <3>3. Popping' = Popping \ {t} /\ t \in Popping
      BY <1>0, <1>6, <2>1, <2>2 DEF Pop, Popping
    <3>4. Cardinality(Popping') = Cardinality(Popping) - 1
      BY <3>3, PoppingFinite, FS_RemoveElement
    <3> QED
      BY <2>1, <3>2, <3>4, PoppingFinite DEF Drained
  <2>3. CASE at[t] # Len(queues)
    <3>1. queues'[Len(queues)] = queues[Len(queues)]
      BY <1>0, <1>6, <2>1, <2>3 DEF Pop
    <3>2. Popping' = Popping
      BY <1>0, <1>6, <2>1, <2>3 DEF Pop, Popping
    <3> QED
      BY <2>1, <3>1, <3>2 DEF Drained
  <2> QED
    BY <2>2, <2>3
<1>7. CASE PopTimesOut(t)
  <2>1. at[t] \in 1..Len(queues) /\ queues' = queues
    BY <1>0, <1>7 DEF PopTimesOut, TypeInv, QueueThere, handler
  <2>2. CASE at[t] = Len(queues)
    <3>1. Len(queues'[Len(queues')]) = 0
      BY <1>7, <2>1, <2>2 DEF PopTimesOut
    <3>2. Popping' \subseteq Popping
      BY <1>0, <1>7, <2>1 DEF PopTimesOut, Popping
    <3>3. Cardinality(Popping') \in Nat
      BY <3>2, PoppingFinite, FS_Subset, FS_CardinalityType
    <3> QED
      BY <3>1, <3>3 DEF Drained
  <2>3. CASE at[t] # Len(queues)
    <3>1. Popping' = Popping
      BY <1>0, <1>7, <2>1, <2>3 DEF PopTimesOut, Popping
    <3> QED
      BY <2>1, <3>1, OtherStep
  <2> QED
    BY <2>2, <2>3
<1>8. CASE Send(t)
  BY <1>0, <1>8, OtherStep DEF Send, Popping, handler
<1>9. CASE SendFails(t)
  <2>1. /\ pc[t] = "send"
        /\ pc' = pc \/ pc' = [pc EXCEPT ![t] = Rest(t)]
        /\ queues' = queues /\ at' = at
    BY <1>9 DEF SendFails, handler
  <2>2. Popping' = Popping
    BY <1>0, <2>1 DEF Popping
  <2> QED
    BY <2>1, <2>2, OtherStep
<1> QED
  BY <1>1, <1>2, <1>3, <1>4, <1>5, <1>6, <1>7, <1>8, <1>9 DEF Notify

LEMMA DrainedStep == TypeInv /\ Drained /\ [Next]_vars => Drained'
<1> SUFFICES ASSUME TypeInv, Drained, [Next]_vars
             PROVE  Drained'
  OBVIOUS
<1> USE DEF Goto, handler, thread, Popping, notificationQueue
<1>0. pc \in [Thread -> Label] /\ Client \in Thread
  BY DEF TypeInv, TypeOK, Thread
<1>1. ASSUME NEW t \in Thread, Notify(t)
      PROVE  Drained'
  BY <1>1, DrainedNotify
<1>2. ASSUME NEW t \in Thread, NEW n \in Note, Raise(t, n)
      PROVE  Drained'
  <2>1. queues' = queues /\ Popping' = Popping
    BY <1>0, <1>2 DEF Raise, GetInstance
  <2> QED
    BY <2>1, OtherStep
<1>3. CASE ParodusThread
  <2>1. queues' = queues /\ at' = at
    BY <1>3 DEF ParodusThread, LoadDataModel, RetryConnect, Connect,
       ClientInstance, RegisterNotifyCallback, Receive, Received,
       WaitTimesOut, Close
  <2>2. Popping' = Popping
    BY <1>0, <1>3, <2>1 DEF ParodusThread, LoadDataModel, RetryConnect, Connect,
       ClientInstance, GetInstance, RegisterNotifyCallback, Receive, Received,
       WaitTimesOut, Close
  <2> QED
    BY <2>1, <2>2, OtherStep
<1>4. CASE Stop
  <2>1. queues' = queues /\ Popping' = Popping
    BY <1>0, <1>4 DEF Stop
  <2> QED
    BY <2>1, OtherStep
<1>5. CASE UNCHANGED vars
  <2>1. queues' = queues /\ Popping' = Popping
    BY <1>5 DEF vars
  <2> QED
    BY <2>1, OtherStep
<1> QED
  BY <1>1, <1>2, <1>3, <1>4, <1>5 DEF Next

(* No notification stays in the queue: there is a thread on its way to     *)
(* take one for each that is there.                                        *)
THEOREM QueueDrained == Spec => []Drained
<1>1. Init => Drained
  BY DEF Init, Drained, notificationQueue
<1> QED
  BY TypeInit, TypeStep, DrainedStep, <1>1, PTL DEF Spec

-----------------------------------------------------------------------------
(* Every notification is in one place.                                     *)

(* A thread has a notification in hand only while it pushes or sends it,   *)
(* and the Parodus thread makes the handler before it serves requests.     *)
HandEmpty ==
    \A t \in Thread :
        hold[t] # None =>
            \/ pc[t] \in {"push", "send"}
            \/ t # Client /\ pc[t] \in {"construct", "assign"}

ClientReady ==
    pc[Client] \in {"register", "loop", "receive", "wait",
                    "push", "callback", "pop", "send"} => pInstance

LEMMA HandStep ==
    TypeInv /\ HandEmpty /\ ClientReady /\ [Next]_vars => HandEmpty' /\ ClientReady'
<1> SUFFICES ASSUME TypeInv, HandEmpty, ClientReady, [Next]_vars
             PROVE  HandEmpty' /\ ClientReady'
  OBVIOUS
<1> USE DEF HandEmpty, ClientReady, Goto, Rest, handler, connection, thread,
            fates, Thread
<1>0. pc \in [Thread -> Label] /\ hold \in [Thread -> Note \union {None}]
  BY DEF TypeInv, TypeOK
<1>1. ASSUME NEW t \in Thread, Notify(t)
      PROVE  HandEmpty' /\ ClientReady'
  <2>1. CASE Construct(t)
    BY <1>0, <2>1 DEF Construct
  <2>2. CASE Assign(t)
    BY <1>0, <2>2 DEF Assign
  <2>3. CASE Refuse(t)
    BY <1>0, <2>3 DEF Refuse
  <2>4. CASE Push(t)
    BY <1>0, <2>4 DEF Push
  <2>5. CASE GetNotificationQueue(t)
    BY <1>0, <2>5 DEF GetNotificationQueue
  <2>6. CASE Pop(t)
    BY <1>0, <2>6 DEF Pop
  <2>7. CASE PopTimesOut(t)
    BY <1>0, <2>7 DEF PopTimesOut
  <2>8. CASE Send(t)
    BY <1>0, <2>8 DEF Send
  <2>9. CASE SendFails(t)
    <3>1. /\ pc[t] = "send" /\ pInstance' = pInstance
          /\ \/ pc' = pc /\ hold' = hold
             \/ pc' = [pc EXCEPT ![t] = Rest(t)] /\ hold' = [hold EXCEPT ![t] = None]
      BY <2>9 DEF SendFails
    <3> QED
      BY <1>0, <3>1
  <2> QED
    BY <1>1, <2>1, <2>2, <2>3, <2>4, <2>5, <2>6, <2>7, <2>8, <2>9 DEF Notify
<1>2. ASSUME NEW t \in Thread, NEW n \in Note, Raise(t, n)
      PROVE  HandEmpty' /\ ClientReady'
  BY <1>0, <1>2 DEF Raise, GetInstance
<1>3. CASE ParodusThread
  BY <1>0, <1>3 DEF ParodusThread, LoadDataModel, RetryConnect, Connect,
     ClientInstance, GetInstance, RegisterNotifyCallback, Receive, Received,
     WaitTimesOut, Close
<1>4. CASE Stop
  BY <1>0, <1>4 DEF Stop
<1>5. CASE UNCHANGED vars
  BY <1>5 DEF vars
<1> QED
  BY <1>1, <1>2, <1>3, <1>4, <1>5 DEF Next

(* The three parts of OnePlace.                                            *)
Alone == \A n \in Note : Cardinality({p \in 1..6 : n \in Places[p]}) = 1
QueuedOnce ==
    \A p, q \in 1..Len(queues) : \A i \in 1..Len(queues[p]), j \in 1..Len(queues[q]) :
        queues[p][i] = queues[q][j] => p = q /\ i = j
HeldOnce == \A t, u \in Thread : hold[t] = hold[u] /\ hold[t] # None => t = u

(* A notification that goes from one place to another is in one place.     *)
LEMMA Move ==
    ASSUME Alone, NEW m \in Note, NEW i \in 1..6, NEW j \in 1..6, i # j,
           m \in Places[i],
           Places'[i] = Places[i] \ {m},
           Places'[j] = Places[j] \union {m},
           \A k \in 1..6 : k # i /\ k # j => Places'[k] = Places[k]
    PROVE  Alone' /\ m \notin Places[j]
<1> DEFINE In(n) == {p \in 1..6 : n \in Places[p]}
           After(n) == {p \in 1..6 : n \in Places'[p]}
<1>1. \A n \in Note : \E x : In(n) = {x}
  <2>1. IsFiniteSet(1..6)
    <3>1. 1 \in Int /\ 6 \in Int
      OBVIOUS
    <3> QED
      BY <3>1, FS_Interval, Zenon
  <2>2. ASSUME NEW n
        PROVE  IsFiniteSet(In(n))
    <3>1. In(n) \subseteq 1..6
      OBVIOUS
    <3> HIDE DEF In
    <3> QED
      BY <2>1, <3>1, FS_Subset
  <2>3. ASSUME NEW n \in Note
        PROVE  \E x : In(n) = {x}
    <3>1. Cardinality(In(n)) = 1
      BY DEF Alone
    <3>2. IsFiniteSet(In(n))
      BY <2>2
    <3> HIDE DEF In
    <3> QED
      BY <3>1, <3>2, FS_Singleton
  <2> QED
    BY <2>3
<1>2. In(m) = {i}
  <2>1. PICK x : In(m) = {x}
    BY <1>1
  <2>2. i \in In(m)
    OBVIOUS
  <2> QED
    BY <2>1, <2>2
<1>3. m \notin Places[j]
  BY <1>2
<1>4. After(m) = {j}
  <2>1. \A k \in 1..6 : k \in After(m) <=> k = j
    <3> SUFFICES ASSUME NEW k \in 1..6
                 PROVE  k \in After(m) <=> k = j
      OBVIOUS
    <3>1. CASE k = j
      BY <3>1
    <3>2. CASE k = i
      BY <3>2
    <3>3. CASE k # i /\ k # j
      <4>1. k \notin In(m)
        BY <1>2, <3>3
      <4> QED
        BY <3>3, <4>1
    <3> QED
      BY <3>1, <3>2, <3>3
  <2> QED
    BY <2>1
<1>5. ASSUME NEW n \in Note, n # m
      PROVE  After(n) = In(n)
  BY <1>5
<1>6. \A n \in Note : \E x : After(n) = {x}
  <2> SUFFICES ASSUME NEW n \in Note
               PROVE  \E x : After(n) = {x}
    OBVIOUS
  <2>1. CASE n = m
    BY <1>4, <2>1
  <2>2. CASE n # m
    <3>1. After(n) = In(n)
      BY <1>5, <2>2
    <3> HIDE DEF In, After
    <3> QED
      BY <1>1, <3>1
  <2> QED
    BY <2>1, <2>2
<1>7. \A n \in Note : Cardinality(After(n)) = 1
  <2> SUFFICES ASSUME NEW n \in Note
               PROVE  Cardinality(After(n)) = 1
    OBVIOUS
  <2>1. PICK x : After(n) = {x}
    BY <1>6
  <2>2. Cardinality({x}) = 1
    BY FS_Singleton
  <2> HIDE DEF After
  <2> QED
    BY <2>1, <2>2
<1> QED
  BY <1>3, <1>7 DEF Alone

LEMMA HeldDrop ==
    ASSUME TypeInv, HeldOnce, NEW t \in Thread, hold[t] # None,
           hold' = [hold EXCEPT ![t] = None]
    PROVE  Held' = Held \ {hold[t]} /\ hold[t] \in Held /\ HeldOnce'
<1>1. hold \in [Thread -> Note \union {None}]
  BY DEF TypeInv, TypeOK
<1>2. \A u \in Thread : hold'[u] = IF u = t THEN None ELSE hold[u]
  BY <1>1
<1>3. Held' = Held \ {hold[t]}
  BY <1>2 DEF Held, HeldOnce
<1>4. HeldOnce'
  BY <1>2 DEF HeldOnce
<1> QED
  BY <1>3, <1>4 DEF Held

LEMMA HeldTake ==
    ASSUME TypeInv, HeldOnce, NEW t \in Thread, NEW n \in Note, hold[t] = None,
           hold' = [hold EXCEPT ![t] = n]
    PROVE  Held' = Held \union {n} /\ (n \notin Held => HeldOnce')
<1>1. hold \in [Thread -> Note \union {None}] /\ n # None
  BY ConstantsAssumption DEF TypeInv, TypeOK
<1>2. \A u \in Thread : hold'[u] = IF u = t THEN n ELSE hold[u]
  BY <1>1
<1>3. Held' = Held \union {n}
  BY <1>1, <1>2 DEF Held
<1>4. n \notin Held => HeldOnce'
  BY <1>1, <1>2 DEF HeldOnce, Held
<1> QED
  BY <1>3, <1>4

LEMMA QueuedIs ==
    \A n : n \in Queued <=>
        \E q \in 1..Len(queues) : \E i \in 1..Len(queues[q]) : queues[q][i] = n
BY DEF Queued

LEMMA QueuedPush ==
    ASSUME TypeInv, QueuedOnce, NEW t \in Thread, Push(t)
    PROVE  /\ Queued' = Queued \union {hold[t]}
           /\ hold[t] \notin Queued => QueuedOnce'
<1> DEFINE last == Len(queues)
<1>1. /\ Len(queues') = last /\ last \in 1..last
      /\ \A q \in 1..last :
            queues'[q] = IF q = last THEN Append(queues[last], hold[t]) ELSE queues[q]
  BY PushType DEF Push, notificationQueue, TypeInv, TypeOK
<1>2. queues[last] \in Seq(Note) /\ hold[t] \in Note
  <2>1. hold[t] \in Note
    BY DEF TypeInv, Holding, Push
  <2>2. queues[last] \in Seq(Note)
    BY <1>1 DEF TypeInv, TypeOK
  <2> QED
    BY <2>1, <2>2
<1> DEFINE len == Len(queues[last])
<1>3. /\ len \in Nat
      /\ Len(queues'[last]) = len + 1
      /\ queues'[last][len + 1] = hold[t]
      /\ \A i \in 1..len : queues'[last][i] = queues[last][i]
  <2>1. queues'[last] = Append(queues[last], hold[t])
    BY <1>1
  <2> HIDE DEF last
  <2> QED
    BY <1>2, <2>1
<1>4. 1..(len + 1) = (1..len) \union {len + 1} /\ len + 1 \notin 1..len
  BY <1>3
<1>5. \A q \in 1..last : \A i \in 1..Len(queues'[q]) :
         \/ i \in 1..Len(queues[q]) /\ queues'[q][i] = queues[q][i]
         \/ q = last /\ i = len + 1 /\ queues'[q][i] = hold[t]
  BY <1>1, <1>3, <1>4
<1>6. \A q \in 1..last : \A i \in 1..Len(queues[q]) :
         i \in 1..Len(queues'[q]) /\ queues'[q][i] = queues[q][i]
  BY <1>1, <1>3, <1>4
<1>7. \A n : n \in Queued' <=>
        \E q \in 1..last : \E i \in 1..Len(queues'[q]) : queues'[q][i] = n
  BY <1>1 DEF Queued
<1> HIDE DEF last, len
<1>8. Queued' = Queued \union {hold[t]}
  <2>1. hold[t] \in Queued'
    BY <1>1, <1>3, <1>4, <1>7
  <2>2. Queued \subseteq Queued'
    BY <1>6, <1>7, QueuedIs DEF last
  <2>3. Queued' \subseteq Queued \union {hold[t]}
    BY <1>5, <1>7, QueuedIs DEF last
  <2> QED
    BY <2>1, <2>2, <2>3
<1>9. ASSUME hold[t] \notin Queued
      PROVE  QueuedOnce'
  <2> SUFFICES ASSUME NEW p \in 1..last, NEW q \in 1..last,
                      NEW i \in 1..Len(queues'[p]), NEW j \in 1..Len(queues'[q]),
                      queues'[p][i] = queues'[q][j]
               PROVE  p = q /\ i = j
    BY <1>1 DEF QueuedOnce
  <2>1. \A r \in 1..last : \A k \in 1..Len(queues[r]) : queues[r][k] # hold[t]
    BY <1>9, QueuedIs DEF last
  <2>2. CASE i \in 1..Len(queues[p]) /\ queues'[p][i] = queues[p][i]
    <3>1. j \in 1..Len(queues[q]) /\ queues'[q][j] = queues[q][j]
      BY <1>5, <2>1, <2>2
    <3>2. queues[p][i] = queues[q][j]
      BY <2>2, <3>1
    <3> QED
      BY <2>2, <3>1, <3>2 DEF QueuedOnce, last
  <2>3. CASE p = last /\ i = len + 1 /\ queues'[p][i] = hold[t]
    BY <1>5, <2>1, <2>3
  <2> QED
    BY <1>5, <2>2, <2>3
<1> QED
  BY <1>8, <1>9

LEMMA QueuedPop ==
    ASSUME TypeInv, QueuedOnce, NEW t \in Thread, Pop(t)
    PROVE  LET n == Head(queues[at[t]])
           IN  Queued' = Queued \ {n} /\ n \in Queued /\ n \in Note /\ QueuedOnce'
<1> DEFINE a == at[t]
           n == Head(queues[a])
           len == Len(queues[a])
<1>1. /\ Len(queues') = Len(queues) /\ a \in 1..Len(queues) /\ n \in Note
      /\ \A q \in 1..Len(queues) :
            queues'[q] = IF q = a THEN Tail(queues[a]) ELSE queues[q]
  BY PopType DEF Pop, TypeInv, TypeOK, QueueThere
<1>2. queues[a] \in Seq(Note) /\ queues[a] # <<>>
  BY <1>1 DEF TypeInv, TypeOK, Pop
<1>3. /\ len \in Nat /\ len > 0 /\ n = queues[a][1]
      /\ Len(queues'[a]) = len - 1
      /\ \A i \in 1..(len - 1) : queues'[a][i] = queues[a][i + 1]
  <2>1. queues'[a] = Tail(queues[a])
    BY <1>1
  <2> HIDE DEF a
  <2> QED
    BY <1>2, <2>1
<1>4. \A r \in 1..Len(queues) : \A i \in 1..Len(queues'[r]) :
        /\ (IF r = a THEN i + 1 ELSE i) \in 1..Len(queues[r])
        /\ queues'[r][i] = queues[r][IF r = a THEN i + 1 ELSE i]
        /\ r = a => i + 1 # 1
  BY <1>1, <1>3
<1>5. \A r \in 1..Len(queues) : \A i \in 1..Len(queues[r]) :
        (r # a \/ i # 1) =>
            \E j \in 1..Len(queues'[r]) : queues'[r][j] = queues[r][i]
  <2> SUFFICES ASSUME NEW r \in 1..Len(queues), NEW i \in 1..Len(queues[r]),
                      r # a \/ i # 1
               PROVE  \E j \in 1..Len(queues'[r]) : queues'[r][j] = queues[r][i]
    OBVIOUS
  <2>1. CASE r # a
    BY <1>1, <2>1
  <2>2. CASE r = a
    <3>1. i - 1 \in 1..(len - 1) /\ (i - 1) + 1 = i
      BY <1>3, <2>2
    <3> QED
      BY <1>3, <2>2, <3>1
  <2> QED
    BY <2>1, <2>2
<1>6. \A m : m \in Queued' <=>
        \E q \in 1..Len(queues) : \E i \in 1..Len(queues'[q]) : queues'[q][i] = m
  BY <1>1 DEF Queued
<1>7. a \in 1..Len(queues) /\ 1 \in 1..len
  BY <1>1, <1>3
<1>8. n \in Queued
  BY <1>3, <1>7, QueuedIs
<1>9. \A r \in 1..Len(queues) : \A i \in 1..Len(queues[r]) :
        queues[r][i] = n => r = a /\ i = 1
  BY <1>3, <1>7 DEF QueuedOnce
<1> HIDE DEF n, len, a
<1>10. Queued' \subseteq Queued \ {n}
  <2> SUFFICES ASSUME NEW q \in 1..Len(queues), NEW i \in 1..Len(queues'[q])
               PROVE  queues'[q][i] \in Queued \ {n}
    BY <1>6
  <2> DEFINE k == IF q = a THEN i + 1 ELSE i
  <2>1. k \in 1..Len(queues[q]) /\ queues'[q][i] = queues[q][k] /\ (q = a => k # 1)
    BY <1>4
  <2> HIDE DEF k
  <2> QED
    BY <1>9, <2>1, QueuedIs
<1>11. Queued \ {n} \subseteq Queued'
  <2> SUFFICES ASSUME NEW q \in 1..Len(queues), NEW i \in 1..Len(queues[q]),
                      queues[q][i] # n
               PROVE  queues[q][i] \in Queued'
    BY QueuedIs
  <2>1. q # a \/ i # 1
    BY <1>3
  <2> QED
    BY <1>5, <1>6, <2>1
<1>12. QueuedOnce'
  <2> SUFFICES ASSUME NEW p \in 1..Len(queues), NEW q \in 1..Len(queues),
                      NEW i \in 1..Len(queues'[p]), NEW j \in 1..Len(queues'[q]),
                      queues'[p][i] = queues'[q][j]
               PROVE  p = q /\ i = j
    BY <1>1 DEF QueuedOnce
  <2> DEFINE k == IF p = a THEN i + 1 ELSE i
             l == IF q = a THEN j + 1 ELSE j
  <2>1. /\ k \in 1..Len(queues[p]) /\ queues'[p][i] = queues[p][k]
        /\ l \in 1..Len(queues[q]) /\ queues'[q][j] = queues[q][l]
    BY <1>4
  <2>2. p = q /\ k = l
    <3>1. queues[p][k] = queues[q][l]
      BY <2>1
    <3> HIDE DEF k, l
    <3> QED
      BY <2>1, <3>1 DEF QueuedOnce
  <2>3. i \in Int /\ j \in Int
    OBVIOUS
  <2> QED
    BY <2>2, <2>3
<1> QED
  BY <1>1, <1>8, <1>10, <1>11, <1>12 DEF n, a

LEMMA QueuedConstruct ==
    ASSUME TypeInv, QueuedOnce, NEW t \in Thread, Construct(t)
    PROVE  Queued' = Queued /\ QueuedOnce'
<1>1. /\ Len(queues) \in Nat /\ Len(queues') = Len(queues) + 1
      /\ queues'[Len(queues) + 1] = <<>>
      /\ \A q \in 1..Len(queues) : queues'[q] = queues[q]
  BY DEF Construct, TypeInv, TypeOK
<1>2. \A q \in 1..Len(queues') : \A i \in 1..Len(queues'[q]) :
         q \in 1..Len(queues) /\ queues'[q] = queues[q]
  BY <1>1
<1>3. \A q \in 1..Len(queues) : q \in 1..Len(queues')
  BY <1>1
<1>4. Queued' = Queued
  BY <1>1, <1>2, <1>3 DEF Queued
<1>5. QueuedOnce'
  BY <1>2 DEF QueuedOnce
<1> QED
  BY <1>4, <1>5

OnePlaceInv == TypeInv /\ HandEmpty /\ ClientReady /\ Alone /\ QueuedOnce /\ HeldOnce

(* A step that leaves the queues, the hands and the history alone.         *)
LEMMA SamePlaces ==
    ASSUME OnePlaceInv, UNCHANGED <<queues, hold, fresh, sent, refused, dropped>>
    PROVE  Alone' /\ QueuedOnce' /\ HeldOnce'
<1>1. Places' = Places
  BY DEF Places, Queued, Held
<1> QED
  BY <1>1 DEF OnePlaceInv, Alone, QueuedOnce, HeldOnce

LEMMA RaisePlaces ==
    ASSUME OnePlaceInv, NEW t \in Thread, NEW n \in Note, Raise(t, n)
    PROVE  Alone' /\ QueuedOnce' /\ HeldOnce'
<1>1. /\ n \in fresh /\ fresh' = fresh \ {n}
      /\ hold' = [hold EXCEPT ![t] = n]
      /\ UNCHANGED <<queues, sent, refused, dropped>>
  BY DEF Raise, handler, fates
<1>2. hold[t] = None
  BY DEF Raise, OnePlaceInv, HandEmpty
<1>3. Held' = Held \union {n} /\ (n \notin Held => HeldOnce')
  BY <1>1, <1>2, HeldTake DEF OnePlaceInv
<1>4. Queued' = Queued /\ QueuedOnce'
  BY <1>1 DEF OnePlaceInv, Queued, QueuedOnce
<1>5. /\ n \in Places[1] /\ Places'[1] = Places[1] \ {n}
      /\ Places'[3] = Places[3] \union {n} /\ Places[3] = Held
      /\ \A k \in 1..6 : k # 1 /\ k # 3 => Places'[k] = Places[k]
  BY <1>1, <1>3, <1>4 DEF Places
<1>6. Alone' /\ n \notin Places[3]
  BY <1>5, Move DEF OnePlaceInv
<1> QED
  BY <1>3, <1>4, <1>5, <1>6

LEMMA PushPlaces ==
    ASSUME OnePlaceInv, NEW t \in Thread, Push(t)
    PROVE  Alone' /\ QueuedOnce' /\ HeldOnce'
<1>1. /\ hold[t] \in Note /\ hold[t] # None
      /\ hold' = [hold EXCEPT ![t] = None]
      /\ UNCHANGED <<fresh, sent, refused, dropped>>
  BY ConstantsAssumption DEF Push, fates, OnePlaceInv, TypeInv, Holding
<1>2. Held' = Held \ {hold[t]} /\ hold[t] \in Held /\ HeldOnce'
  BY <1>1, HeldDrop DEF OnePlaceInv
<1>3. Queued' = Queued \union {hold[t]} /\ (hold[t] \notin Queued => QueuedOnce')
  BY QueuedPush DEF OnePlaceInv
<1>4. /\ hold[t] \in Places[3] /\ Places'[3] = Places[3] \ {hold[t]}
      /\ Places'[2] = Places[2] \union {hold[t]} /\ Places[2] = Queued
      /\ \A k \in 1..6 : k # 2 /\ k # 3 => Places'[k] = Places[k]
  BY <1>1, <1>2, <1>3 DEF Places
<1>5. Alone' /\ hold[t] \notin Places[2]
  BY <1>1, <1>4, Move DEF OnePlaceInv
<1> QED
  BY <1>2, <1>3, <1>4, <1>5

LEMMA PopPlaces ==
    ASSUME OnePlaceInv, NEW t \in Thread, Pop(t)
    PROVE  Alone' /\ QueuedOnce' /\ HeldOnce'
<1> DEFINE n == Head(queues[at[t]])
<1>1. Queued' = Queued \ {n} /\ n \in Queued /\ n \in Note /\ QueuedOnce'
  BY QueuedPop DEF OnePlaceInv
<1>2. /\ hold' = [hold EXCEPT ![t] = n]
      /\ UNCHANGED <<fresh, sent, refused, dropped>>
      /\ hold[t] = None
  BY DEF Pop, fates, OnePlaceInv, HandEmpty
<1> HIDE DEF n
<1>3. Held' = Held \union {n} /\ (n \notin Held => HeldOnce')
  BY <1>1, <1>2, HeldTake DEF OnePlaceInv
<1>4. /\ n \in Places[2] /\ Places'[2] = Places[2] \ {n}
      /\ Places'[3] = Places[3] \union {n} /\ Places[3] = Held
      /\ \A k \in 1..6 : k # 2 /\ k # 3 => Places'[k] = Places[k]
  BY <1>1, <1>2, <1>3 DEF Places
<1>5. Alone' /\ n \notin Places[3]
  BY <1>1, <1>4, Move DEF OnePlaceInv
<1> QED
  BY <1>1, <1>3, <1>4, <1>5

(* A notification that is refused, sent or dropped leaves the hand.        *)
LEMMA DonePlaces ==
    ASSUME OnePlaceInv, NEW t \in Thread, hold[t] \in Note,
           hold' = [hold EXCEPT ![t] = None],
           NEW p \in 4..6,
           \A k \in 4..6 :
               Places'[k] = IF k = p THEN Places[k] \union {hold[t]} ELSE Places[k],
           UNCHANGED <<queues, fresh>>
    PROVE  Alone' /\ QueuedOnce' /\ HeldOnce'
<1>1. Held' = Held \ {hold[t]} /\ hold[t] \in Held /\ HeldOnce'
  BY ConstantsAssumption, HeldDrop DEF OnePlaceInv
<1>2. Queued' = Queued /\ QueuedOnce'
  BY DEF OnePlaceInv, Queued, QueuedOnce
<1>3. /\ hold[t] \in Places[3] /\ Places'[3] = Places[3] \ {hold[t]}
      /\ Places'[1] = Places[1] /\ Places'[2] = Places[2]
  BY <1>1, <1>2 DEF Places
<1>4. p \in 1..6 /\ p # 3 /\ Places'[p] = Places[p] \union {hold[t]}
  OBVIOUS
<1>5. \A k \in 1..6 : k # 3 /\ k # p => Places'[k] = Places[k]
  <2>1. \A k \in 1..6 : k = 1 \/ k = 2 \/ k = 3 \/ k \in 4..6
    OBVIOUS
  <2> QED
    BY <1>3, <2>1
<1>6. Alone'
  BY <1>3, <1>4, <1>5, Move DEF OnePlaceInv
<1> QED
  BY <1>1, <1>2, <1>6

LEMMA NotifyPlaces ==
    ASSUME OnePlaceInv, NEW t \in Thread, Notify(t)
    PROVE  Alone' /\ QueuedOnce' /\ HeldOnce'
<1> USE DEF handler, connection, thread, fates
<1>0. pc[t] \in {"push", "send"} => hold[t] \in Note
  BY DEF OnePlaceInv, TypeInv, Holding
<1>1. CASE Construct(t)
  <2>1. Queued' = Queued /\ QueuedOnce'
    BY <1>1, QueuedConstruct DEF OnePlaceInv
  <2>2. UNCHANGED <<hold, fresh, sent, refused, dropped>>
    BY <1>1 DEF Construct
  <2>3. Places' = Places
    BY <2>1, <2>2 DEF Places, Held
  <2> QED
    BY <2>1, <2>2, <2>3 DEF OnePlaceInv, Alone, HeldOnce
<1>2. CASE Assign(t)
  BY <1>2, SamePlaces DEF Assign
<1>3. CASE Refuse(t)
  <2>1. \A k \in 4..6 :
          Places'[k] = IF k = 5 THEN Places[k] \union {hold[t]} ELSE Places[k]
    BY <1>3 DEF Refuse, Places
  <2>2. /\ hold[t] \in Note /\ hold' = [hold EXCEPT ![t] = None]
        /\ UNCHANGED <<queues, fresh>>
    BY <1>0, <1>3 DEF Refuse
  <2>3. 5 \in 4..6
    OBVIOUS
  <2> QED
    BY <2>1, <2>2, <2>3, DonePlaces
<1>4. CASE Push(t)
  BY <1>4, PushPlaces
<1>5. CASE GetNotificationQueue(t)
  BY <1>5, SamePlaces DEF GetNotificationQueue
<1>6. CASE Pop(t)
  BY <1>6, PopPlaces
<1>7. CASE PopTimesOut(t)
  BY <1>7, SamePlaces DEF PopTimesOut
<1>8. CASE Send(t)
  <2>1. \A k \in 4..6 :
          Places'[k] = IF k = 4 THEN Places[k] \union {hold[t]} ELSE Places[k]
    BY <1>8 DEF Send, Places
  <2>2. /\ hold[t] \in Note /\ hold' = [hold EXCEPT ![t] = None]
        /\ UNCHANGED <<queues, fresh>>
    BY <1>0, <1>8 DEF Send
  <2>3. 4 \in 4..6
    OBVIOUS
  <2> QED
    BY <2>1, <2>2, <2>3, DonePlaces
<1>9. CASE SendFails(t)
  <2>1. /\ pc[t] = "send" /\ UNCHANGED <<queues, fresh, sent, refused>>
        /\ \/ UNCHANGED <<hold, dropped>>
           \/ /\ hold' = [hold EXCEPT ![t] = None]
              /\ dropped' = dropped \union {hold[t]}
    BY <1>9 DEF SendFails
  <2>2. CASE UNCHANGED <<hold, dropped>>
    BY <2>1, <2>2, SamePlaces
  <2>3. CASE hold' = [hold EXCEPT ![t] = None] /\ dropped' = dropped \union {hold[t]}
    <3>1. \A k \in 4..6 :
            Places'[k] = IF k = 6 THEN Places[k] \union {hold[t]} ELSE Places[k]
      BY <2>1, <2>3 DEF Places
    <3>2. /\ hold[t] \in Note /\ hold' = [hold EXCEPT ![t] = None]
          /\ UNCHANGED <<queues, fresh>>
      BY <1>0, <2>1, <2>3
    <3>3. 6 \in 4..6
      OBVIOUS
    <3> QED
      BY <3>1, <3>2, <3>3, DonePlaces
  <2> QED
    BY <2>1, <2>2, <2>3
<1> QED
  BY <1>1, <1>2, <1>3, <1>4, <1>5, <1>6, <1>7, <1>8, <1>9 DEF Notify

LEMMA OnePlaceStep == OnePlaceInv /\ [Next]_vars => OnePlaceInv'
<1> SUFFICES ASSUME OnePlaceInv, [Next]_vars
             PROVE  Alone' /\ QueuedOnce' /\ HeldOnce'
  BY TypeStep, HandStep DEF OnePlaceInv
<1>1. ASSUME NEW t \in Thread, Notify(t)
      PROVE  Alone' /\ QueuedOnce' /\ HeldOnce'
  BY <1>1, NotifyPlaces
<1>2. ASSUME NEW t \in Thread, NEW n \in Note, Raise(t, n)
      PROVE  Alone' /\ QueuedOnce' /\ HeldOnce'
  BY <1>2, RaisePlaces
<1>3. CASE ParodusThread
  <2>1. UNCHANGED <<queues, hold, fresh, sent, refused, dropped>>
    BY <1>3 DEF ParodusThread, LoadDataModel, RetryConnect, Connect,
       ClientInstance, RegisterNotifyCallback, Receive, Received,
       WaitTimesOut, Close, handler, thread, fates
  <2> QED
    BY <2>1, SamePlaces
<1>4. CASE Stop
  BY <1>4, SamePlaces DEF Stop, handler, thread, fates
<1>5. CASE UNCHANGED vars
  BY <1>5, SamePlaces DEF vars, handler, thread, fates
<1> QED
  BY <1>1, <1>2, <1>3, <1>4, <1>5 DEF Next

LEMMA OnePlaceInit == Init => OnePlaceInv
<1> SUFFICES ASSUME Init
             PROVE  OnePlaceInv
  OBVIOUS
<1>1. TypeInv
  BY TypeInit
<1>2. HandEmpty /\ ClientReady /\ HeldOnce
  BY DEF Init, HandEmpty, ClientReady, HeldOnce, Thread
<1>3. Queued = {} /\ Held = {} /\ QueuedOnce
  BY DEF Init, Queued, Held, QueuedOnce
<1>4. Places[1] = Note /\ \A k \in 1..6 : k # 1 => Places[k] = {}
  BY <1>3 DEF Init, Places
<1>5. \A n \in Note : {p \in 1..6 : n \in Places[p]} = {1}
  BY <1>4
<1>6. Alone
  BY <1>5, FS_Singleton DEF Alone
<1> QED
  BY <1>1, <1>2, <1>3, <1>6 DEF OnePlaceInv

(* A notification is never lost, doubled or sent twice, whichever thread   *)
(* takes it and however many handlers there come to be.                    *)
THEOREM InOnePlace == Spec => []OnePlace
<1>1. OnePlaceInv => OnePlace
  BY DEF OnePlaceInv, Alone, QueuedOnce, HeldOnce, OnePlace
<1> QED
  BY OnePlaceInit, OnePlaceStep, <1>1, PTL DEF Spec
=============================================================================
