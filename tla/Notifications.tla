--------------------------- MODULE Notifications ----------------------------
(***************************************************************************)
(* Notifications to the cloud through Parodus.  Any thread that sees a     *)
(* value change, or serves a set with a notification, makes the handler if *)
(* there is none, puts its notification into the queue and calls back the  *)
(* WebPA adapter, still in that thread, which takes the first of the queue *)
(* and sends it, in up to four attempts.  The Parodus thread connects,     *)
(* registers the callback, and then serves requests, which may notify in   *)
(* turn, until it is stopped.                                              *)
(*                                                                         *)
(* getInstance takes no lock: two threads may each make a handler, and the *)
(* second one replaces the queue of the first.                             *)
(***************************************************************************)
EXTENDS Integers, Sequences, FiniteSets

CONSTANTS
    Pusher,  \* threads that notify: updateHandler::run, IARM and HTTP threads
    Client,  \* the thread of libpd_client_mgr
    Note,    \* bound: the notifications raised
    None     \* no notification

ASSUME ConstantsAssumption ==
    /\ IsFiniteSet(Pusher)
    /\ Client \notin Pusher
    /\ None \notin Note

Thread == Pusher \union {Client}

VARIABLES
    pInstance,            \* whether the handler is there
    queues,               \* the queues made so far
    notifyUpdateCallback, \* whether the adapter has registered
    libparodus_instance,  \* whether the connection is open
    exit_parodus_recv,
    backoffRetryTime, c,  \* of connect_parodus
    pc,                   \* where each thread is
    hold,                 \* the notification it is about to push or to send
    at,                   \* the queue it is about to pop from
    retry_count,          \* of sendNotification
    fresh,                \* history: not raised yet
    sent,                 \*          taken by Parodus
    refused,              \*          raised before the adapter registered
    dropped               \*          not sent in four attempts

handler == <<pInstance, queues, notifyUpdateCallback>>
connection == <<libparodus_instance, backoffRetryTime, c>>
thread == <<hold, at, retry_count>>
fates == <<sent, refused, dropped>>
vars == <<handler, connection, exit_parodus_recv, pc, thread, fresh, fates>>

(* The static notificationQueue is the queue made last.                    *)
notificationQueue == Len(queues)

(* Where a thread goes on when its notification is done.                   *)
Rest(t) == IF t = Client THEN "loop" ELSE "idle"

Goto(t, l) == pc' = [pc EXCEPT ![t] = l]

-----------------------------------------------------------------------------
(* NotificationHandler::getInstance, with the constructor.                 *)

GetInstance(t, next) == Goto(t, IF pInstance THEN next ELSE "construct")

Construct(t) ==
    /\ pc[t] = "construct"
    /\ queues' = Append(queues, <<>>)
    /\ Goto(t, "assign")
    /\ UNCHANGED <<pInstance, notifyUpdateCallback, connection,
                   exit_parodus_recv, thread, fresh, fates>>

Assign(t) ==
    /\ pc[t] = "assign"
    /\ pInstance' = TRUE
    /\ Goto(t, IF t = Client THEN "register" ELSE "push")
    /\ UNCHANGED <<queues, notifyUpdateCallback, connection,
                   exit_parodus_recv, thread, fresh, fates>>

-----------------------------------------------------------------------------
(* pushNotification, and the callback up to the pop.                       *)

(* A value changes, or a set that notifies is served; the Parodus thread   *)
(* serves a request with one such set at a time.                           *)
Raise(t, n) ==
    /\ pc[t] = IF t = Client THEN "receive" ELSE "idle"
    /\ n \in fresh
    /\ fresh' = fresh \ {n}
    /\ hold' = [hold EXCEPT ![t] = n]
    /\ GetInstance(t, "push")
    /\ UNCHANGED <<handler, connection, exit_parodus_recv, at, retry_count, fates>>

Refuse(t) ==
    /\ pc[t] = "push"
    /\ notificationQueue = 0 \/ ~notifyUpdateCallback
    /\ refused' = refused \union {hold[t]}
    /\ hold' = [hold EXCEPT ![t] = None]
    /\ Goto(t, Rest(t))
    /\ UNCHANGED <<handler, connection, exit_parodus_recv, at, retry_count,
                   fresh, sent, dropped>>

(* Mutant: the adapter is called for the first in the queue only.          *)
PushToEmpty(t) ==
    /\ pc[t] = "push"
    /\ notificationQueue # 0 /\ notifyUpdateCallback
    /\ queues' = [queues EXCEPT ![notificationQueue] = Append(@, hold[t])]
    /\ hold' = [hold EXCEPT ![t] = None]
    /\ Goto(t, IF queues[notificationQueue] = <<>> THEN "callback" ELSE Rest(t))
    /\ UNCHANGED <<pInstance, notifyUpdateCallback, connection,
                   exit_parodus_recv, at, retry_count, fresh, fates>>

Push(t) ==
    /\ pc[t] = "push"
    /\ notificationQueue # 0 /\ notifyUpdateCallback
    /\ queues' = [queues EXCEPT ![notificationQueue] = Append(@, hold[t])]
    /\ hold' = [hold EXCEPT ![t] = None]
    /\ Goto(t, "callback")
    /\ UNCHANGED <<pInstance, notifyUpdateCallback, connection,
                   exit_parodus_recv, at, retry_count, fresh, fates>>

GetNotificationQueue(t) ==
    /\ pc[t] = "callback"
    /\ at' = [at EXCEPT ![t] = notificationQueue]
    /\ Goto(t, "pop")
    /\ UNCHANGED <<handler, connection, exit_parodus_recv, hold, retry_count,
                   fresh, fates>>

(* The first of the queue, which another thread may have put there.        *)
Pop(t) ==
    /\ pc[t] = "pop" /\ queues[at[t]] # <<>>
    /\ hold' = [hold EXCEPT ![t] = Head(queues[at[t]])]
    /\ queues' = [queues EXCEPT ![at[t]] = Tail(@)]
    /\ at' = [at EXCEPT ![t] = 0]
    /\ Goto(t, "send")
    /\ UNCHANGED <<pInstance, notifyUpdateCallback, connection,
                   exit_parodus_recv, retry_count, fresh, fates>>

PopTimesOut(t) ==
    /\ pc[t] = "pop" /\ queues[at[t]] = <<>>
    /\ at' = [at EXCEPT ![t] = 0]
    /\ Goto(t, Rest(t))
    /\ UNCHANGED <<handler, connection, exit_parodus_recv, hold, retry_count,
                   fresh, fates>>

-----------------------------------------------------------------------------
(* sendNotification, by the thread that popped.                            *)

(* Mutant: no break after a success.                                       *)
SendAgain(t) ==
    /\ pc[t] = "send" /\ libparodus_instance
    /\ sent' = sent \union {hold[t]}
    /\ retry_count' = [retry_count EXCEPT ![t] = 0]
    /\ UNCHANGED <<handler, connection, exit_parodus_recv, pc, hold, at, fresh,
                   refused, dropped>>

Send(t) ==
    /\ pc[t] = "send" /\ libparodus_instance
    /\ sent' = sent \union {hold[t]}
    /\ hold' = [hold EXCEPT ![t] = None]
    /\ retry_count' = [retry_count EXCEPT ![t] = 0]
    /\ Goto(t, Rest(t))
    /\ UNCHANGED <<handler, connection, exit_parodus_recv, at, fresh, refused, dropped>>

(* Mutant: the attempts are not counted.                                   *)
SendForever(t) ==
    /\ pc[t] = "send"
    /\ UNCHANGED vars

(* An attempt that fails, and the pause after it.                          *)
SendFails(t) ==
    /\ pc[t] = "send"
    /\ IF retry_count[t] < 3
         THEN /\ retry_count' = [retry_count EXCEPT ![t] = @ + 1]
              /\ UNCHANGED <<pc, hold, dropped>>
         ELSE /\ retry_count' = [retry_count EXCEPT ![t] = 0]
              /\ dropped' = dropped \union {hold[t]}
              /\ hold' = [hold EXCEPT ![t] = None]
              /\ Goto(t, Rest(t))
    /\ UNCHANGED <<handler, connection, exit_parodus_recv, at, fresh, sent, refused>>

Notify(t) ==
    \/ Construct(t) \/ Assign(t)
    \/ Refuse(t) \/ Push(t) \/ GetNotificationQueue(t)
    \/ Pop(t) \/ PopTimesOut(t)
    \/ Send(t) \/ SendFails(t)

-----------------------------------------------------------------------------
(* libpd_client_mgr: connect_parodus, registerNotifyCallback and           *)
(* parodus_receive_wait.                                                   *)

LoadDataModel(ok) ==
    /\ pc[Client] = "start"
    /\ Goto(Client, IF ok THEN "connect" ELSE "done")
    /\ UNCHANGED <<handler, connection, exit_parodus_recv, thread, fresh, fates>>

max_retry_sleep == 31

(* Mutant: the exponent is not set back with the pause.                    *)
RetryKeepsExponent ==
    LET pause == IF backoffRetryTime < max_retry_sleep THEN 2^c - 1 ELSE backoffRetryTime
    IN  /\ pc[Client] = "connect"
        /\ c' = c + 1
        /\ backoffRetryTime' = IF pause = max_retry_sleep THEN 0 ELSE pause
        /\ UNCHANGED <<handler, libparodus_instance, exit_parodus_recv, pc,
                       thread, fresh, fates>>

(* libparodus_init fails: a pause, then again.                             *)
RetryConnect ==
    LET pause == IF backoffRetryTime < max_retry_sleep THEN 2^c - 1 ELSE backoffRetryTime
    IN  /\ pc[Client] = "connect"
        /\ c' = IF pause = max_retry_sleep THEN 2 ELSE c + 1
        /\ backoffRetryTime' = IF pause = max_retry_sleep THEN 0 ELSE pause
        /\ UNCHANGED <<handler, libparodus_instance, exit_parodus_recv, pc,
                       thread, fresh, fates>>

(* Mutant: a connection that failed is not tried again.                    *)
ConnectOnce ==
    /\ pc[Client] = "connect"
    /\ libparodus_instance' \in BOOLEAN
    /\ Goto(Client, "getInstance")
    /\ UNCHANGED <<handler, backoffRetryTime, c, exit_parodus_recv, thread, fresh, fates>>

Connect ==
    /\ pc[Client] = "connect"
    /\ libparodus_instance' = TRUE
    /\ Goto(Client, "getInstance")
    /\ UNCHANGED <<handler, backoffRetryTime, c, exit_parodus_recv, thread, fresh, fates>>

ClientInstance ==
    /\ pc[Client] = "getInstance"
    /\ GetInstance(Client, "register")
    /\ UNCHANGED <<handler, connection, exit_parodus_recv, thread, fresh, fates>>

RegisterNotifyCallback ==
    /\ pc[Client] = "register"
    /\ notifyUpdateCallback' = TRUE
    /\ Goto(Client, "loop")
    /\ UNCHANGED <<pInstance, queues, connection, exit_parodus_recv, thread, fresh, fates>>

(* The loop looks at the exit flag, and receives for two seconds.          *)
Receive ==
    /\ pc[Client] = "loop" /\ ~exit_parodus_recv
    /\ Goto(Client, "receive")
    /\ UNCHANGED <<handler, connection, exit_parodus_recv, thread, fresh, fates>>

(* Nothing comes, or a request that notifies nobody; or an error.          *)
Received(ok) ==
    /\ pc[Client] = "receive"
    /\ Goto(Client, IF ok THEN "loop" ELSE "wait")
    /\ UNCHANGED <<handler, connection, exit_parodus_recv, thread, fresh, fates>>

(* Mutant: the wait has no time limit.                                     *)
WaitForSignal == FALSE /\ UNCHANGED vars

WaitTimesOut ==
    /\ pc[Client] = "wait"
    /\ Goto(Client, "loop")
    /\ UNCHANGED <<handler, connection, exit_parodus_recv, thread, fresh, fates>>

Close ==
    /\ pc[Client] = "loop" /\ exit_parodus_recv
    /\ libparodus_instance' = FALSE
    /\ Goto(Client, "done")
    /\ UNCHANGED <<handler, backoffRetryTime, c, exit_parodus_recv, thread, fresh, fates>>

ParodusThread ==
    \/ \E ok \in BOOLEAN : LoadDataModel(ok)
    \/ RetryConnect \/ Connect
    \/ ClientInstance \/ RegisterNotifyCallback
    \/ Receive \/ WaitTimesOut \/ Close
    \/ \E ok \in BOOLEAN : Received(ok)

(* stop_parodus_recv_wait: the signal reaches a thread that waits now.     *)
Stop ==
    /\ ~exit_parodus_recv
    /\ exit_parodus_recv' = TRUE
    /\ pc' = [pc EXCEPT ![Client] = IF @ = "wait" THEN "loop" ELSE @]
    /\ UNCHANGED <<handler, connection, thread, fresh, fates>>

-----------------------------------------------------------------------------
Init ==
    /\ pInstance = FALSE
    /\ queues = <<>>
    /\ notifyUpdateCallback = FALSE
    /\ libparodus_instance = FALSE
    /\ exit_parodus_recv = FALSE
    /\ backoffRetryTime = 0
    /\ c = 2
    /\ pc = [t \in Thread |-> IF t = Client THEN "start" ELSE "idle"]
    /\ hold = [t \in Thread |-> None]
    /\ at = [t \in Thread |-> 0]
    /\ retry_count = [t \in Thread |-> 0]
    /\ fresh = Note
    /\ sent = {} /\ refused = {} /\ dropped = {}

Next ==
    \/ \E t \in Thread : Notify(t)
    \/ \E t \in Thread, n \in Note : Raise(t, n)
    \/ ParodusThread
    \/ Stop

Spec == Init /\ [][Next]_vars

(* Every thread is scheduled.  Nothing is assumed of Parodus: it may never *)
(* be there, and never take a notification.                                *)
LiveSpec ==
    /\ Spec
    /\ \A t \in Pusher : WF_vars(Notify(t))
    /\ WF_vars(Notify(Client) \/ ParodusThread)

-----------------------------------------------------------------------------
(* Properties.                                                             *)

Label == {"start", "connect", "getInstance", "construct", "assign", "register",
          "loop", "receive", "wait", "done",
          "idle", "push", "callback", "pop", "send"}

(* Every variable holds a value of the type the code gives it.  The pauses *)
(* of connect_parodus go through 3, 7, 15 and 31 s and start over.         *)
TypeOK ==
    /\ pInstance \in BOOLEAN
    /\ queues \in Seq(Seq(Note))
    /\ notifyUpdateCallback \in BOOLEAN
    /\ libparodus_instance \in BOOLEAN
    /\ exit_parodus_recv \in BOOLEAN
    /\ <<c, backoffRetryTime>> \in {<<2, 0>>, <<3, 3>>, <<4, 7>>, <<5, 15>>}
    /\ pc \in [Thread -> Label]
    /\ hold \in [Thread -> Note \union {None}]
    /\ at \in [Thread -> 0..Len(queues)]
    /\ retry_count \in [Thread -> 0..3]
    /\ fresh \subseteq Note
    /\ sent \subseteq Note /\ refused \subseteq Note /\ dropped \subseteq Note

(* The threads that have yet to take a notification from the last queue.   *)
Popping ==
    {t \in Thread :
        \/ pc[t] = "callback"
        \/ pc[t] = "pop" /\ at[t] = notificationQueue}

(* A notification does not stay in the queue: whatever one thread takes    *)
(* from another, and even when a second handler replaces the queue, there  *)
(* is a thread on its way for each notification in it.                     *)
Drained == notificationQueue > 0 => Len(queues[notificationQueue]) <= Cardinality(Popping)

(* The notifications in a queue, and those a thread has in hand.           *)
Queued == UNION {{queues[q][i] : i \in 1..Len(queues[q])} : q \in 1..Len(queues)}
Held == {hold[t] : t \in Thread} \ {None}

Places == <<fresh, Queued, Held, sent, refused, dropped>>

(* No notification is lost, doubled or sent twice by threads that push and *)
(* pop for each other: it is in one place, and there once.                 *)
OnePlace ==
    /\ \A n \in Note : Cardinality({p \in 1..6 : n \in Places[p]}) = 1
    /\ \A p, q \in 1..Len(queues) : \A i \in 1..Len(queues[p]), j \in 1..Len(queues[q]) :
        queues[p][i] = queues[q][j] => p = q /\ i = j
    /\ \A t, u \in Thread : hold[t] = hold[u] /\ hold[t] # None => t = u

(* No thread tries to send before the connection has been open.            *)
SendConnected ==
    \A t \in Thread : pc[t] = "send" => libparodus_instance \/ pc[Client] = "done"

(* A notification keeps its thread only for so long: it is sent, dropped,  *)
(* or taken by another thread.                                             *)
PushEnds ==
    \A t \in Pusher : pc[t] # "idle" ~> pc[t] = "idle"

(* The Parodus thread, once connected, ends when it is stopped, wherever   *)
(* the stop finds it.                                                      *)
StopHeard ==
    exit_parodus_recv /\ notifyUpdateCallback ~> pc[Client] = "done"
=============================================================================
