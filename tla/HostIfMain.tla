----------------------------- MODULE HostIfMain -----------------------------
(***************************************************************************)
(* The life of the process: main starts the threads one after the other,   *)
(* waits for the HTTP server at most ten seconds, reports READY, and runs  *)
(* the main loop, which serves the requests of both HTTP servers.  A       *)
(* signal wakes the shutdown thread, which takes everything down once and  *)
(* makes the loop end; main then joins its threads and returns.            *)
(*                                                                         *)
(* A step is one call of main or of exit_gracefully, or one step of the    *)
(* threads they start and stop.  The update thread and the thread of the   *)
(* web configuration are not here, for main never waits for them.  Nor is  *)
(* init_rbus_dml_provider, which main calls itself after it has started    *)
(* Parodus and before it looks at the HTTP server: it touches nothing that *)
(* is modelled here, and its retries are bounded (OpenRbus of Requests).   *)
(* exit_gracefully only sets the flags that stop the update thread         *)
(* (TableEvents) and the bootstrap store (BSStore).                        *)
(***************************************************************************)
EXTENDS Integers

CONSTANTS
    MaxSignals, \* bound on the signals sent
    MaxPolls,   \* the polls of /tmp/webpa/start_time before it is watched
    MaxTouches  \* bound on the times the start time file is touched

ASSUME BoundsAssumption ==
    /\ MaxSignals \in Nat
    /\ MaxPolls \in Nat \ {0}
    /\ MaxTouches \in Nat

VARIABLES
    main,        \* where main is
    shut,        \* where the shutdown thread is
    signals,     \* signals sent so far
    sem,         \* shutdown_thread_sem
    paramMgrhash,\* the manager table: "none", "made", or "freed" before NULL
    bus,         \* the IARM calls are registered
    dataModel,   \* g_dbhandle is loaded
    json,        \* the JSON server: "none", "created", "listening", "stopped"
    http,        \* where the thread of the HTTP server is
    http_server, \* that server: "none", "created", "listening", "stopped"
    httpServerThreadDone,
    running,     \* g_main_loop_is_running(main_loop)
    parodus,     \* where the thread of the Parodus client is
    exit_parodus_recv,
    monitor,     \* where the thread of the manageable notification is
    polls,       \* its count
    startTime,   \* /tmp/webpa/start_time exists
    touches,     \* times it was touched
    told,        \* manageable notifications sent
    busy         \* the sources whose request is being processed

start == <<paramMgrhash, bus, dataModel>>
servers == <<json, http, http_server, httpServerThreadDone>>
client == <<parodus, exit_parodus_recv, startTime>>
notice == <<monitor, polls, told>>
signal == <<shut, signals, sem>>
mainVars == <<main, signal, start, servers, running, client, notice, touches, busy>>

Source == {"webpa", "http"}

Then(from, to) == main = from /\ main' = to

-----------------------------------------------------------------------------
(* main                                                                    *)

(* A configuration file that cannot be opened ends the process.            *)
ReadManagers ==
    /\ \/ Then("config", "bus") /\ paramMgrhash' = "made"
       \/ Then("config", "exited") /\ UNCHANGED paramMgrhash
    /\ UNCHANGED <<signal, bus, dataModel, servers, running, client, notice,
                   touches, busy>>

(* hostIf_IARM_IF_Start.  A failure is logged.                             *)
StartBus ==
    /\ Then("bus", "dataModel")
    /\ bus' \in BOOLEAN
    /\ UNCHANGED <<signal, paramMgrhash, dataModel, servers, running, client,
                   notice, touches, busy>>

(* Mutant: a data model that does not load is only logged.                 *)
LoadDataModelOnlyLog ==
    /\ Then("dataModel", "json")
    /\ dataModel' \in BOOLEAN
    /\ UNCHANGED <<signal, paramMgrhash, bus, servers, running, client, notice,
                   touches, busy>>

LoadDataModel ==
    /\ \/ Then("dataModel", "json") /\ dataModel' = TRUE
       \/ Then("dataModel", "exited") /\ UNCHANGED dataModel
    /\ UNCHANGED <<signal, paramMgrhash, bus, servers, running, client, notice,
                   touches, busy>>

StartJson ==
    /\ Then("json", "http")
    /\ json' = "created"
    /\ UNCHANGED <<signal, start, http, http_server, httpServerThreadDone,
                   running, client, notice, touches, busy>>

(* No HTTP server when the legacy RFC file exists.                         *)
StartHttp ==
    /\ Then("http", "parodus")
    /\ http' \in {"none", "start"}
    /\ UNCHANGED <<signal, start, json, http_server, httpServerThreadDone,
                   running, client, notice, touches, busy>>

StartParodus ==
    /\ Then("parodus", "check")
    /\ parodus' = "start"
    /\ UNCHANGED <<signal, start, servers, running, exit_parodus_recv,
                   startTime, notice, touches, busy>>

(* The flag is read without the mutex, and again under it by the wait.     *)
CheckHttp ==
    /\ \/ httpServerThreadDone /\ Then("check", "ready")
       \/ ~httpServerThreadDone /\ Then("check", "wait")
    /\ UNCHANGED <<signal, start, servers, running, client, notice, touches,
                   busy>>

(* Mutant: the wait has no time limit.                                     *)
WaitHttpForever ==
    /\ Then("wait", "ready")
    /\ httpServerThreadDone
    /\ UNCHANGED <<signal, start, servers, running, client, notice, touches,
                   busy>>

(* Notified, or ten seconds over.                                          *)
WaitHttp ==
    /\ Then("wait", "ready")
    /\ UNCHANGED <<signal, start, servers, running, client, notice, touches,
                   busy>>

(* READY, and the thread of the manageable notification.                   *)
SendReady ==
    /\ Then("ready", "newLoop")
    /\ monitor' = "asleep"
    /\ UNCHANGED <<signal, start, servers, running, client, polls, told,
                   touches, busy>>

RunLoop ==
    /\ Then("newLoop", "loop")
    /\ running' = TRUE
    /\ UNCHANGED <<signal, start, servers, client, notice, touches, busy>>

LeaveLoop ==
    /\ ~running /\ "http" \notin busy
    /\ Then("loop", "joinJson")
    /\ UNCHANGED <<signal, start, servers, running, client, notice, touches,
                   busy>>

JoinJson ==
    /\ Then("joinJson", "joinHttp")
    /\ json # "created"
    /\ UNCHANGED <<signal, start, servers, running, client, notice, touches,
                   busy>>

JoinHttp ==
    /\ Then("joinHttp", "joinParodus")
    /\ http \in {"none", "done"}
    /\ UNCHANGED <<signal, start, servers, running, client, notice, touches,
                   busy>>

(* Mutant: the thread detaches itself once it is connected.                *)
DetachedLate == parodus \notin {"start", "connect"}

(* connect_parodus begins with pthread_detach.                             *)
Detached == parodus # "start"

(* glibc refuses to join a detached thread; one joined before it detaches  *)
(* itself is waited for.                                                   *)
JoinParodus ==
    /\ \/ Detached /\ Then("joinParodus", "exited")
       \/ ~Detached /\ Then("joinParodus", "joining")
       \/ parodus = "done" /\ Then("joining", "exited")
    /\ UNCHANGED <<signal, start, servers, running, client, notice, touches,
                   busy>>

Main ==
    \/ ReadManagers \/ StartBus \/ LoadDataModel \/ StartJson \/ StartHttp
    \/ StartParodus \/ CheckHttp \/ WaitHttp \/ SendReady \/ RunLoop
    \/ LeaveLoop \/ JoinJson \/ JoinHttp \/ JoinParodus

-----------------------------------------------------------------------------
(* The threads that main starts.                                           *)

(* jsonIfHandlerThread.  A failure to listen is logged.                    *)
JsonThread ==
    /\ json = "created" /\ main # "exited"
    /\ json' \in {"listening", "stopped"}
    /\ UNCHANGED <<main, signal, start, http, http_server, httpServerThreadDone,
                   running, client, notice, touches, busy>>

(* HTTPServerStartThread.  Without a data model or a server it returns and *)
(* leaves the flag as it is; when it cannot listen it goes on.             *)
CreateServer ==
    /\ http = "start" /\ main # "exited"
    /\ \/ dataModel /\ http' = "listen" /\ http_server' = "created"
       \/ http' = "done" /\ UNCHANGED http_server
    /\ UNCHANGED <<main, signal, start, json, httpServerThreadDone, running,
                   client, notice, touches, busy>>

Listen ==
    /\ http = "listen" /\ main # "exited"
    /\ http' = "flag"
    /\ http_server' \in {http_server, "listening"}
    /\ UNCHANGED <<main, signal, start, json, httpServerThreadDone, running,
                   client, notice, touches, busy>>

FlagDone ==
    /\ http = "flag" /\ main # "exited"
    /\ http' = "done"
    /\ httpServerThreadDone' = TRUE
    /\ UNCHANGED <<main, signal, start, json, http_server, running, client,
                   notice, touches, busy>>

(* libpd_client_mgr: the data model is checked, then connect_parodus       *)
(* detaches the thread and tries until libparodus_init succeeds; then it   *)
(* makes the start time file, if it can.                                   *)
EnterClient ==
    /\ parodus = "start" /\ main # "exited"
    /\ parodus' = IF dataModel THEN "connect" ELSE "done"
    /\ UNCHANGED <<main, signal, start, servers, running, exit_parodus_recv,
                   startTime, notice, touches, busy>>

Connect ==
    /\ parodus = "connect" /\ main # "exited"
    /\ parodus' = "test"
    /\ startTime' \in {startTime, TRUE}
    /\ UNCHANGED <<main, signal, start, servers, running, exit_parodus_recv,
                   notice, touches, busy>>

(* parodus_receive_wait: the flag is tested between two receives, and a    *)
(* receive that has begun may still return a request.                      *)
TestExit ==
    /\ parodus = "test" /\ main # "exited"
    /\ parodus' = IF exit_parodus_recv THEN "done" ELSE "receive"
    /\ UNCHANGED <<main, signal, start, servers, running, exit_parodus_recv,
                   startTime, notice, touches, busy>>

ReceiveTimeout ==
    /\ parodus = "receive" /\ "webpa" \notin busy /\ main # "exited"
    /\ parodus' = "test"
    /\ UNCHANGED <<main, signal, start, servers, running, exit_parodus_recv,
                   startTime, notice, touches, busy>>

(* systemMgmtTimePathMonitorThr.  The flag that the loop sets is another   *)
(* variable than the one it tests, so that the directory is watched even   *)
(* when the notification was sent; a watch that cannot be set up ends the  *)
(* thread.                                                                 *)
(* Mutant: the poll that has sent the notification polls on.               *)
PollGoesOn ==
    /\ monitor = "asleep" /\ main # "exited"
    /\ IF startTime
       THEN told' = told + 1 /\ UNCHANGED <<monitor, polls>>
       ELSE /\ polls' = polls + 1
            /\ monitor' \in (IF polls' >= MaxPolls THEN {"watch", "done"}
                                                  ELSE {"asleep"})
            /\ UNCHANGED told
    /\ UNCHANGED <<main, signal, start, servers, running, client, touches, busy>>

(* Mutant: the last poll only gives up.                                    *)
PollGivesUp ==
    /\ monitor = "asleep" /\ main # "exited"
    /\ IF startTime /\ polls + 1 < MaxPolls
       THEN told' = told + 1 /\ monitor' = "watch" /\ UNCHANGED polls
       ELSE /\ polls' = polls + 1
            /\ monitor' \in (IF polls' >= MaxPolls THEN {"watch", "done"}
                                                  ELSE {"asleep"})
            /\ UNCHANGED told
    /\ UNCHANGED <<main, signal, start, servers, running, client, touches, busy>>

Poll ==
    /\ monitor = "asleep" /\ main # "exited"
    /\ IF startTime
       THEN told' = told + 1 /\ monitor' \in {"watch", "done"} /\ UNCHANGED polls
       ELSE /\ polls' = polls + 1
            /\ monitor' \in (IF polls' >= MaxPolls THEN {"watch", "done"}
                                                  ELSE {"asleep"})
            /\ UNCHANGED told
    /\ UNCHANGED <<main, signal, start, servers, running, client, touches, busy>>

(* The watch: only a change of the attributes of the file counts, not that *)
(* it is made.                                                             *)
Touch ==
    /\ startTime /\ touches < MaxTouches /\ main # "exited"
    /\ touches' = touches + 1
    /\ IF monitor = "watch"
       THEN told' = told + 1 /\ monitor' = "done"
       ELSE UNCHANGED <<told, monitor>>
    /\ UNCHANGED <<main, signal, start, servers, running, client, polls, busy>>

Started ==
    \/ JsonThread \/ CreateServer \/ Listen \/ FlagDone
    \/ EnterClient \/ Connect \/ TestExit \/ ReceiveTimeout
    \/ Poll \/ Touch

-----------------------------------------------------------------------------
(* Requests: those of WebPA come on the thread of the client, those of     *)
(* both HTTP servers in the main loop.                                     *)

Receives(s) ==
    CASE s = "webpa" -> parodus = "receive"
      [] s = "http"  -> /\ main = "loop" /\ running
                        /\ "listening" \in {json, http_server}

Request(s) ==
    /\ Receives(s) /\ s \notin busy /\ main # "exited"
    /\ busy' = busy \cup {s}
    /\ UNCHANGED <<main, signal, start, servers, running, client, notice,
                   touches>>

EndRequest(s) ==
    /\ s \in busy /\ main # "exited"
    /\ busy' = busy \ {s}
    /\ UNCHANGED <<main, signal, start, servers, running, client, notice,
                   touches>>

-----------------------------------------------------------------------------
(* Signals and the shutdown thread: quit_handler, shutdown_thread_entry,   *)
(* exit_gracefully.                                                        *)

QuitHandler ==
    /\ signals < MaxSignals /\ main # "exited"
    /\ signals' = signals + 1 /\ sem' = sem + 1
    /\ UNCHANGED <<main, shut, start, servers, running, client, notice, touches,
                   busy>>

ShutStep(from, to) == shut = from /\ shut' = to /\ main # "exited"

WakeShutdown ==
    /\ sem > 0 /\ ShutStep("wait", "parodus")
    /\ sem' = sem - 1
    /\ UNCHANGED <<main, signals, start, servers, running, client, notice,
                   touches, busy>>

StopParodus ==
    /\ ShutStep("parodus", "json")
    /\ exit_parodus_recv' = TRUE
    /\ UNCHANGED <<main, signals, sem, start, servers, running, parodus,
                   startTime, notice, touches, busy>>

StopJson ==
    /\ ShutStep("json", "table")
    /\ json' = IF json = "listening" THEN "stopped" ELSE json
    /\ UNCHANGED <<main, signals, sem, start, http, http_server,
                   httpServerThreadDone, running, client, notice, touches, busy>>

FreeTable ==
    /\ ShutStep("table", "null")
    /\ paramMgrhash' = IF paramMgrhash = "made" THEN "freed" ELSE paramMgrhash
    /\ UNCHANGED <<main, signals, sem, bus, dataModel, servers, running, client,
                   notice, touches, busy>>

ClearTable ==
    /\ ShutStep("null", "bus")
    /\ paramMgrhash' = IF paramMgrhash = "freed" THEN "none" ELSE paramMgrhash
    /\ UNCHANGED <<main, signals, sem, bus, dataModel, servers, running, client,
                   notice, touches, busy>>

StopBus ==
    /\ ShutStep("bus", "quit")
    /\ bus' = FALSE
    /\ UNCHANGED <<main, signals, sem, paramMgrhash, dataModel, servers, running,
                   client, notice, touches, busy>>

(* Mutant: the HTTP server is stopped, the loop is not told to end.        *)
QuitLoopNot ==
    /\ ShutStep("quit", IF running THEN "stopHttp" ELSE "done")
    /\ UNCHANGED <<main, signals, sem, start, servers, running, client, notice,
                   touches, busy>>

(* g_main_loop_quit, if the loop runs by now.                              *)
QuitLoop ==
    /\ ShutStep("quit", IF running THEN "stopHttp" ELSE "done")
    /\ running' = FALSE
    /\ UNCHANGED <<main, signals, sem, start, servers, client, notice, touches,
                   busy>>

(* HttpServerStop.                                                         *)
StopHttp ==
    /\ ShutStep("stopHttp", "done")
    /\ IF http_server = "none" THEN UNCHANGED <<http_server, httpServerThreadDone>>
       ELSE http_server' = "stopped" /\ httpServerThreadDone' = FALSE
    /\ UNCHANGED <<main, signals, sem, start, json, http, running, client,
                   notice, touches, busy>>

Shutdown ==
    \/ WakeShutdown \/ StopParodus \/ StopJson \/ FreeTable \/ ClearTable
    \/ StopBus \/ QuitLoop \/ StopHttp

-----------------------------------------------------------------------------
MainInit ==
    /\ main = "config" /\ shut = "wait"
    /\ signals = 0 /\ sem = 0
    /\ paramMgrhash = "none" /\ bus = FALSE /\ dataModel = FALSE
    /\ json = "none" /\ http = "none" /\ http_server = "none"
    /\ httpServerThreadDone = FALSE
    /\ running = FALSE
    /\ parodus = "none" /\ exit_parodus_recv = FALSE
    /\ monitor = "none" /\ polls = 0 /\ told = 0
    /\ startTime \in BOOLEAN    \* left by the process before this one
    /\ touches = 0
    /\ busy = {}

Exited == main = "exited" /\ UNCHANGED mainVars

MainNext ==
    \/ Main \/ Started \/ Shutdown \/ QuitHandler \/ Exited
    \/ \E s \in Source : Request(s) \/ EndRequest(s)

MainSpec == MainInit /\ [][MainNext]_mainVars

(* Every thread goes on, and a request ends; that libparodus_init ever     *)
(* succeeds, that a request or a signal comes and that the file is touched *)
(* are not assumed.                                                        *)
MainLiveSpec ==
    /\ MainSpec
    /\ WF_mainVars(Main) /\ WF_mainVars(Shutdown)
    /\ WF_mainVars(JsonThread) /\ WF_mainVars(CreateServer \/ Listen \/ FlagDone)
    /\ WF_mainVars(EnterClient) /\ WF_mainVars(TestExit \/ ReceiveTimeout) /\ WF_mainVars(Poll)
    /\ \A s \in Source : WF_mainVars(EndRequest(s))

-----------------------------------------------------------------------------
(* Properties                                                              *)

MainSteps ==
    {"config", "bus", "dataModel", "json", "http", "parodus", "check", "wait",
     "ready", "newLoop", "loop", "joinJson", "joinHttp", "joinParodus",
     "joining", "exited"}

MainTypeOK ==
    /\ main \in MainSteps
    /\ shut \in {"wait", "parodus", "json", "table", "null", "bus", "quit",
                 "stopHttp", "done"}
    /\ signals \in 0..MaxSignals /\ sem \in 0..signals
    /\ paramMgrhash \in {"none", "made", "freed"}
    /\ bus \in BOOLEAN /\ dataModel \in BOOLEAN
    /\ json \in {"none", "created", "listening", "stopped"}
    /\ http \in {"none", "start", "listen", "flag", "done"}
    /\ http_server \in {"none", "created", "listening", "stopped"}
    /\ httpServerThreadDone \in BOOLEAN
    /\ running \in BOOLEAN
    /\ parodus \in {"none", "start", "connect", "test", "receive", "done"}
    /\ exit_parodus_recv \in BOOLEAN
    /\ monitor \in {"none", "asleep", "watch", "done"}
    /\ polls \in 0..MaxPolls
    /\ startTime \in BOOLEAN
    /\ touches \in 0..MaxTouches
    /\ told \in 0..2
    /\ busy \subseteq Source

(* No request of WebPA or HTTP is processed without the data model, which  *)
(* validates it: their threads look for it, and the loop that serves HTTP  *)
(* is reached only with it.                                                *)
ServedWithModel == busy \cap {"webpa", "http"} # {} => dataModel

(* The start always comes to the main loop or ends the process, whatever   *)
(* becomes of the thread of the HTTP server and whenever a signal comes:   *)
(* the wait for httpServerThreadDone has a time limit.                     *)
StartEnds == <>(main \in {"loop", "exited"})

(* A signal that finds the main loop running ends the process, also when   *)
(* Parodus was never reached and its thread is still trying: that thread   *)
(* has detached itself, so that main does not wait for it.                 *)
SignalExits ==
    (sem > 0 /\ shut = "wait" /\ main = "loop" /\ parodus # "start")
        ~> main = "exited"

(* When Parodus is connected before the last poll of the start time file,  *)
(* the manageable notification is sent; the poll is the only way, for the  *)
(* watch that follows does not see the file being made.                    *)
ManageableSent ==
    (startTime /\ monitor = "asleep") ~> (told > 0 \/ main = "exited")
=============================================================================
