------------------------------ MODULE Requests -------------------------------
(***************************************************************************)
(* The requests for parameters, from the ways in to the owners: WebPA in   *)
(* the thread of Parodus, HTTP and JSON in the main loop, IARM, and the    *)
(* provider on rbus, each a thread that serves one request after another.  *)
(* A front end checks an item in its own way, says who asks and whether    *)
(* the bootstrap store is meant, and hands it to the dispatch, which holds *)
(* the mutex of gets or that of sets while the manager works.  Names that  *)
(* belong to another process go over rbus, those of the telemetry process  *)
(* with the mutex held.                                                    *)
(*                                                                         *)
(* The stores are what RFCStore and BSStore make of a set outside of an    *)
(* RFC run: the value kept, or left as it was when a file fails.  Values   *)
(* do not differ by their case only.  Null is the value of an item that    *)
(* has none, and Misfit one that is not of the parameter's type.           *)
(*                                                                         *)
(* Requests for attributes are left out: WebPA casts the parameters of one *)
(* to another type.  So is a set of Reboot without a value, which compares *)
(* a null pointer.                                                         *)
(***************************************************************************)
EXTENDS ManagerTable, FiniteSets

CONSTANTS
    Value,      \* the values set and answered
    Initial,    \* the value of a store, and the default of the data model
    MaxRetry,   \* max_retry of init_rbus_dml_provider
    Ask,        \* bound: the requests the clients make
    MaxBusy     \* bound: the requests served at a time

Null == "null"
Misfit == "misfit"
Item == [name : Name \cup {"Wildcard"}, value : Value \cup {Null, Misfit}]

From == {"webpa", "rfc", "tool", "json", "iarm", "rbus"}
Names(r) == {r.items[k].name : k \in DOMAIN r.items}
Expands == {"webpa", "rfc", "tool"}
Alone(r) == Len(r.items) = 1 /\ r.from \in Expands

(* Bound: a wildcard is asked for alone, of a front end that knows what it *)
(* is.  Over IARM the caller fills in the message itself, with a name and  *)
(* a value of its type.                                                    *)
ASSUME AskAssumption ==
    /\ Initial \in Value /\ None \notin Value
    /\ MaxRetry \in Nat
    /\ Ask \subseteq [from : From, op : {"get", "set"}, items : Seq(Item)]
    /\ \A r \in Ask :
          /\ r.items # <<>>
          /\ r.op = "set" => r.from \notin {"json", "rbus"}
          /\ r.op = "get" => Alone(r) \/ Names(r) \subseteq Name
          /\ r.from = "iarm" => Names(r) \subseteq Name
          /\ r.from = "iarm" /\ r.op = "set" =>
                \A k \in DOMAIN r.items : r.items[k].value \in Value

Thread == {"webpa", "loop", "iarm", "rbus"}
thread(from) == IF from \in {"rfc", "tool", "json"} THEN "loop" ELSE from
Free == "free"
NoReq == [from |-> None, op |-> None, items |-> <<>>, wild |-> FALSE]

VARIABLES
    mgr,          \* the manager HostIf_GetMgr gives for each name
    handle,       \* rbusHandle: whether init_rbus_dml_provider has it
    retry_count,  \* of its loop
    boot, source, \* the bootstrap store, and who set each of its parameters
    rfc,          \* the RFC store; None when the parameter is not there
    own,          \* the values kept by the system
    mutex,        \* get_handler_mutex and set_handler_mutex
    pc,           \* where each thread is
    req,          \* its request
    res,          \* what became of the items so far
    touched,      \* history: whether the request has changed a value
    last,         \* history: the value last kept of a name, whoever set it
    astray        \* history: bootstrap names whose last one came over IARM

stores == <<boot, source, rfc, own>>
lastKept == <<last, astray>>
vars == <<mgr, handle, retry_count, stores, mutex, pc, req, res, touched, lastKept>>

Boot == {"PartnerName", "Feature", "DNSText"}
Kept == Boot \cup {"Airplay", "Hdr", "PartnerId"}

(* What became of an item: whether the client is told success, whether it  *)
(* was done, and of a get, whether it gave the value of the name's store.  *)
Result(ok, did, fresh) == [ok |-> ok, did |-> did, fresh |-> fresh]

Goto(t, l) == pc' = [pc EXCEPT ![t] = l]
item(t) == req[t].items[Len(res[t]) + 1]

(* Mutant: an item that failed ends the request.                           *)
RecordLast(t, r) ==
    /\ res' = [res EXCEPT ![t] = Append(@, r)]
    /\ Goto(t, IF ~r.ok \/ Len(res[t]) + 1 = Len(req[t].items)
               THEN "answer" ELSE "next")

(* Record an item and go on to the next one, or to the answer.             *)
Record(t, r) ==
    /\ res' = [res EXCEPT ![t] = Append(@, r)]
    /\ Goto(t, IF Len(res[t]) + 1 = Len(req[t].items) THEN "answer" ELSE "next")

-----------------------------------------------------------------------------
(* What the front ends put into the message.                               *)

Http == {"rfc", "tool"}

(* The requestor: invokeHostIfAPI knows the caller "rfc" by its name.      *)
requestor(from) ==
    CASE from = "rfc" -> "RFC"
      [] from \in {"webpa", "tool"} -> "WEBPA"
      [] from = "iarm" -> "IARM"
      [] OTHER -> "NONE"

(* Mutant: a named get by HTTP comes without bsUpdate too.                 *)
bsUpdateSets(r, n) ==
    IF \/ r.wild \/ r.from \in {"json", "rbus"}
       \/ r.from \in Http /\ r.op = "get"
       \/ r.from = "iarm" /\ r.op = "set"
    THEN "NONE"
    ELSE getBSUpdateEnum(n)

(* bsUpdate: the children of a wildcard, sets over IARM, JSON and rbus     *)
(* come without it.                                                        *)
bsUpdate(r, n) ==
    IF \/ r.wild \/ r.from \in {"json", "rbus"}
       \/ r.from = "iarm" /\ r.op = "set"
    THEN "NONE"
    ELSE getBSUpdateEnum(n)

(* Mutant: to WebPA, no fault code is no failure.                          *)
StatusOfFault(from, ret, fault) ==
    IF from = "webpa" THEN ret = "OK" \/ fault = "none"
    ELSE ret = "OK" /\ (from \in Http => fault = "none")

(* Whether the client is told success of what the dispatch returned and of *)
(* the fault code: convertFaultCodeToWalStatus makes a failure of any,     *)
(* none included, invokeHostIfAPI looks at both.                           *)
Status(from, ret, fault) == ret = "OK" /\ (from \in Http => fault = "none")

(* Items that SetParamInfo of WebPA and handleRequest of HTTP refuse       *)
(* themselves; the other front ends refuse none.                           *)
FrontRefuses(r, i) ==
    \/ /\ r.from = "webpa" /\ r.op = "set"
       /\ i.name \in DataModel /\ i.value = Misfit
    \/ /\ r.from \in Http /\ r.op = "set" /\ i.name # "RFC_Url"
       /\ \/ i.name \in {"Reboot", "Wildcard"} \cup ReadOnly
          \/ i.name \notin DataModel
          \/ i.value \in {Null, Misfit}
    \/ /\ r.from \in Http /\ r.op = "get" /\ i.name # "RFC_Url"
       /\ i.name \notin DataModel

(* WebPA and HTTP make a get of a wildcard one get for each child.         *)
Expand(r) ==
    IF r.op = "get" /\ r.from \in Expands /\ r.items[1].name = "Wildcard"
    THEN [from |-> r.from, op |-> "get", wild |-> TRUE,
          items |-> [k \in 1..Len(Children) |->
                        [name |-> Children[k], value |-> Null]]]
    ELSE [from |-> r.from, op |-> r.op, items |-> r.items, wild |-> FALSE]

-----------------------------------------------------------------------------
(* A request arrives.  The provider is asked only for what it registered,  *)
(* and only when it has.                                                   *)
Arrive(r) ==
    LET t == thread(r.from) IN
    /\ pc[t] = "idle"
    /\ Cardinality({u \in Thread : pc[u] # "idle"}) < MaxBusy
    /\ r.from = "rbus" =>
          handle = "open" /\ \A k \in DOMAIN r.items : r.items[k].name \in Registered
    /\ req' = [req EXCEPT ![t] = Expand(r)]
    /\ res' = [res EXCEPT ![t] = <<>>]
    /\ touched' = [touched EXCEPT ![t] = FALSE]
    /\ Goto(t, IF r.from = "webpa" /\ r.op = "set" THEN "reason" ELSE "next")
    /\ UNCHANGED <<mgr, handle, retry_count, stores, mutex, lastKept>>

(* Names whose set the chain of DeviceClientReqHandler has.                *)
Writable == {"PartnerId"}

(* setRebootReason for every item, before anything is checked: the set of  *)
(* the reason goes the way of any other, and the manager has none.         *)
Reason(t) ==
    /\ pc[t] = "reason"
    /\ IF \E k \in DOMAIN req[t].items : req[t].items[k].name = "Reboot"
       THEN /\ mutex["set"] = Free
            /\ touched' = [touched EXCEPT ![t] = "RebootReason" \in Writable]
       ELSE UNCHANGED touched
    /\ Goto(t, "validate")
    /\ UNCHANGED <<mgr, handle, retry_count, stores, mutex, req, res, lastKept>>

(* Items that validate_parameter refuses.                                  *)
Invalid(i) == i.name = "Wildcard" \/ i.value = Null

(* Mutant: the first item only is looked at.                               *)
ValidateFirst(t) ==
    /\ pc[t] = "validate"
    /\ LET items == req[t].items IN
       IF Invalid(items[1])
       THEN /\ res' = [res EXCEPT ![t] =
                          [k \in DOMAIN items |-> Result(k # 1, FALSE, TRUE)]]
            /\ Goto(t, "answer")
       ELSE /\ Goto(t, "next")
            /\ UNCHANGED res
    /\ UNCHANGED <<mgr, handle, retry_count, stores, mutex, req, touched, lastKept>>

(* validate_parameter: one such item refuses the whole request, of whose   *)
(* statuses only the first says so.                                        *)
Validate(t) ==
    /\ pc[t] = "validate"
    /\ LET items == req[t].items IN
       IF \E k \in DOMAIN items : Invalid(items[k])
       THEN /\ res' = [res EXCEPT ![t] =
                          [k \in DOMAIN items |-> Result(k # 1, FALSE, TRUE)]]
            /\ Goto(t, "answer")
       ELSE /\ Goto(t, "next")
            /\ UNCHANGED res
    /\ UNCHANGED <<mgr, handle, retry_count, stores, mutex, req, touched, lastKept>>

(* An item that the front end refuses itself.                              *)
Refuse(t) ==
    /\ pc[t] = "next" /\ FrontRefuses(req[t], item(t))
    /\ Record(t, Result(FALSE, FALSE, TRUE))
    /\ UNCHANGED <<mgr, handle, retry_count, stores, mutex, req, touched, lastKept>>

(* handleRFCRequest: a get answers from the variables last loaded, if any; *)
(* a set loads them again and does not look whether that worked.           *)
Variable(t) ==
    /\ pc[t] = "next" /\ req[t].from \in Http /\ item(t).name = "RFC_Url"
    /\ \E ok \in IF req[t].op = "set" THEN {item(t).value \in Value}
                 ELSE BOOLEAN :
          Record(t, Result(ok, ok, TRUE))
    /\ UNCHANGED <<mgr, handle, retry_count, stores, mutex, req, touched, lastKept>>

(* A name WebPA does not find in the data model goes out on rbus.          *)
Post(t) ==
    /\ pc[t] = "next" /\ req[t].from = "webpa"
    /\ item(t).name \notin DataModel
    /\ Goto(t, "bus")
    /\ UNCHANGED <<mgr, handle, retry_count, stores, mutex, req, res, touched, lastKept>>

(* hostIf_GetMsgHandler and hostIf_SetMsgHandler take their mutex.         *)
Enter(t) ==
    /\ pc[t] = "next"
    /\ ~FrontRefuses(req[t], item(t))
    /\ req[t].from = "webpa" => item(t).name \in DataModel
    /\ req[t].from \in Http => item(t).name # "RFC_Url"
    /\ mutex[req[t].op] = Free
    /\ mutex' = [mutex EXCEPT ![req[t].op] = t]
    /\ Goto(t, "handler")
    /\ UNCHANGED <<mgr, handle, retry_count, stores, req, res, touched, lastKept>>

-----------------------------------------------------------------------------
(* The managers.                                                           *)

(* Whose bootstrap parameter may be set by whom, in DeviceClient and       *)
(* TimeClient.                                                             *)
Permits(bs, rq) ==
    \/ bs = "RFC" /\ rq = "RFC"
    \/ bs = "ALL" /\ rq \in {"RFC", "WEBPA"}

(* Mutant: any requestor but RFC counts as WebPA.                          *)
OverridesAny(n, rq) == rq # "RFC" \/ source[n] # "WEBPA"

(* XBSStore::overrideValue.                                                *)
Overrides(n, rq) == rq = "WEBPA" \/ (rq = "RFC" /\ source[n] # "WEBPA")

(* Record a set for which the manager returned OK or not.                  *)
Returned(t, ok, fault, kept) ==
    Record(t, Result(Status(req[t].from, IF ok THEN "OK" ELSE "NOK", fault),
                     kept, TRUE))

(* set_xRDKCentralComBootstrap; the set of DNSText returns OK whatever the *)
(* store does, and the store leaves the fault code.                        *)
SetBoot(t, n, v) ==
    \E kept \in IF Overrides(n, requestor(req[t].from)) THEN BOOLEAN ELSE {FALSE} :
        /\ boot' = IF kept THEN [boot EXCEPT ![n] = v] ELSE boot
        /\ source' = IF kept THEN [source EXCEPT ![n] = requestor(req[t].from)]
                     ELSE source
        /\ touched' = [touched EXCEPT ![t] = @ \/ kept]
        /\ last' = IF kept THEN [last EXCEPT ![n] = v] ELSE last
        /\ astray' = IF kept THEN astray \ {n} ELSE astray
        /\ Returned(t, kept \/ n = "DNSText", "none", kept)
        /\ UNCHANGED <<rfc, own>>

(* set_xRDKCentralComRFC: the parameters that are acted on at once answer  *)
(* what became of the action.  A parameter of the bootstrap store that is  *)
(* set here, over IARM, is kept where only gets without bsUpdate look.     *)
SetRfc(t, n, v) ==
    \E kept \in BOOLEAN, acted \in BOOLEAN :
        /\ n # "Hdr" => acted = kept
        /\ rfc' = IF kept THEN [rfc EXCEPT ![n] = v] ELSE rfc
        /\ touched' = [touched EXCEPT ![t] = @ \/ kept]
        /\ last' = IF kept THEN [last EXCEPT ![n] = v] ELSE last
        /\ astray' = IF kept /\ n \in Boot THEN astray \cup {n} ELSE astray
        /\ Returned(t, acted, "none", kept)
        /\ UNCHANGED <<boot, source, own>>

SetOwn(t, n, v) ==
    \E kept \in BOOLEAN :
        /\ own' = IF kept THEN [own EXCEPT ![n] = v] ELSE own
        /\ touched' = [touched EXCEPT ![t] = @ \/ kept]
        /\ last' = IF kept THEN [last EXCEPT ![n] = v] ELSE last
        /\ Returned(t, kept, "none", kept)
        /\ UNCHANGED <<boot, source, rfc, astray>>

(* A set that the manager refuses, with a fault code or without.           *)
NoSet(t, fault) ==
    /\ Returned(t, FALSE, fault, FALSE)
    /\ UNCHANGED <<stores, touched, lastKept>>

Release(t) == mutex' = [mutex EXCEPT ![req[t].op] = Free]

Telemetry(n) == mgr[n] = "telemetryMgr" /\ n = "Profiles"

(* handleSetMsg of the manager of the name.                                *)
HandleSet(t) ==
    LET n == item(t).name
        v == item(t).value
        bs == bsUpdate(req[t], n)
    IN
    /\ pc[t] = "handler" /\ req[t].op = "set" /\ ~Telemetry(n)
    /\ CASE mgr[n] = "rdkProfileMgr" /\ n = "DNSText" -> SetBoot(t, n, v)
         [] mgr[n] = "deviceMgr" /\ bs # "NONE" ->
                IF Permits(bs, requestor(req[t].from)) THEN SetBoot(t, n, v)
                ELSE NoSet(t, "none")
         [] mgr[n] = "deviceMgr" /\ bs = "NONE" /\ n \in RfcName -> SetRfc(t, n, v)
         [] mgr[n] = "deviceMgr" /\ bs = "NONE" /\ n \in Writable -> SetOwn(t, n, v)
         [] OTHER -> NoSet(t, "not writable")
    /\ Release(t)
    /\ UNCHANGED <<mgr, handle, retry_count, req>>

(* The answers handleGetMsg of the manager may give: None is a failure.    *)
Answers(m, bs, n) ==
    CASE m = "deviceMgr" /\ bs # "NONE" -> {boot[n]}
      [] m = "deviceMgr" /\ bs = "NONE" /\ n \in RfcName -> {rfc[n]}
      [] m = "deviceMgr" /\ bs = "NONE" /\ n \in DOMAIN own -> {own[n], None}
      [] m = "deviceMgr" /\ n \in {"RebootReason", "MacAddress", "Docsis"} ->
             Value \cup {None}
      [] m = "rdkProfileMgr" /\ n = "DNSText" -> {boot[n]}
      [] m = "snmpAdapterMgr" /\ n = "Docsis" -> Value \cup {None}
      [] OTHER -> {None}

(* What the client may be told of a get.  Of one that failed rbus answers  *)
(* the default of the data model as a success, if there is one, or else an *)
(* error; HTTP answers it too, with a status that says so.                 *)
Told(from, v) == IF v = None /\ from = "rbus" THEN BOOLEAN ELSE {v # None}

(* What the store of a name holds, the one its set by WebPA goes to.       *)
current == [n \in Kept |-> CASE n \in Boot -> boot[n]
                         [] n \in RfcName \ Boot -> rfc[n]
                         [] OTHER -> own[n]]

Fresh(n, v) == v = None \/ n \notin Kept \/ v = current[n]

HandleGet(t) ==
    LET n == item(t).name IN
    /\ pc[t] = "handler" /\ req[t].op = "get" /\ ~Telemetry(n)
    /\ \E v \in Answers(mgr[n], bsUpdate(req[t], n), n) :
          \E heard \in Told(req[t].from, v) :
             Record(t, Result(heard, v # None, Fresh(n, v)))
    /\ Release(t)
    /\ UNCHANGED <<mgr, handle, retry_count, stores, req, touched, lastKept>>

(* XRdkCentralT2 asks the telemetry process, with the mutex held.          *)
Forward(t) ==
    /\ pc[t] = "handler" /\ Telemetry(item(t).name)
    /\ Goto(t, "bus")
    /\ UNCHANGED <<mgr, handle, retry_count, stores, mutex, req, res, touched, lastKept>>

(* The answer from rbus, of the process that registered the name: one of   *)
(* this process's own is answered by TR_Dml_GetHandler, which needs the    *)
(* mutex of the gets.  A forwarded set is told a success in any case; the  *)
(* other ways end with what rbus says.                                     *)
BusAnswer(t) ==
    LET n == item(t).name IN
    /\ pc[t] = "bus"
    /\ n \in Registered /\ req[t].op = "get" => mutex["get"] = Free
    /\ \E ok \in IF n = "Profiles" /\ handle # "open" THEN {FALSE} ELSE BOOLEAN :
          Record(t, Result(ok \/ (n = "Profiles" /\ req[t].op = "set"), ok, TRUE))
    /\ IF n = "Profiles" THEN Release(t) ELSE UNCHANGED mutex
    /\ UNCHANGED <<mgr, handle, retry_count, stores, req, touched, lastKept>>

(* The client is answered.                                                 *)
Answer(t) ==
    /\ pc[t] = "answer"
    /\ Goto(t, "idle")
    /\ req' = [req EXCEPT ![t] = NoReq]
    /\ res' = [res EXCEPT ![t] = <<>>]
    /\ touched' = [touched EXCEPT ![t] = FALSE]
    /\ UNCHANGED <<mgr, handle, retry_count, stores, mutex, lastKept>>

(* init_rbus_dml_provider: rbus is asked for again and again, then not at  *)
(* all; opening it or registering the names may fail.                      *)
OpenRbus ==
    /\ handle = "retry"
    /\ \/ retry_count < MaxRetry /\ retry_count' = retry_count + 1
          /\ UNCHANGED handle
       \/ handle' \in {"open", "none"} /\ retry_count' = 0
    /\ UNCHANGED <<mgr, stores, mutex, pc, req, res, touched, lastKept>>

-----------------------------------------------------------------------------
Init ==
    /\ mgr \in Tables
    /\ handle = "retry" /\ retry_count = 0
    /\ boot = [n \in Boot |-> Initial]
    /\ source = [n \in Boot |-> "DEFAULT"]
    /\ rfc = [n \in RfcName |-> None]
    /\ own = [n \in {"PartnerId"} |-> Initial]
    /\ mutex = [m \in {"get", "set"} |-> Free]
    /\ pc = [t \in Thread |-> "idle"]
    /\ req = [t \in Thread |-> NoReq]
    /\ res = [t \in Thread |-> <<>>]
    /\ touched = [t \in Thread |-> FALSE]
    /\ last = [n \in Kept |-> IF n \in RfcName \ Boot THEN None ELSE Initial]
    /\ astray = {}

Serve(t) ==
    \/ Reason(t) \/ Validate(t) \/ Refuse(t) \/ Variable(t) \/ Post(t) \/ Enter(t)
    \/ HandleSet(t) \/ HandleGet(t) \/ Forward(t) \/ BusAnswer(t) \/ Answer(t)

Next ==
    \/ \E r \in Ask : Arrive(r)
    \/ \E t \in Thread : Serve(t)
    \/ OpenRbus

Spec == Init /\ [][Next]_vars

-----------------------------------------------------------------------------
(* Properties                                                              *)

(* The types of the state.                                                 *)
TypeOK ==
    /\ mgr \in [Name -> Manager \cup {None}]
    /\ handle \in {"retry", "open", "none"} /\ retry_count \in 0..MaxRetry
    /\ boot \in [Boot -> Value]
    /\ source \in [Boot -> {"DEFAULT", "RFC", "WEBPA"}]
    /\ rfc \in [RfcName -> Value \cup {None}]
    /\ own \in [{"PartnerId"} -> Value]
    /\ mutex \in [{"get", "set"} -> Thread \cup {Free}]
    /\ pc \in [Thread -> {"idle", "reason", "validate", "next", "handler",
                          "bus", "answer"}]
    /\ touched \in [Thread -> BOOLEAN]
    /\ last \in [Kept -> Value \cup {None}] /\ astray \subseteq Boot \cap RfcName

(* Names whose set answers without regard to what was kept: those of the   *)
(* telemetry process, DNSText and what is acted on at once.                *)
Unsure == {"Profiles", "DNSText", "Hdr"}

(* The success WebPA and HTTP are told of a set as a whole: every status   *)
(* is one, the first that is none being the code of the answer.            *)
Success(t) == \A k \in DOMAIN res[t] : res[t][k].ok

(* A set by WebPA or HTTP is answered as a success if and only if each of  *)
(* its items was done: whichever of them was refused, by whichever layer   *)
(* and with whatever fault code, the answer says so.                       *)
AnswerTells ==
    \A t \in {"webpa", "loop"} :
        pc[t] = "answer" /\ req[t].op = "set"
        /\ (\A k \in DOMAIN req[t].items : req[t].items[k].name \notin Unsure)
        => (Success(t) <=> \A k \in DOMAIN res[t] : res[t][k].did)

(* A set by WebPA with an item that is refused at the door changes         *)
(* nothing, though the reason of a reboot is set before the items are      *)
(* looked at.                                                              *)
RefusedUntouched ==
    pc["webpa"] = "answer" /\ req["webpa"].op = "set"
    /\ (\E k \in DOMAIN req["webpa"].items : Invalid(req["webpa"].items[k]))
    => ~touched["webpa"]

(* Readers that come without bsUpdate.                                     *)
Aside(q) == q.wild \/ q.from \in {"json", "rbus"}

(* Whether a reader looks where the value last kept of a name is.  That of *)
(* a bootstrap parameter is in the bootstrap store, which JSON, rbus and   *)
(* the children of a wildcard miss; but once it was set over IARM it is in *)
(* the RFC store, where those alone look: until WebPA or HTTP set it again *)
(* WebPA, HTTP and IARM read an older one, though the set was a success.   *)
Reaches(q, n) == n \in Boot => (Aside(q) <=> n \in astray)

(* A get gives the value last kept for the name or none, whoever of them   *)
(* set it and in whichever store it is, to every reader that looks there   *)
(* (Reaches): WebPA, HTTP and IARM all names but those gone astray, JSON   *)
(* and rbus those outside the bootstrap store, and those gone astray.      *)
ReadsLast ==
    \A t \in Thread :
        pc[t] = "handler" /\ req[t].op = "get" /\ item(t).name \in Kept
        /\ Reaches(req[t], item(t).name)
        => LET n == item(t).name
           IN Answers(mgr[n], bsUpdate(req[t], n), n) \subseteq {last[n], None}

(* Every name of the file's managers is served whatever the order of the   *)
(* keys: a get of it does not fail for want of the right manager.          *)
Served ==
    \A n \in {"Docsis", "DNSText", "PartnerName"} :
        Answers(mgr[n], getBSUpdateEnum(n), n) # {None}

(* A bootstrap parameter is changed only by WebPA, by a tool that HTTP     *)
(* takes for it, or by RFC as long as WebPA has not set it; never over     *)
(* IARM, though DNSText has a manager that asks nothing of the sort.       *)
BootOwned ==
    [][\A n \in Boot : boot'[n] # boot[n] =>
          \E t \in {"webpa", "loop"} :
              /\ mutex["set"] = t
              /\ source[n] = "WEBPA" => req[t].from # "rfc"]_vars

(* Whom a thread waits for: the holder of the mutex it needs, or that of   *)
(* the mutex its own process needs to answer it on rbus.                   *)
Blocks(u, t) ==
    \/ /\ pc[t] = "reason" /\ u = mutex["set"]
       /\ \E k \in DOMAIN req[t].items : req[t].items[k].name = "Reboot"
    \/ /\ pc[t] = "next" /\ u = mutex[req[t].op]
       /\ ~FrontRefuses(req[t], item(t))
    \/ /\ pc[t] = "bus" /\ u = mutex["get"]
       /\ item(t).name \in Registered /\ req[t].op = "get"

(* No threads wait for each other, and none for itself: a get that waits   *)
(* on rbus with the mutex held is never answered by this process.          *)
NoCircle ==
    \A S \in (SUBSET Thread) \ {{}} :
        \E t \in S : \A u \in S : ~Blocks(u, t)

-----------------------------------------------------------------------------
Service == INSTANCE Parameters WITH
    Request <- {Expand(r) : r \in Ask},
    value <- current, owner <- source

(* Whatever the front end, the manager the table gives, and the other      *)
(* threads do in between, a request is one to Parameters: every item has   *)
(* one outcome, in one step, which is what its client is told and what     *)
(* later readers see, no item is left out, and no step of another kind     *)
(* changes a value, an owner or an outcome.                                *)
ServiceSpec == Service!Spec
=============================================================================
