--------------------------- MODULE RequestsProofs ---------------------------
(***************************************************************************)
(* For any requests of any number of items in any order of the manager     *)
(* table: what the dispatch and the front ends promise; and, last, that    *)
(* the process serves them only with the data model.                       *)
(***************************************************************************)
EXTENDS Requests, HostIfMain, SequenceTheorems, TLAPS

-----------------------------------------------------------------------------
(* The manager table.                                                      *)

LEMMA KnownLines == Known = {1, 2, 4, 5} /\ Entries = 1..5
<1>1. Len(File) = 5
    BY DEF File
<1>2. Known = {1, 2, 4, 5}
    BY <1>1 DEF Known, File, Manager
<1>3. Entries = 1..5
    BY <1>1, <1>2 DEF Entries
<1> QED BY <1>2, <1>3

LEMMA KnownManager ==
    ASSUME NEW i \in Known
    PROVE  mgrName(i) = File[i].mgr
<1> DEFINE Before(k) == k <= i /\ \A j \in Known : j <= i => j <= k
<1>1. Before(i)
    BY KnownLines
<1>2. \A k \in Known : Before(k) => k = i
    BY KnownLines
<1>3. (CHOOSE k \in Known : Before(k)) = i
    <2> HIDE DEF Before
    <2> QED BY <1>1, <1>2
<1> QED BY <1>3 DEF mgrName

(* What is the only key that covers a name decides.                        *)
LEMMA OneKey ==
    ASSUME NEW place \in [Entries -> Entries], NEW n, NEW i \in Known,
           {k \in Entries : Covers(File[k].prefix, n)} = {i}
    PROVE  GetMgr(place, n) = File[i].mgr
<1>1. \A k \in {i} : place[i] <= place[k]
    BY KnownLines
<1>2. (CHOOSE j \in {i} : \A k \in {i} : place[j] <= place[k]) = i
    BY <1>1
<1> QED BY <1>2, KnownManager DEF GetMgr

DeviceName ==
    {"PartnerName", "Feature", "Airplay", "Hdr", "PartnerId", "RebootReason",
     "MacAddress"}

Managed(table) ==
    /\ table \in [Name -> Manager \cup {None}]
    /\ \A n \in DeviceName : table[n] = "deviceMgr"
    /\ table["Docsis"] \in {"deviceMgr", "snmpAdapterMgr"}
    /\ table["DNSText"] = "rdkProfileMgr"
    /\ table["Profiles"] = "telemetryMgr"
    /\ \A n \in {"Reboot", "RFC_Url"} : table[n] = None

LEMMA KeysCovering ==
    ASSUME NEW n \in Name
    PROVE  /\ Covers(File[1].prefix, n) <=> n \in DeviceName \cup {"Docsis"}
           /\ Covers(File[2].prefix, n) <=> n = "Docsis"
           /\ ~Covers(File[3].prefix, n)
           /\ Covers(File[4].prefix, n) <=> n = "Profiles"
           /\ Covers(File[5].prefix, n) <=> n = "DNSText"
<1>1. /\ File[1].prefix = "Device.DeviceInfo"
      /\ File[2].prefix = "Device.DeviceInfo.X_RDK_SNMP"
      /\ File[3].prefix = "Device.X_RDK_WebConfig"
      /\ File[4].prefix = "Device.X_RDKCENTRAL-COM_T2"
      /\ File[5].prefix = "Device.X_RDK_"
    BY DEF File
<1> QED BY <1>1 DEF Covers, DeviceName

(* In every order of the keys a name has the manager the file means it to  *)
(* have; Docsis has one of two, which both serve it.                       *)
LEMMA TablesManaged ==
    ASSUME NEW table \in Tables
    PROVE  Managed(table)
<1>1. PICK place \in [Entries -> Entries] :
          table = [n \in Name |-> GetMgr(place, n)]
    BY DEF Tables
<1> DEFINE Keys(n) == {k \in Entries : Covers(File[k].prefix, n)}
<1>2. \A n \in DeviceName : Keys(n) = {1}
    BY KeysCovering, KnownLines DEF DeviceName, Name
<1>3. /\ Keys("DNSText") = {5} /\ Keys("Profiles") = {4}
      /\ Keys("Docsis") = {1, 2}
      /\ Keys("Reboot") = {} /\ Keys("RFC_Url") = {}
    BY KeysCovering, KnownLines DEF DeviceName, Name
<1>4. \A n \in DeviceName : GetMgr(place, n) = File[1].mgr
    BY <1>2, KnownLines, OneKey
<1>5. /\ GetMgr(place, "DNSText") = File[5].mgr
      /\ GetMgr(place, "Profiles") = File[4].mgr
    BY <1>3, KnownLines, OneKey
<1>6. \A n \in {"Reboot", "RFC_Url"} : GetMgr(place, n) = None
    BY <1>3, KnownLines DEF GetMgr
<1>7. GetMgr(place, "Docsis") \in {File[1].mgr, File[2].mgr}
    <2> DEFINE First(i) == \A k \in {1, 2} : place[i] <= place[k]
    <2>1. \E i \in {1, 2} : First(i)
        BY KnownLines
    <2>2. (CHOOSE i \in {1, 2} : First(i)) \in {1, 2}
        <3> HIDE DEF First
        <3> QED BY <2>1
    <2>3. PICK i \in {1, 2} : GetMgr(place, "Docsis") = mgrName(i)
        BY <1>3, <2>2 DEF GetMgr
    <2> QED BY <2>3, KnownLines, KnownManager
<1>8. /\ File[1].mgr = "deviceMgr" /\ File[2].mgr = "snmpAdapterMgr"
      /\ File[4].mgr = "telemetryMgr" /\ File[5].mgr = "rdkProfileMgr"
    BY DEF File
<1>9. /\ DeviceName \subseteq Name
      /\ Name = DeviceName \cup
                   {"DNSText", "Profiles", "Docsis", "Reboot", "RFC_Url"}
    BY DEF Name, DeviceName
<1>10. \A n \in Name : table[n] = GetMgr(place, n)
    BY <1>1
<1>11. \A n \in Name : table[n] \in Manager \cup {None}
    BY <1>4, <1>5, <1>6, <1>7, <1>8, <1>9, <1>10 DEF Manager
<1>12. table \in [Name -> Manager \cup {None}]
    BY <1>1, <1>11
<1> QED BY <1>4, <1>5, <1>6, <1>7, <1>8, <1>9, <1>10, <1>12 DEF Managed

-----------------------------------------------------------------------------
(* The invariant.                                                          *)

Outcome == [ok : BOOLEAN, did : BOOLEAN, fresh : BOOLEAN]
Message == [from : From \cup {None}, op : {"get", "set", None},
            items : Seq(Item), wild : BOOLEAN]

(* A request as its front end has expanded it.                             *)
Asked(t) ==
    /\ req[t].from \in From /\ thread(req[t].from) = t
    /\ req[t].op \in {"get", "set"} /\ req[t].items # <<>>
    /\ req[t].op = "set" => /\ req[t].from \notin {"json", "rbus"}
                            /\ ~req[t].wild
    /\ req[t].op = "get" => Names(req[t]) \subseteq Name
    /\ req[t].from = "iarm" =>
           /\ Names(req[t]) \subseteq Name
           /\ req[t].op = "set" =>
                 \A k \in DOMAIN req[t].items : req[t].items[k].value \in Value

(* Where the items are served, and how many have been.                     *)
Serving == {"next", "handler", "bus"}
Unserved == {"reason", "validate"}

Progress(t) ==
    /\ IF pc[t] = "idle" THEN req[t] = NoReq ELSE Asked(t)
    /\ pc[t] \in Unserved \cup {"idle"} => res[t] = <<>> /\ ~touched[t]
    /\ pc[t] \in Unserved => req[t].op = "set" /\ req[t].from = "webpa"
    /\ pc[t] \in Serving => Len(res[t]) < Len(req[t].items)
    /\ pc[t] = "answer" => Len(res[t]) = Len(req[t].items)

(* What the front ends have seen to before an item is served.              *)
Looked(t) ==
    /\ pc[t] \in Serving /\ req[t].op = "set" /\ req[t].from = "webpa" =>
           \A k \in DOMAIN req[t].items : ~Invalid(req[t].items[k])
    /\ pc[t] = "handler" =>
           /\ item(t).name \in Name
           /\ req[t].op = "set" => item(t).value \in Value
    /\ pc[t] = "bus" => item(t).name \notin Kept
    /\ pc[t] = "bus" /\ item(t).name \notin DataModel => req[t].from = "webpa"

(* Who holds a mutex works under it, or waits for the telemetry process.   *)
Works(t) == pc[t] = "handler" \/ (pc[t] = "bus" /\ item(t).name = "Profiles")

Exclusive ==
    \A t \in Thread : \A m \in {"get", "set"} :
        mutex[m] = t <=> Works(t) /\ req[t].op = m

(* The stores hold what was last kept, the RFC store what went astray.     *)
Agree ==
    /\ \A n \in Boot \ astray : boot[n] = last[n]
    /\ \A n \in (RfcName \ Boot) \cup astray : rfc[n] = last[n]
    /\ own["PartnerId"] = last["PartnerId"]

Types ==
    /\ TypeOK
    /\ mgr \in Tables
    /\ req \in [Thread -> Message]
    /\ res \in [Thread -> Seq(Outcome)]

IInv ==
    /\ Types /\ Exclusive /\ Agree
    /\ \A t \in Thread : Progress(t) /\ Looked(t)

-----------------------------------------------------------------------------
(* The parts of a step.                                                    *)

LEMMA NamesDistinct ==
    /\ Boot \subseteq Name /\ RfcName \subseteq Name /\ DataModel \subseteq Name
    /\ Kept = Boot \cup RfcName \cup {"PartnerId"}
    /\ "PartnerId" \notin Boot \cup RfcName
    /\ "Wildcard" \notin Name
BY DEF Boot, RfcName, DataModel, Kept, Name

LEMMA ItemTyped ==
    ASSUME NEW t \in Thread, Types, Len(res[t]) < Len(req[t].items)
    PROVE  /\ Len(res[t]) + 1 \in DOMAIN req[t].items
           /\ item(t) \in Item
<1>1. req[t] \in Message /\ res[t] \in Seq(Outcome)
    BY DEF Types
<1>2. req[t].items \in Seq(Item)
    BY <1>1 DEF Message
<1>3. Len(res[t]) \in Nat /\ Len(req[t].items) \in Nat
    BY <1>1, <1>2
<1>4. Len(res[t]) + 1 \in 1..Len(req[t].items)
    BY <1>3
<1> QED BY <1>2, <1>4 DEF item

LEMMA ResultOutcome ==
    ASSUME NEW ok \in BOOLEAN, NEW did \in BOOLEAN, NEW fresh \in BOOLEAN
    PROVE  /\ Result(ok, did, fresh) \in Outcome
           /\ Result(ok, did, fresh).ok = ok
           /\ Result(ok, did, fresh).did = did
           /\ Result(ok, did, fresh).fresh = fresh
BY DEF Result, Outcome

(* Thread t has recorded what became of its item.                          *)
Recorded(t, o) ==
    /\ pc[t] \in Serving
    /\ o \in Outcome
    /\ req' = req
    /\ res' = [res EXCEPT ![t] = Append(@, o)]
    /\ pc' = [pc EXCEPT ![t] =
                  IF Len(res[t]) + 1 = Len(req[t].items) THEN "answer" ELSE "next"]

LEMMA SetCases ==
    ASSUME NEW t \in Thread, Types, Progress(t), Looked(t), HandleSet(t)
    PROVE  LET n == item(t).name
               v == item(t).value
           IN  /\ pc[t] = "handler" /\ req[t].op = "set" /\ v \in Value
               /\ \/ n \in Boot /\ SetBoot(t, n, v)
                  \/ /\ n \in RfcName /\ SetRfc(t, n, v)
                     /\ n \in Boot => req[t].from = "iarm"
                  \/ n = "PartnerId" /\ SetOwn(t, n, v)
                  \/ NoSet(t, "none") \/ NoSet(t, "not writable")
<1> DEFINE n == item(t).name
           v == item(t).value
           bs == bsUpdate(req[t], n)
<1>1. pc[t] = "handler" /\ req[t].op = "set" /\ v \in Value /\ n \in Name
    BY DEF HandleSet, Looked
<1>2. Managed(mgr)
    BY TablesManaged DEF Types
<1>3. mgr[n] = "deviceMgr" /\ bs # "NONE" => n \in Boot
    <2>1. bs # "NONE" => n \in AllUpdate
        BY DEF bsUpdate, getBSUpdateEnum
    <2> QED BY <1>2, <2>1 DEF AllUpdate, Managed, Boot
<1>4. CASE mgr[n] = "rdkProfileMgr" /\ n = "DNSText"
    <2>1. SetBoot(t, n, v)
        BY <1>4 DEF HandleSet
    <2> QED BY <1>1, <1>4, <2>1 DEF Boot
<1>5. CASE mgr[n] = "deviceMgr" /\ bs # "NONE"
    BY <1>1, <1>3, <1>5 DEF HandleSet
<1>6. CASE mgr[n] = "deviceMgr" /\ bs = "NONE"
    <2>1. ASSUME n \in Boot
          PROVE  req[t].from = "iarm"
        <3>1. Asked(t)
            BY <1>1 DEF Progress
        <3> QED BY <1>1, <1>6, <2>1, <3>1
                DEF Asked, bsUpdate, getBSUpdateEnum, Boot, AllUpdate
    <2> QED BY <1>1, <1>6, <2>1 DEF HandleSet, Writable, RfcName
<1>7. CASE mgr[n] # "deviceMgr" /\ ~(mgr[n] = "rdkProfileMgr" /\ n = "DNSText")
    BY <1>1, <1>7 DEF HandleSet
<1> QED BY <1>4, <1>5, <1>6, <1>7

(* What is recorded tells what was done, but for the exceptions            *)
(* AnswerTells makes.                                                      *)
Honest(t, o) == req[t].op = "set" /\ item(t).name \notin Unsure => o.ok = o.did

Records(t) == \E o \in Outcome : Recorded(t, o) /\ Honest(t, o)

LEMMA RecordRecords ==
    ASSUME NEW t \in Thread, pc[t] \in Serving, req' = req,
           NEW ok \in BOOLEAN, NEW did \in BOOLEAN, NEW fresh \in BOOLEAN,
           req[t].op = "set" /\ item(t).name \notin Unsure => ok = did,
           Record(t, Result(ok, did, fresh))
    PROVE  Records(t)
<1> DEFINE o == Result(ok, did, fresh)
<1>1. o \in Outcome /\ o.ok = ok /\ o.did = did /\ o.fresh = fresh
    BY ResultOutcome
<1>2. Recorded(t, o)
    BY <1>1 DEF Record, Goto, Recorded
<1>3. Honest(t, o)
    BY <1>1 DEF Honest
<1> QED BY <1>1, <1>2, <1>3 DEF Records

LEMMA RefuseRecords ==
    ASSUME NEW t \in Thread, Refuse(t)
    PROVE  Records(t)
<1>1. /\ pc[t] \in Serving /\ req' = req
      /\ Record(t, Result(FALSE, FALSE, TRUE))
    BY DEF Refuse, Serving
<1> QED BY <1>1, RecordRecords

LEMMA VariableTold ==
    ASSUME NEW t \in Thread, Variable(t)
    PROVE  \E ok \in BOOLEAN : Record(t, Result(ok, ok, TRUE))
<1>1. CASE req[t].op = "set"
    <2>1. PICK ok \in {item(t).value \in Value} : Record(t, Result(ok, ok, TRUE))
        BY <1>1, Zenon DEF Variable
    <2>2. ok = (item(t).value \in Value)
        BY <2>1, Zenon
    <2>3. ok = TRUE \/ ok = FALSE
        BY <2>2
    <2> QED BY <2>1, <2>3, Zenon
<1>2. CASE req[t].op # "set"
    BY <1>2 DEF Variable
<1> QED BY <1>1, <1>2

LEMMA VariableRecords ==
    ASSUME NEW t \in Thread, Variable(t)
    PROVE  Records(t)
<1>1. PICK ok \in BOOLEAN : Record(t, Result(ok, ok, TRUE))
    BY VariableTold
<1>2. pc[t] \in Serving /\ req' = req
    BY DEF Variable, Serving
<1> QED BY <1>1, <1>2, RecordRecords

LEMMA BusAnswerRecords ==
    ASSUME NEW t \in Thread, BusAnswer(t)
    PROVE  Records(t)
<1> DEFINE n == item(t).name
           heard(ok) == ok \/ (n = "Profiles" /\ req[t].op = "set")
<1>1. PICK ok \in BOOLEAN : Record(t, Result(heard(ok), ok, TRUE))
    BY DEF BusAnswer
<1>2. pc[t] \in Serving /\ req' = req
    BY DEF BusAnswer, Serving
<1>3. n \notin Unsure => heard(ok) = ok
    BY DEF Unsure
<1>4. heard(ok) \in BOOLEAN
    OBVIOUS
<1> QED BY <1>1, <1>2, <1>3, <1>4, RecordRecords

LEMMA ReturnedRecords ==
    ASSUME NEW t \in Thread, pc[t] \in Serving, req' = req, NEW fault,
           NEW ok \in BOOLEAN, NEW kept \in BOOLEAN,
           ok # kept => item(t).name \in Unsure,
           ok => fault = "none",
           Returned(t, ok, fault, kept)
    PROVE  Records(t)
<1> DEFINE status == Status(req[t].from, IF ok THEN "OK" ELSE "NOK", fault)
<1>1. status = ok
    BY DEF Status
<1>2. Record(t, Result(status, kept, TRUE))
    BY DEF Returned
<1> QED BY <1>1, <1>2, RecordRecords

LEMMA HandleSetRecords ==
    ASSUME NEW t \in Thread, Types, Progress(t), Looked(t), HandleSet(t)
    PROVE  Records(t)
<1> DEFINE n == item(t).name
           v == item(t).value
<1>1. pc[t] \in Serving /\ req' = req
    BY DEF HandleSet, Serving
<1>2. CASE SetBoot(t, n, v)
    <2>1. PICK kept \in BOOLEAN : Returned(t, kept \/ n = "DNSText", "none", kept)
        BY <1>2 DEF SetBoot
    <2> QED BY <1>1, <2>1, ReturnedRecords DEF Unsure
<1>3. CASE SetRfc(t, n, v)
    <2>1. PICK kept \in BOOLEAN, acted \in BOOLEAN :
              /\ n # "Hdr" => acted = kept
              /\ Returned(t, acted, "none", kept)
        BY <1>3 DEF SetRfc
    <2> QED BY <1>1, <2>1, ReturnedRecords DEF Unsure
<1>4. CASE SetOwn(t, n, v)
    <2>1. PICK kept \in BOOLEAN : Returned(t, kept, "none", kept)
        BY <1>4 DEF SetOwn
    <2> QED BY <1>1, <2>1, ReturnedRecords
<1>5. CASE NoSet(t, "none") \/ NoSet(t, "not writable")
    <2>1. PICK fault \in {"none", "not writable"} : Returned(t, FALSE, fault, FALSE)
        BY <1>5 DEF NoSet
    <2> QED BY <1>1, <2>1, ReturnedRecords
<1> QED BY <1>2, <1>3, <1>4, <1>5, SetCases

(* Where a manager looks for a value.                                      *)
LEMMA AnswersFrom ==
    ASSUME NEW t \in Thread, Types,
           NEW v \in Answers(mgr[item(t).name], bsUpdate(req[t], item(t).name),
                             item(t).name),
           req[t].op = "get", v # None, item(t).name \in Kept
    PROVE  LET n == item(t).name
           IN  /\ n \in Boot /\ ~Aside(req[t]) => v = boot[n]
               /\ n \in RfcName /\ (n \in Boot => Aside(req[t])) => v = rfc[n]
               /\ n = "PartnerId" => v = own[n]
<1> DEFINE n == item(t).name
           bs == bsUpdate(req[t], n)
<1>1. Managed(mgr)
    BY TablesManaged DEF Types
<1>2. bs # "NONE" <=> n \in Boot /\ ~Aside(req[t])
    BY DEF Aside, bsUpdate, getBSUpdateEnum, Boot, AllUpdate, Kept
<1>3. ASSUME n \in Boot, ~Aside(req[t])
      PROVE  v = boot[n]
    BY <1>1, <1>2, <1>3 DEF Answers, Managed, DeviceName, Boot
<1>4. ASSUME n \in RfcName, n \in Boot => Aside(req[t])
      PROVE  v = rfc[n]
    <2>1. mgr[n] = "deviceMgr" /\ bs = "NONE"
        BY <1>1, <1>2, <1>4 DEF Managed, DeviceName, RfcName
    <2>2. n \notin DOMAIN own /\ n \notin {"RebootReason", "MacAddress", "Docsis"}
        BY <1>4 DEF Types, TypeOK, RfcName
    <2>3. v \in {rfc[n]}
        BY <1>4, <2>1, <2>2 DEF Answers
    <2> QED BY <2>3
<1>5. ASSUME n = "PartnerId"
      PROVE  v = own[n]
    BY <1>1, <1>2, <1>5 DEF Answers, Managed, DeviceName, Boot, RfcName,
                            Types, TypeOK
<1> QED BY <1>3, <1>4, <1>5

LEMMA AnswersTyped ==
    ASSUME NEW t \in Thread, Types,
           NEW v \in Answers(mgr[item(t).name], bsUpdate(req[t], item(t).name),
                             item(t).name)
    PROVE  v \in Value \cup {None}
<1> DEFINE n == item(t).name
           bs == bsUpdate(req[t], n)
           m == mgr[n]
<1>1. Managed(mgr) /\ TypeOK
    BY TablesManaged DEF Types
<1> HIDE DEF n
<1>2. bs # "NONE" => n \in AllUpdate
    BY DEF bsUpdate, getBSUpdateEnum
<1>3. m = "deviceMgr" /\ bs # "NONE" => n \in Boot
    BY <1>1, <1>2 DEF AllUpdate, Managed, Boot
<1>4. "DNSText" \in Boot
    BY DEF Boot
<1>5. v \in Answers(m, bs, n)
    BY DEF n
<1> HIDE DEF m, bs
<1> QED BY <1>1, <1>3, <1>4, <1>5 DEF Answers, TypeOK

LEMMA ToldTyped ==
    ASSUME NEW from, NEW v, NEW heard \in Told(from, v)
    PROVE  /\ heard \in BOOLEAN
           /\ v # None => heard
           /\ heard => v # None \/ from = "rbus"
<1>1. CASE v = None /\ from = "rbus"
    BY <1>1 DEF Told
<1>2. CASE ~(v = None /\ from = "rbus")
    <2>1. heard = (v # None)
        BY <1>2, Zenon DEF Told
    <2> QED BY <2>1
<1> QED BY <1>1, <1>2

LEMMA HandleGetRecords ==
    ASSUME NEW t \in Thread, HandleGet(t)
    PROVE  Records(t)
<1> DEFINE n == item(t).name
<1>1. PICK v \in Answers(mgr[n], bsUpdate(req[t], n), n) :
          \E heard \in Told(req[t].from, v) :
             Record(t, Result(heard, v # None, Fresh(n, v)))
    BY DEF HandleGet
<1>2. PICK heard \in Told(req[t].from, v) :
          Record(t, Result(heard, v # None, Fresh(n, v)))
    BY <1>1
<1>3. pc[t] \in Serving /\ req' = req /\ req[t].op # "set"
    BY DEF HandleGet, Serving
<1>4. heard \in BOOLEAN /\ (v # None) \in BOOLEAN /\ Fresh(n, v) \in BOOLEAN
    BY <1>2, ToldTyped DEF Fresh
<1> HIDE DEF n
<1> QED BY <1>2, <1>3, <1>4, RecordRecords DEF n

-----------------------------------------------------------------------------
(* The types.                                                              *)

Labels == {"idle", "reason", "validate", "next", "handler", "bus", "answer"}

LEMMA GotoTyped ==
    ASSUME NEW t \in Thread, NEW l \in Labels, Types, Goto(t, l)
    PROVE  pc' \in [Thread -> Labels] /\ pc'[t] = l
              /\ \A u \in Thread \ {t} : pc'[u] = pc[u]
BY DEF Goto, Types, TypeOK, Labels

LEMMA RecordsTyped ==
    ASSUME NEW t \in Thread, Types, NEW o \in Outcome, Recorded(t, o)
    PROVE  /\ pc' \in [Thread -> Labels]
           /\ pc'[t] = IF Len(res[t]) + 1 = Len(req[t].items)
                       THEN "answer" ELSE "next"
           /\ req' \in [Thread -> Message] /\ req'[t] = req[t]
           /\ res' \in [Thread -> Seq(Outcome)]
           /\ res'[t] = Append(res[t], o)
           /\ \A u \in Thread \ {t} :
                 pc'[u] = pc[u] /\ req'[u] = req[u] /\ res'[u] = res[u]
<1>1. res[t] \in Seq(Outcome)
    BY DEF Types
<1>2. Append(res[t], o) \in Seq(Outcome)
    BY <1>1
<1> QED BY <1>2 DEF Recorded, Types, TypeOK, Labels

LEMMA ExpandTyped ==
    ASSUME NEW r \in Ask
    PROVE  /\ Expand(r) \in Message
           /\ Expand(r).from = r.from /\ Expand(r).op = r.op
           /\ Expand(r).items # <<>>
           /\ Expand(r).op = "set" => Expand(r).items = r.items /\ ~Expand(r).wild
           /\ Expand(r).op = "get" => Names(Expand(r)) \subseteq Name
           /\ r.from = "iarm" => Expand(r).items = r.items
<1>1. /\ r.from \in From /\ r.op \in {"get", "set"} /\ r.items \in Seq(Item)
      /\ r.items # <<>>
      /\ r.op = "get" => Alone(r) \/ Names(r) \subseteq Name
      /\ r.from = "iarm" => Names(r) \subseteq Name
    BY AskAssumption
<1>2. 1 \in DOMAIN r.items
    BY <1>1
<1>3. CASE r.op = "get" /\ r.from \in Expands /\ r.items[1].name = "Wildcard"
    <2> DEFINE children == [k \in 1..Len(Children) |->
                               [name |-> Children[k], value |-> Null]]
    <2>1. /\ Len(Children) = 2 /\ Children[1] \in Name /\ Children[2] \in Name
        BY DEF Children, Name
    <2>2. \A k \in 1..2 : Children[k] \in Name
        BY <2>1
    <2>3. children \in [1..2 -> Item]
        BY <2>1, <2>2 DEF Item
    <2>4. children \in Seq(Item) /\ children # <<>>
        <3> HIDE DEF children
        <3>1. DOMAIN children = 1..2 /\ 2 \in Nat
            BY <2>3
        <3>2. children \in Seq(Item)
            BY <2>3, SeqDef
        <3> QED BY <3>1, <3>2
    <2>5. Expand(r) = [from |-> r.from, op |-> "get", wild |-> TRUE,
                       items |-> children]
        BY <1>3 DEF Expand
    <2>6. "Wildcard" \in Names(r)
        BY <1>2, <1>3 DEF Names
    <2>7. r.from # "iarm"
        BY <1>1, <2>6, NamesDistinct
    <2>8. Names(Expand(r)) \subseteq Name
        BY <2>1, <2>2, <2>3, <2>5 DEF Names
    <2> HIDE DEF children
    <2>9. Expand(r) \in Message
        BY <1>1, <2>4, <2>5 DEF Message
    <2>10. /\ Expand(r).from = r.from /\ Expand(r).op = "get"
           /\ Expand(r).items = children
        BY <2>5
    <2> QED BY <1>3, <2>4, <2>7, <2>8, <2>9, <2>10
<1>4. CASE ~(r.op = "get" /\ r.from \in Expands /\ r.items[1].name = "Wildcard")
    <2>1. Expand(r) = [from |-> r.from, op |-> r.op, items |-> r.items,
                       wild |-> FALSE]
        BY <1>4 DEF Expand
    <2>2. r.op = "get" => Names(r) \subseteq Name
        <3> SUFFICES ASSUME r.op = "get", Alone(r)
                     PROVE  Names(r) \subseteq Name
            BY <1>1
        <3>1. DOMAIN r.items = {1} /\ r.from \in Expands
            BY <1>1 DEF Alone
        <3>2. r.items[1] \in Item
            BY <1>1, <1>2
        <3> QED BY <1>4, <3>1, <3>2 DEF Names, Item
    <2>3. Names(Expand(r)) = Names(r)
        BY <2>1 DEF Names
    <2> QED BY <1>1, <2>1, <2>2, <2>3 DEF Message
<1> QED BY <1>3, <1>4

(* What the steps of the threads have in common: the rest of the threads   *)
(* do not notice, and what is changed keeps its type.                      *)
Elsewhere(t) ==
    \A u \in Thread \ {t} :
        /\ pc'[u] = pc[u] /\ req'[u] = req[u]
        /\ res'[u] = res[u] /\ touched'[u] = touched[u]

Threads ==
    /\ pc \in [Thread -> Labels] /\ touched \in [Thread -> BOOLEAN]
    /\ req \in [Thread -> Message] /\ res \in [Thread -> Seq(Outcome)]

Mutexes == mutex \in [{"get", "set"} -> Thread \cup {Free}]

Shared ==
    /\ mgr \in Tables
    /\ handle \in {"retry", "open", "none"} /\ retry_count \in 0..MaxRetry
    /\ boot \in [Boot -> Value]
    /\ source \in [Boot -> {"DEFAULT", "RFC", "WEBPA"}]
    /\ rfc \in [RfcName -> Value \cup {None}]
    /\ own \in [{"PartnerId"} -> Value]
    /\ last \in [Kept -> Value \cup {None}] /\ astray \subseteq Boot \cap RfcName

LEMMA TypesParts ==
    /\ Types <=> Threads /\ Mutexes /\ Shared
    /\ Types' <=> (Threads /\ Mutexes /\ Shared)'
<1>1. /\ mgr \in Tables => mgr \in [Name -> Manager \cup {None}]
      /\ mgr' \in Tables => mgr' \in [Name -> Manager \cup {None}]
    BY TablesManaged DEF Managed
<1> QED BY <1>1 DEF Types, TypeOK, Threads, Mutexes, Shared, Labels

LEMMA OthersKept ==
    ASSUME NEW t \in Thread, Elsewhere(t), NEW u \in Thread \ {t}
    PROVE  /\ Progress(u) => Progress(u)'
           /\ Looked(u) => Looked(u)'
           /\ Works(u)' <=> Works(u)
           /\ req'[u] = req[u]
<1>1. /\ pc'[u] = pc[u] /\ req'[u] = req[u]
      /\ res'[u] = res[u] /\ touched'[u] = touched[u]
    BY DEF Elsewhere
<1>2. Asked(u) => Asked(u)'
    BY <1>1 DEF Asked, Names
<1>3. item(u)' = item(u)
    BY <1>1 DEF item
<1> QED BY <1>1, <1>2, <1>3 DEF Progress, Looked, Works, Invalid

(* A mutex stays with who works under it, is taken when it is free, or is  *)
(* released.                                                               *)
Held(t) ==
    \/ mutex' = mutex /\ (Works(t)' <=> Works(t)) /\ (Works(t) => req'[t].op = req[t].op)
    \/ /\ ~Works(t) /\ Works(t)' /\ req'[t] = req[t]
       /\ req[t].op \in {"get", "set"} /\ mutex[req[t].op] = Free
       /\ mutex' = [mutex EXCEPT ![req[t].op] = t]
    \/ /\ Works(t) /\ ~Works(t)' /\ req[t].op \in {"get", "set"}
       /\ mutex' = [mutex EXCEPT ![req[t].op] = Free]

LEMMA ExclusiveKept ==
    ASSUME Exclusive, Mutexes, NEW t \in Thread, Elsewhere(t), Held(t)
    PROVE  Exclusive' /\ Mutexes'
<1>1. Free \notin Thread
    BY DEF Free, Thread
<1>2. \A u \in Thread \ {t} : /\ Works(u)' <=> Works(u)
                              /\ req'[u] = req[u]
    BY OthersKept
<1>3. \A u \in Thread : \A m \in {"get", "set"} :
          mutex[m] = u <=> Works(u) /\ req[u].op = m
    BY DEF Exclusive
<1>4. \A u \in Thread : Works(u) \in BOOLEAN /\ Works(u)' \in BOOLEAN
    BY DEF Works
<1>5. CASE mutex' = mutex /\ (Works(t)' <=> Works(t))
           /\ (Works(t) => req'[t].op = req[t].op)
    <2>1. \A u \in Thread : \A m \in {"get", "set"} :
              mutex'[m] = u <=> Works(u)' /\ req'[u].op = m
        BY <1>2, <1>3, <1>4, <1>5
    <2> QED BY <1>5, <2>1 DEF Exclusive, Mutexes
<1>6. CASE /\ ~Works(t) /\ Works(t)' /\ req'[t] = req[t]
           /\ req[t].op \in {"get", "set"} /\ mutex[req[t].op] = Free
           /\ mutex' = [mutex EXCEPT ![req[t].op] = t]
    <2>1. \A u \in Thread : \A m \in {"get", "set"} :
              mutex'[m] = u <=> Works(u)' /\ req'[u].op = m
        BY <1>1, <1>2, <1>3, <1>4, <1>6 DEF Mutexes
    <2> QED BY <1>6, <2>1 DEF Exclusive, Mutexes
<1>7. CASE /\ Works(t) /\ ~Works(t)' /\ req[t].op \in {"get", "set"}
           /\ mutex' = [mutex EXCEPT ![req[t].op] = Free]
    <2>1. \A u \in Thread : \A m \in {"get", "set"} :
              mutex'[m] = u <=> Works(u)' /\ req'[u].op = m
        BY <1>1, <1>2, <1>3, <1>4, <1>7 DEF Mutexes
    <2> QED BY <1>7, <2>1 DEF Exclusive, Mutexes
<1> QED BY <1>5, <1>6, <1>7 DEF Held

LEMMA ThreadStep ==
    ASSUME IInv, NEW t \in Thread, Elsewhere(t), Threads', Shared', Agree',
           Held(t), Progress(t)', Looked(t)'
    PROVE  IInv'
<1>1. Exclusive' /\ Mutexes'
    BY ExclusiveKept, TypesParts DEF IInv
<1>2. \A u \in Thread : Progress(u)' /\ Looked(u)'
    BY OthersKept DEF IInv
<1>3. Types'
    BY <1>1, TypesParts
<1> QED BY <1>1, <1>2, <1>3 DEF IInv

LEMMA SharedKept ==
    ASSUME Shared, Agree, UNCHANGED <<mgr, handle, retry_count, stores, lastKept>>
    PROVE  Shared' /\ Agree'
BY DEF Shared, Agree, stores, lastKept

(* What has been recorded does no harm to what has been seen to.           *)
LEMMA RecordedKept ==
    ASSUME Types, NEW t \in Thread, NEW o \in Outcome, Recorded(t, o),
           Progress(t), Looked(t),
           touched' \in [Thread -> BOOLEAN],
           \A u \in Thread \ {t} : touched'[u] = touched[u]
    PROVE  /\ Elsewhere(t) /\ Threads'
           /\ Progress(t)' /\ Looked(t)' /\ ~Works(t)'
<1>1. /\ pc' \in [Thread -> Labels]
      /\ pc'[t] = IF Len(res[t]) + 1 = Len(req[t].items)
                  THEN "answer" ELSE "next"
      /\ req' \in [Thread -> Message] /\ req'[t] = req[t]
      /\ res' \in [Thread -> Seq(Outcome)]
      /\ res'[t] = Append(res[t], o)
      /\ \A u \in Thread \ {t} :
            pc'[u] = pc[u] /\ req'[u] = req[u] /\ res'[u] = res[u]
    BY RecordsTyped
<1>2. res[t] \in Seq(Outcome) /\ req[t].items \in Seq(Item)
    BY DEF Types, Message
<1>3. /\ Len(res'[t]) = Len(res[t]) + 1 /\ Len(res[t]) \in Nat
      /\ Len(req[t].items) \in Nat
    BY <1>1, <1>2
<1>4. pc[t] \in Serving /\ Len(res[t]) < Len(req[t].items)
    BY DEF Recorded, Progress
<1>5. Asked(t)'
    <2>1. Asked(t)
        BY <1>4 DEF Progress, Serving
    <2> QED BY <1>1, <2>1 DEF Asked, Names
<1>6. Progress(t)'
    BY <1>1, <1>3, <1>4, <1>5 DEF Progress, Serving, Unserved
<1>7. Looked(t)'
    BY <1>1, <1>4 DEF Looked
<1> QED BY <1>1, <1>6, <1>7 DEF Elsewhere, Threads, Works

-----------------------------------------------------------------------------
(* The steps.                                                              *)

LEMMA InitIInv ==
    ASSUME Init
    PROVE  IInv
<1>1. NoReq \in Message /\ <<>> \in Seq(Outcome)
    BY DEF NoReq, Message, None
<1>2. Threads /\ Mutexes
    BY <1>1 DEF Init, Threads, Mutexes, Labels
<1>3. Shared
    BY AskAssumption, NamesDistinct DEF Init, Shared
<1>4. Agree
    BY NamesDistinct DEF Init, Agree
<1>5. \A t \in Thread : /\ pc[t] = "idle" /\ req[t] = NoReq
                         /\ res[t] = <<>> /\ ~touched[t]
    BY DEF Init
<1>6. \A t \in Thread : Progress(t) /\ Looked(t) /\ ~Works(t)
    BY <1>5 DEF Progress, Looked, Works, Serving, Unserved
<1>7. Exclusive
    BY <1>6 DEF Init, Exclusive, Thread, Free
<1> QED BY <1>2, <1>3, <1>4, <1>6, <1>7, TypesParts DEF IInv

LEMMA ArriveIInv ==
    ASSUME IInv, NEW r \in Ask, Arrive(r)
    PROVE  IInv'
<1> DEFINE t == thread(r.from)
<1>1. /\ r.from \in From /\ t \in Thread /\ r.op \in {"get", "set"}
      /\ r.op = "set" => r.from \notin {"json", "rbus"}
      /\ r.from = "iarm" => Names(r) \subseteq Name
      /\ r.from = "iarm" /\ r.op = "set" =>
            \A k \in DOMAIN r.items : r.items[k].value \in Value
    BY AskAssumption DEF From, Thread, thread
<1>2. /\ pc[t] = "idle"
      /\ req' = [req EXCEPT ![t] = Expand(r)]
      /\ res' = [res EXCEPT ![t] = <<>>]
      /\ touched' = [touched EXCEPT ![t] = FALSE]
      /\ pc' = [pc EXCEPT ![t] = IF r.from = "webpa" /\ r.op = "set"
                                 THEN "reason" ELSE "next"]
      /\ UNCHANGED <<mgr, handle, retry_count, stores, mutex, lastKept>>
    BY DEF Arrive, Goto
<1>3. Threads /\ Mutexes /\ Shared /\ Agree
    BY TypesParts DEF IInv
<1>4. /\ req'[t] = Expand(r) /\ res'[t] = <<>> /\ touched'[t] = FALSE
      /\ pc'[t] = IF r.from = "webpa" /\ r.op = "set" THEN "reason" ELSE "next"
    BY <1>1, <1>2, <1>3 DEF Threads
<1>5. Elsewhere(t)
    BY <1>1, <1>2, <1>3 DEF Elsewhere, Threads
<1>6. Threads'
    BY <1>1, <1>2, <1>3, ExpandTyped DEF Threads, Labels
<1>7. Shared' /\ Agree'
    BY <1>2, <1>3, SharedKept
<1>8. Held(t)
    BY <1>2, <1>4 DEF Held, Works
<1>9. Asked(t)'
    <2>1. /\ Expand(r).from = r.from /\ Expand(r).op = r.op
          /\ Expand(r).items # <<>>
          /\ Expand(r).op = "set" => Expand(r).items = r.items /\ ~Expand(r).wild
          /\ Expand(r).op = "get" => Names(Expand(r)) \subseteq Name
          /\ r.from = "iarm" => Expand(r).items = r.items
        BY ExpandTyped
    <2>2. Names(Expand(r)) = Names(r) \/ Expand(r).items # r.items
        BY DEF Names
    <2> HIDE DEF t
    <2> QED BY <1>1, <1>4, <2>1, <2>2 DEF Asked, t
<1>10. Expand(r).items \in Seq(Item) /\ Expand(r).items # <<>>
    BY ExpandTyped DEF Message
<1>11. Progress(t)'
    <2>1. Len(<<>>) < Len(Expand(r).items)
        BY <1>10
    <2> HIDE DEF t
    <2> QED BY <1>4, <1>9, <2>1, ExpandTyped DEF Progress, Serving, Unserved
<1>12. Looked(t)'
    <2>1. pc'[t] = "next" => ~(Expand(r).op = "set" /\ Expand(r).from = "webpa")
        BY <1>4, ExpandTyped
    <2> HIDE DEF t
    <2> QED BY <1>4, <2>1 DEF Looked, Serving
<1> HIDE DEF t
<1> QED BY <1>1, <1>5, <1>6, <1>7, <1>8, <1>11, <1>12, ThreadStep

(* A thread goes on to another place, and its request is what it was.      *)
Moved(t, l) ==
    /\ UNCHANGED <<mgr, handle, retry_count, stores, req, lastKept>>
    /\ Goto(t, l)
    /\ UNCHANGED <<res, touched>>

LEMMA MovedKept ==
    ASSUME IInv, NEW t \in Thread, NEW l \in Labels, Moved(t, l)
    PROVE  /\ Elsewhere(t) /\ Threads' /\ Shared' /\ Agree'
           /\ pc'[t] = l /\ req'[t] = req[t] /\ res'[t] = res[t]
           /\ touched'[t] = touched[t] /\ item(t)' = item(t)
           /\ Asked(t) => Asked(t)'
<1>1. Threads /\ Shared /\ Agree /\ Types
    BY TypesParts DEF IInv
<1>2. /\ pc' \in [Thread -> Labels] /\ pc'[t] = l
      /\ \A u \in Thread \ {t} : pc'[u] = pc[u]
    BY <1>1, GotoTyped DEF Moved
<1>3. UNCHANGED <<req, res, touched>>
    BY DEF Moved
<1>4. Shared' /\ Agree'
    BY <1>1, SharedKept DEF Moved
<1>5. Elsewhere(t) /\ Threads'
    BY <1>1, <1>2, <1>3 DEF Elsewhere, Threads
<1>6. item(t)' = item(t) /\ (Asked(t) => Asked(t)')
    BY <1>3 DEF item, Asked, Names
<1> QED BY <1>2, <1>3, <1>4, <1>5, <1>6

LEMMA ReasonIInv ==
    ASSUME IInv, NEW t \in Thread, Reason(t)
    PROVE  IInv'
<1>1. pc[t] = "reason" /\ Goto(t, "validate")
    BY DEF Reason
<1>2. Progress(t) /\ Threads
    BY TypesParts DEF IInv
<1>3. touched' = touched
    <2>1. touched[t] = FALSE
        BY <1>1, <1>2 DEF Progress, Unserved, Threads
    <2>2. touched' = [touched EXCEPT ![t] = FALSE] \/ touched' = touched
        <3>1. ("RebootReason" \in Writable) = FALSE
            BY DEF Writable
        <3>2. \/ touched' = [touched EXCEPT ![t] = "RebootReason" \in Writable]
              \/ touched' = touched
            BY Zenon DEF Reason
        <3> QED BY <3>1, <3>2, Zenon
    <2>3. /\ touched \in [Thread -> BOOLEAN] /\ touched' \in [Thread -> BOOLEAN]
          /\ \A u \in Thread : touched'[u] = touched[u]
        BY <1>2, <2>1, <2>2 DEF Threads
    <2> QED BY <2>3
<1>4. Moved(t, "validate") /\ "validate" \in Labels
    BY <1>1, <1>3 DEF Reason, Moved, Labels
<1>5. /\ Elsewhere(t) /\ Threads' /\ Shared' /\ Agree'
      /\ pc'[t] = "validate" /\ req'[t] = req[t] /\ res'[t] = res[t]
      /\ touched'[t] = touched[t] /\ item(t)' = item(t)
      /\ Asked(t) => Asked(t)'
    BY <1>4, MovedKept
<1>6. Held(t)
    BY <1>1, <1>5 DEF Reason, Held, Works
<1>7. Progress(t)'
    BY <1>1, <1>2, <1>5 DEF Progress, Serving, Unserved
<1>8. Looked(t)'
    BY <1>5 DEF Looked, Serving
<1> QED BY <1>5, <1>6, <1>7, <1>8, ThreadStep

LEMMA ValidateIInv ==
    ASSUME IInv, NEW t \in Thread, Validate(t)
    PROVE  IInv'
<1>1. /\ pc[t] = "validate" /\ mutex' = mutex /\ touched' = touched
      /\ UNCHANGED <<mgr, handle, retry_count, stores, lastKept, req>>
    BY DEF Validate
<1>2. /\ Progress(t) /\ Threads /\ Shared /\ Agree /\ Asked(t)
      /\ res[t] = <<>> /\ req[t].op = "set" /\ req[t].from = "webpa"
    BY <1>1, TypesParts DEF IInv, Progress, Unserved
<1>3. req[t].items \in Seq(Item) /\ req[t].items # <<>>
    BY <1>2 DEF Threads, Message, Asked
<1> DEFINE items == req[t].items
           refused == \E k \in DOMAIN items : Invalid(items[k])
           all == [k \in DOMAIN items |-> Result(k # 1, FALSE, TRUE)]
<1>4. CASE ~refused
    <2>1. Moved(t, "next") /\ "next" \in Labels
        BY <1>1, <1>4 DEF Validate, Moved, Labels
    <2>2. /\ Elsewhere(t) /\ Threads' /\ Shared' /\ Agree'
          /\ pc'[t] = "next" /\ req'[t] = req[t] /\ res'[t] = res[t]
          /\ Asked(t)'
        BY <1>2, <2>1, MovedKept
    <2>3. Held(t)
        BY <1>1, <2>2 DEF Held, Works
    <2>4. Progress(t)'
        <3>1. Len(<<>>) < Len(items)
            BY <1>3
        <3> QED BY <1>2, <2>2, <3>1 DEF Progress, Serving, Unserved
    <2>5. Looked(t)'
        BY <1>4, <2>2 DEF Looked, Invalid
    <2> QED BY <2>2, <2>3, <2>4, <2>5, ThreadStep
<1>5. CASE refused
    <2>1. all \in Seq(Outcome) /\ Len(all) = Len(items)
        <3>1. \A k \in DOMAIN items : Result(k # 1, FALSE, TRUE) \in Outcome
            BY DEF Result, Outcome
        <3>2. DOMAIN items = 1..Len(items) /\ Len(items) \in Nat
            BY <1>3
        <3>3. all \in [1..Len(items) -> Outcome]
            BY <3>1, <3>2
        <3> HIDE DEF all
        <3>4. all \in Seq(Outcome)
            BY <3>2, <3>3, SeqDef
        <3> QED BY <3>2, <3>3, <3>4
    <2>2. res' = [res EXCEPT ![t] = all] /\ pc' = [pc EXCEPT ![t] = "answer"]
        BY <1>5 DEF Validate, Goto
    <2> HIDE DEF all, items, refused
    <2>3. Elsewhere(t) /\ Threads' /\ pc'[t] = "answer" /\ res'[t] = all
        BY <1>1, <1>2, <2>1, <2>2 DEF Elsewhere, Threads, Labels
    <2>4. Shared' /\ Agree'
        BY <1>1, <1>2, SharedKept
    <2>5. Held(t)
        BY <1>1, <2>3 DEF Held, Works
    <2>6. Asked(t)'
        BY <1>1, <1>2 DEF Asked, Names
    <2>7. Progress(t)'
        BY <1>1, <2>1, <2>3, <2>6 DEF Progress, Serving, Unserved, items
    <2>8. Looked(t)'
        BY <2>3 DEF Looked, Serving
    <2> QED BY <2>3, <2>4, <2>5, <2>7, <2>8, ThreadStep
<1> QED BY <1>4, <1>5

(* An item goes from one place to another where items are served.          *)
LEMMA ServingKept ==
    ASSUME IInv, NEW t \in Thread, pc[t] \in Serving,
           NEW l \in Serving, Moved(t, l)
    PROVE  Progress(t)'
<1>1. Progress(t) /\ Asked(t) /\ Len(res[t]) < Len(req[t].items)
    BY DEF IInv, Progress, Serving
<1>2. l \in Labels
    BY DEF Serving, Labels
<1>3. /\ pc'[t] = l /\ req'[t] = req[t] /\ res'[t] = res[t] /\ Asked(t)'
    BY <1>1, <1>2, MovedKept
<1> QED BY <1>1, <1>3 DEF Progress, Serving, Unserved

LEMMA PostIInv ==
    ASSUME IInv, NEW t \in Thread, Post(t)
    PROVE  IInv'
<1>1. /\ pc[t] = "next" /\ Moved(t, "bus") /\ mutex' = mutex
      /\ req[t].from = "webpa" /\ item(t).name \notin DataModel
    BY DEF Post, Moved
<1>2. "next" \in Serving /\ "bus" \in Serving /\ "bus" \in Labels
    BY DEF Serving, Labels
<1>3. /\ Elsewhere(t) /\ Threads' /\ Shared' /\ Agree'
      /\ pc'[t] = "bus" /\ req'[t] = req[t] /\ item(t)' = item(t)
    BY <1>1, <1>2, MovedKept
<1>4. ~Works(t) /\ ~Works(t)'
    BY <1>1, <1>3 DEF Works, DataModel
<1>5. Held(t)
    BY <1>1, <1>4 DEF Held
<1>6. Kept \subseteq DataModel
    BY DEF Kept, Boot, DataModel
<1>7. Looked(t)'
    BY <1>1, <1>2, <1>3, <1>6 DEF IInv, Looked, Invalid
<1> QED BY <1>1, <1>2, <1>3, <1>5, <1>7, ServingKept, ThreadStep

(* What an item is that the dispatch takes.                                *)
LEMMA EnterLooked ==
    ASSUME IInv, NEW t \in Thread, Enter(t)
    PROVE  /\ item(t).name \in Name
           /\ req[t].op = "set" => item(t).value \in Value
<1> DEFINE i == item(t)
           k == Len(res[t]) + 1
<1>1. /\ pc[t] = "next" /\ ~FrontRefuses(req[t], i)
      /\ req[t].from = "webpa" => i.name \in DataModel
      /\ req[t].from \in Http => i.name # "RFC_Url"
    BY DEF Enter
<1>2. Types /\ Asked(t) /\ Looked(t) /\ Len(res[t]) < Len(req[t].items)
    BY <1>1 DEF IInv, Progress, Serving
<1>3. k \in DOMAIN req[t].items /\ i = req[t].items[k] /\ i \in Item
    BY <1>2, ItemTyped DEF item
<1> HIDE DEF k
<1>4. i.name \in Names(req[t])
    BY <1>3 DEF Names
<1> SUFFICES i.name \in Name /\ (req[t].op = "set" => i.value \in Value)
    OBVIOUS
<1> HIDE DEF i
<1>5. CASE req[t].op = "get"
    BY <1>2, <1>4, <1>5 DEF Asked
<1>6. CASE req[t].op = "set"
    <2>1. CASE req[t].from = "webpa"
        <3>1. ~Invalid(i)
            BY <1>1, <1>2, <1>3, <1>6, <2>1 DEF Looked, Serving
        <3>2. i.value # Null /\ i.value # Misfit
            BY <1>1, <1>6, <2>1, <3>1 DEF FrontRefuses, Invalid
        <3> QED BY <1>1, <1>3, <2>1, <3>2, NamesDistinct DEF Item
    <2>2. CASE req[t].from \in Http
        <3>1. i.name \in DataModel /\ i.value # Null /\ i.value # Misfit
            BY <1>1, <1>6, <2>2 DEF FrontRefuses
        <3> QED BY <1>3, <3>1, NamesDistinct DEF Item
    <2>3. CASE req[t].from = "iarm"
        BY <1>2, <1>3, <1>4, <1>6, <2>3 DEF Asked
    <2> QED BY <1>2, <1>6, <2>1, <2>2, <2>3 DEF Asked, From, Http
<1> QED BY <1>2, <1>5, <1>6 DEF Asked

LEMMA EnterIInv ==
    ASSUME IInv, NEW t \in Thread, Enter(t)
    PROVE  IInv'
<1>1. /\ pc[t] = "next" /\ Moved(t, "handler")
      /\ mutex[req[t].op] = Free
      /\ mutex' = [mutex EXCEPT ![req[t].op] = t]
    BY DEF Enter, Moved
<1>2. "next" \in Serving /\ "handler" \in Serving /\ "handler" \in Labels
    BY DEF Serving, Labels
<1>3. /\ Elsewhere(t) /\ Threads' /\ Shared' /\ Agree'
      /\ pc'[t] = "handler" /\ req'[t] = req[t] /\ item(t)' = item(t)
    BY <1>1, <1>2, MovedKept
<1>4. ~Works(t) /\ Works(t)' /\ req[t].op \in {"get", "set"}
    BY <1>1, <1>3 DEF Works, IInv, Progress, Asked
<1>5. Held(t)
    BY <1>1, <1>3, <1>4 DEF Held
<1>6. Looked(t)'
    BY <1>1, <1>2, <1>3, EnterLooked DEF IInv, Looked, Invalid
<1> QED BY <1>1, <1>2, <1>3, <1>5, <1>6, ServingKept, ThreadStep

LEMMA ForwardIInv ==
    ASSUME IInv, NEW t \in Thread, Forward(t)
    PROVE  IInv'
<1>1. /\ pc[t] = "handler" /\ Moved(t, "bus") /\ mutex' = mutex
      /\ item(t).name = "Profiles"
    BY DEF Forward, Moved, Telemetry
<1>2. "handler" \in Serving /\ "bus" \in Serving /\ "bus" \in Labels
    BY DEF Serving, Labels
<1>3. /\ Elsewhere(t) /\ Threads' /\ Shared' /\ Agree'
      /\ pc'[t] = "bus" /\ req'[t] = req[t] /\ item(t)' = item(t)
    BY <1>1, <1>2, MovedKept
<1>4. Works(t) /\ Works(t)'
    BY <1>1, <1>3 DEF Works
<1>5. Held(t)
    BY <1>1, <1>3, <1>4 DEF Held
<1>6. Looked(t)'
    BY <1>1, <1>2, <1>3 DEF IInv, Looked, Invalid, DataModel, Kept, Boot
<1> QED BY <1>1, <1>2, <1>3, <1>5, <1>6, ServingKept, ThreadStep

(* An item is recorded and nothing else is changed but the mutex.          *)
LEMMA RecordsIInv ==
    ASSUME IInv, NEW t \in Thread, Records(t),
           UNCHANGED <<mgr, handle, retry_count, stores, touched, lastKept>>,
           IF Works(t) THEN Release(t) ELSE mutex' = mutex
    PROVE  IInv'
<1>1. PICK o \in Outcome : Recorded(t, o)
    BY DEF Records
<1>2. /\ Types /\ Threads /\ Shared /\ Agree /\ Progress(t) /\ Looked(t)
    BY TypesParts DEF IInv
<1>3. touched' = touched
    OBVIOUS
<1>4. /\ Elsewhere(t) /\ Threads'
      /\ Progress(t)' /\ Looked(t)' /\ ~Works(t)'
    BY <1>1, <1>2, <1>3, RecordedKept DEF Threads
<1>5. Shared' /\ Agree'
    BY <1>2, SharedKept
<1>6. req[t].op \in {"get", "set"}
    BY <1>1, <1>2 DEF Recorded, Progress, Asked, Serving
<1>7. Held(t)
    BY <1>4, <1>6 DEF Held, Release
<1> QED BY <1>4, <1>5, <1>7, ThreadStep

LEMMA RefuseIInv ==
    ASSUME IInv, NEW t \in Thread, Refuse(t)
    PROVE  IInv'
<1>1. /\ ~Works(t) /\ mutex' = mutex
      /\ UNCHANGED <<mgr, handle, retry_count, stores, touched, lastKept>>
    BY DEF Refuse, Works
<1> QED BY <1>1, RefuseRecords, RecordsIInv

LEMMA VariableIInv ==
    ASSUME IInv, NEW t \in Thread, Variable(t)
    PROVE  IInv'
<1>1. /\ ~Works(t) /\ mutex' = mutex
      /\ UNCHANGED <<mgr, handle, retry_count, stores, touched, lastKept>>
    BY DEF Variable, Works
<1> QED BY <1>1, VariableRecords, RecordsIInv

LEMMA BusAnswerIInv ==
    ASSUME IInv, NEW t \in Thread, BusAnswer(t)
    PROVE  IInv'
<1>1. /\ IF Works(t) THEN Release(t) ELSE mutex' = mutex
      /\ UNCHANGED <<mgr, handle, retry_count, stores, touched, lastKept>>
    BY DEF BusAnswer, Works
<1> QED BY <1>1, BusAnswerRecords, RecordsIInv

LEMMA HandleGetIInv ==
    ASSUME IInv, NEW t \in Thread, HandleGet(t)
    PROVE  IInv'
<1>1. /\ Works(t) /\ Release(t)
      /\ UNCHANGED <<mgr, handle, retry_count, stores, touched, lastKept>>
    BY DEF HandleGet, Works
<1> QED BY <1>1, HandleGetRecords, RecordsIInv DEF IInv

(* What a set does to the stores: one parameter gets a new value, in its   *)
(* store and for its readers, or nothing happens.                          *)
LEMMA HandleSetStores ==
    ASSUME IInv, NEW t \in Thread, HandleSet(t)
    PROVE  Shared' /\ Agree'
<1> DEFINE n == item(t).name
           v == item(t).value
<1>1. Types /\ Shared /\ Agree /\ Progress(t) /\ Looked(t)
    BY TypesParts DEF IInv
<1>2. /\ v \in Value
      /\ \/ n \in Boot /\ SetBoot(t, n, v)
         \/ n \in RfcName /\ SetRfc(t, n, v)
         \/ n = "PartnerId" /\ SetOwn(t, n, v)
         \/ NoSet(t, "none") \/ NoSet(t, "not writable")
    BY <1>1, SetCases
<1>3. UNCHANGED <<mgr, handle, retry_count>>
    BY DEF HandleSet
<1>4. pc[t] = "handler" /\ req[t].op = "set"
    BY DEF HandleSet
<1> HIDE DEF n, v
<1>5. CASE n \in Boot /\ SetBoot(t, n, v)
    <2>1. PICK kept \in IF Overrides(n, requestor(req[t].from)) THEN BOOLEAN
                        ELSE {FALSE} :
             /\ boot' = IF kept THEN [boot EXCEPT ![n] = v] ELSE boot
             /\ source' = IF kept
                          THEN [source EXCEPT ![n] = requestor(req[t].from)]
                          ELSE source
             /\ last' = IF kept THEN [last EXCEPT ![n] = v] ELSE last
             /\ astray' = IF kept THEN astray \ {n} ELSE astray
             /\ UNCHANGED <<rfc, own>>
        BY <1>5 DEF SetBoot
    <2>2. CASE kept
        <3>1. requestor(req[t].from) \in {"RFC", "WEBPA"}
            BY <2>1, <2>2 DEF Overrides
        <3>2. Shared'
            BY <1>1, <1>2, <1>3, <1>5, <2>1, <2>2, <3>1, NamesDistinct DEF Shared
        <3>3. Agree'
            BY <1>1, <1>2, <1>5, <2>1, <2>2, NamesDistinct DEF Shared, Agree
        <3> QED BY <3>2, <3>3
    <2>3. CASE ~kept
        BY <1>1, <1>3, <2>1, <2>3, SharedKept DEF stores, lastKept
    <2> QED BY <2>2, <2>3
<1>6. CASE n \in RfcName /\ SetRfc(t, n, v)
    <2>1. PICK kept \in BOOLEAN :
             /\ rfc' = IF kept THEN [rfc EXCEPT ![n] = v] ELSE rfc
             /\ last' = IF kept THEN [last EXCEPT ![n] = v] ELSE last
             /\ astray' = IF kept /\ n \in Boot THEN astray \cup {n} ELSE astray
             /\ UNCHANGED <<boot, source, own>>
        BY <1>6 DEF SetRfc
    <2>2. CASE kept
        <3>1. Shared'
            BY <1>1, <1>2, <1>3, <1>6, <2>1, <2>2, NamesDistinct DEF Shared
        <3>2. Agree'
            BY <1>1, <1>2, <1>6, <2>1, <2>2, NamesDistinct DEF Shared, Agree
        <3> QED BY <3>1, <3>2
    <2>3. CASE ~kept
        BY <1>1, <1>3, <2>1, <2>3, SharedKept DEF stores, lastKept
    <2> QED BY <2>2, <2>3
<1>7. CASE n = "PartnerId" /\ SetOwn(t, n, v)
    <2>1. PICK kept \in BOOLEAN :
             /\ own' = IF kept THEN [own EXCEPT ![n] = v] ELSE own
             /\ last' = IF kept THEN [last EXCEPT ![n] = v] ELSE last
             /\ UNCHANGED <<boot, source, rfc, astray>>
        BY <1>7 DEF SetOwn
    <2>2. CASE kept
        <3>1. Shared'
            BY <1>1, <1>2, <1>3, <1>7, <2>1, <2>2, NamesDistinct DEF Shared
        <3>2. Agree'
            BY <1>1, <1>2, <1>7, <2>1, <2>2, NamesDistinct DEF Shared, Agree
        <3> QED BY <3>1, <3>2
    <2>3. CASE ~kept
        BY <1>1, <1>3, <2>1, <2>3, SharedKept DEF stores, lastKept
    <2> QED BY <2>2, <2>3
<1>8. CASE NoSet(t, "none") \/ NoSet(t, "not writable")
    <2>1. UNCHANGED <<stores, touched, lastKept>>
        BY <1>8 DEF NoSet
    <2> QED BY <1>1, <1>3, <2>1, SharedKept
<1> QED BY <1>2, <1>5, <1>6, <1>7, <1>8

LEMMA HandleSetTouches ==
    ASSUME IInv, NEW t \in Thread, HandleSet(t)
    PROVE  /\ touched' \in [Thread -> BOOLEAN]
           /\ \A u \in Thread \ {t} : touched'[u] = touched[u]
<1>1. Types /\ Threads /\ Progress(t) /\ Looked(t)
    BY TypesParts DEF IInv
<1> DEFINE n == item(t).name
           v == item(t).value
<1>2. \/ SetBoot(t, n, v) \/ SetRfc(t, n, v) \/ SetOwn(t, n, v)
      \/ NoSet(t, "none") \/ NoSet(t, "not writable")
    BY <1>1, SetCases
<1>3. \/ touched' = touched
      \/ \E kept \in BOOLEAN : touched' = [touched EXCEPT ![t] = @ \/ kept]
    <2>1. ASSUME SetBoot(t, n, v)
          PROVE  \E kept \in BOOLEAN : touched' = [touched EXCEPT ![t] = @ \/ kept]
        BY <2>1 DEF SetBoot
    <2>2. ASSUME SetRfc(t, n, v)
          PROVE  \E kept \in BOOLEAN : touched' = [touched EXCEPT ![t] = @ \/ kept]
        BY <2>2 DEF SetRfc
    <2>3. ASSUME SetOwn(t, n, v)
          PROVE  \E kept \in BOOLEAN : touched' = [touched EXCEPT ![t] = @ \/ kept]
        BY <2>3 DEF SetOwn
    <2>4. ASSUME NoSet(t, "none") \/ NoSet(t, "not writable")
          PROVE  touched' = touched
        BY <2>4 DEF NoSet
    <2> QED BY <1>2, <2>1, <2>2, <2>3, <2>4
<1> QED BY <1>1, <1>3 DEF Threads

LEMMA HandleSetIInv ==
    ASSUME IInv, NEW t \in Thread, HandleSet(t)
    PROVE  IInv'
<1>1. Types /\ Progress(t) /\ Looked(t)
    BY DEF IInv
<1>2. PICK o \in Outcome : Recorded(t, o)
    BY <1>1, HandleSetRecords DEF Records
<1>3. /\ Elsewhere(t) /\ Threads'
      /\ Progress(t)' /\ Looked(t)' /\ ~Works(t)'
    BY <1>1, <1>2, HandleSetTouches, RecordedKept
<1>4. /\ Works(t) /\ req[t].op = "set"
      /\ mutex' = [mutex EXCEPT ![req[t].op] = Free]
    BY DEF HandleSet, Works, Release
<1>5. Held(t)
    BY <1>3, <1>4 DEF Held
<1> QED BY <1>3, <1>5, HandleSetStores, ThreadStep

LEMMA AnswerIInv ==
    ASSUME IInv, NEW t \in Thread, Answer(t)
    PROVE  IInv'
<1>1. /\ pc[t] = "answer" /\ mutex' = mutex
      /\ pc' = [pc EXCEPT ![t] = "idle"]
      /\ req' = [req EXCEPT ![t] = NoReq]
      /\ res' = [res EXCEPT ![t] = <<>>]
      /\ touched' = [touched EXCEPT ![t] = FALSE]
      /\ UNCHANGED <<mgr, handle, retry_count, stores, lastKept>>
    BY DEF Answer, Goto
<1>2. Threads /\ Shared /\ Agree
    BY TypesParts DEF IInv
<1>3. NoReq \in Message /\ <<>> \in Seq(Outcome)
    BY DEF NoReq, Message, None
<1>4. /\ pc'[t] = "idle" /\ req'[t] = NoReq /\ res'[t] = <<>>
      /\ touched'[t] = FALSE /\ Elsewhere(t) /\ Threads'
    BY <1>1, <1>2, <1>3 DEF Threads, Elsewhere, Labels
<1>5. Shared' /\ Agree'
    BY <1>1, <1>2, SharedKept
<1>6. Progress(t)' /\ Looked(t)'
    BY <1>4 DEF Progress, Looked, Serving, Unserved
<1>7. Held(t)
    BY <1>1, <1>4 DEF Held, Works
<1> QED BY <1>4, <1>5, <1>6, <1>7, ThreadStep

LEMMA OpenRbusIInv ==
    ASSUME IInv, OpenRbus
    PROVE  IInv'
<1>1. UNCHANGED <<mgr, stores, mutex, pc, req, res, touched, lastKept>>
    BY DEF OpenRbus
<1>2. Threads /\ Mutexes /\ Shared /\ Agree /\ Exclusive
    BY TypesParts DEF IInv
<1>3. MaxRetry \in Nat
    BY AskAssumption
<1>4. handle' \in {"retry", "open", "none"} /\ retry_count' \in 0..MaxRetry
    BY <1>2, <1>3 DEF OpenRbus, Shared
<1>5. Shared' /\ Threads' /\ Mutexes' /\ Agree'
    BY <1>1, <1>2, <1>4 DEF Shared, Threads, Mutexes, Agree, stores, lastKept
<1>6. \A t \in Thread : Progress(t)' /\ Looked(t)' /\ (Works(t)' <=> Works(t))
    BY <1>1 DEF IInv, Progress, Looked, Works, Asked, Names, item, Invalid
<1>7. Exclusive'
    BY <1>1, <1>2, <1>6 DEF Exclusive
<1> QED BY <1>5, <1>6, <1>7, TypesParts DEF IInv

LEMMA StutterIInv ==
    ASSUME IInv, UNCHANGED vars
    PROVE  IInv'
BY DEF IInv, vars, stores, lastKept, Types, TypeOK, Exclusive, Agree, Progress, Looked,
       Works, Asked, Names, item, Invalid

(* The mutexes and the stores agree with where the threads are, always.    *)
THEOREM Inductive == Spec => []IInv
<1>1. Init => IInv
    BY InitIInv
<1>2. IInv /\ [Next]_vars => IInv'
    <2> SUFFICES ASSUME IInv, [Next]_vars
                 PROVE  IInv'
        OBVIOUS
    <2>1. ASSUME NEW r \in Ask, Arrive(r)
          PROVE  IInv'
        BY <2>1, ArriveIInv
    <2>2. ASSUME NEW t \in Thread, Serve(t)
          PROVE  IInv'
        BY <2>2, ReasonIInv, ValidateIInv, RefuseIInv, VariableIInv, PostIInv,
           EnterIInv, HandleSetIInv, HandleGetIInv, ForwardIInv, BusAnswerIInv,
           AnswerIInv DEF Serve
    <2>3. ASSUME OpenRbus
          PROVE  IInv'
        BY <2>3, OpenRbusIInv
    <2>4. ASSUME UNCHANGED vars
          PROVE  IInv'
        BY <2>4, StutterIInv
    <2> QED BY <2>1, <2>2, <2>3, <2>4 DEF Next
<1> QED BY <1>1, <1>2, PTL DEF Spec

(* The state keeps its types.                                              *)
THEOREM TypeCorrect == Spec => []TypeOK
<1>1. IInv => TypeOK
    BY DEF IInv, Types
<1> QED BY <1>1, Inductive, PTL

-----------------------------------------------------------------------------
(* What follows from the invariant.                                        *)

LEMMA TypesServed ==
    ASSUME Types
    PROVE  Served
<1>1. Managed(mgr) /\ boot \in [Boot -> Value] /\ DOMAIN own = {"PartnerId"}
    BY TablesManaged DEF Types, TypeOK
<1>2. None \notin Value /\ Initial \in Value
    BY AskAssumption
<1>3. Answers(mgr["DNSText"], getBSUpdateEnum("DNSText"), "DNSText")
          = {boot["DNSText"]}
    BY <1>1 DEF Managed, Answers
<1>4. Answers(mgr["PartnerName"], getBSUpdateEnum("PartnerName"), "PartnerName")
          = {boot["PartnerName"]}
    BY <1>1 DEF Managed, Answers, DeviceName, getBSUpdateEnum, AllUpdate
<1>5. Answers(mgr["Docsis"], getBSUpdateEnum("Docsis"), "Docsis")
          = Value \cup {None}
    BY <1>1 DEF Managed, Answers, getBSUpdateEnum, AllUpdate, RfcName
<1>6. boot["DNSText"] \in Value /\ boot["PartnerName"] \in Value
    BY <1>1 DEF Boot
<1> QED BY <1>2, <1>3, <1>4, <1>5, <1>6 DEF Served

(* Whatever the order of the keys, the three names have managers that      *)
(* serve them: a get does not fail for want of the right one.              *)
THEOREM AlwaysServed == Spec => []Served
<1>1. IInv => Served
    BY TypesServed DEF IInv
<1> QED BY <1>1, Inductive, PTL

(* A thread waits only for one that works, and one that works waits for    *)
(* nobody.                                                                 *)
LEMMA WaitsForWorker ==
    ASSUME IInv, NEW t \in Thread, NEW u \in Thread, Blocks(u, t)
    PROVE  Works(u) /\ ~Works(t)
<1>1. \E m \in {"get", "set"} : mutex[m] = u
    <2>1. pc[t] = "next" => req[t].op \in {"get", "set"}
        BY DEF IInv, Progress, Asked
    <2> QED BY <2>1 DEF Blocks
<1>2. Works(u)
    BY <1>1 DEF IInv, Exclusive
<1>3. ~Works(t)
    BY DEF Blocks, Works, Registered, ExclusionList
<1> QED BY <1>2, <1>3

LEMMA IInvNoCircle ==
    ASSUME IInv
    PROVE  NoCircle
<1> SUFFICES ASSUME NEW S \in (SUBSET Thread) \ {{}}
             PROVE  \E t \in S : \A u \in S : ~Blocks(u, t)
    BY DEF NoCircle
<1>1. CASE \E t \in S, u \in S : Blocks(u, t)
    <2>1. PICK t \in S, u \in S : Blocks(u, t)
        BY <1>1
    <2>2. Works(u)
        BY <2>1, WaitsForWorker
    <2>3. \A w \in S : ~Blocks(w, u)
        BY <2>2, WaitsForWorker
    <2> QED BY <2>3
<1>2. CASE ~\E t \in S, u \in S : Blocks(u, t)
    BY <1>2
<1> QED BY <1>1, <1>2

(* No threads wait for each other, though a get that is answered on rbus   *)
(* needs the mutex of the gets in this very process.                       *)
THEOREM NeverInCircle == Spec => []NoCircle
<1>1. IInv => NoCircle
    BY IInvNoCircle
<1> QED BY <1>1, Inductive, PTL

LEMMA BootSetter ==
    ASSUME IInv, NEW t \in Thread, HandleSet(t), NEW n \in Boot,
           boot'[n] # boot[n]
    PROVE  /\ t \in {"webpa", "loop"} /\ mutex["set"] = t
           /\ source[n] = "WEBPA" => req[t].from # "rfc"
<1> DEFINE name == item(t).name
           v == item(t).value
           rq == requestor(req[t].from)
<1>1. Types /\ Progress(t) /\ Looked(t) /\ Shared
    BY TypesParts DEF IInv
<1>2. pc[t] = "handler" /\ req[t].op = "set"
    BY DEF HandleSet
<1>3. mutex["set"] = t
    BY <1>2 DEF IInv, Exclusive, Works
<1>4. name \in Boot /\ SetBoot(t, name, v)
    <2>1. ~SetRfc(t, name, v) /\ ~SetOwn(t, name, v)
        BY DEF SetRfc, SetOwn
    <2>2. ~NoSet(t, "none") /\ ~NoSet(t, "not writable")
        BY DEF NoSet, stores
    <2> QED BY <1>1, <2>1, <2>2, SetCases
<1>5. PICK kept \in IF Overrides(name, rq) THEN BOOLEAN ELSE {FALSE} :
          boot' = IF kept THEN [boot EXCEPT ![name] = v] ELSE boot
    BY <1>4 DEF SetBoot
<1>6. kept /\ name = n /\ Overrides(n, rq)
    BY <1>1, <1>5 DEF Shared
<1>7. req[t].from \in From /\ thread(req[t].from) = t
    BY <1>1, <1>2 DEF Progress, Asked
<1>8. /\ req[t].from \in {"webpa", "rfc", "tool"}
      /\ source[n] = "WEBPA" => req[t].from # "rfc"
    BY <1>6, <1>7 DEF Overrides, requestor, From
<1> QED BY <1>3, <1>7, <1>8 DEF thread

LEMMA BootStep ==
    ASSUME IInv, [Next]_vars, NEW n \in Boot, boot'[n] # boot[n]
    PROVE  \E t \in {"webpa", "loop"} :
              /\ mutex["set"] = t
              /\ source[n] = "WEBPA" => req[t].from # "rfc"
<1>1. \E t \in Thread : HandleSet(t)
    <2>1. ASSUME NEW r \in Ask, Arrive(r)
          PROVE  boot' = boot
        BY <2>1 DEF Arrive, stores
    <2>2. ASSUME OpenRbus \/ UNCHANGED vars
          PROVE  boot' = boot
        BY <2>2 DEF OpenRbus, stores, vars
    <2>3. ASSUME NEW t \in Thread, Serve(t), ~HandleSet(t)
          PROVE  boot' = boot
        BY <2>3 DEF Serve, Reason, Validate, Refuse, Variable, Post, Enter,
                    HandleGet, Forward, BusAnswer, Answer, stores
    <2> QED BY <2>1, <2>2, <2>3 DEF Next
<1> QED BY <1>1, BootSetter

(* A bootstrap parameter changes only under the mutex of the sets, held by *)
(* WebPA or by the main loop, and not by RFC once WebPA has set it.        *)
THEOREM BootAlwaysOwned == Spec => BootOwned
<1>1. IInv /\ [Next]_vars =>
          [\A n \in Boot : boot'[n] # boot[n] =>
              \E t \in {"webpa", "loop"} :
                  /\ mutex["set"] = t
                  /\ source[n] = "WEBPA" => req[t].from # "rfc"]_vars
    BY BootStep
<1> QED BY <1>1, Inductive, PTL DEF Spec, BootOwned

-----------------------------------------------------------------------------
(* What a request has been told so far.                                    *)

(* Validate has refused it as a whole.                                     *)
AllRefused(t) ==
    /\ pc[t] = "answer" /\ req[t].op = "set" /\ ~touched[t]
    /\ res[t] = [k \in DOMAIN req[t].items |-> Result(k # 1, FALSE, TRUE)]

Each(t) ==
    \A k \in DOMAIN res[t] :
        req[t].op = "set" /\ req[t].items[k].name \notin Unsure =>
            res[t][k].ok = res[t][k].did

Report(t) ==
    \/ AllRefused(t)
    \/ /\ Each(t)
       /\ pc[t] = "answer" /\ req[t].op = "set" /\ req[t].from = "webpa" =>
             \A k \in DOMAIN req[t].items : ~Invalid(req[t].items[k])

Reports == \A t \in Thread : Report(t)

LEMMA ReportElsewhere ==
    ASSUME NEW t \in Thread, Elsewhere(t), NEW u \in Thread \ {t}, Report(u)
    PROVE  Report(u)'
<1>1. /\ pc'[u] = pc[u] /\ req'[u] = req[u]
      /\ res'[u] = res[u] /\ touched'[u] = touched[u]
    BY DEF Elsewhere
<1> QED BY <1>1 DEF Report, AllRefused, Each, Invalid

LEMMA ReportRecorded ==
    ASSUME IInv, NEW t \in Thread, Report(t), Records(t)
    PROVE  Report(t)'
<1>1. PICK o \in Outcome : Recorded(t, o) /\ Honest(t, o)
    BY DEF Records
<1>2. Types /\ Looked(t) /\ pc[t] \in Serving
    BY <1>1 DEF IInv, Recorded
<1>3. /\ req'[t] = req[t] /\ res'[t] = Append(res[t], o)
    BY <1>1, <1>2, RecordsTyped
<1>4. Each(t)
    BY <1>2 DEF Report, AllRefused, Serving
<1>5. res[t] \in Seq(Outcome) /\ Len(res[t]) \in Nat
    BY <1>2 DEF Types
<1>6. /\ DOMAIN res'[t] = 1..Len(res[t]) + 1
      /\ DOMAIN res[t] = 1..Len(res[t])
      /\ \A k \in 1..Len(res[t]) : res'[t][k] = res[t][k]
      /\ res'[t][Len(res[t]) + 1] = o
    BY <1>3, <1>5, AppendProperties
<1>7. Each(t)'
    <2> SUFFICES ASSUME NEW k \in 1..Len(res[t]) + 1
                 PROVE  req[t].op = "set" /\ req[t].items[k].name \notin Unsure =>
                            res'[t][k].ok = res'[t][k].did
        BY <1>3, <1>6 DEF Each
    <2>1. CASE k = Len(res[t]) + 1
        BY <1>1, <1>6, <2>1 DEF Honest, item
    <2>2. CASE k # Len(res[t]) + 1
        <3>1. k \in 1..Len(res[t])
            BY <1>5, <2>2
        <3> QED BY <1>4, <1>6, <3>1 DEF Each
    <2> QED BY <2>1, <2>2
<1>8. req[t].op = "set" /\ req[t].from = "webpa" =>
          \A k \in DOMAIN req[t].items : ~Invalid(req[t].items[k])
    BY <1>2 DEF Looked
<1> QED BY <1>3, <1>7, <1>8 DEF Report, Invalid

(* Where nothing is recorded and no answer is due, there is nothing new.   *)
LEMMA ReportMoved ==
    ASSUME NEW t \in Thread, Report(t), pc[t] # "answer", pc'[t] # "answer",
           req'[t] = req[t], res'[t] = res[t]
    PROVE  Report(t)'
BY DEF Report, AllRefused, Each

LEMMA ReportEmpty ==
    ASSUME NEW t \in Thread, pc'[t] # "answer", res'[t] = <<>>
    PROVE  Report(t)'
<1>1. DOMAIN res'[t] = {}
    OBVIOUS
<1> QED BY <1>1 DEF Report, Each

LEMMA ServeReports ==
    ASSUME IInv, Reports, NEW t \in Thread, Serve(t)
    PROVE  Reports'
<1>1. Types /\ Threads /\ Agree /\ Progress(t) /\ Looked(t) /\ Report(t)
    BY TypesParts DEF IInv, Reports
<1>2. SUFFICES Elsewhere(t) /\ Report(t)'
    BY ReportElsewhere DEF Reports
<1>3. CASE Reason(t)
    <2>1. /\ pc' = [pc EXCEPT ![t] = "validate"] /\ UNCHANGED <<req, res>>
          /\ pc[t] = "reason"
          /\ \/ touched' = touched
             \/ touched' = [touched EXCEPT ![t] = "RebootReason" \in Writable]
        BY <1>3, Zenon DEF Reason, Goto
    <2> QED BY <1>1, <2>1, ReportMoved DEF Elsewhere, Threads
<1>4. CASE Validate(t)
    <2> DEFINE items == req[t].items
               refused == \E k \in DOMAIN items : Invalid(items[k])
               all == [k \in DOMAIN items |-> Result(k # 1, FALSE, TRUE)]
    <2>1. /\ pc[t] = "validate" /\ UNCHANGED <<req, touched>>
        BY <1>4 DEF Validate
    <2>2. CASE refused
        <3>1. res' = [res EXCEPT ![t] = all] /\ pc' = [pc EXCEPT ![t] = "answer"]
            BY <1>4, <2>2 DEF Validate, Goto
        <3> HIDE DEF all, items, refused
        <3>2. Elsewhere(t) /\ pc'[t] = "answer" /\ res'[t] = all
            BY <1>1, <2>1, <3>1 DEF Elsewhere, Threads
        <3>3. req[t].op = "set" /\ ~touched[t]
            BY <1>1, <2>1 DEF Progress, Unserved
        <3>4. AllRefused(t)'
            BY <2>1, <3>2, <3>3 DEF AllRefused, all, items
        <3> QED BY <3>2, <3>4 DEF Report
    <2>3. CASE ~refused
        <3>1. pc' = [pc EXCEPT ![t] = "next"] /\ res' = res
            BY <1>4, <2>3 DEF Validate, Goto
        <3> QED BY <1>1, <2>1, <3>1, ReportMoved DEF Elsewhere, Threads
    <2> QED BY <2>2, <2>3
<1>5. CASE Post(t) \/ Enter(t) \/ Forward(t)
    <2>1. /\ UNCHANGED <<req, res, touched>> /\ pc[t] # "answer"
          /\ \E l \in {"bus", "handler"} : pc' = [pc EXCEPT ![t] = l]
        BY <1>5 DEF Post, Enter, Forward, Goto
    <2> QED BY <1>1, <2>1, ReportMoved DEF Elsewhere, Threads
<1>6. CASE Refuse(t) \/ Variable(t) \/ HandleGet(t) \/ BusAnswer(t)
    <2>1. Records(t)
        BY <1>1, <1>6, RefuseRecords, VariableRecords, HandleGetRecords,
           BusAnswerRecords
    <2>2. touched' = touched
        BY <1>6 DEF Refuse, Variable, HandleGet, BusAnswer
    <2>3. Elsewhere(t)
        BY <1>1, <2>1, <2>2, RecordedKept DEF Records, Threads
    <2> QED BY <1>1, <2>1, <2>3, ReportRecorded
<1>7. CASE HandleSet(t)
    <2>1. Records(t)
        BY <1>1, <1>7, HandleSetRecords
    <2>2. Elsewhere(t)
        BY <1>1, <1>7, <2>1, HandleSetTouches, RecordedKept DEF Records
    <2> QED BY <1>1, <2>1, <2>2, ReportRecorded
<1>8. CASE Answer(t)
    <2>1. /\ pc' = [pc EXCEPT ![t] = "idle"]
          /\ req' = [req EXCEPT ![t] = NoReq]
          /\ res' = [res EXCEPT ![t] = <<>>]
          /\ touched' = [touched EXCEPT ![t] = FALSE]
        BY <1>8 DEF Answer, Goto
    <2> QED BY <1>1, <2>1, ReportEmpty DEF Elsewhere, Threads
<1> QED BY <1>3, <1>4, <1>5, <1>6, <1>7, <1>8 DEF Serve

LEMMA ArriveReports ==
    ASSUME IInv, Reports, NEW r \in Ask, Arrive(r)
    PROVE  Reports'
<1> DEFINE t == thread(r.from)
<1>1. t \in Thread
    BY AskAssumption DEF From, Thread, thread
<1>2. Threads
    BY TypesParts DEF IInv
<1>3. /\ req' = [req EXCEPT ![t] = Expand(r)]
      /\ res' = [res EXCEPT ![t] = <<>>]
      /\ touched' = [touched EXCEPT ![t] = FALSE]
      /\ pc' = [pc EXCEPT ![t] = IF r.from = "webpa" /\ r.op = "set"
                                 THEN "reason" ELSE "next"]
    BY DEF Arrive, Goto
<1> HIDE DEF t
<1>4. Elsewhere(t) /\ Report(t)'
    BY <1>1, <1>2, <1>3, ReportEmpty DEF Elsewhere, Threads
<1> QED BY <1>1, <1>4, ReportElsewhere DEF Reports

LEMMA AlwaysReports == Spec => []Reports
<1>1. Init => Reports
    <2> SUFFICES ASSUME Init, NEW t \in Thread
                 PROVE  Report(t)
        BY DEF Reports
    <2>1. res[t] = <<>> /\ pc[t] = "idle"
        BY DEF Init
    <2> QED BY <2>1 DEF Report, Each
<1>2. IInv /\ Reports /\ [Next]_vars => Reports'
    <2>1. ASSUME IInv, Reports, OpenRbus \/ UNCHANGED vars
          PROVE  Reports'
        <3>1. UNCHANGED <<pc, req, res, touched>>
            BY <2>1 DEF OpenRbus, vars
        <3> QED BY <2>1, <3>1 DEF Reports, Report, AllRefused, Each, Invalid
    <2> QED BY <2>1, ServeReports, ArriveReports DEF Next
<1> QED BY <1>1, <1>2, Inductive, PTL DEF Spec

LEMMA ReportTells ==
    ASSUME IInv, Reports
    PROVE  AnswerTells
<1> SUFFICES ASSUME NEW t \in {"webpa", "loop"},
                    pc[t] = "answer", req[t].op = "set",
                    \A k \in DOMAIN req[t].items :
                        req[t].items[k].name \notin Unsure
             PROVE  Success(t) <=> \A k \in DOMAIN res[t] : res[t][k].did
    BY DEF AnswerTells
<1>1. t \in Thread /\ Types /\ Progress(t) /\ Report(t)
    BY DEF Thread, IInv, Reports
<1>2. /\ res[t] \in Seq(Outcome) /\ req[t].items \in Seq(Item)
      /\ req[t].items # <<>> /\ Len(res[t]) = Len(req[t].items)
    BY <1>1 DEF Types, Message, Progress, Asked
<1>3. DOMAIN res[t] = DOMAIN req[t].items /\ 1 \in DOMAIN res[t]
    BY <1>2
<1>4. CASE AllRefused(t)
    <2>1. res[t][1] = Result(FALSE, FALSE, TRUE)
        BY <1>3, <1>4 DEF AllRefused
    <2>2. res[t][1].ok = FALSE /\ res[t][1].did = FALSE
        BY <2>1 DEF Result
    <2> QED BY <1>3, <2>2 DEF Success
<1>5. CASE Each(t)
    <2>1. \A k \in DOMAIN res[t] : res[t][k].ok = res[t][k].did
        BY <1>3, <1>5 DEF Each
    <2> QED BY <2>1 DEF Success
<1> QED BY <1>1, <1>4, <1>5 DEF Report

(* WebPA and HTTP tell a success of a set if and only if every item of it  *)
(* was done, whoever refused one and with whatever fault code.             *)
THEOREM AnswersTell == Spec => []AnswerTells
<1>1. IInv /\ Reports => AnswerTells
    BY ReportTells
<1> QED BY <1>1, Inductive, AlwaysReports, PTL

(* A set by WebPA with an item that is refused at the door changes         *)
(* nothing.                                                                *)
THEOREM RefusedNeverTouches == Spec => []RefusedUntouched
<1>1. IInv /\ Reports => RefusedUntouched
    <2> SUFFICES ASSUME IInv, Reports, pc["webpa"] = "answer",
                        req["webpa"].op = "set",
                        \E k \in DOMAIN req["webpa"].items :
                            Invalid(req["webpa"].items[k])
                 PROVE  ~touched["webpa"]
        BY DEF RefusedUntouched
    <2>1. Progress("webpa") /\ Report("webpa")
        BY DEF IInv, Reports, Thread
    <2>2. req["webpa"].from = "webpa"
        BY <2>1 DEF Progress, Asked, thread, From
    <2> QED BY <2>1, <2>2 DEF Report, AllRefused
<1> QED BY <1>1, Inductive, AlwaysReports, PTL

(* A get gives the value last kept for the name, whoever set it and in     *)
(* whichever store it is, to every reader that looks there.                *)
THEOREM AlwaysReadsLast == Spec => []ReadsLast
<1>1. IInv => ReadsLast
    <2> SUFFICES ASSUME IInv, NEW t \in Thread,
                        req[t].op = "get", item(t).name \in Kept,
                        Reaches(req[t], item(t).name),
                        NEW v \in Answers(mgr[item(t).name],
                                          bsUpdate(req[t], item(t).name),
                                          item(t).name),
                        v # None
                 PROVE  v = last[item(t).name]
        BY DEF ReadsLast
    <2> DEFINE n == item(t).name
    <2>1. Types /\ Shared /\ Agree
        BY TypesParts DEF IInv
    <2>2. /\ n \in Boot /\ ~Aside(req[t]) => v = boot[n]
          /\ n \in RfcName /\ (n \in Boot => Aside(req[t])) => v = rfc[n]
          /\ n = "PartnerId" => v = own[n]
        BY <2>1, AnswersFrom
    <2>3. n \in Kept /\ (n \in Boot => (Aside(req[t]) <=> n \in astray))
        BY DEF Reaches
    <2> HIDE DEF n
    <2>4. v = last[n]
        <3>1. CASE n \in Boot /\ n \notin astray
            BY <2>1, <2>2, <2>3, <3>1 DEF Agree
        <3>2. CASE n \in Boot /\ n \in astray
            BY <2>1, <2>2, <2>3, <3>2 DEF Agree, Shared
        <3>3. CASE n \in RfcName \ Boot
            BY <2>1, <2>2, <3>3 DEF Agree
        <3>4. CASE n = "PartnerId"
            BY <2>1, <2>2, <3>4 DEF Agree
        <3> QED BY <2>3, <3>1, <3>2, <3>3, <3>4, NamesDistinct
    <2> QED BY <2>4 DEF n
<1> QED BY <1>1, Inductive, PTL

-----------------------------------------------------------------------------
(* A request is one to Parameters.                                         *)

Maps == [Service!Next]_(Service!vars)

(* The value of a name changes with that of its store alone.               *)
LEMMA CurrentTyped ==
    ASSUME Shared
    PROVE  current \in [Kept -> Value \cup {None}]
BY NamesDistinct DEF Shared, current

LEMMA BootCurrent ==
    ASSUME Shared, NEW n \in Boot, NEW v \in Value,
           boot' = [boot EXCEPT ![n] = v], UNCHANGED <<rfc, own>>
    PROVE  current' = [current EXCEPT ![n] = v]
BY NamesDistinct DEF Shared, current

LEMMA RfcCurrent ==
    ASSUME Shared, NEW n \in RfcName, NEW v \in Value,
           rfc' = [rfc EXCEPT ![n] = v], UNCHANGED <<boot, own>>
    PROVE  current' = IF n \in Boot THEN current ELSE [current EXCEPT ![n] = v]
BY NamesDistinct DEF Shared, current

LEMMA OwnCurrent ==
    ASSUME Shared, NEW v \in Value,
           own' = [own EXCEPT !["PartnerId"] = v], UNCHANGED <<boot, rfc>>
    PROVE  current' = [current EXCEPT !["PartnerId"] = v]
BY NamesDistinct DEF Shared, current

LEMMA StoresKept ==
    ASSUME UNCHANGED stores
    PROVE  UNCHANGED <<current, source>>
BY DEF stores, current

LEMMA UnseenMaps ==
    ASSUME UNCHANGED <<stores, req, res>>
    PROVE  Maps
BY StoresKept DEF Maps, Service!vars

LEMMA ServingReady ==
    ASSUME IInv, NEW t \in Thread, pc[t] \in Serving
    PROVE  /\ Service!Ready(t) /\ ~Service!Malformed(req[t])
           /\ Service!Item(t) = item(t) /\ req[t].op \in {"get", "set"}
<1>1. Asked(t) /\ Looked(t) /\ Len(res[t]) < Len(req[t].items)
    BY DEF IInv, Progress, Serving
<1>2. req[t] # NoReq
    BY <1>1 DEF Asked, NoReq, None
<1>3. ~Service!Malformed(req[t])
    BY <1>1 DEF Looked, Invalid, Service!Malformed
<1> QED BY <1>1, <1>2, <1>3 DEF Service!Ready, Service!Item, item, Asked

LEMMA GetMaps ==
    ASSUME IInv, NEW t \in Thread, pc[t] \in Serving, req[t].op = "get",
           UNCHANGED stores, req' = req,
           NEW v \in Value \cup {None}, NEW ok \in BOOLEAN,
           item(t).name \in Kept =>
               \/ v \in {current[item(t).name], None}
               \/ item(t).name \in Boot /\ Aside(req[t]),
           v # None => ok,
           ok => v # None \/ req[t].from = "rbus",
           Record(t, Result(ok, v # None,
                            \/ v = None \/ item(t).name \notin Kept
                            \/ v = current[item(t).name]))
    PROVE  Maps
<1> DEFINE n == item(t).name
<1>1. Service!Ready(t) /\ Service!Item(t) = item(t)
    BY ServingReady
<1>2. n \in Kept => \/ v \in {current[n], None}
                    \/ n \in Boot /\ Service!Aside(req[t])
    BY DEF Aside, Service!Aside
<1>3. Service!Record(t, Service!Result(ok, v # None,
                            v = None \/ n \notin Kept \/ v = current[n]))
    BY DEF Record, Result, Service!Record, Service!Result
<1>4. UNCHANGED <<current, source>>
    BY StoresKept
<1>5. Service!Get(t)
    BY <1>1, <1>2, <1>3, <1>4 DEF Service!Get
<1> QED BY <1>5 DEF Maps, Service!Next

LEMMA SetMaps ==
    ASSUME IInv, NEW t \in Thread, pc[t] \in Serving, req[t].op = "set",
           req' = req, NEW ok \in BOOLEAN, NEW did \in BOOLEAN,
           item(t).name \notin Unsure => ok = did,
           did => Service!Change(req[t].from, item(t).name, item(t).value),
           ~did => UNCHANGED <<current, source>>,
           Record(t, Result(ok, did, TRUE))
    PROVE  Maps
<1>1. /\ Service!Ready(t) /\ ~Service!Malformed(req[t])
      /\ Service!Item(t) = item(t)
    BY ServingReady
<1>2. Service!Record(t, Service!Result(ok, did, TRUE))
    BY DEF Record, Result, Service!Record, Service!Result
<1>3. Service!Set(t)
    BY <1>1, <1>2 DEF Service!Set
<1> QED BY <1>3 DEF Maps, Service!Next

(* An item that is not done, or whose value is kept elsewhere.             *)
LEMMA ElsewhereMaps ==
    ASSUME IInv, NEW t \in Thread, pc[t] \in Serving,
           UNCHANGED stores, req' = req,
           NEW ok \in BOOLEAN, NEW did \in BOOLEAN,
           item(t).name \in Kept => ~did,
           req[t].op = "get" \/ item(t).name \notin Unsure => ok = did,
           Record(t, Result(ok, did, TRUE))
    PROVE  Maps
<1>1. req[t].op \in {"get", "set"}
    BY ServingReady
<1>2. UNCHANGED <<current, source>>
    BY StoresKept
<1>3. CASE req[t].op = "set"
    <2>1. did => Service!Change(req[t].from, item(t).name, item(t).value)
        BY <1>2 DEF Service!Change
    <2> QED BY <1>2, <1>3, <2>1, SetMaps
<1>4. CASE req[t].op = "get"
    <2> DEFINE v == IF did THEN Initial ELSE None
               n == item(t).name
    <2>1. v \in Value \cup {None} /\ (v # None) = did
        BY AskAssumption
    <2>2. (v = None \/ n \notin Kept \/ v = current[n]) = TRUE
        BY <2>1
    <2>3. Record(t, Result(ok, v # None,
                           v = None \/ n \notin Kept \/ v = current[n]))
        <3> HIDE DEF v, n
        <3> QED BY <2>1, <2>2, Zenon
    <2>4. ok = did /\ (n \in Kept => v = None)
        BY <1>4, <2>1
    <2> HIDE DEF v
    <2> QED BY <1>4, <2>1, <2>3, <2>4, GetMaps
<1> QED BY <1>1, <1>3, <1>4

LEMMA RefuseMaps ==
    ASSUME IInv, NEW t \in Thread, Refuse(t)
    PROVE  Maps
<1>1. /\ pc[t] \in Serving /\ UNCHANGED stores /\ req' = req
      /\ Record(t, Result(FALSE, FALSE, TRUE))
    BY DEF Refuse, Serving
<1> QED BY <1>1, ElsewhereMaps

LEMMA VariableMaps ==
    ASSUME IInv, NEW t \in Thread, Variable(t)
    PROVE  Maps
<1>1. PICK ok \in BOOLEAN : Record(t, Result(ok, ok, TRUE))
    BY VariableTold
<1>2. /\ pc[t] \in Serving /\ UNCHANGED stores /\ req' = req
      /\ item(t).name \notin Kept
    BY DEF Variable, Serving, Kept, Boot
<1> QED BY <1>1, <1>2, ElsewhereMaps

LEMMA BusAnswerMaps ==
    ASSUME IInv, NEW t \in Thread, BusAnswer(t)
    PROVE  Maps
<1> DEFINE n == item(t).name
           heard(ok) == ok \/ (n = "Profiles" /\ req[t].op = "set")
<1>1. PICK ok \in BOOLEAN : Record(t, Result(heard(ok), ok, TRUE))
    BY DEF BusAnswer
<1>2. /\ pc[t] \in Serving /\ UNCHANGED stores /\ req' = req /\ n \notin Kept
    BY DEF BusAnswer, Serving, IInv, Looked
<1>3. /\ heard(ok) \in BOOLEAN
      /\ req[t].op = "get" \/ n \notin Unsure => heard(ok) = ok
    BY DEF Unsure
<1> QED BY <1>1, <1>2, <1>3, ElsewhereMaps

(* The store that a manager answers from is that of the name, but for the  *)
(* readers aside.                                                          *)
LEMMA HandleGetMaps ==
    ASSUME IInv, NEW t \in Thread, HandleGet(t)
    PROVE  Maps
<1> DEFINE n == item(t).name
<1>1. PICK v \in Answers(mgr[n], bsUpdate(req[t], n), n) :
          \E heard \in Told(req[t].from, v) :
             Record(t, Result(heard, v # None, Fresh(n, v)))
    BY DEF HandleGet
<1>2. PICK heard \in Told(req[t].from, v) :
          Record(t, Result(heard, v # None, Fresh(n, v)))
    BY <1>1
<1>3. /\ pc[t] \in Serving /\ req' = req
      /\ req[t].op = "get" /\ UNCHANGED stores
    BY DEF HandleGet, Serving
<1>4. Types
    BY DEF IInv
<1>5. n \in Kept => v \in {current[n], None} \/ (n \in Boot /\ Aside(req[t]))
    <2> SUFFICES ASSUME n \in Kept, v # None, n \in Boot => ~Aside(req[t])
                 PROVE  v = current[n]
        OBVIOUS
    <2>1. /\ n \in Boot /\ ~Aside(req[t]) => v = boot[n]
          /\ n \in RfcName /\ (n \in Boot => Aside(req[t])) => v = rfc[n]
          /\ n = "PartnerId" => v = own[n]
        BY <1>1, <1>3, <1>4, AnswersFrom
    <2> HIDE DEF n
    <2> QED BY <2>1, NamesDistinct DEF current
<1>6. v \in Value \cup {None}
    BY <1>1, <1>4, AnswersTyped
<1>7. /\ heard \in BOOLEAN
      /\ v # None => heard
      /\ heard => v # None \/ req[t].from = "rbus"
    BY <1>2, ToldTyped
<1>8. Record(t, Result(heard, v # None,
                       v = None \/ n \notin Kept \/ v = current[n]))
    BY <1>2, Zenon DEF Fresh
<1> QED BY <1>3, <1>5, <1>6, <1>7, <1>8, GetMaps

(* A set that the manager has done changes what the name's readers get, or *)
(* is put aside.                                                           *)
LEMMA HandleSetMaps ==
    ASSUME IInv, NEW t \in Thread, HandleSet(t)
    PROVE  Maps
<1> DEFINE n == item(t).name
           v == item(t).value
           from == req[t].from
<1>1. Types /\ Shared /\ Agree /\ Progress(t) /\ Looked(t)
    BY TypesParts DEF IInv
<1>2. /\ pc[t] = "handler" /\ req[t].op = "set" /\ v \in Value
      /\ \/ n \in Boot /\ SetBoot(t, n, v)
         \/ /\ n \in RfcName /\ SetRfc(t, n, v)
            /\ n \in Boot => from = "iarm"
         \/ n = "PartnerId" /\ SetOwn(t, n, v)
         \/ NoSet(t, "none") \/ NoSet(t, "not writable")
    BY <1>1, SetCases
<1>3. pc[t] \in Serving /\ req' = req
    BY DEF HandleSet, Serving
<1>4. ASSUME NEW ok \in BOOLEAN, NEW did \in BOOLEAN, NEW fault,
             Returned(t, ok, fault, did), ok => fault = "none",
             n \notin Unsure => ok = did,
             did => Service!Change(from, n, v),
             ~did => UNCHANGED <<current, source>>
      PROVE  Maps
    <2>1. Status(from, IF ok THEN "OK" ELSE "NOK", fault) = ok
        BY <1>4 DEF Status
    <2>2. Record(t, Result(ok, did, TRUE))
        BY <1>4, <2>1 DEF Returned
    <2> HIDE DEF n, v, from
    <2> QED BY <1>2, <1>3, <1>4, <2>2, SetMaps DEF n, v, from
<1> HIDE DEF n, v
<1>5. CASE n \in Boot /\ SetBoot(t, n, v)
    <2>1. PICK did \in IF Overrides(n, requestor(from)) THEN BOOLEAN ELSE {FALSE} :
             /\ boot' = IF did THEN [boot EXCEPT ![n] = v] ELSE boot
             /\ source' = IF did THEN [source EXCEPT ![n] = requestor(from)]
                          ELSE source
             /\ Returned(t, did \/ n = "DNSText", "none", did)
             /\ UNCHANGED <<rfc, own>>
        BY <1>5 DEF SetBoot
    <2>2. /\ did \in BOOLEAN /\ (did \/ n = "DNSText") \in BOOLEAN
          /\ n \notin Unsure => (did \/ n = "DNSText") = did
        BY <2>1 DEF Unsure
    <2>3. ASSUME did
          PROVE  Service!Change(from, n, v)
        <3>1. Overrides(n, requestor(from))
            BY <2>1, <2>3
        <3>2. /\ Service!MayClaim(from, n)
              /\ requestor(from) = Service!Claimant(from)
            BY <3>1 DEF Overrides, requestor, Service!MayClaim, Service!Claimant
        <3>3. Service!Keep(n, v)
            BY <1>1, <1>2, <1>5, <2>1, <2>3, BootCurrent DEF Service!Keep
        <3> QED BY <1>5, <2>1, <2>3, <3>2, <3>3 DEF Service!Change
    <2>4. ~did => UNCHANGED <<current, source>>
        BY <2>1, StoresKept DEF stores
    <2> QED BY <1>4, <2>1, <2>2, <2>3, <2>4
<1>6. CASE /\ n \in RfcName /\ SetRfc(t, n, v)
           /\ n \in Boot => from = "iarm"
    <2>1. PICK did \in BOOLEAN, acted \in BOOLEAN :
             /\ n # "Hdr" => acted = did
             /\ rfc' = IF did THEN [rfc EXCEPT ![n] = v] ELSE rfc
             /\ Returned(t, acted, "none", did)
             /\ UNCHANGED <<boot, source, own>>
        BY <1>6 DEF SetRfc
    <2>2. n \notin Unsure => acted = did
        BY <2>1 DEF Unsure
    <2>3. ASSUME did
          PROVE  Service!Change(from, n, v)
        <3>1. n \in Kept
            BY <1>6, NamesDistinct
        <3>2. current' = IF n \in Boot THEN current ELSE [current EXCEPT ![n] = v]
            BY <1>1, <1>2, <1>6, <2>1, <2>3, RfcCurrent
        <3>3. CASE n \in Boot
            BY <1>6, <2>1, <3>2, <3>3 DEF Service!Change
        <3>4. CASE n \notin Boot
            BY <1>2, <2>1, <3>1, <3>2, <3>4 DEF Service!Change, Service!Keep
        <3> QED BY <3>3, <3>4
    <2>4. ~did => UNCHANGED <<current, source>>
        BY <2>1, StoresKept DEF stores
    <2> QED BY <1>4, <2>1, <2>2, <2>3, <2>4
<1>7. CASE n = "PartnerId" /\ SetOwn(t, n, v)
    <2>1. PICK did \in BOOLEAN :
             /\ own' = IF did THEN [own EXCEPT ![n] = v] ELSE own
             /\ Returned(t, did, "none", did)
             /\ UNCHANGED <<boot, source, rfc>>
        BY <1>7 DEF SetOwn
    <2>2. ASSUME did
          PROVE  Service!Change(from, n, v)
        <3>1. n \in Kept \ Boot
            BY <1>7, NamesDistinct
        <3>2. current' = [current EXCEPT ![n] = v]
            BY <1>1, <1>2, <1>7, <2>1, <2>2, OwnCurrent
        <3> QED BY <1>2, <2>1, <3>1, <3>2 DEF Service!Change, Service!Keep
    <2>3. ~did => UNCHANGED <<current, source>>
        BY <2>1, StoresKept DEF stores
    <2> QED BY <1>4, <2>1, <2>2, <2>3
<1>8. CASE NoSet(t, "none") \/ NoSet(t, "not writable")
    <2>1. PICK fault \in {"none", "not writable"} : Returned(t, FALSE, fault, FALSE)
        BY <1>8 DEF NoSet
    <2>2. UNCHANGED <<current, source>>
        BY <1>8, StoresKept DEF NoSet
    <2> QED BY <1>4, <2>1, <2>2
<1> QED BY <1>2, <1>5, <1>6, <1>7, <1>8

LEMMA ArriveMaps ==
    ASSUME IInv, NEW r \in Ask, Arrive(r)
    PROVE  Maps
<1> DEFINE t == thread(r.from)
<1>1. t \in Thread
    BY AskAssumption DEF From, Thread, thread
<1>2. req[t] = NoReq
    BY <1>1 DEF Arrive, IInv, Progress
<1>3. UNCHANGED <<current, source>>
    BY StoresKept DEF Arrive
<1>4. Service!Take(t)
    BY <1>2, <1>3 DEF Arrive, Service!Take
<1> QED BY <1>1, <1>4 DEF Maps, Service!Next

LEMMA AnswerMaps ==
    ASSUME IInv, NEW t \in Thread, Answer(t)
    PROVE  Maps
<1>1. Asked(t) /\ Len(res[t]) = Len(req[t].items)
    BY DEF Answer, IInv, Progress
<1>2. req[t] # NoReq
    BY <1>1 DEF Asked, NoReq, None
<1>3. UNCHANGED <<current, source>>
    BY StoresKept DEF Answer
<1>4. Service!Reply(t)
    BY <1>1, <1>2, <1>3 DEF Answer, Service!Reply, Service!Served
<1> QED BY <1>4 DEF Maps, Service!Next

LEMMA ValidateMaps ==
    ASSUME IInv, NEW t \in Thread, Validate(t)
    PROVE  Maps
<1> DEFINE refused == \E k \in DOMAIN req[t].items : Invalid(req[t].items[k])
<1>1. /\ res[t] = <<>> /\ req[t].op = "set" /\ req[t].from = "webpa"
      /\ UNCHANGED <<stores, req>>
    BY DEF Validate, IInv, Progress, Unserved
<1>2. CASE ~refused
    <2>1. res' = res
        BY <1>2 DEF Validate
    <2> QED BY <1>1, <2>1, UnseenMaps
<1>3. CASE refused
    <2>1. Service!Malformed(req[t])
        BY <1>1, <1>3 DEF Invalid, Service!Malformed
    <2>2. res' = [res EXCEPT ![t] = [k \in DOMAIN req[t].items |->
                                        Service!Result(k # 1, FALSE, TRUE)]]
        BY <1>3 DEF Validate, Result, Service!Result
    <2>3. Service!RefuseAll(t)
        BY <1>1, <2>1, <2>2, StoresKept DEF Service!RefuseAll
    <2> QED BY <2>3 DEF Maps, Service!Next
<1> QED BY <1>2, <1>3

LEMMA ThreadMaps ==
    ASSUME IInv, NEW t \in Thread, Serve(t)
    PROVE  Maps
<1>1. CASE Reason(t) \/ Post(t) \/ Enter(t) \/ Forward(t)
    <2>1. UNCHANGED <<stores, req, res>>
        BY <1>1 DEF Reason, Post, Enter, Forward
    <2> QED BY <2>1, UnseenMaps
<1> QED BY <1>1, RefuseMaps, VariableMaps, BusAnswerMaps, HandleGetMaps,
           HandleSetMaps, AnswerMaps, ValidateMaps DEF Serve

LEMMA StepMaps ==
    ASSUME IInv, [Next]_vars
    PROVE  Maps
<1>1. CASE OpenRbus \/ UNCHANGED vars
    <2>1. UNCHANGED <<stores, req, res>>
        BY <1>1 DEF OpenRbus, vars
    <2> QED BY <2>1, UnseenMaps
<1> QED BY <1>1, ArriveMaps, ThreadMaps DEF Next

LEMMA InitMaps ==
    ASSUME Init
    PROVE  Service!Init
<1>1. IInv
    BY InitIInv
<1>2. current \in [Kept -> Value \cup {None}]
    BY <1>1, CurrentTyped, TypesParts DEF IInv
<1> QED BY <1>2 DEF Init, Service!Init

(* A request, whatever its way in, is one to Parameters: each item has one *)
(* outcome, of one step, which its client is told and later readers see.   *)
THEOREM ImplementsService == Spec => ServiceSpec
<1>1. Init => Service!Init
    BY InitMaps
<1>2. IInv /\ [Next]_vars => [Service!Next]_(Service!vars)
    BY StepMaps DEF Maps
<1> QED BY <1>1, <1>2, Inductive, PTL DEF Spec, ServiceSpec, Service!Spec

-----------------------------------------------------------------------------
(* The data model.  Requests takes it to be loaded when a request is       *)
(* served; the rest is about the process, HostIfMain, which sees to it.    *)

(* Who has come past the data model has it, and so has who serves.         *)
Loaded ==
    /\ main \notin {"config", "bus", "dataModel", "exited"} => dataModel
    /\ parodus \in {"connect", "test", "receive"} => dataModel
    /\ busy # {} => dataModel

(* The notification is sent once by the polls and once by the watch.       *)
Counted ==
    /\ main \in {"config", "bus", "dataModel", "json", "http", "parodus",
                 "check", "wait", "ready"} => monitor = "none"
    /\ monitor = "none" => told = 0 /\ polls = 0
    /\ monitor = "asleep" => told = 0 /\ polls < MaxPolls
    /\ monitor = "watch" => told <= 1

PInv == MainTypeOK /\ Loaded /\ Counted

LEMMA ProcessMain ==
    ASSUME PInv, Main
    PROVE  PInv'
<1> USE BoundsAssumption DEF BoundsAssumption, PInv, MainTypeOK, Loaded, Counted,
        Then, MainSteps, start, servers, client,
        notice, signal
<1>1. CASE ReadManagers
    BY <1>1 DEF ReadManagers
<1>2. CASE StartBus
    BY <1>2 DEF StartBus
<1>3. CASE LoadDataModel
    <2>1. dataModel' \in BOOLEAN
        BY <1>3 DEF LoadDataModel
    <2>2. MainTypeOK'
        BY <1>3, <2>1 DEF LoadDataModel
    <2>3. Loaded'
        BY <1>3 DEF LoadDataModel
    <2>4. Counted'
        BY <1>3 DEF LoadDataModel
    <2> QED BY <2>2, <2>3, <2>4
<1>4. CASE StartJson
    BY <1>4 DEF StartJson
<1>5. CASE StartHttp
    BY <1>5 DEF StartHttp
<1>6. CASE StartParodus
    BY <1>6 DEF StartParodus
<1>7. CASE CheckHttp
    BY <1>7 DEF CheckHttp
<1>8. CASE WaitHttp
    BY <1>8 DEF WaitHttp
<1>9. CASE SendReady
    BY <1>9 DEF SendReady
<1>10. CASE RunLoop
    BY <1>10 DEF RunLoop
<1>11. CASE LeaveLoop
    BY <1>11 DEF LeaveLoop
<1>12. CASE JoinJson
    BY <1>12 DEF JoinJson
<1>13. CASE JoinHttp
    BY <1>13 DEF JoinHttp
<1>14. CASE JoinParodus
    BY <1>14 DEF JoinParodus
<1> QED BY <1>1, <1>2, <1>3, <1>4, <1>5, <1>6, <1>7, <1>8, <1>9, <1>10, <1>11,
           <1>12, <1>13, <1>14 DEF Main

LEMMA ProcessThreads ==
    ASSUME PInv, Started
    PROVE  PInv'
<1> USE BoundsAssumption DEF BoundsAssumption, PInv, MainTypeOK, Loaded, Counted,
        start, servers, client, notice, signal
<1>1. CASE JsonThread
    BY <1>1 DEF JsonThread
<1>2. CASE CreateServer
    BY <1>2 DEF CreateServer
<1>3. CASE Listen
    BY <1>3 DEF Listen
<1>4. CASE FlagDone
    BY <1>4 DEF FlagDone
<1>5. CASE EnterClient
    BY <1>5 DEF EnterClient
<1>6. CASE Connect
    <2>1. startTime' \in BOOLEAN
        BY <1>6 DEF Connect
    <2>2. MainTypeOK'
        BY <1>6, <2>1 DEF Connect
    <2>3. Loaded'
        BY <1>6 DEF Connect
    <2>4. Counted'
        BY <1>6 DEF Connect
    <2> QED BY <2>2, <2>3, <2>4
<1>7. CASE TestExit
    BY <1>7 DEF TestExit
<1>8. CASE ReceiveTimeout
    BY <1>8 DEF ReceiveTimeout
<1>9. CASE Poll
    BY <1>9 DEF Poll
<1>10. CASE Touch
    BY <1>10 DEF Touch
<1> QED BY <1>1, <1>2, <1>3, <1>4, <1>5, <1>6, <1>7, <1>8, <1>9, <1>10
        DEF Started

LEMMA ProcessShutdown ==
    ASSUME PInv, Shutdown
    PROVE  PInv'
<1> USE BoundsAssumption DEF BoundsAssumption, PInv, MainTypeOK, Loaded, Counted,
        ShutStep, start, servers, client, notice
<1>1. CASE WakeShutdown
    BY <1>1 DEF WakeShutdown
<1>2. CASE StopParodus
    BY <1>2 DEF StopParodus
<1>3. CASE StopJson
    BY <1>3 DEF StopJson
<1>4. CASE FreeTable
    BY <1>4 DEF FreeTable
<1>5. CASE ClearTable
    BY <1>5 DEF ClearTable
<1>6. CASE StopBus
    <2>1. bus' \in BOOLEAN
        BY <1>6 DEF StopBus
    <2>2. MainTypeOK'
        BY <1>6, <2>1 DEF StopBus
    <2>3. Loaded'
        BY <1>6 DEF StopBus
    <2>4. Counted'
        BY <1>6 DEF StopBus
    <2> QED BY <2>2, <2>3, <2>4
<1>7. CASE QuitLoop
    <2>1. running' \in BOOLEAN
        BY <1>7 DEF QuitLoop
    <2>2. MainTypeOK'
        BY <1>7, <2>1 DEF QuitLoop
    <2>3. Loaded'
        BY <1>7 DEF QuitLoop
    <2>4. Counted'
        BY <1>7 DEF QuitLoop
    <2> QED BY <2>2, <2>3, <2>4
<1>8. CASE StopHttp
    <2>1. httpServerThreadDone' \in BOOLEAN
        BY <1>8 DEF StopHttp
    <2>2. MainTypeOK'
        BY <1>8, <2>1 DEF StopHttp
    <2>3. Loaded'
        BY <1>8 DEF StopHttp
    <2>4. Counted'
        BY <1>8 DEF StopHttp
    <2> QED BY <2>2, <2>3, <2>4
<1> QED BY <1>1, <1>2, <1>3, <1>4, <1>5, <1>6, <1>7, <1>8 DEF Shutdown

(* A request is begun by the thread of the client, which has looked for    *)
(* the data model, or in the main loop.                                    *)
LEMMA ProcessRequest ==
    ASSUME PInv, NEW s \in Source,
           Request(s) \/ EndRequest(s)
    PROVE  PInv'
<1> USE BoundsAssumption DEF BoundsAssumption, PInv, MainTypeOK, Loaded, Counted, Source, start,
        servers, client, notice, signal
<1>1. CASE Request(s)
    <2>1. dataModel
        BY <1>1 DEF Request, Receives
    <2> QED BY <1>1, <2>1 DEF Request
<1>2. CASE EndRequest(s)
    BY <1>2 DEF EndRequest
<1> QED BY <1>1, <1>2

LEMMA ProcessStep ==
    ASSUME PInv, [MainNext]_mainVars
    PROVE  PInv'
<1>1. CASE QuitHandler
    BY <1>1, BoundsAssumption DEF BoundsAssumption, QuitHandler, PInv, MainTypeOK, Loaded, Counted, start,
        servers, client, notice
<1>2. CASE UNCHANGED mainVars
    BY <1>2 DEF PInv, MainTypeOK, Loaded, Counted, mainVars, start,
        servers, client, notice, signal
<1> QED BY <1>1, <1>2, ProcessMain, ProcessThreads, ProcessShutdown, ProcessRequest
        DEF MainNext, Exited

LEMMA ProcessAlways == MainSpec => []PInv
<1>1. MainInit => PInv
    <2> SUFFICES ASSUME MainInit PROVE PInv
        OBVIOUS
    <2>1. {bus, dataModel, httpServerThreadDone, running, exit_parodus_recv, startTime}
            \subseteq BOOLEAN
        BY DEF MainInit
    <2>2. MainTypeOK
        BY <2>1, BoundsAssumption DEF BoundsAssumption, MainInit, MainTypeOK, MainSteps
    <2>3. Loaded
        BY DEF MainInit, Loaded
    <2>4. Counted
        BY DEF MainInit, Counted
    <2> QED BY <2>2, <2>3, <2>4 DEF PInv
<1> QED BY <1>1, ProcessStep, PTL DEF MainSpec

(* The variables of the process keep their types; above all, the           *)
(* manageable notification is sent twice at most, whatever the signals,    *)
(* the touches and the polls.                                              *)
THEOREM ProcessTypes == MainSpec => []MainTypeOK
<1>1. PInv => MainTypeOK
    BY DEF PInv
<1> QED BY <1>1, ProcessAlways, PTL

(* No request is processed without the data model that validates it,       *)
(* however late it comes in a shutdown.                                    *)
THEOREM AlwaysWithModel == MainSpec => []ServedWithModel
<1>1. PInv => ServedWithModel
    BY DEF PInv, Loaded, ServedWithModel
<1> QED BY <1>1, ProcessAlways, PTL
=============================================================================
