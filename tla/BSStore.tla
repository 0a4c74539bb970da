------------------------------ MODULE BSStore ------------------------------
(***************************************************************************)
(* The bootstrap store: XBSStore (the parameter cache and its .ini file),  *)
(* XBSStoreJournal (who set each parameter last, and the firmware default  *)
(* to go back to) and the thread that asks the authentication service for  *)
(* the partner id.  A partner's defaults come from a JSON file that is     *)
(* part of the firmware; RFC and WebPA may override them, WebPA winning    *)
(* over RFC and RFC over the firmware.                                     *)
(*                                                                         *)
(* A step is the code between two points where another thread may run or   *)
(* the process may die: every rewrite of a file ends a step.  `mtx' is the *)
(* store's recursive mutex.  ClearDB, ClearDBEnd and call_loadJson work    *)
(* without it, as in the code.                                             *)
(***************************************************************************)
EXTENDS FiniteSets

CONSTANTS
    Param,          \* bootstrap parameters other than the partner id
    PID,            \* Device.DeviceInfo.X_RDKCENTRAL-COM_Syndication.PartnerId
    Value,          \* values a parameter may be given
    Lower,          \* a value without its case, which strcasecmp compares
    Partner,        \* partner ids, with a section of the JSON files or not
    DefaultPartner, \* the section called "default"
    Firmware,       \* firmware images the box may boot
    Generic,        \* partners_defaults.json of each image
    Device,         \* partners_defaults_device.json of each image
    IoOutcomes,     \* what opening a file for writing may return
    None,           \* no value: the key is not in the map
    Dash,           \* the "-" the journal writes where it has no value
    NoConfig,       \* a JSON file without a section for a partner
    NoRec,          \* no journal record
    NoCall,         \* no setRawValue in progress
    Free            \* the mutex is not held

Keys == Param \union {PID}
Data == Value \union Partner \union {Dash}
PConf == [Param -> Value \union {None}]
Threads == {"set", "get", "partner"}
Sources == {"DEFAULT", "RFC", "WEBPA"}
Requestors == {"RFC", "WEBPA", "IARM"}

Record == [fwValue : Data, updatedValue : Data, source : Sources, clearRfc : BOOLEAN]

(* The setRawValue a thread is in the middle of, and where it goes next.   *)
Call == [key : Keys, value : Data, source : Sources,
         next : {"idle", "load", "loadJson", "reload"}]

(* Where a thread may be.  "wroteIni" and "journal" are both before the    *)
(* journal update, after a rewrite of the .ini file and without one.       *)
Labels == {"idle", "off", "checked", "wroteIni", "journal", "load", "loadJson",
           "loadJournal", "endClear", "endJournal", "query", "change",
           "resetJournal", "setId", "reload", "changed", "done"}

ASSUME ConstantsAssumption ==
    /\ PID \notin Param
    /\ None \notin Data
    /\ Dash \notin Value \union Partner
    /\ DefaultPartner \in Partner
    /\ NoRec \notin Record
    /\ NoCall \notin Call
    /\ NoConfig \notin PConf
    /\ Free \notin Threads
    /\ IoOutcomes \subseteq BOOLEAN
    /\ DOMAIN Lower = Data
    /\ Generic \in [Firmware -> [Partner -> PConf \union {NoConfig}]]
    /\ Device \in [Firmware -> [Partner -> PConf \union {NoConfig}]]

VARIABLES
    firmware,   \* the image that is running
    auth,       \* the partner id the authentication service answers
    dict,       \* XBSStore::m_dict
    ini,        \* the bootstrap .ini file
    jrn,        \* XBSStoreJournal::m_dict
    jfile,      \* the journal file
    initDone,   \* XBSStore::m_initDone
    rfcUpdate,  \* XBSStore::m_rfcUpdateInProgress
    mtx,        \* XBSStore::mtx, its holder
    pc,         \* where each thread is
    call,       \* its setRawValue in progress
    todo,       \* the part of the JSON section it has still to go through
    newPid,     \* the partner id the partner thread was answered
    iniOpen,    \* clearRfcValues has the current .ini file open
    stopped     \* XBSStore::m_stopped

vars == <<firmware, auth, dict, ini, jrn, jfile, initDone, rfcUpdate, mtx,
          pc, call, todo, newPid, iniOpen, stopped>>
store == <<dict, ini>>
journal == <<jrn, jfile>>
env == <<firmware, auth, stopped>>

-----------------------------------------------------------------------------
(* Helpers.                                                                *)

Empty == [k \in Keys |-> None]
EmptyJournal == [k \in Keys |-> NoRec]

(* getJournalSource: HOSTIF_NONE for a key without a record.               *)
Source(j, k) == IF j[k] = NoRec THEN "NONE" ELSE j[k].source

(* What the journal file keeps of the records: all but clearRfc.           *)
Persisted(j) ==
    [k \in Keys |-> IF j[k] = NoRec THEN NoRec ELSE [j[k] EXCEPT !.clearRfc = FALSE]]

Section(json, p) ==
    IF p \in Partner /\ json[p] # NoConfig THEN json[p] ELSE json[DefaultPartner]

(* The device's own JSON section goes over the generic one, key by key.    *)
PartnerConfig(f, p) ==
    LET generic == Section(Generic[f], p)
        device  == Section(Device[f], p)
    IN IF generic = NoConfig \/ device = NoConfig THEN generic
       ELSE [k \in Param |-> IF device[k] # None THEN device[k] ELSE generic[k]]

NothingToDo == [k \in Param |-> None]

(* Mutant: an override leaves the mark of the RFC run in progress.         *)
NewRecordsKeepMark(j, k, v, src) ==
    {[fwValue |-> IF j[k] = NoRec THEN Dash ELSE j[k].fwValue, updatedValue |-> v,
      source |-> src, clearRfc |-> j[k] # NoRec /\ j[k].clearRfc]}

(* setJournalValue: the record key k has once it is set to v by src.       *)
NewRecords(j, k, v, src) ==
    IF src = "DEFAULT"
    THEN IF j[k] = NoRec
         THEN {[fwValue |-> v, updatedValue |-> Dash, source |-> src, clearRfc |-> b] :
                 b \in BOOLEAN}                     \* clearRfc is left uninitialised
         ELSE {[j[k] EXCEPT !.fwValue = v]}
    ELSE {[fwValue |-> IF j[k] = NoRec THEN Dash ELSE j[k].fwValue,
           updatedValue |-> v, source |-> src, clearRfc |-> FALSE]}

(* resetClearRfc: the parameter was sent again, do not revert it.          *)
ResetClearRfc(j, k) ==
    IF j[k] = NoRec THEN j ELSE [j EXCEPT ![k].clearRfc = FALSE]

(* The mutex is free for thread t, which may already hold it.              *)
CanLock(t) == mtx \in {Free, t}

(* Mutant: an early return does not unlock.                                *)
GotoLocked(t, l) == pc' = [pc EXCEPT ![t] = l] /\ UNCHANGED mtx

(* Thread t goes to label l; going back to a label outside mtx frees it.   *)
Goto(t, l) ==
    /\ pc' = [pc EXCEPT ![t] = l]
    /\ mtx' = IF mtx = t /\ l \in {"idle", "loadJson", "changed"} THEN Free ELSE mtx

-----------------------------------------------------------------------------
(* setRawValue up to its journal update, by thread t, with the journal     *)
(* update as a step of its own.  Only overrideValue looks at what it       *)
(* returns: a partner id that could not be stored does not reach           *)
(* call_loadJson.                                                          *)

SameValue(k, v) == dict[k] # None /\ Lower[dict[k]] = Lower[v]

(* Mutant: a new default overwrites an override.                           *)
KeepNothing(k, src) == FALSE

KeepActive(k, src) == src = "DEFAULT" /\ Source(jrn, k) \in {"RFC", "WEBPA"}

Locked(t, next) == IF next = "load" THEN mtx ELSE t

SetRawValue(t, k, v, src, next) ==
    LET update == [key |-> k, value |-> v, source |-> src, next |-> next]
    IN \/ /\ SameValue(k, v) /\ src = Source(jrn, k)
          /\ Goto(t, next)
          /\ UNCHANGED <<store, call>>
       \/ /\ ~SameValue(k, v) /\ ~KeepActive(k, src) /\ FALSE \in IoOutcomes
          /\ Goto(t, IF next = "loadJson" THEN "idle" ELSE next)
          /\ UNCHANGED <<store, call>>
       \/ /\ \/ SameValue(k, v) /\ src # Source(jrn, k)
             \/ ~SameValue(k, v) /\ KeepActive(k, src)
          /\ call' = [call EXCEPT ![t] = update]
          /\ pc' = [pc EXCEPT ![t] = "journal"]
          /\ mtx' = Locked(t, next)
          /\ UNCHANGED store
       \/ /\ ~SameValue(k, v) /\ ~KeepActive(k, src) /\ TRUE \in IoOutcomes
          /\ dict' = [dict EXCEPT ![k] = v]
          /\ ini' = dict'
          /\ call' = [call EXCEPT ![t] = update]
          /\ pc' = [pc EXCEPT ![t] = "wroteIni"]
          /\ mtx' = Locked(t, next)

(* The journals setJournalValue may leave, for the update t is in.         *)
NewJournals(t) ==
    IF call[t] = NoCall THEN {jrn}
    ELSE {[jrn EXCEPT ![call[t].key] = r] :
            r \in NewRecords(jrn, call[t].key, call[t].value, call[t].source)}

(* Mutant: the memory takes over what could not be written.                *)
SetJournalAnyway(t) ==
    /\ pc[t] \in {"wroteIni", "journal"}
    /\ jrn' \in NewJournals(t)
    /\ \/ TRUE \in IoOutcomes /\ jfile' = Persisted(jrn')
       \/ FALSE \in IoOutcomes /\ UNCHANGED jfile
    /\ call' = [call EXCEPT ![t] = NoCall]
    /\ Goto(t, call[t].next)
    /\ UNCHANGED <<env, store, initDone, rfcUpdate, todo, newPid, iniOpen>>

SetJournalValue(t) ==
    /\ pc[t] \in {"wroteIni", "journal"}
    /\ \/ /\ TRUE \in IoOutcomes
          /\ jrn' \in NewJournals(t)
          /\ jfile' = Persisted(jrn')
       \/ FALSE \in IoOutcomes /\ UNCHANGED journal
    /\ call' = [call EXCEPT ![t] = NoCall]
    /\ Goto(t, call[t].next)
    /\ UNCHANGED <<env, store, initDone, rfcUpdate, todo, newPid, iniOpen>>

-----------------------------------------------------------------------------
(* init and loadFromJson.                                                  *)

(* The load of thread t is over: init leaves m_initDone = ok and frees the *)
(* mutex, call_loadJson, which does not hold it, only returns.  The first  *)
(* load is the constructor's; the partner thread starts after it.          *)
LoadOver(t, locked, ok) ==
    /\ initDone' = IF locked THEN ok ELSE initDone
    /\ mtx' = IF locked THEN Free ELSE mtx
    /\ pc' = [pc EXCEPT ![t] = IF t = "partner" THEN "changed" ELSE "idle",
                        !["partner"] = IF @ = "off" THEN "query" ELSE @]

(* loadFromJson from the cache d, up to the loop over the JSON section: a  *)
(* default that is no longer in the section is dropped first.              *)
LoadFromJson(t, d, locked) ==
    LET config == IF d[PID] = None THEN NoConfig ELSE PartnerConfig(firmware, d[PID])
        gone   == {k \in Param : d[k] # None /\ config[k] = None
                                             /\ Source(jrn, k) = "DEFAULT"}
        kept   == [k \in Keys |-> IF k \in gone THEN None ELSE d[k]]
        Loop(l) == /\ todo' = [todo EXCEPT ![t] = config]
                   /\ pc' = [pc EXCEPT ![t] = l]
                   /\ mtx' = IF locked THEN t ELSE mtx
                   /\ UNCHANGED initDone
    IN /\ UNCHANGED <<env, jfile, rfcUpdate, call, newPid, iniOpen>>
       /\ \/ /\ config = NoConfig
             /\ dict' = d
             /\ LoadOver(t, locked, FALSE)
             /\ UNCHANGED <<ini, jrn, todo>>
          \/ /\ config # NoConfig /\ gone = {}
             /\ dict' = d
             /\ Loop("load")
             /\ UNCHANGED <<ini, jrn>>
          \/ /\ config # NoConfig /\ gone # {}
             /\ dict' = kept
             /\ jrn' = [k \in Keys |-> IF k \in gone THEN NoRec ELSE jrn[k]]
             /\ \/ TRUE \in IoOutcomes /\ ini' = kept /\ Loop("loadJournal")
                \/ /\ FALSE \in IoOutcomes
                   /\ LoadOver(t, locked, FALSE)
                   /\ UNCHANGED <<ini, todo>>

(* init of a getValue, an overrideValue or, for the partner thread, after  *)
(* the partner changed: the cache is reloaded from the file.               *)
Load(t) ==
    /\ ~initDone
    /\ IF t = "partner" THEN pc[t] = "reload" ELSE pc[t] = "idle" /\ CanLock(t)
    /\ LoadFromJson(t, ini, TRUE)

(* call_loadJson: from the cache, without the mutex but for getRawValue.   *)
CallLoadJson ==
    /\ pc["set"] = "loadJson" /\ CanLock("set")
    /\ LoadFromJson("set", dict, FALSE)

(* Mutant: the removals are not saved.                                     *)
RemovalsNotSaved(t) ==
    /\ pc[t] = "loadJournal"
    /\ pc' = [pc EXCEPT ![t] = "load"]
    /\ UNCHANGED <<env, store, journal, initDone, rfcUpdate, mtx, call, todo,
                   newPid, iniOpen>>

(* The journal's rfcUpdateEnd, called to save the removals.                *)
SaveRemovals(t) ==
    /\ pc[t] = "loadJournal"
    /\ \/ TRUE \in IoOutcomes /\ jfile' = Persisted(jrn)
       \/ FALSE \in IoOutcomes /\ UNCHANGED jfile
    /\ pc' = [pc EXCEPT ![t] = "load"]
    /\ UNCHANGED <<env, store, jrn, initDone, rfcUpdate, mtx, call, todo, newPid, iniOpen>>

LoadKey(t, k) ==
    /\ pc[t] = "load" /\ CanLock(t)
    /\ todo[t][k] # None
    /\ SetRawValue(t, k, todo[t][k], "DEFAULT", "load")
    /\ todo' = [todo EXCEPT ![t][k] = None]
    /\ UNCHANGED <<env, journal, initDone, rfcUpdate, newPid, iniOpen>>

LoadEnd(t) ==
    /\ pc[t] = "load"
    /\ todo[t] = NothingToDo
    /\ LoadOver(t, mtx = t, TRUE)
    /\ UNCHANGED <<env, store, journal, rfcUpdate, call, todo, newPid, iniOpen>>

-----------------------------------------------------------------------------
(* overrideValue.  Requests are served one at a time (hostIf_SetMsgHandler *)
(* holds set_handler_mutex), by the thread "set".                          *)

(* init returns true and frees the mutex: what follows may find the store  *)
(* changed by the partner thread.                                          *)
OverrideInit ==
    /\ pc["set"] = "idle"
    /\ initDone /\ CanLock("set")
    /\ pc' = [pc EXCEPT !["set"] = "checked"]
    /\ UNCHANGED <<env, store, journal, initDone, rfcUpdate, mtx, call, todo, newPid, iniOpen>>

(* Mutant: RFC may take a parameter from WebPA.                            *)
SourceUnranked(k, who) == IF who \in {"RFC", "WEBPA"} THEN {who} ELSE {}

(* Who a requestor is for the journal; no source if the rules forbid it.   *)
OverrideSource(k, who) ==
    CASE who = "WEBPA" -> {"WEBPA"}
      [] who = "RFC" /\ Source(jrn, k) # "WEBPA" -> {"RFC"}
      [] OTHER -> {}

OverrideBody(k, v, who, next) ==
    /\ pc["set"] = "checked" /\ CanLock("set")
    /\ \/ /\ OverrideSource(k, who) = {}
          /\ pc' = [pc EXCEPT !["set"] = "idle"]
          /\ UNCHANGED <<store, jrn, mtx, call>>
       \/ \E src \in OverrideSource(k, who) :
             /\ jrn' = IF rfcUpdate THEN ResetClearRfc(jrn, k) ELSE jrn
             /\ SetRawValue("set", k, v, src, next)
    /\ UNCHANGED <<env, jfile, initDone, rfcUpdate, todo, newPid, iniOpen>>

OverrideValue(k, v, who) == OverrideBody(k, v, who, "idle")

(* Setting the partner id tells the authentication service (AuthChange),   *)
(* then overrides the stored id and applies the new section on top of what *)
(* the store holds.                                                        *)
SetPartnerId(p, who) == OverrideBody(PID, p, who, "loadJson")

(* ClearDB: every parameter set by RFC is to be reverted unless RFC sends  *)
(* it again before ClearDBEnd.  Without the mutex.                         *)
ClearDBStart ==
    /\ pc["set"] = "checked"
    /\ rfcUpdate' = TRUE
    /\ jrn' = [k \in Keys |-> IF Source(jrn, k) = "RFC"
                              THEN [jrn[k] EXCEPT !.clearRfc = TRUE] ELSE jrn[k]]
    /\ pc' = [pc EXCEPT !["set"] = "idle"]
    /\ UNCHANGED <<env, store, jfile, initDone, mtx, call, todo, newPid, iniOpen>>

(* ClearDBEnd, without the mutex: clearRfcValues truncates the .ini file,  *)
(* reverts the parameters still marked and writes the file; rfcUpdateEnd   *)
(* writes the journal.                                                     *)
ClearDBEndOpen ==
    /\ pc["set"] = "checked"
    /\ \/ /\ TRUE \in IoOutcomes
          /\ ini' = Empty
          /\ iniOpen' = TRUE
          /\ pc' = [pc EXCEPT !["set"] = "endClear"]
       \/ /\ FALSE \in IoOutcomes
          /\ pc' = [pc EXCEPT !["set"] = "endJournal"]
          /\ UNCHANGED <<ini, iniOpen>>
    /\ UNCHANGED <<env, dict, journal, initDone, rfcUpdate, mtx, call, todo, newPid>>

(* Mutant: a value that is the firmware's anyway is not reverted.          *)
RevertedIfDifferent ==
    {k \in Keys : dict[k] # None /\ jrn[k] # NoRec /\ jrn[k].clearRfc
                  /\ dict[k] # jrn[k].fwValue}

Reverted == {k \in Keys : dict[k] # None /\ jrn[k] # NoRec /\ jrn[k].clearRfc}

(* Mutant: when nothing is to be reverted the truncated file stays empty.  *)
ClearRfcValuesLost ==
    /\ pc["set"] = "endClear"
    /\ dict' = [k \in Keys |-> IF k \in Reverted THEN jrn[k].fwValue ELSE dict[k]]
    /\ jrn' = [k \in Keys |-> IF k \in Reverted
                              THEN [fwValue |-> jrn[k].fwValue, updatedValue |-> Dash,
                                    source |-> "DEFAULT", clearRfc |-> FALSE]
                              ELSE jrn[k]]
    /\ ini' = IF iniOpen /\ Reverted # {} THEN dict' ELSE ini
    /\ iniOpen' = FALSE
    /\ pc' = [pc EXCEPT !["set"] = "endJournal"]
    /\ UNCHANGED <<env, jfile, initDone, rfcUpdate, mtx, call, todo, newPid>>

ClearRfcValues ==
    /\ pc["set"] = "endClear"
    /\ dict' = [k \in Keys |-> IF k \in Reverted THEN jrn[k].fwValue ELSE dict[k]]
    /\ jrn' = [k \in Keys |-> IF k \in Reverted
                              THEN [fwValue |-> jrn[k].fwValue, updatedValue |-> Dash,
                                    source |-> "DEFAULT", clearRfc |-> FALSE]
                              ELSE jrn[k]]
    /\ ini' = IF iniOpen THEN dict' ELSE ini
    /\ iniOpen' = FALSE
    /\ pc' = [pc EXCEPT !["set"] = "endJournal"]
    /\ UNCHANGED <<env, jfile, initDone, rfcUpdate, mtx, call, todo, newPid>>

ClearDBEndDone ==
    /\ pc["set"] = "endJournal"
    /\ \/ TRUE \in IoOutcomes /\ jfile' = Persisted(jrn)
       \/ FALSE \in IoOutcomes /\ UNCHANGED jfile
    /\ rfcUpdate' = FALSE
    /\ pc' = [pc EXCEPT !["set"] = "idle"]
    /\ UNCHANGED <<env, store, jrn, initDone, mtx, call, todo, newPid, iniOpen>>

-----------------------------------------------------------------------------
(* getAuthServicePartnerID.                                                *)

(* The service answers with the stored id, or with an answer that has no   *)
(* partner id in it, and the thread ends; or with another id.  When there  *)
(* is no answer at all the thread sleeps and asks again.                   *)
PartnerQuery ==
    /\ pc["partner"] = "query" /\ ~stopped /\ CanLock("partner")
    /\ \/ /\ auth = dict[PID]
          /\ pc' = [pc EXCEPT !["partner"] = "done"]
          /\ UNCHANGED newPid
       \/ /\ auth # dict[PID]
          /\ newPid' = auth
          /\ pc' = [pc EXCEPT !["partner"] = "change"]
    /\ UNCHANGED <<env, store, journal, initDone, rfcUpdate, mtx, call, todo, iniOpen>>

PartnerBadAnswer ==
    /\ pc["partner"] = "query" /\ ~stopped
    /\ pc' = [pc EXCEPT !["partner"] = "done"]
    /\ UNCHANGED <<env, store, journal, initDone, rfcUpdate, mtx, call, todo, newPid, iniOpen>>

(* Both stores are removed, cache and file: the parameters, then the       *)
(* journal.                                                                *)
PartnerReset ==
    /\ pc["partner"] = "change" /\ CanLock("partner")
    /\ mtx' = "partner"
    /\ dict' = Empty /\ ini' = Empty
    /\ iniOpen' = FALSE
    /\ pc' = [pc EXCEPT !["partner"] = "resetJournal"]
    /\ UNCHANGED <<env, journal, initDone, rfcUpdate, call, todo, newPid>>

PartnerResetJournal ==
    /\ pc["partner"] = "resetJournal"
    /\ jrn' = EmptyJournal /\ jfile' = EmptyJournal
    /\ pc' = [pc EXCEPT !["partner"] = "setId"]
    /\ UNCHANGED <<env, store, initDone, rfcUpdate, mtx, call, todo, newPid, iniOpen>>

(* The id is stored; m_initDone is cleared so that init reloads.           *)
PartnerSetId ==
    /\ pc["partner"] = "setId"
    /\ SetRawValue("partner", PID, newPid, "DEFAULT", "reload")
    /\ initDone' = FALSE
    /\ UNCHANGED <<env, journal, rfcUpdate, todo, newPid, iniOpen>>

(* When no RFC run is in progress the thread starts one and ends.          *)
PartnerRetrieveNow ==
    /\ pc["partner"] = "changed" /\ ~stopped
    /\ pc' = [pc EXCEPT !["partner"] = "done"]
    /\ UNCHANGED <<env, store, journal, initDone, rfcUpdate, mtx, call, todo, newPid, iniOpen>>

PartnerStopped ==
    /\ pc["partner"] \in {"query", "changed"} /\ stopped
    /\ pc' = [pc EXCEPT !["partner"] = "done"]
    /\ UNCHANGED <<env, store, journal, initDone, rfcUpdate, mtx, call, todo, newPid, iniOpen>>

Stop ==
    /\ stopped' = TRUE
    /\ UNCHANGED <<firmware, auth, store, journal, initDone, rfcUpdate, mtx, pc,
                   call, todo, newPid, iniOpen>>

-----------------------------------------------------------------------------
(* The box.                                                                *)

(* The service's partner id changes, by itself or because it is told to.   *)
AuthChange ==
    /\ auth' \in Partner
    /\ UNCHANGED <<firmware, stopped, store, journal, initDone, rfcUpdate, mtx, pc,
                   call, todo, newPid, iniOpen>>

(* Everything in memory is gone; the next boot may be of another image.    *)
(* The journal is read from its file when the store is constructed.        *)
Boot ==
    /\ firmware' \in Firmware
    /\ dict' = Empty
    /\ jrn' = jfile'
    /\ initDone' = FALSE /\ rfcUpdate' = FALSE
    /\ mtx' = Free
    /\ pc' = [t \in Threads |-> IF t = "partner" THEN "off" ELSE "idle"]
    /\ call' = [t \in Threads |-> NoCall]
    /\ todo' = [t \in Threads |-> NothingToDo]
    /\ newPid' = None
    /\ iniOpen' = FALSE
    /\ stopped' = FALSE
    /\ UNCHANGED auth

Quiet == pc["set"] = "idle" /\ pc["get"] = "idle" /\ pc["partner"] = "done"

Restart == Quiet /\ UNCHANGED <<ini, jfile>> /\ Boot

(* The process dies between two steps.                                     *)
Crash == UNCHANGED <<ini, jfile>> /\ Boot

(* The power fails: the file being written is left with some of its lines. *)
Torn(f, missing) == {[k \in Keys |-> IF k \in S THEN missing ELSE f[k]] : S \in SUBSET Keys}

PowerLoss(t) ==
    /\ \/ /\ pc[t] \in {"wroteIni", "loadJournal"}
          /\ ini' \in Torn(ini, None)
          /\ UNCHANGED jfile
       \/ /\ pc[t] \in {"wroteIni", "journal", "loadJournal", "endJournal"}
          /\ \E j \in NewJournals(t) : jfile' \in Torn(Persisted(j), NoRec)
          /\ UNCHANGED ini
    /\ Boot

Init ==
    /\ firmware \in Firmware
    /\ auth \in Partner
    /\ dict = Empty /\ ini = Empty
    /\ jrn = EmptyJournal /\ jfile = EmptyJournal
    /\ initDone = FALSE /\ rfcUpdate = FALSE
    /\ mtx = Free
    /\ pc = [t \in Threads |-> IF t = "partner" THEN "off" ELSE "idle"]
    /\ call = [t \in Threads |-> NoCall]
    /\ todo = [t \in Threads |-> NothingToDo]
    /\ newPid = None
    /\ iniOpen = FALSE
    /\ stopped = FALSE

ThreadStep(t) ==
    \/ Load(t)
    \/ SaveRemovals(t)
    \/ \E k \in Param : LoadKey(t, k)
    \/ LoadEnd(t)
    \/ SetJournalValue(t)

SetStep ==
    \/ OverrideInit
    \/ \E k \in Param, v \in Value, who \in Requestors : OverrideValue(k, v, who)
    \/ \E p \in Partner, who \in Requestors : SetPartnerId(p, who)
    \/ CallLoadJson
    \/ ClearDBStart
    \/ ClearDBEndOpen \/ ClearRfcValues \/ ClearDBEndDone

PartnerStep ==
    \/ PartnerQuery \/ PartnerBadAnswer
    \/ PartnerReset \/ PartnerResetJournal \/ PartnerSetId
    \/ PartnerRetrieveNow \/ PartnerStopped

Next ==
    \/ \E t \in Threads : ThreadStep(t)
    \/ SetStep
    \/ PartnerStep
    \/ Stop
    \/ AuthChange
    \/ Restart

Spec == Init /\ [][Next]_vars

(* The same with processes that die and files that are left half written.  *)
NextCrash == Next \/ Crash
NextPowerLoss == NextCrash \/ \E t \in Threads : PowerLoss(t)
SpecPowerLoss == Init /\ [][NextPowerLoss]_vars

-----------------------------------------------------------------------------
(* Properties.                                                             *)

(* Every variable holds a value of the type the code gives it.             *)
TypeOK ==
    /\ firmware \in Firmware
    /\ auth \in Partner
    /\ dict \in [Keys -> Data \union {None}]
    /\ ini \in [Keys -> Data \union {None}]
    /\ jrn \in [Keys -> Record \union {NoRec}]
    /\ jfile \in [Keys -> Record \union {NoRec}]
    /\ initDone \in BOOLEAN
    /\ rfcUpdate \in BOOLEAN
    /\ mtx \in Threads \union {Free}
    /\ pc \in [Threads -> Labels]
    /\ call \in [Threads -> Call \union {NoCall}]
    /\ todo \in [Threads -> PConf]
    /\ newPid \in Partner \union {None}
    /\ iniOpen \in BOOLEAN
    /\ stopped \in BOOLEAN

(* A parameter WebPA set is never among those ClearDBEnd reverts: an RFC   *)
(* run cannot take back what WebPA set while it was going on.              *)
MarkedNotWebPa ==
    \A k \in Keys : jrn[k] # NoRec /\ jrn[k].clearRfc => jrn[k].source # "WEBPA"

(* Outside an RFC run no parameter RFC set is marked, so a ClearDBEnd      *)
(* reverts only what RFC set before the run and did not send again.  (The  *)
(* partner thread may be about to remove the records, marked or not.)      *)
NoStaleMarks ==
    ~rfcUpdate /\ pc["partner"] # "resetJournal" => \A k \in Keys :
        jrn[k] # NoRec /\ jrn[k].clearRfc => jrn[k].source # "RFC"

(* An update of the cache that has still to reach the journal or a file.   *)
Pending(k) == \E t \in Threads : call[t] # NoCall /\ call[t].key = k

Updating ==
    \E t \in Threads :
        pc[t] \in {"wroteIni", "journal", "load", "loadJournal", "loadJson",
                   "endClear", "endJournal", "resetJournal", "setId", "reload"}

(* The cache, which getValue answers from, and the journal, which decides  *)
(* what survives an RFC run or a new image, agree on every override, but   *)
(* for its case: setting a value again in another case changes the journal *)
(* at most.                                                                *)
OverridesAgree ==
    \A k \in Keys :
        Source(jrn, k) \in {"RFC", "WEBPA"} /\ dict[k] # None /\ ~Pending(k)
            => Lower[dict[k]] = Lower[jrn[k].updatedValue]

(* When no update is under way both files hold what the memory holds: a    *)
(* restart, or a crash, loses nothing.                                     *)
FilesMatch == initDone /\ ~Updating => ini = dict /\ jfile = Persisted(jrn)

(* Whatever cannot be written and wherever the process dies, an override   *)
(* in the journal's memory is in its file: setJournalValue takes over only *)
(* what it can write, and only clearRfcValues and a change of partner, who *)
(* end overrides, run ahead of the file.                                   *)
OverridesSaved ==
    \A k \in Keys : Source(jrn, k) \in {"RFC", "WEBPA"} => jfile[k] = Persisted(jrn)[k]

(* And the value getValue answers is in the .ini file, except while        *)
(* ClearDBEnd has that file open and empty.  The partner thread may remove *)
(* the file under it: what clearRfcValues then reverts in the cache only   *)
(* has the default of the new partner already.                             *)
CacheSaved ==
    pc["set"] # "endClear" => \A k \in Keys : dict[k] # None => ini[k] = dict[k]

(* The journal follows the ownership rules of BSPolicy, whatever the       *)
(* interleaving of the threads, the I/O errors, the crashes and the losses *)
(* of power.                                                               *)
Policy == INSTANCE BSPolicy WITH
    Key   <- Keys,
    owner <- [k \in Keys |-> Source(jrn, k)],
    saved <- [k \in Keys |-> Source(jfile, k)]

PolicySpec == Policy!Spec

(* When the partner thread goes on to have RFC apply its overrides "to the *)
(* new partner configuration", that configuration is in the store.         *)
NewPartnerLoaded ==
    [][pc["partner"] # "changed" /\ pc'["partner"] = "changed"
          => initDone' /\ dict'[PID] = newPid']_vars

ThreadNext(t) ==
    \/ ThreadStep(t)
    \/ t = "set" /\ SetStep
    \/ t = "partner" /\ PartnerStep

(* What a thread does without anybody else: not the start of a request,    *)
(* not the answer of the authentication service, and not the end of the    *)
(* RFC run the partner thread waits for, which leaves it only the end a    *)
(* stop asks for.  getAuthServicePartnerID waits for both in loops without *)
(* a bound.                                                                *)
OwnStep(t) ==
    /\ pc[t] \notin {"idle", "query"}
    /\ pc[t] = "changed" => stopped
    /\ ThreadNext(t)

(* The threads run whenever they can, and a lock that is freed again and   *)
(* again is got in the end.                                                *)
LiveSpec == Spec /\ \A t \in Threads : SF_vars(OwnStep(t))

(* A set and a get that have started end, the partner thread that was      *)
(* answered another partner gets to the end of its reload, and a stop ends *)
(* its wait for RFC: no path leaves the mutex locked, whether or not the   *)
(* service answers and the lock file of RFC goes away.                     *)
RequestsEnd ==
    /\ \A t \in {"set", "get"} : pc[t] # "idle" ~> pc[t] = "idle"
    /\ pc["partner"] \notin {"off", "query", "changed", "done"} ~> pc["partner"] = "changed"
    /\ pc["partner"] = "changed" /\ stopped ~> pc["partner"] = "done"
=============================================================================
