--------------------------- MODULE BSStoreProofs ---------------------------
(***************************************************************************)
(* Proofs about BSStore, for any parameters, partners, images and JSON     *)
(* files: first with I/O errors, crashes and power losses, then, of what   *)
(* needs writes that succeed, without.                                     *)
(***************************************************************************)
EXTENDS BSStore, TLAPS

(* What the type invariant rests on: an update that is to reach the        *)
(* journal is known, and so is the partner id that replaces the stored one.*)
InCall == \A t \in Threads : pc[t] \in {"wroteIni", "journal"} => call[t] # NoCall

Answered == pc["partner"] \in {"change", "resetJournal", "setId"} => newPid \in Partner

IInv == TypeOK /\ InCall /\ Answered

-----------------------------------------------------------------------------
(* What the helpers return.                                                *)

JConf == [Keys -> Record \union {NoRec}]
DConf == [Keys -> Data \union {None}]

LEMMA NewRecordsType ==
    ASSUME NEW j \in JConf, NEW k \in Keys, NEW v \in Data, NEW src \in Sources,
           NEW r \in NewRecords(j, k, v, src)
    PROVE  r \in Record
<1>. j[k] \in Record \union {NoRec}
  BY DEF JConf
<1>. Dash \in Data
  BY DEF Data
<1>1. CASE src = "DEFAULT" /\ j[k] = NoRec
  BY <1>1 DEF NewRecords, Record
<1>2. CASE src = "DEFAULT" /\ j[k] # NoRec
  BY <1>2 DEF NewRecords, Record
<1>3. CASE src # "DEFAULT"
  <2>. DEFINE fw == IF j[k] = NoRec THEN Dash ELSE j[k].fwValue
  <2>1. fw \in Data
    BY DEF Record
  <2>2. r = [fwValue |-> fw, updatedValue |-> v, source |-> src, clearRfc |-> FALSE]
    BY <1>3 DEF NewRecords
  <2>. HIDE DEF fw
  <2>. QED  BY <2>1, <2>2 DEF Record
<1>. QED  BY <1>1, <1>2, <1>3

LEMMA NewJournalsType ==
    ASSUME TypeOK, NEW t \in Threads, NEW j \in NewJournals(t)
    PROVE  j \in JConf
<1>1. CASE call[t] = NoCall
  BY <1>1 DEF TypeOK, NewJournals, JConf
<1>2. CASE call[t] # NoCall
  <2>1. /\ call[t] \in Call
        /\ jrn \in JConf
    BY <1>2 DEF TypeOK, JConf
  <2>2. PICK r \in NewRecords(jrn, call[t].key, call[t].value, call[t].source) :
          j = [jrn EXCEPT ![call[t].key] = r]
    BY <1>2 DEF NewJournals
  <2>3. r \in Record
    BY <2>1, <2>2, NewRecordsType DEF Call
  <2>. QED  BY <2>1, <2>2, <2>3 DEF JConf
<1>. QED  BY <1>1, <1>2

LEMMA PersistedType ==
    ASSUME NEW j \in JConf
    PROVE  Persisted(j) \in JConf
<1>. SUFFICES ASSUME NEW k \in Keys
              PROVE  Persisted(j)[k] \in Record \union {NoRec}
  BY DEF Persisted, JConf
<1>. j[k] \in Record \union {NoRec}
  BY DEF JConf
<1>. QED  BY DEF Persisted, Record

LEMMA PartnerConfigType ==
    ASSUME NEW f \in Firmware, NEW p
    PROVE  PartnerConfig(f, p) \in PConf \union {NoConfig}
<1>. DEFINE generic == Section(Generic[f], p)
            device  == Section(Device[f], p)
<1>1. generic \in PConf \union {NoConfig} /\ device \in PConf \union {NoConfig}
  BY ConstantsAssumption DEF Section, ConstantsAssumption
<1>2. CASE generic = NoConfig \/ device = NoConfig
  BY <1>1, <1>2 DEF PartnerConfig
<1>3. CASE ~(generic = NoConfig \/ device = NoConfig)
  BY <1>1, <1>3 DEF PartnerConfig, PConf
<1>. QED  BY <1>2, <1>3

-----------------------------------------------------------------------------
(* The parts several actions share.                                        *)

LEMMA GotoType ==
    ASSUME IInv, NEW t \in Threads, NEW l \in Labels \ {"change", "resetJournal", "setId"}, Goto(t, l)
    PROVE  /\ pc' \in [Threads -> Labels]
           /\ mtx' \in Threads \union {Free}
           /\ \A u \in Threads \ {t} : pc'[u] = pc[u]
           /\ pc'[t] = l
BY DEF IInv, TypeOK, Goto

LEMMA SetRawValueType ==
    ASSUME IInv, NEW t \in Threads, NEW k \in Keys, NEW v \in Data, NEW src \in Sources,
           NEW next \in {"idle", "load", "loadJson", "reload"},
           SetRawValue(t, k, v, src, next)
    PROVE  /\ dict' \in DConf
           /\ ini' \in DConf
           /\ call' \in [Threads -> Call \union {NoCall}]
           /\ pc' \in [Threads -> Labels]
           /\ mtx' \in Threads \union {Free}
           /\ pc'["partner"] \in {"change", "resetJournal", "setId"} => pc["partner"] \in {"change", "resetJournal", "setId"}
           /\ InCall'
<1>. DEFINE update == [key |-> k, value |-> v, source |-> src, next |-> next]
<1>1. update \in Call /\ update # NoCall
  BY ConstantsAssumption DEF Call, ConstantsAssumption
<1>2. ASSUME UNCHANGED <<store, call>>, NEW l \in {"idle", "load", "loadJson", "reload"},
             Goto(t, l)
      PROVE  /\ dict' \in DConf /\ ini' \in DConf
             /\ call' \in [Threads -> Call \union {NoCall}]
             /\ pc' \in [Threads -> Labels] /\ mtx' \in Threads \union {Free} /\ InCall'
             /\ pc'["partner"] \in {"change", "resetJournal", "setId"} => pc["partner"] \in {"change", "resetJournal", "setId"}
  BY <1>2 DEF Goto, IInv, TypeOK, InCall, DConf, store, Labels
<1>3. CASE /\ call' = [call EXCEPT ![t] = update]
           /\ pc' = [pc EXCEPT ![t] = "journal"]
           /\ mtx' = Locked(t, next)
           /\ UNCHANGED store
  BY <1>1, <1>3 DEF IInv, TypeOK, InCall, DConf, store, Labels, Locked
<1>4. CASE /\ dict' = [dict EXCEPT ![k] = v]
           /\ ini' = dict'
           /\ call' = [call EXCEPT ![t] = update]
           /\ pc' = [pc EXCEPT ![t] = "wroteIni"]
           /\ mtx' = Locked(t, next)
  BY <1>1, <1>4 DEF IInv, TypeOK, InCall, DConf, Labels, Locked
<1>. QED  BY <1>2, <1>3, <1>4 DEF SetRawValue

LEMMA LoadOverType ==
    ASSUME IInv, NEW t \in Threads, NEW locked \in BOOLEAN, NEW ok \in BOOLEAN,
           LoadOver(t, locked, ok), UNCHANGED call
    PROVE  /\ initDone' \in BOOLEAN
           /\ mtx' \in Threads \union {Free}
           /\ pc' \in [Threads -> Labels]
           /\ pc'["partner"] \in {"change", "resetJournal", "setId"} => pc["partner"] \in {"change", "resetJournal", "setId"}
           /\ InCall'
BY DEF IInv, TypeOK, InCall, LoadOver, Labels, Threads

LEMMA LoadFromJsonType ==
    ASSUME IInv, NEW t \in Threads, NEW d \in DConf, NEW locked \in BOOLEAN,
           LoadFromJson(t, d, locked)
    PROVE  IInv'
<1>. DEFINE config == IF d[PID] = None THEN NoConfig ELSE PartnerConfig(firmware, d[PID])
            gone   == {k \in Param : d[k] # None /\ config[k] = None
                                                 /\ Source(jrn, k) = "DEFAULT"}
            kept   == [k \in Keys |-> IF k \in gone THEN None ELSE d[k]]
            Loop(l) == /\ todo' = [todo EXCEPT ![t] = config]
                       /\ pc' = [pc EXCEPT ![t] = l]
                       /\ mtx' = IF locked THEN t ELSE mtx
                       /\ UNCHANGED initDone
<1>1. config \in PConf \union {NoConfig}
  BY PartnerConfigType DEF IInv, TypeOK
<1>2. kept \in DConf
  BY DEF DConf
<1>3. [k \in Keys |-> IF k \in gone THEN NoRec ELSE jrn[k]] \in JConf
  BY DEF IInv, TypeOK, JConf
<1>4. UNCHANGED <<env, jfile, rfcUpdate, call, newPid, iniOpen>>
  BY DEF LoadFromJson
<1>5. CASE config = NoConfig /\ dict' = d /\ LoadOver(t, locked, FALSE)
           /\ UNCHANGED <<ini, jrn, todo>>
  BY <1>4, <1>5, LoadOverType DEF IInv, TypeOK, Answered, DConf, env
<1>6. CASE config # NoConfig /\ dict' = d /\ Loop("load") /\ UNCHANGED <<ini, jrn>>
  <2>1. config \in PConf
    BY <1>1, <1>6
  <2>. HIDE DEF config
  <2>. QED  BY <1>4, <1>6, <2>1 DEF IInv, TypeOK, InCall, Answered, DConf, env, Labels
<1>7. CASE /\ config # NoConfig /\ dict' = kept
           /\ jrn' = [k \in Keys |-> IF k \in gone THEN NoRec ELSE jrn[k]]
           /\ ini' = kept /\ Loop("loadJournal")
  <2>1. config \in PConf
    BY <1>1, <1>7
  <2>2. dict' \in DConf /\ ini' \in DConf /\ jrn' \in JConf
    BY <1>2, <1>3, <1>7
  <2>3. Loop("loadJournal")
    BY <1>7
  <2>. HIDE DEF config
  <2>. QED  BY <1>4, <2>1, <2>2, <2>3
            DEF IInv, TypeOK, InCall, Answered, DConf, JConf, env, Labels
<1>8. CASE /\ config # NoConfig /\ dict' = kept
           /\ jrn' = [k \in Keys |-> IF k \in gone THEN NoRec ELSE jrn[k]]
           /\ LoadOver(t, locked, FALSE) /\ UNCHANGED <<ini, todo>>
  <2>1. dict' \in DConf /\ jrn' \in JConf
    BY <1>2, <1>3, <1>8
  <2>2. LoadOver(t, locked, FALSE) /\ UNCHANGED <<ini, todo>>
    BY <1>8
  <2>. QED  BY <1>4, <2>1, <2>2, LoadOverType
            DEF IInv, TypeOK, Answered, DConf, JConf, env
<1>. QED  BY <1>5, <1>6, <1>7, <1>8 DEF LoadFromJson

-----------------------------------------------------------------------------
(* Every action preserves the invariant.                                   *)

LEMMA ThreadType ==
    ASSUME IInv, NEW t \in Threads, ThreadStep(t)
    PROVE  IInv'
<1>. t \in Threads /\ dict \in DConf /\ ini \in DConf /\ jrn \in JConf
  BY DEF IInv, TypeOK, DConf, JConf
<1>1. CASE Load(t)
  BY <1>1, LoadFromJsonType DEF Load
<1>2. CASE SaveRemovals(t)
  <2>1. jfile' \in JConf
    BY <1>2, PersistedType DEF SaveRemovals, IInv, TypeOK, JConf
  <2>. QED  BY <1>2, <2>1
            DEF SaveRemovals, IInv, TypeOK, InCall, Answered, JConf, env, store, Labels
<1>3. ASSUME NEW k \in Param, LoadKey(t, k)
      PROVE  IInv'
  <2>. DEFINE v == todo[t][k]
  <2>1. v \in Data /\ k \in Keys /\ "DEFAULT" \in Sources
    BY <1>3 DEF LoadKey, IInv, TypeOK, PConf, Data, Keys, Sources
  <2>2. SetRawValue(t, k, v, "DEFAULT", "load")
    BY <1>3 DEF LoadKey
  <2>3. /\ dict' \in DConf /\ ini' \in DConf
        /\ call' \in [Threads -> Call \union {NoCall}]
        /\ pc' \in [Threads -> Labels] /\ mtx' \in Threads \union {Free} /\ InCall'
        /\ pc'["partner"] \in {"change", "resetJournal", "setId"} => pc["partner"] \in {"change", "resetJournal", "setId"}
    BY <2>1, <2>2, SetRawValueType
  <2>4. todo' \in [Threads -> PConf]
    BY <1>3 DEF LoadKey, IInv, TypeOK, PConf
  <2>. QED  BY <1>3, <2>3, <2>4
            DEF LoadKey, IInv, TypeOK, Answered, DConf, env, journal
<1>4. CASE LoadEnd(t)
  <2>1. (mtx = t) \in BOOLEAN
    OBVIOUS
  <2>. QED  BY <1>4, <2>1, LoadOverType
            DEF LoadEnd, IInv, TypeOK, Answered, env, store, journal
<1>5. CASE SetJournalValue(t)
  <2>1. jrn' \in JConf /\ jfile' \in JConf
    BY <1>5, NewJournalsType, PersistedType DEF SetJournalValue, IInv, TypeOK, JConf, journal
  <2>2. call[t] \in Call
    BY <1>5 DEF SetJournalValue, IInv, TypeOK, InCall
  <2>3. call[t].next \in {"idle", "load", "loadJson", "reload"}
    BY <2>2 DEF Call
  <2>4. /\ pc' \in [Threads -> Labels]
        /\ mtx' \in Threads \union {Free}
        /\ \A u \in Threads \ {t} : pc'[u] = pc[u]
        /\ pc'[t] = call[t].next
    BY <1>5, <2>3, GotoType DEF SetJournalValue, Labels
  <2>5. UNCHANGED <<env, store, initDone, rfcUpdate, todo, newPid, iniOpen>>
        /\ call' = [call EXCEPT ![t] = NoCall]
    BY <1>5 DEF SetJournalValue
  <2>6. TypeOK'
    BY <2>1, <2>4, <2>5 DEF IInv, TypeOK, JConf, env, store
  <2>7. InCall'
    BY <2>3, <2>4, <2>5 DEF IInv, TypeOK, InCall
  <2>8. Answered'
    BY <2>3, <2>4, <2>5 DEF IInv, Answered, Threads
  <2>. QED  BY <2>6, <2>7, <2>8 DEF IInv
<1>. QED  BY <1>1, <1>2, <1>3, <1>4, <1>5 DEF ThreadStep

LEMMA MarkType ==
    ASSUME NEW r \in Record, NEW b \in BOOLEAN
    PROVE  [r EXCEPT !.clearRfc = b] \in Record
BY DEF Record

LEMMA OverrideType ==
    ASSUME IInv, NEW k \in Keys, NEW v \in Data, NEW who \in Requestors,
           NEW next \in {"idle", "load", "loadJson", "reload"},
           OverrideBody(k, v, who, next)
    PROVE  IInv'
<1>1. CASE /\ pc' = [pc EXCEPT !["set"] = "idle"]
           /\ UNCHANGED <<store, jrn, mtx, call>>
  BY <1>1 DEF OverrideBody, IInv, TypeOK, InCall, Answered, env, store, Labels, Threads
<1>2. ASSUME NEW src \in OverrideSource(k, who),
             jrn' = (IF rfcUpdate THEN ResetClearRfc(jrn, k) ELSE jrn),
             SetRawValue("set", k, v, src, next)
      PROVE  IInv'
  <2>1. jrn' \in [Keys -> Record \union {NoRec}]
    BY <1>2, MarkType DEF ResetClearRfc, IInv, TypeOK
  <2>2. src \in Sources /\ "set" \in Threads
    BY DEF OverrideSource, Sources, Threads
  <2>3. /\ dict' \in DConf /\ ini' \in DConf
        /\ call' \in [Threads -> Call \union {NoCall}]
        /\ pc' \in [Threads -> Labels] /\ mtx' \in Threads \union {Free} /\ InCall'
        /\ pc'["partner"] \in {"change", "resetJournal", "setId"} => pc["partner"] \in {"change", "resetJournal", "setId"}
    BY <1>2, <2>2, SetRawValueType
  <2>. QED  BY <2>1, <2>3 DEF OverrideBody, IInv, TypeOK, Answered, DConf, env
<1>. QED  BY <1>1, <1>2 DEF OverrideBody

LEMMA SetType ==
    ASSUME IInv, SetStep
    PROVE  IInv'
<1>. USE DEF IInv
<1>1. CASE OverrideInit
  BY <1>1 DEF OverrideInit, TypeOK, InCall, Answered, env, store, journal, Labels, Threads
<1>2. ASSUME NEW k \in Param, NEW v \in Value, NEW who \in Requestors, OverrideValue(k, v, who)
      PROVE  IInv'
  BY <1>2, OverrideType DEF OverrideValue, TypeOK, Keys, Data
<1>3. ASSUME NEW p \in Partner, NEW who \in Requestors, SetPartnerId(p, who)
      PROVE  IInv'
  BY <1>3, OverrideType DEF SetPartnerId, TypeOK, Keys, Data
<1>4. CASE CallLoadJson
  BY <1>4, LoadFromJsonType DEF CallLoadJson, TypeOK, DConf, Threads
<1>5. CASE ClearDBStart
  <2>1. \A k \in Keys : Source(jrn, k) = "RFC" => jrn[k] \in Record
    BY DEF Source, TypeOK
  <2>2. jrn' = [k \in Keys |-> IF Source(jrn, k) = "RFC"
                               THEN [jrn[k] EXCEPT !.clearRfc = TRUE] ELSE jrn[k]]
    BY <1>5 DEF ClearDBStart
  <2>3. jrn' \in [Keys -> Record \union {NoRec}]
    BY <2>1, <2>2, MarkType DEF TypeOK
  <2>. QED  BY <1>5, <2>3
            DEF ClearDBStart, TypeOK, InCall, Answered, env, store, Labels, Threads
<1>6. CASE ClearDBEndOpen
  <2>1. ini' \in DConf
    BY <1>6 DEF ClearDBEndOpen, TypeOK, Empty, DConf
  <2>. QED  BY <1>6, <2>1
            DEF ClearDBEndOpen, TypeOK, InCall, Answered, DConf, env, journal, Labels, Threads
<1>7. CASE ClearRfcValues
  <2>1. \A k \in Reverted : jrn[k] \in Record
    BY DEF Reverted, TypeOK
  <2>2. Dash \in Data /\ "DEFAULT" \in Sources
    BY DEF Data, Sources
  <2>3. dict' \in DConf
    BY <1>7, <2>1 DEF ClearRfcValues, TypeOK, Record, DConf
  <2>4. jrn' \in JConf
    BY <1>7, <2>1, <2>2 DEF ClearRfcValues, TypeOK, Record, JConf
  <2>. QED  BY <1>7, <2>3, <2>4
            DEF ClearRfcValues, TypeOK, InCall, Answered, DConf, JConf, env, Labels, Threads
<1>8. CASE ClearDBEndDone
  <2>1. jfile' \in JConf
    BY <1>8, PersistedType DEF ClearDBEndDone, TypeOK, JConf
  <2>. QED  BY <1>8, <2>1
            DEF ClearDBEndDone, TypeOK, InCall, Answered, JConf, env, store, Labels, Threads
<1>. QED  BY <1>1, <1>2, <1>3, <1>4, <1>5, <1>6, <1>7, <1>8 DEF SetStep

LEMMA PartnerType ==
    ASSUME IInv, PartnerStep
    PROVE  IInv'
<1>. USE DEF IInv, TypeOK, InCall, Answered, env, store, journal, Labels, Threads
<1>1. CASE PartnerQuery
  BY <1>1 DEF PartnerQuery
<1>2. CASE PartnerBadAnswer
  BY <1>2 DEF PartnerBadAnswer
<1>3. CASE PartnerReset
  BY <1>3 DEF PartnerReset, Empty
<1>7. CASE PartnerResetJournal
  BY <1>7 DEF PartnerResetJournal, EmptyJournal
<1>4. CASE PartnerSetId
  <2>1. newPid \in Data /\ PID \in Keys /\ "DEFAULT" \in Sources
    BY <1>4 DEF PartnerSetId, Data, Keys, Sources
  <2>2. /\ dict' \in DConf /\ ini' \in DConf
        /\ call' \in [Threads -> Call \union {NoCall}]
        /\ pc' \in [Threads -> Labels] /\ mtx' \in Threads \union {Free} /\ InCall'
        /\ pc'["partner"] \in {"change", "resetJournal", "setId"} => pc["partner"] \in {"change", "resetJournal", "setId"}
    BY <1>4, <2>1, SetRawValueType DEF PartnerSetId
  <2>. QED  BY <1>4, <2>2 DEF PartnerSetId, DConf
<1>5. CASE PartnerRetrieveNow
  BY <1>5 DEF PartnerRetrieveNow
<1>6. CASE PartnerStopped
  BY <1>6 DEF PartnerStopped
<1>. QED  BY <1>1, <1>2, <1>3, <1>4, <1>5, <1>6, <1>7 DEF PartnerStep

LEMMA BootType ==
    ASSUME IInv, Boot, ini' \in DConf, jfile' \in JConf
    PROVE  IInv'
<1>1. NothingToDo \in PConf
  BY DEF NothingToDo, PConf
<1>2. /\ dict' \in DConf /\ jrn' \in JConf
      /\ todo' \in [Threads -> PConf]
      /\ call' \in [Threads -> Call \union {NoCall}]
      /\ pc' \in [Threads -> {"off", "idle"}]
  BY <1>1 DEF Boot, Empty, DConf
<1>. QED  BY <1>2 DEF Boot, IInv, TypeOK, InCall, Answered, DConf, JConf, Labels, Threads

LEMMA PowerLossType ==
    ASSUME IInv, NEW t \in Threads, PowerLoss(t)
    PROVE  IInv'
<1>1. ini \in DConf /\ jfile \in JConf
  BY DEF IInv, TypeOK, DConf, JConf
<1>2. CASE ini' \in Torn(ini, None) /\ UNCHANGED jfile
  <2>1. ini' \in DConf
    BY <1>1, <1>2 DEF Torn, DConf
  <2>. QED  BY <1>1, <1>2, <2>1, BootType DEF PowerLoss
<1>3. ASSUME NEW j \in NewJournals(t), jfile' \in Torn(Persisted(j), NoRec), UNCHANGED ini
      PROVE  IInv'
  <2>1. Persisted(j) \in JConf
    BY NewJournalsType, PersistedType DEF IInv
  <2>2. jfile' \in JConf
    BY <1>3, <2>1 DEF Torn, JConf
  <2>. QED  BY <1>1, <1>3, <2>2, BootType DEF PowerLoss
<1>. QED  BY <1>2, <1>3 DEF PowerLoss

LEMMA StepType ==
    ASSUME IInv, [NextPowerLoss]_vars
    PROVE  IInv'
<1>1. ASSUME NEW t \in Threads, ThreadStep(t)
      PROVE  IInv'
  BY <1>1, ThreadType
<1>2. CASE Stop
  BY <1>2 DEF Stop, IInv, TypeOK, InCall, Answered, store, journal
<1>3. CASE AuthChange
  BY <1>3 DEF AuthChange, IInv, TypeOK, InCall, Answered, store, journal
<1>4. CASE Restart \/ Crash
  BY <1>4, BootType DEF Restart, Crash, IInv, TypeOK, DConf, JConf
<1>5. ASSUME NEW t \in Threads, PowerLoss(t)
      PROVE  IInv'
  BY <1>5, PowerLossType
<1>6. CASE UNCHANGED vars
  BY <1>6 DEF vars, IInv, TypeOK, InCall, Answered
<1>. QED
  BY <1>1, <1>2, <1>3, <1>4, <1>5, <1>6, SetType, PartnerType
  DEF NextPowerLoss, NextCrash, Next

LEMMA InitType == Init => IInv
<1>. SUFFICES ASSUME Init
              PROVE  IInv
  OBVIOUS
<1>1. NothingToDo \in PConf
  BY DEF NothingToDo, PConf
<1>2. /\ Empty \in [Keys -> Data \union {None}]
      /\ EmptyJournal \in [Keys -> Record \union {NoRec}]
  BY DEF Empty, EmptyJournal
<1>3. \A t \in Threads : pc[t] \in {"idle", "off"}
  BY DEF Init
<1>4. pc \in [Threads -> Labels]
  BY DEF Init, Labels
<1>5. /\ firmware \in Firmware /\ auth \in Partner
      /\ dict \in [Keys -> Data \union {None}]
      /\ ini \in [Keys -> Data \union {None}]
      /\ jrn \in [Keys -> Record \union {NoRec}]
      /\ jfile \in [Keys -> Record \union {NoRec}]
  BY <1>2 DEF Init
<1>6. /\ call \in [Threads -> Call \union {NoCall}]
      /\ todo \in [Threads -> PConf]
      /\ mtx \in Threads \union {Free}
      /\ newPid \in Partner \union {None}
  BY <1>1 DEF Init
<1>7. /\ initDone \in BOOLEAN /\ rfcUpdate \in BOOLEAN
      /\ iniOpen \in BOOLEAN /\ stopped \in BOOLEAN
  BY DEF Init
<1>8. InCall
  BY <1>3 DEF InCall
<1>9. Answered
  BY <1>3 DEF Answered, Threads
<1>10. TypeOK
  BY <1>4, <1>5, <1>6, <1>7 DEF TypeOK
<1>. QED  BY <1>8, <1>9, <1>10 DEF IInv

LEMMA IInvHolds == SpecPowerLoss => []IInv
BY InitType, StepType, PTL DEF SpecPowerLoss

(* The types of the model's variables are respected by every interleaving, *)
(* I/O error, crash and power loss: in particular the journal never holds  *)
(* a record the code could not have built.                                 *)
THEOREM TypeCorrect == SpecPowerLoss => []TypeOK
<1>1. IInv => TypeOK
  BY DEF IInv
<1>. QED  BY <1>1, IInvHolds, PTL

-----------------------------------------------------------------------------
(* A parameter of WebPA is never marked.                                   *)

LEMMA NewRecordsMark ==
    ASSUME NEW j \in JConf, NEW k \in Keys, NEW v \in Data, NEW src \in Sources,
           j[k] # NoRec /\ j[k].clearRfc => j[k].source # "WEBPA",
           NEW r \in NewRecords(j, k, v, src), r.clearRfc
    PROVE  r.source # "WEBPA"
<1>. j[k] \in Record \union {NoRec}
  BY DEF JConf
<1>1. CASE src = "DEFAULT"
  BY <1>1 DEF NewRecords, Record
<1>2. CASE src # "DEFAULT"
  BY <1>2 DEF NewRecords
<1>. QED  BY <1>1, <1>2

LEMMA NewJournalsMark ==
    ASSUME IInv, MarkedNotWebPa, NEW t \in Threads, NEW j \in NewJournals(t), NEW k \in Keys,
           j[k] # NoRec, j[k].clearRfc
    PROVE  j[k].source # "WEBPA"
<1>1. CASE call[t] = NoCall
  BY <1>1 DEF NewJournals, MarkedNotWebPa
<1>2. CASE call[t] # NoCall
  <2>1. call[t] \in Call /\ jrn \in JConf
    BY <1>2 DEF IInv, TypeOK, JConf
  <2>2. PICK r \in NewRecords(jrn, call[t].key, call[t].value, call[t].source) :
          j = [jrn EXCEPT ![call[t].key] = r]
    BY <1>2 DEF NewJournals
  <2>3. CASE k = call[t].key
    BY <2>1, <2>2, <2>3, NewRecordsMark DEF MarkedNotWebPa, Call, JConf
  <2>4. CASE k # call[t].key
    BY <2>1, <2>2, <2>4 DEF MarkedNotWebPa, JConf
  <2>. QED  BY <2>3, <2>4
<1>. QED  BY <1>1, <1>2

(* What a boot reads from the journal file is not marked at all.           *)
NoMarkSaved == \A k \in Keys : jfile[k] # NoRec => ~jfile[k].clearRfc

LEMMA PersistedMark ==
    ASSUME NEW j \in JConf, NEW k \in Keys, Persisted(j)[k] # NoRec
    PROVE  ~Persisted(j)[k].clearRfc
<1>. j[k] \in Record
  BY DEF JConf, Persisted
<1>. QED  BY DEF Persisted, Record

MInv == IInv /\ MarkedNotWebPa /\ NoMarkSaved

LEMMA BootMark ==
    ASSUME Boot, \A k \in Keys : jfile'[k] # NoRec => ~jfile'[k].clearRfc
    PROVE  MarkedNotWebPa' /\ NoMarkSaved'
BY DEF Boot, MarkedNotWebPa, NoMarkSaved

LEMMA StepMark ==
    ASSUME MInv, [NextPowerLoss]_vars
    PROVE  MarkedNotWebPa' /\ NoMarkSaved'
<1>. USE DEF MInv
<1>. jrn \in JConf /\ jfile \in JConf
  BY DEF IInv, TypeOK, JConf
<1>1. ASSUME UNCHANGED journal
      PROVE  MarkedNotWebPa' /\ NoMarkSaved'
  BY <1>1 DEF journal, MarkedNotWebPa, NoMarkSaved
<1>2. ASSUME NEW t \in Threads, NEW d, NEW locked, LoadFromJson(t, d, locked)
      PROVE  MarkedNotWebPa' /\ NoMarkSaved'
  <2>1. jfile' = jfile /\ \A k \in Keys : jrn'[k] \in {NoRec, jrn[k]}
    BY <1>2 DEF LoadFromJson
  <2>. QED  BY <2>1 DEF MarkedNotWebPa, NoMarkSaved
<1>3. ASSUME NEW t \in Threads, SaveRemovals(t)
      PROVE  MarkedNotWebPa' /\ NoMarkSaved'
  BY <1>3, PersistedMark DEF SaveRemovals, MarkedNotWebPa, NoMarkSaved
<1>4. ASSUME NEW t \in Threads, SetJournalValue(t)
      PROVE  MarkedNotWebPa' /\ NoMarkSaved'
  <2>1. CASE UNCHANGED journal
    BY <1>1, <2>1
  <2>2. CASE jrn' \in NewJournals(t) /\ jfile' = Persisted(jrn')
    <3>1. jrn' \in JConf
      BY <2>2, NewJournalsType DEF IInv
    <3>2. MarkedNotWebPa'
      BY <2>2, NewJournalsMark DEF MarkedNotWebPa
    <3>3. NoMarkSaved'
      BY <2>2, <3>1, PersistedMark DEF NoMarkSaved
    <3>. QED  BY <3>2, <3>3
  <2>. QED  BY <1>4, <2>1, <2>2 DEF SetJournalValue
<1>5. ASSUME NEW t \in Threads, ThreadStep(t)
      PROVE  MarkedNotWebPa' /\ NoMarkSaved'
  BY <1>1, <1>2, <1>3, <1>4, <1>5 DEF ThreadStep, Load, LoadKey, LoadEnd
<1>6. ASSUME NEW k \in Keys, NEW v, NEW who, NEW next, OverrideBody(k, v, who, next)
      PROVE  MarkedNotWebPa' /\ NoMarkSaved'
  <2>1. jfile' = jfile /\ (jrn' = jrn \/ jrn' = ResetClearRfc(jrn, k))
    BY <1>6 DEF OverrideBody
  <2>2. ASSUME NEW l \in Keys, ResetClearRfc(jrn, k)[l] # NoRec,
               ResetClearRfc(jrn, k)[l].clearRfc
        PROVE  ResetClearRfc(jrn, k)[l].source # "WEBPA"
    BY <2>2 DEF ResetClearRfc, MarkedNotWebPa, JConf, Record
  <2>. QED  BY <2>1, <2>2 DEF MarkedNotWebPa, NoMarkSaved
<1>7. CASE ClearDBStart
  BY <1>7 DEF ClearDBStart, Source, MarkedNotWebPa, NoMarkSaved, JConf, Record
<1>8. CASE ClearRfcValues
  BY <1>8 DEF ClearRfcValues, MarkedNotWebPa, NoMarkSaved
<1>9. CASE ClearDBEndDone
  BY <1>9, PersistedMark DEF ClearDBEndDone, MarkedNotWebPa, NoMarkSaved
<1>10. CASE SetStep
  <2>1. PID \in Keys /\ \A k \in Param : k \in Keys
    BY DEF Keys
  <2>. QED
    BY <1>1, <1>2, <1>6, <1>7, <1>8, <1>9, <1>10, <2>1
    DEF SetStep, OverrideInit, OverrideValue, SetPartnerId, CallLoadJson, ClearDBEndOpen, Threads
<1>11. CASE PartnerStep
  <2>1. CASE PartnerResetJournal
    BY <2>1 DEF PartnerResetJournal, EmptyJournal, MarkedNotWebPa, NoMarkSaved
  <2>. QED  BY <1>1, <1>11, <2>1 DEF PartnerStep, PartnerQuery, PartnerBadAnswer,
              PartnerReset, PartnerSetId, PartnerRetrieveNow, PartnerStopped
<1>12. CASE Restart \/ Crash
  BY <1>12, BootMark DEF Restart, Crash, NoMarkSaved
<1>13. ASSUME NEW t \in Threads, PowerLoss(t)
       PROVE  MarkedNotWebPa' /\ NoMarkSaved'
  <2>1. CASE UNCHANGED jfile
    BY <1>13, <2>1, BootMark DEF PowerLoss, NoMarkSaved
  <2>2. ASSUME NEW j \in NewJournals(t), jfile' \in Torn(Persisted(j), NoRec)
        PROVE  MarkedNotWebPa' /\ NoMarkSaved'
    <3>1. j \in JConf
      BY NewJournalsType DEF IInv
    <3>2. \A k \in Keys : jfile'[k] # NoRec => ~jfile'[k].clearRfc
      BY <2>2, <3>1, PersistedMark DEF Torn
    <3>. QED  BY <1>13, <3>2, BootMark DEF PowerLoss
  <2>. QED  BY <1>13, <2>1, <2>2 DEF PowerLoss
<1>14. CASE UNCHANGED vars \/ Stop \/ AuthChange
  BY <1>1, <1>14 DEF vars, Stop, AuthChange, journal
<1>. QED
  BY <1>5, <1>10, <1>11, <1>12, <1>13, <1>14 DEF NextPowerLoss, NextCrash, Next

(* Whatever the interleaving, the I/O errors, the crashes and the power    *)
(* losses, ClearDBEnd never reverts what WebPA set: no record of WebPA's   *)
(* carries the clearRfc mark.                                              *)
THEOREM RevertSparesWebPa == SpecPowerLoss => []MarkedNotWebPa
<1>1. Init => MarkedNotWebPa /\ NoMarkSaved
  BY DEF Init, EmptyJournal, MarkedNotWebPa, NoMarkSaved
<1>2. Init => MInv
  BY <1>1, InitType DEF MInv
<1>3. MInv /\ [NextPowerLoss]_vars => MInv'
  BY StepType, StepMark DEF MInv
<1>4. MInv => MarkedNotWebPa
  BY DEF MInv
<1>. QED  BY <1>2, <1>3, <1>4, PTL DEF SpecPowerLoss

-----------------------------------------------------------------------------
(* The journal implements BSPolicy.                                        *)

(* Between overrideValue's check of the rules and the journal update no    *)
(* other thread can have taken the parameter for WebPA: only the thread    *)
(* that sets parameters updates the journal for anyone but the defaults.   *)
ClaimStands ==
    \A t \in Threads : call[t] # NoCall =>
        /\ call[t].source # "DEFAULT" => t = "set"
        /\ call[t].source = "RFC" => Source(jrn, call[t].key) # "WEBPA"

Owner == [k \in Keys |-> Source(jrn, k)]
Saved == [k \in Keys |-> Source(jfile, k)]

LEMMA PersistedSource ==
    ASSUME NEW j \in JConf, NEW k \in Keys
    PROVE  Source(Persisted(j), k) = Source(j, k)
<1>. j[k] \in Record \union {NoRec}
  BY DEF JConf
<1>1. CASE j[k] = NoRec
  BY <1>1 DEF Source, Persisted
<1>2. CASE j[k] # NoRec
  <2>1. Persisted(j)[k] = [j[k] EXCEPT !.clearRfc = FALSE]
    BY <1>2 DEF Persisted
  <2>2. Persisted(j)[k] \in Record /\ Persisted(j)[k].source = j[k].source
    BY <1>2, <2>1 DEF Record
  <2>. QED  BY <1>2, <2>2, ConstantsAssumption DEF Source, ConstantsAssumption
<1>. QED  BY <1>1, <1>2

LEMMA NewRecordsSource ==
    ASSUME NEW j \in JConf, NEW k \in Keys, NEW v \in Data, NEW src \in Sources,
           NEW r \in NewRecords(j, k, v, src)
    PROVE  r # NoRec /\ r.source = IF src = "DEFAULT" /\ j[k] # NoRec THEN j[k].source ELSE src
<1>. j[k] \in Record \union {NoRec}
  BY DEF JConf
<1>0. r # NoRec
  BY NewRecordsType, ConstantsAssumption DEF ConstantsAssumption
<1>1. CASE src = "DEFAULT"
  BY <1>0, <1>1 DEF NewRecords, Record
<1>2. CASE src # "DEFAULT"
  BY <1>0, <1>2 DEF NewRecords
<1>. QED  BY <1>1, <1>2

(* Who owns the parameters in the journal an update makes: only the key of *)
(* the update may change hands.                                            *)
LEMMA NewJournalsSource ==
    ASSUME IInv, NEW t \in Threads, call[t] # NoCall, NEW j \in NewJournals(t)
    PROVE  /\ call[t] \in Call
           /\ [k \in Keys |-> Source(j, k)] =
                 [Owner EXCEPT ![call[t].key] =
                    IF call[t].source = "DEFAULT" /\ @ # "NONE" THEN @
                    ELSE call[t].source]
<1>1. call[t] \in Call
  BY DEF IInv, TypeOK
<1>2. jrn \in JConf
  BY DEF IInv, TypeOK, JConf
<1>. DEFINE key == call[t].key
<1>3. key \in Keys /\ call[t].source \in Sources /\ call[t].value \in Data
  BY <1>1 DEF Call
<1>4. PICK r \in NewRecords(jrn, key, call[t].value, call[t].source) :
        j = [jrn EXCEPT ![key] = r]
  BY DEF NewJournals
<1>5. /\ r # NoRec
      /\ r.source = IF call[t].source = "DEFAULT" /\ jrn[key] # NoRec
                    THEN jrn[key].source ELSE call[t].source
  BY <1>2, <1>3, <1>4, NewRecordsSource
<1>6. jrn[key] # NoRec => jrn[key].source # "NONE"
  BY <1>2, <1>3 DEF JConf, Record, Sources
<1>7. Source(j, key) = IF call[t].source = "DEFAULT" /\ Source(jrn, key) # "NONE"
                       THEN Source(jrn, key) ELSE call[t].source
  BY <1>2, <1>3, <1>4, <1>5, <1>6 DEF Source, JConf
<1>8. \A k \in Keys \ {key} : Source(j, k) = Source(jrn, k)
  BY <1>2, <1>3, <1>4 DEF Source, JConf
<1>. QED  BY <1>1, <1>3, <1>7, <1>8 DEF Owner

Mapped == [Policy!Next]_(Policy!vars)

LEMMA Stutters ==
    ASSUME Owner' = Owner, Saved' = Saved
    PROVE  Mapped
BY DEF Mapped, Owner, Saved, Policy!vars

LEMMA Saves ==
    ASSUME Owner' = Owner, Saved' = Owner'
    PROVE  Mapped
BY DEF Mapped, Owner, Saved, Policy!Next, Policy!Save

(* Claims stand when a step only ends some of them and hands nothing to    *)
(* WebPA.                                                                  *)
LEMMA ClaimsKept ==
    ASSUME IInv, ClaimStands,
           \A t \in Threads : call'[t] \in {call[t], NoCall},
           \A k \in Keys : Source(jrn', k) = "WEBPA" => Source(jrn, k) = "WEBPA"
    PROVE  ClaimStands'
<1>. SUFFICES ASSUME NEW t \in Threads, call'[t] # NoCall
              PROVE  /\ call'[t].source # "DEFAULT" => t = "set"
                     /\ call'[t].source = "RFC" => Source(jrn', call'[t].key) # "WEBPA"
  BY DEF ClaimStands
<1>1. call'[t] = call[t] /\ call[t] \in Call
  BY DEF IInv, TypeOK
<1>2. call[t].key \in Keys
  BY <1>1 DEF Call
<1>. QED  BY <1>1, <1>2 DEF ClaimStands

LEMMA SetRawValueClaim ==
    ASSUME IInv, ClaimStands, NEW t \in Threads, NEW k \in Keys, NEW v, NEW src, NEW next,
           SetRawValue(t, k, v, src, next),
           src # "DEFAULT" => t = "set",
           src = "RFC" => Source(jrn, k) # "WEBPA",
           \A l \in Keys : Source(jrn', l) = Source(jrn, l)
    PROVE  ClaimStands'
<1>1. CASE call' = call
  BY <1>1, ClaimsKept
<1>2. CASE call' = [call EXCEPT ![t] = [key |-> k, value |-> v, source |-> src, next |-> next]]
  <2>. SUFFICES ASSUME NEW u \in Threads, call'[u] # NoCall
                PROVE  /\ call'[u].source # "DEFAULT" => u = "set"
                       /\ call'[u].source = "RFC" => Source(jrn', call'[u].key) # "WEBPA"
    BY DEF ClaimStands
  <2>1. CASE u = t
    BY <1>2, <2>1 DEF IInv, TypeOK
  <2>2. CASE u # t
    <3>1. call'[u] = call[u] /\ call[u] \in Call
      BY <1>2, <2>2 DEF IInv, TypeOK
    <3>2. call[u].key \in Keys
      BY <3>1 DEF Call
    <3>. QED  BY <3>1, <3>2 DEF ClaimStands
  <2>. QED  BY <2>1, <2>2
<1>. QED  BY <1>1, <1>2 DEF SetRawValue

LEMMA LoadMaps ==
    ASSUME IInv, ClaimStands, NEW t \in Threads, NEW d, NEW locked, LoadFromJson(t, d, locked)
    PROVE  Mapped /\ ClaimStands'
<1>1. call' = call /\ jfile' = jfile
  BY DEF LoadFromJson
<1>2. PICK S \in SUBSET Keys : /\ \A k \in S : Source(jrn, k) = "DEFAULT"
                              /\ jrn' = [k \in Keys |-> IF k \in S THEN NoRec ELSE jrn[k]]
  <2>. DEFINE config == IF d[PID] = None THEN NoConfig ELSE PartnerConfig(firmware, d[PID])
              gone   == {k \in Param : d[k] # None /\ config[k] = None
                                                   /\ Source(jrn, k) = "DEFAULT"}
  <2>1. CASE jrn' = jrn
    <3>1. jrn' = [k \in Keys |-> IF k \in {} THEN NoRec ELSE jrn[k]]
      BY <2>1 DEF IInv, TypeOK
    <3>2. {} \in SUBSET Keys /\ \A k \in {} : Source(jrn, k) = "DEFAULT"
      OBVIOUS
    <3>. QED  BY ONLY <3>1, <3>2
  <2>2. CASE jrn' = [k \in Keys |-> IF k \in gone THEN NoRec ELSE jrn[k]]
    <3>1. gone \in SUBSET Keys /\ \A k \in gone : Source(jrn, k) = "DEFAULT"
      BY DEF Keys
    <3>. QED  BY <2>2, <3>1
  <2>. QED  BY <2>1, <2>2 DEF LoadFromJson
<1>3. \A k \in Keys : Source(jrn', k) = IF k \in S THEN "NONE" ELSE Source(jrn, k)
  BY <1>2 DEF Source
<1>4. ClaimStands'
  BY <1>1, <1>3, ClaimsKept
<1>5. Owner' = [k \in Keys |-> IF k \in S THEN "NONE" ELSE Owner[k]] /\ Saved' = Saved
  BY <1>1, <1>3 DEF Owner, Saved
<1>6. Policy!Drop(S)
  BY <1>2, <1>5 DEF Policy!Drop, Owner, Saved
<1>. QED  BY <1>4, <1>6 DEF Mapped, Policy!Next

LEMMA JournalMaps ==
    ASSUME IInv, ClaimStands, NEW t \in Threads, SetJournalValue(t)
    PROVE  Mapped /\ ClaimStands'
<1>0. call' = [call EXCEPT ![t] = NoCall]
  BY DEF SetJournalValue
<1>1. \A u \in Threads : call'[u] \in {call[u], NoCall}
  BY <1>0 DEF IInv, TypeOK
<1>2. CASE UNCHANGED journal
  BY <1>1, <1>2, ClaimsKept, Stutters DEF journal, Owner, Saved
<1>3. CASE jrn' \in NewJournals(t) /\ jfile' = Persisted(jrn')
  <2>. DEFINE key == call[t].key  src == call[t].source
  <2>1. /\ call[t] \in Call
        /\ Owner' = [Owner EXCEPT ![key] =
                       IF src = "DEFAULT" /\ @ # "NONE" THEN @ ELSE src]
    <3>1. call[t] # NoCall
      BY DEF SetJournalValue, IInv, InCall
    <3>. QED  BY <1>3, <3>1, NewJournalsSource DEF Owner
  <2>2. key \in Keys /\ src \in Sources /\ call[t] # NoCall
    BY <2>1, ConstantsAssumption DEF Call, ConstantsAssumption
  <2>3. Saved' = Owner'
    <3>1. jrn' \in JConf
      BY <1>3, NewJournalsType DEF IInv
    <3>. QED  BY <1>3, <3>1, PersistedSource DEF Owner, Saved
  <2>4. Mapped
    <3>1. CASE src = "DEFAULT" /\ Owner[key] # "NONE"
      <4>1. Owner' = Owner
        BY <2>1, <3>1 DEF Owner
      <4>. QED  BY <2>3, <4>1, Saves
    <3>2. CASE ~(src = "DEFAULT" /\ Owner[key] # "NONE")
      <4>1. Owner' = [Owner EXCEPT ![key] = src]
        BY <2>1, <3>2
      <4>2. Policy!MayClaim(src, Owner[key])
        BY <2>2, <3>2 DEF Policy!MayClaim, ClaimStands, Owner, Sources
      <4>3. Policy!Claim(key, src)
        BY <2>2, <2>3, <4>1, <4>2 DEF Policy!Claim, Owner, Saved
      <4>. QED  BY <2>2, <4>3 DEF Mapped, Policy!Next, Policy!Owners, Sources
    <3>. QED  BY <3>1, <3>2
  <2>5. ClaimStands'
    <3>. SUFFICES ASSUME NEW u \in Threads, call'[u] # NoCall
                  PROVE  /\ call'[u].source # "DEFAULT" => u = "set"
                         /\ call'[u].source = "RFC" => Source(jrn', call'[u].key) # "WEBPA"
      BY DEF ClaimStands
    <3>1. u # t /\ call'[u] = call[u] /\ call[u] \in Call
      BY <1>0 DEF IInv, TypeOK
    <3>2. call[u].key \in Keys
      BY <3>1 DEF Call
    <3>3. call[u].source # "DEFAULT" => u = "set" /\ src = "DEFAULT"
      BY <2>2, <3>1 DEF ClaimStands
    <3>4. src = "DEFAULT" => \A k \in Keys : Owner'[k] = "WEBPA" => Owner[k] = "WEBPA"
      BY <2>1, <2>2 DEF Owner
    <3>. QED  BY <3>1, <3>2, <3>3, <3>4 DEF ClaimStands, Owner
  <2>. QED  BY <2>4, <2>5
<1>. QED  BY <1>2, <1>3 DEF SetJournalValue

LEMMA OverrideMaps ==
    ASSUME IInv, ClaimStands, NEW k \in Keys, NEW v, NEW who, NEW next,
           OverrideBody(k, v, who, next)
    PROVE  Mapped /\ ClaimStands'
<1>. jrn \in JConf
  BY DEF IInv, TypeOK, JConf
<1>1. jfile' = jfile /\ (jrn' = jrn \/ jrn' = ResetClearRfc(jrn, k))
  BY DEF OverrideBody
<1>2. \A l \in Keys : Source(ResetClearRfc(jrn, k), l) = Source(jrn, l)
  <2>. SUFFICES ASSUME NEW l \in Keys, jrn[k] # NoRec, l = k
                PROVE  Source(ResetClearRfc(jrn, k), l) = Source(jrn, l)
    BY DEF ResetClearRfc, Source, JConf
  <2>1. ResetClearRfc(jrn, k)[k] = [jrn[k] EXCEPT !.clearRfc = FALSE]
    BY DEF ResetClearRfc, JConf
  <2>2. jrn[k] \in Record
    BY DEF JConf
  <2>3. /\ ResetClearRfc(jrn, k)[k] \in Record
        /\ ResetClearRfc(jrn, k)[k].source = jrn[k].source
    BY <2>1, <2>2 DEF Record
  <2>. QED  BY <2>3, ConstantsAssumption DEF Source, ConstantsAssumption
<1>3. \A l \in Keys : Source(jrn', l) = Source(jrn, l)
  BY <1>1, <1>2
<1>4. Mapped
  BY <1>1, <1>3, Stutters DEF Owner, Saved
<1>5. CASE UNCHANGED call
  BY <1>3, <1>4, <1>5, ClaimsKept
<1>6. ASSUME NEW src \in OverrideSource(k, who), SetRawValue("set", k, v, src, next)
      PROVE  ClaimStands'
  <2>1. "set" \in Threads /\ (src = "RFC" => Source(jrn, k) # "WEBPA")
    BY DEF OverrideSource, Threads
  <2>. QED  BY <1>3, <1>6, <2>1, SetRawValueClaim
<1>. QED  BY <1>4, <1>5, <1>6 DEF OverrideBody

LEMMA SetMaps ==
    ASSUME MInv, ClaimStands, SetStep
    PROVE  Mapped /\ ClaimStands'
<1>. USE DEF MInv
<1>. IInv /\ jrn \in JConf
  BY DEF IInv, TypeOK, JConf
<1>1. ASSUME UNCHANGED <<call, journal>>
      PROVE  Mapped /\ ClaimStands'
  BY <1>1, ClaimsKept, Stutters DEF journal, Owner, Saved
<1>2. CASE OverrideInit \/ ClearDBEndOpen
  BY <1>1, <1>2 DEF OverrideInit, ClearDBEndOpen, journal
<1>3. ASSUME NEW k \in Param, NEW v \in Value, NEW who \in Requestors, OverrideValue(k, v, who)
      PROVE  Mapped /\ ClaimStands'
  BY <1>3, OverrideMaps DEF OverrideValue, Keys
<1>4. ASSUME NEW p \in Partner, NEW who \in Requestors, SetPartnerId(p, who)
      PROVE  Mapped /\ ClaimStands'
  BY <1>4, OverrideMaps DEF SetPartnerId, Keys
<1>5. CASE CallLoadJson
  BY <1>5, LoadMaps DEF CallLoadJson, Threads
<1>6. CASE ClearDBStart
  <2>1. \A k \in Keys : Source(jrn', k) = Source(jrn, k)
    <3>. SUFFICES ASSUME NEW k \in Keys, Source(jrn, k) = "RFC"
                  PROVE  Source(jrn', k) = Source(jrn, k)
      BY <1>6 DEF ClearDBStart, Source
    <3>1. jrn'[k] = [jrn[k] EXCEPT !.clearRfc = TRUE]
      BY <1>6 DEF ClearDBStart
    <3>2. jrn[k] \in Record
      BY DEF Source, JConf
    <3>3. jrn'[k] \in Record /\ jrn'[k].source = jrn[k].source
      BY <3>1, <3>2 DEF Record
    <3>. QED  BY <3>2, <3>3, ConstantsAssumption DEF Source, ConstantsAssumption
  <2>. QED  BY <1>6, <2>1, ClaimsKept, Stutters DEF ClearDBStart, Owner, Saved
<1>7. CASE ClearRfcValues
  <2>1. \A k \in Reverted : jrn[k] \in Record /\ Source(jrn, k) \in {"DEFAULT", "RFC"}
    BY DEF Reverted, Source, MarkedNotWebPa, JConf, Record, Sources
  <2>2. \A k \in Reverted :
          [fwValue |-> jrn[k].fwValue, updatedValue |-> Dash, source |-> "DEFAULT",
           clearRfc |-> FALSE] # NoRec
    <3>1. \A k \in Reverted :
            [fwValue |-> jrn[k].fwValue, updatedValue |-> Dash, source |-> "DEFAULT",
             clearRfc |-> FALSE] \in Record
      BY <2>1 DEF Record, Data, Sources
    <3>. QED  BY <3>1, ConstantsAssumption DEF ConstantsAssumption
  <2>3. \A k \in Keys : Source(jrn', k) = IF k \in Reverted THEN "DEFAULT" ELSE Source(jrn, k)
    BY <1>7, <2>2 DEF ClearRfcValues, Source
  <2>4. call' = call /\ jfile' = jfile /\ Reverted \in SUBSET Keys
    BY <1>7 DEF ClearRfcValues, Reverted
  <2>5. Policy!Withdraw(Reverted)
    BY <2>1, <2>3, <2>4 DEF Policy!Withdraw, Reverted
  <2>. QED  BY <2>3, <2>4, <2>5, ClaimsKept DEF Mapped, Policy!Next
<1>8. CASE ClearDBEndDone
  <2>1. Saved' \in {Saved, Owner} /\ Owner' = Owner
    BY <1>8, PersistedSource DEF ClearDBEndDone, Owner, Saved
  <2>2. ClaimStands'
    BY <1>8, ClaimsKept DEF ClearDBEndDone
  <2>. QED  BY <2>1, <2>2, Stutters, Saves
<1>. QED  BY <1>2, <1>3, <1>4, <1>5, <1>6, <1>7, <1>8 DEF SetStep

LEMMA ThreadMaps ==
    ASSUME IInv, ClaimStands, NEW t \in Threads, ThreadStep(t)
    PROVE  Mapped /\ ClaimStands'
<1>1. CASE Load(t)
  BY <1>1, LoadMaps DEF Load
<1>2. CASE SaveRemovals(t)
  <2>1. Saved' \in {Saved, Owner} /\ Owner' = Owner
    BY <1>2, PersistedSource DEF SaveRemovals, Owner, Saved, IInv, TypeOK, JConf
  <2>2. ClaimStands'
    BY <1>2, ClaimsKept DEF SaveRemovals
  <2>. QED  BY <2>1, <2>2, Stutters, Saves
<1>3. ASSUME NEW k \in Param, LoadKey(t, k)
      PROVE  Mapped /\ ClaimStands'
  <2>1. Owner' = Owner /\ Saved' = Saved /\ jrn' = jrn /\ k \in Keys
    BY <1>3 DEF LoadKey, journal, Owner, Saved, Keys
  <2>2. SetRawValue(t, k, todo[t][k], "DEFAULT", "load")
    BY <1>3 DEF LoadKey
  <2>. QED  BY <2>1, <2>2, SetRawValueClaim, Stutters
<1>4. CASE LoadEnd(t)
  BY <1>4, ClaimsKept, Stutters DEF LoadEnd, journal, Owner, Saved
<1>5. CASE SetJournalValue(t)
  BY <1>5, JournalMaps
<1>. QED  BY <1>1, <1>2, <1>3, <1>4, <1>5 DEF ThreadStep

LEMMA PartnerMaps ==
    ASSUME IInv, ClaimStands, PartnerStep
    PROVE  Mapped /\ ClaimStands'
<1>1. CASE UNCHANGED <<call, journal>>
  BY <1>1, ClaimsKept, Stutters DEF journal, Owner, Saved
<1>2. CASE PartnerResetJournal
  <2>1. \A k \in Keys : Source(jrn', k) = "NONE" /\ Source(jfile', k) = "NONE"
    BY <1>2 DEF PartnerResetJournal, EmptyJournal, Source
  <2>2. call' = call
    BY <1>2 DEF PartnerResetJournal
  <2>3. Policy!Forget
    BY <2>1 DEF Policy!Forget, Policy!Nobody
  <2>. QED  BY <2>1, <2>2, <2>3, ClaimsKept DEF Mapped, Policy!Next
<1>3. CASE PartnerSetId
  <2>1. jrn' = jrn /\ jfile' = jfile /\ PID \in Keys /\ "partner" \in Threads
    BY <1>3 DEF PartnerSetId, journal, Keys, Threads
  <2>2. SetRawValue("partner", PID, newPid, "DEFAULT", "reload")
    BY <1>3 DEF PartnerSetId
  <2>. QED  BY <2>1, <2>2, SetRawValueClaim, Stutters DEF Owner, Saved
<1>. QED
  BY <1>1, <1>2, <1>3
  DEF PartnerStep, PartnerQuery, PartnerBadAnswer, PartnerReset, PartnerRetrieveNow,
      PartnerStopped

LEMMA BootMaps ==
    ASSUME Boot, UNCHANGED jfile
    PROVE  Mapped /\ ClaimStands'
<1>1. ClaimStands'
  BY DEF Boot, ClaimStands
<1>2. Policy!Boot
  BY DEF Boot, Policy!Boot, Source
<1>. QED  BY <1>1, <1>2 DEF Mapped, Policy!Next

(* The journal that reaches the disk, whole or not, is the one in memory,  *)
(* or has the claim that was on its way.                                   *)
LEMMA PowerLossMaps ==
    ASSUME IInv, ClaimStands, NEW t \in Threads, PowerLoss(t)
    PROVE  Mapped /\ ClaimStands'
<1>1. Boot
  BY DEF PowerLoss
<1>2. CASE UNCHANGED jfile
  BY <1>1, <1>2, BootMaps
<1>3. ASSUME NEW j \in NewJournals(t), jfile' \in Torn(Persisted(j), NoRec)
      PROVE  Mapped /\ ClaimStands'
  <2>1. ClaimStands'
    BY <1>1 DEF Boot, ClaimStands
  <2>. DEFINE o == [k \in Keys |-> Source(j, k)]
  <2>2. j \in JConf
    BY NewJournalsType DEF IInv
  <2>3. PICK S \in SUBSET Keys :
          jfile' = [k \in Keys |-> IF k \in S THEN NoRec ELSE Persisted(j)[k]]
    BY <1>3 DEF Torn
  <2>4. \A k \in Keys : Source(jfile', k) = IF k \in S THEN "NONE" ELSE Source(j, k)
    BY <2>2, <2>3, PersistedSource DEF Source
  <2>5. Saved' = [k \in Keys |-> IF k \in S THEN "NONE" ELSE o[k]] /\ Owner' = Saved'
    BY <1>1, <2>4 DEF Boot, Saved, Owner
  <2>6. o = Owner \/ \E k \in Keys, who \in Policy!Owners :
          Policy!MayClaim(who, Owner[k]) /\ o = [Owner EXCEPT ![k] = who]
    <3>1. CASE call[t] = NoCall
      BY <3>1 DEF NewJournals, Owner
    <3>2. CASE call[t] # NoCall
      <4>. DEFINE key == call[t].key  src == call[t].source
      <4>1. /\ call[t] \in Call
            /\ o = [Owner EXCEPT ![key] = IF src = "DEFAULT" /\ @ # "NONE" THEN @ ELSE src]
        BY <3>2, NewJournalsSource
      <4>2. key \in Keys /\ src \in Sources
        BY <4>1 DEF Call
      <4>3. CASE src = "DEFAULT" /\ Owner[key] # "NONE"
        BY <4>1, <4>3 DEF Owner
      <4>4. CASE ~(src = "DEFAULT" /\ Owner[key] # "NONE")
        <5>1. o = [Owner EXCEPT ![key] = src]
          BY <4>1, <4>4
        <5>2. Policy!MayClaim(src, Owner[key]) /\ src \in Policy!Owners
          BY <3>2, <4>2, <4>4 DEF Policy!MayClaim, Policy!Owners, ClaimStands, Owner, Sources
        <5>. QED  BY <4>2, <5>1, <5>2
      <4>. QED  BY <4>3, <4>4
    <3>. QED  BY <3>1, <3>2
  <2>7. Policy!Tear(S, o)
    BY <2>5 DEF Policy!Tear, Owner, Saved
  <2>8. CASE o = Owner
    <3>1. Policy!Tear(S, Owner)
      BY <2>7, <2>8
    <3>. QED  BY <2>1, <3>1 DEF Mapped, Policy!Next, Owner
  <2>9. ASSUME NEW k \in Keys, NEW who \in Policy!Owners,
               Policy!MayClaim(who, Owner[k]), o = [Owner EXCEPT ![k] = who]
        PROVE  Mapped
    <3>1. Policy!TearClaim(S, k, who)
      BY <2>7, <2>9 DEF Policy!TearClaim, Owner
    <3>. QED  BY <3>1 DEF Mapped, Policy!Next
  <2>. QED  BY <2>1, <2>6, <2>8, <2>9
<1>. QED  BY <1>2, <1>3 DEF PowerLoss

LEMMA StepMaps ==
    ASSUME MInv, ClaimStands, [NextPowerLoss]_vars
    PROVE  Mapped /\ ClaimStands'
<1>1. CASE UNCHANGED vars \/ Stop \/ AuthChange
  <2>1. UNCHANGED <<call, journal>>
    BY <1>1 DEF vars, Stop, AuthChange, journal
  <2>. QED  BY <2>1, ClaimsKept, Stutters DEF MInv, journal, Owner, Saved
<1>2. CASE Restart \/ Crash
  BY <1>2, BootMaps DEF Restart, Crash
<1>3. ASSUME NEW t \in Threads, ThreadStep(t)
      PROVE  Mapped /\ ClaimStands'
  BY <1>3, ThreadMaps DEF MInv
<1>4. CASE PartnerStep
  BY <1>4, PartnerMaps DEF MInv
<1>5. ASSUME NEW t \in Threads, PowerLoss(t)
      PROVE  Mapped /\ ClaimStands'
  BY <1>5, PowerLossMaps DEF MInv
<1>. QED  BY <1>1, <1>2, <1>3, <1>4, <1>5, SetMaps DEF NextPowerLoss, NextCrash, Next

(* The journal follows the ownership rules of BSPolicy in every            *)
(* interleaving, with I/O errors, crashes and losses of power: what WebPA  *)
(* set is WebPA's until the partner changes, and a boot brings back what   *)
(* the file has.                                                           *)
THEOREM ImplementsPolicy == SpecPowerLoss => PolicySpec
<1>1. Init => IInv /\ MarkedNotWebPa /\ NoMarkSaved /\ ClaimStands
  BY InitType DEF Init, EmptyJournal, MarkedNotWebPa, NoMarkSaved, ClaimStands
<1>2. Init => MInv /\ ClaimStands
  BY <1>1 DEF MInv
<1>3. Init => Policy!Init
  BY DEF Init, Policy!Init, Policy!Nobody, EmptyJournal, Source
<1>4. MInv /\ ClaimStands /\ [NextPowerLoss]_vars => MInv' /\ ClaimStands' /\ Mapped
  BY StepType, StepMark, StepMaps DEF MInv
<1>5. MInv /\ ClaimStands /\ [NextPowerLoss]_vars
        => MInv' /\ ClaimStands' /\ [Policy!Next]_(Policy!vars)
  BY <1>4 DEF Mapped
<1>. QED  BY <1>2, <1>3, <1>5, PTL DEF SpecPowerLoss, PolicySpec, Policy!Spec

-----------------------------------------------------------------------------
(* Where the threads may be, and with which lock.                          *)

Loading == {"load", "loadJournal", "wroteIni", "journal"}

Places ==
    /\ pc["get"] \in {"idle"} \union Loading
    /\ pc["set"] \in {"idle", "checked", "loadJson", "endClear", "endJournal"}
                     \union Loading
    /\ pc["partner"] \in {"off", "query", "change", "resetJournal", "setId",
                          "reload", "changed", "done"} \union Loading

Without == {"off", "query", "change", "changed", "done"}

(* The override that the thread of the sets has still to put into the      *)
(* journal.                                                                *)
OwnCall == call["set"] # NoCall /\ call["set"].source # "DEFAULT"

Calls ==
    /\ \A t \in Threads : call[t] # NoCall => pc[t] \in {"wroteIni", "journal"}
    /\ call["get"] # NoCall =>
          call["get"].source = "DEFAULT" /\ call["get"].next = "load"
    /\ call["partner"] # NoCall =>
          call["partner"].source = "DEFAULT" /\ call["partner"].next \in {"load", "reload"}
    /\ call["set"] # NoCall =>
          IF call["set"].source = "DEFAULT"
          THEN call["set"].next = "load"
          ELSE call["set"].next \in {"idle", "loadJson"}

(* call_loadJson alone loads without the lock.                             *)
Locks ==
    /\ pc["get"] # "idle" => mtx = "get"
    /\ pc["partner"] \notin Without => mtx = "partner"
    /\ OwnCall => mtx = "set"

(* Until the first load is over nothing else runs.                         *)
Booting ==
    pc["partner"] = "off" =>
        /\ ~initDone
        /\ \A t \in {"set", "get"} :
              /\ pc[t] \in {"idle"} \union Loading
              /\ pc[t] # "idle" => mtx = t
              /\ call[t] # NoCall => call[t].next = "load"
        /\ pc["set"] = "idle" /\ pc["get"] = "idle" => dict = Empty

Control == Places /\ Calls /\ Locks /\ Booting

LEMMA NotFree == Free \notin {"set", "get", "partner"}
BY ConstantsAssumption DEF ConstantsAssumption, Threads

LEMMA RawControl ==
    ASSUME IInv, Control, NEW t \in Threads, NEW k \in Keys, NEW v \in Data,
           NEW src \in Sources, NEW next \in {"idle", "load", "loadJson", "reload"},
           SetRawValue(t, k, v, src, next), CanLock(t),
           UNCHANGED initDone \/ pc["partner"] = "setId",
           t = "get" => pc[t] = "load" /\ src = "DEFAULT" /\ next = "load",
           t = "partner" => /\ pc[t] \in {"load", "setId"}
                            /\ src = "DEFAULT" /\ next \in {"load", "reload"},
           t = "set" => /\ pc[t] = "load" \/ pc[t] = "checked"
                        /\ IF src = "DEFAULT" THEN pc[t] = "load" /\ next = "load"
                           ELSE pc[t] = "checked" /\ next \in {"idle", "loadJson"}
    PROVE  Control'
<1> USE DEF IInv, TypeOK, Control
<1> DEFINE update == [key |-> k, value |-> v, source |-> src, next |-> next]
<1>1. pc \in [Threads -> Labels] /\ call \in [Threads -> Call \union {NoCall}]
    OBVIOUS
<1>2. update \in Call /\ update # NoCall
    BY ConstantsAssumption DEF Call, ConstantsAssumption
<1>3. pc["partner"] = "off" => t \in {"set", "get"} /\ pc[t] = "load" /\ next = "load"
    BY DEF Booting, Threads, Loading
<1>4. ASSUME NEW l \in {"idle", next}, Goto(t, l), UNCHANGED call,
             l # next => t = "set" /\ next = "loadJson"
      PROVE  Control'
    <2>1. /\ pc' = [pc EXCEPT ![t] = l]
          /\ mtx' = IF mtx = t /\ l \in {"idle", "loadJson", "changed"} THEN Free ELSE mtx
        BY <1>4 DEF Goto
    <2>2. call[t] = NoCall
        BY DEF Calls, Threads
    <2>3. Calls'
        BY <1>1, <1>4, <2>1, <2>2 DEF Calls, Threads
    <2>4. Places'
        BY <1>1, <1>4, <2>1 DEF Places, Threads, Loading
    <2>5. Locks'
        BY <1>1, <1>4, <2>1, <2>2 DEF Locks, OwnCall, Threads, CanLock, Without
    <2>6. Booting'
        BY <1>1, <1>3, <1>4, <2>1, <2>2 DEF Booting, Threads, Loading
    <2> QED BY <2>3, <2>4, <2>5, <2>6
<1>5. ASSUME NEW l \in {"wroteIni", "journal"}, call' = [call EXCEPT ![t] = update],
             pc' = [pc EXCEPT ![t] = l], mtx' = Locked(t, next)
      PROVE  Control'
    <2>1. Calls'
        BY <1>1, <1>2, <1>5 DEF Calls, Threads
    <2>2. Places'
        BY <1>1, <1>5 DEF Places, Threads, Loading
    <2>3. Locks'
        <3>1. /\ call'["set"] = IF t = "set" THEN update ELSE call["set"]
              /\ \A u \in Threads : pc'[u] = IF u = t THEN l ELSE pc[u]
            BY <1>1, <1>5 DEF Threads
        <3>2. CASE next = "load"
            BY <1>5, <3>1, <3>2 DEF Locks, OwnCall, Threads, CanLock, Without, Locked
        <3>3. CASE next # "load"
            BY <1>5, <3>1, <3>3, ConstantsAssumption
               DEF Locks, OwnCall, Threads, CanLock, Without, Locked, ConstantsAssumption
        <3> QED BY <3>2, <3>3
    <2>4. Booting'
        BY <1>1, <1>2, <1>3, <1>5 DEF Booting, Threads, Loading, Locked
    <2> QED BY <2>1, <2>2, <2>3, <2>4
<1>6. next = "loadJson" => t = "set"
    BY DEF Threads
<1> HIDE DEF IInv, TypeOK, Control
<1>7. CASE SameValue(k, v) /\ src = Source(jrn, k) /\ Goto(t, next) /\ UNCHANGED call
    BY <1>4, <1>7
<1>8. CASE /\ Goto(t, IF next = "loadJson" THEN "idle" ELSE next)
           /\ UNCHANGED call
    <2>1. CASE next = "loadJson"
        BY <1>4, <1>6, <1>8, <2>1
    <2>2. CASE next # "loadJson"
        BY <1>4, <1>8, <2>2
    <2> QED BY <2>1, <2>2
<1> QED BY <1>5, <1>7, <1>8 DEF SetRawValue

LEMMA LoadOverControl ==
    ASSUME IInv, Control, NEW t \in Threads, NEW locked \in BOOLEAN, NEW ok,
           LoadOver(t, locked, ok), UNCHANGED call, call[t] = NoCall,
           locked => CanLock(t), ~locked => t = "set"
    PROVE  Control'
<1>1. pc \in [Threads -> Labels] /\ "off" # "query" /\ "off" # "changed"
    BY DEF IInv, TypeOK
<1>2. /\ mtx' = IF locked THEN Free ELSE mtx
      /\ pc'["get"] = IF t = "get" THEN "idle" ELSE pc["get"]
      /\ pc'["set"] = IF t = "set" THEN "idle" ELSE pc["set"]
      /\ pc'["partner"] = IF t = "partner" THEN "changed"
                          ELSE IF pc["partner"] = "off" THEN "query" ELSE pc["partner"]
    BY <1>1 DEF LoadOver, Threads
<1>3. pc'["partner"] # "off"
    BY <1>2
<1>4. Places' /\ Booting'
    BY <1>2, <1>3 DEF Control, Places, Booting, Loading
<1>5. Calls'
    BY <1>2 DEF Control, Calls, Threads
<1>6. Locks'
    BY <1>2 DEF Control, Locks, OwnCall, CanLock, Threads, Without
<1> QED BY <1>4, <1>5, <1>6 DEF Control

LEMMA LoadFromJsonControl ==
    ASSUME IInv, Control, NEW t \in Threads, NEW d, NEW locked \in BOOLEAN,
           LoadFromJson(t, d, locked), CanLock(t),
           pc[t] = IF ~locked THEN "loadJson" ELSE IF t = "partner" THEN "reload" ELSE "idle",
           ~locked => t = "set"
    PROVE  Control'
<1>1. pc \in [Threads -> Labels]
    BY DEF IInv, TypeOK
<1>2. UNCHANGED call /\ call[t] = NoCall
    BY DEF LoadFromJson, Control, Calls
<1>3. ASSUME LoadOver(t, locked, FALSE)
      PROVE  Control'
    BY <1>2, <1>3, LoadOverControl
<1>4. ASSUME NEW l \in {"load", "loadJournal"}, pc' = [pc EXCEPT ![t] = l],
             mtx' = IF locked THEN t ELSE mtx, UNCHANGED initDone
      PROVE  Control'
    <2>1. /\ pc'["get"] = IF t = "get" THEN l ELSE pc["get"]
          /\ pc'["set"] = IF t = "set" THEN l ELSE pc["set"]
          /\ pc'["partner"] = IF t = "partner" THEN l ELSE pc["partner"]
        BY <1>1, <1>4 DEF Threads
    <2>2. Places'
        BY <1>4, <2>1 DEF Control, Places, Loading
    <2>3. Calls'
        BY <1>2, <1>4, <2>1 DEF Control, Calls, Threads
    <2>4. Locks'
        BY <1>2, <1>4, <2>1, NotFree DEF Control, Locks, OwnCall, CanLock, Threads, Without
    <2>5. Booting'
        BY <1>2, <1>4, <2>1, NotFree DEF Control, Booting, CanLock, Threads, Loading
    <2> QED BY <2>2, <2>3, <2>4, <2>5 DEF Control
<1>5. \/ LoadOver(t, locked, FALSE)
      \/ \E l \in {"load", "loadJournal"} :
            /\ pc' = [pc EXCEPT ![t] = l]
            /\ mtx' = IF locked THEN t ELSE mtx
            /\ UNCHANGED initDone
    BY DEF LoadFromJson
<1> QED BY <1>3, <1>4, <1>5

LEMMA JournalControl ==
    ASSUME IInv, Control, NEW t \in Threads, SetJournalValue(t)
    PROVE  Control'
<1>1. /\ pc \in [Threads -> Labels] /\ call \in [Threads -> Call \union {NoCall}]
      /\ call[t] \in Call /\ call[t] # NoCall
    BY DEF IInv, TypeOK, InCall, SetJournalValue
<1> DEFINE l == call[t].next
<1>2. /\ call' = [call EXCEPT ![t] = NoCall] /\ pc' = [pc EXCEPT ![t] = l]
      /\ mtx' = IF mtx = t /\ l \in {"idle", "loadJson", "changed"} THEN Free ELSE mtx
      /\ UNCHANGED <<dict, initDone>>
    BY DEF SetJournalValue, Goto, store
<1>3. /\ t = "get" => l = "load"
      /\ t = "partner" => l \in {"load", "reload"}
      /\ t = "set" => l \in {"idle", "load", "loadJson"}
      /\ pc["partner"] = "off" => t \in {"set", "get"} /\ l = "load"
    BY <1>1 DEF Control, Calls, Booting, Threads, SetJournalValue
<1> HIDE DEF l
<1>4. /\ pc'["get"] = IF t = "get" THEN l ELSE pc["get"]
      /\ pc'["set"] = IF t = "set" THEN l ELSE pc["set"]
      /\ pc'["partner"] = IF t = "partner" THEN l ELSE pc["partner"]
      /\ \A u \in Threads : call'[u] = IF u = t THEN NoCall ELSE call[u]
    BY <1>1, <1>2 DEF Threads
<1>5. Places'
    BY <1>3, <1>4 DEF Control, Places, Loading, Threads
<1>6. Calls'
    BY <1>3, <1>4 DEF Control, Calls, Threads
<1>7. Locks'
    BY <1>2, <1>3, <1>4 DEF Control, Locks, OwnCall, Threads, Without, SetJournalValue
<1>8. Booting'
    BY <1>2, <1>3, <1>4 DEF Control, Booting, Threads, Loading, SetJournalValue
<1> QED BY <1>5, <1>6, <1>7, <1>8 DEF Control

LEMMA ThreadControl ==
    ASSUME IInv, Control, NEW t \in Threads, ThreadStep(t)
    PROVE  Control'
<1>1. CASE Load(t)
    BY <1>1, LoadFromJsonControl DEF Load, Control, Locks, CanLock, Without, Threads
<1>2. CASE SaveRemovals(t)
    BY <1>2 DEF SaveRemovals, store, IInv, TypeOK, Control, Places, Calls, Locks, OwnCall,
                Booting, Loading, Without, Threads
<1>3. ASSUME NEW k \in Param, LoadKey(t, k)
      PROVE  Control'
    <2>1. todo[t][k] \in Value
        BY <1>3 DEF LoadKey, IInv, TypeOK, PConf
    <2> QED BY <1>3, <2>1, RawControl DEF LoadKey, Keys, Data, Sources
<1>4. CASE LoadEnd(t)
    <2>1. call[t] = NoCall /\ (mtx # t => t = "set") /\ (mtx = t) \in BOOLEAN
        BY <1>4 DEF LoadEnd, Control, Calls, Locks, Without, Threads
    <2>2. mtx = t => CanLock(t)
        BY DEF CanLock
    <2> QED BY <1>4, <2>1, <2>2, LoadOverControl DEF LoadEnd
<1> QED BY <1>1, <1>2, <1>3, <1>4, JournalControl DEF ThreadStep

LEMMA SetMoves ==
    ASSUME IInv, Control, UNCHANGED <<mtx, call, initDone>>,
           NEW l \in {"idle", "checked", "endClear", "endJournal"},
           pc' = [pc EXCEPT !["set"] = l],
           \/ pc["set"] \in {"checked", "endClear", "endJournal"}
           \/ pc["set"] = "idle" /\ initDone
    PROVE  Control'
<1>1. pc \in [Threads -> Labels]
    BY DEF IInv, TypeOK
<1>2. /\ pc'["get"] = pc["get"] /\ pc'["partner"] = pc["partner"] /\ pc'["set"] = l
      /\ pc["partner"] # "off" /\ call["set"] = NoCall
    BY <1>1 DEF Control, Booting, Calls, Loading, Threads
<1>3. Places' /\ Booting'
    BY <1>2 DEF Control, Places, Booting
<1>4. Calls'
    BY <1>2 DEF Control, Calls, Threads
<1>5. Locks'
    BY <1>2 DEF Control, Locks, OwnCall
<1> QED BY <1>3, <1>4, <1>5 DEF Control

LEMMA SetControl ==
    ASSUME IInv, Control, SetStep
    PROVE  Control'
<1>1. CASE OverrideInit
    BY <1>1, SetMoves DEF OverrideInit
<1>2. CASE ClearDBStart \/ ClearDBEndDone \/ ClearRfcValues
    BY <1>2, SetMoves DEF ClearDBStart, ClearDBEndDone, ClearRfcValues
<1>3. CASE ClearDBEndOpen
    BY <1>3, SetMoves DEF ClearDBEndOpen
<1>4. ASSUME NEW k \in Keys, NEW v \in Data, NEW who, NEW next \in {"idle", "loadJson"},
             OverrideBody(k, v, who, next)
      PROVE  Control'
    <2>1. CASE pc' = [pc EXCEPT !["set"] = "idle"] /\ UNCHANGED <<store, mtx, call>>
        BY <1>4, <2>1, SetMoves DEF OverrideBody
    <2>2. ASSUME NEW src \in OverrideSource(k, who), SetRawValue("set", k, v, src, next)
          PROVE  Control'
        <3>1. src \in Sources /\ src # "DEFAULT"
            BY <2>2 DEF OverrideSource, Sources
        <3> QED BY <1>4, <2>2, <3>1, RawControl DEF OverrideBody, Threads
    <2> QED BY <1>4, <2>1, <2>2 DEF OverrideBody
<1>5. ASSUME NEW k \in Param, NEW v \in Value, NEW who, OverrideValue(k, v, who)
      PROVE  Control'
    BY <1>4, <1>5 DEF OverrideValue, Keys, Data
<1>6. ASSUME NEW p \in Partner, NEW who, SetPartnerId(p, who)
      PROVE  Control'
    BY <1>4, <1>6 DEF SetPartnerId, Keys, Data
<1>7. CASE CallLoadJson
    BY <1>7, LoadFromJsonControl DEF CallLoadJson, Threads
<1> QED BY <1>1, <1>2, <1>3, <1>5, <1>6, <1>7 DEF SetStep

LEMMA PartnerMoves ==
    ASSUME IInv, Control, UNCHANGED <<call, initDone>>,
           NEW l \in {"change", "resetJournal", "setId", "done"},
           pc' = [pc EXCEPT !["partner"] = l],
           pc["partner"] \in {"query", "change", "resetJournal", "changed"},
           l \in Without => mtx' = mtx,
           l \notin Without => mtx' = "partner" /\ CanLock("partner")
    PROVE  Control'
<1>1. pc \in [Threads -> Labels]
    BY DEF IInv, TypeOK
<1>2. /\ pc'["get"] = pc["get"] /\ pc'["partner"] = l /\ pc'["set"] = pc["set"]
      /\ call["partner"] = NoCall
    BY <1>1 DEF Control, Calls, Threads
<1>3. Places' /\ Booting'
    BY <1>2 DEF Control, Places, Booting
<1>4. Calls'
    BY <1>2 DEF Control, Calls, Threads
<1>5. Locks'
    BY <1>2, NotFree DEF Control, Locks, OwnCall, CanLock
<1> QED BY <1>3, <1>4, <1>5 DEF Control

LEMMA PartnerControl ==
    ASSUME IInv, Control, PartnerStep
    PROVE  Control'
<1>1. CASE PartnerQuery
    BY <1>1, PartnerMoves DEF PartnerQuery, Without
<1>2. CASE PartnerBadAnswer \/ PartnerRetrieveNow \/ PartnerStopped
    BY <1>2, PartnerMoves DEF PartnerBadAnswer, PartnerRetrieveNow, PartnerStopped, Without
<1>3. CASE PartnerReset
    BY <1>3, PartnerMoves DEF PartnerReset, Without
<1>4. CASE PartnerResetJournal
    <2>1. mtx = "partner"
        BY <1>4 DEF PartnerResetJournal, Control, Locks, Without
    <2> QED BY <1>4, <2>1, PartnerMoves DEF PartnerResetJournal, CanLock, Without
<1>5. CASE PartnerSetId
    <2>1. newPid \in Data /\ PID \in Keys /\ CanLock("partner")
        BY <1>5 DEF PartnerSetId, IInv, Answered, Data, Keys, Control, Locks, CanLock, Without
    <2> QED BY <1>5, <2>1, RawControl DEF PartnerSetId, Threads, Sources
<1> QED BY <1>1, <1>2, <1>3, <1>4, <1>5 DEF PartnerStep

LEMMA BootControl ==
    ASSUME Boot
    PROVE  Control'
BY DEF Boot, Control, Places, Calls, Locks, OwnCall, Booting, Loading, Without, Threads

LEMMA Boots ==
    ASSUME Restart \/ Crash \/ \E t \in Threads : PowerLoss(t)
    PROVE  Boot
BY DEF Restart, Crash, PowerLoss

LEMMA ControlStep ==
    ASSUME IInv, Control, [NextPowerLoss]_vars
    PROVE  Control'
<1>1. CASE UNCHANGED vars \/ Stop \/ AuthChange
    BY <1>1 DEF vars, Stop, AuthChange, store, Control, Places, Calls, Locks, OwnCall,
                Booting
<1> QED BY <1>1, Boots, BootControl, ThreadControl, SetControl, PartnerControl
        DEF NextPowerLoss, NextCrash, Next

LEMMA ControlInit == Init => Control
BY DEF Init, Control, Places, Calls, Locks, OwnCall, Booting, Loading, Without, Threads

-----------------------------------------------------------------------------
(* The files, when every write succeeds.                                   *)

Unloaded == pc["partner"] = "off" /\ pc["set"] = "idle" /\ pc["get"] = "idle"

(* ClearDBEnd has the .ini file open, and reverts to what the journal      *)
(* knows, though the partner thread has removed both in the meantime.      *)
Closed == pc["set"] = "endClear" /\ ~iniOpen

Config(d) == IF d[PID] = None THEN NoConfig ELSE PartnerConfig(firmware, d[PID])

Fresh(k) == dict[k] = None /\ jrn[k] = NoRec

Defaults ==
    \A k \in Keys : jrn[k] # NoRec => jrn[k].source = "DEFAULT" /\ jrn[k].fwValue = dict[k]

(* What the partner thread has yet to write it has not written before.     *)
Remaining(l) ==
    /\ l = "reload" => \A k \in Param : Fresh(k)
    /\ l = "load" => \A k \in Param : todo["partner"][k] # None => Fresh(k)

Window ==
    Closed =>
        /\ pc["get"] = "idle"
        /\ pc["partner"] \in {"resetJournal", "setId", "wroteIni", "reload", "load",
                              "changed", "done"}
        /\ pc["partner"] = "resetJournal" => dict = Empty
        /\ pc["partner"] # "resetJournal" => Defaults
        /\ pc["partner"] = "setId" => \A k \in Keys : Fresh(k)
        /\ Remaining(pc["partner"])
        /\ pc["partner"] = "wroteIni" =>
              /\ jrn[call["partner"].key] = NoRec
              /\ dict[call["partner"].key] = call["partner"].value
              /\ Remaining(call["partner"].next)
        /\ pc["partner"] \in {"changed", "done"} => initDone \/ Config(ini) = NoConfig

Written == dict = ini \/ (pc["set"] = "endClear" /\ iniOpen) \/ Unloaded

Recorded ==
    \/ jfile = Persisted(jrn)
    \/ pc["set"] = "endJournal"
    \/ \E t \in Threads : pc[t] = "loadJournal"

FInv == MInv /\ Control /\ Window /\ Written /\ Recorded

LEMMA FreshKey ==
    ASSUME IoOutcomes = {TRUE}, NEW t \in Threads, NEW k \in Keys, Fresh(k), NEW v, NEW next,
           SetRawValue(t, k, v, "DEFAULT", next)
    PROVE  /\ dict' = [dict EXCEPT ![k] = v] /\ ini' = dict'
           /\ call' = [call EXCEPT ![t] = [key |-> k, value |-> v, source |-> "DEFAULT",
                                           next |-> next]]
           /\ pc' = [pc EXCEPT ![t] = "wroteIni"]
<1>1. ~SameValue(k, v) /\ ~KeepActive(k, "DEFAULT")
    BY DEF Fresh, SameValue, KeepActive, Source
<1> QED BY <1>1 DEF SetRawValue

LEMMA WindowRaw ==
    ASSUME IoOutcomes = {TRUE}, IInv, FInv, Closed, NEW k \in Keys, Fresh(k),
           NEW v \in Data, NEW next \in {"load", "reload"},
           pc["partner"] \in {"load", "setId"},
           SetRawValue("partner", k, v, "DEFAULT", next),
           UNCHANGED <<jrn, iniOpen>>, k = PID \/ todo'["partner"][k] = None,
           next = "reload" => \A p \in Param : Fresh(p) /\ k # p,
           next = "load" => \A p \in Param \ {k} :
                               todo'["partner"][p] # None => Fresh(p)
    PROVE  Window'
<1>1. /\ dict' = [dict EXCEPT ![k] = v]
      /\ call' = [call EXCEPT !["partner"] = [key |-> k, value |-> v, source |-> "DEFAULT",
                                              next |-> next]]
      /\ pc' = [pc EXCEPT !["partner"] = "wroteIni"]
    BY FreshKey DEF Threads
<1>2. /\ dict \in [Keys -> Data \union {None}]
      /\ pc \in [Threads -> Labels] /\ call \in [Threads -> Call \union {NoCall}]
      /\ Param \subseteq Keys
    BY DEF IInv, TypeOK, Keys
<1>3. /\ pc'["partner"] = "wroteIni" /\ pc'["get"] = pc["get"]
      /\ call'["partner"].key = k /\ call'["partner"].value = v
      /\ call'["partner"].next = next
      /\ dict'[k] = v /\ \A p \in Keys \ {k} : dict'[p] = dict[p]
    BY <1>1, <1>2 DEF Threads
<1>4. pc["get"] = "idle" /\ Defaults
    BY DEF FInv, Window
<1>5. Defaults'
    BY <1>3, <1>4 DEF Defaults, Fresh
<1>6. Remaining(next)'
    <2>1. CASE next = "reload"
        BY <1>2, <1>3, <2>1 DEF Remaining, Fresh
    <2>2. CASE next = "load"
        BY <1>2, <1>3, <2>2, ConstantsAssumption
           DEF Remaining, Fresh, ConstantsAssumption
    <2> QED BY <2>1, <2>2
<1>7. Remaining("wroteIni")'
    BY DEF Remaining
<1>8. jrn'[k] = NoRec
    BY DEF Fresh
<1> QED BY <1>3, <1>4, <1>5, <1>6, <1>7, <1>8 DEF Window

LEMMA WindowJournal ==
    ASSUME IoOutcomes = {TRUE}, IInv, FInv, Closed, NEW t \in Threads, SetJournalValue(t)
    PROVE  Window'
<1>1. t = "partner" /\ pc[t] = "wroteIni"
    BY DEF FInv, Closed, Window, SetJournalValue, Threads
<1> DEFINE key == call[t].key
           l == call[t].next
<1>2. /\ call[t] \in Call /\ call[t] # NoCall /\ call[t].source = "DEFAULT"
      /\ key \in Keys /\ call[t].value \in Data
    BY <1>1 DEF IInv, TypeOK, InCall, FInv, Control, Calls, Call
<1>3. /\ jrn[key] = NoRec /\ dict[key] = call[t].value /\ dict[key] # None
      /\ Remaining(l) /\ l \in {"load", "reload"} /\ pc["get"] = "idle" /\ Defaults
    BY <1>1, <1>2, ConstantsAssumption
       DEF FInv, Window, Control, Calls, ConstantsAssumption
<1>4. PICK r \in NewRecords(jrn, key, call[t].value, "DEFAULT") :
          jrn' = [jrn EXCEPT ![key] = r]
    BY <1>2 DEF SetJournalValue, NewJournals
<1>5. r.source = "DEFAULT" /\ r.fwValue = dict[key]
    BY <1>3, <1>4 DEF NewRecords
<1>6. /\ pc' = [pc EXCEPT ![t] = l] /\ UNCHANGED <<dict, todo>>
    BY DEF SetJournalValue, Goto, store
<1>7. jrn \in [Keys -> Record \union {NoRec}] /\ pc \in [Threads -> Labels] /\ Param \subseteq Keys
    BY DEF IInv, TypeOK, Keys
<1> HIDE DEF key, l
<1>8. pc'["partner"] = l /\ pc'["get"] = "idle"
    BY <1>1, <1>3, <1>6, <1>7 DEF Threads
<1>9. Defaults'
    BY <1>3, <1>4, <1>5, <1>6, <1>7 DEF Defaults
<1>10. \A k \in Keys : k # key /\ Fresh(k) => Fresh(k)'
    BY <1>4, <1>6, <1>7 DEF Fresh
<1>11. ~Fresh(key)
    BY <1>3 DEF Fresh
<1>12. Remaining(pc["partner"])'
    BY <1>3, <1>6, <1>7, <1>8, <1>10, <1>11 DEF Remaining
<1> QED BY <1>3, <1>8, <1>9, <1>12 DEF Window

LEMMA WindowLoad ==
    ASSUME IInv, FInv, Closed, NEW t \in Threads, Load(t)
    PROVE  Window'
<1>1. /\ dict = ini /\ pc["get"] = "idle" /\ Param \subseteq Keys
      /\ pc \in [Threads -> Labels] /\ todo \in [Threads -> PConf]
    BY DEF FInv, Window, Written, Closed, Unloaded, IInv, TypeOK, Keys
<1>2. t # "set"
    BY DEF Closed, Load
<1>3. \/ t = "partner" /\ pc["partner"] = "reload"
      \/ t = "get" /\ pc["partner"] \in {"changed", "done"}
    BY <1>2, NotFree DEF FInv, Window, Load, Control, Locks, Without, CanLock, Threads
<1>4. ~initDone /\ LoadFromJson(t, ini, TRUE)
    BY DEF Load
<1> DEFINE config == Config(ini)
           gone == {k \in Param : ini[k] # None /\ config[k] = None
                                                /\ Source(jrn, k) = "DEFAULT"}
<1>5. config = NoConfig => dict' = ini /\ LoadOver(t, TRUE, FALSE) /\ UNCHANGED jrn /\ UNCHANGED ini
    BY <1>4 DEF LoadFromJson, Config
<1>6. gone = {} /\ config # NoConfig =>
          /\ dict' = ini /\ UNCHANGED <<jrn, ini>>
          /\ todo' = [todo EXCEPT ![t] = config]
          /\ pc' = [pc EXCEPT ![t] = "load"]
    BY <1>4 DEF LoadFromJson, Config
<1>7. UNCHANGED <<firmware, iniOpen, jrn>> \/ (gone # {} /\ config # NoConfig)
    BY <1>4, <1>5, <1>6 DEF LoadFromJson, env
<1>8. UNCHANGED firmware
    BY <1>4 DEF LoadFromJson, env
<1>9. Defaults
    BY <1>3 DEF FInv, Window
<1> HIDE DEF config, gone
<1>10. CASE config = NoConfig
    <2>1. /\ UNCHANGED <<dict, ini, jrn, firmware>>
          /\ pc'["get"] = "idle"
          /\ pc'["partner"] = IF t = "partner" THEN "changed" ELSE pc["partner"]
        BY <1>1, <1>3, <1>5, <1>8, <1>10 DEF LoadOver, Threads
    <2>2. Config(ini)' = NoConfig
        BY <1>10, <2>1 DEF Config, config
    <2>3. Defaults' /\ Remaining(pc["partner"])' /\ Remaining("changed")'
        BY <1>3, <1>9, <2>1 DEF Defaults, Remaining
    <2> QED BY <1>3, <2>1, <2>2, <2>3 DEF Window, Remaining
<1>11. CASE config # NoConfig
    <2>1. t = "partner"
        BY <1>3, <1>4, <1>11 DEF FInv, Window, config
    <2>2. \A k \in Param : Fresh(k)
        BY <1>3, <2>1 DEF FInv, Window, Remaining
    <2>3. gone = {}
        BY <1>1, <2>2 DEF Fresh, gone
    <2>4. /\ UNCHANGED <<dict, ini, jrn>> /\ pc'["partner"] = "load" /\ pc'["get"] = "idle"
        BY <1>1, <1>6, <1>11, <2>1, <2>3 DEF Threads
    <2>5. Defaults' /\ Remaining("load")'
        BY <1>1, <1>9, <2>2, <2>4 DEF Defaults, Remaining, Fresh
    <2> QED BY <2>4, <2>5 DEF Window
<1> QED BY <1>10, <1>11

LEMMA WindowSame ==
    ASSUME Window, UNCHANGED <<dict, ini, jrn, initDone, pc, call, todo, firmware>>,
           iniOpen' = iniOpen
    PROVE  Window'
BY DEF Window, Closed, Defaults, Fresh, Remaining, Config

(* The threads that load, and not only they, leave ClearDBEnd alone.       *)
LEMMA RawPlace ==
    ASSUME IInv, NEW t \in Threads, NEW k, NEW v, NEW src, NEW next \in Labels,
           next # "endClear", SetRawValue(t, k, v, src, next)
    PROVE  /\ pc'["set"] = "endClear" => pc["set"] = "endClear"
           /\ t # "set" => pc'["set"] = pc["set"]
<1>1. pc \in [Threads -> Labels]
    BY DEF IInv, TypeOK
<1>2. ASSUME NEW l \in Labels, l # "endClear", pc' = [pc EXCEPT ![t] = l]
      PROVE  /\ pc'["set"] = "endClear" => pc["set"] = "endClear"
             /\ t # "set" => pc'["set"] = pc["set"]
    BY <1>1, <1>2 DEF Threads
<1>3. \E l \in Labels : l # "endClear" /\ pc' = [pc EXCEPT ![t] = l]
    <2>1. CASE pc' = [pc EXCEPT ![t] = IF next = "loadJson" THEN "idle" ELSE next]
        BY <2>1 DEF Labels
    <2>2. CASE \E l \in {next, "wroteIni", "journal"} : pc' = [pc EXCEPT ![t] = l]
        BY <2>2 DEF Labels
    <2> QED BY <2>1, <2>2 DEF SetRawValue, Goto
<1> QED BY <1>2, <1>3

LEMMA ThreadCloses ==
    ASSUME IInv, Control, NEW t \in Threads, ThreadStep(t)
    PROVE  /\ iniOpen' = iniOpen
           /\ pc'["set"] = "endClear" => pc["set"] = "endClear"
           /\ t # "set" => pc'["set"] = pc["set"]
<1>1. pc \in [Threads -> Labels]
    BY DEF IInv, TypeOK
<1>2. CASE Load(t) \/ SaveRemovals(t) \/ LoadEnd(t)
    <2>1. iniOpen' = iniOpen
        BY <1>2 DEF Load, LoadFromJson, SaveRemovals, LoadEnd
    <2>2. pc'["set"] = IF t = "set" THEN pc'[t] ELSE pc["set"]
        BY <1>1, <1>2 DEF Load, LoadFromJson, LoadOver, SaveRemovals, LoadEnd, Threads
    <2>3. t = "set" => pc'[t] \in {"idle", "load", "loadJournal"}
        BY <1>1, <1>2 DEF Load, LoadFromJson, LoadOver, SaveRemovals, LoadEnd, Threads
    <2> QED BY <2>1, <2>2, <2>3
<1>3. ASSUME NEW k \in Param, LoadKey(t, k)
      PROVE  /\ iniOpen' = iniOpen
             /\ pc'["set"] = "endClear" => pc["set"] = "endClear"
             /\ t # "set" => pc'["set"] = pc["set"]
    BY <1>3, RawPlace DEF LoadKey, Labels
<1>4. CASE SetJournalValue(t)
    <2>1. call[t] \in Call
        BY <1>4 DEF SetJournalValue, IInv, TypeOK, InCall
    <2> QED BY <1>1, <1>4, <2>1 DEF SetJournalValue, Goto, Call, Threads
<1> QED BY <1>2, <1>3, <1>4 DEF ThreadStep

LEMMA WindowThread ==
    ASSUME IoOutcomes = {TRUE}, IInv, FInv, NEW t \in Threads, ThreadStep(t)
    PROVE  Window'
<1>0. SUFFICES ASSUME Closed'
               PROVE  Window'
    BY DEF Window
<1>1. iniOpen' = iniOpen /\ Closed
    BY <1>0, ThreadCloses DEF Closed, FInv
<1>2. CASE SaveRemovals(t)
    BY <1>1, <1>2 DEF SaveRemovals, FInv, Window, Closed, Threads
<1>3. ASSUME NEW k \in Param, LoadKey(t, k)
      PROVE  Window'
    <2>1. t = "partner" /\ Remaining("load") /\ Fresh(k)
        BY <1>1, <1>3 DEF LoadKey, FInv, Window, Closed, Remaining, Threads
    <2>2. todo[t][k] \in Data /\ k \in Keys
        BY <1>3 DEF LoadKey, IInv, TypeOK, PConf, Data, Keys
    <2>3. \A p \in Param : todo'[t][p] = IF p = k THEN None ELSE todo[t][p]
        BY <1>3 DEF LoadKey, IInv, TypeOK, PConf
    <2>4. UNCHANGED <<jrn, iniOpen>>
        BY <1>3 DEF LoadKey, journal
    <2>5. /\ pc["partner"] = "load" /\ SetRawValue("partner", k, todo[t][k], "DEFAULT", "load")
        BY <1>3, <2>1 DEF LoadKey
    <2> QED BY <1>1, <2>1, <2>2, <2>3, <2>4, <2>5, WindowRaw DEF Remaining
<1>4. CASE LoadEnd(t)
    <2>1. t = "partner" /\ mtx = t /\ Defaults
        BY <1>1, <1>4 DEF LoadEnd, FInv, Window, Closed, Threads, Control, Locks, Without
    <2>2. UNCHANGED <<dict, ini, jrn>> /\ initDone' /\ pc'["partner"] = "changed" /\ pc'["get"] = pc["get"]
        BY <1>4, <2>1 DEF LoadEnd, LoadOver, store, journal, IInv, TypeOK, Threads
    <2>3. Defaults' /\ Remaining("changed")'
        BY <2>1, <2>2 DEF Defaults, Remaining
    <2> QED BY <1>1, <2>2, <2>3 DEF Window, FInv
<1> QED BY <1>1, <1>2, <1>3, <1>4, WindowLoad, WindowJournal DEF ThreadStep

LEMMA WindowSet ==
    ASSUME IoOutcomes = {TRUE}, IInv, FInv, SetStep
    PROVE  Window'
<1>0. SUFFICES ASSUME Closed'
               PROVE  FALSE
    BY DEF Window
<1>1. pc \in [Threads -> Labels] /\ "set" \in Threads
    BY DEF IInv, TypeOK, Threads
<1>2. ASSUME NEW k, NEW v, NEW who, NEW next \in {"idle", "loadJson"},
             OverrideBody(k, v, who, next)
      PROVE  FALSE
    <2>1. CASE pc' = [pc EXCEPT !["set"] = "idle"]
        BY <1>0, <1>1, <2>1 DEF Closed
    <2>2. ASSUME NEW src, SetRawValue("set", k, v, src, next)
          PROVE  FALSE
        BY <1>0, <1>1, <1>2, <2>2, RawPlace DEF Closed, Labels, OverrideBody
    <2> QED BY <1>2, <2>1, <2>2 DEF OverrideBody
<1>3. CASE CallLoadJson
    BY <1>0, <1>1, <1>3 DEF CallLoadJson, LoadFromJson, LoadOver, Closed, Threads
<1>4. CASE OverrideInit \/ ClearDBStart \/ ClearDBEndOpen \/ ClearRfcValues \/ ClearDBEndDone
    BY <1>0, <1>1, <1>4
       DEF OverrideInit, ClearDBStart, ClearDBEndOpen, ClearRfcValues, ClearDBEndDone, Closed
<1> QED BY <1>2, <1>3, <1>4 DEF SetStep, OverrideValue, SetPartnerId

LEMMA WindowPartner ==
    ASSUME IoOutcomes = {TRUE}, IInv, FInv, PartnerStep
    PROVE  Window'
<1>0. SUFFICES ASSUME Closed'
               PROVE  Window'
    BY DEF Window
<1>1. pc \in [Threads -> Labels]
    BY DEF IInv, TypeOK
<1>2. CASE PartnerQuery \/ PartnerBadAnswer
    BY <1>0, <1>1, <1>2 DEF PartnerQuery, PartnerBadAnswer, Closed, FInv, Window, Threads
<1>3. CASE PartnerReset
    <2>1. pc["get"] = "idle"
        BY <1>3, NotFree DEF PartnerReset, CanLock, FInv, Control, Locks
    <2>2. pc'["get"] = "idle" /\ pc'["partner"] = "resetJournal" /\ dict' = Empty
        BY <1>1, <1>3, <2>1 DEF PartnerReset, Threads
    <2> QED BY <2>2 DEF Window, Remaining
<1>4. CASE PartnerResetJournal
    <2>1. /\ Closed /\ dict' = Empty /\ jrn' = EmptyJournal
          /\ pc'["get"] = "idle" /\ pc'["partner"] = "setId"
        BY <1>0, <1>1, <1>4 DEF PartnerResetJournal, Closed, FInv, Window, store, Threads
    <2>2. Defaults' /\ \A k \in Keys : Fresh(k)'
        BY <2>1 DEF Defaults, Fresh, Empty, EmptyJournal
    <2> QED BY <2>1, <2>2 DEF Window, Remaining
<1>5. CASE PartnerSetId
    <2>1. newPid \in Data /\ PID \in Keys /\ PID \notin Param /\ Param \subseteq Keys
        BY <1>5, ConstantsAssumption
           DEF PartnerSetId, IInv, Answered, Data, Keys, ConstantsAssumption
    <2>2. Closed /\ pc["partner"] = "setId"
        BY <1>0, <1>5, RawPlace, <2>1 DEF PartnerSetId, Closed, Labels, Threads
    <2>3. \A k \in Keys : Fresh(k)
        BY <2>2 DEF FInv, Window
    <2>4. /\ SetRawValue("partner", PID, newPid, "DEFAULT", "reload")
          /\ UNCHANGED <<jrn, iniOpen>>
        BY <1>5 DEF PartnerSetId, journal
    <2> QED BY <2>1, <2>2, <2>3, <2>4, WindowRaw
<1>6. CASE PartnerRetrieveNow \/ PartnerStopped
    <2>1. /\ Closed /\ UNCHANGED <<dict, ini, jrn, initDone, firmware>>
          /\ pc["partner"] = "changed" /\ pc'["partner"] = "done" /\ pc'["get"] = pc["get"]
        BY <1>0, <1>1, <1>6 DEF PartnerRetrieveNow, PartnerStopped, Closed, FInv, Window,
                                store, journal, env, Threads
    <2> QED BY <2>1 DEF FInv, Window, Defaults, Remaining, Config
<1> QED BY <1>2, <1>3, <1>4, <1>5, <1>6 DEF PartnerStep

LEMMA WindowStep ==
    ASSUME IoOutcomes = {TRUE}, IInv, FInv, [NextPowerLoss]_vars
    PROVE  Window'
<1>1. CASE UNCHANGED vars
    BY <1>1, WindowSame DEF vars, FInv
<1>2. CASE Stop \/ AuthChange
    BY <1>2, WindowSame DEF Stop, AuthChange, store, journal, FInv
<1>3. CASE Boot
    BY <1>3 DEF Boot, Window, Closed, Threads
<1> QED BY <1>1, <1>2, <1>3, Boots, WindowThread, WindowSet, WindowPartner
        DEF NextPowerLoss, NextCrash, Next

LEMMA PersistedAgain ==
    ASSUME NEW j \in JConf, \A k \in Keys : j[k] # NoRec => ~j[k].clearRfc
    PROVE  Persisted(j) = j
<1>1. ASSUME NEW k \in Keys
      PROVE  Persisted(j)[k] = j[k]
    <2>1. CASE j[k] = NoRec
        BY <2>1 DEF Persisted
    <2>2. CASE j[k] # NoRec
        <3>1. j[k] \in Record /\ j[k].clearRfc = FALSE
            BY <2>2 DEF JConf, Record
        <3>2. [j[k] EXCEPT !.clearRfc = FALSE] = j[k]
            BY <3>1 DEF Record
        <3> QED BY <2>2, <3>2 DEF Persisted
    <2> QED BY <2>1, <2>2
<1> QED BY <1>1 DEF Persisted, JConf

(* Marks do not reach the file.                                            *)
LEMMA PersistedMarks ==
    ASSUME NEW i \in JConf, NEW j \in JConf,
           \A k \in Keys : j[k] = i[k]
                           \/ /\ i[k] # NoRec /\ j[k] # NoRec
                              /\ \E b \in BOOLEAN : j[k] = [i[k] EXCEPT !.clearRfc = b]
    PROVE  Persisted(j) = Persisted(i)
<1>1. ASSUME NEW k \in Keys, i[k] # NoRec, j[k] # NoRec,
             NEW b \in BOOLEAN, j[k] = [i[k] EXCEPT !.clearRfc = b]
      PROVE  [j[k] EXCEPT !.clearRfc = FALSE] = [i[k] EXCEPT !.clearRfc = FALSE]
    <2>1. i[k] \in Record
        BY <1>1 DEF JConf
    <2> QED BY <1>1, <2>1 DEF Record
<1>2. \A k \in Keys : Persisted(j)[k] = Persisted(i)[k]
    BY <1>1 DEF Persisted
<1> QED BY <1>2 DEF Persisted

LEMMA WrittenSame ==
    ASSUME Written, ~Unloaded, UNCHANGED <<store, iniOpen>>,
           pc["set"] = "endClear" => pc'["set"] = "endClear"
    PROVE  Written'
BY DEF Written, store

LEMMA RecordedSame ==
    ASSUME Recorded, jfile' = jfile, Persisted(jrn') = Persisted(jrn),
           \A t \in Threads : pc[t] \in {"endJournal", "loadJournal"} => pc'[t] = pc[t]
    PROVE  Recorded'
BY DEF Recorded, Threads

LEMMA RawFiles ==
    ASSUME IoOutcomes = {TRUE}, FInv, NEW t \in Threads, NEW k, NEW v, NEW src,
           NEW next \in Labels, SetRawValue(t, k, v, src, next), iniOpen' = iniOpen,
           pc[t] \in {"load", "checked", "setId"}, ~Unloaded
    PROVE  /\ Written'
           /\ \A u \in Threads : pc[u] \in {"endJournal", "loadJournal"} => pc'[u] = pc[u]
<1>1. pc \in [Threads -> Labels]
    BY DEF FInv, MInv, IInv, TypeOK
<1>2. \E l : pc' = [pc EXCEPT ![t] = l]
    BY DEF SetRawValue, Goto
<1>3. \A u \in Threads \ {t} : pc'[u] = pc[u]
    BY <1>1, <1>2
<1>4. ini' = dict' \/ UNCHANGED store
    BY DEF SetRawValue
<1>5. UNCHANGED store => Written'
    BY <1>3, WrittenSame DEF FInv, Threads
<1> QED BY <1>3, <1>4, <1>5 DEF Written

Dropped(d, gone) == [k \in Keys |-> IF k \in gone THEN None ELSE d[k]]

LEMMA LoadStores ==
    ASSUME IoOutcomes = {TRUE}, NEW t, NEW d, NEW locked \in BOOLEAN,
           LoadFromJson(t, d, locked)
    PROVE  \/ dict' = d /\ UNCHANGED <<ini, jrn>>
           \/ \E gone \in SUBSET {k \in Param : d[k] # None /\ Source(jrn, k) = "DEFAULT"} :
                 /\ dict' = Dropped(d, gone) /\ ini' = Dropped(d, gone)
                 /\ jrn' = [k \in Keys |-> IF k \in gone THEN NoRec ELSE jrn[k]]
<1> DEFINE config == IF d[PID] = None THEN NoConfig ELSE PartnerConfig(firmware, d[PID])
           gone   == {k \in Param : d[k] # None /\ config[k] = None
                                                /\ Source(jrn, k) = "DEFAULT"}
           kept   == [k \in Keys |-> IF k \in gone THEN None ELSE d[k]]
           cut    == [k \in Keys |-> IF k \in gone THEN NoRec ELSE jrn[k]]
<1>1. \/ dict' = d /\ UNCHANGED <<ini, jrn>>
      \/ dict' = kept /\ ini' = kept /\ jrn' = cut
      \/ FALSE \in IoOutcomes
    <2> HIDE DEF kept, cut, gone, config
    <2> QED BY DEF LoadFromJson, kept, cut, gone, config
<1>2. gone \in SUBSET {k \in Param : d[k] # None /\ Source(jrn, k) = "DEFAULT"}
    OBVIOUS
<1>3. kept = Dropped(d, gone)
    BY DEF Dropped
<1> HIDE DEF kept, gone, config
<1> QED BY <1>1, <1>2, <1>3

LEMMA ThreadFiles ==
    ASSUME IoOutcomes = {TRUE}, FInv, NEW t \in Threads, ThreadStep(t)
    PROVE  Written' /\ Recorded'
<1>1. pc \in [Threads -> Labels] /\ IInv /\ Control /\ Written /\ Recorded
    BY DEF FInv, MInv, IInv, TypeOK
<1>2. iniOpen' = iniOpen /\ (t # "set" => pc'["set"] = pc["set"])
    BY <1>1, ThreadCloses
<1>3. ASSUME NEW d, NEW locked \in BOOLEAN, LoadFromJson(t, d, locked), ini = d, pc[t] \in {"idle", "reload"}
      PROVE  Written' /\ Recorded'
    <2>1. dict' = ini'
        BY <1>3, LoadStores
    <2>2. \/ UNCHANGED jrn
          \/ pc'[t] = "loadJournal"
        BY <1>1, <1>3 DEF LoadFromJson
    <2>3. \A u \in Threads : pc[u] \in {"endJournal", "loadJournal"} => pc'[u] = pc[u]
        BY <1>1, <1>3 DEF LoadFromJson, LoadOver, Threads
    <2>4. jfile' = jfile
        BY <1>3 DEF LoadFromJson
    <2> QED BY <1>1, <2>1, <2>2, <2>3, <2>4, RecordedSame DEF Written, Recorded
<1>4. CASE Load(t)
    BY <1>3, <1>4 DEF Load
<1>5. ASSUME pc[t] # "idle"
      PROVE  ~Unloaded
    BY <1>5 DEF Unloaded, Threads, ThreadStep, Load, SaveRemovals, LoadKey, LoadEnd,
                SetJournalValue
<1>6. CASE SaveRemovals(t)
    BY <1>1, <1>2, <1>5, <1>6, WrittenSame DEF SaveRemovals, Recorded, Threads
<1>7. ASSUME NEW k \in Param, LoadKey(t, k)
      PROVE  Written' /\ Recorded'
    <2>1. /\ UNCHANGED journal /\ SetRawValue(t, k, todo[t][k], "DEFAULT", "load")
          /\ pc[t] = "load"
        BY <1>7 DEF LoadKey
    <2> QED BY <1>1, <1>2, <1>5, <2>1, RawFiles, RecordedSame DEF journal, Labels
<1>8. CASE LoadEnd(t)
    <2>1. UNCHANGED <<store, journal>> /\ pc[t] = "load"
        BY <1>8 DEF LoadEnd
    <2>2. \A u \in Threads : pc[u] \in {"endJournal", "loadJournal"} => pc'[u] = pc[u]
        BY <1>1, <1>8 DEF LoadEnd, LoadOver, Threads
    <2> QED BY <1>1, <1>2, <1>5, <2>1, <2>2, WrittenSame, RecordedSame DEF journal
<1>9. CASE SetJournalValue(t)
    <2>1. UNCHANGED store /\ jfile' = Persisted(jrn') /\ pc[t] \in {"wroteIni", "journal"}
        BY <1>9 DEF SetJournalValue
    <2> QED BY <1>1, <1>2, <1>5, <2>1, WrittenSame DEF Recorded
<1> QED BY <1>4, <1>6, <1>7, <1>8, <1>9 DEF ThreadStep

LEMMA SetFiles ==
    ASSUME IoOutcomes = {TRUE}, FInv, SetStep
    PROVE  Written' /\ Recorded'
<1>1. /\ pc \in [Threads -> Labels] /\ "set" \in Threads
      /\ IInv /\ Control /\ Written /\ Recorded /\ Window
      /\ jrn \in JConf /\ dict \in DConf
    BY DEF FInv, MInv, IInv, TypeOK, Threads, JConf, DConf
<1>2. ASSUME pc["set"] \notin {"idle", "endJournal", "loadJournal"},
             NEW l, pc' = [pc EXCEPT !["set"] = l],
             UNCHANGED jfile, Persisted(jrn') = Persisted(jrn)
      PROVE  Recorded'
    BY <1>1, <1>2, RecordedSame DEF Threads
<1>3. pc["set"] # "idle" => ~Unloaded
    BY DEF Unloaded
<1>4. ASSUME NEW k \in Keys, NEW v, NEW who, NEW next \in {"idle", "loadJson"},
             OverrideBody(k, v, who, next)
      PROVE  Written' /\ Recorded'
    <2>1. pc["set"] = "checked" /\ UNCHANGED <<jfile, iniOpen>>
        BY <1>4 DEF OverrideBody
    <2>2. CASE pc' = [pc EXCEPT !["set"] = "idle"] /\ UNCHANGED <<store, jrn>>
        BY <1>1, <1>2, <1>3, <2>1, <2>2, WrittenSame
    <2>3. ASSUME NEW src, SetRawValue("set", k, v, src, next),
                 jrn' = IF rfcUpdate THEN ResetClearRfc(jrn, k) ELSE jrn
          PROVE  Written' /\ Recorded'
        <3>1. Persisted(jrn') = Persisted(jrn)
            <4>1. CASE jrn' = jrn
                BY <4>1
            <4>2. CASE jrn[k] # NoRec /\ jrn' = [jrn EXCEPT ![k].clearRfc = FALSE]
                <5>1. jrn' = [jrn EXCEPT ![k] = [jrn[k] EXCEPT !.clearRfc = FALSE]]
                    BY <4>2
                <5>2. jrn[k] \in Record
                    BY <1>1, <4>2 DEF JConf
                <5>3. [jrn[k] EXCEPT !.clearRfc = FALSE] \in Record
                    BY <5>2 DEF Record
                <5>4. jrn' \in JConf
                    BY <1>1, <5>1, <5>3 DEF JConf
                <5>5. jrn'[k] # NoRec
                    BY <1>1, <5>1, <5>3, ConstantsAssumption DEF JConf, ConstantsAssumption
                <5>6. \A q \in Keys \ {k} : jrn'[q] = jrn[q]
                    BY <1>1, <5>1 DEF JConf
                <5>7. jrn'[k] = [jrn[k] EXCEPT !.clearRfc = FALSE]
                    BY <1>1, <5>1 DEF JConf
                <5> QED BY <1>1, <4>2, <5>4, <5>5, <5>6, <5>7, PersistedMarks
            <4> QED BY <2>3, <4>1, <4>2 DEF ResetClearRfc
        <3>2. /\ Written'
              /\ \A u \in Threads : pc[u] \in {"endJournal", "loadJournal"} => pc'[u] = pc[u]
            BY <1>1, <1>3, <2>1, <2>3, RawFiles DEF Labels
        <3> QED BY <1>1, <2>1, <3>1, <3>2, RecordedSame
    <2> QED BY <1>4, <2>2, <2>3 DEF OverrideBody
<1>5. ASSUME NEW k \in Param, NEW v, NEW who, OverrideValue(k, v, who)
      PROVE  Written' /\ Recorded'
    BY <1>4, <1>5 DEF OverrideValue, Keys
<1>6. ASSUME NEW p, NEW who, SetPartnerId(p, who)
      PROVE  Written' /\ Recorded'
    BY <1>4, <1>6 DEF SetPartnerId, Keys
<1>7. CASE OverrideInit
    <2>1. ~Unloaded
        BY <1>1, <1>7 DEF OverrideInit, Control, Booting, Unloaded
    <2> QED BY <1>1, <1>7, <2>1, WrittenSame, RecordedSame DEF OverrideInit, journal, Threads
<1>8. CASE CallLoadJson
    <2>1. LoadFromJson("set", dict, FALSE) /\ pc["set"] = "loadJson" /\ dict = ini
        BY <1>1, <1>3, <1>8 DEF CallLoadJson, Written
    <2>2. dict' = ini'
        <3>1. ASSUME NEW locked \in BOOLEAN, LoadFromJson("set", dict, locked)
              PROVE  dict' = ini'
            BY <2>1, <3>1, LoadStores
        <3> QED BY <2>1, <3>1
    <2>3. UNCHANGED jrn \/ pc'["set"] = "loadJournal"
        BY <1>1, <2>1 DEF LoadFromJson
    <2>4. \A u \in Threads : pc[u] \in {"endJournal", "loadJournal"} => pc'[u] = pc[u]
        BY <1>1, <2>1 DEF LoadFromJson, LoadOver, Threads
    <2>5. jfile' = jfile
        BY <2>1 DEF LoadFromJson
    <2> QED BY <1>1, <2>2, <2>3, <2>4, <2>5, RecordedSame DEF Written, Recorded
<1>9. CASE ClearDBStart
    <2>1. \A k \in Keys : jrn'[k] = IF Source(jrn, k) = "RFC"
                                    THEN [jrn[k] EXCEPT !.clearRfc = TRUE] ELSE jrn[k]
        BY <1>9 DEF ClearDBStart
    <2>2. \A k \in Keys : Source(jrn, k) = "RFC" => jrn[k] \in Record
        BY <1>1 DEF Source, JConf
    <2>3. \A r \in Record : [r EXCEPT !.clearRfc = TRUE] \in Record
        BY DEF Record
    <2>4. jrn' \in JConf
        BY <1>1, <1>9, <2>1, <2>2, <2>3 DEF ClearDBStart, JConf
    <2>5. \A k \in Keys : Source(jrn, k) = "RFC" => jrn[k] # NoRec /\ jrn'[k] # NoRec
        BY <2>1, <2>2, <2>3, ConstantsAssumption DEF ConstantsAssumption
    <2>6. Persisted(jrn') = Persisted(jrn)
        BY <1>1, <2>1, <2>4, <2>5, PersistedMarks
    <2> QED BY <1>1, <1>2, <1>3, <1>9, <2>6, WrittenSame DEF ClearDBStart
<1>10. CASE ClearDBEndOpen
    <2>1. ini' = Empty /\ iniOpen' /\ pc' = [pc EXCEPT !["set"] = "endClear"]
          /\ pc["set"] = "checked" /\ UNCHANGED journal
        BY <1>10 DEF ClearDBEndOpen, IInv, TypeOK
    <2> QED BY <1>1, <1>2, <2>1 DEF Written, journal
<1>11. CASE ClearRfcValues
    <2>1. pc'["set"] = "endJournal"
        BY <1>1, <1>11 DEF ClearRfcValues
    <2>2. CASE iniOpen
        BY <1>11, <2>1, <2>2 DEF ClearRfcValues, Written, Recorded
    <2>3. CASE ~iniOpen
        <3>1. dict = ini /\ Closed
            BY <1>1, <1>3, <1>11, <2>3 DEF ClearRfcValues, Written, Closed
        <3>2. \A k \in Reverted : jrn[k].fwValue = dict[k]
            BY <1>1, <3>1 DEF Window, Reverted, Defaults, Empty
        <3>3. dict' = dict
            BY <1>1, <1>11, <3>2 DEF ClearRfcValues, DConf
        <3> QED BY <1>11, <2>1, <2>3, <3>1, <3>3 DEF ClearRfcValues, Written, Recorded
    <2> QED BY <2>2, <2>3
<1>12. CASE ClearDBEndDone
    BY <1>1, <1>3, <1>12, WrittenSame DEF ClearDBEndDone, Recorded
<1> QED BY <1>5, <1>6, <1>7, <1>8, <1>9, <1>10, <1>11, <1>12 DEF SetStep

LEMMA PartnerFiles ==
    ASSUME IoOutcomes = {TRUE}, FInv, PartnerStep
    PROVE  Written' /\ Recorded'
<1>1. /\ pc \in [Threads -> Labels] /\ IInv /\ Control /\ Written /\ Recorded
      /\ newPid \in Partner \union {None}
    BY DEF FInv, MInv, IInv, TypeOK
<1>2. ~Unloaded
    BY DEF PartnerStep, PartnerQuery, PartnerBadAnswer, PartnerReset, PartnerResetJournal,
           PartnerSetId, PartnerRetrieveNow, PartnerStopped, Unloaded
<1>3. CASE PartnerQuery \/ PartnerBadAnswer \/ PartnerRetrieveNow \/ PartnerStopped
    <2>1. /\ UNCHANGED <<store, journal, iniOpen>>
          /\ pc["partner"] \in {"query", "changed"} /\ \E l : pc' = [pc EXCEPT !["partner"] = l]
        BY <1>3 DEF PartnerQuery, PartnerBadAnswer, PartnerRetrieveNow, PartnerStopped
    <2> QED BY <1>1, <1>2, <2>1, WrittenSame, RecordedSame DEF journal, Threads
<1>4. CASE PartnerReset
    BY <1>1, <1>4, RecordedSame DEF PartnerReset, Written, journal, Threads
<1>5. CASE PartnerResetJournal
    <2>1. jfile' = Persisted(jrn')
        BY <1>5 DEF PartnerResetJournal, EmptyJournal, Persisted
    <2> QED BY <1>1, <1>2, <1>5, <2>1, WrittenSame DEF PartnerResetJournal, Recorded, Threads
<1>6. CASE PartnerSetId
    <2>1. /\ SetRawValue("partner", PID, newPid, "DEFAULT", "reload")
          /\ UNCHANGED <<journal, iniOpen>> /\ pc["partner"] = "setId"
        BY <1>6 DEF PartnerSetId
    <2> QED BY <1>1, <1>2, <2>1, RawFiles, RecordedSame DEF journal, Labels, Threads
<1> QED BY <1>3, <1>4, <1>5, <1>6 DEF PartnerStep

LEMMA FilesStep ==
    ASSUME IoOutcomes = {TRUE}, FInv, [NextPowerLoss]_vars
    PROVE  FInv'
<1>1. MInv' /\ Control' /\ Window'
    BY StepType, StepMark, ControlStep, WindowStep DEF FInv, MInv
<1>2. ASSUME UNCHANGED vars \/ Stop \/ AuthChange
      PROVE  Written' /\ Recorded'
    BY <1>2 DEF vars, Stop, AuthChange, store, journal, FInv, Written, Recorded, Unloaded
<1>3. ASSUME Boot
      PROVE  Written' /\ Recorded'
    <2>1. jrn' = jfile' /\ jfile' \in JConf /\ NoMarkSaved'
        BY <1>1, <1>3 DEF Boot, MInv, IInv, TypeOK, JConf
    <2>2. Persisted(jfile') = jfile'
        BY <2>1, PersistedAgain DEF NoMarkSaved
    <2>3. Persisted(jrn)' = Persisted(jrn')
        BY DEF Persisted
    <2> QED BY <1>3, <2>1, <2>2, <2>3 DEF Boot, Written, Recorded, Unloaded, Threads
<1>4. Written' /\ Recorded'
    BY <1>2, <1>3, Boots, ThreadFiles, SetFiles, PartnerFiles DEF NextPowerLoss, NextCrash, Next
<1> QED BY <1>1, <1>4 DEF FInv

LEMMA FilesInit == Init => FInv
<1> SUFFICES ASSUME Init PROVE FInv
    OBVIOUS
<1>1. IInv /\ Control
    BY InitType, ControlInit
<1>2. MarkedNotWebPa /\ NoMarkSaved
    BY DEF Init, EmptyJournal, MarkedNotWebPa, NoMarkSaved
<1>3. Window /\ Written /\ Recorded
    BY DEF Init, Window, Closed, Written, Recorded, EmptyJournal, Persisted, Threads
<1> QED BY <1>1, <1>2, <1>3 DEF FInv, MInv

LEMMA FilesAlways ==
    ASSUME IoOutcomes = {TRUE}
    PROVE  SpecPowerLoss => []FInv
BY FilesInit, FilesStep, PTL DEF SpecPowerLoss

(* As long as every file can be opened for writing, even when processes    *)
(* die and files are left half written: when no update is under way the    *)
(* two files hold what the cache and the journal hold.                     *)
THEOREM FilesFollow ==
    ASSUME IoOutcomes = {TRUE}
    PROVE  SpecPowerLoss => []FilesMatch
<1>1. FInv => FilesMatch
    BY DEF FInv, Control, Booting, Written, Recorded, FilesMatch, Updating, Unloaded, Threads
<1> QED BY <1>1, FilesAlways, PTL

-----------------------------------------------------------------------------
(* The overrides and their records, when every write succeeds.             *)

Overridden(k) == jrn[k] # NoRec /\ jrn[k].source # "DEFAULT"

(* The override of k is in the cache, and on its way to the journal.       *)
Overrides(k) == OwnCall /\ call["set"].key = k

NoOverride == \A k \in Keys : ~Overridden(k)

Backs(d) == \A k \in Keys : Overridden(k) => d[k] # None

Agrees(d) ==
    \A k \in Keys : Overridden(k) /\ d[k] # None /\ ~Overrides(k)
                        => Lower[d[k]] = Lower[jrn[k].updatedValue]

(* A store that the partner thread has replaced has no overrides until the *)
(* thread of the sets makes one.                                           *)
Replaced ==
    /\ pc["partner"] = "setId" => NoOverride
    /\ ~initDone /\ pc["set"] \in {"checked", "endClear"} => NoOverride

Backed ==
    /\ Unloaded => Backs(ini) /\ Agrees(ini)
    /\ ~Unloaded /\ pc["partner"] # "resetJournal" => Backs(dict)
    /\ Agrees(dict)
    /\ OwnCall => /\ dict[call["set"].key] # None
                  /\ Lower[dict[call["set"].key]] = Lower[call["set"].value]

Marks ==
    (~rfcUpdate \/ pc["set"] = "endJournal") /\ pc["partner"] # "resetJournal"
        => \A k \in Keys : Overridden(k) => ~jrn[k].clearRfc

OInv == FInv /\ Replaced /\ Backed /\ Marks

(* A step that makes nobody the owner of a parameter.                      *)
OwnersKept ==
    \A k \in Keys : Overridden(k)' =>
        Overridden(k) /\ jrn'[k].updatedValue = jrn[k].updatedValue

CallKept == OwnCall => OwnCall' /\ call'["set"] = call["set"]

LEMMA JournalOwners ==
    ASSUME FInv, IoOutcomes = {TRUE}, NEW t \in Threads, SetJournalValue(t),
           ~(t = "set" /\ OwnCall)
    PROVE  OwnersKept /\ CallKept
<1>1. /\ call[t] \in Call /\ call[t] # NoCall /\ call[t].source = "DEFAULT"
      /\ jrn \in JConf /\ call \in [Threads -> Call \union {NoCall}]
    BY DEF SetJournalValue, FInv, MInv, IInv, TypeOK, InCall, JConf, Control, Calls,
           OwnCall, Threads
<1> DEFINE key == call[t].key
<1>2. PICK r \in NewRecords(jrn, key, call[t].value, "DEFAULT") :
          jrn' = [jrn EXCEPT ![key] = r]
    BY <1>1 DEF SetJournalValue, NewJournals
<1>3. key \in Keys /\ call[t].value \in Data
    BY <1>1 DEF Call
<1> HIDE DEF key
<1>4. CASE jrn[key] = NoRec
    <2>1. r.source = "DEFAULT"
        BY <1>2, <1>4 DEF NewRecords
    <2> QED BY <1>1, <1>2, <1>3, <2>1 DEF OwnersKept, Overridden, JConf,
                CallKept, OwnCall, SetJournalValue, Threads
<1>5. CASE jrn[key] # NoRec
    <2>1. r = [jrn[key] EXCEPT !.fwValue = call[t].value] /\ jrn[key] \in Record
        BY <1>1, <1>2, <1>3, <1>5 DEF NewRecords, JConf
    <2>2. r.source = jrn[key].source /\ r.updatedValue = jrn[key].updatedValue
        BY <2>1 DEF Record
    <2> QED BY <1>1, <1>2, <1>3, <1>5, <2>2 DEF OwnersKept, Overridden, JConf,
                CallKept, OwnCall, SetJournalValue, Threads
<1> QED BY <1>4, <1>5

LEMMA RawCallKept ==
    ASSUME FInv, NEW t \in Threads, NEW k, NEW v, NEW src, NEW next,
           SetRawValue(t, k, v, src, next), call["set"] = NoCall \/ t # "set"
    PROVE  CallKept
BY DEF SetRawValue, CallKept, OwnCall, FInv, MInv, IInv, TypeOK, Threads

LEMMA LoadOwners ==
    ASSUME FInv, IoOutcomes = {TRUE}, NEW t \in Threads, NEW d, NEW locked \in BOOLEAN,
           LoadFromJson(t, d, locked)
    PROVE  OwnersKept /\ CallKept
<1>1. CASE UNCHANGED jrn
    BY <1>1 DEF OwnersKept, Overridden, CallKept, OwnCall, LoadFromJson
<1>2. ASSUME NEW gone, jrn' = [k \in Keys |-> IF k \in gone THEN NoRec ELSE jrn[k]]
      PROVE  OwnersKept /\ CallKept
    BY <1>2 DEF OwnersKept, Overridden, CallKept, OwnCall, LoadFromJson
<1> QED BY <1>1, <1>2, LoadStores

LEMMA ThreadOwners ==
    ASSUME FInv, IoOutcomes = {TRUE}, NEW t \in Threads, ThreadStep(t),
           ~(t = "set" /\ OwnCall)
    PROVE  OwnersKept /\ CallKept
<1>1. CASE Load(t)
    BY <1>1, LoadOwners DEF Load
<1>2. CASE SaveRemovals(t) \/ LoadEnd(t)
    BY <1>2 DEF SaveRemovals, LoadEnd, journal, OwnersKept, Overridden, CallKept, OwnCall
<1>3. ASSUME NEW k \in Param, LoadKey(t, k)
      PROVE  OwnersKept /\ CallKept
    <2>1. OwnersKept
        BY <1>3 DEF LoadKey, journal, OwnersKept, Overridden
    <2>2. call[t] = NoCall
        BY <1>3 DEF LoadKey, FInv, Control, Calls
    <2> QED BY <1>3, <2>1, <2>2, RawCallKept DEF LoadKey
<1> QED BY <1>1, <1>2, <1>3, JournalOwners DEF ThreadStep

LEMMA SetOwners ==
    ASSUME FInv, IoOutcomes = {TRUE}, SetStep
    PROVE  OwnersKept /\ CallKept
<1>1. jrn \in JConf
    BY DEF FInv, MInv, IInv, TypeOK, JConf
<1>2. ASSUME NEW k \in Keys, NEW v, NEW who, NEW next, OverrideBody(k, v, who, next)
      PROVE  OwnersKept /\ CallKept
    <2>1. OwnersKept
        <3>1. CASE jrn' = jrn
            BY <3>1 DEF OwnersKept, Overridden
        <3>2. CASE jrn[k] # NoRec /\ jrn' = [jrn EXCEPT ![k].clearRfc = FALSE]
            <4>1. jrn[k] \in Record
                BY <1>1, <3>2 DEF JConf
            <4>2. jrn' = [jrn EXCEPT ![k] = [jrn[k] EXCEPT !.clearRfc = FALSE]]
                BY <3>2
            <4>3. /\ [jrn[k] EXCEPT !.clearRfc = FALSE].source = jrn[k].source
                  /\ [jrn[k] EXCEPT !.clearRfc = FALSE].updatedValue = jrn[k].updatedValue
                BY <4>1 DEF Record
            <4> QED BY <1>1, <3>2, <4>2, <4>3 DEF OwnersKept, Overridden, JConf
        <3> QED BY <1>2, <3>1, <3>2 DEF OverrideBody, ResetClearRfc
    <2>2. call["set"] = NoCall
        BY <1>2 DEF OverrideBody, FInv, Control, Calls, Threads
    <2> QED BY <2>1, <2>2 DEF CallKept, OwnCall
<1>3. ASSUME NEW k \in Param, NEW v, NEW who, OverrideValue(k, v, who)
      PROVE  OwnersKept /\ CallKept
    BY <1>2, <1>3 DEF OverrideValue, Keys
<1>4. ASSUME NEW p, NEW who, SetPartnerId(p, who)
      PROVE  OwnersKept /\ CallKept
    BY <1>2, <1>4 DEF SetPartnerId, Keys
<1>5. CASE CallLoadJson
    BY <1>5, LoadOwners DEF CallLoadJson, Threads
<1>6. CASE OverrideInit \/ ClearDBEndOpen \/ ClearDBEndDone
    BY <1>6 DEF OverrideInit, ClearDBEndOpen, ClearDBEndDone, journal, OwnersKept,
                Overridden, CallKept, OwnCall
<1>7. CASE ClearDBStart
    <2>1. ASSUME NEW k \in Keys, Overridden(k)'
          PROVE  Overridden(k) /\ jrn'[k].updatedValue = jrn[k].updatedValue
        <3>1. CASE Source(jrn, k) = "RFC"
            <4>1. jrn[k] \in Record /\ jrn[k].source = "RFC" /\ jrn[k] # NoRec
                BY <1>1, <3>1 DEF Source, JConf
            <4>2. jrn'[k] = [jrn[k] EXCEPT !.clearRfc = TRUE]
                BY <1>7, <3>1 DEF ClearDBStart
            <4> QED BY <4>1, <4>2 DEF Overridden, Record
        <3>2. CASE Source(jrn, k) # "RFC"
            BY <1>7, <2>1, <3>2 DEF ClearDBStart, Overridden
        <3> QED BY <3>1, <3>2
    <2> QED BY <1>7, <2>1 DEF OwnersKept, ClearDBStart, CallKept, OwnCall
<1>8. CASE ClearRfcValues
    BY <1>8 DEF ClearRfcValues, OwnersKept, Overridden, CallKept, OwnCall
<1> QED BY <1>3, <1>4, <1>5, <1>6, <1>7, <1>8 DEF SetStep

LEMMA PartnerOwners ==
    ASSUME FInv, PartnerStep
    PROVE  OwnersKept /\ CallKept
<1>1. CASE PartnerQuery \/ PartnerBadAnswer \/ PartnerReset \/ PartnerRetrieveNow
           \/ PartnerStopped
    BY <1>1 DEF PartnerQuery, PartnerBadAnswer, PartnerReset, PartnerRetrieveNow,
                PartnerStopped, journal, OwnersKept, Overridden, CallKept, OwnCall
<1>2. CASE PartnerResetJournal
    BY <1>2 DEF PartnerResetJournal, EmptyJournal, OwnersKept, Overridden, CallKept, OwnCall
<1>3. CASE PartnerSetId
    <2>1. OwnersKept
        BY <1>3 DEF PartnerSetId, journal, OwnersKept, Overridden
    <2> QED BY <1>3, <2>1, RawCallKept DEF PartnerSetId, Threads
<1> QED BY <1>1, <1>2, <1>3 DEF PartnerStep

(* Who makes an override holds the lock.                                   *)
LEMMA OwnLocked ==
    ASSUME FInv, OwnCall
    PROVE  /\ mtx = "set" /\ pc["get"] = "idle" /\ pc["partner"] \in Without
           /\ pc["set"] \in {"wroteIni", "journal"}
BY NotFree DEF FInv, Control, Locks, Calls, OwnCall, Threads

LEMMA ReplacedKept ==
    ASSUME Replaced, OwnersKept,
           pc'["partner"] = "setId" => pc["partner"] = "setId",
           initDone /\ ~initDone' => pc["partner"] = "setId",
           ~initDone /\ pc'["set"] \in {"checked", "endClear"}
               => pc["set"] \in {"checked", "endClear"}
    PROVE  Replaced'
BY DEF Replaced, OwnersKept, NoOverride

LEMMA RawPlaces ==
    ASSUME IInv, NEW t \in Threads, NEW k, NEW v, NEW src,
           NEW next \in {"idle", "load", "loadJson", "reload"},
           SetRawValue(t, k, v, src, next)
    PROVE  /\ \A u \in Threads \ {t} : pc'[u] = pc[u]
           /\ pc'[t] \in {"idle", "load", "loadJson", "reload", "wroteIni", "journal"}
<1>1. pc \in [Threads -> Labels]
    BY DEF IInv, TypeOK
<1>2. \E l \in {"idle", "load", "loadJson", "reload", "wroteIni", "journal"} :
          pc' = [pc EXCEPT ![t] = l]
    <2>1. CASE pc' = [pc EXCEPT ![t] = IF next = "loadJson" THEN "idle" ELSE next]
        BY <2>1
    <2>2. CASE \E l \in {next, "wroteIni", "journal"} : pc' = [pc EXCEPT ![t] = l]
        BY <2>2
    <2> QED BY <2>1, <2>2 DEF SetRawValue, Goto
<1> QED BY <1>1, <1>2

LEMMA ThreadPlaces ==
    ASSUME FInv, NEW t \in Threads, ThreadStep(t)
    PROVE  /\ \A u \in Threads \ {t, "partner"} : pc'[u] = pc[u]
           /\ t # "partner" /\ pc["partner"] # "off" => pc'["partner"] = pc["partner"]
           /\ t # "partner" /\ pc["partner"] = "off" => pc'["partner"] \in {"off", "query"}
           /\ pc'[t] \in {"idle", "load", "loadJson", "loadJournal", "reload", "changed",
                          "wroteIni", "journal"}
           /\ pc[t] \notin {"checked", "endClear", "endJournal", "resetJournal", "setId"}
<1>1. pc \in [Threads -> Labels] /\ IInv /\ Control
    BY DEF FInv, MInv, IInv, TypeOK
<1>2. CASE Load(t) \/ SaveRemovals(t) \/ LoadEnd(t)
    BY <1>1, <1>2 DEF Load, LoadFromJson, LoadOver, SaveRemovals, LoadEnd, Threads
<1>3. ASSUME NEW k \in Param, LoadKey(t, k)
      PROVE  /\ \A u \in Threads \ {t} : pc'[u] = pc[u]
             /\ pc'[t] \in {"idle", "load", "loadJson", "reload", "wroteIni", "journal"}
             /\ pc[t] = "load"
    BY <1>1, <1>3, RawPlaces DEF LoadKey
<1>4. CASE SetJournalValue(t)
    <2>1. call[t] \in Call
        BY <1>1, <1>4 DEF SetJournalValue, IInv, TypeOK, InCall
    <2> QED BY <1>1, <1>4, <2>1 DEF SetJournalValue, Goto, Call, Threads
<1> QED BY <1>2, <1>3, <1>4 DEF ThreadStep, Threads

LEMMA ThreadReplaced ==
    ASSUME IoOutcomes = {TRUE}, OInv, NEW t \in Threads, ThreadStep(t)
    PROVE  Replaced'
<1>1. FInv /\ Replaced
    BY DEF OInv
<1>2. initDone /\ ~initDone' => FALSE
    <2>1. CASE Load(t)
        BY <2>1 DEF Load
    <2>2. ASSUME ~Load(t)
          PROVE  initDone => initDone'
        BY <2>2 DEF ThreadStep, SaveRemovals, LoadKey, LoadEnd, LoadOver, SetJournalValue
    <2> QED BY <2>1, <2>2
<1>3. CASE ~(t = "set" /\ OwnCall)
    <2>1. OwnersKept
        BY <1>1, <1>3, ThreadOwners
    <2> QED BY <1>1, <1>2, <2>1, ThreadPlaces, ReplacedKept DEF Threads
<1>4. CASE t = "set" /\ OwnCall
    <2>1. pc'["partner"] # "setId"
        BY <1>1, <1>4, ThreadPlaces, OwnLocked DEF Without, Threads
    <2>2. pc'["set"] \notin {"checked", "endClear"}
        BY <1>1, <1>4, ThreadPlaces
    <2> QED BY <2>1, <2>2 DEF Replaced
<1> QED BY <1>3, <1>4

LEMMA SetReplaced ==
    ASSUME IoOutcomes = {TRUE}, OInv, SetStep
    PROVE  Replaced'
<1>1. FInv /\ Replaced /\ OwnersKept /\ IInv
    BY SetOwners DEF OInv, FInv, MInv
<1>2. pc \in [Threads -> Labels]
    BY <1>1 DEF IInv, TypeOK
<1>3. ASSUME NEW k, NEW v, NEW who, NEW next \in {"idle", "loadJson"},
             OverrideBody(k, v, who, next)
      PROVE  Replaced'
    <2>1. CASE pc' = [pc EXCEPT !["set"] = "idle"]
        BY <1>1, <1>2, <1>3, <2>1, ReplacedKept DEF OverrideBody, Threads
    <2>2. ASSUME NEW src, SetRawValue("set", k, v, src, next)
          PROVE  Replaced'
        BY <1>1, <1>3, <2>2, RawPlaces, ReplacedKept DEF OverrideBody, Threads
    <2> QED BY <1>3, <2>1, <2>2 DEF OverrideBody
<1>4. CASE CallLoadJson
    <2>1. UNCHANGED initDone /\ pc'["set"] \in {"idle", "load", "loadJournal"}
          /\ (pc'["partner"] = "setId" => pc["partner"] = "setId")
        BY <1>2, <1>4 DEF CallLoadJson, LoadFromJson, LoadOver, Threads
    <2> QED BY <1>1, <2>1, ReplacedKept
<1>5. CASE OverrideInit \/ ClearDBStart \/ ClearDBEndOpen \/ ClearRfcValues \/ ClearDBEndDone
    <2>1. /\ UNCHANGED initDone /\ pc'["partner"] = pc["partner"]
          /\ ~initDone /\ pc'["set"] \in {"checked", "endClear"} => pc["set"] = "checked"
        BY <1>2, <1>5
           DEF OverrideInit, ClearDBStart, ClearDBEndOpen, ClearRfcValues, ClearDBEndDone,
               Threads
    <2> QED BY <1>1, <2>1, ReplacedKept
<1> QED BY <1>3, <1>4, <1>5 DEF SetStep, OverrideValue, SetPartnerId

LEMMA PartnerReplaced ==
    ASSUME OInv, PartnerStep
    PROVE  Replaced'
<1>1. FInv /\ Replaced /\ OwnersKept /\ IInv
    BY PartnerOwners DEF OInv, FInv, MInv
<1>2. pc \in [Threads -> Labels]
    BY <1>1 DEF IInv, TypeOK
<1>3. CASE PartnerResetJournal
    BY <1>3 DEF PartnerResetJournal, EmptyJournal, Replaced, NoOverride, Overridden
<1>4. CASE PartnerSetId
    <2>1. pc["partner"] = "setId" /\ pc'["set"] = pc["set"] /\ pc'["partner"] # "setId"
        BY <1>1, <1>4, RawPlaces DEF PartnerSetId, Threads
    <2> QED BY <1>1, <2>1, ReplacedKept
<1>5. CASE PartnerQuery \/ PartnerBadAnswer \/ PartnerReset \/ PartnerRetrieveNow
           \/ PartnerStopped
    <2>1. UNCHANGED initDone /\ pc'["set"] = pc["set"] /\ pc'["partner"] # "setId"
        BY <1>2, <1>5 DEF PartnerQuery, PartnerBadAnswer, PartnerReset, PartnerRetrieveNow,
                          PartnerStopped, Threads
    <2> QED BY <1>1, <2>1, ReplacedKept
<1> QED BY <1>3, <1>4, <1>5 DEF PartnerStep

(* A step that marks no record of an override.                             *)
MarksKept ==
    \A k \in Keys : Overridden(k)' /\ jrn'[k].clearRfc => Overridden(k) /\ jrn[k].clearRfc

LEMMA MarksSame ==
    ASSUME Marks, MarksKept, rfcUpdate' = rfcUpdate,
           pc'["set"] = "endJournal" => pc["set"] = "endJournal",
           pc["partner"] = "resetJournal" => pc'["partner"] = "resetJournal"
    PROVE  Marks'
BY DEF Marks, MarksKept

LEMMA SameMarks ==
    ASSUME jrn' = jrn
    PROVE  MarksKept
BY DEF MarksKept, Overridden

LEMMA JournalMarks ==
    ASSUME IoOutcomes = {TRUE}, FInv, NEW t \in Threads, SetJournalValue(t)
    PROVE  MarksKept
<1>1. call[t] \in Call /\ call[t] # NoCall /\ jrn \in JConf
    BY DEF SetJournalValue, FInv, MInv, IInv, TypeOK, InCall, JConf
<1> DEFINE key == call[t].key
<1>2. PICK r \in NewRecords(jrn, key, call[t].value, call[t].source) :
          jrn' = [jrn EXCEPT ![key] = r]
    BY <1>1 DEF SetJournalValue, NewJournals
<1>3. key \in Keys
    BY <1>1 DEF Call
<1> HIDE DEF key
<1>4. r.source # "DEFAULT" /\ r.clearRfc =>
          jrn[key] # NoRec /\ jrn[key].source # "DEFAULT" /\ jrn[key].clearRfc
    <2>1. CASE call[t].source # "DEFAULT"
        BY <1>2, <2>1 DEF NewRecords
    <2>2. CASE call[t].source = "DEFAULT" /\ jrn[key] = NoRec
        BY <1>2, <2>2 DEF NewRecords
    <2>3. CASE call[t].source = "DEFAULT" /\ jrn[key] # NoRec
        <3>1. r = [jrn[key] EXCEPT !.fwValue = call[t].value] /\ jrn[key] \in Record
            BY <1>1, <1>2, <1>3, <2>3 DEF NewRecords, JConf
        <3>2. r.source = jrn[key].source /\ r.clearRfc = jrn[key].clearRfc
            BY <3>1 DEF Record
        <3> QED BY <2>3, <3>2
    <2> QED BY <2>1, <2>2, <2>3
<1>5. \A k \in Keys : jrn'[k] = IF k = key THEN r ELSE jrn[k]
    BY <1>1, <1>2 DEF JConf
<1> QED BY <1>3, <1>4, <1>5 DEF MarksKept, Overridden

LEMMA LoadMarks ==
    ASSUME IoOutcomes = {TRUE}, NEW t, NEW d, NEW locked \in BOOLEAN,
           LoadFromJson(t, d, locked)
    PROVE  MarksKept
<1>1. ASSUME NEW gone, jrn' = [k \in Keys |-> IF k \in gone THEN NoRec ELSE jrn[k]]
      PROVE  MarksKept
    BY <1>1 DEF MarksKept, Overridden
<1> QED BY <1>1, SameMarks, LoadStores

LEMMA ThreadMarks ==
    ASSUME IoOutcomes = {TRUE}, OInv, NEW t \in Threads, ThreadStep(t)
    PROVE  Marks'
<1>1. FInv /\ Marks
    BY DEF OInv
<1>2. rfcUpdate' = rfcUpdate
    BY DEF ThreadStep, Load, LoadFromJson, SaveRemovals, LoadKey, LoadEnd, SetJournalValue
<1>3. MarksKept
    <2>1. CASE Load(t)
        BY <2>1, LoadMarks DEF Load
    <2>2. CASE jrn' = jrn
        BY <2>2, SameMarks
    <2>3. CASE SetJournalValue(t)
        BY <1>1, <2>3, JournalMarks
    <2>4. (SaveRemovals(t) \/ LoadEnd(t) \/ \E k \in Param : LoadKey(t, k)) => jrn' = jrn
        BY DEF SaveRemovals, LoadKey, LoadEnd, journal
    <2> QED BY <2>1, <2>2, <2>3, <2>4 DEF ThreadStep
<1>4. /\ pc'["set"] = "endJournal" => pc["set"] = "endJournal"
      /\ pc["partner"] = "resetJournal" => pc'["partner"] = "resetJournal"
    BY <1>1, ThreadPlaces DEF Threads
<1> QED BY <1>1, <1>2, <1>3, <1>4, MarksSame

LEMMA SetMarks ==
    ASSUME IoOutcomes = {TRUE}, OInv, SetStep
    PROVE  Marks'
<1>1. /\ FInv /\ Marks /\ IInv /\ jrn \in JConf /\ pc \in [Threads -> Labels]
      /\ "set" \in Threads /\ "partner" \in Threads
    BY DEF OInv, FInv, MInv, IInv, TypeOK, JConf, Threads
<1>2. ASSUME NEW k \in Keys, NEW v, NEW who, NEW next \in {"idle", "loadJson"},
             OverrideBody(k, v, who, next)
      PROVE  Marks'
    <2>1. MarksKept
        <3>1. CASE jrn' = jrn
            BY <3>1, SameMarks
        <3>2. CASE jrn[k] # NoRec /\ jrn' = [jrn EXCEPT ![k].clearRfc = FALSE]
            <4>1. jrn[k] \in Record
                BY <1>1, <3>2 DEF JConf
            <4>2. jrn' = [jrn EXCEPT ![k] = [jrn[k] EXCEPT !.clearRfc = FALSE]]
                BY <3>2
            <4>3. ~[jrn[k] EXCEPT !.clearRfc = FALSE].clearRfc
                BY <4>1 DEF Record
            <4>4. \A q \in Keys : q # k => jrn'[q] = jrn[q]
                BY <1>1, <4>2 DEF JConf
            <4>5. ~jrn'[k].clearRfc
                BY <1>1, <4>2, <4>3 DEF JConf
            <4> QED BY <4>4, <4>5 DEF MarksKept, Overridden
        <3> QED BY <1>2, <3>1, <3>2 DEF OverrideBody, ResetClearRfc
    <2>2. pc["set"] = "checked" /\ rfcUpdate' = rfcUpdate
        BY <1>2 DEF OverrideBody
    <2>3. pc'["set"] # "endJournal" /\ pc'["partner"] = pc["partner"]
        <3>1. CASE pc' = [pc EXCEPT !["set"] = "idle"]
            BY <1>1, <3>1
        <3>2. ASSUME NEW src, SetRawValue("set", k, v, src, next)
              PROVE  pc'["set"] # "endJournal" /\ pc'["partner"] = pc["partner"]
            BY <1>1, <3>2, RawPlaces
        <3> QED BY <1>2, <3>1, <3>2 DEF OverrideBody
    <2> QED BY <1>1, <2>1, <2>2, <2>3, MarksSame
<1>3. ASSUME NEW k \in Param, NEW v, NEW who, OverrideValue(k, v, who)
      PROVE  Marks'
    BY <1>2, <1>3 DEF OverrideValue, Keys
<1>4. ASSUME NEW p, NEW who, SetPartnerId(p, who)
      PROVE  Marks'
    BY <1>2, <1>4 DEF SetPartnerId, Keys
<1>5. CASE CallLoadJson
    <2>1. MarksKept
        BY <1>5, LoadMarks DEF CallLoadJson
    <2>2. /\ rfcUpdate' = rfcUpdate /\ pc'["set"] # "endJournal"
          /\ pc["partner"] = "resetJournal" => pc'["partner"] = "resetJournal"
        BY <1>1, <1>5 DEF CallLoadJson, LoadFromJson, LoadOver
    <2> QED BY <1>1, <2>1, <2>2, MarksSame
<1>6. CASE OverrideInit \/ ClearDBEndOpen
    <2>1. /\ jrn' = jrn /\ rfcUpdate' = rfcUpdate /\ pc'["set"] \in {"checked", "endClear"}
          /\ pc'["partner"] = pc["partner"]
        BY <1>1, <1>6 DEF OverrideInit, ClearDBEndOpen, journal
    <2> QED BY <1>1, <2>1, SameMarks, MarksSame
<1>7. CASE ClearDBStart
    BY <1>1, <1>7 DEF ClearDBStart, Marks
<1>8. CASE ClearRfcValues
    <2>1. SUFFICES ASSUME pc["partner"] # "resetJournal", NEW k \in Keys, Overridden(k)',
                          jrn'[k].clearRfc
                   PROVE  FALSE
        BY <1>1, <1>8 DEF ClearRfcValues, Marks
    <2>2. pc["set"] = "endClear" /\ ~Unloaded
        BY <1>8 DEF ClearRfcValues, Unloaded
    <2>3. k \notin Reverted
        BY <1>8, <2>1 DEF ClearRfcValues, Overridden
    <2>4. Overridden(k) /\ jrn[k].clearRfc
        BY <1>8, <2>1, <2>3 DEF ClearRfcValues, Overridden
    <2>5. dict[k] # None
        BY <2>1, <2>2, <2>4 DEF OInv, Backed, Backs
    <2> QED BY <2>3, <2>4, <2>5 DEF Reverted, Overridden
<1>9. CASE ClearDBEndDone
    <2>1. pc["set"] = "endJournal" /\ jrn' = jrn /\ pc'["partner"] = pc["partner"]
        BY <1>1, <1>9 DEF ClearDBEndDone
    <2> QED BY <1>1, <2>1 DEF Marks, Overridden
<1> QED BY <1>3, <1>4, <1>5, <1>6, <1>7, <1>8, <1>9 DEF SetStep

LEMMA PartnerMarks ==
    ASSUME OInv, PartnerStep
    PROVE  Marks'
<1>1. FInv /\ Marks /\ IInv /\ pc \in [Threads -> Labels]
    BY DEF OInv, FInv, MInv, IInv, TypeOK
<1>2. CASE PartnerResetJournal
    BY <1>2 DEF PartnerResetJournal, EmptyJournal, Marks, Overridden
<1>3. CASE PartnerSetId
    <2>1. /\ pc["partner"] = "setId" /\ pc'["set"] = pc["set"] /\ jrn' = jrn
          /\ rfcUpdate' = rfcUpdate
        BY <1>1, <1>3, RawPlaces DEF PartnerSetId, journal, Threads
    <2> QED BY <1>1, <2>1, SameMarks, MarksSame
<1>4. CASE PartnerQuery \/ PartnerBadAnswer \/ PartnerReset \/ PartnerRetrieveNow
           \/ PartnerStopped
    <2>1. /\ pc["partner"] # "resetJournal" /\ pc'["set"] = pc["set"] /\ jrn' = jrn
          /\ rfcUpdate' = rfcUpdate
        BY <1>1, <1>4 DEF PartnerQuery, PartnerBadAnswer, PartnerReset, PartnerRetrieveNow,
                          PartnerStopped, journal, Threads
    <2> QED BY <1>1, <2>1, SameMarks, MarksSame
<1> QED BY <1>2, <1>3, <1>4 DEF PartnerStep

LEMMA BackedSame ==
    ASSUME Backed, OwnersKept, CallKept, OwnCall' => OwnCall, dict' = dict,
           ~Unloaded, ~Unloaded',
           pc["partner"] = "resetJournal" => pc'["partner"] = "resetJournal"
    PROVE  Backed'
<1>1. Backs(dict)' \/ pc'["partner"] = "resetJournal"
    BY DEF Backed, OwnersKept, Backs
<1>2. Agrees(dict)'
    BY DEF Backed, OwnersKept, CallKept, Agrees, Overrides
<1> QED BY <1>1, <1>2 DEF Backed, CallKept

(* Once the partner thread runs the store is loaded.                       *)
LEMMA StaysLoaded ==
    ASSUME Control, Control', pc["partner"] # "off" => pc'["partner"] # "off",
           pc["set"] \in {"checked", "loadJson", "endClear", "endJournal"}
               \/ pc["partner"] # "off"
    PROVE  ~Unloaded /\ ~Unloaded'
BY DEF Control, Booting, Unloaded, Loading

LEMMA SourceOverridden ==
    ASSUME FInv, NEW k \in Keys
    PROVE  Source(jrn, k) \in {"RFC", "WEBPA"} <=> Overridden(k)
<1>1. jrn[k] \in Record \union {NoRec}
    BY DEF FInv, MInv, IInv, TypeOK
<1> QED BY <1>1 DEF Source, Overridden, Record, Sources

LEMMA NoCallUpdate ==
    ASSUME NEW k \in Keys, NEW v \in Data, NEW src \in Sources,
           NEW next \in {"idle", "load", "loadJson", "reload"}
    PROVE  [key |-> k, value |-> v, source |-> src, next |-> next] # NoCall
BY ConstantsAssumption DEF ConstantsAssumption, Call

LEMMA RawBacked ==
    ASSUME IoOutcomes = {TRUE}, FInv, Backed, OwnersKept, ~OwnCall, ~Unloaded, ~Unloaded',
           NEW t \in Threads, NEW k \in Keys, NEW v \in Data, NEW src \in Sources,
           NEW next \in {"idle", "load", "loadJson", "reload"},
           SetRawValue(t, k, v, src, next), src # "DEFAULT" => t = "set",
           pc["partner"] = "resetJournal" => pc'["partner"] = "resetJournal",
           call[t] = NoCall
    PROVE  Backed'
<1>1. /\ dict \in DConf /\ call \in [Threads -> Call \union {NoCall}]
      /\ v # None /\ "set" \in Threads
    BY ConstantsAssumption
       DEF FInv, MInv, IInv, TypeOK, DConf, ConstantsAssumption, Threads
<1> DEFINE update == [key |-> k, value |-> v, source |-> src, next |-> next]
<1>2. CASE UNCHANGED <<store, call>>
    <2>1. dict' = dict /\ CallKept /\ ~OwnCall'
        BY <1>2 DEF store, CallKept, OwnCall
    <2> QED BY <2>1, BackedSame
<1>3. CASE call' = [call EXCEPT ![t] = update]
    <2>1. OwnCall' => t = "set" /\ src # "DEFAULT" /\ call'["set"] = update
        BY <1>1, <1>3 DEF OwnCall
    <2>2. ASSUME dict' = dict, src # "DEFAULT" => SameValue(k, v)
          PROVE  Backed'
        <3>1. Backs(dict)' \/ pc'["partner"] = "resetJournal"
            BY <2>2 DEF Backed, OwnersKept, Backs
        <3>2. Agrees(dict)'
            BY <2>2 DEF Backed, OwnersKept, OwnCall, Agrees, Overrides
        <3>3. OwnCall' => dict'[call'["set"].key] # None
                          /\ Lower[dict'[call'["set"].key]] = Lower[call'["set"].value]
            BY <2>1, <2>2 DEF SameValue
        <3> QED BY <3>1, <3>2, <3>3 DEF Backed
    <2>3. ASSUME dict' = [dict EXCEPT ![k] = v], ~KeepActive(k, src)
          PROVE  Backed'
        <3>1. /\ dict'[k] = v /\ \A q \in Keys \ {k} : dict'[q] = dict[q]
            BY <1>1, <2>3 DEF DConf
        <3>2. Backs(dict)' \/ pc'["partner"] = "resetJournal"
            BY <1>1, <3>1 DEF Backed, OwnersKept, Backs
        <3>3. src = "DEFAULT" => ~Overridden(k)'
            BY <2>3, SourceOverridden DEF KeepActive, OwnersKept
        <3>4. src # "DEFAULT" => Overrides(k)'
            BY <1>1, <1>3, ConstantsAssumption, NoCallUpdate DEF Overrides, OwnCall
        <3>5. Agrees(dict)'
            BY <3>1, <3>3, <3>4 DEF Backed, OwnersKept, OwnCall, Agrees, Overrides
        <3>6. OwnCall' => dict'[call'["set"].key] # None
                          /\ Lower[dict'[call'["set"].key]] = Lower[call'["set"].value]
            BY <1>1, <2>1, <3>1
        <3> QED BY <3>2, <3>5, <3>6 DEF Backed
    <2>4. \/ dict' = dict /\ (SameValue(k, v) \/ KeepActive(k, src))
          \/ dict' = [dict EXCEPT ![k] = v] /\ ~KeepActive(k, src)
          \/ UNCHANGED <<store, call>>
        BY <1>3 DEF SetRawValue, store
    <2> QED BY <1>2, <2>2, <2>3, <2>4 DEF KeepActive
<1>4. UNCHANGED <<store, call>> \/ call' = [call EXCEPT ![t] = update]
    BY DEF SetRawValue
<1> QED BY <1>2, <1>3, <1>4

LEMMA JournalBacked ==
    ASSUME IoOutcomes = {TRUE}, FInv, Control', Backed, NEW t \in Threads, SetJournalValue(t)
    PROVE  Backed'
<1>1. /\ pc \in [Threads -> Labels] /\ call \in [Threads -> Call \union {NoCall}]
      /\ jrn \in JConf /\ call[t] \in Call /\ call[t] # NoCall
      /\ dict' = dict /\ call' = [call EXCEPT ![t] = NoCall]
      /\ pc' = [pc EXCEPT ![t] = call[t].next] /\ pc[t] \in {"wroteIni", "journal"}
    BY DEF SetJournalValue, FInv, MInv, IInv, TypeOK, InCall, JConf, Goto, store
<1>2. /\ ~Unloaded
      /\ pc["partner"] = "resetJournal" => pc'["partner"] = "resetJournal"
    BY <1>1 DEF Unloaded, Threads
<1>3. ~Unloaded'
    BY <1>1 DEF FInv, Control, Calls, Booting, Unloaded, Threads
<1>4. CASE t = "set" /\ OwnCall
    <2> DEFINE key == call[t].key
    <2>1. PICK r \in NewRecords(jrn, key, call[t].value, call[t].source) :
              jrn' = [jrn EXCEPT ![key] = r]
        BY <1>1 DEF SetJournalValue, NewJournals
    <2>2. r.updatedValue = call[t].value
        BY <1>4, <2>1 DEF NewRecords, OwnCall
    <2>3. key \in Keys /\ pc["partner"] # "resetJournal" /\ ~OwnCall'
        BY <1>1, <1>4, OwnLocked DEF Call, Without, OwnCall
    <2>4. /\ dict[key] # None /\ Lower[dict[key]] = Lower[r.updatedValue]
        BY <1>4, <2>2 DEF Backed
    <2>5. \A q \in Keys : jrn'[q] = IF q = key THEN r ELSE jrn[q]
        BY <1>1, <2>1, <2>3 DEF JConf
    <2>6. \A q \in Keys : Overrides(q) => q = key
        BY <1>4 DEF Overrides
    <2> HIDE DEF key
    <2>7. Backs(dict)'
        BY <1>1, <1>2, <2>3, <2>4, <2>5 DEF Backed, Backs, Overridden
    <2>8. Agrees(dict)'
        BY <1>1, <2>3, <2>4, <2>5, <2>6 DEF Backed, Agrees, Overridden
    <2> QED BY <1>3, <2>3, <2>7, <2>8 DEF Backed
<1>5. CASE ~(t = "set" /\ OwnCall)
    <2>1. OwnersKept /\ CallKept
        BY <1>5, JournalOwners
    <2>2. OwnCall' => OwnCall
        BY <1>1 DEF OwnCall, Threads
    <2> QED BY <1>1, <1>2, <1>3, <2>1, <2>2, BackedSame
<1> QED BY <1>4, <1>5

LEMMA LoadBacked ==
    ASSUME IoOutcomes = {TRUE}, NEW t, NEW d, NEW locked \in BOOLEAN,
           LoadFromJson(t, d, locked), ~OwnCall, Backs(d), Agrees(d), ~Unloaded'
    PROVE  Backed'
<1>1. ~OwnCall'
    BY DEF LoadFromJson, OwnCall
<1>2. CASE dict' = d /\ UNCHANGED jrn
    <2>1. Backs(dict)' /\ Agrees(dict)'
        BY <1>2 DEF Backs, Agrees, Overridden, Overrides
    <2> QED BY <1>1, <2>1 DEF Backed
<1>3. ASSUME NEW gone, dict' = Dropped(d, gone),
             jrn' = [k \in Keys |-> IF k \in gone THEN NoRec ELSE jrn[k]]
      PROVE  Backed'
    <2>1. \A k \in Keys : Overridden(k)' =>
              Overridden(k) /\ dict'[k] = d[k] /\ jrn'[k] = jrn[k]
        BY <1>3 DEF Dropped, Overridden
    <2>2. Backs(dict)' /\ Agrees(dict)'
        BY <2>1 DEF Backs, Agrees, Overrides
    <2> QED BY <1>1, <2>2 DEF Backed
<1> QED BY <1>2, <1>3, LoadStores

(* What a load reads from the file is what the overrides were written to.  *)
LEMMA FileBacked ==
    ASSUME OInv, NEW t \in Threads, Load(t)
    PROVE  ~OwnCall /\ Backs(ini) /\ Agrees(ini)
<1>1. FInv /\ Written /\ Backed /\ Replaced /\ Control
    BY DEF OInv, FInv
<1>2. ~OwnCall
    BY <1>1, OwnLocked, NotFree DEF Load, CanLock, Without, Threads
<1>3. CASE Unloaded
    BY <1>1, <1>2, <1>3 DEF Backed
<1>4. CASE dict = ini /\ ~Unloaded
    <2>1. pc["partner"] # "resetJournal"
        BY <1>1, NotFree DEF Load, CanLock, Control, Locks, Without, Threads
    <2> QED BY <1>1, <1>2, <1>4, <2>1 DEF Backed
<1>5. CASE pc["set"] = "endClear"
    <2>1. NoOverride
        BY <1>1, <1>5 DEF Load, Replaced
    <2> QED BY <1>2, <2>1 DEF NoOverride, Backs, Agrees
<1> QED BY <1>1, <1>2, <1>3, <1>4, <1>5 DEF Written

LEMMA ThreadBacked ==
    ASSUME IoOutcomes = {TRUE}, OInv, NEW t \in Threads, ThreadStep(t), Control'
    PROVE  Backed'
<1>1. FInv /\ Backed /\ Control /\ IInv /\ pc \in [Threads -> Labels]
    BY DEF OInv, FInv, MInv, IInv, TypeOK
<1>2. CASE Load(t)
    <2>1. ~Unloaded'
        BY <1>1, <1>2 DEF Load, LoadFromJson, LoadOver, Unloaded, Threads
    <2>2. LoadFromJson(t, ini, TRUE)
        BY <1>2 DEF Load
    <2> QED BY <1>2, <2>1, <2>2, FileBacked, LoadBacked
<1>3. CASE SaveRemovals(t) \/ LoadEnd(t)
    <2>1. /\ OwnersKept /\ CallKept /\ (OwnCall' => OwnCall) /\ dict' = dict
        BY <1>3 DEF SaveRemovals, LoadEnd, store, journal, OwnersKept, Overridden, CallKept,
                    OwnCall
    <2>2. ~Unloaded
        BY <1>3 DEF SaveRemovals, LoadEnd, Unloaded, Threads
    <2>3. ~Unloaded'
        BY <1>1, <1>3 DEF SaveRemovals, LoadEnd, LoadOver, Unloaded, Threads
    <2>4. pc["partner"] = "resetJournal" => pc'["partner"] = "resetJournal"
        BY <1>1, ThreadPlaces DEF Threads
    <2> QED BY <1>1, <2>1, <2>2, <2>3, <2>4, BackedSame
<1>4. ASSUME NEW k \in Param, LoadKey(t, k)
      PROVE  Backed'
    <2>1. /\ pc[t] = "load" /\ CanLock(t) /\ SetRawValue(t, k, todo[t][k], "DEFAULT", "load")
          /\ todo[t][k] \in Data /\ k \in Keys /\ jrn' = jrn
        BY <1>1, <1>4 DEF LoadKey, journal, IInv, TypeOK, PConf, Data, Keys
    <2>2. OwnersKept
        BY <2>1 DEF OwnersKept, Overridden
    <2>3. call[t] = NoCall
        BY <1>1, <2>1 DEF Control, Calls
    <2>4. ~OwnCall
        BY <1>1, <2>1, <2>3, OwnLocked, NotFree DEF CanLock, Threads, Without
    <2>5. ~Unloaded
        BY <2>1 DEF Unloaded, Threads
    <2>6. pc'[t] \in {"load", "wroteIni", "journal"} /\ \A u \in Threads \ {t} : pc'[u] = pc[u]
        BY <1>1, <2>1 DEF SetRawValue, Goto
    <2>7. ~Unloaded'
        BY <2>6 DEF Unloaded, Threads
    <2>8. pc["partner"] = "resetJournal" => pc'["partner"] = "resetJournal"
        BY <2>1, <2>6 DEF Threads
    <2>9. "DEFAULT" \in Sources
        BY DEF Sources
    <2> QED BY <1>1, <2>1, <2>2, <2>3, <2>4, <2>5, <2>7, <2>8, <2>9, RawBacked
<1>5. CASE SetJournalValue(t)
    BY <1>1, <1>5, JournalBacked
<1> QED BY <1>2, <1>3, <1>4, <1>5 DEF ThreadStep

LEMMA SetBacked ==
    ASSUME IoOutcomes = {TRUE}, OInv, SetStep, Control'
    PROVE  Backed'
<1>1. /\ FInv /\ Backed /\ Control /\ IInv /\ pc \in [Threads -> Labels]
      /\ OwnersKept /\ CallKept /\ "set" \in Threads /\ "partner" \in Threads
    BY SetOwners DEF OInv, FInv, MInv, IInv, TypeOK, Threads
<1>2. ASSUME NEW k \in Keys, NEW v \in Data, NEW who, NEW next \in {"idle", "loadJson"},
             OverrideBody(k, v, who, next)
      PROVE  Backed'
    <2>1. /\ pc["set"] = "checked" /\ call["set"] = NoCall /\ ~OwnCall
        BY <1>1, <1>2 DEF OverrideBody, Control, Calls, OwnCall
    <2>2. pc'["partner"] = pc["partner"]
        <3>1. CASE pc' = [pc EXCEPT !["set"] = "idle"]
            BY <1>1, <3>1
        <3>2. ASSUME NEW src, SetRawValue("set", k, v, src, next)
              PROVE  pc'["partner"] = pc["partner"]
            BY <1>1, <3>2, RawPlaces
        <3> QED BY <1>2, <3>1, <3>2 DEF OverrideBody
    <2>3. ~Unloaded /\ ~Unloaded'
        BY <1>1, <2>1, <2>2, StaysLoaded
    <2>4. CASE UNCHANGED <<store, call>>
        <3>1. dict' = dict /\ ~OwnCall'
            BY <2>1, <2>4 DEF store, OwnCall
        <3> QED BY <1>1, <2>2, <2>3, <3>1, BackedSame
    <2>5. ASSUME NEW src \in OverrideSource(k, who), SetRawValue("set", k, v, src, next)
          PROVE  Backed'
        <3>1. src \in Sources
            BY <2>5 DEF OverrideSource, Sources
        <3> QED BY <1>1, <2>1, <2>2, <2>3, <2>5, <3>1, RawBacked
    <2> QED BY <1>2, <2>4, <2>5 DEF OverrideBody
<1>3. ASSUME NEW k \in Param, NEW v \in Value, NEW who, OverrideValue(k, v, who)
      PROVE  Backed'
    BY <1>2, <1>3 DEF OverrideValue, Keys, Data
<1>4. ASSUME NEW p \in Partner, NEW who, SetPartnerId(p, who)
      PROVE  Backed'
    BY <1>2, <1>4 DEF SetPartnerId, Keys, Data
<1>5. CASE CallLoadJson
    <2>1. /\ LoadFromJson("set", dict, FALSE) /\ pc["set"] = "loadJson" /\ CanLock("set")
        BY <1>5 DEF CallLoadJson
    <2>2. ~OwnCall
        BY <1>1, <2>1, OwnLocked
    <2>3. pc["partner"] # "resetJournal"
        BY <1>1, <2>1, NotFree DEF CanLock, Control, Locks, Without
    <2>4. pc["partner"] # "off" => pc'["partner"] # "off"
        BY <1>1, <2>1 DEF LoadFromJson, LoadOver
    <2>5. ~Unloaded /\ ~Unloaded'
        BY <1>1, <2>1, <2>4, StaysLoaded
    <2>6. Backs(dict) /\ Agrees(dict)
        BY <1>1, <2>3, <2>5 DEF Backed
    <2>7. ASSUME NEW locked \in BOOLEAN, LoadFromJson("set", dict, locked)
          PROVE  Backed'
        BY <2>2, <2>5, <2>6, <2>7, LoadBacked
    <2> QED BY <2>1, <2>7
<1>6. CASE ClearRfcValues
    <2>1. pc["set"] = "endClear" /\ pc'["partner"] = pc["partner"]
        BY <1>1, <1>6 DEF ClearRfcValues
    <2>2. ~Unloaded /\ ~Unloaded'
        BY <1>1, <2>1, StaysLoaded
    <2>3. ~OwnCall /\ ~OwnCall'
        BY <1>1, <1>6, <2>1, OwnLocked DEF ClearRfcValues, OwnCall
    <2>4. \A k \in Keys : Overridden(k)' =>
              Overridden(k) /\ dict'[k] = dict[k] /\ jrn'[k] = jrn[k]
        BY <1>6 DEF ClearRfcValues, Overridden
    <2>5. Backs(dict)' \/ pc'["partner"] = "resetJournal"
        BY <1>1, <2>1, <2>2, <2>4 DEF Backed, Backs
    <2>6. Agrees(dict)'
        BY <1>1, <2>3, <2>4 DEF Backed, Agrees, Overrides
    <2> QED BY <2>2, <2>3, <2>5, <2>6 DEF Backed
<1>7. CASE OverrideInit \/ ClearDBStart \/ ClearDBEndOpen \/ ClearDBEndDone
    <2>1. dict' = dict /\ call' = call /\ pc'["partner"] = pc["partner"]
        BY <1>1, <1>7
           DEF OverrideInit, ClearDBStart, ClearDBEndOpen, ClearDBEndDone, store
    <2>2. pc["partner"] # "off" \/ pc["set"] \in {"checked", "endJournal"}
        BY <1>1, <1>7
           DEF OverrideInit, ClearDBStart, ClearDBEndOpen, ClearDBEndDone, Control, Booting
    <2>3. ~Unloaded /\ ~Unloaded'
        BY <1>1, <2>1, <2>2, StaysLoaded
    <2> QED BY <1>1, <2>1, <2>3, BackedSame DEF OwnCall
<1> QED BY <1>3, <1>4, <1>5, <1>6, <1>7 DEF SetStep

LEMMA PartnerBacked ==
    ASSUME IoOutcomes = {TRUE}, OInv, PartnerStep, Control'
    PROVE  Backed'
<1>1. /\ FInv /\ Backed /\ Control /\ IInv /\ pc \in [Threads -> Labels]
      /\ OwnersKept /\ CallKept
    BY PartnerOwners DEF OInv, FInv, MInv, IInv, TypeOK
<1>2. ~Unloaded
    BY DEF PartnerStep, PartnerQuery, PartnerBadAnswer, PartnerReset, PartnerResetJournal,
           PartnerSetId, PartnerRetrieveNow, PartnerStopped, Unloaded
<1>3. CASE PartnerQuery \/ PartnerBadAnswer \/ PartnerRetrieveNow \/ PartnerStopped
    <2>1. /\ dict' = dict /\ call' = call /\ pc["partner"] # "resetJournal"
          /\ pc'["partner"] # "off"
        BY <1>1, <1>3 DEF PartnerQuery, PartnerBadAnswer, PartnerRetrieveNow,
                          PartnerStopped, store, Threads
    <2> QED BY <1>1, <1>2, <2>1, BackedSame DEF OwnCall, Unloaded
<1>4. CASE PartnerReset
    <2>1. ~OwnCall
        BY <1>1, <1>4, OwnLocked, NotFree DEF PartnerReset, CanLock
    <2>2. pc'["partner"] = "resetJournal" /\ dict' = Empty /\ ~OwnCall'
        BY <1>1, <1>4, <2>1 DEF PartnerReset, OwnCall, Threads
    <2>3. Agrees(dict)'
        BY <2>2 DEF Agrees, Empty
    <2> QED BY <2>2, <2>3 DEF Backed, Unloaded
<1>5. CASE PartnerResetJournal
    <2>1. ~OwnCall
        BY <1>1, <1>5, OwnLocked DEF PartnerResetJournal, Without
    <2>2. NoOverride' /\ ~OwnCall' /\ pc'["partner"] # "off"
        BY <1>1, <1>5, <2>1
           DEF PartnerResetJournal, EmptyJournal, NoOverride, Overridden, OwnCall, Threads
    <2>3. Backs(dict)' /\ Agrees(dict)'
        BY <2>2 DEF NoOverride, Backs, Agrees
    <2> QED BY <2>2, <2>3 DEF Backed, Unloaded
<1>6. CASE PartnerSetId
    <2>1. /\ pc["partner"] = "setId" /\ newPid \in Data /\ PID \in Keys
          /\ SetRawValue("partner", PID, newPid, "DEFAULT", "reload")
        BY <1>1, <1>6 DEF PartnerSetId, IInv, Answered, Data, Keys
    <2>2. ~OwnCall /\ call["partner"] = NoCall
        BY <1>1, <2>1, OwnLocked DEF Without, Control, Calls, Threads
    <2>3. ~Unloaded'
        BY <1>1, <2>1, RawPlaces DEF Unloaded, Threads
    <2>4. "DEFAULT" \in Sources /\ "partner" \in Threads
        BY DEF Sources, Threads
    <2> QED BY <1>1, <1>2, <2>1, <2>2, <2>3, <2>4, RawBacked
<1> QED BY <1>3, <1>4, <1>5, <1>6 DEF PartnerStep

LEMMA RestartOwners ==
    ASSUME OInv, Restart
    PROVE  Replaced' /\ Backed' /\ Marks'
<1>1. /\ FInv /\ Backed /\ Control /\ jrn \in JConf /\ NoMarkSaved
      /\ Written /\ Recorded
    BY DEF OInv, FInv, MInv, IInv, TypeOK, JConf
<1>2. /\ pc["set"] = "idle" /\ pc["get"] = "idle" /\ pc["partner"] = "done"
      /\ jrn' = jfile /\ ini' = ini /\ Boot
    BY DEF Restart, Quiet, Boot
<1>3. ini = dict /\ jfile = Persisted(jrn) /\ ~Unloaded /\ ~OwnCall
    BY <1>1, <1>2, OwnLocked DEF Written, Recorded, Unloaded, Threads
<1>4. \A k \in Keys : Overridden(k)' =>
          Overridden(k) /\ jrn'[k].updatedValue = jrn[k].updatedValue
    <2>1. SUFFICES ASSUME NEW k \in Keys, Overridden(k)'
                   PROVE  Overridden(k) /\ jrn'[k].updatedValue = jrn[k].updatedValue
        OBVIOUS
    <2>2. jrn'[k] = [jrn[k] EXCEPT !.clearRfc = FALSE] /\ jrn[k] # NoRec
        BY <1>2, <1>3, <2>1 DEF Persisted, Overridden
    <2>3. jrn[k] \in Record
        BY <1>1, <2>2 DEF JConf
    <2> QED BY <2>1, <2>2, <2>3 DEF Overridden, Record
<1>5. /\ ~OwnCall' /\ dict' = Empty /\ pc'["partner"] = "off" /\ pc'["set"] = "idle"
      /\ Unloaded'
    BY <1>2 DEF Boot, OwnCall, Unloaded, Threads
<1>6. Backs(dict) /\ Agrees(dict)
    BY <1>1, <1>2, <1>3 DEF Backed
<1>7. Backs(ini)' /\ Agrees(ini)'
    BY <1>2, <1>3, <1>4, <1>6 DEF Backs, Agrees, Overrides
<1>8. Agrees(dict)'
    BY <1>5 DEF Agrees, Empty
<1>9. Backed'
    BY <1>5, <1>7, <1>8 DEF Backed
<1>10. Marks'
    BY <1>1, <1>2 DEF Marks, Overridden, NoMarkSaved
<1> QED BY <1>5, <1>9, <1>10 DEF Replaced

LEMMA OwnersStep ==
    ASSUME IoOutcomes = {TRUE}, OInv, [Next]_vars
    PROVE  OInv'
<1>1. FInv' /\ Control'
    BY FilesStep DEF OInv, FInv, NextPowerLoss, NextCrash
<1>2. ASSUME UNCHANGED vars \/ Stop \/ AuthChange
      PROVE  Replaced' /\ Backed' /\ Marks'
    BY <1>2 DEF vars, Stop, AuthChange, store, journal, OInv, Replaced, NoOverride, Backed,
                Backs, Agrees, Marks, Overridden, Overrides, OwnCall, Unloaded
<1>3. ASSUME NEW t \in Threads, ThreadStep(t)
      PROVE  Replaced' /\ Backed' /\ Marks'
    BY <1>1, <1>3, ThreadReplaced, ThreadBacked, ThreadMarks
<1>4. ASSUME SetStep
      PROVE  Replaced' /\ Backed' /\ Marks'
    BY <1>1, <1>4, SetReplaced, SetBacked, SetMarks
<1>5. ASSUME PartnerStep
      PROVE  Replaced' /\ Backed' /\ Marks'
    BY <1>1, <1>5, PartnerReplaced, PartnerBacked, PartnerMarks
<1>6. Replaced' /\ Backed' /\ Marks'
    BY <1>2, <1>3, <1>4, <1>5, RestartOwners DEF Next
<1> QED BY <1>1, <1>6 DEF OInv

LEMMA OwnersInit == Init => OInv
<1> SUFFICES ASSUME Init PROVE OInv
    OBVIOUS
<1>1. FInv
    BY FilesInit
<1>2. Replaced /\ Backed /\ Marks
    BY DEF Init, EmptyJournal, Replaced, NoOverride, Backed, Backs, Agrees, Marks,
           Overridden, OwnCall, Threads
<1> QED BY <1>1, <1>2 DEF OInv

LEMMA OwnersAlways ==
    ASSUME IoOutcomes = {TRUE}
    PROVE  Spec => []OInv
BY OwnersInit, OwnersStep, PTL DEF Spec

(* As long as every file can be opened for writing and the process stops   *)
(* between calls only: between two RFC runs no parameter of RFC is left    *)
(* marked, so that the next ClearDBEnd reverts only what its own run did   *)
(* not send.                                                               *)
THEOREM MarksCleared ==
    ASSUME IoOutcomes = {TRUE}
    PROVE  Spec => []NoStaleMarks
<1>1. OInv => NoStaleMarks
    BY DEF OInv, Marks, Overridden, NoStaleMarks
<1> QED BY <1>1, OwnersAlways, PTL

(* As long as every file can be opened for writing and the process stops   *)
(* between calls only: what getValue answers of an override is what the    *)
(* journal holds of it, but for case.                                      *)
THEOREM OverridesFollow ==
    ASSUME IoOutcomes = {TRUE}
    PROVE  Spec => []OverridesAgree
<1>1. ASSUME OInv
      PROVE  OverridesAgree
    <2>1. FInv /\ Agrees(dict)
        BY <1>1 DEF OInv, Backed
    <2>2. \A k \in Keys : Overrides(k) => Pending(k)
        BY DEF Overrides, OwnCall, Pending, Threads
    <2> QED BY <2>1, <2>2, SourceOverridden DEF Agrees, OverridesAgree
<1> QED BY <1>1, OwnersAlways, PTL
-----------------------------------------------------------------------------
(* What is saved of the overrides when writes fail and processes die.      *)

(* A step that only ends overrides in memory, or changes marks.            *)
LEMMA SavedShrinks ==
    ASSUME IInv, jrn' \in JConf, OverridesSaved, UNCHANGED jfile,
           \A k \in Keys : Source(jrn', k) \in {"RFC", "WEBPA"} =>
                               Persisted(jrn')[k] = Persisted(jrn)[k]
    PROVE  OverridesSaved'
<1> SUFFICES ASSUME NEW k \in Keys, Source(jrn', k) \in {"RFC", "WEBPA"}
             PROVE  jfile'[k] = Persisted(jrn')[k]
    BY DEF OverridesSaved, Source, Persisted
<1>1. Persisted(jrn')[k] = Persisted(jrn)[k]
    OBVIOUS
<1>2. Source(Persisted(jrn'), k) = Source(Persisted(jrn), k)
    BY <1>1 DEF Source
<1>3. Source(jrn, k) \in {"RFC", "WEBPA"}
    BY <1>2, PersistedSource DEF IInv, TypeOK, JConf
<1> QED BY <1>1, <1>3 DEF OverridesSaved

LEMMA SavedWritten ==
    ASSUME jfile' = Persisted(jrn')
    PROVE  OverridesSaved'
BY DEF OverridesSaved, Persisted

LEMMA SavedUnchanged ==
    ASSUME OverridesSaved, UNCHANGED journal
    PROVE  OverridesSaved'
BY DEF OverridesSaved, journal, Source, Persisted

LEMMA SavedBoot ==
    ASSUME MInv', Boot
    PROVE  OverridesSaved'
<1>1. jrn' = jfile' /\ jfile' \in JConf /\ NoMarkSaved'
    BY DEF Boot, MInv, IInv, TypeOK, JConf
<1>2. Persisted(jfile') = jfile'
    BY <1>1, PersistedAgain DEF NoMarkSaved
<1> QED BY <1>1, <1>2, SavedWritten

LEMMA SavedLoad ==
    ASSUME IInv, jrn' \in JConf, OverridesSaved, NEW t, NEW d, NEW locked, LoadFromJson(t, d, locked)
    PROVE  OverridesSaved'
<1>1. UNCHANGED jfile
    BY DEF LoadFromJson
<1>2. CASE UNCHANGED jrn
    BY <1>1, <1>2, SavedUnchanged DEF journal
<1>3. CASE ~UNCHANGED jrn
    <2>1. PICK gone \in SUBSET Param : jrn' = [k \in Keys |-> IF k \in gone THEN NoRec ELSE jrn[k]]
        BY <1>3 DEF LoadFromJson
    <2>2. \A k \in Keys : jrn'[k] \in {NoRec, jrn[k]}
        BY <2>1
    <2> QED BY <1>1, <2>2, SavedShrinks DEF Source, Persisted
<1> QED BY <1>2, <1>3

LEMMA SavedMarks ==
    ASSUME IInv, jrn' \in JConf, OverridesSaved, UNCHANGED jfile,
           \A k \in Keys : \/ jrn'[k] = jrn[k]
                           \/ /\ jrn[k] # NoRec
                              /\ \E b \in BOOLEAN : jrn'[k] = [jrn[k] EXCEPT !.clearRfc = b]
    PROVE  OverridesSaved'
<1>1. ASSUME NEW k \in Keys
      PROVE  Persisted(jrn')[k] = Persisted(jrn)[k]
    <2>1. CASE jrn'[k] = jrn[k]
        BY <2>1 DEF Persisted
    <2>2. ASSUME jrn[k] # NoRec, NEW b \in BOOLEAN, jrn'[k] = [jrn[k] EXCEPT !.clearRfc = b]
          PROVE  Persisted(jrn')[k] = Persisted(jrn)[k]
        <3>1. jrn[k] \in Record
            BY <2>2 DEF IInv, TypeOK
        <3>2. jrn'[k] \in Record /\ jrn'[k] # NoRec
            BY <2>2, <3>1, MarkType, ConstantsAssumption DEF ConstantsAssumption
        <3>3. [jrn'[k] EXCEPT !.clearRfc = FALSE] = [jrn[k] EXCEPT !.clearRfc = FALSE]
            BY <2>2, <3>1 DEF Record
        <3> QED BY <2>2, <3>2, <3>3 DEF Persisted
    <2> QED BY <2>1, <2>2
<1> QED BY <1>1, SavedShrinks

LEMMA SavedSet ==
    ASSUME IInv, jrn' \in JConf, OverridesSaved, SetStep
    PROVE  OverridesSaved'
<1>1. CASE OverrideInit \/ ClearDBEndOpen
    BY <1>1, SavedUnchanged DEF OverrideInit, ClearDBEndOpen, journal
<1>2. ASSUME NEW k \in Keys, NEW v, NEW who, NEW next, OverrideBody(k, v, who, next)
      PROVE  OverridesSaved'
    <2>1. jrn' \in {jrn, ResetClearRfc(jrn, k)} /\ UNCHANGED jfile
        BY <1>2 DEF OverrideBody
    <2>2. \A l \in Keys :
              \/ jrn'[l] = jrn[l]
              \/ jrn[l] # NoRec /\ jrn'[l] = [jrn[l] EXCEPT !.clearRfc = FALSE]
        BY <2>1 DEF ResetClearRfc, IInv, TypeOK
    <2> QED BY <2>1, <2>2, SavedMarks
<1>3. CASE CallLoadJson
    BY <1>3, SavedLoad DEF CallLoadJson
<1>4. CASE ClearDBStart
    <2>1. \A k \in Keys :
              \/ jrn'[k] = jrn[k]
              \/ jrn[k] # NoRec /\ jrn'[k] = [jrn[k] EXCEPT !.clearRfc = TRUE]
        BY <1>4 DEF ClearDBStart, Source
    <2> QED BY <1>4, <2>1, SavedMarks DEF ClearDBStart
<1>5. CASE ClearRfcValues
    <2>1. \A k \in Keys :
              jrn'[k] = jrn[k] \/ (jrn'[k].source = "DEFAULT")
        BY <1>5 DEF ClearRfcValues
    <2>2. \A k \in Keys : Source(jrn', k) \in {"RFC", "WEBPA"} => jrn'[k] = jrn[k]
        BY <2>1 DEF Source
    <2> QED BY <1>5, <2>2, SavedShrinks DEF ClearRfcValues, Persisted
<1>6. CASE ClearDBEndDone
    BY <1>6, SavedWritten, SavedUnchanged DEF ClearDBEndDone, Persisted, journal
<1> QED BY <1>1, <1>2, <1>3, <1>4, <1>5, <1>6
        DEF SetStep, OverrideValue, SetPartnerId, Keys

LEMMA SavedThread ==
    ASSUME IInv, jrn' \in JConf, OverridesSaved, NEW t \in Threads, ThreadStep(t)
    PROVE  OverridesSaved'
<1>1. CASE Load(t)
    BY <1>1, SavedLoad DEF Load
<1>2. CASE SaveRemovals(t)
    BY <1>2, SavedWritten, SavedUnchanged DEF SaveRemovals, Persisted, journal
<1>3. CASE (\E k \in Param : LoadKey(t, k)) \/ LoadEnd(t)
    BY <1>3, SavedUnchanged DEF LoadKey, LoadEnd
<1>4. CASE SetJournalValue(t)
    BY <1>4, SavedWritten, SavedUnchanged DEF SetJournalValue
<1> QED BY <1>1, <1>2, <1>3, <1>4 DEF ThreadStep

LEMMA SavedPartner ==
    ASSUME IInv, jrn' \in JConf, OverridesSaved, PartnerStep
    PROVE  OverridesSaved'
<1>1. CASE UNCHANGED journal
    BY <1>1, SavedUnchanged
<1>2. CASE PartnerResetJournal
    BY <1>2, SavedWritten DEF PartnerResetJournal, EmptyJournal, Persisted
<1> QED BY <1>1, <1>2 DEF PartnerStep, PartnerQuery, PartnerBadAnswer, PartnerReset,
                          PartnerSetId, PartnerRetrieveNow, PartnerStopped, journal

LEMMA SavedStep ==
    ASSUME MInv, OverridesSaved, [NextPowerLoss]_vars
    PROVE  OverridesSaved'
<1>1. MInv'
    BY StepType, StepMark DEF MInv
<1>2. IInv /\ jrn' \in JConf
    BY <1>1 DEF MInv, IInv, TypeOK, JConf
<1>3. CASE UNCHANGED vars \/ Stop \/ AuthChange
    BY <1>3, SavedUnchanged DEF vars, Stop, AuthChange, journal
<1> QED BY <1>1, <1>2, <1>3, Boots, SavedBoot, SavedSet, SavedThread, SavedPartner
        DEF NextPowerLoss, NextCrash, Next

LEMMA MarksAlways == SpecPowerLoss => [](MInv /\ Control)
<1>1. Init => MInv /\ Control
    BY FilesInit DEF FInv
<1>2. MInv /\ Control /\ [NextPowerLoss]_vars => (MInv /\ Control)'
    BY StepType, StepMark, ControlStep DEF MInv
<1> QED BY <1>1, <1>2, PTL DEF SpecPowerLoss

(* Whatever cannot be written and wherever the process dies, for any       *)
(* parameters, partners and images: an override the journal knows in       *)
(* memory is in its file, so that no restart forgets who set a parameter.  *)
THEOREM OverridesKept == SpecPowerLoss => []OverridesSaved
<1>1. Init => OverridesSaved
    BY DEF Init, EmptyJournal, OverridesSaved, Source
<1>2. MInv /\ OverridesSaved /\ [NextPowerLoss]_vars => OverridesSaved'
    BY SavedStep
<1> QED BY <1>1, <1>2, MarksAlways, PTL DEF SpecPowerLoss
-----------------------------------------------------------------------------
(* What the .ini file holds of the cache when writes fail.                 *)

Covered == \A k \in Keys : dict[k] # None => ini[k] = dict[k]

(* What the store of the new partner is filled with.                       *)
Given(k) == IF k = PID THEN newPid ELSE PartnerConfig(firmware, newPid)[k]

ToLoad(t) == pc[t] \in {"load", "loadJournal"} \/ (call[t] # NoCall /\ call[t].next = "load")

(* The partner thread has removed the file that ClearDBEnd has open.       *)
Removed == pc["partner"] \in {"resetJournal", "setId", "reload", "changed", "done"} \union Loading

GivenStore ==
    \A k \in Keys : /\ ini[k] # None => ini[k] = Given(k)
                    /\ jrn[k] # NoRec => jrn[k].fwValue = Given(k)

GivenCall(t) == call[t] # NoCall => call[t].value = Given(call[t].key)

GivenTodo(t) == ToLoad(t) => \A k \in Param : todo[t][k] # None => todo[t][k] = Given(k)

(* What is in the file and in the journal then, and on its way there, has  *)
(* only that default: what ClearDBEnd reverts does not change.             *)
OnlyGiven ==
    /\ newPid # None
    /\ GivenStore
    /\ \A t \in {"get", "partner"} : GivenCall(t) /\ GivenTodo(t)

CInv ==
    /\ Covered \/ (pc["set"] = "endClear" /\ iniOpen)
    /\ iniOpen => pc["set"] = "endClear"
    /\ Closed => /\ Removed
                 /\ IF pc["partner"] = "resetJournal" THEN ini = Empty ELSE OnlyGiven

LEMMA CoverRaw ==
    ASSUME IInv, Control, CInv, NEW t \in Threads, NEW k \in Keys, NEW v \in Data,
           NEW src \in Sources, NEW next \in {"idle", "load", "loadJson", "reload"},
           SetRawValue(t, k, v, src, next), UNCHANGED <<firmware, newPid, iniOpen>>,
           t = "set" => pc["set"] # "endClear",
           t # "set" => UNCHANGED jrn,
           t = "partner" /\ pc[t] # "load" => next = "reload",
           Closed => /\ v = Given(k) /\ pc["partner"] # "resetJournal"
                     /\ next = "load" => pc[t] = "load"
                     /\ next # "loadJson" /\ next # "idle"
                     /\ \A u \in {"get", "partner"}, l \in Param :
                            todo'[u][l] \in {None, todo[u][l]}
    PROVE  CInv'
<1> DEFINE update == [key |-> k, value |-> v, source |-> src, next |-> next]
<1>1. /\ pc \in [Threads -> Labels] /\ call \in [Threads -> Call \union {NoCall}]
      /\ dict \in DConf /\ ini \in DConf
    BY DEF IInv, TypeOK, DConf
<1>2. PICK l \in {next, "idle", "journal", "wroteIni"} :
          /\ pc' = [pc EXCEPT ![t] = l]
          /\ l = "idle" => next \in {"idle", "loadJson"}
          /\ \/ UNCHANGED <<dict, ini>>
             \/ dict' = [dict EXCEPT ![k] = v] /\ ini' = dict'
          /\ \/ UNCHANGED call /\ l \in {next, "idle"}
             \/ call' = [call EXCEPT ![t] = update] /\ l \in {"journal", "wroteIni"}
    BY DEF SetRawValue, Goto, store
<1>3. /\ pc'["set"] = "endClear" <=> pc["set"] = "endClear"
      /\ t = "set" => pc["set"] # "endClear" /\ pc'["set"] # "endClear"
    BY <1>1, <1>2 DEF Threads
<1>4. Covered' \/ (pc'["set"] = "endClear" /\ iniOpen')
    <2>1. CASE UNCHANGED <<dict, ini>>
        BY <1>3, <2>1 DEF CInv, Covered
    <2>2. CASE ini' = dict'
        BY <2>2 DEF Covered
    <2> QED BY <1>2, <2>1, <2>2
<1>5. iniOpen' => pc'["set"] = "endClear"
    BY <1>3 DEF CInv
<1>6. ASSUME Closed'
      PROVE  Removed' /\ pc'["partner"] # "resetJournal" /\ OnlyGiven'
    <2>1. Closed /\ t # "set" /\ UNCHANGED jrn
        BY <1>3, <1>6 DEF Closed
    <2>2. Covered /\ Removed /\ OnlyGiven /\ v = Given(k) /\ l # "idle"
        BY <1>2, <2>1 DEF CInv, Closed
    <2>3. \A p \in Keys : Given(p)' = Given(p)
        BY DEF Given
    <2>4. GivenStore'
        <3>1. ASSUME NEW p \in Keys, ini'[p] # None
              PROVE  ini'[p] = Given(p)
            BY <1>1, <1>2, <2>2, <3>1 DEF Covered, OnlyGiven, GivenStore, DConf
        <3> QED BY <2>1, <2>2, <2>3, <3>1 DEF OnlyGiven, GivenStore
    <2>5. update # NoCall /\ update.key = k /\ update.value = v /\ update.next = next
        BY ConstantsAssumption DEF Call, ConstantsAssumption
    <2> HIDE DEF update
    <2>6. /\ \A u \in Threads : u # t => pc'[u] = pc[u] /\ call'[u] = call[u]
          /\ pc'[t] = l
          /\ \/ call'[t] = call[t] /\ l = next
             \/ call'[t] = update /\ l \in {"journal", "wroteIni"}
        BY <1>1, <1>2, <2>2
    <2>7. ASSUME NEW u \in {"get", "partner"}
          PROVE  GivenCall(u)'
        <3>1. u \in Threads
            BY DEF Threads
        <3>2. CASE call'[u] = call[u]
            <4>1. GivenCall(u)
                BY <2>2 DEF OnlyGiven
            <4>2. call[u] # NoCall => call[u].key \in Keys
                BY <3>1, <1>1 DEF Call
            <4> QED BY <2>3, <3>2, <4>1, <4>2 DEF GivenCall
        <3>3. CASE call'[u] = update
            BY <2>2, <2>3, <2>5, <3>3 DEF GivenCall
        <3> QED BY <2>6, <3>1, <3>2, <3>3
    <2>8. ASSUME NEW u \in {"get", "partner"}
          PROVE  GivenTodo(u)'
        <3>1. u \in Threads /\ GivenTodo(u)
            BY <2>2 DEF OnlyGiven, Threads
        <3>2. ToLoad(u)' => ToLoad(u)
            BY <2>1, <2>5, <2>6, <3>1 DEF ToLoad
        <3>3. ASSUME ToLoad(u)', NEW p \in Param, todo'[u][p] # None
              PROVE  todo'[u][p] = Given(p)'
            <4>1. todo'[u][p] = todo[u][p] /\ p \in Keys
                BY <2>1, <3>3 DEF Keys
            <4> QED BY <2>3, <3>1, <3>2, <3>3, <4>1 DEF GivenTodo
        <3> QED BY <3>3 DEF GivenTodo
    <2>9. Removed' /\ pc'["partner"] # "resetJournal"
        <3>1. CASE t = "partner"
            BY <1>2, <2>1, <2>2, <2>6, <3>1 DEF Removed, Loading
        <3>2. CASE t # "partner"
            BY <2>1, <2>2, <2>6, <3>2 DEF Removed, Threads
        <3> QED BY <3>1, <3>2
    <2>10. newPid' # None
        BY <2>2 DEF OnlyGiven
    <2> QED BY <2>4, <2>7, <2>8, <2>9, <2>10 DEF OnlyGiven
<1> QED BY <1>4, <1>5, <1>6 DEF CInv
LEMMA CoverOpen ==
    ASSUME pc'["set"] # "endClear", Covered', ~iniOpen'
    PROVE  CInv'
BY DEF CInv, Closed

(* A step that writes neither file nor cache.                              *)
LEMMA CoverKept ==
    ASSUME IInv, CInv, UNCHANGED <<dict, ini, jrn, firmware, newPid, iniOpen>>,
           pc'["set"] = "endClear" <=> pc["set"] = "endClear",
           Closed => \/ pc'["partner"] = pc["partner"]
                     \/ /\ pc["partner"] # "resetJournal"
                        /\ pc'["partner"] \in {"load", "reload", "changed", "done"},
           \A u \in {"get", "partner"} :
               /\ call'[u] \in {NoCall, call[u]}
               /\ ToLoad(u)' => ToLoad(u)
               /\ \A l \in Param : todo'[u][l] \in {None, todo[u][l]}
    PROVE  CInv'
<1>1. Covered' \/ (pc'["set"] = "endClear" /\ iniOpen')
    BY DEF CInv, Covered
<1>2. iniOpen' => pc'["set"] = "endClear"
    BY DEF CInv
<1>3. ASSUME Closed'
      PROVE  Removed' /\ IF pc'["partner"] = "resetJournal" THEN ini' = Empty ELSE OnlyGiven'
    <2>1. Closed /\ Removed
        BY <1>3 DEF Closed, CInv
    <2>2. Removed' /\ (pc'["partner"] = "resetJournal" <=> pc["partner"] = "resetJournal")
        BY <2>1 DEF Removed, Loading
    <2>3. \A p : Given(p)' = Given(p)
        BY DEF Given
    <2>4. ASSUME OnlyGiven
          PROVE  OnlyGiven'
        <3>1. GivenStore'
            BY <2>3, <2>4 DEF OnlyGiven, GivenStore
        <3>2. \A u \in {"get", "partner"} : GivenCall(u)'
            BY <2>3, <2>4 DEF OnlyGiven, GivenCall
        <3>3. \A u \in {"get", "partner"} : GivenTodo(u)'
            BY <2>3, <2>4 DEF OnlyGiven, GivenTodo
        <3> QED BY <2>4, <3>1, <3>2, <3>3 DEF OnlyGiven
    <2> QED BY <2>1, <2>2, <2>4 DEF CInv
<1> QED BY <1>1, <1>2, <1>3 DEF CInv

LEMMA CoverFile ==
    ASSUME NEW t, NEW d, NEW locked, LoadFromJson(t, d, locked),
           \A k \in Keys : d[k] # None => ini[k] = d[k]
    PROVE  Covered'
<1>1. PICK gone \in SUBSET Param :
          /\ dict' \in {d, [k \in Keys |-> IF k \in gone THEN None ELSE d[k]]}
          /\ ini' = ini \/ ini' = dict'
    BY DEF LoadFromJson
<1>2. \A k \in Keys : dict'[k] \in {d[k], None}
    BY <1>1
<1> QED BY <1>1, <1>2 DEF Covered

(* The load of a get or of the partner thread, from the .ini file.         *)
LEMMA CoverLoad ==
    ASSUME IInv, Control, CInv, NEW t \in {"get", "partner"}, Load(t)
    PROVE  CInv'
<1>1. /\ pc \in [Threads -> Labels] /\ call \in [Threads -> Call \union {NoCall}]
      /\ todo \in [Threads -> PConf] /\ t \in Threads /\ {"set", "get", "partner"} \subseteq Threads
      /\ PID \notin Param /\ Param \subseteq Keys /\ PID \in Keys
    BY ConstantsAssumption DEF IInv, TypeOK, Threads, ConstantsAssumption, Keys
<1>2. LoadFromJson(t, ini, TRUE)
    BY DEF Load
<1>3. Covered'
    BY <1>2, CoverFile
<1> DEFINE config == Config(ini)
<1>4. \A k \in Keys : ini'[k] \in {ini[k], None} /\ jrn'[k] \in {jrn[k], NoRec}
    <2>1. jrn \in [Keys -> Record \union {NoRec}] /\ ini \in [Keys -> Data \union {None}]
        BY DEF IInv, TypeOK
    <2>2. PICK gone \in SUBSET Param :
              /\ \/ UNCHANGED jrn
                 \/ jrn' = [k \in Keys |-> IF k \in gone THEN NoRec ELSE jrn[k]]
              /\ \/ UNCHANGED ini
                 \/ ini' = [k \in Keys |-> IF k \in gone THEN None ELSE ini[k]]
        BY <1>2 DEF LoadFromJson
    <2> QED BY <2>1, <2>2
<1>5. \/ /\ LoadOver(t, TRUE, FALSE) /\ UNCHANGED todo
      \/ /\ pc' = [pc EXCEPT ![t] = "load"] \/ pc' = [pc EXCEPT ![t] = "loadJournal"]
         /\ todo' = [todo EXCEPT ![t] = config] /\ config # NoConfig
    BY <1>2 DEF LoadFromJson, Config
<1> HIDE DEF config
<1>6. /\ pc'["set"] = pc["set"]
      /\ \A u \in {"get", "partner"} \ {t} :
             todo'[u] = todo[u] /\ pc'[u] \in {pc[u], "query"}
      /\ \/ pc'[t] \in {"changed", "idle"}
         \/ todo'[t] = config /\ config # NoConfig
      /\ \/ pc'["partner"] = pc["partner"]
         \/ pc["partner"] = "off"
         \/ pc'["partner"] \in {"load", "loadJournal", "changed"}
    <2>1. CASE LoadOver(t, TRUE, FALSE) /\ UNCHANGED todo
        <3>1. pc' = [pc EXCEPT ![t] = IF t = "partner" THEN "changed" ELSE "idle",
                               !["partner"] = IF @ = "off" THEN "query" ELSE @]
            BY <2>1 DEF LoadOver
        <3>2. CASE t = "get"
            BY <1>1, <2>1, <3>1, <3>2
        <3>3. CASE t = "partner"
            BY <1>1, <2>1, <3>1, <3>3
        <3> QED BY <3>2, <3>3
    <2>2. CASE /\ pc' = [pc EXCEPT ![t] = "load"] \/ pc' = [pc EXCEPT ![t] = "loadJournal"]
               /\ todo' = [todo EXCEPT ![t] = config] /\ config # NoConfig
        <3>1. CASE t = "get"
            BY <1>1, <2>2, <3>1
        <3>2. CASE t = "partner"
            BY <1>1, <2>2, <3>2
        <3> QED BY <3>1, <3>2
    <2> QED BY <1>5, <2>1, <2>2
<1>7. UNCHANGED <<firmware, call, newPid, iniOpen>>
    BY <1>2 DEF LoadFromJson, env
<1>8. pc'["set"] = pc["set"]
    BY <1>6
<1>9. ASSUME Closed'
      PROVE  Removed' /\ pc'["partner"] # "resetJournal" /\ OnlyGiven'
    <2>1. Closed /\ Removed
        BY <1>7, <1>8, <1>9 DEF Closed, CInv
    <2>2. pc["partner"] # "resetJournal" /\ call[t] = NoCall
        BY NotFree DEF Load, Control, Calls, Locks, Without, CanLock, Threads
    <2>3. OnlyGiven
        BY <2>1, <2>2 DEF CInv
    <2>4. Removed' /\ pc'["partner"] # "resetJournal"
        BY <1>6, <2>1, <2>2 DEF Removed, Loading
    <2>5. \A p : Given(p)' = Given(p)
        BY <1>7 DEF Given
    <2>6. GivenStore'
        BY <1>4, <2>3, <2>5 DEF OnlyGiven, GivenStore
    <2>7. \A u \in {"get", "partner"} : GivenCall(u)'
        BY <1>7, <2>3, <2>5 DEF OnlyGiven, GivenCall
    <2>8. config # NoConfig => config = PartnerConfig(firmware, newPid)
        <3>1. ini[PID] # None => ini[PID] = newPid
            BY <1>1, <2>3 DEF OnlyGiven, GivenStore, Given
        <3> QED BY <3>1 DEF Config, config
    <2> HIDE DEF config
    <2>9. ASSUME NEW u \in {"get", "partner"}, ToLoad(u)', NEW p \in Param, todo'[u][p] # None
          PROVE  todo'[u][p] = Given(p)
        <3>1. CASE u = t /\ todo'[t] = config /\ config # NoConfig
            BY <1>1, <2>8, <2>9, <3>1 DEF Given
        <3>2. CASE u = t /\ pc'[t] \in {"changed", "idle"}
            BY <1>7, <2>2, <2>9, <3>2 DEF ToLoad
        <3>3. CASE u # t
            <4>1. todo'[u] = todo[u] /\ pc'[u] \in {pc[u], "query"}
                BY <1>6, <3>3
            <4>2. ToLoad(u)
                BY <1>7, <2>9, <4>1 DEF ToLoad
            <4> QED BY <2>3, <2>9, <4>1, <4>2 DEF OnlyGiven, GivenTodo
        <3> QED BY <1>6, <3>1, <3>2, <3>3
    <2>10. newPid' # None
        BY <1>7, <2>3 DEF OnlyGiven
    <2> QED BY <2>4, <2>5, <2>6, <2>7, <2>9, <2>10 DEF OnlyGiven, GivenTodo
<1>10. iniOpen' => pc'["set"] = "endClear"
    BY <1>7, <1>8 DEF CInv
<1> QED BY <1>3, <1>9, <1>10 DEF CInv
LEMMA CoverThread ==
    ASSUME IInv, Control, CInv, NEW t \in Threads, ThreadStep(t)
    PROVE  CInv'
<1>1. /\ pc \in [Threads -> Labels] /\ call \in [Threads -> Call \union {NoCall}]
      /\ todo \in [Threads -> PConf] /\ {"set", "get", "partner"} \subseteq Threads
      /\ jrn \in [Keys -> Record \union {NoRec}] /\ Param \subseteq Keys /\ Keys = Param \union {PID}
    BY DEF IInv, TypeOK, Threads, Keys
(* The partner thread holds the mutex while the files are gone.            *)
<1>2. t # "set" /\ pc[t] \in Loading => pc["partner"] # "resetJournal"
    BY <1>1, NotFree DEF Control, Locks, Without, Loading, Threads
<1>3. CASE Load(t)
    <2>1. CASE t = "set"
        <3>1. Covered'
            BY <1>3, CoverFile DEF Load
        <3>2. pc["set"] = "idle" /\ LoadFromJson(t, ini, TRUE)
            BY <1>3, <2>1 DEF Load
        <3>3. pc'["set"] # "endClear" /\ ~iniOpen'
            <4>1. ~iniOpen /\ UNCHANGED iniOpen
                BY <3>2 DEF CInv, LoadFromJson
            <4>2. \/ LoadOver(t, TRUE, FALSE)
                  \/ pc' = [pc EXCEPT ![t] = "load"] \/ pc' = [pc EXCEPT ![t] = "loadJournal"]
                BY <3>2 DEF LoadFromJson
            <4>3. CASE LoadOver(t, TRUE, FALSE)
                BY <1>1, <2>1, <4>1, <4>3 DEF LoadOver
            <4> QED BY <1>1, <2>1, <4>1, <4>2, <4>3
        <3> QED BY <3>1, <3>3, CoverOpen
    <2> QED BY <1>3, <2>1, CoverLoad DEF Threads
<1>4. CASE SaveRemovals(t) \/ LoadEnd(t)
    <2>1. UNCHANGED <<dict, ini, jrn, firmware, newPid, iniOpen, call, todo>>
        BY <1>4 DEF SaveRemovals, LoadEnd, env, store, journal
    <2>2. /\ pc[t] \in {"load", "loadJournal"}
          /\ \/ pc[t] = "loadJournal" /\ pc' = [pc EXCEPT ![t] = "load"]
             \/ pc' = [pc EXCEPT ![t] = IF t = "partner" THEN "changed" ELSE "idle",
                                 !["partner"] = IF @ = "off" THEN "query" ELSE @]
        BY <1>4 DEF SaveRemovals, LoadEnd, LoadOver
    <2>3. /\ pc'["set"] = "endClear" <=> pc["set"] = "endClear"
          /\ \A u \in {"get", "partner"} :
                 pc'[u] \in {"load", "loadJournal"} => pc[u] \in {"load", "loadJournal"}
          /\ \/ pc'["partner"] = pc["partner"]
             \/ pc["partner"] = "off"
             \/ t = "partner" /\ pc'["partner"] \in {"load", "changed"}
        <3>1. CASE t = "partner"
            BY <1>1, <2>2, <3>1
        <3>2. CASE t # "partner"
            BY <1>1, <2>2, <3>2
        <3> QED BY <3>1, <3>2
    <2>4. Closed => pc["partner"] # "off"
        BY DEF CInv, Removed, Loading
    <2>5. \A u \in {"get", "partner"} : ToLoad(u)' => ToLoad(u)
        BY <2>1, <2>3 DEF ToLoad
    <2>6. t = "partner" => pc["partner"] # "resetJournal"
        BY <2>2
    <2> QED BY <2>1, <2>3, <2>4, <2>5, <2>6, CoverKept
<1>5. ASSUME NEW k \in Param, LoadKey(t, k)
      PROVE  CInv'
    <2>1. /\ pc[t] = "load" /\ todo[t][k] \in Value /\ todo' = [todo EXCEPT ![t][k] = None]
          /\ SetRawValue(t, k, todo[t][k], "DEFAULT", "load")
          /\ UNCHANGED <<firmware, newPid, iniOpen, jrn>>
        BY <1>1, <1>5 DEF LoadKey, PConf, env, journal
    <2>2. todo[t][k] \in Data /\ k \in Keys /\ "DEFAULT" \in Sources
        BY <1>1, <2>1 DEF Data, Sources
    <2>3. ASSUME Closed
          PROVE  todo[t][k] = Given(k) /\ pc["partner"] # "resetJournal"
        <3>1. t \in {"get", "partner"}
            BY <2>1, <2>3 DEF Closed, Threads
        <3>2. pc["partner"] # "resetJournal" /\ ToLoad(t)
            BY <1>2, <2>1, <3>1 DEF Loading, ToLoad
        <3> QED BY <2>1, <2>3, <3>1, <3>2, <1>5 DEF CInv, OnlyGiven, GivenTodo, LoadKey
    <2>4. \A u \in {"get", "partner"}, l \in Param : todo'[u][l] \in {None, todo[u][l]}
        BY <1>1, <2>1 DEF PConf
    <2> QED BY <2>1, <2>2, <2>3, <2>4, CoverRaw
<1>6. CASE SetJournalValue(t)
    <2> DEFINE next == call[t].next
    <2>1. /\ pc[t] \in {"wroteIni", "journal"} /\ call' = [call EXCEPT ![t] = NoCall]
          /\ pc' = [pc EXCEPT ![t] = next] /\ jrn' \in NewJournals(t) \union {jrn}
          /\ UNCHANGED <<dict, ini, firmware, newPid, iniOpen, todo>>
        BY <1>6 DEF SetJournalValue, Goto, env, store, journal
    <2>2. call[t] \in Call /\ call[t] # NoCall
        BY <1>1, <2>1 DEF IInv, InCall
    <2>3. CASE t = "set"
        <3>1. next # "endClear"
            BY <2>2 DEF Call
        <3>2. pc'["set"] # "endClear" /\ Covered' /\ ~iniOpen'
            BY <1>1, <2>1, <2>3, <3>1 DEF CInv, Covered
        <3> QED BY <3>2, CoverOpen
    <2>4. CASE t # "set"
        <3>1. /\ t \in {"get", "partner"} /\ call[t].source = "DEFAULT"
              /\ next \in {"load", "reload"}
            BY <2>2, <2>4 DEF Control, Calls, Threads
        <3>2. /\ \A u \in Threads : u # t => pc'[u] = pc[u] /\ call'[u] = call[u]
              /\ pc'[t] = next /\ call'[t] = NoCall
            BY <1>1, <2>1
        <3> HIDE DEF next
        <3>3. Covered' \/ (pc'["set"] = "endClear" /\ iniOpen')
            BY <1>1, <2>1, <2>4, <3>2 DEF CInv, Covered
        <3>4. iniOpen' => pc'["set"] = "endClear"
            BY <1>1, <2>1, <2>4, <3>2 DEF CInv
        <3>5. ASSUME Closed'
              PROVE  Removed' /\ pc'["partner"] # "resetJournal" /\ OnlyGiven'
            <4>1. Closed
                BY <1>1, <2>1, <2>4, <3>2, <3>5 DEF Closed
            <4>2. Removed /\ pc["partner"] # "resetJournal" /\ OnlyGiven
                BY <1>2, <2>1, <2>4, <4>1 DEF CInv, Loading
            <4>3. Removed' /\ pc'["partner"] # "resetJournal"
                <5>1. CASE t = "partner"
                    BY <3>1, <3>2, <5>1 DEF Removed, Loading
                <5>2. CASE t # "partner"
                    BY <1>1, <3>2, <4>2, <5>2 DEF Removed
                <5> QED BY <5>1, <5>2
            <4>4. \A p : Given(p)' = Given(p)
                BY <2>1 DEF Given
            <4>5. call[t].value = Given(call[t].key)
                BY <2>2, <3>1, <4>2 DEF OnlyGiven, GivenCall
            <4>6. ASSUME NEW p \in Keys, jrn'[p] # NoRec
                  PROVE  jrn'[p].fwValue = Given(p)
                <5>1. CASE jrn'[p] = jrn[p]
                    BY <4>2, <4>6, <5>1 DEF OnlyGiven, GivenStore
                <5>2. CASE jrn'[p] # jrn[p]
                    <6>1. PICK r \in NewRecords(jrn, call[t].key, call[t].value, "DEFAULT") :
                              jrn' = [jrn EXCEPT ![call[t].key] = r]
                        BY <2>1, <2>2, <3>1, <5>2 DEF NewJournals
                    <6>2. p = call[t].key /\ jrn'[p] = r
                        BY <1>1, <5>2, <6>1
                    <6>3. r.fwValue = call[t].value
                        BY <1>1, <2>2, <6>1 DEF NewRecords, Record, Call
                    <6> QED BY <4>5, <6>2, <6>3
                <5> QED BY <5>1, <5>2
            <4>7. GivenStore'
                BY <2>1, <4>2, <4>4, <4>6 DEF OnlyGiven, GivenStore
            <4>8. \A u \in {"get", "partner"} : GivenCall(u)'
                BY <1>1, <3>2, <4>2, <4>4 DEF OnlyGiven, GivenCall
            <4>9. \A u \in {"get", "partner"} : ToLoad(u)' => ToLoad(u)
                BY <1>1, <2>2, <3>1, <3>2 DEF ToLoad, next
            <4>10. \A u \in {"get", "partner"} : GivenTodo(u)'
                BY <2>1, <4>2, <4>4, <4>9 DEF OnlyGiven, GivenTodo
            <4> QED BY <2>1, <4>2, <4>3, <4>7, <4>8, <4>10 DEF OnlyGiven
        <3> QED BY <3>3, <3>4, <3>5 DEF CInv
    <2> QED BY <2>3, <2>4
<1> QED BY <1>3, <1>4, <1>5, <1>6 DEF ThreadStep
(* What ClearDBEnd reverts after the partner thread has removed the file   *)
(* it has open is, in the cache too, the new partner's default already.    *)
LEMMA CoverRevert ==
    ASSUME IInv, Control, CInv, ClearRfcValues
    PROVE  CInv'
<1>1. /\ pc["set"] = "endClear" /\ pc' = [pc EXCEPT !["set"] = "endJournal"]
      /\ pc \in [Threads -> Labels] /\ "set" \in Threads /\ ~iniOpen'
      /\ dict \in DConf
    BY DEF ClearRfcValues, IInv, TypeOK, Threads, DConf
<1>2. \A k \in Keys : dict'[k] = IF k \in Reverted THEN jrn[k].fwValue ELSE dict[k]
    BY DEF ClearRfcValues
<1>3. iniOpen => Covered'
    BY DEF ClearRfcValues, Covered
<1>4. ASSUME ~iniOpen
      PROVE  Covered'
    <2>1. UNCHANGED ini /\ Covered /\ Closed
        BY <1>1, <1>4 DEF ClearRfcValues, CInv, Closed
    <2>2. ASSUME NEW k \in Reverted
          PROVE  jrn[k].fwValue = dict[k]
        <3>1. k \in Keys /\ dict[k] # None /\ jrn[k] # NoRec /\ ini[k] # None
            BY <2>1 DEF Reverted, Covered
        <3>2. OnlyGiven
            BY <2>1, <3>1 DEF CInv, Empty
        <3> QED BY <2>1, <3>1, <3>2 DEF OnlyGiven, GivenStore, Covered
    <2> QED BY <1>2, <2>1, <2>2 DEF Covered
<1>5. Covered'
    BY <1>3, <1>4
<1> QED BY <1>1, <1>5, CoverOpen

LEMMA CoverSet ==
    ASSUME IInv, Control, CInv, SetStep
    PROVE  CInv'
<1>1. pc \in [Threads -> Labels] /\ "set" \in Threads
    BY DEF IInv, TypeOK, Threads
<1>2. ASSUME pc["set"] # "endClear", UNCHANGED <<dict, ini, iniOpen>>,
             NEW l \in {"idle", "checked", "endJournal"}, pc' = [pc EXCEPT !["set"] = l]
      PROVE  CInv'
    <2>1. Covered' /\ ~iniOpen'
        BY <1>2 DEF CInv, Covered
    <2> QED BY <1>1, <1>2, <2>1, CoverOpen
<1>3. CASE OverrideInit \/ ClearDBStart \/ ClearDBEndDone
    BY <1>2, <1>3 DEF OverrideInit, ClearDBStart, ClearDBEndDone, store
<1>4. ASSUME NEW k \in Keys, NEW v \in Data, NEW who,
             NEW next \in {"idle", "loadJson"}, OverrideBody(k, v, who, next)
      PROVE  CInv'
    <2>1. pc["set"] = "checked" /\ UNCHANGED <<iniOpen, firmware, newPid>>
        BY <1>4 DEF OverrideBody, env
    <2>2. CASE pc' = [pc EXCEPT !["set"] = "idle"] /\ UNCHANGED store
        BY <1>2, <2>1, <2>2 DEF store
    <2>3. ASSUME NEW src \in OverrideSource(k, who), SetRawValue("set", k, v, src, next)
          PROVE  CInv'
        <3>1. src \in Sources /\ ~Closed
            BY <2>1, <2>3 DEF OverrideSource, Sources, Closed
        <3> QED BY <1>1, <2>1, <2>3, <3>1, CoverRaw
    <2> QED BY <1>4, <2>2, <2>3 DEF OverrideBody
<1>5. CASE CallLoadJson
    <2>1. pc["set"] = "loadJson" /\ LoadFromJson("set", dict, FALSE)
        BY <1>5 DEF CallLoadJson
    <2>2. Covered' /\ ~iniOpen'
        <3>1. Covered /\ ~iniOpen
            BY <2>1 DEF CInv
        <3>2. UNCHANGED iniOpen
            BY <2>1 DEF LoadFromJson
        <3> QED BY <2>1, <3>1, <3>2, CoverFile DEF Covered
    <2>3. \/ LoadOver("set", FALSE, FALSE)
          \/ pc' = [pc EXCEPT !["set"] = "load"] \/ pc' = [pc EXCEPT !["set"] = "loadJournal"]
        BY <2>1 DEF LoadFromJson
    <2>4. pc'["set"] # "endClear"
        BY <1>1, <2>3 DEF LoadOver
    <2> QED BY <2>2, <2>4, CoverOpen
<1>6. CASE ClearDBEndOpen
    <2>1. CASE iniOpen' = TRUE /\ pc' = [pc EXCEPT !["set"] = "endClear"]
        BY <1>1, <2>1 DEF CInv, Closed
    <2>2. CASE pc' = [pc EXCEPT !["set"] = "endJournal"] /\ UNCHANGED <<ini, iniOpen>>
        BY <1>2, <1>6, <2>2 DEF ClearDBEndOpen
    <2> QED BY <1>6, <2>1, <2>2 DEF ClearDBEndOpen
<1> QED BY <1>3, <1>4, <1>5, <1>6, CoverRevert
        DEF SetStep, OverrideValue, SetPartnerId, Keys, Data

LEMMA CoverPartner ==
    ASSUME IInv, Control, CInv, PartnerStep
    PROVE  CInv'
<1>1. /\ pc \in [Threads -> Labels] /\ {"set", "get", "partner"} \subseteq Threads
      /\ PID \in Keys
    BY DEF IInv, TypeOK, Threads, Keys
<1>2. CASE PartnerQuery \/ PartnerBadAnswer
    <2>1. ~Closed
        BY <1>2 DEF PartnerQuery, PartnerBadAnswer, CInv, Removed, Loading
    <2>2. pc'["set"] = pc["set"] /\ UNCHANGED <<dict, ini, iniOpen>>
        BY <1>1, <1>2 DEF PartnerQuery, PartnerBadAnswer, store
    <2> QED BY <2>1, <2>2 DEF CInv, Covered, Closed
<1>3. CASE PartnerReset
    <2>1. pc'["set"] = pc["set"] /\ pc'["partner"] = "resetJournal"
        BY <1>1, <1>3 DEF PartnerReset
    <2>2. Covered' /\ ~iniOpen' /\ ini' = Empty
        BY <1>3 DEF PartnerReset, Covered, Empty
    <2> QED BY <2>1, <2>2 DEF CInv, Removed, Empty
<1>4. CASE PartnerResetJournal
    <2>1. /\ pc["partner"] = "resetJournal" /\ pc' = [pc EXCEPT !["partner"] = "setId"]
          /\ jrn' = EmptyJournal /\ UNCHANGED <<dict, ini, call, todo, newPid, iniOpen, firmware>>
        BY <1>4 DEF PartnerResetJournal, store, env
    <2>2. /\ pc'["set"] = pc["set"] /\ pc'["get"] = pc["get"] /\ pc'["partner"] = "setId"
        BY <1>1, <2>1
    <2>3. pc["get"] = "idle" /\ call["get"] = NoCall /\ call["partner"] = NoCall
        BY <1>1, <2>1 DEF Control, Locks, Calls, Without
    <2>4. newPid # None
        BY <2>1, ConstantsAssumption DEF IInv, Answered, ConstantsAssumption, Data
    <2>5. \A u \in {"get", "partner"} : ~ToLoad(u)' /\ call'[u] = NoCall
        BY <2>1, <2>2, <2>3 DEF ToLoad
    <2>6. ASSUME Closed'
          PROVE  Removed' /\ pc'["partner"] # "resetJournal" /\ OnlyGiven'
        <3>1. ini = Empty
            BY <2>1, <2>2, <2>6 DEF Closed, CInv
        <3>2. GivenStore'
            BY <2>1, <3>1 DEF GivenStore, Empty, EmptyJournal
        <3>3. \A u \in {"get", "partner"} : GivenCall(u)' /\ GivenTodo(u)'
            BY <2>5 DEF GivenCall, GivenTodo
        <3> QED BY <2>1, <2>2, <2>4, <3>2, <3>3 DEF OnlyGiven, Removed
    <2>7. Covered' \/ (pc'["set"] = "endClear" /\ iniOpen')
        BY <2>1, <2>2 DEF CInv, Covered
    <2>8. iniOpen' => pc'["set"] = "endClear"
        BY <2>1, <2>2 DEF CInv
    <2> QED BY <2>6, <2>7, <2>8 DEF CInv
<1>5. CASE PartnerSetId
    <2>1. /\ pc["partner"] = "setId" /\ UNCHANGED <<firmware, newPid, iniOpen, jrn, todo>>
          /\ SetRawValue("partner", PID, newPid, "DEFAULT", "reload")
        BY <1>5 DEF PartnerSetId, env, journal
    <2>2. newPid \in Data /\ "DEFAULT" \in Sources
        BY <2>1 DEF IInv, Answered, Data, Sources
    <2>3. newPid = Given(PID)
        BY DEF Given
    <2> QED BY <1>1, <2>1, <2>2, <2>3, CoverRaw
<1>6. CASE PartnerRetrieveNow \/ PartnerStopped
    <2>1. /\ pc["partner"] \in {"query", "changed"} /\ pc' = [pc EXCEPT !["partner"] = "done"]
          /\ UNCHANGED <<dict, ini, jrn, firmware, newPid, iniOpen, call, todo>>
        BY <1>6 DEF PartnerRetrieveNow, PartnerStopped, env, store, journal
    <2>2. pc'["set"] = pc["set"] /\ pc'["get"] = pc["get"] /\ pc'["partner"] = "done"
        BY <1>1, <2>1
    <2>3. \A u \in {"get", "partner"} : ToLoad(u)' => ToLoad(u)
        BY <2>1, <2>2 DEF ToLoad
    <2> QED BY <2>1, <2>2, <2>3, CoverKept
<1> QED BY <1>2, <1>3, <1>4, <1>5, <1>6 DEF PartnerStep

LEMMA CoverStep ==
    ASSUME IInv, Control, CInv, [NextPowerLoss]_vars
    PROVE  CInv'
<1>1. ASSUME UNCHANGED vars \/ Stop \/ AuthChange
      PROVE  CInv'
    <2>1. UNCHANGED <<dict, ini, jrn, firmware, newPid, iniOpen, call, todo, pc>>
        BY <1>1 DEF vars, Stop, AuthChange, store, journal
    <2>2. \A u \in {"get", "partner"} : ToLoad(u)' => ToLoad(u)
        BY <2>1 DEF ToLoad
    <2> QED BY <2>1, <2>2, CoverKept
<1>2. ASSUME Boot
      PROVE  CInv'
    BY <1>2, CoverOpen DEF Boot, Covered, Empty, Threads
<1> QED BY <1>1, <1>2, Boots, CoverThread, CoverSet, CoverPartner
        DEF NextPowerLoss, NextCrash, Next

(* Whatever cannot be written and wherever the process dies, for any       *)
(* parameters, partners and images: what getValue answers is in the .ini   *)
(* file, except while ClearDBEnd has that file open, also when the partner *)
(* thread removes and refills the store while it has.                      *)
THEOREM CacheOnDisk == SpecPowerLoss => []CacheSaved
<1>1. Init => CInv
    BY DEF Init, CInv, Covered, Closed, Empty, Threads
<1>2. MInv /\ Control /\ CInv /\ [NextPowerLoss]_vars => CInv'
    BY CoverStep DEF MInv
<1>3. CInv => CacheSaved
    BY DEF CInv, Covered, CacheSaved
<1> QED BY <1>1, <1>2, <1>3, MarksAlways, PTL DEF SpecPowerLoss
=============================================================================
