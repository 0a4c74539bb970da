-------------------------- MODULE RFCStoreProofs --------------------------
(***************************************************************************)
(* What the store of the RFC parameters guarantees for every set of        *)
(* parameters and values: its types; that after a run readers see what the *)
(* run sent above what WebPA set; that a value WebPA set survives a run     *)
(* whatever else happens; and that outside a run the files hold what the   *)
(* caches hold.                                                            *)
(***************************************************************************)
EXTENDS RFCStore, TLAPS

-----------------------------------------------------------------------------
(* Types.                                                                  *)

(* The helpers on maps.                                                    *)
LEMMA MapFacts ==
    /\ \A K : Empty(K) \in Map(K)
    /\ \A a, b \in Map(Key) : Over(a, b) \in Map(Key)
    /\ \A K : \A m \in Map(K), k \in K, v \in Value : [m EXCEPT ![k] = v] \in Map(K)
BY DEF Empty, Map, Over

(* A set in a run is noted, another is not.                                *)
LEMMA SentType ==
    ASSUME TypeOK, NEW k \in AllKeys, NEW v \in Value
    PROVE  Sent(k, v) \in Map(AllKeys)
BY MapFacts DEF Sent, TypeOK

LEMMA SetMainType ==
    ASSUME TypeOK, NEW k \in Key, NEW v \in Value, SetMain(k, v)
    PROVE  dict' \in Map(Key) /\ file' \in Map(Key) /\ sent' \in Map(AllKeys)
<1>1. k \in AllKeys
  BY DEF AllKeys
<1>2. /\ [dict EXCEPT ![k] = v] \in Map(Key)
      /\ [file EXCEPT ![k] = v] \in Map(Key)
  BY MapFacts DEF TypeOK
<1>3. Sent(k, v) \in Map(AllKeys)
  BY <1>1, SentType
<1> QED
  BY <1>2, <1>3 DEF SetMain, TypeOK, main

LEMMA LoadFilesType ==
    ASSUME TypeOK, LoadFiles
    PROVE  /\ dict' \in Map(Key) /\ localDict' \in Map(Key)
           /\ npDict' \in Map(NonPersistent) /\ initDone' \in BOOLEAN
           /\ behind' \in BOOLEAN
BY ConstantsAssumption DEF LoadFiles, TypeOK

LEMMA TypeInit == Init => TypeOK
BY MapFacts, ConstantsAssumption DEF Init, TypeOK, Labels

LEMMA TypeStep == TypeOK /\ [Next]_vars => TypeOK'
<1> SUFFICES ASSUME TypeOK, [Next]_vars
             PROVE  TypeOK'
  OBVIOUS
<1> USE DEF Free, main, local, nonPersistent, getter, spoilt
<1>1. ASSUME NEW k \in Key, NEW v \in Value, SetValue(k, v)
      PROVE  TypeOK'
  BY <1>1, SetMainType DEF SetValue, TypeOK
<1>2. ASSUME NEW k \in Key, NEW v \in Value, SetLocal(k, v)
      PROVE  TypeOK'
  <2>1. [localFile EXCEPT ![k] = v] \in Map(Key)
    BY MapFacts DEF TypeOK
  <2>2. [key |-> k, value |-> v] \in Set
    BY DEF Set
  <2>3. /\ localDict' \in Map(Key) /\ localFile' \in Map(Key)
        /\ pc' \in Labels /\ IF pc' = "wroteLocal" THEN set' \in Set ELSE set' = Nothing
    BY <1>2, <2>1, <2>2 DEF SetLocal, TypeOK, Labels
  <2> QED
    BY <1>2, <2>3 DEF SetLocal, TypeOK
<1>3. ASSUME NEW k \in NonPersistent, NEW v \in Value, SetNonPersistent(k, v)
      PROVE  TypeOK'
  <2>1. [npDict EXCEPT ![k] = v] \in Map(NonPersistent)
    BY MapFacts DEF TypeOK
  <2>2. Sent(k, v) \in Map(AllKeys)
    BY SentType DEF AllKeys
  <2> QED
    BY <1>3, <2>1, <2>2 DEF SetNonPersistent, TypeOK
<1>4. CASE SetLocalDone
  <2>1. CASE updating
    BY <1>4, <2>1 DEF SetLocalDone, TypeOK, Labels
  <2>2. CASE ~updating
    <3>1. SetMain(set.key, set.value) /\ set.key \in Key /\ set.value \in Value
      BY <1>4, <2>2 DEF SetLocalDone, Set, TypeOK
    <3>2. dict' \in Map(Key) /\ file' \in Map(Key) /\ sent' \in Map(AllKeys)
      BY <3>1, SetMainType
    <3> QED
      BY <1>4, <3>2 DEF SetLocalDone, TypeOK, Labels
  <2> QED
    BY <2>1, <2>2
<1>5. ASSUME NEW p \in Patterns, ClearValue(p)
      PROVE  TypeOK'
  <2> DEFINE cleared == {k \in p : localFile[k] # None}
             Without(d) == [k \in Key |-> IF k \in cleared THEN None ELSE d[k]]
  <2>1. \A d \in Map(Key) : Without(d) \in Map(Key)
    BY DEF Map
  <2>2. /\ localDict' = Without(localFile)
        /\ dict' = Without(dict)
        /\ localFile' \in {localDict', localFile}
        /\ pc' \in {"idle", "clearedLocal"}
    BY <1>5 DEF ClearValue
  <2>3. localDict' \in Map(Key) /\ dict' \in Map(Key)
    BY <2>1, <2>2 DEF TypeOK
  <2> QED
    BY <1>5, <2>2, <2>3 DEF ClearValue, TypeOK, Labels
<1>6. CASE ClearValueDone
  BY <1>6 DEF ClearValueDone, TypeOK, Labels
<1>7. CASE ClearAll
  BY <1>7, MapFacts DEF ClearAll, TypeOK, Labels
<1>8. CASE ClearAllDone
  BY <1>8, MapFacts DEF ClearAllDone, TypeOK, Labels
<1>9. CASE ReloadCache
  BY <1>9, MapFacts DEF ReloadCache, TypeOK, Labels
<1>10. CASE ReloadLoaded
  BY <1>10, LoadFilesType DEF ReloadLoaded, TypeOK, Labels
<1>11. CASE ReloadMerge
  BY <1>11, MapFacts DEF ReloadMerge, TypeOK, Labels
<1>12. CASE ReloadDone
  BY <1>12 DEF ReloadDone, TypeOK, Labels
<1>13. CASE LoadAgain
  BY <1>13, LoadFilesType DEF LoadAgain, TypeOK
<1>14. CASE AskAccountId
  BY <1>14 DEF AskAccountId, TypeOK
<1>15. CASE NoAccountId
  BY <1>15 DEF NoAccountId, TypeOK
<1>16. ASSUME NEW v \in AccountIds, StoreAccountId(v)
       PROVE  TypeOK'
  <2> DEFINE storage == IF old = NotLoaded THEN file ELSE old
  <2>1. storage \in Map(Key) /\ AccountId \in Key /\ v \in Value
    BY ConstantsAssumption DEF TypeOK
  <2>2. [storage EXCEPT ![AccountId] = v] \in Map(Key)
    BY <2>1, MapFacts
  <2>3. /\ old' = [storage EXCEPT ![AccountId] = v]
        /\ file' \in {old', file}
        /\ asking' = FALSE
    BY <1>16 DEF StoreAccountId
  <2> QED
    BY <1>16, <2>2, <2>3 DEF StoreAccountId, TypeOK
<1>17. CASE Restart
  BY <1>17, LoadFilesType DEF Restart, TypeOK, Labels
<1>18. CASE UNCHANGED vars
  BY <1>18 DEF vars, TypeOK
<1> QED
  BY <1>1, <1>2, <1>3, <1>4, <1>5, <1>6, <1>7, <1>8, <1>9, <1>10, <1>11, <1>12,
     <1>13, <1>14, <1>15, <1>16, <1>17, <1>18 DEF Next

(* Every variable keeps to its type.                                       *)
THEOREM TypeCorrect == Spec => []TypeOK
BY TypeInit, TypeStep, PTL DEF Spec

-----------------------------------------------------------------------------
(* What WebPA set survives a run.                                          *)

(* The merge reads the local cache that reloadCache has just loaded.       *)
LocalInv ==
    /\ LocalMerged
    /\ pc = "loaded" => localDict = localFile

LEMMA LocalStep ==
    ASSUME TypeOK, LocalInv, [Next]_vars
    PROVE  LocalInv'
<1> USE DEF Free, main, local, nonPersistent, getter, spoilt, LocalInv, LocalMerged
<1>1. ASSUME NEW k \in Key, NEW v \in Value, SetValue(k, v) \/ SetLocal(k, v)
      PROVE  LocalInv'
  BY <1>1 DEF SetValue, SetLocal
<1>2. ASSUME NEW k \in NonPersistent, NEW v \in Value, SetNonPersistent(k, v)
      PROVE  LocalInv'
  BY <1>2 DEF SetNonPersistent
<1>3. CASE SetLocalDone
  BY <1>3 DEF SetLocalDone
<1>4. ASSUME NEW p \in Patterns, ClearValue(p)
      PROVE  LocalInv'
  BY <1>4 DEF ClearValue
<1>5. CASE ClearValueDone \/ ClearAll \/ ClearAllDone \/ ReloadCache \/ ReloadDone
  BY <1>5 DEF ClearValueDone, ClearAll, ClearAllDone, ReloadCache, ReloadDone
<1>6. CASE ReloadLoaded
  BY <1>6 DEF ReloadLoaded, LoadFiles
<1>7. CASE ReloadMerge
  <2>1. dict' = Over(dict, localDict) /\ localDict = localFile /\ localFile' = localFile
    BY <1>7 DEF ReloadMerge
  <2>2. \A k \in Key : localFile[k] # None => dict'[k] # None
    BY <2>1 DEF Over
  <2> QED
    BY <1>7, <2>1, <2>2 DEF ReloadMerge
<1>8. CASE AskAccountId \/ NoAccountId
  BY <1>8 DEF AskAccountId, NoAccountId
<1>9. ASSUME NEW v \in AccountIds, StoreAccountId(v)
      PROVE  LocalInv'
  BY <1>9 DEF StoreAccountId
<1>10. CASE Restart
  BY <1>10 DEF Restart, LoadFiles
<1>11. CASE LoadAgain
  BY <1>11 DEF LoadAgain, LoadFiles
<1>12. CASE UNCHANGED vars
  BY <1>12 DEF vars
<1> QED
  BY <1>1, <1>2, <1>3, <1>4, <1>5, <1>6, <1>7, <1>8, <1>9, <1>10, <1>11, <1>12 DEF Next

(* No parameter that WebPA has set is answered with a default after a run, *)
(* whatever write or load fails.                                           *)
THEOREM LocalSurvives == Spec => []LocalMerged
<1>1. Init => LocalInv
  BY DEF Init, LocalInv, LocalMerged
<1>2. TypeOK /\ LocalInv /\ [Next]_vars => LocalInv'
  BY LocalStep
<1>3. LocalInv => LocalMerged
  BY DEF LocalInv
<1> QED
  BY <1>1, <1>2, <1>3, TypeCorrect, PTL DEF Spec

-----------------------------------------------------------------------------
(* The outcome of a run.                                                   *)

(* During a run the main file is what the run has sent so far.             *)
RunInv ==
    /\ RunOutcome
    /\ updating /\ ~disturbed => \A k \in Key : file[k] = sent[k]
    /\ pc \in {"clearing", "emptied", "loaded"} => updating
    /\ pc = "loaded" => dict = file /\ localDict = localFile
    /\ pc = "merged" => ~updating
    /\ asking => pc = "idle"
    /\ updating => \A k \in NonPersistent :
                      sent[k] # None => npFile[k] = sent[k] /\ npDict[k] = sent[k]
    /\ pc = "clearing" => \A k \in NonPersistent : sent[k] = None

(* A set in a run is in the file and in the record of the run alike.       *)
LEMMA SetMainInRun ==
    ASSUME TypeOK, RunInv, NEW k \in Key, NEW v \in Value, SetMain(k, v)
    PROVE  updating => /\ ~disturbed => \A q \in Key : file'[q] = sent'[q]
                       /\ \A q \in NonPersistent : sent'[q] = sent[q]
<1> SUFFICES ASSUME updating
             PROVE  /\ ~disturbed => \A q \in Key : file'[q] = sent'[q]
                    /\ \A q \in NonPersistent : sent'[q] = sent[q]
  OBVIOUS
<1>1. \/ file' = [file EXCEPT ![k] = v] /\ sent' = [sent EXCEPT ![k] = v]
      \/ file' = file /\ sent' = sent
  BY DEF SetMain, Sent, main
<1>2. /\ file \in Map(Key) /\ sent \in Map(AllKeys)
      /\ Key \subseteq AllKeys /\ NonPersistent \subseteq AllKeys
      /\ \A q \in NonPersistent : q # k
  BY ConstantsAssumption DEF TypeOK, AllKeys, ConstantsAssumption
<1> QED
  BY <1>1, <1>2 DEF Map, RunInv

LEMMA RunStep ==
    ASSUME TypeOK, RunInv, [Next]_vars
    PROVE  RunInv'
<1> USE DEF Free, main, local, nonPersistent, getter, spoilt, RunInv, RunOutcome
<1>1. ASSUME NEW k \in Key, NEW v \in Value, SetValue(k, v)
      PROVE  RunInv'
  BY <1>1, SetMainInRun DEF SetValue
<1>2. ASSUME NEW k \in Key, NEW v \in Value, SetLocal(k, v)
      PROVE  RunInv'
  BY <1>2 DEF SetLocal
<1>3. ASSUME NEW k \in NonPersistent, NEW v \in Value, SetNonPersistent(k, v)
      PROVE  RunInv'
  <2>1. \A q \in Key : q # k
    BY ConstantsAssumption
  <2>2. /\ sent \in Map(AllKeys) /\ npDict \in Map(NonPersistent)
        /\ Key \subseteq AllKeys /\ NonPersistent \subseteq AllKeys
    BY DEF TypeOK, AllKeys
  <2>3. updating' /\ ~disturbed' => \A q \in Key : file'[q] = sent'[q]
    BY <1>3, <2>1, <2>2 DEF SetNonPersistent, Sent, Map
  <2>4. updating' => \A q \in NonPersistent :
                        sent'[q] # None => npFile'[q] = sent'[q] /\ npDict'[q] = sent'[q]
    BY <1>3, <2>2 DEF SetNonPersistent, Sent, Map
  <2>5. pc' = "idle"
    BY <1>3 DEF SetNonPersistent
  <2> QED
    BY <1>3, <2>3, <2>4, <2>5 DEF SetNonPersistent
<1>4. CASE SetLocalDone
  <2>1. updating => file' = file /\ sent' = sent
    BY <1>4 DEF SetLocalDone
  <2> QED
    BY <1>4, <2>1 DEF SetLocalDone
<1>5. CASE ClearAll
  <2>1. /\ ~disturbed' => \A q \in Key : file'[q] = sent'[q]
        /\ \A q \in NonPersistent : sent'[q] = None
    BY <1>5 DEF ClearAll, Empty, AllKeys
  <2> QED
    BY <1>5, <2>1 DEF ClearAll
<1>6. CASE ClearValueDone \/ ClearAllDone \/ ReloadCache \/ ReloadDone
  <2>1. CASE ClearValueDone
    BY <2>1 DEF ClearValueDone
  <2>2. CASE ClearAllDone
    BY <2>2 DEF ClearAllDone
  <2>3. CASE ReloadCache
    BY <2>3 DEF ReloadCache
  <2>4. CASE ReloadDone
    BY <2>4 DEF ReloadDone
  <2> QED
    BY <1>6, <2>1, <2>2, <2>3, <2>4
<1>7. CASE ReloadLoaded
  BY <1>7 DEF ReloadLoaded, LoadFiles
<1>8. CASE ReloadMerge
  <2>1. /\ dict' = Over(dict, localFile) /\ localFile' = localFile
        /\ ~disturbed => \A k \in Key : dict[k] = sent[k]
    BY <1>8 DEF ReloadMerge
  <2>2. ~disturbed => dict' = Over(sent, localFile)
    BY <2>1 DEF Over
  <2> QED
    BY <1>8, <2>2 DEF ReloadMerge
<1>9. CASE LoadAgain
  BY <1>9 DEF LoadAgain, LoadFiles
<1>10. CASE AskAccountId \/ NoAccountId
  <2>1. /\ UNCHANGED <<main, local, nonPersistent, initDone, updating, pc, sent, spoilt>>
        /\ pc = "idle"
    BY <1>10 DEF AskAccountId, NoAccountId
  <2> QED
    BY <2>1
<1>11. CASE Restart
  BY <1>11 DEF Restart, LoadFiles
<1>12. CASE UNCHANGED vars
  BY <1>12 DEF vars
<1>13. ASSUME NEW p \in Patterns, ClearValue(p)
       PROVE  RunInv'
  <2>1. /\ pc' \in {"idle", "clearedLocal"}
        /\ UNCHANGED <<file, npDict, npFile, updating, disturbed, sent, asking>>
        /\ ~asking
    BY <1>13 DEF ClearValue
  <2> QED
    BY <2>1
<1>14. ASSUME NEW v \in AccountIds, StoreAccountId(v)
       PROVE  RunInv'
  <2>1. /\ ~disturbed' => file' = file /\ ~disturbed
        /\ asking /\ asking' = FALSE
        /\ UNCHANGED <<dict, localDict, localFile, npDict, npFile, updating, pc, sent>>
    BY <1>14 DEF StoreAccountId
  <2> QED
    BY <2>1
<1> QED
  BY <1>1, <1>2, <1>3, <1>4, <1>5, <1>6, <1>7, <1>8, <1>9, <1>10, <1>11, <1>12,
     <1>13, <1>14 DEF Next

(* After a run readers see what it sent, else what WebPA set last, as long *)
(* as the main file was emptied and nobody else wrote to it.               *)
THEOREM RunsDeliver == Spec => []RunOutcome
<1>1. Init => RunInv
  BY DEF Init, RunInv, RunOutcome
<1>2. TypeOK /\ RunInv /\ [Next]_vars => RunInv'
  BY RunStep
<1>3. RunInv => RunOutcome
  BY DEF RunInv
<1> QED
  BY <1>1, <1>2, <1>3, TypeCorrect, PTL DEF Spec

-----------------------------------------------------------------------------
(* Memory and files.                                                       *)

(* Between the steps of a set, a ClearParam and a reload the files are     *)
(* behind in the main file only, which is written last.                    *)
FilesInv ==
    /\ FilesMatch
    /\ ~behind /\ ~updating /\ pc = "wroteLocal"
         => file = dict /\ localFile = localDict /\ npFile = npDict
    /\ ~behind /\ ~updating /\ pc = "clearedLocal"
         => localFile = localDict /\ npFile = npDict
    /\ pc \in {"loaded", "merged"} => localFile = localDict /\ npFile = npDict
    /\ pc \in {"clearing", "emptied", "loaded"} => updating
    /\ asking => pc = "idle"

LEMMA FilesStep ==
    ASSUME TypeOK, FilesInv, [Next]_vars
    PROVE  FilesInv'
<1> USE DEF Free, main, local, nonPersistent, getter, spoilt, FilesInv, FilesMatch
<1>1. ASSUME NEW k \in Key, NEW v \in Value, SetValue(k, v)
      PROVE  FilesInv'
  BY <1>1 DEF SetValue, SetMain
<1>2. ASSUME NEW k \in Key, NEW v \in Value, SetLocal(k, v)
      PROVE  FilesInv'
  BY <1>2 DEF SetLocal
<1>3. ASSUME NEW k \in NonPersistent, NEW v \in Value, SetNonPersistent(k, v)
      PROVE  FilesInv'
  BY <1>3 DEF SetNonPersistent
<1>4. CASE SetLocalDone
  <2>1. CASE updating
    BY <1>4, <2>1 DEF SetLocalDone
  <2>2. CASE ~updating
    <3>1. file' = dict' \/ UNCHANGED <<file, dict>>
      BY <1>4, <2>2 DEF SetLocalDone, SetMain
    <3> QED
      BY <1>4, <2>2, <3>1 DEF SetLocalDone
  <2> QED
    BY <2>1, <2>2
<1>5. ASSUME NEW p \in Patterns, ClearValue(p)
      PROVE  FilesInv'
  <2> DEFINE cleared == {k \in p : localFile[k] # None}
             Without(d) == [k \in Key |-> IF k \in cleared THEN None ELSE d[k]]
  <2>1. /\ pc = "idle" /\ ~asking /\ asking' = FALSE
        /\ dict' = Without(dict)
        /\ behind' = (behind \/ localFile' # localDict')
        /\ pc' = IF cleared = {} THEN "idle" ELSE "clearedLocal"
        /\ UNCHANGED <<file, npDict, npFile, updating>>
    BY <1>5 DEF ClearValue
  <2>2. cleared = {} => dict' = dict
    BY <2>1 DEF TypeOK, Map
  <2>3. ~behind' => ~behind /\ localFile' = localDict'
    BY <2>1
  <2> HIDE DEF cleared, Without
  <2>4. pc' \in {"idle", "clearedLocal"} /\ (pc' = "idle" => dict' = dict)
    BY <2>1, <2>2
  <2> QED
    BY <2>1, <2>3, <2>4
<1>6. CASE ClearValueDone
  BY <1>6 DEF ClearValueDone
<1>7. CASE ClearAll \/ ClearAllDone \/ ReloadCache
  <2>1. ASSUME ClearAll
        PROVE  updating' /\ pc' = "clearing" /\ ~asking'
    BY <2>1 DEF ClearAll
  <2>2. ASSUME ClearAllDone
        PROVE  updating' /\ pc' = "idle" /\ ~asking'
    BY <2>2 DEF ClearAllDone
  <2>3. ASSUME ReloadCache
        PROVE  updating' /\ pc' = "emptied" /\ ~asking'
    BY <2>3 DEF ReloadCache
  <2> QED
    BY <1>7, <2>1, <2>2, <2>3
<1>8. CASE ReloadLoaded
  BY <1>8 DEF ReloadLoaded, LoadFiles
<1>9. CASE ReloadMerge
  BY <1>9 DEF ReloadMerge
<1>10. CASE ReloadDone
  BY <1>10 DEF ReloadDone
<1>11. CASE LoadAgain
  BY <1>11 DEF LoadAgain, LoadFiles
<1>12. CASE AskAccountId \/ NoAccountId
  BY <1>12 DEF AskAccountId, NoAccountId
<1>13. CASE Restart
  BY <1>13 DEF Restart, LoadFiles
<1>14. CASE UNCHANGED vars
  BY <1>14 DEF vars
<1>15. ASSUME NEW v \in AccountIds, StoreAccountId(v)
       PROVE  FilesInv'
  <2>1. /\ ~behind' => file' = file /\ ~behind
        /\ asking /\ asking' = FALSE
        /\ UNCHANGED <<dict, localDict, localFile, npDict, npFile, updating, pc>>
    BY <1>15 DEF StoreAccountId
  <2> QED
    BY <2>1
<1> QED
  BY <1>1, <1>2, <1>3, <1>4, <1>5, <1>6, <1>7, <1>8, <1>9, <1>10, <1>11, <1>12,
     <1>13, <1>14, <1>15 DEF Next

(* Outside a run and with no set under way the three files hold what the   *)
(* three caches hold, whatever was cleared, failed or written beside the   *)
(* caches before they were last loaded.                                    *)
THEOREM FilesKept == Spec => []FilesMatch
<1>1. Init => FilesInv
  BY DEF Init, FilesInv, FilesMatch
<1>2. TypeOK /\ FilesInv /\ [Next]_vars => FilesInv'
  BY FilesStep
<1>3. FilesInv => FilesMatch
  BY DEF FilesInv
<1> QED
  BY <1>1, <1>2, <1>3, TypeCorrect, PTL DEF Spec
=============================================================================
