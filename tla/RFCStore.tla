----------------------------- MODULE RFCStore -----------------------------
(***************************************************************************)
(* The store of the RFC parameters: XRFCStore, with its three caches and   *)
(* three files, and the legacy XRFCStorage, which still writes the main    *)
(* file when the account id is asked for.                                  *)
(*                                                                         *)
(* An RFC run is ClearDB, the sets of what the server sends, ClearDBEnd.   *)
(* During a run sets go to the main file only, so that readers keep the    *)
(* old configuration; what WebPA sets goes to the local file and is merged *)
(* in at the end, below what the run sent.                                 *)
(*                                                                         *)
(* The store has no lock of its own.  Sets and gets come in two threads    *)
(* and take turns: the handler of Device.DeviceInfo holds its lock around  *)
(* each.  A step is the code between two points where the process may die  *)
(* and leave other files: each rewrite of a file ends one, and so does     *)
(* each stage of reloadCache.                                              *)
(***************************************************************************)
CONSTANTS
    Key,          \* parameters kept in the main file
    AccountId,    \* the one whose value the authentication service knows
    NonPersistent,\* parameters under RFC.Feature.NonPersistent
    Value,        \* values a parameter may be given
    Unknown,      \* the account id "unknown"
    Lower,        \* a value without its case, which strcasecmp compares
    Defaults,     \* rfcdefaults.ini
    Patterns,     \* what a ClearParam may name: the set of keys it matches
    AccountIds,   \* what the authentication service may answer
    IoOutcomes,   \* what opening a file for writing may return
    LoadOutcomes, \* whether rfcdefaults.ini can be read
    None,         \* no value: the key is not in the map
    Nothing,      \* no set in progress
    NotLoaded     \* XRFCStorage has not read the file yet

AllKeys == Key \union NonPersistent
Map(K) == [K -> Value \union {None}]
Set == [key : Key, value : Value]

(* Where the thread of the sets is: between clearAll's two files, after    *)
(* the local file of a set or a ClearParam was written, and inside         *)
(* reloadCache, with the cache empty, loaded and merged.                   *)
Labels == {"idle", "clearing", "wroteLocal", "clearedLocal", "emptied", "loaded", "merged"}

ASSUME ConstantsAssumption ==
    /\ AccountId \in Key
    /\ Key \intersect NonPersistent = {}
    /\ None \notin Value
    /\ Unknown \in Value
    /\ Nothing \notin Set
    /\ NotLoaded \notin Map(Key)
    /\ DOMAIN Lower = Value
    /\ Defaults \in Map(AllKeys)
    /\ Patterns \subseteq SUBSET Key
    /\ AccountIds \subseteq Value
    /\ IoOutcomes \subseteq BOOLEAN /\ LoadOutcomes \subseteq BOOLEAN

VARIABLES
    dict,       \* m_dict, the cache readers see
    file,       \* the main file, tr181store.ini
    localDict,  \* m_local_dict
    localFile,  \* what WebPA set, tr181localstore.ini
    npDict,     \* m_nonpersist_dict
    npFile,     \* tr181store_nonpersist.ini
    initDone,   \* m_initDone
    updating,   \* m_updateInProgress
    pc,         \* where the thread of the sets is
    set,        \* the set that has still to reach the main file
    asking,     \* the thread of the gets is asking for the account id
    old,        \* XRFCStorage's m_storage
    sent,       \* history: what was set since ClearDB, WebPA's sets apart
    behind,     \* history: a cache was not written to its file, or a file was
                \*   written beside its cache, since the files were last read
    disturbed   \* history: the main file was not emptied by ClearDB, or has
                \*   been written since by other than the sets of the run

vars == <<dict, file, localDict, localFile, npDict, npFile, initDone, updating,
          pc, set, asking, old, sent, behind, disturbed>>
main == <<dict, file>>
local == <<localDict, localFile>>
nonPersistent == <<npDict, npFile>>
getter == <<asking, old>>
spoilt == <<behind, disturbed>>

-----------------------------------------------------------------------------
(* Helpers.                                                                *)

(* Sets and gets hold the lock of the DeviceInfo handler to their end.     *)
Free == pc = "idle" /\ ~asking

Empty(K) == [k \in K |-> None]

Over(a, b) == [k \in Key |-> IF a[k] # None THEN a[k] ELSE b[k]]

(* getValue of a parameter of the main file.                               *)
Read(k) == IF dict[k] # None THEN dict[k] ELSE Defaults[k]

SameValue(k, v) == dict[k] # None /\ Lower[dict[k]] = Lower[v]

(* What a run has sent so far; the code keeps no such record.              *)
Sent(k, v) == IF updating THEN [sent EXCEPT ![k] = v] ELSE sent

-----------------------------------------------------------------------------
(* setValue.                                                               *)

(* The part that all persistent sets share: into the file at once while a  *)
(* run is in progress, else into the cache and the file if it is new.      *)
SetMain(k, v) ==
    \/ /\ updating /\ TRUE \in IoOutcomes
       /\ file' = [file EXCEPT ![k] = v]
       /\ sent' = Sent(k, v)
       /\ UNCHANGED dict
    \/ /\ ~updating /\ ~SameValue(k, v) /\ TRUE \in IoOutcomes
       /\ dict' = [dict EXCEPT ![k] = v]
       /\ file' = dict'
       /\ UNCHANGED sent
    \/ /\ (~updating /\ SameValue(k, v)) \/ FALSE \in IoOutcomes
       /\ UNCHANGED <<main, sent>>

SetValue(k, v) ==
    /\ Free /\ initDone
    /\ SetMain(k, v)
    /\ UNCHANGED <<local, nonPersistent, initDone, updating, pc, set, getter, spoilt>>

(* A set by WebPA goes to the local file first, which is read again for it.*)
SetLocal(k, v) ==
    /\ Free /\ initDone
    /\ \/ /\ TRUE \in IoOutcomes
          /\ localDict' = [localFile EXCEPT ![k] = v]
          /\ localFile' = localDict'
          /\ pc' = "wroteLocal"
          /\ set' = [key |-> k, value |-> v]
       \/ /\ FALSE \in IoOutcomes
          /\ localDict' = localFile
          /\ UNCHANGED <<localFile, pc, set>>
    /\ UNCHANGED <<main, nonPersistent, initDone, updating, getter, sent, spoilt>>

SetLocalDone ==
    /\ pc = "wroteLocal"
    /\ IF updating THEN UNCHANGED <<main, sent>> ELSE SetMain(set.key, set.value)
    /\ pc' = "idle"
    /\ set' = Nothing
    /\ UNCHANGED <<local, nonPersistent, initDone, updating, getter, spoilt>>

(* Only RFC may set them; the cache and the file change, run or not.       *)
SetNonPersistent(k, v) ==
    /\ Free /\ initDone
    /\ TRUE \in IoOutcomes
    /\ npDict' = [npDict EXCEPT ![k] = v]
    /\ npFile' = npDict'
    /\ sent' = Sent(k, v)
    /\ UNCHANGED <<main, local, initDone, updating, pc, set, getter, spoilt>>

(* ClearParam: what WebPA set and the request names is removed from the    *)
(* caches, which are then written to the files.                            *)
ClearValue(pattern) ==
    LET cleared == {k \in pattern : localFile[k] # None}
        Without(d) == [k \in Key |-> IF k \in cleared THEN None ELSE d[k]]
    IN /\ Free /\ initDone
       /\ localDict' = Without(localFile)
       /\ dict' = Without(dict)
       /\ localFile' \in (IF TRUE \in IoOutcomes \/ cleared = {} THEN {localDict'} ELSE {})
                         \union (IF FALSE \in IoOutcomes THEN {localFile} ELSE {})
       /\ behind' = (behind \/ localFile' # localDict')
       /\ pc' = IF cleared = {} THEN "idle" ELSE "clearedLocal"
       /\ UNCHANGED <<file, nonPersistent, initDone, updating, set, getter, sent,
                      disturbed>>

ClearValueDone ==
    /\ pc = "clearedLocal"
    /\ \/ /\ TRUE \in IoOutcomes
          /\ file' = dict
          /\ disturbed' = (disturbed \/ updating)
          /\ UNCHANGED behind
       \/ /\ FALSE \in IoOutcomes
          /\ behind' = TRUE
          /\ UNCHANGED <<file, disturbed>>
    /\ pc' = "idle"
    /\ UNCHANGED <<dict, local, nonPersistent, initDone, updating, set, getter, sent>>

-----------------------------------------------------------------------------
(* ClearDB, ClearDBEnd and init.                                           *)

(* A ClearDB during a run and a ClearDBEnd outside one are ignored.        *)
ClearAll ==
    /\ Free /\ initDone /\ ~updating
    /\ updating' = TRUE
    /\ \/ TRUE \in IoOutcomes /\ file' = Empty(Key) /\ disturbed' = FALSE
       \/ FALSE \in IoOutcomes /\ disturbed' = TRUE /\ UNCHANGED file
    /\ sent' = Empty(AllKeys)
    /\ pc' = "clearing"
    /\ UNCHANGED <<dict, local, nonPersistent, initDone, set, getter, behind>>

ClearAllDone ==
    /\ pc = "clearing"
    /\ \/ TRUE \in IoOutcomes /\ npFile' = Empty(NonPersistent)
       \/ FALSE \in IoOutcomes /\ UNCHANGED npFile
    /\ pc' = "idle"
    /\ UNCHANGED <<main, local, npDict, initDone, updating, set, getter, sent, spoilt>>

(* loadFileToCache empties the cache before it reads the file.             *)
ReloadCache ==
    /\ Free /\ updating
    /\ dict' = Empty(Key)
    /\ pc' = "emptied"
    /\ UNCHANGED <<file, local, nonPersistent, initDone, updating, set, getter, sent, spoilt>>

(* Mutant: the local file is not read again.                               *)
LoadFilesNotLocal ==
    /\ dict' = file
    /\ npDict' = npFile
    /\ initDone' \in LoadOutcomes
    /\ behind' = FALSE
    /\ UNCHANGED localDict

(* Mutant: the main file is read into the non-persistent cache.            *)
LoadFilesWrongFile ==
    /\ dict' = file
    /\ localDict' = localFile
    /\ npDict' = file
    /\ initDone' \in LoadOutcomes
    /\ behind' = FALSE

(* loadTR181PropertiesIntoCache.                                           *)
LoadFiles ==
    /\ dict' = file
    /\ localDict' = localFile
    /\ npDict' = npFile
    /\ initDone' \in LoadOutcomes
    /\ behind' = FALSE

ReloadLoaded ==
    /\ pc = "emptied"
    /\ LoadFiles
    /\ pc' = "loaded"
    /\ UNCHANGED <<file, localFile, npFile, updating, set, getter, sent, disturbed>>

(* Mutant: what WebPA set goes over what the run sent.                     *)
ReloadMergeOver ==
    /\ pc = "loaded"
    /\ updating' = FALSE
    /\ dict' = Over(localDict, dict)
    /\ pc' = "merged"
    /\ UNCHANGED <<file, local, nonPersistent, initDone, set, getter, sent, spoilt>>

ReloadMerge ==
    /\ pc = "loaded"
    /\ updating' = FALSE
    /\ dict' = Over(dict, localDict)
    /\ pc' = "merged"
    /\ UNCHANGED <<file, local, nonPersistent, initDone, set, getter, sent, spoilt>>

(* Mutant: the merged cache is not written back.                           *)
ReloadDoneNotSaved ==
    /\ pc = "merged"
    /\ pc' = "idle"
    /\ UNCHANGED <<main, local, nonPersistent, initDone, updating, set, getter, sent, spoilt>>

ReloadDone ==
    /\ pc = "merged"
    /\ \/ TRUE \in IoOutcomes /\ file' = dict /\ UNCHANGED behind
       \/ FALSE \in IoOutcomes /\ behind' = TRUE /\ UNCHANGED file
    /\ pc' = "idle"
    /\ UNCHANGED <<dict, local, nonPersistent, initDone, updating, set, getter, sent,
                   disturbed>>

(* init, by a get or a set, after a load that could not read the defaults. *)
LoadAgain ==
    /\ Free /\ ~initDone
    /\ LoadFiles
    /\ UNCHANGED <<file, localFile, npFile, updating, pc, set, getter, sent, disturbed>>

-----------------------------------------------------------------------------
(* get_xRDKCentralComRFC of the account id: when the store does not have   *)
(* it the authentication service is asked, and what it answers is stored   *)
(* through XRFCStorage, which reads the main file once, the first time.    *)

AskAccountId ==
    /\ Free
    /\ initDone => Read(AccountId) \in {None, Unknown}
    /\ asking' = TRUE
    /\ UNCHANGED <<main, local, nonPersistent, initDone, updating, pc, set, old, sent, spoilt>>

StoreAccountId(v) ==
    LET storage == IF old = NotLoaded THEN file ELSE old
    IN /\ asking
       /\ asking' = FALSE
       /\ old' = [storage EXCEPT ![AccountId] = v]
       /\ file' \in (IF storage[AccountId] # v /\ TRUE \in IoOutcomes THEN {old'} ELSE {})
                    \union (IF storage[AccountId] = v \/ FALSE \in IoOutcomes
                            THEN {file} ELSE {})
       /\ behind' = (behind \/ file' # file)
       /\ disturbed' = (disturbed \/ file' # file)
       /\ UNCHANGED <<dict, local, nonPersistent, initDone, updating, pc, set, sent>>

NoAccountId ==
    /\ asking
    /\ asking' = FALSE
    /\ UNCHANGED <<main, local, nonPersistent, initDone, updating, pc, set, old, sent, spoilt>>

-----------------------------------------------------------------------------
(* The process ends, cleanly or not, and is started again.                 *)
Restart ==
    /\ LoadFiles
    /\ updating' = FALSE
    /\ pc' = "idle"
    /\ set' = Nothing
    /\ asking' = FALSE
    /\ old' = NotLoaded
    /\ UNCHANGED <<file, localFile, npFile, sent, disturbed>>

Init ==
    /\ dict = Empty(Key) /\ file = Empty(Key)
    /\ localDict = Empty(Key) /\ localFile = Empty(Key)
    /\ npDict = Empty(NonPersistent) /\ npFile = Empty(NonPersistent)
    /\ initDone \in LoadOutcomes
    /\ updating = FALSE
    /\ pc = "idle"
    /\ set = Nothing
    /\ asking = FALSE
    /\ old = NotLoaded
    /\ sent = Empty(AllKeys)
    /\ behind = FALSE /\ disturbed = FALSE

Next ==
    \/ \E k \in Key, v \in Value : SetValue(k, v) \/ SetLocal(k, v)
    \/ \E k \in NonPersistent, v \in Value : SetNonPersistent(k, v)
    \/ SetLocalDone
    \/ \E p \in Patterns : ClearValue(p)
    \/ ClearValueDone
    \/ ClearAll \/ ClearAllDone
    \/ ReloadCache \/ ReloadLoaded \/ ReloadMerge \/ ReloadDone
    \/ LoadAgain
    \/ AskAccountId \/ NoAccountId
    \/ \E v \in AccountIds : StoreAccountId(v)
    \/ Restart

Spec == Init /\ [][Next]_vars

-----------------------------------------------------------------------------
(* Properties.                                                             *)

(* Every variable holds a value of the type the code gives it.             *)
TypeOK ==
    /\ dict \in Map(Key) /\ file \in Map(Key)
    /\ localDict \in Map(Key) /\ localFile \in Map(Key)
    /\ npDict \in Map(NonPersistent) /\ npFile \in Map(NonPersistent)
    /\ initDone \in BOOLEAN /\ updating \in BOOLEAN /\ asking \in BOOLEAN
    /\ pc \in Labels
    /\ IF pc = "wroteLocal" THEN set \in Set ELSE set = Nothing
    /\ old \in Map(Key) \union {NotLoaded}
    /\ sent \in Map(AllKeys)
    /\ behind \in BOOLEAN /\ disturbed \in BOOLEAN

(* Outside a run and with no set under way, the files hold what the caches *)
(* hold, so that a restart, or a crash, changes no answer; after a write   *)
(* has failed or the legacy storage has written they do so again from the  *)
(* end of the next run on.                                                 *)
FilesMatch ==
    ~behind /\ ~updating /\ pc = "idle"
    => file = dict /\ localFile = localDict /\ npFile = npDict

(* After ClearDBEnd readers see what the run sent, else what WebPA set     *)
(* last, else the default, and nothing of the configuration before,        *)
(* whatever writes and loads failed, unless the main file was not emptied  *)
(* at first, or was written by a ClearParam or the legacy storage.  Of the *)
(* parameters that are not persistent they see what the run sent.          *)
RunOutcome ==
    pc = "merged" =>
        /\ ~disturbed => dict = Over(sent, localFile)
        /\ \A k \in NonPersistent : sent[k] # None => npDict[k] = sent[k]

(* Whatever write fails and whatever the legacy storage writes, after      *)
(* ClearDBEnd no parameter that WebPA has set is answered with a default.  *)
LocalMerged == pc = "merged" => \A k \in Key : localFile[k] # None => dict[k] # None
=============================================================================
