------------------------------ MODULE WebConfig ------------------------------
(***************************************************************************)
(* The web configuration client: a thread that main starts once and never  *)
(* waits for.  It asks the cloud for the configuration document of the     *)
(* device, naming the version it has, sets the parameter the document      *)
(* holds and reports what became of it.  What fails is tried again, up to  *)
(* MaxRetry times; before that the token that lets the device in is read,  *)
(* or made by a script that waits for a certificate.                       *)
(*                                                                         *)
(* Versions are opaque, none the beginning of another.  The address of the *)
(* document, the headers other than the two about versions and the layout  *)
(* of the report are left out; so are sleeps, which only take time.  The   *)
(* cloud, the scripts and the set over HTTP are external: they may give    *)
(* any answer, but 304 and 200 tell the truth about the version.           *)
(***************************************************************************)
EXTENDS Integers, Sequences, SequencesExt

CONSTANTS
    Doc,        \* the documents of the cloud, by version
    MaxRetry,   \* 25, the retries of a sync
    MaxToken,   \* 60, the waits for the certificate less one
    MaxStarts,  \* bound: how often the process is started again
    None        \* no version, no value, no answer

Version == DOMAIN Doc
Empty == [version |-> None, parameters |-> <<>>, plain |-> FALSE]

(* A document has the fields version and parameters, and is plain if it    *)
(* has no others.                                                          *)
ASSUME DocAssumption ==
    /\ None \notin Version /\ None # "success"
    /\ \A v \in Version : Doc[v].version = v /\ Doc[v].plain \in BOOLEAN
    /\ {MaxRetry, MaxToken, MaxStarts} \subseteq Nat

VARIABLES
    pc,                \* where the thread is
    retry_count,       \* of processWebconfigSync
    token_retry_count, \* of createNewAuthToken
    rv,                \* of processWebconfigSync, kept over its turns
    token,             \* whether webpa_auth_token has one
    g_ETAG,            \* the version in the header of the last answer that had it
    code, data,        \* the answer: HTTP code and document
    set,               \* what setRFCParameter returned
    version,           \* /opt/persistent/webconfig_Version
    cloud,             \* the version the cloud has
    starts,            \* how often the process was started again
    reports,           \* history: the reports of this sync
    applied,           \* history: versions whose parameter was set
    failed,            \* history: versions the cloud was told the failure of
    dropped,           \* history: versions whose report of failure was dropped
    lost               \* history: versions in hand when the process died

sync == <<retry_count, token_retry_count, rv>>
answer == <<g_ETAG, code, data>>
past == <<reports, applied, failed, dropped, lost>>
env == <<cloud, starts>>
vars == <<pc, sync, token, answer, set, version, env, past>>

Labels == {"mac", "auth", "newToken", "request", "answer", "renew", "retry",
           "document", "set", "tell", "sleep", "ended"}

(* handleHttpResponse returns, and processWebconfigSync looks at it.       *)
Return(status) ==
    /\ rv' = status
    /\ pc' = IF status = "SUCCESS" THEN "ended" ELSE "sleep"
    /\ UNCHANGED <<retry_count, token_retry_count>>

(* addWebConfigNotifyMsg and processWebConfigNotification, in the thread   *)
(* itself.  Only a report about a 200 has an application status.  It may   *)
(* not be sent: there may be no memory for it, and sendNotification drops  *)
(* it after its fourth attempt, as with a Parodus that is not there yet.   *)
(* Nobody looks at that.                                                   *)
addWebConfigNotifyMsg(c, status, v, sent) ==
    reports' = Append(reports, [code |-> c, version |-> v, sent |-> sent,
                                status |-> IF c = 200 THEN status ELSE None])

-----------------------------------------------------------------------------
(* processWebconfigSync, the turn of its loop.                             *)

(* Mutant: the retries are one too many.                                   *)
TurnMore ==
    /\ pc = "mac"
    /\ IF retry_count > MaxRetry + 1
       THEN pc' = "ended" /\ retry_count' = 0 /\ UNCHANGED code
       ELSE pc' \in {"auth", "sleep"} /\ code' = None /\ UNCHANGED retry_count
    /\ UNCHANGED <<token_retry_count, rv, token, g_ETAG, data, set, version, env, past>>

(* The MAC address may not be known yet.  What is left of the answer of    *)
(* the turn before is not read again; None says so.                        *)
Turn ==
    /\ pc = "mac"
    /\ IF retry_count > MaxRetry
       THEN pc' = "ended" /\ retry_count' = 0 /\ UNCHANGED code
       ELSE pc' \in {"auth", "sleep"} /\ code' = None /\ UNCHANGED retry_count
    /\ UNCHANGED <<token_retry_count, rv, token, g_ETAG, data, set, version, env, past>>

(* requestWebConfigData finds no memory: rv is that of the turn before.    *)
NoCurl ==
    /\ pc = "auth"
    /\ Return(rv)
    /\ UNCHANGED <<token, answer, set, version, env, past>>

(* Mutant: a turn is not counted.                                          *)
BackoffUncounted ==
    /\ pc = "sleep"
    /\ pc' = "mac"
    /\ UNCHANGED <<sync, token, answer, set, version, env, past>>

Backoff ==
    /\ pc = "sleep"
    /\ pc' = "mac"
    /\ retry_count' = retry_count + 1
    /\ UNCHANGED <<token_retry_count, rv, token, answer, set, version, env, past>>

-----------------------------------------------------------------------------
(* The token.                                                              *)

(* getAuthToken: the script says nothing, a token, or ERROR.               *)
getAuthToken ==
    /\ pc = "auth"
    /\ \/ token' \in BOOLEAN /\ pc' = "request" /\ UNCHANGED token_retry_count
       \/ token' = FALSE /\ pc' = "newToken" /\ token_retry_count' = 0
    /\ UNCHANGED <<retry_count, rv, answer, set, version, env, past>>

(* createNewAuthToken, before the request or after a 403: with the         *)
(* certificate one attempt, which leaves the token when it fails; without  *)
(* it a wait, MaxToken + 1 times.                                          *)
createNewAuthToken ==
    /\ pc \in {"newToken", "renew"}
    /\ LET done == IF pc = "renew" THEN "retry" ELSE "request" IN
       \/ /\ token' \in {token, TRUE}
          /\ pc' = done
          /\ UNCHANGED token_retry_count
       \/ /\ token_retry_count > MaxToken
          /\ pc' = done
          /\ UNCHANGED <<token, token_retry_count>>
       \/ /\ token_retry_count <= MaxToken
          /\ token_retry_count' = token_retry_count + 1
          /\ UNCHANGED <<pc, token>>
    /\ UNCHANGED <<retry_count, rv, answer, set, version, env, past>>

-----------------------------------------------------------------------------
(* The request.                                                            *)

(* 0 is the code when there was no answer.                                 *)
Code == {0, 200, 204, 304, 400, 403, 404, 429, 500}

(* createCurlheader sends the version as IF-NONE-MATCH: what the cloud may *)
(* answer to it.                                                           *)
createCurlheader ==
    Code \ {IF version = cloud THEN 200 ELSE 304}

(* header_callback: an answer without the header leaves that of an earlier *)
(* one.                                                                    *)
header_callback(etag) == IF etag = None THEN g_ETAG ELSE etag

(* write_callback_fn copies with the size of the pointer as the bound:     *)
(* where memcpy_s checks it nothing is copied.                             *)
write_callback_fn(d) == {d, Empty}

(* requestWebConfigData: the document is kept of a 200 of the right type   *)
(* that came in full.  Only the document of a 200 matters.                 *)
requestWebConfigData ==
    /\ pc = "request"
    /\ \E c \in createCurlheader, etag \in {cloud, None} :
          /\ code' = c
          /\ g_ETAG' = IF c = 0 THEN g_ETAG ELSE header_callback(etag)
          /\ data' \in IF c = 200 THEN write_callback_fn(Doc[cloud]) \cup {None}
                       ELSE {None}
    /\ pc' = "answer"
    /\ UNCHANGED <<sync, token, set, version, env, past>>

-----------------------------------------------------------------------------
(* handleHttpResponse.                                                     *)

(* Codes that end the sync with a report, and without one.                 *)
Final == {304, 204, 400}
Quiet == {429}

HandleFinal ==
    /\ pc = "answer" /\ code \in Final
    /\ \E sent \in BOOLEAN : addWebConfigNotifyMsg(code, None, version, sent)
    /\ Return("SUCCESS")
    /\ UNCHANGED <<token, answer, set, version, env, applied, failed, dropped, lost>>

HandleQuiet ==
    /\ pc = "answer" /\ code \in Quiet \cup {404}
    /\ Return(IF code \in Quiet THEN "SUCCESS" ELSE "ERR")
    /\ UNCHANGED <<token, answer, set, version, env, past>>

(* A 403 asks for a new token; a 200 with a document is worked on; the     *)
(* rest is an error.                                                       *)
HandleOther ==
    /\ pc = "answer" /\ code \notin Final \cup Quiet \cup {404}
    /\ pc' = CASE code = 403 -> "renew"
               [] code = 200 /\ data # None -> "document"
               [] OTHER -> "retry"
    /\ token_retry_count' = IF code = 403 THEN 0 ELSE token_retry_count
    /\ UNCHANGED <<retry_count, rv, token, answer, set, version, env, past>>

(* Mutant: the count is one less when the last turn is over.               *)
HandleErrorLate ==
    /\ pc = "retry"
    /\ IF retry_count > MaxRetry
       THEN \E sent \in BOOLEAN : addWebConfigNotifyMsg(code, None, version, sent)
       ELSE UNCHANGED reports
    /\ Return("ERR")
    /\ UNCHANGED <<token, answer, set, version, env, applied, failed, dropped, lost>>

(* The last turn reports the error.                                        *)
HandleError ==
    /\ pc = "retry"
    /\ IF retry_count >= MaxRetry
       THEN \E sent \in BOOLEAN : addWebConfigNotifyMsg(code, None, version, sent)
       ELSE UNCHANGED reports
    /\ Return("ERR")
    /\ UNCHANGED <<token, answer, set, version, env, applied, failed, dropped, lost>>

-----------------------------------------------------------------------------
(* processJsonDocument.                                                    *)

(* The version validateConfigFormat gives: that of the document, if it is  *)
(* what the header said.                                                   *)
eTag == IF data.version # None /\ data.version = g_ETAG THEN data.version ELSE None

validateConfigFormat == eTag # None /\ data.plain

(* parse_set_request: each parameter replaces what it has a field for, so  *)
(* the last one is set, with the last value that is a string.              *)
parse_set_request ==
    FoldLeft(LAMBDA tr181data, p :
                 [name |-> IF p.name # None THEN p.name ELSE tr181data.name,
                  value |-> IF p.value # None THEN p.value ELSE tr181data.value],
             [name |-> None, value |-> None], data.parameters)

(* The version is stored, if the file can be opened, before anything is    *)
(* set.                                                                    *)
parseJsonData ==
    /\ pc = "document"
    /\ version' \in IF eTag = None THEN {version} ELSE {version, eTag}
    /\ set' = "ERR"
    /\ pc' = IF validateConfigFormat THEN "set" ELSE "tell"
    /\ UNCHANGED <<sync, token, answer, env, past>>

(* Mutant: what setRFCParameter returned is not looked at.                 *)
setRFCParameterIgnored ==
    /\ pc = "set"
    /\ set' = "SUCCESS"
    /\ \/ parse_set_request.name # None /\ applied' = applied \cup {eTag}
       \/ UNCHANGED applied
    /\ pc' = "tell"
    /\ UNCHANGED <<sync, token, answer, version, env, reports, failed, dropped, lost>>

(* setRFCParameter goes over HTTP to the process itself.  What it returns  *)
(* is then logged as if it were a string, which ends the process where the *)
(* log is on and it is no success: a Restart.                              *)
setRFCParameter ==
    /\ pc = "set"
    /\ \/ /\ parse_set_request.name # None
          /\ applied' = applied \cup {eTag}
          /\ set' = "SUCCESS"
       \/ UNCHANGED <<set, applied>>
    /\ pc' = "tell"
    /\ UNCHANGED <<sync, token, answer, version, env, reports, failed, dropped, lost>>

(* handleHttpResponse reports what became of the document.                 *)
HandleDocument ==
    /\ pc = "tell"
    /\ \E sent \in BOOLEAN :
          /\ addWebConfigNotifyMsg(200, IF set = "SUCCESS" THEN "success" ELSE "failed",
                                   eTag, sent)
          /\ failed' = IF set # "SUCCESS" /\ sent THEN failed \cup {eTag} ELSE failed
          /\ dropped' = IF set # "SUCCESS" /\ ~sent THEN dropped \cup {eTag} ELSE dropped
    /\ Return("SUCCESS")
    /\ UNCHANGED <<token, answer, set, version, env, applied, lost>>

-----------------------------------------------------------------------------
(* The cloud gets another document.                                        *)
Publish ==
    /\ cloud' \in Version \ {cloud}
    /\ UNCHANGED <<pc, sync, token, answer, set, version, starts, past>>

(* The process ends, at any point, and is started again.                   *)
Restart ==
    /\ starts < MaxStarts
    /\ starts' = starts + 1
    /\ pc' = "mac"
    /\ retry_count' = 0 /\ token_retry_count' = 0 /\ rv' = "SUCCESS"
    /\ token' = FALSE
    /\ g_ETAG' = None /\ code' = None /\ data' = None
    /\ set' = "ERR"
    /\ reports' = <<>>
    /\ lost' = IF pc \in {"set", "tell"} THEN lost \cup {eTag} ELSE lost
    /\ UNCHANGED <<version, cloud, applied, failed, dropped>>

Init ==
    /\ pc = "mac"
    /\ retry_count = 0 /\ token_retry_count = 0 /\ rv = "SUCCESS"
    /\ token = FALSE
    /\ g_ETAG = None /\ code = None /\ data = None
    /\ set = "ERR"
    /\ reports = <<>>
    /\ version = None
    /\ cloud \in Version
    /\ starts = 0
    /\ applied = {} /\ failed = {} /\ dropped = {} /\ lost = {}

initWebConfigTask ==
    \/ Turn \/ NoCurl \/ Backoff
    \/ getAuthToken \/ createNewAuthToken
    \/ requestWebConfigData
    \/ HandleFinal \/ HandleQuiet \/ HandleOther \/ HandleError
    \/ parseJsonData \/ setRFCParameter \/ HandleDocument

Next == initWebConfigTask \/ Publish \/ Restart

Spec == Init /\ [][Next]_vars

(* The thread goes on: every call it makes comes back, for curl has a time *)
(* limit.                                                                  *)
LiveSpec == Spec /\ WF_vars(initWebConfigTask)

-----------------------------------------------------------------------------
(* Properties.                                                             *)

(* The types of the state; the counters keep to their limits.              *)
TypeOK ==
    /\ pc \in Labels
    /\ retry_count \in 0..(MaxRetry + 1)
    /\ token_retry_count \in 0..(MaxToken + 1)
    /\ rv \in {"SUCCESS", "ERR"} /\ set \in {"SUCCESS", "ERR"}
    /\ token \in BOOLEAN
    /\ g_ETAG \in Version \cup {None} /\ version \in Version \cup {None}
    /\ code \in Code \cup {None}
    /\ data \in {Doc[v] : v \in Version} \cup {Empty, None}
    /\ cloud \in Version /\ starts \in 0..MaxStarts
    /\ applied \subseteq Version /\ lost \subseteq Version \cup {None}
    /\ failed \subseteq Version \cup {None} /\ dropped \subseteq Version \cup {None}

(* A sync raises one report at most, so that the cloud never hears of it   *)
(* twice; and one that ends has raised one, but where its last turn got no *)
(* answer at all, or a 404 or 429: whichever answers came before, and also *)
(* when the retries are used up.  Whether the report goes out is not said. *)
ToldOnce ==
    /\ Len(reports) <= 1
    /\ pc = "ended" /\ reports = <<>> => code \in {None, 404, 429}

(* What becomes of a document whose version is stored, so that the cloud   *)
(* will not send it again: its parameter was set, or the cloud was told    *)
(* that it was not, unless sendNotification dropped that report or the     *)
(* process died in between.  Those two are the only ways to lose it in     *)
(* silence.  And what is reported as a success was set.                    *)
LossTold ==
    /\ version # None /\ pc \notin {"set", "tell"} =>
           version \in applied \cup failed \cup dropped \cup lost
    /\ \A i \in DOMAIN reports :
           reports[i].status = "success" => reports[i].version \in applied

(* Every sync ends, though the certificate never comes, the address is     *)
(* never known and the cloud refuses everything.                           *)
SyncEnds == []<>(pc = "ended")
=============================================================================
