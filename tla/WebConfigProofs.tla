--------------------------- MODULE WebConfigProofs ----------------------------
(***************************************************************************)
(* The web configuration client for any documents and any limits: its      *)
(* types, the reports of a sync, and that no version is stored in silence. *)
(***************************************************************************)
EXTENDS WebConfig, TLAPS

-----------------------------------------------------------------------------
(* The invariant.                                                          *)

(* Where the counter of a sync has reached its limit, or the sync its end: *)
(* nothing is going to be reported any more.                               *)
Over ==
    \/ pc = "ended"
    \/ pc = "sleep" /\ retry_count >= MaxRetry
    \/ pc = "mac" /\ retry_count > MaxRetry

Working == {"document", "set", "tell"}

Types ==
    /\ TypeOK
    /\ pc # "mac" => retry_count <= MaxRetry
    /\ pc \in Working => data # None
    /\ pc = "set" => eTag # None

(* What was raised of the sync, and why nothing was.                       *)
Heard ==
    /\ \/ reports = <<>>
       \/ Over /\ Len(reports) = 1
    /\ reports = <<>> /\ Over => code \in {None, 404, 429}
    /\ pc = "auth" => code = None

(* What has become of the version that is stored, and of the one in hand.  *)
Stored ==
    /\ \/ version \in {None} \cup applied \cup failed \cup dropped \cup lost
       \/ pc \in {"set", "tell"} /\ version = eTag
    /\ pc = "set" => set = "ERR"
    /\ pc = "tell" /\ set = "SUCCESS" => eTag \in applied

Sincere ==
    \A i \in DOMAIN reports :
        reports[i].status = "success" => reports[i].version \in applied

IInv == Types /\ Heard /\ Stored /\ Sincere

-----------------------------------------------------------------------------
(* The parts of a step.                                                    *)

LEMMA Limits ==
    /\ MaxRetry \in Nat /\ MaxToken \in Nat /\ MaxStarts \in Nat
    /\ None \notin Version /\ None # "success"
BY DocAssumption

LEMMA ETagTyped ==
    ASSUME Types, data # None
    PROVE  eTag \in Version \cup {None}
<1>1. data \in {Doc[v] : v \in Version} \cup {Empty}
    BY DEF Types, TypeOK
<1>2. CASE data \in {Doc[v] : v \in Version}
    <2>1. PICK v \in Version : data = Doc[v]
        BY <1>2
    <2> QED BY <2>1, DocAssumption DEF eTag
<1>3. CASE data = Empty
    BY <1>3 DEF eTag, Empty
<1> QED BY <1>1, <1>2, <1>3

(* A report while nothing is over is the first of the sync.                *)
LEMMA FirstReport ==
    ASSUME Heard, ~Over, NEW c, NEW status, NEW v, NEW sent,
           addWebConfigNotifyMsg(c, status, v, sent),
           applied' = applied,
           c = 200 /\ status = "success" => v \in applied
    PROVE  /\ Len(reports') = 1 /\ reports' # <<>>
           /\ Sincere'
<1> DEFINE r == [code |-> c, version |-> v, sent |-> sent,
                 status |-> IF c = 200 THEN status ELSE None]
<1>1. reports = <<>>
    BY DEF Heard
<1>2. reports' = <<r>>
    BY <1>1 DEF addWebConfigNotifyMsg
<1>3. r.status = "success" => r.version \in applied
    BY Limits
<1> HIDE DEF r
<1> QED BY <1>2, <1>3 DEF Sincere

(* Steps that leave what is known of the documents.                        *)
LEMMA StoredKept ==
    ASSUME Stored, Sincere,
           UNCHANGED <<past, version, set, g_ETAG, data>>,
           pc \notin {"set", "tell"} /\ pc' \notin {"set", "tell"}
    PROVE  Stored' /\ Sincere'
BY DEF Stored, Sincere, past

-----------------------------------------------------------------------------
(* The steps.                                                              *)

LEMMA InitIInv ==
    ASSUME Init
    PROVE  IInv
<1>1. Types
    <2>1. token \in BOOLEAN
        BY DEF Init
    <2> QED BY <2>1, Limits DEF Init, Types, TypeOK, Working, Labels
<1>2. Heard
    BY Limits DEF Init, Heard, Over
<1>3. Stored /\ Sincere
    BY DEF Init, Stored, Sincere
<1> QED BY <1>1, <1>2, <1>3 DEF IInv

LEMMA TurnIInv ==
    ASSUME IInv, Turn
    PROVE  IInv'
<1>1. /\ pc = "mac"
      /\ UNCHANGED <<token_retry_count, rv, token, g_ETAG, data, set, version,
                     env, past>>
      /\ \/ retry_count > MaxRetry /\ pc' = "ended" /\ retry_count' = 0
            /\ code' = code
         \/ ~(retry_count > MaxRetry) /\ pc' \in {"auth", "sleep"}
            /\ code' = None /\ retry_count' = retry_count
    BY DEF Turn
<1>2. Types'
    BY <1>1, Limits DEF IInv, Types, TypeOK, Working, Labels, env, past
<1>3. Heard'
    BY <1>1, Limits DEF IInv, Types, TypeOK, Heard, Over, past
<1>4. Stored' /\ Sincere'
    BY <1>1, StoredKept DEF IInv, past
<1> QED BY <1>2, <1>3, <1>4 DEF IInv

LEMMA NoCurlIInv ==
    ASSUME IInv, NoCurl
    PROVE  IInv'
<1>1. /\ pc = "auth" /\ pc' \in {"ended", "sleep"} /\ rv' = rv
      /\ UNCHANGED <<retry_count, token_retry_count, token, answer, set, version,
                     env, past>>
    BY DEF NoCurl, Return
<1>2. Types'
    BY <1>1 DEF IInv, Types, TypeOK, Working, Labels, env, past, answer
<1>3. Heard'
    BY <1>1 DEF IInv, Heard, Over, past, answer
<1>4. Stored' /\ Sincere'
    BY <1>1, StoredKept DEF IInv, past, answer
<1> QED BY <1>2, <1>3, <1>4 DEF IInv

LEMMA BackoffIInv ==
    ASSUME IInv, Backoff
    PROVE  IInv'
<1>1. /\ pc = "sleep" /\ pc' = "mac" /\ retry_count' = retry_count + 1
      /\ UNCHANGED <<token_retry_count, rv, token, answer, set, version, env, past>>
    BY DEF Backoff
<1>2. Types'
    BY <1>1, Limits DEF IInv, Types, TypeOK, Working, Labels, env, past, answer
<1>3. Heard'
    BY <1>1, Limits DEF IInv, Types, TypeOK, Heard, Over, past, answer
<1>4. Stored' /\ Sincere'
    BY <1>1, StoredKept DEF IInv, past, answer
<1> QED BY <1>2, <1>3, <1>4 DEF IInv

LEMMA TokenIInv ==
    ASSUME IInv, getAuthToken \/ createNewAuthToken
    PROVE  IInv'
<1>1. /\ pc \in {"auth", "newToken", "renew"}
      /\ pc' \in {"request", "newToken", "retry", "renew"}
      /\ UNCHANGED <<retry_count, rv, answer, set, version, env, past>>
    BY DEF getAuthToken, createNewAuthToken
<1>2. token \in BOOLEAN /\ token_retry_count \in 0..(MaxToken + 1)
    BY DEF IInv, Types, TypeOK
<1>3. token' \in BOOLEAN
    BY <1>2, Zenon DEF getAuthToken, createNewAuthToken
<1>4. \/ token_retry_count' \in {0, token_retry_count}
      \/ token_retry_count <= MaxToken /\ token_retry_count' = token_retry_count + 1
    BY DEF getAuthToken, createNewAuthToken
<1>5. token_retry_count' \in 0..(MaxToken + 1)
    BY <1>2, <1>4, Limits
<1>6. Types'
    BY <1>1, <1>3, <1>5 DEF IInv, Types, TypeOK, Working, Labels, env, past, answer
<1>7. Heard'
    BY <1>1 DEF IInv, Heard, Over, past, answer
<1>8. Stored' /\ Sincere'
    BY <1>1, StoredKept DEF IInv, past, answer
<1> QED BY <1>6, <1>7, <1>8 DEF IInv

LEMMA RequestIInv ==
    ASSUME IInv, requestWebConfigData
    PROVE  IInv'
<1>1. /\ pc = "request" /\ pc' = "answer"
      /\ UNCHANGED <<sync, token, set, version, env, past>>
    BY DEF requestWebConfigData
<1>2. /\ code' \in Code
      /\ g_ETAG' \in Version \cup {None}
      /\ data' \in {Doc[v] : v \in Version} \cup {Empty, None}
    BY DEF requestWebConfigData, createCurlheader, header_callback,
           write_callback_fn, IInv, Types, TypeOK
<1>3. Types'
    BY <1>1, <1>2 DEF IInv, Types, TypeOK, Working, Labels, env, past, sync
<1>4. Heard'
    BY <1>1 DEF IInv, Heard, Over, past
<1>5. Stored' /\ Sincere'
    BY <1>1 DEF IInv, Stored, Sincere, past
<1> QED BY <1>3, <1>4, <1>5 DEF IInv

LEMMA HandleFinalIInv ==
    ASSUME IInv, HandleFinal
    PROVE  IInv'
<1>1. /\ pc = "answer" /\ pc' = "ended" /\ rv' = "SUCCESS"
      /\ UNCHANGED <<retry_count, token_retry_count, token, answer, set, version,
                     env, applied, failed, dropped, lost>>
    BY DEF HandleFinal, Return
<1>2. PICK sent \in BOOLEAN : addWebConfigNotifyMsg(code, None, version, sent)
    BY DEF HandleFinal
<1>3. Types'
    BY <1>1 DEF IInv, Types, TypeOK, Working, Labels, env, answer
<1>4. Len(reports') = 1 /\ reports' # <<>> /\ Sincere'
    BY <1>1, <1>2, Limits, FirstReport DEF IInv, Over
<1>5. Heard'
    BY <1>1, <1>4 DEF Heard, Over
<1>6. Stored'
    BY <1>1 DEF IInv, Stored, answer
<1> QED BY <1>3, <1>4, <1>5, <1>6 DEF IInv

LEMMA HandleQuietIInv ==
    ASSUME IInv, HandleQuiet
    PROVE  IInv'
<1>1. /\ pc = "answer" /\ code \in {429, 404} /\ pc' \in {"ended", "sleep"}
      /\ rv' \in {"SUCCESS", "ERR"}
      /\ UNCHANGED <<retry_count, token_retry_count, token, answer, set, version,
                     env, past>>
    BY DEF HandleQuiet, Return, Quiet
<1>2. Types'
    BY <1>1 DEF IInv, Types, TypeOK, Working, Labels, env, past, answer
<1>3. Heard'
    BY <1>1 DEF IInv, Heard, Over, past, answer
<1>4. Stored' /\ Sincere'
    BY <1>1, StoredKept DEF IInv, past, answer
<1> QED BY <1>2, <1>3, <1>4 DEF IInv

LEMMA HandleOtherIInv ==
    ASSUME IInv, HandleOther
    PROVE  IInv'
<1>1. /\ pc = "answer"
      /\ \/ pc' \in {"renew", "retry"}
         \/ pc' = "document" /\ data # None
      /\ token_retry_count' \in {0, token_retry_count}
      /\ UNCHANGED <<retry_count, rv, token, answer, set, version, env, past>>
    <2> DEFINE next == CASE code = 403 -> "renew"
                         [] code = 200 /\ data # None -> "document"
                         [] OTHER -> "retry"
    <2>1. \/ next \in {"renew", "retry"}
          \/ next = "document" /\ data # None
        <3>1. ASSUME code = 403
              PROVE  next = "renew"
            BY <3>1
        <3>2. ASSUME code = 200, data # None
              PROVE  next = "document"
            BY <3>2
        <3>3. ASSUME code # 403, ~(code = 200 /\ data # None)
              PROVE  next = "retry"
            BY <3>3
        <3> HIDE DEF next
        <3> QED BY <3>1, <3>2, <3>3
    <2>2. pc' = next
        BY DEF HandleOther
    <2> HIDE DEF next
    <2> QED BY <2>1, <2>2 DEF HandleOther
<1>2. Types'
    BY <1>1, Limits DEF IInv, Types, TypeOK, Working, Labels, env, past, answer
<1>3. Heard'
    BY <1>1 DEF IInv, Heard, Over, past, answer
<1>4. Stored' /\ Sincere'
    BY <1>1, StoredKept DEF IInv, past, answer
<1> QED BY <1>2, <1>3, <1>4 DEF IInv

LEMMA HandleErrorIInv ==
    ASSUME IInv, HandleError
    PROVE  IInv'
<1>1. /\ pc = "retry" /\ pc' = "sleep" /\ rv' = "ERR"
      /\ UNCHANGED <<retry_count, token_retry_count, token, answer, set, version,
                     env, applied, failed, dropped, lost>>
    BY DEF HandleError, Return
<1>2. Types'
    BY <1>1 DEF IInv, Types, TypeOK, Working, Labels, env, answer
<1>3. Stored'
    BY <1>1 DEF IInv, Stored, answer
<1>4. CASE retry_count >= MaxRetry
    <2>1. PICK sent \in BOOLEAN : addWebConfigNotifyMsg(code, None, version, sent)
        BY <1>4 DEF HandleError
    <2>2. Len(reports') = 1 /\ reports' # <<>> /\ Sincere'
        BY <1>1, <2>1, Limits, FirstReport DEF IInv, Over
    <2>3. Heard'
        BY <1>1, <1>4, <2>2 DEF Heard, Over
    <2> QED BY <1>2, <1>3, <2>2, <2>3 DEF IInv
<1>5. CASE ~(retry_count >= MaxRetry)
    <2>1. reports' = reports
        BY <1>5 DEF HandleError
    <2>2. Heard'
        BY <1>1, <1>5, <2>1 DEF IInv, Heard, Over
    <2>3. Sincere'
        BY <1>1, <2>1 DEF IInv, Sincere
    <2> QED BY <1>2, <1>3, <2>2, <2>3 DEF IInv
<1> QED BY <1>4, <1>5

(* The version is stored before the parameter is set: until the document   *)
(* is told of it is the one in hand.                                       *)
LEMMA ParseIInv ==
    ASSUME IInv, parseJsonData
    PROVE  IInv'
<1>1. /\ pc = "document" /\ pc' \in {"set", "tell"} /\ set' = "ERR"
      /\ version' = version \/ (version' = eTag /\ eTag # None)
      /\ pc' = "set" => eTag # None
      /\ UNCHANGED <<sync, token, answer, env, past>>
    BY DEF parseJsonData, validateConfigFormat
<1>2. data # None
    BY <1>1 DEF IInv, Types, Working
<1>3. eTag \in Version \cup {None} /\ eTag' = eTag
    BY <1>1, <1>2, ETagTyped DEF IInv, eTag, answer
<1>4. Types'
    BY <1>1, <1>2, <1>3 DEF IInv, Types, TypeOK, Working, Labels, env, past, answer,
                            sync
<1>5. Heard'
    BY <1>1 DEF IInv, Heard, Over, past
<1>6. Stored'
    BY <1>1, <1>3 DEF IInv, Stored, past
<1>7. Sincere'
    BY <1>1 DEF IInv, Sincere, past
<1> QED BY <1>4, <1>5, <1>6, <1>7 DEF IInv

LEMMA SetIInv ==
    ASSUME IInv, setRFCParameter
    PROVE  IInv'
<1>1. /\ pc = "set" /\ pc' = "tell"
      /\ \/ applied' = applied \cup {eTag} /\ set' = "SUCCESS"
         \/ applied' = applied /\ set' = set
      /\ UNCHANGED <<sync, token, answer, version, env, reports, failed, dropped, lost>>
    BY DEF setRFCParameter
<1>2. data # None /\ eTag # None /\ set = "ERR"
    BY <1>1 DEF IInv, Types, Working, Stored
<1>3. eTag \in Version /\ eTag' = eTag
    BY <1>1, <1>2, ETagTyped DEF IInv, eTag, answer
<1>4. Types'
    BY <1>1, <1>2, <1>3 DEF IInv, Types, TypeOK, Working, Labels, env, answer, sync
<1>5. Heard'
    BY <1>1 DEF IInv, Heard, Over
<1>6. Stored'
    BY <1>1, <1>2, <1>3 DEF IInv, Stored
<1>7. Sincere'
    BY <1>1 DEF IInv, Sincere
<1> QED BY <1>4, <1>5, <1>6, <1>7 DEF IInv

LEMMA HandleDocumentIInv ==
    ASSUME IInv, HandleDocument
    PROVE  IInv'
<1>1. /\ pc = "tell" /\ pc' = "ended" /\ rv' = "SUCCESS"
      /\ UNCHANGED <<retry_count, token_retry_count, token, answer, set, version,
                     env, applied, lost>>
    BY DEF HandleDocument, Return
<1>2. PICK sent \in BOOLEAN :
          /\ addWebConfigNotifyMsg(200, IF set = "SUCCESS" THEN "success" ELSE "failed",
                                   eTag, sent)
          /\ failed' = IF set # "SUCCESS" /\ sent THEN failed \cup {eTag} ELSE failed
          /\ dropped' = IF set # "SUCCESS" /\ ~sent THEN dropped \cup {eTag} ELSE dropped
    BY DEF HandleDocument
<1>3. eTag \in Version \cup {None}
    BY <1>1, ETagTyped DEF IInv, Types, Working
<1>4. set = "SUCCESS" => eTag \in applied
    BY <1>1 DEF IInv, Stored
<1>5. Types'
    BY <1>1, <1>2, <1>3 DEF IInv, Types, TypeOK, Working, Labels, env, answer
<1>6. Len(reports') = 1 /\ reports' # <<>> /\ Sincere'
    <2> DEFINE status == IF set = "SUCCESS" THEN "success" ELSE "failed"
    <2>1. status = "success" => eTag \in applied
        BY <1>4
    <2>2. Heard /\ ~Over /\ applied' = applied
        BY <1>1 DEF IInv, Over
    <2>3. addWebConfigNotifyMsg(200, status, eTag, sent)
        BY <1>2
    <2> HIDE DEF status
    <2> QED BY <2>1, <2>2, <2>3, FirstReport
<1>7. Heard'
    BY <1>1, <1>6 DEF Heard, Over
<1>8. Stored'
    BY <1>1, <1>2, <1>4 DEF IInv, Stored
<1> QED BY <1>5, <1>6, <1>7, <1>8 DEF IInv

LEMMA RestartIInv ==
    ASSUME IInv, Restart
    PROVE  IInv'
<1>1. /\ pc' = "mac" /\ retry_count' = 0 /\ token_retry_count' = 0
      /\ rv' = "SUCCESS" /\ token' = FALSE /\ set' = "ERR"
      /\ g_ETAG' = None /\ code' = None /\ data' = None /\ reports' = <<>>
      /\ starts < MaxStarts /\ starts' = starts + 1
      /\ lost' = IF pc \in {"set", "tell"} THEN lost \cup {eTag} ELSE lost
      /\ UNCHANGED <<version, cloud, applied, failed, dropped>>
    BY DEF Restart
<1>2. pc \in {"set", "tell"} => eTag \in Version \cup {None}
    BY ETagTyped DEF IInv, Types, Working
<1>3. lost' \subseteq Version \cup {None} /\ starts' \in 0..MaxStarts
    BY <1>1, <1>2, Limits DEF IInv, Types, TypeOK
<1>4. Types'
    <2>1. token' \in BOOLEAN
        BY <1>1
    <2> QED BY <1>1, <1>3, <2>1, Limits DEF IInv, Types, TypeOK, Working, Labels
<1>5. Heard'
    BY <1>1, Limits DEF Heard, Over
<1>6. Stored' /\ Sincere'
    BY <1>1 DEF IInv, Stored, Sincere
<1> QED BY <1>4, <1>5, <1>6 DEF IInv

LEMMA PublishIInv ==
    ASSUME IInv, Publish
    PROVE  IInv'
BY DEF IInv, Publish, Types, TypeOK, Heard, Stored, Sincere, Over, eTag,
       sync, answer, past

LEMMA StutterIInv ==
    ASSUME IInv, UNCHANGED vars
    PROVE  IInv'
BY DEF IInv, vars, Types, TypeOK, Heard, Stored, Sincere, Over, eTag,
       sync, answer, past, env

(* What a synchronisation has heard, stored and said belongs together.     *)
THEOREM Inductive == Spec => []IInv
<1>1. Init => IInv
    BY InitIInv
<1>2. IInv /\ [Next]_vars => IInv'
    BY TurnIInv, NoCurlIInv, BackoffIInv, TokenIInv, RequestIInv, HandleFinalIInv,
       HandleQuietIInv, HandleOtherIInv, HandleErrorIInv, ParseIInv, SetIInv,
       HandleDocumentIInv, RestartIInv, PublishIInv, StutterIInv
       DEF Next, initWebConfigTask
<1> QED BY <1>1, <1>2, PTL DEF Spec

(* The state keeps its types, and the counters of retries their limits.    *)
THEOREM TypeCorrect == Spec => []TypeOK
<1>1. IInv => TypeOK
    BY DEF IInv, Types
<1> QED BY <1>1, Inductive, PTL

(* A sync raises one report at most; and one that ends has raised one, but *)
(* where its last turn got no answer, or a 404 or 429.                     *)
THEOREM AlwaysToldOnce == Spec => []ToldOnce
<1>1. IInv => ToldOnce
    <2> SUFFICES ASSUME Heard
                 PROVE  ToldOnce
        BY DEF IInv
    <2>1. Len(reports) <= 1
        <3>1. Len(<<>>) = 0
            OBVIOUS
        <3>2. Len(reports) = 0 \/ Len(reports) = 1
            BY <3>1 DEF Heard
        <3> QED BY <3>2
    <2>2. pc = "ended" /\ reports = <<>> => code \in {None, 404, 429}
        BY DEF Heard, Over
    <2> QED BY <2>1, <2>2 DEF ToldOnce
<1> QED BY <1>1, Inductive, PTL

(* A stored version was set or the cloud was told of its failure, unless   *)
(* that report was dropped or the process died; and what is reported as a  *)
(* success was set.                                                        *)
THEOREM AlwaysLossTold == Spec => []LossTold
<1>1. IInv => LossTold
    BY DEF IInv, Stored, Sincere, LossTold
<1> QED BY <1>1, Inductive, PTL

=============================================================================
