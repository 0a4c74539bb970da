------------------------- MODULE ProfileValuesProofs -------------------------
(***************************************************************************)
(* For every pair of parameters, whatever their getters share and however  *)
(* their queries fail: that a visit finds a change only of a value not     *)
(* given before, and misses one only where a client got it.                *)
(***************************************************************************)
EXTENDS ProfileValues, TLAPS

-----------------------------------------------------------------------------
(* What the parts of a getter return.                                      *)

Way == {"works", "refuses", "blank", "keeps"}

LEMMA AtRow ==
    ASSUME NEW r \in Row, NEW what \in Place
    PROVE  /\ At(what, r) \in Row
           /\ what \notin class.joint => At(what, r) = r
BY DEF At, Row

LEMMA GetKind ==
    ASSUME NEW r \in Row, TypeOK
    PROVE  Get(r) \in Kind
<1>1. class \in [get : [Row -> Kind], joint : SUBSET Place, reads : BOOLEAN,
                 visited : [Row -> {"kept", "freed", "never"}]]
    BY ClassAssumption DEF TypeOK
<1> QED BY <1>1 DEF Get

LEMMA WaysWay ==
    ASSUME NEW r \in Row, TypeOK
    PROVE  Ways(r) \subseteq Way
<1>1. Get(r).fails \subseteq Way
    BY GetKind DEF Kind, Way
<1> QED BY <1>1 DEF Ways, Way

LEMMA AnswerGiven ==
    ASSUME NEW r \in Row, NEW way, TypeOK
    PROVE  Answer(r, way) \in Given
<1>1. At("field", r) \in Row
    BY AtRow DEF Place
<1> QED BY <1>1 DEF Answer, TypeOK, Given

LEMMA FilledTyped ==
    ASSUME NEW r \in Row, NEW way, TypeOK
    PROVE  Filled(r, way) \in [Row -> Given]
BY DEF Filled, TypeOK, Given

LEMMA KeptTyped ==
    ASSUME NEW r \in Row, NEW value \in Given, NEW old \in [Row -> Given]
    PROVE  Kept(r, value, old) \in [Row -> Given]
BY DEF Kept

LEMMA FlaggedTyped ==
    ASSUME NEW r \in Row, NEW old \in [Row -> BOOLEAN]
    PROVE  Flagged(r, old) \in [Row -> BOOLEAN]
BY DEF Flagged

LEMMA ShownGiven ==
    ASSUME NEW r \in Row, NEW value \in Given, TypeOK
    PROVE  Shown(r, value) \in Given
<1>1. At("backup", r) \in Row
    BY AtRow DEF Place
<1> QED BY <1>1 DEF Shown, TypeOK

LEMMA RememberTyped ==
    ASSUME NEW r \in Row, NEW value \in Given, TypeOK, Remember(r, value)
    PROVE  backup' \in [Row -> Given] /\ called' \in [Row -> BOOLEAN]
<1>0. backup \in [Row -> Given] /\ called \in [Row -> BOOLEAN] /\ "one" \in Row
    BY DEF TypeOK, Row
<1>1. CASE class.reads /\ r = "two"
    <2>1. PICK way \in Ways("one") \ {"refuses"} :
              /\ backup' = Kept(r, value,
                                Kept("one", Answer("one", way), backup))
              /\ called' = Flagged(r, Flagged("one", called))
        BY <1>1 DEF Remember
    <2>2. Answer("one", way) \in Given
        BY <1>0, AnswerGiven
    <2>3. Kept("one", Answer("one", way), backup) \in [Row -> Given]
        BY <1>0, <2>2, KeptTyped
    <2>4. Flagged("one", called) \in [Row -> BOOLEAN]
        BY <1>0, FlaggedTyped
    <2> QED BY <2>1, <2>3, <2>4, KeptTyped, FlaggedTyped
<1>2. CASE ~(class.reads /\ r = "two")
    <2>1. backup' = Kept(r, value, backup) /\ called' = Flagged(r, called)
        BY <1>2 DEF Remember
    <2> QED BY <1>0, <2>1, KeptTyped, FlaggedTyped
<1> QED BY <1>1, <1>2

-----------------------------------------------------------------------------
(* What a getter remembers of its parameter, and what it leaves of another *)
(* with memory of its own.                                                 *)

LEMMA RemembersOwn ==
    ASSUME NEW r \in Row, NEW value \in Given, TypeOK, OwnMemory(r),
           Remember(r, value)
    PROVE  IF Backups(r) THEN backup'[r] = value /\ called'[r]
           ELSE backup'[r] = backup[r] /\ called'[r] = called[r]
<1>0. /\ backup \in [Row -> Given] /\ called \in [Row -> BOOLEAN]
      /\ "one" \in Row /\ "two" \in Row
    BY DEF TypeOK, Row
<1>1. At("backup", r) = r /\ At("called", r) = r
    BY AtRow DEF OwnMemory, Place
<1>2. \A b \in [Row -> Given] :
          Kept(r, value, b)[r] = IF Backups(r) THEN value ELSE b[r]
    BY <1>1 DEF Kept
<1>3. \A c \in [Row -> BOOLEAN] :
          Flagged(r, c)[r] = IF Backups(r) THEN TRUE ELSE c[r]
    BY <1>1 DEF Flagged
<1>4. CASE class.reads /\ r = "two"
    <2>1. PICK way \in Ways("one") \ {"refuses"} :
              /\ backup' = Kept(r, value,
                                Kept("one", Answer("one", way), backup))
              /\ called' = Flagged(r, Flagged("one", called))
        BY <1>4 DEF Remember
    <2>2. Answer("one", way) \in Given
        BY <1>0, AnswerGiven
    <2>3. Kept("one", Answer("one", way), backup) \in [Row -> Given]
        BY <1>0, <2>2, KeptTyped
    <2>4. Flagged("one", called) \in [Row -> BOOLEAN]
        BY <1>0, FlaggedTyped
    <2>5. At("backup", "one") = "one" /\ At("called", "one") = "one"
        BY DEF At
    <2>6. /\ Kept("one", Answer("one", way), backup)[r] = backup[r]
          /\ Flagged("one", called)[r] = called[r]
        BY <1>0, <1>4, <2>5 DEF Kept, Flagged
    <2> QED BY <1>2, <1>3, <2>1, <2>3, <2>4, <2>6
<1>5. CASE ~(class.reads /\ r = "two")
    <2>1. backup' = Kept(r, value, backup) /\ called' = Flagged(r, called)
        BY <1>5 DEF Remember
    <2> QED BY <1>0, <1>2, <1>3, <2>1
<1> QED BY <1>4, <1>5

LEMMA LeavesOther ==
    ASSUME NEW r \in Row, NEW q \in Row, q # r, NEW value \in Given, TypeOK,
           OwnMemory(q), Remember(r, value)
    PROVE  backup'[q] = backup[q] /\ called'[q] = called[q]
<1>0. backup \in [Row -> Given] /\ called \in [Row -> BOOLEAN]
    BY DEF TypeOK
<1>1. "backup" \notin class.joint /\ "called" \notin class.joint
    BY DEF OwnMemory
<1>2. At("backup", r) = r /\ At("called", r) = r
    BY <1>1, AtRow DEF Place
<1>3. ~(class.reads /\ r = "two")
    BY DEF OwnMemory, Row
<1>4. backup' = Kept(r, value, backup) /\ called' = Flagged(r, called)
    BY <1>3 DEF Remember
<1> QED BY <1>0, <1>2, <1>4 DEF Kept, Flagged

-----------------------------------------------------------------------------
(* The steps.                                                              *)

LEMMA HandleStep ==
    ASSUME NEW r \in Row, TypeOK, Handle(r)
    PROVE  \E value \in Given :
               /\ Remember(r, value)
               /\ field' \in [Row -> Given]
               /\ told' = [told EXCEPT ![r] = value]
               /\ seen' = [seen EXCEPT ![r] = None]
               /\ report' = None
               /\ UNCHANGED <<class, real, watch>>
<1>1. PICK way \in Ways(r) \ {"refuses"} :
          /\ field' = Filled(r, way)
          /\ Remember(r, Answer(r, way))
          /\ told' = [told EXCEPT ![r] = Answer(r, way)]
          /\ seen' = [seen EXCEPT ![r] = None]
          /\ report' = None
          /\ UNCHANGED <<class, real, watch>>
    BY DEF Handle
<1>2. Answer(r, way) \in Given /\ Filled(r, way) \in [Row -> Given]
    BY AnswerGiven, FilledTyped
<1> QED BY <1>1, <1>2

(* A visit, with what it found.                                            *)
Visited(r, value) ==
    /\ Remember(r, value)
    /\ field' \in [Row -> Given]
    /\ told' = [told EXCEPT ![r] = value]
    /\ seen' = [seen EXCEPT ![r] = value]
    /\ report' = IF Changed(r, value) THEN r ELSE None
    /\ UNCHANGED <<class, real, watch>>

LEMMA VisitStep ==
    ASSUME NEW r \in Row, TypeOK, VisitKept(r) \/ VisitFreed(r)
    PROVE  \E value \in Given : Visited(r, value)
<1>1. PICK way \in Ways(r) : Visit(r, way)
    BY DEF VisitKept, VisitFreed
<1> DEFINE value == Shown(r, Answer(r, way))
<1>2. value \in Given /\ Filled(r, way) \in [Row -> Given]
    BY AnswerGiven, ShownGiven, FilledTyped
<1>3. Visited(r, value)
    BY <1>1, <1>2 DEF Visit, Visited
<1> QED BY <1>2, <1>3

LEMMA TypeStep ==
    ASSUME TypeOK, [Next]_vars
    PROVE  TypeOK'
<1>1. ASSUME NEW r \in Row, Change(r)
      PROVE  TypeOK'
    BY <1>1 DEF TypeOK, Change, memory
<1>2. ASSUME NEW r \in Row, handleSetAttributesMsg(r)
      PROVE  TypeOK'
    BY <1>2 DEF TypeOK, handleSetAttributesMsg, memory
<1>3. ASSUME NEW r \in Row, Handle(r)
      PROVE  TypeOK'
    <2>1. PICK value \in Given :
              /\ Remember(r, value)
              /\ field' \in [Row -> Given]
              /\ told' = [told EXCEPT ![r] = value]
              /\ seen' = [seen EXCEPT ![r] = None]
              /\ report' = None
              /\ UNCHANGED <<class, real, watch>>
        BY <1>3, HandleStep
    <2>2. backup' \in [Row -> Given] /\ called' \in [Row -> BOOLEAN]
        BY <2>1, RememberTyped
    <2> QED BY <2>1, <2>2 DEF TypeOK
<1>4. ASSUME NEW r \in Row, VisitKept(r) \/ VisitFreed(r)
      PROVE  TypeOK'
    <2>1. PICK value \in Given : Visited(r, value)
        BY <1>4, VisitStep
    <2>2. backup' \in [Row -> Given] /\ called' \in [Row -> BOOLEAN]
        BY <2>1, RememberTyped DEF Visited
    <2> QED BY <2>1, <2>2 DEF Visited, TypeOK
<1>5. CASE UNCHANGED vars
    BY <1>5 DEF TypeOK, vars
<1> QED BY <1>1, <1>2, <1>3, <1>4, <1>5 DEF Next

-----------------------------------------------------------------------------
(* The backup of a parameter with memory of its own is what was given      *)
(* last, and what the last visit found if no client got it since.          *)

Follows ==
    \A r \in Row :
        OwnMemory(r) /\ Backups(r) =>
            /\ called[r] => backup[r] = told[r]
            /\ seen[r] # None => called[r] /\ seen[r] = told[r]

LEMMA FollowsStep ==
    ASSUME TypeOK, Follows, [Next]_vars
    PROVE  Follows'
<1> SUFFICES ASSUME NEW q \in Row, OwnMemory(q)', Backups(q)'
             PROVE  /\ called'[q] => backup'[q] = told'[q]
                    /\ seen'[q] # None => called'[q] /\ seen'[q] = told'[q]
    BY DEF Follows
<1> DEFINE After == /\ called'[q] => backup'[q] = told'[q]
                    /\ seen'[q] # None => called'[q] /\ seen'[q] = told'[q]
<1>0. /\ told \in [Row -> Given \cup {None}]
      /\ seen \in [Row -> Given \cup {None}]
    BY DEF TypeOK
<1>1. class' = class => OwnMemory(q) /\ Backups(q)
    BY DEF OwnMemory, Backups, Get
<1>2. CASE UNCHANGED vars \/ \E r \in Row :
               Change(r) \/ handleSetAttributesMsg(r)
    BY <1>1, <1>2 DEF Change, handleSetAttributesMsg, memory, vars, Follows
<1>3. ASSUME NEW r \in Row, NEW value \in Given, Remember(r, value),
             class' = class, told' = [told EXCEPT ![r] = value],
             NEW found \in {value, None}, seen' = [seen EXCEPT ![r] = found]
      PROVE  After
    <2>1. CASE q = r
        <3>1. backup'[q] = value /\ called'[q]
            BY <1>1, <1>3, <2>1, RemembersOwn
        <3> QED BY <1>0, <1>3, <2>1, <3>1
    <2>2. CASE q # r
        <3>1. backup'[q] = backup[q] /\ called'[q] = called[q]
            BY <1>1, <1>3, <2>2, LeavesOther
        <3>2. told'[q] = told[q] /\ seen'[q] = seen[q]
            BY <1>0, <1>3, <2>2
        <3> QED BY <1>1, <1>3, <3>1, <3>2 DEF Follows
    <2> QED BY <2>1, <2>2
<1>4. ASSUME NEW r \in Row, Handle(r)
      PROVE  After
    BY <1>3, <1>4, HandleStep
<1>5. ASSUME NEW r \in Row, VisitKept(r) \/ VisitFreed(r)
      PROVE  After
    BY <1>3, <1>5, VisitStep DEF Visited
<1> QED BY <1>2, <1>4, <1>5 DEF Next

(* Only a visit sets seen or report.                                       *)
LEMMA VisitOnly ==
    ASSUME TypeOK, Next, NEW q \in Row,
           report' = q \/ seen'[q] \notin {None, seen[q]}
    PROVE  \E value \in Given : Visited(q, value)
<1>0. q # None /\ seen \in [Row -> Given \cup {None}]
    BY NoRow DEF TypeOK
<1>1. PICK r \in Row : VisitKept(r) \/ VisitFreed(r)
    BY <1>0 DEF Next, Change, Handle, handleSetAttributesMsg
<1>2. PICK value \in Given : Visited(r, value)
    BY <1>1, VisitStep
<1>3. r = q
    BY <1>0, <1>2 DEF Visited
<1> QED BY <1>2, <1>3

(* A visit that reports found a value that is not the backup.              *)
LEMMA ReportStep ==
    ASSUME TypeOK, Follows, Next, NEW q \in Row, report' = q,
           OwnMemory(q), Get(q).tells = "changes"
    PROVE  told'[q] # told[q]
<1>1. PICK value \in Given : Visited(q, value)
    BY VisitOnly
<1>2. Changed(q, value)
    BY <1>1, NoRow DEF Visited
<1>3. At("backup", q) = q /\ At("called", q) = q
    BY AtRow DEF OwnMemory, Place
<1>4. called[q] /\ value # backup[q]
    BY <1>2, <1>3 DEF Changed, Differs
<1>5. backup[q] = told[q]
    BY <1>4 DEF Follows, Backups
<1>6. told'[q] = value
    BY <1>1 DEF Visited, TypeOK
<1> QED BY <1>4, <1>5, <1>6

(* The backup is what the visit before found: another value differs.       *)
LEMMA UntoldStep ==
    ASSUME TypeOK, Follows, Next, NEW q \in Row,
           OwnMemory(q), Get(q).tells = "changes",
           seen[q] # None, seen'[q] \notin {None, seen[q]}
    PROVE  report' = q
<1>1. PICK value \in Given : Visited(q, value)
    BY VisitOnly
<1>2. At("backup", q) = q /\ At("called", q) = q
    BY AtRow DEF OwnMemory, Place
<1>3. called[q] /\ backup[q] = seen[q]
    BY DEF Follows, Backups
<1>4. seen'[q] = value
    BY <1>1 DEF Visited, TypeOK
<1>5. Changed(q, value)
    BY <1>2, <1>3, <1>4 DEF Changed, Differs
<1> QED BY <1>1, <1>5 DEF Visited

-----------------------------------------------------------------------------
(* The theorems.                                                           *)

LEMMA Starts ==
    ASSUME Init
    PROVE  TypeOK /\ Follows
BY DEF Init, TypeOK, Follows, Given

(* Every variable keeps its type.                                          *)
THEOREM Typed == Spec => []TypeOK
<1>1. Init => TypeOK
    BY Starts
<1>2. TypeOK /\ [Next]_vars => TypeOK'
    BY TypeStep
<1> QED BY <1>1, <1>2, PTL DEF Spec

(* The backup follows what is given, whatever the kind of the getter and   *)
(* whatever fails.                                                         *)
LEMMA Followed == Spec => []Follows
<1>1. Init => Follows
    BY Starts
<1>2. TypeOK /\ Follows /\ [Next]_vars => Follows'
    BY FollowsStep
<1> QED BY <1>1, <1>2, Typed, PTL DEF Spec

(* A visit finds a change only of a value that is not the one given last.  *)
THEOREM Reports == Spec => ReportsChange
<1> DEFINE Step ==
        \A r \in Row :
            (report' = r /\ OwnMemory(r) /\ Get(r).tells = "changes")
                => told'[r] # told[r]
<1>1. TypeOK /\ Follows /\ [Next]_vars => [Step]_vars
    BY ReportStep DEF vars
<1> QED BY <1>1, Typed, Followed, PTL DEF Spec, ReportsChange

(* Between two visits only a client's get keeps a change from being found. *)
THEOREM Untold == Spec => UntoldWasGot
<1> DEFINE Step ==
        \A r \in Row :
            (/\ OwnMemory(r) /\ Get(r).tells = "changes"
             /\ seen[r] # None /\ seen'[r] \notin {None, seen[r]})
                => report' = r
<1>1. TypeOK /\ Follows /\ [Next]_vars => [Step]_vars
    BY UntoldStep DEF vars
<1> QED BY <1>1, Typed, Followed, PTL DEF Spec, UntoldWasGot
=============================================================================
