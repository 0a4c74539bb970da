---------------------------- MODULE ProfileValues ----------------------------
(***************************************************************************)
(* The getters of the device profiles at work for two parameters: two      *)
(* instances of the same one, or one whose getter calls that of the other. *)
(* Each has a field for what it read and a backup with a flag, bCalled,    *)
(* that it was made; instances may share them.  A client gets a value; the *)
(* update handler visits the parameters of the notify table and calls the  *)
(* same getters with a pChanged, reports what they say has changed, and    *)
(* the getters make the backup anew at each of these calls.  So a client   *)
(* that gets a value is the only one to learn that it changed: the next    *)
(* visit compares with what the client was answered.                       *)
(***************************************************************************)
EXTENDS Naturals, FiniteSets

CONSTANTS
    Value,  \* values of the device
    Empty,  \* an empty string, zero, false
    None,
    Class   \* the pairs of parameters: what their getters are like, what
            \* they share, whether "two" reads "one", how each is visited

Row == {"one", "two"}
Place == {"field", "backup", "called"}

Kind ==
    [fails : SUBSET {"refuses", "blank", "keeps"},
     source : {"device", "once", "other"},
     tells : {"changes", "always", "the old", "cut", "nothing"},
     named : BOOLEAN]

ASSUME ClassAssumption ==
    Class \subseteq [get : [Row -> Kind], joint : SUBSET Place,
                     reads : BOOLEAN,
                     visited : [Row -> {"kept", "freed", "never"}]]

ASSUME NoValue == Empty \notin Value /\ None \notin Value \cup {Empty}

ASSUME NoRow == None \notin Row

Given == Value \cup {Empty}

VARIABLES
    class,    \* the pair
    real,     \* what the device would answer
    field,    \* the value read last
    backup,   \* the value compared with,
    called,   \* if there is one
    watch,    \* the parameters in the notify table
    told,     \* the value given last, to a client or to a visit
    seen,     \* what the last visit found, until a client gets the value
    report    \* the parameter the last step, a visit, found changed

vars == <<class, real, field, backup, called, watch, told, seen, report>>
memory == <<field, backup, called>>

At(what, r) == IF what \in class.joint THEN "one" ELSE r

Init ==
    /\ class \in Class
    /\ real \in [Row -> Value]
    /\ field = [r \in Row |-> Empty]
    /\ backup = [r \in Row |-> Empty]
    /\ called = [r \in Row |-> FALSE]
    /\ watch = {}
    /\ told = [r \in Row |-> None]
    /\ seen = [r \in Row |-> None]
    /\ report = None

-----------------------------------------------------------------------------
(* The getters.                                                            *)

Get(r) == class.get[r]

(* How a query may go.  What is read once is not asked for again, and a    *)
(* getter that answers from the field of another asks nothing.             *)
Ways(r) ==
    CASE Get(r).source = "other" -> {"keeps"}
      [] Get(r).source = "once" /\ field[At("field", r)] # Empty -> {"keeps"}
      [] OTHER -> {"works"} \cup Get(r).fails

Answer(r, way) ==
    CASE way = "works" -> real[r]
      [] way = "keeps" -> field[At("field", r)]
      [] OTHER -> Empty

(* Mutant: a copy where a comparison is meant, as in Architecture.         *)
DiffersCopied(r, value) == value \in Given

Differs(r, value) == value # backup[At("backup", r)]

(* pChanged is only set when there is a backup.                            *)
Changed(r, value) ==
    /\ called[At("called", r)]
    /\ CASE Get(r).tells = "changes" -> Differs(r, value)
         [] Get(r).tells = "cut" -> Differs(r, value) \/ value # Empty
         [] Get(r).tells = "nothing" -> FALSE
         [] OTHER -> TRUE

Filled(r, way) ==
    IF way = "works" THEN [field EXCEPT ![At("field", r)] = real[r]]
                     ELSE field

Backups(r) == Get(r).tells # "nothing"

(* Mutant: the backup is made at the first call only.                      *)
KeptOnce(r, value, old) ==
    IF Backups(r) /\ ~called[At("called", r)]
    THEN [old EXCEPT ![At("backup", r)] = value] ELSE old

Kept(r, value, old) ==
    IF Backups(r) THEN [old EXCEPT ![At("backup", r)] = value] ELSE old

Flagged(r, old) ==
    IF Backups(r) THEN [old EXCEPT ![At("called", r)] = TRUE] ELSE old

(* "two" calls the getter of "one" before it asks for its own value, and   *)
(* without a pChanged: the backup of "one" is made anew.                   *)
Remember(r, value) ==
    IF class.reads /\ r = "two"
    THEN \E way \in Ways("one") \ {"refuses"} :
             LET other == Answer("one", way)
             IN /\ backup' = Kept(r, value, Kept("one", other, backup))
                /\ called' = Flagged(r, Flagged("one", called))
    ELSE /\ backup' = Kept(r, value, backup)
         /\ called' = Flagged(r, called)

(* handleGetMsg of the profile: no pChanged, and nobody but the client is  *)
(* told.                                                                   *)
Handle(r) ==
    \E way \in Ways(r) \ {"refuses"} :
        LET value == Answer(r, way)
        IN /\ field' = Filled(r, way)
           /\ Remember(r, value)
           /\ told' = [told EXCEPT ![r] = value]
           /\ seen' = [seen EXCEPT ![r] = None]
           /\ report' = None
           /\ UNCHANGED <<class, real, watch>>

-----------------------------------------------------------------------------
(* A visit of checkForUpdates.                                             *)

(* Architecture answers a visit with its backup.                           *)
Shown(r, value) ==
    IF Get(r).tells = "the old" /\ called[At("called", r)]
    THEN backup[At("backup", r)] ELSE value

Visit(r, way) ==
    /\ way # "refuses" /\ ~Get(r).named
    /\ LET value == Shown(r, Answer(r, way))
       IN /\ field' = Filled(r, way)
          /\ Remember(r, value)
          /\ told' = [told EXCEPT ![r] = value]
          /\ seen' = [seen EXCEPT ![r] = value]
          /\ report' = IF Changed(r, value) THEN r ELSE None
          /\ UNCHANGED <<class, real, watch>>

(* With the table of MoCA.                                                 *)
VisitKept(r) ==
    /\ class.visited[r] = "kept" /\ r \in watch
    /\ \E way \in Ways(r) : Visit(r, way)

(* The tables of Ethernet, IP and Device hold freed memory for a name and  *)
(* for the word that notifications are on: any parameter may be visited in *)
(* place of the one set, and a change found need not be reported.          *)
VisitFreed(r) ==
    /\ class.visited[r] = "freed" /\ watch # {}
    /\ \E way \in Ways(r) : Visit(r, way)

(* Turning notifications off is no different: the word is set to 1.        *)
handleSetAttributesMsg(r) ==
    /\ class.visited[r] # "never"
    /\ watch' = watch \cup {r}
    /\ report' = None
    /\ UNCHANGED <<class, real, told, seen>> /\ UNCHANGED memory

Change(r) ==
    /\ \E value \in Value \ {real[r]} :
           real' = [real EXCEPT ![r] = value]
    /\ report' = None
    /\ UNCHANGED <<class, watch, told, seen>> /\ UNCHANGED memory

Next ==
    \E r \in Row :
        \/ Change(r) \/ Handle(r) \/ handleSetAttributesMsg(r)
        \/ VisitKept(r) \/ VisitFreed(r)

Spec == Init /\ [][Next]_vars

-----------------------------------------------------------------------------
(* Properties.                                                             *)

(* Every variable has a value of its type.                                 *)
TypeOK ==
    /\ class \in Class
    /\ real \in [Row -> Value]
    /\ field \in [Row -> Given] /\ backup \in [Row -> Given]
    /\ called \in [Row -> BOOLEAN]
    /\ watch \subseteq Row
    /\ told \in [Row -> Given \cup {None}]
    /\ seen \in [Row -> Given \cup {None}]
    /\ report \in Row \cup {None}

(* No other parameter writes the backup.                                   *)
OwnMemory(r) ==
    /\ class.joint \cap {"backup", "called"} = {}
    /\ ~(class.reads /\ r = "one")

(* A visit finds a change only of a value that is not the one given last,  *)
(* to a client or to a visit, whatever failed since.  What it finds is     *)
(* reported, or not, where freed memory says that notifications are off.   *)
(* Not so for Architecture, Command and State, which always say that they  *)
(* changed, nor for a value with a cut backup.                             *)
ReportsChange ==
    [][ \A r \in Row :
          (report' = r /\ OwnMemory(r) /\ Get(r).tells = "changes")
             => told'[r] # told[r] ]_vars

(* What a visit finds other than the visit before it is a change, unless a *)
(* client got the parameter in between.  That get, which made the backup   *)
(* anew and told its client only, loses the change to whoever has turned   *)
(* notifications on; nothing else does, no query that fails, no value      *)
(* another interface left in a shared field, no visit of another           *)
(* parameter.  (A parameter whose getter another one calls has more to     *)
(* fear: a statistic of an Ethernet interface swallows a change of its     *)
(* Name.)                                                                  *)
UntoldWasGot ==
    [][ \A r \in Row :
          (/\ OwnMemory(r) /\ Get(r).tells = "changes"
           /\ seen[r] # None /\ seen'[r] \notin {None, seen[r]})
             => report' = r ]_vars
=============================================================================
