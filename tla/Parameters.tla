----------------------------- MODULE Parameters -----------------------------
(***************************************************************************)
(* What the program promises the clients of its parameters, whichever way  *)
(* they come in.  A request is taken and its items are served one after    *)
(* another, each in one step; the answer goes out when all have an         *)
(* outcome.  A set that is not of the form WebPA asks for is refused as a  *)
(* whole.  A set changes the parameter it names or none, and the client is *)
(* told which; a get gives the value kept, to the readers that ask for it. *)
(* A bootstrap parameter belongs to who set it last, and RFC takes none    *)
(* from WebPA.  There is no manager here, no table of them, no mutex and   *)
(* no bus.                                                                 *)
(***************************************************************************)
EXTENDS Naturals, Sequences

CONSTANTS
    Thread,     \* who serves the requests, each one at a time
    Request,    \* the requests
    NoReq,      \* that of an idle thread
    Kept,       \* names whose values are kept
    Boot,       \* of them, the bootstrap parameters
    Unsure,     \* names whose set may answer other than what was done
    Value, None, Null

VARIABLES
    value,      \* of each name kept, what a get gives; None when it fails
    owner,      \* who set each bootstrap parameter
    req, res    \* the request of each thread, and the outcomes so far

vars == <<value, owner, req, res>>

Init ==
    /\ value \in [Kept -> Value \cup {None}]
    /\ owner = [n \in Boot |-> "DEFAULT"]
    /\ req = [t \in Thread |-> NoReq]
    /\ res = [t \in Thread |-> <<>>]

Item(t) == req[t].items[Len(res[t]) + 1]
Ready(t) == req[t] # NoReq /\ Len(res[t]) < Len(req[t].items)
Served(t) == req[t] # NoReq /\ Len(res[t]) = Len(req[t].items)

(* Whether the client is told success, whether the item was done, and      *)
(* whether a value given is the one kept.                                  *)
Result(ok, did, fresh) == [ok |-> ok, did |-> did, fresh |-> fresh]

Record(t, r) == res' = [res EXCEPT ![t] = Append(@, r)] /\ UNCHANGED req

-----------------------------------------------------------------------------
Take(t) ==
    /\ req[t] = NoReq
    /\ \E r \in Request : req' = [req EXCEPT ![t] = r]
    /\ res' = [res EXCEPT ![t] = <<>>]
    /\ UNCHANGED <<value, owner>>

Reply(t) ==
    /\ Served(t)
    /\ req' = [req EXCEPT ![t] = NoReq]
    /\ res' = [res EXCEPT ![t] = <<>>]
    /\ UNCHANGED <<value, owner>>

Malformed(q) ==
    /\ q.op = "set" /\ q.from = "webpa"
    /\ \E k \in DOMAIN q.items :
          q.items[k].name = "Wildcard" \/ q.items[k].value = Null

(* Nothing is done, and the first outcome says so.                         *)
RefuseAll(t) ==
    /\ Malformed(req[t]) /\ res[t] = <<>>
    /\ res' = [res EXCEPT ![t] =
                  [k \in DOMAIN req[t].items |-> Result(k # 1, FALSE, TRUE)]]
    /\ UNCHANGED <<value, owner, req>>

(* Readers that do not ask for the bootstrap parameters as such.           *)
Aside(q) == q.wild \/ q.from \in {"json", "rbus"}

(* rbus may be given a default for a value that is not to be had.          *)
Get(t) ==
    LET n == Item(t).name
        q == req[t]
    IN
    /\ Ready(t) /\ q.op = "get"
    /\ \E v \in Value \cup {None}, ok \in BOOLEAN :
          /\ n \in Kept => v \in {value[n], None} \/ (n \in Boot /\ Aside(q))
          /\ v # None => ok
          /\ ok => v # None \/ q.from = "rbus"
          /\ Record(t, Result(ok, v # None,
                              v = None \/ n \notin Kept \/ v = value[n]))
    /\ UNCHANGED <<value, owner>>

(* Who a bootstrap parameter belongs to when it is set.                    *)
Claimant(from) == IF from = "rfc" THEN "RFC" ELSE "WEBPA"
MayClaim(from, n) ==
    from \in {"webpa", "tool"} \/ (from = "rfc" /\ owner[n] # "WEBPA")

Keep(n, v) == v \in Value /\ value' = [value EXCEPT ![n] = v]

(* What a set that is done does.  One over IARM of a bootstrap parameter   *)
(* goes where no reader but those aside looks.                             *)
Change(from, n, v) ==
    \/ n \notin Kept /\ UNCHANGED <<value, owner>>
    \/ n \in Kept \ Boot /\ Keep(n, v) /\ UNCHANGED owner
    \/ n \in Boot /\ from = "iarm" /\ UNCHANGED <<value, owner>>
    \/ /\ n \in Boot /\ MayClaim(from, n) /\ Keep(n, v)
       /\ owner' = [owner EXCEPT ![n] = Claimant(from)]

Set(t) ==
    LET i == Item(t) IN
    /\ Ready(t) /\ req[t].op = "set" /\ ~Malformed(req[t])
    /\ \E ok, did \in BOOLEAN :
          /\ i.name \notin Unsure => ok = did
          /\ IF did THEN Change(req[t].from, i.name, i.value)
             ELSE UNCHANGED <<value, owner>>
          /\ Record(t, Result(ok, did, TRUE))

Next == \E t \in Thread :
    Take(t) \/ Reply(t) \/ RefuseAll(t) \/ Get(t) \/ Set(t)

Spec == Init /\ [][Next]_vars
=============================================================================
