------------------------------- MODULE Calls -------------------------------
(***************************************************************************)
(* How the driver's calls to a storage array are modelled.                 *)
(*                                                                         *)
(* An array is a store of objects: a function whose domain is the set of   *)
(* keys <<site, kind, name>> of the objects that exist.  The driver finds  *)
(* objects by name and then works with the id it was given; a name has at  *)
(* most one object, so the model lets the name stand for the id.           *)
(*                                                                         *)
(* A piece of driver code that runs against an array a is the SET of its   *)
(* outcomes [st, a, v]: st = "ok" with the returned value v, "err" when it *)
(* returns an error, "crash" when the process died in it; a is the array   *)
(* it leaves.  A request may fail before or after the array carried it out *)
(* (the answer was lost), and the process may die before or after it.      *)
(***************************************************************************)
EXTENDS Naturals, Sequences, FiniteSets

Ret(a, v)  == {[st |-> "ok", a |-> a, v |-> v]}
Fail(a)    == {[st |-> "err", a |-> a, v |-> {}]}
Die(a)     == {[st |-> "crash", a |-> a, v |-> {}]}

(* A GET: it changes nothing, and may fail. *)
Ask(a, v)  == Ret(a, v) \cup Fail(a) \cup Die(a)

(* A POST, PUT or DELETE that takes the array from a to b.                 *)
Send(a, b, v) == Ret(b, v) \cup Fail(a) \cup Fail(b) \cup Die(a) \cup Die(b)

(* The array turns the request down. *)
Refuse(a)  == Fail(a) \cup Die(a)

(* "if err != nil { return err }": F goes on with the array and the value. *)
Then(outs, F(_, _)) ==
    UNION {IF o.st = "ok" THEN F(o.a, o.v) ELSE {o} : o \in outs}

(* Clean-up on the error path: the error is returned whatever Clean does.  *)
OnErr(outs, Clean(_)) ==
    UNION {IF o.st = "err"
           THEN {[c EXCEPT !.st = IF @ = "crash" THEN @ ELSE "err", !.v = {}] : c \in Clean(o.a)}
           ELSE {o} : o \in outs}

(* A call whose error is only logged. *)
Ignore(outs) == {IF o.st = "err" THEN [o EXCEPT !.st = "ok"] ELSE o : o \in outs}

Has(a, k)    == k \in DOMAIN a
Obj(a, k)    == IF Has(a, k) THEN {a[k]} ELSE {}
Put(a, k, o) == [x \in DOMAIN a \cup {k} |-> IF x = k THEN o ELSE a[x]]
Drop(a, k)   == [x \in DOMAIN a \ {k} |-> a[x]]
The(S)       == CHOOSE x \in S : TRUE

(* Requests on one object: create it (the array refuses a name that is     *)
(* taken), change it (it must exist), delete it (deleting what is not      *)
(* there counts as done: the "not exist" codes the clients tolerate).      *)
New(a, k, o)    == IF Has(a, k) THEN Refuse(a) ELSE Send(a, Put(a, k, o), {o})
Change(a, k, o) == IF Has(a, k) THEN Send(a, Put(a, k, o), {o}) ELSE Refuse(a)
Remove(a, k)    == IF Has(a, k) THEN Send(a, Drop(a, k), {}) ELSE Ask(a, {})

(* The result map of a task flow: the keys that are set, and the capacity. *)
NoRes         == [has |-> {}, cap |-> 0]
Keys(ks)      == [has |-> ks, cap |-> 0]
Merge(r, v)   == [has |-> r.has \cup v.has, cap |-> IF v.cap = 0 THEN r.cap ELSE v.cap]

(* A task that returns no result map adds nothing to the flow's result. *)
NoKeys(outs) == Then(outs, LAMBDA a, x : Ret(a, NoRes))
=============================================================================
