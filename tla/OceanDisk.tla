------------------------------ MODULE OceanDisk ------------------------------
(***************************************************************************)
(* Namespaces on OceanDisk arrays.  The array does not tell which QoS      *)
(* policy a namespace has, so every creation of a volume makes a policy,   *)
(* also for a namespace that it found, and deletion searches all policies. *)
(* Kinds: ns [cap], policy [on, objs].                                     *)
(***************************************************************************)
EXTENDS Calls

(* Policy names hold the time; the bound is on the policies that exist.    *)
PolicyNames == {"q1", "q2"}
Policies(a) == {q \in PolicyNames : Has(a, <<"L", "policy", q>>)}
InPolicy(a) == {q \in Policies(a) : "v" \in a[<<"L", "policy", q>>].objs}

------------------------------------------------------------------- \* Client
GetNamespaceByName(a)     == Ask(a, Obj(a, <<"L", "ns", "v">>))
GetNamespaceByID(a)       == IF Has(a, <<"L", "ns", "v">>) THEN Ask(a, {a[<<"L", "ns", "v">>]}) ELSE Refuse(a)
CreateNamespace(a, cap)   == New(a, <<"L", "ns", "v">>, [cap |-> cap])
DeleteNamespace(a)        == IF InPolicy(a) # {} THEN Refuse(a) ELSE Remove(a, <<"L", "ns", "v">>)
ExtendNamespace(a, cap)   == Change(a, <<"L", "ns", "v">>, [cap |-> cap])
UpdateNamespace(a)        == Change(a, <<"L", "ns", "v">>, a[<<"L", "ns", "v">>])

CreatePolicy(a) ==
    IF Policies(a) = PolicyNames THEN Refuse(a)
    ELSE LET q == The(PolicyNames \ Policies(a))
         IN  UNION {Send(a, Put(a, <<"L", "policy", q>>, [on |-> on, objs |-> {"v"}]), {q}) : on \in BOOLEAN}
SetPolicy(a, q, o)  == Change(a, <<"L", "policy", q>>, o)
DropPolicy(a, q)    == IF Has(a, <<"L", "policy", q>>) THEN Remove(a, <<"L", "policy", q>>) ELSE Refuse(a)
GetPolicy(a, q)     == IF Has(a, <<"L", "policy", q>>) THEN Ask(a, {a[<<"L", "policy", q>>]}) ELSE Refuse(a)
GetAllQos(a)        == Ask(a, Policies(a))
GetPoolByName(a)    == Ask(a, {"pool"}) \cup Ask(a, {})
GetApplicationTypeByName(a) == Ask(a, {"type"}) \cup Ask(a, {})

------------------------------------------------------------------- \* SmartX
(* Take the namespace out of policy q; the last one out deletes it. *)
LeavePolicy(a, q, o) ==
    IF o.objs \ {"v"} # {} THEN SetPolicy(a, q, [o EXCEPT !.objs = @ \ {"v"}])
    ELSE Then(SetPolicy(a, q, [o EXCEPT !.on = FALSE]), LAMBDA b, x : DropPolicy(b, q))

CreateQos(a, p) ==
    Then(IF p.qos = "min" THEN UpdateNamespace(a) ELSE Ret(a, {}),
    LAMBDA b, x : Then(CreatePolicy(b),
    LAMBDA c, q : LET o == c[<<"L", "policy", The(q)>>]
                  IN  Then(IF o.on THEN Ret(c, {}) ELSE SetPolicy(c, The(q), [o EXCEPT !.on = TRUE]),
                      LAMBDA d, y : Ret(d, q))))

DeleteQos(a, q) == Then(GetPolicy(a, q), LAMBDA b, o : LeavePolicy(b, q, The(o)))

(* The list of policies is read once; each that names the namespace is left. *)
DeleteQosByNamespaceId(a) ==
    LET Leave(b, q, all) == IF q \in all /\ "v" \in a[<<"L", "policy", q>>].objs THEN LeavePolicy(b, q, a[<<"L", "policy", q>>]) ELSE Ret(b, {})
    IN  Then(GetAllQos(a),
        LAMBDA b, all : Then(Leave(b, "q1", all), LAMBDA c, x : Leave(c, "q2", all)))

------------------------------------------------------------------- \* Volume
getPoolID(a)       == Then(GetPoolByName(a), LAMBDA b, pool : IF pool = {} THEN Fail(b) ELSE Ret(b, {}))
setWorkLoadID(a)   == Then(GetApplicationTypeByName(a), LAMBDA b, t : IF t = {} THEN Fail(b) ELSE Ret(b, {}))
preCreate(a)       == Then(getPoolID(a), LAMBDA b, x : setWorkLoadID(b))

createLocalNamespace(a, p) ==
    Then(GetNamespaceByName(a),
    LAMBDA b, ns : Then(IF ns # {} THEN Ret(b, {}) ELSE CreateNamespace(b, p.cap),
                   LAMBDA c, x : Ret(c, Keys({"localNamespaceID"}))))
revertLocalNamespace(a, r) == IF "localNamespaceID" \in r.has THEN DeleteNamespace(a) ELSE Ret(a, {})

createLocalQoS(a, p) ==
    IF p.qos = "none" THEN Ret(a, NoRes)
    ELSE Then(GetNamespaceByID(a), LAMBDA b, ns : Then(CreateQos(b, p), LAMBDA c, q : Ret(c, Keys({"localQosID", The(q)}))))
revertLocalQoS(a, r) ==
    IF {"localNamespaceID", "localQosID"} \subseteq r.has THEN DeleteQos(a, The(r.has \cap PolicyNames)) ELSE Ret(a, {})

Create(a) == Then(preCreate(a), LAMBDA b, x : Ret(b, <<"Create-Local-Namespace", "Create-Local-QoS">>))

Delete(a) ==
    Then(GetNamespaceByName(a), LAMBDA b, ns : Ret(b, IF ns = {} THEN <<>> ELSE <<"Delete-Local-Namespace">>))

deleteNamespace(a) ==
    Then(GetNamespaceByName(a),
    LAMBDA b, ns : IF ns = {} THEN Ret(b, NoRes)
                   ELSE Then(DeleteQosByNamespaceId(b), LAMBDA c, x : NoKeys(DeleteNamespace(c))))

Expand(a, p) ==
    Then(GetNamespaceByName(a),
    LAMBDA b, ns : CASE ns = {} -> Fail(b)
                     [] ns # {} /\ p.esize = The(ns).cap -> Ret(b, <<>>)
                     [] ns # {} /\ p.esize < The(ns).cap -> Fail(b)
                     [] OTHER -> Ret(b, <<"Expand-Local-Namespace">>))

expandLocalNamespace(a, p) ==
    Then(GetPoolByName(a), LAMBDA b, pool : IF pool = {} THEN Fail(b) ELSE NoKeys(ExtendNamespace(b, p.esize)))

Plan(op, a, p) ==
    CASE op = "Create" -> Create(a)
      [] op = "Delete" -> Delete(a)
      [] op = "Expand" -> Expand(a, p)

Run(t, a, p, r) ==
    CASE t = "Create-Local-Namespace" -> createLocalNamespace(a, p)
      [] t = "Create-Local-QoS"       -> createLocalQoS(a, p)
      [] t = "Delete-Local-Namespace" -> deleteNamespace(a)
      [] t = "Expand-Local-Namespace" -> expandLocalNamespace(a, p)

Back(t, a, r) ==
    CASE t = "Create-Local-Namespace" -> revertLocalNamespace(a, r)
      [] t = "Create-Local-QoS"       -> revertLocalQoS(a, r)
      [] OTHER                        -> Ret(a, {})
=============================================================================
