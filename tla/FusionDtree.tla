---------------------------- MODULE FusionDtree ----------------------------
(***************************************************************************)
(* Dtree volumes on Pacific: the creator is a transaction of steps, each   *)
(* of which finds what an earlier call left; the share is made anew.       *)
(***************************************************************************)
EXTENDS FusionArray

AuthClients == <<"c1", "c2">>

createDTree(a)   == Then(GetDTreeByName(a, "v"), LAMBDA b, d : IF d # {} THEN Ret(b, {}) ELSE CreateDTree(b, "v"))
rollbackDTree(a) == DeleteDTree(a, "v")

createQuota(a, p) ==
    Then(GetQuotaByDTreeId(a, "v"),
    LAMBDA b, q : CASE q = {} -> CreateDTreeQuota(b, "v", p.cap)
                    [] q # {} /\ The(q).cap = p.cap -> Ret(b, {})
                    [] OTHER -> Fail(b))
rollbackQuota(a) == DeleteDTreeQuota(a, "v")

createNfsShare(a) ==
    Then(GetDTreeNfsShareByPath(a, "v"),
    LAMBDA b, sh : Then(IF sh = {} THEN Ret(b, {}) ELSE DeleteDTreeNfsShare(b, "v"),
    LAMBDA c, x : CreateDTreeNfsShare(c, "v")))
rollbackNfsShare(a) == DeleteDTreeNfsShare(a, "v")

createAuthClients(a) ==
    Then(AddNfsShareAuthClient(a, "v", AuthClients[1]), LAMBDA b, x : AddNfsShareAuthClient(b, "v", AuthClients[2]))

Create(a, p) ==
    Ret(a, <<"createDTree", "createQuota">> \o (IF p.proto = "dpc" THEN <<>> ELSE <<"createNfsShare", "createAuthClients">>))

deleteNfsShare(a) ==
    Then(GetDTreeNfsShareByPath(a, "v"), LAMBDA b, sh : IF sh = {} THEN Ret(b, {}) ELSE DeleteDTreeNfsShare(b, "v"))

deleteDTree(a) ==
    Then(GetFileSystemByName(a, "src"),
    LAMBDA b, fs : IF fs = {} THEN Ret(b, {})
                   ELSE Then(GetDTreeByName(b, "v"), LAMBDA c, d : IF d = {} THEN Ret(c, {}) ELSE DeleteDTree(c, "v")))

Delete(a) == Then(deleteNfsShare(a), LAMBDA b, x : Then(deleteDTree(b), LAMBDA c, y : Ret(c, <<>>)))

ExpandDTree(a, p) ==
    Then(GetDTreeByName(a, "v"),
    LAMBDA b, d : IF d = {} THEN Fail(b) ELSE Then(GetQuotaByDTreeId(b, "v"),
    LAMBDA c, q : CASE q = {} -> CreateDTreeQuota(c, "v", p.esize)
                    [] q # {} /\ p.esize < The(q).cap -> Fail(c)
                    [] OTHER -> UpdateDTreeQuota(c, "v", p.esize)))

Plan(op, a, p) ==
    CASE op = "Create" -> Create(a, p)
      [] op = "Delete" -> Delete(a)
      [] op = "Expand" -> Ret(a, <<"ExpandDTree">>)

Run(t, a, p, r) ==
    NoKeys(CASE t = "createDTree"       -> createDTree(a)
             [] t = "createQuota"       -> createQuota(a, p)
             [] t = "createNfsShare"    -> createNfsShare(a)
             [] t = "createAuthClients" -> createAuthClients(a)
             [] t = "ExpandDTree"       -> ExpandDTree(a, p))

Back(t, a, r) ==
    CASE t = "createDTree"    -> rollbackDTree(a)
      [] t = "createQuota"    -> rollbackQuota(a)
      [] t = "createNfsShare" -> rollbackNfsShare(a)
      [] OTHER                -> Ret(a, {})
============================================================================
