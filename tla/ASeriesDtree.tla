---------------------------- MODULE ASeriesDtree ----------------------------
(***************************************************************************)
(* Dtree volumes on A-series arrays, in the file system "src".             *)
(***************************************************************************)
EXTENDS ASeriesArray

checkParentFS(a) == Then(FindFileSystemByName(a, "src"), LAMBDA b, fs : IF fs = {} THEN Fail(b) ELSE Ret(b, NoRes))

createDTree(a) ==
    Then(FindDTreeByName(a, "v"),
    LAMBDA b, d : Then(IF d # {} THEN Ret(b, {}) ELSE MakeDTree(b, "v"), LAMBDA c, x : Ret(c, Keys({"dtreeId"}))))
rollbackDTree(a, r) == IF "dtreeId" \in r.has THEN DeleteDTreeByID(a, "v") ELSE Ret(a, {})

(* A quota of another size is an error, not a quota to be changed. *)
checkExistingQuotaAndValidate(a, q, p) == IF The(q).cap # p.cap THEN Fail(a) ELSE Ret(a, {})
createNewQuotaRecord(a, p) == CreateDTreeQuota(a, "v", p.cap)
createQuota(a, p) ==
    Then(GetDTreeQuota(a, "v"),
    LAMBDA b, q : Then(IF q # {} THEN checkExistingQuotaAndValidate(b, q, p) ELSE createNewQuotaRecord(b, p),
                  LAMBDA c, x : Ret(c, Keys({"quotaId"}))))
rollbackQuota(a, r) == IF "quotaId" \in r.has THEN DeleteDTreeQuota(a, "v") ELSE Ret(a, {})

createNfsShare(a)            == RenewNfsShare(a)
rollbackNfsShare(a, r)       == IF "shareID" \in r.has THEN DeleteNfsShare(a, "L", "v") ELSE Ret(a, {})
createAuthClients(a)         == AllowAll(a)
createDataTurboShare(a)      == RenewDataTurboShare(a)
rollbackDataTurboShare(a, r) == IF "shareID" \in r.has THEN DeleteDataTurboShare(a, "v") ELSE Ret(a, {})
addAuthUser(a)               == AddAllUsers(a)

Create(p) ==
    <<"checkParentFS", "createDTree", "createQuota">>
    \o (CASE p.proto = "nfs"  -> <<"createNfsShare", "createAuthClients">>
          [] p.proto = "dtfs" -> <<"createDataTurboShare", "addAuthUser">>)

deleteDTree(a) ==
    Then(FindFileSystemByName(a, "src"),
    LAMBDA b, fs : IF fs = {} THEN Ret(b, {})
                   ELSE Then(FindDTreeByName(b, "v"), LAMBDA c, d : IF d = {} THEN Ret(c, {}) ELSE DeleteDTreeByID(c, "v")))

deleteNfsShare(a)       == RemoveNfsShare(a)
deleteDataTurboShare(a) == RemoveDataTurboShare(a)
Delete(a, p) ==
    Then(IF p.proto = "nfs" THEN deleteNfsShare(a) ELSE deleteDataTurboShare(a),
    LAMBDA b, x : Then(deleteDTree(b), LAMBDA c, y : Ret(c, <<>>)))

updateOrCreateQuota(a, p) ==
    Then(GetDTreeQuota(a, "v"),
    LAMBDA b, q : CASE q = {} -> CreateDTreeQuota(b, "v", p.esize)
                    [] q # {} /\ p.esize < The(q).cap -> Fail(b)
                    [] OTHER -> UpdateDTreeQuota(b, "v", p.esize))
expandDTree(a, p) ==
    Then(FindDTreeByName(a, "v"), LAMBDA b, d : IF d = {} THEN Fail(b) ELSE updateOrCreateQuota(b, p))
Expand(a, p) == Then(expandDTree(a, p), LAMBDA b, x : Ret(b, <<>>))

Plan(op, a, p) ==
    CASE op = "Create" -> Ret(a, Create(p))
      [] op = "Delete" -> Delete(a, p)
      [] op = "Expand" -> Expand(a, p)

Run(t, a, p, r) ==
    CASE t = "checkParentFS"        -> checkParentFS(a)
      [] t = "createDTree"          -> createDTree(a)
      [] t = "createQuota"          -> createQuota(a, p)
      [] t = "createNfsShare"       -> createNfsShare(a)
      [] t = "createAuthClients"    -> createAuthClients(a)
      [] t = "createDataTurboShare" -> createDataTurboShare(a)
      [] t = "addAuthUser"          -> addAuthUser(a)

Back(t, a, r) ==
    CASE t = "createDTree"          -> rollbackDTree(a, r)
      [] t = "createQuota"          -> rollbackQuota(a, r)
      [] t = "createNfsShare"       -> rollbackNfsShare(a, r)
      [] t = "createDataTurboShare" -> rollbackDataTurboShare(a, r)
      [] OTHER                      -> Ret(a, {})
=============================================================================
