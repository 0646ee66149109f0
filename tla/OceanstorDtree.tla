--------------------------- MODULE OceanstorDtree ---------------------------
(***************************************************************************)
(* Dtree volumes on OceanStor arrays: a dtree "v" of the file system "src" *)
(* with its NFS share and a quota that stands for the volume's size.       *)
(***************************************************************************)
EXTENDS OceanstorVolume

AuthClients == <<"c1", "c2">>

preCreate(a) == setWorkLoadID(a)

checkFSExist(a) ==
    Then(GetFileSystemByName(a, "L", "src"), LAMBDA b, fs : IF fs = {} THEN Fail(b) ELSE Ret(b, NoRes))

checkDtreeExist(a) ==
    Then(GetFileSystemByName(a, "L", "src"), LAMBDA b, fs : IF fs = {} THEN Ret(b, {}) ELSE GetDTreeByName(b, "v"))

(* There is no look-up first: a dtree that exists is refused. *)
createDtree(a) == Then(CreateDTree(a, "v"), LAMBDA b, x : Ret(b, Keys({"dTreeId"})))
revertDtree(a) == DeleteDTree(a, "v")
deleteDtree(a) == DeleteDTree(a, "v")

createShare(a) ==
    Then(GetNfsShareByPath(a, "L", "v"),
    LAMBDA b, sh : Then(IF sh # {} THEN Ret(b, sh) ELSE CreateNfsShare(b, "L", "v"), LAMBDA c, x : Ret(c, Keys({"shareId"}))))
revertShare(a, r) == IF "shareId" \in r.has THEN DeleteNfsShare(a, "L", "v") ELSE Ret(a, {})
deleteShare(a) ==
    Then(GetNfsShareByPath(a, "L", "v"), LAMBDA b, sh : IF sh = {} THEN Ret(b, {}) ELSE DeleteNfsShare(b, "L", "v"))

getCurrentShareAccess(a) == GetNfsShareAccess(a, "L", "v")

allowOne(a, c, found) == IF c \in found THEN Ret(a, {}) ELSE AllowNfsShareAccess(a, "L", "v", c)
allowShareAccess(a) ==
    Then(getCurrentShareAccess(a),
    LAMBDA b, acc : Then(allowOne(b, AuthClients[1], acc),
    LAMBDA c, x : Then(allowOne(c, AuthClients[2], acc),
    LAMBDA d, y : Ret(d, Keys({"authClient"})))))

dropOne(a, c, found) == IF c \in found THEN Ignore(DeleteNfsShareAccess(a, "L", "v", c)) ELSE Ret(a, {})
revertShareAccess(a, r) ==
    IF "authClient" \notin r.has THEN Ret(a, {})
    ELSE Then(getCurrentShareAccess(a),
         LAMBDA b, acc : Then(dropOne(b, AuthClients[1], acc), LAMBDA c, x : dropOne(c, AuthClients[2], acc)))

createQuota(a, p) == Then(CreateQuota(a, "v", p.cap), LAMBDA b, x : Ret(b, Keys({"quotaId"})))
revertQuota(a)    == DeleteQuota(a, "v")

getDtreeID(a) == Then(GetDTreeByName(a, "v"), LAMBDA b, d : IF d = {} THEN Fail(b) ELSE Ret(b, {}))

Create(a) ==
    Then(preCreate(a),
    LAMBDA b, x : Ret(b, <<"Check-FS", "Create-DTree", "Create-Share", "Allow-Share-Access", "Create-Quota">>))

Delete(a) ==
    Then(checkDtreeExist(a), LAMBDA b, d : Ret(b, IF d = {} THEN <<>> ELSE <<"Delete-Share", "Delete-DTree">>))

(* A dtree that has no quota is given one of the new size. *)
Expand(a, p) ==
    Then(getDtreeID(a),
    LAMBDA b, x : Then(BatchGetQuota(b, "v"),
    LAMBDA c, q : Then(IF q = {} THEN CreateQuota(c, "v", p.esize)
                       ELSE IF p.esize < The(q).cap THEN Fail(c) ELSE UpdateQuota(c, "v", p.esize),
    LAMBDA d, y : Ret(d, <<>>))))

Plan(op, a, p) ==
    CASE op = "Create" -> Create(a)
      [] op = "Delete" -> Delete(a)
      [] op = "Expand" -> Expand(a, p)

Run(t, a, p, r) ==
    CASE t = "Check-FS"           -> checkFSExist(a)
      [] t = "Create-DTree"       -> createDtree(a)
      [] t = "Create-Share"       -> createShare(a)
      [] t = "Allow-Share-Access" -> allowShareAccess(a)
      [] t = "Create-Quota"       -> createQuota(a, p)
      [] t = "Delete-Share"       -> NoKeys(deleteShare(a))
      [] t = "Delete-DTree"       -> NoKeys(deleteDtree(a))

Back(t, a, r) ==
    CASE t = "Create-DTree"       -> revertDtree(a)
      [] t = "Create-Share"       -> revertShare(a, r)
      [] t = "Allow-Share-Access" -> revertShareAccess(a, r)
      [] t = "Create-Quota"       -> revertQuota(a)
      [] OTHER                    -> Ret(a, {})
=============================================================================
