----------------------------- MODULE FusionNas -----------------------------
(***************************************************************************)
(* File system volumes on Pacific: the size of a volume is its quota, the  *)
(* QoS policy is associated with it, and, unless the protocol is DPC, it   *)
(* is exported by an NFS share.                                            *)
(***************************************************************************)
EXTENDS FusionArray

AuthClients == <<"c1", "c2">>

preCreate(a) == Then(GetPoolByName(a), LAMBDA b, pool : IF pool = {} THEN Fail(b) ELSE Ret(b, {}))

(* The array may take longer than the driver waits. *)
waitFilesystemCreated(a) == Then(GetFileSystemByName(a, "v"), LAMBDA b, fs : Ret(b, {}) \cup Fail(b))

createFS(a) ==
    Then(GetFileSystemByName(a, "v"),
    LAMBDA b, fs : Then(IF fs # {} THEN Ret(b, {}) ELSE CreateFileSystem(b, "v"),
    LAMBDA c, x : Then(waitFilesystemCreated(c),
    LAMBDA d, y : Ret(d, Keys({"fsID"})))))
revertFS(a, r) == IF "fsID" \in r.has THEN DeleteFileSystem(a, "v") ELSE Ret(a, {})

createQuota(a, p) ==
    Then(GetQuotaByFileSystemById(a, "v"),
    LAMBDA b, q : NoKeys(IF q # {} THEN Ret(b, {}) ELSE CreateQuota(b, "v", p.cap)))
deleteQuota(a) ==
    Then(GetQuotaByFileSystemById(a, "v"), LAMBDA b, q : IF q = {} THEN Ret(b, {}) ELSE DeleteQuota(b, "v"))
revertQuota(a, r) == IF "fsID" \in r.has THEN deleteQuota(a) ELSE Ret(a, {})

createConvergedQoS(a, p) ==
    IF p.qos = "none" THEN Ret(a, NoRes)
    ELSE Then(GetQoSPolicyIdByFsName(a, "v"),
         LAMBDA b, q : NoKeys(IF q # {} THEN Ret(b, {})
                              ELSE Then(CreateConvergedQoS(b),
                                   LAMBDA c, n : AssociateConvergedQoSWithVolume(c, "v", The(n)))))

deleteConvergedQoSByFsName(a) ==
    Then(GetQoSPolicyIdByFsName(a, "v"),
    LAMBDA b, q : IF q = {} THEN Ret(b, {})
                  ELSE Then(DisassociateConvergedQoSWithVolume(b, "v"),
                  LAMBDA c, x : Then(GetQoSPolicyAssociationCount(c, The(q)),
                  LAMBDA d, objs : IF objs # {} THEN Ret(d, {})
                                   ELSE Then(GetConvergedQoSNameByID(d, The(q)),
                                        LAMBDA e, n : DeleteConvergedQoS(e, The(n))))))
revertConvergedQoS(a, r) == IF "fsID" \in r.has THEN deleteConvergedQoSByFsName(a) ELSE Ret(a, {})

createShare(a) ==
    Then(GetNfsShareByPath(a, "v"),
    LAMBDA b, sh : Then(IF sh # {} THEN Ret(b, sh) ELSE CreateNfsShare(b, "v"), LAMBDA c, x : Ret(c, Keys({"shareID"}))))
revertShare(a, r) == IF "shareID" \in r.has THEN DeleteNfsShare(a, "v") ELSE Ret(a, {})
RemoveNfsShare(a) ==
    Then(GetNfsShareByPath(a, "v"), LAMBDA b, sh : IF sh = {} THEN Ret(b, {}) ELSE DeleteNfsShare(b, "v"))

allowShareAccess(a) ==
    Then(AllowNfsShareAccess(a, "v", AuthClients[1]), LAMBDA b, x : NoKeys(AllowNfsShareAccess(b, "v", AuthClients[2])))

Create(a, p) ==
    Then(preCreate(a),
    LAMBDA b, x : Ret(b, <<"Create-FS", "Create-Quota", "Create-Converged-QoS">>
                         \o (IF p.proto = "dpc" THEN <<>> ELSE <<"Create-Share", "Allow-Share-Access">>)))

Delete(a) ==
    Then(GetFileSystemByName(a, "v"),
    LAMBDA b, fs : IF fs = {} THEN Ret(b, <<>>)
                   ELSE Then(RemoveNfsShare(b),
                   LAMBDA c, x : Then(deleteQuota(c),
                   LAMBDA d, y : Then(deleteConvergedQoSByFsName(d),
                   LAMBDA e, z : Then(DeleteFileSystem(e, "v"), LAMBDA f, u : Ret(f, <<>>))))))

Expand(a, p) ==
    Then(GetQuotaByFileSystemName(a, "v"),
    LAMBDA b, q : IF q = {} THEN Fail(b) ELSE Then(UpdateQuota(b, "v", p.esize), LAMBDA c, x : Ret(c, <<>>)))

Plan(op, a, p) ==
    CASE op = "Create" -> Create(a, p)
      [] op = "Delete" -> Delete(a)
      [] op = "Expand" -> Expand(a, p)

Run(t, a, p, r) ==
    CASE t = "Create-FS"            -> createFS(a)
      [] t = "Create-Quota"         -> createQuota(a, p)
      [] t = "Create-Converged-QoS" -> createConvergedQoS(a, p)
      [] t = "Create-Share"         -> createShare(a)
      [] t = "Allow-Share-Access"   -> allowShareAccess(a)

Back(t, a, r) ==
    CASE t = "Create-FS"            -> revertFS(a, r)
      [] t = "Create-Quota"         -> revertQuota(a, r)
      [] t = "Create-Converged-QoS" -> revertConvergedQoS(a, r)
      [] t = "Create-Share"         -> revertShare(a, r)
      [] OTHER                      -> Ret(a, {})
============================================================================
