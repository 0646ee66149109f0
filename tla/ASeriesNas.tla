----------------------------- MODULE ASeriesNas -----------------------------
(***************************************************************************)
(* File system volumes on A-series arrays: a transaction of steps for the  *)
(* file system, its NFS or DataTurbo share, its QoS policy and, for AI     *)
(* inference, a KV cache store whose id travels in the volume's context.   *)
(***************************************************************************)
EXTENDS ASeriesArray

(* A KV cache store always has an application type, which must be known. *)
setWorkloadId(a, p) ==
    IF ~p.kv THEN Ret(a, {})
    ELSE Then(GetApplicationTypeByName(a), LAMBDA b, t : IF t = {} THEN Fail(b) ELSE Ret(b, {}))

validateAndPrepareParams(a, p) ==
    Then(GetPoolByName(a), LAMBDA b, pool : IF pool = {} THEN Fail(b) ELSE NoKeys(setWorkloadId(b, p)))

(* An existing file system is taken over with the policy it has. *)
createFilesystem(a, p) ==
    Then(FindFileSystemByName(a, "v"),
    LAMBDA b, fs : IF fs # {} THEN Ret(b, Keys({"fsId"} \cup (IF Has(b, <<"L", "qos", "v">>) THEN {"qosId"} ELSE {})))
                   ELSE Then(MakeFileSystem(b, "v", p.cap), LAMBDA c, x : Ret(c, Keys({"fsId"}))))
rollBackendFilesystem(a, r) == IF "fsId" \in r.has THEN DeleteFileSystem(a, "L", "v") ELSE Ret(a, {})

createNfsShare(a)            == RenewNfsShare(a)
rollbackNfsShare(a, r)       == IF "shareID" \in r.has THEN DeleteNfsShare(a, "L", "v") ELSE Ret(a, {})
createAuthClients(a)         == AllowAll(a)
createDataTurboShare(a)      == RenewDataTurboShare(a)
rollbackDataTurboShare(a, r) == IF "shareID" \in r.has THEN DeleteDataTurboShare(a, "v") ELSE Ret(a, {})
addAuthUser(a)               == AddAllUsers(a)

createQos(a, p, r) ==
    IF p.qos = "none" THEN Ret(a, NoRes)
    ELSE Then(IF "qosId" \in r.has THEN GetQosByID(a, "L", "v") ELSE Ret(a, {}),
         LAMBDA b, q : IF q # {} THEN Ret(b, NoRes)
                       ELSE Then(SmartCreateQos(b, p.qos), LAMBDA c, x : Ret(c, Keys({"qosId"}))))
revertQos(a, r) == IF {"fsId", "qosId"} \subseteq r.has THEN SmartDeleteQos(a) ELSE Ret(a, {})

createKVCache(a, p)   == Then(CreateKVCache(a, "v", p.cap), LAMBDA b, x : Ret(b, Keys({"kvcacheStoreId"})))
rollbackKVCache(a, r) == IF "kvcacheStoreId" \in r.has THEN DeleteKVCache(a, "v") ELSE Ret(a, {})

Create(p) ==
    <<"validateAndPrepareParams", "createFilesystem">>
    \o (CASE p.proto = "nfs"  -> <<"createNfsShare", "createAuthClients">>
          [] p.proto = "dtfs" -> <<"createDataTurboShare", "addAuthUser">>)
    \o <<"createQos">>
    \o (IF p.kv THEN <<"createKVCache">> ELSE <<>>)

deleteFilesystem(a) ==
    Then(FindFileSystemByName(a, "v"),
    LAMBDA b, fs : IF fs = {} THEN Ret(b, NoRes)
                   ELSE Then(IF Has(b, <<"L", "qos", "v">>) THEN SmartDeleteQos(b) ELSE Ret(b, {}),
                        LAMBDA c, x : NoKeys(DeleteFileSystem(c, "L", "v"))))

(* The KV cache store is deleted last, and only if the volume's context    *)
(* names it.                                                               *)
Delete(p) ==
    (IF p.proto = "nfs" THEN <<"deleteNfsShare">> ELSE <<"deleteDataTurboShare">>)
    \o <<"deleteFilesystem">>
    \o (IF p.kv THEN <<"deleteKVCache">> ELSE <<>>)

expandFilesystem(a, p) ==
    Then(FindFileSystemByName(a, "v"),
    LAMBDA b, fs : CASE fs = {} -> Fail(b)
                     [] fs # {} /\ p.esize = The(fs).cap -> Ret(b, NoRes)
                     [] fs # {} /\ p.esize < The(fs).cap -> Fail(b)
                     [] OTHER -> Then(GetPoolByName(b),
                                 LAMBDA c, pool : IF pool = {} THEN Fail(c)
                                                  ELSE NoKeys(ExtendFileSystem(c, "L", "v", p.esize))))

Plan(op, a, p) ==
    CASE op = "Create" -> Ret(a, Create(p))
      [] op = "Delete" -> Ret(a, Delete(p))
      [] op = "Expand" -> Ret(a, <<"expandFilesystem">>)

Run(t, a, p, r) ==
    CASE t = "validateAndPrepareParams" -> validateAndPrepareParams(a, p)
      [] t = "createFilesystem"         -> createFilesystem(a, p)
      [] t = "createNfsShare"           -> createNfsShare(a)
      [] t = "createAuthClients"        -> createAuthClients(a)
      [] t = "createDataTurboShare"     -> createDataTurboShare(a)
      [] t = "addAuthUser"              -> addAuthUser(a)
      [] t = "createQos"                -> createQos(a, p, r)
      [] t = "createKVCache"            -> createKVCache(a, p)
      [] t = "deleteNfsShare"           -> NoKeys(RemoveNfsShare(a))
      [] t = "deleteDataTurboShare"     -> NoKeys(RemoveDataTurboShare(a))
      [] t = "deleteFilesystem"         -> deleteFilesystem(a)
      [] t = "deleteKVCache"            -> NoKeys(DeleteKVCache(a, "v"))
      [] t = "expandFilesystem"         -> expandFilesystem(a, p)

Back(t, a, r) ==
    CASE t = "createFilesystem"     -> rollBackendFilesystem(a, r)
      [] t = "createNfsShare"       -> rollbackNfsShare(a, r)
      [] t = "createDataTurboShare" -> rollbackDataTurboShare(a, r)
      [] t = "createQos"            -> revertQos(a, r)
      [] t = "createKVCache"        -> rollbackKVCache(a, r)
      [] OTHER                      -> Ret(a, {})
=============================================================================
