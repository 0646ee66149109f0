---------------------------- MODULE OceanstorNas ----------------------------
(***************************************************************************)
(* File system volumes on OceanStor and Dorado arrays: the NAS volume      *)
(* operations and the volume creators, whose transactions are lists of     *)
(* steps with a rollback each, as the task flows are.                      *)
(*                                                                         *)
(* The request p is that of OceanstorSan with: active (the site whose      *)
(* client is the active one of a HyperMetro file system), own (the logical *)
(* port runs on its own site) and wait (waitForSplit).                     *)
(***************************************************************************)
EXTENDS OceanstorVolume

GetActiveHyperMetroCli(p)  == IF p.metro \/ p.modify THEN p.active ELSE "L"
GetStandbyHyperMetroCli(p) == IF GetActiveHyperMetroCli(p) = "L" THEN "R" ELSE "L"

getFilesystemByName(a, s, n) ==
    Then(GetFileSystemByName(a, s, n), LAMBDA b, fs : IF fs = {} THEN Fail(b) ELSE Ret(b, fs))

------------------------------------------------------- \* The source snapshot
(* Where the snapshot is: looked up at the local site, then at the peer. *)
tryGetSnapshotByName(a, p, n) ==
    Then(GetFSSnapshotByName(a, "L", n),
    LAMBDA b, s : IF s # {} THEN Ret(b, {"L"}) ELSE IF ~(p.metro \/ p.modify) THEN Ret(b, {})
                  ELSE Then(GetFSSnapshotByName(b, "R", n), LAMBDA c, t : Ret(c, IF t = {} THEN {} ELSE {"R"})))

getActiveSnapshot(a, p, n, of) ==
    Then(getFilesystemByName(a, GetActiveHyperMetroCli(p), of),
    LAMBDA b, fs : GetFSSnapshotByName(b, GetActiveHyperMetroCli(p), n))

selectSnapshotParent(a, p) ==
    IF p.from # "snap" THEN Ret(a, {})
    ELSE Then(tryGetSnapshotByName(a, p, "s0"),
         LAMBDA b, at : CASE at = {} -> Fail(b)
                          [] at = {GetActiveHyperMetroCli(p)} -> Ret(b, {})
                          [] OTHER -> Then(getActiveSnapshot(b, p, "s0", "src"),
                                      LAMBDA c, s : IF s = {} THEN Fail(c) ELSE Ret(c, {})))

---------------------------------------------------------- \* The file system
createFilesystem(a, s, cap) ==
    Then(GetFileSystemByName(a, s, "v"),
    LAMBDA b, fs : IF fs # {} THEN Ret(b, {}) ELSE CreateFileSystem(b, s, "v", cap))

GetPoolID(a) == Then(GetPoolByName(a), LAMBDA b, pool : IF pool = {} THEN Fail(b) ELSE Ret(b, {}))

(* A clone that is split has no parent left; one whose split was never     *)
(* started stays unsplit until the time is up.                             *)
waitFsSplit(a, s, wait) ==
    IF ~wait THEN Ret(a, {})
    ELSE Then(GetFileSystemByID(a, s, "v"),
         LAMBDA b, fs : IF The(fs).parent = "none" THEN Ret(b, {})
                        ELSE Fail(b) \cup (IF The(fs).split
                                           THEN Ret([b EXCEPT ![<<s, "fs", "v">>].parent = "none"], {}) ELSE {}))

splitClone(a, s, wait) ==
    Then(OnErr(SplitCloneFS(a, s, "v"), LAMBDA b : DeleteFileSystem(b, s, "v")),
    LAMBDA c, x : waitFsSplit(c, s, wait))

(* An error of the split is only logged. *)
cloneFilesystem(a, s, p, srcCap, parent) ==
    Then(CloneFileSystem(a, s, "v", "src", parent),
    LAMBDA b, x : Then(IF p.cap = srcCap THEN Ret(b, {})
                       ELSE OnErr(ExtendFileSystem(b, s, "v", p.cap), LAMBDA c : DeleteFileSystem(c, s, "v")),
    LAMBDA d, y : Ignore(splitClone(d, s, p.wait \/ p.metro))))

clone(a, s, p) ==
    Then(GetFileSystemByName(a, s, "src"),
    LAMBDA b, src :
        IF src = {} THEN Fail(b) ELSE IF p.cap < The(src).cap THEN Fail(b)
        ELSE Then(cloneFilesystem(b, s, p, The(src).cap, IF p.from = "snap" THEN "s0" ELSE "src"),
             LAMBDA c, x : UpdateFileSystem(c, s, "v")))

----------------------------------------------------------- \* Share and QoS
AuthClients == <<"c1", "c2">>

CreateShare(a, s) ==
    Then(GetNfsShareByPath(a, s, "v"), LAMBDA b, sh : IF sh # {} THEN Ret(b, sh) ELSE CreateNfsShare(b, s, "v"))

(* The clients found on the share are removed one by one; an error of one  *)
(* of these removals is only logged.                                       *)
removeAccess(a, s, c, found) == IF c \in found THEN Ignore(DeleteNfsShareAccess(a, s, "v", c)) ELSE Ret(a, {})

traverseShareAccesses(a, s) ==
    Then(GetNfsShareAccess(a, s, "v"),
    LAMBDA b, acc : Then(removeAccess(b, s, AuthClients[1], acc), LAMBDA c, x : removeAccess(c, s, AuthClients[2], acc)))

createAuthClients(a, s) ==
    Then(AllowNfsShareAccess(a, s, "v", AuthClients[1]), LAMBDA b, x : AllowNfsShareAccess(b, s, "v", AuthClients[2]))

AllowShareAccess(a, s) == Then(traverseShareAccesses(a, s), LAMBDA b, x : createAuthClients(b, s))

addNfsShareTransactionStep == <<"CreateNfsShare", "AllowShareAccess">>
addQoSTransactionStep(p)   == IF p.qos = "none" THEN <<>> ELSE <<"CreateQoS">>

-------------------------------------------------------- \* HyperMetro pair
createHyperMetroPair(a, p) ==
    Then(CreateHyperMetroPair(a, "fs", "v", ~p.v6),
    LAMBDA b, x : IF p.v6 THEN Ret(b, {})
                  ELSE OnErr(SyncHyperMetroPair(b, "v"), LAMBDA c : DeleteHyperMetroPair(c, "v")))

deleteHyperMetroPair(a) ==
    Then(DeleteHyperMetroPair(a, "v"), LAMBDA b, x : Then(GetHyperMetroPair(b, "v"), LAMBDA c, pair : Ret(c, {})))

rollbackHyperMetroPair(a) ==
    Then(GetHyperMetroPair(a, "v"),
    LAMBDA b, pair : IF pair = {} THEN Ret(b, {})
                     ELSE Then(IF The(pair).run # "pause" THEN StopHyperMetroPair(b, "v") ELSE Ret(b, {}),
                          LAMBDA c, x : deleteHyperMetroPair(c)))

DeleteHyperMetro(a) ==
    Then(GetHyperMetroPair(a, "v"),
    LAMBDA b, pair : IF pair = {} THEN Ret(b, {})
                     ELSE Then(IF The(pair).run # "pause" THEN Ignore(StopHyperMetroPair(b, "v")) ELSE Ret(b, {}),
                          LAMBDA c, x : deleteHyperMetroPair(c)))

---------------------------------------------------------------- \* Deletion
DeleteShare(a, s) ==
    Then(GetNfsShareByPath(a, s, "v"), LAMBDA b, sh : IF sh = {} THEN Ret(b, {}) ELSE DeleteNfsShare(b, s, "v"))

DeleteFS(a, s) ==
    Then(GetFileSystemByName(a, s, "v"),
    LAMBDA b, fs : IF fs = {} THEN Ret(b, {})
                   ELSE Then(IF Has(b, <<s, "qos", "v">>) THEN SmartDeleteQos(b, s, "v") ELSE Ret(b, {}),
                        LAMBDA c, x : DeleteFileSystem(c, s, "v")))

deleteLocalFS(a) == Then(DeleteShare(a, "L"), LAMBDA b, x : DeleteFS(b, "L"))

--------------------------------------------------------------- \* Expansion
(* A Dorado V6 array brings the standby file system to the new capacity. *)
expandFS(a, s, p) ==
    IF p.v6 /\ Has(a, <<"L", "pair", "v">>)
    THEN Send(a, [a EXCEPT ![<<"L", "fs", "v">>].cap = p.esize, ![<<"R", "fs", "v">>].cap = p.esize], {})
    ELSE ExtendFileSystem(a, s, "v", p.esize)

preExpandCheckRemoteCapacity(a, p) ==
    Then(GetFileSystemByName(a, "R", "v"),
    LAMBDA b, fs : IF fs = {} THEN Fail(b) ELSE IF p.esize < The(fs).cap THEN Fail(b) ELSE Ret(b, Keys({"remoteFSID"})))

setActiveClient(a, p)            == Ret(a, IF p.v6 /\ p.active = "R" THEN Keys({"remoteActive"}) ELSE NoRes)
getActiveClient(r)               == IF "remoteActive" \in r.has THEN "R" ELSE "L"
expandHyperMetroRemoteFS(a, p, r) == IF "remoteFSID" \in r.has THEN expandFS(a, "R", p) ELSE Fail(a)
expandLocalFS(a, p, r)            == expandFS(a, getActiveClient(r), p)

--------------------------------- \* The operations: the steps each one takes
(* Which creator a request gets.  A clone that exists already is answered  *)
(* without the steps that follow the clone.                                *)
CreateSingle(a, s, p) ==
    IF p.from = "none" THEN createFilesystem(a, s, p.cap)
    ELSE Then(GetFileSystemByName(a, s, "v"), LAMBDA b, fs : IF fs # {} THEN waitFsSplit(b, s, p.wait \/ p.metro) ELSE clone(b, s, p))

CreateVolume(a, p) ==
    LET s     == GetActiveHyperMetroCli(p)
        after == addNfsShareTransactionStep \o addQoSTransactionStep(p)
    IN  CASE p.metro                      -> Ret(a, <<"Create-Active", "Create-Standby", "Create-Pair">> \o after)
          [] ~p.metro /\ p.from = "none"  -> Ret(a, <<"Create-Filesystem">> \o after)
          [] OTHER -> Then(GetFileSystemByName(a, s, "v"),
                      LAMBDA b, fs : IF fs = {} THEN Ret(b, <<"Clone-Filesystem">> \o after)
                                     ELSE Then(waitFsSplit(b, s, p.wait), LAMBDA c, x : Ret(c, <<>>)))

Create(a, p) ==
    Then(commonPreCreate(a),
    LAMBDA b, x : Then(setWorkLoadID(b),
    LAMBDA c, y : Then(selectSnapshotParent(c, p),
    LAMBDA d, z : IF ~p.metro /\ ~p.own THEN Fail(d) ELSE CreateVolume(d, p))))

(* The local file system becomes the active half of a new pair. *)
(* The local file system gives the capacity; one that has a pair is done. *)
getModifySource(a) ==
    Then(getFilesystemByName(a, "L", "v"),
    LAMBDA b, fs : Ret(b, [has |-> IF Has(b, <<"L", "pair", "v">>) THEN {"paired"} ELSE {}, cap |-> The(fs).cap]))
createModifyStandby(a, r) ==
    IF "paired" \in r.has THEN Ret(a, NoRes)
    ELSE NoKeys(Then(GetPoolID(a), LAMBDA b, x : createFilesystem(b, "R", r.cap)))
Modify(a, p) ==
    Then(setWorkLoadID(a), LAMBDA b, x : Ret(b, <<"Get-Modify-Source", "Create-Modify-Standby", "Create-Modify-Pair">>))

Delete(a, p) ==
    Then(GetFileSystemByName(a, "L", "v"),
    LAMBDA b, fs :
        IF fs = {} THEN Ret(b, <<>>)
        ELSE Then(GetFSSnapshotCountByParentId(b, "L", "v"),
             LAMBDA c, n : CASE n > 0 -> Fail(c)
                             [] n = 0 /\ Has(c, <<"L", "pair", "v">>) ->
                                  Ret(c, <<"Set-HyperMetro-ActiveClient", "Delete-HyperMetro-Share", "Delete-HyperMetro",
                                           "Delete-HyperMetro-Remote-FileSystem", "Delete-HyperMetro-Local-FileSystem">>)
                             [] OTHER -> IF p.own THEN Ret(c, <<"Delete-Local-FileSystem">>) ELSE Fail(c)))

assertExpandSize(a, p, cur) == IF p.esize < cur THEN Fail(a) ELSE Ret(a, {})

Expand(a, p) ==
    Then(getFilesystemByName(a, "L", "v"),
    LAMBDA b, fs : Then(assertExpandSize(b, p, The(fs).cap),
    LAMBDA c, x :
        IF Has(c, <<"L", "pair", "v">>)
        THEN Ret(c, <<"Expand-PreCheck-Capacity", "Set-HyperMetro-ActiveClient">>
                    \o (IF ~p.v6 \/ p.active = "R" THEN <<"Expand-Remote-PreCheck-Capacity">> ELSE <<>>)
                    \o (IF ~p.v6 THEN <<"Expand-HyperMetro-Remote-FileSystem">> ELSE <<>>)
                    \o <<"Expand-Local-FileSystem">>)
        ELSE IF p.own THEN Ret(c, <<"Expand-PreCheck-Capacity", "Expand-Local-FileSystem">>) ELSE Fail(c)))

CreateSnapshot(a, p) ==
    Then(getFilesystemByName(a, "L", "v"),
    LAMBDA b, fs :
        LET metro == Has(b, <<"L", "pair", "v">>)
            s     == IF metro THEN GetActiveHyperMetroCli(p) ELSE "L"
        IN  IF ~metro /\ ~p.own THEN Fail(b)
            ELSE Then(IF s = "L" THEN Ret(b, fs) ELSE getFilesystemByName(b, s, "v"),
                 LAMBDA c, x : Then(GetFSSnapshotByName(c, s, "s"),
                 LAMBDA d, snap : Then(IF snap # {} THEN Ret(d, snap) ELSE CreateFSSnapshot(d, s, "s", "v"),
                 LAMBDA e, y : Ret(e, <<>>)))))

DeleteSnapshot(a, p) ==
    LET s == GetActiveHyperMetroCli(p)
    IN  Then(tryGetSnapshotByName(a, p, "s"),
        LAMBDA b, at :
            IF at = {} THEN IF (p.metro \/ p.modify) /\ ~p.own THEN Fail(b) ELSE Ret(b, <<>>)
            ELSE Then(IF at = {s} THEN Ret(b, at) ELSE getActiveSnapshot(b, p, "s", "v"),
                 LAMBDA c, snap : Then(IF snap = {} THEN Ret(c, {}) ELSE DeleteFSSnapshot(c, s, "s"),
                 LAMBDA d, x : Ret(d, <<>>))))

Plan(op, a, p) ==
    CASE op = "Create"         -> Create(a, p)
      [] op = "Delete"         -> Delete(a, p)
      [] op = "Expand"         -> Expand(a, p)
      [] op = "CreateSnapshot" -> CreateSnapshot(a, p)
      [] op = "DeleteSnapshot" -> DeleteSnapshot(a, p)
      [] op = "Modify"         -> Modify(a, p)

(* A rollback of the active creator undoes its own transaction, which is   *)
(* empty when the creator found its clone in place.                        *)
CreateActive(a, s, p) ==
    Then(CreateSingle(a, s, p), LAMBDA b, x : Ret(b, IF p.from # "none" /\ Has(a, <<s, "fs", "v">>) THEN NoRes ELSE Keys({"activeFs"})))

Run(t, a, p, r) ==
    LET s == GetActiveHyperMetroCli(p)
    IN  CASE t = "Create-Filesystem"  -> NoKeys(createFilesystem(a, s, p.cap))
          [] t = "Clone-Filesystem"   -> NoKeys(clone(a, s, p))
          [] t = "Create-Active"      -> CreateActive(a, s, p)
          [] t = "Create-Standby"     -> NoKeys(Then(GetPoolID(a), LAMBDA b, x : createFilesystem(b, GetStandbyHyperMetroCli(p), p.cap)))
          [] t = "Get-Modify-Source"  -> getModifySource(a)
          [] t = "Create-Modify-Standby" -> createModifyStandby(a, r)
          [] t = "Create-Modify-Pair" -> IF "paired" \in r.has THEN Ret(a, NoRes) ELSE NoKeys(createHyperMetroPair(a, p))
          [] t = "Create-Pair"        -> NoKeys(createHyperMetroPair(a, p))
          [] t = "CreateNfsShare"     -> NoKeys(CreateShare(a, s))
          [] t = "AllowShareAccess"   -> NoKeys(AllowShareAccess(a, s))
          [] t = "CreateQoS"          -> NoKeys(SmartCreateQos(a, s, "v", "fs", p.qos))
          [] t = "Set-HyperMetro-ActiveClient" -> setActiveClient(a, p)
          [] t = "Delete-HyperMetro-Share" -> NoKeys(DeleteShare(a, getActiveClient(r)))
          [] t = "Delete-HyperMetro"  -> NoKeys(DeleteHyperMetro(a))
          [] t = "Delete-HyperMetro-Remote-FileSystem" -> NoKeys(DeleteFS(a, "R"))
          [] t = "Delete-HyperMetro-Local-FileSystem"  -> NoKeys(DeleteFS(a, "L"))
          [] t = "Delete-Local-FileSystem" -> NoKeys(deleteLocalFS(a))
          [] t = "Expand-PreCheck-Capacity" -> preExpandCheckCapacity(a)
          [] t = "Expand-Remote-PreCheck-Capacity" -> preExpandCheckRemoteCapacity(a, p)
          [] t = "Expand-HyperMetro-Remote-FileSystem" -> NoKeys(expandHyperMetroRemoteFS(a, p, r))
          [] t = "Expand-Local-FileSystem" -> NoKeys(expandLocalFS(a, p, r))

Back(t, a, p, r) ==
    LET s == GetActiveHyperMetroCli(p)
    IN  CASE t \in {"Create-Filesystem", "Clone-Filesystem"} -> DeleteFileSystem(a, s, "v")
          [] t = "Create-Active"    -> IF "activeFs" \in r.has THEN DeleteFileSystem(a, s, "v") ELSE Ret(a, {})
          [] t = "Create-Standby"   -> DeleteFileSystem(a, GetStandbyHyperMetroCli(p), "v")
          [] t = "Create-Modify-Standby" -> IF "paired" \in r.has THEN Ret(a, {}) ELSE DeleteFileSystem(a, "R", "v")
          [] t \in {"Create-Pair", "Create-Modify-Pair"} -> rollbackHyperMetroPair(a)
          [] t = "CreateNfsShare"   -> DeleteNfsShare(a, s, "v")
          [] t = "AllowShareAccess" -> traverseShareAccesses(a, s)
          [] t = "CreateQoS"        -> SmartDeleteQos(a, s, "v")
          [] OTHER                  -> Ret(a, {})
=============================================================================
