---------------------------- MODULE OceanstorSan ----------------------------
(***************************************************************************)
(* LUN volumes on OceanStor and Dorado arrays: the SAN volume operations.  *)
(* Every function of the code is the operator of the same name, over       *)
(* outcome sets (module Calls).                                            *)
(*                                                                         *)
(* The request p: v6 (clone pairs instead of LUN copies), metro, qos       *)
(* ("none", "max", "min": a lower limit raises the I/O priority first),    *)
(* from ("none", "vol", "snap"), cap, and for the expansion esize.         *)
(* The volume is named "v", its source "src", the source snapshot "s0",    *)
(* the snapshot that a LUN copy is taken from "tmp", a new snapshot "s".   *)
(***************************************************************************)
EXTENDS OceanstorVolume

--------------------------------------------------------- \* Waiting for copies
Copied(a) == [a EXCEPT ![<<"L", "lun", "v">>].data = "copied"]

(* A pair that is syncing may finish within the time; one that was never   *)
(* told to sync does not.  A pair that is gone counts as finished.         *)
waitClonePairFinish(a) ==
    Then(GetClonePairInfo(a, "v"),
    LAMBDA b, c :
        IF c = {} THEN Ignore(DeleteClonePair(b, "v"))
        ELSE Fail(b) \cup (IF The(c).sync = "syncing" THEN Ignore(DeleteClonePair(Copied(b), "v")) ELSE {}))

(* Stopped is an error, still copying waits, any other status is finished. *)
waitLunCopyFinish(a) ==
    Then(GetLunCopyByName(a, "v"),
    LAMBDA b, c :
        IF c = {} THEN Ret(b, {})
        ELSE CASE The(c).run = "copying" ->
                    Ret([Copied(b) EXCEPT ![<<"L", "luncopy", "v">>].run = "done"], {}) \cup Fail(b)
               [] The(c).run = "stop" -> Fail(b)
               [] OTHER -> Ret(b, {}) \cup Fail(b))

getLunCopyOfLunID(a) ==
    Then(GetLunByID(a, "L", "v"),
    LAMBDA b, l : IF Has(b, <<"L", "luncopy", "v">>) THEN GetLunCopyByID(b, "v") ELSE Ret(b, {}))

waitCloneFinish(a, p) ==
    IF p.v6 THEN waitClonePairFinish(a)
    ELSE Then(getLunCopyOfLunID(a), LAMBDA b, c : IF c = {} THEN Ret(b, {}) ELSE waitLunCopyFinish(b))

---------------------------------------------------- \* Clone pair, LUN copy
(* Faulty: it is the source that is grown. *)
createClonePairGrown(a, src, srcCap, cap) ==
    Then(CreateClonePair(a, "v", src),
    LAMBDA b, x : Then(IF srcCap < cap THEN ExtendLun(b, "L", src, cap) ELSE Ret(b, {}),
    LAMBDA c, y : Then(SyncClonePair(c, "v"), LAMBDA d, z : waitClonePairFinish(d))))

createClonePair(a, src, srcCap, cap) ==
    Then(CreateClonePair(a, "v", src),
    LAMBDA b, x : Then(IF srcCap < cap
                       THEN OnErr(ExtendLun(b, "L", "v", cap), LAMBDA e : DeleteClonePair(e, "v"))
                       ELSE Ret(b, {}),
    LAMBDA c, y : Then(OnErr(SyncClonePair(c, "v"), LAMBDA e : DeleteClonePair(e, "v")),
    LAMBDA d, z : waitClonePairFinish(d))))

(* The target is created as large as its source and grown to size before   *)
(* the copy; the LUN object answered is the one read before that.          *)
pairInto(a, p, src, srcCap) ==
    IF p.cap < srcCap THEN Fail(a)
    ELSE Then(GetLunByName(a, "L", "v"),
         LAMBDA b, l : Then(IF l = {} THEN CreateLun(b, "L", "v", srcCap) ELSE Ret(b, l),
         LAMBDA c, m : Then(OnErr(createClonePair(c, src, srcCap, p.cap), LAMBDA e : DeleteLun(e, "L", "v")),
         LAMBDA d, x : Ret(d, m))))

clonePair(a, p) ==
    Then(GetLunByName(a, "L", "src"),
    LAMBDA b, src : IF src = {} THEN Fail(b) ELSE pairInto(b, p, "src", The(src).cap))

fromSnapshotByClonePair(a, p) ==
    Then(GetLunSnapshotByName(a, "L", "s0"),
    LAMBDA b, s : IF s = {} THEN Fail(b) ELSE pairInto(b, p, "s0", The(s).cap))

createLunCopy(a, snap) ==
    Then(GetLunCopyByName(a, "v"),
    LAMBDA b, c : Then(IF c = {} THEN CreateLunCopy(b, "v", snap) ELSE Ret(b, c),
    LAMBDA d, x : OnErr(StartLunCopy(d, "v"), LAMBDA e : DeleteLunCopy(e, "v"))))

ensureLUNCopy(a) ==
    Then(OnErr(createLunCopy(a, "tmp"),
               LAMBDA e : Then(Ignore(SmartDeleteLunSnapshot(e, "tmp")), LAMBDA f, x : DeleteLun(f, "L", "v"))),
    LAMBDA b, x : waitLunCopyFinish(b))

deleteLunCopy(a, isDeleteSnapshot) ==
    Then(GetLunCopyByName(a, "v"),
    LAMBDA b, c :
        IF c = {} THEN Ret(b, {})
        ELSE Then(IF The(c).run = "copying" THEN Ignore(StopLunCopy(b, "v")) ELSE Ret(b, {}),
        LAMBDA d, x : Then(DeleteLunCopy(d, "v"),
        LAMBDA e, y : Then(Ignore(GetLunSnapshotByName(e, "L", The(c).src)),
        LAMBDA f, s : IF s # {} /\ isDeleteSnapshot
                      THEN Ignore(SmartDeleteLunSnapshot(f, The(c).src)) ELSE Ret(f, {})))))

lunCopy(a, p) ==
    Then(GetLunByName(a, "L", "src"),
    LAMBDA b, src : IF src = {} THEN Fail(b) ELSE IF p.cap < The(src).cap THEN Fail(b)
                    ELSE Then(GetLunByName(b, "L", "v"),
    LAMBDA c, l : Then(IF l = {} THEN CreateLun(c, "L", "v", p.cap) ELSE Ret(c, l),
    LAMBDA d, m : Then(GetLunSnapshotByName(d, "L", "tmp"),
    LAMBDA e, s : Then(IF s # {} THEN Ret(e, {})
                       ELSE OnErr(SmartCreateLunSnapshot(e, "tmp", "src"), LAMBDA f : DeleteLun(f, "L", "v")),
    LAMBDA f, x : Then(ensureLUNCopy(f),
    LAMBDA g, y : Then(deleteLunCopy(g, TRUE),
    LAMBDA h, z : Ret(h, m))))))))

fromSnapshotByLunCopy(a, p) ==
    Then(GetLunSnapshotByName(a, "L", "s0"),
    LAMBDA b, s : IF s = {} THEN Fail(b) ELSE IF p.cap < The(s).cap THEN Fail(b)
                  ELSE Then(GetLunByName(b, "L", "v"),
    LAMBDA c, l : Then(IF l = {} THEN CreateLun(c, "L", "v", p.cap) ELSE Ret(c, l),
    LAMBDA d, m : Then(OnErr(createLunCopy(d, "s0"), LAMBDA e : DeleteLun(e, "L", "v")),
    LAMBDA e, x : Then(waitLunCopyFinish(e),
    LAMBDA f, y : Then(deleteLunCopy(f, FALSE),
    LAMBDA g, z : Ret(g, m)))))))

clone(a, p)              == IF p.v6 THEN clonePair(a, p) ELSE lunCopy(a, p)
createFromSnapshot(a, p) == IF p.v6 THEN fromSnapshotByClonePair(a, p) ELSE fromSnapshotByLunCopy(a, p)

------------------------------------------------------ \* The tasks of Create
checkLunCapacity(a, p, l) == IF l.cap < p.cap THEN Fail(a) ELSE Ret(a, {})

(* Faulty: the LUN is created without a look-up. *)
createLocalLunAnew(a, p) ==
    Then(CASE p.from = "vol" -> clone(a, p) [] p.from = "snap" -> createFromSnapshot(a, p) [] OTHER -> CreateLun(a, "L", "v", p.cap),
    LAMBDA c, m : Ret(c, [has |-> {"localLunID"}, cap |-> The(m).cap]))

createLocalLun(a, p) ==
    Then(GetLunByName(a, "L", "v"),
    LAMBDA b, l :
        Then(IF l # {}
             THEN Then(checkLunCapacity(b, p, The(l)), LAMBDA c, x : Then(waitCloneFinish(c, p), LAMBDA d, y : Ret(d, l)))
             ELSE CASE p.from = "vol"  -> clone(b, p)
                    [] p.from = "snap" -> createFromSnapshot(b, p)
                    [] OTHER           -> CreateLun(b, "L", "v", p.cap),
        LAMBDA c, m : Ret(c, [has |-> {"localLunID"}, cap |-> The(m).cap])))

revertLocalLun(a, r) == IF "localLunID" \in r.has THEN DeleteLun(a, "L", "v") ELSE Ret(a, {})

(* A LUN that is in a policy already (IOCLASSID) is left in it. *)
createQoS(a, s, p, key) ==
    IF p.qos = "none" THEN Ret(a, NoRes)
    ELSE Then(GetLunByID(a, s, "v"),
         LAMBDA b, l : Then(IF Has(b, <<s, "qos", "v">>) THEN Ret(b, {}) ELSE SmartCreateQos(b, s, "v", "lun", p.qos),
         LAMBDA c, x : Ret(c, Keys({key}))))

createLocalQoS(a, p)     == createQoS(a, "L", p, "localQosID")
createRemoteQoS(a, p, r) == IF "remoteLunID" \in r.has \/ p.qos = "none" THEN createQoS(a, "R", p, "remoteQosID") ELSE Fail(a)

revertLocalQoS(a, r)  == IF {"localLunID", "localQosID"} \subseteq r.has THEN SmartDeleteQos(a, "L", "v") ELSE Ret(a, {})
revertRemoteQoS(a, r) == IF {"remoteLunID", "remoteQosID"} \subseteq r.has THEN SmartDeleteQos(a, "R", "v") ELSE Ret(a, {})

createRemoteLun(a, p, r) ==
    Then(GetLunByName(a, "R", "v"),
    LAMBDA b, l : Then(IF l # {} THEN Ret(b, {})
                       ELSE Then(setWorkLoadID(b),
                            LAMBDA c, x : CreateLun(c, "R", "v", IF p.op = "Modify" THEN r.cap ELSE p.cap)),
    LAMBDA d, y : Ret(d, Keys({"remoteLunID"}))))

revertRemoteLun(a, r) == IF "remoteLunID" \in r.has THEN DeleteLun(a, "R", "v") ELSE Ret(a, {})

------------------------------------------------------------- \* HyperMetro
getHyperMetroParams(a) ==
    Then(getRemotePoolID(a),
    LAMBDA b, x : Then(GetHyperMetroDomainByName(b),
    LAMBDA c, d : IF d = {"normal"} THEN Ret(c, Keys({"remoteCli"})) ELSE Fail(c)))

shouldFirstSync(p) == p.from # "none" \/ p.op = "Modify"

createHyperMetroPair(a, p, pair) ==
    IF pair # {} THEN Ret(a, {})
    ELSE Then(CreateHyperMetroPair(a, "lun", "v", shouldFirstSync(p)),
         LAMBDA b, x : IF shouldFirstSync(p)
                       THEN OnErr(SyncHyperMetroPair(b, "v"), LAMBDA c : DeleteHyperMetroPair(c, "v"))
                       ELSE Ret(b, {}))

Synced(a) == [a EXCEPT ![<<"L", "pair", "v">>].run = "normal",
                       ![<<"R", "lun", "v">>].data = a[<<"L", "lun", "v">>].data]

waitHyperMetroSyncFinish(a) ==
    OnErr(Then(GetHyperMetroPair(a, "v"),
          LAMBDA b, pair :
              IF pair = {} THEN Fail(b)
              ELSE CASE The(pair).run = "normal"  -> Ret(b, {})
                     [] The(pair).run = "syncing" -> Ret(Synced(b), {}) \cup Fail(b)
                     [] OTHER -> Fail(b)),
          LAMBDA c : StopHyperMetroPair(c, "v"))

createHyperMetro(a, p, r) ==
    IF ~({"remoteCli", "localLunID", "remoteLunID"} \subseteq r.has) THEN Fail(a)
    ELSE Then(GetHyperMetroPairByLocalObjID(a, "v"),
         LAMBDA b, pair : Then(createHyperMetroPair(b, p, pair),
         LAMBDA c, x : Then(OnErr(waitHyperMetroSyncFinish(c), LAMBDA d : DeleteHyperMetroPair(d, "v")),
         LAMBDA e, y : Ret(e, Keys({"hyperMetroPairID"})))))

revertHyperMetro(a, r) ==
    IF "hyperMetroPairID" \notin r.has THEN Ret(a, {})
    ELSE Then(Ignore(StopHyperMetroPair(a, "v")), LAMBDA b, x : DeleteHyperMetroPair(b, "v"))

------------------------------------------------------ \* The tasks of Delete
deleteLun(a, s) ==
    Then(GetLunByName(a, s, "v"),
    LAMBDA b, l : IF l = {} THEN Ret(b, {})
                  ELSE Then(IF Has(b, <<s, "qos", "v">>) THEN SmartDeleteQos(b, s, "v") ELSE Ret(b, {}),
                       LAMBDA c, x : DeleteLun(c, s, "v")))

deleteLocalLun(a)            == deleteLun(a, "L")
deleteHyperMetroRemoteLun(a) == deleteLun(a, "R")

deleteHyperMetro(a) ==
    Then(GetHyperMetroPairByLocalObjID(a, "v"),
    LAMBDA b, pair : IF pair = {} THEN Ret(b, {})
                     ELSE Then(IF The(pair).run # "pause" THEN Ignore(StopHyperMetroPair(b, "v")) ELSE Ret(b, {}),
                          LAMBDA c, x : DeleteHyperMetroPair(c, "v")))

deleteLocalLunCopy(a) ==
    Then(getLunCopyOfLunID(a), LAMBDA b, c : IF c = {} THEN Ret(b, {}) ELSE deleteLunCopy(b, TRUE))

deleteLocalHyperCopy(a) ==
    Then(GetClonePairInfo(a, "v"), LAMBDA b, c : IF c = {} THEN Ret(b, {}) ELSE DeleteClonePair(b, "v"))

------------------------------------------------------ \* The tasks of Expand
preExpandHyperMetroCheckRemoteCapacity(a, p) ==
    Then(GetLunByName(a, "R", "v"),
    LAMBDA b, l : IF l = {} THEN Fail(b) ELSE IF p.esize < The(l).cap THEN Fail(b) ELSE Ret(b, Keys({"remoteLunID"})))

suspendHyperMetro(a) ==
    Then(GetHyperMetroPairByLocalObjID(a, "v"),
    LAMBDA b, pair : IF pair = {} THEN Ret(b, NoRes)
                     ELSE Then(IF The(pair).run # "pause" THEN StopHyperMetroPair(b, "v") ELSE Ret(b, {}),
                          LAMBDA c, x : Ret(c, Keys({"hyperMetroPairID"}))))

(* Faulty: an error of the peer's extension is only logged. *)
expandHyperMetroRemoteLunUnchecked(a, p, r) == IF "remoteLunID" \in r.has THEN Ignore(ExtendLun(a, "R", "v", p.esize)) ELSE Fail(a)

expandHyperMetroRemoteLun(a, p, r) == IF "remoteLunID" \in r.has THEN ExtendLun(a, "R", "v", p.esize) ELSE Fail(a)
expandLocalLun(a, p)               == ExtendLun(a, "L", "v", p.esize)
syncHyperMetro(a, r)               == IF "hyperMetroPairID" \in r.has THEN SyncHyperMetroPair(a, "v") ELSE Fail(a)

--------------------------------------------------- \* The tasks on snapshots
waitSnapshotReady(a) ==
    Then(GetLunSnapshotByName(a, "L", "s"), LAMBDA b, s : IF s = {} THEN Fail(b) ELSE Ret(b, {}) \cup Fail(b))

waitHyperMetroSnapReady(a, s) ==
    Then(GetLunSnapshotByName(a, s, "s"),
    LAMBDA b, snap : Fail(b) \cup (IF snap # {} /\ \A x \in snap : x.on THEN Ret(b, {}) ELSE {}))

createSnapshot(a) ==
    Then(CreateLunSnapshot(a, "L", "s", "v"), LAMBDA b, x : Then(waitSnapshotReady(b), LAMBDA c, y : Ret(c, Keys({"snapshotId"}))))
activateSnapshot(a, r) == IF "snapshotId" \in r.has THEN ActivateLunSnapshot(a, "L", "s") ELSE Fail(a)
revertSnapshot(a, r)   == IF "snapshotId" \in r.has THEN DeleteLunSnapshot(a, "L", "s") ELSE Fail(a)

createHyperMetroSnap(a) ==
    Then(GetHyperMetroPairByLocalObjID(a, "v"),
    LAMBDA b, pair : IF pair = {} THEN Fail(b) ELSE Then(CreateHyperMetroSnap(b, "s", "v"),
    LAMBDA c, x : Then(waitHyperMetroSnapReady(c, "L"), LAMBDA d, y : waitHyperMetroSnapReady(d, "R"))))

------------------------------- \* The operations: the tasks that each one adds
Create(a, p) ==
    Then(commonPreCreate(a),
    LAMBDA b, x : Then(setWorkLoadID(b),
    LAMBDA c, y : Ret(c, (IF p.metro THEN <<"Get-HyperMetro-Params">> ELSE <<>>)
                         \o <<"Create-Local-LUN", "Create-Local-QoS">>
                         \o (IF p.metro THEN <<"Create-Remote-LUN", "Create-Remote-QoS", "Create-HyperMetro">> ELSE <<>>))))

(* HASRSSOBJECT of the LUN says which relations it is in. *)
Delete(a) ==
    Then(GetLunByName(a, "L", "v"),
    LAMBDA b, l :
        IF l = {} THEN Ret(b, <<>>)
        ELSE Ret(b, (IF Has(b, <<"L", "pair", "v">>) THEN <<"Delete-HyperMetro", "Delete-HyperMetro-Remote-LUN">> ELSE <<>>)
                    \o (IF Has(b, <<"L", "luncopy", "v">>) THEN <<"Delete-Local-LunCopy">> ELSE <<>>)
                    \o (IF Has(b, <<"L", "clone", "v">>) THEN <<"Delete-Local-HyperCopy">> ELSE <<>>)
                    \o <<"Delete-Local-LUN">>))

Expand(a, p) ==
    Then(GetLunByName(a, "L", "v"),
    LAMBDA b, l :
        CASE l = {} -> Fail(b)
          [] l # {} /\ p.esize = The(l).cap -> Ret(b, <<>>)
          [] l # {} /\ p.esize < The(l).cap -> Fail(b)
          [] OTHER -> LET metro == Has(b, <<"L", "pair", "v">>)
                      IN  Ret(b, <<"Expand-PreCheck-Capacity">>
                                 \o (IF metro THEN <<"Expand-HyperMetro-Remote-PreCheck-Capacity", "Suspend-HyperMetro",
                                                     "Expand-HyperMetro-Remote-LUN">> ELSE <<>>)
                                 \o <<"Expand-Local-Lun">>
                                 \o (IF metro THEN <<"Sync-HyperMetro">> ELSE <<>>)))

CreateSnapshot(a, p) ==
    Then(GetLunByName(a, "L", "v"),
    LAMBDA b, l : IF l = {} THEN Fail(b) ELSE Then(GetLunSnapshotByName(b, "L", "s"),
    LAMBDA c, s : IF s # {} THEN IF The(s).of = "v" THEN Ret(c, <<>>) ELSE Fail(c)
                  ELSE Ret(c, IF p.msnap THEN <<"Create-HyperMetro-Snapshot">> ELSE <<"Create-Snapshot", "Active-Snapshot">>)))

DeleteSnapshot(a) ==
    Then(GetLunSnapshotByName(a, "L", "s"),
    LAMBDA b, s : IF s = {} THEN Ret(b, <<>>) ELSE Then(GetLunSnapshotByName(b, "R", "s"),
    LAMBDA c, t : Ret(c, (IF t # {} THEN <<"Deactivate-HyperMetro-Remote-Snapshot", "Delete-HyperMetro-Remote-Snapshot">>
                          ELSE <<>>) \o <<"Deactivate-Snapshot", "Delete-Snapshot">>)))

getLocalLun(a) ==
    Then(GetLunByName(a, "L", "v"),
    LAMBDA b, l : IF l = {} THEN Fail(b) ELSE Ret(b, [has |-> {"localLunID"}, cap |-> The(l).cap]))

Modify(a) ==
    Then(setWorkLoadID(a),
    LAMBDA b, x : Ret(b, <<"Get-HyperMetro-Params", "Get-Local-LUN", "Create-Remote-LUN", "Create-Remote-QoS", "Create-HyperMetro">>))

Plan(op, a, p) ==
    CASE op = "Create"         -> Create(a, p)
      [] op = "Delete"         -> Delete(a)
      [] op = "Expand"         -> Expand(a, p)
      [] op = "CreateSnapshot" -> CreateSnapshot(a, p)
      [] op = "DeleteSnapshot" -> DeleteSnapshot(a)
      [] op = "Modify"         -> Modify(a)

Run(t, a, p, r) ==
    CASE t = "Get-HyperMetro-Params"          -> getHyperMetroParams(a)
      [] t = "Create-Local-LUN"               -> createLocalLun(a, p)
      [] t = "Create-Local-QoS"               -> createLocalQoS(a, p)
      [] t = "Get-Local-LUN"                  -> getLocalLun(a)
      [] t = "Create-Remote-LUN"              -> createRemoteLun(a, p, r)
      [] t = "Create-Remote-QoS"              -> createRemoteQoS(a, p, r)
      [] t = "Create-HyperMetro"              -> createHyperMetro(a, p, r)
      [] t = "Delete-HyperMetro"              -> NoKeys(deleteHyperMetro(a))
      [] t = "Delete-HyperMetro-Remote-LUN"   -> NoKeys(deleteHyperMetroRemoteLun(a))
      [] t = "Delete-Local-LunCopy"           -> NoKeys(deleteLocalLunCopy(a))
      [] t = "Delete-Local-HyperCopy"         -> NoKeys(deleteLocalHyperCopy(a))
      [] t = "Delete-Local-LUN"               -> NoKeys(deleteLocalLun(a))
      [] t = "Expand-PreCheck-Capacity"       -> preExpandCheckCapacity(a)
      [] t = "Expand-HyperMetro-Remote-PreCheck-Capacity" -> preExpandHyperMetroCheckRemoteCapacity(a, p)
      [] t = "Suspend-HyperMetro"             -> suspendHyperMetro(a)
      [] t = "Expand-HyperMetro-Remote-LUN"   -> NoKeys(expandHyperMetroRemoteLun(a, p, r))
      [] t = "Expand-Local-Lun"               -> NoKeys(expandLocalLun(a, p))
      [] t = "Sync-HyperMetro"                -> NoKeys(syncHyperMetro(a, r))
      [] t = "Create-Snapshot"                -> createSnapshot(a)
      [] t = "Active-Snapshot"                -> NoKeys(activateSnapshot(a, r))
      [] t = "Create-HyperMetro-Snapshot"     -> NoKeys(createHyperMetroSnap(a))
      [] t = "Deactivate-HyperMetro-Remote-Snapshot" -> NoKeys(DeactivateLunSnapshot(a, "R", "s"))
      [] t = "Delete-HyperMetro-Remote-Snapshot"     -> NoKeys(DeleteLunSnapshot(a, "R", "s"))
      [] t = "Deactivate-Snapshot"            -> NoKeys(DeactivateLunSnapshot(a, "L", "s"))
      [] t = "Delete-Snapshot"                -> NoKeys(DeleteLunSnapshot(a, "L", "s"))

Back(t, a, r) ==
    CASE t = "Create-Local-LUN"  -> revertLocalLun(a, r)
      [] t = "Create-Local-QoS"  -> revertLocalQoS(a, r)
      [] t = "Create-Remote-LUN" -> revertRemoteLun(a, r)
      [] t = "Create-Remote-QoS" -> revertRemoteQoS(a, r)
      [] t = "Create-HyperMetro" -> revertHyperMetro(a, r)
      [] t = "Create-Snapshot"   -> revertSnapshot(a, r)
      [] OTHER                   -> Ret(a, {})
=============================================================================
