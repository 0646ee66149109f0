----------------------------- MODULE FusionSan -----------------------------
(***************************************************************************)
(* LUN volumes on FusionStorage / Pacific block storage, with the SmartX   *)
(* QoS helper.  The snapshot a clone is taken from has a random name: it   *)
(* is "tmp", or "tmp2" when an earlier one was left behind (the bound: of  *)
(* those left behind, two are told apart).                                 *)
(***************************************************************************)
EXTENDS FusionArray

RemoveQoS(a) ==
    Then(GetQoSNameByVolume(a, "v"),
    LAMBDA b, q : IF q = {} THEN Ret(b, {})
                  ELSE Then(DisassociateQoSWithVolume(b, "v", The(q)),
                  LAMBDA c, x : Then(GetAssociateCountOfQoS(c, The(q)),
                  LAMBDA d, objs : IF objs # {} THEN Ret(d, {}) ELSE DeleteQoS(d, The(q)))))

AddQoS(a) ==
    Then(CreateQoS(a),
    LAMBDA b, q : OnErr(AssociateQoSWithVolume(b, "v", The(q)), LAMBDA c : RemoveQoS(c)))

preCreate(a) == Then(GetPoolByName(a), LAMBDA b, pool : IF pool = {} THEN Fail(b) ELSE Ret(b, {}))

(* The deferred deletion of the snapshot runs on every return; its error   *)
(* is dropped.                                                             *)
clone(a, p) ==
    LET tmp == IF Has(a, <<"L", "snap", "tmp">>) THEN "tmp2" ELSE "tmp"
    IN  Then(GetVolumeByName(a, "src"),
        LAMBDA b, src : IF src = {} THEN Fail(b) ELSE IF p.cap < The(src).cap THEN Fail(b)
                        ELSE Then(CreateSnapshot(Drop(b, <<"L", "snap", "tmp2">>), tmp, "src"),
        LAMBDA c, x : Then(OnErr(CreateVolumeFromSnapshot(c, "v", p.cap, tmp), LAMBDA e : DeleteSnapshot(e, tmp)),
        LAMBDA d, y : Ignore(DeleteSnapshot(d, tmp)))))

createFromSnapshot(a, p) ==
    Then(GetSnapshotByName(a, "s0"),
    LAMBDA b, s : IF s = {} THEN Fail(b) ELSE IF p.cap < The(s).cap THEN Fail(b)
                  ELSE CreateVolumeFromSnapshot(b, "v", p.cap, "s0"))

createLun(a, p) ==
    Then(GetVolumeByName(a, "v"),
    LAMBDA b, l : Then(CASE l # {} -> Ret(b, {})
                         [] l = {} /\ p.from = "vol"  -> clone(b, p)
                         [] l = {} /\ p.from = "snap" -> createFromSnapshot(b, p)
                         [] OTHER -> CreateVolume(b, "v", p.cap),
    LAMBDA c, x : Ret(c, Keys({"volumeName"}))))

revertLun(a, r) == IF "volumeName" \in r.has THEN DeleteVolume(a, "v") ELSE Ret(a, {})

createQoS(a, p) ==
    IF p.qos = "none" THEN Ret(a, NoRes)
    ELSE Then(GetQoSNameByVolume(a, "v"),
         LAMBDA b, q : NoKeys(IF q # {} THEN Ret(b, {}) ELSE AddQoS(b)))

Create(a) == Then(preCreate(a), LAMBDA b, x : Ret(b, <<"Create-LUN", "Create-QoS">>))

Delete(a) ==
    Then(GetVolumeByName(a, "v"),
    LAMBDA b, l : IF l = {} THEN Ret(b, <<>>)
                  ELSE Then(RemoveQoS(b), LAMBDA c, x : Then(DeleteVolume(c, "v"), LAMBDA d, y : Ret(d, <<>>))))

Expand(a, p) ==
    Then(GetVolumeByName(a, "v"),
    LAMBDA b, l : CASE l = {} -> Fail(b)
                    [] l # {} /\ p.esize = The(l).cap -> Ret(b, <<>>)
                    [] l # {} /\ p.esize < The(l).cap -> Fail(b)
                    [] OTHER -> Ret(b, <<"Expand-PreCheck-Capacity", "Expand-Local-Lun">>))

preExpandCheckCapacity(a) == NoKeys(GetPoolById(a))
expandLocalLun(a, p)      == NoKeys(ExtendVolume(a, "v", p.esize))

createSnapshot(a) == NoKeys(CreateSnapshot(a, "s", "v"))

(* The snapshot is read back after the flow for its time and size. *)
ReadSnapshot(a) == NoKeys(GetSnapshotByName(a, "s"))

TakeSnapshot(a) ==
    Then(GetVolumeByName(a, "v"),
    LAMBDA b, l : IF l = {} THEN Fail(b) ELSE Then(GetSnapshotByName(b, "s"),
    LAMBDA c, s : CASE s = {} -> Ret(c, <<"Create-Snapshot", "Read-Snapshot">>)
                    [] s # {} /\ The(s).of = "v" -> Ret(c, <<>>)
                    [] OTHER -> Fail(c)))

DropSnapshot(a) ==
    Then(GetSnapshotByName(a, "s"),
    LAMBDA b, s : IF s = {} THEN Ret(b, <<>>) ELSE Then(DeleteSnapshot(b, "s"), LAMBDA c, x : Ret(c, <<>>)))

Plan(op, a, p) ==
    CASE op = "Create"         -> Create(a)
      [] op = "Delete"         -> Delete(a)
      [] op = "Expand"         -> Expand(a, p)
      [] op = "CreateSnapshot" -> TakeSnapshot(a)
      [] op = "DeleteSnapshot" -> DropSnapshot(a)

Run(t, a, p, r) ==
    CASE t = "Create-LUN"               -> createLun(a, p)
      [] t = "Create-QoS"               -> createQoS(a, p)
      [] t = "Expand-PreCheck-Capacity" -> preExpandCheckCapacity(a)
      [] t = "Expand-Local-Lun"         -> expandLocalLun(a, p)
      [] t = "Create-Snapshot"          -> createSnapshot(a)
      [] t = "Read-Snapshot"            -> ReadSnapshot(a)

Back(t, a, r) == IF t = "Create-LUN" THEN revertLun(a, r) ELSE Ret(a, {})
============================================================================
