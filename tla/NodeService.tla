---------------------------- MODULE NodeService ----------------------------
(***************************************************************************)
(* The node plugin: NodeStageVolume, NodePublishVolume, NodeExpandVolume,  *)
(* NodeUnpublishVolume and NodeUnstageVolume of the volumes of a node.     *)
(*                                                                         *)
(* The kubelet makes one call of a volume at a time and repeats it until   *)
(* it succeeds; it may give up a volume that is not staged or published    *)
(* yet, and it may stop waiting for a call, which goes on in the plugin.   *)
(* The plugin may die in any step, and the node may be restarted.  LUNs    *)
(* are mapped to the node before they are staged and unmapped after they   *)
(* are unstaged; the array reuses host LUN ids.  A LUN's WWN is the name   *)
(* of its volume.                                                          *)
(***************************************************************************)
EXTENDS Connectors

CONSTANT Nodes         \* the configurations that are explored

VARIABLES h,           \* the node
          call,        \* the call of each volume
          late,        \* a call the kubelet does not wait for any more
          vol          \* what the orchestrator knows of each volume

vars == <<h, call, late, vol>>

Idle   == [op |-> "none", v |-> "", w |-> "", id |-> 0, todo |-> <<>>, found |-> {}, logins |-> 0,
           disk |-> FALSE, dev |-> NoDev, held |-> FALSE, kept |-> FALSE, size |-> 0]
IsSan(n)    == n.cfg.proto \in {"iscsi", "fc", "nvme", "fcnvme", "scsi"}
Fabric(cfg) == IF cfg.proto \in {"iscsi", "nvme"} THEN {} ELSE cfg.paths
IdOf(n, v)  == IF v \in {n.map[i] : i \in DOMAIN n.map} THEN CHOOSE i \in DOMAIN n.map : n.map[i] = v ELSE 0

---------------------------------------------------------------- \* The handlers
(* What a call does, step by step. *)
StageVolume(n) ==
    CASE n.cfg.proto = "dtree"          -> <<>>
      [] n.cfg.proto \in {"nfs", "nfs+"} -> <<<<"Mount", "share">>>>
      [] OTHER -> <<Do("ClearResidualPath"), Do("CleanDeviceByLunId")>> \o ConnectVolumeCommon
                  \o (IF n.cfg.mode = "block" THEN <<<<"Mount", "block">>>> ELSE <<Do("getFSType")>>)
                  \o <<Do("saveWwnToDisk")>>
UnStageVolume(n) ==
    CASE n.cfg.proto = "dtree"          -> <<>>
      [] n.cfg.proto \in {"nfs", "nfs+"} -> <<<<"umount", "stage">>, Do("removeTargetPath")>>
      [] OTHER                          -> <<Do("getDeviceWwn")>>
ExpandVolume(n) ==
    IF ~IsSan(n) THEN <<>>
    ELSE <<Do("getDeviceWwn"), Do("ResizeBlock")>>
         \o (IF n.cfg.mode = "block" THEN <<>> ELSE <<<<"ResizeMountPath", "pod">>>>)
PublishVolume(n) == <<<<"Mount", IF n.cfg.proto = "dtree" THEN "podshare" ELSE "bind">>>>
UnpublishVolume  == <<<<"umount", "pod">>, Do("removePodPath")>>

NewCall(op, n, v) ==
    [Idle EXCEPT !.op = op, !.v = v, !.w = v, !.id = IdOf(n, v), !.size = n.lun[v].size,
                 !.todo = CASE op = "Stage" -> StageVolume(n) [] op = "Unstage" -> UnStageVolume(n)
                            [] op = "Publish" -> PublishVolume(n) [] op = "Unpublish" -> UnpublishVolume
                            [] op = "Expand" -> ExpandVolume(n)]

(* A staged block volume is unmounted; any other staging path is unmounted *)
(* and removed.                                                            *)
unstageSteps(n, v) ==
    (IF n.cfg.mode = "block" /\ IsMounted(n, Stage(v)) THEN <<<<"umount", "stage">>>>
     ELSE <<<<"umount", "stage">>, Do("removeTargetPath")>>)
    \o DisConnectVolumeCommon \o <<Do("RemoveWwnFile")>>

(* The WWN is read from its file, or else found from the mount and, before *)
(* that is taken away, written down.  A volume whose WWN is not found      *)
(* counts as unstaged.                                                     *)
withWwn(n, j, w) ==
    LET un == j.op = "Unstage"
        k == [j EXCEPT !.w = w]
    IN  CASE ~un /\ w = "" -> Refuse(n)
          [] ~un /\ w # "" -> Go(n, k)
          [] un /\ w = ""  -> Go(n, [k EXCEPT !.todo = <<>>])
          [] un /\ w # ""  -> Try(Ignore(WriteWWNFile(n, j.v, w)), LAMBDA b : Go(b, Push(k, unstageSteps(b, j.v))))
getDeviceWwn(n, j) ==
    UNION {withWwn(n, j, w) : w \in IF n.wwn[j.v] # "" THEN {n.wwn[j.v]}
                                    ELSE GetWwnFromTargetPath(n, j.v, j.op = "Unstage")}

On(outs, j) == Try(outs, LAMBDA b : Go(b, j))
Run(n, j) ==
    LET t == Head(j.todo)
        k == [j EXCEPT !.todo = Tail(@)]
        m == IF t[2] = "pod" THEN Pod(j.v) ELSE Stage(j.v)
    IN  CASE t[1] \in ConnectorSteps       -> ConnectorStep(t, n, k)
          [] t[1] = "ClearResidualPath"    -> On(ClearResidualPath(n, k.w), k)
          [] t[1] = "CleanDeviceByLunId"   -> On(IF n.cfg.mp = "up" THEN CleanDeviceByLunId(n, k.id) ELSE Ret(n, {}), k)
          [] t[1] = "Mount"                -> Mount(n, k, t[2])
          [] t[1] = "mount"                -> mount(n, k, t[2])
          [] t[1] = "umount"               -> On(umount(n, m), k)
          [] t[1] = "getFSType"            -> getFSType(n, k)
          [] t[1] = "IsInFormatting"       -> On(Ask(n, {}), k)
          [] t[1] = "formatDisk"           -> formatDisk(n, k)
          [] t[1] = "ResizeMountPath"      -> ResizeMountPath(n, k, m)
          [] t[1] = "removeTargetPath"     -> On(removeTargetPath(n, k.v), k)
          [] t[1] = "removePodPath"        -> On(IF IsMounted(n, Pod(k.v)) THEN Refuse(n) ELSE Ask(n, {}), k)
          [] t[1] = "saveWwnToDisk"        -> On(WriteWWNFile(n, k.v, k.w), k)
          [] t[1] = "RemoveWwnFile"        -> On(Ignore(RemoveWwnFile(n, k.v)), k)
          [] t[1] = "getDeviceWwn"         -> getDeviceWwn(n, k)
          [] t[1] = "ResizeBlock"          -> ResizeBlock(n, k)
          [] t[1] = "recovered"            -> Panic(n)

------------------------------------------------------------------- \* The calls
Init ==
    /\ \E cfg \in Nodes :
          /\ h = [cfg |-> cfg, map |-> <<>>,
                  lun |-> [v \in cfg.vols |-> IF v \in cfg.old THEN [fs |-> "data", size |-> 1, fsize |-> 1]
                                              ELSE [fs |-> "blank", size |-> 1, fsize |-> 0]],
                  sess |-> Fabric(cfg), dev |-> <<>>, agg |-> <<>>, mnt |-> <<>>,
                  wwn |-> [v \in cfg.vols |-> ""], lock |-> {}, sem |-> [Stage |-> 0, Unstage |-> 0], lost |-> {}]
          /\ call = [v \in cfg.vols |-> Idle] /\ late = [v \in cfg.vols |-> Idle]
          /\ vol = [v \in cfg.vols |-> [st |-> "detached", was |-> FALSE, raced |-> FALSE, assumed |-> FALSE,
                                     kept |-> FALSE, cut |-> FALSE, size |-> 1]]

Vols == DOMAIN vol
Busy(v) == call[v] # Idle

(* ControllerPublishVolume and ControllerUnpublishVolume, on the array; a  *)
(* local SCSI device goes with its attachment.                             *)
Attach(v) ==
    /\ vol[v].st = "detached"
    /\ vol' = [vol EXCEPT ![v].st = "attached", ![v].was = FALSE, ![v].raced = @ \/ late[v] # Idle]
    /\ LET id == CHOOSE i \in 1..Cardinality(Vols) : ~Has(h.map, i) /\ \A k \in 1..(i - 1) : Has(h.map, k)
       IN  h' = [h EXCEPT !.map = Put(@, id, v)]
    /\ UNCHANGED <<call, late>>
Detach(v) ==
    /\ vol[v].st = "attached" /\ ~Busy(v)
    /\ vol' = [vol EXCEPT ![v].st = "detached"]
    /\ LET own == IF h.cfg.proto = "scsi" THEN {n \in DOMAIN h.dev : h.dev[n].wwn = v} ELSE {}
       IN  h' = [Vanish(h, own) EXCEPT !.map = Drop(@, IdOf(h, v))]
    /\ UNCHANGED <<call, late>>

(* The kubelet's calls: op is called in the states from, and the volume is *)
(* then in state during.  A call is raced when one for something else is   *)
(* still at work.                                                          *)
Call(v, op, from, during) ==
    /\ ~Busy(v) /\ vol[v].st \in from
    /\ call' = [call EXCEPT ![v] = NewCall(op, h, v)]
    /\ vol' = [vol EXCEPT ![v].st = during, ![v].was = @ /\ op # "Stage", ![v].assumed = @ /\ op # "Stage",
                          ![v].kept = @ /\ op # "Stage",
                          ![v].raced = @ \/ late[v].op \notin {"none", op}]
    /\ UNCHANGED <<h, late>>
NodeStageVolume(v)     == Call(v, "Stage", {"attached", "staging"}, "staging")
NodeUnstageVolume(v)   == Call(v, "Unstage", {"staging", "staged", "unstaging"}, "unstaging")
NodePublishVolume(v)   == v \in h.cfg.pods /\ Call(v, "Publish", {"staged", "publishing"}, "publishing")
NodeUnpublishVolume(v) == Call(v, "Unpublish", {"publishing", "published", "unpublishing"}, "unpublishing")

(* The LUN has been expanded; the node is told until it has followed. *)
NodeExpandVolume(v) ==
    /\ h.cfg.expand /\ ~Busy(v) /\ vol[v].st = "published"
    /\ h' = [h EXCEPT !.lun[v].size = 2]
    /\ call' = [call EXCEPT ![v] = NewCall("Expand", h', v)]
    /\ UNCHANGED <<late, vol>>

After(op) ==
    CASE op = "Stage" -> "staged" [] op = "Unstage" -> "attached" [] op = "Publish" -> "published"
      [] op = "Unpublish" -> "staged" [] op = "Expand" -> "published"

(* What an outcome o leaves of the call j: an error, and a panic, release  *)
(* the lock first.                                                         *)
Left(j, o) ==
    CASE o.st = "ok"                      -> The(o.v)
      [] o.st = "err" /\ j.held           -> [j EXCEPT !.todo = <<Do("SyncUnlock"), Do("fail")>>]
      [] o.st = "panic" /\ j.held         -> [j EXCEPT !.todo = <<Do("SyncUnlock"), Do("recovered")>>]
      [] OTHER                            -> Idle

(* InitLock: a plugin that starts clears the lock files. *)
Restarted(n) == [n EXCEPT !.lock = {}, !.sem = [Stage |-> 0, Unstage |-> 0]]
NoCalls == [v \in Vols |-> Idle]

(* The volumes that lose their devices when a call of v ends a session, or *)
(* removes what the links of its WWN still name.                           *)
Cut(v, n) ==
    LET gone == DOMAIN h.dev \ DOMAIN n.dev
    IN  {w \in Vols \ {v} :
            \/ n.sess # h.sess /\ (Busy(w) \/ \E d \in gone : h.dev[d].wwn = w)
            \/ gone \cap call[w].found # {} \/ call[w].dev \in {Sd(d) : d \in gone}
            \/ IsMounted(h, Stage(w)) /\ h.mnt[Stage(w)].src \in {Sd(d) : d \in gone}}

(* A panic that RecoverPanic catches is answered with success. *)
Recovered(j, o) == o.st = "panic" /\ ~j.held
Step(v) ==
    LET j == call[v]
    IN  /\ j.todo # <<>>
        /\ \E o \in Run(h, j) :
              /\ h' = IF o.st = "crash" THEN Restarted(o.a) ELSE o.a
              /\ call' = IF o.st = "crash" THEN NoCalls ELSE [call EXCEPT ![v] = Left(j, o)]
              /\ late' = IF o.st = "crash" THEN NoCalls ELSE late
              /\ vol' = [w \in Vols |->
                     [vol[w] EXCEPT !.st = IF w = v /\ Recovered(j, o) THEN After(j.op) ELSE @,
                                    !.assumed = @ \/ (w = v /\ Recovered(j, o)),
                                    !.cut = @ \/ w \in Cut(v, o.a)]]

(* A pod writes to what is mounted for it when its volume is published. *)
Written(n, v) ==
    LET s == n.mnt[Pod(v)].src
        w == IF s = Share(v) THEN v ELSE LunOf(n, s)
    IN  IF ~IsMounted(n, Pod(v)) \/ w = "" THEN n ELSE [n EXCEPT !.lun[w].fs = "data"]
Answer(v) ==
    LET j == call[v]
    IN  /\ Busy(v) /\ j.todo = <<>>
        /\ call' = [call EXCEPT ![v] = Idle]
        /\ vol' = [vol EXCEPT ![v].st = After(j.op), ![v].was = @ \/ j.op = "Stage",
                              ![v].kept = @ \/ j.kept,
                              ![v].size = IF j.op = "Expand" THEN j.size ELSE @]
        /\ h' = IF j.op = "Publish" THEN Written(h, v) ELSE h
        /\ UNCHANGED late

Timeout(v) ==
    /\ h.cfg.late /\ Busy(v) /\ late[v] = Idle /\ call[v].todo # <<>>
    /\ late' = [late EXCEPT ![v] = call[v]] /\ call' = [call EXCEPT ![v] = Idle]
    /\ UNCHANGED <<h, vol>>

LateStep(v) ==
    LET j == late[v]
    IN  /\ j # Idle
        /\ IF j.todo = <<>> THEN late' = [late EXCEPT ![v] = Idle] /\ UNCHANGED <<h, call>>
           ELSE \E o \in Run(h, j) :
                   /\ h' = IF o.st = "crash" THEN Restarted(o.a) ELSE o.a
                   /\ late' = IF o.st = "crash" THEN NoCalls ELSE [late EXCEPT ![v] = Left(j, o)]
                   /\ call' = IF o.st = "crash" THEN NoCalls ELSE call
        /\ UNCHANGED vol

(* multipathd takes in the paths it has not looked at yet, and looks at    *)
(* what they are.                                                          *)
Multipathd ==
    /\ h.cfg.mp = "dm"
    /\ \E n \in DOMAIN h.dev :
          n \notin SlavesOf(h, h.dev[n].wwn) /\ Live(h, n) = h.dev[n].wwn /\ h' = Join(h, n)
    /\ UNCHANGED <<call, late, vol>>

(* The node restarts: devices, sessions and mounts are gone, the WWN files *)
(* stay.                                                                   *)
Reboot ==
    /\ h.cfg.reboot
    /\ h' = [Restarted(h) EXCEPT !.dev = <<>>, !.agg = <<>>, !.mnt = <<>>, !.sess = Fabric(h.cfg)]
    /\ call' = NoCalls /\ late' = NoCalls
    /\ vol' = [v \in Vols |-> IF vol[v].st = "detached" THEN vol[v] ELSE [vol[v] EXCEPT !.st = "attached", !.was = FALSE]]

Next ==
    \/ \E v \in Vols :
          \/ Attach(v) \/ Detach(v)
          \/ NodeStageVolume(v) \/ NodePublishVolume(v) \/ NodeExpandVolume(v)
          \/ NodeUnpublishVolume(v) \/ NodeUnstageVolume(v)
          \/ Step(v) \/ Answer(v) \/ Timeout(v) \/ LateStep(v)
    \/ Multipathd \/ Reboot

Spec == Init /\ [][Next]_vars
----------------------------------------------------------------- \* Properties
(* Every call, device, mount and volume has its type; a permit of a        *)
(* semaphore is held by a call that is between SyncLock and SyncUnlock,    *)
(* and by no other.                                                        *)
TypeOK ==
    /\ h.sess \subseteq h.cfg.paths /\ h.lost \subseteq Vols
    /\ \A n \in DOMAIN h.dev : h.dev[n].wwn \in Vols /\ h.dev[n].path \in h.cfg.paths /\ h.dev[n].size \in 1..2
    /\ \A w \in DOMAIN h.agg : \A n \in h.agg[w].slaves : n \in DOMAIN h.dev /\ h.dev[n].wwn = w
    /\ \A m \in DOMAIN h.mnt : h.mnt[m].n \in 1..2
    /\ \A op \in {"Stage", "Unstage"} :
          /\ h.sem[op] \in 0..h.cfg.threads
          /\ h.sem[op] = Cardinality({x \in Vols \X {1, 2} : LET j == IF x[2] = 1 THEN call[x[1]] ELSE late[x[1]]
                                                             IN  j.held /\ j.op = op})

Calm == \A v \in Vols : ~vol[v].raced /\ ~vol[v].cut
Answered(v) == vol[v].st \in {"staged", "publishing", "published", "unpublishing"}
Staged(v)   == Answered(v) /\ Calm /\ ~vol[v].assumed

(* A staged volume is mounted at its staging path and a published one at   *)
(* the pod's path, from one source, and what that source reaches is the    *)
(* volume's own LUN: host LUN ids and device names that are used again     *)
(* show a pod neither another volume nor, with a filesystem on it, a dead  *)
(* device.  It is not so in three cases, which have names: a staging that  *)
(* panicked was answered with success (assumed, iscsi_helper.go:550); a    *)
(* block volume was staged by accepting the mount of another device that   *)
(* was in place (kept, mount.go:133); and the call of another volume took  *)
(* the device or its session away (cut).                                   *)
StagedIsItsLun ==
    \A v \in Vols :
        Staged(v) /\ h.cfg.proto # "dtree" =>
            /\ IsMounted(h, Stage(v))
            /\ IsSan(h) /\ ~vol[v].kept => Lives(h, h.mnt[Stage(v)].src) \subseteq {v}
            /\ IsSan(h) /\ h.cfg.mode = "mount" => IsDeviceReadable(h, h.mnt[Stage(v)].src)
            /\ vol[v].st = "published" => IsMounted(h, Pod(v)) /\ h.mnt[Pod(v)].src = h.mnt[Stage(v)].src

(* A volume that had been staged and whose unstaging was answered has left *)
(* no mount, and no SCSI device that was discovered as its LUN.            *)
UnstagedIsClean ==
    \A v \in Vols :
        vol[v].st \in {"attached", "detached"} /\ vol[v].was /\ Calm =>
            /\ ~IsMounted(h, Stage(v))
            /\ h.cfg.proto \in {"iscsi", "fc"} => GetDevicesByGUID(h, v) = {}

(* The plugin formats a disk that has files, or removes the files of a     *)
(* volume with the staging path it is mounted on, only after a call for    *)
(* the volume has overlapped with one for the opposite, or a call has lost *)
(* its device to another volume's: repeated calls, crashes and commands    *)
(* that fail between them lose nothing (mountDisk, tryDisConnectVolume of  *)
(* nfs_helper.go).                                                         *)
DataKept == \A v \in h.lost : vol[v].raced \/ \E w \in Vols : vol[w].cut

(* An expansion that the node has answered is there: the staged device and *)
(* the filesystem on it have the new size.                                 *)
ExpandedIsUsable ==
    \A v \in Vols :
        Staged(v) /\ IsSan(h) /\ vol[v].st = "published" /\ ~vol[v].kept /\ IsDeviceReadable(h, h.mnt[Stage(v)].src) =>
            /\ SizeOf(h, h.mnt[Stage(v)].src) >= vol[v].size
            /\ h.cfg.mode = "mount" => h.lun[v].fsize >= vol[v].size

(* The call, or one that repeats it after an error, can succeed. *)
RECURSIVE Ends(_, _, _)
Ends(n, j, tries) ==
    \/ j.todo = <<>>
    \/ \E o \in Run(n, j) : o.st = "ok" /\ Ends(o.a, Left(j, o), tries)
    \/ \E o \in Run(n, j) : o.st = "err" /\ j.held /\ Ends(o.a, Left(j, o), tries)
    \/ tries > 0 /\ \E o \in Run(n, j) : o.st = "err" /\ ~j.held /\ Ends(o.a, NewCall(j.op, o.a, j.v), tries - 1)

(* The node when multipathd has taken in every path. *)
Settled(n) ==
    LET of(w) == {d \in DOMAIN n.dev : n.dev[d].wwn = w /\ Live(n, d) = w}
    IN  IF n.cfg.mp # "dm" THEN n
        ELSE [n EXCEPT !.agg = [w \in DOMAIN @ \cup {w \in Vols : of(w) # {}} |->
                 [slaves |-> SlavesOf(n, w) \cup of(w), size |-> IF Has(n.agg, w) THEN n.agg[w].size ELSE n.dev[The(of(w))].size]]]

(* What is left to the administrator: a device that shows another LUN than *)
(* its links say, a device of the host LUN id that another volume's map    *)
(* has or that is mounted for it, and a mount at the staging path whose    *)
(* device is gone or shows another LUN (an unstaging that did not find the *)
(* WWN leaves it, and counts as done).                                     *)
Manual(n, v) ==
    \/ \E s \in GetDevicesByGUID(n, v) : Foreign(n, s, v)
    \/ \E d \in DOMAIN n.dev : n.dev[d].id = IdOf(n, v) /\ n.dev[d].wwn # v /\ Has(n.agg, n.dev[d].wwn)
    \/ \E d \in DOMAIN n.dev : n.dev[d].id = IdOf(n, v) /\ \E m \in DOMAIN n.mnt : m[2] # v /\ n.mnt[m].src = Sd(d)
    \/ IsMounted(n, Stage(v)) /\ IsSan(n) /\ v \notin Lives(n, n.mnt[Stage(v)].src)

(* So is a WWN whose links name several devices: the residual paths of a   *)
(* block volume are not cleared when it is staged again, and GetVirtual-   *)
(* Device then refuses them all ("physical device not unique").            *)
Ambiguous(n, v) == Cardinality(GetDevicesByGUID(n, v)) > 1

(* Whatever broken-off calls have left on the node, the repeated call can  *)
(* succeed once nothing else is at work.                                   *)
NeverWedged ==
    Calm /\ call = NoCalls /\ late = NoCalls =>
        \A v \in Vols :
            LET n == Settled(h)
            IN  /\ vol[v].st = "staging" /\ ~Manual(n, v) => Ends(n, NewCall("Stage", n, v), 1)
                /\ vol[v].st = "unstaging" /\ ~(h.cfg.mode = "block" /\ Ambiguous(n, v)) => Ends(n, NewCall("Unstage", n, v), 1)
                /\ vol[v].st = "publishing"   => Ends(n, NewCall("Publish", n, v), 1)
                /\ vol[v].st = "unpublishing" => Ends(n, NewCall("Unpublish", n, v), 1)

(* The lock of a WWN lets one call at a time connect or disconnect the LUN *)
(* (waitGetLock).                                                          *)
LockIsExclusive == \A v \in Vols : ~(call[v].held /\ late[v].held)

(* The mount that a repeated staging of a block volume finds in place and  *)
(* accepts is of the same source: it shows no other volume's LUN           *)
(* (BindMountRawBlockDevice, Mount).                                       *)
RestagedFromItsSource ==
    \A v \in Vols : Staged(v) /\ IsSan(h) => Lives(h, h.mnt[Stage(v)].src) \subseteq {v}

(* A pod whose volume was answered as published writes to the volume, not  *)
(* to a directory of the node (RecoverPanic of NodeStageVolume).           *)
PublishedIsNoDirectory ==
    \A v \in Vols : Calm /\ vol[v].st = "published" => IsMounted(h, Pod(v)) /\ h.mnt[Pod(v)].src # Plain
=============================================================================
