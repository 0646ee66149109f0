----------------------------- MODULE Connectors -----------------------------
(***************************************************************************)
(* The connectors of the node plugin: connecting a LUN over iSCSI, Fibre   *)
(* Channel, NVMe, NVMe over Fibre Channel and the local SCSI initiator,    *)
(* and disconnecting it, under the lock of the LUN's WWN.                  *)
(*                                                                         *)
(* Every operator is one step of a call j on the node h (NodeDevices); the *)
(* steps of a call are interleaved with those of other calls.              *)
(***************************************************************************)
EXTENDS NodeDevices

LOCAL Seqs == INSTANCE SequencesExt

Panic(h) == {[st |-> "panic", a |-> h, v |-> {}]}
Each(what, S) == LET s == Seqs!SetToSeq(S) IN [i \in DOMAIN s |-> <<what, s[i]>>]

------------------------------------------------------- \* The lock of a WWN
(* A call that does not get the lock in time removes the lock file, be it  *)
(* another call's.                                                         *)
waitGetLock(h, j) ==
    IF j.w \notin h.lock THEN Go([h EXCEPT !.lock = @ \cup {j.w}], j) ELSE Fail([h EXCEPT !.lock = @ \ {j.w}])

waitGetSemaphore(h, j) ==
    IF h.sem[j.op] < h.cfg.threads THEN Go([h EXCEPT !.sem[j.op] = @ + 1], [j EXCEPT !.held = TRUE])
    ELSE Fail([h EXCEPT !.lock = @ \ {j.w}])

SyncUnlock(h, j) ==
    Go([h EXCEPT !.lock = @ \ {j.w}, !.sem[j.op] = @ - 1], [j EXCEPT !.held = FALSE])

SyncLock == <<Do("waitGetLock"), Do("waitGetSemaphore")>>
ConnectVolumeCommon    == SyncLock \o <<Do("tryConnectVolume"), Do("SyncUnlock")>>
DisConnectVolumeCommon == SyncLock \o <<Do("tryDisConnectVolume"), Do("SyncUnlock")>>

------------------------------------------------------------------- \* Portals
(* Only portals that answer are used.  Without multipath the first one is  *)
(* taken: iSCSI takes it out of an empty list.                             *)
Portals(h, j, none) ==
    UNION {IF R = {} /\ ~(Multi(h) /\ h.cfg.proto = "iscsi") THEN none
           ELSE Go(h, Push(j, Each("connectVol", IF Multi(h) THEN R ELSE {The(R)})
                              \o <<Do("findDevice"), Do("checkDeviceAvailable")>>)) : R \in SUBSET h.cfg.paths}
constructISCSIInfo(h, j) == Portals(h, j, Panic(h))
parseNVMeInfo(h, j)      == Try(Ask(h, {}), LAMBDA b : Portals(b, j, Fail(b)))

------------------------------------------------------------------- \* iSCSI
(* A session that exists is used.  A login whose start-up mode cannot be   *)
(* set counts as failed, and the session stays.                            *)
connectISCSIPortal(h, path) == {h, [h EXCEPT !.sess = @ \cup {path}]}

(* The device of the host LUN id is scanned for; one that is not the LUN   *)
(* is deleted and scanned for again.                                       *)
ClearUnavailableDevice(h, path, j) == Vanish(h, {n \in At(h, path, j.id) : Live(h, n) # j.w})
scanISCSI(h, path, j) ==
    LET clean == ClearUnavailableDevice(h, path, j) IN {h, clean} \cup Scan(clean, path, j.id)
connectVol(h, j, path) ==
    LET k == [j EXCEPT !.logins = @ + 1]
        own(b) == {n \in At(b, path, j.id) : Live(b, n) = j.w}
    IN  UNION {Go(in, j) \cup Die(in) \cup
               (IF path \notin in.sess THEN {}
                ELSE UNION {Die(b) \cup Go(b, [k EXCEPT !.found = @ \cup own(b)]) : b \in scanISCSI(in, path, j)})
                  : in \in connectISCSIPortal(h, path)}

(* The map that has the paths; several maps are all taken apart; without   *)
(* one, multipathd is told of the paths.                                   *)
findDiskOfDM(h, j) ==
    LET maps == {w \in DOMAIN h.agg : h.agg[w].slaves \cap j.found # {}}
        added(b) == IF maps = {} /\ j.found \cap DOMAIN b.dev # {}
                    THEN {Join(b, n) : n \in j.found \cap DOMAIN b.dev} ELSE {}
        gone == [h EXCEPT !.agg = [w \in DOMAIN @ \ maps |-> @[w]]]
    IN  IF Cardinality(maps) > 1
        THEN Try(Ignore(removeDevices(gone, UNION {h.agg[w].slaves : w \in maps})),
                 LAMBDA b : Go(b, [j EXCEPT !.found = {}, !.disk = FALSE]))
        ELSE Go(h, [j EXCEPT !.disk = maps # {}])
             \cup UNION {Go(b, [j EXCEPT !.disk = TRUE]) : b \in added(h)}

(* The virtual device that UltraPath has for the WWN. *)
findDiskOfUltraPath(h, j) == Go(h, [j EXCEPT !.disk = Has(h.agg, j.w)])
findDevice(h, j) ==
    CASE h.cfg.mp = "none" -> Go(h, j)
      [] h.cfg.mp = "dm"   -> findDiskOfDM(h, j)
      [] OTHER             -> findDiskOfUltraPath(h, j)

checkSinglePathAvailable(h, j) ==
    IF j.found \cap DOMAIN h.dev = {} THEN Fail(h) ELSE VerifySingleDevice(h, j, The(j.found \cap DOMAIN h.dev))

checkISCSIDevice(h, j) ==
    CASE h.cfg.mp = "none" -> checkSinglePathAvailable(h, j)
      [] h.cfg.mp # "none" /\ ~j.disk -> Try(Ignore(removeDevices(h, j.found \cap DOMAIN h.dev)), LAMBDA b : Fail(b))
      [] h.cfg.mp = "dm" /\ j.disk -> VerifyDeviceAvailableOfDM(h, j)
      [] OTHER -> VerifyDeviceAvailableOfUltraPath(h, j)

------------------------------------------------------------- \* Fibre Channel
RECURSIVE ScanAll(_, _, _)
ScanAll(h, paths, id) ==
    IF paths = {} THEN {h}
    ELSE LET q == The(paths) IN UNION {ScanAll(b, paths \ {q}, id) : b \in Scan(h, q, id)}

(* The ports that are online; all of them are scanned (the first, without  *)
(* multipath), and a scan that fails is only logged.                       *)
getFcHBAsInfo(h) == (SUBSET h.cfg.paths) \ {{}}
ScannedBy(h, hbas) == IF Multi(h) THEN hbas ELSE {The(hbas)}
rescanHosts(h, hbas, id) == UNION {ScanAll(h, done, id) : done \in SUBSET ScannedBy(h, hbas)}

(* The first device that can be read is taken, whatever it is. *)
waitDeviceDiscovery(h, j) ==
    UNION {LET k == [j EXCEPT !.logins = Cardinality(ScannedBy(h, hbas))]
               seen(b) == {n \in UNION {At(b, q, j.id) : q \in hbas} : IsDeviceReadable(b, Sd(n))}
               found(b) == IF seen(b) = {} THEN Fail(b) ELSE UNION {Go(b, [k EXCEPT !.found = {n}]) : n \in seen(b)}
           IN  UNION {Die(b) \cup found(b) : b \in rescanHosts(h, hbas, j.id)} : hbas \in getFcHBAsInfo(h)}

(* The virtual device, before a scan or after one. *)
waitUltraPathDeviceDiscovery(h, j) ==
    IF IsDeviceReadable(h, Mp(j.w)) THEN Go(h, j) \cup Refuse(h)
    ELSE UNION {Die(b) \cup (IF IsDeviceReadable(b, Mp(j.w)) THEN Go(b, j) ELSE Fail(b))
                   : b \in UNION {rescanHosts(h, hbas, j.id) : hbas \in getFcHBAsInfo(h)}}
scanDevice(h, j) == IF h.cfg.mp \in {"none", "dm"} THEN waitDeviceDiscovery(h, j) ELSE waitUltraPathDeviceDiscovery(h, j)

checkPathAvailable(h, j) ==
    CASE h.cfg.mp = "none" -> checkSinglePathAvailable(h, j)
      [] h.cfg.mp = "dm"   -> VerifyDeviceAvailableOfDM(h, j)
      [] OTHER             -> VerifyDeviceAvailableOfUltraPath(h, j)

------------------------------------------------------------- \* NVMe, FC-NVMe
(* A session that exists is used; an I/O error of the command counts as a  *)
(* login.                                                                  *)
connectPortal(h, path) == {h, [h EXCEPT !.sess = @ \cup {path}]}
scanNVMeDevice(h, path, j) == {h} \cup Scan(h, path, j.id)
connectNVMeVol(h, j, path) ==
    LET k == [j EXCEPT !.logins = @ + 1]
        own(b) == {n \in DOMAIN b.dev : b.dev[n].path = path /\ b.dev[n].wwn = j.w}
    IN  Go(h, j) \cup UNION {Die(in) \cup Go(in, k) \cup
                             UNION {Die(b) \cup Go(b, [k EXCEPT !.found = @ \cup own(b)]) : b \in scanNVMeDevice(in, path, j)}
                                : in \in connectPortal(h, path)}
findNVMeDevice(h, j) == IF Multi(h) THEN Go(h, [j EXCEPT !.disk = Has(h.agg, j.w)]) ELSE Go(h, j)

verifyNVMeDevice(h, j) ==
    LET up == Has(h.agg, j.w)
    IN  CASE h.cfg.mp = "none" -> checkSinglePathAvailable(h, j)
          [] h.cfg.mp # "none" /\ ~(j.disk /\ up) -> Fail(h)
          [] h.cfg.mp = "upnvme" /\ j.disk /\ up -> IF IsDeviceReadable(h, Mp(j.w)) THEN Found(h, j, Mp(j.w)) \cup Fail(h) ELSE Refuse(h)
          [] OTHER -> IF h.cfg.all /\ Cardinality(SlavesOf(h, j.w)) < j.logins THEN Refuse(h) ELSE Found(h, j, Mp(j.w)) \cup Refuse(h)

(* The channels of the fabric are scanned; a device that stays abnormal    *)
(* for five rounds is returned all the same.                               *)
scanChannels(h, j) ==
    UNION {IF b = h THEN Refuse(h) \cup Go(h, j) ELSE Die(b) \cup Go(b, j) : b \in ScanAll(h, h.cfg.paths, j.id)}
getVirtualDevice(h, j) ==
    LET own == {n \in At(h, The(h.cfg.paths), j.id) : GetSCSIWwn(h, n) = j.w}
    IN  CASE Multi(h) -> IF Has(h.agg, j.w) THEN Found(h, j, Mp(j.w)) \cup Fail(h) ELSE Refuse(h)
          [] OTHER    -> IF own = {} THEN Refuse(h) ELSE Found(h, j, Sd(The(own)))

------------------------------------------------------------- \* Local SCSI
(* The device is waited for, and if it does not come the call goes on      *)
(* without one.                                                            *)
waitDevOnline(h, j) ==
    UNION {LET own == {n \in DOMAIN b.dev : b.dev[n].wwn = j.w /\ b.dev[n].id = j.id}
           IN  IF own = {} THEN Go(b, j)
               ELSE Go(b, j) \cup VerifySingleDevice(b, j, The(own)) : b \in {h} \cup ScanAll(h, h.cfg.paths, j.id)}

--------------------------------------------------------------- \* Connecting
tryConnectVolume(h, j) ==
    CASE h.cfg.proto = "iscsi"  -> constructISCSIInfo(h, j)
      [] h.cfg.proto = "nvme"   -> parseNVMeInfo(h, j)
      [] h.cfg.proto = "fc"     -> Try(Ask(h, {}), LAMBDA b : Go(b, Push(j, <<Do("scanDevice"), Do("checkDeviceAvailable")>>)))
      [] h.cfg.proto = "fcnvme" -> Try(Ask(h, {}), LAMBDA b : Go(b, Push(j, <<Do("scanChannels"), Do("getVirtualDevice")>>)))
      [] h.cfg.proto = "scsi"   -> waitDevOnline(h, j)

checkDeviceAvailable(h, j) ==
    CASE h.cfg.proto = "iscsi" -> checkISCSIDevice(h, j)
      [] h.cfg.proto = "fc"    -> checkPathAvailable(h, j)
      [] h.cfg.proto = "nvme"  -> verifyNVMeDevice(h, j)

------------------------------------------------------------ \* Disconnecting
(* The sessions that the paths of a device use. *)
getSessionIds(h, s)   == {h.dev[n].path : n \in GetPhysicalDevices(h, s)}
getSessionPorts(h, s) == {h.dev[n].path : n \in GetPhysicalDevices(h, s)}
SessionsOf(h, s) ==
    CASE h.cfg.proto = "iscsi" -> getSessionIds(h, s) [] h.cfg.proto = "nvme" -> getSessionPorts(h, s) [] OTHER -> {}

(* One pass: remove the device, then log out of the sessions it used that  *)
(* nothing else uses; a map that was not flushed is flushed again.         *)
tryToDisConnectVolume(h, j, again) ==
    Then(GetVirtualDevice(h, j.w),
         LAMBDA b, found :
             IF found = {} THEN Go(b, j)
             ELSE LET s == The(found)
                  IN  Then(RemoveAllDevice(b, s),
                      LAMBDA c, left : Go(c, Push(j, Each("disconnectSessions", SessionsOf(b, s))
                                                     \o (IF left # {} THEN <<Do("FlushDMDevice")>> ELSE <<>>) \o again))))

(* SCSI disks may be aggregated in part: the pass is repeated until there  *)
(* is no device, or the time is over.                                      *)
tryDisConnectVolumeOnce(h, j) ==
    IF h.cfg.proto = "scsi" THEN Go(h, j) ELSE tryToDisConnectVolume(h, j, <<>>)
tryDisConnectVolume(h, j) ==
    CASE h.cfg.proto = "scsi" -> Go(h, j)
      [] IsNvme(h)            -> tryToDisConnectVolume(h, j, <<>>)
      [] OTHER                -> tryToDisConnectVolume(h, j, <<Do("tryDisConnectVolume")>>) \cup Fail(h)

(* The devices of a session are counted here and the session ended later.  *)
(* For NVMe, the namespace itself still counts.                            *)
buildCheckSessionCmd(h, path) == \E n \in DOMAIN h.dev : h.dev[n].path = path
NVMeSessionInUse(h, path)     == Cardinality({n \in DOMAIN h.dev : h.dev[n].path = path}) > 1
disconnectSessions(h, j, path) ==
    LET used == IF IsNvme(h) THEN NVMeSessionInUse(h, path) ELSE buildCheckSessionCmd(h, path)
    IN  Try(Ask(h, {}), LAMBDA b : Go(b, IF used THEN j ELSE Push(j, <<<<"disconnectPortal", path>>>>)))

(* A logout that fails is only logged. *)
disconnectPortal(h, j, path) ==
    LET out == [Vanish(h, {n \in DOMAIN h.dev : h.dev[n].path = path}) EXCEPT !.sess = @ \ {path}]
    IN  Go(out, j) \cup Go(h, j) \cup Die(h) \cup Die(out)

ConnectorStep(t, h, j) ==
    CASE t[1] = "waitGetLock"          -> waitGetLock(h, j)
      [] t[1] = "waitGetSemaphore"     -> waitGetSemaphore(h, j)
      [] t[1] = "SyncUnlock"           -> SyncUnlock(h, j)
      [] t[1] = "tryConnectVolume"     -> tryConnectVolume(h, j)
      [] t[1] = "connectVol"           -> IF IsNvme(h) THEN connectNVMeVol(h, j, t[2]) ELSE connectVol(h, j, t[2])
      [] t[1] = "findDevice"           -> IF IsNvme(h) THEN findNVMeDevice(h, j) ELSE findDevice(h, j)
      [] t[1] = "checkDeviceAvailable" -> checkDeviceAvailable(h, j)
      [] t[1] = "scanDevice"           -> scanDevice(h, j)
      [] t[1] = "scanChannels"         -> scanChannels(h, j)
      [] t[1] = "getVirtualDevice"     -> getVirtualDevice(h, j)
      [] t[1] = "tryDisConnectVolume"  -> tryDisConnectVolume(h, j)
      [] t[1] = "disconnectSessions"   -> disconnectSessions(h, j, t[2])
      [] t[1] = "disconnectPortal"     -> disconnectPortal(h, j, t[2])
      [] t[1] = "FlushDMDevice"        -> Try(FlushDMDevice(h, j.w), LAMBDA b : Go(b, j))
      [] t[1] = "fail"                 -> Fail(h)
ConnectorSteps == {"waitGetLock", "waitGetSemaphore", "SyncUnlock", "tryConnectVolume", "connectVol", "findDevice",
                   "checkDeviceAvailable", "scanDevice", "scanChannels", "getVirtualDevice", "tryDisConnectVolume",
                   "disconnectSessions", "disconnectPortal", "FlushDMDevice", "fail"}

(***************************************************************************)
(* Mounting on a node: filesystems on LUNs, shares, raw block devices, and *)
(* the files in which the plugin keeps the WWN of a staged volume.         *)
(*                                                                         *)
(* A volume has two mount points: "stage" (the staging path; for a block   *)
(* volume the file below it) and "pod" (the target path).                  *)
(***************************************************************************)
Stage(v) == <<"stage", v>>
Pod(v)   == <<"pod", v>>
Share(v) == Sd(v)
Plain    == Sd("dir")            \* a directory of the node's own disk
IsMounted(h, m) == Has(h.mnt, m)

(* The LUN whose content a source shows. *)
LunOf(h, s) == IF Lives(h, s) = {} THEN "" ELSE The(Lives(h, s))

------------------------------------------------------------------- \* Mount
(* The kinds of mounts: a disk with a filesystem, a block device, a share, *)
(* the staged volume for a pod, and a share for a pod.                     *)
Place(j, kind)     == IF kind \in {"bind", "podshare"} THEN Pod(j.v) ELSE Stage(j.v)
Source(h, j, kind) ==
    CASE kind \in {"disk", "block"}     -> j.dev
      [] kind \in {"share", "podshare"} -> Share(j.v)
      [] kind = "bind" -> IF IsMounted(h, Stage(j.v)) THEN h.mnt[Stage(j.v)].src ELSE Plain

(* The kernel refuses to mount a filesystem twice in one place; bind       *)
(* mounts lie on top of each other, two at most.                           *)
mountLeniently(h, j, kind) ==
    LET m == Place(j, kind)
        on == IF IsMounted(h, m) THEN [h.mnt[m] EXCEPT !.n = 2] ELSE [src |-> Source(h, j, kind), n |-> 1]
    IN  IF \/ IsMounted(h, m) /\ kind \notin {"block", "bind"}
           \/ kind \in {"disk", "block"} /\ ~IsDeviceReadable(h, j.dev) THEN Go(h, j)
        ELSE Try(Ignore(Send(h, [h EXCEPT !.mnt = Put(@, m, on)], {})), LAMBDA b : Go(b, j))
mount(h, j, kind) ==
    LET m == Place(j, kind)
        on == IF IsMounted(h, m) THEN [h.mnt[m] EXCEPT !.n = 2] ELSE [src |-> Source(h, j, kind), n |-> 1]
    IN  IF \/ IsMounted(h, m) /\ kind \notin {"block", "bind"}
           \/ kind \in {"disk", "block"} /\ ~IsDeviceReadable(h, j.dev) THEN Refuse(h)
        ELSE Try(Send(h, [h EXCEPT !.mnt = Put(@, m, on)], {}), LAMBDA b : Go(b, j))

(* What is mounted already is left alone: a disk when it is the same disk  *)
(* and can be read, anything else when it is in the volume's own place.    *)
compareMountPath(h, m, s) ==
    IF IsDeviceReadable(h, h.mnt[m].src) /\ h.mnt[m].src = s THEN Ask(h, {}) ELSE Refuse(h)
Mount(h, j, kind) ==
    IF ~IsMounted(h, Place(j, kind)) THEN Go(h, Push(j, <<<<"mount", kind>>>>))
    ELSE Try(IF kind = "disk" THEN compareMountPath(h, Place(j, kind), j.dev) ELSE Ask(h, {}),
             LAMBDA b : Go(b, [j EXCEPT !.kept = kind = "block" /\ h.mnt[Stage(j.v)].src # j.dev]))

umountLeniently(h, m) ==
    LET less == IF h.mnt[m].n = 1 THEN Drop(h.mnt, m) ELSE [h.mnt EXCEPT ![m].n = @ - 1]
    IN  IF IsMounted(h, m) THEN Ignore(Send(h, [h EXCEPT !.mnt = less], {})) ELSE Ask(h, {})
umount(h, m) ==
    LET less == IF h.mnt[m].n = 1 THEN Drop(h.mnt, m) ELSE [h.mnt EXCEPT ![m].n = @ - 1]
    IN  IF IsMounted(h, m) THEN Send(h, [h EXCEPT !.mnt = less], {}) ELSE Ask(h, {})

(* The path is removed with everything below it, which is the content of   *)
(* the volume while it is mounted there.                                   *)
removeTargetPath(h, v) ==
    IF ~IsMounted(h, Stage(v)) THEN Ask(h, {})
    ELSE Fail([h EXCEPT !.lost = IF h.lun[v].fs = "data" THEN @ \cup {v} ELSE @])

--------------------------------------------------------- \* A disk with a filesystem
(* A disk without a filesystem is formatted if it is blank; one that is    *)
(* formatted is mounted as it is and its filesystem grown, unless several  *)
(* nodes may have it.                                                      *)
getFSType(h, j) ==
    IF LunOf(h, j.dev) = "" THEN Refuse(h)
    ELSE CASE h.lun[LunOf(h, j.dev)].fs = "blank" -> Ask(h, {[j EXCEPT !.todo = <<Do("IsInFormatting"), Do("formatDisk"), <<"Mount", "disk">>>> \o @]})
           [] OTHER -> Ask(h, {[j EXCEPT !.todo = <<<<"Mount", "disk">>>>
                                    \o (IF h.cfg.many THEN <<>> ELSE <<<<"ResizeMountPath", "stage">>>>) \o @]})

(* mkfs refuses a disk in use. *)
formatDisk(h, j) ==
    LET w == LunOf(h, j.dev)
    IN  IF w = "" \/ Mounted(h, j.dev) THEN Refuse(h)
        ELSE Try(Send(h, [h EXCEPT !.lun[w].fs = "fs", !.lun[w].fsize = h.lun[w].size,
                                   !.lost = IF h.lun[w].fs = "data" THEN @ \cup {w} ELSE @], {}),
                 LAMBDA b : Go(b, j))

(* The filesystem takes the size of the device it is mounted from.  Where  *)
(* nothing is mounted the filesystem around the path is found, which has   *)
(* its size; a device without a filesystem is passed over, or is an error. *)
ResizeMountPath(h, j, m) ==
    LET s == h.mnt[m].src
        w == LunOf(h, s)
    IN  IF ~IsMounted(h, m) THEN Ask(h, {j})
        ELSE IF w = "" THEN Refuse(h)
        ELSE IF h.lun[w].fs = "blank" THEN Ask(h, {j})
        ELSE Try(Send(h, [h EXCEPT !.lun[w].fsize = IF SizeOf(h, s) > @ THEN SizeOf(h, s) ELSE @], {}), LAMBDA b : Go(b, j))

--------------------------------------------------------------- \* WWN files
WriteWWNFile(h, v, w) == Send(h, [h EXCEPT !.wwn[v] = w], {})
RemoveWwnFile(h, v)   == Send(h, [h EXCEPT !.wwn[v] = ""], {})

(* What a device says its WWN is: UltraPath knows its own; a map of device *)
(* mapper and a namespace are asked now and say nothing when they cannot   *)
(* be read.                                                                *)
GetWwnByDevice(h, s) ==
    CASE s.agg /\ h.cfg.mp \in {"up", "upnvme"} -> {s.name}
      [] s.agg /\ h.cfg.mp \in {"dm", "native"}  -> Lives(h, s)
      [] ~s.agg /\ IsNvme(h)                     -> Lives(h, s)
      [] OTHER -> {GetSCSIWwn(h, n) : n \in {s.name} \cap DOMAIN h.dev}

(* From the mount of the staging path, if no command fails; a device that  *)
(* is mounted in several places is not looked at when it is to be removed. *)
GetWwnFromTargetPath(h, v, checkDevRef) ==
    LET s == h.mnt[Stage(v)].src
        places == {m \in DOMAIN h.mnt : h.mnt[m].src = s}
    IN  IF \/ h.cfg.mode = "block" \/ ~IsMounted(h, Stage(v))
           \/ checkDevRef /\ Cardinality(places) > 1 THEN {""}
        ELSE {""} \cup GetWwnByDevice(h, s)
=============================================================================
