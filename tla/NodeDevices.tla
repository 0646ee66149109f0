---------------------------- MODULE NodeDevices ----------------------------
(***************************************************************************)
(* The block devices of a node, as the connectors find, check, resize and  *)
(* remove them.                                                            *)
(*                                                                         *)
(* The node h is a record:                                                 *)
(*   cfg   proto, mp (the multipath software), mode, all (AllPathOnline),  *)
(*         paths, threads, many (several nodes may have a volume)          *)
(*   map   the array's side: which LUN (its WWN) a host LUN id shows       *)
(*   lun   the LUNs: their size, the size of their filesystem and content  *)
(*   sess  the paths (portals, fabrics) that are logged in                 *)
(*   dev   the devices: path, host LUN id, and the WWN and the size noted  *)
(*         when the device was discovered                                  *)
(*   agg   the devices of the multipath software, by WWN                   *)
(*   mnt   the mounts: the source, and how many lie on top of each other   *)
(*   wwn   the WWN files;  lock, sem  the lock files and the semaphores    *)
(*   lost  the LUNs whose content the driver has destroyed                 *)
(* Code that runs on the node is the set of its outcomes (module Calls); a *)
(* call is a record j, whose todo is what is left of its code.             *)
(***************************************************************************)
EXTENDS Calls

Names    == <<"a", "b", "c", "d", "e", "f">>
Sd(n)    == [agg |-> FALSE, name |-> n]
Mp(w)    == [agg |-> TRUE, name |-> w]
NoDev    == Sd("")
Multi(h) == h.cfg.mp # "none"
IsNvme(h) == h.cfg.proto \in {"nvme", "fcnvme"}

Go(h, j)    == Ret(h, {j})
Do(what)    == <<what, "">>
Push(j, ss) == [j EXCEPT !.todo = ss \o @]
Try(outs, F(_)) == Then(outs, LAMBDA h, x : F(h))

----------------------------------------------------------------- \* The kernel
(* What a read of device n returns: the LUN behind its host LUN id NOW.    *)
Live(h, n) ==
    LET d == h.dev[n]
    IN  IF d.path \in h.sess /\ Has(h.map, d.id) THEN h.map[d.id] ELSE ""

SlavesOf(h, w) == IF Has(h.agg, w) THEN h.agg[w].slaves ELSE {}
At(h, path, id) == {n \in DOMAIN h.dev : h.dev[n].path = path /\ h.dev[n].id = id}

(* The LUNs that I/O on a source can reach.  UltraPath fails a path whose  *)
(* LUN is not the one of its virtual device, and the kernel drops an NVMe  *)
(* namespace whose identity changed; device mapper does not look.          *)
Lives(h, s) ==
    LET all == {Live(h, n) : n \in IF s.agg THEN SlavesOf(h, s.name) ELSE {s.name} \cap DOMAIN h.dev} \ {""}
    IN  IF s.agg /\ h.cfg.mp # "dm" THEN all \cap {s.name} ELSE all
IsDeviceReadable(h, s) == Lives(h, s) # {}

(* A name is free when no device has it and no mount still holds it. *)
Mounted(h, s) == \E m \in DOMAIN h.mnt : h.mnt[m].src = s
NewName(h) ==
    LET free == {i \in DOMAIN Names : Names[i] \notin DOMAIN h.dev /\ ~Mounted(h, Sd(Names[i]))}
    IN  Names[CHOOSE i \in free : \A k \in free : i <= k]

Join(h, n) ==
    LET d == h.dev[n]
    IN  [h EXCEPT !.agg = Put(@, d.wwn, [slaves |-> SlavesOf(h, d.wwn) \cup {n},
                                         size |-> IF Has(h.agg, d.wwn) THEN h.agg[d.wwn].size ELSE d.size])]

(* Devices that go.  A virtual device goes with its last path, except one  *)
(* of device mapper, which has to be flushed.                              *)
Vanish(h, ns) ==
    LET agg == [w \in DOMAIN h.agg |-> [h.agg[w] EXCEPT !.slaves = @ \ ns]]
        kept == {w \in DOMAIN agg : h.cfg.mp = "dm" \/ agg[w].slaves # {}}
    IN  [h EXCEPT !.dev = [n \in DOMAIN @ \ ns |-> @[n]], !.agg = [w \in kept |-> agg[w]]]

(* A scan adds the device of a mapped LUN, and leaves alone what is there  *)
(* (of NVMe, what still shows the same namespace); the multipath software  *)
(* takes the new device in at once or later.                               *)
Scan(h, path, id) ==
    LET was == {n \in DOMAIN h.dev : h.dev[n].path = path /\ Live(h, n) # h.dev[n].wwn}
        g == IF IsNvme(h) /\ path \in h.sess THEN Vanish(h, was) ELSE h
        n == NewName(g)
        d == [path |-> path, id |-> id, wwn |-> g.map[id], size |-> g.lun[g.map[id]].size]
        b == [g EXCEPT !.dev = Put(@, n, d)]
    IN  CASE path \notin g.sess \/ ~Has(g.map, id) \/ At(g, path, id) # {} -> {g}
          [] OTHER -> CASE h.cfg.mp = "none" -> {b} [] h.cfg.mp = "dm" -> {b, Join(b, n)} [] OTHER -> {Join(b, n)}

-------------------------------------------------------- \* Finding a device
(* The WWN of a device: asked of the LUN when it can be read, the one that *)
(* was noted at discovery otherwise.                                       *)
GetSCSIWwn(h, n) == IF Live(h, n) # "" THEN Live(h, n) ELSE h.dev[n].wwn

(* The links of /dev/disk/by-id, by the WWN noted at discovery: a virtual  *)
(* device hides its paths, UltraPath hides every path.                     *)
GetDevicesByGUID(h, w) ==
    IF Has(h.agg, w) THEN {Mp(w)}
    ELSE IF h.cfg.mp \in {"up", "upnvme", "native"} THEN {}
    ELSE {Sd(n) : n \in {n \in DOMAIN h.dev : h.dev[n].wwn = w}}

GetVirtualDevice(h, w) ==
    LET found == GetDevicesByGUID(h, w)
    IN  IF Cardinality(found) > 1 THEN Refuse(h) ELSE Ask(h, found)

GetPhysicalDevices(h, s) == IF s.agg THEN SlavesOf(h, s.name) ELSE {s.name}

(* The device has the WWN; every path of a virtual device has. *)
IsDeviceAvailable(h, n, w) == GetSCSIWwn(h, n) = w
findDeviceWWN(h, m) == {GetSCSIWwn(h, n) : n \in SlavesOf(h, m)}
IsMultiPathAvailable(h, m, w) == m = w /\ findDeviceWWN(h, m) = {w}

------------------------------------------------------- \* Removing a device
removeDevices(h, ns) ==
    UNION {LET b == Vanish(h, gone) IN (IF gone = ns THEN Ret(b, {}) ELSE Fail(b)) \cup Die(b) : gone \in SUBSET ns}

FlushDMDevice(h, w) ==
    LET b == [h EXCEPT !.agg = Drop(@, w)]
    IN  IF ~Has(h.agg, w) \/ Mounted(h, Mp(w)) THEN Refuse(h)
        ELSE Ret(b, {}) \cup Fail(h) \cup Die(h) \cup Die(b)

(* The name is returned when the map could not be flushed. *)
removeMultiPathDevice(h, w, ns) ==
    UNION {IF o.st = "crash" THEN {o}
           ELSE Then(removeDevices(o.a, ns), LAMBDA b, x : Ret(b, IF o.st = "err" THEN {w} ELSE {})) : o \in FlushDMDevice(h, w)}

(* The error of a removal is lost in an inner scope for a map of device    *)
(* mapper; a device that is neither is left alone.                         *)
RemoveDevice(h, s) ==
    CASE s.agg /\ h.cfg.mp = "dm" -> Ignore(removeMultiPathDevice(h, s.name, SlavesOf(h, s.name)))
      [] ~s.agg /\ ~IsNvme(h)     -> removeDevices(h, {s.name})
      [] OTHER                    -> Ret(h, {})

(* A path that cannot be deleted is only logged. *)
deletePhysicalDevice(h, ns) == IF IsNvme(h) THEN Ret(h, {}) ELSE Ignore(removeDevices(h, ns))
deleteVirtualDevice(h, w) ==
    LET b == [h EXCEPT !.agg = [x \in DOMAIN @ \ {w} |-> @[x]]] IN Send(h, b, {})
RemoveUltraPathDevice(h, w) ==
    Try(deletePhysicalDevice(h, SlavesOf(h, w)), LAMBDA b : deleteVirtualDevice(b, w))
RemoveUltraPathNVMeDevice(h, w) ==
    Try(Ask(h, {}), LAMBDA b : deletePhysicalDevice(b, SlavesOf(b, w)))

RemoveAllDevice(h, s) ==
    CASE s.agg /\ h.cfg.mp = "up"     -> RemoveUltraPathDevice(h, s.name)
      [] s.agg /\ h.cfg.mp = "upnvme" -> RemoveUltraPathNVMeDevice(h, s.name)
      [] OTHER                        -> RemoveDevice(h, s)

------------------------------------------------- \* What earlier calls left
(* A device by the WWN that cannot be read is removed, and so is one of    *)
(* UltraPath that UltraPath does not list, or lists with another WWN; any  *)
(* other that shows another LUN is left to the administrator.              *)
Residual(h, s, w) ==
    \/ ~IsDeviceReadable(h, s)
    \/ s.agg /\ h.cfg.mp \in {"up", "upnvme"} /\ (~Has(h.agg, w) \/ s.name # w)
Foreign(h, s, w) ==
    /\ IsDeviceReadable(h, s)
    /\ ~IF s.agg THEN h.cfg.mp # "dm" \/ IsMultiPathAvailable(h, s.name, w) ELSE IsDeviceAvailable(h, s.name, w)

RECURSIVE clearResidualPath(_, _, _)
clearResidualPath(h, found, w) ==
    IF found = {} THEN Ret(h, {})
    ELSE LET s == The(found)
             rest(b) == clearResidualPath(b, found \ {s}, w)
         IN  IF Foreign(h, s, w) THEN Refuse(h)
             ELSE IF Residual(h, s, w) THEN Try(RemoveAllDevice(h, s), rest)
             ELSE rest(h)

(* Paths that UltraPath still has of a virtual device that was deleted. *)
clearUltraPathResidualPathByWwn(h, w) ==
    IF h.cfg.mp # "up" \/ Has(h.agg, w) THEN Ret(h, {})
    ELSE deletePhysicalDevice(h, {n \in DOMAIN h.dev : h.dev[n].wwn = w})

(* A device of the host LUN id that UltraPath lists as deleted or as not   *)
(* normal is removed; whatever goes wrong is only logged.                  *)
needClean(h, id) ==
    {w \in {h.dev[n].wwn : n \in {n \in DOMAIN h.dev : h.dev[n].id = id}} : ~IsDeviceReadable(h, Mp(w))}
CleanDeviceByLunId(h, id) ==
    LET clean(w) == IF Has(h.agg, w) THEN RemoveUltraPathDevice(h, w)
                    ELSE deletePhysicalDevice(h, {n \in DOMAIN h.dev : h.dev[n].wwn = w})
    IN  Ret(h, {}) \cup Die(h) \cup UNION {Ignore(clean(w)) : w \in needClean(h, id)}

ClearResidualPath(h, w) ==
    IF h.cfg.mode = "block" THEN Ret(h, {})
    ELSE Try(clearUltraPathResidualPathByWwn(h, w),
         LAMBDA b : Try(Ask(b, {}), LAMBDA c : clearResidualPath(c, GetDevicesByGUID(c, w), w)))

--------------------------------------------------- \* Checking a connection
(* The device is the call's; or it is not, and the call takes it back and  *)
(* fails.                                                                  *)
Found(h, j, s) == Go(h, [j EXCEPT !.dev = s])
TakeBack(h, j) == Go(h, [j EXCEPT !.todo = <<Do("tryDisConnectVolume"), Do("fail")>>])

(* Before CheckConnectSuccess, a device is as good as its link says. *)
VerifySingleDeviceByLink(h, j, n) ==
    IF ~IsDeviceReadable(h, Sd(n)) THEN Refuse(h)
    ELSE IF h.dev[n].wwn = j.w THEN Found(h, j, Sd(n)) ELSE TakeBack(h, j)
VerifySingleDevice(h, j, n) ==
    IF ~IsDeviceReadable(h, Sd(n)) THEN Refuse(h)
    ELSE IF IsDeviceAvailable(h, n, j.w) THEN Found(h, j, Sd(n)) ELSE TakeBack(h, j)

(* Paths that cannot be read are removed first. *)
clearFaultyDevices(h, w) == removeDevices(h, {n \in SlavesOf(h, w) : ~IsDeviceReadable(h, Sd(n))})
VerifyMultiPathDevice(h, j) ==
    IF ~IsDeviceReadable(h, Mp(j.w)) THEN Refuse(h)
    ELSE Try(clearFaultyDevices(h, j.w),
         LAMBDA b : LET wwns == findDeviceWWN(b, j.w)
                    IN  IF Cardinality(wwns) > 1 THEN Fail(b)
                        ELSE IF wwns = {j.w} THEN Found(b, j, Mp(j.w)) ELSE TakeBack(b, j))

(* An incomplete device is taken apart, and so are the paths when no       *)
(* device came up (or multipathd never answered).                          *)
VerifyDeviceAvailableOfDM(h, j) ==
    LET failing(outs) == Try(Ignore(outs), LAMBDA b : Fail(b))
        none == failing(removeDevices(h, j.found \cap DOMAIN h.dev))
    IN  IF ~Has(h.agg, j.w) THEN none
        ELSE none \cup IF ~h.cfg.all \/ Cardinality(SlavesOf(h, j.w)) = j.logins THEN VerifyMultiPathDevice(h, j)
                       ELSE failing(removeMultiPathDevice(h, j.w, SlavesOf(h, j.w)))

(* The state of the virtual device is Normal or Degraded. *)
VerifyDeviceAvailableOfUltraPath(h, j) ==
    IF Has(h.agg, j.w) /\ IsDeviceReadable(h, Mp(j.w)) THEN Found(h, j, Mp(j.w)) \cup Fail(h) ELSE Refuse(h)

------------------------------------------------------------- \* Resizing one
SizeOf(h, s) == IF s.agg THEN h.agg[s.name].size ELSE h.dev[s.name].size
Resized(h, ns) ==
    [h EXCEPT !.dev = [n \in DOMAIN @ |-> IF n \in ns /\ Live(h, n) # "" THEN [@[n] EXCEPT !.size = h.lun[Live(h, n)].size] ELSE @[n]]]

(* Every device is rescanned and only the last one's error is returned. *)
extendBlock(h, ns) ==
    UNION {LET b == Resized(h, done)
           IN  Die(b) \cup (IF done = ns THEN Ret(b, {}) ELSE Fail(b))
                      \cup (IF done # {} THEN Ret(b, {}) ELSE {}) : done \in SUBSET ns}

(* A map does not grow past its smallest path. *)
extendDMBlock(h, w) ==
    LET size == h.lun[w].size
    IN  IF \E n \in SlavesOf(h, w) : h.dev[n].size < size THEN Refuse(h)
        ELSE Send(h, [h EXCEPT !.agg[w].size = size], {})

(* The virtual devices of the other software follow their paths. *)
Follow(h, w) ==
    IF \A n \in SlavesOf(h, w) : h.dev[n].size = h.lun[w].size THEN [h EXCEPT !.agg[w].size = h.lun[w].size] ELSE h
rescanDevice(h, s) ==
    CASE ~s.agg -> extendBlock(h, {s.name})
      [] s.agg /\ h.cfg.mp = "dm" -> Try(extendBlock(h, SlavesOf(h, s.name)), LAMBDA b : extendDMBlock(b, s.name))
      [] OTHER -> Try(extendBlock(h, SlavesOf(h, s.name)), LAMBDA b : Ret(Follow(b, s.name), {}))

(* The call waits, for a while, until the device has the size it wants. *)
ResizeBlockAsked(h, j) ==
    Then(GetVirtualDevice(h, j.w),
         LAMBDA b, found : IF found = {} THEN Fail(b)
                           ELSE IF SizeOf(b, The(found)) >= j.size THEN Go(b, j)
                           ELSE Try(rescanDevice(b, The(found)), LAMBDA c : Go(c, j)))
ResizeBlock(h, j) ==
    Then(GetVirtualDevice(h, j.w),
         LAMBDA b, found : IF found = {} THEN Fail(b)
                           ELSE LET s == The(found)
                                IN  IF SizeOf(b, s) >= j.size THEN Go(b, j)
                                    ELSE Try(rescanDevice(b, s), LAMBDA c : IF SizeOf(c, s) >= j.size THEN Go(c, j) ELSE Fail(c)))
=============================================================================
