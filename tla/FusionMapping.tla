---------------------------- MODULE FusionMapping ----------------------------
(***************************************************************************)
(* Mapping a volume of FusionStorage to a node: over iSCSI, to a host that *)
(* the node's initiator is a port of; over SCSI, to the management address *)
(* of the node.  A step is one request, as in HostMapping.                 *)
(***************************************************************************)
EXTENDS Calls

Host(s, n)      == <<s, "host", n>>
Initiator(s, i) == <<s, "initiator", i>>
Volume(s, v)    == <<s, "volume", v>>

Do(what)       == <<what, "">>
Go(a, steps)  == Ret(a, {steps})
If(c, steps)   == IF c THEN steps ELSE <<>>
On(outs, F(_)) == Then(outs, LAMBDA a, x : Go(a, F(x)))
Default        == [mode |-> "0", path |-> "0"]

------------------------------------------------------------------- \* Requests
GetHostByName(a, s, n) == Ask(a, Obj(a, Host(s, n)))

(* A host is created with the settings that are configured for it. *)
Settings(alua) == IF alua.mode = "none" THEN Default
                  ELSE [mode |-> alua.mode, path |-> IF alua.path = "none" THEN "0" ELSE alua.path]
CreateHost(a, s, n, alua) ==
    IF Has(a, Host(s, n)) THEN Ask(a, {}) ELSE New(a, Host(s, n), [luns |-> {}, alua |-> Settings(alua)])
UpdateHost(a, s, n, alua) == Change(a, Host(s, n), [a[Host(s, n)] EXCEPT !.alua = Settings(alua)])

GetInitiatorByName(a, s, i) == Ask(a, Obj(a, Initiator(s, i)))
CreateInitiator(a, s, i) ==
    IF Has(a, Initiator(s, i)) THEN Ask(a, {}) ELSE New(a, Initiator(s, i), [host |-> "none"])
QueryHostByPort(a, s, i) == IF Has(a, Initiator(s, i)) THEN Ask(a, {a[Initiator(s, i)].host} \ {"none"}) ELSE Refuse(a)

(* A port that was added to a host already is left where it is. *)
AddPortToHost(a, s, i, n) ==
    IF ~Has(a, Initiator(s, i)) THEN Refuse(a)
    ELSE IF a[Initiator(s, i)].host # "none" THEN Ask(a, {})
    ELSE Change(a, Initiator(s, i), [host |-> n])

QueryHostOfVolume(a, s, v) == Ask(a, {k[3] : k \in {h \in DOMAIN a : h[1] = s /\ h[2] = "host" /\ v \in a[h].luns}})
AddLunToHost(a, s, v, n) ==
    IF Has(a, Host(s, n)) THEN Change(a, Host(s, n), [a[Host(s, n)] EXCEPT !.luns = @ \cup {v}]) ELSE Refuse(a)
DeleteLunFromHost(a, s, v, n) ==
    IF Has(a, Host(s, n)) THEN Change(a, Host(s, n), [a[Host(s, n)] EXCEPT !.luns = @ \ {v}]) ELSE Refuse(a)
GetHostLunId(a) == Ask(a, {})

GetVolumeByName(a, s, v) == Ask(a, Obj(a, Volume(s, v)))
AttachVolume(a, s, v, n) == Change(a, Volume(s, v), [at |-> a[Volume(s, v)].at \cup {n}])
DetachVolume(a, s, v, n) == Change(a, Volume(s, v), [at |-> a[Volume(s, v)].at \ {n}])

------------------------------------------------------------------- \* Attacher
needUpdateIscsiHost(h, alua) ==
    /\ alua.mode # "none"
    /\ \/ alua.mode # h.alua.mode
       \/ h.alua.mode # "0" /\ alua.path \notin {"none", h.alua.path}

createIscsiHost(a, s, n, p) ==
    On(GetHostByName(a, s, n),
       LAMBDA h : IF h = {} THEN <<Do("CreateHost")>>
                  ELSE If(needUpdateIscsiHost(The(h), p.alua), <<Do("UpdateHost")>>))

attachIscsiInitiatorToHost(a, s, i) ==
    On(GetInitiatorByName(a, s, i),
       LAMBDA x : IF x = {} THEN <<<<"CreateInitiator", i>>, <<"AddPortToHost", i>>>>
                  ELSE <<<<"QueryHostByPort", i>>>>)
portOfAnother(a, s, i, n) ==
    Then(QueryHostByPort(a, s, i),
    LAMBDA b, h : IF ~(h \subseteq {n}) THEN Fail(b) ELSE Go(b, If(h = {}, <<<<"AddPortToHost", i>>>>)))

isVolumeAddToHost(a, s, v, n, mapped, unmapped) ==
    On(QueryHostOfVolume(a, s, v), LAMBDA hs : IF n \in hs THEN mapped ELSE unmapped)

(* Configured portals must be active on the array; without any, the array  *)
(* is asked for links, if it can give them.                                *)
getTargetPortalsStatic(a, portals)  == IF "good" \in portals THEN Ask(a, {<<>>}) ELSE Refuse(a)
getTargetPortalsDynamic(a, dynamic) == IF dynamic THEN Ask(a, {<<>>}) ELSE Refuse(a)
getMappingProperties(a, p) ==
    IF p.portals # {} THEN getTargetPortalsStatic(a, p.portals) ELSE getTargetPortalsDynamic(a, p.dynamic)

iSCSIControllerAttach == <<Do("createIscsiHost"), Do("attachIscsiInitiatorToHost"), Do("isVolumeAddToHost"),
                           Do("GetHostLunId"), Do("getMappingProperties")>>
SCSIControllerAttach  == <<Do("AttachVolume")>>

(* A volume that is not there is used all the same: a nil pointer. *)
ControllerAttach(a, s, v, p) ==
    Then(GetVolumeByName(a, s, v),
    LAMBDA b, x : IF x = {} THEN {[st |-> "panic", a |-> b, v |-> {}]}
                  ELSE Ask(b, {IF p.proto = "iscsi" THEN iSCSIControllerAttach ELSE SCSIControllerAttach}))

doUnmapping(a, s, v, p) ==
    Then(GetVolumeByName(a, s, v),
    LAMBDA b, x : IF x = {} THEN Go(b, <<>>)
                  ELSE Ask(b, {IF p.proto = "iscsi" THEN <<Do("QueryHostsToLeave")>> ELSE <<Do("DetachVolume")>>}))

Run(t, a, s, v, n, p) ==
    CASE t[1] = "ControllerAttach"     -> ControllerAttach(a, s, v, p)
      [] t[1] = "createIscsiHost"      -> createIscsiHost(a, s, n, p)
      [] t[1] = "CreateHost"           -> On(CreateHost(a, s, n, p.alua), LAMBDA x : <<>>)
      [] t[1] = "UpdateHost"           -> On(UpdateHost(a, s, n, p.alua), LAMBDA x : <<>>)
      [] t[1] = "attachIscsiInitiatorToHost" -> attachIscsiInitiatorToHost(a, s, The(p.ports[n]))
      [] t[1] = "CreateInitiator"      -> On(CreateInitiator(a, s, t[2]), LAMBDA x : <<>>)
      [] t[1] = "QueryHostByPort"      -> portOfAnother(a, s, t[2], n)
      [] t[1] = "AddPortToHost"        -> On(AddPortToHost(a, s, t[2], n), LAMBDA x : <<>>)
      [] t[1] = "isVolumeAddToHost"    ->
            isVolumeAddToHost(a, s, v, n, <<>>, <<Do("AddLunToHost")>>)
      [] t[1] = "AddLunToHost"         -> On(AddLunToHost(a, s, v, n), LAMBDA x : <<>>)
      [] t[1] = "GetHostLunId"         -> On(GetHostLunId(a), LAMBDA x : <<>>)
      [] t[1] = "getMappingProperties" -> getMappingProperties(a, p)
      [] t[1] = "AttachVolume"         -> On(AttachVolume(a, s, v, n), LAMBDA x : <<>>)
      [] t[1] = "ControllerDetach"     -> doUnmapping(a, s, v, p)
      [] t[1] = "QueryHostsToLeave"    ->
            isVolumeAddToHost(a, s, v, n, <<Do("DeleteLunFromHost")>>, <<>>)
      [] t[1] = "DeleteLunFromHost"    -> On(DeleteLunFromHost(a, s, v, n), LAMBDA x : <<>>)
      [] t[1] = "DetachVolume"         -> On(DetachVolume(a, s, v, n), LAMBDA x : <<>>)
=============================================================================
