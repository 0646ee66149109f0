----------------------------- MODULE HostMapping -----------------------------
(***************************************************************************)
(* Mapping a LUN of OceanStor to a node.  The array has a host for the     *)
(* node, that the node's initiators belong to; a host group with the host; *)
(* a LUN group with the LUNs of the host; and a mapping view that holds    *)
(* the two groups.  They are found by names made of the host's name or id, *)
(* so the model names them after the node n.                               *)
(*                                                                         *)
(* The controller serves many calls at once, and works request by request: *)
(* an object is looked up by one request and created by the next.  Here an *)
(* operator is ONE request; its outcomes' value is the sequence of steps   *)
(* <<what, arg>> the code goes on with, chosen from what it has just read. *)
(***************************************************************************)
EXTENDS Calls

LOCAL Seqs == INSTANCE SequencesExt

Host(s, n)      == <<s, "host", n>>
Initiator(s, i) == <<s, "initiator", i>>
Mapping(s, n)   == <<s, "mapping", n>>
HostGroup(s, n) == <<s, "hostgroup", n>>
LunGroup(s, n)  == <<s, "lungroup", n>>
Lun(s, v)       == <<s, "lun", v>>

Default    == [mode |-> "0", path |-> "0"]              \* multipath settings
NewHost    == [alua |-> Default]
NewGroup   == [has |-> {}]                              \* of a group and of a mapping
NewPort    == [host |-> "none", on |-> TRUE, alua |-> Default]

Do(what)      == <<what, "">>
Go(a, steps)  == Ret(a, {steps})
If(c, steps)  == IF c THEN steps ELSE <<>>
On(outs, F(_)) == Then(outs, LAMBDA a, x : Go(a, F(x)))

------------------------------------------------------------------- \* Requests
GetHostByName(a, s, n) == Ask(a, Obj(a, Host(s, n)))
CreateHost(a, s, n) == IF Has(a, Host(s, n)) THEN GetHostByName(a, s, n) ELSE New(a, Host(s, n), NewHost)
UpdateHost(a, s, n, alua) == Change(a, Host(s, n), [alua |-> alua])

GetIscsiInitiator(a, s, i)     == Ask(a, Obj(a, Initiator(s, i)))
GetIscsiInitiatorByID(a, s, i) == IF Has(a, Initiator(s, i)) THEN GetIscsiInitiator(a, s, i) ELSE Refuse(a)
AddIscsiInitiator(a, s, i) ==
    IF Has(a, Initiator(s, i)) THEN GetIscsiInitiatorByID(a, s, i) ELSE New(a, Initiator(s, i), NewPort)

(* An initiator that belongs to a host is not moved to another one. *)
Join(a, s, i, n) ==
    IF Has(a, Initiator(s, i)) /\ a[Initiator(s, i)].host \in {"none", n}
    THEN Change(a, Initiator(s, i), [a[Initiator(s, i)] EXCEPT !.host = n])
    ELSE Refuse(a)
AddIscsiInitiatorToHost(a, s, i, n) == Join(a, s, i, n)
UpdateIscsiInitiator(a, s, i, alua) == Change(a, Initiator(s, i), [a[Initiator(s, i)] EXCEPT !.alua = alua])

GetFCInitiator(a, s, w) == Ask(a, Obj(a, Initiator(s, w)))
AddFCInitiatorToHost(a, s, w, n) == Join(a, s, w, n)
UpdateFCInitiator(a, s, w, alua) == Change(a, Initiator(s, w), [a[Initiator(s, w)] EXCEPT !.alua = alua])
GetFCTargetWWNs(a, s, w) == Ask(a, IF \E i \in Obj(a, Initiator(s, w)) : i.on THEN {w} ELSE {})

getInitiatorByID(a, s, i) == Ask(a, Obj(a, Initiator(s, i)))
addInitiator(a, s, i)     == New(a, Initiator(s, i), NewPort)
AddInitiatorToHost(a, s, i, n) == Join(a, s, i, n)

GetMappingByName(a, s, n) == Ask(a, Obj(a, Mapping(s, n)))
CreateMappingView(a, s, n) ==
    IF Has(a, Mapping(s, n)) THEN GetMappingByName(a, s, n) ELSE New(a, Mapping(s, n), NewGroup)

(* Adding what is in a group already, and removing what is not, succeed. *)
Add(a, k, x)    == IF Has(a, k) THEN Send(a, Put(a, k, [has |-> a[k].has \cup {x}]), {}) ELSE Refuse(a)
Leave(a, k, x)  == IF Has(a, k) THEN Send(a, Put(a, k, [has |-> a[k].has \ {x}]), {}) ELSE Refuse(a)
In(a, k, x)     == \E g \in Obj(a, k) : x \in g.has
AddGroupToMapping(a, s, n, group)  == Add(a, Mapping(s, n), group)
QueryAssociateHostGroup(a, k, x)   == Ask(a, {g \in Obj(a, k) : x \in g.has})
GetHostGroupByName(a, s, n)        == Ask(a, Obj(a, HostGroup(s, n)))
CreateHostGroup(a, s, n) ==
    IF Has(a, HostGroup(s, n)) THEN GetHostGroupByName(a, s, n) ELSE New(a, HostGroup(s, n), NewGroup)
AddHostToGroup(a, s, n) == Add(a, HostGroup(s, n), n)

GetLunByName(a, s, v)           == Ask(a, Obj(a, Lun(s, v)))
QueryAssociateLunGroup(a, k, x) == Ask(a, {g \in Obj(a, k) : x \in g.has})
GetLunGroupByName(a, s, n)      == Ask(a, Obj(a, LunGroup(s, n)))
CreateLunGroup(a, s, n) ==
    IF Has(a, LunGroup(s, n)) THEN GetLunGroupByName(a, s, n) ELSE New(a, LunGroup(s, n), NewGroup)
AddLunToGroup(a, s, v, n)       == Add(a, LunGroup(s, n), v)
RemoveLunFromGroup(a, s, v, n)  == Leave(a, LunGroup(s, n), v)

(* What makes the LUN visible to the node's host. *)
Shown(a, s, group, v, n) ==
    /\ In(a, Mapping(s, n), "hostgroup") /\ In(a, HostGroup(s, n), n)
    /\ In(a, Mapping(s, n), group[2]) /\ In(a, group, v)
GetHostLunId(a, s, v, n) == IF Shown(a, s, LunGroup(s, n), v, n) THEN Ask(a, {}) ELSE Refuse(a)

------------------------------------------------------------------ \* Initiators
(* The settings that are configured for the host ("none": not configured), *)
(* compared with those the object had when it was read.                    *)
needUpdateHostOnceSet(h, alua) == h.alua.mode # "0" /\ alua.mode # h.alua.mode
needUpdateHost(h, alua) ==
    /\ alua.mode # "none"
    /\ \/ alua.mode # h.alua.mode
       \/ h.alua.mode # "0" /\ alua.path \notin {"none", h.alua.path}
needUpdateInitiatorAlua(i, alua) ==
    /\ alua.mode # "none"
    /\ \/ alua.mode # i.alua.mode
       \/ i.alua.mode # "0" /\ alua.path \notin {"none", i.alua.path}

(* V6 keeps the settings at the host, earlier arrays at the initiator. *)
HostSettings(h, p)  == If(p.v6 /\ needUpdateHost(The(h), p.alua), <<Do("UpdateHost")>>)
GetHost(a, s, n, p) ==
    On(GetHostByName(a, s, n), LAMBDA h : IF h = {} THEN <<Do("CreateHost")>> ELSE HostSettings(h, p))

(* A free initiator is added to the host; one of another host is an error. *)
Claim(a, i, n, add, update, p) ==
    IF i.host \notin {"none", n} THEN Fail(a)
    ELSE Go(a, If(i.host = "none", <<add>>) \o If(~p.v6 /\ needUpdateInitiatorAlua(i, p.alua), update))

AttachISCSI(a, s, i, n, p) ==
    Then(GetIscsiInitiator(a, s, i),
    LAMBDA b, x : IF x = {} THEN Go(b, <<<<"AddIscsiInitiator", i>>>>)
                  ELSE Claim(b, The(x), n, <<"AddIscsiInitiatorToHost", i>>, <<<<"UpdateIscsiInitiator", i>>>>, p))

AttachNVMe(a, s, i, n, p) ==
    Then(getInitiatorByID(a, s, i),
    LAMBDA b, x : IF x = {} THEN Go(b, <<<<"AddInitiator", i>>>>)
                  ELSE Claim(b, The(x), n, <<"AddInitiatorToHost", i>>, <<>>, p))

(* The ports ws of the node that the array does not see, or that are not   *)
(* online, are passed over; all are read before the first one is added.    *)
AttachFC(a, s, ws, n, p) ==
    LET seen  == {w \in ws : \E i \in Obj(a, Initiator(s, w)) : i.on}
        free  == {w \in seen : a[Initiator(s, w)].host = "none"}
        other == {w \in seen : a[Initiator(s, w)].host \notin {"none", n}}
        stale == {w \in seen : ~p.v6 /\ needUpdateInitiatorAlua(a[Initiator(s, w)], p.alua)}
        step(what, W) == LET q == Seqs!SetToSeq(W) IN [k \in DOMAIN q |-> <<what, q[k]>>]
    IN  IF other # {} THEN Refuse(a)
        ELSE Ask(a, {step("AddFCInitiatorToHost", free) \o step("UpdateFCInitiator", stale)})

(* The targets that go into the publish context. *)
getTargetISCSIProperties(a, portals) == IF "good" \in portals THEN Ask(a, {<<>>}) ELSE Refuse(a)
GetTargetNVMePortals(a, portals) ==
    IF "unsupported" \in portals \/ "good" \notin portals THEN Refuse(a) ELSE Ask(a, {<<>>})
getTargetFCProperties(a, s, ws) ==
    IF \E w \in ws : \E i \in Obj(a, Initiator(s, w)) : i.on THEN Ask(a, {<<>>}) ELSE Refuse(a)
getTargetFCNVMeProperties(a, s, ws) == Ask(a, {<<>>})
GetMappingProperties(a, s, n, p) ==
    CASE p.proto = "iscsi"  -> getTargetISCSIProperties(a, p.portals)
      [] p.proto = "fc"     -> getTargetFCProperties(a, s, p.ports[n])
      [] p.proto = "fcnvme" -> getTargetFCNVMeProperties(a, s, p.ports[n])
      [] p.proto = "nvme"   -> GetTargetNVMePortals(a, p.portals)

--------------------------------------------------------------- \* Map and unmap
CreateMapping(a, s, n) ==
    On(GetMappingByName(a, s, n), LAMBDA m : If(m = {}, <<Do("CreateMappingView")>>))

createHostGroup(a, s, n) ==
    On(QueryAssociateHostGroup(a, HostGroup(s, n), n),
       LAMBDA gs : If(gs = {}, <<Do("GetHostGroupByName"), Do("AddHostToGroup")>>) \o <<Do("addToHostGroupMapping")>>)
addToHostGroupMapping(a, s, n) ==
    On(QueryAssociateHostGroup(a, Mapping(s, n), "hostgroup"), LAMBDA gs : If(gs = {}, <<<<"AddGroupToMapping", "hostgroup">>>>))

createLunGroupUnlessIn(a, s, v, n) ==
    On(QueryAssociateLunGroup(a, LunGroup(s, n), v),
       LAMBDA gs : If(gs = {}, <<Do("GetLunGroupByName"), Do("AddLunToGroup"), Do("addToLUNGroupMapping")>>))
createLunGroup(a, s, v, n) ==
    On(QueryAssociateLunGroup(a, LunGroup(s, n), v),
       LAMBDA gs : If(gs = {}, <<Do("GetLunGroupByName"), Do("AddLunToGroup")>>) \o <<Do("addToLUNGroupMapping")>>)
addToLUNGroupMapping(a, s, n) ==
    On(QueryAssociateLunGroup(a, Mapping(s, n), "lungroup"), LAMBDA gs : If(gs = {}, <<<<"AddGroupToMapping", "lungroup">>>>))

doMapping(a, s, v) ==
    Then(GetLunByName(a, s, v),
    LAMBDA b, l : IF l = {} THEN Fail(b)
                  ELSE Go(b, <<Do("CreateMapping"), Do("CreateHostGroup"), Do("createLunGroup"), Do("GetHostLunId")>>))

doUnmapping(a, s, v) ==
    On(GetLunByName(a, s, v), LAMBDA l : If(l # {}, <<Do("QueryLunGroups")>>))
unmapGroup(a, s, v, n) ==
    On(QueryAssociateLunGroup(a, LunGroup(s, n), v), LAMBDA gs : If(gs # {}, <<Do("RemoveLunFromGroup")>>))

(* The steps of the two operations. *)
Initiators(n, p) == [q \in 1..1 |-> CASE p.proto = "iscsi" -> Do("AttachISCSI")
                                      [] p.proto = "nvme"  -> Do("AttachNVMe")
                                      [] OTHER             -> Do("AttachFC")]
ControllerAttach(n, p) == <<Do("GetHost")>> \o Initiators(n, p) \o <<Do("doMapping"), Do("GetMappingProperties")>>
ControllerDetach(a, s, n) == On(GetHostByName(a, s, n), LAMBDA h : If(h # {}, <<Do("doUnmapping")>>))

(* One step of a call for volume v and node n at site s. *)
Run(t, a, s, v, n, p) ==
    CASE t[1] = "GetHost"                 -> GetHost(a, s, n, p)
      [] t[1] = "CreateHost"              -> On(CreateHost(a, s, n), LAMBDA h : HostSettings(h, p))
      [] t[1] = "UpdateHost"              -> On(UpdateHost(a, s, n, p.alua), LAMBDA x : <<>>)
      [] t[1] = "AttachISCSI"             -> AttachISCSI(a, s, The(p.ports[n]), n, p)
      [] t[1] = "AddIscsiInitiator"       ->
            Then(AddIscsiInitiator(a, s, t[2]),
            LAMBDA b, x : Claim(b, The(x), n, <<"AddIscsiInitiatorToHost", t[2]>>, <<<<"UpdateIscsiInitiator", t[2]>>>>, p))
      [] t[1] = "AddIscsiInitiatorToHost" -> On(AddIscsiInitiatorToHost(a, s, t[2], n), LAMBDA x : <<>>)
      [] t[1] = "UpdateIscsiInitiator"    -> On(UpdateIscsiInitiator(a, s, t[2], p.alua), LAMBDA x : <<>>)
      [] t[1] = "AttachFC"                -> AttachFC(a, s, p.ports[n], n, p)
      [] t[1] = "AddFCInitiatorToHost"    -> On(AddFCInitiatorToHost(a, s, t[2], n), LAMBDA x : <<>>)
      [] t[1] = "UpdateFCInitiator"       -> On(UpdateFCInitiator(a, s, t[2], p.alua), LAMBDA x : <<>>)
      [] t[1] = "AttachNVMe"              -> AttachNVMe(a, s, The(p.ports[n]), n, p)
      [] t[1] = "AddInitiator"            ->
            Then(addInitiator(a, s, t[2]), LAMBDA b, x : Claim(b, The(x), n, <<"AddInitiatorToHost", t[2]>>, <<>>, p))
      [] t[1] = "AddInitiatorToHost"      -> On(AddInitiatorToHost(a, s, t[2], n), LAMBDA x : <<>>)
      [] t[1] = "doMapping"               -> doMapping(a, s, v)
      [] t[1] = "CreateMapping"           -> CreateMapping(a, s, n)
      [] t[1] = "CreateMappingView"       -> On(CreateMappingView(a, s, n), LAMBDA x : <<>>)
      [] t[1] = "CreateHostGroup"         -> createHostGroup(a, s, n)
      [] t[1] = "GetHostGroupByName"      ->
            On(GetHostGroupByName(a, s, n), LAMBDA g : If(g = {}, <<Do("NewHostGroup")>>))
      [] t[1] = "NewHostGroup"            -> On(CreateHostGroup(a, s, n), LAMBDA x : <<>>)
      [] t[1] = "AddHostToGroup"          -> On(AddHostToGroup(a, s, n), LAMBDA x : <<>>)
      [] t[1] = "addToHostGroupMapping"   -> addToHostGroupMapping(a, s, n)
      [] t[1] = "AddGroupToMapping"       -> On(AddGroupToMapping(a, s, n, t[2]), LAMBDA x : <<>>)
      [] t[1] = "createLunGroup"          -> createLunGroup(a, s, v, n)
      [] t[1] = "GetLunGroupByName"       ->
            On(GetLunGroupByName(a, s, n), LAMBDA g : If(g = {}, <<Do("NewLunGroup")>>))
      [] t[1] = "NewLunGroup"             -> On(CreateLunGroup(a, s, n), LAMBDA x : <<>>)
      [] t[1] = "AddLunToGroup"           -> On(AddLunToGroup(a, s, v, n), LAMBDA x : <<>>)
      [] t[1] = "addToLUNGroupMapping"    -> addToLUNGroupMapping(a, s, n)
      [] t[1] = "GetHostLunId"            -> On(GetHostLunId(a, s, v, n), LAMBDA x : <<>>)
      [] t[1] = "GetMappingProperties"    -> GetMappingProperties(a, s, n, p)
      [] t[1] = "ControllerDetach"        -> ControllerDetach(a, s, n)
      [] t[1] = "doUnmapping"             -> doUnmapping(a, s, v)
      [] t[1] = "QueryLunGroups"          -> unmapGroup(a, s, v, n)
      [] t[1] = "RemoveLunFromGroup"      -> On(RemoveLunFromGroup(a, s, v, n), LAMBDA x : <<>>)
=============================================================================
