-------------------------- MODULE NamespaceMapping --------------------------
(***************************************************************************)
(* Mapping a namespace of OceanDisk to a node: HostMapping, with namespace *)
(* groups in place of LUN groups.  The settings of the host are its access *)
(* mode only.                                                              *)
(***************************************************************************)
EXTENDS HostMapping

Namespace(s, v)      == <<s, "namespace", v>>
NamespaceGroup(s, n) == <<s, "namespacegroup", n>>

GetNamespaceByName(a, s, v)            == Ask(a, Obj(a, Namespace(s, v)))
QueryAssociateNamespaceGroup(a, k, x)  == Ask(a, {g \in Obj(a, k) : x \in g.has})
GetNamespaceGroupByName(a, s, n)       == Ask(a, Obj(a, NamespaceGroup(s, n)))
CreateNamespaceGroup(a, s, n) ==
    IF Has(a, NamespaceGroup(s, n)) THEN GetNamespaceGroupByName(a, s, n)
    ELSE New(a, NamespaceGroup(s, n), NewGroup)
AddNamespaceToGroup(a, s, v, n)        == Add(a, NamespaceGroup(s, n), v)
RemoveNamespaceUnchecked(a, s, v, n)   == Ignore(Leave(a, NamespaceGroup(s, n), v))
RemoveNamespaceFromGroup(a, s, v, n)   == Leave(a, NamespaceGroup(s, n), v)
GetHostNamespaceId(a, s, v, n) == IF Shown(a, s, NamespaceGroup(s, n), v, n) THEN Ask(a, {}) ELSE Refuse(a)

needUpdateDiskHost(h, alua) == alua.mode \notin {"none", h.alua.mode}
DiskHostSettings(h, p) == If(needUpdateDiskHost(The(h), p.alua), <<Do("UpdateHost")>>)

createNamespaceGroup(a, s, v, n) ==
    On(QueryAssociateNamespaceGroup(a, NamespaceGroup(s, n), v),
       LAMBDA gs : If(gs = {}, <<Do("GetNamespaceGroupByName"), Do("AddNamespaceToGroup")>>)
                   \o <<Do("addToNamespaceGroupMapping")>>)
addToNamespaceGroupMapping(a, s, n) ==
    On(QueryAssociateNamespaceGroup(a, Mapping(s, n), "namespacegroup"),
       LAMBDA gs : If(gs = {}, <<<<"AddGroupToMapping", "namespacegroup">>>>))

doMappingNamespace(a, s, v) ==
    Then(GetNamespaceByName(a, s, v),
    LAMBDA b, o : IF o = {} THEN Fail(b)
                  ELSE Go(b, <<Do("CreateMapping"), Do("CreateHostGroup"),
                                Do("createNamespaceGroup"), Do("GetHostNamespaceId")>>))

doUnmappingNamespace(a, s, v) ==
    On(GetNamespaceByName(a, s, v), LAMBDA o : If(o # {}, <<Do("QueryNamespaceGroups")>>))
unmapNamespaceGroup(a, s, v, n) ==
    On(QueryAssociateNamespaceGroup(a, NamespaceGroup(s, n), v),
       LAMBDA gs : If(gs # {}, <<Do("RemoveNamespaceFromGroup")>>))

(* One step; the steps on hosts, initiators and mappings are HostMapping's. *)
RunNamespace(t, a, s, v, n, p) ==
    CASE t[1] = "GetHost"                    ->
            On(GetHostByName(a, s, n), LAMBDA h : IF h = {} THEN <<Do("CreateHost")>> ELSE DiskHostSettings(h, p))
      [] t[1] = "CreateHost"                 -> On(CreateHost(a, s, n), LAMBDA h : DiskHostSettings(h, p))
      [] t[1] = "doMapping"                  -> doMappingNamespace(a, s, v)
      [] t[1] = "createNamespaceGroup"       -> createNamespaceGroup(a, s, v, n)
      [] t[1] = "GetNamespaceGroupByName"    ->
            On(GetNamespaceGroupByName(a, s, n), LAMBDA g : If(g = {}, <<Do("NewNamespaceGroup")>>))
      [] t[1] = "NewNamespaceGroup"          -> On(CreateNamespaceGroup(a, s, n), LAMBDA x : <<>>)
      [] t[1] = "AddNamespaceToGroup"        -> On(AddNamespaceToGroup(a, s, v, n), LAMBDA x : <<>>)
      [] t[1] = "addToNamespaceGroupMapping" -> addToNamespaceGroupMapping(a, s, n)
      [] t[1] = "GetHostNamespaceId"         -> On(GetHostNamespaceId(a, s, v, n), LAMBDA x : <<>>)
      [] t[1] = "doUnmapping"                -> doUnmappingNamespace(a, s, v)
      [] t[1] = "QueryNamespaceGroups"       -> unmapNamespaceGroup(a, s, v, n)
      [] t[1] = "RemoveNamespaceFromGroup"   -> On(RemoveNamespaceFromGroup(a, s, v, n), LAMBDA x : <<>>)
      [] OTHER                               -> Run(t, a, s, v, n, p)
=============================================================================
