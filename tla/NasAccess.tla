------------------------------ MODULE NasAccess ------------------------------
(***************************************************************************)
(* Publishing a file system or dtree of OceanStor to a node: the node's    *)
(* addresses are clients of the NFS share while the volume is attached,    *)
(* with read-write access, and have no access after it is detached.  A     *)
(* step is one request, as in HostMapping.                                 *)
(***************************************************************************)
EXTENDS Calls

LOCAL Seqs == INSTANCE SequencesExt

Share(s, v) == <<s, "share", v>>

Go(a, steps)  == Ret(a, {steps})
If(c, steps)   == IF c THEN steps ELSE <<>>
On(outs, F(_)) == Then(outs, LAMBDA a, x : Go(a, F(x)))

------------------------------------------------------------------- \* Requests
GetNfsShareByPath(a, s, v) == Ask(a, Obj(a, Share(s, v)))

(* The clients of a share and their access: acc[ip] in {"rw", "none"}. *)
GetNfsShareAccess(a, s, v, ip) ==
    IF Has(a, Share(s, v)) THEN Ask(a, {ip} \cap DOMAIN a[Share(s, v)].acc) ELSE Refuse(a)
Access(acc, ip, val) == [i \in DOMAIN acc \cup {ip} |-> IF i = ip THEN val ELSE acc[i]]
AllowNfsShareAccess(a, s, v, ip, val) ==
    IF Has(a, Share(s, v)) /\ ip \notin DOMAIN a[Share(s, v)].acc
    THEN Change(a, Share(s, v), [acc |-> Access(a[Share(s, v)].acc, ip, val)])
    ELSE Refuse(a)
ModifyNfsShareAccess(a, s, v, ip, val) ==
    IF Has(a, Share(s, v)) THEN Change(a, Share(s, v), [acc |-> Access(a[Share(s, v)].acc, ip, val)]) ELSE Refuse(a)
CheckNfsShareAccessStatus(a, s, v, ip) == \E h \in Obj(a, Share(s, v)) : ip \in DOMAIN h.acc /\ h.acc[ip] = "rw"

------------------------------------------------------------------- \* The code
autoManageAuthClient(a, s, v, ips, val) ==
    Then(GetNfsShareByPath(a, s, v),
    LAMBDA b, x : IF x = {} THEN IF val = "none" THEN Go(b, <<>>) ELSE Fail(b)
                  ELSE LET q == Seqs!SetToSeq(ips) IN Go(b, [k \in DOMAIN q |-> <<"createOrUpdateAuthClient", q[k]>>]))

(* A new client gets the attributes of one the share has, if any. *)
createOrUpdateAuthClient(a, s, v, ip) ==
    On(GetNfsShareAccess(a, s, v, ip),
       LAMBDA c : IF c # {} THEN <<<<"ModifyNfsShareAccess", ip>>>>
                    ELSE <<<<"getExistingAuthClientAttr", ip>>, <<"AllowNfsShareAccess", ip>>>>)
getExistingAuthClientAttr(a) == Ask(a, {<<>>})

(* Waits until no address has access any more, or for its time to run out. *)
(* An array that cannot tell is believed to have none.                     *)
checkAllClientsStatus(a, s, v, ips, p) ==
    IF p.tells /\ \E ip \in ips : CheckNfsShareAccessStatus(a, s, v, ip) THEN Refuse(a) ELSE Ask(a, {<<>>})

(* The addresses of the node that are in the configured networks. *)
FilterIPsByCIDRs(ips, cidrs) == IF cidrs = {} THEN ips ELSE ips \cap UNION cidrs

AttachVolume(p) == If(p.auth, <<<<"getFilteredIPs", "rw">>>>)
DetachVolume(p) == If(p.auth, <<<<"getFilteredIPs", "none">>>> \o If(p.isolate, <<<<"CheckAllClientsStatus", "">>>>))

Run(t, a, s, v, n, op, p) ==
    LET ips == FilterIPsByCIDRs(p.ports[n], p.cidrs)
        val == IF op = "Attach" THEN "rw" ELSE "none"
    IN  CASE t[1] = "getFilteredIPs"            -> autoManageAuthClient(a, s, v, ips, t[2])
          [] t[1] = "createOrUpdateAuthClient"  -> createOrUpdateAuthClient(a, s, v, t[2])
          [] t[1] = "getExistingAuthClientAttr" -> getExistingAuthClientAttr(a)
          [] t[1] = "AllowNfsShareAccess"       -> On(AllowNfsShareAccess(a, s, v, t[2], val), LAMBDA x : <<>>)
          [] t[1] = "ModifyNfsShareAccess"      -> On(ModifyNfsShareAccess(a, s, v, t[2], val), LAMBDA x : <<>>)
          [] t[1] = "CheckAllClientsStatus"     -> checkAllClientsStatus(a, s, v, ips, p)
=============================================================================
