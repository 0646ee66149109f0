------------------------------- MODULE Publish -------------------------------
(***************************************************************************)
(* Attaching volumes to nodes.  For every attachment <<volume, node>> the  *)
(* orchestrator's attacher calls ControllerPublishVolume until it succeeds *)
(* and later ControllerUnpublishVolume until that succeeds, one call of an *)
(* attachment at a time; calls of different attachments overlap, request   *)
(* by request.  The attacher may give up waiting for a call, which goes on *)
(* in the driver all the same, and call again.                             *)
(*                                                                         *)
(* Meanwhile the nodes' plugins start and save what the controller needs   *)
(* to know of them (initiators, addresses) in a secret, and the driver's   *)
(* periodic update of a backend notes whether its array can be reached.    *)
(***************************************************************************)
EXTENDS Calls

CONSTANT Scenarios     \* the configurations p that are explored

VARIABLES p,           \* the configuration
          arr,         \* the arrays
          online,      \* storageOnline of the plugin of each site
          call,        \* the call of each attachment
          late,        \* a call the attacher does not wait for any more
          va,          \* what the orchestrator knows of each attachment
          secret,      \* the nodes whose data each secret holds
          reg          \* a node's plugin, saving its data

vars == <<p, arr, online, call, late, va, secret, reg>>

Lun  == INSTANCE HostMapping
Disk == INSTANCE NamespaceMapping
Fus  == INSTANCE FusionMapping
Nas  == INSTANCE NasAccess

MaxConflicts == 5      \* retry.DefaultRetry

Go(a, steps) == Ret(a, {steps})
Panic(a)   == {[st |-> "panic", a |-> a, v |-> {}]}
At(s, steps) == [i \in DOMAIN steps |-> <<s, steps[i][1], steps[i][2]>>]
Idle       == [op |-> "none", todo |-> <<>>, cli |-> {}, at |-> {}]
Detached   == [st |-> "detached", at |-> {}, paths |-> {}, raced |-> FALSE]
Sites      == IF p.metro THEN {"L", "R"} ELSE {"L"}

------------------------------------------------------- \* The SAN plugin's part
(* The online flags decide three times in one call: which clients it has,  *)
(* where it looks for the LUN, and where it maps it; a client it does not  *)
(* have is a nil interface.                                                *)
OnlineSites == {s \in Sites : online[s]}
FirstSteps(op) ==
    CASE p.family = "san"       -> <<Lun!Do("getLunInfo")>>
      [] p.family = "oceandisk" -> IF op = "Attach" THEN Disk!ControllerAttach("", p) ELSE <<Disk!Do("ControllerDetach")>>
      [] p.family = "fusion"    -> <<Fus!Do(IF op = "Attach" THEN "ControllerAttach" ELSE "ControllerDetach")>>
      [] p.family \in {"nas", "dtree"} ->
            IF op = "Attach" THEN Nas!AttachVolume(p)
            ELSE (IF p.family = "dtree" THEN <<<<"GetDTreeParentName", "">>>> ELSE <<>>) \o Nas!DetachVolume(p)
NewCall(op) == [op |-> op, todo |-> At("L", FirstSteps(op)), cli |-> OnlineSites, at |-> {"L"}]

getLunInfo(c, a, v) ==
    LET s == IF online["L"] THEN "L" ELSE "R"
    IN  IF OnlineSites = {} THEN Fail(a)
        ELSE IF s \notin c.cli THEN Panic(a)
        ELSE Then(Lun!GetLunByName(a, s, v),
             LAMBDA b, l : IF l # {} THEN Go(b, <<<<s, "handler", "">>>>)
                           ELSE IF c.op = "Attach" THEN Fail(b) ELSE Go(b, <<>>))

(* ControllerAttach or ControllerDetach of the attachers that are chosen,  *)
(* the remote site's first.                                                *)
attacherSteps(c, n, s) == At(s, IF c.op = "Attach" THEN Lun!ControllerAttach(n, p) ELSE <<Lun!Do("ControllerDetach")>>)
(* The local array is asked for the pair of the LUN's id.  The id of a LUN *)
(* that was found at the remote site is that of some other LUN, or none.   *)
GetHyperMetroPairByLocalObjID(a, found) ==
    Ask(a, {"pair"}) \cup (IF found = "R" THEN Ask(a, {}) ELSE {})

(* The pair must exist; a status that is not normal is only logged. *)
metroHandler(c, a, n, found) ==
    IF c.cli # {"L", "R"} THEN Panic(a)
    ELSE Then(GetHyperMetroPairByLocalObjID(a, found),
         LAMBDA b, pair : IF pair = {} THEN Fail(b)
                          ELSE Go(b, attacherSteps(c, n, "R") \o attacherSteps(c, n, "L")))
commonHandler(c, a, n, s) == Go(a, attacherSteps(c, n, s))
handler(c, a, n, found) ==
    IF ~p.metro THEN commonHandler(c, a, n, "L")
    ELSE CASE OnlineSites = {"L", "R"} -> metroHandler(c, a, n, found)
           [] OnlineSites = {"L"}      -> commonHandler(c, a, n, "L")
           [] OnlineSites = {"R"}      -> commonHandler(c, a, n, "R")
           [] OnlineSites = {}         -> Fail(a)

(* The paths of the sites that the publish context lists. *)
mergeMappingInfo(at) == IF at = {"L", "R"} /\ p.proto \notin {"iscsi", "fc"} THEN {"L"} ELSE at

(* The data of the node's host, from its secret. *)
SecretOf(n) == IF p.perNode THEN n ELSE "all"
Known(n) == \E d \in secret[SecretOf(n)] : n \in d
NeedsHostInfo == {"AttachISCSI", "AttachFC", "AttachNVMe", "attachIscsiInitiatorToHost", "getFilteredIPs"}

AttacherStep(c, s, t, a, v, n) ==
    CASE p.family = "san"            -> Lun!Run(t, a, s, v, n, p)
      [] p.family = "oceandisk"      -> Disk!RunNamespace(t, a, s, v, n, p)
      [] p.family = "fusion"         -> Fus!Run(t, a, s, v, n, p)
      [] p.family \in {"nas", "dtree"} -> Nas!Run(t, a, s, v, n, c.op, p)

Run(c, t, a, v, n) ==
    CASE t[2] = "getLunInfo"                 -> getLunInfo(c, a, v)
      [] t[2] = "handler"                    -> handler(c, a, n, t[1])
      [] t[2] = "GetDTreeParentName"         -> Ask(a, {<<>>})
      [] t[2] \in NeedsHostInfo /\ ~Known(n) -> Refuse(a)
      [] OTHER -> Then(AttacherStep(c, t[1], <<t[2], t[3]>>, a, v, n), LAMBDA b, x : Go(b, At(t[1], The(x))))

------------------------------------------------------------------- \* The calls
Init ==
    /\ p \in Scenarios
    /\ arr = p.arr
    /\ online = [s \in {"L", "R"} |-> TRUE]
    /\ call = [x \in p.vas |-> Idle] /\ late = [x \in p.vas |-> Idle]
    /\ va = [x \in p.vas |-> Detached]
    /\ secret = [k \in {x[2] : x \in p.vas} \cup {"all"} |->
                    IF p.register THEN {} ELSE {{x[2] : x \in p.vas}}]
    /\ reg = [n \in {x[2] : x \in p.vas} |->
                 [pc |-> IF p.register THEN "start" ELSE "done", seen |-> {}, fresh |-> FALSE, conflicts |-> 0]]

(* An earlier call for the opposite is still at work. *)
Raced(x, op) == late[x].op = op

ControllerPublishVolume(x) ==
    /\ call[x] = Idle /\ va[x].st \in {"detached", "attaching"}
    /\ call' = [call EXCEPT ![x] = NewCall("Attach")]
    /\ va' = [va EXCEPT ![x] = [Detached EXCEPT !.st = "attaching", !.raced = Raced(x, "Detach")]]
    /\ UNCHANGED <<p, arr, online, late, secret, reg>>

(* Also called when an attachment is given up before it has succeeded, and *)
(* answered with success when the backend is not known to the driver.      *)
ControllerUnpublishVolume(x) ==
    /\ call[x] = Idle /\ va[x].st \in {"attaching", "attached", "assumed", "detaching"}
    /\ \/ call' = [call EXCEPT ![x] = NewCall("Detach")] /\ va' = [va EXCEPT ![x].st = "detaching", ![x].raced = Raced(x, "Attach")]
       \/ call' = call /\ va' = [va EXCEPT ![x].st = "forgotten"]
    /\ UNCHANGED <<p, arr, online, late, secret, reg>>

(* The next request of a call c. *)
After(c, o) ==
    LET steps == The(o.v)
    IN  [c EXCEPT !.todo = steps \o Tail(@),
                  !.at = IF Head(c.todo)[2] = "handler" THEN {steps[i][1] : i \in DOMAIN steps} ELSE @]

Step(x) ==
    LET c == call[x]
    IN  /\ c.todo # <<>>
        /\ \E o \in Run(c, Head(c.todo), arr, x[1], x[2]) :
              /\ arr' = o.a
              /\ call' = IF o.st = "crash" THEN [y \in p.vas |-> Idle]
                         ELSE [call EXCEPT ![x] = IF o.st = "ok" THEN After(c, o) ELSE Idle]
              /\ late' = IF o.st = "crash" THEN [y \in p.vas |-> Idle] ELSE late
              /\ va' = IF o.st # "panic" THEN va     \* recovered: an empty answer and no error
                       ELSE [va EXCEPT ![x].st = IF c.op = "Attach" THEN "assumed" ELSE "lost"]
        /\ UNCHANGED <<p, online, secret, reg>>

Answer(x) ==
    LET c == call[x]
    IN  /\ c # Idle /\ c.todo = <<>>
        /\ va' = [va EXCEPT ![x] =
                     IF c.op = "Attach" THEN [@ EXCEPT !.st = "attached", !.at = c.at, !.paths = mergeMappingInfo(c.at)]
                     ELSE [@ EXCEPT !.st = "detached", !.at = c.at, !.paths = {}]]
        /\ call' = [call EXCEPT ![x] = Idle]
        /\ UNCHANGED <<p, arr, online, late, secret, reg>>

(* The attacher gives up on a call and repeats it; at most one such call   *)
(* of an attachment goes on at a time.                                     *)
Timeout(x) ==
    /\ p.timeout /\ call[x] # Idle /\ late[x] = Idle
    /\ late' = [late EXCEPT ![x] = call[x]] /\ call' = [call EXCEPT ![x] = Idle]
    /\ UNCHANGED <<p, arr, online, va, secret, reg>>

LateStep(x) ==
    LET c == late[x]
    IN  /\ c # Idle
        /\ IF c.todo = <<>> THEN late' = [late EXCEPT ![x] = Idle] /\ UNCHANGED <<arr, call>>
           ELSE \E o \in Run(c, Head(c.todo), arr, x[1], x[2]) :
                   /\ arr' = o.a
                   /\ late' = IF o.st = "crash" THEN [y \in p.vas |-> Idle]
                              ELSE [late EXCEPT ![x] = IF o.st = "ok" THEN After(c, o) ELSE Idle]
                   /\ call' = IF o.st = "crash" THEN [y \in p.vas |-> Idle] ELSE call
        /\ UNCHANGED <<p, online, va, secret, reg>>

(* The update of a backend's capabilities reaches the array or does not. *)
UpdateBackendCapabilities(s) ==
    /\ p.flaky
    /\ online' = [online EXCEPT ![s] = ~@]
    /\ UNCHANGED <<p, arr, call, late, va, secret, reg>>

---------------------------------------------------------- \* A node's plugin
Saving(n, r) == reg' = [reg EXCEPT ![n] = r] /\ UNCHANGED <<p, arr, online, call, late, va>>
Data(n)      == CHOOSE d \in secret[SecretOf(n)] : TRUE

createSecretIfNotExist(n) ==
    /\ reg[n].pc = "start"
    /\ Saving(n, [reg[n] EXCEPT !.pc = IF secret[SecretOf(n)] = {} THEN "create" ELSE "get"])
    /\ UNCHANGED secret

(* A secret that another node has created in the meantime is as good. *)
CreateSecret(n) ==
    /\ reg[n].pc = "create"
    /\ \/ Saving(n, [reg[n] EXCEPT !.pc = "get"])
       \/ Saving(n, [reg[n] EXCEPT !.pc = "start"])          \* failed: the plugin stops and is started again
    /\ secret' = [secret EXCEPT ![SecretOf(n)] = IF @ = {} THEN {{}} ELSE @]

GetSecret(n) ==
    /\ reg[n].pc = "get"
    /\ Saving(n, [reg[n] EXCEPT !.pc = "update", !.seen = Data(n), !.fresh = TRUE])
    /\ UNCHANGED secret

(* The update is refused when the secret changed after it was read. *)
UpdateSecret(n) ==
    LET r == reg[n]
        stale == {m \in DOMAIN reg : SecretOf(m) = SecretOf(n)}
        wrote == [m \in DOMAIN reg |-> IF m \in stale THEN [reg[m] EXCEPT !.fresh = FALSE] ELSE reg[m]]
    IN  /\ r.pc = "update"
        /\ IF r.fresh
           THEN /\ secret' = [secret EXCEPT ![SecretOf(n)] = {r.seen \cup {n}}]
                /\ \E pc \in {"done", "start"} :                             \* "start": the answer was lost
                      reg' = [wrote EXCEPT ![n] = [pc |-> pc, seen |-> {}, fresh |-> FALSE, conflicts |-> 0]]
           ELSE /\ reg' = [reg EXCEPT ![n] = IF r.conflicts < MaxConflicts - 1
                                             THEN [r EXCEPT !.pc = "get", !.seen = {}, !.conflicts = @ + 1]
                                             ELSE [pc |-> "start", seen |-> {}, fresh |-> FALSE, conflicts |-> 0]]
                /\ UNCHANGED secret
        /\ UNCHANGED <<p, arr, online, call, late, va>>

SaveNodeHostInfoToSecret(n) ==
    createSecretIfNotExist(n) \/ CreateSecret(n) \/ GetSecret(n) \/ UpdateSecret(n)

Next ==
    \/ \E x \in DOMAIN va :
          \/ ControllerPublishVolume(x) \/ ControllerUnpublishVolume(x)
          \/ Step(x) \/ Answer(x) \/ Timeout(x) \/ LateStep(x)
    \/ \E s \in Sites : UpdateBackendCapabilities(s)
    \/ \E n \in DOMAIN reg : SaveNodeHostInfoToSecret(n)

Spec == Init /\ [][Next]_vars

----------------------------------------------------------------- \* Properties
(* The volume is visible to the node at a site. *)
Reachable(s, x) ==
    LET v == x[1] n == x[2]
    IN  CASE p.family = "san"       -> Lun!Shown(arr, s, Lun!LunGroup(s, n), v, n)
          [] p.family = "oceandisk" -> Disk!Shown(arr, s, Disk!NamespaceGroup(s, n), v, n)
          [] p.family = "fusion" /\ p.proto = "iscsi" -> \E h \in Obj(arr, Fus!Host(s, n)) : v \in h.luns
          [] p.family = "fusion" /\ p.proto = "scsi"  -> n \in arr[Fus!Volume(s, v)].at
          [] OTHER -> p.auth => \A ip \in Nas!FilterIPsByCIDRs(p.ports[n], p.cidrs) : Nas!CheckNfsShareAccessStatus(arr, s, v, ip)
Exposed(s, x) ==
    IF p.family \in {"nas", "dtree"}
    THEN \E ip \in Nas!FilterIPsByCIDRs(p.ports[x[2]], p.cidrs) : Nas!CheckNfsShareAccessStatus(arr, s, x[1], ip)
    ELSE Reachable(s, x)

(* The node's ports log in as its host, with the configured settings.  A   *)
(* Fibre Channel port counts when the array sees it.                       *)
Ports(s, n) ==
    IF p.proto \in {"fc", "fcnvme"}
    THEN {i \in p.ports[n] : \E o \in Obj(arr, Lun!Initiator(s, i)) : o.on}
    ELSE p.ports[n]
Set(o) == p.alua.mode \in {"none", o.alua.mode}
Configured(s, n) ==
    /\ p.family \in {"san", "oceandisk"} \/ p.proto = "iscsi" =>
          \A i \in Ports(s, n) : \E o \in Obj(arr, Lun!Initiator(s, i)) : o.host = n
    /\ <<p.family, p.v6>> \in {<<"san", TRUE>>, <<"oceandisk", TRUE>>, <<"fusion", TRUE>>} /\ p.proto # "scsi" =>
          Set(arr[Lun!Host(s, n)])
    /\ p.family = "san" /\ ~p.v6 /\ p.proto # "nvme" =>
          \A i \in Ports(s, n) : Set(arr[Lun!Initiator(s, i)])

(* Every call, attachment, flag and secret has its type; a call that is    *)
(* not waited for belongs to a scenario with timeouts.                     *)
TypeOK ==
    /\ DOMAIN call = p.vas /\ DOMAIN late = p.vas
    /\ online \in [{"L", "R"} -> BOOLEAN]
    /\ \A x \in p.vas :
          /\ call[x].op \in {"none", "Attach", "Detach"} /\ call[x].at \subseteq Sites
          /\ va[x].st \in {"detached", "attaching", "attached", "assumed", "detaching", "lost", "forgotten"}
          /\ va[x].paths \subseteq va[x].at /\ va[x].at \subseteq Sites
          /\ late[x] # Idle => p.timeout
    /\ \A k \in DOMAIN secret : Cardinality(secret[k]) <= 1
    /\ \A n \in DOMAIN reg : reg[n].conflicts \in 0..(MaxConflicts - 1)

(* A volume whose publication was answered stays usable by its node, while *)
(* other volumes of the node and other nodes of the volume come and go: at *)
(* every site of the answer its LUN is in the groups of the mapping of the *)
(* host (its addresses are clients of its share), the node's ports are     *)
(* those of the host and the multipath settings are the configured ones.   *)
(* A detachment the attacher no longer waits for may undo it.              *)
PublishedIsMapped ==
    \A x \in p.vas :
        va[x].st = "attached" /\ ~va[x].raced =>
            \A s \in va[x].at : Reachable(s, x) /\ Configured(s, x[2])

(* A volume whose unpublication was answered, or that was never published, *)
(* is visible to the node at no site; when a site could not be reached,    *)
(* this holds of the site that the call dealt with.  An attachment the     *)
(* attacher no longer waits for may undo it.                               *)
UnpublishedIsUnmapped ==
    \A x \in p.vas :
        va[x].st = "detached" /\ ~va[x].raced =>
            ~\E s \in (IF p.flaky THEN va[x].at ELSE Sites) : Exposed(s, x)

(* A node whose plugin has saved its data is in the secret, though all the *)
(* nodes' plugins read it and write it back at the same time.              *)
RegisteredIsKnown == \A n \in DOMAIN reg : reg[n].pc = "done" => Known(n)

RECURSIVE Ends(_, _, _)
Ends(c, a, x) ==
    \/ c.todo = <<>>
    \/ \E o \in Run(c, Head(c.todo), a, x[1], x[2]) : o.st = "ok" /\ Ends(After(c, o), o.a, x)

(* Whatever broken-off calls have left on the arrays, the repeated call    *)
(* can succeed once the sites are online and the node is registered.       *)
NeverWedged ==
    \A x \in p.vas :
        call[x] = Idle /\ (\A s \in Sites : online[s]) /\ Known(x[2]) =>
            /\ va[x].st = "attaching" => Ends(NewCall("Attach"), arr, x)
            /\ va[x].st = "detaching" => Ends(NewCall("Detach"), arr, x)
=============================================================================
