------------------------------ MODULE Provision ------------------------------
(***************************************************************************)
(* The controller service: the sidecars of the orchestrator call the CSI   *)
(* controller, which runs the volume operation of the backend's plugin     *)
(* against the array.  The calls of different sidecars overlap; each of    *)
(* them repeats a call that failed until it succeeds.  The driver may die  *)
(* in any request, which drops every call that is in flight.               *)
(***************************************************************************)
EXTENDS Calls

CONSTANT Requests      \* the requests p that are explored

VARIABLES p,           \* the request
          arr,         \* the arrays
          call,        \* the call in flight of each sidecar
          pv, vs       \* what the orchestrator knows: the volume, its snapshot

vars == <<p, arr, call, pv, vs>>

San     == INSTANCE OceanstorSan
Nas     == INSTANCE OceanstorNas
Dtree   == INSTANCE OceanstorDtree
FuSan   == INSTANCE FusionSan
FuNas   == INSTANCE FusionNas
FuDtree == INSTANCE FusionDtree
AsNas   == INSTANCE ASeriesNas
AsDtree == INSTANCE ASeriesDtree
Disk    == INSTANCE OceanDisk
Dme     == INSTANCE DmeASeries

Sidecar == {"provisioner", "resizer", "snapshotter", "modifier"}
Op      == {"Create", "Delete", "Expand", "CreateSnapshot", "DeleteSnapshot", "Modify"}
Idle    == [op |-> "none", phase |-> "idle", todo |-> <<>>, done |-> <<>>, r |-> NoRes]

(* The volume operation of the backend's family: the tasks of its flow, a  *)
(* task, and the revert of a task.  A request says which op it is for.     *)
Plan(op, a) ==
    LET q == [p EXCEPT !.op = op]
    IN  CASE p.family = "san"       -> San!Plan(op, a, q)
          [] p.family = "nas"       -> Nas!Plan(op, a, q)
          [] p.family = "dtree"     -> Dtree!Plan(op, a, q)
          [] p.family = "fusan"     -> FuSan!Plan(op, a, q)
          [] p.family = "funas"     -> FuNas!Plan(op, a, q)
          [] p.family = "fudtree"   -> FuDtree!Plan(op, a, q)
          [] p.family = "aseries"   -> AsNas!Plan(op, a, q)
          [] p.family = "asdtree"   -> AsDtree!Plan(op, a, q)
          [] p.family = "oceandisk" -> Disk!Plan(op, a, q)
          [] p.family = "dme"       -> Dme!Plan(op, a, q)

Run(c, t, a) ==
    LET q == [p EXCEPT !.op = c.op]
    IN  CASE p.family = "san"       -> San!Run(t, a, q, c.r)
          [] p.family = "nas"       -> Nas!Run(t, a, q, c.r)
          [] p.family = "dtree"     -> Dtree!Run(t, a, q, c.r)
          [] p.family = "fusan"     -> FuSan!Run(t, a, q, c.r)
          [] p.family = "funas"     -> FuNas!Run(t, a, q, c.r)
          [] p.family = "fudtree"   -> FuDtree!Run(t, a, q, c.r)
          [] p.family = "aseries"   -> AsNas!Run(t, a, q, c.r)
          [] p.family = "asdtree"   -> AsDtree!Run(t, a, q, c.r)
          [] p.family = "oceandisk" -> Disk!Run(t, a, q, c.r)
          [] p.family = "dme"       -> Dme!Run(t, a, q, c.r)

Back(c, t, a) ==
    CASE p.family = "san"       -> San!Back(t, a, c.r)
      [] p.family = "nas"       -> Nas!Back(t, a, [p EXCEPT !.op = c.op], c.r)
      [] p.family = "dtree"     -> Dtree!Back(t, a, c.r)
      [] p.family = "fusan"     -> FuSan!Back(t, a, c.r)
      [] p.family = "funas"     -> FuNas!Back(t, a, c.r)
      [] p.family = "fudtree"   -> FuDtree!Back(t, a, c.r)
      [] p.family = "aseries"   -> AsNas!Back(t, a, c.r)
      [] p.family = "asdtree"   -> AsDtree!Back(t, a, c.r)
      [] p.family = "oceandisk" -> Disk!Back(t, a, c.r)
      [] p.family = "dme"       -> Dme!Back(t, a, c.r)

Init ==
    /\ p \in Requests
    /\ arr = p.arr
    /\ call = [s \in Sidecar |-> Idle]
    /\ pv = [st |-> "absent", size |-> 0, grow |-> "no", mod |-> "no"]
    /\ vs = "absent"

Asked(op) ==
    /\ pv' = CASE op = "Create" -> [pv EXCEPT !.st = "creating"]
               [] op = "Delete" -> [pv EXCEPT !.st = "deleting"]
               [] op = "Expand" -> [pv EXCEPT !.grow = "asked"]
               [] op = "Modify" -> [pv EXCEPT !.mod = "asked"]
               [] OTHER -> pv
    /\ vs' = CASE op = "CreateSnapshot" -> "creating"
               [] op = "DeleteSnapshot" -> "deleting"
               [] OTHER -> vs

Answered(op, r) ==
    /\ pv' = CASE op = "Create" -> [pv EXCEPT !.st = "bound", !.size = IF r.cap = 0 THEN p.cap ELSE r.cap]
               [] op = "Delete" -> [pv EXCEPT !.st = "gone"]
               [] op = "Expand" -> [pv EXCEPT !.size = p.esize, !.grow = "done"]
               [] op = "Modify" -> [pv EXCEPT !.mod = "done"]
               [] OTHER -> pv
    /\ vs' = CASE op = "CreateSnapshot" -> "ready"
               [] op = "DeleteSnapshot" -> "gone"
               [] OTHER -> vs

(* DeleteVolume assigns the error of an A-series file system's deletion to *)
(* a variable of an inner block, and answers success.                      *)
Swallowed(op) == p.family = "aseries" /\ op = "Delete"

(* What a piece of code leaves: c is the call's state after it, or the     *)
(* driver is dead.                                                         *)
Leave(s, o, c) ==
    /\ arr' = o.a
    /\ call' = IF o.st = "crash" THEN [t \in Sidecar |-> Idle] ELSE [call EXCEPT ![s] = c]
    /\ p' = p

(* A handler starts: the code before the tasks of its flow. *)
Begin(s, op) ==
    /\ call[s] = Idle
    /\ \E o \in Plan(op, arr) :
          Leave(s, o, IF o.st = "ok" THEN [Idle EXCEPT !.op = op, !.phase = "run", !.todo = o.v] ELSE Idle)
    /\ Asked(op)

(* The backend of the volume is not in the driver's cache: what is to be   *)
(* deleted is forgotten; the other calls fail and change nothing.          *)
Forget(s, q, u) ==
    /\ call[s] = Idle
    /\ pv' = q /\ vs' = u
    /\ UNCHANGED <<p, arr, call>>

(* The handlers, each called by its sidecar until it has succeeded.  A     *)
(* volume is not deleted while a snapshot of it is being taken.            *)
CreateVolume(s) == s = "provisioner" /\ pv.st \in {"absent", "creating"} /\ Begin(s, "Create")

DeleteVolume(s) ==
    /\ s = "provisioner" /\ pv.st \in {"bound", "deleting"} /\ vs # "creating"
    /\ Begin(s, "Delete") \/ Forget(s, [pv EXCEPT !.st = "forgotten"], vs)

ControllerExpandVolume(s) ==
    s = "resizer" /\ pv.st = "bound" /\ pv.grow # "done" /\ p.esize > 0 /\ Begin(s, "Expand")

CreateSnapshot(s) ==
    s = "snapshotter" /\ pv.st = "bound" /\ vs \in {"absent", "creating"} /\ p.snap /\ Begin(s, "CreateSnapshot")

DeleteSnapshot(s) ==
    /\ s = "snapshotter" /\ vs \in {"ready", "deleting"}
    /\ Begin(s, "DeleteSnapshot") \/ Forget(s, pv, "forgotten")

ModifyVolume(s) == s = "modifier" /\ pv.st = "bound" /\ pv.mod # "done" /\ p.modify /\ Begin(s, "Modify")

(* A task fails: the finished ones are reverted, last first, unless the    *)
(* failure is the flow control of DME, which is returned as it is.         *)
RunTask(s) ==
    LET c == call[s]
    IN  /\ c.phase = "run" /\ c.todo # <<>>
        /\ \E o \in Run(c, Head(c.todo), arr) :
              Leave(s, o, IF o.st = "ok"
                          THEN [c EXCEPT !.todo = Tail(@), !.done = <<Head(c.todo)>> \o @, !.r = Merge(@, o.v)]
                          ELSE [c EXCEPT !.phase = "revert", !.todo = <<>>, !.done = IF "429" \in o.v THEN <<>> ELSE @])
        /\ UNCHANGED <<pv, vs>>

(* The error of a revert is logged, and the next one is run. *)
RevertTask(s) ==
    LET c == call[s]
    IN  /\ c.phase = "revert" /\ c.done # <<>>
        /\ \E o \in Back(c, Head(c.done), arr) : Leave(s, o, [c EXCEPT !.done = Tail(@)])
        /\ UNCHANGED <<pv, vs>>

Answer(s) ==
    LET c == call[s]
    IN  /\ c.phase = "run" /\ c.todo = <<>>
        /\ Answered(c.op, c.r)
        /\ call' = [call EXCEPT ![s] = Idle]
        /\ UNCHANGED <<p, arr>>

AnswerError(s) ==
    LET c == call[s]
    IN  /\ c.phase = "revert" /\ c.done = <<>>
        /\ IF Swallowed(c.op) THEN Answered(c.op, c.r) ELSE UNCHANGED <<pv, vs>>
        /\ call' = [call EXCEPT ![s] = Idle]
        /\ UNCHANGED <<p, arr>>

(* DME ends a task the driver does not wait for any more. *)
Settle ==
    /\ Dme!Left(arr)
    /\ arr' \in Dme!Settle(arr)
    /\ UNCHANGED <<p, call, pv, vs>>

Next ==
    \/ \E s \in Sidecar :
          \/ CreateVolume(s) \/ DeleteVolume(s) \/ ControllerExpandVolume(s)
          \/ CreateSnapshot(s) \/ DeleteSnapshot(s) \/ ModifyVolume(s)
          \/ RunTask(s)
          \/ RevertTask(s)
          \/ Answer(s)
          \/ AnswerError(s)
    \/ Settle

Spec == Init /\ [][Next]_vars

----------------------------------------------------------------- \* Properties
(* Where a family keeps the volume, its size and its export. *)
Object ==
    CASE p.family \in {"san", "fusan"}                    -> "lun"
      [] p.family \in {"nas", "funas", "aseries", "dme"}  -> "fs"
      [] p.family \in {"dtree", "fudtree", "asdtree"}     -> "dtree"
      [] p.family = "oceandisk"                           -> "ns"
Sized     == IF p.family \in {"funas", "dtree", "fudtree", "asdtree"} THEN "quota" ELSE Object
Share     == IF p.proto = "dtfs" THEN "dtshare" ELSE "share"
HasShare  == Object \in {"fs", "dtree"} /\ p.proto # "dpc"
HasPolicy == \E k \in DOMAIN arr : k[2] \in {"qos", "policy"} /\ "v" \in arr[k].objs
Quiet     == \A s \in Sidecar : call[s] = Idle
Late(do)  == \E t \in Obj(arr, Dme!Task("t")) : t.do = do

(* The calls, what the orchestrator knows, and the keys of the arrays have *)
(* their types, and no task is both finished and waiting in one call.      *)
TypeOK ==
    /\ \A k \in DOMAIN arr :
          /\ k[1] \in {"L", "R"} /\ k[3] \in {"v", "src", "s", "s0", "tmp", "tmp2", "q1", "q2", "t", "c1", "c2"}
          /\ "cap" \in DOMAIN arr[k] => arr[k].cap \in 0..(p.cap + p.esize)
    /\ \A s \in Sidecar :
          /\ call[s].op \in Op \cup {"none"} /\ call[s].phase \in {"idle", "run", "revert"}
          /\ ~\E i \in DOMAIN call[s].todo, j \in DOMAIN call[s].done : call[s].todo[i] = call[s].done[j]
    /\ pv \in [st : {"absent", "creating", "bound", "deleting", "gone", "forgotten"}, size : Nat,
               grow : {"no", "asked", "done"}, mod : {"no", "asked", "done"}]
    /\ vs \in {"absent", "creating", "ready", "deleting", "gone", "forgotten"}

(* The clients or users of the request that its share is to have: DME      *)
(* passes over users it does not know.                                     *)
Granted == {c \in {"c1", "c2"} : p.family = "dme" /\ p.proto = "dtfs" => Has(p.arr, <<"L", "user", c>>)}

Complete ==
    /\ arr[<<"L", Sized, "v">>].cap >= pv.size
    /\ HasShare => Has(arr, <<p.active, Share, "v">>) /\ arr[<<p.active, Share, "v">>].acc = Granted
    /\ p.qos # "none" => HasPolicy
    /\ p.metro \/ pv.mod = "done" => Has(arr, <<"R", Object, "v">>) /\ Has(arr, <<"L", "pair", "v">>)
    /\ p.kv => Has(arr, <<"L", "kv", "v">>)

(* A file system that is to be a clone and is found under its name is      *)
(* returned as it is (clone_fs.go), whatever it lacks.                     *)
CloneAsFound == p.family = "nas" /\ p.from # "none"

(* A volume the orchestrator was told of is complete on the array, however *)
(* often its creation was interrupted and repeated, and stays so through   *)
(* the expansions, snapshots and modifications that follow: the object and *)
(* its size, the share with every client, the QoS policy, the peer and the *)
(* HyperMetro pair, the KV store.  A snapshot it was told is ready exists  *)
(* and is one of the volume.  The exceptions: a deletion that DME goes on  *)
(* with after the driver gave up on it, and the users of a DataTurbo share *)
(* that DME does not know (the volume is bound without them).              *)
BoundIsComplete ==
    /\ pv.st = "bound" /\ ~Late("delete") =>
          /\ Has(arr, <<"L", Object, "v">>) /\ Has(arr, <<"L", Sized, "v">>)
          /\ ~CloneAsFound => Complete
    /\ vs = "ready" => \E s \in Obj(arr, <<"L", "snap", "s">>) : s.of = "v"

(* When DeleteVolume was answered with success, nothing under the volume's *)
(* name is left on the backend's own array: every family removes shares,   *)
(* policies, pairs, copies and the object, in calls that may be broken off *)
(* and repeated.  A-series file systems are left out, whose errors are     *)
(* swallowed, and a creation that DME finishes late.                       *)
GoneIsClean ==
    pv.st = "gone" /\ Quiet /\ ~Late("create") /\ ~Swallowed("Delete") =>
        ~\E k \in DOMAIN arr : k[1] = "L" /\ k[3] = "v"

(* What a call can leave: when all its tasks succeed (st = "ok"), or when  *)
(* one of them fails and the finished ones are reverted.                   *)
RECURSIVE Undone(_, _, _), Outcomes(_, _, _, _)
Undone(c, a, done) ==
    IF done = <<>> THEN {a}
    ELSE UNION {Undone(c, o.a, Tail(done)) : o \in {o \in Back(c, Head(done), a) : o.st = "ok"}}
Outcomes(c, a, todo, st) ==
    IF todo = <<>> THEN IF st = "ok" THEN {a} ELSE {}
    ELSE UNION {CASE o.st = "ok" -> Outcomes([c EXCEPT !.r = Merge(@, o.v), !.done = <<Head(todo)>> \o @], o.a, Tail(todo), st)
                  [] o.st = "err" /\ st = "err" -> Undone(c, o.a, c.done)
                  [] OTHER -> {} : o \in Run(c, Head(todo), a)}
Serve(op, a, st) ==
    UNION {Outcomes([Idle EXCEPT !.op = op], o.a, o.v, st) : o \in {o \in Plan(op, a) : o.st = "ok"}}
CanEnd(op) ==
    \/ Serve(op, arr, "ok") # {}
    \/ \E a \in Serve(op, arr, "err") : Serve(op, a, "ok") # {}

(* The interrupted creations that no repetition completes: an OceanStor    *)
(* dtree and a KV store are created without a look-up; a copy stays        *)
(* smaller than asked or is never started; a clone is never split; a       *)
(* second HyperMetro pair of a file system is refused.  The last line is   *)
(* the bound on policies.                                                  *)
Trapped ==
    \/ p.family = "dtree" /\ Has(arr, <<"L", "dtree", "v">>)
    \/ p.kv /\ Has(arr, <<"L", "kv", "v">>)
    \/ \E l \in Obj(arr, <<"L", "lun", "v">>) : l.cap < p.cap
    \/ \E c \in Obj(arr, <<"L", "clone", "v">>) : c.sync = "unsync"
    \/ p.wait /\ \E f \in Obj(arr, <<"L", "fs", "v">>) : f.parent # "none" /\ ~f.split
    \/ p.family = "nas" /\ Has(arr, <<"L", "pair", "v">>)
    \/ \A q \in Disk!PolicyNames : Has(arr, <<"L", "policy", q>>)

(* Whatever an interruption leaves, the repeated call can still succeed,   *)
(* at the latest after one repetition that fails and is reverted; the      *)
(* states of Trapped are the exceptions, all of them in Create.  A         *)
(* deletion needs the logical port at home and no forgotten snapshot.      *)
NeverWedged ==
    Quiet =>
        /\ pv.st = "creating" => Trapped \/ CanEnd("Create")
        /\ pv.st = "deleting" /\ vs \in {"absent", "gone"} /\ p.own => CanEnd("Delete")
        /\ pv.st = "bound" /\ pv.grow = "asked" => CanEnd("Expand")
        /\ pv.st = "bound" /\ pv.mod = "asked" => CanEnd("Modify")
        /\ pv.st = "bound" /\ vs = "creating" => CanEnd("CreateSnapshot")
        /\ vs = "deleting" => CanEnd("DeleteSnapshot")

(* After every expansion the two halves of a HyperMetro volume have the    *)
(* same size, though they are extended by two requests, in two tasks, of a *)
(* call that can be broken off between them.                               *)
SitesAgree ==
    p.metro /\ Quiet /\ pv.st = "bound" /\ pv.grow # "asked" =>
        arr[<<"R", Object, "v">>].cap = arr[<<"L", Object, "v">>].cap

(* Copying from a volume or a snapshot changes neither, and no clean-up or *)
(* revert takes them away.  On arrays before V6 the deletion of a volume   *)
(* whose LUN copy was broken off deletes the user's snapshot with it.      *)
SourceIntact ==
    \A k \in DOMAIN p.arr :
        \/ ~p.v6 /\ p.from = "snap" /\ k[2] = "snap"
        \/ Has(arr, k) /\ arr[k] = p.arr[k]
=============================================================================
