--------------------------- MODULE OceanstorArray ---------------------------
(***************************************************************************)
(* The REST client of OceanStor and Dorado arrays: one operator per client *)
(* method, over the store of module Calls.  Site "L" is the array of the   *)
(* backend, "R" its HyperMetro peer.  Kinds of object:                     *)
(*   lun            [cap, data]          the volume; data "empty" until a  *)
(*                                       copy from its source is complete  *)
(*   fs             [cap, data, parent, split]  file system; a clone has a *)
(*                                       parent until it is split from it  *)
(*   snap           [of, cap, on]        LUN or file system snapshot       *)
(*   qos            [on, objs]           SmartQoS policy of an object      *)
(*   clone          [src, sync]          clone pair, under its target LUN  *)
(*   luncopy        [src, run]           LUN copy, under its target LUN    *)
(*   pair           [run]                HyperMetro pair, under its volume *)
(*   share          [acc]                NFS share with its auth clients   *)
(*   dtshare        [acc]                DataTurbo share with its users    *)
(*   dtree          [cap]                dtree;  quota [cap] its quota     *)
(*   kv             [cap]                KV cache store of a file system   *)
(* What the array itself refuses is not in the driver's source: InUse is   *)
(* taken from the order in which the driver removes things.                *)
(***************************************************************************)
EXTENDS Calls

InUse(a, s, n) ==
    \E k \in DOMAIN a :
        \/ k \in {<<s, "qos", n>>, <<s, "share", n>>, <<s, "dtshare", n>>}
        \/ k[2] = "pair" /\ k[3] = n
        \/ k[1] = s /\ k[2] = "snap" /\ a[k].of = n
        \/ k[1] = s /\ k[2] = "clone" /\ n \in {k[3], a[k].src}
        \/ k[1] = s /\ k[2] = "luncopy" /\ n \in {k[3], a[k].src}
        \/ k[1] = s /\ k[2] = "fs" /\ a[k].parent = n

RemoveFree(a, s, kind, n) ==
    IF Has(a, <<s, kind, n>>) /\ InUse(a, s, n) THEN Refuse(a) ELSE Remove(a, <<s, kind, n>>)

MustGet(a, k) == IF Has(a, k) THEN Ask(a, {a[k]}) ELSE Refuse(a)

--------------------------------- \* LUN
GetLunByName(a, s, n)    == Ask(a, Obj(a, <<s, "lun", n>>))
GetLunByID(a, s, n)      == MustGet(a, <<s, "lun", n>>)
CreateLun(a, s, n, cap)  == New(a, <<s, "lun", n>>, [cap |-> cap, data |-> "empty"])
DeleteLun(a, s, n)       == RemoveFree(a, s, "lun", n)
(* A LUN of a pair that is not suspended cannot be extended. *)
ExtendLun(a, s, n, cap)  ==
    IF \E o \in Obj(a, <<"L", "pair", n>>) : o.run # "pause" THEN Refuse(a)
    ELSE Change(a, <<s, "lun", n>>, [a[<<s, "lun", n>>] EXCEPT !.cap = cap])
UpdateLun(a, s, n)       == Change(a, <<s, "lun", n>>, a[<<s, "lun", n>>])

(* V3 and V5 arrays keep 31 characters of a name; the driver's names are   *)
(* told apart by fewer, so a LUN keeps its name here.                      *)
MakeLunName(n)           == n

----------------------- \* Clone pair (Dorado V6 and later), LUN copy (others)
CreateClonePair(a, dst, src) ==
    IF {<<"L", "lun", src>>, <<"L", "snap", src>>} \cap DOMAIN a = {} \/ ~Has(a, <<"L", "lun", dst>>)
    THEN Refuse(a) ELSE New(a, <<"L", "clone", dst>>, [src |-> src, sync |-> "unsync"])
SyncClonePair(a, dst)        == Change(a, <<"L", "clone", dst>>, [a[<<"L", "clone", dst>>] EXCEPT !.sync = "syncing"])
GetClonePairInfo(a, dst)     == Ask(a, Obj(a, <<"L", "clone", dst>>))
DeleteClonePair(a, dst)      == Remove(a, <<"L", "clone", dst>>)

CreateLunCopy(a, dst, snap)  ==
    IF ~Has(a, <<"L", "snap", snap>>) \/ ~Has(a, <<"L", "lun", dst>>) THEN Refuse(a)
    ELSE New(a, <<"L", "luncopy", dst>>, [src |-> snap, run |-> "created"])
GetLunCopyByName(a, dst)     == Ask(a, Obj(a, <<"L", "luncopy", dst>>))
GetLunCopyByID(a, dst)       == MustGet(a, <<"L", "luncopy", dst>>)
StartLunCopy(a, dst)         == Change(a, <<"L", "luncopy", dst>>, [a[<<"L", "luncopy", dst>>] EXCEPT !.run = "copying"])
StopLunCopy(a, dst)          == Change(a, <<"L", "luncopy", dst>>, [a[<<"L", "luncopy", dst>>] EXCEPT !.run = "stop"])
DeleteLunCopy(a, dst)        == Remove(a, <<"L", "luncopy", dst>>)

---------------------------------- \* Snapshots
GetLunSnapshotByName(a, s, n)   == Ask(a, Obj(a, <<s, "snap", n>>))
CreateLunSnapshot(a, s, n, of)  ==
    IF ~Has(a, <<s, "lun", of>>) THEN Refuse(a)
    ELSE New(a, <<s, "snap", n>>, [of |-> of, cap |-> a[<<s, "lun", of>>].cap, on |-> FALSE])
ActivateLunSnapshot(a, s, n)    == Change(a, <<s, "snap", n>>, [a[<<s, "snap", n>>] EXCEPT !.on = TRUE])
DeactivateLunSnapshot(a, s, n)  == Change(a, <<s, "snap", n>>, [a[<<s, "snap", n>>] EXCEPT !.on = FALSE])
DeleteLunSnapshot(a, s, n)      == RemoveFree(a, s, "snap", n)

(* One request makes a consistent, active snapshot on both sites. *)
CreateHyperMetroSnap(a, n, of) ==
    LET snap == [of |-> of, cap |-> a[<<"L", "lun", of>>].cap, on |-> TRUE]
    IN  IF Has(a, <<"L", "snap", n>>) \/ Has(a, <<"R", "snap", n>>) THEN Refuse(a)
        ELSE Send(a, Put(Put(a, <<"L", "snap", n>>, snap), <<"R", "snap", n>>, snap), {})

GetFSSnapshotByName(a, s, n)          == Ask(a, Obj(a, <<s, "snap", n>>))
GetFSSnapshotCountByParentId(a, s, n) == Ask(a, Cardinality({k \in DOMAIN a : k[1] = s /\ k[2] = "snap" /\ a[k].of = n}))
CreateFSSnapshot(a, s, n, of)         ==
    IF ~Has(a, <<s, "fs", of>>) THEN Refuse(a)
    ELSE New(a, <<s, "snap", n>>, [of |-> of, cap |-> a[<<s, "fs", of>>].cap, on |-> TRUE])
DeleteFSSnapshot(a, s, n)             == RemoveFree(a, s, "snap", n)

---------------------------------- \* HyperMetro
CreateHyperMetroPair(a, kind, n, firstSync) ==
    IF ~Has(a, <<"L", kind, n>>) \/ ~Has(a, <<"R", kind, n>>) THEN Refuse(a)
    ELSE New(a, <<"L", "pair", n>>, [run |-> IF firstSync THEN "tosync" ELSE "normal"])
GetHyperMetroPair(a, n)             == Ask(a, Obj(a, <<"L", "pair", n>>))
GetHyperMetroPairByLocalObjID(a, n) == Ask(a, Obj(a, <<"L", "pair", n>>))
SyncHyperMetroPair(a, n)            == Change(a, <<"L", "pair", n>>, [run |-> "syncing"])
StopHyperMetroPair(a, n)            == Change(a, <<"L", "pair", n>>, [run |-> "pause"])
(* A pair that runs has to be stopped before it can be deleted. *)
DeleteHyperMetroPair(a, n)          ==
    IF \E o \in Obj(a, <<"L", "pair", n>>) : o.run \in {"normal", "syncing"} THEN Refuse(a)
    ELSE Remove(a, <<"L", "pair", n>>)
GetHyperMetroDomainByName(a)        == Ask(a, {"normal"}) \cup Ask(a, {"abnormal"}) \cup Ask(a, {})

---------------------------------- \* SmartQoS
(* The name holds the time to the second: a policy that exists is found    *)
(* under its name only by a retry within that second, and the array        *)
(* refuses a second policy for the object.                                 *)
CreateQos(a, s, n) ==
    IF Has(a, <<s, "qos", n>>) THEN Refuse(a) \cup Ask(a, {a[<<s, "qos", n>>]})
    ELSE UNION {New(a, <<s, "qos", n>>, [on |-> b, objs |-> {n}]) : b \in BOOLEAN}
GetQosByID(a, s, n)         == MustGet(a, <<s, "qos", n>>)
UpdateQos(a, s, n, objs)    == Change(a, <<s, "qos", n>>, [a[<<s, "qos", n>>] EXCEPT !.objs = objs])
ActivateQos(a, s, n)        == Change(a, <<s, "qos", n>>, [a[<<s, "qos", n>>] EXCEPT !.on = TRUE])
DeactivateQos(a, s, n)      == Change(a, <<s, "qos", n>>, [a[<<s, "qos", n>>] EXCEPT !.on = FALSE])
(* Unlike the other deletions, one of a policy that is gone is an error. *)
DeleteQos(a, s, n)          == IF Has(a, <<s, "qos", n>>) THEN Remove(a, <<s, "qos", n>>) ELSE Refuse(a)

----------------------------- \* File systems, NFS shares, dtrees, quotas
GetFileSystemByName(a, s, n)     == Ask(a, Obj(a, <<s, "fs", n>>))
GetFileSystemByID(a, s, n)       == MustGet(a, <<s, "fs", n>>)
(* A busy or timed-out creation is looked up again by name. *)
CreateFileSystem(a, s, n, cap)   ==
    New(a, <<s, "fs", n>>, [cap |-> cap, data |-> "empty", parent |-> "none", split |-> FALSE])
(* The clone shares its parent's data, and the parent is in use by it,     *)
(* until the two are split.                                                *)
CloneFileSystem(a, s, n, src, parent) ==
    IF ~Has(a, <<s, "fs", src>>) THEN Refuse(a)
    ELSE New(a, <<s, "fs", n>>, [cap |-> a[<<s, "fs", src>>].cap, data |-> "copied", parent |-> parent, split |-> FALSE])
SplitCloneFS(a, s, n)            == Change(a, <<s, "fs", n>>, [a[<<s, "fs", n>>] EXCEPT !.split = TRUE])
ExtendFileSystem(a, s, n, cap)   == Change(a, <<s, "fs", n>>, [a[<<s, "fs", n>>] EXCEPT !.cap = cap])
UpdateFileSystem(a, s, n)        == Change(a, <<s, "fs", n>>, a[<<s, "fs", n>>])
DeleteFileSystem(a, s, n)        == RemoveFree(a, s, "fs", n)

GetNfsShareByPath(a, s, n)       == Ask(a, Obj(a, <<s, "share", n>>))
CreateNfsShare(a, s, n)          ==
    IF Has(a, <<s, "share", n>>) THEN GetNfsShareByPath(a, s, n)
    ELSE Send(a, Put(a, <<s, "share", n>>, [acc |-> {}]), {[acc |-> {}]})
DeleteNfsShare(a, s, n)          == Remove(a, <<s, "share", n>>)
GetNfsShareAccess(a, s, n)       == IF Has(a, <<s, "share", n>>) THEN Ask(a, a[<<s, "share", n>>].acc) ELSE Ask(a, {})
AllowNfsShareAccess(a, s, n, c)  ==
    IF ~Has(a, <<s, "share", n>>) \/ c \in a[<<s, "share", n>>].acc THEN Refuse(a)
    ELSE Send(a, [a EXCEPT ![<<s, "share", n>>].acc = @ \cup {c}], {})
DeleteNfsShareAccess(a, s, n, c) ==
    IF ~Has(a, <<s, "share", n>>) \/ c \notin a[<<s, "share", n>>].acc THEN Refuse(a)
    ELSE Send(a, [a EXCEPT ![<<s, "share", n>>].acc = @ \ {c}], {})

CreateDTree(a, n)                == New(a, <<"L", "dtree", n>>, [cap |-> 0])
GetDTreeByName(a, n)             == Ask(a, Obj(a, <<"L", "dtree", n>>))
(* Deleting a dtree takes its quota with it; one that is gone is an error. *)
DeleteDTree(a, n)                ==
    IF ~Has(a, <<"L", "dtree", n>>) \/ Has(a, <<"L", "share", n>>) THEN Refuse(a)
    ELSE Send(a, Drop(Drop(a, <<"L", "quota", n>>), <<"L", "dtree", n>>), {})
CreateQuota(a, n, cap)           == IF Has(a, <<"L", "dtree", n>>) THEN New(a, <<"L", "quota", n>>, [cap |-> cap]) ELSE Refuse(a)
UpdateQuota(a, n, cap)           == Change(a, <<"L", "quota", n>>, [cap |-> cap])
BatchGetQuota(a, n)              == Ask(a, Obj(a, <<"L", "quota", n>>))
DeleteQuota(a, n)                == IF Has(a, <<"L", "quota", n>>) THEN Remove(a, <<"L", "quota", n>>) ELSE Refuse(a)

GetPoolByName(a)                 == Ask(a, {"pool"}) \cup Ask(a, {})
GetApplicationTypeByName(a)      == Ask(a, {"type"}) \cup Ask(a, {})
=============================================================================
