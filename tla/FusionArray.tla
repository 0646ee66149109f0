---------------------------- MODULE FusionArray ----------------------------
(***************************************************************************)
(* The REST client of FusionStorage / Pacific: one operator per client     *)
(* method, over the store of module Calls.  Kinds of object:               *)
(*   lun [cap, data], snap [of, cap], fs [cap, data], dtree [cap],         *)
(*   quota [cap], share [acc], policy [objs] (a QoS policy, created apart  *)
(*   from the volume and then associated with it).                         *)
(***************************************************************************)
EXTENDS Calls

(* Policy names hold the time of their creation, so every creation makes a *)
(* new policy.  The bound is on the policies that exist at one time.       *)
PolicyNames == {"q1", "q2"}
FreePolicies(a) == {q \in PolicyNames : ~Has(a, <<"L", "policy", q>>)}
PolicyOf(a, n)  == {q \in PolicyNames : Has(a, <<"L", "policy", q>>) /\ n \in a[<<"L", "policy", q>>].objs}

InUse(a, n) ==
    \/ PolicyOf(a, n) # {}
    \/ \E k \in DOMAIN a : \/ k[2] = "snap" /\ a[k].of = n
                           \/ k[2] \in {"share", "quota"} /\ k[3] = n

(* Deleting what is not there is an error to these methods. *)
MustRemove(a, k) == IF Has(a, k) THEN Remove(a, k) ELSE Refuse(a)

------------------------------------------------------ \* Volumes, snapshots
GetVolumeByName(a, n)    == Ask(a, Obj(a, <<"L", "lun", n>>))
CreateVolume(a, n, cap)  == New(a, <<"L", "lun", n>>, [cap |-> cap, data |-> "empty"])
DeleteVolume(a, n)       == IF Has(a, <<"L", "lun", n>>) /\ InUse(a, n) THEN Refuse(a) ELSE Remove(a, <<"L", "lun", n>>)
ExtendVolume(a, n, cap)  == Change(a, <<"L", "lun", n>>, [a[<<"L", "lun", n>>] EXCEPT !.cap = cap])

GetSnapshotByName(a, n)  == Ask(a, Obj(a, <<"L", "snap", n>>))
CreateSnapshot(a, n, of) ==
    IF ~Has(a, <<"L", "lun", of>>) THEN Refuse(a)
    ELSE New(a, <<"L", "snap", n>>, [of |-> of, cap |-> a[<<"L", "lun", of>>].cap])
DeleteSnapshot(a, n)     == MustRemove(a, <<"L", "snap", n>>)
CreateVolumeFromSnapshot(a, n, cap, snap) ==
    IF ~Has(a, <<"L", "snap", snap>>) THEN Refuse(a)
    ELSE New(a, <<"L", "lun", n>>, [cap |-> cap, data |-> "copied"])

------------------------------------------------------- \* QoS policies (SAN)
CreateQoS(a) ==
    IF FreePolicies(a) = {} THEN Refuse(a)
    ELSE LET q == The(FreePolicies(a)) IN Send(a, Put(a, <<"L", "policy", q>>, [objs |-> {}]), {q})
DeleteQoS(a, q)                    == MustRemove(a, <<"L", "policy", q>>)
AssociateQoSWithVolume(a, n, q)    ==
    IF PolicyOf(a, n) # {} THEN Refuse(a)
    ELSE Change(a, <<"L", "policy", q>>, [a[<<"L", "policy", q>>] EXCEPT !.objs = @ \cup {n}])
DisassociateQoSWithVolume(a, n, q) == Change(a, <<"L", "policy", q>>, [a[<<"L", "policy", q>>] EXCEPT !.objs = @ \ {n}])
GetQoSNameByVolume(a, n)           == Ask(a, PolicyOf(a, n))
GetAssociateCountOfQoS(a, q)       == Ask(a, IF Has(a, <<"L", "policy", q>>) THEN a[<<"L", "policy", q>>].objs ELSE {})

------------------------------------------- \* Converged QoS (file systems)
CreateConvergedQoS(a)                 == CreateQoS(a)
AssociateConvergedQoSWithVolume(a, n, q) == AssociateQoSWithVolume(a, n, q)
DisassociateConvergedQoSWithVolume(a, n) ==
    IF PolicyOf(a, n) = {} THEN Refuse(a) ELSE DisassociateQoSWithVolume(a, n, The(PolicyOf(a, n)))
GetQoSPolicyIdByFsName(a, n)          == Ask(a, PolicyOf(a, n))
GetQoSPolicyAssociationCount(a, q)    == GetAssociateCountOfQoS(a, q)
GetConvergedQoSNameByID(a, q)         == IF Has(a, <<"L", "policy", q>>) THEN Ask(a, {q}) ELSE Refuse(a)
DeleteConvergedQoS(a, q)              == MustRemove(a, <<"L", "policy", q>>)

------------------------------------- \* File systems, shares, dtrees, quotas
GetFileSystemByName(a, n)    == Ask(a, Obj(a, <<"L", "fs", n>>))
CreateFileSystem(a, n)       == New(a, <<"L", "fs", n>>, [cap |-> 0, data |-> "empty"])
DeleteFileSystem(a, n)       == IF InUse(a, n) THEN Refuse(a) ELSE MustRemove(a, <<"L", "fs", n>>)

GetNfsShareByPath(a, n)      == Ask(a, Obj(a, <<"L", "share", n>>))
CreateNfsShare(a, n)         == New(a, <<"L", "share", n>>, [acc |-> {}])
DeleteNfsShare(a, n)         == MustRemove(a, <<"L", "share", n>>)
(* A client that is there already is as good as one that was added. *)
AllowNfsShareAccess(a, n, c) ==
    IF ~Has(a, <<"L", "share", n>>) THEN Refuse(a)
    ELSE Send(a, [a EXCEPT ![<<"L", "share", n>>].acc = @ \cup {c}], {})

GetQuotaByFileSystemById(a, n)   == Ask(a, Obj(a, <<"L", "quota", n>>))
GetQuotaByFileSystemName(a, n)   ==
    Then(GetFileSystemByName(a, n),
    LAMBDA b, fs : IF fs = {} THEN Fail(b) ELSE Ask(b, Obj(b, <<"L", "quota", n>>)))
CreateQuota(a, n, cap)           == New(a, <<"L", "quota", n>>, [cap |-> cap])
UpdateQuota(a, n, cap)           == Change(a, <<"L", "quota", n>>, [cap |-> cap])
DeleteQuota(a, n)                == Remove(a, <<"L", "quota", n>>)

GetDTreeByName(a, n)             == Ask(a, Obj(a, <<"L", "dtree", n>>))
CreateDTree(a, n)                == New(a, <<"L", "dtree", n>>, [cap |-> 0])
(* A dtree takes its quota with it. *)
DeleteDTree(a, n)                ==
    IF ~Has(a, <<"L", "dtree", n>>) \/ Has(a, <<"L", "share", n>>) THEN Refuse(a)
    ELSE Send(a, Drop(Drop(a, <<"L", "quota", n>>), <<"L", "dtree", n>>), {})
GetDTreeNfsShareByPath(a, n)     == Ask(a, Obj(a, <<"L", "share", n>>))
CreateDTreeNfsShare(a, n)        == New(a, <<"L", "share", n>>, [acc |-> {}])
DeleteDTreeNfsShare(a, n)        == MustRemove(a, <<"L", "share", n>>)
AddNfsShareAuthClient(a, n, c)   ==
    IF ~Has(a, <<"L", "share", n>>) \/ c \in a[<<"L", "share", n>>].acc THEN Refuse(a)
    ELSE Send(a, [a EXCEPT ![<<"L", "share", n>>].acc = @ \cup {c}], {})
GetQuotaByDTreeId(a, n)          == Ask(a, Obj(a, <<"L", "quota", n>>))
CreateDTreeQuota(a, n, cap)      == IF Has(a, <<"L", "dtree", n>>) THEN New(a, <<"L", "quota", n>>, [cap |-> cap]) ELSE Refuse(a)
UpdateDTreeQuota(a, n, cap)      == Change(a, <<"L", "quota", n>>, [cap |-> cap])
DeleteDTreeQuota(a, n)           == MustRemove(a, <<"L", "quota", n>>)

GetPoolByName(a)                 == Ask(a, {"pool"}) \cup Ask(a, {})
GetPoolById(a)                   == Ask(a, {"pool"})
============================================================================
