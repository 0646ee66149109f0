---------------------------- MODULE ASeriesArray ----------------------------
(***************************************************************************)
(* What the A-series REST client adds to the base client: its own look-ups *)
(* and creations, DataTurbo shares, KV cache stores; and the A-series      *)
(* SmartX helper.  An A-series backend has one site.                       *)
(***************************************************************************)
EXTENDS OceanstorArray

FindFileSystemByName(a, n)      == Ask(a, Obj(a, <<"L", "fs", n>>))
MakeFileSystem(a, n, cap)       == New(a, <<"L", "fs", n>>, [cap |-> cap, data |-> "empty", parent |-> "none", split |-> FALSE])
GetDataTurboShareByPath(a, n)   == Ask(a, Obj(a, <<"L", "dtshare", n>>))
CreateDataTurboShare(a, n)      == New(a, <<"L", "dtshare", n>>, [acc |-> {}])
DeleteDataTurboShare(a, n)      == Remove(a, <<"L", "dtshare", n>>)
AddDataTurboShareUser(a, n, u)  ==
    IF ~Has(a, <<"L", "dtshare", n>>) \/ u \in a[<<"L", "dtshare", n>>].acc THEN Refuse(a)
    ELSE Send(a, [a EXCEPT ![<<"L", "dtshare", n>>].acc = @ \cup {u}], {})
CreateKVCache(a, n, cap)        == New(a, <<"L", "kv", n>>, [cap |-> cap])
DeleteKVCache(a, n)             == Remove(a, <<"L", "kv", n>>)

FindDTreeByName(a, n)           == Ask(a, Obj(a, <<"L", "dtree", n>>))
MakeDTree(a, n)                 == New(a, <<"L", "dtree", n>>, [cap |-> 0])
DeleteDTreeByID(a, n)           ==
    IF ~Has(a, <<"L", "dtree", n>>) \/ Has(a, <<"L", "share", n>>) \/ Has(a, <<"L", "dtshare", n>>) THEN Refuse(a)
    ELSE Send(a, Drop(Drop(a, <<"L", "quota", n>>), <<"L", "dtree", n>>), {})
GetDTreeQuota(a, n)             == Ask(a, Obj(a, <<"L", "quota", n>>))
CreateDTreeQuota(a, n, cap)     == IF Has(a, <<"L", "dtree", n>>) THEN New(a, <<"L", "quota", n>>, [cap |-> cap]) ELSE Refuse(a)
UpdateDTreeQuota(a, n, cap)     == Change(a, <<"L", "quota", n>>, [cap |-> cap])
DeleteDTreeQuota(a, n)          == IF Has(a, <<"L", "quota", n>>) THEN Remove(a, <<"L", "quota", n>>) ELSE Refuse(a)

------------------------------------------------------------------- \* SmartX
updateIOPriority(a, qos) == IF qos = "min" THEN UpdateFileSystem(a, "L", "v") ELSE Ret(a, {})

SmartCreateQos(a, qos) ==
    Then(updateIOPriority(a, qos),
    LAMBDA b, x : Then(CreateQos(b, "L", "v"),
    LAMBDA c, q : IF The(q).on THEN Ret(c, {}) ELSE ActivateQos(c, "L", "v")))

SmartDeleteQos(a) ==
    Then(GetQosByID(a, "L", "v"),
    LAMBDA b, q : IF The(q).objs # {"v"} THEN UpdateQos(b, "L", "v", The(q).objs \ {"v"})
                  ELSE Then(DeactivateQos(b, "L", "v"), LAMBDA c, x : DeleteQos(c, "L", "v")))

(* Both A-series volume kinds make their share anew and then its clients. *)
AuthClients == <<"c1", "c2">>
AllowAll(a) ==
    Then(AllowNfsShareAccess(a, "L", "v", AuthClients[1]), LAMBDA b, x : NoKeys(AllowNfsShareAccess(b, "L", "v", AuthClients[2])))
AddAllUsers(a) ==
    Then(AddDataTurboShareUser(a, "v", AuthClients[1]), LAMBDA b, x : NoKeys(AddDataTurboShareUser(b, "v", AuthClients[2])))
RenewNfsShare(a) ==
    Then(GetNfsShareByPath(a, "L", "v"),
    LAMBDA b, sh : Then(IF sh = {} THEN Ret(b, {}) ELSE DeleteNfsShare(b, "L", "v"),
    LAMBDA c, x : Then(CreateNfsShare(c, "L", "v"),
    LAMBDA d, new : IF new = {} THEN Fail(d) ELSE Ret(d, Keys({"shareID"})))))
RenewDataTurboShare(a) ==
    Then(GetDataTurboShareByPath(a, "v"),
    LAMBDA b, sh : Then(IF sh = {} THEN Ret(b, {}) ELSE DeleteDataTurboShare(b, "v"),
    LAMBDA c, x : Then(CreateDataTurboShare(c, "v"), LAMBDA d, new : Ret(d, Keys({"shareID"})))))
RemoveNfsShare(a) ==
    Then(GetNfsShareByPath(a, "L", "v"), LAMBDA b, sh : IF sh = {} THEN Ret(b, {}) ELSE DeleteNfsShare(b, "L", "v"))
RemoveDataTurboShare(a) ==
    Then(GetDataTurboShareByPath(a, "v"), LAMBDA b, sh : IF sh = {} THEN Ret(b, {}) ELSE DeleteDataTurboShare(b, "v"))
=============================================================================
