----------------------------- MODULE DmeASeries -----------------------------
(***************************************************************************)
(* File system volumes of A-series arrays managed through DME.  A change   *)
(* is a DME task: the client starts it and polls it, and gives up when the *)
(* poll fails or half an hour has passed, while the task goes on.  A task  *)
(* the driver no longer waits for is an object of kind "task": what it     *)
(* will do.  One creation makes the file system and its share.             *)
(***************************************************************************)
EXTENDS Calls

(* An answer of DME's flow control: the error that is not rolled back.     *)
Busy(a) == {[st |-> "err", a |-> a, v |-> {"429"}]}
Query(a, v) == Ask(a, v) \cup Busy(a)

Task(n) == <<"L", "task", n>>

(* What a task does, whenever it runs: creations of what exists and        *)
(* deletions of what is gone fail in DME.                                  *)
Done(a, t) ==
    CASE t.do = "create" /\ ~Has(a, <<"L", "fs", "v">>) ->
            Put(Put(a, <<"L", "fs", "v">>, [cap |-> t.cap]), <<"L", t.share, "v">>, [acc |-> t.acc])
      [] t.do = "update" /\ Has(a, <<"L", "fs", "v">>) -> Put(a, <<"L", "fs", "v">>, [cap |-> t.cap])
      [] t.do = "delete" /\ ~(t.share = "fs" /\ {<<"L", "share", "v">>, <<"L", "dtshare", "v">>} \cap DOMAIN a # {}) ->
            Drop(a, <<"L", t.share, "v">>)
      [] OTHER -> a

(* A task that ends partly failed: the creation made the file system and   *)
(* not its share.                                                          *)
PartFailed(a, t) ==
    IF t.do = "create" /\ ~Has(a, <<"L", "fs", "v">>) THEN {Put(a, <<"L", "fs", "v">>, [cap |-> t.cap])} ELSE {}

(* The bound of the model: one task is left behind. *)
gracefulCallWithTaskWait(a, t) ==
    Refuse(a) \cup Busy(a)
    \cup (IF Done(a, t) # a THEN Send(a, Done(a, t), {}) ELSE {})
    \cup UNION {Refuse(b) : b \in PartFailed(a, t)}
    \cup (IF Has(a, Task("t")) THEN {} ELSE Refuse(Put(a, Task("t"), t)))

(* The task that nobody waits for comes to one of its ends. *)
Left(a)   == Has(a, Task("t")) /\ ~a[Task("t")].ended
Settle(a) == {[b EXCEPT ![Task("t")].ended = TRUE] : b \in {a, Done(a, a[Task("t")])} \cup PartFailed(a, a[Task("t")])}

------------------------------------------------------------------- \* Client
GetHyperScalePoolByName(a)  == Query(a, {"pool"}) \cup Query(a, {})
GetFileSystemByName(a)      == Query(a, Obj(a, <<"L", "fs", "v">>))
GetNfsShareByPath(a)        == Query(a, Obj(a, <<"L", "share", "v">>))
GetDataTurboShareByPath(a)  == Query(a, Obj(a, <<"L", "dtshare", "v">>))
GetDataTurboUserByName(a, u) == Query(a, Obj(a, <<"L", "user", u>>))

(* A request for a task: what it is to do, to which object. *)
Ordered(do, share, cap, acc) == [do |-> do, share |-> share, cap |-> cap, acc |-> acc, ended |-> FALSE]

CreateFileSystem(a, cap, k, acc) == gracefulCallWithTaskWait(a, Ordered("create", k, cap, acc))
UpdateFileSystem(a, cap)    == gracefulCallWithTaskWait(a, Ordered("update", "fs", cap, {}))
DeleteFileSystem(a)         == gracefulCallWithTaskWait(a, Ordered("delete", "fs", 0, {}))
DeleteNfsShare(a)           == gracefulCallWithTaskWait(a, Ordered("delete", "share", 0, {}))
DeleteDataTurboShare(a)     == gracefulCallWithTaskWait(a, Ordered("delete", "dtshare", 0, {}))

------------------------------------------------------------------- \* Volume
deleteNfsShare(a)       == Then(GetNfsShareByPath(a), LAMBDA b, s : IF s = {} THEN Ret(b, {}) ELSE DeleteNfsShare(b))
deleteDataTurboShare(a) == Then(GetDataTurboShareByPath(a), LAMBDA b, s : IF s = {} THEN Ret(b, {}) ELSE DeleteDataTurboShare(b))
(* Faulty: the error of the deletion is only logged. *)
deleteFilesystemUnchecked(a) ==
    Then(GetFileSystemByName(a), LAMBDA b, f : IF f = {} THEN Ret(b, {}) ELSE Ignore(DeleteFileSystem(b)))

deleteFilesystem(a)     == Then(GetFileSystemByName(a), LAMBDA b, f : IF f = {} THEN Ret(b, {}) ELSE DeleteFileSystem(b))
Delete(a) ==
    Then(deleteNfsShare(a), LAMBDA b, x : Then(deleteDataTurboShare(b), LAMBDA c, y : deleteFilesystem(c)))

validateAndPrepareParams(a) ==
    NoKeys(Then(GetHyperScalePoolByName(a), LAMBDA b, pool : IF pool = {} THEN Fail(b) ELSE Ret(b, {})))

(* v is "found", "none" (no file system), or the call fails: a file system *)
(* without its share is an error.                                          *)
setFsId(a, p) ==
    Then(GetFileSystemByName(a),
    LAMBDA b, fs : IF fs = {} THEN Ret(b, "none")
                   ELSE Then(IF p.proto = "nfs" THEN GetNfsShareByPath(b) ELSE GetDataTurboShareByPath(b),
                        LAMBDA c, s : IF s = {} THEN Fail(c) ELSE Ret(c, "found")))

(* Faulty: the loop ends with the first user. *)
getCreateDpcShareParamFirst(a) ==
    Then(GetDataTurboUserByName(a, "c1"), LAMBDA b, u : IF u = {} THEN Fail(b) ELSE Ret(b, {"c1"}))

(* The users of the share: those of the two that DME knows; an error when  *)
(* it knows neither.                                                       *)
getCreateDpcShareParam(a) ==
    Then(GetDataTurboUserByName(a, "c1"),
    LAMBDA b, u : Then(GetDataTurboUserByName(b, "c2"),
    LAMBDA c, w : LET known == (IF u = {} THEN {} ELSE {"c1"}) \cup (IF w = {} THEN {} ELSE {"c2"})
                  IN  IF known = {} THEN Fail(c) ELSE Ret(c, known)))

(* A share that is left over is deleted before the creation makes its own. *)
(* v: who may use the new share.                                           *)
getCreateFilesystemParams(a, p) ==
    IF p.proto = "nfs" THEN Then(deleteNfsShare(a), LAMBDA b, x : Ret(b, {"c1", "c2"}))
    ELSE Then(deleteDataTurboShare(a), LAMBDA b, x : getCreateDpcShareParam(b))

createFilesystem(a, p) ==
    Then(setFsId(a, p),
    LAMBDA b, found :
        IF found = "found" THEN Ret(b, NoRes)
        ELSE Then(getCreateFilesystemParams(b, p),
             LAMBDA c, acc : Then(CreateFileSystem(c, p.cap, IF p.proto = "nfs" THEN "share" ELSE "dtshare", acc),
             LAMBDA d, y : Then(setFsId(d, p), LAMBDA e, again : IF again = "none" THEN Fail(e) ELSE Ret(e, NoRes)))))

rollBackendFilesystem(a) == Delete(a)

expandFilesystem(a, p) ==
    Then(GetFileSystemByName(a),
    LAMBDA b, fs : CASE fs = {} -> Fail(b)
                     [] fs # {} /\ p.esize = The(fs).cap -> Ret(b, {})
                     [] fs # {} /\ p.esize < The(fs).cap -> Fail(b)
                     [] OTHER -> Then(GetHyperScalePoolByName(b),
                                 LAMBDA c, pool : IF pool = {} THEN Fail(c) ELSE UpdateFileSystem(c, p.esize)))

Create == <<"validateAndPrepareParams", "createFilesystem">>

Plan(op, a, p) ==
    CASE op = "Create" -> Ret(a, Create)
      [] op = "Delete" -> Then(Delete(a), LAMBDA b, x : Ret(b, <<>>))
      [] op = "Expand" -> Then(expandFilesystem(a, p), LAMBDA b, x : Ret(b, <<>>))

Run(t, a, p, r) ==
    CASE t = "validateAndPrepareParams" -> validateAndPrepareParams(a)
      [] t = "createFilesystem"         -> createFilesystem(a, p)

(* The clean-up hangs on the first step: whatever fails after it, all that *)
(* has the volume's name is deleted.                                       *)
Back(t, a, r) == IF t = "validateAndPrepareParams" THEN rollBackendFilesystem(a) ELSE Ret(a, {})
=============================================================================
