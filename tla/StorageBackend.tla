---------------------------- MODULE StorageBackend ----------------------------
(***************************************************************************)
(* The life of a storage backend: the user's claim, the controller that     *)
(* makes and binds its content (pkg/storage-backend/controller), the sidecar *)
(* that has the driver register it (pkg/sidecar/controller), and the driver's *)
(* cache of logged-in backends (csi/provider, csi/backend/handler).          *)
(* A content is named after the uid of its claim, so a claim that is deleted *)
(* and created again has another content, while the driver's cache goes by   *)
(* the claim's name.                                                         *)
(***************************************************************************)
EXTENDS Naturals, FiniteSets, FiniteSetsExt, Sequences

(***************************************************************************)
(* The API objects a storage backend consists of: the StorageBackendClaim  *)
(* a user writes, the StorageBackendContent the controller makes of it, and *)
(* the configmap and the secret both refer to; the predicates the           *)
(* controllers decide by, and what the API server does with a write.        *)
(*                                                                         *)
(* An object is a record with its resource version rv (0: no such object)   *)
(* and src, which tells apart two in-memory copies of one version: "api" is *)
(* the stored object and what a call answers, "watch" the copy an informer  *)
(* holds, which the code shares between lister, store and running syncs.    *)
(***************************************************************************)
Gone == [rv |-> 0, uid |-> 0]

Is(o) == o.rv > 0

NilStatus == [phase |-> "nil", typed |-> FALSE, bound |-> 0, cm |-> "", sec |-> "", cert |-> FALSE]

NewClaim(rv, u, spec) ==
    [rv |-> rv, uid |-> u, src |-> "api", del |-> FALSE, fin |-> FALSE, spec |-> spec, st |-> NilStatus]

NilContentStatus ==
    [set |-> FALSE, id |-> FALSE, vendor |-> FALSE, online |-> FALSE, sec |-> "", cert |-> FALSE,
     caps |-> FALSE, from |-> 0]

\* createContent copies the secret, not the certificate settings; those follow through updateClaimTask.
NewContent(n, u, spec) ==
    [rv |-> 1, uid |-> u, src |-> "api", of |-> n, del |-> FALSE, fin |-> FALSE,
     spec |-> [spec EXCEPT !.cert = FALSE], st |-> NilContentStatus]

IsClaimBoundContent(c) == c.st.phase # "nil" /\ c.st.bound # 0

NeedAddClaimBoundFinalizers(c) == ~c.del /\ ~c.fin /\ IsClaimBoundContent(c)

\* Faulty: a bound claim keeps its finalizer.
NeedRemoveClaimFinalizersIfUnbound(c) == c.del /\ c.fin /\ ~IsClaimBoundContent(c)

NeedRemoveClaimBoundFinalizers(c) == c.del /\ c.fin

IsClaimReady(c) == c.st.phase = "Bound"

NeedChangeContent(c) ==
    IsClaimBoundContent(c) /\ (c.st.sec # c.spec.sec \/ c.st.cert # c.spec.cert)

NeedAddContentBoundFinalizers(k) == ~k.del /\ ~k.fin

NeedRemoveContentBoundFinalizers(k) == k.del /\ k.fin

IsContentReady(k) == k.st.id \/ k.st.vendor

\* Faulty: a changed secret is not looked at.
needUpdateOfCert(k) == k.st.set /\ k.spec.cert # k.st.cert

needUpdate(k) == k.st.set /\ (k.spec.sec # k.st.sec \/ k.spec.cert # k.st.cert)

\* Faulty: a claim that has a content is not woken.
needUpdateUnboundClaim(c, k) == k.st.set /\ c.st.bound = 0

needUpdateClaimStatus(c, k) == k.st.set /\ (c.st.bound = 0 \/ c.st.phase # "Bound")

\* An update event that changes what the provider reports is not queued.
needEnQueue(new, old) == new.st.set /\ old.st.set => new.st.caps = old.st.caps

\* StoreObjectUpdate throws away only an older version.
Newer(o, old) == Is(old) => old.rv <= o.rv

(***************************************************************************)
(* The API server: a write of a stale version is refused, one that changes  *)
(* nothing keeps the version, and an object being deleted goes with its     *)
(* last finalizer.  top is the newest version given out under a name.       *)
(***************************************************************************)
Accepted(cur, o) == Is(cur) /\ cur.uid = o.uid /\ cur.rv = o.rv

Written(cur, new, top) == IF new = cur THEN cur ELSE [new EXCEPT !.rv = top + 1]

Kept(o) == IF o.del /\ ~o.fin THEN Gone ELSE o

PutClaim(a, n, new) ==
    LET w == Written(a.claim[n], new, a.top[n])
    IN  [a EXCEPT !.claim[n] = Kept(w), !.top[n] = w.rv]

PutContent(a, u, new) == [a EXCEPT !.content[u] = Kept(Written(@, new, @.rv))]

UpdateClaim(a, n, o) == PutClaim(a, n, [a.claim[n] EXCEPT !.fin = o.fin])

UpdateClaimStatus(a, n, o) == PutClaim(a, n, [a.claim[n] EXCEPT !.st = o.st])

UpdateContent(a, u, o) == PutContent(a, u, [a.content[u] EXCEPT !.fin = o.fin, !.spec = o.spec])

UpdateContentStatus(a, u, o) == PutContent(a, u, [a.content[u] EXCEPT !.st = o.st])

DeleteContent(a, u) ==
    IF Is(a.content[u]) THEN PutContent(a, u, [a.content[u] EXCEPT !.del = TRUE]) ELSE a

\* The answer of a write is the object as written, also when the write was its last.
Answer(cur, o) == IF Is(cur) THEN cur ELSE [o EXCEPT !.src = "api", !.rv = @ + 1]

\* Configmaps and secrets, with a finalizer each and a version for the conflict check.
Absent == [ver |-> 0, fin |-> FALSE, del |-> FALSE]

Present(p) == p.ver > 0

SetProtection(a, x, on) ==
    [a EXCEPT !.prot[x] = IF @.del /\ ~on THEN Absent ELSE [@ EXCEPT !.fin = on, !.ver = @ + 1]]

(***************************************************************************)
(* The controllers, the driver and their surroundings.                      *)
(***************************************************************************)
CONSTANT Scenarios  \* [names, creates, edits, deletes, cfaults, sfaults, crashes, offs, unprots, selects, cert, served, lag]

CONSTANT MaxClears  \* how often the sidecar empties the status of one content

VARIABLES scn, api, ctl, side, drv, left

vars == <<scn, api, ctl, side, drv, left>>

Names == scn.names

Uids == 1 .. scn.creates

Things == {"cm", "s1", "s2"}

Idle == [pc |-> "idle"]

Started(o) == [pc |-> "start", obj |-> o, need |-> FALSE, ref |-> 0]

Watched(o) == IF Is(o) THEN [o EXCEPT !.src = "watch"] ELSE o

(***************************************************************************)
(* The claim controller.  A sync is a flow of tasks; between two API calls   *)
(* only the worker's object changes, so a worker rests at its next call.     *)
(* The object is the lister's own copy: what a task assigns to it before a   *)
(* call that then fails stays assigned.                                      *)
(***************************************************************************)
ClaimTasks ==
    <<"pending", "rmcm", "rmsec", "delete", "unfin", "addfin", "create", "status", "update">>

\* Faulty: the content is looked up in the lister.
ContentInLister(c, o) == o.st.bound # 0 /\ Is(c.clst[o.st.bound])

ContentInStore(c, o) == o.st.bound # 0 /\ c.cstore[o.st.bound] > 0

\* The secret or configmap x has a finalizer and no other claim's status names it.
Unused(c, n, x) ==
    /\ api.prot[x].fin
    /\ \A m \in Names \ {n} : Is(c.lst[m]) => x \notin {c.lst[m].st.cm, c.lst[m].st.sec}

\* What t has to do; its reads happen with the call before it.
Needed(c, n, t, o) ==
    CASE t = "pending" -> o.st.phase = "nil"
      [] t = "rmcm"    -> o.st.cm # "" /\ Unused(c, n, "cm")
      [] t = "rmsec"   -> o.st.sec # "" /\ Unused(c, n, o.spec.sec)
      [] t = "delete"  -> o.del /\ ContentInStore(c, o)
      [] t = "unfin"   -> NeedRemoveClaimBoundFinalizers(o)
      [] t = "addfin"  -> NeedAddClaimBoundFinalizers(o)
      [] t = "create"  -> ~IsClaimBoundContent(o)
      [] t = "status"  -> ~IsClaimReady(o)
      [] t = "update"  -> NeedChangeContent(o)

\* What the task assigns before its first call.
Prepared(t, o) ==
    CASE t = "pending" -> [o EXCEPT !.st = [NilStatus EXCEPT !.phase = "Pending"]]
      [] t = "unfin"   -> [o EXCEPT !.fin = FALSE]
      [] t = "addfin"  -> [o EXCEPT !.fin = TRUE]
      [] t = "update"  -> [o EXCEPT !.st.sec = o.spec.sec, !.st.cert = o.spec.cert]
      [] OTHER         -> o

Shared(have, o) == IF have.rv = o.rv /\ have.uid = o.uid /\ Is(have) /\ have.src = o.src THEN o ELSE have

Assign(c, n, o) == [c EXCEPT !.lst[n] = Shared(@, o), !.store[n] = Shared(@, o), !.cw[n].obj = o]

Protecting == {"rmcm", "rmsec", "cmw", "secw"}

Protected(t, o) == IF t \in {"rmcm", "cmw"} THEN "cm" ELSE o.spec.sec

Go(c, n, t, o) ==
    [Assign(c, n, Prepared(t, o)) EXCEPT
        !.cw[n].pc = t, !.cw[n].ref = IF t \in Protecting THEN api.prot[Protected(t, o)].ver ELSE 0]

\* The flow continues after task t with the object o: the next task that has a call to make.
Proceed(c, n, t, o) ==
    LET i  == IF t = "start" THEN 0 ELSE CHOOSE j \in DOMAIN ClaimTasks : ClaimTasks[j] = t
        js == {j \in DOMAIN ClaimTasks : j > i /\ Needed(c, n, ClaimTasks[j], o)}
    IN  IF js = {} THEN [Assign(c, n, o) EXCEPT !.cw[n] = Idle] ELSE Go(c, n, ClaimTasks[Min(js)], o)

Failed(c, n) == [c EXCEPT !.cw[n] = Idle, !.cq = @ \cup {n}]

updateClaimStore(c, n, o) == [c EXCEPT !.store[n] = IF Newer(o, @) THEN o ELSE @]

At(n, t) == ctl.cw[n].pc = t

Obj(n) == ctl.cw[n].obj

\* The lister takes in the current claim; an update that keeps the version is not queued.
WatchClaim(n) ==
    /\ ctl.lst[n].rv # api.claim[n].rv
    /\ ctl' = [ctl EXCEPT !.lst[n] = Watched(api.claim[n]), !.cq = @ \cup {n}]
    /\ UNCHANGED <<scn, api, side, drv, left>>

syncClaimByKey(n) ==
    /\ n \in ctl.cq /\ At(n, "idle")
    /\ LET c == [ctl EXCEPT !.cq = @ \ {n}]
           o == ctl.lst[n]
           s == ctl.store[n]
       IN  ctl' = CASE Is(o) /\ Newer(o, s) ->
                         Proceed([c EXCEPT !.store[n] = o, !.cw[n] = Started(o)], n, "start", o)
                    [] ~Is(o) /\ Is(s) ->
                         [c EXCEPT !.store[n] = Gone, !.kq = @ \cup ({s.st.bound} \ {0})]
                    [] OTHER -> c
    /\ UNCHANGED <<scn, api, side, drv, left>>

\* A write of the worker's object: refused if stale, else the store keeps the answer and the
\* flow goes on as Then says.
WriteClaim(n, a, Then(_, _)) ==
    /\ IF Accepted(api.claim[n], Obj(n))
       THEN LET o == Answer(a.claim[n], Obj(n))
            IN  api' = a /\ ctl' = Then(updateClaimStore(ctl, n, o), o)
       ELSE ctl' = Failed(ctl, n) /\ UNCHANGED api
    /\ UNCHANGED <<scn, side, drv, left>>

WriteClaimStatus(n, Then(_, _)) == WriteClaim(n, UpdateClaimStatus(api, n, Obj(n)), Then)

setClaimStatusPending(n) ==
    /\ At(n, "pending")
    /\ WriteClaimStatus(n, LAMBDA c, o : Proceed(c, n, "pending", o))

\* createContent notes the configmap and the secret in the status, then asks for the content.
NoteConfigmap(c, n) ==
    LET o == c.cw[n].obj
    IN  [Assign(c, n, [o EXCEPT !.st.cm = "cm"]) EXCEPT !.cw[n].pc = "sec", !.cw[n].need = @ \/ o.st.cm = ""]

NoteSecret(c, n) ==
    LET o == c.cw[n].obj
    IN  [Assign(c, n, [o EXCEPT !.st.sec = o.spec.sec])
            EXCEPT !.cw[n].pc = "new", !.cw[n].need = @ \/ o.st.sec # o.spec.sec]

writeFinalizer(n) ==
    /\ ctl.cw[n].pc \in Protecting
    /\ LET x == Protected(ctl.cw[n].pc, Obj(n))
       IN  IF api.prot[x].ver = ctl.cw[n].ref
           THEN /\ api' = SetProtection(api, x, ctl.cw[n].pc \in {"cmw", "secw"})
                /\ ctl' = CASE At(n, "cmw")  -> NoteConfigmap(ctl, n)
                             [] At(n, "secw") -> NoteSecret(ctl, n)
                             [] OTHER         -> Proceed(ctl, n, ctl.cw[n].pc, Obj(n))
           ELSE ctl' = Failed(ctl, n) /\ UNCHANGED api
    /\ UNCHANGED <<scn, side, drv, left>>

deleteContent(n) ==
    /\ At(n, "delete")
    /\ api' = DeleteContent(api, Obj(n).st.bound)
    /\ ctl' = Proceed(ctl, n, "delete", Obj(n))
    /\ UNCHANGED <<scn, side, drv, left>>

removeClaimFinalizer(n) ==
    /\ At(n, "unfin")
    /\ WriteClaim(n, UpdateClaim(api, n, Obj(n)), LAMBDA c, o : Proceed(c, n, "unfin", Obj(n)))

addClaimFinalizer(n) ==
    /\ At(n, "addfin")
    /\ WriteClaim(n, UpdateClaim(api, n, Obj(n)), LAMBDA c, o : Proceed(c, n, "addfin", Obj(n)))

syncConfigmap(n) ==
    /\ At(n, "create")
    /\ LET p == api.prot["cm"]
       IN  ctl' = CASE ~Present(p)           -> Failed(ctl, n)
                    [] Present(p) /\ p.fin   -> NoteConfigmap(ctl, n)
                    [] Present(p) /\ ~p.fin  -> Go(ctl, n, "cmw", Obj(n))
    /\ UNCHANGED <<scn, api, side, drv, left>>

syncSecret(n) ==
    /\ At(n, "sec")
    /\ LET p == api.prot[Obj(n).spec.sec]
       IN  ctl' = CASE ~Present(p)           -> Failed(ctl, n)
                    [] Present(p) /\ p.fin   -> NoteSecret(ctl, n)
                    [] Present(p) /\ ~p.fin  -> Go(ctl, n, "secw", Obj(n))
    /\ UNCHANGED <<scn, api, side, drv, left>>

\* The content is created, or taken over if it is there; the status is written only if a
\* configmap or secret was noted.
createContent(n) ==
    /\ At(n, "new")
    /\ LET o == [Obj(n) EXCEPT !.st.bound = Obj(n).uid]
           k == IF Is(api.content[o.uid]) THEN api.content[o.uid] ELSE NewContent(n, o.uid, o.spec)
           c == [ctl EXCEPT !.cstore[o.uid] = IF @ <= k.rv THEN k.rv ELSE @]
       IN  /\ api' = [api EXCEPT !.content[o.uid] = k]
           /\ ctl' = IF ctl.cw[n].need THEN Go(c, n, "newst", o) ELSE Proceed(c, n, "create", o)
    /\ UNCHANGED <<scn, side, drv, left>>

writeCreated(n) ==
    /\ At(n, "newst")
    /\ WriteClaimStatus(n, LAMBDA c, o : Proceed(c, n, "create", o))

ContentOfClaim(a, n) ==
    IF Is(a.claim[n]) /\ a.claim[n].st.bound # 0 THEN a.content[a.claim[n].st.bound] ELSE Gone

Running(a) ==
    LET ns == {n \in Names : Is(a.claim[n])}
        us == {u \in Uids : Is(a.content[u])}
    IN  [lst |-> [n \in Names |-> Watched(a.claim[n])], store |-> [n \in Names |-> Watched(a.claim[n])],
         clst |-> [u \in Uids |-> Watched(a.content[u])], cstore |-> [u \in Uids |-> a.content[u].rv],
         cq |-> ns, kq |-> us, cw |-> [n \in Names |-> Idle]]

\* The claim read again has no status yet: a nil dereference, which ends the process.
updateStorageBackendClaimStatus(n) ==
    /\ At(n, "status")
    /\ LET k == ContentOfClaim(api, n)
           o == [Obj(n) EXCEPT !.st.typed = TRUE]
       IN  ctl' = CASE Is(api.claim[n]) /\ api.claim[n].st.phase = "nil" -> Running(api)
                    [] ~Is(k) \/ ~Present(api.prot["cm"])                -> Failed(ctl, n)
                    [] Is(k) /\ Present(api.prot["cm"]) /\ ~IsContentReady(k) ->
                         Proceed(ctl, n, "status", o)
                    [] OTHER -> Go(ctl, n, "statusw", [o EXCEPT !.st.phase = IF k.st.vendor THEN "Bound" ELSE @])
    /\ UNCHANGED <<scn, api, side, drv, left>>

writeFinalStatus(n) ==
    /\ At(n, "statusw")
    /\ WriteClaimStatus(n, LAMBDA c, o : Proceed(c, n, "status", o))

\* The claim's status is written first; only then is the content read, and written.
updateStorageBackendClaim(n) ==
    /\ At(n, "update")
    /\ WriteClaimStatus(n, LAMBDA c, o :
          IF Is(api.content[o.st.bound])
          THEN [c EXCEPT !.cw[n].pc = "updw", !.cw[n].ref = api.content[o.st.bound].rv]
          ELSE Failed(c, n))

writeContentSpec(n) ==
    /\ At(n, "updw")
    /\ LET u == Obj(n).st.bound
           k == api.content[u]
       IN  IF Is(k) /\ k.rv = ctl.cw[n].ref
           THEN /\ api' = UpdateContent(api, u, [k EXCEPT !.spec = Obj(n).spec])
                /\ ctl' = [ctl EXCEPT !.cw[n] = Idle]
           ELSE ctl' = Failed(ctl, n) /\ UNCHANGED api
    /\ UNCHANGED <<scn, side, drv, left>>

\* A call of the worker fails without effect.
ClaimCallFails(n) ==
    /\ left.cfaults > 0 /\ ~At(n, "idle")
    /\ ctl' = Failed(ctl, n)
    /\ left' = [left EXCEPT !.cfaults = @ - 1]
    /\ UNCHANGED <<scn, api, side, drv>>

ClaimWorker(n) ==
    \/ syncClaimByKey(n) \/ setClaimStatusPending(n) \/ writeFinalizer(n)
    \/ deleteContent(n) \/ removeClaimFinalizer(n) \/ addClaimFinalizer(n) \/ syncConfigmap(n)
    \/ syncSecret(n) \/ createContent(n) \/ writeCreated(n) \/ updateStorageBackendClaimStatus(n)
    \/ writeFinalStatus(n) \/ updateStorageBackendClaim(n) \/ writeContentSpec(n)

(***************************************************************************)
(* The controller's content worker: it keeps the content's finalizer and     *)
(* wakes the claim.                                                          *)
(***************************************************************************)
WatchContent(u) ==
    /\ ctl.clst[u].rv # api.content[u].rv
    /\ ctl' = [ctl EXCEPT !.clst[u] = Watched(api.content[u]), !.kq = @ \cup {u}]
    /\ UNCHANGED <<scn, api, side, drv, left>>

\* The end of syncContent: the claim of the content k is queued if it lacks what k has.
WakeClaim(c, k) ==
    [c EXCEPT !.cq = @ \cup {n \in {k.of} : Is(c.store[n]) /\ needUpdateClaimStatus(c.store[n], k)}]

KFailed(c, u) == [c EXCEPT !.kq = @ \cup {u}]

\* The finalizer is set or removed on the lister's copy and written; a stale copy is refused.
writeContentFinalizer(c, u, f) ==
    LET k == [c.clst[u] EXCEPT !.fin = f]
        a == UpdateContent(api, u, k)
        d == [c EXCEPT !.clst[u] = k]
    IN  \/ /\ Accepted(api.content[u], k)
           /\ api' = a
           /\ ctl' = WakeClaim([d EXCEPT !.cstore[u] = Answer(a.content[u], k).rv], k)
           /\ UNCHANGED left
        \/ /\ ~Accepted(api.content[u], k)
           /\ ctl' = KFailed(d, u)
           /\ UNCHANGED <<api, left>>
        \/ /\ left.cfaults > 0
           /\ ctl' = KFailed(d, u)
           /\ left' = [left EXCEPT !.cfaults = @ - 1]
           /\ UNCHANGED api

syncContentByKey(u) ==
    /\ u \in ctl.kq
    /\ LET k == ctl.clst[u]
           c == [ctl EXCEPT !.kq = @ \ {u}]
           d == [c EXCEPT !.cstore[u] = k.rv]
       IN  \/ /\ Is(k) /\ ctl.cstore[u] <= k.rv
              /\ NeedAddContentBoundFinalizers(k) \/ NeedRemoveContentBoundFinalizers(k)
              /\ writeContentFinalizer(d, u, ~k.del)
           \/ /\ Is(k) /\ ctl.cstore[u] <= k.rv
              /\ ~NeedAddContentBoundFinalizers(k) /\ ~NeedRemoveContentBoundFinalizers(k)
              /\ ctl' = WakeClaim(d, k)
              /\ UNCHANGED <<api, left>>
           \/ /\ Is(k) /\ ctl.cstore[u] > k.rv
              /\ ctl' = c
              /\ UNCHANGED <<api, left>>
           \/ /\ ~Is(k)
              /\ ctl' = [d EXCEPT !.cq = @ \cup IF ctl.cstore[u] > 0 THEN {api.owner[u]} ELSE {}]
              /\ UNCHANGED <<api, left>>
    /\ UNCHANGED <<scn, side, drv>>

(***************************************************************************)
(* The driver's cache, by the claim's name: the content the plugin was built *)
(* from, the secret it logged in with and whether it is available.           *)
(***************************************************************************)
NotCached == [from |-> 0, sec |-> "", avail |-> FALSE]

Cached(d, n) == d.cache[n].from # 0

\* The plugin logs in with the secret the claim names now.
CanLogIn(a, n) == Is(a.claim[n]) /\ Present(a.prot[a.claim[n].spec.sec])

CanBuild(a, k) == Present(a.prot["cm"]) /\ Present(a.prot[k.spec.sec]) /\ CanLogIn(a, k.of)

BuildBackend(a, k) == [from |-> k.uid, sec |-> a.claim[k.of].spec.sec, avail |-> TRUE]

Fetched(a, n, checkOnline) ==
    LET k == ContentOfClaim(a, n)
    IN  IF Is(k) /\ k.st.set /\ (checkOnline => k.st.online) THEN k ELSE Gone

CanAdd(d, a, k) == Is(k) /\ (Cached(d, k.of) \/ CanBuild(a, k))

UpdateAndAddBackend(d, a, k) ==
    [d EXCEPT !.cache[k.of] = IF Cached(d, k.of) THEN [@ EXCEPT !.avail = TRUE] ELSE BuildBackend(a, k)]

Delete(d, n) == [d EXCEPT !.cache[n] = NotCached]

NeedRebuild(d, n, u) == d.cache[n].from # u

SetOnline(a, k, on) == UpdateContentStatus(a, k.uid, [k EXCEPT !.st.online = on])

(***************************************************************************)
(* The sidecar: a flow of tasks over one content, each the provider's call   *)
(* and the write of the status.                                              *)
(***************************************************************************)
SAt(u, t) == side.sw[u].pc = t

SObj(u) == side.sw[u].obj

SFailed(s, u) == [s EXCEPT !.sw[u] = Idle, !.sq = @ \cup {u}]

SideTasks == <<"remove", "add", "update", "get">>

SideNeeded(t, k) ==
    CASE t = "remove" -> k.del /\ k.st.id
      [] t = "add"    -> ~IsContentReady(k)
      [] t = "update" -> needUpdate(k)
      [] t = "get"    -> ~k.del

SideProceed(s, u, t, k) ==
    LET i  == IF t = "init" THEN 0 ELSE CHOOSE j \in DOMAIN SideTasks : SideTasks[j] = t
        js == {j \in DOMAIN SideTasks : j > i /\ SideNeeded(SideTasks[j], k)}
    IN  [s EXCEPT !.sw[u] = IF js = {} THEN Idle ELSE [@ EXCEPT !.pc = SideTasks[Min(js)], !.obj = k]]

WatchSide(u) ==
    /\ side.slst[u].rv # api.content[u].rv
    /\ LET old == side.slst[u]
           new == api.content[u]
       IN  side' = [side EXCEPT !.slst[u] = new,
                                !.sq = IF Is(old) /\ Is(new) /\ ~needEnQueue(new, old) THEN @ ELSE @ \cup {u}]
    /\ UNCHANGED <<scn, api, ctl, drv, left>>

Due(u) ==
    LET k == api.content[u]
    IN  \/ \E t \in {"remove", "add", "update"} : SideNeeded(t, k)
        \/ ~k.del /\ (NeedRebuild(drv, k.of, u) \/ ~drv.cache[k.of].avail)

\* The informer's periodic resync queues every content it holds; one whose sync would change
\* nothing is left out.
Resync(u) ==
    /\ Is(side.slst[u]) /\ u \notin side.sq /\ SAt(u, "idle") /\ Due(u)
    /\ side' = [side EXCEPT !.sq = @ \cup {u}]
    /\ UNCHANGED <<scn, api, ctl, drv, left>>

\* A sync begins by reading the content; one without status gets an empty one.
SideSync(u) ==
    /\ u \in side.sq /\ SAt(u, "idle") /\ side.clears[u] < MaxClears
    /\ LET s == [side EXCEPT !.sq = @ \ {u}]
           k == api.content[u]
           w == [pc |-> "initw", first |-> FALSE, obj |-> [k EXCEPT !.st.set = TRUE, !.st.online = TRUE]]
       IN  side' = CASE ~Is(side.slst[u])                  -> [s EXCEPT !.sstore[u] = 0]
                     [] side.sstore[u] > side.slst[u].rv /\ Is(side.slst[u]) -> s
                     [] OTHER ->
                          LET t == [s EXCEPT !.sstore[u] = side.slst[u].rv]
                          IN  CASE ~Is(k)                 -> SFailed(t, u)
                                [] Is(k) /\ ~k.st.set     -> [t EXCEPT !.sw[u] = w]
                                [] Is(k) /\ k.st.set      -> SideProceed([t EXCEPT !.sw[u] = w], u, "init", k)
    /\ UNCHANGED <<scn, api, ctl, drv, left>>

\* A status write of the sidecar: refused if stale, else the flow goes on as Then says.
WriteSide(u, Then(_, _)) ==
    /\ LET k == SObj(u)
           a == UpdateContentStatus(api, u, k)
           r == Answer(a.content[u], k)
       IN  IF Accepted(api.content[u], k)
           THEN api' = a /\ side' = Then([side EXCEPT !.sstore[u] = IF @ <= r.rv THEN r.rv ELSE @], r)
           ELSE side' = SFailed(side, u) /\ UNCHANGED api

initContentStatus(u) ==
    /\ SAt(u, "initw")
    /\ WriteSide(u, LAMBDA s, k : SideProceed(s, u, "init", k))
    /\ UNCHANGED <<scn, ctl, drv, left>>

RemoveStorageBackend(u) ==
    /\ SAt(u, "remove")
    /\ drv' = Delete(drv, SObj(u).of)
    /\ side' = [side EXCEPT !.sw[u].pc = "clear"]
    /\ UNCHANGED <<scn, api, ctl, left>>

\* The content is read again and its status emptied; the flow keeps the object it had.
clearContentStatus(u) ==
    /\ SAt(u, "clear")
    /\ LET k == api.content[u]
       IN  api' = IF Is(k) THEN UpdateContentStatus(api, u, [k EXCEPT !.st = [NilContentStatus EXCEPT !.set = TRUE]])
                  ELSE api
    /\ side' = SideProceed([side EXCEPT !.clears[u] = @ + 1], u, "remove", SObj(u))
    /\ UNCHANGED <<scn, ctl, drv, left>>

CopySpec(k) == [k EXCEPT !.st.sec = k.spec.sec, !.st.cert = k.spec.cert]

AddStorageBackend(u) ==
    /\ SAt(u, "add")
    /\ LET k == Fetched(api, SObj(u).of, FALSE)
       IN  IF CanAdd(drv, api, k)
           THEN /\ drv' = UpdateAndAddBackend(drv, api, k)
                /\ side' = [side EXCEPT !.sw[u].pc = "addw", !.sw[u].obj = [CopySpec(@) EXCEPT !.st.id = TRUE]]
           ELSE side' = SFailed(side, u) /\ UNCHANGED drv
    /\ UNCHANGED <<scn, api, ctl, left>>

\* The statistics are first asked for within the create task.
writeCreatedStatus(u) ==
    /\ SAt(u, "addw")
    /\ WriteSide(u, LAMBDA s, k : [s EXCEPT !.sw[u] = [@ EXCEPT !.pc = "get", !.obj = k, !.first = TRUE]])
    /\ UNCHANGED <<scn, ctl, drv, left>>

UpdateStorageBackend(u) ==
    /\ SAt(u, "update")
    /\ LET n == SObj(u).of
           k == Fetched(api, n, FALSE)
       IN  IF CanAdd(drv, api, k) /\ CanLogIn(api, n)
           THEN /\ drv' = [UpdateAndAddBackend(drv, api, k) EXCEPT !.cache[n].sec = api.claim[n].spec.sec]
                /\ side' = [side EXCEPT !.sw[u].pc = "online"]
           ELSE side' = SFailed(side, u) /\ UNCHANGED drv
    /\ UNCHANGED <<scn, api, ctl, left>>

SetStorageBackendContentOnline(u) ==
    /\ SAt(u, "online")
    /\ LET n == SObj(u).of
           k == ContentOfClaim(api, n)
       IN  IF Is(k) /\ k.st.set
           THEN /\ api' = SetOnline(api, k, TRUE)
                /\ drv' = IF Cached(drv, n) THEN [drv EXCEPT !.cache[n].avail = TRUE] ELSE drv
                /\ side' = [side EXCEPT !.sw[u].pc = "updw", !.sw[u].obj = CopySpec(@)]
           ELSE side' = SFailed(side, u) /\ UNCHANGED <<api, drv>>
    /\ UNCHANGED <<scn, ctl, left>>

writeUpdatedStatus(u) ==
    /\ SAt(u, "updw")
    /\ WriteSide(u, LAMBDA s, k : SideProceed(s, u, "update", k))
    /\ UNCHANGED <<scn, ctl, drv, left>>

WithStats(k, from) ==
    [CopySpec(k) EXCEPT !.st.vendor = TRUE, !.st.online = TRUE, !.st.caps = TRUE, !.st.from = from]

\* The provider answers from the plugin built for the content that asks, or builds one for
\* the content the claim has now.
GetBackendStats(u) ==
    /\ SAt(u, "get")
    /\ LET n == SObj(u).of
           k == Fetched(api, n, TRUE)
           d == IF NeedRebuild(drv, n, u) THEN Delete(drv, n) ELSE drv
       IN  IF ~Is(k) THEN side' = SFailed(side, u) /\ UNCHANGED drv
           ELSE IF CanAdd(d, api, k)
           THEN /\ drv' = IF Cached(d, n) THEN d ELSE UpdateAndAddBackend(d, api, k)
                /\ side' = [side EXCEPT !.sw[u].pc = "reg", !.sw[u].obj = WithStats(@, drv'.cache[n].from)]
           ELSE side' = SFailed(side, u) /\ drv' = d
    /\ UNCHANGED <<scn, api, ctl, left>>

registerOrUpdateOneBackend(d, u) ==
    LET n == SObj(u).of
        k == IF Cached(d, n) THEN SObj(u) ELSE Fetched(api, n, FALSE)
    IN  IF CanAdd(d, api, k) THEN UpdateAndAddBackend(d, api, k) ELSE d

\* The statistics are written.  Within the create task the answer is dropped: the flow goes
\* on with the version before.
getContentStats(u) ==
    /\ SAt(u, "reg")
    /\ drv' = registerOrUpdateOneBackend(drv, u)
    /\ WriteSide(u, LAMBDA s, k :
           IF side.sw[u].first
           THEN SideProceed([s EXCEPT !.sw[u].first = FALSE], u, "add", SObj(u))
           ELSE [s EXCEPT !.sw[u] = Idle])
    /\ UNCHANGED <<scn, ctl, left>>

SideCallFails(u) ==
    /\ left.sfaults > 0 /\ ~SAt(u, "idle")
    /\ side' = SFailed(side, u)
    /\ left' = [left EXCEPT !.sfaults = @ - 1]
    /\ UNCHANGED <<scn, api, ctl, drv>>

SideWorker(u) ==
    \/ SideSync(u) \/ initContentStatus(u) \/ RemoveStorageBackend(u)
    \/ clearContentStatus(u) \/ AddStorageBackend(u) \/ writeCreatedStatus(u) \/ UpdateStorageBackend(u)
    \/ SetStorageBackendContentOnline(u) \/ writeUpdatedStatus(u) \/ GetBackendStats(u)
    \/ getContentStats(u)

(***************************************************************************)
(* The driver by itself: the pass over all contents when it starts, the      *)
(* back-end a CSI call asks for by name, a login the array refuses.          *)
(***************************************************************************)
FetchAllBackends ==
    /\ drv.boot = "list"
    /\ drv' = [drv EXCEPT !.boot = "run", !.err = FALSE,
                          !.todo = {k \in {api.content[u] : u \in Uids} : Is(k) /\ k.st.set /\ k.st.caps},
                          !.seen = {k \in {api.content[u] : u \in Uids} : Is(k) /\ k.st.set /\ k.st.caps}]
    /\ UNCHANGED <<scn, api, ctl, side, left>>

\* err is the outcome of the last online content only.
UpdateOrRegisterOnlineBackend ==
    /\ drv.boot = "run"
    /\ \E k \in drv.todo :
         LET d == [drv EXCEPT !.todo = @ \ {k}]
         IN  drv' = CASE ~k.st.online -> d
                      [] k.st.online /\ CanAdd(d, api, k)  -> [UpdateAndAddBackend(d, api, k) EXCEPT !.err = FALSE]
                      [] k.st.online /\ ~CanAdd(d, api, k) -> [d EXCEPT !.err = TRUE]
    /\ UNCHANGED <<scn, api, ctl, side, left>>

\* A name is judged by one of the contents listed for it.
CheckConsistency ==
    /\ drv.boot = "run" /\ drv.todo = {}
    /\ \E D \in SUBSET {n \in Names : Cached(drv, n)} :
         /\ \A n \in Names :
              LET ks == {k \in drv.seen : k.of = n}
              IN  /\ Cached(drv, n) /\ (\A k \in ks : ~k.st.online) => n \in D
                  /\ ks # {} /\ (\A k \in ks : k.st.online) => n \notin D
         /\ drv' = [drv EXCEPT !.boot = "done", !.seen = {},
                               !.cache = [n \in Names |-> IF n \in D /\ ~drv.err THEN NotCached ELSE @[n]]]
    /\ UNCHANGED <<scn, api, ctl, side, left>>

LoadOrRegisterOneBackend(n) ==
    /\ left.selects > 0 /\ ~Cached(drv, n) /\ drv.boot # "list"
    /\ LET k == Fetched(api, n, TRUE)
       IN  CanAdd(drv, api, k) /\ drv' = UpdateAndAddBackend(drv, api, k)
    /\ left' = [left EXCEPT !.selects = @ - 1]
    /\ UNCHANGED <<scn, api, ctl, side>>

LoginRefused(n) ==
    /\ left.offs > 0 /\ Cached(drv, n)
    /\ LET k == ContentOfClaim(api, n)
       IN  /\ Is(k) /\ k.st.set
           /\ api' = SetOnline(api, k, FALSE)
           /\ drv' = [drv EXCEPT !.cache[n].avail = FALSE]
    /\ left' = [left EXCEPT !.offs = @ - 1]
    /\ UNCHANGED <<scn, ctl, side>>

Booting == [cache |-> [n \in Names |-> NotCached], boot |-> "list", todo |-> {}, seen |-> {}, err |-> FALSE]

SideRunning(a) ==
    LET us == {u \in Uids : Is(a.content[u])}
    IN  [slst |-> a.content, sstore |-> [u \in Uids |-> a.content[u].rv], sq |-> us, sw |-> [u \in Uids |-> Idle],
         clears |-> [u \in Uids |-> 0]]

Restart ==
    /\ left.crashes > 0
    /\ left' = [left EXCEPT !.crashes = @ - 1]
    /\ \/ ctl' = Running(api) /\ UNCHANGED <<side, drv>>
       \/ side' = [SideRunning(api) EXCEPT !.clears = side.clears] /\ UNCHANGED <<ctl, drv>>
       \/ drv' = Booting /\ UNCHANGED <<ctl, side>>
    /\ UNCHANGED <<scn, api>>

(***************************************************************************)
(* The user, through the admission webhook: a claim is created or edited     *)
(* only while the configmap and the secret it names are there.               *)
(***************************************************************************)
FirstSpec == [sec |-> "s1", cert |-> scn.cert]

Valid(spec) == Present(api.prot["cm"]) /\ Present(api.prot[spec.sec])

CreateClaim(n) ==
    /\ left.creates > 0 /\ ~Is(api.claim[n])
    /\ LET u == scn.creates - left.creates + 1
       IN  /\ Valid(FirstSpec)
           /\ api' = [api EXCEPT !.claim[n] = NewClaim(api.top[n] + 1, u, FirstSpec), !.top[n] = @ + 1, !.owner[u] = n]
    /\ left' = [left EXCEPT !.creates = @ - 1]
    /\ UNCHANGED <<scn, ctl, side, drv>>

EditClaim(n) ==
    /\ left.edits > 0 /\ Is(api.claim[n]) /\ ~api.claim[n].del
    /\ \E x \in {"s1", "s2"} \ {api.claim[n].spec.sec} :
         /\ Valid([api.claim[n].spec EXCEPT !.sec = x])
         /\ api' = PutClaim(api, n, [api.claim[n] EXCEPT !.spec.sec = x])
    /\ left' = [left EXCEPT !.edits = @ - 1]
    /\ UNCHANGED <<scn, ctl, side, drv>>

DeleteClaim(n) ==
    /\ left.deletes > 0 /\ Is(api.claim[n]) /\ ~api.claim[n].del
    /\ api' = PutClaim(api, n, [api.claim[n] EXCEPT !.del = TRUE])
    /\ left' = [left EXCEPT !.deletes = @ - 1]
    /\ UNCHANGED <<scn, ctl, side, drv>>

DeleteSecret(x) ==
    /\ left.unprots > 0 /\ Present(api.prot[x]) /\ ~api.prot[x].del
    /\ api' = [api EXCEPT !.prot[x] = IF @.fin THEN [@ EXCEPT !.del = TRUE, !.ver = @ + 1] ELSE Absent]
    /\ left' = [left EXCEPT !.unprots = @ - 1]
    /\ UNCHANGED <<scn, ctl, side, drv>>

\* Nothing is there, or the claims of scn.served have settled: bound, finalizers set on claim
\* and content, the configmap's and the secret's taken off again, the plugin logged in.
Settled(n, u) ==
    [claim |-> [NewClaim(1, u, FirstSpec) EXCEPT
                   !.fin = TRUE, !.st = [phase |-> "Bound", typed |-> TRUE, bound |-> u, cm |-> "cm",
                                         sec |-> "s1", cert |-> scn.cert]],
     content |-> [NewContent(n, u, FirstSpec) EXCEPT
                   !.fin = TRUE, !.spec = FirstSpec,
                   !.st = [set |-> TRUE, id |-> TRUE, vendor |-> TRUE, online |-> TRUE, sec |-> "s1",
                           cert |-> scn.cert, caps |-> TRUE, from |-> u]],
     cache |-> [from |-> u, sec |-> "s1", avail |-> TRUE]]

Init ==
    /\ scn \in Scenarios
    /\ LET us == 1 .. Len(scn.served)
           ns == {scn.served[u] : u \in us}
           U(n) == CHOOSE u \in us : scn.served[u] = n
       IN  /\ api = [claim |-> [n \in Names |-> IF n \in ns THEN Settled(n, U(n)).claim ELSE Gone],
                     content |-> [u \in Uids |-> IF u \in us THEN Settled(scn.served[u], u).content ELSE Gone],
                     prot |-> [x \in Things |-> [Absent EXCEPT !.ver = 1]],
                     top |-> [n \in Names |-> IF n \in ns THEN 1 ELSE 0],
                     owner |-> [u \in Uids |-> IF u \in us THEN scn.served[u] ELSE ""]]
           /\ drv = [Booting EXCEPT !.boot = "done",
                                    !.cache = [n \in Names |-> IF n \in ns THEN Settled(n, U(n)).cache ELSE NotCached]]
           /\ left = [scn EXCEPT !.creates = @ - Len(scn.served)]
    /\ ctl = [Running(api) EXCEPT !.cq = {}, !.kq = {}]
    /\ side = [SideRunning(api) EXCEPT !.sq = {}]

User == (\E n \in Names : CreateClaim(n) \/ EditClaim(n) \/ DeleteClaim(n)) \/ (\E x \in Things : DeleteSecret(x))

Informers == (\E n \in Names : WatchClaim(n)) \/ (\E u \in Uids : WatchContent(u) \/ WatchSide(u))

Driver ==
    \/ FetchAllBackends \/ UpdateOrRegisterOnlineBackend \/ CheckConsistency
    \/ \E n \in Names : LoadOrRegisterOneBackend(n) \/ LoginRefused(n)

Faults ==
    \/ Restart
    \/ \E n \in Names : ClaimCallFails(n)
    \/ \E u \in Uids : SideCallFails(u)

\* The sidecar's informer is prompt: its lister only wakes the worker, which reads for itself.
\* The controller's informers lag where the scenario says so.
Prompt ==
    /\ \A u \in Uids : side.slst[u].rv = api.content[u].rv
    /\ \/ scn.lag
       \/ /\ \A u \in Uids : ctl.clst[u].rv = api.content[u].rv
          /\ \A n \in Names : ctl.lst[n].rv = api.claim[n].rv

Next ==
    \/ Informers
    \/ /\ Prompt
       /\ \/ User \/ Driver \/ Faults
          \/ \E n \in Names : ClaimWorker(n)
          \/ \E u \in Uids : Resync(u) \/ syncContentByKey(u) \/ SideWorker(u)

Spec == Init /\ [][Next]_vars

\* Informers, the controller's workers, the sidecar's worker of every content and a driver that
\* starts run on; the user and the faults need not come.
FairSpec ==
    /\ Spec
    /\ WF_vars(Informers)
    /\ WF_vars(Prompt /\ \E n \in Names : ClaimWorker(n))
    /\ WF_vars(Prompt /\ \E u \in Uids : syncContentByKey(u))
    /\ \A u \in 1 .. Max({s.creates : s \in Scenarios}) :
         WF_vars(Prompt /\ u \in Uids /\ (Resync(u) \/ SideWorker(u)))
    /\ WF_vars(Prompt /\ (FetchAllBackends \/ UpdateOrRegisterOnlineBackend \/ CheckConsistency))

(***************************************************************************)
(* Properties                                                                *)
(***************************************************************************)
Specs == [sec : {"s1", "s2"}, cert : BOOLEAN]

\* Every object keeps the shape the controllers read: a claim names at most its own content, a
\* content carries the settings of a claim and its owner's name, the cache holds at most one
\* plugin per name, logged in with a secret a claim has named.
TypeOK ==
    /\ \A n \in Names : Is(api.claim[n]) =>
         /\ api.claim[n].spec \in Specs
         /\ api.claim[n].st.phase \in {"nil", "Pending", "Bound"}
         /\ api.claim[n].st.bound \in {0, api.claim[n].uid}
         /\ api.claim[n].rv <= api.top[n] /\ ctl.lst[n].rv <= api.top[n]
    /\ \A u \in Uids : Is(api.content[u]) =>
         api.content[u].spec \in Specs /\ api.content[u].of = api.owner[u] /\ api.content[u].uid = u
    /\ \A n \in Names : drv.cache[n] \in [from : {0} \cup Uids, sec : {"", "s1", "s2"}, avail : BOOLEAN]

\* The live content of a live claim.
LiveContent(n, u) ==
    /\ Is(api.claim[n]) /\ ~api.claim[n].del /\ api.claim[n].uid = u
    /\ Is(api.content[u]) /\ ~api.content[u].del

\* When a content reports the secret its claim names now as applied, the plugin built for it is
\* logged in with that secret: statistics must not mark a changed secret as applied before the
\* update task has logged in again (updateContentTask, shouldUpdateContent).  And its statistics
\* come from the plugin built for it, not from one left by an earlier claim of the same name
\* (LoadOrRebuildOneBackend, NeedRebuild).
StatusIsApplied ==
    \A n \in Names, u \in Uids : LiveContent(n, u) =>
        /\ api.content[u].st.id /\ api.content[u].st.sec = api.claim[n].spec.sec /\ drv.cache[n].from = u
           => drv.cache[n].sec = api.claim[n].spec.sec
        /\ api.content[u].st.vendor => api.content[u].st.from = u

\* A claim that goes with its finalizer takes its content along: when the last finalizer comes
\* off, the content it is bound to is deleted or being deleted (processWithDeletionTimeStamp).
BoundClaimTakesContent ==
    [][\A n \in Names :
         /\ Is(api.claim[n]) /\ api.claim[n].fin /\ api.claim[n].st.bound # 0
         /\ ~Is(api'.claim[n])
         => LET k == api'.content[api.claim[n].st.bound] IN ~Is(k) \/ k.del]_vars

Served(n) ==
    LET c == api.claim[n]
    IN  /\ c.st.phase = "Bound" /\ c.fin
        /\ Is(api.content[c.uid]) /\ api.content[c.uid].fin /\ api.content[c.uid].st.online
        /\ drv.cache[n].from = c.uid /\ drv.cache[n].avail

\* Whatever conflicts, restarts of the three processes and failed calls of the sidecar do, a claim
\* that is not deleted ends up bound, protected, and served by an available plugin of its own.
ClaimIsServed ==
    \A n \in UNION {s.names : s \in Scenarios} :
        <>[](n \in Names /\ Is(api.claim[n]) /\ ~api.claim[n].del => Served(n))

\* A claim deleted with its finalizer goes, and its content after it.
DeletionCompletes ==
    \A n \in UNION {s.names : s \in Scenarios}, u \in 1 .. Max({s.creates : s \in Scenarios}) :
        (n \in Names /\ Is(api.claim[n]) /\ api.claim[n].del /\ api.claim[n].fin /\ api.claim[n].st.bound = u)
            ~> (n \in Names /\ u \in Uids /\ api.claim[n].uid # u /\ ~Is(api.content[u]))

\* A changed secret reaches the content: the claim's settings and those of its content agree in
\* the end.
EditReachesContent ==
    \A n \in UNION {s.names : s \in Scenarios} :
        <>[](n \in Names /\ Is(api.claim[n]) /\ ~api.claim[n].del =>
               Is(api.content[api.claim[n].uid]) /\ api.content[api.claim[n].uid].spec = api.claim[n].spec)

\* The secret a live claim's content was made from keeps its finalizer.
UsedSecretIsProtected ==
    \A n \in Names : Is(api.claim[n]) /\ ~api.claim[n].del /\ IsClaimBoundContent(api.claim[n])
        => api.prot[api.claim[n].st.sec].fin
===============================================================================
