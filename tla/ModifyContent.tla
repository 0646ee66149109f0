--------------------------- MODULE ModifyContent ---------------------------
(***************************************************************************)
(* The content worker of the volume-modify controller                      *)
(* (pkg/modify/content_worker.go): for each volume of a claim it carries a *)
(* VolumeModifyContent through Pending, Creating, Staging and Completed,   *)
(* calling the provider's ModifyVolume on the way, and undoes the change   *)
(* when the content is deleted with the rollback policy.                   *)
(*                                                                         *)
(* One process per content: the work queue never hands the same key to two *)
(* workers.  Every API call is a step of its own.  The worker reads        *)
(* contents, claims and VolumeAttachments from informer caches that lag    *)
(* behind the API server, and writes with the resourceVersion it read, so  *)
(* a write from a stale copy is refused.                                   *)
(*                                                                         *)
(* The claim side is the environment here: it creates, annotates and       *)
(* deletes contents, and the claim itself goes away.  VolumeModify puts    *)
(* the claim worker in its place.                                          *)
(***************************************************************************)
EXTENDS Naturals

CONSTANTS
  Vols,         \* volumes bound to the source class, one content each
  MaxVersion,   \* a content is created only below this version
  MaxFaults     \* bound on failed calls and restarts

ASSUME ContentAssumption ==
  /\ MaxVersion \in Nat
  /\ MaxFaults \in Nat

VARIABLES
  content,      \* VolumeModifyContents in the API server
  undelivered,  \* versions the informer has not delivered yet
  lister,       \* the controller's cache of content
  claimView,    \* what claimLister.Get finds: the claim live, deleting, gone
  labelSeen,    \* the controller's cache of label
  pc,           \* next step of the worker on each content
  copy,         \* the content object the worker holds
  goal,         \* the phase setContentStatus is writing
  san,          \* volumeType "lun" of the class, else a filesystem
  metro,        \* the volume is a HyperMetro volume on the array
  label,        \* the volume's VolumeAttachment has the rescan label
  panicked,     \* a nil pointer was dereferenced
  faults        \* faults so far

serverVars == <<content, undelivered>>
cacheVars == <<lister, claimView, labelSeen>>
workerVars == <<pc, copy, goal>>
arrayVars == <<san, metro, label>>
faultVars == <<panicked, faults>>
vars == <<content, undelivered, lister, claimView, labelSeen, pc, copy, goal,
          san, metro, label, panicked, faults>>

Phases == {"", "Pending", "Creating", "Staging", "Completed", "Rollback"}

\* A version of a content.  live: it exists; fin: has the protection finalizer;
\* del: has a deletionTimestamp; rollback: annotated with the rollback policy;
\* edited: its sync speed was changed since it was created.
Content == [rv : Nat, live : BOOLEAN, phase : Phases, fin : BOOLEAN,
            del : BOOLEAN, rollback : BOOLEAN, edited : BOOLEAN]

Blank(rv, live) == [rv |-> rv, live |-> live, phase |-> "", fin |-> FALSE,
                    del |-> FALSE, rollback |-> FALSE, edited |-> FALSE]

Absent == Blank(0, FALSE)

ForwardSteps == {"setPending", "setFinalizer", "setCreating", "modify",
                 "setStatus", "retryStatus", "undo", "staged"}
DeleteSteps == {"setRollback", "rollback", "removeFinalizer"}

TypeOK ==
  /\ content \in [Vols -> Content]
  /\ undelivered \in [Vols -> SUBSET Content]
  /\ lister \in [Vols -> Content]
  /\ claimView \in {"live", "deleting", "gone"}
  /\ labelSeen \in [Vols -> BOOLEAN]
  /\ pc \in [Vols -> ForwardSteps \cup DeleteSteps \cup {"idle"}]
  /\ copy \in [Vols -> Content]
  /\ goal \in [Vols -> {"Staging", "Completed"}]
  /\ san \in BOOLEAN
  /\ metro \in [Vols -> BOOLEAN]
  /\ label \in [Vols -> BOOLEAN]
  /\ panicked \in BOOLEAN
  /\ faults \in Nat

Init ==
  /\ content = [v \in Vols |-> Absent]
  /\ undelivered = [v \in Vols |-> {}]
  /\ lister = [v \in Vols |-> Absent]
  /\ claimView = "live"
  /\ labelSeen = [v \in Vols |-> FALSE]
  /\ pc = [v \in Vols |-> "idle"]
  /\ copy = [v \in Vols |-> Absent]
  /\ goal = [v \in Vols |-> "Completed"]
  /\ san \in BOOLEAN
  /\ metro = [v \in Vols |-> FALSE]
  /\ label = [v \in Vols |-> FALSE]
  /\ panicked = FALSE
  /\ faults = 0

-----------------------------------------------------------------------------
(* The API server.                                                         *)

\* A write is accepted only from a copy of the current version.
Current(v, obj) == content[v].live /\ obj.live /\ obj.rv = content[v].rv

\* obj as the server stores it: an object being deleted goes away with its
\* finalizer.
Stored(v, obj) ==
  IF obj.del /\ ~ obj.fin
    THEN Blank(content[v].rv + 1, FALSE)
    ELSE [obj EXCEPT !.rv = content[v].rv + 1]

Store(v, obj) ==
  /\ content' = [content EXCEPT ![v] = Stored(v, obj)]
  /\ undelivered' = [undelivered EXCEPT ![v] = @ \cup {Stored(v, obj)}]

CreateObject(v) ==
  /\ ~ content[v].live
  /\ Store(v, Blank(0, TRUE))

AnnotateObject(v) ==
  /\ content[v].live
  /\ ~ content[v].rollback
  /\ Store(v, [content[v] EXCEPT !.rollback = TRUE])

DeleteObject(v) ==
  /\ content[v].live
  /\ ~ content[v].del
  /\ Store(v, [content[v] EXCEPT !.del = TRUE])

-----------------------------------------------------------------------------
(* The worker.                                                             *)

\* Faulty: preCreateContent does not set the finalizer.
NextStepUnprotected(obj) ==
  CASE obj.phase = "" -> "setPending"
    [] obj.phase = "Pending" -> "setCreating"
    [] obj.phase = "Creating" -> "modify"
    [] obj.phase = "Staging" -> "staged"
    [] OTHER -> "idle"

\* The first function of initContentFunctions with something to do for obj.
NextStep(obj) ==
  CASE obj.phase = "" -> "setPending"
    [] obj.phase = "Pending" /\ ~ obj.fin -> "setFinalizer"
    [] obj.phase = "Pending" /\ obj.fin -> "setCreating"
    [] obj.phase = "Creating" -> "modify"
    [] obj.phase = "Staging" -> "staged"
    [] OTHER -> "idle"

\* What syncDeleteContent does first for an object being deleted.
DeleteStep(obj) ==
  CASE obj.phase = "" -> "idle"
    [] obj.phase \in {"Pending", "Creating"} -> "removeFinalizer"
    [] obj.phase \in {"Staging", "Completed"} /\ obj.rollback -> "setRollback"
    [] obj.phase = "Rollback" /\ obj.rollback -> "rollback"
    [] OTHER -> "removeFinalizer"

\* Go on at step with the object obj; a sync that is over holds none.
Continue(v, step, obj) ==
  /\ pc' = [pc EXCEPT ![v] = step]
  /\ copy' = [copy EXCEPT ![v] = IF step = "idle" THEN Absent ELSE obj]

Goto(v, step) == Continue(v, step, copy[v])

\* What a cache can show of the claim after view.
Later(view) ==
  CASE view = "live" -> {"live", "deleting", "gone"}
    [] view = "deleting" -> {"deleting", "gone"}
    [] view = "gone" -> {"gone"}

\* The process is gone; its successor starts from fresh lists.
ProcessStarts ==
  /\ pc' = [v \in Vols |-> "idle"]
  /\ copy' = [v \in Vols |-> Absent]
  /\ lister' = content
  /\ undelivered' = [v \in Vols |-> {}]
  /\ labelSeen' = label
  /\ claimView' \in Later(claimView)
  /\ UNCHANGED <<content, goal, arrayVars>>

Panic ==
  /\ ProcessStarts
  /\ panicked' = TRUE
  /\ UNCHANGED faults

Begin(v, step) ==
  /\ step # "idle"
  /\ Continue(v, step, lister[v])
  /\ UNCHANGED <<serverVars, cacheVars, goal, arrayVars, faultVars>>

\* syncContentWork; a filesystem's content is left alone once its claim is
\* being deleted.
SyncContent(v) ==
  /\ pc[v] = "idle"
  /\ lister[v].live
  /\ \/ /\ lister[v].del
        /\ Begin(v, DeleteStep(lister[v]))
     \/ /\ ~ lister[v].del
        /\ san \/ claimView = "live"
        /\ Begin(v, NextStep(lister[v]))

\* syncContent logs the name of the claim it did not find: a nil dereference.
SyncOrphan(v) ==
  /\ pc[v] = "idle"
  /\ lister[v].live
  /\ ~ lister[v].del
  /\ ~ san /\ claimView = "gone"
  /\ Panic

\* Faulty: the resourceVersion is cleared before the write.
WriteBlind(v, obj, failed) ==
  /\ IF content[v].live
       THEN Store(v, obj) /\ Continue(v, NextStep(obj), Stored(v, obj))
       ELSE Goto(v, failed) /\ UNCHANGED serverVars
  /\ UNCHANGED <<cacheVars, goal, arrayVars, faultVars>>

\* One write from the worker's copy: it goes on with the object the server
\* returned; a refused write leaves it at step failed.
Write(v, obj, failed) ==
  /\ IF Current(v, copy[v])
       THEN Store(v, obj) /\ Continue(v, NextStep(obj), Stored(v, obj))
       ELSE Goto(v, failed) /\ UNCHANGED serverVars
  /\ UNCHANGED <<cacheVars, goal, arrayVars, faultVars>>

SetPending(v) ==
  /\ pc[v] = "setPending"
  /\ Write(v, [copy[v] EXCEPT !.phase = "Pending"], "idle")

SetFinalizer(v) ==
  /\ pc[v] = "setFinalizer"
  /\ Write(v, [copy[v] EXCEPT !.fin = TRUE], "idle")

SetCreating(v) ==
  /\ pc[v] = "setCreating"
  /\ Write(v, [copy[v] EXCEPT !.phase = "Creating"], "idle")

\* callVolumeModify when the provider answers: a mapped LUN got its rescan
\* label and is to be staged; a volume with no attachment, which has no label
\* either, and a filesystem are completed.
ModifyVolume(v) ==
  /\ pc[v] = "modify"
  /\ metro' = [metro EXCEPT ![v] = TRUE]
  /\ \/ /\ san
        /\ label' = [label EXCEPT ![v] = TRUE]
        /\ goal' = [goal EXCEPT ![v] = "Staging"]
     \/ /\ ~ label[v] /\ UNCHANGED label
        /\ goal' = [goal EXCEPT ![v] = "Completed"]
  /\ Goto(v, "setStatus")
  /\ UNCHANGED <<serverVars, cacheVars, san, faultVars>>

\* The first UpdateStatus of setContentStatus.
SetStatus(v) ==
  /\ pc[v] = "setStatus"
  /\ Write(v, [copy[v] EXCEPT !.phase = goal[v]], "retryStatus")

CanRetry(new, old) == new.del \/ new.edited = old.edited

\* updateStatusWithRetry: phase goes onto the cached object.  While the cache
\* is stale the loop goes round again, which is no step.
WriteWithRetry(v, phase, step) ==
  LET obj == [lister[v] EXCEPT !.phase = phase] IN
  /\ lister[v].live
  /\ CanRetry(lister[v], copy[v])
  /\ Current(v, lister[v])
  /\ Store(v, obj)
  /\ Continue(v, step, Stored(v, obj))
  /\ UNCHANGED <<cacheVars, goal, arrayVars, faultVars>>

\* updateStatusWithRetry returns without a content.
RetryRefused(v) == ~ lister[v].live \/ ~ CanRetry(lister[v], copy[v])

\* The retries of setContentStatus.
RetryStatus(v) ==
  /\ pc[v] = "retryStatus"
  /\ WriteWithRetry(v, goal[v], IF goal[v] = "Staging" THEN "staged" ELSE "idle")

\* When they are refused, setContentStatus logs the name of a nil content.
RetryPanics(v) ==
  /\ pc[v] = "retryStatus"
  /\ RetryRefused(v)
  /\ Panic

\* doRollback once the retries of setContentStatus ran out.  The SAN plugin
\* refuses to take a volume out of HyperMetro.
Undo(v) ==
  /\ pc[v] = "undo"
  /\ metro' = [metro EXCEPT ![v] = san /\ @]
  /\ Goto(v, "idle")
  /\ UNCHANGED <<serverVars, cacheVars, goal, san, label, faultVars>>

\* Faulty: the test of the label is turned round.
WaitStagedInverted(v) ==
  /\ pc[v] = "staged"
  /\ IF ~ labelSeen[v]
       THEN Goto(v, "idle") /\ UNCHANGED goal
       ELSE Goto(v, "setStatus") /\ goal' = [goal EXCEPT ![v] = "Completed"]
  /\ UNCHANGED <<serverVars, cacheVars, arrayVars, faultVars>>

\* waitVolumeStaged.
WaitStaged(v) ==
  /\ pc[v] = "staged"
  /\ IF labelSeen[v]
       THEN Goto(v, "idle") /\ UNCHANGED goal
       ELSE Goto(v, "setStatus") /\ goal' = [goal EXCEPT ![v] = "Completed"]
  /\ UNCHANGED <<serverVars, cacheVars, arrayVars, faultVars>>

\* Faulty: the phase is one of the claim's.
SetRollbackMisnamed(v) ==
  /\ pc[v] = "setRollback"
  /\ WriteWithRetry(v, "Deleting", "rollback")

\* rollbackContent first makes the phase Rollback.
SetRollback(v) ==
  /\ pc[v] = "setRollback"
  /\ \/ WriteWithRetry(v, "Rollback", "rollback")
     \/ /\ RetryRefused(v)
        /\ Goto(v, "idle")
        /\ UNCHANGED <<serverVars, cacheVars, goal, arrayVars, faultVars>>

\* Faulty: the error of ModifyVolume in doRollback is dropped.
RollbackUnchecked(v) ==
  /\ pc[v] = "rollback"
  /\ metro' \in {metro, [metro EXCEPT ![v] = FALSE]}
  /\ Goto(v, "removeFinalizer")
  /\ UNCHANGED <<serverVars, cacheVars, goal, san, label, faultVars>>

\* doRollback in rollbackContent.
Rollback(v) ==
  /\ pc[v] = "rollback"
  /\ metro' = [metro EXCEPT ![v] = san /\ @]
  /\ Goto(v, IF san THEN "idle" ELSE "removeFinalizer")
  /\ UNCHANGED <<serverVars, cacheVars, goal, san, label, faultVars>>

\* Faulty: the finalizer is removed from the copy only.
RemoveFinalizerLocally(v) ==
  /\ pc[v] = "removeFinalizer"
  /\ Goto(v, "idle")
  /\ UNCHANGED <<serverVars, cacheVars, goal, arrayVars, faultVars>>

RemoveFinalizer(v) ==
  /\ pc[v] = "removeFinalizer"
  /\ IF Current(v, copy[v])
       THEN Store(v, [copy[v] EXCEPT !.fin = FALSE])
       ELSE UNCHANGED serverVars
  /\ Goto(v, "idle")
  /\ UNCHANGED <<cacheVars, goal, arrayVars, faultVars>>

-----------------------------------------------------------------------------
(* Failures.                                                               *)

\* The object a step writes, and the copy it was made from.
Base(v) == IF pc[v] \in {"retryStatus", "setRollback"} THEN lister[v] ELSE copy[v]

Written(v) ==
  CASE pc[v] = "setPending" -> [Base(v) EXCEPT !.phase = "Pending"]
    [] pc[v] = "setFinalizer" -> [Base(v) EXCEPT !.fin = TRUE]
    [] pc[v] = "setCreating" -> [Base(v) EXCEPT !.phase = "Creating"]
    [] pc[v] \in {"setStatus", "retryStatus"} -> [Base(v) EXCEPT !.phase = goal[v]]
    [] pc[v] = "setRollback" -> [Base(v) EXCEPT !.phase = "Rollback"]
    [] pc[v] = "removeFinalizer" -> [Base(v) EXCEPT !.fin = FALSE]

WriteSteps == {"setPending", "setFinalizer", "setCreating", "setStatus",
               "retryStatus", "setRollback", "removeFinalizer"}

\* Where the error of a step's call leaves the worker: the write of
\* updateStatusWithRetry is retried, or this was its last attempt.
AfterError(v) ==
  CASE pc[v] = "setStatus" -> {"retryStatus"}
    [] pc[v] = "retryStatus" -> {"retryStatus", "undo"}
    [] pc[v] = "setRollback" -> {"setRollback", "idle"}
    [] OTHER -> {"idle"}

\* A call fails: without effect, or after the server or the array has done
\* what it was asked.
CallFails(v) ==
  /\ pc[v] # "idle"
  /\ faults < MaxFaults
  /\ faults' = faults + 1
  /\ \E step \in AfterError(v) : Goto(v, step)
  /\ \/ UNCHANGED <<serverVars, metro, label>>
     \/ /\ pc[v] \in WriteSteps
        /\ Current(v, Base(v))
        /\ pc[v] \in {"retryStatus", "setRollback"} => CanRetry(Base(v), copy[v])
        /\ Store(v, Written(v))
        /\ UNCHANGED <<metro, label>>
     \/ /\ pc[v] = "modify"
        /\ metro' = [metro EXCEPT ![v] = TRUE]
        /\ label' \in {label, [label EXCEPT ![v] = san]}
        /\ UNCHANGED serverVars
     \/ /\ pc[v] \in {"undo", "rollback"} /\ ~ san
        /\ metro' = [metro EXCEPT ![v] = FALSE]
        /\ UNCHANGED <<serverVars, label>>
  /\ UNCHANGED <<cacheVars, goal, san, panicked>>

Restart ==
  /\ faults < MaxFaults
  /\ faults' = faults + 1
  /\ ProcessStarts
  /\ UNCHANGED panicked

-----------------------------------------------------------------------------
(* The informers, the nodes, the claim worker and the users.               *)

\* The informer delivers versions in order.
SyncLister(v) ==
  \E obj \in undelivered[v] :
    /\ \A other \in undelivered[v] : obj.rv <= other.rv
    /\ lister' = [lister EXCEPT ![v] = obj]
    /\ undelivered' = [undelivered EXCEPT ![v] = @ \ {obj}]
    /\ UNCHANGED <<content, claimView, labelSeen, workerVars, arrayVars, faultVars>>

SyncLabel(v) ==
  /\ labelSeen[v] # label[v]
  /\ labelSeen' = [labelSeen EXCEPT ![v] = label[v]]
  /\ UNCHANGED <<serverVars, lister, claimView, workerVars, arrayVars, faultVars>>

\* handleVA on the node: the volume is rescanned and the label removed.
HandleVA(v) ==
  /\ label[v]
  /\ label' = [label EXCEPT ![v] = FALSE]
  /\ UNCHANGED <<serverVars, cacheVars, workerVars, san, metro, faultVars>>

CreateContent(v) ==
  /\ content[v].rv < MaxVersion
  /\ CreateObject(v)
  /\ UNCHANGED <<cacheVars, workerVars, arrayVars, faultVars>>

\* Only contents of filesystems are given the rollback policy.
AnnotateContent(v) ==
  /\ ~ san
  /\ AnnotateObject(v)
  /\ UNCHANGED <<cacheVars, workerVars, arrayVars, faultVars>>

DeleteContent(v) ==
  /\ DeleteObject(v)
  /\ UNCHANGED <<cacheVars, workerVars, arrayVars, faultVars>>

EditContent(v) ==
  /\ content[v].live
  /\ ~ content[v].edited
  /\ Store(v, [content[v] EXCEPT !.edited = TRUE])
  /\ UNCHANGED <<cacheVars, workerVars, arrayVars, faultVars>>

ClaimChanges ==
  /\ claimView' \in Later(claimView)
  /\ UNCHANGED <<serverVars, lister, labelSeen, workerVars, arrayVars, faultVars>>

Works(v) ==
  \/ SyncContent(v)
  \/ SetPending(v) \/ SetFinalizer(v) \/ SetCreating(v)
  \/ ModifyVolume(v) \/ SetStatus(v) \/ RetryStatus(v) \/ Undo(v)
  \/ WaitStaged(v)
  \/ SetRollback(v) \/ Rollback(v) \/ RemoveFinalizer(v)

Panics(v) == SyncOrphan(v) \/ RetryPanics(v)

Worker(v) == Works(v) \/ Panics(v)

Informers(v) == SyncLister(v) \/ SyncLabel(v) \/ HandleVA(v)

Environment(v) ==
  \/ CreateContent(v) \/ AnnotateContent(v) \/ DeleteContent(v) \/ EditContent(v)

Next ==
  \/ \E v \in Vols : Worker(v) \/ CallFails(v) \/ Informers(v) \/ Environment(v)
  \/ ClaimChanges
  \/ Restart

Spec == Init /\ [][Next]_vars

\* Workers run, informers deliver and nodes handle their attachments.
Fairness ==
  \A v \in Vols : /\ WF_vars(Worker(v))
                  /\ WF_vars(SyncLister(v))
                  /\ WF_vars(SyncLabel(v))
                  /\ WF_vars(HandleVA(v))

FairSpec == Spec /\ Fairness

-----------------------------------------------------------------------------
(* Properties.                                                             *)

\* While a worker is changing the volume on the array or recording that it
\* did (callVolumeModify, setContentStatus), the content exists and carries
\* the protection finalizer, however stale the caches: nothing else than this
\* worker can make the record of the change disappear.
ModifyProtected ==
  \A v \in Vols :
    pc[v] \in {"modify", "setStatus", "retryStatus", "undo", "staged"} =>
      content[v].live /\ content[v].fin

\* syncDeleteContent: a content that reached phase Rollback disappears only
\* with its volume taken out of HyperMetro.
RemovedAfterRollback ==
  [][\A v \in Vols :
       (content[v].live /\ content[v].phase = "Rollback" /\ ~ content'[v].live)
         => ~ metro'[v]]_vars

Rank(phase) ==
  CASE phase = "" -> 0 [] phase = "Pending" -> 1 [] phase = "Creating" -> 2
    [] phase = "Staging" -> 3 [] phase = "Completed" -> 4 [] phase = "Rollback" -> 5

\* As long as a filesystem's content exists its phase never goes back, whatever
\* stale copy a sync started from.  (A LUN's can: a stale sync stages it again.)
PhaseNeverRegresses ==
  [][\A v \in Vols : ~ san /\ content[v].live /\ content'[v].live =>
       Rank(content[v].phase) <= Rank(content'[v].phase)]_vars

\* waitVolumeStaged: a completed content has no rescan outstanding.
CompletedIsStaged ==
  \A v \in Vols :
    content[v].live /\ content[v].phase = "Completed" => ~ label[v]

\* syncDeleteContent: a content deleted with the rollback policy leaves its
\* volume as it was before the claim.
RollbackPolicyHonoured ==
  [][\A v \in Vols :
       (content[v].live /\ content[v].rollback /\ ~ content'[v].live)
         => ~ metro'[v]]_vars

\* setContentStatus: when the new phase cannot be recorded because the spec was
\* edited meanwhile, the change made to the volume is rolled back.
RefusedRetryIsUndone ==
  [][\A v \in Vols :
       (pc[v] = "retryStatus" /\ pc'[v] = "idle")
         => content'[v].phase = goal[v] \/ ~ metro'[v]]_vars

\* A content being deleted goes away.
DeletedGoesAway ==
  \A v \in Vols : content[v].live /\ content[v].del ~> ~ content[v].live

\* A content that is left alone while its claim lives is completed.  The one exception is a
\* content created again under the name of one that was rolled back and removed: a sync that
\* still finds the old one in the cache may write the old one's phase Rollback to it (the retry
\* of updateStatusWithRetry compares the specs only), and no sync leads on from there.
CreatedIsCompleted ==
  \A v \in Vols :
    content[v].live ~> \/ ~ content[v].live \/ content[v].del
                       \/ content[v].phase \in {"Completed", "Rollback"}
                       \/ claimView # "live"
=============================================================================
