---------------------------- MODULE VolumeModify ----------------------------
(***************************************************************************)
(* The volume-modify controller: the claim worker                          *)
(* (pkg/modify/claim_worker.go) on one VolumeModifyClaim, the content      *)
(* worker on the contents it creates (ModifyContent) and the replacement   *)
(* of the source StorageClass (StorageClassReplace), sharing an API server *)
(* whose informer caches lag.                                              *)
(*                                                                         *)
(* A claim goes from Pending to Creating, gets one content for every bound *)
(* volume of its source class, waits until they are Completed, replaces    *)
(* the class and is Completed.  Deleted while Creating, a claim for        *)
(* filesystems annotates its contents with the rollback policy, deletes    *)
(* them and waits until they are gone.                                     *)
(***************************************************************************)
EXTENDS Naturals, FiniteSets

CONSTANTS
  Vols,           \* the bound volumes of the source class
  Lag,            \* FALSE: workers run only with up-to-date caches
  NoClass,        \* no StorageClass of that name
  MaxVersion,     \* bound on the versions at which contents are created
  MaxFaults       \* bound on failed calls and restarts

ASSUME ModifyAssumption ==
  /\ Lag \in BOOLEAN
  /\ MaxVersion \in Nat /\ MaxFaults \in Nat
  /\ IsFiniteSet(Vols)

VARIABLES
  \* the content worker: see ModifyContent
  content, undelivered, lister, labelSeen, pc, copy, goal, san, metro, label,
  panicked, faults,
  \* the replacement of the class: see StorageClassReplace
  classes, replacePc, read,
  claim,            \* the VolumeModifyClaim in the API server
  claimUndelivered, \* versions of it the informer has not delivered
  claimLister,      \* the controller's cache of it
  claimPc,          \* next step of the claim worker
  claimCopy,        \* the claim object it holds, with the status it wants
  deleting,         \* this sync runs syncDeleteClaim
  after,            \* step that follows updateClaimStatusWithRetry
  todo,             \* volumes the loop at hand has not handled
  toMark,           \* of those, contents seen without the rollback policy
  claimFaults       \* failed calls of the claim worker so far

contentVars == <<content, undelivered, lister, labelSeen, pc, copy, goal, san,
                 metro, label, panicked, faults>>
classVars == <<classes, replacePc, read>>
workVars == <<claimPc, claimCopy, deleting, after, todo, toMark>>
claimVars == <<claim, claimUndelivered, claimLister>>
vars == <<contentVars, classVars, workVars, claimVars, claimFaults>>

\* What the content worker's claimLister.Get finds.
claimView ==
  CASE ~ claimLister.live -> "gone"
    [] claimLister.live /\ claimLister.del -> "deleting"
    [] claimLister.live /\ ~ claimLister.del -> "live"

Contents == INSTANCE ModifyContent

\* The claim's only change is hyperMetro; "claim" also names its backup class.
Owner == "claim"
Metro == "hyperMetro"

Class == INSTANCE StorageClassReplace WITH
  Claims <- {Owner}, Source <- "source", Keys <- {Metro}, Values <- {"true"},
  Unset <- "unset", Base <- [k \in {Metro} |-> "unset"],
  Changes <- [c \in {Owner} |-> [k \in {Metro} |-> "true"]],
  pc <- replacePc

ClaimPhases == {"", "Pending", "Creating", "Completed", "Rollback", "Deleting"}

\* contents: Status.Contents; ready: the count in Status.Ready; params:
\* Status.Parameters is set.
Claim == [rv : Nat, live : BOOLEAN, phase : ClaimPhases, fin : BOOLEAN,
          del : BOOLEAN, contents : SUBSET Vols, ready : Nat, params : BOOLEAN]

BlankClaim(rv, live) ==
  [rv |-> rv, live |-> live, phase |-> "", fin |-> FALSE, del |-> FALSE,
   contents |-> {}, ready |-> 0, params |-> FALSE]

NoClaim == BlankClaim(0, FALSE)

ClaimSteps == {"idle", "setPending", "check", "setFinalizer", "setCreating",
               "fetch", "create", "update", "wait", "replace",
               "deleteContent", "deleteLoop", "waitDelete", "removeFinalizer"}

TypeOK ==
  /\ Contents!TypeOK
  /\ Class!TypeOK
  /\ claim \in Claim
  /\ claimUndelivered \in SUBSET Claim
  /\ claimLister \in Claim
  /\ claimPc \in ClaimSteps
  /\ claimCopy \in Claim
  /\ deleting \in BOOLEAN
  /\ after \in ClaimSteps
  /\ todo \in SUBSET Vols
  /\ toMark \in SUBSET Vols
  /\ claimFaults \in Nat

\* A claim was created, and the controller has been told.
Init ==
  /\ claim = BlankClaim(1, TRUE)
  /\ claimUndelivered = {}
  /\ claimLister = claim
  /\ claimPc = "idle"
  /\ claimCopy = NoClaim
  /\ deleting = FALSE
  /\ after = "idle"
  /\ todo = {}
  /\ toMark = {}
  /\ claimFaults = 0
  /\ Contents!Init
  /\ Class!Init

-----------------------------------------------------------------------------
(* The API server's side of the claim.                                     *)

StoredClaim(obj) ==
  IF obj.del /\ ~ obj.fin
    THEN BlankClaim(claim.rv + 1, FALSE)
    ELSE [obj EXCEPT !.rv = claim.rv + 1]

StoreClaim(obj) ==
  /\ claim' = StoredClaim(obj)
  /\ claimUndelivered' = claimUndelivered \cup {StoredClaim(obj)}
  /\ UNCHANGED claimLister

ClaimCurrent(obj) == claim.live /\ obj.live /\ obj.rv = claim.rv

-----------------------------------------------------------------------------
(* The claim worker.                                                       *)

\* With Lag FALSE the controller only acts on up-to-date caches.
CachesFresh ==
  \/ Lag
  \/ claimUndelivered = {} /\ \A v \in Vols : undelivered[v] = {}

\* The claim worker goes on at step with the claim obj.
Hold(step, obj) ==
  /\ claimPc' = step
  /\ claimCopy' = IF step = "idle" THEN NoClaim ELSE obj

EndSync == Hold("idle", NoClaim) /\ UNCHANGED <<deleting, after, todo, toMark>>

\* The first function of initSyncFunctions with something to do.
SyncStep(obj) ==
  CASE obj.phase = "" -> "setPending"
    [] obj.phase = "Pending" -> "check"
    [] obj.phase = "Creating" /\ obj.contents = {} -> "fetch"
    [] obj.phase = "Creating" /\ obj.contents # {} -> "wait"
    [] OTHER -> "idle"

\* The first function of syncDeleteClaim with something to do.
DeleteStep(obj) ==
  CASE obj.phase = "" -> "idle"
    [] obj.phase = "Creating" -> "wait"
    [] obj.phase \in {"Pending", "Completed"} -> "deleteContent"
    [] obj.phase \in {"Rollback", "Deleting"} -> "waitDelete"

\* syncClaimWork.
SyncClaim ==
  LET step == IF claimLister.del THEN DeleteStep(claimLister) ELSE SyncStep(claimLister) IN
  /\ claimPc = "idle"
  /\ claimLister.live
  /\ step # "idle"
  /\ Hold(step, claimLister)
  /\ deleting' = claimLister.del
  /\ UNCHANGED <<after, todo, toMark, claimVars, contentVars, classVars>>

\* A write from the held claim; a refused one ends the sync.
WriteClaim(obj, step) ==
  /\ IF ClaimCurrent(claimCopy)
       THEN StoreClaim(obj) /\ Hold(step, StoredClaim(obj))
       ELSE Hold("idle", NoClaim) /\ UNCHANGED claimVars
  /\ UNCHANGED <<deleting, after, todo, toMark, contentVars, classVars>>

SetClaimPending ==
  /\ claimPc = "setPending"
  /\ WriteClaim([claimCopy EXCEPT !.phase = "Pending", !.ready = 0], "check")

\* Faulty: preCreateClaim does not set the finalizer.
PreCreateClaimUnprotected ==
  /\ claimPc = "check"
  /\ Hold(IF classes["source"] = NoClass THEN "idle" ELSE "setCreating", claimCopy)
  /\ UNCHANGED <<deleting, after, todo, toMark, claimVars, contentVars, classVars>>

\* preCreateClaim: the source class must exist.
PreCreateClaim ==
  /\ claimPc = "check"
  /\ Hold(CASE classes["source"] = NoClass -> "idle"
            [] claimCopy.fin -> "setCreating"
            [] OTHER -> "setFinalizer", claimCopy)
  /\ UNCHANGED <<deleting, after, todo, toMark, claimVars, contentVars, classVars>>

SetClaimFinalizers ==
  /\ claimPc = "setFinalizer"
  /\ WriteClaim([claimCopy EXCEPT !.fin = TRUE], "setCreating")

SetClaimCreating ==
  /\ claimPc = "setCreating"
  /\ WriteClaim([claimCopy EXCEPT !.phase = "Creating"], "fetch")

\* fetchRefResources.
FetchRefResources ==
  /\ claimPc = "fetch"
  /\ IF classes["source"] = NoClass
       THEN EndSync
       ELSE /\ Hold("create", claimCopy)
            /\ todo' = Vols
            /\ UNCHANGED <<deleting, after, toMark>>
  /\ UNCHANGED <<claimVars, contentVars, classVars>>

\* Write obj's status with updateClaimStatusWithRetry, then go to step.
Update(obj, step) ==
  /\ Hold("update", obj)
  /\ after' = step

\* createContents, one volume: createContent makes a content, or finds one in
\* the cache; one that exists without being cached is an error.
CreateContent(v) ==
  /\ claimPc = "create"
  /\ v \in todo
  /\ ~ (claimLister.live /\ claimLister.del)
  /\ IF lister[v].live \/ ~ content[v].live
       THEN /\ Hold("create", [claimCopy EXCEPT !.contents = @ \cup {v}])
            /\ todo' = todo \ {v}
       ELSE Hold("idle", NoClaim) /\ UNCHANGED todo
  /\ UNCHANGED <<claimVars, classVars, deleting, after, toMark>>
  /\ IF lister[v].live \/ content[v].live
       THEN UNCHANGED contentVars
       ELSE Contents!CreateContent(v)

\* createContents after the loop, which a deleted claim breaks off.
ContentsCreated ==
  /\ claimPc = "create"
  /\ todo = {} \/ (claimLister.live /\ claimLister.del)
  /\ Update([claimCopy EXCEPT !.params = TRUE, !.ready = 0], "wait")
  /\ UNCHANGED <<deleting, todo, toMark, claimVars, contentVars, classVars>>

\* updateClaimStatusWithRetry: the wanted status replaces that of the cached
\* claim.  While the cache is stale the loop goes round again.
WithStatus(obj, from) ==
  [obj EXCEPT !.phase = from.phase, !.contents = from.contents,
              !.ready = from.ready, !.params = from.params]

UpdateClaimStatus ==
  LET obj == WithStatus(claimLister, claimCopy) IN
  /\ claimPc = "update"
  /\ \/ /\ ~ claimLister.live
        /\ Hold("idle", NoClaim)
        /\ UNCHANGED claimVars
     \/ /\ ClaimCurrent(claimLister)
        /\ StoreClaim(obj)
        /\ Hold(after, StoredClaim(obj))
  /\ UNCHANGED <<deleting, after, todo, toMark, contentVars, classVars>>

\* What follows waitClaimCompleted in the running list of functions.
AfterWait == IF deleting THEN "deleteContent" ELSE "idle"

\* Faulty: a content whose modification was begun counts as completed.
FinishedEarly(v) == ~ lister[v].live \/ lister[v].phase \in {"Creating", "Completed"}

\* Faulty: a completed content does not count.
FinishedMissed(v) == ~ lister[v].live \/ lister[v].phase = "Rollback"

\* A content that is not in the cache counts as completed.
Finished(v) == ~ lister[v].live \/ lister[v].phase = "Completed"

\* waitClaimCompleted up to replaceStorageClass.
WaitClaimCompleted ==
  LET finished == {v \in claimCopy.contents : Finished(v)}
      counted == [claimCopy EXCEPT !.ready = Cardinality(finished)] IN
  /\ claimPc = "wait"
  /\ \/ /\ finished # claimCopy.contents
        /\ counted # claimCopy
        /\ Update(counted, AfterWait)
        /\ UNCHANGED replacePc
     \/ /\ finished # claimCopy.contents
        /\ counted = claimCopy
        /\ Hold(AfterWait, claimCopy)
        /\ UNCHANGED <<after, replacePc>>
     \/ /\ finished = claimCopy.contents
        /\ Hold("replace", counted)
        /\ replacePc' = [c \in {Owner} |-> "get"]
        /\ UNCHANGED after
  /\ UNCHANGED <<deleting, todo, toMark, claimVars, contentVars, classes, read>>

ReplaceEnds ==
  Update([claimCopy EXCEPT !.phase = "Completed"], AfterWait)

\* Faulty: the class is edited in place.
ReplaceInPlace ==
  /\ claimPc = "replace"
  /\ claimCopy.params
  /\ classes["source"] # NoClass
  /\ classes' = [classes EXCEPT !["source"] = [k \in {Metro} |-> "true"]]
  /\ ReplaceEnds
  /\ UNCHANGED <<replacePc, read, deleting, todo, toMark, claimVars, contentVars>>

\* One call of replaceStorageClass; an error ends the sync, and success leads
\* to the update of the phase.
ReplaceStorageClass ==
  /\ claimPc = "replace"
  /\ claimCopy.params
  /\ \/ Class!GetSource(Owner) \/ Class!GetBackup(Owner)
     \/ Class!CreateBackup(Owner) \/ Class!DeleteSource(Owner)
     \/ Class!CreateNew(Owner) \/ Class!DeleteBackup(Owner)
  /\ CASE replacePc'[Owner] = "done" -> ReplaceEnds
       [] replacePc'[Owner] = "get" -> Hold("idle", NoClaim) /\ UNCHANGED after
       [] OTHER -> UNCHANGED <<claimPc, claimCopy, after>>
  /\ UNCHANGED <<deleting, todo, toMark, claimVars, contentVars>>

\* A claim without recorded parameters has nothing to replace, but the class
\* or its backup must be found.
ReplaceNothing ==
  /\ claimPc = "replace"
  /\ ~ claimCopy.params
  /\ IF \E n \in DOMAIN classes : classes[n] # NoClass
       THEN ReplaceEnds
       ELSE Hold("idle", NoClaim) /\ UNCHANGED after
  /\ UNCHANGED <<deleting, todo, toMark, claimVars, contentVars, classVars>>

\* Faulty: the contents are not annotated.
DeleteContentUnmarked ==
  /\ claimPc = "deleteContent"
  /\ IF classes["source"] = NoClass \/ (san /\ claimCopy.phase = "Creating")
       THEN EndSync
       ELSE /\ Hold("deleteLoop", claimCopy)
            /\ todo' = {v \in Vols : lister[v].live /\ ~ lister[v].del}
            /\ UNCHANGED <<deleting, after, toMark>>
  /\ UNCHANGED <<claimVars, contentVars, classVars>>

\* deleteContent up to its loops: the contents in the cache that are not being
\* deleted already are to be deleted.
DeleteContent ==
  LET doomed == {v \in Vols : lister[v].live /\ ~ lister[v].del} IN
  /\ claimPc = "deleteContent"
  /\ IF classes["source"] = NoClass \/ (san /\ claimCopy.phase = "Creating")
       THEN EndSync
       ELSE /\ Hold("deleteLoop", claimCopy)
            /\ todo' = doomed
            /\ toMark' = IF claimCopy.phase = "Creating"
                           THEN {v \in doomed : ~ lister[v].rollback} ELSE {}
            /\ UNCHANGED <<deleting, after>>
  /\ UNCHANGED <<claimVars, contentVars, classVars>>

\* addAnnotationToContent.
AddAnnotation(v) ==
  /\ claimPc = "deleteLoop"
  /\ v \in toMark
  /\ \/ /\ ~ lister[v].live
        /\ Hold("idle", NoClaim)
        /\ UNCHANGED <<toMark, contentVars>>
     \/ /\ lister[v].live /\ lister[v].rollback
        /\ toMark' = toMark \ {v}
        /\ UNCHANGED <<claimPc, claimCopy, contentVars>>
     \/ /\ lister[v].live /\ ~ lister[v].rollback
        /\ Contents!Current(v, lister[v])
        /\ toMark' = toMark \ {v}
        /\ UNCHANGED <<claimPc, claimCopy, claimVars>>
        /\ Contents!AnnotateContent(v)
  /\ UNCHANGED <<deleting, after, todo, claimVars, classVars>>

\* Faulty: deleteRefContent takes the finalizer away as well.
DeleteRefContentForced(v) ==
  /\ claimPc = "deleteLoop"
  /\ v \in todo \ toMark
  /\ todo' = todo \ {v}
  /\ UNCHANGED <<claimPc, claimCopy, deleting, after, toMark, claimVars, classVars>>
  /\ Contents!Store(v, [content[v] EXCEPT !.del = TRUE, !.fin = FALSE])
  /\ UNCHANGED <<lister, labelSeen, pc, copy, goal, san, metro, label, panicked,
                 faults>>

\* deleteRefContent, for a content that is annotated or need not be.
DeleteRefContent(v) ==
  /\ claimPc = "deleteLoop"
  /\ v \in todo \ toMark
  /\ todo' = todo \ {v}
  /\ UNCHANGED <<claimPc, claimCopy, deleting, after, toMark, claimVars, classVars>>
  /\ IF content[v].live /\ ~ content[v].del
       THEN Contents!DeleteContent(v)
       ELSE UNCHANGED contentVars

ContentsDeleted ==
  /\ claimPc = "deleteLoop"
  /\ todo = {}
  /\ Update([claimCopy EXCEPT !.phase =
               IF @ = "Creating" THEN "Rollback" ELSE "Deleting"], "waitDelete")
  /\ UNCHANGED <<deleting, todo, toMark, claimVars, contentVars, classVars>>

\* Faulty: the test for remaining contents is turned round.
WaitClaimDeleteInverted ==
  /\ claimPc = "waitDelete"
  /\ Hold(IF \E v \in Vols : lister[v].live THEN "removeFinalizer" ELSE "idle",
          claimCopy)
  /\ UNCHANGED <<deleting, after, todo, toMark, claimVars, contentVars, classVars>>

\* waitClaimDelete.
WaitClaimDelete ==
  /\ claimPc = "waitDelete"
  /\ Hold(IF \E v \in Vols : lister[v].live THEN "idle" ELSE "removeFinalizer",
          claimCopy)
  /\ UNCHANGED <<deleting, after, todo, toMark, claimVars, contentVars, classVars>>

RemoveClaimFinalizer ==
  /\ claimPc = "removeFinalizer"
  /\ WriteClaim([claimCopy EXCEPT !.fin = FALSE], "idle")

ClaimWorker ==
  /\ \/ SyncClaim
     \/ SetClaimPending \/ PreCreateClaim \/ SetClaimFinalizers \/ SetClaimCreating
     \/ FetchRefResources \/ ContentsCreated
     \/ UpdateClaimStatus
     \/ WaitClaimCompleted \/ ReplaceStorageClass \/ ReplaceNothing
     \/ DeleteContent \/ ContentsDeleted
     \/ WaitClaimDelete \/ RemoveClaimFinalizer
     \/ \E v \in Vols : CreateContent(v) \/ AddAnnotation(v) \/ DeleteRefContent(v)
  /\ UNCHANGED claimFaults

-----------------------------------------------------------------------------
(* Failures and the environment.                                           *)

FaultsLeft == faults + claimFaults < MaxFaults

\* The claim a step writes.
WrittenClaim ==
  CASE claimPc = "setPending" -> [claimCopy EXCEPT !.phase = "Pending"]
    [] claimPc = "setFinalizer" -> [claimCopy EXCEPT !.fin = TRUE]
    [] claimPc = "setCreating" -> [claimCopy EXCEPT !.phase = "Creating"]
    [] claimPc = "removeFinalizer" -> [claimCopy EXCEPT !.fin = FALSE]
    [] claimPc = "update" -> WithStatus(claimLister, claimCopy)

\* A call of the claim worker fails, with or without its effect, and the sync
\* ends.
ClaimCallFails ==
  /\ claimPc \notin {"idle", "wait", "waitDelete"}
  /\ FaultsLeft
  /\ claimFaults' = claimFaults + 1
  /\ Hold("idle", NoClaim)
  /\ \/ UNCHANGED <<claimVars, contentVars, classVars>>
     \/ /\ claimPc \in {"setPending", "setFinalizer", "setCreating",
                        "removeFinalizer", "update"}
        /\ ClaimCurrent(IF claimPc = "update" THEN claimLister ELSE claimCopy)
        /\ StoreClaim(WrittenClaim)
        /\ UNCHANGED <<contentVars, classVars>>
     \/ /\ claimPc = "create"
        /\ UNCHANGED <<claimVars, classVars>>
        /\ \E v \in todo : ~ lister[v].live /\ Contents!CreateContent(v)
     \/ /\ claimPc = "deleteLoop"
        /\ UNCHANGED <<claimVars, classVars>>
        /\ \/ \E v \in toMark : /\ lister[v].live
                                /\ Contents!Current(v, lister[v])
                                /\ Contents!AnnotateContent(v)
           \/ \E v \in todo \ toMark : Contents!DeleteContent(v)
     \/ /\ claimPc = "replace"
        /\ claimCopy.params
        /\ Class!CallFails(Owner)
        /\ UNCHANGED <<claimVars, contentVars>>
  /\ UNCHANGED <<deleting, after, todo, toMark>>

\* The claim side of a process that starts: fresh lists, no sync.
ClaimRestarts ==
  /\ claimLister' = claim
  /\ claimUndelivered' = {}
  /\ EndSync
  /\ Class!Restart
  /\ UNCHANGED <<claim, claimFaults>>

Restart ==
  /\ FaultsLeft
  /\ ClaimRestarts
  /\ Contents!Restart

\* A step of a content worker; a panic takes the claim worker with it.
ContentWorker(v) ==
  \/ /\ UNCHANGED <<claimVars, workVars, classVars, claimFaults>>
     /\ Contents!Works(v)
  \/ /\ ClaimRestarts
     /\ Contents!Panics(v)

ContentCallFails(v) ==
  /\ FaultsLeft
  /\ UNCHANGED <<claimVars, workVars, classVars, claimFaults>>
  /\ Contents!CallFails(v)

ContentInformers(v) ==
  /\ UNCHANGED <<claimVars, workVars, classVars, claimFaults>>
  /\ Contents!Informers(v)

SyncClaimLister ==
  \E obj \in claimUndelivered :
    /\ \A other \in claimUndelivered : obj.rv <= other.rv
    /\ claimLister' = obj
    /\ claimUndelivered' = claimUndelivered \ {obj}
    /\ UNCHANGED <<claim, workVars, contentVars, classVars, claimFaults>>

\* A user deletes the claim.
DeleteClaim ==
  /\ claim.live
  /\ ~ claim.del
  /\ StoreClaim([claim EXCEPT !.del = TRUE])
  /\ UNCHANGED <<workVars, contentVars, classVars, claimFaults>>

Next ==
  \/ CachesFresh /\ (ClaimWorker \/ ClaimCallFails)
  \/ \E v \in Vols : CachesFresh /\ (ContentWorker(v) \/ ContentCallFails(v))
  \/ \E v \in Vols : ContentInformers(v)
  \/ SyncClaimLister
  \/ DeleteClaim
  \/ Restart

Spec == Init /\ [][Next]_vars

\* Both workers run, informers deliver, nodes handle their attachments.
Fairness ==
  /\ WF_vars(CachesFresh /\ ClaimWorker)
  /\ WF_vars(SyncClaimLister)
  /\ \A v \in Vols : /\ WF_vars(CachesFresh /\ ContentWorker(v))
                     /\ WF_vars(ContentInformers(v))

FairSpec == Spec /\ Fairness

-----------------------------------------------------------------------------
(* Properties.                                                             *)

\* createContents runs only under a claim that exists and carries its
\* finalizer, however stale the cached claim it started from.
CreateProtected == claimPc = "create" => claim.live /\ claim.fin

\* The contents of the composed controller behave as ModifyContent says.
ContentsImplemented == Contents!Spec

\* The source class is replaced as StorageClassReplace says.
ReplacementImplemented == Class!Spec

\* A claim goes away only after every content whose deletion was asked for:
\* whatever the caches that deleteContent and waitClaimDelete list do not show
\* yet, a content it leaves behind is one nobody deleted.
DeletedContentsGoFirst ==
  [][claim.live /\ ~ claim'.live
       => \A v \in Vols : content[v].live => ~ content[v].del]_vars

\* A claim goes away only after all its contents: what spec.md:37 and :45 say,
\* and what holds of current caches only.
ClaimOutlivesContents == ~ claim.live => \A v \in Vols : ~ content[v].live

\* A claim that goes away from phase Rollback leaves every volume local, except
\* those of contents that deleteContent did not find in the cache.
RollbackUndoesAll ==
  [][claim.live /\ claim.phase = "Rollback" /\ ~ claim'.live
       => \A v \in Vols : metro'[v] => content'[v].live /\ ~ content'[v].del]_vars

\* No content is synced without its claim.
NoPanic == ~ panicked

\* The source class carries the claim's change.
Replaced(all) == all["source"] # NoClass /\ all["source"][Metro] = "true"

\* The class is replaced only once every volume of it is modified.
ReplacedOnlyWhenModified == Replaced(classes) => \A v \in Vols : metro[v]

\* The class is replaced only while every content of the claim is Completed:
\* what spec.md:8 says, and what a content that is not cached refutes.
ReplacedOnlyWhenCompleted ==
  [][~ Replaced(classes) /\ Replaced(classes')
       => \A v \in claimCopy.contents :
            content[v].live /\ content[v].phase = "Completed"]_vars

\* A claim nobody deletes is completed.
ClaimCompletes == claim.live ~> claim.phase = "Completed" \/ claim.del \/ ~ claim.live

\* A content that deleteContent did not find in the cache keeps the claim.
HeldByMissed ==
  /\ claim.live
  /\ claim.phase \in {"Rollback", "Deleting"}
  /\ \E v \in Vols : content[v].live /\ ~ content[v].del

\* A deleted claim goes away, or waits for a content that the one run of
\* deleteContent missed: nothing but such a content can keep it for ever.
DeletedClaimGoesAway == []<>(claim.live /\ claim.del => HeldByMissed)
=============================================================================
