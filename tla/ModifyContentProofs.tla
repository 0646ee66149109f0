------------------------- MODULE ModifyContentProofs -------------------------
(***************************************************************************)
(* Proofs about ModifyContent, for any number of volumes, any lag of the   *)
(* informers and any number of faults: the state keeps its types, and a    *)
(* volume is only ever modified under a content protected by its           *)
(* finalizer.                                                              *)
(***************************************************************************)
EXTENDS ModifyContent, TLAPS

AllSteps == ForwardSteps \cup DeleteSteps \cup {"idle"}

(* The blank contents a worker and the server start from.                  *)
LEMMA AbsentContent ==
  /\ Absent \in Content /\ Blank(0, TRUE) \in Content
  /\ ~ Absent.live /\ ~ Absent.fin /\ ~ Absent.del
  /\ Blank(0, TRUE).live /\ ~ Blank(0, TRUE).fin /\ ~ Blank(0, TRUE).del
  /\ Blank(0, TRUE).phase = ""
  BY DEF Absent, Blank, Content, Phases

(* The server stores contents: what an update leaves is a content one      *)
(* version on.                                                             *)
LEMMA StoredContent ==
  ASSUME NEW v \in Vols, content[v] \in Content, NEW obj \in Content
  PROVE  /\ Stored(v, obj) \in Content
         /\ Stored(v, obj).rv = content[v].rv + 1
         /\ obj.fin \/ ~ obj.del =>
              Stored(v, obj) = [obj EXCEPT !.rv = content[v].rv + 1]
         /\ obj.del /\ ~ obj.fin =>
              Stored(v, obj) = Blank(content[v].rv + 1, FALSE)
<1>1. content[v].rv + 1 \in Nat
  BY DEF Content
<1>2. CASE obj.del /\ ~ obj.fin
  <2>1. Stored(v, obj) = Blank(content[v].rv + 1, FALSE)
    BY <1>2 DEF Stored
  <2>2. Blank(content[v].rv + 1, FALSE) \in Content
    BY <1>1, Zenon DEF Blank, Content, Phases
  <2>3. Blank(content[v].rv + 1, FALSE).rv = content[v].rv + 1
    BY DEF Blank
  <2>4. QED
    BY <1>2, <2>1, <2>2, <2>3, Zenon
<1>3. CASE ~ (obj.del /\ ~ obj.fin)
  <2>1. Stored(v, obj) = [obj EXCEPT !.rv = content[v].rv + 1]
    BY <1>3, Zenon DEF Stored
  <2>2. [obj EXCEPT !.rv = content[v].rv + 1] \in Content
    BY <1>1 DEF Content
  <2>3. QED
    BY <1>1, <1>3, <2>1, <2>2, Zenon DEF Content
<1>4. QED
  BY <1>2, <1>3, Zenon

(* NextStep and DeleteStep lead to steps of the worker.                    *)
LEMMA StepTypes ==
  ASSUME NEW obj \in Content
  PROVE  NextStep(obj) \in AllSteps /\ DeleteStep(obj) \in AllSteps
<1>1. obj.phase \in Phases /\ obj.fin \in BOOLEAN /\ obj.rollback \in BOOLEAN
  BY DEF Content
<1>2. NextStep(obj) \in AllSteps
  BY <1>1 DEF NextStep, AllSteps, ForwardSteps, DeleteSteps
<1>3. DeleteStep(obj) \in AllSteps
  BY <1>1 DEF DeleteStep, AllSteps, ForwardSteps, DeleteSteps
<1>4. QED
  BY <1>2, <1>3

(* A store keeps the types of the server.                                  *)
LEMMA StoreType ==
  ASSUME TypeOK, NEW v \in Vols, NEW obj \in Content, Store(v, obj)
  PROVE  content' \in [Vols -> Content] /\ undelivered' \in [Vols -> SUBSET Content]
<1>1. Stored(v, obj) \in Content
  BY StoredContent, Zenon DEF TypeOK
<1>2. QED
  BY <1>1 DEF TypeOK, Store

(* A worker that goes on keeps the types of its state.                     *)
LEMMA ContinueType ==
  ASSUME TypeOK, NEW v \in Vols, NEW step \in AllSteps, NEW obj \in Content,
         Continue(v, step, obj)
  PROVE  pc' \in [Vols -> AllSteps] /\ copy' \in [Vols -> Content]
  BY AbsentContent, Zenon DEF TypeOK, Continue, AllSteps

(* An update of one field of a content is a content.                       *)
LEMMA EditedContent ==
  ASSUME NEW obj \in Content
  PROVE  /\ \A p \in Phases : [obj EXCEPT !.phase = p] \in Content
         /\ \A b \in BOOLEAN : /\ [obj EXCEPT !.fin = b] \in Content
                               /\ [obj EXCEPT !.del = b] \in Content
                               /\ [obj EXCEPT !.rollback = b] \in Content
                               /\ [obj EXCEPT !.edited = b] \in Content
<1>1. \A p \in Phases : [obj EXCEPT !.phase = p] \in Content
  BY DEF Content
<1>2. \A b \in BOOLEAN : [obj EXCEPT !.fin = b] \in Content /\ [obj EXCEPT !.del = b] \in Content
  BY DEF Content
<1>3. \A b \in BOOLEAN : [obj EXCEPT !.rollback = b] \in Content /\ [obj EXCEPT !.edited = b] \in Content
  BY DEF Content
<1>4. QED
  BY <1>1, <1>2, <1>3

(* The object a step writes.                                               *)
LEMMA WrittenContent ==
  ASSUME TypeOK, NEW v \in Vols, pc[v] \in WriteSteps
  PROVE  Base(v) \in Content /\ Written(v) \in Content
<1>1. Base(v) \in Content
  BY DEF TypeOK, Base
<1>2. {"Pending", "Creating", "Rollback", "Staging", "Completed"} \subseteq Phases /\ goal[v] \in Phases
  BY Zenon DEF Phases, TypeOK
<1>3. CASE pc[v] = "setPending"
  BY <1>1, <1>2, <1>3, EditedContent DEF Written
<1>4. CASE pc[v] = "setFinalizer"
  BY <1>1, <1>4, EditedContent, Zenon DEF Written
<1>5. CASE pc[v] = "setCreating"
  BY <1>1, <1>2, <1>5, EditedContent DEF Written
<1>6. CASE pc[v] \in {"setStatus", "retryStatus"}
  BY <1>1, <1>2, <1>6, EditedContent DEF Written
<1>7. CASE pc[v] = "setRollback"
  BY <1>1, <1>2, <1>7, EditedContent DEF Written
<1>8. CASE pc[v] = "removeFinalizer"
  BY <1>1, <1>8, EditedContent, Zenon DEF Written
<1>9. QED
  BY <1>3, <1>4, <1>5, <1>6, <1>7, <1>8 DEF WriteSteps

(* Where the worker's moves can lead.                                      *)
LEMMA GotoType ==
  ASSUME TypeOK, NEW v \in Vols, NEW step \in AllSteps, Goto(v, step)
  PROVE  pc' \in [Vols -> AllSteps] /\ copy' \in [Vols -> Content]
<1>1. copy[v] \in Content
  BY DEF TypeOK
<1>2. QED
  BY <1>1, ContinueType DEF Goto

(* One write from the copy keeps the types.                                *)
LEMMA WriteType ==
  ASSUME TypeOK, NEW v \in Vols, NEW obj \in Content, NEW failed \in AllSteps,
         Write(v, obj, failed)
  PROVE  TypeOK'
<1>1. Stored(v, obj) \in Content /\ NextStep(obj) \in AllSteps
  BY StoredContent, StepTypes, Zenon DEF TypeOK
<1>2. /\ content' \in [Vols -> Content] /\ undelivered' \in [Vols -> SUBSET Content]
      /\ pc' \in [Vols -> AllSteps] /\ copy' \in [Vols -> Content]
  <2>1. CASE Current(v, copy[v])
    BY <1>1, <2>1, StoreType, ContinueType DEF Write
  <2>2. CASE ~ Current(v, copy[v])
    <3>1. Goto(v, failed) /\ UNCHANGED serverVars
      BY <2>2 DEF Write
    <3>2. QED
      BY <3>1, GotoType DEF TypeOK, serverVars
  <2>3. QED
    BY <2>1, <2>2
<1>3. QED
  BY <1>2 DEF Write, TypeOK, AllSteps, cacheVars, arrayVars, faultVars

(* updateStatusWithRetry keeps the types.                                  *)
LEMMA RetryType ==
  ASSUME TypeOK, NEW v \in Vols, NEW phase \in Phases, NEW step \in AllSteps,
         WriteWithRetry(v, phase, step)
  PROVE  TypeOK'
<1> DEFINE obj == [lister[v] EXCEPT !.phase = phase]
<1>1. obj \in Content
  BY EditedContent, Zenon DEF TypeOK
<1>2. Store(v, obj) /\ Continue(v, step, Stored(v, obj))
  BY DEF WriteWithRetry
<1> HIDE DEF obj
<1>3. Stored(v, obj) \in Content
  BY <1>1, StoredContent, Zenon DEF TypeOK
<1>4. /\ content' \in [Vols -> Content] /\ undelivered' \in [Vols -> SUBSET Content]
      /\ pc' \in [Vols -> AllSteps] /\ copy' \in [Vols -> Content]
  BY <1>1, <1>2, <1>3, StoreType, ContinueType
<1>5. QED
  BY <1>4 DEF WriteWithRetry, TypeOK, AllSteps, cacheVars, arrayVars, faultVars

(* A process that starts keeps the types.                                  *)
LEMMA StartType ==
  ASSUME TypeOK, ProcessStarts
  PROVE  /\ content' \in [Vols -> Content] /\ undelivered' \in [Vols -> SUBSET Content]
         /\ lister' \in [Vols -> Content]
         /\ claimView' \in {"live", "deleting", "gone"}
         /\ labelSeen' \in [Vols -> BOOLEAN]
         /\ pc' \in [Vols -> AllSteps] /\ copy' \in [Vols -> Content]
         /\ goal' \in [Vols -> {"Staging", "Completed"}]
         /\ san' \in BOOLEAN
         /\ metro' \in [Vols -> BOOLEAN] /\ label' \in [Vols -> BOOLEAN]
<1>1. claimView' \in {"live", "deleting", "gone"}
  BY DEF TypeOK, ProcessStarts, Later
<1>2. QED
  BY <1>1, AbsentContent, Zenon DEF TypeOK, ProcessStarts, AllSteps, arrayVars

(* The claim worker and the users keep the types.                          *)
LEMMA EnvironmentType ==
  ASSUME TypeOK, NEW v \in Vols, Environment(v)
  PROVE  TypeOK'
<1>1. /\ content[v] \in Content
      /\ [content[v] EXCEPT !.rollback = TRUE] \in Content
      /\ [content[v] EXCEPT !.del = TRUE] \in Content
      /\ [content[v] EXCEPT !.edited = TRUE] \in Content
  BY EditedContent, Zenon DEF TypeOK
<1>2. content' \in [Vols -> Content] /\ undelivered' \in [Vols -> SUBSET Content]
  BY Zenon, <1>1, AbsentContent, StoreType
     DEF Environment, CreateContent, CreateObject, AnnotateContent, AnnotateObject,
         DeleteContent, DeleteObject, EditContent
<1>3. UNCHANGED <<cacheVars, workerVars, arrayVars, faultVars>>
  BY DEF Environment, CreateContent, AnnotateContent, DeleteContent, EditContent
<1>4. QED
  BY <1>2, <1>3 DEF TypeOK, cacheVars, workerVars, arrayVars, faultVars

(* The informers and the nodes keep the types.                             *)
LEMMA InformersType ==
  ASSUME TypeOK, NEW v \in Vols, Informers(v)
  PROVE  TypeOK'
<1>1. CASE SyncLister(v)
  BY <1>1 DEF SyncLister, TypeOK, workerVars, arrayVars, faultVars
<1>2. CASE SyncLabel(v)
  BY <1>2 DEF SyncLabel, TypeOK, serverVars, workerVars, arrayVars, faultVars
<1>3. CASE HandleVA(v)
  BY <1>3 DEF HandleVA, TypeOK, serverVars, cacheVars, workerVars, faultVars
<1>4. QED
  BY <1>1, <1>2, <1>3 DEF Informers

(* The steps of a sync keep the types.                                     *)
LEMMA WorksType ==
  ASSUME TypeOK, NEW v \in Vols, Works(v)
  PROVE  TypeOK'
<1>1. copy[v] \in Content /\ lister[v] \in Content /\ goal[v] \in Phases
  BY Zenon DEF TypeOK, Phases
<1>2. {"idle", "retryStatus", "setStatus", "staged", "rollback", "removeFinalizer"} \subseteq AllSteps
  BY DEF AllSteps, ForwardSteps, DeleteSteps
<1>3. CASE SyncContent(v)
  <2>1. PICK step \in AllSteps : Begin(v, step)
    BY <1>1, <1>3, StepTypes DEF SyncContent
  <2>2. pc' \in [Vols -> AllSteps] /\ copy' \in [Vols -> Content]
    BY <1>1, <2>1, ContinueType DEF Begin
  <2>3. QED
    BY <2>1, <2>2 DEF Begin, TypeOK, AllSteps, serverVars, cacheVars, arrayVars, faultVars
<1>4. CASE SetPending(v)
  BY <1>1, <1>2, <1>4, WriteType, EditedContent, Zenon DEF SetPending, Phases
<1>5. CASE SetFinalizer(v)
  BY <1>1, <1>2, <1>5, WriteType, EditedContent, Zenon DEF SetFinalizer
<1>6. CASE SetCreating(v)
  BY <1>1, <1>2, <1>6, WriteType, EditedContent, Zenon DEF SetCreating, Phases
<1>7. CASE SetStatus(v)
  BY <1>1, <1>2, <1>7, WriteType, EditedContent DEF SetStatus
<1>8. CASE RetryStatus(v)
  BY <1>1, <1>2, <1>8, RetryType DEF RetryStatus
<1>9. CASE ModifyVolume(v)
  <2>1. pc' \in [Vols -> AllSteps] /\ copy' \in [Vols -> Content]
    BY <1>2, <1>9, GotoType DEF ModifyVolume
  <2>2. /\ metro' \in [Vols -> BOOLEAN] /\ label' \in [Vols -> BOOLEAN]
        /\ goal' \in [Vols -> {"Staging", "Completed"}]
    BY <1>9, Zenon DEF ModifyVolume, TypeOK
  <2>3. QED
    BY <1>9, <2>1, <2>2 DEF ModifyVolume, TypeOK, AllSteps, serverVars, cacheVars, faultVars
<1>10. CASE Undo(v)
  <2>1. pc' \in [Vols -> AllSteps] /\ copy' \in [Vols -> Content]
    BY <1>2, <1>10, GotoType DEF Undo
  <2>2. metro' \in [Vols -> BOOLEAN]
    BY <1>10 DEF Undo, TypeOK
  <2>3. QED
    BY <1>10, <2>1, <2>2 DEF Undo, TypeOK, AllSteps, serverVars, cacheVars, faultVars
<1>11. CASE WaitStaged(v)
  <2>1. pc' \in [Vols -> AllSteps] /\ copy' \in [Vols -> Content]
    BY <1>2, <1>11, GotoType DEF WaitStaged
  <2>2. goal' \in [Vols -> {"Staging", "Completed"}]
    BY <1>11 DEF WaitStaged, TypeOK
  <2>3. QED
    BY <1>11, <2>1, <2>2
       DEF WaitStaged, TypeOK, AllSteps, serverVars, cacheVars, arrayVars, faultVars
<1>12. CASE SetRollback(v)
  <2>1. CASE WriteWithRetry(v, "Rollback", "rollback")
    BY <1>2, <2>1, RetryType, Zenon DEF Phases
  <2>2. CASE Goto(v, "idle") /\ UNCHANGED <<serverVars, cacheVars, goal, arrayVars, faultVars>>
    <3>1. pc' \in [Vols -> AllSteps] /\ copy' \in [Vols -> Content]
      BY <1>2, <2>2, GotoType
    <3>2. QED
      BY <2>2, <3>1 DEF TypeOK, AllSteps, serverVars, cacheVars, arrayVars, faultVars
  <2>3. QED
    BY <1>12, <2>1, <2>2 DEF SetRollback
<1>13. CASE Rollback(v)
  <2>1. pc' \in [Vols -> AllSteps] /\ copy' \in [Vols -> Content]
    BY <1>2, <1>13, GotoType DEF Rollback
  <2>2. metro' \in [Vols -> BOOLEAN]
    BY <1>13 DEF Rollback, TypeOK
  <2>3. QED
    BY <1>13, <2>1, <2>2 DEF Rollback, TypeOK, AllSteps, serverVars, cacheVars, faultVars
<1>14. CASE RemoveFinalizer(v)
  <2>1. pc' \in [Vols -> AllSteps] /\ copy' \in [Vols -> Content]
    BY <1>2, <1>14, GotoType DEF RemoveFinalizer
  <2>2. content' \in [Vols -> Content] /\ undelivered' \in [Vols -> SUBSET Content]
    <3>1. [copy[v] EXCEPT !.fin = FALSE] \in Content
      BY <1>1, EditedContent, Zenon
    <3>2. CASE Current(v, copy[v])
      BY <1>14, <3>1, <3>2, StoreType DEF RemoveFinalizer
    <3>3. CASE ~ Current(v, copy[v])
      BY <1>14, <3>3 DEF RemoveFinalizer, TypeOK, serverVars
    <3>4. QED
      BY <3>2, <3>3
  <2>3. QED
    BY <1>14, <2>1, <2>2 DEF RemoveFinalizer, TypeOK, AllSteps, cacheVars, arrayVars, faultVars
<1>15. QED
  BY <1>3, <1>4, <1>5, <1>6, <1>7, <1>8, <1>9, <1>10, <1>11, <1>12, <1>13, <1>14
     DEF Works

(* A call that fails keeps the types.                                      *)
LEMMA CallFailsType ==
  ASSUME TypeOK, NEW v \in Vols, CallFails(v)
  PROVE  TypeOK'
<1>1. PICK step \in AfterError(v) : Goto(v, step)
  BY DEF CallFails
<1>2. step \in AllSteps
  BY <1>1 DEF AfterError, AllSteps, ForwardSteps, DeleteSteps
<1>3. pc' \in [Vols -> AllSteps] /\ copy' \in [Vols -> Content]
  BY <1>1, <1>2, GotoType
<1>4. /\ content' \in [Vols -> Content] /\ undelivered' \in [Vols -> SUBSET Content]
      /\ metro' \in [Vols -> BOOLEAN] /\ label' \in [Vols -> BOOLEAN]
  <2>1. CASE pc[v] \in WriteSteps /\ Store(v, Written(v)) /\ UNCHANGED <<metro, label>>
    BY <2>1, WrittenContent, StoreType DEF TypeOK
  <2>2. CASE UNCHANGED <<serverVars, metro, label>>
    BY <2>2 DEF TypeOK, serverVars
  <2>3. CASE /\ metro' = [metro EXCEPT ![v] = TRUE]
             /\ label' \in {label, [label EXCEPT ![v] = san]}
             /\ UNCHANGED serverVars
    BY <2>3 DEF TypeOK, serverVars
  <2>4. CASE metro' = [metro EXCEPT ![v] = FALSE] /\ UNCHANGED <<serverVars, label>>
    BY <2>4 DEF TypeOK, serverVars
  <2>5. QED
    BY <2>1, <2>2, <2>3, <2>4 DEF CallFails
<1>5. QED
  BY <1>3, <1>4 DEF CallFails, TypeOK, AllSteps, cacheVars

(* Every step keeps the types.                                             *)
LEMMA TypeInit == Init => TypeOK
<1> SUFFICES ASSUME Init PROVE TypeOK
  OBVIOUS
<1> QED
  BY AbsentContent, ZenonT(60) DEF Init, TypeOK

(* Any step does.                                                          *)
LEMMA TypeStep == TypeOK /\ [Next]_vars => TypeOK'
<1> SUFFICES ASSUME TypeOK, [Next]_vars PROVE TypeOK'
  OBVIOUS
<1>1. CASE UNCHANGED vars
  BY <1>1 DEF TypeOK, vars
<1>2. ASSUME NEW v \in Vols, Panics(v) PROVE TypeOK'
  BY <1>2, StartType, ZenonT(60) DEF Panics, SyncOrphan, RetryPanics, Panic, TypeOK, AllSteps
<1>3. CASE ClaimChanges
  BY <1>3 DEF ClaimChanges, Later, TypeOK, serverVars, workerVars, arrayVars, faultVars
<1>4. CASE Restart
  BY <1>4, StartType DEF Restart, TypeOK, AllSteps
<1>5. QED
  BY <1>1, <1>2, <1>3, <1>4, WorksType, CallFailsType, InformersType, EnvironmentType
     DEF Next, Worker

(* The state of the content worker and of its contents always has the type *)
(* the model gives it.                                                     *)
THEOREM ContentTypeCorrect == Spec => []TypeOK
BY TypeInit, TypeStep, PTL DEF Spec

(***************************************************************************)
(* Protection by the finalizer.                                            *)
(***************************************************************************)

(* The versions the worker may still come to see in its cache.             *)
Known(U, l) == U \cup {l}

(* An object on its way from Creating to Completed has the finalizer, and  *)
(* so has one being deleted.                                               *)
Shape(o) ==
  /\ o.live /\ (o.del \/ o.phase \in {"Creating", "Staging", "Completed"}) => o.fin
  /\ ~ o.live => ~ o.fin /\ ~ o.del

(* The server's content c, the undelivered versions U and the cached l.    *)
(* The last two conjuncts carry the argument: a version that is protected  *)
(* and not being deleted vouches for the content still being protected,    *)
(* and after a version being deleted every protected one is too.           *)
Cached(c, U, l) ==
  /\ c \in Content /\ U \in SUBSET Content /\ l \in Content
  /\ l.rv <= c.rv
  /\ \A o \in U : l.rv < o.rv /\ o.rv <= c.rv
  /\ \A o \in Known(U, l) : Shape(o)
  /\ \A o, p \in Known(U, l) : o.rv = p.rv => o = p
  /\ c \in Known(U, l)
  /\ \A o \in Known(U, l) : o.live /\ o.fin /\ ~ o.del => c.live /\ c.fin
  /\ \A o, p \in Known(U, l) :
       o.rv < p.rv /\ o.live /\ o.del /\ p.live /\ p.fin => p.del

(* A worker at step p holding the copy k.                                  *)
Holding(c, U, l, p, k) ==
  /\ k \in Content
  /\ p \in ForwardSteps \cup DeleteSteps \cup {"idle"}
  /\ k.live => k.rv <= c.rv /\ (k.rv = c.rv => k = c)
  /\ p \in {"setPending", "setFinalizer", "setCreating"} =>
       /\ k.live /\ ~ k.del
       /\ k.rv = c.rv => \A o \in Known(U, l) : ~ o.del
  /\ p = "setCreating" => k.fin
  /\ p \in {"modify", "setStatus", "retryStatus", "undo", "staged"} =>
       c.live /\ c.fin
  /\ p \in DeleteSteps =>
       \A o \in Known(U, l) : o.live /\ o.fin => o.del

Good(v) ==
  /\ Cached(content[v], undelivered[v], lister[v])
  /\ Holding(content[v], undelivered[v], lister[v], pc[v], copy[v])

(* The inductive invariant.                                                *)
IInv == TypeOK /\ \A v \in Vols : Good(v)

-----------------------------------------------------------------------------
(* Facts about the values.                                                 *)

(* A blank content is protected by nothing and needs no protection.        *)
LEMMA BlankShape ==
  ASSUME NEW rv, NEW b \in BOOLEAN
  PROVE  /\ Blank(rv, b).live = b /\ ~ Blank(rv, b).fin /\ ~ Blank(rv, b).del
         /\ Shape(Blank(rv, b))
<1>1. /\ Blank(rv, b).live = b /\ ~ Blank(rv, b).fin /\ ~ Blank(rv, b).del
      /\ Blank(rv, b).phase = ""
  BY DEF Blank
<1>2. QED
  BY <1>1, Zenon DEF Shape

(* A new version n is compatible with all the cache may still show, if it  *)
(* stays protected while some version vouches for that and is not revived  *)
(* after a deletion.                                                       *)
LEMMA CachedStore ==
  ASSUME NEW c, NEW U, NEW l, NEW n \in Content,
         Cached(c, U, l), n.rv = c.rv + 1, Shape(n),
         \A o \in Known(U, l) : o.live /\ o.fin /\ ~ o.del => n.live /\ n.fin,
         n.live /\ n.fin /\ ~ n.del => \A o \in Known(U, l) : ~ o.del
  PROVE  Cached(n, U \cup {n}, l)
<1>1. /\ n \in Content /\ U \cup {n} \in SUBSET Content /\ l \in Content
      /\ c.rv \in Nat /\ n.rv \in Nat /\ l.rv \in Nat
  BY DEF Cached, Content
<1>2. \A o \in Known(U, l) : o \in Content /\ o.rv \in Nat /\ o.rv <= c.rv
  BY <1>1 DEF Cached, Known, Content
<1>3. Known(U \cup {n}, l) = Known(U, l) \cup {n}
  BY DEF Known
<1>4. \A o \in Known(U, l) : o.rv < n.rv
  BY <1>1, <1>2
<1>5. l.rv <= n.rv /\ \A o \in U \cup {n} : l.rv < o.rv /\ o.rv <= n.rv
  BY <1>1, <1>2, <1>4 DEF Cached, Known
<1>6. /\ \A o \in Known(U \cup {n}, l) : Shape(o)
      /\ \A o, p \in Known(U \cup {n}, l) : o.rv = p.rv => o = p
  <2>1. \A o \in Known(U, l) : o.rv # n.rv
    BY <1>1, <1>2, <1>4
  <2>2. QED
    BY <2>1, <1>3, Zenon DEF Cached
<1>7. n \in Known(U \cup {n}, l)
  BY <1>3
<1>8. \A o \in Known(U \cup {n}, l) : o.live /\ o.fin /\ ~ o.del => n.live /\ n.fin
  BY <1>3
<1>9. \A o, p \in Known(U \cup {n}, l) :
        o.rv < p.rv /\ o.live /\ o.del /\ p.live /\ p.fin => p.del
  <2>1. SUFFICES ASSUME NEW o \in Known(U \cup {n}, l), NEW p \in Known(U \cup {n}, l),
                        o.rv < p.rv, o.live, o.del, p.live, p.fin
                 PROVE  p.del
    OBVIOUS
  <2>2. CASE p = n
    BY <2>1, <2>2, <1>1, <1>3, Zenon
  <2>3. CASE p # n
    <3>1. p \in Known(U, l) /\ p.rv < n.rv
      BY <2>3, <1>3, <1>4
    <3>2. o # n
      BY <3>1, <2>1, <1>1, <1>2
    <3>3. QED
      BY <3>1, <3>2, <2>1, <1>3, Zenon DEF Cached
  <2>4. QED
    BY <2>2, <2>3
<1>10. QED
  BY <1>1, <1>5, <1>6, <1>7, <1>8, <1>9, Zenon DEF Cached

(* An edit of the content keeps its protection and its deletion.           *)
LEMMA CachedEdit ==
  ASSUME NEW c, NEW U, NEW l, NEW n \in Content,
         Cached(c, U, l), n.rv = c.rv + 1, Shape(n), c.live, n.live,
         n.fin = c.fin, c.del => n.del
  PROVE  Cached(n, U \cup {n}, l)
<1>1. \A o \in Known(U, l) : o.live /\ o.fin /\ ~ o.del => n.live /\ n.fin
  BY DEF Cached
<1>2. ASSUME n.live, n.fin, ~ n.del, NEW o \in Known(U, l), o.del PROVE FALSE
  <2>1. c \in Known(U, l) /\ o \in Content /\ c \in Content /\ o.rv <= c.rv
    BY <1>2 DEF Cached, Known, Content
  <2>2. o.live
    BY <1>2, <2>1 DEF Cached, Shape
  <2>3. o.rv = c.rv \/ o.rv < c.rv
    BY <2>1 DEF Content
  <2>4. QED
    BY <1>2, <2>1, <2>2, <2>3, Zenon DEF Cached
<1>3. QED
  BY <1>1, <1>2, CachedStore

(* A worker that does not move is not disturbed by a new version that      *)
(* neither loses the finalizer nor is protected anew.                      *)
LEMMA HoldingStore ==
  ASSUME NEW c, NEW U, NEW l, NEW n \in Content, NEW p, NEW k,
         Cached(c, U, l), Holding(c, U, l, p, k), n.rv = c.rv + 1,
         c.live /\ c.fin => n.live /\ n.fin,
         n.live /\ n.fin => c.live /\ c.fin /\ (c.del => n.del)
  PROVE  Holding(n, U \cup {n}, l, p, k)
<1>1. c.rv \in Nat /\ n.rv \in Nat /\ k.rv \in Nat /\ k \in Content
  BY DEF Cached, Holding, Content
<1>2. Known(U \cup {n}, l) = Known(U, l) \cup {n} /\ c \in Known(U, l)
  BY DEF Known, Cached
<1>3. k.live => k.rv < n.rv
  BY <1>1 DEF Holding
<1>4. /\ k.live => k.rv <= n.rv /\ k.rv # n.rv
      /\ p \in {"setPending", "setFinalizer", "setCreating"} =>
           k.live /\ ~ k.del /\ k.rv # n.rv
  BY <1>1, <1>3 DEF Holding
<1>5. p \in {"modify", "setStatus", "retryStatus", "undo", "staged"} => n.live /\ n.fin
  BY DEF Holding
<1>6. p \in DeleteSteps =>
        \A o \in Known(U \cup {n}, l) : o.live /\ o.fin => o.del
  BY <1>2 DEF Holding
<1>7. QED
  BY <1>1, <1>4, <1>5, <1>6, Zenon DEF Holding

(* The informer delivers the oldest undelivered version.                   *)
LEMMA DeliverKeeps ==
  ASSUME NEW c, NEW U, NEW l, NEW p, NEW k, NEW obj \in U,
         \A other \in U : obj.rv <= other.rv,
         Cached(c, U, l), Holding(c, U, l, p, k)
  PROVE  Cached(c, U \ {obj}, obj) /\ Holding(c, U \ {obj}, obj, p, k)
<1>1. /\ c.rv \in Nat /\ l.rv \in Nat
      /\ \A o \in U : o \in Content /\ o.rv \in Nat
      /\ Known(U \ {obj}, obj) = U /\ U \subseteq Known(U, l)
  BY DEF Cached, Content, Known
<1>2. c \in U
  BY <1>1 DEF Cached, Known
<1>3. \A o \in U \ {obj} : obj.rv < o.rv /\ o.rv <= c.rv
  BY <1>1 DEF Cached
<1>4. Cached(c, U \ {obj}, obj)
  BY <1>1, <1>2, <1>3, Zenon DEF Cached
<1>5. QED
  BY <1>1, <1>4, Zenon DEF Holding

-----------------------------------------------------------------------------
(* The inductive invariant is kept, volume by volume.                      *)

(* A worker between two syncs holds nothing.                               *)
LEMMA IdleHolds ==
  ASSUME NEW c, NEW U, NEW l
  PROVE  Holding(c, U, l, "idle", Absent)
  BY AbsentContent, Zenon DEF Holding, ForwardSteps, DeleteSteps

(* A step of the worker on v, of its informers or of the environment of v  *)
(* leaves the other volumes alone.                                         *)
Frame(v) ==
  \A w \in Vols \ {v} :
    /\ content'[w] = content[w] /\ undelivered'[w] = undelivered[w]
    /\ lister'[w] = lister[w] /\ pc'[w] = pc[w] /\ copy'[w] = copy[w]

(* The invariant follows from that of the one volume a step is about.      *)
LEMMA FrameGood ==
  ASSUME IInv, TypeOK', NEW v \in Vols, Frame(v), Good(v)'
  PROVE  IInv'
<1>1. ASSUME NEW w \in Vols, w # v PROVE Good(w)'
  BY <1>1 DEF IInv, Frame, Good
<1>2. QED
  BY <1>1 DEF IInv

(* What the server stores for the worker's next write, and all the cache   *)
(* may show then.                                                          *)
Out(v) == Stored(v, Written(v))
KnownNext(v) == Known(undelivered[v] \cup {Out(v)}, lister[v])

(* A write of the worker from a current object, whether or not it sees the *)
(* answer.                                                                 *)
LEMMA WrittenKeeps ==
  ASSUME TypeOK, NEW v \in Vols, Good(v), pc[v] \in WriteSteps, Current(v, Base(v))
  PROVE  /\ Cached(Out(v), undelivered[v] \cup {Out(v)}, lister[v])
         /\ Out(v) \in Content /\ Out(v).rv = content[v].rv + 1
         /\ pc[v] \in {"setPending", "setFinalizer", "setCreating"} =>
              /\ Out(v).live /\ \A o \in KnownNext(v) : ~ o.del
              /\ Out(v) = [Written(v) EXCEPT !.rv = Out(v).rv]
         /\ pc[v] \in {"setStatus", "retryStatus"} => Out(v).live /\ Out(v).fin
         /\ pc[v] \in DeleteSteps => \A o \in KnownNext(v) : o.live /\ o.fin => o.del
<1> DEFINE n == Out(v)
           K == KnownNext(v)
           c == content[v]
           U == undelivered[v]
           l == lister[v]
           obj == Written(v)
<1>1. /\ c \in Content /\ l \in Content /\ obj \in Content /\ goal[v] \in {"Staging", "Completed"}
      /\ Cached(c, U, l) /\ Holding(c, U, l, pc[v], copy[v])
  BY WrittenContent DEF TypeOK, Good
<1>2. Base(v) = c /\ c.live /\ c \in Known(U, l) /\ Shape(c)
  <2>1. c.live /\ c \in Known(U, l) /\ Shape(c) /\ l \in Known(U, l)
    BY <1>1 DEF Current, Cached, Known
  <2>2. CASE pc[v] \in {"retryStatus", "setRollback"}
    BY <1>1, <2>1, <2>2 DEF Base, Current, Cached
  <2>3. CASE pc[v] \notin {"retryStatus", "setRollback"}
    BY <1>1, <2>1, <2>3 DEF Base, Current, Holding
  <2>4. QED
    BY <2>1, <2>2, <2>3
<1>3. /\ n \in Content /\ n.rv = c.rv + 1
      /\ obj.fin \/ ~ obj.del => n = [obj EXCEPT !.rv = c.rv + 1]
      /\ obj.del /\ ~ obj.fin => n = Blank(c.rv + 1, FALSE)
  BY <1>1, StoredContent, Zenon DEF Out
<1>4. K = Known(U, l) \cup {n}
  BY DEF Known, KnownNext
<1>5. CASE pc[v] \in {"setPending", "setFinalizer", "setCreating"}
  <2>1. copy[v] = c /\ ~ c.del /\ (\A o \in Known(U, l) : ~ o.del)
        /\ (pc[v] = "setCreating" => c.fin)
    BY <1>1, <1>2, <1>5 DEF Holding, Base
  <2>2. /\ obj.live /\ ~ obj.del /\ (c.fin => obj.fin)
        /\ obj.phase \in {"Creating", "Staging", "Completed"} => obj.fin
    <3>1. CASE pc[v] = "setPending"
      BY <1>1, <1>2, <2>1, <3>1 DEF Written, Content
    <3>2. CASE pc[v] = "setFinalizer"
      BY <1>1, <1>2, <2>1, <3>2 DEF Written, Content
    <3>3. CASE pc[v] = "setCreating"
      BY <1>1, <1>2, <2>1, <3>3 DEF Written, Content
    <3>4. QED
      BY <1>5, <3>1, <3>2, <3>3
  <2> HIDE DEF obj
  <2>3. n = [obj EXCEPT !.rv = n.rv] /\ n.live /\ ~ n.del /\ (c.fin => n.fin) /\ Shape(n)
    BY <1>1, <1>3, <2>2 DEF Content, Shape
  <2>4. Cached(n, U \cup {n}, l)
    <3>1. \A o \in Known(U, l) : o.live /\ o.fin /\ ~ o.del => n.live /\ n.fin
      BY <1>1, <2>3 DEF Cached
    <3>2. QED
      BY <1>1, <1>3, <2>1, <2>3, <3>1, CachedStore
  <2>5. \A o \in K : ~ o.del
    BY <1>4, <2>1, <2>3
  <2>6. QED
    BY <1>3, <1>5, <2>3, <2>4, <2>5 DEF obj, DeleteSteps
<1>6. CASE pc[v] \in {"setStatus", "retryStatus", "setRollback"}
  <2>1. /\ obj = [c EXCEPT !.phase = obj.phase]
        /\ obj.phase \in {"Staging", "Completed", "Rollback"}
        /\ pc[v] = "setRollback" => obj.phase = "Rollback"
    <3>1. CASE pc[v] \in {"setStatus", "retryStatus"}
      BY <1>1, <1>2, <3>1 DEF Written, Content
    <3>2. CASE pc[v] = "setRollback"
      BY <1>1, <1>2, <3>2 DEF Written, Content
    <3>3. QED
      BY <1>6, <3>1, <3>2
  <2> HIDE DEF obj
  <2>2. /\ obj.live /\ obj.fin = c.fin /\ obj.del = c.del
        /\ obj.phase # "Rollback" => obj.fin
    <3>1. obj.live /\ obj.fin = c.fin /\ obj.del = c.del
      BY <1>1, <1>2, <2>1 DEF Content
    <3>2. pc[v] # "setRollback" => c.fin
      BY <1>1, <1>6 DEF Holding
    <3>3. QED
      BY <2>1, <3>1, <3>2
  <2>3. n.live /\ n.fin = c.fin /\ n.del = c.del /\ Shape(n)
    BY <1>1, <1>2, <1>3, <2>1, <2>2 DEF Content, Shape
  <2>4. Cached(n, U \cup {n}, l)
    BY <1>1, <1>2, <1>3, <2>3, CachedEdit
  <2>5. pc[v] \in {"setStatus", "retryStatus"} => n.live /\ n.fin
    BY <1>1, <2>3 DEF Holding
  <2>6. pc[v] \in DeleteSteps => \A o \in K : o.live /\ o.fin => o.del
    BY <1>1, <1>2, <1>4, <2>3 DEF Holding
  <2>7. QED
    BY <1>3, <1>6, <2>4, <2>5, <2>6
<1>7. CASE pc[v] = "removeFinalizer"
  <2>1. copy[v] = c /\ (\A o \in Known(U, l) : o.live /\ o.fin => o.del)
    BY <1>1, <1>2, <1>7 DEF Holding, Base, DeleteSteps
  <2>2. obj = [c EXCEPT !.fin = FALSE]
    BY <1>2, <1>7 DEF Written
  <2> HIDE DEF obj
  <2>3. ~ n.fin /\ ~ n.del /\ Shape(n)
    <3>1. CASE c.del
      <4>1. n = Blank(c.rv + 1, FALSE)
        BY <1>1, <1>3, <2>2, <3>1, ZenonT(60) DEF Content
      <4>2. QED
        BY <4>1, BlankShape, Zenon
    <3>2. CASE ~ c.del
      <4>1. ~ c.fin
        BY <1>2, <2>1, <3>2
      <4>2. n = [obj EXCEPT !.rv = c.rv + 1]
        BY <1>1, <1>3, <2>2, <3>2 DEF Content
      <4>3. QED
        BY <1>1, <1>2, <2>2, <3>2, <4>1, <4>2 DEF Content, Shape
    <3>3. QED
      BY <3>1, <3>2
  <2>4. Cached(n, U \cup {n}, l)
    BY <1>1, <1>3, <2>1, <2>3, CachedStore
  <2>5. QED
    BY <1>3, <1>4, <1>7, <2>1, <2>3, <2>4
<1>8. QED
  BY <1>5, <1>6, <1>7 DEF WriteSteps

(* What Store, Continue and Goto do to one volume.                         *)
LEMMA StoreAt ==
  ASSUME TypeOK, NEW v \in Vols, NEW obj, Store(v, obj)
  PROVE  /\ content'[v] = Stored(v, obj)
         /\ undelivered'[v] = undelivered[v] \cup {Stored(v, obj)}
         /\ \A w \in Vols \ {v} :
              content'[w] = content[w] /\ undelivered'[w] = undelivered[w]
  BY DEF TypeOK, Store

(* Where a worker that goes on at step is.                                 *)
LEMMA ContinueAt ==
  ASSUME TypeOK, NEW v \in Vols, NEW step, NEW obj, Continue(v, step, obj)
  PROVE  /\ pc'[v] = step
         /\ step = "idle" => copy'[v] = Absent
         /\ step # "idle" => copy'[v] = obj
         /\ \A w \in Vols \ {v} : pc'[w] = pc[w] /\ copy'[w] = copy[w]
  BY DEF TypeOK, Continue

(* A write that is stored, after which the worker goes on at step.         *)
LEMMA StoreAndContinueAt ==
  ASSUME TypeOK, NEW v \in Vols, NEW step, NEW k, lister' = lister,
         Store(v, Written(v)), Continue(v, step, k)
  PROVE  /\ content'[v] = Out(v)
         /\ undelivered'[v] = undelivered[v] \cup {Out(v)}
         /\ pc'[v] = step
         /\ step = "idle" => copy'[v] = Absent
         /\ step # "idle" => copy'[v] = k
         /\ Frame(v)
<1>1. /\ content'[v] = Out(v)
      /\ undelivered'[v] = undelivered[v] \cup {Out(v)}
      /\ \A w \in Vols \ {v} :
           content'[w] = content[w] /\ undelivered'[w] = undelivered[w]
  BY StoreAt DEF Out
<1>2. /\ pc'[v] = step
      /\ step = "idle" => copy'[v] = Absent
      /\ step # "idle" => copy'[v] = k
      /\ \A w \in Vols \ {v} : pc'[w] = pc[w] /\ copy'[w] = copy[w]
  BY ContinueAt
<1>3. Frame(v)
  BY <1>1, <1>2 DEF Frame
<1>4. QED
  BY <1>1, <1>2, <1>3

(* A worker that goes on at step without writing.                          *)
LEMMA ContinueOnlyAt ==
  ASSUME TypeOK, NEW v \in Vols, NEW step, NEW k, Continue(v, step, k),
         content' = content, undelivered' = undelivered, lister' = lister,
         Good(v), Holding(content[v], undelivered[v], lister[v], step,
                          IF step = "idle" THEN Absent ELSE k)
  PROVE  Good(v)' /\ Frame(v)
<1>1. /\ pc'[v] = step
      /\ copy'[v] = IF step = "idle" THEN Absent ELSE k
      /\ \A w \in Vols \ {v} : pc'[w] = pc[w] /\ copy'[w] = copy[w]
  BY ContinueAt
<1>2. Frame(v)
  BY <1>1 DEF Frame
<1>3. Holding(content'[v], undelivered'[v], lister'[v], pc'[v], copy'[v])
  BY <1>1
<1>4. Cached(content'[v], undelivered'[v], lister'[v])
  BY DEF Good
<1>5. QED
  BY <1>2, <1>3, <1>4 DEF Good

(* preCreateContent and setContentStatus write from the copy.              *)
LEMMA WriteKeeps ==
  ASSUME TypeOK, NEW v \in Vols, Good(v),
         pc[v] \in {"setPending", "setFinalizer", "setCreating", "setStatus"},
         NEW failed, Write(v, Written(v), failed),
         failed = IF pc[v] = "setStatus" THEN "retryStatus" ELSE "idle"
  PROVE  Good(v)' /\ Frame(v)
<1>1. lister' = lister /\ copy[v] \in Content
  BY DEF Write, cacheVars, TypeOK
<1>2. CASE Current(v, copy[v])
  <2> DEFINE obj == Written(v)
             n == Out(v)
             K == KnownNext(v)
  <2>1. Store(v, obj) /\ Continue(v, NextStep(obj), n) /\ n = Stored(v, obj)
    BY <1>2 DEF Write, Out
  <2>2. pc[v] \in WriteSteps /\ Base(v) = copy[v] /\ obj \in Content /\ copy[v].live /\ content[v].live
    BY <1>2, WrittenContent DEF WriteSteps, Base, Current
  <2>3. Current(v, Base(v))
    BY <1>2, <2>2
  <2>4. /\ Cached(n, undelivered[v] \cup {n}, lister[v])
        /\ n \in Content /\ n.rv = content[v].rv + 1
        /\ pc[v] \in {"setPending", "setFinalizer", "setCreating"} =>
             n.live /\ (\A o \in K : ~ o.del) /\ n = [obj EXCEPT !.rv = n.rv]
        /\ pc[v] \in {"setStatus", "retryStatus"} => n.live /\ n.fin
        /\ pc[v] \in DeleteSteps => \A o \in K : o.live /\ o.fin => o.del
    BY <2>2, <2>3, WrittenKeeps
  <2>5. /\ content'[v] = n /\ undelivered'[v] = undelivered[v] \cup {n}
        /\ pc'[v] = NextStep(obj)
        /\ NextStep(obj) = "idle" => copy'[v] = Absent
        /\ NextStep(obj) # "idle" => copy'[v] = n
        /\ Frame(v)
    BY <1>1, <2>1, StoreAndContinueAt
  <2>6. /\ NextStep(obj) \in {"setPending", "setFinalizer", "setCreating",
                              "modify", "staged", "idle"}
        /\ pc[v] = "setStatus" => NextStep(obj) \in {"staged", "idle"}
        /\ NextStep(obj) = "setCreating" => obj.fin
        /\ NextStep(obj) \in {"modify", "staged"} => obj.phase \in {"Creating", "Staging"}
    <3>1. obj.phase \in Phases /\ obj.fin \in BOOLEAN
      BY <2>2 DEF Content
    <3>2. pc[v] = "setStatus" => obj.phase \in {"Staging", "Completed"}
      BY <2>2 DEF Written, TypeOK, Content
    <3> HIDE DEF obj
    <3>3. QED
      BY <3>1, <3>2, Zenon DEF NextStep, Phases
  <2> HIDE DEF obj
  <2>7. n.live /\ (NextStep(obj) = "setCreating" => n.fin)
        /\ (NextStep(obj) \in {"modify", "staged"} => n.fin)
    <3>1. CASE pc[v] = "setStatus"
      BY <2>4, <2>6, <3>1
    <3>2. CASE pc[v] # "setStatus"
      <4>1. n.live /\ n.fin = obj.fin /\ n.phase = obj.phase /\ Shape(n)
        <5>1. Shape(n)
          BY <2>4 DEF Cached, Known
        <5>2. n.live /\ n = [obj EXCEPT !.rv = n.rv]
          BY <2>4, <3>2
        <5> HIDE DEF n
        <5>3. QED
          BY <2>2, <5>1, <5>2 DEF Content
      <4>2. QED
        BY <2>6, <4>1 DEF Shape
    <3>3. QED
      BY <3>1, <3>2
  <2>8. Holding(n, undelivered[v] \cup {n}, lister[v], pc'[v], copy'[v])
    <3>1. CASE NextStep(obj) = "idle"
      BY <2>5, <3>1, IdleHolds
    <3>2. CASE NextStep(obj) # "idle"
      <4>1. n.rv <= n.rv
        BY <2>4 DEF Content
      <4>2. NextStep(obj) \in {"setPending", "setFinalizer", "setCreating"} => ~ n.del /\ \A o \in K : ~ o.del
        BY <2>4, <2>6 DEF Known, KnownNext
      <4>3. K = Known(undelivered[v] \cup {n}, lister[v])
        BY DEF KnownNext
      <4> HIDE DEF n, K
      <4>4. Holding(n, undelivered[v] \cup {n}, lister[v], NextStep(obj), n)
        BY <2>4, <2>6, <2>7, <3>2, <4>1, <4>2, <4>3
           DEF Holding, ForwardSteps, DeleteSteps
      <4>5. QED
        BY <2>5, <3>2, <4>4
    <3>3. QED
      BY <3>1, <3>2
  <2> HIDE DEF n
  <2>9. QED
    BY <1>1, <2>4, <2>5, <2>8 DEF Good
<1>3. CASE ~ Current(v, copy[v])
  <2>1. Continue(v, failed, copy[v]) /\ content' = content /\ undelivered' = undelivered
    BY <1>3 DEF Write, Goto, serverVars
  <2>2. /\ pc'[v] = failed
        /\ failed = "idle" => copy'[v] = Absent
        /\ failed # "idle" => copy'[v] = copy[v]
        /\ Frame(v)
    BY <1>1, <2>1, ContinueAt, SMTT(30) DEF Frame
  <2>3. Holding(content[v], undelivered[v], lister[v], pc'[v], copy'[v])
    <3>1. CASE pc[v] = "setStatus"
      BY <2>2, <3>1 DEF Good, Holding, ForwardSteps, DeleteSteps
    <3>2. CASE pc[v] # "setStatus"
      BY <2>2, <3>2, IdleHolds
    <3>3. QED
      BY <3>1, <3>2
  <2>4. QED
    BY <1>1, <2>1, <2>2, <2>3 DEF Good
<1>4. QED
  BY <1>2, <1>3

(* updateStatusWithRetry writes from the cached content.                   *)
LEMMA RetryKeeps ==
  ASSUME TypeOK, NEW v \in Vols, Good(v), NEW phase, NEW step,
         \/ pc[v] = "retryStatus" /\ phase = goal[v] /\ step \in {"staged", "idle"}
         \/ pc[v] = "setRollback" /\ phase = "Rollback" /\ step = "rollback",
         WriteWithRetry(v, phase, step)
  PROVE  Good(v)' /\ Frame(v)
<1>1. /\ [lister[v] EXCEPT !.phase = phase] = Written(v)
      /\ Base(v) = lister[v] /\ pc[v] \in WriteSteps
  <2>1. CASE pc[v] = "retryStatus"
    BY <2>1 DEF Written, Base, WriteSteps
  <2>2. CASE pc[v] = "setRollback"
    BY <2>2 DEF Written, Base, WriteSteps
  <2>3. QED
    BY <2>1, <2>2
<1>2. /\ Store(v, Written(v)) /\ Continue(v, step, Out(v)) /\ Current(v, Base(v))
      /\ lister' = lister
  BY <1>1 DEF WriteWithRetry, Out, cacheVars
<1>3. /\ Cached(Out(v), undelivered[v] \cup {Out(v)}, lister[v])
      /\ Out(v) \in Content
      /\ pc[v] = "retryStatus" => Out(v).live /\ Out(v).fin
      /\ pc[v] = "setRollback" =>
           \A o \in Known(undelivered[v] \cup {Out(v)}, lister[v]) : o.live /\ o.fin => o.del
  BY <1>1, <1>2, WrittenKeeps, Zenon DEF KnownNext, DeleteSteps
<1>4. /\ content'[v] = Out(v) /\ undelivered'[v] = undelivered[v] \cup {Out(v)}
      /\ pc'[v] = step
      /\ step = "idle" => copy'[v] = Absent
      /\ step # "idle" => copy'[v] = Out(v)
      /\ Frame(v)
  BY <1>2, StoreAndContinueAt, ZenonT(60)
<1>5. Holding(Out(v), undelivered[v] \cup {Out(v)}, lister[v], pc'[v], copy'[v])
  <2>1. CASE step = "idle"
    BY <1>4, <2>1, IdleHolds
  <2>2. CASE step # "idle"
    <3>1. Out(v).rv <= Out(v).rv
      BY <1>3 DEF Content
    <3>2. QED
      BY <1>3, <1>4, <2>2, <3>1, ZenonT(60) DEF Holding, ForwardSteps, DeleteSteps
  <2>3. QED
    BY <2>1, <2>2
<1>6. QED
  BY <1>2, <1>3, <1>4, <1>5 DEF Good

(* Moves of the worker that write nothing to the server.                   *)
LEMMA GotoKeeps ==
  ASSUME TypeOK, NEW v \in Vols, Good(v), NEW step, Goto(v, step),
         UNCHANGED <<content, undelivered, lister>>,
         \/ step = "idle"
         \/ /\ pc[v] \in {"modify", "setStatus", "retryStatus", "staged"}
            /\ step \in {"setStatus", "retryStatus", "undo"}
         \/ /\ pc[v] \in {"setRollback", "rollback"}
            /\ step \in {"setRollback", "removeFinalizer"}
  PROVE  Good(v)' /\ Frame(v)
<1>1. /\ pc'[v] = step
      /\ step = "idle" => copy'[v] = Absent
      /\ step # "idle" => copy'[v] = copy[v]
      /\ Frame(v)
  BY ContinueAt DEF Goto, Frame
<1>2. Holding(content[v], undelivered[v], lister[v], pc'[v], copy'[v])
  <2>1. CASE step = "idle"
    BY <1>1, <2>1, IdleHolds
  <2>2. CASE step # "idle"
    BY <1>1, <2>2 DEF Good, Holding, ForwardSteps, DeleteSteps
  <2>3. QED
    BY <2>1, <2>2
<1>3. QED
  BY <1>1, <1>2 DEF Good

(* A sync begins with the cached content.                                  *)
LEMMA SyncKeeps ==
  ASSUME TypeOK, NEW v \in Vols, Good(v), SyncContent(v)
  PROVE  Good(v)' /\ Frame(v)
<1> DEFINE c == content[v]
           U == undelivered[v]
           l == lister[v]
<1>1. /\ l \in Content /\ l.live /\ Cached(c, U, l) /\ UNCHANGED <<content, undelivered, lister>>
      /\ c.rv \in Nat /\ l.rv \in Nat /\ l.phase \in Phases /\ l.fin \in BOOLEAN
  BY DEF TypeOK, Good, SyncContent, Begin, serverVars, cacheVars, Content
<1>2. l.rv <= c.rv /\ (l.rv = c.rv => l = c /\ U = {}) /\ l \in Known(U, l) /\ c \in Known(U, l)
  <2>1. l.rv <= c.rv /\ l \in Known(U, l) /\ c \in Known(U, l)
    BY DEF Cached, Known, Good
  <2>2. ASSUME l.rv = c.rv, NEW o \in U PROVE FALSE
    <3>1. o.rv \in Nat /\ l.rv < o.rv /\ o.rv <= c.rv
      BY <1>1, <2>2 DEF Cached, Content
    <3>2. QED
      BY <1>1, <2>2, <3>1
  <2>3. QED
    BY <1>1, <2>1, <2>2 DEF Cached
<1>3. CASE l.del
  <2>1. PICK step : step = DeleteStep(l) /\ step # "idle" /\ Continue(v, step, l)
    BY <1>3 DEF SyncContent, Begin
  <2>2. step \in DeleteSteps
    BY <1>1, <2>1, ZenonT(60) DEF DeleteStep, DeleteSteps, Phases
  <2>3. ASSUME NEW o \in Known(U, l), o.live, o.fin PROVE o.del
    <3>1. o = l \/ l.rv < o.rv
      BY <1>1 DEF Cached, Known
    <3>2. QED
      BY <1>1, <1>2, <1>3, <2>3, <3>1 DEF Cached
  <2>4. Holding(c, U, l, step, l)
    BY <1>1, <1>2, <1>3, <2>2, <2>3 DEF Holding, DeleteSteps, ForwardSteps
  <2>5. QED
    BY <1>1, <2>1, <2>4, ContinueOnlyAt
<1>4. CASE ~ l.del
  <2>1. PICK step : step = NextStep(l) /\ step # "idle" /\ Continue(v, step, l)
    BY <1>4 DEF SyncContent, Begin
  <2>2. /\ step \in {"setPending", "setFinalizer", "setCreating", "modify", "staged"}
        /\ step = "setCreating" => l.fin
        /\ step \in {"modify", "staged"} => l.phase \in {"Creating", "Staging"}
    BY <1>1, <2>1, ZenonT(60) DEF NextStep, Phases
  <2>3. step \in {"modify", "staged"} => c.live /\ c.fin
    BY <1>1, <1>2, <1>4, <2>2 DEF Cached, Shape
  <2>4. l.rv = c.rv => \A o \in Known(U, l) : ~ o.del
    BY <1>2, <1>4 DEF Known
  <2>5. Holding(c, U, l, step, l)
    BY <1>1, <1>2, <1>4, <2>2, <2>3, <2>4 DEF Holding, DeleteSteps, ForwardSteps
  <2>6. QED
    BY <1>1, <2>1, <2>5, ContinueOnlyAt
<1>5. QED
  BY <1>3, <1>4

(* The steps of a sync keep the invariant.                                 *)
LEMMA WorksKeep ==
  ASSUME TypeOK, NEW v \in Vols, Good(v), Works(v)
  PROVE  Good(v)' /\ Frame(v)
<1>1. CASE SyncContent(v)
  BY <1>1, SyncKeeps
<1>2. CASE SetPending(v)
  <2>1. pc[v] = "setPending" /\ Write(v, Written(v), "idle")
    BY <1>2 DEF SetPending, Written, Base
  <2>2. QED
    BY <2>1, WriteKeeps
<1>3. CASE SetFinalizer(v)
  <2>1. pc[v] = "setFinalizer" /\ Write(v, Written(v), "idle")
    BY <1>3 DEF SetFinalizer, Written, Base
  <2>2. QED
    BY <2>1, WriteKeeps
<1>4. CASE SetCreating(v)
  <2>1. pc[v] = "setCreating" /\ Write(v, Written(v), "idle")
    BY <1>4 DEF SetCreating, Written, Base
  <2>2. QED
    BY <2>1, WriteKeeps
<1>5. CASE SetStatus(v)
  <2>1. pc[v] = "setStatus" /\ Write(v, Written(v), "retryStatus")
    BY <1>5 DEF SetStatus, Written, Base
  <2>2. QED
    BY <2>1, WriteKeeps
<1>6. CASE RetryStatus(v)
  BY <1>6, RetryKeeps DEF RetryStatus
<1>7. CASE ModifyVolume(v)
  BY <1>7, GotoKeeps DEF ModifyVolume, serverVars, cacheVars
<1>8. CASE Undo(v)
  BY <1>8, GotoKeeps DEF Undo, serverVars, cacheVars
<1>9. CASE WaitStaged(v)
  BY <1>9, GotoKeeps DEF WaitStaged, serverVars, cacheVars
<1>10. CASE SetRollback(v)
  BY <1>10, RetryKeeps, GotoKeeps DEF SetRollback, serverVars, cacheVars
<1>11. CASE Rollback(v)
  BY <1>11, GotoKeeps DEF Rollback, serverVars, cacheVars
<1>12. CASE RemoveFinalizer(v)
  <2>1. CASE Current(v, copy[v])
    <3>1. /\ Store(v, Written(v)) /\ Continue(v, "idle", copy[v]) /\ lister' = lister
          /\ Current(v, Base(v)) /\ pc[v] \in WriteSteps
      BY <1>12, <2>1 DEF RemoveFinalizer, Written, Base, Goto, cacheVars, WriteSteps
    <3>2. Cached(Out(v), undelivered[v] \cup {Out(v)}, lister[v])
      BY <3>1, WrittenKeeps
    <3>3. /\ content'[v] = Out(v) /\ undelivered'[v] = undelivered[v] \cup {Out(v)}
          /\ pc'[v] = "idle" /\ copy'[v] = Absent
          /\ Frame(v)
      BY <3>1, StoreAndContinueAt
    <3>4. QED
      BY <3>1, <3>2, <3>3, IdleHolds, SMTT(30) DEF Good
  <2>2. CASE ~ Current(v, copy[v])
    BY <1>12, <2>2, GotoKeeps DEF RemoveFinalizer, serverVars, cacheVars
  <2>3. QED
    BY <2>1, <2>2
<1>13. QED
  BY <1>1, <1>2, <1>3, <1>4, <1>5, <1>6, <1>7, <1>8, <1>9, <1>10, <1>11, <1>12 DEF Works

(* So does a call that fails, carried out or not.                          *)
LEMMA CallFailsKeeps ==
  ASSUME TypeOK, NEW v \in Vols, Good(v), CallFails(v)
  PROVE  Good(v)' /\ Frame(v)
<1>1. PICK step \in AfterError(v) : Goto(v, step)
  BY DEF CallFails
<1>2. \/ step = "idle"
      \/ pc[v] \in {"setStatus", "retryStatus"} /\ step \in {"retryStatus", "undo"}
      \/ pc[v] = "setRollback" /\ step = "setRollback"
  BY DEF AfterError
<1>3. lister' = lister /\ pc[v] \in AllSteps
  BY DEF CallFails, cacheVars, TypeOK, AllSteps
<1>4. CASE UNCHANGED serverVars
  BY <1>1, <1>2, <1>3, <1>4, GotoKeeps DEF serverVars
<1>5. CASE pc[v] \in WriteSteps /\ Current(v, Base(v)) /\ Store(v, Written(v))
  <2> DEFINE c == content[v]
             U == undelivered[v]
             l == lister[v]
             n == Out(v)
  <2>1. /\ Cached(n, U \cup {n}, l) /\ n \in Content /\ n.rv = c.rv + 1
        /\ pc[v] \in {"setStatus", "retryStatus"} => n.live /\ n.fin
        /\ pc[v] \in DeleteSteps => \A o \in Known(U \cup {n}, l) : o.live /\ o.fin => o.del
    BY <1>5, WrittenKeeps, ZenonT(60) DEF KnownNext
  <2>2. /\ content'[v] = n /\ undelivered'[v] = U \cup {n}
        /\ pc'[v] = step
        /\ step = "idle" => copy'[v] = Absent
        /\ step # "idle" => copy'[v] = copy[v]
        /\ Frame(v)
    <3>1. Continue(v, step, copy[v])
      BY <1>1 DEF Goto
    <3>2. lister' = lister /\ Store(v, Written(v))
      BY <1>3, <1>5
    <3>3. /\ content'[v] = Out(v)
          /\ undelivered'[v] = undelivered[v] \cup {Out(v)}
          /\ pc'[v] = step
          /\ step = "idle" => copy'[v] = Absent
          /\ step # "idle" => copy'[v] = copy[v]
          /\ Frame(v)
      BY <3>1, <3>2, StoreAndContinueAt
    <3>4. QED
      BY <3>3
  <2>3. Holding(n, U \cup {n}, l, step, copy'[v])
    <3>1. CASE step = "idle"
      BY <2>2, <3>1, IdleHolds
    <3>2. CASE step # "idle"
      <4>1. copy[v] \in Content /\ (copy[v].live => copy[v].rv <= n.rv /\ copy[v].rv # n.rv)
        <5>1. /\ copy[v] \in Content /\ copy[v].rv \in Nat /\ c.rv \in Nat
              /\ copy[v].live => copy[v].rv <= c.rv
          BY DEF Good, Holding, TypeOK, Content
        <5> HIDE DEF n
        <5>2. QED
          BY <5>1, <2>1, SMTT(30)
      <4> HIDE DEF n
      <4>2. QED
        BY <1>2, <2>1, <2>2, <3>2, <4>1, Zenon DEF Holding, ForwardSteps, DeleteSteps
    <3>3. QED
      BY <3>1, <3>2
  <2> HIDE DEF n
  <2>4. QED
    BY <1>3, <2>1, <2>2, <2>3, Zenon DEF Good
<1>6. QED
  BY <1>4, <1>5 DEF CallFails

(* The claim worker and the users create, annotate, delete and edit.       *)
LEMMA EnvironmentKeeps ==
  ASSUME TypeOK, NEW v \in Vols, Good(v), Environment(v)
  PROVE  Good(v)' /\ Frame(v)
<1> DEFINE c == content[v]
           U == undelivered[v]
           l == lister[v]
<1>1. /\ c \in Content /\ Cached(c, U, l) /\ Holding(c, U, l, pc[v], copy[v])
      /\ c \in Known(U, l) /\ Shape(c) /\ c.rv \in Nat
      /\ lister' = lister /\ pc' = pc /\ copy' = copy
  BY DEF TypeOK, Good, Cached, Content, Environment, CreateContent, AnnotateContent,
         DeleteContent, EditContent, cacheVars, workerVars
<1>2. ASSUME NEW obj \in Content, Store(v, obj),
             NEW n \in Content, n = Stored(v, obj), Cached(n, U \cup {n}, l),
             n.rv = c.rv + 1,
             c.live /\ c.fin => n.live /\ n.fin,
             n.live /\ n.fin => c.live /\ c.fin /\ (c.del => n.del)
      PROVE  Good(v)' /\ Frame(v)
  <2>1. Holding(n, U \cup {n}, l, pc[v], copy[v])
    BY <1>1, <1>2, HoldingStore, Zenon
  <2>2. QED
    BY <1>1, <1>2, <2>1, StoreAt, Zenon DEF Good, Frame
<1>3. CASE CreateContent(v)
  <2> DEFINE obj == Blank(0, TRUE)
             n == Stored(v, obj)
  <2>1. ~ c.live /\ Store(v, obj) /\ obj \in Content
    BY <1>3, AbsentContent, Zenon DEF CreateContent, CreateObject
  <2>2. n \in Content /\ n.rv = c.rv + 1 /\ n = [obj EXCEPT !.rv = c.rv + 1]
    BY <1>1, <2>1, AbsentContent, StoredContent, Zenon
  <2>3. n.live /\ ~ n.fin /\ ~ n.del /\ Shape(n)
    <3>1. n.live /\ ~ n.fin /\ ~ n.del /\ n.phase = ""
      BY <2>2, ZenonT(60) DEF Blank
    <3>2. QED
      BY <3>1, Zenon DEF Shape
  <2> HIDE DEF n, obj
  <2>4. \A o \in Known(U, l) : o.live /\ o.fin /\ ~ o.del => n.live /\ n.fin
    BY <1>1, <2>1, Zenon DEF Cached
  <2>5. Cached(n, U \cup {n}, l)
    BY <1>1, <2>2, <2>3, <2>4, CachedStore, Zenon
  <2>6. QED
    BY <1>2, <2>1, <2>2, <2>3, <2>5, Zenon DEF n
<1>4. ASSUME c.live, NEW obj \in Content, Store(v, obj), obj.live,
             obj.fin = c.fin, obj.del = c.del, obj.phase = c.phase
      PROVE  Good(v)' /\ Frame(v)
  <2> DEFINE n == Stored(v, obj)
  <2>1. c.del => c.fin
    BY <1>1, <1>4 DEF Shape
  <2>2. n \in Content /\ n.rv = c.rv + 1 /\ n = [obj EXCEPT !.rv = c.rv + 1]
    BY <1>1, <1>4, <2>1, StoredContent, Zenon
  <2>3. n.live /\ n.fin = c.fin /\ n.del = c.del /\ Shape(n)
    BY <1>1, <1>4, <2>2 DEF Shape, Content
  <2> HIDE DEF n
  <2>4. Cached(n, U \cup {n}, l)
    BY <1>1, <1>4, <2>2, <2>3, CachedEdit, Zenon
  <2>5. QED
    BY <1>2, <1>4, <2>2, <2>3, <2>4, Zenon DEF n
<1>5. CASE AnnotateContent(v)
  <2> DEFINE obj == [c EXCEPT !.rollback = TRUE]
  <2>1. c.live /\ Store(v, obj) /\ obj \in Content
    BY <1>1, <1>5, EditedContent, Zenon DEF AnnotateContent, AnnotateObject
  <2>2. obj.live /\ obj.fin = c.fin /\ obj.del = c.del /\ obj.phase = c.phase
    BY <1>1, <2>1 DEF Content
  <2> HIDE DEF obj
  <2>3. QED
    BY <1>4, <2>1, <2>2
<1>6. CASE EditContent(v)
  <2> DEFINE obj == [c EXCEPT !.edited = TRUE]
  <2>1. c.live /\ Store(v, obj) /\ obj \in Content
    BY <1>1, <1>6, EditedContent, Zenon DEF EditContent
  <2>2. obj.live /\ obj.fin = c.fin /\ obj.del = c.del /\ obj.phase = c.phase
    BY <1>1, <2>1 DEF Content
  <2> HIDE DEF obj
  <2>3. QED
    BY <1>4, <2>1, <2>2
<1>7. CASE DeleteContent(v)
  <2> DEFINE obj == [c EXCEPT !.del = TRUE]
             n == Stored(v, obj)
  <2>1. c.live /\ Store(v, obj) /\ obj \in Content
    BY <1>1, <1>7, EditedContent, Zenon DEF DeleteContent, DeleteObject
  <2>2. obj.live /\ obj.fin = c.fin /\ obj.del /\ obj.phase = c.phase
    BY <1>1, <2>1 DEF Content
  <2> HIDE DEF obj
  <2>3. /\ n \in Content /\ n.rv = c.rv + 1
        /\ obj.fin \/ ~ obj.del => n = [obj EXCEPT !.rv = c.rv + 1]
        /\ obj.del /\ ~ obj.fin => n = Blank(c.rv + 1, FALSE)
    BY <1>1, <2>1, StoredContent, Zenon
  <2> HIDE DEF n
  <2>4. CASE c.fin
    <3>1. n.live /\ n.fin /\ n.del /\ Shape(n)
      BY <2>1, <2>2, <2>3, <2>4, Zenon DEF Shape, Content
    <3>2. Cached(n, U \cup {n}, l)
      BY <1>1, <2>3, <3>1, CachedStore
    <3>3. QED
      BY <1>2, <2>1, <2>3, <2>4, <3>1, <3>2 DEF n
  <2>5. CASE ~ c.fin
    <3>1. ~ n.live /\ ~ n.fin /\ ~ n.del /\ Shape(n)
      BY <2>2, <2>3, <2>5, BlankShape, Zenon
    <3>2. \A o \in Known(U, l) : o.live /\ o.fin /\ ~ o.del => n.live /\ n.fin
      BY <1>1, <2>5, Zenon DEF Cached
    <3>3. Cached(n, U \cup {n}, l)
      BY <1>1, <2>3, <3>1, <3>2, CachedStore
    <3>4. QED
      BY <1>2, <2>1, <2>3, <2>5, <3>1, <3>3 DEF n
  <2>6. QED
    BY <2>4, <2>5
<1>8. QED
  BY <1>3, <1>5, <1>6, <1>7 DEF Environment

(* So do the informers and the nodes.                                      *)
LEMMA InformersKeep ==
  ASSUME TypeOK, NEW v \in Vols, Good(v), Informers(v)
  PROVE  Good(v)' /\ Frame(v)
<1>1. CASE SyncLister(v)
  <2>1. PICK obj \in undelivered[v] :
          /\ \A other \in undelivered[v] : obj.rv <= other.rv
          /\ lister' = [lister EXCEPT ![v] = obj]
          /\ undelivered' = [undelivered EXCEPT ![v] = @ \ {obj}]
          /\ UNCHANGED <<content, workerVars>>
    BY <1>1, Zenon DEF SyncLister
  <2>2. /\ lister'[v] = obj /\ undelivered'[v] = undelivered[v] \ {obj}
        /\ content' = content /\ pc' = pc /\ copy' = copy /\ Frame(v)
    BY <2>1 DEF TypeOK, workerVars, Frame
  <2>3. /\ Cached(content[v], undelivered[v] \ {obj}, obj)
        /\ Holding(content[v], undelivered[v] \ {obj}, obj, pc[v], copy[v])
    BY <2>1, DeliverKeeps DEF Good
  <2>4. QED
    BY <2>2, <2>3 DEF Good
<1>2. CASE SyncLabel(v) \/ HandleVA(v)
  <2>1. UNCHANGED <<content, undelivered, lister, pc, copy>>
    BY <1>2 DEF SyncLabel, HandleVA, serverVars, cacheVars, workerVars
  <2>2. QED
    BY <2>1 DEF Good, Frame
<1>3. QED
  BY <1>1, <1>2 DEF Informers

(* A process that starts lists the contents afresh.                        *)
LEMMA StartKeeps ==
  ASSUME TypeOK, NEW v \in Vols, Good(v), ProcessStarts
  PROVE  Good(v)'
<1>1. /\ content'[v] = content[v] /\ undelivered'[v] = {} /\ lister'[v] = content[v]
      /\ pc'[v] = "idle" /\ copy'[v] = Absent
  BY DEF ProcessStarts, TypeOK
<1>2. content[v] \in Content /\ Shape(content[v]) /\ content[v].rv \in Nat
  BY DEF TypeOK, Content, Good, Cached
<1>3. Known({}, content[v]) = {content[v]}
  BY DEF Known
<1>4. Cached(content[v], {}, content[v])
  BY <1>2, <1>3 DEF Cached
<1>5. QED
  BY <1>1, <1>4, IdleHolds DEF Good

(* The invariant holds at first.                                           *)
LEMMA IInvInit == Init => IInv
<1> SUFFICES ASSUME Init PROVE IInv
  OBVIOUS
<1>1. TypeOK
  BY TypeInit
<1>2. ASSUME NEW v \in Vols PROVE Good(v)
  <2>1. /\ content[v] = Absent /\ undelivered[v] = {} /\ lister[v] = Absent
        /\ pc[v] = "idle" /\ copy[v] = Absent
    BY DEF Init
  <2>2. Known({}, Absent) = {Absent} /\ Absent.rv = 0
    BY DEF Known, Absent, Blank
  <2>3. Shape(Absent)
    BY BlankShape, Zenon DEF Absent
  <2>4. Absent.rv <= Absent.rv /\ \A o \in {} : Absent.rv < o.rv /\ o.rv <= Absent.rv
    BY <2>2
  <2>5. Cached(Absent, {}, Absent)
    BY <2>2, <2>3, <2>4, AbsentContent, Zenon DEF Cached
  <2>6. QED
    BY <2>1, <2>5, IdleHolds DEF Good
<1>3. QED
  BY <1>1, <1>2 DEF IInv

(* Every step keeps it.                                                    *)
LEMMA IInvStep == IInv /\ [Next]_vars => IInv'
<1> SUFFICES ASSUME IInv, [Next]_vars PROVE IInv'
  OBVIOUS
<1>1. TypeOK /\ TypeOK' /\ \A v \in Vols : Good(v)
  BY TypeStep DEF IInv
<1>2. CASE UNCHANGED <<content, undelivered, lister, pc, copy>>
  BY <1>1, <1>2 DEF IInv, Good
<1>3. ASSUME NEW v \in Vols, Works(v) \/ CallFails(v) \/ Informers(v) \/ Environment(v)
      PROVE  IInv'
  BY <1>1, <1>3, WorksKeep, CallFailsKeeps, InformersKeep, EnvironmentKeeps, FrameGood
<1>4. CASE ProcessStarts
  BY <1>1, <1>4, StartKeeps DEF IInv
<1>5. ASSUME NEW v \in Vols, Panics(v) PROVE IInv'
  BY <1>4, <1>5 DEF Panics, SyncOrphan, RetryPanics, Panic
<1>6. CASE ClaimChanges \/ UNCHANGED vars
  BY <1>2, <1>6 DEF ClaimChanges, serverVars, workerVars, vars
<1>7. CASE Restart
  BY <1>4, <1>7 DEF Restart
<1>8. QED
  BY <1>3, <1>5, <1>6, <1>7 DEF Next, Worker

(* It always holds.                                                        *)
LEMMA IInvAlways == Spec => []IInv
  BY IInvInit, IInvStep, PTL DEF Spec

(* Whatever the lag of the caches, the failed calls and the restarts: while *)
(* a worker changes a volume on the array or records that it did, the      *)
(* content exists and carries the finalizer setContentFinalizers gave it.  *)
THEOREM ModificationIsProtected == Spec => []ModifyProtected
<1>1. IInv => ModifyProtected
  BY DEF IInv, Good, Holding, ModifyProtected
<1>2. QED
  BY <1>1, IInvAlways, PTL
=============================================================================
