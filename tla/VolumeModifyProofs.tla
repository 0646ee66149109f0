------------------------- MODULE VolumeModifyProofs -------------------------
(***************************************************************************)
(* Proofs about VolumeModify, for any volumes, any lag of the informers    *)
(* and any number of faults: contents are created only under the claim's   *)
(* finalizer, and the composed controller implements ModifyContent.        *)
(***************************************************************************)
EXTENDS VolumeModify, FiniteSetTheorems, TLAPS

(* The versions of the claim the worker may still come to see.             *)
Known(U, l) == U \cup {l}

(* A claim that is modified, or being deleted, has its finalizer.          *)
Shape(o) ==
  /\ o.live /\ (o.del \/ o.phase \in {"Creating", "Completed"}) => o.fin
  /\ ~ o.live => ~ o.fin /\ ~ o.del

(* From one version to a later one a claim only comes closer to its end.   *)
Ages(o, p) ==
  /\ ~ o.live => ~ p.live
  /\ o.live /\ o.del /\ p.live => p.del

(* The server's claim c, the undelivered versions U and the cached l.  The *)
(* last conjunct carries the argument: a version that is protected and not *)
(* being deleted vouches for the claim still being protected.              *)
Cached(c, U, l) ==
  /\ c \in Claim /\ U \in SUBSET Claim /\ l \in Claim
  /\ l.rv <= c.rv
  /\ \A o \in U : l.rv < o.rv /\ o.rv <= c.rv
  /\ \A o \in Known(U, l) : Shape(o)
  /\ \A o, p \in Known(U, l) : o.rv = p.rv => o = p
  /\ c \in Known(U, l)
  /\ \A o, p \in Known(U, l) : o.rv < p.rv => Ages(o, p)
  /\ \A o \in Known(U, l) : o.live /\ o.fin /\ ~ o.del => c.live /\ c.fin

Forward == {"setPending", "check", "setFinalizer", "setCreating"}
Working == {"fetch", "create", "update", "wait", "replace"}
Ending == {"deleteContent", "deleteLoop", "waitDelete", "removeFinalizer"}

(* The worker at step p with the copy k; d: it runs syncDeleteClaim; a: the *)
(* step after the status is updated.                                       *)
Holding(c, U, l, p, k, d, a) ==
  /\ k \in Claim /\ p \in ClaimSteps /\ a \in ClaimSteps /\ d \in BOOLEAN
  /\ p # "idle" => k.live
  /\ k.live => k.rv <= c.rv
  /\ p # "idle" /\ k.rv = c.rv => c.live /\ k.del = c.del /\ k.fin = c.fin
  /\ p \in Forward \cup {"fetch", "create"} => ~ d
  /\ p = "setCreating" => k.fin
  /\ p \in Working /\ ~ d => c.live /\ c.fin
  /\ p \in Ending => d
  /\ p = "update" => a \in {"wait", "idle", "deleteContent", "waitDelete"}
  /\ p = "update" /\ a \in Ending => d
  /\ p # "idle" /\ d => \A o \in Known(U, l) : o.live => o.del

(* The inductive invariant.                                                *)
IInv ==
  /\ Cached(claim, claimUndelivered, claimLister)
  /\ Holding(claim, claimUndelivered, claimLister, claimPc, claimCopy, deleting, after)

-----------------------------------------------------------------------------
(* Facts about the values.                                                 *)

(* A claim as it is created.                                               *)
LEMMA BlankClaimFacts ==
  ASSUME NEW rv \in Nat, NEW b \in BOOLEAN
  PROVE  /\ BlankClaim(rv, b) \in Claim /\ BlankClaim(rv, b).rv = rv
         /\ BlankClaim(rv, b).live = b /\ BlankClaim(rv, b).phase = ""
         /\ BlankClaim(rv, b).fin = FALSE /\ BlankClaim(rv, b).del = FALSE
  BY DEF BlankClaim, Claim, ClaimPhases

(* The value that stands for no claim.                                     *)
LEMMA NoClaimFacts == NoClaim \in Claim /\ ~ NoClaim.live
  BY BlankClaimFacts DEF NoClaim

(* What the server makes of a write.                                       *)
LEMMA StoredFacts ==
  ASSUME claim \in Claim, NEW obj \in Claim
  PROVE  /\ StoredClaim(obj) \in Claim
         /\ StoredClaim(obj).rv = claim.rv + 1
         /\ obj.fin \/ ~ obj.del =>
              /\ StoredClaim(obj).live = obj.live /\ StoredClaim(obj).fin = obj.fin
              /\ StoredClaim(obj).del = obj.del /\ StoredClaim(obj).phase = obj.phase
         /\ obj.del /\ ~ obj.fin =>
              ~ StoredClaim(obj).live /\ ~ StoredClaim(obj).fin /\ ~ StoredClaim(obj).del
<1>1. claim.rv + 1 \in Nat
  BY DEF Claim
<1>2. CASE obj.del /\ ~ obj.fin
  <2>1. StoredClaim(obj) = BlankClaim(claim.rv + 1, FALSE)
    BY <1>2 DEF StoredClaim
  <2>2. QED
    BY <1>1, <1>2, <2>1, BlankClaimFacts
<1>3. CASE ~ (obj.del /\ ~ obj.fin)
  <2>1. StoredClaim(obj) = [obj EXCEPT !.rv = claim.rv + 1]
    BY <1>3 DEF StoredClaim
  <2>2. QED
    BY <1>1, <1>3, <2>1 DEF Claim
<1>4. QED
  BY <1>2, <1>3

(* A new version n of a claim that exists is compatible with all the cache *)
(* may still show, if it stays protected while some version vouches for    *)
(* that and stays deleted.                                                 *)
LEMMA CachedStore ==
  ASSUME NEW c, NEW U, NEW l, NEW n \in Claim,
         Cached(c, U, l), c.live, n.rv = c.rv + 1, Shape(n),
         c.del /\ n.live => n.del,
         \A o \in Known(U, l) : o.live /\ o.fin /\ ~ o.del => n.live /\ n.fin
  PROVE  Cached(n, U \cup {n}, l)
<1>1. /\ U \cup {n} \in SUBSET Claim /\ l \in Claim
      /\ c.rv \in Nat /\ n.rv \in Nat /\ l.rv \in Nat
  BY DEF Cached, Claim
<1>2. \A o \in Known(U, l) : o \in Claim /\ o.rv \in Nat /\ o.rv <= c.rv
  BY <1>1 DEF Cached, Known, Claim
<1>3. Known(U \cup {n}, l) = Known(U, l) \cup {n}
  BY DEF Known
<1>4. \A o \in Known(U, l) : o.rv < n.rv
  BY <1>1, <1>2
<1>5. l.rv <= n.rv /\ \A o \in U \cup {n} : l.rv < o.rv /\ o.rv <= n.rv
  BY <1>1, <1>2, <1>4 DEF Cached, Known
<1>6. /\ \A o \in Known(U \cup {n}, l) : Shape(o)
      /\ \A o, p \in Known(U \cup {n}, l) : o.rv = p.rv => o = p
  <2>1. \A o \in Known(U, l) : o.rv # n.rv
    BY <1>1, <1>2, <1>4
  <2>2. QED
    BY <2>1, <1>3, Zenon DEF Cached
<1>7. \A o \in Known(U \cup {n}, l) : o.live /\ o.fin /\ ~ o.del => n.live /\ n.fin
  BY <1>3
<1>8. \A o, p \in Known(U \cup {n}, l) : o.rv < p.rv => Ages(o, p)
  <2>1. SUFFICES ASSUME NEW o \in Known(U \cup {n}, l), NEW p \in Known(U \cup {n}, l),
                        o.rv < p.rv
                 PROVE  Ages(o, p)
    OBVIOUS
  <2>2. o \in Known(U, l)
    <3>1. p = n \/ (p \in Known(U, l) /\ p.rv \in Nat /\ p.rv < n.rv)
      BY <1>2, <1>3, <1>4
    <3>2. o # n
      BY <2>1, <3>1, <1>1
    <3>3. QED
      BY <3>2, <1>3
  <2>3. CASE p \in Known(U, l)
    BY <2>1, <2>2, <2>3, Zenon DEF Cached
  <2>4. CASE p = n
    <3>1. o = c \/ Ages(o, c)
      BY <2>2, <1>1, <1>2 DEF Cached
    <3>2. QED
      BY <2>4, <3>1 DEF Ages
  <2>5. QED
    BY <2>3, <2>4, <1>3
<1>9. QED
  BY <1>1, <1>3, <1>5, <1>6, <1>7, <1>8, Zenon DEF Cached

(* A write that keeps the finalizer and the deletion of the claim.         *)
LEMMA EditStored ==
  ASSUME NEW U, NEW l, NEW obj \in Claim, Cached(claim, U, l), claim.live, obj.live,
         obj.del = claim.del, claim.fin => obj.fin,
         obj.phase \in {"Creating", "Completed"} => obj.fin
  PROVE  /\ StoredClaim(obj) \in Claim
         /\ StoredClaim(obj).rv = claim.rv + 1 /\ StoredClaim(obj).live
         /\ StoredClaim(obj).del = claim.del /\ StoredClaim(obj).fin = obj.fin
         /\ Cached(StoredClaim(obj), U \cup {StoredClaim(obj)}, l)
<1> DEFINE n == StoredClaim(obj)
<1>1. claim \in Claim /\ claim \in Known(U, l) /\ Shape(claim)
  BY DEF Cached
<1>2. obj.fin \/ ~ obj.del
  BY <1>1 DEF Shape
<1>3. n \in Claim /\ n.rv = claim.rv + 1 /\ n.live /\ n.del = claim.del /\ n.fin = obj.fin
      /\ n.phase = obj.phase
  BY <1>1, <1>2, StoredFacts
<1> HIDE DEF n
<1>4. Shape(n)
  BY <1>1, <1>2, <1>3 DEF Shape
<1>5. \A o \in Known(U, l) : o.live /\ o.fin /\ ~ o.del => n.live /\ n.fin
  BY <1>3 DEF Cached
<1>6. Cached(n, U \cup {n}, l)
  BY <1>3, <1>4, <1>5, CachedStore
<1>7. QED
  BY <1>3, <1>6 DEF n

(* The write that removes the finalizer of a claim being deleted.          *)
LEMMA RemoveStored ==
  ASSUME NEW U, NEW l, NEW obj \in Claim, Cached(claim, U, l), claim.live,
         obj.del = claim.del, ~ obj.fin, \A o \in Known(U, l) : o.live => o.del
  PROVE  /\ StoredClaim(obj) \in Claim /\ StoredClaim(obj).rv = claim.rv + 1
         /\ ~ StoredClaim(obj).live
         /\ Cached(StoredClaim(obj), U \cup {StoredClaim(obj)}, l)
<1> DEFINE n == StoredClaim(obj)
<1>1. claim \in Claim /\ claim \in Known(U, l) /\ claim.del
  BY DEF Cached
<1>2. n \in Claim /\ n.rv = claim.rv + 1 /\ ~ n.live /\ ~ n.fin /\ ~ n.del
  BY <1>1, StoredFacts
<1> HIDE DEF n
<1>3. Shape(n)
  BY <1>2 DEF Shape
<1>4. Cached(n, U \cup {n}, l)
  BY <1>2, <1>3, CachedStore
<1>5. QED
  BY <1>2, <1>4 DEF n

-----------------------------------------------------------------------------
(* The inductive invariant is kept.                                        *)

(* A claim worker between two syncs holds nothing.                         *)
LEMMA IdleHolds ==
  ASSUME NEW c, NEW U, NEW l, NEW d \in BOOLEAN, NEW a \in ClaimSteps
  PROVE  Holding(c, U, l, "idle", NoClaim, d, a)
  BY NoClaimFacts DEF Holding, ClaimSteps, Forward, Working, Ending

(* A claim worker that ends its sync.                                      *)
LEMMA EndKeeps ==
  ASSUME IInv, UNCHANGED claimVars, Hold("idle", NoClaim), deleting' = deleting,
         after' \in ClaimSteps
  PROVE  IInv'
<1>1. deleting \in BOOLEAN
  BY DEF IInv, Holding
<1>2. claimPc' = "idle" /\ claimCopy' = NoClaim
  BY DEF Hold
<1>3. QED
  BY <1>1, <1>2, IdleHolds DEF IInv, claimVars

(* The steps s a worker may go to, holding a claim with finalizer fin.     *)
MayGo(s, fin, d, a) ==
  /\ s \in ClaimSteps /\ a \in ClaimSteps
  /\ s \in Forward \cup {"fetch", "create"} => ~ d
  /\ s = "setCreating" => fin
  /\ s \in Ending => d
  /\ s = "update" => a \in {"wait", "idle", "deleteContent", "waitDelete"}
  /\ s = "update" /\ a \in Ending => d

(* The worker goes on with its claim, whose status it may have changed.    *)
LEMMA ProceedKeeps ==
  ASSUME IInv, UNCHANGED claimVars, deleting' = deleting, claimPc # "idle",
         NEW s, NEW k \in Claim, Hold(s, k), s # "idle",
         k.rv = claimCopy.rv, k.live = claimCopy.live, k.del = claimCopy.del,
         k.fin = claimCopy.fin, MayGo(s, k.fin, deleting, after'),
         s \in Working => claimPc \in Working
  PROVE  IInv'
<1>1. claimPc' = s /\ claimCopy' = k
  BY DEF Hold
<1>2. Holding(claim, claimUndelivered, claimLister, s, k, deleting, after')
  BY DEF IInv, Holding, MayGo
<1>3. QED
  BY <1>1, <1>2 DEF IInv, claimVars

(* The worker goes on with what the server stored.                         *)
LEMMA WorkerWrites ==
  ASSUME IInv, claimPc # "idle", NEW obj \in Claim, StoreClaim(obj),
         claim.live, obj.live, obj.del = claim.del, claim.fin => obj.fin,
         obj.phase \in {"Creating", "Completed"} => obj.fin,
         NEW s, Hold(s, StoredClaim(obj)), deleting' = deleting,
         MayGo(s, obj.fin, deleting, after'), s # "update",
         s \in Working /\ ~ deleting => obj.fin
  PROVE  IInv'
<1> DEFINE n == StoredClaim(obj)
           U == claimUndelivered
           l == claimLister
<1>1. Cached(claim, U, l) /\ claim \in Known(U, l) /\ claim.rv \in Nat
      /\ deleting \in BOOLEAN /\ after' \in ClaimSteps
  BY DEF IInv, Cached, Holding, Claim, MayGo
<1>2. /\ n \in Claim /\ n.rv = claim.rv + 1 /\ n.live /\ n.del = claim.del
      /\ n.fin = obj.fin /\ Cached(n, U \cup {n}, l)
  BY <1>1, EditStored
<1>3. claim' = n /\ claimUndelivered' = U \cup {n} /\ claimLister' = l
  BY DEF StoreClaim
<1>4. claimPc' = s /\ claimCopy' = IF s = "idle" THEN NoClaim ELSE n
  BY DEF Hold
<1> HIDE DEF n
<1>5. deleting => \A o \in Known(U \cup {n}, l) : o.live => o.del
  <2>1. deleting => \A o \in Known(U, l) : o.live => o.del
    BY DEF IInv, Holding
  <2>2. QED
    BY <1>1, <1>2, <2>1 DEF Known
<1>6. CASE s = "idle"
  BY <1>1, <1>2, <1>3, <1>4, <1>6, IdleHolds DEF IInv
<1>7. CASE s # "idle"
  <2>1. Holding(n, U \cup {n}, l, s, n, deleting, after')
    <3>1. n.rv <= n.rv
      BY <1>1, <1>2
    <3>2. s \in ClaimSteps /\ (s \in Forward \cup {"fetch", "create"} => ~ deleting)
      BY DEF MayGo
    <3>3. (s = "setCreating" => n.fin) /\ (s \in Ending => deleting)
      BY <1>2 DEF MayGo
    <3>4. QED
      BY <1>1, <1>2, <1>5, <3>1, <3>2, <3>3, Zenon DEF Holding
  <2>2. QED
    BY <1>2, <1>3, <1>4, <1>7, <2>1 DEF IInv
<1>8. QED
  BY <1>6, <1>7

(* A claim that loses its finalizer while it is deleted goes away.         *)
LEMMA RemovalKeeps ==
  ASSUME IInv, claimPc = "removeFinalizer", NEW obj \in Claim, StoreClaim(obj),
         claim.live, obj.del = claim.del, ~ obj.fin, Hold("idle", NoClaim),
         deleting' = deleting, after' = after
  PROVE  IInv'
<1> DEFINE n == StoredClaim(obj)
           U == claimUndelivered
           l == claimLister
<1>1. /\ Cached(claim, U, l) /\ deleting \in BOOLEAN /\ after \in ClaimSteps
      /\ \A o \in Known(U, l) : o.live => o.del
  BY DEF IInv, Holding, Ending
<1>2. n \in Claim /\ ~ n.live /\ Cached(n, U \cup {n}, l)
  BY <1>1, RemoveStored
<1>3. claim' = n /\ claimUndelivered' = U \cup {n} /\ claimLister' = l
  BY DEF StoreClaim
<1>4. claimPc' = "idle" /\ claimCopy' = NoClaim
  BY DEF Hold
<1> HIDE DEF n
<1>5. QED
  BY <1>1, <1>2, <1>3, <1>4, IdleHolds DEF IInv

(* A sync starts from the cached claim.                                    *)
LEMMA SyncKeeps == IInv /\ SyncClaim => IInv'
<1> SUFFICES ASSUME IInv, SyncClaim PROVE IInv'
  OBVIOUS
<1> DEFINE c == claim
           U == claimUndelivered
           l == claimLister
           step == claimPc'
<1>1. /\ step = IF l.del THEN DeleteStep(l) ELSE SyncStep(l)
      /\ l.live /\ step # "idle" /\ claimCopy' = l /\ deleting' = l.del
      /\ after' = after /\ claim' = c /\ claimUndelivered' = U /\ claimLister' = l
  BY DEF SyncClaim, Hold, claimVars
<1>2. Cached(c, U, l) /\ c \in Claim /\ l \in Claim /\ l \in Known(U, l) /\ after \in ClaimSteps
  BY DEF IInv, Cached, Known, Holding
<1>3. Shape(l) /\ l.rv <= c.rv /\ (l.rv = c.rv => l = c)
  BY <1>2 DEF Cached
<1>4. CASE l.del
  <2>1. step \in {"wait", "deleteContent", "waitDelete"}
    BY <1>1, <1>2, <1>4 DEF DeleteStep, Claim, ClaimPhases
  <2>2. ASSUME NEW o \in Known(U, l), o.live PROVE o.del
    <3>1. o = l \/ Ages(l, o)
      BY <1>2, <2>2 DEF Cached, Known
    <3>2. QED
      BY <3>1, <1>1, <1>4, <2>2 DEF Ages
  <2>3. Holding(c, U, l, step, l, TRUE, after)
    BY <1>1, <1>2, <1>3, <1>4, <2>1, <2>2 DEF Holding, ClaimSteps, Forward, Working, Ending
  <2>4. QED
    BY <1>1, <1>2, <1>4, <2>3 DEF IInv, Claim
<1>5. CASE ~ l.del
  <2>1. step \in {"setPending", "check", "fetch", "wait"}
    BY <1>1, <1>5 DEF SyncStep
  <2>2. step \in {"fetch", "wait"} => l.phase = "Creating"
    BY <1>1, <1>5 DEF SyncStep
  <2>3. step \in {"fetch", "wait"} => c.live /\ c.fin
    BY <1>1, <1>2, <1>3, <1>5, <2>2 DEF Shape, Cached
  <2>4. Holding(c, U, l, step, l, FALSE, after)
    BY <1>1, <1>2, <1>3, <1>5, <2>1, <2>3 DEF Holding, ClaimSteps, Forward, Working, Ending
  <2>5. QED
    BY <1>1, <1>2, <1>5, <2>4 DEF IInv, Claim
<1>6. QED
  BY <1>4, <1>5

(* The copy a write is accepted from agrees with the server's claim.       *)
LEMMA CurrentCopy ==
  ASSUME IInv, claimPc # "idle", ClaimCurrent(claimCopy)
  PROVE  claim.live /\ claimCopy.del = claim.del /\ claimCopy.fin = claim.fin
  BY DEF IInv, Holding, ClaimCurrent

(* A cached claim that the server would accept is the claim itself.        *)
LEMMA CurrentLister ==
  ASSUME IInv, ClaimCurrent(claimLister)
  PROVE  claim.live /\ claimLister = claim
  BY DEF IInv, Cached, Known, ClaimCurrent

(* The writes on the way to Creating.                                      *)
LEMMA ForwardWriteKeeps ==
  ASSUME IInv, claimPc \in Forward, NEW obj \in Claim,
         NEW s \in {"check", "setCreating", "fetch"}, WriteClaim(obj, s),
         obj.live = claimCopy.live, obj.del = claimCopy.del,
         claimCopy.fin => obj.fin, s # "check" => obj.fin,
         obj.phase \in {"Creating", "Completed"} => obj.fin
  PROVE  IInv'
<1>1. claimPc # "idle" /\ ~ deleting /\ after \in ClaimSteps
      /\ deleting' = deleting /\ after' = after
  BY DEF Forward, IInv, Holding, WriteClaim
<1>2. CASE ClaimCurrent(claimCopy)
  <2>1. claim.live /\ obj.del = claim.del /\ (claim.fin => obj.fin) /\ obj.live
    BY <1>1, <1>2, CurrentCopy DEF ClaimCurrent
  <2>2. StoreClaim(obj) /\ Hold(s, StoredClaim(obj))
    BY <1>2 DEF WriteClaim
  <2>3. MayGo(s, obj.fin, deleting, after') /\ s # "update"
    BY <1>1 DEF MayGo, ClaimSteps, Ending
  <2>4. s \in Working /\ ~ deleting => obj.fin
    BY DEF Working
  <2>5. QED
    BY <1>1, <2>1, <2>2, <2>3, <2>4, WorkerWrites
<1>3. CASE ~ ClaimCurrent(claimCopy)
  BY <1>1, <1>3, EndKeeps DEF WriteClaim
<1>4. QED
  BY <1>2, <1>3

(* preCreateClaim and createContents write from the copy.                  *)
LEMMA ForwardKeeps ==
  IInv /\ (SetClaimPending \/ PreCreateClaim \/ SetClaimFinalizers \/ SetClaimCreating)
    => IInv'
<1> SUFFICES ASSUME IInv,
                    SetClaimPending \/ PreCreateClaim \/ SetClaimFinalizers \/ SetClaimCreating
             PROVE  IInv'
  OBVIOUS
<1>1. claimCopy \in Claim /\ after \in ClaimSteps /\ (claimPc \in Forward => ~ deleting)
  BY DEF IInv, Holding
<1>2. CASE SetClaimPending
  <2> DEFINE obj == [claimCopy EXCEPT !.phase = "Pending", !.ready = 0]
  <2>1. /\ obj \in Claim /\ obj.live = claimCopy.live /\ obj.del = claimCopy.del
        /\ obj.fin = claimCopy.fin /\ obj.phase = "Pending"
    BY <1>1 DEF Claim, ClaimPhases
  <2>2. claimPc \in Forward /\ WriteClaim(obj, "check")
    BY <1>2 DEF SetClaimPending, Forward
  <2> HIDE DEF obj
  <2>3. QED
    BY <2>1, <2>2, ForwardWriteKeeps
<1>3. CASE SetClaimFinalizers
  <2> DEFINE obj == [claimCopy EXCEPT !.fin = TRUE]
  <2>1. obj \in Claim /\ obj.live = claimCopy.live /\ obj.del = claimCopy.del /\ obj.fin
    BY <1>1 DEF Claim
  <2>2. claimPc \in Forward /\ WriteClaim(obj, "setCreating")
    BY <1>3 DEF SetClaimFinalizers, Forward
  <2> HIDE DEF obj
  <2>3. QED
    BY <2>1, <2>2, ForwardWriteKeeps
<1>4. CASE SetClaimCreating
  <2> DEFINE obj == [claimCopy EXCEPT !.phase = "Creating"]
  <2>1. claimPc \in Forward /\ WriteClaim(obj, "fetch") /\ claimCopy.fin
    BY <1>4 DEF SetClaimCreating, Forward, IInv, Holding
  <2>2. obj \in Claim /\ obj.live = claimCopy.live /\ obj.del = claimCopy.del /\ obj.fin
    BY <1>1, <2>1 DEF Claim, ClaimPhases
  <2> HIDE DEF obj
  <2>3. QED
    BY <2>1, <2>2, ForwardWriteKeeps
<1>5. CASE PreCreateClaim
  <2>1. /\ claimPc \in Forward /\ claimPc # "idle" /\ UNCHANGED claimVars
        /\ deleting' = deleting /\ after' = after
    BY <1>5 DEF PreCreateClaim, Forward
  <2>2. PICK s \in {"idle", "setCreating", "setFinalizer"} :
          Hold(s, claimCopy) /\ (s = "setCreating" => claimCopy.fin)
    BY <1>1, <1>5 DEF PreCreateClaim, Claim
  <2>3. CASE s = "idle"
    BY <1>1, <2>1, <2>2, <2>3, EndKeeps DEF Hold
  <2>4. CASE s # "idle"
    <3>1. MayGo(s, claimCopy.fin, deleting, after') /\ s \notin Working
      BY <1>1, <2>1, <2>2, <2>4 DEF MayGo, ClaimSteps, Ending, Forward, Working
    <3>2. QED
      BY <1>1, <2>1, <2>2, <2>4, <3>1, ProceedKeeps
  <2>5. QED
    BY <2>3, <2>4
<1>6. QED
  BY <1>2, <1>3, <1>4, <1>5

(* A step that ends the sync or goes on with the claim's new status.       *)
LEMMA MoveKeeps ==
  ASSUME IInv, UNCHANGED claimVars, deleting' = deleting, claimPc # "idle",
         NEW s, NEW k \in Claim, Hold(s, k),
         k.rv = claimCopy.rv, k.live = claimCopy.live, k.del = claimCopy.del,
         k.fin = claimCopy.fin, MayGo(s, k.fin, deleting, after'),
         s \in Working => claimPc \in Working
  PROVE  IInv'
<1>1. CASE s = "idle"
  BY <1>1, EndKeeps DEF Hold, MayGo
<1>2. CASE s # "idle"
  BY <1>2, ProceedKeeps
<1>3. QED
  BY <1>1, <1>2

(* Creating the contents.                                                  *)
LEMMA CreatingKeeps ==
  ASSUME IInv, FetchRefResources \/ ContentsCreated \/ \E v \in Vols : CreateContent(v)
  PROVE  IInv'
<1>1. /\ claimCopy \in Claim /\ after \in ClaimSteps
      /\ claimPc \in {"fetch", "create"} => ~ deleting
  BY DEF IInv, Holding
<1>2. claimPc \in {"fetch", "create"} /\ UNCHANGED claimVars /\ deleting' = deleting
  BY DEF FetchRefResources, ContentsCreated, CreateContent, EndSync
<1>3. claimPc # "idle" /\ claimPc \in Working
  BY <1>2 DEF Working
<1>4. CASE FetchRefResources
  <2>1. after' = after /\ (Hold("idle", NoClaim) \/ Hold("create", claimCopy))
    BY <1>4 DEF FetchRefResources, EndSync
  <2>2. MayGo("create", claimCopy.fin, deleting, after')
    BY <1>1, <1>2, <2>1 DEF MayGo, ClaimSteps, Ending
  <2>3. QED
    BY <1>1, <1>2, <1>3, <2>1, <2>2, EndKeeps, MoveKeeps
<1>5. CASE ContentsCreated
  <2> DEFINE k == [claimCopy EXCEPT !.params = TRUE, !.ready = 0]
  <2>1. after' = "wait" /\ Hold("update", k)
    BY <1>5 DEF ContentsCreated, Update
  <2>2. /\ k \in Claim /\ k.rv = claimCopy.rv /\ k.live = claimCopy.live
        /\ k.del = claimCopy.del /\ k.fin = claimCopy.fin
    BY <1>1 DEF Claim
  <2> HIDE DEF k
  <2>3. MayGo("update", k.fin, deleting, after')
    BY <1>1, <1>2, <2>1 DEF MayGo, ClaimSteps, Ending, Forward
  <2>4. QED
    BY <1>2, <1>3, <2>1, <2>2, <2>3, MoveKeeps
<1>6. ASSUME NEW v \in Vols, CreateContent(v) PROVE IInv'
  <2> DEFINE k == [claimCopy EXCEPT !.contents = @ \cup {v}]
  <2>1. after' = after /\ (Hold("idle", NoClaim) \/ Hold("create", k))
    BY <1>6 DEF CreateContent
  <2>2. /\ k \in Claim /\ k.rv = claimCopy.rv /\ k.live = claimCopy.live
        /\ k.del = claimCopy.del /\ k.fin = claimCopy.fin
    BY <1>1 DEF Claim
  <2> HIDE DEF k
  <2>3. MayGo("create", k.fin, deleting, after')
    BY <1>1, <1>2, <2>1 DEF MayGo, ClaimSteps, Ending
  <2>4. QED
    BY <1>1, <1>2, <1>3, <2>1, <2>2, <2>3, EndKeeps, MoveKeeps
<1>7. QED
  BY <1>4, <1>5, <1>6

(* The update of the status, from a cached claim that is current: outside  *)
(* a deletion the claim is protected throughout the sync, and a claim      *)
(* being deleted is protected as long as it exists.                        *)
LEMMA UpdateWrites ==
  ASSUME IInv, claimPc = "update", ClaimCurrent(claimLister)
  PROVE  /\ WithStatus(claimLister, claimCopy) \in Claim
         /\ WithStatus(claimLister, claimCopy).live /\ claim.live
         /\ WithStatus(claimLister, claimCopy).del = claim.del
         /\ WithStatus(claimLister, claimCopy).fin = claim.fin
         /\ claim.fin
<1>1. claim.live /\ claimLister = claim /\ claim \in Claim /\ claimCopy \in Claim
  BY CurrentLister DEF IInv, Cached, Holding
<1>2. claim.fin
  <2>1. CASE deleting
    <3>1. claim \in Known(claimUndelivered, claimLister) /\ Shape(claim)
      BY DEF IInv, Cached
    <3>2. claim.del
      BY <1>1, <2>1, <3>1 DEF IInv, Holding
    <3>3. QED
      BY <1>1, <3>1, <3>2 DEF Shape
  <2>2. CASE ~ deleting
    BY <2>2 DEF IInv, Holding, Working
  <2>3. QED
    BY <2>1, <2>2
<1>3. QED
  BY <1>1, <1>2 DEF WithStatus, Claim

(* updateClaimStatus records how many contents are completed.              *)
LEMMA UpdateKeeps == IInv /\ UpdateClaimStatus => IInv'
<1> SUFFICES ASSUME IInv, UpdateClaimStatus PROVE IInv'
  OBVIOUS
<1> DEFINE obj == WithStatus(claimLister, claimCopy)
<1>1. claimPc = "update" /\ deleting' = deleting /\ after' = after
  BY DEF UpdateClaimStatus
<1>2. /\ after \in {"wait", "idle", "deleteContent", "waitDelete"}
      /\ after \in Ending => deleting
  BY <1>1 DEF IInv, Holding
<1>3. CASE Hold("idle", NoClaim) /\ UNCHANGED claimVars
  BY <1>1, <1>2, <1>3, EndKeeps DEF ClaimSteps
<1>4. CASE ClaimCurrent(claimLister) /\ StoreClaim(obj) /\ Hold(after, StoredClaim(obj))
  <2>1. /\ obj \in Claim /\ obj.live /\ claim.live /\ obj.del = claim.del
        /\ obj.fin = claim.fin /\ claim.fin
    BY <1>1, <1>4, UpdateWrites
  <2> HIDE DEF obj
  <2>2. MayGo(after, obj.fin, deleting, after') /\ after # "update"
    BY <1>1, <1>2 DEF MayGo, ClaimSteps, Forward
  <2>3. QED
    BY <1>1, <1>4, <2>1, <2>2, WorkerWrites
<1>5. QED
  BY <1>3, <1>4 DEF UpdateClaimStatus

(* Waiting for the contents and replacing the class.                       *)
LEMMA WaitKeeps == IInv /\ WaitClaimCompleted => IInv'
<1> SUFFICES ASSUME IInv, WaitClaimCompleted PROVE IInv'
  OBVIOUS
<1> DEFINE finished == {v \in claimCopy.contents : Finished(v)}
           counted == [claimCopy EXCEPT !.ready = Cardinality(finished)]
<1>1. /\ claimPc = "wait" /\ deleting' = deleting /\ UNCHANGED claimVars
      /\ claimPc # "idle" /\ claimPc \in Working
      /\ claimCopy \in Claim /\ after \in ClaimSteps /\ deleting \in BOOLEAN
  BY DEF WaitClaimCompleted, Working, IInv, Holding
<1>2. /\ counted \in Claim /\ counted.rv = claimCopy.rv /\ counted.live = claimCopy.live
      /\ counted.del = claimCopy.del /\ counted.fin = claimCopy.fin
  <2>1. finished \subseteq Vols
    BY <1>1 DEF Claim
  <2>2. Cardinality(finished) \in Nat
    BY <2>1, ModifyAssumption, FS_Subset, FS_CardinalityType
  <2> HIDE DEF finished
  <2>3. QED
    BY <1>1, <2>2 DEF Claim
<1>3. \/ Hold("update", counted) /\ after' = AfterWait
      \/ Hold(AfterWait, claimCopy) /\ after' = after
      \/ Hold("replace", counted) /\ after' = after
  BY DEF WaitClaimCompleted, Update
<1> HIDE DEF counted
<1>4. CASE Hold("update", counted) /\ after' = AfterWait
  <2>1. MayGo("update", counted.fin, deleting, after')
    BY <1>1, <1>4 DEF MayGo, AfterWait, ClaimSteps, Forward, Ending
  <2>2. QED
    BY <1>1, <1>2, <1>4, <2>1, MoveKeeps
<1>5. CASE Hold(AfterWait, claimCopy) /\ after' = after
  <2>1. MayGo(AfterWait, claimCopy.fin, deleting, after')
    BY <1>1, <1>5 DEF MayGo, AfterWait, ClaimSteps, Forward, Ending
  <2>2. QED
    BY <1>1, <1>5, <2>1, MoveKeeps
<1>6. CASE Hold("replace", counted) /\ after' = after
  <2>1. MayGo("replace", counted.fin, deleting, after')
    BY <1>1, <1>6 DEF MayGo, ClaimSteps, Forward, Ending
  <2>2. QED
    BY <1>1, <1>2, <1>6, <2>1, MoveKeeps
<1>7. QED
  BY <1>3, <1>4, <1>5, <1>6

(* completeClaim replaces the class, or has nothing to replace.            *)
LEMMA ReplaceKeeps == IInv /\ (ReplaceStorageClass \/ ReplaceNothing) => IInv'
<1> SUFFICES ASSUME IInv, ReplaceStorageClass \/ ReplaceNothing PROVE IInv'
  OBVIOUS
<1> DEFINE k == [claimCopy EXCEPT !.phase = "Completed"]
<1>1. /\ claimPc = "replace" /\ deleting' = deleting /\ UNCHANGED claimVars
      /\ claimPc # "idle" /\ claimPc \in Working
      /\ claimCopy \in Claim /\ after \in ClaimSteps /\ deleting \in BOOLEAN
  BY DEF ReplaceStorageClass, ReplaceNothing, Working, IInv, Holding
<1>2. /\ k \in Claim /\ k.rv = claimCopy.rv /\ k.live = claimCopy.live
      /\ k.del = claimCopy.del /\ k.fin = claimCopy.fin
  BY <1>1 DEF Claim, ClaimPhases
<1>3. \/ Hold("update", k) /\ after' = AfterWait
      \/ Hold("idle", NoClaim) /\ after' = after
      \/ UNCHANGED <<claimPc, claimCopy, after>>
  <2>1. CASE ReplaceStorageClass
    <3>1. CASE replacePc'[Owner] = "done"
      BY <2>1, <3>1 DEF ReplaceStorageClass, ReplaceEnds, Update
    <3>2. CASE replacePc'[Owner] = "get"
      BY <2>1, <3>2 DEF ReplaceStorageClass
    <3>3. CASE replacePc'[Owner] \notin {"done", "get"}
      BY <2>1, <3>3 DEF ReplaceStorageClass
    <3>4. QED
      BY <3>1, <3>2, <3>3
  <2>2. CASE ReplaceNothing
    BY <2>2 DEF ReplaceNothing, ReplaceEnds, Update
  <2>3. QED
    BY <2>1, <2>2
<1> HIDE DEF k
<1>4. CASE Hold("update", k) /\ after' = AfterWait
  <2>1. MayGo("update", k.fin, deleting, after')
    BY <1>1, <1>4 DEF MayGo, AfterWait, ClaimSteps, Forward, Ending
  <2>2. QED
    BY <1>1, <1>2, <1>4, <2>1, MoveKeeps
<1>5. CASE Hold("idle", NoClaim) /\ after' = after
  BY <1>1, <1>5, EndKeeps
<1>6. CASE UNCHANGED <<claimPc, claimCopy, after>>
  BY <1>1, <1>6 DEF IInv, claimVars
<1>7. QED
  BY <1>3, <1>4, <1>5, <1>6

(* Deleting the contents of a claim being deleted.                         *)
LEMMA DeletingKeeps ==
  ASSUME IInv,
         \/ DeleteContent \/ ContentsDeleted \/ WaitClaimDelete
         \/ \E v \in Vols : AddAnnotation(v) \/ DeleteRefContent(v)
  PROVE  IInv'
<1>1. /\ claimPc \in {"deleteContent", "deleteLoop", "waitDelete"}
      /\ deleting' = deleting /\ UNCHANGED claimVars
  BY DEF DeleteContent, ContentsDeleted, WaitClaimDelete, AddAnnotation,
         DeleteRefContent, EndSync
<1>2. /\ claimPc # "idle" /\ claimCopy \in Claim /\ after \in ClaimSteps /\ deleting
  BY <1>1 DEF IInv, Holding, Ending
<1>3. CASE DeleteContent
  <2>1. after' = after /\ (Hold("idle", NoClaim) \/ Hold("deleteLoop", claimCopy))
    BY <1>3 DEF DeleteContent, EndSync
  <2>2. MayGo("deleteLoop", claimCopy.fin, deleting, after') /\ "deleteLoop" \notin Working
    BY <1>2, <2>1 DEF MayGo, ClaimSteps, Forward, Ending, Working
  <2>3. QED
    BY <1>1, <1>2, <2>1, <2>2, EndKeeps, MoveKeeps
<1>4. CASE ContentsDeleted
  <2> DEFINE k == [claimCopy EXCEPT !.phase =
                     IF @ = "Creating" THEN "Rollback" ELSE "Deleting"]
  <2>1. after' = "waitDelete" /\ claimPc' = "update" /\ claimCopy' = k
    BY <1>4 DEF ContentsDeleted, Update, Hold
  <2>2. /\ k \in Claim /\ k.rv = claimCopy.rv /\ k.live = claimCopy.live
        /\ k.del = claimCopy.del /\ k.fin = claimCopy.fin
    BY <1>2 DEF Claim, ClaimPhases
  <2> HIDE DEF k
  <2>3. Holding(claim, claimUndelivered, claimLister, "update", k, deleting, "waitDelete")
    BY <1>2, <2>2 DEF IInv, Holding, ClaimSteps, Forward
  <2>4. QED
    BY <1>1, <2>1, <2>3 DEF IInv, claimVars
<1>5. CASE WaitClaimDelete
  <2>1. after' = after /\ (Hold("idle", claimCopy) \/ Hold("removeFinalizer", claimCopy))
    BY <1>5 DEF WaitClaimDelete
  <2>2. /\ MayGo("removeFinalizer", claimCopy.fin, deleting, after')
        /\ MayGo("idle", claimCopy.fin, deleting, after')
        /\ "removeFinalizer" \notin Working /\ "idle" \notin Working
    BY <1>2, <2>1 DEF MayGo, ClaimSteps, Forward, Ending, Working
  <2>3. QED
    BY <1>1, <1>2, <2>1, <2>2, MoveKeeps
<1>6. ASSUME NEW v \in Vols, AddAnnotation(v) \/ DeleteRefContent(v) PROVE IInv'
  <2>1. after' = after /\ (Hold("idle", NoClaim) \/ UNCHANGED <<claimPc, claimCopy>>)
    BY <1>6 DEF AddAnnotation, DeleteRefContent
  <2>2. CASE Hold("idle", NoClaim)
    BY <1>1, <1>2, <2>1, <2>2, EndKeeps
  <2>3. CASE UNCHANGED <<claimPc, claimCopy>>
    BY <1>1, <2>1, <2>3 DEF IInv, claimVars
  <2>4. QED
    BY <2>1, <2>2, <2>3
<1>7. QED
  BY <1>3, <1>4, <1>5, <1>6

(* removeClaimFinalizer lets the claim go.                                 *)
LEMMA RemoveFinalizerKeeps == IInv /\ RemoveClaimFinalizer => IInv'
<1> SUFFICES ASSUME IInv, RemoveClaimFinalizer PROVE IInv'
  OBVIOUS
<1> DEFINE obj == [claimCopy EXCEPT !.fin = FALSE]
<1>1. /\ claimPc = "removeFinalizer" /\ deleting' = deleting /\ after' = after
      /\ claimCopy \in Claim /\ after \in ClaimSteps
  BY DEF RemoveClaimFinalizer, WriteClaim, IInv, Holding
<1>2. obj \in Claim /\ obj.del = claimCopy.del /\ ~ obj.fin
  BY <1>1 DEF Claim
<1>3. WriteClaim(obj, "idle")
  BY DEF RemoveClaimFinalizer
<1> HIDE DEF obj
<1>4. CASE ClaimCurrent(claimCopy)
  <2>1. StoreClaim(obj) /\ Hold("idle", NoClaim)
    BY <1>3, <1>4 DEF WriteClaim, Hold
  <2>2. claim.live /\ obj.del = claim.del
    BY <1>1, <1>2, <1>4, CurrentCopy
  <2>3. QED
    BY <1>1, <1>2, <2>1, <2>2, RemovalKeeps
<1>5. CASE ~ ClaimCurrent(claimCopy)
  BY <1>1, <1>3, <1>5, EndKeeps DEF WriteClaim
<1>6. QED
  BY <1>4, <1>5

(* Every step of the claim worker keeps the invariant.                     *)
LEMMA WorkerKeeps == IInv /\ ClaimWorker => IInv'
  BY SyncKeeps, ForwardKeeps, CreatingKeeps, UpdateKeeps, WaitKeeps, ReplaceKeeps,
     DeletingKeeps, RemoveFinalizerKeeps, Zenon DEF ClaimWorker

(* A call that fails, whether or not its write was stored.                 *)
LEMMA FailedCallKeeps == IInv /\ ClaimCallFails => IInv'
<1> SUFFICES ASSUME IInv, ClaimCallFails PROVE IInv'
  OBVIOUS
<1> DEFINE obj == WrittenClaim
           base == IF claimPc = "update" THEN claimLister ELSE claimCopy
<1>1. /\ claimPc # "idle" /\ Hold("idle", NoClaim) /\ deleting' = deleting /\ after' = after
      /\ claimCopy \in Claim /\ after \in ClaimSteps /\ deleting \in BOOLEAN
  BY DEF ClaimCallFails, IInv, Holding
<1>2. CASE UNCHANGED claimVars
  BY <1>1, <1>2, EndKeeps
<1>3. CASE /\ claimPc \in {"setPending", "setFinalizer", "setCreating",
                           "removeFinalizer", "update"}
           /\ ClaimCurrent(base) /\ StoreClaim(obj)
  <2>1. CASE claimPc = "removeFinalizer"
    <3>1. obj = [claimCopy EXCEPT !.fin = FALSE] /\ ClaimCurrent(claimCopy)
      BY <1>3, <2>1 DEF WrittenClaim
    <3>2. obj \in Claim /\ obj.del = claimCopy.del /\ ~ obj.fin
      BY <1>1, <3>1 DEF Claim
    <3> HIDE DEF obj
    <3>3. claim.live /\ obj.del = claim.del
      BY <1>1, <3>1, <3>2, CurrentCopy
    <3>4. QED
      BY <1>1, <1>3, <2>1, <3>2, <3>3, RemovalKeeps
  <2>2. CASE claimPc # "removeFinalizer"
    <3>1. /\ obj \in Claim /\ obj.live /\ claim.live /\ obj.del = claim.del
          /\ claim.fin => obj.fin
          /\ obj.phase \in {"Creating", "Completed"} => obj.fin
      <4>1. CASE claimPc = "update"
        <5>1. obj = WithStatus(claimLister, claimCopy) /\ ClaimCurrent(claimLister)
          BY <1>3, <4>1 DEF WrittenClaim
        <5> HIDE DEF obj
        <5>2. QED
          BY <4>1, <5>1, UpdateWrites
      <4>2. CASE claimPc # "update"
        <5>1. ClaimCurrent(claimCopy) /\ claimCopy.live
          BY <1>3, <4>2 DEF ClaimCurrent
        <5>2. claim.live /\ claimCopy.del = claim.del /\ claimCopy.fin = claim.fin
          BY <1>1, <5>1, CurrentCopy
        <5>3. CASE claimPc = "setPending"
          BY <1>1, <5>1, <5>2, <5>3 DEF WrittenClaim, Claim, ClaimPhases
        <5>4. CASE claimPc = "setFinalizer"
          BY <1>1, <5>1, <5>2, <5>4 DEF WrittenClaim, Claim
        <5>5. CASE claimPc = "setCreating"
          <6>1. claimCopy.fin
            BY <5>5 DEF IInv, Holding
          <6>2. QED
            BY <1>1, <5>1, <5>2, <5>5, <6>1 DEF WrittenClaim, Claim, ClaimPhases
        <5>6. QED
          BY <1>3, <2>2, <4>2, <5>3, <5>4, <5>5
      <4>3. QED
        BY <4>1, <4>2
    <3> HIDE DEF obj
    <3>2. Hold("idle", StoredClaim(obj))
      BY <1>1 DEF Hold
    <3>3. MayGo("idle", obj.fin, deleting, after') /\ "idle" \notin Working
      BY <1>1 DEF MayGo, ClaimSteps, Forward, Ending, Working
    <3>4. QED
      BY <1>1, <1>3, <3>1, <3>2, <3>3, WorkerWrites
  <2>3. QED
    BY <2>1, <2>2
<1>4. QED
  BY <1>2, <1>3, Zenon DEF ClaimCallFails

-----------------------------------------------------------------------------
(* The environment of the claim worker.                                    *)

(* So does the informer that delivers a claim.                             *)
LEMMA DeliverKeeps == IInv /\ SyncClaimLister => IInv'
<1> SUFFICES ASSUME IInv, SyncClaimLister PROVE IInv'
  OBVIOUS
<1> DEFINE c == claim
           U == claimUndelivered
           l == claimLister
<1>1. PICK obj \in U : /\ \A other \in U : obj.rv <= other.rv
                       /\ claimLister' = obj /\ claimUndelivered' = U \ {obj}
                       /\ claim' = claim /\ UNCHANGED workVars
  BY DEF SyncClaimLister
<1>2. /\ c.rv \in Nat /\ l.rv \in Nat
      /\ \A o \in U : o \in Claim /\ o.rv \in Nat
      /\ Known(U \ {obj}, obj) = U /\ U \subseteq Known(U, l)
  BY DEF IInv, Cached, Claim, Known
<1>3. c \in U
  BY <1>1, <1>2, SMTT(30) DEF IInv, Cached, Known
<1>4. \A o \in U \ {obj} : obj.rv < o.rv /\ o.rv <= c.rv
  BY <1>1, <1>2 DEF IInv, Cached
<1>5. Cached(c, U \ {obj}, obj)
  BY <1>1, <1>2, <1>3, <1>4, Zenon DEF IInv, Cached
<1>6. Holding(c, U \ {obj}, obj, claimPc, claimCopy, deleting, after)
  BY <1>2, Zenon DEF IInv, Holding
<1>7. QED
  BY <1>1, <1>5, <1>6 DEF IInv, workVars

(* So does the user who deletes the claim.                                 *)
LEMMA DeleteKeeps == IInv /\ DeleteClaim => IInv'
<1> SUFFICES ASSUME IInv, DeleteClaim PROVE IInv'
  OBVIOUS
<1> DEFINE obj == [claim EXCEPT !.del = TRUE]
           n == StoredClaim(obj)
           U == claimUndelivered
           l == claimLister
<1>1. /\ claim.live /\ ~ claim.del /\ claim \in Claim
      /\ claim' = n /\ claimUndelivered' = U \cup {n} /\ claimLister' = l
      /\ UNCHANGED workVars
  BY DEF DeleteClaim, StoreClaim, IInv, Cached
<1>2. obj \in Claim /\ obj.live /\ obj.del /\ obj.fin = claim.fin /\ claim.rv \in Nat
  BY <1>1 DEF Claim
<1> HIDE DEF obj
<1>3. /\ n \in Claim /\ n.rv = claim.rv + 1
      /\ claim.fin => n.live /\ n.fin /\ n.del
      /\ ~ claim.fin => ~ n.live /\ ~ n.fin /\ ~ n.del
  BY <1>1, <1>2, StoredFacts
<1> HIDE DEF n
<1>4. Shape(n)
  BY <1>3 DEF Shape
<1>5. \A o \in Known(U, l) : o.live /\ o.fin /\ ~ o.del => n.live /\ n.fin
  BY <1>3 DEF IInv, Cached
<1>6. Cached(n, U \cup {n}, l)
  BY <1>1, <1>3, <1>4, <1>5, CachedStore DEF IInv
<1>7. Holding(n, U \cup {n}, l, claimPc, claimCopy, deleting, after)
  <2>1. claimCopy \in Claim /\ claimCopy.rv \in Nat
    BY DEF IInv, Holding, Claim
  <2>2. /\ claimCopy.live => claimCopy.rv <= n.rv
        /\ claimPc # "idle" => claimCopy.rv # n.rv
    BY <1>2, <1>3, <2>1, SMTT(30) DEF IInv, Holding
  <2>3. claimPc \in Working /\ ~ deleting => n.live /\ n.fin
    BY <1>3 DEF IInv, Holding
  <2>4. claimPc # "idle" /\ deleting =>
          \A o \in Known(U \cup {n}, l) : o.live => o.del
    BY <1>3 DEF IInv, Holding, Known
  <2>5. QED
    BY <2>2, <2>3, <2>4, Zenon DEF IInv, Holding
<1>8. QED
  BY <1>1, <1>6, <1>7 DEF IInv, workVars

(* A cache filled afresh shows the claim as it is.                         *)
LEMMA FreshCached ==
  ASSUME NEW c \in Claim, Shape(c)
  PROVE  Cached(c, {}, c)
<1>1. Known({}, c) = {c}
  BY DEF Known
<1>2. c.rv <= c.rv /\ ~ (c.rv < c.rv)
  BY DEF Claim
<1>3. QED
  BY <1>1, <1>2, Zenon DEF Cached

(* So does a restart of the controller.                                    *)
LEMMA RestartKeeps == IInv /\ ClaimRestarts => IInv'
<1> SUFFICES ASSUME IInv, ClaimRestarts PROVE IInv'
  OBVIOUS
<1>1. /\ claim' = claim /\ claimUndelivered' = {} /\ claimLister' = claim
      /\ claimPc' = "idle" /\ claimCopy' = NoClaim
      /\ deleting' = deleting /\ after' = after
  BY DEF ClaimRestarts, EndSync, Hold
<1>2. /\ claim \in Claim /\ Shape(claim)
      /\ deleting \in BOOLEAN /\ after \in ClaimSteps
  BY DEF IInv, Cached, Holding
<1>3. QED
  BY <1>1, <1>2, FreshCached, IdleHolds DEF IInv

(* The invariant holds at first.                                           *)
LEMMA InitHolds == Init => IInv
<1> SUFFICES ASSUME Init PROVE IInv
  OBVIOUS
<1>1. /\ claim = BlankClaim(1, TRUE) /\ claimUndelivered = {} /\ claimLister = claim
      /\ claimPc = "idle" /\ claimCopy = NoClaim /\ deleting = FALSE /\ after = "idle"
  BY DEF Init
<1>2. claim \in Claim /\ claim.live /\ ~ claim.del /\ claim.phase = ""
  BY <1>1, BlankClaimFacts
<1>3. Shape(claim)
  BY <1>2 DEF Shape
<1>4. after \in ClaimSteps
  BY <1>1 DEF ClaimSteps
<1>5. QED
  BY <1>1, <1>2, <1>3, <1>4, FreshCached, IdleHolds DEF IInv

(* Every step keeps it.                                                    *)
LEMMA StepKeeps == IInv /\ [Next]_vars => IInv'
<1> SUFFICES ASSUME IInv, [Next]_vars PROVE IInv'
  OBVIOUS
<1>1. ASSUME UNCHANGED claimVars, UNCHANGED workVars PROVE IInv'
  BY <1>1 DEF IInv, claimVars, workVars
<1>2. ASSUME NEW v \in Vols, ContentWorker(v) PROVE IInv'
  BY <1>1, <1>2, RestartKeeps DEF ContentWorker
<1>3. ASSUME NEW v \in Vols, ContentCallFails(v) \/ ContentInformers(v) PROVE IInv'
  BY <1>1, <1>3 DEF ContentCallFails, ContentInformers
<1>4. CASE Restart
  BY <1>4, RestartKeeps DEF Restart
<1>5. CASE UNCHANGED vars
  BY <1>1, <1>5 DEF vars
<1>6. QED
  BY <1>2, <1>3, <1>4, <1>5, WorkerKeeps, FailedCallKeeps, DeliverKeeps, DeleteKeeps
     DEF Next

(* It always holds.                                                        *)
LEMMA InductiveInvariant == Spec => []IInv
  BY InitHolds, StepKeeps, PTL DEF Spec

-----------------------------------------------------------------------------
(* Whatever stale claim a sync started from and whatever calls failed,     *)
(* createContents runs only under a claim that exists and carries its      *)
(* finalizer: a claim cannot vanish under the contents it is given.        *)
THEOREM CreationIsProtected == Spec => []CreateProtected
<1>1. IInv => CreateProtected
  <2> SUFFICES ASSUME IInv, claimPc = "create" PROVE claim.live /\ claim.fin
    BY DEF CreateProtected
  <2>1. ~ deleting
    BY DEF IInv, Holding
  <2>2. QED
    BY <2>1 DEF IInv, Holding, Working
<1>2. QED
  BY <1>1, InductiveInvariant, PTL

-----------------------------------------------------------------------------
(* The composed controller implements ModifyContent.                       *)

(* What the content worker sees of the claim only comes closer to its end. *)
LEMMA ViewAdvances ==
  ASSUME IInv, SyncClaimLister
  PROVE  Contents!ClaimChanges
<1>1. PICK obj \in claimUndelivered :
        claimLister' = obj /\ UNCHANGED contentVars
  BY DEF SyncClaimLister
<1>2. claimLister.rv < obj.rv /\ obj.live \in BOOLEAN /\ obj.del \in BOOLEAN
      /\ claimLister.live \in BOOLEAN /\ claimLister.del \in BOOLEAN
  BY <1>1 DEF IInv, Cached, Claim
<1>3. Ages(claimLister, obj)
  BY <1>1, <1>2 DEF IInv, Cached, Known
<1>4. claimView' \in Contents!Later(claimView)
  BY <1>1, <1>2, <1>3 DEF claimView, Ages, Contents!Later
<1>5. QED
  BY <1>1, <1>4 DEF Contents!ClaimChanges, contentVars, Contents!serverVars,
     Contents!workerVars, Contents!arrayVars, Contents!faultVars

(* A step that is none of the content workers' is none of ModifyContent.   *)
LEMMA ViewKept ==
  ASSUME UNCHANGED contentVars, claimLister' = claimLister
  PROVE  UNCHANGED Contents!vars
  BY DEF contentVars, Contents!vars, claimView

(* The loops are over volumes.                                             *)
Loops == todo \in SUBSET Vols /\ toMark \in SUBSET Vols

(* The loops of the claim worker stay within the volumes.                  *)
LEMMA LoopsKept == Spec => []Loops
<1>1. Init => Loops
  BY DEF Init, Loops
<1>2. Loops /\ [Next]_vars => Loops'
  <2> SUFFICES ASSUME Loops, [Next]_vars PROVE Loops'
    OBVIOUS
  <2>1. CASE UNCHANGED <<todo, toMark>>
    BY <2>1 DEF Loops
  <2>2. CASE ClaimWorker
    BY <2>2 DEF ClaimWorker, Loops, EndSync, SyncClaim, SetClaimPending, PreCreateClaim,
       SetClaimFinalizers, SetClaimCreating, WriteClaim, FetchRefResources,
       ContentsCreated, UpdateClaimStatus, WaitClaimCompleted, ReplaceStorageClass,
       ReplaceNothing, DeleteContent, ContentsDeleted, WaitClaimDelete,
       RemoveClaimFinalizer, CreateContent, AddAnnotation, DeleteRefContent
  <2>3. CASE ClaimCallFails
    BY <2>1, <2>3 DEF ClaimCallFails
  <2>4. ASSUME NEW v \in Vols, ContentWorker(v) \/ ContentCallFails(v) \/ ContentInformers(v)
        PROVE  Loops'
    BY <2>1, <2>4 DEF ContentWorker, ContentCallFails, ContentInformers, workVars,
       ClaimRestarts, EndSync
  <2>5. CASE SyncClaimLister \/ DeleteClaim \/ Restart
    BY <2>1, <2>5 DEF SyncClaimLister, DeleteClaim, Restart, ClaimRestarts, EndSync, workVars
  <2>6. CASE UNCHANGED vars
    BY <2>1, <2>6 DEF vars, workVars
  <2>7. QED
    BY <2>2, <2>3, <2>4, <2>5, <2>6, Zenon DEF Next
<1>3. QED
  BY <1>1, <1>2, PTL DEF Spec

(* Every step of the controller is one of ModifyContent, or none.          *)
LEMMA ContentStep ==
  ASSUME IInv, Loops, [Next]_vars
  PROVE  [Contents!Next]_(Contents!vars)
<1>1. CASE UNCHANGED <<contentVars, claimLister>>
  BY <1>1, ViewKept
<1>2. CASE ClaimWorker
  <2>1. \/ UNCHANGED <<contentVars, claimLister>>
        \/ \E v \in Vols : Contents!Environment(v)
    <3>1. ASSUME SyncClaim \/ PreCreateClaim \/ FetchRefResources \/ ContentsCreated
                 \/ WaitClaimCompleted \/ ReplaceStorageClass \/ ReplaceNothing
                 \/ DeleteContent \/ ContentsDeleted \/ WaitClaimDelete
          PROVE  UNCHANGED <<contentVars, claimLister>>
      BY <3>1 DEF SyncClaim, PreCreateClaim, FetchRefResources, ContentsCreated,
         WaitClaimCompleted, ReplaceStorageClass, ReplaceNothing, DeleteContent,
         ContentsDeleted, WaitClaimDelete, claimVars
    <3>2. ASSUME SetClaimPending \/ SetClaimFinalizers \/ SetClaimCreating
                 \/ UpdateClaimStatus \/ RemoveClaimFinalizer
          PROVE  UNCHANGED <<contentVars, claimLister>>
      BY <3>2 DEF SetClaimPending, SetClaimFinalizers, SetClaimCreating,
         UpdateClaimStatus, RemoveClaimFinalizer, WriteClaim, StoreClaim, claimVars
    <3>3. ASSUME NEW v \in Vols, CreateContent(v) \/ AddAnnotation(v) \/ DeleteRefContent(v)
          PROVE  UNCHANGED <<contentVars, claimLister>> \/ Contents!Environment(v)
      BY <3>3 DEF CreateContent, AddAnnotation, DeleteRefContent, claimVars,
         Contents!Environment
    <3>4. QED
      BY <1>2, <3>1, <3>2, <3>3, Zenon DEF ClaimWorker
  <2>2. QED
    BY <1>1, <2>1 DEF Contents!Next
<1>3. CASE ClaimCallFails
  <2>1. \/ UNCHANGED <<contentVars, claimLister>>
        \/ \E v \in Vols : Contents!Environment(v)
    BY <1>3 DEF ClaimCallFails, StoreClaim, claimVars, Loops, Contents!Environment
  <2>2. QED
    BY <1>1, <2>1 DEF Contents!Next
<1>4. ASSUME NEW v \in Vols, ContentWorker(v) \/ ContentCallFails(v) \/ ContentInformers(v)
      PROVE  Contents!Next
  BY <1>4 DEF ContentWorker, ContentCallFails, ContentInformers, Contents!Next,
     Contents!Worker
<1>5. CASE SyncClaimLister
  BY <1>5, ViewAdvances DEF Contents!Next
<1>6. CASE DeleteClaim
  BY <1>1, <1>6 DEF DeleteClaim, StoreClaim
<1>7. CASE Restart
  BY <1>7 DEF Restart, Contents!Next
<1>8. CASE UNCHANGED vars
  BY <1>1, <1>8 DEF vars, claimVars
<1>9. QED
  BY <1>2, <1>3, <1>4, <1>5, <1>6, <1>7, <1>8, Zenon DEF Next

(* The contents of the composed controller behave as ModifyContent says,   *)
(* with the claim worker in the place of its environment: what is proved   *)
(* of a content there, ModifyProtected first, holds in the controller.     *)
THEOREM ControllerImplementsContents == Spec => ContentsImplemented
<1>1. Init => Contents!Init
  BY DEF Init
<1>2. IInv /\ Loops /\ [Next]_vars => [Contents!Next]_(Contents!vars)
  BY ContentStep
<1>3. QED
  BY <1>1, <1>2, InductiveInvariant, LoopsKept, PTL
     DEF Spec, ContentsImplemented, Contents!Spec

-----------------------------------------------------------------------------
(* The composed controller implements StorageClassReplace.                 *)

OnePc == replacePc \in [{Owner} -> Class!Pcs]

(* A step of the claim worker is one of the replacement, or none.          *)
LEMMA WorkerReplaces ==
  ASSUME OnePc, ClaimWorker
  PROVE  [Class!Next]_(Class!vars)
<1>1. ASSUME UNCHANGED classVars PROVE UNCHANGED Class!vars
  BY <1>1 DEF classVars, Class!vars
<1>2. CASE WaitClaimCompleted
  <2>1. \/ UNCHANGED classVars
        \/ replacePc' = [c \in {Owner} |-> "get"] /\ UNCHANGED <<classes, read>>
    BY <1>2 DEF WaitClaimCompleted, classVars
  <2>2. ASSUME replacePc' = [c \in {Owner} |-> "get"], UNCHANGED <<classes, read>>
        PROVE  Class!SyncAgain(Owner) \/ Class!CallFails(Owner)
    <3>1. replacePc' = [replacePc EXCEPT ![Owner] = "get"]
      BY <2>2 DEF OnePc
    <3>2. QED
      BY <2>2, <3>1 DEF Class!SyncAgain, Class!CallFails, Class!Goto
  <2>3. QED
    BY <1>1, <2>1, <2>2 DEF Class!Next
<1>3. CASE ReplaceStorageClass
  BY <1>3 DEF ReplaceStorageClass, Class!Next
<1>4. ASSUME SyncClaim \/ SetClaimPending \/ PreCreateClaim \/ SetClaimFinalizers
             \/ SetClaimCreating \/ FetchRefResources \/ ContentsCreated
             \/ UpdateClaimStatus
      PROVE  UNCHANGED classVars
  BY <1>4 DEF SyncClaim, SetClaimPending, PreCreateClaim, SetClaimFinalizers,
     SetClaimCreating, WriteClaim, FetchRefResources, ContentsCreated, UpdateClaimStatus
<1>5. ASSUME ReplaceNothing \/ DeleteContent \/ ContentsDeleted \/ WaitClaimDelete
             \/ RemoveClaimFinalizer
      PROVE  UNCHANGED classVars
  BY <1>5 DEF ReplaceNothing, DeleteContent, ContentsDeleted, WaitClaimDelete,
     RemoveClaimFinalizer, WriteClaim
<1>6. ASSUME NEW v \in Vols, CreateContent(v) \/ AddAnnotation(v) \/ DeleteRefContent(v)
      PROVE  UNCHANGED classVars
  BY <1>6 DEF CreateContent, AddAnnotation, DeleteRefContent
<1>7. QED
  BY <1>1, <1>2, <1>3, <1>4, <1>5, <1>6, Zenon DEF ClaimWorker

(* Every step of the controller is one of the replacement, or none.        *)
LEMMA ReplaceStep ==
  ASSUME OnePc, [Next]_vars
  PROVE  [Class!Next]_(Class!vars)
<1>1. ASSUME UNCHANGED classVars PROVE UNCHANGED Class!vars
  BY <1>1 DEF classVars, Class!vars
<1>2. CASE ClaimCallFails
  BY <1>1, <1>2 DEF ClaimCallFails, Class!Next
<1>3. ASSUME NEW v \in Vols, ContentWorker(v) \/ ContentCallFails(v) \/ ContentInformers(v)
      PROVE  [Class!Next]_(Class!vars)
  BY <1>1, <1>3 DEF ContentWorker, ContentCallFails, ContentInformers, ClaimRestarts,
     Class!Next
<1>4. CASE SyncClaimLister \/ DeleteClaim \/ Restart
  BY <1>1, <1>4 DEF SyncClaimLister, DeleteClaim, Restart, ClaimRestarts, Class!Next
<1>5. CASE UNCHANGED vars
  BY <1>1, <1>5 DEF vars
<1>6. QED
  BY <1>2, <1>3, <1>4, <1>5, WorkerReplaces, Zenon DEF Next

(* The replacement is at one step at a time.                               *)
LEMMA OnePcKept == OnePc /\ [Class!Next]_(Class!vars) => OnePc'
<1> SUFFICES ASSUME OnePc, [Class!Next]_(Class!vars) PROVE OnePc'
  OBVIOUS
<1>1. ASSUME NEW c \in {Owner}, NEW s \in Class!Pcs, Class!Goto(c, s) PROVE OnePc'
  BY <1>1 DEF OnePc, Class!Goto
<1>2. /\ "get" \in Class!Pcs /\ "getBackup" \in Class!Pcs /\ "createBackup" \in Class!Pcs
      /\ "deleteSource" \in Class!Pcs /\ "createNew" \in Class!Pcs
      /\ "deleteBackup" \in Class!Pcs /\ "done" \in Class!Pcs
  BY DEF Class!Pcs, Class!Steps
<1>3. ASSUME NEW c \in {Owner},
             Class!GetSource(c) \/ Class!GetBackup(c) \/ Class!CreateBackup(c)
             \/ Class!DeleteSource(c) \/ Class!CreateNew(c) \/ Class!DeleteBackup(c)
             \/ Class!SyncAgain(c) \/ Class!CallFails(c)
      PROVE  \E s \in Class!Pcs : Class!Goto(c, s)
  BY <1>2, <1>3 DEF Class!GetSource, Class!GetBackup, Class!Found, Class!CreateBackup,
     Class!DeleteSource, Class!CreateNew, Class!DeleteBackup, Class!SyncAgain,
     Class!CallFails
<1>4. CASE Class!Restart
  BY <1>2, <1>4 DEF Class!Restart, OnePc
<1>5. CASE UNCHANGED Class!vars
  BY <1>5 DEF Class!vars, OnePc
<1>6. QED
  BY <1>1, <1>3, <1>4, <1>5 DEF Class!Next

(* The claim worker replaces the source class as StorageClassReplace says, *)
(* however often a sync is begun anew: its backups and its removal of the  *)
(* class are as safe there as they are proved to be.                       *)
THEOREM ControllerImplementsReplacement == Spec => ReplacementImplemented
<1>1. Init => Class!Init /\ OnePc
  BY DEF Init, Class!Init, OnePc, Class!Pcs
<1>2. OnePc /\ [Next]_vars => [Class!Next]_(Class!vars) /\ OnePc'
  BY ReplaceStep, OnePcKept
<1>3. QED
  BY <1>1, <1>2, PTL DEF Spec, ReplacementImplemented, Class!Spec
=============================================================================
