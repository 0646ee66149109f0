------------------------- MODULE ModifyContentPhases -------------------------
(***************************************************************************)
(* Proofs of the action properties of ModifyContent, for any number of     *)
(* volumes, any lag of the informers, any number of faults and contents    *)
(* created again under the same name: the phase of a filesystem's content  *)
(* never goes back, and a content in phase Rollback disappears only with   *)
(* its volume taken out of HyperMetro.                                     *)
(***************************************************************************)
EXTENDS ModifyContentProofs

Modifying == {"modify", "setStatus", "retryStatus", "undo", "staged"}

(* A worker at step p with the copy k, writing phase g; s is san.  The     *)
(* last conjunct is what keeps a sync that starts from a stale cache away  *)
(* from a content being rolled back.                                       *)
Paced(c, U, l, p, k, g, s) ==
  /\ ~ s => g = "Completed"
  /\ p = "setPending" => k.phase = ""
  /\ p \in {"setFinalizer", "setCreating"} => k.phase = "Pending"
  /\ p \in Modifying => k.phase \in {"Creating", "Staging"} /\ c.phase # "Rollback"
  /\ c.live /\ c.phase = "Rollback" =>
       \A o \in Known(U, l) : o.live /\ o.fin => o.del

(* A sync that finds o in the cache is going to roll the volume back.      *)
Doomed(o) == o.live /\ o.del /\ o.rollback /\ o.phase \in {"Staging", "Completed"}

(* The content such a sync finds in the server: still the one to roll      *)
(* back, or that one is gone with the volume out of HyperMetro, and a      *)
(* content created since has not been worked on.                           *)
Fate(c, m) ==
  \/ c.live /\ c.del /\ c.rollback /\ c.phase \in {"Staging", "Completed", "Rollback"}
  \/ ~ m /\ (c.live => ~ c.del /\ ~ c.fin)

(* m: the volume is in HyperMetro.                                         *)
Fated(c, U, l, p, k, m) ==
  /\ p = "removeFinalizer" /\ k.rollback /\ k.phase \in {"Staging", "Completed", "Rollback"}
       => ~ m
  /\ p = "setRollback" => Fate(c, m)
  /\ \A o \in Known(U, l) : Doomed(o) => Fate(c, m)
  /\ c.live /\ c.phase = "Rollback" =>
       (c.del => c.rollback) /\ (~ c.del => ~ c.fin /\ ~ m)

Orderly(v) ==
  /\ Paced(content[v], undelivered[v], lister[v], pc[v], copy[v], goal[v], san)
  /\ Fated(content[v], undelivered[v], lister[v], pc[v], copy[v], metro[v])

(* The inductive invariant.                                                *)
PInv == IInv /\ \A v \in Vols : Orderly(v)

-----------------------------------------------------------------------------
(* What a step may do to one volume, and what it keeps.                    *)

(* The two action properties, for one volume.                              *)
Advances(c, n, s) ==
  ~ s /\ c.live /\ n.live => Rank(c.phase) <= Rank(n.phase)

Releases(c, n, m) == c.live /\ c.phase = "Rollback" /\ ~ n.live => ~ m

(* The claim worker and the users turn c into n.                           *)
EditedTo(c, n) ==
  \/ ~ c.live /\ n.live /\ n.phase = "" /\ ~ n.del /\ ~ n.fin
  \/ /\ c.live /\ n.live /\ n.phase = c.phase /\ n.fin = c.fin
     /\ c.del => n.del
     /\ c.rollback => n.rollback
     /\ n.del => c.del \/ c.fin
  \/ c.live /\ ~ c.del /\ ~ c.fin /\ ~ n.live

(* The write of a worker at step p turns c into n; g is its goal.          *)
WorkedTo(p, g, c, n) ==
  /\ c.live
  /\ p # "removeFinalizer" =>
       n.live /\ n.del = c.del /\ n.rollback = c.rollback
  /\ p \notin {"removeFinalizer", "setFinalizer"} => n.fin = c.fin
  /\ p = "setPending" => n.phase = "Pending"
  /\ p = "setFinalizer" => n.phase = c.phase
  /\ p = "setCreating" => n.phase = "Creating"
  /\ p \in {"setStatus", "retryStatus"} => n.phase = g
  /\ p = "setRollback" => n.phase = "Rollback"
  /\ p = "removeFinalizer" =>
       \/ c.del /\ ~ n.live
       \/ ~ c.del /\ n.live /\ ~ n.del /\ ~ n.fin /\ n.phase = c.phase

(* A worker at p holding k is at q holding j after its write stored n.     *)
GoesOn(p, k, n, q, j) ==
  \/ q = "idle"
  \/ j = k /\ p \in {"setStatus", "retryStatus"} /\ q \in {"retryStatus", "undo"}
  \/ p = "setRollback" /\ q = "setRollback"
  \/ /\ j = n /\ p \in {"setPending", "setFinalizer", "setCreating", "setStatus"}
     /\ q = NextStep(n)
  \/ j = n /\ p = "retryStatus" /\ q = "staged" /\ n.phase = "Staging"
  \/ p = "setRollback" /\ q = "rollback"

(* It is at q holding j after a step that stored nothing, which left the   *)
(* volume's HyperMetro state m as m1.                                      *)
MovesTo(p, k, m, q, j, m1) ==
  /\ m1 => m \/ p = "modify"
  /\ \/ q = "idle"
     \/ j = k /\ p \in Modifying /\ q \in {"setStatus", "retryStatus", "undo"}
     \/ p = "setRollback" /\ q = "setRollback"
     \/ q = "removeFinalizer" /\ ~ m1

(* Bounds of small numbers.                                                *)
LEMMA Small ==
  /\ \A x \in {0, 1, 2, 3, 4, 5} : 0 <= x /\ x <= 5 /\ x <= x
  /\ \A x \in {0, 1, 2, 3, 4} : x <= 4
  /\ 1 <= 2
  OBVIOUS

(* The writes of the worker that take a phase on.                          *)
LEMMA RankUp ==
  ASSUME NEW a \in Phases, NEW b \in Phases,
         \/ a = b \/ a = "" \/ b = "Rollback"
         \/ a = "Pending" /\ b = "Creating"
         \/ a # "Rollback" /\ b = "Completed"
  PROVE  Rank(a) <= Rank(b)
<1>1. /\ a = "" => Rank(a) = 0
      /\ a = "Pending" => Rank(a) = 1
      /\ a = "Creating" => Rank(a) = 2
      /\ a = "Staging" => Rank(a) = 3
      /\ a = "Completed" => Rank(a) = 4
      /\ a = "Rollback" => Rank(a) = 5
  BY DEF Rank
<1>2. /\ b = "" => Rank(b) = 0
      /\ b = "Pending" => Rank(b) = 1
      /\ b = "Creating" => Rank(b) = 2
      /\ b = "Staging" => Rank(b) = 3
      /\ b = "Completed" => Rank(b) = 4
      /\ b = "Rollback" => Rank(b) = 5
  BY DEF Rank
<1>3. Rank(a) \in {0, 1, 2, 3, 4, 5} /\ Rank(b) \in {0, 1, 2, 3, 4, 5}
  BY <1>1, <1>2, Zenon DEF Phases
<1>4. CASE a = b
  BY <1>3, <1>4, Small, Zenon
<1>5. CASE a = "" \/ b = "Rollback"
  BY <1>1, <1>2, <1>3, <1>5, Small, Zenon
<1>6. CASE a = "Pending" /\ b = "Creating"
  BY <1>1, <1>2, <1>6, Small, Zenon
<1>7. CASE a # "Rollback" /\ b = "Completed"
  <2>1. Rank(a) \in {0, 1, 2, 3, 4} /\ Rank(b) = 4
    BY <1>1, <1>2, <1>7, Zenon DEF Phases
  <2>2. QED
    BY <2>1, Small, Zenon
<1>8. QED
  BY <1>4, <1>5, <1>6, <1>7

(* An edit by the claim worker or a user keeps the order and the fate.     *)
LEMMA EditKeeps ==
  ASSUME NEW c \in Content, NEW U, NEW l, NEW n \in Content, NEW p, NEW k,
         NEW g, NEW s \in BOOLEAN, NEW m \in BOOLEAN,
         Cached(c, U, l), Holding(c, U, l, p, k), EditedTo(c, n),
         Paced(c, U, l, p, k, g, s), Fated(c, U, l, p, k, m)
  PROVE  /\ Paced(n, U \cup {n}, l, p, k, g, s) /\ Fated(n, U \cup {n}, l, p, k, m)
         /\ Advances(c, n, s) /\ Releases(c, n, m)
<1> DEFINE K == Known(U, l)
<1>1. Known(U \cup {n}, l) = K \cup {n} /\ c \in K
  BY DEF Cached, Known
<1>2. p \in Modifying => c.live /\ c.fin
  BY DEF Holding, Modifying
<1> HIDE DEF K
<1>3. Paced(n, U \cup {n}, l, p, k, g, s)
  <2>1. p \in Modifying => n.phase # "Rollback"
    BY <1>2 DEF Paced, EditedTo
  <2>2. ASSUME n.live, n.phase = "Rollback", NEW o \in K \cup {n}, o.live, o.fin
        PROVE  o.del
    <3>1. c.live /\ c.phase = "Rollback" /\ n.fin = c.fin /\ (c.del => n.del)
      BY <2>2 DEF EditedTo
    <3>2. QED
      BY <1>1, <2>2, <3>1 DEF Paced, K
  <2>3. QED
    BY <1>1, <2>1, <2>2 DEF Paced
<1>4. Fate(c, m) => Fate(n, m)
  BY DEF Fate, EditedTo
<1>5. Fated(n, U \cup {n}, l, p, k, m)
  <2>1. ASSUME NEW o \in K \cup {n}, Doomed(o) PROVE Fate(n, m)
    BY <1>4, <2>1 DEF Fated, Doomed, Fate, K
  <2>2. n.live /\ n.phase = "Rollback" =>
          (n.del => n.rollback) /\ (~ n.del => ~ n.fin /\ ~ m)
    BY DEF Fated, EditedTo
  <2>3. QED
    BY <1>1, <1>4, <2>1, <2>2 DEF Fated
<1>6. Advances(c, n, s)
  <2>1. c.phase \in Phases /\ n.phase \in Phases
    BY DEF Content
  <2>2. c.live /\ n.live => c.phase = n.phase
    BY DEF EditedTo
  <2>3. QED
    BY <2>1, <2>2, RankUp DEF Advances
<1>7. Releases(c, n, m)
  BY DEF Releases, EditedTo, Fated
<1>8. QED
  BY <1>3, <1>5, <1>6, <1>7

(* A worker at step p, holding k, writes n over c and is then at q with j. *)
Working(c, U, l, n, p, k, g, s, m, q, j) ==
  /\ c \in Content /\ n \in Content /\ k \in Content
  /\ p \in WriteSteps /\ g \in {"Staging", "Completed"}
  /\ s \in BOOLEAN /\ m \in BOOLEAN
  /\ Cached(c, U, l) /\ Holding(c, U, l, p, k)
  /\ Paced(c, U, l, p, k, g, s) /\ Fated(c, U, l, p, k, m)
  /\ WorkedTo(p, g, c, n)
  /\ p \notin {"retryStatus", "setRollback"} => k = c
  /\ GoesOn(p, k, n, q, j)

(* A write of the worker, after which it goes on, retries or gives up.     *)
LEMMA WorkKeeps ==
  ASSUME NEW c, NEW U, NEW l, NEW n, NEW p, NEW k, NEW g, NEW s, NEW m, NEW q, NEW j,
         Working(c, U, l, n, p, k, g, s, m, q, j)
  PROVE  /\ Paced(n, U \cup {n}, l, q, j, g, s) /\ Fated(n, U \cup {n}, l, q, j, m)
         /\ Advances(c, n, s) /\ Releases(c, n, m)
<1>0. /\ c \in Content /\ n \in Content /\ k \in Content
      /\ p \in WriteSteps /\ g \in {"Staging", "Completed"}
      /\ s \in BOOLEAN /\ m \in BOOLEAN
      /\ Cached(c, U, l) /\ Holding(c, U, l, p, k)
      /\ Paced(c, U, l, p, k, g, s) /\ Fated(c, U, l, p, k, m)
      /\ WorkedTo(p, g, c, n)
      /\ p \notin {"retryStatus", "setRollback"} => k = c
      /\ GoesOn(p, k, n, q, j)
  BY DEF Working
<1> DEFINE K == Known(U, l)
<1>1. Known(U \cup {n}, l) = K \cup {n} /\ c \in K
  BY <1>0 DEF Cached, Known
<1>2. /\ p \in {"setStatus", "retryStatus"} => c.fin
      /\ p \in {"setPending", "setFinalizer", "setCreating"} => ~ c.del /\ \A o \in K : ~ o.del
      /\ p \in DeleteSteps => \A o \in K : o.live /\ o.fin => o.del
  BY <1>0 DEF Holding
<1> HIDE DEF K
<1>3. /\ p = "setPending" => c.phase = ""
      /\ p \in {"setFinalizer", "setCreating"} => c.phase = "Pending"
      /\ p = "setStatus" => c.phase \in {"Creating", "Staging"}
      /\ p \in {"setStatus", "retryStatus"} =>
           c.phase # "Rollback" /\ k.phase \in {"Creating", "Staging"}
  BY <1>0 DEF Paced, Modifying
<1>4. Paced(n, U \cup {n}, l, q, j, g, s)
  <2>1. /\ q = "setPending" => j.phase = ""
        /\ q \in {"setFinalizer", "setCreating"} => j.phase = "Pending"
        /\ q \in Modifying => j.phase \in {"Creating", "Staging"} /\ n.phase # "Rollback"
    <3>1. CASE j = n /\ q = NextStep(n)
      <4>1. n.phase \in Phases /\ n.fin \in BOOLEAN
        BY <1>0 DEF Content
      <4>2. QED
        BY <3>1, <4>1, Zenon DEF NextStep, Phases, Modifying
    <3>2. CASE ~ (j = n /\ q = NextStep(n))
      BY <1>0, <1>3, <3>2 DEF GoesOn, WorkedTo, Modifying
    <3>3. QED
      BY <3>1, <3>2
  <2>2. ASSUME n.live, n.phase = "Rollback", NEW o \in K \cup {n}, o.live, o.fin
        PROVE  o.del
    <3>1. p \in {"setRollback", "removeFinalizer"}
      BY <1>0, <1>3, <2>2 DEF WorkedTo, WriteSteps
    <3>2. QED
      BY <1>0, <1>1, <1>2, <2>2, <3>1 DEF WorkedTo, DeleteSteps
  <2>3. QED
    BY <1>0, <1>1, <2>1, <2>2 DEF Paced
<1>5. ASSUME Fate(c, m), p = "setRollback" \/ \E o \in K : o.del
      PROVE  Fate(n, m)
  <2>1. CASE p \in {"setPending", "setFinalizer", "setCreating"}
    BY <1>0, <1>2, <1>5, <2>1
  <2>2. CASE p \in {"setStatus", "retryStatus"}
    BY <1>0, <1>2, <1>5, <2>2 DEF Fate, WorkedTo
  <2>3. CASE p = "setRollback"
    BY <1>0, <1>5, <2>3 DEF Fate, WorkedTo
  <2>4. CASE p = "removeFinalizer"
    BY <1>0, <1>5, <2>4 DEF Fate, WorkedTo, Fated
  <2>5. QED
    BY <1>0, <2>1, <2>2, <2>3, <2>4 DEF WriteSteps
<1>6. Fated(n, U \cup {n}, l, q, j, m)
  <2>1. ASSUME NEW o \in K \cup {n}, Doomed(o) PROVE Fate(n, m)
    <3>1. CASE o = n
      BY <1>0, <2>1, <3>1 DEF Doomed, Fate
    <3>2. CASE o \in K
      <4>1. Fate(c, m)
        BY <1>0, <2>1, <3>2 DEF Fated, K
      <4>2. QED
        BY <1>5, <2>1, <3>2, <4>1 DEF Doomed
    <3>3. QED
      BY <2>1, <3>1, <3>2
  <2>2. n.live /\ n.phase = "Rollback" =>
          (n.del => n.rollback) /\ (~ n.del => ~ n.fin /\ ~ m)
    <3>1. SUFFICES ASSUME n.live, n.phase = "Rollback"
                   PROVE  (n.del => n.rollback) /\ (~ n.del => ~ n.fin /\ ~ m)
      OBVIOUS
    <3>2. CASE p = "setRollback"
      BY <1>0, <3>1, <3>2 DEF WorkedTo, Fated, Fate
    <3>3. CASE p = "removeFinalizer"
      BY <1>0, <3>1, <3>3 DEF WorkedTo, Fated
    <3>4. QED
      BY <1>0, <1>3, <3>1, <3>2, <3>3 DEF WorkedTo, WriteSteps
  <2>3. q = "setRollback" => Fate(n, m)
    <3>1. q = "setRollback" => p = "setRollback"
      <4>1. n.phase \in Phases /\ n.fin \in BOOLEAN
        BY <1>0 DEF Content
      <4>2. NextStep(n) # "setRollback"
        BY <1>0, <4>1, Zenon DEF NextStep, Phases
      <4>3. QED
        BY <1>0, <4>2 DEF GoesOn
    <3>2. QED
      BY <1>0, <1>5, <3>1 DEF Fated
  <2>4. q # "removeFinalizer"
    <3>1. n.phase \in Phases /\ n.fin \in BOOLEAN
      BY <1>0 DEF Content
    <3>2. NextStep(n) # "removeFinalizer"
      BY <1>0, <3>1, Zenon DEF NextStep, Phases
    <3>3. QED
      BY <1>0, <3>2 DEF GoesOn
  <2>5. QED
    BY <1>1, <2>1, <2>2, <2>3, <2>4 DEF Fated
<1>7. Advances(c, n, s)
  <2>1. SUFFICES ASSUME ~ s, c.live, n.live PROVE Rank(c.phase) <= Rank(n.phase)
    BY <1>0 DEF Advances
  <2>2. g = "Completed" /\ c.phase \in Phases /\ n.phase \in Phases
    BY <1>0, <2>1 DEF Paced, Content
  <2>3. \/ c.phase = n.phase \/ c.phase = "" \/ n.phase = "Rollback"
        \/ c.phase = "Pending" /\ n.phase = "Creating"
        \/ c.phase # "Rollback" /\ n.phase = "Completed"
    BY <1>0, <1>3, <2>1, <2>2 DEF WorkedTo, WriteSteps
  <2>4. QED
    BY <2>2, <2>3, RankUp
<1>8. Releases(c, n, m)
  <2>1. SUFFICES ASSUME c.live, c.phase = "Rollback", ~ n.live PROVE ~ m
    BY <1>0 DEF Releases
  <2>2. p = "removeFinalizer" /\ k = c /\ c.del
    BY <1>0, <2>1 DEF WorkedTo
  <2>3. QED
    BY <1>0, <2>1, <2>2 DEF Fated
<1>9. QED
  BY <1>4, <1>6, <1>7, <1>8

(* The informer delivers: the cache can show less than before.             *)
LEMMA DeliverPaced ==
  ASSUME NEW c, NEW U, NEW l, NEW p, NEW k, NEW g, NEW s, NEW m, NEW obj \in U,
         Paced(c, U, l, p, k, g, s), Fated(c, U, l, p, k, m)
  PROVE  /\ Paced(c, U \ {obj}, obj, p, k, g, s)
         /\ Fated(c, U \ {obj}, obj, p, k, m)
<1>1. Known(U \ {obj}, obj) \subseteq Known(U, l)
  BY DEF Known
<1>2. QED
  BY <1>1 DEF Paced, Fated

(* A process that starts has seen the content as it is.                    *)
LEMMA StartPaced ==
  ASSUME NEW c, NEW U, NEW l, NEW p, NEW k, NEW g, NEW s, NEW m, Cached(c, U, l),
         Paced(c, U, l, p, k, g, s), Fated(c, U, l, p, k, m)
  PROVE  Paced(c, {}, c, "idle", Absent, g, s) /\ Fated(c, {}, c, "idle", Absent, m)
<1>1. Known({}, c) = {c} /\ c \in Known(U, l)
  BY DEF Known, Cached
<1>2. Paced(c, {}, c, "idle", Absent, g, s)
  BY <1>1 DEF Paced, Modifying
<1>3. Doomed(c) => Fate(c, m)
  BY DEF Doomed, Fate
<1>4. QED
  BY <1>1, <1>2, <1>3 DEF Fated

(* A sync begins with the cached content l.  One that goes on modifying    *)
(* found l protected, so the content is not being rolled back.             *)
LEMMA BeginPaced ==
  ASSUME NEW c \in Content, NEW U, NEW l \in Content, NEW p, NEW k, NEW g, NEW s,
         NEW m, NEW q, Cached(c, U, l), l.live,
         \/ l.del /\ q = DeleteStep(l)
         \/ ~ l.del /\ q = NextStep(l),
         Paced(c, U, l, p, k, g, s), Fated(c, U, l, p, k, m)
  PROVE  Paced(c, U, l, q, l, g, s) /\ Fated(c, U, l, q, l, m)
<1>1. l \in Known(U, l) /\ Shape(l) /\ l.phase \in Phases /\ l.fin \in BOOLEAN
  BY DEF Known, Cached, Content
<1>2. CASE l.del /\ q = DeleteStep(l)
  <2>1. /\ q \in DeleteSteps \cup {"idle"}
        /\ q = "setRollback" => l.rollback /\ l.phase \in {"Staging", "Completed"}
        /\ q = "removeFinalizer" /\ l.phase \in {"Staging", "Completed", "Rollback"} => ~ l.rollback
    BY <1>1, <1>2, ZenonT(60) DEF DeleteStep, DeleteSteps, Phases
  <2>2. Paced(c, U, l, q, l, g, s)
    BY <2>1 DEF Paced, DeleteSteps, Modifying
  <2>3. q = "setRollback" => Fate(c, m)
    BY <1>1, <1>2, <2>1 DEF Fated, Doomed
  <2>4. QED
    BY <2>1, <2>2, <2>3 DEF Fated
<1>3. CASE ~ l.del /\ q = NextStep(l)
  <2>1. /\ q \in {"setPending", "setFinalizer", "setCreating", "modify", "staged", "idle"}
        /\ q = "setPending" => l.phase = ""
        /\ q \in {"setFinalizer", "setCreating"} => l.phase = "Pending"
        /\ q \in {"modify", "staged"} => l.phase \in {"Creating", "Staging"}
    BY <1>1, <1>3, ZenonT(60) DEF NextStep, Phases
  <2>2. q \in Modifying => c.phase # "Rollback"
    <3>1. q \in Modifying => l.phase \in {"Creating", "Staging"}
      BY <2>1 DEF Modifying
    <3>2. q \in Modifying => l.fin /\ c.live
      BY <1>1, <1>3, <3>1 DEF Shape, Cached
    <3>3. QED
      BY <1>1, <1>3, <3>2 DEF Paced
  <2>3. Paced(c, U, l, q, l, g, s)
    BY <2>1, <2>2 DEF Paced, Modifying
  <2>4. QED
    BY <2>1, <2>3 DEF Fated
<1>4. QED
  BY <1>2, <1>3

(* A step that stores nothing.                                             *)
LEMMA MovePaced ==
  ASSUME NEW c, NEW U, NEW l, NEW p, NEW k, NEW g, NEW s \in BOOLEAN,
         NEW m \in BOOLEAN, NEW q, NEW j, NEW g1, NEW m1 \in BOOLEAN,
         Cached(c, U, l), Holding(c, U, l, p, k), MovesTo(p, k, m, q, j, m1),
         ~ s => g1 = "Completed",
         Paced(c, U, l, p, k, g, s), Fated(c, U, l, p, k, m)
  PROVE  Paced(c, U, l, q, j, g1, s) /\ Fated(c, U, l, q, j, m1)
<1>1. p = "modify" => c.live /\ c.fin /\ c.phase # "Rollback"
  BY DEF Holding, Paced, Modifying
<1>2. Fate(c, m) => Fate(c, m1)
  BY <1>1 DEF MovesTo, Fate
<1>3. Paced(c, U, l, q, j, g1, s)
  BY DEF Paced, MovesTo, Modifying
<1>4. /\ q = "removeFinalizer" => ~ m1
      /\ q = "setRollback" => Fate(c, m1)
  BY <1>2 DEF MovesTo, Fated
<1>5. c.live /\ c.phase = "Rollback" => (~ c.del => ~ m1)
  BY <1>1 DEF MovesTo, Fated
<1>6. QED
  BY <1>2, <1>3, <1>4, <1>5 DEF Fated

-----------------------------------------------------------------------------
(* The steps of ModifyContent.                                             *)

(* A step on v is one of the kinds above: it keeps v's order and both      *)
(* properties, and does nothing to the other volumes.                      *)
Acted(v) ==
  /\ Orderly(v)'
  /\ Advances(content[v], content'[v], san)
  /\ Releases(content[v], content'[v], metro'[v])

Apart(v) ==
  /\ san' = san
  /\ \A w \in Vols \ {v} :
       /\ content'[w] = content[w] /\ undelivered'[w] = undelivered[w]
       /\ lister'[w] = lister[w] /\ pc'[w] = pc[w] /\ copy'[w] = copy[w]
       /\ goal'[w] = goal[w] /\ metro'[w] = metro[w]

(* What a write from a current object stores.                              *)
LEMMA WrittenWorked ==
  ASSUME TypeOK, NEW v \in Vols, Good(v), pc[v] \in WriteSteps, Current(v, Base(v))
  PROVE  /\ Out(v) \in Content
         /\ WorkedTo(pc[v], goal[v], content[v], Out(v))
         /\ pc[v] \notin {"retryStatus", "setRollback"} => copy[v] = content[v]
         /\ pc[v] # "removeFinalizer" => NextStep(Written(v)) = NextStep(Out(v))
<1> DEFINE n == Out(v)
           c == content[v]
           l == lister[v]
           obj == Written(v)
<1>1. /\ c \in Content /\ l \in Content /\ obj \in Content /\ goal[v] \in {"Staging", "Completed"}
      /\ Cached(c, undelivered[v], l) /\ Holding(c, undelivered[v], l, pc[v], copy[v])
  BY WrittenContent DEF TypeOK, Good
<1>2. Base(v) = c /\ c.live /\ Shape(c) /\ (pc[v] \notin {"retryStatus", "setRollback"} => copy[v] = c)
  <2>1. c.live /\ c \in Known(undelivered[v], l) /\ Shape(c) /\ l \in Known(undelivered[v], l)
    BY <1>1 DEF Current, Cached, Known
  <2>2. CASE pc[v] \in {"retryStatus", "setRollback"}
    BY <1>1, <2>1, <2>2 DEF Base, Current, Cached
  <2>3. CASE pc[v] \notin {"retryStatus", "setRollback"}
    BY <1>1, <2>1, <2>3 DEF Base, Current, Holding
  <2>4. QED
    BY <2>1, <2>2, <2>3
<1>3. /\ n \in Content
      /\ obj.fin \/ ~ obj.del => n = [obj EXCEPT !.rv = c.rv + 1]
      /\ obj.del /\ ~ obj.fin => n = Blank(c.rv + 1, FALSE)
  BY <1>1, StoredContent, Zenon DEF Out
<1>4. /\ pc[v] = "setPending" => obj = [c EXCEPT !.phase = "Pending"]
      /\ pc[v] = "setFinalizer" => obj = [c EXCEPT !.fin = TRUE]
      /\ pc[v] = "setCreating" => obj = [c EXCEPT !.phase = "Creating"]
      /\ pc[v] \in {"setStatus", "retryStatus"} => obj = [c EXCEPT !.phase = goal[v]]
      /\ pc[v] = "setRollback" => obj = [c EXCEPT !.phase = "Rollback"]
      /\ pc[v] = "removeFinalizer" => obj = [c EXCEPT !.fin = FALSE]
  BY <1>2, Zenon DEF Written
<1>5. c.del => c.fin
  BY <1>2 DEF Shape
<1> HIDE DEF n, obj, c
<1>6. CASE pc[v] # "removeFinalizer"
  <2>1. /\ obj.live = c.live /\ obj.del = c.del /\ obj.rollback = c.rollback
        /\ pc[v] # "setFinalizer" => obj.fin = c.fin
        /\ pc[v] = "setFinalizer" => obj.fin /\ obj.phase = c.phase
        /\ pc[v] = "setPending" => obj.phase = "Pending"
        /\ pc[v] = "setCreating" => obj.phase = "Creating"
        /\ pc[v] \in {"setStatus", "retryStatus"} => obj.phase = goal[v]
        /\ pc[v] = "setRollback" => obj.phase = "Rollback"
    BY <1>1, <1>4, <1>6 DEF Content, WriteSteps
  <2>2. n = [obj EXCEPT !.rv = c.rv + 1]
    BY <1>3, <1>5, <2>1
  <2>3. /\ n.live = obj.live /\ n.del = obj.del /\ n.rollback = obj.rollback
        /\ n.fin = obj.fin /\ n.phase = obj.phase
    BY <1>1, <2>2 DEF Content
  <2>4. WorkedTo(pc[v], goal[v], c, n)
    BY <1>2, <1>6, <2>1, <2>3 DEF WorkedTo
  <2>5. NextStep(obj) = NextStep(n)
    BY <2>3, Zenon DEF NextStep
  <2>6. QED
    BY <1>2, <1>3, <1>6, <2>4, <2>5 DEF n, obj, c
<1>7. CASE pc[v] = "removeFinalizer"
  <2>1. obj.live = c.live /\ obj.del = c.del /\ ~ obj.fin /\ obj.phase = c.phase
    BY <1>1, <1>4, <1>7 DEF Content
  <2>2. c.del => ~ n.live
    BY <1>3, <2>1, BlankShape, Zenon
  <2>3. ~ c.del => n.live /\ ~ n.del /\ ~ n.fin /\ n.phase = c.phase
    BY <1>1, <1>2, <1>3, <2>1 DEF Content
  <2>4. WorkedTo(pc[v], goal[v], c, n)
    BY <1>1, <1>2, <1>7, <2>2, <2>3 DEF WorkedTo, Content
  <2>5. QED
    BY <1>2, <1>3, <1>7, <2>4 DEF n, c
<1>8. QED
  BY <1>6, <1>7

(* A write that is stored, after which the worker is at step holding k.    *)
LEMMA StoreActs ==
  ASSUME TypeOK, NEW v \in Vols, Good(v), Orderly(v),
         pc[v] \in WriteSteps, Current(v, Base(v)), Store(v, Written(v)),
         NEW step, NEW k, Continue(v, step, k),
         GoesOn(pc[v], copy[v], Out(v), step, k),
         UNCHANGED <<lister, goal, san, metro>>
  PROVE  Acted(v) /\ Apart(v)
<1>1. /\ content'[v] = Out(v) /\ undelivered'[v] = undelivered[v] \cup {Out(v)}
      /\ pc'[v] = step
      /\ step = "idle" => copy'[v] = Absent
      /\ step # "idle" => copy'[v] = k
      /\ Frame(v)
  BY StoreAndContinueAt
<1>2. GoesOn(pc[v], copy[v], Out(v), pc'[v], copy'[v])
  <2>1. CASE step = "idle"
    BY <1>1, <2>1 DEF GoesOn
  <2>2. CASE step # "idle"
    BY <1>1, <2>2
  <2>3. QED
    BY <2>1, <2>2
<1>3. /\ Out(v) \in Content
      /\ WorkedTo(pc[v], goal[v], content[v], Out(v))
      /\ pc[v] \notin {"retryStatus", "setRollback"} => copy[v] = content[v]
  BY WrittenWorked
<1>4. /\ content[v] \in Content /\ copy[v] \in Content /\ goal[v] \in {"Staging", "Completed"}
      /\ san \in BOOLEAN /\ metro[v] \in BOOLEAN
  BY DEF TypeOK
<1>5. /\ Paced(Out(v), undelivered[v] \cup {Out(v)}, lister[v], pc'[v], copy'[v], goal[v], san)
      /\ Fated(Out(v), undelivered[v] \cup {Out(v)}, lister[v], pc'[v], copy'[v], metro[v])
      /\ Advances(content[v], Out(v), san) /\ Releases(content[v], Out(v), metro[v])
  <2>1. /\ Cached(content[v], undelivered[v], lister[v])
        /\ Holding(content[v], undelivered[v], lister[v], pc[v], copy[v])
        /\ Paced(content[v], undelivered[v], lister[v], pc[v], copy[v], goal[v], san)
        /\ Fated(content[v], undelivered[v], lister[v], pc[v], copy[v], metro[v])
    BY DEF Good, Orderly
  <2>2. Working(content[v], undelivered[v], lister[v], Out(v), pc[v], copy[v], goal[v],
                san, metro[v], pc'[v], copy'[v])
    BY <1>2, <1>3, <1>4, <2>1, Zenon DEF Working
  <2>3. QED
    BY <2>2, WorkKeeps, Zenon
<1>6. Acted(v)
  BY <1>1, <1>5 DEF Acted, Orderly
<1>7. Apart(v)
  BY <1>1 DEF Apart, Frame
<1>8. QED
  BY <1>6, <1>7

(* A move of the worker that stores nothing.                               *)
LEMMA MoveActs ==
  ASSUME TypeOK, TypeOK', NEW v \in Vols, Good(v), Orderly(v),
         NEW step, NEW k, Continue(v, step, k),
         UNCHANGED <<content, undelivered, lister, san>>,
         MovesTo(pc[v], copy[v], metro[v], step, k, metro'[v]),
         ~ san => goal'[v] = "Completed",
         \A w \in Vols \ {v} : goal'[w] = goal[w] /\ metro'[w] = metro[w]
  PROVE  Acted(v) /\ Apart(v)
<1>1. /\ pc'[v] = step
      /\ step = "idle" => copy'[v] = Absent
      /\ step # "idle" => copy'[v] = k
      /\ \A w \in Vols \ {v} : pc'[w] = pc[w] /\ copy'[w] = copy[w]
  BY ContinueAt
<1>2. MovesTo(pc[v], copy[v], metro[v], pc'[v], copy'[v], metro'[v])
  BY <1>1 DEF MovesTo
<1>3. /\ content[v] \in Content /\ san \in BOOLEAN
      /\ metro[v] \in BOOLEAN /\ metro'[v] \in BOOLEAN
  BY DEF TypeOK
<1>4. /\ Paced(content[v], undelivered[v], lister[v], pc'[v], copy'[v], goal'[v], san)
      /\ Fated(content[v], undelivered[v], lister[v], pc'[v], copy'[v], metro'[v])
  <2>1. /\ Cached(content[v], undelivered[v], lister[v])
        /\ Holding(content[v], undelivered[v], lister[v], pc[v], copy[v])
        /\ Paced(content[v], undelivered[v], lister[v], pc[v], copy[v], goal[v], san)
        /\ Fated(content[v], undelivered[v], lister[v], pc[v], copy[v], metro[v])
    BY Zenon DEF Good, Orderly
  <2> DEFINE c == content[v]
             U == undelivered[v]
             l == lister[v]
             p == pc[v]
             k0 == copy[v]
             g == goal[v]
             m == metro[v]
             q == pc'[v]
             j == copy'[v]
             g1 == goal'[v]
             m1 == metro'[v]
  <2>2. /\ Cached(c, U, l) /\ Holding(c, U, l, p, k0) /\ MovesTo(p, k0, m, q, j, m1)
        /\ ~ san => g1 = "Completed"
        /\ Paced(c, U, l, p, k0, g, san) /\ Fated(c, U, l, p, k0, m)
        /\ san \in BOOLEAN /\ m \in BOOLEAN /\ m1 \in BOOLEAN
    BY <1>2, <1>3, <2>1
  <2> HIDE DEF c, U, l, p, k0, g, m, q, j, g1, m1
  <2>3. Paced(c, U, l, q, j, g1, san) /\ Fated(c, U, l, q, j, m1)
    BY <2>2, MovePaced, SMTT(30)
  <2>4. QED
    BY <2>3, Zenon DEF c, U, l, p, k0, g, m, q, j, g1, m1
<1>5. Advances(content[v], content[v], san) /\ Releases(content[v], content[v], metro'[v])
  <2>1. content[v].phase \in Phases
    BY <1>3 DEF Content
  <2>2. QED
    BY <2>1, RankUp DEF Advances, Releases
<1>6. Acted(v)
  BY <1>4, <1>5 DEF Acted, Orderly
<1>7. Apart(v)
  BY <1>1 DEF Apart
<1>8. QED
  BY <1>6, <1>7

(* A sync begins.                                                          *)
LEMMA SyncActs ==
  ASSUME TypeOK, NEW v \in Vols, Good(v), Orderly(v), SyncContent(v)
  PROVE  Acted(v) /\ Apart(v)
<1> DEFINE c == content[v]
           U == undelivered[v]
           l == lister[v]
<1>1. /\ c \in Content /\ l \in Content /\ l.live /\ c.phase \in Phases
      /\ UNCHANGED <<content, undelivered, lister, goal, san, metro>>
  BY DEF TypeOK, SyncContent, Begin, serverVars, cacheVars, arrayVars, Content
<1>2. PICK q : /\ \/ l.del /\ q = DeleteStep(l)
                  \/ ~ l.del /\ q = NextStep(l)
               /\ q # "idle" /\ Continue(v, q, l)
  BY DEF SyncContent, Begin
<1>3. /\ pc'[v] = q /\ copy'[v] = l
      /\ \A w \in Vols \ {v} : pc'[w] = pc[w] /\ copy'[w] = copy[w]
  BY <1>2, ContinueAt
<1>4. Paced(c, U, l, q, l, goal[v], san) /\ Fated(c, U, l, q, l, metro[v])
  <2>1. Cached(c, U, l)
    BY DEF Good
  <2>2. /\ Paced(c, U, l, pc[v], copy[v], goal[v], san)
        /\ Fated(c, U, l, pc[v], copy[v], metro[v])
    BY DEF Orderly
  <2> HIDE DEF c, U, l
  <2>3. QED
    BY <1>1, <1>2, <2>1, <2>2, BeginPaced
<1>5. Orderly(v)'
  BY <1>1, <1>3, <1>4 DEF Orderly
<1>6. Advances(c, c, san) /\ Releases(c, c, metro'[v])
  BY <1>1, RankUp DEF Advances, Releases
<1>7. Acted(v)
  BY <1>1, <1>5, <1>6 DEF Acted
<1>8. QED
  BY <1>1, <1>3, <1>7 DEF Apart

(* setPending, setFinalizer, setCreating and setStatus.                    *)
LEMMA WriteActs ==
  ASSUME TypeOK, TypeOK', NEW v \in Vols, Good(v), Orderly(v),
         pc[v] \in {"setPending", "setFinalizer", "setCreating", "setStatus"},
         NEW failed, Write(v, Written(v), failed),
         failed = IF pc[v] = "setStatus" THEN "retryStatus" ELSE "idle"
  PROVE  Acted(v) /\ Apart(v)
<1>1. UNCHANGED <<lister, goal, san, metro>>
  BY DEF Write, cacheVars, arrayVars
<1>2. CASE Current(v, copy[v])
  <2>1. Store(v, Written(v)) /\ Continue(v, NextStep(Written(v)), Out(v))
    BY <1>2 DEF Write, Out
  <2>2. pc[v] \in WriteSteps /\ Current(v, Base(v))
    BY <1>2 DEF WriteSteps, Base
  <2>3. NextStep(Written(v)) = NextStep(Out(v))
    BY <2>2, WrittenWorked
  <2>4. GoesOn(pc[v], copy[v], Out(v), NextStep(Written(v)), Out(v))
    BY <2>3 DEF GoesOn
  <2>5. QED
    BY <1>1, <2>1, <2>2, <2>4, StoreActs
<1>3. CASE ~ Current(v, copy[v])
  <2>1. Continue(v, failed, copy[v]) /\ UNCHANGED <<content, undelivered>>
    BY <1>3 DEF Write, Goto, serverVars
  <2>2. MovesTo(pc[v], copy[v], metro[v], failed, copy[v], metro'[v])
    BY <1>1 DEF MovesTo, Modifying
  <2>3. ~ san => goal'[v] = "Completed"
    BY <1>1 DEF Orderly, Paced
  <2>4. QED
    BY <1>1, <2>1, <2>2, <2>3, MoveActs
<1>4. QED
  BY <1>2, <1>3

(* updateStatusWithRetry.                                                  *)
LEMMA RetryActs ==
  ASSUME TypeOK, NEW v \in Vols, Good(v), Orderly(v), NEW phase, NEW step,
         \/ /\ pc[v] = "retryStatus" /\ phase = goal[v]
            /\ step = IF goal[v] = "Staging" THEN "staged" ELSE "idle"
         \/ pc[v] = "setRollback" /\ phase = "Rollback" /\ step = "rollback",
         WriteWithRetry(v, phase, step)
  PROVE  Acted(v) /\ Apart(v)
<1>1. /\ [lister[v] EXCEPT !.phase = phase] = Written(v)
      /\ Base(v) = lister[v] /\ pc[v] \in WriteSteps
  <2>1. CASE pc[v] = "retryStatus"
    BY <2>1 DEF Written, Base, WriteSteps
  <2>2. CASE pc[v] = "setRollback"
    BY <2>2 DEF Written, Base, WriteSteps
  <2>3. QED
    BY <2>1, <2>2
<1>2. /\ Store(v, Written(v)) /\ Continue(v, step, Out(v)) /\ Current(v, Base(v))
      /\ UNCHANGED <<lister, goal, san, metro>>
  BY <1>1 DEF WriteWithRetry, Out, cacheVars, arrayVars
<1>3. WorkedTo(pc[v], goal[v], content[v], Out(v))
  BY <1>1, <1>2, WrittenWorked
<1>4. GoesOn(pc[v], copy[v], Out(v), step, Out(v))
  BY <1>3 DEF GoesOn, WorkedTo
<1>5. QED
  BY <1>1, <1>2, <1>4, StoreActs

(* A worker goes on with the same copy and stores nothing.                 *)
LEMMA GotoActs ==
  ASSUME TypeOK, TypeOK', NEW v \in Vols, Good(v), Orderly(v), NEW step, Goto(v, step),
         UNCHANGED <<content, undelivered, lister, san>>,
         MovesTo(pc[v], copy[v], metro[v], step, copy[v], metro'[v]),
         goal'[v] \in {goal[v], "Completed"} \/ san,
         \A w \in Vols \ {v} : goal'[w] = goal[w] /\ metro'[w] = metro[w]
  PROVE  Acted(v) /\ Apart(v)
<1>1. ~ san => goal'[v] = "Completed"
  BY DEF Orderly, Paced
<1>2. Continue(v, step, copy[v])
  BY DEF Goto
<1>3. QED
  BY <1>1, <1>2, MoveActs

(* The steps of a sync act orderly.                                        *)
LEMMA WorksAct ==
  ASSUME TypeOK, TypeOK', NEW v \in Vols, Good(v), Orderly(v), Works(v)
  PROVE  Acted(v) /\ Apart(v)
<1>1. CASE SyncContent(v)
  BY <1>1, SyncActs
<1>2. CASE SetPending(v)
  <2>1. pc[v] = "setPending" /\ Write(v, Written(v), "idle")
    BY <1>2 DEF SetPending, Written, Base
  <2>2. QED
    BY <2>1, WriteActs
<1>3. CASE SetFinalizer(v)
  <2>1. pc[v] = "setFinalizer" /\ Write(v, Written(v), "idle")
    BY <1>3 DEF SetFinalizer, Written, Base
  <2>2. QED
    BY <2>1, WriteActs
<1>4. CASE SetCreating(v)
  <2>1. pc[v] = "setCreating" /\ Write(v, Written(v), "idle")
    BY <1>4 DEF SetCreating, Written, Base
  <2>2. QED
    BY <2>1, WriteActs
<1>5. CASE SetStatus(v)
  <2>1. pc[v] = "setStatus" /\ Write(v, Written(v), "retryStatus")
    BY <1>5 DEF SetStatus, Written, Base
  <2>2. QED
    BY <2>1, WriteActs
<1>6. CASE RetryStatus(v)
  BY <1>6, RetryActs DEF RetryStatus
<1>7. CASE ModifyVolume(v)
  <2>1. /\ pc[v] = "modify" /\ Goto(v, "setStatus")
        /\ UNCHANGED <<content, undelivered, lister, san>>
        /\ goal'[v] = "Completed" \/ san
        /\ \A w \in Vols \ {v} : goal'[w] = goal[w] /\ metro'[w] = metro[w]
    BY <1>7, SMTT(30) DEF ModifyVolume, serverVars, cacheVars, TypeOK
  <2>2. MovesTo(pc[v], copy[v], metro[v], "setStatus", copy[v], metro'[v])
    BY <2>1 DEF MovesTo, Modifying
  <2>3. QED
    BY <2>1, <2>2, GotoActs
<1>8. CASE Undo(v)
  <2>1. /\ pc[v] = "undo" /\ Goto(v, "idle")
        /\ UNCHANGED <<content, undelivered, lister, goal, san>>
        /\ metro'[v] = (san /\ metro[v])
        /\ \A w \in Vols \ {v} : metro'[w] = metro[w]
    BY <1>8, SMTT(30) DEF Undo, serverVars, cacheVars, TypeOK
  <2>2. MovesTo(pc[v], copy[v], metro[v], "idle", copy[v], metro'[v])
    BY <2>1 DEF MovesTo
  <2>3. QED
    BY <2>1, <2>2, GotoActs
<1>9. CASE WaitStaged(v)
  <2>1. /\ pc[v] = "staged"
        /\ \/ Goto(v, "idle") /\ goal' = goal
           \/ Goto(v, "setStatus") /\ goal' = [goal EXCEPT ![v] = "Completed"]
        /\ UNCHANGED <<content, undelivered, lister, san, metro>>
    BY <1>9 DEF WaitStaged, serverVars, cacheVars, arrayVars
  <2>2. /\ goal'[v] \in {goal[v], "Completed"}
        /\ \A w \in Vols \ {v} : goal'[w] = goal[w]
    BY <2>1 DEF TypeOK
  <2>3. ASSUME NEW step \in {"idle", "setStatus"}
        PROVE  MovesTo(pc[v], copy[v], metro[v], step, copy[v], metro'[v])
    BY <2>1 DEF MovesTo, Modifying
  <2>4. QED
    BY <2>1, <2>2, <2>3, GotoActs
<1>10. CASE SetRollback(v)
  <2>1. CASE WriteWithRetry(v, "Rollback", "rollback")
    BY <1>10, <2>1, RetryActs DEF SetRollback
  <2>2. CASE Goto(v, "idle") /\ UNCHANGED <<serverVars, cacheVars, goal, arrayVars, faultVars>>
    <3>1. MovesTo(pc[v], copy[v], metro[v], "idle", copy[v], metro'[v])
      BY <2>2 DEF MovesTo, arrayVars
    <3>2. QED
      BY <2>2, <3>1, GotoActs DEF serverVars, cacheVars, arrayVars
  <2>3. QED
    BY <1>10, <2>1, <2>2 DEF SetRollback
<1>11. CASE Rollback(v)
  <2> DEFINE step == IF san THEN "idle" ELSE "removeFinalizer"
  <2>1. /\ pc[v] = "rollback" /\ Goto(v, step)
        /\ UNCHANGED <<content, undelivered, lister, goal, san>>
        /\ metro'[v] = (san /\ metro[v])
        /\ \A w \in Vols \ {v} : metro'[w] = metro[w]
    BY <1>11, SMTT(30) DEF Rollback, serverVars, cacheVars, TypeOK
  <2>2. MovesTo(pc[v], copy[v], metro[v], step, copy[v], metro'[v])
    BY <2>1 DEF MovesTo
  <2> HIDE DEF step
  <2>3. QED
    BY <2>1, <2>2, GotoActs
<1>12. CASE RemoveFinalizer(v)
  <2>1. /\ pc[v] = "removeFinalizer" /\ Continue(v, "idle", copy[v])
        /\ UNCHANGED <<lister, goal, san, metro>>
    BY <1>12 DEF RemoveFinalizer, Goto, cacheVars, arrayVars
  <2>2. CASE Current(v, copy[v])
    <3>1. Store(v, Written(v)) /\ Current(v, Base(v)) /\ pc[v] \in WriteSteps
      BY <1>12, <2>2 DEF RemoveFinalizer, Written, Base, WriteSteps
    <3>2. GoesOn(pc[v], copy[v], Out(v), "idle", copy[v])
      BY DEF GoesOn
    <3>3. QED
      BY <2>1, <3>1, <3>2, StoreActs
  <2>3. CASE ~ Current(v, copy[v])
    <3>1. UNCHANGED <<content, undelivered>> /\ Goto(v, "idle")
      BY <1>12, <2>3 DEF RemoveFinalizer, serverVars
    <3>2. MovesTo(pc[v], copy[v], metro[v], "idle", copy[v], metro'[v])
      BY <2>1 DEF MovesTo
    <3>3. QED
      BY <2>1, <3>1, <3>2, GotoActs
  <2>4. QED
    BY <2>2, <2>3
<1>13. QED
  BY <1>1, <1>2, <1>3, <1>4, <1>5, <1>6, <1>7, <1>8, <1>9, <1>10, <1>11, <1>12 DEF Works

(* So does a call that fails, carried out or not.                          *)
LEMMA CallFailsActs ==
  ASSUME TypeOK, TypeOK', NEW v \in Vols, Good(v), Orderly(v), CallFails(v)
  PROVE  Acted(v) /\ Apart(v)
<1>1. PICK step \in AfterError(v) : Goto(v, step)
  BY DEF CallFails
<1>2. \/ step = "idle"
      \/ pc[v] \in {"setStatus", "retryStatus"} /\ step \in {"retryStatus", "undo"}
      \/ pc[v] = "setRollback" /\ step = "setRollback"
  BY DEF AfterError
<1>3. UNCHANGED <<lister, goal, san>>
  BY DEF CallFails, cacheVars
<1>4. ASSUME UNCHANGED <<content, undelivered>>, metro'[v] => metro[v] \/ pc[v] = "modify",
             \A w \in Vols \ {v} : metro'[w] = metro[w]
      PROVE  Acted(v) /\ Apart(v)
  <2>1. MovesTo(pc[v], copy[v], metro[v], step, copy[v], metro'[v])
    BY <1>2, <1>4 DEF MovesTo, Modifying
  <2>2. QED
    BY <1>1, <1>3, <1>4, <2>1, GotoActs
<1>5. CASE UNCHANGED <<serverVars, metro, label>>
  BY <1>4, <1>5 DEF serverVars
<1>6. CASE /\ pc[v] \in WriteSteps /\ Current(v, Base(v)) /\ Store(v, Written(v))
           /\ UNCHANGED <<metro, label>>
  <2>1. GoesOn(pc[v], copy[v], Out(v), step, copy[v])
    BY <1>2 DEF GoesOn
  <2>2. Continue(v, step, copy[v])
    BY <1>1 DEF Goto
  <2>3. QED
    BY <1>3, <1>6, <2>1, <2>2, StoreActs
<1>7. CASE pc[v] = "modify" /\ metro' = [metro EXCEPT ![v] = TRUE] /\ UNCHANGED serverVars
  BY <1>4, <1>7 DEF serverVars, TypeOK
<1>8. CASE metro' = [metro EXCEPT ![v] = FALSE] /\ UNCHANGED serverVars
  BY <1>4, <1>8, SMTT(30) DEF serverVars, TypeOK
<1>9. QED
  BY <1>5, <1>6, <1>7, <1>8 DEF CallFails

(* The claim worker and the users create, annotate, delete and edit.       *)
LEMMA EnvironmentEdits ==
  ASSUME TypeOK, NEW v \in Vols, Good(v), Environment(v)
  PROVE  \E obj \in Content :
           /\ Store(v, obj)
           /\ Stored(v, obj) \in Content
           /\ EditedTo(content[v], Stored(v, obj))
<1> DEFINE c == content[v]
<1>1. c \in Content /\ Shape(c)
  BY DEF TypeOK, Good, Cached
<1>2. ASSUME NEW obj \in Content
      PROVE  /\ Stored(v, obj) \in Content
             /\ obj.fin \/ ~ obj.del => Stored(v, obj) = [obj EXCEPT !.rv = c.rv + 1]
             /\ obj.del /\ ~ obj.fin => Stored(v, obj) = Blank(c.rv + 1, FALSE)
  BY <1>1, StoredContent, Zenon
<1>3. CASE CreateContent(v)
  <2> DEFINE obj == Blank(0, TRUE)
             n == Stored(v, obj)
  <2>1. ~ c.live /\ Store(v, obj) /\ obj \in Content
    BY <1>3, AbsentContent, Zenon DEF CreateContent, CreateObject
  <2>2. n = [obj EXCEPT !.rv = c.rv + 1]
    BY <1>2, <2>1, AbsentContent, Zenon
  <2>3. n.live /\ ~ n.fin /\ ~ n.del /\ n.phase = ""
    BY <2>2, ZenonT(60) DEF Blank
  <2> HIDE DEF obj, n
  <2>4. EditedTo(c, n)
    BY <2>1, <2>3 DEF EditedTo
  <2>5. QED
    BY <1>2, <2>1, <2>4, Zenon DEF n
<1>4. ASSUME c.live, NEW obj \in Content, Store(v, obj), obj.live,
             obj.fin = c.fin, obj.del = c.del, obj.phase = c.phase,
             c.rollback => obj.rollback
      PROVE  EditedTo(c, Stored(v, obj))
  <2> DEFINE n == Stored(v, obj)
  <2>1. obj.fin \/ ~ obj.del
    BY <1>1, <1>4 DEF Shape
  <2>2. n = [obj EXCEPT !.rv = c.rv + 1]
    BY <1>2, <2>1
  <2> HIDE DEF n
  <2>3. /\ n.live /\ n.fin = c.fin /\ n.del = c.del /\ n.phase = c.phase
        /\ c.rollback => n.rollback
    BY <1>4, <2>2 DEF Content
  <2>4. QED
    BY <1>4, <2>3 DEF EditedTo, n
<1>5. CASE AnnotateContent(v)
  <2> DEFINE obj == [c EXCEPT !.rollback = TRUE]
  <2>1. c.live /\ Store(v, obj) /\ obj \in Content
    BY <1>1, <1>5, EditedContent, Zenon DEF AnnotateContent, AnnotateObject
  <2>2. obj.live /\ obj.fin = c.fin /\ obj.del = c.del /\ obj.phase = c.phase /\ obj.rollback
    BY <1>1, <2>1 DEF Content
  <2> HIDE DEF obj
  <2>3. QED
    BY <1>2, <1>4, <2>1, <2>2
<1>6. CASE EditContent(v)
  <2> DEFINE obj == [c EXCEPT !.edited = TRUE]
  <2>1. c.live /\ Store(v, obj) /\ obj \in Content
    BY <1>1, <1>6, EditedContent, Zenon DEF EditContent
  <2>2. /\ obj.live /\ obj.fin = c.fin /\ obj.del = c.del /\ obj.phase = c.phase
        /\ obj.rollback = c.rollback
    BY <1>1, <2>1 DEF Content
  <2> HIDE DEF obj
  <2>3. QED
    BY <1>2, <1>4, <2>1, <2>2
<1>7. CASE DeleteContent(v)
  <2> DEFINE obj == [c EXCEPT !.del = TRUE]
             n == Stored(v, obj)
  <2>1. c.live /\ ~ c.del /\ Store(v, obj) /\ obj \in Content
    BY <1>1, <1>7, EditedContent, Zenon DEF DeleteContent, DeleteObject
  <2>2. /\ obj.live /\ obj.fin = c.fin /\ obj.del /\ obj.phase = c.phase
        /\ obj.rollback = c.rollback
    BY <1>1, <2>1 DEF Content
  <2> HIDE DEF obj
  <2>3. /\ n \in Content
        /\ obj.fin => n = [obj EXCEPT !.rv = c.rv + 1]
        /\ ~ obj.fin => n = Blank(c.rv + 1, FALSE)
    BY <1>2, <2>1, <2>2, Zenon
  <2> HIDE DEF n
  <2>4. CASE c.fin
    <3>1. n.live /\ n.fin = c.fin /\ n.del /\ n.phase = c.phase /\ n.rollback = c.rollback
      BY <2>1, <2>2, <2>3, <2>4 DEF Content
    <3>2. EditedTo(c, n)
      BY <2>1, <2>4, <3>1 DEF EditedTo
    <3>3. QED
      BY <2>1, <2>3, <3>2 DEF n
  <2>5. CASE ~ c.fin
    <3>1. ~ n.live
      BY <2>2, <2>3, <2>5, BlankShape, Zenon
    <3>2. EditedTo(c, n)
      BY <2>1, <2>5, <3>1 DEF EditedTo
    <3>3. QED
      BY <2>1, <2>3, <3>2 DEF n
  <2>6. QED
    BY <2>4, <2>5
<1>8. QED
  BY <1>3, <1>5, <1>6, <1>7 DEF Environment

(* So do the claim worker and the users.                                   *)
LEMMA EnvironmentActs ==
  ASSUME TypeOK, NEW v \in Vols, Good(v), Orderly(v), Environment(v)
  PROVE  Acted(v) /\ Apart(v)
<1> DEFINE c == content[v]
           U == undelivered[v]
           l == lister[v]
           p == pc[v]
           k == copy[v]
           g == goal[v]
           m == metro[v]
<1>1. PICK obj \in Content : /\ Store(v, obj)
                             /\ Stored(v, obj) \in Content
                             /\ EditedTo(content[v], Stored(v, obj))
  BY EnvironmentEdits
<1> DEFINE n == Stored(v, obj)
<1>2. UNCHANGED <<lister, pc, copy, goal, san, metro>>
  BY DEF Environment, CreateContent, AnnotateContent, DeleteContent, EditContent,
         cacheVars, workerVars, arrayVars
<1>3. /\ content'[v] = n /\ undelivered'[v] = U \cup {n}
      /\ \A w \in Vols \ {v} : content'[w] = content[w] /\ undelivered'[w] = undelivered[w]
  BY <1>1, StoreAt
<1>4. /\ c \in Content /\ san \in BOOLEAN /\ m \in BOOLEAN
      /\ Cached(c, U, l) /\ Holding(c, U, l, p, k)
      /\ Paced(c, U, l, p, k, g, san) /\ Fated(c, U, l, p, k, m)
  BY DEF TypeOK, Good, Orderly
<1>5. n \in Content /\ EditedTo(c, n)
  BY <1>1
<1>6. /\ Paced(n, U \cup {n}, l, p, k, g, san) /\ Fated(n, U \cup {n}, l, p, k, m)
      /\ Advances(c, n, san) /\ Releases(c, n, m)
  <2> HIDE DEF c, U, l, p, k, g, m, n
  <2>1. QED
    BY <1>4, <1>5, EditKeeps, SMTT(30)
<1>7. Acted(v)
  BY <1>2, <1>3, <1>6 DEF Acted, Orderly
<1>8. Apart(v)
  BY <1>2, <1>3 DEF Apart
<1>9. QED
  BY <1>7, <1>8

(* A step that leaves a volume's content, its record in the cache and its  *)
(* worker alone.                                                           *)
LEMMA StillActs ==
  ASSUME TypeOK, NEW v \in Vols, Orderly(v), san' = san,
         content'[v] = content[v], undelivered'[v] = undelivered[v],
         lister'[v] = lister[v], pc'[v] = pc[v], copy'[v] = copy[v],
         goal'[v] = goal[v], metro'[v] = metro[v]
  PROVE  Acted(v)
<1>1. content[v].phase \in Phases
  BY DEF TypeOK, Content
<1>2. Advances(content[v], content[v], san) /\ Releases(content[v], content[v], metro'[v])
  BY <1>1, RankUp DEF Advances, Releases
<1>3. QED
  BY <1>2 DEF Acted, Orderly

(* So do the informers and the nodes.                                      *)
LEMMA InformersAct ==
  ASSUME TypeOK, NEW v \in Vols, Orderly(v), Informers(v)
  PROVE  Acted(v) /\ Apart(v)
<1>1. CASE SyncLister(v)
  <2>1. PICK obj \in undelivered[v] :
          /\ lister' = [lister EXCEPT ![v] = obj]
          /\ undelivered' = [undelivered EXCEPT ![v] = @ \ {obj}]
          /\ UNCHANGED <<content, workerVars, arrayVars>>
    BY <1>1, Zenon DEF SyncLister
  <2>2. /\ lister'[v] = obj /\ undelivered'[v] = undelivered[v] \ {obj}
        /\ UNCHANGED <<content, pc, copy, goal, san, metro>>
        /\ Apart(v)
    BY <2>1 DEF TypeOK, workerVars, arrayVars, Apart
  <2>3. /\ Paced(content[v], undelivered[v] \ {obj}, obj, pc[v], copy[v], goal[v], san)
        /\ Fated(content[v], undelivered[v] \ {obj}, obj, pc[v], copy[v], metro[v])
    BY <2>1, DeliverPaced DEF Orderly
  <2>4. Orderly(v)'
    BY <2>2, <2>3 DEF Orderly
  <2>5. content[v].phase \in Phases
    BY DEF TypeOK, Content
  <2>6. Advances(content[v], content[v], san) /\ Releases(content[v], content[v], metro'[v])
    BY <2>5, RankUp DEF Advances, Releases
  <2>7. QED
    BY <2>2, <2>4, <2>6 DEF Acted
<1>2. CASE SyncLabel(v) \/ HandleVA(v)
  <2>1. UNCHANGED <<content, undelivered, lister, pc, copy, goal, san, metro>>
    BY <1>2 DEF SyncLabel, HandleVA, serverVars, cacheVars, workerVars, arrayVars
  <2>2. QED
    BY <2>1, StillActs DEF Apart
<1>3. QED
  BY <1>1, <1>2 DEF Informers

(* A process that starts lists the contents afresh.                        *)
LEMMA StartActs ==
  ASSUME TypeOK, NEW v \in Vols, Good(v), Orderly(v), ProcessStarts
  PROVE  Acted(v)
<1>1. /\ undelivered'[v] = {} /\ lister'[v] = content[v]
      /\ pc'[v] = "idle" /\ copy'[v] = Absent
      /\ UNCHANGED <<content, goal, san, metro>>
  BY DEF ProcessStarts, TypeOK, arrayVars
<1>2. /\ Paced(content[v], {}, content[v], "idle", Absent, goal[v], san)
      /\ Fated(content[v], {}, content[v], "idle", Absent, metro[v])
  BY StartPaced DEF Good, Orderly
<1>3. content[v].phase \in Phases
  BY DEF TypeOK, Content
<1>4. Advances(content[v], content[v], san) /\ Releases(content[v], content[v], metro'[v])
  BY <1>3, RankUp DEF Advances, Releases
<1>5. QED
  BY <1>1, <1>2, <1>4 DEF Acted, Orderly

-----------------------------------------------------------------------------
(* The inductive invariant and what it shows.                              *)

(* The invariant holds at first.                                           *)
LEMMA PInvInit == Init => PInv
<1> SUFFICES ASSUME Init PROVE PInv
  OBVIOUS
<1>1. IInv
  BY IInvInit
<1>2. ASSUME NEW v \in Vols PROVE Orderly(v)
  <2>1. /\ content[v] = Absent /\ undelivered[v] = {} /\ lister[v] = Absent
        /\ pc[v] = "idle" /\ copy[v] = Absent /\ goal[v] = "Completed"
    BY <1>2 DEF Init
  <2>2. ~ Absent.live /\ Known({}, Absent) = {Absent}
    BY AbsentContent DEF Known
  <2>3. Paced(Absent, {}, Absent, "idle", Absent, "Completed", san)
    BY <2>2 DEF Paced, Modifying
  <2>4. Fated(Absent, {}, Absent, "idle", Absent, metro[v])
    BY <2>2 DEF Fated, Doomed
  <2>5. QED
    BY <2>1, <2>3, <2>4 DEF Orderly
<1>3. QED
  BY <1>1, <1>2 DEF PInv

(* Every step of the controller and of its surroundings acts orderly on    *)
(* every volume.                                                           *)
LEMMA PInvActs == PInv /\ [Next]_vars => PInv' /\ \A v \in Vols : Acted(v)
<1> SUFFICES ASSUME PInv, [Next]_vars PROVE PInv' /\ \A v \in Vols : Acted(v)
  OBVIOUS
<1>1. /\ IInv' /\ TypeOK /\ TypeOK'
      /\ \A v \in Vols : Good(v) /\ Orderly(v)
  BY IInvStep, TypeStep DEF PInv, IInv
<1>2. SUFFICES \A v \in Vols : Acted(v)
  BY <1>1 DEF PInv, Acted
<1>3. ASSUME NEW v \in Vols, Works(v) \/ CallFails(v) \/ Informers(v) \/ Environment(v)
      PROVE  \A w \in Vols : Acted(w)
  <2>1. Acted(v) /\ Apart(v)
    BY <1>1, <1>3, WorksAct, CallFailsActs, InformersAct, EnvironmentActs
  <2>2. ASSUME NEW w \in Vols, w # v PROVE Acted(w)
    BY <1>1, <2>1, <2>2, StillActs DEF Apart
  <2>3. QED
    BY <2>1, <2>2
<1>4. CASE ProcessStarts
  BY <1>1, <1>4, StartActs
<1>5. ASSUME NEW v \in Vols, Panics(v) PROVE ProcessStarts
  BY <1>5 DEF Panics, SyncOrphan, RetryPanics, Panic
<1>6. CASE ClaimChanges \/ UNCHANGED vars
  <2>1. UNCHANGED <<content, undelivered, lister, pc, copy, goal, san, metro>>
    BY <1>6 DEF ClaimChanges, serverVars, workerVars, arrayVars, vars
  <2>2. QED
    BY <1>1, <2>1, StillActs
<1>7. CASE Restart
  BY <1>4, <1>7 DEF Restart
<1>8. QED
  BY <1>3, <1>4, <1>5, <1>6, <1>7 DEF Next, Worker

(* It always holds.                                                        *)
LEMMA PInvAlways == Spec => []PInv
  BY PInvInit, PInvActs, PTL DEF Spec

(* As long as a filesystem's content exists its phase never goes back,     *)
(* whatever stale copy a sync of syncContentWork started from, whichever   *)
(* calls fail and whenever the controller restarts.                        *)
THEOREM PhasesNeverRegress == Spec => PhaseNeverRegresses
<1>1. PInv /\ [Next]_vars =>
        [\A v \in Vols : ~ san /\ content[v].live /\ content'[v].live =>
           Rank(content[v].phase) <= Rank(content'[v].phase)]_vars
  BY PInvActs DEF Acted, Advances
<1>2. QED
  BY <1>1, PInvAlways, PTL DEF Spec, PhaseNeverRegresses

(* rollbackContent: a content that reached phase Rollback disappears only  *)
(* with its volume taken out of HyperMetro, even when the phase was        *)
(* written from a stale cache onto a content created again.                *)
THEOREM RollbackPrecedesRemoval == Spec => RemovedAfterRollback
<1>1. PInv /\ [Next]_vars =>
        [\A v \in Vols :
           (content[v].live /\ content[v].phase = "Rollback" /\ ~ content'[v].live)
             => ~ metro'[v]]_vars
  BY PInvActs DEF Acted, Releases
<1>2. QED
  BY <1>1, PInvAlways, PTL DEF Spec, RemovedAfterRollback
=============================================================================
