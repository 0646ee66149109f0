------------------------ MODULE RestSessionPrograms ------------------------
(***************************************************************************)
(* Proofs about RestSession, for any number of goroutines, calls, faults,  *)
(* permits and sessions.                                                   *)
(*                                                                         *)
(* A goroutine's control state is the sequence of steps it has yet to take *)
(* and a step drops some of them and may put others in front.  The         *)
(* invariant says which step may stand before which in such a sequence;    *)
(* every clause survives dropping a prefix, and putting in front what      *)
(* ReLogin, Login or a resend puts there.                                  *)
(***************************************************************************)
EXTENDS RestSession, SequenceTheorems, TLAPS

Carry     == {"call", "safe"}
Whats     == Carry \cup {"system", "login", "logout"}
CallSteps == {"Client", "GetRequest", "Acquire", "Device", "AcquireDevice", "DeferDevice", "AcquireKey",
              "safeDoCall", "Do", "Release", "Retry", "Finish"}
OtherSteps == {"LoggedOut", "Reset", "LoggedIn", "OldToken", "Lock", "Refresh", "Unlock", "SetToken", "GiveUp"}
Steps     == (CallSteps \X Whats) \cup (OtherSteps \X Nat)

Reqs == [tok : Nat, dev : SNs \cup {""}]
Goroutines ==
    [todo : Seq(Steps), req : Reqs, old : Nat, new : Nat, own : Reqs,
     key : SNs \cup {"", "none", "uninit"},
     res : {"ok", "err", "refused", "unconnected", "rejected", "panic"},
     ran : Nat, lost : BOOLEAN, away : BOOLEAN, at : SNs, info : BOOLEAN, n : Nat]
ClientStates ==
    [tok : Nat, dev : SNs \cup {""}, nil : BOOLEAN, refreshing : BOOLEAN, lif : SNs, site : SNs,
     online : BOOLEAN, mutex : SUBSET Threads, sem : SUBSET Threads, dsem : [SNs \cup {"uninit"} -> Nat]]
Arrays ==
    [at : SNs, live : SUBSET Nat, of : [1..MaxLogins -> SNs], n : Nat, faults : Nat,
     why : SUBSET {"login", "drop", "garble", "expire", "move"}]

Types == /\ cfg \in Clients
         /\ cli \in ClientStates
         /\ arr \in Arrays
         /\ thr \in [Threads -> Goroutines]

-----------------------------------------------------------------------------
Critical == {"Reset", "LoggedIn", "SetToken", "Unlock"}    \* steps under ReLoginMutex
Has(s, names)  == \E i \in 1..Len(s) : s[i][1] \in names
DoesCarry(s)   == \E i \in 1..Len(s) : s[i][1] = "Do" /\ s[i][2] \in Carry
MayResend(s)   == \E i \in 1..Len(s) : s[i][1] = "Retry" /\ s[i][2] \in Carry

(* Nothing critical follows the unlock or a call; a session is taken over  *)
(* in the step that follows the login's answer.                            *)
SectionEnds(s) ==
    /\ \A i, j \in 1..Len(s) : i < j /\ s[i][1] \in {"Unlock", "Retry"} => s[j][1] \notin Critical
    /\ \A i \in 1..Len(s) : s[i][1] = "SetToken" => i = 1

(* Between a login's answer and its evaluation nothing else is asked, and  *)
(* every evaluation is of an answer of its own.                            *)
AskedBefore(s) ==
    \A i, j \in 1..Len(s) : i < j /\ s[i][1] \in {"Do", "LoggedOut", "LoggedIn"} /\ s[j][1] = "LoggedIn"
        => \E k \in i..(j - 1) : s[k] = <<"Do", "login">>

(* One request of the call's own is ahead, and what decides on a resend    *)
(* comes last, after nothing but the steps of the call's own request.      *)
OneRequest(s) ==
    /\ \A i, j \in 1..Len(s) : s[i][1] = "Do" /\ s[i][2] \in Carry /\ s[j][1] = "Do" /\ s[j][2] \in Carry
                               => i = j
    /\ \A i, j \in 1..Len(s) : s[j][1] = "Retry" /\ s[j][2] \in Carry
                               => j = Len(s) /\ s[i][1] \in CallSteps /\ s[i][2] \in Carry

(* Who checks for an HTTP client has a release ahead. *)
Released(s) ==
    \A i \in 1..Len(s) : s[i][1] = "Client" =>
        \E j \in i..Len(s) : s[j][1] = "Release" /\ \A k \in i..(j - 1) : s[k][1] # "Release"

(* The three lookups of the array's semaphore stand together. *)
LookedUp(s) ==
    \A i \in 1..Len(s) : s[i][1] = "Device" =>
        i + 2 \in 1..Len(s) /\ s[i + 1][1] = "AcquireDevice" /\ s[i + 2][1] = "DeferDevice"

Stack(s) == SectionEnds(s) /\ AskedBefore(s) /\ OneRequest(s) /\ Released(s) /\ LookedUp(s)

(* A goroutine whose login was answered has its session. *)
Answer(j) ==
    (\E i \in 1..Len(j.todo) : j.todo[i][1] = "LoggedIn" /\ \A k \in 1..(i - 1) : j.todo[k] # <<"Do", "login">>)
        => (j.res = "ok" => j.new > 0)

(* How often the request was carried out, by what is still ahead of it. *)
Counted(j) ==
    /\ j.ran > 1 => j.lost
    /\ DoesCarry(j.todo) => j.ran <= 1 /\ (j.ran = 1 => j.lost)
    /\ DoesCarry(j.todo) /\ MayResend(j.todo) => j.ran = 0
    /\ MayResend(j.todo) => j.ran <= 1 /\ (j.ran = 1 /\ ~j.lost => j.res \notin {"unconnected", "refused"})

OfOneLogin(q) == q.dev = IF q.tok = 0 THEN "" ELSE arr.of[q.tok]

Sessions ==
    /\ arr.n <= MaxLogins /\ cli.tok <= arr.n
    /\ \A t \in Threads : thr[t].new <= arr.n /\ thr[t].own.tok <= arr.n

Exclusive == \A t \in Threads : Has(thr[t].todo, Critical) => cli.mutex = {t}

Paired ==
    HasDevice => /\ \A t \in Threads : OfOneLogin(thr[t].own)
                 /\ \A t \in Threads : At(t, "SetToken") => thr[t].new > 0 /\ cli.dev = arr.of[thr[t].new]
                 /\ (\A t \in Threads : ~At(t, "SetToken")) => OfOneLogin(cli)

IInv == /\ Types
        /\ \A t \in Threads : Stack(thr[t].todo) /\ Answer(thr[t]) /\ Counted(thr[t])
        /\ Sessions /\ Exclusive /\ Paired

-----------------------------------------------------------------------------
(* Dropping steps. *)
Drop(r, s, d) == /\ d \in 0..Len(s) /\ r \in Seq(Steps)
                 /\ Len(r) = Len(s) - d
                 /\ \A i \in 1..Len(r) : r[i] = s[i + d]

(* Tail drops one step. *)
LEMMA TailDrops ==
  ASSUME NEW s \in Seq(Steps), s # <<>>
  PROVE  Drop(Tail(s), s, 1) /\ Len(s) > 0 /\ Head(s) = s[1] /\ 1 \in 1..Len(s)
<1>1. Len(s) \in Nat \ {0}
  BY EmptySeq
<1>2. QED
  BY <1>1, HeadTailProperties DEF Drop

(* So does a suffix, as safeDoCall and lookupDevice take one. *)
LEMMA SuffixDrops ==
  ASSUME NEW s \in Seq(Steps), NEW k \in Nat \ {0, 1}, s # <<>>
  PROVE  \E d \in 1..Len(s) : Drop(SubSeq(s, k, Len(s)), s, d)
<1>1. Len(s) \in Nat \ {0}
  BY EmptySeq
<1>2. \A i \in k..Len(s) : s[i] \in Steps
  BY <1>1, ElementOfSeq
<1> DEFINE r == SubSeq(s, k, Len(s))
<1>3. /\ r \in Seq(Steps)
      /\ Len(r) = IF k <= Len(s) THEN Len(s) - k + 1 ELSE 0
      /\ \A i \in 1..(Len(s) - k + 1) : r[i] = s[k + i - 1]
  BY <1>1, <1>2, SubSeqProperties
<1>4. CASE k <= Len(s)
  <2>1. Drop(r, s, k - 1)
    BY <1>1, <1>3, <1>4 DEF Drop
  <2>2. QED
    BY <1>1, <1>4, <2>1
<1>5. CASE ~(k <= Len(s))
  <2>1. Drop(r, s, Len(s))
    BY <1>1, <1>3, <1>5 DEF Drop
  <2>2. QED
    BY <1>1, <2>1
<1>6. QED
  BY <1>4, <1>5

(* And so does what follows the request the goroutine is in. *)
LEMMA AfterDrops ==
  ASSUME NEW s \in Seq(Steps), s # <<>>, s[1][1] = "Client", Released(s)
  PROVE  \E d \in 1..Len(s) : Drop(AfterRequest(s), s, d)
<1>1. Len(s) \in Nat \ {0} /\ DOMAIN s = 1..Len(s)
  BY EmptySeq, LenProperties
<1>2. PICK j \in 1..Len(s) : s[j][1] = "Release" /\ \A k \in 1..(j - 1) : s[k][1] # "Release"
  BY <1>1 DEF Released
<1> DEFINE c == CHOOSE i \in DOMAIN s : /\ s[i][1] = "Release"
                                        /\ \A k \in 1..(i - 1) : s[k][1] # "Release"
<1>3. c \in 1..Len(s)
  BY <1>1, <1>2
<1>4. c + 1 \in Nat \ {0, 1}
  BY <1>1, <1>3
<1>5. AfterRequest(s) = SubSeq(s, c + 1, Len(s))
  BY DEF AfterRequest
<1>6. QED
  BY <1>4, <1>5, SuffixDrops

(* A step that is left, where it was. *)
LEMMA DropAt ==
  ASSUME NEW s \in Seq(Steps), NEW r, NEW d, Drop(r, s, d), NEW i \in 1..Len(r)
  PROVE  i + d \in 1..Len(s) /\ r[i] = s[i + d]
<1>1. Len(s) \in Nat
  BY LenProperties
<1>2. QED
  BY <1>1 DEF Drop

(* What is dropped leaves the order of the rest as it was. *)
LEMMA StackDrop ==
  ASSUME NEW s \in Seq(Steps), NEW r, NEW d, Drop(r, s, d), Stack(s)
  PROVE  /\ Stack(r)
         /\ d > 0 => ~Has(r, {"SetToken"})
<1>0. Len(s) \in Nat /\ d \in 0..Len(s) /\ Len(r) = Len(s) - d
  BY LenProperties DEF Drop
<1>1. ASSUME NEW i \in 1..Len(r) PROVE i + d \in 1..Len(s) /\ r[i] = s[i + d]
  BY <1>0 DEF Drop
<1>2. SectionEnds(r) /\ (d > 0 => ~Has(r, {"SetToken"}))
  <2>1. ASSUME NEW i \in 1..Len(r), NEW j \in 1..Len(r), i < j, r[i][1] \in {"Unlock", "Retry"}
        PROVE  r[j][1] \notin Critical
    <3>1. i + d \in 1..Len(s) /\ j + d \in 1..Len(s) /\ i + d < j + d
      BY <1>0, <1>1, <2>1
    <3>2. QED
      BY <1>1, <2>1, <3>1 DEF Stack, SectionEnds
  <2>2. ASSUME NEW i \in 1..Len(r), r[i][1] = "SetToken"
        PROVE  i = 1 /\ d = 0
    <3>1. i + d = 1
      BY <1>1, <2>2 DEF Stack, SectionEnds
    <3>2. QED
      BY <1>0, <3>1
  <2>3. QED
    BY <1>0, <2>1, <2>2 DEF SectionEnds, Has
<1>3. AskedBefore(r)
  <2> SUFFICES ASSUME NEW i \in 1..Len(r), NEW j \in 1..Len(r), i < j,
                      r[i][1] \in {"Do", "LoggedOut", "LoggedIn"}, r[j][1] = "LoggedIn"
               PROVE  \E k \in i..(j - 1) : r[k] = <<"Do", "login">>
    BY DEF AskedBefore
  <2>0. i + d \in 1..Len(s) /\ j + d \in 1..Len(s) /\ i + d < j + d
    BY <1>0, <1>1
  <2>1. PICK k \in (i + d)..((j + d) - 1) : s[k] = <<"Do", "login">>
    BY <1>1, <2>0 DEF Stack, AskedBefore
  <2>2. k - d \in i..(j - 1) /\ k - d \in 1..Len(r) /\ (k - d) + d = k
    BY <1>0
  <2>3. r[k - d] = s[k]
    BY <1>1, <2>2
  <2>4. QED
    BY <2>1, <2>2, <2>3
<1>4. OneRequest(r)
  <2>1. ASSUME NEW i \in 1..Len(r), NEW j \in 1..Len(r),
               r[i][1] = "Do", r[i][2] \in Carry, r[j][1] = "Do", r[j][2] \in Carry
        PROVE  i = j
    <3>1. i + d = j + d
      BY <1>1, <2>1 DEF Stack, OneRequest
    <3>2. QED
      BY <1>0, <3>1
  <2>2. ASSUME NEW i \in 1..Len(r), NEW j \in 1..Len(r), r[j][1] = "Retry", r[j][2] \in Carry
        PROVE  j = Len(r) /\ r[i][1] \in CallSteps /\ r[i][2] \in Carry
    <3>1. j + d = Len(s) /\ s[i + d][1] \in CallSteps /\ s[i + d][2] \in Carry
      BY <1>1, <2>2 DEF Stack, OneRequest
    <3>2. QED
      BY <1>0, <1>1, <3>1
  <2>3. QED
    BY <2>1, <2>2 DEF OneRequest
<1>5. Released(r)
  <2> SUFFICES ASSUME NEW i \in 1..Len(r), r[i][1] = "Client"
               PROVE  \E j \in i..Len(r) : r[j][1] = "Release" /\ \A k \in i..(j - 1) : r[k][1] # "Release"
    BY DEF Released
  <2>1. PICK j \in (i + d)..Len(s) : s[j][1] = "Release" /\ \A k \in (i + d)..(j - 1) : s[k][1] # "Release"
    BY <1>1 DEF Stack, Released
  <2>2. j - d \in i..Len(r) /\ j - d \in 1..Len(r) /\ (j - d) + d = j
    BY <1>0
  <2>3. ASSUME NEW k \in i..((j - d) - 1) PROVE r[k][1] # "Release"
    <3>1. k \in 1..Len(r) /\ k + d \in (i + d)..(j - 1)
      BY <1>0
    <3>2. QED
      BY <1>1, <2>1, <3>1
  <2>4. QED
    BY <1>1, <2>1, <2>2, <2>3
<1>6. LookedUp(r)
  <2> SUFFICES ASSUME NEW i \in 1..Len(r), r[i][1] = "Device"
               PROVE  i + 2 \in 1..Len(r) /\ r[i + 1][1] = "AcquireDevice" /\ r[i + 2][1] = "DeferDevice"
    BY DEF LookedUp
  <2>1. /\ (i + d) + 2 \in 1..Len(s)
        /\ s[(i + d) + 1][1] = "AcquireDevice" /\ s[(i + d) + 2][1] = "DeferDevice"
    BY <1>1 DEF Stack, LookedUp
  <2>2. /\ i + 1 \in 1..Len(r) /\ i + 2 \in 1..Len(r)
        /\ (i + 1) + d = (i + d) + 1 /\ (i + 2) + d = (i + d) + 2
    BY <1>0, <2>1
  <2>3. r[i + 1] = s[(i + 1) + d] /\ r[i + 2] = s[(i + 2) + d]
    BY <1>1, <2>2
  <2>4. QED
    BY <2>1, <2>2, <2>3
<1>7. QED
  BY <1>2, <1>3, <1>4, <1>5, <1>6 DEF Stack

-----------------------------------------------------------------------------
(* Putting steps in front. *)
LoginAsked(s) == \A j \in 1..Len(s) : s[j][1] = "LoggedIn" => \E k \in 1..(j - 1) : s[k] = <<"Do", "login">>

(* Where a step of a concatenation comes from. *)
LEMMA ConcatFrom ==
  ASSUME NEW a \in Seq(Steps), NEW b \in Seq(Steps)
  PROVE  /\ a \o b \in Seq(Steps) /\ Len(a \o b) = Len(a) + Len(b)
         /\ Len(a) \in Nat /\ Len(b) \in Nat
         /\ \A i \in 1..Len(a \o b) : \/ i \in 1..Len(a) /\ (a \o b)[i] = a[i]
                                      \/ i - Len(a) \in 1..Len(b) /\ (a \o b)[i] = b[i - Len(a)] /\ i > Len(a)
         /\ \A i \in 1..Len(a) : i \in 1..Len(a \o b) /\ (a \o b)[i] = a[i]
         /\ \A i \in 1..Len(b) : i + Len(a) \in 1..Len(a \o b) /\ (a \o b)[i + Len(a)] = b[i]
<1>1. Len(a) \in Nat /\ Len(b) \in Nat
  BY LenProperties
<1>2. /\ a \o b \in Seq(Steps)
      /\ Len(a \o b) = Len(a) + Len(b)
      /\ \A i \in 1..(Len(a) + Len(b)) : (a \o b)[i] = IF i <= Len(a) THEN a[i] ELSE b[i - Len(a)]
  BY ConcatProperties
<1>3. \A i \in 1..Len(b) : i + Len(a) \in 1..Len(a \o b) /\ (a \o b)[i + Len(a)] = b[(i + Len(a)) - Len(a)]
                           /\ (i + Len(a)) - Len(a) = i
  BY <1>1, <1>2
<1>4. QED
  BY <1>1, <1>2, <1>3

(* What a concatenation contains. *)
LEMMA ConcatHas ==
  ASSUME NEW a \in Seq(Steps), NEW b \in Seq(Steps)
  PROVE  /\ \A N : Has(a \o b, N) <=> Has(a, N) \/ Has(b, N)
         /\ DoesCarry(a \o b) <=> DoesCarry(a) \/ DoesCarry(b)
         /\ MayResend(a \o b) <=> MayResend(a) \/ MayResend(b)
         /\ LoginAsked(a) /\ LoginAsked(b) => LoginAsked(a \o b)
<1> DEFINE c == a \o b
<1> HIDE DEF c
<1>0. /\ Len(a) \in Nat /\ Len(b) \in Nat
      /\ \A i \in 1..Len(c) : \/ i \in 1..Len(a) /\ c[i] = a[i]
                              \/ i - Len(a) \in 1..Len(b) /\ c[i] = b[i - Len(a)] /\ i > Len(a)
      /\ \A i \in 1..Len(a) : i \in 1..Len(c) /\ c[i] = a[i]
      /\ \A i \in 1..Len(b) : i + Len(a) \in 1..Len(c) /\ c[i + Len(a)] = b[i]
  BY ConcatFrom DEF c
<1>1. ASSUME NEW N PROVE Has(c, N) <=> Has(a, N) \/ Has(b, N)
  BY <1>0 DEF Has
<1>2. DoesCarry(c) <=> DoesCarry(a) \/ DoesCarry(b)
  <2>1. ASSUME DoesCarry(c) PROVE DoesCarry(a) \/ DoesCarry(b)
    <3>1. PICK i \in 1..Len(c) : c[i][1] = "Do" /\ c[i][2] \in Carry
      BY <2>1 DEF DoesCarry
    <3>2. CASE i \in 1..Len(a) /\ c[i] = a[i]
      BY <3>1, <3>2 DEF DoesCarry
    <3>3. CASE i - Len(a) \in 1..Len(b) /\ c[i] = b[i - Len(a)]
      BY <3>1, <3>3 DEF DoesCarry
    <3>4. QED
      BY <1>0, <3>2, <3>3
  <2>2. ASSUME DoesCarry(a) PROVE DoesCarry(c)
    BY <1>0, <2>2 DEF DoesCarry
  <2>3. ASSUME DoesCarry(b) PROVE DoesCarry(c)
    <3>1. PICK i \in 1..Len(b) : b[i][1] = "Do" /\ b[i][2] \in Carry
      BY <2>3 DEF DoesCarry
    <3>2. i + Len(a) \in 1..Len(c) /\ c[i + Len(a)] = b[i]
      BY <1>0
    <3>3. QED
      BY <3>1, <3>2 DEF DoesCarry
  <2>4. QED
    BY <2>1, <2>2, <2>3
<1>3. MayResend(c) <=> MayResend(a) \/ MayResend(b)
  <2>1. ASSUME MayResend(c) PROVE MayResend(a) \/ MayResend(b)
    <3>1. PICK i \in 1..Len(c) : c[i][1] = "Retry" /\ c[i][2] \in Carry
      BY <2>1 DEF MayResend
    <3>2. CASE i \in 1..Len(a) /\ c[i] = a[i]
      BY <3>1, <3>2 DEF MayResend
    <3>3. CASE i - Len(a) \in 1..Len(b) /\ c[i] = b[i - Len(a)]
      BY <3>1, <3>3 DEF MayResend
    <3>4. QED
      BY <1>0, <3>2, <3>3
  <2>2. ASSUME MayResend(a) PROVE MayResend(c)
    BY <1>0, <2>2 DEF MayResend
  <2>3. ASSUME MayResend(b) PROVE MayResend(c)
    <3>1. PICK i \in 1..Len(b) : b[i][1] = "Retry" /\ b[i][2] \in Carry
      BY <2>3 DEF MayResend
    <3>2. i + Len(a) \in 1..Len(c) /\ c[i + Len(a)] = b[i]
      BY <1>0
    <3>3. QED
      BY <3>1, <3>2 DEF MayResend
  <2>4. QED
    BY <2>1, <2>2, <2>3
<1>4. ASSUME LoginAsked(a), LoginAsked(b) PROVE LoginAsked(c)
  <2> SUFFICES ASSUME NEW j \in 1..Len(c), c[j][1] = "LoggedIn"
               PROVE  \E k \in 1..(j - 1) : c[k] = <<"Do", "login">>
    BY DEF LoginAsked
  <2>1. CASE j \in 1..Len(a) /\ c[j] = a[j]
    <3>1. PICK k \in 1..(j - 1) : a[k] = <<"Do", "login">>
      BY <1>4, <2>1 DEF LoginAsked
    <3>2. k \in 1..Len(a)
      BY <1>0, <2>1
    <3>3. QED
      BY <1>0, <3>1, <3>2
  <2>2. CASE j - Len(a) \in 1..Len(b) /\ c[j] = b[j - Len(a)]
    <3>1. PICK k \in 1..((j - Len(a)) - 1) : b[k] = <<"Do", "login">>
      BY <1>4, <2>2 DEF LoginAsked
    <3>2. k \in 1..Len(b) /\ k + Len(a) \in 1..(j - 1)
      BY <1>0, <2>2
    <3>3. QED
      BY <1>0, <3>1, <3>2
  <2>3. QED
    BY <1>0, <2>1, <2>2
<1>5. QED
  BY <1>1, <1>2, <1>3, <1>4 DEF c

(* The lookups stay together. *)
LEMMA LookedUpConcat ==
  ASSUME NEW a \in Seq(Steps), NEW b \in Seq(Steps), LookedUp(a), LookedUp(b)
  PROVE  LookedUp(a \o b)
<1> DEFINE c == a \o b
<1>0. /\ Len(a) \in Nat /\ Len(b) \in Nat /\ Len(c) = Len(a) + Len(b)
      /\ \A i \in 1..Len(c) : \/ i \in 1..Len(a) /\ c[i] = a[i]
                              \/ i - Len(a) \in 1..Len(b) /\ c[i] = b[i - Len(a)] /\ i > Len(a)
      /\ \A i \in 1..Len(a) : i \in 1..Len(c) /\ c[i] = a[i]
      /\ \A i \in 1..Len(b) : i + Len(a) \in 1..Len(c) /\ c[i + Len(a)] = b[i]
  BY ConcatFrom
<1> HIDE DEF c
<1> SUFFICES ASSUME NEW i \in 1..Len(c), c[i][1] = "Device"
             PROVE  i + 2 \in 1..Len(c) /\ c[i + 1][1] = "AcquireDevice" /\ c[i + 2][1] = "DeferDevice"
  BY DEF LookedUp, c
<1>1. CASE i \in 1..Len(a) /\ c[i] = a[i]
  <2>1. i + 2 \in 1..Len(a) /\ a[i + 1][1] = "AcquireDevice" /\ a[i + 2][1] = "DeferDevice"
    BY <1>1 DEF LookedUp
  <2>2. i + 1 \in 1..Len(a)
    BY <1>0, <2>1
  <2>3. QED
    BY <1>0, <2>1, <2>2
<1>2. CASE i - Len(a) \in 1..Len(b) /\ c[i] = b[i - Len(a)]
  <2> DEFINE k == i - Len(a)
  <2>1. k + 2 \in 1..Len(b) /\ b[k + 1][1] = "AcquireDevice" /\ b[k + 2][1] = "DeferDevice"
    BY <1>2 DEF LookedUp
  <2>2. k + 1 \in 1..Len(b) /\ (k + 1) + Len(a) = i + 1 /\ (k + 2) + Len(a) = i + 2
    BY <1>0, <1>2, <2>1
  <2>3. c[(k + 1) + Len(a)] = b[k + 1] /\ c[(k + 2) + Len(a)] = b[k + 2] /\ (k + 2) + Len(a) \in 1..Len(c)
    BY <1>0, <2>1, <2>2
  <2>4. QED
    BY <2>1, <2>2, <2>3
<1>3. QED
  BY <1>0, <1>1, <1>2

(* When two ordered sequences make an ordered one. *)
LEMMA StackConcat ==
  ASSUME NEW a \in Seq(Steps), NEW b \in Seq(Steps), Stack(a), Stack(b),
         Has(a, {"Unlock", "Retry"}) => ~Has(b, Critical),
         ~Has(b, {"SetToken"}),
         ~Has(b, {"LoggedIn"}) \/ LoginAsked(b) \/ AskedBefore(a \o b),
         ~DoesCarry(a) \/ ~DoesCarry(b),
         ~MayResend(a) \/ b = <<>>,
         MayResend(b) => \A i \in 1..Len(a) : a[i][1] \in CallSteps /\ a[i][2] \in Carry
  PROVE  Stack(a \o b)
<1> DEFINE c == a \o b
<1> HIDE DEF c
<1>0. /\ Len(a) \in Nat /\ Len(b) \in Nat /\ Len(c) = Len(a) + Len(b)
      /\ \A i \in 1..Len(c) : \/ i \in 1..Len(a) /\ c[i] = a[i]
                              \/ i - Len(a) \in 1..Len(b) /\ c[i] = b[i - Len(a)] /\ i > Len(a)
      /\ \A i \in 1..Len(a) : i \in 1..Len(c) /\ c[i] = a[i]
      /\ \A i \in 1..Len(b) : i + Len(a) \in 1..Len(c) /\ c[i + Len(a)] = b[i]
  BY ConcatFrom DEF c
<1>1. ASSUME NEW i \in 1..Len(c), NEW j \in 1..Len(c)
      PROVE  /\ i < j /\ c[i][1] \in {"Unlock", "Retry"} => c[j][1] \notin Critical
             /\ c[i][1] = "SetToken" => i = 1
  <2>1. CASE i \in 1..Len(a) /\ c[i] = a[i] /\ j \in 1..Len(a) /\ c[j] = a[j]
    BY <2>1 DEF Stack, SectionEnds
  <2>2. CASE i \in 1..Len(a) /\ c[i] = a[i] /\ j - Len(a) \in 1..Len(b) /\ c[j] = b[j - Len(a)]
    BY <2>2 DEF Has, Stack, SectionEnds
  <2>3. CASE i - Len(a) \in 1..Len(b) /\ c[i] = b[i - Len(a)] /\ i > Len(a)
    <3>1. c[i][1] # "SetToken"
      BY <2>3 DEF Has
    <3>2. ASSUME i < j, c[i][1] \in {"Unlock", "Retry"} PROVE c[j][1] \notin Critical
      <4>1. j - Len(a) \in 1..Len(b) /\ c[j] = b[j - Len(a)] /\ i - Len(a) < j - Len(a)
        BY <1>0, <2>3, <3>2
      <4>2. QED
        BY <2>3, <3>2, <4>1 DEF Stack, SectionEnds
    <3>3. QED
      BY <3>1, <3>2
  <2>4. QED
    BY <1>0, <2>1, <2>2, <2>3
<1>2. AskedBefore(c)
  <2> SUFFICES ASSUME NEW i \in 1..Len(c), NEW j \in 1..Len(c), i < j, ~AskedBefore(c),
                      c[i][1] \in {"Do", "LoggedOut", "LoggedIn"}, c[j][1] = "LoggedIn"
               PROVE  \E k \in i..(j - 1) : c[k] = <<"Do", "login">>
    BY DEF AskedBefore
  <2>1. CASE j \in 1..Len(a) /\ c[j] = a[j]
    <3>1. i \in 1..Len(a) /\ c[i] = a[i]
      BY <1>0, <2>1
    <3>2. PICK k \in i..(j - 1) : a[k] = <<"Do", "login">>
      BY <2>1, <3>1 DEF Stack, AskedBefore
    <3>3. k \in 1..Len(a)
      BY <1>0, <2>1, <3>1
    <3>4. QED
      BY <1>0, <3>2, <3>3
  <2>2. CASE j - Len(a) \in 1..Len(b) /\ c[j] = b[j - Len(a)] /\ j > Len(a)
    <3>1. LoginAsked(b)
      BY <2>2 DEF Has, c
    <3>2. CASE i \in 1..Len(a)
      <4>1. PICK k \in 1..((j - Len(a)) - 1) : b[k] = <<"Do", "login">>
        BY <2>2, <3>1 DEF LoginAsked
      <4>2. k \in 1..Len(b) /\ k + Len(a) \in i..(j - 1)
        BY <1>0, <2>2, <3>2, SMTT(30)
      <4>3. c[k + Len(a)] = <<"Do", "login">>
        BY <1>0, <4>1, <4>2
      <4>4. QED
        BY <4>2, <4>3
    <3>3. CASE i - Len(a) \in 1..Len(b) /\ c[i] = b[i - Len(a)]
      <4>0. i - Len(a) < j - Len(a)
        BY <1>0
      <4>1. PICK k \in (i - Len(a))..((j - Len(a)) - 1) : b[k] = <<"Do", "login">>
        BY <2>2, <3>3, <4>0 DEF Stack, AskedBefore
      <4>2. k \in 1..Len(b) /\ k + Len(a) \in i..(j - 1)
        <5> DEFINE n == Len(a)
                   m == Len(b)
        <5>1. /\ n \in Nat /\ m \in Nat /\ i \in Nat /\ j \in Nat
              /\ i - n \in 1..m /\ j - n \in 1..m /\ k \in (i - n)..((j - n) - 1)
          BY <1>0, <2>2, <3>3
        <5> HIDE DEF n, m
        <5>2. k \in 1..m /\ k + n \in i..(j - 1)
          BY <5>1
        <5>3. QED
          BY <5>2 DEF n, m
      <4>3. c[k + Len(a)] = <<"Do", "login">>
        BY <1>0, <4>1, <4>2
      <4>4. QED
        BY <4>2, <4>3
    <3>4. QED
      BY <1>0, <3>2, <3>3
  <2>3. QED
    BY <1>0, <2>1, <2>2
<1>3. OneRequest(c)
  <2>1. ASSUME NEW i \in 1..Len(c), NEW j \in 1..Len(c),
               c[i][1] = "Do", c[i][2] \in Carry, c[j][1] = "Do", c[j][2] \in Carry
        PROVE  i = j
    <3>1. CASE i \in 1..Len(a) /\ c[i] = a[i] /\ j \in 1..Len(a) /\ c[j] = a[j]
      BY <2>1, <3>1 DEF Stack, OneRequest
    <3>2. CASE i - Len(a) \in 1..Len(b) /\ c[i] = b[i - Len(a)] /\ j - Len(a) \in 1..Len(b) /\ c[j] = b[j - Len(a)]
      <4>1. i - Len(a) = j - Len(a)
        BY <2>1, <3>2 DEF Stack, OneRequest
      <4>2. QED
        BY <1>0, <4>1
    <3>3. CASE i \in 1..Len(a) /\ c[i] = a[i] /\ j - Len(a) \in 1..Len(b) /\ c[j] = b[j - Len(a)]
      BY <2>1, <3>3 DEF DoesCarry
    <3>4. CASE i - Len(a) \in 1..Len(b) /\ c[i] = b[i - Len(a)] /\ j \in 1..Len(a) /\ c[j] = a[j]
      BY <2>1, <3>4 DEF DoesCarry
    <3>5. QED
      BY <1>0, <3>1, <3>2, <3>3, <3>4
  <2>2. ASSUME NEW i \in 1..Len(c), NEW j \in 1..Len(c), c[j][1] = "Retry", c[j][2] \in Carry
        PROVE  j = Len(c) /\ c[i][1] \in CallSteps /\ c[i][2] \in Carry
    <3>1. CASE j \in 1..Len(a) /\ c[j] = a[j]
      <4>1. b = <<>>
        BY <2>2, <3>1 DEF MayResend
      <4>2. Len(c) = Len(a) /\ i \in 1..Len(a) /\ c[i] = a[i]
        BY <1>0, <4>1
      <4>3. QED
        BY <2>2, <3>1, <4>2 DEF Stack, OneRequest
    <3>2. CASE j - Len(a) \in 1..Len(b) /\ c[j] = b[j - Len(a)]
      <4>1. MayResend(b)
        BY <2>2, <3>2 DEF MayResend
      <4>2. j - Len(a) = Len(b)
        BY <2>2, <3>2 DEF Stack, OneRequest
      <4>3. CASE i \in 1..Len(a) /\ c[i] = a[i]
        BY <1>0, <4>1, <4>2, <4>3
      <4>4. CASE i - Len(a) \in 1..Len(b) /\ c[i] = b[i - Len(a)]
        <5>1. c[i][1] \in CallSteps /\ c[i][2] \in Carry
          BY <2>2, <3>2, <4>4 DEF Stack, OneRequest
        <5>2. QED
          BY <1>0, <4>2, <5>1
      <4>5. QED
        BY <1>0, <4>3, <4>4
    <3>3. QED
      BY <1>0, <3>1, <3>2
  <2>3. QED
    BY <2>1, <2>2 DEF OneRequest
<1>4. Released(c)
  <2> SUFFICES ASSUME NEW i \in 1..Len(c), c[i][1] = "Client"
               PROVE  \E j \in i..Len(c) : c[j][1] = "Release" /\ \A k \in i..(j - 1) : c[k][1] # "Release"
    BY DEF Released
  <2>1. CASE i \in 1..Len(a) /\ c[i] = a[i]
    <3>1. PICK j \in i..Len(a) : a[j][1] = "Release" /\ \A k \in i..(j - 1) : a[k][1] # "Release"
      BY <2>1 DEF Stack, Released
    <3>2. j \in 1..Len(a) /\ j \in i..Len(c) /\ \A k \in i..(j - 1) : k \in 1..Len(a)
      BY <1>0, <2>1
    <3>3. QED
      BY <1>0, <3>1, <3>2, SMTT(30)
  <2>2. CASE i - Len(a) \in 1..Len(b) /\ c[i] = b[i - Len(a)]
    <3>1. PICK j \in (i - Len(a))..Len(b) : b[j][1] = "Release"
                                            /\ \A k \in (i - Len(a))..(j - 1) : b[k][1] # "Release"
      BY <2>2 DEF Stack, Released
    <3>2. j \in 1..Len(b) /\ j + Len(a) \in i..Len(c)
      BY <1>0, <2>2
    <3>3. ASSUME NEW k \in i..((j + Len(a)) - 1) PROVE c[k][1] # "Release"
      <4>1. k - Len(a) \in (i - Len(a))..(j - 1) /\ k - Len(a) \in 1..Len(b) /\ (k - Len(a)) + Len(a) = k
        BY <1>0, <2>2, <3>2
      <4>2. c[(k - Len(a)) + Len(a)] = b[k - Len(a)]
        BY <1>0, <4>1
      <4>3. QED
        BY <3>1, <4>1, <4>2
    <3>4. QED
      BY <1>0, <3>1, <3>2, <3>3
  <2>3. QED
    BY <1>0, <2>1, <2>2
<1>5. LookedUp(c)
  BY LookedUpConcat DEF Stack, c
<1>6. QED
  BY <1>1, <1>2, <1>3, <1>4, <1>5 DEF Stack, SectionEnds, c

-----------------------------------------------------------------------------
(* The steps that operations put in front. *)
Before == {"Client", "GetRequest", "Acquire", "Device", "AcquireDevice", "DeferDevice", "AcquireKey", "safeDoCall"}

(* A step on its own. *)
LEMMA SingleStep ==
  ASSUME NEW x \in Steps
  PROVE  /\ <<x>> \in Seq(Steps) /\ Len(<<x>>) = 1 /\ <<x>>[1] = x
         /\ x[1] \notin {"Client", "Device"} => Stack(<<x>>)
         /\ \A N : Has(<<x>>, N) <=> x[1] \in N
         /\ DoesCarry(<<x>>) <=> x[1] = "Do" /\ x[2] \in Carry
         /\ MayResend(<<x>>) <=> x[1] = "Retry" /\ x[2] \in Carry
         /\ LoginAsked(<<x>>) <=> x[1] # "LoggedIn"
<1> DEFINE s == <<x>>
<1>1. s \in Seq(Steps) /\ Len(s) = 1 /\ s[1] = x
  OBVIOUS
<1> HIDE DEF s
<1>2. \A i \in 1..Len(s) : i = 1
  BY <1>1
<1>3. x[1] \notin {"Client", "Device"} => Stack(s)
  BY <1>1, <1>2 DEF Stack, SectionEnds, AskedBefore, OneRequest, Released, LookedUp, CallSteps
<1>4. \A N : Has(s, N) <=> x[1] \in N
  BY <1>1, <1>2 DEF Has
<1>5. DoesCarry(s) <=> x[1] = "Do" /\ x[2] \in Carry
  BY <1>1, <1>2 DEF DoesCarry
<1>6. MayResend(s) <=> x[1] = "Retry" /\ x[2] \in Carry
  BY <1>1, <1>2 DEF MayResend
<1>7. LoginAsked(s) <=> x[1] # "LoggedIn"
  BY <1>1, <1>2 DEF LoginAsked
<1>8. QED
  BY <1>1, <1>3, <1>4, <1>5, <1>6, <1>7 DEF s

(* BaseCall ends with the request and the release. *)
LEMMA BaseCallForm ==
  ASSUME NEW w \in Whats, cfg.kind \in Kinds
  PROVE  \E p \in Seq(Before \X {w}) : /\ BaseCall(w) = p \o <<<<"Do", w>>, <<"Release", w>>>>
                                       /\ LookedUp(p)
<1> DEFINE B == Before \X {w}
           p1 == IF cfg.kind = "fusion" THEN <<<<"Client", w>>>> ELSE <<>>
           p2 == <<<<"GetRequest", w>>, <<"Acquire", w>>>>
           a == <<<<"Device", w>>, <<"AcquireDevice", w>>, <<"DeferDevice", w>>>>
           b == <<<<"AcquireKey", w>>>>
           p3 == CASE HasDevice -> a [] cfg.kind = "dme" -> b [] cfg.kind = "fusion" -> <<>>
           p4 == IF w = "safe" THEN <<<<"safeDoCall", w>>>> ELSE <<>>
<1>1. p1 \in Seq(B)
  <2>1. CASE cfg.kind = "fusion"
    BY <2>1 DEF Before
  <2>2. CASE cfg.kind # "fusion"
    BY <2>2
  <2>3. QED
    BY <2>1, <2>2
<1>2. p2 \in Seq(B)
  BY DEF Before
<1>3. p3 \in Seq(B)
  <2>1. a \in Seq(B) /\ b \in Seq(B) /\ <<>> \in Seq(B)
    BY DEF Before
  <2> HIDE DEF a, b, B
  <2>2. p3 \in {a, b, <<>>}
    BY DEF Kinds, HasDevice
  <2>3. QED
    BY <2>1, <2>2
<1>4. p4 \in Seq(B)
  BY DEF Before
<1>5. BaseCall(w) = p1 \o p2 \o p3 \o p4 \o <<<<"Do", w>>, <<"Release", w>>>>
  BY DEF BaseCall
<1>6. LookedUp(p1) /\ LookedUp(p2) /\ LookedUp(p3) /\ LookedUp(p4)
  <2>1. LookedUp(<<>>)
    BY DEF LookedUp
  <2>2. LookedUp(a) /\ LookedUp(b) /\ LookedUp(p2)
    BY DEF LookedUp
  <2>3. LookedUp(<<<<"Client", w>>>>) /\ LookedUp(<<<<"safeDoCall", w>>>>)
    BY DEF LookedUp
  <2>4. p3 \in {a, b, <<>>}
    <3> HIDE DEF a, b
    <3>1. QED
      BY DEF Kinds, HasDevice
  <2>5. p1 \in {<<<<"Client", w>>>>, <<>>} /\ p4 \in {<<<<"safeDoCall", w>>>>, <<>>}
    OBVIOUS
  <2> HIDE DEF p1, p2, p3, p4, a, b
  <2>6. QED
    BY <2>1, <2>2, <2>3, <2>4, <2>5
<1>7. B \subseteq Steps
  BY DEF Steps, CallSteps, Before
<1> HIDE DEF p1, p2, p3, p4, B
<1>8. p1 \in Seq(Steps) /\ p2 \in Seq(Steps) /\ p3 \in Seq(Steps) /\ p4 \in Seq(Steps)
  BY <1>1, <1>2, <1>3, <1>4, <1>7, SeqMonotonic
<1>9. p1 \o p2 \o p3 \o p4 \in Seq(B)
  BY <1>1, <1>2, <1>3, <1>4, ConcatProperties
<1>10. LookedUp(p1 \o p2) /\ p1 \o p2 \in Seq(Steps)
  BY <1>6, <1>8, LookedUpConcat, ConcatProperties
<1>11. LookedUp(p1 \o p2 \o p3) /\ p1 \o p2 \o p3 \in Seq(Steps)
  BY <1>6, <1>8, <1>10, LookedUpConcat, ConcatProperties
<1>12. LookedUp(p1 \o p2 \o p3 \o p4)
  BY <1>6, <1>8, <1>11, LookedUpConcat
<1>13. QED
  BY <1>5, <1>9, <1>12 DEF B

(* What a request puts ahead. *)
LEMMA BaseCallStack ==
  ASSUME NEW w \in Whats, cfg.kind \in Kinds
  PROVE  /\ BaseCall(w) \in Seq(Steps) /\ Stack(BaseCall(w))
         /\ \A N : N \cap (Before \cup {"Do", "Release"}) = {} => ~Has(BaseCall(w), N)
         /\ DoesCarry(BaseCall(w)) <=> w \in Carry
         /\ ~MayResend(BaseCall(w)) /\ LoginAsked(BaseCall(w))
         /\ \A i \in 1..Len(BaseCall(w)) : BaseCall(w)[i][2] = w
         /\ \E i \in 1..Len(BaseCall(w)) : /\ BaseCall(w)[i] = <<"Do", w>>
                                           /\ \A j \in 1..Len(BaseCall(w)) : BaseCall(w)[j][1] = "Do" => j = i
<1> DEFINE s == BaseCall(w)
           e == <<<<"Do", w>>, <<"Release", w>>>>
           Q == (Before \cup {"Do", "Release"}) \X {w}
<1>1. PICK p \in Seq(Before \X {w}) : s = p \o e /\ LookedUp(p)
  BY BaseCallForm
<1>2. e \in Seq(Q) /\ Len(e) = 2 /\ e[1] = <<"Do", w>> /\ e[2] = <<"Release", w>>
  OBVIOUS
<1>3. p \in Seq(Q)
  BY SeqMonotonic
<1>4. Len(p) \in Nat /\ \A i \in 1..Len(p) : p[i] \in Before \X {w}
  BY LenProperties, ElementOfSeq
<1> HIDE DEF s, e, Q
<1>5. /\ s \in Seq(Q) /\ Len(s) = Len(p) + 2
      /\ \A i \in 1..(Len(p) + 2) : s[i] = IF i <= Len(p) THEN p[i] ELSE e[i - Len(p)]
  <2>1. /\ p \o e \in Seq(Q) /\ Len(p \o e) = Len(p) + Len(e)
        /\ \A i \in 1..(Len(p) + Len(e)) : (p \o e)[i] = IF i <= Len(p) THEN p[i] ELSE e[i - Len(p)]
    BY <1>2, <1>3, ConcatProperties
  <2>2. QED
    BY <1>1, <1>2, <2>1
<1> DEFINE n == Len(p)
<1>6. /\ n \in Nat /\ Len(s) = n + 2
      /\ \A i \in 1..n : s[i][1] \in Before /\ s[i][2] = w
      /\ s[n + 1] = <<"Do", w>> /\ s[n + 2] = <<"Release", w>>
      /\ \A i \in 1..Len(s) : i \in 1..n \/ i = n + 1 \/ i = n + 2
  <2>1. \A i \in 1..n : i \in 1..(n + 2) /\ i <= n
    BY <1>4
  <2>2. n + 1 \in 1..(n + 2) /\ ~(n + 1 <= n) /\ (n + 1) - n = 1
    BY <1>4
  <2>3. n + 2 \in 1..(n + 2) /\ ~(n + 2 <= n) /\ (n + 2) - n = 2
    BY <1>4
  <2>4. s[n + 1] = e[1] /\ s[n + 2] = e[2]
    BY <1>5, <2>2, <2>3
  <2>5. \A i \in 1..n : s[i] = p[i]
    BY <1>5, <2>1
  <2>6. \A i \in 1..Len(s) : i \in 1..n \/ i = n + 1 \/ i = n + 2
    BY <1>4, <1>5
  <2>7. QED
    BY <1>2, <1>4, <1>5, <2>4, <2>5, <2>6
<1>7. s \in Seq(Steps)
  <2>1. Q \subseteq Steps
    BY DEF Steps, CallSteps, Before, Q
  <2>2. QED
    BY <1>5, <2>1, SeqMonotonic
<1> HIDE DEF n
<1>8. /\ \A i \in 1..Len(s) : s[i][1] \in Before \cup {"Do", "Release"} /\ s[i][2] = w
      /\ \A i \in 1..Len(s) : s[i][1] = "Do" => i = n + 1
      /\ \A i \in 1..Len(s) : s[i][1] = "Release" => i = n + 2
  BY <1>6, SMTT(30) DEF Before
<1>9. \A N : N \cap (Before \cup {"Do", "Release"}) = {} => ~Has(s, N)
  BY <1>8 DEF Has
<1>10. SectionEnds(s) /\ AskedBefore(s) /\ LoginAsked(s)
  BY <1>8 DEF SectionEnds, AskedBefore, LoginAsked, Before
<1>11. OneRequest(s) /\ ~MayResend(s)
  BY <1>8 DEF OneRequest, MayResend, Before
<1>12. Released(s)
  <2> SUFFICES ASSUME NEW i \in 1..Len(s)
               PROVE  \E j \in i..Len(s) : s[j][1] = "Release" /\ \A k \in i..(j - 1) : s[k][1] # "Release"
    BY DEF Released
  <2>1. n + 2 \in i..Len(s) /\ s[n + 2][1] = "Release"
    BY <1>6
  <2>2. \A k \in i..((n + 2) - 1) : s[k][1] # "Release"
    BY <1>6, <1>8
  <2>3. QED
    BY <2>1, <2>2
<1>13. n + 1 \in 1..Len(s) /\ s[n + 1] = <<"Do", w>>
  BY <1>6
<1>14. LookedUp(s)
  <2>1. p \in Seq(Steps) /\ e \in Seq(Steps)
    <3>1. Before \X {w} \subseteq Steps
      BY DEF Steps, CallSteps, Before
    <3>2. QED
      BY <3>1, SeqMonotonic DEF e, Steps, CallSteps
  <2>2. LookedUp(e)
    BY DEF LookedUp, e
  <2>3. QED
    BY <1>1, <2>1, <2>2, LookedUpConcat
<1>15. DoesCarry(s) <=> w \in Carry
  BY <1>8, <1>13 DEF DoesCarry
<1>16. QED
  BY <1>7, <1>8, <1>9, <1>10, <1>11, <1>12, <1>13, <1>14, <1>15 DEF Stack, s

(* A sequence that an operation puts in front, and the names in it. *)
Program(p, N) == /\ p \in Seq(Steps) /\ Stack(p) /\ LoginAsked(p)
                 /\ \A i \in 1..Len(p) : p[i][1] \in N
Base == Before \cup {"Do", "Release"}

(* Programs are put together without a session to take over, a pending     *)
(* resend or a second request of the call.                                 *)
LEMMA ProgramConcat ==
  ASSUME NEW a, NEW M, NEW b, NEW N, Program(a, M), Program(b, N),
         M \cap {"Unlock", "Retry"} = {} \/ N \cap Critical = {},
         "SetToken" \notin N,
         ~DoesCarry(a) \/ ~DoesCarry(b),
         ~MayResend(a) /\ ~MayResend(b)
  PROVE  /\ Program(a \o b, M \cup N)
         /\ DoesCarry(a \o b) <=> DoesCarry(a) \/ DoesCarry(b)
         /\ ~MayResend(a \o b)
<1>1. a \in Seq(Steps) /\ b \in Seq(Steps) /\ a \o b \in Seq(Steps)
  BY ConcatProperties DEF Program
<1>2. ~Has(b, {"SetToken"}) /\ (Has(a, {"Unlock", "Retry"}) => ~Has(b, Critical))
  BY DEF Program, Has
<1>3. Stack(a \o b)
  BY <1>1, <1>2, StackConcat DEF Program
<1>4. \A i \in 1..Len(a \o b) : (a \o b)[i][1] \in M \cup N
  BY <1>1, ConcatFrom DEF Program
<1>5. QED
  BY <1>1, <1>3, <1>4, ConcatHas DEF Program

(* BaseCall is one. *)
LEMMA BaseCallProgram ==
  ASSUME NEW w \in Whats, cfg.kind \in Kinds
  PROVE  /\ Program(BaseCall(w), Base) /\ ~MayResend(BaseCall(w))
         /\ DoesCarry(BaseCall(w)) <=> w \in Carry
<1>1. ASSUME NEW i \in 1..Len(BaseCall(w)), BaseCall(w)[i][1] \notin Base PROVE FALSE
  <2>1. Has(BaseCall(w), {BaseCall(w)[i][1]})
    BY DEF Has
  <2>2. {BaseCall(w)[i][1]} \cap (Before \cup {"Do", "Release"}) = {}
    BY <1>1 DEF Base
  <2>3. QED
    BY <2>1, <2>2, BaseCallStack
<1>2. QED
  BY <1>1, BaseCallStack DEF Program

(* So is a step on its own, if it is none of those the others need.        *)
LEMMA SingleProgram ==
  ASSUME NEW x \in Steps, x[1] \notin {"Client", "Device", "LoggedIn", "Do", "Retry"}
  PROVE  Program(<<x>>, {x[1]}) /\ ~MayResend(<<x>>) /\ ~DoesCarry(<<x>>)
<1>1. \A i \in 1..Len(<<x>>) : <<x>>[i][1] \in {x[1]}
  <2>1. \A i \in 1..Len(<<x>>) : i = 1
    BY SingleStep
  <2>2. QED
    BY <2>1, SingleStep
<1>2. QED
  BY <1>1, SingleStep DEF Program

(* A call whose answer decides on a resend. *)
LEMMA CallProgram ==
  ASSUME NEW w \in {"call", "safe", "system"}, cfg.kind \in Kinds
  PROVE  /\ Program(Call(w), Base \cup {"Retry"})
         /\ DoesCarry(Call(w)) <=> w \in Carry
         /\ MayResend(Call(w)) <=> w \in Carry
<1> DEFINE a == BaseCall(w)
           x == <<"Retry", w>>
<1>1. w \in Whats /\ x \in Steps /\ x[1] = "Retry" /\ x[2] = w
  BY DEF Whats, Carry, Steps, CallSteps
<1>2. /\ a \in Seq(Steps) /\ Stack(a) /\ LoginAsked(a) /\ ~MayResend(a)
      /\ DoesCarry(a) <=> w \in Carry
      /\ \A i \in 1..Len(a) : a[i][1] \in Base /\ a[i][2] = w
  BY <1>1, BaseCallProgram, BaseCallStack DEF Program
<1> HIDE DEF a, x
<1> DEFINE b == <<x>>
<1>3. /\ b \in Seq(Steps) /\ Stack(b) /\ LoginAsked(b)
      /\ \A N : Has(b, N) <=> "Retry" \in N
      /\ ~DoesCarry(b) /\ (MayResend(b) <=> w \in Carry)
      /\ \A i \in 1..Len(b) : b[i][1] = "Retry"
  <2>1. \A i \in 1..Len(b) : i = 1
    BY <1>1, SingleStep
  <2>2. QED
    BY <1>1, <2>1, SingleStep
<1>4. Call(w) = a \o b
  BY DEF Call, a, b, x
<1> HIDE DEF b
<1>5. Has(a, {"Unlock", "Retry"}) => ~Has(b, Critical)
  BY <1>3 DEF Critical
<1>6. ~Has(b, {"SetToken"}) /\ ~Has(b, {"LoggedIn"})
  BY <1>3
<1>7. MayResend(b) => \A i \in 1..Len(a) : a[i][1] \in CallSteps /\ a[i][2] \in Carry
  BY <1>2, <1>3 DEF Base, Before, CallSteps
<1>8. Stack(a \o b)
  BY <1>2, <1>3, <1>5, <1>6, <1>7, StackConcat
<1>9. a \o b \in Seq(Steps) /\ \A i \in 1..Len(a \o b) : (a \o b)[i][1] \in Base \cup {"Retry"}
  BY <1>2, <1>3, ConcatFrom
<1>10. QED
  BY <1>2, <1>3, <1>4, <1>8, <1>9, ConcatHas DEF Program

(* A login at one URL: nothing comes between its request and the           *)
(* evaluation of the answer.                                               *)
LoginTry(k) == BaseCall("login") \o <<<<"LoggedIn", k>>>>

(* Login sends its request and evaluates the answer.                       *)
LEMMA LoginTryProgram ==
  ASSUME NEW k \in Nat, cfg.kind \in Kinds
  PROVE  /\ Program(LoginTry(k), Base \cup {"LoggedIn"})
         /\ ~DoesCarry(LoginTry(k)) /\ ~MayResend(LoginTry(k))
<1> DEFINE a == BaseCall("login")
           x == <<"LoggedIn", k>>
<1>1. "login" \in Whats /\ "login" \notin Carry /\ x \in Steps /\ x[1] = "LoggedIn"
  BY DEF Whats, Carry, Steps, OtherSteps
<1>2. /\ a \in Seq(Steps) /\ Stack(a) /\ LoginAsked(a) /\ ~MayResend(a) /\ ~DoesCarry(a)
      /\ \A i \in 1..Len(a) : a[i][1] \in Base
  BY <1>1, BaseCallProgram DEF Program
<1>3. PICK d \in 1..Len(a) : a[d] = <<"Do", "login">> /\ \A j \in 1..Len(a) : a[j][1] = "Do" => j = d
  BY <1>1, BaseCallStack
<1> HIDE DEF a, x
<1> DEFINE b == <<x>>
<1>4. /\ b \in Seq(Steps) /\ Len(b) = 1 /\ b[1] = x /\ Stack(b)
      /\ \A N : Has(b, N) <=> "LoggedIn" \in N
      /\ ~DoesCarry(b) /\ ~MayResend(b)
  BY <1>1, SingleStep
<1> HIDE DEF b
<1> DEFINE c == a \o b
<1>5. /\ c \in Seq(Steps) /\ Len(c) = Len(a) + 1 /\ Len(a) \in Nat
      /\ \A i \in 1..Len(a) : c[i] = a[i]
      /\ \A i \in 1..Len(c) : i \in 1..Len(a) \/ i = Len(a) + 1
      /\ \A i \in 1..Len(b) : c[i + Len(a)] = b[i]
  <2>1. /\ c \in Seq(Steps) /\ Len(c) = Len(a) + Len(b) /\ Len(a) \in Nat
        /\ \A i \in 1..Len(a) : c[i] = a[i]
        /\ \A i \in 1..Len(b) : c[i + Len(a)] = b[i]
    <3>1. a \in Seq(Steps) /\ b \in Seq(Steps)
      BY <1>2, <1>4
    <3>2. QED
      BY <3>1, ConcatFrom
  <2>2. \A i \in 1..Len(c) : i \in 1..Len(a) \/ i = Len(a) + 1
    BY <1>4, <2>1
  <2>3. QED
    BY <1>4, <2>1, <2>2
<1>6. c[Len(a) + 1] = x
  <2>1. 1 \in 1..Len(b) /\ c[1 + Len(a)] = b[1]
    BY <1>4, <1>5
  <2>2. 1 + Len(a) = Len(a) + 1
    BY <1>5
  <2>3. QED
    BY <1>4, <2>1, <2>2
<1> HIDE DEF c
<1>7. \A i \in 1..Len(c) : c[i][1] \in Base \cup {"LoggedIn"}
  BY <1>1, <1>2, <1>5, <1>6
<1>8. ASSUME NEW j \in 1..Len(c), c[j][1] = "LoggedIn" PROVE j = Len(a) + 1
  BY <1>2, <1>5, <1>8 DEF Base, Before
<1>9. AskedBefore(c)
  <2> SUFFICES ASSUME NEW i \in 1..Len(c), NEW j \in 1..Len(c), i < j,
                      c[i][1] \in {"Do", "LoggedOut", "LoggedIn"}, c[j][1] = "LoggedIn"
               PROVE  \E l \in i..(j - 1) : c[l] = <<"Do", "login">>
    BY DEF AskedBefore
  <2>1. j = Len(a) + 1 /\ i \in 1..Len(a)
    BY <1>5, <1>8
  <2>2. c[i] = a[i] /\ a[i][1] \in Base
    BY <1>2, <1>5, <2>1
  <2>3. a[i][1] = "Do"
    BY <2>2 DEF Base, Before
  <2>4. c[i] = <<"Do", "login">> /\ i \in i..(j - 1)
    BY <1>3, <1>5, <2>1, <2>2, <2>3
  <2>5. QED
    BY <2>4
<1>10. LoginAsked(c)
  <2> SUFFICES ASSUME NEW j \in 1..Len(c), c[j][1] = "LoggedIn"
               PROVE  \E l \in 1..(j - 1) : c[l] = <<"Do", "login">>
    BY DEF LoginAsked
  <2>1. d \in 1..(j - 1) /\ c[d] = <<"Do", "login">>
    BY <1>3, <1>5, <1>8
  <2>2. QED
    BY <2>1
<1>11. ~Has(a, {"Unlock", "Retry"})
  BY <1>2 DEF Has, Base, Before
<1>12. ~Has(b, {"SetToken"})
  BY <1>4
<1>13. Stack(c)
  BY <1>2, <1>4, <1>9, <1>11, <1>12, StackConcat DEF c
<1>14. ~DoesCarry(c) /\ ~MayResend(c)
  BY <1>2, <1>4, ConcatHas DEF c
<1>15. QED
  BY <1>5, <1>7, <1>10, <1>13, <1>14 DEF Program, LoginTry, a, b, c, x

(* A logout, a login, and the two under the mutex. *)
Out     == Base \cup {"LoggedOut"}
In      == Base \cup {"Reset", "LoggedIn"}
Section == Out \cup In \cup {"Unlock"}

(* Logout is a request and what follows it. *)
LEMMA LogoutProgram ==
  ASSUME cfg.kind \in Kinds
  PROVE  Program(Logout, Out) /\ ~DoesCarry(Logout) /\ ~MayResend(Logout)
<1> DEFINE x == <<"LoggedOut", 0>>
<1>1. "logout" \in Whats /\ "logout" \notin Carry /\ x \in Steps /\ x[1] = "LoggedOut"
  BY DEF Whats, Carry, Steps, OtherSteps
<1>2. Program(BaseCall("logout"), Base) /\ ~DoesCarry(BaseCall("logout")) /\ ~MayResend(BaseCall("logout"))
  BY <1>1, BaseCallProgram
<1> HIDE DEF x
<1>3. Program(<<x>>, {"LoggedOut"}) /\ ~DoesCarry(<<x>>) /\ ~MayResend(<<x>>)
  BY <1>1, SingleProgram
<1>4. Base \cap {"Unlock", "Retry"} = {}
  BY DEF Base, Before
<1>5. "SetToken" \notin {"LoggedOut"}
  OBVIOUS
<1>6. Logout = BaseCall("logout") \o <<x>>
  BY DEF Logout, x
<1>7. QED
  BY <1>2, <1>3, <1>4, <1>5, <1>6, ProgramConcat DEF Out

(* Login resets the session first. *)
LEMMA LoginProgram ==
  ASSUME cfg.kind \in Kinds, cfg.urls \in Nat
  PROVE  Program(Login, In) /\ ~DoesCarry(Login) /\ ~MayResend(Login)
<1> DEFINE x == <<"Reset", 0>>
<1>1. x \in Steps /\ x[1] = "Reset"
  BY DEF Steps, OtherSteps
<1>2. /\ Program(LoginTry(cfg.urls), Base \cup {"LoggedIn"})
      /\ ~DoesCarry(LoginTry(cfg.urls)) /\ ~MayResend(LoginTry(cfg.urls))
  BY LoginTryProgram
<1> HIDE DEF x
<1>3. Program(<<x>>, {"Reset"}) /\ ~DoesCarry(<<x>>) /\ ~MayResend(<<x>>)
  BY <1>1, SingleProgram
<1>4. {"Reset"} \cap {"Unlock", "Retry"} = {} /\ "SetToken" \notin Base \cup {"LoggedIn"}
  BY DEF Base, Before
<1>5. Login = <<x>> \o LoginTry(cfg.urls)
  <2>1. BaseCall("login") \in Seq(Steps)
    BY BaseCallStack DEF Whats
  <2>2. <<<<"LoggedIn", cfg.urls>>>> \in Seq(Steps)
    BY DEF Steps, OtherSteps
  <2>3. <<x>> \in Seq(Steps)
    BY <1>3 DEF Program
  <2>4. QED
    BY <2>1, <2>2, <2>3, ConcatAssociative DEF Login, LoginTry, x
<1>6. Program(<<x>> \o LoginTry(cfg.urls), {"Reset"} \cup (Base \cup {"LoggedIn"}))
      /\ ~DoesCarry(<<x>> \o LoginTry(cfg.urls)) /\ ~MayResend(<<x>> \o LoginTry(cfg.urls))
  BY <1>2, <1>3, <1>4, ProgramConcat
<1>7. {"Reset"} \cup (Base \cup {"LoggedIn"}) = In
  BY DEF In
<1>8. QED
  BY <1>5, <1>6, <1>7

(* What ReLogin does while it holds ReLoginMutex.                          *)
LEMMA SectionProgram ==
  ASSUME cfg.kind \in Kinds, cfg.urls \in Nat, NEW o \in {Logout, <<>>}
  PROVE  /\ Program(o \o Login \o <<<<"Unlock", 0>>>>, Section)
         /\ ~DoesCarry(o \o Login \o <<<<"Unlock", 0>>>>)
         /\ ~MayResend(o \o Login \o <<<<"Unlock", 0>>>>)
<1> DEFINE x == <<"Unlock", 0>>
<1>1. x \in Steps /\ x[1] = "Unlock"
  BY DEF Steps, OtherSteps
<1>2. Program(o, Out) /\ ~DoesCarry(o) /\ ~MayResend(o)
  <2>1. CASE o = Logout
    BY <2>1, LogoutProgram
  <2>2. CASE o = <<>>
    BY <2>2, EmptySeq DEF Program, Stack, SectionEnds, AskedBefore, OneRequest, Released, LookedUp, LoginAsked,
                          DoesCarry, MayResend
  <2>3. QED
    BY <2>1, <2>2
<1> HIDE DEF x
<1>3. Program(<<x>>, {"Unlock"}) /\ ~DoesCarry(<<x>>) /\ ~MayResend(<<x>>)
  BY <1>1, SingleProgram
<1>4. Program(o \o Login, Out \cup In) /\ ~DoesCarry(o \o Login) /\ ~MayResend(o \o Login)
  <2>1. Out \cap {"Unlock", "Retry"} = {} /\ "SetToken" \notin In
    BY DEF Out, In, Base, Before
  <2>2. QED
    BY <1>2, <2>1, LoginProgram, ProgramConcat
<1>5. (Out \cup In) \cap {"Unlock", "Retry"} = {} /\ "SetToken" \notin {"Unlock"}
  BY DEF Out, In, Base, Before
<1>6. /\ Program(o \o Login \o <<x>>, (Out \cup In) \cup {"Unlock"})
      /\ ~DoesCarry(o \o Login \o <<x>>) /\ ~MayResend(o \o Login \o <<x>>)
  BY <1>3, <1>4, <1>5, ProgramConcat
<1>7. QED
  BY <1>6 DEF Section, x

(* What a resend puts ahead: the login, the system information, the        *)
(* request once more.                                                      *)
Again == Base \cup {"OldToken", "Lock", "Refresh", "Retry", "Finish"}

(* ReLogin reads the token and waits for the mutex.                        *)
LEMMA ReLoginProgram == Program(ReLogin, Again) /\ ~DoesCarry(ReLogin) /\ ~MayResend(ReLogin)
<1>1. /\ ReLogin \in Seq(Steps) /\ Len(ReLogin) = 2
      /\ ReLogin[1][1] = "OldToken" /\ ReLogin[2][1] = "Lock"
  BY DEF ReLogin, Steps, OtherSteps
<1> DEFINE s == ReLogin
<1> HIDE DEF s
<1>2. \A i \in 1..Len(s) : s[i][1] \in {"OldToken", "Lock"}
  BY <1>1 DEF s
<1>3. Stack(s)
  BY <1>2 DEF Stack, SectionEnds, AskedBefore, OneRequest, Released, LookedUp
<1>4. LoginAsked(s) /\ ~DoesCarry(s) /\ ~MayResend(s)
  BY <1>2 DEF LoginAsked, DoesCarry, MayResend
<1>5. QED
  BY <1>1, <1>2, <1>3, <1>4 DEF Program, Again, s

(* SetSystemInfo asks for the system, or does nothing.                     *)
LEMMA SystemProgram ==
  ASSUME cfg.kind \in Kinds
  PROVE  Program(SetSystemInfo, Again) /\ ~DoesCarry(SetSystemInfo) /\ ~MayResend(SetSystemInfo)
<1> DEFINE x == <<"Refresh", 0>>
<1>1. x \in Steps /\ x[1] = "Refresh"
  BY DEF Steps, OtherSteps
<1> HIDE DEF x
<1>2. Program(<<x>>, {"Refresh"}) /\ ~DoesCarry(<<x>>) /\ ~MayResend(<<x>>)
  BY <1>1, SingleProgram
<1>3. Program(Call("system"), Base \cup {"Retry"}) /\ ~DoesCarry(Call("system")) /\ ~MayResend(Call("system"))
  BY CallProgram DEF Carry
<1>4. {"Refresh"} \cap {"Unlock", "Retry"} = {} /\ "SetToken" \notin Base \cup {"Retry"}
  BY DEF Base, Before
<1>5. /\ Program(<<x>> \o Call("system"), {"Refresh"} \cup (Base \cup {"Retry"}))
      /\ ~DoesCarry(<<x>> \o Call("system")) /\ ~MayResend(<<x>> \o Call("system"))
  BY <1>2, <1>3, <1>4, ProgramConcat
<1>6. Program(<<x>> \o Call("system"), Again)
  BY <1>5 DEF Program, Again
<1>7. /\ Program(<<>>, Again) /\ ~DoesCarry(<<>>) /\ ~MayResend(<<>>)
  BY EmptySeq DEF Program, Stack, SectionEnds, AskedBefore, OneRequest, Released, LookedUp, LoginAsked, DoesCarry, MayResend
<1>8. CASE cfg.kind = "oceanstor"
  BY <1>5, <1>6, <1>8 DEF SetSystemInfo, x
<1>9. CASE cfg.kind # "oceanstor"
  BY <1>7, <1>9 DEF SetSystemInfo
<1>10. QED
  BY <1>8, <1>9

(* Call logs in again, refreshes the system and repeats the request.       *)
LEMMA ResendProgram ==
  ASSUME cfg.kind \in Kinds, NEW w \in Whats
  PROVE  /\ Program(Resend(w), Again) /\ ~MayResend(Resend(w))
         /\ DoesCarry(Resend(w)) <=> w \in Carry
<1> DEFINE x == <<"Finish", w>>
           a == ReLogin \o SetSystemInfo
           b == a \o BaseCall(w)
<1>1. x \in Steps /\ x[1] = "Finish"
  BY DEF Steps, CallSteps
<1> HIDE DEF x
<1>2. Program(<<x>>, {"Finish"}) /\ ~DoesCarry(<<x>>) /\ ~MayResend(<<x>>)
  BY <1>1, SingleProgram
<1>3. /\ Again \cap Critical = {} /\ "SetToken" \notin Again
      /\ Base \cap Critical = {} /\ "SetToken" \notin Base
      /\ {"Finish"} \cap Critical = {} /\ "SetToken" \notin {"Finish"}
      /\ Again \cup Again = Again /\ Again \cup Base = Again /\ Again \cup {"Finish"} = Again
  BY DEF Again, Base, Before, Critical
<1>4. Program(a, Again) /\ ~DoesCarry(a) /\ ~MayResend(a)
  BY <1>3, ReLoginProgram, SystemProgram, ProgramConcat
<1> HIDE DEF a
<1>5. Program(b, Again) /\ (DoesCarry(b) <=> w \in Carry) /\ ~MayResend(b)
  BY <1>3, <1>4, BaseCallProgram, ProgramConcat
<1> HIDE DEF b
<1>6. Program(b \o <<x>>, Again) /\ (DoesCarry(b \o <<x>>) <=> w \in Carry) /\ ~MayResend(b \o <<x>>)
  BY <1>2, <1>3, <1>5, ProgramConcat
<1>7. QED
  BY <1>6 DEF Resend, a, b, x
=============================================================================
