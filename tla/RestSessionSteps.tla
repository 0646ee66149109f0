-------------------------- MODULE RestSessionSteps --------------------------
EXTENDS RestSessionPrograms

-----------------------------------------------------------------------------
(* What one goroutine's step keeps. *)
Local(j) == Stack(j.todo) /\ Answer(j) /\ Counted(j)

(* The goroutine goes on to a later step, without a login's answer or with *)
(* an error.                                                               *)
LEMMA MovesOn ==
  ASSUME NEW g \in Goroutines, NEW j \in Goroutines, NEW d, Drop(j.todo, g.todo, d), Local(g),
         j.ran = g.ran, j.lost = g.lost, j.new = g.new,
         \/ j.res = "err"
         \/ j.res = g.res /\ \A i \in 1..d : g.todo[i] # <<"Do", "login">>
  PROVE  /\ Local(j)
         /\ Has(j.todo, Critical) => Has(g.todo, Critical)
         /\ d > 0 => ~Has(j.todo, {"SetToken"})
<1> DEFINE s == g.todo
           r == j.todo
<1>0. s \in Seq(Steps) /\ r \in Seq(Steps) /\ Len(s) \in Nat /\ d \in 0..Len(s) /\ Len(r) = Len(s) - d
  BY LenProperties DEF Goroutines, Drop
<1>1. ASSUME NEW i \in 1..Len(r) PROVE i + d \in 1..Len(s) /\ r[i] = s[i + d]
  BY <1>0, SMTT(30) DEF Drop
<1>2. Stack(r) /\ (d > 0 => ~Has(r, {"SetToken"}))
  BY <1>0, StackDrop DEF Local
<1>3. Has(r, Critical) => Has(s, Critical)
  BY <1>1 DEF Has
<1>4. (DoesCarry(r) => DoesCarry(s)) /\ (MayResend(r) => MayResend(s))
  BY <1>1 DEF DoesCarry, MayResend
<1>5. Counted(j)
  BY <1>4 DEF Counted, Local
<1>6. Answer(j)
  <2>1. CASE j.res = "err"
    BY <2>1 DEF Answer
  <2>2. CASE j.res = g.res /\ \A i \in 1..d : s[i] # <<"Do", "login">>
    <3> SUFFICES ASSUME NEW i \in 1..Len(r), r[i][1] = "LoggedIn", \A k \in 1..(i - 1) : r[k] # <<"Do", "login">>,
                        j.res = "ok"
                 PROVE  j.new > 0
      BY DEF Answer
    <3>1. i + d \in 1..Len(s) /\ s[i + d][1] = "LoggedIn"
      BY <1>1
    <3>2. ASSUME NEW k \in 1..((i + d) - 1) PROVE s[k] # <<"Do", "login">>
      <4>1. CASE k <= d
        BY <1>0, <2>2, <4>1
      <4>2. CASE ~(k <= d)
        <5>1. k - d \in 1..(i - 1) /\ k - d \in 1..Len(r) /\ (k - d) + d = k
          BY <1>0, <4>2
        <5>2. QED
          BY <1>1, <5>1
      <4>3. QED
        BY <4>1, <4>2
    <3>3. QED
      BY <2>2, <3>1, <3>2 DEF Answer, Local
  <2>3. QED
    BY <2>1, <2>2
<1>7. QED
  BY <1>2, <1>3, <1>5, <1>6 DEF Local

(* The goroutine puts a program in front of what is left of its steps. *)
LEMMA TakesOn ==
  ASSUME NEW g \in Goroutines, NEW j \in Goroutines, NEW p, NEW N, NEW r, NEW d,
         Program(p, N), Drop(r, g.todo, d), j.todo = p \o r, Local(g), d > 0,
         N \cap {"Unlock", "Retry"} = {} \/ ~Has(r, Critical),
         LoginAsked(r),
         ~MayResend(p), ~MayResend(r), ~DoesCarry(p) \/ ~DoesCarry(r),
         DoesCarry(p) => g.ran <= 1 /\ (g.ran = 1 => g.lost),
         j.ran = g.ran, j.lost = g.lost
  PROVE  Local(j)
<1>1. /\ g.todo \in Seq(Steps) /\ p \in Seq(Steps) /\ r \in Seq(Steps)
      /\ Stack(p) /\ LoginAsked(p)
  BY DEF Goroutines, Program, Drop
<1>2. Stack(r) /\ ~Has(r, {"SetToken"})
  BY <1>1, StackDrop DEF Local
<1>3. Has(p, {"Unlock", "Retry"}) => ~Has(r, Critical)
  BY DEF Program, Has
<1>4. Stack(p \o r)
  BY <1>1, <1>2, <1>3, StackConcat
<1>6. LoginAsked(j.todo) /\ ~MayResend(j.todo) /\ (DoesCarry(j.todo) <=> DoesCarry(p) \/ DoesCarry(r))
  BY <1>1, ConcatHas
<1>7. Answer(j)
  BY <1>6 DEF Answer, LoginAsked
<1>8. DoesCarry(r) => DoesCarry(g.todo)
  <2>1. \A i \in 1..Len(r) : i + d \in 1..Len(g.todo) /\ r[i] = g.todo[i + d]
    BY <1>1, LenProperties DEF Drop
  <2>2. QED
    BY <2>1 DEF DoesCarry
<1>9. Counted(j)
  BY <1>6, <1>8 DEF Counted, Local
<1>10. QED
  BY <1>4, <1>7, <1>9 DEF Local

-----------------------------------------------------------------------------
(* What a goroutine's step keeps of the whole. *)
MutexKept(t, j) ==
    \/ cli'.mutex = cli.mutex /\ (Has(j.todo, Critical) => Has(thr[t].todo, Critical))
    \/ cli'.mutex = (IF cli.mutex = {t} THEN {} ELSE cli.mutex) /\ ~Has(j.todo, Critical)
    \/ cli.mutex = {} /\ cli'.mutex = {t}

(* A step of one goroutine keeps the invariant when it keeps these parts.  *)
LEMMA Frame ==
  ASSUME IInv, NEW t \in Threads, NEW j \in Goroutines, cfg' = cfg, Becomes(t, j),
         cli' \in ClientStates, arr' \in Arrays, Local(j), MutexKept(t, j), Sessions', Paired'
  PROVE  IInv'
<1>1. Threads' = Threads /\ ClientStates' = ClientStates
  BY DEF Threads, ClientStates
<1>2. thr' = [thr EXCEPT ![t] = j] /\ thr \in [Threads -> Goroutines] /\ cfg \in Clients
  BY DEF Becomes, IInv, Types
<1>3. Types'
  BY <1>1, <1>2 DEF Types
<1>4. \A u \in Threads : thr'[u] = IF u = t THEN j ELSE thr[u]
  BY <1>2
<1>5. ASSUME NEW u \in Threads' PROVE (Stack(thr[u].todo) /\ Answer(thr[u]) /\ Counted(thr[u]))'
  <2>1. u \in Threads /\ Local(thr'[u])
    BY <1>1, <1>4 DEF IInv, Local
  <2>2. QED
    BY <2>1 DEF Local, Answer, Counted
<1>6. Exclusive'
  <2> SUFFICES ASSUME NEW u \in Threads, Has(thr'[u].todo, Critical) PROVE cli'.mutex = {u}
    BY <1>1 DEF Exclusive
  <2>0. \A v \in Threads : Has(thr[v].todo, Critical) => cli.mutex = {v}
    BY DEF IInv, Exclusive
  <2>1. CASE u = t
    <3>1. Has(j.todo, Critical)
      BY <1>4, <2>1
    <3>2. QED
      BY <2>0, <2>1, <3>1 DEF MutexKept
  <2>2. CASE u # t
    <3>1. Has(thr[u].todo, Critical)
      BY <1>4, <2>2
    <3>2. cli.mutex = {u}
      BY <2>0, <3>1
    <3>3. QED
      BY <2>2, <3>2 DEF MutexKept
  <2>3. QED
    BY <2>1, <2>2
<1>7. QED
  BY <1>3, <1>5, <1>6 DEF IInv

(* The head of the steps. *)
LEMMA AtHead ==
  ASSUME Types, NEW t \in Threads, thr[t].todo # <<>>
  PROVE  /\ thr[t] \in Goroutines /\ thr[t].todo \in Seq(Steps)
         /\ Drop(Tail(thr[t].todo), thr[t].todo, 1) /\ Tail(thr[t].todo) \in Seq(Steps)
         /\ 1 \in 1..Len(thr[t].todo) /\ Head(thr[t].todo) = thr[t].todo[1]
         /\ thr[t].todo[1] \in Steps
<1>1. thr[t] \in Goroutines /\ thr[t].todo \in Seq(Steps)
  BY DEF Types, Goroutines
<1>2. QED
  BY <1>1, TailDrops, ElementOfSeq DEF Drop

(* No goroutine is about to take a session over unless that is ahead.      *)
LEMMA NotAtSetToken ==
  ASSUME NEW j \in Goroutines, ~Has(j.todo, {"SetToken"})
  PROVE  ~(j.todo # <<>> /\ Head(j.todo)[1] = "SetToken")
<1>1. j.todo \in Seq(Steps)
  BY DEF Goroutines
<1>2. QED
  BY <1>1, TailDrops DEF Has

(* Sessions and pairs stay as they are when neither array nor client       *)
(* changes its session.                                                    *)
LEMMA Calm ==
  ASSUME IInv, NEW t \in Threads, NEW j \in Goroutines, cfg' = cfg, Becomes(t, j),
         arr' = arr, cli'.tok = cli.tok, cli'.dev = cli.dev, j.new = thr[t].new,
         \/ j.own = thr[t].own
         \/ j.own.tok <= arr.n /\ (HasDevice => OfOneLogin(j.own)),
         ~At(t, "SetToken"), ~Has(j.todo, {"SetToken"})
  PROVE  Sessions' /\ Paired'
<1>1. Threads' = Threads /\ (HasDevice' <=> HasDevice)
  BY DEF Threads, HasDevice
<1>2. thr' = [thr EXCEPT ![t] = j] /\ thr \in [Threads -> Goroutines]
  BY DEF Becomes, IInv, Types
<1>3. \A u \in Threads : thr'[u] = IF u = t THEN j ELSE thr[u]
  BY <1>2
<1>4. Sessions'
  BY <1>1, <1>3 DEF Sessions, IInv
<1>5. ~(j.todo # <<>> /\ Head(j.todo)[1] = "SetToken")
  BY NotAtSetToken
<1>6. \A u \in Threads : At(u, "SetToken")' <=> At(u, "SetToken")
  BY <1>3, <1>5 DEF At
<1>7. ASSUME HasDevice, NEW u \in Threads PROVE OfOneLogin(thr[u].own)'
  <2>1. OfOneLogin(thr[u].own) /\ OfOneLogin(thr[t].own)
    BY <1>7 DEF IInv, Paired
  <2>2. OfOneLogin(j.own)
    BY <1>7, <2>1
  <2>3. thr'[u].own \in {j.own, thr[u].own}
    BY <1>3
  <2>4. QED
    BY <2>1, <2>2, <2>3 DEF OfOneLogin
<1>8. ASSUME HasDevice, NEW u \in Threads, At(u, "SetToken") PROVE thr'[u].new > 0 /\ cli'.dev = arr'.of[thr'[u].new]
  BY <1>3, <1>8 DEF IInv, Paired
<1>9. ASSUME HasDevice, \A u \in Threads : ~At(u, "SetToken") PROVE OfOneLogin(cli)'
  BY <1>9 DEF IInv, Paired, OfOneLogin
<1>10. Paired'
  <2> SUFFICES ASSUME HasDevice
               PROVE  /\ \A u \in Threads : OfOneLogin(thr[u].own)'
                      /\ \A u \in Threads : At(u, "SetToken") => thr'[u].new > 0 /\ cli'.dev = arr'.of[thr'[u].new]
                      /\ (\A u \in Threads : ~At(u, "SetToken")) => OfOneLogin(cli)'
    BY <1>1, <1>6 DEF Paired
  <2>1. QED
    BY <1>7, <1>8, <1>9
<1>11. QED
  BY <1>4, <1>10

-----------------------------------------------------------------------------
(* One lemma per action. *)
LEMMA NotLogin ==
  ASSUME NEW s, NEW n \in Nat, \A i \in 1..n : s[i][1] # "Do"
  PROVE  \A i \in 1..n : s[i] # <<"Do", "login">>
<1>1. <<"Do", "login">>[1] = "Do"
  OBVIOUS
<1>2. QED
  BY <1>1

(* A step that only moves on and leaves the client's session alone. *)
LEMMA OnlyMovesOn ==
  ASSUME IInv, NEW t \in Threads, NEW j \in Goroutines, NEW d, d > 0, cfg' = cfg, arr' = arr, Becomes(t, j),
         Drop(j.todo, thr[t].todo, d),
         cli' \in ClientStates, cli'.tok = cli.tok, cli'.dev = cli.dev, cli'.mutex = cli.mutex,
         j.ran = thr[t].ran, j.lost = thr[t].lost, j.new = thr[t].new,
         \/ j.own = thr[t].own
         \/ j.own.tok <= arr.n /\ (HasDevice => OfOneLogin(j.own)),
         \/ j.res = "err"
         \/ j.res = thr[t].res /\ \A i \in 1..d : thr[t].todo[i] # <<"Do", "login">>,
         ~At(t, "SetToken")
  PROVE  IInv'
<1>1. thr[t] \in Goroutines /\ Local(thr[t]) /\ arr \in Arrays
  BY DEF IInv, Types, Local
<1>2. /\ Local(j) /\ ~Has(j.todo, {"SetToken"})
      /\ Has(j.todo, Critical) => Has(thr[t].todo, Critical)
  BY <1>1, MovesOn
<1>3. MutexKept(t, j)
  BY <1>2 DEF MutexKept
<1>4. Sessions' /\ Paired'
  BY <1>2, Calm
<1>5. QED
  BY <1>1, <1>2, <1>3, <1>4, Frame

(* The call ends: its deferred functions run. *)
LEMMA EndsCall ==
  ASSUME IInv, NEW t \in Threads, NEW j \in Goroutines, cfg' = cfg, arr' = arr, Becomes(t, j), j.todo = <<>>,
         cli' \in ClientStates, cli'.tok = cli.tok, cli'.dev = cli.dev,
         cli'.mutex = (IF cli.mutex = {t} THEN {} ELSE cli.mutex),
         j.ran = thr[t].ran, j.lost = thr[t].lost, j.new = thr[t].new, j.own = thr[t].own,
         ~At(t, "SetToken")
  PROVE  IInv'
<1>1. thr[t] \in Goroutines /\ Local(thr[t]) /\ arr \in Arrays
  BY DEF IInv, Types, Local
<1>2. Len(<<>>) = 0
  OBVIOUS
<1>3. Stack(<<>>) /\ \A N : ~Has(<<>>, N)
  BY <1>2 DEF Stack, SectionEnds, AskedBefore, OneRequest, Released, LookedUp, Has
<1>4. Local(j)
  BY <1>1, <1>2, <1>3, SMTT(30) DEF Local, Answer, Counted, DoesCarry, MayResend
<1>5. MutexKept(t, j)
  BY <1>3 DEF MutexKept
<1>6. Sessions' /\ Paired'
  BY <1>3, Calm
<1>7. QED
  BY <1>1, <1>4, <1>5, <1>6, Frame

(* The client after the deferred functions, and the goroutine that returns. *)
LEMMA UnwoundTypes ==
  ASSUME Types, NEW t \in Threads, NEW r \in {"ok", "err", "refused", "unconnected", "rejected", "panic"}
  PROVE  /\ Unwound(cli, t) \in ClientStates
         /\ Unwound(cli, t).tok = cli.tok /\ Unwound(cli, t).dev = cli.dev
         /\ Unwound(cli, t).mutex = (IF cli.mutex = {t} THEN {} ELSE cli.mutex)
         /\ Return(t, r) \in Goroutines /\ Return(t, r).todo = <<>>
         /\ Return(t, r).ran = thr[t].ran /\ Return(t, r).lost = thr[t].lost
         /\ Return(t, r).new = thr[t].new /\ Return(t, r).own = thr[t].own
<1>1. cli \in ClientStates /\ thr[t] \in Goroutines
  BY DEF Types
<1>2. <<>> \in Seq(Steps)
  BY EmptySeq
<1>3. /\ Return(t, r) \in Goroutines /\ Return(t, r).todo = <<>>
      /\ Return(t, r).ran = thr[t].ran /\ Return(t, r).lost = thr[t].lost
      /\ Return(t, r).new = thr[t].new /\ Return(t, r).own = thr[t].own
  BY <1>1, <1>2 DEF Return, Goroutines
<1>4. /\ Unwound(cli, t) \in ClientStates
      /\ Unwound(cli, t).tok = cli.tok /\ Unwound(cli, t).dev = cli.dev
      /\ Unwound(cli, t).mutex = (IF cli.mutex = {t} THEN {} ELSE cli.mutex)
  BY <1>1 DEF Unwound, ClientStates, Goroutines
<1>5. QED
  BY <1>3, <1>4

(* RecoverPanic ends the call of a goroutine that panics.                  *)
LEMMA PanicKeeps ==
  ASSUME IInv, NEW t \in Threads, Panic(t), ~At(t, "SetToken")
  PROVE  IInv'
<1>1. Types
  BY DEF IInv
<1>2. QED
  BY <1>1, UnwoundTypes, EndsCall DEF Panic

(* A step that is done, and nothing else. *)
LEMMA StepDone ==
  ASSUME IInv, NEW t \in Threads, NEW n, At(t, n), n \notin {"Do", "SetToken"},
         NEW j \in Goroutines, cfg' = cfg, arr' = arr, Becomes(t, j), j.todo = Tail(thr[t].todo),
         cli' \in ClientStates, cli'.tok = cli.tok, cli'.dev = cli.dev, cli'.mutex = cli.mutex,
         j.ran = thr[t].ran, j.lost = thr[t].lost, j.new = thr[t].new, j.res = thr[t].res,
         \/ j.own = thr[t].own
         \/ j.own.tok <= arr.n /\ (HasDevice => OfOneLogin(j.own))
  PROVE  IInv'
<1>1. Types /\ ~At(t, "SetToken") /\ thr[t].todo # <<>> /\ Head(thr[t].todo)[1] = n
  BY DEF IInv, At
<1>2. Drop(Tail(thr[t].todo), thr[t].todo, 1) /\ thr[t].todo[1][1] = n
  BY <1>1, AtHead
<1> DEFINE d == 1
<1>3. d > 0 /\ d \in Nat /\ Drop(j.todo, thr[t].todo, d) /\ \A i \in 1..d : thr[t].todo[i][1] # "Do"
  BY <1>2
<1> HIDE DEF d
<1>4. \A i \in 1..d : thr[t].todo[i] # <<"Do", "login">>
  BY <1>3, NotLogin
<1>5. QED
  BY <1>1, <1>3, <1>4, OnlyMovesOn

(* What a goroutine is after a step. *)
LEMMA DoneTypes ==
  ASSUME Types, NEW t \in Threads, thr[t].todo # <<>>
  PROVE  /\ Done(t) \in Goroutines /\ Done(t).todo = Tail(thr[t].todo) /\ Done(t).res = thr[t].res
         /\ Done(t).ran = thr[t].ran /\ Done(t).lost = thr[t].lost
         /\ Done(t).new = thr[t].new /\ Done(t).own = thr[t].own
<1>1. thr[t] \in Goroutines /\ Tail(thr[t].todo) \in Seq(Steps)
  BY AtHead
<1>2. QED
  BY <1>1 DEF Done, Goroutines

(* BaseCall without an HTTP client goes on after the request.              *)
LEMMA checkClientKeeps ==
  ASSUME IInv, NEW t \in Threads, checkClient(t)
  PROVE  IInv'
<1>1. Types /\ Stack(thr[t].todo)
  BY DEF IInv
<1>2. /\ thr[t].todo # <<>> /\ Head(thr[t].todo)[1] = "Client" /\ At(t, "Client") /\ ~At(t, "SetToken")
      /\ UNCHANGED <<cfg, cli, arr>>
  BY DEF checkClient, At
<1>3. /\ thr[t] \in Goroutines /\ thr[t].todo \in Seq(Steps) /\ thr[t].todo[1][1] = "Client"
  BY <1>1, <1>2, AtHead
<1>4. cli' \in ClientStates
  BY <1>1, <1>2 DEF Types
<1>5. CASE cli.nil
  <2> DEFINE j == [thr[t] EXCEPT !.todo = AfterRequest(@), !.res = "err"]
  <2>1. PICK d \in 1..Len(thr[t].todo) : Drop(AfterRequest(thr[t].todo), thr[t].todo, d)
    BY <1>1, <1>2, <1>3, AfterDrops DEF Stack
  <2>2. AfterRequest(thr[t].todo) \in Seq(Steps) /\ d > 0
    BY <1>3, <2>1, LenProperties DEF Drop
  <2>3. /\ j \in Goroutines /\ j.todo = AfterRequest(thr[t].todo) /\ j.res = "err"
        /\ j.ran = thr[t].ran /\ j.lost = thr[t].lost /\ j.new = thr[t].new /\ j.own = thr[t].own
    BY <1>3, <2>2 DEF Goroutines
  <2>4. Becomes(t, j)
    BY <1>5 DEF checkClient
  <2> HIDE DEF j
  <2>5. QED
    BY <1>2, <1>4, <2>1, <2>2, <2>3, <2>4, OnlyMovesOn
<1>6. CASE ~cli.nil
  <2>1. Becomes(t, Done(t))
    BY <1>6 DEF checkClient
  <2>2. QED
    BY <1>1, <1>2, <1>4, <2>1, DoneTypes, StepDone
<1>7. QED
  BY <1>5, <1>6

(* The request is built when no login is under way, so that the client's   *)
(* device id and token are of one login.                                   *)
LEMMA GetRequestKeeps ==
  ASSUME IInv, NEW t \in Threads, GetRequest(t)
  PROVE  IInv'
<1> DEFINE j == [Done(t) EXCEPT !.req = [tok |-> cli.tok, dev |-> cli.dev],
                                !.own = IF Session(What(t)) THEN @ ELSE [tok |-> cli.tok, dev |-> cli.dev]]
<1>1. Types /\ thr[t].todo # <<>> /\ At(t, "GetRequest") /\ UNCHANGED <<cfg, cli, arr>>
  BY DEF IInv, GetRequest, At
<1>2. Done(t) \in Goroutines /\ cli \in ClientStates
  BY <1>1, DoneTypes DEF Types
<1>3. /\ j \in Goroutines /\ j.todo = Done(t).todo /\ j.res = Done(t).res /\ j.ran = Done(t).ran
      /\ j.lost = Done(t).lost /\ j.new = Done(t).new
      /\ j.own = IF Session(What(t)) THEN Done(t).own ELSE [tok |-> cli.tok, dev |-> cli.dev]
  BY <1>2 DEF Goroutines, ClientStates, Reqs
<1>4. Becomes(t, j)
  BY DEF GetRequest, Request
<1>5. CASE Session(What(t))
  BY <1>1, <1>2, <1>3, <1>4, <1>5, DoneTypes, StepDone
<1>6. CASE ~Session(What(t))
  <2>1. cli.mutex = {}
    BY <1>6 DEF GetRequest
  <2>2. ASSUME NEW u \in Threads PROVE ~At(u, "SetToken")
    <3>1. SUFFICES ASSUME At(u, "SetToken") PROVE Has(thr[u].todo, Critical)
      BY <2>1 DEF IInv, Exclusive
    <3>2. 1 \in 1..Len(thr[u].todo) /\ thr[u].todo[1][1] = "SetToken"
      BY <1>1, <3>1, AtHead DEF At
    <3>3. QED
      BY <3>2 DEF Has, Critical
  <2>3. cli.tok <= arr.n /\ (HasDevice => OfOneLogin(cli))
    BY <2>2 DEF IInv, Sessions, Paired
  <2>4. j.own.tok = cli.tok /\ j.own.dev = cli.dev
    BY <1>3, <1>6
  <2>5. j.own.tok <= arr.n /\ (HasDevice => OfOneLogin(j.own))
    BY <2>3, <2>4 DEF OfOneLogin
  <2> HIDE DEF j
  <2>6. QED
    BY <1>1, <1>2, <1>3, <1>4, <2>5, DoneTypes, StepDone
<1>7. QED
  BY <1>5, <1>6

(* BaseCall takes a permit of the client. *)
LEMMA AcquireKeeps ==
  ASSUME IInv, NEW t \in Threads, Acquire(t)
  PROVE  IInv'
<1>1. Types /\ thr[t].todo # <<>> /\ At(t, "Acquire") /\ Becomes(t, Done(t)) /\ UNCHANGED <<cfg, arr>>
  BY DEF IInv, Acquire, At
<1>2. cli' \in ClientStates /\ cli'.tok = cli.tok /\ cli'.dev = cli.dev /\ cli'.mutex = cli.mutex
  BY <1>1 DEF Acquire, Types, ClientStates
<1>3. QED
  BY <1>1, <1>2, DoneTypes, StepDone

(* The client when a permit of an array is taken. *)
LEMMA PermitTypes ==
  ASSUME Types, NEW t \in Threads, NEW k \in SNs \cup {"uninit"}, NEW j, Permit(t, k, j)
  PROVE  /\ cli' \in ClientStates /\ cli'.tok = cli.tok /\ cli'.dev = cli.dev /\ cli'.mutex = cli.mutex
         /\ Becomes(t, j) /\ UNCHANGED <<cfg, arr>>
<1>1. cli \in ClientStates
  BY DEF Types
<1>2. cli.dsem \in [SNs \cup {"uninit"} -> Nat]
  BY <1>1 DEF ClientStates
<1>3. [cli.dsem EXCEPT ![k] = @ + 1] \in [SNs \cup {"uninit"} -> Nat]
  BY <1>2
<1>4. cli' = [cli EXCEPT !.dsem = [cli.dsem EXCEPT ![k] = @ + 1]]
  BY <1>1 DEF Permit, ClientStates
<1>5. QED
  BY <1>1, <1>3, <1>4 DEF Permit, ClientStates

(* Without a semaphore for the device, the lookups are passed over. *)
LEMMA lookupDeviceKeeps ==
  ASSUME IInv, NEW t \in Threads, lookupDevice(t)
  PROVE  IInv'
<1>1. Types /\ Stack(thr[t].todo) /\ thr[t].todo # <<>> /\ At(t, "Device") /\ ~At(t, "SetToken")
  BY DEF IInv, lookupDevice, At
<1>2. thr[t] \in Goroutines /\ thr[t].todo \in Seq(Steps) /\ thr[t].todo[1][1] = "Device" /\ cli \in ClientStates
  BY <1>1, AtHead DEF At, Types
<1> DEFINE s == thr[t].todo
           J(k) == [thr[t] EXCEPT !.todo = SubSeq(@, 4, Len(@)), !.key = k]
<1>3. /\ Len(s) \in Nat /\ 3 \in 1..Len(s) /\ s[2][1] = "AcquireDevice" /\ s[3][1] = "DeferDevice"
      /\ 1 \in 1..Len(s)
  <2>1. Len(s) \in Nat /\ 1 \in 1..Len(s)
    BY <1>1, AtHead, <1>2, LenProperties
  <2>2. 1 + 2 \in 1..Len(s) /\ s[1 + 1][1] = "AcquireDevice" /\ s[1 + 2][1] = "DeferDevice"
    BY <1>1, <1>2, <2>1 DEF Stack, LookedUp
  <2>3. QED
    BY <2>1, <2>2
<1>4. Drop(SubSeq(s, 4, Len(s)), s, 3)
  <2>1. \A i \in 4..Len(s) : s[i] \in Steps
    BY <1>2, <1>3, ElementOfSeq
  <2> DEFINE r == SubSeq(s, 4, Len(s))
  <2>2. /\ r \in Seq(Steps)
        /\ Len(r) = IF 4 <= Len(s) THEN Len(s) - 4 + 1 ELSE 0
        /\ \A i \in 1..(Len(s) - 4 + 1) : r[i] = s[4 + i - 1]
    BY <1>3, <2>1, SubSeqProperties
  <2> HIDE DEF s, r
  <2>3. Len(r) = Len(s) - 3 /\ 3 \in 0..Len(s)
    <3> DEFINE m == Len(s)
               k == Len(r)
    <3>1. m \in Nat /\ 3 <= m /\ k = IF 4 <= m THEN m - 4 + 1 ELSE 0
      BY <1>3, <2>2
    <3> HIDE DEF m, k
    <3>2. k = m - 3 /\ 3 \in 0..m
      BY <3>1
    <3>3. QED
      BY <3>2 DEF m, k
  <2>4. ASSUME NEW i \in 1..Len(r) PROVE r[i] = s[i + 3]
    <3>1. i \in 1..(Len(s) - 4 + 1) /\ 4 + i - 1 = i + 3
      BY <1>3, <2>3
    <3>2. QED
      BY <2>2, <3>1
  <2>5. QED
    BY <2>2, <2>3, <2>4 DEF Drop, r
<1> DEFINE d == 3
<1>5. d > 0 /\ d \in Nat /\ Drop(SubSeq(s, 4, Len(s)), s, d) /\ \A i \in 1..d : s[i][1] # "Do"
  BY <1>2, <1>3, <1>4
<1> HIDE DEF d
<1>6. \A i \in 1..d : s[i] # <<"Do", "login">>
  BY <1>5, NotLogin
<1>7. ASSUME NEW k \in {"none", "uninit"}
      PROVE  /\ J(k) \in Goroutines /\ J(k).todo = SubSeq(s, 4, Len(s)) /\ J(k).res = thr[t].res
             /\ J(k).ran = thr[t].ran /\ J(k).lost = thr[t].lost /\ J(k).new = thr[t].new /\ J(k).own = thr[t].own
  <2>1. SubSeq(s, 4, Len(s)) \in Seq(Steps)
    BY <1>5 DEF Drop
  <2>2. QED
    BY <1>2, <2>1 DEF Goroutines
<1> HIDE DEF J
<1>8. CASE cli.dev # ""
  <2>1. Becomes(t, Done(t)) /\ UNCHANGED <<cfg, cli, arr>>
    BY <1>8 DEF lookupDevice
  <2>2. QED
    BY <1>1, <1>2, <2>1, DoneTypes, StepDone
<1>9. CASE cli.dev = "" /\ What(t) = "safe"
  <2>1. Becomes(t, J("none")) /\ UNCHANGED <<cfg, cli, arr>>
    BY <1>9 DEF lookupDevice, J
  <2>2. QED
    BY <1>1, <1>2, <1>5, <1>6, <1>7, <2>1, OnlyMovesOn
<1>10. CASE cli.dev = "" /\ What(t) # "safe"
  <2>1. Permit(t, "uninit", J("uninit"))
    BY <1>10 DEF lookupDevice, J
  <2>2. /\ cli' \in ClientStates /\ cli'.tok = cli.tok /\ cli'.dev = cli.dev /\ cli'.mutex = cli.mutex
        /\ Becomes(t, J("uninit")) /\ UNCHANGED <<cfg, arr>>
    BY <1>1, <2>1, PermitTypes
  <2>3. QED
    BY <1>1, <1>5, <1>6, <1>7, <2>2, OnlyMovesOn
<1>11. QED
  BY <1>8, <1>9, <1>10

(* BaseCall takes a permit of the array, or panics.                        *)
LEMMA acquireDeviceKeeps ==
  ASSUME IInv, NEW t \in Threads, acquireDevice(t)
  PROVE  IInv'
<1>1. Types /\ thr[t].todo # <<>> /\ At(t, "AcquireDevice") /\ ~At(t, "SetToken")
  BY DEF IInv, acquireDevice, At
<1>2. CASE cli.dev = ""
  BY <1>1, <1>2, PanicKeeps DEF acquireDevice
<1>3. CASE cli.dev # ""
  <2>1. Permit(t, cli.dev, Done(t)) /\ cli.dev \in SNs \cup {"uninit"}
    BY <1>1, <1>3 DEF acquireDevice, Types, ClientStates
  <2>2. /\ cli' \in ClientStates /\ cli'.tok = cli.tok /\ cli'.dev = cli.dev /\ cli'.mutex = cli.mutex
        /\ Becomes(t, Done(t)) /\ UNCHANGED <<cfg, arr>>
    BY <1>1, <2>1, PermitTypes
  <2>3. QED
    BY <1>1, <2>2, DoneTypes, StepDone
<1>4. QED
  BY <1>2, <1>3

(* A goroutine that is done with a step and holds a semaphore. *)
LEMMA DoneKeyTypes ==
  ASSUME Types, NEW t \in Threads, thr[t].todo # <<>>, NEW k \in SNs \cup {"", "none", "uninit"}
  PROVE  LET j == [Done(t) EXCEPT !.key = k]
         IN  /\ j \in Goroutines /\ j.todo = Tail(thr[t].todo) /\ j.res = thr[t].res
             /\ j.ran = thr[t].ran /\ j.lost = thr[t].lost /\ j.new = thr[t].new /\ j.own = thr[t].own
<1>1. Done(t) \in Goroutines
  BY DoneTypes
<1>2. LET j == [Done(t) EXCEPT !.key = k]
      IN  /\ j \in Goroutines /\ j.todo = Done(t).todo /\ j.res = Done(t).res
          /\ j.ran = Done(t).ran /\ j.lost = Done(t).lost /\ j.new = Done(t).new /\ j.own = Done(t).own
  BY <1>1 DEF Goroutines
<1>3. QED
  BY <1>2, DoneTypes

(* BaseCall defers the release by the device id of the moment.             *)
LEMMA deferDeviceKeeps ==
  ASSUME IInv, NEW t \in Threads, deferDevice(t)
  PROVE  IInv'
<1> DEFINE j == [Done(t) EXCEPT !.key = cli.dev]
<1>1. Types /\ thr[t].todo # <<>> /\ At(t, "DeferDevice") /\ Becomes(t, j) /\ UNCHANGED <<cfg, cli, arr>>
  BY DEF IInv, deferDevice, At
<1>2. cli \in ClientStates /\ cli.dev \in SNs \cup {"", "none", "uninit"}
  BY <1>1 DEF Types, ClientStates
<1>3. /\ j \in Goroutines /\ j.todo = Tail(thr[t].todo) /\ j.res = thr[t].res
      /\ j.ran = thr[t].ran /\ j.lost = thr[t].lost /\ j.new = thr[t].new /\ j.own = thr[t].own
  BY <1>1, <1>2, DoneKeyTypes
<1> HIDE DEF j
<1>4. QED
  BY <1>1, <1>2, <1>3, StepDone

(* DME takes the permit of the array it looked up.                         *)
LEMMA acquireKeyKeeps ==
  ASSUME IInv, NEW t \in Threads, acquireKey(t)
  PROVE  IInv'
<1> DEFINE j == [Done(t) EXCEPT !.key = "uninit"]
<1>1. Types /\ thr[t].todo # <<>> /\ At(t, "AcquireKey") /\ Permit(t, "uninit", j)
  BY DEF IInv, acquireKey, At
<1>2. /\ j \in Goroutines /\ j.todo = Tail(thr[t].todo) /\ j.res = thr[t].res
      /\ j.ran = thr[t].ran /\ j.lost = thr[t].lost /\ j.new = thr[t].new /\ j.own = thr[t].own
  BY <1>1, DoneKeyTypes
<1> HIDE DEF j
<1>3. /\ cli' \in ClientStates /\ cli'.tok = cli.tok /\ cli'.dev = cli.dev /\ cli'.mutex = cli.mutex
      /\ Becomes(t, j) /\ UNCHANGED <<cfg, arr>>
  BY <1>1, PermitTypes
<1>4. QED
  BY <1>1, <1>2, <1>3, StepDone

(* safeDoCall refuses the request, or lets it through.                     *)
LEMMA safeDoCallKeeps ==
  ASSUME IInv, NEW t \in Threads, safeDoCall(t)
  PROVE  IInv'
<1>1. Types /\ thr[t].todo # <<>> /\ At(t, "safeDoCall") /\ ~At(t, "SetToken") /\ UNCHANGED <<cfg, cli, arr>>
  BY DEF IInv, safeDoCall, At
<1>2. thr[t] \in Goroutines /\ thr[t].todo \in Seq(Steps) /\ cli \in ClientStates
  BY <1>1, AtHead DEF Types
<1>3. CASE cfg.metro /\ (cli.refreshing \/ cli.lif # cli.site)
  <2> DEFINE j == [thr[t] EXCEPT !.todo = SubSeq(@, 3, Len(@)), !.res = "err"]
  <2>1. PICK d \in 1..Len(thr[t].todo) : Drop(SubSeq(thr[t].todo, 3, Len(thr[t].todo)), thr[t].todo, d)
    BY <1>1, <1>2, SuffixDrops
  <2>2. SubSeq(thr[t].todo, 3, Len(thr[t].todo)) \in Seq(Steps) /\ d > 0
    BY <1>2, <2>1, LenProperties DEF Drop
  <2>3. /\ j \in Goroutines /\ j.todo = SubSeq(thr[t].todo, 3, Len(thr[t].todo)) /\ j.res = "err"
        /\ j.ran = thr[t].ran /\ j.lost = thr[t].lost /\ j.new = thr[t].new /\ j.own = thr[t].own
    BY <1>2, <2>2 DEF Goroutines
  <2>4. Becomes(t, j)
    BY <1>3 DEF safeDoCall
  <2> HIDE DEF j
  <2>5. QED
    BY <1>1, <1>2, <2>1, <2>2, <2>3, <2>4, OnlyMovesOn
<1>4. CASE ~(cfg.metro /\ (cli.refreshing \/ cli.lif # cli.site))
  <2>1. Becomes(t, Done(t))
    BY <1>4 DEF safeDoCall
  <2>2. QED
    BY <1>1, <1>2, <2>1, DoneTypes, StepDone
<1>5. QED
  BY <1>3, <1>4

(* The deferred releases, or the panic of one.                             *)
LEMMA ReleaseKeeps ==
  ASSUME IInv, NEW t \in Threads, Release(t)
  PROVE  IInv'
<1>1. Types /\ thr[t].todo # <<>> /\ At(t, "Release") /\ ~At(t, "SetToken")
  BY DEF IInv, Release, At
<1>2. thr[t] \in Goroutines /\ cli \in ClientStates
  BY <1>1, AtHead DEF Types
<1>3. CASE thr[t].key = ""
  BY <1>1, <1>3, PanicKeeps DEF Release
<1>4. CASE thr[t].key # ""
  <2> DEFINE j == [Done(t) EXCEPT !.key = "none"]
  <2>1. Becomes(t, j) /\ UNCHANGED <<cfg, arr>>
    BY <1>4 DEF Release
  <2>2. /\ j \in Goroutines /\ j.todo = Tail(thr[t].todo) /\ j.res = thr[t].res
        /\ j.ran = thr[t].ran /\ j.lost = thr[t].lost /\ j.new = thr[t].new /\ j.own = thr[t].own
    BY <1>1, DoneKeyTypes
  <2> HIDE DEF j
  <2>3. cli' \in ClientStates /\ cli'.tok = cli.tok /\ cli'.dev = cli.dev /\ cli'.mutex = cli.mutex
    <3>1. CASE cli' = [cli EXCEPT !.sem = @ \ {t}]
      BY <1>2, <3>1 DEF ClientStates
    <3>2. CASE /\ thr[t].key # "none" /\ cli.dsem[thr[t].key] > 0
               /\ cli' = [cli EXCEPT !.sem = @ \ {t}, !.dsem[thr[t].key] = @ - 1]
      <4> DEFINE k == thr[t].key
                 m == [cli.dsem EXCEPT ![k] = @ - 1]
      <4>1. k \in SNs \cup {"uninit"} /\ cli.dsem \in [SNs \cup {"uninit"} -> Nat]
        BY <1>2, <1>4, <3>2 DEF Goroutines, ClientStates
      <4>2. m \in [SNs \cup {"uninit"} -> Nat]
        BY <3>2, <4>1
      <4>3. cli' = [cli EXCEPT !.sem = @ \ {t}, !.dsem = m]
        BY <1>2, <3>2 DEF ClientStates
      <4> HIDE DEF m
      <4>4. QED
        BY <1>2, <4>2, <4>3 DEF ClientStates
    <3>3. QED
      BY <1>4, <3>1, <3>2 DEF Release
  <2>4. QED
    BY <1>1, <2>1, <2>2, <2>3, StepDone
<1>5. QED
  BY <1>3, <1>4

(* SetSystemInfo says that a refresh is under way.                         *)
LEMMA startRefreshKeeps ==
  ASSUME IInv, NEW t \in Threads, startRefresh(t)
  PROVE  IInv'
<1> DEFINE j == [Done(t) EXCEPT !.info = TRUE]
<1>1. Types /\ thr[t].todo # <<>> /\ At(t, "Refresh") /\ Becomes(t, j) /\ UNCHANGED <<cfg, arr>>
  BY DEF IInv, startRefresh, At
<1>2. Done(t) \in Goroutines /\ cli \in ClientStates
  BY <1>1, DoneTypes DEF Types
<1>3. /\ j \in Goroutines /\ j.todo = Done(t).todo /\ j.res = Done(t).res
      /\ j.ran = Done(t).ran /\ j.lost = Done(t).lost /\ j.new = Done(t).new /\ j.own = Done(t).own
  BY <1>2 DEF Goroutines
<1>4. cli' \in ClientStates /\ cli'.tok = cli.tok /\ cli'.dev = cli.dev /\ cli'.mutex = cli.mutex
  BY <1>2 DEF startRefresh, ClientStates
<1> HIDE DEF j
<1>5. QED
  BY <1>1, <1>3, <1>4, DoneTypes, StepDone

(* ReLogin reads the token before it waits for the mutex.                  *)
LEMMA readOldTokenKeeps ==
  ASSUME IInv, NEW t \in Threads, readOldToken(t)
  PROVE  IInv'
<1> DEFINE j == [Done(t) EXCEPT !.old = cli.tok]
<1>1. Types /\ thr[t].todo # <<>> /\ At(t, "OldToken") /\ Becomes(t, j) /\ UNCHANGED <<cfg, cli, arr>>
  BY DEF IInv, readOldToken, At
<1>2. Done(t) \in Goroutines /\ cli \in ClientStates /\ cli.tok \in Nat
  BY <1>1, DoneTypes DEF Types, ClientStates
<1>3. /\ j \in Goroutines /\ j.todo = Done(t).todo /\ j.res = Done(t).res
      /\ j.ran = Done(t).ran /\ j.lost = Done(t).lost /\ j.new = Done(t).new /\ j.own = Done(t).own
  BY <1>2 DEF Goroutines
<1> HIDE DEF j
<1>4. QED
  BY <1>1, <1>2, <1>3, DoneTypes, StepDone

(* The answer of the last request counts: the call ends, or the system     *)
(* information is stored.                                                  *)
LEMMA finishCallKeeps ==
  ASSUME IInv, NEW t \in Threads, NEW n \in {"Retry", "Finish"}, At(t, n), finishCall(t), UNCHANGED <<cfg, arr>>
  PROVE  IInv'
<1>1. Types /\ thr[t].todo # <<>> /\ ~At(t, "SetToken")
  BY DEF IInv, At
<1>2. thr[t] \in Goroutines /\ cli \in ClientStates
  BY <1>1, AtHead DEF Types
<1>3. CASE What(t) = "system" /\ thr[t].res = "ok"
  <2> DEFINE j == [Done(t) EXCEPT !.info = FALSE]
  <2>1. Becomes(t, j) /\ cli' = [cli EXCEPT !.site = thr[t].at, !.refreshing = FALSE]
    BY <1>3 DEF finishCall
  <2>2. Done(t) \in Goroutines
    BY <1>1, DoneTypes
  <2>3. /\ j \in Goroutines /\ j.todo = Done(t).todo /\ j.res = Done(t).res
        /\ j.ran = Done(t).ran /\ j.lost = Done(t).lost /\ j.new = Done(t).new /\ j.own = Done(t).own
    BY <2>2 DEF Goroutines
  <2>4. cli' \in ClientStates /\ cli'.tok = cli.tok /\ cli'.dev = cli.dev /\ cli'.mutex = cli.mutex
    BY <1>2, <2>1 DEF ClientStates, Goroutines
  <2> HIDE DEF j
  <2>5. QED
    BY <1>1, <2>1, <2>3, <2>4, DoneTypes, StepDone
<1>4. CASE ~(What(t) = "system" /\ thr[t].res = "ok")
  <2>1. PICK r \in {"err", thr[t].res} : cli' = Unwound(cli, t) /\ Becomes(t, Return(t, r))
    BY <1>4 DEF finishCall
  <2>2. r \in {"ok", "err", "refused", "unconnected", "rejected", "panic"}
    BY <1>2, <2>1 DEF Goroutines
  <2>3. QED
    BY <1>1, <2>1, <2>2, UnwoundTypes, EndsCall
<1>5. QED
  BY <1>3, <1>4

(* Call ends with the second answer. *)
LEMMA endCallKeeps ==
  ASSUME IInv, NEW t \in Threads, endCall(t)
  PROVE  IInv'
  BY finishCallKeeps DEF endCall

(* DME gives the login up and goes offline. *)
LEMMA giveUpKeeps ==
  ASSUME IInv, NEW t \in Threads, giveUp(t)
  PROVE  IInv'
<1>1. Types /\ ~At(t, "SetToken") /\ UNCHANGED <<cfg, arr>> /\ Becomes(t, Return(t, "err"))
  BY DEF IInv, giveUp, At
<1>2. /\ Unwound(cli, t) \in ClientStates
      /\ Unwound(cli, t).tok = cli.tok /\ Unwound(cli, t).dev = cli.dev
      /\ Unwound(cli, t).mutex = (IF cli.mutex = {t} THEN {} ELSE cli.mutex)
  BY <1>1, UnwoundTypes
<1>3. /\ cli' \in ClientStates /\ cli'.tok = cli.tok /\ cli'.dev = cli.dev
      /\ cli'.mutex = (IF cli.mutex = {t} THEN {} ELSE cli.mutex)
  BY <1>2 DEF giveUp, ClientStates
<1>4. QED
  BY <1>1, <1>3, UnwoundTypes, EndsCall

-----------------------------------------------------------------------------
(* The configuration is one of those ClientsAssumption allows. *)
LEMMA Config ==
  ASSUME Types
  PROVE  /\ cfg.kind \in Kinds /\ cfg.urls \in Nat
         /\ \A t \in Threads : cfg.ops[t] \in {"call", "safe", "relogin", "logout"}
  BY ClientsAssumption DEF Types, Threads

(* A goroutine that is not in its own request has no resend to decide on. *)
LEMMA NoResendBehind ==
  ASSUME NEW s \in Seq(Steps), s # <<>>, Stack(s), s[1][1] \notin CallSteps
  PROVE  ~MayResend(Tail(s))
<1>1. Drop(Tail(s), s, 1) /\ 1 \in 1..Len(s)
  BY TailDrops
<1>2. ASSUME NEW i \in 1..Len(Tail(s)) PROVE i + 1 \in 1..Len(s) /\ Tail(s)[i] = s[i + 1]
  BY <1>1, DropAt
<1>3. QED
  BY <1>1, <1>2 DEF MayResend, Stack, OneRequest

(* A step that puts a program in front of the steps that are left. *)
LEMMA OnlyTakesOn ==
  ASSUME IInv, NEW t \in Threads, NEW j \in Goroutines, NEW p, NEW N, cfg' = cfg, arr' = arr, Becomes(t, j),
         thr[t].todo # <<>>, ~At(t, "SetToken"),
         Program(p, N), j.todo = p \o Tail(thr[t].todo), "SetToken" \notin N,
         N \cap {"Unlock", "Retry"} = {} \/ ~Has(Tail(thr[t].todo), Critical),
         LoginAsked(Tail(thr[t].todo)), ~MayResend(p), ~MayResend(Tail(thr[t].todo)),
         ~DoesCarry(p) \/ ~DoesCarry(Tail(thr[t].todo)),
         DoesCarry(p) => thr[t].ran <= 1 /\ (thr[t].ran = 1 => thr[t].lost),
         cli' \in ClientStates, cli'.tok = cli.tok, cli'.dev = cli.dev,
         \/ cli.mutex = {} /\ cli'.mutex = {t}
         \/ cli'.mutex = cli.mutex /\ (N \cap Critical = {} \/ Has(thr[t].todo, Critical)),
         j.ran = thr[t].ran, j.lost = thr[t].lost, j.new = thr[t].new, j.own = thr[t].own
  PROVE  IInv'
<1> DEFINE g == thr[t]
           r == Tail(thr[t].todo)
<1>1. /\ g \in Goroutines /\ Local(g) /\ arr \in Arrays /\ Types
      /\ g.todo \in Seq(Steps) /\ Drop(r, g.todo, 1) /\ r \in Seq(Steps) /\ p \in Seq(Steps)
  BY AtHead DEF IInv, Types, Local, Program
<1>2. Local(j)
  <2> DEFINE d == 1
  <2>1. d > 0 /\ Drop(r, g.todo, d)
    BY <1>1, SMTT(30)
  <2> HIDE DEF d
  <2>2. QED
    BY <1>1, <2>1, TakesOn
<1>3. ~Has(r, {"SetToken"}) /\ (Has(r, Critical) => Has(g.todo, Critical))
  <2>1. \A i \in 1..Len(r) : i + 1 \in 1..Len(g.todo) /\ r[i] = g.todo[i + 1]
    BY <1>1, DropAt, SMTT(30)
  <2> DEFINE d == 1
  <2>2. d > 0 /\ Drop(r, g.todo, d)
    BY <1>1, SMTT(30)
  <2> HIDE DEF d
  <2>3. ~Has(r, {"SetToken"})
    BY <1>1, <2>2, StackDrop DEF Local
  <2>4. QED
    BY <2>1, <2>3 DEF Has
<1>4. ~Has(p, {"SetToken"}) /\ (N \cap Critical = {} => ~Has(p, Critical))
  BY DEF Program, Has
<1>5. ~Has(j.todo, {"SetToken"}) /\ (Has(j.todo, Critical) => Has(p, Critical) \/ Has(r, Critical))
  <2>1. p \in Seq(Steps) /\ r \in Seq(Steps)
    BY <1>1
  <2> HIDE DEF r
  <2>2. \A M : Has(p \o r, M) <=> Has(p, M) \/ Has(r, M)
    BY <2>1, ConcatHas
  <2>3. j.todo = p \o r
    BY DEF r
  <2>4. QED
    BY <1>3, <1>4, <2>2, <2>3
<1>6. MutexKept(t, j)
  BY <1>3, <1>4, <1>5 DEF MutexKept
<1>7. Sessions' /\ Paired'
  BY <1>5, Calm
<1>8. QED
  BY <1>1, <1>2, <1>6, <1>7, Frame

(* Call sends its request again: after a lost answer, or one that was not  *)
(* carried out.                                                            *)
LEMMA retryCallKeeps ==
  ASSUME IInv, NEW t \in Threads, retryCall(t)
  PROVE  IInv'
<1> DEFINE s == thr[t].todo
           r == Tail(s)
           w == What(t)
<1>1. Types /\ s # <<>> /\ Head(s)[1] = "Retry" /\ At(t, "Retry") /\ ~At(t, "SetToken") /\ UNCHANGED <<cfg, arr>>
  BY DEF IInv, retryCall, At
<1>2. /\ thr[t] \in Goroutines /\ s \in Seq(Steps) /\ Drop(r, s, 1) /\ r \in Seq(Steps) /\ 1 \in 1..Len(s)
      /\ s[1] \in Steps /\ s[1][1] = "Retry" /\ s[1][2] = w
      /\ cli \in ClientStates
  BY <1>1, AtHead DEF Types, What
<1>3. w \in Whats
  BY <1>2 DEF Steps, OtherSteps
<1>4. CASE ~NeedReLogin(thr[t].res)
  <2>1. finishCall(t)
    BY <1>4 DEF retryCall
  <2>2. QED
    BY <1>1, <2>1, finishCallKeeps
<1>5. CASE NeedReLogin(thr[t].res)
  <2> DEFINE j == [thr[t] EXCEPT !.todo = Resend(w) \o Tail(@)]
  <2>1. Becomes(t, j) /\ UNCHANGED cli
    BY <1>5 DEF retryCall
  <2>2. Stack(s) /\ Counted(thr[t])
    BY DEF IInv
  <2>3. ASSUME NEW i \in 1..Len(r) PROVE i + 1 \in 1..Len(s) /\ r[i] = s[i + 1] /\ 1 < i + 1
    BY <1>2, DropAt, LenProperties
  <2>4. ASSUME NEW i \in 1..Len(r) PROVE r[i][1] \notin Critical
    BY <1>2, <2>2, <2>3 DEF Stack, SectionEnds
  <2>5. ~Has(r, Critical) /\ LoginAsked(r)
    BY <2>4 DEF Has, LoginAsked, Critical
  <2>6. w \in Carry => Len(r) = 0
    <3> SUFFICES ASSUME w \in Carry PROVE Len(r) = 0
      OBVIOUS
    <3>1. Len(s) = 1
      BY <1>2, <2>2 DEF Stack, OneRequest
    <3>2. QED
      BY <1>2, <3>1 DEF Drop
  <2>7. ~MayResend(r)
    <3> SUFFICES ASSUME NEW i \in 1..Len(r), r[i][1] = "Retry", r[i][2] \in Carry PROVE FALSE
      BY DEF MayResend
    <3>1. s[i + 1][1] = "Retry" /\ s[i + 1][2] \in Carry /\ i + 1 \in 1..Len(s)
      BY <2>3
    <3>2. w \in Carry
      BY <1>2, <2>2, <3>1 DEF Stack, OneRequest
    <3>3. Len(r) = 0
      BY <2>6, <3>2
    <3>4. QED
      BY <3>3
  <2>8. w \in Carry => ~DoesCarry(r)
    BY <2>6 DEF DoesCarry
  <2>9. w \in Carry => thr[t].ran <= 1 /\ (thr[t].ran = 1 => thr[t].lost)
    <3> SUFFICES ASSUME w \in Carry PROVE thr[t].ran <= 1 /\ (thr[t].ran = 1 => thr[t].lost)
      OBVIOUS
    <3>1. MayResend(s)
      BY <1>2 DEF MayResend
    <3>2. thr[t].res \in {"unconnected", "refused"}
      BY <1>5 DEF NeedReLogin
    <3>3. QED
      BY <2>2, <3>1, <3>2 DEF Counted
  <2>10. Program(Resend(w), Again) /\ ~MayResend(Resend(w)) /\ (DoesCarry(Resend(w)) <=> w \in Carry)
    BY <1>1, <1>3, Config, ResendProgram
  <2>11. "SetToken" \notin Again /\ Again \cap Critical = {}
    BY DEF Again, Base, Before, Critical
  <2>12. Resend(w) \o r \in Seq(Steps)
    BY <1>2, <2>10, ConcatProperties DEF Program
  <2>13. /\ j \in Goroutines /\ j.todo = Resend(w) \o r
         /\ j.ran = thr[t].ran /\ j.lost = thr[t].lost /\ j.new = thr[t].new /\ j.own = thr[t].own
    BY <1>2, <2>12 DEF Goroutines
  <2>14. cli' \in ClientStates /\ cli'.tok = cli.tok /\ cli'.dev = cli.dev /\ cli'.mutex = cli.mutex
    BY <1>2, <2>1
  <2> HIDE DEF j, s, w
  <2>15. QED
    BY <1>1, <2>1, <2>5, <2>7, <2>8, <2>9, <2>10, <2>11, <2>13, <2>14, OnlyTakesOn DEF s
<1>6. QED
  BY <1>4, <1>5

(* What is at the head of a goroutine that is not in a request, and what   *)
(* follows it.                                                             *)
LEMMA AtOther ==
  ASSUME IInv, NEW t \in Threads, NEW n \in OtherSteps, At(t, n)
  PROVE  /\ Types /\ thr[t] \in Goroutines /\ thr[t].todo # <<>> /\ thr[t].todo \in Seq(Steps)
         /\ Tail(thr[t].todo) \in Seq(Steps) /\ Drop(Tail(thr[t].todo), thr[t].todo, 1)
         /\ 1 \in 1..Len(thr[t].todo) /\ thr[t].todo[1][1] = n
         /\ What(t) \in Nat /\ ~MayResend(Tail(thr[t].todo))
         /\ Local(thr[t])
<1>1. Types /\ thr[t].todo # <<>> /\ Head(thr[t].todo)[1] = n /\ Local(thr[t])
  BY DEF IInv, At, Local
<1>2. /\ thr[t] \in Goroutines /\ thr[t].todo \in Seq(Steps)
      /\ Tail(thr[t].todo) \in Seq(Steps) /\ Drop(Tail(thr[t].todo), thr[t].todo, 1)
      /\ 1 \in 1..Len(thr[t].todo) /\ thr[t].todo[1][1] = n /\ thr[t].todo[1] \in Steps
      /\ What(t) = thr[t].todo[1][2]
  BY <1>1, AtHead DEF What
<1>3. n \notin CallSteps
  BY DEF OtherSteps, CallSteps
<1>4. What(t) \in Nat
  BY <1>2, <1>3 DEF Steps
<1>5. ~MayResend(Tail(thr[t].todo))
  BY <1>1, <1>2, <1>3, NoResendBehind DEF Local
<1>6. QED
  BY <1>1, <1>2, <1>4, <1>5

(* ReLogin enters its section when nobody is in it, unless the session was *)
(* replaced meanwhile.                                                     *)
LEMMA lockReLoginKeeps ==
  ASSUME IInv, NEW t \in Threads, lockReLogin(t)
  PROVE  IInv'
<1> DEFINE old == IF cfg.kind = "fusion" THEN cli.tok ELSE thr[t].old
           r == Tail(thr[t].todo)
<1>1. At(t, "Lock") /\ ~At(t, "SetToken") /\ UNCHANGED <<cfg, arr>> /\ cli.mutex = {} /\ "Lock" \in OtherSteps
  BY DEF lockReLogin, At, OtherSteps
<1>2. /\ Types /\ thr[t] \in Goroutines /\ thr[t].todo # <<>> /\ thr[t].todo \in Seq(Steps)
      /\ r \in Seq(Steps) /\ Drop(r, thr[t].todo, 1) /\ ~MayResend(r)
  BY <1>1, AtOther
<1>3. cli \in ClientStates
  BY <1>2 DEF Types
<1>4. CASE cli.tok # 0 /\ old # cli.tok
  <2>1. Becomes(t, Done(t)) /\ UNCHANGED cli
    BY <1>4 DEF lockReLogin
  <2>2. QED
    BY <1>1, <1>2, <1>3, <2>1, DoneTypes, StepDone
<1>5. CASE ~(cli.tok # 0 /\ old # cli.tok)
  <2> DEFINE o == IF cli.tok # 0 THEN Logout ELSE <<>>
             p == o \o Login \o <<<<"Unlock", 0>>>>
             j == [thr[t] EXCEPT !.todo = o \o Login \o <<<<"Unlock", 0>>>> \o Tail(@)]
  <2>1. Becomes(t, j) /\ cli' = [cli EXCEPT !.mutex = {t}]
    BY <1>5 DEF lockReLogin
  <2>2. o \in {Logout, <<>>}
    OBVIOUS
  <2>3. Program(p, Section) /\ ~DoesCarry(p) /\ ~MayResend(p)
    <3> HIDE DEF o
    <3>1. QED
      BY <1>2, <2>2, Config, SectionProgram
  <2>4. ~Has(thr[t].todo, Critical)
    BY <1>1 DEF IInv, Exclusive
  <2>5. ASSUME NEW i \in 1..Len(r) PROVE r[i][1] \notin Critical
    <3>1. i + 1 \in 1..Len(thr[t].todo) /\ r[i] = thr[t].todo[i + 1]
      BY <1>2, DropAt
    <3>2. QED
      BY <2>4, <3>1 DEF Has
  <2>6. ~Has(r, Critical) /\ LoginAsked(r)
    BY <2>5 DEF Has, LoginAsked, Critical
  <2>7. "SetToken" \notin Section
    BY DEF Section, Out, In, Base, Before
  <2>8. p \o r \in Seq(Steps)
    <3>1. p \in Seq(Steps)
      BY <2>3 DEF Program
    <3> HIDE DEF p, r
    <3>2. QED
      BY <1>2, <3>1, ConcatProperties
  <2>9. /\ j \in Goroutines /\ j.todo = p \o r
        /\ j.ran = thr[t].ran /\ j.lost = thr[t].lost /\ j.new = thr[t].new /\ j.own = thr[t].own
    <3>1. j = [thr[t] EXCEPT !.todo = p \o r]
      BY <1>2 DEF Goroutines
    <3> HIDE DEF p, r, j
    <3>2. QED
      BY <1>2, <2>8, <3>1 DEF Goroutines
  <2>10. cli' \in ClientStates /\ cli'.tok = cli.tok /\ cli'.dev = cli.dev /\ cli'.mutex = {t}
    BY <1>3, <2>1 DEF ClientStates
  <2> HIDE DEF j, p
  <2>11. QED
    BY <1>1, <1>2, <2>1, <2>3, <2>6, <2>7, <2>9, <2>10, OnlyTakesOn
<1>6. QED
  BY <1>4, <1>5

(* The section is left with nothing critical ahead. *)
LEMMA unlockReLoginKeeps ==
  ASSUME IInv, NEW t \in Threads, unlockReLogin(t)
  PROVE  IInv'
<1> DEFINE r == Tail(thr[t].todo)
<1>1. /\ At(t, "Unlock") /\ ~At(t, "SetToken") /\ UNCHANGED <<cfg, arr>> /\ "Unlock" \in OtherSteps
      /\ Becomes(t, Done(t))
  BY DEF unlockReLogin, At, OtherSteps
<1>2. /\ Types /\ thr[t] \in Goroutines /\ thr[t].todo # <<>> /\ thr[t].todo \in Seq(Steps)
      /\ r \in Seq(Steps) /\ Drop(r, thr[t].todo, 1) /\ Local(thr[t])
      /\ 1 \in 1..Len(thr[t].todo) /\ thr[t].todo[1][1] = "Unlock"
  BY <1>1, AtOther
<1>3. /\ Done(t) \in Goroutines /\ Done(t).todo = r /\ Done(t).res = thr[t].res
      /\ Done(t).ran = thr[t].ran /\ Done(t).lost = thr[t].lost
      /\ Done(t).new = thr[t].new /\ Done(t).own = thr[t].own
  BY <1>2, DoneTypes
<1>4. Has(thr[t].todo, Critical)
  BY <1>2 DEF Has, Critical
<1>5. cli.mutex = {t} /\ cli \in ClientStates /\ arr \in Arrays
  BY <1>4 DEF IInv, Exclusive, Types
<1>6. cli' \in ClientStates /\ cli'.tok = cli.tok /\ cli'.dev = cli.dev /\ cli'.mutex = {}
  BY <1>5 DEF unlockReLogin, ClientStates
<1>7. ~Has(r, Critical)
  <2>1. ASSUME NEW i \in 1..Len(r) PROVE i + 1 \in 1..Len(thr[t].todo) /\ r[i] = thr[t].todo[i + 1] /\ 1 < i + 1
    BY <1>2, DropAt, LenProperties
  <2>2. QED
    BY <1>2, <2>1 DEF Has, Local, Stack, SectionEnds
<1> DEFINE d == 1
<1>8. d > 0 /\ d \in Nat /\ Drop(Done(t).todo, thr[t].todo, d) /\ \A i \in 1..d : thr[t].todo[i][1] # "Do"
  BY <1>2, <1>3
<1> HIDE DEF d, r
<1>9. \A i \in 1..d : thr[t].todo[i] # <<"Do", "login">>
  BY <1>8, NotLogin
<1>10. Local(Done(t)) /\ ~Has(Done(t).todo, {"SetToken"})
  BY <1>2, <1>3, <1>8, <1>9, MovesOn
<1>11. MutexKept(t, Done(t))
  BY <1>3, <1>5, <1>6, <1>7 DEF MutexKept
<1>12. Sessions' /\ Paired'
  BY <1>1, <1>3, <1>6, <1>10, Calm
<1>13. QED
  BY <1>1, <1>3, <1>5, <1>6, <1>10, <1>11, <1>12, Frame

(* After a logout, a login or another request, whatever evaluates a        *)
(* login's answer asks for one first.                                      *)
LEMMA LoginAskedBehind ==
  ASSUME NEW s \in Seq(Steps), s # <<>>, Stack(s), s[1][1] \in {"Do", "LoggedOut", "LoggedIn"},
         s[1] # <<"Do", "login">>
  PROVE  LoginAsked(Tail(s))
<1> DEFINE r == Tail(s)
<1>1. Drop(r, s, 1) /\ 1 \in 1..Len(s)
  BY TailDrops
<1>2. Len(r) \in Nat /\ Len(s) = Len(r) + 1
  BY <1>1, LenProperties DEF Drop
<1>3. ASSUME NEW i \in 1..Len(r) PROVE i + 1 \in 1..Len(s) /\ r[i] = s[i + 1]
  BY <1>1, DropAt
<1> SUFFICES ASSUME NEW j \in 1..Len(r), r[j][1] = "LoggedIn"
             PROVE  \E k \in 1..(j - 1) : r[k] = <<"Do", "login">>
  BY DEF LoginAsked
<1>4. j + 1 \in 1..Len(s) /\ 1 < j + 1 /\ s[j + 1][1] = "LoggedIn"
  BY <1>2, <1>3
<1>5. PICK k \in 1..((j + 1) - 1) : s[k] = <<"Do", "login">>
  BY <1>1, <1>4 DEF Stack, AskedBefore
<1>7. k # 1
  BY <1>5
<1>8. k - 1 \in 1..(j - 1) /\ k - 1 \in 1..Len(r) /\ (k - 1) + 1 = k
  BY <1>2, <1>5, <1>7
<1>9. r[k - 1] = s[k]
  BY <1>3, <1>8
<1>10. QED
  BY <1>5, <1>8, <1>9

(* A step in the section may change the client's session: nobody else is   *)
(* about to.                                                               *)
LEMMA InSection ==
  ASSUME IInv, NEW t \in Threads, NEW j \in Goroutines, cfg' = cfg, arr' = arr, Becomes(t, j),
         Has(thr[t].todo, Critical), j.own = thr[t].own, j.new = thr[t].new, cli'.tok <= arr.n,
         HasDevice => IF j.todo # <<>> /\ Head(j.todo)[1] = "SetToken"
                      THEN j.new > 0 /\ cli'.dev = arr.of[j.new]
                      ELSE cli'.dev = IF cli'.tok = 0 THEN "" ELSE arr.of[cli'.tok]
  PROVE  Sessions' /\ Paired'
<1>1. Threads' = Threads /\ (HasDevice' <=> HasDevice)
  BY DEF Threads, HasDevice
<1>2. thr' = [thr EXCEPT ![t] = j] /\ thr \in [Threads -> Goroutines]
  BY DEF Becomes, IInv, Types
<1>3. \A u \in Threads : thr'[u] = IF u = t THEN j ELSE thr[u]
  BY <1>2
<1>4. Sessions'
  BY <1>1, <1>3 DEF Sessions, IInv
<1>5. ASSUME NEW u \in Threads, u # t PROVE ~At(u, "SetToken")'
  <2>1. SUFFICES ASSUME At(u, "SetToken") PROVE FALSE
    BY <1>3, <1>5 DEF At
  <2>2. 1 \in 1..Len(thr[u].todo) /\ thr[u].todo[1][1] = "SetToken"
    BY <2>1, AtHead DEF At, IInv
  <2>3. Has(thr[u].todo, Critical)
    BY <2>2 DEF Has, Critical
  <2>4. cli.mutex = {t} /\ cli.mutex = {u}
    BY <2>3 DEF IInv, Exclusive
  <2>5. QED
    BY <1>5, <2>4
<1>6. At(t, "SetToken")' <=> j.todo # <<>> /\ Head(j.todo)[1] = "SetToken"
  BY <1>3 DEF At
<1>7. Paired'
  <2> SUFFICES ASSUME HasDevice
               PROVE  /\ \A u \in Threads : OfOneLogin(thr[u].own)'
                      /\ \A u \in Threads : At(u, "SetToken")' => thr'[u].new > 0 /\ cli'.dev = arr'.of[thr'[u].new]
                      /\ (\A u \in Threads : ~At(u, "SetToken")') => OfOneLogin(cli)'
    BY <1>1 DEF Paired
  <2>1. ASSUME NEW u \in Threads PROVE OfOneLogin(thr[u].own)'
    <3>1. OfOneLogin(thr[u].own) /\ thr'[u].own = thr[u].own
      BY <1>3 DEF IInv, Paired
    <3>2. QED
      BY <3>1 DEF OfOneLogin
  <2>2. ASSUME NEW u \in Threads, At(u, "SetToken")' PROVE thr'[u].new > 0 /\ cli'.dev = arr'.of[thr'[u].new]
    <3>1. u = t /\ thr'[u] = j
      BY <1>3, <1>5, <2>2
    <3>2. QED
      BY <1>6, <2>2, <3>1
  <2>3. ASSUME \A u \in Threads : ~At(u, "SetToken")' PROVE OfOneLogin(cli)'
    BY <1>6, <2>3 DEF OfOneLogin
  <2>4. QED
    BY <2>1, <2>2, <2>3
<1>8. QED
  BY <1>4, <1>7

(* A logout is over. *)
LEMMA loggedOutKeeps ==
  ASSUME IInv, NEW t \in Threads, loggedOut(t)
  PROVE  IInv'
<1> DEFINE j == [Done(t) EXCEPT !.res = "ok"]
           s == thr[t].todo
           r == Tail(s)
<1>1. /\ At(t, "LoggedOut") /\ ~At(t, "SetToken") /\ UNCHANGED <<cfg, arr>> /\ "LoggedOut" \in OtherSteps
      /\ Becomes(t, j)
  BY DEF loggedOut, At, OtherSteps
<1>2. /\ Types /\ thr[t] \in Goroutines /\ s # <<>> /\ s \in Seq(Steps)
      /\ r \in Seq(Steps) /\ Drop(r, s, 1) /\ Local(thr[t]) /\ ~MayResend(r) /\ s[1][1] = "LoggedOut"
  BY <1>1, AtOther
<1>3. /\ Done(t) \in Goroutines /\ Done(t).todo = r
      /\ Done(t).ran = thr[t].ran /\ Done(t).lost = thr[t].lost
      /\ Done(t).new = thr[t].new /\ Done(t).own = thr[t].own
  BY <1>2, DoneTypes
<1>4. /\ j \in Goroutines /\ j.todo = r /\ j.ran = thr[t].ran /\ j.lost = thr[t].lost
      /\ j.new = thr[t].new /\ j.own = thr[t].own
  BY <1>3 DEF Goroutines
<1> HIDE DEF j
<1>5. LoginAsked(r)
  <2>1. <<"Do", "login">>[1] = "Do"
    OBVIOUS
  <2>2. s[1] # <<"Do", "login">>
    BY <1>2, <2>1
  <2>3. QED
    BY <1>2, <2>2, LoginAskedBehind DEF Local
<1>6. ASSUME NEW i \in 1..Len(r) PROVE i + 1 \in 1..Len(s) /\ r[i] = s[i + 1]
  BY <1>2, DropAt
<1>7. Stack(r) /\ ~Has(r, {"SetToken"})
  <2> DEFINE d == 1
  <2>1. d > 0 /\ Drop(r, s, d)
    BY <1>2
  <2> HIDE DEF d
  <2>2. QED
    BY <1>2, <2>1, StackDrop DEF Local
<1>8. (DoesCarry(r) => DoesCarry(s)) /\ (Has(r, Critical) => Has(s, Critical))
  BY <1>6 DEF DoesCarry, Has
<1>9. Local(j)
  <2>1. Answer(j)
    BY <1>4, <1>5 DEF Answer, LoginAsked
  <2>2. Counted(j)
    BY <1>2, <1>4, <1>8 DEF Counted, Local
  <2>3. QED
    BY <1>4, <1>7, <2>1, <2>2 DEF Local
<1>10. cli \in ClientStates /\ arr \in Arrays
  BY <1>2 DEF Types
<1>11. /\ cli' \in ClientStates /\ cli'.dev = cli.dev /\ cli'.mutex = cli.mutex
       /\ IF cfg.kind = "fusion" THEN cli'.tok = 0 ELSE cli'.tok = cli.tok
  BY <1>10 DEF loggedOut, ClientStates
<1>12. MutexKept(t, j)
  BY <1>4, <1>8, <1>11 DEF MutexKept
<1>13. Sessions' /\ Paired'
  <2>1. CASE cfg.kind = "fusion"
    <3>1. ~HasDevice'
      BY <1>1, <2>1 DEF HasDevice
    <3>2. thr' = [thr EXCEPT ![t] = j] /\ thr \in [Threads -> Goroutines] /\ Threads' = Threads /\ arr' = arr
      BY <1>1, <1>2 DEF Becomes, Types, Threads
    <3>3. \A u \in Threads : thr'[u].new = thr[u].new /\ thr'[u].own = thr[u].own
      BY <1>4, <3>2
    <3>4. arr.n \in Nat /\ Sessions
      BY <1>10 DEF Arrays, IInv
    <3>5. Sessions'
      BY <1>11, <2>1, <3>2, <3>3, <3>4, SMTT(30) DEF Sessions
    <3>6. QED
      BY <3>1, <3>5 DEF Paired
  <2>2. CASE cfg.kind # "fusion"
    BY <1>1, <1>4, <1>7, <1>11, <2>2, Calm
  <2>3. QED
    BY <2>1, <2>2
<1>14. QED
  BY <1>1, <1>4, <1>9, <1>10, <1>11, <1>12, <1>13, Frame
=============================================================================
