------------------------- MODULE RestSessionProofs -------------------------
EXTENDS RestSessionSteps

(* A login starts without device id and token. *)
LEMMA resetSessionKeeps ==
  ASSUME IInv, NEW t \in Threads, resetSession(t)
  PROVE  IInv'
<1>1. /\ At(t, "Reset") /\ ~At(t, "SetToken") /\ UNCHANGED <<cfg, arr>> /\ "Reset" \in OtherSteps
      /\ Becomes(t, Done(t))
  BY DEF resetSession, At, OtherSteps
<1>2. /\ Types /\ thr[t] \in Goroutines /\ thr[t].todo # <<>> /\ Drop(Tail(thr[t].todo), thr[t].todo, 1)
      /\ Local(thr[t]) /\ 1 \in 1..Len(thr[t].todo) /\ thr[t].todo[1][1] = "Reset"
  BY <1>1, AtOther
<1>3. /\ Done(t) \in Goroutines /\ Done(t).todo = Tail(thr[t].todo) /\ Done(t).res = thr[t].res
      /\ Done(t).ran = thr[t].ran /\ Done(t).lost = thr[t].lost
      /\ Done(t).new = thr[t].new /\ Done(t).own = thr[t].own
  BY <1>2, DoneTypes
<1>4. cli \in ClientStates /\ arr \in Arrays /\ Sessions
  BY <1>2 DEF Types, IInv
<1>5. CASE ~HasDevice
  <2>1. cli' \in ClientStates /\ cli'.tok = cli.tok /\ cli'.dev = cli.dev /\ cli'.mutex = cli.mutex
    BY <1>4, <1>5 DEF resetSession, ClientStates
  <2>2. QED
    BY <1>1, <1>3, <2>1, StepDone
<1>6. CASE HasDevice
  <2>1. cli' \in ClientStates /\ cli'.tok = 0 /\ cli'.dev = "" /\ cli'.mutex = cli.mutex
    BY <1>4, <1>6 DEF resetSession, ClientStates
  <2> DEFINE d == 1
  <2>2. d > 0 /\ d \in Nat /\ Drop(Done(t).todo, thr[t].todo, d) /\ \A i \in 1..d : thr[t].todo[i][1] # "Do"
    BY <1>2, <1>3
  <2> HIDE DEF d
  <2>3. \A i \in 1..d : thr[t].todo[i] # <<"Do", "login">>
    BY <2>2, NotLogin
  <2>4. /\ Local(Done(t)) /\ ~Has(Done(t).todo, {"SetToken"})
        /\ Has(Done(t).todo, Critical) => Has(thr[t].todo, Critical)
    BY <1>2, <1>3, <2>2, <2>3, MovesOn
  <2>5. MutexKept(t, Done(t))
    BY <2>1, <2>4 DEF MutexKept
  <2>6. Has(thr[t].todo, Critical)
    BY <1>2 DEF Has, Critical
  <2>7. ~(Done(t).todo # <<>> /\ Head(Done(t).todo)[1] = "SetToken")
    <3>1. Done(t) \in Goroutines /\ ~Has(Done(t).todo, {"SetToken"})
      BY <1>3, <2>4
    <3>2. QED
      BY <3>1, NotAtSetToken
  <2>8. cli'.tok <= arr.n
    <3>1. arr.n \in Nat
      BY <1>4 DEF Arrays
    <3>2. cli'.tok = 0
      BY <2>1
    <3>3. QED
      BY <3>1, <3>2
  <2>9. Sessions' /\ Paired'
    BY <1>1, <1>3, <2>1, <2>6, <2>7, <2>8, InSection
  <2>10. QED
    BY <1>1, <1>3, <1>4, <2>1, <2>4, <2>5, <2>9, Frame
<1>7. QED
  BY <1>5, <1>6

(* The token of the login whose device id the client has. *)
LEMMA setTokenKeeps ==
  ASSUME IInv, NEW t \in Threads, setToken(t)
  PROVE  IInv'
<1>1. /\ At(t, "SetToken") /\ UNCHANGED <<cfg, arr>> /\ "SetToken" \in OtherSteps
      /\ Becomes(t, Done(t))
  BY DEF setToken, OtherSteps
<1>2. /\ Types /\ thr[t] \in Goroutines /\ thr[t].todo # <<>> /\ Drop(Tail(thr[t].todo), thr[t].todo, 1)
      /\ Local(thr[t]) /\ 1 \in 1..Len(thr[t].todo) /\ thr[t].todo[1][1] = "SetToken"
  BY <1>1, AtOther
<1>3. /\ Done(t) \in Goroutines /\ Done(t).todo = Tail(thr[t].todo) /\ Done(t).res = thr[t].res
      /\ Done(t).ran = thr[t].ran /\ Done(t).lost = thr[t].lost
      /\ Done(t).new = thr[t].new /\ Done(t).own = thr[t].own
  BY <1>2, DoneTypes
<1>4. cli \in ClientStates /\ arr \in Arrays /\ Sessions /\ Paired
  BY <1>2 DEF Types, IInv
<1>5. /\ cli' \in ClientStates /\ cli'.tok = thr[t].new /\ cli'.dev = cli.dev /\ cli'.mutex = cli.mutex
  BY <1>2, <1>4 DEF setToken, ClientStates, Goroutines
<1> DEFINE d == 1
<1>6. d > 0 /\ d \in Nat /\ Drop(Done(t).todo, thr[t].todo, d) /\ \A i \in 1..d : thr[t].todo[i][1] # "Do"
  BY <1>2, <1>3
<1> HIDE DEF d
<1>7. \A i \in 1..d : thr[t].todo[i] # <<"Do", "login">>
  BY <1>6, NotLogin
<1>8. /\ Local(Done(t)) /\ ~Has(Done(t).todo, {"SetToken"})
      /\ Has(Done(t).todo, Critical) => Has(thr[t].todo, Critical)
  BY <1>2, <1>3, <1>6, <1>7, MovesOn
<1>9. MutexKept(t, Done(t))
  BY <1>5, <1>8 DEF MutexKept
<1>10. Has(thr[t].todo, Critical)
  BY <1>2 DEF Has, Critical
<1>11. ~(Done(t).todo # <<>> /\ Head(Done(t).todo)[1] = "SetToken")
  <2>1. Done(t) \in Goroutines /\ ~Has(Done(t).todo, {"SetToken"})
    BY <1>3, <1>8
  <2>2. QED
    BY <2>1, NotAtSetToken
<1>12. cli'.tok <= arr.n
  BY <1>4, <1>5 DEF Sessions
<1>13. HasDevice => thr[t].new > 0 /\ cli.dev = arr.of[thr[t].new]
  BY <1>1, <1>4 DEF Paired
<1>14. HasDevice => cli'.dev = IF cli'.tok = 0 THEN "" ELSE arr.of[cli'.tok]
  <2>1. thr[t].new \in Nat
    BY <1>2 DEF Goroutines
  <2>2. cli'.tok = thr[t].new /\ cli'.dev = cli.dev
    BY <1>5
  <2>3. HasDevice => thr[t].new # 0 /\ cli.dev = arr.of[thr[t].new]
    BY <1>13, <2>1
  <2>4. QED
    BY <2>2, <2>3, Zenon
<1>15. Sessions' /\ Paired'
  BY <1>1, <1>3, <1>10, <1>11, <1>12, <1>14, InSection
<1>16. QED
  BY <1>1, <1>3, <1>4, <1>5, <1>8, <1>9, <1>15, Frame

(* The login's answer: the device id of its session, the next URL, or the  *)
(* end of the call.                                                        *)
LEMMA loggedInKeeps ==
  ASSUME IInv, NEW t \in Threads, loggedIn(t)
  PROVE  IInv'
<1> DEFINE s == thr[t].todo
           r == Tail(s)
<1>1. At(t, "LoggedIn") /\ ~At(t, "SetToken") /\ UNCHANGED <<cfg, arr>> /\ "LoggedIn" \in OtherSteps
  BY DEF loggedIn, At, OtherSteps
<1>2. /\ Types /\ thr[t] \in Goroutines /\ s # <<>> /\ s \in Seq(Steps)
      /\ r \in Seq(Steps) /\ Drop(r, s, 1) /\ Local(thr[t]) /\ ~MayResend(r)
      /\ 1 \in 1..Len(s) /\ s[1][1] = "LoggedIn" /\ What(t) \in Nat
  BY <1>1, AtOther
<1>3. cli \in ClientStates /\ arr \in Arrays /\ Sessions /\ cfg.kind \in Kinds
  BY <1>2, Config DEF Types, IInv
<1>4. LoginAsked(r)
  <2>1. <<"Do", "login">>[1] = "Do"
    OBVIOUS
  <2>2. s[1] # <<"Do", "login">>
    BY <1>2, <2>1
  <2>3. QED
    BY <1>2, <2>2, LoginAskedBehind DEF Local
<1>5. Has(s, Critical)
  BY <1>2 DEF Has, Critical
<1>6. ASSUME thr[t].res = "ok",
             cli' = (IF HasDevice THEN [cli EXCEPT !.dev = arr.of[thr[t].new]] ELSE cli),
             Becomes(t, [thr[t] EXCEPT !.todo = <<<<"SetToken", 0>>>> \o Tail(@)])
      PROVE  IInv'
  <2> DEFINE x == <<"SetToken", 0>>
             j == [thr[t] EXCEPT !.todo = <<<<"SetToken", 0>>>> \o Tail(@)]
  <2>1. x \in Steps /\ x[1] = "SetToken"
    BY DEF Steps, OtherSteps
  <2>2. <<x>> \o r \in Seq(Steps) /\ <<x>> \o r # <<>> /\ Head(<<x>> \o r) = x
    <3> HIDE DEF x, r
    <3>1. <<x>> \in Seq(Steps) /\ Len(<<x>>) = 1 /\ <<x>>[1] = x
      BY <2>1, SingleStep
    <3> DEFINE a == <<x>>
    <3> HIDE DEF a
    <3>2. a \o r \in Seq(Steps) /\ Len(a \o r) = Len(a) + Len(r) /\ Len(r) \in Nat /\ 1 \in 1..Len(a) /\ (a \o r)[1] = a[1]
      <4>1. a \in Seq(Steps) /\ r \in Seq(Steps) /\ Len(a) = 1
        BY <1>2, <3>1 DEF a
      <4>2. QED
        BY <4>1, ConcatFrom
    <3>3. a \o r # <<>> /\ Head(a \o r) = (a \o r)[1]
      <4>1. Len(a \o r) # 0
        BY <3>1, <3>2 DEF a
      <4>2. a \o r # <<>>
        BY <4>1
      <4>3. QED
        BY <3>2, <4>2, TailDrops
    <3>4. QED
      BY <3>1, <3>2, <3>3 DEF a
  <2>3. /\ j \in Goroutines /\ j.todo = <<x>> \o r
        /\ j.ran = thr[t].ran /\ j.lost = thr[t].lost /\ j.new = thr[t].new /\ j.own = thr[t].own
    BY <1>2, <2>2 DEF Goroutines
  <2>4. Becomes(t, j)
    BY <1>6
  <2>5. thr[t].new > 0
    <3>1. \A k \in 1..(1 - 1) : s[k] # <<"Do", "login">>
      OBVIOUS
    <3>2. QED
      BY <1>2, <1>6, <3>1 DEF Local, Answer
  <2>6. thr[t].new \in 1..MaxLogins
    <3>1. thr[t].new \in Nat /\ arr.n \in Nat /\ MaxLogins \in Nat
      BY <1>2, <1>3, SessionBounds DEF Goroutines, Arrays
    <3>2. thr[t].new <= arr.n /\ arr.n <= MaxLogins
      BY <1>3 DEF Sessions
    <3>3. QED
      BY <2>5, <3>1, <3>2
  <2>7. arr.of[thr[t].new] \in SNs
    BY <1>3, <2>6 DEF Arrays
  <2>8. /\ cli' \in ClientStates /\ cli'.tok = cli.tok /\ cli'.mutex = cli.mutex
        /\ HasDevice => cli'.dev = arr.of[thr[t].new]
    BY <1>3, <1>6, <2>7 DEF ClientStates
  <2> HIDE DEF j, x, r
  <2>9. Program(<<x>>, {"SetToken"}) /\ ~MayResend(<<x>>) /\ ~DoesCarry(<<x>>)
    BY <2>1, SingleProgram
  <2>10. {"SetToken"} \cap {"Unlock", "Retry"} = {}
    OBVIOUS
  <2> DEFINE d == 1
             p == <<x>>
             N == {"SetToken"}
  <2>11. d > 0 /\ Drop(r, s, d) /\ Program(p, N) /\ N \cap {"Unlock", "Retry"} = {} /\ ~MayResend(p) /\ ~DoesCarry(p)
        /\ j.todo = p \o r
    BY <1>2, <2>3, <2>9, <2>10
  <2> HIDE DEF d, p, N
  <2>12. Local(j)
    BY <1>2, <1>4, <2>3, <2>11, TakesOn
  <2>13. MutexKept(t, j)
    BY <1>5, <2>8 DEF MutexKept
  <2>14. cli'.tok <= arr.n
    BY <1>3, <2>8 DEF Sessions
  <2>15. j.todo # <<>> /\ Head(j.todo)[1] = "SetToken"
    BY <2>1, <2>2, <2>3
  <2>16. Sessions' /\ Paired'
    BY <1>1, <1>5, <2>3, <2>4, <2>5, <2>8, <2>14, <2>15, InSection
  <2>17. QED
    BY <1>1, <1>3, <2>3, <2>4, <2>8, <2>12, <2>13, <2>16, Frame
<1>7. ASSUME NextUrl(t),
             Becomes(t, [thr[t] EXCEPT !.todo = BaseCall("login") \o <<<<"LoggedIn", What(t) - 1>>>> \o Tail(@)]),
             UNCHANGED cli
      PROVE  IInv'
  <2> DEFINE p == LoginTry(What(t) - 1)
             j == [thr[t] EXCEPT !.todo = BaseCall("login") \o <<<<"LoggedIn", What(t) - 1>>>> \o Tail(@)]
             N == Base \cup {"LoggedIn"}
  <2>1. What(t) - 1 \in Nat
    BY <1>2, <1>7 DEF NextUrl
  <2>2. Program(p, N) /\ ~DoesCarry(p) /\ ~MayResend(p)
    BY <1>3, <2>1, LoginTryProgram
  <2>3. "SetToken" \notin N /\ N \cap {"Unlock", "Retry"} = {}
    BY DEF Base, Before
  <2>4. p \o r \in Seq(Steps)
    <3>1. p \in Seq(Steps)
      BY <2>2 DEF Program
    <3> HIDE DEF p, r
    <3>2. QED
      BY <1>2, <3>1, ConcatProperties
  <2>5. j = [thr[t] EXCEPT !.todo = p \o r]
    BY <1>2 DEF Goroutines, LoginTry
  <2>6. Becomes(t, j)
    BY <1>7
  <2> HIDE DEF p, N, j, r
  <2>7. /\ j \in Goroutines /\ j.todo = p \o r
        /\ j.ran = thr[t].ran /\ j.lost = thr[t].lost /\ j.new = thr[t].new /\ j.own = thr[t].own
    BY <1>2, <2>4, <2>5 DEF Goroutines
  <2>8. cli' \in ClientStates /\ cli'.tok = cli.tok /\ cli'.dev = cli.dev /\ cli'.mutex = cli.mutex
    BY <1>3, <1>7
  <2>9. QED
    BY <1>1, <1>2, <1>4, <1>5, <2>2, <2>3, <2>6, <2>7, <2>8, OnlyTakesOn DEF r
<1>8. ASSUME Becomes(t, [thr[t] EXCEPT !.todo = Logout \o <<<<"GiveUp", 0>>>>]), UNCHANGED cli
      PROVE  IInv'
  <2> DEFINE x == <<"GiveUp", 0>>
             p == Logout \o <<x>>
             j == [thr[t] EXCEPT !.todo = p]
  <2>1. x \in Steps /\ x[1] = "GiveUp"
    BY DEF Steps, OtherSteps
  <2>2. Becomes(t, j)
    BY <1>8
  <2> HIDE DEF x
  <2>3. Program(<<x>>, {"GiveUp"}) /\ ~DoesCarry(<<x>>) /\ ~MayResend(<<x>>)
    BY <2>1, SingleProgram
  <2>4. Out \cap {"Unlock", "Retry"} = {} /\ "SetToken" \notin {"GiveUp"}
    BY DEF Out, Base, Before
  <2>5. Program(p, Out \cup {"GiveUp"}) /\ ~DoesCarry(p) /\ ~MayResend(p)
    BY <1>3, <2>3, <2>4, LogoutProgram, ProgramConcat
  <2>6. (Out \cup {"GiveUp"}) \cap Critical = {}
    BY DEF Out, Base, Before, Critical
  <2>7. ~Has(p, Critical) /\ ~Has(p, {"SetToken"})
    BY <2>5, <2>6 DEF Program, Has, Critical
  <2> HIDE DEF p
  <2>8. /\ j \in Goroutines /\ j.todo = p
        /\ j.ran = thr[t].ran /\ j.lost = thr[t].lost /\ j.new = thr[t].new /\ j.own = thr[t].own
    BY <1>2, <2>5 DEF Goroutines, Program
  <2> HIDE DEF j
  <2>9. Local(j)
    <3>1. Answer(j)
      BY <2>5, <2>8 DEF Program, LoginAsked, Answer
    <3>2. Counted(j)
      BY <1>2, <2>5, <2>8 DEF Counted, Local
    <3>3. QED
      BY <2>5, <2>8, <3>1, <3>2 DEF Local, Program
  <2>10. MutexKept(t, j)
    BY <1>8, <2>7, <2>8 DEF MutexKept
  <2>11. Sessions' /\ Paired'
    BY <1>1, <1>8, <2>2, <2>7, <2>8, Calm
  <2>12. QED
    BY <1>1, <1>3, <1>8, <2>2, <2>8, <2>9, <2>10, <2>11, Frame
<1>9. ASSUME cli' = [Unwound(cli, t) EXCEPT !.online = @ /\ thr[t].res # "rejected"], Becomes(t, Return(t, "err"))
      PROVE  IInv'
  <2>1. /\ Unwound(cli, t) \in ClientStates
        /\ Unwound(cli, t).tok = cli.tok /\ Unwound(cli, t).dev = cli.dev
        /\ Unwound(cli, t).mutex = (IF cli.mutex = {t} THEN {} ELSE cli.mutex)
    BY <1>2, UnwoundTypes
  <2>2. /\ cli' \in ClientStates /\ cli'.tok = cli.tok /\ cli'.dev = cli.dev
        /\ cli'.mutex = (IF cli.mutex = {t} THEN {} ELSE cli.mutex)
    BY <1>9, <2>1 DEF ClientStates
  <2>3. QED
    BY <1>1, <1>2, <1>9, <2>2, UnwoundTypes, EndsCall
<1>10. QED
  BY <1>6, <1>7, <1>8, <1>9 DEF loggedIn

-----------------------------------------------------------------------------
(* The array issues a session or forgets one; the sessions it issued       *)
(* before stay what they were.                                             *)
LEMMA ArrayMoves ==
  ASSUME IInv, NEW t \in Threads, NEW j \in Goroutines, UNCHANGED <<cfg, cli>>, Becomes(t, j),
         arr' \in Arrays, arr.n <= arr'.n, arr'.n <= MaxLogins, \A k \in 1..arr.n : arr'.of[k] = arr.of[k],
         j.own = thr[t].own, j.new <= arr'.n, ~At(t, "SetToken"), ~Has(j.todo, {"SetToken"})
  PROVE  Sessions' /\ Paired'
<1>1. Threads' = Threads /\ (HasDevice' <=> HasDevice)
  BY DEF Threads, HasDevice
<1>2. thr' = [thr EXCEPT ![t] = j] /\ thr \in [Threads -> Goroutines] /\ cli \in ClientStates /\ arr \in Arrays
  BY DEF Becomes, IInv, Types
<1>3. \A u \in Threads : thr'[u] = IF u = t THEN j ELSE thr[u]
  BY <1>2
<1>4. /\ arr.n \in Nat /\ arr'.n \in Nat /\ cli.tok \in Nat /\ cli.tok <= arr.n
      /\ \A u \in Threads : /\ thr[u].new \in Nat /\ thr[u].new <= arr.n
                            /\ thr[u].own.tok \in Nat /\ thr[u].own.tok <= arr.n
  BY <1>2 DEF Arrays, ClientStates, Goroutines, Reqs, IInv, Sessions
<1>5. \A u \in Threads : /\ thr'[u].own = thr[u].own
                         /\ u # t => thr'[u].new = thr[u].new
                         /\ u = t => thr'[u].new = j.new
  BY <1>3
<1>6. Sessions'
  <2>1. cli'.tok <= arr'.n
    BY <1>4
  <2>2. ASSUME NEW u \in Threads PROVE thr'[u].new <= arr'.n /\ thr'[u].own.tok <= arr'.n
    BY <1>4, <1>5
  <2>3. QED
    BY <1>1, <2>1, <2>2 DEF Sessions
<1>7. ~(j.todo # <<>> /\ Head(j.todo)[1] = "SetToken")
  BY NotAtSetToken
<1>8. \A u \in Threads : At(u, "SetToken")' <=> At(u, "SetToken")
  BY <1>3, <1>7 DEF At
<1>9. Paired'
  <2> SUFFICES ASSUME HasDevice
               PROVE  /\ \A u \in Threads : OfOneLogin(thr[u].own)'
                      /\ \A u \in Threads : At(u, "SetToken") => thr'[u].new > 0 /\ cli'.dev = arr'.of[thr'[u].new]
                      /\ (\A u \in Threads : ~At(u, "SetToken")) => OfOneLogin(cli)'
    BY <1>1, <1>8 DEF Paired
  <2>0. Paired
    BY DEF IInv
  <2>1. ASSUME NEW u \in Threads PROVE OfOneLogin(thr[u].own)'
    <3>1. OfOneLogin(thr[u].own) /\ thr'[u].own = thr[u].own
      BY <1>5, <2>0 DEF Paired
    <3>2. thr[u].own.tok # 0 => arr'.of[thr[u].own.tok] = arr.of[thr[u].own.tok]
      BY <1>4
    <3>3. QED
      BY <3>1, <3>2 DEF OfOneLogin
  <2>2. ASSUME NEW u \in Threads, At(u, "SetToken") PROVE thr'[u].new > 0 /\ cli'.dev = arr'.of[thr'[u].new]
    <3>1. thr[u].new > 0 /\ cli.dev = arr.of[thr[u].new] /\ thr'[u].new = thr[u].new
      BY <1>5, <2>0, <2>2 DEF Paired
    <3>2. arr'.of[thr[u].new] = arr.of[thr[u].new]
      BY <1>4, <3>1
    <3>3. QED
      BY <3>1, <3>2
  <2>3. ASSUME \A u \in Threads : ~At(u, "SetToken") PROVE OfOneLogin(cli)'
    <3>1. OfOneLogin(cli)
      BY <2>0, <2>3 DEF Paired
    <3>2. cli.tok # 0 => arr'.of[cli.tok] = arr.of[cli.tok]
      BY <1>4
    <3>3. QED
      BY <3>1, <3>2 DEF OfOneLogin
  <2>4. QED
    BY <2>1, <2>2, <2>3
<1>10. QED
  BY <1>6, <1>9

(* The goroutine has the answer: a login's comes with a session, and a     *)
(* request that was carried out counts.                                    *)
LEMMA AnsweredLocal ==
  ASSUME IInv, NEW t \in Threads, At(t, "Do"), NEW j \in Goroutines, j.todo = Tail(thr[t].todo),
         thr[t].lost => j.lost,
         What(t) = "login" => (j.res = "ok" => j.new > 0),
         \/ j.ran = thr[t].ran
         \/ What(t) \in Carry /\ j.ran = thr[t].ran + 1 /\ (j.lost \/ j.res \notin {"unconnected", "refused"})
  PROVE  /\ Local(j) /\ ~Has(j.todo, {"SetToken"})
         /\ Has(j.todo, Critical) => Has(thr[t].todo, Critical)
<1> DEFINE s == thr[t].todo
           r == Tail(s)
           w == What(t)
<1>1. Types /\ s # <<>> /\ Head(s)[1] = "Do" /\ Local(thr[t])
  BY DEF IInv, At, Local
<1>2. /\ thr[t] \in Goroutines /\ s \in Seq(Steps) /\ Drop(r, s, 1) /\ r \in Seq(Steps) /\ 1 \in 1..Len(s)
      /\ s[1] \in Steps /\ s[1][1] = "Do" /\ s[1][2] = w
  BY <1>1, AtHead DEF What
<1>3. ASSUME NEW i \in 1..Len(r) PROVE i + 1 \in 1..Len(s) /\ r[i] = s[i + 1] /\ 1 # i + 1
  BY <1>2, DropAt, LenProperties
<1>4. Stack(r) /\ ~Has(r, {"SetToken"})
  <2> DEFINE d == 1
  <2>1. d > 0 /\ Drop(r, s, d)
    BY <1>2
  <2> HIDE DEF d
  <2>2. QED
    BY <1>1, <1>2, <2>1, StackDrop DEF Local
<1>5. /\ DoesCarry(r) => DoesCarry(s)
      /\ MayResend(r) => MayResend(s)
      /\ Has(r, Critical) => Has(s, Critical)
  BY <1>3, SMTT(30) DEF DoesCarry, MayResend, Has
<1>6. w \in Carry => DoesCarry(s) /\ ~DoesCarry(r)
  <2> SUFFICES ASSUME w \in Carry PROVE DoesCarry(s) /\ ~DoesCarry(r)
    OBVIOUS
  <2>1. 1 \in 1..Len(s) /\ s[1][1] = "Do" /\ s[1][2] = w
    BY <1>1, <1>2
  <2>2. DoesCarry(s)
    BY <2>1 DEF DoesCarry
  <2>3. OneRequest(s)
    BY <1>1 DEF Local, Stack
  <2>4. ASSUME NEW i \in 1..Len(r), r[i][1] = "Do", r[i][2] \in Carry PROVE FALSE
    <3>1. i + 1 \in 1..Len(s) /\ s[i + 1] = r[i]
      BY <1>3
    <3>2. i + 1 = 1
      BY <2>1, <2>3, <2>4, <3>1 DEF OneRequest
    <3>3. QED
      BY <3>2
  <2>5. QED
    BY <2>2, <2>4 DEF DoesCarry
<1>7. w \notin Carry => ~MayResend(s)
  BY <1>1, <1>2 DEF Local, Stack, OneRequest, MayResend
<1>8. thr[t].ran \in Nat /\ j.ran \in Nat /\ j.lost \in BOOLEAN /\ thr[t].lost \in BOOLEAN /\ Counted(thr[t])
  BY <1>1, <1>2 DEF Goroutines, Local
<1>9. Counted(j)
  <2>1. CASE j.ran = thr[t].ran
    BY <1>5, <1>6, <1>7, <1>8, <2>1 DEF Counted
  <2>2. CASE w \in Carry /\ j.ran = thr[t].ran + 1 /\ (j.lost \/ j.res \notin {"unconnected", "refused"})
    <3>1. thr[t].ran <= 1 /\ (thr[t].ran = 1 => thr[t].lost) /\ (MayResend(r) => thr[t].ran = 0) /\ ~DoesCarry(r)
      BY <1>5, <1>6, <1>8, <2>2 DEF Counted
    <3>2. j.ran > 1 => j.lost
      BY <1>8, <2>2, <3>1
    <3>3. MayResend(r) => j.ran <= 1
      BY <1>8, <2>2, <3>1
    <3>4. QED
      BY <2>2, <3>1, <3>2, <3>3 DEF Counted
  <2>3. QED
    BY <2>1, <2>2
<1>10. Answer(j)
  <2>1. CASE w = "login"
    BY <2>1 DEF Answer
  <2>2. CASE w # "login"
    <3>1. <<"Do", "login">>[2] = "login"
      OBVIOUS
    <3>2. s[1] # <<"Do", "login">>
      BY <1>2, <2>2, <3>1
    <3>3. LoginAsked(r)
      BY <1>1, <1>2, <3>2, LoginAskedBehind DEF Local
    <3>4. QED
      BY <3>3 DEF Answer, LoginAsked
  <2>3. QED
    BY <2>1, <2>2
<1>11. QED
  BY <1>4, <1>5, <1>9, <1>10 DEF Local

(* The array when it fails, carries out a logout, or issues a session. *)
LEMMA FaultTypes ==
  ASSUME arr \in Arrays, NEW why \in {"login", "drop", "garble", "expire", "move"}
  PROVE  Fault(why) \in Arrays /\ Fault(why).n = arr.n /\ Fault(why).of = arr.of /\ Fault(why).live = arr.live
<1> DEFINE f == arr.faults + 1
           y == arr.why \cup {why}
<1>1. f \in Nat /\ y \in SUBSET {"login", "drop", "garble", "expire", "move"}
  BY DEF Arrays
<1>2. Fault(why) = [arr EXCEPT !.faults = f, !.why = y]
  BY DEF Fault, Arrays
<1> HIDE DEF f, y
<1>3. QED
  BY <1>1, <1>2 DEF Arrays

(* A logout that is carried out removes a session, another request none.   *)
LEMMA CarriedTypes ==
  ASSUME NEW a \in Arrays, NEW t
  PROVE  Carried(a, t) \in Arrays /\ Carried(a, t).n = a.n /\ Carried(a, t).of = a.of
<1>1. CASE What(t) = "logout"
  <2> DEFINE l == a.live \ {thr[t].req.tok}
  <2>1. l \in SUBSET Nat
    BY DEF Arrays
  <2>2. Carried(a, t) = [a EXCEPT !.live = l]
    BY <1>1 DEF Carried
  <2> HIDE DEF l
  <2>3. QED
    BY <2>1, <2>2 DEF Arrays
<1>2. CASE What(t) # "logout"
  BY <1>2 DEF Carried
<1>3. QED
  BY <1>1, <1>2

(* A login adds a session behind those that were issued before.            *)
LEMMA IssuedTypes ==
  ASSUME arr \in Arrays, NEW a \in Arrays, a.n = arr.n, a.of = arr.of, arr.n < MaxLogins
  PROVE  /\ Issued(a) \in Arrays /\ Issued(a).n = arr.n + 1
         /\ \A k \in 1..arr.n : Issued(a).of[k] = arr.of[k]
<1> DEFINE m == arr.n + 1
           f == [arr.of EXCEPT ![m] = arr.at]
           l == a.live \cup {m}
<1>1. arr.n \in Nat /\ MaxLogins \in Nat /\ arr.of \in [1..MaxLogins -> SNs] /\ arr.at \in SNs /\ a.live \in SUBSET Nat
  BY SessionBounds DEF Arrays
<1>2. m \in Nat /\ m \in 1..MaxLogins /\ l \in SUBSET Nat /\ f \in [1..MaxLogins -> SNs]
  BY <1>1
<1>3. \A k \in 1..arr.n : f[k] = arr.of[k]
  <2> SUFFICES ASSUME NEW k \in 1..arr.n PROVE f[k] = arr.of[k]
    OBVIOUS
  <2>1. k # m /\ k \in 1..MaxLogins
    BY <1>1
  <2>2. QED
    BY <1>1, <2>1
<1>4. Issued(a) = [a EXCEPT !.n = m, !.live = l, !.of = f]
  BY DEF Issued, Arrays
<1> HIDE DEF m, f, l
<1>5. Issued(a) \in Arrays /\ Issued(a).n = m /\ Issued(a).of = f
  BY <1>2, <1>4 DEF Arrays
<1>6. QED
  BY <1>3, <1>5 DEF m

(* The goroutine after the answer. *)
LEMMA RanTypes ==
  ASSUME NEW t, NEW j \in Goroutines, arr \in Arrays
  PROVE  /\ Ran(t, j) \in Goroutines /\ Ran(t, j).todo = j.todo /\ Ran(t, j).res = j.res /\ Ran(t, j).lost = j.lost
         /\ Ran(t, j).new = j.new /\ Ran(t, j).own = j.own
         /\ \/ Ran(t, j).ran = j.ran
            \/ What(t) \in Carry /\ Ran(t, j).ran = j.ran + 1
<1>0. arr.at \in SNs /\ j.ran \in Nat
  BY DEF Arrays, Goroutines
<1>1. arr.at \in SNs /\ j.ran \in Nat /\ j.ran + 1 \in Nat
  BY <1>0
<1>2. CASE What(t) \in {"call", "safe"}
  <2> DEFINE m == j.ran + 1
             w == (j.away \/ arr.at # "A")
  <2>1. Ran(t, j) = [j EXCEPT !.ran = m, !.away = w]
    BY <1>2 DEF Ran, Goroutines
  <2>2. m \in Nat /\ w \in BOOLEAN
    BY <1>1
  <2> HIDE DEF m, w
  <2>3. /\ Ran(t, j) \in Goroutines /\ Ran(t, j).todo = j.todo /\ Ran(t, j).res = j.res /\ Ran(t, j).lost = j.lost
        /\ Ran(t, j).new = j.new /\ Ran(t, j).own = j.own /\ Ran(t, j).ran = m
    BY <2>1, <2>2 DEF Goroutines
  <2>4. QED
    BY <1>2, <2>3 DEF m, Carry
<1>3. CASE What(t) \notin {"call", "safe"} /\ What(t) = "system"
  BY <1>1, <1>3 DEF Ran, Goroutines
<1>4. CASE What(t) \notin {"call", "safe"} /\ What(t) # "system"
  BY <1>4 DEF Ran
<1>5. QED
  BY <1>2, <1>3, <1>4

(* A request, whatever becomes of it. *)
LEMMA DoKeeps ==
  ASSUME IInv, NEW t \in Threads, Do(t)
  PROVE  IInv'
<1>1. Types /\ thr[t].todo # <<>> /\ At(t, "Do") /\ ~At(t, "SetToken")
  BY DEF IInv, Do, At
<1>2. thr[t] \in Goroutines /\ cli \in ClientStates /\ arr \in Arrays
  BY <1>1 DEF Types
<1>3. CASE cli.nil
  BY <1>1, <1>3, PanicKeeps DEF Do
<1>4. ASSUME NEW j \in Goroutines, UNCHANGED <<cfg, cli>>, Becomes(t, j), j.todo = Tail(thr[t].todo), j.own = thr[t].own,
             arr' \in Arrays, arr.n <= arr'.n, arr'.n <= MaxLogins, \A k \in 1..arr.n : arr'.of[k] = arr.of[k],
             j.new <= arr'.n, thr[t].lost => j.lost,
             What(t) = "login" => (j.res = "ok" => j.new > 0),
             \/ j.ran = thr[t].ran
             \/ What(t) \in Carry /\ j.ran = thr[t].ran + 1 /\ (j.lost \/ j.res \notin {"unconnected", "refused"})
      PROVE  IInv'
  <2>1. /\ Local(j) /\ ~Has(j.todo, {"SetToken"})
        /\ Has(j.todo, Critical) => Has(thr[t].todo, Critical)
    BY <1>1, <1>4, AnsweredLocal
  <2>2. MutexKept(t, j)
    BY <1>4, <2>1 DEF MutexKept
  <2>3. Sessions' /\ Paired'
    BY <1>1, <1>4, <2>1, ArrayMoves
  <2>4. QED
    BY <1>2, <1>4, <2>1, <2>2, <2>3, Frame
<1>5. /\ arr.n \in Nat /\ arr.n <= MaxLogins /\ MaxLogins \in Nat /\ thr[t].new \in Nat /\ thr[t].new <= arr.n
  BY <1>2, SessionBounds DEF Arrays, Goroutines, IInv, Sessions
<1>6. ASSUME NEW r \in {"ok", "err", "refused", "unconnected", "rejected", "panic"}
      PROVE  /\ Answered(t, r) \in Goroutines /\ Answered(t, r).todo = Tail(thr[t].todo) /\ Answered(t, r).res = r
             /\ Answered(t, r).ran = thr[t].ran /\ Answered(t, r).lost = thr[t].lost
             /\ Answered(t, r).new = thr[t].new /\ Answered(t, r).own = thr[t].own
  <2>1. /\ Done(t) \in Goroutines /\ Done(t).todo = Tail(thr[t].todo)
        /\ Done(t).ran = thr[t].ran /\ Done(t).lost = thr[t].lost
        /\ Done(t).new = thr[t].new /\ Done(t).own = thr[t].own
    BY <1>1, DoneTypes
  <2>2. QED
    BY <2>1 DEF Answered, Goroutines
<1>7. ASSUME What(t) = "login", doLogin(t), UNCHANGED <<cfg, cli>>
      PROVE  IInv'
  <2>1. ASSUME arr.n < MaxLogins, arr' = Issued(arr), Becomes(t, [Answered(t, "ok") EXCEPT !.new = arr.n + 1])
        PROVE  IInv'
    <3> DEFINE m == arr.n + 1
               j == [Answered(t, "ok") EXCEPT !.new = m]
    <3>0. m \in Nat
      BY <1>5
    <3>1. /\ j \in Goroutines /\ j.todo = Tail(thr[t].todo) /\ j.own = thr[t].own
          /\ j.ran = thr[t].ran /\ j.lost = thr[t].lost /\ j.new = m
      <4> HIDE DEF m
      <4>1. QED
        BY <1>6, <3>0, ZenonT(40) DEF Goroutines
    <3>2. arr' \in Arrays /\ arr'.n = arr.n + 1 /\ \A k \in 1..arr.n : arr'.of[k] = arr.of[k]
      BY <1>2, <2>1, IssuedTypes
    <3>3. arr.n <= arr'.n /\ arr'.n <= MaxLogins /\ j.new <= arr'.n /\ j.new > 0
      BY <1>5, <2>1, <3>1, <3>2
    <3> HIDE DEF j
    <3>4. Becomes(t, j)
      BY <2>1 DEF j
    <3>5. QED
      BY <1>4, <1>7, <3>1, <3>2, <3>3, <3>4
  <2>2. ASSUME arr.n < MaxLogins, arr' = Issued(Fault("login")), Becomes(t, Answered(t, "unconnected"))
        PROVE  IInv'
    <3>1. arr' \in Arrays /\ arr'.n = arr.n + 1 /\ \A k \in 1..arr.n : arr'.of[k] = arr.of[k]
      BY <1>2, <2>2, FaultTypes, IssuedTypes
    <3>2. arr.n <= arr'.n /\ arr'.n <= MaxLogins /\ Answered(t, "unconnected").new <= arr'.n
      BY <1>5, <1>6, <2>2, <3>1
    <3>3. QED
      BY <1>4, <1>6, <1>7, <2>2, <3>1, <3>2
  <2>3. ASSUME arr' = Fault("login"), NEW r \in {"unconnected", "rejected"}, Becomes(t, Answered(t, r))
        PROVE  IInv'
    <3>1. arr' \in Arrays /\ arr'.n = arr.n /\ arr'.of = arr.of
      BY <1>2, <2>3, FaultTypes
    <3>2. arr.n <= arr'.n /\ arr'.n <= MaxLogins /\ Answered(t, r).new <= arr'.n
      BY <1>5, <1>6, <3>1
    <3>3. QED
      BY <1>4, <1>6, <1>7, <2>3, <3>1, <3>2
  <2>4. QED
    BY <1>7, <2>1, <2>2, <2>3 DEF doLogin
<1>8. ASSUME What(t) # "login", doRequest(t), UNCHANGED <<cfg, cli>>
      PROVE  IInv'
  <2>0. ASSUME NEW j \in Goroutines, Becomes(t, j), j.todo = Tail(thr[t].todo), j.own = thr[t].own, j.new = thr[t].new,
               arr' \in Arrays, arr'.n = arr.n, arr'.of = arr.of, thr[t].lost => j.lost,
               \/ j.ran = thr[t].ran
               \/ What(t) \in Carry /\ j.ran = thr[t].ran + 1 /\ (j.lost \/ j.res \notin {"unconnected", "refused"})
        PROVE  IInv'
    <3>1. arr.n <= arr'.n /\ arr'.n <= MaxLogins /\ j.new <= arr'.n /\ \A k \in 1..arr.n : arr'.of[k] = arr.of[k]
      BY <1>5, <2>0
    <3>2. QED
      BY <1>4, <1>8, <2>0, <3>1
  <2>1. ASSUME arr' = Carried(arr, t), Becomes(t, Ran(t, Answered(t, "ok")))
        PROVE  IInv'
    <3>1. arr' \in Arrays /\ arr'.n = arr.n /\ arr'.of = arr.of
      BY <1>2, <2>1, CarriedTypes
    <3> DEFINE j == Ran(t, Answered(t, "ok"))
    <3>2. /\ j \in Goroutines /\ j.todo = Tail(thr[t].todo) /\ j.res = "ok" /\ j.lost = thr[t].lost
          /\ j.own = thr[t].own /\ j.new = thr[t].new
          /\ (j.ran = thr[t].ran \/ (What(t) \in Carry /\ j.ran = thr[t].ran + 1))
      BY <1>2, <1>6, RanTypes, SMTT(30)
    <3> HIDE DEF j
    <3>3. Becomes(t, j)
      BY <2>1 DEF j
    <3>4. QED
      BY <2>0, <3>1, <3>2, <3>3
  <2>2. ASSUME arr' = Carried(Fault("drop"), t), Becomes(t, Ran(t, [Answered(t, "unconnected") EXCEPT !.lost = TRUE]))
        PROVE  IInv'
    <3>1. arr' \in Arrays /\ arr'.n = arr.n /\ arr'.of = arr.of
      BY <1>2, <2>2, FaultTypes, CarriedTypes
    <3> DEFINE g == [Answered(t, "unconnected") EXCEPT !.lost = TRUE]
               j == Ran(t, g)
    <3>2. /\ g \in Goroutines /\ g.todo = Tail(thr[t].todo) /\ g.lost = TRUE
          /\ g.own = thr[t].own /\ g.new = thr[t].new /\ g.ran = thr[t].ran
      BY <1>6, ZenonT(40) DEF Goroutines
    <3> HIDE DEF g
    <3>3. /\ j \in Goroutines /\ j.todo = Tail(thr[t].todo) /\ j.lost = TRUE
          /\ j.own = thr[t].own /\ j.new = thr[t].new
          /\ (j.ran = thr[t].ran \/ (What(t) \in Carry /\ j.ran = thr[t].ran + 1))
      BY <1>2, <3>2, RanTypes, SMTT(30)
    <3> HIDE DEF j
    <3>4. Becomes(t, j)
      BY <2>2 DEF j, g
    <3>5. QED
      BY <2>0, <3>1, <3>3, <3>4
  <2>3. ASSUME arr' = Carried(Fault("garble"), t), Becomes(t, Ran(t, Answered(t, "err")))
        PROVE  IInv'
    <3>1. arr' \in Arrays /\ arr'.n = arr.n /\ arr'.of = arr.of
      BY <1>2, <2>3, FaultTypes, CarriedTypes
    <3> DEFINE j == Ran(t, Answered(t, "err"))
    <3>2. /\ j \in Goroutines /\ j.todo = Tail(thr[t].todo) /\ j.res = "err" /\ j.lost = thr[t].lost
          /\ j.own = thr[t].own /\ j.new = thr[t].new
          /\ (j.ran = thr[t].ran \/ (What(t) \in Carry /\ j.ran = thr[t].ran + 1))
      BY <1>2, <1>6, RanTypes, SMTT(30)
    <3> HIDE DEF j
    <3>3. Becomes(t, j)
      BY <2>3 DEF j
    <3>4. QED
      BY <2>0, <3>1, <3>2, <3>3
  <2>4. ASSUME arr' = arr, Becomes(t, Answered(t, "refused"))
        PROVE  IInv'
    BY <1>2, <1>6, <2>0, <2>4
  <2>5. ASSUME arr' = Fault("drop"), Becomes(t, Answered(t, "unconnected"))
        PROVE  IInv'
    <3>1. arr' \in Arrays /\ arr'.n = arr.n /\ arr'.of = arr.of
      BY <1>2, <2>5, FaultTypes
    <3>2. QED
      BY <1>6, <2>0, <2>5, <3>1
  <2>6. QED
    BY <1>8, <2>1, <2>2, <2>3, <2>4, <2>5 DEF doRequest
<1>9. QED
  BY <1>3, <1>7, <1>8 DEF Do

(* A call begins with nothing carried out and no login ahead of its answer. *)
LEMMA BeginKeeps ==
  ASSUME IInv, NEW t \in Threads, Begin(t)
  PROVE  IInv'
<1> DEFINE p == CallsOf(cfg.ops[t])
           j == [thr[t] EXCEPT !.todo = p, !.n = @ + 1, !.ran = 0, !.lost = FALSE, !.away = FALSE, !.res = "ok"]
<1>1. Types /\ thr[t].todo = <<>> /\ Becomes(t, j) /\ UNCHANGED <<cfg, cli, arr>>
  BY DEF IInv, Begin
<1>2. ~At(t, "SetToken") /\ thr[t] \in Goroutines /\ cli \in ClientStates /\ arr \in Arrays
  BY <1>1 DEF At, Types
<1>3. cfg.kind \in Kinds /\ cfg.ops[t] \in {"call", "safe", "relogin", "logout"}
  BY <1>1, Config
<1>4. PICK N : Program(p, N) /\ N \cap Critical = {}
  <2>1. CASE cfg.ops[t] \in {"call", "safe"}
    <3>1. p = Call(cfg.ops[t])
      BY <2>1 DEF CallsOf
    <3>2. Program(p, Base \cup {"Retry"})
      BY <1>3, <2>1, <3>1, CallProgram
    <3>3. (Base \cup {"Retry"}) \cap Critical = {}
      BY DEF Base, Before, Critical
    <3>4. QED
      BY <3>2, <3>3
  <2>2. CASE cfg.ops[t] = "relogin"
    <3>1. p = ReLogin
      BY <2>2 DEF CallsOf
    <3>2. Again \cap Critical = {}
      BY DEF Again, Base, Before, Critical
    <3>3. QED
      BY <3>1, <3>2, ReLoginProgram
  <2>3. CASE cfg.ops[t] = "logout"
    <3>1. p = Logout
      BY <2>3 DEF CallsOf
    <3>2. Out \cap Critical = {}
      BY DEF Out, Base, Before, Critical
    <3>3. QED
      BY <1>3, <3>1, <3>2, LogoutProgram
  <2>4. QED
    BY <1>3, <2>1, <2>2, <2>3
<1> HIDE DEF p
<1>5. /\ j \in Goroutines /\ j.todo = p /\ j.ran = 0 /\ j.new = thr[t].new /\ j.own = thr[t].own
  <2> DEFINE m == thr[t].n + 1
  <2>0. thr[t].n \in Nat
    BY <1>2 DEF Goroutines
  <2>1. m \in Nat /\ p \in Seq(Steps)
    BY <1>4, <2>0 DEF Program
  <2>2. j = [thr[t] EXCEPT !.todo = p, !.n = m, !.ran = 0, !.lost = FALSE, !.away = FALSE, !.res = "ok"]
    BY <1>2 DEF Goroutines
  <2> HIDE DEF m, j
  <2>3. QED
    BY <1>2, <2>1, <2>2 DEF Goroutines
<1> HIDE DEF j
<1>6. ~Has(p, Critical) /\ ~Has(p, {"SetToken"}) /\ Stack(p) /\ LoginAsked(p)
  BY <1>4 DEF Program, Has, Critical
<1>7. Local(j)
  <2>1. Answer(j)
    BY <1>5, <1>6 DEF Answer, LoginAsked
  <2>2. Counted(j)
    BY <1>5 DEF Counted
  <2>3. QED
    BY <1>5, <1>6, <2>1, <2>2 DEF Local
<1>8. MutexKept(t, j)
  BY <1>1, <1>5, <1>6 DEF MutexKept
<1>9. Sessions' /\ Paired'
  BY <1>1, <1>2, <1>5, <1>6, Calm
<1>10. QED
  BY <1>1, <1>2, <1>5, <1>7, <1>8, <1>9, Frame

(* The array forgets a session, or the port moves: what it issued stays. *)
LEMMA ArrayOnly ==
  ASSUME IInv, UNCHANGED <<cfg, cli, thr>>, arr' \in Arrays, arr'.n = arr.n, arr'.of = arr.of
  PROVE  IInv'
<1>1. Threads' = Threads /\ ClientStates' = ClientStates /\ (HasDevice' <=> HasDevice)
  BY DEF Threads, ClientStates, HasDevice
<1>2. Types'
  BY <1>1 DEF IInv, Types
<1>3. Sessions' /\ Exclusive'
  BY <1>1 DEF IInv, Sessions, Exclusive
<1>4. Paired'
  BY <1>1 DEF IInv, Paired, OfOneLogin, At
<1>5. \A t \in Threads' : (Stack(thr[t].todo) /\ Answer(thr[t]) /\ Counted(thr[t]))'
  BY <1>1 DEF IInv, Answer, Counted
<1>6. QED
  BY <1>2, <1>3, <1>4, <1>5 DEF IInv

(* A session expires, or the LIF moves. *)
LEMMA SurroundingsKeep ==
  ASSUME IInv, Expire \/ MoveLif
  PROVE  IInv'
<1>1. arr \in Arrays /\ UNCHANGED <<cfg, cli, thr>>
  BY DEF IInv, Types, Expire, MoveLif
<1>2. CASE Expire
  <2>1. PICK k \in arr.live : arr' = [Fault("expire") EXCEPT !.live = @ \ {k}]
    BY <1>2 DEF Expire
  <2> DEFINE a == Fault("expire")
             l == a.live \ {k}
  <2>2. a \in Arrays /\ a.n = arr.n /\ a.of = arr.of
    BY <1>1, FaultTypes
  <2>3. arr' = [a EXCEPT !.live = l]
    BY <2>1
  <2>4. l \in SUBSET Nat
    BY <2>2 DEF Arrays
  <2> HIDE DEF a, l
  <2>5. arr' \in Arrays /\ arr'.n = arr.n /\ arr'.of = arr.of
    BY <2>2, <2>3, <2>4 DEF Arrays
  <2>6. QED
    BY <1>1, <2>5, ArrayOnly
<1>3. CASE MoveLif
  <2> DEFINE a == Fault("move")
  <2>1. arr' = [a EXCEPT !.at = "B"]
    BY <1>3 DEF MoveLif
  <2>2. a \in Arrays /\ a.n = arr.n /\ a.of = arr.of
    BY <1>1, FaultTypes
  <2> HIDE DEF a
  <2>3. arr' \in Arrays /\ arr'.n = arr.n /\ arr'.of = arr.of
    BY <2>1, <2>2 DEF Arrays, SNs
  <2>4. QED
    BY <1>1, <2>3, ArrayOnly
<1>4. QED
  BY <1>2, <1>3

-----------------------------------------------------------------------------
(* The plugin was initialised with one session. *)
LEMMA InitHolds == Init => IInv
<1> SUFFICES ASSUME Init PROVE IInv
  OBVIOUS
<1> DEFINE g == [todo |-> <<>>, req |-> NoReq, old |-> 0, new |-> 0, own |-> NoReq, key |-> "none", res |-> "ok",
                 ran |-> 0, lost |-> FALSE, away |-> FALSE, at |-> "A", info |-> FALSE, n |-> 0]
           c == [tok |-> 1, dev |-> IF HasDevice THEN "A" ELSE "", nil |-> FALSE, refreshing |-> FALSE, lif |-> "A",
                 site |-> "A", online |-> TRUE, mutex |-> {}, sem |-> {}, dsem |-> [k \in SNs \cup {"uninit"} |-> 0]]
           a == [at |-> "A", live |-> {1}, of |-> [k \in 1..MaxLogins |-> "A"], n |-> 1, faults |-> 0, why |-> {}]
<1>1. cfg \in Clients /\ cli = c /\ arr = a /\ thr = [t \in Threads |-> g]
  BY DEF Init
<1>2. <<>> \in Seq(Steps) /\ Len(<<>>) = 0 /\ MaxLogins \in Nat /\ 1 \in 1..MaxLogins
  BY EmptySeq, SessionBounds
<1>3. NoReq \in Reqs /\ NoReq.tok = 0 /\ NoReq.dev = ""
  BY DEF NoReq, Reqs
<1>4. g \in Goroutines /\ g.todo = <<>> /\ g.ran = 0 /\ g.new = 0 /\ g.own = NoReq
  BY <1>2, <1>3 DEF Goroutines, SNs
<1>5. c \in ClientStates /\ c.tok = 1 /\ c.dev = (IF HasDevice THEN "A" ELSE "") /\ c.mutex = {}
  BY DEF ClientStates, SNs
<1>6. a \in Arrays /\ a.n = 1 /\ a.of = [k \in 1..MaxLogins |-> "A"]
  BY <1>2 DEF Arrays, SNs
<1> HIDE DEF g, c, a
<1>7. Types
  BY <1>1, <1>4, <1>5, <1>6 DEF Types
<1>8. \A t \in Threads : thr[t] = g
  BY <1>1
<1>9. Stack(<<>>) /\ \A N : ~Has(<<>>, N)
  BY <1>2 DEF Stack, SectionEnds, AskedBefore, OneRequest, Released, LookedUp, Has
<1>10. Answer(g) /\ Counted(g)
  BY <1>2, <1>4 DEF Answer, Counted, DoesCarry, MayResend
<1>11. Sessions
  <2>1. arr.n = 1 /\ cli.tok = 1
    BY <1>1, <1>5, <1>6
  <2>2. \A t \in Threads : thr[t].new = 0 /\ thr[t].own.tok = 0
    BY <1>3, <1>4, <1>8
  <2>3. 1 <= MaxLogins
    BY <1>2
  <2>4. QED
    BY <2>1, <2>2, <2>3 DEF Sessions
<1>12. Exclusive
  BY <1>4, <1>8, <1>9 DEF Exclusive
<1>13. Paired
  <2>1. \A t \in Threads : OfOneLogin(thr[t].own)
    BY <1>3, <1>4, <1>8 DEF OfOneLogin
  <2>2. \A t \in Threads : ~At(t, "SetToken")
    BY <1>4, <1>8 DEF At
  <2>3. HasDevice => OfOneLogin(cli)
    BY <1>1, <1>2, <1>5, <1>6 DEF OfOneLogin
  <2>4. QED
    BY <2>1, <2>2, <2>3 DEF Paired
<1>14. QED
  BY <1>4, <1>7, <1>8, <1>9, <1>10, <1>11, <1>12, <1>13 DEF IInv

(* Every step keeps the invariant. *)
LEMMA StepKeeps ==
  ASSUME IInv, NEW t \in Threads, Step(t)
  PROVE  IInv'
  BY checkClientKeeps, GetRequestKeeps, AcquireKeeps, lookupDeviceKeeps, acquireDeviceKeeps, deferDeviceKeeps,
     acquireKeyKeeps, safeDoCallKeeps, DoKeeps, ReleaseKeeps, retryCallKeeps, endCallKeeps, startRefreshKeeps,
     readOldTokenKeeps, lockReLoginKeeps, unlockReLoginKeeps, loggedOutKeeps, resetSessionKeeps, loggedInKeeps,
     giveUpKeeps, setTokenKeeps DEF Step

(* The invariant is inductive. *)
LEMMA NextKeeps == IInv /\ [Next]_vars => IInv'
<1> SUFFICES ASSUME IInv, [Next]_vars PROVE IInv'
  OBVIOUS
<1>1. ASSUME NEW t \in Threads, Begin(t) PROVE IInv'
  BY <1>1, BeginKeeps
<1>2. ASSUME NEW t \in Threads, Step(t) PROVE IInv'
  BY <1>2, StepKeeps
<1>3. CASE Expire \/ MoveLif
  BY <1>3, SurroundingsKeep
<1>4. CASE UNCHANGED vars
  <2>1. UNCHANGED <<cfg, cli, thr>> /\ arr' = arr
    BY <1>4 DEF vars
  <2>2. arr \in Arrays
    BY DEF IInv, Types
  <2>3. QED
    BY <2>1, <2>2, ArrayOnly
<1>5. QED
  BY <1>1, <1>2, <1>3, <1>4 DEF Next

(* In every state a goroutine's steps stand in an order a call can have,   *)
(* one goroutine is in ReLogin's section, and the client's device id and   *)
(* token are of one login except in between its two assignments.           *)
THEOREM SessionInvariant == Spec => []IInv
<1>1. QED
  BY InitHolds, NextKeeps, PTL DEF Spec

(* Every request carries the device id and the token of one login: the     *)
(* mutex that GetRequest takes is enough, however many goroutines, calls,  *)
(* logins and failures there are.                                          *)
THEOREM RequestsAreOfOneLogin == Spec => []RequestOfOneLogin
<1>1. IInv => RequestOfOneLogin
  BY DEF IInv, Paired, OfOneLogin, RequestOfOneLogin
<1>2. QED
  BY <1>1, SessionInvariant, PTL

(* Call has a request carried out twice only when the first answer was     *)
(* lost, however many goroutines, calls, logins and failures there are.    *)
THEOREM ResendsAreUnanswered == Spec => []ResentOnlyWhenUnanswered
<1>1. IInv => ResentOnlyWhenUnanswered
  BY DEF IInv, Counted, ResentOnlyWhenUnanswered
<1>2. QED
  BY <1>1, SessionInvariant, PTL
=============================================================================
