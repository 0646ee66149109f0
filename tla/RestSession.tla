---------------------------- MODULE RestSession ----------------------------
(***************************************************************************)
(* The REST client of a backend, shared by the goroutines that serve calls *)
(* on that backend: the session with the array, the mutex and semaphores   *)
(* around a request, and the login that replaces a session that was lost.  *)
(*                                                                         *)
(* Four clients follow the same plan with small differences: "oceanstor"   *)
(* (OceanStor), "base" (A-series and OceanDisk), "fusion" (FusionStorage)  *)
(* and "dme".  A session is a number; the array that issued it knows it    *)
(* until it is logged out or expires.  In an active-active NAS pair the    *)
(* management port (LIF) may move from its home array A to array B.        *)
(***************************************************************************)
EXTENDS Naturals, Sequences, FiniteSets

CONSTANTS Clients,         \* the configurations that are explored
          Parallel,        \* permits of a client's RequestSemaphore
          StoragePermits,  \* MaxStorageThreads, the permits of one array
          MaxLogins        \* sessions an array issues in one behaviour

VARIABLES cfg,   \* [kind, ops: what each goroutine does, urls, calls, metro, faults]
          cli,   \* the client and the semaphores of the process
          arr,   \* the arrays
          thr    \* the goroutines

vars == <<cfg, cli, arr, thr>>

ASSUME SessionBounds == Parallel \in Nat \ {0} /\ StoragePermits \in Nat \ {0}
                        /\ MaxLogins \in Nat \ {0}

(* Every configuration is one of the four clients, and its goroutines do   *)
(* what CallsOf knows.                                                     *)
Kinds == {"oceanstor", "base", "fusion", "dme"}
ASSUME ClientsAssumption ==
    \A c \in Clients : /\ c.kind \in Kinds
                       /\ \A t \in DOMAIN c.ops : c.ops[t] \in {"call", "safe", "relogin", "logout"}
                       /\ c.urls \in Nat

SNs     == {"A", "B"}
NoReq   == [tok |-> 0, dev |-> ""]
Threads == DOMAIN cfg.ops
Solo    == Cardinality(Threads) = 1
HasDevice == cfg.kind \in {"oceanstor", "base"}    \* clients with a device id in the URL

---------------------------------------------------------------- \* What a goroutine goes through
(* BaseCall: build the request, take a permit of the client and one of the *)
(* array, send it, give the permits back.  Only FusionStorage ever takes   *)
(* the HTTP client away again, so only its check for one can fail.         *)
BaseCallPermitFirst(w) ==
    (IF cfg.kind = "fusion" THEN <<<<"Client", w>>>> ELSE <<>>)
    \o <<<<"Acquire", w>>, <<"GetRequest", w>>, <<"Do", w>>, <<"Release", w>>>>
BaseCall(w) ==
    (IF cfg.kind = "fusion" THEN <<<<"Client", w>>>> ELSE <<>>)
    \o <<<<"GetRequest", w>>, <<"Acquire", w>>>>
    \o (CASE HasDevice          -> <<<<"Device", w>>, <<"AcquireDevice", w>>, <<"DeferDevice", w>>>>
          [] cfg.kind = "dme"    -> <<<<"AcquireKey", w>>>>
          [] cfg.kind = "fusion" -> <<>>)
    \o (IF w = "safe" THEN <<<<"safeDoCall", w>>>> ELSE <<>>)
    \o <<<<"Do", w>>, <<"Release", w>>>>

Call(w) == BaseCall(w) \o <<<<"Retry", w>>>>
Logout  == BaseCall("logout") \o <<<<"LoggedOut", 0>>>>
Login   == <<<<"Reset", 0>>>> \o BaseCall("login") \o <<<<"LoggedIn", cfg.urls>>>>
ReLogin == <<<<"OldToken", 0>>, <<"Lock", 0>>>>

(* OceanStor reads the system information anew after a login. *)
SetSystemInfo == IF cfg.kind = "oceanstor" THEN <<<<"Refresh", 0>>>> \o Call("system") ELSE <<>>

(* The request is sent a second time, and the second answer counts. *)
Resend(w) == ReLogin \o SetSystemInfo \o BaseCall(w) \o <<<<"Finish", w>>>>

CallsOf(op) == CASE op \in {"call", "safe"} -> Call(op)
                 [] op = "relogin"          -> ReLogin      \* UpdateStorageBackend: Plugin.ReLogin
                 [] op = "logout"           -> Logout       \* the cache deletes the backend: Plugin.Logout

(* What asks for a new login: the array did not answer, or did not accept  *)
(* the session.                                                            *)
NeedReLoginOnError(res) == res # "ok"
NeedReLogin(res) == res \in {"unconnected", "refused"}

---------------------------------------------------------------- \* Steps
At(t, s)   == thr[t].todo # <<>> /\ Head(thr[t].todo)[1] = s
What(t)    == Head(thr[t].todo)[2]
Done(t)    == [thr[t] EXCEPT !.todo = Tail(@)]
Becomes(t, j) == thr' = [thr EXCEPT ![t] = j]

(* The steps that follow the request the goroutine is in. *)
AfterRequest(todo) ==
    LET i == CHOOSE i \in DOMAIN todo : /\ todo[i][1] = "Release"
                                        /\ \A k \in 1..(i - 1) : todo[k][1] # "Release"
    IN  SubSeq(todo, i + 1, Len(todo))

(* The call returns: its deferred unlock and reset run. *)
Unwound(c, t) == [c EXCEPT !.mutex = IF @ = {t} THEN {} ELSE @,
                           !.refreshing = @ /\ ~thr[t].info,
                           !.sem = @ \ {t}]
Return(t, res) == [thr[t] EXCEPT !.todo = <<>>, !.res = res, !.info = FALSE, !.key = "none"]

Begin(t) ==
    /\ thr[t].todo = <<>> /\ thr[t].n < cfg.calls
    /\ Becomes(t, [thr[t] EXCEPT !.todo = CallsOf(cfg.ops[t]), !.n = @ + 1, !.ran = 0, !.lost = FALSE,
                                 !.away = FALSE, !.res = "ok"])
    /\ UNCHANGED <<cfg, cli, arr>>

(* A client without an HTTP client fails the request. *)
checkClient(t) ==
    /\ At(t, "Client")
    /\ Becomes(t, IF cli.nil THEN [thr[t] EXCEPT !.todo = AfterRequest(@), !.res = "err"] ELSE Done(t))
    /\ UNCHANGED <<cfg, cli, arr>>

(* GetRequest takes device id and token under the relogin mutex, except    *)
(* for the session requests, which are sent while it is held.              *)
Session(w) == w \in {"login", "logout"}
Request(t, w, d, k) == Becomes(t, [Done(t) EXCEPT !.req = [tok |-> k, dev |-> d],
                                                   !.own = IF Session(w) THEN @ ELSE [tok |-> k, dev |-> d]])
GetRequestUnlocked(t) ==
    /\ At(t, "GetRequest")
    /\ Request(t, What(t), cli.dev, cli.tok)
    /\ UNCHANGED <<cfg, cli, arr>>
GetRequest(t) ==
    /\ At(t, "GetRequest")
    /\ Session(What(t)) \/ cli.mutex = {}
    /\ Request(t, What(t), cli.dev, cli.tok)
    /\ UNCHANGED <<cfg, cli, arr>>

Acquire(t) ==
    /\ At(t, "Acquire")
    /\ Cardinality(cli.sem) < Parallel
    /\ cli' = [cli EXCEPT !.sem = @ \cup {t}]
    /\ Becomes(t, Done(t))
    /\ UNCHANGED <<cfg, arr>>

(* A permit of the array k. *)
Permit(t, k, j) ==
    /\ cli.dsem[k] < StoragePermits
    /\ cli' = [cli EXCEPT !.dsem[k] = @ + 1]
    /\ Becomes(t, j)
    /\ UNCHANGED <<cfg, arr>>

(* A goroutine that uses a semaphore or client that is not there panics;   *)
(* RecoverPanic ends the call.                                             *)
Panic(t) ==
    /\ cli' = Unwound(cli, t)
    /\ Becomes(t, Return(t, "panic"))
    /\ UNCHANGED <<cfg, arr>>

(* The array's semaphore is looked up three times by the device id the     *)
(* client has at that moment: to see that it exists, to acquire it, and    *)
(* for the deferred release.  There is none for the empty device id.       *)
lookupDevice(t) ==
    /\ At(t, "Device")
    /\ CASE cli.dev # "" -> Becomes(t, Done(t)) /\ UNCHANGED <<cfg, cli, arr>>
         [] cli.dev = "" /\ What(t) = "safe" ->
              /\ Becomes(t, [thr[t] EXCEPT !.todo = SubSeq(@, 4, Len(@)), !.key = "none"])
              /\ UNCHANGED <<cfg, cli, arr>>
         [] OTHER -> Permit(t, "uninit", [thr[t] EXCEPT !.todo = SubSeq(@, 4, Len(@)), !.key = "uninit"])
acquireDevice(t) ==
    /\ At(t, "AcquireDevice")
    /\ IF cli.dev = "" THEN Panic(t) ELSE Permit(t, cli.dev, Done(t))
deferDevice(t) ==
    /\ At(t, "DeferDevice")
    /\ Becomes(t, [Done(t) EXCEPT !.key = cli.dev])
    /\ UNCHANGED <<cfg, cli, arr>>

(* DME looks its semaphore up once. *)
acquireKey(t) == At(t, "AcquireKey") /\ Permit(t, "uninit", [Done(t) EXCEPT !.key = "uninit"])

(* A safe request is only sent while the LIF is known to be at home. *)
safeDoCall(t) ==
    /\ At(t, "safeDoCall")
    /\ Becomes(t, IF cfg.metro /\ (cli.refreshing \/ cli.lif # cli.site)
                  THEN [thr[t] EXCEPT !.todo = SubSeq(@, 3, Len(@)), !.res = "err"]
                  ELSE Done(t))
    /\ UNCHANGED <<cfg, cli, arr>>

(* The permits go back: the array's by the name the deferred call holds,   *)
(* and a release of a semaphore nobody holds waits for someone to take it. *)
Release(t) ==
    /\ At(t, "Release")
    /\ IF thr[t].key = "" THEN Panic(t)
       ELSE /\ \/ thr[t].key = "none" /\ cli' = [cli EXCEPT !.sem = @ \ {t}]
               \/ /\ thr[t].key # "none" /\ cli.dsem[thr[t].key] > 0
                  /\ cli' = [cli EXCEPT !.sem = @ \ {t}, !.dsem[thr[t].key] = @ - 1]
            /\ Becomes(t, [Done(t) EXCEPT !.key = "none"])
            /\ UNCHANGED <<cfg, arr>>

---------------------------------------------------------------- \* The array answers
Fault(why)  == [arr EXCEPT !.faults = @ + 1, !.why = @ \cup {why}]
MayFail     == arr.faults < cfg.faults
Accepted(q) == q.tok \in arr.live /\ arr.of[q.tok] = arr.at
Answered(t, res) == [Done(t) EXCEPT !.res = res]

(* A login issues a session, also when its answer is lost. *)
Issued(a) == [a EXCEPT !.n = @ + 1, !.live = @ \cup {arr.n + 1}, !.of[arr.n + 1] = arr.at]
doLogin(t) ==
    \/ arr.n < MaxLogins /\ arr' = Issued(arr) /\ Becomes(t, [Answered(t, "ok") EXCEPT !.new = arr.n + 1])
    \/ arr.n < MaxLogins /\ MayFail /\ arr' = Issued(Fault("login")) /\ Becomes(t, Answered(t, "unconnected"))
    \/ MayFail /\ arr' = Fault("login") /\ \E r \in {"unconnected", "rejected"} : Becomes(t, Answered(t, r))

(* Any other request is carried out for a session the array knows; its     *)
(* answer may not come ("unconnected") or not be readable ("err").         *)
Carried(a, t) == IF What(t) = "logout" THEN [a EXCEPT !.live = @ \ {thr[t].req.tok}] ELSE a
Ran(t, j)     == IF What(t) \in {"call", "safe"} THEN [j EXCEPT !.ran = @ + 1, !.away = @ \/ arr.at # "A"]
                 ELSE IF What(t) = "system" THEN [j EXCEPT !.at = arr.at] ELSE j
doRequest(t) ==
    \/ Accepted(thr[t].req) /\ arr' = Carried(arr, t) /\ Becomes(t, Ran(t, Answered(t, "ok")))
    \/ /\ Accepted(thr[t].req) /\ MayFail
       /\ \/ arr' = Carried(Fault("drop"), t) /\ Becomes(t, Ran(t, [Answered(t, "unconnected") EXCEPT !.lost = TRUE]))
          \/ arr' = Carried(Fault("garble"), t) /\ Becomes(t, Ran(t, Answered(t, "err")))
    \/ ~Accepted(thr[t].req) /\ arr' = arr /\ Becomes(t, Answered(t, "refused"))
    \/ MayFail /\ arr' = Fault("drop") /\ Becomes(t, Answered(t, "unconnected"))

Do(t) ==
    /\ At(t, "Do")
    /\ IF cli.nil THEN Panic(t)
       ELSE (IF What(t) = "login" THEN doLogin(t) ELSE doRequest(t)) /\ UNCHANGED <<cfg, cli>>

---------------------------------------------------------------- \* After the answer
(* The first answer of a call decides whether to log in again and resend.  *)
finishCall(t) ==
    IF What(t) = "system"
    THEN IF thr[t].res = "ok"
         THEN /\ cli' = [cli EXCEPT !.site = thr[t].at, !.refreshing = FALSE]
              /\ Becomes(t, [Done(t) EXCEPT !.info = FALSE])
         ELSE cli' = Unwound(cli, t) /\ Becomes(t, Return(t, "err"))
    ELSE cli' = Unwound(cli, t) /\ Becomes(t, Return(t, thr[t].res))
retryCall(t) ==
    /\ At(t, "Retry")
    /\ IF NeedReLogin(thr[t].res)
       THEN /\ Becomes(t, [thr[t] EXCEPT !.todo = Resend(What(t)) \o Tail(@)])
            /\ UNCHANGED cli
       ELSE finishCall(t)
    /\ UNCHANGED <<cfg, arr>>
endCall(t) == At(t, "Finish") /\ finishCall(t) /\ UNCHANGED <<cfg, arr>>

(* SetSystemInfo, before it asks for the system. *)
startRefresh(t) ==
    /\ At(t, "Refresh")
    /\ cli' = [cli EXCEPT !.refreshing = TRUE]
    /\ Becomes(t, [Done(t) EXCEPT !.info = TRUE])
    /\ UNCHANGED <<cfg, arr>>

(* ReLogin: the token the goroutine knows is read without the mutex, in    *)
(* FusionStorage under it.                                                 *)
readOldToken(t) ==
    /\ At(t, "OldToken")
    /\ Becomes(t, [Done(t) EXCEPT !.old = cli.tok])
    /\ UNCHANGED <<cfg, cli, arr>>
lockReLogin(t) ==
    /\ At(t, "Lock") /\ cli.mutex = {}
    /\ LET old == IF cfg.kind = "fusion" THEN cli.tok ELSE thr[t].old
       IN  IF cli.tok # 0 /\ old # cli.tok
           THEN Becomes(t, Done(t)) /\ UNCHANGED cli
           ELSE /\ cli' = [cli EXCEPT !.mutex = {t}]
                /\ Becomes(t, [thr[t] EXCEPT !.todo = (IF cli.tok # 0 THEN Logout ELSE <<>>) \o Login
                                                      \o <<<<"Unlock", 0>>>> \o Tail(@)])
    /\ UNCHANGED <<cfg, arr>>
unlockReLogin(t) ==
    /\ At(t, "Unlock")
    /\ cli' = [cli EXCEPT !.mutex = {}]
    /\ Becomes(t, Done(t))
    /\ UNCHANGED <<cfg, arr>>

(* The outcome of a logout is ignored; FusionStorage forgets the session   *)
(* and the HTTP client.                                                    *)
loggedOut(t) ==
    /\ At(t, "LoggedOut")
    /\ cli' = IF cfg.kind = "fusion" THEN [cli EXCEPT !.tok = 0, !.nil = TRUE] ELSE cli
    /\ Becomes(t, [Done(t) EXCEPT !.res = "ok"])
    /\ UNCHANGED <<cfg, arr>>

(* A login starts without device id and token. *)
resetSession(t) ==
    /\ At(t, "Reset")
    /\ cli' = IF HasDevice THEN [cli EXCEPT !.nil = FALSE, !.dev = "", !.tok = 0] ELSE [cli EXCEPT !.nil = FALSE]
    /\ Becomes(t, Done(t))
    /\ UNCHANGED <<cfg, arr>>

(* It takes device id and token from the answer, tries the next URL when   *)
(* there was none, and else gives up; a refused user, and in DME any       *)
(* failure, takes the backend offline.                                     *)
NextUrl(t) == What(t) > 1 /\ thr[t].res \in {"unconnected"} \cup (IF cfg.kind = "dme" THEN {"rejected"} ELSE {})
loggedIn(t) ==
    /\ At(t, "LoggedIn")
    /\ \/ /\ thr[t].res = "ok"
          /\ cli' = IF HasDevice THEN [cli EXCEPT !.dev = arr.of[thr[t].new]] ELSE cli
          /\ Becomes(t, [thr[t] EXCEPT !.todo = <<<<"SetToken", 0>>>> \o Tail(@)])
       \/ /\ NextUrl(t)
          /\ Becomes(t, [thr[t] EXCEPT !.todo = BaseCall("login") \o <<<<"LoggedIn", What(t) - 1>>>> \o Tail(@)])
          /\ UNCHANGED cli
       \/ /\ thr[t].res # "ok" /\ ~NextUrl(t)
          /\ IF cfg.kind = "dme"
             THEN /\ Becomes(t, [thr[t] EXCEPT !.todo = Logout \o <<<<"GiveUp", 0>>>>])
                  /\ UNCHANGED cli
             ELSE /\ cli' = [Unwound(cli, t) EXCEPT !.online = @ /\ thr[t].res # "rejected"]
                  /\ Becomes(t, Return(t, "err"))
    /\ UNCHANGED <<cfg, arr>>
giveUp(t) ==
    /\ At(t, "GiveUp")
    /\ cli' = [Unwound(cli, t) EXCEPT !.online = FALSE]
    /\ Becomes(t, Return(t, "err"))
    /\ UNCHANGED <<cfg, arr>>
setToken(t) ==
    /\ At(t, "SetToken")
    /\ cli' = [cli EXCEPT !.tok = thr[t].new]
    /\ Becomes(t, Done(t))
    /\ UNCHANGED <<cfg, arr>>

Step(t) ==
    \/ checkClient(t) \/ GetRequest(t) \/ Acquire(t) \/ lookupDevice(t) \/ acquireDevice(t) \/ deferDevice(t)
    \/ acquireKey(t) \/ safeDoCall(t) \/ Do(t) \/ Release(t) \/ retryCall(t) \/ endCall(t) \/ startRefresh(t)
    \/ readOldToken(t) \/ lockReLogin(t) \/ unlockReLogin(t) \/ loggedOut(t) \/ resetSession(t)
    \/ loggedIn(t) \/ giveUp(t) \/ setToken(t)

---------------------------------------------------------------- \* The surroundings
(* The array ends a session that was not used for a while. *)
Expire ==
    /\ MayFail /\ \E k \in arr.live : arr' = [Fault("expire") EXCEPT !.live = @ \ {k}]
    /\ UNCHANGED <<cfg, cli, thr>>

(* The management port moves to the other array of the pair. *)
MoveLif ==
    /\ cfg.metro /\ arr.at = "A" /\ MayFail
    /\ arr' = [Fault("move") EXCEPT !.at = "B"]
    /\ UNCHANGED <<cfg, cli, thr>>

---------------------------------------------------------------- \* The system
(* The plugin was initialised: it is logged in at array A. *)
Init ==
    /\ cfg \in Clients
    /\ cli = [tok |-> 1, dev |-> IF HasDevice THEN "A" ELSE "", nil |-> FALSE, refreshing |-> FALSE, lif |-> "A",
              site |-> "A", online |-> TRUE, mutex |-> {}, sem |-> {}, dsem |-> [k \in SNs \cup {"uninit"} |-> 0]]
    /\ arr = [at |-> "A", live |-> {1}, of |-> [k \in 1..MaxLogins |-> "A"], n |-> 1, faults |-> 0, why |-> {}]
    /\ thr = [t \in Threads |-> [todo |-> <<>>, req |-> NoReq, old |-> 0, new |-> 0, own |-> NoReq, key |-> "none", res |-> "ok",
                                  ran |-> 0, lost |-> FALSE, away |-> FALSE, at |-> "A", info |-> FALSE, n |-> 0]]

Next == (\E t \in Threads : Begin(t) \/ Step(t)) \/ Expire \/ MoveLif

Spec     == Init /\ [][Next]_vars

(* A goroutine that can go on does: the Go scheduler runs it, and a        *)
(* request ends at the latest by the timeout of the HTTP client.           *)
FairSpec == Spec /\ \A t \in {"t1", "t2"} : WF_vars(t \in Threads /\ Step(t))

---------------------------------------------------------------- \* Properties
(* The client, the array and the goroutines have their types; the mutex    *)
(* has one holder and no semaphore is held beyond its limit.               *)
TypeOK ==
    /\ cli.tok \in 0..arr.n /\ cli.dev \in SNs \cup {""} /\ cli.site \in SNs
    /\ cli.mutex \subseteq Threads /\ Cardinality(cli.mutex) <= 1
    /\ cli.sem \subseteq Threads /\ Cardinality(cli.sem) <= Parallel
    /\ \A k \in DOMAIN cli.dsem : cli.dsem[k] \in 0..StoragePermits
    /\ arr.live \subseteq 1..arr.n /\ arr.n <= MaxLogins /\ arr.faults <= cfg.faults
    /\ \A t \in Threads : /\ thr[t].res \in {"ok", "err", "refused", "unconnected", "rejected", "panic"}
                          /\ thr[t].ran \in 0..2 /\ thr[t].key \in SNs \cup {"", "none", "uninit"}

(* A request other than a login or logout carries the device id and the    *)
(* token of one login, although Login (client_restful.go) replaces them    *)
(* one after the other while other goroutines build their requests:        *)
(* BaseCall builds it under ReLoginMutex.                                  *)
RequestOfOneLogin ==
    HasDevice => \A t \in Threads : LET q == thr[t].own
                                    IN  q.dev = IF q.tok = 0 THEN "" ELSE arr.of[q.tok]

(* The array carries a request out a second time only when the answer to   *)
(* the first was lost: Call resends after NeedReLogin, never after an      *)
(* answer that came but could not be read.                                 *)
ResentOnlyWhenUnanswered == \A t \in Threads : thr[t].ran > 1 => thr[t].lost

(* Where a client keeps to one semaphore per request (DME, FusionStorage,  *)
(* or a goroutine on its own), every permit is back when no request is     *)
(* under way, whatever became of the requests.                             *)
OneSemaphore == Solo \/ ~HasDevice
PermitsReturned ==
    OneSemaphore /\ (\A t \in Threads : thr[t].todo = <<>>)
        => cli.sem = {} /\ cli.mutex = {} /\ \A k \in DOMAIN cli.dsem : cli.dsem[k] = 0

(* A safe request that is resent after the LIF moved is not carried out    *)
(* away from home: the old session is refused there, and SetSystemInfo     *)
(* tells the client where it is before safeDoCall looks again (the first   *)
(* call of a goroutine on its own).                                        *)
ResentAtHome == Solo => \A t \in Threads : cfg.ops[t] = "safe" /\ thr[t].n = 1 => ~thr[t].away

(* No safe request is carried out away from home, as safeDoCall says:      *)
(* "check whether the logical port is changed from A to B before invoking. *)
(* The possible cause is that other invoking operations are performed for  *)
(* re-login."                                                              *)
SafeAtHome == \A t \in Threads : cfg.ops[t] = "safe" => ~thr[t].away

(* One expired session or one lost answer is hidden from the caller: Call  *)
(* logs in again and resends (for a goroutine on its own).                 *)
OneFaultHidden ==
    Solo /\ arr.faults <= 1 /\ arr.why \subseteq {"expire", "drop"}
        => \A t \in Threads : cfg.ops[t] \in {"call", "safe"} /\ thr[t].todo = <<>> => thr[t].res = "ok"

(* A goroutine logs out only a session its own request failed with, as the *)
(* comment in setRequestHeader says: "the new token is used after the      *)
(* relogin is complete.  This prevents the relogin interface from being    *)
(* invoked for multiple times."                                            *)
ReplacesItsOwnSession ==
    \A t \in Threads : cfg.ops[t] = "call" /\ At(t, "Do") /\ What(t) = "logout" => thr[t].req.tok = thr[t].own.tok

(* Every call ends: no goroutine waits for the relogin mutex or a permit   *)
(* for ever (clients with one semaphore per request).                      *)
CallsEnd ==
    \A t \in {"t1", "t2"} :
        (t \in Threads /\ OneSemaphore /\ thr[t].todo # <<>>) ~> (t \in Threads /\ thr[t].todo = <<>>)
=============================================================================
