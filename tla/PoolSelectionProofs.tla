------------------------ MODULE PoolSelectionProofs ------------------------
(***************************************************************************)
(* Proofs about PoolSelection, for any configurations of any number of     *)
(* backends and any requests: what CreateVolume is given serves it,        *)
(* however the cache of backends changes meanwhile.                        *)
(*                                                                         *)
(* The invariant is written with operators of the configurations conf, the *)
(* builds os and a value, so that the facts about them are lemmas without  *)
(* state.                                                                  *)
(***************************************************************************)
EXTENDS PoolSelection, FiniteSetTheorems, TLAPS

(* The builds that can be made.                                            *)
BuiltOf(conf, n) ==
  [of : {n}, caps : {{}, conf[n].caps}, free : [DOMAIN conf[n].free -> Int], online : BOOLEAN, remote : Nat]

Built(conf) == UNION {BuiltOf(conf, n) : n \in DOMAIN conf}

(* A copy of the backend n: it is of a build of n, and linked to a build   *)
(* of n's partner.                                                         *)
CopyFits(conf, os, n, c) ==
  /\ c \in [build : 0 .. Len(os), avail : BOOLEAN, metro : 0 .. Len(os)]
  /\ c.build # Nil => os[c.build].of = n
  /\ c.metro # Nil => Partners(conf, n, os[c.metro].of)

(* The goroutine w that registers n: it stores a copy of n, and the list   *)
(* it links from holds copies and the partners to be linked.               *)
RegFits(conf, os, n, w) ==
  /\ w \in [pc : {"idle", "fetch", "load", "store", "list", "first", "second"}, copy : {w.copy},
            list : {w.list}, todo : {w.todo}, pair : {w.pair}]
  /\ CopyFits(conf, os, n, w.copy)
  /\ w.pc = "store" => w.copy.build # Nil
  /\ w.pc \in {"first", "second"} =>
       /\ DOMAIN w.list \subseteq DOMAIN conf
       /\ \A m \in DOMAIN w.list : CopyFits(conf, os, m, w.list[m]) /\ w.list[m].build # Nil
       /\ \A p \in w.todo : /\ p[1] \in DOMAIN w.list /\ p[2] \in DOMAIN w.list
                            /\ Partners(conf, p[1], p[2])
  /\ w.pc = "second" => w.pair \in w.todo

(* The goroutine w that sets the status of n.                              *)
OffFits(conf, os, n, w) ==
  /\ w \in [pc : {"idle", "store"}, copy : {w.copy}]
  /\ CopyFits(conf, os, n, w.copy)
  /\ w.pc = "store" => w.copy.build # Nil

(* The pool c exists.                                                      *)
PoolFits(conf, os, c) ==
  /\ c \in [build : 1 .. Len(os), name : {c.name}]
  /\ c.name \in DOMAIN conf[os[c.build].of].free

(* The local pool c, and the remote pool f next to it, serve the request r.*)
LocalFits(conf, os, r, c) ==
  /\ PoolFits(conf, os, c)
  /\ ServesFirst(conf, r, os[c.build].of)
  /\ r.pool \in {"", c.name}

RemoteFits(conf, os, r, c, f) ==
  /\ \/ r.metro = (f # NoPool)
     \/ r.metro /\ r.alloc = "thick"
  /\ f # NoPool => /\ PoolFits(conf, os, f)
                   /\ Partners(conf, os[c.build].of, os[f.build].of)
                   /\ ServesSecond(conf, r, os[f.build].of)

(* The goroutine w that selects for the request r.                         *)
SelFits(conf, os, r, w) ==
  /\ w \in [pc : {"wait", "remote", "weight", "done"}, local : {w.local}, pairs : {w.pairs},
            answer : {w.answer}, ok : BOOLEAN]
  /\ w.pc \in {"remote", "weight"} => \A c \in w.local : LocalFits(conf, os, r, c)
  /\ w.pc = "weight" => \A p \in w.pairs : p[1] \in w.local /\ RemoteFits(conf, os, r, p[1], p[2])
  /\ w.ok => /\ w.pc = "done"
             /\ LocalFits(conf, os, r, w.answer[1]) /\ RemoteFits(conf, os, r, w.answer[1], w.answer[2])

CacheInv == DOMAIN cache = Names /\ \A n \in Names : CopyFits(scn.conf, objs, n, cache[n])

RegInv == DOMAIN reg = Workers /\ \A g \in Workers : RegFits(scn.conf, objs, For(g), reg[g])

OffInv == DOMAIN off = Names /\ \A n \in Names : OffFits(scn.conf, objs, n, off[n])

SelInv ==
  DOMAIN sel = DOMAIN scn.reqs /\ \A i \in DOMAIN scn.reqs : SelFits(scn.conf, objs, scn.reqs[i], sel[i])

(* The inductive invariant.                                                *)
IInv ==
  /\ scn \in Scenarios /\ objs \in Seq(Built(scn.conf))
  /\ CacheInv /\ RegInv /\ OffInv /\ SelInv

(* Builds are only added, and stay with their backend.                     *)
Grown(os, os2) ==
  /\ Len(os) \in Nat /\ Len(os2) \in Nat /\ Len(os) <= Len(os2)
  /\ \A b \in 1 .. Len(os) : os2[b].of = os[b].of

(* What fits the builds fits more of them: a copy,                         *)
LEMMA CopyKept ==
  ASSUME NEW conf, NEW os, NEW os2, Grown(os, os2), NEW n, NEW c, CopyFits(conf, os, n, c)
  PROVE  CopyFits(conf, os2, n, c)
  BY DEF Grown, CopyFits, Nil

(* the goroutine of a registration,                                        *)
LEMMA RegKept ==
  ASSUME NEW conf, NEW os, NEW os2, Grown(os, os2), NEW n, NEW w, RegFits(conf, os, n, w)
  PROVE  RegFits(conf, os2, n, w)
<1>1. CopyFits(conf, os2, n, w.copy)
  BY CopyKept DEF RegFits
<1>2. ASSUME w.pc \in {"first", "second"}, NEW m \in DOMAIN w.list
      PROVE  CopyFits(conf, os2, m, w.list[m])
  BY <1>2, CopyKept DEF RegFits
<1>3. QED
  BY <1>1, <1>2 DEF RegFits

(* that of a change of status,                                             *)
LEMMA OffKept ==
  ASSUME NEW conf, NEW os, NEW os2, Grown(os, os2), NEW n, NEW w, OffFits(conf, os, n, w)
  PROVE  OffFits(conf, os2, n, w)
  BY CopyKept DEF OffFits

(* pools,                                                                  *)
LEMMA PoolKept ==
  ASSUME NEW conf, NEW os, NEW os2, Grown(os, os2), NEW c, PoolFits(conf, os, c)
  PROVE  PoolFits(conf, os2, c) /\ os2[c.build].of = os[c.build].of
<1>1. c.build \in 1 .. Len(os) /\ os2[c.build].of = os[c.build].of
  BY DEF Grown, PoolFits
<1>2. c \in [build : 1 .. Len(os2), name : {c.name}]
  BY DEF Grown, PoolFits
<1>3. QED
  BY <1>1, <1>2, Zenon DEF PoolFits

(* the local pool of a request and the remote pool next to it,             *)
LEMMA LocalKept ==
  ASSUME NEW conf, NEW os, NEW os2, Grown(os, os2), NEW r, NEW c, LocalFits(conf, os, r, c)
  PROVE  LocalFits(conf, os2, r, c)
<1>1. PoolFits(conf, os, c)
  BY Zenon DEF LocalFits
<1>2. PoolFits(conf, os2, c) /\ os2[c.build].of = os[c.build].of
  BY <1>1, PoolKept
<1>3. QED
  BY <1>2, Zenon DEF LocalFits

(* and the remote pool a replicated request is given with it.              *)
LEMMA RemoteKept ==
  ASSUME NEW conf, NEW os, NEW os2, Grown(os, os2), NEW r, NEW c, NEW f,
         LocalFits(conf, os, r, c), RemoteFits(conf, os, r, c, f)
  PROVE  RemoteFits(conf, os2, r, c, f)
<1>0. PoolFits(conf, os, c)
  BY Zenon DEF LocalFits
<1>1. os2[c.build].of = os[c.build].of
  BY <1>0, PoolKept
<1>2. ASSUME f # NoPool
      PROVE  PoolFits(conf, os2, f) /\ os2[f.build].of = os[f.build].of
  BY <1>2, PoolKept DEF RemoteFits
<1>3. QED
  BY <1>1, <1>2, Zenon DEF RemoteFits

(* and the goroutine of a selection.                                       *)
LEMMA SelKept ==
  ASSUME NEW conf, NEW os, NEW os2, Grown(os, os2), NEW r, NEW w, SelFits(conf, os, r, w)
  PROVE  SelFits(conf, os2, r, w)
<1>1. ASSUME w.pc \in {"remote", "weight"}, NEW c \in w.local
      PROVE  LocalFits(conf, os2, r, c)
  BY <1>1, LocalKept DEF SelFits
<1>2. ASSUME w.pc = "weight", NEW p \in w.pairs
      PROVE  RemoteFits(conf, os2, r, p[1], p[2])
  BY <1>2, RemoteKept DEF SelFits
<1>3. ASSUME w.ok
      PROVE  LocalFits(conf, os2, r, w.answer[1]) /\ RemoteFits(conf, os2, r, w.answer[1], w.answer[2])
  BY <1>3, LocalKept, RemoteKept DEF SelFits
<1>4. QED
  BY <1>1, <1>2, <1>3 DEF SelFits

(* A build is of a backend, and its fields are what they are there.        *)
LEMMA BuiltFields ==
  ASSUME NEW conf, NEW o \in Built(conf)
  PROVE  o.of \in DOMAIN conf /\ o \in BuiltOf(conf, o.of)
  BY DEF Built, BuiltOf

(* A list of builds is a function on its places.                           *)
LEMMA ListLen ==
  ASSUME NEW A, NEW p \in Seq(A)
  PROVE  Len(p) \in Nat /\ DOMAIN p = 1 .. Len(p) /\ p \in [1 .. Len(p) -> A]
  OBVIOUS

(* And such a function is a list.                                          *)
LEMMA ListOf ==
  ASSUME NEW A, NEW k \in Nat, NEW p \in [1 .. k -> A]
  PROVE  p \in Seq(A) /\ Len(p) = k
  OBVIOUS

(* Replacing one of a list, as a cached build is.                          *)
LEMMA ListExcept ==
  ASSUME NEW A, NEW p \in Seq(A), NEW i \in 1 .. Len(p), NEW x \in A
  PROVE  [p EXCEPT ![i] = x] \in Seq(A) /\ Len([p EXCEPT ![i] = x]) = Len(p)
  OBVIOUS

(* Adding one to a list, as a new build is.                                *)
LEMMA ListAppend ==
  ASSUME NEW A, NEW p \in Seq(A), NEW x \in A
  PROVE  /\ Append(p, x) \in Seq(A) /\ Len(Append(p, x)) = Len(p) + 1
         /\ Append(p, x)[Len(p) + 1] = x /\ \A i \in 1 .. Len(p) : Append(p, x)[i] = p[i]
  OBVIOUS

(* A build is replaced by one of the same backend.                         *)
LEMMA Replaced ==
  ASSUME NEW conf, NEW os \in Seq(Built(conf)), NEW b \in 1 .. Len(os), NEW o \in Built(conf), o.of = os[b].of
  PROVE  [os EXCEPT ![b] = o] \in Seq(Built(conf)) /\ Grown(os, [os EXCEPT ![b] = o])
<1>1. [os EXCEPT ![b] = o] \in Seq(Built(conf)) /\ Len([os EXCEPT ![b] = o]) = Len(os)
  BY ListExcept
<1>2. QED
  BY <1>1 DEF Grown

(* A build is added.                                                       *)
LEMMA Added ==
  ASSUME NEW conf, NEW os \in Seq(Built(conf)), NEW o \in Built(conf)
  PROVE  /\ Append(os, o) \in Seq(Built(conf)) /\ Grown(os, Append(os, o))
         /\ Len(Append(os, o)) = Len(os) + 1 /\ Append(os, o)[Len(os) + 1] = o
  BY ListAppend DEF Grown

(***************************************************************************)
(* One part of the state changes at one place, or not at all, while builds *)
(* are added.                                                              *)
(***************************************************************************)
GrownStep == scn' = scn /\ Grown(objs, objs') /\ objs' \in Seq(Built(scn.conf))

(* Where the builds stay as they are.                                      *)
LEMMA SameBuilds ==
  ASSUME IInv, scn' = scn, objs' = objs
  PROVE  GrownStep
  BY DEF IInv, GrownStep, Grown

(* The cache.                                                              *)
LEMMA CacheSame ==
  ASSUME IInv, GrownStep, cache' = cache
  PROVE  CacheInv'
<1>1. ASSUME NEW n \in Names
      PROVE  CopyFits(scn.conf, objs', n, cache[n])
  BY CopyKept DEF IInv, CacheInv, GrownStep
<1>2. QED
  BY <1>1 DEF IInv, CacheInv, GrownStep, Names

(* A copy of a backend stored into its own slot keeps the cache fitting,   *)
(* as every Store of the cache wrapper does.                               *)
LEMMA CacheStored ==
  ASSUME IInv, GrownStep, NEW n \in Names, NEW c, CopyFits(scn.conf, objs', n, c),
         cache' = [cache EXCEPT ![n] = c]
  PROVE  CacheInv'
<1>1. ASSUME NEW m \in Names
      PROVE  CopyFits(scn.conf, objs', m, cache[m])
  BY CopyKept DEF IInv, CacheInv, GrownStep
<1>2. QED
  BY <1>1 DEF IInv, CacheInv, GrownStep, Names

(* The registrations.                                                      *)
LEMMA RegSame ==
  ASSUME IInv, GrownStep, reg' = reg
  PROVE  RegInv'
<1>1. ASSUME NEW g \in Workers
      PROVE  RegFits(scn.conf, objs', For(g), reg[g])
  BY RegKept DEF IInv, RegInv, GrownStep
<1>2. QED
  BY <1>1 DEF IInv, RegInv, GrownStep, Names, Workers, For

(* A step of one registration leaves the others as they are.               *)
LEMMA RegMoved ==
  ASSUME IInv, GrownStep, NEW g \in Workers, NEW w, RegFits(scn.conf, objs', For(g), w),
         reg' = [reg EXCEPT ![g] = w]
  PROVE  RegInv'
<1>1. ASSUME NEW h \in Workers
      PROVE  RegFits(scn.conf, objs', For(h), reg[h])
  BY RegKept DEF IInv, RegInv, GrownStep
<1>2. QED
  BY <1>1 DEF IInv, RegInv, GrownStep, Names, Workers, For

(* The changes of status.                                                  *)
LEMMA OffSame ==
  ASSUME IInv, GrownStep, off' = off
  PROVE  OffInv'
<1>1. ASSUME NEW n \in Names
      PROVE  OffFits(scn.conf, objs', n, off[n])
  BY OffKept DEF IInv, OffInv, GrownStep
<1>2. QED
  BY <1>1 DEF IInv, OffInv, GrownStep, Names

(* A step of one change of status leaves the others as they are.           *)
LEMMA OffMoved ==
  ASSUME IInv, GrownStep, NEW n \in Names, NEW w, OffFits(scn.conf, objs', n, w),
         off' = [off EXCEPT ![n] = w]
  PROVE  OffInv'
<1>1. ASSUME NEW m \in Names
      PROVE  OffFits(scn.conf, objs', m, off[m])
  BY OffKept DEF IInv, OffInv, GrownStep
<1>2. QED
  BY <1>1 DEF IInv, OffInv, GrownStep, Names

(* The selections.                                                         *)
LEMMA SelSame ==
  ASSUME IInv, GrownStep, sel' = sel
  PROVE  SelInv'
<1>1. ASSUME NEW i \in DOMAIN scn.reqs
      PROVE  SelFits(scn.conf, objs', scn.reqs[i], sel[i])
  BY SelKept DEF IInv, SelInv, GrownStep
<1>2. QED
  BY <1>1 DEF IInv, SelInv, GrownStep

(* A step of one selection leaves the others as they are.                  *)
LEMMA SelMoved ==
  ASSUME IInv, GrownStep, NEW i \in DOMAIN scn.reqs, NEW w, SelFits(scn.conf, objs', scn.reqs[i], w),
         sel' = [sel EXCEPT ![i] = w]
  PROVE  SelInv'
<1>1. ASSUME NEW k \in DOMAIN scn.reqs
      PROVE  SelFits(scn.conf, objs', scn.reqs[k], sel[k])
  BY SelKept DEF IInv, SelInv, GrownStep
<1>2. QED
  BY <1>1 DEF IInv, SelInv, GrownStep

(***************************************************************************)
(* The steps of the registrations.                                         *)
(***************************************************************************)

(* A copy of nothing.                                                      *)
LEMMA NoCopyFits ==
  ASSUME NEW conf, NEW os, Len(os) \in Nat, NEW n
  PROVE  /\ CopyFits(conf, os, n, NoBackend)
         /\ RegFits(conf, os, n, Idle) /\ RegFits(conf, os, n, [Idle EXCEPT !.pc = "list"])
         /\ OffFits(conf, os, n, NotRunning)
<1>1. CopyFits(conf, os, n, NoBackend)
  BY DEF CopyFits, NoBackend, Nil
<1>2. QED
  BY <1>1 DEF RegFits, OffFits, Idle, NotRunning

(* The copy of a new build.                                                *)
LEMMA NewCopyFits ==
  ASSUME NEW conf, NEW os, Len(os) \in Nat, NEW b \in 1 .. Len(os), NEW n, os[b].of = n
  PROVE  CopyFits(conf, os, n, [NoBackend EXCEPT !.build = b]) /\ [NoBackend EXCEPT !.build = b].build # Nil
<1> DEFINE c == [NoBackend EXCEPT !.build = b]
<1>1. c.build = b /\ c.avail = FALSE /\ c.metro = 0
  BY DEF NoBackend, Nil
<1>2. c \in [build : 0 .. Len(os), avail : BOOLEAN, metro : 0 .. Len(os)]
  <2>1. NoBackend \in [build : 0 .. Len(os), avail : BOOLEAN, metro : 0 .. Len(os)]
    BY DEF NoBackend, Nil
  <2>2. QED
    BY <2>1
<1> HIDE DEF c
<1>3. CopyFits(conf, os, n, c) /\ c.build # Nil
  BY <1>1, <1>2 DEF CopyFits, Nil
<1>4. QED
  BY <1>3 DEF c

(* Partners are each other's.                                              *)
LEMMA PartnersOfEachOther ==
  ASSUME NEW conf, NEW i, NEW j, Partners(conf, i, j)
  PROVE  Partners(conf, j, i)
  BY DEF Partners

(* What NewBackend makes.                                                  *)
LEMMA NewBuild ==
  ASSUME IInv, NEW n \in Names
  PROVE  NewBackend(n) \in Built(scn.conf) /\ NewBackend(n).of = n
<1>1. NewBackend(n) \in BuiltOf(scn.conf, n)
  BY DEF NewBackend, BuiltOf, Conf, Nil
<1>2. QED
  BY <1>1 DEF Built, Names, NewBackend

(* Every goroutine registers a configured backend.                         *)
LEMMA ForName ==
  ASSUME IInv, NEW g \in Workers
  PROVE  For(g) \in Names
  BY ScenariosAssumption DEF IInv, Workers, For, Names

(* What the pools of a backend are said to have free.                      *)
LEMMA StatisticsRead ==
  ASSUME scn \in Scenarios, NEW n \in Names
  PROVE  DOMAIN Statistics(n) = DOMAIN scn.conf[n].free /\ Statistics(n) \in [DOMAIN scn.conf[n].free -> Int]
<1>1. scn.conf[n].free \in [DOMAIN scn.conf[n].free -> Int]
  BY ScenariosAssumption DEF Names
<1>2. CASE Statistics(n) = scn.conf[n].free
  BY <1>1, <1>2
<1>3. CASE Statistics(n) = [x \in DOMAIN scn.conf[n].free |-> 0]
  BY <1>3
<1>4. QED
  BY <1>2, <1>3, Zenon DEF Statistics, Conf

(* UpdatePools gives a build of the same backend.                          *)
LEMMA UpdatedPools ==
  ASSUME scn \in Scenarios, NEW n \in Names, NEW o \in BuiltOf(scn.conf, n)
  PROVE  UpdatePools(o) \in BuiltOf(scn.conf, n)
<1>1. o.of = n /\ o.free \in [DOMAIN scn.conf[n].free -> Int]
  BY DEF BuiltOf
<1>2. Statistics(n) \in [DOMAIN scn.conf[n].free -> Int]
  BY StatisticsRead
<1>3. QED
  BY <1>1, <1>2 DEF BuiltOf, UpdatePools, Conf

(* A call that does not find its backend fetches it.                       *)
LEMMA LoadOrRegisterOneBackendKeeps ==
  ASSUME IInv, NEW g \in Workers, LoadOrRegisterOneBackend(g)
  PROVE  IInv'
<1> DEFINE w == [reg[g] EXCEPT !.pc = "fetch"]
<1>1. GrownStep
  BY SameBuilds DEF LoadOrRegisterOneBackend
<1>2. RegFits(scn.conf, objs', For(g), w)
  BY DEF LoadOrRegisterOneBackend, IInv, RegInv, RegFits
<1>3. reg' = [reg EXCEPT ![g] = w]
  BY DEF LoadOrRegisterOneBackend
<1>4. QED
  BY <1>1, <1>2, <1>3, RegMoved, CacheSame, OffSame, SelSame DEF LoadOrRegisterOneBackend, IInv, GrownStep

(* A build that is not there is made, or the cached copy is to be loaded.  *)
LEMMA UpdateAndAddBackendKeeps ==
  ASSUME IInv, NEW g \in Workers, UpdateAndAddBackend(g)
  PROVE  IInv'
<1>1. CASE Cached(For(g))
  <2> DEFINE w == [reg[g] EXCEPT !.pc = "load"]
  <2>1. GrownStep
    BY <1>1, SameBuilds DEF UpdateAndAddBackend
  <2>2. RegFits(scn.conf, objs', For(g), w)
    BY <1>1 DEF UpdateAndAddBackend, IInv, RegInv, RegFits
  <2>3. reg' = [reg EXCEPT ![g] = w]
    BY <1>1 DEF UpdateAndAddBackend
  <2>4. QED
    BY <2>1, <2>2, <2>3, RegMoved, CacheSame, OffSame, SelSame DEF UpdateAndAddBackend, IInv, GrownStep
<1>2. CASE ~ Cached(For(g))
  <2> DEFINE o == NewBackend(For(g))
             c == [NoBackend EXCEPT !.build = Len(objs) + 1]
             w == [reg[g] EXCEPT !.pc = "store", !.copy = c]
  <2>0. o \in Built(scn.conf) /\ o.of = For(g) /\ objs' = Append(objs, o) /\ scn' = scn
    BY <1>2, NewBuild, ForName DEF UpdateAndAddBackend
  <2>1. GrownStep /\ Len(objs') = Len(objs) + 1 /\ objs'[Len(objs) + 1] = o
    BY <2>0, Added DEF IInv, GrownStep
  <2>2. CopyFits(scn.conf, objs', For(g), c) /\ c.build # Nil
    <3>1. Len(objs') \in Nat /\ Len(objs) + 1 \in 1 .. Len(objs')
      BY <2>1 DEF GrownStep, Grown
    <3>2. objs'[Len(objs) + 1].of = For(g)
      BY <2>0, <2>1
    <3>3. QED
      BY <3>1, <3>2, NewCopyFits
  <2>3. RegFits(scn.conf, objs', For(g), w)
    BY <2>2 DEF IInv, RegInv, RegFits
  <2>4. reg' = [reg EXCEPT ![g] = w]
    BY <1>2 DEF UpdateAndAddBackend
  <2>5. QED
    BY <2>1, <2>3, <2>4, RegMoved, CacheSame, OffSame, SelSame DEF UpdateAndAddBackend, IInv, GrownStep
<1>3. QED
  BY <1>1, <1>2

(* The cached copy is loaded.                                              *)
LEMMA UpdateCacheBackendKeeps ==
  ASSUME IInv, NEW g \in Workers, UpdateCacheBackend(g)
  PROVE  IInv'
<1> DEFINE w == IF Cached(For(g)) THEN [reg[g] EXCEPT !.pc = "store", !.copy = cache[For(g)]] ELSE Idle
<1>1. GrownStep
  BY SameBuilds DEF UpdateCacheBackend
<1>3. RegFits(scn.conf, objs', For(g), w)
  <2>1. CASE Cached(For(g))
    BY <2>1, ForName DEF UpdateCacheBackend, IInv, RegInv, CacheInv, RegFits, Cached
  <2>2. CASE ~ Cached(For(g))
    BY <1>1, <2>2, NoCopyFits DEF GrownStep, Grown
  <2>3. QED
    BY <2>1, <2>2
<1>4. reg' = [reg EXCEPT ![g] = w]
  BY DEF UpdateCacheBackend
<1>5. QED
  BY <1>1, <1>3, <1>4, RegMoved, CacheSame, OffSame, SelSame DEF UpdateCacheBackend, IInv, GrownStep

(* The build gets its statistics and the copy is stored.                   *)
LEMMA updateCacheBackendKeeps ==
  ASSUME IInv, NEW g \in Workers, updateCacheBackend(g)
  PROVE  IInv'
<1> DEFINE b == reg[g].copy.build
           o == [UpdatePools(objs[b]) EXCEPT !.online = TRUE]
           c == [reg[g].copy EXCEPT !.avail = TRUE]
<1>1. b \in 1 .. Len(objs) /\ CopyFits(scn.conf, objs, For(g), reg[g].copy)
  <2>1. RegFits(scn.conf, objs, For(g), reg[g]) /\ reg[g].pc = "store"
    BY DEF updateCacheBackend, IInv, RegInv
  <2>2. CopyFits(scn.conf, objs, For(g), reg[g].copy) /\ b # Nil
    BY <2>1, Zenon DEF RegFits
  <2>3. b \in 0 .. Len(objs)
    BY <2>2 DEF CopyFits
  <2> HIDE DEF b
  <2>4. Len(objs) \in Nat
    BY ListLen DEF IInv
  <2>5. QED
    BY <2>2, <2>3, <2>4 DEF Nil
<1>2. objs[b] \in BuiltOf(scn.conf, For(g)) /\ objs[b].of = For(g)
  BY <1>1, BuiltFields DEF IInv, CopyFits, Nil
<1>3. o \in BuiltOf(scn.conf, For(g)) /\ o.of = For(g)
  <2> DEFINE u == UpdatePools(objs[b])
  <2>1. u \in BuiltOf(scn.conf, For(g))
    BY <1>2, ForName, UpdatedPools DEF IInv
  <2> HIDE DEF u
  <2>2. [u EXCEPT !.online = TRUE] \in BuiltOf(scn.conf, For(g)) /\ [u EXCEPT !.online = TRUE].of = For(g)
    BY <2>1 DEF BuiltOf
  <2>3. QED
    BY <2>2 DEF u
<1>4. o \in Built(scn.conf) /\ o.of = objs[b].of
  BY <1>2, <1>3, ForName DEF Built, Names
<1>5. objs' = [objs EXCEPT ![b] = o]
  BY DEF updateCacheBackend
<1>6. GrownStep
  <2> HIDE DEF b, o
  <2>1. [objs EXCEPT ![b] = o] \in Seq(Built(scn.conf)) /\ Grown(objs, [objs EXCEPT ![b] = o])
    BY <1>1, <1>4, Replaced DEF IInv
  <2>2. QED
    BY <1>5, <2>1 DEF updateCacheBackend, GrownStep
<1>7. CopyFits(scn.conf, objs, For(g), c)
  BY <1>1 DEF CopyFits
<1>8. CopyFits(scn.conf, objs', For(g), c)
  BY <1>6, <1>7, CopyKept DEF GrownStep
<1>9. CacheInv'
  BY <1>6, <1>8, ForName, CacheStored DEF updateCacheBackend
<1>10. RegInv'
  BY <1>6, RegMoved, NoCopyFits DEF updateCacheBackend, GrownStep, Grown
<1>11. QED
  BY <1>6, <1>9, <1>10, OffSame, SelSame DEF updateCacheBackend, IInv, GrownStep

(* The cached backends are listed, and the partners to be linked found.    *)
LEMMA ListForMetroKeeps ==
  ASSUME IInv, NEW g \in Workers, ListForMetro(g)
  PROVE  IInv'
<1> DEFINE list == [m \in {m \in Names : Cached(m)} |-> cache[m]]
           todo == {p \in Names \X Names : {p[1], p[2]} \subseteq DOMAIN list /\ NeedsMetro(list, p[1], p[2])}
           v == [reg[g] EXCEPT !.pc = "first", !.list = list, !.todo = todo]
           w == IF todo = {} THEN Idle ELSE v
<1>1. GrownStep /\ objs' = objs
  BY SameBuilds DEF ListForMetro
<1>2. RegFits(scn.conf, objs, For(g), v)
  <2>1. DOMAIN list \subseteq DOMAIN scn.conf
    BY DEF Names
  <2>2. \A m \in DOMAIN list : CopyFits(scn.conf, objs, m, list[m]) /\ list[m].build # Nil
    BY DEF IInv, CacheInv, Cached
  <2>3. \A p \in todo : p[1] \in DOMAIN list /\ p[2] \in DOMAIN list /\ Partners(scn.conf, p[1], p[2])
    BY DEF NeedsMetro
  <2> HIDE DEF list, todo
  <2>4. RegFits(scn.conf, objs, For(g), reg[g])
    BY DEF IInv, RegInv
  <2>5. QED
    BY <2>1, <2>2, <2>3, <2>4 DEF RegFits
<1>3. reg' = [reg EXCEPT ![g] = w]
  BY DEF ListForMetro
<1>4. RegFits(scn.conf, objs', For(g), w)
  <2> HIDE DEF v, todo
  <2>1. RegFits(scn.conf, objs', For(g), Idle)
    BY <1>1, NoCopyFits DEF GrownStep, Grown
  <2>2. QED
    BY <1>1, <1>2, <2>1
<1>5. QED
  BY <1>1, <1>3, <1>4, RegMoved, CacheSame, OffSame, SelSame DEF ListForMetro, IInv, GrownStep

(* A copy linked to a build of the partner.                                *)
LEMMA LinkedFits ==
  ASSUME NEW conf, NEW os, NEW n, NEW m, NEW c, NEW d, CopyFits(conf, os, n, c), CopyFits(conf, os, m, d),
         d.build # Nil, Partners(conf, n, m)
  PROVE  CopyFits(conf, os, n, [c EXCEPT !.metro = d.build])
  BY DEF CopyFits, Nil

(* A build whose plugin learns of its remote.                              *)
LEMMA RemoteBuilt ==
  ASSUME NEW conf, NEW o \in Built(conf), NEW x \in Nat
  PROVE  [o EXCEPT !.remote = x] \in Built(conf) /\ [o EXCEPT !.remote = x].of = o.of
<1>1. o \in BuiltOf(conf, o.of) /\ o.of \in DOMAIN conf
  BY BuiltFields
<1>2. [o EXCEPT !.remote = x] \in BuiltOf(conf, o.of) /\ [o EXCEPT !.remote = x].of = o.of
  BY <1>1 DEF BuiltOf
<1>3. QED
  BY <1>1, <1>2 DEF Built

(* Linking two builds to each other, UpdateMetroRemotePlugin of both in    *)
(* UpdateCacheBackendMetro, gives builds of the same backends.             *)
LEMMA BothRemote ==
  ASSUME NEW conf, NEW os \in Seq(Built(conf)), NEW a \in 1 .. Len(os), NEW b \in 1 .. Len(os)
  PROVE  /\ [os EXCEPT ![a].remote = b, ![b].remote = a] \in Seq(Built(conf))
         /\ Grown(os, [os EXCEPT ![a].remote = b, ![b].remote = a])
<1> DEFINE os1 == [os EXCEPT ![a].remote = b]
           os2 == [os1 EXCEPT ![b].remote = a]
<1>1. os1 \in Seq(Built(conf)) /\ Grown(os, os1) /\ Len(os1) = Len(os)
  <2> DEFINE o == [os[a] EXCEPT !.remote = b]
  <2>1. o \in Built(conf) /\ o.of = os[a].of
    BY RemoteBuilt
  <2>2. os1 = [os EXCEPT ![a] = o]
    OBVIOUS
  <2> HIDE DEF o, os1
  <2>3. os1 \in Seq(Built(conf)) /\ Grown(os, os1)
    BY <2>1, <2>2, Replaced
  <2>4. Len(os1) = Len(os)
    BY <2>1, <2>2, ListExcept
  <2>5. QED
    BY <2>3, <2>4
<1> HIDE DEF os1
<1>2. os2 \in Seq(Built(conf)) /\ Grown(os1, os2)
  <2> DEFINE o == [os1[b] EXCEPT !.remote = a]
  <2>1. o \in Built(conf) /\ o.of = os1[b].of
    BY <1>1, RemoteBuilt
  <2>2. os2 = [os1 EXCEPT ![b] = o]
    OBVIOUS
  <2> HIDE DEF o, os2
  <2>3. QED
    BY <1>1, <2>1, <2>2, Replaced
<1> HIDE DEF os2
<1>3. os2 \in Seq(Built(conf)) /\ Grown(os, os2)
  BY <1>1, <1>2 DEF Grown
<1>4. QED
  BY <1>3 DEF os1, os2

(* The plugins of both partners learn of each other and the first is       *)
(* stored.                                                                 *)
PairIsStored(g, p, i, j) ==
  /\ reg[g].pc = "first" /\ p \in reg[g].todo
  /\ i = reg[g].list[p[1]] /\ j = reg[g].list[p[2]]
  /\ cache' = [cache EXCEPT ![p[1]] = [i EXCEPT !.metro = j.build]]
  /\ objs' = [objs EXCEPT ![i.build].remote = j.build, ![j.build].remote = i.build]
  /\ reg' = [reg EXCEPT ![g].pc = "second", ![g].pair = p]
  /\ UNCHANGED <<scn, off, sel, left>>

(* Storing the first of a pair keeps the invariant: the copy stored is     *)
(* linked to a build of its partner.                                       *)
LEMMA PairStored ==
  ASSUME IInv, NEW g \in Workers, NEW p, NEW i, NEW j, PairIsStored(g, p, i, j)
  PROVE  IInv'
<1> DEFINE w == [reg[g] EXCEPT !.pc = "second", !.pair = p]
<1>1. RegFits(scn.conf, objs, For(g), reg[g])
  BY DEF IInv, RegInv
<1>2. /\ p[1] \in Names /\ p[2] \in Names /\ Partners(scn.conf, p[1], p[2])
      /\ CopyFits(scn.conf, objs, p[1], i) /\ CopyFits(scn.conf, objs, p[2], j)
      /\ i.build # Nil /\ j.build # Nil
  BY <1>1 DEF RegFits, Names, PairIsStored
<1>3. RegFits(scn.conf, objs, For(g), w) /\ reg' = [reg EXCEPT ![g] = w]
  BY <1>1 DEF RegFits, PairIsStored
<1> HIDE DEF w
<1>4. i.build \in 1 .. Len(objs) /\ j.build \in 1 .. Len(objs)
  BY <1>2 DEF CopyFits, Nil, IInv
<1>5. GrownStep
  BY <1>4, BothRemote DEF IInv, GrownStep, PairIsStored
<1>6. CopyFits(scn.conf, objs, p[1], [i EXCEPT !.metro = j.build])
  BY <1>2, LinkedFits
<1>7. CopyFits(scn.conf, objs', p[1], [i EXCEPT !.metro = j.build])
  BY <1>5, <1>6, CopyKept DEF GrownStep
<1>8. CacheInv'
  BY <1>2, <1>5, <1>7, CacheStored DEF PairIsStored
<1>9. RegFits(scn.conf, objs', For(g), w)
  BY <1>3, <1>5, RegKept DEF GrownStep
<1>10. QED
  BY <1>3, <1>5, <1>8, <1>9, RegMoved, OffSame, SelSame DEF IInv, GrownStep, PairIsStored

(* The first store of UpdateCacheBackendMetro keeps the invariant.         *)
LEMMA StoreFirstKeeps ==
  ASSUME IInv, NEW g \in Workers, StoreFirst(g)
  PROVE  IInv'
  BY PairStored DEF StoreFirst, PairIsStored

(* The second is stored.                                                   *)
LEMMA StoreSecondKeeps ==
  ASSUME IInv, NEW g \in Workers, StoreSecond(g)
  PROVE  IInv'
<1> DEFINE p == reg[g].pair
           rest == reg[g].todo \ {p}
           i == reg[g].list[p[1]]
           j == reg[g].list[p[2]]
           v == [reg[g] EXCEPT !.pc = "first", !.todo = rest, !.pair = << >>]
           w == IF rest = {} THEN Idle ELSE v
<1>1. GrownStep /\ objs' = objs
  BY SameBuilds DEF StoreSecond
<1>2. RegFits(scn.conf, objs, For(g), reg[g]) /\ reg[g].pc = "second" /\ p \in reg[g].todo
  BY DEF StoreSecond, IInv, RegInv, RegFits
<1>3. /\ p[1] \in Names /\ p[2] \in Names /\ Partners(scn.conf, p[1], p[2])
      /\ CopyFits(scn.conf, objs, p[1], i) /\ CopyFits(scn.conf, objs, p[2], j)
      /\ i.build # Nil
  BY <1>2 DEF RegFits, Names
<1>4. CopyFits(scn.conf, objs', p[2], [j EXCEPT !.metro = i.build])
  <2> HIDE DEF i, j, p
  <2>1. QED
    BY <1>1, <1>3, LinkedFits, PartnersOfEachOther
<1>5. CacheInv'
  BY <1>1, <1>3, <1>4, CacheStored DEF StoreSecond
<1>6. reg' = [reg EXCEPT ![g] = w]
  BY DEF StoreSecond
<1>7. RegFits(scn.conf, objs', For(g), w)
  <2>1. RegFits(scn.conf, objs', For(g), v)
    BY <1>1, <1>2 DEF RegFits
  <2>2. RegFits(scn.conf, objs', For(g), Idle)
    BY <1>1, NoCopyFits DEF GrownStep, Grown
  <2> HIDE DEF v, rest
  <2>3. QED
    BY <2>1, <2>2
<1>8. QED
  BY <1>1, <1>5, <1>6, <1>7, RegMoved, OffSame, SelSame DEF StoreSecond, IInv, GrownStep

(***************************************************************************)
(* The steps of the changes of status and of the removal.                  *)
(***************************************************************************)

(* A copy is loaded for a change of status.                                *)
LEMMA LoadForStatusKeeps ==
  ASSUME IInv, NEW n \in Names, NEW online \in BOOLEAN, LoadForStatus(n, online)
  PROVE  IInv'
<1> DEFINE c == [cache[n] EXCEPT !.avail = online]
           w == [pc |-> "store", copy |-> c]
<1>1. GrownStep /\ objs' = objs
  BY SameBuilds DEF LoadForStatus
<1>2. CopyFits(scn.conf, objs, n, c) /\ c.build # Nil
  BY DEF LoadForStatus, IInv, CacheInv, CopyFits, Cached
<1> HIDE DEF c
<1>3. OffFits(scn.conf, objs, n, w)
  BY <1>2 DEF OffFits
<1>4. off' = [off EXCEPT ![n] = w]
  BY DEF LoadForStatus, c
<1> HIDE DEF w
<1>5. QED
  BY <1>1, <1>3, <1>4, OffMoved, CacheSame, RegSame, SelSame DEF LoadForStatus, IInv, GrownStep

(* It is stored, and the plugin is told.                                   *)
LEMMA UpdateCacheBackendStatusKeeps ==
  ASSUME IInv, NEW n \in Names, UpdateCacheBackendStatus(n)
  PROVE  IInv'
<1> DEFINE b == off[n].copy.build
           o == [objs[b] EXCEPT !.online = off[n].copy.avail]
<1>1. b \in 1 .. Len(objs) /\ CopyFits(scn.conf, objs, n, off[n].copy) /\ off[n].copy.avail \in BOOLEAN
  BY DEF UpdateCacheBackendStatus, IInv, OffInv, OffFits, CopyFits, Nil
<1>2. objs[b] \in BuiltOf(scn.conf, n) /\ objs[b].of = n
  BY <1>1, BuiltFields DEF IInv, CopyFits, Nil
<1>3. o \in BuiltOf(scn.conf, n) /\ o.of = n
  BY <1>1, <1>2 DEF BuiltOf
<1>4. o \in Built(scn.conf) /\ o.of = objs[b].of
  BY <1>2, <1>3 DEF Built, Names
<1>5. objs' = [objs EXCEPT ![b] = o]
  BY DEF UpdateCacheBackendStatus
<1>6. GrownStep
  <2> HIDE DEF b, o
  <2>1. [objs EXCEPT ![b] = o] \in Seq(Built(scn.conf)) /\ Grown(objs, [objs EXCEPT ![b] = o])
    BY <1>1, <1>4, Replaced DEF IInv
  <2>2. QED
    BY <1>5, <2>1 DEF UpdateCacheBackendStatus, GrownStep
<1>7. CacheInv'
  <2>1. CopyFits(scn.conf, objs', n, off[n].copy)
    BY <1>1, <1>6, CopyKept DEF GrownStep
  <2>2. cache' = [cache EXCEPT ![n] = off[n].copy]
    BY DEF UpdateCacheBackendStatus
  <2>3. QED
    BY <1>6, <2>1, <2>2, CacheStored
<1>8. OffInv'
  BY <1>6, OffMoved, NoCopyFits DEF UpdateCacheBackendStatus, GrownStep, Grown
<1>9. QED
  BY <1>6, <1>7, <1>8, RegSame, SelSame DEF UpdateCacheBackendStatus, IInv, GrownStep

(* A backend is removed from the cache.                                    *)
LEMMA DeleteKeeps ==
  ASSUME IInv, NEW n \in Names, Delete(n)
  PROVE  IInv'
<1>1. GrownStep
  BY SameBuilds DEF Delete
<1>2. CacheInv'
  BY <1>1, CacheStored, NoCopyFits DEF Delete, GrownStep, Grown
<1>3. QED
  BY <1>1, <1>2, RegSame, OffSame, SelSame DEF Delete, IInv, GrownStep

(***************************************************************************)
(* What the filters leave.                                                 *)
(***************************************************************************)

(* A pool of the build b shows the configuration of its backend, and no    *)
(* capability the backend does not have.                                   *)
ShowsBackend(conf, p) ==
  /\ p.storage = conf[p.of].storage /\ p.caps \subseteq conf[p.of].caps
  /\ p.qos = conf[p.of].qos /\ p.parent = conf[p.of].parent

(* PoolsOf lists pools that exist and show their backend.                  *)
LEMMA PoolsShow ==
  ASSUME IInv, NEW b \in 1 .. Len(objs), NEW p \in PoolsOf(b)
  PROVE  /\ p.of = objs[b].of /\ p.of \in Names /\ ShowsBackend(scn.conf, p)
         /\ Pool(p) = [build |-> b, name |-> p.name] /\ PoolFits(scn.conf, objs, Pool(p))
<1> DEFINE o == objs[b]
<1>1. o \in BuiltOf(scn.conf, o.of) /\ o.of \in Names
  BY BuiltFields DEF IInv, Names
<1> HIDE DEF o
<1>2. PICK x \in DOMAIN o.free :
        p = [of |-> o.of, build |-> b, name |-> x, storage |-> Conf(o.of).storage, caps |-> o.caps,
             free |-> o.free[x], qos |-> Conf(o.of).qos, parent |-> Conf(o.of).parent]
  BY DEF PoolsOf, o
<1>3. /\ p.of = o.of /\ p.build = b /\ p.name = x /\ p.storage = Conf(o.of).storage /\ p.caps = o.caps
      /\ p.qos = Conf(o.of).qos /\ p.parent = Conf(o.of).parent
  BY <1>2
<1>4. ShowsBackend(scn.conf, p)
  BY <1>1, <1>3 DEF ShowsBackend, Conf, BuiltOf
<1>5. Pool(p) = [build |-> b, name |-> p.name]
  BY <1>3 DEF Pool
<1>6. p.name \in DOMAIN scn.conf[o.of].free
  BY <1>1, <1>2, <1>3 DEF BuiltOf
<1>7. PoolFits(scn.conf, objs, [build |-> b, name |-> p.name])
  BY <1>6 DEF PoolFits, o
<1>8. QED
  BY <1>1, <1>3, <1>4, <1>5, <1>7 DEF o

(* A place the backend supports, with its protocol added to the configured *)
(* topologies, is one it reaches.                                          *)
LEMMA SupportedIsReached ==
  ASSUME NEW conf, NEW n, conf[n].protocol \in Protocols, NEW t,
         isTopologySupportedByBackend(addProtocolTopology(conf[n].topologies, conf[n].protocol), t)
  PROVE  Reaches(conf, n, t)
<1> DEFINE pp == <<conf[n].protocol, Driver>>
           own == extractProtocolTopology(t)
           T == conf[n].topologies
<1>1. PICK s \in addProtocolTopology(T, conf[n].protocol) : (own # {} => s \cap own # {}) /\ t \ own \subseteq s
  BY DEF isTopologySupportedByBackend
<1>2. PICK u \in T \cup {{}} : s \subseteq u \cup {pp}
  BY <1>1 DEF addProtocolTopology
<1>3. pp[1] \in Protocols
  OBVIOUS
<1>4. {kv \in t : kv[1] \notin Protocols} \subseteq u
  BY <1>1, <1>2, <1>3 DEF extractProtocolTopology
<1>5. ASSUME NEW kv \in t, kv[1] \in Protocols
      PROVE  \E kw \in t : kw[1] \in Protocols /\ kw \in u \cup {pp}
  BY <1>1, <1>2, <1>5 DEF extractProtocolTopology
<1>6. QED
  BY <1>2, <1>4, <1>5 DEF Reaches

(* The pools left by the topologies are among the ones before, and reach a *)
(* place of the request.                                                   *)
LEMMA TopologyLeaves ==
  ASSUME IInv, NEW r, NEW ps, NEW p \in FilterByTopology(r, ps, Supported)
  PROVE  p \in ps /\ (r.requisite # {} => p.of \in Names /\ \E t \in r.requisite : Reaches(scn.conf, p.of, t))
<1>1. CASE r.requisite = {}
  BY <1>1 DEF FilterByTopology
<1>2. CASE r.requisite # {}
  <2>1. /\ p \in ps /\ p.of \in DOMAIN Supported
        /\ \/ Supported[p.of] = {}
           \/ \E t \in r.requisite : isTopologySupportedByBackend(Supported[p.of], t)
    BY <1>2 DEF FilterByTopology, filterPoolsOnTopology
  <2>2. p.of \in Names /\ Supported[p.of] = addProtocolTopology(scn.conf[p.of].topologies, scn.conf[p.of].protocol)
    BY <2>1 DEF Supported, Topologies, Conf
  <2>3. Supported[p.of] # {}
    BY <2>2 DEF addProtocolTopology
  <2>4. scn.conf[p.of].protocol \in Protocols
    BY <2>2, ScenariosAssumption DEF IInv, Names
  <2>5. QED
    BY <2>1, <2>2, <2>3, <2>4, SupportedIsReached
<1>3. QED
  BY <1>1, <1>2

(* The pools left by the primary filters are among the ones before, and    *)
(* can do what the request asks for.                                       *)
LEMMA PrimaryLeaves ==
  ASSUME NEW r, NEW ps, NEW linked, NEW p \in PrimaryFilterFuncs(r, ps, linked)
  PROVE  /\ p \in ps
         /\ r.backend \in {"", p.of} /\ r.pool \in {"", p.name} /\ p.storage \in StoragesOf(r.volumeType)
         /\ r.qos = "" \/ ("SupportQoS" \in p.caps /\ r.qos \in p.qos)
         /\ r.metro => p.of \in linked /\ "SupportMetro" \in p.caps
         /\ ~ r.repl
         /\ r.app => "SupportApplicationType" \in p.caps
         /\ r.quota = "" \/ ("SupportQuota" \in p.caps /\ r.quota = "valid")
         /\ r.source => "SupportClone" \in p.caps
         /\ \/ r.nfs = "" \/ p.storage = "oceanstor-a-series-nas-dme"
            \/ r.nfs \in DOMAIN NFSCapability /\ NFSCapability[r.nfs] \in p.caps
<1> DEFINE placed == filterByVolumeType(r, filterByStoragePool(r, filterByBackendName(r, ps)))
           able == filterByQos(r, filterByAllocType(r, placed))
           paired == filterByReplication(r, filterByMetro(r, able, linked))
           limited == filterByStorageQuota(r, filterByApplicationType(r, paired))
<1>1. p \in filterByNFSProtocol(r, filterBySupportClone(r, limited))
  BY DEF PrimaryFilterFuncs
<1>2. p \in limited /\ (r.source => "SupportClone" \in p.caps)
  <2> HIDE DEF limited
  <2>1. QED
    BY <1>1, Zenon DEF filterByNFSProtocol, filterBySupportClone
<1>3. \/ r.nfs = "" \/ p.storage = "oceanstor-a-series-nas-dme"
      \/ r.nfs \in DOMAIN NFSCapability /\ NFSCapability[r.nfs] \in p.caps
  <2> HIDE DEF limited
  <2>1. QED
    BY <1>1, Zenon DEF filterByNFSProtocol
<1>4. /\ p \in paired /\ (r.app => "SupportApplicationType" \in p.caps)
      /\ r.quota = "" \/ ("SupportQuota" \in p.caps /\ r.quota = "valid")
  <2> HIDE DEF paired
  <2>1. QED
    BY <1>2, Zenon DEF filterByStorageQuota, filterByApplicationType
<1>5. p \in able /\ ~ r.repl /\ (r.metro => p.of \in linked /\ "SupportMetro" \in p.caps)
  <2> HIDE DEF able
  <2>1. QED
    BY <1>4, Zenon DEF filterByReplication, filterByMetro
<1>6. p \in placed /\ (r.qos = "" \/ ("SupportQoS" \in p.caps /\ r.qos \in p.qos))
  <2> HIDE DEF placed
  <2>1. QED
    BY <1>5, Zenon DEF filterByQos, filterByAllocType
<1>7. p \in ps /\ r.backend \in {"", p.of} /\ r.pool \in {"", p.name} /\ p.storage \in StoragesOf(r.volumeType)
  BY <1>6, Zenon DEF filterByVolumeType, filterByStoragePool, filterByBackendName
<1> HIDE DEF placed, able, paired, limited
<1>8. QED
  BY <1>2, <1>3, <1>4, <1>5, <1>6, <1>7, Zenon

(* And the secondary filters.                                              *)
LEMMA SecondaryLeaves ==
  ASSUME NEW r, NEW ps, NEW p \in SecondaryFilterFuncs(r, ps)
  PROVE  /\ p \in ps /\ p.storage \in StoragesOf(r.volumeType)
         /\ p.storage = "oceanstor-9000" \/ Allocates(r.alloc, p.caps)
         /\ r.qos = "" \/ ("SupportQoS" \in p.caps /\ r.qos \in p.qos)
         /\ r.app => "SupportApplicationType" \in p.caps
  BY Zenon DEF SecondaryFilterFuncs, filterByApplicationType, filterByReplication, filterByQos, filterByAllocType,
               filterByVolumeType

(* A pool that allocates has the capability the allocation asks for.       *)
LEMMA AllocatesDemands ==
  ASSUME NEW alloc, NEW caps, Allocates(alloc, caps)
  PROVE  /\ alloc \in {"", "thin", "thick"}
         /\ alloc # "thick" => "SupportThin" \in caps
         /\ alloc = "thick" => "SupportThick" \in caps
  BY DEF Allocates

(* The pools SelectLocalPool is left with serve the request.               *)
LEMMA LocalServes ==
  ASSUME IInv, NEW r, NEW b \in 1 .. Len(objs), NEW p \in PoolsOf(b), NEW ps, NEW linked,
         p \in PrimaryFilterFuncs(r, ps, linked),
         r.requisite # {} => \E t \in r.requisite : Reaches(scn.conf, p.of, t),
         Allocates(r.alloc, p.caps), r.volumeType = "dtree" /\ ~ r.parent => p.parent
  PROVE  LocalFits(scn.conf, objs, r, Pool(p))
<1>1. /\ p.of = objs[b].of /\ p.of \in Names /\ ShowsBackend(scn.conf, p)
      /\ Pool(p) = [build |-> b, name |-> p.name] /\ PoolFits(scn.conf, objs, Pool(p))
  BY PoolsShow, Zenon
<1>2. /\ r.backend \in {"", p.of} /\ r.pool \in {"", p.name} /\ p.storage \in StoragesOf(r.volumeType)
      /\ r.qos = "" \/ ("SupportQoS" \in p.caps /\ r.qos \in p.qos)
      /\ r.metro => "SupportMetro" \in p.caps
      /\ ~ r.repl
      /\ r.app => "SupportApplicationType" \in p.caps
      /\ r.quota = "" \/ ("SupportQuota" \in p.caps /\ r.quota = "valid")
      /\ r.source => "SupportClone" \in p.caps
      /\ \/ r.nfs = "" \/ p.storage = "oceanstor-a-series-nas-dme"
         \/ r.nfs \in DOMAIN NFSCapability /\ NFSCapability[r.nfs] \in p.caps
  BY PrimaryLeaves, Zenon
<1>3. /\ r.alloc \in {"", "thin", "thick"}
      /\ r.alloc # "thick" => "SupportThin" \in p.caps
      /\ r.alloc = "thick" => "SupportThick" \in p.caps
  BY AllocatesDemands
<1>4. Serves(scn.conf, r, p.of)
  BY <1>1, <1>2, <1>3, Zenon DEF Serves, ShowsBackend
<1>5. Demands(r) \subseteq p.caps
  BY <1>2, <1>3 DEF Demands
<1>6. Demands(r) \subseteq scn.conf[p.of].caps
  BY <1>1, <1>5 DEF ShowsBackend
<1>7. r.quota # "invalid"
  BY <1>2
<1>8. r.nfs # "" /\ scn.conf[p.of].storage # "oceanstor-a-series-nas-dme" =>
        r.nfs \in DOMAIN NFSCapability /\ NFSCapability[r.nfs] \in scn.conf[p.of].caps
  BY <1>1, <1>2, Zenon DEF ShowsBackend
<1>9. r.volumeType = "dtree" /\ ~ r.parent => scn.conf[p.of].parent
  BY <1>1 DEF ShowsBackend
<1>10. ServesFirst(scn.conf, r, p.of)
  BY <1>2, <1>4, <1>6, <1>7, <1>8, <1>9, Zenon DEF ServesFirst
<1>11. r.pool \in {"", Pool(p).name} /\ objs[Pool(p).build].of = p.of
  <2>1. Pool(p).build = b /\ Pool(p).name = p.name
    BY <1>1
  <2>2. QED
    BY <1>1, <1>2, <2>1, Zenon
<1>12. QED
  BY <1>1, <1>10, <1>11, Zenon DEF LocalFits

(* The remote pools SelectRemotePool offers for a local pool of n serve    *)
(* the request, and are of the partner of n; none is offered only where    *)
(* there is not room enough.                                               *)
LEMMA RemoteServes ==
  ASSUME IInv, NEW r, r.metro \in BOOLEAN, NEW c, LocalFits(scn.conf, objs, r, c),
         NEW f \in SelectRemotePool(r, objs[c.build].of)
  PROVE  RemoteFits(scn.conf, objs, r, c, f)
<1> DEFINE n == objs[c.build].of
           m == cache[n].metro
           ps == FilterByTopology(r, SecondaryFilterFuncs(r, PoolsOf(m)), Supported)
           qs == FilterByCapacity(r, ps)
<1>0. n \in Names
  <2>1. c.build \in 1 .. Len(objs)
    BY Zenon DEF LocalFits, PoolFits
  <2>2. objs[c.build] \in Built(scn.conf)
    BY <2>1 DEF IInv
  <2>3. QED
    BY <2>2, BuiltFields DEF Names
<1>1. CASE ~ r.metro
  <2>1. f = NoPool
    BY <1>1 DEF SelectRemotePool
  <2>2. QED
    BY <1>1, <2>1 DEF RemoteFits
<1>2. CASE r.metro
  <2>1. ~ r.repl
    BY Zenon DEF LocalFits, ServesFirst
  <2>2. f \in IF ~ Cached(n) \/ m = Nil \/ ps = {} THEN {}
              ELSE IF qs = {} THEN {NoPool}
              ELSE {Pool(p) : p \in weightByFreeCapacity(r, qs, AllTopologies)}
    BY <1>2, <2>1 DEF SelectRemotePool
  <2>3. m # Nil /\ ps # {} /\ CopyFits(scn.conf, objs, n, cache[n])
    <3> HIDE DEF ps, qs, m
    <3>1. QED
      BY <1>0, <2>2 DEF IInv, CacheInv
  <2>4. m \in 1 .. Len(objs) /\ Partners(scn.conf, n, objs[m].of)
    <3>1. m \in 0 .. Len(objs) /\ m # 0 /\ Partners(scn.conf, n, objs[m].of)
      <4> HIDE DEF n
      <4>1. QED
        BY <2>3 DEF CopyFits, Nil
    <3> HIDE DEF m
    <3>2. QED
      BY <3>1 DEF IInv
  <2> HIDE DEF m, n
  <2>5. ASSUME NEW p \in ps
        PROVE  /\ p \in PoolsOf(m)
               /\ r.requisite # {} => \E t \in r.requisite : Reaches(scn.conf, p.of, t)
               /\ p.storage \in StoragesOf(r.volumeType)
               /\ p.storage = "oceanstor-9000" \/ Allocates(r.alloc, p.caps)
               /\ r.qos = "" \/ ("SupportQoS" \in p.caps /\ r.qos \in p.qos)
               /\ r.app => "SupportApplicationType" \in p.caps
    <3>1. p \in SecondaryFilterFuncs(r, PoolsOf(m)) /\ (r.requisite # {} => \E t \in r.requisite : Reaches(scn.conf, p.of, t))
      BY TopologyLeaves, Zenon
    <3>2. QED
      BY <3>1, SecondaryLeaves, Zenon
  <2> HIDE DEF ps
  <2>6. CASE qs = {}
    <3>1. f = NoPool
      BY <2>2, <2>3, <2>6
    <3>2. PICK p \in ps : TRUE
      BY <2>3
    <3>3. p.storage \in Storages /\ p.storage # "oceanstor-9000"
      <4>1. p.of \in Names /\ p.storage = scn.conf[p.of].storage
        BY <2>4, <2>5, <3>2, PoolsShow, Zenon DEF ShowsBackend
      <4>2. p.storage \in Storages
        BY <4>1, ScenariosAssumption DEF IInv, Names
      <4>3. QED
        BY <4>2 DEF Storages
    <3>4. Allocates(r.alloc, p.caps)
      BY <2>5, <3>2, <3>3, Zenon
    <3>5. r.alloc = "thick"
      BY <2>6, <3>2, <3>4 DEF FilterByCapacity
    <3>6. QED
      BY <1>2, <3>1, <3>5, Zenon DEF RemoteFits
  <2>7. CASE qs # {}
    <3>1. PICK p \in weightByFreeCapacity(r, qs, AllTopologies) : f = Pool(p)
      BY <2>2, <2>3, <2>7
    <3>2. p \in ps /\ Allocates(r.alloc, p.caps)
      BY <3>1 DEF weightByFreeCapacity, FilterByCapacity
    <3>3. /\ p \in PoolsOf(m) /\ p.of = objs[m].of /\ ShowsBackend(scn.conf, p)
          /\ Pool(p) = [build |-> m, name |-> p.name] /\ PoolFits(scn.conf, objs, Pool(p))
      BY <2>4, <2>5, <3>2, PoolsShow, Zenon
    <3>4. f.build = m /\ f # NoPool
      <4>1. f.build = m
        BY <3>1, <3>3
      <4>2. NoPool.build = 0
        BY DEF NoPool, Nil
      <4>3. m # 0
        BY <2>4
      <4>4. QED
        BY <4>1, <4>2, <4>3, Zenon
    <3>5. Serves(scn.conf, r, p.of)
      BY <2>5, <3>2, <3>3, AllocatesDemands, Zenon DEF Serves, ShowsBackend
    <3>6. Demands(r) \ {"SupportMetro", "SupportQuota", "SupportClone"} \subseteq p.caps
      <4>1. /\ r.qos = "" \/ "SupportQoS" \in p.caps
            /\ r.app => "SupportApplicationType" \in p.caps
            /\ r.alloc # "thick" => "SupportThin" \in p.caps
            /\ r.alloc = "thick" => "SupportThick" \in p.caps
        BY <2>5, <3>2, AllocatesDemands, Zenon
      <4>2. QED
        BY <4>1 DEF Demands
    <3>7. ServesSecond(scn.conf, r, p.of)
      BY <3>3, <3>5, <3>6 DEF ServesSecond, ShowsBackend
    <3>8. r.metro = (f # NoPool)
      BY <1>2, <3>4
    <3>9. Partners(scn.conf, n, objs[f.build].of) /\ ServesSecond(scn.conf, r, objs[f.build].of)
      BY <2>4, <3>3, <3>4, <3>7, Zenon
    <3>10. QED
      BY <3>1, <3>3, <3>8, <3>9, Zenon DEF RemoteFits, n
  <2>8. QED
    BY <2>6, <2>7
<1>3. QED
  BY <1>1, <1>2

(***************************************************************************)
(* The steps of the selections.                                            *)
(***************************************************************************)

(* A request that has not been answered, or is refused.                    *)
LEMMA WaitingFits ==
  ASSUME NEW conf, NEW os, NEW r
  PROVE  SelFits(conf, os, r, Waiting) /\ SelFits(conf, os, r, [Waiting EXCEPT !.pc = "done"])
  BY DEF SelFits, Waiting

(* The local pools are listed and filtered.                                *)
LEMMA SelectLocalPoolKeeps ==
  ASSUME IInv, NEW i \in DOMAIN scn.reqs, SelectLocalPool(i)
  PROVE  IInv'
<1> DEFINE r == scn.reqs[i]
           ls == PrimaryFilterFuncs(r, LoadCacheStoragePools, Linked)
           ps == FilterByTopology(r, ls, Supported)
           qs == selectDtreePool(r, FilterByCapacity(r, ps))
           v == [sel[i] EXCEPT !.pc = "remote", !.local = {Pool(p) : p \in qs}]
           w == IF qs = {} THEN [Waiting EXCEPT !.pc = "done"] ELSE v
<1>1. GrownStep /\ objs' = objs
  BY SameBuilds DEF SelectLocalPool
<1>2. sel' = [sel EXCEPT ![i] = w]
  BY DEF SelectLocalPool, Refuse
<1>3. ASSUME NEW p \in qs
      PROVE  LocalFits(scn.conf, objs, r, Pool(p))
  <2>1. p \in ps /\ Allocates(r.alloc, p.caps) /\ (r.volumeType = "dtree" /\ ~ r.parent => p.parent)
    <3> HIDE DEF ps, r
    <3>1. QED
      BY <1>3, Zenon DEF selectDtreePool, FilterByCapacity
  <2>2. p \in ls /\ (r.requisite # {} => \E t \in r.requisite : Reaches(scn.conf, p.of, t))
    <3> HIDE DEF ls, r
    <3>1. QED
      BY <2>1, TopologyLeaves, Zenon
  <2> HIDE DEF ps, qs, r
  <2>3. p \in LoadCacheStoragePools
    BY <2>2, PrimaryLeaves, Zenon
  <2>4. PICK n \in Names : Cached(n) /\ p \in PoolsOf(cache[n].build)
    BY <2>3 DEF LoadCacheStoragePools
  <2>5. cache[n].build \in 1 .. Len(objs)
    BY <2>4 DEF IInv, CacheInv, CopyFits, Cached, Nil
  <2>6. QED
    BY <2>1, <2>2, <2>4, <2>5, LocalServes, Zenon
<1>4. SelFits(scn.conf, objs, r, sel[i]) /\ sel[i].pc = "wait"
  BY DEF IInv, SelInv, SelectLocalPool
<1> HIDE DEF qs, r
<1>5. SelFits(scn.conf, objs, r, v)
  BY <1>3, <1>4, ZenonT(40) DEF SelFits
<1> HIDE DEF v
<1>6. SelFits(scn.conf, objs, r, w)
  BY <1>5, WaitingFits
<1> HIDE DEF w
<1>7. SelInv'
  BY <1>1, <1>2, <1>6, SelMoved DEF r
<1>8. QED
  BY <1>1, <1>7, CacheSame, RegSame, OffSame DEF SelectLocalPool, IInv, GrownStep

(* Each local pool is given a remote one.                                  *)
LEMMA SelectPoolPairKeeps ==
  ASSUME IInv, NEW i \in DOMAIN scn.reqs, SelectPoolPair(i)
  PROVE  IInv'
<1> DEFINE r == scn.reqs[i]
           remotes == [c \in sel[i].local |-> SelectRemotePool(r, Of(c))]
<1>1. GrownStep /\ objs' = objs
  BY SameBuilds DEF SelectPoolPair
<1>2. SelFits(scn.conf, objs, r, sel[i]) /\ sel[i].pc = "remote" /\ r.metro \in BOOLEAN
  BY ScenariosAssumption DEF IInv, SelInv, SelectPoolPair
<1>3. SelInv'
  <2>1. CASE \E c \in sel[i].local : remotes[c] = {}
    <3>1. sel' = [sel EXCEPT ![i] = [Waiting EXCEPT !.pc = "done"]]
      BY <2>1 DEF SelectPoolPair, Refuse
    <3>2. QED
      BY <1>1, <3>1, WaitingFits, SelMoved
  <2>2. CASE ~ \E c \in sel[i].local : remotes[c] = {}
    <3>1. PICK f \in [sel[i].local -> UNION {remotes[c] : c \in sel[i].local}] :
            /\ \A c \in sel[i].local : f[c] \in remotes[c]
            /\ sel' = [sel EXCEPT ![i].pc = "weight", ![i].pairs = {<<c, f[c]>> : c \in sel[i].local}]
      BY <2>2 DEF SelectPoolPair
    <3> DEFINE pairs == {<<c, f[c]>> : c \in sel[i].local}
               w == [sel[i] EXCEPT !.pc = "weight", !.pairs = pairs]
    <3>2. sel' = [sel EXCEPT ![i] = w]
      BY <3>1
    <3>3. ASSUME NEW c \in sel[i].local
          PROVE  RemoteFits(scn.conf, objs, r, c, f[c])
      <4>1. f[c] \in SelectRemotePool(r, objs[c.build].of)
        BY <3>1 DEF Of
      <4>2. LocalFits(scn.conf, objs, r, c)
        BY <1>2 DEF SelFits
      <4> HIDE DEF r
      <4>3. QED
        BY <1>2, <4>1, <4>2, RemoteServes
    <3>4. \A p \in pairs : p[1] \in sel[i].local /\ RemoteFits(scn.conf, objs, r, p[1], p[2])
      <4> HIDE DEF r
      <4>1. SUFFICES ASSUME NEW p \in pairs
                     PROVE  p[1] \in sel[i].local /\ RemoteFits(scn.conf, objs, r, p[1], p[2])
        BY Zenon
      <4>2. PICK c \in sel[i].local : p = <<c, f[c]>>
        OBVIOUS
      <4>3. p[1] = c /\ p[2] = f[c]
        BY <4>2
      <4>4. QED
        BY <3>3, <4>3, Zenon
    <3> HIDE DEF pairs, r
    <3>5. SelFits(scn.conf, objs, r, w)
      BY <1>2, <3>4 DEF SelFits
    <3> HIDE DEF w
    <3>6. QED
      BY <1>1, <3>2, <3>5, SelMoved DEF r
  <2>3. QED
    BY <2>1, <2>2
<1>4. QED
  BY <1>1, <1>3, CacheSame, RegSame, OffSame DEF SelectPoolPair, IInv, GrownStep

(* A pool is charged.                                                      *)
Charged(os, c, size) == IF c = NoPool THEN os ELSE [os EXCEPT ![c.build].free[c.name] = @ - size]

(* Charging a pool, whatever its size and however often, gives builds of   *)
(* the same backends.                                                      *)
LEMMA ChargedBuilds ==
  ASSUME NEW conf, NEW os \in Seq(Built(conf)), NEW size \in Int, NEW c, c # NoPool => PoolFits(conf, os, c)
  PROVE  Charged(os, c, size) \in Seq(Built(conf)) /\ Grown(os, Charged(os, c, size))
<1>1. CASE c = NoPool
  BY <1>1 DEF Charged, Grown
<1>2. CASE c # NoPool
  <2> DEFINE b == c.build
             o == os[b]
             x == c.name
             q == [o EXCEPT !.free[x] = @ - size]
  <2>1. b \in 1 .. Len(os)
    BY <1>2 DEF PoolFits
  <2>2. o \in BuiltOf(conf, o.of) /\ o.of \in DOMAIN conf
    BY <2>1, BuiltFields
  <2>3. x \in DOMAIN conf[o.of].free
    BY <1>2 DEF PoolFits
  <2>4. Charged(os, c, size) = [os EXCEPT ![b] = q]
    BY <1>2 DEF Charged
  <2> HIDE DEF o, x
  <2>5. o.free \in [DOMAIN conf[o.of].free -> Int]
    BY <2>2 DEF BuiltOf
  <2>6. [o.free EXCEPT ![x] = @ - size] \in [DOMAIN conf[o.of].free -> Int]
    BY <2>3, <2>5
  <2>7. q \in BuiltOf(conf, o.of) /\ q.of = o.of
    BY <2>2, <2>6 DEF BuiltOf
  <2>8. q \in Built(conf) /\ q.of = os[b].of
    BY <2>2, <2>7 DEF Built, o
  <2> HIDE DEF b, q
  <2>9. [os EXCEPT ![b] = q] \in Seq(Built(conf)) /\ Grown(os, [os EXCEPT ![b] = q])
    BY <2>1, <2>8, Replaced
  <2>10. QED
    BY <2>4, <2>9, Zenon
<1>3. QED
  BY <1>1, <1>2

(* The pools of a pair are charged, the builds stay with their backends.   *)
LEMMA WeightGrows ==
  ASSUME IInv, NEW i \in DOMAIN scn.reqs, WeightPools(i)
  PROVE  GrownStep
<1> DEFINE r == scn.reqs[i]
<1>1. PICK pair \in sel[i].pairs :
        /\ objs' = updateSelectPool(r, objs, pair)
        /\ sel' = [sel EXCEPT ![i] = [Waiting EXCEPT !.pc = "done", !.answer = pair, !.ok = TRUE]]
  BY Zenon DEF WeightPools
<1>2. SelFits(scn.conf, objs, r, sel[i]) /\ sel[i].pc = "weight" /\ r.size \in Int /\ scn' = scn
  BY ScenariosAssumption DEF IInv, SelInv, WeightPools
<1> HIDE DEF r
<1>3. LocalFits(scn.conf, objs, r, pair[1]) /\ RemoteFits(scn.conf, objs, r, pair[1], pair[2])
  BY <1>1, <1>2 DEF SelFits
<1> DEFINE os == Charged(objs, pair[1], r.size)
<1>4. GrownStep
  <2>1. CASE r.alloc = "thick"
    <3>1. objs' = Charged(os, pair[2], r.size)
      BY <1>1, <2>1, Zenon DEF updateSelectPool, Charged
    <3>2. os \in Seq(Built(scn.conf)) /\ Grown(objs, os)
      <4>1. PoolFits(scn.conf, objs, pair[1])
        BY <1>3, Zenon DEF LocalFits
      <4>2. QED
        BY <1>2, <4>1, ChargedBuilds DEF IInv
    <3> HIDE DEF os
    <3>3. pair[2] # NoPool => PoolFits(scn.conf, os, pair[2])
      BY <1>3, <3>2, PoolKept, Zenon DEF RemoteFits
    <3>4. objs' \in Seq(Built(scn.conf)) /\ Grown(os, objs')
      BY <1>2, <3>1, <3>2, <3>3, ChargedBuilds
    <3>5. QED
      BY <1>2, <3>2, <3>4 DEF GrownStep, Grown
  <2>2. CASE r.alloc # "thick"
    BY <1>1, <1>2, <2>2, SameBuilds DEF updateSelectPool
  <2>3. QED
    BY <2>1, <2>2
<1>5. QED
  BY <1>4

(* The pair with the most free capacity is taken and charged.              *)
LEMMA WeightPoolsKeeps ==
  ASSUME IInv, NEW i \in DOMAIN scn.reqs, WeightPools(i)
  PROVE  IInv'
<1> DEFINE r == scn.reqs[i]
<1>1. PICK pair \in sel[i].pairs :
        /\ objs' = updateSelectPool(r, objs, pair)
        /\ sel' = [sel EXCEPT ![i] = [Waiting EXCEPT !.pc = "done", !.answer = pair, !.ok = TRUE]]
  BY Zenon DEF WeightPools
<1>2. SelFits(scn.conf, objs, r, sel[i]) /\ sel[i].pc = "weight" /\ r.size \in Int /\ scn' = scn
  BY ScenariosAssumption DEF IInv, SelInv, WeightPools
<1> HIDE DEF r
<1>3. LocalFits(scn.conf, objs, r, pair[1]) /\ RemoteFits(scn.conf, objs, r, pair[1], pair[2])
  BY <1>1, <1>2 DEF SelFits
<1>4. GrownStep
  BY WeightGrows
<1> DEFINE w == [Waiting EXCEPT !.pc = "done", !.answer = pair, !.ok = TRUE]
<1>5. SelFits(scn.conf, objs, r, w)
  BY <1>3 DEF SelFits, Waiting
<1>6. SelFits(scn.conf, objs', r, w)
  BY <1>4, <1>5, SelKept DEF GrownStep
<1>7. SelInv'
  BY <1>1, <1>4, <1>6, SelMoved DEF r
<1>8. QED
  BY <1>4, <1>7, CacheSame, RegSame, OffSame DEF WeightPools, IInv, GrownStep

(***************************************************************************)
(* The start, and the theorems.                                            *)
(***************************************************************************)

(* The backends that are up at the start are built, cached and linked.     *)
LEMMA InitIInv == Init => IInv
<1> SUFFICES ASSUME Init PROVE IInv
  OBVIOUS
<1> DEFINE U == {scn.up[k] : k \in DOMAIN scn.up}
           up == [n \in U |-> CHOOSE k \in DOMAIN scn.up : scn.up[k] = n]
<1>1. /\ scn \in Scenarios
      /\ cache = [n \in Names |-> Settled(up, n)]
      /\ objs = [k \in DOMAIN scn.up |->
                   [UpdatePools(NewBackend(scn.up[k])) EXCEPT
                       !.online = TRUE, !.remote = Settled(up, scn.up[k]).metro]]
      /\ reg = [g \in Workers |-> Idle] /\ off = [n \in Names |-> NotRunning]
      /\ sel = [i \in DOMAIN scn.reqs |-> Waiting]
  BY DEF Init
<1>2. scn.up \in Seq(Names) /\ DOMAIN scn.up = 1 .. Len(scn.up) /\ Len(scn.up) \in Nat
  <2>1. scn.up \in Seq(DOMAIN scn.conf)
    BY <1>1, ScenariosAssumption, Zenon
  <2>2. QED
    BY <2>1, ListLen DEF Names
<1>3. ASSUME NEW n \in U
      PROVE  up[n] \in 1 .. Len(scn.up) /\ scn.up[up[n]] = n
  BY <1>2
<1>4. DOMAIN up = U
  OBVIOUS
<1> HIDE DEF up, U
<1>5. ASSUME NEW n \in Names
      PROVE  /\ Settled(up, n) \in [build : 0 .. Len(scn.up), avail : BOOLEAN, metro : 0 .. Len(scn.up)]
             /\ Settled(up, n).build # Nil => scn.up[Settled(up, n).build] = n
             /\ Settled(up, n).metro # Nil => Partners(scn.conf, n, scn.up[Settled(up, n).metro])
  <2>1. CASE n \notin U
    BY <1>2, <1>4, <2>1, SMTT(30) DEF Settled, NoBackend, Nil
  <2>2. CASE n \in U
    <3>1. CASE \E m \in U : Partners(scn.conf, n, m)
      <4>1. Conf(n).metroBackend \in U /\ Partners(scn.conf, n, Conf(n).metroBackend)
        BY <3>1 DEF Partners, Conf
      <4>2. Settled(up, n) = [build |-> up[n], avail |-> TRUE, metro |-> up[Conf(n).metroBackend]]
        BY <1>4, <2>2, <3>1 DEF Settled
      <4>3. QED
        BY <1>2, <1>3, <2>2, <4>1, <4>2 DEF Nil
    <3>2. CASE ~ \E m \in U : Partners(scn.conf, n, m)
      <4>1. Settled(up, n) = [build |-> up[n], avail |-> TRUE, metro |-> Nil]
        BY <1>4, <2>2, <3>2 DEF Settled
      <4>2. QED
        BY <1>2, <1>3, <2>2, <4>1 DEF Nil
    <3>3. QED
      BY <3>1, <3>2
  <2>3. QED
    BY <2>1, <2>2
<1>6. ASSUME NEW k \in 1 .. Len(scn.up)
      PROVE  objs[k] \in BuiltOf(scn.conf, scn.up[k]) /\ objs[k].of = scn.up[k] /\ scn.up[k] \in Names
  <2> DEFINE n == scn.up[k]
  <2>1. n \in Names
    BY <1>2
  <2>2. Settled(up, n).metro \in Nat
    BY <1>2, <1>5, <2>1
  <2>4. objs[k] = [UpdatePools(NewBackend(n)) EXCEPT !.online = TRUE, !.remote = Settled(up, n).metro]
    BY <1>1, <1>2
  <2> HIDE DEF n
  <2>5. objs[k] \in BuiltOf(scn.conf, n) /\ objs[k].of = n
    <3> DEFINE u == UpdatePools(NewBackend(n))
    <3>1. NewBackend(n) \in BuiltOf(scn.conf, n)
      BY DEF NewBackend, BuiltOf, Conf, Nil
    <3>2. u \in BuiltOf(scn.conf, n)
      BY <1>1, <2>1, <3>1, UpdatedPools DEF n
    <3> HIDE DEF u
    <3>3. objs[k] = [u EXCEPT !.online = TRUE, !.remote = Settled(up, n).metro]
      BY <2>4 DEF u
    <3>4. QED
      BY <2>2, <3>2, <3>3 DEF BuiltOf
  <2>6. QED
    BY <2>1, <2>5 DEF n
<1>7. objs \in Seq(Built(scn.conf)) /\ Len(objs) = Len(scn.up)
  <2>1. \A k \in 1 .. Len(scn.up) : objs[k] \in Built(scn.conf)
    BY <1>6 DEF Built, Names
  <2>2. objs = [k \in 1 .. Len(scn.up) |-> objs[k]]
    BY <1>1, <1>2
  <2>3. objs \in [1 .. Len(scn.up) -> Built(scn.conf)]
    BY <2>1, <2>2, Zenon
  <2>4. objs \in Seq(Built(scn.conf))
    BY <1>2, <2>3, ListOf
  <2>5. QED
    BY <1>2, <2>3, <2>4, ListLen
<1>8. ASSUME NEW n \in Names
      PROVE  CopyFits(scn.conf, objs, n, Settled(up, n))
  <2> DEFINE c == Settled(up, n)
  <2>1. /\ c \in [build : 0 .. Len(scn.up), avail : BOOLEAN, metro : 0 .. Len(scn.up)]
        /\ c.build # Nil => scn.up[c.build] = n
        /\ c.metro # Nil => Partners(scn.conf, n, scn.up[c.metro])
    BY <1>5
  <2> HIDE DEF c
  <2>2. c.build # Nil => c.build \in 1 .. Len(scn.up)
    BY <1>2, <2>1 DEF Nil
  <2>3. c.metro # Nil => c.metro \in 1 .. Len(scn.up)
    BY <1>2, <2>1 DEF Nil
  <2>4. /\ c.build # Nil => objs[c.build].of = n
        /\ c.metro # Nil => Partners(scn.conf, n, objs[c.metro].of)
    BY <1>6, <2>1, <2>2, <2>3, Zenon
  <2>5. CopyFits(scn.conf, objs, n, c)
    BY <1>7, <2>1, <2>4, Zenon DEF CopyFits
  <2>6. QED
    BY <2>5 DEF c
<1>9. CacheInv
  BY <1>1, <1>8 DEF CacheInv
<1>10. RegInv /\ OffInv
  BY <1>1, <1>2, <1>7, NoCopyFits DEF RegInv, OffInv
<1>11. SelInv
  BY <1>1, WaitingFits DEF SelInv
<1>12. QED
  BY <1>1, <1>7, <1>9, <1>10, <1>11 DEF IInv

(* Every step keeps the invariant.                                         *)
LEMMA NextIInv == IInv /\ [Next]_vars => IInv'
<1> SUFFICES ASSUME IInv, [Next]_vars PROVE IInv'
  OBVIOUS
<1>1. ASSUME NEW g \in Workers, UpdateAndAddBackend(g) PROVE IInv'
  BY <1>1, UpdateAndAddBackendKeeps
<1>2. ASSUME NEW g \in Workers, UpdateCacheBackend(g) PROVE IInv'
  BY <1>2, UpdateCacheBackendKeeps
<1>3. ASSUME NEW g \in Workers, updateCacheBackend(g) PROVE IInv'
  BY <1>3, updateCacheBackendKeeps
<1>4. ASSUME NEW g \in Workers, ListForMetro(g) PROVE IInv'
  BY <1>4, ListForMetroKeeps
<1>5. ASSUME NEW g \in Workers, StoreFirst(g) PROVE IInv'
  BY <1>5, StoreFirstKeeps
<1>6. ASSUME NEW g \in Workers, StoreSecond(g) PROVE IInv'
  BY <1>6, StoreSecondKeeps
<1>7. ASSUME NEW n \in Names, UpdateCacheBackendStatus(n) PROVE IInv'
  BY <1>7, UpdateCacheBackendStatusKeeps
<1>8. ASSUME NEW n \in Names, Delete(n) PROVE IInv'
  BY <1>8, DeleteKeeps
<1>9. ASSUME NEW n \in Names, NEW online \in BOOLEAN, LoadForStatus(n, online) PROVE IInv'
  BY <1>9, LoadForStatusKeeps
<1>10. ASSUME NEW i \in DOMAIN scn.reqs, SelectLocalPool(i) PROVE IInv'
  BY <1>10, SelectLocalPoolKeeps
<1>11. ASSUME NEW i \in DOMAIN scn.reqs, SelectPoolPair(i) PROVE IInv'
  BY <1>11, SelectPoolPairKeeps
<1>12. ASSUME NEW i \in DOMAIN scn.reqs, WeightPools(i) PROVE IInv'
  BY <1>12, WeightPoolsKeeps
<1>13. CASE UNCHANGED vars
  <2>1. GrownStep
    BY <1>13, SameBuilds DEF vars
  <2>2. QED
    BY <1>13, <2>1, CacheSame, RegSame, OffSame, SelSame DEF vars, IInv, GrownStep
<1>14. ASSUME NEW g \in Workers, LoadOrRegisterOneBackend(g) PROVE IInv'
  BY <1>14, LoadOrRegisterOneBackendKeeps
<1>15. QED
  BY <1>1, <1>2, <1>3, <1>4, <1>5, <1>6, <1>7, <1>8, <1>9, <1>10, <1>11, <1>12, <1>13, <1>14
  DEF Next, Register, Select

(* The invariant gives the property.                                       *)
LEMMA IInvServes == IInv => SelectedServes
<1> SUFFICES ASSUME IInv, NEW i \in DOMAIN sel, sel[i].ok
             PROVE  LET r == scn.reqs[i]
                        l == sel[i].answer[1]
                        f == sel[i].answer[2]
                    IN  /\ ServesFirst(scn.conf, r, Of(l)) /\ r.pool \in {"", l.name}
                        /\ r.metro = (f # NoPool) \/ (r.metro /\ r.alloc = "thick")
                        /\ f # NoPool => Partners(scn.conf, Of(l), Of(f)) /\ ServesSecond(scn.conf, r, Of(f))
  BY DEF SelectedServes
<1> DEFINE r == scn.reqs[i]
           l == sel[i].answer[1]
           f == sel[i].answer[2]
<1>1. SelFits(scn.conf, objs, r, sel[i])
  BY DEF IInv, SelInv
<1>2. LocalFits(scn.conf, objs, r, l) /\ RemoteFits(scn.conf, objs, r, l, f)
  BY <1>1 DEF SelFits
<1> HIDE DEF r, l, f
<1>3. /\ ServesFirst(scn.conf, r, Of(l)) /\ r.pool \in {"", l.name}
      /\ r.metro = (f # NoPool) \/ (r.metro /\ r.alloc = "thick")
      /\ f # NoPool => Partners(scn.conf, Of(l), Of(f)) /\ ServesSecond(scn.conf, r, Of(f))
  BY <1>2, Zenon DEF LocalFits, RemoteFits, Of
<1>4. QED
  BY <1>3 DEF r, l, f

(* Whatever backends are registered, linked, taken offline and removed     *)
(* while CreateVolume selects, the pools it is given serve the request.    *)
THEOREM SelectionServes == Spec => []SelectedServes
<1>1. Init => IInv
  BY InitIInv
<1>2. IInv /\ [Next]_vars => IInv'
  BY NextIInv
<1>3. IInv => SelectedServes
  BY IInvServes
<1>4. QED
  BY <1>1, <1>2, <1>3, PTL DEF Spec

(***************************************************************************)
(* What is left where the cache stays as it is.                            *)
(***************************************************************************)

(* A set of natural numbers has a least element.                           *)
LEMMA LeastNatural ==
  ASSUME NEW T, T \subseteq Nat, T # {}
  PROVE  \E x \in T : \A y \in T : x <= y
<1> DEFINE R == {ss \in Nat \X Nat : ss[1] < ss[2]}
<1>1. IsWellFoundedOn(R, Nat)
  BY NatLessThanWellFounded DEF OpToRel
<1>2. R = {ss \in Nat \X Nat : ss[1] < ss[2]}
  OBVIOUS
<1> HIDE DEF R
<1>3. PICK x \in T : \A y \in T : ~ (<<y, x>> \in R)
  BY <1>1, WFMin
<1>4. ASSUME NEW y \in T PROVE x <= y
  <2>1. x \in Nat /\ y \in Nat /\ <<y, x>> \notin R
    BY <1>3
  <2>2. QED
    BY <2>1, <1>2
<1>5. QED
  BY <1>3, <1>4

(* An integer function on a finite set is largest somewhere: a smallest    *)
(* set on which it is not would have one element too many.                 *)
LEMMA LargestInteger ==
  ASSUME NEW S, IsFiniteSet(S), S # {}, NEW f \in [S -> Int]
  PROVE  \E x \in S : \A y \in S : f[y] <= f[x]
<1> DEFINE Topped(T) == \E x \in T : \A y \in T : f[y] <= f[x]
           bad == {T \in SUBSET S : T # {} /\ ~ Topped(T)}
<1> SUFFICES ASSUME bad # {} PROVE FALSE
  OBVIOUS
<1> DEFINE sizes == {Cardinality(T) : T \in bad}
<1>1. ASSUME NEW T \in SUBSET S PROVE IsFiniteSet(T) /\ Cardinality(T) \in Nat
  BY FS_Subset, FS_CardinalityType
<1>2. sizes \subseteq Nat /\ sizes # {}
  BY <1>1
<1>3. PICK k \in sizes : \A j \in sizes : k <= j
  <2> HIDE DEF sizes
  <2>1. QED
    BY <1>2, LeastNatural
<1>4. PICK T \in bad : Cardinality(T) = k
  BY <1>3
<1>5. PICK x \in T : TRUE
  BY <1>4
<1>6. Cardinality(T \ {x}) = k - 1 /\ T \ {x} \in SUBSET S /\ k \in Nat
  BY <1>1, <1>4, <1>5, FS_RemoveElement
<1>7. T \ {x} \notin bad
  <2> SUFFICES ASSUME T \ {x} \in bad PROVE FALSE
    OBVIOUS
  <2>1. Cardinality(T \ {x}) \in sizes
    OBVIOUS
  <2> HIDE DEF sizes, bad
  <2>2. k <= k - 1
    BY <1>3, <1>6, <2>1
  <2>3. QED
    BY <1>6, <2>2
<1>8. x \in S /\ T \subseteq S /\ ~ Topped(T)
  BY <1>4, <1>5
<1>9. CASE T \ {x} = {}
  BY <1>5, <1>8, <1>9
<1>10. CASE T \ {x} # {}
  <2>1. Topped(T \ {x})
    <3> HIDE DEF Topped
    <3>1. QED
      BY <1>6, <1>7, <1>10
  <2>2. PICK y \in T \ {x} : \A z \in T \ {x} : f[z] <= f[y]
    BY <2>1
  <2>3. f[x] \in Int /\ f[y] \in Int /\ \A z \in T : f[z] \in Int
    BY <1>8, <2>2
  <2>4. CASE f[x] <= f[y]
    BY <1>5, <1>8, <2>2, <2>4
  <2>5. CASE ~ (f[x] <= f[y])
    <3>1. ASSUME NEW z \in T PROVE f[z] <= f[x]
      BY <2>2, <2>3, <2>5
    <3>2. QED
      BY <1>5, <1>8, <3>1
  <2>6. QED
    BY <2>4, <2>5
<1>11. QED
  BY <1>9, <1>10

(* The place of a pool in the order of the preferred topologies.           *)
LEMMA PreferenceIsPlace ==
  ASSUME NEW r, DOMAIN r.preferred = 1 .. Len(r.preferred), Len(r.preferred) \in Nat, NEW p, NEW supported
  PROVE  Preference(r, p, supported) \in Nat
<1> DEFINE S == {i \in DOMAIN r.preferred : isTopologySupportedByBackend(supported[p.of], r.preferred[i])}
                  \cup {Len(r.preferred) + 1}
<1>1. S \subseteq Nat /\ S # {}
  OBVIOUS
<1>2. Preference(r, p, supported) = IF r.requisite = {} THEN 1 ELSE Min(S)
  BY DEF Preference
<1> HIDE DEF S
<1>3. \E x \in S : \A y \in S : x <= y
  BY <1>1, LeastNatural
<1>4. Min(S) \in Nat
  BY <1>1, <1>3 DEF Min
<1>5. CASE r.requisite = {}
  BY <1>2, <1>5
<1>6. CASE r.requisite # {}
  BY <1>2, <1>4, <1>6, Zenon
<1>7. QED
  BY <1>5, <1>6

(* Of finitely many pools one is first.                                    *)
LEMMA OneIsFirst ==
  ASSUME NEW r, DOMAIN r.preferred = 1 .. Len(r.preferred), Len(r.preferred) \in Nat, NEW supported,
         NEW ps, IsFiniteSet(ps), ps # {}, \A p \in ps : p.free \in Int
  PROVE  weightByFreeCapacity(r, ps, supported) # {}
<1> DEFINE f == [p \in ps |-> p.free]
           most == {p \in ps : \A q \in ps : q.free <= p.free}
           places == {Preference(r, p, supported) : p \in most}
<1>1. most # {}
  <2>1. \E x \in ps : \A y \in ps : f[y] <= f[x]
    <3>1. f \in [ps -> Int]
      OBVIOUS
    <3> HIDE DEF f
    <3>2. QED
      BY <3>1, LargestInteger
  <2>2. QED
    BY <2>1
<1> HIDE DEF most
<1>2. places \subseteq Nat /\ places # {}
  BY <1>1, PreferenceIsPlace
<1>3. \E x \in places : \A y \in places : x <= y
  <2> HIDE DEF places
  <2>1. QED
    BY <1>2, LeastNatural
<1>4. PICK p \in most : \A q \in most : Preference(r, p, supported) <= Preference(r, q, supported)
  BY <1>3
<1>5. QED
  BY <1>4 DEF weightByFreeCapacity, most

(* A place the backend reaches is one it supports.                         *)
LEMMA ReachedIsSupported ==
  ASSUME NEW conf, NEW n, conf[n].protocol \in Protocols, NEW t, Reaches(conf, n, t)
  PROVE  isTopologySupportedByBackend(addProtocolTopology(conf[n].topologies, conf[n].protocol), t)
<1> DEFINE P == conf[n].protocol
           pp == <<P, Driver>>
           own == extractProtocolTopology(t)
           T == conf[n].topologies
           with(s) == {kv \in s : kv[1] # P} \cup {pp}
<1>1. PICK s \in T \cup {{}} :
        /\ {kv \in t : kv[1] \notin Protocols} \subseteq s
        /\ (\E kv \in t : kv[1] \in Protocols) => \E kv \in t : kv[1] \in Protocols /\ kv \in s \cup {pp}
  BY DEF Reaches
<1>2. own = {kv \in t : kv[1] \in Protocols} /\ pp[1] = P
  BY DEF extractProtocolTopology
<1>3. with(s) \in addProtocolTopology(T, P) /\ (s \in T => s \in addProtocolTopology(T, P))
  BY <1>1 DEF addProtocolTopology
<1>4. t \ own \subseteq s /\ t \ own \subseteq with(s)
  BY <1>1, <1>2
<1>5. CASE own = {}
  BY <1>3, <1>4, <1>5 DEF isTopologySupportedByBackend
<1>6. CASE own # {}
  <2>1. PICK kv \in own : kv \in s \cup {pp}
    BY <1>1, <1>2, <1>6
  <2>2. CASE kv = pp
    BY <1>3, <1>4, <2>1, <2>2 DEF isTopologySupportedByBackend
  <2>3. CASE kv \in s
    BY <1>1, <1>3, <1>4, <2>1, <2>3 DEF isTopologySupportedByBackend
  <2>4. QED
    BY <2>1, <2>2, <2>3
<1>7. QED
  BY <1>5, <1>6

(* The topologies leave every cached backend's pool that reaches a place.  *)
LEMMA TopologyKeeps ==
  ASSUME IInv, NEW r, NEW ps, NEW p \in ps, p.of \in Names, Cached(p.of),
         r.requisite # {} => \E t \in r.requisite : Reaches(scn.conf, p.of, t)
  PROVE  p \in FilterByTopology(r, ps, Supported)
<1>1. CASE r.requisite = {}
  BY <1>1 DEF FilterByTopology
<1>2. CASE r.requisite # {}
  <2>1. PICK t \in r.requisite : Reaches(scn.conf, p.of, t)
    BY <1>2
  <2>2. /\ p.of \in DOMAIN Supported
        /\ Supported[p.of] = addProtocolTopology(scn.conf[p.of].topologies, scn.conf[p.of].protocol)
    BY DEF Supported, Topologies, Conf
  <2>3. scn.conf[p.of].protocol \in Protocols
    BY ScenariosAssumption DEF IInv, Names
  <2>4. isTopologySupportedByBackend(Supported[p.of], t)
    BY <2>1, <2>2, <2>3, ReachedIsSupported
  <2>5. QED
    BY <1>2, <2>2, <2>4 DEF FilterByTopology, filterPoolsOnTopology
<1>3. QED
  BY <1>1, <1>2

(* The primary filters leave every pool that can do what is asked for.     *)
LEMMA PrimaryKeeps ==
  ASSUME NEW r, NEW ps, NEW linked, NEW p \in ps,
         r.backend \in {"", p.of}, r.pool \in {"", p.name}, p.storage \in StoragesOf(r.volumeType),
         Allocates(r.alloc, p.caps),
         r.qos = "" \/ ("SupportQoS" \in p.caps /\ r.qos \in p.qos),
         r.metro => p.of \in linked /\ "SupportMetro" \in p.caps,
         ~ r.repl,
         r.app => "SupportApplicationType" \in p.caps,
         r.quota = "" \/ ("SupportQuota" \in p.caps /\ r.quota = "valid"),
         r.source => "SupportClone" \in p.caps,
         \/ r.nfs = "" \/ p.storage = "oceanstor-a-series-nas-dme"
         \/ r.nfs \in DOMAIN NFSCapability /\ NFSCapability[r.nfs] \in p.caps
  PROVE  p \in PrimaryFilterFuncs(r, ps, linked)
<1> DEFINE placed == filterByVolumeType(r, filterByStoragePool(r, filterByBackendName(r, ps)))
           able == filterByQos(r, filterByAllocType(r, placed))
           paired == filterByReplication(r, filterByMetro(r, able, linked))
           limited == filterByStorageQuota(r, filterByApplicationType(r, paired))
<1>1. p \in placed
  BY Zenon DEF filterByVolumeType, filterByStoragePool, filterByBackendName
<1>2. p \in able
  <2> HIDE DEF placed
  <2>1. QED
    BY <1>1, Zenon DEF filterByQos, filterByAllocType
<1>3. p \in paired
  <2> HIDE DEF able
  <2>1. QED
    BY <1>2, Zenon DEF filterByReplication, filterByMetro
<1>4. p \in limited
  <2> HIDE DEF paired
  <2>1. QED
    BY <1>3, Zenon DEF filterByStorageQuota, filterByApplicationType
<1>5. p \in filterByNFSProtocol(r, filterBySupportClone(r, limited))
  <2> HIDE DEF limited
  <2>1. QED
    BY <1>4, Zenon DEF filterByNFSProtocol, filterBySupportClone
<1>6. QED
  BY <1>5 DEF PrimaryFilterFuncs

(* And the secondary filters.                                              *)
LEMMA SecondaryKeeps ==
  ASSUME NEW r, NEW ps, NEW p \in ps, p.storage \in StoragesOf(r.volumeType), Allocates(r.alloc, p.caps),
         r.qos = "" \/ ("SupportQoS" \in p.caps /\ r.qos \in p.qos), ~ r.repl,
         r.app => "SupportApplicationType" \in p.caps
  PROVE  p \in SecondaryFilterFuncs(r, ps)
  BY Zenon DEF SecondaryFilterFuncs, filterByApplicationType, filterByReplication, filterByQos, filterByAllocType,
               filterByVolumeType

(* What is asked of the remote backend.                                    *)
RemoteDemands(r) == Demands(r) \ {"SupportMetro", "SupportQuota", "SupportClone"}

(* What a backend that meets the demands of a local pool can do.           *)
LEMMA LocalDemandsMet ==
  ASSUME NEW r, NEW caps, Demands(r) \subseteq caps
  PROVE  /\ r.metro => "SupportMetro" \in caps
         /\ r.quota # "" => "SupportQuota" \in caps
         /\ r.source => "SupportClone" \in caps
  BY DEF Demands

(* No backend is being registered, changed or removed, and all are cached, *)
(* available and linked.                                                   *)
AtRest ==
  /\ left.offs = 0 /\ left.dels = 0
  /\ \A g \in Workers : reg[g].pc = "idle"
  /\ \A n \in Names : /\ off[n].pc = "idle"
                      /\ Cached(n) /\ cache[n].avail
                      /\ (\E m \in Names : Partners(scn.conf, n, m)) => cache[n].metro # Nil

(* The builds have the capabilities and the capacity the array reports.    *)
Read ==
  \A b \in 1 .. Len(objs) : /\ objs[b].caps = scn.conf[objs[b].of].caps
                            /\ objs[b].free = Statistics(objs[b].of)

(* The local pools of a selection are the ones that serve the request.     *)
Picked(r, w) ==
  /\ \A c \in w.local : <<Of(c), c.name>> \in Seen(r)
  /\ \A d \in Seen(r) : [build |-> cache[d[1]].build, name |-> d[2]] \in w.local

(* What QuietSelectionIsBest says of a request that has been answered.     *)
Best(r, w) ==
  LET c == <<Of(w.answer[1]), w.answer[1].name>>
  IN  /\ ~ w.ok => \/ Seen(r) = {}
                   \/ r.metro /\ \E d \in Seen(r) : ~ ServesSecond(scn.conf, r, Conf(d[1]).metroBackend)
      /\ w.ok => /\ c \in Seen(r)
                 /\ \A d \in Seen(r) : Statistics(d[1])[d[2]] <= Statistics(c[1])[c[2]]

QuietFits(r, w) ==
  /\ w.pc # "done" => Read
  /\ w.pc \in {"remote", "weight"} => Picked(r, w)
  /\ w.pc = "done" => Best(r, w)

(* The strengthening of IInv for a cache that stays as it is.              *)
QuietInv == Quiet => AtRest /\ QuietFits(scn.reqs[1], sel[1])

(* The pools of a build whose statistics were read.                        *)
LEMMA PoolsRead ==
  ASSUME IInv, Read, NEW b \in 1 .. Len(objs), NEW p \in PoolsOf(b)
  PROVE  /\ p.of = objs[b].of /\ p.build = b /\ p.name \in DOMAIN scn.conf[p.of].free
         /\ p.caps = scn.conf[p.of].caps /\ p.free = Statistics(p.of)[p.name]
<1> DEFINE o == objs[b]
<1>1. o.caps = scn.conf[o.of].caps /\ o.free = Statistics(o.of)
  BY DEF Read
<1> HIDE DEF o
<1>2. PICK x \in DOMAIN o.free :
        p = [of |-> o.of, build |-> b, name |-> x, storage |-> Conf(o.of).storage, caps |-> o.caps,
             free |-> o.free[x], qos |-> Conf(o.of).qos, parent |-> Conf(o.of).parent]
  BY DEF PoolsOf, o
<1>3. p.of = o.of /\ p.build = b /\ p.name = x /\ p.caps = o.caps /\ p.free = o.free[x]
  BY <1>2
<1>4. o.of \in Names
  BY BuiltFields DEF IInv, Names, o
<1>5. DOMAIN o.free = DOMAIN scn.conf[o.of].free
  BY <1>1, <1>4, StatisticsRead DEF IInv
<1>6. QED
  BY <1>1, <1>2, <1>3, <1>5, Zenon DEF o

(* Every configured pool is among them, finitely many.                     *)
LEMMA PoolThere ==
  ASSUME IInv, Read, NEW b \in 1 .. Len(objs)
  PROVE  /\ \A x \in DOMAIN scn.conf[objs[b].of].free : \E p \in PoolsOf(b) : p.name = x
         /\ IsFiniteSet(PoolsOf(b)) /\ PoolsOf(b) # {}
         /\ \A p \in PoolsOf(b) : p.free \in Int
<1> DEFINE o == objs[b]
           F(x) == [of |-> o.of, build |-> b, name |-> x, storage |-> Conf(o.of).storage, caps |-> o.caps,
                    free |-> o.free[x], qos |-> Conf(o.of).qos, parent |-> Conf(o.of).parent]
<1>1. o.free = Statistics(o.of) /\ o.of \in Names
  BY BuiltFields DEF Read, IInv, Names
<1>2. /\ IsFiniteSet(DOMAIN o.free) /\ DOMAIN o.free # {} /\ DOMAIN o.free = DOMAIN scn.conf[o.of].free
      /\ o.free \in [DOMAIN o.free -> Int]
  <2>1. IsFiniteSet(DOMAIN scn.conf[o.of].free) /\ DOMAIN scn.conf[o.of].free # {}
    BY <1>1, ScenariosAssumption DEF IInv, Names
  <2>2. QED
    BY <1>1, <2>1, StatisticsRead DEF IInv
<1>3. PoolsOf(b) = {F(x) : x \in DOMAIN o.free}
  BY DEF PoolsOf
<1> HIDE DEF o
<1>4. \A x \in DOMAIN o.free : F(x).name = x /\ F(x).free = o.free[x]
  OBVIOUS
<1> HIDE DEF F
<1>5. IsFiniteSet({F(x) : x \in DOMAIN o.free})
  <2> DEFINE T == {F(x) : x \in DOMAIN o.free}
             f == [x \in DOMAIN o.free |-> F(x)]
  <2>1. f \in Surjection(DOMAIN o.free, T)
    BY DEF Surjection
  <2> HIDE DEF f, T
  <2>2. IsFiniteSet(T)
    BY <1>2, <2>1, FS_Surjection
  <2>3. QED
    BY <2>2 DEF T
<1>6. /\ \A x \in DOMAIN o.free : \E p \in PoolsOf(b) : p.name = x
      /\ PoolsOf(b) # {}
      /\ \A p \in PoolsOf(b) : p.free \in Int
  BY <1>2, <1>3, <1>4
<1>7. QED
  BY <1>2, <1>3, <1>5, <1>6 DEF o

(* The pool SelectWeightPools weighs for a pool that was picked.           *)
LEMMA CurrentIs ==
  ASSUME IInv, Read, NEW c, PoolFits(scn.conf, objs, c)
  PROVE  Pool(Current(c)) = c /\ Current(c).free = Statistics(Of(c))[c.name]
<1>1. /\ c.build \in 1 .. Len(objs) /\ c.name \in DOMAIN scn.conf[objs[c.build].of].free
      /\ c = [build |-> c.build, name |-> c.name]
  BY DEF PoolFits
<1> DEFINE p == Current(c)
<1>2. p \in PoolsOf(c.build) /\ p.name = c.name
  BY <1>1, PoolThere DEF Current
<1> HIDE DEF p
<1>3. Pool(p) = [build |-> c.build, name |-> p.name]
  BY <1>1, <1>2, PoolsShow
<1>4. p.of = objs[c.build].of /\ p.free = Statistics(p.of)[p.name]
  BY <1>1, <1>2, PoolsRead
<1>5. QED
  BY <1>1, <1>2, <1>3, <1>4, Zenon DEF p, Of

(* The builds of the cached backends.                                      *)
LEMMA CachedBuild ==
  ASSUME IInv, NEW n \in Names, Cached(n)
  PROVE  cache[n].build \in 1 .. Len(objs) /\ objs[cache[n].build].of = n
<1>1. CopyFits(scn.conf, objs, n, cache[n]) /\ Len(objs) \in Nat
  BY ListLen DEF IInv, CacheInv
<1>2. QED
  BY <1>1 DEF CopyFits, Cached, Nil

(* The metro backend of a cached copy is that of its partner.              *)
LEMMA LinkedBuild ==
  ASSUME IInv, NEW n \in Names, cache[n].metro # Nil
  PROVE  /\ cache[n].metro \in 1 .. Len(objs) /\ objs[cache[n].metro].of \in Names
         /\ Partners(scn.conf, n, objs[cache[n].metro].of)
         /\ scn.conf[n].metroBackend = objs[cache[n].metro].of
<1> DEFINE m == cache[n].metro
<1>1. CopyFits(scn.conf, objs, n, cache[n]) /\ Len(objs) \in Nat
  BY ListLen DEF IInv, CacheInv
<1>2. m \in 1 .. Len(objs) /\ Partners(scn.conf, n, objs[m].of)
  BY <1>1 DEF CopyFits, Nil
<1>3. objs[m].of \in Names
  <2>1. objs[m] \in Built(scn.conf)
    BY <1>2 DEF IInv
  <2>2. QED
    BY <2>1, BuiltFields DEF Names
<1>4. QED
  BY <1>2, <1>3 DEF Partners

(* A backend that serves the request is not overlooked, and the others     *)
(* that the docs have serve it are.                                        *)
LEMMA SeenServes ==
  ASSUME NEW conf, NEW r, NEW n
  PROVE  ServesFirst(conf, r, n) <=> ServesAsDocumented(conf, r, n) /\ ~ Overlooked(conf, r, n)
<1>1. ServesFirst(conf, r, n) => ~ Overlooked(conf, r, n)
  BY Zenon DEF ServesFirst, Serves, Overlooked
<1>2. QED
  BY <1>1, Zenon DEF ServesAsDocumented

(* What is seen is a matter of the configuration.                          *)
LEMMA SeenSame ==
  ASSUME scn' = scn
  PROVE  Seen(scn.reqs[1])' = Seen(scn.reqs[1]) /\ \A n : Statistics(n)' = Statistics(n)
  BY DEF Seen, Serving, Names, Conf, Statistics

(* A pool that is seen is a configured one of a backend that serves,       *)
LEMMA ServingGives ==
  ASSUME NEW r, NEW d \in Seen(r)
  PROVE  /\ d[1] \in Names /\ ServesFirst(scn.conf, r, d[1]) /\ d[2] \in DOMAIN scn.conf[d[1]].free
         /\ r.pool \in {"", d[2]} /\ (r.alloc = "thick" => r.size <= Statistics(d[1])[d[2]])
         /\ r.metro => \E m \in Names : Partners(scn.conf, d[1], m)
<1>1. /\ \E n \in Names : ServesAsDocumented(scn.conf, r, n) /\ d \in {n} \X DOMAIN Conf(n).free
      /\ r.pool \in {"", d[2]} /\ (r.alloc = "thick" => r.size <= Statistics(d[1])[d[2]])
      /\ r.metro => \E m \in Names : Partners(scn.conf, d[1], m)
      /\ ~ Overlooked(scn.conf, r, d[1])
  BY Zenon DEF Seen, Serving
<1>2. PICK n \in Names : ServesAsDocumented(scn.conf, r, n) /\ d \in {n} \X DOMAIN Conf(n).free
  BY <1>1
<1>3. d[1] = n /\ d[2] \in DOMAIN Conf(n).free
  BY <1>2
<1>4. ServesFirst(scn.conf, r, d[1])
  BY <1>1, <1>2, <1>3, SeenServes, Zenon
<1>5. QED
  BY <1>1, <1>3, <1>4, Zenon DEF Conf

(* and has the capacity and, for hyperMetro, a partner; and every such     *)
(* pool is seen.                                                           *)
LEMMA ServingTakes ==
  ASSUME NEW r, NEW n \in Names, NEW x \in DOMAIN scn.conf[n].free, ServesFirst(scn.conf, r, n),
         r.pool \in {"", x}, r.alloc = "thick" => r.size <= Statistics(n)[x],
         r.metro => \E m \in Names : Partners(scn.conf, n, m)
  PROVE  <<n, x>> \in Seen(r)
<1> DEFINE d == <<n, x>>
<1>1. d[1] = n /\ d[2] = x /\ d \in {n} \X DOMAIN Conf(n).free
  BY DEF Conf
<1> HIDE DEF d
<1>2. ServesAsDocumented(scn.conf, r, n) /\ ~ Overlooked(scn.conf, r, d[1])
  BY <1>1, SeenServes, Zenon
<1>3. d \in UNION {{k} \X (DOMAIN Conf(k).free) : k \in {k \in Names : ServesAsDocumented(scn.conf, r, k)}}
  BY <1>1, <1>2, Zenon
<1>4. /\ r.pool \in {"", d[2]} /\ (r.alloc = "thick" => r.size <= Statistics(d[1])[d[2]])
      /\ r.metro => \E m \in Names : Partners(scn.conf, d[1], m)
  BY <1>1, Zenon
<1>5. d \in Seen(r)
  BY <1>2, <1>3, <1>4, Zenon DEF Seen, Serving
<1>6. QED
  BY <1>5 DEF d

(* What SelectLocalPool is left with.                                      *)
Left(r) ==
  selectDtreePool(r, FilterByCapacity(r,
      FilterByTopology(r, PrimaryFilterFuncs(r, LoadCacheStoragePools, Linked), Supported)))

(* Each of those pools serves the request                                  *)
LEMMA LeftIsServing ==
  ASSUME IInv, Read, NEW r, NEW p \in Left(r)
  PROVE  <<Of(Pool(p)), Pool(p).name>> \in Seen(r)
<1> DEFINE ls == PrimaryFilterFuncs(r, LoadCacheStoragePools, Linked)
           ps == FilterByTopology(r, ls, Supported)
<1>1. /\ p \in ps /\ Allocates(r.alloc, p.caps) /\ (r.alloc = "thick" => r.size <= p.free)
      /\ (r.volumeType = "dtree" /\ ~ r.parent => p.parent)
  <2> HIDE DEF ps
  <2>1. p \in selectDtreePool(r, FilterByCapacity(r, ps))
    BY DEF Left, ps
  <2>2. QED
    BY <2>1, Zenon DEF selectDtreePool, FilterByCapacity
<1>2. p \in ls /\ (r.requisite # {} => \E t \in r.requisite : Reaches(scn.conf, p.of, t))
  <2> HIDE DEF ls
  <2>1. QED
    BY <1>1, TopologyLeaves, Zenon
<1> HIDE DEF ps
<1>3. p \in LoadCacheStoragePools /\ (r.metro => p.of \in Linked) /\ r.pool \in {"", p.name}
  BY <1>2, PrimaryLeaves, Zenon
<1>4. PICK n \in Names : Cached(n) /\ p \in PoolsOf(cache[n].build)
  BY <1>3 DEF LoadCacheStoragePools
<1> DEFINE b == cache[n].build
<1>5. b \in 1 .. Len(objs) /\ objs[b].of = n
  BY <1>4, CachedBuild
<1> HIDE DEF b, ls
<1>6. /\ p.of = n /\ p.build = b /\ p.name \in DOMAIN scn.conf[n].free
      /\ p.free = Statistics(n)[p.name]
  <2>1. /\ p.of = objs[b].of /\ p.build = b /\ p.name \in DOMAIN scn.conf[p.of].free
        /\ p.free = Statistics(p.of)[p.name]
    BY <1>4, <1>5, PoolsRead, Zenon DEF b
  <2>2. QED
    BY <1>5, <2>1
<1>7. LocalFits(scn.conf, objs, r, Pool(p))
  BY <1>1, <1>2, <1>4, <1>5, LocalServes, Zenon DEF b, ls
<1>8. Pool(p).name = p.name /\ Of(Pool(p)) = n
  BY <1>5, <1>6 DEF Pool, Of
<1>9. ServesFirst(scn.conf, r, n)
  BY <1>7, <1>8, Zenon DEF LocalFits, Of
<1>10. r.metro => \E m \in Names : Partners(scn.conf, n, m)
  BY <1>3, <1>6, LinkedBuild DEF Linked
<1>11. r.alloc = "thick" => r.size <= Statistics(n)[p.name]
  BY <1>1, <1>6 DEF Conf
<1>12. <<n, p.name>> \in Seen(r)
  BY <1>3, <1>6, <1>9, <1>10, <1>11, ServingTakes, Zenon DEF Conf
<1>13. QED
  BY <1>8, <1>12, Zenon

(* and, where the cache is at rest, none that does is left out.            *)
LEMMA ServingIsLeft ==
  ASSUME IInv, Read, AtRest, NEW i \in DOMAIN scn.reqs, NEW d \in Seen(scn.reqs[i])
  PROVE  \E p \in Left(scn.reqs[i]) : Pool(p) = [build |-> cache[d[1]].build, name |-> d[2]]
<1> DEFINE r == scn.reqs[i]
           n == d[1]
           x == d[2]
           b == cache[n].build
<1>1. r.quota \in {"", "valid", "invalid"}
  BY ScenariosAssumption DEF IInv
<1> HIDE DEF r
<1>2. /\ n \in Names /\ ServesFirst(scn.conf, r, n) /\ x \in DOMAIN scn.conf[n].free
      /\ r.pool \in {"", x} /\ (r.alloc = "thick" => r.size <= Statistics(n)[x])
      /\ r.metro => \E m \in Names : Partners(scn.conf, n, m)
  BY ServingGives, Zenon DEF r
<1> HIDE DEF n, x
<1>3. Cached(n) /\ cache[n].avail /\ (r.metro => n \in Linked)
  BY <1>2 DEF AtRest, Linked
<1>4. b \in 1 .. Len(objs) /\ objs[b].of = n
  BY <1>2, <1>3, CachedBuild
<1>5. PICK p \in PoolsOf(b) : p.name = x
  <2> HIDE DEF b
  <2>1. QED
    BY <1>2, <1>4, PoolThere
<1>6. /\ p.of = n /\ ShowsBackend(scn.conf, p) /\ Pool(p) = [build |-> b, name |-> x]
      /\ p.caps = scn.conf[n].caps /\ p.free = Statistics(n)[x]
  <2> HIDE DEF b
  <2>1. /\ p.of = objs[b].of /\ ShowsBackend(scn.conf, p) /\ Pool(p) = [build |-> b, name |-> p.name]
        /\ p.caps = scn.conf[p.of].caps /\ p.free = Statistics(p.of)[p.name]
    BY <1>4, <1>5, PoolsShow, PoolsRead, Zenon
  <2>2. QED
    BY <1>4, <1>5, <2>1
<1>7. p \in LoadCacheStoragePools
  BY <1>2, <1>3, <1>5 DEF LoadCacheStoragePools
<1> HIDE DEF b
<1>8. /\ Serves(scn.conf, r, n) /\ Demands(r) \subseteq p.caps /\ ~ r.repl /\ r.quota # "invalid"
      /\ r.backend \in {"", n}
      /\ r.nfs # "" /\ p.storage # "oceanstor-a-series-nas-dme" =>
            r.nfs \in DOMAIN NFSCapability /\ NFSCapability[r.nfs] \in p.caps
      /\ r.volumeType = "dtree" /\ ~ r.parent => p.parent
  BY <1>2, <1>6, Zenon DEF ServesFirst, ShowsBackend
<1>9. /\ p.storage \in StoragesOf(r.volumeType)
      /\ r.requisite # {} => \E t \in r.requisite : Reaches(scn.conf, n, t)
      /\ r.qos # "" => r.qos \in p.qos
      /\ r.alloc \in {"", "thin", "thick"}
  BY <1>6, <1>8, Zenon DEF Serves, ShowsBackend
<1>10. /\ Allocates(r.alloc, p.caps)
       /\ r.qos # "" => "SupportQoS" \in p.caps
       /\ r.app => "SupportApplicationType" \in p.caps
  <2>1. RemoteDemands(r) \subseteq p.caps
    BY <1>8 DEF RemoteDemands
  <2>2. QED
    BY <1>9, <2>1 DEF RemoteDemands, Demands, Allocates
<1>11. /\ r.metro => "SupportMetro" \in p.caps
       /\ r.quota # "" => "SupportQuota" \in p.caps
       /\ r.source => "SupportClone" \in p.caps
  BY <1>8, LocalDemandsMet
<1>12. r.quota = "" \/ r.quota = "valid"
  BY <1>1, <1>8
<1> DEFINE ls == PrimaryFilterFuncs(r, LoadCacheStoragePools, Linked)
           ps == FilterByTopology(r, ls, Supported)
<1>13. p \in ls
  <2>1. r.backend \in {"", p.of} /\ r.pool \in {"", p.name}
    BY <1>2, <1>5, <1>6, <1>8, Zenon
  <2>2. r.metro => p.of \in Linked /\ "SupportMetro" \in p.caps
    BY <1>3, <1>6, <1>11, Zenon
  <2>3. /\ r.qos = "" \/ ("SupportQoS" \in p.caps /\ r.qos \in p.qos)
        /\ r.quota = "" \/ ("SupportQuota" \in p.caps /\ r.quota = "valid")
    BY <1>9, <1>10, <1>11, <1>12, Zenon
  <2>4. QED
    BY <1>7, <1>8, <1>9, <1>10, <1>11, <2>1, <2>2, <2>3, PrimaryKeeps, Zenon
<1> HIDE DEF ls
<1>14. p \in ps
  BY <1>2, <1>3, <1>6, <1>9, <1>13, TopologyKeeps, Zenon
<1> HIDE DEF ps
<1>15. p \in selectDtreePool(r, FilterByCapacity(r, ps))
  BY <1>2, <1>6, <1>8, <1>10, <1>14, Zenon DEF selectDtreePool, FilterByCapacity
<1>16. p \in Left(r)
  BY <1>15 DEF Left, ps, ls
<1>17. QED
  BY <1>6, <1>16 DEF r, n, x, b

(* A backend's pool that can serve the request as the remote one is left   *)
(* by SelectRemotePool's filters.                                          *)
LEMMA SecondIsLeft ==
  ASSUME IInv, Read, AtRest, NEW r, ~ r.repl, NEW b \in 1 .. Len(objs), ServesSecond(scn.conf, r, objs[b].of)
  PROVE  FilterByTopology(r, SecondaryFilterFuncs(r, PoolsOf(b)), Supported) # {}
<1> DEFINE n == objs[b].of
           ss == SecondaryFilterFuncs(r, PoolsOf(b))
<1>1. PICK p \in PoolsOf(b) : TRUE
  BY PoolThere
<1>2. /\ p.of = n /\ n \in Names /\ ShowsBackend(scn.conf, p) /\ p.caps = scn.conf[p.of].caps
  BY <1>1, PoolsShow, PoolsRead, Zenon
<1>3. Serves(scn.conf, r, p.of) /\ RemoteDemands(r) \subseteq p.caps
  BY <1>2 DEF ServesSecond, RemoteDemands
<1> HIDE DEF n
<1>4. /\ p.storage \in StoragesOf(r.volumeType)
      /\ r.requisite # {} => \E t \in r.requisite : Reaches(scn.conf, p.of, t)
      /\ r.qos # "" => r.qos \in p.qos
      /\ r.alloc \in {"", "thin", "thick"}
  BY <1>2, <1>3, Zenon DEF Serves, ShowsBackend
<1>5. /\ Allocates(r.alloc, p.caps)
      /\ r.qos # "" => "SupportQoS" \in p.caps
      /\ r.app => "SupportApplicationType" \in p.caps
  BY <1>3, <1>4 DEF RemoteDemands, Demands, Allocates
<1>6. p \in ss
  BY <1>1, <1>4, <1>5, SecondaryKeeps, Zenon
<1>7. p.of \in Names /\ Cached(p.of)
  BY <1>2 DEF AtRest
<1> HIDE DEF ss
<1>8. p \in FilterByTopology(r, ss, Supported)
  BY <1>4, <1>6, <1>7, TopologyKeeps, Zenon
<1>9. QED
  BY <1>8 DEF ss

(* Where the cache is at rest, a local pool that serves the request is     *)
(* given no remote pool only if the partner of its backend does not serve. *)
LEMMA NoRemoteIsUnserved ==
  ASSUME IInv, Read, AtRest, NEW i \in DOMAIN scn.reqs, NEW n \in Names, ServesFirst(scn.conf, scn.reqs[i], n),
         scn.reqs[i].metro => \E m \in Names : Partners(scn.conf, n, m),
         SelectRemotePool(scn.reqs[i], n) = {}
  PROVE  scn.reqs[i].metro /\ ~ ServesSecond(scn.conf, scn.reqs[i], scn.conf[n].metroBackend)
<1> DEFINE r == scn.reqs[i]
           m == cache[n].metro
           ps == FilterByTopology(r, SecondaryFilterFuncs(r, PoolsOf(m)), Supported)
           qs == FilterByCapacity(r, ps)
           ws == weightByFreeCapacity(r, qs, AllTopologies)
<1>1. DOMAIN r.preferred = 1 .. Len(r.preferred) /\ Len(r.preferred) \in Nat
  BY ScenariosAssumption DEF IInv
<1> HIDE DEF r
<1>2. ~ r.repl
  BY Zenon DEF ServesFirst, r
<1>3. r.metro
  <2> SUFFICES ASSUME ~ r.metro PROVE FALSE
    OBVIOUS
  <2>1. SelectRemotePool(r, n) = {NoPool}
    BY DEF SelectRemotePool
  <2>2. QED
    BY <2>1 DEF r
<1>4. Cached(n) /\ m # Nil
  BY <1>3 DEF AtRest, r
<1>5. m \in 1 .. Len(objs) /\ scn.conf[n].metroBackend = objs[m].of
  BY <1>4, LinkedBuild
<1>6. SelectRemotePool(r, n) = IF ~ Cached(n) \/ m = Nil \/ ps = {} THEN {}
                               ELSE IF qs = {} THEN {NoPool}
                               ELSE {Pool(p) : p \in ws}
  <2> HIDE DEF ws
  <2>1. QED
    BY <1>2, <1>3 DEF SelectRemotePool, ws
<1> HIDE DEF m
<1>7. ASSUME qs # {} PROVE ws # {}
  <2>1. qs \subseteq ps
    <3> HIDE DEF ps
    <3>1. QED
      BY DEF FilterByCapacity
  <2>2. ps \subseteq PoolsOf(m)
    <3>1. ASSUME NEW p \in ps PROVE p \in PoolsOf(m)
      <4>1. p \in SecondaryFilterFuncs(r, PoolsOf(m))
        BY TopologyLeaves, Zenon
      <4>2. QED
        BY <4>1, SecondaryLeaves, Zenon
    <3> HIDE DEF ps
    <3>2. QED
      BY <3>1
  <2> HIDE DEF ps, qs
  <2>3. IsFiniteSet(qs) /\ \A p \in qs : p.free \in Int
    BY <1>5, <2>1, <2>2, PoolThere, FS_Subset
  <2>4. QED
    BY <1>1, <1>7, <2>3, OneIsFirst
<1> HIDE DEF ps, qs, ws
<1>8. SelectRemotePool(r, n) = {}
  BY DEF r
<1>9. ps = {}
  BY <1>4, <1>6, <1>7, <1>8
<1>10. ~ ServesSecond(scn.conf, r, objs[m].of)
  BY <1>2, <1>5, <1>9, SecondIsLeft, Zenon DEF ps
<1>11. QED
  BY <1>3, <1>5, <1>10 DEF r

(***************************************************************************)
(* The steps, where the cache stays as it is.                              *)
(***************************************************************************)

(* The only request of a quiet scenario.                                   *)
LEMMA OneRequest ==
  ASSUME IInv, Quiet
  PROVE  DOMAIN scn.reqs = {1} /\ DOMAIN sel = {1} /\ SelFits(scn.conf, objs, scn.reqs[1], sel[1])
<1>1. DOMAIN scn.reqs = 1 .. Len(scn.reqs)
  BY ScenariosAssumption DEF IInv
<1>2. DOMAIN scn.reqs = {1}
  BY <1>1 DEF Quiet
<1>3. QED
  BY <1>2 DEF IInv, SelInv

(* Only the selection of that request has a step.                          *)
LEMMA OnlySelects ==
  ASSUME IInv, QuietInv, Quiet, Next
  PROVE  Select(1)
<1>1. DOMAIN scn.reqs = {1}
  BY OneRequest
<1>2. AtRest
  BY DEF QuietInv
<1>3. ASSUME NEW g \in Workers
      PROVE  ~ Register(g)
  <2>1. reg[g].pc = "idle" /\ Cached(For(g)) /\ ~ scn.refresh /\ (g \in Names => Cached(g))
    BY <1>2, ForName DEF AtRest, Quiet
  <2>2. ~ LoadOrRegisterOneBackend(g) /\ ~ UpdateAndAddBackend(g)
    BY <2>1 DEF LoadOrRegisterOneBackend, UpdateAndAddBackend
  <2>3. /\ ~ UpdateCacheBackend(g) /\ ~ updateCacheBackend(g)
        /\ ~ ListForMetro(g) /\ ~ StoreFirst(g) /\ ~ StoreSecond(g)
    BY <2>1 DEF UpdateCacheBackend, updateCacheBackend, ListForMetro, StoreFirst, StoreSecond
  <2>4. QED
    BY <2>2, <2>3, Zenon DEF Register
<1>a. ASSUME NEW n \in Names
      PROVE  ~ UpdateCacheBackendStatus(n) /\ ~ Delete(n)
  <2>1. off[n].pc = "idle" /\ ~ (left.dels > 0)
    BY <1>2 DEF AtRest
  <2>2. QED
    BY <2>1 DEF UpdateCacheBackendStatus, Delete
<1>4. ASSUME NEW n \in Names, NEW online \in BOOLEAN
      PROVE  ~ LoadForStatus(n, online)
  <2>1. ~ (left.offs > 0)
    BY <1>2 DEF AtRest
  <2>2. QED
    BY <2>1, Zenon DEF LoadForStatus
<1>5. \E i \in DOMAIN scn.reqs : Select(i)
  BY <1>3, <1>a, <1>4, Zenon DEF Next
<1>6. QED
  BY <1>1, <1>5, Zenon

(* The local pools are listed and filtered.                                *)
LEMMA QuietSelectLocalPool ==
  ASSUME IInv, QuietInv, Quiet, SelectLocalPool(1)
  PROVE  QuietInv'
<1> DEFINE r == scn.reqs[1]
           qs == Left(r)
           v == [sel[1] EXCEPT !.pc = "remote", !.local = {Pool(p) : p \in qs}]
           w == IF qs = {} THEN [Waiting EXCEPT !.pc = "done"] ELSE v
<1>1. /\ UNCHANGED <<scn, cache, objs, reg, off, left>> /\ sel[1].pc = "wait"
      /\ sel' = [sel EXCEPT ![1] = w]
  BY DEF SelectLocalPool, Refuse, Left
<1>2. AtRest /\ Read /\ 1 \in DOMAIN scn.reqs /\ 1 \in DOMAIN sel /\ SelFits(scn.conf, objs, r, sel[1])
  BY <1>1, OneRequest DEF QuietInv, QuietFits
<1>3. AtRest' /\ Read' /\ sel'[1] = w /\ scn' = scn /\ objs' = objs /\ cache' = cache
  BY <1>1, <1>2 DEF AtRest, Read, Names, Workers, Cached, Statistics, Conf
<1>4. CASE qs = {}
  <2>1. w.pc = "done" /\ ~ w.ok
    BY <1>4 DEF Waiting
  <2>2. Seen(r) = {}
    <3>1. ASSUME NEW d \in Seen(r) PROVE FALSE
      <4>1. \E p \in qs : Pool(p) = [build |-> cache[d[1]].build, name |-> d[2]]
        BY <1>2, ServingIsLeft
      <4>2. QED
        BY <1>4, <4>1
    <3>2. QED
      BY <3>1
  <2>3. Seen(r)' = Seen(r)
    BY <1>3, SeenSame
  <2> HIDE DEF w
  <2>4. QED
    BY <1>3, <2>1, <2>2, <2>3 DEF QuietInv, QuietFits, Best
<1>5. CASE qs # {}
  <2>1. v.pc = "remote" /\ v.local = {Pool(p) : p \in qs} /\ w = v
    BY <1>2, <1>5 DEF SelFits
  <2>2. ASSUME NEW c \in v.local PROVE <<Of(c), c.name>> \in Seen(r)
    BY <1>2, <2>1, LeftIsServing
  <2>3. ASSUME NEW d \in Seen(r) PROVE [build |-> cache[d[1]].build, name |-> d[2]] \in v.local
    BY <1>2, <2>1, ServingIsLeft
  <2>4. Seen(scn.reqs[1])' = Seen(scn.reqs[1])
    BY <1>3, SeenSame
  <2>5. sel'[1].pc = "remote" /\ sel'[1].local = v.local
    BY <1>3, <2>1
  <2> HIDE DEF v, w
  <2>6. Picked(scn.reqs[1], sel[1])'
    BY <1>3, <2>2, <2>3, <2>4, <2>5 DEF Picked, Of
  <2>7. QED
    BY <1>3, <2>5, <2>6 DEF QuietInv, QuietFits
<1>6. QED
  BY <1>4, <1>5

(* Each local pool is given a remote one, or the request is refused.       *)
LEMMA QuietSelectPoolPair ==
  ASSUME IInv, QuietInv, Quiet, SelectPoolPair(1)
  PROVE  QuietInv'
<1> DEFINE r == scn.reqs[1]
           remotes == [c \in sel[1].local |-> SelectRemotePool(r, Of(c))]
<1>1. UNCHANGED <<scn, cache, objs, reg, off, left>> /\ sel[1].pc = "remote"
  BY DEF SelectPoolPair
<1>2. /\ AtRest /\ Read /\ Picked(r, sel[1]) /\ 1 \in DOMAIN scn.reqs /\ 1 \in DOMAIN sel
      /\ SelFits(scn.conf, objs, r, sel[1])
  BY <1>1, OneRequest DEF QuietInv, QuietFits
<1>3. AtRest' /\ Read' /\ scn' = scn /\ objs' = objs /\ cache' = cache
  BY <1>1, <1>2 DEF AtRest, Read, Names, Workers, Cached, Statistics, Conf
<1>4. Seen(scn.reqs[1])' = Seen(scn.reqs[1])
  BY <1>3, SeenSame
<1>5. CASE \E c \in sel[1].local : remotes[c] = {}
  <2>1. sel' = [sel EXCEPT ![1] = [Waiting EXCEPT !.pc = "done"]]
    BY <1>5 DEF SelectPoolPair, Refuse
  <2>2. sel'[1].pc = "done" /\ ~ sel'[1].ok
    BY <1>2, <2>1 DEF Waiting
  <2>3. PICK c \in sel[1].local : SelectRemotePool(r, Of(c)) = {}
    BY <1>5
  <2> DEFINE d == <<Of(c), c.name>>
  <2>4. d \in Seen(r) /\ d[1] = Of(c)
    BY <1>2, <2>3 DEF Picked
  <2> HIDE DEF d
  <2>5. d[1] \in Names /\ ServesFirst(scn.conf, r, d[1]) /\ (r.metro => \E m \in Names : Partners(scn.conf, d[1], m))
    BY <2>4, ServingGives, Zenon
  <2>6. r.metro /\ ~ ServesSecond(scn.conf, r, scn.conf[d[1]].metroBackend)
    <3>1. SelectRemotePool(r, d[1]) = {}
      BY <2>3, <2>4, Zenon
    <3>2. QED
      BY <1>2, <2>5, <3>1, NoRemoteIsUnserved, Zenon
  <2>7. Best(scn.reqs[1], sel[1])'
    <3>1. r.metro /\ \E e \in Seen(r) : ~ ServesSecond(scn.conf, r, scn.conf[e[1]].metroBackend)
      BY <2>4, <2>6, Zenon
    <3>2. QED
      BY <1>3, <1>4, <2>2, <3>1, Zenon DEF Best, Conf
  <2>8. QED
    BY <1>3, <2>2, <2>7 DEF QuietInv, QuietFits
<1>6. CASE ~ \E c \in sel[1].local : remotes[c] = {}
  <2>1. PICK f \in [sel[1].local -> UNION {remotes[c] : c \in sel[1].local}] :
          /\ \A c \in sel[1].local : f[c] \in remotes[c]
          /\ sel' = [sel EXCEPT ![1].pc = "weight", ![1].pairs = {<<c, f[c]>> : c \in sel[1].local}]
    BY <1>6 DEF SelectPoolPair
  <2>2. sel'[1].pc = "weight" /\ sel'[1].local = sel[1].local
    BY <1>2, <2>1 DEF SelFits
  <2>3. Picked(scn.reqs[1], sel[1])'
    BY <1>2, <1>3, <1>4, <2>2 DEF Picked, Of
  <2>4. QED
    BY <1>3, <2>2, <2>3 DEF QuietInv, QuietFits
<1>7. QED
  BY <1>5, <1>6

(* Of the local pools the one with the most free capacity is taken.        *)
LEMMA QuietWeightPools ==
  ASSUME IInv, QuietInv, Quiet, WeightPools(1)
  PROVE  QuietInv'
<1> DEFINE r == scn.reqs[1]
           cs == {Current(c) : c \in sel[1].local}
<1>1. /\ UNCHANGED <<scn, cache, reg, off, left>> /\ sel[1].pc = "weight"
  BY DEF WeightPools
<1>2. PICK p \in weightByFreeCapacity(r, cs, AllTopologies), pair \in sel[1].pairs :
        /\ pair[1] = Pool(p)
        /\ objs' = updateSelectPool(r, objs, pair)
        /\ sel' = [sel EXCEPT ![1] = [Waiting EXCEPT !.pc = "done", !.answer = pair, !.ok = TRUE]]
  BY Zenon DEF WeightPools
<1>3. /\ AtRest /\ Read /\ Picked(r, sel[1]) /\ 1 \in DOMAIN scn.reqs /\ 1 \in DOMAIN sel
      /\ SelFits(scn.conf, objs, r, sel[1])
  BY <1>1, OneRequest DEF QuietInv, QuietFits
<1>4. AtRest' /\ scn' = scn /\ cache' = cache
  BY <1>1, <1>3 DEF AtRest, Names, Workers, Cached
<1>5. Seen(scn.reqs[1])' = Seen(scn.reqs[1])
  BY <1>4, SeenSame
<1>6. sel'[1].pc = "done" /\ sel'[1].ok /\ sel'[1].answer = pair
  BY <1>2, <1>3 DEF Waiting
<1>7. ASSUME NEW c \in sel[1].local
      PROVE  PoolFits(scn.conf, objs, c) /\ Pool(Current(c)) = c /\ Current(c).free = Statistics(Of(c))[c.name]
  <2>1. LocalFits(scn.conf, objs, r, c)
    BY <1>1, <1>3 DEF SelFits
  <2>2. PoolFits(scn.conf, objs, c)
    BY <2>1, Zenon DEF LocalFits
  <2>3. QED
    BY <1>3, <2>2, CurrentIs
<1>8. PICK c \in sel[1].local : p = Current(c)
  BY <1>2 DEF weightByFreeCapacity
<1>9. pair[1] = c /\ p.free = Statistics(Of(c))[c.name] /\ <<Of(c), c.name>> \in Seen(r)
  BY <1>2, <1>3, <1>7, <1>8 DEF Picked
<1>10. \A q \in cs : q.free <= p.free
  <2> HIDE DEF cs
  <2>1. QED
    BY <1>2 DEF weightByFreeCapacity
<1>11. ASSUME NEW d \in Seen(r)
       PROVE  Statistics(d[1])[d[2]] <= Statistics(Of(c))[c.name]
  <2> DEFINE e == [build |-> cache[d[1]].build, name |-> d[2]]
  <2>1. e \in sel[1].local /\ e.name = d[2]
    BY <1>3 DEF Picked
  <2>2. d[1] \in Names
    BY ServingGives, Zenon
  <2>3. Of(e) = d[1]
    BY <1>3, <2>2, CachedBuild DEF AtRest, Of
  <2> HIDE DEF e
  <2>4. Current(e) \in cs /\ Current(e).free = Statistics(d[1])[d[2]]
    BY <1>7, <2>1, <2>3
  <2>5. QED
    BY <1>9, <1>10, <2>4
<1>12. Of(c)' = Of(c)
  <2>1. c.build \in 1 .. Len(objs)
    BY <1>7 DEF PoolFits
  <2>2. Grown(objs, objs')
    BY <1>3, WeightGrows DEF GrownStep
  <2>3. QED
    BY <2>1, <2>2 DEF Of, Grown
<1>13. Best(scn.reqs[1], sel[1])'
  <2>1. <<Of(c), c.name>>[1] = Of(c) /\ <<Of(c), c.name>>[2] = c.name
    OBVIOUS
  <2>2. sel'[1].answer[1] = c
    BY <1>6, <1>9
  <2>3. QED
    BY <1>4, <1>5, <1>6, <1>9, <1>11, <1>12, <2>1, <2>2, SeenSame DEF Best, Conf, Of
<1>14. QED
  BY <1>4, <1>6, <1>13 DEF QuietInv, QuietFits

(* At the start every backend that is up is cached, available and linked.  *)
LEMMA QuietInit == Init => QuietInv
<1> SUFFICES ASSUME Init, Quiet PROVE AtRest /\ QuietFits(scn.reqs[1], sel[1])
  BY DEF QuietInv
<1> DEFINE U == {scn.up[k] : k \in DOMAIN scn.up}
           up == [n \in U |-> CHOOSE k \in DOMAIN scn.up : scn.up[k] = n]
<1>1. /\ scn \in Scenarios
      /\ cache = [n \in Names |-> Settled(up, n)]
      /\ objs = [k \in DOMAIN scn.up |->
                   [UpdatePools(NewBackend(scn.up[k])) EXCEPT
                       !.online = TRUE, !.remote = Settled(up, scn.up[k]).metro]]
      /\ reg = [g \in Workers |-> Idle] /\ off = [n \in Names |-> NotRunning]
      /\ sel = [i \in DOMAIN scn.reqs |-> Waiting] /\ left = [offs |-> scn.offs, dels |-> scn.dels]
  BY DEF Init
<1>2. IInv
  BY InitIInv
<1>3. DOMAIN scn.up = 1 .. Len(scn.up) /\ Len(scn.up) \in Nat
  <2>1. scn.up \in Seq(DOMAIN scn.conf)
    BY <1>1, ScenariosAssumption, Zenon
  <2>2. QED
    BY <2>1, ListLen
<1>4. ASSUME NEW n \in U PROVE up[n] \in 1 .. Len(scn.up)
  BY <1>3
<1>5. DOMAIN up = U /\ U = Names
  BY DEF Quiet
<1>6. ASSUME NEW n \in Names
      PROVE  /\ Cached(n) /\ cache[n].avail
             /\ (\E m \in Names : Partners(scn.conf, n, m)) => cache[n].metro # Nil
  <2> HIDE DEF up, U
  <2>1. Settled(up, n) = [build |-> up[n], avail |-> TRUE,
                          metro |-> IF \E m \in Names : Partners(scn.conf, n, m)
                                    THEN up[Conf(n).metroBackend] ELSE Nil]
    BY <1>5 DEF Settled
  <2>2. up[n] # Nil
    BY <1>4, <1>5 DEF Nil
  <2>3. (\E m \in Names : Partners(scn.conf, n, m)) => up[Conf(n).metroBackend] # Nil
    <3> SUFFICES ASSUME NEW m \in Names, Partners(scn.conf, n, m) PROVE up[Conf(n).metroBackend] # Nil
      OBVIOUS
    <3>1. Conf(n).metroBackend = m
      BY DEF Partners, Conf
    <3>2. up[m] # Nil
      BY <1>4, <1>5 DEF Nil
    <3>3. QED
      BY <3>1, <3>2
  <2>4. cache[n] = Settled(up, n)
    BY <1>1
  <2>5. cache[n].build = up[n] /\ cache[n].avail = TRUE
    BY <2>1, <2>4
  <2>6. (\E m \in Names : Partners(scn.conf, n, m)) => cache[n].metro = up[Conf(n).metroBackend]
    BY <2>1, <2>4
  <2>7. QED
    BY <2>2, <2>3, <2>5, <2>6, Zenon DEF Cached
<1>7. AtRest
  BY <1>1, <1>6 DEF AtRest, Idle, NotRunning, Quiet
<1>8. ASSUME NEW k \in 1 .. Len(objs)
      PROVE  objs[k].caps = scn.conf[objs[k].of].caps /\ objs[k].free = Statistics(objs[k].of)
  <2>1. k \in DOMAIN scn.up
    <3>1. DOMAIN objs = 1 .. Len(objs)
      BY <1>2, ListLen DEF IInv
    <3>2. DOMAIN objs = DOMAIN scn.up
      BY <1>1, Zenon
    <3>3. QED
      BY <3>1, <3>2
  <2> DEFINE n == scn.up[k]
             m == Settled(up, n).metro
  <2>2. objs[k] = [UpdatePools(NewBackend(n)) EXCEPT !.online = TRUE, !.remote = m]
    BY <1>1, <2>1
  <2> HIDE DEF n, m
  <2>3. QED
    BY <2>2 DEF UpdatePools, NewBackend, Conf, Statistics
<1>9. sel[1].pc = "wait"
  BY <1>1, <1>2, OneRequest DEF Waiting
<1>10. QED
  BY <1>7, <1>8, <1>9 DEF QuietFits, Read

(* Every step keeps it.                                                    *)
LEMMA QuietNext == IInv /\ QuietInv /\ [Next]_vars => QuietInv'
<1> SUFFICES ASSUME IInv, QuietInv, [Next]_vars PROVE QuietInv'
  OBVIOUS
<1>1. CASE UNCHANGED vars
  <2>1. UNCHANGED <<scn, cache, objs, reg, off, sel, left>>
    BY <1>1 DEF vars
  <2>2. Quiet' = Quiet /\ AtRest' = AtRest /\ Read' = Read
    BY <2>1 DEF Quiet, Names, Workers, AtRest, Read, Cached, Statistics, Conf
  <2>3. Seen(scn.reqs[1])' = Seen(scn.reqs[1])
    BY <2>1, SeenSame
  <2>4. Picked(scn.reqs[1], sel[1])' = Picked(scn.reqs[1], sel[1])
    BY <2>1, <2>3 DEF Picked, Of
  <2>5. Best(scn.reqs[1], sel[1])' = Best(scn.reqs[1], sel[1])
    BY <2>1, <2>3, Zenon DEF Best, Conf, Of, Statistics
  <2>6. QED
    BY <2>1, <2>2, <2>4, <2>5 DEF QuietInv, QuietFits
<1>2. CASE Next
  <2>1. scn' = scn
    BY <1>2 DEF Next, Register, LoadOrRegisterOneBackend, UpdateAndAddBackend, UpdateCacheBackend, updateCacheBackend, ListForMetro, StoreFirst,
                StoreSecond, UpdateCacheBackendStatus, Delete, LoadForStatus, Select, SelectLocalPool,
                SelectPoolPair, WeightPools
  <2>2. CASE ~ Quiet
    BY <2>1, <2>2 DEF QuietInv, Quiet, Names
  <2>3. CASE Quiet
    BY <1>2, <2>3, OnlySelects, QuietSelectLocalPool, QuietSelectPoolPair, QuietWeightPools DEF Select
  <2>4. QED
    BY <2>2, <2>3
<1>3. QED
  BY <1>1, <1>2

(* While the cache stays as it is, CreateVolume is given the pool with the *)
(* most free capacity of those that serve the request, and is refused only *)
(* if there is none, but for the two cases in which the code does not do   *)
(* what the docs say (see QuietSelectionIsBest).                           *)
THEOREM QuietSelectionsAreBest == Spec => []QuietSelectionIsBest
<1>1. Init => IInv /\ QuietInv
  BY InitIInv, QuietInit
<1>2. IInv /\ QuietInv /\ [Next]_vars => IInv' /\ QuietInv'
  BY NextIInv, QuietNext
<1>3. IInv /\ QuietInv => QuietSelectionIsBest
  <2> SUFFICES ASSUME IInv, QuietInv, NEW i \in DOMAIN sel, Quiet, sel[i].pc = "done"
               PROVE  Best(scn.reqs[i], sel[i])
    BY Zenon DEF QuietSelectionIsBest, Best
  <2>1. i = 1
    BY OneRequest
  <2>2. QED
    BY <2>1 DEF QuietInv, QuietFits
<1>4. QED
  BY <1>1, <1>2, <1>3, PTL DEF Spec
====
