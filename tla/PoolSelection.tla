---------------------------- MODULE PoolSelection ----------------------------
(***************************************************************************)
(* The driver's cache of backends (csi/backend/handler) while CreateVolume   *)
(* chooses a pool, or a pair of pools, from it.  The cache holds backends by *)
(* value: a goroutine loads a copy and stores it back, each under the lock   *)
(* but not together, so two of them may overwrite each other.  The pools and *)
(* the plugin are shared: a copy has the number of its build.                *)
(*                                                                         *)
(* First how pools are chosen (csi/backend/backend.go): the filters by       *)
(* capability, by topology and by capacity, and the weighting by free        *)
(* capacity.  A pool is a record [of, build, name, storage, caps, free, qos, *)
(* parent]: its backend, the pool object, and what the filters read.  A      *)
(* filter that fails and one that leaves no pool both refuse the request, so *)
(* both are the empty set.                                                   *)
(***************************************************************************)
EXTENDS Integers, FiniteSets, FiniteSetsExt, Sequences

(***************************************************************************)
(* Filters by capability.                                                    *)
(***************************************************************************)
StoragesOf(volumeType) ==
    CASE volumeType \in {"", "lun"} -> {"oceanstor-san", "fusionstorage-san", "oceandisk-san"}
      [] volumeType = "fs"    -> {"oceanstor-nas", "oceanstor-9000", "fusionstorage-nas",
                                  "oceanstor-a-series-nas", "oceanstor-a-series-nas-dme"}
      [] volumeType = "dtree" -> {"oceanstor-dtree", "fusionstorage-dtree", "oceanstor-a-series-dtree"}
      [] OTHER -> {}

filterByBackendName(r, ps) == {p \in ps : r.backend \in {"", p.of}}

filterByStoragePool(r, ps) == {p \in ps : r.pool \in {"", p.name}}

filterByVolumeType(r, ps) == {p \in ps : p.storage \in StoragesOf(r.volumeType)}

Allocates(alloc, caps) ==
    \/ alloc \in {"", "thin"} /\ "SupportThin" \in caps
    \/ alloc = "thick" /\ "SupportThick" \in caps

filterByAllocType(r, ps) == {p \in ps : p.storage = "oceanstor-9000" \/ Allocates(r.alloc, p.caps)}

\* p.qos holds the QoS settings the plugin accepts.
filterByQos(r, ps) == {p \in ps : r.qos = "" \/ ("SupportQoS" \in p.caps /\ r.qos \in p.qos)}

\* linked: the backends in the cache that have a metro backend.
filterByMetro(r, ps, linked) == {p \in ps : r.metro => p.of \in linked /\ "SupportMetro" \in p.caps}

\* No code sets a replica backend, so no pool is left for replication.
filterByReplication(r, ps) == {p \in ps : ~r.repl}

filterByApplicationType(r, ps) == {p \in ps : r.app => "SupportApplicationType" \in p.caps}

filterByStorageQuota(r, ps) ==
    {p \in ps : r.quota = "" \/ ("SupportQuota" \in p.caps /\ r.quota = "valid")}

filterBySupportClone(r, ps) == {p \in ps : r.source => "SupportClone" \in p.caps}

NFSCapability == [nfs3 |-> "SupportNFS3", nfs4 |-> "SupportNFS4", nfs41 |-> "SupportNFS41", nfs42 |-> "SupportNFS42"]

filterByNFSProtocol(r, ps) ==
    {p \in ps : \/ r.nfs = ""
                \/ p.storage = "oceanstor-a-series-nas-dme"
                \/ r.nfs \in DOMAIN NFSCapability /\ NFSCapability[r.nfs] \in p.caps}

PrimaryFilterFuncs(r, ps, linked) ==
    LET placed  == filterByVolumeType(r, filterByStoragePool(r, filterByBackendName(r, ps)))
        able    == filterByQos(r, filterByAllocType(r, placed))
        paired  == filterByReplication(r, filterByMetro(r, able, linked))
        limited == filterByStorageQuota(r, filterByApplicationType(r, paired))
    IN  filterByNFSProtocol(r, filterBySupportClone(r, limited))

SecondaryFilterFuncs(r, ps) ==
    filterByApplicationType(r, filterByReplication(r, filterByQos(r, filterByAllocType(r, filterByVolumeType(r, ps)))))

(***************************************************************************)
(* Topology.  A topology is a set of <<key, value>> pairs with one value a   *)
(* key; the keys of Protocols say which protocol a node speaks.              *)
(***************************************************************************)
Protocols ==
    {"iscsi", "scsi", "fc", "fc-nvme", "tcp-nvme", "roce", "roce-nvme", "nfs", "nfs+", "dpc", "dtfs"}

Driver == "csi.huawei.com"

\* Faulty: the configured topologies are not combined with the protocol.
addProtocolTopologyAlone(topologies, protocol) == topologies \cup {{<<protocol, Driver>>}}

addProtocolTopology(topologies, protocol) ==
    topologies \cup {{kv \in t : kv[1] # protocol} \cup {<<protocol, Driver>>} : t \in topologies}
               \cup {{<<protocol, Driver>>}}

extractProtocolTopology(t) == {kv \in t : kv[1] \in Protocols}

isTopologySupportedByBackend(supported, t) ==
    LET protocol == extractProtocolTopology(t)
    IN  \E s \in supported : (protocol # {} => s \cap protocol # {}) /\ t \ protocol \subseteq s

\* supported: the topologies of the backends in the cache.
filterPoolsOnTopology(ps, requisite, supported) ==
    {p \in ps : /\ p.of \in DOMAIN supported
                /\ \/ supported[p.of] = {}
                   \/ \E t \in requisite : isTopologySupportedByBackend(supported[p.of], t)}

FilterByTopology(r, ps, supported) ==
    IF r.requisite = {} THEN ps ELSE filterPoolsOnTopology(ps, r.requisite, supported)

\* sortPoolsByPreferredTopologies: the place in the order of the pools, the same for pools that
\* are shuffled among themselves.
Preference(r, p, supported) ==
    IF r.requisite = {} THEN 1
    ELSE Min({i \in DOMAIN r.preferred : isTopologySupportedByBackend(supported[p.of], r.preferred[i])}
                 \cup {Len(r.preferred) + 1})

(***************************************************************************)
(* Capacity.                                                                 *)
(***************************************************************************)
FilterByCapacity(r, ps) ==
    {p \in ps : Allocates(r.alloc, p.caps) /\ (r.alloc = "thick" => r.size <= p.free)}

\* The first of the pools with the most free capacity; any of those the order leaves first.
weightByFreeCapacity(r, ps, supported) ==
    LET most == {p \in ps : \A q \in ps : q.free <= p.free}
    IN  {p \in most : \A q \in most : Preference(r, p, supported) <= Preference(r, q, supported)}

selectDtreePool(r, ps) == {p \in ps : r.volumeType = "dtree" /\ ~r.parent => p.parent}

(***************************************************************************)
(* The cache of backends.                                                    *)
(***************************************************************************)
CONSTANTS Backends,   \* the names of backends
          Callers,    \* the names of further goroutines that register a backend
          Scenarios   \* [conf, up, calls, reqs, serial, refresh, offs, dels]

\* The storages a plugin is registered for.
Storages ==
    {"oceanstor-san", "oceanstor-nas", "oceanstor-dtree", "fusionstorage-san", "fusionstorage-nas",
     "fusionstorage-dtree", "oceandisk-san", "oceanstor-a-series-nas", "oceanstor-a-series-dtree",
     "oceanstor-a-series-nas-dme"}

\* Backends are configured with a storage there is a plugin for, a protocol it accepts and at
\* least one pool (analyzePools refuses others), and the ones that are up at the start are
\* configured.  The quota of a request is one that can be set or not.  A call is for a configured
\* backend.
ASSUME ScenariosAssumption ==
    \A s \in Scenarios :
       /\ \A n \in DOMAIN s.conf :
             /\ s.conf[n].storage \in Storages /\ s.conf[n].protocol \in Protocols
             /\ s.conf[n].free \in [DOMAIN s.conf[n].free -> Int]
             /\ IsFiniteSet(DOMAIN s.conf[n].free) /\ DOMAIN s.conf[n].free # {}
       /\ s.up \in Seq(DOMAIN s.conf)
       /\ s.calls \in [DOMAIN s.calls -> DOMAIN s.conf] /\ DOMAIN s.calls \cap DOMAIN s.conf = {}
       /\ DOMAIN s.reqs = 1 .. Len(s.reqs)
       /\ \A i \in DOMAIN s.reqs :
             /\ s.reqs[i].metro \in BOOLEAN /\ s.reqs[i].size \in Int
             /\ s.reqs[i].quota \in {"", "valid", "invalid"}
             /\ DOMAIN s.reqs[i].preferred = 1 .. Len(s.reqs[i].preferred) /\ Len(s.reqs[i].preferred) \in Nat

VARIABLES scn, cache, objs, reg, off, sel, left

vars == <<scn, cache, objs, reg, off, sel, left>>

Names == DOMAIN scn.conf

Conf(n) == scn.conf[n]

Nil == 0

\* A copy of a backend: its build (Nil: none), Available, and MetroBackend, the build of the
\* other backend's copy.
NoBackend == [build |-> Nil, avail |-> FALSE, metro |-> Nil]

Cached(n) == cache[n].build # Nil

\* A build: its pools' capabilities and free capacity, and the plugin's own view.
NewBackend(n) ==
    [of |-> n, caps |-> {}, free |-> [x \in DOMAIN Conf(n).free |-> 0], online |-> FALSE, remote |-> Nil]

\* What the pools are said to have free: UpdateCapacities leaves those of a dtree backend alone.
Statistics(n) ==
    IF Conf(n).storage \in StoragesOf("dtree") THEN [x \in DOMAIN Conf(n).free |-> 0] ELSE Conf(n).free

UpdatePools(o) ==
    [o EXCEPT !.caps = Conf(o.of).caps,
              !.free = IF Conf(o.of).storage \in StoragesOf("dtree") THEN @ ELSE Statistics(o.of)]

Topologies(n) == addProtocolTopology(Conf(n).topologies, Conf(n).protocol)

(***************************************************************************)
(* Registration, UpdateAndAddBackend with the content's statistics: by the   *)
(* sidecar's worker for the backend, which has the backend's name, and by    *)
(* the goroutines of scn.calls, each for one backend.  These are the job     *)
(* that runs at the start of the driver and the calls of the driver that     *)
(* select a backend.                                                         *)
(***************************************************************************)
Workers == Names \cup DOMAIN scn.calls

For(w) == IF w \in Names THEN w ELSE scn.calls[w]

Idle == [pc |-> "idle", copy |-> NoBackend, list |-> << >>, todo |-> {}, pair |-> << >>]

\* The backend is not in the cache, and is fetched; the job at the start fetches all of them.
LoadOrRegisterOneBackend(w) ==
    /\ reg[w].pc = "idle" /\ w \in DOMAIN scn.calls /\ ~Cached(For(w))
    /\ reg' = [reg EXCEPT ![w].pc = "fetch"]
    /\ UNCHANGED <<scn, cache, objs, off, sel, left>>

\* The backend is built if it is not in the cache, else UpdateCacheBackend loads it once more.
UpdateAndAddBackend(w) ==
    /\ \/ reg[w].pc = "idle" /\ w \in Names /\ (Cached(w) => scn.refresh)
       \/ reg[w].pc = "fetch"
    /\ IF Cached(For(w))
       THEN reg' = [reg EXCEPT ![w].pc = "load"] /\ UNCHANGED objs
       ELSE /\ objs' = Append(objs, NewBackend(For(w)))
            /\ reg' = [reg EXCEPT ![w].pc = "store", ![w].copy = [NoBackend EXCEPT !.build = Len(objs) + 1]]
    /\ UNCHANGED <<scn, cache, off, sel, left>>

UpdateCacheBackend(w) ==
    /\ reg[w].pc = "load"
    /\ reg' = [reg EXCEPT ![w] = IF Cached(For(w)) THEN [@ EXCEPT !.pc = "store", !.copy = cache[For(w)]] ELSE Idle]
    /\ UNCHANGED <<scn, cache, objs, off, sel, left>>

updateCacheBackend(w) ==
    /\ reg[w].pc = "store"
    /\ LET b == reg[w].copy.build
       IN  /\ objs' = [objs EXCEPT ![b] = [UpdatePools(@) EXCEPT !.online = TRUE]]
           /\ cache' = [cache EXCEPT ![For(w)] = [reg[w].copy EXCEPT !.avail = TRUE]]
    /\ reg' = [reg EXCEPT ![w] = [Idle EXCEPT !.pc = "list"]]
    /\ UNCHANGED <<scn, off, sel, left>>

\* The two backends name each other, and the same domain or vStore pair.
Partners(conf, i, j) ==
    /\ i # j /\ conf[i].storage = conf[j].storage
    /\ \/ conf[i].domain # "" /\ conf[i].domain = conf[j].domain
       \/ conf[i].vstorePair # "" /\ conf[i].vstorePair = conf[j].vstorePair
    /\ conf[i].metroBackend = j /\ conf[j].metroBackend = i

\* Faulty: a pair is linked only if neither backend is.
NeedsMetroOfBoth(list, i, j) == list[i].metro = Nil /\ list[j].metro = Nil /\ Partners(scn.conf, i, j)

NeedsMetro(list, i, j) == list[i].metro = Nil /\ Partners(scn.conf, i, j)

\* UpdateCacheBackendMetro lists the cache; only copies of that list are read from here on.
ListForMetro(w) ==
    /\ reg[w].pc = "list"
    /\ LET list == [m \in {m \in Names : Cached(m)} |-> cache[m]]
           todo == {p \in Names \X Names : {p[1], p[2]} \subseteq DOMAIN list /\ NeedsMetro(list, p[1], p[2])}
       IN  reg' = [reg EXCEPT ![w] = IF todo = {} THEN Idle
                                     ELSE [@ EXCEPT !.pc = "first", !.list = list, !.todo = todo]]
    /\ UNCHANGED <<scn, cache, objs, off, sel, left>>

\* Faulty: the loop variable is not copied, and the backend is linked to itself.
StoreFirstUncopied(w) ==
    /\ reg[w].pc = "first"
    /\ \E p \in reg[w].todo :
          LET i == reg[w].list[p[1]]
              j == reg[w].list[p[2]]
          IN  /\ cache' = [cache EXCEPT ![p[1]] = [i EXCEPT !.metro = i.build]]
              /\ objs' = [objs EXCEPT ![i.build].remote = j.build, ![j.build].remote = i.build]
              /\ reg' = [reg EXCEPT ![w].pc = "second", ![w].pair = p]
    /\ UNCHANGED <<scn, off, sel, left>>

\* The pairs come in the order of a map.  Both plugins learn of each other, then the copy of
\* the first backend is stored, linked to the second's build,
StoreFirst(w) ==
    /\ reg[w].pc = "first"
    /\ \E p \in reg[w].todo :
          LET i == reg[w].list[p[1]]
              j == reg[w].list[p[2]]
          IN  /\ cache' = [cache EXCEPT ![p[1]] = [i EXCEPT !.metro = j.build]]
              /\ objs' = [objs EXCEPT ![i.build].remote = j.build, ![j.build].remote = i.build]
              /\ reg' = [reg EXCEPT ![w].pc = "second", ![w].pair = p]
    /\ UNCHANGED <<scn, off, sel, left>>

\* and the copy of the second, linked to the first's.
StoreSecond(w) ==
    /\ reg[w].pc = "second"
    /\ LET p == reg[w].pair
           rest == reg[w].todo \ {p}
       IN  /\ cache' = [cache EXCEPT ![p[2]] = [reg[w].list[p[2]] EXCEPT !.metro = reg[w].list[p[1]].build]]
           /\ reg' = [reg EXCEPT ![w] = IF rest = {} THEN Idle
                                        ELSE [@ EXCEPT !.pc = "first", !.todo = rest, !.pair = << >>]]
    /\ UNCHANGED <<scn, objs, off, sel, left>>

Register(w) ==
    \/ LoadOrRegisterOneBackend(w) \/ UpdateAndAddBackend(w) \/ UpdateCacheBackend(w) \/ updateCacheBackend(w)
    \/ ListForMetro(w) \/ StoreFirst(w) \/ StoreSecond(w)

(***************************************************************************)
(* UpdateCacheBackendStatus, when a login is refused or works again, and     *)
(* RemoveStorageBackend.                                                     *)
(***************************************************************************)
NotRunning == [pc |-> "idle", copy |-> NoBackend]

LoadForStatus(n, online) ==
    /\ off[n].pc = "idle" /\ left.offs > 0 /\ Cached(n)
    /\ off' = [off EXCEPT ![n] = [pc |-> "store", copy |-> [cache[n] EXCEPT !.avail = online]]]
    /\ left' = [left EXCEPT !.offs = @ - 1]
    /\ UNCHANGED <<scn, cache, objs, reg, sel>>

UpdateCacheBackendStatus(n) ==
    /\ off[n].pc = "store"
    /\ cache' = [cache EXCEPT ![n] = off[n].copy]
    /\ objs' = [objs EXCEPT ![off[n].copy.build].online = off[n].copy.avail]
    /\ off' = [off EXCEPT ![n] = NotRunning]
    /\ UNCHANGED <<scn, reg, sel, left>>

Delete(n) ==
    /\ left.dels > 0 /\ Cached(n)
    /\ cache' = [cache EXCEPT ![n] = NoBackend]
    /\ left' = [left EXCEPT !.dels = @ - 1]
    /\ UNCHANGED <<scn, objs, reg, off, sel>>

(***************************************************************************)
(* SelectPoolPair, one goroutine a request: the local pools are listed and   *)
(* filtered, each is given a remote pool, and the pair with the most free    *)
(* capacity is taken and charged.                                            *)
(***************************************************************************)
PoolsOf(b) ==
    LET o == objs[b]
    IN  {[of |-> o.of, build |-> b, name |-> x, storage |-> Conf(o.of).storage, caps |-> o.caps,
          free |-> o.free[x], qos |-> Conf(o.of).qos, parent |-> Conf(o.of).parent] : x \in DOMAIN o.free}

NoPool == [build |-> Nil, name |-> ""]

Waiting == [pc |-> "wait", local |-> {}, pairs |-> {}, answer |-> <<NoPool, NoPool>>, ok |-> FALSE]

Pool(p) == [build |-> p.build, name |-> p.name]

Current(c) == CHOOSE p \in PoolsOf(c.build) : p.name = c.name

LoadCacheStoragePools == UNION {PoolsOf(cache[n].build) : n \in {n \in Names : Cached(n) /\ cache[n].avail}}

Supported == [n \in {n \in Names : Cached(n)} |-> Topologies(n)]

AllTopologies == [n \in Names |-> Topologies(n)]

Linked == {n \in Names : cache[n].metro # Nil}

Refuse(i) == sel' = [sel EXCEPT ![i] = [Waiting EXCEPT !.pc = "done"]]

SelectLocalPool(i) ==
    /\ sel[i].pc = "wait"
    /\ scn.serial => \A k \in DOMAIN sel : sel[k].pc \in {"wait", "done"}
    /\ LET r  == scn.reqs[i]
           ps == FilterByTopology(r, PrimaryFilterFuncs(r, LoadCacheStoragePools, Linked), Supported)
           qs == selectDtreePool(r, FilterByCapacity(r, ps))
       IN  IF qs = {} THEN Refuse(i)
           ELSE sel' = [sel EXCEPT ![i].pc = "remote", ![i].local = {Pool(p) : p \in qs}]
    /\ UNCHANGED <<scn, cache, objs, reg, off, left>>

\* The remote pools for a local pool of backend n: the empty set is an error, and a pool is
\* missing (NoPool) if only the capacity does not suffice.
SelectRemotePool(r, n) ==
    LET ps == FilterByTopology(r, SecondaryFilterFuncs(r, PoolsOf(cache[n].metro)), Supported)
        qs == FilterByCapacity(r, ps)
    IN  CASE ~r.metro          -> {NoPool}
          [] r.metro /\ r.repl -> {}
          [] OTHER -> IF ~Cached(n) \/ cache[n].metro = Nil \/ ps = {} THEN {}
                      ELSE IF qs = {} THEN {NoPool}
                      ELSE {Pool(p) : p \in weightByFreeCapacity(r, qs, AllTopologies)}

Of(c) == objs[c.build].of

\* A local pool for which there is no remote pool refuses the request.
SelectPoolPair(i) ==
    /\ sel[i].pc = "remote"
    /\ LET remotes == [c \in sel[i].local |-> SelectRemotePool(scn.reqs[i], Of(c))]
       IN  IF \E c \in sel[i].local : remotes[c] = {} THEN Refuse(i)
           ELSE \E f \in [sel[i].local -> UNION {remotes[c] : c \in sel[i].local}] :
                   /\ \A c \in sel[i].local : f[c] \in remotes[c]
                   /\ sel' = [sel EXCEPT ![i].pc = "weight", ![i].pairs = {<<c, f[c]>> : c \in sel[i].local}]
    /\ UNCHANGED <<scn, cache, objs, reg, off, left>>

\* A thick volume takes its size from what both pools are said to have free.
updateSelectPool(r, os, pair) ==
    LET Charge(o, c) == IF c = NoPool THEN o ELSE [o EXCEPT ![c.build].free[c.name] = @ - r.size]
    IN  IF r.alloc = "thick" THEN Charge(Charge(os, pair[1]), pair[2]) ELSE os

WeightPools(i) ==
    /\ sel[i].pc = "weight"
    /\ LET r == scn.reqs[i]
       IN  \E p \in weightByFreeCapacity(r, {Current(c) : c \in sel[i].local}, AllTopologies),
              pair \in sel[i].pairs :
             /\ pair[1] = Pool(p)
             /\ objs' = updateSelectPool(r, objs, pair)
             /\ sel' = [sel EXCEPT ![i] = [Waiting EXCEPT !.pc = "done", !.answer = pair, !.ok = TRUE]]
    /\ UNCHANGED <<scn, cache, reg, off, left>>

Select(i) == SelectLocalPool(i) \/ SelectPoolPair(i) \/ WeightPools(i)

(***************************************************************************)
(* The specification.  The backends of scn.up are registered and linked      *)
(* at the start.                                                             *)
(***************************************************************************)
Settled(up, n) ==
    IF n \notin DOMAIN up THEN NoBackend
    ELSE [build |-> up[n], avail |-> TRUE,
          metro |-> IF \E m \in DOMAIN up : Partners(scn.conf, n, m) THEN up[Conf(n).metroBackend] ELSE Nil]

Init ==
    /\ scn \in Scenarios
    /\ LET up == [n \in {scn.up[k] : k \in DOMAIN scn.up} |-> CHOOSE k \in DOMAIN scn.up : scn.up[k] = n]
       IN  /\ cache = [n \in Names |-> Settled(up, n)]
           /\ objs = [k \in DOMAIN scn.up |->
                         [UpdatePools(NewBackend(scn.up[k])) EXCEPT
                             !.online = TRUE, !.remote = Settled(up, scn.up[k]).metro]]
    /\ reg = [w \in Workers |-> Idle]
    /\ off = [n \in Names |-> NotRunning]
    /\ sel = [i \in DOMAIN scn.reqs |-> Waiting]
    /\ left = [offs |-> scn.offs, dels |-> scn.dels]

Next ==
    \/ \E w \in Workers : Register(w)
    \/ \E n \in Names : UpdateCacheBackendStatus(n) \/ Delete(n)
    \/ \E n \in Names, online \in BOOLEAN : LoadForStatus(n, online)
    \/ \E i \in DOMAIN scn.reqs : Select(i)

Spec == Init /\ [][Next]_vars

\* The sidecar syncs every content again and again, and a goroutine that has begun goes on.
FairSpec ==
    /\ Spec
    /\ \A n \in Backends :
          WF_vars(n \in Names /\ Register(n)) /\ WF_vars(n \in Names /\ UpdateCacheBackendStatus(n))
    /\ \A w \in Callers : WF_vars(w \in Workers /\ reg[w].pc # "idle" /\ Register(w))

(***************************************************************************)
(* Properties.                                                               *)
(***************************************************************************)
Builds == DOMAIN objs

Copies == [build : Builds \cup {Nil}, avail : BOOLEAN, metro : Builds \cup {Nil}]

Handles == {NoPool} \cup {[build |-> b, name |-> x] : b \in Builds, x \in UNION {DOMAIN objs[c].free : c \in Builds}}

\* The cache, the copies the goroutines of the registration and of the status hold, and the
\* pools a request has picked are of builds that were made, each of the backend it is kept for.
TypeOK ==
    /\ \A b \in Builds : objs[b].of \in Names /\ objs[b].remote \in Builds \cup {Nil}
    /\ \A w \in Workers : /\ reg[w].copy \in Copies /\ (reg[w].copy.build # Nil => objs[reg[w].copy.build].of = For(w))
                          /\ reg[w].pc \in {"idle", "fetch", "load", "store", "list", "first", "second"}
    /\ \A n \in Names : \A c \in {cache[n], off[n].copy} : c \in Copies /\ (c.build # Nil => objs[c.build].of = n)
    /\ \A i \in DOMAIN sel :
          /\ sel[i].pc \in {"wait", "remote", "weight", "done"}
          /\ sel[i].local \subseteq Handles
          /\ sel[i].ok => sel[i].answer[1] \in Handles \ {NoPool}
    /\ left.offs \in 0 .. scn.offs /\ left.dels \in 0 .. scn.dels

\* What a request asks of a pool's backend, read off the configuration instead of the cache.
Demands(r) ==
    {x \in {"SupportThin", "SupportThick", "SupportQoS", "SupportMetro", "SupportApplicationType",
            "SupportQuota", "SupportClone"} :
        \/ x = "SupportThin" /\ r.alloc # "thick"
        \/ x = "SupportThick" /\ r.alloc = "thick"
        \/ x = "SupportQoS" /\ r.qos # ""
        \/ x = "SupportMetro" /\ r.metro
        \/ x = "SupportApplicationType" /\ r.app
        \/ x = "SupportQuota" /\ r.quota # ""
        \/ x = "SupportClone" /\ r.source}

\* The place t lies in a configured topology, or names no place, and if it speaks any protocol
\* then the backend's or one of that topology.
Reaches(conf, n, t) ==
    \E s \in conf[n].topologies \cup {{}} :
       /\ {kv \in t : kv[1] \notin Protocols} \subseteq s
       /\ (\E kv \in t : kv[1] \in Protocols) =>
             \E kv \in t : kv[1] \in Protocols /\ kv \in s \cup {<<conf[n].protocol, Driver>>}

Serves(conf, r, n) ==
    /\ conf[n].storage \in StoragesOf(r.volumeType)
    /\ r.requisite # {} => \E t \in r.requisite : Reaches(conf, n, t)
    /\ r.qos # "" => r.qos \in conf[n].qos
    /\ r.alloc \in {"", "thin", "thick"}

ServesFirst(conf, r, n) ==
    /\ Serves(conf, r, n) /\ Demands(r) \subseteq conf[n].caps /\ ~r.repl /\ r.quota # "invalid"
    /\ r.backend \in {"", n}
    /\ r.nfs # "" /\ conf[n].storage # "oceanstor-a-series-nas-dme" =>
          r.nfs \in DOMAIN NFSCapability /\ NFSCapability[r.nfs] \in conf[n].caps
    /\ r.volumeType = "dtree" /\ ~r.parent => conf[n].parent

ServesSecond(conf, r, n) ==
    Serves(conf, r, n) /\ Demands(r) \ {"SupportMetro", "SupportQuota", "SupportClone"} \subseteq conf[n].caps

\* However backends are registered, linked, taken offline and removed while CreateVolume
\* selects: the local pool serves the request, and a hyperMetro volume gets a remote pool of the
\* backend its own backend is paired with, which serves it too; it gets none only for want of
\* capacity.
SelectedServes ==
    \A i \in DOMAIN sel : sel[i].ok =>
       LET r == scn.reqs[i]
           l == sel[i].answer[1]
           f == sel[i].answer[2]
       IN  /\ ServesFirst(scn.conf, r, Of(l)) /\ r.pool \in {"", l.name}
           /\ r.metro = (f # NoPool) \/ (r.metro /\ r.alloc = "thick")
           /\ f # NoPool => Partners(scn.conf, Of(l), Of(f)) /\ ServesSecond(scn.conf, r, Of(f))

\* The docs have a backend without configured topologies serve any place, while BuildBackend
\* gives every backend the topology of its protocol.
Overlooked(conf, r, n) ==
    r.requisite # {} /\ conf[n].topologies = {} /\ ~\E t \in r.requisite : Reaches(conf, n, t)

ServesAsDocumented(conf, r, n) ==
    \/ ServesFirst(conf, r, n)
    \/ Overlooked(conf, r, n) /\ ServesFirst(conf, [r EXCEPT !.requisite = {}], n)

Quiet == scn.offs = 0 /\ scn.dels = 0 /\ ~scn.refresh /\ {scn.up[k] : k \in DOMAIN scn.up} = Names /\ Len(scn.reqs) = 1

\* The pools that serve the request,
Serving(r) ==
    {c \in UNION {{n} \X (DOMAIN Conf(n).free) : n \in {n \in Names : ServesAsDocumented(scn.conf, r, n)}} :
        /\ r.pool \in {"", c[2]}
        /\ r.alloc = "thick" => r.size <= Statistics(c[1])[c[2]]
        /\ r.metro => \E m \in Names : Partners(scn.conf, c[1], m)}

\* and are not overlooked.
Seen(r) == {d \in Serving(r) : ~Overlooked(scn.conf, r, d[1])}

\* While the cache stays as it is, CreateVolume takes a pool that serves the request, and of
\* those the one with the most free capacity; it is refused only if there is none.  This is but
\* for two cases in which the code does not do what the docs say: a backend without configured
\* topologies is overlooked where the request names a place (csi-controller-create-volume
\* spec.md:334), and a hyperMetro request is refused, instead of being given a local pool alone,
\* if a pool that serves it is paired with a backend that does not (spec.md:417).
QuietSelectionIsBest ==
    \A i \in DOMAIN sel : Quiet /\ sel[i].pc = "done" =>
       LET r == scn.reqs[i]
           c == <<Of(sel[i].answer[1]), sel[i].answer[1].name>>
       IN  /\ ~sel[i].ok => \/ Seen(r) = {}
                            \/ r.metro /\ \E d \in Seen(r) : ~ServesSecond(scn.conf, r, Conf(d[1]).metroBackend)
           /\ sel[i].ok => /\ c \in Seen(r)
                           /\ \A d \in Seen(r) : Statistics(d[1])[d[2]] <= Statistics(c[1])[c[2]]

\* The sizes of the thick volumes that were given the pool.
Given(b, x) ==
    LET Share(i) == IF /\ sel[i].ok /\ scn.reqs[i].alloc = "thick"
                       /\ \E k \in {1, 2} : sel[i].answer[k] = [build |-> b, name |-> x]
                    THEN scn.reqs[i].size ELSE 0
    IN  MapThenSumSet(Share, DOMAIN sel)

\* Thick volumes that are created one after the other are given no more than the pools had free
\* when the statistics were read, on both sides of a hyperMetro pair.
NotOvercommitted ==
    scn.serial /\ ~scn.refresh =>
       \A b \in Builds : \A x \in DOMAIN objs[b].free : Given(b, x) <= Statistics(objs[b].of)[x]

\* A backend was built more than once: it was removed and came back, or two goroutines that
\* did not find it in the cache built it at the same time.
Rebuilt(n) == Cardinality({b \in Builds : objs[b].of = n}) > 1

\* Both are in the cache, and the first is linked to the second, in the cache and in its plugin.
LinkedWith(n, m) ==
    {n, m} \subseteq Names =>
    /\ Cached(n) /\ Cached(m)
    /\ \A b \in {cache[n].metro, objs[cache[n].build].remote} :
          b # Nil /\ objs[b].of = m /\ (b = cache[m].build \/ Rebuilt(n) \/ Rebuilt(m))

\* Two backends configured as a pair are, once their logins and removals are settled, linked to
\* each other for good, in the cache and in their plugins, whichever goroutine overwrote a link
\* meanwhile: UpdateCacheBackendMetro of every registration works on its own list, and the next
\* one makes up for what was lost.  But a link that is there is never looked at again: if one of
\* the two was built more than once, a link may stay with a build that was replaced.
PairsAreLinked ==
    \A n, m \in Backends :
       {n, m} \subseteq Names /\ Partners(scn.conf, n, m) /\ scn.refresh => <>[]LinkedWith(n, m)
===============================================================================
