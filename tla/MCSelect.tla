------------------------------ MODULE MCSelect ------------------------------
(***************************************************************************)
(* Instances of PoolSelection: a and b are a hyperMetro pair where they are   *)
(* two.                                                                      *)
(***************************************************************************)
EXTENDS PoolSelection, TLC

Thin == {"SupportThin", "SupportMetro"}

Both == {"SupportThin", "SupportThick", "SupportMetro"}

ZoneA == {<<"zone", "a">>}

ZoneB == {<<"zone", "b">>}

Iscsi == {<<"iscsi", Driver>>}

Fc == {<<"fc", Driver>>}

San(caps, free, topologies) ==
    [storage |-> "oceanstor-san", caps |-> caps, free |-> free, topologies |-> topologies, protocol |-> "iscsi",
     domain |-> "", vstorePair |-> "", metroBackend |-> "", qos |-> {"q"}, parent |-> FALSE]

Paired(conf, other) == [conf EXCEPT !.domain = "d", !.metroBackend = other]

Ask == [backend |-> "", pool |-> "", volumeType |-> "lun", alloc |-> "thin", qos |-> "", metro |-> FALSE,
        repl |-> FALSE, app |-> FALSE, quota |-> "", source |-> FALSE, nfs |-> "", parent |-> FALSE,
        requisite |-> {}, preferred |-> << >>, size |-> 1]

Metro == [Ask EXCEPT !.metro = TRUE]

Thick == [Ask EXCEPT !.alloc = "thick"]

ThickMetro == [Metro EXCEPT !.alloc = "thick"]

Pair(capsA, capsB, freeA, freeB) ==
    [a |-> Paired(San(capsA, freeA, {}), "b"), b |-> Paired(San(capsB, freeB, {}), "a")]

One(n) == [p |-> n]

Scenario(conf, up, reqs) ==
    [conf |-> conf, up |-> up, calls |-> << >>, reqs |-> reqs, serial |-> TRUE, refresh |-> FALSE, offs |-> 0, dels |-> 0]

\* One request to a cache at rest.
Capable == {{}, {"SupportThin"}, Both, {"SupportThin", "SupportMetro", "SupportQoS", "SupportClone"},
            {"SupportThin", "SupportMetro", "SupportApplicationType", "SupportQuota"}}

Requests ==
    {Ask, Metro, Thick, [Thick EXCEPT !.size = 2], [ThickMetro EXCEPT !.size = 2], [Ask EXCEPT !.repl = TRUE],
     [Metro EXCEPT !.qos = "q"], [Ask EXCEPT !.qos = "other"], [Ask EXCEPT !.source = TRUE],
     [Metro EXCEPT !.app = TRUE], [Ask EXCEPT !.quota = "valid"], [Ask EXCEPT !.quota = "invalid"],
     [Ask EXCEPT !.backend = "b"], [Ask EXCEPT !.pool = "y"], [Ask EXCEPT !.alloc = "other"],
     [Ask EXCEPT !.volumeType = "dtree"], [Ask EXCEPT !.volumeType = "fs", !.nfs = "nfs3"]}

AtRest ==
    {Scenario(Pair(x, y, f, One(2)), <<"a", "b">>, <<r>>) :
        x \in Capable, y \in Capable, f \in {One(1), [x |-> 1, y |-> 3]}, r \in Requests}

Nas(nfs, parent) ==
    {Scenario([a |-> [San({"SupportThin"} \cup nfs, One(1), {}) EXCEPT !.storage = s, !.parent = parent]],
              <<"a">>, <<[Ask EXCEPT !.volumeType = v, !.nfs = p, !.parent = q]>>) :
        s \in {"oceanstor-nas", "fusionstorage-dtree"}, v \in {"fs", "dtree"}, p \in {"", "nfs3", "nfs41"}, q \in BOOLEAN}

Places == {{ZoneA}, {ZoneA \cup Iscsi}, {ZoneB, Iscsi}, {Fc}, {ZoneA \cup Fc, ZoneB}, {ZoneA \cup Iscsi \cup Fc}}

Located ==
    {Scenario([a |-> Paired(San(Thin, One(1), ta), "b"), b |-> Paired(San(Thin, One(1), tb), "a")], <<"a", "b">>,
              <<[Ask EXCEPT !.requisite = q, !.preferred = p, !.metro = m]>>) :
        ta \in {{}, {ZoneA}}, tb \in {{ZoneA}, {ZoneB}}, q \in Places, p \in {<< >>, <<ZoneB, ZoneA>>}, m \in BOOLEAN}

\* Backends come up, lose their logins and are asked meanwhile.
Moving(offs, dels, reqs) ==
    [Scenario(Pair(Thin, Thin, One(1), One(1)), << >>, reqs) EXCEPT !.refresh = TRUE, !.offs = offs, !.dels = dels]

Removed == [Moving(0, 1, <<Metro>>) EXCEPT !.up = <<"a", "b">>]

\* The worker and another goroutine register the same backend.
Twice == [Moving(0, 0, << >>) EXCEPT !.up = <<"b">>, !.calls = [c |-> "a"]]

\* Thick volumes one after the other.
InTurn ==
    {Scenario(Pair(Both, Both, One(x), One(3)), <<"a", "b">>, <<r, s, ThickMetro>>) :
        x \in {2, 3}, r \in {Thick, ThickMetro}, s \in {[Thick EXCEPT !.size = 2], [ThickMetro EXCEPT !.size = 2]}}

MCScenarios ==
    AtRest \cup Nas({}, TRUE) \cup Nas({"SupportNFS3"}, FALSE) \cup Located \cup InTurn
        \cup {Moving(1, 0, <<Metro>>), Removed, Twice}
==============================================================================
