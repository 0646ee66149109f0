------------------------------ MODULE MCPublish ------------------------------
EXTENDS Publish, TLC

Plain(family, proto, vas, store) ==
    [family |-> family, proto |-> proto, v6 |-> TRUE, metro |-> FALSE, flaky |-> FALSE, timeout |-> FALSE,
     register |-> FALSE, perNode |-> FALSE, alua |-> [mode |-> "1", path |-> "1"],
     portals |-> {"good", "absent"}, dynamic |-> FALSE, auth |-> TRUE, isolate |-> TRUE, tells |-> TRUE, cidrs |-> {},
     ports |-> ("n1" :> {"i1"} @@ "n2" :> {"i2"}), vas |-> vas, arr |-> store]

One       == {<<"v1", "n1">>}
TwoVols   == {<<"v1", "n1">>, <<"v2", "n1">>}
TwoNodes  == {<<"v1", "n1">>, <<"v1", "n2">>}
Store(S, o) == [k \in S |-> o]
Vols(kind, o) == Store({<<s, kind, v>> : s \in {"L", "R"}, v \in {"v1", "v2"}}, o)
Luns      == Vols("lun", {})
FcPorts   == Store({<<s, "initiator", i>> : s \in {"L", "R"}, i \in {"i1", "i2", "i3"}}, Lun!NewPort)

NoClients == [acc |-> [i \in {} |-> "none"]]

(* LUNs over iSCSI: two volumes of a node; a volume of two nodes, on an    *)
(* array that keeps the settings at the initiator; calls that outlive the  *)
(* attacher's patience; HyperMetro, with sites that stay and that go; the  *)
(* fabrics with several ports and NVMe.                                    *)
San == Plain("san", "iscsi", TwoVols, Luns)
SanScenarios ==
    {[San EXCEPT !.timeout = TRUE, !.vas = One],
     [San EXCEPT !.vas = TwoNodes, !.v6 = FALSE],
     [San EXCEPT !.metro = TRUE],
     [San EXCEPT !.metro = TRUE, !.flaky = TRUE, !.vas = One],
     [San EXCEPT !.proto = "fc", !.v6 = FALSE, !.arr = Luns @@ FcPorts, !.ports["n1"] = {"i1", "i2", "i3"}],
     [San EXCEPT !.proto = "fcnvme", !.vas = One, !.arr = Luns @@ FcPorts, !.metro = TRUE, !.flaky = TRUE],
     [San EXCEPT !.proto = "nvme"]}

(* The other families; nodes that register while volumes are published.    *)
OtherScenarios ==
    {Plain("oceandisk", "nvme", TwoVols, Vols("namespace", {})),
     [Plain("oceandisk", "iscsi", One, Vols("namespace", {})) EXCEPT !.timeout = TRUE],
     Plain("fusion", "iscsi", TwoVols, Vols("volume", [at |-> {}])),
     [Plain("fusion", "iscsi", One, Vols("volume", [at |-> {}])) EXCEPT !.timeout = TRUE, !.portals = {}, !.dynamic = TRUE],
     [Plain("fusion", "scsi", TwoNodes, Vols("volume", [at |-> {}])) EXCEPT !.register = TRUE],
     [Plain("nas", "nfs", One, Vols("share", NoClients)) EXCEPT !.register = TRUE, !.perNode = TRUE],
     Plain("nas", "nfs", TwoNodes, Vols("share", NoClients)),
     [Plain("nas", "nfs", One, Vols("share", NoClients)) EXCEPT !.timeout = TRUE, !.ports["n1"] = {"i1", "i2"}],
     [Plain("nas", "nfs", One, Vols("share", NoClients)) EXCEPT !.timeout = TRUE, !.tells = FALSE],
     [Plain("dtree", "nfs", One, Vols("share", NoClients)) EXCEPT !.ports["n1"] = {"i1", "i2", "i3"}, !.cidrs = {{"i1", "i2"}}]}

MCScenarios == SanScenarios \cup OtherScenarios
=============================================================================
