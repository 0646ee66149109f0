------------------------------- MODULE MCNode -------------------------------
EXTENDS NodeService, TLC

Cfg(proto, mp) ==
    [proto |-> proto, mp |-> mp, mode |-> "mount", all |-> FALSE, paths |-> {"p1"}, threads |-> 2, many |-> FALSE,
     vols |-> {"v1"}, pods |-> {"v1"}, old |-> {}, late |-> FALSE, reboot |-> FALSE, expand |-> FALSE]
Two(c)   == [c EXCEPT !.vols = {"v1", "v2"}]
Paths(c) == [c EXCEPT !.paths = {"p1", "p2"}]

Rich(c)  == [c EXCEPT !.expand = TRUE]

(* Two volumes, one with files from before, that are staged and unstaged. *)
TwoNode == [Two(Cfg("fc", "none")) EXCEPT !.threads = 1, !.pods = {}, !.old = {"v1"}]

MCNodes ==
    {Rich(Paths(Cfg("iscsi", "dm"))), Rich(Paths(Cfg("iscsi", "up"))), Rich(Paths(Cfg("fc", "dm"))),
     Rich(Paths(Cfg("fc", "up"))), Rich(Paths(Cfg("nvme", "native"))), Rich(Paths(Cfg("nvme", "upnvme"))),
     Rich(Paths(Cfg("fcnvme", "upnvme")))}
    \cup {[Paths(Cfg(p, "dm")) EXCEPT !.all = TRUE] : p \in {"iscsi", "fc"}}
    \cup {[Rich(Cfg(p, "none")) EXCEPT !.reboot = TRUE, !.mode = m] : p \in {"iscsi", "fc", "nvme", "fcnvme", "scsi"}, m \in {"mount", "block"}}
    \cup {[Cfg(p, "none") EXCEPT !.late = TRUE] : p \in {"nfs", "nfs+", "dtree", "fc"}}
    \cup {TwoNode, [TwoNode EXCEPT !.mode = "block"]}
    \cup {[Rich(Cfg("fc", "none")) EXCEPT !.many = TRUE]}

(* A behaviour is followed until a call has taken another volume's device. *)
Followed == \A v \in Vols : ~vol[v].cut

LockNodes  == {[Cfg("fc", "none") EXCEPT !.late = TRUE]}
BlockNodes == {[TwoNode EXCEPT !.mode = "block"]}
=============================================================================
