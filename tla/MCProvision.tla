---------------------------- MODULE MCProvision ----------------------------
EXTENDS Provision, TLC

(* A source volume with a snapshot. *)
SrcLun == (<<"L", "lun", "src">> :> [cap |-> 1, data |-> "copied"])
          @@ (<<"L", "snap", "s0">> :> [of |-> "src", cap |-> 1, on |-> TRUE])
SrcFs  == (<<"L", "fs", "src">> :> [cap |-> 1, data |-> "copied", parent |-> "none", split |-> FALSE])
          @@ (<<"L", "snap", "s0">> :> [of |-> "src", cap |-> 1, on |-> TRUE])
SrcRoot == (<<"L", "fs", "src">> :> [cap |-> 1, data |-> "copied"])
None   == [k \in {} |-> {}]
(* DataTurbo users DME knows. *)
Users(cs) == [k \in {<<"L", "user", c>> : c \in cs} |-> [cap |-> 0]]

Plain(family, store) ==
    [family |-> family, op |-> "none", v6 |-> TRUE, metro |-> FALSE, qos |-> "none", from |-> "none",
     cap |-> 1, esize |-> 0, snap |-> FALSE, msnap |-> FALSE, modify |-> FALSE, arr |-> store,
     active |-> "L", own |-> TRUE, wait |-> FALSE, proto |-> "nfs", kv |-> FALSE]

(* LUNs: HyperMetro with everything; copies on the two generations; a      *)
(* local volume that is turned into a HyperMetro one.                      *)
SanRequests ==
    LET s == Plain("san", SrcLun)
    IN  {[s EXCEPT !.metro = TRUE, !.qos = "max", !.esize = 2, !.snap = TRUE, !.msnap = TRUE],
         [s EXCEPT !.from = "vol", !.cap = 2, !.qos = "max"],
         [s EXCEPT !.v6 = FALSE, !.from = "vol", !.cap = 2],
         [s EXCEPT !.v6 = FALSE, !.from = "snap", !.cap = 1, !.esize = 2],
         [s EXCEPT !.modify = TRUE, !.snap = TRUE],
         [s EXCEPT !.modify = TRUE, !.esize = 2]}

NasRequests ==
    LET n == Plain("nas", SrcFs)
    IN  {[n EXCEPT !.metro = TRUE, !.qos = "max", !.esize = 2],
         [n EXCEPT !.metro = TRUE, !.active = "R", !.own = FALSE],
         [n EXCEPT !.v6 = FALSE, !.metro = TRUE, !.esize = 2],
         [n EXCEPT !.from = "vol", !.cap = 2, !.wait = TRUE],
         [n EXCEPT !.from = "snap", !.qos = "max"],
         [n EXCEPT !.esize = 2, !.modify = TRUE, !.snap = TRUE]}

OtherRequests ==
    {[Plain("dtree", SrcFs) EXCEPT !.esize = 2],
     [Plain("fusan", SrcLun) EXCEPT !.qos = "max", !.esize = 2, !.snap = TRUE],
     [Plain("fusan", SrcLun) EXCEPT !.from = "vol", !.cap = 2],
     [Plain("funas", None) EXCEPT !.qos = "max", !.esize = 2],
     [Plain("fudtree", SrcRoot) EXCEPT !.esize = 2],
     [Plain("aseries", None) EXCEPT !.qos = "max", !.esize = 2],
     [Plain("aseries", None) EXCEPT !.proto = "dtfs", !.kv = TRUE],
     [Plain("asdtree", SrcFs) EXCEPT !.esize = 2],
     [Plain("asdtree", SrcFs) EXCEPT !.proto = "dtfs"],
     [Plain("oceandisk", None) EXCEPT !.qos = "min", !.esize = 2],
     [Plain("dme", None) EXCEPT !.esize = 2],
     [Plain("dme", Users({"c1", "c2"})) EXCEPT !.proto = "dtfs"],
     [Plain("dme", Users({"c2"})) EXCEPT !.proto = "dtfs"]}

MCRequests == SanRequests \cup NasRequests \cup OtherRequests
============================================================================
