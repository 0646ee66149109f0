------------------------------ MODULE MCBackend ------------------------------
(***************************************************************************)
(* StorageBackend on small instances.  A scenario says how many claims are   *)
(* made, edited and deleted and which faults happen; the counts are bounds.  *)
(***************************************************************************)
EXTENDS StorageBackend

Fresh == [names |-> {"a"}, creates |-> 1, edits |-> 0, deletes |-> 0, cfaults |-> 0, sfaults |-> 0,
          crashes |-> 0, offs |-> 0, unprots |-> 0, selects |-> 0, cert |-> FALSE, served |-> <<>>,
          lag |-> FALSE]

Serving == [Fresh EXCEPT !.served = <<"a">>, !.lag = TRUE]

Two == [Serving EXCEPT !.names = {"a", "b"}, !.creates = 2]

MCScenarios ==
    {[Fresh EXCEPT !.deletes = 1, !.lag = TRUE],               \* deleted while it is being set up
     [Fresh EXCEPT !.deletes = 1, !.cfaults = 1],              \* and a call of the controller fails
     [Fresh EXCEPT !.crashes = 1],
     [Serving EXCEPT !.edits = 1, !.crashes = 1, !.unprots = 1],
     [Serving EXCEPT !.edits = 1, !.offs = 1, !.selects = 1],  \* offline, and online by an edit
     [Serving EXCEPT !.creates = 2, !.deletes = 1, !.lag = FALSE],  \* deleted and created again
     Two,                                                      \* two claims of one secret
     [Two EXCEPT !.served = <<"a", "b">>, !.deletes = 1, !.crashes = 1, !.selects = 1]}

MCLiveScenarios ==
    {[Fresh EXCEPT !.sfaults = 1],
     [Serving EXCEPT !.deletes = 1, !.crashes = 1],
     [Serving EXCEPT !.edits = 1, !.crashes = 1],
     [Two EXCEPT !.served = <<"a", "b">>, !.deletes = 1]}

MCProtectScenarios == {Fresh}

MCEditScenarios == {[Fresh EXCEPT !.edits = 1]}
==============================================================================
