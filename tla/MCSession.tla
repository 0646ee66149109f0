----------------------------- MODULE MCSession -----------------------------
EXTENDS RestSession

C(kind, ops) == [kind |-> kind, ops |-> ops, urls |-> 1, calls |-> 1, metro |-> FALSE, faults |-> 2]
One(op)      == [t \in {"t1"} |-> op]
Two(a, b)    == [t \in {"t1", "t2"} |-> IF t = "t1" THEN a ELSE b]
Metro(c)     == [c EXCEPT !.metro = TRUE]
TwoUrls(c)   == [c EXCEPT !.urls = 2]
Twice(c)     == [c EXCEPT !.calls = 2]

Calm(c)      == [c EXCEPT !.faults = 1]

MCClients ==
    {Twice(C(k, One("call"))) : k \in {"oceanstor", "base", "fusion", "dme"}}
    \cup {Calm(C(k, Two("call", op))) : k \in {"oceanstor", "base", "fusion", "dme"}, op \in {"call", "logout", "relogin"}}
    \cup {C(k, Two("call", "call")) : k \in {"fusion", "dme"}}
    \cup {TwoUrls(C(k, One("call"))) : k \in {"oceanstor", "dme"}}
    \cup {Metro(Twice(C("oceanstor", One("safe")))), Metro(Calm(C("oceanstor", Two("call", "safe"))))}

SafeClients    == {Metro(Twice(C("oceanstor", One("safe"))))}
ReloginClients == {C("fusion", Two("call", "call"))}
=============================================================================
