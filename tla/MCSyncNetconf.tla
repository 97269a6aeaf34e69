----------------------------- MODULE MCSyncNetconf -----------------------------
(* SyncNetconf for TLC: the servers are model values of two priorities.     *)
EXTENDS SyncNetconf

CONSTANTS s1, s2

MCPrio == [s \in Servers |-> IF s = s1 THEN 1 ELSE 2]

TV(type, tag) == [type |-> type, tag |-> tag]

\* What may come inside a container c.
Inner ==
    {TV("begin", "c"), TV("begin", "d"), TV("begindel", "d"), TV("end", "c"), TV("end", "d"),
     TV("noexists", "l"), TV("tag", "l"), TV("list", "l"), TV("leaf", "l")}

\* The lists of up to six modifications in one container.
MCEdits ==
    {tvs \in {<<TV("begin", "c")>> \o m \o <<TV("end", "c")>> :
                 m \in UNION {[1..n -> Inner] : n \in 1..4}} : Nested(tvs)}

MCPlainEdits == {<<TV("begin", "c"), TV("leaf", "l"), TV("end", "c")>>}
===============================================================================
