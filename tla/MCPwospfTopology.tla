-------------------------- MODULE MCPwospfTopology --------------------------
(* An instance of PwospfTopology for TLC. *)
EXTENDS PwospfTopology

CONSTANTS x, y, l, h

Lsu(r, s) == [rid |-> r, nets |-> s]
\* Two routers on a link, one of them with a network behind it.
OnALink == {Lsu(x, <<l>>), Lsu(y, <<l, h>>)}
=============================================================================
