------------------------- MODULE MCPwospfNeighbors -------------------------
(* Instances of PwospfNeighbors for TLC. *)
EXTENDS PwospfNeighbors

CONSTANTS i1, i2, n1, n2

\* One neighbor on each of two links, as in the triangle of pwospf_topo.py, and
\* on the first another one, for its address to become stale.
TwoOnALink == {<<i1, n1>>, <<i1, n2>>, <<i2, n2>>}
=============================================================================
