--------------------------- MODULE MCPwospfRoutes ---------------------------
(* An instance of PwospfRoutes for TLC: this router and its neighbors x and *)
(* y, as in the triangle of pwospf_topo.py, with a second link that only x  *)
(* advertises and a network h behind y.                                     *)
EXTENDS PwospfRoutes, TLC

CONSTANTS x, y, sx, sy, l1, l2, h

TwoLinks == <<sx, sy>>
BothPeers == (sx :> x) @@ (sy :> y)
Ad(r, n, q) == [rid |-> r, net |-> n, nbr |-> q]
Triangle == {Ad(x, sx, Self), Ad(x, l1, y), Ad(x, l1, NoRouter), Ad(x, l2, y),
             Ad(y, sy, Self), Ad(y, l1, x), Ad(y, h, NoRouter)}
=============================================================================
