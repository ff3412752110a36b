---------------------------- MODULE MCRouteTable ----------------------------
(***************************************************************************)
(* A routing table file with a and d, or an empty one; an interface in b;  *)
(* and searches that find b, or c, which is behind other routers.          *)
(***************************************************************************)
EXTENDS RouteTable

CONSTANTS a, b, c, d

MCStaticTables == {<<>>, <<a, d>>}
MCIfaces == <<b>>
MCTopologies == {<<b>>, <<c>>}

=============================================================================
