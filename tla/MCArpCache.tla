----------------------------- MODULE MCArpCache -----------------------------
(* Small instances of ArpCache: two next hops a and b, a packet p1 that the *)
(* main thread forwards from behind a to b, and a packet p2 that a worker   *)
(* sends, which nobody is told about.                                      *)
EXTENDS ArpCache, TLC

CONSTANTS a, b, p1, p2, main, timeout, worker

\* Both packets wait for b.
SameHop == (p1 :> b) @@ (p2 :> b)
\* The source of p1 is reached through a; p2 comes from the router.
SourceOfP1 == (p1 :> a) @@ (p2 :> NoIp)
\* p1 and p2 cross: each one's source is the other's next hop.
CrossHop == (p1 :> b) @@ (p2 :> a)
CrossSource == (p1 :> a) @@ (p2 :> b)
BothMain == (p1 :> main) @@ (p2 :> main)
MainAndWorker == (p1 :> main) @@ (p2 :> worker)
=============================================================================
