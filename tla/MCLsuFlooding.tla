---------------------------- MODULE MCLsuFlooding ----------------------------
(* Instances of LsuFlooding for TLC. *)
EXTENDS LsuFlooding, TLC

CONSTANTS a, c, d, e

\* A router a, with a network of hosts, before a ring of three others, which
\* LSUs could go round.
Kite == {{a}, {a, c}, {c, d}, {d, e}, {e, c}}
KiteRoutes == (a :> <<{a}, {a, c}>>) @@ (c :> <<{a, c}, {c, d}, {e, c}>>)
                @@ (d :> <<{c, d}, {d, e}>>) @@ (e :> <<{d, e}, {e, c}>>)
=============================================================================
