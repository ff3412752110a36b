---------------------------- MODULE MCVnsSession ----------------------------
(***************************************************************************)
(* Two runs of one router, one after the other; the first sends frames.    *)
(***************************************************************************)
EXTENDS VnsSession

CONSTANTS v1, c1, c2, main, worker

MCOwner == [c \in Conns |-> v1]
MCIps == [v \in Vhosts |-> <<2, 1>>]
MCMaxFrames == [c \in Conns |-> IF c = c1 THEN 3 ELSE 0]

=============================================================================
