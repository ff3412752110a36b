----------------------------- MODULE MCJsonRpc -----------------------------
(***************************************************************************)
(* Messages of three pieces, of which recv returns two.  One client sends  *)
(* two requests of every kind, another one calls beside it.                *)
(***************************************************************************)
EXTENDS JsonRpc

CONSTANTS c1, c2

MCPlans == [c \in Clients |-> IF c = c1 THEN Kinds ELSE {"answered"}]
MCMaxRequests == [c \in Clients |-> IF c = c1 THEN 2 ELSE 1]

=============================================================================
