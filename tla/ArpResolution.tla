--------------------------- MODULE ArpResolution ---------------------------
(***************************************************************************)
(* What resolving an address promises, whichever threads take part: one    *)
(* resolution of an address at a time, that ends with an answer or, after  *)
(* MaxTries broadcasts at least, in vain.                                  *)
(***************************************************************************)
EXTENDS Naturals, Sequences

CONSTANTS Ips, MaxTries

VARIABLE res   \* every resolution ever begun, in order

Resolution ==
  [ip : Ips, asks : Nat, state : {"asking", "answered", "closed"}]

Asking(ip) ==
  {r \in DOMAIN res : res[r].ip = ip /\ res[r].state = "asking"}

Init == res = <<>>

Begin(ip) ==
  /\ Asking(ip) = {}
  /\ res' = Append(res, [ip |-> ip, asks |-> 0, state |-> "asking"])

\* A broadcast may still go out for an address that has just answered.
Broadcast(r) ==
  /\ res[r].state # "closed"
  /\ res' = [res EXCEPT ![r].asks = @ + 1]

Answer(r) ==
  /\ res[r].state = "asking"
  /\ res' = [res EXCEPT ![r].state = "answered"]

GiveUp(r) ==
  /\ res[r].state = "asking"
  /\ res[r].asks >= MaxTries
  /\ res' = [res EXCEPT ![r].state = "closed"]

\* What waited for the answer has been served.
Close(r) ==
  /\ res[r].state = "answered"
  /\ res' = [res EXCEPT ![r].state = "closed"]

Next ==
  \/ \E ip \in Ips : Begin(ip)
  \/ \E r \in DOMAIN res : Broadcast(r) \/ Answer(r) \/ GiveUp(r) \/ Close(r)

Spec == Init /\ [][Next]_res
=============================================================================
