---------------------------- MODULE MCIpNetwork ----------------------------
(***************************************************************************)
(* Host A, router r1, router r2, host B.  G is an address of B's network   *)
(* that nobody has, X one of a network that no router is on.               *)
(***************************************************************************)
EXTENDS IpNetwork

CONSTANTS A, B, G, X, a1, b1, b2, c2, r1, r2

MCStation ==
    [x \in Addresses |->
        CASE x \in {A, B} -> x
          [] x \in {a1, b1} -> r1
          [] x \in {b2, c2} -> r2
          [] OTHER -> NoStation]

OnA == {A, a1}
Between == {b1, b2}
OnB == {B, G, c2}

MCNet ==
    [x \in Addresses |->
        CASE x \in OnA -> 1 [] x \in Between -> 2 [] x \in OnB -> 3 [] OTHER -> 4]

Route(dest, length, gw, iface) == [dest |-> dest, length |-> length, gw |-> gw, iface |-> iface]

\* The second delivery: direct routes with the gateway 0, and on r2 a route to B alone
\* before one that aggregates what is behind r1 and B.
Direct(r) ==
    IF r = r1 THEN <<Route(OnA, 24, None, a1), Route(Between, 24, None, b1)>>
    ELSE <<Route(OnB \cup OnA, 16, b1, b2), Route({B}, 32, B, c2),
           Route(OnB, 24, None, c2), Route(Between, 24, None, b2)>>

Behind(r) == IF r = r1 THEN <<Route(OnB, 24, b2, b1)>> ELSE <<>>

Second(more) ==
    [delivery |-> "second", table |-> [r \in Routers |-> Direct(r) \o Behind(r) \o more[r]]]

\* Both send X to each other.
Looping == [r \in Routers |-> IF r = r1 THEN <<Route({X}, 24, b2, b1)>> ELSE <<Route({X}, 24, b1, b2)>>]
Default == [r \in Routers |-> IF r = r1 THEN <<Route(Addresses, 0, b2, b1)>> ELSE <<>>]

\* The first delivery: every gateway is an address.
First ==
    [delivery |-> "first",
     table |-> [r \in Routers |->
        IF r = r1 THEN <<Route({A}, 32, A, a1), Route({b2}, 32, b2, b1), Route(OnB, 24, b2, b1)>>
        ELSE <<Route({B}, 32, B, c2), Route({b1}, 32, b1, b2), Route(OnA, 24, b1, b2),
               Route({G}, 32, G, c2)>>]]

MCNetworks == {Second(Looping), Second(Default), First}

Offer(src, via, dst, kind, ttl) ==
    [src |-> src, via |-> via, dst |-> dst, kind |-> kind, ttl |-> ttl]

MCOffers ==
    {Offer(A, a1, dst, "data", 3) : dst \in {B, G, X, c2}}
       \cup {Offer(A, a1, c2, "echo", ttl) : ttl \in {2, 3}}
       \cup {Offer(B, c2, A, "data", ttl) : ttl \in {1, 3}}
       \cup {Offer(A, a1, B, "ospf", 3)}

=============================================================================
