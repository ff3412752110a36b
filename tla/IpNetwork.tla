----------------------------- MODULE IpNetwork -----------------------------
(***************************************************************************)
(* IP packets on their way through a network of routers: what              *)
(* sr_handle_ip_packet does to each, in the first delivery (reenvio) and   *)
(* in the second (enrutamiento), the ICMP errors and replies it sends, and *)
(* the packets that wait for ARP.                                          *)
(*                                                                         *)
(* An interface is named by its address.  The queue of ARP requests is     *)
(* reduced to what it promises (see ArpResolution): a packet waits until   *)
(* its next hop answers or is given up.                                    *)
(***************************************************************************)
EXTENDS Integers, Sequences, FiniteSets

CONSTANTS
    Routers, Hosts, NoStation,
    Addresses, None,    \* None: the gateway 0.0.0.0
    Station, Net,       \* who owns each address, or NoStation, and the network it is on
    Networks,           \* the routers' code and tables: [delivery, table]
    Junk,               \* what eight octets into a payload may read as an address
    Offers,             \* the packets that hosts send: [src, dst, via, kind, ttl]
    ErrorTtl,           \* TTL of an ICMP error
    MaxSent, MaxDamaged \* bounds on the packets sent and damaged

Errors == {"expired", "noroute", "noport", "nohost"}
Icmp == {"echo", "reply"} \cup Errors

\* struct sr_rt: what it matches is the set dest.
Entry == [dest : SUBSET Addresses, length : Nat, gw : Addresses \cup {None}, iface : Addresses]

ASSUME StationsAssumption ==
    /\ Station \in [Addresses -> Routers \cup Hosts \cup {NoStation}]
    /\ NoStation \notin Routers \cup Hosts
ASSUME NetworksAssumption ==
    /\ Networks \subseteq [delivery : {"first", "second"}, table : [Routers -> Seq(Entry)]]
    /\ \A n \in Networks, r \in Routers :
          \A i \in 1 .. Len(n.table[r]) : Station[n.table[r][i].iface] = r
ASSUME OffersAssumption ==
    Offers \subseteq [src : {a \in Addresses : Station[a] \in Hosts}, dst : Addresses,
                     via : Addresses, kind : Icmp \cup {"data", "ospf"}, ttl : Nat \ {0}]
ASSUME BoundsAssumption == MaxSent \in Nat /\ MaxDamaged \in Nat /\ ErrorTtl \in Nat \ {0}

VARIABLES
    delivery,   \* which code the routers run, and
    table,      \* their routing tables, which stay
    frames,     \* the frames on the wires
    cache,      \* the addresses in each router's ARP cache
    waiting,    \* the packets each router keeps for a next hop
    sent,       \* the packets hosts have sent
    ends,       \* how each packet ended (for the properties)
    damaged     \* the packets damaged on the way (for the properties)

vars == <<delivery, table, frames, cache, waiting, sent, ends, damaged>>
fixed == <<delivery, table, sent, damaged>>

\* An error is named by what it reports and why.
Packet(id, src, dst, ttl, kind) ==
    [id |-> id, src |-> src, dst |-> dst, ttl |-> ttl, kind |-> kind, ok |-> TRUE]

Init ==
    /\ \E n \in Networks : delivery = n.delivery /\ table = n.table
    /\ frames = {}
    /\ cache = [r \in Routers |-> {}]
    /\ waiting = [r \in Routers |-> {}]
    /\ sent = <<>>
    /\ ends = {}
    /\ damaged = {}

Interfaces(r) == {a \in Addresses : Station[a] = r}

-----------------------------------------------------------------------------
\* Routes

Matches(route, a) == a \in route.dest

\* (mutant: an entry as long as the one kept replaces it)
FindEntry_Last(routes, a) ==
    LET longest[i \in 0 .. Len(routes)] ==
            IF i = 0 THEN 0
            ELSE LET kept == longest[i - 1]
                     length == IF kept = 0 THEN 0 ELSE routes[kept].length
                 IN IF Matches(routes[i], a) /\ routes[i].length >= length THEN i ELSE kept
    IN longest[Len(routes)]

\* sr_find_rt_entry: the scan keeps an entry that is strictly longer than the one it
\* has, and it starts from length 0.
FindEntry(routes, a) ==
    LET longest[i \in 0 .. Len(routes)] ==      \* the entry kept after i of them, or 0
            IF i = 0 THEN 0
            ELSE LET kept == longest[i - 1]
                     length == IF kept = 0 THEN 0 ELSE routes[kept].length
                 IN IF Matches(routes[i], a) /\ routes[i].length > length THEN i ELSE kept
    IN longest[Len(routes)]

\* The next hop: the second delivery takes the destination for the gateway 0.
Hop(route, a) == IF delivery = "second" /\ route.gw = None THEN a ELSE route.gw

-----------------------------------------------------------------------------
\* Sending

\* sr_send_packet to the address a hop answered with: it is heard on the interface's
\* network only.
OnWire(iface, hop, p) ==
    IF hop \in Addresses /\ Station[hop] # NoStation /\ Net[hop] = Net[iface]
    THEN {[from |-> iface, to |-> hop, pkt |-> p]}
    ELSE {}

\* A packet for a hop is framed when the cache knows the hop and waits otherwise.
Framed(r, iface, hop, p) == IF hop \in cache[r] THEN OnWire(iface, hop, p) ELSE {}
Kept(r, hop, p) == IF hop \in cache[r] THEN {} ELSE {[hop |-> hop, pkt |-> p]}

\* sr_send_icmp_error_packet about p.  host_unreachable hands it a pointer past the
\* Ethernet header, which it skips once more, so the source it reads from the packet
\* is a piece of the payload; the second delivery reads only the error's destination
\* there, the first the route as well.
Source(p, kind, junk) == IF kind = "nohost" THEN junk ELSE p.src
RouteTo(p, kind, junk) == IF delivery = "second" THEN p.src ELSE Source(p, kind, junk)

\* No error is sent without a route or, in the second delivery, to the router itself.
Reports(r, p, kind, junk) ==
    /\ FindEntry(table[r], RouteTo(p, kind, junk)) # 0
    /\ delivery = "second" => p.src \notin Interfaces(r)

ErrorRoute(r, p, kind, junk) == table[r][FindEntry(table[r], RouteTo(p, kind, junk))]

ErrorHop(r, p, kind, junk) == Hop(ErrorRoute(r, p, kind, junk), RouteTo(p, kind, junk))

\* (mutant: the error comes from the address the packet was for)
Error_FromDst(r, p, kind, junk) ==
    Packet(Append(p.id, kind), p.dst, Source(p, kind, junk), ErrorTtl, kind)

Error(r, p, kind, junk) ==
    Packet(Append(p.id, kind), ErrorRoute(r, p, kind, junk).iface, Source(p, kind, junk),
           ErrorTtl, kind)

\* (mutant: both deliveries queue the buffer before they write it)
Unsent_Always(error) == [error EXCEPT !.kind = "blank"]

\* What waits of an error: the first delivery queues the buffer before it writes it.
Unsent(error) == IF delivery = "first" THEN [error EXCEPT !.kind = "blank"] ELSE error

ErrorFramed(r, p, kind, junk) ==
    IF Reports(r, p, kind, junk)
    THEN Framed(r, ErrorRoute(r, p, kind, junk).iface, ErrorHop(r, p, kind, junk),
                Error(r, p, kind, junk))
    ELSE {}

ErrorKept(r, p, kind, junk) ==
    IF Reports(r, p, kind, junk)
    THEN Kept(r, ErrorHop(r, p, kind, junk), Unsent(Error(r, p, kind, junk)))
    ELSE {}

\* The packet of a frame is over.
End(p, how) == ends' = ends \cup {[id |-> p.id, kind |-> p.kind, how |-> how]}

Report(r, f, kind) ==
    /\ frames' = (frames \ {f}) \cup ErrorFramed(r, f.pkt, kind, None)
    /\ waiting' = [waiting EXCEPT ![r] = @ \cup ErrorKept(r, f.pkt, kind, None)]
    /\ End(f.pkt, kind)
    /\ UNCHANGED <<fixed, cache>>

-----------------------------------------------------------------------------
\* sr_handle_ip_packet

\* A frame at a router that is no noise and whose checksum is right.
Arrived(r, f) == f.to \in Interfaces(r) /\ f.pkt.ok /\ f.pkt.kind # "blank"

\* The second delivery looks for OSPF first, whatever the destination.
IsOspf(p) == delivery = "second" /\ p.kind = "ospf"

ForMe(r, p) == p.dst \in Interfaces(r)

\* The first delivery looks at the TTL of its own packets too.
IsExpired(r, p) == p.ttl <= 1 /\ (delivery = "second" => ~ForMe(r, p))

Handled(r, f) == Arrived(r, f) /\ ~IsOspf(f.pkt) /\ ~IsExpired(r, f.pkt)

DropBroken(r, f) ==
    /\ f.to \in Interfaces(r)
    /\ ~f.pkt.ok \/ f.pkt.kind = "blank"
    /\ frames' = frames \ {f}
    /\ End(f.pkt, "broken")
    /\ UNCHANGED <<fixed, cache, waiting>>

\* What follows is in PwospfNeighbors and LsuFlooding.
TakeOspf(r, f) ==
    /\ Arrived(r, f)
    /\ IsOspf(f.pkt)
    /\ frames' = frames \ {f}
    /\ End(f.pkt, "taken")
    /\ UNCHANGED <<fixed, cache, waiting>>

TimeExceeded(r, f) ==
    /\ Arrived(r, f)
    /\ ~IsOspf(f.pkt)
    /\ IsExpired(r, f.pkt)
    /\ Report(r, f, "expired")

\* sr_send_icmp: the request itself goes back on the interface it came from, with its
\* addresses swapped and the TTL it has left.
EchoReply(r, f) ==
    /\ Handled(r, f)
    /\ ForMe(r, f.pkt)
    /\ f.pkt.kind = "echo"
    /\ frames' = (frames \ {f}) \cup
          OnWire(f.to, f.from, [f.pkt EXCEPT !.src = f.pkt.dst, !.dst = f.pkt.src, !.kind = "reply"])
    /\ UNCHANGED <<fixed, cache, waiting, ends>>

TakeIcmp(r, f) ==
    /\ Handled(r, f)
    /\ ForMe(r, f.pkt)
    /\ f.pkt.kind \in Icmp \ {"echo"}
    /\ frames' = frames \ {f}
    /\ End(f.pkt, "taken")
    /\ UNCHANGED <<fixed, cache, waiting>>

PortUnreachable(r, f) ==
    /\ Handled(r, f)
    /\ ForMe(r, f.pkt)
    /\ f.pkt.kind \notin Icmp
    /\ Report(r, f, "noport")

NetUnreachable(r, f) ==
    /\ Handled(r, f)
    /\ ~ForMe(r, f.pkt)
    /\ FindEntry(table[r], f.pkt.dst) = 0
    /\ Report(r, f, "noroute")

\* (mutant: the TTL stays)
Forward_Same(r, f) ==
    /\ Handled(r, f)
    /\ ~ForMe(r, f.pkt)
    /\ LET i == FindEntry(table[r], f.pkt.dst)
           hop == Hop(table[r][i], f.pkt.dst)
       IN /\ i # 0
          /\ frames' = (frames \ {f}) \cup Framed(r, table[r][i].iface, hop, f.pkt)
          /\ waiting' = [waiting EXCEPT ![r] = @ \cup Kept(r, hop, f.pkt)]
    /\ UNCHANGED <<fixed, cache, ends>>

Forward(r, f) ==
    /\ Handled(r, f)
    /\ ~ForMe(r, f.pkt)
    /\ LET i == FindEntry(table[r], f.pkt.dst)
           route == table[r][i]
           hop == Hop(route, f.pkt.dst)
           p == [f.pkt EXCEPT !.ttl = @ - 1]
       IN /\ i # 0
          /\ frames' = (frames \ {f}) \cup Framed(r, route.iface, hop, p)
          /\ waiting' = [waiting EXCEPT ![r] = @ \cup Kept(r, hop, p)]
    /\ UNCHANGED <<fixed, cache, ends>>

Handle(r, f) ==
    \/ DropBroken(r, f) \/ TakeOspf(r, f) \/ TimeExceeded(r, f) \/ EchoReply(r, f)
    \/ TakeIcmp(r, f) \/ PortUnreachable(r, f) \/ NetUnreachable(r, f) \/ Forward(r, f)

-----------------------------------------------------------------------------
\* ARP, as the queue of requests promises it

Waiting(r, hop) == {w \in waiting[r] : w.hop = hop}

Served(r, hop) == waiting' = [waiting EXCEPT ![r] = @ \ Waiting(r, hop)]

\* The broadcast goes out on every interface; a reply comes to the one on the network
\* of the hop, and the packets leave by that one.
Answers(r, hop) ==
    {i \in Interfaces(r) : hop \in Addresses /\ Station[hop] # NoStation /\ Net[i] = Net[hop]}

ArpReply(r, hop) ==
    /\ Waiting(r, hop) # {}
    /\ \E i \in Answers(r, hop) :
          frames' = frames \cup UNION {OnWire(i, hop, w.pkt) : w \in Waiting(r, hop)}
    /\ Served(r, hop)
    /\ cache' = [cache EXCEPT ![r] = @ \cup {hop}]
    /\ UNCHANGED <<fixed, ends>>

\* A mapping is 15 seconds old.
ArpExpire(r, hop) ==
    /\ hop \in cache[r]
    /\ cache' = [cache EXCEPT ![r] = @ \ {hop}]
    /\ UNCHANGED <<fixed, frames, waiting, ends>>

\* The hop did not answer: host_unreachable, for each packet.  (An error that waits for
\* the same hop would call handle_arpreq without end.)
GiveUp(r, hop) ==
    /\ Waiting(r, hop) # {}
    /\ Answers(r, hop) = {}
    /\ \E junk \in Junk :
          LET given == {w.pkt : w \in Waiting(r, hop)}
          IN /\ frames' = frames \cup UNION {ErrorFramed(r, p, "nohost", junk) : p \in given}
             /\ waiting' = [waiting EXCEPT ![r] =
                   (@ \ Waiting(r, hop)) \cup UNION {ErrorKept(r, p, "nohost", junk) : p \in given}]
             /\ ends' = ends \cup {[id |-> p.id, kind |-> p.kind, how |-> "nohost"] : p \in given}
    /\ UNCHANGED <<fixed, cache>>

-----------------------------------------------------------------------------
\* Hosts and wires

HostSend(o) ==
    /\ Len(sent) < MaxSent
    /\ sent' = Append(sent, o)
    /\ frames' = frames \cup
          OnWire(o.src, o.via, Packet(<<Len(sent) + 1>>, o.src, o.dst, o.ttl, o.kind))
    /\ UNCHANGED <<delivery, table, cache, waiting, ends, damaged>>

HostTake(f) ==
    /\ Station[f.to] \in Hosts
    /\ frames' = frames \ {f}
    /\ End(f.pkt, IF ~f.pkt.ok \/ f.pkt.kind = "blank" THEN "broken"
                  ELSE IF f.pkt.dst = f.to THEN "taken" ELSE "astray")
    /\ UNCHANGED <<fixed, cache, waiting>>

Damage(f) ==
    /\ Cardinality(damaged) < MaxDamaged
    /\ f.pkt.ok
    /\ frames' = (frames \ {f}) \cup {[f EXCEPT !.pkt.ok = FALSE]}
    /\ damaged' = damaged \cup {f.pkt.id}
    /\ UNCHANGED <<delivery, table, cache, waiting, sent, ends>>

Deliver == \E f \in frames : HostTake(f) \/ \E r \in Routers : Handle(r, f)

Resolve(r) == \E hop \in {w.hop : w \in waiting[r]} : ArpReply(r, hop) \/ GiveUp(r, hop)

Next ==
    \/ \E o \in Offers : HostSend(o)
    \/ Deliver
    \/ \E f \in frames : Damage(f)
    \/ \E r \in Routers : Resolve(r)
    \/ \E r \in Routers : \E hop \in cache[r] : ArpExpire(r, hop)

Spec == Init /\ [][Next]_vars

\* Routers and hosts take the next frame while there is one; a next hop answers or is
\* given up.
Fairness == WF_vars(Deliver) /\ \A r \in Routers : WF_vars(Resolve(r))

FairSpec == Spec /\ Fairness

-----------------------------------------------------------------------------
\* Properties

Carried == {f.pkt : f \in frames} \cup UNION {{w.pkt : w \in waiting[r]} : r \in Routers}

\* Types; and what is on a wire or waits for one has a TTL of one at least.
TypeOK ==
    /\ [delivery |-> delivery, table |-> table] \in Networks
    /\ \A f \in frames : Station[f.to] # NoStation /\ Station[f.from] # NoStation /\ Net[f.to] = Net[f.from]
    /\ \A p \in Carried :
          /\ p.kind \in Icmp \cup {"data", "ospf", "blank"}
          /\ p.ttl \in Nat \ {0}
          /\ p.src \in Addresses /\ p.dst \in Addresses \cup Junk

\* What the scan finds is longer than every other entry that matches the address, or
\* as long and before it; and it finds nothing where every entry that matches has
\* length 0.  So a default route is never used, though it matches: the comment of
\* sr_find_rt_entry, "Find the entry with the longest matching prefix", says more.
LongestButDefault ==
    \A r \in Routers, a \in Addresses :
        LET found == FindEntry(table[r], a)
            matching == {i \in 1 .. Len(table[r]) : Matches(table[r][i], a)}
            default == {i \in matching : table[r][i].length = 0}
        IN IF matching = default THEN found = 0
           ELSE /\ found \in matching
                /\ \A i \in matching :
                      \/ table[r][i].length < table[r][found].length
                      \/ table[r][i].length = table[r][found].length /\ found <= i

\* Every packet is in one place at most: on one wire, waiting for one hop, or over in
\* one way.  So no packet is told about twice, or both delivered and told about.
OnePlace ==
    \A id \in {p.id : p \in Carried} \cup {e.id : e \in ends} :
        Cardinality({f \in frames : f.pkt.id = id})
        + Cardinality({x \in Routers \X UNION {waiting[r] : r \in Routers} :
                          x[2] \in waiting[x[1]] /\ x[2].pkt.id = id})
        + Cardinality({e \in ends : e.id = id}) <= 1

\* The packets have their types and places.
PacketsOK == TypeOK /\ OnePlace

\* Errors are sent about errors too, which the code never asks.  Still no error goes
\* out about an error about an error, even where routes loop and hosts are dead: an
\* error comes from the interface towards its next hop, which has a route to it.
ErrorsDieOut == \A p \in Carried : Len(p.id) <= 3

\* Every packet's way ends: in loops of routes too nothing is forwarded, waits or is
\* reported for ever.
JourneysEnd == <>[](Carried = {})

\* The packet a host sent, or the reply to it, was taken, or an error about it was.
Settled(n) ==
    \E e \in ends : e.how = "taken" /\ e.id[1] = n /\ Len(e.id) <= 2

\* What nobody is told of: the checksum of the packet or of its error is wrong, its
\* next hop is dead (the error goes to an address read from its payload: see Source),
\* or the reply used up the TTL of the request.
Untold(n) ==
    \/ \E id \in damaged : id[1] = n
    \/ \E e \in ends : e.id = <<n>> /\ (e.how = "nohost" \/ (e.kind = "reply" /\ e.how = "expired"))

\* In the second delivery every other packet is answered, delivered or its sender told,
\* whoever waits for ARP on the way.
SenderIsTold ==
    \A n \in 1 .. MaxSent :
        delivery = "second" /\ Len(sent) >= n ~> Settled(n) \/ Untold(n)

=============================================================================
