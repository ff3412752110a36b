----------------------------- MODULE LsuFlooding -----------------------------
(***************************************************************************)
(* How LSUs spread in a network of PWOSPF routers (the LSU half of         *)
(* enrutamiento/sr_pwospf.c, and pwospf_topology.c): a router floods what  *)
(* passes check_sequence_number, and entries that are not refreshed die.   *)
(* Nothing else ends the flooding, for the TTL of an LSU is lowered and    *)
(* never looked at.                                                        *)
(*                                                                         *)
(* A received LSU has a thread of its own, so LSUs are checked, applied and *)
(* flooded in any order; a copy of an LSU is on a link or in the thread that *)
(* handles it.  The LSAs of an LSU are applied here in one step, and so are *)
(* entries aged.  A network is the set of the routers on it.               *)
(***************************************************************************)
EXTENDS Naturals, Sequences, FiniteSets, Bags, BagsExt

CONSTANTS
  Routers,     \* the routers of the network
  NoRouter,    \* 0, as the neighbor of a network without one
  Links,       \* the networks, as the one or two routers on each
  Routes,      \* per router, its networks in the order of its routing table
  Followed,    \* those that come and go, and whose LSUs are followed; the
               \* others run all the time and know their neighbors
  TopoTimeout, \* OSPF_TOPO_ENTRY_TIMEOUT, in seconds
  MaxDelay,    \* seconds an LSU may take on a link and in a thread
  SeqMod       \* numbers of a 16-bit g_sequence_num

ASSUME NetworkAssumption ==
  /\ NoRouter \notin Routers
  /\ \A l \in Links : l \subseteq Routers /\ Cardinality(l) \in 1..2
  /\ Routes \in [Routers -> Seq(Links) \ {<<>>}]
  /\ Followed \subseteq Routers
ASSUME NumbersAssumption ==
  /\ TopoTimeout \in Nat
  /\ MaxDelay \in Nat
  /\ SeqMod \in Nat \ {0}

VARIABLES
  up,      \* the routers that run
  slept,   \* those where send_all_lsu has slept since its last round
  seq,     \* g_sequence_num of each router
  known,   \* the neighbors whose neighbor_id an interface has
  table,   \* g_topology of each router
  copies   \* bag of the copies of LSUs on links and in threads

vars == <<up, slept, seq, known, table, copies>>

Lsa == [net : Links, nbr : Routers \union {NoRouter}]
Lsu == [rid : Routers, seq : 0..(SeqMod - 1), lsas : Seq(Lsa)]
Entry == [rid : Routers, net : Links, nbr : Routers \union {NoRouter},
          seq : 0..(SeqMod - 1), age : 0..TopoTimeout]
\* wait is the seconds since the last step.
Copy == [to : Routers, from : Routers, lsu : Lsu,
         at : {"link", "refresh"}, wait : 0..MaxDelay]
Sent(q, r, u) ==
  [to |-> q, from |-> r, lsu |-> u, at |-> "link", wait |-> 0]

Neighbors(r) == {q \in Routers \ {r} : {r, q} \in Links}

\* The network has been running for long, the followed routers are down.
Init ==
  /\ up = Routers \ Followed
  /\ slept = {}
  /\ seq = [r \in Routers |-> 0]
  /\ known = [r \in Routers |-> IF r \in Followed THEN {} ELSE Neighbors(r)]
  /\ table = [r \in Routers |-> <<>>]
  /\ copies = EmptyBag

-----------------------------------------------------------------------------
(* What a router sends.                                                    *)

\* send_lsu lists the direct networks, each with the neighbor on it.
LsasOf(r, neighbors) ==
  [k \in DOMAIN Routes[r] |->
     LET others == (Routes[r][k] \ {r}) \intersect neighbors
     IN  [net |-> Routes[r][k],
          nbr |-> IF others = {} THEN NoRouter ELSE CHOOSE q \in others : TRUE]]
LsuOf(r, neighbors) ==
  [rid |-> r, seq |-> seq[r], lsas |-> LsasOf(r, neighbors)]

InFlight(r, s) ==
  \E c \in DOMAIN copies : c.lsu.rid = r /\ c.lsu.seq = s

\* A round: an LSU to each neighbor, and the next number.  Bound: a number is
\* not used again while the LSU that had it is still under way.
Round(r, neighbors) ==
  /\ ~InFlight(r, seq[r])
  /\ copies' = copies (+) SetToBag({Sent(q, r, LsuOf(r, neighbors)) :
                                      q \in neighbors})
  /\ seq' = [seq EXCEPT ![r] = (@ + 1) % SeqMod]

\* send_all_lsu, which sleeps before each round.
Periodic(r) ==
  /\ r \in slept
  /\ slept' = slept \ {r}
  /\ Round(r, known[r])
  /\ UNCHANGED <<up, known, table>>

\* A HELLO from a new neighbor is followed by a round at once; the silence of
\* one is not.  Bound: that takes OSPF_NEIGHBOR_TIMEOUT, longer than LSUs do.
Meet(r, q) ==
  /\ r \in up \intersect Followed
  /\ q \in Neighbors(r) \ known[r]
  /\ q \in up
  /\ known' = [known EXCEPT ![r] = @ \union {q}]
  /\ Round(r, known'[r])
  /\ UNCHANGED <<up, slept, table>>
Miss(r, q) ==
  /\ r \in up \intersect Followed
  /\ q \in known[r]
  /\ \A s \in 0..(SeqMod - 1) : ~InFlight(r, s)
  /\ known' = [known EXCEPT ![r] = @ \ {q}]
  /\ UNCHANGED <<up, slept, seq, table, copies>>

-----------------------------------------------------------------------------
(* sr_handle_pwospf_lsu_packet, on a thread of its own.                    *)

Becomes(c, d) == copies' = BagAdd(BagRemove(copies, c), d)
Gone(c) == copies' = BagRemove(copies, c)

FirstOf(S, k) == k \in S /\ \A j \in S : k <= j

\* check_sequence_number compares with the first entry of the router only.
\* (mutant: the number that is known passes too)
Passes_Again(s, t) == s <= t
Passes(s, t) == s < t
Newer(u, t) ==
  LET own == {k \in DOMAIN t : t[k].rid = u.rid}
  IN  \A k \in own : FirstOf(own, k) => Passes(t[k].seq, u.seq)

Drop(c) ==
  /\ c.at = "link" /\ c.to \in up
  /\ c.lsu.rid = c.to \/ ~Newer(c.lsu, table[c.to])
  /\ Gone(c)
  /\ UNCHANGED <<up, slept, seq, known, table>>
Accept(c) ==
  /\ c.at = "link" /\ c.to \in up
  /\ c.lsu.rid # c.to /\ Newer(c.lsu, table[c.to])
  /\ Becomes(c, [c EXCEPT !.at = "refresh", !.wait = 0])
  /\ UNCHANGED <<up, slept, seq, known, table>>

\* refresh_topology_entry: the first entry of the network that is the
\* router's own is refreshed, one that contradicts the LSA ends the search.
Contradicts(e, r, nbr) ==
  e.nbr # NoRouter /\ (e.rid # nbr \/ e.nbr # r)
Decides(e, r, lsa) ==
  e.net = lsa.net /\ (e.rid = r \/ Contradicts(e, r, lsa.nbr))
EntryOf(u, lsa) ==
  [rid |-> u.rid, net |-> lsa.net, nbr |-> lsa.nbr, seq |-> u.seq, age |-> 0]
Refreshed(t, u, lsa) ==
  LET deciding == {k \in DOMAIN t : Decides(t[k], u.rid, lsa)}
      own == {k \in deciding : FirstOf(deciding, k) /\ t[k].rid = u.rid}
  IN  IF deciding = {} THEN <<EntryOf(u, lsa)>> \o t
      ELSE [k \in DOMAIN t |->
              IF k \in own THEN EntryOf(u, lsa) ELSE t[k]]

\* All LSAs, and then a copy to the neighbor_ip of every interface but the one
\* the LSU came in by.  It stays when the neighbor is gone; what is sent to the
\* 0 that it is at first is lost.
Applied(t, u) ==
  LET after[k \in 0..Len(u.lsas)] ==
        IF k = 0 THEN t ELSE Refreshed(after[k - 1], u, u.lsas[k])
  IN  after[Len(u.lsas)]
Apply(c) ==
  /\ c.at = "refresh"
  /\ table' = [table EXCEPT ![c.to] = Applied(@, c.lsu)]
  /\ copies' = BagRemove(copies, c) (+)
                 SetToBag({Sent(q, c.to, c.lsu) :
                             q \in Neighbors(c.to) \ {c.from}})
  /\ UNCHANGED <<up, slept, seq, known>>

\* A frame to a router that is down, or one that is lost.
Vanish(c) ==
  /\ c.at = "link" /\ c.to \notin up
  /\ Gone(c)
  /\ UNCHANGED <<up, slept, seq, known, table>>
Lose(c) ==
  /\ c.at = "link"
  /\ Gone(c)
  /\ UNCHANGED <<up, slept, seq, known, table>>

-----------------------------------------------------------------------------
(* Time, and routers that come and go.                                     *)

\* check_topology_age goes on, after an entry is deleted, from the one behind
\* it, which is then neither aged nor deleted in this pass.
\* (mutant: entries do not die)
Old(e) == e.age = TopoTimeout
Aged_Kept(t) ==
  [k \in DOMAIN t |-> IF Old(t[k]) THEN t[k] ELSE [t[k] EXCEPT !.age = @ + 1]]
Aged(t) ==
  LET dies[k \in 0..Len(t)] == k # 0 /\ Old(t[k]) /\ ~dies[k - 1]
      left == SelectSeq([k \in DOMAIN t |-> k], LAMBDA k : ~dies[k])
  IN  [j \in DOMAIN left |->
         IF dies[left[j] - 1] THEN t[left[j]]
         ELSE [t[left[j]] EXCEPT !.age = @ + 1]]

\* A second passes in every router, while no LSU is kept waiting too long.
Tick ==
  /\ \A c \in DOMAIN copies : c.wait < MaxDelay
  /\ table' = [r \in Routers |-> Aged(table[r])]
  /\ copies' = [d \in {[c EXCEPT !.wait = @ + 1] : c \in DOMAIN copies} |->
                  copies[[d EXCEPT !.wait = @ - 1]]]
  /\ slept' = up \intersect Followed
  /\ UNCHANGED <<up, seq, known>>

\* The process ends, with all it knows and the threads that handle LSUs.
Crash(r) ==
  /\ r \in up \intersect Followed
  /\ up' = up \ {r}
  /\ slept' = slept \ {r}
  /\ seq' = [seq EXCEPT ![r] = 0]
  /\ known' = [known EXCEPT ![r] = {}]
  /\ table' = [table EXCEPT ![r] = <<>>]
  /\ copies' = [c \in {d \in DOMAIN copies : d.to # r \/ d.at = "link"} |->
                  copies[c]]
Start(r) ==
  /\ r \in Followed \ up
  /\ up' = up \union {r}
  /\ UNCHANGED <<slept, seq, known, table, copies>>

-----------------------------------------------------------------------------
Handle(c) == Drop(c) \/ Accept(c) \/ Apply(c) \/ Vanish(c)
HandleOf(r, s) ==
  \E c \in DOMAIN copies : c.lsu.rid = r /\ c.lsu.seq = s /\ Handle(c)
Outside(r) ==
  \/ \E q \in Routers : Meet(r, q) \/ Miss(r, q)
  \/ Crash(r) \/ Start(r)
Next ==
  \/ \E c \in DOMAIN copies : Handle(c) \/ Lose(c)
  \/ \E r \in Followed : Periodic(r) \/ Outside(r)
  \/ Tick
Spec == Init /\ [][Next]_vars

\* Threads are scheduled, time passes and send_all_lsu is called; nothing makes
\* HELLOs arrive or routers come and go.
Fairness ==
  /\ \A r \in Followed : /\ WF_vars(Periodic(r))
                         /\ \A s \in 0..(SeqMod - 1) : WF_vars(HandleOf(r, s))
  /\ WF_vars(Tick)
FairSpec == Spec /\ Fairness

-----------------------------------------------------------------------------
(* Properties.                                                             *)

\* The flooding of every LSU ends, in a network with cycles and although the
\* TTL does not limit it (sr_handle_pwospf_lsu_packet).
FloodingEnds ==
  \A r \in Followed, s \in 0..(SeqMod - 1) : InFlight(r, s) ~> ~InFlight(r, s)

\* A router that is down for good is forgotten everywhere: no copy of its LSUs
\* goes round for ever and keeps its entries alive (check_topology_age).
DownIsForgotten ==
  \A r \in Followed :
    <>[](r \notin up)
      => <>[](\A q \in Routers : \A k \in DOMAIN table[q] : table[q][k].rid # r)

\* A router that is up for good and knows its neighbors is heard everywhere
\* again and again, also when it counts from 0 after a restart or a wrap and
\* its LSUs are taken for old ones at first (check_sequence_number).
Settled(r) == r \in up /\ known[r] = Neighbors(r)
Hears(q, r) ==
  \E k \in DOMAIN table[q] : table[q][k].rid = r /\ table[q][k].age = 0
Loss == \E c \in DOMAIN copies : Lose(c) /\ ~Handle(c)
UpIsHeard ==
  \A r \in Followed :
    (<>[]Settled(r) /\ <>[][~Loss]_vars)
      => \A q \in Routers \ {r} : []<>(Hears(q, r) \/ q \notin up)
=============================================================================
