---------------------------- MODULE PwospfRoutes ----------------------------
(***************************************************************************)
(* How a PWOSPF router gets its routes: the table g_topology of what other *)
(* routers advertise (enrutamiento/pwospf_topology.c) and the search       *)
(* run_dijkstra that turns it into dynamic routes (dijkstra.c, sr_rt.c).   *)
(* The table is the list as the threads of PwospfTopology leave it, with   *)
(* entries doubled and lost; searches come one after the other, and none   *)
(* while the table changes.                                                *)
(*                                                                         *)
(* A network stands for its prefix and its mask, which agree here, and an  *)
(* interface for the network it is on.  An item of the search keeps the    *)
(* interface its chain of parents ends in, for that is all that is read of *)
(* the chain.  Ages are left out: any entry may expire.  Of the stack only *)
(* the top is read, the last item that was put on it.                      *)
(***************************************************************************)
EXTENDS Naturals, Sequences, FiniteSets

CONSTANTS
  Routers,     \* the other routers
  Self,        \* this router, as others advertise it
  NoRouter,    \* 0: a network with no router on the other side
  Nets,        \* the networks
  IfList,      \* if_list: the networks of the interfaces
  Peer,        \* the router on the other side of an interface
  Adverts,     \* what LSAs may say
  MaxEntries,  \* bound: entries of the topology
  MaxCost      \* bound: links of a path

Ifs == {IfList[k] : k \in DOMAIN IfList}
Entry == [rid : Routers, net : Nets, nbr : Routers \union {Self, NoRouter}]

ASSUME RoutersAssumption ==
  /\ Self \notin Routers /\ NoRouter \notin Routers /\ Self # NoRouter
  /\ IfList \in Seq(Nets) /\ IfList # <<>>
  /\ Peer \in [Ifs -> Routers]
  /\ Adverts \subseteq Entry
\* A network joins two routers at most: an interface keeps one neighbor_id, which is
\* not its own.
ASSUME LinksAssumption ==
  /\ \A e \in Adverts : e.nbr # e.rid
  /\ \A e, f \in Adverts :
       (e.net = f.net /\ f.nbr = e.rid) => e.nbr \in {f.rid, NoRouter}
  /\ \A e \in Adverts :
       e.net \in Ifs => (e.rid = Peer[e.net] => e.nbr \in {Self, NoRouter})
ASSUME BoundsAssumption == MaxEntries \in Nat /\ MaxCost \in Nat \ {0}

VARIABLES
  topology,  \* g_topology: its entries, the newest first
  known,     \* neighbor_id of each interface
  rt,        \* the routing table
  at,        \* where run_dijkstra is
  dest,      \* topo_entry: the entry whose network is looked for
  heap,      \* dijkstra_heap
  top,       \* the item on top of dijkstra_stack
  ptr,       \* the interface or the entry looked at
  pos        \* where dijkstra_stack_reorder is in the heap

search == <<dest, heap, top, ptr, pos>>
vars == <<topology, known, rt, at, search>>

Item == [net : Nets, nbr : Routers \union {Self, NoRouter},
         cost : 1..MaxCost, via : Ifs]
NoItem == [net |-> IfList[1], nbr |-> NoRouter, cost |-> 0, via |-> IfList[1]]
Route == [net : Nets, via : Ifs, dynamic : BOOLEAN]
Direct(i) == [net |-> i, via |-> i, dynamic |-> FALSE]

\* The networks of the interfaces are in the table before the first search.
Init ==
  /\ topology = <<>>
  /\ known = [i \in Ifs |-> NoRouter]
  /\ rt = [k \in DOMAIN IfList |-> Direct(IfList[k])]
  /\ at = "idle"
  /\ dest = 1
  /\ heap = <<>>
  /\ top = NoItem
  /\ ptr = 1
  /\ pos = 1

HasRoute(n) == \E k \in DOMAIN rt : rt[k].net = n
Waiting == at \in {"idle", "outdated"}
\* A search follows, at once or after other changes.
Search == at' \in {"outdated", "clear"} /\ UNCHANGED <<known, rt, search>>

-----------------------------------------------------------------------------
(* What changes the topology, or what the next search finds.               *)

\* What the threads of an LSA leave, however they interleave in the list (see
\* PwospfTopology): an entry at the head, of which there may already be one, ...
Insert(e) ==
  /\ Waiting
  /\ Len(topology) < MaxEntries
  /\ topology' = <<e>> \o topology
  /\ Search
\* ... a new neighbor in an entry of the router for the network, ...
Renew(e, k) ==
  /\ Waiting
  /\ topology[k].rid = e.rid /\ topology[k].net = e.net
  /\ topology' = [topology EXCEPT ![k].nbr = e.nbr]
  /\ Search
\* ... or nothing, when the LSA contradicts another router's.
Ignore ==
  /\ Waiting
  /\ UNCHANGED topology
  /\ Search

\* check_topology_age removes an entry, and a search follows; so does an LSU's
\* thread that writes the head it read before another wrote it.
Without(s, k) == [j \in 1..(Len(s) - 1) |-> IF j < k THEN s[j] ELSE s[j + 1]]
Remove(k) ==
  /\ Waiting
  /\ topology' = Without(topology, k)
  /\ Search

\* A neighbor is found or lost; no search follows.
Meet(i) ==
  /\ Waiting
  /\ known' = [known EXCEPT ![i] = IF @ = NoRouter THEN Peer[i] ELSE NoRouter]
  /\ at' = "outdated"
  /\ UNCHANGED <<topology, rt, search>>

-----------------------------------------------------------------------------
(* run_dijkstra.                                                           *)

\* clear_routes looks at the entry after each, so never at the first.
\* (mutant: no route is dynamic)
Dynamic_Never(r) == FALSE
Dynamic(r) == r.dynamic
DropRoute ==
  /\ at = "clear" /\ ptr < Len(rt)
  /\ Dynamic(rt[ptr + 1])
  /\ rt' = Without(rt, ptr + 1)
  /\ UNCHANGED <<topology, known, at, search>>
KeepRoute ==
  /\ at = "clear" /\ ptr < Len(rt)
  /\ ~Dynamic(rt[ptr + 1])
  /\ ptr' = ptr + 1
  /\ UNCHANGED <<topology, known, rt, at, dest, heap, top, pos>>
Cleared ==
  /\ at = "clear" /\ ptr >= Len(rt)
  /\ at' = "dest"
  /\ UNCHANGED <<topology, known, rt, search>>

\* The next network of the topology; one that has a route is passed over.
NextDest ==
  /\ at = "dest" /\ dest <= Len(topology)
  /\ IF HasRoute(topology[dest].net)
     THEN dest' = dest + 1 /\ UNCHANGED <<at, ptr>>
     ELSE at' = "roots" /\ ptr' = 1 /\ UNCHANGED dest
  /\ UNCHANGED <<topology, known, rt, heap, top, pos>>

\* The interfaces with a neighbor, on a network of the topology, are pushed.
Usable(i) ==
  /\ known[i] # NoRouter
  /\ \E k \in DOMAIN topology : topology[k].net = i
Root(i) == [net |-> i, nbr |-> known[i], cost |-> 1, via |-> i]
PushRoot ==
  /\ at = "roots" /\ ptr <= Len(IfList)
  /\ heap' = IF Usable(IfList[ptr]) THEN <<Root(IfList[ptr])>> \o heap ELSE heap
  /\ ptr' = ptr + 1
  /\ UNCHANGED <<topology, known, rt, at, dest, top, pos>>
RootsPushed ==
  /\ at = "roots" /\ ptr > Len(IfList)
  /\ at' = "pop"
  /\ top' = NoItem
  /\ UNCHANGED <<topology, known, rt, dest, heap, ptr, pos>>

\* Nothing is left: the route of the last item put on the stack in this search
\* is taken.  Only a search without roots puts none on it, and then neither did
\* the searches before it, so the stack is empty.
PopNone ==
  /\ at = "pop" /\ heap = <<>>
  /\ at' = "install"
  /\ UNCHANGED <<topology, known, rt, search>>
\* An item on the network looked for ends the search, one with no router
\* behind it is dropped, and any other is expanded.
PopDest ==
  /\ at = "pop" /\ heap # <<>>
  /\ Head(heap).net = topology[dest].net
  /\ top' = Head(heap) /\ heap' = Tail(heap)
  /\ at' = "install"
  /\ UNCHANGED <<topology, known, rt, dest, ptr, pos>>
PopLeaf ==
  /\ at = "pop" /\ heap # <<>>
  /\ Head(heap).net # topology[dest].net /\ Head(heap).nbr = NoRouter
  /\ heap' = Tail(heap)
  /\ UNCHANGED <<topology, known, rt, at, dest, top, ptr, pos>>
PopRouter ==
  /\ at = "pop" /\ heap # <<>>
  /\ Head(heap).net # topology[dest].net /\ Head(heap).nbr # NoRouter
  /\ top' = Head(heap) /\ heap' = Tail(heap)
  /\ at' = "expand" /\ ptr' = 1
  /\ UNCHANGED <<topology, known, rt, dest, pos>>

\* Every entry of the router behind the item makes an item one link further.
Extends(e, x) == e.rid = x.nbr /\ e.net # x.net /\ e.nbr # x.nbr
\* (mutant: the cost is that of the parent)
Further_Not(x) == x.cost
Further(x) == x.cost + 1
Child(e, x) == [net |-> e.net, nbr |-> e.nbr, cost |-> Further(x), via |-> x.via]
PushChild ==
  /\ at = "expand" /\ ptr <= Len(topology)
  /\ Extends(topology[ptr], top)
  /\ top.cost < MaxCost
  /\ heap' = <<Child(topology[ptr], top)>> \o heap
  /\ at' = "reorder" /\ pos' = 1
  /\ UNCHANGED <<topology, known, rt, dest, top, ptr>>
\* (mutant: the walk stays at the entry)
Past_Not(p) == p
Past(p) == p + 1
PassOver ==
  /\ at = "expand" /\ ptr <= Len(topology)
  /\ ~Extends(topology[ptr], top)
  /\ ptr' = Past(ptr)
  /\ UNCHANGED <<topology, known, rt, at, dest, heap, top, pos>>
Expanded ==
  /\ at = "expand" /\ ptr > Len(topology)
  /\ at' = "pop"
  /\ UNCHANGED <<topology, known, rt, search>>

\* dijkstra_stack_reorder: one pass over the heap swaps neighbors that are out
\* of order.
\* (mutant: the other way round)
OutOfOrder_Less(x, y) == x.cost < y.cost
OutOfOrder(x, y) == x.cost > y.cost
Swap ==
  /\ at = "reorder" /\ pos < Len(heap)
  /\ heap' = IF OutOfOrder(heap[pos], heap[pos + 1])
             THEN [heap EXCEPT ![pos] = heap[pos + 1], ![pos + 1] = heap[pos]]
             ELSE heap
  /\ pos' = pos + 1
  /\ UNCHANGED <<topology, known, rt, at, dest, top, ptr>>
Reordered ==
  /\ at = "reorder" /\ pos >= Len(heap)
  /\ at' = "expand" /\ ptr' = Past(ptr)
  /\ UNCHANGED <<topology, known, rt, dest, heap, top, pos>>

\* The route goes through the interface the chain of the last item begins at.
Found == [net |-> topology[dest].net, via |-> top.via, dynamic |-> TRUE]
Install ==
  /\ at = "install"
  /\ rt' = IF top = NoItem THEN rt ELSE Append(rt, Found)
  /\ at' = "dest" /\ dest' = dest + 1
  /\ UNCHANGED <<topology, known, heap, top, ptr, pos>>
Finish ==
  /\ at = "dest" /\ dest > Len(topology)
  /\ at' = "idle"
  /\ dest' = 1 /\ heap' = <<>> /\ top' = NoItem /\ ptr' = 1 /\ pos' = 1
  /\ UNCHANGED <<topology, known, rt>>

-----------------------------------------------------------------------------
Learn == \E e \in Adverts :
           Insert(e) \/ \E k \in DOMAIN topology : Renew(e, k)
Change == Learn \/ Ignore \/ (\E k \in DOMAIN topology : Remove(k))
            \/ (\E i \in Ifs : Meet(i))
Step == DropRoute \/ KeepRoute \/ Cleared \/ NextDest \/ PushRoot \/ RootsPushed
          \/ PopNone \/ PopDest \/ PopLeaf \/ PopRouter
          \/ PushChild \/ PassOver \/ Expanded \/ Swap \/ Reordered
          \/ Install \/ Finish
Next == Change \/ Step
Spec == Init /\ [][Next]_vars

\* The thread of run_dijkstra is scheduled.
FairSpec == Spec /\ WF_vars(Step)

-----------------------------------------------------------------------------
(* What a route should be, from the topology alone.                        *)

\* The routers that are at most n links away when the first one is i.
Near(i) ==
  LET near[n \in 1..MaxCost] ==
        IF n = 1 THEN IF Usable(i) THEN {known[i]} ELSE {}
        ELSE near[n - 1] \union
             {topology[k].nbr : k \in {j \in DOMAIN topology :
                                         topology[j].rid \in near[n - 1]}}
  IN near
\* How far network d is through i, MaxCost when it cannot be reached.
FarThrough(i, d) ==
  LET hops == {n \in 1..(MaxCost - 1) :
                 \E k \in DOMAIN topology :
                   topology[k].net = d /\ topology[k].rid \in Near(i)[n]}
  IN  IF hops = {} THEN MaxCost
      ELSE 1 + CHOOSE n \in hops : \A m \in hops : n <= m
Reachable(d) == \E i \in Ifs : FarThrough(i, d) < MaxCost

\* The search goes round a cycle: some walk is longer than there are items.
Walks ==
  LET walks[n \in 1..(MaxEntries + Len(IfList) + 1)] ==
        IF n = 1 THEN {<<i, known[i]>> : i \in {j \in Ifs : Usable(j)}}
        ELSE UNION {{<<topology[k].net, topology[k].nbr>> :
                       k \in {j \in DOMAIN topology :
                                /\ topology[j].rid = w[2]
                                /\ topology[j].net # w[1]
                                /\ topology[j].nbr # w[2]}} : w \in walks[n - 1]}
  IN walks
Endless == Walks[MaxEntries + Len(IfList) + 1] # {}

-----------------------------------------------------------------------------
(* Properties.                                                             *)

TypeOK ==
  /\ topology \in Seq(Entry)
  /\ known \in [Ifs -> Routers \union {NoRouter}]
  /\ rt \in Seq(Route) /\ rt # <<>>
  /\ at \in {"idle", "outdated", "clear", "dest", "roots", "pop", "expand",
             "reorder", "install"}
  /\ dest \in Nat \ {0}
  /\ heap \in Seq(Item)
  /\ top \in Item \union {NoItem}
  /\ ptr \in Nat \ {0} /\ pos \in Nat \ {0}

\* The heap is in order of cost whenever it is popped, with what the search of
\* another network left in it and although dijkstra_stack_reorder makes one
\* pass only.
HeapInOrder ==
  at # "reorder" =>
    \A i, j \in DOMAIN heap : i < j => heap[i].cost <= heap[j].cost

\* A route to a network that can be reached begins with an interface no other
\* is nearer than (run_dijkstra).
RoutesAreShortest ==
  at = "idle" =>
    \A k \in DOMAIN rt :
      (rt[k].dynamic /\ Reachable(rt[k].net)) =>
        \A i \in Ifs :
          FarThrough(rt[k].via, rt[k].net) <= FarThrough(i, rt[k].net)

\* After a search every network of the topology that can be reached has a
\* route, and no route is left of a network that is not there any more.
RoutesFollowTopology ==
  at = "idle" =>
    /\ \A k \in DOMAIN topology :
         Reachable(topology[k].net) => HasRoute(topology[k].net)
    /\ \A j \in DOMAIN rt :
         rt[j].dynamic => \E k \in DOMAIN topology : topology[k].net = rt[j].net

\* The search for a network ends if it can be reached, cycles or not, and if
\* there is no cycle (run_dijkstra marks nothing as visited).
SearchEnds ==
  (at = "roots" /\ (Reachable(topology[dest].net) \/ ~Endless)) ~> at = "install"
=============================================================================
