--------------------------- MODULE PwospfNeighbors ---------------------------
(***************************************************************************)
(* The neighbors of a PWOSPF router (enrutamiento/pwospf_neighbors.c and   *)
(* the hello half of sr_pwospf.c): the list g_neighbors, neighbor_id and   *)
(* neighbor_ip of each interface, and the three threads on them.           *)
(*                                                                         *)
(* The main thread handles a HELLO: it writes the interface and the list   *)
(* with no lock, and takes the lock of ospf_subsys only to send LSUs.  The *)
(* thread of check_neighbors_life holds the lock while it ages the list,   *)
(* deletes the dead and clears interfaces.  The thread of send_all_lsu     *)
(* holds it while it sends LSUs.  The program is built without             *)
(* optimisation, so each read and write of shared memory is the source's;  *)
(* the two reads of p->next->field are one step where nobody else can      *)
(* write the field once p->next leads to its node.                         *)
(*                                                                         *)
(* A HELLO dropped for its checksum, mask or interval changes nothing and  *)
(* is left out, and so are the contents of LSUs, but for where they go.    *)
(***************************************************************************)
EXTENDS Naturals, Sequences, FiniteSets

CONSTANTS
  Ifs,              \* the interfaces, if_list
  Routers,          \* ids of the other routers, also their address on a link
  NoRouter,         \* 0, as an id and as an address
  Peers,            \* <<i, n>>: router n is on the link of interface i
  NeighborTimeout,  \* OSPF_NEIGHBOR_TIMEOUT
  SeqMod,           \* numbers of a 16-bit g_sequence_num
  MaxNodes          \* bound: list nodes ever allocated

ASSUME RouterAssumption ==
  /\ Ifs # {}
  /\ NoRouter \notin Routers
  /\ Peers \subseteq Ifs \X Routers
ASSUME BoundAssumption ==
  /\ NeighborTimeout \in Nat \ {0}
  /\ SeqMod \in Nat \ {0}
  /\ MaxNodes \in Nat

VARIABLES
  node,    \* every ospfv2_neighbor ever allocated; an index is a pointer
  known,   \* neighbor_id of each interface
  addr,    \* neighbor_ip of each interface
  lock,    \* the holder of ospf_subsys->lock
  main,    \* the call of the main thread
  life,    \* where check_neighbors_life is
  round,   \* where send_all_lsu is
  seq,     \* g_sequence_num
  lsu,     \* the LSUs the last step sent: on an interface, to ip_dst, over a hop
  fault    \* a thread has used a node that was freed

vars == <<node, known, addr, lock, main, life, round, seq, lsu, fault>>

Node == [id : Routers \union {NoRouter}, alive : 0..NeighborTimeout,
         next : Nat, freed : BOOLEAN]
NewNode(n) ==
  [id |-> n, alive |-> NeighborTimeout, next |-> 0, freed |-> FALSE]
Null == 0
First == 1   \* g_neighbors, a node with no neighbor that is never deleted
Pointers == DOMAIN node
Head1 == node[First].next

\* ptr is the node made or walked to; then says where linking it returns to.
AnyIf == CHOOSE i \in Ifs : TRUE
NoCall == [at |-> "idle", id |-> NoRouter, if |-> AnyIf, ptr |-> Null,
           then |-> "idle"]
\* ptr is the variable of check_neighbors_alive; nx is ptr->next as it was
\* loaded for the node it leads to (temp in delete_neighbor); to and val are the
\* pointer to store in ptr->next and the age to store in nx; removed is the list
\* of results, left the interfaces that the loop over its first id has not
\* reached, if the one it has compared.
Asleep == [at |-> "asleep", ptr |-> Null, nx |-> Null, to |-> Null, val |-> 0,
           removed |-> <<>>, left |-> {}, if |-> AnyIf]
\* left are the interfaces to come, if the one an LSU is made for and to the
\* ip_dst it has; changed is history: a HELLO has written the neighbor of that
\* interface since the round looked at it, or is in the middle of that.
NoRound == [at |-> "asleep", left |-> {}, if |-> AnyIf, to |-> NoRouter,
            changed |-> FALSE]
Making == round.at \in {"dest", "lookup", "queue"}
Lsu(i, to, hop) == [if |-> i, to |-> to, hop |-> hop]

Init ==
  /\ node = <<NewNode(NoRouter)>>
  /\ known = [i \in Ifs |-> NoRouter]
  /\ addr = [i \in Ifs |-> NoRouter]
  /\ lock = "free"
  /\ main = NoCall
  /\ life = Asleep
  /\ round = NoRound
  /\ seq = 0
  /\ lsu = {}
  /\ fault = FALSE

Main(at) == ~fault /\ main.at = at
Life(at) == ~fault /\ life.at = at
Live(p) == p = Null \/ ~node[p].freed

-----------------------------------------------------------------------------
(* sr_handle_pwospf_hello_packet, in the main thread.                      *)

\* A HELLO that changes the neighbor of its interface.
HelloNew(i, n) ==
  /\ Main("idle")
  /\ Len(node) + 2 <= MaxNodes
  /\ known[i] # n
  /\ known' = [known EXCEPT ![i] = n]
  /\ main' = [NoCall EXCEPT !.at = "create", !.id = n, !.if = i]
  /\ round' = [round EXCEPT !.changed = @ \/ (Making /\ round.if = i)]
  /\ UNCHANGED <<node, addr, lock, life, seq, fault>>

\* One from the neighbor of the interface.
HelloKnown(i, n) ==
  /\ Main("idle")
  /\ Len(node) + 2 <= MaxNodes
  /\ known[i] = n
  /\ main' = [NoCall EXCEPT !.at = "walk", !.id = n, !.ptr = First]
  /\ UNCHANGED <<node, known, addr, lock, life, round, seq, fault>>

\* (mutant: the address stays)
Create_KeepsAddr ==
  /\ Main("create")
  /\ node' = Append(node, NewNode(main.id))
  /\ main' = [main EXCEPT !.at = "link", !.ptr = Len(node) + 1,
                          !.then = "round"]
  /\ UNCHANGED <<known, addr, lock, life, round, seq, fault>>
Create ==
  /\ Main("create")
  /\ addr' = [addr EXCEPT ![main.if] = main.id]
  /\ node' = Append(node, NewNode(main.id))
  /\ main' = [main EXCEPT !.at = "link", !.ptr = Len(node) + 1,
                          !.then = "round"]
  /\ UNCHANGED <<known, lock, life, round, seq, fault>>

\* add_neighbor: new->next = first->next, then first->next = new.
\* (mutant: the two ends are swapped)
OldHead_New == main.ptr
OldHead == Head1
LinkNext ==
  /\ Main("link")
  /\ node' = [node EXCEPT ![main.ptr].next = OldHead]
  /\ main' = [main EXCEPT !.at = "head"]
  /\ UNCHANGED <<known, addr, lock, life, round, seq, fault>>
LinkHead ==
  /\ Main("head")
  /\ node' = [node EXCEPT ![First].next = main.ptr]
  /\ main' = [main EXCEPT !.at = main.then]
  /\ UNCHANGED <<known, addr, lock, life, round, seq, fault>>

\* An LSU on every interface that has a neighbor, under the lock: whoever
\* else writes what it reads holds the lock, so it is one step.
\* (mutant: without the lock)
MayLock_Always == TRUE
MayLock == lock = "free"
LsuRound ==
  /\ Main("round")
  /\ MayLock
  /\ lsu' = {Lsu(i, addr[i], addr[i]) : i \in {j \in Ifs : known[j] # NoRouter}}
  /\ seq' = (seq + 1) % SeqMod
  /\ main' = [main EXCEPT !.at = "walk", !.ptr = First]
  /\ UNCHANGED <<node, known, addr, lock, life, round, fault>>

\* refresh_neighbors_alive: the id of a node is compared, and then its age
\* written or its next node read; at the end of the list a node is added.
Walk ==
  /\ Main("walk")
  /\ Live(main.ptr)
  /\ main' = [main EXCEPT !.at =
                 IF node[main.ptr].id = main.id THEN "refresh" ELSE "next"]
  /\ UNCHANGED <<node, known, addr, lock, life, round, seq, fault>>
Refresh ==
  /\ Main("refresh")
  /\ Live(main.ptr)
  /\ node' = [node EXCEPT ![main.ptr].alive = NeighborTimeout]
  /\ main' = NoCall
  /\ UNCHANGED <<known, addr, lock, life, round, seq, fault>>
\* (mutant: the walk stays on a node that does not match)
Onward_Stuck(p) == p
Onward(p) == node[p].next
WalkOn ==
  /\ Main("next")
  /\ Live(main.ptr)
  /\ Onward(main.ptr) # Null
  /\ main' = [main EXCEPT !.at = "walk", !.ptr = Onward(main.ptr)]
  /\ UNCHANGED <<node, known, addr, lock, life, round, seq, fault>>
WalkEnd ==
  /\ Main("next")
  /\ Live(main.ptr)
  /\ Onward(main.ptr) = Null
  /\ node' = Append(node, NewNode(main.id))
  /\ main' = [main EXCEPT !.at = "link", !.ptr = Len(node) + 1,
                          !.then = "idle"]
  /\ UNCHANGED <<known, addr, lock, life, round, seq, fault>>

-----------------------------------------------------------------------------
(* check_neighbors_life, and check_neighbors_alive in it.                  *)

LifeWake ==
  /\ Life("asleep")
  /\ lock = "free"
  /\ lock' = "life"
  /\ life' = [Asleep EXCEPT !.at = "look", !.ptr = First]
  /\ UNCHANGED <<node, known, addr, main, round, seq, fault>>

\* ptr->next is NULL, or it is loaded again and its age compared with 0: what
\* another thread has linked is never NULL.
NextOf(p) == node[p].next
Dead(p) == node[p].alive = 0
LookEnd ==
  /\ Life("look")
  /\ Live(life.ptr)
  /\ NextOf(life.ptr) = Null
  /\ life' = [life EXCEPT !.at = "clear", !.left = Ifs]
  /\ UNCHANGED <<node, known, addr, lock, main, round, seq, fault>>
Look ==
  /\ Life("look")
  /\ Live(life.ptr)
  /\ NextOf(life.ptr) # Null
  /\ life' = [life EXCEPT !.at = "alive", !.nx = NextOf(life.ptr)]
  /\ UNCHANGED <<node, known, addr, lock, main, round, seq, fault>>
LookAlive ==
  /\ Life("alive")
  /\ Live(life.nx)
  /\ life' = [life EXCEPT !.at = IF Dead(life.nx) THEN "take" ELSE "age"]
  /\ UNCHANGED <<node, known, addr, lock, main, round, seq, fault>>

\* The id of ptr->next is put on the list of the removed.
Take ==
  /\ Life("take")
  /\ Live(NextOf(life.ptr))
  /\ life' = [life EXCEPT !.at = "temp",
                          !.removed = <<node[NextOf(life.ptr)].id>> \o @]
  /\ UNCHANGED <<node, known, addr, lock, main, round, seq, fault>>

\* delete_neighbor: ptr->next is read to be freed, read again for the test,
\* read again for the node after it, written, and what was read first is freed.
DeleteTemp ==
  /\ Life("temp")
  /\ life' = [life EXCEPT !.at = "test", !.nx = NextOf(life.ptr)]
  /\ UNCHANGED <<node, known, addr, lock, main, round, seq, fault>>
DeleteTest ==
  /\ Life("test")
  /\ Live(NextOf(life.ptr))
  /\ life' = [life EXCEPT
                !.at = IF NextOf(NextOf(life.ptr)) # Null THEN "load" ELSE "link",
                !.to = Null]
  /\ UNCHANGED <<node, known, addr, lock, main, round, seq, fault>>
DeleteLoad ==
  /\ Life("load")
  /\ Live(NextOf(life.ptr))
  /\ life' = [life EXCEPT !.at = "link", !.to = NextOf(NextOf(life.ptr))]
  /\ UNCHANGED <<node, known, addr, lock, main, round, seq, fault>>
Unlinked(p, to) == [node EXCEPT ![p].next = to]
DeleteLink ==
  /\ Life("link")
  /\ node' = Unlinked(life.ptr, life.to)
  /\ life' = [life EXCEPT !.at = "free"]
  /\ UNCHANGED <<known, addr, lock, main, round, seq, fault>>
DeleteFree ==
  /\ Life("free")
  /\ Live(life.nx)
  /\ node' = [node EXCEPT ![life.nx].freed = TRUE]
  /\ life' = [life EXCEPT !.at = "advance"]
  /\ UNCHANGED <<known, addr, lock, main, round, seq, fault>>

\* ptr->next->alive--: the pointer is loaded again, then the age, and stored.
\* (mutants: the age is lowered twice, or not at all)
Aged_Twice(n) == n - 2
Aged_Not(n) == n
Aged(n) == n - 1
AgePointer ==
  /\ Life("age")
  /\ life' = [life EXCEPT !.at = "lower", !.nx = NextOf(life.ptr)]
  /\ UNCHANGED <<node, known, addr, lock, main, round, seq, fault>>
AgeLoad ==
  /\ Life("lower")
  /\ Live(life.nx)
  /\ life' = [life EXCEPT !.at = "store", !.val = Aged(node[life.nx].alive)]
  /\ UNCHANGED <<node, known, addr, lock, main, round, seq, fault>>
AgeStore ==
  /\ Life("store")
  /\ node' = [node EXCEPT ![life.nx].alive = life.val]
  /\ life' = [life EXCEPT !.at = "advance"]
  /\ UNCHANGED <<known, addr, lock, main, round, seq, fault>>

\* ptr = ptr->next, also after a deletion: the node after a deleted one is
\* not looked at in this pass.
Advance ==
  /\ Life("advance")
  /\ life' = IF NextOf(life.ptr) = Null
             THEN [life EXCEPT !.at = "clear", !.left = Ifs]
             ELSE [life EXCEPT !.at = "look", !.ptr = NextOf(life.ptr)]
  /\ UNCHANGED <<node, known, addr, lock, main, round, seq, fault>>

\* Each removed id is cleared from the interfaces that still have it: a
\* comparison, then a write.
ClearTest(i) ==
  /\ Life("clear")
  /\ life.removed # <<>>
  /\ i \in life.left
  /\ life' = [life EXCEPT !.left = @ \ {i}, !.if = i,
                !.at = IF known[i] = Head(life.removed) THEN "zero" ELSE "clear"]
  /\ UNCHANGED <<node, known, addr, lock, main, round, seq, fault>>
ClearWrite ==
  /\ Life("zero")
  /\ known' = [known EXCEPT ![life.if] = NoRouter]
  /\ life' = [life EXCEPT !.at = "clear"]
  /\ UNCHANGED <<node, addr, lock, main, round, seq, fault>>
ClearNext ==
  /\ Life("clear")
  /\ life.removed # <<>>
  /\ life.left = {}
  /\ life' = [life EXCEPT !.removed = Tail(@), !.left = Ifs]
  /\ UNCHANGED <<node, known, addr, lock, main, round, seq, fault>>
LifeSleep ==
  /\ Life("clear")
  /\ life.removed = <<>>
  /\ lock' = "free"
  /\ life' = Asleep
  /\ UNCHANGED <<node, known, addr, main, round, seq, fault>>

-----------------------------------------------------------------------------
(* send_all_lsu: an LSU on each interface that has a neighbor, every       *)
(* OSPF_DEFAULT_LSUINT seconds.                                            *)

RoundWake ==
  /\ ~fault
  /\ round.at = "asleep"
  /\ lock = "free"
  /\ lock' = "round"
  /\ round' = [NoRound EXCEPT !.at = "sending", !.left = Ifs]
  /\ UNCHANGED <<node, known, addr, main, life, seq, fault>>
\* neighbor_id is compared with 0.
RoundTest(i) ==
  /\ ~fault
  /\ round.at = "sending"
  /\ i \in round.left
  /\ round' = [round EXCEPT
                 !.at = IF known[i] = NoRouter THEN "sending" ELSE "dest",
                 !.left = @ \ {i}, !.if = i,
                 !.changed = main.at = "create" /\ main.if = i]
  /\ UNCHANGED <<node, known, addr, lock, main, life, seq, fault>>
\* send_lsu reads neighbor_ip for ip_dst, again to look it up in the ARP cache,
\* and on a miss again to queue the LSU for it.
RoundDest ==
  /\ ~fault
  /\ round.at = "dest"
  /\ round' = [round EXCEPT !.at = "lookup", !.to = addr[round.if]]
  /\ UNCHANGED <<node, known, addr, lock, main, life, seq, fault>>
RoundMiss ==
  /\ ~fault
  /\ round.at = "lookup"
  /\ round' = [round EXCEPT !.at = "queue"]
  /\ UNCHANGED <<node, known, addr, lock, main, life, seq, fault>>
RoundSend ==
  /\ ~fault
  /\ round.at \in {"lookup", "queue"}
  /\ lsu' = {Lsu(round.if, round.to, addr[round.if])}
  /\ round' = [round EXCEPT !.at = "sending"]
  /\ UNCHANGED <<node, known, addr, lock, main, life, seq, fault>>
RoundEnd ==
  /\ ~fault
  /\ round.at = "sending"
  /\ round.left = {}
  /\ seq' = (seq + 1) % SeqMod
  /\ lock' = "free"
  /\ round' = NoRound
  /\ UNCHANGED <<node, known, addr, main, life, fault>>

\* Undefined behaviour, taken to end the process: a node is used, or freed
\* again, after it was freed.
Uses(p) ==
  \/ main.at \in {"walk", "refresh", "next"} /\ p = main.ptr
  \/ life.at = "look" /\ p = life.ptr
  \/ life.at \in {"take", "test", "load"} /\ p = NextOf(life.ptr)
  \/ life.at \in {"alive", "free", "lower", "store"} /\ p = life.nx
UseAfterFree ==
  /\ ~fault
  /\ \E p \in Pointers : node[p].freed /\ Uses(p)
  /\ fault' = TRUE
  /\ UNCHANGED <<node, known, addr, lock, main, life, round, seq>>

-----------------------------------------------------------------------------
\* A step that sends no LSU.
Quiet == lsu' = {}
Hello == \E i \in Ifs, n \in Routers :
           /\ <<i, n>> \in Peers
           /\ HelloNew(i, n) \/ HelloKnown(i, n)
           /\ Quiet
MainStep == \/ LsuRound
            \/ /\ Create \/ LinkNext \/ LinkHead \/ Walk \/ Refresh \/ WalkOn
                   \/ WalkEnd
               /\ Quiet
LifeStep == /\ \/ LifeWake \/ LookEnd \/ Look \/ LookAlive \/ Take
               \/ DeleteTemp \/ DeleteTest \/ DeleteLoad \/ DeleteLink \/ DeleteFree
               \/ AgePointer \/ AgeLoad \/ AgeStore \/ Advance
               \/ (\E i \in Ifs : ClearTest(i)) \/ ClearWrite \/ ClearNext
               \/ LifeSleep
            /\ Quiet
RoundStep == \/ RoundSend
             \/ /\ \/ RoundWake \/ (\E i \in Ifs : RoundTest(i)) \/ RoundDest
                   \/ RoundMiss \/ RoundEnd
                /\ Quiet

Next == Hello \/ MainStep \/ LifeStep \/ RoundStep \/ (UseAfterFree /\ Quiet)
Spec == Init /\ [][Next]_vars

\* The threads are scheduled, and none waits for the lock for ever while it
\* keeps being freed; nothing makes a HELLO arrive.
Fairness ==
  /\ WF_vars(MainStep) /\ SF_vars(LsuRound)
  /\ WF_vars(LifeStep) /\ SF_vars(LifeWake /\ Quiet)
  /\ WF_vars(RoundStep) /\ WF_vars(UseAfterFree /\ Quiet)
FairSpec == Spec /\ Fairness

-----------------------------------------------------------------------------
(* Properties.                                                             *)

TypeOK ==
  /\ node \in Seq(Node) /\ node # <<>>
  /\ known \in [Ifs -> Routers \union {NoRouter}]
  /\ addr \in [Ifs -> Routers \union {NoRouter}]
  /\ lock \in {"free", "life", "round"}
  /\ main \in [at : {"idle", "create", "link", "head", "round", "walk", "refresh",
                    "next"},
               id : Routers \union {NoRouter}, if : Ifs,
               ptr : {Null} \union Pointers, then : {"idle", "round"}]
  /\ life \in [at : {"asleep", "look", "alive", "take", "temp", "test", "load",
                     "link", "free", "age", "lower", "store", "advance",
                     "clear", "zero"},
               ptr : {Null} \union Pointers, nx : {Null} \union Pointers,
               to : {Null} \union Pointers, val : 0..NeighborTimeout,
               removed : Seq(Routers \union {NoRouter}),
               left : SUBSET Ifs, if : Ifs]
  /\ round \in [at : {"asleep", "sending", "dest", "lookup", "queue"},
                left : SUBSET Ifs, if : Ifs, to : Routers \union {NoRouter},
                changed : BOOLEAN]
  /\ seq \in 0..(SeqMod - 1)
  /\ lsu \subseteq [if : Ifs, to : Routers \union {NoRouter},
                    hop : Routers \union {NoRouter}]
  /\ fault \in BOOLEAN

\* However the accesses of add_neighbor and delete_neighbor interleave, also
\* where a HELLO between two reads of delete_neighbor makes it unlink another node
\* than the one it frees, the list leads from younger to older nodes and never
\* back to its head: it has no cycle, and no walk of it is without end.
ListDescends ==
  \A p \in Pointers :
    /\ node[p].next \in Pointers \union {Null}
    /\ node[p].next # First
    /\ p # First => node[p].next < p \/ node[p].next = Null

\* The LSUs of a round of send_all_lsu carry one sequence number, whatever
\* HELLOs come meanwhile (g_sequence_num is only changed under the lock).
RoundKeepsSeq ==
  [][round.at # "asleep" /\ round'.at # "asleep" => seq' = seq]_vars

\* Every HELLO is handled to its end (sr_handle_pwospf_hello_packet).
EveryHelloEnds == main.at # "idle" ~> (main.at = "idle" \/ fault)

\* Once no HELLO comes any more, every neighbor leaves the list, the one that
\* follows a removed one too (check_neighbors_alive does not look at it in
\* that pass).
EveryNeighborExpires == <>[][~Hello]_vars => <>[](Head1 = Null \/ fault)

\* An LSU goes to the router that is the neighbor of the interface it leaves on,
\* as its destination and as its next hop, unless a HELLO has written this
\* interface's neighbor since the LSU was begun or is between its two writes: an
\* interface that check_neighbors_life has cleared keeps the address of its last
\* neighbor, and the next HELLO's writes are read one by one (send_lsu,
\* sr_handle_pwospf_hello_packet).
LsuToNeighbor ==
  \A l \in lsu : \/ l.to = known[l.if] /\ l.hop = known[l.if]
                 \/ round.changed
=============================================================================
