--------------------------- MODULE PwospfTopology ---------------------------
(***************************************************************************)
(* The list g_topology (enrutamiento/pwospf_topology.c) under the threads  *)
(* that change it: one for each LSU, which takes no lock, and that of      *)
(* check_topology_entries_age, whose lock none of the others takes.        *)
(*                                                                         *)
(* Each access to the list is a step, in the order of the source; fields   *)
(* that are never written again are read with the pointer that leads to    *)
(* them, and a new entry, which no other thread knows, is made where its   *)
(* next is stored.  Numbers and neighbors are left out: an LSU whose       *)
(* router has an entry may be a repeated one, and an entry of another      *)
(* router for the network may contradict an LSA.  So is what a thread does *)
(* without the list: searches, flooding.                                   *)
(***************************************************************************)
EXTENDS Naturals, Sequences

CONSTANTS
  Routers,   \* the other routers
  NoRouter,  \* the router of g_topology's first entry
  Nets,      \* the networks
  NoNet,     \* its network
  Threads,   \* bound: the LSUs handled at once
  Lsus,      \* the LSUs that may come, [rid, nets]
  Timeout,   \* OSPF_TOPO_ENTRY_TIMEOUT
  MaxNodes   \* bound: entries ever allocated

ASSUME LsuAssumption ==
  \A l \in Lsus : l.rid \in Routers /\ l.nets \in Seq(Nets) /\ l.nets # <<>>
ASSUME BoundAssumption == Timeout \in Nat \ {0} /\ MaxNodes \in Nat

VARIABLES
  node,    \* every pwospf_topology_entry ever allocated; an index is a pointer
  thread,  \* the calls of sr_handle_pwospf_lsu_packet
  age,     \* the call of check_topology_age
  fault,   \* a thread has used an entry that was freed
  held,    \* history: the entries linked and not unlinked again
  overlap, \* history: two threads were in each other's way, see Crossing
  watched  \* history: an entry was freed that another thread was at

history == <<held, overlap, watched>>
vars == <<node, thread, age, fault, history>>

Null == 0
First == 1   \* g_topology, an entry of no network that is never deleted
Pointers == DOMAIN node
NextOf(p) == node[p].next
Head1 == NextOf(First)
Node == [rid : Routers \union {NoRouter}, net : Nets \union {NoNet},
         age : 0..Timeout, next : Nat, freed : BOOLEAN]
NewNode(r, n, p) ==
  [rid |-> r, net |-> n, age |-> 0, next |-> p, freed |-> FALSE]

\* nets are the LSAs to come, the one in hand first; ptr is where the walk is or
\* the entry made; found is the entry that check_sequence_number will compare.
NoCall == [at |-> "idle", walk |-> "none", rid |-> NoRouter, nets |-> <<>>,
           ptr |-> Null, found |-> Null]
\* nx and to are ptr->next and the pointer to store there, val the age to store.
\* What is not read again is forgotten.
Asleep == [at |-> "asleep", ptr |-> Null, nx |-> Null, to |-> Null, val |-> 0,
           deleted |-> FALSE]

Init ==
  /\ node = <<NewNode(NoRouter, NoNet, Null)>>
  /\ thread = [t \in Threads |-> NoCall]
  /\ age = Asleep
  /\ fault = FALSE
  /\ held = {}
  /\ overlap = FALSE
  /\ watched = FALSE

Live(p) == ~node[p].freed
Thread(t, at) == ~fault /\ thread[t].at = at
Goes(t, c) == thread' = [thread EXCEPT ![t] = c]
Same(t, u) == /\ thread[t].rid = thread[u].rid
              /\ thread[t].nets # <<>> /\ thread[u].nets # <<>>
              /\ Head(thread[t].nets) = Head(thread[u].nets)

-----------------------------------------------------------------------------
(* sr_handle_pwospf_lsu_packet.                                            *)

\* A walk begins at the first entry.
Walk(c, w) == [c EXCEPT !.at = "next", !.walk = w, !.ptr = First, !.found = Null]
\* After an LSA: the next one, or the table is printed and the thread ends.
NextLsa(c) ==
  IF Tail(c.nets) = <<>>
  THEN Walk([c EXCEPT !.nets = <<>>], "last")
  ELSE Walk([c EXCEPT !.nets = Tail(@)], "refresh")

\* Every LSA in hand may yet need an entry.
Room(n) ==
  LET coming[S \in SUBSET Threads] ==
        IF S = {} THEN 0
        ELSE LET t == CHOOSE t \in S : TRUE
             IN  Len(thread[t].nets) + coming[S \ {t}]
  IN  Len(node) + coming[Threads] + n <= MaxNodes
Arrive(t, l) ==
  /\ Thread(t, "idle")
  /\ Room(Len(l.nets))
  /\ Goes(t, Walk([NoCall EXCEPT !.rid = l.rid, !.nets = l.nets], "check"))
  /\ UNCHANGED <<node, age, fault, history>>

\* entry = entry->next.
Onward(p) == NextOf(p)
Follow(t) ==
  LET c == thread[t] IN
  /\ Thread(t, "next")
  /\ Live(c.ptr)
  /\ Onward(c.ptr) # Null
  /\ Goes(t, [c EXCEPT !.ptr = Onward(c.ptr),
                       !.at = IF c.walk \in {"check", "refresh"} THEN "test"
                              ELSE "next"])
  /\ UNCHANGED <<node, age, fault, history>>

\* The end of check_sequence_number, of print_topolgy_table in it, of
\* refresh_topology_entry and of the last print_topolgy_table.
EndWalk(t) ==
  LET c == thread[t] IN
  /\ Thread(t, "next")
  /\ Live(c.ptr)
  /\ Onward(c.ptr) = Null
  /\ \/ c.walk = "check" /\ Goes(t, Walk(c, "refresh"))
     \/ c.walk = "print" /\ Goes(t, [c EXCEPT !.at = "decide", !.ptr = Null])
     \/ c.walk = "refresh" /\ Goes(t, [c EXCEPT !.at = "add", !.ptr = Null])
     \/ c.walk = "last" /\ Goes(t, NoCall)
  /\ UNCHANGED <<node, age, fault, history>>

\* check_sequence_number: the first entry of the router decides, when the table
\* has been printed.
CheckTest(t) ==
  LET c == thread[t] IN
  /\ Thread(t, "test") /\ c.walk = "check"
  /\ Live(c.ptr)
  /\ Goes(t, IF node[c.ptr].rid = c.rid
             THEN [Walk(c, "print") EXCEPT !.found = c.ptr]
             ELSE [c EXCEPT !.at = "next"])
  /\ UNCHANGED <<node, age, fault, history>>
Decide(t) ==
  LET c == thread[t] IN
  /\ Thread(t, "decide")
  /\ Live(c.found)
  /\ \/ Goes(t, NoCall)
     \/ Goes(t, Walk(c, "refresh"))
  /\ UNCHANGED <<node, age, fault, history>>

\* refresh_topology_entry: the entry of the router is refreshed; one of another
\* router for the network may contradict the LSA, which is dropped then.
Mine(p, c) == node[p].net = Head(c.nets) /\ node[p].rid = c.rid
RefreshTest(t) ==
  LET c == thread[t] IN
  /\ Thread(t, "test") /\ c.walk = "refresh"
  /\ Live(c.ptr)
  /\ \/ Mine(c.ptr, c) /\ Goes(t, [c EXCEPT !.at = "renew"])
     \/ ~Mine(c.ptr, c) /\ Goes(t, [c EXCEPT !.at = "next"])
     \/ /\ ~Mine(c.ptr, c) /\ node[c.ptr].net = Head(c.nets)
        /\ Goes(t, NextLsa(c))
  /\ UNCHANGED <<node, age, fault, history>>
\* The age is written, then the number and the neighbor.
RenewAge(t) ==
  LET c == thread[t] IN
  /\ Thread(t, "renew")
  /\ Live(c.ptr)
  /\ node' = [node EXCEPT ![c.ptr].age = 0]
  /\ Goes(t, [c EXCEPT !.at = "rest"])
  /\ UNCHANGED <<age, fault, history>>
RenewRest(t) ==
  LET c == thread[t] IN
  /\ Thread(t, "rest")
  /\ Live(c.ptr)
  /\ Goes(t, NextLsa(c))
  /\ UNCHANGED <<node, age, fault, history>>

\* add_topology_entry: first->next is read for the test, read again for
\* new->next, and written.
Made(t, p) == NewNode(thread[t].rid, Head(thread[t].nets), p)
AddTest(t) ==
  /\ Thread(t, "add")
  /\ Head1 # Null
  /\ Goes(t, [thread[t] EXCEPT !.at = "link"])
  /\ UNCHANGED <<node, age, fault, history>>
AddAlone(t) ==
  /\ Thread(t, "add")
  /\ Head1 = Null
  /\ node' = Append(node, Made(t, Null))
  /\ Goes(t, [thread[t] EXCEPT !.at = "head", !.ptr = Len(node) + 1])
  /\ UNCHANGED <<age, fault, history>>
\* (mutant: the new entry is stored in itself)
OldHead_New == Len(node) + 1
OldHead == Head1
LinkNext(t) ==
  /\ Thread(t, "link")
  /\ node' = Append(node, Made(t, OldHead))
  /\ Goes(t, [thread[t] EXCEPT !.at = "head", !.ptr = Len(node) + 1])
  /\ UNCHANGED <<age, fault, history>>

\* The thread u is about to write first->next from what it has read before, or is
\* looking for an entry like the one of t; the ageing thread is about to.
Crossing(t) ==
  \/ \E u \in Threads \ {t} :
       \/ thread[u].at = "head"
       \/ /\ thread[u].walk = "refresh" /\ thread[u].at \in {"next", "test", "add", "link"}
          /\ Same(t, u)
  \/ age.at \in {"temp", "test", "load", "link"} /\ age.ptr = First
LinkHead(t) ==
  LET c == thread[t] IN
  /\ Thread(t, "head")
  /\ node' = [node EXCEPT ![First].next = c.ptr]
  /\ Goes(t, NextLsa(c))
  /\ held' = held \union {c.ptr}
  /\ overlap' = (overlap \/ Crossing(t))
  /\ UNCHANGED <<age, fault, watched>>

-----------------------------------------------------------------------------
(* check_topology_age, once a second.                                      *)

Age(at) == ~fault /\ age.at = at
AgeWake ==
  /\ Age("asleep")
  /\ age' = [Asleep EXCEPT !.at = "look", !.ptr = First]
  /\ UNCHANGED <<node, thread, fault, history>>

\* When the pass is over the table is printed if an entry was deleted.
Over(a) == [a EXCEPT !.at = "print", !.ptr = First]
PassOver(a) == IF a.deleted THEN Over(a) ELSE Asleep

\* ptr->next is NULL, or it is loaded again and its age compared: what another
\* thread has linked is never NULL.
LookEnd ==
  /\ Age("look")
  /\ Live(age.ptr)
  /\ NextOf(age.ptr) = Null
  /\ age' = PassOver(age)
  /\ UNCHANGED <<node, thread, fault, history>>
Look ==
  /\ Age("look")
  /\ Live(age.ptr)
  /\ NextOf(age.ptr) # Null
  /\ age' = [age EXCEPT !.at = "old", !.nx = NextOf(age.ptr)]
  /\ UNCHANGED <<node, thread, fault, history>>
LookAge ==
  /\ Age("old")
  /\ Live(age.nx)
  /\ age' = [age EXCEPT !.at = IF node[age.nx].age = Timeout THEN "temp" ELSE "age",
                         !.nx = Null]
  /\ UNCHANGED <<node, thread, fault, history>>

\* delete_topology_entry: ptr->next is read to be freed, read again for the test,
\* read again for the entry after it, written, and what was read first is freed.
DeleteTemp ==
  /\ Age("temp")
  /\ age' = [age EXCEPT !.at = "test", !.nx = NextOf(age.ptr)]
  /\ UNCHANGED <<node, thread, fault, history>>
DeleteTest ==
  /\ Age("test")
  /\ Live(NextOf(age.ptr))
  /\ age' = [age EXCEPT
               !.at = IF NextOf(NextOf(age.ptr)) # Null THEN "load" ELSE "link",
               !.to = Null]
  /\ UNCHANGED <<node, thread, fault, history>>
DeleteLoad ==
  /\ Age("load")
  /\ Live(NextOf(age.ptr))
  /\ age' = [age EXCEPT !.at = "link", !.to = NextOf(NextOf(age.ptr))]
  /\ UNCHANGED <<node, thread, fault, history>>
\* (mutant: the entry behind the deleted one goes too)
Rest_Next == IF age.to = Null THEN Null ELSE NextOf(age.to)
Rest == age.to
DeleteLink ==
  /\ Age("link")
  /\ node' = [node EXCEPT ![age.ptr].next = Rest]
  /\ age' = [age EXCEPT !.at = "free", !.to = Null]
  /\ held' = held \ {age.nx}
  /\ overlap' = (overlap \/ (age.ptr = First
                               /\ \E t \in Threads : thread[t].at = "head"))
  /\ UNCHANGED <<thread, fault, watched>>
DeleteFree ==
  /\ Age("free")
  /\ Live(age.nx)
  /\ node' = [node EXCEPT ![age.nx].freed = TRUE]
  /\ age' = [age EXCEPT !.at = "advance", !.nx = Null, !.deleted = TRUE]
  /\ watched' = (watched \/ \E t \in Threads :
                              age.nx \in {thread[t].ptr, thread[t].found})
  /\ UNCHANGED <<thread, fault, held, overlap>>

\* ptr->next->age++: the pointer is loaded again, then the age, and stored.
\* (mutant: the age stays)
Aged_Not(n) == n
Aged(n) == n + 1
AgePointer ==
  /\ Age("age")
  /\ age' = [age EXCEPT !.at = "raise", !.nx = NextOf(age.ptr)]
  /\ UNCHANGED <<node, thread, fault, history>>
AgeLoad ==
  /\ Age("raise")
  /\ Live(age.nx)
  /\ age' = [age EXCEPT !.at = "store", !.val = Aged(node[age.nx].age)]
  /\ UNCHANGED <<node, thread, fault, history>>
AgeStore ==
  /\ Age("store")
  /\ node' = [node EXCEPT ![age.nx].age = age.val]
  /\ age' = [age EXCEPT !.at = "advance", !.nx = Null, !.val = 0]
  /\ UNCHANGED <<thread, fault, history>>

\* ptr = ptr->next, also after a deletion.
Advance ==
  /\ Age("advance")
  /\ age' = IF NextOf(age.ptr) = Null THEN PassOver(age)
            ELSE [age EXCEPT !.at = "look", !.ptr = NextOf(age.ptr)]
  /\ UNCHANGED <<node, thread, fault, history>>
PrintOn ==
  /\ Age("print")
  /\ Live(age.ptr)
  /\ age' = IF NextOf(age.ptr) = Null THEN Asleep
            ELSE [age EXCEPT !.ptr = NextOf(age.ptr)]
  /\ UNCHANGED <<node, thread, fault, history>>

\* Undefined behaviour, taken to end the process: an entry is used, or freed
\* again, after it was freed.
Uses(p) ==
  \/ \E t \in Threads :
       \/ thread[t].at \in {"next", "test", "renew", "rest"} /\ p = thread[t].ptr
       \/ thread[t].at = "decide" /\ p = thread[t].found
  \/ age.at \in {"look", "print"} /\ p = age.ptr
  \/ age.at \in {"test", "load"} /\ p = NextOf(age.ptr)
  \/ age.at \in {"old", "free", "raise", "store"} /\ p = age.nx
UseAfterFree ==
  /\ ~fault
  /\ \E p \in Pointers : ~Live(p) /\ Uses(p)
  /\ fault' = TRUE
  /\ UNCHANGED <<node, thread, age, history>>

-----------------------------------------------------------------------------
Arrivals == \E t \in Threads, l \in Lsus : Arrive(t, l)
ThreadStep(t) ==
  \/ Follow(t) \/ EndWalk(t) \/ CheckTest(t) \/ Decide(t)
  \/ RefreshTest(t) \/ RenewAge(t) \/ RenewRest(t)
  \/ AddTest(t) \/ AddAlone(t) \/ LinkNext(t) \/ LinkHead(t)
AgeStep ==
  \/ AgeWake \/ LookEnd \/ Look \/ LookAge
  \/ DeleteTemp \/ DeleteTest \/ DeleteLoad \/ DeleteLink \/ DeleteFree
  \/ AgePointer \/ AgeLoad \/ AgeStore \/ Advance \/ PrintOn
Next == Arrivals \/ (\E t \in Threads : ThreadStep(t)) \/ AgeStep \/ UseAfterFree
Spec == Init /\ [][Next]_vars

\* The threads are scheduled; nothing makes an LSU arrive.
Fairness == /\ \A t \in Threads : WF_vars(ThreadStep(t))
            /\ WF_vars(AgeStep) /\ WF_vars(UseAfterFree)
FairSpec == Spec /\ Fairness

-----------------------------------------------------------------------------
(* Properties.                                                             *)

\* Types, and that no age steps over Timeout, which check_topology_age compares
\* with == : an entry past it would stay for ever.
TypeOK ==
  /\ node \in Seq(Node) /\ node # <<>>
  /\ thread \in [Threads ->
       [at : {"idle", "next", "test", "decide", "renew", "rest", "add", "link",
              "head"},
        walk : {"none", "check", "print", "refresh", "last"},
        rid : Routers \union {NoRouter}, nets : Seq(Nets),
        ptr : {Null} \union Pointers, found : {Null} \union Pointers]]
  /\ age \in [at : {"asleep", "look", "old", "temp", "test", "load", "link",
                    "free", "age", "raise", "store", "advance", "print"},
              ptr : {Null} \union Pointers, nx : {Null} \union Pointers,
              to : {Null} \union Pointers, val : 0..Timeout, deleted : BOOLEAN]
  /\ fault \in BOOLEAN /\ overlap \in BOOLEAN /\ watched \in BOOLEAN
  /\ held \subseteq Pointers

\* However the accesses of LSU threads and of the ageing thread interleave, an
\* entry leads to one linked before it and none back to the head: the list never
\* closes to a ring, in which every walk would stay for ever.
ListDescends ==
  \A p \in Pointers :
    /\ node[p].next \in Pointers \union {Null}
    /\ node[p].next # First
    /\ p # First => node[p].next < p \/ node[p].next = Null

\* The list is of the entries linked and not unlinked again, the newest first.
Below(p) == {q \in held : p = First \/ q < p}
LeadsOn(p) ==
  IF Below(p) = {} THEN node[p].next = Null
  ELSE node[p].next \in Below(p) /\ \A q \in Below(p) : q <= node[p].next
InOrder ==
  /\ \A p \in held : Live(p)
  /\ \A p \in held \union {First} : LeadsOn(p)

\* A router has one entry for a network.
OneEntry ==
  \A p, q \in held :
    (node[p].rid = node[q].rid /\ node[p].net = node[q].net) => p = q

\* What is wrong with the table takes two threads in each other's way, at the head
\* or with LSAs for the same entry: until then no entry is lost, doubled or left
\* in the list when it is freed, whatever walks it meanwhile.  And until then, or
\* until the ageing thread has freed the entry another one is at, no memory is
\* used wrongly.
TableSound ==
  /\ ~overlap => InOrder /\ OneEntry
  /\ fault => overlap \/ watched

\* Once no LSU comes any more, every LSU thread comes to its end and the table
\* empties, the entry that follows a deleted one too, unless the process ends.
TableEmpties ==
  <>[][~Arrivals]_vars =>
    <>[](fault \/ (Head1 = Null /\ \A t \in Threads : thread[t].at = "idle"))
=============================================================================
