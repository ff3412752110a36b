----------------------------- MODULE RouteTable -----------------------------
(***************************************************************************)
(* The list of struct sr_rt, by the accesses to its memory: the thread     *)
(* that adds the direct routes, the threads that run_dijkstra runs in, and *)
(* the main thread, which looks routes up for the packets it forwards.     *)
(* Nothing keeps them apart: run_dijkstra locks a copy of the mutex.       *)
(*                                                                         *)
(* A test of a pointer and the step to it are one action: had the pointer  *)
(* changed between the two reads, the later value alone would count, or it *)
(* would be null, which ends the process as every fault does.  The state   *)
(* begins when g_router_id is set, for no LSU is handled before that.      *)
(***************************************************************************)
EXTENDS Integers, Sequences, FiniteSets

CONSTANTS
    Setup,          \* pwospf_run_thread
    Searches,       \* threads that run_dijkstra runs in
    Main,           \* the thread that forwards packets
    Nets,           \* networks
    StaticTables,   \* the routing tables the router may load, sequences of Nets
    Ifaces,         \* the networks of the interfaces, in order
    Topologies,     \* the networks of g_topology a search may find, in order
    Dests,          \* the networks packets are for
    MaxSearches     \* bound on the searches that are started

Writers == {Setup} \cup Searches
Threads == Writers \cup {Main}

ASSUME ThreadsDiffer == Setup \notin Searches /\ Main \notin Writers
ASSUME TablesAssumption == StaticTables \subseteq Seq(Nets)
\* The router id is the address of one of the interfaces.
ASSUME IfacesAssumption == Ifaces \in Seq(Nets) /\ Ifaces # <<>>
ASSUME TopologiesAssumption == Topologies \subseteq Seq(Nets)
ASSUME BoundAssumption == MaxSearches \in Nat

VARIABLES
    statics,    \* the number of routes in the file (for the properties)
    node,       \* every struct sr_rt ever allocated, by age: an index is a pointer
    head,       \* sr->routing_table
    pc,         \* where each thread is
    entry,      \* the pointer each thread walks with
    temp,       \* the pointer sr_del_rt_entry frees
    succ,       \* the pointer it is about to store
    best,       \* the route a lookup returns
    net,        \* the network a lookup is for
    todo,       \* the networks each writer has yet to go through
    searches,   \* how many searches were started
    overlap,    \* whether two writers ever ran at once (for the properties)
    watched,    \* whether a lookup and a writer ever did (for the properties)
    fault       \* memory was used that is free, null or not initialised

thread == <<entry, temp, succ, best, net, todo>>
vars == <<statics, node, head, pc, thread, searches, overlap, watched, fault>>

NoNode == 0

\* What malloc returns, and an entry once its fields are set.  by is the number
\* of the search that added it (for the properties).
Raw == [state |-> "raw"]
Route(n, kind, by) ==
    [state |-> "set", net |-> n, kind |-> kind, by |-> by, next |-> NoNode]
Freed == [state |-> "freed"]

\* A pointer whose fields can be read.
Sound(p) == p \in 1 .. Len(node) /\ node[p].state = "set"

Kind(w) == IF w = Setup THEN "direct" ELSE "dynamic"

Go(t, where) == pc' = [pc EXCEPT ![t] = where]
At(t, where) == ~fault /\ pc[t] = where
Walk(t, p) == entry' = [entry EXCEPT ![t] = p]

\* The process ends.
Fault == fault' = TRUE /\ UNCHANGED <<statics, node, head, pc, thread, searches, overlap, watched>>

Linking(table) ==
    [i \in 1 .. Len(table) |->
        [Route(table[i], "static", 0) EXCEPT
            !.next = IF i < Len(table) THEN i + 1 ELSE NoNode]]

Init ==
    /\ \E table \in StaticTables :
          /\ statics = Len(table)
          /\ node = Linking(table)
          /\ head = IF table = <<>> THEN NoNode ELSE 1
    /\ pc = [t \in Threads |-> IF t = Setup THEN "check" ELSE "idle"]
    /\ entry = [t \in Threads |-> IF t = Setup THEN head ELSE NoNode]
    /\ temp = [w \in Writers |-> NoNode]
    /\ succ = [w \in Writers |-> NoNode]
    /\ best = NoNode
    /\ net \in Dests
    /\ todo = [w \in Writers |-> IF w = Setup THEN Ifaces ELSE <<>>]
    /\ searches = 0
    /\ overlap = FALSE
    /\ watched = FALSE
    /\ fault = FALSE

\* Writer w goes on with the first network of list: check_route begins at the first
\* entry.  With none left the thread ends.
GoOn(w, list) ==
    /\ todo' = [todo EXCEPT ![w] = list]
    /\ Go(w, IF list = <<>> THEN "idle" ELSE "check")
    /\ Walk(w, IF list = <<>> THEN NoNode ELSE head)

\* (mutant: the first network is looked at for ever)
NetDone_Again(w) == GoOn(w, todo[w])

\* The network is done with: it had a route, it got one, or the search found none.
NetDone(w) == GoOn(w, Tail(todo[w]))

-----------------------------------------------------------------------------
\* clear_routes and sr_del_rt_entry

\* A thread for run_dijkstra is created; clear_routes begins at the first entry.
Begin(s) ==
    /\ At(s, "idle")
    /\ searches < MaxSearches
    /\ searches' = searches + 1
    /\ overlap' = (overlap \/ \E w \in Writers : pc[w] # "idle")
    /\ watched' = (watched \/ pc[Main] # "idle")
    /\ \E topology \in Topologies :
          IF head = NoNode
          THEN GoOn(s, topology)
          ELSE /\ todo' = [todo EXCEPT ![s] = topology]
               /\ Walk(s, head)
               /\ Go(s, "test")
    /\ UNCHANGED <<statics, node, head, temp, succ, best, net, fault>>

\* The end of the list ends the loop, a dynamic route behind entry is deleted.
ClearTest(s) ==
    /\ At(s, "test")
    /\ Sound(entry[s])
    /\ LET next == node[entry[s]].next IN
       \/ /\ next = NoNode
          /\ GoOn(s, todo[s])
       \/ /\ Sound(next)
          /\ Go(s, IF node[next].kind = "dynamic" THEN "delete" ELSE "skip")
          /\ UNCHANGED <<entry, todo>>
    /\ UNCHANGED <<statics, node, head, temp, succ, best, net, searches, overlap, watched, fault>>

ClearSkip(s) ==
    /\ At(s, "skip")
    /\ Sound(entry[s])
    /\ node[entry[s]].next # NoNode
    /\ Walk(s, node[entry[s]].next)
    /\ Go(s, "test")
    /\ UNCHANGED <<statics, node, head, temp, succ, best, net, todo, searches, overlap, watched, fault>>

Delete(s) ==
    /\ At(s, "delete")
    /\ Sound(entry[s])
    /\ temp' = [temp EXCEPT ![s] = node[entry[s]].next]
    /\ Go(s, "load")
    /\ UNCHANGED <<statics, node, head, entry, succ, best, net, todo, searches, overlap, watched, fault>>

\* previous_entry->next is read again here, and may not be temp any more.
Load(s) ==
    /\ At(s, "load")
    /\ Sound(entry[s])
    /\ Sound(node[entry[s]].next)
    /\ succ' = [succ EXCEPT ![s] = node[node[entry[s]].next].next]
    /\ Go(s, "store")
    /\ UNCHANGED <<statics, node, head, entry, temp, best, net, todo, searches, overlap, watched, fault>>

Store(s) ==
    /\ At(s, "store")
    /\ Sound(entry[s])
    /\ node' = [node EXCEPT ![entry[s]].next = succ[s]]
    /\ succ' = [succ EXCEPT ![s] = NoNode]
    /\ Go(s, "free")
    /\ UNCHANGED <<statics, head, entry, temp, best, net, todo, searches, overlap, watched, fault>>

Free(s) ==
    /\ At(s, "free")
    /\ Sound(temp[s])
    /\ node' = [node EXCEPT ![temp[s]] = Freed]
    /\ temp' = [temp EXCEPT ![s] = NoNode]
    /\ Go(s, "test")
    /\ UNCHANGED <<statics, head, entry, succ, best, net, todo, searches, overlap, watched, fault>>

-----------------------------------------------------------------------------
\* The loops over interfaces and over the topology: check_route, sr_add_rt_entry

\* (mutant: only the routes of the file are seen)
CheckRoute_StaticOnly(w) ==
    /\ At(w, "check")
    /\ Sound(entry[w])
    /\ IF node[entry[w]].net = Head(todo[w]) /\ node[entry[w]].kind = "static"
       THEN NetDone(w)
       ELSE Walk(w, node[entry[w]].next) /\ UNCHANGED <<pc, todo>>
    /\ UNCHANGED <<statics, node, head, temp, succ, best, net, searches, overlap, watched, fault>>

CheckRoute(w) ==
    /\ At(w, "check")
    /\ Sound(entry[w])
    /\ IF node[entry[w]].net = Head(todo[w])
       THEN NetDone(w)
       ELSE Walk(w, node[entry[w]].next) /\ UNCHANGED <<pc, todo>>
    /\ UNCHANGED <<statics, node, head, temp, succ, best, net, searches, overlap, watched, fault>>

\* The search ends with no item on its stack.
NoRoute(s) ==
    /\ At(s, "check")
    /\ entry[s] = NoNode
    /\ NetDone(s)
    /\ UNCHANGED <<statics, node, head, temp, succ, best, net, searches, overlap, watched, fault>>

\* (mutant: routes are added at the head)
AddRoute_Head(w) ==
    /\ At(w, "check")
    /\ entry[w] = NoNode
    /\ Walk(w, head)
    /\ Go(w, "first")
    /\ UNCHANGED <<statics, node, head, temp, succ, best, net, todo, searches, overlap, watched, fault>>

AddRoute(w) ==
    /\ At(w, "check")
    /\ entry[w] = NoNode
    /\ Walk(w, head)
    /\ Go(w, IF head = NoNode THEN "first" ELSE "tail")
    /\ UNCHANGED <<statics, node, head, temp, succ, best, net, todo, searches, overlap, watched, fault>>

AddFirst(w) ==
    /\ At(w, "first")
    /\ node' = Append(node, Raw)
    /\ head' = Len(node) + 1
    /\ Go(w, "reread")
    /\ UNCHANGED <<statics, thread, searches, overlap, watched, fault>>

\* The fields of the first entry are set through sr->routing_table.
FillFirst(w) ==
    /\ At(w, "reread")
    /\ node' = [node EXCEPT ![head] = Route(Head(todo[w]), Kind(w), searches)]
    /\ NetDone(w)
    /\ UNCHANGED <<statics, head, temp, succ, best, net, searches, overlap, watched, fault>>

AddWalk(w) ==
    /\ At(w, "tail")
    /\ Sound(entry[w])
    /\ IF node[entry[w]].next # NoNode
       THEN Walk(w, node[entry[w]].next) /\ UNCHANGED pc
       ELSE Go(w, "link") /\ UNCHANGED entry
    /\ UNCHANGED <<statics, node, head, temp, succ, best, net, todo, searches, overlap, watched, fault>>

\* The new entry is on the list before its fields are set.
AddLink(w) ==
    /\ At(w, "link")
    /\ Sound(entry[w])
    /\ node' = Append([node EXCEPT ![entry[w]].next = Len(node) + 1], Raw)
    /\ Go(w, "own")
    /\ UNCHANGED <<statics, head, thread, searches, overlap, watched, fault>>

\* rt_walker = rt_walker->next: the new entry, or one linked since by another.
AddOwn(w) ==
    /\ At(w, "own")
    /\ Sound(entry[w])
    /\ node[entry[w]].next # NoNode
    /\ Walk(w, node[entry[w]].next)
    /\ Go(w, "fill")
    /\ UNCHANGED <<statics, node, head, temp, succ, best, net, todo, searches, overlap, watched, fault>>

\* (mutant: a new entry points to the first one)
AddFill_Ring(w) ==
    /\ At(w, "fill")
    /\ node[entry[w]].state # "freed"
    /\ node' = [node EXCEPT ![entry[w]] =
                    [Route(Head(todo[w]), Kind(w), searches) EXCEPT !.next = head]]
    /\ NetDone(w)
    /\ UNCHANGED <<statics, head, temp, succ, best, net, searches, overlap, watched, fault>>

AddFill(w) ==
    /\ At(w, "fill")
    /\ node[entry[w]].state # "freed"
    /\ node' = [node EXCEPT ![entry[w]] = Route(Head(todo[w]), Kind(w), searches)]
    /\ NetDone(w)
    /\ UNCHANGED <<statics, head, temp, succ, best, net, searches, overlap, watched, fault>>

-----------------------------------------------------------------------------
\* sr_find_rt_entry and what sr_handle_ip_packet does with its result

Lookup(n) ==
    /\ At(Main, "idle")
    /\ net' = n
    /\ Walk(Main, head)
    /\ Go(Main, "look")
    /\ watched' = (watched \/ \E w \in Writers : pc[w] # "idle")
    /\ UNCHANGED <<statics, node, head, temp, succ, best, todo, searches, overlap, fault>>

\* The first of the routes with one prefix is kept.
Look ==
    /\ At(Main, "look")
    /\ Sound(entry[Main])
    /\ best' = IF node[entry[Main]].net = net /\ best = NoNode
               THEN entry[Main] ELSE best
    /\ Walk(Main, node[entry[Main]].next)
    /\ UNCHANGED <<statics, node, head, pc, temp, succ, net, todo, searches, overlap, watched, fault>>

\* Gateway and interface are read from the entry, or an error is sent.
UseRoute ==
    /\ At(Main, "look")
    /\ entry[Main] = NoNode
    /\ best = NoNode \/ Sound(best)
    /\ best' = NoNode
    /\ Go(Main, "idle")
    /\ UNCHANGED <<statics, node, head, entry, temp, succ, net, todo, searches, overlap, watched, fault>>

\* The pointer a thread reads through in its next step.
Reads(t) ==
    CASE pc[t] \in {"test", "skip", "delete", "store", "tail", "link", "own"} -> {entry[t]}
      [] pc[t] = "load" ->
            {entry[t]} \cup (IF Sound(entry[t]) THEN {node[entry[t]].next} ELSE {})
      [] pc[t] = "free" -> {temp[t]}
      [] pc[t] = "check" -> {entry[t]} \ {NoNode}
      [] pc[t] = "look" -> {IF entry[t] = NoNode THEN best ELSE entry[t]} \ {NoNode}
      [] OTHER -> {}

\* Reads, writes or frees that are not of an entry on whose fields one can rely.
Crash(t) ==
    /\ ~fault
    /\ \/ \E p \in Reads(t) : ~Sound(p)
       \/ pc[t] \in {"skip", "own"} /\ Sound(entry[t]) /\ node[entry[t]].next = NoNode
       \/ /\ pc[t] = "test" /\ Sound(entry[t])
          /\ node[entry[t]].next # NoNode /\ ~Sound(node[entry[t]].next)
       \/ pc[t] = "fill" /\ node[entry[t]].state = "freed"
    /\ Fault

-----------------------------------------------------------------------------
Clear(s) ==
    ClearTest(s) \/ ClearSkip(s) \/ Delete(s) \/ Load(s) \/ Store(s) \/ Free(s)

Add(w) ==
    \/ CheckRoute(w) \/ AddRoute(w) \/ AddFirst(w) \/ FillFirst(w)
    \/ AddWalk(w) \/ AddLink(w) \/ AddOwn(w) \/ AddFill(w)

Forward == Look \/ UseRoute

Next ==
    \/ \E s \in Searches : Begin(s) \/ Clear(s) \/ NoRoute(s)
    \/ \E w \in Writers : Add(w)
    \/ \E n \in Dests : Lookup(n)
    \/ Forward
    \/ \E t \in Threads : Crash(t)

Spec == Init /\ [][Next]_vars

Fairness ==
    /\ \A s \in Searches : WF_vars(Clear(s))
    /\ \A w \in Writers : WF_vars(Add(w))
    /\ \A t \in Threads : WF_vars(Crash(t))
    /\ WF_vars(Forward)

FairSpec == Spec /\ Fairness

-----------------------------------------------------------------------------
\* Properties

Pointer == 0 .. Len(node)

\* Types, and that a thread that is about to use the entry it walks with has one:
\* the loops of sr_rt.c test it before.
TypeOK ==
    /\ \A p \in 1 .. Len(node) :
          node[p] \in {Raw, Freed}
             \cup [state : {"set"}, net : Nets, kind : {"static", "direct", "dynamic"},
                   by : 0 .. MaxSearches, next : Pointer]
    /\ statics \in Nat
    /\ head \in Pointer
    /\ entry \in [Threads -> Pointer]
    /\ temp \in [Writers -> Pointer]
    /\ succ \in [Writers -> Pointer]
    /\ best \in Pointer
    /\ net \in Dests
    /\ searches \in 0 .. MaxSearches
    /\ \A w \in Writers :
          /\ todo[w] \in Seq(Nets)
          /\ pc[w] \in {"check", "first", "reread", "tail", "link", "own", "fill"}
                => todo[w] # <<>>
          /\ pc[w] \in {"test", "skip", "delete", "load", "store",
                        "tail", "link", "own", "fill"} => entry[w] # NoNode
    /\ pc[Main] \in {"idle", "look"}

\* An entry points to one allocated later, whatever two searches do to the list at
\* once: it never closes to a ring, in which every lookup would stay for ever.
ListAscends ==
    \A p \in 1 .. Len(node) :
        node[p].state = "set" => node[p].next = NoNode \/ node[p].next > p

\* The pointers one comes by from p on.
From(p) ==
    LET from[q \in Pointer] ==
            ({q} \ {NoNode}) \cup
            IF Sound(q) /\ node[q].next > q THEN from[node[q].next] ELSE {}
    IN from[p]

Listed == {p \in From(head) : Sound(p)}

\* The routes of the file stay, in order, at the front of the list whatever the
\* searches do to it at once: a search that reads previous_entry->next again, after
\* another one has deleted what it was about to delete, unlinks a route behind it,
\* and no route of the file is behind a dynamic one.
StaticRoutesStay ==
    statics > 0 =>
        /\ head = 1
        /\ \A p \in 1 .. statics :
              /\ Sound(p) /\ node[p].kind = "static"
              /\ p < statics => node[p].next = p + 1

\* What clear_routes takes off the list is dynamic: the routes of the file and of the
\* interfaces stay, and every interface has one once pwospf_run_thread is through.
OthersStay ==
    /\ \A p \in 1 .. Len(node) :
          Sound(p) /\ node[p].kind # "dynamic" => p \in From(head)
    /\ pc[Setup] = "idle" =>
          {Ifaces[i] : i \in 1 .. Len(Ifaces)}
            \subseteq {node[p].net : p \in {q \in Listed : node[q].kind # "dynamic"}}

\* A network gets no second route, though check_route and sr_add_rt_entry are two
\* walks over the list.
OneRoutePerNet ==
    \A p, q \in Listed :
        node[p].net = node[q].net /\ p # q => node[p].kind = "static" /\ node[q].kind = "static"

\* Once a search is past clear_routes no route of an earlier search is left, though the
\* list shrinks under the loop that clears it.
OldRoutesGo ==
    (\A s \in Searches : pc[s] \in {"idle", "check"})
       => \A p \in Listed : node[p].kind = "dynamic" => node[p].by = searches

\* What is wrong with the table takes two threads in it at once: until two of those that
\* write the list have, it has one route of each network, of the last search and of every
\* interface; and until one of them and a lookup have, no memory is used wrongly.
SoundAlone ==
    /\ ~overlap => OthersStay /\ OneRoutePerNet /\ OldRoutesGo
    /\ fault => overlap \/ watched

\* Every search, the loop over the interfaces and every lookup come to an end, unless
\* the process does.
WalksEnd == \A t \in Threads : []<>(fault \/ pc[t] = "idle")

=============================================================================
