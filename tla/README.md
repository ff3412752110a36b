# Verification of the redes 2024 routers and JSON-RPC library

The repository holds the two deliverables of a networks course. The larger one,
`redes2024_ob2/`, is a user-space IP router in C: it speaks ARP and PWOSPF (a
small OSPF), and gets and sends its frames over one TCP connection to a POX
module that plays the network. `enrutamiento/` is the complete router,
`reenvio/` the first version of it, without PWOSPF. The other deliverable,
`jsonrpc_redes/`, is a JSON-RPC server and client over TCP in Python. There is
no documentation but comments (many in Spanish) and the assignment's tests.

Paths below without a directory are in `src/redes2024_ob2/enrutamiento/`.

## 1. Inventory

### Threads of the router

| thread | started by | what it does |
|---|---|---|
| main | `main` (sr_main.c) | reads a frame from the server, handles it in `sr_handlepacket` |
| ARP timeout | `sr_init` | each second: expires mappings, sweeps the ARP requests |
| `pwospf_run_thread` | `pwospf_init` | sets the router id, adds direct routes, starts the next four |
| `check_neighbors_life` | `pwospf_run_thread` | each second: ages and deletes neighbors |
| `check_topology_entries_age` | `pwospf_run_thread` | each second: ages and deletes topology entries |
| `send_hellos`, `send_all_lsu` | `pwospf_run_thread` | HELLOs and rounds of LSUs |
| one per received LSU | `sr_handle_pwospf_packet` | updates the topology, floods the LSU |
| one per change of topology | LSU and ageing threads | `run_dijkstra` |

They share the heap. The ARP cache has a recursive mutex, `ospf_subsys` has
one for PWOSPF; the routing table, the interfaces, the list of neighbors seen
from the HELLO handler, and the socket have none. `run_dijkstra` gets a *copy*
of a mutex.

### Components

| component | state | operations | interacts with | hard about it | correct when |
|---|---|---|---|---|---|
| ARP cache and queue (sr_arpcache.c) | entries, queue of `sr_arpreq` with packets | lookup, queuereq, insert, destroy, sweep, expire | called by every sender of packets; calls back into sending | raw pointers used after unlock, nested calls, a sweep over a list that changes | one request per host, no packet lost by a sweep, no early give-up, every request ends |
| ARP and IP frames (sr_router.c) | none of its own | `sr_handle_arp_packet`, `sr_handle_ip_packet`, ICMP errors, waiting packets | ARP cache, routing table | an ICMP error is itself a packet to send | a reply releases what waits; each packet is sent once or reported |
| PWOSPF neighbors (pwospf_neighbors.c, sr_pwospf.c) | list `g_neighbors`, `neighbor_id`, `neighbor_ip` | HELLO in and out, ageing, LSU rounds | topology search reads the interfaces | list changed with and without the lock | the list stays a list, silent neighbors go, LSUs go to neighbors |
| PWOSPF topology (pwospf_topology.c) | list `g_topology`: router, network, neighbor, number, age | check number, refresh, add, delete, age | LSU threads, search | a thread per LSU and no lock, order and loss of LSUs, wrap of numbers | one entry per router and network until two threads meet; fresh news wins; dead routers go; the list stays a list |
| Shortest paths (dijkstra.c, sr_rt.c) | heap and stack of one search, routing table | clear, search per network, add route | topology, interfaces, forwarding | state left between searches, no visited set, searches overlap | routes are shortest and follow the topology |
| Start (sr_main.c, sr_if.c, sr_rt.c) | options, interfaces, static table | load, verify | all threads | LSU before the direct routes are there | the direct routes are there before the first search |
| Session with the network (sr_vns_comm.c) | the socket | auth, hardware info, frames in and out | POX module | many writers, partial reads and writes, close | frames are whole and in order; a closed session ends the router |
| POX modules (pox_module/pwospf) | clients, interfaces | open, packet in and out | switch, routers | order of switch and client | every client that opens gets its interfaces |
| JSON-RPC (jsonrpc_redes) | per connection: what is left of the stream | call, notify, serve | TCP | partial reads, timeouts, late answers | an answer belongs to its call; the server answers or says why |
| First delivery (reenvio) | as the router without PWOSPF | | | as above | as above |
| Utilities, emulation, tests | | checksums, headers, printing, Mininet, SHA-1 | | | |

`PROJECT.json` lists the hazards of this code, each at its line, and the
properties that watch over it; those without one say why.

## 2. Modules

| module | models | used by |
|---|---|---|
| `ArpCache` | the ARP cache, its queue and the threads in it | `MCArpCache`, `ArpCacheProofs` |
| `ArpResolution` | what resolving an address promises, abstractly | `ArpCache` (refinement) |
| `ArpCacheProofs` | theorems, the refinement among them | |
| `PwospfNeighbors` | HELLOs, neighbors, LSU rounds | `MCPwospfNeighbors`, `PwospfNeighborsProofs` |
| `PwospfNeighborsProofs` | theorems | |
| `PwospfTopology` | the list `g_topology`, by the memory accesses of all its threads | `MCPwospfTopology`, `PwospfTopologyProofs` |
| `PwospfTopologyProofs` | theorems | |
| `PwospfRoutes` | the search for routes, over what the topology may be | `MCPwospfRoutes`, `PwospfRoutesProofs` |
| `PwospfRoutesProofs` | theorems | |
| `LsuFlooding` | LSUs in a network: numbers, ages, flooding, restarts | `MCLsuFlooding` |
| `RouteTable` | the list of routes, by the memory accesses of all its threads | `MCRouteTable`, `RouteTableProofs` |
| `RouteTableProofs` | theorems | |
| `IpNetwork` | packets and ICMP errors through routers of both deliveries | `MCIpNetwork`, `IpNetworkProofs` |
| `IpNetworkProofs` | theorems | |
| `VnsSession` | the session of router and POX, and the start of the router | `MCVnsSession`, `VnsSessionProofs` |
| `VnsSessionProofs` | theorems | |
| `JsonRpc` | the JSON-RPC server's threads and their clients | `MCJsonRpc`, `JsonRpcProofs` |
| `JsonRpcProofs` | theorems | |
| `MC…` | instances for TLC | the `.cfg` files |

How they fit together: `ArpCache` and `IpNetwork` are two views of
`sr_router.c`, one of the queue behind it and one of the packets through it.
`IpNetwork` takes of the queue what `ArpResolution` promises and `ArpCache` is
shown to keep: a packet waits until its next hop answers or is given up. Next hops that
send ARP requests of their own, for which a packet may wait for ever (`NoOrphan`), and what
the process dies of are in `ArpCache` only.
`PwospfTopology` has what threads do to the topology's list, `LsuFlooding` what LSUs do
to the tables of a network, and `PwospfRoutes` searches whatever table these threads may
leave. It has what a search computes and runs one at a time; `RouteTable` has
searches that overlap and leaves out what they compute. `VnsSession` is what
happens before: it hands the interfaces to `pwospf_run_thread`, whose second half
(the direct routes against the first searches) is in `RouteTable`.

### ArpCache

State: `cache` is `entries[]`; `req` holds every `sr_arpreq` ever allocated, so
an index into it is a pointer and a freed request can be recognised; the queue
is the requests with `linked`, newest first, as `queuereq` pushes at the head.
`stack[t]` is the call stack of thread `t`: `handle_arpreq`, `host_unreachable`,
`sr_send_icmp_error_packet` and `queuereq` call each other, and that nesting is
what several hazards are about. `lock` is held between steps by the timeout
thread only; the other functions take and release the mutex within a step.

Actions: `LookupHit`, `LookupMiss`, `QueueReq` are the three calls of every
sender; `HandleNotYet`, `HandleAsk`, `HandleGiveUp`, `Ask`, `Bump` are
`handle_arpreq`, split where it reads and writes without the lock
(`times_sent++` is a load and a store); `ReportNobody`, `ReportSource`,
`ReportDone` are `host_unreachable`; `Destroy` is `sr_arpreq_destroy`;
`Reply…`, `SendPending`, `PendingDone`, `AskedBy` are `sr_handle_arp_packet`;
`StartSweep`, `SweepNext`, `EndSweep` are the timeout thread; `Tick` is time.
The use of a freed request and the overflow of the stack are actions that set
`fault` and end the process: nothing is claimed of what follows them.

Abstracted: MAC addresses (hence which of two entries for an address wins), the
bytes of packets, and time beyond the thresholds the code compares with.

### PwospfNeighbors

`node` holds every `ospfv2_neighbor` ever allocated, `node[1]` is `g_neighbors`;
`known` and `addr` are `neighbor_id` and `neighbor_ip` of an interface. The
program is built without optimisation (`-g -Wall -ansi`), so each access to
shared memory is taken to happen where the source has it; `add_neighbor` is
`LinkNext` and `LinkHead`; `delete_neighbor` is `DeleteTemp`, `DeleteTest`, `DeleteLoad`,
`DeleteLink` and `DeleteFree`, for it reads `previous_neighbor->next` three times before it
writes it, and a HELLO may link a node between any two; `alive--` is `AgePointer`,
`AgeLoad` and `AgeStore`. The HELLO handler is `HelloNew`/`HelloKnown`,
`Create`, `LinkNext`, `LinkHead`, `LsuRound`, `Walk…`; the two periodic threads
are `Life…` and `Round…`. The round's LSUs are sent one interface at a time: `RoundTest`
looks at `neighbor_id`, `RoundDest` reads `neighbor_ip` for the destination, `RoundSend`
reads it again for the next hop, on a miss in the ARP cache once more (`RoundMiss`). `lsu`
is what the last step sent: interface, destination and next hop. Rejected HELLOs
(checksum, mask, interval) change nothing and are left out.

### PwospfTopology

`node` holds every `pwospf_topology_entry` ever allocated, `node[1]` is the entry of no
network that `g_topology` is. `thread[t]` is a call of `sr_handle_pwospf_lsu_packet`: the
walks of `check_sequence_number`, of `refresh_topology_entry` and of the printing are
`Follow`, `EndWalk`, `CheckTest` and `RefreshTest`, told apart by `walk`; `RenewAge` and
`RenewRest` refresh an entry that is found; `AddTest`, `AddAlone`, `LinkNext`, `LinkHead`
are `add_topology_entry`. `Look…`, `Delete…`, `Age…`, `Advance` are `check_topology_age`,
which holds a lock that no LSU thread takes. Each read or write of a field that others
write is a step. Numbers and neighbors are left out: whether an LSU is newer (`Decide`) and
whether an entry of another router contradicts an LSA (`RefreshTest`) is a free choice.
The use of an entry that was freed sets `fault` and ends the process.

Three history variables say when it may go wrong. `held` are the entries linked and not
unlinked again. `overlap`: a thread wrote the head, or unlinked what is behind it, while
another one was about to write there from what it had read before, or while another LSU
thread was between its search and its own insertion of the same router and network
(`Crossing`). `watched`: the ageing thread freed an entry at which another thread was.

### PwospfRoutes

`topology` is the list `g_topology`, `rt` the routing table (static and dynamic
routes), `heap` the list `dijkstra_heap`. Of the stack only the last item is
ever read, so `top` stands for it; of the chain of parents only its first
interface is used, so an item carries it as `via`. What may become of the list is an
environment here: `Insert` puts an entry at its head, though there may be one like it;
`Renew` writes the neighbor of any entry of the router for the network; `Ignore` is an LSA
that changes nothing; `Remove` takes an entry out, by age or because another thread wrote
the head. Tables with doubled and lost entries are thus searched too. Each of these is
followed by a search, `Meet`, a change of neighbor, by none. `DropRoute`, `KeepRoute`, `Cleared` are
`clear_routes`; `NextDest` … `Finish` are `run_dijkstra`, one loop iteration a
step, and `Swap`, `Reordered` are `dijkstra_stack_reorder`. One search runs at a
time in this module and the table stands still meanwhile: a search that is overtaken by a
change is not followed further, as that change starts a search of its own, and what overlapping searches do to
the list of routes is in `RouteTable`. `at = "outdated"` is a change after which the code
starts no search (a HELLO).

### LsuFlooding

The only module of a whole network. `copies` is the bag of the copies of LSUs
that are on a link or in the thread that handles them; `table` the `g_topology`
of each router. The LSUs of the routers in `Followed` are followed, which start,
crash and meet and miss neighbors; the others run all the time. `Round` is a
round of LSUs with the next number, made by `Periodic` (`send_all_lsu`) and by
`Meet` (a HELLO). `Drop`, `Accept`, `Apply` are `sr_handle_pwospf_lsu_packet`,
split between `check_sequence_number` and the loop over the LSAs, where the threads of other LSUs run. The loop is one step here, and so is a pass of ageing: their
accesses to the list, which have no lock either, are in `PwospfTopology`. `Aged` is a pass of `check_topology_age`, with the entry it
skips behind a deleted one. `Lose` stands for the network and for an ARP request
that is given up, `Vanish` for frames to a router that is down.

Only LSAs that contradict nobody's are sent here: when one does, the entry it
meets is not refreshed, and every copy of that LSU passes `check_sequence_number`
again until the contradiction has expired (a hazard without property).

### RouteTable

`node` holds every `struct sr_rt` ever allocated, so that an index is a pointer,
a freed entry can be recognised, and so can one that is linked but not yet
filled in, as `sr_add_rt_entry` links first. Each writer walks with `entry`; `temp`
and `succ` are the locals of `sr_del_rt_entry`, which reads
`previous_entry->next` three times. A test of a pointer and the step to it are
one action: a change between the two would either not matter or end the process.
`Begin` starts a search and `Clear` is its `clear_routes`; `CheckRoute` … `AddFill`
are `check_route` and `sr_add_rt_entry`, for the direct routes of
`pwospf_run_thread` and for the networks a search finds. `Lookup`, `Look`,
`UseRoute` are `sr_find_rt_entry` and its caller. `Crash` is the use of memory
that is free, null or not filled in: it ends the process and enables nothing
after it. The state begins when `g_router_id` is set, as no LSU is handled before.

### IpNetwork

`frames` are the frames on wires, `waiting` what the routers keep for ARP.
The actions are the branches of `sr_handle_ip_packet` in its order, one each; where
the deliveries differ (gateway 0, the route of an error, the order of the TTL check
and the check whether the packet is for the router, OSPF) a definition says so with
`delivery`. An error is named by the packet and the reason, so that errors about
errors can be told apart. `Junk` are the addresses that the octets of a payload
may read as, for the error that reads its destination there.

### VnsSession

POX's own thread (`SwitchUp`, `PacketIn`), the reactor (`AuthReply`, `Open`,
`OpenAnswer`, …) and a router process: `main` reading messages, `pwospf_run_thread`
(`Wake`, `Scan`, `AddDirect`), and writers to the one socket. `Open` and
`OpenAnswer` are two actions as POX's own thread runs between them. A message to
POX has two halves: `write` puts down both when they fit the socket's buffer and
else the first, which is where another writer can come in. `Kill` stops a router at
any time; what it wrote may still be heard. Several runs of one virtual host
follow each other.

### JsonRpc

The stream is cut into pieces, the first of a message opens its bracket and the last
closes it; `recv(16)` returns any non-empty prefix of up to `Chunk` pieces. The loop
over the characters is `Cut`, `Depth`, `Behind`, shared by server and client. `leftover`
is `self.new_message` of the server, one for all threads. `Shut` closes the socket:
the thread then goes round its loop once more and ends on the closed socket; the
client gets an end of file, or a reset when something it sent was not read.

## 3. What is checked

All runs are small but let the interesting cases happen; the bounds are named in
the modules.

| run | instance | checks | shows |
|---|---|---|---|
| `arp_race` | 2 hosts, one of which asks for the router too, 2 packets, main + worker + timeout, `MaxTries` 2 | `NoEarlyGiveUp`, `NoOrphan`, `GiveUpReports` | three threads meet on one request, in every order; when a request lingers and which packets go with it |
| `arp_sweep` | two packets whose sources are each other's next hops, `MaxTries` 1, neighbors that reply, ask and send gratuitous replies | `ImplementsResolution`, `EveryRequestEnds`, `SweepPointers` | the queue implements `ArpResolution`; liveness, with errors queued from within the sweep |
| `neighbor_life` | 2 interfaces, a neighbor on each, 5 nodes, numbers mod 2 | `TypeOK`, `ListDescends`, `RoundKeepsSeq`, `LsuToNeighbor`, `EveryHelloEnds`, `EveryNeighborExpires` | the unlocked list stays a list, every loop over it ends, LSUs go to the neighbor of their interface |
| `routes` | triangle with a double link and a network behind it, 4 entries, paths up to 4 links | `HeapInOrder`, `RoutesAreShortest`, `RoutesFollowTopology`, `SearchEnds` | every order of LSAs, expiries and neighbor changes gives shortest routes, in tables with doubled or lost entries too |
| `topology_threads` | LSUs of two routers on a link, one with a network behind it, two at once; `Timeout` 1, 3 entries and the first | `ListDescends`, `TableSound`, `TableEmpties` | what the unlocked list keeps under LSU threads and ageing, and what it keeps until two of them meet |
| `route_table` | a file with two routes or none, one interface, 2 searches | `ListAscends`, `StaticRoutesStay`, `SoundAlone`, `WalksEnd` | what the table keeps when searches overlap, and what it keeps only when they do not |
| `lsu_kite` | a router with a LAN, before a ring of three | `FloodingEnds`, `DownIsForgotten`, `UpIsHeard` | flooding ends without a TTL; the dead are forgotten, the restarted heard |
| `ip_network` | host, two routers, host; routes that loop, a default route, both deliveries; 2 packets, one damaged | `LongestButDefault`, `ErrorsDieOut`, `JourneysEnd`, `SenderIsTold` | no packet wanders for ever, errors about errors end, and failures are told |
| `vns_session` | one virtual host with two interfaces, two runs of its router, two writers, one frame in | `AbortsOnlyRaced`, `FramesWhole`, `RegisteredRuns`, `StartOK`, `RouterStarts` | the start, in every order of POX, router and operator |
| `json_rpc` | one client with two requests of any kind, one with a call | `StreamsOK`, `AnswerBelongs`, `Independent`, `CallsReturn`, `SilentThreadEnds` | what holds of requests and answers, wherever the stream is cut and whoever is late |
| `rpc_notify` | as `json_rpc`, the first client only | `CallAfterNotify` **violated** | finding 1 |
| `vns_assert` | as `vns_session` | `NeverAborts` **violated** | finding 2 |

`StartOK` and `StreamsOK` join the types of a module to the invariant that speaks of
all its state (`IdIsHighest`, `ServedInOrder`). The type invariants of all modules but
`LsuFlooding`, which has no proofs, are theorems. `OneRequestPerIp` and `PacketsOK` (one
request per next hop is queued; a packet is in one place) are theorems and no run lists
them; the run `arp_sweep` would see two requests for a host in `ImplementsResolution`.

Several properties say exactly when something may fail, for the code does fail
then: `NoOrphan` (a next hop that asks for the router), `GiveUpReports` (a request given up
outside the lock), `LsuToNeighbor` (a HELLO on that interface meanwhile), `TableSound` (two
threads at the head or with LSAs for the same entry), `LongestButDefault` (a route of length 0),
`SoundAlone` (two threads in the table at once), `AnswerBelongs` (a call that
timed out), `Independent` (a thread that read beyond a request), `FramesWhole` (a
full buffer), `AbortsOnlyRaced` (a frame during the opening), `CallsReturn` (a
connection that was closed under the client), `SenderIsTold` (a dead next hop, the
TTL of an echo). The history variables in the modules (`overlap`, `watched`, `held`, `changed`, `late`,
`slow`, `piped`, `full`, `raced`, `served`, `drowsy`, `ends`) record when that was and
are marked as such.

Bounds. Two hosts are enough in `ArpCache` for a request to call into another;
`MaxTries` 2 lets a lost increment matter, and with it the code's 5 differs
only in the number of rounds. `MaxDepth` is the size of the C stack: the passing
runs stay below it or take the overflow for the end of the process. Five list
nodes allow the list head, a node for each neighbor, and one that is added while
another is deleted. Four topology entries make a triangle, a cycle, and a
network whose two routes differ in length. `MaxCost` 5 is longer than any
shortest path in it. A search that goes round a cycle for an unreachable network
has no end in the code; the model stops it at `MaxCost`, and so these runs do
not check for deadlock. The others do not because the environment may simply
send nothing more, and because `fault` ends the process.

In `topology_threads` both threads may bring an LSU of the same router, or one of each, so
that two find the same entry missing at once; `Timeout` 1 lets an entry be renewed between
the test of its age and its deletion, and three entries besides the first let one be
deleted at the head or behind it while another is linked. More entries or a third LSU
are more than TLC gets through in minutes; the theorems are for any number.

In `lsu_kite` a ring behind the followed router is what a copy could go round
when its router is down and drops it no more. `TopoTimeout` 2 leaves an entry a
second in which it is neither new nor dead, `MaxDelay` 0 means that LSUs are
flooded within the second (a delay of 1 has more than nine million states), and
numbers mod 2 wrap at every second LSU, with two LSUs under way at once. A neighbor is missed only when no LSU is under way, for the code takes 20 seconds.

In `route_table` two searches are enough for one to clear while the other clears,
checks or adds, and one interface for the direct routes to be added under a search; the
empty file is the case of `AddFirst`, in which `clear_routes` never looks at the first
entry. `ip_network` has a dead address on a network that is there, an address nobody
has a route to, aggregated and default routes; TTLs of 1 to 3 expire on each router,
and an error's TTL of 3 is enough to cross the network. Two packets meet in one ARP queue.
In `vns_session` a buffer of three halves holds a message and a half, so that the
second frame is cut, and 3 frames let two threads cut each other. The operator stops
the first run anywhere and starts another. `json_rpc` has messages of three pieces of
which `recv` returns two, as few as make a message longer than a `recv` and let one
`recv` span two messages. These runs do not check for deadlock: packets run out,
clients have had enough, processes end.

Every property has a mutant of the code's definitions that breaks it; they are
beside the definitions, with `(mutant: …)`.

### Fairness

Threads are scheduled: weak fairness of each thread's steps. `Tick` is weakly
fair, as time passes. A thread that waits for the `ospf_subsys` mutex gets it if
it is released again and again (`SF_vars(LsuRound)`, `SF_vars(LifeWake)`): the
holders sleep a second between two holds, so a waiter wakes up meanwhile. In
`LsuFlooding` each number of a followed router is served fairly, as each LSU has
a thread of its own. In `PwospfTopology` LSU threads and the
ageing thread run on, and nothing makes an LSU arrive. In `RouteTable` each
search, `pwospf_run_thread` and a lookup that has begun run on. In `IpNetwork` routers
and hosts take a frame while there is one, and a next hop answers or is given up, which
is what `EveryRequestEnds` of `ArpCache` says. In `VnsSession` the reactor, `main` and the
thread that sets PWOSPF up run on, the writers need not. In `JsonRpc` threads and `recv`
run on, and a `recv` with a timeout returns. No fairness is given to what comes from outside: packets,
ARP replies, HELLOs, LSUs, expiry of entries, routers that come and go, what clients
send, the operator. Properties on silent neighbors therefore assume
`<>[][~Hello]_vars`, `TableEmpties` that no LSU comes any more, and `UpIsHeard` that losses stop.

## 4. What is proved

With TLAPS, for every value of the constants that the named assumptions allow.

| theorem | says |
|---|---|
| `ArpCacheProofs!TypeCorrect`, `OneRequest`, `GiveUpIsLate` | types; one request per host is queued, by any number of threads; no host is given up before `MaxTries` broadcasts |
| `ArpCacheProofs!Refinement` | `Spec => Abstract!Spec`: initial states map to initial states, each step to a step of `ArpResolution` or a stutter |
| `PwospfNeighborsProofs!TypeCorrect`, `ListNeverCircular`, `RoundHasOneSeq`, `LsusGoToNeighbors` | no cycle in the list; one number per round; destination and next hop of each LSU are the neighbor of the interface it leaves on, unless a HELLO wrote that neighbor since the LSU was begun, or is between its two writes |
| `PwospfTopologyProofs!TypeCorrect`, `ListNeverCircular` | for any number of LSU threads no entry's age passes `OSPF_TOPO_ENTRY_TIMEOUT`, which is compared with `==`, and the list closes to no ring |
| `PwospfTopologyProofs!TableIsSound` | until two threads are in each other's way the list is of all entries linked and not unlinked, in order, each router once per network; and memory is used wrongly only after that, or after an entry was freed under a thread |
| `PwospfRoutesProofs!TypeCorrect`, `HeapIsInOrder` | types; the heap is sorted whenever it is popped |
| `PwospfRoutesProofs!PathInvariance`, `RoutesOfSearchAreShortest`, `RoutesAreOfTopology` | in any graph of any LSAs a search leaves a route to each network that can be reached and none to one it does not have; each begins with a nearest interface, although no router is marked as visited and the heap keeps what earlier searches left in it |
| `ArpCacheProofs!NobodyLingers` | a request that left the queue is about to be destroyed, unless its next hop is one that asks for the router itself |
| `ArpCacheProofs!GiveUpsReport` | a packet freed with its request was sent or reported, or is an error of the router, or was queued by another thread on a request given up outside the lock; whatever the ways back |
| `ArpCacheProofs!SweepPointsToItsOwn` | what a sweep still points to is freed only by a give-up nested in it, after an error was queued on it |
| `RouteTableProofs!TypeCorrect`, `ListNeverRings`, `StaticRoutesKept` | whatever the threads do to the list of routes at once, it closes to no ring and the routes of the file stay at its front |
| `RouteTableProofs!AloneInvariance`, `TableIsSoundAlone` | what goes wrong with the list of routes takes two threads in it at once: until then nothing is lost, doubled or freed under a thread, and what is not being looked for is there |
| `IpNetworkProofs!TheLongestButDefault`, `PacketsAreInOnePlace` | the scan of the routing table finds the first of the longest matches, but for a route of length 0, which it never finds, for any table and address; no packet and no error is doubled |
| `IpNetworkProofs!ErrorsEnd` | no error goes out about an error about an error, where next hops answer and each router has ways to the others that the TTL of an error lasts for |
| `VnsSessionProofs!OnlyRacedAbort`, `MessagesAreWhole`, `FramesFindTheRun`, `StartsRight` | the four safety properties of `vns_session` |
| `JsonRpcProofs!StreamsAreSound`, `AnswersBelong`, `OthersDoNotMatter` | the three safety properties of `json_rpc`, for messages and chunks of any size |

The assumptions are the named `ASSUME`s of the modules; each run evaluates them.
Most say what kind of value a constant is. The others: the threads and the values that
stand for none are different (`ArpCache`, `VnsSession`, `IpNetwork`); a route of a table
goes out by an interface of its router, and hosts send packets with a TTL
(`IpNetwork`); addresses of interfaces are not 0, and a socket's buffer holds a
message (`VnsSession`); the router has an interface (`RouteTable`: PWOSPF waits for
a router id, and that is the address of one); a `recv` returns up to more than one piece, and fewer than
a message has (`JsonRpc`); a network joins two routers at most (`LinksAssumption` of
`PwospfRoutes`, which only the theorems on shortest paths use). The code is written for
such links, as an interface keeps one `neighbor_id`. Without it these theorems are false:
an item is not expanded over the network it came by, which on a network of three routers
loses the way to the third.

Each proof module defines an inductive invariant `IInv`, one lemma per action or
group of actions, and a theorem `Invariance` the others rest on.

* ArpCache. `OneRequestPerIp` and `NoEarlyGiveUp` alone are not inductive: a thread in
  `host_unreachable` must be known to hold a request whose broadcasts were made.
  `FramesOK` says this of every frame on every stack (a pointer in a frame is
  that of an allocated request, a frame that stores `times_sent` has counted no
  more than was asked), and `RequestsOK` that `times` never exceeds `asks`
  (a lost increment makes it smaller, never larger) and that a freed request is
  off the queue. The refinement uses the same invariant: giving up is a `GiveUp`
  of `ArpResolution` only because `asks >= MaxTries`.
* PwospfNeighbors. `ListDescends` needs `Fresh` (the node the main thread is
  about to link is the youngest, and nothing points to it yet), `LifeOK` (what
  the life thread loaded into `nx` and `to` is older than what it loaded it
  from, or freed), `MainOK`, and `LocksOK` (who holds the lock, by where each
  thread is). What `delete_neighbor` writes behind a node is older than that node, though a HELLO in between may have it unlink
  another than it frees. `LsuToNeighbor` follows from `AddressOK` (`neighbor_ip` is that of
  `neighbor_id` except while the main thread is between the two assignments, when it
  is that of the neighbor before) and `RoundAddressOK`: the destination the round has read
  is still the neighbor of the interface unless `changed`.
* PwospfTopology. `ListInv` holds whatever the threads do: an entry leads to an older one
  or to none (`ListDescends`), one that is made and not linked is known to nobody else
  (`FreshOK`), what the ageing thread is about to write leads to an older entry, and an
  entry it raises is below the timeout (`AgeOK`). `Sound` holds while `~overlap`: the list is
  of the entries `held`, from the youngest to the oldest (`InOrder`), none double
  (`OneEntry`); a thread stands on the list, or on the entry that is leaving it
  (`Standing`); one that has made an entry has the head for its next (`Heads`); one that
  looks for an entry has none like it behind itself (`Searched`); the ageing thread is on
  the list and has what is behind it (`Ageing`). `Crossing` is what breaks one of these.
* PwospfRoutes. One pass of `dijkstra_stack_reorder` sorts only a heap that was
  sorted but for its head: `Carrying` says that during the pass only the carried
  item may be out of order. `Searching` says the network looked for is in the
  topology throughout.
* PwospfRoutes, the paths. `RoutesAreShortest` speaks of paths of any length; `Near`
  is the recursive function that says what routers are within so many links of an
  interface, and `NearExists` that there is one. `ItemsOK`: every item in the heap, those
  of earlier searches included, stands for a path of its cost (`Sound`), as the topology
  does not change while they run and each run begins with an empty heap. `PathsOK`:
  there is a set `X` of items popped so far (`Popped`), none on the network looked for, and
  what they lead to is in `X` or in the heap. No variable keeps `X`; the invariant says
  that one exists. When an item on the network is popped, all that is nearer is in
  `X` (`NearArePopped`, by the least number of links for which it would be wrong), so nothing
  nearer is on the network. `RoutesOK` carries this to the end of the searches, and
  `Told` and `Fresh` say where they begin.
* RouteTable. `WriterOK` says what a writer still knows when others have changed the
  list since it looked: a search that deletes is at the last route of the file or
  past it, what it frees and what it stores lie behind the entry it writes to, and
  who adds is at the end of the list, or the file was empty. So each write puts a
  later entry, or none, behind an entry that no route of the file follows. The
  lemmas `Replaced`, `Redirected`, `Allocated` and `Linked` are the four ways the
  list changes.
* RouteTable, alone. `SoundAlone` says nothing once two threads overlap, and the
  invariant behind it, `AloneInv`, neither: until then one thread writes (`OneWriter`), and
  all entries that are not freed, nor just taken out by that thread (`Members`), form
  one chain from the head with increasing numbers (`Chained`), no network twice
  but by the file (`NetsOnce`). `PlaceOK` says where in the chain the thread is and what it has seen of
  it, `Watching` the same of a lookup. What is reached from
  the head, the recursive function in `From`, is then the set `Members`: there is no last
  entry from which it would be wrong.
* ArpCache, the orphans. A neighbor that asks for the router's address takes its own
  request off the queue, as `AskedBy` does not look at what `sr_arpcache_insert` returns, and the
  request stays with its packets (sr_router.c:534). `NoOrphan` excepts the next hops that
  ask, `Askers`, and says of the others that a frame of the main thread holds each request
  off the queue; `OrphansOK` adds that only one does (`Settled`).
* ArpCache, what is lost. Between `host_unreachable` and `sr_arpreq_destroy` a packet
  can be queued on the request, and is freed with it (sr_arpcache.c:89). `GiveUpInv`: a
  thread that gives up a request has yet to report, or has reported, each packet on it
  that is not an error and that it has queued itself, or any but errors if it is the
  timeout thread (`Told`), for that has the lock for all of a sweep; and a thread
  that sends a packet of its own is in no other call (`Carries`). So only errors, and the
  packets of other threads outside a sweep, can be lost: `GiveUpReports` says no more.
* ArpCache, the sweep's pointers. `SweepInv`: each request a call of the sweep holds is not
  freed, or an error is queued on it (`Sound`), and two calls of a sweep hold the same
  request only when an error is queued on it (`Apart`), since the sweep goes from request
  to request, and a nested call holds the request an error was queued on. The others'
  destroys wait for the lock. No assumption is made on the ways back.
* IpNetwork. The loop of `sr_find_rt_entry` is a recursive function over the entries of
  the table. What it returns is shown by least counterexample (`Least`): after each
  entry it keeps the first of the longest matches so far that are longer than 0. That no packet is doubled
  needs `Unique` (no name is in two places: on a wire, at a router, over) and
  `Rooted` (there is an error about a packet only when that packet is over), as an error
  takes its name from the packet it is about, and that name must be new.
* IpNetwork, the errors. `ErrorsDieOut` depends on the tables: an error waits for a next
  hop that is dead, or loops until its TTL is used up, and there is an error about it in
  turn. `Routed` is what the theorem asks of them: the next hops towards the hosts that
  send, the interfaces of routers and the addresses a payload is read as (`Junk`) answer
  (`Alive`), and there is a number for each router and interface, up to the TTL of an
  error, that decreases from router to router on the way there (`Back`). Other tables
  and hops may loop and be dead. `MildBy` then says that an error about an error is
  on its way to a router's interface (an error has the address of one for its source) with
  a TTL above that number, so that it is taken there; and that what waits for a dead hop
  is no error. Both networks of the second delivery and that of the
  first in `ip_network` are `Routed`, by 1 at the router itself and 2 at the other; TLC
  has checked `MildBy` for them.
* VnsSession. `AbortsOnlyRaced` needs where frames lie in the stream to a router:
  behind the hardware information, unless POX put one there while the session
  opened (`FramesOK`). For this a router asks for its interfaces once (`OpenOK`) and has
  written and heard nothing else before (`StreamOK`, `YoungOK`). `WritingOK` has
  whole messages in the socket's buffer until it was full once. `HardwareOK` counts the entries
  of the hardware information into the list of interfaces, and `SetupOK` what the thread
  that sets PWOSPF up has seen of that list, unless it woke before the list was
  complete (`drowsy`).
* JsonRpc. The first layer is about streams alone. `DepthIs`: the brackets counted in
  pieces that follow each other are those open after the last, less those open before
  the first; so the loop stops where a message ends, if the count was right
  (`RecvIs`). A count may also be one short, after a leftover, and is never anything
  else (`Counts`). `IInv` then says that the requests on a stream are in order and
  later than all that were served (`UpOK`, `ThreadOK`), and that a text of the length
  of a message ends with a piece of its own connection, as a leftover is shorter than
  one (`FullOK`): so no request is put together from two connections. `AInv` adds
  for connections without a late call that what is on the way to the client answers
  the call that waits, or is a parse error with nothing behind it. `AloneInv`, while
  no thread has read beyond a request and nobody was late, that each side has read
  exactly what is missing at the head of its stream (`HasRead`).

Only model-checked:

* the liveness properties, which are out of the prover's reach;
* all of `LsuFlooding`.

What a recursive function computes is proved where the function recurses over
the natural numbers, by the least number for which it would be wrong.

## 5. Findings

1. `rpc_notify`: a call right after a notification gets a parse error, for the
   server's thread has read its beginning with the notification and does not count
   the bracket in it (servidor.py:75; dist/client_test.py:20-26 calls in this order).
2. `vns_assert`: a frame that reaches a router before its interfaces do ends it by
   the assertion at sr_vns_comm.c:657; POX registers the connection before it answers
   (srhandler.py:144).

Found while modelling, and kept here without a run of their own:

* The error about a host that does not answer is addressed to four octets of the payload
  of the packet it is about: `host_unreachable` passes a pointer past the Ethernet header
  and `sr_send_icmp_error_packet` skips it again (sr_arpcache.c:107, the comment at
  sr_router.c:209). `IpNetwork` has it so, with `Junk`.
* A default route (length 0) is never used: the match starts from length 0 and asks for
  more, where the comment has "Find the entry with the longest matching prefix"
  (sr_router.c:110). `LongestButDefault` has the exception.
* Two LSU threads that find the same entry missing both add it, or one of them loses the
  entry of the other (pwospf_topology.c:73, :8), and the ageing thread frees entries under
  them (:30). `TableSound` says until when it is not so.
* An LSU of a round may go to the neighbor before, or to two neighbors in one frame, when
  a HELLO changes the interface while it is made (sr_pwospf.c:553, :624).
* A packet that another thread queues between `host_unreachable` and `sr_arpreq_destroy` is
  freed without a report (sr_arpcache.c:89).
* The pointer `sr_arpcache_queuereq` returns is used without the lock after the
  timeout thread may have freed it (sr_arpcache.c:88). Two requests given up in one
  sweep whose packets' sources are behind each other's hop recurse until the stack is
  full (sr_arpcache.c:107). `ArpCache` has both as actions that end the process.
* An ARP request from the host being resolved takes the request off the queue and
  its packets are never sent (sr_router.c:534; sr_arpcache.h:27-32 says they are).
* With a full cache a mapping is dropped; two entries for an address can be valid.
* A HELLO between two reads of `delete_neighbor` has the wrong node freed, and a silent
  router stays the neighbor of its interface (pwospf_neighbors.c:51). The first LSU to a
  new neighbor may go to the address 0 (sr_pwospf.c:712).
* An LSU that passed the check of its number before a newer one was applied
  overwrites it (sr_pwospf.c:808). A network that cannot be reached gets the
  route of the last item of the search (dijkstra.c:112).
* `clear_routes` may delete a direct route when two searches clear at once, as
  `sr_del_rt_entry` reads the pointer again (sr_rt.c:249). The comment in
  `pwospf_init` that the thread waits for the interfaces is not what it does: it
  sleeps five seconds (sr_pwospf.c:56).
* An echo reply keeps the TTL the request had left. Errors are sent about errors. The first
  delivery queues an error's buffer before writing it (reenvio/sr_router.c:169). Router
  ids are compared in network byte order.
* Notifications are never executed (servidor.py:130), a result `None` gets no answer,
  a connection that is idle for a second gets a parse error, and after an end of file
  both sides may spin.
* A router that opens before its switch is up is closed by a `KeyError` and then spins in
  `recv`; connections are never taken out of `srclients`; `"Goodbyte!"` is no message
  and raises; `out_port` is used unbound (srhandler.py:167).

## 6. Plan

1. `ArpCache`, `ArpResolution` with proofs and refinement. *Done.*
2. `PwospfNeighbors` with proofs. *Done.*
3. `PwospfRoutes`. *Done*, with proofs of all its safety properties.
4. `PwospfTopology`. *Done*, with proofs of its safety properties. `LsuFlooding`. *Done*
   for the network. Left are its proofs (type, no copy of an LSU that was never sent) and
   LSAs that contradict.
5. `RouteTable`. *Done*, with proofs of all its safety properties.
6. `JsonRpc`. *Done*, with proofs of all its safety properties.
7. `VnsSession`. *Done*, with proofs of all its safety properties, without the routing
   table that a template brings.
8. `IpNetwork`. *Done*, with proofs.

## 7. Not modelled, and why

* Checksums, header layout, address formatting, printing, packet dumps: pure
  conversions and output; `IpNetwork` has whether a packet is valid. SHA-1 (`sha1.c`)
  is vendored.
* Options, allocation and the reading of files in `sr_main.c` and `sr_rt.c`: a
  sequential start without choices.
* Routing tables sent for a template, VNSCLOSE and VNSBANNER: POX answers none of
  the first and sends none of the others. The OpenFlow side of POX is reduced to a
  switch that comes up and frames that come in.
* `reenvio/`: its `sr_router.c` is in `IpNetwork`; its `sr_arpcache.c` differs from the
  modelled one in includes and prints only; its `sr_vns_comm.c` in that it checks the
  interfaces against the routing table, and ends the program.
* Quotes in JSON. Which brackets are in a string is taken as exact; the code's tracking
  is not where a string ends in an escaped backslash (`is_quoted`, servidor.py:60). So are
  left out the exceptions that differ only in their wording.
* A timeout of the server's `recv` in the middle of a message that is still arriving: in
  `JsonRpc` a thread times out when it has nothing to read.
* What becomes of a connection to POX after a short write that another thread cut:
  `FramesWhole` says nothing of it.
* Mininet topology, scripts, captures, obfuscated binaries under `dist/`.
