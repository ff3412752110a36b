------------------------------ MODULE ArpCache ------------------------------
(***************************************************************************)
(* The ARP cache of the router (enrutamiento/sr_arpcache.c) and the three  *)
(* kinds of thread that work on it: the main thread, which handles one     *)
(* received frame at a time (sr_router.c), the timeout thread, which once  *)
(* a second expires entries and sweeps the request queue, and the worker   *)
(* threads of PWOSPF, which send LSUs (sr_pwospf.c).                       *)
(*                                                                         *)
(* The lock of the cache is recursive.  lookup, queuereq, insert and       *)
(* destroy take it and release it before they return, so each is one step; *)
(* the timeout thread keeps it for a whole sweep.  handle_arpreq works on  *)
(* a raw pointer and takes no lock, so its reads and writes are steps of   *)
(* their own, and a thread is a stack of the calls it is in.               *)
(*                                                                         *)
(* Data is abstracted: a packet is an identity with the next hop of its    *)
(* destination and that of its source; a mapping has no MAC address; time  *)
(* is an age in seconds that saturates where the code stops looking.       *)
(***************************************************************************)
EXTENDS Naturals, Sequences, FiniteSets

CONSTANTS
  Ips,        \* addresses of next hops
  NoIp,       \* no address
  Pkts,       \* packets the router forwards, or originates and sends on
  NextHop,    \* the address to resolve in order to send a packet
  SrcHop,     \* the one to resolve to reach its source; NoIp if the source is
              \* the router itself or has no route
  Main,       \* the thread of sr_handlepacket
  Timeout,    \* the thread of sr_arpcache_timeout
  Workers,    \* the threads that call send_lsu or flood a received LSU
  Carrier,    \* the thread that sends a packet
  CacheSize,  \* SR_ARPCACHE_SZ
  CacheTO,    \* SR_ARPCACHE_TO, in seconds
  MaxTries,   \* the 5 of handle_arpreq
  Askers,     \* next hops that send ARP requests of their own to the router
  Gratuitous, \* TRUE if replies may carry a target that is not the router
  MaxDepth    \* bound: calls a thread may nest before its stack overflows

NoThread == "no thread"
Threads == Workers \union {Main, Timeout}

ASSUME ThreadAssumption ==
  /\ Main # Timeout
  /\ Main \notin Workers
  /\ Timeout \notin Workers
  /\ NoThread \notin Threads
ASSUME RouteAssumption ==
  /\ Pkts # {}
  /\ NoIp \notin Ips
  /\ NextHop \in [Pkts -> Ips]
  /\ SrcHop \in [Pkts -> Ips \union {NoIp}]
  /\ Carrier \in [Pkts -> Threads \ {Timeout}]
  /\ Askers \subseteq Ips
ASSUME SizeAssumption ==
  /\ CacheSize \in Nat
  /\ CacheTO \in Nat
  /\ MaxTries \in Nat
  /\ MaxDepth \in Nat
  /\ Gratuitous \in BOOLEAN

VARIABLES
  cache,     \* entries[]: per slot the address mapped (NoIp: not valid), its age
  req,       \* every sr_arpreq ever allocated, in order; an index is a pointer
  stack,     \* per thread, the calls it is in, the running one first
  lock,      \* the owner of the cache's mutex between two steps
  awake,     \* the timeout thread's sleep(1.0) is over
  fresh,     \* packets not yet handled
  sent,      \* packets given to sr_send_packet
  reported,  \* packets host_unreachable has gone over
  fault      \* what the process died of, "none" while it runs

vars == <<cache, req, stack, lock, awake, fresh, sent, reported, fault>>

-----------------------------------------------------------------------------
(* Packets: one of Pkts, or the ICMP error the router sends about it.      *)
Packet == [id : Pkts, err : BOOLEAN]
Data(p) == [id |-> p, err |-> FALSE]
ErrorAbout(p) == [id |-> p.id, err |-> TRUE]

\* An error's source is the router: an error about an error goes nowhere.
Hop(p) == IF p.err THEN SrcHop[p.id] ELSE NextHop[p.id]
SourceHop(p) == IF p.err THEN NoIp ELSE SrcHop[p.id]

Entry == [ip : Ips \union {NoIp}, age : Nat]
NoEntry == [ip |-> NoIp, age |-> 0]
Slots == 1..CacheSize

\* since: seconds since req->sent, 2 standing for more than one, which is
\* also what a request never sent (sent = 0) looks like.  asks counts the
\* broadcasts that were really made: history, the code has only times_sent.
Request == [ip : Ips, since : 0..2, times : Nat, asks : Nat,
            pkts : SUBSET Packet, linked : BOOLEAN, freed : BOOLEAN]
NewRequest(ip, p) ==
  [ip |-> ip, since |-> 2, times |-> 0, asks |-> 0,
   pkts |-> {p}, linked |-> TRUE, freed |-> FALSE]

\* The queue: requests are pushed at the head, so its order is that of
\* allocation, the newest first.
Linked == {r \in DOMAIN req : req[r].linked}
\* r is the first of the requests S of the queue, 0 (NULL) if there is none.
FirstOf(S, r) ==
  \/ S = {} /\ r = 0
  \/ r \in S /\ \A q \in S : q <= r
\* Those for an address, where queuereq and insert stop at the first.
\* (mutant: only the head of the queue is compared)
QueueFor_Head(ip) == {r \in Linked : req[r].ip = ip /\ FirstOf(Linked, r)}
QueueFor(ip) == {r \in Linked : req[r].ip = ip}
\* Those that come after r.
After(r) == {q \in Linked : q < r}

-----------------------------------------------------------------------------
(* Calls.  A frame says where in which function a thread is; pkt is the    *)
(* packet being sent, r the sr_arpreq pointer held, todo the packets still *)
(* to walk, seen the times_sent read by req->times_sent++, now the seconds *)
(* since handle_arpreq read the clock into its variable now (2: or more).  *)
Ops == {"lookup", "queue", "check", "ask", "bump", "unreachable", "destroy",
        "pending", "sweep"}
Frame == [op : Ops, pkt : Packet, r : Nat, todo : SUBSET Packet, seen : Nat,
          now : 0..2]

Sending(op, p) ==
  [op |-> op, pkt |-> p, r |-> 0, todo |-> {}, seen |-> 0, now |-> 0]
AnyPkt == CHOOSE p \in Packet : TRUE
Holding(op, r) ==
  [op |-> op, pkt |-> AnyPkt, r |-> r, todo |-> {}, seen |-> 0, now |-> 0]

Idle(t) == fault = "none" /\ stack[t] = <<>>
Running(t, op) ==
  fault = "none" /\ stack[t] # <<>> /\ Head(stack[t]).op = op
Top(t) == Head(stack[t])
\* The running call of t is replaced by the calls fs.
Continue(t, fs) == stack' = [stack EXCEPT ![t] = fs \o Tail(@)]
Return(t) == Continue(t, <<>>)
\* The lock is free for t: it is recursive.
\* (mutant: the functions do not take it)
LockFor_Ignored(t) == TRUE
LockFor(t) == lock \in {NoThread, t}

Init ==
  /\ cache = [s \in Slots |-> NoEntry]
  /\ req = <<>>
  /\ stack = [t \in Threads |-> <<>>]
  /\ lock = NoThread
  /\ awake = FALSE
  /\ fresh = Pkts
  /\ sent = {}
  /\ reported = {}
  /\ fault = "none"

-----------------------------------------------------------------------------
(* Sending a packet: lookup, and on a miss queuereq and handle_arpreq.     *)

\* The main thread forwards a packet or reports an error of its own, a
\* worker sends an LSU: all reach the cache by the same three calls.
Send(t, p) ==
  /\ Idle(t)
  /\ p \in fresh
  /\ Carrier[p] = t
  /\ fresh' = fresh \ {p}
  /\ stack' = [stack EXCEPT ![t] = <<Sending("lookup", Data(p))>>]
  /\ UNCHANGED <<cache, req, lock, awake, sent, reported, fault>>

Mapped(ip) == \E s \in Slots : cache[s].ip = ip

LookupHit(t) ==
  /\ Running(t, "lookup")
  /\ LockFor(t)
  /\ Mapped(Hop(Top(t).pkt))
  /\ sent' = sent \union {Top(t).pkt}
  /\ Return(t)
  /\ UNCHANGED <<cache, req, lock, awake, fresh, reported, fault>>

LookupMiss(t) ==
  /\ Running(t, "lookup")
  /\ LockFor(t)
  /\ ~Mapped(Hop(Top(t).pkt))
  /\ Continue(t, <<Sending("queue", Top(t).pkt)>>)
  /\ UNCHANGED <<cache, req, lock, awake, fresh, sent, reported, fault>>

\* sr_arpcache_queuereq joins the request queued for the address, or links
\* a new one; the pointer it returns is used after the lock is released.
QueueReq(t) ==
  LET p == Top(t).pkt
  IN  /\ Running(t, "queue")
      /\ LockFor(t)
      /\ \/ \E r \in Linked :
              /\ FirstOf(QueueFor(Hop(p)), r)
              /\ req' = [req EXCEPT ![r].pkts = @ \union {p}]
              /\ Continue(t, <<Holding("check", r)>>)
         \/ /\ QueueFor(Hop(p)) = {}
            /\ req' = Append(req, NewRequest(Hop(p), p))
            /\ Continue(t, <<Holding("check", Len(req) + 1)>>)
      /\ UNCHANGED <<cache, lock, awake, fresh, sent, reported, fault>>

-----------------------------------------------------------------------------
(* handle_arpreq, on the pointer r and without the lock.                   *)

Live(t) == ~req[Top(t).r].freed

\* (mutant: one broadcast too few)
Exhausted_OneShort(q) == q.times + 1 >= MaxTries
Exhausted(q) == q.times >= MaxTries

HandleNotYet(t) ==
  /\ Running(t, "check")
  /\ Live(t)
  /\ req[Top(t).r].since < 2
  /\ Return(t)
  /\ UNCHANGED <<cache, req, lock, awake, fresh, sent, reported, fault>>

HandleAsk(t) ==
  /\ Running(t, "check")
  /\ Live(t)
  /\ req[Top(t).r].since = 2
  /\ ~Exhausted(req[Top(t).r])
  /\ Continue(t, <<[Top(t) EXCEPT !.op = "ask"]>>)
  /\ UNCHANGED <<cache, req, lock, awake, fresh, sent, reported, fault>>

HandleGiveUp(t) ==
  /\ Running(t, "check")
  /\ Live(t)
  /\ req[Top(t).r].since = 2
  /\ Exhausted(req[Top(t).r])
  /\ Continue(t, <<[Top(t) EXCEPT !.op = "unreachable",
                                  !.todo = req[Top(t).r].pkts]>>)
  /\ UNCHANGED <<cache, req, lock, awake, fresh, sent, reported, fault>>

\* The broadcast, req->sent = now and the load of req->times_sent.  A thread
\* held up since it read the clock stores an old time.
Ask(t) ==
  /\ Running(t, "ask")
  /\ Live(t)
  /\ req' = [req EXCEPT ![Top(t).r].since = Top(t).now,
                        ![Top(t).r].asks = @ + 1]
  /\ Continue(t, <<[Holding("bump", Top(t).r)
                      EXCEPT !.seen = req[Top(t).r].times]>>)
  /\ UNCHANGED <<cache, lock, awake, fresh, sent, reported, fault>>

\* The store of req->times_sent++, which another thread's may have passed.
Bump(t) ==
  /\ Running(t, "bump")
  /\ Live(t)
  /\ req' = [req EXCEPT ![Top(t).r].times = Top(t).seen + 1]
  /\ Return(t)
  /\ UNCHANGED <<cache, lock, awake, fresh, sent, reported, fault>>

\* host_unreachable, one packet of the list: an ICMP error that has nobody
\* to go to is dropped, any other is sent like a packet, inside this call.
ReportNobody(t, p) ==
  /\ Running(t, "unreachable")
  /\ Live(t)
  /\ p \in Top(t).todo
  /\ SourceHop(p) = NoIp
  /\ reported' = reported \union {p}
  /\ Continue(t, <<[Top(t) EXCEPT !.todo = @ \ {p}]>>)
  /\ UNCHANGED <<cache, req, lock, awake, fresh, sent, fault>>

ReportSource(t, p) ==
  /\ Running(t, "unreachable")
  /\ Live(t)
  /\ p \in Top(t).todo
  /\ SourceHop(p) # NoIp
  /\ Len(stack[t]) < MaxDepth
  /\ reported' = reported \union {p}
  /\ Continue(t, <<Sending("lookup", ErrorAbout(p)),
                   [Top(t) EXCEPT !.todo = @ \ {p}]>>)
  /\ UNCHANGED <<cache, req, lock, awake, fresh, sent, fault>>

ReportDone(t) ==
  /\ Running(t, "unreachable")
  /\ Live(t)
  /\ Top(t).todo = {}
  /\ Continue(t, <<[Top(t) EXCEPT !.op = "destroy"]>>)
  /\ UNCHANGED <<cache, req, lock, awake, fresh, sent, reported, fault>>

\* sr_arpreq_destroy: unlinked if it is on the queue, and freed.
\* (mutant: not at all)
Discard_Not(q) == q
Discard(q) == [q EXCEPT !.linked = FALSE, !.freed = TRUE]
Destroy(t) ==
  /\ Running(t, "destroy")
  /\ LockFor(t)
  /\ Live(t)
  /\ req' = [req EXCEPT ![Top(t).r] = Discard(@)]
  /\ Return(t)
  /\ UNCHANGED <<cache, lock, awake, fresh, sent, reported, fault>>

-----------------------------------------------------------------------------
(* ARP frames, handled by the main thread.                                 *)

\* sr_arpcache_insert: the request for the address leaves the queue, the
\* mapping takes the first slot that is not valid, if there is one.
Unlink(r) == IF r = 0 THEN req ELSE [req EXCEPT ![r].linked = FALSE]
FreeSlots == {s \in Slots : cache[s].ip = NoIp}
Insert(ip, r) ==
  /\ LockFor(Main)
  /\ FirstOf(QueueFor(ip), r)
  /\ req' = Unlink(r)
  /\ cache' = IF FreeSlots = {} THEN cache
              ELSE [cache EXCEPT ![CHOOSE s \in FreeSlots :
                                     \A u \in FreeSlots : s <= u] =
                      [ip |-> ip, age |-> 0]]

\* A reply nobody waits for only fills the cache.
ReplyUnawaited(ip) ==
  /\ Idle(Main)
  /\ Insert(ip, 0)
  /\ UNCHANGED <<stack, lock, awake, fresh, sent, reported, fault>>

\* A reply to the router: the packets waiting are sent, the request destroyed.
ReplyAwaited(ip, r) ==
  /\ Idle(Main)
  /\ Insert(ip, r)
  /\ stack' = [stack EXCEPT ![Main] =
                 <<[Holding("pending", r) EXCEPT !.todo = req[r].pkts]>>]
  /\ UNCHANGED <<lock, awake, fresh, sent, reported, fault>>

\* The same with a target that is not the router: myInterface is NULL and
\* sending the first packet dereferences it.
ReplyToOther(ip, r) ==
  /\ Gratuitous
  /\ Idle(Main)
  /\ Insert(ip, r)
  /\ fault' = "null interface"
  /\ UNCHANGED <<stack, lock, awake, fresh, sent, reported>>

SendPending(t, p) ==
  /\ Running(t, "pending")
  /\ Live(t)
  /\ p \in Top(t).todo
  /\ sent' = sent \union {p}
  /\ Continue(t, <<[Top(t) EXCEPT !.todo = @ \ {p}]>>)
  /\ UNCHANGED <<cache, req, lock, awake, fresh, reported, fault>>

\* (mutant: the request is not destroyed)
PendingDone_Kept(t) ==
  /\ Running(t, "pending")
  /\ Live(t)
  /\ Top(t).todo = {}
  /\ Return(t)
  /\ UNCHANGED <<cache, req, lock, awake, fresh, sent, reported, fault>>
PendingDone(t) ==
  /\ Running(t, "pending")
  /\ Live(t)
  /\ Top(t).todo = {}
  /\ Continue(t, <<[Top(t) EXCEPT !.op = "destroy"]>>)
  /\ UNCHANGED <<cache, req, lock, awake, fresh, sent, reported, fault>>

\* An ARP request to the router teaches it the sender's mapping; the request
\* that insert returns is not looked at.
AskedBy(ip) ==
  /\ ip \in Askers
  /\ Idle(Main)
  /\ \E r \in 0..Len(req) : Insert(ip, r)
  /\ UNCHANGED <<stack, lock, awake, fresh, sent, reported, fault>>

-----------------------------------------------------------------------------
(* The timeout thread.                                                     *)

Expired(e) == e.ip # NoIp /\ e.age > CacheTO
Expire(e) == IF Expired(e) THEN NoEntry ELSE e

\* Once a second it takes the lock, expires entries and starts the sweep.
StartSweep ==
  /\ Idle(Timeout)
  /\ awake
  /\ lock = NoThread
  /\ lock' = Timeout
  /\ awake' = FALSE
  /\ cache' = [s \in Slots |-> Expire(cache[s])]
  /\ \E r \in 0..Len(req) :
       /\ FirstOf(Linked, r)
       /\ stack' = [stack EXCEPT ![Timeout] = <<Holding("sweep", r)>>]
  /\ UNCHANGED <<req, fresh, sent, reported, fault>>

\* sr_arpcache_sweepreqs reads currReq->next before it handles currReq.
SweepNext ==
  /\ Running(Timeout, "sweep")
  /\ Top(Timeout).r # 0
  /\ Live(Timeout)
  /\ \E next \in 0..Len(req) :
       /\ FirstOf(After(Top(Timeout).r), next)
       /\ Continue(Timeout, <<Holding("check", Top(Timeout).r),
                              Holding("sweep", next)>>)
  /\ UNCHANGED <<cache, req, lock, awake, fresh, sent, reported, fault>>

EndSweep ==
  /\ Running(Timeout, "sweep")
  /\ Top(Timeout).r = 0
  /\ lock' = NoThread
  /\ Return(Timeout)
  /\ UNCHANGED <<cache, req, awake, fresh, sent, reported, fault>>

\* A second passes: ages saturate, and a sleeping timeout thread wakes up.
Older(e) ==
  IF e.ip # NoIp /\ e.age <= CacheTO THEN [e EXCEPT !.age = @ + 1] ELSE e
OneMore(n) == IF n = 2 THEN 2 ELSE n + 1
Held(s) ==
  IF s # <<>> /\ Head(s).op = "ask"
  THEN <<[Head(s) EXCEPT !.now = OneMore(@)]>> \o Tail(s) ELSE s
Tick ==
  /\ fault = "none"
  /\ cache' = [s \in Slots |-> Older(cache[s])]
  /\ req' = [r \in DOMAIN req |->
               [req[r] EXCEPT !.since = OneMore(@)]]
  /\ stack' = [t \in Threads |-> Held(stack[t])]
  /\ awake' = (awake \/ stack[Timeout] = <<>>)
  /\ UNCHANGED <<lock, fresh, sent, reported, fault>>

-----------------------------------------------------------------------------
(* Undefined behaviour: the process is taken to end there.                 *)

\* A call reads, writes or frees a request that has been freed.
UsesRequest(t) ==
  \/ \E op \in {"check", "ask", "bump", "unreachable", "pending"} :
       Running(t, op)
  \/ Running(t, "destroy") /\ LockFor(t)
  \/ Running(t, "sweep") /\ Top(t).r # 0
UseAfterFree(t) ==
  /\ UsesRequest(t)
  /\ ~Live(t)
  /\ fault' = "use after free"
  /\ UNCHANGED <<cache, req, stack, lock, awake, fresh, sent, reported>>

\* host_unreachable and handle_arpreq call each other once too often.
StackOverflow(t) ==
  /\ Running(t, "unreachable")
  /\ Live(t)
  /\ \E p \in Top(t).todo : SourceHop(p) # NoIp
  /\ Len(stack[t]) >= MaxDepth
  /\ fault' = "stack overflow"
  /\ UNCHANGED <<cache, req, stack, lock, awake, fresh, sent, reported>>

-----------------------------------------------------------------------------
\* The next step inside the calls a thread is in.
Proceed(t) ==
  \/ LookupHit(t) \/ LookupMiss(t) \/ QueueReq(t)
  \/ HandleNotYet(t) \/ HandleAsk(t) \/ HandleGiveUp(t)
  \/ Ask(t) \/ Bump(t)
  \/ \E p \in Packet : ReportNobody(t, p) \/ ReportSource(t, p)
  \/ ReportDone(t) \/ Destroy(t)
  \/ \E p \in Packet : SendPending(t, p)
  \/ PendingDone(t)
  \/ UseAfterFree(t) \/ StackOverflow(t)
Sweep == StartSweep \/ SweepNext \/ EndSweep
Receive(ip) ==
  \/ ReplyUnawaited(ip)
  \/ \E r \in Linked : ReplyAwaited(ip, r) \/ ReplyToOther(ip, r)
  \/ AskedBy(ip)

Next ==
  \/ \E t \in Threads : Proceed(t) \/ \E p \in Pkts : Send(t, p)
  \/ Sweep
  \/ \E ip \in Ips : Receive(ip)
  \/ Tick

Spec == Init /\ [][Next]_vars

\* Threads are scheduled and time passes; nothing makes a packet or a reply
\* arrive.
Fairness ==
  /\ \A t \in Threads : WF_vars(Proceed(t))
  /\ WF_vars(Sweep)
  /\ WF_vars(Tick)
FairSpec == Spec /\ Fairness

-----------------------------------------------------------------------------
(* Properties.                                                             *)

\* Every variable has the type its declaration gives it.
TypeOK ==
  /\ cache \in [Slots -> Entry]
  /\ req \in Seq(Request)
  /\ stack \in [Threads -> Seq(Frame)]
  /\ lock \in {NoThread, Timeout}
  /\ awake \in BOOLEAN
  /\ fresh \subseteq Pkts
  /\ sent \subseteq Packet
  /\ reported \subseteq Packet
  /\ fault \in {"none", "use after free", "stack overflow", "null interface"}

\* Two threads that miss on the same address at once share one request: the
\* queue never holds two for an address (sr_arpcache_queuereq), so a reply
\* that takes the first match leaves no packet behind on a second one.
OneRequestPerIp ==
  \A r, q \in Linked : req[r].ip = req[q].ip => r = q

\* What the sweep still points to while it runs, the request it has read as the
\* next one and those of the calls it is in, is freed only by a give-up nested in
\* one of these calls, which has queued an error of the router on it: the lock
\* keeps out the destroys of all other threads, also of those that hold the pointer
\* of a request they looked up before (sr_arpcache_sweepreqs, sr_arpreq_destroy).
SweepPointers ==
  \A i \in DOMAIN stack[Timeout] :
    LET r == stack[Timeout][i].r
    IN r # 0 /\ req[r].freed => \E p \in req[r].pkts : p.err

\* A host is reported unreachable only after MaxTries broadcasts for it went
\* out, although threads race on times_sent and may lose increments
\* (handle_arpreq).
NoEarlyGiveUp ==
  \A t \in Threads : \A i \in DOMAIN stack[t] :
    stack[t][i].op = "unreachable" => req[stack[t][i].r].asks >= MaxTries

\* A request that is freed takes no packet with it that was neither sent nor
\* reported, but for errors of the router itself and for what another thread
\* queued on it while a thread gave it up outside the lock: the sweep loses no
\* packet that is forwarded (host_unreachable and sr_arpreq_destroy are two steps).
Abandoned(r, p) ==
  \E t \in Threads \ {Timeout, Carrier[p.id]} :
    Running(t, "destroy") /\ Top(t).r = r
GiveUpReports ==
  [][ \A r \in DOMAIN req :
        req'[r].freed /\ ~req[r].freed =>
          \A p \in req[r].pkts \ (sent \union reported) :
            p.err \/ Abandoned(r, p) ]_vars

\* A request that insert took off the queue is about to be destroyed, or its next
\* hop is one that sends ARP requests itself: a reply's request does not linger with
\* its packets, while what the insert for an ARP request takes off is not looked
\* at, and may linger for ever (sr_handle_arp_packet).
NoOrphan ==
  \A r \in DOMAIN req :
    \/ req[r].linked \/ req[r].freed
    \/ fault # "none"
    \/ \E i \in DOMAIN stack[Main] :
         stack[Main][i].r = r /\ stack[Main][i].op \in {"pending", "destroy"}
    \/ req[r].ip \in Askers

\* Every request leaves the queue, answered or given up, while time passes
\* and the timeout thread runs (sr_arpcache_timeout).
EveryRequestEnds ==
  \A ip \in Ips : QueueFor(ip) # {} ~> (QueueFor(ip) = {} \/ fault # "none")

\* Seen from outside, a request is a resolution of ArpResolution: unlinked by
\* insert it is answered, freed while still linked it was given up.
State(q) ==
  IF q.freed THEN "closed" ELSE IF q.linked THEN "asking" ELSE "answered"
Outcome ==
  [r \in DOMAIN req |->
     [ip |-> req[r].ip, asks |-> req[r].asks, state |-> State(req[r])]]
Abstract == INSTANCE ArpResolution WITH res <- Outcome

\* Whatever the threads interleave, requests begin, are broadcast and end as
\* ArpResolution allows (sr_arpcache_queuereq, handle_arpreq, insert, destroy).
ImplementsResolution == Abstract!Spec
=============================================================================
