--------------------------- MODULE ArpCacheProofs ---------------------------
(***************************************************************************)
(* Invariants of ArpCache, for any number of threads, packets, addresses   *)
(* and cache slots: the queue of requests, what leaves it, what is lost    *)
(* with a request, the pointers of the sweep; and the refinement.          *)
(***************************************************************************)
EXTENDS ArpCache, TLAPS, SequenceTheorems

(***************************************************************************)
(* The inductive invariant.  What a thread knows of the request it holds   *)
(* is in its frames; the facts there are stable because a request is never *)
(* relinked and its broadcasts are never forgotten.                        *)
(***************************************************************************)
Pointing == {"check", "ask", "bump", "unreachable", "destroy", "pending"}

FrameOK(f, rq) ==
  /\ f.op \in Pointing => f.r \in DOMAIN rq
  /\ f.op = "sweep" => f.r \in DOMAIN rq \union {0}
  /\ f.op \in {"lookup", "queue"} => Hop(f.pkt) \in Ips
  /\ f.op = "bump" => f.seen + 1 <= rq[f.r].asks
  /\ f.op = "unreachable" => rq[f.r].asks >= MaxTries
  /\ f.op = "destroy" => rq[f.r].asks >= MaxTries \/ ~rq[f.r].linked
  /\ f.op = "pending" => ~rq[f.r].linked
FramesOK ==
  \A t \in Threads : \A i \in DOMAIN stack[t] : FrameOK(stack[t][i], req)

RequestsOK ==
  \A r \in DOMAIN req :
    /\ req[r].times <= req[r].asks
    /\ req[r].linked => ~req[r].freed

IInv == TypeOK /\ OneRequestPerIp /\ RequestsOK /\ FramesOK

\* How the requests of a state relate to those of a later one.
Evolves(old, new) ==
  /\ DOMAIN old \subseteq DOMAIN new
  /\ \A r \in DOMAIN old : /\ new[r].asks >= old[r].asks
                           /\ new[r].linked => old[r].linked

-----------------------------------------------------------------------------
\* What a frame claims of its request stays true.
LEMMA FrameStable ==
  ASSUME NEW f \in Frame, NEW old \in Seq(Request), NEW new \in Seq(Request),
         Evolves(old, new), FrameOK(f, old)
  PROVE  FrameOK(f, new)
<1>1. /\ DOMAIN old = 1..Len(old) /\ Len(old) \in Nat
      /\ DOMAIN new = 1..Len(new) /\ Len(new) \in Nat
  OBVIOUS
<1>2. /\ f.op \in Pointing => f.r \in DOMAIN new
      /\ f.op = "sweep" => f.r \in DOMAIN new \union {0}
  BY DEF FrameOK, Evolves
<1>3. ASSUME f.op \in Pointing
      PROVE  /\ f.r \in DOMAIN old
             /\ old[f.r] \in Request /\ new[f.r] \in Request
             /\ new[f.r].asks >= old[f.r].asks
             /\ new[f.r].linked => old[f.r].linked
  BY <1>1, <1>2, <1>3, ElementOfSeq DEF FrameOK, Evolves
<1>4. MaxTries \in Nat /\ f.seen \in Nat
  BY SizeAssumption DEF Frame
<1>5. CASE f.op \notin Pointing
  BY <1>2, <1>5 DEF FrameOK, Pointing
<1>6. CASE f.op \in Pointing
  <2>1. /\ old[f.r].asks \in Nat /\ new[f.r].asks \in Nat
        /\ new[f.r].asks >= old[f.r].asks
        /\ new[f.r].linked => old[f.r].linked
    BY <1>3, <1>6 DEF Request
  <2>2. f.op = "bump" => f.seen + 1 <= new[f.r].asks
    BY <1>4, <2>1 DEF FrameOK
  <2>3. f.op \in {"unreachable", "destroy"} =>
          (old[f.r].asks >= MaxTries => new[f.r].asks >= MaxTries)
    BY <1>4, <2>1
  <2> QED BY <1>2, <1>6, <2>1, <2>2, <2>3 DEF FrameOK
<1> QED BY <1>5, <1>6

\* The running call of a thread is replaced: its other calls stay, and the
\* frames of all threads are good if the new ones are.
LEMMA ContinueOK ==
  ASSUME stack \in [Threads -> Seq(Frame)], FramesOK,
         req \in Seq(Request), req' \in Seq(Request), Evolves(req, req'),
         NEW t \in Threads, stack[t] # <<>>,
         NEW fs \in Seq(Frame), \A i \in DOMAIN fs : FrameOK(fs[i], req'),
         Continue(t, fs)
  PROVE  stack' \in [Threads -> Seq(Frame)] /\ FramesOK'
<1> DEFINE tail == Tail(stack[t])
<1>1. /\ stack[t] \in Seq(Frame)
      /\ tail \in Seq(Frame)
      /\ Len(tail) = Len(stack[t]) - 1
      /\ \A i \in 1..Len(tail) : tail[i] = stack[t][i+1]
  BY HeadTailProperties
<1>2. /\ fs \o tail \in Seq(Frame)
      /\ Len(fs \o tail) = Len(fs) + Len(tail)
      /\ \A i \in 1..(Len(fs) + Len(tail)) :
           (fs \o tail)[i] = IF i <= Len(fs) THEN fs[i] ELSE tail[i - Len(fs)]
  BY <1>1, ConcatProperties
<1>3. stack' = [stack EXCEPT ![t] = fs \o tail]
  BY DEF Continue
<1>4. stack' \in [Threads -> Seq(Frame)]
  BY <1>2, <1>3
<1>5. ASSUME NEW u \in Threads, NEW i \in DOMAIN stack'[u]
      PROVE  FrameOK(stack'[u][i], req')
  <2>1. CASE u # t
    <3>1. stack'[u] = stack[u] /\ stack[u][i] \in Frame
      BY <1>3, <1>5, <2>1, ElementOfSeq, LenProperties
    <3> QED BY <3>1, <1>5, FrameStable DEF FramesOK
  <2>2. CASE u = t
    <3>1. stack'[u] = fs \o tail /\ i \in 1..(Len(fs) + Len(tail))
      BY <1>2, <1>3, <1>5, <2>2, LenProperties
    <3>2. CASE i <= Len(fs)
      <4>1. i \in DOMAIN fs /\ stack'[u][i] = fs[i]
        BY <1>2, <3>1, <3>2, LenProperties
      <4> QED BY <4>1
    <3>3. CASE ~(i <= Len(fs))
      <4> DEFINE j == i - Len(fs)
      <4>1. /\ j \in 1..Len(tail) /\ j + 1 \in DOMAIN stack[t]
            /\ stack'[u][i] = stack[t][j + 1]
        BY <1>1, <1>2, <3>1, <3>3, LenProperties
      <4>2. stack[t][j + 1] \in Frame /\ FrameOK(stack[t][j + 1], req)
        BY <1>1, <4>1, ElementOfSeq, LenProperties DEF FramesOK
      <4> QED BY <4>1, <4>2, FrameStable
    <3> QED BY <3>2, <3>3
  <2> QED BY <2>1, <2>2
<1> QED BY <1>4, <1>5 DEF FramesOK

\* The same for a thread that is idle and begins a call.
LEMMA BeginOK ==
  ASSUME stack \in [Threads -> Seq(Frame)], FramesOK,
         req \in Seq(Request), req' \in Seq(Request), Evolves(req, req'),
         NEW t \in Threads, NEW f \in Frame, FrameOK(f, req'),
         stack' = [stack EXCEPT ![t] = <<f>>]
  PROVE  stack' \in [Threads -> Seq(Frame)] /\ FramesOK'
<1>1. <<f>> \in Seq(Frame) /\ DOMAIN <<f>> = {1} /\ <<f>>[1] = f
  OBVIOUS
<1>2. stack' \in [Threads -> Seq(Frame)]
  BY <1>1
<1>3. ASSUME NEW u \in Threads, NEW i \in DOMAIN stack'[u]
      PROVE  FrameOK(stack'[u][i], req')
  <2>1. CASE u # t
    <3>1. stack'[u] = stack[u] /\ stack[u][i] \in Frame
      BY <1>3, <2>1, ElementOfSeq, LenProperties
    <3> QED BY <3>1, <1>3, FrameStable DEF FramesOK
  <2>2. CASE u = t
    BY <1>1, <1>3, <2>2
  <2> QED BY <2>1, <2>2
<1> QED BY <1>2, <1>3 DEF FramesOK

\* One request is updated in place.
LEMMA UpdateOK ==
  ASSUME IInv, NEW r \in DOMAIN req, NEW q \in Request,
         q.ip = req[r].ip, q.asks >= req[r].asks,
         q.linked => req[r].linked,
         q.times <= q.asks, q.linked => ~q.freed,
         req' = [req EXCEPT ![r] = q]
  PROVE  /\ req' \in Seq(Request) /\ Evolves(req, req')
         /\ RequestsOK' /\ OneRequestPerIp'
<1>1. req \in Seq(Request) /\ DOMAIN req = 1..Len(req)
  BY LenProperties DEF IInv, TypeOK
<1>2. /\ req' \in Seq(Request)
      /\ DOMAIN req' = DOMAIN req
      /\ \A k \in DOMAIN req : req'[k] = IF k = r THEN q ELSE req[k]
  BY <1>1, ExceptSeq
<1>3. \A k \in DOMAIN req : req[k].asks \in Nat
  <2>1. ASSUME NEW k \in DOMAIN req PROVE req[k] \in Request
    BY <1>1, <2>1, ElementOfSeq
  <2> QED BY <2>1 DEF Request
<1>4. Evolves(req, req')
  BY <1>2, <1>3 DEF Evolves
<1>5. RequestsOK'
  BY <1>2 DEF IInv, RequestsOK
<1>6. OneRequestPerIp'
  BY <1>2 DEF IInv, OneRequestPerIp, Linked
<1> QED BY <1>2, <1>4, <1>5, <1>6

\* The variables other than the requests and the calls.
RestOK ==
  /\ cache \in [Slots -> Entry]
  /\ lock \in {NoThread, Timeout}
  /\ awake \in BOOLEAN
  /\ fresh \subseteq Pkts
  /\ sent \subseteq Packet
  /\ reported \subseteq Packet
  /\ fault \in {"none", "use after free", "stack overflow", "null interface"}

\* A step that leaves the requests alone keeps what is said of them.
LEMMA SameRequests ==
  ASSUME IInv, req' = req
  PROVE  /\ req' \in Seq(Request) /\ Evolves(req, req')
         /\ RequestsOK' /\ OneRequestPerIp'
<1>1. req \in Seq(Request) /\ DOMAIN req = 1..Len(req)
  BY LenProperties DEF IInv, TypeOK
<1>2. ASSUME NEW k \in DOMAIN req PROVE req[k].asks \in Nat
  <2>1. req[k] \in Request
    BY <1>1, <1>2, ElementOfSeq
  <2> QED BY <2>1 DEF Request
<1>3. Evolves(req, req')
  BY <1>2 DEF Evolves
<1>4. RequestsOK' /\ OneRequestPerIp'
  BY DEF IInv, RequestsOK, OneRequestPerIp, Linked
<1> QED BY <1>1, <1>3, <1>4

\* A step inside a thread's calls that leaves the requests alone.
LEMMA WalkOK ==
  ASSUME IInv, RestOK', req' = req,
         NEW t \in Threads, stack[t] # <<>>,
         NEW fs \in Seq(Frame), \A i \in DOMAIN fs : FrameOK(fs[i], req),
         Continue(t, fs)
  PROVE  IInv'
<1>1. /\ req' \in Seq(Request) /\ Evolves(req, req')
      /\ RequestsOK' /\ OneRequestPerIp'
  BY SameRequests
<1>2. stack' \in [Threads -> Seq(Frame)] /\ FramesOK'
  <2>1. \A i \in DOMAIN fs : FrameOK(fs[i], req')
    OBVIOUS
  <2>2. stack \in [Threads -> Seq(Frame)] /\ FramesOK /\ req \in Seq(Request)
    BY DEF IInv, TypeOK
  <2> QED BY <1>1, <2>1, <2>2, ContinueOK
<1> QED BY <1>1, <1>2 DEF IInv, TypeOK, RestOK

\* A step inside a thread's calls that updates one request.
LEMMA WriteOK ==
  ASSUME IInv, RestOK',
         NEW r \in DOMAIN req, NEW q \in Request,
         q.ip = req[r].ip, q.asks >= req[r].asks,
         q.linked => req[r].linked,
         q.times <= q.asks, q.linked => ~q.freed,
         req' = [req EXCEPT ![r] = q],
         NEW t \in Threads, stack[t] # <<>>,
         NEW fs \in Seq(Frame), \A i \in DOMAIN fs : FrameOK(fs[i], req'),
         Continue(t, fs)
  PROVE  IInv'
<1>1. /\ req' \in Seq(Request) /\ Evolves(req, req')
      /\ RequestsOK' /\ OneRequestPerIp'
  BY UpdateOK
<1>2. stack' \in [Threads -> Seq(Frame)] /\ FramesOK'
  <2>1. stack \in [Threads -> Seq(Frame)] /\ FramesOK /\ req \in Seq(Request)
    BY DEF IInv, TypeOK
  <2> QED BY <1>1, <2>1, ContinueOK
<1> QED BY <1>1, <1>2 DEF IInv, TypeOK, RestOK

\* The running call of a thread, and the request it holds.
LEMMA TopOK ==
  ASSUME IInv, NEW t \in Threads, stack[t] # <<>>
  PROVE  /\ Top(t) \in Frame /\ FrameOK(Top(t), req)
         /\ Top(t).op \in Pointing =>
              /\ Top(t).r \in DOMAIN req /\ req[Top(t).r] \in Request
<1>1. stack[t] \in Seq(Frame) /\ req \in Seq(Request)
  BY DEF IInv, TypeOK
<1>2. Head(stack[t]) = stack[t][1] /\ 1 \in DOMAIN stack[t]
  BY <1>1, EmptySeq, LenProperties
<1>3. Top(t) \in Frame /\ FrameOK(Top(t), req)
  BY <1>1, <1>2, ElementOfSeq, LenProperties DEF IInv, FramesOK, Top
<1>4. Top(t).op \in Pointing => Top(t).r \in DOMAIN req
  BY <1>3 DEF FrameOK
<1>5. Top(t).op \in Pointing => req[Top(t).r] \in Request
  BY <1>1, <1>4, ElementOfSeq, LenProperties
<1> QED BY <1>3, <1>4, <1>5

\* The calls a step may begin are well typed.
LEMMA NewFrames ==
  /\ AnyPkt \in Packet
  /\ \A op \in Ops, r \in Nat : Holding(op, r) \in Frame
  /\ \A op \in Ops, p \in Packet : Sending(op, p) \in Frame
<1>1. Packet # {}
  <2>1. PICK p \in Pkts : TRUE
    BY RouteAssumption
  <2>2. [id |-> p, err |-> FALSE] \in Packet
    BY DEF Packet
  <2> QED BY <2>2
<1>2. AnyPkt \in Packet
  BY <1>1 DEF AnyPkt
<1> QED BY <1>2 DEF Holding, Sending, Frame

-----------------------------------------------------------------------------
(* Each action keeps the invariant.                                        *)

LEMMA InitOK == Init => IInv
<1> SUFFICES ASSUME Init PROVE IInv
  OBVIOUS
<1> USE DEF Init
<1>1. req \in Seq(Request) /\ DOMAIN req = {}
  OBVIOUS
<1>2. stack \in [Threads -> Seq(Frame)] /\ \A t \in Threads : DOMAIN stack[t] = {}
  OBVIOUS
<1>3. RestOK
  BY DEF RestOK, NoEntry, Entry
<1> QED BY <1>1, <1>2, <1>3
     DEF IInv, TypeOK, RestOK, OneRequestPerIp, Linked, RequestsOK, FramesOK

\* Sending: the calls up to handle_arpreq.
LEMMA SendOK ==
  ASSUME IInv, NEW t \in Threads, NEW p \in Pkts, Send(t, p)
  PROVE  IInv'
<1> DEFINE f == Sending("lookup", Data(p))
<1>1. f \in Frame /\ FrameOK(f, req')
  <2>1. Data(p) \in Packet
    BY DEF Data, Packet
  <2>2. f \in Frame
    BY <2>1, NewFrames DEF Ops
  <2>3. f.op = "lookup"
    BY DEF Sending
  <2>4. Hop(f.pkt) \in Ips
    BY RouteAssumption DEF Sending, Data, Hop
  <2> QED BY <2>2, <2>3, <2>4 DEF FrameOK, Pointing
<1>2. req' = req /\ stack' = [stack EXCEPT ![t] = <<f>>]
  BY DEF Send
<1>3. /\ req' \in Seq(Request) /\ Evolves(req, req')
      /\ RequestsOK' /\ OneRequestPerIp'
  BY <1>2, SameRequests
<1>4. stack' \in [Threads -> Seq(Frame)] /\ FramesOK'
  <2>1. stack \in [Threads -> Seq(Frame)] /\ FramesOK /\ req \in Seq(Request)
    BY DEF IInv, TypeOK
  <2> HIDE DEF f
  <2> QED BY <1>1, <1>2, <1>3, <2>1, BeginOK
<1>5. RestOK'
  BY DEF Send, IInv, TypeOK, RestOK
<1> QED BY <1>3, <1>4, <1>5 DEF IInv, TypeOK, RestOK

LEMMA LookupOK ==
  ASSUME IInv, NEW t \in Threads, LookupHit(t) \/ LookupMiss(t)
  PROVE  IInv'
<1>1. stack[t] # <<>> /\ req' = req
  BY DEF LookupHit, LookupMiss, Running
<1>2. Top(t).pkt \in Packet
  BY <1>1, TopOK DEF Frame
<1>3. RestOK'
  BY <1>2 DEF LookupHit, LookupMiss, IInv, TypeOK, RestOK
<1>4. CASE LookupHit(t)
  <2>1. Continue(t, <<>>)
    BY <1>4 DEF LookupHit, Return
  <2>2. <<>> \in Seq(Frame) /\ \A i \in DOMAIN <<>> : FrameOK(<<>>[i], req)
    OBVIOUS
  <2> QED BY <1>1, <1>3, <2>1, <2>2, WalkOK
<1>5. CASE LookupMiss(t)
  <2> DEFINE fs == <<Sending("queue", Top(t).pkt)>>
  <2>1. Continue(t, fs)
    BY <1>5 DEF LookupMiss
  <2>2. Sending("queue", Top(t).pkt) \in Frame
    BY <1>2, NewFrames DEF Ops
  <2>3. FrameOK(Sending("queue", Top(t).pkt), req)
    <3>1. Top(t).op = "lookup" /\ FrameOK(Top(t), req)
      BY <1>1, <1>5, TopOK DEF LookupMiss, Running, Top
    <3> QED BY <3>1 DEF FrameOK, Sending, Pointing
  <2>4. fs \in Seq(Frame) /\ \A i \in DOMAIN fs : FrameOK(fs[i], req)
    BY <2>2, <2>3
  <2> HIDE DEF fs
  <2> QED BY <1>1, <1>3, <2>1, <2>4, WalkOK
<1> QED BY <1>4, <1>5

\* A packet is queued: on the request there is, or on a new one.
LEMMA QueueOK ==
  ASSUME IInv, NEW t \in Threads, QueueReq(t)
  PROVE  IInv'
<1> DEFINE p == Top(t).pkt
<1>1. stack[t] # <<>>
  BY DEF QueueReq, Running
<1>2. p \in Packet /\ req \in Seq(Request)
  BY <1>1, TopOK DEF Frame, IInv, TypeOK
<1>3. RestOK'
  BY DEF QueueReq, IInv, TypeOK, RestOK
<1>4. DOMAIN req = 1..Len(req) /\ Len(req) \in Nat
  BY <1>2, LenProperties
<1>5. ASSUME NEW r \in Linked,
             req' = [req EXCEPT ![r].pkts = @ \union {p}],
             Continue(t, <<Holding("check", r)>>)
      PROVE  IInv'
  <2> DEFINE q == [req[r] EXCEPT !.pkts = @ \union {p}]
             f == Holding("check", r)
             fs == <<f>>
  <2>1. r \in DOMAIN req /\ r \in Nat
    BY <1>4 DEF Linked
  <2>2. req[r] \in Request
    BY <1>2, <1>4, <2>1, ElementOfSeq
  <2>3. /\ q \in Request /\ q.ip = req[r].ip /\ q.asks = req[r].asks
        /\ q.linked = req[r].linked /\ q.times = req[r].times
        /\ q.freed = req[r].freed /\ req[r].asks \in Nat
    BY <1>2, <2>2 DEF Request
  <2>4. req' = [req EXCEPT ![r] = q]
    BY <1>5
  <2>5. DOMAIN req' = DOMAIN req
    BY <2>4
  <2>6. f \in Frame /\ FrameOK(f, req')
    <3>1. f \in Frame
      BY <2>1, NewFrames DEF Ops
    <3>2. f.op = "check" /\ f.r = r
      BY DEF Holding
    <3> QED BY <2>1, <2>5, <3>1, <3>2 DEF FrameOK, Pointing
  <2>7. fs \in Seq(Frame) /\ \A i \in DOMAIN fs : FrameOK(fs[i], req')
    BY <2>6
  <2>8. q.asks >= req[r].asks /\ q.times <= q.asks /\ (q.linked => ~q.freed)
    BY <2>1, <2>3 DEF IInv, RequestsOK
  <2>9. Continue(t, fs)
    BY <1>5
  <2> HIDE DEF q, fs
  <2> QED BY <1>1, <1>3, <2>1, <2>3, <2>4, <2>7, <2>8, <2>9, WriteOK
<1>6. ASSUME QueueFor(Hop(p)) = {},
             req' = Append(req, NewRequest(Hop(p), p)),
             Continue(t, <<Holding("check", Len(req) + 1)>>)
      PROVE  IInv'
  <2> DEFINE n == Len(req) + 1
             q == NewRequest(Hop(p), p)
             f == Holding("check", n)
             fs == <<f>>
  <2>1. CASE Hop(p) \in Ips
    <3>1. q \in Request
      BY <1>2, <2>1 DEF NewRequest, Request
    <3>2. /\ req' \in Seq(Request) /\ DOMAIN req' = 1..n
          /\ \A r \in DOMAIN req : req'[r] = req[r]
          /\ req'[n] = q /\ n \in Nat
      BY <1>2, <1>4, <1>6, <3>1, AppendProperties, LenProperties
    <3>3. q.ip = Hop(p) /\ q.times = 0 /\ q.asks = 0 /\ ~q.freed
      BY DEF NewRequest
    <3>4. RequestsOK'
      BY <1>4, <3>2, <3>3 DEF IInv, RequestsOK
    <3>5. OneRequestPerIp'
      BY <1>4, <1>6, <3>2, <3>3
         DEF IInv, OneRequestPerIp, Linked, QueueFor
    <3>6. Evolves(req, req')
      <4>1. ASSUME NEW r \in DOMAIN req PROVE req[r].asks \in Nat
        <5>1. req[r] \in Request
          BY <1>2, <1>4, <4>1, ElementOfSeq
        <5> QED BY <5>1 DEF Request
      <4> QED BY <1>4, <3>2, <4>1 DEF Evolves
    <3>7. fs \in Seq(Frame) /\ \A i \in DOMAIN fs : FrameOK(fs[i], req')
      <4>1. f \in Frame /\ f.op = "check" /\ f.r = n
        BY <3>2, NewFrames DEF Ops, Holding
      <4>2. FrameOK(f, req')
        BY <1>4, <3>2, <4>1 DEF FrameOK, Pointing
      <4> HIDE DEF f
      <4> QED BY <4>1, <4>2
    <3>8. stack' \in [Threads -> Seq(Frame)] /\ FramesOK'
      <4>1. stack \in [Threads -> Seq(Frame)] /\ FramesOK
        BY DEF IInv, TypeOK
      <4>2. Continue(t, fs)
        BY <1>6
      <4> HIDE DEF fs
      <4> QED BY <1>1, <1>2, <3>2, <3>6, <3>7, <4>1, <4>2, ContinueOK
    <3> QED BY <1>3, <3>2, <3>4, <3>5, <3>8 DEF IInv, TypeOK, RestOK
  <2>2. Hop(p) \in Ips
    BY <1>1, TopOK DEF FrameOK, QueueReq, Running, Top
  <2> QED BY <2>1, <2>2
<1> QED BY <1>5, <1>6 DEF QueueReq

\* A call that returns, or that goes on as the call f, writing nothing.
LEMMA ReturnOK ==
  ASSUME IInv, RestOK', req' = req, NEW t \in Threads, stack[t] # <<>>, Return(t)
  PROVE  IInv'
<1>1. <<>> \in Seq(Frame) /\ \A i \in DOMAIN <<>> : FrameOK(<<>>[i], req)
  OBVIOUS
<1>2. Continue(t, <<>>)
  BY DEF Return
<1> QED BY <1>1, <1>2, WalkOK

LEMMA GoOnOK ==
  ASSUME IInv, RestOK', req' = req, NEW t \in Threads, stack[t] # <<>>,
         NEW f \in Frame, FrameOK(f, req), Continue(t, <<f>>)
  PROVE  IInv'
<1>1. <<f>> \in Seq(Frame) /\ \A i \in DOMAIN <<f>> : FrameOK(<<f>>[i], req)
  OBVIOUS
<1> QED BY <1>1, WalkOK

\* The three outcomes of the test at the start of handle_arpreq.
LEMMA HandleOK ==
  ASSUME IInv, NEW t \in Threads,
         HandleNotYet(t) \/ HandleAsk(t) \/ HandleGiveUp(t)
  PROVE  IInv'
<1>1. stack[t] # <<>> /\ req' = req /\ Top(t).op = "check"
  BY DEF HandleNotYet, HandleAsk, HandleGiveUp, Running, Top
<1>2. RestOK'
  BY DEF HandleNotYet, HandleAsk, HandleGiveUp, IInv, TypeOK, RestOK
<1>3. /\ Top(t) \in Frame /\ Top(t).r \in DOMAIN req
      /\ req[Top(t).r] \in Request
  BY <1>1, TopOK DEF Pointing
<1>4. CASE HandleNotYet(t)
  BY <1>1, <1>2, <1>4, ReturnOK DEF HandleNotYet
<1>5. CASE HandleAsk(t)
  <2> DEFINE f == [Top(t) EXCEPT !.op = "ask"]
  <2>1. f \in Frame /\ f.op = "ask" /\ f.r = Top(t).r
    BY <1>3 DEF Frame, Ops
  <2>2. FrameOK(f, req)
    BY <1>3, <2>1 DEF FrameOK
  <2>3. Continue(t, <<f>>)
    BY <1>5 DEF HandleAsk
  <2> HIDE DEF f
  <2> QED BY <1>1, <1>2, <2>1, <2>2, <2>3, GoOnOK
<1>6. CASE HandleGiveUp(t)
  <2> DEFINE f == [Top(t) EXCEPT !.op = "unreachable",
                                 !.todo = req[Top(t).r].pkts]
  <2>1. f \in Frame /\ f.op = "unreachable" /\ f.r = Top(t).r
    BY <1>3 DEF Frame, Ops, Request
  <2>2. req[Top(t).r].asks >= MaxTries
    <3>1. req[Top(t).r].times <= req[Top(t).r].asks
      BY <1>3 DEF IInv, RequestsOK
    <3>2. req[Top(t).r].times >= MaxTries
      BY <1>6 DEF HandleGiveUp, Exhausted
    <3> QED BY <1>3, <3>1, <3>2, SizeAssumption DEF Request
  <2>3. FrameOK(f, req)
    BY <1>3, <2>1, <2>2 DEF FrameOK
  <2>4. Continue(t, <<f>>)
    BY <1>6 DEF HandleGiveUp
  <2> HIDE DEF f
  <2> QED BY <1>1, <1>2, <2>1, <2>3, <2>4, GoOnOK
<1> QED BY <1>4, <1>5, <1>6

\* A broadcast: what the thread has read of times_sent, plus one, is no more
\* than the broadcasts now made.
LEMMA AskOK ==
  ASSUME IInv, NEW t \in Threads, Ask(t)
  PROVE  IInv'
<1> DEFINE r == Top(t).r
           q == [req[r] EXCEPT !.since = Top(t).now, !.asks = @ + 1]
           f == [Holding("bump", r) EXCEPT !.seen = req[r].times]
           fs == <<f>>
<1>1. stack[t] # <<>> /\ Top(t).op = "ask"
  BY DEF Ask, Running, Top
<1>2. RestOK'
  BY DEF Ask, IInv, TypeOK, RestOK
<1>3. Top(t) \in Frame /\ r \in DOMAIN req /\ req[r] \in Request
  BY <1>1, TopOK DEF Pointing
<1>4. req[r].times <= req[r].asks /\ (req[r].linked => ~req[r].freed)
  BY <1>3 DEF IInv, RequestsOK
<1>5. /\ q \in Request /\ q.ip = req[r].ip /\ q.asks = req[r].asks + 1
      /\ q.linked = req[r].linked /\ q.times = req[r].times
      /\ q.freed = req[r].freed /\ req[r].asks \in Nat /\ req[r].times \in Nat
  <2>1. req[r].asks \in Nat /\ req[r].asks + 1 \in Nat /\ req[r].times \in Nat
    BY <1>3 DEF Request
  <2>2. Top(t).now \in 0..2
    BY <1>3 DEF Frame
  <2> HIDE DEF r
  <2>3. q = [req[r] EXCEPT !.since = Top(t).now, !.asks = req[r].asks + 1]
    BY <1>3 DEF Request
  <2> QED BY <1>3, <2>1, <2>2, <2>3 DEF Request
<1>6. /\ q.asks >= req[r].asks /\ q.times <= q.asks
      /\ (q.linked => req[r].linked) /\ (q.linked => ~q.freed)
  <2>1. q.asks >= req[r].asks /\ q.times <= q.asks
    BY <1>4, <1>5
  <2> QED BY <1>4, <1>5, <2>1
<1>7. req' = [req EXCEPT ![r] = q]
  BY DEF Ask
<1>8. f \in Frame /\ f.op = "bump" /\ f.r = r /\ f.seen = req[r].times
  <2>1. Holding("bump", r) \in Frame
    BY <1>3, NewFrames DEF Ops, Frame
  <2>2. Holding("bump", r).op = "bump" /\ Holding("bump", r).r = r
    BY DEF Holding
  <2> QED BY <1>5, <2>1, <2>2 DEF Frame
<1>9. FrameOK(f, req')
  <2>1. DOMAIN req' = DOMAIN req /\ req'[r] = q
    BY <1>3, <1>7
  <2>2. f.seen + 1 <= req'[f.r].asks
    <3> HIDE DEF f, q, r
    <3> QED BY <1>4, <1>5, <1>8, <2>1
  <2> HIDE DEF f
  <2> QED BY <1>3, <1>8, <2>1, <2>2 DEF FrameOK
<1>10. fs \in Seq(Frame) /\ \A i \in DOMAIN fs : FrameOK(fs[i], req')
  <2> HIDE DEF f
  <2> QED BY <1>8, <1>9
<1>11. Continue(t, fs)
  BY DEF Ask
<1> HIDE DEF q, fs, r
<1> QED BY <1>1, <1>2, <1>3, <1>5, <1>6, <1>7, <1>10, <1>11, WriteOK

\* The store of times_sent.
LEMMA BumpOK ==
  ASSUME IInv, NEW t \in Threads, Bump(t)
  PROVE  IInv'
<1> DEFINE r == Top(t).r
           q == [req[r] EXCEPT !.times = Top(t).seen + 1]
<1>1. stack[t] # <<>> /\ Top(t).op = "bump"
  BY DEF Bump, Running, Top
<1>2. RestOK'
  BY DEF Bump, IInv, TypeOK, RestOK
<1>3. Top(t) \in Frame /\ r \in DOMAIN req /\ req[r] \in Request
  BY <1>1, TopOK DEF Pointing
<1>4. Top(t).seen + 1 <= req[r].asks
  BY <1>1, TopOK DEF FrameOK
<1>5. req[r].linked => ~req[r].freed
  BY <1>3 DEF IInv, RequestsOK
<1>6. /\ q \in Request /\ q.ip = req[r].ip /\ q.asks = req[r].asks
      /\ q.linked = req[r].linked /\ q.times = Top(t).seen + 1
      /\ q.freed = req[r].freed /\ req[r].asks \in Nat
  BY <1>3 DEF Request, Frame
<1>7. /\ q.asks >= req[r].asks /\ q.times <= q.asks
      /\ (q.linked => req[r].linked) /\ (q.linked => ~q.freed)
  <2>1. q.asks >= req[r].asks /\ q.times <= q.asks
    BY <1>4, <1>6
  <2> QED BY <1>5, <1>6, <2>1
<1>8. req' = [req EXCEPT ![r] = q] /\ Continue(t, <<>>)
  BY DEF Bump, Return
<1>9. <<>> \in Seq(Frame) /\ \A i \in DOMAIN <<>> : FrameOK(<<>>[i], req')
  OBVIOUS
<1> HIDE DEF q, r
<1> QED BY <1>1, <1>2, <1>3, <1>6, <1>7, <1>8, <1>9, WriteOK

\* host_unreachable.
LEMMA ReportOK ==
  ASSUME IInv, NEW t \in Threads, NEW p \in Packet,
         ReportNobody(t, p) \/ ReportSource(t, p) \/ ReportDone(t)
  PROVE  IInv'
<1>1. stack[t] # <<>> /\ req' = req /\ Top(t).op = "unreachable"
  BY DEF ReportNobody, ReportSource, ReportDone, Running, Top
<1>2. RestOK'
  BY DEF ReportNobody, ReportSource, ReportDone, IInv, TypeOK, RestOK
<1>3. /\ Top(t) \in Frame /\ Top(t).r \in DOMAIN req
      /\ req[Top(t).r].asks >= MaxTries
  BY <1>1, TopOK DEF Pointing, FrameOK
<1> DEFINE f == [Top(t) EXCEPT !.todo = @ \ {p}]
<1>4. f \in Frame /\ FrameOK(f, req)
  <2>1. f \in Frame /\ f.op = "unreachable" /\ f.r = Top(t).r
    BY <1>1, <1>3 DEF Frame
  <2> HIDE DEF f
  <2> QED BY <1>3, <2>1 DEF FrameOK
<1>5. CASE ReportNobody(t, p)
  <2>1. Continue(t, <<f>>)
    BY <1>5 DEF ReportNobody
  <2> HIDE DEF f
  <2> QED BY <1>1, <1>2, <1>4, <2>1, GoOnOK
<1>6. CASE ReportSource(t, p)
  <2> DEFINE g == Sending("lookup", ErrorAbout(p))
             fs == <<g, f>>
  <2>1. g \in Frame
    <3>1. ErrorAbout(p) \in Packet
      BY DEF ErrorAbout, Packet
    <3> QED BY <3>1, NewFrames DEF Ops
  <2>2. Hop(g.pkt) \in Ips
    <3>1. ~p.err /\ SrcHop[p.id] # NoIp /\ p.id \in Pkts
      BY <1>6 DEF ReportSource, SourceHop, Packet
    <3> QED BY <3>1, RouteAssumption DEF Sending, ErrorAbout, Hop
  <2>3. FrameOK(g, req)
    BY <2>2 DEF FrameOK, Sending, Pointing
  <2>4. Continue(t, fs)
    BY <1>6 DEF ReportSource
  <2>5. fs \in Seq(Frame) /\ \A i \in DOMAIN fs : FrameOK(fs[i], req)
    <3> HIDE DEF f, g
    <3> QED BY <1>4, <2>1, <2>3
  <2> HIDE DEF fs
  <2> QED BY <1>1, <1>2, <2>4, <2>5, WalkOK
<1>7. CASE ReportDone(t)
  <2> DEFINE g == [Top(t) EXCEPT !.op = "destroy"]
  <2>1. g \in Frame /\ g.op = "destroy" /\ g.r = Top(t).r
    BY <1>3 DEF Frame, Ops
  <2>2. Continue(t, <<g>>)
    BY <1>7 DEF ReportDone
  <2> HIDE DEF g
  <2>3. FrameOK(g, req)
    BY <1>3, <2>1 DEF FrameOK
  <2> QED BY <1>1, <1>2, <2>1, <2>2, <2>3, GoOnOK
<1> QED BY <1>5, <1>6, <1>7

\* The request is unlinked before it is freed, by whichever thread.
LEMMA DestroyOK ==
  ASSUME IInv, NEW t \in Threads, Destroy(t)
  PROVE  IInv'
<1> DEFINE r == Top(t).r
           q == Discard(req[r])
<1>1. stack[t] # <<>> /\ Top(t).op = "destroy"
  BY DEF Destroy, Running, Top
<1>2. RestOK'
  BY DEF Destroy, IInv, TypeOK, RestOK
<1>3. Top(t) \in Frame /\ r \in DOMAIN req /\ req[r] \in Request
  BY <1>1, TopOK DEF Pointing
<1>4. req[r].times <= req[r].asks /\ req[r].asks \in Nat
  BY <1>3 DEF IInv, RequestsOK, Request
<1>5. /\ q \in Request /\ q.ip = req[r].ip /\ q.asks = req[r].asks
      /\ ~q.linked /\ q.times = req[r].times
  BY <1>3 DEF Request, Discard
<1>6. /\ q.asks >= req[r].asks /\ q.times <= q.asks
      /\ (q.linked => req[r].linked) /\ (q.linked => ~q.freed)
  <2>1. q.asks >= req[r].asks /\ q.times <= q.asks
    <3> HIDE DEF q, r
    <3> QED BY <1>4, <1>5
  <2> QED BY <1>5, <2>1
<1>7. req' = [req EXCEPT ![r] = q] /\ Continue(t, <<>>)
  BY DEF Destroy, Return
<1>8. <<>> \in Seq(Frame) /\ \A i \in DOMAIN <<>> : FrameOK(<<>>[i], req')
  OBVIOUS
<1> HIDE DEF q, r
<1> QED BY <1>1, <1>2, <1>3, <1>5, <1>6, <1>7, <1>8, WriteOK

\* sr_arp_reply_send_pending_packets.
LEMMA PendingOK ==
  ASSUME IInv, NEW t \in Threads, NEW p \in Packet,
         SendPending(t, p) \/ PendingDone(t)
  PROVE  IInv'
<1>1. stack[t] # <<>> /\ req' = req /\ Top(t).op = "pending"
  BY DEF SendPending, PendingDone, Running, Top
<1>2. RestOK'
  BY DEF SendPending, PendingDone, IInv, TypeOK, RestOK
<1>3. /\ Top(t) \in Frame /\ Top(t).r \in DOMAIN req
      /\ ~req[Top(t).r].linked
  BY <1>1, TopOK DEF Pointing, FrameOK
<1>4. CASE SendPending(t, p)
  <2> DEFINE f == [Top(t) EXCEPT !.todo = @ \ {p}]
  <2>1. f \in Frame /\ f.op = "pending" /\ f.r = Top(t).r
    BY <1>1, <1>3 DEF Frame
  <2>2. Continue(t, <<f>>)
    BY <1>4 DEF SendPending
  <2> HIDE DEF f
  <2>3. FrameOK(f, req)
    BY <1>3, <2>1 DEF FrameOK
  <2> QED BY <1>1, <1>2, <2>1, <2>2, <2>3, GoOnOK
<1>5. CASE PendingDone(t)
  <2> DEFINE f == [Top(t) EXCEPT !.op = "destroy"]
  <2>1. f \in Frame /\ f.op = "destroy" /\ f.r = Top(t).r
    BY <1>3 DEF Frame, Ops
  <2>2. Continue(t, <<f>>)
    BY <1>5 DEF PendingDone
  <2> HIDE DEF f
  <2>3. FrameOK(f, req)
    BY <1>3, <2>1 DEF FrameOK
  <2> QED BY <1>1, <1>2, <2>1, <2>2, <2>3, GoOnOK
<1> QED BY <1>4, <1>5

\* A fault changes nothing but fault.
LEMMA FaultOK ==
  ASSUME IInv, NEW t \in Threads, UseAfterFree(t) \/ StackOverflow(t)
  PROVE  IInv'
<1>1. req' = req /\ stack' = stack
  BY DEF UseAfterFree, StackOverflow
<1>2. RestOK'
  BY DEF UseAfterFree, StackOverflow, IInv, TypeOK, RestOK
<1>3. /\ req' \in Seq(Request) /\ RequestsOK' /\ OneRequestPerIp'
  BY <1>1, SameRequests
<1>4. FramesOK' /\ stack' \in [Threads -> Seq(Frame)]
  BY <1>1 DEF FramesOK, IInv, TypeOK
<1> QED BY <1>2, <1>3, <1>4 DEF IInv, TypeOK, RestOK

\* Nobody's calls change.
LEMMA KeepOK ==
  ASSUME IInv, req' \in Seq(Request), Evolves(req, req'), stack' = stack
  PROVE  stack' \in [Threads -> Seq(Frame)] /\ FramesOK'
<1>1. stack \in [Threads -> Seq(Frame)] /\ FramesOK /\ req \in Seq(Request)
  BY DEF IInv, TypeOK
<1>2. ASSUME NEW t \in Threads, NEW i \in DOMAIN stack[t]
      PROVE  FrameOK(stack[t][i], req')
  <2>1. stack[t][i] \in Frame /\ FrameOK(stack[t][i], req)
    BY <1>1, <1>2, ElementOfSeq, LenProperties DEF FramesOK
  <2> QED BY <1>1, <2>1, FrameStable
<1> QED BY <1>1, <1>2 DEF FramesOK

\* sr_arpcache_insert takes the request off the queue.
LEMMA InsertOK ==
  ASSUME IInv, NEW ip \in Ips, NEW r, Insert(ip, r)
  PROVE  /\ req' \in Seq(Request) /\ Evolves(req, req')
         /\ RequestsOK' /\ OneRequestPerIp'
         /\ cache' \in [Slots -> Entry]
         /\ r # 0 => r \in DOMAIN req /\ r \in DOMAIN req' /\ ~req'[r].linked
<1>1. FirstOf(QueueFor(ip), r) /\ req' = Unlink(r)
  BY DEF Insert
<1>2. r # 0 => r \in DOMAIN req
  BY <1>1 DEF FirstOf, QueueFor, Linked
<1>3. cache' \in [Slots -> Entry]
  <2>1. [ip |-> ip, age |-> 0] \in Entry
    BY DEF Entry
  <2>2. cache \in [Slots -> Entry]
    BY DEF IInv, TypeOK
  <2> QED BY <2>1, <2>2 DEF Insert
<1>4. CASE r = 0
  BY <1>1, <1>3, <1>4, SameRequests DEF Unlink
<1>5. CASE r # 0
  <2> DEFINE q == [req[r] EXCEPT !.linked = FALSE]
  <2>1. r \in DOMAIN req /\ req \in Seq(Request) /\ req[r] \in Request
    BY <1>2, <1>5, ElementOfSeq, LenProperties DEF IInv, TypeOK
  <2>2. req' = [req EXCEPT ![r] = q]
    BY <1>1, <1>5 DEF Unlink
  <2>3. /\ q \in Request /\ q.ip = req[r].ip /\ q.asks = req[r].asks
        /\ ~q.linked /\ q.times = req[r].times /\ req[r].asks \in Nat
    BY <2>1 DEF Request
  <2>4. req[r].times <= req[r].asks
    BY <2>1 DEF IInv, RequestsOK
  <2>5. q.asks >= req[r].asks /\ q.times <= q.asks
    <3> HIDE DEF q
    <3> QED BY <2>3, <2>4
  <2>6. DOMAIN req' = DOMAIN req /\ req'[r] = q
    BY <2>1, <2>2
  <2> HIDE DEF q
  <2>7. /\ req' \in Seq(Request) /\ Evolves(req, req')
        /\ RequestsOK' /\ OneRequestPerIp'
    BY <2>1, <2>2, <2>3, <2>5, UpdateOK
  <2> QED BY <1>3, <2>1, <2>3, <2>6, <2>7
<1> QED BY <1>4, <1>5

\* The ARP frames.
LEMMA ReceiveOK ==
  ASSUME IInv, NEW ip \in Ips, Receive(ip)
  PROVE  IInv'
<1>1. ASSUME NEW r, Insert(ip, r), stack' = stack,
             UNCHANGED <<lock, awake, fresh, sent, reported>>,
             fault' \in {"null interface", fault}
      PROVE  IInv'
  <2>1. /\ req' \in Seq(Request) /\ Evolves(req, req')
        /\ RequestsOK' /\ OneRequestPerIp' /\ cache' \in [Slots -> Entry]
    BY <1>1, InsertOK
  <2>2. stack' \in [Threads -> Seq(Frame)] /\ FramesOK'
    BY <1>1, <2>1, KeepOK
  <2> QED BY <1>1, <2>1, <2>2 DEF IInv, TypeOK
<1>2. CASE ReplyUnawaited(ip)
  BY <1>1, <1>2 DEF ReplyUnawaited
<1>3. CASE AskedBy(ip)
  BY <1>1, <1>3 DEF AskedBy
<1>4. ASSUME NEW r \in Linked, ReplyToOther(ip, r)
      PROVE  IInv'
  BY <1>1, <1>4 DEF ReplyToOther
<1>5. ASSUME NEW r \in Linked, ReplyAwaited(ip, r)
      PROVE  IInv'
  <2> DEFINE f == [Holding("pending", r) EXCEPT !.todo = req[r].pkts]
  <2>1. Insert(ip, r) /\ stack' = [stack EXCEPT ![Main] = <<f>>]
    BY <1>5 DEF ReplyAwaited
  <2>2. req \in Seq(Request) /\ DOMAIN req = 1..Len(req)
    BY LenProperties DEF IInv, TypeOK
  <2>3. r \in DOMAIN req /\ r \in Nat /\ r # 0 /\ req[r] \in Request
    BY <2>2, ElementOfSeq DEF Linked
  <2>4. /\ req' \in Seq(Request) /\ Evolves(req, req')
        /\ RequestsOK' /\ OneRequestPerIp' /\ cache' \in [Slots -> Entry]
        /\ r \in DOMAIN req' /\ ~req'[r].linked
    BY <2>1, <2>3, InsertOK
  <2>5. f \in Frame /\ f.op = "pending" /\ f.r = r
    <3>1. Holding("pending", r) \in Frame
      BY <2>3, NewFrames DEF Ops
    <3>2. Holding("pending", r).op = "pending" /\ Holding("pending", r).r = r
      BY DEF Holding
    <3>3. req[r].pkts \in SUBSET Packet
      BY <2>3 DEF Request
    <3> QED BY <3>1, <3>2, <3>3 DEF Frame
  <2> HIDE DEF f
  <2>6. FrameOK(f, req')
    BY <2>4, <2>5 DEF FrameOK
  <2>7. stack' \in [Threads -> Seq(Frame)] /\ FramesOK'
    <3>1. stack \in [Threads -> Seq(Frame)] /\ FramesOK /\ Main \in Threads
      BY DEF IInv, TypeOK, Threads
    <3> QED BY <2>1, <2>2, <2>4, <2>5, <2>6, <3>1, BeginOK
  <2> QED BY <1>5, <2>4, <2>7 DEF ReplyAwaited, IInv, TypeOK
<1> QED BY <1>2, <1>3, <1>4, <1>5 DEF Receive

\* The timeout thread.
LEMMA SweepOK ==
  ASSUME IInv, Sweep
  PROVE  IInv'
<1>1. /\ req \in Seq(Request) /\ DOMAIN req = 1..Len(req) /\ Len(req) \in Nat
      /\ Timeout \in Threads
  BY LenProperties DEF Threads, IInv, TypeOK
<1>2. req' = req
  BY DEF Sweep, StartSweep, SweepNext, EndSweep
<1>3. /\ req' \in Seq(Request) /\ Evolves(req, req')
      /\ RequestsOK' /\ OneRequestPerIp'
  BY <1>2, SameRequests
<1>4. ASSUME NEW S, NEW r, S \subseteq DOMAIN req, FirstOf(S, r)
      PROVE  /\ Holding("sweep", r) \in Frame
             /\ FrameOK(Holding("sweep", r), req)
  <2>1. r = 0 \/ r \in DOMAIN req
    BY <1>4 DEF FirstOf
  <2>2. r \in Nat
    BY <1>1, <2>1
  <2> QED BY <2>1, <2>2, NewFrames DEF FrameOK, Holding, Ops, Pointing
<1>5. RestOK'
  <2>1. CASE StartSweep
    <3>1. \A s \in Slots : Expire(cache[s]) \in Entry
      BY DEF Expire, NoEntry, Entry, IInv, TypeOK
    <3> QED BY <2>1, <3>1 DEF StartSweep, RestOK, IInv, TypeOK
  <2>2. CASE SweepNext
    BY <2>2 DEF SweepNext, RestOK, IInv, TypeOK
  <2>3. CASE EndSweep
    BY <2>3 DEF EndSweep, RestOK, IInv, TypeOK
  <2> QED BY <2>1, <2>2, <2>3 DEF Sweep
<1>6. CASE StartSweep
  <2>1. PICK r \in 0..Len(req) :
          /\ FirstOf(Linked, r)
          /\ stack' = [stack EXCEPT ![Timeout] = <<Holding("sweep", r)>>]
    BY <1>6 DEF StartSweep
  <2>2. Linked \subseteq DOMAIN req
    BY DEF Linked
  <2>3. Holding("sweep", r) \in Frame /\ FrameOK(Holding("sweep", r), req')
    BY <1>2, <1>4, <2>1, <2>2
  <2>4. stack' \in [Threads -> Seq(Frame)] /\ FramesOK'
    <3>1. stack \in [Threads -> Seq(Frame)] /\ FramesOK
      BY DEF IInv, TypeOK
    <3> QED BY <1>1, <1>3, <2>1, <2>3, <3>1, BeginOK
  <2> QED BY <1>3, <1>5, <2>4 DEF RestOK, IInv, TypeOK
<1>7. CASE SweepNext
  <2>1. PICK next \in 0..Len(req) :
          /\ FirstOf(After(Top(Timeout).r), next)
          /\ Continue(Timeout, <<Holding("check", Top(Timeout).r),
                                 Holding("sweep", next)>>)
    BY <1>7 DEF SweepNext
  <2>2. After(Top(Timeout).r) \subseteq DOMAIN req
    BY DEF After, Linked
  <2>3. Holding("sweep", next) \in Frame /\ FrameOK(Holding("sweep", next), req)
    BY <1>4, <2>1, <2>2
  <2>4. stack[Timeout] # <<>> /\ Top(Timeout).op = "sweep" /\ Top(Timeout).r # 0
    BY <1>7 DEF SweepNext, Running, Top
  <2>5. Top(Timeout).r \in DOMAIN req /\ Top(Timeout).r \in Nat
    <3>1. FrameOK(Top(Timeout), req)
      BY <1>1, <2>4, TopOK
    <3> QED BY <1>1, <2>4, <3>1 DEF FrameOK
  <2> DEFINE f == Holding("check", Top(Timeout).r)
             g == Holding("sweep", next)
             fs == <<f, g>>
  <2>6. f \in Frame /\ FrameOK(f, req)
    BY <2>5, NewFrames DEF FrameOK, Holding, Ops
  <2>7. fs \in Seq(Frame) /\ \A i \in DOMAIN fs : FrameOK(fs[i], req)
    <3>1. g \in Frame /\ FrameOK(g, req)
      BY <2>3
    <3> HIDE DEF f, g
    <3> QED BY <2>6, <3>1
  <2>8. Continue(Timeout, fs)
    BY <2>1
  <2> HIDE DEF fs
  <2> QED BY <1>1, <1>2, <1>5, <2>4, <2>7, <2>8, WalkOK
<1>8. CASE EndSweep
  <2>1. stack[Timeout] # <<>> /\ Return(Timeout)
    BY <1>8 DEF EndSweep, Running
  <2> QED BY <1>1, <1>2, <1>5, <2>1, ReturnOK
<1> QED BY <1>6, <1>7, <1>8 DEF Sweep

\* A second passes.
LEMMA TickOK ==
  ASSUME IInv, Tick
  PROVE  IInv'
<1>1. /\ req \in Seq(Request) /\ DOMAIN req = 1..Len(req) /\ Len(req) \in Nat
      /\ stack \in [Threads -> Seq(Frame)]
  BY LenProperties DEF IInv, TypeOK
<1>2. \A n \in 0..2 : OneMore(n) \in 0..2
  BY DEF OneMore
<1>3. ASSUME NEW r \in DOMAIN req
      PROVE  /\ req[r] \in Request /\ req'[r] \in Request
             /\ req'[r].ip = req[r].ip /\ req'[r].asks = req[r].asks
             /\ req'[r].times = req[r].times /\ req'[r].linked = req[r].linked
             /\ req'[r].freed = req[r].freed
  <2>1. req[r] \in Request
    BY <1>1, <1>3, ElementOfSeq
  <2>2. req'[r] = [req[r] EXCEPT !.since = OneMore(@)]
    BY <1>3 DEF Tick
  <2> QED BY <1>2, <2>1, <2>2 DEF Request
<1>4. DOMAIN req' = 1..Len(req) /\ req' = [r \in 1..Len(req) |-> req'[r]]
  BY <1>1 DEF Tick
<1>5. req' \in Seq(Request)
  BY <1>1, <1>3, <1>4
<1>6. RequestsOK' /\ OneRequestPerIp'
  <2>1. DOMAIN req' = DOMAIN req
    BY <1>1, <1>4
  <2>2. RequestsOK'
    BY <1>3, <2>1 DEF IInv, RequestsOK
  <2>3. Linked' = Linked
    BY <1>3, <2>1 DEF Linked
  <2>4. OneRequestPerIp'
    BY <1>3, <2>3 DEF IInv, OneRequestPerIp, Linked
  <2> QED BY <2>2, <2>4
<1>7. Evolves(req, req')
  BY <1>1, <1>3, <1>4 DEF Evolves, Request
<1>8. ASSUME NEW t \in Threads
      PROVE  /\ stack'[t] \in Seq(Frame)
             /\ \A i \in DOMAIN stack'[t] : FrameOK(stack'[t][i], req')
  <2>1. stack'[t] = Held(stack[t]) /\ stack[t] \in Seq(Frame)
    BY <1>1, <1>8 DEF Tick
  <2>2. ASSUME NEW i \in DOMAIN stack[t]
        PROVE  stack[t][i] \in Frame /\ FrameOK(stack[t][i], req')
    <3>1. stack[t][i] \in Frame /\ FrameOK(stack[t][i], req)
      BY <1>8, <2>1, <2>2, ElementOfSeq, LenProperties DEF IInv, FramesOK
    <3> QED BY <1>1, <1>5, <1>7, <3>1, FrameStable
  <2>3. CASE ~(stack[t] # <<>> /\ Head(stack[t]).op = "ask")
    BY <2>1, <2>2, <2>3 DEF Held
  <2>4. CASE stack[t] # <<>> /\ Head(stack[t]).op = "ask"
    <3> DEFINE f == [Head(stack[t]) EXCEPT !.now = OneMore(@)]
               tail == Tail(stack[t])
    <3>1. stack'[t] = <<f>> \o tail
      BY <2>1, <2>4 DEF Held
    <3>2. /\ Head(stack[t]) = stack[t][1] /\ 1 \in DOMAIN stack[t]
          /\ tail \in Seq(Frame) /\ Len(tail) = Len(stack[t]) - 1
          /\ \A i \in 1..Len(tail) : tail[i] = stack[t][i+1]
          /\ DOMAIN stack[t] = 1..Len(stack[t]) /\ Len(stack[t]) \in Nat
      BY <2>1, <2>4, HeadTailProperties, EmptySeq, LenProperties
    <3>3. Head(stack[t]) \in Frame /\ FrameOK(Head(stack[t]), req')
      BY <2>2, <3>2
    <3>4. f \in Frame /\ f.op = "ask" /\ f.r = Head(stack[t]).r
      BY <1>2, <2>4, <3>3 DEF Frame
    <3>5. FrameOK(f, req')
      <4> HIDE DEF f
      <4> QED BY <2>4, <3>3, <3>4 DEF FrameOK, Pointing
    <3> HIDE DEF f
    <3>6. <<f>> \in Seq(Frame) /\ Len(<<f>>) = 1 /\ <<f>>[1] = f
      BY <3>4
    <3>7. /\ <<f>> \o tail \in Seq(Frame)
          /\ Len(<<f>> \o tail) = 1 + Len(tail)
          /\ \A i \in 1..(1 + Len(tail)) :
               (<<f>> \o tail)[i] = IF i <= 1 THEN <<f>>[i] ELSE tail[i - 1]
      BY <3>2, <3>6, ConcatProperties
    <3>8. ASSUME NEW i \in DOMAIN stack'[t]
          PROVE  FrameOK(stack'[t][i], req')
      <4>1. i \in 1..(1 + Len(tail))
        BY <3>1, <3>7, LenProperties
      <4>2. CASE i = 1
        BY <3>1, <3>5, <3>6, <3>7, <4>1, <4>2
      <4>3. CASE i # 1
        <5>1. i - 1 \in 1..Len(tail) /\ i \in DOMAIN stack[t]
          BY <3>2, <4>1, <4>3
        <5>2. stack'[t][i] = stack[t][i]
          BY <3>1, <3>2, <3>7, <4>1, <4>3, <5>1
        <5> QED BY <2>2, <5>1, <5>2
      <4> QED BY <4>2, <4>3
    <3> QED BY <3>1, <3>7, <3>8
  <2> QED BY <2>3, <2>4
<1>9. stack' \in [Threads -> Seq(Frame)] /\ FramesOK'
  BY <1>8 DEF Tick, FramesOK
<1>10. RestOK'
  <2>1. ASSUME NEW s \in Slots
        PROVE  Older(cache[s]) \in Entry
    <3>1. cache[s] \in Entry
      BY <2>1 DEF IInv, TypeOK
    <3>2. cache[s].age + 1 \in Nat
      BY <3>1 DEF Entry
    <3>3. [cache[s] EXCEPT !.age = @ + 1] \in Entry
      BY <3>1, <3>2 DEF Entry
    <3> QED BY <3>1, <3>3 DEF Older
  <2>2. awake' \in BOOLEAN
    BY DEF Tick, IInv, TypeOK
  <2> QED BY <2>1, <2>2 DEF Tick, RestOK, IInv, TypeOK
<1> QED BY <1>5, <1>6, <1>9, <1>10 DEF IInv, TypeOK, RestOK

-----------------------------------------------------------------------------
(* Requests taken off the queue.  The requests of the next hops that ask   *)
(* the router themselves are set apart: sr_handle_arp_packet ignores the   *)
(* request that insert returns for a frame of theirs.                      *)

Finishing == {"pending", "destroy"}
Finishes(f, r) == f.r = r /\ f.op \in Finishing
Waits(r) == \E i \in DOMAIN stack[Main] : Finishes(stack[Main][i], r)
Settled(r) ==
  \/ req[r].linked \/ req[r].freed
  \/ fault # "none"
  \/ Waits(r)
  \/ req[r].ip \in Askers
OrphansOK == \A r \in DOMAIN req : Settled(r)

\* What happens to a request in a step that takes nothing off the queue.
Stays(r) ==
  \/ req'[r].linked \/ req'[r].freed
  \/ /\ r \in DOMAIN req
     /\ req'[r].ip = req[r].ip
     /\ ~req[r].linked /\ ~req[r].freed

\* A call that is about to destroy a request is left only by a call that is.
LEMMA WaitsGoOn ==
  ASSUME stack \in [Threads -> Seq(Frame)],
         NEW t \in Threads, stack[t] # <<>>,
         NEW fs \in Seq(Frame), Continue(t, fs),
         NEW r, Waits(r),
         Finishes(Top(t), r) => \E i \in DOMAIN fs : Finishes(fs[i], r)
  PROVE  Waits(r)'
<1> DEFINE tail == Tail(stack[t])
<1>1. PICK i \in DOMAIN stack[Main] : Finishes(stack[Main][i], r)
  BY DEF Waits
<1>2. CASE t # Main
  <2>1. stack'[Main] = stack[Main]
    BY <1>2 DEF Continue, Threads
  <2> QED BY <1>1, <2>1 DEF Waits
<1>3. CASE t = Main
  <2>1. /\ stack[t] \in Seq(Frame) /\ tail \in Seq(Frame)
        /\ Len(tail) = Len(stack[t]) - 1
        /\ \A k \in 1..Len(tail) : tail[k] = stack[t][k+1]
        /\ Head(stack[t]) = stack[t][1]
    BY HeadTailProperties
  <2>2. /\ Len(fs) \in Nat /\ DOMAIN fs = 1..Len(fs)
        /\ Len(tail) \in Nat /\ DOMAIN stack[t] = 1..Len(stack[t])
    BY <2>1, LenProperties
  <2>3. /\ fs \o tail \in Seq(Frame)
        /\ Len(fs \o tail) = Len(fs) + Len(tail)
        /\ \A k \in 1..(Len(fs) + Len(tail)) :
             (fs \o tail)[k] = IF k <= Len(fs) THEN fs[k] ELSE tail[k - Len(fs)]
    BY <2>1, ConcatProperties
  <2>4. DOMAIN (fs \o tail) = 1..(Len(fs) + Len(tail))
    BY <2>3, LenProperties
  <2>5. stack'[Main] = fs \o tail
    BY <1>3 DEF Continue
  <2>6. CASE i = 1
    <3>1. Finishes(Top(t), r)
      BY <1>1, <1>3, <2>1, <2>6 DEF Top
    <3>2. PICK k \in DOMAIN fs : Finishes(fs[k], r)
      BY <3>1
    <3>3. k \in 1..(Len(fs) + Len(tail)) /\ k <= Len(fs)
      BY <2>2
    <3>4. (fs \o tail)[k] = fs[k]
      BY <2>3, <3>3
    <3>5. k \in DOMAIN stack'[Main] /\ Finishes(stack'[Main][k], r)
      BY <2>4, <2>5, <3>2, <3>3, <3>4
    <3> QED BY <3>5 DEF Waits
  <2>7. CASE i # 1
    <3>1. i - 1 \in 1..Len(tail)
      BY <1>1, <1>3, <2>1, <2>2, <2>7
    <3>2. tail[i - 1] = stack[t][i]
      BY <1>3, <2>1, <2>2, <3>1
    <3> DEFINE k == Len(fs) + (i - 1)
    <3>3. k \in 1..(Len(fs) + Len(tail)) /\ ~(k <= Len(fs)) /\ k - Len(fs) = i - 1
      BY <2>2, <3>1
    <3>4. (fs \o tail)[k] = stack[t][i]
      BY <2>3, <3>2, <3>3
    <3>5. k \in DOMAIN stack'[Main] /\ Finishes(stack'[Main][k], r)
      BY <1>1, <1>3, <2>4, <2>5, <3>3, <3>4
    <3> QED BY <3>5 DEF Waits
  <2> QED BY <2>6, <2>7
<1> QED BY <1>2, <1>3

\* A step inside a thread's calls.
LEMMA StepSettles ==
  ASSUME IInv, OrphansOK, fault = "none",
         NEW t \in Threads, stack[t] # <<>>,
         NEW fs \in Seq(Frame), Continue(t, fs),
         \A r \in DOMAIN req' :
           /\ Stays(r)
           /\ Finishes(Top(t), r) =>
                req'[r].freed \/ \E i \in DOMAIN fs : Finishes(fs[i], r)
  PROVE  OrphansOK'
<1> SUFFICES ASSUME NEW r \in DOMAIN req', ~req'[r].linked, ~req'[r].freed
             PROVE  Settled(r)'
  BY DEF OrphansOK, Settled
<1>1. /\ r \in DOMAIN req /\ req'[r].ip = req[r].ip
      /\ ~req[r].linked /\ ~req[r].freed
  BY DEF Stays
<1>2. Waits(r) \/ req[r].ip \in Askers
  BY <1>1 DEF OrphansOK, Settled
<1>3. CASE req[r].ip \in Askers
  BY <1>1, <1>3 DEF Settled
<1>4. CASE Waits(r)
  <2>1. Finishes(Top(t), r) => \E i \in DOMAIN fs : Finishes(fs[i], r)
    OBVIOUS
  <2>2. stack \in [Threads -> Seq(Frame)]
    BY DEF IInv, TypeOK
  <2>3. Waits(r)'
    BY <1>4, <2>1, <2>2, WaitsGoOn
  <2> QED BY <2>3 DEF Settled
<1> QED BY <1>2, <1>3, <1>4

\* Where the requests do not change, nor the calls of the main thread.
LEMMA SameStays ==
  ASSUME req' = req PROVE \A r \in DOMAIN req' : Stays(r)
BY DEF Stays

LEMMA SameSettles ==
  ASSUME OrphansOK, fault = "none", req' = req, stack'[Main] = stack[Main]
  PROVE  OrphansOK'
BY DEF OrphansOK, Settled, Waits

LEMMA FaultSettles ==
  ASSUME fault' # "none" PROVE OrphansOK'
BY DEF OrphansOK, Settled

\* One request is updated in place and stays where it is, or is freed.
LEMMA UpdateStays ==
  ASSUME NEW k \in DOMAIN req, NEW q, req' = [req EXCEPT ![k] = q],
         q.ip = req[k].ip,
         q.freed \/ (q.linked = req[k].linked /\ q.freed = req[k].freed),
         q.linked \in BOOLEAN, q.freed \in BOOLEAN
  PROVE  \A r \in DOMAIN req' : Stays(r)
<1>1. DOMAIN req' = DOMAIN req
  OBVIOUS
<1>2. ASSUME NEW r \in DOMAIN req, r # k PROVE Stays(r)
  <2>1. req'[r] = req[r]
    BY <1>2
  <2> QED BY <2>1 DEF Stays
<1>3. Stays(k)
  <2>1. req'[k] = q
    OBVIOUS
  <2> QED BY <2>1 DEF Stays
<1> QED BY <1>1, <1>2, <1>3

\* The calls that write nothing and destroy nothing.
LEMMA WalkSettles ==
  ASSUME IInv, OrphansOK, NEW t \in Threads,
         \/ LookupHit(t) \/ LookupMiss(t)
         \/ HandleNotYet(t) \/ HandleAsk(t) \/ HandleGiveUp(t)
         \/ \E p \in Packet : ReportNobody(t, p) \/ ReportSource(t, p)
         \/ ReportDone(t)
  PROVE  OrphansOK'
<1>1. /\ stack[t] # <<>> /\ req' = req /\ fault = "none"
      /\ Top(t).op \in {"lookup", "check", "unreachable"}
  BY DEF LookupHit, LookupMiss, HandleNotYet, HandleAsk, HandleGiveUp,
         ReportNobody, ReportSource, ReportDone, Running, Top
<1>2. /\ Top(t) \in Frame
      /\ Top(t).op = "check" => req[Top(t).r] \in Request
  BY <1>1, TopOK DEF Pointing
<1>3. \A r : ~Finishes(Top(t), r)
  BY <1>1 DEF Finishes, Finishing
<1>4. ASSUME NEW fs \in Seq(Frame), Continue(t, fs)
      PROVE  OrphansOK'
  BY <1>1, <1>3, <1>4, SameStays, StepSettles
<1>5. CASE LookupHit(t) \/ HandleNotYet(t)
  <2>1. Continue(t, <<>>) /\ <<>> \in Seq(Frame)
    BY <1>5 DEF LookupHit, HandleNotYet, Return
  <2> QED BY <1>4, <2>1
<1>6. CASE LookupMiss(t)
  <2>1. Sending("queue", Top(t).pkt) \in Frame
    BY <1>2, NewFrames DEF Frame, Ops
  <2>2. <<Sending("queue", Top(t).pkt)>> \in Seq(Frame)
    BY <2>1
  <2> QED BY <1>4, <1>6, <2>2 DEF LookupMiss
<1>7. CASE HandleAsk(t) \/ ReportDone(t)
  <2>1. PICK op \in {"ask", "destroy"} : Continue(t, <<[Top(t) EXCEPT !.op = op]>>)
    BY <1>7 DEF HandleAsk, ReportDone
  <2>2. [Top(t) EXCEPT !.op = op] \in Frame
    BY <1>2 DEF Frame, Ops
  <2>3. <<[Top(t) EXCEPT !.op = op]>> \in Seq(Frame)
    BY <2>2
  <2> QED BY <1>4, <2>1, <2>3
<1>8. CASE HandleGiveUp(t)
  <2> DEFINE f == [Top(t) EXCEPT !.op = "unreachable",
                                 !.todo = req[Top(t).r].pkts]
  <2>1. Top(t).op = "check"
    BY <1>8 DEF HandleGiveUp, Running, Top
  <2>2. req[Top(t).r].pkts \in SUBSET Packet
    BY <1>2, <2>1 DEF Request
  <2>3. f \in Frame
    BY <1>2, <2>2 DEF Frame, Ops
  <2>4. <<f>> \in Seq(Frame)
    <3> HIDE DEF f
    <3> QED BY <2>3
  <2> QED BY <1>4, <1>8, <2>4 DEF HandleGiveUp
<1>9. ASSUME NEW p \in Packet, ReportNobody(t, p) \/ ReportSource(t, p)
      PROVE  OrphansOK'
  <2> DEFINE f == [Top(t) EXCEPT !.todo = @ \ {p}]
             g == Sending("lookup", ErrorAbout(p))
  <2>1. f \in Frame
    BY <1>2 DEF Frame
  <2>2. g \in Frame
    <3>1. ErrorAbout(p) \in Packet
      BY DEF ErrorAbout, Packet
    <3> QED BY <3>1, NewFrames DEF Ops
  <2>3. Continue(t, <<f>>) \/ Continue(t, <<g, f>>)
    BY <1>9 DEF ReportNobody, ReportSource
  <2>4. <<f>> \in Seq(Frame) /\ <<g, f>> \in Seq(Frame)
    <3> HIDE DEF f, g
    <3> QED BY <2>1, <2>2
  <2> HIDE DEF f, g
  <2> QED BY <1>4, <2>3, <2>4
<1> QED BY <1>5, <1>6, <1>7, <1>8, <1>9

\* A packet is queued.
LEMMA QueueSettles ==
  ASSUME IInv, OrphansOK, NEW t \in Threads, QueueReq(t)
  PROVE  OrphansOK'
<1> DEFINE p == Top(t).pkt
<1>1. stack[t] # <<>> /\ fault = "none" /\ Top(t).op = "queue"
  BY DEF QueueReq, Running, Top
<1>2. \A r : ~Finishes(Top(t), r)
  BY <1>1 DEF Finishes, Finishing
<1>3. req \in Seq(Request) /\ DOMAIN req = 1..Len(req) /\ Len(req) \in Nat
  BY LenProperties DEF IInv, TypeOK
<1>4. ASSUME NEW r \in Linked,
             req' = [req EXCEPT ![r].pkts = @ \union {p}],
             Continue(t, <<Holding("check", r)>>)
      PROVE  OrphansOK'
  <2> DEFINE q == [req[r] EXCEPT !.pkts = @ \union {p}]
  <2>1. r \in DOMAIN req /\ r \in Nat /\ req[r] \in Request
    BY <1>3, ElementOfSeq DEF Linked
  <2>2. /\ q.ip = req[r].ip /\ q.linked = req[r].linked
        /\ q.freed = req[r].freed
        /\ q.linked \in BOOLEAN /\ q.freed \in BOOLEAN
    BY <2>1 DEF Request
  <2>3. req' = [req EXCEPT ![r] = q]
    BY <1>4
  <2> HIDE DEF q
  <2>4. \A k \in DOMAIN req' : Stays(k)
    BY <2>1, <2>2, <2>3, UpdateStays
  <2>5. Holding("check", r) \in Frame
    BY <2>1, NewFrames DEF Ops
  <2>6. <<Holding("check", r)>> \in Seq(Frame)
    BY <2>5
  <2> QED BY <1>1, <1>2, <1>4, <2>4, <2>6, StepSettles
<1>5. ASSUME req' = Append(req, NewRequest(Hop(p), p)),
             Continue(t, <<Holding("check", Len(req) + 1)>>)
      PROVE  OrphansOK'
  <2> DEFINE n == Len(req) + 1
             q == NewRequest(Hop(p), p)
  <2>1. /\ p \in Packet /\ Hop(p) \in Ips
    BY <1>1, TopOK DEF FrameOK, Frame
  <2>2. q \in Request /\ q.linked
    BY <2>1 DEF NewRequest, Request
  <2>3. /\ DOMAIN req' = 1..n /\ req'[n] = q /\ n \in Nat
        /\ \A r \in DOMAIN req : req'[r] = req[r]
    BY <1>3, <1>5, <2>2, AppendProperties, LenProperties
  <2>4. ASSUME NEW r \in DOMAIN req' PROVE Stays(r)
    <3>1. CASE r = n
      BY <2>2, <2>3, <3>1 DEF Stays
    <3>2. CASE r # n
      <4>1. r \in DOMAIN req
        BY <1>3, <2>3, <3>2
      <4>2. req'[r] = req[r]
        BY <2>3, <4>1
      <4> QED BY <4>1, <4>2 DEF Stays
    <3> QED BY <3>1, <3>2
  <2>5. Holding("check", n) \in Frame
    BY <2>3, NewFrames DEF Ops
  <2>6. <<Holding("check", n)>> \in Seq(Frame) /\ Continue(t, <<Holding("check", n)>>)
    BY <1>5, <2>5
  <2> HIDE DEF n
  <2> QED BY <1>1, <1>2, <2>4, <2>6, StepSettles
<1> QED BY <1>4, <1>5 DEF QueueReq

\* The writes of handle_arpreq and of sr_arpreq_destroy.
LEMMA WriteSettles ==
  ASSUME IInv, OrphansOK, NEW t \in Threads,
         Ask(t) \/ Bump(t) \/ Destroy(t)
  PROVE  OrphansOK'
<1> DEFINE r == Top(t).r
<1>1. /\ stack[t] # <<>> /\ fault = "none"
      /\ Top(t).op \in {"ask", "bump", "destroy"}
  BY DEF Ask, Bump, Destroy, Running, Top
<1>2. Top(t) \in Frame /\ r \in DOMAIN req /\ req[r] \in Request
  BY <1>1, TopOK DEF Pointing
<1>3. req[r].linked \in BOOLEAN /\ req[r].freed \in BOOLEAN
  BY <1>2 DEF Request
<1>4. CASE Ask(t)
  <2> DEFINE q == [req[r] EXCEPT !.since = Top(t).now, !.asks = @ + 1]
             f == [Holding("bump", r) EXCEPT !.seen = req[r].times]
  <2>1. /\ q.ip = req[r].ip /\ q.linked = req[r].linked
        /\ q.freed = req[r].freed
    BY <1>2 DEF Request
  <2>2. req' = [req EXCEPT ![r] = q]
    BY <1>4 DEF Ask
  <2>3. \A k \in DOMAIN req' : Stays(k)
    <3> HIDE DEF q, r
    <3> QED BY <1>2, <1>3, <2>1, <2>2, UpdateStays
  <2>4. f \in Frame
    <3>1. Holding("bump", r) \in Frame
      BY <1>2, NewFrames DEF Ops, Frame
    <3>2. req[r].times \in Nat
      BY <1>2 DEF Request
    <3> QED BY <3>1, <3>2 DEF Frame
  <2>5. Continue(t, <<f>>)
    BY <1>4 DEF Ask
  <2>6. \A k : ~Finishes(Top(t), k)
    BY <1>4 DEF Ask, Running, Top, Finishes, Finishing
  <2> HIDE DEF f
  <2>7. <<f>> \in Seq(Frame)
    BY <2>4
  <2> QED BY <1>1, <2>3, <2>5, <2>6, <2>7, StepSettles
<1>5. CASE Bump(t)
  <2> DEFINE q == [req[r] EXCEPT !.times = Top(t).seen + 1]
  <2>1. /\ q.ip = req[r].ip /\ q.linked = req[r].linked
        /\ q.freed = req[r].freed
    BY <1>2 DEF Request
  <2>2. req' = [req EXCEPT ![r] = q] /\ Continue(t, <<>>)
    BY <1>5 DEF Bump, Return
  <2>3. \A k \in DOMAIN req' : Stays(k)
    <3> HIDE DEF q, r
    <3> QED BY <1>2, <1>3, <2>1, <2>2, UpdateStays
  <2>4. \A k : ~Finishes(Top(t), k)
    BY <1>5 DEF Bump, Running, Top, Finishes, Finishing
  <2>5. <<>> \in Seq(Frame)
    OBVIOUS
  <2> QED BY <1>1, <2>2, <2>3, <2>4, <2>5, StepSettles
<1>6. CASE Destroy(t)
  <2> DEFINE q == Discard(req[r])
  <2>1. q.ip = req[r].ip /\ q.freed = TRUE /\ q.linked = FALSE
    BY <1>2 DEF Request, Discard
  <2>2. req' = [req EXCEPT ![r] = q] /\ Continue(t, <<>>)
    BY <1>6 DEF Destroy, Return
  <2>3. \A k \in DOMAIN req' : Stays(k)
    <3> HIDE DEF q, r
    <3> QED BY <1>2, <2>1, <2>2, UpdateStays
  <2>4. req'[r].freed
    BY <1>2, <2>1, <2>2
  <2>5. \A k : Finishes(Top(t), k) => req'[k].freed
    BY <2>4 DEF Finishes
  <2>6. <<>> \in Seq(Frame)
    OBVIOUS
  <2> QED BY <1>1, <2>2, <2>3, <2>5, <2>6, StepSettles
<1> QED BY <1>4, <1>5, <1>6

\* A reply's packets are sent, then its request destroyed.
LEMMA PendingSettles ==
  ASSUME IInv, OrphansOK, NEW t \in Threads, NEW p \in Packet,
         SendPending(t, p) \/ PendingDone(t)
  PROVE  OrphansOK'
<1>1. stack[t] # <<>> /\ req' = req /\ fault = "none" /\ Top(t).op = "pending"
  BY DEF SendPending, PendingDone, Running, Top
<1>2. Top(t) \in Frame
  BY <1>1, TopOK
<1>3. ASSUME NEW f \in Frame, f.r = Top(t).r, f.op \in Finishing,
             Continue(t, <<f>>)
      PROVE  OrphansOK'
  <2>1. <<f>> \in Seq(Frame) /\ 1 \in DOMAIN <<f>> /\ <<f>>[1] = f
    OBVIOUS
  <2>2. \A r : Finishes(Top(t), r) => Finishes(<<f>>[1], r)
    BY <1>3, <2>1 DEF Finishes
  <2>3. \A r : Finishes(Top(t), r) => \E i \in DOMAIN <<f>> : Finishes(<<f>>[i], r)
    BY <2>1, <2>2
  <2> QED BY <1>1, <1>3, <2>1, <2>3, SameStays, StepSettles
<1>4. CASE SendPending(t, p)
  <2> DEFINE f == [Top(t) EXCEPT !.todo = @ \ {p}]
  <2>1. f \in Frame /\ f.op = "pending" /\ f.r = Top(t).r
    BY <1>1, <1>2 DEF Frame
  <2>2. Continue(t, <<f>>)
    BY <1>4 DEF SendPending
  <2> HIDE DEF f
  <2> QED BY <1>3, <2>1, <2>2 DEF Finishing
<1>5. CASE PendingDone(t)
  <2> DEFINE f == [Top(t) EXCEPT !.op = "destroy"]
  <2>1. f \in Frame /\ f.op = "destroy" /\ f.r = Top(t).r
    BY <1>2 DEF Frame, Ops
  <2>2. Continue(t, <<f>>)
    BY <1>5 DEF PendingDone
  <2> HIDE DEF f
  <2> QED BY <1>3, <2>1, <2>2 DEF Finishing
<1> QED BY <1>4, <1>5

\* A thread that is idle begins to send.
LEMMA SendSettles ==
  ASSUME IInv, OrphansOK, NEW t \in Threads, NEW p \in Pkts, Send(t, p)
  PROVE  OrphansOK'
<1>1. /\ fault = "none" /\ stack[t] = <<>> /\ req' = req
      /\ stack' = [stack EXCEPT ![t] = <<Sending("lookup", Data(p))>>]
  BY DEF Send, Idle
<1>2. CASE t # Main
  <2>1. stack'[Main] = stack[Main]
    BY <1>1, <1>2
  <2> QED BY <1>1, <2>1, SameSettles
<1>3. CASE t = Main
  <2>1. \A r : ~Waits(r)
    BY <1>1, <1>3 DEF Waits
  <2> QED BY <1>1, <2>1 DEF OrphansOK, Settled
<1> QED BY <1>2, <1>3

\* The ARP frames: the main thread is idle, and what it takes off the queue
\* it goes on to destroy, unless the frame was a request.
LEMMA ReceiveSettles ==
  ASSUME IInv, OrphansOK, NEW ip \in Ips, Receive(ip)
  PROVE  OrphansOK'
<1>1. fault = "none" /\ stack[Main] = <<>>
  BY DEF Receive, ReplyUnawaited, ReplyAwaited, ReplyToOther, AskedBy, Idle
<1>2. \A r : ~Waits(r)
  BY <1>1 DEF Waits
<1>3. \A r \in DOMAIN req :
        req[r].linked \/ req[r].freed \/ req[r].ip \in Askers
  BY <1>1, <1>2 DEF OrphansOK, Settled
<1>4. ASSUME NEW r, r # 0, Insert(ip, r)
      PROVE  /\ r \in DOMAIN req /\ req[r].ip = ip
             /\ DOMAIN req' = DOMAIN req /\ req'[r].ip = ip
             /\ \A k \in DOMAIN req : k # r => req'[k] = req[k]
  <2>1. r \in DOMAIN req /\ req[r].ip = ip
    BY <1>4 DEF Insert, FirstOf, QueueFor, Linked
  <2>2. req' = [req EXCEPT ![r].linked = FALSE]
    BY <1>4 DEF Insert, Unlink
  <2>3. req[r] \in Request
    <3>1. req \in Seq(Request)
      BY DEF IInv, TypeOK
    <3> QED BY <2>1, <3>1, ElementOfSeq, LenProperties
  <2>4. [req[r] EXCEPT !.linked = FALSE].ip = req[r].ip
    BY <2>3 DEF Request
  <2> QED BY <2>1, <2>2, <2>4
<1>5. ASSUME Insert(ip, 0) PROVE OrphansOK'
  <2>1. req' = req
    BY <1>5 DEF Insert, Unlink
  <2> QED BY <1>3, <2>1 DEF OrphansOK, Settled
<1>6. CASE ReplyUnawaited(ip)
  BY <1>5, <1>6 DEF ReplyUnawaited
<1>7. CASE AskedBy(ip)
  <2>1. PICK r \in 0..Len(req) : Insert(ip, r)
    BY <1>7 DEF AskedBy
  <2>2. CASE r = 0
    BY <1>5, <2>1, <2>2
  <2>3. CASE r # 0
    <3>1. ip \in Askers
      BY <1>7 DEF AskedBy
    <3>2. ASSUME NEW k \in DOMAIN req' PROVE Settled(k)'
      <4>1. CASE k = r
        BY <1>4, <2>1, <2>3, <3>1, <4>1 DEF Settled
      <4>2. CASE k # r
        <5>1. k \in DOMAIN req /\ req'[k] = req[k]
          BY <1>4, <2>1, <2>3, <3>2, <4>2
        <5> QED BY <1>3, <5>1 DEF Settled
      <4> QED BY <4>1, <4>2
    <3> QED BY <3>2 DEF OrphansOK
  <2> QED BY <2>2, <2>3
<1>8. ASSUME NEW r \in Linked, ReplyToOther(ip, r) PROVE OrphansOK'
  BY <1>8, FaultSettles DEF ReplyToOther
<1>9. ASSUME NEW r \in Linked, ReplyAwaited(ip, r) PROVE OrphansOK'
  <2> DEFINE f == [Holding("pending", r) EXCEPT !.todo = req[r].pkts]
  <2>1. Insert(ip, r) /\ stack' = [stack EXCEPT ![Main] = <<f>>]
    BY <1>9 DEF ReplyAwaited
  <2>2. r # 0
    <3>1. req \in Seq(Request)
      BY DEF IInv, TypeOK
    <3> QED BY <3>1, LenProperties DEF Linked
  <2>3. Main \in DOMAIN stack
    BY DEF IInv, TypeOK, Threads
  <2>4. Finishes(f, r)
    BY DEF Holding, Finishes, Finishing
  <2> HIDE DEF f
  <2>5. stack'[Main] = <<f>> /\ 1 \in DOMAIN <<f>> /\ <<f>>[1] = f
    BY <2>1, <2>3
  <2>6. Waits(r)'
    BY <2>4, <2>5 DEF Waits
  <2>7. ASSUME NEW k \in DOMAIN req' PROVE Settled(k)'
    <3>1. CASE k = r
      BY <2>6, <3>1 DEF Settled
    <3>2. CASE k # r
      <4>1. k \in DOMAIN req /\ req'[k] = req[k]
        BY <1>4, <2>1, <2>2, <2>7, <3>2
      <4> QED BY <1>3, <4>1 DEF Settled
    <3> QED BY <3>1, <3>2
  <2> QED BY <2>7 DEF OrphansOK
<1> QED BY <1>6, <1>7, <1>8, <1>9 DEF Receive

\* The timeout thread's own calls are not the main thread's.
LEMMA SweepSettles ==
  ASSUME IInv, OrphansOK, Sweep
  PROVE  OrphansOK'
<1>1. req' = req /\ fault = "none"
  BY DEF Sweep, StartSweep, SweepNext, EndSweep, Running, Idle
<1>2. stack'[Main] = stack[Main]
  BY ThreadAssumption
     DEF Sweep, StartSweep, SweepNext, EndSweep, Return, Continue, IInv, TypeOK,
         Threads
<1> QED BY <1>1, <1>2, SameSettles

\* A second passes: a frame keeps its place, its request and its function.
LEMMA TickSettles ==
  ASSUME IInv, OrphansOK, Tick
  PROVE  OrphansOK'
<1>1. /\ DOMAIN req' = DOMAIN req /\ fault = "none" /\ fault' = fault
      /\ stack'[Main] = Held(stack[Main])
  BY DEF Tick, Threads
<1>2. ASSUME NEW r \in DOMAIN req
      PROVE  /\ req'[r].ip = req[r].ip /\ req'[r].linked = req[r].linked
             /\ req'[r].freed = req[r].freed
  <2>1. req[r] \in Request
    <3>1. req \in Seq(Request)
      BY DEF IInv, TypeOK
    <3> QED BY <3>1, ElementOfSeq, LenProperties
  <2>2. req'[r] = [req[r] EXCEPT !.since = OneMore(@)]
    BY DEF Tick
  <2> QED BY <2>1, <2>2 DEF Request
<1>3. ASSUME NEW r, Waits(r) PROVE Waits(r)'
  <2> DEFINE s == stack[Main]
  <2>1. s \in Seq(Frame)
    BY DEF IInv, TypeOK, Threads
  <2>2. PICK i \in DOMAIN s : Finishes(s[i], r)
    BY <1>3 DEF Waits
  <2>3. CASE ~(s # <<>> /\ Head(s).op = "ask")
    <3>1. stack'[Main] = s
      BY <1>1, <2>3 DEF Held
    <3> QED BY <2>2, <3>1 DEF Waits
  <2>4. CASE s # <<>> /\ Head(s).op = "ask"
    <3> DEFINE f == [Head(s) EXCEPT !.now = OneMore(@)]
               tail == Tail(s)
    <3>1. stack'[Main] = <<f>> \o tail
      BY <1>1, <2>4 DEF Held
    <3>2. /\ tail \in Seq(Frame) /\ Len(tail) = Len(s) - 1
          /\ \A k \in 1..Len(tail) : tail[k] = s[k+1]
          /\ Head(s) = s[1] /\ DOMAIN s = 1..Len(s) /\ Len(s) \in Nat
          /\ Len(tail) \in Nat
      BY <2>1, <2>4, HeadTailProperties, LenProperties
    <3>3. f \in Frame
      <4>1. Head(s) \in Frame
        BY <2>1, <2>4, <3>2, ElementOfSeq, EmptySeq, LenProperties
      <4>2. \A n \in 0..2 : OneMore(n) \in 0..2
        BY DEF OneMore
      <4> HIDE DEF s
      <4> QED BY <4>1, <4>2 DEF Frame
    <3> HIDE DEF f
    <3>4. <<f>> \in Seq(Frame) /\ Len(<<f>>) = 1
      BY <3>3
    <3>5. /\ <<f>> \o tail \in Seq(Frame)
          /\ Len(<<f>> \o tail) = 1 + Len(tail)
          /\ \A k \in 1..(1 + Len(tail)) :
               (<<f>> \o tail)[k] = IF k <= 1 THEN <<f>>[k] ELSE tail[k - 1]
      BY <3>2, <3>4, ConcatProperties
    <3>6. i # 1
      BY <2>2, <2>4, <3>2 DEF Finishes, Finishing
    <3>7. /\ i \in 1..(1 + Len(tail)) /\ ~(i <= 1)
          /\ i - 1 \in 1..Len(tail) /\ (i - 1) + 1 = i
      BY <2>2, <3>2, <3>6
    <3>8. (<<f>> \o tail)[i] = s[i]
      BY <3>2, <3>5, <3>7
    <3>9. i \in DOMAIN stack'[Main] /\ Finishes(stack'[Main][i], r)
      BY <2>2, <3>1, <3>5, <3>7, <3>8, LenProperties
    <3> QED BY <3>9 DEF Waits
  <2> QED BY <2>3, <2>4
<1>4. ASSUME NEW r \in DOMAIN req' PROVE Settled(r)'
  <2>1. Settled(r) /\ r \in DOMAIN req
    BY <1>1 DEF OrphansOK
  <2> QED BY <1>1, <1>2, <1>3, <2>1 DEF Settled
<1> QED BY <1>4 DEF OrphansOK

LEMMA NextSettles == IInv /\ OrphansOK /\ [Next]_vars => OrphansOK'
<1> SUFFICES ASSUME IInv, OrphansOK, [Next]_vars PROVE OrphansOK'
  OBVIOUS
<1>1. ASSUME NEW t \in Threads, Proceed(t)
      PROVE  OrphansOK'
  <2>1. CASE \/ LookupHit(t) \/ LookupMiss(t)
             \/ HandleNotYet(t) \/ HandleAsk(t) \/ HandleGiveUp(t)
             \/ \E p \in Packet : ReportNobody(t, p) \/ ReportSource(t, p)
             \/ ReportDone(t)
    BY <2>1, WalkSettles
  <2>2. CASE QueueReq(t)
    BY <2>2, QueueSettles
  <2>3. CASE Ask(t) \/ Bump(t) \/ Destroy(t)
    BY <2>3, WriteSettles
  <2>4. ASSUME NEW p \in Packet, SendPending(t, p)
        PROVE  OrphansOK'
    BY <2>4, PendingSettles
  <2>5. CASE PendingDone(t)
    BY <2>5, PendingSettles, NewFrames
  <2>6. CASE UseAfterFree(t) \/ StackOverflow(t)
    BY <2>6, FaultSettles DEF UseAfterFree, StackOverflow
  <2> QED BY <1>1, <2>1, <2>2, <2>3, <2>4, <2>5, <2>6 DEF Proceed
<1>2. ASSUME NEW t \in Threads, NEW p \in Pkts, Send(t, p)
      PROVE  OrphansOK'
  BY <1>2, SendSettles
<1>3. CASE Sweep
  BY <1>3, SweepSettles
<1>4. ASSUME NEW ip \in Ips, Receive(ip)
      PROVE  OrphansOK'
  BY <1>4, ReceiveSettles
<1>5. CASE Tick
  BY <1>5, TickSettles
<1>6. CASE UNCHANGED vars
  BY <1>6 DEF vars, OrphansOK, Settled, Waits
<1> QED BY <1>1, <1>2, <1>3, <1>4, <1>5, <1>6 DEF Next

-----------------------------------------------------------------------------
(* The theorems.                                                           *)

LEMMA NextOK == IInv /\ [Next]_vars => IInv'
<1> SUFFICES ASSUME IInv, [Next]_vars PROVE IInv'
  OBVIOUS
<1>1. ASSUME NEW t \in Threads, Proceed(t)
      PROVE  IInv'
  <2>1. CASE LookupHit(t) \/ LookupMiss(t)
    BY <2>1, LookupOK
  <2>2. CASE QueueReq(t)
    BY <2>2, QueueOK
  <2>3. CASE HandleNotYet(t) \/ HandleAsk(t) \/ HandleGiveUp(t)
    BY <2>3, HandleOK
  <2>4. CASE Ask(t)
    BY <2>4, AskOK
  <2>5. CASE Bump(t)
    BY <2>5, BumpOK
  <2>6. ASSUME NEW p \in Packet, ReportNobody(t, p) \/ ReportSource(t, p)
        PROVE  IInv'
    BY <2>6, ReportOK
  <2>7. CASE ReportDone(t)
    BY <2>7, ReportOK, NewFrames
  <2>8. CASE Destroy(t)
    BY <2>8, DestroyOK
  <2>9. ASSUME NEW p \in Packet, SendPending(t, p)
        PROVE  IInv'
    BY <2>9, PendingOK
  <2>10. CASE PendingDone(t)
    BY <2>10, PendingOK, NewFrames
  <2>11. CASE UseAfterFree(t) \/ StackOverflow(t)
    BY <2>11, FaultOK
  <2> QED BY <1>1, <2>1, <2>2, <2>3, <2>4, <2>5, <2>6, <2>7, <2>8, <2>9,
             <2>10, <2>11 DEF Proceed
<1>2. ASSUME NEW t \in Threads, NEW p \in Pkts, Send(t, p)
      PROVE  IInv'
  BY <1>2, SendOK
<1>3. CASE Sweep
  BY <1>3, SweepOK
<1>4. ASSUME NEW ip \in Ips, Receive(ip)
      PROVE  IInv'
  BY <1>4, ReceiveOK
<1>5. CASE Tick
  BY <1>5, TickOK
<1>6. CASE UNCHANGED vars
  BY <1>6 DEF vars, IInv, TypeOK, OneRequestPerIp, Linked, RequestsOK, FramesOK
<1> QED BY <1>1, <1>2, <1>3, <1>4, <1>5, <1>6 DEF Next

\* The inductive invariant holds in every reachable state.
THEOREM Invariance == Spec => []IInv
BY InitOK, NextOK, PTL DEF Spec

\* Type correctness.
THEOREM TypeCorrect == Spec => []TypeOK
<1>1. IInv => TypeOK
  BY DEF IInv
<1> QED BY <1>1, Invariance, PTL

\* The queue never holds two requests for an address: what queuereq and
\* insert find is the only one, in every interleaving of the threads.
THEOREM OneRequest == Spec => []OneRequestPerIp
<1>1. IInv => OneRequestPerIp
  BY DEF IInv
<1> QED BY <1>1, Invariance, PTL

\* No host is reported unreachable before MaxTries broadcasts, however many
\* increments of times_sent the threads lose.
THEOREM GiveUpIsLate == Spec => []NoEarlyGiveUp
<1>1. IInv => NoEarlyGiveUp
  BY DEF IInv, FramesOK, FrameOK, NoEarlyGiveUp
<1> QED BY <1>1, Invariance, PTL

\* A request that left the queue unfreed is about to be destroyed by the main
\* thread, or its next hop is one of those that ask the router themselves.
THEOREM NobodyLingers == Spec => []NoOrphan
<1>1. Init => OrphansOK
  BY DEF Init, OrphansOK
<1>2. OrphansOK => NoOrphan
  BY DEF OrphansOK, Settled, Waits, Finishes, Finishing, NoOrphan
<1> QED BY <1>1, <1>2, InitOK, NextOK, NextSettles, PTL DEF Spec

-----------------------------------------------------------------------------
(* Packets lost.  While a thread gives a request up, its packets are those *)
(* it has yet to report, those reported or sent, errors, and packets that  *)
(* another thread queues: its own are queued before, and the lock keeps    *)
(* the others out of a sweep.                                              *)

Done == sent \union reported
Told(t, f, rq, done) ==
  \A p \in rq[f.r].pkts :
    p.err \/ p \in done \union f.todo \/ t \notin {Timeout, Carrier[p.id]}

\* A thread carries its own packets, and is in no other call while it sends one.
Carries(f) == f.op \in {"lookup", "queue"} /\ ~f.pkt.err
Careful(t, f, rq, done) ==
  /\ Carries(f) => Carrier[f.pkt.id] = t
  /\ f.op \in {"unreachable", "destroy", "pending"} => Told(t, f, rq, done)
  /\ f.op = "destroy" => f.todo = {}

\* The timeout thread keeps the lock for a whole sweep, the outermost of its calls.
GiveUpInv ==
  /\ stack[Timeout] # <<>> => lock = Timeout
  /\ \A t \in Threads : \A i \in DOMAIN stack[t] :
       /\ Careful(t, stack[t][i], req, Done)
       /\ Carries(stack[t][i]) => Len(stack[t]) = 1
       /\ stack[t][i].op = "sweep" => i = Len(stack[t])

\* A step keeps the addresses and the packets of the requests.
SamePkts ==
  /\ DOMAIN req' = DOMAIN req
  /\ \A r \in DOMAIN req : req'[r].ip = req[r].ip /\ req'[r].pkts = req[r].pkts
Alike(f, g) == f.op = g.op /\ f.pkt = g.pkt /\ f.r = g.r /\ f.todo = g.todo

\* A thread's calls, one by one.
LEMMA Calls ==
  ASSUME IInv, NEW t \in Threads
  PROVE  /\ stack[t] \in Seq(Frame) /\ DOMAIN stack[t] = 1..Len(stack[t])
         /\ Len(stack[t]) \in Nat
         /\ \A i \in DOMAIN stack[t] :
              stack[t][i] \in Frame /\ FrameOK(stack[t][i], req)
<1>1. stack[t] \in Seq(Frame)
  BY DEF IInv, TypeOK
<1> QED BY <1>1, ElementOfSeq, LenProperties DEF IInv, FramesOK

\* Where the calls are after a step inside a thread's calls.
LEMMA CallsAfter ==
  ASSUME IInv, NEW t \in Threads, stack[t] # <<>>,
         NEW fs \in Seq(Frame), Continue(t, fs)
  PROVE  /\ \A u \in Threads : u # t => stack'[u] = stack[u]
         /\ Len(fs) \in Nat
         /\ DOMAIN stack'[t] = 1..(Len(fs) + Len(stack[t]) - 1)
         /\ Len(stack'[t]) = Len(fs) + Len(stack[t]) - 1
         /\ \A i \in DOMAIN stack'[t] :
              IF i <= Len(fs)
              THEN i \in DOMAIN fs /\ stack'[t][i] = fs[i]
              ELSE /\ i - Len(fs) + 1 \in DOMAIN stack[t] \ {1}
                   /\ stack'[t][i] = stack[t][i - Len(fs) + 1]
<1> DEFINE T == stack[t]
           tail == Tail(T)
<1>1. /\ T \in Seq(Frame) /\ DOMAIN T = 1..Len(T) /\ Len(T) \in Nat
  BY Calls
<1>2. /\ tail \in Seq(Frame) /\ Len(tail) = Len(T) - 1 /\ Len(tail) \in Nat
      /\ \A i \in 1..Len(tail) : tail[i] = T[i+1]
  BY <1>1, HeadTailProperties, LenProperties
<1>3. Len(fs) \in Nat /\ DOMAIN fs = 1..Len(fs)
  BY LenProperties
<1>4. /\ fs \o tail \in Seq(Frame)
      /\ Len(fs \o tail) = Len(fs) + Len(tail)
      /\ \A k \in 1..(Len(fs) + Len(tail)) :
           (fs \o tail)[k] = IF k <= Len(fs) THEN fs[k] ELSE tail[k - Len(fs)]
  BY <1>2, ConcatProperties
<1>5. DOMAIN (fs \o tail) = 1..(Len(fs) + Len(tail))
  BY <1>4, LenProperties
<1>6. /\ stack'[t] = fs \o tail
      /\ \A u \in Threads : u # t => stack'[u] = stack[u]
  BY DEF Continue, IInv, TypeOK
<1>7. Len(fs) + Len(tail) = Len(fs) + Len(T) - 1
  BY <1>1, <1>2, <1>3
<1>8. ASSUME NEW i \in 1..(Len(fs) + Len(tail))
      PROVE  IF i <= Len(fs)
             THEN i \in DOMAIN fs /\ stack'[t][i] = fs[i]
             ELSE /\ i - Len(fs) + 1 \in DOMAIN T \ {1}
                  /\ stack'[t][i] = T[i - Len(fs) + 1]
  <2>1. CASE i <= Len(fs)
    BY <1>3, <1>4, <1>6, <2>1
  <2>2. CASE ~(i <= Len(fs))
    <3>1. i - Len(fs) \in 1..Len(tail)
      BY <1>2, <1>3, <2>2
    <3>2. stack'[t][i] = tail[i - Len(fs)]
      BY <1>4, <1>6, <2>2
    <3>3. i - Len(fs) + 1 \in 1..Len(T) /\ i - Len(fs) + 1 # 1
      BY <1>1, <1>2, <1>3, <3>1
    <3> QED BY <1>1, <1>2, <2>2, <3>1, <3>2, <3>3
  <2> QED BY <2>1, <2>2
<1> HIDE DEF T, tail
<1>9. /\ DOMAIN stack'[t] = 1..(Len(fs) + Len(T) - 1)
      /\ Len(stack'[t]) = Len(fs) + Len(T) - 1
  BY <1>4, <1>5, <1>6, <1>7
<1> QED BY <1>3, <1>6, <1>7, <1>8, <1>9 DEF T

\* What a call knows of its request's packets stays true while none is added.
LEMMA CarefulStable ==
  ASSUME SamePkts, Done \subseteq Done', NEW t \in Threads,
         NEW f \in Frame, FrameOK(f, req), Careful(t, f, req, Done)
  PROVE  Careful(t, f, req', Done')
<1>1. CASE f.op \in {"unreachable", "destroy", "pending"}
  <2>1. req'[f.r].pkts = req[f.r].pkts
    BY <1>1 DEF SamePkts, FrameOK, Pointing
  <2> HIDE DEF Done
  <2> QED BY <2>1 DEF Careful, Told
<1>2. CASE f.op \notin {"unreachable", "destroy", "pending"}
  BY <1>2 DEF Careful
<1> QED BY <1>1, <1>2

\* A step that leaves the calls of all threads alike.
LEMMA CallsStay ==
  ASSUME IInv, GiveUpInv, SamePkts, Done \subseteq Done',
         lock' = lock,
         \A t \in Threads :
           /\ Len(stack'[t]) = Len(stack[t])
           /\ DOMAIN stack'[t] = DOMAIN stack[t]
           /\ stack'[t] # <<>> => stack[t] # <<>>
           /\ \A i \in DOMAIN stack[t] : Alike(stack'[t][i], stack[t][i])
  PROVE  GiveUpInv'
<1>1. stack'[Timeout] # <<>> => lock' = Timeout
  BY DEF GiveUpInv, Threads
<1>2. ASSUME NEW t \in Threads, NEW i \in DOMAIN stack'[t]
      PROVE  /\ Careful(t, stack'[t][i], req', Done')
             /\ Carries(stack'[t][i]) => Len(stack'[t]) = 1
             /\ stack'[t][i].op = "sweep" => i = Len(stack'[t])
  <2>1. /\ i \in DOMAIN stack[t] /\ Alike(stack'[t][i], stack[t][i])
        /\ Len(stack'[t]) = Len(stack[t])
    BY <1>2
  <2>2. Careful(t, stack[t][i], req', Done')
    BY <2>1, Calls, CarefulStable DEF GiveUpInv
  <2>3. /\ Carries(stack[t][i]) => Len(stack[t]) = 1
        /\ stack[t][i].op = "sweep" => i = Len(stack[t])
    BY <2>1 DEF GiveUpInv
  <2> HIDE DEF Done
  <2> QED BY <2>1, <2>2, <2>3 DEF Careful, Told, Alike, Carries
<1> QED BY <1>1, <1>2 DEF GiveUpInv

\* A step inside the calls of a thread.
LEMMA CallsGoOn ==
  ASSUME IInv, GiveUpInv, lock' = lock, NEW t \in Threads, stack[t] # <<>>,
         NEW fs \in Seq(Frame), Continue(t, fs),
         \A u \in Threads : \A i \in DOMAIN stack[u] :
           u # t \/ i # 1 => Careful(u, stack[u][i], req', Done'),
         \A k \in DOMAIN fs :
           /\ Careful(t, fs[k], req', Done')
           /\ Carries(fs[k]) => Len(fs) = 1 /\ Carries(Top(t))
           /\ fs[k].op = "sweep" => k = Len(fs) /\ Top(t).op = "sweep"
  PROVE  GiveUpInv'
<1>1. /\ stack[t] \in Seq(Frame) /\ DOMAIN stack[t] = 1..Len(stack[t])
      /\ Len(stack[t]) \in Nat /\ 1 \in DOMAIN stack[t] /\ Top(t) = stack[t][1]
  BY Calls, EmptySeq DEF Top
<1>2. Carries(Top(t)) \/ Top(t).op = "sweep" => Len(stack[t]) = 1
  BY <1>1 DEF GiveUpInv
<1>3. stack'[Timeout] # <<>> => lock' = Timeout
  BY CallsAfter DEF GiveUpInv, Threads
<1>4. ASSUME NEW u \in Threads, NEW i \in DOMAIN stack'[u]
      PROVE  /\ Careful(u, stack'[u][i], req', Done')
             /\ Carries(stack'[u][i]) => Len(stack'[u]) = 1
             /\ stack'[u][i].op = "sweep" => i = Len(stack'[u])
  <2>1. CASE u # t
    <3>1. stack'[u] = stack[u]
      BY <2>1, CallsAfter
    <3> QED BY <1>4, <2>1, <3>1 DEF GiveUpInv
  <2>2. CASE u = t /\ i <= Len(fs)
    <3>1. i \in DOMAIN fs /\ stack'[t][i] = fs[i]
      BY <1>4, <2>2, CallsAfter
    <3>2. /\ Carries(fs[i]) => Len(stack'[t]) = 1
          /\ fs[i].op = "sweep" => i = Len(stack'[t])
      <4>1. Len(stack'[t]) = Len(fs) + Len(stack[t]) - 1 /\ Len(fs) \in Nat
        BY CallsAfter
      <4>2. CASE ~Carries(fs[i]) /\ fs[i].op # "sweep"
        BY <4>2
      <4>3. CASE Carries(fs[i]) \/ fs[i].op = "sweep"
        <5>1. Len(stack[t]) = 1
          BY <1>2, <3>1, <4>3
        <5>2. Len(stack'[t]) = Len(fs)
          BY <4>1, <5>1
        <5> QED BY <3>1, <5>2
      <4> QED BY <4>2, <4>3
    <3> QED BY <2>2, <3>1, <3>2
  <2>3. CASE u = t /\ ~(i <= Len(fs))
    <3> DEFINE j == i - Len(fs) + 1
    <3>1. j \in DOMAIN stack[t] \ {1} /\ stack'[t][i] = stack[t][j]
      BY <1>4, <2>3, CallsAfter
    <3>3. j = Len(stack[t]) => i = Len(stack'[t])
      <4>1. /\ Len(stack'[t]) = Len(fs) + Len(stack[t]) - 1 /\ Len(fs) \in Nat
            /\ DOMAIN stack'[t] = 1..(Len(fs) + Len(stack[t]) - 1)
        BY CallsAfter
      <4>2. i \in 1..(Len(fs) + Len(stack[t]) - 1)
        BY <1>4, <2>3, <4>1
      <4> QED BY <1>1, <4>1, <4>2
    <3>4. stack[t][j].op = "sweep" => j = Len(stack[t])
      <4> HIDE DEF j
      <4> QED BY <3>1 DEF GiveUpInv
    <3>2. ~Carries(stack[t][j])
      <4>1. Len(stack[t]) # 1
        BY <1>1, <3>1
      <4> HIDE DEF j
      <4> QED BY <3>1, <4>1 DEF GiveUpInv
    <3> HIDE DEF j
    <3> QED BY <2>3, <3>1, <3>2, <3>3, <3>4
  <2> QED BY <2>1, <2>2, <2>3
<1> QED BY <1>3, <1>4 DEF GiveUpInv

\* The same where the packets of no request change.
LEMMA CallsStep ==
  ASSUME IInv, GiveUpInv, SamePkts, Done \subseteq Done', lock' = lock,
         NEW t \in Threads, stack[t] # <<>>,
         NEW fs \in Seq(Frame), Continue(t, fs),
         \A k \in DOMAIN fs :
           /\ Careful(t, fs[k], req', Done')
           /\ Carries(fs[k]) => Len(fs) = 1 /\ Carries(Top(t))
           /\ fs[k].op = "sweep" => k = Len(fs) /\ Top(t).op = "sweep"
  PROVE  GiveUpInv'
<1>1. \A u \in Threads : \A i \in DOMAIN stack[u] :
        Careful(u, stack[u][i], req', Done')
  BY Calls, CarefulStable DEF GiveUpInv
<1> QED BY <1>1, CallsGoOn

\* The running call of a thread is careful itself.
LEMMA TopCareful ==
  ASSUME IInv, GiveUpInv, NEW t \in Threads, stack[t] # <<>>
  PROVE  /\ Careful(t, Top(t), req, Done)
         /\ Top(t) \in Frame /\ FrameOK(Top(t), req)
<1>1. Top(t) = stack[t][1] /\ 1 \in DOMAIN stack[t]
  BY Calls, EmptySeq DEF Top
<1> QED BY <1>1, TopOK DEF GiveUpInv

\* The calls that write no request.
LEMMA WalkCareful ==
  ASSUME IInv, GiveUpInv, NEW t \in Threads,
         \/ LookupHit(t) \/ LookupMiss(t) \/ HandleNotYet(t)
         \/ HandleAsk(t) \/ HandleGiveUp(t) \/ ReportDone(t) \/ PendingDone(t)
         \/ \E p \in Packet : ReportNobody(t, p) \/ SendPending(t, p)
  PROVE  GiveUpInv'
<1> DEFINE f == Top(t)
<1>1. /\ stack[t] # <<>> /\ req' = req /\ lock' = lock
      /\ f.op \in {"lookup", "check", "unreachable", "pending"}
  BY DEF LookupHit, LookupMiss, HandleNotYet, HandleAsk, HandleGiveUp,
         ReportNobody, ReportDone, SendPending, PendingDone, Running, Top
<1>2. SamePkts
  BY <1>1 DEF SamePkts
<1>3. Done \subseteq Done'
  BY DEF LookupHit, LookupMiss, HandleNotYet, HandleAsk, HandleGiveUp,
         ReportNobody, ReportDone, SendPending, PendingDone, Done
<1>4. /\ Careful(t, f, req, Done) /\ f \in Frame /\ FrameOK(f, req)
      /\ f.op = "check" => req[f.r] \in Request
  BY <1>1, TopCareful, TopOK DEF Pointing
<1>5. CASE LookupHit(t) \/ HandleNotYet(t)
  <2>1. Continue(t, <<>>)
    BY <1>5 DEF LookupHit, HandleNotYet, Return
  <2>2. <<>> \in Seq(Frame) /\ DOMAIN <<>> = {}
    OBVIOUS
  <2> QED BY <1>1, <1>2, <1>3, <2>1, <2>2, CallsStep
<1>6. ASSUME NEW g \in Frame, Continue(t, <<g>>),
             Careful(t, g, req, Done'), Carries(g) => Carries(f),
             g.op # "sweep"
      PROVE  GiveUpInv'
  <2> DEFINE fs == <<g>>
  <2>1. fs \in Seq(Frame) /\ DOMAIN fs = {1} /\ fs[1] = g /\ Len(fs) = 1
    OBVIOUS
  <2>2. Continue(t, fs)
    BY <1>6
  <2> HIDE DEF fs
  <2> QED BY <1>1, <1>2, <1>3, <1>6, <2>1, <2>2, CallsStep
<1>7. CASE LookupMiss(t)
  <2> DEFINE g == Sending("queue", f.pkt)
  <2>1. g \in Frame /\ g.op = "queue" /\ g.pkt = f.pkt
    BY <1>4, NewFrames DEF Frame, Ops, Sending
  <2>2. Continue(t, <<g>>) /\ f.op = "lookup"
    BY <1>7 DEF LookupMiss, Running, Top
  <2> HIDE DEF g, Done
  <2>3. Careful(t, g, req, Done') /\ (Carries(g) => Carries(f))
    BY <1>4, <2>1, <2>2 DEF Careful, Carries
  <2> QED BY <1>6, <2>1, <2>2, <2>3
<1>8. CASE HandleAsk(t)
  <2> DEFINE g == [f EXCEPT !.op = "ask"]
  <2>1. g \in Frame /\ g.op = "ask"
    BY <1>4 DEF Frame, Ops
  <2>2. Continue(t, <<g>>)
    BY <1>8 DEF HandleAsk
  <2> HIDE DEF g
  <2>3. Careful(t, g, req, Done') /\ ~Carries(g)
    BY <2>1 DEF Careful, Carries
  <2> QED BY <1>6, <2>1, <2>2, <2>3
<1>9. CASE HandleGiveUp(t)
  <2> DEFINE g == [f EXCEPT !.op = "unreachable", !.todo = req[f.r].pkts]
  <2>1. Continue(t, <<g>>) /\ f.op = "check"
    BY <1>9 DEF HandleGiveUp, Running, Top
  <2>2. req[f.r].pkts \in SUBSET Packet
    BY <1>4, <2>1 DEF Request
  <2>3. g \in Frame /\ g.op = "unreachable" /\ g.r = f.r /\ g.todo = req[f.r].pkts
    BY <1>4, <2>2 DEF Frame, Ops
  <2> HIDE DEF g
  <2>4. Careful(t, g, req, Done') /\ ~Carries(g)
    BY <2>3 DEF Careful, Told, Carries
  <2> QED BY <1>6, <2>1, <2>3, <2>4
<1>10. CASE ReportDone(t) \/ PendingDone(t)
  <2> DEFINE g == [f EXCEPT !.op = "destroy"]
  <2>1. Continue(t, <<g>>) /\ f.op \in {"unreachable", "pending"} /\ f.todo = {}
    BY <1>10 DEF ReportDone, PendingDone, Running, Top
  <2>2. g \in Frame /\ g.op = "destroy" /\ g.r = f.r /\ g.todo = f.todo
    BY <1>4 DEF Frame, Ops
  <2> HIDE DEF g
  <2>3. Told(t, f, req, Done)
    BY <1>4, <2>1 DEF Careful
  <2> HIDE DEF f, Done
  <2>4. Careful(t, g, req, Done') /\ ~Carries(g)
    BY <1>3, <2>1, <2>2, <2>3 DEF Careful, Told, Carries
  <2> QED BY <1>6, <2>1, <2>2, <2>4
<1>11. ASSUME NEW p \in Packet, ReportNobody(t, p) \/ SendPending(t, p)
       PROVE  GiveUpInv'
  <2> DEFINE g == [f EXCEPT !.todo = @ \ {p}]
  <2>1. /\ Continue(t, <<g>>) /\ f.op \in {"unreachable", "pending"}
        /\ Done' = Done \union {p}
    BY <1>11 DEF ReportNobody, SendPending, Running, Top, Done
  <2>2. /\ g \in Frame /\ g.op = f.op /\ g.r = f.r
        /\ g.todo = f.todo \ {p}
    BY <1>4, <2>1 DEF Frame
  <2> HIDE DEF g
  <2>3. Told(t, f, req, Done)
    BY <1>4, <2>1 DEF Careful
  <2> HIDE DEF f, Done
  <2>4. Careful(t, g, req, Done') /\ ~Carries(g)
    BY <2>1, <2>2, <2>3 DEF Careful, Told, Carries
  <2> QED BY <1>6, <2>1, <2>2, <2>4
<1> QED BY <1>5, <1>7, <1>8, <1>9, <1>10, <1>11

\* An error is sent inside the call that reports a packet.
LEMMA ReportCareful ==
  ASSUME IInv, GiveUpInv, NEW t \in Threads,
         NEW p \in Packet, ReportSource(t, p)
  PROVE  GiveUpInv'
<1> DEFINE f == Top(t)
           e == Sending("lookup", ErrorAbout(p))
           g == [f EXCEPT !.todo = @ \ {p}]
           fs == <<e, g>>
<1>1. /\ stack[t] # <<>> /\ req' = req /\ lock' = lock
      /\ Done' = Done \union {p} /\ f.op = "unreachable"
      /\ Continue(t, fs)
  BY DEF ReportSource, Running, Top, Done
<1>2. SamePkts
  BY <1>1 DEF SamePkts
<1>3. f \in Frame /\ Told(t, f, req, Done)
  BY <1>1, TopCareful DEF Careful
<1>4. /\ g \in Frame /\ g.op = "unreachable" /\ g.r = f.r
      /\ g.todo = f.todo \ {p}
  BY <1>1, <1>3 DEF Frame
<1>5. e \in Frame /\ e.op = "lookup" /\ e.pkt.err
  <2>1. ErrorAbout(p) \in Packet /\ ErrorAbout(p).err
    BY DEF ErrorAbout, Packet
  <2> QED BY <2>1, NewFrames DEF Ops, Sending
<1> HIDE DEF e, g
<1>6. /\ fs \in Seq(Frame) /\ DOMAIN fs = {1, 2} /\ fs[1] = e /\ fs[2] = g
  BY <1>4, <1>5
<1> HIDE DEF f, fs, Done
<1>7. /\ Careful(t, e, req', Done') /\ ~Carries(e)
      /\ Careful(t, g, req', Done') /\ ~Carries(g)
  BY <1>1, <1>3, <1>4, <1>5 DEF Careful, Told, Carries
<1> QED BY <1>1, <1>2, <1>4, <1>5, <1>6, <1>7, CallsStep

\* A packet is queued: the calls of its thread that give up have no other thread's
\* packets to answer for, and the lock is free, so there is no sweep.
LEMMA QueueCareful ==
  ASSUME IInv, GiveUpInv, NEW t \in Threads, QueueReq(t)
  PROVE  GiveUpInv'
<1> DEFINE p == Top(t).pkt
<1>1. /\ stack[t] # <<>> /\ lock' = lock /\ Done' = Done
      /\ Top(t).op = "queue" /\ lock \in {NoThread, t}
  BY DEF QueueReq, Running, Top, LockFor, Done
<1>2. req \in Seq(Request) /\ DOMAIN req = 1..Len(req) /\ Len(req) \in Nat
  BY LenProperties DEF IInv, TypeOK
<1>3. /\ Top(t) \in Frame /\ p \in Packet /\ Hop(p) \in Ips
      /\ Careful(t, Top(t), req, Done)
  BY <1>1, TopCareful DEF FrameOK, Frame
<1>4. PICK r \in Nat :
        /\ Continue(t, <<Holding("check", r)>>)
        /\ \/ r \in Linked /\ req' = [req EXCEPT ![r].pkts = @ \union {p}]
           \/ r = Len(req) + 1 /\ req' = Append(req, NewRequest(Hop(p), p))
  <2>1. Len(req) + 1 \in Nat /\ Linked \subseteq Nat
    BY <1>2 DEF Linked
  <2> QED BY <2>1 DEF QueueReq
<1>5. ASSUME NEW k \in DOMAIN req
      PROVE  req'[k].pkts \subseteq req[k].pkts \union {p}
  <2>1. CASE r \in Linked /\ req' = [req EXCEPT ![r].pkts = @ \union {p}]
    <3>1. r \in DOMAIN req /\ req[r] \in Request
      BY <1>2, <2>1, ElementOfSeq DEF Linked
    <3>2. req'[r] = [req[r] EXCEPT !.pkts = @ \union {p}]
      BY <2>1, <3>1
    <3>3. req'[r].pkts = req[r].pkts \union {p}
      BY <3>1, <3>2 DEF Request
    <3>4. k # r => req'[k] = req[k]
      BY <2>1
    <3> QED BY <3>3, <3>4
  <2>2. CASE r = Len(req) + 1 /\ req' = Append(req, NewRequest(Hop(p), p))
    <3>1. NewRequest(Hop(p), p) \in Request
      BY <1>3 DEF NewRequest, Request
    <3>2. req'[k] = req[k]
      BY <1>2, <2>2, <3>1, AppendProperties, LenProperties
    <3> QED BY <3>2
  <2> QED BY <1>4, <2>1, <2>2
<1>6. ASSUME NEW u \in Threads, NEW i \in DOMAIN stack[u], u # t \/ i # 1
      PROVE  Careful(u, stack[u][i], req', Done')
  <2> DEFINE g == stack[u][i]
  <2>1. g \in Frame /\ FrameOK(g, req) /\ Careful(u, g, req, Done)
    BY Calls DEF GiveUpInv
  <2>2. p.err \/ u \notin {Timeout, Carrier[p.id]}
    <3>1. CASE u = t
      <4>1. /\ 1 \in DOMAIN stack[t] /\ Top(t) = stack[t][1]
            /\ DOMAIN stack[t] = 1..Len(stack[t])
        BY <1>1, Calls, EmptySeq DEF Top
      <4>2. ~Carries(Top(t))
        <5>1. i \in DOMAIN stack[t] /\ i # 1
          BY <1>6, <3>1
        <5>2. Len(stack[t]) # 1
          <6>1. ASSUME Len(stack[t]) = 1 PROVE FALSE
            <7>1. DOMAIN stack[t] = {1}
              BY <4>1, <6>1
            <7> QED BY <5>1, <7>1
          <6> QED BY <6>1
        <5> QED BY <4>1, <5>2 DEF GiveUpInv
      <4> QED BY <1>1, <4>2 DEF Carries
    <3>2. CASE u # t
      <4>1. u # Timeout
        <5>1. ASSUME u = Timeout PROVE FALSE
          <6>1. stack[Timeout] # <<>>
            BY <1>6, <5>1
          <6>2. lock = Timeout
            BY <6>1 DEF GiveUpInv
          <6> QED BY <1>1, <3>2, <5>1, <6>2, ThreadAssumption DEF Threads
        <5> QED BY <5>1
      <4>2. p.err \/ Carrier[p.id] = t
        BY <1>1, <1>3 DEF Careful, Carries
      <4> QED BY <3>2, <4>1, <4>2
    <3> QED BY <3>1, <3>2
  <2>3. g.op \in Pointing => req'[g.r].pkts \subseteq req[g.r].pkts \union {p}
    BY <1>5, <2>1 DEF FrameOK
  <2> HIDE DEF g, Done, p
  <2>4. ASSUME g.op \in {"unreachable", "destroy", "pending"}
        PROVE  Told(u, g, req', Done)
    <3>1. Told(u, g, req, Done) /\ req'[g.r].pkts \subseteq req[g.r].pkts \union {p}
      BY <2>1, <2>3, <2>4 DEF Careful, Pointing
    <3> QED BY <2>2, <3>1 DEF Told
  <2>5. Done' = Done
    BY <1>1
  <2>6. Careful(u, g, req', Done)
    BY <2>1, <2>4 DEF Careful
  <2> QED BY <2>5, <2>6 DEF g
<1> DEFINE c == Holding("check", r)
           fs == <<c>>
<1>7. c \in Frame /\ c.op = "check"
  BY NewFrames DEF Ops, Holding
<1> HIDE DEF c
<1>8. fs \in Seq(Frame) /\ DOMAIN fs = {1} /\ fs[1] = c
  BY <1>7
<1>9. Careful(t, c, req', Done') /\ ~Carries(c)
  BY <1>7 DEF Careful, Carries
<1>10. Continue(t, fs)
  BY <1>4 DEF c
<1> HIDE DEF fs
<1> QED BY <1>1, <1>6, <1>7, <1>8, <1>9, <1>10, CallsGoOn

\* One request is updated, but for its address and packets.
LEMMA UpdateSame ==
  ASSUME NEW k \in DOMAIN req, NEW q, req' = [req EXCEPT ![k] = q],
         q.ip = req[k].ip, q.pkts = req[k].pkts
  PROVE  SamePkts
BY DEF SamePkts

\* The writes of handle_arpreq and of sr_arpreq_destroy.
LEMMA WritesSame ==
  ASSUME IInv, NEW t \in Threads, Ask(t) \/ Bump(t) \/ Destroy(t)
  PROVE  SamePkts
<1> DEFINE r == Top(t).r
<1>1. stack[t] # <<>> /\ Top(t).op \in {"ask", "bump", "destroy"}
  BY DEF Ask, Bump, Destroy, Running, Top
<1>2. r \in DOMAIN req /\ req[r] \in Request
  BY <1>1, TopOK DEF Pointing
<1>3. \E q : req' = [req EXCEPT ![r] = q] /\ q.ip = req[r].ip /\ q.pkts = req[r].pkts
  <2> DEFINE a == [req[r] EXCEPT !.since = Top(t).now, !.asks = @ + 1]
             b == [req[r] EXCEPT !.times = Top(t).seen + 1]
             d == Discard(req[r])
  <2>1. /\ a.ip = req[r].ip /\ a.pkts = req[r].pkts
        /\ b.ip = req[r].ip /\ b.pkts = req[r].pkts
        /\ d.ip = req[r].ip /\ d.pkts = req[r].pkts
    BY <1>2 DEF Request, Discard
  <2>2. \/ req' = [req EXCEPT ![r] = a]
        \/ req' = [req EXCEPT ![r] = b]
        \/ req' = [req EXCEPT ![r] = d]
    BY DEF Ask, Bump, Destroy
  <2> QED BY <2>1, <2>2
<1> QED BY <1>2, <1>3, UpdateSame

LEMMA WriteCareful ==
  ASSUME IInv, GiveUpInv, NEW t \in Threads, Ask(t) \/ Bump(t) \/ Destroy(t)
  PROVE  GiveUpInv'
<1>1. stack[t] # <<>> /\ lock' = lock /\ Done' = Done
  BY DEF Ask, Bump, Destroy, Running, Done
<1>2. SamePkts
  BY WritesSame
<1>3. CASE Bump(t) \/ Destroy(t)
  <2>1. Continue(t, <<>>)
    BY <1>3 DEF Bump, Destroy, Return
  <2>2. <<>> \in Seq(Frame) /\ DOMAIN <<>> = {}
    OBVIOUS
  <2> QED BY <1>1, <1>2, <2>1, <2>2, CallsStep
<1>4. CASE Ask(t)
  <2> DEFINE g == [Holding("bump", Top(t).r) EXCEPT !.seen = req[Top(t).r].times]
             fs == <<g>>
  <2>1. /\ Top(t) \in Frame /\ req[Top(t).r] \in Request
    BY <1>1, <1>4, TopOK DEF Pointing, Ask, Running, Top
  <2>2. g \in Frame /\ g.op = "bump"
    <3>1. Holding("bump", Top(t).r) \in Frame
      BY <2>1, NewFrames DEF Ops, Frame
    <3>2. req[Top(t).r].times \in Nat
      BY <2>1 DEF Request
    <3> QED BY <3>1, <3>2 DEF Frame, Holding
  <2>3. Continue(t, fs)
    BY <1>4 DEF Ask
  <2> HIDE DEF g
  <2>4. Careful(t, g, req', Done') /\ ~Carries(g)
    BY <2>2 DEF Careful, Carries
  <2>5. fs \in Seq(Frame) /\ DOMAIN fs = {1} /\ fs[1] = g
    BY <2>2
  <2> HIDE DEF fs
  <2> QED BY <1>1, <1>2, <2>2, <2>3, <2>4, <2>5, CallsStep
<1> QED BY <1>3, <1>4

\* A second passes: of a call only the time changes.
LEMMA HeldAlike ==
  ASSUME IInv, NEW t \in Threads, stack'[t] = Held(stack[t])
  PROVE  /\ Len(stack'[t]) = Len(stack[t])
         /\ DOMAIN stack'[t] = DOMAIN stack[t]
         /\ stack'[t] # <<>> => stack[t] # <<>>
         /\ \A i \in DOMAIN stack[t] : Alike(stack'[t][i], stack[t][i])
<1> DEFINE T == stack[t]
<1>1. /\ T \in Seq(Frame) /\ DOMAIN T = 1..Len(T) /\ Len(T) \in Nat
      /\ \A i \in DOMAIN T : T[i] \in Frame
  BY Calls
<1>2. CASE ~(T # <<>> /\ Head(T).op = "ask")
  <2>1. stack'[t] = T
    BY <1>2 DEF Held
  <2> QED BY <2>1 DEF Alike
<1>3. CASE T # <<>> /\ Head(T).op = "ask"
  <2> DEFINE f == [Head(T) EXCEPT !.now = OneMore(@)]
             tail == Tail(T)
  <2>1. stack'[t] = <<f>> \o tail
    BY <1>3 DEF Held
  <2>2. /\ tail \in Seq(Frame) /\ Len(tail) = Len(T) - 1 /\ Len(tail) \in Nat
        /\ \A k \in 1..Len(tail) : tail[k] = T[k+1]
        /\ Head(T) = T[1] /\ 1 \in DOMAIN T
    BY <1>1, <1>3, HeadTailProperties, EmptySeq, LenProperties
  <2>3. f \in Frame /\ Alike(f, T[1])
    <3>1. Head(T) \in Frame
      BY <1>1, <2>2
    <3>2. \A n \in 0..2 : OneMore(n) \in 0..2
      BY DEF OneMore
    <3> HIDE DEF T
    <3> QED BY <2>2, <3>1, <3>2 DEF Frame, Alike
  <2> HIDE DEF f
  <2>4. <<f>> \in Seq(Frame) /\ Len(<<f>>) = 1 /\ <<f>>[1] = f
    BY <2>3
  <2>5. /\ <<f>> \o tail \in Seq(Frame)
        /\ Len(<<f>> \o tail) = 1 + Len(tail)
        /\ \A k \in 1..(1 + Len(tail)) :
             (<<f>> \o tail)[k] = IF k <= 1 THEN <<f>>[k] ELSE tail[k - 1]
    BY <2>2, <2>4, ConcatProperties
  <2>6. DOMAIN stack'[t] = DOMAIN T /\ Len(stack'[t]) = Len(T)
    BY <1>1, <2>1, <2>2, <2>5, LenProperties
  <2>7. ASSUME NEW i \in DOMAIN T PROVE Alike(stack'[t][i], T[i])
    <3>1. CASE i = 1
      <4>1. 1 \in 1..(1 + Len(tail)) /\ 1 <= 1
        BY <2>2
      <4>2. stack'[t][1] = f
        BY <2>1, <2>4, <2>5, <4>1
      <4> QED BY <2>3, <3>1, <4>2
    <3>2. CASE i # 1
      <4>1. /\ i \in 1..(1 + Len(tail)) /\ ~(i <= 1)
            /\ i - 1 \in 1..Len(tail) /\ (i - 1) + 1 = i
        BY <1>1, <2>2, <3>2
      <4>2. stack'[t][i] = T[i]
        BY <2>1, <2>2, <2>5, <4>1
      <4> QED BY <4>2 DEF Alike
    <3> QED BY <3>1, <3>2
  <2> QED BY <1>3, <2>6, <2>7
<1> QED BY <1>2, <1>3

LEMMA TickSame == ASSUME IInv, Tick PROVE SamePkts
<1>1. ASSUME NEW r \in DOMAIN req
      PROVE  req'[r].ip = req[r].ip /\ req'[r].pkts = req[r].pkts
  <2>1. req[r] \in Request
    <3>1. req \in Seq(Request)
      BY DEF IInv, TypeOK
    <3> QED BY <3>1, ElementOfSeq, LenProperties
  <2>2. req'[r] = [req[r] EXCEPT !.since = OneMore(@)]
    BY DEF Tick
  <2> QED BY <2>1, <2>2 DEF Request
<1>2. DOMAIN req' = DOMAIN req
  BY DEF Tick
<1> QED BY <1>1, <1>2 DEF SamePkts

LEMMA TickCareful == ASSUME IInv, GiveUpInv, Tick PROVE GiveUpInv'
<1>1. lock' = lock /\ Done \subseteq Done' /\ \A t \in Threads : stack'[t] = Held(stack[t])
  BY DEF Tick, Done
<1> HIDE DEF Done
<1> QED BY <1>1, HeldAlike, TickSame, CallsStay

\* The main thread takes a request off the queue: its packets are its own calls'
\* to send, and no other call changes.
LEMMA InsertSame ==
  ASSUME IInv, NEW ip \in Ips, NEW r, Insert(ip, r)
  PROVE  SamePkts
<1>1. CASE r = 0
  BY <1>1 DEF Insert, Unlink, SamePkts
<1>2. CASE r # 0
  <2>1. r \in DOMAIN req
    BY <1>2 DEF Insert, FirstOf, QueueFor, Linked
  <2>2. req[r] \in Request
    <3>1. req \in Seq(Request)
      BY DEF IInv, TypeOK
    <3> QED BY <2>1, <3>1, ElementOfSeq, LenProperties
  <2> DEFINE q == [req[r] EXCEPT !.linked = FALSE]
  <2>3. q.ip = req[r].ip /\ q.pkts = req[r].pkts
    BY <2>2 DEF Request
  <2>4. req' = [req EXCEPT ![r] = q]
    BY <1>2 DEF Insert, Unlink
  <2> HIDE DEF q
  <2> QED BY <2>1, <2>3, <2>4, UpdateSame
<1> QED BY <1>1, <1>2

\* A thread that is idle begins a call.
LEMMA CallsBegin ==
  ASSUME IInv, GiveUpInv, SamePkts, Done \subseteq Done',
         NEW t \in Threads, NEW f \in Frame,
         stack' = [stack EXCEPT ![t] = <<f>>], Careful(t, f, req', Done'),
         t = Timeout => lock' = Timeout, t # Timeout => lock' = lock
  PROVE  GiveUpInv'
<1>1. /\ stack'[t] = <<f>> /\ DOMAIN stack'[t] = {1} /\ stack'[t][1] = f
      /\ Len(stack'[t]) = 1
      /\ \A u \in Threads : u # t => stack'[u] = stack[u]
  <2>1. stack'[t] = <<f>> /\ \A u \in Threads : u # t => stack'[u] = stack[u]
    BY DEF IInv, TypeOK
  <2>2. DOMAIN <<f>> = {1} /\ <<f>>[1] = f /\ Len(<<f>>) = 1
    OBVIOUS
  <2> QED BY <2>1, <2>2
<1>2. stack'[Timeout] # <<>> => lock' = Timeout
  BY <1>1 DEF GiveUpInv, Threads
<1>3. ASSUME NEW u \in Threads, NEW i \in DOMAIN stack'[u]
      PROVE  /\ Careful(u, stack'[u][i], req', Done')
             /\ Carries(stack'[u][i]) => Len(stack'[u]) = 1
             /\ stack'[u][i].op = "sweep" => i = Len(stack'[u])
  <2>1. CASE u = t
    BY <1>1, <1>3, <2>1
  <2>2. CASE u # t
    <3>1. stack'[u] = stack[u] /\ i \in DOMAIN stack[u]
      BY <1>1, <1>3, <2>2
    <3>2. Careful(u, stack[u][i], req', Done')
      BY <3>1, Calls, CarefulStable DEF GiveUpInv
    <3>3. /\ Carries(stack[u][i]) => Len(stack[u]) = 1
          /\ stack[u][i].op = "sweep" => i = Len(stack[u])
      BY <3>1 DEF GiveUpInv
    <3> QED BY <3>1, <3>2, <3>3
  <2> QED BY <2>1, <2>2
<1> QED BY <1>2, <1>3 DEF GiveUpInv

\* A step that changes no call.
LEMMA CallsKept ==
  ASSUME IInv, GiveUpInv, SamePkts, Done \subseteq Done', lock' = lock, stack' = stack
  PROVE  GiveUpInv'
<1>1. \A t \in Threads :
        /\ Len(stack'[t]) = Len(stack[t])
        /\ DOMAIN stack'[t] = DOMAIN stack[t]
        /\ stack'[t] # <<>> => stack[t] # <<>>
        /\ \A i \in DOMAIN stack[t] : Alike(stack'[t][i], stack[t][i])
  BY DEF Alike
<1> QED BY <1>1, CallsStay

LEMMA ReceiveCareful ==
  ASSUME IInv, GiveUpInv, NEW ip \in Ips, Receive(ip)
  PROVE  GiveUpInv'
<1>1. lock' = lock /\ Done' = Done
  BY DEF Receive, ReplyUnawaited, ReplyAwaited, ReplyToOther, AskedBy, Done
<1>2. SamePkts
  BY InsertSame
     DEF Receive, ReplyUnawaited, ReplyAwaited, ReplyToOther, AskedBy
<1>3. CASE stack' = stack
  BY <1>1, <1>2, <1>3, CallsKept
<1>4. ASSUME NEW r \in Linked, ReplyAwaited(ip, r)
      PROVE  GiveUpInv'
  <2> DEFINE f == [Holding("pending", r) EXCEPT !.todo = req[r].pkts]
  <2>1. stack' = [stack EXCEPT ![Main] = <<f>>]
    BY <1>4 DEF ReplyAwaited
  <2>2. r \in Nat /\ req[r] \in Request /\ r \in DOMAIN req
    <3>1. req \in Seq(Request)
      BY DEF IInv, TypeOK
    <3> QED BY <3>1, ElementOfSeq, LenProperties DEF Linked
  <2>3. f \in Frame /\ f.op = "pending" /\ f.r = r /\ f.todo = req[r].pkts
    <3>1. Holding("pending", r) \in Frame /\ req[r].pkts \in SUBSET Packet
      BY <2>2, NewFrames DEF Ops, Request
    <3>2. Holding("pending", r).op = "pending" /\ Holding("pending", r).r = r
      BY DEF Holding
    <3> QED BY <3>1, <3>2 DEF Frame
  <2> HIDE DEF f
  <2>4. Careful(Main, f, req', Done')
    <3>1. req'[r].pkts = req[r].pkts
      BY <1>2, <2>2 DEF SamePkts
    <3> HIDE DEF Done
    <3> QED BY <2>3, <3>1 DEF Careful, Carries, Told
  <2>5. Main \in Threads /\ Main # Timeout
    BY ThreadAssumption DEF Threads
  <2> QED BY <1>1, <1>2, <2>1, <2>3, <2>4, <2>5, CallsBegin
<1> QED BY <1>3, <1>4 DEF Receive, ReplyUnawaited, ReplyToOther, AskedBy

\* The timeout thread begins a sweep, goes to the next request, and ends it.
LEMMA SweepCareful ==
  ASSUME IInv, GiveUpInv, Sweep
  PROVE  GiveUpInv'
<1>1. req' = req /\ Done' = Done /\ Timeout \in Threads
  BY DEF Sweep, StartSweep, SweepNext, EndSweep, Threads, Done
<1>2. SamePkts
  BY <1>1 DEF SamePkts
<1>3. ASSUME NEW r \in Nat, NEW op \in {"sweep", "check"}
      PROVE  /\ Holding(op, r) \in Frame /\ ~Carries(Holding(op, r))
             /\ Careful(Timeout, Holding(op, r), req', Done')
  <2>1. Holding(op, r).op = op
    BY DEF Holding
  <2>2. Holding(op, r) \in Frame
    BY NewFrames DEF Ops
  <2> HIDE DEF Done
  <2> QED BY <2>1, <2>2 DEF Careful, Carries
<1>4. CASE StartSweep
  <2>1. PICK r \in 0..Len(req) :
          stack' = [stack EXCEPT ![Timeout] = <<Holding("sweep", r)>>]
    BY <1>4 DEF StartSweep
  <2>2. lock' = Timeout /\ r \in Nat
    BY <1>4 DEF StartSweep
  <2> QED BY <1>1, <1>2, <1>3, <2>1, <2>2, CallsBegin
<1>5. CASE SweepNext
  <2>1. stack[Timeout] # <<>> /\ lock' = lock /\ Top(Timeout).op = "sweep"
    BY <1>5 DEF SweepNext, Running, Top
  <2>2. PICK n \in 0..Len(req) :
          Continue(Timeout, <<Holding("check", Top(Timeout).r), Holding("sweep", n)>>)
    BY <1>5 DEF SweepNext
  <2>3. n \in Nat /\ Top(Timeout).r \in Nat
    BY <1>1, <2>1, TopOK DEF Frame
  <2> DEFINE c == Holding("check", Top(Timeout).r)
             s == Holding("sweep", n)
             fs == <<c, s>>
  <2>4. /\ c \in Frame /\ ~Carries(c) /\ Careful(Timeout, c, req', Done')
        /\ s \in Frame /\ ~Carries(s) /\ Careful(Timeout, s, req', Done')
    BY <1>3, <2>3
  <2>5. Continue(Timeout, fs)
    BY <2>2
  <2> HIDE DEF c, s
  <2>6. /\ fs \in Seq(Frame) /\ DOMAIN fs = {1, 2} /\ fs[1] = c /\ fs[2] = s
        /\ Len(fs) = 2
    BY <2>4
  <2>7. c.op # "sweep"
    BY DEF c, Holding
  <2> HIDE DEF fs, Done
  <2>8. \A k \in DOMAIN fs :
          /\ Careful(Timeout, fs[k], req', Done')
          /\ Carries(fs[k]) => Len(fs) = 1 /\ Carries(Top(Timeout))
          /\ fs[k].op = "sweep" => k = Len(fs) /\ Top(Timeout).op = "sweep"
    BY <2>1, <2>4, <2>6, <2>7
  <2> QED BY <1>1, <1>2, <2>1, <2>5, <2>6, <2>8, CallsStep
<1>6. CASE EndSweep
  <2>1. /\ Top(Timeout).op = "sweep" /\ Continue(Timeout, <<>>)
        /\ stack[Timeout] # <<>>
    BY <1>6 DEF EndSweep, Return, Running, Top
  <2>2. Top(Timeout) = stack[Timeout][1] /\ 1 \in DOMAIN stack[Timeout]
    BY <1>1, <2>1, Calls, EmptySeq DEF Top
  <2>3. Len(stack[Timeout]) = 1
    BY <1>1, <2>1, <2>2 DEF GiveUpInv
  <2>4. /\ \A u \in Threads : u # Timeout => stack'[u] = stack[u]
        /\ stack'[Timeout] = <<>>
    <3>1. stack[Timeout] \in Seq(Frame)
      BY <1>1, Calls
    <3>2. Tail(stack[Timeout]) \in Seq(Frame) /\ Len(Tail(stack[Timeout])) = 0
      BY <2>1, <2>3, <3>1, HeadTailProperties
    <3>3. Tail(stack[Timeout]) = <<>>
      BY <3>2, EmptySeq
    <3>4. stack' = [stack EXCEPT ![Timeout] = <<>> \o <<>>]
      BY <2>1, <3>3 DEF Continue
    <3>5. <<>> \o <<>> = <<>>
      OBVIOUS
    <3> QED BY <1>1, <3>4, <3>5 DEF IInv, TypeOK
  <2>5. ASSUME NEW u \in Threads, NEW i \in DOMAIN stack'[u]
        PROVE  /\ Careful(u, stack'[u][i], req', Done')
               /\ Carries(stack'[u][i]) => Len(stack'[u]) = 1
               /\ stack'[u][i].op = "sweep" => i = Len(stack'[u])
    <3>1. stack'[u] = stack[u] /\ i \in DOMAIN stack[u]
      BY <2>4, <2>5
    <3>2. Careful(u, stack[u][i], req, Done)
      BY <3>1 DEF GiveUpInv
    <3>3. /\ Carries(stack[u][i]) => Len(stack[u]) = 1
          /\ stack[u][i].op = "sweep" => i = Len(stack[u])
      BY <3>1 DEF GiveUpInv
    <3> HIDE DEF Done
    <3> QED BY <1>1, <3>1, <3>2, <3>3
  <2> QED BY <2>4, <2>5 DEF GiveUpInv
<1> QED BY <1>4, <1>5, <1>6 DEF Sweep

LEMMA NextCareful == IInv /\ GiveUpInv /\ [Next]_vars => GiveUpInv'
<1> SUFFICES ASSUME IInv, GiveUpInv, [Next]_vars PROVE GiveUpInv'
  OBVIOUS
<1>1. ASSUME NEW t \in Threads, Proceed(t) PROVE GiveUpInv'
  <2>1. CASE QueueReq(t)
    BY <2>1, QueueCareful
  <2>2. CASE Ask(t) \/ Bump(t) \/ Destroy(t)
    BY <2>2, WriteCareful
  <2>3. ASSUME NEW p \in Packet, ReportSource(t, p) PROVE GiveUpInv'
    BY <2>3, ReportCareful
  <2>4. CASE UseAfterFree(t) \/ StackOverflow(t)
    <3>1. /\ req' = req /\ Done' = Done /\ lock' = lock /\ stack' = stack
      BY <2>4 DEF UseAfterFree, StackOverflow, Done
    <3>2. SamePkts
      BY <3>1 DEF SamePkts
    <3> QED BY <3>1, <3>2, CallsKept
  <2> QED BY <1>1, <2>1, <2>2, <2>3, <2>4, WalkCareful DEF Proceed
<1>2. ASSUME NEW t \in Threads, NEW p \in Pkts, Send(t, p) PROVE GiveUpInv'
  <2> DEFINE f == Sending("lookup", Data(p))
  <2>1. /\ req' = req /\ Done' = Done /\ lock' = lock /\ Carrier[p] = t
        /\ stack' = [stack EXCEPT ![t] = <<f>>]
    BY <1>2 DEF Send, Done
  <2>2. f \in Frame /\ f.op = "lookup" /\ f.pkt.id = p
    BY NewFrames DEF Data, Packet, Ops, Sending
  <2> HIDE DEF f
  <2>3. Careful(t, f, req', Done')
    <3> HIDE DEF Done
    <3> QED BY <2>1, <2>2 DEF Careful
  <2>4. SamePkts /\ t # Timeout
    BY <2>1, RouteAssumption DEF SamePkts
  <2> QED BY <2>1, <2>2, <2>3, <2>4, CallsBegin
<1>3. CASE UNCHANGED vars
  <2>1. /\ req' = req /\ Done' = Done /\ lock' = lock /\ stack' = stack
    BY <1>3 DEF vars, Done
  <2>2. SamePkts
    BY <2>1 DEF SamePkts
  <2> QED BY <2>1, <2>2, CallsKept
<1> QED BY <1>1, <1>2, <1>3, SweepCareful, ReceiveCareful, TickCareful DEF Next

\* A request is freed by sr_arpreq_destroy alone.
LEMMA OnlyDestroyFrees ==
  ASSUME IInv, [Next]_vars, NEW r \in DOMAIN req, req'[r].freed, ~req[r].freed
  PROVE  \E t \in Threads : Destroy(t) /\ Top(t).r = r
<1>1. req \in Seq(Request) /\ req[r] \in Request
  <2>1. req \in Seq(Request)
    BY DEF IInv, TypeOK
  <2> QED BY <2>1, ElementOfSeq, LenProperties
<1>2. ASSUME NEW t \in Threads, Destroy(t) PROVE Top(t).r = r
  <2>1. req' = [req EXCEPT ![Top(t).r] = Discard(@)]
    BY <1>2 DEF Destroy
  <2> QED BY <2>1
<1>3. ASSUME NEW t \in Threads, Proceed(t), ~Destroy(t) PROVE FALSE
  <2>1. CASE req' = req
    BY <2>1
  <2>2. CASE Ask(t) \/ Bump(t)
    <3> DEFINE k == Top(t).r
    <3>1. k \in DOMAIN req /\ req[k] \in Request
      BY <2>2, TopOK DEF Ask, Bump, Running, Top, Pointing
    <3> DEFINE a == [req[k] EXCEPT !.since = Top(t).now, !.asks = @ + 1]
               b == [req[k] EXCEPT !.times = Top(t).seen + 1]
    <3>2. a.freed = req[k].freed /\ b.freed = req[k].freed
      BY <3>1 DEF Request
    <3>3. req' = [req EXCEPT ![k] = a] \/ req' = [req EXCEPT ![k] = b]
      BY <2>2 DEF Ask, Bump
    <3> HIDE DEF a, b, k
    <3> QED BY <3>1, <3>2, <3>3
  <2>3. CASE QueueReq(t)
    <3>1. \/ \E k \in Linked : req' = [req EXCEPT ![k].pkts = @ \union {Top(t).pkt}]
          \/ req' = Append(req, NewRequest(Hop(Top(t).pkt), Top(t).pkt))
      BY <2>3 DEF QueueReq
    <3>2. ASSUME NEW k \in Linked,
                 req' = [req EXCEPT ![k].pkts = @ \union {Top(t).pkt}]
          PROVE  FALSE
      <4>1. k \in DOMAIN req /\ req[k] \in Request
        BY <1>1, ElementOfSeq, LenProperties DEF Linked
      <4> DEFINE q == [req[k] EXCEPT !.pkts = @ \union {Top(t).pkt}]
      <4>2. q.freed = req[k].freed
        BY <4>1 DEF Request
      <4>3. req' = [req EXCEPT ![k] = q]
        BY <3>2
      <4> HIDE DEF q
      <4> QED BY <4>1, <4>2, <4>3
    <3>3. ASSUME req' = Append(req, NewRequest(Hop(Top(t).pkt), Top(t).pkt))
          PROVE  FALSE
      <4> DEFINE q == NewRequest(Hop(Top(t).pkt), Top(t).pkt)
      <4>1. q \in Request
        <5>1. Top(t).op = "queue" /\ stack[t] # <<>>
          BY <2>3 DEF QueueReq, Running, Top
        <5>2. Top(t).pkt \in Packet /\ Hop(Top(t).pkt) \in Ips
          BY <5>1, TopOK DEF FrameOK, Frame
        <5> QED BY <5>2 DEF NewRequest, Request
      <4> HIDE DEF q
      <4>2. req'[r] = req[r]
        BY <1>1, <3>3, <4>1, AppendProperties, LenProperties DEF q
      <4> QED BY <4>2
    <3> QED BY <3>1, <3>2, <3>3
  <2> QED BY <1>3, <2>1, <2>2, <2>3
      DEF Proceed, LookupHit, LookupMiss, HandleNotYet, HandleAsk,
          HandleGiveUp, ReportNobody, ReportSource, ReportDone,
          SendPending, PendingDone, UseAfterFree, StackOverflow
<1>4. ASSUME ~\E t \in Threads : Proceed(t) PROVE FALSE
  <2>1. ASSUME NEW ip \in Ips, Receive(ip) PROVE FALSE
    <3>1. PICK k : Insert(ip, k)
      BY <2>1 DEF Receive, ReplyUnawaited, ReplyAwaited, ReplyToOther, AskedBy
    <3>2. CASE k = 0
      BY <3>1, <3>2 DEF Insert, Unlink
    <3>3. CASE k # 0
      <4>1. k \in DOMAIN req
        BY <3>1, <3>3 DEF Insert, FirstOf, QueueFor, Linked
      <4>2. req[k] \in Request
        BY <1>1, <4>1, ElementOfSeq, LenProperties
      <4> DEFINE q == [req[k] EXCEPT !.linked = FALSE]
      <4>3. q.freed = req[k].freed
        BY <4>2 DEF Request
      <4>4. req' = [req EXCEPT ![k] = q]
        BY <3>1, <3>3 DEF Insert, Unlink
      <4> HIDE DEF q
      <4> QED BY <4>1, <4>3, <4>4
    <3> QED BY <3>2, <3>3
  <2>2. CASE Tick
    <3>1. req'[r] = [req[r] EXCEPT !.since = OneMore(@)]
      BY <2>2 DEF Tick
    <3>2. req'[r].freed = req[r].freed
      BY <1>1, <3>1 DEF Request
    <3> QED BY <3>2
  <2>3. CASE Sweep \/ \E t \in Threads : \E p \in Pkts : Send(t, p)
    <3>1. req' = req
      BY <2>3 DEF Sweep, StartSweep, SweepNext, EndSweep, Send
    <3> QED BY <3>1
  <2>4. CASE UNCHANGED vars
    BY <2>4 DEF vars
  <2> QED BY <1>4, <2>1, <2>2, <2>3, <2>4 DEF Next
<1> QED BY <1>2, <1>3, <1>4

\* What is freed has been sent or reported, but for errors of the router and for
\* what another thread queued on a request given up outside the lock.
THEOREM GiveUpsReport == Spec => GiveUpReports
<1>1. Init => GiveUpInv
  <2> SUFFICES ASSUME Init PROVE GiveUpInv
    OBVIOUS
  <2>1. \A t \in Threads : stack[t] = <<>>
    BY DEF Init
  <2>2. DOMAIN <<>> = {}
    OBVIOUS
  <2> QED BY <2>1, <2>2 DEF GiveUpInv, Threads
<1>2. ASSUME IInv, GiveUpInv, [Next]_vars, NEW r \in DOMAIN req,
             req'[r].freed, ~req[r].freed,
             NEW p \in req[r].pkts \ (sent \union reported)
      PROVE  p.err \/ Abandoned(r, p)
  <2>1. PICK t \in Threads : Destroy(t) /\ Top(t).r = r
    BY <1>2, OnlyDestroyFrees
  <2>2. /\ stack[t] # <<>> /\ Top(t).op = "destroy" /\ Running(t, "destroy")
    BY <2>1 DEF Destroy, Running, Top
  <2>3. Told(t, Top(t), req, Done) /\ Top(t).todo = {}
    BY <1>2, <2>2, TopCareful DEF Careful
  <2>4. p.err \/ t \notin {Timeout, Carrier[p.id]}
    BY <1>2, <2>1, <2>3 DEF Told, Done
  <2> QED BY <2>1, <2>2, <2>4 DEF Abandoned
<1>3. IInv /\ GiveUpInv /\ [Next]_vars =>
        [\A r \in DOMAIN req :
           req'[r].freed /\ ~req[r].freed =>
             \A p \in req[r].pkts \ (sent \union reported) :
               p.err \/ Abandoned(r, p)]_vars
  BY <1>2
<1> QED BY <1>1, <1>3, InitOK, NextOK, NextCareful, PTL DEF Spec, GiveUpReports

-----------------------------------------------------------------------------
(* Pointers of the sweep.  The lock keeps out the destroys of other        *)
(* threads, and of the calls of the sweep itself, nested in each other,    *)
(* two hold the same request only after an error was queued on it.         *)

HasError(r, rq) == \E p \in rq[r].pkts : p.err
Sound(f, rq) ==
  f.r # 0 => f.r \in DOMAIN rq /\ (rq[f.r].freed => HasError(f.r, rq))
Apart(f, g, rq) == f.r # 0 /\ f.r = g.r => HasError(g.r, rq)

SweepInv ==
  /\ \A i \in DOMAIN stack[Timeout] : Sound(stack[Timeout][i], req)
  /\ \A i, j \in DOMAIN stack[Timeout] :
       i < j => Apart(stack[Timeout][i], stack[Timeout][j], req)

\* A step takes no packet off a request, and frees at most the one of a call.
Grows ==
  \A r \in DOMAIN req :
    r \in DOMAIN req' /\ req[r].pkts \subseteq req'[r].pkts
FreesNone == \A r \in DOMAIN req : req'[r].freed => req[r].freed

LEMMA ApartStable ==
  ASSUME Grows, NEW f, NEW g, Sound(g, req), Apart(f, g, req)
  PROVE  Apart(f, g, req')
BY DEF Grows, Sound, Apart, HasError

LEMMA SoundStable ==
  ASSUME Grows, FreesNone, NEW f, Sound(f, req)
  PROVE  Sound(f, req')
BY DEF Grows, FreesNone, Sound, HasError

\* A step that leaves the calls of the sweep alike.
LEMMA SweepKeeps ==
  ASSUME SweepInv, Grows, FreesNone,
         DOMAIN stack'[Timeout] = DOMAIN stack[Timeout],
         \A i \in DOMAIN stack[Timeout] :
           Alike(stack'[Timeout][i], stack[Timeout][i])
  PROVE  SweepInv'
<1>1. ASSUME NEW i \in DOMAIN stack[Timeout]
      PROVE  Sound(stack'[Timeout][i], req')
  <2>1. Sound(stack[Timeout][i], req')
    BY SoundStable DEF SweepInv
  <2> QED BY <2>1 DEF Sound, Alike
<1>2. ASSUME NEW i \in DOMAIN stack[Timeout], NEW j \in DOMAIN stack[Timeout], i < j
      PROVE  Apart(stack'[Timeout][i], stack'[Timeout][j], req')
  <2>1. Apart(stack[Timeout][i], stack[Timeout][j], req')
    BY <1>2, ApartStable DEF SweepInv
  <2> QED BY <2>1 DEF Apart, Alike
<1> QED BY <1>1, <1>2 DEF SweepInv

\* A step inside the calls of the sweep.
LEMMA SweepGoesOn ==
  ASSUME IInv, SweepInv, Grows, stack[Timeout] # <<>>,
         NEW fs \in Seq(Frame), Continue(Timeout, fs),
         \A i \in DOMAIN stack[Timeout] : i # 1 =>
           /\ Sound(stack[Timeout][i], req')
           /\ \A k \in DOMAIN fs : Apart(fs[k], stack[Timeout][i], req'),
         \A k \in DOMAIN fs : Sound(fs[k], req'),
         \A k, l \in DOMAIN fs : k < l => Apart(fs[k], fs[l], req')
  PROVE  SweepInv'
<1>1. Timeout \in Threads
  BY DEF Threads
<1>2. /\ Len(fs) \in Nat
      /\ DOMAIN stack'[Timeout] \subseteq Nat
      /\ \A i \in DOMAIN stack'[Timeout] :
           IF i <= Len(fs)
           THEN i \in DOMAIN fs /\ stack'[Timeout][i] = fs[i]
           ELSE /\ i - Len(fs) + 1 \in DOMAIN stack[Timeout] \ {1}
                /\ stack'[Timeout][i] = stack[Timeout][i - Len(fs) + 1]
  <2>1. DOMAIN stack'[Timeout] = 1..(Len(fs) + Len(stack[Timeout]) - 1)
    BY <1>1, CallsAfter
  <2>2. DOMAIN stack'[Timeout] \subseteq Nat
    <3>1. Len(fs) \in Nat /\ Len(stack[Timeout]) \in Nat
      BY <1>1, Calls, LenProperties
    <3> QED BY <2>1, <3>1
  <2> QED BY <1>1, <2>2, CallsAfter
<1>3. ASSUME NEW i \in DOMAIN stack'[Timeout]
      PROVE  Sound(stack'[Timeout][i], req')
  <2>1. CASE i <= Len(fs)
    BY <1>2, <2>1
  <2>2. CASE ~(i <= Len(fs))
    <3> DEFINE m == i - Len(fs) + 1
    <3>1. m \in DOMAIN stack[Timeout] \ {1} /\ stack'[Timeout][i] = stack[Timeout][m]
      BY <1>2, <2>2
    <3> HIDE DEF m
    <3> QED BY <3>1
  <2> QED BY <2>1, <2>2
<1>4. ASSUME NEW i \in DOMAIN stack'[Timeout], NEW j \in DOMAIN stack'[Timeout], i < j
      PROVE  Apart(stack'[Timeout][i], stack'[Timeout][j], req')
  <2> DEFINE m == i - Len(fs) + 1
             n == j - Len(fs) + 1
  <2>1. CASE i <= Len(fs) /\ j <= Len(fs)
    BY <1>2, <1>4, <2>1
  <2>2. CASE i <= Len(fs) /\ ~(j <= Len(fs))
    <3>1. n \in DOMAIN stack[Timeout] \ {1} /\ stack'[Timeout][j] = stack[Timeout][n]
      BY <1>2, <2>2
    <3> HIDE DEF n
    <3> QED BY <1>2, <2>2, <3>1
  <2>3. CASE ~(i <= Len(fs)) /\ ~(j <= Len(fs))
    <3>1. /\ m \in DOMAIN stack[Timeout] /\ stack'[Timeout][i] = stack[Timeout][m]
          /\ n \in DOMAIN stack[Timeout] /\ stack'[Timeout][j] = stack[Timeout][n]
      BY <1>2, <2>3
    <3>2. m < n
      BY <1>2, <1>4
    <3> HIDE DEF m, n
    <3>3. Apart(stack[Timeout][m], stack[Timeout][n], req')
      BY <3>1, <3>2, ApartStable DEF SweepInv
    <3> QED BY <3>1, <3>3
  <2>4. ~(j <= Len(fs)) \/ i <= Len(fs)
    BY <1>2, <1>4
  <2> QED BY <2>1, <2>2, <2>3, <2>4
<1> QED BY <1>3, <1>4 DEF SweepInv

\* The running call and those it is nested in.
LEMMA UnderTop ==
  ASSUME IInv, SweepInv, stack[Timeout] # <<>>
  PROVE  /\ Sound(Top(Timeout), req)
         /\ \A i \in DOMAIN stack[Timeout] : i # 1 =>
              Sound(stack[Timeout][i], req) /\ Apart(Top(Timeout), stack[Timeout][i], req)
<1>1. /\ Top(Timeout) = stack[Timeout][1] /\ 1 \in DOMAIN stack[Timeout]
      /\ \A i \in DOMAIN stack[Timeout] : i # 1 => 1 < i
  <2>1. Timeout \in Threads
    BY DEF Threads
  <2>2. /\ Top(Timeout) = stack[Timeout][1] /\ 1 \in DOMAIN stack[Timeout]
        /\ DOMAIN stack[Timeout] = 1..Len(stack[Timeout]) /\ Len(stack[Timeout]) \in Nat
    BY <2>1, Calls, EmptySeq DEF Top
  <2> QED BY <2>2
<1> QED BY <1>1 DEF SweepInv

\* The running call returns, or goes on as a call on the same request or on none.
LEMMA SweepSteps ==
  ASSUME IInv, SweepInv, Grows, FreesNone, stack[Timeout] # <<>>,
         NEW fs \in Seq(Frame), Continue(Timeout, fs),
         \A k \in DOMAIN fs : fs[k].r \in {0, Top(Timeout).r},
         \A k, l \in DOMAIN fs : k < l => fs[k].r = 0
  PROVE  SweepInv'
<1>1. ASSUME NEW i \in DOMAIN stack[Timeout], i # 1
      PROVE  /\ Sound(stack[Timeout][i], req')
             /\ \A k \in DOMAIN fs : Apart(fs[k], stack[Timeout][i], req')
  <2>1. Sound(stack[Timeout][i], req) /\ Apart(Top(Timeout), stack[Timeout][i], req)
    BY <1>1, UnderTop
  <2>2. Apart(Top(Timeout), stack[Timeout][i], req')
    BY <2>1, ApartStable
  <2>3. Sound(stack[Timeout][i], req')
    BY <2>1, SoundStable
  <2> QED BY <2>2, <2>3 DEF Apart
<1>2. \A k \in DOMAIN fs : Sound(fs[k], req')
  <2>1. Sound(Top(Timeout), req')
    BY UnderTop, SoundStable
  <2> QED BY <2>1 DEF Sound
<1>3. \A k, l \in DOMAIN fs : k < l => Apart(fs[k], fs[l], req')
  BY DEF Apart
<1> QED BY <1>1, <1>2, <1>3, SweepGoesOn

LEMMA SameGrows == ASSUME SamePkts PROVE Grows
BY DEF SamePkts, Grows

LEMMA NoDestroyFrees ==
  ASSUME IInv, [Next]_vars, \A t \in Threads : ~Destroy(t) PROVE FreesNone
BY OnlyDestroyFrees DEF FreesNone

\* The calls of the sweep that write no request, and handle_arpreq's writes.
LEMMA WalkSweeps ==
  ASSUME IInv, SweepInv, FreesNone,
         \/ LookupHit(Timeout) \/ LookupMiss(Timeout) \/ HandleNotYet(Timeout)
         \/ HandleAsk(Timeout) \/ HandleGiveUp(Timeout) \/ ReportDone(Timeout)
         \/ PendingDone(Timeout) \/ Ask(Timeout) \/ Bump(Timeout)
         \/ \E p \in Packet : \/ ReportNobody(Timeout, p) \/ ReportSource(Timeout, p)
                              \/ SendPending(Timeout, p)
  PROVE  SweepInv'
<1> DEFINE f == Top(Timeout)
<1>1. /\ stack[Timeout] # <<>> /\ Timeout \in Threads
  BY DEF LookupHit, LookupMiss, HandleNotYet, HandleAsk, HandleGiveUp, Ask, Bump,
         ReportNobody, ReportSource, ReportDone, SendPending, PendingDone, Running,
         Threads
<1>2. SamePkts
  <2>1. CASE Ask(Timeout) \/ Bump(Timeout)
    BY <1>1, <2>1, WritesSame
  <2>2. CASE req' = req
    BY <2>2 DEF SamePkts
  <2> QED BY <2>1, <2>2
          DEF LookupHit, LookupMiss, HandleNotYet, HandleAsk, HandleGiveUp,
              ReportNobody, ReportSource, ReportDone, SendPending, PendingDone
<1>3. Grows
  BY <1>2, SameGrows
<1>4. f \in Frame /\ f.r \in Nat
  BY <1>1, TopOK DEF Frame
<1>5. ASSUME Continue(Timeout, <<>>) PROVE SweepInv'
  <2>1. <<>> \in Seq(Frame) /\ DOMAIN <<>> = {}
    OBVIOUS
  <2> QED BY <1>1, <1>3, <1>5, <2>1, SweepSteps
<1>6. ASSUME NEW g \in Frame, Continue(Timeout, <<g>>), g.r \in {0, f.r}
      PROVE  SweepInv'
  <2> DEFINE fs == <<g>>
  <2>1. fs \in Seq(Frame) /\ DOMAIN fs = {1} /\ fs[1] = g
    OBVIOUS
  <2>2. Continue(Timeout, fs)
    BY <1>6
  <2> HIDE DEF fs
  <2> QED BY <1>1, <1>3, <1>6, <2>1, <2>2, SweepSteps
<1>7. CASE LookupHit(Timeout) \/ HandleNotYet(Timeout) \/ Bump(Timeout)
  BY <1>5, <1>7 DEF LookupHit, HandleNotYet, Bump, Return
<1>8. CASE LookupMiss(Timeout)
  <2> DEFINE g == Sending("queue", f.pkt)
  <2>1. g \in Frame /\ g.r = 0
    BY <1>4, NewFrames DEF Frame, Ops, Sending
  <2>2. Continue(Timeout, <<g>>)
    BY <1>8 DEF LookupMiss
  <2> HIDE DEF g
  <2> QED BY <1>6, <2>1, <2>2
<1>9. ASSUME NEW op \in Ops, Continue(Timeout, <<[f EXCEPT !.op = op]>>)
      PROVE  SweepInv'
  <2> DEFINE g == [f EXCEPT !.op = op]
  <2>1. g \in Frame /\ g.r = f.r
    BY <1>4 DEF Frame
  <2>2. Continue(Timeout, <<g>>)
    BY <1>9
  <2> HIDE DEF g
  <2> QED BY <1>6, <2>1, <2>2
<1>10. CASE HandleAsk(Timeout) \/ ReportDone(Timeout) \/ PendingDone(Timeout)
  BY <1>9, <1>10 DEF HandleAsk, ReportDone, PendingDone, Ops
<1>11. CASE HandleGiveUp(Timeout)
  <2> DEFINE g == [f EXCEPT !.op = "unreachable", !.todo = req[f.r].pkts]
  <2>1. Continue(Timeout, <<g>>) /\ f.op = "check"
    BY <1>11 DEF HandleGiveUp, Running, Top
  <2>2. req[f.r].pkts \in SUBSET Packet
    BY <1>1, <2>1, TopOK DEF Request, Pointing
  <2>3. g \in Frame /\ g.r = f.r
    BY <1>4, <2>2 DEF Frame, Ops
  <2> HIDE DEF g
  <2> QED BY <1>6, <2>1, <2>3
<1>12. ASSUME NEW p \in Packet, ReportNobody(Timeout, p) \/ SendPending(Timeout, p)
       PROVE  SweepInv'
  <2> DEFINE g == [f EXCEPT !.todo = @ \ {p}]
  <2>1. Continue(Timeout, <<g>>)
    BY <1>12 DEF ReportNobody, SendPending
  <2>2. g \in Frame /\ g.r = f.r
    BY <1>4 DEF Frame
  <2> HIDE DEF g
  <2> QED BY <1>6, <2>1, <2>2
<1>13. ASSUME NEW p \in Packet, ReportSource(Timeout, p) PROVE SweepInv'
  <2> DEFINE e == Sending("lookup", ErrorAbout(p))
             g == [f EXCEPT !.todo = @ \ {p}]
             fs == <<e, g>>
  <2>1. Continue(Timeout, fs)
    BY <1>13 DEF ReportSource
  <2>2. g \in Frame /\ g.r = f.r
    BY <1>4 DEF Frame
  <2>3. e \in Frame /\ e.r = 0
    <3>1. ErrorAbout(p) \in Packet
      BY DEF ErrorAbout, Packet
    <3> QED BY <3>1, NewFrames DEF Ops, Sending
  <2> HIDE DEF e, g
  <2>4. fs \in Seq(Frame) /\ DOMAIN fs = {1, 2} /\ fs[1] = e /\ fs[2] = g
    BY <2>2, <2>3
  <2> HIDE DEF fs
  <2>5. /\ \A k \in DOMAIN fs : fs[k].r \in {0, Top(Timeout).r}
        /\ \A k, l \in DOMAIN fs : k < l => fs[k].r = 0
    BY <2>2, <2>3, <2>4
  <2> QED BY <1>1, <1>3, <2>1, <2>4, <2>5, SweepSteps
<1>14. CASE Ask(Timeout)
  <2> DEFINE g == [Holding("bump", f.r) EXCEPT !.seen = req[f.r].times]
  <2>1. req[f.r] \in Request
    BY <1>1, <1>14, TopOK DEF Pointing, Ask, Running, Top
  <2>2. g \in Frame /\ g.r = f.r
    <3>1. Holding("bump", f.r) \in Frame /\ Holding("bump", f.r).r = f.r
      BY <1>4, NewFrames DEF Ops, Holding
    <3>2. req[f.r].times \in Nat
      BY <2>1 DEF Request
    <3> QED BY <3>1, <3>2 DEF Frame
  <2>3. Continue(Timeout, <<g>>)
    BY <1>14 DEF Ask
  <2> HIDE DEF g
  <2> QED BY <1>6, <2>2, <2>3
<1> QED BY <1>7, <1>8, <1>10, <1>11, <1>12, <1>13, <1>14

\* A packet that the sweep queues is an error, on a request that is on the queue.
LEMMA QueueSweeps ==
  ASSUME IInv, GiveUpInv, SweepInv, FreesNone, QueueReq(Timeout)
  PROVE  SweepInv'
<1> DEFINE p == Top(Timeout).pkt
<1>1. /\ stack[Timeout] # <<>> /\ Top(Timeout).op = "queue" /\ Timeout \in Threads
  BY DEF QueueReq, Running, Top, Threads
<1>2. req \in Seq(Request) /\ DOMAIN req = 1..Len(req) /\ Len(req) \in Nat
  BY LenProperties DEF IInv, TypeOK
<1>3. p \in Packet /\ Hop(p) \in Ips /\ p.err
  <2>1. /\ Top(Timeout) \in Frame /\ FrameOK(Top(Timeout), req)
        /\ Careful(Timeout, Top(Timeout), req, Done)
    BY <1>1, TopCareful
  <2>2. p \in Packet /\ Hop(p) \in Ips
    BY <1>1, <2>1 DEF FrameOK, Frame
  <2>3. p.err \/ Carrier[p.id] = Timeout
    BY <1>1, <2>1 DEF Careful, Carries
  <2> QED BY <2>2, <2>3, RouteAssumption DEF Packet
<1>4. PICK r \in Nat :
        /\ Continue(Timeout, <<Holding("check", r)>>)
        /\ \/ r \in Linked /\ req' = [req EXCEPT ![r].pkts = @ \union {p}]
           \/ r = Len(req) + 1 /\ req' = Append(req, NewRequest(Hop(p), p))
  <2>1. Len(req) + 1 \in Nat /\ Linked \subseteq Nat
    BY <1>2 DEF Linked
  <2> QED BY <2>1 DEF QueueReq
<1>5. Grows /\ r \in DOMAIN req' /\ HasError(r, req')
  <2>1. CASE r \in Linked /\ req' = [req EXCEPT ![r].pkts = @ \union {p}]
    <3>1. r \in DOMAIN req /\ req[r] \in Request
      BY <1>2, <2>1, ElementOfSeq DEF Linked
    <3>2. /\ req'[r] = [req[r] EXCEPT !.pkts = @ \union {p}]
          /\ DOMAIN req' = DOMAIN req
      BY <2>1, <3>1
    <3>3. req'[r].pkts = req[r].pkts \union {p}
      BY <3>1, <3>2 DEF Request
    <3>4. \A k \in DOMAIN req : k # r => req'[k] = req[k]
      BY <2>1
    <3> QED BY <1>3, <3>1, <3>2, <3>3, <3>4 DEF Grows, HasError
  <2>2. CASE r = Len(req) + 1 /\ req' = Append(req, NewRequest(Hop(p), p))
    <3>1. NewRequest(Hop(p), p) \in Request
      BY <1>3 DEF NewRequest, Request
    <3>2. /\ \A k \in DOMAIN req : req'[k] = req[k]
          /\ DOMAIN req' = 1..r /\ req'[r] = NewRequest(Hop(p), p)
      BY <1>2, <2>2, <3>1, AppendProperties, LenProperties
    <3>3. r \in 1..r /\ \A k \in DOMAIN req : k \in 1..r
      BY <1>2, <2>2
    <3>4. p \in req'[r].pkts
      BY <3>2 DEF NewRequest
    <3> QED BY <1>3, <3>2, <3>3, <3>4 DEF Grows, HasError
  <2> QED BY <1>4, <2>1, <2>2
<1> DEFINE c == Holding("check", r)
           fs == <<c>>
<1>6. c \in Frame /\ c.r = r
  BY NewFrames DEF Ops, Holding
<1> HIDE DEF c
<1>7. fs \in Seq(Frame) /\ DOMAIN fs = {1} /\ fs[1] = c
  BY <1>6
<1>8. Continue(Timeout, fs)
  BY <1>4 DEF c
<1>9. ASSUME NEW i \in DOMAIN stack[Timeout], i # 1
      PROVE  Sound(stack[Timeout][i], req') /\ Apart(c, stack[Timeout][i], req')
  <2>1. Sound(stack[Timeout][i], req')
    BY <1>5, SoundStable DEF SweepInv
  <2> QED BY <1>5, <1>6, <2>1 DEF Apart
<1>10. Sound(c, req')
  BY <1>5, <1>6 DEF Sound
<1> HIDE DEF fs
<1>11. \A k, l \in DOMAIN fs : k < l => Apart(fs[k], fs[l], req')
  BY <1>7
<1> QED BY <1>1, <1>5, <1>7, <1>8, <1>9, <1>10, <1>11, SweepGoesOn

\* The sweep destroys a request: a call it is nested in that holds the same one
\* has seen an error queued on it.
LEMMA DestroySweeps ==
  ASSUME IInv, SweepInv, Destroy(Timeout)
  PROVE  SweepInv'
<1> DEFINE r == Top(Timeout).r
           fs == <<>>
<1>1. /\ stack[Timeout] # <<>> /\ Timeout \in Threads
      /\ Continue(Timeout, fs) /\ req' = [req EXCEPT ![r] = Discard(@)]
  BY DEF Destroy, Return, Running, Threads
<1>2. Grows
  BY <1>1, WritesSame, SameGrows
<1>3. ASSUME NEW i \in DOMAIN stack[Timeout], i # 1
      PROVE  Sound(stack[Timeout][i], req')
  <2> DEFINE g == stack[Timeout][i]
  <2>1. Sound(g, req) /\ Apart(Top(Timeout), g, req)
    BY <1>1, <1>3, UnderTop
  <2>2. CASE g.r = r
    <3>1. Apart(Top(Timeout), g, req')
      BY <1>2, <2>1, ApartStable
    <3>2. g.r # 0 => g.r \in DOMAIN req' /\ HasError(g.r, req')
      <4> HIDE DEF g
      <4> QED BY <1>2, <2>1, <2>2, <3>1 DEF Sound, Apart, Grows
    <3>3. Sound(g, req')
      <4> HIDE DEF g
      <4> QED BY <3>2 DEF Sound
    <3> QED BY <3>3
  <2>3. CASE g.r # r
    <3>1. g.r \in DOMAIN req => req'[g.r] = req[g.r]
      BY <1>1, <2>3
    <3>2. Sound(g, req')
      <4> HIDE DEF g
      <4> QED BY <1>2, <2>1, <3>1 DEF Sound, Grows, HasError
    <3> QED BY <3>2
  <2> QED BY <2>2, <2>3
<1>4. fs \in Seq(Frame) /\ DOMAIN fs = {}
  OBVIOUS
<1> HIDE DEF fs
<1> QED BY <1>1, <1>2, <1>3, <1>4, SweepGoesOn

\* A step of another thread, which cannot destroy or queue during a sweep.
LEMMA OthersSweep ==
  ASSUME IInv, GiveUpInv, SweepInv, [Next]_vars, stack'[Timeout] = stack[Timeout]
  PROVE  SweepInv'
<1>1. CASE stack[Timeout] = <<>>
  <2>1. DOMAIN stack'[Timeout] = {}
    BY <1>1
  <2> QED BY <2>1 DEF SweepInv
<1>2. CASE stack[Timeout] # <<>>
  <2>1. lock = Timeout
    BY <1>2 DEF GiveUpInv
  <2>2. ASSUME NEW t \in Threads, Destroy(t) \/ QueueReq(t) PROVE FALSE
    <3>1. t = Timeout
      BY <2>1, <2>2, ThreadAssumption DEF Destroy, QueueReq, LockFor, Threads
    <3>2. Len(stack'[Timeout]) = Len(stack[Timeout])
      OBVIOUS
    <3>3. CASE Destroy(t)
      <4>1. <<>> \in Seq(Frame) /\ Len(<<>>) = 0 /\ Continue(t, <<>>)
        BY <3>3 DEF Destroy, Return
      <4>2. Len(stack'[t]) = 0 + Len(stack[t]) - 1
        BY <1>2, <3>1, <4>1, CallsAfter
      <4>3. Len(stack[t]) \in Nat
        BY Calls
      <4> QED BY <3>1, <3>2, <4>2, <4>3
    <3>4. CASE QueueReq(t)
      <4>1. PICK r \in Nat : Continue(t, <<Holding("check", r)>>)
        <5>1. Len(req) + 1 \in Nat /\ Linked \subseteq Nat
          <6>1. DOMAIN req = 1..Len(req) /\ Len(req) \in Nat
            BY LenProperties DEF IInv, TypeOK
          <6> QED BY <6>1 DEF Linked
        <5> QED BY <3>4, <5>1 DEF QueueReq
      <4> DEFINE c == Holding("check", r)
                 fs == <<c>>
      <4>2. c \in Frame /\ c.op = "check"
        BY NewFrames DEF Ops, Holding
      <4> HIDE DEF c
      <4>3. fs \in Seq(Frame) /\ fs[1] = c /\ Len(fs) = 1
        BY <4>2
      <4>4. Continue(t, fs)
        BY <4>1 DEF c
      <4> HIDE DEF fs
      <4>5. /\ DOMAIN stack'[t] = 1..(1 + Len(stack[t]) - 1)
            /\ \A i \in DOMAIN stack'[t] : i <= 1 => stack'[t][i] = fs[i]
        BY <1>2, <3>1, <4>3, <4>4, CallsAfter
      <4>6. /\ 1 \in DOMAIN stack[t] /\ Top(t) = stack[t][1]
            /\ DOMAIN stack[t] = 1..Len(stack[t]) /\ Len(stack[t]) \in Nat
        BY <1>2, <3>1, Calls, EmptySeq DEF Top
      <4>7. stack'[t][1] = fs[1]
        BY <4>5, <4>6
      <4>8. Top(t).op = "queue"
        BY <3>4 DEF QueueReq, Running, Top
      <4> QED BY <3>1, <4>2, <4>3, <4>6, <4>7, <4>8
    <3> QED BY <2>2, <3>3, <3>4
  <2>3. FreesNone
    BY <2>2, NoDestroyFrees
  <2>4. SamePkts
    <3>1. ASSUME NEW t \in Threads, Proceed(t) PROVE SamePkts
      <4>1. CASE Ask(t) \/ Bump(t)
        BY <4>1, WritesSame
      <4>2. CASE req' = req
        BY <4>2 DEF SamePkts
      <4> QED BY <2>2, <3>1, <4>1, <4>2
          DEF Proceed, LookupHit, LookupMiss, HandleNotYet, HandleAsk,
              HandleGiveUp, ReportNobody, ReportSource, ReportDone,
              SendPending, PendingDone, UseAfterFree, StackOverflow
    <3>2. ASSUME NEW ip \in Ips, Receive(ip) PROVE SamePkts
      BY <3>2, InsertSame
         DEF Receive, ReplyUnawaited, ReplyAwaited, ReplyToOther, AskedBy
    <3>3. CASE Tick
      BY <3>3, TickSame
    <3>4. CASE req' = req
      BY <3>4 DEF SamePkts
    <3>5. CASE Sweep \/ \E t \in Threads : \E p \in Pkts : Send(t, p)
      BY <3>4, <3>5 DEF Sweep, StartSweep, SweepNext, EndSweep, Send
    <3>6. CASE UNCHANGED vars
      BY <3>4, <3>6 DEF vars
    <3> QED BY <3>1, <3>2, <3>3, <3>5, <3>6 DEF Next
  <2>5. \A i \in DOMAIN stack[Timeout] :
          Alike(stack'[Timeout][i], stack[Timeout][i])
    BY DEF Alike
  <2> QED BY <2>3, <2>4, <2>5, SameGrows, SweepKeeps
<1> QED BY <1>1, <1>2

\* The timeout thread begins a sweep, goes to the next request, and ends it.
LEMMA SweepSweeps ==
  ASSUME IInv, GiveUpInv, SweepInv, Sweep
  PROVE  SweepInv'
<1>1. req' = req /\ Timeout \in Threads
  BY DEF Sweep, StartSweep, SweepNext, EndSweep, Threads
<1>2. ASSUME NEW r \in 0..Len(req), NEW S, S \subseteq Linked, FirstOf(S, r)
      PROVE  Sound(Holding("sweep", r), req') /\ r \in Nat
  <2>1. r # 0 => r \in Linked
    BY <1>2 DEF FirstOf
  <2>2. r # 0 => r \in DOMAIN req /\ ~req[r].freed
    BY <2>1 DEF Linked, IInv, RequestsOK
  <2> QED BY <1>1, <2>2 DEF Sound, Holding
<1>3. Grows /\ FreesNone
  BY <1>1 DEF Grows, FreesNone
<1>4. CASE StartSweep
  <2>1. PICK r \in 0..Len(req) :
          /\ FirstOf(Linked, r)
          /\ stack' = [stack EXCEPT ![Timeout] = <<Holding("sweep", r)>>]
    BY <1>4 DEF StartSweep
  <2>2. stack'[Timeout] = <<Holding("sweep", r)>>
    BY <1>1, <2>1 DEF IInv, TypeOK
  <2>3. DOMAIN stack'[Timeout] = {1} /\ stack'[Timeout][1] = Holding("sweep", r)
    BY <2>2
  <2>4. Sound(Holding("sweep", r), req')
    BY <1>2, <2>1
  <2> QED BY <2>3, <2>4 DEF SweepInv
<1>5. ASSUME stack[Timeout] # <<>>, Top(Timeout).op = "sweep"
      PROVE  DOMAIN stack[Timeout] = {1} /\ Len(stack[Timeout]) = 1
  <2>1. /\ Top(Timeout) = stack[Timeout][1] /\ 1 \in DOMAIN stack[Timeout]
        /\ DOMAIN stack[Timeout] = 1..Len(stack[Timeout])
    BY <1>1, <1>5, Calls, EmptySeq DEF Top
  <2>2. Len(stack[Timeout]) = 1
    BY <1>1, <1>5, <2>1 DEF GiveUpInv
  <2> QED BY <2>1, <2>2
<1>6. CASE SweepNext
  <2>1. /\ stack[Timeout] # <<>> /\ Top(Timeout).op = "sweep"
        /\ Top(Timeout).r # 0
    BY <1>6 DEF SweepNext, Running, Top
  <2>2. PICK n \in 0..Len(req) :
          /\ FirstOf(After(Top(Timeout).r), n)
          /\ Continue(Timeout, <<Holding("check", Top(Timeout).r), Holding("sweep", n)>>)
    BY <1>6 DEF SweepNext
  <2> DEFINE c == Holding("check", Top(Timeout).r)
             s == Holding("sweep", n)
             fs == <<c, s>>
  <2>3. Sound(s, req') /\ n \in Nat
    <3>1. After(Top(Timeout).r) \subseteq Linked
      BY DEF After
    <3> QED BY <1>2, <2>2, <3>1
  <2>4. Sound(Top(Timeout), req') /\ Top(Timeout).r \in Nat
    BY <1>1, <1>3, <2>1, UnderTop, SoundStable, TopOK DEF Frame
  <2>5. Sound(c, req')
    BY <2>4 DEF Sound, Holding
  <2>6. c.r # s.r
    <3>1. n # Top(Timeout).r
      <4>1. CASE n = 0
        BY <2>1, <4>1
      <4>2. CASE n # 0
        <5>1. n < Top(Timeout).r
          BY <2>2, <4>2 DEF FirstOf, After
        <5> QED BY <2>3, <2>4, <5>1
      <4> QED BY <4>1, <4>2
    <3> QED BY <3>1 DEF Holding
  <2>7. c \in Frame /\ s \in Frame
    BY <2>3, <2>4, NewFrames DEF Ops
  <2>8. Continue(Timeout, fs)
    BY <2>2
  <2> HIDE DEF c, s
  <2>9. fs \in Seq(Frame) /\ DOMAIN fs = {1, 2} /\ fs[1] = c /\ fs[2] = s
    BY <2>7
  <2> HIDE DEF fs
  <2>10. \A k, l \in DOMAIN fs : k < l => Apart(fs[k], fs[l], req')
    <3>1. \A k, l \in {1, 2} : k < l => k = 1 /\ l = 2
      OBVIOUS
    <3> QED BY <2>6, <2>9, <3>1 DEF Apart
  <2>11. \A k \in DOMAIN fs : Sound(fs[k], req')
    BY <2>3, <2>5, <2>9
  <2>12. \A i \in DOMAIN stack[Timeout] : i = 1
    BY <1>5, <2>1
  <2> QED BY <1>3, <2>1, <2>8, <2>9, <2>10, <2>11, <2>12, SweepGoesOn
<1>7. CASE EndSweep
  <2> DEFINE fs == <<>>
  <2>1. stack[Timeout] # <<>> /\ Continue(Timeout, fs)
    BY <1>7 DEF EndSweep, Return, Running
  <2>2. fs \in Seq(Frame) /\ DOMAIN fs = {}
    OBVIOUS
  <2> HIDE DEF fs
  <2> QED BY <1>3, <2>1, <2>2, SweepSteps
<1> QED BY <1>4, <1>6, <1>7 DEF Sweep

LEMMA NextSweeps == IInv /\ GiveUpInv /\ SweepInv /\ [Next]_vars => SweepInv'
<1> SUFFICES ASSUME IInv, GiveUpInv, SweepInv, [Next]_vars PROVE SweepInv'
  OBVIOUS
<1>1. ASSUME NEW t \in Threads, Proceed(t), t # Timeout PROVE SweepInv'
  <2>1. \/ \E fs : stack' = [stack EXCEPT ![t] = fs]
        \/ stack' = stack
    BY <1>1
       DEF Proceed, LookupHit, LookupMiss, QueueReq, HandleNotYet, HandleAsk,
           HandleGiveUp, ReportNobody, ReportSource, ReportDone, SendPending,
           PendingDone, Ask, Bump, Destroy, UseAfterFree, StackOverflow,
           Continue, Return
  <2>2. stack'[Timeout] = stack[Timeout]
    BY <1>1, <2>1 DEF IInv, TypeOK, Threads
  <2> QED BY <2>2, OthersSweep
<1>2. ASSUME Proceed(Timeout) PROVE SweepInv'
  <2>1. CASE Destroy(Timeout)
    BY <2>1, DestroySweeps
  <2>2. CASE UseAfterFree(Timeout) \/ StackOverflow(Timeout)
    <3>1. stack'[Timeout] = stack[Timeout]
      BY <2>2 DEF UseAfterFree, StackOverflow
    <3> QED BY <3>1, OthersSweep
  <2>3. ASSUME NEW t \in Threads, Destroy(t), ~Destroy(Timeout),
               ~UseAfterFree(Timeout), ~StackOverflow(Timeout)
        PROVE  SweepInv'
    <3>1. \E fs : stack' = [stack EXCEPT ![t] = fs]
      BY <2>3 DEF Destroy, Return, Continue
    <3>2. stack'[Timeout] = stack[Timeout]
      BY <2>3, <3>1 DEF IInv, TypeOK, Threads
    <3> QED BY <3>2, OthersSweep
  <2>4. CASE \A t \in Threads : ~Destroy(t)
    <3>1. FreesNone
      BY <2>4, NoDestroyFrees
    <3>2. Timeout \in Threads
      BY DEF Threads
    <3> QED BY <1>2, <2>2, <2>4, <3>1, <3>2, WalkSweeps, QueueSweeps DEF Proceed
  <2> QED BY <2>1, <2>2, <2>3, <2>4
<1>3. ASSUME NEW t \in Threads, NEW p \in Pkts, Send(t, p) PROVE SweepInv'
  <2>1. /\ stack' = [stack EXCEPT ![t] = <<Sending("lookup", Data(p))>>]
        /\ Carrier[p] = t
    BY <1>3 DEF Send
  <2>2. t # Timeout
    BY <2>1, RouteAssumption
  <2>3. stack'[Timeout] = stack[Timeout]
    BY <2>1, <2>2 DEF IInv, TypeOK, Threads
  <2> QED BY <2>3, OthersSweep
<1>4. ASSUME NEW ip \in Ips, Receive(ip) PROVE SweepInv'
  <2>1. \E fs : stack' = [stack EXCEPT ![Main] = fs] \/ stack' = stack
    BY <1>4 DEF Receive, ReplyUnawaited, ReplyAwaited, ReplyToOther, AskedBy
  <2>2. stack'[Timeout] = stack[Timeout]
    BY <2>1, ThreadAssumption DEF IInv, TypeOK, Threads
  <2> QED BY <2>2, OthersSweep
<1>5. CASE Tick
  <2>1. /\ DOMAIN stack'[Timeout] = DOMAIN stack[Timeout]
        /\ \A i \in DOMAIN stack[Timeout] : Alike(stack'[Timeout][i], stack[Timeout][i])
    <3>1. Timeout \in Threads /\ stack'[Timeout] = Held(stack[Timeout])
      BY <1>5 DEF Tick, Threads
    <3> QED BY <3>1, HeldAlike
  <2>2. Grows
    BY <1>5, TickSame, SameGrows
  <2>3. FreesNone
    <3>1. ASSUME NEW r \in DOMAIN req PROVE req'[r].freed = req[r].freed
      <4>1. req[r] \in Request
        <5>1. req \in Seq(Request)
          BY DEF IInv, TypeOK
        <5> QED BY <5>1, ElementOfSeq, LenProperties
      <4>2. req'[r] = [req[r] EXCEPT !.since = OneMore(@)]
        BY <1>5 DEF Tick
      <4> QED BY <4>1, <4>2 DEF Request
    <3> QED BY <3>1 DEF FreesNone
  <2> QED BY <2>1, <2>2, <2>3, SweepKeeps
<1>6. CASE UNCHANGED vars
  BY <1>6, OthersSweep DEF vars
<1> QED BY <1>1, <1>2, <1>3, <1>4, <1>5, <1>6, SweepSweeps DEF Next

\* The sweep's pointers lead to freed memory only where an error that it sent
\* itself was queued on the request it was giving up, whatever other threads do.
THEOREM SweepPointsToItsOwn == Spec => []SweepPointers
<1>1. Init => GiveUpInv /\ SweepInv
  <2> SUFFICES ASSUME Init PROVE GiveUpInv /\ SweepInv
    OBVIOUS
  <2>1. \A t \in Threads : stack[t] = <<>>
    BY DEF Init
  <2>2. DOMAIN <<>> = {}
    OBVIOUS
  <2> QED BY <2>1, <2>2 DEF GiveUpInv, SweepInv, Threads
<1>2. SweepInv => SweepPointers
  BY DEF SweepInv, SweepPointers, Sound, HasError
<1> QED BY <1>1, <1>2, InitOK, NextOK, NextCareful, NextSweeps, PTL DEF Spec

-----------------------------------------------------------------------------
(* The refinement: ArpCache implements ArpResolution.                      *)


\* What an observer sees of a request.
Seen(q) == [ip |-> q.ip, asks |-> q.asks, state |-> State(q)]

LEMMA OutcomeOf ==
  /\ Outcome = [r \in DOMAIN req |-> Seen(req[r])]
  /\ DOMAIN Outcome = DOMAIN req
  /\ \A r \in DOMAIN req : Outcome[r] = Seen(req[r])
BY DEF Outcome, Seen

\* A step that changes nothing an observer sees.
LEMMA Stutter ==
  ASSUME DOMAIN req' = DOMAIN req,
         \A r \in DOMAIN req : /\ req'[r].ip = req[r].ip
                               /\ req'[r].asks = req[r].asks
                               /\ req'[r].linked = req[r].linked
                               /\ req'[r].freed = req[r].freed
  PROVE  Outcome' = Outcome
BY DEF Outcome, State

\* A step that changes what is seen of one request.
LEMMA Change ==
  ASSUME NEW r \in DOMAIN req, NEW q, req' = [req EXCEPT ![r] = q]
  PROVE  Outcome' = [Outcome EXCEPT ![r] = Seen(q)]
<1>1. DOMAIN req' = DOMAIN req
  OBVIOUS
<1>2. \A k \in DOMAIN req : req'[k] = IF k = r THEN q ELSE req[k]
  OBVIOUS
<1>3. Outcome' = [k \in DOMAIN req |-> IF k = r THEN Seen(q) ELSE Seen(req[k])]
  BY <1>1, <1>2 DEF Outcome, Seen
<1> QED BY <1>3, OutcomeOf

\* Each step is one of the abstract specification, or a stutter.
LEMMA AskRefines ==
  ASSUME IInv, NEW t \in Threads, Ask(t)
  PROVE  Abstract!Next
<1> DEFINE r == Top(t).r
           q == [req[r] EXCEPT !.since = Top(t).now, !.asks = @ + 1]
<1>1. r \in DOMAIN req /\ req[r] \in Request
  BY TopOK DEF Ask, Running, Top, Pointing
<1>2. /\ q.ip = req[r].ip /\ q.asks = req[r].asks + 1
      /\ q.linked = req[r].linked /\ q.freed = req[r].freed
  BY <1>1 DEF Request
<1>3. req' = [req EXCEPT ![r] = q]
  BY DEF Ask
<1>4. ~req[r].freed
  BY DEF Ask, Live
<1> HIDE DEF q, r
<1>5. Seen(q) = [Seen(req[r]) EXCEPT !.asks = @ + 1]
  BY <1>2 DEF Seen, State
<1>6. Seen(req[r]).state # "closed"
  BY <1>4 DEF Seen, State
<1>7. Outcome' = [Outcome EXCEPT ![r] = Seen(q)]
  BY <1>1, <1>3, Change
<1>8. r \in DOMAIN Outcome /\ Outcome[r] = Seen(req[r])
  BY <1>1, OutcomeOf
<1>9. Abstract!Broadcast(r)
  BY <1>5, <1>6, <1>7, <1>8 DEF Abstract!Broadcast
<1> QED BY <1>8, <1>9 DEF Abstract!Next

LEMMA DestroyRefines ==
  ASSUME IInv, NEW t \in Threads, Destroy(t)
  PROVE  Abstract!Next
<1> DEFINE r == Top(t).r
           q == Discard(req[r])
<1>1. Top(t).op = "destroy" /\ FrameOK(Top(t), req)
  BY TopOK DEF Destroy, Running, Top
<1>2. r \in DOMAIN req /\ req[r] \in Request
  BY <1>1, TopOK DEF Destroy, Running, Pointing
<1>3. q.ip = req[r].ip /\ q.asks = req[r].asks /\ q.freed
  BY <1>2 DEF Request, Discard
<1>4. req' = [req EXCEPT ![r] = q] /\ ~req[r].freed
  BY DEF Destroy, Live
<1>5. req[r].asks >= MaxTries \/ ~req[r].linked
  BY <1>1 DEF FrameOK
<1> HIDE DEF q, r
<1>6. Seen(q) = [Seen(req[r]) EXCEPT !.state = "closed"]
  BY <1>3 DEF Seen, State
<1>7. Outcome' = [Outcome EXCEPT ![r] = Seen(q)]
  BY <1>2, <1>4, Change
<1>8. r \in DOMAIN Outcome /\ Outcome[r] = Seen(req[r])
  BY <1>2, OutcomeOf
<1>9. Outcome' = [Outcome EXCEPT ![r].state = "closed"]
  BY <1>6, <1>7, <1>8
<1>10. CASE req[r].linked
  <2>1. Outcome[r].state = "asking" /\ Outcome[r].asks >= MaxTries
    BY <1>4, <1>5, <1>8, <1>10 DEF Seen, State
  <2> QED BY <1>8, <1>9, <2>1 DEF Abstract!Next, Abstract!GiveUp
<1>11. CASE ~req[r].linked
  <2>1. Outcome[r].state = "answered"
    BY <1>4, <1>8, <1>11 DEF Seen, State
  <2> QED BY <1>8, <1>9, <2>1 DEF Abstract!Next, Abstract!Close
<1> QED BY <1>10, <1>11

\* An ARP frame: the resolution of its sender's address, if any, is answered.
LEMMA InsertRefines ==
  ASSUME IInv, NEW ip \in Ips, NEW r, Insert(ip, r)
  PROVE  Abstract!Next \/ Outcome' = Outcome
<1>1. FirstOf(QueueFor(ip), r) /\ req' = Unlink(r)
  BY DEF Insert
<1>2. CASE r = 0
  <2>1. req' = req
    BY <1>1, <1>2 DEF Unlink
  <2> QED BY <2>1 DEF Outcome, State
<1>3. CASE r # 0
  <2> DEFINE q == [req[r] EXCEPT !.linked = FALSE]
  <2>1. r \in DOMAIN req /\ req[r].linked
    BY <1>1, <1>3 DEF FirstOf, QueueFor, Linked
  <2>2. req[r] \in Request /\ ~req[r].freed
    BY <2>1, ElementOfSeq, LenProperties DEF IInv, TypeOK, RequestsOK
  <2>3. req' = [req EXCEPT ![r] = q]
    BY <1>1, <1>3 DEF Unlink
  <2>4. /\ q.ip = req[r].ip /\ q.asks = req[r].asks
        /\ ~q.linked /\ q.freed = req[r].freed
    BY <2>2 DEF Request
  <2> HIDE DEF q
  <2>5. Seen(q) = [Seen(req[r]) EXCEPT !.state = "answered"]
    BY <2>2, <2>4 DEF Seen, State
  <2>6. Outcome' = [Outcome EXCEPT ![r] = Seen(q)]
    BY <2>1, <2>3, Change
  <2>7. r \in DOMAIN Outcome /\ Outcome[r] = Seen(req[r])
    BY <2>1, OutcomeOf
  <2>8. Outcome[r].state = "asking"
    BY <2>1, <2>2, <2>7 DEF Seen, State
  <2>9. Abstract!Answer(r)
    BY <2>5, <2>6, <2>7, <2>8 DEF Abstract!Answer
  <2> QED BY <2>7, <2>9 DEF Abstract!Next
<1> QED BY <1>2, <1>3

LEMMA ReceiveRefines ==
  ASSUME IInv, NEW ip \in Ips, Receive(ip)
  PROVE  Abstract!Next \/ Outcome' = Outcome
<1>1. PICK r : Insert(ip, r)
  BY DEF Receive, ReplyUnawaited, ReplyAwaited, ReplyToOther, AskedBy
<1> QED BY <1>1, InsertRefines

\* Queueing a packet begins a resolution or joins the one there is.
LEMMA QueueRefines ==
  ASSUME IInv, NEW t \in Threads, QueueReq(t)
  PROVE  Abstract!Next \/ Outcome' = Outcome
<1> DEFINE p == Top(t).pkt
           ip == Hop(p)
<1>1. req \in Seq(Request) /\ DOMAIN req = 1..Len(req) /\ Len(req) \in Nat
  BY LenProperties DEF IInv, TypeOK
<1>2. ASSUME NEW r \in Linked, req' = [req EXCEPT ![r].pkts = @ \union {p}]
      PROVE  Outcome' = Outcome
  <2> DEFINE q == [req[r] EXCEPT !.pkts = @ \union {p}]
  <2>1. r \in DOMAIN req
    BY DEF Linked
  <2>2. req[r] \in Request
    BY <1>1, <2>1, ElementOfSeq
  <2>3. /\ q.ip = req[r].ip /\ q.asks = req[r].asks
        /\ q.linked = req[r].linked /\ q.freed = req[r].freed
    BY <2>2 DEF Request
  <2>4. req' = [req EXCEPT ![r] = q]
    BY <1>2
  <2> HIDE DEF q
  <2> QED BY <2>1, <2>3, <2>4, Stutter
<1>3. ASSUME QueueFor(ip) = {}, req' = Append(req, NewRequest(ip, p))
      PROVE  Abstract!Next
  <2> DEFINE q == NewRequest(ip, p)
             n == [ip |-> ip, asks |-> 0, state |-> "asking"]
  <2>1. ip \in Ips
    BY TopOK DEF QueueReq, Running, Top, FrameOK
  <2>2. Abstract!Asking(ip) = {}
    <3> SUFFICES ASSUME NEW r \in Abstract!Asking(ip) PROVE FALSE
      OBVIOUS
    <3>1. r \in DOMAIN Outcome /\ Outcome[r].ip = ip /\ Outcome[r].state = "asking"
      BY DEF Abstract!Asking
    <3>2. r \in DOMAIN req /\ Outcome[r] = Seen(req[r])
      BY <3>1, OutcomeOf
    <3>3. req[r].ip = ip /\ req[r].linked
      BY <3>1, <3>2 DEF Seen, State
    <3> QED BY <1>3, <3>2, <3>3 DEF QueueFor, Linked
  <2>3. Seen(q) = n
    BY DEF Seen, State, NewRequest
  <2> HIDE DEF q, n
  <2>4. /\ DOMAIN req' = 1..Len(req)+1
        /\ \A k \in 1..Len(req) : req'[k] = req[k]
        /\ req'[Len(req)+1] = q
    BY <1>1, <1>3 DEF q
  <2>5. Outcome' = [k \in 1..Len(req)+1 |->
                      IF k = Len(req)+1 THEN n ELSE Outcome[k]]
    <3>1. Outcome' = [k \in DOMAIN req' |-> Seen(req'[k])]
      BY DEF Outcome, Seen
    <3>2. \A k \in 1..Len(req)+1 :
            Seen(req'[k]) = IF k = Len(req)+1 THEN n ELSE Outcome[k]
      BY <1>1, <2>3, <2>4, OutcomeOf
    <3> QED BY <2>4, <3>1, <3>2
  <2>6. Outcome = [k \in 1..Len(req) |-> Outcome[k]]
    BY <1>1, OutcomeOf
  <2>7. Len(Outcome) = Len(req)
    BY <1>1, <2>6
  <2>8. Outcome' = Append(Outcome, n)
    <3> DEFINE S == {Outcome[k] : k \in 1..Len(req)} \union {n}
               a == Append(Outcome, n)
    <3>1. Outcome \in Seq(S) /\ n \in S
      BY <1>1, <2>6
    <3>2. /\ a \in Seq(S) /\ Len(a) = Len(req)+1 /\ a[Len(req)+1] = n
          /\ \A k \in 1..Len(req) : a[k] = Outcome[k]
      BY <2>7, <3>1, AppendProperties
    <3>3. a = [k \in 1..Len(req)+1 |-> a[k]]
      BY <3>2, LenProperties
    <3> HIDE DEF a
    <3>4. \A k \in 1..Len(req)+1 :
            a[k] = IF k = Len(req)+1 THEN n ELSE Outcome[k]
      BY <1>1, <3>2
    <3>5. Outcome' = a
      BY <2>5, <3>3, <3>4
    <3> QED BY <3>5 DEF a
  <2>9. Abstract!Begin(ip)
    BY <2>2, <2>8 DEF Abstract!Begin, n
  <2> QED BY <2>1, <2>9 DEF Abstract!Next
<1> QED BY <1>2, <1>3 DEF QueueReq

\* Steps of the clock and of the counter are not seen.
LEMMA TickRefines ==
  ASSUME IInv, Tick
  PROVE  Outcome' = Outcome
<1>1. ASSUME NEW r \in DOMAIN req
      PROVE  /\ req'[r].ip = req[r].ip /\ req'[r].asks = req[r].asks
             /\ req'[r].linked = req[r].linked /\ req'[r].freed = req[r].freed
  <2>1. req[r] \in Request
    BY <1>1, ElementOfSeq, LenProperties DEF IInv, TypeOK
  <2>2. req'[r] = [req[r] EXCEPT !.since = OneMore(@)]
    BY DEF Tick
  <2> QED BY <2>1, <2>2 DEF Request
<1>2. DOMAIN req' = DOMAIN req
  BY DEF Tick
<1> QED BY <1>1, <1>2, Stutter

LEMMA BumpRefines ==
  ASSUME IInv, NEW t \in Threads, Bump(t)
  PROVE  Outcome' = Outcome
<1> DEFINE r == Top(t).r
           q == [req[r] EXCEPT !.times = Top(t).seen + 1]
<1>1. r \in DOMAIN req /\ req[r] \in Request
  BY TopOK DEF Bump, Running, Top, Pointing
<1>2. /\ q.ip = req[r].ip /\ q.asks = req[r].asks
      /\ q.linked = req[r].linked /\ q.freed = req[r].freed
  BY <1>1 DEF Request
<1>3. req' = [req EXCEPT ![r] = q]
  BY DEF Bump
<1> HIDE DEF q, r
<1> QED BY <1>1, <1>2, <1>3, Stutter

LEMMA ProceedRefines ==
  ASSUME IInv, NEW t \in Threads, Proceed(t)
  PROVE  Abstract!Next \/ Outcome' = Outcome
<1>1. CASE QueueReq(t)
  BY <1>1, QueueRefines
<1>2. CASE Ask(t)
  BY <1>2, AskRefines
<1>3. CASE Bump(t)
  BY <1>3, BumpRefines
<1>4. CASE Destroy(t)
  BY <1>4, DestroyRefines
<1>5. CASE \/ LookupHit(t) \/ LookupMiss(t)
           \/ HandleNotYet(t) \/ HandleAsk(t) \/ HandleGiveUp(t)
           \/ ReportDone(t) \/ PendingDone(t)
           \/ UseAfterFree(t) \/ StackOverflow(t)
           \/ \E p \in Packet : \/ ReportNobody(t, p) \/ ReportSource(t, p)
                                \/ SendPending(t, p)
  <2>1. req' = req
    BY <1>5 DEF LookupHit, LookupMiss, HandleNotYet, HandleAsk, HandleGiveUp,
                ReportDone, PendingDone, UseAfterFree, StackOverflow,
                ReportNobody, ReportSource, SendPending
  <2> QED BY <2>1 DEF Outcome, State
<1> QED BY <1>1, <1>2, <1>3, <1>4, <1>5 DEF Proceed

LEMMA NextRefines ==
  ASSUME IInv, [Next]_vars
  PROVE  [Abstract!Next]_Outcome
<1>1. ASSUME NEW t \in Threads, NEW p \in Pkts, Send(t, p)
      PROVE  Outcome' = Outcome
  BY <1>1 DEF Send, Outcome, State
<1>2. CASE Sweep
  <2>1. req' = req
    BY <1>2 DEF Sweep, StartSweep, SweepNext, EndSweep
  <2> QED BY <2>1 DEF Outcome, State
<1>3. CASE UNCHANGED vars
  BY <1>3 DEF vars, Outcome, State
<1> QED BY <1>1, <1>2, <1>3, ProceedRefines, ReceiveRefines, TickRefines
     DEF Next

\* ArpCache implements ArpResolution: one resolution of an address at a time,
\* given up only after MaxTries broadcasts and closed only once it is answered
\* or given up, whatever the threads interleave.
THEOREM Refinement == Spec => ImplementsResolution
<1>1. Init => Abstract!Init
  <2> SUFFICES ASSUME Init PROVE Outcome = <<>>
    BY DEF Abstract!Init
  <2>1. req = <<>> /\ DOMAIN req = {}
    BY DEF Init
  <2> QED BY <2>1 DEF Outcome
<1>2. IInv /\ [Next]_vars => [Abstract!Next]_Outcome
  BY NextRefines
<1> QED BY <1>1, <1>2, Invariance, PTL DEF Spec, ImplementsResolution, Abstract!Spec
=============================================================================
