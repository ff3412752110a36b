-------------------------- MODULE VnsSessionProofs --------------------------
(***************************************************************************)
(* Invariants of VnsSession, for any number of vhosts, of runs of their    *)
(* routers, of interfaces, of writing threads and of frames.               *)
(***************************************************************************)
EXTENDS VnsSession, TLAPS, SequenceTheorems

-----------------------------------------------------------------------------
\* Messages

Half == [type : {"reply", "open", "template", "packet"}, what : {0} \cup Writers, part : {1, 2}]
Msg == [type : {"request", "status", "hwinfo", "packet"}, what : Nat]

Has(s, type) == \E k \in 1 .. Len(s) : s[k].type = type

\* No half of an Open is there twice.
OneOpen(s) ==
    \A j, k \in 1 .. Len(s) :
        s[j].type = "open" /\ s[k].type = "open" /\ s[j].part = s[k].part => j = k

\* Every frame comes after the hardware information.
Preceded(s) ==
    \A k \in 1 .. Len(s) :
        s[k].type = "packet" => \E j \in 1 .. Len(s) : j < k /\ s[j].type = "hwinfo"

\* Every frame is for one of n interfaces.
Named(s, n) == \A k \in 1 .. Len(s) : s[k].type = "packet" => s[k].what \in 1 .. n

Wholes(s) ==
    \A k \in 1 .. Len(s) : k % 2 = 1 => k < Len(s) /\ Halves(s[k], s[k + 1])

LEMMA EmptyHas ==
    /\ \A type : ~Has(<<>>, type)
    /\ OneOpen(<<>>) /\ Preceded(<<>>) /\ Wholes(<<>>) /\ \A n : Named(<<>>, n)
    /\ \A S : <<>> \in Seq(S)
    /\ Len(<<>>) = 0
BY EmptySeq DEF Has, OneOpen, Preceded, Named, Wholes

LEMMA AppendHas ==
    ASSUME NEW S, NEW s \in Seq(S), NEW m \in S
    PROVE  /\ Append(s, m) \in Seq(S)
           /\ Append(s, m) # <<>>
           /\ Len(Append(s, m)) = Len(s) + 1
           /\ \A type : Has(Append(s, m), type) <=> Has(s, type) \/ m.type = type
           /\ m.type # "open" /\ OneOpen(s) => OneOpen(Append(s, m))
           /\ Preceded(s) /\ (m.type # "packet" \/ Has(s, "hwinfo")) => Preceded(Append(s, m))
           /\ \A n : Named(s, n) /\ (m.type = "packet" => m.what \in 1 .. n) => Named(Append(s, m), n)
<1> DEFINE t == Append(s, m)
<1>1. /\ t \in Seq(S) /\ t # <<>> /\ Len(t) = Len(s) + 1 /\ Len(s) \in Nat
      /\ \A k \in 1 .. Len(s) : t[k] = s[k]
      /\ t[Len(s) + 1] = m
  BY AppendProperties, LenProperties
<1>2. \A k \in 1 .. Len(t) : k \in 1 .. Len(s) \/ k = Len(s) + 1
  BY <1>1
<1>3. \A k \in 1 .. Len(s) : k \in 1 .. Len(t)
  BY <1>1
<1>4. Len(s) + 1 \in 1 .. Len(t)
  BY <1>1
<1> HIDE DEF t
<1>5. \A type : Has(t, type) <=> Has(s, type) \/ m.type = type
  BY <1>1, <1>2, <1>3, <1>4 DEF Has
<1>6. m.type # "open" /\ OneOpen(s) => OneOpen(t)
  BY <1>1, <1>2 DEF OneOpen
<1>7. ASSUME Preceded(s), m.type # "packet" \/ Has(s, "hwinfo") PROVE Preceded(t)
  <2> SUFFICES ASSUME NEW k \in 1 .. Len(t), t[k].type = "packet"
               PROVE  \E j \in 1 .. Len(t) : j < k /\ t[j].type = "hwinfo"
    BY DEF Preceded
  <2>1. CASE k \in 1 .. Len(s)
    BY <1>1, <1>3, <1>7, <2>1 DEF Preceded
  <2>2. CASE k = Len(s) + 1
    <3>1. PICK j \in 1 .. Len(s) : s[j].type = "hwinfo"
      BY <1>1, <1>7, <2>2 DEF Has
    <3> QED BY <1>1, <1>3, <2>2, <3>1
  <2> QED BY <1>2, <2>1, <2>2
<1>8. \A n : Named(s, n) /\ (m.type = "packet" => m.what \in 1 .. n) => Named(t, n)
  BY <1>1, <1>2 DEF Named
<1> QED BY <1>1, <1>5, <1>6, <1>7, <1>8 DEF t

LEMMA TailHas ==
    ASSUME NEW S, NEW s \in Seq(S), s # <<>>
    PROVE  /\ Tail(s) \in Seq(S)
           /\ \A type : Has(Tail(s), type) => Has(s, type)
           /\ \A type : Has(s, type) /\ Head(s).type # type => Has(Tail(s), type)
           /\ Has(s, Head(s).type)
           /\ Preceded(s) => Head(s).type # "packet"
           /\ Preceded(s) /\ Head(s).type # "hwinfo" => Preceded(Tail(s))
           /\ \A n : Named(s, n) =>
                 Named(Tail(s), n) /\ (Head(s).type = "packet" => Head(s).what \in 1 .. n)
<1> DEFINE t == Tail(s)
<1>1. /\ t \in Seq(S) /\ Len(t) = Len(s) - 1 /\ Len(s) \in Nat /\ Len(s) > 0
      /\ \A k \in 1 .. Len(t) : t[k] = s[k + 1]
      /\ Head(s) = s[1]
  BY HeadTailProperties, LenProperties, EmptySeq
<1>2. \A k \in 1 .. Len(t) : k + 1 \in 1 .. Len(s)
  BY <1>1
<1>3. \A k \in 1 .. Len(s) : k = 1 \/ (k - 1 \in 1 .. Len(t) /\ t[k - 1] = s[k])
  BY <1>1
<1>4. 1 \in 1 .. Len(s)
  BY <1>1
<1> HIDE DEF t
<1>5. /\ \A type : Has(t, type) => Has(s, type)
      /\ \A type : Has(s, type) /\ Head(s).type # type => Has(t, type)
      /\ Has(s, Head(s).type)
  BY <1>1, <1>2, <1>3, <1>4 DEF Has
<1>6. Preceded(s) => Head(s).type # "packet"
  BY <1>1, <1>4 DEF Preceded
<1>7. ASSUME Preceded(s), Head(s).type # "hwinfo" PROVE Preceded(t)
  <2> SUFFICES ASSUME NEW k \in 1 .. Len(t), t[k].type = "packet"
               PROVE  \E j \in 1 .. Len(t) : j < k /\ t[j].type = "hwinfo"
    BY DEF Preceded
  <2>1. PICK j \in 1 .. Len(s) : j < k + 1 /\ s[j].type = "hwinfo"
    BY <1>1, <1>2, <1>7 DEF Preceded
  <2>2. j # 1
    BY <1>1, <1>7, <2>1
  <2> QED BY <1>1, <1>3, <2>1, <2>2
<1>8. \A n : Named(s, n) => Named(t, n) /\ (Head(s).type = "packet" => Head(s).what \in 1 .. n)
  BY <1>1, <1>2, <1>4 DEF Named
<1> QED BY <1>1, <1>5, <1>6, <1>7, <1>8 DEF t

\* A message is written whole.
LEMMA WholeHas ==
    ASSUME NEW s \in Seq(Half), NEW type \in {"reply", "open", "template", "packet"},
           NEW what \in {0} \cup Writers
    PROVE  /\ s \o Whole(type, what) \in Seq(Half)
           /\ Len(s \o Whole(type, what)) = Len(s) + 2
           /\ \A other : Has(s \o Whole(type, what), other) <=> Has(s, other) \/ type = other
           /\ OneOpen(s) /\ (type # "open" \/ ~Has(s, "open")) => OneOpen(s \o Whole(type, what))
           /\ Wholes(s) => Wholes(s \o Whole(type, what))
<1> DEFINE w == Whole(type, what)
           t == s \o w
<1>1. /\ w \in Seq(Half) /\ Len(w) = 2
      /\ w[1].type = type /\ w[2].type = type /\ w[1].part = 1 /\ w[2].part = 2
      /\ Halves(w[1], w[2])
  BY DEF Whole, Half, Halves
<1> HIDE DEF w
<1>2. /\ t \in Seq(Half) /\ Len(t) = Len(s) + 2 /\ Len(s) \in Nat
      /\ \A k \in 1 .. Len(s) : t[k] = s[k]
      /\ t[Len(s) + 1] = w[1] /\ t[Len(s) + 2] = w[2]
  <2>1. /\ t \in Seq(Half) /\ Len(t) = Len(s) + Len(w) /\ Len(s) \in Nat
        /\ \A k \in 1 .. Len(s) + Len(w) : t[k] = IF k <= Len(s) THEN s[k] ELSE w[k - Len(s)]
    BY <1>1, ConcatProperties, LenProperties
  <2>2. /\ Len(s) + 1 \in 1 .. Len(s) + 2 /\ Len(s) + 2 \in 1 .. Len(s) + 2
        /\ ~(Len(s) + 1 <= Len(s)) /\ ~(Len(s) + 2 <= Len(s))
        /\ Len(s) + 1 - Len(s) = 1 /\ Len(s) + 2 - Len(s) = 2
        /\ \A k \in 1 .. Len(s) : k \in 1 .. Len(s) + 2 /\ k <= Len(s)
    BY <2>1
  <2> QED BY <1>1, <2>1, <2>2
<1>3. \A k \in 1 .. Len(t) : k \in 1 .. Len(s) \/ k = Len(s) + 1 \/ k = Len(s) + 2
  BY <1>2
<1>4. (\A k \in 1 .. Len(s) : k \in 1 .. Len(t)) /\ Len(s) + 1 \in 1 .. Len(t)
  BY <1>2
<1> HIDE DEF t
<1>5. \A other : Has(t, other) <=> Has(s, other) \/ type = other
  BY <1>1, <1>2, <1>3, <1>4 DEF Has
<1>6. ASSUME OneOpen(s), type # "open" \/ ~Has(s, "open") PROVE OneOpen(t)
  <2> SUFFICES ASSUME NEW j \in 1 .. Len(t), NEW k \in 1 .. Len(t),
                      t[j].type = "open", t[k].type = "open", t[j].part = t[k].part
               PROVE  j = k
    BY DEF OneOpen
  <2>1. CASE type # "open"
    <3>1. j \in 1 .. Len(s) /\ k \in 1 .. Len(s)
      BY <1>1, <1>2, <1>3, <2>1
    <3>2. t[j] = s[j] /\ t[k] = s[k]
      BY <1>2, <3>1
    <3>3. s[j].type = "open" /\ s[k].type = "open" /\ s[j].part = s[k].part
      BY <3>2
    <3> QED BY <1>6, <3>1, <3>3 DEF OneOpen
  <2>2. CASE ~Has(s, "open")
    <3>1. \A i \in 1 .. Len(t) : t[i].type = "open" => i = Len(s) + 1 \/ i = Len(s) + 2
      BY <1>2, <1>3, <2>2 DEF Has
    <3>2. t[Len(s) + 1].part # t[Len(s) + 2].part
      BY <1>1, <1>2
    <3> QED BY <3>1, <3>2
  <2> QED BY <1>6, <2>1, <2>2
<1>7. ASSUME Wholes(s) PROVE Wholes(t)
  <2>1. Len(s) % 2 = 0
    BY <1>2, <1>7 DEF Wholes
  <2> SUFFICES ASSUME NEW k \in 1 .. Len(t), k % 2 = 1
               PROVE  k < Len(t) /\ Halves(t[k], t[k + 1])
    BY DEF Wholes
  <2>2. CASE k \in 1 .. Len(s)
    <3>1. k < Len(s) /\ Halves(s[k], s[k + 1])
      BY <1>7, <2>2 DEF Wholes
    <3>2. k + 1 \in 1 .. Len(s)
      BY <1>2, <2>2, <3>1
    <3> QED BY <1>2, <2>2, <3>1, <3>2
  <2>3. CASE k = Len(s) + 1
    BY <1>1, <1>2, <2>3
  <2>4. k # Len(s) + 2
    BY <1>2, <2>1
  <2> QED BY <1>3, <2>2, <2>3, <2>4
<1> QED BY <1>2, <1>5, <1>6, <1>7 DEF t, w

\* A message is heard.
LEMMA RestHas ==
    ASSUME NEW s \in Seq(Half), Len(s) >= 2
    PROVE  /\ SubSeq(s, 3, Len(s)) \in Seq(Half)
           /\ Len(SubSeq(s, 3, Len(s))) = Len(s) - 2
           /\ \A type : Has(SubSeq(s, 3, Len(s)), type) => Has(s, type)
           /\ Has(s, s[1].type)
           /\ OneOpen(s) => OneOpen(SubSeq(s, 3, Len(s)))
           /\ OneOpen(s) /\ s[1].type = "open" /\ s[2] = [s[1] EXCEPT !.part = 2] =>
                 ~Has(SubSeq(s, 3, Len(s)), "open")
           /\ Wholes(s) => Wholes(SubSeq(s, 3, Len(s)))
<1> DEFINE t == SubSeq(s, 3, Len(s))
<1>1. Len(s) \in Nat /\ \A k \in 1 .. Len(s) : s[k] \in Half
  BY LenProperties, ElementOfSeq
<1>2. /\ t \in Seq(Half) /\ Len(t) = Len(s) - 2
      /\ \A k \in 1 .. Len(t) : t[k] = s[k + 2]
  <2>1. 3 \in Int /\ Len(s) \in Int /\ \A k \in 3 .. Len(s) : s[k] \in Half
    BY <1>1
  <2>2. /\ t \in Seq(Half) /\ Len(t) = (IF 3 <= Len(s) THEN Len(s) - 3 + 1 ELSE 0)
        /\ \A k \in 1 .. Len(s) - 3 + 1 : t[k] = s[3 + k - 1]
    BY <2>1, SubSeqProperties
  <2> HIDE DEF t
  <2>3. Len(t) = Len(s) - 2
    <3>1. \A n \in Nat : n >= 2 => (IF 3 <= n THEN n - 3 + 1 ELSE 0) = n - 2
      OBVIOUS
    <3>2. Len(s) \in Nat
      BY <1>1
    <3> QED BY <2>2, <3>1, <3>2
  <2>4. \A k \in 1 .. Len(t) : k \in 1 .. Len(s) - 3 + 1 /\ 3 + k - 1 = k + 2
    BY <1>1, <2>3
  <2> QED BY <2>2, <2>3, <2>4
<1>3. \A k \in 1 .. Len(t) : k + 2 \in 1 .. Len(s)
  BY <1>1, <1>2
<1>4. 1 \in 1 .. Len(s) /\ 2 \in 1 .. Len(s)
  BY <1>1
<1> HIDE DEF t
<1>5. (\A type : Has(t, type) => Has(s, type)) /\ Has(s, s[1].type)
  BY <1>2, <1>3, <1>4 DEF Has
<1>6. ASSUME OneOpen(s) PROVE OneOpen(t)
  <2> SUFFICES ASSUME NEW j \in 1 .. Len(t), NEW k \in 1 .. Len(t),
                      t[j].type = "open", t[k].type = "open", t[j].part = t[k].part
               PROVE  j = k
    BY DEF OneOpen
  <2>1. j + 2 = k + 2
    BY <1>2, <1>3, <1>6 DEF OneOpen
  <2> QED BY <2>1
<1>7. ASSUME OneOpen(s), s[1].type = "open", s[2] = [s[1] EXCEPT !.part = 2], Has(t, "open")
      PROVE  FALSE
  <2>1. s[1] \in Half /\ s[2].type = "open" /\ s[2].part = 2
    BY <1>1, <1>4, <1>7 DEF Half
  <2>2. s[1].part = 1
    BY <1>4, <1>7, <2>1 DEF OneOpen, Half
  <2>3. PICK k \in 1 .. Len(t) : t[k].type = "open"
    BY <1>7 DEF Has
  <2>4. k + 2 \in 1 .. Len(s) /\ s[k + 2].type = "open" /\ s[k + 2] \in Half
    BY <1>1, <1>2, <1>3, <2>3
  <2>5. s[k + 2].part \in {1, 2}
    BY <2>4 DEF Half
  <2>6. k + 2 = 1 \/ k + 2 = 2
    BY <1>4, <1>7, <2>1, <2>2, <2>4, <2>5 DEF OneOpen
  <2> QED BY <2>6
<1>8. ASSUME Wholes(s) PROVE Wholes(t)
  <2> SUFFICES ASSUME NEW k \in 1 .. Len(t), k % 2 = 1
               PROVE  k < Len(t) /\ Halves(t[k], t[k + 1])
    BY DEF Wholes
  <2>1. k + 2 \in 1 .. Len(s) /\ (k + 2) % 2 = 1
    BY <1>3
  <2>2. k + 2 < Len(s) /\ Halves(s[k + 2], s[k + 3])
    BY <1>8, <2>1 DEF Wholes
  <2>3. k < Len(t) /\ k + 1 \in 1 .. Len(t)
    BY <1>1, <1>2, <2>2
  <2>4. t[k] = s[k + 2] /\ t[k + 1] = s[k + 3]
    BY <1>2, <2>3
  <2> QED BY <2>2, <2>3, <2>4
<1> QED BY <1>2, <1>5, <1>6, <1>7, <1>8 DEF t

-----------------------------------------------------------------------------
\* The inductive invariant

Iface == [ip : Nat, masked : BOOLEAN]
Route == [iface : Nat, masked : BOOLEAN]
States == {"off", "request", "status", "rtable", "loop", "hwinfo", "eof", "aborted", "exited", "killed"}
Stages == {"none", "sleep", "scan", "routes", "done"}

PoxTypes ==
    /\ interfaces \subseteq Vhosts
    /\ srclients \in [Vhosts -> Conns \cup {NoConn}]
    /\ opening \in Conns \cup {NoConn}

WireTypes ==
    /\ up \in [Conns -> Seq(Half)]
    /\ down \in [Conns -> Seq(Msg)]
    /\ closed \subseteq Conns

RunTypes ==
    /\ pc \in [Conns -> States]
    /\ raced \subseteq Conns /\ full \subseteq Conns /\ served \subseteq Conns /\ drowsy \subseteq Conns

ListTypes ==
    /\ ifs \in [Conns -> Seq(Iface)]
    /\ entries \in [Conns -> Nat]

SetupTypes ==
    /\ setup \in [Conns -> Stages]
    /\ at \in [Conns -> Nat] /\ id \in [Conns -> Nat]
    /\ direct \in [Conns -> SUBSET Route]

WriteTypes == half \in [Conns -> SUBSET Writers] /\ frames \in [Conns -> Nat]

Types == PoxTypes /\ WireTypes /\ RunTypes /\ ListTypes /\ SetupTypes /\ WriteTypes

\* A run that has not asked for its interfaces.
Young(c) == pc[c] \in {"off", "request", "status", "rtable"}

YoungOK(c) ==
    Young(c) => /\ ~Has(up[c], "open") /\ ~Has(down[c], "hwinfo")
                /\ opening # c /\ c \notin served /\ srclients[Owner[c]] # c

\* An Open that is on its way is the only one, and is not answered yet.
OpenOK(c) ==
    /\ OneOpen(up[c])
    /\ Has(up[c], "open") => c \notin served /\ ~Has(down[c], "hwinfo") /\ opening # c
    /\ opening = c => /\ srclients[Owner[c]] = c
                     /\ c \notin served /\ ~Has(down[c], "hwinfo")

\* A run that is registered has been told its interfaces.
ToldOK(c) ==
    srclients[Owner[c]] = c /\ opening # c /\ c \notin closed /\ Running(c) =>
        c \in served \/ Has(down[c], "hwinfo")

\* The frames for a run go to it, or to one that was stopped too early.
GoesTo(c) ==
    LET r == srclients[Owner[c]] IN r = c \/ (r # NoConn /\ ~Running(r) /\ r \notin served)

RegisteredOK(c) == Running(c) /\ (c \in served \/ Has(down[c], "hwinfo")) => GoesTo(c)

OneRun == \A c, d \in Conns : Running(c) /\ Running(d) /\ Owner[c] = Owner[d] => c = d

Owned == \A v \in Vhosts : srclients[v] \in Conns => Owner[srclients[v]] = v

SessionOK ==
    /\ OneRun /\ Owned
    /\ \A c \in Conns : YoungOK(c) /\ OpenOK(c) /\ ToldOK(c) /\ RegisteredOK(c)

\* What a young run has written: its answer, and nothing more before it is heard.
StreamOK(c) ==
    /\ pc[c] \in {"off", "request"} => up[c] = <<>>
    /\ pc[c] = "request" => ~Has(down[c], "status")
    /\ pc[c] = "status" => \/ up[c] = <<>>
                           \/ up[c] = Whole("reply", 0) /\ ~Has(down[c], "status")

\* Where frames lie in the stream to the router, and on which it aborted.
FramesOK(c) ==
    /\ c \notin raced => c \in served \/ Preceded(down[c])
    /\ Named(down[c], Len(IpsOf(c)))
    /\ pc[c] = "aborted" => c \in raced

\* The interfaces are what the handled entries say.
HardwareOK(c) ==
    /\ c \notin served => entries[c] = 0
    /\ entries[c] <= 3 * Len(IpsOf(c))
    /\ Len(ifs[c]) = (entries[c] + 2) \div 3
    /\ \A i \in 1 .. Len(ifs[c]) :
          /\ 3 * i - 1 <= entries[c] => ifs[c][i].ip = IpsOf(c)[i]
          /\ 3 * i <= entries[c] => ifs[c][i].masked = TRUE
    /\ pc[c] = "hwinfo" => c \in served
    /\ pc[c] = "loop" /\ c \in served => Complete(c)

WritingOK(c) ==
    /\ Len(up[c]) <= Room
    /\ c \notin full => Wholes(up[c]) /\ half[c] = {}
    /\ c \notin served => half[c] = {}

\* ip is one of the addresses of the first n interfaces, and the highest of them.
IsHighest(c, ip, n) ==
    /\ \E i \in 1 .. Len(IpsOf(c)) : ip = IpsOf(c)[i]
    /\ \A i \in 1 .. n : ip >= IpsOf(c)[i]

Directs(n) == {[iface |-> i, masked |-> TRUE] : i \in 1 .. n}

SetupOK(c) ==
    /\ Young(c) => setup[c] = "none"
    /\ setup[c] \in {"none", "sleep"} => id[c] = 0
    /\ setup[c] \in {"none", "sleep", "scan"} => direct[c] = {}
    /\ setup[c] \in {"routes", "done"} => id[c] # 0
    /\ setup[c] \in {"scan", "routes"} => at[c] # 0
    /\ c \notin drowsy =>
          /\ setup[c] \in {"scan", "routes", "done"} => Complete(c)
          /\ setup[c] \in {"scan", "routes"} => at[c] \in 1 .. Len(IpsOf(c)) + 1
          /\ setup[c] = "scan" => \/ id[c] = 0 /\ at[c] = 1
                                  \/ IsHighest(c, id[c], at[c] - 1)
          /\ setup[c] \in {"routes", "done"} => IsHighest(c, id[c], Len(IpsOf(c)))
          /\ setup[c] = "routes" => direct[c] = Directs(at[c] - 1)
          /\ setup[c] = "done" => direct[c] = Directs(Len(IpsOf(c)))

IInv ==
    /\ Types
    /\ SessionOK
    /\ \A c \in Conns : StreamOK(c) /\ FramesOK(c) /\ HardwareOK(c) /\ WritingOK(c) /\ SetupOK(c)

-----------------------------------------------------------------------------
\* The session

\* What most steps do to a run c: it does not start, ask or get older than it is, and
\* keeps the hardware information that waits for it while it runs.
Calm(c) ==
    /\ Running(c)' => Running(c)
    /\ Young(c)' => Young(c)
    /\ Has(up[c], "open")' => Has(up[c], "open")
    /\ OneOpen(up[c])'
    /\ Has(down[c], "hwinfo")' => Has(down[c], "hwinfo")
    /\ Running(c)' /\ Has(down[c], "hwinfo") => Has(down[c], "hwinfo")'

LEMMA CalmSession ==
    ASSUME Types, SessionOK, UNCHANGED <<srclients, opening, served>>, closed \subseteq closed',
           \A c \in Conns : Calm(c)
    PROVE  SessionOK'
<1>1. OneRun'
  BY DEF SessionOK, OneRun, Calm
<1>2. Owned'
  BY DEF SessionOK, Owned
<1>3. ASSUME NEW c \in Conns PROVE YoungOK(c)' /\ OpenOK(c)' /\ ToldOK(c)'
  <2>1. YoungOK(c) /\ OpenOK(c) /\ ToldOK(c) /\ Calm(c)
    BY DEF SessionOK
  <2>2. YoungOK(c)'
    BY <2>1 DEF YoungOK, Calm
  <2>3. OpenOK(c)'
    BY <2>1 DEF OpenOK, Calm
  <2>4. ToldOK(c)'
    BY <2>1 DEF ToldOK, Calm
  <2> QED BY <2>2, <2>3, <2>4
<1>4. ASSUME NEW c \in Conns PROVE RegisteredOK(c)'
  <2>1. RegisteredOK(c) /\ Calm(c)
    BY DEF SessionOK
  <2>2. srclients[Owner[c]] \in Conns \cup {NoConn}
    BY OwnerAssumption DEF Types, PoxTypes
  <2>3. GoesTo(c) => GoesTo(c)'
    <3>1. srclients[Owner[c]] # NoConn => Calm(srclients[Owner[c]])
      BY <2>2
    <3> QED BY <3>1 DEF GoesTo, Calm
  <2> QED BY <2>1, <2>3 DEF RegisteredOK, Calm
<1> QED BY <1>1, <1>2, <1>3, <1>4 DEF SessionOK

\* conn.send
LEMMA SendHas ==
    ASSUME WireTypes, NEW c \in Conns, NEW m \in Msg, down' = Send(c, m)
    PROVE  /\ down' \in [Conns -> Seq(Msg)]
           /\ \A d \in Conns :
                 \/ down'[d] = down[d]
                 \/ d = c /\ Running(c) /\ c \notin closed /\ down'[d] = Append(down[d], m)
           /\ Running(c) /\ c \notin closed => down'[c] = Append(down[c], m)
           /\ \A d \in Conns : \A type :
                 /\ Has(down'[d], type) => Has(down[d], type) \/ (d = c /\ m.type = type)
                 /\ Has(down[d], type) => Has(down'[d], type)
<1>1. down \in [Conns -> Seq(Msg)] /\ down[c] \in Seq(Msg)
  BY DEF WireTypes
<1>2. /\ Append(down[c], m) \in Seq(Msg)
      /\ \A type : Has(Append(down[c], m), type) <=> Has(down[c], type) \/ m.type = type
  BY <1>1, AppendHas
<1>3. down' = down \/ (Running(c) /\ c \notin closed /\ down' = [down EXCEPT ![c] = Append(@, m)])
  BY DEF Send
<1>4. Running(c) /\ c \notin closed => down' = [down EXCEPT ![c] = Append(@, m)]
  BY DEF Send
<1> QED BY <1>1, <1>2, <1>3, <1>4

LEMMA ReadHas ==
    ASSUME WireTypes, NEW c \in Conns, Read(c), NEW state, NEW kind, Reads(c, state, kind)
    PROVE  /\ down' \in [Conns -> Seq(Msg)]
           /\ down'[c] = Tail(down[c])
           /\ \A d \in Conns : d # c => down'[d] = down[d]
           /\ \A d \in Conns : \A type :
                 /\ Has(down'[d], type) => Has(down[d], type)
                 /\ Has(down[d], type) /\ (d = c => kind # type) => Has(down'[d], type)
           /\ Has(down[c], kind)
<1>1. /\ down \in [Conns -> Seq(Msg)] /\ down[c] \in Seq(Msg) /\ down[c] # <<>>
      /\ Head(down[c]).type = kind
      /\ down' = [down EXCEPT ![c] = Tail(@)]
  BY DEF WireTypes, Reads, Read
<1>2. /\ Tail(down[c]) \in Seq(Msg)
      /\ \A type : Has(Tail(down[c]), type) => Has(down[c], type)
      /\ \A type : Has(down[c], type) /\ kind # type => Has(Tail(down[c]), type)
      /\ Has(down[c], kind)
  BY <1>1, TailHas
<1> QED BY <1>1, <1>2

LEMMA HeardHas ==
    ASSUME WireTypes, NEW c \in Conns, NEW kind, Heard(c, kind), Take(c)
    PROVE  /\ up' \in [Conns -> Seq(Half)]
           /\ up'[c] = SubSeq(up[c], 3, Len(up[c]))
           /\ \A d \in Conns : d # c => up'[d] = up[d]
           /\ \A d \in Conns : \A type : Has(up'[d], type) => Has(up[d], type)
           /\ Has(up[c], kind)
           /\ \A d \in Conns : OneOpen(up[d]) => OneOpen(up'[d])
           /\ OneOpen(up[c]) /\ kind = "open" => ~Has(up'[c], "open")
           /\ Len(up'[c]) <= Len(up[c])
           /\ Wholes(up[c]) => Wholes(up'[c])
<1>1. /\ up \in [Conns -> Seq(Half)] /\ up[c] \in Seq(Half) /\ Len(up[c]) >= 2
      /\ up[c][1].type = kind /\ up[c][2] = [up[c][1] EXCEPT !.part = 2]
      /\ up' = [up EXCEPT ![c] = SubSeq(@, 3, Len(@))]
  BY DEF WireTypes, Heard, Take
<1> DEFINE rest == SubSeq(up[c], 3, Len(up[c]))
<1>2. /\ rest \in Seq(Half) /\ Len(rest) = Len(up[c]) - 2
      /\ \A type : Has(rest, type) => Has(up[c], type)
      /\ Has(up[c], kind)
      /\ OneOpen(up[c]) => OneOpen(rest)
      /\ OneOpen(up[c]) /\ kind = "open" => ~Has(rest, "open")
      /\ Wholes(up[c]) => Wholes(rest)
  BY <1>1, RestHas
<1>3. up'[c] = rest /\ up' \in [Conns -> Seq(Half)] /\ \A d \in Conns : d # c => up'[d] = up[d]
  BY <1>1, <1>2
<1>4. Len(rest) <= Len(up[c])
  BY <1>1, <1>2, LenProperties
<1> HIDE DEF rest
<1> QED BY <1>2, <1>3, <1>4 DEF rest

\* What a young run has written is not an Open, nor a frame.
LEMMA YoungHeard ==
    ASSUME NEW c, StreamOK(c), pc[c] \in {"off", "request", "status"}, NEW kind, Heard(c, kind)
    PROVE  pc[c] = "status" /\ kind = "reply" /\ up[c] = Whole("reply", 0)
BY EmptySeq DEF StreamOK, Heard, Whole

-----------------------------------------------------------------------------
\* What a step leaves alone

LEMMA StreamKeeps ==
    ASSUME NEW d, StreamOK(d),
           pc'[d] \in {"off", "request", "status"} =>
               /\ pc'[d] = pc[d] /\ up'[d] = up[d]
               /\ Has(down[d], "status")' => Has(down[d], "status")
    PROVE  StreamOK(d)'
BY DEF StreamOK, Whole

LEMMA FramesKeeps ==
    ASSUME NEW d, FramesOK(d), down'[d] = down[d], raced' = raced, served \subseteq served',
           pc'[d] = "aborted" => pc[d] = "aborted"
    PROVE  FramesOK(d)'
BY DEF FramesOK, Preceded, Named, IpsOf

LEMMA HardwareKeeps ==
    ASSUME NEW d, HardwareOK(d), ifs'[d] = ifs[d], entries'[d] = entries[d], served' = served,
           pc'[d] \in {"loop", "hwinfo"} => pc'[d] = pc[d]
    PROVE  HardwareOK(d)'
BY DEF HardwareOK, Complete, IpsOf

LEMMA WritingKeeps ==
    ASSUME NEW d, WritingOK(d), up'[d] = up[d], half'[d] = half[d], full' = full, served' = served
    PROVE  WritingOK(d)'
BY DEF WritingOK, Wholes, Halves

LEMMA SetupKeeps ==
    ASSUME NEW d, SetupOK(d), setup'[d] = setup[d], at'[d] = at[d], id'[d] = id[d],
           direct'[d] = direct[d], drowsy' = drowsy, entries'[d] = entries[d],
           Young(d)' => Young(d)
    PROVE  SetupOK(d)'
BY DEF SetupOK, Complete, IpsOf, IsHighest, Directs

LEMMA CalmKeeps ==
    ASSUME NEW d, OneOpen(up[d]), pc'[d] = pc[d], up'[d] = up[d], down'[d] = down[d]
    PROVE  Calm(d)
BY DEF Calm, Running, Young, OneOpen, Has

\* The invariant after a step, run by run.
LEMMA Together ==
    ASSUME Types', SessionOK',
           \A d \in Conns : StreamOK(d)' /\ FramesOK(d)' /\ HardwareOK(d)' /\ WritingOK(d)' /\ SetupOK(d)'
    PROVE  IInv'
BY DEF IInv

\* What is left of a stream after a message was heard.
LEMMA WritingHears ==
    ASSUME IInv, NEW c \in Conns, NEW kind, Heard(c, kind), Take(c), UNCHANGED <<half, full, served>>,
           NEW d \in Conns
    PROVE  WritingOK(d)'
<1>1. WritingOK(d) /\ WireTypes
  BY DEF IInv, Types
<1>2. /\ up' \in [Conns -> Seq(Half)]
      /\ d # c => up'[d] = up[d]
      /\ Len(up'[c]) <= Len(up[c])
      /\ Wholes(up[c]) => Wholes(up'[c])
  BY <1>1, HeardHas
<1>3. CASE d # c
  BY <1>1, <1>2, <1>3, WritingKeeps
<1>4. CASE d = c
  <2>1. Len(up[c]) \in Nat /\ Len(up'[c]) \in Nat /\ Room \in Nat
    BY <1>1, <1>2, LenProperties, BoundsAssumption DEF WireTypes
  <2>2. /\ Len(up[c]) <= Room
        /\ c \notin full => Wholes(up[c]) /\ half[c] = {}
        /\ c \notin served => half[c] = {}
    BY <1>1, <1>4 DEF WritingOK
  <2>3. Len(up'[c]) <= Room
    BY <1>2, <2>1, <2>2
  <2> QED BY <1>2, <1>4, <2>2, <2>3 DEF WritingOK, Wholes, Halves
<1> QED BY <1>3, <1>4

\* A young run is heard to answer only.
LEMMA StreamHears ==
    ASSUME IInv, NEW c \in Conns, NEW kind, Heard(c, kind), Take(c), kind # "reply",
           UNCHANGED pc, NEW d \in Conns,
           Has(down[d], "status")' => Has(down[d], "status")
    PROVE  StreamOK(d)'
<1>1. StreamOK(d) /\ WireTypes
  BY DEF IInv, Types
<1>2. d # c => up'[d] = up[d]
  BY <1>1, HeardHas
<1>3. d # c \/ pc[d] \notin {"off", "request", "status"}
  BY <1>1, YoungHeard
<1> QED BY <1>1, <1>2, <1>3, StreamKeeps

\* What POX sends, but frames, leaves every frame after the hardware information.
LEMMA FramesSent ==
    ASSUME IInv, NEW c \in Conns, NEW m \in Msg, m.type # "packet", down' = Send(c, m),
           UNCHANGED <<pc, raced, served>>, NEW d \in Conns
    PROVE  FramesOK(d)'
<1>1. FramesOK(d) /\ WireTypes /\ down[d] \in Seq(Msg)
  BY DEF IInv, Types, WireTypes
<1>2. down'[d] = down[d] \/ down'[d] = Append(down[d], m)
  BY <1>1, SendHas
<1>3. CASE down'[d] = down[d]
  BY <1>1, <1>3, FramesKeeps
<1>4. CASE down'[d] = Append(down[d], m)
  <2>1. /\ Preceded(down[d]) => Preceded(down'[d])
        /\ Named(down[d], Len(IpsOf(d))) => Named(down'[d], Len(IpsOf(d)))
    BY <1>1, <1>4, AppendHas
  <2> QED BY <1>1, <2>1 DEF FramesOK, Preceded, Named, IpsOf
<1> QED BY <1>2, <1>3, <1>4

-----------------------------------------------------------------------------
\* POX

LEMMA SwitchUpOK ==
    ASSUME IInv, NEW v \in Vhosts, SwitchUp(v)
    PROVE  IInv'
<1>1. UNCHANGED <<srclients, opening, up, down, closed, pc, ifs, entries, served, setup, at, id,
                  direct, drowsy, half, frames, full, raced>>
  BY DEF SwitchUp, wires, list, pwospf, writing
<1>2. Types'
  BY <1>1 DEF SwitchUp, IInv, Types, PoxTypes, WireTypes, RunTypes, ListTypes, SetupTypes, WriteTypes
<1>3. \A d \in Conns : Calm(d)
  BY <1>1, CalmKeeps DEF IInv, SessionOK, OpenOK
<1>4. SessionOK'
  BY <1>1, <1>3, CalmSession DEF IInv
<1>5. \A d \in Conns : StreamOK(d)' /\ FramesOK(d)' /\ HardwareOK(d)' /\ WritingOK(d)' /\ SetupOK(d)'
  <2> SUFFICES ASSUME NEW d \in Conns
               PROVE  StreamOK(d)' /\ FramesOK(d)' /\ HardwareOK(d)' /\ WritingOK(d)' /\ SetupOK(d)'
    OBVIOUS
  <2>1. StreamOK(d) /\ FramesOK(d) /\ HardwareOK(d) /\ WritingOK(d) /\ SetupOK(d)
    BY DEF IInv
  <2>2. StreamOK(d)' /\ FramesOK(d)'
    BY <1>1, <2>1, StreamKeeps, FramesKeeps DEF Has
  <2>3. HardwareOK(d)' /\ WritingOK(d)' /\ SetupOK(d)'
    BY <1>1, <2>1, HardwareKeeps, WritingKeeps, SetupKeeps DEF Young
  <2> QED BY <2>2, <2>3
<1> QED BY <1>2, <1>4, <1>5, Together

LEMMA AuthReplyOK ==
    ASSUME IInv, NEW c \in Conns, AuthReply(c)
    PROVE  IInv'
<1> DEFINE m == Message("status", 0)
<1>1. /\ Heard(c, "reply") /\ Take(c) /\ down' = Send(c, m)
      /\ UNCHANGED <<interfaces, srclients, opening, closed, pc, ifs, entries, served, setup, at,
                     id, direct, drowsy, half, frames, full, raced>>
  BY DEF AuthReply, pox, list, pwospf, writing
<1>2. m \in Msg /\ m.type = "status" /\ Types
  BY DEF Message, Msg, IInv
<1>3. /\ up' \in [Conns -> Seq(Half)]
      /\ \A d \in Conns : d # c => up'[d] = up[d]
      /\ \A d \in Conns : \A type : Has(up'[d], type) => Has(up[d], type)
      /\ \A d \in Conns : OneOpen(up[d]) => OneOpen(up'[d])
      /\ up'[c] = SubSeq(up[c], 3, Len(up[c]))
  BY <1>1, <1>2, HeardHas DEF Types
<1> HIDE DEF m
<1>4. /\ down' \in [Conns -> Seq(Msg)]
      /\ \A d \in Conns : d # c => down'[d] = down[d]
      /\ \A d \in Conns : \A type :
            /\ Has(down'[d], type) => Has(down[d], type) \/ (d = c /\ type = "status")
            /\ Has(down[d], type) => Has(down'[d], type)
  BY <1>1, <1>2, SendHas DEF Types
<1>5. Types'
  BY <1>1, <1>2, <1>3, <1>4
     DEF Types, PoxTypes, WireTypes, RunTypes, ListTypes, SetupTypes, WriteTypes
<1>6. \A d \in Conns : Calm(d)
  <2> SUFFICES ASSUME NEW d \in Conns PROVE Calm(d)
    OBVIOUS
  <2>1. OneOpen(up[d]) /\ pc'[d] = pc[d]
    BY <1>1 DEF IInv, SessionOK, OpenOK
  <2> QED BY <1>3, <1>4, <2>1 DEF Calm, Running, Young
<1>7. SessionOK'
  BY <1>1, <1>2, <1>6, CalmSession DEF IInv
<1>8. \A d \in Conns : StreamOK(d)' /\ FramesOK(d)' /\ HardwareOK(d)' /\ WritingOK(d)' /\ SetupOK(d)'
  <2> SUFFICES ASSUME NEW d \in Conns
               PROVE  StreamOK(d)' /\ FramesOK(d)' /\ HardwareOK(d)' /\ WritingOK(d)' /\ SetupOK(d)'
    OBVIOUS
  <2>1. StreamOK(d) /\ FramesOK(d) /\ HardwareOK(d) /\ WritingOK(d) /\ SetupOK(d)
    BY DEF IInv
  <2>2. HardwareOK(d)' /\ SetupOK(d)'
    BY <1>1, <2>1, HardwareKeeps, SetupKeeps DEF Young
  <2>3. WritingOK(d)' /\ FramesOK(d)'
    BY <1>1, <1>2, WritingHears, FramesSent
  <2>4. StreamOK(d)'
    <3>1. CASE d # c \/ pc[d] \notin {"off", "request", "status"}
      BY <1>1, <1>3, <1>4, <2>1, <3>1, StreamKeeps DEF Has
    <3>2. CASE d = c /\ pc[d] \in {"off", "request", "status"}
      <4>1. pc[c] = "status" /\ up[c] = Whole("reply", 0)
        BY <1>1, <2>1, <3>2, YoungHeard
      <4>2. up'[c] = <<>>
        BY <1>3, <4>1 DEF Whole
      <4> QED BY <1>1, <3>2, <4>1, <4>2 DEF StreamOK
    <3> QED BY <3>1, <3>2
  <2> QED BY <2>2, <2>3, <2>4
<1> QED BY <1>5, <1>7, <1>8, Together

\* The connection is registered before the Open is answered.
LEMMA OpenOpens ==
    ASSUME IInv, NEW c \in Conns, Open(c)
    PROVE  IInv'
<1>1. /\ Heard(c, "open") /\ Take(c) /\ opening = NoConn
      /\ srclients' = [srclients EXCEPT ![Owner[c]] = c] /\ opening' = c
      /\ UNCHANGED <<interfaces, down, closed, pc, ifs, entries, served, setup, at,
                     id, direct, drowsy, half, frames, full, raced>>
  BY DEF Open, Heard, list, pwospf, writing
<1>2. Types /\ Owner[c] \in Vhosts /\ c # NoConn
  BY OwnerAssumption DEF IInv
<1>3. /\ up' \in [Conns -> Seq(Half)]
      /\ \A d \in Conns : d # c => up'[d] = up[d]
      /\ \A d \in Conns : \A type : Has(up'[d], type) => Has(up[d], type)
      /\ \A d \in Conns : OneOpen(up[d]) => OneOpen(up'[d])
      /\ Has(up[c], "open")
      /\ OneOpen(up[c]) => ~Has(up'[c], "open")
  BY <1>1, <1>2, HeardHas DEF Types
<1>4. Types'
  BY <1>1, <1>2, <1>3
     DEF Types, PoxTypes, WireTypes, RunTypes, ListTypes, SetupTypes, WriteTypes
<1>5. \A d \in Conns : YoungOK(d) /\ OpenOK(d) /\ ToldOK(d) /\ RegisteredOK(d)
  BY DEF IInv, SessionOK
<1>6. c \notin served /\ ~Has(down[c], "hwinfo") /\ ~Young(c) /\ ~Has(up'[c], "open")
  BY <1>3, <1>5 DEF YoungOK, OpenOK
<1>7. \A d \in Conns : srclients'[Owner[d]] = IF Owner[d] = Owner[c] THEN c ELSE srclients[Owner[d]]
  BY <1>1, <1>2, OwnerAssumption DEF Types, PoxTypes
<1>8. SessionOK'
  <2>1. OneRun'
    BY <1>1 DEF IInv, SessionOK, OneRun, Running
  <2>2. Owned'
    BY <1>1, <1>2 DEF IInv, SessionOK, Owned, Types, PoxTypes
  <2>3. ASSUME NEW d \in Conns PROVE YoungOK(d)' /\ OpenOK(d)'
    <3>1. YoungOK(d) /\ OpenOK(d) /\ Young(d)' = Young(d)
      BY <1>1, <1>5 DEF Young
    <3>2. YoungOK(d)'
      BY <1>1, <1>3, <1>6, <1>7, <3>1 DEF YoungOK, Young
    <3>3. OpenOK(d)'
      BY <1>1, <1>3, <1>6, <1>7, <3>1 DEF OpenOK
    <3> QED BY <3>2, <3>3
  <2>4. ASSUME NEW d \in Conns PROVE ToldOK(d)'
    BY <1>1, <1>5, <1>7, OwnerAssumption DEF ToldOK, Running
  <2>5. ASSUME NEW d \in Conns PROVE RegisteredOK(d)'
    <3> SUFFICES ASSUME Running(d), d \in served \/ Has(down[d], "hwinfo") PROVE GoesTo(d)'
      BY <1>1 DEF RegisteredOK, Running
    <3>1. GoesTo(d) /\ d # c
      BY <1>5, <1>6 DEF RegisteredOK
    <3>2. CASE Owner[d] = Owner[c]
      <4>1. ~Running(c)
        BY <3>1, <3>2 DEF IInv, SessionOK, OneRun
      <4> QED BY <1>1, <1>2, <1>6, <1>7, <3>2, <4>1 DEF GoesTo, Running
    <3>3. CASE Owner[d] # Owner[c]
      BY <1>1, <1>7, <3>1, <3>3 DEF GoesTo, Running
    <3> QED BY <3>2, <3>3
  <2> QED BY <2>1, <2>2, <2>3, <2>4, <2>5 DEF SessionOK
<1>9. \A d \in Conns : StreamOK(d)' /\ FramesOK(d)' /\ HardwareOK(d)' /\ WritingOK(d)' /\ SetupOK(d)'
  <2> SUFFICES ASSUME NEW d \in Conns
               PROVE  StreamOK(d)' /\ FramesOK(d)' /\ HardwareOK(d)' /\ WritingOK(d)' /\ SetupOK(d)'
    OBVIOUS
  <2>1. StreamOK(d) /\ FramesOK(d) /\ HardwareOK(d) /\ WritingOK(d) /\ SetupOK(d)
    BY DEF IInv
  <2>2. HardwareOK(d)' /\ SetupOK(d)'
    BY <1>1, <2>1, HardwareKeeps, SetupKeeps DEF Young
  <2>3. WritingOK(d)' /\ FramesOK(d)'
    BY <1>1, <2>1, WritingHears, FramesKeeps
  <2>4. StreamOK(d)'
    BY <1>1, StreamHears DEF Has
  <2> QED BY <2>2, <2>3, <2>4
<1> QED BY <1>4, <1>8, <1>9, Together

\* The answer, or none: an exception closes the connection.
LEMMA OpenAnswerOK ==
    ASSUME IInv, NEW c \in Conns, OpenAnswer(c)
    PROVE  IInv'
<1> DEFINE m == Message("hwinfo", 0)
<1>1. /\ opening = c /\ opening' = NoConn
      /\ UNCHANGED <<interfaces, srclients, up, pc, ifs, entries, served, setup, at,
                     id, direct, drowsy, half, frames, full, raced>>
      /\ \/ down' = Send(c, m) /\ closed' = closed
         \/ down' = down /\ closed' = closed \cup {c}
  BY DEF OpenAnswer, Raise, list, pwospf, writing
<1>2. m \in Msg /\ m.type = "hwinfo" /\ Types /\ c # NoConn
  BY OwnerAssumption DEF Message, Msg, IInv
<1> HIDE DEF m
<1>3. /\ down' \in [Conns -> Seq(Msg)]
      /\ \A d \in Conns : d # c => down'[d] = down[d]
      /\ \A d \in Conns : \A type :
            /\ Has(down'[d], type) => Has(down[d], type) \/ (d = c /\ type = "hwinfo" /\ Running(c))
            /\ Has(down[d], type) => Has(down'[d], type)
      /\ Running(c) /\ c \notin closed' => Has(down'[c], "hwinfo")
  <2>1. CASE down' = down /\ closed' = closed \cup {c}
    BY <1>2, <2>1 DEF Types, WireTypes
  <2>2. CASE down' = Send(c, m) /\ closed' = closed
    <3>1. /\ down' \in [Conns -> Seq(Msg)]
          /\ \A d \in Conns :
                \/ down'[d] = down[d]
                \/ d = c /\ Running(c) /\ c \notin closed /\ down'[d] = Append(down[d], m)
          /\ Running(c) /\ c \notin closed => down'[c] = Append(down[c], m)
      BY <1>2, <2>2, SendHas DEF Types
    <3>2. \A type : Has(Append(down[c], m), type) <=> Has(down[c], type) \/ m.type = type
      <4>1. down[c] \in Seq(Msg)
        BY <1>2 DEF Types, WireTypes
      <4> QED BY <1>2, <4>1, AppendHas
    <3> QED BY <1>2, <2>2, <3>1, <3>2
  <2> QED BY <1>1, <2>1, <2>2
<1>4. Types'
  <2>1. closed' \subseteq Conns
    BY <1>1, <1>2 DEF Types, WireTypes
  <2> QED BY <1>1, <1>2, <1>3, <2>1
     DEF Types, PoxTypes, WireTypes, RunTypes, ListTypes, SetupTypes, WriteTypes
<1>5. \A d \in Conns : YoungOK(d) /\ OpenOK(d) /\ ToldOK(d) /\ RegisteredOK(d)
  BY DEF IInv, SessionOK
<1>6. /\ c \notin served /\ ~Young(c) /\ ~Has(up[c], "open") /\ srclients[Owner[c]] = c
      /\ \A d \in Conns : Running(d)' = Running(d) /\ Young(d)' = Young(d)
      /\ \A d \in Conns : opening' # d
  BY <1>1, <1>5, OwnerAssumption DEF YoungOK, OpenOK, Running, Young
<1>7. SessionOK'
  <2>1. OneRun' /\ Owned'
    BY <1>1, <1>6 DEF IInv, SessionOK, OneRun, Owned
  <2>2. ASSUME NEW d \in Conns PROVE YoungOK(d)'
    BY <1>1, <1>3, <1>5, <1>6 DEF YoungOK
  <2>3. ASSUME NEW d \in Conns PROVE OpenOK(d)'
    BY <1>1, <1>3, <1>5, <1>6 DEF OpenOK
  <2>4. ASSUME NEW d \in Conns PROVE ToldOK(d)'
    BY <1>1, <1>3, <1>5, <1>6 DEF ToldOK
  <2>5. ASSUME NEW d \in Conns PROVE RegisteredOK(d)'
    <3>1. GoesTo(d) => GoesTo(d)'
      <4>1. srclients[Owner[d]] \in Conns \cup {NoConn}
        BY <1>2, OwnerAssumption DEF Types, PoxTypes
      <4> QED BY <1>1, <1>6, <4>1 DEF GoesTo
    <3>2. d = c => GoesTo(d)
      BY <1>6 DEF GoesTo
    <3> QED BY <1>1, <1>3, <1>5, <1>6, <3>1, <3>2 DEF RegisteredOK
  <2> QED BY <2>1, <2>2, <2>3, <2>4, <2>5 DEF SessionOK
<1>8. \A d \in Conns : StreamOK(d)' /\ FramesOK(d)' /\ HardwareOK(d)' /\ WritingOK(d)' /\ SetupOK(d)'
  <2> SUFFICES ASSUME NEW d \in Conns
               PROVE  StreamOK(d)' /\ FramesOK(d)' /\ HardwareOK(d)' /\ WritingOK(d)' /\ SetupOK(d)'
    OBVIOUS
  <2>1. StreamOK(d) /\ FramesOK(d) /\ HardwareOK(d) /\ WritingOK(d) /\ SetupOK(d)
    BY DEF IInv
  <2>2. HardwareOK(d)' /\ WritingOK(d)' /\ SetupOK(d)'
    BY <1>1, <2>1, HardwareKeeps, WritingKeeps, SetupKeeps DEF Young
  <2>3. FramesOK(d)'
    <3>1. CASE down' = down
      BY <1>1, <2>1, <3>1, FramesKeeps
    <3>2. CASE down' = Send(c, m)
      BY <1>1, <1>2, <3>2, FramesSent
    <3> QED BY <1>1, <3>1, <3>2
  <2>4. StreamOK(d)'
    BY <1>1, <1>3, <2>1, StreamKeeps
  <2> QED BY <2>2, <2>3, <2>4
<1> QED BY <1>4, <1>7, <1>8, Together

\* A message that POX hears and does not answer, or that raises.
LEMMA HearsOK ==
    ASSUME IInv, NEW c \in Conns, NEW kind, kind # "reply", Heard(c, kind), Take(c),
           closed \subseteq closed', closed' \subseteq Conns,
           UNCHANGED <<pox, down, pc, list, pwospf, writing, raced>>
    PROVE  IInv'
<1>1. UNCHANGED <<interfaces, srclients, opening, down, pc, ifs, entries, served, setup, at,
                  id, direct, drowsy, half, frames, full, raced>>
  BY DEF pox, list, pwospf, writing
<1>2. /\ up' \in [Conns -> Seq(Half)]
      /\ \A d \in Conns : \A type : Has(up'[d], type) => Has(up[d], type)
      /\ \A d \in Conns : OneOpen(up[d]) => OneOpen(up'[d])
  BY HeardHas DEF IInv, Types
<1>3. Types'
  BY <1>1, <1>2 DEF IInv, Types, PoxTypes, WireTypes, RunTypes, ListTypes, SetupTypes, WriteTypes
<1>4. ASSUME NEW d \in Conns PROVE Calm(d)
  <2>1. OneOpen(up[d])
    BY DEF IInv, SessionOK, OpenOK
  <2>2. Running(d)' = Running(d) /\ Young(d)' = Young(d) /\ Has(down[d], "hwinfo")' = Has(down[d], "hwinfo")
    BY <1>1 DEF Running, Young, Has
  <2> QED BY <1>2, <2>1, <2>2 DEF Calm
<1>5. SessionOK'
  BY <1>1, <1>4, CalmSession DEF IInv
<1>6. \A d \in Conns : StreamOK(d)' /\ FramesOK(d)' /\ HardwareOK(d)' /\ WritingOK(d)' /\ SetupOK(d)'
  <2> SUFFICES ASSUME NEW d \in Conns
               PROVE  StreamOK(d)' /\ FramesOK(d)' /\ HardwareOK(d)' /\ WritingOK(d)' /\ SetupOK(d)'
    OBVIOUS
  <2>1. StreamOK(d) /\ FramesOK(d) /\ HardwareOK(d) /\ WritingOK(d) /\ SetupOK(d)
    BY DEF IInv
  <2>2. HardwareOK(d)' /\ SetupOK(d)' /\ FramesOK(d)'
    BY <1>1, <2>1, HardwareKeeps, SetupKeeps, FramesKeeps DEF Young
  <2>3. WritingOK(d)'
    BY <1>1, WritingHears
  <2>4. StreamOK(d)'
    BY <1>1, StreamHears DEF Has
  <2> QED BY <2>2, <2>3, <2>4
<1> QED BY <1>3, <1>5, <1>6, Together

LEMMA OpenTemplateOK ==
    ASSUME IInv, NEW c \in Conns, OpenTemplate(c)
    PROVE  IInv'
<1>1. closed \subseteq closed' /\ closed' \subseteq Conns
  BY DEF OpenTemplate, Raise, IInv, Types, WireTypes
<1> QED BY <1>1, HearsOK DEF OpenTemplate

LEMMA PacketOutOK ==
    ASSUME IInv, NEW c \in Conns, PacketOut(c)
    PROVE  IInv'
<1>1. closed \subseteq closed' /\ closed' \subseteq Conns
  BY DEF PacketOut, IInv, Types, WireTypes
<1> QED BY <1>1, HearsOK DEF PacketOut

-----------------------------------------------------------------------------
\* Steps of one run

\* A step that is none of the run d's.
Apart(d) ==
    /\ pc'[d] = pc[d] /\ up'[d] = up[d] /\ down'[d] = down[d]
    /\ ifs'[d] = ifs[d] /\ entries'[d] = entries[d]
    /\ setup'[d] = setup[d] /\ at'[d] = at[d] /\ id'[d] = id[d] /\ direct'[d] = direct[d]
    /\ half'[d] = half[d]
    /\ d \in raced' <=> d \in raced
    /\ d \in full' <=> d \in full
    /\ d \in served' <=> d \in served
    /\ d \in drowsy' <=> d \in drowsy

Each(d) == StreamOK(d) /\ FramesOK(d) /\ HardwareOK(d) /\ WritingOK(d) /\ SetupOK(d)

LEMMA ApartKeeps ==
    ASSUME IInv, NEW d \in Conns, Apart(d)
    PROVE  Each(d)' /\ Calm(d)
<1>1. Each(d) /\ OneOpen(up[d])
  BY DEF IInv, SessionOK, OpenOK, Each
<1>2. StreamOK(d)' /\ FramesOK(d)'
  BY <1>1 DEF Each, Apart, StreamOK, FramesOK, Has, Preceded, Named, IpsOf, Whole
<1>3. HardwareOK(d)' /\ WritingOK(d)'
  BY <1>1 DEF Each, Apart, HardwareOK, WritingOK, Wholes, Halves, Complete, IpsOf
<1>4. SetupOK(d)'
  BY <1>1 DEF Each, Apart, SetupOK, Young, Complete, IpsOf, IsHighest, Directs
<1>5. Calm(d)
  BY <1>1, CalmKeeps DEF Apart
<1> QED BY <1>2, <1>3, <1>4, <1>5 DEF Each

LEMMA RunMoves ==
    ASSUME IInv, Types', NEW c \in Conns, UNCHANGED <<srclients, opening, served>>,
           closed \subseteq closed', \A d \in Conns : d # c => Apart(d), Calm(c), Each(c)'
    PROVE  IInv'
<1>1. \A d \in Conns : Each(d)' /\ Calm(d)
  BY ApartKeeps
<1>2. SessionOK'
  BY <1>1, CalmSession DEF IInv
<1> QED BY <1>1, <1>2, Together DEF Each

-----------------------------------------------------------------------------
\* A frame from a switch

LEMMA PacketInOK ==
    ASSUME IInv, NEW v \in Vhosts, NEW i \in DOMAIN Ips[v], PacketIn(v, i)
    PROVE  IInv'
<1> DEFINE m == Message("packet", i)
<1>1. /\ UNCHANGED <<srclients, opening, up, closed, pc, ifs, entries, served, setup, at, id,
                     direct, drowsy, half, frames, full, interfaces>>
      /\ srclients[v] = NoConn => UNCHANGED <<down, raced>>
      /\ \A c : c = srclients[v] /\ c # NoConn =>
            /\ down' = Send(c, m)
            /\ raced' = IF opening = c THEN raced \cup {c} ELSE raced
  BY DEF PacketIn, list, pwospf, writing
<1>2. Types /\ srclients[v] \in Conns \cup {NoConn}
  BY DEF IInv, Types, PoxTypes
<1>3. DOMAIN Ips[v] = 1 .. Len(Ips[v])
  <2>1. Ips[v] \in Seq(Nat \ {0})
    BY IpsAssumption
  <2> QED BY <2>1, LenProperties
<1>4. m \in Msg /\ m.type = "packet" /\ m.what = i
  BY <1>3 DEF Message, Msg
<1> HIDE DEF m
<1>5. CASE srclients[v] = NoConn
  <2>1. Types'
    BY <1>1, <1>2, <1>5
       DEF Types, PoxTypes, WireTypes, RunTypes, ListTypes, SetupTypes, WriteTypes
  <2>2. \A d \in Conns : Apart(d)
    BY <1>1, <1>5 DEF Apart
  <2>3. \A d \in Conns : Each(d)' /\ Calm(d)
    BY <2>2, ApartKeeps
  <2>4. SessionOK'
    BY <1>1, <2>3, CalmSession DEF IInv, Types
  <2> QED BY <2>1, <2>3, <2>4, Together DEF Each
<1>6. ASSUME NEW c \in Conns, c = srclients[v], c # NoConn PROVE IInv'
  <2>1. /\ down' \in [Conns -> Seq(Msg)]
        /\ \A d \in Conns :
              \/ down'[d] = down[d]
              \/ d = c /\ Running(c) /\ c \notin closed /\ down'[d] = Append(down[d], m)
        /\ \A d \in Conns : \A type :
              /\ Has(down'[d], type) => Has(down[d], type) \/ (d = c /\ m.type = type)
              /\ Has(down[d], type) => Has(down'[d], type)
    <3>1. WireTypes /\ down' = Send(c, m)
      BY <1>1, <1>2, <1>6 DEF Types
    <3> QED BY <1>4, <3>1, SendHas
  <2>2. raced \subseteq raced' /\ raced' \subseteq raced \cup {c} /\ (opening = c => c \in raced')
    BY <1>1, <1>6
  <2>3. Types'
    BY <1>1, <1>2, <1>6, <2>1, <2>2
       DEF Types, PoxTypes, WireTypes, RunTypes, ListTypes, SetupTypes, WriteTypes
  <2>4. \A d \in Conns : d # c => Apart(d)
    BY <1>1, <2>1, <2>2 DEF Apart
  <2>5. Each(c) /\ OneOpen(up[c]) /\ ToldOK(c) /\ Owner[c] = v
    BY <1>2, <1>6 DEF IInv, SessionOK, OpenOK, Each, Owned
  <2>6. Calm(c)
    BY <1>1, <1>4, <1>6, <2>1, <2>5 DEF Calm, Running, Young
  <2>7. StreamOK(c)'
    BY <1>1, <1>4, <1>6, <2>1, <2>5, StreamKeeps DEF Each
  <2>8. HardwareOK(c)' /\ WritingOK(c)' /\ SetupOK(c)'
    BY <1>1, <2>5, HardwareKeeps, WritingKeeps, SetupKeeps DEF Each, Young
  <2>9. FramesOK(c)'
    <3>1. CASE down'[c] = down[c]
      BY <1>1, <2>2, <2>5, <3>1 DEF Each, FramesOK, Preceded, Named, IpsOf
    <3>2. CASE Running(c) /\ c \notin closed /\ down'[c] = Append(down[c], m)
      <4>1. c \notin raced' => c \in served \/ Has(down[c], "hwinfo")
        BY <1>6, <2>2, <2>5, <3>2 DEF ToldOK
      <4>2. i \in 1 .. Len(IpsOf(c))
        BY <1>3, <2>5 DEF IpsOf
      <4>3. down[c] \in Seq(Msg)
        BY <1>2, <1>6 DEF Types, WireTypes
      <4>4. /\ Preceded(down[c]) /\ Has(down[c], "hwinfo") => Preceded(down'[c])
            /\ \A n : Named(down[c], n) /\ i \in 1 .. n => Named(down'[c], n)
        BY <1>4, <3>2, <4>3, AppendHas
      <4>5. /\ c \notin raced' => c \in served \/ Preceded(down'[c])
            /\ Named(down'[c], Len(IpsOf(c)))
            /\ pc[c] = "aborted" => c \in raced'
        BY <2>2, <2>5, <4>1, <4>2, <4>4 DEF Each, FramesOK
      <4> QED BY <1>1, <4>5 DEF FramesOK, Preceded, Named, IpsOf
    <3> QED BY <1>6, <2>1, <3>1, <3>2
  <2> QED BY <1>1, <1>6, <2>3, <2>4, <2>6, <2>7, <2>8, <2>9, RunMoves DEF Each
<1> QED BY <1>2, <1>5, <1>6, OwnerAssumption

\* A half before one of another message.
LEMMA GarbledOK ==
    ASSUME IInv, NEW c \in Conns, Garbled(c)
    PROVE  IInv'
<1>1. /\ up' = [up EXCEPT ![c] = <<>>]
      /\ closed' = closed \cup {c}
      /\ UNCHANGED <<interfaces, srclients, opening, down, pc, ifs, entries, served, setup, at,
                     id, direct, drowsy, half, frames, full, raced>>
  BY DEF Garbled, Raise, pox, list, pwospf, writing
<1>2. Types
  BY DEF IInv
<1>3. /\ up' \in [Conns -> Seq(Half)]
      /\ up'[c] = <<>>
      /\ \A d \in Conns : d # c => up'[d] = up[d]
  BY <1>1, <1>2, EmptyHas DEF Types, WireTypes
<1>4. Types'
  BY <1>1, <1>2, <1>3
     DEF Types, PoxTypes, WireTypes, RunTypes, ListTypes, SetupTypes, WriteTypes
<1>5. \A d \in Conns : d # c => Apart(d)
  BY <1>1, <1>3 DEF Apart
<1>6. Each(c)
  BY DEF IInv, Each
<1>7. Calm(c)
  BY <1>1, <1>3, EmptyHas DEF Calm, Running, Young, Has
<1>8. StreamOK(c)'
  BY <1>1, <1>3, <1>6 DEF Each, StreamOK, Has
<1>9. HardwareOK(c)' /\ FramesOK(c)' /\ SetupOK(c)'
  BY <1>1, <1>6, HardwareKeeps, FramesKeeps, SetupKeeps DEF Each, Young
<1>10. WritingOK(c)'
  <2>1. Len(up'[c]) <= Room /\ Wholes(up'[c])
    BY <1>3, EmptyHas, BoundsAssumption
  <2> QED BY <1>1, <1>6, <2>1 DEF Each, WritingOK, Wholes, Halves
<1> QED BY <1>1, <1>4, <1>5, <1>7, <1>8, <1>9, <1>10, RunMoves DEF Each

-----------------------------------------------------------------------------
\* Main and the messages it reads

\* The session after a step of the run c that is not calm.
LEMMA SessionMoves ==
    ASSUME IInv, NEW c \in Conns, UNCHANGED <<srclients, opening, closed>>,
           \A d \in Conns : d # c => Apart(d),
           Running(c) \/ (Restartable(Owner[c]) /\ srclients[Owner[c]] # c),
           YoungOK(c)', OpenOK(c)', ToldOK(c)', RegisteredOK(c)'
    PROVE  SessionOK'
<1>1. OneRun /\ Owned /\ PoxTypes
  BY DEF IInv, SessionOK, Types
<1>2. \A d \in Conns : d # c => Running(d)' = Running(d)
  BY DEF Apart, Running
<1>3. OneRun'
  BY <1>1, <1>2 DEF OneRun, Restartable
<1>4. Owned'
  BY <1>1 DEF Owned
<1>5. ASSUME NEW d \in Conns, d # c
      PROVE  YoungOK(d)' /\ OpenOK(d)' /\ ToldOK(d)' /\ RegisteredOK(d)'
  <2>1. /\ YoungOK(d) /\ OpenOK(d) /\ ToldOK(d) /\ RegisteredOK(d)
        /\ Apart(d) /\ Calm(d)
    BY <1>5, ApartKeeps DEF IInv, SessionOK
  <2>2. YoungOK(d)' /\ OpenOK(d)'
    BY <2>1 DEF YoungOK, OpenOK, Calm, Apart
  <2>3. ToldOK(d)'
    BY <2>1 DEF ToldOK, Calm, Apart
  <2>4. RegisteredOK(d)'
    <3> SUFFICES ASSUME Running(d)', (d \in served \/ Has(down[d], "hwinfo"))' PROVE GoesTo(d)'
      BY DEF RegisteredOK
    <3>1. GoesTo(d) /\ Running(d)
      BY <2>1 DEF RegisteredOK, Calm, Apart
    <3>2. srclients[Owner[d]] \in Conns \cup {NoConn}
      BY <1>1, OwnerAssumption DEF PoxTypes
    <3>3. srclients[Owner[d]] # c
      <4> SUFFICES ASSUME srclients[Owner[d]] = c PROVE FALSE
        OBVIOUS
      <4>1. Owner[c] = Owner[d]
        BY <1>1, OwnerAssumption DEF Owned
      <4>2. ~Running(c)
        BY <1>5, <3>1 DEF GoesTo
      <4> QED BY <4>1, <4>2
    <3> QED BY <1>2, <3>1, <3>2, <3>3 DEF GoesTo, Apart
  <2> QED BY <2>2, <2>3, <2>4
<1> QED BY <1>3, <1>4, <1>5 DEF SessionOK

LEMMA FramesRead ==
    ASSUME WireTypes, NEW c \in Conns, FramesOK(c), Read(c), NEW state, NEW kind,
           Reads(c, state, kind), kind # "hwinfo", UNCHANGED <<raced, served>>,
           pc'[c] = "aborted" => c \in raced
    PROVE  FramesOK(c)'
<1>1. /\ down[c] \in Seq(Msg) /\ down[c] # <<>> /\ Head(down[c]).type = kind
      /\ down'[c] = Tail(down[c])
  BY ReadHas DEF WireTypes, Reads
<1>2. /\ Preceded(down[c]) => Preceded(down'[c])
      /\ \A n : Named(down[c], n) => Named(down'[c], n)
  BY <1>1, TailHas
<1> QED BY <1>2 DEF FramesOK, Preceded, Named, IpsOf

\* A router starts when no other of its vhost runs.
LEMMA StartsOK ==
    ASSUME IInv, NEW c \in Conns, Start(c)
    PROVE  IInv'
<1> DEFINE m == Message("request", 0)
<1>1. /\ pc[c] = "off" /\ Restartable(Owner[c])
      /\ pc' = [pc EXCEPT ![c] = "request"]
      /\ down' = [down EXCEPT ![c] = <<m>>]
      /\ UNCHANGED <<interfaces, srclients, opening, up, closed, ifs, entries, served, setup, at,
                     id, direct, drowsy, half, frames, full, raced>>
  BY DEF Start, pox, list, pwospf, writing
<1>2. Types
  BY DEF IInv
<1>3. <<m>> \in Seq(Msg) /\ \A k \in 1 .. Len(<<m>>) : <<m>>[k].type = "request"
  BY DEF Message, Msg
<1> HIDE DEF m
<1>4. /\ down' \in [Conns -> Seq(Msg)] /\ down'[c] = <<m>>
      /\ pc' \in [Conns -> States] /\ pc'[c] = "request"
      /\ \A d \in Conns : d # c => down'[d] = down[d] /\ pc'[d] = pc[d]
  BY <1>1, <1>2, <1>3 DEF Types, WireTypes, RunTypes, States
<1>5. Types'
  BY <1>1, <1>2, <1>4
     DEF Types, PoxTypes, WireTypes, RunTypes, ListTypes, SetupTypes, WriteTypes
<1>6. \A d \in Conns : d # c => Apart(d)
  BY <1>1, <1>4 DEF Apart
<1>7. Each(c) /\ YoungOK(c) /\ OpenOK(c) /\ Young(c)
  BY <1>1 DEF IInv, SessionOK, Each, Young
<1>8. ~Has(down'[c], "hwinfo") /\ ~Has(down'[c], "status") /\ ~Has(down'[c], "packet")
  BY <1>3, <1>4 DEF Has
<1>9. SessionOK'
  <2>1. YoungOK(c)' /\ OpenOK(c)'
    BY <1>1, <1>7, <1>8 DEF YoungOK, OpenOK
  <2>2. ToldOK(c)' /\ RegisteredOK(c)'
    BY <1>1, <1>7, <1>8 DEF YoungOK, ToldOK, RegisteredOK
  <2> QED BY <1>1, <1>6, <1>7, <2>1, <2>2, SessionMoves DEF YoungOK
<1>10. StreamOK(c)' /\ FramesOK(c)'
  BY <1>1, <1>4, <1>7, <1>8 DEF Each, StreamOK, FramesOK, Has, Preceded, Named
<1>11. HardwareOK(c)' /\ WritingOK(c)' /\ SetupOK(c)'
  BY <1>1, <1>4, <1>7, HardwareKeeps, WritingKeeps, SetupKeeps DEF Each
<1> QED BY <1>5, <1>6, <1>9, <1>10, <1>11, ApartKeeps, Together DEF Each

\* Without its key a router ends.
LEMMA NoKeyOK ==
    ASSUME IInv, NEW c \in Conns, NoKey(c)
    PROVE  IInv'
<1>1. /\ Reads(c, "request", "request") /\ Read(c)
      /\ pc' = [pc EXCEPT ![c] = "exited"]
      /\ UNCHANGED <<interfaces, srclients, opening, up, closed, ifs, entries, served, setup, at,
                     id, direct, drowsy, half, frames, full, raced>>
  BY DEF NoKey, pox, list, pwospf, writing
<1>2. Types /\ WireTypes
  BY DEF IInv, Types
<1>3. /\ pc' \in [Conns -> States] /\ pc'[c] = "exited"
      /\ \A d \in Conns : d # c => pc'[d] = pc[d]
  BY <1>1, <1>2 DEF Types, RunTypes, States
<1>4. /\ down' \in [Conns -> Seq(Msg)]
      /\ \A d \in Conns : d # c => down'[d] = down[d]
      /\ \A type : Has(down'[c], type) => Has(down[c], type)
  BY <1>1, <1>2, ReadHas
<1>5. Types'
  BY <1>1, <1>2, <1>3, <1>4
     DEF Types, PoxTypes, WireTypes, RunTypes, ListTypes, SetupTypes, WriteTypes
<1>6. \A d \in Conns : d # c => Apart(d)
  BY <1>1, <1>3, <1>4 DEF Apart
<1>7. Each(c) /\ OneOpen(up[c])
  BY DEF IInv, SessionOK, OpenOK, Each
<1>8. Calm(c)
  BY <1>1, <1>3, <1>4, <1>7 DEF Calm, Running, Young
<1>9. FramesOK(c)'
  BY <1>1, <1>2, <1>3, <1>7, FramesRead DEF Each
<1>10. StreamOK(c)' /\ HardwareOK(c)' /\ WritingOK(c)'
  BY <1>1, <1>3, <1>7, StreamKeeps, HardwareKeeps, WritingKeeps DEF Each
<1>11. SetupOK(c)'
  BY <1>1, <1>3, <1>7, SetupKeeps DEF Each, Young
<1> QED BY <1>1, <1>5, <1>6, <1>8, <1>9, <1>10, <1>11, RunMoves DEF Each

\* The stream after a message that is written whole by a run that had written nothing.
LEMMA FirstHas ==
    ASSUME Types, NEW c \in Conns, up[c] = <<>>, NEW kind \in {"reply", "open", "template"},
           up' = [up EXCEPT ![c] = @ \o Whole(kind, 0)]
    PROVE  /\ up' \in [Conns -> Seq(Half)]
           /\ \A d \in Conns : d # c => up'[d] = up[d]
           /\ up'[c] = Whole(kind, 0)
           /\ OneOpen(up'[c])
           /\ \A type : Has(up'[c], type) <=> kind = type
           /\ Len(up'[c]) <= Room
           /\ Wholes(up'[c])
<1>1. up \in [Conns -> Seq(Half)] /\ <<>> \in Seq(Half)
  BY EmptyHas DEF Types, WireTypes
<1>2. /\ <<>> \o Whole(kind, 0) \in Seq(Half)
      /\ Len(<<>> \o Whole(kind, 0)) = Len(<<>>) + 2
      /\ \A other : Has(<<>> \o Whole(kind, 0), other) <=> Has(<<>>, other) \/ kind = other
      /\ OneOpen(<<>>) /\ (kind # "open" \/ ~Has(<<>>, "open")) => OneOpen(<<>> \o Whole(kind, 0))
      /\ Wholes(<<>>) => Wholes(<<>> \o Whole(kind, 0))
  BY <1>1, WholeHas
<1>3. <<>> \o Whole(kind, 0) = Whole(kind, 0)
  BY DEF Whole
<1>4. /\ up'[c] = Whole(kind, 0) /\ Whole(kind, 0) \in Seq(Half)
      /\ \A d \in Conns : d # c => up'[d] = up[d]
      /\ up' \in [Conns -> Seq(Half)]
  BY <1>1, <1>2, <1>3
<1>5. Len(Whole(kind, 0)) <= Room
  <2>1. Len(Whole(kind, 0)) = 2
    BY <1>2, <1>3, EmptyHas
  <2>2. \A n \in Nat \ {0, 1} : 2 <= n
    OBVIOUS
  <2> QED BY <2>1, <2>2, BoundsAssumption
<1> QED BY <1>2, <1>3, <1>4, <1>5, EmptyHas

\* What the three answers of a young run have in common.
LEMMA Answers ==
    ASSUME IInv, NEW c \in Conns, NEW kind \in {"request", "status"},
           Reads(c, kind, kind), Read(c), UNCHANGED <<raced, served>>, pc'[c] # "aborted"
    PROVE  /\ Young(c) /\ up[c] = <<>> /\ down' \in [Conns -> Seq(Msg)]
           /\ \A d \in Conns : d # c => down'[d] = down[d]
           /\ c \notin served /\ opening # c /\ srclients[Owner[c]] # c
           /\ ~Has(down'[c], "hwinfo")
           /\ Has(down'[c], "status") => Has(down[c], "status")
           /\ FramesOK(c)'
<1>1. /\ WireTypes /\ FramesOK(c) /\ StreamOK(c) /\ YoungOK(c)
      /\ pc[c] = kind /\ Young(c)
  BY DEF IInv, SessionOK, Types, Reads, Young
<1>2. /\ down' \in [Conns -> Seq(Msg)]
      /\ \A d \in Conns : d # c => down'[d] = down[d]
      /\ \A type : Has(down'[c], type) => Has(down[c], type)
      /\ Has(down[c], kind)
  BY <1>1, ReadHas
<1>3. FramesOK(c)'
  BY <1>1, FramesRead
<1>4. up[c] = <<>>
  BY <1>1, <1>2 DEF StreamOK
<1> QED BY <1>1, <1>2, <1>3, <1>4 DEF YoungOK

LEMMA AuthRequestOK ==
    ASSUME IInv, NEW c \in Conns, AuthRequest(c)
    PROVE  IInv'
<1>1. /\ Reads(c, "request", "request") /\ Read(c) /\ pc[c] = "request"
      /\ up' = [up EXCEPT ![c] = @ \o Whole("reply", 0)]
      /\ pc' = [pc EXCEPT ![c] = "status"]
      /\ UNCHANGED <<interfaces, srclients, opening, closed, ifs, entries, served, setup, at,
                     id, direct, drowsy, half, frames, full, raced>>
  BY DEF AuthRequest, Reads, pox, list, pwospf, writing
<1>2. Types /\ Each(c)
  BY DEF IInv, Each
<1>3. /\ pc' \in [Conns -> States] /\ pc'[c] = "status"
      /\ \A d \in Conns : d # c => pc'[d] = pc[d]
  BY <1>1, <1>2 DEF Types, RunTypes, States
<1>4. /\ up[c] = <<>> /\ down' \in [Conns -> Seq(Msg)] /\ Young(c)
      /\ \A d \in Conns : d # c => down'[d] = down[d]
      /\ ~Has(down'[c], "hwinfo")
      /\ Has(down'[c], "status") => Has(down[c], "status")
      /\ FramesOK(c)'
      /\ c \notin served /\ srclients[Owner[c]] # c
  BY <1>1, <1>3, Answers
<1>5. /\ up' \in [Conns -> Seq(Half)]
      /\ \A d \in Conns : d # c => up'[d] = up[d]
      /\ up'[c] = Whole("reply", 0)
      /\ OneOpen(up'[c]) /\ ~Has(up'[c], "open")
      /\ Len(up'[c]) <= Room /\ Wholes(up'[c])
  BY <1>1, <1>2, <1>4, FirstHas
<1>6. Types'
  BY <1>1, <1>2, <1>3, <1>4, <1>5
     DEF Types, PoxTypes, WireTypes, RunTypes, ListTypes, SetupTypes, WriteTypes
<1>7. \A d \in Conns : d # c => Apart(d)
  BY <1>1, <1>3, <1>4, <1>5 DEF Apart
<1>8. Calm(c)
  <2>1. ~Has(down[c], "hwinfo")
    BY <1>4 DEF IInv, SessionOK, YoungOK
  <2> QED BY <1>1, <1>3, <1>4, <1>5, <2>1 DEF Calm, Running, Young
<1>9. StreamOK(c)'
  <2>1. ~Has(down'[c], "status")
    BY <1>1, <1>2, <1>4 DEF Each, StreamOK
  <2> QED BY <1>3, <1>5, <2>1 DEF StreamOK, Whole, Has
<1>10. HardwareOK(c)' /\ WritingOK(c)'
  BY <1>1, <1>2, <1>3, <1>5, HardwareKeeps DEF Each, WritingOK, Wholes, Halves
<1>11. SetupOK(c)'
  BY <1>1, <1>2, <1>4, SetupKeeps DEF Each
<1> QED BY <1>1, <1>4, <1>6, <1>7, <1>8, <1>9, <1>10, <1>11, RunMoves DEF Each

\* The Open goes out once, and the set-up of PWOSPF starts to sleep.
LEMMA AuthStatusOK ==
    ASSUME IInv, NEW c \in Conns, AuthStatus(c)
    PROVE  IInv'
<1>1. /\ Reads(c, "status", "status") /\ Read(c) /\ pc[c] = "status"
      /\ up' = [up EXCEPT ![c] = @ \o Whole("open", 0)]
      /\ pc' = [pc EXCEPT ![c] = "loop"]
      /\ setup' = [setup EXCEPT ![c] = "sleep"]
      /\ UNCHANGED <<interfaces, srclients, opening, closed, ifs, entries, served, at,
                     id, direct, drowsy, half, frames, full, raced>>
  BY DEF AuthStatus, Reads, pox, list, writing
<1>2. Types /\ Each(c)
  BY DEF IInv, Each
<1>3. /\ pc' \in [Conns -> States] /\ pc'[c] = "loop"
      /\ setup' \in [Conns -> Stages] /\ setup'[c] = "sleep"
      /\ \A d \in Conns : d # c => pc'[d] = pc[d] /\ setup'[d] = setup[d]
  BY <1>1, <1>2 DEF Types, RunTypes, SetupTypes, States, Stages
<1>4. /\ up[c] = <<>> /\ down' \in [Conns -> Seq(Msg)] /\ Young(c)
      /\ \A d \in Conns : d # c => down'[d] = down[d]
      /\ ~Has(down'[c], "hwinfo")
      /\ FramesOK(c)'
      /\ c \notin served /\ opening # c /\ srclients[Owner[c]] # c
  BY <1>1, <1>3, Answers
<1>5. /\ up' \in [Conns -> Seq(Half)]
      /\ \A d \in Conns : d # c => up'[d] = up[d]
      /\ OneOpen(up'[c])
      /\ Len(up'[c]) <= Room /\ Wholes(up'[c])
  BY <1>1, <1>2, <1>4, FirstHas
<1>6. Types'
  BY <1>1, <1>2, <1>3, <1>4, <1>5
     DEF Types, PoxTypes, WireTypes, RunTypes, ListTypes, SetupTypes, WriteTypes
<1>7. \A d \in Conns : d # c => Apart(d)
  BY <1>1, <1>3, <1>4, <1>5 DEF Apart
<1>8. SessionOK'
  <2>1. YoungOK(c)' /\ OpenOK(c)' /\ ToldOK(c)' /\ RegisteredOK(c)'
    BY <1>1, <1>3, <1>4, <1>5 DEF YoungOK, OpenOK, ToldOK, RegisteredOK, Young
  <2>2. Running(c)
    BY <1>1 DEF Running
  <2> QED BY <1>1, <1>7, <2>1, <2>2, SessionMoves
<1>9. StreamOK(c)'
  BY <1>3 DEF StreamOK
<1>10. HardwareOK(c)'
  BY <1>1, <1>2, <1>3, <1>4 DEF Each, HardwareOK, Complete, IpsOf
<1>11. WritingOK(c)'
  BY <1>1, <1>2, <1>5 DEF Each, WritingOK, Wholes, Halves
<1>12. SetupOK(c)'
  BY <1>1, <1>2, <1>3, <1>4 DEF Each, SetupOK, Young
<1> QED BY <1>4, <1>6, <1>7, <1>8, <1>9, <1>10, <1>11, <1>12, ApartKeeps, Together DEF Each

LEMMA AskTemplateOK ==
    ASSUME IInv, NEW c \in Conns, AskTemplate(c)
    PROVE  IInv'
<1>1. /\ Reads(c, "status", "status") /\ Read(c) /\ pc[c] = "status"
      /\ up' = [up EXCEPT ![c] = @ \o Whole("template", 0)]
      /\ pc' = [pc EXCEPT ![c] = "rtable"]
      /\ UNCHANGED <<interfaces, srclients, opening, closed, ifs, entries, served, setup, at,
                     id, direct, drowsy, half, frames, full, raced>>
  BY DEF AskTemplate, Reads, pox, list, pwospf, writing
<1>2. Types /\ Each(c)
  BY DEF IInv, Each
<1>3. /\ pc' \in [Conns -> States] /\ pc'[c] = "rtable"
      /\ \A d \in Conns : d # c => pc'[d] = pc[d]
  BY <1>1, <1>2 DEF Types, RunTypes, States
<1>4. /\ up[c] = <<>> /\ down' \in [Conns -> Seq(Msg)] /\ Young(c)
      /\ \A d \in Conns : d # c => down'[d] = down[d]
      /\ ~Has(down'[c], "hwinfo")
      /\ FramesOK(c)'
  BY <1>1, <1>3, Answers
<1>5. /\ up' \in [Conns -> Seq(Half)]
      /\ \A d \in Conns : d # c => up'[d] = up[d]
      /\ OneOpen(up'[c]) /\ ~Has(up'[c], "open")
      /\ Len(up'[c]) <= Room /\ Wholes(up'[c])
  BY <1>1, <1>2, <1>4, FirstHas
<1>6. Types'
  BY <1>1, <1>2, <1>3, <1>4, <1>5
     DEF Types, PoxTypes, WireTypes, RunTypes, ListTypes, SetupTypes, WriteTypes
<1>7. \A d \in Conns : d # c => Apart(d)
  BY <1>1, <1>3, <1>4, <1>5 DEF Apart
<1>8. Calm(c)
  <2>1. ~Has(down[c], "hwinfo")
    BY <1>4 DEF IInv, SessionOK, YoungOK
  <2> QED BY <1>1, <1>3, <1>4, <1>5, <2>1 DEF Calm, Running, Young
<1>9. StreamOK(c)'
  BY <1>3 DEF StreamOK
<1>10. HardwareOK(c)' /\ WritingOK(c)'
  BY <1>1, <1>2, <1>3, <1>5, HardwareKeeps DEF Each, WritingOK, Wholes, Halves
<1>11. SetupOK(c)'
  BY <1>1, <1>2, <1>4, SetupKeeps DEF Each
<1> QED BY <1>1, <1>4, <1>6, <1>7, <1>8, <1>9, <1>10, <1>11, RunMoves DEF Each

\* The hardware information.
LEMMA HwInfoOK ==
    ASSUME IInv, NEW c \in Conns, HwInfo(c)
    PROVE  IInv'
<1>1. /\ Reads(c, "loop", "hwinfo") /\ Read(c) /\ pc[c] = "loop"
      /\ pc' = [pc EXCEPT ![c] = "hwinfo"]
      /\ served' = served \cup {c}
      /\ UNCHANGED <<interfaces, srclients, opening, up, closed, ifs, entries, setup, at,
                     id, direct, drowsy, half, frames, full, raced>>
  BY DEF HwInfo, Reads, pox, pwospf, writing
<1>2. Types /\ Each(c) /\ WireTypes
  BY DEF IInv, Each, Types
<1>3. /\ pc' \in [Conns -> States] /\ pc'[c] = "hwinfo"
      /\ \A d \in Conns : d # c => pc'[d] = pc[d]
  BY <1>1, <1>2 DEF Types, RunTypes, States
<1>4. /\ down' \in [Conns -> Seq(Msg)] /\ down'[c] = Tail(down[c])
      /\ \A d \in Conns : d # c => down'[d] = down[d]
      /\ Has(down[c], "hwinfo")
      /\ \A type : Has(down'[c], type) => Has(down[c], type)
  BY <1>1, <1>2, ReadHas
<1>5. Types'
  BY <1>1, <1>2, <1>3, <1>4
     DEF Types, PoxTypes, WireTypes, RunTypes, ListTypes, SetupTypes, WriteTypes
<1>6. \A d \in Conns : d # c => Apart(d)
  BY <1>1, <1>3, <1>4 DEF Apart
<1>7. Running(c) /\ Running(c)' /\ ~Young(c)'
  BY <1>1, <1>3 DEF Running, Young
<1>8. SessionOK'
  <2>1. YoungOK(c)' /\ ToldOK(c)'
    BY <1>1, <1>7 DEF YoungOK, ToldOK
  <2>2. OpenOK(c)'
    BY <1>1, <1>4 DEF OpenOK, IInv, SessionOK
  <2>3. RegisteredOK(c)'
    <3>1. GoesTo(c)
      BY <1>4, <1>7 DEF IInv, SessionOK, RegisteredOK
    <3>2. srclients[Owner[c]] \in Conns \cup {NoConn}
      BY <1>2, OwnerAssumption DEF Types, PoxTypes
    <3>3. GoesTo(c)'
      BY <1>1, <1>6, <3>1, <3>2 DEF GoesTo, Apart, Running
    <3> QED BY <3>3 DEF RegisteredOK
  <2> QED BY <1>1, <1>6, <1>7, <2>1, <2>2, <2>3, SessionMoves
<1>9. StreamOK(c)'
  BY <1>3 DEF StreamOK
<1>10. FramesOK(c)'
  <2>1. down[c] \in Seq(Msg) /\ down[c] # <<>>
    BY <1>1, <1>2 DEF WireTypes, Reads
  <2>2. \A n : Named(down[c], n) => Named(down'[c], n)
    BY <1>4, <2>1, TailHas
  <2> QED BY <1>1, <1>2, <1>3, <2>2 DEF Each, FramesOK, Named, IpsOf
<1>11. HardwareOK(c)' /\ WritingOK(c)'
  BY <1>1, <1>2, <1>3 DEF Each, HardwareOK, WritingOK, Wholes, Halves, IpsOf
<1>12. SetupOK(c)'
  BY <1>1, <1>2, <1>7, SetupKeeps DEF Each
<1> QED BY <1>5, <1>6, <1>8, <1>9, <1>10, <1>11, <1>12, ApartKeeps, Together DEF Each

\* Three entries make an interface: its name, its address and its mask.
LEMMA Thirds ==
    \A e \in Nat :
        /\ e % 3 = 0 => /\ (e + 1 + 2) \div 3 = (e + 2) \div 3 + 1
                        /\ \A i \in Nat : 3 * i - 1 <= e + 1 => 3 * i - 1 <= e
                        /\ \A i \in Nat : 3 * i <= e + 1 => 3 * i <= e
                        /\ 3 * ((e + 2) \div 3 + 1) - 1 > e + 1
        /\ e % 3 = 1 => /\ (e + 1 + 2) \div 3 = (e + 2) \div 3
                        /\ \A i \in Nat : 3 * i - 1 <= e + 1 => 3 * i - 1 <= e \/ i = (e + 2) \div 3
                        /\ \A i \in Nat : 3 * i <= e + 1 => 3 * i <= e
                        /\ (e + 2) \div 3 \in Nat \ {0}
        /\ e % 3 = 2 => /\ (e + 1 + 2) \div 3 = (e + 2) \div 3
                        /\ \A i \in Nat : 3 * i - 1 <= e + 1 => 3 * i - 1 <= e
                        /\ \A i \in Nat : 3 * i <= e + 1 => 3 * i <= e \/ i = (e + 2) \div 3
                        /\ (e + 2) \div 3 \in Nat \ {0}
        /\ e % 3 \in 0 .. 2
        /\ \A n \in Nat : e < 3 * n => (e + 2) \div 3 <= n /\ e + 1 <= 3 * n
OBVIOUS

\* What an entry does to the list s of interfaces, with the addresses a.
Handled(s, t, e, a) ==
    \/ e % 3 = 0 /\ \E junk \in {0, JunkIp} : t = Append(s, [ip |-> junk, masked |-> FALSE])
    \/ e % 3 = 1 /\ t = [s EXCEPT ![Len(s)].ip = a[Len(s)]]
    \/ e % 3 = 2 /\ t = [s EXCEPT ![Len(s)].masked = TRUE]

Filled(s, e, a) ==
    /\ Len(s) = (e + 2) \div 3
    /\ \A i \in 1 .. Len(s) :
          /\ 3 * i - 1 <= e => s[i].ip = a[i]
          /\ 3 * i <= e => s[i].masked = TRUE

LEMMA HandledFills ==
    ASSUME NEW a \in Seq(Nat \ {0}), NEW e \in Nat, e < 3 * Len(a), NEW s \in Seq(Iface),
           Filled(s, e, a), NEW t, Handled(s, t, e, a)
    PROVE  t \in Seq(Iface) /\ Filled(t, e + 1, a)
<1>1. /\ Len(s) \in Nat /\ Len(a) \in Nat /\ Len(s) = (e + 2) \div 3
      /\ \A i \in 1 .. Len(s) : s[i] \in Iface
      /\ \A i \in 1 .. Len(a) : a[i] \in Nat
  BY LenProperties, ElementOfSeq DEF Filled
<1>2. e % 3 \in 0 .. 2 /\ Len(s) <= Len(a)
  BY <1>1, Thirds
<1>3. CASE e % 3 = 0
  <2>1. PICK junk \in {0, JunkIp} : t = Append(s, [ip |-> junk, masked |-> FALSE])
    BY <1>3 DEF Handled
  <2>2. [ip |-> junk, masked |-> FALSE] \in Iface
    BY IpsAssumption DEF Iface
  <2>3. /\ t \in Seq(Iface) /\ Len(t) = Len(s) + 1
        /\ \A i \in 1 .. Len(s) : t[i] = s[i]
    BY <2>1, <2>2, AppendProperties
  <2>4. Len(t) = (e + 1 + 2) \div 3
    BY <1>1, <1>3, <2>3, Thirds
  <2>5. ASSUME NEW i \in 1 .. Len(t)
        PROVE  /\ 3 * i - 1 <= e + 1 => t[i].ip = a[i]
               /\ 3 * i <= e + 1 => t[i].masked = TRUE
    <3>1. CASE i \in 1 .. Len(s)
      <4>1. /\ 3 * i - 1 <= e + 1 => 3 * i - 1 <= e
            /\ 3 * i <= e + 1 => 3 * i <= e
        <5>1. i \in Nat
          BY <1>1, <3>1
        <5> QED BY <1>3, <5>1, Thirds
      <4> QED BY <2>3, <3>1, <4>1 DEF Filled
    <3>2. CASE i = Len(s) + 1
      <4>1. 3 * i - 1 > e + 1
        BY <1>1, <1>3, <3>2, Thirds
      <4>2. \A k \in Nat : 3 * k - 1 > e + 1 => ~(3 * k - 1 <= e + 1) /\ ~(3 * k <= e + 1)
        OBVIOUS
      <4>3. i \in Nat
        BY <1>1, <3>2
      <4>4. ~(3 * i - 1 <= e + 1) /\ ~(3 * i <= e + 1)
        BY <4>1, <4>2, <4>3
      <4> QED BY <4>4
    <3>3. i \in 1 .. Len(s) \/ i = Len(s) + 1
      BY <1>1, <2>3
    <3> QED BY <3>1, <3>2, <3>3, Zenon
  <2> QED BY <2>3, <2>4, <2>5 DEF Filled
<1>4. CASE e % 3 = 1
  <2>1. t = [s EXCEPT ![Len(s)].ip = a[Len(s)]]
    BY <1>4 DEF Handled
  <2>2. Len(s) \in 1 .. Len(s) /\ Len(s) \in 1 .. Len(a) /\ (e + 1 + 2) \div 3 = Len(s)
    BY <1>1, <1>2, <1>4, Thirds
  <2> DEFINE last == [s[Len(s)] EXCEPT !.ip = a[Len(s)]]
  <2>3. last \in Iface /\ last.ip = a[Len(s)]
    BY <1>1, <2>2 DEF Iface
  <2>4. t = [s EXCEPT ![Len(s)] = last]
    BY <2>1
  <2> HIDE DEF last
  <2>5. /\ t \in Seq(Iface) /\ Len(t) = Len(s) /\ t[Len(s)] = last
        /\ \A i \in 1 .. Len(s) : i # Len(s) => t[i] = s[i]
    BY <2>2, <2>3, <2>4, ExceptSeq
  <2>6. ASSUME NEW i \in 1 .. Len(t)
        PROVE  /\ 3 * i - 1 <= e + 1 => t[i].ip = a[i]
               /\ 3 * i <= e + 1 => t[i].masked = TRUE
    <3>1. /\ 3 * i - 1 <= e + 1 => 3 * i - 1 <= e \/ i = Len(s)
          /\ 3 * i <= e + 1 => 3 * i <= e
      BY <1>1, <1>4, Thirds
    <3>2. CASE i = Len(s)
      <4>1. last.masked = s[Len(s)].masked
        BY <1>1, <2>2 DEF Iface, last
      <4> QED BY <2>2, <2>3, <2>5, <3>1, <3>2, <4>1 DEF Filled
    <3>3. CASE i # Len(s)
      BY <2>5, <3>1, <3>3 DEF Filled
    <3> QED BY <3>2, <3>3
  <2> QED BY <1>1, <2>2, <2>5, <2>6 DEF Filled
<1>5. CASE e % 3 = 2
  <2>1. t = [s EXCEPT ![Len(s)].masked = TRUE]
    BY <1>5 DEF Handled
  <2>2. Len(s) \in 1 .. Len(s) /\ (e + 1 + 2) \div 3 = Len(s)
    BY <1>1, <1>5, Thirds
  <2> DEFINE last == [s[Len(s)] EXCEPT !.masked = TRUE]
  <2>3. last \in Iface /\ last.masked = TRUE /\ last.ip = s[Len(s)].ip
    BY <1>1, <2>2 DEF Iface
  <2>4. t = [s EXCEPT ![Len(s)] = last]
    BY <2>1
  <2> HIDE DEF last
  <2>5. /\ t \in Seq(Iface) /\ Len(t) = Len(s) /\ t[Len(s)] = last
        /\ \A i \in 1 .. Len(s) : i # Len(s) => t[i] = s[i]
    BY <2>2, <2>3, <2>4, ExceptSeq
  <2>6. ASSUME NEW i \in 1 .. Len(t)
        PROVE  /\ 3 * i - 1 <= e + 1 => t[i].ip = a[i]
               /\ 3 * i <= e + 1 => t[i].masked = TRUE
    <3>1. /\ 3 * i - 1 <= e + 1 => 3 * i - 1 <= e
          /\ 3 * i <= e + 1 => 3 * i <= e \/ i = Len(s)
      BY <1>1, <1>5, Thirds
    <3>2. CASE i = Len(s)
      BY <2>2, <2>3, <2>5, <3>1, <3>2 DEF Filled
    <3>3. CASE i # Len(s)
      BY <2>5, <3>1, <3>3 DEF Filled
    <3> QED BY <3>2, <3>3
  <2> QED BY <1>1, <2>2, <2>5, <2>6 DEF Filled
<1> QED BY <1>2, <1>3, <1>4, <1>5

LEMMA HwEntryOK ==
    ASSUME IInv, NEW c \in Conns, HwEntry(c)
    PROVE  IInv'
<1>1. Types /\ Each(c) /\ IpsOf(c) \in Seq(Nat \ {0}) /\ OneOpen(up[c])
  BY OwnerAssumption, IpsAssumption DEF IInv, Each, IpsOf, SessionOK, OpenOK
<1>2. /\ pc[c] = "hwinfo" /\ entries[c] < 3 * Len(IpsOf(c))
      /\ entries' = [entries EXCEPT ![c] = @ + 1]
      /\ UNCHANGED <<interfaces, srclients, opening, up, down, closed, pc, served, setup, at,
                     id, direct, drowsy, half, frames, full, raced>>
  BY DEF HwEntry, pox, wires, pwospf, writing
<1>3. ifs[c] \in Seq(Iface) /\ entries[c] \in Nat /\ Filled(ifs[c], entries[c], IpsOf(c))
  BY <1>1 DEF Types, ListTypes, Each, HardwareOK, Filled
<1>4. /\ \A d \in Conns : d # c => ifs'[d] = ifs[d]
      /\ ifs' = [ifs EXCEPT ![c] = ifs'[c]]
      /\ Handled(ifs[c], ifs'[c], entries[c], IpsOf(c))
  <2>1. ifs \in [Conns -> Seq(Iface)] /\ entries[c] % 3 \in 0 .. 2
    BY <1>1, <1>3, Thirds DEF Types, ListTypes
  <2>2. 0 # 1 /\ 0 # 2 /\ 1 # 2
    OBVIOUS
  <2>3. \E own : ifs' = [ifs EXCEPT ![c] = own] /\ Handled(ifs[c], own, entries[c], IpsOf(c))
    <3>1. CASE entries[c] % 3 = 0
      <4>1. PICK junk \in {0, JunkIp} :
               ifs' = [ifs EXCEPT ![c] = Append(ifs[c], [ip |-> junk, masked |-> FALSE])]
        BY <3>1, <2>2, Zenon DEF HwEntry
      <4> QED BY <3>1, <4>1, Zenon DEF Handled
    <3>2. CASE entries[c] % 3 = 1
      <4>1. ifs' = [ifs EXCEPT ![c][Len(ifs[c])].ip = IpsOf(c)[Len(ifs[c])]]
        BY <3>2, <2>2, Zenon DEF HwEntry, Last
      <4> QED BY <3>2, <4>1, Zenon DEF Handled
    <3>3. CASE entries[c] % 3 = 2
      <4>1. ifs' = [ifs EXCEPT ![c][Len(ifs[c])].masked = TRUE]
        BY <3>3, <2>2, Zenon DEF HwEntry, Last
      <4> QED BY <3>3, <4>1, Zenon DEF Handled
    <3> QED BY <2>1, <3>1, <3>2, <3>3
  <2>4. PICK own : ifs' = [ifs EXCEPT ![c] = own] /\ Handled(ifs[c], own, entries[c], IpsOf(c))
    BY <2>3
  <2>5. ifs'[c] = own /\ \A d \in Conns : d # c => ifs'[d] = ifs[d]
    BY <2>1, <2>4
  <2> QED BY <2>4, <2>5
<1>5. ifs'[c] \in Seq(Iface) /\ Filled(ifs'[c], entries[c] + 1, IpsOf(c))
  BY <1>1, <1>2, <1>3, <1>4, HandledFills
<1>6. /\ entries' \in [Conns -> Nat] /\ entries'[c] = entries[c] + 1
      /\ \A d \in Conns : d # c => entries'[d] = entries[d]
      /\ ifs' \in [Conns -> Seq(Iface)]
  <2>1. entries \in [Conns -> Nat] /\ ifs \in [Conns -> Seq(Iface)]
    BY <1>1 DEF Types, ListTypes
  <2> DEFINE own == ifs'[c]
  <2>2. own \in Seq(Iface) /\ ifs' = [ifs EXCEPT ![c] = own]
    BY <1>4, <1>5
  <2> HIDE DEF own
  <2>3. ifs' \in [Conns -> Seq(Iface)]
    BY <2>1, <2>2
  <2> QED BY <1>2, <2>1, <2>3
<1>7. Types'
  BY <1>1, <1>2, <1>6
     DEF Types, PoxTypes, WireTypes, RunTypes, ListTypes, SetupTypes, WriteTypes
<1>8. \A d \in Conns : d # c => Apart(d)
  BY <1>2, <1>4, <1>6 DEF Apart
<1>9. Calm(c)
  BY <1>1, <1>2, CalmKeeps
<1>10. StreamOK(c)' /\ FramesOK(c)' /\ WritingOK(c)'
  BY <1>1, <1>2, StreamKeeps, FramesKeeps, WritingKeeps DEF Each
<1>11. HardwareOK(c)'
  <2>1. c \in served' /\ pc'[c] = "hwinfo"
    BY <1>1, <1>2 DEF Each, HardwareOK
  <2>2. entries[c] + 1 <= 3 * Len(IpsOf(c))
    BY <1>1, <1>2, <1>3, LenProperties
  <2> QED BY <1>5, <1>6, <2>1, <2>2 DEF HardwareOK, Filled, IpsOf
<1>12. SetupOK(c)'
  <2>1. ~Complete(c)
    <3>1. \A e, n \in Nat : e < n => e # n
      OBVIOUS
    <3>2. Len(IpsOf(c)) \in Nat /\ 3 * Len(IpsOf(c)) \in Nat
      BY <1>1, LenProperties
    <3> QED BY <1>2, <1>3, <3>1, <3>2 DEF Complete
  <2> QED BY <1>1, <1>2, <2>1 DEF Each, SetupOK, Young
<1> QED BY <1>2, <1>7, <1>8, <1>9, <1>10, <1>11, <1>12, RunMoves DEF Each

LEMMA HwDoneOK ==
    ASSUME IInv, NEW c \in Conns, HwDone(c)
    PROVE  IInv'
<1>1. Types /\ Each(c) /\ OneOpen(up[c])
  BY DEF IInv, Each, SessionOK, OpenOK
<1>2. /\ pc[c] = "hwinfo" /\ entries[c] = 3 * Len(IpsOf(c))
      /\ pc' = [pc EXCEPT ![c] = "loop"]
      /\ UNCHANGED <<interfaces, srclients, opening, up, down, closed, ifs, entries, served, setup,
                     at, id, direct, drowsy, half, frames, full, raced>>
  BY DEF HwDone, pox, wires, list, pwospf, writing
<1>3. /\ pc' \in [Conns -> States] /\ pc'[c] = "loop"
      /\ \A d \in Conns : d # c => pc'[d] = pc[d]
  BY <1>1, <1>2 DEF Types, RunTypes, States
<1>4. Types'
  BY <1>1, <1>2, <1>3
     DEF Types, PoxTypes, WireTypes, RunTypes, ListTypes, SetupTypes, WriteTypes
<1>5. \A d \in Conns : d # c => Apart(d)
  BY <1>2, <1>3 DEF Apart
<1>6. Calm(c)
  BY <1>1, <1>2, <1>3 DEF Calm, Running, Young, OneOpen, Has
<1>7. StreamOK(c)' /\ FramesOK(c)' /\ WritingOK(c)'
  BY <1>1, <1>2, <1>3, StreamKeeps, FramesKeeps, WritingKeeps DEF Each
<1>8. HardwareOK(c)'
  BY <1>1, <1>2, <1>3 DEF Each, HardwareOK, Complete, IpsOf
<1>9. SetupOK(c)'
  BY <1>1, <1>2, <1>3, SetupKeeps DEF Each, Young
<1> QED BY <1>2, <1>4, <1>5, <1>6, <1>7, <1>8, <1>9, RunMoves DEF Each

\* The router aborts on a frame only if it came before the hardware information.
LEMMA PacketReadOK ==
    ASSUME IInv, NEW c \in Conns, PacketRead(c)
    PROVE  IInv'
<1>1. Types /\ WireTypes /\ Each(c) /\ OneOpen(up[c])
  BY DEF IInv, Types, Each, SessionOK, OpenOK
<1>2. /\ Reads(c, "loop", "packet") /\ Read(c) /\ pc[c] = "loop"
      /\ pc' = [pc EXCEPT ![c] = IF Aborts(c, Head(down[c]).what) THEN "aborted" ELSE "loop"]
      /\ UNCHANGED <<interfaces, srclients, opening, up, closed, ifs, entries, served, setup,
                     at, id, direct, drowsy, half, frames, full, raced>>
  BY DEF PacketRead, Reads, pox, list, pwospf, writing
<1>3. /\ pc' \in [Conns -> States] /\ pc'[c] \in {"loop", "aborted"}
      /\ pc'[c] = "aborted" => Aborts(c, Head(down[c]).what)
      /\ \A d \in Conns : d # c => pc'[d] = pc[d]
  BY <1>1, <1>2 DEF Types, RunTypes, States
<1>4. /\ down' \in [Conns -> Seq(Msg)]
      /\ \A d \in Conns : d # c => down'[d] = down[d]
      /\ \A type : /\ Has(down'[c], type) => Has(down[c], type)
                   /\ Has(down[c], type) /\ type # "packet" => Has(down'[c], type)
  BY <1>1, <1>2, ReadHas
<1>5. pc'[c] = "aborted" => c \in raced
  <2> SUFFICES ASSUME c \notin raced PROVE HasInterface(c, Head(down[c]).what)
    BY <1>3 DEF Aborts
  <2>1. down[c] \in Seq(Msg) /\ down[c] # <<>> /\ Head(down[c]).type = "packet"
    BY <1>1, <1>2 DEF WireTypes, Reads
  <2>2. /\ ~Preceded(down[c])
        /\ \A n : Named(down[c], n) => Head(down[c]).what \in 1 .. n
    BY <2>1, TailHas
  <2>3. Complete(c) /\ Head(down[c]).what \in 1 .. Len(IpsOf(c))
    BY <1>1, <1>2, <2>2 DEF Each, FramesOK, HardwareOK
  <2>4. Len(ifs[c]) = Len(IpsOf(c))
    <3>1. \A n \in Nat : (3 * n + 2) \div 3 = n
      OBVIOUS
    <3>2. Len(IpsOf(c)) \in Nat
      BY OwnerAssumption, IpsAssumption, LenProperties DEF IpsOf
    <3> QED BY <1>1, <2>3, <3>1, <3>2 DEF Complete, Each, HardwareOK
  <2>5. DOMAIN ifs[c] = 1 .. Len(ifs[c])
    BY <1>1, LenProperties DEF Types, ListTypes
  <2> QED BY <2>3, <2>4, <2>5 DEF HasInterface
<1>6. Types'
  BY <1>1, <1>2, <1>3, <1>4
     DEF Types, PoxTypes, WireTypes, RunTypes, ListTypes, SetupTypes, WriteTypes
<1>7. \A d \in Conns : d # c => Apart(d)
  BY <1>2, <1>3, <1>4 DEF Apart
<1>8. Calm(c)
  BY <1>1, <1>2, <1>3, <1>4 DEF Calm, Running, Young
<1>9. FramesOK(c)'
  BY <1>1, <1>2, <1>5, FramesRead DEF Each
<1>10. StreamOK(c)' /\ HardwareOK(c)' /\ WritingOK(c)'
  BY <1>1, <1>2, <1>3, StreamKeeps, HardwareKeeps, WritingKeeps DEF Each
<1>11. SetupOK(c)'
  BY <1>1, <1>2, <1>3, SetupKeeps DEF Each, Young
<1> QED BY <1>2, <1>6, <1>7, <1>8, <1>9, <1>10, <1>11, RunMoves DEF Each

LEMMA EofOK ==
    ASSUME IInv, NEW c \in Conns, Eof(c)
    PROVE  IInv'
<1>1. Types /\ Each(c) /\ OneOpen(up[c])
  BY DEF IInv, Each, SessionOK, OpenOK
<1>2. /\ pc[c] \in {"request", "status", "rtable", "loop"}
      /\ pc' = [pc EXCEPT ![c] = "eof"]
      /\ UNCHANGED <<interfaces, srclients, opening, up, down, closed, ifs, entries, served, setup,
                     at, id, direct, drowsy, half, frames, full, raced>>
  BY DEF Eof, pox, wires, list, pwospf, writing
<1>3. /\ pc' \in [Conns -> States] /\ pc'[c] = "eof"
      /\ \A d \in Conns : d # c => pc'[d] = pc[d]
  BY <1>1, <1>2 DEF Types, RunTypes, States
<1>4. Types'
  BY <1>1, <1>2, <1>3
     DEF Types, PoxTypes, WireTypes, RunTypes, ListTypes, SetupTypes, WriteTypes
<1>5. \A d \in Conns : d # c => Apart(d)
  BY <1>2, <1>3 DEF Apart
<1>6. Calm(c)
  BY <1>1, <1>2, <1>3 DEF Calm, Running, Young, OneOpen, Has
<1>7. StreamOK(c)' /\ FramesOK(c)' /\ WritingOK(c)'
  BY <1>1, <1>2, <1>3, StreamKeeps, FramesKeeps, WritingKeeps DEF Each
<1>8. HardwareOK(c)' /\ SetupOK(c)'
  BY <1>1, <1>2, <1>3, HardwareKeeps, SetupKeeps DEF Each, Young
<1> QED BY <1>2, <1>4, <1>5, <1>6, <1>7, <1>8, RunMoves DEF Each

-----------------------------------------------------------------------------
\* The end of a run

LEMMA GoneOK ==
    ASSUME IInv, NEW c \in Conns, Gone(c)
    PROVE  IInv'
<1>1. Types /\ Each(c) /\ OneOpen(up[c])
  BY DEF IInv, Each, SessionOK, OpenOK
<1>2. PICK heard \in {<<>>, up[c]} : up' = [up EXCEPT ![c] = heard]
  BY DEF Gone
<1>3. /\ pc' = [pc EXCEPT ![c] = "killed"]
      /\ down' = [down EXCEPT ![c] = <<>>] /\ ifs' = [ifs EXCEPT ![c] = <<>>]
      /\ entries' = [entries EXCEPT ![c] = 0] /\ setup' = [setup EXCEPT ![c] = "none"]
      /\ at' = [at EXCEPT ![c] = 0] /\ id' = [id EXCEPT ![c] = 0]
      /\ direct' = [direct EXCEPT ![c] = {}] /\ half' = [half EXCEPT ![c] = {}]
      /\ frames' = [frames EXCEPT ![c] = 0]
      /\ drowsy' = drowsy \ {c} /\ raced' = raced \ {c}
      /\ UNCHANGED <<interfaces, srclients, opening, closed, served, full>>
  BY DEF Gone, pox
<1>4. heard \in Seq(Half) /\ OneOpen(heard) /\ \A type : Has(heard, type) => Has(up[c], type)
  BY <1>1, <1>2, EmptyHas DEF Types, WireTypes
<1>5. <<>> \in Seq(Msg) /\ <<>> \in Seq(Iface) /\ "killed" \in States /\ "none" \in Stages
  BY EmptyHas DEF States, Stages
<1>6. /\ up' \in [Conns -> Seq(Half)] /\ down' \in [Conns -> Seq(Msg)]
      /\ pc' \in [Conns -> States] /\ setup' \in [Conns -> Stages]
      /\ up'[c] = heard /\ down'[c] = <<>> /\ pc'[c] = "killed" /\ setup'[c] = "none"
      /\ \A d \in Conns : d # c => /\ up'[d] = up[d] /\ down'[d] = down[d]
                                   /\ pc'[d] = pc[d] /\ setup'[d] = setup[d]
  BY <1>1, <1>2, <1>3, <1>4, <1>5 DEF Types, WireTypes, RunTypes, SetupTypes
<1>7. /\ ifs' \in [Conns -> Seq(Iface)] /\ entries' \in [Conns -> Nat]
      /\ ifs'[c] = <<>> /\ entries'[c] = 0
      /\ \A d \in Conns : d # c => ifs'[d] = ifs[d] /\ entries'[d] = entries[d]
  BY <1>1, <1>3, <1>5 DEF Types, ListTypes
<1>8. /\ at' \in [Conns -> Nat] /\ id' \in [Conns -> Nat] /\ direct' \in [Conns -> SUBSET Route]
      /\ id'[c] = 0 /\ direct'[c] = {}
      /\ \A d \in Conns : d # c => at'[d] = at[d] /\ id'[d] = id[d] /\ direct'[d] = direct[d]
  BY <1>1, <1>3 DEF Types, SetupTypes
<1>9. /\ half' \in [Conns -> SUBSET Writers] /\ frames' \in [Conns -> Nat]
      /\ half'[c] = {} /\ \A d \in Conns : d # c => half'[d] = half[d]
  BY <1>1, <1>3 DEF Types, WriteTypes
<1>10. Types'
  BY <1>1, <1>3, <1>6, <1>7, <1>8, <1>9
     DEF Types, PoxTypes, WireTypes, RunTypes, ListTypes, SetupTypes, WriteTypes
<1>11. \A d \in Conns : d # c => Apart(d)
  BY <1>3, <1>6, <1>7, <1>8, <1>9 DEF Apart
<1>12. Calm(c)
  BY <1>4, <1>6, EmptyHas DEF Calm, Running, Young
<1>13. StreamOK(c)' /\ FramesOK(c)' /\ SetupOK(c)'
  <2>1. Preceded(down'[c]) /\ \A n : Named(down'[c], n)
    BY <1>6, EmptyHas
  <2> QED BY <1>6, <1>8, <2>1 DEF StreamOK, FramesOK, SetupOK, Preceded, Named, IpsOf
<1>14. HardwareOK(c)'
  <2>1. Len(<<>>) = 0 /\ (0 + 2) \div 3 = 0 /\ 1 .. 0 = {} /\ \A n \in Nat : 0 <= 3 * n
    BY EmptyHas
  <2>2. Len(IpsOf(c)) \in Nat
    BY OwnerAssumption, IpsAssumption, LenProperties DEF IpsOf
  <2> QED BY <1>6, <1>7, <2>1, <2>2 DEF HardwareOK, IpsOf
<1>15. WritingOK(c)'
  <2>1. Len(heard) <= Room /\ (c \notin full => Wholes(heard))
    <3>1. Len(<<>>) <= Room /\ Wholes(<<>>)
      BY EmptyHas, BoundsAssumption
    <3>2. Len(up[c]) <= Room /\ (c \notin full => Wholes(up[c]))
      BY <1>1 DEF Each, WritingOK
    <3> QED BY <1>2, <3>1, <3>2
  <2> QED BY <1>3, <1>6, <1>9, <2>1 DEF WritingOK, Wholes, Halves
<1> QED BY <1>3, <1>10, <1>11, <1>12, <1>13, <1>14, <1>15, RunMoves DEF Each

-----------------------------------------------------------------------------
\* The set-up of PWOSPF

\* Every interface is there once all entries are handled.
LEMMA CompleteHas ==
    ASSUME Types, NEW c \in Conns, HardwareOK(c), Complete(c)
    PROVE  /\ Len(ifs[c]) = Len(IpsOf(c))
           /\ \A i \in 1 .. Len(IpsOf(c)) : ifs[c][i].ip = IpsOf(c)[i] /\ ifs[c][i].masked = TRUE
<1>1. Len(IpsOf(c)) \in Nat
  BY OwnerAssumption, IpsAssumption, LenProperties DEF IpsOf
<1>2. \A n \in Nat : (3 * n + 2) \div 3 = n /\ \A i \in 1 .. n : 3 * i - 1 <= 3 * n /\ 3 * i <= 3 * n
  OBVIOUS
<1> QED BY <1>1, <1>2 DEF HardwareOK, Complete

LEMMA SetupMoves ==
    ASSUME IInv, NEW c \in Conns, UNCHANGED <<pox, wires, pc, list, writing, raced>>,
           SetupTypes', drowsy' \subseteq Conns,
           \A d \in Conns : d # c =>
               /\ setup'[d] = setup[d] /\ at'[d] = at[d] /\ id'[d] = id[d] /\ direct'[d] = direct[d]
               /\ d \in drowsy' <=> d \in drowsy,
           SetupOK(c)'
    PROVE  IInv'
<1>1. UNCHANGED <<interfaces, srclients, opening, up, down, closed, pc, ifs, entries, served,
                  half, frames, full, raced>>
  BY DEF pox, wires, list, writing
<1>2. Types /\ Each(c) /\ OneOpen(up[c])
  BY DEF IInv, Each, SessionOK, OpenOK
<1>3. Types'
  BY <1>1, <1>2 DEF Types, PoxTypes, WireTypes, RunTypes, ListTypes, WriteTypes
<1>4. \A d \in Conns : d # c => Apart(d)
  BY <1>1 DEF Apart
<1>5. Calm(c)
  BY <1>1, <1>2, CalmKeeps
<1>6. StreamOK(c)' /\ FramesOK(c)' /\ HardwareOK(c)' /\ WritingOK(c)'
  BY <1>1, <1>2, StreamKeeps, FramesKeeps, HardwareKeeps, WritingKeeps DEF Each, Has
<1> QED BY <1>1, <1>3, <1>4, <1>5, <1>6, RunMoves DEF Each

LEMMA WakeOK ==
    ASSUME IInv, NEW c \in Conns, Wake(c)
    PROVE  IInv'
<1>1. /\ Running(c) /\ setup[c] = "sleep"
      /\ setup' = [setup EXCEPT ![c] = "scan"] /\ at' = [at EXCEPT ![c] = 1]
      /\ drowsy' = IF Complete(c) THEN drowsy ELSE drowsy \cup {c}
      /\ id' = id /\ direct' = direct
      /\ UNCHANGED <<pox, wires, pc, list, writing, raced>>
  BY DEF Wake
<1>2. SetupTypes /\ drowsy \subseteq Conns /\ SetupOK(c)
  BY DEF IInv, Types, RunTypes
<1>3. /\ SetupTypes' /\ drowsy' \subseteq Conns
      /\ setup'[c] = "scan" /\ at'[c] = 1
      /\ \A d \in Conns : d # c => setup'[d] = setup[d] /\ at'[d] = at[d]
      /\ c \notin drowsy' => Complete(c)
      /\ \A d \in Conns : d # c => (d \in drowsy' <=> d \in drowsy)
  BY <1>1, <1>2 DEF SetupTypes, Stages
<1>4. SetupOK(c)'
  <2>1. ~Young(c) /\ Young(c)' = Young(c) /\ Complete(c)' = Complete(c)
    BY <1>1, <1>2 DEF SetupOK, Young, Complete, IpsOf, list
  <2>2. Len(IpsOf(c)) \in Nat
    BY OwnerAssumption, IpsAssumption, LenProperties DEF IpsOf
  <2>3. 1 \in 1 .. Len(IpsOf(c)) + 1
    BY <2>2
  <2> QED BY <1>1, <1>2, <1>3, <2>1, <2>3 DEF SetupOK, IpsOf
<1> QED BY <1>1, <1>2, <1>3, <1>4, SetupMoves

\* What a thread that sets PWOSPF up knows of the interface it looks at.
LEMMA Looks ==
    ASSUME IInv, NEW c \in Conns, setup[c] \in {"scan", "routes"}
    PROVE  /\ at[c] \in Nat \ {0} /\ id[c] \in Nat /\ Len(ifs[c]) \in Nat /\ Len(IpsOf(c)) \in Nat
           /\ ~Young(c)
           /\ at[c] <= Len(ifs[c]) => ifs[c][at[c]] \in Iface
           /\ c \notin drowsy =>
                 /\ Len(ifs[c]) = Len(IpsOf(c)) /\ at[c] \in 1 .. Len(IpsOf(c)) + 1 /\ Complete(c)
                 /\ at[c] <= Len(ifs[c]) =>
                       /\ ifs[c][at[c]].ip = IpsOf(c)[at[c]] /\ ifs[c][at[c]].masked = TRUE
                       /\ IpsOf(c)[at[c]] \in Nat \ {0}
<1>1. Types /\ SetupTypes /\ SetupOK(c) /\ HardwareOK(c)
  BY DEF IInv, Types
<1>2. IpsOf(c) \in Seq(Nat \ {0}) /\ ifs[c] \in Seq(Iface)
  BY <1>1, OwnerAssumption, IpsAssumption DEF IpsOf, Types, ListTypes
<1>3. at[c] \in Nat \ {0} /\ id[c] \in Nat /\ ~Young(c)
  BY <1>1 DEF SetupTypes, SetupOK
<1>4. Len(ifs[c]) \in Nat /\ Len(IpsOf(c)) \in Nat
  BY <1>2, LenProperties
<1>5. at[c] <= Len(ifs[c]) => at[c] \in 1 .. Len(ifs[c]) /\ ifs[c][at[c]] \in Iface
  BY <1>2, <1>3, <1>4, ElementOfSeq
<1>6. ASSUME c \notin drowsy
      PROVE  /\ Len(ifs[c]) = Len(IpsOf(c)) /\ at[c] \in 1 .. Len(IpsOf(c)) + 1 /\ Complete(c)
             /\ at[c] <= Len(ifs[c]) =>
                   /\ ifs[c][at[c]].ip = IpsOf(c)[at[c]] /\ ifs[c][at[c]].masked = TRUE
                   /\ IpsOf(c)[at[c]] \in Nat \ {0}
  <2>1. Complete(c) /\ at[c] \in 1 .. Len(IpsOf(c)) + 1
    BY <1>1, <1>6 DEF SetupOK
  <2>2. /\ Len(ifs[c]) = Len(IpsOf(c))
        /\ \A i \in 1 .. Len(IpsOf(c)) : ifs[c][i].ip = IpsOf(c)[i] /\ ifs[c][i].masked = TRUE
    BY <1>1, <2>1, CompleteHas
  <2>3. at[c] <= Len(ifs[c]) => at[c] \in 1 .. Len(IpsOf(c)) /\ IpsOf(c)[at[c]] \in Nat \ {0}
    BY <1>2, <1>5, <2>2, ElementOfSeq
  <2> QED BY <2>1, <2>2, <2>3
<1> QED BY <1>3, <1>4, <1>5, <1>6

\* The highest address so far.
LEMMA Higher ==
    ASSUME NEW c, NEW n \in Nat, NEW k \in 1 .. n, Len(IpsOf(c)) = n,
           \A i \in 1 .. n : IpsOf(c)[i] \in Nat \ {0},
           NEW old \in Nat, (old = 0 /\ k = 1) \/ IsHighest(c, old, k - 1)
    PROVE  IsHighest(c, IF IpsOf(c)[k] > old THEN IpsOf(c)[k] ELSE old, k)
<1>1. \A i \in 1 .. k : i = k \/ i \in 1 .. k - 1
  OBVIOUS
<1>2. \A i \in 1 .. k : i \in 1 .. n
  OBVIOUS
<1>3. IpsOf(c)[k] \in Nat \ {0}
  OBVIOUS
<1>4. \A i \in 1 .. k - 1 : old >= IpsOf(c)[i]
  BY DEF IsHighest
<1>5. CASE IpsOf(c)[k] > old
  <2>1. \A i \in 1 .. k : IpsOf(c)[k] >= IpsOf(c)[i]
    BY <1>1, <1>2, <1>3, <1>4, <1>5
  <2> QED BY <1>5, <2>1 DEF IsHighest
<1>6. CASE ~(IpsOf(c)[k] > old)
  <2>1. IsHighest(c, old, k - 1)
    BY <1>3, <1>6
  <2>2. \A i \in 1 .. k : old >= IpsOf(c)[i]
    BY <1>1, <1>2, <1>3, <1>4, <1>6
  <2> QED BY <1>6, <2>1, <2>2 DEF IsHighest
<1> QED BY <1>5, <1>6

LEMMA ScanOK ==
    ASSUME IInv, NEW c \in Conns, Scan(c)
    PROVE  IInv'
<1>1. /\ setup[c] = "scan"
      /\ direct' = direct /\ drowsy' = drowsy
      /\ UNCHANGED <<pox, wires, pc, list, writing, raced>>
      /\ pc' = pc /\ entries' = entries
  BY DEF Scan, list
<1>2. SetupTypes /\ drowsy \subseteq Conns /\ SetupOK(c)
  BY DEF IInv, Types, RunTypes
<1>3. /\ at[c] \in Nat \ {0} /\ id[c] \in Nat /\ Len(ifs[c]) \in Nat /\ Len(IpsOf(c)) \in Nat
      /\ ~Young(c)
      /\ at[c] <= Len(ifs[c]) => ifs[c][at[c]] \in Iface
      /\ c \notin drowsy =>
            /\ Len(ifs[c]) = Len(IpsOf(c)) /\ at[c] \in 1 .. Len(IpsOf(c)) + 1 /\ Complete(c)
            /\ at[c] <= Len(ifs[c]) =>
                  /\ ifs[c][at[c]].ip = IpsOf(c)[at[c]]
                  /\ IpsOf(c)[at[c]] \in Nat \ {0}
  BY <1>1, Looks
<1>4. ~Young(c)' /\ Complete(c)' = Complete(c)
  BY <1>1, <1>3 DEF Young, Complete, IpsOf
<1>5. CASE at[c] <= Len(ifs[c])
  <2> DEFINE ip == ifs[c][at[c]].ip
             highest == IF ip > id[c] THEN ip ELSE id[c]
  <2>1. /\ id' = [id EXCEPT ![c] = highest]
        /\ at' = [at EXCEPT ![c] = @ + 1]
        /\ setup' = setup
    BY <1>5 DEF Scan
  <2>2. ip \in Nat /\ highest \in Nat
    BY <1>3, <1>5 DEF Iface
  <2>3. c \notin drowsy => IsHighest(c, highest, at[c])
    <3> SUFFICES ASSUME c \notin drowsy PROVE IsHighest(c, highest, at[c])
      OBVIOUS
    <3>1. IpsOf(c) \in Seq(Nat \ {0})
      BY OwnerAssumption, IpsAssumption DEF IpsOf
    <3>2. \A i \in 1 .. Len(IpsOf(c)) : IpsOf(c)[i] \in Nat \ {0}
      BY <3>1, ElementOfSeq
    <3>3. at[c] \in 1 .. Len(IpsOf(c)) /\ ip = IpsOf(c)[at[c]]
      BY <1>3, <1>5
    <3>4. (id[c] = 0 /\ at[c] = 1) \/ IsHighest(c, id[c], at[c] - 1)
      BY <1>1, <1>2 DEF SetupOK
    <3> QED BY <1>3, <3>2, <3>3, <3>4, Higher
  <2> HIDE DEF highest, ip
  <2>4. /\ SetupTypes' /\ id'[c] = highest /\ at'[c] = at[c] + 1
        /\ \A d \in Conns : d # c => id'[d] = id[d] /\ at'[d] = at[d]
    BY <1>1, <1>2, <2>1, <2>2 DEF SetupTypes
  <2>5. SetupOK(c)'
    <3>1. at[c] + 1 # 0 /\ at[c] + 1 - 1 = at[c]
      BY <1>3
    <3>2. c \notin drowsy => at[c] + 1 \in 1 .. Len(IpsOf(c)) + 1
      BY <1>3, <1>5
    <3>3. setup'[c] = "scan" /\ direct'[c] = {}
      BY <1>1, <1>2, <2>1 DEF SetupOK
    <3>4. /\ ~Young(c)' /\ (c \notin drowsy => Complete(c)')
          /\ c \notin drowsy => IsHighest(c, id'[c], at'[c] - 1)
      BY <1>3, <1>4, <2>3, <2>4, <3>1
    <3> QED BY <1>1, <2>4, <3>1, <3>2, <3>3, <3>4 DEF SetupOK, IpsOf, IsHighest
  <2> QED BY <1>1, <1>2, <2>1, <2>4, <2>5, SetupMoves
<1>6. CASE ~(at[c] <= Len(ifs[c]))
  <2>1. /\ id' = id
        /\ at' = [at EXCEPT ![c] = 1]
        /\ setup' = [setup EXCEPT ![c] = IF id[c] = 0 THEN "scan" ELSE "routes"]
    BY <1>6 DEF Scan
  <2>2. /\ SetupTypes' /\ at'[c] = 1 /\ id'[c] = id[c]
        /\ setup'[c] = IF id[c] = 0 THEN "scan" ELSE "routes"
        /\ \A d \in Conns : d # c => at'[d] = at[d] /\ setup'[d] = setup[d]
    BY <1>1, <1>2, <2>1 DEF SetupTypes, Stages
  <2>3. SetupOK(c)'
    <3>1. direct'[c] = {}
      BY <1>1, <1>2 DEF SetupOK
    <3>2. Directs(1 - 1) = {}
      BY DEF Directs
    <3>3. c \notin drowsy => /\ at[c] - 1 = Len(IpsOf(c))
                             /\ 1 \in 1 .. Len(IpsOf(c)) + 1
                             /\ Complete(c)'
      BY <1>3, <1>4, <1>6
    <3>4. c \notin drowsy => (id[c] = 0 /\ at[c] = 1) \/ IsHighest(c, id[c], at[c] - 1)
      BY <1>1, <1>2 DEF SetupOK
    <3>5. CASE id[c] = 0
      BY <1>1, <1>4, <2>2, <3>1, <3>3, <3>5 DEF SetupOK, IpsOf
    <3>6. CASE id[c] # 0
      <4>1. c \notin drowsy => IsHighest(c, id[c], Len(IpsOf(c)))
        BY <3>3, <3>4, <3>6
      <4> QED BY <1>1, <1>4, <2>2, <3>1, <3>2, <3>3, <3>6, <4>1
            DEF SetupOK, IpsOf, IsHighest, Directs
    <3> QED BY <3>5, <3>6
  <2> QED BY <1>1, <1>2, <2>1, <2>2, <2>3, SetupMoves
<1> QED BY <1>5, <1>6

LEMMA AddDirectOK ==
    ASSUME IInv, NEW c \in Conns, AddDirect(c)
    PROVE  IInv'
<1>1. /\ setup[c] = "routes"
      /\ id' = id /\ drowsy' = drowsy
      /\ UNCHANGED <<pox, wires, pc, list, writing, raced>>
      /\ pc' = pc /\ entries' = entries
  BY DEF AddDirect, list
<1>2. SetupTypes /\ drowsy \subseteq Conns /\ SetupOK(c)
  BY DEF IInv, Types, RunTypes
<1>3. /\ at[c] \in Nat \ {0} /\ id[c] \in Nat /\ Len(ifs[c]) \in Nat /\ Len(IpsOf(c)) \in Nat
      /\ ~Young(c)
      /\ at[c] <= Len(ifs[c]) => ifs[c][at[c]] \in Iface
      /\ c \notin drowsy =>
            /\ Len(ifs[c]) = Len(IpsOf(c)) /\ at[c] \in 1 .. Len(IpsOf(c)) + 1 /\ Complete(c)
            /\ at[c] <= Len(ifs[c]) => ifs[c][at[c]].masked = TRUE
  BY <1>1, Looks
<1>4. ~Young(c)' /\ Complete(c)' = Complete(c)
  BY <1>1, <1>3 DEF Young, Complete, IpsOf
<1>5. /\ id[c] # 0
      /\ c \notin drowsy => /\ direct[c] = Directs(at[c] - 1)
                            /\ IsHighest(c, id[c], Len(IpsOf(c)))
  BY <1>1, <1>2 DEF SetupOK
<1>6. CASE at[c] <= Len(ifs[c])
  <2> DEFINE new == [iface |-> at[c], masked |-> ifs[c][at[c]].masked]
  <2>1. /\ direct' = [direct EXCEPT ![c] = @ \cup {new}]
        /\ at' = [at EXCEPT ![c] = @ + 1]
        /\ setup' = setup
    BY <1>6 DEF AddDirect
  <2>2. new \in Route
    BY <1>3, <1>6 DEF Iface, Route
  <2>3. c \notin drowsy => new = [iface |-> at[c], masked |-> TRUE]
    BY <1>3, <1>6
  <2> HIDE DEF new
  <2>4. /\ SetupTypes' /\ direct'[c] = direct[c] \cup {new} /\ at'[c] = at[c] + 1
        /\ \A d \in Conns : d # c => direct'[d] = direct[d] /\ at'[d] = at[d]
    BY <1>1, <1>2, <2>1, <2>2 DEF SetupTypes
  <2>5. SetupOK(c)'
    <3>1. at[c] + 1 # 0 /\ at[c] + 1 - 1 = at[c]
      BY <1>3
    <3>2. c \notin drowsy => at[c] + 1 \in 1 .. Len(IpsOf(c)) + 1
      BY <1>3, <1>6
    <3>3. setup'[c] = "routes"
      BY <1>1, <2>1
    <3>4. c \notin drowsy => direct'[c] = Directs(at'[c] - 1)
      <4>1. \A n \in Nat \ {0} :
               Directs(n) = Directs(n - 1) \cup {[iface |-> n, masked |-> TRUE]}
        <5> SUFFICES ASSUME NEW n \in Nat \ {0}
                     PROVE  Directs(n) = Directs(n - 1) \cup {[iface |-> n, masked |-> TRUE]}
          OBVIOUS
        <5>1. \A i : i \in 1 .. n <=> i \in 1 .. n - 1 \/ i = n
          OBVIOUS
        <5> QED BY <5>1, Zenon DEF Directs
      <4>2. at'[c] - 1 = at[c]
        <5>1. at'[c] = at[c] + 1 /\ at[c] \in Nat
          BY <1>3, <2>4
        <5>2. \A x \in Nat : \A y : y = x + 1 => y - 1 = x
          OBVIOUS
        <5> QED BY <5>1, <5>2
      <4>3. Directs(at[c]) = Directs(at[c] - 1) \cup {[iface |-> at[c], masked |-> TRUE]}
        BY <1>3, <4>1
      <4>4. c \notin drowsy => direct[c] = Directs(at[c] - 1)
        BY <1>5
      <4> QED BY <2>3, <2>4, <4>2, <4>3, <4>4
    <3> QED BY <1>1, <1>3, <1>4, <1>5, <2>4, <3>1, <3>2, <3>3, <3>4
        DEF SetupOK, IpsOf, IsHighest, Directs
  <2> QED BY <1>1, <1>2, <2>1, <2>4, <2>5, SetupMoves
<1>7. CASE ~(at[c] <= Len(ifs[c]))
  <2>1. setup' = [setup EXCEPT ![c] = "done"] /\ at' = at /\ direct' = direct
    BY <1>7 DEF AddDirect
  <2>2. /\ SetupTypes' /\ setup'[c] = "done"
        /\ \A d \in Conns : d # c => setup'[d] = setup[d]
    BY <1>1, <1>2, <2>1 DEF SetupTypes, Stages
  <2>3. SetupOK(c)'
    <3>1. c \notin drowsy => at[c] - 1 = Len(IpsOf(c)) /\ Complete(c)'
      BY <1>3, <1>4, <1>7
    <3>2. c \notin drowsy => direct[c] = Directs(Len(IpsOf(c)))
      BY <1>5, <3>1
    <3> QED BY <1>1, <1>4, <1>5, <2>1, <2>2, <3>1, <3>2 DEF SetupOK, IpsOf, IsHighest, Directs
  <2> QED BY <1>1, <1>2, <2>1, <2>2, <2>3, SetupMoves
<1> QED BY <1>6, <1>7

-----------------------------------------------------------------------------
\* Frames the router writes

\* Only a run that had its hardware information writes.
LEMMA Writes ==
    ASSUME IInv, NEW c \in Conns, ifs[c] # <<>> \/ half[c] # {}
    PROVE  c \in served /\ ~Young(c) /\ pc[c] \notin {"off", "request", "status"}
<1>1. Types /\ HardwareOK(c) /\ WritingOK(c) /\ YoungOK(c)
  BY DEF IInv, SessionOK
<1>2. c \in served
  <2>1. ASSUME c \notin served, ifs[c] # <<>> PROVE FALSE
    <3>1. ifs[c] \in Seq(Iface) /\ entries[c] = 0 /\ (0 + 2) \div 3 = 0
      BY <1>1, <2>1 DEF Types, ListTypes, HardwareOK
    <3> QED BY <1>1, <2>1, <3>1, EmptySeq DEF HardwareOK
  <2>2. ASSUME c \notin served, half[c] # {} PROVE FALSE
    BY <1>1, <2>2 DEF WritingOK
  <2> QED BY <2>1, <2>2
<1> QED BY <1>1, <1>2 DEF YoungOK, Young

\* The stream after a write of the run c.
LEMMA WriteMoves ==
    ASSUME IInv, NEW c \in Conns, c \in served, ~Young(c),
           UNCHANGED <<pox, down, closed, pc, list, pwospf, raced>>,
           up' \in [Conns -> Seq(Half)], WriteTypes', full \subseteq full', full' \subseteq full \cup {c},
           \A d \in Conns : d # c => up'[d] = up[d] /\ half'[d] = half[d],
           \A type : type # "packet" => (Has(up'[c], type) <=> Has(up[c], type)),
           OneOpen(up'[c]), WritingOK(c)'
    PROVE  IInv'
<1>1. UNCHANGED <<interfaces, srclients, opening, down, closed, pc, ifs, entries, served, setup, at, id,
                  direct, drowsy, raced>>
  BY DEF pox, list, pwospf
<1>2. Types /\ Each(c)
  BY DEF IInv, Each
<1>3. Types'
  <2>1. full' \subseteq Conns
    BY <1>2 DEF Types, RunTypes
  <2> QED BY <1>1, <1>2, <2>1 DEF Types, PoxTypes, WireTypes, RunTypes, ListTypes, SetupTypes
<1>4. \A d \in Conns : d # c => Apart(d)
  BY <1>1 DEF Apart
<1>5. Calm(c)
  <2>1. Has(up'[c], "open") <=> Has(up[c], "open")
    OBVIOUS
  <2> QED BY <1>1, <2>1 DEF Calm, Running, Young, Has
<1>6. FramesOK(c)' /\ HardwareOK(c)' /\ SetupOK(c)'
  BY <1>1, <1>2, FramesKeeps, HardwareKeeps, SetupKeeps DEF Each, Young
<1>7. StreamOK(c)'
  BY <1>1, <1>2, StreamKeeps DEF Each, Young
<1> QED BY <1>1, <1>3, <1>4, <1>5, <1>6, <1>7, RunMoves DEF Each

LEMMA WriteOK ==
    ASSUME IInv, NEW c \in Conns, NEW t \in Writers, Write(c, t)
    PROVE  IInv'
<1>1. /\ ifs[c] # <<>> /\ Fits(c, 1)
      /\ frames' = [frames EXCEPT ![c] = @ + 1]
      /\ UNCHANGED <<pox, down, closed, pc, list, pwospf, raced>>
      /\ UNCHANGED <<served>>
  BY DEF Write, list
<1>2. Types /\ WritingOK(c) /\ OneOpen(up[c]) /\ up[c] \in Seq(Half) /\ Len(up[c]) \in Nat
  BY LenProperties DEF IInv, SessionOK, OpenOK, Types, WireTypes
<1>3. c \in served /\ ~Young(c) /\ pc[c] \notin {"off", "request", "status"}
  BY <1>1, Writes
<1>4. frames' \in [Conns -> Nat]
  BY <1>1, <1>2 DEF Types, WriteTypes
<1>5. CASE Fits(c, 2)
  <2>1. up' = [up EXCEPT ![c] = @ \o Whole("packet", t)] /\ half' = half /\ full' = full
    BY <1>5 DEF Write
  <2> DEFINE new == up[c] \o Whole("packet", t)
  <2>2. /\ new \in Seq(Half) /\ Len(new) = Len(up[c]) + 2
        /\ \A type : Has(new, type) <=> Has(up[c], type) \/ "packet" = type
        /\ OneOpen(new)
        /\ Wholes(up[c]) => Wholes(new)
    BY <1>2, WholeHas
  <2>3. up' = [up EXCEPT ![c] = new]
    BY <2>1
  <2> HIDE DEF new
  <2>4. up' \in [Conns -> Seq(Half)] /\ up'[c] = new /\ \A d \in Conns : d # c => up'[d] = up[d]
    BY <1>2, <2>2, <2>3 DEF Types, WireTypes
  <2>5. Len(new) <= Room
    BY <1>5, <2>2 DEF Fits
  <2>6. WritingOK(c)'
    BY <1>1, <1>2, <2>1, <2>2, <2>4, <2>5 DEF WritingOK, Wholes, Halves
  <2>7. WriteTypes'
    BY <1>2, <1>4, <2>1 DEF Types, WriteTypes
  <2>8. \A type : type # "packet" => (Has(up'[c], type) <=> Has(up[c], type))
    BY <2>2, <2>4
  <2> QED BY <1>1, <1>3, <2>1, <2>2, <2>4, <2>6, <2>7, <2>8, WriteMoves
<1>6. CASE ~Fits(c, 2)
  <2> DEFINE m == Whole("packet", t)[1]
             new == Append(up[c], m)
  <2>1. /\ up' = [up EXCEPT ![c] = new]
        /\ half' = [half EXCEPT ![c] = @ \cup {t}]
        /\ full' = full \cup {c}
    BY <1>6 DEF Write
  <2>2. m \in Half /\ m.type = "packet"
    BY DEF Whole, Half
  <2> HIDE DEF m
  <2>3. /\ new \in Seq(Half) /\ Len(new) = Len(up[c]) + 1
        /\ \A type : Has(new, type) <=> Has(up[c], type) \/ m.type = type
        /\ OneOpen(new)
    BY <1>2, <2>2, AppendHas
  <2> HIDE DEF new
  <2>4. up' \in [Conns -> Seq(Half)] /\ up'[c] = new /\ \A d \in Conns : d # c => up'[d] = up[d]
    BY <1>2, <2>1, <2>3 DEF Types, WireTypes
  <2>5. Len(new) <= Room
    BY <1>1, <2>3 DEF Fits
  <2>6. WritingOK(c)'
    BY <1>1, <1>3, <2>1, <2>4, <2>5 DEF WritingOK
  <2>7. WriteTypes' /\ \A d \in Conns : d # c => half'[d] = half[d]
    BY <1>2, <1>4, <2>1 DEF Types, WriteTypes
  <2>8. \A type : type # "packet" => (Has(up'[c], type) <=> Has(up[c], type))
    BY <2>2, <2>3, <2>4
  <2> QED BY <1>1, <1>3, <2>1, <2>3, <2>4, <2>6, <2>7, <2>8, WriteMoves
<1> QED BY <1>5, <1>6

\* The rest of a frame is written on a connection that was full.
LEMMA WriteRestOK ==
    ASSUME IInv, NEW c \in Conns, NEW t \in Writers, WriteRest(c, t)
    PROVE  IInv'
<1> DEFINE m == Whole("packet", t)[2]
           new == Append(up[c], m)
<1>1. /\ t \in half[c] /\ Fits(c, 1)
      /\ up' = [up EXCEPT ![c] = new]
      /\ half' = [half EXCEPT ![c] = @ \ {t}]
      /\ UNCHANGED <<pox, down, closed, pc, list, pwospf, raced>>
      /\ frames' = frames /\ full' = full /\ served' = served
  BY DEF WriteRest, list
<1>2. Types /\ WritingOK(c) /\ OneOpen(up[c]) /\ up[c] \in Seq(Half)
  BY DEF IInv, SessionOK, OpenOK, Types, WireTypes
<1>3. c \in served /\ ~Young(c) /\ pc[c] \notin {"off", "request", "status"} /\ c \in full
  BY <1>1, <1>2, Writes DEF WritingOK
<1>4. m \in Half /\ m.type = "packet"
  BY DEF Whole, Half
<1> HIDE DEF m
<1>5. /\ new \in Seq(Half) /\ Len(new) = Len(up[c]) + 1
      /\ \A type : Has(new, type) <=> Has(up[c], type) \/ m.type = type
      /\ OneOpen(new)
  BY <1>2, <1>4, AppendHas
<1> HIDE DEF new
<1>6. up' \in [Conns -> Seq(Half)] /\ up'[c] = new /\ \A d \in Conns : d # c => up'[d] = up[d]
  BY <1>1, <1>2, <1>5 DEF Types, WireTypes
<1>7. Len(new) <= Room
  BY <1>1, <1>5 DEF Fits
<1>8. WritingOK(c)'
  BY <1>1, <1>3, <1>6, <1>7 DEF WritingOK
<1>9. WriteTypes' /\ \A d \in Conns : d # c => half'[d] = half[d]
  BY <1>1, <1>2 DEF Types, WriteTypes
<1>10. \A type : type # "packet" => (Has(up'[c], type) <=> Has(up[c], type))
  BY <1>4, <1>5, <1>6
<1> QED BY <1>1, <1>3, <1>5, <1>6, <1>8, <1>9, <1>10, WriteMoves

-----------------------------------------------------------------------------
\* The invariant

LEMMA InitOK == Init => IInv
<1> SUFFICES ASSUME Init PROVE IInv
  OBVIOUS
<1>1. \A S : <<>> \in Seq(S)
  OBVIOUS
<1>2. Types
  BY <1>1 DEF Init, Types, PoxTypes, WireTypes, RunTypes, ListTypes, SetupTypes, WriteTypes, States, Stages
<1>3. ASSUME NEW c \in Conns
      PROVE  /\ pc[c] = "off" /\ up[c] = <<>> /\ down[c] = <<>> /\ ifs[c] = <<>> /\ entries[c] = 0
             /\ setup[c] = "none" /\ id[c] = 0 /\ direct[c] = {} /\ half[c] = {}
             /\ srclients[Owner[c]] = NoConn /\ opening # c /\ c # NoConn
             /\ c \notin served /\ c \notin raced
  BY OwnerAssumption DEF Init
<1>4. SessionOK
  <2>1. OneRun /\ Owned
    BY <1>3, OwnerAssumption DEF Init, OneRun, Owned, Running
  <2>2. ASSUME NEW c \in Conns PROVE YoungOK(c) /\ OpenOK(c) /\ ToldOK(c) /\ RegisteredOK(c)
    <3>1. OneOpen(up[c]) /\ \A type : ~Has(up[c], type) /\ ~Has(down[c], type)
      BY <1>3, EmptyHas
    <3> QED BY <1>3, <3>1 DEF YoungOK, OpenOK, ToldOK, RegisteredOK
  <2> QED BY <2>1, <2>2 DEF SessionOK
<1>5. ASSUME NEW c \in Conns
      PROVE  StreamOK(c) /\ FramesOK(c) /\ HardwareOK(c) /\ WritingOK(c) /\ SetupOK(c)
  <2>1. Preceded(down[c]) /\ Wholes(up[c]) /\ \A n : Named(down[c], n)
    BY <1>3, EmptyHas
  <2>2. StreamOK(c) /\ FramesOK(c) /\ SetupOK(c)
    BY <1>3, <2>1 DEF StreamOK, FramesOK, SetupOK
  <2>3. WritingOK(c)
    BY <1>3, <2>1, EmptyHas, BoundsAssumption DEF WritingOK
  <2>4. HardwareOK(c)
    <3>1. Len(<<>>) = 0 /\ (0 + 2) \div 3 = 0 /\ 1 .. 0 = {} /\ \A n \in Nat : 0 <= 3 * n
      BY EmptyHas
    <3>2. Len(IpsOf(c)) \in Nat
      BY OwnerAssumption, IpsAssumption, LenProperties DEF IpsOf
    <3> QED BY <1>3, <3>1, <3>2 DEF HardwareOK
  <2> QED BY <2>2, <2>3, <2>4
<1> QED BY <1>2, <1>4, <1>5 DEF IInv

LEMMA StutterOK == IInv /\ UNCHANGED vars => IInv'
<1> SUFFICES ASSUME IInv, UNCHANGED vars PROVE IInv'
  OBVIOUS
<1>1. UNCHANGED <<interfaces, srclients, opening, packets, up, down, closed, pc, ifs, entries, served,
                  setup, at, id, direct, drowsy, half, frames, full, raced>>
  BY DEF vars, pox, wires, list, pwospf, writing
<1>2. Types'
  BY <1>1 DEF IInv, Types, PoxTypes, WireTypes, RunTypes, ListTypes, SetupTypes, WriteTypes
<1>3. \A d \in Conns : Each(d)' /\ Calm(d)
  BY <1>1, ApartKeeps DEF Apart
<1>4. SessionOK'
  BY <1>1, <1>3, CalmSession DEF IInv
<1> QED BY <1>2, <1>3, <1>4, Together DEF Each

LEMMA StepOK == IInv /\ [Next]_vars => IInv'
<1> SUFFICES ASSUME IInv, [Next]_vars PROVE IInv'
  OBVIOUS
<1>1. ASSUME NEW v \in Vhosts, SwitchUp(v) PROVE IInv'
  BY <1>1, SwitchUpOK
<1>2. ASSUME NEW v \in Vhosts, NEW i \in DOMAIN Ips[v], PacketIn(v, i) PROVE IInv'
  BY <1>2, PacketInOK
<1>3. ASSUME NEW c \in Conns, Start(c) \/ NoKey(c) \/ Kill(c) \/ WriteClosed(c) PROVE IInv'
  BY <1>3, StartsOK, NoKeyOK, GoneOK DEF Kill, WriteClosed
<1>4. ASSUME NEW c \in Conns, Reactor(c) PROVE IInv'
  BY <1>4, AuthReplyOK, OpenOpens, OpenAnswerOK, OpenTemplateOK, PacketOutOK, GarbledOK DEF Reactor
<1>5. ASSUME NEW c \in Conns, Main(c) PROVE IInv'
  BY <1>5, AuthRequestOK, AuthStatusOK, AskTemplateOK, HwInfoOK, HwEntryOK, HwDoneOK, PacketReadOK,
     EofOK DEF Main
<1>6. ASSUME NEW c \in Conns, Setup(c) PROVE IInv'
  BY <1>6, WakeOK, ScanOK, AddDirectOK DEF Setup
<1>7. ASSUME NEW c \in Conns, NEW t \in Writers, Write(c, t) \/ WriteRest(c, t) PROVE IInv'
  BY <1>7, WriteOK, WriteRestOK
<1>8. CASE UNCHANGED vars
  BY <1>8, StutterOK
<1> QED BY <1>1, <1>2, <1>3, <1>4, <1>5, <1>6, <1>7, <1>8 DEF Next

\* Every reachable state of a session has the inductive invariant.
THEOREM Invariance == Spec => []IInv
<1>1. Init => IInv
  BY InitOK
<1>2. IInv /\ [Next]_vars => IInv'
  BY StepOK
<1> QED BY <1>1, <1>2, PTL DEF Spec

-----------------------------------------------------------------------------
\* What the invariant says of a session

\* A run aborts on a frame for an interface it does not have only if the frame went to its
\* connection while POX was opening it.
THEOREM OnlyRacedAbort == Spec => []AbortsOnlyRaced
<1>1. IInv => AbortsOnlyRaced
  BY DEF IInv, FramesOK, AbortsOnlyRaced
<1> QED BY <1>1, Invariance, PTL

\* The two halves of every message lie together in the stream of a run whose every write fitted.
THEOREM MessagesAreWhole == Spec => []FramesWhole
<1>1. IInv => FramesWhole
  <2> SUFFICES ASSUME IInv, NEW c \in Conns \ full, NEW k \in DOMAIN up[c], k % 2 = 1
               PROVE  k < Len(up[c]) /\ Halves(up[c][k], up[c][k + 1])
    BY DEF FramesWhole
  <2>1. Wholes(up[c])
    BY DEF IInv, WritingOK
  <2>2. k \in 1 .. Len(up[c])
    BY LenProperties DEF IInv, Types, WireTypes
  <2> QED BY <2>1, <2>2 DEF Wholes
<1> QED BY <1>1, Invariance, PTL

\* The frames of a vhost go to the run that has its hardware information, or to one that was
\* stopped before it had its own.
THEOREM FramesFindTheRun == Spec => []RegisteredRuns
<1>1. IInv => RegisteredRuns
  BY DEF IInv, SessionOK, RegisteredOK, GoesTo, RegisteredRuns
<1> QED BY <1>1, Invariance, PTL

\* The highest address is one.
LEMMA HighestIsMax ==
    ASSUME NEW c \in Conns, NEW ip, IsHighest(c, ip, Len(IpsOf(c)))
    PROVE  ip = MaxIp(c)
<1>1. IpsOf(c) \in Seq(Nat \ {0})
  BY OwnerAssumption, IpsAssumption DEF IpsOf
<1>2. DOMAIN IpsOf(c) = 1 .. Len(IpsOf(c)) /\ \A i \in 1 .. Len(IpsOf(c)) : IpsOf(c)[i] \in Nat
  BY <1>1, LenProperties, ElementOfSeq
<1> DEFINE Addresses == {IpsOf(c)[i] : i \in DOMAIN IpsOf(c)}
           Top(x) == \A i \in DOMAIN IpsOf(c) : x >= IpsOf(c)[i]
<1>3. ip \in Addresses /\ Top(ip)
  BY <1>2 DEF IsHighest
<1>4. \A x, y \in Addresses : Top(x) /\ Top(y) => x = y
  <2> SUFFICES ASSUME NEW x \in Addresses, NEW y \in Addresses, Top(x), Top(y) PROVE x = y
    OBVIOUS
  <2>1. x \in Nat /\ y \in Nat /\ x >= y /\ y >= x
    BY <1>2
  <2> QED BY <2>1
<1> HIDE DEF Addresses, Top
<1>5. ip = CHOOSE x \in Addresses : Top(x)
  BY <1>3, <1>4
<1> QED BY <1>5 DEF MaxIp, Addresses, Top

\* The session has its types; once PWOSPF is set up the router has an identifier, and unless the
\* set-up woke up too early it is the highest address and every interface has its direct route.
THEOREM StartsRight == Spec => []StartOK
<1>1. IInv => TypeOK
  <2> SUFFICES ASSUME IInv PROVE TypeOK
    OBVIOUS
  <2>1. ASSUME NEW c \in Conns
        PROVE  /\ pc[c] \in States /\ Len(up[c]) <= Room
               /\ Len(ifs[c]) = (entries[c] + 2) \div 3
               /\ setup[c] \in Stages
    BY DEF IInv, Types, RunTypes, SetupTypes, WritingOK, HardwareOK
  <2> QED BY <2>1 DEF IInv, Types, PoxTypes, WireTypes, RunTypes, TypeOK, States, Stages
<1>2. IInv => IdIsHighest
  <2> SUFFICES ASSUME IInv, NEW c \in Conns
               PROVE  /\ setup[c] \in {"routes", "done"} => id[c] # 0
                      /\ setup[c] = "done" /\ c \notin drowsy =>
                            /\ id[c] = MaxIp(c)
                            /\ direct[c] = {[iface |-> i, masked |-> TRUE] : i \in DOMAIN IpsOf(c)}
    BY DEF IdIsHighest
  <2>1. SetupOK(c)
    BY DEF IInv
  <2>2. ASSUME setup[c] = "done", c \notin drowsy
        PROVE  IsHighest(c, id[c], Len(IpsOf(c))) /\ direct[c] = Directs(Len(IpsOf(c)))
    BY <2>1, <2>2 DEF SetupOK
  <2>3. DOMAIN IpsOf(c) = 1 .. Len(IpsOf(c))
    BY OwnerAssumption, IpsAssumption, LenProperties DEF IpsOf
  <2>4. Directs(Len(IpsOf(c))) = {[iface |-> i, masked |-> TRUE] : i \in DOMAIN IpsOf(c)}
    BY <2>3, Zenon DEF Directs
  <2>5. setup[c] \in {"routes", "done"} => id[c] # 0
    BY <2>1 DEF SetupOK
  <2> QED BY <2>2, <2>4, <2>5, HighestIsMax
<1>3. IInv => StartOK
  BY <1>1, <1>2 DEF StartOK
<1> QED BY <1>3, Invariance, PTL

=============================================================================
