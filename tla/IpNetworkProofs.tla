-------------------------- MODULE IpNetworkProofs --------------------------
(***************************************************************************)
(* Theorems about IpNetwork, for any network, tables, offers and bounds:   *)
(* the scan of a routing table finds the first of the longest entries, a   *)
(* packet is in one place at most, whatever its way, and errors die out    *)
(* where the routers have ways back.                                       *)
(***************************************************************************)
EXTENDS IpNetwork, TLAPS, SequenceTheorems, FiniteSetTheorems, WellFoundedInduction

-----------------------------------------------------------------------------
\* The scan of the routing table

\* A set of natural numbers has a least element: what is wrong for some number is right
\* up to one where it is wrong first.
LEMMA Least == \A T \in SUBSET Nat : T # {} => \E x \in T : \A y \in T : x <= y
<1> SUFFICES ASSUME NEW T \in SUBSET Nat, T # {} PROVE \E x \in T : \A y \in T : x <= y
  OBVIOUS
<1> DEFINE R == OpToRel(<, Nat)
<1>1. IsWellFoundedOn(R, Nat)
  BY NatLessThanWellFounded
<1>2. \A i, j \in Nat : i < j => <<i, j>> \in R
  BY DEF OpToRel
<1> HIDE DEF R
<1>3. PICK x \in T : \A y \in T : ~(<<y, x>> \in R)
  BY <1>1, WFMin
<1>4. ASSUME NEW y \in T PROVE x <= y
  <2>1. x \in Nat /\ y \in Nat
    OBVIOUS
  <2>2. ~(y < x)
    BY <1>2, <1>3, <2>1
  <2> QED BY <2>1, <2>2
<1> QED BY <1>4

\* The entries among the first n that an address may use.
Usable(routes, a, n) == {k \in 1 .. n : Matches(routes[k], a) /\ routes[k].length > 0}

\* j is the first of the longest of them, or 0.
IsLongest(routes, a, n, j) ==
    IF Usable(routes, a, n) = {} THEN j = 0
    ELSE /\ j \in Usable(routes, a, n)
         /\ \A k \in Usable(routes, a, n) :
               \/ routes[k].length < routes[j].length
               \/ routes[k].length = routes[j].length /\ j <= k

\* What the scan keeps after the entry i when it had kept the entry j.
Better(routes, a, i, j) ==
    IF Matches(routes[i], a) /\ routes[i].length > (IF j = 0 THEN 0 ELSE routes[j].length)
    THEN i ELSE j

\* f tells what the scan has kept after each entry.
IsScan(routes, a, f) ==
    f = [i \in 0 .. Len(routes) |-> IF i = 0 THEN 0 ELSE Better(routes, a, i, f[i - 1])]

LEMMA Entries ==
    ASSUME NEW routes \in Seq(Entry)
    PROVE  \A k \in 1 .. Len(routes) : routes[k] \in Entry
BY ElementOfSeq

LEMMA NoneUsable ==
    ASSUME NEW routes, NEW a
    PROVE  IsLongest(routes, a, 0, 0)
BY DEF IsLongest, Usable

\* One step of the scan.
LEMMA BetterIsLongest ==
    ASSUME NEW routes \in Seq(Entry), NEW a, NEW i \in 1 .. Len(routes), NEW j,
           IsLongest(routes, a, i - 1, j)
    PROVE  IsLongest(routes, a, i, Better(routes, a, i, j))
<1> DEFINE before == Usable(routes, a, i - 1)
           now == Usable(routes, a, i)
<1>1. \A k \in 1 .. Len(routes) : routes[k].length \in Nat
  BY Entries DEF Entry
<1>2. now = before \cup (IF Matches(routes[i], a) /\ routes[i].length > 0 THEN {i} ELSE {})
  BY DEF Usable
<1>3. before \subseteq 1 .. (i - 1)
  BY DEF Usable
<1>4. i \in Nat /\ i >= 1 /\ i - 1 \in Nat /\ Len(routes) \in Nat
  OBVIOUS
<1>5. CASE before = {}
  <2>1. j = 0
    BY <1>5 DEF IsLongest
  <2>2. CASE Matches(routes[i], a) /\ routes[i].length > 0
    <3>1. now = {i} /\ Better(routes, a, i, j) = i
      BY <1>2, <1>5, <2>1, <2>2 DEF Better
    <3> QED BY <3>1, <1>4 DEF IsLongest
  <2>3. CASE ~(Matches(routes[i], a) /\ routes[i].length > 0)
    <3>1. now = {} /\ Better(routes, a, i, j) = 0
      BY <1>2, <1>5, <2>1, <2>3 DEF Better
    <3> QED BY <3>1 DEF IsLongest
  <2> QED BY <2>2, <2>3
<1>6. CASE before # {}
  <2>1. /\ j \in before
        /\ \A k \in before : \/ routes[k].length < routes[j].length
                             \/ routes[k].length = routes[j].length /\ j <= k
    BY <1>6 DEF IsLongest
  <2>2. j \in 1 .. (i - 1) /\ j # 0 /\ routes[j].length > 0
    BY <1>3, <1>4, <2>1 DEF Usable
  <2>3. /\ routes[i].length \in Nat /\ routes[j].length \in Nat
        /\ \A k \in before : k \in 1 .. (i - 1) /\ routes[k].length \in Nat
    BY <1>1, <1>3, <1>4, <2>2
  <2> HIDE DEF before, now
  <2>4. CASE Matches(routes[i], a) /\ routes[i].length > routes[j].length
    <3>1. now = before \cup {i} /\ Better(routes, a, i, j) = i
      BY <1>2, <2>2, <2>3, <2>4 DEF Better
    <3>2. \A k \in now : \/ routes[k].length < routes[i].length
                         \/ routes[k].length = routes[i].length /\ i <= k
      <4> SUFFICES ASSUME NEW k \in now PROVE k = i \/ routes[k].length < routes[i].length
        BY <1>4
      <4>1. CASE k \in before
        BY <2>1, <2>3, <2>4, <4>1
      <4> QED BY <3>1, <4>1
    <3> QED BY <3>1, <3>2 DEF IsLongest, now
  <2>5. CASE ~(Matches(routes[i], a) /\ routes[i].length > routes[j].length)
    <3>1. Better(routes, a, i, j) = j
      BY <2>2, <2>5 DEF Better
    <3>2. j \in now
      BY <1>2, <2>1
    <3>3. \A k \in now : \/ routes[k].length < routes[j].length
                         \/ routes[k].length = routes[j].length /\ j <= k
      <4> SUFFICES ASSUME NEW k \in now, k \notin before
                   PROVE  \/ routes[k].length < routes[j].length
                          \/ routes[k].length = routes[j].length /\ j <= k
        BY <2>1
      <4>1. k = i /\ Matches(routes[i], a)
        BY <1>2
      <4>2. routes[i].length <= routes[j].length
        BY <2>3, <2>5, <4>1
      <4>3. j <= i
        BY <1>4, <2>2
      <4> QED BY <2>3, <4>1, <4>2, <4>3
    <3> QED BY <3>1, <3>2, <3>3 DEF IsLongest, now
  <2> QED BY <2>4, <2>5
<1> QED BY <1>5, <1>6

LEMMA LongestIsOne ==
    ASSUME NEW routes \in Seq(Entry), NEW a, NEW n \in 0 .. Len(routes), NEW j, NEW k,
           IsLongest(routes, a, n, j), IsLongest(routes, a, n, k)
    PROVE  j = k
<1>1. \A i \in Usable(routes, a, n) : i \in Nat /\ i \in 1 .. Len(routes)
  BY DEF Usable
<1>4. \A i \in Usable(routes, a, n) : routes[i].length \in Nat
  BY <1>1, Entries DEF Entry
<1>2. CASE Usable(routes, a, n) = {}
  BY <1>2 DEF IsLongest
<1>3. CASE Usable(routes, a, n) # {}
  <2>1. j \in Usable(routes, a, n) /\ k \in Usable(routes, a, n)
    BY <1>3 DEF IsLongest
  <2>2. \/ routes[k].length < routes[j].length
        \/ routes[k].length = routes[j].length /\ j <= k
    BY <1>3, <2>1 DEF IsLongest
  <2>3. \/ routes[j].length < routes[k].length
        \/ routes[j].length = routes[k].length /\ k <= j
    BY <1>3, <2>1 DEF IsLongest
  <2> QED BY <1>1, <1>4, <2>1, <2>2, <2>3
<1> QED BY <1>2, <1>3

LEMMA LongestExists ==
    ASSUME NEW routes \in Seq(Entry), NEW a
    PROVE  \A n \in 0 .. Len(routes) : \E j : IsLongest(routes, a, n, j)
<1> DEFINE Bad == {n \in 0 .. Len(routes) : ~ \E j : IsLongest(routes, a, n, j)}
<1>1. ASSUME Bad # {} PROVE FALSE
  <2>1. PICK n \in Bad : \A m \in Bad : n <= m
    <3>1. Bad \in SUBSET Nat
      OBVIOUS
    <3> QED BY <1>1, <3>1, Least
  <2>2. n # 0
    BY <2>1, NoneUsable
  <2>3. n \in 1 .. Len(routes) /\ n - 1 \in 0 .. Len(routes) /\ n - 1 \notin Bad
    BY <2>1, <2>2
  <2>4. PICK j : IsLongest(routes, a, n - 1, j)
    BY <2>3
  <2> QED BY <2>1, <2>3, <2>4, BetterIsLongest
<1> QED BY <1>1

LEMMA ScanExists ==
    ASSUME NEW routes \in Seq(Entry), NEW a
    PROVE  \E f : IsScan(routes, a, f)
<1> DEFINE f == [n \in 0 .. Len(routes) |-> CHOOSE j : IsLongest(routes, a, n, j)]
<1>1. \A n \in 0 .. Len(routes) : IsLongest(routes, a, n, f[n])
  BY LongestExists
<1>2. f[0] = 0
  BY <1>1, NoneUsable, LongestIsOne
<1>3. ASSUME NEW n \in 1 .. Len(routes) PROVE f[n] = Better(routes, a, n, f[n - 1])
  <2>1. n - 1 \in 0 .. Len(routes) /\ n \in 0 .. Len(routes)
    OBVIOUS
  <2>2. IsLongest(routes, a, n - 1, f[n - 1]) /\ IsLongest(routes, a, n, f[n])
    BY <1>1, <2>1
  <2> HIDE DEF f
  <2>3. IsLongest(routes, a, n, Better(routes, a, n, f[n - 1]))
    BY <2>2, BetterIsLongest
  <2> QED BY <2>1, <2>2, <2>3, LongestIsOne
<1>4. IsScan(routes, a, f)
  <2>1. f = [n \in 0 .. Len(routes) |-> f[n]]
    OBVIOUS
  <2>2. \A n \in 0 .. Len(routes) : n = 0 \/ n \in 1 .. Len(routes)
    OBVIOUS
  <2> HIDE DEF f
  <2> QED BY <1>2, <1>3, <2>1, <2>2 DEF IsScan
<1> QED BY <1>4

LEMMA ScansFindLongest ==
    ASSUME NEW routes \in Seq(Entry), NEW a, NEW f, IsScan(routes, a, f)
    PROVE  \A n \in 0 .. Len(routes) : IsLongest(routes, a, n, f[n])
<1> DEFINE Bad == {n \in 0 .. Len(routes) : ~IsLongest(routes, a, n, f[n])}
<1>1. ASSUME Bad # {} PROVE FALSE
  <2>1. PICK n \in Bad : \A m \in Bad : n <= m
    <3>1. Bad \in SUBSET Nat
      OBVIOUS
    <3> QED BY <1>1, <3>1, Least
  <2>2. n # 0
    BY <2>1, NoneUsable DEF IsScan
  <2>3. n \in 1 .. Len(routes) /\ n - 1 \in 0 .. Len(routes) /\ n - 1 \notin Bad
    BY <2>1, <2>2
  <2>4. IsLongest(routes, a, n - 1, f[n - 1])
    BY <2>3
  <2>5. f[n] = Better(routes, a, n, f[n - 1])
    BY <2>2, <2>3 DEF IsScan
  <2> QED BY <2>1, <2>3, <2>4, <2>5, BetterIsLongest
<1> QED BY <1>1

\* sr_find_rt_entry on any table and for any address.
LEMMA FindEntryIsLongest ==
    ASSUME NEW routes \in Seq(Entry), NEW a
    PROVE  IsLongest(routes, a, Len(routes), FindEntry(routes, a))
<1> DEFINE f == CHOOSE g : IsScan(routes, a, g)
<1>1. IsScan(routes, a, f)
  BY ScanExists
<1>2. FindEntry(routes, a) = f[Len(routes)]
  BY DEF FindEntry, IsScan, Better
<1> HIDE DEF f
<1> QED BY <1>1, <1>2, ScansFindLongest

-----------------------------------------------------------------------------
\* The inductive invariant

Kinds == Icmp \cup {"data", "ospf", "blank"}
Ids == Seq(Nat \cup Errors)
Hops == Addresses \cup Junk \cup {None}

Carriable ==
    [id : Ids, src : Addresses, dst : Addresses \cup Junk, ttl : Nat \ {0}, kind : Kinds,
     ok : BOOLEAN]

Framing == [from : Addresses, to : Addresses, pkt : Carriable]
Keeping == [hop : Hops, pkt : Carriable]

\* A frame is on one network.
OnNet(f) == Station[f.to] # NoStation /\ Station[f.from] # NoStation /\ Net[f.to] = Net[f.from]

TypesOK ==
    /\ [delivery |-> delivery, table |-> table] \in Networks
    /\ frames \subseteq Framing
    /\ waiting \in [Routers -> SUBSET Keeping]
    /\ sent \in Seq(Offers)

NetsOK == \A f \in frames : OnNet(f)

\* Where packets are, or were when they ended, each with its name.
OfFrame(f) == [id |-> f.pkt.id, where |-> "wire", what |-> f]
OfKept(r, w) == [id |-> w.pkt.id, where |-> "router", what |-> <<r, w>>]
OfEnd(e) == [id |-> e.id, where |-> "over", what |-> e]

AtRouter(r, W) == {OfKept(r, w) : w \in W[r]}

PlacesIn(F, W, E) ==
    {OfFrame(f) : f \in F} \cup {OfEnd(e) : e \in E} \cup UNION {AtRouter(r, W) : r \in Routers}

Places == PlacesIn(frames, waiting, ends)

\* No name is in two places.
Unique == \A x, y \in Places : x.id = y.id => x = y

\* A name starts with the number of an offer that was sent, and there is an error about
\* a packet only when the packet is over.  So the name of a new error is new.
Rooted ==
    \A x \in Places :
        /\ x.id \in Ids /\ x.id # <<>>
        /\ x.id[1] \in 1 .. Len(sent)
        /\ \A i \in Ids, k \in Errors :
              i # <<>> /\ x.id = Append(i, k) => \E e \in ends : e.id = i

IInv == TypesOK /\ NetsOK /\ Unique /\ Rooted

-----------------------------------------------------------------------------
\* Places

LEMMA PlacesAre ==
    ASSUME NEW F, NEW W, NEW E, NEW x
    PROVE  x \in PlacesIn(F, W, E) <=> \/ \E f \in F : x = OfFrame(f)
                                       \/ \E r \in Routers : \E w \in W[r] : x = OfKept(r, w)
                                       \/ \E e \in E : x = OfEnd(e)
<1> DEFINE A == {OfFrame(f) : f \in F}
           B == UNION {AtRouter(r, W) : r \in Routers}
           C == {OfEnd(e) : e \in E}
<1>1. \A r : x \in AtRouter(r, W) <=> \E w \in W[r] : x = OfKept(r, w)
  BY DEF AtRouter
<1>2. x \in B <=> \E r \in Routers : x \in AtRouter(r, W)
  OBVIOUS
<1>3. x \in A <=> \E f \in F : x = OfFrame(f)
  OBVIOUS
<1>4. x \in C <=> \E e \in E : x = OfEnd(e)
  OBVIOUS
<1>5. PlacesIn(F, W, E) = A \cup C \cup B
  BY DEF PlacesIn
<1> HIDE DEF A, B, C
<1> QED BY <1>1, <1>2, <1>3, <1>4, <1>5

\* Packets leave the places Out for the places In, whose names are new or theirs.
Moved(Out, In) ==
    /\ Out \subseteq Places
    /\ Places' \subseteq (Places \ Out) \cup In
    /\ \A x, y \in In : x.id = y.id => x = y
    /\ \A x \in In : \/ \E o \in Out : o.id = x.id
                    \/ \A y \in Places : y.id # x.id

LEMMA Moves ==
    ASSUME Unique, NEW Out, NEW In, Moved(Out, In)
    PROVE  Unique'
<1> USE DEF Moved
<1> SUFFICES ASSUME NEW x \in Places', NEW y \in Places', x.id = y.id PROVE x = y
  BY DEF Unique
<1>1. ASSUME NEW u \in Places \ Out, NEW v \in In, u.id = v.id PROVE FALSE
  BY <1>1 DEF Unique
<1> QED BY <1>1 DEF Unique

\* The name of an error about a packet that is not over is new.
LEMMA Fresh ==
    ASSUME Unique, Rooted, NEW x \in Places, x.where # "over", NEW k \in Errors
    PROVE  \A y \in Places : y.id # Append(x.id, k)
<1> SUFFICES ASSUME NEW y \in Places, y.id = Append(x.id, k) PROVE FALSE
  OBVIOUS
<1>1. PICK e \in ends : e.id = x.id
  BY DEF Rooted
<1>2. OfEnd(e) \in Places
  BY PlacesAre DEF Places
<1> QED BY <1>1, <1>2 DEF Unique, OfEnd

LEMMA NamesGrow ==
    ASSUME NEW i \in Ids, i # <<>>, NEW k \in Errors
    PROVE  /\ Append(i, k) \in Ids /\ Append(i, k) # <<>>
           /\ Append(i, k)[1] = i[1]
           /\ Append(i, k) # i
           /\ \A j \in Ids, l \in Errors : Append(i, k) = Append(j, l) => i = j /\ k = l
<1>1. k \in Nat \cup Errors
  OBVIOUS
<1>2. Len(i) \in Nat /\ Len(i) > 0
  BY LenProperties, EmptySeq DEF Ids
<1>3. /\ Append(i, k) \in Ids /\ Append(i, k) # <<>> /\ Len(Append(i, k)) = Len(i) + 1
      /\ Append(i, k)[1] = i[1]
  BY <1>1, <1>2, AppendProperties DEF Ids
<1>4. \A j \in Ids, l \in Errors : Append(i, k) = Append(j, l) => i = j /\ k = l
  <2> SUFFICES ASSUME NEW j \in Ids, NEW l \in Errors PROVE Append(i, k) = Append(j, l) => i = j /\ k = l
    OBVIOUS
  <2>1. l \in Nat \cup Errors
    OBVIOUS
  <2> QED BY <1>1, <2>1, AppendInjective DEF Ids
<1> QED BY <1>2, <1>3, <1>4

\* After a step the names are rooted where those that are new are.
LEMMA StaysRooted ==
    ASSUME Rooted, TypesOK, ends \subseteq ends', Len(sent') >= Len(sent), Len(sent') \in Nat,
           \A x \in Places' :
              \/ \E y \in Places : x.id = y.id
              \/ \E y \in Places, k \in Errors, e \in ends' : x.id = Append(y.id, k) /\ e.id = y.id
    PROVE  Rooted'
<1> SUFFICES ASSUME NEW x \in Places'
             PROVE  /\ x.id \in Ids /\ x.id # <<>>
                    /\ x.id[1] \in 1 .. Len(sent')
                    /\ \A i \in Ids, k \in Errors :
                          i # <<>> /\ x.id = Append(i, k) => \E e \in ends' : e.id = i
  BY DEF Rooted, Ids, Errors
<1>1. Len(sent) \in Nat
  BY LenProperties DEF TypesOK
<1>2. CASE \E y \in Places : x.id = y.id
  <2>1. PICK y \in Places : x.id = y.id
    BY <1>2
  <2>2. /\ y.id \in Ids /\ y.id # <<>> /\ y.id[1] \in 1 .. Len(sent)
        /\ \A i \in Ids, k \in Errors :
              i # <<>> /\ y.id = Append(i, k) => \E e \in ends : e.id = i
    BY DEF Rooted
  <2> QED BY <1>1, <2>1, <2>2
<1>3. CASE \E y \in Places, k \in Errors, e \in ends' : x.id = Append(y.id, k) /\ e.id = y.id
  <2>1. PICK y \in Places, k \in Errors, e \in ends' : x.id = Append(y.id, k) /\ e.id = y.id
    BY <1>3
  <2>2. y.id \in Ids /\ y.id # <<>> /\ y.id[1] \in 1 .. Len(sent)
    BY DEF Rooted
  <2>3. /\ x.id \in Ids /\ x.id # <<>> /\ x.id[1] = y.id[1]
        /\ \A j \in Ids, l \in Errors : x.id = Append(j, l) => y.id = j
    BY <2>1, <2>2, NamesGrow
  <2>4. x.id[1] \in 1 .. Len(sent')
    BY <1>1, <2>2, <2>3
  <2>5. \A i \in Ids, l \in Errors : i # <<>> /\ x.id = Append(i, l) => e.id = i
    BY <2>1, <2>3
  <2> QED BY <2>1, <2>3, <2>4, <2>5
<1> QED BY <1>2, <1>3

-----------------------------------------------------------------------------
\* What is sent

LEMMA TablesOK ==
    ASSUME TypesOK, NEW r \in Routers
    PROVE  /\ table[r] \in Seq(Entry)
           /\ \A i \in 1 .. Len(table[r]) :
                 table[r][i] \in Entry /\ Station[table[r][i].iface] = r
<1> DEFINE n == [delivery |-> delivery, table |-> table]
<1>1. n \in Networks /\ n.table = table
  BY DEF TypesOK
<1>2. table[r] \in Seq(Entry) /\ \A i \in 1 .. Len(table[r]) : Station[table[r][i].iface] = r
  BY <1>1, NetworksAssumption
<1> QED BY <1>2, Entries

\* The scan answers with an entry that matches, or with 0.
LEMMA FoundEntry ==
    ASSUME TypesOK, NEW r \in Routers, NEW a, FindEntry(table[r], a) # 0
    PROVE  /\ table[r][FindEntry(table[r], a)] \in Entry
           /\ Station[table[r][FindEntry(table[r], a)].iface] = r
<1>1. IsLongest(table[r], a, Len(table[r]), FindEntry(table[r], a))
  BY TablesOK, FindEntryIsLongest
<1>2. FindEntry(table[r], a) \in 1 .. Len(table[r])
  BY <1>1 DEF IsLongest, Usable
<1> QED BY <1>2, TablesOK

\* The frames F and the packets W for a router r are one at most, of the name id.
OneOf(F, W, id) ==
    /\ F \subseteq Framing /\ W \subseteq Keeping
    /\ \A f \in F : OnNet(f) /\ f.pkt.id = id
    /\ \A w \in W : w.pkt.id = id
    /\ \A f, g \in F : f = g
    /\ \A v, w \in W : v = w
    /\ F = {} \/ W = {}

LEMMA OnWireOK ==
    ASSUME NEW iface \in Addresses, Station[iface] # NoStation, NEW hop, NEW p \in Carriable
    PROVE  /\ OnWire(iface, hop, p) \subseteq Framing
           /\ \A f \in OnWire(iface, hop, p) : OnNet(f) /\ f.pkt = p
           /\ \A f, g \in OnWire(iface, hop, p) : f = g
BY DEF OnWire, Framing, OnNet

LEMMA SendOK ==
    ASSUME NEW r \in Routers, NEW iface \in Addresses, Station[iface] = r, NEW hop \in Hops,
           NEW p \in Carriable, NEW q \in Carriable, p.id = q.id
    PROVE  OneOf(Framed(r, iface, hop, p), Kept(r, hop, q), p.id)
<1>1. Station[iface] # NoStation
  BY StationsAssumption
<1>2. CASE hop \in cache[r]
  BY <1>1, <1>2, OnWireOK DEF Framed, Kept, OneOf
<1>3. CASE hop \notin cache[r]
  BY <1>3 DEF Framed, Kept, OneOf, Keeping
<1> QED BY <1>2, <1>3

LEMMA ErrorOK ==
    ASSUME TypesOK, NEW r \in Routers, NEW p \in Carriable, p.id # <<>>, NEW kind \in Errors,
           NEW junk, kind = "nohost" => junk \in Junk
    PROVE  OneOf(ErrorFramed(r, p, kind, junk), ErrorKept(r, p, kind, junk), Append(p.id, kind))
<1>1. CASE ~Reports(r, p, kind, junk)
  BY <1>1 DEF ErrorFramed, ErrorKept, OneOf
<1>2. CASE Reports(r, p, kind, junk)
  <2> DEFINE e == ErrorRoute(r, p, kind, junk)
             hop == ErrorHop(r, p, kind, junk)
             error == Error(r, p, kind, junk)
  <2>1. e \in Entry /\ Station[e.iface] = r
    BY <1>2, FoundEntry DEF Reports, ErrorRoute
  <2>2. p.src \in Addresses /\ e.iface \in Addresses /\ e.gw \in Addresses \cup {None}
    BY <2>1 DEF Entry, Carriable
  <2>3. Source(p, kind, junk) \in Addresses \cup Junk
    BY <2>2 DEF Source
  <2>4. hop \in Hops
    BY <2>2, <2>3 DEF ErrorHop, Hop, Hops, RouteTo
  <2>5. error \in Carriable /\ error.id = Append(p.id, kind)
    <3>1. Append(p.id, kind) \in Ids
      BY NamesGrow DEF Carriable
    <3>2. kind \in Kinds /\ ErrorTtl \in Nat \ {0}
      BY BoundsAssumption DEF Kinds, Icmp
    <3> QED BY <2>2, <2>3, <3>1, <3>2 DEF Error, Packet, Carriable
  <2>6. Unsent(error) \in Carriable /\ Unsent(error).id = error.id
    BY <2>5 DEF Unsent, Carriable, Kinds
  <2> HIDE DEF e, hop, error
  <2>7. OneOf(Framed(r, e.iface, hop, error), Kept(r, hop, Unsent(error)), error.id)
    BY <2>1, <2>2, <2>4, <2>5, <2>6, SendOK
  <2> QED BY <1>2, <2>5, <2>7 DEF ErrorFramed, ErrorKept, e, hop, error
<1> QED BY <1>1, <1>2

-----------------------------------------------------------------------------
\* Steps

\* What is not over stays where it is, and what is over stays over.
LEMMA OldPlaces ==
    /\ \A g \in frames : OfFrame(g) \in Places
    /\ \A q \in Routers : \A w \in waiting[q] : OfKept(q, w) \in Places
    /\ \A e \in ends : OfEnd(e) \in Places
BY PlacesAre DEF Places

LEMMA PlacesDiffer ==
    /\ \A f, g : OfFrame(f) = OfFrame(g) => f = g
    /\ \A d, e : OfEnd(d) = OfEnd(e) => d = e
    /\ \A q, r, v, w : OfKept(q, v) = OfKept(r, w) => q = r /\ v = w
    /\ \A f, r, w, e : /\ OfFrame(f) # OfKept(r, w)
                       /\ OfFrame(f) # OfEnd(e)
                       /\ OfKept(r, w) # OfEnd(e)
BY DEF OfFrame, OfKept, OfEnd

\* A router or a host is done with the frame f: its packet goes on in F or in W, or it is
\* over and an error about it goes out in F or in W.
Deals(f, F, r, W, E) ==
    /\ UNCHANGED <<delivery, table, sent>>
    /\ frames' = (frames \ {f}) \cup F
    /\ waiting' \in [Routers -> SUBSET Keeping]
    /\ \A q \in Routers : \A w \in waiting'[q] : w \in waiting[q] \/ (q = r /\ w \in W)
    /\ ends' = ends \cup E
    /\ \A e \in E : e.id = f.pkt.id
    /\ \A d, e \in E : d = e
    /\ \/ E = {} /\ OneOf(F, W, f.pkt.id)
       \/ E # {} /\ \E kind \in Errors : OneOf(F, W, Append(f.pkt.id, kind))

LEMMA FrameMoves ==
    ASSUME IInv, NEW f \in frames, NEW F, NEW r, NEW W, NEW E, Deals(f, F, r, W, E)
    PROVE  IInv'
<1> USE DEF Deals
<1> DEFINE Out == {OfFrame(f)}
           In == Places' \ (Places \ Out)
           id == f.pkt.id
<1>1. OfFrame(f) \in Places /\ OfFrame(f).id = id /\ OfFrame(f).where # "over"
  BY OldPlaces DEF OfFrame
<1>2. ASSUME NEW x \in In
      PROVE  \/ \E g \in F : x = OfFrame(g)
             \/ \E w \in W : x = OfKept(r, w)
             \/ \E e \in E : x = OfEnd(e)
  <2>1. \A g \in frames' : g \in F \/ OfFrame(g) \in Places \ Out
    BY OldPlaces, PlacesDiffer
  <2>2. \A q \in Routers : \A w \in waiting'[q] :
            (q = r /\ w \in W) \/ OfKept(q, w) \in Places \ Out
    BY OldPlaces, PlacesDiffer
  <2>3. \A e \in ends' : e \in E \/ OfEnd(e) \in Places \ Out
    BY OldPlaces, PlacesDiffer
  <2>4. \/ \E g \in frames' : x = OfFrame(g)
        \/ \E q \in Routers : \E w \in waiting'[q] : x = OfKept(q, w)
        \/ \E e \in ends' : x = OfEnd(e)
    BY PlacesAre DEF Places
  <2>5. x \notin Places \ Out
    OBVIOUS
  <2> HIDE DEF Out, In
  <2> QED BY <2>1, <2>2, <2>3, <2>4, <2>5
<1>3. PICK name : /\ OneOf(F, W, name)
                  /\ \/ E = {} /\ name = id
                     \/ E # {} /\ \E kind \in Errors : name = Append(id, kind)
  OBVIOUS
<1>4. id \in Ids /\ id # <<>>
  BY <1>1 DEF IInv, Rooted
<1>5. name # id \/ E = {}
  BY <1>3, <1>4, NamesGrow
<1>6. ASSUME NEW x \in In
      PROVE  \/ x.id = name
             \/ (\E e \in E : x = OfEnd(e)) /\ x.id = id
  <2> HIDE DEF Deals, Out, In, id
  <2>1. (\A g \in F : g.pkt.id = name) /\ (\A w \in W : w.pkt.id = name)
    BY <1>3 DEF OneOf
  <2>2. CASE \E g \in F : x = OfFrame(g)
    BY <2>1, <2>2 DEF OfFrame
  <2>3. CASE \E w \in W : x = OfKept(r, w)
    BY <2>1, <2>3 DEF OfKept
  <2>4. CASE \E e \in E : x = OfEnd(e)
    <3>1. \A e \in E : e.id = id
      BY DEF Deals, id
    <3> QED BY <2>4, <3>1 DEF OfEnd
  <2> QED BY <1>2, <2>2, <2>3, <2>4
<1>7. ASSUME NEW x \in In, NEW y \in In, x.id = y.id PROVE x = y
  <2>1. CASE E # {} /\ x.id = id
    <3>1. (\E e \in E : x = OfEnd(e)) /\ (\E e \in E : y = OfEnd(e))
      BY <1>5, <1>6, <1>7, <2>1
    <3> QED BY <3>1
  <2>2. CASE E = {} \/ x.id # id
    <3>1. /\ (\E g \in F : x = OfFrame(g)) \/ (\E w \in W : x = OfKept(r, w))
          /\ (\E g \in F : y = OfFrame(g)) \/ (\E w \in W : y = OfKept(r, w))
      <4>1. \A z \in In : z.id = x.id => ~ \E e \in E : z = OfEnd(e)
        BY <2>2 DEF OfEnd
      <4> QED BY <1>2, <1>7, <4>1
    <3> QED BY <3>1, <1>3 DEF OneOf
  <2> QED BY <2>1, <2>2
<1>8. ASSUME NEW x \in In
      PROVE  (\E o \in Out : o.id = x.id) \/ (\A y \in Places : y.id # x.id)
  <2>1. CASE x.id = id
    BY <1>1, <2>1
  <2>2. CASE x.id # id
    <3>1. \E kind \in Errors : x.id = Append(id, kind)
      BY <1>3, <1>6, <2>2
    <3> QED BY <3>1, <1>1, Fresh DEF IInv
  <2> QED BY <2>1, <2>2
<1>9. Unique'
  <2>1. Out \subseteq Places /\ Places' \subseteq (Places \ Out) \cup In
    BY <1>1
  <2>2. Unique
    BY DEF IInv
  <2> HIDE DEF Out, In
  <2>3. Moved(Out, In)
    BY <1>7, <1>8, <2>1 DEF Moved
  <2> QED BY <2>2, <2>3, Moves
<1>10. Rooted'
  <2>1. ASSUME NEW x \in Places'
        PROVE  \/ \E y \in Places : x.id = y.id
               \/ \E y \in Places, k \in Errors, e \in ends' : x.id = Append(y.id, k) /\ e.id = y.id
    <3>1. CASE x \notin In
      BY <3>1
    <3>2. CASE x \in In /\ x.id = id
      BY <1>1, <3>2
    <3>3. CASE x \in In /\ x.id # id
      <4>1. \E k \in Errors : x.id = Append(OfFrame(f).id, k)
        BY <1>1, <1>3, <1>6, <3>3
      <4>2. \E e \in ends' : e.id = OfFrame(f).id
        BY <1>1, <1>3, <1>6, <3>3
      <4> QED BY <1>1, <4>1, <4>2
    <3> QED BY <3>1, <3>2, <3>3
  <2>2. Len(sent) \in Nat /\ Len(sent') = Len(sent)
    BY LenProperties DEF IInv, TypesOK
  <2> HIDE DEF In
  <2> QED BY <2>1, <2>2, StaysRooted DEF IInv
<1>11. TypesOK' /\ NetsOK'
  BY <1>3 DEF IInv, TypesOK, NetsOK, OneOf, OnNet
<1> QED BY <1>9, <1>10, <1>11 DEF IInv

LEMMA InitOK ==
    ASSUME Init
    PROVE  IInv
<1>1. TypesOK /\ NetsOK
  <2>1. PICK n \in Networks : delivery = n.delivery /\ table = n.table
    BY DEF Init
  <2>2. [delivery |-> n.delivery, table |-> n.table] = n
    BY NetworksAssumption
  <2>3. sent \in Seq(Offers)
    BY EmptySeq DEF Init
  <2> QED BY <2>1, <2>2, <2>3 DEF Init, TypesOK, NetsOK
<1>2. Places = {}
  <2>1. \A x : x \notin Places
    BY PlacesAre DEF Init, Places
  <2> QED BY <2>1
<1> QED BY <1>1, <1>2 DEF IInv, Unique, Rooted

\* A packet that is over leaves nothing behind.
LEMMA Ends ==
    ASSUME IInv, NEW f \in frames, NEW how, UNCHANGED <<fixed, waiting>>,
           frames' = frames \ {f}, End(f.pkt, how)
    PROVE  IInv'
<1> DEFINE E == {[id |-> f.pkt.id, kind |-> f.pkt.kind, how |-> how]}
<1>1. "expired" \in Errors /\ OneOf({}, {}, Append(f.pkt.id, "expired"))
  BY DEF Errors, OneOf
<1>2. waiting' \in [Routers -> SUBSET Keeping]
  BY DEF IInv, TypesOK
<1>3. Deals(f, {}, None, {}, E)
  BY <1>1, <1>2 DEF Deals, fixed, End
<1> QED BY <1>3, FrameMoves

LEMMA ReportOK ==
    ASSUME IInv, NEW r \in Routers, NEW f \in frames, NEW kind \in Errors \ {"nohost"},
           Report(r, f, kind)
    PROVE  IInv'
<1> DEFINE F == ErrorFramed(r, f.pkt, kind, None)
           W == ErrorKept(r, f.pkt, kind, None)
           E == {[id |-> f.pkt.id, kind |-> f.pkt.kind, how |-> kind]}
<1>1. f.pkt \in Carriable /\ f.pkt.id # <<>> /\ TypesOK
  BY OldPlaces DEF IInv, TypesOK, Framing, Rooted, OfFrame
<1>2. OneOf(F, W, Append(f.pkt.id, kind))
  BY <1>1, ErrorOK
<1>3. waiting \in [Routers -> SUBSET Keeping] /\ waiting' = [waiting EXCEPT ![r] = @ \cup W]
  BY <1>1 DEF TypesOK, Report
<1>4. /\ UNCHANGED <<delivery, table, sent>>
      /\ frames' = (frames \ {f}) \cup F
      /\ ends' = ends \cup E
  BY DEF Report, fixed, End
<1> HIDE DEF F, W
<1>5. waiting' \in [Routers -> SUBSET Keeping]
  BY <1>2, <1>3 DEF OneOf
<1>6. \A q \in Routers : \A w \in waiting'[q] : w \in waiting[q] \/ (q = r /\ w \in W)
  BY <1>3
<1>7. (\A e \in E : e.id = f.pkt.id) /\ (\A d, e \in E : d = e) /\ E # {}
  OBVIOUS
<1> HIDE DEF E
<1>8. Deals(f, F, r, W, E)
  BY <1>2, <1>4, <1>5, <1>6, <1>7 DEF Deals
<1> QED BY <1>8, FrameMoves

LEMMA EchoReplyOK ==
    ASSUME IInv, NEW r \in Routers, NEW f \in frames, EchoReply(r, f)
    PROVE  IInv'
<1> DEFINE p == [f.pkt EXCEPT !.src = f.pkt.dst, !.dst = f.pkt.src, !.kind = "reply"]
           F == OnWire(f.to, f.from, p)
<1>1. f \in Framing /\ f.pkt \in Carriable /\ OnNet(f)
  BY DEF IInv, TypesOK, NetsOK, Framing
<1>2. f.pkt.dst \in Addresses
  BY DEF EchoReply, ForMe, Interfaces
<1>3. p \in Carriable /\ p.id = f.pkt.id
  BY <1>1, <1>2 DEF Carriable, Kinds, Icmp
<1>4. f.to \in Addresses /\ Station[f.to] # NoStation
  BY <1>1 DEF Framing, OnNet
<1>5. /\ UNCHANGED <<delivery, table, sent, waiting, ends>>
      /\ frames' = (frames \ {f}) \cup F
  BY DEF EchoReply, fixed
<1> HIDE DEF p
<1>6. OneOf(F, {}, f.pkt.id)
  BY <1>3, <1>4, OnWireOK DEF OneOf
<1>7. waiting \in [Routers -> SUBSET Keeping]
  BY DEF IInv, TypesOK
<1> HIDE DEF F
<1>8. Deals(f, F, r, {}, {})
  BY <1>5, <1>6, <1>7 DEF Deals
<1> QED BY <1>8, FrameMoves

LEMMA ForwardOK ==
    ASSUME IInv, NEW r \in Routers, NEW f \in frames, Forward(r, f)
    PROVE  IInv'
<1> DEFINE i == FindEntry(table[r], f.pkt.dst)
           route == table[r][i]
           hop == Hop(route, f.pkt.dst)
           p == [f.pkt EXCEPT !.ttl = @ - 1]
           F == Framed(r, route.iface, hop, p)
           W == Kept(r, hop, p)
<1>1. f.pkt \in Carriable /\ TypesOK
  BY DEF IInv, TypesOK, Framing
<1>2. i # 0
  BY DEF Forward
<1>3. route \in Entry /\ Station[route.iface] = r
  BY <1>1, <1>2, FoundEntry
<1>4. f.pkt.ttl \in Nat /\ f.pkt.ttl > 1
  BY <1>1 DEF Forward, Handled, IsExpired, Carriable
<1>5. p \in Carriable /\ p.id = f.pkt.id
  BY <1>1, <1>4 DEF Carriable
<1>6. hop \in Hops /\ route.iface \in Addresses
  BY <1>1, <1>3 DEF Hop, Hops, Entry, Carriable
<1>7. OneOf(F, W, f.pkt.id)
  <2> HIDE DEF p, route, hop
  <2> QED BY <1>3, <1>5, <1>6, SendOK
<1>8. /\ UNCHANGED <<delivery, table, sent, ends>>
      /\ frames' = (frames \ {f}) \cup F
      /\ waiting' = [waiting EXCEPT ![r] = @ \cup W]
  BY DEF Forward, fixed
<1> HIDE DEF F, W
<1>9. waiting \in [Routers -> SUBSET Keeping]
  BY <1>1 DEF TypesOK
<1>10. waiting' \in [Routers -> SUBSET Keeping]
  BY <1>7, <1>8, <1>9 DEF OneOf
<1>11. Deals(f, F, r, W, {})
  BY <1>7, <1>8, <1>9, <1>10 DEF Deals
<1> QED BY <1>11, FrameMoves

LEMMA DamageOK ==
    ASSUME IInv, NEW f \in frames, Damage(f)
    PROVE  IInv'
<1> DEFINE g == [f EXCEPT !.pkt.ok = FALSE]
<1>1. f \in Framing /\ OnNet(f)
  BY DEF IInv, TypesOK, NetsOK
<1>2. /\ g \in Framing /\ g.pkt.id = f.pkt.id
      /\ g.to = f.to /\ g.from = f.from
  BY <1>1 DEF Framing, Carriable
<1>3. OneOf({g}, {}, f.pkt.id)
  BY <1>1, <1>2 DEF OneOf, OnNet
<1>4. /\ UNCHANGED <<delivery, table, sent, ends, waiting>>
      /\ frames' = (frames \ {f}) \cup {g}
  BY DEF Damage
<1>5. waiting \in [Routers -> SUBSET Keeping]
  BY DEF IInv, TypesOK
<1> HIDE DEF g
<1>6. Deals(f, {g}, None, {}, {})
  BY <1>3, <1>4, <1>5 DEF Deals
<1> QED BY <1>6, FrameMoves

LEMMA HandleOK ==
    ASSUME IInv, NEW r \in Routers, NEW f \in frames, Handle(r, f)
    PROVE  IInv'
<1>1. CASE DropBroken(r, f)
  BY <1>1, Ends DEF DropBroken
<1>2. CASE TakeOspf(r, f)
  BY <1>2, Ends DEF TakeOspf
<1>3. CASE TakeIcmp(r, f)
  BY <1>3, Ends DEF TakeIcmp
<1>4. CASE TimeExceeded(r, f)
  BY <1>4, ReportOK DEF TimeExceeded, Errors
<1>5. CASE PortUnreachable(r, f)
  BY <1>5, ReportOK DEF PortUnreachable, Errors
<1>6. CASE NetUnreachable(r, f)
  BY <1>6, ReportOK DEF NetUnreachable, Errors
<1> QED BY <1>1, <1>2, <1>3, <1>4, <1>5, <1>6, EchoReplyOK, ForwardOK DEF Handle

LEMMA HostTakeOK ==
    ASSUME IInv, NEW f \in frames, HostTake(f)
    PROVE  IInv'
BY Ends DEF HostTake

\* The packet of an offer is named after it: no name starts with its number yet.
LEMMA HostSendOK ==
    ASSUME IInv, NEW o \in Offers, HostSend(o)
    PROVE  IInv'
<1> DEFINE n == Len(sent) + 1
           p == Packet(<<n>>, o.src, o.dst, o.ttl, o.kind)
           F == OnWire(o.src, o.via, p)
           In == {OfFrame(f) : f \in F}
<1>1. Len(sent) \in Nat /\ n \in Nat /\ sent' \in Seq(Offers) /\ Len(sent') = n
  BY LenProperties, AppendProperties DEF IInv, TypesOK, HostSend
<1>2. o.src \in Addresses /\ Station[o.src] # NoStation
  BY OffersAssumption, StationsAssumption
<1>3. p \in Carriable /\ p.id = <<n>>
  <2>1. <<n>> \in Ids
    BY <1>1 DEF Ids
  <2> QED BY <2>1, OffersAssumption DEF Packet, Carriable, Kinds
<1>4. /\ UNCHANGED <<delivery, table, waiting, ends>>
      /\ frames' = frames \cup F
  BY DEF HostSend
<1> HIDE DEF p
<1>5. /\ F \subseteq Framing
      /\ \A f \in F : OnNet(f) /\ f.pkt.id = <<n>>
      /\ \A f, g \in F : f = g
  BY <1>2, <1>3, OnWireOK
<1> HIDE DEF F
<1>6. \A x \in In : x.id = <<n>>
  BY <1>5 DEF OfFrame
<1>7. \A x, y \in In : x = y
  BY <1>5
<1>8. \A x \in Places' : x \in Places \/ x \in In
  <2> SUFFICES ASSUME NEW x \in Places' PROVE x \in Places \/ x \in In
    OBVIOUS
  <2>1. \/ \E g \in frames' : x = OfFrame(g)
        \/ \E q \in Routers : \E w \in waiting'[q] : x = OfKept(q, w)
        \/ \E e \in ends' : x = OfEnd(e)
    BY PlacesAre DEF Places
  <2> QED BY <1>4, <2>1, OldPlaces
<1>9. \A y \in Places : /\ y.id \in Ids /\ y.id # <<>> /\ y.id[1] \in 1 .. Len(sent)
                        /\ \A i \in Ids, k \in Errors :
                              i # <<>> /\ y.id = Append(i, k) => \E e \in ends : e.id = i
  BY DEF IInv, Rooted
<1>10. Unique'
  <2>1. \A x \in In, y \in Places : y.id # x.id
    BY <1>1, <1>6, <1>9
  <2> HIDE DEF In
  <2>2. Moved({}, In)
    BY <1>7, <1>8, <2>1 DEF Moved
  <2> QED BY <2>2, Moves DEF IInv
<1>11. Rooted'
  <2> HIDE DEF In
  <2> SUFFICES ASSUME NEW x \in Places'
               PROVE  /\ x.id \in Ids /\ x.id # <<>>
                      /\ x.id[1] \in 1 .. Len(sent')
                      /\ \A i \in Ids, k \in Errors :
                            i # <<>> /\ x.id = Append(i, k) => \E e \in ends' : e.id = i
    BY DEF Rooted, Ids, Errors
  <2>1. CASE x \in Places
    BY <1>1, <1>4, <1>9, <2>1
  <2>2. CASE x \in In
    <3>1. x.id = <<n>> /\ <<n>> \in Ids /\ <<n>> # <<>> /\ <<n>>[1] = n
      BY <1>1, <1>6, <2>2 DEF Ids
    <3>2. ASSUME NEW i \in Ids, NEW k \in Errors, i # <<>> PROVE <<n>> # Append(i, k)
      <4>1. Len(Append(i, k)) = Len(i) + 1 /\ Len(i) \in Nat /\ Len(i) # 0
        BY <3>2, AppendProperties, LenProperties, EmptySeq DEF Ids
      <4> QED BY <4>1
    <3> QED BY <1>1, <3>1, <3>2
  <2> QED BY <1>8, <2>1, <2>2
<1>12. TypesOK' /\ NetsOK'
  BY <1>1, <1>4, <1>5 DEF IInv, TypesOK, NetsOK, OnNet
<1> QED BY <1>10, <1>11, <1>12 DEF IInv

\* The packets of one hop leave for the wires all at once, each for one.
LEMMA ArpReplyOK ==
    ASSUME IInv, NEW r \in Routers, NEW hop, ArpReply(r, hop)
    PROVE  IInv'
<1> DEFINE Out == {OfKept(r, w) : w \in Waiting(r, hop)}
           In == Places' \ (Places \ Out)
<1>1. PICK iface \in Answers(r, hop) :
          frames' = frames \cup UNION {OnWire(iface, hop, w.pkt) : w \in Waiting(r, hop)}
  BY DEF ArpReply
<1>2. iface \in Addresses /\ Station[iface] # NoStation
  BY <1>1, StationsAssumption DEF Answers, Interfaces
<1>3. /\ waiting \in [Routers -> SUBSET Keeping]
      /\ waiting' = [waiting EXCEPT ![r] = @ \ Waiting(r, hop)]
      /\ UNCHANGED <<delivery, table, sent, ends>>
  BY DEF IInv, TypesOK, ArpReply, Served, fixed
<1>4. \A w \in Waiting(r, hop) : w \in waiting[r] /\ w.pkt \in Carriable
  BY <1>3 DEF Waiting, Keeping
<1>5. \A w \in Waiting(r, hop) : /\ OnWire(iface, hop, w.pkt) \subseteq Framing
                                 /\ \A f \in OnWire(iface, hop, w.pkt) : OnNet(f) /\ f.pkt = w.pkt
                                 /\ \A f, g \in OnWire(iface, hop, w.pkt) : f = g
  BY <1>2, <1>4, OnWireOK
<1>6. Out \subseteq Places
  BY <1>4, OldPlaces
<1>7. ASSUME NEW x \in In
      PROVE  \E w \in Waiting(r, hop) : \E f \in OnWire(iface, hop, w.pkt) : x = OfFrame(f)
  <2>1. \/ \E g \in frames' : x = OfFrame(g)
        \/ \E q \in Routers : \E w \in waiting'[q] : x = OfKept(q, w)
        \/ \E e \in ends' : x = OfEnd(e)
    BY PlacesAre DEF Places
  <2>2. \A f : OfFrame(f) \notin Out
    BY PlacesDiffer
  <2>3. \A e : OfEnd(e) \notin Out
    BY PlacesDiffer
  <2>4. \A q \in Routers : \A w \in waiting'[q] : w \in waiting[q] /\ OfKept(q, w) \notin Out
    BY <1>3, PlacesDiffer
  <2>5. x \notin Places \ Out
    OBVIOUS
  <2> HIDE DEF Out, In
  <2>6. \E g \in frames' : x = OfFrame(g) /\ g \notin frames
    BY <1>3, <2>1, <2>2, <2>3, <2>4, <2>5, OldPlaces
  <2> QED BY <1>1, <2>6
<1>8. ASSUME NEW x \in In
      PROVE  \E w \in Waiting(r, hop) : OfKept(r, w).id = x.id /\ OfKept(r, w) \in Out
  <2>1. PICK w \in Waiting(r, hop) : \E f \in OnWire(iface, hop, w.pkt) : x = OfFrame(f)
    BY <1>7
  <2>2. x.id = w.pkt.id
    BY <1>5, <2>1 DEF OfFrame
  <2> QED BY <2>2 DEF OfKept
<1>9. ASSUME NEW x \in In, NEW y \in In, x.id = y.id PROVE x = y
  <2>1. PICK v \in Waiting(r, hop) : \E f \in OnWire(iface, hop, v.pkt) : x = OfFrame(f)
    BY <1>7
  <2>2. PICK w \in Waiting(r, hop) : \E f \in OnWire(iface, hop, w.pkt) : y = OfFrame(f)
    BY <1>7
  <2>3. x.id = v.pkt.id /\ y.id = w.pkt.id
    BY <1>5, <2>1, <2>2 DEF OfFrame
  <2>4. OfKept(r, v) \in Places /\ OfKept(r, w) \in Places
    BY <1>4, OldPlaces
  <2>5. OfKept(r, v) = OfKept(r, w)
    <3>1. OfKept(r, v).id = OfKept(r, w).id
      BY <1>9, <2>3 DEF OfKept
    <3>2. Unique
      BY DEF IInv
    <3> QED BY <2>4, <3>1, <3>2 DEF Unique
  <2>6. v = w
    BY <2>5, PlacesDiffer
  <2> QED BY <1>5, <2>1, <2>2, <2>6
<1>10. Unique'
  <2>1. Places' \subseteq (Places \ Out) \cup In
    OBVIOUS
  <2> HIDE DEF Out, In
  <2>2. Moved(Out, In)
    BY <1>6, <1>8, <1>9, <2>1 DEF Moved
  <2> QED BY <2>2, Moves DEF IInv
<1>11. Rooted'
  <2>1. \A x \in Places' : \E y \in Places : x.id = y.id
    <3> SUFFICES ASSUME NEW x \in Places' PROVE \E y \in Places : x.id = y.id
      OBVIOUS
    <3>1. x \in Places \/ x \in In
      OBVIOUS
    <3> HIDE DEF Out, In
    <3> QED BY <1>6, <1>8, <3>1
  <2>2. Len(sent) \in Nat /\ sent' = sent /\ ends' = ends
    BY <1>3, LenProperties DEF IInv, TypesOK
  <2> HIDE DEF Out, In
  <2> QED BY <2>1, <2>2, StaysRooted DEF IInv
<1>12. TypesOK' /\ NetsOK'
  <2>1. waiting' \in [Routers -> SUBSET Keeping]
    BY <1>3
  <2>2. \A f \in frames' : f \in frames \/ (f \in Framing /\ OnNet(f))
    BY <1>1, <1>5
  <2> QED BY <1>3, <2>1, <2>2 DEF IInv, TypesOK, NetsOK, OnNet
<1> QED BY <1>10, <1>11, <1>12 DEF IInv

\* The packets of one hop are over, and each has an error of its own.
LEMMA GiveUpOK ==
    ASSUME IInv, NEW r \in Routers, NEW hop, GiveUp(r, hop)
    PROVE  IInv'
<1>1. PICK junk \in Junk :
          LET given == {w.pkt : w \in Waiting(r, hop)}
          IN /\ frames' = frames \cup UNION {ErrorFramed(r, p, "nohost", junk) : p \in given}
             /\ waiting' = [waiting EXCEPT ![r] =
                   (@ \ Waiting(r, hop)) \cup UNION {ErrorKept(r, p, "nohost", junk) : p \in given}]
             /\ ends' = ends \cup {[id |-> p.id, kind |-> p.kind, how |-> "nohost"] : p \in given}
  BY DEF GiveUp
<1> DEFINE given == {w.pkt : w \in Waiting(r, hop)}
           F(p) == ErrorFramed(r, p, "nohost", junk)
           W(p) == ErrorKept(r, p, "nohost", junk)
           Over(p) == [id |-> p.id, kind |-> p.kind, how |-> "nohost"]
           Out == {OfKept(r, w) : w \in Waiting(r, hop)}
           In == Places' \ (Places \ Out)
           About(p) == Append(p.id, "nohost")
           Told(x, p) == (\E g \in F(p) : x = OfFrame(g)) \/ (\E v \in W(p) : x = OfKept(r, v))
<1>2. /\ waiting \in [Routers -> SUBSET Keeping]
      /\ UNCHANGED <<delivery, table, sent>>
      /\ Len(sent) \in Nat
      /\ "nohost" \in Errors
  BY LenProperties DEF IInv, TypesOK, GiveUp, fixed, Errors
<1>3. \A w \in Waiting(r, hop) : w \in waiting[r] /\ w.pkt \in Carriable
  BY <1>2 DEF Waiting, Keeping
<1>4. \A w \in Waiting(r, hop) :
         /\ OfKept(r, w) \in Places /\ OfKept(r, w) \in Out /\ OfKept(r, w).id = w.pkt.id
         /\ OfKept(r, w).where # "over"
  BY <1>3, OldPlaces DEF OfKept
<1>5. \A p \in given : \E w \in Waiting(r, hop) : p = w.pkt
  OBVIOUS
<1>6. \A w \in Waiting(r, hop) : w.pkt \in given
  OBVIOUS
<1>7. \A p \in given : p \in Carriable /\ p.id \in Ids /\ p.id # <<>>
  BY <1>3, <1>4, <1>5 DEF IInv, Rooted
<1>8. \A p \in given : OneOf(F(p), W(p), About(p))
  BY <1>2, <1>7, ErrorOK DEF IInv
<1>9. /\ frames' = frames \cup UNION {F(p) : p \in given}
      /\ waiting' = [waiting EXCEPT ![r] = (@ \ Waiting(r, hop)) \cup UNION {W(p) : p \in given}]
      /\ ends' = ends \cup {Over(p) : p \in given}
  BY <1>1
<1> HIDE DEF given, F, W, Over
<1>10. Out \subseteq Places
  BY <1>4
<1>11. ASSUME NEW x \in In
       PROVE  \E p \in given : x = OfEnd(Over(p)) \/ Told(x, p)
  <2>1. \/ \E g \in frames' : x = OfFrame(g)
        \/ \E q \in Routers : \E w \in waiting'[q] : x = OfKept(q, w)
        \/ \E e \in ends' : x = OfEnd(e)
    BY PlacesAre DEF Places
  <2>2. (\A f : OfFrame(f) \notin Out) /\ (\A e : OfEnd(e) \notin Out)
    BY PlacesDiffer
  <2>3. ASSUME NEW q \in Routers, NEW w \in waiting'[q], w \notin waiting[q] \/ OfKept(q, w) \in Out
        PROVE  q = r /\ \E p \in given : w \in W(p)
    <3>1. CASE q # r
      <4>1. w \in waiting[q] /\ OfKept(q, w) \notin Out
        BY <1>2, <1>9, <3>1, PlacesDiffer
      <4> QED BY <2>3, <4>1
    <3>2. CASE q = r
      <4>1. w \in waiting[r] /\ w \notin Waiting(r, hop) => OfKept(r, w) \notin Out
        BY PlacesDiffer
      <4>2. (w \in waiting[r] /\ w \notin Waiting(r, hop)) \/ w \in UNION {W(p) : p \in given}
        BY <1>2, <1>9, <3>2
      <4> QED BY <2>3, <3>2, <4>1, <4>2
    <3> QED BY <3>1, <3>2
  <2>4. x \notin Places \ Out
    OBVIOUS
  <2> HIDE DEF Out, In
  <2>5. CASE \E g \in frames' : x = OfFrame(g)
    <3>1. PICK g \in frames' : x = OfFrame(g)
      BY <2>5
    <3>2. g \notin frames
      BY <2>2, <2>4, <3>1, OldPlaces
    <3> QED BY <1>9, <3>1, <3>2
  <2>6. CASE \E q \in Routers : \E w \in waiting'[q] : x = OfKept(q, w)
    <3>1. PICK q \in Routers : \E w \in waiting'[q] : x = OfKept(q, w)
      BY <2>6
    <3>2. PICK w \in waiting'[q] : x = OfKept(q, w)
      BY <3>1
    <3>3. w \notin waiting[q] \/ OfKept(q, w) \in Out
      BY <2>4, <3>2, OldPlaces
    <3> QED BY <2>3, <3>2, <3>3
  <2>7. CASE \E e \in ends' : x = OfEnd(e)
    <3>1. PICK e \in ends' : x = OfEnd(e)
      BY <2>7
    <3>2. e \notin ends
      BY <2>2, <2>4, <3>1, OldPlaces
    <3> QED BY <1>9, <3>1, <3>2
  <2> QED BY <2>1, <2>5, <2>6, <2>7
<1>12. \A p \in given : \A x : Told(x, p) => x.id = About(p)
  BY <1>8 DEF OneOf, OfFrame, OfKept
<1>13. \A p \in given : OfEnd(Over(p)).id = p.id
  BY DEF OfEnd, Over
<1>14. \A p \in given, y \in Places : y.id # About(p)
  <2> SUFFICES ASSUME NEW p \in given PROVE \A y \in Places : y.id # About(p)
    OBVIOUS
  <2>1. PICK w \in Waiting(r, hop) : p = w.pkt
    BY <1>5
  <2>2. \A y \in Places : y.id # Append(OfKept(r, w).id, "nohost")
    BY <1>2, <1>4, Fresh DEF IInv
  <2> QED BY <1>4, <2>1, <2>2
<1>15. \A p \in given : \E o \in Out : o.id = p.id
  BY <1>4, <1>5
<1>16. \A p, q \in given : p.id = q.id => p = q
  <2> SUFFICES ASSUME NEW p \in given, NEW q \in given, p.id = q.id PROVE p = q
    OBVIOUS
  <2>1. PICK v \in Waiting(r, hop) : p = v.pkt
    BY <1>5
  <2>2. PICK w \in Waiting(r, hop) : q = w.pkt
    BY <1>5
  <2>3. OfKept(r, v) = OfKept(r, w)
    BY <1>4, <2>1, <2>2 DEF IInv, Unique
  <2> QED BY <2>1, <2>2, <2>3, PlacesDiffer
<1>17. \A p, q \in given : About(p) # q.id /\ (About(p) = About(q) => p = q)
  <2> SUFFICES ASSUME NEW p \in given, NEW q \in given
               PROVE  About(p) # q.id /\ (About(p) = About(q) => p = q)
    OBVIOUS
  <2>1. About(p) # q.id
    BY <1>10, <1>14, <1>15
  <2>2. About(p) = About(q) => p.id = q.id
    BY <1>2, <1>7, NamesGrow
  <2> QED BY <1>16, <2>1, <2>2
<1>18. \A p \in given : \A x, y : Told(x, p) /\ Told(y, p) => x = y
  BY <1>8 DEF OneOf
<1> HIDE DEF Told, About, Out, In
<1>19. ASSUME NEW x \in In, NEW y \in In, x.id = y.id PROVE x = y
  <2>1. PICK p \in given : x = OfEnd(Over(p)) \/ Told(x, p)
    BY <1>11
  <2>2. PICK q \in given : y = OfEnd(Over(q)) \/ Told(y, q)
    BY <1>11
  <2>3. CASE x = OfEnd(Over(p)) /\ y = OfEnd(Over(q))
    BY <1>13, <1>16, <1>19, <2>3
  <2>4. CASE Told(x, p) /\ Told(y, q)
    BY <1>12, <1>17, <1>18, <1>19, <2>4
  <2>5. CASE Told(x, p) /\ y = OfEnd(Over(q))
    BY <1>12, <1>13, <1>17, <1>19, <2>5
  <2>6. CASE x = OfEnd(Over(p)) /\ Told(y, q)
    BY <1>12, <1>13, <1>17, <1>19, <2>6
  <2> QED BY <2>1, <2>2, <2>3, <2>4, <2>5, <2>6
<1>20. ASSUME NEW x \in In
       PROVE  (\E o \in Out : o.id = x.id) \/ (\A y \in Places : y.id # x.id)
  <2>1. PICK p \in given : x = OfEnd(Over(p)) \/ Told(x, p)
    BY <1>11
  <2> QED BY <1>12, <1>13, <1>14, <1>15, <2>1
<1>21. Places' \subseteq (Places \ Out) \cup In
  BY DEF In
<1>22. Unique'
  <2>1. Moved(Out, In)
    BY <1>10, <1>19, <1>20, <1>21 DEF Moved
  <2> QED BY <2>1, Moves DEF IInv
<1>23. Rooted'
  <2>1. ASSUME NEW x \in Places'
        PROVE  \/ \E y \in Places : x.id = y.id
               \/ \E y \in Places, k \in Errors, e \in ends' : x.id = Append(y.id, k) /\ e.id = y.id
    <3>1. CASE x \notin In
      BY <1>21, <3>1
    <3>2. CASE x \in In
      <4>1. PICK p \in given : x = OfEnd(Over(p)) \/ Told(x, p)
        BY <1>11, <3>2
      <4>2. PICK o \in Places : o.id = p.id
        BY <1>10, <1>15
      <4>3. Over(p) \in ends' /\ Over(p).id = p.id
        BY <1>9 DEF Over
      <4>4. CASE x = OfEnd(Over(p))
        BY <1>13, <4>2, <4>4
      <4>5. CASE Told(x, p)
        BY <1>2, <1>12, <4>2, <4>3, <4>5 DEF About
      <4> QED BY <4>1, <4>4, <4>5
    <3> QED BY <3>1, <3>2
  <2>2. ends \subseteq ends' /\ Len(sent') = Len(sent)
    BY <1>2, <1>9
  <2> QED BY <1>2, <2>1, <2>2, StaysRooted DEF IInv
<1>24. TypesOK' /\ NetsOK'
  <2>1. waiting' \in [Routers -> SUBSET Keeping]
    BY <1>2, <1>8, <1>9 DEF OneOf
  <2>2. \A f \in frames' : f \in frames \/ (f \in Framing /\ OnNet(f))
    BY <1>8, <1>9 DEF OneOf
  <2> QED BY <1>2, <2>1, <2>2 DEF IInv, TypesOK, NetsOK, OnNet
<1> QED BY <1>22, <1>23, <1>24 DEF IInv

LEMMA ArpExpireOK ==
    ASSUME IInv, NEW r, NEW hop, ArpExpire(r, hop)
    PROVE  IInv'
BY DEF ArpExpire, fixed, IInv, TypesOK, NetsOK, OnNet, Unique, Rooted, Places, Ids, Errors

LEMMA StepOK ==
    ASSUME IInv, [Next]_vars
    PROVE  IInv'
<1>1. CASE UNCHANGED vars
  BY <1>1 DEF vars, IInv, TypesOK, NetsOK, OnNet, Unique, Rooted, Places, Ids, Errors
<1>2. CASE Deliver
  BY <1>2, HostTakeOK, HandleOK DEF Deliver
<1>3. CASE \E r \in Routers : Resolve(r)
  BY <1>3, ArpReplyOK, GiveUpOK DEF Resolve
<1> QED BY <1>1, <1>2, <1>3, HostSendOK, DamageOK, ArpExpireOK DEF Next

-----------------------------------------------------------------------------
\* What the invariant says

LEMMA ScanIsRight ==
    ASSUME IInv
    PROVE  LongestButDefault
<1> SUFFICES ASSUME NEW r \in Routers, NEW a \in Addresses
             PROVE  LET found == FindEntry(table[r], a)
                        matching == {i \in 1 .. Len(table[r]) : Matches(table[r][i], a)}
                        default == {i \in matching : table[r][i].length = 0}
                    IN IF matching = default THEN found = 0
                       ELSE /\ found \in matching
                            /\ \A i \in matching :
                                  \/ table[r][i].length < table[r][found].length
                                  \/ table[r][i].length = table[r][found].length /\ found <= i
  BY DEF LongestButDefault
<1> DEFINE found == FindEntry(table[r], a)
           matching == {i \in 1 .. Len(table[r]) : Matches(table[r][i], a)}
           default == {i \in matching : table[r][i].length = 0}
           usable == Usable(table[r], a, Len(table[r]))
<1>1. IsLongest(table[r], a, Len(table[r]), found)
  BY TablesOK, FindEntryIsLongest DEF IInv
<1>2. \A i \in 1 .. Len(table[r]) : table[r][i].length \in Nat
  <2>1. table[r] \in Seq(Entry)
    BY TablesOK DEF IInv
  <2> QED BY <2>1, Entries DEF Entry
<1>3. usable = matching \ default /\ default \subseteq matching
  BY <1>2 DEF Usable
<1>4. CASE matching = default
  BY <1>1, <1>3, <1>4 DEF IsLongest
<1>5. CASE matching # default
  <2>1. usable # {}
    BY <1>3, <1>5
  <2>2. /\ found \in usable
        /\ \A i \in usable :
              \/ table[r][i].length < table[r][found].length
              \/ table[r][i].length = table[r][found].length /\ found <= i
    BY <1>1, <2>1 DEF IsLongest
  <2>3. found \in matching /\ table[r][found].length > 0
    BY <1>2, <1>3, <2>2 DEF Usable
  <2>4. ASSUME NEW i \in default PROVE table[r][i].length < table[r][found].length
    BY <2>3
  <2> QED BY <1>3, <1>5, <2>2, <2>3, <2>4
<1> QED BY <1>4, <1>5

LEMMA TypesAreRight ==
    ASSUME IInv
    PROVE  TypeOK
<1>1. ASSUME NEW p \in Carried PROVE p \in Carriable
  <2>1. (\E f \in frames : p = f.pkt) \/ (\E r \in Routers : \E w \in waiting[r] : p = w.pkt)
    BY DEF Carried
  <2> QED BY <2>1 DEF IInv, TypesOK, Framing, Keeping
<1>2. \A p \in Carried :
          /\ p.kind \in Icmp \cup {"data", "ospf", "blank"}
          /\ p.ttl \in Nat \ {0}
          /\ p.src \in Addresses /\ p.dst \in Addresses \cup Junk
  BY <1>1 DEF Carriable, Kinds
<1> QED BY <1>2 DEF TypeOK, IInv, TypesOK, NetsOK, OnNet

LEMMA AtMostOne ==
    ASSUME NEW S, \A x, y \in S : x = y
    PROVE  /\ Cardinality(S) \in {0, 1}
           /\ S = {} => Cardinality(S) = 0
<1>1. CASE S = {}
  BY <1>1, FS_EmptySet
<1>2. CASE S # {}
  <2>1. PICK x : S = {x}
    BY <1>2
  <2> QED BY <2>1, FS_Singleton
<1> QED BY <1>1, <1>2

LEMMA PlaceIsOne ==
    ASSUME IInv
    PROVE  OnePlace
<1> SUFFICES ASSUME NEW id
             PROVE  Cardinality({f \in frames : f.pkt.id = id})
                    + Cardinality({x \in Routers \X UNION {waiting[r] : r \in Routers} :
                                      x[2] \in waiting[x[1]] /\ x[2].pkt.id = id})
                    + Cardinality({e \in ends : e.id = id}) <= 1
  BY DEF OnePlace
<1> DEFINE A == {f \in frames : f.pkt.id = id}
           B == {x \in Routers \X UNION {waiting[r] : r \in Routers} :
                     x[2] \in waiting[x[1]] /\ x[2].pkt.id = id}
           C == {e \in ends : e.id = id}
<1>1. \A f \in A : OfFrame(f) \in Places /\ OfFrame(f).id = id
  BY OldPlaces DEF OfFrame
<1>2. \A x \in B : /\ OfKept(x[1], x[2]) \in Places /\ OfKept(x[1], x[2]).id = id
                   /\ x = <<x[1], x[2]>>
  BY OldPlaces DEF OfKept
<1>3. \A e \in C : OfEnd(e) \in Places /\ OfEnd(e).id = id
  BY OldPlaces DEF OfEnd
<1>4. Unique
  BY DEF IInv
<1> HIDE DEF A, B, C
<1>5. /\ \A f, g \in A : f = g
      /\ \A x, y \in B : x = y
      /\ \A d, e \in C : d = e
  <2>1. ASSUME NEW f \in A, NEW g \in A PROVE f = g
    BY <1>1, <1>4, PlacesDiffer DEF Unique
  <2>2. ASSUME NEW x \in B, NEW y \in B PROVE x = y
    <3>1. OfKept(x[1], x[2]) = OfKept(y[1], y[2])
      BY <1>2, <1>4 DEF Unique
    <3>2. x[1] = y[1] /\ x[2] = y[2]
      BY <3>1, PlacesDiffer
    <3> QED BY <1>2, <3>2
  <2>3. ASSUME NEW d \in C, NEW e \in C PROVE d = e
    BY <1>3, <1>4, PlacesDiffer DEF Unique
  <2> QED BY <2>1, <2>2, <2>3
<1>6. /\ A = {} \/ B = {}
      /\ A = {} \/ C = {}
      /\ B = {} \/ C = {}
  <2>1. ASSUME NEW f \in A, NEW x \in B PROVE FALSE
    BY <1>1, <1>2, <1>4, PlacesDiffer DEF Unique
  <2>2. ASSUME NEW f \in A, NEW e \in C PROVE FALSE
    BY <1>1, <1>3, <1>4, PlacesDiffer DEF Unique
  <2>3. ASSUME NEW x \in B, NEW e \in C PROVE FALSE
    BY <1>2, <1>3, <1>4, PlacesDiffer DEF Unique
  <2> QED BY <2>1, <2>2, <2>3
<1>7. /\ Cardinality(A) \in {0, 1} /\ (A = {} => Cardinality(A) = 0)
      /\ Cardinality(B) \in {0, 1} /\ (B = {} => Cardinality(B) = 0)
      /\ Cardinality(C) \in {0, 1} /\ (C = {} => Cardinality(C) = 0)
  BY <1>5, AtMostOne
<1>8. Cardinality(A) + Cardinality(B) + Cardinality(C) <= 1
  BY <1>6, <1>7
<1> QED BY <1>8 DEF A, B, C

-----------------------------------------------------------------------------
THEOREM Invariance == Spec => []IInv
<1>1. Init => IInv
  BY InitOK
<1>2. IInv /\ [Next]_vars => IInv'
  BY StepOK
<1> QED BY <1>1, <1>2, PTL DEF Spec

\* Whatever the tables hold, sr_find_rt_entry finds the first of the longest entries
\* that match an address, or nothing where only entries of length 0 match: a default
\* route is never found.
THEOREM TheLongestButDefault == Spec => []LongestButDefault
<1>1. IInv => LongestButDefault
  BY ScanIsRight
<1> QED BY <1>1, Invariance, PTL

\* However routers forward, hold, answer and report packets, in networks of any shape
\* and with any tables: each is on one wire, at one router or over in one way, so none
\* is both delivered and reported, and none is reported twice.
THEOREM PacketsAreInOnePlace == Spec => []PacketsOK
<1>1. IInv => PacketsOK
  BY TypesAreRight, PlaceIsOne DEF PacketsOK
<1> QED BY <1>1, Invariance, PTL

-----------------------------------------------------------------------------
\* Errors about errors

Own == {a \in Addresses : Station[a] \in Routers}

\* Where errors go: back to the hosts and routers that sent a packet, or astray.
Targets == Own \cup {o.src : o \in Offers} \cup Junk

NextHop(r, a) == Hop(table[r][FindEntry(table[r], a)], a)

\* Each router has a way back to the interfaces of all others, over routers, shorter
\* than the TTL of an error.  (A router of the first delivery may write to itself.)
Distances == [Routers -> [Own -> 1 .. ErrorTtl]]
Back(far) ==
    \A r \in Routers, i \in Own :
        /\ Station[i] # r => FindEntry(table[r], i) # 0
        /\ FindEntry(table[r], i) # 0 /\ (delivery = "second" => Station[i] # r) =>
              /\ NextHop(r, i) \in Own
              /\ far[Station[NextHop(r, i)]][i] < far[r][i]

\* The next hops towards where errors go answer.
Alive ==
    \A r \in Routers, a \in Targets :
        FindEntry(table[r], a) # 0 => Answers(r, NextHop(r, a)) # {}

Routed == Alive /\ \E far \in Distances : Back(far)

\* What is known of a packet, by whether it is an error and about what.
Mild(p) ==
    /\ Len(p.id) \in {1, 2, 3}
    /\ Len(p.id) = 1 => p.src \in Targets
    /\ Len(p.id) # 1 => p.kind \in Errors \cup {"blank"}
    /\ Len(p.id) = 2 => p.src \in Own /\ p.dst \in Targets
    /\ Len(p.id) = 3 => p.dst \in Own

\* An error about an error has enough of its TTL left at the router q.
Lasts(far, q, p) == Len(p.id) = 3 => p.ttl > far[q][p.dst]

MildFrames(far, F) ==
    \A f \in F : Mild(f.pkt) /\ (Station[f.to] \in Routers => Lasts(far, Station[f.to], f.pkt))

MildKept(far, r, W) ==
    \A w \in W :
        /\ Mild(w.pkt)
        /\ Len(w.pkt.id) # 1 => Answers(r, w.hop) # {}
        /\ Len(w.pkt.id) = 3 => w.hop \in Own /\ Lasts(far, Station[w.hop], w.pkt)

MildBy(far) == MildFrames(far, frames) /\ \A r \in Routers : MildKept(far, r, waiting[r])

ErrorsInv == Alive /\ \E far \in Distances : Back(far) /\ MildBy(far)

\* A distance is a number between 1 and the TTL of an error.
LEMMA FarIs ==
    ASSUME NEW far \in Distances, NEW q \in Routers, NEW i \in Own
    PROVE  far[q][i] \in Nat /\ far[q][i] >= 1 /\ far[q][i] <= ErrorTtl /\ ErrorTtl \in Nat
<1> DEFINE d == far[q][i]
<1>1. d \in 1 .. ErrorTtl
  BY DEF Distances
<1> HIDE DEF d
<1>2. d \in Nat /\ d >= 1 /\ d <= ErrorTtl /\ ErrorTtl \in Nat
  BY <1>1, BoundsAssumption
<1> QED BY <1>2 DEF d

\* What the TTL of an error is compared with.
LEMMA Above ==
    /\ \A l, m, n \in Nat : l < m /\ m <= n => n > l
    /\ \A m, n \in Nat : m >= 1 /\ n > m => ~(n <= 1)
    /\ \A l, m, n \in Nat : n > m /\ l < m => n - 1 > l
OBVIOUS

\* A packet goes to a next hop, as p on the wire or as q in the queue.
LEMMA SendsMild ==
    ASSUME NEW far \in Distances, NEW r \in Routers, NEW iface, NEW hop, NEW p, NEW q,
           Mild(p), Mild(q), p.id = q.id, p.dst = q.dst, p.ttl = q.ttl,
           Len(p.id) # 1 => Answers(r, hop) # {},
           Len(p.id) = 3 => hop \in Own /\ Lasts(far, Station[hop], p)
    PROVE  MildFrames(far, Framed(r, iface, hop, p)) /\ MildKept(far, r, Kept(r, hop, q))
<1>1. MildFrames(far, Framed(r, iface, hop, p))
  <2> SUFFICES ASSUME NEW f \in Framed(r, iface, hop, p)
               PROVE  Mild(f.pkt) /\ Lasts(far, Station[f.to], f.pkt)
    BY DEF MildFrames
  <2>1. f.pkt = p /\ f.to = hop
    BY DEF Framed, OnWire
  <2>2. Lasts(far, Station[hop], p)
    BY DEF Lasts
  <2> QED BY <2>1, <2>2
<1>2. MildKept(far, r, Kept(r, hop, q))
  <2> SUFFICES ASSUME NEW w \in Kept(r, hop, q)
               PROVE  /\ Mild(w.pkt)
                      /\ Len(w.pkt.id) # 1 => Answers(r, w.hop) # {}
                      /\ Len(w.pkt.id) = 3 => w.hop \in Own /\ Lasts(far, Station[w.hop], w.pkt)
    BY DEF MildKept
  <2>1. w.pkt = q /\ w.hop = hop
    BY DEF Kept
  <2> QED BY <2>1 DEF Lasts
<1> QED BY <1>1, <1>2

\* Frames and packets that wait go, and mild ones come at one router.
LEMMA MildMoves ==
    ASSUME NEW far, MildBy(far), NEW r, NEW F, NEW W, MildFrames(far, F), MildKept(far, r, W),
           frames' \subseteq frames \cup F,
           \A q \in Routers :
              waiting'[q] \subseteq IF q = r THEN waiting[q] \cup W ELSE waiting[q]
    PROVE  MildBy(far)'
<1>1. MildFrames(far, frames')
  BY DEF MildBy, MildFrames
<1>2. \A q \in Routers : MildKept(far, q, waiting'[q])
  BY DEF MildBy, MildKept
<1> QED BY <1>1, <1>2 DEF MildBy, MildFrames, MildKept, Mild, Lasts, Answers, Interfaces

LEMMA NoneMild == ASSUME NEW far, NEW r PROVE MildFrames(far, {}) /\ MildKept(far, r, {})
BY DEF MildFrames, MildKept

\* An error about a packet, or about an error whose next hop is alive.
LEMMA ErrorsMild ==
    ASSUME IInv, Alive, NEW far \in Distances, Back(far), NEW r \in Routers,
           NEW p \in Carriable, Mild(p), Len(p.id) # 3, NEW kind \in Errors, NEW junk,
           kind = "nohost" => junk \in Junk /\ Len(p.id) = 1
    PROVE  /\ MildFrames(far, ErrorFramed(r, p, kind, junk))
           /\ MildKept(far, r, ErrorKept(r, p, kind, junk))
<1>1. CASE ~Reports(r, p, kind, junk)
  BY <1>1 DEF ErrorFramed, ErrorKept, MildFrames, MildKept
<1>2. CASE Reports(r, p, kind, junk)
  <2> DEFINE e == ErrorRoute(r, p, kind, junk)
             to == RouteTo(p, kind, junk)
             hop == ErrorHop(r, p, kind, junk)
             error == Error(r, p, kind, junk)
             q == Unsent(error)
  <2>1. e \in Entry /\ Station[e.iface] = r /\ FindEntry(table[r], to) # 0
    BY <1>2, FoundEntry DEF Reports, ErrorRoute, IInv
  <2>2. e.iface \in Own
    BY <2>1 DEF Own, Entry
  <2>3. hop = NextHop(r, to)
    BY DEF ErrorHop, ErrorRoute, NextHop
  <2>4. \/ Len(p.id) = 1 /\ Len(Append(p.id, kind)) = 2 /\ p.src \in Targets
        \/ Len(p.id) = 2 /\ Len(Append(p.id, kind)) = 3 /\ p.src \in Own
    <3>1. p.id \in Ids /\ kind \in Nat \cup Errors
      BY DEF Carriable
    <3>2. Len(Append(p.id, kind)) = Len(p.id) + 1
      BY <3>1, AppendProperties DEF Ids
    <3>3. CASE Len(p.id) = 1
      BY <3>2, <3>3 DEF Mild
    <3>4. CASE Len(p.id) = 2
      BY <3>2, <3>4 DEF Mild
    <3> QED BY <3>3, <3>4 DEF Mild
  <2>5. Source(p, kind, junk) \in Targets /\ to \in Targets
    BY <2>4 DEF Source, RouteTo, Targets
  <2>6. Len(p.id) = 2 => Source(p, kind, junk) = p.src /\ to = p.src /\ p.src \in Own
    BY DEF Source, RouteTo, Mild
  <2>7. /\ error.id = Append(p.id, kind) /\ error.src = e.iface /\ error.ttl = ErrorTtl
        /\ error.dst = Source(p, kind, junk) /\ error.kind = kind
    BY DEF Error, Packet
  <2>8. /\ q.id = error.id /\ q.src = error.src /\ q.dst = error.dst /\ q.ttl = error.ttl
        /\ q.kind \in Errors \cup {"blank"}
    BY <2>7 DEF Unsent, Error, Packet
  <2> HIDE DEF e, to, hop, error, q
  <2>9. Mild(error) /\ Mild(q)
    <3>1. CASE Len(p.id) = 1
      <4>1. Len(error.id) = 2 /\ Len(q.id) = 2
        BY <2>4, <2>7, <2>8, <3>1
      <4> QED BY <2>2, <2>5, <2>7, <2>8, <4>1 DEF Mild
    <3>2. CASE Len(p.id) = 2
      <4>1. Len(error.id) = 3 /\ Len(q.id) = 3
        BY <2>4, <2>7, <2>8, <3>2
      <4> QED BY <2>6, <2>7, <2>8, <3>2, <4>1 DEF Mild
    <3> QED BY <2>4, <3>1, <3>2
  <2>10. Answers(r, hop) # {}
    BY <2>1, <2>3, <2>5 DEF Alive
  <2>11. ASSUME Len(error.id) = 3 PROVE hop \in Own /\ Lasts(far, Station[hop], error)
    <3>1. to \in Own /\ error.dst = to
      BY <2>4, <2>6, <2>7, <2>11
    <3>2. delivery = "second" => Station[to] # r
      BY <1>2, <2>4, <2>6, <2>7, <2>11 DEF Reports, Interfaces, Own
    <3>3. hop \in Own /\ far[Station[hop]][to] < far[r][to]
      BY <2>1, <2>3, <3>1, <3>2 DEF Back
    <3>4. Station[hop] \in Routers
      BY <3>3 DEF Own
    <3>5. /\ far[Station[hop]][to] \in Nat /\ far[r][to] \in Nat
          /\ far[r][to] <= ErrorTtl /\ ErrorTtl \in Nat
      BY <3>1, <3>4, FarIs
    <3>6. ErrorTtl > far[Station[hop]][to]
      BY <3>3, <3>5, Above
    <3> QED BY <2>7, <3>1, <3>3, <3>6 DEF Lasts
  <2>12. /\ MildFrames(far, Framed(r, e.iface, hop, error))
         /\ MildKept(far, r, Kept(r, hop, q))
    BY <2>8, <2>9, <2>10, <2>11, SendsMild
  <2> QED BY <1>2, <2>12 DEF ErrorFramed, ErrorKept, e, hop, error, q
<1> QED BY <1>1, <1>2

\* A router that reports a packet does not report an error about an error.
LEMMA ReportsMild ==
    ASSUME IInv, Alive, NEW far \in Distances, Back(far), MildBy(far), NEW r \in Routers,
           NEW f \in frames,
           TimeExceeded(r, f) \/ PortUnreachable(r, f) \/ NetUnreachable(r, f)
    PROVE  MildBy(far)'
<1>1. /\ f.pkt \in Carriable /\ Mild(f.pkt)
      /\ Station[f.to] = r /\ Lasts(far, r, f.pkt)
  <2>1. Station[f.to] = r
    BY DEF TimeExceeded, PortUnreachable, NetUnreachable, Handled, Arrived, Interfaces
  <2> QED BY <2>1 DEF IInv, TypesOK, Framing, MildBy, MildFrames
<1>2. Len(f.pkt.id) # 3
  <2> SUFFICES ASSUME Len(f.pkt.id) = 3 PROVE FALSE
    OBVIOUS
  <2>1. /\ f.pkt.dst \in Own /\ f.pkt.ttl > far[r][f.pkt.dst]
        /\ f.pkt.kind \in Errors \cup {"blank"}
    <3>1. Len(f.pkt.id) # 1
      OBVIOUS
    <3>2. f.pkt.dst \in Own /\ f.pkt.kind \in Errors \cup {"blank"}
      BY <1>1, <3>1 DEF Mild
    <3>3. f.pkt.ttl > far[r][f.pkt.dst]
      BY <1>1 DEF Lasts
    <3> QED BY <3>2, <3>3
  <2>2. far[r][f.pkt.dst] \in Nat /\ far[r][f.pkt.dst] >= 1 /\ f.pkt.ttl \in Nat
    <3>1. r \in Routers /\ f.pkt.dst \in Own /\ f.pkt.ttl \in Nat
      BY <1>1, <2>1 DEF Carriable
    <3> QED BY <3>1, FarIs
  <2>3. ~(f.pkt.ttl <= 1)
    BY <2>1, <2>2, Above
  <2>4. CASE TimeExceeded(r, f)
    BY <2>3, <2>4 DEF TimeExceeded, IsExpired
  <2>5. CASE PortUnreachable(r, f)
    BY <2>1, <2>5 DEF PortUnreachable, Handled, Arrived, Icmp
  <2>6. CASE NetUnreachable(r, f)
    <3>1. Station[f.pkt.dst] # r /\ FindEntry(table[r], f.pkt.dst) = 0
      BY <2>1, <2>6 DEF NetUnreachable, ForMe, Interfaces, Own
    <3> QED BY <2>1, <3>1 DEF Back
  <2> QED BY <2>4, <2>5, <2>6
<1>3. PICK kind \in Errors \ {"nohost"} : Report(r, f, kind)
  BY DEF TimeExceeded, PortUnreachable, NetUnreachable, Errors
<1>4. /\ MildFrames(far, ErrorFramed(r, f.pkt, kind, None))
      /\ MildKept(far, r, ErrorKept(r, f.pkt, kind, None))
  BY <1>1, <1>2, ErrorsMild
<1>5. /\ frames' = (frames \ {f}) \cup ErrorFramed(r, f.pkt, kind, None)
      /\ waiting' = [waiting EXCEPT ![r] = @ \cup ErrorKept(r, f.pkt, kind, None)]
      /\ waiting \in [Routers -> SUBSET Keeping]
  BY <1>3 DEF Report, IInv, TypesOK
<1> QED BY <1>4, <1>5, MildMoves

LEMMA ForwardMild ==
    ASSUME IInv, Alive, NEW far \in Distances, Back(far), MildBy(far), NEW r \in Routers,
           NEW f \in frames, Forward(r, f)
    PROVE  MildBy(far)'
<1> DEFINE route == table[r][FindEntry(table[r], f.pkt.dst)]
           hop == Hop(route, f.pkt.dst)
           p == [f.pkt EXCEPT !.ttl = @ - 1]
<1>1. /\ f.pkt \in Carriable /\ Mild(f.pkt) /\ Lasts(far, r, f.pkt)
      /\ Station[f.pkt.dst] # r \/ f.pkt.dst \notin Addresses
      /\ FindEntry(table[r], f.pkt.dst) # 0
  <2>1. Station[f.to] = r
    BY DEF Forward, Handled, Arrived, Interfaces
  <2> QED BY <2>1 DEF Forward, ForMe, Interfaces, IInv, TypesOK, Framing, MildBy, MildFrames
<1>2. /\ p.id = f.pkt.id /\ p.src = f.pkt.src /\ p.dst = f.pkt.dst /\ p.kind = f.pkt.kind
      /\ p.ttl = f.pkt.ttl - 1
  BY <1>1 DEF Carriable
<1>3. hop = NextHop(r, p.dst)
  BY <1>2 DEF NextHop
<1>4. /\ frames' = (frames \ {f}) \cup Framed(r, route.iface, hop, p)
      /\ waiting' = [waiting EXCEPT ![r] = @ \cup Kept(r, hop, p)]
      /\ waiting \in [Routers -> SUBSET Keeping]
  BY DEF Forward, IInv, TypesOK
<1> HIDE DEF route, hop, p
<1>5. Mild(p)
  BY <1>1, <1>2 DEF Mild
<1>6. ASSUME Len(p.id) # 1 PROVE Answers(r, hop) # {}
  <2>1. p.dst \in Targets
    BY <1>5, <1>6 DEF Mild, Targets
  <2> QED BY <1>1, <1>2, <1>3, <2>1 DEF Alive
<1>7. ASSUME Len(p.id) = 3 PROVE hop \in Own /\ Lasts(far, Station[hop], p)
  <2>1. p.dst \in Own /\ f.pkt.ttl > far[r][p.dst]
    BY <1>1, <1>2, <1>7 DEF Mild, Lasts
  <2>2. Station[p.dst] # r
    BY <1>1, <1>2, <2>1 DEF Own
  <2>3. hop \in Own /\ far[Station[hop]][p.dst] < far[r][p.dst]
    BY <1>1, <1>2, <1>3, <2>1, <2>2 DEF Back
  <2>4. far[Station[hop]][p.dst] \in Nat /\ far[r][p.dst] \in Nat /\ f.pkt.ttl \in Nat
    <3>1. Station[hop] \in Routers /\ f.pkt.ttl \in Nat
      BY <1>1, <2>3 DEF Own, Carriable
    <3> QED BY <2>1, <3>1, FarIs
  <2>5. f.pkt.ttl - 1 > far[Station[hop]][p.dst]
    BY <2>1, <2>3, <2>4, Above
  <2> QED BY <1>2, <2>3, <2>5 DEF Lasts
<1>8. MildFrames(far, Framed(r, route.iface, hop, p)) /\ MildKept(far, r, Kept(r, hop, p))
  BY <1>5, <1>6, <1>7, SendsMild
<1> QED BY <1>4, <1>8, MildMoves

LEMMA EchoMild ==
    ASSUME IInv, NEW far \in Distances, MildBy(far), NEW r \in Routers,
           NEW f \in frames, EchoReply(r, f)
    PROVE  MildBy(far)'
<1> DEFINE p == [f.pkt EXCEPT !.src = f.pkt.dst, !.dst = f.pkt.src, !.kind = "reply"]
<1>1. /\ f.pkt \in Carriable /\ Mild(f.pkt) /\ f.pkt.kind = "echo" /\ f.pkt.dst \in Own
  BY DEF EchoReply, ForMe, Interfaces, Own, IInv, TypesOK, Framing, MildBy, MildFrames
<1>2. Len(f.pkt.id) = 1
  BY <1>1 DEF Mild, Errors
<1>3. p.id = f.pkt.id /\ p.src = f.pkt.dst
  BY <1>1 DEF Carriable
<1>4. /\ frames' = (frames \ {f}) \cup OnWire(f.to, f.from, p)
      /\ waiting' = waiting
  BY DEF EchoReply
<1> HIDE DEF p
<1>5. Mild(p) /\ \A q : Lasts(far, q, p)
  <2>1. Len(p.id) = 1 /\ p.src \in Targets
    BY <1>1, <1>2, <1>3 DEF Targets
  <2> QED BY <2>1 DEF Mild, Lasts
<1>6. MildFrames(far, OnWire(f.to, f.from, p))
  BY <1>5 DEF MildFrames, OnWire
<1> QED BY <1>4, <1>6, NoneMild, MildMoves

LEMMA HandleMild ==
    ASSUME IInv, Alive, NEW far \in Distances, Back(far), MildBy(far), NEW r \in Routers,
           NEW f \in frames, Handle(r, f)
    PROVE  MildBy(far)'
<1>1. CASE DropBroken(r, f) \/ TakeOspf(r, f) \/ TakeIcmp(r, f)
  <2>1. frames' \subseteq frames /\ waiting' = waiting
    BY <1>1 DEF DropBroken, TakeOspf, TakeIcmp
  <2> QED BY <2>1, NoneMild, MildMoves
<1> QED BY <1>1, ReportsMild, EchoMild, ForwardMild DEF Handle

LEMMA HostTakeMild ==
    ASSUME NEW far, MildBy(far), NEW f, HostTake(f)
    PROVE  MildBy(far)'
<1>1. frames' \subseteq frames /\ waiting' = waiting
  BY DEF HostTake
<1> QED BY <1>1, NoneMild, MildMoves

LEMMA DamageMild ==
    ASSUME IInv, NEW far, MildBy(far), NEW f \in frames, Damage(f)
    PROVE  MildBy(far)'
<1> DEFINE g == [f EXCEPT !.pkt.ok = FALSE]
<1>1. /\ f \in Framing /\ Mild(f.pkt)
      /\ Station[f.to] \in Routers => Lasts(far, Station[f.to], f.pkt)
  BY DEF IInv, TypesOK, MildBy, MildFrames
<1>2. /\ g.to = f.to /\ g.pkt.id = f.pkt.id /\ g.pkt.src = f.pkt.src /\ g.pkt.dst = f.pkt.dst
      /\ g.pkt.ttl = f.pkt.ttl /\ g.pkt.kind = f.pkt.kind
  BY <1>1 DEF Framing, Carriable
<1>3. frames' = (frames \ {f}) \cup {g} /\ waiting' = waiting
  BY DEF Damage
<1> HIDE DEF g
<1>4. MildFrames(far, {g})
  BY <1>1, <1>2 DEF MildFrames, Mild, Lasts
<1> QED BY <1>3, <1>4, NoneMild, MildMoves

LEMMA HostSendMild ==
    ASSUME NEW far, MildBy(far), NEW o \in Offers, HostSend(o)
    PROVE  MildBy(far)'
<1> DEFINE p == Packet(<<Len(sent) + 1>>, o.src, o.dst, o.ttl, o.kind)
<1>1. Len(p.id) = 1 /\ p.src = o.src
  BY DEF Packet
<1>2. frames' = frames \cup OnWire(o.src, o.via, p) /\ waiting' = waiting
  BY DEF HostSend
<1> HIDE DEF p
<1>3. Mild(p) /\ \A q : Lasts(far, q, p)
  BY <1>1 DEF Mild, Targets, Lasts
<1>4. MildFrames(far, OnWire(o.src, o.via, p))
  BY <1>3 DEF MildFrames, OnWire
<1> QED BY <1>2, <1>4, NoneMild, MildMoves

LEMMA ArpReplyMild ==
    ASSUME IInv, NEW far, MildBy(far), NEW r \in Routers, NEW hop, ArpReply(r, hop)
    PROVE  MildBy(far)'
<1>1. PICK i \in Answers(r, hop) :
         frames' = frames \cup UNION {OnWire(i, hop, w.pkt) : w \in Waiting(r, hop)}
  BY DEF ArpReply
<1>2. /\ waiting' = [waiting EXCEPT ![r] = @ \ Waiting(r, hop)]
      /\ waiting \in [Routers -> SUBSET Keeping]
  BY DEF ArpReply, Served, IInv, TypesOK
<1>3. ASSUME NEW w \in Waiting(r, hop) PROVE MildFrames(far, OnWire(i, hop, w.pkt))
  <2>1. /\ w.hop = hop /\ Mild(w.pkt)
        /\ Len(w.pkt.id) = 3 => Lasts(far, Station[w.hop], w.pkt)
    BY DEF Waiting, MildBy, MildKept
  <2>2. Lasts(far, Station[hop], w.pkt)
    BY <2>1 DEF Lasts
  <2> QED BY <2>1, <2>2 DEF MildFrames, OnWire
<1>4. MildFrames(far, UNION {OnWire(i, hop, w.pkt) : w \in Waiting(r, hop)})
  BY <1>3 DEF MildFrames
<1> QED BY <1>1, <1>2, <1>4, NoneMild, MildMoves

\* What is given up is a packet of a host: the next hops of errors answer.
LEMMA GiveUpMild ==
    ASSUME IInv, Alive, NEW far \in Distances, Back(far), MildBy(far), NEW r \in Routers,
           NEW hop, GiveUp(r, hop)
    PROVE  MildBy(far)'
<1> DEFINE given == {w.pkt : w \in Waiting(r, hop)}
<1>1. PICK junk \in Junk :
         /\ frames' = frames \cup UNION {ErrorFramed(r, p, "nohost", junk) : p \in given}
         /\ waiting' = [waiting EXCEPT ![r] =
               (@ \ Waiting(r, hop)) \cup UNION {ErrorKept(r, p, "nohost", junk) : p \in given}]
  BY DEF GiveUp
<1>2. /\ waiting \in [Routers -> SUBSET Keeping]
      /\ Answers(r, hop) = {}
  BY DEF GiveUp, IInv, TypesOK
<1>3. ASSUME NEW p \in given PROVE p \in Carriable /\ Mild(p) /\ Len(p.id) = 1
  <2>1. PICK w \in Waiting(r, hop) : p = w.pkt
    OBVIOUS
  <2> QED BY <1>2, <2>1 DEF Waiting, Keeping, MildBy, MildKept
<1> HIDE DEF given
<1>4. ASSUME NEW p \in given
      PROVE  /\ MildFrames(far, ErrorFramed(r, p, "nohost", junk))
             /\ MildKept(far, r, ErrorKept(r, p, "nohost", junk))
  <2>1. p \in Carriable /\ Mild(p) /\ Len(p.id) = 1 /\ Len(p.id) # 3 /\ "nohost" \in Errors
    BY <1>3 DEF Errors
  <2> QED BY <2>1, ErrorsMild
<1>5. MildFrames(far, UNION {ErrorFramed(r, p, "nohost", junk) : p \in given})
  BY <1>4 DEF MildFrames
<1>6. MildKept(far, r, UNION {ErrorKept(r, p, "nohost", junk) : p \in given})
  BY <1>4 DEF MildKept
<1> QED BY <1>1, <1>2, <1>5, <1>6, MildMoves

LEMMA ErrorsInit ==
    ASSUME Init, Routed
    PROVE  ErrorsInv
BY DEF Init, Routed, ErrorsInv, MildBy, MildFrames, MildKept

LEMMA RoutersStay ==
    ASSUME [Next]_vars
    PROVE  UNCHANGED <<delivery, table>>
<1>1. ASSUME NEW f, HostTake(f) PROVE UNCHANGED <<delivery, table>>
  BY <1>1 DEF HostTake, fixed
<1>2. ASSUME NEW r, NEW f, Handle(r, f) PROVE UNCHANGED <<delivery, table>>
  BY <1>2 DEF Handle, DropBroken, TakeOspf, TimeExceeded, EchoReply, TakeIcmp, PortUnreachable,
              NetUnreachable, Forward, Report, fixed
<1>3. ASSUME NEW r, NEW hop, ArpReply(r, hop) \/ GiveUp(r, hop) \/ ArpExpire(r, hop)
      PROVE  UNCHANGED <<delivery, table>>
  BY <1>3 DEF ArpReply, GiveUp, ArpExpire, fixed
<1> QED BY <1>1, <1>2, <1>3 DEF Next, Deliver, Resolve, HostSend, Damage, vars

LEMMA ErrorsStep ==
    ASSUME IInv, ErrorsInv, [Next]_vars
    PROVE  ErrorsInv'
<1>1. PICK far \in Distances : Back(far) /\ MildBy(far)
  BY DEF ErrorsInv
<1>2. Alive
  BY DEF ErrorsInv
<1>3. MildBy(far)'
  <2>1. CASE UNCHANGED vars
    BY <1>1, <2>1, NoneMild, MildMoves DEF vars
  <2>2. CASE Deliver
    BY <1>1, <1>2, <2>2, HostTakeMild, HandleMild DEF Deliver
  <2>3. CASE \E r \in Routers : Resolve(r)
    BY <1>1, <1>2, <2>3, ArpReplyMild, GiveUpMild DEF Resolve
  <2>4. ASSUME NEW r \in Routers, NEW hop, ArpExpire(r, hop) PROVE MildBy(far)'
    BY <1>1, <2>4, NoneMild, MildMoves DEF ArpExpire
  <2> QED BY <1>1, <2>1, <2>2, <2>3, <2>4, HostSendMild, DamageMild DEF Next
<1>4. Alive' /\ Back(far)'
  <2>1. table' = table /\ delivery' = delivery
    BY RoutersStay
  <2>2. Alive'
    BY <1>2, <2>1 DEF Alive, NextHop, Hop, Answers, Interfaces
  <2>3. Back(far)'
    BY <1>1, <2>1 DEF Back, NextHop, Hop
  <2> QED BY <2>2, <2>3
<1> QED BY <1>3, <1>4 DEF ErrorsInv, Distances, Own

LEMMA ErrorsAreShort ==
    ASSUME ErrorsInv
    PROVE  ErrorsDieOut
<1>1. PICK far \in Distances : MildBy(far)
  BY DEF ErrorsInv
<1>2. ASSUME NEW p \in Carried PROVE Mild(p)
  <2>1. (\E f \in frames : p = f.pkt) \/ (\E r \in Routers : \E w \in waiting[r] : p = w.pkt)
    BY DEF Carried
  <2> QED BY <1>1, <2>1 DEF MildBy, MildFrames, MildKept
<1>3. \A n \in {1, 2, 3} : n <= 3
  OBVIOUS
<1>4. \A p \in Carried : Len(p.id) \in {1, 2, 3}
  BY <1>2 DEF Mild
<1> QED BY <1>3, <1>4 DEF ErrorsDieOut

\* The errors end, in any network whose routers have ways to the hosts that send and to
\* one another that an error's TTL lasts for: no error goes out about an error about an
\* error.
THEOREM ErrorsEnd == Spec /\ Routed => []ErrorsDieOut
<1>1. Init /\ Routed => ErrorsInv
  BY ErrorsInit
<1>2. IInv /\ ErrorsInv /\ [Next]_vars => ErrorsInv'
  BY ErrorsStep
<1>3. ErrorsInv => ErrorsDieOut
  BY ErrorsAreShort
<1> QED BY <1>1, <1>2, <1>3, Invariance, PTL DEF Spec

=============================================================================
