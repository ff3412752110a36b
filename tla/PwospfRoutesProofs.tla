------------------------- MODULE PwospfRoutesProofs -------------------------
(***************************************************************************)
(* Invariants of PwospfRoutes, for any routers, networks and LSAs: a heap  *)
(* that is in order when it is popped, and, in its second half, routes     *)
(* that are shortest paths.                                                *)
(***************************************************************************)
EXTENDS PwospfRoutes, TLAPS, SequenceTheorems, WellFoundedInduction

\* While dijkstra_stack_reorder passes over the heap only the item it carries
\* may be out of order, and only with what is after it.
Carrying ==
  at = "reorder" =>
    /\ pos <= Len(heap)
    /\ \A i, j \in DOMAIN heap :
         i < j /\ i # pos => heap[i].cost <= heap[j].cost

\* The search is for a network of the topology, and what it expands is an item.
Searching ==
  /\ at \in {"roots", "pop", "expand", "reorder", "install"} =>
       dest <= Len(topology)
  /\ at \in {"expand", "reorder"} => top \in Item

IInv == TypeOK /\ HeapInOrder /\ Carrying /\ Searching

-----------------------------------------------------------------------------
(* Sequences.                                                              *)

LEMMA Interfaces ==
  /\ IfList \in Seq(Nets) /\ Len(IfList) \in Nat \ {0}
  /\ DOMAIN IfList = 1..Len(IfList)
  /\ \A k \in 1..Len(IfList) : IfList[k] \in Ifs
  /\ Ifs \subseteq Nets
<1>1. IfList \in Seq(Nets) /\ IfList # <<>>
  BY RoutersAssumption
<1>2. /\ Len(IfList) \in Nat /\ DOMAIN IfList = 1..Len(IfList)
      /\ IfList \in [1..Len(IfList) -> Nets]
  BY <1>1, LenProperties
<1>3. Len(IfList) # 0
  BY <1>1, EmptySeq
<1> QED BY <1>1, <1>2, <1>3 DEF Ifs

\* An element in front of a sequence.
LEMMA Pushed ==
  ASSUME NEW S, NEW e \in S, NEW s \in Seq(S)
  PROVE  /\ <<e>> \o s \in Seq(S)
         /\ Len(<<e>> \o s) = Len(s) + 1
         /\ DOMAIN (<<e>> \o s) = 1..(Len(s) + 1)
         /\ (<<e>> \o s)[1] = e
         /\ \A k \in 2..(Len(s) + 1) : (<<e>> \o s)[k] = s[k - 1]
<1>1. <<e>> \in Seq(S) /\ Len(<<e>>) = 1 /\ <<e>>[1] = e
  OBVIOUS
<1>2. Len(s) \in Nat
  BY LenProperties
<1>3. /\ <<e>> \o s \in Seq(S)
      /\ Len(<<e>> \o s) = 1 + Len(s)
      /\ \A k \in 1..(1 + Len(s)) :
           (<<e>> \o s)[k] = IF k <= 1 THEN <<e>>[k] ELSE s[k - 1]
  BY <1>1, ConcatProperties
<1>4. DOMAIN (<<e>> \o s) = 1..Len(<<e>> \o s)
  BY <1>3, LenProperties
<1> QED BY <1>1, <1>2, <1>3, <1>4

\* A sequence without one of its elements.
LEMMA Removed ==
  ASSUME NEW S, NEW s \in Seq(S), NEW k \in 1..Len(s)
  PROVE  /\ Without(s, k) \in Seq(S)
         /\ Len(Without(s, k)) = Len(s) - 1
         /\ DOMAIN Without(s, k) = 1..(Len(s) - 1)
         /\ \A j \in 1..(Len(s) - 1) :
              Without(s, k)[j] = IF j < k THEN s[j] ELSE s[j + 1]
<1>1. Len(s) \in Nat /\ s \in [1..Len(s) -> S]
  BY LenProperties
<1>2. Len(s) - 1 \in Nat
  BY <1>1
<1>3. Without(s, k) \in [1..(Len(s) - 1) -> S]
  BY <1>1, <1>2 DEF Without
<1>4. Without(s, k) \in Seq(S)
  BY <1>2, <1>3, SeqDef
<1>5. Len(Without(s, k)) = Len(s) - 1
  BY <1>2, <1>3, <1>4, LenProperties
<1> QED BY <1>1, <1>3, <1>4, <1>5 DEF Without

LEMMA Lists ==
  ASSUME TypeOK
  PROVE  /\ Len(topology) \in Nat /\ DOMAIN topology = 1..Len(topology)
         /\ \A k \in 1..Len(topology) : topology[k] \in Entry
         /\ Len(heap) \in Nat /\ DOMAIN heap = 1..Len(heap)
         /\ \A k \in 1..Len(heap) : heap[k] \in Item /\ heap[k].cost \in Nat \ {0}
         /\ Len(rt) \in Nat \ {0} /\ DOMAIN rt = 1..Len(rt)
<1>1. topology \in Seq(Entry) /\ heap \in Seq(Item) /\ rt \in Seq(Route) /\ rt # <<>>
  BY DEF TypeOK
<1>2. \A k \in 1..Len(heap) : heap[k] \in Item
  BY <1>1, ElementOfSeq
<1>3. \A k \in 1..Len(heap) : heap[k].cost \in 1..MaxCost
  BY <1>2 DEF Item
<1> QED BY <1>1, <1>2, <1>3, LenProperties, ElementOfSeq, EmptySeq, BoundsAssumption

\* What leaves the list of entries and the routing table alone, the type too.
LEMMA TypesNext ==
  ASSUME TypeOK, UNCHANGED <<topology, known, rt>>,
         at' \in {"idle", "outdated", "clear", "dest", "roots", "pop", "expand",
                  "reorder", "install"},
         dest' \in Nat \ {0}, heap' \in Seq(Item), top' \in Item \union {NoItem},
         ptr' \in Nat \ {0}, pos' \in Nat \ {0}
  PROVE  TypeOK'
BY DEF TypeOK

-----------------------------------------------------------------------------
(* The initial state and the changes of the topology.                      *)

LEMMA InitOK == Init => IInv
<1> SUFFICES ASSUME Init PROVE IInv
  OBVIOUS
<1>1. rt \in Seq(Route) /\ rt # <<>>
  <2>1. \A k \in 1..Len(IfList) : Direct(IfList[k]) \in Route
    BY Interfaces DEF Direct, Route
  <2>2. rt \in [1..Len(IfList) -> Route]
    BY <2>1, Interfaces DEF Init
  <2>3. rt \in Seq(Route)
    BY <2>2, Interfaces, SeqDef
  <2>4. Len(rt) = Len(IfList)
    BY <2>2, <2>3, Interfaces, LenProperties
  <2> QED BY <2>3, <2>4, Interfaces, EmptySeq
<1>2. TypeOK
  BY <1>1 DEF Init, TypeOK
<1> QED BY <1>2 DEF Init, IInv, HeapInOrder, Carrying, Searching

LEMMA SearchOK ==
  ASSUME IInv, Waiting, Search, topology' \in Seq(Entry)
  PROVE  IInv'
<1>1. TypeOK'
  BY DEF IInv, TypeOK, Search, search
<1>2. HeapInOrder'
  BY DEF IInv, HeapInOrder, Search, search, Waiting
<1> QED BY <1>1, <1>2 DEF IInv, Search, Carrying, Searching

LEMMA LearnOK ==
  ASSUME IInv, NEW e \in Adverts,
         Insert(e) \/ \E k \in DOMAIN topology : Renew(e, k)
  PROVE  IInv'
<1>1. e \in Entry /\ topology \in Seq(Entry)
  BY RoutersAssumption DEF IInv, TypeOK
<1>2. CASE Insert(e)
  BY <1>1, <1>2, Pushed, SearchOK DEF Insert
<1>3. ASSUME NEW k \in DOMAIN topology, Renew(e, k)
      PROVE  IInv'
  <2> DEFINE f == [topology[k] EXCEPT !.nbr = e.nbr]
  <2>1. k \in 1..Len(topology) /\ topology[k] \in Entry
    BY <1>3, Lists DEF IInv
  <2>2. f \in Entry
    BY <1>1, <2>1 DEF Entry
  <2>3. topology' = [topology EXCEPT ![k] = f]
    BY <1>3 DEF Renew
  <2> HIDE DEF f
  <2>4. topology' \in Seq(Entry)
    BY <1>1, <2>1, <2>2, <2>3, ExceptSeq
  <2> QED BY <1>3, <2>4, SearchOK DEF Renew
<1> QED BY <1>2, <1>3

LEMMA RemoveOK ==
  ASSUME IInv, Ignore \/ \E k \in DOMAIN topology : Remove(k)
  PROVE  IInv'
<1>1. topology \in Seq(Entry)
  BY DEF IInv, TypeOK
<1>2. CASE Ignore
  BY <1>1, <1>2, SearchOK DEF Ignore
<1>3. ASSUME NEW k \in DOMAIN topology, Remove(k)
      PROVE  IInv'
  <2>1. k \in 1..Len(topology)
    BY <1>3, Lists DEF IInv
  <2> QED BY <1>1, <1>3, <2>1, Removed, SearchOK DEF Remove
<1> QED BY <1>2, <1>3

LEMMA MeetOK ==
  ASSUME IInv, NEW i \in Ifs, Meet(i)
  PROVE  IInv'
<1>1. known' \in [Ifs -> Routers \union {NoRouter}]
  BY RoutersAssumption DEF IInv, TypeOK, Meet
<1>2. TypeOK'
  BY <1>1 DEF IInv, TypeOK, Meet, search
<1> QED
  BY <1>2 DEF IInv, Meet, search, Waiting, HeapInOrder, Carrying,
              Searching

-----------------------------------------------------------------------------
(* The steps of run_dijkstra.                                              *)

LEMMA ClearOK ==
  ASSUME IInv, DropRoute \/ KeepRoute \/ Cleared
  PROVE  IInv'
<1>1. CASE DropRoute
  <2>1. rt \in Seq(Route) /\ Len(rt) \in Nat /\ ptr + 1 \in 2..Len(rt)
    BY <1>1, Lists DEF IInv, TypeOK, DropRoute
  <2>2. rt' \in Seq(Route) /\ Len(rt') = Len(rt) - 1
    BY <1>1, <2>1, Removed DEF DropRoute
  <2>3. rt' # <<>>
    BY <2>1, <2>2, EmptySeq
  <2>4. TypeOK'
    BY <1>1, <2>2, <2>3 DEF IInv, TypeOK, DropRoute, search
  <2> QED BY <1>1, <2>4 DEF IInv, DropRoute, search, HeapInOrder,
                            Carrying, Searching
<1>2. CASE KeepRoute
  <2>1. TypeOK'
    BY <1>2 DEF IInv, TypeOK, KeepRoute
  <2> QED BY <1>2, <2>1 DEF IInv, KeepRoute, HeapInOrder, Carrying,
                            Searching
<1>3. CASE Cleared
  <2>1. TypeOK'
    BY <1>3 DEF IInv, TypeOK, Cleared, search
  <2> QED BY <1>3, <2>1 DEF IInv, Cleared, search, HeapInOrder,
                            Carrying, Searching
<1> QED BY <1>1, <1>2, <1>3

LEMMA DestOK ==
  ASSUME IInv, NextDest \/ RootsPushed \/ Finish
  PROVE  IInv'
<1>1. CASE NextDest
  <2>1. TypeOK'
    BY <1>1 DEF IInv, TypeOK, NextDest
  <2> QED BY <1>1, <2>1 DEF IInv, NextDest, HeapInOrder, Carrying,
                            Searching
<1>2. CASE RootsPushed
  <2>1. TypeOK'
    BY <1>2 DEF IInv, TypeOK, RootsPushed
  <2> QED BY <1>2, <2>1 DEF IInv, RootsPushed, HeapInOrder, Carrying,
                            Searching
<1>3. CASE Finish
  <2>1. TypeOK'
    BY <1>3 DEF IInv, TypeOK, Finish
  <2> QED BY <1>3, <2>1 DEF IInv, Finish, HeapInOrder, Carrying,
                            Searching
<1> QED BY <1>1, <1>2, <1>3

\* An item in front of a heap in order leaves all but itself in order, and
\* itself too when none is cheaper.
LEMMA PushedHeap ==
  ASSUME TypeOK, HeapInOrder, at # "reorder", NEW e \in Item,
         heap' = <<e>> \o heap
  PROVE  /\ heap' \in Seq(Item) /\ Len(heap') = Len(heap) + 1
         /\ \A i, j \in DOMAIN heap' :
              i < j /\ i # 1 => heap'[i].cost <= heap'[j].cost
         /\ e.cost = 1 => \A i, j \in DOMAIN heap' :
                             i < j => heap'[i].cost <= heap'[j].cost
<1>1. heap \in Seq(Item) /\ Len(heap) \in Nat /\ DOMAIN heap = 1..Len(heap)
  BY Lists DEF TypeOK
<1>2. /\ heap' \in Seq(Item) /\ Len(heap') = Len(heap) + 1
      /\ DOMAIN heap' = 1..(Len(heap) + 1)
      /\ heap'[1] = e
      /\ \A k \in 2..(Len(heap) + 1) : heap'[k] = heap[k - 1]
  BY <1>1, Pushed
<1>3. \A k \in 2..(Len(heap) + 1) :
        k - 1 \in DOMAIN heap /\ heap'[k].cost = heap[k - 1].cost
  BY <1>1, <1>2
<1>4. ASSUME NEW i \in DOMAIN heap', NEW j \in DOMAIN heap', i < j, i # 1
      PROVE  heap'[i].cost <= heap'[j].cost
  <2>1. i \in 2..(Len(heap) + 1) /\ j \in 2..(Len(heap) + 1)
    BY <1>1, <1>2, <1>4
  <2>2. i - 1 \in DOMAIN heap /\ j - 1 \in DOMAIN heap /\ i - 1 < j - 1
    BY <1>3, <1>4, <2>1
  <2>3. heap[i - 1].cost <= heap[j - 1].cost
    BY <2>2 DEF HeapInOrder
  <2> QED BY <1>3, <2>1, <2>3
<1>5. ASSUME e.cost = 1, NEW j \in DOMAIN heap', 1 < j
      PROVE  heap'[1].cost <= heap'[j].cost
  <2>1. j \in 2..(Len(heap) + 1)
    BY <1>1, <1>2, <1>5
  <2>2. heap'[j].cost \in Nat \ {0}
    BY <1>1, <1>3, <2>1, Lists
  <2> QED BY <1>2, <1>5, <2>2
<1> QED BY <1>2, <1>4, <1>5

LEMMA RootOK ==
  ASSUME IInv, PushRoot
  PROVE  IInv'
<1>1. TypeOK /\ at = "roots" /\ ptr \in 1..Len(IfList)
  BY Interfaces DEF IInv, PushRoot, TypeOK
<1> DEFINE i == IfList[ptr]
<1>2. CASE Usable(i)
  <2>1. i \in Ifs /\ i \in Nets
    BY <1>1, Interfaces
  <2>2. known[i] \in Routers
    BY <1>1, <1>2, <2>1 DEF TypeOK, Usable
  <2>3. Root(i) \in Item /\ Root(i).cost = 1
    BY <2>1, <2>2, BoundsAssumption DEF Root, Item
  <2>4. heap' = <<Root(i)>> \o heap
    BY <1>2 DEF PushRoot
  <2>5. /\ heap' \in Seq(Item)
        /\ \A j, k \in DOMAIN heap' : j < k => heap'[j].cost <= heap'[k].cost
    BY <1>1, <2>3, <2>4, PushedHeap DEF IInv
  <2>6. TypeOK'
    BY <1>1, <2>5 DEF TypeOK, PushRoot
  <2> QED BY <1>1, <2>5, <2>6 DEF IInv, PushRoot, HeapInOrder,
                                  Carrying, Searching
<1>3. CASE ~Usable(i)
  <2>1. heap' = heap
    BY <1>3 DEF PushRoot
  <2>2. TypeOK'
    BY <1>1, <2>1 DEF TypeOK, PushRoot
  <2> QED BY <1>1, <2>1, <2>2 DEF IInv, PushRoot, HeapInOrder,
                                  Carrying, Searching
<1> QED BY <1>2, <1>3

LEMMA PopOK ==
  ASSUME IInv, PopNone \/ PopDest \/ PopLeaf \/ PopRouter
  PROVE  IInv'
<1>1. CASE PopNone
  <2>1. TypeOK'
    BY <1>1 DEF IInv, TypeOK, PopNone, search
  <2> QED BY <1>1, <2>1 DEF IInv, PopNone, search, HeapInOrder,
                            Carrying, Searching
<1>2. ASSUME at = "pop", heap # <<>>, heap' = Tail(heap)
      PROVE  /\ heap' \in Seq(Item) /\ Head(heap) \in Item
             /\ \A i, j \in DOMAIN heap' :
                  i < j => heap'[i].cost <= heap'[j].cost
  <2>1. heap \in Seq(Item) /\ Len(heap) \in Nat /\ DOMAIN heap = 1..Len(heap)
    BY Lists DEF IInv, TypeOK
  <2>2. /\ heap' \in Seq(Item) /\ Head(heap) \in Item
        /\ Len(heap') = Len(heap) - 1
        /\ \A i \in 1..Len(heap') : heap'[i] = heap[i + 1]
    BY <1>2, <2>1, HeadTailProperties
  <2>3. DOMAIN heap' = 1..Len(heap')
    BY <2>2, LenProperties
  <2>4. ASSUME NEW i \in DOMAIN heap', NEW j \in DOMAIN heap', i < j
        PROVE  heap'[i].cost <= heap'[j].cost
    <3>1. i + 1 \in DOMAIN heap /\ j + 1 \in DOMAIN heap /\ i + 1 < j + 1
      BY <2>1, <2>2, <2>3, <2>4
    <3>2. heap[i + 1].cost <= heap[j + 1].cost
      BY <1>2, <3>1 DEF IInv, HeapInOrder
    <3> QED BY <2>2, <2>3, <3>2
  <2> QED BY <2>2, <2>4
<1>3. CASE PopDest \/ PopLeaf \/ PopRouter
  <2>1. /\ at = "pop" /\ heap # <<>> /\ heap' = Tail(heap)
        /\ UNCHANGED <<topology, known, rt, dest, pos>>
        /\ at' \in {"pop", "install", "expand"}
        /\ ptr' = ptr \/ ptr' = 1
        /\ top' = Head(heap) \/ (top' = top /\ at' = "pop")
    BY <1>3 DEF PopDest, PopLeaf, PopRouter
  <2>2. TypeOK'
    BY <1>2, <2>1 DEF IInv, TypeOK
  <2> QED BY <1>2, <2>1, <2>2 DEF IInv, HeapInOrder, Carrying,
                                  Searching
<1> QED BY <1>1, <1>3

LEMMA ExpandOK ==
  ASSUME IInv, PushChild \/ PassOver \/ Expanded \/ Reordered
  PROVE  IInv'
<1>1. CASE PushChild
  <2>1. TypeOK /\ at = "expand" /\ ptr \in 1..Len(topology) /\ top \in Item
    BY <1>1, Lists DEF IInv, TypeOK, PushChild, Searching
  <2>2. topology[ptr] \in Entry
    BY <2>1, Lists
  <2>3. top.cost + 1 \in 1..MaxCost
    BY <1>1, <2>1, BoundsAssumption DEF PushChild, Item
  <2> DEFINE e == Child(topology[ptr], top)
  <2>4. e \in Item
    BY <2>1, <2>2, <2>3 DEF Child, Further, Item, Entry
  <2>5. heap' = <<e>> \o heap
    BY <1>1 DEF PushChild
  <2> HIDE DEF e
  <2>6. /\ heap' \in Seq(Item) /\ Len(heap') = Len(heap) + 1
        /\ \A i, j \in DOMAIN heap' :
             i < j /\ i # 1 => heap'[i].cost <= heap'[j].cost
    BY <2>1, <2>4, <2>5, PushedHeap DEF IInv
  <2>7. TypeOK'
    BY <1>1, <2>1, <2>6 DEF TypeOK, PushChild
  <2>8. Carrying'
    BY <1>1, <2>1, <2>6, Lists DEF PushChild, Carrying
  <2> QED BY <1>1, <2>1, <2>7, <2>8 DEF IInv, PushChild, HeapInOrder,
                                        Searching
<1>2. CASE PassOver
  <2>1. TypeOK'
    BY <1>2 DEF IInv, TypeOK, PassOver, Past
  <2> QED BY <1>2, <2>1 DEF IInv, PassOver, HeapInOrder, Carrying,
                            Searching
<1>3. CASE Expanded
  <2>1. TypeOK'
    BY <1>3 DEF IInv, TypeOK, Expanded, search
  <2> QED BY <1>3, <2>1 DEF IInv, Expanded, search, HeapInOrder,
                            Carrying, Searching
<1>4. CASE Reordered
  <2>1. TypeOK'
    BY <1>4 DEF IInv, TypeOK, Reordered, Past
  <2>2. pos = Len(heap)
    BY <1>4, Lists DEF IInv, TypeOK, Reordered, Carrying
  <2>3. HeapInOrder'
    <3> SUFFICES ASSUME NEW i \in DOMAIN heap, NEW j \in DOMAIN heap, i < j
                 PROVE  heap[i].cost <= heap[j].cost
      BY <1>4 DEF Reordered, HeapInOrder
    <3>1. i # pos
      BY <2>2, Lists DEF IInv
    <3> QED BY <1>4, <3>1 DEF IInv, Reordered, Carrying
  <2> QED BY <1>4, <2>1, <2>3 DEF IInv, Reordered, Carrying, Searching
<1> QED BY <1>1, <1>2, <1>3, <1>4

\* The item carried stays put when it is not dearer than the next one, and
\* then it is in order; it is exchanged with a cheaper one, and carried on.
LEMMA SwapOK ==
  ASSUME IInv, Swap
  PROVE  IInv'
<1>1. /\ TypeOK /\ at = "reorder" /\ heap \in Seq(Item)
      /\ Len(heap) \in Nat /\ DOMAIN heap = 1..Len(heap)
      /\ pos \in 1..Len(heap) /\ pos + 1 \in 1..Len(heap)
  BY Lists DEF IInv, TypeOK, Swap
<1>2. \A k \in 1..Len(heap) : heap[k] \in Item /\ heap[k].cost \in Nat
  BY <1>1, Lists
<1>3. \A i, j \in 1..Len(heap) :
        i < j /\ i # pos => heap[i].cost <= heap[j].cost
  BY <1>1 DEF IInv, Carrying
<1>4. /\ heap' \in Seq(Item) /\ Len(heap') = Len(heap)
      /\ \A i, j \in 1..Len(heap) :
           i < j /\ i # pos + 1 => heap'[i].cost <= heap'[j].cost
  <2>1. CASE OutOfOrder(heap[pos], heap[pos + 1])
    <3> DEFINE mid == [heap EXCEPT ![pos] = heap[pos + 1]]
    <3>1. /\ mid \in Seq(Item) /\ Len(mid) = Len(heap)
          /\ \A k \in 1..Len(heap) :
               mid[k] = IF k = pos THEN heap[pos + 1] ELSE heap[k]
      BY <1>1, <1>2, ExceptSeq
    <3>2. heap' = [mid EXCEPT ![pos + 1] = heap[pos]]
      BY <2>1 DEF Swap
    <3> HIDE DEF mid
    <3>3. /\ heap' \in Seq(Item) /\ Len(heap') = Len(heap)
          /\ \A k \in 1..Len(heap) :
               heap'[k] = IF k = pos + 1 THEN heap[pos] ELSE mid[k]
      BY <1>1, <1>2, <3>1, <3>2, ExceptSeq
    <3>4. \A k \in 1..Len(heap) :
            heap'[k].cost = IF k = pos + 1 THEN heap[pos].cost
                            ELSE IF k = pos THEN heap[pos + 1].cost
                            ELSE heap[k].cost
      BY <3>1, <3>3
    <3>5. heap[pos + 1].cost < heap[pos].cost
      BY <1>1, <1>2, <2>1 DEF OutOfOrder
    <3>6. ASSUME NEW i \in 1..Len(heap), NEW j \in 1..Len(heap),
                 i < j, i # pos + 1
          PROVE  heap'[i].cost <= heap'[j].cost
      <4>1. CASE i = pos /\ j = pos + 1
        BY <1>2, <3>4, <3>5, <4>1
      <4>2. CASE i = pos /\ j # pos + 1
        <5>1. pos + 1 < j
          BY <1>1, <3>6, <4>2
        <5>2. heap[pos + 1].cost <= heap[j].cost
          BY <1>1, <1>3, <5>1
        <5> QED BY <1>1, <3>4, <3>6, <4>2, <5>2
      <4>3. CASE i # pos
        <5>1. heap'[i].cost = heap[i].cost
          BY <3>4, <3>6, <4>3
        <5>2. CASE j = pos + 1
          <6>1. heap[i].cost <= heap[pos].cost
            BY <1>1, <1>3, <3>6, <4>3, <5>2
          <6> QED BY <3>4, <5>1, <5>2, <6>1
        <5>3. CASE j = pos
          <6>1. heap[i].cost <= heap[pos + 1].cost
            BY <1>1, <1>3, <3>6, <4>3, <5>3
          <6> QED BY <1>1, <3>4, <5>1, <5>3, <6>1
        <5>4. CASE j # pos /\ j # pos + 1
          BY <1>3, <3>4, <3>6, <4>3, <5>1, <5>4
        <5> QED BY <5>2, <5>3, <5>4
      <4> QED BY <4>1, <4>2, <4>3
    <3> QED BY <3>3, <3>6
  <2>2. CASE ~OutOfOrder(heap[pos], heap[pos + 1])
    <3>1. heap' = heap
      BY <2>2 DEF Swap
    <3>2. heap[pos].cost <= heap[pos + 1].cost
      BY <1>1, <1>2, <2>2 DEF OutOfOrder
    <3>3. ASSUME NEW i \in 1..Len(heap), NEW j \in 1..Len(heap), i < j
          PROVE  i # pos + 1 => heap[i].cost <= heap[j].cost
      <4>1. CASE i # pos
        BY <1>3, <3>3, <4>1
      <4>2. CASE i = pos /\ j = pos + 1
        BY <3>2, <4>2
      <4>3. CASE i = pos /\ j # pos + 1
        <5>1. pos + 1 < j
          BY <1>1, <3>3, <4>3
        <5>2. heap[pos + 1].cost <= heap[j].cost
          BY <1>1, <1>3, <5>1
        <5> QED BY <1>1, <1>2, <3>2, <4>3, <5>2
      <4> QED BY <4>1, <4>2, <4>3
    <3> QED BY <1>1, <3>1, <3>3
  <2> QED BY <2>1, <2>2
<1>5. DOMAIN heap' = 1..Len(heap)
  BY <1>4, LenProperties
<1>6. TypeOK'
  BY <1>1, <1>4 DEF TypeOK, Swap
<1>7. Carrying'
  BY <1>1, <1>4, <1>5 DEF Swap, Carrying
<1> QED BY <1>1, <1>6, <1>7 DEF IInv, Swap, HeapInOrder, Searching

LEMMA InstallOK ==
  ASSUME IInv, Install
  PROVE  IInv'
<1>1. /\ TypeOK /\ rt \in Seq(Route) /\ Len(rt) \in Nat \ {0}
      /\ dest \in 1..Len(topology)
  BY Lists DEF IInv, TypeOK, Install, Searching
<1>2. rt' \in Seq(Route) /\ rt' # <<>>
  <2>1. CASE top = NoItem
    BY <1>1, <2>1 DEF Install, TypeOK
  <2>2. CASE top # NoItem
    <3>1. top \in Item
      BY <1>1, <2>2 DEF TypeOK
    <3>2. topology[dest] \in Entry
      BY <1>1, Lists
    <3>3. Found \in Route
      BY <3>1, <3>2 DEF Found, Route, Item, Entry
    <3>4. rt' = Append(rt, Found)
      BY <2>2 DEF Install
    <3> HIDE DEF Found
    <3>5. rt' \in Seq(Route) /\ Len(rt') = Len(rt) + 1
      BY <1>1, <3>3, <3>4, AppendProperties
    <3> QED BY <1>1, <3>5, EmptySeq
  <2> QED BY <2>1, <2>2
<1>3. TypeOK'
  BY <1>1, <1>2 DEF TypeOK, Install
<1> QED BY <1>3 DEF IInv, Install, HeapInOrder, Carrying, Searching

-----------------------------------------------------------------------------
(* The theorems.                                                           *)

LEMMA NextOK == IInv /\ [Next]_vars => IInv'
<1> SUFFICES ASSUME IInv, [Next]_vars PROVE IInv'
  OBVIOUS
<1>1. CASE Change
  BY <1>1, LearnOK, RemoveOK, MeetOK DEF Change, Learn
<1>2. CASE Step
  BY <1>2, ClearOK, DestOK, RootOK, PopOK, ExpandOK, SwapOK, InstallOK DEF Step
<1>3. CASE UNCHANGED vars
  <2>1. TypeOK'
    BY <1>3 DEF vars, search, IInv, TypeOK
  <2> QED BY <1>3, <2>1 DEF vars, search, IInv, HeapInOrder, Carrying,
                            Searching
<1> QED BY <1>1, <1>2, <1>3 DEF Next

\* The inductive invariant holds in every reachable state.
THEOREM Invariance == Spec => []IInv
BY InitOK, NextOK, PTL DEF Spec

\* Type correctness of the topology, the routing table and the search.
THEOREM TypeCorrect == Spec => []TypeOK
<1>1. IInv => TypeOK
  BY DEF IInv
<1> QED BY <1>1, Invariance, PTL

\* The heap is in order whenever it is popped, for any topology: one pass of
\* dijkstra_stack_reorder after each push is enough.
THEOREM HeapIsInOrder == Spec => []HeapInOrder
<1>1. IInv => HeapInOrder
  BY DEF IInv
<1> QED BY <1>1, Invariance, PTL

-----------------------------------------------------------------------------
(* Shortest paths.                                                         *)

\* The topology is what LSAs told, a neighbor is the peer of its interface, and
\* the routing table begins with the networks of the interfaces.
Told ==
  /\ topology \in Seq(Adverts)
  /\ \A i \in Ifs : known[i] \in {NoRouter, Peer[i]}
  /\ \A k \in 1..Len(IfList) : k <= Len(rt) /\ rt[k] = Direct(IfList[k])

\* A search begins with an empty heap and nothing on top of the stack, and
\* clear_routes leaves no dynamic route behind the one it looks at.
Fresh ==
  /\ at \in {"idle", "outdated"} => ptr = 1
  /\ at \in {"idle", "outdated", "clear"} => dest = 1 /\ heap = <<>>
  /\ at = "clear" =>
       \A k \in 1..Len(rt) : k <= ptr => ~rt[k].dynamic

\* An item is a root, or some path of its cost leads to its network.
IsRoot(x) ==
  x.cost = 1 /\ x.net = x.via /\ Usable(x.via) /\ x.nbr = known[x.via]
Leads(x) ==
  /\ x.cost >= 2
  /\ \E k \in 1..Len(topology) :
       /\ topology[k].net = x.net /\ topology[k].nbr = x.nbr
       /\ topology[k].rid \in Near(x.via)[x.cost - 1]
Sound(x) == x \in Item /\ (IsRoot(x) \/ Leads(x))

Heaped == {heap[k] : k \in 1..Len(heap)}
Looking == at \in {"roots", "pop", "expand", "reorder", "install"}

\* So are all items, and the network looked for has no route yet.
ItemsOK ==
  /\ \A x \in Heaped : Sound(x)
  /\ at \in {"expand", "reorder"} => Sound(top)
  /\ Looking => ~HasRoute(topology[dest].net)

\* The routes of the search are shortest, and there is one to every network
\* looked for so far that can be reached.
Nearest(i, d) ==
  Reachable(d) => \A j \in Ifs : FarThrough(i, d) <= FarThrough(j, d)
Fits(r) ==
  /\ \E k \in 1..Len(topology) : topology[k].net = r.net
  /\ Nearest(r.via, r.net)
RoutesOK ==
  at \notin {"outdated", "clear"} =>
    /\ \A k \in 1..Len(rt) : rt[k].dynamic => Fits(rt[k])
    /\ \A k \in 1..Len(topology) :
         at = "idle" \/ k < dest =>
           (Reachable(topology[k].net) => HasRoute(topology[k].net))

\* X are the items the search for a network has popped: none is on it, and what
\* they lead to is among them or in the heap.
Later(k) == k > ptr \/ (k = ptr /\ at = "expand")
Popped(X) ==
  /\ X \in SUBSET Item
  /\ \A x \in X : Sound(x) /\ x.net # topology[dest].net
  /\ \A i \in Ifs : Usable(i) => Root(i) \in X \union Heaped
  /\ \A x \in X : \A k \in 1..Len(topology) :
       Extends(topology[k], x) =>
         \/ Child(topology[k], x) \in X \union Heaped
         \/ at \in {"expand", "reorder"} /\ x = top /\ Later(k)
PathsOK ==
  /\ at = "roots" =>
       \A k \in 1..Len(IfList) :
         k < ptr /\ Usable(IfList[k]) => Root(IfList[k]) \in Heaped
  /\ at \in {"pop", "expand", "reorder"} => \E X : Popped(X)
  /\ at = "install" =>
       /\ top = NoItem => ~Reachable(topology[dest].net)
       /\ Nearest(top.via, topology[dest].net)

PInv == Told /\ Fresh /\ ItemsOK /\ RoutesOK /\ PathsOK

-----------------------------------------------------------------------------
(* What is near, and how far a network is.                                 *)

LEMMA Least == \A T \in SUBSET Nat : T # {} => \E x \in T : \A y \in T : x <= y
<1> SUFFICES ASSUME NEW T \in SUBSET Nat, T # {}
             PROVE  \E x \in T : \A y \in T : x <= y
  OBVIOUS
<1> DEFINE R == OpToRel(<, Nat)
<1>1. \A i, j \in Nat : i < j => <<i, j>> \in R
  BY DEF OpToRel
<1>2. IsWellFoundedOn(R, Nat)
  BY NatLessThanWellFounded
<1> HIDE DEF R
<1>3. PICK x \in T : \A y \in T : ~(<<y, x>> \in R)
  BY <1>2, WFMin
<1>4. ASSUME NEW y \in T PROVE x <= y
  <2>1. x \in Nat /\ y \in Nat
    OBVIOUS
  <2>2. ~(y < x)
    BY <1>1, <1>3, <2>1
  <2> QED BY <2>1, <2>2
<1> QED BY <1>4

First(i) == IF Usable(i) THEN {known[i]} ELSE {}
Wider(s) ==
  s \union {topology[k].nbr : k \in {j \in DOMAIN topology :
                                       topology[j].rid \in s}}

\* f tells which routers are near for up to m links.
IsNear(i, m, f) ==
  f = [n \in 1..m |-> IF n = 1 THEN First(i) ELSE Wider(f[n - 1])]

LEMMA NearExists ==
  ASSUME NEW i
  PROVE  \E f : IsNear(i, MaxCost, f)
<1> DEFINE Bad == {m \in Nat \ {0} : ~\E f : IsNear(i, m, f)}
<1>1. ASSUME Bad # {} PROVE FALSE
  <2>1. PICK m \in Bad : \A n \in Bad : m <= n
    <3>1. Bad \in SUBSET Nat
      OBVIOUS
    <3> QED BY <1>1, <3>1, Least
  <2>2. CASE m = 1
    <3>1. IsNear(i, 1, [n \in 1..1 |-> First(i)])
      BY DEF IsNear
    <3> QED BY <2>1, <2>2, <3>1
  <2>3. CASE m # 1
    <3>1. m - 1 \in Nat \ {0} /\ m - 1 \notin Bad
      BY <2>1, <2>3
    <3>2. PICK f : IsNear(i, m - 1, f)
      BY <3>1
    <3> DEFINE g == [n \in 1..m |-> IF n = m THEN Wider(f[m - 1]) ELSE f[n]]
    <3>3. \A n \in 1..(m - 1) :
            f[n] = IF n = 1 THEN First(i) ELSE Wider(f[n - 1])
      BY <3>2 DEF IsNear
    <3>4. \A n \in 1..m :
            g[n] = IF n = 1 THEN First(i) ELSE Wider(g[n - 1])
      <4> SUFFICES ASSUME NEW n \in 1..m
                   PROVE  g[n] = IF n = 1 THEN First(i) ELSE Wider(g[n - 1])
        OBVIOUS
      <4>1. CASE n = m
        <5>1. n # 1 /\ n - 1 \in 1..m /\ n - 1 # m
          BY <2>1, <2>3, <4>1
        <5>2. g[n - 1] = f[m - 1] /\ g[n] = Wider(f[m - 1])
          BY <4>1, <5>1
        <5> HIDE DEF g
        <5> QED BY <5>1, <5>2
      <4>2. CASE n # m
        <5>1. n \in 1..(m - 1) /\ (n # 1 => n - 1 \in 1..m /\ n - 1 # m)
          BY <2>1, <4>2
        <5>2. g[n] = f[n] /\ (n # 1 => g[n - 1] = f[n - 1])
          BY <4>2, <5>1
        <5> HIDE DEF g
        <5> QED BY <3>3, <5>1, <5>2
      <4> QED BY <4>1, <4>2
    <3>5. g = [n \in 1..m |-> g[n]]
      OBVIOUS
    <3> HIDE DEF g
    <3>6. IsNear(i, m, g)
      BY <3>4, <3>5 DEF IsNear
    <3> QED BY <2>1, <3>6
  <2> QED BY <2>2, <2>3
<1> QED BY <1>1, BoundsAssumption

LEMMA NearIs ==
  ASSUME NEW i
  PROVE  /\ Near(i)[1] = First(i)
         /\ \A n \in 2..MaxCost : Near(i)[n] = Wider(Near(i)[n - 1])
<1> DEFINE f == CHOOSE g : IsNear(i, MaxCost, g)
<1>1. IsNear(i, MaxCost, f)
  BY NearExists
<1>2. Near(i) = f
  BY DEF Near, IsNear, First, Wider
<1> HIDE DEF f
<1> QED BY <1>1, <1>2, BoundsAssumption DEF IsNear

\* A router of the network d is n links away.
Behind(i, n, d) ==
  \E k \in DOMAIN topology :
    topology[k].net = d /\ topology[k].rid \in Near(i)[n]

LEMMA FarIs ==
  ASSUME NEW i, NEW d
  PROVE  /\ FarThrough(i, d) \in 2..MaxCost \/ FarThrough(i, d) = MaxCost
         /\ \A n \in 1..(MaxCost - 1) : Behind(i, n, d) => FarThrough(i, d) <= n + 1
         /\ \A c \in 1..MaxCost :
              (\A n \in 1..(MaxCost - 1) : n < c - 1 => ~Behind(i, n, d))
                => c <= FarThrough(i, d)
<1> DEFINE hops == {n \in 1..(MaxCost - 1) : Behind(i, n, d)}
           least == CHOOSE n \in hops : \A m \in hops : n <= m
<1>1. FarThrough(i, d) = IF hops = {} THEN MaxCost ELSE 1 + least
  BY DEF FarThrough, Behind
<1>2. MaxCost \in Nat \ {0}
  BY BoundsAssumption
<1>3. hops # {} => least \in hops /\ \A m \in hops : least <= m
  <2>1. hops \in SUBSET Nat
    BY <1>2
  <2> HIDE DEF hops
  <2> QED BY <2>1, Least
<1>4. \A n \in hops : n \in 1..(MaxCost - 1) /\ Behind(i, n, d)
  OBVIOUS
<1>5. \A n \in 1..(MaxCost - 1) : Behind(i, n, d) => n \in hops
  OBVIOUS
<1> HIDE DEF hops, least
<1>6. CASE hops = {}
  <2>1. \A c \in 1..MaxCost : c <= MaxCost
    BY <1>2
  <2> QED BY <1>1, <1>5, <1>6, <2>1
<1>7. CASE hops # {}
  <2>1. least \in 1..(MaxCost - 1) /\ Behind(i, least, d)
    BY <1>3, <1>4, <1>7
  <2>2. FarThrough(i, d) = 1 + least
    BY <1>1, <1>7
  <2>3. \A n \in 1..(MaxCost - 1) : Behind(i, n, d) => least <= n
    BY <1>3, <1>5, <1>7
  <2>4. \A c \in 1..MaxCost :
          (\A n \in 1..(MaxCost - 1) : n < c - 1 => ~Behind(i, n, d)) => ~(least < c - 1)
    BY <2>1
  <2> QED BY <1>2, <2>1, <2>2, <2>3, <2>4
<1> QED BY <1>6, <1>7

\* The search changes nothing that paths depend on.
LEMMA PathsStay ==
  ASSUME UNCHANGED <<topology, known>>
  PROVE  /\ \A i : Usable(i)' = Usable(i) /\ Near(i)' = Near(i) /\ Root(i)' = Root(i)
         /\ \A i, d : FarThrough(i, d)' = FarThrough(i, d)
         /\ \A d : Reachable(d)' = Reachable(d)
         /\ \A i, d : Nearest(i, d)' = Nearest(i, d)
         /\ \A x : Sound(x)' = Sound(x)
         /\ \A r : Fits(r)' = Fits(r)
<1>1. ASSUME NEW i PROVE Usable(i)' = Usable(i)
  BY DEF Usable
<1>2. ASSUME NEW i PROVE Near(i)' = Near(i)
  BY DEF Near, Usable
<1>3. ASSUME NEW i PROVE Root(i)' = Root(i)
  BY DEF Root
<1>4. ASSUME NEW i, NEW d PROVE FarThrough(i, d)' = FarThrough(i, d)
  BY DEF FarThrough, Near, Usable
<1>5. ASSUME NEW d PROVE Reachable(d)' = Reachable(d)
  BY <1>4 DEF Reachable
<1>6. ASSUME NEW i, NEW d PROVE Nearest(i, d)' = Nearest(i, d)
  BY <1>4, <1>5 DEF Nearest
<1>7. ASSUME NEW x PROVE Sound(x)' = Sound(x)
  BY <1>1, <1>2 DEF Sound, IsRoot, Leads
<1>8. ASSUME NEW r PROVE Fits(r)' = Fits(r)
  BY <1>6 DEF Fits
<1> QED BY <1>1, <1>2, <1>3, <1>4, <1>5, <1>6, <1>7, <1>8

-----------------------------------------------------------------------------
(* The items in the heap and those a search has popped.                    *)

LEMMA HeapPushed ==
  ASSUME TypeOK, NEW e \in Item, heap' = <<e>> \o heap
  PROVE  Heaped' = {e} \union Heaped
<1>1. heap \in Seq(Item) /\ Len(heap) \in Nat
  BY Lists DEF TypeOK
<1>2. /\ Len(heap') = Len(heap) + 1 /\ heap'[1] = e
      /\ \A k \in 2..(Len(heap) + 1) : heap'[k] = heap[k - 1]
  BY <1>1, Pushed
<1>3. ASSUME NEW k \in 1..Len(heap) PROVE k + 1 \in 1..Len(heap') /\ heap'[k + 1] = heap[k]
  <2>1. k + 1 \in 2..(Len(heap) + 1) /\ (k + 1) - 1 = k
    BY <1>1
  <2> QED BY <1>1, <1>2, <2>1
<1>4. ASSUME NEW k \in 1..Len(heap'), k # 1
      PROVE  k - 1 \in 1..Len(heap) /\ heap'[k] = heap[k - 1]
  BY <1>1, <1>2, <1>4
<1>5. 1 \in 1..Len(heap')
  BY <1>1, <1>2
<1> QED BY <1>2, <1>3, <1>4, <1>5 DEF Heaped

LEMMA HeapPopped ==
  ASSUME IInv, at = "pop", heap # <<>>
  PROVE  /\ Head(heap) \in Heaped /\ Head(heap) \in Item
         /\ \A x \in Heaped : Head(heap).cost <= x.cost
         /\ heap' = Tail(heap) => Heaped = {Head(heap)} \union Heaped'
<1>1. /\ heap \in Seq(Item) /\ Len(heap) \in Nat \ {0} /\ DOMAIN heap = 1..Len(heap)
      /\ \A k \in 1..Len(heap) : heap[k] \in Item /\ heap[k].cost \in Nat
  BY Lists, EmptySeq DEF IInv, TypeOK
<1>2. /\ Head(heap) = heap[1] /\ Len(Tail(heap)) = Len(heap) - 1
      /\ \A k \in 1..Len(Tail(heap)) : Tail(heap)[k] = heap[k + 1]
  BY <1>1, HeadTailProperties
<1>3. \A k \in 1..Len(heap) : heap[1].cost <= heap[k].cost
  <2>1. \A k \in 1..Len(heap) : k = 1 \/ 1 < k
    BY <1>1
  <2>2. 1 \in 1..Len(heap)
    BY <1>1
  <2> QED BY <1>1, <2>1, <2>2 DEF IInv, HeapInOrder
<1>4. ASSUME heap' = Tail(heap) PROVE Heaped = {heap[1]} \union Heaped'
  <2>1. ASSUME NEW k \in 1..Len(heap), k # 1
        PROVE  k - 1 \in 1..Len(heap') /\ heap'[k - 1] = heap[k]
    <3>1. k - 1 \in 1..Len(heap') /\ (k - 1) + 1 = k
      BY <1>1, <1>2, <1>4, <2>1
    <3> QED BY <1>2, <1>4, <3>1
  <2>2. ASSUME NEW k \in 1..Len(heap')
        PROVE  k + 1 \in 1..Len(heap) /\ heap'[k] = heap[k + 1]
    BY <1>1, <1>2, <1>4
  <2>3. 1 \in 1..Len(heap)
    BY <1>1
  <2>4. ASSUME NEW x \in Heaped PROVE x = heap[1] \/ x \in Heaped'
    BY <2>1 DEF Heaped
  <2>5. ASSUME NEW x \in Heaped' PROVE x \in Heaped
    BY <2>2 DEF Heaped
  <2>6. heap[1] \in Heaped
    BY <2>3 DEF Heaped
  <2> QED BY <2>4, <2>5, <2>6
<1>5. 1 \in 1..Len(heap)
  BY <1>1
<1> QED BY <1>1, <1>2, <1>3, <1>4, <1>5 DEF Heaped

LEMMA HeapSwapped ==
  ASSUME IInv, Swap
  PROVE  Heaped' = Heaped
<1>1. /\ heap \in Seq(Item) /\ Len(heap) \in Nat
      /\ pos \in 1..Len(heap) /\ pos + 1 \in 1..Len(heap) /\ pos # pos + 1
      /\ \A k \in 1..Len(heap) : heap[k] \in Item
  BY Lists DEF IInv, TypeOK, Swap
<1>2. CASE OutOfOrder(heap[pos], heap[pos + 1])
  <2> DEFINE mid == [heap EXCEPT ![pos] = heap[pos + 1]]
  <2>1. /\ mid \in Seq(Item) /\ Len(mid) = Len(heap)
        /\ \A k \in 1..Len(heap) :
             mid[k] = IF k = pos THEN heap[pos + 1] ELSE heap[k]
    BY <1>1, ExceptSeq
  <2>2. heap' = [mid EXCEPT ![pos + 1] = heap[pos]]
    BY <1>2 DEF Swap
  <2> HIDE DEF mid
  <2>3. /\ Len(heap') = Len(heap)
        /\ \A k \in 1..Len(heap) :
             heap'[k] = IF k = pos + 1 THEN heap[pos] ELSE mid[k]
    BY <1>1, <2>1, <2>2, ExceptSeq
  <2>4. /\ heap'[pos] = heap[pos + 1] /\ heap'[pos + 1] = heap[pos]
        /\ \A k \in 1..Len(heap) : k # pos /\ k # pos + 1 => heap'[k] = heap[k]
    BY <1>1, <2>1, <2>3
  <2> QED BY <1>1, <2>3, <2>4 DEF Heaped
<1>3. CASE ~OutOfOrder(heap[pos], heap[pos + 1])
  BY <1>3 DEF Swap, Heaped
<1> QED BY <1>2, <1>3

\* The router behind an item is as far as the item costs.
LEMMA ItemIsNear ==
  ASSUME TypeOK, NEW x, Sound(x)
  PROVE  x.nbr \in Near(x.via)[x.cost]
<1>1. x.cost \in 1..MaxCost /\ x.cost - 1 \in Int /\ MaxCost \in Nat
  BY BoundsAssumption DEF Sound, Item
<1>2. CASE IsRoot(x)
  BY <1>2, NearIs DEF IsRoot, First
<1>3. CASE Leads(x)
  <2>1. x.cost \in 2..MaxCost
    BY <1>1, <1>3 DEF Leads
  <2>2. Near(x.via)[x.cost] = Wider(Near(x.via)[x.cost - 1])
    BY <2>1, NearIs
  <2>3. PICK k \in 1..Len(topology) :
          /\ topology[k].nbr = x.nbr
          /\ topology[k].rid \in Near(x.via)[x.cost - 1]
    BY <1>3 DEF Leads
  <2>4. k \in DOMAIN topology
    BY Lists
  <2> QED BY <2>2, <2>3, <2>4 DEF Wider
<1> QED BY <1>2, <1>3 DEF Sound

\* A search has popped an item for every router that is fewer links away than
\* what is in the heap costs.
LEMMA NearArePopped ==
  ASSUME IInv, PInv, at = "pop", NEW X, Popped(X), NEW N \in 0..MaxCost,
         \A x \in Heaped : x.cost > N
  PROVE  \A n \in 1..N : \A i \in Ifs : \A r \in Near(i)[n] \cap Routers :
           \E x \in X : x.nbr = r /\ x.cost <= n
<1> DEFINE Bad == {n \in 1..N :
                     ~\A i \in Ifs : \A r \in Near(i)[n] \cap Routers :
                        \E x \in X : x.nbr = r /\ x.cost <= n}
<1>1. MaxCost \in Nat \ {0} /\ N \in Nat /\ \A x \in Item : x.cost \in 1..MaxCost
  BY BoundsAssumption DEF Item
<1>2. \A x \in X : x \in Item /\ Sound(x)
  BY DEF Popped
<1>3. ASSUME Bad # {} PROVE FALSE
  <2>1. PICK n \in Bad : \A m \in Bad : n <= m
    <3>1. Bad \in SUBSET Nat
      BY <1>1
    <3> QED BY <1>3, <3>1, Least
  <2>2. n \in 1..N /\ n \in 1..MaxCost
    BY <1>1, <2>1
  <2>3. PICK i \in Ifs : ~\A r \in Near(i)[n] \cap Routers :
                             \E x \in X : x.nbr = r /\ x.cost <= n
    BY <2>1
  <2>4. PICK r \in Near(i)[n] \cap Routers :
          ~\E x \in X : x.nbr = r /\ x.cost <= n
    BY <2>3
  <2>5. ASSUME NEW m \in 1..(n - 1), NEW j \in Ifs, NEW q \in Near(j)[m] \cap Routers
        PROVE  \E x \in X : x.nbr = q /\ x.cost <= m
    <3>1. m \in 1..N /\ m \notin Bad
      BY <1>1, <2>1, <2>2, <2>5
    <3> QED BY <2>5, <3>1
  <2>6. CASE n = 1
    <3>1. Usable(i) /\ r = known[i]
      BY <2>4, <2>6, NearIs DEF First
    <3>2. Root(i) \in X \union Heaped
      BY <3>1 DEF Popped
    <3>3. Root(i).cost = 1 /\ Root(i).nbr = r
      BY <3>1 DEF Root
    <3>4. Root(i) \in X
      BY <1>1, <2>2, <2>6, <3>2, <3>3
    <3> QED BY <2>4, <2>6, <3>3, <3>4
  <2>7. CASE n # 1
    <3>1. n \in 2..MaxCost /\ n - 1 \in 1..(n - 1)
      BY <1>1, <2>2, <2>7
    <3>2. Near(i)[n] = Wider(Near(i)[n - 1])
      BY <3>1, NearIs
    <3>3. CASE r \in Near(i)[n - 1]
      <4>1. PICK x \in X : x.nbr = r /\ x.cost <= n - 1
        BY <2>4, <2>5, <3>1, <3>3
      <4>2. x.cost <= n
        BY <1>1, <1>2, <2>2, <4>1
      <4> QED BY <2>4, <4>1, <4>2
    <3>4. ASSUME NEW k \in DOMAIN topology,
                 topology[k].rid \in Near(i)[n - 1], topology[k].nbr = r
          PROVE  FALSE
      <4> DEFINE e == topology[k]
      <4>1. k \in 1..Len(topology) /\ e \in Adverts /\ e \in Entry
        BY Lists, ElementOfSeq DEF IInv, PInv, Told
      <4>2. e.rid \in Routers /\ e.nbr # e.rid
        BY <4>1, LinksAssumption DEF Entry
      <4>3. PICK x \in X : x.nbr = e.rid /\ x.cost <= n - 1
        BY <2>5, <3>1, <3>4, <4>2
      <4>4. x \in Item /\ Sound(x) /\ x.cost \in 1..MaxCost
        BY <1>1, <1>2
      <4>5. CASE e.net # x.net
        <5>1. Extends(e, x)
          BY <4>2, <4>3, <4>5 DEF Extends
        <5>2. Child(e, x) \in X \union Heaped
          BY <4>1, <5>1 DEF Popped
        <5>3. Child(e, x).nbr = r /\ Child(e, x).cost = x.cost + 1
          BY <3>4 DEF Child, Further
        <5>4. x.cost + 1 <= n /\ ~(x.cost + 1 > N)
          BY <1>1, <2>2, <4>3, <4>4
        <5>5. Child(e, x) \in X
          BY <5>2, <5>3, <5>4
        <5> QED BY <2>4, <5>3, <5>4, <5>5
      <4>6. CASE e.net = x.net /\ IsRoot(x)
        <5>1. x.via \in Ifs /\ x.net = x.via /\ x.nbr = known[x.via]
          BY <4>4, <4>6 DEF IsRoot, Item
        <5>2. known[x.via] = Peer[x.via]
          BY <4>2, <4>3, <5>1, RoutersAssumption DEF PInv, Told
        <5>3. e.nbr \in {Self, NoRouter}
          BY <4>1, <4>3, <4>6, <5>1, <5>2, LinksAssumption
        <5> QED BY <2>4, <3>4, <5>3, RoutersAssumption
      <4>7. CASE e.net = x.net /\ Leads(x)
        <5>1. PICK j \in 1..Len(topology) :
                /\ topology[j].net = x.net /\ topology[j].nbr = x.nbr
                /\ topology[j].rid \in Near(x.via)[x.cost - 1]
          BY <4>7 DEF Leads
        <5>2. topology[j] \in Adverts
          BY ElementOfSeq DEF PInv, Told
        <5>3. e.nbr \in {topology[j].rid, NoRouter}
          BY <4>1, <4>3, <4>7, <5>1, <5>2, LinksAssumption
        <5>4. r = topology[j].rid /\ x.via \in Ifs
          BY <2>4, <3>4, <4>4, <5>3, RoutersAssumption DEF Item
        <5>5. x.cost - 1 \in 1..(n - 1)
          BY <2>2, <4>3, <4>4, <4>7 DEF Leads
        <5>6. PICK y \in X : y.nbr = r /\ y.cost <= x.cost - 1
          BY <2>4, <2>5, <5>1, <5>4, <5>5
        <5>7. y.cost <= n
          BY <1>1, <1>2, <2>2, <5>5, <5>6
        <5> QED BY <2>4, <5>6, <5>7
      <4> QED BY <4>4, <4>5, <4>6, <4>7 DEF Sound
    <3> QED BY <2>4, <3>2, <3>3, <3>4 DEF Wider
  <2> QED BY <2>6, <2>7
<1> QED BY <1>3

\* So the network looked for is at least as far as what is in the heap.
LEMMA DestIsFar ==
  ASSUME IInv, PInv, at = "pop", NEW X, Popped(X), NEW N \in 0..MaxCost,
         \A x \in Heaped : x.cost > N, NEW i \in Ifs, NEW n \in 1..(N - 1)
  PROVE  ~Behind(i, n, topology[dest].net)
<1> SUFFICES ASSUME NEW k \in DOMAIN topology,
                    topology[k].net = topology[dest].net,
                    topology[k].rid \in Near(i)[n]
             PROVE  FALSE
  BY DEF Behind
<1> DEFINE e == topology[k]
<1>1. k \in 1..Len(topology) /\ e \in Adverts /\ e \in Entry
  BY Lists, ElementOfSeq DEF IInv, PInv, Told
<1>2. e.rid \in Routers /\ e.nbr # e.rid
  BY <1>1, LinksAssumption DEF Entry
<1>3. n \in 1..N /\ n + 1 <= N /\ n \in Nat /\ N \in Nat
  BY BoundsAssumption
<1>4. PICK x \in X : x.nbr = e.rid /\ x.cost <= n
  BY <1>2, <1>3, NearArePopped
<1>5. x \in Item /\ x.net # topology[dest].net
  BY DEF Popped
<1>6. Extends(e, x)
  BY <1>2, <1>4, <1>5 DEF Extends
<1>7. Child(e, x) \in X \union Heaped
  BY <1>1, <1>6 DEF Popped
<1>8. Child(e, x).net = topology[dest].net /\ Child(e, x).cost = x.cost + 1
  BY DEF Child, Further
<1>9. Child(e, x) \in Heaped
  BY <1>7, <1>8 DEF Popped
<1>10. x.cost + 1 > N
  BY <1>8, <1>9
<1>11. x.cost \in Nat
  BY <1>5, BoundsAssumption DEF Item
<1> QED BY <1>3, <1>4, <1>10, <1>11

-----------------------------------------------------------------------------
(* The steps preserve it.                                                  *)

LEMMA TableBegins ==
  ASSUME IInv, PInv
  PROVE  /\ rt \in Seq(Route) /\ Len(rt) \in Nat /\ DOMAIN rt = 1..Len(rt)
         /\ Len(IfList) \in Nat \ {0} /\ Len(IfList) <= Len(rt)
         /\ \A k \in 1..Len(IfList) :
              k \in 1..Len(rt) /\ ~rt[k].dynamic /\ rt[k].net = IfList[k]
         /\ \A i \in Ifs : HasRoute(i)
<1>1. rt \in Seq(Route) /\ Len(rt) \in Nat /\ DOMAIN rt = 1..Len(rt)
  BY Lists DEF IInv, TypeOK
<1>2. Len(IfList) \in Nat \ {0} /\ DOMAIN IfList = 1..Len(IfList)
  BY Interfaces
<1>3. \A k \in 1..Len(IfList) : k <= Len(rt) /\ rt[k] = Direct(IfList[k])
  BY DEF PInv, Told
<1>4. \A k \in 1..Len(IfList) :
        k \in 1..Len(rt) /\ ~rt[k].dynamic /\ rt[k].net = IfList[k]
  <2> SUFFICES ASSUME NEW k \in 1..Len(IfList)
               PROVE  k \in 1..Len(rt) /\ ~rt[k].dynamic /\ rt[k].net = IfList[k]
    OBVIOUS
  <2>1. ~Direct(IfList[k]).dynamic /\ Direct(IfList[k]).net = IfList[k]
    BY Zenon DEF Direct
  <2>2. k \in 1..Len(rt)
    BY <1>1, <1>2, <1>3
  <2> QED BY <1>3, <2>1, <2>2, Zenon
<1>5. Len(IfList) <= Len(rt)
  BY <1>2, <1>3
<1>6. \A i \in Ifs : HasRoute(i)
  BY <1>1, <1>2, <1>4 DEF Ifs, HasRoute
<1> QED BY <1>1, <1>2, <1>4, <1>5, <1>6

LEMMA InitPaths == Init => PInv
<1> SUFFICES ASSUME Init PROVE PInv
  OBVIOUS
<1>1. IInv
  BY InitOK
<1>2. Len(topology) = 0 /\ Len(heap) = 0
  BY EmptySeq DEF Init
<1>3. Len(rt) = Len(IfList) /\ \A k \in 1..Len(IfList) : rt[k] = Direct(IfList[k])
  <2>1. rt \in [1..Len(IfList) -> Route] /\ Len(IfList) \in Nat
    <3>1. \A k \in 1..Len(IfList) : Direct(IfList[k]) \in Route
      BY Interfaces DEF Direct, Route
    <3> QED BY <3>1, Interfaces DEF Init
  <2>2. DOMAIN rt = 1..Len(rt) /\ Len(rt) \in Nat
    BY <1>1, Lists DEF IInv
  <2> QED BY <2>1, <2>2, Interfaces DEF Init
<1>4. topology \in Seq(Adverts)
  BY DEF Init
<1>5. Told
  BY <1>3, <1>4, Interfaces DEF Init, Told
<1>6. Fresh
  BY DEF Init, Fresh
<1>7. ItemsOK
  BY <1>2 DEF Init, ItemsOK, Heaped, Looking
<1>8. RoutesOK
  <2>1. \A i : ~Direct(i).dynamic
    BY Zenon DEF Direct
  <2>2. \A k \in 1..Len(rt) : ~rt[k].dynamic
    BY <1>3, <2>1, Zenon
  <2> QED BY <1>2, <2>2 DEF RoutesOK
<1>9. PathsOK
  BY DEF Init, PathsOK
<1> QED BY <1>5, <1>6, <1>7, <1>8, <1>9 DEF PInv

\* A new search starts from scratch.
LEMMA SearchPaths ==
  ASSUME IInv, PInv, Waiting, Search, topology' \in Seq(Adverts)
  PROVE  PInv'
<1>1. /\ UNCHANGED <<known, rt, dest, heap, top, ptr, pos>>
      /\ at' \in {"outdated", "clear"} /\ ptr = 1 /\ dest = 1 /\ heap = <<>>
  BY DEF Search, search, Waiting, PInv, Fresh
<1>2. Told'
  BY <1>1 DEF PInv, Told
<1>3. Fresh'
  <2>1. ~rt[1].dynamic
    BY TableBegins
  <2>2. \A k \in 1..Len(rt) : k <= 1 => k = 1
    BY TableBegins
  <2> QED BY <1>1, <2>1, <2>2 DEF Fresh
<1>4. Heaped' = {}
  BY <1>1, EmptySeq DEF Heaped
<1> QED BY <1>1, <1>2, <1>3, <1>4 DEF PInv, ItemsOK, RoutesOK, PathsOK, Looking

LEMMA LearnPaths ==
  ASSUME IInv, PInv, NEW e \in Adverts,
         Insert(e) \/ \E k \in DOMAIN topology : Renew(e, k)
  PROVE  PInv'
<1>1. topology \in Seq(Adverts) /\ e \in Entry
  BY RoutersAssumption DEF PInv, Told
<1>2. CASE Insert(e)
  BY <1>1, <1>2, Pushed, SearchPaths DEF Insert
<1>3. ASSUME NEW k \in DOMAIN topology, Renew(e, k)
      PROVE  PInv'
  <2>1. k \in 1..Len(topology) /\ topology[k] \in Entry
    BY <1>3, Lists DEF IInv
  <2>2. [topology[k] EXCEPT !.nbr = e.nbr] = e
    BY <1>1, <1>3, <2>1 DEF Renew, Entry
  <2>3. topology' = [topology EXCEPT ![k] = e]
    BY <1>3, <2>2 DEF Renew
  <2>4. topology' \in Seq(Adverts)
    BY <1>1, <2>1, <2>3, ExceptSeq
  <2> QED BY <1>3, <2>4, SearchPaths DEF Renew
<1> QED BY <1>2, <1>3

LEMMA RemovePaths ==
  ASSUME IInv, PInv, Ignore \/ \E k \in DOMAIN topology : Remove(k)
  PROVE  PInv'
<1>1. topology \in Seq(Adverts)
  BY DEF PInv, Told
<1>2. CASE Ignore
  BY <1>1, <1>2, SearchPaths DEF Ignore
<1>3. ASSUME NEW k \in DOMAIN topology, Remove(k)
      PROVE  PInv'
  <2>1. k \in 1..Len(topology)
    BY <1>3, Lists DEF IInv
  <2> QED BY <1>1, <1>3, <2>1, Removed, SearchPaths DEF Remove
<1> QED BY <1>2, <1>3

LEMMA MeetPaths ==
  ASSUME IInv, PInv, NEW i \in Ifs, Meet(i)
  PROVE  PInv'
<1>1. /\ UNCHANGED <<topology, rt, dest, heap, top, ptr, pos>>
      /\ at' = "outdated" /\ ptr = 1 /\ dest = 1 /\ heap = <<>>
  BY DEF Meet, search, Waiting, PInv, Fresh
<1>2. \A j \in Ifs : known'[j] \in {NoRouter, Peer[j]}
  BY DEF Meet, PInv, Told, IInv, TypeOK
<1>3. Told'
  BY <1>1, <1>2 DEF PInv, Told
<1>4. Heaped' = {}
  BY <1>1, EmptySeq DEF Heaped
<1> QED
  BY <1>1, <1>3, <1>4 DEF PInv, Fresh, ItemsOK, RoutesOK, PathsOK, Looking

LEMMA ClearPaths ==
  ASSUME IInv, PInv, DropRoute \/ KeepRoute \/ Cleared
  PROVE  PInv'
<1>1. /\ UNCHANGED <<topology, known, dest, heap, top, pos>>
      /\ at = "clear" /\ at' \in {"clear", "dest"}
      /\ dest = 1 /\ heap = <<>>
  BY DEF DropRoute, KeepRoute, Cleared, search, PInv, Fresh
<1>2. Heaped' = {}
  BY <1>1, EmptySeq DEF Heaped
<1>3. ItemsOK' /\ PathsOK'
  BY <1>1, <1>2 DEF ItemsOK, PathsOK, Looking
<1>4. \A k \in 1..Len(rt) : k <= ptr => ~rt[k].dynamic
  BY <1>1 DEF PInv, Fresh
<1>5. ptr \in Nat \ {0} /\ Len(rt) \in Nat
  BY TableBegins DEF IInv, TypeOK
<1>6. CASE DropRoute
  <2>1. /\ rt \in Seq(Route) /\ ptr + 1 \in 1..Len(rt) /\ rt[ptr + 1].dynamic
        /\ rt' = Without(rt, ptr + 1) /\ ptr' = ptr /\ at' = "clear"
    BY <1>1, <1>5, <1>6, TableBegins DEF DropRoute, search, Dynamic
  <2>2. /\ Len(rt') = Len(rt) - 1
        /\ \A k \in 1..(Len(rt) - 1) :
             rt'[k] = IF k < ptr + 1 THEN rt[k] ELSE rt[k + 1]
    BY <2>1, Removed
  <2>3. ~(ptr + 1 <= Len(IfList))
    BY <1>5, <2>1, TableBegins
  <2>4. \A k \in 1..Len(IfList) : k < ptr + 1 /\ k \in 1..(Len(rt) - 1)
    BY <1>5, <2>1, <2>3, TableBegins
  <2>5. \A k \in 1..Len(IfList) : k <= Len(rt') /\ rt'[k] = rt[k]
    BY <1>5, <2>2, <2>4
  <2>6. Told'
    BY <1>1, <2>5 DEF PInv, Told
  <2>7. ASSUME NEW k \in 1..Len(rt'), k <= ptr PROVE ~rt'[k].dynamic
    <3>1. k < ptr + 1 /\ k \in 1..(Len(rt) - 1) /\ k \in 1..Len(rt)
      BY <1>5, <2>2, <2>7
    <3> QED BY <1>4, <2>2, <2>7, <3>1
  <2>8. Fresh'
    BY <1>1, <2>1, <2>7 DEF Fresh
  <2> QED BY <1>3, <2>1, <2>6, <2>8 DEF PInv, RoutesOK
<1>7. CASE KeepRoute
  <2>1. rt' = rt /\ ptr' = ptr + 1 /\ at' = "clear" /\ ~rt[ptr + 1].dynamic
    BY <1>7 DEF KeepRoute, Dynamic
  <2>2. \A k \in 1..Len(rt) : k <= ptr + 1 => k <= ptr \/ k = ptr + 1
    BY <1>5
  <2>3. Told' /\ Fresh'
    BY <1>1, <1>4, <2>1, <2>2 DEF PInv, Told, Fresh
  <2> QED BY <1>3, <2>1, <2>3 DEF PInv, RoutesOK
<1>8. CASE Cleared
  <2>1. rt' = rt /\ at' = "dest" /\ ptr >= Len(rt)
    BY <1>8 DEF Cleared, search
  <2>2. \A k \in 1..Len(rt) : ~rt[k].dynamic
    BY <1>4, <1>5, <2>1
  <2>3. \A k \in 1..Len(topology) : ~(k < dest)
    BY <1>1
  <2>4. RoutesOK'
    BY <1>1, <2>1, <2>2, <2>3 DEF RoutesOK
  <2>5. Told' /\ Fresh'
    BY <1>1, <2>1 DEF PInv, Told, Fresh
  <2> QED BY <1>3, <2>4, <2>5 DEF PInv
<1> QED BY <1>6, <1>7, <1>8

\* What is left to show of a step that stays in the search for one network.
LEMMA SameSearch ==
  ASSUME IInv, PInv, UNCHANGED <<topology, known, rt, dest>>, Looking, Looking',
         \A x \in Heaped' : Sound(x),
         at' \in {"expand", "reorder"} => \E x : top' = x /\ Sound(x),
         PathsOK'
  PROVE  PInv'
<1>1. Told'
  BY DEF PInv, Told
<1>2. Fresh'
  BY DEF Fresh, Looking
<1>3. (\A x : Sound(x)' = Sound(x)) /\ (\A r : Fits(r)' = Fits(r))
      /\ (\A d : Reachable(d)' = Reachable(d))
  BY PathsStay
<1>4. ItemsOK'
  <2>1. ~HasRoute(topology[dest].net)'
    BY DEF PInv, ItemsOK, HasRoute
  <2>2. \A x \in Heaped' : Sound(x)'
    BY <1>3
  <2>3. at' \in {"expand", "reorder"} => Sound(top)'
    <3> SUFFICES ASSUME NEW x, top' = x, Sound(x) PROVE Sound(top)'
      OBVIOUS
    <3>1. Sound(x)'
      BY <1>3
    <3> QED BY <3>1 DEF Sound, IsRoot, Leads
  <2> QED BY <2>1, <2>2, <2>3 DEF ItemsOK
<1>5. RoutesOK'
  <2>1. \A k \in 1..Len(rt) : rt[k].dynamic => Fits(rt[k])'
    BY <1>3 DEF PInv, RoutesOK, Looking
  <2>2. \A k \in 1..Len(topology) :
          k < dest => (Reachable(topology[k].net)' => HasRoute(topology[k].net))
    BY <1>3 DEF PInv, RoutesOK, Looking
  <2>3. \A n : HasRoute(n)' = HasRoute(n)
    BY DEF HasRoute
  <2> QED BY <2>1, <2>2, <2>3 DEF RoutesOK, Looking
<1> QED BY <1>1, <1>2, <1>4, <1>5 DEF PInv

LEMMA DestPaths ==
  ASSUME IInv, PInv, NextDest
  PROVE  PInv'
<1>1. /\ UNCHANGED <<topology, known, rt, heap, top, pos>> /\ at = "dest"
      /\ dest \in 1..Len(topology) /\ dest \in Nat
  BY DEF NextDest, IInv, TypeOK
<1>2. Told' /\ Heaped' = Heaped
  BY <1>1 DEF PInv, Told, Heaped
<1>3. (\A x : Sound(x)' = Sound(x)) /\ (\A r : Fits(r)' = Fits(r))
      /\ (\A d : Reachable(d)' = Reachable(d)) /\ (\A n : HasRoute(n)' = HasRoute(n))
  BY <1>1, PathsStay DEF HasRoute
<1>4. \A x \in Heaped' : Sound(x)'
  BY <1>2, <1>3 DEF PInv, ItemsOK
<1>5. /\ \A k \in 1..Len(rt) : rt[k].dynamic => Fits(rt[k])'
      /\ \A k \in 1..Len(topology) :
           k < dest => (Reachable(topology[k].net)' => HasRoute(topology[k].net))
  BY <1>1, <1>3 DEF PInv, RoutesOK
<1>6. CASE HasRoute(topology[dest].net)
  <2>1. dest' = dest + 1 /\ at' = "dest"
    BY <1>1, <1>6 DEF NextDest
  <2>2. \A k \in 1..Len(topology) : k < dest' => k < dest \/ k = dest
    BY <1>1, <2>1
  <2>4. RoutesOK'
    BY <1>1, <1>3, <1>5, <1>6, <2>1, <2>2 DEF RoutesOK
  <2>5. Fresh' /\ ItemsOK' /\ PathsOK'
    BY <1>4, <2>1 DEF Fresh, ItemsOK, PathsOK, Looking
  <2> QED BY <1>2, <2>4, <2>5 DEF PInv
<1>7. CASE ~HasRoute(topology[dest].net)
  <2>1. dest' = dest /\ at' = "roots" /\ ptr' = 1
    BY <1>1, <1>7 DEF NextDest
  <2>2. RoutesOK'
    BY <1>1, <1>3, <1>5, <2>1 DEF RoutesOK
  <2>3. ItemsOK'
    BY <1>1, <1>4, <1>7, <2>1 DEF ItemsOK, HasRoute
  <2>4. \A k \in 1..Len(IfList) : ~(k < 1)
    OBVIOUS
  <2>5. Fresh' /\ PathsOK'
    BY <2>1, <2>4 DEF Fresh, PathsOK
  <2> QED BY <1>2, <2>2, <2>3, <2>5 DEF PInv
<1> QED BY <1>6, <1>7

LEMMA RootPaths ==
  ASSUME IInv, PInv, PushRoot
  PROVE  PInv'
<1>1. /\ TypeOK /\ at = "roots" /\ at' = "roots" /\ ptr \in 1..Len(IfList)
      /\ UNCHANGED <<topology, known, rt, dest>> /\ ptr' = ptr + 1
  BY Interfaces DEF IInv, PushRoot, TypeOK
<1>2. IfList[ptr] \in Ifs /\ IfList[ptr] \in Nets
  BY <1>1, Interfaces
<1>3. \A k \in 1..Len(IfList) :
        k < ptr /\ Usable(IfList[k]) => Root(IfList[k]) \in Heaped
  BY <1>1 DEF PInv, PathsOK
<1>4. /\ Heaped \subseteq Heaped' /\ \A x \in Heaped' : Sound(x)
      /\ Usable(IfList[ptr]) => Root(IfList[ptr]) \in Heaped'
  <2>1. CASE Usable(IfList[ptr])
    <3> DEFINE e == Root(IfList[ptr])
    <3>1. known[IfList[ptr]] \in Routers
      BY <1>1, <1>2, <2>1 DEF TypeOK, Usable
    <3>2. e \in Item
      BY <1>2, <3>1, BoundsAssumption DEF Root, Item
    <3>3. IsRoot(e)
      BY <2>1 DEF IsRoot, Root
    <3>4. heap' = <<e>> \o heap
      BY <2>1 DEF PushRoot
    <3> HIDE DEF e
    <3>5. Heaped' = {e} \union Heaped
      BY <1>1, <3>2, <3>4, HeapPushed
    <3>6. Sound(e)
      BY <3>2, <3>3 DEF Sound
    <3> QED BY <3>5, <3>6 DEF PInv, ItemsOK, e
  <2>2. CASE ~Usable(IfList[ptr])
    <3>1. Heaped' = Heaped
      BY <2>2 DEF PushRoot, Heaped
    <3> QED BY <2>2, <3>1 DEF PInv, ItemsOK
  <2> QED BY <2>1, <2>2
<1>5. PathsOK'
  <2>1. ASSUME NEW k \in 1..Len(IfList), k < ptr', Usable(IfList[k])'
        PROVE  Root(IfList[k])' \in Heaped'
    <3>1. k < ptr \/ k = ptr
      BY <1>1, <2>1
    <3>2. Usable(IfList[k]) /\ Root(IfList[k])' = Root(IfList[k])
      BY <1>1, <2>1, PathsStay
    <3> QED BY <1>3, <1>4, <3>1, <3>2
  <2> QED BY <1>1, <2>1 DEF PathsOK
<1> QED BY <1>1, <1>4, <1>5, SameSearch DEF Looking

LEMMA RootsPushedPaths ==
  ASSUME IInv, PInv, RootsPushed
  PROVE  PInv'
<1>1. /\ UNCHANGED <<topology, known, rt, dest, heap>>
      /\ at = "roots" /\ at' = "pop" /\ ptr > Len(IfList)
  BY DEF RootsPushed
<1>2. ptr \in Nat
  BY DEF IInv, TypeOK
<1>3. ASSUME NEW i \in Ifs, Usable(i)' PROVE Root(i)' \in {} \union Heaped'
  <2>1. PICK k \in 1..Len(IfList) : i = IfList[k]
    BY Interfaces DEF Ifs
  <2>2. k < ptr
    BY <1>1, <1>2, Interfaces
  <2>3. Root(IfList[k]) \in Heaped
    BY <1>1, <1>3, <2>1, <2>2, PathsStay DEF PInv, PathsOK
  <2> QED BY <1>1, <2>1, <2>3, PathsStay DEF Heaped
<1>4. Popped({})'
  BY <1>3 DEF Popped
<1>5. PathsOK'
  BY <1>1, <1>4 DEF PathsOK
<1>6. \A x \in Heaped' : Sound(x)
  BY <1>1 DEF PInv, ItemsOK, Heaped
<1> QED BY <1>1, <1>5, <1>6, SameSearch DEF Looking

\* The search that finds nothing had nothing to find.
LEMMA PopNonePaths ==
  ASSUME IInv, PInv, PopNone
  PROVE  PInv'
<1>1. /\ UNCHANGED <<topology, known, rt, dest, heap, top>>
      /\ at = "pop" /\ at' = "install" /\ heap = <<>>
  BY DEF PopNone, search
<1>2. Heaped = {} /\ Heaped' = {}
  BY <1>1, EmptySeq DEF Heaped
<1>3. PICK X : Popped(X)
  BY <1>1 DEF PInv, PathsOK
<1>4. MaxCost \in 0..MaxCost /\ MaxCost \in 1..MaxCost
  BY BoundsAssumption
<1>5. \A i \in Ifs : FarThrough(i, topology[dest].net) = MaxCost
  <2> SUFFICES ASSUME NEW i \in Ifs
               PROVE  FarThrough(i, topology[dest].net) = MaxCost
    OBVIOUS
  <2>1. \A n \in 1..(MaxCost - 1) : ~Behind(i, n, topology[dest].net)
    BY <1>1, <1>2, <1>3, <1>4, DestIsFar
  <2>2. MaxCost <= FarThrough(i, topology[dest].net)
    BY <1>4, <2>1, FarIs
  <2> QED BY <2>2, FarIs, BoundsAssumption
<1>6. ~Reachable(topology[dest].net)
  <2>1. ~(MaxCost < MaxCost)
    BY BoundsAssumption
  <2> QED BY <1>5, <2>1 DEF Reachable
<1>7. \A d : d = topology[dest].net =>
        ~Reachable(d)' /\ \A i : Nearest(i, d)'
  BY <1>1, <1>6, PathsStay DEF Nearest
<1>8. PathsOK'
  BY <1>1, <1>7 DEF PathsOK
<1> QED BY <1>1, <1>2, <1>8, SameSearch DEF Looking

\* The first item on the network looked for begins at an interface that no
\* other is nearer than.
LEMMA PopDestPaths ==
  ASSUME IInv, PInv, PopDest
  PROVE  PInv'
<1> DEFINE p == Head(heap)
           d == topology[dest].net
<1>1. /\ UNCHANGED <<topology, known, rt, dest>>
      /\ at = "pop" /\ at' = "install" /\ heap # <<>> /\ p.net = d
      /\ top' = p /\ heap' = Tail(heap)
  BY DEF PopDest
<1>2. /\ p \in Heaped /\ p \in Item /\ (\A x \in Heaped : p.cost <= x.cost)
      /\ Heaped = {p} \union Heaped'
  BY <1>1, HeapPopped
<1>3. Sound(p) /\ ~HasRoute(d)
  BY <1>1, <1>2 DEF PInv, ItemsOK, Looking
<1>4. PICK X : Popped(X)
  BY <1>1 DEF PInv, PathsOK
<1>5. p.cost \in 1..MaxCost /\ p.via \in Ifs /\ MaxCost \in Nat
  BY <1>2, BoundsAssumption DEF Item
<1>6. Leads(p)
  <2>1. CASE IsRoot(p)
    BY <1>1, <1>3, <1>5, <2>1, TableBegins DEF IsRoot
  <2> QED BY <1>3, <2>1 DEF Sound
<1>7. p.cost - 1 \in 1..(MaxCost - 1) /\ (p.cost - 1) + 1 = p.cost
  BY <1>5, <1>6 DEF Leads
<1> HIDE DEF p
<1>8. FarThrough(p.via, d) <= p.cost
  <2>1. PICK k \in 1..Len(topology) :
          topology[k].net = d /\ topology[k].rid \in Near(p.via)[p.cost - 1]
    BY <1>1, <1>6 DEF Leads
  <2>2. k \in DOMAIN topology
    BY Lists DEF IInv
  <2>3. Behind(p.via, p.cost - 1, d)
    BY <2>1, <2>2 DEF Behind
  <2> HIDE DEF d
  <2> QED BY <1>7, <2>3, FarIs
<1>9. ASSUME NEW i \in Ifs PROVE p.cost <= FarThrough(i, d)
  <2>1. p.cost - 1 \in 0..MaxCost
    BY <1>5
  <2>2. \A x \in Heaped : x.cost > p.cost - 1
    <3>1. \A x \in Heaped : x.cost \in Nat
      BY <1>5, Lists DEF Heaped, IInv
    <3> QED BY <1>2, <1>5, <3>1
  <2>3. \A n \in 1..((p.cost - 1) - 1) : ~Behind(i, n, d)
    BY <1>1, <1>4, <2>1, <2>2, DestIsFar
  <2>4. \A n \in 1..(MaxCost - 1) : n < p.cost - 1 => n \in 1..((p.cost - 1) - 1)
    BY <1>5
  <2> HIDE DEF d
  <2> QED BY <1>5, <2>3, <2>4, FarIs
<1>10. Nearest(p.via, d)
  <2>1. \A i \in Ifs : FarThrough(i, d) \in Nat
    <3> HIDE DEF d
    <3>1. 2..MaxCost \subseteq Nat
      BY <1>5
    <3> QED BY <1>5, <3>1, FarIs
  <2> QED BY <1>5, <1>8, <1>9, <2>1 DEF Nearest
<1>11. p # NoItem
  <2>1. NoItem.cost = 0
    BY DEF NoItem
  <2> QED BY <1>5, <2>1
<1>12. PathsOK'
  <2>1. top' # NoItem
    BY <1>1, <1>11
  <2>2. \A i, n : i = p.via /\ n = d => Nearest(i, n)'
    BY <1>1, <1>10, PathsStay
  <2>3. Nearest(top.via, topology[dest].net)'
    BY <1>1, <2>2
  <2> QED BY <1>1, <2>1, <2>3 DEF PathsOK, NoItem
<1>13. \A x \in Heaped' : Sound(x)
  BY <1>2 DEF PInv, ItemsOK
<1> QED BY <1>1, <1>12, <1>13, SameSearch DEF Looking

\* What a step within the search does to what was popped.
LEMMA StillPopped ==
  ASSUME PInv, UNCHANGED <<topology, known, dest>>, NEW X, Popped(X), NEW Y,
         X \subseteq Y, Y \in SUBSET Item, Heaped \subseteq Y \union Heaped',
         \A y \in Y \ X : Sound(y) /\ y.net # topology[dest].net,
         \A x \in Y : \A k \in 1..Len(topology) :
           /\ Extends(topology[k], x)
           /\ x \in X => at \in {"expand", "reorder"} /\ x = top /\ Later(k)
           => \/ Child(topology[k], x) \in Y \union Heaped'
              \/ at' \in {"expand", "reorder"} /\ x = top' /\ Later(k)'
  PROVE  Popped(Y)'
<1>1. \A x \in Y : Sound(x)' /\ x.net # topology[dest].net
  BY PathsStay DEF Popped
<1>2. \A i \in Ifs : Usable(i)' => Root(i)' \in Y \union Heaped'
  <2>1. \A i \in Ifs : Usable(i) => Root(i) \in Y \union Heaped'
    BY DEF Popped
  <2> QED BY <2>1, PathsStay
<1>3. \A x \in Y : \A k \in 1..Len(topology) :
        Extends(topology[k], x) =>
          \/ Child(topology[k], x) \in Y \union Heaped'
          \/ at' \in {"expand", "reorder"} /\ x = top' /\ Later(k)'
  BY DEF Popped
<1> QED BY <1>1, <1>2, <1>3 DEF Popped

\* An item that is no end of the search is popped: a network with no router
\* behind it leads nowhere, and any other is on top of the stack next.
LEMMA PopPaths ==
  ASSUME IInv, PInv, PopLeaf \/ PopRouter
  PROVE  PInv'
<1>1. PICK p : p = Head(heap)
  OBVIOUS
<1>2. /\ UNCHANGED <<topology, known, rt, dest>>
      /\ at = "pop" /\ heap # <<>> /\ p.net # topology[dest].net
      /\ heap' = Tail(heap)
      /\ \/ at' = "pop" /\ p.nbr = NoRouter
         \/ at' = "expand" /\ top' = p /\ ptr' = 1
  BY <1>1 DEF PopLeaf, PopRouter
<1>3. p \in Heaped /\ p \in Item /\ Heaped = {p} \union Heaped'
  BY <1>2, <1>1, HeapPopped
<1>4. Sound(p) /\ \A x \in Heaped' : Sound(x)
  BY <1>3 DEF PInv, ItemsOK
<1>5. PICK X : Popped(X)
  BY <1>2 DEF PInv, PathsOK
<1>6. PICK Y : Y = X \union {p}
  OBVIOUS
<1>7. ASSUME NEW x \in Y, NEW k \in 1..Len(topology), Extends(topology[k], x),
             x \in X => at \in {"expand", "reorder"}
      PROVE  at' \in {"expand", "reorder"} /\ x = top' /\ Later(k)'
  <2>1. x = p
    BY <1>2, <1>7, <1>6
  <2>2. CASE at' = "pop" /\ p.nbr = NoRouter
    <3>1. topology[k].rid \in Routers
      BY Lists DEF IInv, Entry
    <3> QED BY <1>7, <2>1, <2>2, <3>1, RoutersAssumption DEF Extends
  <2>3. CASE at' = "expand" /\ top' = p /\ ptr' = 1
    <3>1. k > 1 \/ k = 1
      OBVIOUS
    <3> QED BY <2>1, <2>3, <3>1 DEF Later
  <2> QED BY <1>2, <2>2, <2>3
<1>8. X \subseteq Y /\ Y \in SUBSET Item /\ Heaped \subseteq Y \union Heaped'
  BY <1>3, <1>5, <1>6 DEF Popped
<1>9. \A y \in Y \ X : Sound(y) /\ y.net # topology[dest].net
  BY <1>2, <1>4, <1>6
<1>10. Popped(Y)'
  BY <1>2, <1>5, <1>7, <1>8, <1>9, StillPopped
<1>11. PathsOK'
  BY <1>2, <1>10 DEF PathsOK
<1>12. at' \in {"expand", "reorder"} => \E x : top' = x /\ Sound(x)
  BY <1>2, <1>4
<1> QED BY <1>2, <1>4, <1>11, <1>12, SameSearch DEF Looking

LEMMA ChildPaths ==
  ASSUME IInv, PInv, PushChild
  PROVE  PInv'
<1>1. /\ UNCHANGED <<topology, known, rt, dest, top, ptr>>
      /\ at = "expand" /\ at' = "reorder" /\ ptr \in 1..Len(topology)
      /\ Extends(topology[ptr], top) /\ top.cost < MaxCost
      /\ heap' = <<Child(topology[ptr], top)>> \o heap
  BY DEF PushChild, IInv, TypeOK
<1>2. topology[ptr] \in Entry /\ ptr \in DOMAIN topology /\ TypeOK
  BY <1>1, Lists DEF IInv
<1>3. Sound(top) /\ top \in Item
  BY <1>1 DEF PInv, ItemsOK, Sound
<1> DEFINE e == Child(topology[ptr], top)
<1>4. /\ e.net = topology[ptr].net /\ e.nbr = topology[ptr].nbr
      /\ e.cost = top.cost + 1 /\ e.via = top.via
  BY DEF Child, Further
<1>5. e.cost \in 2..MaxCost /\ e.cost - 1 = top.cost
  BY <1>1, <1>3, <1>4, BoundsAssumption DEF Item
<1>6. e \in Item
  BY <1>1, <1>2, <1>3, <1>5, BoundsAssumption DEF Child, Item, Entry, Further
<1>7. Leads(e)
  <2>1. topology[ptr].rid = top.nbr
    BY <1>1 DEF Extends
  <2>2. topology[ptr].rid \in Near(top.via)[top.cost]
    BY <1>2, <1>3, <2>1, ItemIsNear
  <2> HIDE DEF e
  <2> QED BY <1>1, <1>4, <1>5, <2>2 DEF Leads
<1>8. heap' = <<e>> \o heap
  BY <1>1
<1> HIDE DEF e
<1>9. Heaped' = {e} \union Heaped
  BY <1>2, <1>6, <1>8, HeapPushed
<1>10. Sound(e)
  BY <1>6, <1>7 DEF Sound
<1>11. PICK X : Popped(X)
  BY <1>1 DEF PInv, PathsOK
<1>12. ASSUME NEW k \in 1..Len(topology), Later(k)
       PROVE  Child(topology[k], top) \in Heaped' \/ Later(k)'
  <2>1. k > ptr \/ k = ptr
    BY <1>12 DEF Later
  <2> QED BY <1>1, <1>9, <2>1 DEF Later, e
<1>13. X \in SUBSET Item /\ Heaped \subseteq X \union Heaped'
  BY <1>9, <1>11 DEF Popped
<1>14. Popped(X)'
  BY <1>1, <1>11, <1>12, <1>13, StillPopped
<1>15. PathsOK'
  BY <1>1, <1>14 DEF PathsOK
<1>16. \A x \in Heaped' : Sound(x)
  BY <1>9, <1>10 DEF PInv, ItemsOK
<1> QED BY <1>1, <1>3, <1>15, <1>16, SameSearch DEF Looking

LEMMA ExpandPaths ==
  ASSUME IInv, PInv, PassOver \/ Expanded \/ Reordered \/ Swap
  PROVE  PInv'
<1>1. /\ UNCHANGED <<topology, known, rt, dest, top>>
      /\ at \in {"expand", "reorder"} /\ at' \in {"pop", "expand", "reorder"}
  BY DEF PassOver, Expanded, Reordered, Swap, search
<1>2. Heaped' = Heaped
  BY HeapSwapped DEF PassOver, Expanded, Reordered, search, Heaped
<1>3. PICK X : Popped(X)
  BY <1>1 DEF PInv, PathsOK
<1>4. ptr \in Nat /\ Len(topology) \in Nat
  BY Lists DEF IInv, TypeOK
<1>5. ASSUME NEW k \in 1..Len(topology), Extends(topology[k], top), Later(k)
      PROVE  at' \in {"expand", "reorder"} /\ Later(k)'
  <2>1. CASE PassOver
    <3>1. at = "expand" /\ at' = "expand" /\ ptr' = ptr + 1 /\ k # ptr
      BY <1>5, <2>1 DEF PassOver, Past
    <3>2. k > ptr + 1 \/ k = ptr + 1
      BY <1>4, <1>5, <3>1 DEF Later
    <3> QED BY <3>1, <3>2 DEF Later
  <2>2. CASE Expanded
    <3>1. ptr > Len(topology)
      BY <2>2 DEF Expanded
    <3> QED BY <1>4, <1>5, <3>1 DEF Later
  <2>3. CASE Reordered
    <3>1. at = "reorder" /\ at' = "expand" /\ ptr' = ptr + 1
      BY <2>3 DEF Reordered, Past
    <3>2. k > ptr + 1 \/ k = ptr + 1
      BY <1>4, <1>5, <3>1 DEF Later
    <3> QED BY <3>1, <3>2 DEF Later
  <2>4. CASE Swap
    BY <1>5, <2>4 DEF Swap, Later
  <2> QED BY <2>1, <2>2, <2>3, <2>4
<1>6. X \in SUBSET Item /\ Heaped \subseteq X \union Heaped'
  BY <1>2, <1>3 DEF Popped
<1>7. Popped(X)'
  BY <1>1, <1>3, <1>5, <1>6, StillPopped
<1>8. PathsOK'
  BY <1>1, <1>7 DEF PathsOK
<1>9. \A x \in Heaped' : Sound(x)
  BY <1>2 DEF PInv, ItemsOK
<1>10. Sound(top)
  BY <1>1 DEF PInv, ItemsOK
<1> QED BY <1>1, <1>8, <1>9, <1>10, SameSearch DEF Looking

LEMMA InstallPaths ==
  ASSUME IInv, PInv, Install
  PROVE  PInv'
<1> DEFINE d == topology[dest].net
<1>1. /\ UNCHANGED <<topology, known, heap>> /\ at = "install" /\ at' = "dest"
      /\ dest' = dest + 1 /\ dest \in 1..Len(topology) /\ dest \in Nat
  BY DEF Install, IInv, TypeOK, Searching
<1>2. /\ (top = NoItem => ~Reachable(d)) /\ Nearest(top.via, d)
  BY <1>1 DEF PInv, PathsOK
<1>3. rt \in Seq(Route) /\ Len(rt) \in Nat
  BY TableBegins
<1>4. /\ Len(rt') \in Nat /\ Len(rt) <= Len(rt')
      /\ \A k \in 1..Len(rt) : k \in 1..Len(rt') /\ rt'[k] = rt[k]
      /\ \A k \in 1..Len(rt') : k \in 1..Len(rt) \/ rt'[k] = Found
      /\ top # NoItem => \E k \in 1..Len(rt') : rt'[k] = Found
  <2>1. CASE top = NoItem
    BY <1>3, <2>1 DEF Install
  <2>2. CASE top # NoItem
    <3>1. top \in Item /\ topology[dest] \in Entry
      BY <1>1, <2>2, Lists DEF IInv, TypeOK
    <3>2. Found \in Route
      BY <3>1 DEF Found, Route, Item, Entry
    <3>3. rt' = Append(rt, Found)
      BY <2>2 DEF Install
    <3> HIDE DEF Found
    <3>4. /\ Len(rt') = Len(rt) + 1 /\ rt'[Len(rt) + 1] = Found
          /\ \A k \in 1..Len(rt) : rt'[k] = rt[k]
      BY <1>3, <3>2, <3>3, AppendProperties
    <3>5. \A k \in 1..Len(rt') : k \in 1..Len(rt) \/ k = Len(rt) + 1
      BY <1>3, <3>4
    <3>6. Len(rt) + 1 \in 1..Len(rt') /\ \A k \in 1..Len(rt) : k \in 1..Len(rt')
      BY <1>3, <3>4
    <3>7. Len(rt') \in Nat /\ Len(rt) <= Len(rt')
      BY <1>3, <3>4
    <3> QED BY <3>4, <3>5, <3>6, <3>7
  <2> QED BY <2>1, <2>2
<1>5. Told'
  <2>1. \A k \in 1..Len(IfList) : k <= Len(rt') /\ rt'[k] = rt[k]
    BY <1>3, <1>4, TableBegins
  <2> QED BY <1>1, <2>1 DEF PInv, Told
<1>6. Fresh'
  BY <1>1 DEF Fresh
<1>7. ItemsOK'
  BY <1>1, PathsStay DEF PInv, ItemsOK, Heaped, Looking
<1>8. \A n : HasRoute(n) => HasRoute(n)'
  <2>1. DOMAIN rt = 1..Len(rt) /\ DOMAIN rt' = 1..Len(rt')
    <3>1. TypeOK'
      BY InstallOK DEF IInv
    <3> QED BY <3>1, TableBegins, LenProperties DEF TypeOK
  <2> QED BY <1>4, <2>1 DEF HasRoute
<1>9. ~Reachable(d) \/ \E n : n = d /\ HasRoute(n)'
  <2>1. CASE top = NoItem
    BY <1>2, <2>1
  <2>2. CASE top # NoItem
    <3>1. PICK k \in 1..Len(rt') : rt'[k] = Found
      BY <1>4, <2>2
    <3>2. DOMAIN rt' = 1..Len(rt')
      <4>1. TypeOK'
        BY InstallOK DEF IInv
      <4> QED BY <4>1, LenProperties DEF TypeOK
    <3>3. rt'[k].net = d
      BY <3>1 DEF Found
    <3>4. \A n : n = d => HasRoute(n)'
      BY <3>1, <3>2, <3>3 DEF HasRoute
    <3> QED BY <3>4
  <2> QED BY <2>1, <2>2
<1>10. RoutesOK'
  <2>1. ASSUME NEW k \in 1..Len(rt'), rt'[k].dynamic
        PROVE  \E r : r = rt'[k] /\ Fits(r)'
    <3>1. CASE k \in 1..Len(rt)
      BY <1>1, <1>4, <2>1, <3>1, PathsStay DEF PInv, RoutesOK
    <3>2. CASE rt'[k] = Found
      <4>1. Found.net = d /\ Found.via = top.via
        BY DEF Found
      <4> HIDE DEF Found
      <4>2. Fits(Found)
        BY <1>1, <1>2, <4>1 DEF Fits
      <4>3. \A r : r = Found => Fits(r)'
        BY <1>1, <4>2, PathsStay
      <4> QED BY <3>2, <4>3
    <3> QED BY <1>4, <3>1, <3>2
  <2>2. ASSUME NEW k \in 1..Len(topology), k < dest', Reachable(topology[k].net)
        PROVE  \E n : n = topology[k].net /\ HasRoute(n)'
    <3>1. k < dest \/ k = dest
      BY <1>1, <2>2
    <3>2. CASE k < dest
      BY <1>1, <1>8, <2>2, <3>2 DEF PInv, RoutesOK
    <3> QED BY <1>9, <2>2, <3>1, <3>2
  <2>3. \A n : Reachable(n)' = Reachable(n)
    BY <1>1, PathsStay
  <2>4. \A k \in 1..Len(rt') : rt'[k].dynamic => Fits(rt[k])'
    BY <2>1
  <2>5. \A k \in 1..Len(topology) :
          k < dest' => (Reachable(topology[k].net)' => HasRoute(topology[k].net)')
    BY <1>1, <2>2, <2>3
  <2> QED BY <1>1, <2>4, <2>5 DEF RoutesOK
<1>11. PathsOK'
  BY <1>1 DEF PathsOK
<1> QED BY <1>5, <1>6, <1>7, <1>10, <1>11 DEF PInv

LEMMA FinishPaths ==
  ASSUME IInv, PInv, Finish
  PROVE  PInv'
<1>1. /\ UNCHANGED <<topology, known, rt>>
      /\ at = "dest" /\ at' = "idle" /\ dest > Len(topology)
      /\ dest' = 1 /\ heap' = <<>> /\ ptr' = 1
  BY DEF Finish
<1>2. Told' /\ Fresh' /\ PathsOK'
  BY <1>1 DEF PInv, Told, Fresh, PathsOK
<1>3. Heaped' = {}
  BY <1>1, EmptySeq DEF Heaped
<1>4. ItemsOK'
  BY <1>1, <1>3 DEF ItemsOK, Looking
<1>5. dest \in Nat /\ Len(topology) \in Nat
  BY Lists DEF IInv, TypeOK
<1>6. \A k \in 1..Len(topology) : k < dest
  BY <1>1, <1>5
<1>7. /\ \A k \in 1..Len(rt) : rt[k].dynamic => Fits(rt[k])'
      /\ \A k \in 1..Len(topology) :
           Reachable(topology[k].net)' => HasRoute(topology[k].net)
  BY <1>1, <1>6, PathsStay DEF PInv, RoutesOK
<1>8. \A n : HasRoute(n)' = HasRoute(n)
  BY <1>1 DEF HasRoute
<1>9. RoutesOK'
  BY <1>1, <1>7, <1>8 DEF RoutesOK
<1> QED BY <1>2, <1>4, <1>9 DEF PInv

LEMMA NextPaths ==
  ASSUME IInv, PInv, [Next]_vars
  PROVE  PInv'
<1>1. CASE Change
  BY <1>1, LearnPaths, RemovePaths, MeetPaths DEF Change, Learn
<1>2. CASE Step
  BY <1>2, ClearPaths, DestPaths, RootPaths, RootsPushedPaths, PopNonePaths,
     PopDestPaths, PopPaths, ChildPaths, ExpandPaths, InstallPaths, FinishPaths
     DEF Step
<1>3. CASE UNCHANGED vars
  <2>1. UNCHANGED <<topology, known, rt, at, dest, heap, top, ptr, pos>>
    BY <1>3 DEF vars, search
  <2>2. Told' /\ Fresh'
    BY <2>1 DEF PInv, Told, Fresh
  <2>3. ItemsOK'
    BY <2>1, PathsStay DEF PInv, ItemsOK, Heaped, Looking, HasRoute,
                           Sound, IsRoot, Leads
  <2>4. RoutesOK'
    <3>1. /\ \A k \in 1..Len(rt) : rt[k].dynamic => (Fits(rt[k]) => Fits(rt[k])')
          /\ \A n : HasRoute(n)' = HasRoute(n)
      BY <2>1, PathsStay DEF HasRoute
    <3> QED BY <2>1, <3>1, PathsStay DEF PInv, RoutesOK
  <2>5. \A X : Popped(X) => Popped(X)'
    <3> SUFFICES ASSUME NEW X, Popped(X) PROVE Popped(X)'
      OBVIOUS
    <3>1. X \in SUBSET Item /\ Heaped \subseteq X \union Heaped'
      BY <2>1 DEF Popped, Heaped
    <3>2. \A k : Later(k)' = Later(k)
      BY <2>1 DEF Later
    <3> QED BY <2>1, <3>1, <3>2, StillPopped
  <2>6. PathsOK'
    <3>1. /\ \A k \in 1..Len(IfList) :
                Usable(IfList[k])' = Usable(IfList[k]) /\ Root(IfList[k])' = Root(IfList[k])
          /\ Heaped' = Heaped /\ NoItem' = NoItem
          /\ \A d : Reachable(d)' = Reachable(d)
          /\ \A i, d : Nearest(i, d)' = Nearest(i, d)
      BY <2>1, PathsStay DEF Heaped, NoItem
    <3> QED BY <2>1, <2>5, <3>1 DEF PInv, PathsOK
  <2> QED BY <2>2, <2>3, <2>4, <2>6 DEF PInv
<1> QED BY <1>1, <1>2, <1>3 DEF Next

\* What the search has popped, and what every item in the heap stands for, are in
\* every reachable state what makes its routes shortest.
THEOREM PathInvariance == Spec => [](IInv /\ PInv)
<1>1. Init => IInv /\ PInv
  BY InitOK, InitPaths
<1>2. IInv /\ PInv /\ [Next]_vars => PInv'
  BY NextPaths
<1> QED BY <1>1, <1>2, Invariance, PTL DEF Spec

\* A dynamic route begins with an interface that no other is nearer than, whatever
\* the topology, and although run_dijkstra marks no router as visited and goes
\* on with the heap that the search of the network before has left.
THEOREM RoutesOfSearchAreShortest == Spec => []RoutesAreShortest
<1>1. IInv /\ PInv => RoutesAreShortest
  <2> SUFFICES ASSUME IInv, PInv, at = "idle", NEW k \in DOMAIN rt,
                      rt[k].dynamic, Reachable(rt[k].net)
               PROVE  \A i \in Ifs :
                        FarThrough(rt[k].via, rt[k].net) <= FarThrough(i, rt[k].net)
    BY DEF RoutesAreShortest
  <2>1. Fits(rt[k])
    BY TableBegins DEF PInv, RoutesOK
  <2> QED BY <2>1 DEF Fits, Nearest
<1> QED BY <1>1, PathInvariance, PTL

\* After a search there is a route to every network that can be reached, and none
\* to one that is not in the topology.
THEOREM RoutesAreOfTopology == Spec => []RoutesFollowTopology
<1>1. IInv /\ PInv => RoutesFollowTopology
  <2> SUFFICES ASSUME IInv, PInv, at = "idle"
               PROVE  /\ \A k \in DOMAIN topology :
                           Reachable(topology[k].net) => HasRoute(topology[k].net)
                      /\ \A j \in DOMAIN rt :
                           rt[j].dynamic =>
                             \E k \in DOMAIN topology : topology[k].net = rt[j].net
    BY DEF RoutesFollowTopology
  <2>1. DOMAIN rt = 1..Len(rt) /\ DOMAIN topology = 1..Len(topology)
    BY TableBegins, Lists DEF IInv
  <2>2. \A j \in 1..Len(rt) : rt[j].dynamic => Fits(rt[j])
    BY DEF PInv, RoutesOK
  <2>3. \A k \in 1..Len(topology) :
          Reachable(topology[k].net) => HasRoute(topology[k].net)
    BY DEF PInv, RoutesOK
  <2> QED BY <2>1, <2>2, <2>3 DEF Fits
<1> QED BY <1>1, PathInvariance, PTL
=============================================================================
