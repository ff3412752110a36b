----------------------- MODULE PwospfNeighborsProofs -----------------------
(***************************************************************************)
(* Invariants of PwospfNeighbors, for any routers, interfaces and timeout: *)
(* no interleaving of add_neighbor, delete_neighbor and the walks makes    *)
(* the list of neighbors circular, a round of LSUs has one number, and an  *)
(* LSU goes to the neighbor of the interface it leaves on.                 *)
(***************************************************************************)
EXTENDS PwospfNeighbors, TLAPS, SequenceTheorems

\* The node add_neighbor is about to link is the youngest, and nothing leads
\* to it or holds it yet.
Fresh ==
  main.at \in {"link", "head"} =>
    /\ main.ptr = Len(node) /\ main.ptr # First
    /\ node[main.ptr].alive # 0
    /\ \A p \in Pointers : node[p].next # main.ptr
    /\ life.ptr # main.ptr /\ life.nx # main.ptr /\ life.to # main.ptr

\* What check_neighbors_alive knows of the pointers it has loaded: a node of
\* age 0 is lowered neither when another one has taken the place of the node
\* compared, nor once it is loaded.
Walking == {"look", "alive", "take", "temp", "test", "load", "link", "free",
            "age", "lower", "store", "advance"}
LifeOK ==
  /\ life.at \in Walking => life.ptr \in Pointers
  /\ life.at \in {"alive", "test", "load", "link", "free", "lower", "store"}
       => life.nx \in Pointers
  /\ life.at \in {"alive", "take", "temp", "test", "load", "age"}
       => node[life.ptr].next # Null
  /\ life.at = "alive" => \/ node[life.ptr].next = life.nx
                          \/ node[node[life.ptr].next].alive # 0
  /\ life.at = "age" => node[node[life.ptr].next].alive # 0
  /\ life.at = "lower" => node[life.nx].alive # 0
  /\ life.at = "link" =>
       /\ life.to # First
       /\ life.ptr # First => life.to < life.ptr

MainOK == main.at \in {"walk", "refresh", "next"} => main.ptr \in Pointers

\* The lock is held by the thread that is at work under it.
LocksOK ==
  /\ life.at # "asleep" <=> lock = "life"
  /\ round.at # "asleep" <=> lock = "round"

IInv == TypeOK /\ ListDescends /\ Fresh /\ LifeOK /\ MainOK /\ LocksOK

-----------------------------------------------------------------------------
LEMMA Nodes ==
  ASSUME TypeOK
  PROVE  /\ Len(node) \in Nat /\ Pointers = 1..Len(node) /\ First \in Pointers
         /\ \A p \in Pointers :
              /\ node[p] \in Node /\ node[p].next \in Nat
              /\ node[p].alive \in 0..NeighborTimeout
              /\ node[p].id \in Routers \union {NoRouter}
<1>1. node \in Seq(Node) /\ node # <<>>
  BY DEF TypeOK
<1>2. Len(node) \in Nat /\ Pointers = 1..Len(node) /\ Len(node) # 0
  BY <1>1, LenProperties, EmptySeq DEF Pointers
<1>3. \A p \in Pointers : node[p] \in Node
  BY <1>1, <1>2, ElementOfSeq
<1> QED BY <1>2, <1>3 DEF Node, First

\* A node is added.
LEMMA Added ==
  ASSUME TypeOK, NEW n \in Routers \union {NoRouter},
         node' = Append(node, NewNode(n))
  PROVE  /\ node' \in Seq(Node) /\ node' # <<>> /\ Len(node') = Len(node) + 1
         /\ Pointers' = 1..Len(node) + 1
         /\ \A p \in Pointers : node'[p] = node[p]
         /\ node'[Len(node) + 1] = NewNode(n)
<1>1. NewNode(n) \in Node
  BY BoundAssumption DEF NewNode, Node
<1>2. node \in Seq(Node) /\ Len(node) \in Nat /\ Pointers = 1..Len(node)
  BY Nodes DEF TypeOK
<1>3. node' \in Seq(Node) /\ Len(node') = Len(node) + 1
  BY <1>1, <1>2, AppendProperties
<1>4. \A p \in 1..Len(node) : node'[p] = node[p]
  BY <1>1, <1>2, AppendProperties
<1>5. node'[Len(node) + 1] = NewNode(n)
  BY <1>1, <1>2, AppendProperties
<1>6. Pointers' = 1..Len(node) + 1
  BY <1>3, LenProperties DEF Pointers
<1> QED BY <1>2, <1>3, <1>4, <1>5, <1>6, EmptySeq

\* A node is updated in place.
LEMMA Updated ==
  ASSUME TypeOK, NEW p \in Pointers, NEW q \in Node,
         node' = [node EXCEPT ![p] = q]
  PROVE  /\ node' \in Seq(Node) /\ node' # <<>> /\ Len(node') = Len(node)
         /\ Pointers' = Pointers
         /\ \A k \in Pointers : node'[k] = IF k = p THEN q ELSE node[k]
<1>1. /\ node \in Seq(Node) /\ Pointers = 1..Len(node) /\ node # <<>>
      /\ Len(node) \in Nat
  BY Nodes DEF TypeOK
<1>2. /\ node' \in Seq(Node) /\ Len(node') = Len(node)
      /\ \A k \in 1..Len(node) : node'[k] = IF k = p THEN q ELSE node[k]
  BY <1>1, ExceptSeq
<1>3. Pointers' = Pointers
  BY <1>1, <1>2, LenProperties DEF Pointers
<1> QED BY <1>1, <1>2, <1>3, EmptySeq

\* Where the two calls may be.
MainAt == {"idle", "create", "link", "head", "round", "walk", "refresh", "next"}
LifeAt == Walking \union {"asleep", "clear", "zero"}

\* The variables other than the list and the two calls.
RestOK ==
  /\ known \in [Ifs -> Routers \union {NoRouter}]
  /\ addr \in [Ifs -> Routers \union {NoRouter}]
  /\ lock \in {"free", "life", "round"}
  /\ round \in [at : {"asleep", "sending", "dest", "lookup", "queue"},
                left : SUBSET Ifs, if : Ifs, to : Routers \union {NoRouter},
                changed : BOOLEAN]
  /\ seq \in 0..(SeqMod - 1)
  /\ lsu \subseteq [if : Ifs, to : Routers \union {NoRouter},
                    hop : Routers \union {NoRouter}]
  /\ fault \in BOOLEAN
MainType ==
  main \in [at : MainAt,
            id : Routers \union {NoRouter}, if : Ifs,
            ptr : {Null} \union Pointers, then : {"idle", "round"}]
LifeType ==
  life \in [at : LifeAt,
            ptr : {Null} \union Pointers, nx : {Null} \union Pointers,
            to : {Null} \union Pointers, val : 0..NeighborTimeout,
            removed : Seq(Routers \union {NoRouter}),
            left : SUBSET Ifs, if : Ifs]

LEMMA Types ==
  TypeOK <=> node \in Seq(Node) /\ node # <<>> /\ RestOK /\ MainType /\ LifeType
BY DEF TypeOK, RestOK, MainType, LifeType, MainAt, LifeAt, Walking

LEMMA TypesNext ==
  ASSUME node' \in Seq(Node), node' # <<>>, RestOK', MainType', LifeType'
  PROVE  TypeOK'
BY DEF TypeOK, RestOK, MainType, LifeType, MainAt, LifeAt, Walking

LEMMA ConstantsOK ==
  /\ AnyIf \in Ifs /\ NeighborTimeout \in Nat \ {0} /\ SeqMod \in Nat \ {0}
  /\ NoRouter \notin Routers
BY RouterAssumption, BoundAssumption DEF AnyIf

LEMMA InitOK == Init => IInv
<1> SUFFICES ASSUME Init PROVE IInv
  OBVIOUS
<1>1. /\ NewNode(NoRouter) \in Node /\ node = <<NewNode(NoRouter)>>
  BY ConstantsOK DEF Init, NewNode, Node
<1>2. /\ node \in Seq(Node) /\ node # <<>> /\ Len(node) = 1 /\ DOMAIN node = {1}
      /\ node[1] = NewNode(NoRouter)
  BY <1>1
<1>3. RestOK
  <2>1. seq \in 0..(SeqMod - 1)
    BY ConstantsOK DEF Init
  <2>2. lsu = {} /\ fault \in BOOLEAN
    BY DEF Init
  <2> QED BY <2>1, <2>2, ConstantsOK DEF Init, RestOK, NoRound
<1>4. MainType /\ LifeType
  BY ConstantsOK, <1>2 DEF Init, MainType, LifeType, MainAt, LifeAt, NoCall, Asleep, Null
<1>5. ListDescends
  BY <1>2 DEF ListDescends, Pointers, NewNode, First, Null
<1>6. Fresh /\ LifeOK /\ MainOK /\ LocksOK
  BY DEF Init, Fresh, LifeOK, Walking, MainOK, LocksOK, NoCall, Asleep, NoRound
<1> QED BY <1>2, <1>3, <1>4, <1>5, <1>6, Types DEF IInv

-----------------------------------------------------------------------------
(* Steps that leave the list alone.                                        *)

\* ... in the main thread.
LEMMA HelloOK ==
  ASSUME IInv, NEW i \in Ifs, NEW n \in Routers,
         HelloNew(i, n) \/ HelloKnown(i, n), Quiet
  PROVE  IInv'
<1>1. First \in Pointers
  BY Nodes DEF IInv
<1>2. /\ node' = node /\ life' = life /\ lock' = lock
      /\ main'.at \in {"create", "walk"}
      /\ main'.at = "walk" => main'.ptr = First
  BY DEF HelloNew, HelloKnown, NoCall
<1>3. /\ round' \in [at : {"asleep", "sending", "dest", "lookup", "queue"},
                     left : SUBSET Ifs, if : Ifs,
                     to : Routers \union {NoRouter}, changed : BOOLEAN]
      /\ round'.at = round.at
  <2>1. round \in [at : {"asleep", "sending", "dest", "lookup", "queue"},
                   left : SUBSET Ifs, if : Ifs,
                   to : Routers \union {NoRouter}, changed : BOOLEAN]
    BY Types DEF IInv, RestOK
  <2>2. PICK b \in BOOLEAN : round' = [round EXCEPT !.changed = b]
                             \/ round' = round
    BY <2>1 DEF HelloNew, HelloKnown
  <2> QED BY <2>1, <2>2
<1>4. MainType' /\ LifeType' /\ RestOK'
  <2>1. MainType'
    BY <1>1, ConstantsOK
       DEF HelloNew, HelloKnown, NoCall, MainType, MainAt, Pointers
  <2>2. LifeType'
    BY <1>2, Types DEF IInv, LifeType, Pointers
  <2>3. RestOK'
    BY <1>3, Types DEF IInv, RestOK, HelloNew, HelloKnown, Quiet
  <2> QED BY <2>1, <2>2, <2>3
<1>5. ListDescends' /\ Fresh' /\ LifeOK' /\ MainOK' /\ LocksOK'
  BY <1>1, <1>2, <1>3 DEF IInv, ListDescends, Fresh, LifeOK, MainOK, LocksOK, Pointers
<1>6. TypeOK'
  BY <1>2, <1>4, TypesNext, Types DEF IInv
<1> QED BY <1>5, <1>6 DEF IInv

LEMMA MainStepOK ==
  ASSUME IInv, LsuRound \/ ((Walk \/ WalkOn) /\ Quiet)
  PROVE  IInv'
<1>1. First \in Pointers
  BY Nodes DEF IInv
<1>2. /\ node' = node /\ life' = life /\ lock' = lock /\ round' = round
      /\ main'.at \in {"walk", "refresh", "next"} /\ main'.ptr \in Pointers
      /\ main' = [main EXCEPT !.at = main'.at, !.ptr = main'.ptr]
  <2>1. main \in [at : MainAt, id : Routers \union {NoRouter}, if : Ifs,
                  ptr : {Null} \union Pointers, then : {"idle", "round"}]
    BY Types DEF IInv, MainType
  <2>2. CASE LsuRound
    BY <1>1, <2>1, <2>2 DEF LsuRound
  <2>3. CASE WalkOn
    <3>1. node[main.ptr].next \in Pointers
      BY <2>3 DEF WalkOn, Main, Onward, IInv, MainOK, ListDescends
    <3> QED BY <2>1, <2>3, <3>1 DEF WalkOn, Main, Onward
  <2>4. CASE Walk
    BY <2>1, <2>4 DEF Walk, Main, IInv, MainOK
  <2> QED BY <2>2, <2>3, <2>4
<1>3. MainType' /\ LifeType' /\ RestOK'
  <2>1. MainType'
    BY <1>2, Types DEF IInv, MainType, MainAt, Pointers
  <2>2. LifeType'
    BY <1>2, Types DEF IInv, LifeType, Pointers
  <2>3. seq' \in 0..(SeqMod - 1)
    BY ConstantsOK, Types DEF IInv, RestOK, LsuRound, Walk, WalkOn
  <2>4. lsu' \subseteq [if : Ifs, to : Routers \union {NoRouter},
                        hop : Routers \union {NoRouter}]
    BY Types DEF IInv, RestOK, LsuRound, Lsu, Quiet
  <2> QED BY <2>1, <2>2, <2>3, <2>4, Types DEF IInv, RestOK, LsuRound, Walk, WalkOn
<1>4. ListDescends' /\ Fresh' /\ LifeOK' /\ MainOK' /\ LocksOK'
  BY <1>2 DEF IInv, ListDescends, Fresh, LifeOK, MainOK, LocksOK, Pointers
<1>5. TypeOK'
  BY <1>2, <1>3, TypesNext, Types DEF IInv
<1> QED BY <1>4, <1>5 DEF IInv

\* ... in check_neighbors_life: what it loads, nothing the main thread is
\* about to link.
Old == {Null, First, life.ptr, life.nx, life.to}
         \union {node[p].next : p \in Pointers}
LEMMA LifeKeeps ==
  ASSUME IInv, node' = node, main' = main, RestOK', LifeType', LifeOK',
         LocksOK', life'.ptr \in Old, life'.nx \in Old, life'.to \in Old
  PROVE  IInv'
<1>1. MainType'
  BY Types DEF IInv, MainType, Pointers
<1>2. TypeOK'
  BY <1>1, Types, TypesNext DEF IInv
<1>3. Fresh'
  <2> SUFFICES ASSUME main.at \in {"link", "head"}
               PROVE  main.ptr \notin Old
    BY DEF IInv, Fresh, Pointers
  <2>1. main.ptr # Null
    BY Nodes DEF IInv, Fresh, Null
  <2> QED BY <2>1 DEF IInv, Fresh, Old
<1>4. ListDescends' /\ MainOK'
  BY DEF IInv, ListDescends, MainOK, Pointers
<1> QED BY <1>2, <1>3, <1>4 DEF IInv

\* The node after the one it is at.
LEMMA NextNode ==
  ASSUME IInv, life.at \in Walking, NEW nx, nx = node[life.ptr].next
  PROVE  /\ nx \in (Pointers \union {Null}) \ {First}
         /\ nx # Null =>
              /\ nx \in Pointers
              /\ node[nx].id \in Routers \union {NoRouter}
              /\ node[nx].alive \in 0..NeighborTimeout
              /\ node[nx].next \in (Pointers \union {Null}) \ {First}
              /\ life.ptr # First => node[nx].next < life.ptr
<1>1. life.ptr \in Pointers
  BY DEF IInv, LifeOK
<1>2. nx \in (Pointers \union {Null}) \ {First}
  BY <1>1 DEF IInv, ListDescends
<1>3. ASSUME nx # Null
      PROVE  /\ nx \in Pointers
             /\ node[nx].id \in Routers \union {NoRouter}
             /\ node[nx].alive \in 0..NeighborTimeout
             /\ node[nx].next \in (Pointers \union {Null}) \ {First}
  BY <1>2, <1>3, Nodes DEF IInv, ListDescends
<1>4. ASSUME nx # Null, life.ptr # First
      PROVE  node[nx].next < life.ptr
  <2>1. nx < life.ptr
    BY <1>1, <1>4 DEF IInv, ListDescends
  <2>2. node[nx].next < nx \/ node[nx].next = Null
    BY <1>2, <1>4 DEF IInv, ListDescends
  <2>3. life.ptr \in Nat /\ nx \in Nat /\ node[nx].next \in Nat /\ 0 < life.ptr
    BY <1>1, <1>3, <1>4, Nodes DEF IInv, Null
  <2> QED BY <2>1, <2>2, <2>3 DEF Null
<1> QED BY <1>2, <1>3, <1>4

LEMMA LifeStepOK ==
  ASSUME IInv,
         \/ LifeWake \/ LookEnd \/ Look \/ LookAlive \/ Take \/ DeleteTemp
         \/ DeleteTest \/ DeleteLoad \/ AgePointer \/ AgeLoad \/ Advance
         \/ (\E i \in Ifs : ClearTest(i)) \/ ClearWrite \/ ClearNext
         \/ LifeSleep,
         Quiet
  PROVE  IInv'
<1> DEFINE nx == node[life.ptr].next
<1>1. node' = node /\ main' = main /\ round' = round
  BY DEF LifeWake, LookEnd, Look, LookAlive, Take, DeleteTemp, DeleteTest,
         DeleteLoad, AgePointer, AgeLoad, Advance, ClearTest, ClearWrite,
         ClearNext, LifeSleep
<1>2. life \in [at : LifeAt,
                ptr : {Null} \union Pointers, nx : {Null} \union Pointers,
                to : {Null} \union Pointers, val : 0..NeighborTimeout,
                removed : Seq(Routers \union {NoRouter}),
                left : SUBSET Ifs, if : Ifs]
  BY Types DEF IInv, LifeType
<1>3. First \in Pointers /\ Null \notin Pointers /\ Pointers' = Pointers
  BY <1>1, Nodes DEF IInv, Null, Pointers
<1>4. {Null, First, life.ptr, life.nx, life.to} \subseteq Old
  BY DEF Old
<1>5. ASSUME life.at \in Walking, nx # Null
      PROVE  nx \in Old /\ node[nx].next \in Old
  <2>1. life.ptr \in Pointers /\ nx \in Pointers
    BY <1>5, NextNode DEF IInv, LifeOK
  <2> QED BY <2>1 DEF Old
<1>6. CASE LifeWake
  <2>1. life' = [Asleep EXCEPT !.at = "look", !.ptr = First] /\ lock' = "life"
    BY <1>6 DEF LifeWake
  <2>2. LifeType'
    <3>1. <<>> \in Seq(Routers \union {NoRouter})
      OBVIOUS
    <3>2. 0 \in 0..NeighborTimeout /\ AnyIf \in Ifs
      BY ConstantsOK
    <3>3. life' = [at |-> "look", ptr |-> First, nx |-> Null, to |-> Null,
                   val |-> 0, removed |-> <<>>, left |-> {}, if |-> AnyIf]
      BY <2>1 DEF Asleep
    <3> QED BY <1>3, <3>1, <3>2, <3>3 DEF LifeType, LifeAt, Walking
  <2>3. LifeOK'
    BY <1>3, <2>1 DEF LifeOK, Asleep, Walking
  <2>4. LocksOK' /\ RestOK'
    BY <1>1, <1>6, <2>1, Types DEF LifeWake, Asleep, LocksOK, RestOK, IInv, Quiet
  <2>5. life'.ptr \in Old /\ life'.nx \in Old /\ life'.to \in Old
    BY <1>4, <2>1 DEF Asleep
  <2> QED BY <1>1, <2>2, <2>3, <2>4, <2>5, LifeKeeps
<1>7. CASE LookEnd \/ ClearWrite \/ ClearNext \/ \E i \in Ifs : ClearTest(i)
  <2>1. /\ life' \in [at : {"clear", "zero"},
                      ptr : {life.ptr}, nx : {life.nx}, to : {life.to},
                      val : 0..NeighborTimeout,
                      removed : Seq(Routers \union {NoRouter}),
                      left : SUBSET Ifs, if : Ifs]
        /\ life.at \in {"look", "clear", "zero"}
    <3>1. CASE LookEnd
      BY <1>2, <3>1 DEF LookEnd, Life
    <3>2. CASE ClearWrite
      BY <1>2, <3>2 DEF ClearWrite, Life
    <3>3. CASE ClearNext
      <4>1. Tail(life.removed) \in Seq(Routers \union {NoRouter})
        BY <1>2, <3>3, HeadTailProperties DEF ClearNext
      <4> QED BY <1>2, <3>3, <4>1 DEF ClearNext, Life
    <3>4. CASE \E i \in Ifs : ClearTest(i)
      <4>1. PICK i \in Ifs : ClearTest(i)
        BY <3>4
      <4>2. PICK at \in {"clear", "zero"} :
              life' = [life EXCEPT !.left = @ \ {i}, !.if = i, !.at = at]
        BY <4>1 DEF ClearTest
      <4>3. life.at = "clear"
        BY <4>1 DEF ClearTest, Life
      <4> QED BY <1>2, <4>2, <4>3
    <3> QED BY <1>7, <3>1, <3>2, <3>3, <3>4
  <2>2. LifeType'
    BY <1>2, <1>3, <2>1 DEF LifeType, LifeAt
  <2>3. LifeOK'
    BY <2>1 DEF LifeOK, Walking
  <2>4. lock' = lock /\ RestOK'
    BY <1>7, Types
       DEF LookEnd, ClearWrite, ClearNext, ClearTest, RestOK, IInv, Quiet
  <2>5. LocksOK'
    BY <1>1, <2>1, <2>4 DEF LocksOK, IInv
  <2>6. life'.ptr \in Old /\ life'.nx \in Old /\ life'.to \in Old
    BY <1>4, <2>1
  <2> QED BY <1>1, <2>2, <2>3, <2>4, <2>5, <2>6, LifeKeeps
<1>8. CASE LifeSleep
  <2>1. life' = Asleep /\ lock' = "free" /\ lock = "life"
    BY <1>8 DEF LifeSleep, Life, LocksOK, IInv
  <2>2. LifeType'
    BY <2>1, ConstantsOK DEF LifeType, LifeAt, Asleep
  <2>3. LifeOK'
    BY <2>1 DEF LifeOK, Asleep, Walking
  <2>4. LocksOK' /\ RestOK'
    BY <1>1, <1>8, <2>1, Types DEF LifeSleep, Asleep, LocksOK, RestOK, IInv, Quiet
  <2>5. life'.ptr \in Old /\ life'.nx \in Old /\ life'.to \in Old
    BY <1>4, <2>1 DEF Asleep
  <2> QED BY <1>1, <2>2, <2>3, <2>4, <2>5, LifeKeeps
<1>9. CASE \/ Look \/ LookAlive \/ Take \/ DeleteTemp \/ DeleteTest
           \/ DeleteLoad \/ AgePointer \/ AgeLoad \/ Advance
  <2>1. /\ life.at \in Walking \ {"link", "free", "store"}
        /\ lock' = lock /\ RestOK'
    BY <1>9, Types DEF Look, LookAlive, Take, DeleteTemp, DeleteTest, DeleteLoad,
                       AgePointer, AgeLoad, Advance, Life, Walking, RestOK,
                       IInv, Quiet
  <2>2. /\ nx \in (Pointers \union {Null}) \ {First}
        /\ nx # Null =>
             /\ nx \in Pointers
             /\ node[nx].id \in Routers \union {NoRouter}
             /\ node[nx].alive \in 0..NeighborTimeout
             /\ node[nx].next \in (Pointers \union {Null}) \ {First}
             /\ life.ptr # First => node[nx].next < life.ptr
    BY <2>1, NextNode
  <2>3. life.ptr \in Pointers
    BY <2>1 DEF LifeOK, IInv
  <2> HIDE DEF nx
  <2>4. ASSUME LifeType', LifeOK', life'.at # "asleep",
               life'.ptr \in Old, life'.nx \in Old, life'.to \in Old
        PROVE  IInv'
    <3>1. LocksOK'
      BY <1>1, <2>1, <2>4 DEF LocksOK, IInv, Walking
    <3> QED BY <1>1, <2>1, <2>4, <3>1, LifeKeeps
  <2>5. CASE Look
    <3>1. /\ nx # Null
          /\ life' = [life EXCEPT !.at = "alive", !.nx = nx]
      BY <2>5 DEF Look, NextOf, nx
    <3>2. LifeType' /\ life'.at # "asleep"
      BY <1>2, <1>3, <2>2, <3>1 DEF LifeType, LifeAt, Walking
    <3>3. LifeOK'
      BY <1>1, <1>2, <1>3, <2>2, <2>3, <3>1 DEF LifeOK, nx
    <3>4. life'.ptr \in Old /\ life'.nx \in Old /\ life'.to \in Old
      BY <1>2, <1>4, <1>5, <2>1, <3>1 DEF nx
    <3> QED BY <2>4, <3>2, <3>3, <3>4
  <2>6. CASE LookAlive
    <3>1. /\ life.at = "alive"
          /\ life' = [life EXCEPT !.at = IF Dead(life.nx) THEN "take" ELSE "age"]
      BY <2>6 DEF LookAlive, Life
    <3>2. LifeType' /\ life'.at # "asleep"
      BY <1>2, <1>3, <3>1 DEF LifeType, LifeAt, Walking
    <3>3. /\ nx # Null
          /\ nx = life.nx \/ node[nx].alive # 0
      BY <3>1 DEF LifeOK, IInv, nx
    <3>4. life'.at = "age" => node[nx].alive # 0
      BY <1>2, <3>1, <3>3 DEF Dead
    <3>5. LifeOK'
      BY <1>1, <1>2, <1>3, <2>3, <3>1, <3>3, <3>4 DEF LifeOK, nx
    <3>6. life'.ptr \in Old /\ life'.nx \in Old /\ life'.to \in Old
      BY <1>2, <1>4, <3>1
    <3> QED BY <2>4, <3>2, <3>5, <3>6
  <2>7. CASE Take
    <3>1. life' = [life EXCEPT !.at = "temp",
                               !.removed = <<node[nx].id>> \o @]
      BY <2>7 DEF Take, NextOf, nx
    <3>2. nx # Null
      BY <2>7 DEF Take, Life, LifeOK, IInv, nx
    <3>3. <<node[nx].id>> \o life.removed \in Seq(Routers \union {NoRouter})
      BY <1>2, <2>2, <3>2, ConcatProperties
    <3>4. LifeType' /\ life'.at # "asleep"
      BY <1>2, <1>3, <3>1, <3>3 DEF LifeType, LifeAt, Walking
    <3>5. LifeOK'
      BY <1>1, <1>2, <1>3, <2>3, <3>1, <3>2 DEF LifeOK, nx
    <3>6. life'.ptr \in Old /\ life'.nx \in Old /\ life'.to \in Old
      BY <1>2, <1>4, <3>1
    <3> QED BY <2>4, <3>4, <3>5, <3>6
  <2>8. CASE DeleteTemp
    <3>1. life' = [life EXCEPT !.at = "test", !.nx = nx]
      BY <2>8 DEF DeleteTemp, NextOf, nx
    <3>2. nx # Null
      BY <2>8 DEF DeleteTemp, Life, LifeOK, IInv, nx
    <3>3. LifeType' /\ life'.at # "asleep"
      BY <1>2, <1>3, <2>2, <3>1, <3>2 DEF LifeType, LifeAt, Walking
    <3>4. LifeOK'
      BY <1>1, <1>2, <1>3, <2>2, <2>3, <3>1, <3>2 DEF LifeOK, nx
    <3>5. life'.ptr \in Old /\ life'.nx \in Old /\ life'.to \in Old
      BY <1>2, <1>4, <1>5, <2>1, <3>1, <3>2 DEF nx
    <3> QED BY <2>4, <3>3, <3>4, <3>5
  <2>9. CASE DeleteTest
    <3>1. /\ life.at = "test"
          /\ life' = [life EXCEPT
                        !.at = IF node[nx].next # Null THEN "load" ELSE "link",
                        !.to = Null]
      BY <2>9 DEF DeleteTest, Life, NextOf, nx
    <3>2. nx # Null /\ life.nx \in Pointers
      BY <3>1 DEF LifeOK, IInv, nx
    <3>3. LifeType' /\ life'.at # "asleep"
      BY <1>2, <1>3, <3>1 DEF LifeType, LifeAt, Walking
    <3>4. Null # First /\ (life.ptr # First => Null < life.ptr)
      BY <1>3, <2>3, Nodes DEF IInv, Null, First
    <3>5. LifeOK'
      BY <1>1, <1>2, <1>3, <2>3, <3>1, <3>2, <3>4 DEF LifeOK, nx
    <3>6. life'.ptr \in Old /\ life'.nx \in Old /\ life'.to \in Old
      BY <1>2, <1>4, <3>1
    <3> QED BY <2>4, <3>3, <3>5, <3>6
  <2>10. CASE DeleteLoad
    <3>1. /\ life.at = "load"
          /\ life' = [life EXCEPT !.at = "link", !.to = node[nx].next]
      BY <2>10 DEF DeleteLoad, Life, NextOf, nx
    <3>2. nx # Null /\ life.nx \in Pointers
      BY <3>1 DEF LifeOK, IInv, nx
    <3>3. LifeType' /\ life'.at # "asleep"
      BY <1>2, <1>3, <2>2, <3>1, <3>2 DEF LifeType, LifeAt, Walking
    <3>4. LifeOK'
      BY <1>1, <1>2, <1>3, <2>2, <2>3, <3>1, <3>2 DEF LifeOK
    <3>5. life'.ptr \in Old /\ life'.nx \in Old /\ life'.to \in Old
      BY <1>2, <1>4, <1>5, <2>1, <3>1, <3>2 DEF nx
    <3> QED BY <2>4, <3>3, <3>4, <3>5
  <2>11. CASE AgePointer
    <3>1. life' = [life EXCEPT !.at = "lower", !.nx = nx]
      BY <2>11 DEF AgePointer, NextOf, nx
    <3>2. nx # Null /\ node[nx].alive # 0
      BY <2>11 DEF AgePointer, Life, LifeOK, IInv, nx
    <3>3. LifeType' /\ life'.at # "asleep"
      BY <1>2, <1>3, <2>2, <3>1, <3>2 DEF LifeType, LifeAt, Walking
    <3>4. LifeOK'
      BY <1>1, <1>2, <1>3, <2>2, <2>3, <3>1, <3>2 DEF LifeOK
    <3>5. life'.ptr \in Old /\ life'.nx \in Old /\ life'.to \in Old
      BY <1>2, <1>4, <1>5, <2>1, <3>1, <3>2 DEF nx
    <3> QED BY <2>4, <3>3, <3>4, <3>5
  <2>12. CASE AgeLoad
    <3>1. /\ life.at = "lower"
          /\ life' = [life EXCEPT !.at = "store", !.val = node[life.nx].alive - 1]
      BY <2>12 DEF AgeLoad, Life, Aged
    <3>2. life.nx \in Pointers /\ node[life.nx].alive # 0
      BY <3>1 DEF LifeOK, IInv
    <3>3. node[life.nx].alive - 1 \in 0..NeighborTimeout
      <4>1. node[life.nx].alive \in 0..NeighborTimeout
        BY <3>2, Nodes DEF IInv
      <4> QED BY <3>2, <4>1, ConstantsOK
    <3>4. LifeType' /\ life'.at # "asleep"
      BY <1>2, <1>3, <3>1, <3>3 DEF LifeType, LifeAt, Walking
    <3>5. LifeOK'
      BY <1>1, <1>2, <1>3, <2>3, <3>1, <3>2 DEF LifeOK
    <3>6. life'.ptr \in Old /\ life'.nx \in Old /\ life'.to \in Old
      BY <1>2, <1>4, <3>1
    <3> QED BY <2>4, <3>4, <3>5, <3>6
  <2>13. CASE Advance
    <3>1. life' = IF nx = Null THEN [life EXCEPT !.at = "clear", !.left = Ifs]
                  ELSE [life EXCEPT !.at = "look", !.ptr = nx]
      BY <2>13 DEF Advance, NextOf, nx
    <3>2. LifeType' /\ life'.at # "asleep"
      BY <1>2, <1>3, <2>2, <3>1 DEF LifeType, LifeAt, Walking
    <3>3. LifeOK'
      BY <1>1, <1>2, <1>3, <2>2, <3>1 DEF LifeOK, Walking
    <3>4. life'.ptr \in Old /\ life'.nx \in Old /\ life'.to \in Old
      BY <1>2, <1>4, <1>5, <2>1, <3>1 DEF nx
    <3> QED BY <2>4, <3>2, <3>3, <3>4
  <2> QED BY <1>9, <2>5, <2>6, <2>7, <2>8, <2>9, <2>10, <2>11, <2>12, <2>13
<1> QED BY <1>6, <1>7, <1>8, <1>9

\* ... in send_all_lsu, and the fault.
LEMMA RoundOK ==
  ASSUME IInv, RoundStep \/ (UseAfterFree /\ Quiet)
  PROVE  IInv'
<1>1. /\ node' = node /\ main' = main /\ life' = life
  BY DEF RoundStep, RoundWake, RoundTest, RoundDest, RoundMiss, RoundSend,
         RoundEnd, UseAfterFree
<1>2. /\ round \in [at : {"asleep", "sending", "dest", "lookup", "queue"},
                    left : SUBSET Ifs, if : Ifs,
                    to : Routers \union {NoRouter}, changed : BOOLEAN]
      /\ known \in [Ifs -> Routers \union {NoRouter}]
      /\ addr \in [Ifs -> Routers \union {NoRouter}]
  BY Types DEF IInv, RestOK
<1>3. addr[round.if] \in Routers \union {NoRouter}
  BY <1>2
<1>4. /\ round' \in [at : {"asleep", "sending", "dest", "lookup", "queue"},
                     left : SUBSET Ifs, if : Ifs,
                     to : Routers \union {NoRouter}, changed : BOOLEAN]
      /\ \/ lock = "free" /\ lock' = "round" /\ round'.at # "asleep"
         \/ /\ lock' = lock /\ round.at # "asleep" /\ round'.at # "asleep"
         \/ round.at # "asleep" /\ lock' = "free" /\ round'.at = "asleep"
         \/ lock' = lock /\ round' = round
  <2>1. CASE RoundWake
    BY <2>1, ConstantsOK DEF RoundWake, NoRound
  <2>2. ASSUME NEW i \in Ifs, RoundTest(i)
        PROVE  /\ round' \in [at : {"asleep", "sending", "dest", "lookup", "queue"},
                              left : SUBSET Ifs, if : Ifs,
                              to : Routers \union {NoRouter}, changed : BOOLEAN]
               /\ lock' = lock /\ round.at # "asleep" /\ round'.at # "asleep"
    <3>1. PICK b \in BOOLEAN, at \in {"sending", "dest"} :
            round' = [round EXCEPT !.at = at, !.left = @ \ {i}, !.if = i,
                                   !.changed = b]
      BY <2>2 DEF RoundTest
    <3>2. round.at = "sending" /\ lock' = lock
      BY <2>2 DEF RoundTest
    <3> QED BY <1>2, <3>1, <3>2
  <2>3. CASE RoundDest
    BY <1>2, <1>3, <2>3 DEF RoundDest
  <2>4. CASE RoundMiss
    BY <1>2, <2>4 DEF RoundMiss
  <2>5. CASE RoundSend
    BY <1>2, <2>5 DEF RoundSend
  <2>6. CASE RoundEnd
    BY <2>6, ConstantsOK DEF RoundEnd, NoRound
  <2>7. CASE UseAfterFree
    BY <1>2, <2>7 DEF UseAfterFree
  <2> QED BY <2>1, <2>2, <2>3, <2>4, <2>5, <2>6, <2>7 DEF RoundStep
<1>5. RestOK'
  <2>1. /\ known' = known /\ addr' = addr
        /\ fault' \in BOOLEAN
    BY Types DEF IInv, RestOK, RoundStep, RoundWake, RoundTest, RoundDest,
                 RoundMiss, RoundSend, RoundEnd, UseAfterFree
  <2>2. seq' \in 0..(SeqMod - 1)
    <3>1. seq' = seq \/ seq' = (seq + 1) % SeqMod
      BY DEF RoundStep, RoundWake, RoundTest, RoundDest, RoundMiss, RoundSend,
             RoundEnd, UseAfterFree
    <3>2. seq \in 0..(SeqMod - 1)
      BY Types DEF IInv, RestOK
    <3> QED BY <3>1, <3>2, ConstantsOK
  <2>3. lsu' \subseteq [if : Ifs, to : Routers \union {NoRouter},
                        hop : Routers \union {NoRouter}]
    BY <1>2, <1>3 DEF RoundStep, RoundSend, Lsu, Quiet
  <2>4. lock' \in {"free", "life", "round"}
    BY <1>4, Types DEF IInv, RestOK
  <2> QED BY <1>2, <1>4, <2>1, <2>2, <2>3, <2>4 DEF RestOK
<1>6. LocksOK'
  BY <1>1, <1>4 DEF LocksOK, IInv
<1>7. MainType' /\ LifeType'
  BY <1>1, Types DEF IInv, MainType, LifeType, Pointers
<1>8. TypeOK'
  BY <1>1, <1>5, <1>7, Types, TypesNext DEF IInv
<1>9. ListDescends' /\ Fresh' /\ LifeOK' /\ MainOK'
  BY <1>1 DEF IInv, ListDescends, Fresh, LifeOK, MainOK, Pointers
<1> QED BY <1>6, <1>8, <1>9 DEF IInv

-----------------------------------------------------------------------------
(* Steps that change the list.                                             *)

\* A node is made: Create, and WalkEnd.
LEMMA CreateOK ==
  ASSUME IInv, Create \/ WalkEnd, Quiet
  PROVE  IInv'
<1> DEFINE k == Len(node) + 1
<1>1. /\ main \in [at : MainAt,
                   id : Routers \union {NoRouter}, if : Ifs,
                   ptr : {Null} \union Pointers, then : {"idle", "round"}]
      /\ Pointers = 1..Len(node) /\ Len(node) \in Nat /\ First \in Pointers
  BY Types, Nodes DEF IInv, MainType, MainAt
<1>2. /\ node' = Append(node, NewNode(main.id))
      /\ \E b \in {"idle", "round"} :
           main' = [main EXCEPT !.at = "link", !.ptr = k, !.then = b]
      /\ life' = life /\ lock' = lock /\ round' = round
  BY DEF Create, WalkEnd
<1>3. /\ node' \in Seq(Node) /\ node' # <<>> /\ Len(node') = k
      /\ Pointers' = 1..k
      /\ \A p \in Pointers : node'[p] = node[p]
      /\ node'[k] = NewNode(main.id)
  BY <1>1, <1>2, Added DEF IInv
<1> HIDE DEF k
<1>4. /\ k \notin Pointers /\ k # Null /\ k # First
      /\ Pointers' = Pointers \union {k}
  BY <1>1, <1>3 DEF k, Null, First
<1>5. MainType' /\ main'.at = "link" /\ main'.ptr = k
  BY <1>1, <1>2, <1>4 DEF MainType, MainAt
<1>6. LifeType'
  BY <1>2, <1>4, Types DEF IInv, LifeType
<1>7. RestOK'
  BY <1>1, Types DEF IInv, RestOK, Create, WalkEnd, Quiet
<1>8. TypeOK'
  BY <1>3, <1>5, <1>6, <1>7, TypesNext
<1>9. node'[k].next = Null /\ node'[k].alive # 0
  BY <1>3, ConstantsOK DEF NewNode, Null
<1>10. ListDescends'
  BY <1>3, <1>4, <1>9 DEF IInv, ListDescends, Null, First
<1>11. /\ life.ptr # k /\ life.nx # k /\ life.to # k
  BY <1>4, Types DEF IInv, LifeType
<1>12. Fresh'
  <2>1. \A p \in Pointers : node[p].next # k
    BY <1>4 DEF IInv, ListDescends
  <2>2. \A p \in Pointers' : node'[p].next # k
    BY <1>3, <1>4, <1>9, <2>1
  <2> QED BY <1>2, <1>3, <1>4, <1>5, <1>9, <1>11, <2>2 DEF Fresh
<1>13. LifeOK'
  <2>1. \A p \in Pointers : node'[p].next = node[p].next
                            /\ node'[p].alive = node[p].alive
    BY <1>3
  <2>2. /\ life.at \in Walking => life.ptr \in Pointers
        /\ life.at = "lower" => life.nx \in Pointers
    BY DEF IInv, LifeOK
  <2>3. life.at \in {"alive", "age"} => node[life.ptr].next \in Pointers
    BY <2>2 DEF IInv, LifeOK, ListDescends, Walking
  <2>4. /\ life.at = "age" => node'[node'[life.ptr].next].alive # 0
        /\ life.at = "alive" => \/ node'[life.ptr].next = life.nx
                                \/ node'[node'[life.ptr].next].alive # 0
        /\ life.at = "lower" => node'[life.nx].alive # 0
    BY <2>1, <2>2, <2>3 DEF IInv, LifeOK, Walking
  <2> QED BY <1>2, <1>4, <2>1, <2>2, <2>4 DEF IInv, LifeOK, Walking
<1>14. MainOK' /\ LocksOK'
  BY <1>2, <1>5 DEF IInv, MainOK, LocksOK
<1> QED BY <1>8, <1>10, <1>12, <1>13, <1>14 DEF IInv

\* add_neighbor.
LEMMA LinkOK ==
  ASSUME IInv, LinkNext \/ LinkHead, Quiet
  PROVE  IInv'
<1>1. /\ main \in [at : MainAt,
                   id : Routers \union {NoRouter}, if : Ifs,
                   ptr : {Null} \union Pointers, then : {"idle", "round"}]
      /\ Pointers = 1..Len(node) /\ Len(node) \in Nat /\ First \in Pointers
      /\ Null \notin Pointers
  BY Types, Nodes DEF IInv, MainType, MainAt, Null
<1>2. /\ main.at \in {"link", "head"}
      /\ main.ptr = Len(node) /\ main.ptr # First /\ main.ptr \in Pointers
      /\ node[main.ptr].alive # 0
      /\ \A p \in Pointers : node[p].next # main.ptr
      /\ life.ptr # main.ptr /\ life.nx # main.ptr /\ life.to # main.ptr
  BY <1>1, Nodes DEF IInv, Fresh, LinkNext, LinkHead, Main
<1>3. life' = life /\ lock' = lock /\ round' = round /\ RestOK'
  BY Types DEF LinkNext, LinkHead, IInv, RestOK, Quiet
<1>4. ASSUME NEW p \in Pointers, NEW n \in Pointers \union {Null}
      PROVE  [node[p] EXCEPT !.next = n] \in Node
  BY <1>1, <1>4, Nodes DEF IInv, Node, Null
<1>5. CASE LinkNext
  <2> DEFINE q == [node[main.ptr] EXCEPT !.next = node[First].next]
  <2>1. node' = [node EXCEPT ![main.ptr] = q]
    BY <1>5 DEF LinkNext, OldHead, Head1
  <2>2. node[First].next \in (Pointers \union {Null}) \ {First, main.ptr}
    BY <1>1, <1>2 DEF IInv, ListDescends
  <2>3. /\ q \in Node /\ q.next = node[First].next
        /\ q.alive = node[main.ptr].alive
    BY <1>2, <1>4, <2>2, Nodes DEF IInv, Node
  <2> HIDE DEF q
  <2>4. /\ node' \in Seq(Node) /\ node' # <<>> /\ Len(node') = Len(node)
        /\ Pointers' = Pointers
        /\ \A k \in Pointers : node'[k] = IF k = main.ptr THEN q ELSE node[k]
    BY <1>2, <2>1, <2>3, Updated DEF IInv
  <2>5. main' = [main EXCEPT !.at = "head"]
    BY <1>5 DEF LinkNext
  <2>6. TypeOK'
    <3>1. MainType'
      BY <1>1, <2>4, <2>5 DEF MainType, MainAt
    <3>2. LifeType'
      BY <1>3, <2>4, Types DEF IInv, LifeType
    <3> QED BY <1>3, <2>4, <3>1, <3>2, TypesNext
  <2>7. ListDescends'
    <3>1. q.next < main.ptr \/ q.next = Null
      BY <1>1, <1>2, <2>2, <2>3
    <3> QED BY <2>2, <2>3, <2>4, <3>1 DEF IInv, ListDescends
  <2>8. Fresh'
    BY <1>1, <1>2, <1>3, <2>2, <2>3, <2>4, <2>5 DEF Fresh
  <2>9. LifeOK'
    <3>1. life.at \in Walking => /\ life.ptr \in Pointers
                                 /\ node'[life.ptr] = node[life.ptr]
      BY <1>2, <2>4 DEF IInv, LifeOK
    <3>2. life.at \in {"alive", "age"} => /\ node[life.ptr].next \in Pointers
                                          /\ node[life.ptr].next # main.ptr
      BY <1>2, <3>1 DEF IInv, LifeOK, ListDescends, Walking
    <3>3. \A k \in Pointers : node'[k].alive = node[k].alive
      BY <1>2, <2>3, <2>4
    <3>4. life.at \in {"alive", "age"} =>
            node'[node'[life.ptr].next].alive = node[node[life.ptr].next].alive
      BY <3>1, <3>2, <3>3 DEF Walking
    <3>5. life.at = "lower" => node'[life.nx].alive # 0
      BY <3>3 DEF IInv, LifeOK
    <3> QED BY <1>3, <2>4, <3>1, <3>4, <3>5 DEF IInv, LifeOK, Walking
  <2>10. MainOK' /\ LocksOK'
    BY <1>1, <1>3, <2>5 DEF IInv, MainOK, LocksOK
  <2> QED BY <2>6, <2>7, <2>8, <2>9, <2>10 DEF IInv
<1>6. CASE LinkHead
  <2> DEFINE q == [node[First] EXCEPT !.next = main.ptr]
  <2>1. node' = [node EXCEPT ![First] = q]
    BY <1>6 DEF LinkHead
  <2>2. q \in Node /\ q.next = main.ptr /\ q.alive = node[First].alive
    BY <1>1, <1>2, <1>4, Nodes DEF IInv, Node
  <2> HIDE DEF q
  <2>3. /\ node' \in Seq(Node) /\ node' # <<>> /\ Len(node') = Len(node)
        /\ Pointers' = Pointers
        /\ \A k \in Pointers : node'[k] = IF k = First THEN q ELSE node[k]
    BY <1>1, <2>1, <2>2, Updated DEF IInv
  <2>4. main' = [main EXCEPT !.at = main.then]
    BY <1>6 DEF LinkHead
  <2>5. TypeOK'
    <3>1. MainType'
      BY <1>1, <2>3, <2>4 DEF MainType, MainAt
    <3>2. LifeType'
      BY <1>3, <2>3, Types DEF IInv, LifeType
    <3> QED BY <1>3, <2>3, <3>1, <3>2, TypesNext
  <2>6. ListDescends'
    BY <1>2, <2>2, <2>3 DEF IInv, ListDescends
  <2>7. Fresh' /\ MainOK'
    BY <1>1, <2>4 DEF Fresh, MainOK
  <2>8. LifeOK'
    <3>1. life.at \in Walking => life.ptr \in Pointers
      BY DEF IInv, LifeOK
    <3>2. life.at \in Walking /\ life.ptr # First
            => node'[life.ptr].next = node[life.ptr].next
      BY <2>3, <3>1
    <3>3. life.at \in Walking /\ life.ptr = First
            => node'[life.ptr].next = main.ptr
      BY <1>1, <2>2, <2>3
    <3>4. node'[main.ptr].alive # 0 /\ main.ptr # Null
      BY <1>1, <1>2, <2>3
    <3>5. life.at \in {"alive", "age"} =>
            \/ node'[node'[life.ptr].next].alive # 0
            \/ /\ node'[life.ptr].next = node[life.ptr].next
               /\ node'[node'[life.ptr].next].alive = node[node[life.ptr].next].alive
      <4>1. CASE life.ptr = First
        BY <3>3, <3>4, <4>1 DEF Walking
      <4>2. ASSUME life.at \in {"alive", "age"}, life.ptr # First
            PROVE  /\ node'[life.ptr].next = node[life.ptr].next
                   /\ node'[node'[life.ptr].next].alive
                        = node[node[life.ptr].next].alive
        <5>1. node[life.ptr].next \in Pointers \ {First}
          BY <3>1, <4>2 DEF IInv, LifeOK, ListDescends, Walking
        <5> QED BY <2>3, <3>2, <4>2, <5>1 DEF IInv, LifeOK, Walking
      <4> QED BY <4>1, <4>2
    <3>6. life.at \in {"alive", "take", "temp", "test", "load", "age"}
            => node'[life.ptr].next # Null
      BY <3>2, <3>3, <3>4 DEF IInv, LifeOK, Walking
    <3>7. life.at = "lower" => node'[life.nx].alive # 0
      BY <2>2, <2>3 DEF IInv, LifeOK
    <3> QED BY <1>3, <2>3, <3>1, <3>5, <3>6, <3>7 DEF IInv, LifeOK
  <2>9. LocksOK'
    BY <1>3 DEF IInv, LocksOK
  <2> QED BY <2>5, <2>6, <2>7, <2>8, <2>9 DEF IInv
<1> QED BY <1>5, <1>6

\* The node a refresh has found.
LEMMA RefreshOK ==
  ASSUME IInv, Refresh, Quiet
  PROVE  IInv'
<1> DEFINE p == main.ptr
           q == [node[p] EXCEPT !.alive = NeighborTimeout]
<1>1. p \in Pointers /\ node' = [node EXCEPT ![p] = q] /\ main' = NoCall
  BY DEF Refresh, Main, MainOK, IInv
<1>2. /\ q \in Node /\ q.next = node[p].next /\ q.alive = NeighborTimeout
  BY <1>1, ConstantsOK, Nodes DEF IInv, Node
<1> HIDE DEF p, q
<1>3. /\ node' \in Seq(Node) /\ node' # <<>> /\ Len(node') = Len(node)
      /\ Pointers' = Pointers
      /\ \A k \in Pointers : node'[k] = IF k = p THEN q ELSE node[k]
  BY <1>1, <1>2, Updated DEF IInv
<1>4. life' = life /\ lock' = lock /\ round' = round /\ RestOK'
  BY Types DEF Refresh, IInv, RestOK, Quiet
<1>5. TypeOK'
  <2>1. MainType'
    BY <1>1, <1>3, ConstantsOK DEF MainType, MainAt, NoCall
  <2>2. LifeType'
    BY <1>3, <1>4, Types DEF IInv, LifeType
  <2> QED BY <1>3, <1>4, <2>1, <2>2, TypesNext
<1>6. ListDescends'
  BY <1>2, <1>3 DEF IInv, ListDescends
<1>7. Fresh' /\ MainOK' /\ LocksOK'
  BY <1>1, <1>4 DEF IInv, Fresh, MainOK, LocksOK, NoCall
<1>8. LifeOK'
  <2>1. life.at \in Walking => life.ptr \in Pointers
    BY DEF IInv, LifeOK
  <2>2. \A k \in Pointers : /\ node'[k].next = node[k].next
                            /\ node[k].alive # 0 => node'[k].alive # 0
    BY <1>2, <1>3, ConstantsOK
  <2>3. life.at \in {"alive", "age"} => node[life.ptr].next \in Pointers
    BY <2>1 DEF IInv, LifeOK, ListDescends, Walking
  <2>4. life.at \in {"alive", "age"} =>
          /\ node'[life.ptr].next = node[life.ptr].next
          /\ node[node[life.ptr].next].alive # 0
               => node'[node'[life.ptr].next].alive # 0
    BY <2>1, <2>2, <2>3 DEF Walking
  <2>5. life.at = "lower" => node'[life.nx].alive # 0
    BY <2>2 DEF IInv, LifeOK
  <2> QED BY <1>3, <1>4, <2>1, <2>2, <2>4, <2>5 DEF IInv, LifeOK, Walking
<1> QED BY <1>5, <1>6, <1>7, <1>8 DEF IInv

\* What check_neighbors_alive writes: a node unlinked, freed or aged.
LEMMA LifeWriteOK ==
  ASSUME IInv, DeleteLink \/ DeleteFree \/ AgeStore, Quiet
  PROVE  IInv'
<1>1. /\ life \in [at : LifeAt, ptr : {Null} \union Pointers,
                   nx : {Null} \union Pointers,
                   to : {Null} \union Pointers, val : 0..NeighborTimeout,
                   removed : Seq(Routers \union {NoRouter}),
                   left : SUBSET Ifs, if : Ifs]
      /\ life.at \in {"link", "free", "store"}
      /\ life.ptr \in Pointers /\ life.nx \in Pointers
  BY Types DEF IInv, LifeType, LifeOK, Walking, DeleteLink, DeleteFree,
               AgeStore, Life
<1>2. /\ \E at \in {"free", "advance"} : life' = [life EXCEPT !.at = at]
      /\ main' = main /\ lock' = lock /\ round' = round /\ RestOK'
  BY Types DEF DeleteLink, DeleteFree, AgeStore, IInv, RestOK, Quiet
\* What each does to the list.
<1>3. /\ node' \in Seq(Node) /\ node' # <<>> /\ Len(node') = Len(node)
      /\ Pointers' = Pointers
      /\ \A k \in Pointers :
           /\ \/ node'[k].next = node[k].next
              \/ /\ k = life.ptr /\ node'[k].next = life.to
                 /\ life.at = "link"
           /\ node'[k].alive = node[k].alive \/ k = life.nx
  <2>1. CASE DeleteLink
    <3> DEFINE q == [node[life.ptr] EXCEPT !.next = life.to]
    <3>1. life.to \in Nat /\ life.at = "link"
      BY <1>1, <2>1, Nodes DEF IInv, Null, DeleteLink, Life
    <3>2. q \in Node /\ q.alive = node[life.ptr].alive /\ q.next = life.to
      BY <1>1, <3>1, Nodes DEF IInv, Node
    <3>3. node' = [node EXCEPT ![life.ptr] = q]
      BY <2>1 DEF DeleteLink, Unlinked
    <3> HIDE DEF q
    <3>4. /\ node' \in Seq(Node) /\ node' # <<>> /\ Len(node') = Len(node)
          /\ Pointers' = Pointers
          /\ \A k \in Pointers : node'[k] = IF k = life.ptr THEN q ELSE node[k]
      <4>1. TypeOK /\ life.ptr \in Pointers
        BY <1>1 DEF IInv
      <4> QED BY <3>2, <3>3, <4>1, Updated
    <3> QED BY <3>1, <3>2, <3>4
  <2>2. CASE DeleteFree \/ AgeStore
    <3> DEFINE q == IF DeleteFree THEN [node[life.nx] EXCEPT !.freed = TRUE]
                    ELSE [node[life.nx] EXCEPT !.alive = life.val]
    <3>1. q \in Node /\ q.next = node[life.nx].next
      BY <1>1, Nodes DEF IInv, Node
    <3>2. node' = [node EXCEPT ![life.nx] = q]
      BY <2>2 DEF DeleteFree, AgeStore
    <3> HIDE DEF q
    <3>3. /\ node' \in Seq(Node) /\ node' # <<>> /\ Len(node') = Len(node)
          /\ Pointers' = Pointers
          /\ \A k \in Pointers : node'[k] = IF k = life.nx THEN q ELSE node[k]
      <4>1. TypeOK /\ life.nx \in Pointers
        BY <1>1 DEF IInv
      <4> QED BY <3>1, <3>2, <4>1, Updated
    <3> QED BY <3>1, <3>3
  <2> QED BY <2>1, <2>2
<1>4. TypeOK'
  <2>1. MainType'
    BY <1>2, <1>3, Types DEF IInv, MainType
  <2>2. LifeType'
    BY <1>1, <1>2, <1>3 DEF LifeType, LifeAt, Walking
  <2> QED BY <1>2, <1>3, <2>1, <2>2, TypesNext
<1>5. ListDescends'
  <2>1. life.at = "link" =>
          /\ life.to \in Pointers \union {Null} /\ life.to # First
          /\ life.ptr # First => life.to < life.ptr
    BY <1>1 DEF IInv, LifeOK
  <2> QED BY <1>3, <2>1 DEF IInv, ListDescends
<1>6. Fresh'
  <2> SUFFICES ASSUME main.at \in {"link", "head"}
               PROVE  /\ main.ptr = Len(node') /\ main.ptr # First
                      /\ node'[main.ptr].alive # 0
                      /\ \A p \in Pointers : node'[p].next # main.ptr
                      /\ life'.ptr # main.ptr /\ life'.nx # main.ptr
                      /\ life'.to # main.ptr
    BY <1>2, <1>3 DEF Fresh
  <2>1. /\ main.ptr = Len(node) /\ main.ptr # First
        /\ node[main.ptr].alive # 0
        /\ \A p \in Pointers : node[p].next # main.ptr
        /\ life.ptr # main.ptr /\ life.nx # main.ptr /\ life.to # main.ptr
    BY DEF IInv, Fresh
  <2>2. main.ptr \in Pointers
    BY <2>1, Nodes DEF IInv
  <2>3. life'.ptr = life.ptr /\ life'.nx = life.nx /\ life'.to = life.to
    BY <1>1, <1>2
  <2>4. node'[main.ptr].alive = node[main.ptr].alive
    BY <1>3, <2>1, <2>2
  <2>5. \A p \in Pointers : node'[p].next # main.ptr
    BY <1>3, <2>1
  <2> QED BY <1>3, <2>1, <2>3, <2>4, <2>5
<1>7. LifeOK'
  BY <1>1, <1>2, <1>3 DEF LifeOK, Walking
<1>8. MainOK' /\ LocksOK'
  BY <1>1, <1>2, <1>3 DEF IInv, MainOK, LocksOK
<1> QED BY <1>4, <1>5, <1>6, <1>7, <1>8 DEF IInv

-----------------------------------------------------------------------------
(* The theorems.                                                           *)

LEMMA NextOK == IInv /\ [Next]_vars => IInv'
<1> SUFFICES ASSUME IInv, [Next]_vars PROVE IInv'
  OBVIOUS
<1>1. CASE Hello
  BY <1>1, HelloOK DEF Hello
<1>2. CASE MainStep
  BY <1>2, CreateOK, LinkOK, MainStepOK, RefreshOK DEF MainStep
<1>3. CASE LifeStep
  BY <1>3, LifeStepOK, LifeWriteOK DEF LifeStep
<1>4. CASE RoundStep \/ (UseAfterFree /\ Quiet)
  BY <1>4, RoundOK
<1>5. CASE UNCHANGED vars
  <2>1. TypeOK'
    BY <1>5 DEF vars, IInv, TypeOK, Pointers
  <2>2. ListDescends' /\ Fresh'
    BY <1>5 DEF vars, IInv, ListDescends, Fresh, Pointers
  <2>3. LifeOK' /\ MainOK' /\ LocksOK'
    BY <1>5 DEF vars, IInv, LifeOK, MainOK, LocksOK, Pointers
  <2> QED BY <2>1, <2>2, <2>3 DEF IInv
<1> QED BY <1>1, <1>2, <1>3, <1>4, <1>5 DEF Next

\* The inductive invariant holds in every reachable state.
THEOREM Invariance == Spec => []IInv
BY InitOK, NextOK, PTL DEF Spec

\* Type correctness: no age below zero and no pointer to nowhere, whatever the
\* threads interleave.
THEOREM TypeCorrect == Spec => []TypeOK
<1>1. IInv => TypeOK
  BY DEF IInv
<1> QED BY <1>1, Invariance, PTL

\* The list of neighbors never becomes circular, although it is linked and
\* unlinked by two threads with no common lock: every walk of it ends.
THEOREM ListNeverCircular == Spec => []ListDescends
<1>1. IInv => ListDescends
  BY DEF IInv
<1> QED BY <1>1, Invariance, PTL

\* All LSUs of a round of send_all_lsu carry one sequence number.
THEOREM RoundHasOneSeq == Spec => RoundKeepsSeq
<1>1. ASSUME IInv, [Next]_vars, round.at # "asleep", round'.at # "asleep"
      PROVE  seq' = seq
  <2>1. lock = "round"
    BY <1>1 DEF IInv, LocksOK
  <2>2. CASE Hello
    BY <2>2 DEF Hello, HelloNew, HelloKnown
  <2>3. CASE MainStep
    BY <2>1, <2>3 DEF MainStep, Create, LinkNext, LinkHead, LsuRound, MayLock,
                      Walk, Refresh, WalkOn, WalkEnd
  <2>4. CASE LifeStep
    BY <2>4 DEF LifeStep, LifeWake, LookEnd, Look, LookAlive, Take, DeleteTemp,
                DeleteTest, DeleteLoad, DeleteLink, DeleteFree, AgePointer,
                AgeLoad, AgeStore, Advance, ClearTest, ClearWrite, ClearNext,
                LifeSleep
  <2>5. CASE RoundStep
    <3>1. ~RoundEnd
      BY <1>1 DEF RoundEnd, NoRound
    <3> QED BY <2>5, <3>1 DEF RoundStep, RoundWake, RoundTest, RoundDest,
                              RoundMiss, RoundSend
  <2>6. CASE UseAfterFree \/ UNCHANGED vars
    BY <2>6 DEF UseAfterFree, vars
  <2> QED BY <1>1, <2>2, <2>3, <2>4, <2>5, <2>6 DEF Next
<1>2. IInv /\ [Next]_vars
        => [round.at # "asleep" /\ round'.at # "asleep" => seq' = seq]_vars
  BY <1>1
<1> QED BY <1>2, Invariance, PTL DEF Spec, RoundKeepsSeq

-----------------------------------------------------------------------------
(* Where LSUs go.                                                          *)

\* The address of an interface follows its neighbor, but for the step between
\* the two writes of a HELLO; the round's ip_dst is that of the neighbor it has
\* found, which is still there, unless a HELLO has come on that interface.
HalfWritten(i) == main.at = "create" /\ main.if = i
AddressOK ==
  /\ \A i \in Ifs : known[i] \in {NoRouter, addr[i]} \/ HalfWritten(i)
  /\ main.at = "create" => known[main.if] \in {NoRouter, main.id}
RoundAddressOK ==
  Making /\ ~round.changed =>
    /\ ~HalfWritten(round.if)
    /\ known[round.if] # NoRouter
    /\ round.at \in {"lookup", "queue"} => round.to = known[round.if]
GoesRight == AddressOK /\ RoundAddressOK /\ LsuToNeighbor

LEMMA GoesRightInit == Init => GoesRight
BY DEF Init, GoesRight, AddressOK, HalfWritten, RoundAddressOK, LsuToNeighbor,
       NoCall, NoRound, Making

\* The HELLO: the round remembers it if it is making an LSU of that interface.
LEMMA HelloGoes ==
  ASSUME TypeOK, GoesRight, Hello
  PROVE  GoesRight'
<1>1. PICK i \in Ifs, n \in Routers : HelloNew(i, n) \/ HelloKnown(i, n)
  BY DEF Hello
<1>2. /\ known \in [Ifs -> Routers \union {NoRouter}]
      /\ round \in [at : {"asleep", "sending", "dest", "lookup", "queue"},
                    left : SUBSET Ifs, if : Ifs,
                    to : Routers \union {NoRouter}, changed : BOOLEAN]
      /\ n # NoRouter /\ main.at = "idle" /\ addr' = addr
  BY <1>1, ConstantsOK DEF TypeOK, HelloNew, HelloKnown, Main
<1>3. LsuToNeighbor'
  BY DEF Hello, Quiet, LsuToNeighbor
<1>4. CASE HelloKnown(i, n)
  <2>1. known' = known /\ round' = round /\ main'.at = "walk"
    BY <1>4 DEF HelloKnown, NoCall
  <2>2. AddressOK'
    BY <1>2, <2>1 DEF GoesRight, AddressOK, HalfWritten
  <2>3. RoundAddressOK'
    BY <1>2, <2>1 DEF GoesRight, RoundAddressOK, HalfWritten, Making
  <2> QED BY <1>3, <2>2, <2>3 DEF GoesRight
<1>5. CASE HelloNew(i, n)
  <2>1. /\ known' = [known EXCEPT ![i] = n]
        /\ main'.at = "create" /\ main'.id = n /\ main'.if = i
    BY <1>5 DEF HelloNew, NoCall
  <2>2. AddressOK'
    BY <1>2, <2>1 DEF GoesRight, AddressOK, HalfWritten
  <2>3. round' = [round EXCEPT !.changed = @ \/ (Making /\ round.if = i)]
    BY <1>5 DEF HelloNew
  <2>4. round'.at = round.at /\ round'.if = round.if /\ round'.to = round.to
    BY <1>2, <2>3
  <2>5. Making' /\ ~round'.changed => /\ Making /\ ~round.changed
                                      /\ round.if # i
    BY <1>2, <2>3, <2>4 DEF Making
  <2>6. round.if \in Ifs
    BY <1>2
  <2>7. RoundAddressOK'
    BY <1>2, <2>1, <2>4, <2>5, <2>6
       DEF GoesRight, RoundAddressOK, HalfWritten, Making
  <2> QED BY <1>3, <2>2, <2>7 DEF GoesRight
<1> QED BY <1>1, <1>4, <1>5

\* The rest of its handling writes the address and ends the half of the write.
LEMMA MainGoes ==
  ASSUME TypeOK, GoesRight, MainStep
  PROVE  GoesRight'
<1>1. /\ known \in [Ifs -> Routers \union {NoRouter}]
      /\ addr \in [Ifs -> Routers \union {NoRouter}]
      /\ main.if \in Ifs /\ MainType
      /\ round.if \in Ifs
  BY Types DEF TypeOK
<1>2. known' = known /\ round' = round
  BY DEF MainStep, Create, LinkNext, LinkHead, LsuRound, Walk, Refresh, WalkOn,
         WalkEnd
<1>3. main'.at # "create"
  <2>1. CASE Create \/ LinkNext \/ LsuRound \/ Walk \/ WalkOn
    BY <1>1, <2>1
       DEF MainType, Create, LinkNext, LsuRound, Walk, WalkOn
  <2>2. CASE LinkHead
    BY <1>1, <2>2 DEF MainType, LinkHead
  <2>3. CASE Refresh
    BY <2>3 DEF Refresh, NoCall
  <2>4. CASE WalkEnd
    BY <1>1, <2>4 DEF MainType, WalkEnd
  <2> QED BY <2>1, <2>2, <2>3, <2>4 DEF MainStep
<1>4. AddressOK'
  <2>1. CASE Create
    <3>1. main.at = "create" /\ addr' = [addr EXCEPT ![main.if] = main.id]
      BY <2>1 DEF Create, Main
    <3> QED BY <1>1, <1>2, <1>3, <3>1 DEF GoesRight, AddressOK, HalfWritten
  <2>2. CASE ~Create
    <3>1. main.at # "create" /\ addr' = addr
      BY <2>2 DEF MainStep, LinkNext, LinkHead, LsuRound, Walk, Refresh, WalkOn,
                  WalkEnd, Main
    <3> QED BY <1>2, <1>3, <3>1 DEF GoesRight, AddressOK, HalfWritten
  <2> QED BY <2>1, <2>2
<1>5. RoundAddressOK'
  BY <1>2, <1>3 DEF GoesRight, RoundAddressOK, HalfWritten, Making
<1>6. LsuToNeighbor'
  <2>1. CASE LsuRound
    <3>1. \A i \in Ifs : known[i] # NoRouter => known[i] = addr[i]
      BY <2>1 DEF LsuRound, Main, GoesRight, AddressOK, HalfWritten
    <3> QED BY <1>2, <2>1, <3>1 DEF LsuRound, Lsu, LsuToNeighbor
  <2>2. CASE ~LsuRound
    BY <2>2 DEF MainStep, Quiet, LsuToNeighbor
  <2> QED BY <2>1, <2>2
<1> QED BY <1>4, <1>5, <1>6 DEF GoesRight

\* Neighbors are cleared under the lock, so while the round makes no LSU.
LEMMA LifeGoes ==
  ASSUME IInv, GoesRight, LifeStep
  PROVE  GoesRight'
<1>1. main' = main /\ addr' = addr /\ round' = round
  BY DEF LifeStep, LifeWake, LookEnd, Look, LookAlive, Take, DeleteTemp,
         DeleteTest, DeleteLoad, DeleteLink, DeleteFree, AgePointer, AgeLoad,
         AgeStore, Advance, ClearTest, ClearWrite, ClearNext, LifeSleep
<1>2. LsuToNeighbor'
  BY DEF LifeStep, Quiet, LsuToNeighbor
<1>3. CASE ClearWrite
  <2>1. life.at = "zero" /\ known' = [known EXCEPT ![life.if] = NoRouter]
    BY <1>3 DEF ClearWrite, Life
  <2>2. ~Making
    BY <2>1 DEF IInv, LocksOK, Making
  <2>3. known \in [Ifs -> Routers \union {NoRouter}]
    BY Types DEF IInv, RestOK
  <2> QED BY <1>1, <1>2, <2>1, <2>2, <2>3
          DEF GoesRight, AddressOK, RoundAddressOK, HalfWritten, Making
<1>4. CASE ~ClearWrite
  <2>1. known' = known
    BY <1>4 DEF LifeStep, LifeWake, LookEnd, Look, LookAlive, Take, DeleteTemp,
                DeleteTest, DeleteLoad, DeleteLink, DeleteFree, AgePointer,
                AgeLoad, AgeStore, Advance, ClearTest, ClearNext, LifeSleep
  <2> QED BY <1>1, <1>2, <2>1
          DEF GoesRight, AddressOK, RoundAddressOK, HalfWritten, Making
<1> QED BY <1>3, <1>4

\* The round finds a neighbor, then takes its address.
LEMMA RoundGoes ==
  ASSUME TypeOK, GoesRight, RoundStep
  PROVE  GoesRight'
<1>1. /\ round \in [at : {"asleep", "sending", "dest", "lookup", "queue"},
                    left : SUBSET Ifs, if : Ifs,
                    to : Routers \union {NoRouter}, changed : BOOLEAN]
  BY DEF TypeOK
<1>2. main' = main /\ known' = known /\ addr' = addr
  BY DEF RoundStep, RoundWake, RoundTest, RoundDest, RoundMiss, RoundSend,
         RoundEnd
<1>3. AddressOK'
  BY <1>2 DEF GoesRight, AddressOK, HalfWritten
<1>4. Making /\ ~round.changed => known[round.if] = addr[round.if]
  BY <1>1 DEF GoesRight, AddressOK, RoundAddressOK
<1>5. CASE RoundSend
  <2>1. Making /\ lsu' = {Lsu(round.if, round.to, addr[round.if])}
        /\ round' = [round EXCEPT !.at = "sending"]
        /\ round.at \in {"lookup", "queue"}
    BY <1>5 DEF RoundSend, Making
  <2>2. round'.changed = round.changed /\ ~Making'
    BY <1>1, <2>1 DEF Making
  <2>3. LsuToNeighbor'
    BY <1>2, <1>4, <2>1, <2>2 DEF GoesRight, RoundAddressOK, LsuToNeighbor, Lsu
  <2> QED BY <1>3, <2>2, <2>3 DEF GoesRight, RoundAddressOK
<1>6. CASE ~RoundSend
  <2>1. LsuToNeighbor'
    BY <1>6 DEF RoundStep, Quiet, LsuToNeighbor
  <2>2. CASE RoundWake \/ RoundEnd
    <3>1. round'.at \in {"sending", "asleep"}
      <4>1. CASE RoundWake
        <5>1. round' = [NoRound EXCEPT !.at = "sending", !.left = Ifs]
          BY <4>1 DEF RoundWake
        <5> QED BY <5>1 DEF NoRound
      <4>2. CASE RoundEnd
        BY <4>2 DEF RoundEnd, NoRound
      <4> QED BY <2>2, <4>1, <4>2
    <3> QED BY <1>3, <2>1, <3>1 DEF GoesRight, RoundAddressOK, Making
  <2>3. ASSUME NEW i \in Ifs, RoundTest(i) PROVE GoesRight'
    <3>1. round'.if = i
      BY <1>1, <2>3 DEF RoundTest
    <3>2. CASE known[i] = NoRouter
      <4>1. round'.at = "sending"
        BY <1>1, <2>3, <3>2 DEF RoundTest
      <4> QED BY <1>3, <2>1, <4>1 DEF GoesRight, RoundAddressOK, Making
    <3>3. CASE known[i] # NoRouter
      <4>1. round'.at = "dest"
        BY <1>1, <2>3, <3>3 DEF RoundTest
      <4>2. round'.changed = HalfWritten(i)
        BY <1>1, <2>3 DEF RoundTest, HalfWritten
      <4> QED BY <1>2, <1>3, <2>1, <3>1, <3>3, <4>1, <4>2
              DEF GoesRight, RoundAddressOK, HalfWritten
    <3> QED BY <3>2, <3>3
  <2>4. CASE RoundDest
    <3>1. round' = [round EXCEPT !.at = "lookup", !.to = addr[round.if]]
          /\ Making
      BY <2>4 DEF RoundDest, Making
    <3>2. /\ round'.to = addr[round.if] /\ round'.if = round.if
          /\ round'.changed = round.changed
      BY <1>1, <3>1
    <3> QED BY <1>2, <1>3, <1>4, <2>1, <3>1, <3>2
            DEF GoesRight, RoundAddressOK, HalfWritten
  <2>5. CASE RoundMiss
    <3>1. round' = [round EXCEPT !.at = "queue"] /\ Making
          /\ round.at = "lookup"
      BY <2>5 DEF RoundMiss, Making
    <3>2. /\ round'.to = round.to /\ round'.if = round.if
          /\ round'.changed = round.changed
      BY <1>1, <3>1
    <3> QED BY <1>2, <1>3, <2>1, <3>1, <3>2
            DEF GoesRight, RoundAddressOK, HalfWritten
  <2> QED BY <1>6, <2>2, <2>3, <2>4, <2>5 DEF RoundStep
<1> QED BY <1>5, <1>6

\* An LSU goes to the router that is the neighbor of the interface it leaves on,
\* for ip_dst and for the next hop, unless a HELLO has come on this interface
\* since the LSU was begun.
THEOREM LsusGoToNeighbors == Spec => []LsuToNeighbor
<1>1. IInv /\ GoesRight /\ [Next]_vars => GoesRight'
  <2> SUFFICES ASSUME IInv, GoesRight, [Next]_vars PROVE GoesRight'
    OBVIOUS
  <2>1. TypeOK
    BY DEF IInv
  <2>2. CASE Hello
    BY <2>1, <2>2, HelloGoes
  <2>3. CASE MainStep
    BY <2>1, <2>3, MainGoes
  <2>4. CASE LifeStep
    BY <2>4, LifeGoes
  <2>5. CASE RoundStep
    BY <2>1, <2>5, RoundGoes
  <2>6. CASE UseAfterFree /\ Quiet
    BY <2>6 DEF UseAfterFree, Quiet, GoesRight, AddressOK, RoundAddressOK,
                HalfWritten, Making, LsuToNeighbor
  <2>7. CASE UNCHANGED vars
    BY <2>7 DEF vars, GoesRight, AddressOK, RoundAddressOK, HalfWritten, Making,
                LsuToNeighbor
  <2> QED BY <2>2, <2>3, <2>4, <2>5, <2>6, <2>7 DEF Next
<1>2. GoesRight => LsuToNeighbor
  BY DEF GoesRight
<1> QED BY <1>1, <1>2, GoesRightInit, Invariance, PTL DEF Spec
=============================================================================
