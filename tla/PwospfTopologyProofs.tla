------------------------ MODULE PwospfTopologyProofs ------------------------
(***************************************************************************)
(* Invariants of PwospfTopology, for any routers, networks, LSUs and number *)
(* of threads: types, a list that never closes to a ring, and a table that *)
(* is sound until two threads get in each other's way.                     *)
(***************************************************************************)
EXTENDS PwospfTopology, TLAPS, SequenceTheorems

\* What a call is at, and with which walk; it has an LSA in hand until the last.
OnEntry == {"next", "test", "renew", "rest"}
CallOK(c) ==
  /\ c.at \in OnEntry => c.ptr \in Pointers
  /\ c.at = "decide" => c.walk = "print"
  /\ c.at = "test" => c.walk \in {"check", "refresh"}
  /\ c.at \in {"renew", "rest", "add", "link", "head"} => c.walk = "refresh"
  /\ c.walk = "print" => c.found \in Pointers
  /\ c.walk \in {"check", "print", "refresh"} => c.nets # <<>>
CallsOK == \A t \in Threads : CallOK(thread[t])

\* The entry a thread has made is known to no other.
Fresh(t) ==
  thread[t].at = "head" =>
    /\ thread[t].ptr \in Pointers \ {First}
    /\ Live(thread[t].ptr) /\ node[thread[t].ptr].age = 0
    /\ node[thread[t].ptr].rid = thread[t].rid
    /\ node[thread[t].ptr].net = Head(thread[t].nets)
    /\ \A q \in Pointers : node[q].next # thread[t].ptr
    /\ thread[t].ptr \notin {age.ptr, age.nx, age.to} \union held
    /\ \A u \in Threads \ {t} : thread[u].ptr # thread[t].ptr
FreshOK == \A t \in Threads : Fresh(t)

\* The ageing thread is at an entry, has another behind it where it tests, ages or
\* deletes, and one that it ages is not at its end.
Behind == node[age.ptr].next
AgeOK ==
  /\ age.at # "asleep" => age.ptr \in Pointers
  /\ age.at \in {"old", "temp", "test", "load", "age", "raise", "store"} =>
       Behind # Null
  /\ age.at \in {"old", "test", "load", "link", "free", "raise", "store"} =>
       age.nx \in Pointers \ {First}
  /\ age.at = "link" =>
       /\ age.to # First
       /\ age.ptr # First => age.to < age.ptr \/ age.to = Null
  /\ age.at = "old" => Behind = age.nx \/ node[Behind].age < Timeout
  /\ age.at = "age" => node[Behind].age < Timeout
  /\ age.at = "raise" => node[age.nx].age < Timeout

ListInv == TypeOK /\ ListDescends /\ CallsOK /\ FreshOK /\ AgeOK

-----------------------------------------------------------------------------
(* The same without two threads in each other's way.                       *)

\* The entry that is unlinked and not yet freed.
Leaving == IF age.at = "free" THEN {age.nx} ELSE {}
Path == held \union {First} \union Leaving

\* A thread stands on an entry of the list or on the one that leaves it, from
\* which it comes back to the list, unless the entry was freed under it.
Stands(c) ==
  /\ c.at \in OnEntry => IF Live(c.ptr) THEN c.ptr \in Path ELSE watched
  /\ c.walk = "print" /\ ~Live(c.found) => watched
Standing ==
  /\ held \subseteq Pointers \ {First}
  /\ Live(First)
  /\ \A p \in Leaving : p \notin held /\ p # First /\ Live(p) /\ LeadsOn(p)
  /\ \A t \in Threads : Stands(thread[t])

\* A new entry leads to the head of the list and is younger than all in it.
Heads ==
  \A t \in Threads : thread[t].at = "head" =>
    /\ node[thread[t].ptr].next = Head1
    /\ \A q \in held \union Leaving : q < thread[t].ptr

\* An entry like the one in hand is only where the walk has not been.
Mates(c) == {q \in held : Mine(q, c)}
HasSearched(c) ==
  c.walk = "refresh" =>
    /\ c.at = "next" => Mates(c) \subseteq Below(c.ptr)
    /\ c.at = "test" => \A q \in Mates(c) : q <= c.ptr
    /\ c.at \in {"add", "link", "head"} => Mates(c) = {}
Searched == \A t \in Threads : HasSearched(thread[t])

\* The ageing thread stands on the list, and deletes what is behind it.
Ageing ==
  /\ age.at # "asleep" => age.ptr \in held \union {First}
  /\ age.at \in {"old", "test", "load", "link", "raise", "store"} => age.nx \in held
  /\ age.at \in {"test", "load", "link"} => age.nx = Behind
  /\ age.at = "link" => age.to = node[age.nx].next

Sound == InOrder /\ OneEntry /\ Standing /\ Heads /\ Searched /\ Ageing
IInv == ListInv /\ (~overlap => Sound) /\ (fault => overlap \/ watched)

-----------------------------------------------------------------------------
(* The list of entries.                                                    *)

LEMMA Nodes ==
  ASSUME TypeOK
  PROVE  /\ Len(node) \in Nat /\ Pointers = 1..Len(node) /\ First \in Pointers
         /\ \A p \in Pointers :
              /\ node[p] \in Node /\ node[p].next \in Nat
              /\ node[p].age \in 0..Timeout /\ node[p].freed \in BOOLEAN
<1>1. node \in Seq(Node) /\ node # <<>>
  BY DEF TypeOK
<1>2. Len(node) \in Nat /\ Pointers = 1..Len(node) /\ Len(node) # 0
  BY <1>1, LenProperties, EmptySeq DEF Pointers
<1>3. \A p \in Pointers : node[p] \in Node
  BY <1>1, <1>2, ElementOfSeq
<1> QED BY <1>2, <1>3 DEF Node, First

\* An entry is added.
LEMMA Added ==
  ASSUME TypeOK, NEW e \in Node, node' = Append(node, e)
  PROVE  /\ node' \in Seq(Node) /\ node' # <<>>
         /\ Len(node) + 1 \notin Pointers \union {Null, First}
         /\ Pointers' = Pointers \union {Len(node) + 1}
         /\ \A p \in Pointers : node'[p] = node[p] /\ p < Len(node) + 1
         /\ node'[Len(node) + 1] = e
<1>1. node \in Seq(Node) /\ Len(node) \in Nat /\ Pointers = 1..Len(node)
  BY Nodes DEF TypeOK
<1>2. node' \in Seq(Node) /\ Len(node') = Len(node) + 1
  BY <1>1, AppendProperties
<1>3. \A p \in 1..Len(node) : node'[p] = node[p]
  BY <1>1, AppendProperties
<1>4. node'[Len(node) + 1] = e
  BY <1>1, AppendProperties
<1>5. Pointers' = 1..Len(node) + 1
  BY <1>2, LenProperties DEF Pointers
<1>6. Len(node) + 1 # First
  BY <1>1, Nodes
<1> QED BY <1>1, <1>2, <1>3, <1>4, <1>5, <1>6, EmptySeq DEF Null

\* An entry is changed in place.
LEMMA Changed ==
  ASSUME TypeOK, NEW p \in Pointers, NEW e \in Node,
         node' = [node EXCEPT ![p] = e]
  PROVE  /\ node' \in Seq(Node) /\ node' # <<>>
         /\ Pointers' = Pointers
         /\ \A k \in Pointers : node'[k] = IF k = p THEN e ELSE node[k]
<1>1. /\ node \in Seq(Node) /\ Pointers = 1..Len(node) /\ node # <<>>
      /\ Len(node) \in Nat
  BY Nodes DEF TypeOK
<1>2. /\ node' \in Seq(Node) /\ Len(node') = Len(node)
      /\ \A k \in 1..Len(node) : node'[k] = IF k = p THEN e ELSE node[k]
  BY <1>1, ExceptSeq
<1>3. Pointers' = Pointers
  BY <1>1, <1>2, LenProperties DEF Pointers
<1> QED BY <1>1, <1>2, <1>3, EmptySeq

\* Its age, its next or its end.
LEMMA Fields ==
  ASSUME TypeOK, NEW p \in Pointers
  PROVE  /\ \A v \in 0..Timeout : node' = [node EXCEPT ![p].age = v] =>
              /\ node' \in Seq(Node) /\ node' # <<>> /\ Pointers' = Pointers
              /\ \A k \in Pointers :
                   /\ node'[k].next = node[k].next /\ node'[k].freed = node[k].freed
                   /\ node'[k].rid = node[k].rid /\ node'[k].net = node[k].net
                   /\ node'[k].age = IF k = p THEN v ELSE node[k].age
         /\ \A v \in Nat : node' = [node EXCEPT ![p].next = v] =>
              /\ node' \in Seq(Node) /\ node' # <<>> /\ Pointers' = Pointers
              /\ \A k \in Pointers :
                   /\ node'[k].next = IF k = p THEN v ELSE node[k].next
                   /\ node'[k].freed = node[k].freed /\ node'[k].age = node[k].age
                   /\ node'[k].rid = node[k].rid /\ node'[k].net = node[k].net
         /\ node' = [node EXCEPT ![p].freed = TRUE] =>
              /\ node' \in Seq(Node) /\ node' # <<>> /\ Pointers' = Pointers
              /\ \A k \in Pointers :
                   /\ node'[k].next = node[k].next /\ node'[k].age = node[k].age
                   /\ node'[k].freed = IF k = p THEN TRUE ELSE node[k].freed
                   /\ node'[k].rid = node[k].rid /\ node'[k].net = node[k].net
<1>1. node[p] \in Node /\ \A k \in Pointers : node[k] \in Node
  BY Nodes
<1>2. ASSUME NEW v \in 0..Timeout, node' = [node EXCEPT ![p].age = v]
      PROVE  /\ node' \in Seq(Node) /\ node' # <<>> /\ Pointers' = Pointers
             /\ \A k \in Pointers :
                  /\ node'[k].next = node[k].next /\ node'[k].freed = node[k].freed
                  /\ node'[k].rid = node[k].rid /\ node'[k].net = node[k].net
                  /\ node'[k].age = IF k = p THEN v ELSE node[k].age
  <2> DEFINE e == [node[p] EXCEPT !.age = v]
  <2>1. /\ e \in Node /\ e.next = node[p].next /\ e.freed = node[p].freed
        /\ e.rid = node[p].rid /\ e.net = node[p].net /\ e.age = v
    BY <1>1 DEF Node
  <2>2. node' = [node EXCEPT ![p] = e]
    BY <1>2
  <2> HIDE DEF e
  <2>3. /\ node' \in Seq(Node) /\ node' # <<>> /\ Pointers' = Pointers
        /\ \A k \in Pointers : node'[k] = IF k = p THEN e ELSE node[k]
    BY <2>1, <2>2, Changed
  <2> QED BY <2>1, <2>3
<1>3. ASSUME NEW v \in Nat, node' = [node EXCEPT ![p].next = v]
      PROVE  /\ node' \in Seq(Node) /\ node' # <<>> /\ Pointers' = Pointers
             /\ \A k \in Pointers :
                  /\ node'[k].next = IF k = p THEN v ELSE node[k].next
                  /\ node'[k].freed = node[k].freed /\ node'[k].age = node[k].age
                  /\ node'[k].rid = node[k].rid /\ node'[k].net = node[k].net
  <2> DEFINE e == [node[p] EXCEPT !.next = v]
  <2>1. /\ e \in Node /\ e.next = v /\ e.freed = node[p].freed
        /\ e.rid = node[p].rid /\ e.net = node[p].net /\ e.age = node[p].age
    BY <1>1 DEF Node
  <2>2. node' = [node EXCEPT ![p] = e]
    BY <1>3
  <2> HIDE DEF e
  <2>3. /\ node' \in Seq(Node) /\ node' # <<>> /\ Pointers' = Pointers
        /\ \A k \in Pointers : node'[k] = IF k = p THEN e ELSE node[k]
    BY <2>1, <2>2, Changed
  <2> QED BY <2>1, <2>3
<1>4. ASSUME node' = [node EXCEPT ![p].freed = TRUE]
      PROVE  /\ node' \in Seq(Node) /\ node' # <<>> /\ Pointers' = Pointers
             /\ \A k \in Pointers :
                  /\ node'[k].next = node[k].next /\ node'[k].age = node[k].age
                  /\ node'[k].freed = IF k = p THEN TRUE ELSE node[k].freed
                  /\ node'[k].rid = node[k].rid /\ node'[k].net = node[k].net
  <2> DEFINE e == [node[p] EXCEPT !.freed = TRUE]
  <2>1. /\ e \in Node /\ e.next = node[p].next /\ e.freed = TRUE
        /\ e.rid = node[p].rid /\ e.net = node[p].net /\ e.age = node[p].age
    BY <1>1 DEF Node
  <2>2. node' = [node EXCEPT ![p] = e]
    BY <1>4
  <2> HIDE DEF e
  <2>3. /\ node' \in Seq(Node) /\ node' # <<>> /\ Pointers' = Pointers
        /\ \A k \in Pointers : node'[k] = IF k = p THEN e ELSE node[k]
    BY <2>1, <2>2, Changed
  <2> QED BY <2>1, <2>3
<1> QED BY <1>2, <1>3, <1>4

\* Calls, and what may have become of them.
Calls == [at : {"idle", "next", "test", "decide", "renew", "rest", "add", "link",
                "head"},
          walk : {"none", "check", "print", "refresh", "last"},
          rid : Routers \union {NoRouter}, nets : Seq(Nets),
          ptr : {Null} \union Pointers, found : {Null} \union Pointers]
Passes == [at : {"asleep", "look", "old", "temp", "test", "load", "link",
                 "free", "age", "raise", "store", "advance", "print"},
           ptr : {Null} \union Pointers, nx : {Null} \union Pointers,
           to : {Null} \union Pointers, val : 0..Timeout, deleted : BOOLEAN]

LEMMA Types ==
  TypeOK <=> /\ node \in Seq(Node) /\ node # <<>>
             /\ thread \in [Threads -> Calls] /\ age \in Passes
             /\ fault \in BOOLEAN /\ overlap \in BOOLEAN /\ watched \in BOOLEAN
             /\ held \subseteq Pointers
BY DEF TypeOK, Calls, Passes
LEMMA TypesNext ==
  ASSUME node' \in Seq(Node), node' # <<>>, thread' \in [Threads -> Calls'],
         age' \in Passes', fault' \in BOOLEAN, overlap' \in BOOLEAN,
         watched' \in BOOLEAN, held' \subseteq Pointers'
  PROVE  TypeOK'
BY DEF TypeOK, Calls, Passes

LEMMA Ready ==
  /\ NoCall \in Calls /\ Asleep \in Passes /\ Asleep.at = "asleep"
  /\ Timeout \in Nat \ {0} /\ 0 \in 0..Timeout
<1>1. Timeout \in Nat \ {0}
  BY BoundAssumption
<1>2. 0 \in 0..Timeout
  BY <1>1
<1>3. <<>> \in Seq(Nets)
  OBVIOUS
<1> QED BY <1>1, <1>2, <1>3 DEF NoCall, Calls, Asleep, Passes

LEMMA ListInit == Init => ListInv
<1> SUFFICES ASSUME Init PROVE ListInv
  OBVIOUS
<1> DEFINE e == NewNode(NoRouter, NoNet, Null)
<1>1. e \in Node /\ e.next = Null /\ e.freed = FALSE
  BY Ready DEF NewNode, Node, Null
<1>2. node = <<e>>
  BY DEF Init
<1> HIDE DEF e
<1>3. /\ node \in Seq(Node) /\ node # <<>> /\ DOMAIN node = {1} /\ node[1] = e
  BY <1>1, <1>2
<1>4. TypeOK
  BY <1>3, Ready, Types DEF Init
<1>5. ListDescends
  BY <1>1, <1>3 DEF ListDescends, Pointers, First, Null
<1>6. CallsOK /\ FreshOK
  BY DEF Init, CallsOK, CallOK, OnEntry, FreshOK, Fresh, NoCall
<1>7. AgeOK
  BY DEF Init, AgeOK, Asleep
<1> QED BY <1>4, <1>5, <1>6, <1>7 DEF ListInv

-----------------------------------------------------------------------------
(* Types and the list: the steps of an LSU thread.                         *)

\* A walk that begins.
LEMMA Begins ==
  ASSUME TypeOK, NEW c \in Calls, NEW w \in {"check", "refresh", "last"},
         w # "last" => c.nets # <<>>
  PROVE  /\ Walk(c, w) \in Calls /\ CallOK(Walk(c, w))
         /\ Walk(c, w).at = "next" /\ Walk(c, w).walk = w
         /\ Walk(c, w).ptr = First /\ Walk(c, w).nets = c.nets
         /\ Walk(c, w).rid = c.rid
<1>1. First \in Pointers
  BY Nodes
<1> DEFINE d == Walk(c, w)
<1>2. /\ d \in Calls /\ d.at = "next" /\ d.walk = w /\ d.ptr = First
      /\ d.nets = c.nets /\ d.rid = c.rid
  BY <1>1 DEF Walk, Calls
<1> HIDE DEF d
<1>3. CallOK(d)
  BY <1>1, <1>2 DEF CallOK, OnEntry
<1> QED BY <1>2, <1>3 DEF d

LEMMA GoesOnLsa ==
  ASSUME TypeOK, NEW c \in Calls, c.nets # <<>>
  PROVE  /\ NextLsa(c) \in Calls /\ CallOK(NextLsa(c))
         /\ NextLsa(c).at = "next" /\ NextLsa(c).walk \in {"refresh", "last"}
         /\ NextLsa(c).ptr = First
<1>1. /\ c.nets \in Seq(Nets) /\ Tail(c.nets) \in Seq(Nets)
      /\ <<>> \in Seq(Nets)
  BY HeadTailProperties DEF Calls
<1>2. \A s \in Seq(Nets) : /\ [c EXCEPT !.nets = s] \in Calls
                           /\ [c EXCEPT !.nets = s].nets = s
  BY DEF Calls
<1>3. CASE Tail(c.nets) = <<>>
  <2> DEFINE d == [c EXCEPT !.nets = <<>>]
  <2>1. d \in Calls
    BY <1>1, <1>2
  <2>2. NextLsa(c) = Walk(d, "last")
    BY <1>3 DEF NextLsa
  <2> HIDE DEF d
  <2> QED BY <2>1, <2>2, Begins
<1>4. CASE Tail(c.nets) # <<>>
  <2> DEFINE d == [c EXCEPT !.nets = Tail(c.nets)]
  <2>1. d \in Calls /\ d.nets # <<>>
    BY <1>1, <1>2, <1>4
  <2>2. NextLsa(c) = Walk(d, "refresh")
    BY <1>4 DEF NextLsa
  <2> HIDE DEF d
  <2> QED BY <2>1, <2>2, Begins
<1> QED BY <1>3, <1>4

LEMMA Went ==
  ASSUME TypeOK, NEW t \in Threads, NEW c, Goes(t, c)
  PROVE  /\ thread'[t] = c
         /\ \A u \in Threads : u # t => thread'[u] = thread[u]
         /\ c \in Calls' /\ Calls \subseteq Calls' => thread' \in [Threads -> Calls']
BY Types DEF Goes

\* Where a thread may go: on the list, or where it is.
Reached(t) == {Null, First, thread[t].ptr} \union {node[p].next : p \in Pointers}
LEMMA CallMoves ==
  ASSUME ListInv, NEW t \in Threads, NEW c \in Calls, CallOK(c), c.at # "head",
         c.ptr \in Reached(t), Goes(t, c), UNCHANGED <<node, age, fault, history>>
  PROVE  ListInv'
<1>1. TypeOK /\ Pointers' = Pointers /\ Calls' = Calls /\ Passes' = Passes
  BY DEF ListInv, Pointers, Calls, Passes
<1>2. /\ thread'[t] = c /\ thread' \in [Threads -> Calls']
      /\ \A u \in Threads : u # t => thread'[u] = thread[u]
  BY <1>1, Went
<1>3. TypeOK'
  BY <1>1, <1>2, Types, TypesNext DEF history
<1>4. CallsOK'
  BY <1>1, <1>2 DEF ListInv, CallsOK, CallOK
<1>5. FreshOK'
  <2> SUFFICES ASSUME NEW u \in Threads, thread'[u].at = "head"
               PROVE  Fresh(u)'
    BY DEF FreshOK, Fresh
  <2>1. u # t /\ thread'[u] = thread[u] /\ Fresh(u) /\ thread[u].at = "head"
    BY <1>2 DEF ListInv, FreshOK
  <2>2. c.ptr # thread[u].ptr
    <3>1. thread[u].ptr # Null
      BY <1>1, <2>1, Nodes DEF Fresh, Null
    <3> QED BY <2>1, <3>1 DEF Fresh, Reached
  <2> QED BY <1>1, <1>2, <2>1, <2>2 DEF Fresh, Live, history
<1>6. ListDescends' /\ AgeOK'
  BY <1>1 DEF ListInv, ListDescends, AgeOK, Behind
<1> QED BY <1>3, <1>4, <1>5, <1>6 DEF ListInv

LEMMA ArriveKeepsList ==
  ASSUME ListInv, NEW t \in Threads, NEW l \in Lsus, Arrive(t, l)
  PROVE  ListInv'
<1> DEFINE c == [NoCall EXCEPT !.rid = l.rid, !.nets = l.nets]
<1>1. l.rid \in Routers /\ l.nets \in Seq(Nets) /\ l.nets # <<>>
  BY LsuAssumption
<1>2. c \in Calls /\ c.nets # <<>>
  BY <1>1, Ready DEF NoCall, Calls
<1>3. Goes(t, Walk(c, "check")) /\ UNCHANGED <<node, age, fault, history>>
  BY DEF Arrive
<1> HIDE DEF c
<1>4. TypeOK
  BY DEF ListInv
<1>5. /\ Walk(c, "check") \in Calls /\ CallOK(Walk(c, "check"))
      /\ Walk(c, "check").at = "next" /\ Walk(c, "check").ptr = First
  BY <1>2, <1>4, Begins
<1> QED BY <1>3, <1>5, CallMoves DEF Reached

LEMMA QuietStepKeepsList ==
  ASSUME ListInv, NEW t \in Threads,
         \/ Follow(t) \/ EndWalk(t) \/ CheckTest(t) \/ Decide(t) \/ RefreshTest(t)
         \/ RenewRest(t) \/ AddTest(t)
  PROVE  ListInv'
<1> DEFINE c == thread[t]
<1>1. TypeOK /\ c \in Calls /\ CallOK(c)
  BY Types DEF ListInv, CallsOK
<1>2. UNCHANGED <<node, age, fault, history>>
  BY DEF Follow, EndWalk, CheckTest, Decide, RefreshTest, RenewRest, AddTest
<1>3. {Null, First, c.ptr} \subseteq Reached(t)
  BY DEF Reached
<1> SUFFICES \E d \in Calls : /\ CallOK(d) /\ d.at # "head" /\ d.ptr \in Reached(t)
                              /\ Goes(t, d)
  BY <1>2, CallMoves
<1>4. CASE Follow(t)
  <2>1. c.at = "next" /\ c.ptr \in Pointers /\ Onward(c.ptr) # Null
    BY <1>1, <1>4 DEF Follow, Thread, CallOK, OnEntry
  <2>2. Onward(c.ptr) \in Pointers /\ Onward(c.ptr) \in Reached(t)
    BY <2>1 DEF ListInv, ListDescends, Onward, NextOf, Reached
  <2> DEFINE d == [c EXCEPT !.ptr = Onward(c.ptr),
                            !.at = IF c.walk \in {"check", "refresh"} THEN "test"
                                   ELSE "next"]
  <2>3. Goes(t, d)
    BY <1>4 DEF Follow
  <2>4. /\ d \in Calls /\ d.ptr = Onward(c.ptr) /\ d.walk = c.walk
        /\ d.at = IF c.walk \in {"check", "refresh"} THEN "test" ELSE "next"
        /\ d.found = c.found /\ d.nets = c.nets
    BY <1>1, <2>2 DEF Calls
  <2> HIDE DEF d
  <2>5. CallOK(d)
    BY <1>1, <2>2, <2>4 DEF CallOK, OnEntry
  <2> QED BY <2>2, <2>3, <2>4, <2>5
<1>5. CASE EndWalk(t)
  <2>1. c.at = "next"
    BY <1>5 DEF EndWalk, Thread
  <2>2. CASE c.walk = "check" /\ Goes(t, Walk(c, "refresh"))
    <3>1. c.nets # <<>>
      BY <1>1, <2>2 DEF CallOK
    <3> QED BY <1>1, <1>3, <2>2, <3>1, Begins
  <2>3. CASE c.walk = "print" /\ Goes(t, [c EXCEPT !.at = "decide", !.ptr = Null])
    <3> DEFINE d == [c EXCEPT !.at = "decide", !.ptr = Null]
    <3>1. /\ d \in Calls /\ d.at = "decide" /\ d.walk = "print" /\ d.ptr = Null
          /\ d.found = c.found /\ d.nets = c.nets
      BY <1>1, <2>3 DEF Calls
    <3> HIDE DEF d
    <3>2. CallOK(d)
      BY <1>1, <2>3, <3>1 DEF CallOK, OnEntry
    <3> QED BY <1>3, <2>3, <3>1, <3>2 DEF d
  <2>4. CASE c.walk = "refresh" /\ Goes(t, [c EXCEPT !.at = "add", !.ptr = Null])
    <3> DEFINE d == [c EXCEPT !.at = "add", !.ptr = Null]
    <3>1. /\ d \in Calls /\ d.at = "add" /\ d.walk = "refresh" /\ d.ptr = Null
          /\ d.nets = c.nets
      BY <1>1, <2>4 DEF Calls
    <3> HIDE DEF d
    <3>2. CallOK(d)
      BY <1>1, <2>4, <3>1 DEF CallOK, OnEntry
    <3> QED BY <1>3, <2>4, <3>1, <3>2 DEF d
  <2>5. CASE c.walk = "last" /\ Goes(t, NoCall)
    <3>1. CallOK(NoCall) /\ NoCall.at # "head" /\ NoCall.ptr = Null
      BY DEF CallOK, NoCall, OnEntry
    <3> QED BY <1>3, <2>5, <3>1, Ready
  <2> QED BY <1>5, <2>2, <2>3, <2>4, <2>5 DEF EndWalk
<1>6. CASE CheckTest(t)
  <2>1. c.at = "test" /\ c.walk = "check" /\ c.ptr \in Pointers /\ c.nets # <<>>
    BY <1>1, <1>6 DEF CheckTest, Thread, CallOK, OnEntry
  <2>2. CASE node[c.ptr].rid = c.rid
    <3> DEFINE d == [Walk(c, "print") EXCEPT !.found = c.ptr]
    <3>1. Goes(t, d)
      BY <1>6, <2>2 DEF CheckTest
    <3>2. First \in Pointers
      BY <1>1, Nodes
    <3>3. /\ d \in Calls /\ d.at = "next" /\ d.walk = "print" /\ d.ptr = First
          /\ d.found = c.ptr /\ d.nets = c.nets
      BY <1>1, <2>1, <3>2 DEF Walk, Calls
    <3> HIDE DEF d
    <3>4. CallOK(d)
      BY <2>1, <3>2, <3>3 DEF CallOK, OnEntry
    <3> QED BY <1>3, <3>1, <3>3, <3>4
  <2>3. CASE node[c.ptr].rid # c.rid
    <3> DEFINE d == [c EXCEPT !.at = "next"]
    <3>1. Goes(t, d)
      BY <1>6, <2>3 DEF CheckTest
    <3>2. /\ d \in Calls /\ d.at = "next" /\ d.walk = c.walk /\ d.ptr = c.ptr
          /\ d.found = c.found /\ d.nets = c.nets
      BY <1>1 DEF Calls
    <3> HIDE DEF d
    <3>3. CallOK(d)
      BY <1>1, <2>1, <3>2 DEF CallOK, OnEntry
    <3> QED BY <1>3, <3>1, <3>2, <3>3
  <2> QED BY <2>2, <2>3
<1>7. CASE Decide(t)
  <2>1. CASE Goes(t, NoCall)
    <3>1. CallOK(NoCall) /\ NoCall.at # "head" /\ NoCall.ptr = Null
      BY DEF CallOK, NoCall, OnEntry
    <3> QED BY <1>3, <2>1, <3>1, Ready
  <2>2. CASE Goes(t, Walk(c, "refresh"))
    <3>1. c.nets # <<>>
      BY <1>1, <1>7 DEF Decide, Thread, CallOK
    <3> QED BY <1>1, <1>3, <2>2, <3>1, Begins
  <2> QED BY <1>7, <2>1, <2>2 DEF Decide
<1>8. CASE RefreshTest(t) \/ RenewRest(t)
  <2>1. /\ c.walk = "refresh" /\ c.nets # <<>> /\ c.at \in OnEntry
        /\ c.ptr \in Pointers
    BY <1>1, <1>8 DEF RefreshTest, RenewRest, Thread, CallOK, OnEntry
  <2>2. CASE Goes(t, NextLsa(c))
    BY <1>1, <1>3, <2>1, <2>2, GoesOnLsa
  <2>3. ASSUME NEW a \in {"renew", "next"}, Goes(t, [c EXCEPT !.at = a])
        PROVE  \E d \in Calls : /\ CallOK(d) /\ d.at # "head"
                                /\ d.ptr \in Reached(t) /\ Goes(t, d)
    <3> DEFINE d == [c EXCEPT !.at = a]
    <3>1. /\ d \in Calls /\ d.at = a /\ d.walk = c.walk /\ d.ptr = c.ptr
          /\ d.found = c.found /\ d.nets = c.nets
      BY <1>1 DEF Calls
    <3> HIDE DEF d
    <3>2. CallOK(d)
      BY <1>1, <2>1, <3>1 DEF CallOK, OnEntry
    <3> QED BY <1>3, <2>3, <3>1, <3>2 DEF d
  <2> QED BY <1>8, <2>2, <2>3 DEF RefreshTest, RenewRest
<1>9. CASE AddTest(t)
  <2> DEFINE d == [c EXCEPT !.at = "link"]
  <2>1. c.at = "add" /\ Goes(t, d)
    BY <1>9 DEF AddTest, Thread
  <2>2. /\ d \in Calls /\ d.at = "link" /\ d.walk = c.walk /\ d.ptr = c.ptr
        /\ d.found = c.found /\ d.nets = c.nets
    BY <1>1 DEF Calls
  <2>3. CallOK(d)
    BY <1>1, <2>1, <2>2 DEF CallOK, OnEntry
  <2> QED BY <1>3, <2>1, <2>2, <2>3
<1> QED BY <1>4, <1>5, <1>6, <1>7, <1>8, <1>9

\* The age of an entry is written.
LEMMA AgeWritten ==
  ASSUME TypeOK, ListDescends, NEW p \in Pointers, NEW v \in 0..Timeout,
         node' = [node EXCEPT ![p].age = v]
  PROVE  /\ node' \in Seq(Node) /\ node' # <<>> /\ Pointers' = Pointers
         /\ Calls' = Calls /\ Passes' = Passes /\ ListDescends'
         /\ \A k \in Pointers :
              /\ NextOf(k)' = NextOf(k) /\ Live(k)' = Live(k)
              /\ node'[k].rid = node[k].rid /\ node'[k].net = node[k].net
              /\ node'[k].age = IF k = p THEN v ELSE node[k].age
<1>1. /\ node' \in Seq(Node) /\ node' # <<>> /\ Pointers' = Pointers
      /\ \A k \in Pointers :
           /\ node'[k].next = node[k].next /\ node'[k].freed = node[k].freed
           /\ node'[k].rid = node[k].rid /\ node'[k].net = node[k].net
           /\ node'[k].age = IF k = p THEN v ELSE node[k].age
  BY Fields
<1>2. ListDescends'
  BY <1>1 DEF ListDescends
<1> QED BY <1>1, <1>2 DEF Calls, Passes, NextOf, Live

LEMMA RenewKeepsList ==
  ASSUME ListInv, NEW t \in Threads, RenewAge(t)
  PROVE  ListInv'
<1> DEFINE c == thread[t]
           d == [c EXCEPT !.at = "rest"]
<1>1. /\ TypeOK /\ c \in Calls /\ CallOK(c) /\ c.at = "renew" /\ Goes(t, d)
      /\ node' = [node EXCEPT ![c.ptr].age = 0] /\ UNCHANGED <<age, fault, history>>
  BY Types DEF ListInv, CallsOK, RenewAge, Thread
<1>2. c.ptr \in Pointers /\ c.walk = "refresh" /\ c.nets # <<>>
  BY <1>1 DEF CallOK, OnEntry
<1>3. /\ node' \in Seq(Node) /\ node' # <<>> /\ Pointers' = Pointers
      /\ Calls' = Calls /\ Passes' = Passes /\ ListDescends'
      /\ \A k \in Pointers :
           /\ NextOf(k)' = NextOf(k) /\ Live(k)' = Live(k)
           /\ node'[k].rid = node[k].rid /\ node'[k].net = node[k].net
           /\ node'[k].age = IF k = c.ptr THEN 0 ELSE node[k].age
  BY <1>1, <1>2, AgeWritten, Ready DEF ListInv
<1>4. /\ d \in Calls /\ d.at = "rest" /\ d.walk = c.walk /\ d.ptr = c.ptr
      /\ d.found = c.found /\ d.nets = c.nets
  BY <1>1 DEF Calls
<1> HIDE DEF d
<1>5. /\ thread'[t] = d /\ thread' \in [Threads -> Calls']
      /\ \A u \in Threads : u # t => thread'[u] = thread[u]
  BY <1>1, <1>3, <1>4, Went
<1>6. TypeOK'
  BY <1>1, <1>3, <1>5, Types, TypesNext DEF history
<1>7. CallsOK'
  <2>1. CallOK(d)
    BY <1>2, <1>4 DEF CallOK, OnEntry
  <2> QED BY <1>3, <1>5, <2>1 DEF ListInv, CallsOK, CallOK
<1>8. FreshOK'
  <2> SUFFICES ASSUME NEW u \in Threads, thread'[u].at = "head"
               PROVE  Fresh(u)'
    BY DEF FreshOK, Fresh
  <2>1. u # t /\ thread'[u] = thread[u] /\ Fresh(u) /\ thread[u].at = "head"
    BY <1>4, <1>5 DEF ListInv, FreshOK
  <2> QED BY <1>1, <1>3, <1>4, <1>5, <2>1 DEF Fresh, history, NextOf
<1>9. AgeOK'
  <2>1. \/ Behind \in Pointers \union {Null} /\ Behind' = Behind
        \/ age.at = "asleep"
    BY <1>1, <1>3 DEF ListInv, AgeOK, ListDescends, Behind, NextOf
  <2>2. 0 < Timeout
    BY Ready
  <2>3. \A k \in Pointers : node[k].age < Timeout => node'[k].age < Timeout
    BY <1>3, <2>2
  <2> QED BY <1>1, <1>3, <2>1, <2>3 DEF ListInv, AgeOK
<1> QED BY <1>3, <1>6, <1>7, <1>8, <1>9 DEF ListInv

\* add_topology_entry: the new entry leads to the head or to none.
LEMMA Makes ==
  ASSUME ListInv, NEW t \in Threads, AddAlone(t) \/ LinkNext(t), NEW n,
         n = Len(node) + 1
  PROVE  /\ thread[t].at \in {"add", "link"} /\ thread[t].walk = "refresh"
         /\ thread'[t] \in Calls' /\ CallOK(thread[t])'
         /\ thread'[t].at = "head" /\ thread'[t].ptr = n
         /\ thread'[t].walk = "refresh" /\ thread'[t].nets = thread[t].nets
         /\ thread'[t].rid = thread[t].rid
         /\ thread' \in [Threads -> Calls']
         /\ \A u \in Threads : u # t => thread'[u] = thread[u]
         /\ node' \in Seq(Node) /\ node' # <<>>
         /\ n \notin Pointers \union {Null, First}
         /\ Pointers' = Pointers \union {n}
         /\ \A p \in Pointers : node'[p] = node[p] /\ p < n
         /\ Passes \subseteq Passes'
         /\ Head1 \in (Pointers \union {Null}) \ {First}
         /\ node'[n].next = Head1 /\ node'[n].age = 0 /\ node'[n].freed = FALSE
         /\ node'[n].rid = thread[t].rid /\ node'[n].net = Head(thread[t].nets)
         /\ UNCHANGED <<age, fault, history>>
<1> DEFINE c == thread[t]
           d == [c EXCEPT !.at = "head", !.ptr = n]
           e == Made(t, Head1)
<1>1. TypeOK /\ c \in Calls /\ CallOK(c) /\ c.at \in {"add", "link"}
  BY Types DEF ListInv, CallsOK, AddAlone, LinkNext, Thread
<1>2. c.walk = "refresh" /\ c.nets # <<>> /\ c.nets \in Seq(Nets)
  BY <1>1 DEF CallOK, Calls
<1>3. Head1 \in (Pointers \union {Null}) \ {First}
  BY <1>1, Nodes DEF ListInv, ListDescends, Head1, NextOf
<1>4. /\ node' = Append(node, e) /\ Goes(t, d) /\ UNCHANGED <<age, fault, history>>
  BY DEF AddAlone, LinkNext, OldHead
<1>5. /\ e \in Node /\ e.next = Head1 /\ e.age = 0 /\ e.freed = FALSE
      /\ e.rid = c.rid /\ e.net = Head(c.nets)
  <2>1. Head(c.nets) \in Nets
    BY <1>2, HeadTailProperties
  <2>2. Head1 \in Nat
    BY <1>1, <1>3, Nodes DEF Null
  <2>3. c.rid \in Routers \union {NoRouter}
    BY <1>1 DEF Calls
  <2> QED BY <2>1, <2>2, <2>3, Ready DEF Made, NewNode, Node
<1> HIDE DEF e
<1>6. /\ node' \in Seq(Node) /\ node' # <<>> /\ n \notin Pointers \union {Null, First}
      /\ Pointers' = Pointers \union {n}
      /\ \A p \in Pointers : node'[p] = node[p] /\ p < n
      /\ node'[n] = e
  BY <1>1, <1>4, <1>5, Added
<1>7. Calls \subseteq Calls' /\ Passes \subseteq Passes'
  BY <1>6 DEF Calls, Passes
<1>8. /\ d \in Calls' /\ d.at = "head" /\ d.walk = c.walk /\ d.ptr = n
      /\ d.found = c.found /\ d.nets = c.nets /\ d.rid = c.rid
  BY <1>1, <1>6 DEF Calls
<1> HIDE DEF d
<1>9. /\ thread'[t] = d /\ thread' \in [Threads -> Calls']
      /\ \A u \in Threads : u # t => thread'[u] = thread[u]
  BY <1>1, <1>4, <1>7, <1>8, Went
<1>10. CallOK(thread[t])'
  BY <1>2, <1>8, <1>9 DEF CallOK, OnEntry
<1> QED BY <1>1, <1>2, <1>3, <1>4, <1>5, <1>6, <1>7, <1>8, <1>9, <1>10

LEMMA MakeKeepsList ==
  ASSUME ListInv, NEW t \in Threads, AddAlone(t) \/ LinkNext(t)
  PROVE  ListInv'
<1> DEFINE n == Len(node) + 1
<1> HIDE DEF n
<1>1. TypeOK
  BY DEF ListInv
<1>2. /\ thread[t].at \in {"add", "link"} /\ thread[t].walk = "refresh"
      /\ thread'[t] \in Calls' /\ CallOK(thread[t])'
      /\ thread'[t].at = "head" /\ thread'[t].ptr = n
      /\ thread'[t].walk = "refresh" /\ thread'[t].nets = thread[t].nets
      /\ thread'[t].rid = thread[t].rid
      /\ thread' \in [Threads -> Calls']
      /\ \A u \in Threads : u # t => thread'[u] = thread[u]
      /\ node' \in Seq(Node) /\ node' # <<>>
      /\ n \notin Pointers \union {Null, First}
      /\ Pointers' = Pointers \union {n}
      /\ \A p \in Pointers : node'[p] = node[p] /\ p < n
      /\ Passes \subseteq Passes'
      /\ Head1 \in (Pointers \union {Null}) \ {First}
      /\ node'[n].next = Head1 /\ node'[n].age = 0 /\ node'[n].freed = FALSE
      /\ node'[n].rid = thread[t].rid /\ node'[n].net = Head(thread[t].nets)
      /\ UNCHANGED <<age, fault, history>>
  BY Makes DEF n
<1>3. TypeOK'
  BY <1>1, <1>2, Types, TypesNext DEF history
<1>4. CallsOK'
  BY <1>2 DEF ListInv, CallsOK, CallOK
<1>5. ListDescends'
  <2> SUFFICES ASSUME NEW p \in Pointers'
               PROVE  /\ node'[p].next \in Pointers' \union {Null}
                      /\ node'[p].next # First
                      /\ p # First => node'[p].next < p \/ node'[p].next = Null
    BY DEF ListDescends
  <2>1. CASE p = n
    BY <1>2, <2>1
  <2>2. CASE p # n
    BY <1>2, <2>2 DEF ListInv, ListDescends
  <2> QED BY <2>1, <2>2
<1>6. FreshOK'
  <2> SUFFICES ASSUME NEW u \in Threads, thread'[u].at = "head"
               PROVE  Fresh(u)'
    BY DEF FreshOK, Fresh
  <2>1. age \in Passes /\ held \subseteq Pointers /\ age' = age /\ held' = held
    BY <1>1, <1>2, Types DEF history
  <2>2. \A v \in Threads : thread[v].ptr \in Pointers \union {Null}
    BY <1>1, Types DEF Calls
  <2>3. CASE u = t
    <3>1. \A p \in Pointers' : node'[p].next # n
      <4>1. n \notin Pointers \union {Null}
        BY <1>2
      <4>2. \A p \in Pointers : node[p].next # n
        BY <4>1 DEF ListInv, ListDescends
      <4> QED BY <1>2, <4>1, <4>2
    <3>2. n \notin {age.ptr, age.nx, age.to} \union held
      BY <1>2, <2>1 DEF Passes
    <3>3. \A v \in Threads \ {t} : thread'[v].ptr # n
      BY <1>2, <2>2
    <3> QED BY <1>2, <2>1, <2>3, <3>1, <3>2, <3>3 DEF Fresh, Live
  <2>4. CASE u # t
    <3>1. thread'[u] = thread[u] /\ Fresh(u) /\ thread[u].at = "head"
      BY <1>2, <2>4 DEF ListInv, FreshOK
    <3>2. thread[u].ptr \in Pointers \ {First} /\ thread[u].ptr # n
      BY <1>2, <3>1 DEF Fresh
    <3>3. Head1 # thread[u].ptr
      BY <1>1, <3>1, Nodes DEF Fresh, Head1, NextOf
    <3> QED BY <1>2, <2>1, <3>1, <3>2, <3>3 DEF Fresh, Live
  <2> QED BY <2>3, <2>4
<1>7. AgeOK'
  <2>1. CASE age.at = "asleep"
    BY <1>2, <2>1 DEF AgeOK
  <2>2. CASE age.at # "asleep"
    <3>1. age.ptr \in Pointers /\ Behind' = Behind /\ Behind \in Pointers \union {Null}
      BY <1>2, <2>2 DEF ListInv, AgeOK, ListDescends, Behind
    <3> QED BY <1>2, <3>1 DEF ListInv, AgeOK
  <2> QED BY <2>1, <2>2
<1> QED BY <1>2, <1>3, <1>4, <1>5, <1>6, <1>7 DEF ListInv

\* first->next is written.
LEMMA Links ==
  ASSUME ListInv, NEW t \in Threads, LinkHead(t)
  PROVE  /\ thread[t].at = "head" /\ thread[t].walk = "refresh"
         /\ thread[t] \in Calls /\ thread[t].nets # <<>>
         /\ thread'[t] = NextLsa(thread[t])
         /\ \A u \in Threads : u # t => thread'[u] = thread[u]
         /\ Fresh(t) /\ thread[t].ptr \in Pointers \ {First}
         /\ First \in Pointers
         /\ node' \in Seq(Node) /\ node' # <<>> /\ Pointers' = Pointers
         /\ \A k \in Pointers :
              /\ node'[k].next = IF k = First THEN thread[t].ptr ELSE node[k].next
              /\ node'[k].freed = node[k].freed /\ node'[k].age = node[k].age
              /\ node'[k].rid = node[k].rid /\ node'[k].net = node[k].net
         /\ held' = held \union {thread[t].ptr}
         /\ UNCHANGED <<age, fault, watched>>
<1> DEFINE c == thread[t]
<1>1. /\ TypeOK /\ c \in Calls /\ CallOK(c) /\ c.at = "head" /\ Goes(t, NextLsa(c))
      /\ Fresh(t) /\ node' = [node EXCEPT ![First].next = c.ptr]
      /\ UNCHANGED <<age, fault, watched>> /\ held' = held \union {c.ptr}
  BY Types DEF ListInv, CallsOK, FreshOK, LinkHead, Thread
<1>2. c.walk = "refresh" /\ c.nets # <<>>
  BY <1>1 DEF CallOK
<1>3. c.ptr \in Pointers \ {First} /\ c.ptr \in Nat /\ First \in Pointers
  BY <1>1, Nodes DEF Fresh
<1>4. /\ node' \in Seq(Node) /\ node' # <<>> /\ Pointers' = Pointers
      /\ \A k \in Pointers :
           /\ node'[k].next = IF k = First THEN c.ptr ELSE node[k].next
           /\ node'[k].freed = node[k].freed /\ node'[k].age = node[k].age
           /\ node'[k].rid = node[k].rid /\ node'[k].net = node[k].net
  BY <1>1, <1>3, Fields
<1>5. thread'[t] = NextLsa(c) /\ \A u \in Threads : u # t => thread'[u] = thread[u]
  BY <1>1, Went
<1> QED BY <1>1, <1>2, <1>3, <1>4, <1>5

LEMMA LinkHeadKeepsList ==
  ASSUME ListInv, NEW t \in Threads, LinkHead(t)
  PROVE  ListInv'
<1> DEFINE c == thread[t]
           d == NextLsa(c)
<1>1. /\ TypeOK /\ c \in Calls /\ c.at = "head" /\ c.nets # <<>> /\ Fresh(t)
      /\ UNCHANGED <<age, fault, watched>> /\ thread'[t] = d
      /\ \A u \in Threads : u # t => thread'[u] = thread[u]
  BY Links DEF ListInv
<1>3. c.ptr \in Pointers \ {First} /\ First \in Pointers /\ node[c.ptr].age = 0
  BY <1>1, Links DEF Fresh
<1>4. /\ node' \in Seq(Node) /\ node' # <<>> /\ Pointers' = Pointers
      /\ \A k \in Pointers :
           /\ node'[k].next = IF k = First THEN c.ptr ELSE node[k].next
           /\ node'[k].freed = node[k].freed /\ node'[k].age = node[k].age
           /\ node'[k].rid = node[k].rid /\ node'[k].net = node[k].net
  BY Links
<1>5. Calls' = Calls /\ Passes' = Passes
  BY <1>4 DEF Calls, Passes
<1>6. d \in Calls /\ CallOK(d) /\ d.at = "next" /\ d.ptr = First
  BY <1>1, GoesOnLsa
<1> HIDE DEF d
<1>7. /\ thread'[t] = d /\ thread' \in [Threads -> Calls']
      /\ \A u \in Threads : u # t => thread'[u] = thread[u]
  <2>1. Goes(t, d)
    BY DEF LinkHead, d
  <2> QED BY <1>1, <1>5, <1>6, <2>1, Went
<1>8. TypeOK'
  <2>1. /\ held' \subseteq Pointers /\ overlap' \in BOOLEAN
    BY <1>1, <1>3, Types DEF LinkHead, Crossing
  <2> QED BY <1>1, <1>4, <1>5, <1>7, <2>1, Types, TypesNext
<1>9. CallsOK'
  BY <1>4, <1>6, <1>7 DEF ListInv, CallsOK, CallOK
<1>10. ListDescends'
  BY <1>3, <1>4 DEF ListInv, ListDescends
<1>11. FreshOK'
  <2> SUFFICES ASSUME NEW u \in Threads, thread'[u].at = "head"
               PROVE  Fresh(u)'
    BY DEF FreshOK, Fresh
  <2>1. u # t /\ thread'[u] = thread[u] /\ Fresh(u) /\ thread[u].at = "head"
    BY <1>6, <1>7 DEF ListInv, FreshOK
  <2>2. thread[u].ptr # c.ptr /\ held' = held \union {c.ptr}
    BY <2>1 DEF Fresh, LinkHead
  <2> QED BY <1>1, <1>4, <1>6, <1>7, <2>1, <2>2 DEF Fresh, Live
<1>12. AgeOK'
  <2>1. CASE age.at = "asleep"
    BY <1>1, <2>1 DEF AgeOK
  <2>2. CASE age.at # "asleep" /\ age.ptr # First
    <3>1. age.ptr \in Pointers /\ Behind' = Behind /\ Behind \in Pointers \union {Null}
      BY <1>1, <1>4, <2>2 DEF ListInv, AgeOK, ListDescends, Behind
    <3> QED BY <1>1, <1>4, <3>1 DEF ListInv, AgeOK
  <2>3. CASE age.at # "asleep" /\ age.ptr = First
    <3>1. Behind' = c.ptr /\ c.ptr # Null
      BY <1>1, <1>3, <1>4, <2>3, Nodes DEF Behind, Null
    <3>2. node'[c.ptr].age < Timeout
      BY <1>3, <1>4, Ready
    <3> QED BY <1>1, <1>3, <1>4, <2>3, <3>1, <3>2 DEF ListInv, AgeOK
  <2> QED BY <2>1, <2>2, <2>3
<1> QED BY <1>8, <1>9, <1>10, <1>11, <1>12 DEF ListInv

-----------------------------------------------------------------------------
(* Types and the list: the steps of the ageing thread.                     *)

\* What it may hold: what is on the list, or what it has.
Old == {Null, First, age.ptr, age.nx, age.to} \union {node[p].next : p \in Pointers}
LEMMA AgeMoves ==
  ASSUME ListInv, UNCHANGED <<node, thread, fault, history>>, age' \in Passes, AgeOK',
         {age'.ptr, age'.nx, age'.to} \subseteq Old
  PROVE  ListInv'
<1>1. TypeOK /\ Pointers' = Pointers /\ Calls' = Calls /\ Passes' = Passes
  BY DEF ListInv, Pointers, Calls, Passes
<1>2. TypeOK'
  BY <1>1, Types, TypesNext DEF history
<1>3. FreshOK'
  <2> SUFFICES ASSUME NEW u \in Threads, thread[u].at = "head"
               PROVE  Fresh(u)'
    BY DEF FreshOK, Fresh
  <2>1. Fresh(u) /\ thread[u].ptr # Null
    BY <1>1, Nodes DEF ListInv, FreshOK, Fresh, Null
  <2>2. thread[u].ptr \notin Old
    BY <2>1 DEF Fresh, Old
  <2> QED BY <1>1, <2>1, <2>2 DEF Fresh, Live, history
<1>4. ListDescends' /\ CallsOK'
  BY <1>1 DEF ListInv, ListDescends, CallsOK, CallOK
<1> QED BY <1>2, <1>3, <1>4 DEF ListInv

LEMMA PassOverOK ==
  ASSUME TypeOK
  PROVE  /\ PassOver(age) \in Passes
         /\ PassOver(age).at \in {"asleep", "print"}
         /\ PassOver(age).ptr \in {Null, First}
         /\ PassOver(age).at = "print" => PassOver(age).ptr = First
         /\ {PassOver(age).nx, PassOver(age).to} \subseteq {Null, age.nx, age.to}
<1>1. age \in Passes /\ First \in Pointers
  BY Types, Nodes
<1>2. CASE age.deleted
  <2>1. PassOver(age) = [age EXCEPT !.at = "print", !.ptr = First]
    BY <1>2 DEF PassOver, Over
  <2> QED BY <1>1, <2>1 DEF Passes
<1>3. CASE ~age.deleted
  <2>1. PassOver(age) = Asleep
    BY <1>3 DEF PassOver
  <2> QED BY <2>1, Ready DEF Asleep
<1> QED BY <1>2, <1>3

LEMMA QuietAgeKeepsList ==
  ASSUME ListInv,
         \/ AgeWake \/ LookEnd \/ Look \/ LookAge \/ DeleteTemp \/ DeleteTest
         \/ DeleteLoad \/ AgePointer \/ AgeLoad \/ Advance \/ PrintOn
  PROVE  ListInv'
<1>1. /\ TypeOK /\ age \in Passes /\ First \in Pointers /\ Null \notin Pointers
      /\ UNCHANGED <<node, thread, fault, history>>
  BY Types, Nodes DEF ListInv, AgeWake, LookEnd, Look, LookAge, DeleteTemp,
     DeleteTest, DeleteLoad, AgePointer, AgeLoad, Advance, PrintOn, Null
<1>2. {Null, First, age.ptr, age.nx, age.to} \subseteq Old
  BY DEF Old
<1>3. Pointers' = Pointers
  BY <1>1 DEF Pointers
<1>4. CASE AgeWake
  <2>1. /\ age' = [Asleep EXCEPT !.at = "look", !.ptr = First]
    BY <1>4 DEF AgeWake
  <2>2. age' \in Passes /\ age'.at = "look" /\ age'.ptr = First
        /\ age'.nx = Null /\ age'.to = Null
    BY <1>1, <2>1, Ready DEF Asleep, Passes
  <2>3. AgeOK'
    BY <1>1, <1>3, <2>2 DEF AgeOK
  <2> QED BY <1>1, <1>2, <2>2, <2>3, AgeMoves
<1>5. ASSUME LookEnd \/ (Advance /\ Behind = Null)
      PROVE  ListInv'
  <2>1. age' = PassOver(age)
    BY <1>5 DEF LookEnd, Advance, Behind, NextOf
  <2>2. AgeOK'
    BY <1>1, <1>3, <2>1, PassOverOK DEF AgeOK
  <2> QED BY <1>1, <1>2, <2>1, <2>2, PassOverOK, AgeMoves
<1>6. CASE PrintOn /\ Behind = Null
  <2>1. age' = Asleep
    BY <1>6 DEF PrintOn, Behind, NextOf
  <2>2. AgeOK' /\ age'.ptr = Null /\ age'.nx = Null /\ age'.to = Null
    BY <1>1, <1>3, <2>1 DEF AgeOK, Asleep
  <2> QED BY <1>1, <1>2, <2>1, <2>2, Ready, AgeMoves
<1>7. ASSUME age.at \in {"look", "old", "temp", "test", "load", "age", "raise",
                         "advance", "print"},
             age.at = "raise" \/ Behind # Null
      PROVE  /\ age.ptr \in Pointers
             /\ age.at # "raise" =>
                  /\ Behind \in Pointers \ {First} /\ Behind \in Old
                  /\ node[Behind].next \in (Pointers \union {Null}) \ {First}
                  /\ node[Behind].next \in Old
                  /\ age.ptr # First =>
                       node[Behind].next < age.ptr \/ node[Behind].next = Null
  <2>1. age.ptr \in Pointers
    BY <1>7 DEF ListInv, AgeOK
  <2>2. ASSUME age.at # "raise"
        PROVE  Behind \in Pointers \ {First} /\ Behind \in Old
    BY <1>7, <2>1, <2>2 DEF ListInv, ListDescends, Behind, Old
  <2>3. ASSUME age.at # "raise"
        PROVE  /\ node[Behind].next \in (Pointers \union {Null}) \ {First}
               /\ node[Behind].next \in Old
    BY <2>2, <2>3 DEF ListInv, ListDescends, Old
  <2>4. ASSUME age.at # "raise", age.ptr # First
        PROVE  node[Behind].next < age.ptr \/ node[Behind].next = Null
    <3>1. Behind < age.ptr
      BY <1>1, <2>1, <2>2, <2>4 DEF ListInv, ListDescends, Behind
    <3>2. node[Behind].next < Behind \/ node[Behind].next = Null
      BY <2>2, <2>4 DEF ListInv, ListDescends
    <3>3. age.ptr \in Nat /\ Behind \in Nat /\ node[Behind].next \in Nat
      BY <1>1, <2>1, <2>2, <2>4, Nodes
    <3> QED BY <3>1, <3>2, <3>3
  <2> QED BY <2>1, <2>2, <2>3, <2>4
<1>8. CASE Look \/ LookAge \/ DeleteTemp \/ AgePointer
  <2>1. /\ age.at \in {"look", "old", "temp", "age"} /\ Behind # Null
        /\ age.ptr \in Pointers
        /\ Behind \in Pointers \ {First} /\ Behind \in Old
    <3>1. age.at \in {"look", "old", "temp", "age"} /\ Behind # Null
      BY <1>8 DEF Look, LookAge, DeleteTemp, AgePointer, Age, Behind, NextOf,
                  ListInv, AgeOK
    <3> QED BY <1>7, <3>1
  <2>2. PICK a \in {"old", "temp", "age", "test", "raise"},
             q \in {Behind, Null} :
          /\ age' = [age EXCEPT !.at = a, !.nx = q]
          /\ a \in {"old", "test", "raise"} => q = Behind
          /\ a = "age" => age.at = "old" /\ node[age.nx].age # Timeout
          /\ a = "raise" => age.at = "age"
    <3>1. CASE Look
      BY <3>1 DEF Look, Behind, NextOf
    <3>2. CASE LookAge
      BY <3>2 DEF LookAge, Age
    <3>3. CASE DeleteTemp
      BY <3>3 DEF DeleteTemp, Behind, NextOf
    <3>4. CASE AgePointer
      BY <3>4 DEF AgePointer, Age, Behind, NextOf
    <3> QED BY <1>8, <3>1, <3>2, <3>3, <3>4
  <2>3. /\ age' \in Passes /\ age'.at = a /\ age'.nx = q /\ age'.ptr = age.ptr
        /\ age'.to = age.to
    BY <1>1, <2>1, <2>2 DEF Passes
  <2>4. Behind' = Behind
    BY <1>1, <2>3 DEF Behind
  <2>5. a = "age" => node[Behind].age < Timeout
    <3> SUFFICES ASSUME a = "age" PROVE node[Behind].age < Timeout
      OBVIOUS
    <3>1. age.at = "old" /\ age.nx \in Pointers
      BY <2>2 DEF ListInv, AgeOK
    <3>2. node[age.nx].age \in 0..Timeout /\ node[age.nx].age # Timeout
      BY <1>1, <2>2, <3>1, Nodes
    <3>3. node[age.nx].age < Timeout
      BY <3>2, Ready
    <3> QED BY <3>1, <3>3 DEF ListInv, AgeOK
  <2>6. a = "raise" => node[Behind].age < Timeout
    BY <2>2 DEF ListInv, AgeOK
  <2>7. AgeOK'
    BY <1>1, <1>3, <2>1, <2>2, <2>3, <2>4, <2>5, <2>6 DEF AgeOK
  <2> QED BY <1>1, <1>2, <2>1, <2>2, <2>3, <2>7, AgeMoves
<1>9. CASE DeleteTest \/ DeleteLoad
  <2>1. /\ age.at \in {"test", "load"} /\ Behind # Null /\ age.nx \in Pointers \ {First}
    BY <1>9 DEF DeleteTest, DeleteLoad, Age, ListInv, AgeOK
  <2>2. PICK a \in {"load", "link"}, q \in {Null, node[Behind].next} :
          age' = [age EXCEPT !.at = a, !.to = q]
    BY <1>9 DEF DeleteTest, DeleteLoad, NextOf, Behind
  <2>3. /\ age' \in Passes /\ age'.at = a /\ age'.nx = age.nx /\ age'.ptr = age.ptr
        /\ age'.to = q
    BY <1>1, <1>7, <2>1, <2>2 DEF Passes
  <2>4. Behind' = Behind
    BY <1>1, <2>3 DEF Behind
  <2>5. AgeOK'
    BY <1>1, <1>3, <1>7, <2>1, <2>2, <2>3, <2>4 DEF AgeOK, First, Null
  <2> QED BY <1>1, <1>2, <1>7, <2>1, <2>2, <2>3, <2>5, AgeMoves
<1>10. CASE AgeLoad
  <2>1. /\ age.at = "raise" /\ age.nx \in Pointers \ {First}
        /\ node[age.nx].age < Timeout /\ Behind # Null
    BY <1>10 DEF AgeLoad, Age, ListInv, AgeOK
  <2>2. node[age.nx].age + 1 \in 0..Timeout
    <3>1. node[age.nx].age \in 0..Timeout
      BY <1>1, <2>1, Nodes
    <3> QED BY <2>1, <3>1, Ready
  <2>3. PICK v \in 0..Timeout : age' = [age EXCEPT !.at = "store", !.val = v]
    BY <1>10, <2>2 DEF AgeLoad, Aged
  <2>4. /\ age' \in Passes /\ age'.at = "store" /\ age'.nx = age.nx
        /\ age'.ptr = age.ptr /\ age'.to = age.to
    BY <1>1, <2>3 DEF Passes
  <2>5. AgeOK'
    BY <1>1, <1>3, <1>7, <2>1, <2>4 DEF AgeOK, Behind
  <2> QED BY <1>1, <1>2, <2>4, <2>5, AgeMoves
<1>11. CASE (Advance \/ PrintOn) /\ Behind # Null
  <2>1. PICK a \in {"look", "print"} : age' = [age EXCEPT !.at = a, !.ptr = Behind]
    <3>1. CASE Advance
      BY <1>11, <3>1 DEF Advance, Behind, NextOf
    <3>2. CASE PrintOn
      <4>1. age.at = "print" /\ age' = [age EXCEPT !.ptr = Behind]
        BY <1>11, <3>2 DEF PrintOn, Behind, NextOf, Age
      <4>2. age' = [age EXCEPT !.at = "print", !.ptr = Behind]
        BY <1>1, <4>1 DEF Passes
      <4> QED BY <4>2
    <3> QED BY <1>11, <3>1, <3>2
  <2>2. Behind \in Pointers /\ Behind \in Old
    BY <1>7, <1>11 DEF Advance, PrintOn, Age
  <2>3. /\ age' \in Passes /\ age'.at = a /\ age'.nx = age.nx /\ age'.to = age.to
        /\ age'.ptr = Behind
    BY <1>1, <2>1, <2>2 DEF Passes
  <2>4. AgeOK'
    BY <1>1, <1>3, <2>2, <2>3 DEF AgeOK
  <2> QED BY <1>1, <1>2, <2>2, <2>3, <2>4, AgeMoves
<1> QED BY <1>4, <1>5, <1>6, <1>8, <1>9, <1>10, <1>11

LEMMA DeleteKeepsList ==
  ASSUME ListInv, DeleteLink \/ DeleteFree
  PROVE  ListInv'
<1>1. /\ TypeOK /\ age \in Passes /\ First \in Pointers /\ Null \notin Pointers
      /\ thread \in [Threads -> Calls] /\ held \subseteq Pointers
      /\ UNCHANGED <<thread, fault>>
  BY Types, Nodes DEF ListInv, DeleteLink, DeleteFree, Null
<1>2. age.ptr \in Pointers /\ age.nx \in Pointers \ {First}
  BY DEF DeleteLink, DeleteFree, Age, ListInv, AgeOK
<1>3. /\ node' \in Seq(Node) /\ node' # <<>> /\ Pointers' = Pointers
      /\ ListDescends'
      /\ \A k \in Pointers :
           /\ node'[k].age = node[k].age
           /\ node'[k].rid = node[k].rid /\ node'[k].net = node[k].net
           /\ node'[k].freed = node[k].freed \/ k = age.nx
           /\ node'[k].next = node[k].next \/ node'[k].next = age.to
  <2>1. CASE DeleteLink
    <3>1. /\ age.at = "link" /\ node' = [node EXCEPT ![age.ptr].next = age.to]
      BY <2>1 DEF DeleteLink, Rest, Age
    <3>2. age.to \in Nat /\ age.to \in Pointers \union {Null}
      BY <1>1, Nodes DEF Passes, Null
    <3>3. /\ node' \in Seq(Node) /\ node' # <<>> /\ Pointers' = Pointers
          /\ \A k \in Pointers :
               /\ node'[k].next = IF k = age.ptr THEN age.to ELSE node[k].next
               /\ node'[k].freed = node[k].freed /\ node'[k].age = node[k].age
               /\ node'[k].rid = node[k].rid /\ node'[k].net = node[k].net
      BY <1>1, <1>2, <3>1, <3>2, Fields
    <3>4. ListDescends'
      BY <1>2, <3>1, <3>2, <3>3 DEF ListInv, ListDescends, AgeOK
    <3> QED BY <3>3, <3>4
  <2>2. CASE DeleteFree
    <3>1. node' = [node EXCEPT ![age.nx].freed = TRUE]
      BY <2>2 DEF DeleteFree
    <3>2. /\ node' \in Seq(Node) /\ node' # <<>> /\ Pointers' = Pointers
          /\ \A k \in Pointers :
               /\ node'[k].next = node[k].next /\ node'[k].age = node[k].age
               /\ node'[k].freed = IF k = age.nx THEN TRUE ELSE node[k].freed
               /\ node'[k].rid = node[k].rid /\ node'[k].net = node[k].net
      BY <1>1, <1>2, <3>1, Fields
    <3>3. ListDescends'
      BY <3>2 DEF ListInv, ListDescends
    <3> QED BY <3>2, <3>3
  <2> QED BY <2>1, <2>2
<1>4. Calls' = Calls /\ Passes' = Passes
  BY <1>3 DEF Calls, Passes
<1>5. /\ age' \in Passes /\ age'.at \in {"free", "advance"} /\ age'.ptr = age.ptr
      /\ age'.nx \in {Null, age.nx} /\ age'.to \in {Null, age.to}
      /\ age'.at = "free" => age'.nx = age.nx
  <2>1. CASE DeleteLink
    BY <1>1, <2>1 DEF DeleteLink, Passes
  <2>2. CASE DeleteFree
    BY <1>1, <2>2 DEF DeleteFree, Passes
  <2> QED BY <2>1, <2>2
<1>6. held' \subseteq held /\ overlap' \in BOOLEAN /\ watched' \in BOOLEAN
  BY <1>1, Types DEF DeleteLink, DeleteFree
<1>7. TypeOK'
  BY <1>1, <1>3, <1>4, <1>5, <1>6, Types, TypesNext
<1>8. CallsOK'
  BY <1>1, <1>3 DEF ListInv, CallsOK, CallOK
<1>9. FreshOK'
  <2> SUFFICES ASSUME NEW u \in Threads, thread[u].at = "head"
               PROVE  Fresh(u)'
    BY <1>1 DEF FreshOK, Fresh
  <2>1. Fresh(u) /\ thread[u].ptr # Null
    BY <1>1 DEF ListInv, FreshOK, Fresh
  <2>2. thread[u].ptr \notin {age'.ptr, age'.nx, age'.to} \union held'
    BY <1>5, <1>6, <2>1 DEF Fresh
  <2> QED BY <1>1, <1>3, <2>1, <2>2 DEF Fresh, Live
<1>10. AgeOK'
  BY <1>2, <1>3, <1>5 DEF AgeOK
<1> QED BY <1>3, <1>7, <1>8, <1>9, <1>10 DEF ListInv

LEMMA StoreKeepsList ==
  ASSUME ListInv, AgeStore
  PROVE  ListInv'
<1>1. /\ TypeOK /\ age \in Passes /\ age.at = "store" /\ age.val \in 0..Timeout
      /\ node' = [node EXCEPT ![age.nx].age = age.val]
      /\ UNCHANGED <<thread, fault, history>>
  BY Types DEF ListInv, AgeStore, Age, Passes
<1>2. age.nx \in Pointers /\ age.ptr \in Pointers
  BY <1>1 DEF ListInv, AgeOK
<1>3. /\ node' \in Seq(Node) /\ node' # <<>> /\ Pointers' = Pointers
      /\ Calls' = Calls /\ Passes' = Passes /\ ListDescends'
      /\ \A k \in Pointers :
           /\ NextOf(k)' = NextOf(k) /\ Live(k)' = Live(k)
           /\ node'[k].rid = node[k].rid /\ node'[k].net = node[k].net
           /\ node'[k].age = IF k = age.nx THEN age.val ELSE node[k].age
  BY <1>1, <1>2, AgeWritten DEF ListInv
<1>4. /\ age' \in Passes /\ age'.at = "advance" /\ age'.ptr = age.ptr
      /\ age'.nx = Null /\ age'.to = age.to
  BY <1>1, Ready DEF AgeStore, Passes
<1>5. TypeOK'
  BY <1>1, <1>3, <1>4, Types, TypesNext DEF history
<1>6. CallsOK' /\ AgeOK'
  BY <1>1, <1>2, <1>3, <1>4 DEF ListInv, CallsOK, CallOK, AgeOK
<1>7. FreshOK'
  <2> SUFFICES ASSUME NEW u \in Threads, thread[u].at = "head"
               PROVE  Fresh(u)'
    BY <1>1 DEF FreshOK, Fresh
  <2>1. Fresh(u) /\ thread[u].ptr # Null
    BY <1>1, Nodes DEF ListInv, FreshOK, Fresh, Null
  <2> QED BY <1>1, <1>3, <1>4, <2>1 DEF Fresh, NextOf, history
<1> QED BY <1>3, <1>5, <1>6, <1>7 DEF ListInv

LEMMA ListNext == ListInv /\ [Next]_vars => ListInv'
<1> SUFFICES ASSUME ListInv, [Next]_vars PROVE ListInv'
  OBVIOUS
<1>1. CASE Arrivals
  BY <1>1, ArriveKeepsList DEF Arrivals
<1>2. ASSUME NEW t \in Threads, ThreadStep(t) PROVE ListInv'
  BY <1>2, QuietStepKeepsList, RenewKeepsList, MakeKeepsList, LinkHeadKeepsList
     DEF ThreadStep
<1>3. CASE AgeStep
  BY <1>3, QuietAgeKeepsList, DeleteKeepsList, StoreKeepsList DEF AgeStep
<1>4. CASE UseAfterFree
  <2>1. UNCHANGED <<node, thread, age, history>> /\ fault' = TRUE
    BY <1>4 DEF UseAfterFree
  <2> QED BY <2>1 DEF ListInv, TypeOK, Pointers, ListDescends, CallsOK, CallOK, FreshOK,
                      Fresh, Live, AgeOK, Behind, history
<1>5. CASE UNCHANGED vars
  BY <1>5 DEF vars, history, ListInv, TypeOK, Pointers, ListDescends, CallsOK, CallOK,
              FreshOK, Fresh, Live, AgeOK, Behind
<1> QED BY <1>1, <1>2, <1>3, <1>4, <1>5 DEF Next

\* Types, and that no age steps over OSPF_TOPO_ENTRY_TIMEOUT, though LSU threads
\* reset ages and put entries before the one whose age was compared.
THEOREM TypeCorrect == Spec => []TypeOK
<1>1. ListInv => TypeOK
  BY DEF ListInv
<1> QED BY <1>1, ListInit, ListNext, PTL DEF Spec

\* However LSU threads and the ageing thread interleave in the list, it never
\* becomes circular.
THEOREM ListNeverCircular == Spec => []ListDescends
<1>1. ListInv => ListDescends
  BY DEF ListInv
<1> QED BY <1>1, ListInit, ListNext, PTL DEF Spec

-----------------------------------------------------------------------------
(* The table while no two threads are in each other's way: LSU threads.    *)

LEMMA SoundInit == Init => Sound
<1> SUFFICES ASSUME Init PROVE Sound
  OBVIOUS
<1>1. /\ held = {} /\ thread = [t \in Threads |-> NoCall] /\ age = Asleep
      /\ node[First] = NewNode(NoRouter, NoNet, Null)
  BY DEF Init, First
<1>2. /\ node[First].next = Null /\ node[First].freed = FALSE
  BY <1>1 DEF NewNode
<1>3. InOrder /\ OneEntry
  BY <1>1, <1>2 DEF InOrder, LeadsOn, Below, OneEntry
<1>4. Leaving = {}
  BY <1>1 DEF Leaving, Asleep
<1>5. Standing
  BY <1>1, <1>2, <1>4 DEF Standing, Stands, Live, NoCall, OnEntry
<1>6. Heads /\ Searched /\ Ageing
  BY <1>1 DEF Heads, Searched, HasSearched, Ageing, NoCall, Asleep
<1> QED BY <1>3, <1>5, <1>6 DEF Sound

\* From an entry of the path one comes to a younger one of the list, or to the end.
LEMMA Onwards ==
  ASSUME ListInv, Sound, NEW p \in Path
  PROVE  /\ p \in Pointers /\ LeadsOn(p) /\ Live(p)
         /\ NextOf(p) # Null => NextOf(p) \in Below(p) /\ Live(NextOf(p))
<1>1. TypeOK /\ First \in Pointers /\ held \subseteq Pointers
  BY Nodes, Types DEF ListInv
<1>2. p \in Pointers
  BY <1>1 DEF Path, Leaving, ListInv, AgeOK
<1>3. LeadsOn(p) /\ Live(p)
  BY DEF Sound, InOrder, Standing, Path
<1>4. ASSUME NextOf(p) # Null PROVE NextOf(p) \in Below(p) /\ Live(NextOf(p))
  <2>1. NextOf(p) \in Below(p)
    BY <1>3, <1>4 DEF LeadsOn, NextOf
  <2> QED BY <2>1 DEF Below, Sound, InOrder
<1> QED BY <1>2, <1>3, <1>4

\* Steps that leave the shape of the list as it is.
SameNode(p) ==
  /\ node'[p].next = node[p].next /\ node'[p].freed = node[p].freed
  /\ node'[p].rid = node[p].rid /\ node'[p].net = node[p].net
LEMMA SameShape ==
  ASSUME ListInv, Sound, held' = held, \A p \in Pointers : SameNode(p)
  PROVE  /\ InOrder' /\ OneEntry' /\ (Head1)' = Head1
         /\ \A p \in Pointers : /\ Live(p)' = Live(p) /\ (LeadsOn(p) => LeadsOn(p)')
                                /\ Below(p)' = Below(p)
         /\ \A c \in Calls : Mates(c)' = Mates(c)
         /\ \A p, q \in held : p \in Nat /\ q \in Nat
<1>1. TypeOK /\ First \in Pointers /\ held \subseteq Pointers
  BY Nodes, Types DEF ListInv
<1>2. \A p : Below(p)' = Below(p)
  BY DEF Below
<1>3. \A p \in Pointers : Live(p)' = Live(p) /\ (LeadsOn(p) => LeadsOn(p)')
  BY <1>2 DEF SameNode, Live, LeadsOn
<1>4. InOrder'
  BY <1>1, <1>3 DEF Sound, InOrder
<1>5. OneEntry'
  BY <1>1 DEF Sound, OneEntry, SameNode
<1>6. \A c : Mates(c)' = Mates(c)
  BY <1>1 DEF Mates, Mine, SameNode
<1>7. Head1' = Head1
  BY <1>1 DEF Head1, NextOf, SameNode
<1> QED BY <1>1, <1>2, <1>3, <1>4, <1>5, <1>6, <1>7, Nodes

LEMMA CallSound ==
  ASSUME ListInv, ListInv', Sound, NEW t \in Threads, NEW c, Goes(t, c),
         c.at # "head", Stands(c), HasSearched(c),
         UNCHANGED <<age, history>>, Pointers' = Pointers,
         \A p \in Pointers : SameNode(p)
  PROVE  Sound'
<1>1. TypeOK /\ held' = held /\ watched' = watched /\ First \in Pointers
  BY Nodes DEF ListInv, history
<1>2. /\ InOrder' /\ OneEntry' /\ (Head1)' = Head1
      /\ \A p \in Pointers : /\ Live(p)' = Live(p) /\ (LeadsOn(p) => LeadsOn(p)')
                             /\ Below(p)' = Below(p)
      /\ \A d \in Calls : Mates(d)' = Mates(d)
  BY <1>1, SameShape
<1>3. /\ thread'[t] = c
      /\ \A u \in Threads : u # t => thread'[u] = thread[u]
      /\ \A u \in Threads : thread'[u] \in Calls /\ CallOK(thread[u])'
  <2>1. Calls' = Calls
    BY DEF Calls
  <2>2. TypeOK' /\ CallsOK'
    BY DEF ListInv
  <2>3. thread' \in [Threads -> Calls'] 
    BY <2>2 DEF TypeOK, Calls
  <2> QED BY <1>1, <2>1, <2>2, <2>3, Went DEF CallsOK
<1>4. Leaving' = Leaving /\ Path' = Path /\ Leaving \subseteq Pointers
  BY <1>1 DEF Leaving, Path, ListInv, AgeOK
<1>5. Standing'
  <2>1. ASSUME NEW u \in Threads, Stands(thread'[u]) PROVE Stands(thread[u])'
    <3>1. /\ thread'[u].at \in OnEntry => thread'[u].ptr \in Pointers
          /\ thread'[u].walk = "print" => thread'[u].found \in Pointers
      BY <1>3 DEF CallOK
    <3> QED BY <1>1, <1>2, <1>4, <2>1, <3>1 DEF Stands
  <2>2. \A u \in Threads : Stands(thread[u])'
    BY <1>3, <2>1 DEF Sound, Standing
  <2> QED BY <1>1, <1>2, <1>4, <2>2 DEF Sound, Standing
<1>6. Heads'
  <2> SUFFICES ASSUME NEW u \in Threads, thread'[u].at = "head"
               PROVE  /\ node'[thread'[u].ptr].next = Head1'
                      /\ \A q \in (held \union Leaving)' : q < thread'[u].ptr
    BY DEF Heads
  <2>1. thread'[u] = thread[u] /\ thread[u].at = "head"
    BY <1>3
  <2>2. thread[u].ptr \in Pointers
    BY <2>1 DEF ListInv, FreshOK, Fresh
  <2> QED BY <1>1, <1>2, <1>4, <2>1, <2>2 DEF Sound, Heads, SameNode
<1>7. Searched'
  <2>1. ASSUME NEW u \in Threads, HasSearched(thread'[u]) PROVE HasSearched(thread[u])'
    <3>1. thread'[u].at = "next" => thread'[u].ptr \in Pointers
      BY <1>3 DEF CallOK, OnEntry
    <3> QED BY <1>2, <1>3, <2>1, <3>1 DEF HasSearched
  <2> QED BY <1>3, <2>1 DEF Sound, Searched
<1>8. Ageing'
  <2>1. age.at # "asleep" => age.ptr \in Pointers
    BY DEF ListInv, AgeOK
  <2>2. age.at = "link" => age.nx \in Pointers
    BY DEF ListInv, AgeOK
  <2> QED BY <1>1, <2>1, <2>2 DEF Sound, Ageing, Behind, SameNode
<1> QED BY <1>2, <1>5, <1>6, <1>7, <1>8 DEF Sound

\* A walk that begins stands on the first entry.
LEMMA BeginsSound ==
  ASSUME ListInv, Sound, NEW c \in Calls, NEW w \in {"check", "refresh", "last"},
         w # "last" => c.nets # <<>>
  PROVE  Stands(Walk(c, w)) /\ HasSearched(Walk(c, w)) /\ Walk(c, w).at # "head"
<1> DEFINE d == Walk(c, w)
<1>1. d.at = "next" /\ d.walk = w /\ d.ptr = First
  BY Begins DEF ListInv
<1> HIDE DEF d
<1>2. Stands(d)
  BY <1>1 DEF Stands, Path, Sound, Standing
<1>3. HasSearched(d)
  BY <1>1 DEF HasSearched, Mates, Below
<1> QED BY <1>1, <1>2, <1>3 DEF d
LEMMA GoesOnSound ==
  ASSUME ListInv, Sound, NEW c \in Calls, c.nets # <<>>
  PROVE  Stands(NextLsa(c)) /\ HasSearched(NextLsa(c)) /\ NextLsa(c).at # "head"
<1> DEFINE d == NextLsa(c)
<1>1. d.at = "next" /\ d.walk \in {"refresh", "last"} /\ d.ptr = First
  BY GoesOnLsa DEF ListInv
<1> HIDE DEF d
<1>2. Stands(d)
  BY <1>1 DEF Stands, Path, Sound, Standing
<1>3. HasSearched(d)
  BY <1>1 DEF HasSearched, Mates, Below
<1> QED BY <1>1, <1>2, <1>3 DEF d
LEMMA NoCallSound ==
  Stands(NoCall) /\ HasSearched(NoCall) /\ NoCall.at # "head"
BY DEF Stands, HasSearched, NoCall, OnEntry

LEMMA ArriveSound ==
  ASSUME ListInv, ListInv', Sound, NEW t \in Threads, NEW l \in Lsus, Arrive(t, l)
  PROVE  Sound'
<1> DEFINE c == [NoCall EXCEPT !.rid = l.rid, !.nets = l.nets]
<1>1. l.rid \in Routers /\ l.nets \in Seq(Nets) /\ l.nets # <<>>
  BY LsuAssumption
<1>2. c \in Calls /\ c.nets # <<>>
  BY <1>1, Ready DEF NoCall, Calls
<1>3. Goes(t, Walk(c, "check")) /\ UNCHANGED <<node, age, history>>
  BY DEF Arrive
<1> HIDE DEF c
<1>4. /\ Stands(Walk(c, "check")) /\ HasSearched(Walk(c, "check"))
      /\ Walk(c, "check").at # "head"
  BY <1>2, BeginsSound
<1>5. Pointers' = Pointers /\ \A p \in Pointers : SameNode(p)
  BY <1>3 DEF Pointers, SameNode
<1> QED BY <1>3, <1>4, <1>5, CallSound

LEMMA QuietSound ==
  ASSUME ListInv, ListInv', Sound, NEW t \in Threads,
         \/ Follow(t) \/ EndWalk(t) \/ CheckTest(t) \/ Decide(t) \/ RefreshTest(t)
         \/ RenewRest(t) \/ AddTest(t) \/ RenewAge(t)
  PROVE  Sound'
<1> DEFINE c == thread[t]
<1>1. /\ TypeOK /\ c \in Calls /\ CallOK(c) /\ Stands(c) /\ HasSearched(c)
  BY Types DEF ListInv, CallsOK, Sound, Standing, Searched
<1>2. /\ UNCHANGED <<age, history>> /\ Pointers' = Pointers
      /\ \A p \in Pointers : SameNode(p)
  <2>1. CASE RenewAge(t)
    <3>1. /\ c.at = "renew" /\ node' = [node EXCEPT ![c.ptr].age = 0]
          /\ UNCHANGED <<age, history>>
      BY <2>1 DEF RenewAge, Thread
    <3>2. c.ptr \in Pointers
      BY <1>1, <3>1 DEF CallOK, OnEntry
    <3>3. 0 \in 0..Timeout
      BY Ready
    <3>4. /\ Pointers' = Pointers
          /\ \A k \in Pointers :
               /\ NextOf(k)' = NextOf(k) /\ Live(k)' = Live(k)
               /\ node'[k].rid = node[k].rid /\ node'[k].net = node[k].net
      BY <1>1, <3>1, <3>2, <3>3, AgeWritten DEF ListInv
    <3>5. \A k \in Pointers : node'[k].freed = node[k].freed
      BY <1>1, <3>1, <3>2
    <3> QED BY <3>1, <3>4, <3>5 DEF SameNode, NextOf
  <2>2. CASE ~RenewAge(t)
    <3>1. UNCHANGED <<node, age, history>>
      BY <2>2 DEF Follow, EndWalk, CheckTest, Decide, RefreshTest, RenewRest, AddTest
    <3> QED BY <3>1 DEF Pointers, SameNode
  <2> QED BY <2>1, <2>2
<1> SUFFICES \E d : d.at # "head" /\ Stands(d) /\ HasSearched(d) /\ Goes(t, d)
  BY <1>2, CallSound
<1>3. CASE Follow(t)
  <2>1. c.at = "next" /\ c.ptr \in Pointers /\ Live(c.ptr) /\ NextOf(c.ptr) # Null
    BY <1>1, <1>3 DEF Follow, Thread, CallOK, OnEntry, Onward
  <2> DEFINE d == [c EXCEPT !.ptr = NextOf(c.ptr),
                            !.at = IF c.walk \in {"check", "refresh"} THEN "test"
                                   ELSE "next"]
  <2>2. Goes(t, d)
    BY <1>3 DEF Follow, Onward
  <2>3. /\ d.ptr = NextOf(c.ptr) /\ d.walk = c.walk /\ d.nets = c.nets
        /\ d.at = IF c.walk \in {"check", "refresh"} THEN "test" ELSE "next"
        /\ d.found = c.found /\ d.rid = c.rid
    BY <1>1 DEF Calls
  <2> HIDE DEF d
  <2>4. c.ptr \in Path
    BY <1>1, <2>1 DEF Stands, OnEntry
  <2>5. /\ d.ptr \in Below(c.ptr) /\ Live(d.ptr) /\ LeadsOn(c.ptr)
    BY <2>1, <2>3, <2>4, Onwards
  <2>6. Stands(d)
    BY <1>1, <2>3, <2>5 DEF Stands, Path, Below
  <2>7. HasSearched(d)
    <3>1. \A q \in Below(c.ptr) : q <= d.ptr
      BY <2>3, <2>5 DEF LeadsOn, NextOf
    <3>2. Mates(d) = Mates(c)
      BY <2>3 DEF Mates, Mine
    <3> QED BY <1>1, <2>1, <2>3, <3>1, <3>2 DEF HasSearched
  <2> QED BY <2>2, <2>3, <2>6, <2>7
<1>4. CASE EndWalk(t)
  <2>1. c.at = "next" /\ c.ptr \in Pointers /\ Live(c.ptr) /\ NextOf(c.ptr) = Null
    BY <1>1, <1>4 DEF EndWalk, Thread, CallOK, OnEntry, Onward
  <2>2. CASE c.walk = "check" /\ Goes(t, Walk(c, "refresh"))
    <3>1. c.nets # <<>>
      BY <1>1, <2>2 DEF CallOK
    <3> QED BY <1>1, <2>2, <3>1, BeginsSound
  <2>3. CASE c.walk = "print" /\ Goes(t, [c EXCEPT !.at = "decide", !.ptr = Null])
    <3> DEFINE d == [c EXCEPT !.at = "decide", !.ptr = Null]
    <3>1. /\ d.at = "decide" /\ d.walk = "print" /\ d.found = c.found
      BY <1>1, <2>3 DEF Calls
    <3> HIDE DEF d
    <3>2. Stands(d) /\ HasSearched(d)
      BY <1>1, <2>3, <3>1 DEF Stands, HasSearched, OnEntry
    <3> QED BY <2>3, <3>1, <3>2 DEF d
  <2>4. CASE c.walk = "refresh" /\ Goes(t, [c EXCEPT !.at = "add", !.ptr = Null])
    <3> DEFINE d == [c EXCEPT !.at = "add", !.ptr = Null]
    <3>1. /\ d.at = "add" /\ d.walk = "refresh" /\ d.nets = c.nets /\ d.rid = c.rid
      BY <1>1, <2>4 DEF Calls
    <3> HIDE DEF d
    <3>2. Mates(d) = Mates(c)
      BY <3>1 DEF Mates, Mine
    <3>3. Below(c.ptr) = {}
      <4>1. c.ptr \in Path
        BY <1>1, <2>1 DEF Stands, OnEntry
      <4>2. LeadsOn(c.ptr) /\ Null \notin Pointers /\ Below(c.ptr) \subseteq Pointers
        BY <1>1, <4>1, Onwards, Nodes, Types DEF Below, Null
      <4> QED BY <2>1, <4>2 DEF LeadsOn, NextOf
    <3>4. Mates(d) = {}
      BY <1>1, <2>1, <2>4, <3>2, <3>3 DEF HasSearched
    <3>5. Stands(d) /\ HasSearched(d)
      BY <3>1, <3>4 DEF Stands, HasSearched, OnEntry
    <3> QED BY <2>4, <3>1, <3>5 DEF d
  <2>5. CASE c.walk = "last" /\ Goes(t, NoCall)
    BY <2>5, NoCallSound
  <2> QED BY <1>4, <2>2, <2>3, <2>4, <2>5 DEF EndWalk
<1>5. CASE CheckTest(t)
  <2>1. /\ c.at = "test" /\ c.walk = "check" /\ c.ptr \in Pointers /\ c.nets # <<>>
        /\ Live(c.ptr)
    BY <1>1, <1>5 DEF CheckTest, Thread, CallOK, OnEntry
  <2>2. CASE node[c.ptr].rid = c.rid
    <3> DEFINE d == [Walk(c, "print") EXCEPT !.found = c.ptr]
    <3>1. Goes(t, d)
      BY <1>5, <2>2 DEF CheckTest
    <3>2. d.at = "next" /\ d.walk = "print" /\ d.ptr = First /\ d.found = c.ptr
      BY <1>1 DEF Walk, Calls
    <3> HIDE DEF d
    <3>3. Stands(d)
      BY <2>1, <3>2 DEF Stands, Path, Sound, Standing
    <3>4. HasSearched(d)
      BY <3>2 DEF HasSearched
    <3> QED BY <3>1, <3>2, <3>3, <3>4
  <2>3. CASE node[c.ptr].rid # c.rid
    <3> DEFINE d == [c EXCEPT !.at = "next"]
    <3>1. Goes(t, d)
      BY <1>5, <2>3 DEF CheckTest
    <3>2. d.at = "next" /\ d.walk = "check" /\ d.ptr = c.ptr /\ d.found = c.found
      BY <1>1, <2>1 DEF Calls
    <3> HIDE DEF d
    <3>3. Stands(d) /\ HasSearched(d)
      BY <1>1, <2>1, <3>2 DEF Stands, HasSearched, OnEntry
    <3> QED BY <3>1, <3>2, <3>3
  <2> QED BY <2>2, <2>3
<1>6. CASE Decide(t)
  <2>1. CASE Goes(t, NoCall)
    BY <2>1, NoCallSound
  <2>2. CASE Goes(t, Walk(c, "refresh"))
    <3>1. c.nets # <<>>
      BY <1>1, <1>6 DEF Decide, Thread, CallOK
    <3> QED BY <1>1, <2>2, <3>1, BeginsSound
  <2> QED BY <1>6, <2>1, <2>2 DEF Decide
<1>7. CASE RefreshTest(t) \/ RenewRest(t) \/ RenewAge(t)
  <2>1. /\ c.walk = "refresh" /\ c.nets # <<>> /\ c.at \in OnEntry
        /\ c.ptr \in Pointers /\ Live(c.ptr)
    BY <1>1, <1>7 DEF RefreshTest, RenewRest, RenewAge, Thread, CallOK, OnEntry
  <2>2. CASE Goes(t, NextLsa(c))
    BY <1>1, <2>1, <2>2, GoesOnSound
  <2>3. ASSUME NEW a \in {"renew", "rest", "next"}, Goes(t, [c EXCEPT !.at = a]),
               a = "next" => c.at = "test" /\ ~Mine(c.ptr, c)
        PROVE  \E d : d.at # "head" /\ Stands(d) /\ HasSearched(d) /\ Goes(t, d)
    <3> DEFINE d == [c EXCEPT !.at = a]
    <3>1. /\ d.at = a /\ d.walk = c.walk /\ d.ptr = c.ptr /\ d.found = c.found
          /\ d.nets = c.nets /\ d.rid = c.rid
      BY <1>1 DEF Calls
    <3> HIDE DEF d
    <3>2. Stands(d)
      BY <1>1, <2>1, <3>1 DEF Stands, OnEntry
    <3>3. HasSearched(d)
      <4>1. CASE a # "next"
        BY <3>1, <4>1 DEF HasSearched
      <4>2. CASE a = "next"
        <5>1. Mates(d) = Mates(c) /\ \A q \in Mates(c) : q <= c.ptr
          BY <1>1, <2>1, <2>3, <3>1, <4>2 DEF Mates, Mine, HasSearched
        <5>2. ASSUME NEW q \in Mates(c) PROVE q \in held /\ q < c.ptr
          <6>1. q \in held /\ q # c.ptr /\ q <= c.ptr
            BY <2>3, <4>2, <5>1 DEF Mates
          <6>2. q \in Nat /\ c.ptr \in Nat
            BY <1>1, <2>1, <6>1, Nodes, Types
          <6> QED BY <6>1, <6>2
        <5> QED BY <3>1, <4>2, <5>1, <5>2 DEF HasSearched, Below
      <4> QED BY <4>1, <4>2
    <3> QED BY <2>3, <3>1, <3>2, <3>3 DEF d
  <2>4. CASE RefreshTest(t)
    BY <2>2, <2>3, <2>4 DEF RefreshTest, Thread
  <2>5. CASE RenewRest(t)
    BY <2>2, <2>5 DEF RenewRest
  <2>6. CASE RenewAge(t)
    BY <2>3, <2>6 DEF RenewAge
  <2> QED BY <1>7, <2>4, <2>5, <2>6
<1>8. CASE AddTest(t)
  <2> DEFINE d == [c EXCEPT !.at = "link"]
  <2>1. c.at = "add" /\ Goes(t, d) /\ c.walk = "refresh"
    BY <1>1, <1>8 DEF AddTest, Thread, CallOK
  <2>2. d.at = "link" /\ d.walk = c.walk /\ d.nets = c.nets /\ d.rid = c.rid
    BY <1>1 DEF Calls
  <2> HIDE DEF d
  <2>3. Mates(d) = Mates(c)
    BY <2>2 DEF Mates, Mine
  <2>4. Stands(d) /\ HasSearched(d)
    BY <1>1, <2>1, <2>2, <2>3 DEF Stands, HasSearched, OnEntry
  <2> QED BY <2>1, <2>2, <2>4
<1> QED BY <1>3, <1>4, <1>5, <1>6, <1>7, <1>8


LEMMA MakeSound ==
  ASSUME ListInv, ListInv', Sound, NEW t \in Threads, AddAlone(t) \/ LinkNext(t)
  PROVE  Sound'
<1> DEFINE n == Len(node) + 1
           c == thread[t]
           d == thread'[t]
<1> HIDE DEF n
<1>1. /\ c.at \in {"add", "link"} /\ c.walk = "refresh"
      /\ d \in Calls' /\ d.at = "head" /\ d.ptr = n
      /\ d.walk = "refresh" /\ d.nets = c.nets /\ d.rid = c.rid
      /\ \A u \in Threads : u # t => thread'[u] = thread[u]
      /\ n \notin Pointers \union {Null, First}
      /\ \A p \in Pointers : node'[p] = node[p] /\ p < n
      /\ node'[n].next = Head1
      /\ UNCHANGED <<age, fault, history>>
  BY Makes DEF n
<1>2. /\ TypeOK /\ held' = held /\ watched' = watched /\ First \in Pointers
      /\ c \in Calls /\ held \subseteq Pointers
  BY <1>1, Nodes, Types DEF ListInv, history
<1>3. \A p \in Pointers : SameNode(p)
  BY <1>1 DEF SameNode
<1>4. /\ InOrder' /\ OneEntry' /\ (Head1)' = Head1
      /\ \A p \in Pointers : /\ Live(p)' = Live(p) /\ (LeadsOn(p) => LeadsOn(p)')
                             /\ Below(p)' = Below(p)
      /\ \A e \in Calls : Mates(e)' = Mates(e)
  BY <1>2, <1>3, SameShape
<1>5. Leaving' = Leaving /\ Path' = Path /\ Leaving \subseteq Pointers
  BY <1>1, <1>2 DEF Leaving, Path, ListInv, AgeOK
<1>6. \A u \in Threads : thread[u] \in Calls /\ CallOK(thread[u])
  BY <1>2, Types DEF ListInv, CallsOK
<1>7. Standing'
  <2>1. ASSUME NEW u \in Threads PROVE Stands(thread[u])'
    <3>1. CASE u = t
      BY <1>1, <3>1 DEF Stands, OnEntry
    <3>2. CASE u # t
      <4>1. thread'[u] = thread[u] /\ Stands(thread[u])
        BY <1>1, <3>2 DEF Sound, Standing
      <4>2. /\ thread[u].at \in OnEntry => thread[u].ptr \in Pointers
            /\ thread[u].walk = "print" => thread[u].found \in Pointers
        BY <1>6 DEF CallOK
      <4> QED BY <1>2, <1>4, <1>5, <4>1, <4>2 DEF Stands
    <3> QED BY <3>1, <3>2
  <2>2. \A p \in Leaving : p \notin held /\ p # First /\ Live(p)' /\ LeadsOn(p)'
    BY <1>4, <1>5 DEF Sound, Standing
  <2>3. held \subseteq Pointers \ {First} /\ Live(First)' /\ Pointers \subseteq Pointers'
    <3>1. Pointers' = Pointers \union {n}
      BY Makes DEF n
    <3> QED BY <1>2, <1>4, <3>1 DEF Sound, Standing
  <2> QED BY <1>2, <1>5, <2>1, <2>2, <2>3 DEF Standing
<1>8. Heads'
  <2> SUFFICES ASSUME NEW u \in Threads, thread'[u].at = "head"
               PROVE  /\ node'[thread'[u].ptr].next = Head1'
                      /\ \A q \in (held \union Leaving)' : q < thread'[u].ptr
    BY DEF Heads
  <2>1. CASE u = t
    BY <1>1, <1>2, <1>4, <1>5, <2>1
  <2>2. CASE u # t
    <3>1. thread'[u] = thread[u] /\ thread[u].at = "head"
      BY <1>1, <2>2
    <3>2. thread[u].ptr \in Pointers
      BY <3>1 DEF ListInv, FreshOK, Fresh
    <3> QED BY <1>2, <1>3, <1>4, <1>5, <3>1, <3>2 DEF Sound, Heads, SameNode
  <2> QED BY <2>1, <2>2
<1>9. Searched'
  <2> SUFFICES ASSUME NEW u \in Threads PROVE HasSearched(thread[u])'
    BY DEF Searched
  <2>1. HasSearched(thread[u])
    BY DEF Sound, Searched
  <2>2. CASE u = t
    <3>1. Mates(c) = {}
      BY <1>1, <2>1, <2>2 DEF HasSearched
    <3>2. \A q \in held : ~(node'[q].net = Head(d.nets) /\ node'[q].rid = d.rid)
      <4>1. \A q \in held : ~(node[q].net = Head(c.nets) /\ node[q].rid = c.rid)
        BY <3>1 DEF Mates, Mine
      <4> QED BY <1>1, <1>2, <4>1
    <3>3. Mates(thread[t])' = {}
      BY <1>2, <3>2 DEF Mates, Mine
    <3> QED BY <1>1, <2>2, <3>3 DEF HasSearched
  <2>3. CASE u # t
    <3>1. thread'[u] = thread[u] /\ Mates(thread[u])' = Mates(thread[u])
      <4>1. thread'[u] = thread[u]
        BY <1>1, <2>3
      <4>2. \A e \in Calls : {q \in held : node'[q].net = Head(e.nets)
                                            /\ node'[q].rid = e.rid} = Mates(e)
        BY <1>2, <1>3 DEF Mates, Mine, SameNode
      <4> QED BY <1>2, <1>6, <4>1, <4>2 DEF Mates, Mine
    <3>2. thread[u].at = "next" => thread[u].ptr \in Pointers
      BY <1>6 DEF CallOK, OnEntry
    <3> QED BY <1>4, <2>1, <3>1, <3>2 DEF HasSearched
  <2> QED BY <2>2, <2>3
<1>10. Ageing'
  <2>1. age.at # "asleep" => age.ptr \in Pointers
    BY DEF ListInv, AgeOK
  <2>2. age.at = "link" => age.nx \in Pointers
    BY DEF ListInv, AgeOK
  <2> QED BY <1>1, <1>2, <1>3, <2>1, <2>2 DEF Sound, Ageing, Behind, SameNode
<1> QED BY <1>4, <1>7, <1>8, <1>9, <1>10 DEF Sound

\* The head is written by a thread that none crosses.
LEMMA LinkHeadSound ==
  ASSUME ListInv, ListInv', Sound, NEW t \in Threads, LinkHead(t), ~overlap'
  PROVE  Sound'
<1> DEFINE c == thread[t]
<1> PICK n : n = c.ptr
  OBVIOUS
<1>1. /\ c.at = "head" /\ c.walk = "refresh" /\ c \in Calls /\ c.nets # <<>>
      /\ thread'[t] = NextLsa(c) /\ \A u \in Threads : u # t => thread'[u] = thread[u]
      /\ Fresh(t) /\ n \in Pointers \ {First} /\ First \in Pointers
      /\ Pointers' = Pointers
      /\ \A k \in Pointers :
           /\ node'[k].next = IF k = First THEN n ELSE node[k].next
           /\ node'[k].freed = node[k].freed
           /\ node'[k].rid = node[k].rid /\ node'[k].net = node[k].net
      /\ held' = held \union {n} /\ UNCHANGED <<age, fault, watched>>
  BY Links
<1>2. ~Crossing(t)
  BY DEF LinkHead
<1>3. /\ TypeOK /\ held \subseteq Pointers \ {First}
      /\ Leaving \subseteq Pointers /\ Leaving' = Leaving
      /\ \A k \in Pointers : k \in Nat
      /\ \A u \in Threads : thread[u] \in Calls /\ CallOK(thread[u])
  BY <1>1, Nodes, Types DEF ListInv, Sound, Standing, Leaving, AgeOK, CallsOK
<1>4. /\ n \notin held /\ Live(n) /\ node[n].rid = c.rid /\ node[n].net = Head(c.nets)
      /\ n # First
  BY <1>1 DEF Fresh
<1>5. node[n].next = Head1 /\ \A q \in held \union Leaving : q < n
  BY <1>1 DEF Sound, Heads
<1>6. \A k \in Pointers : Live(k)' = Live(k)
  BY <1>1 DEF Live
<1>7. Below(First)' = held \union {n}
  BY <1>1 DEF Below
<1>8. \A p \in held \union Leaving : p # First /\ Below(p)' = Below(p)
  <2> SUFFICES ASSUME NEW p \in held \union Leaving PROVE p # First /\ Below(p)' = Below(p)
    OBVIOUS
  <2>1. p # First /\ p < n /\ p \in Nat /\ n \in Nat
    BY <1>1, <1>3, <1>5 DEF Sound, Standing
  <2>2. ~(n < p)
    BY <2>1
  <2> QED BY <1>1, <2>1, <2>2 DEF Below
<1>9. Below(n)' = held /\ Below(First) = held
  <2>1. n \in Nat /\ ~(n < n)
    BY <1>1, <1>3
  <2> QED BY <1>1, <1>4, <1>5, <2>1 DEF Below
<1>10. LeadsOn(First)'
  <2>1. n \in Nat /\ \A q \in held : q \in Nat /\ q < n
    BY <1>1, <1>3, <1>5
  <2>2. \A q \in held \union {n} : q <= n
    BY <2>1
  <2>3. node'[First].next = n
    BY <1>1
  <2> QED BY <1>7, <2>2, <2>3 DEF LeadsOn
<1>11. LeadsOn(n)'
  <2>1. LeadsOn(First)
    BY DEF Sound, InOrder
  <2>2. node'[n].next = node[First].next
    BY <1>1, <1>4, <1>5 DEF Head1, NextOf
  <2> QED BY <1>9, <2>1, <2>2 DEF LeadsOn
<1>12. \A p \in held \union Leaving : LeadsOn(p)'
  <2> SUFFICES ASSUME NEW p \in held \union Leaving PROVE LeadsOn(p)'
    OBVIOUS
  <2>1. LeadsOn(p) /\ Below(p)' = Below(p) /\ node'[p].next = node[p].next
    BY <1>1, <1>3, <1>8 DEF Sound, InOrder, Standing
  <2> QED BY <2>1 DEF LeadsOn
<1>13. InOrder'
  <2>1. \A p \in held' : Live(p)'
    BY <1>1, <1>3, <1>4, <1>6 DEF Sound, InOrder
  <2>2. \A p \in held' \union {First} : LeadsOn(p)'
    BY <1>1, <1>10, <1>11, <1>12
  <2> QED BY <2>1, <2>2 DEF InOrder
<1>14. Mates(c) = {}
  BY <1>1 DEF Sound, Searched, HasSearched
<1>15. OneEntry'
  <2>1. \A q \in held : ~(node[q].rid = node[n].rid /\ node[q].net = node[n].net)
    BY <1>4, <1>14 DEF Mates, Mine
  <2>2. \A p, q \in held :
          (node[p].rid = node[q].rid /\ node[p].net = node[q].net) => p = q
    BY DEF Sound, OneEntry
  <2>3. \A p \in held \union {n} :
          node'[p].rid = node[p].rid /\ node'[p].net = node[p].net
    BY <1>1, <1>3
  <2>4. \A p, q \in held \union {n} :
          (node'[p].rid = node'[q].rid /\ node'[p].net = node'[q].net) => p = q
    BY <2>1, <2>2, <2>3
  <2> QED BY <1>1, <2>4 DEF OneEntry
<1>16. /\ thread'[t].at = "next" /\ thread'[t].walk \in {"refresh", "last"}
       /\ thread'[t].ptr = First
  BY <1>1, <1>3, GoesOnLsa
<1>17. Standing'
  <2>1. ASSUME NEW u \in Threads PROVE Stands(thread[u])'
    <3>1. CASE u = t
      <4>1. First \in Path' /\ Live(First)'
        BY <1>1, <1>6 DEF Path, Sound, Standing
      <4> QED BY <1>16, <3>1, <4>1 DEF Stands
    <3>2. CASE u # t
      <4>1. thread'[u] = thread[u] /\ Stands(thread[u])
        BY <1>1, <3>2 DEF Sound, Standing
      <4>2. /\ thread[u].at \in OnEntry => thread[u].ptr \in Pointers
            /\ thread[u].walk = "print" => thread[u].found \in Pointers
        BY <1>3 DEF CallOK
      <4>3. Path \subseteq Path'
        BY <1>1, <1>3 DEF Path
      <4> QED BY <1>1, <1>6, <4>1, <4>2, <4>3 DEF Stands
    <3> QED BY <3>1, <3>2
  <2>2. \A p \in Leaving : p \notin held' /\ p # First /\ Live(p)' /\ LeadsOn(p)'
    <3> SUFFICES ASSUME NEW p \in Leaving
                 PROVE  p \notin held' /\ p # First /\ Live(p)' /\ LeadsOn(p)'
      OBVIOUS
    <3>1. p \notin held /\ p # First /\ Live(p) /\ p \in Pointers /\ p < n /\ n \in Nat
      BY <1>1, <1>3, <1>5 DEF Sound, Standing
    <3>2. p # n
      BY <1>3, <3>1
    <3> QED BY <1>1, <1>6, <1>12, <3>1, <3>2
  <2>3. held' \subseteq Pointers' \ {First} /\ Live(First)'
    BY <1>1, <1>3, <1>6 DEF Sound, Standing
  <2> QED BY <1>3, <2>1, <2>2, <2>3 DEF Standing
<1>18. Heads'
  <2>1. \A u \in Threads : thread'[u].at # "head"
    BY <1>1, <1>2, <1>16 DEF Crossing
  <2> QED BY <2>1 DEF Heads
<1>19. Searched'
  <2> SUFFICES ASSUME NEW u \in Threads, thread'[u].walk = "refresh",
                      thread'[u].at \in {"next", "test", "add", "link", "head"}
               PROVE  HasSearched(thread[u])'
    BY DEF Searched, HasSearched
  <2>1. CASE u = t
    <3>1. Mates(thread[u])' \subseteq held'
      BY DEF Mates
    <3> QED BY <1>1, <1>7, <1>16, <2>1, <3>1 DEF HasSearched
  <2>2. CASE u # t
    <3> DEFINE e == thread[u]
    <3>1. thread'[u] = e /\ e.walk = "refresh" /\ HasSearched(e)
          /\ e.at \in {"next", "test", "add", "link"}
      BY <1>1, <1>2, <2>2 DEF Crossing, Sound, Searched
    <3>2. ~Same(t, u) /\ e.nets # <<>>
      BY <1>2, <1>3, <2>2, <3>1 DEF Crossing, CallOK
    <3>3. ~(node[n].net = Head(e.nets) /\ node[n].rid = e.rid)
      BY <1>1, <1>4, <3>2 DEF Same
    <3>4. {q \in held \union {n} : node'[q].net = Head(e.nets) /\ node'[q].rid = e.rid}
            = Mates(e)
      BY <1>1, <1>3, <3>3 DEF Mates, Mine
    <3>5. Mates(thread[u])' = Mates(e)
      BY <1>1, <3>1, <3>4 DEF Mates, Mine
    <3>6. e.at = "next" => Below(e.ptr) \subseteq Below(e.ptr)'
      BY <1>1 DEF Below
    <3> QED BY <3>1, <3>5, <3>6 DEF HasSearched
  <2> QED BY <2>1, <2>2
<1>20. Ageing'
  <2>1. age.at \in {"test", "load", "link"} =>
          age.ptr \in Pointers /\ age.ptr # First /\ node'[age.ptr].next = node[age.ptr].next
    BY <1>1, <1>2 DEF Crossing, ListInv, AgeOK
  <2>2. age.at = "link" => node'[age.nx].next = node[age.nx].next
    BY <1>1 DEF ListInv, AgeOK
  <2> QED BY <1>1, <2>1, <2>2 DEF Sound, Ageing, Behind
<1> QED BY <1>13, <1>15, <1>17, <1>18, <1>19, <1>20 DEF Sound
-----------------------------------------------------------------------------
(* The same: the ageing thread, and the theorem.                           *)

LEMMA QuietAgeSound ==
  ASSUME ListInv, ListInv', Sound,
         \/ AgeWake \/ LookEnd \/ Look \/ LookAge \/ DeleteTemp \/ DeleteTest
         \/ DeleteLoad \/ AgePointer \/ AgeLoad \/ Advance \/ PrintOn
  PROVE  Sound'
<1>1. /\ TypeOK /\ age \in Passes /\ First \in Pointers /\ Null \notin Pointers
      /\ UNCHANGED <<node, thread, fault, history>>
  BY Types, Nodes DEF ListInv, AgeWake, LookEnd, Look, LookAge, DeleteTemp,
     DeleteTest, DeleteLoad, AgePointer, AgeLoad, Advance, PrintOn, Null
<1>2. age.at # "free" /\ age'.at # "free"
  <2>1. CASE AgeWake \/ LookEnd \/ Advance \/ PrintOn
    <3>1. age' = PassOver(age) => age'.at # "free"
      BY <1>1, PassOverOK
    <3>2. age' = Asleep => age'.at # "free"
      BY Ready
    <3> QED BY <1>1, <2>1, <3>1, <3>2
            DEF AgeWake, LookEnd, Advance, PrintOn, Age, Asleep, Passes
  <2>2. CASE Look \/ LookAge \/ DeleteTemp \/ DeleteTest \/ DeleteLoad \/ AgePointer
             \/ AgeLoad
    BY <1>1, <2>2 DEF Look, LookAge, DeleteTemp, DeleteTest, DeleteLoad, AgePointer,
                      AgeLoad, Age, Passes
  <2> QED BY <2>1, <2>2
<1>3. Leaving' = {} /\ Leaving = {} /\ Path' = Path
  BY <1>1, <1>2 DEF Leaving, Path, history
<1>4. InOrder' /\ OneEntry' /\ Standing' /\ Heads' /\ Searched'
  <2>1. InOrder' /\ OneEntry'
    BY <1>1 DEF Sound, InOrder, OneEntry, Live, LeadsOn, Below, history
  <2>2. Standing'
    BY <1>1, <1>3 DEF Sound, Standing, Stands, Live, history, Pointers
  <2>3. Heads'
    BY <1>1, <1>3 DEF Sound, Heads, Head1, NextOf, history
  <2>4. Searched'
    BY <1>1 DEF Sound, Searched, HasSearched, Mates, Mine, Below, history
  <2> QED BY <2>1, <2>2, <2>3, <2>4
<1>5. ASSUME age.at # "asleep"
      PROVE  /\ age.ptr \in Path /\ age.ptr \in held \union {First}
             /\ Behind # Null => Behind \in held
  <2>1. age.ptr \in Path /\ age.ptr \in held \union {First}
    BY <1>5 DEF Sound, Ageing, Path
  <2> QED BY <2>1, Onwards DEF Behind, NextOf, Below
<1>6. held' = held /\ Behind' = node[age'.ptr].next
  BY <1>1 DEF history, Behind
<1>7. Ageing'
  <2>1. CASE AgeWake
    <3>1. age'.at = "look" /\ age'.ptr = First
      BY <2>1 DEF AgeWake, Asleep
    <3> QED BY <3>1 DEF Ageing
  <2>2. CASE LookEnd \/ (Advance /\ Behind = Null)
    <3>1. age' = PassOver(age)
      BY <2>2 DEF LookEnd, Advance, Behind, NextOf
    <3> QED BY <1>1, <3>1, PassOverOK DEF Ageing
  <2>3. CASE PrintOn /\ Behind = Null
    <3>1. age'.at = "asleep"
      BY <2>3, Ready DEF PrintOn, Behind, NextOf
    <3> QED BY <3>1 DEF Ageing
  <2>4. CASE (Advance \/ PrintOn) /\ Behind # Null
    <3>1. age'.ptr = Behind /\ age'.at \in {"look", "print"} /\ age.at # "asleep"
      BY <1>1, <2>4 DEF Advance, PrintOn, Age, Behind, NextOf, Passes
    <3>2. age'.ptr \in held'
      BY <1>5, <1>6, <2>4, <3>1
    <3> QED BY <3>1, <3>2 DEF Ageing
  <2>5. CASE Look
    <3>1. /\ age'.at = "old" /\ age'.nx = Behind /\ age'.ptr = age.ptr
          /\ age.at # "asleep" /\ Behind # Null
      BY <1>1, <2>5 DEF Look, Age, Behind, NextOf, Passes
    <3> QED BY <1>5, <1>6, <3>1 DEF Ageing
  <2>6. CASE LookAge
    <3>1. /\ age'.at \in {"temp", "age"} /\ age'.ptr = age.ptr /\ age.at # "asleep"
      BY <1>1, <2>6 DEF LookAge, Age, Passes
    <3> QED BY <1>5, <1>6, <3>1 DEF Ageing
  <2>7. CASE DeleteTemp
    <3>1. /\ age'.at = "test" /\ age'.nx = Behind /\ age'.ptr = age.ptr
          /\ age.at = "temp"
      BY <1>1, <2>7 DEF DeleteTemp, Age, Behind, NextOf, Passes
    <3>2. Behind # Null
      BY <3>1 DEF ListInv, AgeOK
    <3> QED BY <1>5, <1>6, <3>1, <3>2 DEF Ageing, Behind
  <2>8. CASE DeleteTest \/ DeleteLoad
    <3>1. /\ age'.at \in {"load", "link"} /\ age'.nx = age.nx /\ age'.ptr = age.ptr
          /\ age.at \in {"test", "load"}
          /\ age'.at = "link" => age'.to = node[Behind].next
      BY <1>1, <2>8 DEF DeleteTest, DeleteLoad, Age, Behind, NextOf, Passes
    <3>2. age.nx = Behind /\ age.nx \in held
      BY <3>1 DEF Sound, Ageing
    <3> QED BY <1>1, <1>5, <1>6, <3>1, <3>2 DEF Ageing, Behind
  <2>9. CASE AgePointer
    <3>1. /\ age'.at = "raise" /\ age'.nx = Behind /\ age'.ptr = age.ptr
          /\ age.at = "age"
      BY <1>1, <2>9 DEF AgePointer, Age, Behind, NextOf, Passes
    <3>2. Behind # Null
      BY <3>1 DEF ListInv, AgeOK
    <3> QED BY <1>5, <1>6, <3>1, <3>2 DEF Ageing
  <2>10. CASE AgeLoad
    <3>1. /\ age'.at = "store" /\ age'.nx = age.nx /\ age'.ptr = age.ptr
          /\ age.at = "raise"
      BY <1>1, <2>10 DEF AgeLoad, Age, Passes
    <3>2. age.nx \in held
      BY <3>1 DEF Sound, Ageing
    <3> QED BY <1>5, <1>6, <3>1, <3>2 DEF Ageing
  <2> QED BY <2>1, <2>2, <2>3, <2>4, <2>5, <2>6, <2>7, <2>8, <2>9, <2>10
<1> QED BY <1>4, <1>7 DEF Sound

LEMMA NextWritten ==
  ASSUME TypeOK, NEW p \in Pointers, NEW v \in Nat,
         node' = [node EXCEPT ![p].next = v]
  PROVE  /\ Pointers' = Pointers
         /\ \A k \in Pointers :
              /\ node'[k].next = IF k = p THEN v ELSE node[k].next
              /\ node'[k].freed = node[k].freed
              /\ node'[k].rid = node[k].rid /\ node'[k].net = node[k].net
<1>1. \A w \in Nat : node' = [node EXCEPT ![p].next = w] =>
        /\ node' \in Seq(Node) /\ node' # <<>> /\ Pointers' = Pointers
        /\ \A k \in Pointers :
             /\ node'[k].next = IF k = p THEN w ELSE node[k].next
             /\ node'[k].freed = node[k].freed /\ node'[k].age = node[k].age
             /\ node'[k].rid = node[k].rid /\ node'[k].net = node[k].net
  BY Fields, Zenon
<1> QED BY <1>1

\* The entry that leaves is the one behind: what it leads to comes next.
LEMMA DeleteLinkSound ==
  ASSUME ListInv, ListInv', Sound, DeleteLink, ~overlap'
  PROVE  Sound'
<1> PICK p, x : p = age.ptr /\ x = age.nx
  OBVIOUS
<1>1. /\ TypeOK /\ age \in Passes /\ First \in Pointers /\ age.at = "link"
      /\ node' = [node EXCEPT ![p].next = age.to] /\ held' = held \ {x}
      /\ UNCHANGED <<thread, fault, watched>>
  BY Types, Nodes DEF ListInv, DeleteLink, Age, Rest
<1>2. /\ p \in held \union {First} /\ x \in held /\ x = node[p].next
      /\ age.to = node[x].next /\ held \subseteq Pointers \ {First}
  BY <1>1 DEF Sound, Ageing, Behind, Standing
<1>3. /\ p \in Pointers /\ x \in Pointers \ {First}
      /\ \A k \in Pointers : k \in Nat
      /\ \A u \in Threads : thread[u] \in Calls /\ CallOK(thread[u])
  BY <1>1, <1>2, Nodes, Types DEF ListInv, CallsOK
<1>4. /\ Pointers' = Pointers
      /\ \A k \in Pointers :
           /\ node'[k].next = IF k = p THEN age.to ELSE node[k].next
           /\ node'[k].freed = node[k].freed
           /\ node'[k].rid = node[k].rid /\ node'[k].net = node[k].net
  <2>1. age.to \in Nat
    BY <1>1, <1>2, <1>3, Nodes
  <2>2. node' = [node EXCEPT ![p].next = age.to]
    BY <1>1
  <2> QED BY <1>1, <1>3, <2>1, <2>2, NextWritten
<1>5. \A k \in Pointers : Live(k)' = Live(k)
  BY <1>4 DEF Live
<1>6. /\ age'.at = "free" /\ age'.nx = x /\ age'.ptr = p
  BY <1>1 DEF DeleteLink, Passes
<1>7. Leaving = {} /\ Leaving' = {x} /\ Path' = Path
  BY <1>1, <1>2, <1>6 DEF Leaving, Path
<1>8. /\ Below(p) # {} /\ x \in Below(p) /\ \A q \in Below(p) : q <= x
  <2>1. LeadsOn(p)
    BY <1>2 DEF Sound, InOrder
  <2>2. x # Null
    BY <1>1, <1>3, Nodes DEF Null
  <2> QED BY <1>2, <2>1, <2>2 DEF LeadsOn
<1>9. p # x /\ (p = First \/ x < p)
  <2>1. p = First \/ x < p
    BY <1>8 DEF Below
  <2> QED BY <1>3, <2>1
<1>10. \A k : Below(k)' = Below(k) \ {x}
  BY <1>1 DEF Below
<1>11. Below(p)' = Below(x)
  <2>1. ASSUME NEW q \in Below(p), q # x PROVE q \in Below(x)
    <3>1. q \in held /\ q <= x /\ q \in Nat /\ x \in Nat
      BY <1>2, <1>3, <1>8, <2>1 DEF Below
    <3>2. q < x
      BY <2>1, <3>1
    <3> QED BY <3>1, <3>2 DEF Below
  <2>2. ASSUME NEW q \in Below(x) PROVE q \in Below(p) /\ q # x
    <3>1. q \in held /\ q < x /\ q \in Nat /\ x \in Nat /\ p \in Nat
      BY <1>2, <1>3, <2>2 DEF Below
    <3>2. p = First \/ q < p
      BY <1>9, <3>1
    <3> QED BY <3>1, <3>2 DEF Below
  <2> QED BY <1>10, <2>1, <2>2
<1>12. Below(x)' = Below(x)
  <2>1. x \notin Below(x)
    BY <1>3 DEF Below
  <2> QED BY <1>10, <2>1
<1>13. LeadsOn(x)
  BY <1>2 DEF Sound, InOrder
<1>14. LeadsOn(p)' /\ LeadsOn(x)'
  <2>1. node'[p].next = node[x].next /\ node'[x].next = node[x].next
    BY <1>2, <1>3, <1>4, <1>9
  <2> QED BY <1>11, <1>12, <1>13, <2>1 DEF LeadsOn
<1>15. ASSUME NEW k \in held \union {First}, k # p, k # x PROVE LeadsOn(k)'
  <2>1. LeadsOn(k) /\ node'[k].next = node[k].next /\ k \in Pointers
    BY <1>2, <1>4, <1>15, <1>1 DEF Sound, InOrder
  <2>2. ASSUME node[k].next = x, x \in Below(k), \A q \in Below(k) : q <= x
        PROVE  FALSE
    <3>1. k = First \/ x < k
      BY <2>2 DEF Below
    <3>2. p \in Nat /\ k \in Nat /\ x \in Nat
      BY <1>3, <2>1
    <3>3. CASE p # First /\ (k = First \/ p < k)
      <4>1. p \in Below(k)
        BY <1>2, <3>3 DEF Below
      <4>2. p <= x /\ x < p
        BY <1>9, <2>2, <3>3, <4>1
      <4> QED BY <3>2, <4>2
    <3>4. CASE k # First /\ (p = First \/ k < p)
      <4>1. k \in Below(p)
        BY <1>15, <3>4 DEF Below
      <4>2. k <= x /\ x < k
        BY <1>8, <3>1, <3>4, <4>1
      <4> QED BY <3>2, <4>2
    <3> QED BY <1>15, <3>2, <3>3, <3>4
  <2>3. CASE Below(k) = {}
    BY <1>10, <2>1, <2>3 DEF LeadsOn
  <2>4. CASE Below(k) # {}
    <3>1. node[k].next \in Below(k) /\ \A q \in Below(k) : q <= node[k].next
      BY <2>1, <2>4 DEF LeadsOn
    <3>2. node[k].next # x
      BY <2>2, <3>1
    <3> QED BY <1>10, <2>1, <3>1, <3>2 DEF LeadsOn
  <2> QED BY <2>3, <2>4
<1>16. InOrder'
  <2>1. \A k \in held' : Live(k)'
    BY <1>1, <1>2, <1>5 DEF Sound, InOrder
  <2>2. \A k \in held' \union {First} : LeadsOn(k)'
    BY <1>1, <1>3, <1>14, <1>15
  <2> QED BY <2>1, <2>2 DEF InOrder
<1>17. OneEntry'
  BY <1>1, <1>2, <1>4 DEF Sound, OneEntry
<1>18. Standing'
  <2>1. ASSUME NEW u \in Threads PROVE Stands(thread[u])'
    <3>1. thread'[u] = thread[u] /\ Stands(thread[u]) /\ watched' = watched
      BY <1>1 DEF Sound, Standing
    <3>2. /\ thread[u].at \in OnEntry => thread[u].ptr \in Pointers
          /\ thread[u].walk = "print" => thread[u].found \in Pointers
      BY <1>3 DEF CallOK
    <3> QED BY <1>5, <1>7, <3>1, <3>2 DEF Stands
  <2>2. \A k \in Leaving' : k \notin held' /\ k # First /\ Live(k)' /\ LeadsOn(k)'
    BY <1>1, <1>2, <1>3, <1>5, <1>7, <1>14 DEF Sound, InOrder
  <2>3. held' \subseteq Pointers' \ {First} /\ Live(First)'
    BY <1>1, <1>2, <1>4, <1>5 DEF Sound, Standing
  <2> QED BY <2>1, <2>2, <2>3 DEF Standing
<1>19. Heads'
  <2> SUFFICES ASSUME NEW u \in Threads, thread[u].at = "head"
               PROVE  /\ node'[thread[u].ptr].next = Head1'
                      /\ \A q \in (held \union Leaving)' : q < thread[u].ptr
    BY <1>1 DEF Heads
  <2>1. p # First /\ thread[u].ptr \in Pointers /\ thread[u].ptr # p
    BY DEF DeleteLink, ListInv, FreshOK, Fresh
  <2>2. Head1' = Head1 /\ node'[thread[u].ptr].next = node[thread[u].ptr].next
    BY <1>1, <1>4, <2>1 DEF Head1, NextOf
  <2>3. (held \union Leaving)' \subseteq held
    BY <1>1, <1>2, <1>7
  <2> QED BY <2>2, <2>3 DEF Sound, Heads
<1>20. Searched'
  <2> SUFFICES ASSUME NEW u \in Threads PROVE HasSearched(thread[u])'
    BY DEF Searched
  <2>1. thread'[u] = thread[u] /\ HasSearched(thread[u])
    BY <1>1 DEF Sound, Searched
  <2>2. Mates(thread[u])' = Mates(thread[u]) \ {x}
    BY <1>1, <1>2, <1>4 DEF Mates, Mine
  <2>3. Below(thread[u].ptr)' = Below(thread[u].ptr) \ {x}
    BY <1>1, <2>1 DEF Below
  <2> QED BY <2>1, <2>2, <2>3 DEF HasSearched
<1>21. Ageing'
  BY <1>1, <1>2, <1>6, <1>9 DEF Ageing
<1> QED BY <1>16, <1>17, <1>18, <1>19, <1>20, <1>21 DEF Sound

LEMMA DeleteFreeSound ==
  ASSUME ListInv, ListInv', Sound, DeleteFree
  PROVE  Sound'
<1> PICK x : x = age.nx
  OBVIOUS
<1>1. /\ TypeOK /\ age \in Passes /\ First \in Pointers /\ age.at = "free"
      /\ node' = [node EXCEPT ![x].freed = TRUE] /\ held' = held
      /\ thread' = thread /\ x \in Pointers \ {First}
  BY Types, Nodes DEF ListInv, DeleteFree, Age, AgeOK
<1>2. /\ Leaving = {x} /\ x \notin held /\ held \subseteq Pointers \ {First}
  BY <1>1 DEF Leaving, Sound, Standing
<1>3. /\ Pointers' = Pointers
      /\ \A k \in Pointers :
           /\ node'[k].next = node[k].next
           /\ node'[k].freed = IF k = x THEN TRUE ELSE node[k].freed
           /\ node'[k].rid = node[k].rid /\ node'[k].net = node[k].net
  BY <1>1, Fields
<1>4. age'.at = "advance" /\ age'.ptr = age.ptr
  BY <1>1 DEF DeleteFree, Passes
<1>5. Leaving' = {} /\ Path' = Path \ {x}
  BY <1>1, <1>2, <1>4 DEF Leaving, Path
<1>6. \A k \in Pointers : k # x => Live(k)' = Live(k)
  BY <1>3 DEF Live
<1>7. \A k : Below(k)' = Below(k)
  BY <1>1 DEF Below
<1>8. InOrder' /\ OneEntry'
  <2>1. \A k \in held' : Live(k)'
    BY <1>1, <1>2, <1>6 DEF Sound, InOrder
  <2>2. \A k \in held' \union {First} : LeadsOn(k)'
    BY <1>1, <1>2, <1>3, <1>7 DEF Sound, InOrder, LeadsOn
  <2>3. OneEntry'
    BY <1>1, <1>2, <1>3 DEF Sound, OneEntry
  <2> QED BY <2>1, <2>2, <2>3 DEF InOrder
<1>9. Standing'
  <2>1. ASSUME NEW u \in Threads PROVE Stands(thread[u])'
    <3>1. /\ thread'[u] = thread[u] /\ Stands(thread[u])
          /\ thread[u] \in Calls /\ CallOK(thread[u])
      BY <1>1, Types DEF Sound, Standing, ListInv, CallsOK
    <3>2. watched => watched'
      BY DEF DeleteFree
    <3>3. x \in {thread[u].ptr, thread[u].found} => watched'
      BY DEF DeleteFree
    <3>4. thread[u].at \in OnEntry =>
            IF Live(thread[u].ptr)' THEN thread[u].ptr \in Path' ELSE watched'
      <4>1. ASSUME thread[u].at \in OnEntry, ~watched'
            PROVE  Live(thread[u].ptr)' /\ thread[u].ptr \in Path'
        <5>1. /\ thread[u].ptr \in Pointers /\ thread[u].ptr # x
              /\ Live(thread[u].ptr) /\ thread[u].ptr \in Path
          BY <3>1, <3>2, <3>3, <4>1 DEF CallOK, Stands
        <5> QED BY <1>1, <1>3, <1>5, <5>1 DEF Live
      <4>2. CASE watched'
        <5>1. Live(thread[u].ptr)' => thread[u].ptr # x
          BY <1>1, <1>3 DEF Live
        <5>2. ASSUME thread[u].at \in OnEntry, Live(thread[u].ptr)'
              PROVE  thread[u].ptr \in Path'
          <6>1. thread[u].ptr \in Pointers /\ thread[u].ptr # x /\ Live(thread[u].ptr)
            BY <1>1, <1>3, <3>1, <5>1, <5>2 DEF CallOK, Live
          <6> QED BY <1>5, <3>1, <5>2, <6>1 DEF Stands
        <5> QED BY <4>2, <5>2
      <4> QED BY <4>1, <4>2
    <3>5. thread[u].walk = "print" /\ ~Live(thread[u].found)' => watched'
      <4> SUFFICES ASSUME thread[u].walk = "print", ~watched'
                   PROVE  Live(thread[u].found)'
        OBVIOUS
      <4>1. /\ thread[u].found \in Pointers /\ thread[u].found # x
            /\ Live(thread[u].found)
        BY <3>1, <3>2, <3>3 DEF CallOK, Stands
      <4> QED BY <1>1, <1>3, <4>1 DEF Live
    <3> QED BY <3>1, <3>4, <3>5 DEF Stands
  <2>2. held' \subseteq Pointers' \ {First} /\ Live(First)'
    BY <1>1, <1>2, <1>3, <1>6 DEF Sound, Standing
  <2> QED BY <1>5, <2>1, <2>2 DEF Standing
<1>10. Heads'
  <2> SUFFICES ASSUME NEW u \in Threads, thread[u].at = "head"
               PROVE  /\ node'[thread[u].ptr].next = Head1'
                      /\ \A q \in (held \union Leaving)' : q < thread[u].ptr
    BY <1>1 DEF Heads
  <2>1. thread[u].ptr \in Pointers
    BY DEF ListInv, FreshOK, Fresh
  <2>2. Head1' = Head1 /\ node'[thread[u].ptr].next = node[thread[u].ptr].next
    BY <1>1, <1>3, <2>1 DEF Head1, NextOf
  <2> QED BY <1>1, <1>5, <2>2 DEF Sound, Heads
<1>11. Searched'
  <2> SUFFICES ASSUME NEW u \in Threads PROVE HasSearched(thread[u])'
    BY DEF Searched
  <2>1. thread'[u] = thread[u] /\ HasSearched(thread[u])
    BY <1>1 DEF Sound, Searched
  <2>2. Mates(thread[u])' = Mates(thread[u])
    BY <1>1, <1>2, <1>3 DEF Mates, Mine
  <2>3. Below(thread[u].ptr)' = Below(thread[u].ptr)
    BY <1>1, <2>1 DEF Below
  <2> QED BY <2>1, <2>2, <2>3 DEF HasSearched
<1>12. Ageing'
  BY <1>1, <1>4 DEF Sound, Ageing
<1> QED BY <1>8, <1>9, <1>10, <1>11, <1>12 DEF Sound

LEMMA StoreSound ==
  ASSUME ListInv, ListInv', Sound, AgeStore
  PROVE  Sound'
<1>1. /\ TypeOK /\ age \in Passes /\ age.at = "store" /\ age.val \in 0..Timeout
      /\ node' = [node EXCEPT ![age.nx].age = age.val]
      /\ UNCHANGED <<thread, fault, history>> /\ age.nx \in Pointers
      /\ age'.at = "advance" /\ age'.ptr = age.ptr
  BY Types DEF ListInv, AgeStore, Age, Passes, AgeOK
<1>2. /\ Pointers' = Pointers /\ \A k \in Pointers : SameNode(k)
  <2>1. /\ Pointers' = Pointers
        /\ \A k \in Pointers :
             /\ NextOf(k)' = NextOf(k) /\ Live(k)' = Live(k)
             /\ node'[k].rid = node[k].rid /\ node'[k].net = node[k].net
    BY <1>1, AgeWritten DEF ListInv
  <2>2. \A k \in Pointers : node'[k].freed = node[k].freed
    BY <1>1
  <2> QED BY <2>1, <2>2 DEF SameNode, NextOf
<1>3. held' = held /\ watched' = watched /\ held \subseteq Pointers
      /\ First \in Pointers
  BY <1>1, Types, Nodes DEF history
<1>4. /\ InOrder' /\ OneEntry' /\ (Head1)' = Head1
      /\ \A p \in Pointers : /\ Live(p)' = Live(p) /\ (LeadsOn(p) => LeadsOn(p)')
                             /\ Below(p)' = Below(p)
      /\ \A c \in Calls : Mates(c)' = Mates(c)
  BY <1>2, <1>3, SameShape
<1>5. Leaving' = {} /\ Leaving = {} /\ Path' = Path
  BY <1>1, <1>3 DEF Leaving, Path
<1>6. \A u \in Threads : /\ thread'[u] = thread[u] /\ thread[u] \in Calls
                         /\ CallOK(thread[u])
  BY <1>1, Types DEF ListInv, CallsOK
<1>7. Standing'
  <2>1. ASSUME NEW u \in Threads PROVE Stands(thread[u])'
    <3>1. Stands(thread[u])
      BY DEF Sound, Standing
    <3>2. /\ thread[u].at \in OnEntry => thread[u].ptr \in Pointers
          /\ thread[u].walk = "print" => thread[u].found \in Pointers
      BY <1>6 DEF CallOK
    <3> QED BY <1>3, <1>4, <1>5, <1>6, <3>1, <3>2 DEF Stands
  <2> QED BY <1>2, <1>3, <1>4, <1>5, <2>1 DEF Sound, Standing
<1>8. Heads'
  <2> SUFFICES ASSUME NEW u \in Threads, thread[u].at = "head"
               PROVE  /\ node'[thread[u].ptr].next = Head1'
                      /\ \A q \in (held \union Leaving)' : q < thread[u].ptr
    BY <1>1 DEF Heads
  <2>1. thread[u].ptr \in Pointers
    BY DEF ListInv, FreshOK, Fresh
  <2> QED BY <1>2, <1>3, <1>4, <1>5, <2>1 DEF Sound, Heads, SameNode
<1>9. Searched'
  <2> SUFFICES ASSUME NEW u \in Threads PROVE HasSearched(thread[u])'
    BY DEF Searched
  <2>1. HasSearched(thread[u])
    BY DEF Sound, Searched
  <2>2. Mates(thread[u])' = Mates(thread[u])
    BY <1>2, <1>3, <1>6 DEF Mates, Mine, SameNode
  <2>3. Below(thread[u].ptr)' = Below(thread[u].ptr)
    BY <1>3, <1>6 DEF Below
  <2> QED BY <1>6, <2>1, <2>2, <2>3 DEF HasSearched
<1>10. Ageing'
  BY <1>1, <1>3 DEF Sound, Ageing
<1> QED BY <1>4, <1>7, <1>8, <1>9, <1>10 DEF Sound

\* What is used and was freed was freed under a thread.
LEMMA FaultWatched ==
  ASSUME ListInv, Sound, UseAfterFree
  PROVE  watched
<1>1. PICK p \in Pointers : ~Live(p) /\ Uses(p)
  BY DEF UseAfterFree
<1>2. CASE \E t \in Threads :
             \/ thread[t].at \in {"next", "test", "renew", "rest"} /\ p = thread[t].ptr
             \/ thread[t].at = "decide" /\ p = thread[t].found
  <2>1. PICK t \in Threads :
             \/ thread[t].at \in {"next", "test", "renew", "rest"} /\ p = thread[t].ptr
             \/ thread[t].at = "decide" /\ p = thread[t].found
    BY <1>2
  <2>2. Stands(thread[t]) /\ CallOK(thread[t])
    BY DEF Sound, Standing, ListInv, CallsOK
  <2> QED BY <1>1, <2>1, <2>2 DEF Stands, CallOK, OnEntry
<1>3. CASE age.at \in {"look", "print"} /\ p = age.ptr
  BY <1>1, <1>3 DEF Sound, Ageing, InOrder, Standing
<1>4. CASE age.at \in {"test", "load"} /\ p = NextOf(age.ptr)
  BY <1>1, <1>4 DEF Sound, Ageing, InOrder, Behind, NextOf
<1>5. CASE age.at \in {"old", "raise", "store"} /\ p = age.nx
  BY <1>1, <1>5 DEF Sound, Ageing, InOrder
<1>6. CASE age.at = "free" /\ p = age.nx
  BY <1>1, <1>6 DEF Sound, Standing, Leaving
<1> QED BY <1>1, <1>2, <1>3, <1>4, <1>5, <1>6 DEF Uses

LEMMA SoundNext == IInv /\ [Next]_vars => IInv'
<1> SUFFICES ASSUME IInv, [Next]_vars PROVE IInv'
  OBVIOUS
<1>1. ListInv /\ ListInv'
  BY ListNext DEF IInv
<1>2. ASSUME UNCHANGED vars PROVE IInv'
  <2>1. Sound => Sound'
    BY <1>2 DEF vars, history, Sound, InOrder, OneEntry, Standing, Heads, Searched,
       Ageing, Live, LeadsOn, Below, Stands, Path, Leaving, Head1, NextOf, HasSearched,
       Mates, Mine, Behind, Pointers
  <2> QED BY <1>1, <1>2, <2>1 DEF IInv, vars, history
<1>3. ASSUME UseAfterFree PROVE IInv'
  <2>1. /\ UNCHANGED <<node, thread, age, history>> /\ fault' = TRUE
    BY <1>3 DEF UseAfterFree
  <2>2. Sound => Sound'
    BY <2>1 DEF history, Sound, InOrder, OneEntry, Standing, Heads, Searched,
       Ageing, Live, LeadsOn, Below, Stands, Path, Leaving, Head1, NextOf, HasSearched,
       Mates, Mine, Behind, Pointers
  <2>3. ~overlap => watched
    BY <1>1, <1>3, FaultWatched DEF IInv
  <2> QED BY <1>1, <2>1, <2>2, <2>3 DEF IInv, history
<1>4. ASSUME NEW t \in Threads,
             ThreadStep(t) \/ \E l \in Lsus : Arrive(t, l)
      PROVE  IInv'
  <2>1. /\ ~fault /\ fault' = fault /\ (overlap => overlap')
    <3>1. ~fault
      BY <1>4 DEF ThreadStep, Follow, EndWalk, CheckTest, Decide, RefreshTest,
         RenewAge, RenewRest, AddTest, AddAlone, LinkNext, LinkHead, Arrive, Thread
    <3>2. CASE LinkHead(t)
      BY <3>1, <3>2 DEF LinkHead
    <3>3. CASE ~LinkHead(t)
      <4>1. UNCHANGED <<fault, history>>
        BY <1>4, <3>3 DEF ThreadStep, Follow, EndWalk, CheckTest, Decide, RefreshTest,
           RenewAge, RenewRest, AddTest, AddAlone, LinkNext, Arrive
      <4> QED BY <3>1, <4>1 DEF history
    <3> QED BY <3>2, <3>3
  <2>2. ASSUME ~overlap' PROVE Sound'
    <3>1. Sound
      BY <2>1, <2>2 DEF IInv
    <3>2. CASE \E l \in Lsus : Arrive(t, l)
      BY <1>1, <3>1, <3>2, ArriveSound
    <3>3. CASE AddAlone(t) \/ LinkNext(t)
      BY <1>1, <3>1, <3>3, MakeSound
    <3>4. CASE LinkHead(t)
      BY <1>1, <2>2, <3>1, <3>4, LinkHeadSound
    <3>5. CASE \/ Follow(t) \/ EndWalk(t) \/ CheckTest(t) \/ Decide(t) \/ RefreshTest(t)
               \/ RenewRest(t) \/ AddTest(t) \/ RenewAge(t)
      BY <1>1, <3>1, <3>5, QuietSound
    <3> QED BY <1>4, <3>2, <3>3, <3>4, <3>5 DEF ThreadStep
  <2> QED BY <1>1, <2>1, <2>2 DEF IInv
<1>5. ASSUME AgeStep PROVE IInv'
  <2>1. /\ ~fault /\ fault' = fault /\ (overlap => overlap')
    <3>1. ~fault
      BY <1>5 DEF AgeStep, AgeWake, LookEnd, Look, LookAge, DeleteTemp, DeleteTest,
         DeleteLoad, DeleteLink, DeleteFree, AgePointer, AgeLoad, AgeStore, Advance,
         PrintOn, Age
    <3>2. CASE DeleteLink
      BY <3>1, <3>2 DEF DeleteLink
    <3>4. CASE DeleteFree
      BY <3>1, <3>4 DEF DeleteFree
    <3>3. CASE ~(DeleteLink \/ DeleteFree)
      <4>1. UNCHANGED <<fault, history>>
        BY <1>5, <3>3 DEF AgeStep, AgeWake, LookEnd, Look, LookAge, DeleteTemp,
           DeleteTest, DeleteLoad, AgePointer, AgeLoad, AgeStore, Advance, PrintOn
      <4> QED BY <3>1, <4>1 DEF history
    <3> QED BY <3>2, <3>3, <3>4
  <2>2. ASSUME ~overlap' PROVE Sound'
    <3>1. Sound
      BY <2>1, <2>2 DEF IInv
    <3>2. CASE DeleteLink
      BY <1>1, <2>2, <3>1, <3>2, DeleteLinkSound
    <3>3. CASE DeleteFree
      BY <1>1, <3>1, <3>3, DeleteFreeSound
    <3>4. CASE AgeStore
      BY <1>1, <3>1, <3>4, StoreSound
    <3>5. CASE \/ AgeWake \/ LookEnd \/ Look \/ LookAge \/ DeleteTemp \/ DeleteTest
               \/ DeleteLoad \/ AgePointer \/ AgeLoad \/ Advance \/ PrintOn
      BY <1>1, <3>1, <3>5, QuietAgeSound
    <3> QED BY <1>5, <3>2, <3>3, <3>4, <3>5 DEF AgeStep
  <2> QED BY <1>1, <2>1, <2>2 DEF IInv
<1> QED BY <1>2, <1>3, <1>4, <1>5 DEF Next, Arrivals

\* Until two threads are in each other's way at the head of the list or over the
\* same entry, none is lost, doubled or left in it when it is freed; and memory is
\* used wrongly only then, or after an entry was freed under the thread at it.
THEOREM TableIsSound == Spec => []TableSound
<1>1. Init => IInv
  BY ListInit, SoundInit DEF IInv, Init
<1>2. IInv => TableSound
  BY DEF IInv, Sound, TableSound
<1> QED BY <1>1, <1>2, SoundNext, PTL DEF Spec
=============================================================================
