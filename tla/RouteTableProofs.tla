-------------------------- MODULE RouteTableProofs --------------------------
(***************************************************************************)
(* Invariants of RouteTable, for any number of searches, any routing table *)
(* and any interfaces: whatever the threads do to the list at once, it     *)
(* never closes to a ring, and the routes of the file stay at its front;   *)
(* and until two of them overlap it is a chain of all that is not freed.   *)
(***************************************************************************)
EXTENDS RouteTable, TLAPS, SequenceTheorems, WellFoundedInduction

Cells ==
    {Raw, Freed}
        \cup [state : {"set"}, net : Nets, kind : {"static", "direct", "dynamic"},
              by : 0 .. MaxSearches, next : Nat]

States == {"idle", "test", "skip", "delete", "load", "store", "free",
           "check", "first", "reread", "tail", "link", "own", "fill", "look"}

NodesOK ==
    /\ node \in Seq(Cells)
    /\ \A p \in 1 .. Len(node) :
          node[p].state = "set" => node[p].next \in 0 .. Len(node)

SharedOK ==
    /\ statics \in Nat /\ statics <= Len(node)
    /\ head \in Pointer /\ best \in Pointer
    /\ net \in Dests
    /\ searches \in 0 .. MaxSearches

LocalsOK ==
    /\ pc \in [Threads -> States]
    /\ entry \in [Threads -> Pointer]
    /\ temp \in [Writers -> Pointer]
    /\ succ \in [Writers -> Pointer]
    /\ todo \in [Writers -> Seq(Nets)]
    /\ pc[Main] \in {"idle", "look"}

\* What a writer knows where it is.  A search that deletes is past the routes of the
\* file, for the one behind its entry was dynamic when it looked; one that adds is at
\* the end of the list, or the file was empty.
WriterOK(w) ==
    /\ pc[w] \in {"check", "first", "reread", "tail", "link", "own", "fill"} => todo[w] # <<>>
    /\ pc[w] \in {"test", "skip", "delete", "load", "store", "free",
                  "tail", "link", "own", "fill"} => entry[w] # NoNode
    /\ pc[w] \in {"delete", "load", "store", "link", "own"} => entry[w] >= statics
    /\ pc[w] \in {"load", "store", "free"} => temp[w] = NoNode \/ temp[w] > statics
    /\ pc[w] = "store" => succ[w] = NoNode \/ succ[w] > entry[w]
    /\ pc[w] = "fill" => entry[w] > statics
    /\ pc[w] \in {"first", "reread"} => statics = 0
    /\ pc[w] = "reread" => head # NoNode

WritersOK == \A w \in Writers : WriterOK(w)

ListOK == NodesOK /\ ListAscends /\ StaticRoutesStay

IInv == ListOK /\ SharedOK /\ LocalsOK /\ WritersOK

-----------------------------------------------------------------------------
\* The list

LEMMA Nodes ==
    ASSUME NodesOK
    PROVE  /\ Len(node) \in Nat /\ Pointer = 0 .. Len(node)
           /\ \A p \in 1 .. Len(node) : node[p] \in Cells
<1>1. node \in Seq(Cells)
  BY DEF NodesOK
<1> QED BY <1>1, LenProperties, ElementOfSeq DEF Pointer

LEMMA CellFields ==
    /\ Raw \in Cells /\ Freed \in Cells /\ Raw.state = "raw" /\ Freed.state = "freed"
    /\ \A c \in Cells :
          c.state = "set" =>
              /\ c \in [state : {"set"}, net : Nets, kind : {"static", "direct", "dynamic"},
                        by : 0 .. MaxSearches, next : Nat]
              /\ \A k \in Nat :
                    /\ [c EXCEPT !.next = k] \in Cells
                    /\ [c EXCEPT !.next = k].state = "set"
                    /\ [c EXCEPT !.next = k].kind = c.kind
                    /\ [c EXCEPT !.next = k].next = k
BY DEF Cells, Raw, Freed

LEMMA RouteFields ==
    ASSUME NEW n \in Nets, NEW kind \in {"static", "direct", "dynamic"},
           NEW by \in 0 .. MaxSearches
    PROVE  /\ Route(n, kind, by) \in Cells
           /\ Route(n, kind, by).state = "set" /\ Route(n, kind, by).kind = kind
           /\ Route(n, kind, by).next = NoNode
BY DEF Route, Cells, NoNode

\* One node behind the routes of the file is replaced.
LEMMA Replaced ==
    ASSUME IInv, NEW p \in 1 .. Len(node), p > statics, NEW c \in Cells,
           c.state = "set" => c.next = NoNode \/ c.next \in p + 1 .. Len(node),
           node' = [node EXCEPT ![p] = c], statics' = statics, head' = head
    PROVE  ListOK' /\ Len(node') = Len(node)
<1>1. node \in Seq(Cells) /\ Len(node) \in Nat /\ statics \in Nat
  BY Nodes DEF IInv, ListOK, NodesOK, SharedOK
<1>2. /\ node' \in Seq(Cells) /\ Len(node') = Len(node)
      /\ \A k \in 1 .. Len(node) : node'[k] = IF k = p THEN c ELSE node[k]
  BY <1>1, ExceptSeq
<1>3. NodesOK'
  BY <1>1, <1>2 DEF NodesOK, IInv, ListOK, NoNode
<1>4. ListAscends'
  BY <1>1, <1>2 DEF ListAscends, IInv, ListOK, NoNode
<1>5. StaticRoutesStay'
  BY <1>1, <1>2 DEF StaticRoutesStay, Sound, IInv, ListOK
<1> QED BY <1>2, <1>3, <1>4, <1>5 DEF ListOK

\* A node from the last route of the file on is made to point to a later one.
LEMMA Redirected ==
    ASSUME IInv, NEW p \in 1 .. Len(node), node[p].state = "set", p >= statics,
           NEW k \in 0 .. Len(node), k = NoNode \/ k > p,
           node' = [node EXCEPT ![p].next = k], statics' = statics, head' = head
    PROVE  ListOK' /\ Len(node') = Len(node)
<1> DEFINE c == [node[p] EXCEPT !.next = k]
<1>1. node \in Seq(Cells) /\ Len(node) \in Nat /\ statics \in Nat /\ node[p] \in Cells
  BY Nodes DEF IInv, ListOK, NodesOK, SharedOK
<1>2. c \in Cells /\ c.state = "set" /\ c.kind = node[p].kind /\ c.next = k
  BY <1>1, CellFields
<1>3. node' = [node EXCEPT ![p] = c]
  BY <1>1, LenProperties
<1> HIDE DEF c
<1>4. /\ node' \in Seq(Cells) /\ Len(node') = Len(node)
      /\ \A q \in 1 .. Len(node) : node'[q] = IF q = p THEN c ELSE node[q]
  BY <1>1, <1>2, <1>3, ExceptSeq
<1>5. NodesOK'
  BY <1>1, <1>2, <1>4 DEF NodesOK, IInv, ListOK
<1>6. ListAscends'
  BY <1>1, <1>2, <1>4 DEF ListAscends, IInv, ListOK
<1>7. StaticRoutesStay'
  BY <1>1, <1>2, <1>4 DEF StaticRoutesStay, Sound, IInv, ListOK
<1> QED BY <1>4, <1>5, <1>6, <1>7 DEF ListOK

\* malloc, with nothing pointing to the new node.
LEMMA Allocated ==
    ASSUME IInv, node' = Append(node, Raw), statics' = statics,
           head' = head \/ statics = 0
    PROVE  ListOK' /\ Len(node') = Len(node) + 1
<1>1. node \in Seq(Cells) /\ Len(node) \in Nat /\ statics \in Nat /\ statics <= Len(node)
  BY Nodes DEF IInv, ListOK, NodesOK, SharedOK
<1>2. /\ node' \in Seq(Cells) /\ Len(node') = Len(node) + 1
      /\ \A q \in 1 .. Len(node) : node'[q] = node[q]
      /\ node'[Len(node) + 1] = Raw
  BY <1>1, CellFields, AppendProperties
<1>3. NodesOK'
  BY <1>1, <1>2, CellFields DEF NodesOK, IInv, ListOK
<1>4. ListAscends'
  BY <1>1, <1>2, CellFields DEF ListAscends, IInv, ListOK
<1>5. StaticRoutesStay'
  BY <1>1, <1>2 DEF StaticRoutesStay, Sound, IInv, ListOK
<1> QED BY <1>2, <1>3, <1>4, <1>5 DEF ListOK

\* malloc, with the last entry of the list pointing to the new node.
LEMMA Linked ==
    ASSUME IInv, NEW p \in 1 .. Len(node), node[p].state = "set", p >= statics,
           node' = Append([node EXCEPT ![p].next = Len(node) + 1], Raw),
           statics' = statics, head' = head
    PROVE  ListOK' /\ Len(node') = Len(node) + 1
<1> DEFINE c == [node[p] EXCEPT !.next = Len(node) + 1]
<1>1. /\ node \in Seq(Cells) /\ statics \in Nat /\ node[p] \in Cells
      /\ Len(node) \in Nat /\ Len(node) + 1 \in Nat
  BY Nodes DEF IInv, ListOK, NodesOK, SharedOK
<1>2. /\ c \in Cells /\ c.state = "set" /\ c.kind = node[p].kind
      /\ c.next = Len(node) + 1
  BY <1>1, CellFields
<1> DEFINE n == [node EXCEPT ![p] = c]
<1>3. node' = Append(n, Raw)
  BY <1>1, LenProperties
<1> HIDE DEF c
<1>4. /\ n \in Seq(Cells) /\ Len(n) = Len(node)
      /\ \A q \in 1 .. Len(node) : n[q] = IF q = p THEN c ELSE node[q]
  BY <1>1, <1>2, ExceptSeq
<1> HIDE DEF n
<1>5. /\ node' \in Seq(Cells) /\ Len(node') = Len(node) + 1
      /\ \A q \in 1 .. Len(node) : node'[q] = n[q]
      /\ node'[Len(node) + 1] = Raw
  <2>1. Raw \in Cells
    BY CellFields
  <2>2. /\ Append(n, Raw) \in Seq(Cells) /\ Len(Append(n, Raw)) = Len(n) + 1
        /\ \A q \in 1 .. Len(n) : Append(n, Raw)[q] = n[q]
        /\ Append(n, Raw)[Len(n) + 1] = Raw
    BY <1>4, <2>1, AppendProperties
  <2> QED BY <1>3, <1>4, <2>2
<1>6. NodesOK'
  BY <1>1, <1>2, <1>4, <1>5, CellFields DEF NodesOK, IInv, ListOK
<1>7. ListAscends'
  BY <1>1, <1>2, <1>4, <1>5, CellFields DEF ListAscends, IInv, ListOK
<1>8. StaticRoutesStay'
  <2>1. statics <= Len(node)
    BY DEF IInv, SharedOK
  <2> QED BY <1>1, <1>2, <1>4, <1>5, <2>1 DEF StaticRoutesStay, Sound, IInv, ListOK
<1> QED BY <1>5, <1>6, <1>7, <1>8 DEF ListOK

\* The list is left alone.
LEMMA Unchanged ==
    ASSUME IInv, node' = node, statics' = statics, head' = head
    PROVE  ListOK' /\ Len(node') = Len(node)
BY DEF IInv, ListOK, NodesOK, ListAscends, StaticRoutesStay, Sound

-----------------------------------------------------------------------------
\* The threads

LEMMA ThreadsOK ==
    /\ Writers \subseteq Threads /\ Main \in Threads /\ Main \notin Writers
    /\ Setup \in Writers /\ Searches \subseteq Writers
BY ThreadsDiffer DEF Threads, Writers

\* Steps of one writer leave the others where they are.
Others(w) ==
    /\ \A v \in Writers \ {w} :
          /\ pc'[v] = pc[v] /\ entry'[v] = entry[v] /\ todo'[v] = todo[v]
          /\ temp'[v] = temp[v] /\ succ'[v] = succ[v]
    /\ statics' = statics
    /\ head' = head \/ head' # NoNode

LEMMA WriterStep ==
    ASSUME IInv, NEW w \in Writers, Others(w), ListOK', SharedOK', LocalsOK', WriterOK(w)'
    PROVE  IInv'
<1>1. \A v \in Writers \ {w} : WriterOK(v)'
  BY DEF IInv, WritersOK, WriterOK, Others
<1> QED BY <1>1 DEF IInv, WritersOK

\* What GoOn does to the threads.
LEMMA GoesOn ==
    ASSUME IInv, NEW w \in Writers, NEW list \in Seq(Nets), GoOn(w, list),
           Pointer \subseteq Pointer', temp' = temp, succ' = succ, statics' = statics,
           head' = head \/ head' # NoNode
    PROVE  LocalsOK' /\ WriterOK(w)' /\ Others(w)
<1>1. /\ pc' \in [Threads -> States]
      /\ pc'[w] \in {"idle", "check"} /\ (pc'[w] = "check" => list # <<>>)
      /\ \A t \in Threads \ {w} : pc'[t] = pc[t]
  BY ThreadsOK DEF GoOn, Go, IInv, LocalsOK, States
<1>2. /\ entry' \in [Threads -> Pointer']
      /\ \A t \in Threads \ {w} : entry'[t] = entry[t]
  <2>1. NoNode \in Pointer /\ head \in Pointer
    BY Nodes DEF IInv, ListOK, SharedOK, NoNode
  <2> QED BY <2>1, ThreadsOK DEF GoOn, Walk, IInv, LocalsOK
<1>3. /\ todo' \in [Writers -> Seq(Nets)] /\ todo'[w] = list
      /\ \A v \in Writers \ {w} : todo'[v] = todo[v]
  BY DEF GoOn, IInv, LocalsOK
<1>4. LocalsOK'
  BY <1>1, <1>2, <1>3, ThreadsOK DEF IInv, LocalsOK
<1>5. WriterOK(w)'
  BY <1>1, <1>3 DEF WriterOK
<1> QED BY <1>1, <1>2, <1>3, <1>4, <1>5, ThreadsOK DEF Others

\* NetDone goes on behind the first network.
LEMMA DoneGoesOn ==
    ASSUME IInv, NEW w \in Writers, NetDone(w), todo[w] # <<>>,
           Pointer \subseteq Pointer', temp' = temp, succ' = succ, statics' = statics,
           head' = head \/ head' # NoNode
    PROVE  LocalsOK' /\ WriterOK(w)' /\ Others(w)
<1>1. Tail(todo[w]) \in Seq(Nets)
  BY HeadTailProperties DEF IInv, LocalsOK
<1> QED BY <1>1, GoesOn DEF NetDone

\* What the threads share when a step leaves the list alone.
LEMMA SharedSame ==
    ASSUME IInv, node' = node, statics' = statics, head' = head, best' = best, net' = net,
           searches' = searches
    PROVE  SharedOK' /\ Pointer' = Pointer /\ ListOK'
BY Unchanged DEF IInv, SharedOK, Pointer

LEMMA InitOK == Init => IInv
<1> SUFFICES ASSUME Init PROVE IInv
  OBVIOUS
<1>1. PICK table \in StaticTables :
          /\ statics = Len(table)
          /\ node = Linking(table)
          /\ head = IF table = <<>> THEN NoNode ELSE 1
  BY DEF Init
<1>2. /\ table \in Seq(Nets) /\ Len(table) \in Nat /\ DOMAIN table = 1 .. Len(table)
      /\ (table = <<>> <=> Len(table) = 0)
      /\ \A i \in 1 .. Len(table) : table[i] \in Nets
  BY TablesAssumption, LenProperties, EmptySeq, ElementOfSeq
<1>3. \A i \in 1 .. Len(table) :
          LET c == [Route(table[i], "static", 0) EXCEPT
                      !.next = IF i < Len(table) THEN i + 1 ELSE NoNode]
          IN  /\ c \in Cells /\ c.state = "set" /\ c.kind = "static"
              /\ c.next = IF i < Len(table) THEN i + 1 ELSE NoNode
  <2> SUFFICES ASSUME NEW i \in 1 .. Len(table)
               PROVE  LET c == [Route(table[i], "static", 0) EXCEPT
                                  !.next = IF i < Len(table) THEN i + 1 ELSE NoNode]
                      IN  /\ c \in Cells /\ c.state = "set" /\ c.kind = "static"
                          /\ c.next = IF i < Len(table) THEN i + 1 ELSE NoNode
    OBVIOUS
  <2>1. 0 \in 0 .. MaxSearches
    BY BoundAssumption
  <2>2. /\ Route(table[i], "static", 0) \in Cells
        /\ Route(table[i], "static", 0).state = "set"
        /\ Route(table[i], "static", 0).kind = "static"
    BY <1>2, <2>1, RouteFields
  <2>3. (IF i < Len(table) THEN i + 1 ELSE NoNode) \in Nat
    BY <1>2 DEF NoNode
  <2> QED BY <2>2, <2>3, CellFields
<1>4. /\ node \in Seq(Cells) /\ Len(node) = Len(table)
      /\ \A i \in 1 .. Len(table) :
            /\ node[i].state = "set" /\ node[i].kind = "static"
            /\ node[i].next = IF i < Len(table) THEN i + 1 ELSE NoNode
  <2>1. /\ node = [i \in 1 .. Len(table) |-> node[i]]
        /\ \A i \in 1 .. Len(table) :
              node[i] = [Route(table[i], "static", 0) EXCEPT
                           !.next = IF i < Len(table) THEN i + 1 ELSE NoNode]
    BY <1>1 DEF Linking
  <2>2. \A i \in 1 .. Len(table) : node[i] \in Cells
    BY <1>3, <2>1
  <2>3. node \in Seq(Cells)
    BY <1>2, <2>1, <2>2, IsASeq
  <2>4. Len(node) = Len(table)
    BY <1>2, <2>1, <2>3, LenProperties
  <2> QED BY <1>3, <2>1, <2>3, <2>4
<1>5. ListOK
  BY <1>1, <1>2, <1>4 DEF ListOK, NodesOK, ListAscends, StaticRoutesStay, Sound, NoNode
<1>6. SharedOK
  BY <1>1, <1>2, <1>4, BoundAssumption DEF Init, SharedOK, Pointer, NoNode
<1>7. LocalsOK
  <2>1. entry \in [Threads -> Pointer]
    BY <1>6 DEF Init, SharedOK, Pointer, NoNode
  <2>2. todo \in [Writers -> Seq(Nets)]
    BY IfacesAssumption DEF Init
  <2>3. /\ pc \in [Threads -> States]
        /\ pc[Main] \in {"idle", "look"}
    BY ThreadsOK DEF Init, States
  <2>4. temp \in [Writers -> Pointer] /\ succ \in [Writers -> Pointer]
    BY <1>1, <1>2, <1>4 DEF Init, Pointer, NoNode
  <2> QED BY <2>1, <2>2, <2>3, <2>4 DEF LocalsOK
<1>8. WritersOK
  BY ThreadsOK, IfacesAssumption DEF Init, WritersOK, WriterOK
<1> QED BY <1>5, <1>6, <1>7, <1>8 DEF IInv

-----------------------------------------------------------------------------
\* The steps

\* What a step of one writer does to the threads when no network is done with.
LEMMA Local ==
    ASSUME IInv, NEW w \in Writers, Pointer \subseteq Pointer',
           pc' = pc \/ \E s \in States : Go(w, s),
           entry' = entry \/ \E p \in Pointer' : Walk(w, p),
           temp' = temp \/ \E p \in Pointer' : temp' = [temp EXCEPT ![w] = p],
           succ' = succ \/ \E p \in Pointer' : succ' = [succ EXCEPT ![w] = p],
           todo' = todo, statics' = statics, head' = head \/ head' # NoNode
    PROVE  LocalsOK' /\ Others(w)
<1>1. /\ pc' \in [Threads -> States]
      /\ \A t \in Threads \ {w} : pc'[t] = pc[t]
  BY ThreadsOK DEF Go, IInv, LocalsOK
<1>2. /\ entry' \in [Threads -> Pointer']
      /\ \A t \in Threads \ {w} : entry'[t] = entry[t]
  BY ThreadsOK DEF Walk, IInv, LocalsOK
<1>3. /\ temp' \in [Writers -> Pointer'] /\ succ' \in [Writers -> Pointer']
      /\ \A v \in Writers \ {w} : temp'[v] = temp[v] /\ succ'[v] = succ[v]
  BY DEF IInv, LocalsOK
<1>4. LocalsOK'
  BY <1>1, <1>2, <1>3, ThreadsOK DEF IInv, LocalsOK
<1> QED BY <1>1, <1>2, <1>3, <1>4, ThreadsOK DEF Others

\* What one needs of the state in every step of a writer.
LEMMA Known ==
    ASSUME IInv, NEW w \in Writers
    PROVE  /\ WriterOK(w) /\ w \in Threads /\ w \in DOMAIN pc /\ w \in DOMAIN entry
           /\ entry[w] \in Pointer /\ temp[w] \in Pointer /\ succ[w] \in Pointer
           /\ todo[w] \in Seq(Nets) /\ head \in Pointer /\ NoNode \in Pointer
           /\ Pointer = 0 .. Len(node) /\ Len(node) \in Nat
           /\ statics \in Nat /\ statics <= Len(node) /\ searches \in 0 .. MaxSearches
BY Nodes, ThreadsOK DEF IInv, ListOK, SharedOK, LocalsOK, WritersOK, NoNode

\* What one reads from an entry whose fields are set.
LEMMA Fields ==
    ASSUME IInv, NEW p \in Pointer, Sound(p)
    PROVE  /\ p \in 1 .. Len(node) /\ node[p].state = "set"
           /\ node[p].next \in Pointer
           /\ node[p].next = NoNode \/ node[p].next > p
           /\ p < statics => node[p].next = p + 1 /\ node[p + 1].kind = "static"
<1>1. p \in 1 .. Len(node) /\ node[p].state = "set" /\ Len(node) \in Nat /\ statics \in Nat
  BY Nodes DEF Sound, IInv, ListOK, SharedOK
<1>2. node[p].next \in Pointer /\ (node[p].next = NoNode \/ node[p].next > p)
  BY <1>1 DEF IInv, ListOK, NodesOK, ListAscends, Pointer
<1>3. ASSUME p < statics PROVE node[p].next = p + 1 /\ node[p + 1].kind = "static"
  BY <1>1, <1>3 DEF IInv, ListOK, StaticRoutesStay
<1> QED BY <1>1, <1>2, <1>3

\* A network of the list of a writer that has one left.
LEMMA HeadNet ==
    ASSUME IInv, NEW w \in Writers, todo[w] # <<>>
    PROVE  /\ Head(todo[w]) \in Nets /\ Kind(w) \in {"static", "direct", "dynamic"}
           /\ \E c \in Cells : /\ c = Route(Head(todo[w]), Kind(w), searches)
                               /\ c.next = NoNode
<1>1. Head(todo[w]) \in Nets
  BY Known, HeadTailProperties
<1>2. Kind(w) \in {"static", "direct", "dynamic"}
  BY DEF Kind
<1> QED BY <1>1, <1>2, Known, RouteFields

LEMMA BeginOK == ASSUME IInv, NEW s \in Searches, Begin(s) PROVE IInv'
<1>1. s \in Writers /\ Len(node) \in Nat /\ head \in Pointer
  BY ThreadsOK, Known
<1>2. /\ ListOK' /\ Pointer' = Pointer
  BY Unchanged DEF Begin, Pointer
<1>3. SharedOK'
  <2>1. searches' \in 0 .. MaxSearches
    BY BoundAssumption DEF Begin, IInv, SharedOK
  <2> QED BY <2>1 DEF Begin, IInv, SharedOK, Pointer
<1>4. PICK topology \in Topologies :
          IF head = NoNode
          THEN GoOn(s, topology)
          ELSE /\ todo' = [todo EXCEPT ![s] = topology]
               /\ Walk(s, head)
               /\ Go(s, "test")
  BY DEF Begin
<1>5. topology \in Seq(Nets)
  BY TopologiesAssumption
<1>6. CASE head = NoNode
  <2>1. LocalsOK' /\ WriterOK(s)' /\ Others(s)
    BY <1>1, <1>2, <1>4, <1>5, <1>6, GoesOn DEF Begin
  <2> QED BY <1>1, <1>2, <1>3, <2>1, WriterStep
<1>7. CASE head # NoNode
  <2>1. /\ pc' \in [Threads -> States] /\ pc'[s] = "test"
        /\ \A t \in Threads \ {s} : pc'[t] = pc[t]
    BY <1>1, <1>4, <1>7, ThreadsOK DEF Go, IInv, LocalsOK, States
  <2>2. /\ entry' \in [Threads -> Pointer] /\ entry'[s] = head
        /\ \A t \in Threads \ {s} : entry'[t] = entry[t]
    BY <1>1, <1>4, <1>7, ThreadsOK DEF Walk, IInv, LocalsOK
  <2>3. /\ todo' \in [Writers -> Seq(Nets)]
        /\ \A v \in Writers \ {s} : todo'[v] = todo[v]
    BY <1>1, <1>4, <1>5, <1>7 DEF IInv, LocalsOK
  <2>4. LocalsOK' /\ Others(s)
    BY <1>1, <1>2, <2>1, <2>2, <2>3, ThreadsOK DEF IInv, LocalsOK, Others, Begin
  <2>5. WriterOK(s)'
    BY <1>7, <2>1, <2>2 DEF WriterOK
  <2> QED BY <1>1, <1>2, <1>3, <2>4, <2>5, WriterStep
<1> QED BY <1>6, <1>7

LEMMA ClearTestOK == ASSUME IInv, NEW s \in Searches, ClearTest(s) PROVE IInv'
<1> DEFINE next == node[entry[s]].next
<1>1. s \in Writers
  BY ThreadsOK
<1>2. ListOK' /\ SharedOK' /\ Pointer' = Pointer
  BY SharedSame DEF ClearTest
<1>3. /\ pc[s] = "test" /\ Sound(entry[s])
      /\ temp' = temp /\ succ' = succ /\ statics' = statics /\ head' = head
  BY DEF ClearTest, At
<1>4. CASE next = NoNode /\ GoOn(s, todo[s])
  <2>1. LocalsOK' /\ WriterOK(s)' /\ Others(s)
    BY <1>1, <1>2, <1>3, <1>4, Known, GoesOn
  <2> QED BY <1>1, <1>2, <2>1, WriterStep
<1>5. CASE /\ Sound(next)
           /\ Go(s, IF node[next].kind = "dynamic" THEN "delete" ELSE "skip")
           /\ UNCHANGED <<entry, todo>>
  <2>1. LocalsOK' /\ Others(s)
    <3>1. \E st \in States : Go(s, st)
      BY <1>5 DEF States
    <3> QED BY <1>1, <1>2, <1>3, <1>5, <3>1, Local
  <2>2. pc'[s] = IF node[next].kind = "dynamic" THEN "delete" ELSE "skip"
    BY <1>1, <1>5, Known DEF Go
  <2>3. node[next].kind = "dynamic" => entry[s] >= statics
    BY <1>1, <1>3, Known, Fields
  <2>4. WriterOK(s)'
    BY <1>1, <1>3, <1>5, <2>2, <2>3, Known DEF WriterOK
  <2> QED BY <1>1, <1>2, <2>1, <2>4, WriterStep
<1> QED BY <1>4, <1>5 DEF ClearTest

LEMMA ClearSkipOK == ASSUME IInv, NEW s \in Searches, ClearSkip(s) PROVE IInv'
<1>1. s \in Writers /\ s \in Threads
  BY ThreadsOK
<1>2. ListOK' /\ SharedOK' /\ Pointer' = Pointer
  BY SharedSame DEF ClearSkip
<1>3. /\ Go(s, "test") /\ Walk(s, node[entry[s]].next) /\ node[entry[s]].next # NoNode
      /\ node[entry[s]].next \in Pointer
  BY <1>1, Known, Fields DEF ClearSkip
<1>4. LocalsOK' /\ Others(s)
  <2>1. "test" \in States
    BY DEF States
  <2> QED BY <1>1, <1>2, <1>3, <2>1, Local DEF ClearSkip
<1>5. pc'[s] = "test" /\ entry'[s] = node[entry[s]].next
  BY <1>1, <1>3, Known DEF Go, Walk
<1>6. WriterOK(s)'
  BY <1>3, <1>5 DEF WriterOK
<1> QED BY <1>1, <1>2, <1>4, <1>6, WriterStep

LEMMA DeleteOK == ASSUME IInv, NEW s \in Searches, Delete(s) PROVE IInv'
<1>1. s \in Writers
  BY ThreadsOK
<1>2. ListOK' /\ SharedOK' /\ Pointer' = Pointer
  BY SharedSame DEF Delete
<1>3. /\ pc[s] = "delete" /\ Go(s, "load") /\ entry' = entry
      /\ temp' = [temp EXCEPT ![s] = node[entry[s]].next]
      /\ node[entry[s]].next \in Pointer
      /\ node[entry[s]].next = NoNode \/ node[entry[s]].next > entry[s]
  BY <1>1, Known, Fields DEF Delete, At
<1>4. LocalsOK' /\ Others(s)
  <2>1. "load" \in States
    BY DEF States
  <2> QED BY <1>1, <1>2, <1>3, <2>1, Local DEF Delete
<1>5. /\ pc'[s] = "load" /\ temp'[s] = node[entry[s]].next /\ entry'[s] = entry[s]
  BY <1>1, <1>3, Known DEF Go, IInv, LocalsOK
<1>6. WriterOK(s)'
  BY <1>1, <1>3, <1>5, Known DEF WriterOK, Delete, Pointer
<1> QED BY <1>1, <1>2, <1>4, <1>6, WriterStep

LEMMA LoadOK == ASSUME IInv, NEW s \in Searches, Load(s) PROVE IInv'
<1> DEFINE next == node[entry[s]].next
<1>1. s \in Writers
  BY ThreadsOK
<1>2. ListOK' /\ SharedOK' /\ Pointer' = Pointer
  BY SharedSame DEF Load
<1>3. /\ pc[s] = "load" /\ Go(s, "store") /\ entry' = entry /\ temp' = temp
      /\ succ' = [succ EXCEPT ![s] = node[next].next]
      /\ Sound(entry[s]) /\ Sound(next)
  BY DEF Load, At
<1>4. /\ node[next].next \in Pointer
      /\ node[next].next = NoNode \/ node[next].next > entry[s]
  <2>1. next \in Pointer /\ next \in Nat /\ entry[s] \in Nat
        /\ (next = NoNode \/ next > entry[s])
    BY <1>1, <1>3, Known, Fields
  <2>2. /\ next # NoNode /\ node[next].next \in Pointer
        /\ node[next].next = NoNode \/ node[next].next > next
    BY <1>3, <2>1, Fields DEF NoNode
  <2> QED BY <1>1, <2>1, <2>2, Known
<1>5. LocalsOK' /\ Others(s)
  <2>1. "store" \in States
    BY DEF States
  <2> QED BY <1>1, <1>2, <1>3, <1>4, <2>1, Local DEF Load
<1>6. /\ pc'[s] = "store" /\ succ'[s] = node[next].next
  BY <1>1, <1>3, Known DEF Go, IInv, LocalsOK
<1>7. WriterOK(s)'
  BY <1>1, <1>3, <1>4, <1>6, Known DEF WriterOK, Load
<1> QED BY <1>1, <1>2, <1>5, <1>7, WriterStep

\* What the threads share when a step changes the list only.
LEMMA SharedKept ==
    ASSUME IInv, Len(node') = Len(node) \/ Len(node') = Len(node) + 1,
           statics' = statics, head' \in Pointer', best' = best, net' = net,
           searches' = searches
    PROVE  SharedOK' /\ Pointer \subseteq Pointer'
<1>1. Len(node) \in Nat
  BY Nodes DEF IInv, ListOK
<1> QED BY <1>1 DEF IInv, SharedOK, Pointer

LEMMA StoreOK == ASSUME IInv, NEW s \in Searches, Store(s) PROVE IInv'
<1>1. s \in Writers
  BY ThreadsOK
<1>2. /\ pc[s] = "store" /\ Go(s, "free") /\ entry' = entry /\ temp' = temp
      /\ succ' = [succ EXCEPT ![s] = NoNode] /\ Sound(entry[s])
      /\ node' = [node EXCEPT ![entry[s]].next = succ[s]]
  BY DEF Store, At
<1>3. ListOK' /\ Len(node') = Len(node)
  <2>1. /\ entry[s] \in 1 .. Len(node) /\ node[entry[s]].state = "set"
        /\ entry[s] >= statics /\ succ[s] \in 0 .. Len(node)
        /\ succ[s] = NoNode \/ succ[s] > entry[s]
    BY <1>1, <1>2, Known, Fields DEF WriterOK
  <2> QED BY <1>2, <2>1, Redirected DEF Store
<1>4. SharedOK' /\ Pointer \subseteq Pointer' /\ NoNode \in Pointer'
  <2>1. Pointer' = Pointer
    BY <1>3 DEF Pointer
  <2> QED BY <1>1, <1>3, <2>1, Known, SharedKept DEF Store
<1>5. LocalsOK' /\ Others(s)
  <2>1. "free" \in States
    BY DEF States
  <2> QED BY <1>1, <1>2, <1>4, <2>1, Local DEF Store
<1>6. pc'[s] = "free"
  BY <1>1, <1>2, Known DEF Go
<1>7. WriterOK(s)'
  BY <1>1, <1>2, <1>6, Known DEF WriterOK, Store
<1> QED BY <1>1, <1>3, <1>4, <1>5, <1>7, WriterStep

LEMMA FreeOK == ASSUME IInv, NEW s \in Searches, Free(s) PROVE IInv'
<1>1. s \in Writers
  BY ThreadsOK
<1>2. /\ pc[s] = "free" /\ Go(s, "test") /\ entry' = entry /\ succ' = succ
      /\ temp' = [temp EXCEPT ![s] = NoNode] /\ Sound(temp[s])
      /\ node' = [node EXCEPT ![temp[s]] = Freed]
  BY DEF Free, At
<1>3. ListOK' /\ Len(node') = Len(node)
  <2>1. temp[s] \in 1 .. Len(node) /\ temp[s] > statics
    BY <1>1, <1>2, Known, Fields DEF WriterOK, NoNode
  <2> QED BY <1>2, <2>1, CellFields, Replaced DEF Free
<1>4. SharedOK' /\ Pointer \subseteq Pointer' /\ NoNode \in Pointer'
  <2>1. Pointer' = Pointer
    BY <1>3 DEF Pointer
  <2> QED BY <1>1, <1>3, <2>1, Known, SharedKept DEF Free
<1>5. LocalsOK' /\ Others(s)
  <2>1. "test" \in States
    BY DEF States
  <2> QED BY <1>1, <1>2, <1>4, <2>1, Local DEF Free
<1>6. pc'[s] = "test"
  BY <1>1, <1>2, Known DEF Go
<1>7. WriterOK(s)'
  BY <1>1, <1>2, <1>6, Known DEF WriterOK
<1> QED BY <1>1, <1>3, <1>4, <1>5, <1>7, WriterStep

LEMMA CheckRouteOK == ASSUME IInv, NEW w \in Writers, CheckRoute(w) PROVE IInv'
<1>1. ListOK' /\ SharedOK' /\ Pointer' = Pointer
  BY SharedSame DEF CheckRoute
<1>2. /\ pc[w] = "check" /\ Sound(entry[w])
      /\ temp' = temp /\ succ' = succ /\ statics' = statics /\ head' = head
      /\ todo[w] # <<>>
  BY Known DEF CheckRoute, At, WriterOK
<1>3. CASE NetDone(w)
  <2>1. LocalsOK' /\ WriterOK(w)' /\ Others(w)
    BY <1>1, <1>2, <1>3, DoneGoesOn
  <2> QED BY <1>1, <2>1, WriterStep
<1>4. CASE Walk(w, node[entry[w]].next) /\ UNCHANGED <<pc, todo>>
  <2>1. node[entry[w]].next \in Pointer'
    BY <1>1, <1>2, Known, Fields
  <2>2. LocalsOK' /\ Others(w)
    BY <1>1, <1>2, <1>4, <2>1, Local
  <2>3. WriterOK(w)'
    BY <1>2, <1>4 DEF WriterOK
  <2> QED BY <1>1, <2>2, <2>3, WriterStep
<1> QED BY <1>3, <1>4 DEF CheckRoute

LEMMA NoRouteOK == ASSUME IInv, NEW s \in Searches, NoRoute(s) PROVE IInv'
<1>1. s \in Writers
  BY ThreadsOK
<1>2. ListOK' /\ SharedOK' /\ Pointer' = Pointer
  BY SharedSame DEF NoRoute
<1>3. todo[s] # <<>>
  BY <1>1, Known DEF NoRoute, At, WriterOK
<1>4. LocalsOK' /\ WriterOK(s)' /\ Others(s)
  BY <1>1, <1>2, <1>3, DoneGoesOn DEF NoRoute
<1> QED BY <1>1, <1>2, <1>4, WriterStep

LEMMA AddRouteOK == ASSUME IInv, NEW w \in Writers, AddRoute(w) PROVE IInv'
<1>1. ListOK' /\ SharedOK' /\ Pointer' = Pointer
  BY SharedSame DEF AddRoute
<1>2. /\ pc[w] = "check" /\ Walk(w, head) /\ todo' = todo /\ todo[w] # <<>>
      /\ Go(w, IF head = NoNode THEN "first" ELSE "tail")
      /\ statics' = statics
  BY Known DEF AddRoute, At, WriterOK
<1>3. LocalsOK' /\ Others(w)
  <2>1. \E st \in States : Go(w, st)
    BY <1>2 DEF States
  <2> QED BY <1>1, <1>2, <2>1, Known, Local DEF AddRoute
<1>4. /\ pc'[w] = IF head = NoNode THEN "first" ELSE "tail"
      /\ entry'[w] = head
  BY <1>2, ThreadsOK DEF Go, Walk, IInv, LocalsOK
<1>5. head = NoNode => statics = 0
  BY Known DEF IInv, ListOK, StaticRoutesStay, NoNode
<1>6. WriterOK(w)'
  BY <1>2, <1>4, <1>5 DEF WriterOK
<1> QED BY <1>1, <1>3, <1>6, WriterStep

LEMMA AddFirstOK == ASSUME IInv, NEW w \in Writers, AddFirst(w) PROVE IInv'
<1>1. /\ pc[w] = "first" /\ Go(w, "reread") /\ UNCHANGED thread
      /\ node' = Append(node, Raw) /\ head' = Len(node) + 1
      /\ UNCHANGED <<statics, searches>>
      /\ statics = 0 /\ todo[w] # <<>>
  BY Known DEF AddFirst, At, WriterOK
<1>2. ListOK' /\ Len(node') = Len(node) + 1
  BY <1>1, Allocated
<1>3. SharedOK' /\ Pointer \subseteq Pointer' /\ head' # NoNode
  <2>1. head' \in Pointer' /\ head' # NoNode
    BY <1>1, <1>2, Known DEF Pointer, NoNode
  <2> QED BY <1>1, <1>2, <2>1, SharedKept DEF thread
<1>4. LocalsOK' /\ Others(w)
  <2>1. "reread" \in States
    BY DEF States
  <2> QED BY <1>1, <1>3, <2>1, Local DEF thread
<1>5. pc'[w] = "reread"
  BY <1>1, Known DEF Go
<1>6. WriterOK(w)'
  BY <1>1, <1>3, <1>5 DEF WriterOK, thread
<1> QED BY <1>2, <1>3, <1>4, <1>6, WriterStep

LEMMA FillFirstOK == ASSUME IInv, NEW w \in Writers, FillFirst(w) PROVE IInv'
<1>1. /\ pc[w] = "reread" /\ NetDone(w)
      /\ node' = [node EXCEPT ![head] = Route(Head(todo[w]), Kind(w), searches)]
      /\ UNCHANGED <<statics, head, temp, succ, best, net, searches>>
      /\ statics = 0 /\ todo[w] # <<>> /\ head # NoNode
  BY Known DEF FillFirst, At, WriterOK
<1>2. ListOK' /\ Len(node') = Len(node)
  <2>1. head \in 1 .. Len(node) /\ head > statics
    BY <1>1, Known DEF NoNode
  <2> QED BY <1>1, <2>1, HeadNet, Replaced
<1>3. SharedOK' /\ Pointer \subseteq Pointer'
  <2>1. Pointer' = Pointer
    BY <1>2 DEF Pointer
  <2> QED BY <1>1, <1>2, <2>1, Known, SharedKept
<1>4. LocalsOK' /\ WriterOK(w)' /\ Others(w)
  BY <1>1, <1>3, DoneGoesOn
<1> QED BY <1>2, <1>3, <1>4, WriterStep

LEMMA AddWalkOK == ASSUME IInv, NEW w \in Writers, AddWalk(w) PROVE IInv'
<1> DEFINE next == node[entry[w]].next
<1>1. ListOK' /\ SharedOK' /\ Pointer' = Pointer
  BY SharedSame DEF AddWalk
<1>2. /\ pc[w] = "tail" /\ Sound(entry[w]) /\ todo[w] # <<>> /\ entry[w] # NoNode
      /\ UNCHANGED <<statics, head, temp, succ, todo>>
  BY Known DEF AddWalk, At, WriterOK
<1>3. next \in Pointer /\ (entry[w] < statics => next = entry[w] + 1)
  BY <1>2, Known, Fields
<1>4. CASE next # NoNode /\ Walk(w, next) /\ UNCHANGED pc
  <2>1. LocalsOK' /\ Others(w)
    BY <1>1, <1>2, <1>3, <1>4, Local
  <2>2. entry'[w] = next
    BY <1>4, Known DEF Walk
  <2>3. WriterOK(w)'
    BY <1>2, <1>4, <2>2 DEF WriterOK
  <2> QED BY <1>1, <2>1, <2>3, WriterStep
<1>5. CASE next = NoNode /\ Go(w, "link") /\ UNCHANGED entry
  <2>1. "link" \in States
    BY DEF States
  <2>2. LocalsOK' /\ Others(w)
    BY <1>1, <1>2, <1>5, <2>1, Local
  <2>3. pc'[w] = "link"
    BY <1>5, Known DEF Go
  <2>4. entry[w] >= statics
    BY <1>3, <1>5, Known DEF NoNode
  <2>5. WriterOK(w)'
    BY <1>2, <1>5, <2>3, <2>4 DEF WriterOK
  <2> QED BY <1>1, <2>2, <2>5, WriterStep
<1> QED BY <1>4, <1>5 DEF AddWalk

LEMMA AddLinkOK == ASSUME IInv, NEW w \in Writers, AddLink(w) PROVE IInv'
<1>1. /\ pc[w] = "link" /\ Sound(entry[w]) /\ Go(w, "own") /\ UNCHANGED thread
      /\ node' = Append([node EXCEPT ![entry[w]].next = Len(node) + 1], Raw)
      /\ UNCHANGED <<statics, head, searches>>
      /\ todo[w] # <<>> /\ entry[w] # NoNode /\ entry[w] >= statics
  BY Known DEF AddLink, At, WriterOK
<1>2. ListOK' /\ Len(node') = Len(node) + 1
  <2>1. entry[w] \in 1 .. Len(node) /\ node[entry[w]].state = "set"
    BY <1>1, Known, Fields
  <2> QED BY <1>1, <2>1, Linked
<1>3. SharedOK' /\ Pointer \subseteq Pointer'
  <2>1. head' \in Pointer'
    BY <1>1, <1>2, Known DEF Pointer
  <2> QED BY <1>1, <1>2, <2>1, SharedKept DEF thread
<1>4. LocalsOK' /\ Others(w)
  <2>1. "own" \in States
    BY DEF States
  <2> QED BY <1>1, <1>3, <2>1, Local DEF thread
<1>5. pc'[w] = "own"
  BY <1>1, Known DEF Go
<1>6. WriterOK(w)'
  BY <1>1, <1>5 DEF WriterOK, thread
<1> QED BY <1>2, <1>3, <1>4, <1>6, WriterStep

LEMMA AddOwnOK == ASSUME IInv, NEW w \in Writers, AddOwn(w) PROVE IInv'
<1> DEFINE next == node[entry[w]].next
<1>1. ListOK' /\ SharedOK' /\ Pointer' = Pointer
  BY SharedSame DEF AddOwn
<1>2. /\ pc[w] = "own" /\ Sound(entry[w]) /\ next # NoNode
      /\ Walk(w, next) /\ Go(w, "fill") /\ todo[w] # <<>> /\ entry[w] >= statics
      /\ UNCHANGED <<statics, head, temp, succ, todo>>
  BY Known DEF AddOwn, At, WriterOK
<1>3. next \in Pointer /\ next > entry[w]
  BY <1>2, Known, Fields
<1>4. LocalsOK' /\ Others(w)
  <2>1. "fill" \in States
    BY DEF States
  <2> QED BY <1>1, <1>2, <1>3, <2>1, Local
<1>5. pc'[w] = "fill" /\ entry'[w] = next
  BY <1>2, Known DEF Go, Walk
<1>6. next > statics
  BY <1>2, <1>3, Known
<1>7. WriterOK(w)'
  BY <1>2, <1>5, <1>6 DEF WriterOK
<1> QED BY <1>1, <1>4, <1>7, WriterStep

LEMMA AddFillOK == ASSUME IInv, NEW w \in Writers, AddFill(w) PROVE IInv'
<1>1. /\ pc[w] = "fill" /\ NetDone(w)
      /\ node' = [node EXCEPT ![entry[w]] = Route(Head(todo[w]), Kind(w), searches)]
      /\ UNCHANGED <<statics, head, temp, succ, best, net, searches>>
      /\ todo[w] # <<>> /\ entry[w] # NoNode /\ entry[w] > statics
  BY Known DEF AddFill, At, WriterOK
<1>2. ListOK' /\ Len(node') = Len(node)
  <2>1. entry[w] \in 1 .. Len(node)
    BY <1>1, Known DEF NoNode
  <2> QED BY <1>1, <2>1, HeadNet, Replaced
<1>3. SharedOK' /\ Pointer \subseteq Pointer'
  <2>1. Pointer' = Pointer
    BY <1>2 DEF Pointer
  <2> QED BY <1>1, <1>2, <2>1, Known, SharedKept
<1>4. LocalsOK' /\ WriterOK(w)' /\ Others(w)
  BY <1>1, <1>3, DoneGoesOn
<1> QED BY <1>2, <1>3, <1>4, WriterStep

\* A lookup changes what the main thread walks with, and nothing a writer relies on.
LEMMA ReaderOK ==
    ASSUME IInv,
           UNCHANGED <<statics, node, head, temp, succ, todo, searches>>,
           pc' = pc \/ \E s \in {"idle", "look"} : Go(Main, s),
           entry' = entry \/ \E p \in Pointer : Walk(Main, p),
           best' \in Pointer, net' \in Dests
    PROVE  IInv'
<1>1. ListOK' /\ Pointer' = Pointer
  BY Unchanged DEF Pointer
<1>2. SharedOK'
  BY <1>1 DEF IInv, SharedOK
<1>3. /\ pc' \in [Threads -> States] /\ pc'[Main] \in {"idle", "look"}
      /\ \A w \in Writers : pc'[w] = pc[w]
  BY ThreadsOK DEF Go, IInv, LocalsOK, States
<1>4. /\ entry' \in [Threads -> Pointer]
      /\ \A w \in Writers : entry'[w] = entry[w]
  BY ThreadsOK DEF Walk, IInv, LocalsOK
<1>5. LocalsOK'
  BY <1>1, <1>3, <1>4 DEF IInv, LocalsOK
<1>6. WritersOK'
  BY <1>3, <1>4 DEF IInv, WritersOK, WriterOK
<1> QED BY <1>1, <1>2, <1>5, <1>6 DEF IInv

LEMMA LookupOK == ASSUME IInv, NEW n \in Dests, Lookup(n) PROVE IInv'
<1>1. head \in Pointer /\ best \in Pointer
  BY DEF IInv, SharedOK
<1> QED BY <1>1, ReaderOK DEF Lookup

LEMMA LookOK == ASSUME IInv, Look PROVE IInv'
<1>1. /\ entry[Main] \in Pointer /\ best \in Pointer /\ net \in Dests
  BY ThreadsOK DEF IInv, SharedOK, LocalsOK
<1>2. node[entry[Main]].next \in Pointer /\ best' \in Pointer
  BY <1>1, Fields DEF Look
<1> QED BY <1>1, <1>2, ReaderOK DEF Look

LEMMA UseRouteOK == ASSUME IInv, UseRoute PROVE IInv'
<1>1. NoNode \in Pointer /\ net \in Dests
  BY Nodes DEF IInv, ListOK, SharedOK, NoNode
<1> QED BY <1>1, ReaderOK DEF UseRoute

\* The end of the process changes nothing else.
LEMMA StutterOK ==
    ASSUME IInv, UNCHANGED <<statics, node, head, pc, thread, searches>>
    PROVE  IInv'
<1>1. best \in Pointer /\ net \in Dests
  BY DEF IInv, SharedOK
<1> QED BY <1>1, ReaderOK DEF thread

-----------------------------------------------------------------------------
\* The theorems

\* The list ascends, keeps the routes of the file, and every thread is where its next
\* step needs it to be.
THEOREM Invariance == Spec => []IInv
<1>1. IInv /\ [Next]_vars => IInv'
  <2> SUFFICES ASSUME IInv, [Next]_vars PROVE IInv'
    OBVIOUS
  <2>1. ASSUME NEW s \in Searches, Begin(s) \/ Clear(s) \/ NoRoute(s) PROVE IInv'
    BY <2>1, BeginOK, ClearTestOK, ClearSkipOK, DeleteOK, LoadOK, StoreOK, FreeOK,
       NoRouteOK DEF Clear
  <2>2. ASSUME NEW w \in Writers, Add(w) PROVE IInv'
    BY <2>2, CheckRouteOK, AddRouteOK, AddFirstOK, FillFirstOK, AddWalkOK, AddLinkOK,
       AddOwnOK, AddFillOK DEF Add
  <2>3. ASSUME NEW n \in Dests, Lookup(n) PROVE IInv'
    BY <2>3, LookupOK
  <2>4. CASE Forward
    BY <2>4, LookOK, UseRouteOK DEF Forward
  <2>5. ASSUME NEW t \in Threads, Crash(t) PROVE IInv'
    BY <2>5, StutterOK DEF Crash, Fault
  <2>6. CASE UNCHANGED vars
    BY <2>6, StutterOK DEF vars
  <2> QED BY <2>1, <2>2, <2>3, <2>4, <2>5, <2>6 DEF Next
<1> QED BY InitOK, <1>1, PTL DEF Spec

\* Types, and that a loop over the list of sr_rt has an entry where it uses one.
THEOREM TypeCorrect == Spec => []TypeOK
<1>1. IInv => TypeOK
  <2> SUFFICES ASSUME IInv PROVE TypeOK
    OBVIOUS
  <2>1. ASSUME NEW p \in 1 .. Len(node)
        PROVE  node[p] \in {Raw, Freed}
                  \cup [state : {"set"}, net : Nets, kind : {"static", "direct", "dynamic"},
                        by : 0 .. MaxSearches, next : Pointer]
    <3>1. node[p] \in Cells
      BY Nodes DEF IInv, ListOK
    <3>2. node[p].state = "set" => node[p].next \in Pointer
      BY DEF IInv, ListOK, NodesOK, Pointer
    <3> QED BY <3>1, <3>2 DEF Cells
  <2>2. \A w \in Writers :
            /\ todo[w] \in Seq(Nets)
            /\ pc[w] \in {"check", "first", "reread", "tail", "link", "own", "fill"}
                  => todo[w] # <<>>
            /\ pc[w] \in {"test", "skip", "delete", "load", "store",
                          "tail", "link", "own", "fill"} => entry[w] # NoNode
    BY DEF IInv, LocalsOK, WritersOK, WriterOK
  <2> QED BY <2>1, <2>2 DEF TypeOK, IInv, SharedOK, LocalsOK
<1> QED BY <1>1, Invariance, PTL

\* No interleaving of searches and of the loop over the interfaces closes the list of
\* sr_rt to a ring.
THEOREM ListNeverRings == Spec => []ListAscends
<1>1. IInv => ListAscends
  BY DEF IInv, ListOK
<1> QED BY <1>1, Invariance, PTL

\* No interleaving of searches takes a route of the file from the front of the list.
THEOREM StaticRoutesKept == Spec => []StaticRoutesStay
<1>1. IInv => StaticRoutesStay
  BY DEF IInv, ListOK
<1> QED BY <1>1, Invariance, PTL

-----------------------------------------------------------------------------
\* As long as two of the threads that write the list have not overlapped

\* What is on the list: all that is not freed, but what a search has unlinked.
Members ==
    {p \in 1 .. Len(node) : node[p].state # "freed"}
        \ {temp[w] : w \in {v \in Writers : pc[v] = "free"}}

\* A new entry has no fields yet; malloc is taken to leave no pointer in it.
After(p) == IF node[p].state = "set" THEN node[p].next ELSE NoNode

\* The list goes through its members by age, from the first to the last.
Chained ==
    /\ IF head = NoNode THEN Members = {}
       ELSE head \in Members /\ \A q \in Members : head <= q
    /\ \A p \in Members :
          IF After(p) = NoNode THEN \A q \in Members : q <= p
          ELSE /\ After(p) \in Members /\ After(p) > p
               /\ \A q \in Members : q <= p \/ q >= After(p)

NetsOnce ==
    \A p, q \in Members :
        /\ Sound(p) /\ Sound(q) /\ p # q /\ node[p].net = node[q].net
        => node[p].kind = "static" /\ node[q].kind = "static"

HeadStays == head # NoNode /\ Sound(head) => node[head].kind # "dynamic"

RawIsNew ==
    \A p \in 1 .. Len(node) :
        node[p].state = "raw" =>
            p = Len(node) /\ \E w \in Writers : pc[w] \in {"own", "fill", "reread"}

Clearing(w) == pc[w] \in {"test", "skip", "delete", "load", "store", "free"}

Renewed ==
    (\A s \in Searches : ~Clearing(s)) =>
        \A p \in Members : Sound(p) /\ node[p].kind = "dynamic" => node[p].by = searches

SetupFirst ==
    IF pc[Setup] = "idle" THEN head # NoNode
    ELSE \A p \in Members : Sound(p) => node[p].kind # "dynamic"

HasOwn(n) == \E p \in Members : Sound(p) /\ node[p].kind # "dynamic" /\ node[p].net = n

IfacesKept ==
    \A i \in 1 .. Len(Ifaces) :
        \/ \E k \in 1 .. Len(todo[Setup]) : todo[Setup][k] = Ifaces[i]
        \/ HasOwn(Ifaces[i])

PlaceOK(w) ==
    /\ pc[w] # "look"
    /\ pc[w] = "idle" => todo[w] = <<>>
    /\ Clearing(w) =>
          /\ w \in Searches
          /\ entry[w] \in Members /\ Sound(entry[w])
          /\ \A p \in Members : p <= entry[w] => node[p].kind # "dynamic"
    /\ pc[w] \in {"skip", "delete", "load", "store"} =>
          /\ After(entry[w]) # NoNode
          /\ (node[After(entry[w])].kind = "dynamic") = (pc[w] # "skip")
    /\ pc[w] \in {"load", "store"} => temp[w] = After(entry[w])
    /\ pc[w] = "store" => succ[w] = After(temp[w])
    /\ pc[w] = "free" => Sound(temp[w]) /\ node[temp[w]].kind = "dynamic"
    /\ pc[w] = "check" =>
          /\ entry[w] \in Members \cup {NoNode}
          /\ \A p \in Members :
                entry[w] = NoNode \/ p < entry[w] => node[p].net # Head(todo[w])
    /\ pc[w] \in {"first", "reread"} => w = Setup
    /\ pc[w] = "first" => head = NoNode
    /\ pc[w] = "reread" => Members = {head} /\ node[head] = Raw
    /\ pc[w] \in {"tail", "link", "own", "fill"} =>
          /\ entry[w] \in Members
          /\ \A p \in Members : Sound(p) => node[p].net # Head(todo[w])
    /\ pc[w] \in {"tail", "link", "own"} => Sound(entry[w])
    /\ pc[w] = "link" => After(entry[w]) = NoNode
    /\ pc[w] = "own" => After(entry[w]) = Len(node) /\ node[Len(node)] = Raw
    /\ pc[w] = "fill" => entry[w] = Len(node) /\ node[Len(node)] = Raw /\ entry[w] # head

OneWriter == \A v, w \in Writers : pc[v] # "idle" /\ pc[w] # "idle" => v = w

Alone ==
    /\ OneWriter /\ Chained /\ NetsOnce /\ HeadStays /\ RawIsNew /\ Renewed
    /\ SetupFirst /\ IfacesKept
    /\ \A w \in Writers : PlaceOK(w)

Watching ==
    IF pc[Main] = "look"
    THEN /\ \A w \in Writers : pc[w] = "idle"
         /\ entry[Main] \in Members \cup {NoNode} /\ best \in Members \cup {NoNode}
    ELSE best = NoNode

AloneInv ==
    /\ ~overlap => Alone
    /\ ~overlap /\ ~watched => Watching
    /\ fault => overlap \/ watched

\* A writer that is somewhere is the only one.
LEMMA Sole ==
    ASSUME Alone, NEW w \in Writers, pc[w] # "idle"
    PROVE  \A v \in Writers \ {w} : pc[v] = "idle" /\ todo[v] = <<>>
BY DEF Alone, OneWriter, PlaceOK

\* What a writer has unlinked is all that is not on the list, when the others are idle.
LEMMA MembersOf ==
    ASSUME NEW w \in Writers, \A v \in Writers \ {w} : pc[v] = "idle", Others(w)
    PROVE  /\ Members = {p \in 1 .. Len(node) : node[p].state # "freed"}
                           \ (IF pc[w] = "free" THEN {temp[w]} ELSE {})
           /\ Members' = {p \in 1 .. Len(node') : node'[p].state # "freed"}
                           \ (IF pc'[w] = "free" THEN {temp'[w]} ELSE {})
<1>1. {temp[v] : v \in {u \in Writers : pc[u] = "free"}}
        = IF pc[w] = "free" THEN {temp[w]} ELSE {}
  OBVIOUS
<1>2. {temp'[v] : v \in {u \in Writers : pc'[u] = "free"}}
        = IF pc'[w] = "free" THEN {temp'[w]} ELSE {}
  BY DEF Others
<1> QED BY <1>1, <1>2 DEF Members

\* The members are pointers, and all but a new entry have their fields.
LEMMA MemberFields ==
    ASSUME IInv
    PROVE  /\ Len(node) \in Nat
           /\ \A p \in Members :
                 /\ p \in 1 .. Len(node) /\ p \in Nat /\ p # NoNode /\ p \in Pointer
                 /\ node[p].state # "freed"
                 /\ node[p] = Raw \/ Sound(p)
                 /\ Sound(p) => After(p) = node[p].next
<1>1. Len(node) \in Nat /\ \A p \in 1 .. Len(node) : node[p] \in Cells
  BY Nodes DEF IInv, ListOK
<1>2. \A c \in Cells : c = Raw \/ c = Freed \/ c.state = "set"
  BY DEF Cells
<1> QED BY <1>1, <1>2 DEF Members, Sound, After, NoNode, Freed, Pointer

\* No new entry is about unless the only writer has just allocated it.
LEMMA AllSound ==
    ASSUME IInv, Alone, \A w \in Writers : pc[w] \notin {"own", "fill", "reread"}
    PROVE  \A p \in Members : Sound(p)
BY MemberFields DEF Alone, RawIsNew, Raw

\* The only writer's step leaves an order in which it, or nobody, is the only one.
LEMMA AloneStep ==
    ASSUME Alone, NEW w \in Writers, pc[w] # "idle", Others(w),
           Chained', NetsOnce', HeadStays', RawIsNew', Renewed', SetupFirst', IfacesKept',
           PlaceOK(w)'
    PROVE  Alone'
<1>1. \A v \in Writers \ {w} : pc'[v] = "idle" /\ todo'[v] = <<>>
  BY Sole DEF Others
<1>2. OneWriter'
  BY <1>1 DEF OneWriter
<1>3. \A v \in Writers \ {w} : PlaceOK(v)'
  BY <1>1 DEF PlaceOK, Clearing
<1> QED BY <1>2, <1>3 DEF Alone

\* The same for a step that leaves the list and the networks to go through as they are.
LEMMA AloneWalk ==
    ASSUME IInv, Alone, NEW w \in Writers, pc[w] # "idle", pc'[w] # "idle", Others(w),
           UNCHANGED <<node, head, searches, todo>>,
           pc[w] # "free", pc'[w] # "free",
           pc[w] \in {"own", "fill", "reread"} => pc'[w] \in {"own", "fill", "reread"},
           Clearing(w) => Clearing(w)',
           PlaceOK(w)'
    PROVE  Alone' /\ Members' = Members
<1>1. \A v \in Writers \ {w} : pc[v] = "idle" /\ pc'[v] = "idle"
  BY Sole DEF Others
<1>2. Members' = Members
  BY <1>1, MembersOf
<1>3. \A p : Sound(p)' = Sound(p) /\ After(p)' = After(p)
  BY DEF Sound, After
<1>4. Chained' /\ NetsOnce' /\ HeadStays'
  BY <1>2, <1>3 DEF Alone, Chained, NetsOnce, HeadStays
<1>5. RawIsNew'
  BY <1>1 DEF Alone, RawIsNew
<1>6. Renewed'
  <2>1. (\A s \in Searches : ~Clearing(s)') => \A s \in Searches : ~Clearing(s)
    BY <1>1, ThreadsOK DEF Clearing
  <2> QED BY <1>2, <1>3, <2>1 DEF Alone, Renewed
<1>7. SetupFirst'
  <2>1. (pc'[Setup] = "idle") = (pc[Setup] = "idle")
    BY <1>1, ThreadsOK
  <2> QED BY <1>2, <1>3, <2>1 DEF Alone, SetupFirst
<1>8. IfacesKept'
  <2>1. \A n : HasOwn(n)' = HasOwn(n)
    BY <1>2, <1>3 DEF HasOwn
  <2> QED BY <2>1 DEF Alone, IfacesKept
<1> QED BY <1>2, <1>4, <1>5, <1>6, <1>7, <1>8, AloneStep

\* A network of a list that has one is the first or among the others.
LEMMA TailKeeps ==
    ASSUME NEW s \in Seq(Nets), s # <<>>, NEW n, n # Head(s),
           \E k \in 1 .. Len(s) : s[k] = n
    PROVE  \E k \in 1 .. Len(Tail(s)) : Tail(s)[k] = n
<1>1. /\ Len(s) \in Nat /\ Len(s) >= 1 /\ Tail(s) \in Seq(Nets) /\ Len(Tail(s)) = Len(s) - 1
      /\ Head(s) = s[1] /\ \A i \in 1 .. Len(Tail(s)) : Tail(s)[i] = s[i + 1]
  BY HeadTailProperties, EmptySeq, LenProperties
<1>2. PICK k \in 1 .. Len(s) : s[k] = n
  OBVIOUS
<1>3. k # 1
  BY <1>1, <1>2
<1>4. k - 1 \in 1 .. Len(Tail(s)) /\ Tail(s)[k - 1] = s[(k - 1) + 1] /\ (k - 1) + 1 = k
  BY <1>1, <1>2, <1>3
<1> QED BY <1>2, <1>4

\* Where a writer is after GoOn: nothing is before the first member.
LEMMA GoOnPlace ==
    ASSUME IInv, NEW w \in Writers, NEW list \in Seq(Nets), GoOn(w, list), head' = head, Chained'
    PROVE  /\ PlaceOK(w)' /\ todo'[w] = list
           /\ pc'[w] = IF list = <<>> THEN "idle" ELSE "check"
<1>1. /\ todo'[w] = list
      /\ pc'[w] = IF list = <<>> THEN "idle" ELSE "check"
      /\ entry'[w] = IF list = <<>> THEN NoNode ELSE head
  BY ThreadsOK DEF GoOn, Go, Walk, IInv, LocalsOK
<1>2. head = NoNode => Members' = {}
  BY DEF Chained
<1>3. head # NoNode => head \in Members' /\ \A p \in Members' : ~(p < head)
  <2>1. \A p \in Members' : p \in Int
    BY DEF Members
  <2> QED BY <2>1 DEF Chained
<1> QED BY <1>1, <1>2, <1>3 DEF PlaceOK, Clearing

\* A step by which a writer is through with a network, or with the loop that clears.
LEMMA AloneEnd ==
    ASSUME IInv, Alone, NEW w \in Writers, pc[w] # "idle", Others(w),
           NEW list \in Seq(Nets), GoOn(w, list), UNCHANGED <<head, searches>>,
           Chained', NetsOnce', HeadStays',
           \A p \in 1 .. Len(node') : node'[p].state # "raw",
           \A p \in Members' : Sound(p)' /\ node'[p].kind = "dynamic" =>
               w # Setup /\ node'[p].by = searches,
           \A n \in Nets : HasOwn(n) => HasOwn(n)',
           w = Setup => /\ todo[w] # <<>> /\ list = Tail(todo[w]) /\ Members' # {}
                        /\ \E n \in Nets : n = Head(todo[w]) /\ HasOwn(n)'
    PROVE  Alone'
<1>1. /\ PlaceOK(w)' /\ todo'[w] = list
      /\ pc'[w] = IF list = <<>> THEN "idle" ELSE "check"
  BY GoOnPlace
<1>2. \A v \in Writers \ {w} : pc[v] = "idle" /\ pc'[v] = "idle" /\ todo'[v] = todo[v]
  BY Sole DEF Others
<1>3. RawIsNew'
  BY DEF RawIsNew
<1>4. Renewed'
  BY DEF Renewed
<1>5. SetupFirst'
  <2>1. CASE w = Setup
    <3>1. head' # NoNode
      BY <2>1 DEF Chained
    <3> QED BY <2>1, <3>1 DEF SetupFirst
  <2>2. CASE w # Setup
    <3>1. pc[Setup] = "idle" /\ pc'[Setup] = "idle"
      BY <1>2, <2>2, ThreadsOK
    <3> QED BY <3>1 DEF SetupFirst, Alone
  <2> QED BY <2>1, <2>2
<1>6. IfacesKept'
  <2> SUFFICES ASSUME NEW i \in 1 .. Len(Ifaces)
               PROVE  \/ \E k \in 1 .. Len(todo'[Setup]) : todo'[Setup][k] = Ifaces[i]
                      \/ HasOwn(Ifaces[i])'
    BY DEF IfacesKept
  <2>1. Ifaces[i] \in Nets
    BY IfacesAssumption, ElementOfSeq
  <2>2. \/ \E k \in 1 .. Len(todo[Setup]) : todo[Setup][k] = Ifaces[i]
        \/ HasOwn(Ifaces[i])
    BY DEF Alone, IfacesKept
  <2>3. CASE w = Setup
    <3>1. todo[Setup] \in Seq(Nets) /\ todo[Setup] # <<>> /\ todo'[Setup] = Tail(todo[Setup])
      BY <1>1, <2>3 DEF IInv, LocalsOK
    <3>2. CASE Ifaces[i] = Head(todo[Setup])
      BY <2>3, <3>2
    <3>3. CASE Ifaces[i] # Head(todo[Setup])
      <4>1. CASE \E k \in 1 .. Len(todo[Setup]) : todo[Setup][k] = Ifaces[i]
        <5>1. \E k \in 1 .. Len(Tail(todo[Setup])) : Tail(todo[Setup])[k] = Ifaces[i]
          BY <3>1, <3>3, <4>1, TailKeeps
        <5> QED BY <3>1, <5>1
      <4>2. CASE HasOwn(Ifaces[i])
        BY <2>1, <4>2
      <4> QED BY <2>2, <4>1, <4>2
    <3> QED BY <3>2, <3>3
  <2>4. CASE w # Setup
    BY <1>2, <2>1, <2>2, <2>4, ThreadsOK
  <2> QED BY <2>3, <2>4
<1> QED BY <1>1, <1>3, <1>4, <1>5, <1>6, AloneStep

\* The same when the list stays as it is.
LEMMA AloneListEnd ==
    ASSUME IInv, Alone, NEW w \in Writers, Others(w),
           pc[w] \notin {"idle", "free", "own", "fill", "reread"},
           NEW list \in Seq(Nets), GoOn(w, list), UNCHANGED <<node, head, searches>>,
           \A p \in Members : node[p].kind = "dynamic" => w # Setup /\ node[p].by = searches,
           w = Setup => /\ todo[w] # <<>> /\ list = Tail(todo[w])
                        /\ \E n \in Nets : n = Head(todo[w]) /\ HasOwn(n)
    PROVE  Alone'
<1>1. \A v \in Writers \ {w} : pc[v] = "idle"
  BY Sole
<1>2. pc'[w] # "free"
  BY ThreadsOK DEF GoOn, Go, IInv, LocalsOK
<1>3. Members' = Members
  BY <1>1, <1>2, MembersOf
<1>4. \A p : Sound(p)' = Sound(p) /\ After(p)' = After(p)
  BY DEF Sound, After
<1>5. Chained' /\ NetsOnce' /\ HeadStays'
  BY <1>3, <1>4 DEF Alone, Chained, NetsOnce, HeadStays
<1>6. \A n : HasOwn(n)' = HasOwn(n)
  BY <1>3, <1>4 DEF HasOwn
<1>7. \A p \in 1 .. Len(node') : node'[p].state # "raw"
  BY <1>1 DEF Alone, RawIsNew
<1>8. \A p \in Members' : node'[p].kind = "dynamic" => w # Setup /\ node'[p].by = searches
  BY <1>3
<1>9. w = Setup => Members' # {} /\ \E n \in Nets : n = Head(todo[w]) /\ HasOwn(n)'
  BY <1>3, <1>6 DEF HasOwn
<1> QED BY <1>5, <1>6, <1>7, <1>8, <1>9, AloneEnd

-----------------------------------------------------------------------------
\* The steps of one writer

\* What the steps of a writer leave alone of the other threads.
Apart(w) == Others(w) /\ pc'[Main] = pc[Main] /\ entry'[Main] = entry[Main] /\ best' = best

LEMMA GoOnApart ==
    ASSUME IInv, NEW w \in Writers, NEW list, GoOn(w, list), temp' = temp, succ' = succ,
           statics' = statics, head' = head, best' = best
    PROVE  Apart(w)
BY ThreadsOK DEF Apart, Others, GoOn, Go, Walk, IInv, LocalsOK

LEMMA LocalApart ==
    ASSUME IInv, NEW w \in Writers,
           pc' = pc \/ \E s : Go(w, s), entry' = entry \/ \E p : Walk(w, p),
           temp' = temp \/ \E p : temp' = [temp EXCEPT ![w] = p],
           succ' = succ \/ \E p : succ' = [succ EXCEPT ![w] = p],
           todo' = todo \/ \E list : todo' = [todo EXCEPT ![w] = list],
           statics' = statics, head' = head \/ head' # NoNode, best' = best
    PROVE  Apart(w)
<1>1. \A t \in Threads \ {w} : pc'[t] = pc[t] /\ entry'[t] = entry[t]
  BY ThreadsOK DEF Go, Walk, IInv, LocalsOK
<1>2. \A v \in Writers \ {w} :
          temp'[v] = temp[v] /\ succ'[v] = succ[v] /\ todo'[v] = todo[v]
  BY DEF IInv, LocalsOK
<1> QED BY <1>1, <1>2, ThreadsOK DEF Apart, Others

LEMMA ClearApart ==
    ASSUME IInv, NEW s \in Searches, Clear(s)
    PROVE  Apart(s)
<1>1. s \in Writers
  BY ThreadsOK
<1>2. CASE ClearTest(s)
  BY <1>1, <1>2, GoOnApart, LocalApart DEF ClearTest
<1>3. CASE ClearSkip(s) \/ Delete(s) \/ Load(s) \/ Store(s) \/ Free(s)
  BY <1>1, <1>3, LocalApart DEF ClearSkip, Delete, Load, Store, Free
<1> QED BY <1>2, <1>3 DEF Clear

LEMMA AddApart ==
    ASSUME IInv, NEW w \in Writers, Add(w)
    PROVE  Apart(w)
<1>1. CASE CheckRoute(w) \/ FillFirst(w) \/ AddFill(w)
  <2>1. CASE NetDone(w)
    BY <1>1, <2>1, GoOnApart DEF CheckRoute, FillFirst, AddFill, NetDone
  <2>2. CASE ~NetDone(w)
    BY <1>1, <2>2, LocalApart DEF CheckRoute, FillFirst, AddFill
  <2> QED BY <2>1, <2>2
<1>2. CASE AddFirst(w)
  <2>1. Len(node) \in Nat
    BY Known
  <2> QED BY <1>2, <2>1, LocalApart DEF AddFirst, thread, NoNode
<1>3. CASE AddRoute(w) \/ AddWalk(w) \/ AddLink(w) \/ AddOwn(w)
  BY <1>3, LocalApart DEF AddRoute, AddWalk, AddLink, AddOwn, thread
<1> QED BY <1>1, <1>2, <1>3 DEF Add

LEMMA NoRouteApart ==
    ASSUME IInv, NEW s \in Searches, NoRoute(s)
    PROVE  Apart(s)
BY ThreadsOK, GoOnApart DEF NoRoute, NetDone

\* What a writer knows where it is.
LEMMA Place ==
    ASSUME IInv, Alone, NEW w \in Writers, pc[w] # "idle"
    PROVE  /\ PlaceOK(w) /\ Chained
           /\ \A v \in Writers \ {w} : pc[v] = "idle"
           /\ pc[w] \notin {"own", "fill", "reread"} => \A p \in Members : Sound(p)
           /\ w \in Searches => w # Setup /\ head # NoNode
BY Sole, AllSound, ThreadsDiffer, ThreadsOK DEF Alone, SetupFirst

LEMMA BeginAlone ==
    ASSUME IInv, Alone, NEW s \in Searches, Begin(s), ~overlap'
    PROVE  Alone'
<1>1. /\ s \in Writers /\ \A w \in Writers : pc[w] = "idle"
      /\ UNCHANGED <<statics, node, head, temp, succ>> /\ searches' = searches + 1
  BY ThreadsOK DEF Begin
<1>2. head # NoNode
  BY <1>1, ThreadsOK DEF Alone, SetupFirst
<1>3. PICK topology \in Topologies :
          /\ todo' = [todo EXCEPT ![s] = topology] /\ Walk(s, head) /\ Go(s, "test")
  BY <1>2 DEF Begin
<1>4. Others(s)
  BY <1>1, <1>3, LocalApart DEF Apart, Begin
<1>5. pc'[s] = "test" /\ entry'[s] = head
  BY <1>1, <1>3, Known DEF Go, Walk
<1>6. Members' = Members
  BY <1>1, <1>4, <1>5, MembersOf
<1>7. \A p : Sound(p)' = Sound(p) /\ After(p)' = After(p)
  BY <1>1 DEF Sound, After
<1>8. \A p \in Members : Sound(p)
  BY <1>1, AllSound
<1>9. PlaceOK(s)'
  <2>1. head \in Members /\ \A p \in Members : p <= head => p = head
    BY <1>2, MemberFields DEF Alone, Chained
  <2>2. node[head].kind # "dynamic"
    BY <1>2, <1>8, <2>1 DEF Alone, HeadStays
  <2> QED BY <1>1, <1>5, <1>6, <1>7, <1>8, <2>1, <2>2 DEF PlaceOK, Clearing
<1>10. \A v \in Writers \ {s} : pc'[v] = "idle" /\ todo'[v] = <<>> /\ PlaceOK(v)'
  BY <1>1, <1>4 DEF Others, Alone, PlaceOK, Clearing
<1>11. Chained' /\ NetsOnce' /\ HeadStays'
  BY <1>1, <1>6, <1>7 DEF Alone, Chained, NetsOnce, HeadStays
<1>12. RawIsNew' /\ Renewed'
  BY <1>1, <1>5 DEF Alone, RawIsNew, Renewed, Clearing
<1>13. SetupFirst' /\ IfacesKept'
  <2>1. Setup # s /\ Setup \in Writers /\ pc'[Setup] = "idle" /\ todo'[Setup] = todo[Setup]
    BY <1>1, <1>4, ThreadsOK, ThreadsDiffer DEF Others
  <2>2. \A n : HasOwn(n)' = HasOwn(n)
    BY <1>1, <1>6, <1>7 DEF HasOwn
  <2> QED BY <1>1, <1>2, <2>1, <2>2 DEF Alone, SetupFirst, IfacesKept
<1>14. OneWriter'
  BY <1>10 DEF OneWriter
<1> QED BY <1>9, <1>10, <1>11, <1>12, <1>13, <1>14 DEF Alone

LEMMA ClearTestAlone ==
    ASSUME IInv, Alone, NEW s \in Searches, ClearTest(s)
    PROVE  Alone'
<1> DEFINE next == node[entry[s]].next
<1>1. /\ s \in Writers /\ pc[s] = "test" /\ Others(s)
      /\ UNCHANGED <<node, head, searches, temp, succ>>
  BY ThreadsOK, ClearApart DEF ClearTest, At, Clear, Apart
<1>2. /\ entry[s] \in Members /\ Sound(entry[s]) /\ After(entry[s]) = next
      /\ \A p \in Members : p <= entry[s] => node[p].kind # "dynamic"
      /\ s # Setup /\ Chained /\ \A p \in Members : Sound(p)
  BY <1>1, Place DEF PlaceOK, Clearing, After, Sound
<1>3. CASE next = NoNode /\ GoOn(s, todo[s])
  <2>1. \A p \in Members : node[p].kind # "dynamic"
    BY <1>2, <1>3 DEF Chained
  <2> QED BY <1>1, <1>2, <1>3, <2>1, Known, AloneListEnd
<1>4. CASE /\ next # NoNode
           /\ Go(s, IF node[next].kind = "dynamic" THEN "delete" ELSE "skip")
           /\ UNCHANGED <<entry, todo>>
  <2>1. pc'[s] = IF node[next].kind = "dynamic" THEN "delete" ELSE "skip"
    BY <1>1, <1>4, Known DEF Go
  <2>2. Members' = Members
    BY <1>1, <2>1, Place, MembersOf
  <2>3. PlaceOK(s)'
    BY <1>1, <1>2, <1>4, <2>1, <2>2 DEF PlaceOK, Clearing, After, Sound
  <2> QED BY <1>1, <1>4, <2>1, <2>3, AloneWalk DEF Clearing
<1>5. ~Sound(NoNode)
  BY DEF Sound, NoNode
<1> QED BY <1>3, <1>4, <1>5 DEF ClearTest

\* What holds where a search clears.
LEMMA ClearPlace ==
    ASSUME IInv, Alone, NEW s \in Searches, Clearing(s)
    PROVE  /\ s \in Writers /\ s # Setup /\ s \in Threads
           /\ \A v \in Writers \ {s} : pc[v] = "idle"
           /\ Chained /\ entry[s] \in Members
           /\ \A p \in Members : p <= entry[s] => node[p].kind # "dynamic"
           /\ \A p \in Members : Sound(p) /\ After(p) = node[p].next /\ p \in Nat /\ p # NoNode
           /\ LET next == After(entry[s]) IN
              next # NoNode => /\ next \in Members /\ next > entry[s]
                               /\ \A q \in Members : q <= entry[s] \/ q >= next
<1>1. s \in Writers /\ pc[s] # "idle" /\ pc[s] \notin {"own", "fill", "reread"}
  BY ThreadsOK DEF Clearing
<1>2. /\ s # Setup /\ s \in Threads /\ Chained /\ \A p \in Members : Sound(p)
      /\ \A v \in Writers \ {s} : pc[v] = "idle"
  BY <1>1, Place, ThreadsOK
<1>3. /\ entry[s] \in Members
      /\ \A p \in Members : p <= entry[s] => node[p].kind # "dynamic"
  BY <1>1, Place DEF PlaceOK
<1> QED BY <1>1, <1>2, <1>3, MemberFields DEF Chained

LEMMA ClearSkipAlone ==
    ASSUME IInv, Alone, NEW s \in Searches, ClearSkip(s)
    PROVE  Alone'
<1>1. /\ pc[s] = "skip" /\ Clearing(s) /\ Others(s)
      /\ UNCHANGED <<node, head, searches, temp, succ, todo>>
  BY ClearApart DEF ClearSkip, At, Clear, Apart, Clearing
<1>2. /\ s \in Writers /\ After(entry[s]) # NoNode
      /\ node[After(entry[s])].kind # "dynamic"
  BY <1>1, ClearPlace, Place DEF PlaceOK
<1>3. pc'[s] = "test" /\ entry'[s] = After(entry[s])
  BY <1>1, <1>2, ClearPlace, Known DEF ClearSkip, Go, Walk
<1>4. Members' = Members
  BY <1>1, <1>3, ClearPlace, MembersOf
<1>5. PlaceOK(s)'
  <2>1. \A p \in Members : p <= After(entry[s]) => node[p].kind # "dynamic"
    BY <1>1, <1>2, ClearPlace
  <2> QED BY <1>1, <1>2, <1>3, <1>4, <2>1, ClearPlace DEF PlaceOK, Clearing, Sound
<1> QED BY <1>1, <1>2, <1>3, <1>5, AloneWalk DEF Clearing

LEMMA DeleteAlone ==
    ASSUME IInv, Alone, NEW s \in Searches, Delete(s)
    PROVE  Alone'
<1>1. /\ pc[s] = "delete" /\ Clearing(s) /\ Others(s)
      /\ UNCHANGED <<node, head, searches, entry, succ, todo>>
  BY ClearApart DEF Delete, At, Clear, Apart, Clearing
<1>2. /\ s \in Writers /\ After(entry[s]) # NoNode
      /\ node[After(entry[s])].kind = "dynamic"
  BY <1>1, ClearPlace, Place DEF PlaceOK
<1>3. pc'[s] = "load" /\ temp'[s] = After(entry[s])
  BY <1>1, <1>2, ClearPlace, Known DEF Delete, Go, IInv, LocalsOK
<1>4. Members' = Members
  BY <1>1, <1>3, ClearPlace, MembersOf
<1>5. PlaceOK(s)'
  BY <1>1, <1>2, <1>3, <1>4, ClearPlace DEF PlaceOK, Clearing, Sound, After
<1> QED BY <1>1, <1>2, <1>3, <1>5, AloneWalk DEF Clearing

LEMMA LoadAlone ==
    ASSUME IInv, Alone, NEW s \in Searches, Load(s)
    PROVE  Alone'
<1>1. /\ pc[s] = "load" /\ Clearing(s) /\ Others(s)
      /\ UNCHANGED <<node, head, searches, entry, temp, todo>>
  BY ClearApart DEF Load, At, Clear, Apart, Clearing
<1>2. /\ s \in Writers /\ After(entry[s]) # NoNode
      /\ node[After(entry[s])].kind = "dynamic" /\ temp[s] = After(entry[s])
  BY <1>1, ClearPlace, Place DEF PlaceOK
<1>3. pc'[s] = "store" /\ succ'[s] = After(temp[s])
  BY <1>1, <1>2, ClearPlace, Known DEF Load, Go, IInv, LocalsOK
<1>4. Members' = Members
  BY <1>1, <1>3, ClearPlace, MembersOf
<1>5. PlaceOK(s)'
  BY <1>1, <1>2, <1>3, <1>4, ClearPlace DEF PlaceOK, Clearing, Sound, After
<1> QED BY <1>1, <1>2, <1>3, <1>5, AloneWalk DEF Clearing

\* While a search clears, the list keeps all that is not dynamic.
LEMMA AloneClear ==
    ASSUME IInv, Alone, NEW s \in Searches, Clearing(s), Clearing(s)', Others(s),
           UNCHANGED <<head, searches, todo>>, Len(node') = Len(node),
           \A p \in 1 .. Len(node') : node'[p].state # "raw",
           Members' \subseteq Members,
           \A p \in Members : node[p].kind # "dynamic" => p \in Members',
           \A p \in Members' : /\ Sound(p)' /\ node'[p].net = node[p].net
                               /\ node'[p].kind = node[p].kind /\ node'[p].by = node[p].by,
           Chained', PlaceOK(s)'
    PROVE  Alone'
<1>1. s \in Writers /\ s # Setup /\ pc[s] # "idle"
  BY ClearPlace DEF Clearing
<1>2. NetsOnce'
  BY <1>1, ClearPlace DEF Alone, NetsOnce
<1>3. HeadStays'
  <2>1. head # NoNode => head \in Members' /\ node'[head].kind = node[head].kind /\ Sound(head)
    BY ClearPlace DEF Chained
  <2> QED BY <2>1 DEF HeadStays, Alone
<1>4. RawIsNew' /\ Renewed'
  BY DEF RawIsNew, Renewed
<1>5. pc[Setup] = "idle" /\ pc'[Setup] = "idle"
  BY <1>1, ClearPlace, ThreadsOK DEF Others
<1>6. SetupFirst'
  BY <1>5 DEF SetupFirst, Alone
<1>7. IfacesKept'
  <2>1. \A n : HasOwn(n) => HasOwn(n)'
    BY DEF HasOwn
  <2> QED BY <2>1 DEF Alone, IfacesKept
<1> QED BY <1>1, <1>2, <1>3, <1>4, <1>6, <1>7, AloneStep

LEMMA StoreAlone ==
    ASSUME IInv, Alone, NEW s \in Searches, Store(s)
    PROVE  Alone'
<1> DEFINE e == entry[s]
           t == After(e)
<1>1. /\ pc[s] = "store" /\ Clearing(s) /\ Others(s) /\ Sound(e)
      /\ UNCHANGED <<head, searches, entry, temp, todo>>
      /\ node' = [node EXCEPT ![e].next = succ[s]]
  BY ClearApart DEF Store, At, Clear, Apart, Clearing
<1>2. /\ s \in Writers /\ t # NoNode
      /\ node[t].kind = "dynamic" /\ temp[s] = t /\ succ[s] = After(t)
  BY <1>1, ClearPlace, Place DEF PlaceOK
<1>3. pc'[s] = "free" /\ Clearing(s)'
  BY <1>1, <1>2, ClearPlace, Known DEF Store, Go, Clearing
<1>4. /\ e \in Members /\ t \in Members /\ t > e /\ e \in Nat /\ t \in Nat
      /\ \A q \in Members : q <= e \/ q >= t
  BY <1>1, <1>2, ClearPlace
<1>5. /\ Len(node') = Len(node)
      /\ \A p \in 1 .. Len(node) : p # e => node'[p] = node[p]
      /\ e \in 1 .. Len(node)
      /\ node'[e].state = "set" /\ node'[e].next = After(t)
      /\ node'[e].kind = node[e].kind /\ node'[e].net = node[e].net
      /\ node'[e].by = node[e].by
  <2>1. node \in Seq(Cells) /\ e \in 1 .. Len(node) /\ node[e] \in Cells /\ node[e].state = "set"
    BY <1>1, Nodes DEF IInv, ListOK, NodesOK, Sound
  <2>2. node[e] \in [state : {"set"}, net : Nets, kind : {"static", "direct", "dynamic"},
                     by : 0 .. MaxSearches, next : Nat]
    BY <2>1, CellFields
  <2> HIDE DEF e, t
  <2>3. /\ Len(node') = Len(node)
        /\ \A p \in 1 .. Len(node) : p # e => node'[p] = node[p]
        /\ node'[e] = [node[e] EXCEPT !.next = After(t)]
    BY <1>1, <1>2, <2>1, LenProperties
  <2> QED BY <2>1, <2>2, <2>3
<1> HIDE DEF e, t
<1>6. Members' = Members \ {t}
  <2>1. /\ Members = {p \in 1 .. Len(node) : node[p].state # "freed"}
        /\ Members' = {p \in 1 .. Len(node') : node'[p].state # "freed"} \ {t}
    BY <1>1, <1>2, <1>3, ClearPlace, MembersOf
  <2>2. \A p \in 1 .. Len(node) : (node'[p].state # "freed") = (node[p].state # "freed")
    BY <1>1, <1>5 DEF Sound
  <2> QED BY <1>5, <2>1, <2>2
<1>7. \A p \in 1 .. Len(node) : After(p)' = IF p = e THEN After(t) ELSE After(p)
  BY <1>5 DEF After
<1>8. \A p \in Members : p \in 1 .. Len(node)
  BY MemberFields
<1>9. Chained'
  <2>1. \A p \in Members : p \in Nat /\ After(p) \in Nat
    <3>1. NoNode \in Nat
      BY DEF NoNode
    <3> QED BY <1>1, <3>1, ClearPlace DEF Chained
  <2>2. head \in Members /\ head # NoNode /\ head # t /\ \A q \in Members : head <= q
    BY <1>1, <1>2, <1>4, <2>1, ClearPlace DEF Chained
  <2>3. ASSUME NEW p \in Members'
        PROVE  IF After(p)' = NoNode THEN \A q \in Members' : q <= p
               ELSE /\ After(p)' \in Members' /\ After(p)' > p
                    /\ \A q \in Members' : q <= p \/ q >= After(p)'
    <3>1. p \in Members /\ p # t /\ p \in 1 .. Len(node)
      BY <1>6, <1>8
    <3>2. CASE p = e
      <4>1. After(p)' = After(t)
        BY <1>7, <3>1, <3>2
      <4>2. CASE After(t) = NoNode
        <5>1. \A q \in Members : q <= t
          BY <1>1, <1>4, <4>2, ClearPlace DEF Chained
        <5>2. \A q \in Members' : q <= p
          BY <1>4, <1>6, <2>1, <3>2, <5>1
        <5> QED BY <4>1, <4>2, <5>2
      <4>3. CASE After(t) # NoNode
        <5>1. /\ After(t) \in Members /\ After(t) > t
              /\ \A q \in Members : q <= t \/ q >= After(t)
          BY <1>1, <1>4, <4>3, ClearPlace DEF Chained
        <5>2. After(t) \in Members' /\ After(t) > p
          BY <1>4, <1>6, <2>1, <3>2, <5>1
        <5>3. \A q \in Members' : q <= p \/ q >= After(t)
          BY <1>4, <1>6, <2>1, <3>2, <5>1
        <5> QED BY <4>1, <4>3, <5>2, <5>3
      <4> QED BY <4>2, <4>3
    <3>3. CASE p # e
      <4>1. After(p)' = After(p)
        BY <1>7, <3>1, <3>3
      <4>2. After(p) # t
        BY <1>1, <1>2, <1>4, <2>1, <3>1, <3>3, ClearPlace DEF Chained
      <4> QED BY <1>1, <1>6, <3>1, <4>1, <4>2, ClearPlace DEF Chained
    <3> QED BY <3>2, <3>3
  <2>4. head \in Members' /\ \A q \in Members' : head <= q
    BY <1>6, <2>2
  <2> QED BY <1>1, <2>2, <2>3, <2>4 DEF Chained
<1>10. PlaceOK(s)'
  <2>1. /\ e \in Members' /\ \A p : p = e => Sound(p)'
        /\ \A p \in Members' : p <= e => node'[p].kind # "dynamic"
    <3>1. \A p \in Members : p <= e => node[p].kind # "dynamic"
      BY <1>1, ClearPlace DEF e
    <3>2. \A p \in Members' : p \in Members /\ node'[p].kind = node[p].kind
      BY <1>5, <1>6, <1>8
    <3> QED BY <1>4, <1>5, <1>6, <3>1, <3>2 DEF Sound
  <2>2. \A p : p = t => Sound(p)' /\ node'[p].kind = "dynamic"
    <3>1. t \in 1 .. Len(node) /\ t # e /\ node[t].state = "set"
      BY <1>1, <1>4, <1>8, ClearPlace DEF Sound
    <3> QED BY <1>2, <1>5, <3>1 DEF Sound
  <2>3. entry'[s] = e /\ temp'[s] = t
    BY <1>1, <1>2 DEF e
  <2> QED BY <1>3, <2>1, <2>2, <2>3 DEF PlaceOK, Clearing
<1>11. \A p \in Members' : /\ Sound(p)' /\ node'[p].net = node[p].net
                           /\ node'[p].kind = node[p].kind /\ node'[p].by = node[p].by
  BY <1>1, <1>5, <1>6, <1>8, ClearPlace DEF Sound
<1>12. \A p \in 1 .. Len(node') : node'[p].state # "raw"
  <2>1. \A p \in 1 .. Len(node) : node[p].state # "raw"
    BY <1>1, <1>2, ClearPlace DEF Alone, RawIsNew
  <2> QED BY <1>5, <2>1
<1> QED BY <1>1, <1>2, <1>3, <1>5, <1>6, <1>9, <1>10, <1>11, <1>12, AloneClear

LEMMA FreeAlone ==
    ASSUME IInv, Alone, NEW s \in Searches, Free(s)
    PROVE  Alone'
<1> DEFINE t == temp[s]
<1>1. /\ pc[s] = "free" /\ Clearing(s) /\ Others(s) /\ Sound(t)
      /\ UNCHANGED <<head, searches, entry, succ, todo>>
      /\ node' = [node EXCEPT ![t] = Freed]
  BY ClearApart DEF Free, At, Clear, Apart, Clearing
<1>2. s \in Writers /\ pc'[s] = "test" /\ Clearing(s)'
  BY <1>1, ClearPlace, Known DEF Free, Go, Clearing
<1>3. /\ Len(node') = Len(node)
      /\ \A p \in 1 .. Len(node) : node'[p] = IF p = t THEN Freed ELSE node[p]
  <2>1. node \in Seq(Cells) /\ t \in 1 .. Len(node)
    BY <1>1 DEF IInv, ListOK, NodesOK, Sound
  <2> QED BY <1>1, <2>1, LenProperties
<1> HIDE DEF t
<1>4. Members' = Members /\ t \notin Members
  <2>1. /\ Members = {p \in 1 .. Len(node) : node[p].state # "freed"} \ {t}
        /\ Members' = {p \in 1 .. Len(node') : node'[p].state # "freed"}
    BY <1>1, <1>2, ClearPlace, MembersOf DEF t
  <2>2. Freed.state = "freed"
    BY DEF Freed
  <2>3. \A p \in 1 .. Len(node) :
            (node'[p].state # "freed") = (node[p].state # "freed" /\ p # t)
    BY <1>3, <2>2
  <2> QED BY <1>3, <2>1, <2>3
<1>5. \A p \in Members : p \in 1 .. Len(node) /\ node'[p] = node[p]
  BY <1>3, <1>4, MemberFields
<1>6. \A p \in Members : After(p)' = After(p) /\ Sound(p)' /\ Sound(p)
  BY <1>1, <1>3, <1>5, ClearPlace DEF After, Sound
<1>7. Chained'
  BY <1>1, <1>4, <1>6, ClearPlace DEF Chained
<1>8. PlaceOK(s)'
  BY <1>1, <1>2, <1>4, <1>5, <1>6, ClearPlace DEF PlaceOK, Clearing
<1>9. \A p \in 1 .. Len(node') : node'[p].state # "raw"
  <2>1. \A p \in 1 .. Len(node) : node[p].state # "raw"
    BY <1>1, <1>2, ClearPlace DEF Alone, RawIsNew
  <2> QED BY <1>3, <2>1 DEF Freed
<1> QED BY <1>1, <1>2, <1>3, <1>4, <1>5, <1>6, <1>7, <1>8, <1>9, AloneClear

\* What holds where a writer adds routes.
LEMMA AddPlace ==
    ASSUME IInv, Alone, NEW w \in Writers,
           pc[w] \in {"check", "first", "reread", "tail", "link", "own", "fill"}
    PROVE  /\ PlaceOK(w) /\ Chained /\ \A v \in Writers \ {w} : pc[v] = "idle"
           /\ \A p \in Members : Sound(p) /\ node[p].kind = "dynamic" =>
                  w # Setup /\ node[p].by = searches
           /\ todo[w] # <<>> /\ todo[w] \in Seq(Nets) /\ Head(todo[w]) \in Nets
           /\ Tail(todo[w]) \in Seq(Nets)
           /\ pc[w] \notin {"own", "fill", "reread"} => \A p \in Members : Sound(p)
<1>1. /\ PlaceOK(w) /\ Chained /\ \A v \in Writers \ {w} : pc[v] = "idle"
      /\ pc[w] \notin {"own", "fill", "reread"} => \A p \in Members : Sound(p)
  BY Place
<1>2. \A s \in Searches : ~Clearing(s)
  BY <1>1, ThreadsOK DEF Clearing
<1>3. \A p \in Members : Sound(p) /\ node[p].kind = "dynamic" =>
                  w # Setup /\ node[p].by = searches
  BY <1>2 DEF Alone, Renewed, SetupFirst
<1>4. /\ todo[w] # <<>> /\ todo[w] \in Seq(Nets)
  BY DEF IInv, WritersOK, WriterOK, LocalsOK
<1> QED BY <1>1, <1>3, <1>4, HeadTailProperties

LEMMA CheckRouteAlone ==
    ASSUME IInv, Alone, NEW w \in Writers, CheckRoute(w)
    PROVE  Alone'
<1> DEFINE e == entry[w]
<1>1. /\ pc[w] = "check" /\ Sound(e) /\ Others(w)
      /\ UNCHANGED <<node, head, searches, temp, succ>>
  BY AddApart DEF CheckRoute, At, Add, Apart
<1>2. /\ e \in Members /\ e # NoNode /\ After(e) = node[e].next
      /\ \A p \in Members : p < e => node[p].net # Head(todo[w])
  BY <1>1, AddPlace, MemberFields DEF PlaceOK, Sound, NoNode, After
<1>3. CASE node[e].net = Head(todo[w]) /\ NetDone(w)
  <2>1. w = Setup => node[e].kind # "dynamic"
    BY <1>1, <1>2, AddPlace
  <2>2. w = Setup => HasOwn(node[e].net)
    BY <1>1, <1>2, <2>1 DEF HasOwn
  <2>3. w = Setup => \E n \in Nets : n = Head(todo[w]) /\ HasOwn(n)
    BY <1>1, <1>3, <2>2, AddPlace
  <2>4. \A p \in Members : node[p].kind = "dynamic" => w # Setup /\ node[p].by = searches
    BY <1>1, AddPlace
  <2>5. todo[w] # <<>> /\ Tail(todo[w]) \in Seq(Nets) /\ GoOn(w, Tail(todo[w]))
    BY <1>1, <1>3, AddPlace DEF NetDone
  <2> QED BY <1>1, <2>3, <2>4, <2>5, AloneListEnd
<1>4. CASE node[e].net # Head(todo[w]) /\ Walk(w, After(e)) /\ UNCHANGED <<pc, todo>>
  <2>1. entry'[w] = After(e)
    BY <1>4, Known DEF Walk
  <2>2. Members' = Members
    BY <1>1, <1>4, AddPlace, MembersOf
  <2>3. After(e) \in Members \cup {NoNode}
    BY <1>1, <1>2, AddPlace DEF Chained
  <2>4. \A p \in Members : After(e) = NoNode \/ p < After(e) => node[p].net # Head(todo[w])
    <3> SUFFICES ASSUME NEW p \in Members, After(e) = NoNode \/ p < After(e)
                 PROVE  node[p].net # Head(todo[w])
      OBVIOUS
    <3>1. p \in Nat /\ e \in Nat /\ \A q \in Members : q \in Nat
      BY <1>2, MemberFields
    <3>2. CASE After(e) = NoNode
      <4>1. p <= e
        BY <1>1, <1>2, <3>2, AddPlace DEF Chained
      <4> QED BY <1>2, <1>4, <3>1, <4>1
    <3>3. CASE After(e) # NoNode
      <4>1. p <= e \/ p >= After(e)
        BY <1>1, <1>2, <3>3, AddPlace DEF Chained
      <4>2. After(e) \in Nat
        BY <2>3, <3>1, <3>3
      <4> HIDE DEF e
      <4> QED BY <1>2, <1>4, <3>1, <3>3, <4>1, <4>2
    <3> QED BY <3>2, <3>3
  <2>5. PlaceOK(w)'
    BY <1>1, <1>4, <2>1, <2>2, <2>3, <2>4 DEF PlaceOK, Clearing
  <2> QED BY <1>1, <1>4, <2>5, AloneWalk DEF Clearing
<1> QED BY <1>2, <1>3, <1>4 DEF CheckRoute

LEMMA NoRouteAlone ==
    ASSUME IInv, Alone, NEW s \in Searches, NoRoute(s)
    PROVE  Alone'
<1>1. /\ s \in Writers /\ s # Setup /\ pc[s] = "check" /\ Others(s)
      /\ UNCHANGED <<node, head, searches>> /\ NetDone(s)
  BY NoRouteApart, ThreadsOK, ThreadsDiffer DEF NoRoute, At, Apart
<1> QED BY <1>1, AddPlace, AloneListEnd DEF NetDone

LEMMA AddRouteAlone ==
    ASSUME IInv, Alone, NEW w \in Writers, AddRoute(w)
    PROVE  Alone'
<1>1. /\ pc[w] = "check" /\ entry[w] = NoNode /\ Others(w)
      /\ UNCHANGED <<node, head, searches, todo, temp, succ>>
  BY AddApart DEF AddRoute, At, Add, Apart
<1>2. /\ entry'[w] = head
      /\ pc'[w] = IF head = NoNode THEN "first" ELSE "tail"
  BY Known DEF AddRoute, Go, Walk
<1>3. Members' = Members
  BY <1>1, <1>2, AddPlace, MembersOf
<1>4. \A p \in Members : node[p].net # Head(todo[w]) /\ Sound(p)
  BY <1>1, AddPlace DEF PlaceOK
<1>5. head = NoNode => w = Setup
  BY <1>1, AddPlace, ThreadsOK DEF Alone, SetupFirst
<1>6. head # NoNode => head \in Members /\ Sound(head)
  BY <1>1, <1>4, AddPlace DEF Chained
<1>7. PlaceOK(w)'
  BY <1>1, <1>2, <1>3, <1>4, <1>5, <1>6 DEF PlaceOK, Clearing, Sound
<1> QED BY <1>1, <1>2, <1>7, AloneWalk DEF Clearing

LEMMA AddWalkAlone ==
    ASSUME IInv, Alone, NEW w \in Writers, AddWalk(w)
    PROVE  Alone'
<1> DEFINE e == entry[w]
<1>1. /\ pc[w] = "tail" /\ Sound(e) /\ Others(w)
      /\ UNCHANGED <<node, head, searches, todo, temp, succ>>
  BY AddApart DEF AddWalk, At, Add, Apart
<1>2. /\ e \in Members /\ After(e) = node[e].next
      /\ \A p \in Members : node[p].net # Head(todo[w]) /\ Sound(p)
      /\ After(e) # NoNode => After(e) \in Members
  BY <1>1, AddPlace DEF PlaceOK, After, Sound, Chained
<1>3. \/ After(e) # NoNode /\ entry'[w] = After(e) /\ pc'[w] = "tail"
      \/ After(e) = NoNode /\ entry'[w] = e /\ pc'[w] = "link"
  BY <1>1, <1>2, Known DEF AddWalk, Walk, Go
<1>4. Members' = Members
  BY <1>1, <1>3, AddPlace, MembersOf
<1>5. PlaceOK(w)'
  BY <1>1, <1>2, <1>3, <1>4 DEF PlaceOK, Clearing, Sound, After
<1> QED BY <1>1, <1>3, <1>5, AloneWalk DEF Clearing

LEMMA AddOwnAlone ==
    ASSUME IInv, Alone, NEW w \in Writers, AddOwn(w)
    PROVE  Alone'
<1> DEFINE e == entry[w]
<1>1. /\ pc[w] = "own" /\ Sound(e) /\ Others(w)
      /\ UNCHANGED <<node, head, searches, todo, temp, succ>>
  BY AddApart DEF AddOwn, At, Add, Apart
<1>2. /\ e \in Members /\ After(e) = Len(node) /\ node[Len(node)] = Raw
      /\ After(e) = node[e].next
      /\ \A p \in Members : Sound(p) => node[p].net # Head(todo[w])
  BY <1>1, AddPlace DEF PlaceOK, After, Sound
<1>3. pc'[w] = "fill" /\ entry'[w] = Len(node)
  BY <1>1, <1>2, Known DEF AddOwn, Walk, Go
<1>4. Members' = Members
  BY <1>1, <1>3, AddPlace, MembersOf
<1>5. Len(node) \in Members /\ Len(node) # head
  <2>1. Len(node) \in Nat /\ Len(node) # NoNode /\ e \in Nat /\ head \in Nat
    BY <1>1, <1>2, MemberFields, Known DEF Sound, NoNode
  <2> QED BY <1>1, <1>2, <2>1, AddPlace DEF Chained
<1>6. PlaceOK(w)'
  BY <1>1, <1>2, <1>3, <1>4, <1>5 DEF PlaceOK, Clearing, Sound
<1> QED BY <1>1, <1>3, <1>6, AloneWalk DEF Clearing

LEMMA AddFirstAlone ==
    ASSUME IInv, Alone, NEW w \in Writers, AddFirst(w)
    PROVE  Alone'
<1> DEFINE n == Len(node) + 1
<1>1. /\ pc[w] = "first" /\ Others(w) /\ UNCHANGED <<searches, todo, entry, temp, succ>>
      /\ node' = Append(node, Raw) /\ head' = n
  BY AddApart DEF AddFirst, At, Add, Apart, thread
<1>2. w = Setup /\ Members = {} /\ pc'[w] = "reread"
  BY <1>1, AddPlace, Known DEF PlaceOK, Chained, AddFirst, Go
<1>3. /\ Len(node') = n /\ n \in Nat /\ n # NoNode /\ node'[n] = Raw
      /\ \A p \in 1 .. n : p # n => p \in 1 .. Len(node) /\ node'[p] = node[p]
  <2>1. node \in Seq(Cells) /\ Raw \in Cells /\ Len(node) \in Nat
    BY Nodes, CellFields DEF IInv, ListOK, NodesOK
  <2> QED BY <1>1, <2>1, AppendProperties DEF NoNode
<1> HIDE DEF n
<1>4. Members' = {n}
  <2>1. \A p \in 1 .. Len(node) : node[p].state = "freed"
    BY <1>1, <1>2, AddPlace, MembersOf
  <2>2. Members' = {p \in 1 .. n : node'[p].state # "freed"}
    BY <1>1, <1>2, <1>3, AddPlace, MembersOf
  <2>3. n \in 1 .. n
    BY <1>3 DEF NoNode
  <2> QED BY <1>3, <2>1, <2>2, <2>3, CellFields
<1>5. \A p : p = n => After(p)' = NoNode /\ ~Sound(p)'
  BY <1>3, CellFields DEF After, Sound
<1>6. Chained'
  BY <1>1, <1>3, <1>4, <1>5 DEF Chained
<1>7. NetsOnce' /\ HeadStays'
  BY <1>1, <1>4, <1>5 DEF NetsOnce, HeadStays
<1>8. RawIsNew'
  <2>1. \A p \in 1 .. Len(node) : node[p].state = "freed"
    BY <1>1, <1>2, AddPlace, MembersOf
  <2> QED BY <1>2, <1>3, <2>1 DEF RawIsNew
<1>9. Renewed' /\ SetupFirst'
  BY <1>2, <1>4, <1>5 DEF Renewed, SetupFirst
<1>10. IfacesKept'
  BY <1>1, <1>2 DEF Alone, IfacesKept, HasOwn
<1>11. PlaceOK(w)'
  BY <1>1, <1>2, <1>3, <1>4 DEF PlaceOK, Clearing
<1> QED BY <1>1, <1>6, <1>7, <1>8, <1>9, <1>10, <1>11, AloneStep

\* The fields of the new entry p are set.
LEMMA AloneFill ==
    ASSUME IInv, Alone, NEW w \in Writers, pc[w] \in {"reread", "fill"},
           Others(w), UNCHANGED <<head, searches>>, NetDone(w),
           NEW p \in Members, p = Len(node), node[p] = Raw, p = head => w = Setup,
           \A q \in Members : Sound(q) => node[q].net # Head(todo[w]),
           node' = [node EXCEPT ![p] = Route(Head(todo[w]), Kind(w), searches)]
    PROVE  Alone'
<1> DEFINE n == Head(todo[w])
           c == Route(n, Kind(w), searches)
<1>1. n \in Nets /\ \A v \in Writers \ {w} : pc[v] = "idle"
  BY AddPlace
<1>2. /\ c.state = "set" /\ c.net = n /\ c.kind = Kind(w) /\ c.by = searches /\ c.next = NoNode
  BY DEF Route
<1>3. /\ Len(node') = Len(node) /\ p \in 1 .. Len(node)
      /\ \A q \in 1 .. Len(node) : node'[q] = IF q = p THEN c ELSE node[q]
  <2>1. node \in Seq(Cells) /\ p \in 1 .. Len(node)
    BY MemberFields DEF IInv, ListOK, NodesOK
  <2> QED BY <2>1, LenProperties
<1> HIDE DEF c, n
<1>4. pc'[w] \in {"idle", "check"}
  BY Known DEF NetDone, GoOn, Go
<1>5. Members' = Members
  <2>1. /\ Members = {q \in 1 .. Len(node) : node[q].state # "freed"}
        /\ Members' = {q \in 1 .. Len(node') : node'[q].state # "freed"}
    BY <1>1, <1>4, MembersOf
  <2>2. Raw.state # "freed"
    BY CellFields
  <2> QED BY <1>2, <1>3, <2>1, <2>2
<1>6. \A q \in 1 .. Len(node) : After(q)' = After(q)
  BY <1>2, <1>3, CellFields DEF After
<1>7. \A q \in Members : /\ q \in 1 .. Len(node) /\ Sound(q)'
                         /\ q # p => Sound(q) /\ node'[q] = node[q]
  <2>1. \A q \in 1 .. Len(node) : q # p => node[q].state # "raw"
    BY DEF Alone, RawIsNew
  <2>2. \A q \in Members : q \in 1 .. Len(node) /\ (node[q] = Raw \/ Sound(q))
    BY MemberFields
  <2>3. \A q \in Members : q # p => Sound(q) /\ node'[q] = node[q]
    BY <1>3, <2>1, <2>2, CellFields
  <2> QED BY <1>2, <1>3, <2>2, <2>3 DEF Sound
<1>8. Chained'
  BY <1>5, <1>6, <1>7 DEF Alone, Chained
<1>9. NetsOnce'
  <2>1. node'[p].net = n /\ \A q \in Members : q # p => node[q].net # n
    BY <1>2, <1>3, <1>7 DEF n
  <2> QED BY <1>5, <1>7, <2>1 DEF Alone, NetsOnce
<1>10. Kind(w) = "dynamic" => w # Setup
  BY DEF Kind
<1>11. HeadStays'
  <2>1. CASE head = p
    BY <1>2, <1>3, <2>1 DEF HeadStays, Kind
  <2>2. CASE head # p /\ head # NoNode
    <3>1. head \in Members
      BY <2>2 DEF Alone, Chained
    <3> QED BY <1>7, <2>2, <3>1 DEF Alone, HeadStays
  <2> QED BY <2>1, <2>2 DEF HeadStays
<1>12. \A q \in 1 .. Len(node') : node'[q].state # "raw"
  <2>1. \A q \in 1 .. Len(node) : q # p => node[q].state # "raw"
    BY DEF Alone, RawIsNew
  <2> QED BY <1>2, <1>3, <2>1
<1>13. \A q \in Members' : Sound(q)' /\ node'[q].kind = "dynamic" =>
           w # Setup /\ node'[q].by = searches
  BY <1>2, <1>3, <1>5, <1>7, <1>10, AddPlace
<1>14. \A m : HasOwn(m) => HasOwn(m)'
  <2>1. \A q \in Members : Sound(q) => q # p
    BY CellFields DEF Sound
  <2> QED BY <1>5, <1>7, <2>1 DEF HasOwn
<1>15. w = Setup => \E m \in Nets : m = Head(todo[w]) /\ HasOwn(m)'
  <2>1. w = Setup => node'[p].kind # "dynamic" /\ node'[p].net = n
    BY <1>2, <1>3, <1>10
  <2>2. w = Setup => \A m : m = n => HasOwn(m)'
    BY <1>5, <1>7, <2>1 DEF HasOwn
  <2> QED BY <1>1, <2>2 DEF n
<1> QED BY <1>5, <1>8, <1>9, <1>11, <1>12, <1>13, <1>14, <1>15, AddPlace, AloneEnd DEF NetDone

LEMMA FillFirstAlone ==
    ASSUME IInv, Alone, NEW w \in Writers, FillFirst(w)
    PROVE  Alone'
<1>1. /\ pc[w] = "reread" /\ Others(w) /\ UNCHANGED <<head, searches>> /\ NetDone(w)
      /\ node' = [node EXCEPT ![head] = Route(Head(todo[w]), Kind(w), searches)]
  BY AddApart DEF FillFirst, At, Add, Apart
<1>2. w = Setup /\ Members = {head} /\ node[head] = Raw
  BY <1>1, AddPlace DEF PlaceOK
<1>3. head = Len(node) /\ ~Sound(head)
  BY <1>2, MemberFields, CellFields DEF Alone, RawIsNew, Sound
<1> QED BY <1>1, <1>2, <1>3, AloneFill

LEMMA AddFillAlone ==
    ASSUME IInv, Alone, NEW w \in Writers, AddFill(w)
    PROVE  Alone'
<1>1. /\ pc[w] = "fill" /\ Others(w) /\ UNCHANGED <<head, searches>> /\ NetDone(w)
      /\ node' = [node EXCEPT ![entry[w]] = Route(Head(todo[w]), Kind(w), searches)]
  BY AddApart DEF AddFill, At, Add, Apart
<1>2. /\ entry[w] \in Members /\ entry[w] = Len(node) /\ node[entry[w]] = Raw /\ entry[w] # head
      /\ \A p \in Members : Sound(p) => node[p].net # Head(todo[w])
  BY <1>1, AddPlace DEF PlaceOK
<1> QED BY <1>1, <1>2, AloneFill

LEMMA AddLinkAlone ==
    ASSUME IInv, Alone, NEW w \in Writers, AddLink(w)
    PROVE  Alone'
<1> DEFINE e == entry[w]
           n == Len(node) + 1
           c == [node[e] EXCEPT !.next = n]
           m == [node EXCEPT ![e] = c]
<1>1. /\ pc[w] = "link" /\ Sound(e) /\ Others(w)
      /\ UNCHANGED <<head, searches, todo, entry, temp, succ>>
      /\ node' = Append([node EXCEPT ![e].next = Len(node) + 1], Raw)
  BY AddApart DEF AddLink, At, Add, Apart, thread
<1>2. pc'[w] = "own"
  BY Known DEF AddLink, Go
<1>3. /\ e \in Members /\ After(e) = NoNode
      /\ \A p \in Members : Sound(p) /\ node[p].net # Head(todo[w])
  BY <1>1, AddPlace DEF PlaceOK
<1>4. /\ node \in Seq(Cells) /\ Len(node) \in Nat /\ e \in 1 .. Len(node)
      /\ node[e] \in Cells /\ node[e].state = "set" /\ n \in Nat /\ n # NoNode
  BY <1>1, Nodes DEF IInv, ListOK, NodesOK, Sound, NoNode
<1>5. /\ c \in Cells /\ c.state = "set" /\ c.next = n
      /\ c.kind = node[e].kind /\ c.net = node[e].net /\ c.by = node[e].by
  <2>1. node[e] \in [state : {"set"}, net : Nets, kind : {"static", "direct", "dynamic"},
                     by : 0 .. MaxSearches, next : Nat]
    BY <1>4, CellFields
  <2> HIDE DEF e, n
  <2> QED BY <1>4, <2>1, CellFields
<1>6. node' = Append(m, Raw)
  BY <1>1, <1>4, LenProperties
<1> HIDE DEF c
<1>7. /\ m \in Seq(Cells) /\ Len(m) = Len(node)
      /\ \A q \in 1 .. Len(node) : m[q] = IF q = e THEN c ELSE node[q]
  BY <1>4, <1>5, ExceptSeq
<1> HIDE DEF m
<1>8. /\ Len(node') = n /\ node'[n] = Raw
      /\ \A q \in 1 .. Len(node) : node'[q] = IF q = e THEN c ELSE node[q]
  <2>1. /\ Len(Append(m, Raw)) = Len(m) + 1
        /\ \A q \in 1 .. Len(m) : Append(m, Raw)[q] = m[q]
        /\ Append(m, Raw)[Len(m) + 1] = Raw
    BY <1>7, CellFields, AppendProperties
  <2> QED BY <1>6, <1>7, <2>1
<1>9. \A q \in 1 .. n : q = n \/ q \in 1 .. Len(node)
  BY <1>4
<1>10. n \notin 1 .. Len(node) /\ n \in 1 .. n /\ 1 .. Len(node) \subseteq 1 .. n
       /\ \A q \in 1 .. Len(node) : q < n
  BY <1>4
<1> HIDE DEF n, e
<1>11. Members' = Members \cup {n}
  <2>1. /\ Members = {q \in 1 .. Len(node) : node[q].state # "freed"}
        /\ Members' = {q \in 1 .. n : node'[q].state # "freed"}
    BY <1>1, <1>2, <1>8, AddPlace, MembersOf
  <2>2. Raw.state # "freed"
    BY CellFields
  <2>3. \A q \in 1 .. Len(node) : (node'[q].state # "freed") = (node[q].state # "freed")
    BY <1>4, <1>5, <1>8
  <2> QED BY <1>8, <1>9, <1>10, <2>1, <2>2, <2>3
<1>12. /\ \A q \in 1 .. Len(node) : After(q)' = IF q = e THEN n ELSE After(q)
       /\ \A q : q = n => After(q)' = NoNode /\ ~Sound(q)'
  BY <1>5, <1>8, CellFields DEF After, Sound
<1>13. \A q \in Members :
           /\ q \in 1 .. Len(node) /\ Sound(q)' /\ node'[q].net = node[q].net
           /\ node'[q].kind = node[q].kind /\ node'[q].by = node[q].by
  <2>1. \A q \in Members : q \in 1 .. Len(node) /\ node[q].state = "set"
    BY <1>3, MemberFields DEF Sound
  <2> QED BY <1>4, <1>5, <1>8, <1>10, <2>1 DEF Sound
<1>14. Chained'
  <2>1. /\ head # NoNode /\ head \in Members /\ \A q \in Members : head <= q
        /\ \A q \in Members : q <= e
    BY <1>1, <1>3, AddPlace DEF Chained
  <2>2. ASSUME NEW p \in Members'
        PROVE  IF After(p)' = NoNode THEN \A q \in Members' : q <= p
               ELSE /\ After(p)' \in Members' /\ After(p)' > p
                    /\ \A q \in Members' : q <= p \/ q >= After(p)'
    <3>1. CASE p = n
      <4>1. \A q \in Members' : q = n \/ q < n
        BY <1>10, <1>11, <1>13
      <4> QED BY <1>4, <1>12, <3>1, <4>1
    <3>2. CASE p = e
      <4>1. After(p)' = n /\ n > p
        BY <1>3, <1>10, <1>12, <1>13, <3>2
      <4> QED BY <1>4, <1>11, <2>1, <3>2, <4>1
    <3>3. CASE p \in Members /\ p # e
      <4>1. /\ After(p)' = After(p) /\ p \in Nat /\ e \in Nat
            /\ p <= e
        BY <1>3, <1>4, <1>12, <1>13, <2>1, <3>3
      <4>2. After(p) # NoNode
        <5>1. After(p) = NoNode => e <= p
          BY <1>1, <1>3, <3>3, AddPlace DEF Chained
        <5> QED BY <3>3, <4>1, <5>1
      <4>3. /\ After(p) \in Members /\ After(p) > p
            /\ \A q \in Members : q <= p \/ q >= After(p)
        BY <1>1, <3>3, <4>2, AddPlace DEF Chained
      <4>4. n >= After(p)
        BY <1>4, <1>10, <1>13, <4>3
      <4> QED BY <1>11, <4>1, <4>2, <4>3, <4>4
    <3> QED BY <1>11, <3>1, <3>2, <3>3
  <2>3. \A q \in Members' : head <= q
    <3>1. head \in 1 .. Len(node)
      BY <1>13, <2>1
    <3>2. head < n
      BY <1>10, <3>1
    <3> QED BY <1>4, <1>11, <2>1, <3>1, <3>2
  <2> QED BY <1>1, <1>11, <2>1, <2>2, <2>3 DEF Chained
<1>15. NetsOnce'
  BY <1>3, <1>11, <1>12, <1>13 DEF Alone, NetsOnce
<1>16. HeadStays'
  <2>1. head \in Members /\ head # NoNode
    BY <1>1, <1>3, AddPlace DEF Chained
  <2> QED BY <1>1, <1>3, <1>13, <2>1 DEF Alone, HeadStays
<1>17. RawIsNew'
  <2>1. \A q \in 1 .. Len(node) : node[q].state # "raw"
    BY <1>1, AddPlace DEF Alone, RawIsNew
  <2>2. \A q \in 1 .. Len(node) : node'[q].state # "raw"
    BY <1>5, <1>8, <2>1
  <2> QED BY <1>2, <1>8, <1>9, <2>2 DEF RawIsNew
<1>18. Renewed'
  BY <1>1, <1>3, <1>11, <1>12, <1>13, AddPlace DEF Renewed
<1>19. SetupFirst'
  <2>1. CASE pc'[Setup] = "idle"
    <3>1. head # NoNode
      BY <1>1, <1>3, AddPlace DEF Chained
    <3> QED BY <1>1, <2>1, <3>1 DEF SetupFirst
  <2>2. CASE pc'[Setup] # "idle"
    <3>1. w = Setup
      BY <1>1, <2>2, AddPlace, ThreadsOK DEF Others
    <3>2. \A q \in Members : node[q].kind # "dynamic"
      BY <1>1, <1>3, <3>1, AddPlace
    <3> QED BY <1>11, <1>12, <1>13, <2>2, <3>2 DEF SetupFirst
  <2> QED BY <2>1, <2>2
<1>20. IfacesKept'
  <2>1. \A x : HasOwn(x) => HasOwn(x)'
    BY <1>11, <1>13 DEF HasOwn
  <2> QED BY <1>1, <2>1 DEF Alone, IfacesKept
<1>21. PlaceOK(w)'
  <2>1. \A q : q = e => q \in Members' /\ Sound(q)' /\ After(q)' = Len(node')
    BY <1>3, <1>8, <1>11, <1>12, <1>13
  <2>2. entry'[w] = e
    BY <1>1 DEF e
  <2>3. \A q \in Members' : Sound(q)' => node'[q].net # Head(todo'[w])
    BY <1>1, <1>3, <1>11, <1>12, <1>13
  <2>4. node'[Len(node')] = Raw
    BY <1>8
  <2> QED BY <1>2, <2>1, <2>2, <2>3, <2>4 DEF PlaceOK, Clearing
<1> QED BY <1>1, <1>14, <1>15, <1>16, <1>17, <1>18, <1>19, <1>20, <1>21, AloneStep

-----------------------------------------------------------------------------
\* The process does not end of itself

LEMMA WriterDoesNotCrash ==
    ASSUME IInv, Alone, NEW w \in Writers
    PROVE  ~Crash(w)
<1> DEFINE e == entry[w]
<1>1. CASE pc[w] = "idle"
  BY <1>1 DEF Crash, Reads
<1>2. CASE Clearing(w) /\ pc[w] # "free"
  <2>1. w \in Searches
    BY <1>2 DEF Alone, PlaceOK
  <2>2. /\ Sound(e) /\ After(e) = node[e].next
        /\ node[e].next # NoNode => Sound(node[e].next)
    BY <1>2, <2>1, ClearPlace
  <2>3. pc[w] = "skip" => node[e].next # NoNode
    BY <1>2, <2>2 DEF Alone, PlaceOK
  <2>4. pc[w] = "load" => Sound(node[e].next)
    BY <1>2, <2>2 DEF Alone, PlaceOK
  <2> QED BY <1>2, <2>2, <2>3, <2>4 DEF Crash, Reads, Clearing
<1>3. CASE pc[w] = "free"
  <2>1. Sound(temp[w])
    BY <1>3 DEF Alone, PlaceOK
  <2> QED BY <1>3, <2>1 DEF Crash, Reads
<1>4. CASE pc[w] = "check"
  <2>1. e # NoNode => Sound(e)
    BY <1>4, AddPlace DEF PlaceOK
  <2> QED BY <1>4, <2>1 DEF Crash, Reads
<1>5. CASE pc[w] \in {"first", "reread"}
  BY <1>5 DEF Crash, Reads
<1>6. CASE pc[w] \in {"tail", "link", "own"}
  <2>1. Sound(e)
    BY <1>6 DEF Alone, PlaceOK
  <2>2. pc[w] = "own" => node[e].next # NoNode
    BY <1>6, <2>1, Known, MemberFields DEF Alone, PlaceOK, After, Sound, NoNode
  <2> QED BY <1>6, <2>1, <2>2 DEF Crash, Reads
<1>7. CASE pc[w] = "fill"
  <2>1. node[e].state # "freed"
    BY <1>7, CellFields DEF Alone, PlaceOK
  <2> QED BY <1>7, <2>1 DEF Crash, Reads
<1>8. pc[w] \in States /\ pc[w] # "look"
  BY ThreadsOK DEF IInv, LocalsOK, Alone, PlaceOK
<1> QED BY <1>1, <1>2, <1>3, <1>4, <1>5, <1>6, <1>7, <1>8 DEF States, Clearing

\* Where the main thread is while no writer is anywhere.
LEMMA LookPlace ==
    ASSUME IInv, Alone, Watching, pc[Main] = "look"
    PROVE  /\ \A w \in Writers : pc[w] = "idle"
           /\ entry[Main] \in Members \cup {NoNode} /\ best \in Members \cup {NoNode}
           /\ \A p \in Members : /\ Sound(p) /\ p # NoNode
                                 /\ node[p].next \in Members \cup {NoNode}
<1>1. /\ \A w \in Writers : pc[w] = "idle"
      /\ entry[Main] \in Members \cup {NoNode} /\ best \in Members \cup {NoNode}
  BY DEF Watching
<1>2. \A p \in Members : Sound(p) /\ p # NoNode /\ After(p) = node[p].next
  BY <1>1, AllSound, MemberFields
<1>3. \A p \in Members : After(p) \in Members \cup {NoNode}
  BY DEF Alone, Chained
<1> QED BY <1>1, <1>2, <1>3

LEMMA MainDoesNotCrash ==
    ASSUME IInv, Alone, Watching
    PROVE  ~Crash(Main)
<1>1. CASE pc[Main] = "idle"
  BY <1>1 DEF Crash, Reads
<1>2. CASE pc[Main] = "look"
  <2>1. entry[Main] # NoNode => Sound(entry[Main])
    BY <1>2, LookPlace
  <2>2. best # NoNode => Sound(best)
    BY <1>2, LookPlace
  <2> QED BY <1>2, <2>1, <2>2 DEF Crash, Reads
<1> QED BY <1>1, <1>2 DEF IInv, LocalsOK

\* A step that leaves the writers and the list as they are.
LEMMA AloneSame ==
    ASSUME IInv, Alone, UNCHANGED <<node, head, searches, temp, succ, todo>>,
           \A w \in Writers : pc'[w] = pc[w] /\ entry'[w] = entry[w]
    PROVE  Alone' /\ Members' = Members
<1>1. Members' = Members
  <2>1. {temp[v] : v \in {u \in Writers : pc[u] = "free"}}
          = {temp'[v] : v \in {u \in Writers : pc'[u] = "free"}}
    OBVIOUS
  <2> QED BY <2>1 DEF Members
<1>2. \A p : Sound(p)' = Sound(p) /\ After(p)' = After(p)
  BY DEF Sound, After
<1>3. Chained' /\ NetsOnce' /\ HeadStays' /\ RawIsNew' /\ OneWriter'
  BY <1>1, <1>2 DEF Alone, Chained, NetsOnce, HeadStays, RawIsNew, OneWriter
<1>4. Renewed' /\ SetupFirst'
  BY <1>1, <1>2, ThreadsOK DEF Alone, Renewed, Clearing, SetupFirst
<1>5. IfacesKept'
  <2>1. \A n : HasOwn(n)' = HasOwn(n)
    BY <1>1, <1>2 DEF HasOwn
  <2> QED BY <2>1 DEF Alone, IfacesKept
<1>6. ASSUME NEW w \in Writers PROVE PlaceOK(w)'
  <2>1. /\ pc'[w] = pc[w] /\ entry'[w] = entry[w] /\ PlaceOK(w)
    BY DEF Alone
  <2>2. /\ Sound(entry[w])' = Sound(entry[w]) /\ After(entry[w])' = After(entry[w])
        /\ Sound(temp[w])' = Sound(temp[w]) /\ After(temp[w])' = After(temp[w])
    BY <2>1 DEF Sound, After
  <2>3. Clearing(w)' = Clearing(w)
    BY <2>1 DEF Clearing
  <2> QED BY <1>1, <1>2, <2>1, <2>2, <2>3 DEF PlaceOK
<1> QED BY <1>1, <1>3, <1>4, <1>5, <1>6 DEF Alone

LEMMA InitAlone == Init => AloneInv
<1> SUFFICES ASSUME Init PROVE AloneInv
  OBVIOUS
<1>1. PICK table \in StaticTables :
          /\ statics = Len(table)
          /\ node = Linking(table)
          /\ head = IF table = <<>> THEN NoNode ELSE 1
  BY DEF Init
<1>2. /\ table \in Seq(Nets) /\ Len(table) \in Nat /\ (table = <<>> <=> Len(table) = 0)
  BY <1>1, TablesAssumption, LenProperties, EmptySeq
<1>3. /\ Len(node) = Len(table)
      /\ \A i \in 1 .. Len(table) :
            /\ node[i].state = "set" /\ node[i].kind = "static"
            /\ node[i].next = IF i < Len(table) THEN i + 1 ELSE NoNode
  <2>1. node = [i \in 1 .. Len(table) |->
                  [Route(table[i], "static", 0) EXCEPT
                     !.next = IF i < Len(table) THEN i + 1 ELSE NoNode]]
    BY <1>1 DEF Linking
  <2>2. IInv
    BY InitOK
  <2>3. node \in Seq(Cells) /\ DOMAIN node = 1 .. Len(node) /\ Len(node) \in Nat
    BY <2>2, LenProperties DEF IInv, ListOK, NodesOK
  <2>4. 1 .. Len(node) = 1 .. Len(table)
    BY <2>1, <2>3
  <2>5. Len(node) = Len(table)
    BY <1>2, <2>3, <2>4
  <2>6. ASSUME NEW i \in 1 .. Len(table)
        PROVE  /\ node[i].state = "set" /\ node[i].kind = "static"
               /\ node[i].next = IF i < Len(table) THEN i + 1 ELSE NoNode
    BY <2>1 DEF Route
  <2> QED BY <2>5, <2>6
<1>4. Setup \in Writers /\ \A w \in Writers : pc[w] = IF w = Setup THEN "check" ELSE "idle"
  BY ThreadsOK DEF Init
<1>5. Members = 1 .. Len(node)
  <2>1. \A w \in Writers : pc[w] # "free"
    BY <1>4
  <2> QED BY <1>3, <2>1 DEF Members
<1>6. \A p \in Members : /\ Sound(p) /\ node[p].kind = "static"
                         /\ After(p) = IF p < Len(node) THEN p + 1 ELSE NoNode
  BY <1>3, <1>5 DEF Sound, After
<1>7. Chained
  BY <1>1, <1>2, <1>3, <1>5, <1>6 DEF Chained, NoNode
<1>8. NetsOnce /\ RawIsNew /\ Renewed
  BY <1>3, <1>5, <1>6 DEF NetsOnce, RawIsNew, Renewed
<1>9. HeadStays
  <2>1. Sound(head) => head \in Members
    BY <1>5 DEF Sound
  <2> QED BY <1>6, <2>1 DEF HeadStays
<1>10. SetupFirst
  BY <1>4, <1>6 DEF SetupFirst
<1>11. IfacesKept
  BY <1>4 DEF Init, IfacesKept
<1>12. OneWriter
  BY <1>4 DEF OneWriter
<1>13. ASSUME NEW w \in Writers PROVE PlaceOK(w)
  <2>1. CASE w = Setup
    <3>1. entry[w] = head
      BY <2>1, ThreadsOK DEF Init
    <3>2. entry[w] \in Members \cup {NoNode} /\ \A p \in Members : ~(p < head) /\ head # NoNode
      BY <1>5, <1>7, <3>1 DEF Chained
    <3> QED BY <1>4, <2>1, <3>1, <3>2 DEF PlaceOK, Clearing
  <2>2. CASE w # Setup
    BY <1>4, <2>2 DEF Init, PlaceOK, Clearing
  <2> QED BY <2>1, <2>2
<1>14. Alone
  BY <1>7, <1>8, <1>9, <1>10, <1>11, <1>12, <1>13 DEF Alone
<1>15. pc[Main] = "idle" /\ best = NoNode /\ ~fault
  BY ThreadsOK DEF Init
<1> QED BY <1>14, <1>15 DEF AloneInv, Watching

LEMMA WriterKeeps ==
    ASSUME IInv, AloneInv, NEW w \in Writers, pc[w] # "idle", Apart(w),
           UNCHANGED <<overlap, watched, fault>>, Alone => Alone'
    PROVE  AloneInv'
<1>1. Watching => Watching'
  BY DEF Watching, Apart
<1> QED BY <1>1 DEF AloneInv

LEMMA AloneNext == IInv /\ AloneInv /\ [Next]_vars => AloneInv'
<1> SUFFICES ASSUME IInv, AloneInv, [Next]_vars PROVE AloneInv'
  OBVIOUS
<1>1. ASSUME NEW s \in Searches, Begin(s) PROVE AloneInv'
  <2>1. ~overlap' => Alone'
    BY <1>1, BeginAlone DEF AloneInv, Begin
  <2>2. Apart(s)
    <3>1. \E list : todo' = [todo EXCEPT ![s] = list]
      BY <1>1 DEF Begin, GoOn
    <3>2. (\E x : Go(s, x)) /\ (\E p : Walk(s, p))
      BY <1>1 DEF Begin, GoOn
    <3> QED BY <1>1, <3>1, <3>2, ThreadsOK, LocalApart DEF Begin
  <2>3. ~overlap' /\ ~watched' => Watching'
    BY <1>1, <2>2 DEF AloneInv, Begin, Watching, Apart
  <2>4. fault' => overlap' \/ watched'
    BY <1>1 DEF AloneInv, Begin
  <2> QED BY <2>1, <2>3, <2>4 DEF AloneInv
<1>2. ASSUME NEW s \in Searches, Clear(s) PROVE AloneInv'
  <2>1. Alone => Alone'
    BY <1>2, ClearTestAlone, ClearSkipAlone, DeleteAlone, LoadAlone, StoreAlone, FreeAlone
       DEF Clear
  <2>2. s \in Writers /\ pc[s] # "idle" /\ UNCHANGED <<overlap, watched, fault>>
    BY <1>2, ThreadsOK DEF Clear, ClearTest, ClearSkip, Delete, Load, Store, Free, At
  <2> QED BY <1>2, <2>1, <2>2, ClearApart, WriterKeeps
<1>3. ASSUME NEW s \in Searches, NoRoute(s) PROVE AloneInv'
  <2>1. s \in Writers /\ pc[s] # "idle" /\ UNCHANGED <<overlap, watched, fault>>
    BY <1>3, ThreadsOK DEF NoRoute, At
  <2> QED BY <1>3, <2>1, NoRouteAlone, NoRouteApart, WriterKeeps
<1>4. ASSUME NEW w \in Writers, Add(w) PROVE AloneInv'
  <2>1. Alone => Alone'
    BY <1>4, CheckRouteAlone, AddRouteAlone, AddFirstAlone, FillFirstAlone, AddWalkAlone,
       AddLinkAlone, AddOwnAlone, AddFillAlone DEF Add
  <2>2. pc[w] # "idle" /\ UNCHANGED <<overlap, watched, fault>>
    BY <1>4 DEF Add, CheckRoute, AddRoute, AddFirst, FillFirst, AddWalk, AddLink, AddOwn,
                AddFill, At
  <2> QED BY <1>4, <2>1, <2>2, AddApart, WriterKeeps
<1>5. ASSUME NEW n \in Dests, Lookup(n) PROVE AloneInv'
  <2>1. /\ \A w \in Writers : pc'[w] = pc[w] /\ entry'[w] = entry[w]
        /\ pc[Main] = "idle" /\ entry'[Main] = head
    BY <1>5, ThreadsOK DEF Lookup, At, Go, Walk, IInv, LocalsOK
  <2>2. Alone => Alone' /\ Members' = Members
    BY <1>5, <2>1, AloneSame DEF Lookup
  <2>3. Alone => head \in Members \cup {NoNode}
    BY DEF Alone, Chained
  <2>4. Alone /\ Watching /\ ~watched' => Watching'
    BY <1>5, <2>1, <2>2, <2>3 DEF Lookup, Watching
  <2> QED BY <1>5, <2>2, <2>4 DEF AloneInv, Lookup
<1>6. CASE Forward
  <2>1. /\ \A w \in Writers : pc'[w] = pc[w] /\ entry'[w] = entry[w]
        /\ UNCHANGED <<node, head, searches, temp, succ, todo, overlap, watched, fault>>
        /\ pc[Main] = "look"
    BY <1>6, ThreadsOK DEF Forward, Look, UseRoute, At, Go, Walk, IInv, LocalsOK
  <2>2. Alone => Alone' /\ Members' = Members
    BY <2>1, AloneSame
  <2>3. Alone /\ Watching => Watching'
    <3> SUFFICES ASSUME Alone, Watching PROVE Watching'
      OBVIOUS
    <3>1. CASE Look
      <4>1. entry[Main] \in Members /\ entry'[Main] = node[entry[Main]].next
        BY <2>1, <3>1, LookPlace, ThreadsOK DEF Look, Walk, Sound, IInv, LocalsOK, NoNode
      <4>2. best' \in Members \cup {NoNode} /\ entry'[Main] \in Members \cup {NoNode}
        BY <2>1, <3>1, <4>1, LookPlace DEF Look
      <4> QED BY <2>1, <2>2, <3>1, <4>2, LookPlace DEF Look, Watching
    <3>2. CASE UseRoute
      <4>1. pc'[Main] = "idle" /\ best' = NoNode
        BY <3>2, ThreadsOK DEF UseRoute, Go, IInv, LocalsOK
      <4> QED BY <4>1 DEF Watching
    <3> QED BY <1>6, <3>1, <3>2 DEF Forward
  <2> QED BY <2>1, <2>2, <2>3 DEF AloneInv
<1>7. ASSUME NEW t \in Threads, Crash(t) PROVE AloneInv'
  <2>1. overlap \/ watched
    BY <1>7, WriterDoesNotCrash, MainDoesNotCrash DEF AloneInv, Threads
  <2>2. UNCHANGED <<statics, node, head, pc, thread, searches, overlap, watched>>
    BY <1>7 DEF Crash, Fault
  <2>3. Alone => Alone'
    BY <2>2, AloneSame DEF thread
  <2> QED BY <2>1, <2>2, <2>3 DEF AloneInv
<1>8. CASE UNCHANGED vars
  <2>1. Alone => Alone' /\ Members' = Members
    BY <1>8, AloneSame DEF vars, thread
  <2>2. Alone /\ Watching => Watching'
    BY <1>8, <2>1 DEF Watching, vars, thread
  <2> QED BY <1>8, <2>1, <2>2 DEF AloneInv, vars
<1> QED BY <1>1, <1>2, <1>3, <1>4, <1>5, <1>6, <1>7, <1>8 DEF Next

-----------------------------------------------------------------------------
\* What one comes by from the head of the list

LEMMA Least == \A T \in SUBSET Nat : T # {} => \E x \in T : \A y \in T : x <= y
<1> SUFFICES ASSUME NEW T \in SUBSET Nat, T # {} PROVE \E x \in T : \A y \in T : x <= y
  OBVIOUS
<1> DEFINE R == OpToRel(<, Nat)
<1>1. \A i, j \in Nat : i < j => <<i, j>> \in R
  BY DEF OpToRel
<1>2. IsWellFoundedOn(R, Nat)
  BY NatLessThanWellFounded
<1> HIDE DEF R
<1>3. PICK x \in T : \A y \in T : ~(<<y, x>> \in R)
  BY <1>2, WFMin
<1>4. ASSUME NEW y \in T PROVE x <= y
  <2>1. x \in Nat /\ y \in Nat
    OBVIOUS
  <2>2. ~(y < x)
    BY <1>1, <1>3, <2>1
  <2> QED BY <2>1, <2>2
<1> QED BY <1>4

\* A set of pointers has a last one.
LEMMA LastOf ==
    ASSUME NEW N \in Nat, NEW T \in SUBSET (0 .. N), T # {}
    PROVE  \E x \in T : \A y \in T : y <= x
<1> DEFINE U == {N - x : x \in T}
<1>1. U \in SUBSET Nat /\ U # {}
  <2>1. \A x \in T : N - x \in Nat
    OBVIOUS
  <2> QED BY <2>1
<1> HIDE DEF U
<1>2. PICK u \in U : \A v \in U : u <= v
  BY <1>1, Least
<1>3. PICK x \in T : u = N - x
  BY <1>2 DEF U
<1>4. ASSUME NEW y \in T PROVE y <= x
  <2>1. N - y \in U
    BY DEF U
  <2>2. N - x <= N - y
    BY <1>2, <1>3, <2>1
  <2> QED BY <2>2
<1> QED BY <1>4

\* A step along the list that From follows, and the sets that such steps do not leave.
Steps(q) == Sound(q) /\ node[q].next > q
Closed(S) == \A q \in S : Steps(q) => node[q].next \in S
Reach(p) == {r \in Pointer \ {NoNode} : \A S \in SUBSET Pointer : p \in S /\ Closed(S) => r \in S}

\* g tells what one comes by from each pointer on.
IsFrom(g) ==
    g = [q \in Pointer |-> ({q} \ {NoNode}) \cup IF Steps(q) THEN g[node[q].next] ELSE {}]

LEMMA FromExists ==
    ASSUME IInv
    PROVE  \E g : IsFrom(g)
<1> DEFINE g == [q \in Pointer |-> Reach(q)]
<1>1. ASSUME NEW q \in Pointer
      PROVE  Reach(q) = ({q} \ {NoNode}) \cup IF Steps(q) THEN Reach(node[q].next) ELSE {}
  <2>1. q # NoNode => q \in Reach(q)
    BY DEF Reach
  <2>2. \A r \in Reach(q) \ {NoNode} : r \in Pointer
    BY DEF Reach
  <2>3. CASE Steps(q)
    <3> DEFINE n == node[q].next
    <3>1. n \in Pointer
      BY <2>3, Fields DEF Steps
    <3>2. Reach(n) \subseteq Reach(q)
      BY <2>3 DEF Reach, Closed
    <3>3. ASSUME NEW r \in Reach(q), r # q PROVE r \in Reach(n)
      <4> SUFFICES ASSUME NEW S \in SUBSET Pointer, n \in S, Closed(S) PROVE r \in S
        BY DEF Reach
      <4>1. Closed(S \cup {q})
        BY DEF Closed
      <4>2. r \in S \cup {q}
        BY <4>1 DEF Reach
      <4> QED BY <3>3, <4>2
    <3>4. NoNode \notin Reach(q)
      BY DEF Reach
    <3> QED BY <2>1, <2>3, <3>2, <3>3, <3>4
  <2>4. CASE ~Steps(q)
    <3>1. Closed({q})
      BY <2>4 DEF Closed
    <3>2. Reach(q) \subseteq {q} /\ NoNode \notin Reach(q)
      BY <3>1 DEF Reach
    <3> QED BY <2>1, <2>4, <3>2
  <2> QED BY <2>3, <2>4
<1>2. \A q \in Pointer : Steps(q) => node[q].next \in Pointer
  BY Fields DEF Steps
<1>3. \A q \in Pointer : g[q] = Reach(q)
  OBVIOUS
<1>4. \A q \in Pointer :
          g[q] = ({q} \ {NoNode}) \cup IF Steps(q) THEN g[node[q].next] ELSE {}
  BY <1>1, <1>2, <1>3
<1>5. g = [q \in Pointer |-> g[q]]
  OBVIOUS
<1> HIDE DEF g
<1>6. IsFrom(g)
  BY <1>4, <1>5 DEF IsFrom
<1> QED BY <1>6

\* Through the members of a list in order one comes by each of them.
LEMMA FromChain ==
    ASSUME IInv, Chained, NEW g, IsFrom(g)
    PROVE  g[head] = Members
<1>1. /\ Len(node) \in Nat /\ Pointer = 0 .. Len(node) /\ NoNode \in Pointer
      /\ \A p \in Members : p \in Nat /\ p \in Pointer /\ p # NoNode
  BY MemberFields, Nodes DEF IInv, ListOK, NoNode
<1>2. ASSUME NEW q \in Members
      PROVE  /\ After(q) # NoNode => Steps(q) /\ node[q].next = After(q)
             /\ After(q) = NoNode => ~Steps(q)
             /\ After(q) # NoNode => After(q) \in Members /\ After(q) > q
  <2>1. After(q) # NoNode => After(q) \in Members /\ After(q) > q
    BY DEF Chained
  <2>2. Sound(q) <=> node[q].state = "set"
    BY MemberFields DEF Sound
  <2>3. After(q) # NoNode => Sound(q) /\ node[q].next = After(q)
    BY <2>2 DEF After
  <2>4. After(q) = NoNode => ~Steps(q)
    BY <1>1, <2>2 DEF After, Steps, NoNode
  <2> QED BY <2>1, <2>3, <2>4 DEF Steps
<1> DEFINE Rest(q) == {r \in Members : r >= q}
           Bad == {q \in Members : g[q] # Rest(q)}
<1>3. Bad = {}
  <2> SUFFICES ASSUME Bad # {} PROVE FALSE
    OBVIOUS
  <2>1. PICK q \in Bad : \A y \in Bad : y <= q
    <3>1. Bad \in SUBSET (0 .. Len(node))
      BY <1>1
    <3> HIDE DEF Bad
    <3> QED BY <1>1, <3>1, LastOf
  <2>2. q \in Members /\ q \in Nat /\ q # NoNode /\ q \in Pointer
    BY <1>1, <2>1
  <2>3. CASE After(q) = NoNode
    <3>1. g[q] = {q}
      BY <1>2, <2>2, <2>3 DEF IsFrom
    <3>2. \A r \in Members : r <= q
      BY <2>2, <2>3 DEF Chained
    <3>3. \A r \in Members : r >= q <=> r = q
      BY <1>1, <2>2, <3>2
    <3>4. Rest(q) = {q}
      BY <2>2, <3>3
    <3> QED BY <2>1, <3>1, <3>4
  <2>4. CASE After(q) # NoNode
    <3>1. /\ Steps(q) /\ node[q].next = After(q) /\ After(q) \in Members /\ After(q) > q
          /\ After(q) \in Nat
      BY <1>1, <1>2, <2>2, <2>4
    <3>2. After(q) \notin Bad
      BY <2>1, <2>2, <3>1
    <3>3. g[After(q)] = Rest(After(q))
      BY <3>1, <3>2
    <3>4. g[q] = {q} \cup g[After(q)]
      BY <2>2, <3>1 DEF IsFrom
    <3>5. \A r \in Members : r <= q \/ r >= After(q)
      BY <2>2, <2>4 DEF Chained
    <3>6. \A r \in Members : r >= q <=> r = q \/ r >= After(q)
      BY <1>1, <2>2, <3>1, <3>5
    <3>7. Rest(q) = {q} \cup Rest(After(q))
      BY <2>2, <3>6
    <3> QED BY <2>1, <3>3, <3>4, <3>7
  <2> QED BY <2>3, <2>4
<1>4. CASE head = NoNode
  <2>1. ~Steps(NoNode)
    BY DEF Steps, Sound, NoNode
  <2>2. g[NoNode] = {}
    BY <1>1, <2>1 DEF IsFrom
  <2> QED BY <1>4, <2>2 DEF Chained
<1>5. CASE head # NoNode
  <2>1. head \in Members /\ \A q \in Members : head <= q
    BY <1>5 DEF Chained
  <2>2. Rest(head) = Members
    BY <1>1, <2>1
  <2> QED BY <1>3, <2>1, <2>2
<1> QED BY <1>4, <1>5

LEMMA FromHead ==
    ASSUME IInv, Chained
    PROVE  From(head) = Members
<1> DEFINE g == CHOOSE h : IsFrom(h)
<1>1. IsFrom(g)
  BY FromExists
<1>2. From(head) = g[head]
  BY DEF From, IsFrom, Steps
<1> HIDE DEF g
<1> QED BY <1>1, <1>2, FromChain

-----------------------------------------------------------------------------

\* While no two writers have overlapped the list is a chain of all that is not freed, and
\* a lookup that no writer has met walks along it.
THEOREM AloneInvariance == Spec => [](IInv /\ AloneInv)
<1>1. Init => IInv /\ AloneInv
  BY InitOK, InitAlone
<1>2. IInv /\ AloneInv /\ [Next]_vars => AloneInv'
  BY AloneNext
<1> QED BY <1>1, <1>2, Invariance, PTL DEF Spec

\* What is wrong with the table takes two threads in it at once.
THEOREM TableIsSoundAlone == Spec => []SoundAlone
<1>1. IInv /\ AloneInv => SoundAlone
  <2> SUFFICES ASSUME IInv, AloneInv, ~overlap PROVE OthersStay /\ OneRoutePerNet /\ OldRoutesGo
    BY DEF SoundAlone, AloneInv
  <2>1. Alone /\ From(head) = Members
    BY FromHead DEF AloneInv, Alone
  <2>2. Listed = {p \in Members : Sound(p)}
    BY <2>1 DEF Listed
  <2>3. OneRoutePerNet
    BY <2>1, <2>2 DEF OneRoutePerNet, Alone, NetsOnce
  <2>4. OldRoutesGo
    <3>1. (\A s \in Searches : pc[s] \in {"idle", "check"}) => \A s \in Searches : ~Clearing(s)
      BY DEF Clearing
    <3> QED BY <2>1, <2>2, <3>1 DEF OldRoutesGo, Alone, Renewed
  <2>5. ASSUME NEW p \in 1 .. Len(node), Sound(p), node[p].kind # "dynamic"
        PROVE  p \in From(head)
    <3>1. \A w \in Writers : pc[w] = "free" => temp[w] # p
      BY <2>1, <2>5 DEF Alone, PlaceOK
    <3> QED BY <2>1, <2>5, <3>1 DEF Members, Sound
  <2>6. ASSUME pc[Setup] = "idle", NEW i \in 1 .. Len(Ifaces)
        PROVE  Ifaces[i] \in {node[p].net : p \in {q \in Listed : node[q].kind # "dynamic"}}
    <3>1. todo[Setup] = <<>>
      BY <2>1, <2>6, ThreadsOK DEF Alone, PlaceOK
    <3>2. HasOwn(Ifaces[i])
      BY <2>1, <3>1 DEF Alone, IfacesKept
    <3> QED BY <2>2, <3>2 DEF HasOwn
  <2>7. OthersStay
    BY <2>5, <2>6 DEF OthersStay
  <2> QED BY <2>3, <2>4, <2>7
<1> QED BY <1>1, AloneInvariance, PTL

=============================================================================
