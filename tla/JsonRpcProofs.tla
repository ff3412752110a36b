--------------------------- MODULE JsonRpcProofs ---------------------------
(***************************************************************************)
(* Theorems about JsonRpc, for any clients, plans, sizes and bounds: what  *)
(* the streams keep of requests and answers, wherever recv cuts them.      *)
(***************************************************************************)
EXTENDS JsonRpc, TLAPS, SequenceTheorems, FiniteSetTheorems, WellFoundedInduction

-----------------------------------------------------------------------------
\* Streams

Piece == [msg : Messages, part : 1 .. Pieces]

\* q comes right after p in a stream.
Follows(p, q) ==
    IF p.part = Pieces THEN q.part = 1 ELSE q.msg = p.msg /\ q.part = p.part + 1

InARow(s) == \A i \in 1 .. Len(s) - 1 : Follows(s[i], s[i + 1])

\* What is left of messages that were put on the stream whole.
Flows(s) == InARow(s) /\ (s # <<>> => s[Len(s)].part = Pieces)

\* Whether a bracket is open after a piece, and before the first of a stream.
Open(p) == IF p.part = Pieces THEN 0 ELSE 1
Mid(s) == IF s = <<>> THEN 0 ELSE IF s[1].part = 1 THEN 0 ELSE 1

\* A count of brackets is right, or short of the one that went by uncounted.
Counts(depth, s) == depth - Mid(s) \in {0, -1}

LEMMA Sizes == Pieces \in Nat /\ Chunk \in Nat /\ 1 < Chunk /\ Chunk < Pieces
BY SizesAssumption

\* A set of natural numbers has a least element: what is wrong for some number is right
\* up to one where it is wrong first.
LEMMA Least == \A T \in SUBSET Nat : T # {} => \E x \in T : \A y \in T : x <= y
<1> SUFFICES ASSUME NEW T \in SUBSET Nat, T # {} PROVE \E x \in T : \A y \in T : x <= y
  OBVIOUS
<1> DEFINE R == OpToRel(<, Nat)
<1>1. IsWellFoundedOn(R, Nat)
  BY NatLessThanWellFounded
<1>2. \A i, j \in Nat : i < j => <<i, j>> \in R
  BY DEF OpToRel
<1> HIDE DEF R
<1>3. PICK x \in T : \A y \in T : ~(<<y, x>> \in R)
  BY <1>1, WFMin
<1>4. ASSUME NEW y \in T PROVE x <= y
  <2>1. x \in Nat /\ y \in Nat
    OBVIOUS
  <2>2. ~(y < x)
    BY <1>2, <1>3, <2>1
  <2> QED BY <2>1, <2>2
<1> QED BY <1>4

\* Where a position is that is beyond the first a of a + b.
LEMMA Beyond ==
    ASSUME NEW a \in Nat, NEW b \in Nat, NEW i \in 1 .. a + b, i \notin 1 .. a
    PROVE  i \in Nat /\ i > a /\ i - a \in 1 .. b /\ a + (i - a) = i
OBVIOUS

\* The pieces of a stream.
LEMMA Pieced ==
    ASSUME NEW s \in Seq(Piece)
    PROVE  /\ Len(s) \in Nat /\ DOMAIN s = 1 .. Len(s)
           /\ s = <<>> <=> Len(s) = 0
           /\ \A i \in 1 .. Len(s) : /\ s[i] \in Piece /\ s[i].msg \in Messages
                                     /\ s[i].part \in 1 .. Pieces
<1>1. Len(s) \in Nat /\ DOMAIN s = 1 .. Len(s)
  BY LenProperties
<1>2. s = <<>> <=> Len(s) = 0
  BY EmptySeq, <1>1
<1>3. ASSUME NEW i \in 1 .. Len(s)
      PROVE  s[i] \in Piece /\ s[i].msg \in Messages /\ s[i].part \in 1 .. Pieces
  <2>1. s[i] \in Piece
    BY ElementOfSeq
  <2> QED BY <2>1 DEF Piece
<1> QED BY <1>1, <1>2, <1>3

\* Counting the pieces of a kind one by one.
Upto(s, i, k) == {j \in 1 .. i : s[j].part = k}

LEMMA CountStep ==
    ASSUME NEW s, NEW k, NEW i \in Nat
    PROVE  /\ Cardinality(Upto(s, i, k)) \in Nat
           /\ Cardinality(Upto(s, i + 1, k)) =
                 Cardinality(Upto(s, i, k)) + (IF s[i + 1].part = k THEN 1 ELSE 0)
<1>1. IsFiniteSet(Upto(s, i, k)) /\ Cardinality(Upto(s, i, k)) \in Nat
  <2>1. IsFiniteSet(1 .. i)
    BY FS_Interval
  <2>2. Upto(s, i, k) \in SUBSET (1 .. i)
    BY DEF Upto
  <2>3. IsFiniteSet(Upto(s, i, k))
    BY <2>1, <2>2, FS_Subset
  <2> QED BY <2>3, FS_CardinalityType
<1>2. i + 1 \notin Upto(s, i, k)
  BY DEF Upto
<1>3. CASE s[i + 1].part = k
  <2>1. Upto(s, i + 1, k) = Upto(s, i, k) \cup {i + 1}
    BY <1>3 DEF Upto
  <2> QED BY <1>1, <1>2, <1>3, <2>1, FS_AddElement
<1>4. CASE s[i + 1].part # k
  <2>1. Upto(s, i + 1, k) = Upto(s, i, k)
    BY <1>4 DEF Upto
  <2> QED BY <1>1, <1>4, <2>1
<1> QED BY <1>1, <1>3, <1>4

\* The brackets counted in pieces in a row are those open after the last of them, less
\* the one that was open before the first.
LEMMA DepthIs ==
    ASSUME NEW s \in Seq(Piece), InARow(s), NEW d \in Int, NEW n \in 1 .. Len(s)
    PROVE  Depth(s, d, n) = d - Mid(s) + Open(s[n])
<1> DEFINE Right(i) == Depth(s, d, i) = d - Mid(s) + Open(s[i])
           T == {i \in 1 .. Len(s) : ~Right(i)}
           O(i) == Cardinality(Upto(s, i, 1))
           C(i) == Cardinality(Upto(s, i, Pieces))
<1>0. Pieces \in Nat /\ 2 < Pieces
  BY Sizes
<1>1. \A i \in Nat : Depth(s, d, i) = d + O(i) - C(i)
  BY DEF Depth, Upto
<1>2. \A i \in Nat : /\ O(i) \in Nat /\ C(i) \in Nat
                     /\ O(i + 1) = O(i) + (IF s[i + 1].part = 1 THEN 1 ELSE 0)
                     /\ C(i + 1) = C(i) + (IF s[i + 1].part = Pieces THEN 1 ELSE 0)
  BY CountStep
<1>3. O(0) = 0 /\ C(0) = 0
  <2>1. Upto(s, 0, 1) = {} /\ Upto(s, 0, Pieces) = {}
    BY DEF Upto
  <2> QED BY <2>1, FS_EmptySet
<1>4. Len(s) \in Nat /\ s # <<>> /\ \A i \in 1 .. Len(s) : s[i].part \in 1 .. Pieces
  BY Pieced
<1>5. Mid(s) = IF s[1].part = 1 THEN 0 ELSE 1
  BY <1>4 DEF Mid
<1> HIDE DEF O, C
<1>6. Right(1)
  <2>1. 1 \in 1 .. Len(s)
    BY <1>4
  <2>2. /\ O(0 + 1) = O(0) + (IF s[0 + 1].part = 1 THEN 1 ELSE 0)
        /\ C(0 + 1) = C(0) + (IF s[0 + 1].part = Pieces THEN 1 ELSE 0)
    BY <1>2
  <2>3. 0 + 1 = 1
    OBVIOUS
  <2>4. /\ O(1) = IF s[1].part = 1 THEN 1 ELSE 0
        /\ C(1) = IF s[1].part = Pieces THEN 1 ELSE 0
    BY <1>3, <2>2, <2>3
  <2> QED BY <1>0, <1>1, <1>4, <1>5, <2>1, <2>4 DEF Open
<1>7. ASSUME NEW i \in 1 .. Len(s) - 1, Right(i) PROVE Right(i + 1)
  <2>1. i \in 1 .. Len(s) /\ i + 1 \in 1 .. Len(s) /\ i \in Nat /\ i + 1 \in Nat
    BY <1>4
  <2>2. Follows(s[i], s[i + 1])
    BY DEF InARow
  <2>3. s[i].part \in 1 .. Pieces /\ s[i + 1].part \in 1 .. Pieces
    BY <1>4, <2>1
  <2>4. /\ O(i + 1) = O(i) + (IF s[i + 1].part = 1 THEN 1 ELSE 0)
        /\ C(i + 1) = C(i) + (IF s[i + 1].part = Pieces THEN 1 ELSE 0)
        /\ O(i) \in Nat /\ C(i) \in Nat
    BY <1>2, <2>1
  <2>5. d + O(i) - C(i) = d - Mid(s) + Open(s[i])
    BY <1>1, <1>7, <2>1
  <2>6. Mid(s) \in Int
    BY <1>5
  <2>7. d + O(i + 1) - C(i + 1) = d - Mid(s) + Open(s[i + 1])
    <3>1. CASE s[i].part = Pieces
      <4>1. s[i + 1].part = 1
        BY <2>2, <3>1 DEF Follows
      <4>2. O(i + 1) = O(i) + 1 /\ C(i + 1) = C(i) /\ Open(s[i]) = 0
            /\ Open(s[i + 1]) = 1
        BY <1>0, <2>4, <3>1, <4>1 DEF Open
      <4>3. PICK x \in Int, y \in Int, m \in Int : x = O(i) /\ y = C(i) /\ m = Mid(s)
        BY <2>4, <2>6
      <4>4. d + x - y = d - m + 0
        BY <2>5, <4>2, <4>3
      <4>5. d + (x + 1) - y = d - m + 1
        BY <4>4
      <4> QED BY <4>2, <4>3, <4>5
    <3>2. CASE s[i].part # Pieces
      <4>1. s[i + 1].part = s[i].part + 1 /\ s[i + 1].part # 1
        BY <2>2, <2>3, <3>2 DEF Follows
      <4>2. O(i + 1) = O(i) /\ Open(s[i]) = 1
        BY <2>4, <3>2, <4>1 DEF Open
      <4>3. d + O(i + 1) - C(i) = d - Mid(s) + 1
        BY <2>5, <4>2
      <4>4. CASE s[i + 1].part = Pieces
        <5>1. C(i + 1) = C(i) + 1 /\ Open(s[i + 1]) = 0
          BY <2>4, <4>4 DEF Open
        <5>2. PICK x \in Int, y \in Int, m \in Int : x = O(i + 1) /\ y = C(i) /\ m = Mid(s)
          BY <2>4, <2>6, <4>2
        <5>3. d + x - y = d - m + 1
          BY <4>3, <5>2
        <5>4. d + x - (y + 1) = d - m + 0
          BY <5>3
        <5> QED BY <5>1, <5>2, <5>4
      <4>5. CASE s[i + 1].part # Pieces
        <5>1. C(i + 1) = C(i) /\ Open(s[i + 1]) = 1
          BY <2>4, <4>5 DEF Open
        <5> QED BY <4>3, <5>1
      <4> QED BY <4>4, <4>5
    <3> QED BY <3>1, <3>2
  <2> QED BY <1>1, <2>1, <2>7
<1> HIDE DEF Right
<1>8. T = {}
  <2> SUFFICES ASSUME T # {} PROVE FALSE
    OBVIOUS
  <2>1. T \in SUBSET Nat
    OBVIOUS
  <2>2. PICK x \in T : \A y \in T : x <= y
    BY <2>1, Least
  <2>3. x \in 1 .. Len(s) /\ ~Right(x)
    OBVIOUS
  <2>4. x # 1
    BY <1>6, <2>3
  <2>5. x - 1 \in 1 .. Len(s) - 1 /\ x - 1 \in 1 .. Len(s) /\ (x - 1) + 1 = x /\ ~(x <= x - 1)
    BY <1>4, <2>3, <2>4
  <2>6. Right(x - 1)
    BY <2>2, <2>5
  <2>7. Right((x - 1) + 1)
    BY <1>7, <2>5, <2>6
  <2> QED BY <2>3, <2>5, <2>7
<1>9. Right(n)
  BY <1>8
<1> QED BY <1>9 DEF Right

\* What is left when n pieces were taken.
LEMMA BehindIs ==
    ASSUME NEW s \in Seq(Piece), NEW n \in 0 .. Len(s)
    PROVE  /\ Behind(s, n) \in Seq(Piece)
           /\ Len(Behind(s, n)) = Len(s) - n
           /\ \A i \in 1 .. Len(s) - n : /\ Behind(s, n)[i] = s[n + i]
                                         /\ n + i \in 1 .. Len(s)
           /\ n = Len(s) => Behind(s, n) = <<>>
<1>1. Len(s) \in Nat
  BY Pieced
<1>2. \A i \in (n + 1) .. Len(s) : s[i] \in Piece
  BY <1>1, Pieced
<1>3. /\ Behind(s, n) \in Seq(Piece)
      /\ Len(Behind(s, n)) = IF n + 1 <= Len(s) THEN Len(s) - (n + 1) + 1 ELSE 0
      /\ \A i \in 1 .. Len(s) - (n + 1) + 1 : Behind(s, n)[i] = s[n + 1 + i - 1]
  <2>1. n + 1 \in Int /\ Len(s) \in Int
    BY <1>1
  <2> QED BY <1>2, <2>1, SubSeqProperties DEF Behind
<1>4. Len(Behind(s, n)) = Len(s) - n
  BY <1>1, <1>3
<1>5. ASSUME NEW i \in 1 .. Len(s) - n
      PROVE  Behind(s, n)[i] = s[n + i] /\ n + i \in 1 .. Len(s)
  <2>1. i \in 1 .. Len(s) - (n + 1) + 1 /\ n + 1 + i - 1 = n + i /\ n + i \in 1 .. Len(s)
    BY <1>1
  <2> QED BY <1>3, <2>1
<1>6. n = Len(s) => Behind(s, n) = <<>>
  BY <1>1, <1>3, <1>4, Pieced
<1> QED BY <1>3, <1>4, <1>5, <1>6

LEMMA BehindFlows ==
    ASSUME NEW s \in Seq(Piece), Flows(s), NEW n \in 1 .. Len(s)
    PROVE  Flows(Behind(s, n)) /\ Mid(Behind(s, n)) = Open(s[n])
<1> DEFINE b == Behind(s, n)
<1>1. Len(s) \in Nat /\ s # <<>>
  BY Pieced
<1>2. /\ b \in Seq(Piece) /\ Len(b) = Len(s) - n
      /\ \A i \in 1 .. Len(s) - n : b[i] = s[n + i] /\ n + i \in 1 .. Len(s)
  BY <1>1, BehindIs
<1>3. b = <<>> <=> Len(b) = 0
  BY <1>2, Pieced
<1> HIDE DEF b
<1>4. InARow(b)
  <2> SUFFICES ASSUME NEW i \in 1 .. Len(b) - 1 PROVE Follows(b[i], b[i + 1])
    BY DEF InARow
  <2>1. /\ i \in 1 .. Len(s) - n /\ i + 1 \in 1 .. Len(s) - n
        /\ n + i \in 1 .. Len(s) - 1 /\ n + (i + 1) = (n + i) + 1
    BY <1>1, <1>2
  <2>2. b[i] = s[n + i] /\ b[i + 1] = s[(n + i) + 1]
    BY <1>2, <2>1
  <2> QED BY <2>1, <2>2 DEF Flows, InARow
<1>5. CASE n = Len(s)
  <2>1. b = <<>>
    BY <1>1, <1>2, <1>3, <1>5
  <2>2. s[n].part = Pieces
    BY <1>1, <1>5 DEF Flows
  <2> QED BY <1>4, <2>1, <2>2 DEF Flows, Mid, Open, b
<1>6. CASE n # Len(s)
  <2>1. /\ n \in 1 .. Len(s) - 1 /\ 1 \in 1 .. Len(s) - n /\ b # <<>>
        /\ Len(b) \in 1 .. Len(s) - n /\ n + Len(b) = Len(s)
    BY <1>1, <1>2, <1>3, <1>6
  <2>2. b[1] = s[n + 1] /\ b[Len(b)] = s[Len(s)]
    BY <1>2, <2>1
  <2>3. Follows(s[n], s[n + 1])
    BY <2>1 DEF Flows, InARow
  <2>4. s[n].part \in 1 .. Pieces /\ s[n + 1].part \in 1 .. Pieces /\ Pieces \in Nat
    BY <2>1, Pieced, Sizes
  <2>5. s[n].part = Pieces <=> s[n + 1].part = 1
    BY <2>3, <2>4 DEF Follows
  <2>6. Mid(b) = Open(s[n])
    BY <2>1, <2>2, <2>5 DEF Mid, Open
  <2>7. b[Len(b)].part = Pieces
    BY <1>1, <2>2 DEF Flows
  <2> QED BY <1>4, <2>6, <2>7 DEF Flows, b
<1> QED BY <1>5, <1>6

\* A recv that takes the first n pieces of a stream, and the loop over them that stops
\* after cut of them, with depth brackets open.
Reads(s, d, chunk, cut, depth) ==
    /\ chunk \in Seq(Piece)
    /\ Len(chunk) \in 1 .. Len(s) /\ Len(chunk) <= Chunk
    /\ \A i \in 1 .. Len(chunk) : chunk[i] = s[i]
    /\ cut \in 1 .. Len(chunk)
    /\ depth = d - Mid(s) + Open(s[cut])
    /\ cut < Len(chunk) => depth = 0
    /\ \A i \in 1 .. cut - 1 : d - Mid(s) + Open(s[i]) # 0

LEMMA RecvReads ==
    ASSUME NEW s \in Seq(Piece), Flows(s), NEW d \in Int, NEW chunk \in Chunks(s)
    PROVE  Reads(s, d, chunk, Cut(chunk, d), Depth(chunk, d, Cut(chunk, d)))
<1>0. Len(s) \in Nat /\ Chunk \in Nat
  BY Pieced, Sizes
<1>1. PICK n \in 1 .. (IF Len(s) < Chunk THEN Len(s) ELSE Chunk) : chunk = SubSeq(s, 1, n)
  BY DEF Chunks
<1>2. n \in 1 .. Len(s) /\ n <= Chunk /\ n \in Nat
  BY <1>0
<1>3. chunk \in Seq(Piece) /\ Len(chunk) = n /\ \A i \in 1 .. n : chunk[i] = s[i]
  <2>1. \A i \in 1 .. n : s[i] \in Piece
    BY <1>0, <1>2, Pieced
  <2>2. /\ SubSeq(s, 1, n) \in Seq(Piece)
        /\ Len(SubSeq(s, 1, n)) = IF 1 <= n THEN n - 1 + 1 ELSE 0
        /\ \A i \in 1 .. n - 1 + 1 : SubSeq(s, 1, n)[i] = s[1 + i - 1]
    BY <1>2, <2>1, SubSeqProperties
  <2>3. \A i \in 1 .. n : i \in 1 .. n - 1 + 1 /\ 1 + i - 1 = i
    BY <1>2
  <2> QED BY <1>1, <1>2, <2>2, <2>3
<1>4. InARow(chunk)
  <2> SUFFICES ASSUME NEW i \in 1 .. Len(chunk) - 1 PROVE Follows(chunk[i], chunk[i + 1])
    BY DEF InARow
  <2>1. i \in 1 .. n /\ i + 1 \in 1 .. n /\ i \in 1 .. Len(s) - 1
    BY <1>0, <1>2, <1>3
  <2> QED BY <1>3, <2>1 DEF Flows, InARow
<1>5. Mid(chunk) = Mid(s)
  <2>1. chunk # <<>> /\ s # <<>> /\ 1 \in 1 .. n
    BY <1>0, <1>2, <1>3, Pieced
  <2> QED BY <1>3, <2>1 DEF Mid
<1>6. \A i \in 1 .. n : Depth(chunk, d, i) = d - Mid(s) + Open(s[i])
  <2> SUFFICES ASSUME NEW i \in 1 .. n
               PROVE  Depth(chunk, d, i) = d - Mid(s) + Open(s[i])
    OBVIOUS
  <2>1. Depth(chunk, d, i) = d - Mid(chunk) + Open(chunk[i])
    BY <1>3, <1>4, DepthIs
  <2> QED BY <1>3, <1>5, <2>1
<1> DEFINE balanced == {i \in 1 .. Len(chunk) : Depth(chunk, d, i) = 0}
           cut == Cut(chunk, d)
<1>7. cut = IF balanced = {} THEN Len(chunk)
            ELSE CHOOSE i \in balanced : \A j \in balanced : i <= j
  BY DEF Cut
<1>8. CASE balanced = {}
  <2>1. cut = n /\ n \in 1 .. n
    BY <1>2, <1>3, <1>7, <1>8
  <2>2. \A i \in 1 .. cut - 1 : i \in 1 .. n
    BY <1>2, <2>1
  <2>3. \A i \in 1 .. n : Depth(chunk, d, i) # 0
    BY <1>3, <1>8
  <2>4. \A i \in 1 .. cut - 1 : d - Mid(s) + Open(s[i]) # 0
    BY <1>6, <2>2, <2>3
  <2>5. Depth(chunk, d, cut) = d - Mid(s) + Open(s[cut])
    BY <1>6, <2>1
  <2>6. ~(cut < Len(chunk))
    BY <1>2, <1>3, <2>1
  <2> QED BY <1>2, <1>3, <2>1, <2>4, <2>5, <2>6 DEF Reads
<1>9. CASE balanced # {}
  <2>1. balanced \in SUBSET Nat
    OBVIOUS
  <2>2. \E i \in balanced : \A j \in balanced : i <= j
    BY <1>9, <2>1, Least
  <2>3. cut \in balanced /\ \A j \in balanced : cut <= j
    BY <1>7, <1>9, <2>2
  <2>4. cut \in 1 .. n /\ Depth(chunk, d, cut) = 0
    BY <1>3, <2>3
  <2>5. \A i \in 1 .. cut - 1 : i \in 1 .. n /\ ~(cut <= i)
    BY <1>2, <2>4
  <2>6. \A i \in 1 .. cut - 1 : Depth(chunk, d, i) # 0
    BY <1>3, <2>3, <2>5
  <2>7. \A i \in 1 .. cut - 1 : d - Mid(s) + Open(s[i]) # 0
    BY <1>6, <2>5, <2>6
  <2>8. Depth(chunk, d, cut) = d - Mid(s) + Open(s[cut])
    BY <1>6, <2>4
  <2> QED BY <1>2, <1>3, <2>4, <2>7, <2>8 DEF Reads
<1> QED BY <1>8, <1>9

\* The text a thread has after the loop.
LEMMA TextIs ==
    ASSUME NEW full \in Seq(Piece), NEW chunk \in Seq(Piece), NEW cut \in 1 .. Len(chunk)
    PROVE  LET text == full \o SubSeq(chunk, 1, cut) IN
           /\ text \in Seq(Piece)
           /\ Len(text) = Len(full) + cut
           /\ text[Len(text)] = chunk[cut]
           /\ \A i \in 1 .. Len(full) : text[i] = full[i]
           /\ \A i \in 1 .. cut : text[Len(full) + i] = chunk[i]
<1> DEFINE part == SubSeq(chunk, 1, cut)
           text == full \o part
<1>0. Len(full) \in Nat /\ Len(chunk) \in Nat
  BY Pieced
<1>1. part \in Seq(Piece) /\ Len(part) = cut /\ \A i \in 1 .. cut : part[i] = chunk[i]
  <2>1. \A i \in 1 .. cut : chunk[i] \in Piece
    BY <1>0, Pieced
  <2>2. /\ part \in Seq(Piece)
        /\ Len(part) = IF 1 <= cut THEN cut - 1 + 1 ELSE 0
        /\ \A i \in 1 .. cut - 1 + 1 : part[i] = chunk[1 + i - 1]
    BY <2>1, <1>0, SubSeqProperties
  <2>3. \A i \in 1 .. cut : i \in 1 .. cut - 1 + 1 /\ 1 + i - 1 = i
    BY <1>0
  <2>4. cut - 1 + 1 = cut /\ 1 <= cut
    BY <1>0
  <2> QED BY <2>2, <2>3, <2>4
<1> HIDE DEF part
<1>2. /\ text \in Seq(Piece) /\ Len(text) = Len(full) + cut
      /\ \A i \in 1 .. Len(full) + cut :
            text[i] = IF i <= Len(full) THEN full[i] ELSE part[i - Len(full)]
  BY <1>1, ConcatProperties
<1> HIDE DEF text
<1>3. ASSUME NEW i \in 1 .. cut PROVE text[Len(full) + i] = chunk[i]
  <2>1. /\ Len(full) + i \in 1 .. Len(full) + cut /\ ~(Len(full) + i <= Len(full))
        /\ (Len(full) + i) - Len(full) = i
    BY <1>0
  <2> QED BY <1>1, <1>2, <2>1
<1>4. text[Len(text)] = chunk[cut]
  <2>1. cut \in 1 .. cut
    BY <1>0
  <2> QED BY <1>2, <1>3, <2>1
<1>5. ASSUME NEW i \in 1 .. Len(full) PROVE text[i] = full[i]
  <2>1. i \in 1 .. Len(full) + cut /\ i <= Len(full)
    BY <1>0
  <2> QED BY <1>2, <2>1
<1> QED BY <1>2, <1>3, <1>4, <1>5 DEF text, part

\* A message put behind a stream.
LEMMA WholeIs ==
    ASSUME NEW m \in Messages
    PROVE  /\ InPieces(m) \in Seq(Piece) /\ Len(InPieces(m)) = Pieces
           /\ \A i \in 1 .. Pieces : InPieces(m)[i].msg = m /\ InPieces(m)[i].part = i
<1>1. Pieces \in Nat
  BY Sizes
<1>2. \A i \in 1 .. Pieces : [msg |-> m, part |-> i] \in Piece
  BY DEF Piece
<1>3. InPieces(m) \in Seq(Piece) /\ Len(InPieces(m)) = Pieces
  BY <1>1, <1>2 DEF InPieces
<1> QED BY <1>3 DEF InPieces

LEMMA PutIs ==
    ASSUME NEW s \in Seq(Piece), Flows(s), NEW m \in Messages
    PROVE  LET new == s \o InPieces(m) IN
           /\ new \in Seq(Piece) /\ Flows(new) /\ Mid(new) = Mid(s)
           /\ Len(new) = Len(s) + Pieces /\ new # <<>>
           /\ \A i \in 1 .. Len(s) : new[i] = s[i]
           /\ \A i \in 1 .. Pieces : new[Len(s) + i].msg = m /\ new[Len(s) + i].part = i
           /\ s = <<>> => new = InPieces(m)
<1> DEFINE w == InPieces(m)
           new == s \o w
<1>0. Len(s) \in Nat /\ Pieces \in Nat /\ 2 < Pieces
  BY Pieced, Sizes
<1>1. /\ w \in Seq(Piece) /\ Len(w) = Pieces
      /\ \A i \in 1 .. Pieces : w[i].msg = m /\ w[i].part = i
  BY WholeIs
<1> HIDE DEF w
<1>2. /\ new \in Seq(Piece) /\ Len(new) = Len(s) + Pieces
      /\ \A i \in 1 .. Len(s) + Pieces :
            new[i] = IF i <= Len(s) THEN s[i] ELSE w[i - Len(s)]
  BY <1>1, ConcatProperties
<1>3. s = <<>> => new = w
  BY <1>1, ConcatEmptySeq
<1> HIDE DEF new
<1>4. ASSUME NEW i \in 1 .. Len(s) PROVE new[i] = s[i]
  <2>1. i \in 1 .. Len(s) + Pieces /\ i <= Len(s)
    BY <1>0
  <2> QED BY <1>2, <2>1
<1>5. ASSUME NEW i \in 1 .. Pieces
      PROVE  new[Len(s) + i].msg = m /\ new[Len(s) + i].part = i
  <2>1. /\ Len(s) + i \in 1 .. Len(s) + Pieces /\ ~(Len(s) + i <= Len(s))
        /\ (Len(s) + i) - Len(s) = i
    BY <1>0
  <2>2. new[Len(s) + i] = w[i]
    BY <1>2, <2>1
  <2> QED BY <1>1, <2>2
<1>6. new # <<>> /\ Len(new) \in Nat
  BY <1>0, <1>2, Pieced
<1>7. InARow(new)
  <2> SUFFICES ASSUME NEW i \in 1 .. Len(new) - 1 PROVE Follows(new[i], new[i + 1])
    BY DEF InARow
  <2>1. CASE i \in 1 .. Len(s) - 1
    <3>1. i \in 1 .. Len(s) /\ i + 1 \in 1 .. Len(s)
      BY <1>0, <2>1
    <3>2. new[i] = s[i] /\ new[i + 1] = s[i + 1]
      BY <1>4, <3>1
    <3> QED BY <2>1, <3>2 DEF Flows, InARow
  <2>2. CASE i = Len(s)
    <3>1. i \in 1 .. Len(s) /\ 1 \in 1 .. Pieces /\ s # <<>>
      BY <1>0, <2>2, Pieced
    <3>2. new[i] = s[Len(s)] /\ new[i + 1].part = 1
      BY <1>4, <1>5, <2>2, <3>1
    <3>3. s[Len(s)].part = Pieces
      BY <3>1 DEF Flows
    <3> QED BY <3>2, <3>3 DEF Follows
  <2>3. CASE i > Len(s)
    <3> DEFINE k == i - Len(s)
    <3>1. /\ k \in 1 .. Pieces /\ k + 1 \in 1 .. Pieces /\ k # Pieces
          /\ Len(s) + k = i /\ Len(s) + (k + 1) = i + 1
      BY <1>0, <1>2, <2>3
    <3>2. /\ new[i].msg = m /\ new[i].part = k
          /\ new[i + 1].msg = m /\ new[i + 1].part = k + 1
      BY <1>5, <3>1
    <3> QED BY <3>1, <3>2 DEF Follows
  <2> QED BY <1>0, <1>2, <2>1, <2>2, <2>3
<1>8. new[Len(new)].part = Pieces
  <2>1. Pieces \in 1 .. Pieces
    BY <1>0
  <2> QED BY <1>2, <1>5, <2>1
<1>9. Mid(new) = Mid(s)
  <2>1. CASE s = <<>>
    <3>1. Len(s) = 0 /\ 1 \in 1 .. Pieces /\ Len(s) + 1 = 1
      BY <1>0, <2>1, Pieced
    <3>2. new[1].part = 1
      BY <1>5, <3>1
    <3> QED BY <1>6, <2>1, <3>2 DEF Mid
  <2>2. CASE s # <<>>
    <3>1. 1 \in 1 .. Len(s)
      BY <1>0, <2>2, Pieced
    <3>2. new[1] = s[1]
      BY <1>4, <3>1
    <3> QED BY <1>6, <2>2, <3>2 DEF Mid
  <2> QED BY <2>1, <2>2
<1> QED BY <1>2, <1>3, <1>4, <1>5, <1>6, <1>7, <1>8, <1>9 DEF new, w, Flows

\* A text that json.loads takes.
LEMMA MessageIs ==
    ASSUME NEW text \in Seq(Piece), IsMessage(text)
    PROVE  /\ Len(text) = Pieces /\ text[1].msg \in Messages
           /\ text[Len(text)].msg = text[1].msg /\ text[Len(text)].part = Pieces
<1>1. Pieces \in Nat /\ Len(text) = Pieces /\ 1 \in 1 .. Len(text) /\ Pieces \in 1 .. Pieces
  BY Sizes DEF IsMessage
<1>2. text[1].msg \in Messages
  BY <1>1, Pieced
<1>3. text = InPieces(text[1].msg)
  BY DEF IsMessage
<1>4. InPieces(text[1].msg)[Pieces].msg = text[1].msg /\ InPieces(text[1].msg)[Pieces].part = Pieces
  BY <1>1, <1>2, WholeIs
<1> QED BY <1>1, <1>2, <1>3, <1>4


\* All of a recv: the pieces taken and those left, the text with the new pieces, what was
\* behind the end of a message, and the count.
Taken(s, full, d, chunk, cut, behind, depth, text, new) ==
    /\ Len(chunk) \in 1 .. Len(s) /\ Len(chunk) < Pieces /\ cut \in 1 .. Len(chunk)
    /\ cut \in DOMAIN s /\ Len(chunk) \in DOMAIN s
    /\ behind \in Seq(Piece) /\ Len(behind) < Pieces
    /\ behind = <<>> <=> cut = Len(chunk)
    /\ \A i \in DOMAIN behind : cut + i \in DOMAIN s /\ behind[i] = s[cut + i]
    /\ depth = d - Mid(s) + Open(s[cut]) /\ depth \in -1 .. 1
    /\ behind # <<>> => depth = 0
    /\ behind = <<>> => Counts(depth, new)
    /\ \A i \in 1 .. cut - 1 : d - Mid(s) + Open(s[i]) # 0
    /\ text \in Seq(Piece) /\ Len(text) = Len(full) + cut
    /\ text[Len(text)] = s[cut]
    /\ \A i \in 1 .. Len(full) : text[i] = full[i]
    /\ \A i \in 1 .. cut : text[Len(full) + i] = s[i]
    /\ new \in Seq(Piece) /\ Flows(new) /\ Mid(new) = Open(s[Len(chunk)])
    /\ Len(new) = Len(s) - Len(chunk)
    /\ \A i \in DOMAIN new : /\ Len(chunk) + i \in DOMAIN s
                             /\ new[i] = s[Len(chunk) + i]
                             /\ i \in Nat /\ cut < Len(chunk) + i

Received(s, full, d, chunk) ==
    LET cut == Cut(chunk, d)
    IN Taken(s, full, d, chunk, cut, Behind(chunk, cut), Depth(chunk, d, cut),
             full \o SubSeq(chunk, 1, cut), Behind(s, Len(chunk)))

LEMMA RecvIs ==
    ASSUME NEW s \in Seq(Piece), Flows(s), NEW full \in Seq(Piece), NEW d \in -1 .. 1,
           Counts(d, s), NEW chunk \in Chunks(s)
    PROVE  Received(s, full, d, chunk)
<1> DEFINE cut == Cut(chunk, d)
           behind == Behind(chunk, cut)
           depth == Depth(chunk, d, cut)
           text == full \o SubSeq(chunk, 1, cut)
           new == Behind(s, Len(chunk))
<1>0. /\ Pieces \in Nat /\ Chunk \in Nat /\ Chunk < Pieces
      /\ Len(s) \in Nat /\ DOMAIN s = 1 .. Len(s) /\ Len(full) \in Nat /\ d \in Int
  BY Pieced, Sizes
<1>1. Reads(s, d, chunk, cut, depth)
  BY <1>0, RecvReads
<1>2. /\ chunk \in Seq(Piece) /\ Len(chunk) \in 1 .. Len(s) /\ cut \in 1 .. Len(chunk)
      /\ Len(chunk) <= Chunk
      /\ chunk[cut] = s[cut] /\ depth = d - Mid(s) + Open(s[cut])
      /\ \A i \in 1 .. Len(chunk) : chunk[i] = s[i]
      /\ cut < Len(chunk) => depth = 0
      /\ \A i \in 1 .. cut - 1 : d - Mid(s) + Open(s[i]) # 0
  BY <1>1 DEF Reads
<1>3. Len(chunk) < Pieces /\ cut \in DOMAIN s /\ Len(chunk) \in DOMAIN s
  <2> HIDE DEF cut
  <2> QED BY <1>0, <1>2
<1>4. /\ behind \in Seq(Piece) /\ Len(behind) = Len(chunk) - cut
      /\ behind = <<>> <=> Len(behind) = 0
      /\ \A i \in 1 .. Len(chunk) - cut : /\ behind[i] = chunk[cut + i]
                                         /\ cut + i \in 1 .. Len(chunk)
      /\ DOMAIN behind = 1 .. Len(chunk) - cut
  <2>1. cut \in 0 .. Len(chunk)
    BY <1>2
  <2>2. /\ behind \in Seq(Piece) /\ Len(behind) = Len(chunk) - cut
        /\ \A i \in 1 .. Len(chunk) - cut : /\ behind[i] = chunk[cut + i]
                                           /\ cut + i \in 1 .. Len(chunk)
    BY <1>2, <2>1, BehindIs
  <2> QED BY <2>2, Pieced
<1>5. /\ new \in Seq(Piece) /\ Len(new) = Len(s) - Len(chunk)
      /\ \A i \in 1 .. Len(s) - Len(chunk) : /\ new[i] = s[Len(chunk) + i]
                                             /\ Len(chunk) + i \in 1 .. Len(s)
      /\ Flows(new) /\ Mid(new) = Open(s[Len(chunk)])
      /\ DOMAIN new = 1 .. Len(s) - Len(chunk)
  <2>1. Len(chunk) \in 0 .. Len(s)
    BY <1>0, <1>2
  <2>2. /\ new \in Seq(Piece) /\ Len(new) = Len(s) - Len(chunk)
        /\ \A i \in 1 .. Len(s) - Len(chunk) : /\ new[i] = s[Len(chunk) + i]
                                               /\ Len(chunk) + i \in 1 .. Len(s)
    BY <2>1, BehindIs
  <2>3. Flows(new) /\ Mid(new) = Open(s[Len(chunk)])
    BY <1>2, BehindFlows
  <2> QED BY <2>2, <2>3, Pieced
<1>6. /\ text \in Seq(Piece) /\ Len(text) = Len(full) + cut
      /\ text[Len(text)] = chunk[cut]
      /\ \A i \in 1 .. Len(full) : text[i] = full[i]
      /\ \A i \in 1 .. cut : text[Len(full) + i] = chunk[i]
  <2>1. chunk \in Seq(Piece) /\ cut \in 1 .. Len(chunk)
    BY <1>2
  <2>2. ASSUME NEW n \in 1 .. Len(chunk), n = cut
        PROVE  LET new_text == full \o SubSeq(chunk, 1, n) IN
               /\ new_text \in Seq(Piece) /\ Len(new_text) = Len(full) + n
               /\ new_text[Len(new_text)] = chunk[n]
               /\ \A i \in 1 .. Len(full) : new_text[i] = full[i]
               /\ \A i \in 1 .. n : new_text[Len(full) + i] = chunk[i]
    BY <2>1, TextIs
  <2> QED BY <2>1, <2>2
<1> HIDE DEF cut, behind, depth, text, new
<1>7. Len(behind) < Pieces /\ (behind = <<>> <=> cut = Len(chunk)) /\ (behind # <<>> => depth = 0)
  BY <1>0, <1>2, <1>3, <1>4
<1>8. \A i \in DOMAIN behind : cut + i \in DOMAIN s /\ behind[i] = s[cut + i]
  <2> SUFFICES ASSUME NEW i \in 1 .. Len(chunk) - cut
               PROVE  cut + i \in DOMAIN s /\ behind[i] = s[cut + i]
    BY <1>4
  <2>1. behind[i] = chunk[cut + i] /\ cut + i \in 1 .. Len(chunk)
    BY <1>4
  <2> QED BY <1>0, <1>2, <2>1
<1>9. depth \in -1 .. 1 /\ (behind = <<>> => Counts(depth, new))
  <2>1. Open(s[cut]) \in {0, 1} /\ Mid(s) \in {0, 1}
    BY DEF Open, Mid
  <2>2. d - Mid(s) \in {0, -1}
    BY DEF Counts
  <2>3. depth \in -1 .. 1
    BY <1>2, <2>1, <2>2
  <2>4. ASSUME behind = <<>> PROVE Counts(depth, new)
    <3>1. Mid(new) = Open(s[cut])
      BY <1>5, <1>7, <2>4
    <3>2. \A a, m, o \in Int : (a - m + o) - o = a - m
      OBVIOUS
    <3>3. depth - Open(s[cut]) = d - Mid(s)
      BY <1>0, <1>2, <2>1, <3>2
    <3> QED BY <2>2, <3>1, <3>3 DEF Counts
  <2> QED BY <2>3, <2>4
<1>10. \A i \in 1 .. cut : text[Len(full) + i] = s[i]
  BY <1>0, <1>2, <1>6
<1>11. \A i \in DOMAIN new : /\ Len(chunk) + i \in DOMAIN s /\ new[i] = s[Len(chunk) + i]
                             /\ i \in Nat /\ cut < Len(chunk) + i
  BY <1>0, <1>2, <1>5
<1>12. Len(new) = Len(s) - Len(chunk) /\ Len(text) = Len(full) + cut
  BY <1>5, <1>6
<1>13. text[Len(text)] = s[cut]
  BY <1>2, <1>6
<1>14. Taken(s, full, d, chunk, cut, behind, depth, text, new)
  BY <1>2, <1>3, <1>4, <1>5, <1>6, <1>7, <1>8, <1>9, <1>10, <1>11, <1>12, <1>13, Zenon DEF Taken
<1> QED BY <1>14 DEF Received, cut, behind, depth, text, new
-----------------------------------------------------------------------------
\* The inductive invariant.  It speaks of the pieces under way: those of a stream are in
\* the order of the requests, later than what was handled, and a text that is long
\* enough for a message ends with a piece of the connection's own, as what another
\* thread has left in self.new_message is shorter.

Own(c) == [from : {c}, n : 1 .. Len(sent[c])]
Replies(c) == [to : 0 .. Len(sent[c])]
LastOf(s) == s[Len(s)]

\* Pieces of responses to what the client has sent.
Told(c, s) == \A i \in DOMAIN s : s[i].msg \in Replies(c)

ThreadTypes ==
    /\ leftover \in Seq(Piece)
    /\ sFull \in [Clients -> Seq(Piece)]
    /\ sDepth \in [Clients -> -1 .. 1]
    /\ sPc \in [Clients -> {"start", "recv", "handle", "ended"}]
    /\ served \in [Clients -> Seq([from : Clients, n : Nat])]
    /\ piped \in BOOLEAN

WireTypes ==
    /\ up \in [Clients -> Seq(Piece)]
    /\ down \in [Clients -> Seq(Piece)]
    /\ shut \in [Clients -> {"no", "fin", "reset"}]

ClientTypes ==
    /\ rest \in [Clients -> Seq(Piece)]
    /\ cFull \in [Clients -> Seq(Piece)]
    /\ cDepth \in [Clients -> -1 .. 1]
    /\ cPc \in [Clients -> {"idle", "recv", "failed"}]
    /\ answers \in [Clients -> Seq([call : Nat, to : Int])]

SentTypes ==
    /\ sent \in [Clients -> Seq(Kinds)]
    /\ \A c \in Clients : sent[c] \in Seq(Plans[c]) /\ Len(sent[c]) <= MaxRequests[c]

SetTypes == left \subseteq Clients /\ slow \subseteq Clients /\ late \subseteq slow

Types == ThreadTypes /\ WireTypes /\ ClientTypes /\ SentTypes /\ SetTypes

UpOK(c) ==
    /\ Flows(up[c])
    /\ \A i \in DOMAIN up[c] : up[c][i].msg \in Own(c)
    /\ \A i, j \in DOMAIN up[c] : i < j =>
          /\ up[c][i].msg.n <= up[c][j].msg.n
          /\ up[c][i].part = Pieces => up[c][i].msg.n < up[c][j].msg.n
    /\ shut[c] # "no" => up[c] = <<>>

\* A request that comes after all that were handled.
IsNew(c, n) == \A k \in DOMAIN served[c] : served[c][k].n < n

FullOK(c) ==
    \/ Len(sFull[c]) < Pieces
    \/ /\ LastOf(sFull[c]).msg \in Own(c) /\ IsNew(c, LastOf(sFull[c]).msg.n)
       /\ LastOf(sFull[c]).part = Pieces =>
             \A i \in DOMAIN up[c] : LastOf(sFull[c]).msg.n < up[c][i].msg.n

ThreadOK(c) ==
    /\ sPc[c] = "recv" => Counts(sDepth[c], up[c])
    /\ sPc[c] = "ended" <=> shut[c] # "no"
    /\ FullOK(c)
    /\ \A i \in DOMAIN up[c] : IsNew(c, up[c][i].msg.n)

ServedOK(c) ==
    /\ \A i \in DOMAIN served[c] : served[c][i] \in Own(c)
    /\ \A i, j \in DOMAIN served[c] : i < j => served[c][i].n < served[c][j].n

ClientOK(c) ==
    /\ Flows(down[c])
    /\ Told(c, down[c]) /\ Told(c, rest[c]) /\ Told(c, cFull[c])
    /\ cPc[c] = "recv" => Counts(cDepth[c], down[c]) /\ Len(answers[c]) < Len(sent[c])
    /\ Len(answers[c]) <= Len(sent[c])
    /\ Len(rest[c]) < Pieces

ConnOK(c) == UpOK(c) /\ ThreadOK(c) /\ ServedOK(c) /\ ClientOK(c)

IInv ==
    /\ Types
    /\ Len(leftover) < Pieces
    /\ \A c \in Clients : ConnOK(c)

\* What a step of the others leaves of a connection.
Same(c) ==
    /\ sent'[c] = sent[c] /\ up'[c] = up[c] /\ down'[c] = down[c]
    /\ sFull'[c] = sFull[c] /\ sDepth'[c] = sDepth[c] /\ sPc'[c] = sPc[c]
    /\ rest'[c] = rest[c] /\ cFull'[c] = cFull[c] /\ cDepth'[c] = cDepth[c]
    /\ cPc'[c] = cPc[c] /\ shut'[c] = shut[c]
    /\ served'[c] = served[c] /\ answers'[c] = answers[c]
    /\ (c \in slow') = (c \in slow) /\ (c \in late') = (c \in late)

\* The two ends of a connection, each with the variables it has to itself.
SameThread(c) ==
    /\ sFull'[c] = sFull[c] /\ sDepth'[c] = sDepth[c] /\ sPc'[c] = sPc[c]
    /\ served'[c] = served[c]
SameClient(c) ==
    /\ rest'[c] = rest[c] /\ cFull'[c] = cFull[c] /\ cDepth'[c] = cDepth[c]
    /\ cPc'[c] = cPc[c] /\ answers'[c] = answers[c] /\ sent'[c] = sent[c]

LEMMA MidIs == \A s : Mid(s) \in {0, 1}
BY DEF Mid

LEMMA Typed ==
    ASSUME IInv, NEW c \in Clients
    PROVE  /\ sent[c] \in Seq(Kinds) /\ Len(sent[c]) \in Nat
           /\ DOMAIN sent[c] = 1 .. Len(sent[c])
           /\ up[c] \in Seq(Piece) /\ down[c] \in Seq(Piece)
           /\ sFull[c] \in Seq(Piece) /\ rest[c] \in Seq(Piece)
           /\ cFull[c] \in Seq(Piece) /\ leftover \in Seq(Piece)
           /\ sDepth[c] \in -1 .. 1 /\ cDepth[c] \in -1 .. 1
           /\ Len(answers[c]) \in Nat /\ DOMAIN answers[c] = 1 .. Len(answers[c])
           /\ served[c] \in Seq([from : Clients, n : Nat])
           /\ Len(served[c]) \in Nat /\ DOMAIN served[c] = 1 .. Len(served[c])
           /\ ConnOK(c) /\ Len(leftover) < Pieces /\ Pieces \in Nat /\ 2 < Pieces
<1>1. /\ sent[c] \in Seq(Kinds)
      /\ up[c] \in Seq(Piece) /\ down[c] \in Seq(Piece)
      /\ sFull[c] \in Seq(Piece) /\ rest[c] \in Seq(Piece)
      /\ cFull[c] \in Seq(Piece) /\ leftover \in Seq(Piece)
      /\ sDepth[c] \in -1 .. 1 /\ cDepth[c] \in -1 .. 1
      /\ answers[c] \in Seq([call : Nat, to : Int])
      /\ served[c] \in Seq([from : Clients, n : Nat])
  BY DEF IInv, Types, ThreadTypes, WireTypes, ClientTypes, SentTypes, SetTypes
<1>2. ConnOK(c) /\ Len(leftover) < Pieces
  BY DEF IInv
<1> QED BY <1>1, <1>2, Sizes, LenProperties

LEMMA Others ==
    ASSUME IInv, NEW c \in Clients, \A d \in Clients \ {c} : Same(d),
           Types', Len(leftover') < Pieces, ConnOK(c)'
    PROVE  IInv'
<1>1. ASSUME NEW d \in Clients, d # c PROVE ConnOK(d)'
  <2>1. Same(d) /\ ConnOK(d)
    BY <1>1 DEF IInv
  <2>2. Own(d)' = Own(d) /\ Replies(d)' = Replies(d)
    BY <2>1 DEF Same, Own, Replies
  <2>3. UpOK(d)'
    BY <2>1, <2>2 DEF Same, ConnOK, UpOK
  <2>4. ThreadOK(d)'
    BY <2>1, <2>2 DEF Same, ConnOK, ThreadOK, FullOK, IsNew
  <2>5. ServedOK(d)'
    BY <2>1, <2>2 DEF Same, ConnOK, ServedOK
  <2>6. ClientOK(d)'
    BY <2>1, <2>2 DEF Same, ConnOK, ClientOK, Told
  <2> QED BY <2>3, <2>4, <2>5, <2>6 DEF ConnOK
<1>2. \A d \in Clients : ConnOK(d)'
  BY <1>1
<1> QED BY <1>2 DEF IInv

\* The connection is closed: nothing is left on the way to the server.
LEMMA ShutIs ==
    ASSUME Types, NEW c \in Clients, Shut(c)
    PROVE  /\ shut'[c] # "no" /\ up'[c] = <<>> /\ sPc'[c] = "ended"
           /\ shut' = [shut EXCEPT ![c] = shut'[c]] /\ shut'[c] \in {"fin", "reset"}
           /\ up' = [up EXCEPT ![c] = <<>>] /\ sPc' = [sPc EXCEPT ![c] = "ended"]
BY DEF Types, ThreadTypes, WireTypes, ClientTypes, SentTypes, SetTypes, Shut

\* A step of one connection.
StepOf(c) ==
    \/ Thread(c) \/ ServerTimeout(c)
    \/ \E kind \in Plans[c] : ClientSend(c, kind)
    \/ Receive(c) \/ ClientTimeout(c)
    \/ ClientClose(c)

\* A step of one connection leaves the others as they are, but for the leftover.
LEMMA Local ==
    ASSUME IInv, NEW c \in Clients, StepOf(c)
    PROVE  \A d \in Clients \ {c} : Same(d)
<1>1. Shut(c) => \A d \in Clients \ {c} :
                    up'[d] = up[d] /\ shut'[d] = shut[d] /\ sPc'[d] = sPc[d]
  BY DEF Shut, IInv, Types, ThreadTypes, WireTypes
<1> USE DEF Same, IInv, Types, ThreadTypes, WireTypes, ClientTypes, SentTypes, SetTypes,
            server, client, history
<1>2. CASE Start(c)
  BY <1>2 DEF Start
<1>3. CASE ServerRecv(c)
  BY <1>3 DEF ServerRecv
<1>4. CASE ServerEof(c)
  BY <1>4 DEF ServerEof
<1>5. CASE ServerTimeout(c)
  <2>1. \A d \in Clients \ {c} : (d \in slow') = (d \in slow)
    BY <1>5 DEF ServerTimeout
  <2>2. \A d \in Clients \ {c} : sPc'[d] = sPc[d] /\ sFull'[d] = sFull[d] /\ sDepth'[d] = sDepth[d]
    BY <1>5 DEF ServerTimeout
  <2> QED BY <1>5, <2>1, <2>2 DEF ServerTimeout
<1>6. CASE ServerReset(c)
  <2>1. \A d \in Clients \ {c} : up'[d] = up[d] /\ shut'[d] = shut[d] /\ sPc'[d] = sPc[d]
    BY <1>1, <1>6 DEF ServerReset
  <2> QED BY <1>6, <2>1 DEF ServerReset
<1>7. CASE ParseError(c)
  <2>1. \A d \in Clients \ {c} : up'[d] = up[d] /\ shut'[d] = shut[d] /\ sPc'[d] = sPc[d]
    BY <1>1, <1>7 DEF ParseError
  <2> QED BY <1>7, <2>1 DEF ParseError, Send
<1>8. CASE HandleRequest(c)
  <2>1. \A d \in Clients \ {c} : up'[d] = up[d] /\ shut'[d] = shut[d] /\ sPc'[d] = sPc[d]
    BY <1>1, <1>8 DEF HandleRequest, Handled
  <2>2. \A d \in Clients \ {c} : served'[d] = served[d] /\ down'[d] = down[d]
    BY <1>8 DEF HandleRequest, Handled, Send
  <2> QED BY <1>8, <2>1, <2>2 DEF HandleRequest
<1>9. ASSUME NEW kind \in Plans[c], ClientSend(c, kind) PROVE \A d \in Clients \ {c} : Same(d)
  <2>1. \A d \in Clients \ {c} :
           cPc'[d] = cPc[d] /\ cFull'[d] = cFull[d] /\ cDepth'[d] = cDepth[d]
    <3>1. cPc' = cPc \/ \E x : cPc' = [cPc EXCEPT ![c] = x]
      BY <1>9 DEF ClientSend
    <3>2. \/ UNCHANGED <<cFull, cDepth>>
          \/ \E x, y : cFull' = [cFull EXCEPT ![c] = x] /\ cDepth' = [cDepth EXCEPT ![c] = y]
      BY <1>9 DEF ClientSend
    <3> QED BY <3>1, <3>2
  <2>2. \A d \in Clients \ {c} : sent'[d] = sent[d] /\ up'[d] = up[d]
    BY <1>9 DEF ClientSend
  <2> QED BY <1>9, <2>1, <2>2 DEF ClientSend
<1>10. CASE ClientRecv(c)
  <2>1. \A d \in Clients \ {c} : cPc'[d] = cPc[d] /\ answers'[d] = answers[d]
    <3>1. UNCHANGED <<answers, cPc>> \/ \E text : Return(c, text)
      BY <1>10 DEF ClientRecv
    <3> QED BY <3>1 DEF Return
  <2>2. \A d \in Clients \ {c} : cFull'[d] = cFull[d] /\ cDepth'[d] = cDepth[d]
    <3>1. \E x, y : cFull' = [cFull EXCEPT ![c] = x] /\ cDepth' = [cDepth EXCEPT ![c] = y]
      BY <1>10 DEF ClientRecv
    <3> QED BY <3>1
  <2>3. \A d \in Clients \ {c} : rest'[d] = rest[d] /\ down'[d] = down[d]
    BY <1>10 DEF ClientRecv
  <2> QED BY <1>10, <2>1, <2>2, <2>3 DEF ClientRecv
<1>11. CASE ClientEof(c)
  <2>1. \A d \in Clients \ {c} : /\ rest'[d] = rest[d] /\ answers'[d] = answers[d]
                                 /\ cPc'[d] = cPc[d]
    <3>1. cPc' = cPc \/ \E x : cPc' = [cPc EXCEPT ![c] = x]
      BY <1>11 DEF ClientEof, Return
    <3>2. rest' = rest \/ \E x : rest' = [rest EXCEPT ![c] = x]
      BY <1>11 DEF ClientEof
    <3>3. answers' = answers \/ \E text : Return(c, text)
      BY <1>11 DEF ClientEof
    <3> QED BY <3>1, <3>2, <3>3 DEF Return
  <2> QED BY <1>11, <2>1 DEF ClientEof
<1>12. CASE ClientTimeout(c)
  <2>1. \A d \in Clients \ {c} : /\ (d \in slow') = (d \in slow)
                                 /\ (d \in late') = (d \in late)
    BY <1>12 DEF ClientTimeout
  <2> QED BY <1>12, <2>1 DEF ClientTimeout, Return
<1>13. CASE ClientClose(c)
  BY <1>13 DEF ClientClose
<1> QED BY <1>2, <1>3, <1>4, <1>5, <1>6, <1>7, <1>8, <1>9, <1>10, <1>11, <1>12, <1>13
        DEF StepOf, Thread, Receive

LEMMA UpKeeps ==
    ASSUME NEW c, UpOK(c), up'[c] = up[c], sent'[c] = sent[c],
           shut'[c] # "no" => up[c] = <<>>
    PROVE  UpOK(c)'
BY DEF UpOK, Own

LEMMA ThreadKeeps ==
    ASSUME NEW c, ThreadOK(c), SameThread(c), up'[c] = up[c], sent'[c] = sent[c],
           shut'[c] = shut[c]
    PROVE  ThreadOK(c)'
<1>1. Own(c)' = Own(c)
  BY DEF Own
<1> QED BY <1>1 DEF ThreadOK, FullOK, IsNew, SameThread

LEMMA ServedKeeps ==
    ASSUME NEW c, ServedOK(c), served'[c] = served[c], sent'[c] = sent[c]
    PROVE  ServedOK(c)'
BY DEF ServedOK, Own

LEMMA ClientKeeps ==
    ASSUME NEW c, ClientOK(c), SameClient(c), down'[c] = down[c]
    PROVE  ClientOK(c)'
<1>1. Replies(c)' = Replies(c)
  BY DEF Replies, SameClient
<1> QED BY <1>1 DEF ClientOK, SameClient, Told

LEMMA NewMessages ==
    ASSUME Types, NEW c \in Clients
    PROVE  /\ \A n \in 1 .. MaxRequests[c] : Request(c, n) \in Messages
           /\ \A n \in 0 .. MaxRequests[c] : Response(n) \in Messages
           /\ Own(c) \subseteq Messages
           /\ \A m \in Own(c) : m.from = c /\ m.n \in 1 .. Len(sent[c]) /\ m = Request(c, m.n)
<1>1. MaxRequests[c] \in Nat /\ Len(sent[c]) \in Nat /\ Len(sent[c]) <= MaxRequests[c]
  <2>1. sent[c] \in Seq(Kinds) /\ Len(sent[c]) <= MaxRequests[c]
    BY DEF Types, ThreadTypes, WireTypes, ClientTypes, SentTypes, SetTypes
  <2> QED BY <2>1, BoundAssumption, LenProperties
<1>2. ASSUME NEW n \in 1 .. MaxRequests[c] PROVE Request(c, n) \in Messages
  <2>1. Request(c, n) \in [from : {c}, n : 1 .. MaxRequests[c]]
    BY DEF Request
  <2> QED BY <2>1 DEF Messages
<1>3. ASSUME NEW n \in 0 .. MaxRequests[c] PROVE Response(n) \in Messages
  <2>1. Response(n) \in [to : 0 .. MaxRequests[c]]
    BY DEF Response
  <2> QED BY <2>1 DEF Messages
<1>4. ASSUME NEW m \in Own(c)
      PROVE  m.from = c /\ m.n \in 1 .. Len(sent[c]) /\ m = Request(c, m.n)
  BY DEF Own, Request
<1>5. ASSUME NEW m \in Own(c) PROVE m \in Messages
  <2>1. m.n \in 1 .. MaxRequests[c]
    BY <1>1, <1>4
  <2> QED BY <1>2, <1>4, <2>1
<1> QED BY <1>2, <1>3, <1>4, <1>5

-----------------------------------------------------------------------------
\* The steps of a thread of the server

LEMMA InitOK == Init => IInv
<1> SUFFICES ASSUME Init PROVE IInv
  OBVIOUS
<1>0. Pieces \in Nat /\ 2 < Pieces
  BY Sizes
<1>1. Types
  <2>1. \A c \in Clients : Len(sent[c]) <= MaxRequests[c]
    <3>1. \A c \in Clients : sent[c] = <<>> /\ MaxRequests[c] \in Nat
      BY BoundAssumption DEF Init
    <3>2. Len(<<>>) = 0
      OBVIOUS
    <3>3. \A n \in Nat : 0 <= n
      OBVIOUS
    <3> QED BY <3>1, <3>2, <3>3
  <2>2. \A S : <<>> \in Seq(S)
    OBVIOUS
  <2>3. 0 \in -1 .. 1
    OBVIOUS
  <2> QED BY <2>1, <2>2, <2>3 DEF Init, Types, ThreadTypes, WireTypes, ClientTypes, SentTypes, SetTypes
<1>2. Len(leftover) < Pieces
  BY <1>0 DEF Init
<1>3. ASSUME NEW c \in Clients PROVE ConnOK(c)
  <2>1. /\ up[c] = <<>> /\ down[c] = <<>> /\ sFull[c] = <<>> /\ rest[c] = <<>>
        /\ served[c] = <<>> /\ answers[c] = <<>> /\ sent[c] = <<>>
        /\ sPc[c] = "start" /\ cPc[c] = "idle" /\ cFull[c] = <<>> /\ shut[c] = "no"
    BY DEF Init
  <2>2. Len(<<>>) = 0 /\ DOMAIN <<>> = {}
    OBVIOUS
  <2>3. Flows(<<>>)
    BY DEF Flows, InARow
  <2>4. UpOK(c)
    BY <2>1, <2>2, <2>3 DEF UpOK
  <2>5. ThreadOK(c)
    BY <1>0, <2>1, <2>2 DEF ThreadOK, FullOK
  <2>6. ServedOK(c)
    BY <2>1, <2>2 DEF ServedOK
  <2>7. ClientOK(c)
    BY <1>0, <2>1, <2>2, <2>3 DEF ClientOK, Told
  <2> QED BY <2>4, <2>5, <2>6, <2>7 DEF ConnOK
<1> QED BY <1>1, <1>2, <1>3 DEF IInv

LEMMA StartOK ==
    ASSUME IInv, NEW c \in Clients, Start(c)
    PROVE  IInv'
<1> USE DEF Start, client, history
<1>1. Types'
  <2>1. 0 \in -1 .. 1
    OBVIOUS
  <2> QED BY <2>1 DEF IInv, Types, ThreadTypes, WireTypes, ClientTypes, SentTypes, SetTypes
<1>2. \A d \in Clients \ {c} : Same(d)
  BY Local DEF StepOf, Thread, Receive
<1>3. /\ sFull'[c] = leftover /\ sDepth'[c] = 0 /\ sPc'[c] = "recv"
      /\ sPc[c] = "start"
  BY DEF IInv, Types, ThreadTypes, WireTypes, ClientTypes, SentTypes, SetTypes
<1>4. ConnOK(c) /\ Len(leftover) < Pieces
  BY Typed
<1>5. UpOK(c)'
  BY <1>4, UpKeeps DEF ConnOK, UpOK
<1>6. ThreadOK(c)'
  <2>1. Counts(0, up[c])
    BY MidIs DEF Counts
  <2>2. FullOK(c)'
    BY <1>3, <1>4 DEF FullOK
  <2> QED BY <1>3, <1>4, <2>1, <2>2 DEF ConnOK, ThreadOK, IsNew
<1>7. ServedOK(c)' /\ ClientOK(c)'
  BY <1>4, ServedKeeps, ClientKeeps DEF ConnOK, SameClient
<1>8. ConnOK(c)'
  BY <1>5, <1>6, <1>7 DEF ConnOK
<1> QED BY <1>1, <1>2, <1>4, <1>8, Others

\* What a thread has read is in the order it was sent, and counted as far as it goes.
LEMMA ServerRecvOK ==
    ASSUME IInv, NEW c \in Clients, ServerRecv(c)
    PROVE  IInv'
<1> USE DEF client
<1>1. PICK chunk \in Chunks(up[c]) :
        LET cut == Cut(chunk, sDepth[c])
            behind == Behind(chunk, cut)
            depth == Depth(chunk, sDepth[c], cut)
        IN /\ up' = [up EXCEPT ![c] = Behind(@, Len(chunk))]
           /\ sFull' = [sFull EXCEPT ![c] = @ \o SubSeq(chunk, 1, cut)]
           /\ sDepth' = [sDepth EXCEPT ![c] = depth]
           /\ leftover' = behind
           /\ piped' = (piped \/ behind # <<>>)
           /\ sPc' = [sPc EXCEPT ![c] =
                         IF behind # <<>> \/ depth = 0 THEN "handle" ELSE "recv"]
  BY DEF ServerRecv
<1> DEFINE cut == Cut(chunk, sDepth[c])
           behind == Behind(chunk, cut)
           depth == Depth(chunk, sDepth[c], cut)
           text == sFull[c] \o SubSeq(chunk, 1, cut)
           L == Len(chunk)
           new == Behind(up[c], L)
<1>2. /\ UNCHANGED <<sent, down, rest, cFull, cDepth, cPc, shut, left, served, answers, slow, late>>
      /\ sPc[c] = "recv"
  BY DEF ServerRecv
<1>3. /\ ConnOK(c) /\ Pieces \in Nat /\ up[c] \in Seq(Piece) /\ sFull[c] \in Seq(Piece)
      /\ sDepth[c] \in -1 .. 1 /\ Flows(up[c]) /\ Counts(sDepth[c], up[c])
      /\ DOMAIN up[c] = 1 .. Len(up[c])
  <2>1. ConnOK(c)
    BY Typed
  <2> QED BY <1>2, <2>1, Typed, Pieced DEF ConnOK, UpOK, ThreadOK
<1>4. /\ L \in 1 .. Len(up[c]) /\ L < Pieces /\ cut \in 1 .. L
      /\ cut \in DOMAIN up[c] /\ L \in DOMAIN up[c]
      /\ behind \in Seq(Piece) /\ Len(behind) < Pieces
      /\ depth \in -1 .. 1
      /\ behind = <<>> => Counts(depth, new)
      /\ text \in Seq(Piece) /\ LastOf(text) = up[c][cut]
      /\ new \in Seq(Piece) /\ Flows(new)
      /\ \A i \in DOMAIN new : /\ L + i \in DOMAIN up[c] /\ new[i] = up[c][L + i]
                               /\ i \in Nat /\ cut < L + i
  <2>1. Received(up[c], sFull[c], sDepth[c], chunk)
    BY <1>3, RecvIs
  <2> QED BY <2>1 DEF Received, Taken, LastOf
<1>5. /\ up'[c] = new /\ sFull'[c] = text /\ sDepth'[c] = depth /\ leftover' = behind
      /\ sPc'[c] = IF behind # <<>> \/ depth = 0 THEN "handle" ELSE "recv"
  BY <1>1 DEF IInv, Types, ThreadTypes, WireTypes
<1>6. /\ up' = [up EXCEPT ![c] = new] /\ sFull' = [sFull EXCEPT ![c] = text]
      /\ sDepth' = [sDepth EXCEPT ![c] = depth]
      /\ sPc' = [sPc EXCEPT ![c] = sPc'[c]] /\ piped' \in BOOLEAN
  BY <1>1, <1>5 DEF IInv, Types, ThreadTypes
<1> HIDE DEF cut, behind, depth, text, L, new
<1>7. Types'
  <2>1. ThreadTypes'
    <3>1. sPc'[c] \in {"start", "recv", "handle", "ended"}
      BY <1>5
    <3> QED BY <1>2, <1>4, <1>5, <1>6, <3>1 DEF IInv, Types, ThreadTypes
  <2>2. WireTypes'
    BY <1>2, <1>4, <1>6 DEF IInv, Types, WireTypes
  <2>3. ClientTypes' /\ SentTypes' /\ SetTypes'
    BY <1>2 DEF IInv, Types, ClientTypes, SentTypes, SetTypes
  <2> QED BY <2>1, <2>2, <2>3 DEF Types
<1>8. \A d \in Clients \ {c} : Same(d)
  BY Local DEF StepOf, Thread, Receive
<1>9. UpOK(c)'
  <2>1. \A i \in DOMAIN new : new[i].msg \in Own(c)
    BY <1>3, <1>4 DEF ConnOK, UpOK
  <2>2. ASSUME NEW i \in DOMAIN new, NEW j \in DOMAIN new, i < j
        PROVE  /\ new[i].msg.n <= new[j].msg.n
               /\ new[i].part = Pieces => new[i].msg.n < new[j].msg.n
    <3>1. L \in Nat /\ i \in Nat /\ j \in Nat
      BY <1>3, <1>4
    <3>2. L + i < L + j
      BY <2>2, <3>1
    <3> QED BY <1>3, <1>4, <3>2 DEF ConnOK, UpOK
  <2>3. shut[c] = "no"
    BY <1>2, <1>3 DEF ConnOK, ThreadOK
  <2>4. Own(c)' = Own(c)
    BY <1>2 DEF Own
  <2> QED BY <1>2, <1>4, <1>5, <2>1, <2>2, <2>3, <2>4 DEF UpOK
<1>10. ThreadOK(c)'
  <2>1. sPc'[c] = "recv" => Counts(depth, new)
    BY <1>4, <1>5
  <2>2. sPc'[c] # "ended" /\ shut'[c] = "no"
    BY <1>2, <1>3, <1>5 DEF ConnOK, ThreadOK
  <2>3. \A i \in DOMAIN new : IsNew(c, new[i].msg.n)
    BY <1>3, <1>4 DEF ConnOK, ThreadOK
  <2>4. up[c][cut].msg \in Own(c) /\ IsNew(c, up[c][cut].msg.n)
    BY <1>3, <1>4 DEF ConnOK, UpOK, ThreadOK
  <2>5. up[c][cut].part = Pieces => \A i \in DOMAIN new : up[c][cut].msg.n < new[i].msg.n
    BY <1>3, <1>4 DEF ConnOK, UpOK
  <2>6. Own(c)' = Own(c) /\ \A n : IsNew(c, n)' <=> IsNew(c, n)
    BY <1>2 DEF Own, IsNew
  <2>7. FullOK(c)'
    BY <1>4, <1>5, <2>4, <2>5, <2>6 DEF FullOK
  <2>8. (\A i \in DOMAIN up[c] : IsNew(c, up[c][i].msg.n))'
    BY <1>2, <1>5, <2>3 DEF IsNew
  <2> QED BY <1>5, <2>1, <2>2, <2>7, <2>8 DEF ThreadOK
<1>11. ConnOK(c)'
  BY <1>2, <1>3, <1>9, <1>10, ServedKeeps, ClientKeeps DEF ConnOK, SameClient
<1> QED BY <1>4, <1>5, <1>7, <1>8, <1>11, Others

\* Nothing came, or the end of file: the thread handles what it has, or goes on.
LEMMA ServerEndOK ==
    ASSUME IInv, NEW c \in Clients, ServerTimeout(c) \/ ServerEof(c)
    PROVE  IInv'
<1> USE DEF client, history
<1>1. /\ UNCHANGED <<sent, up, down, sFull, sDepth, rest, cFull, cDepth, cPc, shut, left,
                     served, answers, late, piped>>
      /\ leftover' \in {leftover, <<>>}
      /\ slow' \in {slow, slow \cup {c}}
      /\ sPc' \in {sPc, [sPc EXCEPT ![c] = "handle"]} /\ sPc[c] = "recv"
  BY DEF ServerTimeout, ServerEof
<1>2. ConnOK(c) /\ Len(leftover) < Pieces /\ Pieces \in Nat /\ 2 < Pieces
  BY Typed
<1>3. Types'
  <2>1. ThreadTypes'
    <3>1. leftover' \in Seq(Piece)
      BY <1>1, EmptySeq DEF IInv, Types, ThreadTypes
    <3>2. sPc' \in [Clients -> {"start", "recv", "handle", "ended"}]
      BY <1>1 DEF IInv, Types, ThreadTypes
    <3> QED BY <1>1, <3>1, <3>2 DEF IInv, Types, ThreadTypes
  <2>2. WireTypes'
    BY <1>1 DEF IInv, Types, WireTypes
  <2>3. ClientTypes'
    BY <1>1 DEF IInv, Types, ClientTypes
  <2>4. SentTypes'
    BY <1>1 DEF IInv, Types, SentTypes
  <2>5. SetTypes'
    BY <1>1 DEF IInv, Types, SetTypes
  <2> QED BY <2>1, <2>2, <2>3, <2>4, <2>5 DEF Types
<1>4. \A d \in Clients \ {c} : Same(d)
  BY Local DEF StepOf, Thread, Receive
<1>5. Len(leftover') < Pieces
  BY <1>1, <1>2
<1>6. UpOK(c)' /\ ServedOK(c)' /\ ClientOK(c)'
  BY <1>1, <1>2, UpKeeps, ServedKeeps, ClientKeeps DEF ConnOK, SameClient, UpOK
<1>7. ThreadOK(c)'
  <2>1. sPc'[c] \in {"recv", "handle"}
    BY <1>1 DEF IInv, Types, ThreadTypes, WireTypes, ClientTypes, SentTypes, SetTypes
  <2>2. Own(c)' = Own(c)
    BY <1>1 DEF Own
  <2> QED BY <1>1, <1>2, <2>1, <2>2 DEF ConnOK, ThreadOK, FullOK, IsNew
<1>8. ConnOK(c)'
  BY <1>6, <1>7 DEF ConnOK
<1> QED BY <1>3, <1>4, <1>5, <1>8, Others

LEMMA EndedOK ==
    ASSUME NEW c, up'[c] = <<>>, sPc'[c] = "ended", shut'[c] # "no", sFull'[c] = <<>>
    PROVE  UpOK(c)' /\ ThreadOK(c)'
<1>1. Len(<<>>) = 0 /\ DOMAIN <<>> = {} /\ 0 < Pieces
  BY Sizes
<1>2. Flows(<<>>)
  BY DEF Flows, InARow
<1>3. UpOK(c)'
  BY <1>1, <1>2 DEF UpOK
<1>4. ThreadOK(c)'
  BY <1>1 DEF ThreadOK, FullOK
<1> QED BY <1>3, <1>4

LEMMA ServerResetOK ==
    ASSUME IInv, NEW c \in Clients, ServerReset(c)
    PROVE  IInv'
<1> USE DEF client, history
<1>1. /\ Shut(c) /\ sFull' = [sFull EXCEPT ![c] = <<>>]
      /\ UNCHANGED <<sent, down, leftover, sDepth, rest, cFull, cDepth, cPc, left,
                     served, answers, slow, late, piped>>
  BY DEF ServerReset
<1>2. /\ shut'[c] # "no" /\ up'[c] = <<>> /\ sPc'[c] = "ended"
      /\ shut' = [shut EXCEPT ![c] = shut'[c]] /\ shut'[c] \in {"fin", "reset"}
      /\ up' = [up EXCEPT ![c] = <<>>] /\ sPc' = [sPc EXCEPT ![c] = "ended"]
  BY <1>1, ShutIs DEF IInv
<1>3. sFull'[c] = <<>>
  BY <1>1 DEF IInv, Types, ThreadTypes, WireTypes, ClientTypes, SentTypes, SetTypes
<1>4. Types'
  <2>1. <<>> \in Seq(Piece)
    OBVIOUS
  <2>2. ThreadTypes'
    BY <1>1, <1>2, <2>1 DEF IInv, Types, ThreadTypes
  <2>3. WireTypes'
    BY <1>1, <1>2, <2>1 DEF IInv, Types, WireTypes
  <2>4. ClientTypes'
    BY <1>1, <1>2, <2>1 DEF IInv, Types, ClientTypes
  <2>5. SentTypes'
    BY <1>1, <1>2, <2>1 DEF IInv, Types, SentTypes
  <2>6. SetTypes'
    BY <1>1, <1>2, <2>1 DEF IInv, Types, SetTypes
  <2> QED BY <2>2, <2>3, <2>4, <2>5, <2>6 DEF Types
<1>5. \A d \in Clients \ {c} : Same(d)
  BY Local DEF StepOf, Thread, Receive
<1>6. ConnOK(c) /\ Len(leftover) < Pieces
  BY Typed
<1>7. ConnOK(c)'
  <2>1. UpOK(c)' /\ ThreadOK(c)'
    BY <1>2, <1>3, EndedOK
  <2>2. ServedOK(c)' /\ ClientOK(c)'
    BY <1>1, <1>6, ServedKeeps, ClientKeeps DEF ConnOK, SameClient
  <2> QED BY <2>1, <2>2 DEF ConnOK
<1> QED BY <1>1, <1>4, <1>5, <1>6, <1>7, Others

\* A response is put on the way to the client.
LEMMA SendIs ==
    ASSUME IInv, NEW c \in Clients, NEW n \in 0 .. Len(sent[c]), Send(c, Response(n)),
           SameClient(c)
    PROVE  /\ down'[c] = down[c] \o InPieces(Response(n)) /\ down'[c] \in Seq(Piece)
           /\ down' = [down EXCEPT ![c] = down'[c]]
           /\ Response(n) \in Messages
           /\ Mid(down'[c]) = Mid(down[c])
           /\ Len(down'[c]) = Len(down[c]) + Pieces
           /\ DOMAIN down'[c] = 1 .. Len(down[c]) + Pieces
           /\ DOMAIN down[c] = 1 .. Len(down[c]) /\ Len(down[c]) \in Nat
           /\ \A i \in 1 .. Len(down[c]) : down'[c][i] = down[c][i]
           /\ \A i \in 1 .. Pieces : /\ down'[c][Len(down[c]) + i].msg = Response(n)
                                     /\ down'[c][Len(down[c]) + i].part = i
           /\ ClientOK(c)'
<1>0. /\ down[c] \in Seq(Piece) /\ ConnOK(c) /\ Len(sent[c]) \in Nat /\ Pieces \in Nat
      /\ Len(down[c]) \in Nat /\ DOMAIN down[c] = 1 .. Len(down[c])
  BY Typed, LenProperties
<1>1. Response(n) \in Messages
  <2>1. n \in 0 .. MaxRequests[c]
    BY <1>0, BoundAssumption DEF IInv, Types, ThreadTypes, WireTypes, ClientTypes, SentTypes, SetTypes
  <2> QED BY <2>1, NewMessages DEF IInv
<1> DEFINE new == down[c] \o InPieces(Response(n))
<1>2. Flows(down[c])
  BY <1>0 DEF ConnOK, ClientOK
<1>3. /\ new \in Seq(Piece) /\ Flows(new) /\ Mid(new) = Mid(down[c])
      /\ Len(new) = Len(down[c]) + Pieces
      /\ \A i \in 1 .. Len(down[c]) : new[i] = down[c][i]
      /\ \A i \in 1 .. Pieces : /\ new[Len(down[c]) + i].msg = Response(n)
                                /\ new[Len(down[c]) + i].part = i
  BY <1>0, <1>1, <1>2, PutIs
<1>4. down' = [down EXCEPT ![c] = new] /\ down'[c] = new
  BY DEF Send, IInv, Types, ThreadTypes, WireTypes, ClientTypes, SentTypes, SetTypes
<1> HIDE DEF new
<1>5. DOMAIN new = 1 .. Len(down[c]) + Pieces
  BY <1>3, LenProperties
<1>6. Told(c, new)
  <2>1. ASSUME NEW i \in DOMAIN new PROVE new[i].msg \in Replies(c)
    <3>1. CASE i \in 1 .. Len(down[c])
      BY <1>0, <1>3, <3>1 DEF ConnOK, ClientOK, Told
    <3>2. CASE i \notin 1 .. Len(down[c])
      <4>1. i - Len(down[c]) \in 1 .. Pieces /\ Len(down[c]) + (i - Len(down[c])) = i
        BY <1>0, <1>5, <3>2, Beyond
      <4>2. new[i].msg = Response(n)
        BY <1>3, <4>1
      <4> QED BY <4>2 DEF Response, Replies
    <3> QED BY <3>1, <3>2
  <2> QED BY <2>1 DEF Told
<1>7. ClientOK(c)'
  <2>1. Replies(c)' = Replies(c)
    BY DEF Replies, SameClient
  <2>2. cPc[c] = "recv" => Counts(cDepth[c], new)
    BY <1>0, <1>3 DEF ConnOK, ClientOK, Counts
  <2> QED BY <1>0, <1>3, <1>4, <1>6, <2>1, <2>2 DEF ClientOK, ConnOK, SameClient, Told
<1> QED BY <1>0, <1>1, <1>3, <1>4, <1>5, <1>7 DEF new

LEMMA ParseErrorOK ==
    ASSUME IInv, NEW c \in Clients, ParseError(c)
    PROVE  IInv'
<1> USE DEF client, history
<1>1. /\ Shut(c) /\ sFull' = [sFull EXCEPT ![c] = <<>>] /\ Send(c, Response(0))
      /\ UNCHANGED <<sent, leftover, sDepth, rest, cFull, cDepth, cPc, left,
                     served, answers, slow, late, piped>>
  BY DEF ParseError
<1>2. /\ shut'[c] # "no" /\ up'[c] = <<>> /\ sPc'[c] = "ended"
      /\ shut' = [shut EXCEPT ![c] = shut'[c]] /\ shut'[c] \in {"fin", "reset"}
      /\ up' = [up EXCEPT ![c] = <<>>] /\ sPc' = [sPc EXCEPT ![c] = "ended"]
  BY <1>1, ShutIs DEF IInv
<1>3. sFull'[c] = <<>>
  BY <1>1 DEF IInv, Types, ThreadTypes, WireTypes, ClientTypes, SentTypes, SetTypes
<1>4. /\ down' = [down EXCEPT ![c] = down'[c]] /\ down'[c] \in Seq(Piece)
      /\ ClientOK(c)'
  <2>1. 0 \in 0 .. Len(sent[c])
    BY Typed
  <2> QED BY <1>1, <2>1, SendIs DEF SameClient
<1>5. Types'
  <2>1. <<>> \in Seq(Piece)
    OBVIOUS
  <2>2. ThreadTypes'
    BY <1>1, <1>2, <1>4, <2>1 DEF IInv, Types, ThreadTypes
  <2>3. WireTypes'
    BY <1>1, <1>2, <1>4, <2>1 DEF IInv, Types, WireTypes
  <2>4. ClientTypes'
    BY <1>1, <1>2, <1>4, <2>1 DEF IInv, Types, ClientTypes
  <2>5. SentTypes'
    BY <1>1, <1>2, <1>4, <2>1 DEF IInv, Types, SentTypes
  <2>6. SetTypes'
    BY <1>1, <1>2, <1>4, <2>1 DEF IInv, Types, SetTypes
  <2> QED BY <2>2, <2>3, <2>4, <2>5, <2>6 DEF Types
<1>6. \A d \in Clients \ {c} : Same(d)
  BY Local DEF StepOf, Thread, Receive
<1>7. ConnOK(c) /\ Len(leftover) < Pieces
  BY Typed
<1>8. ConnOK(c)'
  <2>1. UpOK(c)' /\ ThreadOK(c)'
    BY <1>2, <1>3, EndedOK
  <2>2. ServedOK(c)'
    BY <1>1, <1>7, ServedKeeps DEF ConnOK
  <2> QED BY <1>4, <2>1, <2>2 DEF ConnOK
<1> QED BY <1>1, <1>5, <1>6, <1>7, <1>8, Others

\* The request handled is the connection's own, later than those handled and earlier
\* than those that are still under way.
LEMMA Requested ==
    ASSUME IInv, NEW c \in Clients, IsMessage(sFull[c])
    PROVE  LET m == sFull[c][1].msg IN
           /\ m \in Own(c) /\ m.from = c /\ m.n \in 1 .. Len(sent[c])
           /\ IsNew(c, m.n)
           /\ \A i \in DOMAIN up[c] : m.n < up[c][i].msg.n
<1>1. sFull[c] \in Seq(Piece) /\ ConnOK(c) /\ Pieces \in Nat
  BY Typed
<1>2. /\ Len(sFull[c]) = Pieces
      /\ LastOf(sFull[c]).msg = sFull[c][1].msg /\ LastOf(sFull[c]).part = Pieces
  BY <1>1, MessageIs DEF LastOf
<1>3. ~(Len(sFull[c]) < Pieces) /\ FullOK(c)
  BY <1>1, <1>2 DEF ConnOK, ThreadOK
<1>4. /\ sFull[c][1].msg \in Own(c) /\ IsNew(c, sFull[c][1].msg.n)
      /\ \A i \in DOMAIN up[c] : sFull[c][1].msg.n < up[c][i].msg.n
  BY <1>2, <1>3 DEF FullOK
<1> QED BY <1>4, NewMessages DEF IInv

LEMMA HandleRequestOK ==
    ASSUME IInv, NEW c \in Clients, HandleRequest(c)
    PROVE  IInv'
<1> USE DEF client, history
<1> DEFINE m == sFull[c][1].msg
<1>1. /\ Handled(c, m) /\ sFull' = [sFull EXCEPT ![c] = <<>>] /\ sPc[c] = "handle"
      /\ UNCHANGED <<sent, leftover, sDepth, rest, cFull, cDepth, cPc, left,
                     answers, slow, late, piped>>
  BY DEF HandleRequest
<1>2. /\ m \in Own(c) /\ m.from = c /\ m.n \in 1 .. Len(sent[c])
      /\ IsNew(c, m.n)
      /\ \A i \in DOMAIN up[c] : m.n < up[c][i].msg.n
  BY Requested DEF HandleRequest
<1> HIDE DEF m
<1>3. /\ ConnOK(c) /\ Len(leftover) < Pieces /\ Pieces \in Nat /\ 2 < Pieces
      /\ served[c] \in Seq([from : Clients, n : Nat]) /\ Len(served[c]) \in Nat
      /\ DOMAIN served[c] = 1 .. Len(served[c]) /\ Len(sent[c]) \in Nat
  BY Typed
<1>4. m \in [from : Clients, n : Nat]
  BY <1>2, <1>3 DEF Own
<1> DEFINE log == Append(served[c], m)
<1>5. served' = [served EXCEPT ![c] = log] /\ served'[c] = log
  BY <1>1 DEF Handled, IInv, Types, ThreadTypes, WireTypes, ClientTypes, SentTypes, SetTypes
<1>6. /\ log \in Seq([from : Clients, n : Nat])
      /\ DOMAIN log = 1 .. Len(served[c]) + 1
      /\ \A i \in 1 .. Len(served[c]) : log[i] = served[c][i]
      /\ log[Len(served[c]) + 1] = m
  BY <1>3, <1>4, AppendProperties, LenProperties
<1> HIDE DEF log
<1>7. \A i \in DOMAIN log : i # Len(served[c]) + 1 =>
         i \in DOMAIN served[c] /\ log[i] = served[c][i]
  <2>1. \A n \in Nat : \A i \in 1 .. n + 1 : i # n + 1 => i \in 1 .. n
    OBVIOUS
  <2> QED BY <1>3, <1>6, <2>1
<1>8. \A i, j \in DOMAIN log : i < j => i # Len(served[c]) + 1
  <2>1. \A n \in Nat : \A i, j \in 1 .. n + 1 : i < j => i # n + 1
    OBVIOUS
  <2> QED BY <1>3, <1>6, <2>1
<1>9. ServedOK(c)'
  <2>1. Own(c)' = Own(c)
    BY <1>1 DEF Own
  <2>2. ASSUME NEW i \in DOMAIN log PROVE log[i] \in Own(c)
    <3>1. CASE i = Len(served[c]) + 1
      BY <1>2, <1>6, <3>1
    <3>2. CASE i # Len(served[c]) + 1
      <4>1. i \in DOMAIN served[c] /\ log[i] = served[c][i]
        BY <1>7, <3>2
      <4> QED BY <1>3, <4>1 DEF ConnOK, ServedOK
    <3> QED BY <3>1, <3>2
  <2>3. ASSUME NEW i \in DOMAIN log, NEW j \in DOMAIN log, i < j
        PROVE  log[i].n < log[j].n
    <3>1. i \in DOMAIN served[c] /\ log[i] = served[c][i]
      BY <1>7, <1>8, <2>3
    <3>2. CASE j = Len(served[c]) + 1
      BY <1>2, <1>6, <3>1, <3>2 DEF IsNew
    <3>3. CASE j # Len(served[c]) + 1
      <4>1. j \in DOMAIN served[c] /\ log[j] = served[c][j]
        BY <1>7, <3>3
      <4> QED BY <1>3, <2>3, <3>1, <4>1 DEF ConnOK, ServedOK
    <3> QED BY <3>2, <3>3
  <2> QED BY <1>5, <2>1, <2>2, <2>3 DEF ServedOK
<1>10. sFull'[c] = <<>>
  BY <1>1 DEF IInv, Types, ThreadTypes, WireTypes, ClientTypes, SentTypes, SetTypes
<1>11. CASE Shut(c) /\ UNCHANGED down
  <2>1. /\ shut'[c] # "no" /\ up'[c] = <<>> /\ sPc'[c] = "ended"
        /\ shut' = [shut EXCEPT ![c] = shut'[c]] /\ shut'[c] \in {"fin", "reset"}
        /\ up' = [up EXCEPT ![c] = <<>>] /\ sPc' = [sPc EXCEPT ![c] = "ended"]
    BY <1>11, ShutIs DEF IInv
  <2>2. Types'
    <3>1. <<>> \in Seq(Piece)
      OBVIOUS
    <3>2. ThreadTypes'
      BY <1>1, <1>5, <1>6, <1>11, <2>1, <3>1 DEF IInv, Types, ThreadTypes
    <3>3. WireTypes'
      BY <1>1, <1>5, <1>6, <1>11, <2>1, <3>1 DEF IInv, Types, WireTypes
    <3>4. ClientTypes'
      BY <1>1, <1>5, <1>6, <1>11, <2>1, <3>1 DEF IInv, Types, ClientTypes
    <3>5. SentTypes'
      BY <1>1, <1>5, <1>6, <1>11, <2>1, <3>1 DEF IInv, Types, SentTypes
    <3>6. SetTypes'
      BY <1>1, <1>5, <1>6, <1>11, <2>1, <3>1 DEF IInv, Types, SetTypes
    <3> QED BY <3>2, <3>3, <3>4, <3>5, <3>6 DEF Types
  <2>3. \A d \in Clients \ {c} : Same(d)
    BY Local DEF StepOf, Thread, Receive
  <2>4. ConnOK(c)'
    <3>1. UpOK(c)' /\ ThreadOK(c)'
      BY <1>10, <2>1, EndedOK
    <3>2. ClientOK(c)'
      BY <1>1, <1>3, <1>11, ClientKeeps DEF ConnOK, SameClient
    <3> QED BY <1>9, <3>1, <3>2 DEF ConnOK
  <2> QED BY <1>1, <1>3, <2>2, <2>3, <2>4, Others
<1>12. CASE /\ Send(c, Response(m.n)) \/ UNCHANGED down
            /\ sPc' = [sPc EXCEPT ![c] = "start"]
            /\ UNCHANGED <<up, shut>>
  <2>1. /\ down' = [down EXCEPT ![c] = down'[c]] /\ down'[c] \in Seq(Piece)
        /\ ClientOK(c)'
    <3>1. CASE UNCHANGED down
      BY <1>1, <1>3, <3>1, ClientKeeps DEF ConnOK, SameClient, IInv, Types, ThreadTypes, WireTypes, ClientTypes, SentTypes, SetTypes
    <3>2. CASE Send(c, Response(m.n))
      <4>1. m.n \in 0 .. Len(sent[c])
        BY <1>2, <1>3
      <4> QED BY <1>1, <3>2, <4>1, SendIs DEF SameClient
    <3> QED BY <1>12, <3>1, <3>2
  <2>2. Types'
    <3>1. <<>> \in Seq(Piece)
      OBVIOUS
    <3>2. ThreadTypes'
      BY <1>1, <1>5, <1>6, <1>12, <2>1, <3>1 DEF IInv, Types, ThreadTypes
    <3>3. WireTypes'
      BY <1>1, <1>5, <1>6, <1>12, <2>1, <3>1 DEF IInv, Types, WireTypes
    <3>4. ClientTypes'
      BY <1>1, <1>5, <1>6, <1>12, <2>1, <3>1 DEF IInv, Types, ClientTypes
    <3>5. SentTypes'
      BY <1>1, <1>5, <1>6, <1>12, <2>1, <3>1 DEF IInv, Types, SentTypes
    <3>6. SetTypes'
      BY <1>1, <1>5, <1>6, <1>12, <2>1, <3>1 DEF IInv, Types, SetTypes
    <3> QED BY <3>2, <3>3, <3>4, <3>5, <3>6 DEF Types
  <2>3. \A d \in Clients \ {c} : Same(d)
    BY Local DEF StepOf, Thread, Receive
  <2>4. UpOK(c)'
    BY <1>1, <1>3, <1>12, UpKeeps DEF ConnOK, UpOK
  <2>5. sPc'[c] = "start" /\ shut'[c] = "no"
    BY <1>1, <1>3, <1>12 DEF ConnOK, ThreadOK, IInv, Types, ThreadTypes, WireTypes, ClientTypes, SentTypes, SetTypes
  <2>6. (\A i \in DOMAIN up[c] : IsNew(c, up[c][i].msg.n))'
    <3>1. ASSUME NEW i \in DOMAIN up[c], NEW k \in DOMAIN log
          PROVE  log[k].n < up[c][i].msg.n
      <4>1. CASE k = Len(served[c]) + 1
        BY <1>2, <1>6, <4>1
      <4>2. CASE k # Len(served[c]) + 1
        <5>1. k \in DOMAIN served[c] /\ log[k] = served[c][k]
          BY <1>7, <4>2
        <5> QED BY <1>3, <5>1 DEF ConnOK, ThreadOK, IsNew
      <4> QED BY <4>1, <4>2
    <3> QED BY <1>5, <1>12, <3>1 DEF IsNew
  <2>7. FullOK(c)'
    BY <1>3, <1>10 DEF FullOK
  <2>8. ThreadOK(c)'
    BY <2>5, <2>6, <2>7 DEF ThreadOK
  <2> QED BY <1>1, <1>3, <1>9, <2>1, <2>2, <2>3, <2>4, <2>8, Others DEF ConnOK
<1> QED BY <1>1, <1>11, <1>12 DEF Handled


-----------------------------------------------------------------------------
\* The steps of a client

\* One more request.
LEMMA Longer ==
    ASSUME Types, NEW c \in Clients, NEW kind \in Plans[c]
    PROVE  LET log == Append(sent[c], kind) IN
           /\ log \in Seq(Kinds) /\ log \in Seq(Plans[c]) /\ Len(log) = Len(sent[c]) + 1
           /\ DOMAIN log = 1 .. Len(sent[c]) + 1
           /\ \A n \in 1 .. Len(sent[c]) : log[n] = sent[c][n]
           /\ log[Len(sent[c]) + 1] = kind
<1>1. sent[c] \in Seq(Kinds) /\ sent[c] \in Seq(Plans[c])
  BY DEF Types, SentTypes
<1>2. kind \in Kinds
  BY PlansAssumption
<1>3. Append(sent[c], kind) \in Seq(Plans[c])
  BY <1>1, AppendProperties
<1> DEFINE log == Append(sent[c], kind)
<1>4. /\ log \in Seq(Kinds) /\ Len(log) = Len(sent[c]) + 1
      /\ \A n \in 1 .. Len(sent[c]) : log[n] = sent[c][n]
      /\ log[Len(sent[c]) + 1] = kind
  BY <1>1, <1>2, AppendProperties
<1>5. DOMAIN log = 1 .. Len(sent[c]) + 1
  BY <1>4, LenProperties
<1> QED BY <1>3, <1>4, <1>5

LEMMA ClientSendOK ==
    ASSUME IInv, NEW c \in Clients, NEW kind \in Plans[c], ClientSend(c, kind)
    PROVE  IInv'
<1> USE DEF server, history
<1> DEFINE L == Len(sent[c])
           m == Request(c, L + 1)
           log == Append(sent[c], kind)
<1>1. /\ cPc[c] = "idle" /\ L < MaxRequests[c]
      /\ sent' = [sent EXCEPT ![c] = log]
      /\ up' = [up EXCEPT ![c] = IF shut[c] = "no" THEN @ \o InPieces(m) ELSE @]
      /\ UNCHANGED <<down, rest, leftover, sFull, sDepth, sPc, shut, left,
                     served, answers, slow, late, piped>>
  BY DEF ClientSend
<1>2. \/ cPc' = [cPc EXCEPT ![c] = "failed"] /\ UNCHANGED <<cFull, cDepth>>
      \/ /\ cPc' = [cPc EXCEPT ![c] = "recv"]
         /\ cFull' = [cFull EXCEPT ![c] = rest[c]]
         /\ cDepth' = [cDepth EXCEPT ![c] = 0]
      \/ UNCHANGED <<cPc, cFull, cDepth>>
  BY DEF ClientSend
<1>3. /\ ConnOK(c) /\ Len(leftover) < Pieces /\ Pieces \in Nat /\ 2 < Pieces
      /\ sent[c] \in Seq(Kinds) /\ sent[c] \in Seq(Plans[c]) /\ L \in Nat
      /\ up[c] \in Seq(Piece) /\ rest[c] \in Seq(Piece) /\ Len(answers[c]) \in Nat
  <2>1. sent[c] \in Seq(Plans[c])
    BY DEF IInv, Types, SentTypes
  <2> QED BY <2>1, Typed
<1>4. /\ log \in Seq(Kinds) /\ log \in Seq(Plans[c]) /\ Len(log) = L + 1
  BY Longer DEF IInv
<1>5. m \in Messages
  <2>1. L + 1 \in 1 .. MaxRequests[c]
    BY <1>1, <1>3, BoundAssumption
  <2> QED BY <2>1, NewMessages DEF IInv
<1>6. /\ sent'[c] = log /\ Len(sent'[c]) = L + 1
      /\ up'[c] = (IF shut[c] = "no" THEN up[c] \o InPieces(m) ELSE up[c])
  <2>1. sent'[c] = log
    BY <1>1 DEF IInv, Types, SentTypes
  <2> HIDE DEF log
  <2> QED BY <1>1, <1>4, <2>1 DEF IInv, Types, WireTypes
<1> HIDE DEF log
<1>7. /\ up'[c] \in Seq(Piece) /\ Flows(up'[c]) /\ Mid(up'[c]) = Mid(up[c])
      /\ \A i \in DOMAIN up'[c] :
            \/ i \in DOMAIN up[c] /\ up'[c][i] = up[c][i]
            \/ /\ shut[c] = "no" /\ i \in Nat /\ i > Len(up[c])
               /\ up'[c][i].msg = m
               /\ up'[c][i].part = Pieces => i = Len(up'[c])
      /\ DOMAIN up'[c] = 1 .. Len(up'[c]) /\ Len(up'[c]) \in Nat
      /\ DOMAIN up[c] = 1 .. Len(up[c]) /\ Len(up[c]) \in Nat
  <2>0. DOMAIN up[c] = 1 .. Len(up[c]) /\ Len(up[c]) \in Nat /\ Flows(up[c])
    BY <1>3, Pieced DEF ConnOK, UpOK
  <2>1. CASE shut[c] # "no"
    BY <1>3, <1>6, <2>0, <2>1
  <2>2. CASE shut[c] = "no"
    <3> DEFINE new == up[c] \o InPieces(m)
    <3>1. /\ new \in Seq(Piece) /\ Flows(new) /\ Mid(new) = Mid(up[c])
          /\ Len(new) = Len(up[c]) + Pieces
          /\ \A i \in 1 .. Len(up[c]) : new[i] = up[c][i]
          /\ \A i \in 1 .. Pieces : /\ new[Len(up[c]) + i].msg = m
                                    /\ new[Len(up[c]) + i].part = i
      BY <1>3, <1>5, <2>0, PutIs
    <3>2. up'[c] = new
      BY <1>6, <2>2
    <3> HIDE DEF new, m
    <3>3. DOMAIN new = 1 .. Len(new) /\ Len(new) \in Nat
      BY <3>1, Pieced
    <3>4. ASSUME NEW i \in DOMAIN new, i \notin 1 .. Len(up[c])
          PROVE  /\ i \in Nat /\ i > Len(up[c]) /\ new[i].msg = m
                 /\ new[i].part = Pieces => i = Len(new)
      <4>1. /\ i \in Nat /\ i > Len(up[c]) /\ i - Len(up[c]) \in 1 .. Pieces
            /\ Len(up[c]) + (i - Len(up[c])) = i
        <5>1. i \in 1 .. Len(up[c]) + Pieces
          BY <3>1, <3>3
        <5> QED BY <1>3, <2>0, <3>4, <5>1, Beyond
      <4>2. new[i].msg = m /\ new[i].part = i - Len(up[c])
        BY <3>1, <4>1
      <4> QED BY <2>0, <3>1, <4>1, <4>2
    <3>5. \A i \in 1 .. Len(up[c]) : new[i] = up[c][i]
      BY <3>1
    <3> QED BY <2>0, <2>2, <3>1, <3>2, <3>3, <3>4, <3>5
  <2> QED BY <2>1, <2>2
<1>8. m.n = L + 1 /\ m.from = c /\ m = Request(c, L + 1)
  BY DEF Request
<1>9. /\ m \in Own(c)' /\ Own(c) \subseteq Own(c)'
      /\ \A x \in Own(c) : x.n < m.n
  <2>1. Own(c)' = [from : {c}, n : 1 .. L + 1]
    BY <1>6 DEF Own
  <2>2. m \in [from : {c}, n : 1 .. L + 1]
    BY <1>3 DEF Request
  <2>3. \A n \in Nat : n + 1 \in 1 .. n + 1 /\ \A k \in 1 .. n : k < n + 1 /\ k \in 1 .. n + 1
    OBVIOUS
  <2>4. Own(c) = [from : {c}, n : 1 .. L]
    BY DEF Own
  <2> HIDE DEF m, L
  <2>5. \A x \in Own(c) : x \in [from : {c}, n : 1 .. L + 1]
    BY <1>3, <2>3, <2>4
  <2>6. \A x \in Own(c) : x.n < m.n
    BY <1>3, <1>8, <2>3, <2>4
  <2> QED BY <2>1, <2>2, <2>5, <2>6
<1> HIDE DEF m
<1>10. UpOK(c)'
  <2>1. ASSUME NEW i \in DOMAIN up'[c] PROVE up'[c][i].msg \in Own(c)'
    BY <1>3, <1>7, <1>9 DEF ConnOK, UpOK
  <2>2. ASSUME NEW i \in DOMAIN up'[c], NEW j \in DOMAIN up'[c], i < j
        PROVE  /\ up'[c][i].msg.n <= up'[c][j].msg.n
               /\ up'[c][i].part = Pieces => up'[c][i].msg.n < up'[c][j].msg.n
    <3>1. CASE i \in DOMAIN up[c] /\ up'[c][i] = up[c][i]
      <4>1. CASE j \in DOMAIN up[c] /\ up'[c][j] = up[c][j]
        BY <1>3, <2>2, <3>1, <4>1 DEF ConnOK, UpOK
      <4>2. CASE up'[c][j].msg = m
        <5>1. up'[c][i].msg \in Own(c)
          BY <1>3, <3>1 DEF ConnOK, UpOK
        <5>2. up'[c][i].msg.n < m.n /\ up'[c][i].msg.n \in Nat /\ m.n \in Nat
          BY <1>3, <1>8, <1>9, <5>1 DEF Own
        <5> QED BY <4>2, <5>2
      <4> QED BY <1>7, <4>1, <4>2
    <3>2. CASE i \in Nat /\ i > Len(up[c]) /\ up'[c][i].msg = m
               /\ (up'[c][i].part = Pieces => i = Len(up'[c]))
      <4>1. j \notin DOMAIN up[c]
        BY <1>7, <2>2, <3>2
      <4>2. up'[c][j].msg = m
        BY <1>7, <4>1
      <4>3. i # Len(up'[c])
        BY <1>7, <2>2
      <4>4. m.n \in Nat
        BY <1>3, <1>8
      <4> QED BY <3>2, <4>2, <4>3, <4>4
    <3> QED BY <1>7, <3>1, <3>2
  <2>3. shut'[c] # "no" => up'[c] = <<>>
    BY <1>1, <1>3, <1>6 DEF ConnOK, UpOK
  <2> QED BY <1>7, <2>1, <2>2, <2>3 DEF UpOK
<1>11. ThreadOK(c)'
  <2>1. \A n : IsNew(c, n)' <=> IsNew(c, n)
    BY <1>1 DEF IsNew
  <2>2. IsNew(c, m.n)
    BY <1>3, <1>9 DEF ConnOK, ServedOK, IsNew
  <2>3. (\A i \in DOMAIN up[c] : IsNew(c, up[c][i].msg.n))'
    <3>1. \A i \in DOMAIN up'[c] : IsNew(c, up'[c][i].msg.n)
      BY <1>3, <1>7, <2>2 DEF ConnOK, ThreadOK
    <3> QED BY <1>1, <3>1 DEF IsNew
  <2>4. FullOK(c)'
    <3>1. ASSUME LastOf(sFull[c]).msg \in Own(c),
                 LastOf(sFull[c]).part = Pieces =>
                    \A i \in DOMAIN up[c] : LastOf(sFull[c]).msg.n < up[c][i].msg.n,
                 LastOf(sFull[c]).part = Pieces
          PROVE  \A i \in DOMAIN up'[c] : LastOf(sFull[c]).msg.n < up'[c][i].msg.n
      BY <1>7, <1>9, <3>1
    <3> QED BY <1>1, <1>3, <1>9, <2>1, <3>1 DEF ConnOK, ThreadOK, FullOK
  <2>5. sPc[c] = "recv" => Counts(sDepth[c], up'[c])
    BY <1>3, <1>7 DEF ConnOK, ThreadOK, Counts
  <2> QED BY <1>1, <1>3, <2>3, <2>4, <2>5 DEF ConnOK, ThreadOK
<1>12. ServedOK(c)'
  BY <1>1, <1>3, <1>9 DEF ConnOK, ServedOK
<1>13. ClientOK(c)'
  <2>1. \A x \in Replies(c) : x \in Replies(c)'
    <3>1. \A n \in Nat : \A k \in 0 .. n : k \in 0 .. n + 1
      OBVIOUS
    <3> QED BY <1>3, <1>6, <3>1 DEF Replies
  <2>2. Len(answers[c]) < L + 1 /\ Len(answers[c]) <= L + 1
    BY <1>3 DEF ConnOK, ClientOK
  <2>3. cPc'[c] = "recv" => cDepth'[c] = 0
    BY <1>1, <1>2 DEF IInv, Types, ClientTypes
  <2>4. Counts(0, down[c])
    BY MidIs DEF Counts
  <2>5. cFull'[c] \in {cFull[c], rest[c]}
    BY <1>1, <1>2 DEF IInv, Types, ClientTypes
  <2>6. Told(c, down[c])' /\ Told(c, rest[c])' /\ Told(c, cFull[c])'
    BY <1>1, <1>3, <2>1, <2>5 DEF ConnOK, ClientOK, Told
  <2> QED BY <1>1, <1>3, <1>6, <2>2, <2>3, <2>4, <2>6 DEF ConnOK, ClientOK
<1>14. ConnOK(c)'
  BY <1>10, <1>11, <1>12, <1>13 DEF ConnOK
<1>15. up' = [up EXCEPT ![c] = up'[c]]
  BY <1>1, <1>6 DEF IInv, Types, WireTypes
<1> HIDE DEF L
<1>16. \A d \in Clients \ {c} : Same(d)
  BY Local DEF StepOf, Thread, Receive
<1>17. Types'
  <2>1. ThreadTypes'
    BY <1>1 DEF IInv, Types, ThreadTypes
  <2>2. WireTypes'
    BY <1>1, <1>7, <1>15 DEF IInv, Types, WireTypes
  <2>3. ClientTypes'
    <3>1. cPc' \in [Clients -> {"idle", "recv", "failed"}]
      BY <1>2 DEF IInv, Types, ClientTypes
    <3>2. cFull' \in [Clients -> Seq(Piece)] /\ cDepth' \in [Clients -> -1 .. 1]
      <4>1. 0 \in -1 .. 1
        OBVIOUS
      <4> QED BY <1>2, <1>3, <4>1 DEF IInv, Types, ClientTypes
    <3> QED BY <1>1, <3>1, <3>2 DEF IInv, Types, ClientTypes
  <2>4. SentTypes'
    <3>1. sent' \in [Clients -> Seq(Kinds)]
      BY <1>1, <1>4 DEF IInv, Types, SentTypes
    <3>2. Len(sent'[c]) <= MaxRequests[c]
      BY <1>1, <1>3, <1>6, BoundAssumption
    <3>3. \A d \in Clients : sent'[d] \in Seq(Plans[d]) /\ Len(sent'[d]) <= MaxRequests[d]
      BY <1>1, <1>4, <1>6, <3>2 DEF IInv, Types, SentTypes
    <3> QED BY <3>1, <3>3 DEF SentTypes
  <2>5. SetTypes'
    BY <1>1 DEF IInv, Types, SetTypes
  <2> QED BY <2>1, <2>2, <2>3, <2>4, <2>5 DEF Types
<1> QED BY <1>1, <1>3, <1>14, <1>16, <1>17, Others

\* A call returns, with what it was given.
Given(c, text) == [call |-> Len(sent[c]),
                   to |-> IF IsMessage(text) THEN text[1].msg.to ELSE -1]

LEMMA ReturnIs ==
    ASSUME IInv, NEW c \in Clients, NEW text \in Seq(Piece), Told(c, text),
           Return(c, text), cPc[c] = "recv"
    PROVE  /\ answers' = [answers EXCEPT ![c] = answers'[c]]
           /\ answers'[c] = Append(answers[c], Given(c, text))
           /\ answers'[c] \in Seq([call : Nat, to : Int])
           /\ Len(answers'[c]) = Len(answers[c]) + 1
           /\ Len(answers[c]) + 1 <= Len(sent[c])
           /\ DOMAIN answers'[c] = 1 .. Len(answers[c]) + 1
           /\ \A i \in 1 .. Len(answers[c]) : answers'[c][i] = answers[c][i]
           /\ answers'[c][Len(answers[c]) + 1] = Given(c, text)
           /\ cPc' = [cPc EXCEPT ![c] = "idle"] /\ cPc'[c] = "idle"
<1>1. /\ Len(sent[c]) \in Nat /\ ConnOK(c) /\ Len(answers[c]) \in Nat
      /\ answers[c] \in Seq([call : Nat, to : Int])
      /\ Pieces \in Nat /\ 2 < Pieces
  <2>1. answers[c] \in Seq([call : Nat, to : Int])
    BY DEF IInv, Types, ClientTypes
  <2> QED BY <2>1, Typed
<1>2. Given(c, text) \in [call : Nat, to : Int]
  <2>1. ASSUME IsMessage(text) PROVE text[1].msg.to \in Int
    <3>1. 1 \in DOMAIN text
      BY <1>1, <2>1, Pieced DEF IsMessage
    <3>2. text[1].msg \in Replies(c)
      BY <3>1 DEF Told
    <3> QED BY <1>1, <3>2 DEF Replies
  <2> QED BY <1>1, <2>1 DEF Given
<1>3. /\ answers' = [answers EXCEPT ![c] = Append(@, Given(c, text))]
      /\ cPc' = [cPc EXCEPT ![c] = "idle"]
  BY DEF Return, Given
<1>4. /\ answers'[c] = Append(answers[c], Given(c, text)) /\ cPc'[c] = "idle"
      /\ answers' = [answers EXCEPT ![c] = answers'[c]]
  BY <1>3 DEF IInv, Types, ClientTypes
<1>5. Len(answers[c]) < Len(sent[c])
  BY <1>1 DEF ConnOK, ClientOK
<1>6. Len(answers[c]) + 1 <= Len(sent[c])
  BY <1>1, <1>5
<1> DEFINE new == Append(answers[c], Given(c, text))
<1>7. /\ new \in Seq([call : Nat, to : Int]) /\ Len(new) = Len(answers[c]) + 1
      /\ \A i \in 1 .. Len(answers[c]) : new[i] = answers[c][i]
      /\ new[Len(answers[c]) + 1] = Given(c, text)
  BY <1>1, <1>2, AppendProperties
<1>8. DOMAIN new = 1 .. Len(answers[c]) + 1
  BY <1>7, LenProperties
<1>9. answers'[c] = new
  BY <1>4
<1> HIDE DEF new
<1>10. /\ answers'[c] \in Seq([call : Nat, to : Int])
       /\ Len(answers'[c]) = Len(answers[c]) + 1
       /\ DOMAIN answers'[c] = 1 .. Len(answers[c]) + 1
       /\ \A i \in 1 .. Len(answers[c]) : answers'[c][i] = answers[c][i]
       /\ answers'[c][Len(answers[c]) + 1] = Given(c, text)
  BY <1>7, <1>8, <1>9
<1> QED BY <1>3, <1>4, <1>6, <1>10

\* What the client reads are responses, counted as far as it goes, and what is behind the
\* response is shorter than a message.
LEMMA ClientRecvIs ==
    ASSUME IInv, NEW c \in Clients, NEW chunk \in Chunks(down[c]), cPc[c] = "recv"
    PROVE  LET text == cFull[c] \o SubSeq(chunk, 1, Cut(chunk, cDepth[c]))
               behind == Behind(chunk, Cut(chunk, cDepth[c]))
           IN /\ Received(down[c], cFull[c], cDepth[c], chunk)
              /\ Told(c, Behind(down[c], Len(chunk)))
              /\ Told(c, text) /\ Told(c, behind)
<1> DEFINE cut == Cut(chunk, cDepth[c])
           text == cFull[c] \o SubSeq(chunk, 1, cut)
           behind == Behind(chunk, cut)
<1>1. /\ ConnOK(c) /\ down[c] \in Seq(Piece) /\ cFull[c] \in Seq(Piece)
      /\ cDepth[c] \in -1 .. 1 /\ Flows(down[c]) /\ Counts(cDepth[c], down[c])
      /\ Told(c, down[c]) /\ Told(c, cFull[c])
  <2>1. ConnOK(c)
    BY Typed
  <2> QED BY <2>1, Typed DEF ConnOK, ClientOK
<1>2. Received(down[c], cFull[c], cDepth[c], chunk)
  BY <1>1, RecvIs
<1>3. Told(c, Behind(down[c], Len(chunk))) /\ Told(c, behind)
  BY <1>1, <1>2 DEF Received, Taken, Told
<1>4. Told(c, text)
  <2>1. /\ text \in Seq(Piece) /\ Len(text) = Len(cFull[c]) + cut
        /\ \A i \in 1 .. Len(cFull[c]) : text[i] = cFull[c][i]
        /\ \A i \in 1 .. cut : text[Len(cFull[c]) + i] = down[c][i]
        /\ cut \in DOMAIN down[c]
    BY <1>2 DEF Received, Taken
  <2> HIDE DEF cut, text
  <2>2. /\ DOMAIN text = 1 .. Len(text) /\ DOMAIN cFull[c] = 1 .. Len(cFull[c])
        /\ DOMAIN down[c] = 1 .. Len(down[c])
        /\ Len(cFull[c]) \in Nat /\ Len(down[c]) \in Nat
    BY <1>1, <2>1, Pieced
  <2>3. ASSUME NEW i \in DOMAIN text PROVE text[i].msg \in Replies(c)
    <3>1. CASE i \in 1 .. Len(cFull[c])
      BY <1>1, <2>1, <2>2, <3>1 DEF Told
    <3>2. CASE i \notin 1 .. Len(cFull[c])
      <4> DEFINE k == i - Len(cFull[c])
      <4>1. k \in 1 .. cut /\ Len(cFull[c]) + k = i
        <5>1. cut \in Nat /\ i \in 1 .. Len(cFull[c]) + cut
          BY <2>1, <2>2
        <5> QED BY <2>2, <3>2, <5>1, Beyond
      <4> HIDE DEF k
      <4>2. k \in DOMAIN down[c]
        BY <2>1, <2>2, <4>1
      <4>3. text[i] = down[c][k]
        BY <2>1, <4>1
      <4> QED BY <1>1, <4>2, <4>3 DEF Told
    <3> QED BY <3>1, <3>2
  <2> QED BY <2>3 DEF Told
<1> QED BY <1>2, <1>3, <1>4

LEMMA ClientRecvOK ==
    ASSUME IInv, NEW c \in Clients, ClientRecv(c)
    PROVE  IInv'
<1> USE DEF server
<1>1. PICK chunk \in Chunks(down[c]) :
          LET cut == Cut(chunk, cDepth[c])
              behind == Behind(chunk, cut)
              depth == Depth(chunk, cDepth[c], cut)
              text == cFull[c] \o SubSeq(chunk, 1, cut)
          IN /\ down' = [down EXCEPT ![c] = Behind(@, Len(chunk))]
             /\ rest' = [rest EXCEPT ![c] = behind]
             /\ IF behind # <<>> \/ depth = 0
                THEN /\ Return(c, text)
                     /\ cFull' = [cFull EXCEPT ![c] = <<>>]
                     /\ cDepth' = [cDepth EXCEPT ![c] = 0]
                ELSE /\ cFull' = [cFull EXCEPT ![c] = text]
                     /\ cDepth' = [cDepth EXCEPT ![c] = depth]
                     /\ UNCHANGED <<answers, cPc>>
  BY DEF ClientRecv
<1> DEFINE cut == Cut(chunk, cDepth[c])
           behind == Behind(chunk, cut)
           depth == Depth(chunk, cDepth[c], cut)
           text == cFull[c] \o SubSeq(chunk, 1, cut)
           new == Behind(down[c], Len(chunk))
<1>2. /\ UNCHANGED <<sent, up, leftover, sFull, sDepth, sPc, shut, left, served, slow,
                     late, piped>>
      /\ cPc[c] = "recv"
  BY DEF ClientRecv
<1>3. /\ ConnOK(c) /\ Len(leftover) < Pieces /\ Pieces \in Nat /\ 2 < Pieces
      /\ Len(sent[c]) \in Nat /\ Len(answers[c]) \in Nat
  BY Typed
<1>4. /\ behind \in Seq(Piece) /\ Len(behind) < Pieces /\ depth \in -1 .. 1
      /\ behind = <<>> => Counts(depth, new)
      /\ text \in Seq(Piece) /\ new \in Seq(Piece) /\ Flows(new)
      /\ Told(c, new) /\ Told(c, text) /\ Told(c, behind)
  <2>1. /\ Received(down[c], cFull[c], cDepth[c], chunk)
        /\ Told(c, new) /\ Told(c, text) /\ Told(c, behind)
    BY <1>2, ClientRecvIs
  <2> QED BY <2>1 DEF Received, Taken
<1>5. \/ Return(c, text) /\ cFull' = [cFull EXCEPT ![c] = <<>>] /\ cDepth' = [cDepth EXCEPT ![c] = 0]
      \/ /\ behind = <<>>
         /\ cFull' = [cFull EXCEPT ![c] = text] /\ cDepth' = [cDepth EXCEPT ![c] = depth]
         /\ UNCHANGED <<answers, cPc>>
  BY <1>1
<1>6. /\ down' = [down EXCEPT ![c] = new] /\ down'[c] = new
      /\ rest' = [rest EXCEPT ![c] = behind] /\ rest'[c] = behind
  BY <1>1 DEF IInv, Types, WireTypes, ClientTypes
<1> HIDE DEF cut, behind, depth, text, new
<1>7. /\ cFull' = [cFull EXCEPT ![c] = cFull'[c]] /\ cFull'[c] \in Seq(Piece)
      /\ cDepth' = [cDepth EXCEPT ![c] = cDepth'[c]] /\ cDepth'[c] \in -1 .. 1
      /\ cPc' = [cPc EXCEPT ![c] = cPc'[c]] /\ cPc'[c] \in {"idle", "recv"}
      /\ answers' = [answers EXCEPT ![c] = answers'[c]]
      /\ answers'[c] \in Seq([call : Nat, to : Int])
      /\ cPc'[c] = "recv" => Counts(cDepth'[c], new) /\ Len(answers'[c]) < Len(sent[c])
      /\ Len(answers'[c]) <= Len(sent[c])
      /\ Told(c, cFull'[c])
  <2>1. CASE Return(c, text) /\ cFull' = [cFull EXCEPT ![c] = <<>>]
                             /\ cDepth' = [cDepth EXCEPT ![c] = 0]
    <3>1. /\ answers' = [answers EXCEPT ![c] = answers'[c]]
          /\ answers'[c] \in Seq([call : Nat, to : Int])
          /\ Len(answers'[c]) <= Len(sent[c])
          /\ cPc' = [cPc EXCEPT ![c] = "idle"] /\ cPc'[c] = "idle"
      BY <1>2, <1>4, <2>1, ReturnIs
    <3>2. /\ cFull' = [cFull EXCEPT ![c] = cFull'[c]] /\ cFull'[c] = <<>>
          /\ cDepth' = [cDepth EXCEPT ![c] = cDepth'[c]] /\ cDepth'[c] = 0
      BY <2>1 DEF IInv, Types, ClientTypes
    <3>3. <<>> \in Seq(Piece) /\ Told(c, <<>>) /\ 0 \in -1 .. 1
      BY EmptySeq DEF Told
    <3> QED BY <3>1, <3>2, <3>3
  <2>2. CASE /\ behind = <<>>
             /\ cFull' = [cFull EXCEPT ![c] = text] /\ cDepth' = [cDepth EXCEPT ![c] = depth]
             /\ UNCHANGED <<answers, cPc>>
    <3>1. /\ cFull' = [cFull EXCEPT ![c] = cFull'[c]] /\ cFull'[c] = text
          /\ cDepth' = [cDepth EXCEPT ![c] = cDepth'[c]] /\ cDepth'[c] = depth
      BY <2>2 DEF IInv, Types, ClientTypes
    <3>2. /\ cPc' = [cPc EXCEPT ![c] = cPc'[c]] /\ cPc'[c] = "recv"
          /\ answers' = [answers EXCEPT ![c] = answers'[c]] /\ answers'[c] = answers[c]
          /\ answers'[c] \in Seq([call : Nat, to : Int])
      BY <1>2, <2>2 DEF IInv, Types, ClientTypes
    <3>3. Len(answers[c]) < Len(sent[c])
      BY <1>2, <1>3 DEF ConnOK, ClientOK
    <3>4. Len(answers[c]) <= Len(sent[c])
      BY <1>3, <3>3
    <3> QED BY <1>4, <2>2, <3>1, <3>2, <3>3, <3>4
  <2> QED BY <1>5, <2>1, <2>2
<1>8. Types'
  <2>1. ThreadTypes' /\ SentTypes' /\ SetTypes'
    BY <1>2 DEF IInv, Types, ThreadTypes, SentTypes, SetTypes
  <2>2. WireTypes'
    BY <1>2, <1>4, <1>6 DEF IInv, Types, WireTypes
  <2>3. ClientTypes'
    <3>1. cPc'[c] \in {"idle", "recv", "failed"}
      BY <1>7
    <3> QED BY <1>4, <1>6, <1>7, <3>1 DEF IInv, Types, ClientTypes
  <2> QED BY <2>1, <2>2, <2>3 DEF Types
<1>9. \A d \in Clients \ {c} : Same(d)
  BY Local DEF StepOf, Thread, Receive
<1>10. ClientOK(c)'
  <2>1. Replies(c)' = Replies(c) /\ \A s : Told(c, s)' <=> Told(c, s)
    BY <1>2 DEF Replies, Told
  <2>2. Told(c, down[c])' /\ Told(c, rest[c])' /\ Told(c, cFull[c])'
    BY <1>2, <1>4, <1>6, <1>7, <2>1 DEF Told
  <2> QED BY <1>2, <1>4, <1>6, <1>7, <2>2 DEF ClientOK
<1>11. SameThread(c)
  BY <1>2 DEF SameThread
<1>12. ConnOK(c)'
  BY <1>2, <1>3, <1>10, <1>11, UpKeeps, ThreadKeeps, ServedKeeps DEF ConnOK, UpOK
<1> QED BY <1>2, <1>3, <1>8, <1>9, <1>12, Others

\* Nothing came, or the end of file: the call returns with what it has, or goes on.
LEMMA ClientEndOK ==
    ASSUME IInv, NEW c \in Clients, ClientTimeout(c) \/ ClientEof(c)
    PROVE  IInv'
<1> USE DEF server
<1>1. /\ UNCHANGED <<sent, up, down, leftover, sFull, sDepth, sPc, shut, left, served, piped>>
      /\ cPc[c] = "recv"
      /\ rest' \in {rest, [rest EXCEPT ![c] = <<>>]}
      /\ \/ slow' = slow /\ late' = late
         \/ slow' = slow \cup {c} /\ late' = late \cup {c}
      /\ \/ UNCHANGED <<cFull, cDepth>>
         \/ /\ cFull' = [cFull EXCEPT ![c] = <<>>]
            /\ cDepth' = [cDepth EXCEPT ![c] = 0]
      /\ \/ Return(c, cFull[c])
         \/ UNCHANGED <<answers, cPc>>
         \/ cPc' = [cPc EXCEPT ![c] = "failed"] /\ UNCHANGED answers
  BY DEF ClientTimeout, ClientEof
<1>2. /\ ConnOK(c) /\ Len(leftover) < Pieces /\ Pieces \in Nat /\ 2 < Pieces
      /\ cFull[c] \in Seq(Piece) /\ cDepth[c] \in -1 .. 1 /\ rest[c] \in Seq(Piece)
      /\ Len(answers[c]) <= Len(sent[c]) /\ Len(answers[c]) < Len(sent[c])
      /\ Told(c, cFull[c])
  <2>1. ConnOK(c)
    BY Typed
  <2> QED BY <1>1, <2>1, Typed DEF ConnOK, ClientOK
<1>3. /\ answers' = [answers EXCEPT ![c] = answers'[c]]
      /\ answers'[c] \in Seq([call : Nat, to : Int])
      /\ Len(answers'[c]) <= Len(sent[c])
      /\ cPc' = [cPc EXCEPT ![c] = cPc'[c]] /\ cPc'[c] \in {"idle", "recv", "failed"}
      /\ cPc'[c] = "recv" => answers'[c] = answers[c]
  <2>1. CASE Return(c, cFull[c])
    BY <1>1, <1>2, <2>1, ReturnIs
  <2>2. CASE UNCHANGED <<answers, cPc>>
    BY <1>1, <1>2, <2>2 DEF IInv, Types, ClientTypes
  <2>3. CASE cPc' = [cPc EXCEPT ![c] = "failed"] /\ UNCHANGED answers
    BY <1>2, <2>3 DEF IInv, Types, ClientTypes
  <2> QED BY <1>1, <2>1, <2>2, <2>3
<1>4. /\ rest' = [rest EXCEPT ![c] = rest'[c]] /\ rest'[c] \in {rest[c], <<>>}
      /\ cFull' = [cFull EXCEPT ![c] = cFull'[c]] /\ cFull'[c] \in {cFull[c], <<>>}
      /\ cDepth' = [cDepth EXCEPT ![c] = cDepth'[c]] /\ cDepth'[c] \in {cDepth[c], 0}
  BY <1>1 DEF IInv, Types, ClientTypes
<1>5. <<>> \in Seq(Piece) /\ Told(c, <<>>) /\ Len(<<>>) = 0 /\ 0 \in -1 .. 1
  BY EmptySeq DEF Told
<1>6. Types'
  <2>1. ThreadTypes'
    BY <1>1 DEF IInv, Types, ThreadTypes
  <2>2. WireTypes' /\ SentTypes'
    BY <1>1 DEF IInv, Types, WireTypes, SentTypes
  <2>3. ClientTypes'
    <3>1. rest'[c] \in Seq(Piece) /\ cFull'[c] \in Seq(Piece) /\ cDepth'[c] \in -1 .. 1
      BY <1>2, <1>4, <1>5
    <3> QED BY <1>3, <1>4, <3>1 DEF IInv, Types, ClientTypes
  <2>4. SetTypes'
    BY <1>1 DEF IInv, Types, SetTypes
  <2> QED BY <2>1, <2>2, <2>3, <2>4 DEF Types
<1>7. \A d \in Clients \ {c} : Same(d)
  BY Local DEF StepOf, Thread, Receive
<1>8. ClientOK(c)'
  <2>1. Replies(c)' = Replies(c)
    BY <1>1 DEF Replies
  <2>2. Told(c, down[c])' /\ Told(c, rest[c])' /\ Told(c, cFull[c])'
    BY <1>1, <1>2, <1>4, <1>5, <2>1 DEF ConnOK, ClientOK, Told
  <2>3. Counts(cDepth[c], down[c]) /\ Counts(0, down[c])
    BY <1>1, <1>2, MidIs DEF ConnOK, ClientOK, Counts
  <2>4. Len(rest'[c]) < Pieces
    BY <1>2, <1>4, <1>5 DEF ConnOK, ClientOK
  <2> QED BY <1>1, <1>2, <1>3, <1>4, <2>2, <2>3, <2>4 DEF ConnOK, ClientOK
<1>9. SameThread(c)
  BY <1>1 DEF SameThread
<1>10. ConnOK(c)'
  BY <1>1, <1>2, <1>8, <1>9, UpKeeps, ThreadKeeps, ServedKeeps DEF ConnOK, UpOK
<1> QED BY <1>1, <1>2, <1>6, <1>7, <1>10, Others

LEMMA ClientCloseOK ==
    ASSUME IInv, NEW c \in Clients, ClientClose(c)
    PROVE  IInv'
<1> USE DEF server, client, history
<1>1. /\ UNCHANGED <<sent, up, down, leftover, sFull, sDepth, sPc, rest, cFull, cDepth,
                     cPc, shut, served, answers, slow, late, piped>>
      /\ left' = left \cup {c}
  BY DEF ClientClose
<1>2. Types'
  BY <1>1 DEF IInv, Types, ThreadTypes, WireTypes, ClientTypes, SentTypes, SetTypes
<1>3. \A d \in Clients : Same(d)
  BY <1>1 DEF Same
<1>4. ConnOK(c) /\ Len(leftover) < Pieces
  BY Typed
<1>5. ConnOK(c)'
  BY <1>1, <1>4, UpKeeps, ThreadKeeps, ServedKeeps, ClientKeeps
     DEF ConnOK, UpOK, SameThread, SameClient
<1> QED BY <1>1, <1>2, <1>3, <1>4, <1>5, Others

LEMMA NextOK == IInv /\ [Next]_vars => IInv'
<1> SUFFICES ASSUME IInv, [Next]_vars PROVE IInv'
  OBVIOUS
<1>1. CASE UNCHANGED vars
  <2> USE DEF vars, server, client, history
  <2>1. Types'
    BY <1>1 DEF IInv, Types, ThreadTypes, WireTypes, ClientTypes, SentTypes, SetTypes
  <2>2. Len(leftover') < Pieces
    BY <1>1 DEF IInv
  <2>3. ASSUME NEW c \in Clients PROVE ConnOK(c)'
    <3>1. ConnOK(c)
      BY DEF IInv
    <3>2. SameThread(c) /\ SameClient(c)
      BY <1>1 DEF SameThread, SameClient
    <3> QED BY <1>1, <3>1, <3>2, UpKeeps, ThreadKeeps, ServedKeeps, ClientKeeps
            DEF ConnOK, UpOK
  <2> QED BY <2>1, <2>2, <2>3 DEF IInv
<1>2. ASSUME NEW c \in Clients, Thread(c) \/ ServerTimeout(c) PROVE IInv'
  BY <1>2, StartOK, ServerRecvOK, ServerEndOK, ServerResetOK, ParseErrorOK, HandleRequestOK
     DEF Thread
<1>3. ASSUME NEW c \in Clients, NEW kind \in Plans[c], ClientSend(c, kind) PROVE IInv'
  BY <1>3, ClientSendOK
<1>4. ASSUME NEW c \in Clients, Receive(c) \/ ClientTimeout(c) \/ ClientClose(c) PROVE IInv'
  BY <1>4, ClientRecvOK, ClientEndOK, ClientCloseOK DEF Receive
<1> QED BY <1>1, <1>2, <1>3, <1>4 DEF Next

\* The streams are whole and in order in every state.
THEOREM Invariance == Spec => []IInv
BY InitOK, NextOK, PTL DEF Spec

\* Types, and requests handled in the order they were sent, each at most once and each
\* the connection's own, wherever recv cuts the streams and whatever the threads leave to
\* one another in self.new_message.
THEOREM StreamsAreSound == Spec => []StreamsOK
<1>1. IInv => StreamsOK
  <2> SUFFICES ASSUME IInv PROVE StreamsOK
    OBVIOUS
  <2>1. TypeOK
    <3>1. Texts = Seq(Piece)
      BY DEF Texts, Piece
    <3>2. ASSUME NEW c \in Clients
          PROVE  /\ sent[c] \in Seq(Plans[c]) /\ Len(sent[c]) <= MaxRequests[c]
                 /\ {up[c], down[c], sFull[c], rest[c], cFull[c]} \subseteq Texts
                 /\ sDepth[c] \in -1 .. 1 /\ cDepth[c] \in -1 .. 1
                 /\ sPc[c] \in {"start", "recv", "handle", "ended"}
                 /\ cPc[c] \in {"idle", "recv", "failed"}
                 /\ shut[c] \in {"no", "fin", "reset"}
                 /\ (sPc[c] = "ended") <=> (shut[c] # "no")
                 /\ Len(answers[c]) <= Len(sent[c])
      <4>1. /\ sent[c] \in Seq(Plans[c]) /\ Len(sent[c]) <= MaxRequests[c]
            /\ sPc[c] \in {"start", "recv", "handle", "ended"}
            /\ cPc[c] \in {"idle", "recv", "failed"}
            /\ shut[c] \in {"no", "fin", "reset"}
        BY DEF IInv, Types, ThreadTypes, WireTypes, ClientTypes, SentTypes
      <4>2. /\ {up[c], down[c], sFull[c], rest[c], cFull[c]} \subseteq Texts
            /\ sDepth[c] \in -1 .. 1 /\ cDepth[c] \in -1 .. 1 /\ ConnOK(c)
        BY <3>1, Typed
      <4>3. (sPc[c] = "ended") <=> (shut[c] # "no")
        BY <4>2 DEF ConnOK, ThreadOK
      <4>4. Len(answers[c]) <= Len(sent[c])
        BY <4>2 DEF ConnOK, ClientOK
      <4> QED BY <4>1, <4>2, <4>3, <4>4
    <3>3. /\ leftover \in Texts /\ piped \in BOOLEAN
          /\ left \subseteq Clients /\ late \subseteq slow /\ slow \subseteq Clients
      BY <3>1 DEF IInv, Types, ThreadTypes, SetTypes
    <3> QED BY <3>2, <3>3 DEF TypeOK
  <2>2. ASSUME NEW c \in Clients, NEW i \in 1 .. Len(served[c])
        PROVE  /\ served[c][i].from = c
               /\ i > 1 => served[c][i - 1].n < served[c][i].n
    <3>1. ServedOK(c) /\ DOMAIN served[c] = 1 .. Len(served[c]) /\ Len(served[c]) \in Nat
      BY Typed DEF ConnOK
    <3>2. served[c][i].from = c
      BY <3>1 DEF ServedOK, Own
    <3>3. ASSUME i > 1 PROVE served[c][i - 1].n < served[c][i].n
      <4>1. i - 1 \in 1 .. Len(served[c]) /\ i - 1 < i
        BY <3>1, <3>3
      <4> QED BY <3>1, <4>1 DEF ServedOK
    <3> QED BY <3>2, <3>3
  <2> QED BY <2>1, <2>2 DEF StreamsOK, ServedInOrder
<1> QED BY <1>1, Invariance, PTL

-----------------------------------------------------------------------------
\* Answers.  While no call has timed out, what is on the way to a client answers the call
\* that waits or is a parse error, after which nothing comes; the client counts the
\* brackets of the answer right, so that it takes all of it; and a request that gets an
\* answer is handled before the next one is sent.

\* The thread of c has handled request n or a later one.
Past(c, n) == \E k \in DOMAIN served[c] : served[c][k].n >= n

DownOK(c) ==
    /\ \A i \in DOMAIN down[c] :
          IF down[c][i].msg.to = 0 THEN shut[c] # "no"
          ELSE /\ down[c][i].msg.to = Len(sent[c]) /\ cPc[c] = "recv"
               /\ Past(c, Len(sent[c]))
    /\ \A i, j \in DOMAIN down[c] :
          i < j /\ down[c][j].msg.to # 0 => down[c][i].msg.to # 0 /\ down[c][i].part # Pieces

\* What the client reads is not the end of what comes, or the brackets are counted right.
Awaited(c) == shut[c] = "no" \/ \E i \in DOMAIN down[c] : down[c][i].msg.to # 0

ReadingOK(c) ==
    cPc[c] = "recv" =>
        /\ Awaited(c) => cDepth[c] = Mid(down[c])
        /\ \/ Len(cFull[c]) < Pieces
           \/ LastOf(cFull[c]).msg.to \in {0, Len(sent[c])}

PastOK(c) ==
    shut[c] = "no" => \A n \in DOMAIN sent[c] :
        sent[c][n] = "answered" /\ (n < Len(sent[c]) \/ cPc[c] # "recv") => Past(c, n)

GivenOK(c) ==
    \A i \in DOMAIN answers[c] : answers[c][i].to \in {answers[c][i].call, 0, -1}

AnswersOK(c) ==
    /\ DownOK(c) /\ ReadingOK(c) /\ PastOK(c) /\ GivenOK(c)
    /\ rest[c] # <<>> => shut[c] # "no"

AInv == \A c \in Clients \ late : AnswersOK(c)

\* The steps that leave the client's end alone: the thread gets on, or closes.
LEMMA AnswersKeep ==
    ASSUME NEW c, AnswersOK(c), SameClient(c), down'[c] = down[c],
           shut'[c] = shut[c] \/ shut'[c] # "no",
           \A n : Past(c, n) => Past(c, n)'
    PROVE  AnswersOK(c)'
<1>1. DownOK(c)'
  BY DEF AnswersOK, DownOK, SameClient
<1>2. ReadingOK(c)'
  BY DEF AnswersOK, ReadingOK, Awaited, SameClient
<1>3. PastOK(c)'
  BY DEF AnswersOK, PastOK, SameClient
<1>4. GivenOK(c)' /\ (rest[c] # <<>> => shut[c] # "no")'
  BY DEF AnswersOK, GivenOK, SameClient
<1> QED BY <1>1, <1>2, <1>3, <1>4 DEF AnswersOK

LEMMA OthersAnswers ==
    ASSUME AInv, NEW c \in Clients, \A d \in Clients \ {c} : Same(d),
           c \notin late' => AnswersOK(c)'
    PROVE  AInv'
<1>1. ASSUME NEW d \in Clients, d \notin late', d # c PROVE AnswersOK(d)'
  <2>1. Same(d) /\ AnswersOK(d)
    BY <1>1 DEF AInv, Same
  <2>2. SameClient(d) /\ \A n : Past(d, n) => Past(d, n)'
    BY <2>1 DEF Same, SameClient, Past
  <2> QED BY <2>1, <2>2, AnswersKeep DEF Same
<1> QED BY <1>1 DEF AInv

LEMMA ParseErrorAnswers ==
    ASSUME IInv, NEW c \in Clients, AnswersOK(c), ParseError(c)
    PROVE  AnswersOK(c)'
<1> USE DEF client, history
<1>1. /\ Shut(c) /\ Send(c, Response(0)) /\ SameClient(c) /\ served' = served
  BY DEF ParseError, SameClient
<1>2. shut'[c] # "no"
  BY <1>1, ShutIs DEF IInv
<1>3. 0 \in 0 .. Len(sent[c])
  BY Typed
<1>4. /\ Mid(down'[c]) = Mid(down[c])
      /\ DOMAIN down'[c] = 1 .. Len(down[c]) + Pieces
      /\ DOMAIN down[c] = 1 .. Len(down[c]) /\ Len(down[c]) \in Nat
      /\ \A i \in 1 .. Len(down[c]) : down'[c][i] = down[c][i]
      /\ \A i \in 1 .. Pieces : /\ down'[c][Len(down[c]) + i].msg = Response(0)
                                /\ down'[c][Len(down[c]) + i].part = i
  BY <1>1, <1>3, SendIs
<1>5. ASSUME NEW i \in DOMAIN down'[c], down'[c][i].msg.to # 0
      PROVE  i \in DOMAIN down[c] /\ down'[c][i] = down[c][i]
  <2>1. CASE i \in 1 .. Len(down[c])
    BY <1>4, <2>1
  <2>2. CASE i \notin 1 .. Len(down[c])
    <3>1. i - Len(down[c]) \in 1 .. Pieces /\ Len(down[c]) + (i - Len(down[c])) = i
      BY <1>4, <2>2, Sizes, Beyond
    <3>2. down'[c][i].msg = Response(0)
      BY <1>4, <3>1
    <3> QED BY <1>5, <3>2 DEF Response
  <2> QED BY <2>1, <2>2
<1>6. ASSUME NEW i \in DOMAIN down'[c], NEW j \in DOMAIN down[c], i < j
      PROVE  i \in DOMAIN down[c] /\ down'[c][i] = down[c][i]
  BY <1>4, <1>6, Sizes
<1>7. sent'[c] = sent[c] /\ \A n : Past(c, n)' <=> Past(c, n)
  BY <1>1 DEF SameClient, Past
<1>8. DownOK(c)'
  <2>1. ASSUME NEW i \in DOMAIN down'[c], down'[c][i].msg.to # 0
        PROVE  /\ down'[c][i].msg.to = Len(sent[c]) /\ cPc[c] = "recv"
               /\ Past(c, Len(sent[c]))
    BY <1>5, <2>1 DEF AnswersOK, DownOK
  <2>2. ASSUME NEW i \in DOMAIN down'[c], NEW j \in DOMAIN down'[c],
               i < j, down'[c][j].msg.to # 0
        PROVE  down'[c][i].msg.to # 0 /\ down'[c][i].part # Pieces
    <3>1. j \in DOMAIN down[c] /\ down'[c][j] = down[c][j]
      BY <1>5, <2>2
    <3>2. i \in DOMAIN down[c] /\ down'[c][i] = down[c][i]
      BY <1>6, <2>2, <3>1
    <3> QED BY <2>2, <3>1, <3>2 DEF AnswersOK, DownOK
  <2> QED BY <1>1, <1>2, <1>7, <2>1, <2>2 DEF DownOK, SameClient
<1>9. ReadingOK(c)'
  <2>1. Awaited(c)' => Awaited(c)
    BY <1>2, <1>5 DEF Awaited
  <2> QED BY <1>1, <1>4, <2>1 DEF AnswersOK, ReadingOK, SameClient
<1>10. PastOK(c)' /\ GivenOK(c)' /\ (rest[c] # <<>> => shut[c] # "no")'
  BY <1>1, <1>2 DEF AnswersOK, PastOK, GivenOK, SameClient
<1> QED BY <1>8, <1>9, <1>10 DEF AnswersOK

\* The answer that is sent is to the call that waits, and nothing else is on the way.
LEMMA RequestAnswers ==
    ASSUME IInv, NEW c \in Clients, AnswersOK(c), HandleRequest(c)
    PROVE  AnswersOK(c)'
<1> USE DEF client, history
<1> DEFINE m == sFull[c][1].msg
<1>1. Handled(c, m) /\ SameClient(c) /\ sPc[c] = "handle" /\ sent' = sent
  BY DEF HandleRequest, SameClient
<1>2. /\ m.from = c /\ m.n \in 1 .. Len(sent[c]) /\ IsNew(c, m.n)
  BY Requested DEF HandleRequest
<1> HIDE DEF m
<1>3. /\ ConnOK(c) /\ Len(served[c]) \in Nat /\ DOMAIN served[c] = 1 .. Len(served[c])
      /\ Len(sent[c]) \in Nat /\ DOMAIN sent[c] = 1 .. Len(sent[c])
      /\ Pieces \in Nat /\ 2 < Pieces /\ down[c] \in Seq(Piece)
      /\ served[c] \in Seq([from : Clients, n : Nat])
  BY Typed
<1>4. \A n : (Past(c, n) \/ n = m.n) => Past(c, n)'
  <2>1. served'[c] = Append(served[c], m)
    BY <1>1 DEF Handled, IInv, Types, ThreadTypes
  <2>2. /\ DOMAIN served'[c] = 1 .. Len(served[c]) + 1
        /\ \A k \in 1 .. Len(served[c]) : served'[c][k] = served[c][k]
        /\ served'[c][Len(served[c]) + 1] = m
    BY <1>3, <2>1
  <2>3. \A k \in DOMAIN served[c] : k \in DOMAIN served'[c] /\ served'[c][k] = served[c][k]
    BY <1>3, <2>2
  <2>4. Len(served[c]) + 1 \in DOMAIN served'[c] /\ m.n >= m.n
    BY <1>2, <1>3, <2>2
  <2> QED BY <2>2, <2>3, <2>4 DEF Past
<1>5. CASE UNCHANGED down
  <2>1. shut'[c] = shut[c] \/ shut'[c] # "no"
    BY <1>1, ShutIs DEF Handled, IInv
  <2> QED BY <1>1, <1>4, <1>5, <2>1, AnswersKeep
<1>6. CASE sent[c][m.n] = "answered" /\ Send(c, Response(m.n)) /\ UNCHANGED shut
  <2>1. shut[c] = "no"
    BY <1>1, <1>3 DEF ConnOK, ThreadOK
  <2>2. ~Past(c, m.n)
    <3>1. ASSUME NEW k \in DOMAIN served[c], served[c][k].n < m.n, served[c][k].n >= m.n
          PROVE  FALSE
      <4>1. served[c][k] \in [from : Clients, n : Nat]
        BY <1>3, ElementOfSeq
      <4> QED BY <1>2, <3>1, <4>1
    <3> QED BY <1>2, <3>1 DEF Past, IsNew
  <2>3. m.n = Len(sent[c]) /\ cPc[c] = "recv" /\ m.n # 0 /\ m.n \in 0 .. Len(sent[c])
    <3>1. ~(m.n < Len(sent[c])) /\ cPc[c] = "recv"
      BY <1>2, <1>3, <1>6, <2>1, <2>2 DEF AnswersOK, PastOK
    <3> QED BY <1>2, <1>3, <3>1
  <2>4. down[c] = <<>>
    <3>1. \A i \in DOMAIN down[c] : FALSE
      BY <2>1, <2>2, <2>3 DEF AnswersOK, DownOK
    <3>2. DOMAIN down[c] = 1 .. Len(down[c]) /\ Len(down[c]) \in Nat
      BY <1>3, Pieced
    <3>3. Len(down[c]) = 0
      BY <3>1, <3>2
    <3> QED BY <1>3, <3>3, Pieced
  <2>5. /\ Mid(down'[c]) = Mid(down[c])
        /\ DOMAIN down'[c] = 1 .. Len(down[c]) + Pieces
        /\ \A i \in 1 .. Pieces : /\ down'[c][Len(down[c]) + i].msg = Response(m.n)
                                  /\ down'[c][Len(down[c]) + i].part = i
    BY <1>1, <1>6, <2>3, SendIs
  <2>6. /\ DOMAIN down'[c] = 1 .. Pieces
        /\ \A i \in 1 .. Pieces : down'[c][i].msg.to = m.n /\ down'[c][i].part = i
    <3>1. Len(down[c]) = 0
      BY <1>3, <2>4, Pieced
    <3>2. 0 + Pieces = Pieces /\ \A i \in 1 .. Pieces : 0 + i = i
      BY <1>3
    <3> QED BY <2>5, <3>1, <3>2 DEF Response
  <2>7. DownOK(c)'
    <3>1. \A i, j \in 1 .. Pieces : i < j => i # Pieces
      BY <1>3
    <3>2. Past(c, Len(sent[c]))'
      BY <1>1, <1>4, <2>3
    <3> QED BY <1>1, <2>3, <2>6, <3>1, <3>2 DEF DownOK, SameClient
  <2>8. ReadingOK(c)'
    <3>1. cDepth[c] = Mid(down[c])
      BY <2>1, <2>3 DEF AnswersOK, ReadingOK, Awaited
    <3> QED BY <1>1, <2>5, <3>1 DEF AnswersOK, ReadingOK, SameClient
  <2>9. PastOK(c)'
    BY <1>1, <1>4, <1>6 DEF AnswersOK, PastOK, SameClient
  <2>10. GivenOK(c)' /\ (rest[c] # <<>> => shut[c] # "no")'
    BY <1>1, <1>6 DEF AnswersOK, GivenOK, SameClient
  <2> QED BY <2>7, <2>8, <2>9, <2>10 DEF AnswersOK
<1> QED BY <1>1, <1>2, <1>5, <1>6 DEF Handled

LEMMA SendAnswers ==
    ASSUME IInv, NEW c \in Clients, NEW kind \in Plans[c], AnswersOK(c), ClientSend(c, kind)
    PROVE  AnswersOK(c)'
<1> USE DEF server, history
<1> DEFINE L == Len(sent[c])
<1>1. /\ cPc[c] = "idle"
      /\ sent' = [sent EXCEPT ![c] = Append(@, kind)]
      /\ UNCHANGED <<down, rest, shut, served, answers>>
  BY DEF ClientSend
<1>2. IF shut[c] = "reset"
      THEN cPc' = [cPc EXCEPT ![c] = "failed"] /\ UNCHANGED <<cFull, cDepth>>
      ELSE IF kind \in Calls
      THEN /\ cPc' = [cPc EXCEPT ![c] = "recv"]
           /\ cFull' = [cFull EXCEPT ![c] = rest[c]]
           /\ cDepth' = [cDepth EXCEPT ![c] = 0]
      ELSE UNCHANGED <<cPc, cFull, cDepth>>
  BY DEF ClientSend
<1>3. /\ L \in Nat /\ DOMAIN sent[c] = 1 .. L /\ sent[c] \in Seq(Kinds) /\ ConnOK(c)
      /\ down[c] \in Seq(Piece)
  BY Typed
<1>4. /\ sent'[c] = Append(sent[c], kind) /\ Len(sent'[c]) = L + 1
      /\ DOMAIN sent'[c] = 1 .. L + 1
      /\ \A n \in 1 .. L : sent'[c][n] = sent[c][n]
      /\ sent'[c][L + 1] = kind
  <2>1. sent'[c] = Append(sent[c], kind)
    BY <1>1 DEF IInv, Types, SentTypes
  <2> QED BY <2>1, Longer DEF IInv
<1>5. cPc'[c] = "recv" => kind \in Calls /\ cFull'[c] = rest[c] /\ cDepth'[c] = 0
  BY <1>1, <1>2 DEF IInv, Types, ClientTypes
<1>6. kind \in Calls /\ shut[c] = "no" => cPc'[c] = "recv"
  BY <1>2 DEF IInv, Types, ClientTypes
<1>7. \A i \in DOMAIN down[c] : down[c][i].msg.to = 0 /\ shut[c] # "no"
  BY <1>1 DEF AnswersOK, DownOK
<1> HIDE DEF L
<1>8. DownOK(c)'
  BY <1>1, <1>7 DEF DownOK
<1>9. ReadingOK(c)'
  <2>1. ASSUME cPc'[c] = "recv", Awaited(c)' PROVE cDepth'[c] = Mid(down'[c])
    <3>1. shut[c] = "no"
      BY <1>1, <1>7, <2>1 DEF Awaited
    <3>2. \A i \in DOMAIN down[c] : FALSE
      BY <1>7, <3>1
    <3>3. down[c] = <<>> /\ Mid(<<>>) = 0
      BY <1>3, <3>2, Pieced DEF Mid
    <3> QED BY <1>1, <1>5, <2>1, <3>3
  <2>2. Len(rest[c]) < Pieces
    BY <1>3 DEF ConnOK, ClientOK
  <2> QED BY <1>5, <2>1, <2>2 DEF ReadingOK
<1>10. PastOK(c)'
  <2> SUFFICES ASSUME shut[c] = "no", NEW n \in 1 .. L + 1, sent'[c][n] = "answered",
                      n < L + 1 \/ cPc'[c] # "recv"
               PROVE  Past(c, n)
    BY <1>1, <1>4 DEF PastOK, Past
  <2>1. CASE n \in 1 .. L
    BY <1>1, <1>3, <1>4, <2>1 DEF AnswersOK, PastOK
  <2>2. CASE n = L + 1
    BY <1>3, <1>4, <1>6, <2>2 DEF Calls
  <2> QED BY <1>3, <2>1, <2>2
<1>11. GivenOK(c)' /\ (rest[c] # <<>> => shut[c] # "no")'
  BY <1>1 DEF AnswersOK, GivenOK
<1> QED BY <1>8, <1>9, <1>10, <1>11 DEF AnswersOK

\* A call that returns got what it may.
LEMMA ReturnAnswers ==
    ASSUME IInv, NEW c \in Clients, NEW text \in Seq(Piece), Told(c, text),
           Return(c, text), cPc[c] = "recv", GivenOK(c),
           Len(text) < Pieces \/ LastOf(text).msg.to \in {0, Len(sent[c])}
    PROVE  GivenOK(c)'
<1>1. /\ DOMAIN answers'[c] = 1 .. Len(answers[c]) + 1
      /\ \A i \in 1 .. Len(answers[c]) : answers'[c][i] = answers[c][i]
      /\ answers'[c][Len(answers[c]) + 1] = Given(c, text)
  BY ReturnIs
<1>2. Len(answers[c]) \in Nat /\ DOMAIN answers[c] = 1 .. Len(answers[c])
  BY Typed
<1>3. Given(c, text).to \in {Given(c, text).call, 0, -1}
  <2>1. CASE IsMessage(text)
    <3>1. ~(Len(text) < Pieces) /\ LastOf(text).msg = text[1].msg
      BY <2>1, MessageIs, Sizes DEF LastOf
    <3> QED BY <2>1, <3>1 DEF Given
  <2>2. CASE ~IsMessage(text)
    BY <2>2 DEF Given
  <2> QED BY <2>1, <2>2
<1>4. \A n \in Nat : \A i \in 1 .. n + 1 : i = n + 1 \/ i \in 1 .. n
  OBVIOUS
<1>5. ASSUME NEW i \in DOMAIN answers'[c]
      PROVE  answers'[c][i].to \in {answers'[c][i].call, 0, -1}
  <2>1. CASE i = Len(answers[c]) + 1
    BY <1>1, <1>3, <2>1
  <2>2. CASE i \in 1 .. Len(answers[c])
    BY <1>1, <1>2, <2>2 DEF GivenOK
  <2> QED BY <1>1, <1>2, <1>4, <2>1, <2>2
<1> QED BY <1>5 DEF GivenOK

\* A call takes all of its answer, as its brackets are counted right: when it returns,
\* what is left is what comes after the connection was closed.
LEMMA RecvAnswers ==
    ASSUME IInv, NEW c \in Clients, AnswersOK(c), ClientRecv(c)
    PROVE  AnswersOK(c)'
<1> USE DEF server
<1>1. PICK chunk \in Chunks(down[c]) :
          LET cut == Cut(chunk, cDepth[c])
              behind == Behind(chunk, cut)
              depth == Depth(chunk, cDepth[c], cut)
              text == cFull[c] \o SubSeq(chunk, 1, cut)
          IN /\ down' = [down EXCEPT ![c] = Behind(@, Len(chunk))]
             /\ rest' = [rest EXCEPT ![c] = behind]
             /\ IF behind # <<>> \/ depth = 0
                THEN /\ Return(c, text)
                     /\ cFull' = [cFull EXCEPT ![c] = <<>>]
                     /\ cDepth' = [cDepth EXCEPT ![c] = 0]
                ELSE /\ cFull' = [cFull EXCEPT ![c] = text]
                     /\ cDepth' = [cDepth EXCEPT ![c] = depth]
                     /\ UNCHANGED <<answers, cPc>>
  BY DEF ClientRecv
<1> DEFINE cut == Cut(chunk, cDepth[c])
           behind == Behind(chunk, cut)
           depth == Depth(chunk, cDepth[c], cut)
           text == cFull[c] \o SubSeq(chunk, 1, cut)
           L == Len(chunk)
           new == Behind(down[c], L)
<1>2. /\ sent' = sent /\ shut' = shut /\ served' = served /\ cPc[c] = "recv"
  BY DEF ClientRecv
<1>3. /\ down[c] \in Seq(Piece) /\ DOMAIN down[c] = 1 .. Len(down[c]) /\ Len(down[c]) \in Nat
  BY Typed, Pieced
<1>4. /\ L \in 1 .. Len(down[c]) /\ cut \in 1 .. L /\ cut \in DOMAIN down[c]
      /\ behind = <<>> <=> cut = L
      /\ depth = cDepth[c] - Mid(down[c]) + Open(down[c][cut])
      /\ behind # <<>> => depth = 0
      /\ text \in Seq(Piece) /\ LastOf(text) = down[c][cut]
      /\ Mid(new) = Open(down[c][L]) /\ Told(c, text)
      /\ \A i \in DOMAIN new : /\ L + i \in DOMAIN down[c] /\ new[i] = down[c][L + i]
                               /\ i \in Nat /\ cut < L + i
  <2>1. Received(down[c], cFull[c], cDepth[c], chunk) /\ Told(c, text)
    BY <1>2, ClientRecvIs
  <2> QED BY <2>1 DEF Received, Taken, LastOf
<1>5. /\ down'[c] = new /\ rest'[c] = behind
      /\ \/ /\ behind # <<>> \/ depth = 0
            /\ Return(c, text) /\ cPc'[c] = "idle"
         \/ /\ behind = <<>> /\ cFull'[c] = text /\ cDepth'[c] = depth
            /\ UNCHANGED <<answers, cPc>>
  BY <1>1 DEF Return, IInv, Types, WireTypes, ClientTypes
<1>6. cDepth[c] \in Int /\ Mid(down[c]) \in Int
  BY Typed, MidIs
<1> HIDE DEF cut, behind, depth, text, L, new
<1>7. Past(c, Len(sent[c]))' <=> Past(c, Len(sent[c]))
  BY <1>2 DEF Past
\* What waits behind the end of the answer is no answer.
<1>8. ASSUME NEW j \in DOMAIN down[c], down[c][j].msg.to # 0, cut < j
      PROVE  depth # 0
  <2>1. down[c][cut].part # Pieces
    BY <1>4, <1>8 DEF AnswersOK, DownOK
  <2>2. cDepth[c] = Mid(down[c])
    BY <1>2, <1>8 DEF AnswersOK, ReadingOK, Awaited
  <2> QED BY <1>4, <1>6, <2>1, <2>2 DEF Open
<1>9. ASSUME NEW j \in DOMAIN down[c], down[c][j].msg.to # 0, cut < j
      PROVE  cPc'[c] = "recv"
  BY <1>2, <1>4, <1>5, <1>8, <1>9
<1>10. DownOK(c)'
  <2>1. ASSUME NEW i \in DOMAIN new
        PROVE  IF new[i].msg.to = 0 THEN shut[c] # "no"
               ELSE /\ new[i].msg.to = Len(sent[c]) /\ cPc'[c] = "recv"
                    /\ Past(c, Len(sent[c]))
    BY <1>4, <1>9 DEF AnswersOK, DownOK
  <2>2. ASSUME NEW i \in DOMAIN new, NEW j \in DOMAIN new, i < j, new[j].msg.to # 0
        PROVE  new[i].msg.to # 0 /\ new[i].part # Pieces
    <3>1. L + i < L + j
      BY <1>3, <1>4, <2>2
    <3> QED BY <1>4, <2>2, <3>1 DEF AnswersOK, DownOK
  <2> QED BY <1>2, <1>5, <1>7, <2>1, <2>2 DEF DownOK
<1>11. down[c][cut].msg.to \in {0, Len(sent[c])}
  BY <1>4 DEF AnswersOK, DownOK
<1>12. ReadingOK(c)'
  <2> SUFFICES ASSUME cPc'[c] = "recv"
               PROVE  /\ Awaited(c)' => cDepth'[c] = Mid(new)
                      /\ Len(cFull'[c]) < Pieces \/ LastOf(cFull'[c]).msg.to \in {0, Len(sent[c])}
    BY <1>2, <1>5 DEF ReadingOK
  <2>1. behind = <<>> /\ cFull'[c] = text /\ cDepth'[c] = depth
    BY <1>5
  <2>2. ASSUME Awaited(c)' PROVE cDepth'[c] = Mid(new)
    <3>1. Awaited(c)
      BY <1>2, <1>4, <1>5, <2>2 DEF Awaited
    <3>2. cDepth[c] = Mid(down[c])
      BY <1>2, <3>1 DEF AnswersOK, ReadingOK
    <3>3. Open(down[c][L]) \in Int
      BY DEF Open
    <3> QED BY <1>4, <1>6, <2>1, <3>2, <3>3
  <2> QED BY <1>4, <1>11, <2>1, <2>2
<1>13. PastOK(c)'
  <2> SUFFICES ASSUME shut[c] = "no", NEW n \in DOMAIN sent[c], sent[c][n] = "answered",
                      n < Len(sent[c]) \/ cPc'[c] # "recv"
               PROVE  Past(c, n)
    BY <1>2 DEF PastOK, Past
  <2>1. Past(c, Len(sent[c]))
    BY <1>4 DEF AnswersOK, DownOK
  <2>2. n < Len(sent[c]) \/ n = Len(sent[c])
    BY Typed
  <2> QED BY <2>1, <2>2 DEF AnswersOK, PastOK
<1>14. GivenOK(c)'
  <2>1. CASE Return(c, text)
    BY <1>2, <1>4, <1>11, <2>1, ReturnAnswers DEF AnswersOK
  <2>2. CASE UNCHANGED <<answers, cPc>>
    BY <2>2 DEF AnswersOK, GivenOK
  <2> QED BY <1>5, <2>1, <2>2
<1>15. (rest[c] # <<>> => shut[c] # "no")'
  <2> SUFFICES ASSUME behind # <<>>, shut[c] = "no" PROVE FALSE
    BY <1>2, <1>5
  <2>1. L \in DOMAIN down[c] /\ cut < L
    BY <1>3, <1>4
  <2>2. down[c][L].msg.to # 0
    BY <2>1 DEF AnswersOK, DownOK
  <2> QED BY <1>4, <1>8, <2>1, <2>2
<1> QED BY <1>10, <1>12, <1>13, <1>14, <1>15 DEF AnswersOK

LEMMA EofAnswers ==
    ASSUME IInv, NEW c \in Clients, AnswersOK(c), ClientEof(c)
    PROVE  AnswersOK(c)'
<1> USE DEF server
<1>1. /\ sent' = sent /\ down' = down /\ cFull' = cFull /\ cDepth' = cDepth
      /\ shut' = shut /\ served' = served /\ cPc[c] = "recv" /\ down[c] = <<>>
      /\ shut[c] # "no"
      /\ \/ Return(c, cFull[c])
         \/ answers' = answers
  BY DEF ClientEof
<1>2. cPc'[c] \in {"recv", "idle", "failed"}
  BY DEF ClientEof, Return, IInv, Types, ClientTypes
<1>3. DOMAIN <<>> = {}
  OBVIOUS
<1>4. DownOK(c)' /\ ReadingOK(c)' /\ PastOK(c)' /\ (rest[c] # <<>> => shut[c] # "no")'
  BY <1>1, <1>3 DEF AnswersOK, DownOK, ReadingOK, PastOK, Awaited
<1>5. GivenOK(c)'
  <2>1. CASE Return(c, cFull[c])
    <3>1. cFull[c] \in Seq(Piece) /\ Told(c, cFull[c])
      BY Typed DEF ConnOK, ClientOK
    <3>2. Len(cFull[c]) < Pieces \/ LastOf(cFull[c]).msg.to \in {0, Len(sent[c])}
      BY <1>1 DEF AnswersOK, ReadingOK
    <3> QED BY <1>1, <2>1, <3>1, <3>2, ReturnAnswers DEF AnswersOK
  <2>2. CASE answers' = answers
    BY <2>2 DEF AnswersOK, GivenOK
  <2> QED BY <1>1, <2>1, <2>2
<1> QED BY <1>4, <1>5 DEF AnswersOK

LEMMA AnswersNext == IInv /\ AInv /\ [Next]_vars => AInv'
<1> SUFFICES ASSUME IInv, AInv, [Next]_vars PROVE AInv'
  OBVIOUS
<1>1. CASE UNCHANGED vars
  <2>1. \A c \in Clients : Same(c)
    BY <1>1 DEF vars, server, client, history, Same
  <2>2. ASSUME NEW c \in Clients, c \notin late' PROVE AnswersOK(c)'
    <3>1. SameClient(c) /\ AnswersOK(c) /\ \A n : Past(c, n) => Past(c, n)'
      BY <2>1, <2>2 DEF Same, SameClient, AInv, Past
    <3> QED BY <2>1, <3>1, AnswersKeep DEF Same
  <2> QED BY <2>2 DEF AInv
<1>2. ASSUME NEW c \in Clients, StepOf(c), c \notin late' PROVE AnswersOK(c)'
  <2>1. AnswersOK(c)
    <3>1. c \notin late
      BY <1>2 DEF StepOf, Thread, Receive, Start, ServerRecv, ServerEof, ServerReset,
                  ParseError, HandleRequest, ServerTimeout, ClientSend, ClientRecv, ClientEof,
                  ClientTimeout, ClientClose, history
    <3> QED BY <3>1 DEF AInv
  <2>2. CASE Start(c) \/ ServerRecv(c) \/ ServerEof(c) \/ ServerTimeout(c) \/ ClientClose(c)
    <3>1. /\ SameClient(c) /\ down'[c] = down[c] /\ shut'[c] = shut[c]
          /\ \A n : Past(c, n) => Past(c, n)'
      BY <2>2 DEF Start, ServerRecv, ServerEof, ServerTimeout, ClientClose, client, server,
                  history, SameClient, Past
    <3> QED BY <2>1, <3>1, AnswersKeep
  <2>3. CASE ServerReset(c)
    <3>1. /\ SameClient(c) /\ down'[c] = down[c] /\ Shut(c)
          /\ \A n : Past(c, n) => Past(c, n)'
      BY <2>3 DEF ServerReset, client, history, SameClient, Past
    <3>2. shut'[c] # "no"
      BY <3>1, ShutIs DEF IInv
    <3> QED BY <2>1, <3>1, <3>2, AnswersKeep
  <2>4. CASE ParseError(c) \/ HandleRequest(c) \/ ClientRecv(c) \/ ClientEof(c)
    BY <2>1, <2>4, ParseErrorAnswers, RequestAnswers, RecvAnswers, EofAnswers
  <2>5. ASSUME NEW kind \in Plans[c], ClientSend(c, kind) PROVE AnswersOK(c)'
    BY <2>1, <2>5, SendAnswers
  <2>6. ~ClientTimeout(c)
    BY <1>2 DEF ClientTimeout
  <2> QED BY <1>2, <2>2, <2>3, <2>4, <2>5, <2>6 DEF StepOf, Thread, Receive
<1>3. ASSUME NEW c \in Clients, StepOf(c) PROVE AInv'
  BY <1>2, <1>3, Local, OthersAnswers
<1> QED BY <1>1, <1>3 DEF Next, StepOf

LEMMA AnswersInit == Init => AInv
<1> SUFFICES ASSUME Init, NEW c \in Clients PROVE AnswersOK(c)
  BY DEF AInv
<1>1. /\ down[c] = <<>> /\ rest[c] = <<>> /\ cPc[c] = "idle" /\ sent[c] = <<>>
      /\ answers[c] = <<>>
  BY DEF Init
<1>2. DOMAIN <<>> = {}
  OBVIOUS
<1> QED BY <1>1, <1>2 DEF AnswersOK, DownOK, ReadingOK, PastOK, GivenOK

\* The ids of responses are not compared: still, as long as no call on a connection timed
\* out, each of its calls gets the answer to itself, a parse error or an exception.
THEOREM AnswersBelong == Spec => []AnswerBelongs
<1>1. IInv /\ AInv => AnswerBelongs
  <2> SUFFICES ASSUME IInv, AInv, NEW c \in Clients \ late, NEW i \in 1 .. Len(answers[c])
               PROVE  answers[c][i].to \in {answers[c][i].call, 0, -1}
    BY DEF AnswerBelongs
  <2>1. GivenOK(c) /\ DOMAIN answers[c] = 1 .. Len(answers[c])
    BY Typed DEF AInv, AnswersOK
  <2> QED BY <2>1 DEF GivenOK
<1> QED BY <1>1, AnswersInit, AnswersNext, Invariance, PTL DEF Spec

-----------------------------------------------------------------------------
\* Independence.  Until a thread reads beyond a request or somebody's recv times out,
\* each side has read exactly what is missing at the head of the stream to a whole
\* message, and counts its brackets right.

\* A text is the first n pieces of a message.
Starts(text, m, n) ==
    Len(text) = n /\ \A i \in 1 .. n : text[i].msg = m /\ text[i].part = i

\* A text is what was read of the message whose rest is at the head of the stream.
HasRead(text, s) ==
    IF s = <<>> THEN text = <<>> ELSE Starts(text, s[1].msg, s[1].part - 1)

LEMMA Stretch ==
    ASSUME NEW s \in Seq(Piece), InARow(s), NEW n \in 1 .. Len(s),
           \A i \in 1 .. n - 1 : s[i].part # Pieces
    PROVE  \A i \in 1 .. n : s[i].msg = s[1].msg /\ s[i].part = s[1].part + (i - 1)
<1> DEFINE Right(i) == s[i].msg = s[1].msg /\ s[i].part = s[1].part + (i - 1)
           T == {i \in 1 .. n : ~Right(i)}
<1>1. Len(s) \in Nat /\ n \in Nat /\ \A i \in 1 .. Len(s) : s[i].part \in 1 .. Pieces
  BY Pieced
<1>2. Right(1)
  <2>1. 1 \in 1 .. Len(s)
    BY <1>1
  <2>2. s[1].part \in Int
    BY <1>1, <2>1
  <2> QED BY <2>2
<1>3. ASSUME NEW i \in 1 .. n - 1, Right(i) PROVE Right(i + 1)
  <2>1. i \in 1 .. Len(s) - 1 /\ i \in Nat /\ 1 \in 1 .. Len(s)
    BY <1>1
  <2>2. Follows(s[i], s[i + 1]) /\ s[i].part # Pieces
    BY <2>1 DEF InARow
  <2>3. s[i + 1].msg = s[i].msg /\ s[i + 1].part = s[i].part + 1
    BY <2>2 DEF Follows
  <2>4. s[1].part \in Int
    BY <1>1, <2>1
  <2>5. \A p, j \in Int : (p + (j - 1)) + 1 = p + ((j + 1) - 1)
    OBVIOUS
  <2> QED BY <1>3, <2>1, <2>3, <2>4, <2>5
<1> HIDE DEF Right
<1>4. T = {}
  <2> SUFFICES ASSUME T # {} PROVE FALSE
    OBVIOUS
  <2>1. PICK x \in T : \A y \in T : x <= y
    <3>1. T \in SUBSET Nat
      OBVIOUS
    <3> QED BY <3>1, Least
  <2>2. x \in 1 .. n /\ ~Right(x) /\ x # 1
    BY <1>2
  <2>3. x - 1 \in 1 .. n - 1 /\ x - 1 \in 1 .. n /\ (x - 1) + 1 = x /\ ~(x <= x - 1)
    BY <1>1, <2>2
  <2>4. Right(x - 1)
    BY <2>1, <2>3
  <2>5. Right((x - 1) + 1)
    BY <1>3, <2>3, <2>4
  <2> QED BY <2>2, <2>3, <2>5
<1> QED BY <1>4 DEF Right

\* What was read grows by the pieces up to the end of the message.
LEMMA Grows ==
    ASSUME NEW s \in Seq(Piece), InARow(s), NEW full \in Seq(Piece), HasRead(full, s),
           NEW n \in 1 .. Len(s), \A i \in 1 .. n - 1 : s[i].part # Pieces,
           NEW text \in Seq(Piece), Len(text) = Len(full) + n,
           \A i \in 1 .. Len(full) : text[i] = full[i],
           \A i \in 1 .. n : text[Len(full) + i] = s[i]
    PROVE  Starts(text, s[n].msg, s[n].part)
<1>1. /\ Len(s) \in Nat /\ s # <<>> /\ 1 \in 1 .. Len(s) /\ n \in Nat /\ n \in 1 .. n
      /\ Len(full) \in Nat
  BY Pieced
<1>2. s[1].part \in 1 .. Pieces /\ Pieces \in Nat
  BY <1>1, Pieced, Sizes
<1>3. PICK p \in Nat : s[1].part = p + 1 /\ p = s[1].part - 1
  <2>1. \A max \in Nat : \A x \in 1 .. max : \E p \in Nat : x = p + 1 /\ p = x - 1
    <3>1. \A max \in Nat : \A x \in 1 .. max : x - 1 \in Nat /\ x = (x - 1) + 1
      OBVIOUS
    <3> QED BY <3>1
  <2> QED BY <1>2, <2>1
<1>4. Len(full) = p /\ \A i \in 1 .. p : full[i].msg = s[1].msg /\ full[i].part = i
  BY <1>1, <1>3 DEF HasRead, Starts
<1>5. \A i \in 1 .. n : s[i].msg = s[1].msg /\ s[i].part = s[1].part + (i - 1)
  BY Stretch
<1>6. s[n].msg = s[1].msg /\ s[n].part = p + n
  <2>1. s[n].msg = s[1].msg /\ s[n].part = s[1].part + (n - 1) /\ s[1].part = p + 1
    BY <1>1, <1>2, <1>3, <1>5
  <2>2. (p + 1) + (n - 1) = p + n
    BY <1>1
  <2> QED BY <2>1, <2>2
<1>7. ASSUME NEW i \in 1 .. p + n PROVE text[i].msg = s[1].msg /\ text[i].part = i
  <2>1. CASE i \in 1 .. p
    BY <1>4, <2>1
  <2>2. CASE i \notin 1 .. p
    <3>1. i - p \in 1 .. n /\ p + (i - p) = i
      BY <1>1, <2>2, Beyond
    <3>2. text[i] = s[i - p]
      BY <1>4, <3>1
    <3>3. s[i - p].msg = s[1].msg /\ s[i - p].part = s[1].part + ((i - p) - 1)
      BY <1>5, <3>1
    <3>4. s[1].part + ((i - p) - 1) = i
      <4>1. \A a, b \in Int : (a + 1) + ((b - a) - 1) = b
        OBVIOUS
      <4>2. i \in Int /\ p \in Int
        OBVIOUS
      <4> QED BY <1>3, <4>1, <4>2
    <3> QED BY <3>2, <3>3, <3>4
  <2> QED BY <2>1, <2>2
<1> QED BY <1>4, <1>6, <1>7 DEF Starts

LEMMA IsWhole ==
    ASSUME NEW text \in Seq(Piece), NEW m \in Messages, Starts(text, m, Pieces)
    PROVE  IsMessage(text) /\ text[1].msg = m
<1>1. Pieces \in Nat /\ 2 < Pieces /\ 1 \in 1 .. Pieces
  BY Sizes
<1>2. Len(text) = Pieces /\ \A i \in 1 .. Pieces : text[i].msg = m /\ text[i].part = i
  BY DEF Starts
<1>3. ASSUME NEW i \in 1 .. Pieces PROVE text[i] = InPieces(m)[i]
  <2>1. text[i] \in Piece
    BY <1>2, Pieced
  <2>2. text[i] = [msg |-> m, part |-> i]
    BY <1>2, <2>1 DEF Piece
  <2> QED BY <2>2 DEF InPieces
<1>4. text = InPieces(m)
  <2>1. InPieces(m) \in Seq(Piece) /\ Len(InPieces(m)) = Pieces
    BY WholeIs
  <2> QED BY <1>2, <1>3, <2>1, SeqEqual
<1> QED BY <1>1, <1>2, <1>4 DEF IsMessage

\* A recv that is not late either completes the message or reads on in it.
GetsOn(s, full, d, chunk) ==
    LET cut == Cut(chunk, d)
        text == full \o SubSeq(chunk, 1, cut)
    IN IF s[cut].part = Pieces THEN IsMessage(text) /\ text[1].msg = s[cut].msg
       ELSE cut = Len(chunk) => HasRead(text, Behind(s, Len(chunk)))

LEMMA RecvAlone ==
    ASSUME NEW s \in Seq(Piece), Flows(s), NEW full \in Seq(Piece), HasRead(full, s),
           NEW d \in -1 .. 1, d = Mid(s), NEW chunk \in Chunks(s)
    PROVE  GetsOn(s, full, d, chunk)
<1> DEFINE cut == Cut(chunk, d)
           text == full \o SubSeq(chunk, 1, cut)
<1>1. Counts(d, s)
  BY MidIs DEF Counts
<1>2. /\ cut \in DOMAIN s /\ cut \in 1 .. Len(chunk) /\ Len(chunk) \in 1 .. Len(s)
      /\ \A i \in 1 .. cut - 1 : d - Mid(s) + Open(s[i]) # 0
      /\ text \in Seq(Piece) /\ Len(text) = Len(full) + cut
      /\ \A i \in 1 .. Len(full) : text[i] = full[i]
      /\ \A i \in 1 .. cut : text[Len(full) + i] = s[i]
  <2>1. Received(s, full, d, chunk)
    BY <1>1, RecvIs
  <2> QED BY <2>1 DEF Received, Taken
<1> HIDE DEF cut, text
<1>3. /\ Len(s) \in Nat /\ DOMAIN s = 1 .. Len(s) /\ cut \in 1 .. Len(s) /\ s # <<>>
  BY <1>2, Pieced
<1>4. \A i \in 1 .. cut - 1 : s[i].part # Pieces
  BY <1>2, MidIs DEF Open
<1>5. Starts(text, s[cut].msg, s[cut].part)
  <2>1. InARow(s)
    BY DEF Flows
  <2>2. ASSUME NEW n \in 1 .. Len(s), n = cut PROVE Starts(text, s[n].msg, s[n].part)
    <3>1. /\ \A i \in 1 .. n - 1 : s[i].part # Pieces
          /\ text \in Seq(Piece) /\ Len(text) = Len(full) + n
          /\ \A i \in 1 .. Len(full) : text[i] = full[i]
          /\ \A i \in 1 .. n : text[Len(full) + i] = s[i]
      BY <1>2, <1>4, <2>2
    <3> QED BY ONLY <2>1, <3>1, Grows, HasRead(full, s), s \in Seq(Piece),
                full \in Seq(Piece), n \in 1 .. Len(s)
  <2> QED BY <1>3, <2>2
<1>6. s[cut].msg \in Messages /\ s[cut].part \in 1 .. Pieces /\ Pieces \in Nat
  BY <1>3, Pieced, Sizes
<1>7. ASSUME s[cut].part # Pieces, cut = Len(chunk) PROVE HasRead(text, Behind(s, cut))
  <2>1. cut # Len(s)
    BY <1>3, <1>7 DEF Flows
  <2>2. /\ cut \in 1 .. Len(s) - 1 /\ cut \in 0 .. Len(s) /\ 1 \in 1 .. Len(s) - cut
        /\ Len(s) - cut # 0
    <3>1. \A n \in Nat : \A k \in 1 .. n : k # n =>
             /\ k \in 1 .. n - 1 /\ k \in 0 .. n /\ 1 \in 1 .. n - k
             /\ n - k # 0
      OBVIOUS
    <3> QED BY <1>3, <2>1, <3>1
  <2>3. Follows(s[cut], s[cut + 1])
    BY <2>2 DEF Flows, InARow
  <2>4. Behind(s, cut)[1] = s[cut + 1] /\ Behind(s, cut) # <<>>
    <3>1. /\ Behind(s, cut) \in Seq(Piece) /\ Len(Behind(s, cut)) = Len(s) - cut
          /\ Behind(s, cut)[1] = s[cut + 1]
      BY <2>2, BehindIs
    <3>2. Len(Behind(s, cut)) # 0
      BY <2>2, <3>1
    <3> QED BY <3>1, <3>2, Pieced
  <2>5. s[cut + 1].msg = s[cut].msg /\ s[cut + 1].part - 1 = s[cut].part
    <3>1. s[cut + 1].msg = s[cut].msg /\ s[cut + 1].part = s[cut].part + 1
      BY <1>7, <2>3 DEF Follows
    <3>2. \A p \in Nat : (p + 1) - 1 = p
      OBVIOUS
    <3>3. s[cut].part \in Nat
      BY <1>6
    <3> QED BY <3>1, <3>2, <3>3
  <2> QED BY <1>5, <2>4, <2>5 DEF HasRead
<1>8. s[cut].part = Pieces => IsMessage(text) /\ text[1].msg = s[cut].msg
  BY <1>2, <1>5, <1>6, IsWhole
<1> QED BY <1>7, <1>8 DEF GetsOn, cut, text

\* A message that is put behind a stream changes nothing at its head.
LEMMA PutAlone ==
    ASSUME NEW s \in Seq(Piece), Flows(s), NEW m \in Messages, NEW text,
           HasRead(text, s), NEW new, new = s \o InPieces(m)
    PROVE  HasRead(text, new)
<1>1. /\ new \in Seq(Piece) /\ new # <<>>
      /\ \A i \in 1 .. Len(s) : new[i] = s[i]
      /\ s = <<>> => new = InPieces(m)
  BY PutIs
<1>2. CASE s = <<>>
  <2>1. new[1].part = 1 /\ text = <<>>
    BY <1>1, <1>2, WholeIs, Sizes DEF HasRead
  <2>2. Starts(<<>>, new[1].msg, 1 - 1)
    BY DEF Starts
  <2> QED BY <1>1, <2>1, <2>2 DEF HasRead
<1>3. CASE s # <<>>
  <2>1. 1 \in 1 .. Len(s)
    BY <1>3, Pieced
  <2> QED BY <1>1, <1>3, <2>1 DEF HasRead
<1> QED BY <1>2, <1>3

\* Nothing was read of a message that is there from its beginning.
LEMMA ReadNothing ==
    ASSUME NEW s \in Seq(Piece), Mid(s) = 0
    PROVE  HasRead(<<>>, s)
<1>1. CASE s # <<>>
  <2>1. s[1].part = 1
    BY <1>1 DEF Mid
  <2>2. Starts(<<>>, s[1].msg, 1 - 1)
    BY DEF Starts
  <2> QED BY <1>1, <2>1, <2>2 DEF HasRead
<1> QED BY <1>1 DEF HasRead

\* The thread of c, and its client, while nobody is late.
ThreadAlone(c) ==
    /\ sPc[c] = "recv" => sDepth[c] = Mid(up[c]) /\ HasRead(sFull[c], up[c])
    /\ sPc[c] \in {"start", "handle"} => Mid(up[c]) = 0
    /\ sPc[c] = "handle" => IsMessage(sFull[c])

ClientAlone(c) ==
    /\ \A i \in DOMAIN answers[c] : answers[c][i].to = answers[c][i].call
    /\ \A i \in DOMAIN down[c] : down[c][i].msg.to # 0
    /\ rest[c] = <<>>
    /\ cPc[c] = "recv" => cDepth[c] = Mid(down[c]) /\ HasRead(cFull[c], down[c])

AloneInv ==
    ~piped => leftover = <<>> /\ \A c \in Clients \ slow : ThreadAlone(c) /\ ClientAlone(c)

LEMMA ClientAloneKeeps ==
    ASSUME NEW c, ClientAlone(c), SameClient(c), down'[c] = down[c]
    PROVE  ClientAlone(c)'
BY DEF ClientAlone, SameClient

LEMMA ThreadAloneKeeps ==
    ASSUME NEW c, ThreadAlone(c), SameThread(c), up'[c] = up[c]
    PROVE  ThreadAlone(c)'
BY DEF ThreadAlone, SameThread

LEMMA EndedAlone ==
    ASSUME NEW c, sPc'[c] = "ended"
    PROVE  ThreadAlone(c)'
BY DEF ThreadAlone

\* The steps of a thread, but for those of its message.
LEMMA ReadAlone ==
    ASSUME IInv, NEW c \in Clients, leftover = <<>>, ThreadAlone(c),
           Start(c) \/ ServerRecv(c) \/ ServerEof(c), ~piped'
    PROVE  leftover' = <<>> /\ ThreadAlone(c)'
<1> USE DEF client, history
<1>1. up[c] \in Seq(Piece) /\ sFull[c] \in Seq(Piece) /\ sDepth[c] \in -1 .. 1 /\ ConnOK(c)
  BY Typed
<1>2. CASE Start(c)
  <2>1. /\ sFull'[c] = <<>> /\ sDepth'[c] = 0 /\ sPc'[c] = "recv" /\ up' = up
        /\ sPc[c] = "start" /\ leftover' = leftover
    BY <1>2 DEF Start, IInv, Types, ThreadTypes
  <2>2. Mid(up[c]) = 0 /\ HasRead(<<>>, up[c])
    BY <1>1, <2>1, ReadNothing DEF ThreadAlone
  <2> QED BY <2>1, <2>2 DEF ThreadAlone
<1>3. CASE ServerEof(c)
  <2>1. /\ sPc[c] = "recv" /\ up[c] = <<>> /\ leftover' = <<>>
        /\ sPc' = sPc \/ (sDepth[c] = 0 /\ sFull[c] # <<>>)
        /\ UNCHANGED <<up, sFull, sDepth>>
    BY <1>3 DEF ServerEof
  <2>2. sFull[c] = <<>>
    BY <2>1 DEF ThreadAlone, HasRead
  <2> QED BY <2>1, <2>2 DEF ThreadAlone
<1>4. CASE ServerRecv(c)
  <2>1. PICK chunk \in Chunks(up[c]) :
        LET cut == Cut(chunk, sDepth[c])
            behind == Behind(chunk, cut)
            depth == Depth(chunk, sDepth[c], cut)
        IN /\ up' = [up EXCEPT ![c] = Behind(@, Len(chunk))]
           /\ sFull' = [sFull EXCEPT ![c] = @ \o SubSeq(chunk, 1, cut)]
           /\ sDepth' = [sDepth EXCEPT ![c] = depth]
           /\ leftover' = behind
           /\ piped' = (piped \/ behind # <<>>)
           /\ sPc' = [sPc EXCEPT ![c] =
                         IF behind # <<>> \/ depth = 0 THEN "handle" ELSE "recv"]
    BY <1>4 DEF ServerRecv
  <2> DEFINE cut == Cut(chunk, sDepth[c])
             behind == Behind(chunk, cut)
             depth == Depth(chunk, sDepth[c], cut)
             text == sFull[c] \o SubSeq(chunk, 1, cut)
             new == Behind(up[c], Len(chunk))
  <2>2. sPc[c] = "recv" /\ sDepth[c] = Mid(up[c]) /\ HasRead(sFull[c], up[c])
    BY <1>4 DEF ServerRecv, ThreadAlone
  <2>3. /\ behind = <<>> <=> cut = Len(chunk)
        /\ depth = sDepth[c] - Mid(up[c]) + Open(up[c][cut])
        /\ Mid(new) = Open(up[c][Len(chunk)])
    <3>1. Counts(sDepth[c], up[c]) /\ Flows(up[c])
      BY <1>1, <2>2 DEF ConnOK, UpOK, ThreadOK
    <3>2. Received(up[c], sFull[c], sDepth[c], chunk)
      BY <1>1, <3>1, RecvIs
    <3> QED BY <3>2 DEF Received, Taken
  <2>4. /\ up[c][cut].part = Pieces => IsMessage(text)
        /\ up[c][cut].part # Pieces /\ cut = Len(chunk) => HasRead(text, new)
    <3>1. Flows(up[c])
      BY <1>1 DEF ConnOK, UpOK
    <3>2. GetsOn(up[c], sFull[c], sDepth[c], chunk)
      BY <1>1, <2>2, <3>1, RecvAlone
    <3> QED BY <3>2 DEF GetsOn
  <2>5. /\ up'[c] = new /\ sFull'[c] = text /\ sDepth'[c] = depth /\ leftover' = behind
        /\ sPc'[c] = IF behind # <<>> \/ depth = 0 THEN "handle" ELSE "recv"
        /\ behind = <<>>
    BY <2>1 DEF IInv, Types, ThreadTypes, WireTypes
  <2> HIDE DEF cut, behind, depth, text, new
  <2>6. depth = Open(up[c][cut]) /\ Mid(new) = depth
    <3>1. \A o \in {0, 1}, k \in -1 .. 1 : k - k + o = o
      OBVIOUS
    <3>2. Open(up[c][cut]) \in {0, 1}
      BY DEF Open
    <3> QED BY <1>1, <2>2, <2>3, <2>5, <3>1, <3>2
  <2>7. depth = 0 <=> up[c][cut].part = Pieces
    BY <2>6 DEF Open
  <2> QED BY <2>3, <2>4, <2>5, <2>6, <2>7 DEF ThreadAlone
<1> QED BY <1>2, <1>3, <1>4

\* A request that was handled leaves the next one at the head of the stream.
LEMMA HandledAlone ==
    ASSUME IInv, NEW c \in Clients, ThreadAlone(c), HandleRequest(c)
    PROVE  ThreadAlone(c)'
<1> DEFINE m == sFull[c][1].msg
<1>1. Handled(c, m) /\ sPc[c] = "handle"
  BY DEF HandleRequest
<1> HIDE DEF m
<1>2. CASE Shut(c)
  BY <1>2, ShutIs, EndedAlone DEF IInv
<1>3. CASE sPc' = [sPc EXCEPT ![c] = "start"] /\ UNCHANGED up
  <2>1. sPc'[c] = "start"
    BY <1>3 DEF IInv, Types, ThreadTypes
  <2> QED BY <1>1, <1>3, <2>1 DEF ThreadAlone
<1> QED BY <1>1, <1>2, <1>3 DEF Handled

\* What is sent to the client is an answer, of which it has read nothing.
LEMMA GivenAlone ==
    ASSUME IInv, NEW c \in Clients, ClientAlone(c), HandleRequest(c)
    PROVE  ClientAlone(c)'
<1> USE DEF client, history
<1> DEFINE m == sFull[c][1].msg
<1>1. Handled(c, m) /\ SameClient(c)
  BY DEF HandleRequest, SameClient
<1>2. m.n \in 1 .. Len(sent[c])
  BY Requested DEF HandleRequest
<1> HIDE DEF m
<1>3. down[c] \in Seq(Piece) /\ Len(sent[c]) \in Nat /\ ConnOK(c)
  BY Typed
<1>4. CASE UNCHANGED down
  BY <1>1, <1>4, ClientAloneKeeps
<1>5. CASE Send(c, Response(m.n))
  <2>1. m.n \in 0 .. Len(sent[c]) /\ m.n # 0
    BY <1>2, <1>3
  <2>2. /\ down'[c] = down[c] \o InPieces(Response(m.n))
        /\ Response(m.n) \in Messages
        /\ Mid(down'[c]) = Mid(down[c])
        /\ DOMAIN down'[c] = 1 .. Len(down[c]) + Pieces
        /\ DOMAIN down[c] = 1 .. Len(down[c]) /\ Len(down[c]) \in Nat
        /\ \A i \in 1 .. Len(down[c]) : down'[c][i] = down[c][i]
        /\ \A i \in 1 .. Pieces : down'[c][Len(down[c]) + i].msg = Response(m.n)
    <3>1. ASSUME NEW n \in 0 .. Len(sent[c]), n = m.n
          PROVE  /\ down'[c] = down[c] \o InPieces(Response(n))
                 /\ Response(n) \in Messages
                 /\ Mid(down'[c]) = Mid(down[c])
                 /\ DOMAIN down'[c] = 1 .. Len(down[c]) + Pieces
                 /\ \A i \in 1 .. Len(down[c]) : down'[c][i] = down[c][i]
                 /\ \A i \in 1 .. Pieces : down'[c][Len(down[c]) + i].msg = Response(n)
      <4>1. Send(c, Response(n))
        BY <1>5, <3>1
      <4> QED BY <1>1, <4>1, SendIs
    <3> QED BY <1>3, <2>1, <3>1, Pieced
  <2>3. ASSUME NEW i \in DOMAIN down'[c] PROVE down'[c][i].msg.to # 0
    <3>1. CASE i \in 1 .. Len(down[c])
      BY <2>2, <3>1 DEF ClientAlone
    <3>2. CASE i \notin 1 .. Len(down[c])
      <4>1. i - Len(down[c]) \in 1 .. Pieces /\ Len(down[c]) + (i - Len(down[c])) = i
        BY <2>2, <3>2, Sizes, Beyond
      <4>2. down'[c][i].msg = Response(m.n)
        BY <2>2, <4>1
      <4> QED BY <2>1, <4>2 DEF Response
    <3> QED BY <3>1, <3>2
  <2>4. ASSUME cPc[c] = "recv" PROVE HasRead(cFull[c], down'[c])
    <3>1. HasRead(cFull[c], down[c]) /\ Flows(down[c])
      BY <1>3, <2>4 DEF ClientAlone, ConnOK, ClientOK
    <3> QED BY <1>3, <2>2, <3>1, PutAlone
  <2> QED BY <1>1, <2>2, <2>3, <2>4 DEF ClientAlone, SameClient
<1> QED BY <1>1, <1>4, <1>5 DEF Handled

LEMMA SentAlone ==
    ASSUME IInv, NEW c \in Clients, NEW kind \in Plans[c], AnswersOK(c),
           ThreadAlone(c), ClientAlone(c), ClientSend(c, kind)
    PROVE  ThreadAlone(c)' /\ ClientAlone(c)'
<1> USE DEF server, history
<1>1. /\ cPc[c] = "idle" /\ Len(sent[c]) < MaxRequests[c]
      /\ up' = [up EXCEPT ![c] =
            IF shut[c] = "no" THEN @ \o InPieces(Request(c, Len(sent[c]) + 1)) ELSE @]
      /\ UNCHANGED <<down, rest, shut, answers, sFull, sDepth, sPc, served>>
  BY DEF ClientSend
<1>2. /\ down[c] \in Seq(Piece) /\ up[c] \in Seq(Piece) /\ ConnOK(c)
      /\ Len(sent[c]) \in Nat /\ MaxRequests[c] \in Nat
  BY Typed, BoundAssumption
<1>3. ThreadAlone(c)'
  <2>1. CASE shut[c] = "no"
    <3> DEFINE r == Request(c, Len(sent[c]) + 1)
    <3>1. up'[c] = up[c] \o InPieces(r)
      BY <1>1, <2>1 DEF IInv, Types, WireTypes
    <3>2. r \in Messages
      <4>1. Len(sent[c]) + 1 \in 1 .. MaxRequests[c]
        BY <1>1, <1>2
      <4> QED BY <4>1, NewMessages DEF IInv
    <3>3. Flows(up[c])
      BY <1>2 DEF ConnOK, UpOK
    <3> HIDE DEF r
    <3>4. Mid(up'[c]) = Mid(up[c])
      BY <1>2, <3>1, <3>2, <3>3, PutIs
    <3>5. HasRead(sFull[c], up[c]) => HasRead(sFull[c], up'[c])
      BY <1>2, <3>1, <3>2, <3>3, PutAlone
    <3> QED BY <1>1, <3>4, <3>5 DEF ThreadAlone
  <2>2. CASE shut[c] # "no"
    <3>1. up'[c] = up[c]
      BY <1>1, <2>2 DEF IInv, Types, WireTypes
    <3> QED BY <1>1, <3>1 DEF ThreadAlone
  <2> QED BY <2>1, <2>2
<1>4. ClientAlone(c)'
  <2>1. cPc'[c] = "recv" => cFull'[c] = rest[c] /\ cDepth'[c] = 0
    BY <1>1 DEF ClientSend, IInv, Types, ClientTypes
  <2>2. down[c] = <<>>
    <3>1. \A i \in DOMAIN down[c] : FALSE
      BY <1>1 DEF AnswersOK, DownOK, ClientAlone
    <3>2. DOMAIN down[c] = 1 .. Len(down[c]) /\ Len(down[c]) \in Nat
      BY <1>2, Pieced
    <3>3. Len(down[c]) = 0
      BY <3>1, <3>2
    <3> QED BY <1>2, <3>3, Pieced
  <2>3. Mid(<<>>) = 0 /\ HasRead(<<>>, <<>>)
    BY DEF Mid, HasRead
  <2> QED BY <1>1, <2>1, <2>2, <2>3 DEF ClientAlone
<1> QED BY <1>3, <1>4

\* A call takes all of its answer, which is whole, or reads on in it.
LEMMA RecvdAlone ==
    ASSUME IInv, NEW c \in Clients, AnswersOK(c), ClientAlone(c), ClientRecv(c)
    PROVE  ClientAlone(c)'
<1> USE DEF server
<1>1. PICK chunk \in Chunks(down[c]) :
          LET cut == Cut(chunk, cDepth[c])
              behind == Behind(chunk, cut)
              depth == Depth(chunk, cDepth[c], cut)
              text == cFull[c] \o SubSeq(chunk, 1, cut)
          IN /\ down' = [down EXCEPT ![c] = Behind(@, Len(chunk))]
             /\ rest' = [rest EXCEPT ![c] = behind]
             /\ IF behind # <<>> \/ depth = 0
                THEN /\ Return(c, text)
                     /\ cFull' = [cFull EXCEPT ![c] = <<>>]
                     /\ cDepth' = [cDepth EXCEPT ![c] = 0]
                ELSE /\ cFull' = [cFull EXCEPT ![c] = text]
                     /\ cDepth' = [cDepth EXCEPT ![c] = depth]
                     /\ UNCHANGED <<answers, cPc>>
  BY DEF ClientRecv
<1> DEFINE cut == Cut(chunk, cDepth[c])
           behind == Behind(chunk, cut)
           depth == Depth(chunk, cDepth[c], cut)
           text == cFull[c] \o SubSeq(chunk, 1, cut)
           L == Len(chunk)
           new == Behind(down[c], L)
<1>2. /\ cPc[c] = "recv" /\ cDepth[c] = Mid(down[c]) /\ HasRead(cFull[c], down[c])
  BY DEF ClientRecv, ClientAlone
<1>3. /\ down[c] \in Seq(Piece) /\ cFull[c] \in Seq(Piece) /\ cDepth[c] \in -1 .. 1
      /\ DOMAIN down[c] = 1 .. Len(down[c]) /\ Len(down[c]) \in Nat /\ Flows(down[c])
  BY Typed, Pieced DEF ConnOK, ClientOK
<1>4. /\ L \in DOMAIN down[c] /\ cut \in 1 .. L /\ cut \in DOMAIN down[c]
      /\ behind = <<>> <=> cut = L
      /\ depth = cDepth[c] - Mid(down[c]) + Open(down[c][cut])
      /\ behind # <<>> => depth = 0
      /\ text \in Seq(Piece)
      /\ Mid(new) = Open(down[c][L]) /\ Told(c, text)
      /\ \A i \in DOMAIN new : L + i \in DOMAIN down[c] /\ new[i] = down[c][L + i]
  <2>1. Received(down[c], cFull[c], cDepth[c], chunk) /\ Told(c, text)
    BY <1>2, ClientRecvIs
  <2> QED BY <2>1 DEF Received, Taken
<1>5. IF down[c][cut].part = Pieces THEN IsMessage(text) /\ text[1].msg = down[c][cut].msg
      ELSE cut = L => HasRead(text, new)
  <2>1. GetsOn(down[c], cFull[c], cDepth[c], chunk)
    BY <1>2, <1>3, RecvAlone
  <2> QED BY <2>1 DEF GetsOn
<1>6. /\ down'[c] = new /\ rest'[c] = behind
      /\ \/ /\ behind # <<>> \/ depth = 0
            /\ Return(c, text) /\ cPc'[c] = "idle"
         \/ /\ behind = <<>> /\ depth # 0 /\ cFull'[c] = text /\ cDepth'[c] = depth
            /\ UNCHANGED <<answers, cPc>>
  BY <1>1 DEF Return, IInv, Types, WireTypes, ClientTypes
<1> HIDE DEF cut, behind, depth, text, L, new
<1>7. depth = Open(down[c][cut]) /\ (depth = 0 <=> down[c][cut].part = Pieces)
  <2>1. \A o \in {0, 1}, k \in -1 .. 1 : k - k + o = o
    OBVIOUS
  <2>2. Open(down[c][cut]) \in {0, 1}
    BY DEF Open
  <2>3. depth = Open(down[c][cut])
    BY <1>2, <1>3, <1>4, <2>1, <2>2
  <2> QED BY <2>3 DEF Open
\* All that is on the way is one answer: behind its end there is nothing.
<1>8. behind = <<>>
  <2> SUFFICES ASSUME behind # <<>> PROVE FALSE
    OBVIOUS
  <2>1. cut < L /\ down[c][cut].part = Pieces
    BY <1>3, <1>4, <1>7
  <2>2. down[c][L].msg.to # 0
    BY <1>4 DEF ClientAlone
  <2> QED BY <1>4, <2>1, <2>2 DEF AnswersOK, DownOK
<1>9. \A i \in DOMAIN new : new[i].msg.to # 0
  BY <1>4 DEF ClientAlone
<1>10. CASE depth = 0
  <2>1. Return(c, text) /\ cPc'[c] = "idle"
    BY <1>6, <1>10
  <2>2. Given(c, text).to = Given(c, text).call
    <3>1. IsMessage(text) /\ text[1].msg = down[c][cut].msg
      BY <1>5, <1>7, <1>10
    <3>2. down[c][cut].msg.to = Len(sent[c])
      BY <1>4 DEF AnswersOK, DownOK, ClientAlone
    <3> QED BY <3>1, <3>2 DEF Given
  <2>3. /\ DOMAIN answers'[c] = 1 .. Len(answers[c]) + 1
        /\ \A i \in 1 .. Len(answers[c]) : answers'[c][i] = answers[c][i]
        /\ answers'[c][Len(answers[c]) + 1] = Given(c, text)
    BY <1>2, <1>4, <2>1, ReturnIs
  <2>4. Len(answers[c]) \in Nat /\ DOMAIN answers[c] = 1 .. Len(answers[c])
    BY Typed
  <2>5. \A n \in Nat : \A i \in 1 .. n + 1 : i = n + 1 \/ i \in 1 .. n
    OBVIOUS
  <2>6. ASSUME NEW i \in DOMAIN answers'[c] PROVE answers'[c][i].to = answers'[c][i].call
    <3>1. CASE i = Len(answers[c]) + 1
      BY <2>2, <2>3, <3>1
    <3>2. CASE i \in 1 .. Len(answers[c])
      BY <2>3, <2>4, <3>2 DEF ClientAlone
    <3> QED BY <2>3, <2>4, <2>5, <3>1, <3>2
  <2> QED BY <1>6, <1>8, <1>9, <2>1, <2>6 DEF ClientAlone
<1>11. CASE depth # 0
  <2>1. cFull'[c] = text /\ cDepth'[c] = depth /\ UNCHANGED <<answers, cPc>>
    BY <1>6, <1>8, <1>11
  <2>2. HasRead(text, new) /\ Mid(new) = depth
    BY <1>4, <1>5, <1>7, <1>8, <1>11
  <2> QED BY <1>6, <1>8, <1>9, <2>1, <2>2 DEF ClientAlone
<1> QED BY <1>10, <1>11

LEMMA EofAlone ==
    ASSUME IInv, NEW c \in Clients, ClientAlone(c), ClientEof(c)
    PROVE  ClientAlone(c)'
<1> USE DEF server
<1>1. /\ down' = down /\ cFull' = cFull /\ cDepth' = cDepth
      /\ cPc[c] = "recv" /\ down[c] = <<>>
      /\ rest' = rest \/ rest' = [rest EXCEPT ![c] = <<>>]
      /\ \/ cFull[c] # <<>>
         \/ UNCHANGED <<answers, cPc>>
         \/ cPc' = [cPc EXCEPT ![c] = "failed"] /\ UNCHANGED answers
  BY DEF ClientEof
<1>2. cFull[c] = <<>>
  BY <1>1 DEF ClientAlone, HasRead
<1>3. rest'[c] = <<>> /\ cPc'[c] \in {"recv", "failed"} /\ answers' = answers
  BY <1>1, <1>2 DEF ClientAlone, IInv, Types, ClientTypes
<1> QED BY <1>1, <1>3 DEF ClientAlone

LEMMA AloneStep ==
    ASSUME IInv, NEW c \in Clients, StepOf(c), leftover = <<>>, ~piped', c \notin slow',
           AnswersOK(c), ThreadAlone(c), ClientAlone(c)
    PROVE  ThreadAlone(c)' /\ ClientAlone(c)'
<1> USE DEF server, client, history
<1>1. CASE Start(c) \/ ServerRecv(c) \/ ServerEof(c)
  <2>1. SameClient(c) /\ down'[c] = down[c]
    BY <1>1 DEF Start, ServerRecv, ServerEof, SameClient
  <2> QED BY <1>1, <2>1, ReadAlone, ClientAloneKeeps
<1>2. CASE ServerReset(c)
  <2>1. SameClient(c) /\ down'[c] = down[c] /\ Shut(c)
    BY <1>2 DEF ServerReset, SameClient
  <2> QED BY <2>1, ShutIs, EndedAlone, ClientAloneKeeps DEF IInv
<1>3. ~ParseError(c)
  BY DEF ParseError, ThreadAlone
<1>4. CASE HandleRequest(c)
  BY <1>4, HandledAlone, GivenAlone
<1>5. ~ServerTimeout(c) /\ ~ClientTimeout(c)
  BY DEF ServerTimeout, ClientTimeout
<1>6. ASSUME NEW kind \in Plans[c], ClientSend(c, kind)
      PROVE  ThreadAlone(c)' /\ ClientAlone(c)'
  BY <1>6, SentAlone
<1>7. CASE ClientRecv(c) \/ ClientEof(c)
  <2>1. SameThread(c) /\ up'[c] = up[c]
    BY <1>7 DEF ClientRecv, ClientEof, SameThread
  <2> QED BY <1>7, <2>1, RecvdAlone, EofAlone, ThreadAloneKeeps
<1>8. CASE ClientClose(c)
  <2>1. SameThread(c) /\ up'[c] = up[c] /\ SameClient(c) /\ down'[c] = down[c]
    BY <1>8 DEF ClientClose, SameThread, SameClient
  <2> QED BY <2>1, ThreadAloneKeeps, ClientAloneKeeps
<1> QED BY <1>1, <1>2, <1>3, <1>4, <1>5, <1>6, <1>7, <1>8 DEF StepOf, Thread, Receive

\* No step takes a connection out of those that are slow, or makes a leftover of none.
LEMMA LeftoverAlone ==
    ASSUME IInv, NEW c \in Clients, StepOf(c), AloneInv, ~piped'
    PROVE  ~piped /\ slow \subseteq slow' /\ leftover' = <<>>
<1> USE DEF server, client, history
<1>1. ~piped
  BY DEF StepOf, Thread, Receive, Start, ServerRecv, ServerEof, ServerReset, ParseError,
         HandleRequest, ServerTimeout, ClientSend, ClientRecv, ClientEof, ClientTimeout,
         ClientClose
<1>2. slow \subseteq slow'
  BY DEF StepOf, Thread, Receive, Start, ServerRecv, ServerEof, ServerReset, ParseError,
         HandleRequest, ServerTimeout, ClientSend, ClientRecv, ClientEof, ClientTimeout,
         ClientClose
<1>3. leftover' = leftover \/ leftover' = <<>>
  <2>1. ASSUME ServerRecv(c) PROVE leftover' = <<>>
    BY <2>1 DEF ServerRecv
  <2> QED BY <2>1
          DEF StepOf, Thread, Receive, Start, ServerEof, ServerReset, ParseError,
              HandleRequest, ServerTimeout, ClientSend, ClientRecv, ClientEof,
              ClientTimeout, ClientClose
<1> QED BY <1>1, <1>2, <1>3 DEF AloneInv

LEMMA AloneNext == IInv /\ AInv /\ AloneInv /\ [Next]_vars => AloneInv'
<1> SUFFICES ASSUME IInv, AInv, AloneInv, [Next]_vars PROVE AloneInv'
  OBVIOUS
<1>1. CASE UNCHANGED vars
  <2> SUFFICES ASSUME ~piped', NEW c \in Clients, c \notin slow'
               PROVE  leftover' = <<>> /\ ThreadAlone(c)' /\ ClientAlone(c)'
    BY <1>1 DEF AloneInv, vars, server, history
  <2>1. SameThread(c) /\ SameClient(c) /\ up'[c] = up[c] /\ down'[c] = down[c]
    BY <1>1 DEF vars, server, client, history, SameThread, SameClient
  <2>2. ThreadAlone(c) /\ ClientAlone(c) /\ leftover = <<>> /\ leftover' = leftover
    BY <1>1 DEF vars, server, history, AloneInv
  <2> QED BY <2>1, <2>2, ThreadAloneKeeps, ClientAloneKeeps
<1>2. ASSUME NEW c \in Clients, StepOf(c) PROVE AloneInv'
  <2> SUFFICES ASSUME ~piped' PROVE AloneInv'
    BY DEF AloneInv
  <2>1. ~piped /\ slow \subseteq slow' /\ leftover' = <<>> /\ leftover = <<>>
    BY <1>2, LeftoverAlone DEF AloneInv
  <2>2. ASSUME NEW d \in Clients, d \notin slow' PROVE ThreadAlone(d)' /\ ClientAlone(d)'
    <3>1. ThreadAlone(d) /\ ClientAlone(d)
      BY <2>1, <2>2 DEF AloneInv
    <3>2. CASE d = c
      <4>1. AnswersOK(c)
        BY <2>1, <2>2, <3>2 DEF AInv, IInv, Types, SetTypes
      <4> QED BY <1>2, <2>1, <2>2, <3>1, <3>2, <4>1, AloneStep
    <3>3. CASE d # c
      <4>1. Same(d)
        BY <1>2, <3>3, Local
      <4>2. SameThread(d) /\ SameClient(d)
        BY <4>1 DEF Same, SameThread, SameClient
      <4> QED BY <3>1, <4>1, <4>2, ThreadAloneKeeps, ClientAloneKeeps DEF Same
    <3> QED BY <3>2, <3>3
  <2> QED BY <2>1, <2>2 DEF AloneInv
<1> QED BY <1>1, <1>2 DEF Next, StepOf

LEMMA AloneInit == Init => AloneInv
<1> SUFFICES ASSUME Init, NEW c \in Clients
             PROVE  leftover = <<>> /\ ThreadAlone(c) /\ ClientAlone(c)
  BY DEF AloneInv, Init
<1>1. /\ leftover = <<>> /\ sPc[c] = "start" /\ up[c] = <<>> /\ down[c] = <<>>
      /\ rest[c] = <<>> /\ cPc[c] = "idle" /\ answers[c] = <<>>
  BY DEF Init
<1>2. DOMAIN <<>> = {}
  OBVIOUS
<1> QED BY <1>1, <1>2 DEF ThreadAlone, ClientAlone, Mid

\* The leftover of the server is one for the threads of all connections.  Until a thread
\* reads beyond the end of a request it is empty, and a connection on which nobody's recv
\* timed out gets the answer to each of its calls, whatever the others do.
THEOREM OthersDoNotMatter == Spec => []Independent
<1>1. IInv /\ AloneInv => Independent
  <2> SUFFICES ASSUME IInv, AloneInv, ~piped, NEW c \in Clients \ slow,
                      NEW i \in 1 .. Len(answers[c])
               PROVE  answers[c][i].to = answers[c][i].call
    BY DEF Independent
  <2>1. ClientAlone(c) /\ DOMAIN answers[c] = 1 .. Len(answers[c])
    BY Typed DEF AloneInv
  <2> QED BY <2>1 DEF ClientAlone
<1> QED BY <1>1, AloneInit, AloneNext, AnswersInit, AnswersNext, Invariance, PTL DEF Spec
=============================================================================
