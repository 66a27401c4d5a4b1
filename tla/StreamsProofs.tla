--------------------------- MODULE StreamsProofs ---------------------------
(***************************************************************************)
(* Proofs about Streams, for messages of any size, any bounds and chunks   *)
(* of any length.                                                          *)
(*                                                                         *)
(* The readers are recursive functions on sequences.  What they return is  *)
(* proved by induction on the length of the buffer, in the form of the     *)
(* shortest counterexample (lemma Shortest); that they satisfy their own   *)
(* equations follows from lemma Recursion.                                 *)
(***************************************************************************)
EXTENDS Streams, SequenceTheorems, FiniteSetTheorems, WellFoundedInduction,
        TLAPS

(* Cells that a sender may write one right after the other: next parts of  *)
(* a message, or the end of one and the start of a later one.              *)
Follows(c, d) ==
    \/ d[1] = c[1] /\ d[2] = c[2] + 1
    \/ c[2] = Size /\ d[2] = 1 /\ d[1] > c[1]
Flow(b) == \A i \in 1..(Len(b) - 1) : Follows(b[i], b[i + 1])
Clean(b) == Flow(b) /\ (b # <<>> => b[1][2] = 1)

(* What the receiver holds, has before it, and gets written next.          *)
Ahead == Append(pipe, <<next, pos + 1>>)
Sight == Append(buffer \o pipe, <<next, pos + 1>>)

(* What is written flows, and comes after every message that has ended.    *)
Fresh ==
    /\ Flow(Ahead)
    /\ \A n \in Arrived : n < next /\ \A i \in DOMAIN pipe : n < pipe[i][1]

(* Until a connection is lost in the middle of a message, the receiver     *)
(* holds the beginning of one and sees the rest of it before it.           *)
InStep ==
    (torn = 0 /\ kind # "audio") =>
      /\ Clean(Sight)
      /\ Len(buffer) < Size /\ Len(buffer) <= Len(got)
      /\ buffer = From(got, Len(got) - Len(buffer) + 1)

(* One line is still to be lost for a connection when the receiver holds   *)
(* the beginning of a line and something else is to come.                  *)
Debt == IF Clean(Sight) THEN 0 ELSE 1

LinesLost ==
    (kind \in {"status", "touch"} /\ action = "number") =>
      /\ kind = "status" => Garbled = {}
      /\ Cardinality(Garbled) + Debt <= torn
      /\ Cardinality(Lost) + Debt <= torn

IInv == TypeOK /\ Fresh /\ InStep /\ Reassembled /\ LinesLost /\ AudioByChunk

-----------------------------------------------------------------------------
(* Induction and recursion.                                                *)

(* A nonempty set of natural numbers has a least element.                  *)
LEMMA Least ==
  ASSUME NEW S \in SUBSET Nat, S # {}
  PROVE  \E m \in S : \A n \in S : m <= n
<1>1. IsWellFoundedOn(OpToRel(<, Nat), Nat)
  BY NatLessThanWellFounded
<1>2. PICK m \in S : \A n \in S : ~(<<n, m>> \in OpToRel(<, Nat))
  BY <1>1, WFMin
<1>3. \A n \in S : ~(n < m)
  BY <1>2 DEF OpToRel
<1> QED
  BY <1>3

(* A nonempty set of things that have a size has a smallest element.       *)
LEMMA Smallest ==
  ASSUME NEW D, NEW size \in [D -> Nat], NEW B \in SUBSET D, B # {}
  PROVE  \E b \in B : \A c \in B : size[b] <= size[c]
<1> DEFINE S == {size[b] : b \in B}
<1>1. S \in SUBSET Nat /\ S # {}
  OBVIOUS
<1>2. PICK m \in S : \A n \in S : m <= n
  BY <1>1, Least
<1> QED
  BY <1>2

(* A nonempty set of sequences has a shortest one.                         *)
LEMMA Shortest ==
  ASSUME NEW D, NEW B \in SUBSET Seq(D), B # {}
  PROVE  \E b \in B : \A c \in B : Len(b) <= Len(c)
<1> DEFINE size == [b \in Seq(D) |-> Len(b)]
<1>1. size \in [Seq(D) -> Nat] /\ \A b \in Seq(D) : size[b] = Len(b)
  OBVIOUS
<1> HIDE DEF size
<1>2. PICK b \in B : \A c \in B : size[b] <= size[c]
  BY <1>1, Smallest
<1> QED
  BY <1>1, <1>2

(* What recursion gives for an argument, when f is what it gives for       *)
(* smaller ones.                                                           *)
Unfold(f, done, base, down, step, b) ==
    IF b \in done THEN base[b] ELSE step[<<b, f[down[b]]>>]

(* A recursion that goes down to a smaller argument, or stops.             *)
GoesDown(D, V, size, done, base, down, step) ==
    /\ size \in [D -> Nat] /\ done \in SUBSET D
    /\ base \in [D -> V] /\ down \in [D -> D] /\ step \in [D \X V -> V]
    /\ \A b \in D \ done : size[down[b]] < size[b]
Solvable(D, V, done, base, down, step) ==
    \E f \in [D -> V] :
      \A b \in D : f[b] = Unfold(f, done, base, down, step, b)

(* It defines a function.                                                  *)
LEMMA Recursion ==
  ASSUME NEW D, NEW V, NEW size, NEW done, NEW base, NEW down, NEW step,
         GoesDown(D, V, size, done, base, down, step)
  PROVE  Solvable(D, V, done, base, down, step)
<1>0. /\ size \in [D -> Nat] /\ done \in SUBSET D
      /\ base \in [D -> V] /\ down \in [D -> D] /\ step \in [D \X V -> V]
      /\ \A b \in D \ done : size[down[b]] < size[b]
  BY DEF GoesDown
<1> USE <1>0
<1> DEFINE U(f, b) == Unfold(f, done, base, down, step, b)
           Good(f, n) == \A b \in D : size[b] < n => f[b] = U(f, b)
<1>1. ASSUME NEW f \in [D -> V], NEW b \in D
      PROVE  U(f, b) \in V
  <2>1. CASE b \in done
    BY <2>1 DEF Unfold
  <2>2. CASE b \notin done
    <3>1. down[b] \in D /\ f[down[b]] \in V
      OBVIOUS
    <3>2. <<b, f[down[b]]>> \in D \X V
      BY <3>1
    <3> QED
      BY <3>2, <2>2 DEF Unfold
  <2> QED
    BY <2>1, <2>2
<1>2. ASSUME NEW n \in Nat, NEW f \in [D -> V], Good(f, n)
      PROVE  \E g \in [D -> V] : Good(g, n + 1)
  <2> DEFINE g == [b \in D |-> U(f, b)]
  <2>1. g \in [D -> V] /\ \A b \in D : g[b] = U(f, b)
    BY <1>1
  <2> HIDE DEF g
  <2>2. ASSUME NEW b \in D, size[b] < n + 1
        PROVE  g[b] = U(g, b)
    <3>1. CASE b \in done
      BY <3>1, <2>1 DEF Unfold
    <3>2. CASE b \notin done
      <4>1. down[b] \in D /\ size[down[b]] < n
        BY <3>2, <2>2
      <4>2. g[down[b]] = f[down[b]]
        BY <4>1, <2>1, <1>2
      <4> QED
        BY <4>2, <3>2, <2>1 DEF Unfold
    <3> QED
      BY <3>1, <3>2
  <2> QED
    BY <2>1, <2>2
<1>3. \A n \in Nat : \E f \in [D -> V] : Good(f, n)
  <2> DEFINE Bad == {n \in Nat : ~ \E f \in [D -> V] : Good(f, n)}
  <2>1. SUFFICES ASSUME Bad # {} PROVE FALSE
    OBVIOUS
  <2>2. PICK n \in Bad : \A m \in Bad : n <= m
    BY <2>1, Least
  <2>3. n # 0
    <3>1. Good(base, 0)
      OBVIOUS
    <3> QED
      BY <3>1
  <2>4. n - 1 \in Nat /\ n - 1 \notin Bad
    BY <2>2, <2>3
  <2>5. PICK f \in [D -> V] : Good(f, n - 1)
    BY <2>4
  <2>6. \E g \in [D -> V] : Good(g, (n - 1) + 1)
    <3> HIDE DEF Good
    <3> QED
      BY <2>4, <2>5, <1>2
  <2> QED
    BY <2>6
<1>4. ASSUME NEW m \in Nat, NEW n \in Nat,
             NEW f \in [D -> V], NEW g \in [D -> V], Good(f, m), Good(g, n)
      PROVE  \A b \in D : size[b] < m /\ size[b] < n => f[b] = g[b]
  <2> DEFINE Bad == {b \in D : size[b] < m /\ size[b] < n /\ f[b] # g[b]}
  <2>1. SUFFICES ASSUME Bad # {} PROVE FALSE
    OBVIOUS
  <2>2. PICK b \in Bad : \A c \in Bad : size[b] <= size[c]
    BY <2>1, Smallest
  <2>3. f[b] = U(f, b) /\ g[b] = U(g, b)
    BY <1>4
  <2>4. b \notin done
    BY <2>2, <2>3 DEF Unfold
  <2>5. /\ down[b] \in D
        /\ size[down[b]] < size[b]
    BY <2>4
  <2>6. size[down[b]] \in Nat /\ size[b] \in Nat
    BY <2>5
  <2>7. size[down[b]] < m /\ size[down[b]] < n
    BY <2>5, <2>6
  <2>8. down[b] \notin Bad
    BY <2>2, <2>5, <2>6
  <2>9. f[down[b]] = g[down[b]]
    BY <2>5, <2>7, <2>8
  <2> QED
    BY <2>2, <2>3, <2>4, <2>9 DEF Unfold
<1> DEFINE G == [n \in Nat |-> CHOOSE f \in [D -> V] : Good(f, n)]
           h == [b \in D |-> G[size[b] + 1][b]]
<1>5. ASSUME NEW n \in Nat PROVE G[n] \in [D -> V] /\ Good(G[n], n)
  <2>1. G[n] = CHOOSE f \in [D -> V] : Good(f, n)
    OBVIOUS
  <2> HIDE DEF G, Good
  <2> QED
    BY <2>1, <1>3
<1> HIDE DEF G
<1>6. ASSUME NEW b \in D
      PROVE  h[b] \in V /\ h[b] = U(h, b)
  <2>1. size[b] \in Nat /\ size[b] + 1 \in Nat
    OBVIOUS
  <2>2. /\ G[size[b] + 1] \in [D -> V]
        /\ Good(G[size[b] + 1], size[b] + 1)
    <3> HIDE DEF Good
    <3> QED
      BY <2>1, <1>5
  <2>3. /\ h[b] = G[size[b] + 1][b]
        /\ h[b] = U(G[size[b] + 1], b)
    BY <2>1, <2>2
  <2>4. CASE b \in done
    BY <2>2, <2>3, <2>4 DEF Unfold
  <2>5. CASE b \notin done
    <3> DEFINE c == down[b]
    <3>1. c \in D /\ size[c] \in Nat /\ size[c] < size[b]
      BY <2>5
    <3>2. /\ G[size[c] + 1] \in [D -> V]
          /\ Good(G[size[c] + 1], size[c] + 1)
      <4> HIDE DEF Good, c
      <4> QED
        BY <3>1, <1>5
    <3>3. G[size[b] + 1][c] = G[size[c] + 1][c]
      <4>1. size[c] < size[b] + 1 /\ size[c] < size[c] + 1
            /\ size[c] + 1 \in Nat
        BY <3>1, <2>1
      <4>2. size[b] + 1 \in Nat
        BY <2>1
      <4> HIDE DEF Good, c
      <4>3. \A d \in D :
              size[d] < size[b] + 1 /\ size[d] < size[c] + 1
                => G[size[b] + 1][d] = G[size[c] + 1][d]
        BY <4>1, <4>2, <3>2, <2>2, <1>4
      <4> QED
        BY <4>1, <4>3, <3>1
    <3>4. h[c] = G[size[b] + 1][c]
      BY <3>1, <3>3
    <3> QED
      BY <3>4, <2>2, <2>3, <2>5 DEF Unfold
  <2> QED
    BY <2>4, <2>5
<1>7. h \in [D -> V]
  BY <1>6
<1> QED
  BY <1>6, <1>7 DEF Solvable

-----------------------------------------------------------------------------
(* Pieces of sequences.                                                    *)

(* A piece of a sequence, and the rest of it.                              *)
LEMMA Piece ==
  ASSUME NEW D, NEW b \in Seq(D), NEW i \in 1..(Len(b) + 1),
         NEW j \in (i - 1)..Len(b)
  PROVE  /\ SubSeq(b, i, j) \in Seq(D)
         /\ Len(SubSeq(b, i, j)) = j - i + 1
         /\ \A m \in 1..(j - i + 1) : SubSeq(b, i, j)[m] = b[i + m - 1]
<1>1. /\ Len(b) \in Nat /\ i \in Int /\ j \in Int
      /\ \A m \in i..j : b[m] \in D
  BY LenProperties
<1> QED
  BY <1>1, SubSeqProperties

(* What follows place i - 1.                                               *)
LEMMA FromPiece ==
  ASSUME NEW D, NEW b \in Seq(D), NEW i \in 1..(Len(b) + 1)
  PROVE  /\ From(b, i) \in Seq(D)
         /\ Len(From(b, i)) = Len(b) - i + 1
         /\ \A m \in 1..(Len(b) - i + 1) : From(b, i)[m] = b[i + m - 1]
<1>1. Len(b) \in (i - 1)..Len(b)
  BY LenProperties
<1> QED
  BY <1>1, Piece DEF From

(* A sequence of one element.                                              *)
LEMMA Single ==
  ASSUME NEW D, NEW d \in D
  PROVE  <<d>> \in Seq(D) /\ Len(<<d>>) = 1 /\ <<d>>[1] = d
OBVIOUS

-----------------------------------------------------------------------------
(* The readers satisfy their own equations.                                *)

Results == [out : Seq(Seq(Cell)), rest : Seq(Cell)]

(* Messages passed on are messages, and one cut more is a result.          *)
LEMMA PassType ==
  ASSUME NEW u \in Seq(Cell)
  PROVE  Pass(u) \in Seq(Seq(Cell))
<1>1. <<u>> \in Seq(Seq(Cell)) /\ <<>> \in Seq(Seq(Cell))
  OBVIOUS
<1> QED
  BY <1>1 DEF Pass

(* One message cut off, and what was made of the rest, is a result.        *)
LEMMA CutType ==
  ASSUME NEW u \in Seq(Cell), NEW more \in Results
  PROVE  Cut(Pass(u) \o more.out, more.rest) \in Results
<1>1. Pass(u) \o more.out \in Seq(Seq(Cell))
  BY PassType, ConcatProperties DEF Results
<1> QED
  BY <1>1 DEF Results, Cut

FrameStep(f, b) ==
    IF b = <<>> \/ LengthOf(b[1]) > MaxFrame THEN Cut(<<>>, <<>>)
    ELSE LET n == LengthOf(b[1])
             more == f[From(b, n + 2)]
         IN IF Len(b) < 1 + n THEN Cut(<<>>, b)
            ELSE Cut(Pass(SubSeq(b, 2, n + 1)) \o more.out, more.rest)

(* A frame lies inside the buffer, and what is behind it is shorter.       *)
LEMMA FrameShorter ==
  ASSUME misread \in Nat, NEW b \in Seq(Cell), b # <<>>,
         ~(Len(b) < 1 + LengthOf(b[1]))
  PROVE  /\ SubSeq(b, 2, LengthOf(b[1]) + 1) \in Seq(Cell)
         /\ From(b, LengthOf(b[1]) + 2) \in Seq(Cell)
         /\ Len(From(b, LengthOf(b[1]) + 2)) < Len(b)
<1>1. LengthOf(b[1]) \in Nat /\ Len(b) \in Nat
  BY SizeAssumption DEF LengthOf, SizeAssumption
<1> DEFINE n == LengthOf(b[1])
<1>2. n \in Nat
  BY <1>1
<1> HIDE DEF n
<1>3. n + 1 <= Len(b) /\ Len(b) >= 1
  BY <1>1, <1>2 DEF n
<1>4. 2 \in 1..(Len(b) + 1) /\ n + 1 \in (2 - 1)..Len(b)
      /\ n + 2 \in 1..(Len(b) + 1)
  BY <1>1, <1>2, <1>3
<1>5. SubSeq(b, 2, n + 1) \in Seq(Cell)
  BY <1>4, Piece
<1>6. /\ From(b, n + 2) \in Seq(Cell)
      /\ Len(From(b, n + 2)) = Len(b) - (n + 2) + 1
  BY <1>4, FromPiece
<1> QED
  BY <1>1, <1>2, <1>5, <1>6 DEF n

(* There is a function that the equation of FrameReader describes.         *)
LEMMA FrameReaderExists ==
  ASSUME misread \in Nat
  PROVE  \E f : f = [b \in Seq(Cell) |-> FrameStep(f, b)]
<1> DEFINE D == Seq(Cell)
           gone(b) == b = <<>> \/ LengthOf(b[1]) > MaxFrame
           done == {b \in D : gone(b) \/ Len(b) < 1 + LengthOf(b[1])}
           size == [b \in D |-> Len(b)]
           base == [b \in D |-> IF gone(b) THEN Cut(<<>>, <<>>)
                                ELSE Cut(<<>>, b)]
           down == [b \in D |-> IF b \in done THEN b
                                ELSE From(b, LengthOf(b[1]) + 2)]
           piece(b) == SubSeq(b, 2, LengthOf(b[1]) + 1)
           step == [p \in D \X Results |->
                      IF p[1] \in done THEN Cut(<<>>, <<>>)
                      ELSE Cut(Pass(piece(p[1])) \o p[2].out, p[2].rest)]
<1>1. \A b \in D : Cut(<<>>, b) \in Results /\ Cut(<<>>, <<>>) \in Results
  BY EmptySeq DEF Cut, Results
<1>2. ASSUME NEW b \in D \ done
      PROVE  /\ piece(b) \in Seq(Cell)
             /\ From(b, LengthOf(b[1]) + 2) \in D
             /\ Len(From(b, LengthOf(b[1]) + 2)) < Len(b)
  BY FrameShorter
<1>3. size \in [D -> Nat] /\ base \in [D -> Results] /\ done \in SUBSET D
  BY <1>1
<1>4. down \in [D -> D]
  BY <1>2
<1>5. step \in [D \X Results -> Results]
  <2>1. ASSUME NEW p \in D \X Results, p[1] \notin done
        PROVE  Cut(Pass(piece(p[1])) \o p[2].out, p[2].rest) \in Results
    <3>1. p[1] \in D \ done /\ p[2] \in Results
      BY <2>1
    <3>2. piece(p[1]) \in Seq(Cell)
      BY <3>1, <1>2
    <3> HIDE DEF piece, done, D
    <3> QED
      BY <3>1, <3>2, CutType
  <2>2. Cut(<<>>, <<>>) \in Results
    BY EmptySeq DEF Cut, Results
  <2> HIDE DEF piece, done, D
  <2> QED
    BY <2>1, <2>2
<1>6. \A b \in D \ done : size[down[b]] < size[b]
  BY <1>2
<1>7. Solvable(D, Results, done, base, down, step)
  <2>1. GoesDown(D, Results, size, done, base, down, step)
    <3> HIDE DEF D, done, size, base, down, step
    <3> QED
      BY <1>3, <1>4, <1>5, <1>6 DEF GoesDown
  <2> HIDE DEF D, done, size, base, down, step
  <2> QED
    BY <2>1, Recursion
<1>8. ASSUME NEW f \in [D -> Results], NEW b \in D
      PROVE  Unfold(f, done, base, down, step, b) = FrameStep(f, b)
  <2>1. CASE b \in done
    BY <2>1 DEF Unfold, FrameStep
  <2>2. CASE b \notin done
    <3>1. down[b] = From(b, LengthOf(b[1]) + 2) /\ down[b] \in D
      BY <2>2, <1>2
    <3>2. f[down[b]] \in Results
      BY <3>1
    <3>3. step[<<b, f[down[b]]>>]
            = Cut(Pass(piece(b)) \o f[down[b]].out, f[down[b]].rest)
      BY <3>2, <2>2
    <3> QED
      BY <3>1, <3>3, <2>2 DEF Unfold, FrameStep
  <2> QED
    BY <2>1, <2>2
<1>9. PICK f \in [D -> Results] :
              \A b \in D : f[b] = Unfold(f, done, base, down, step, b)
  BY <1>7 DEF Solvable
<1>10. f = [b \in D |-> FrameStep(f, b)]
  BY <1>8, <1>9
<1> QED
  BY <1>10

(* FrameReader does what its equation says, and returns a result.          *)
LEMMA FrameEquation ==
  ASSUME misread \in Nat
  PROVE  \A b \in Seq(Cell) : /\ FrameReader[b] = FrameStep(FrameReader, b)
                              /\ FrameReader[b] \in Results
<1>1. FrameReader = CHOOSE f : f = [b \in Seq(Cell) |-> FrameStep(f, b)]
  BY DEF FrameReader, FrameStep
<1>2. FrameReader = [b \in Seq(Cell) |-> FrameStep(FrameReader, b)]
  BY <1>1, FrameReaderExists
<1>3. \A b \in Seq(Cell) : FrameReader[b] = FrameStep(FrameReader, b)
  BY <1>2
<1> DEFINE Bad == {b \in Seq(Cell) : FrameReader[b] \notin Results}
<1>4. Bad = {}
  <2>1. SUFFICES ASSUME Bad # {} PROVE FALSE
    OBVIOUS
  <2>2. PICK b \in Bad : \A c \in Bad : Len(b) <= Len(c)
    BY <2>1, Shortest
  <2>3. CASE \/ b = <<>> \/ LengthOf(b[1]) > MaxFrame
             \/ Len(b) < 1 + LengthOf(b[1])
    <3>1. Cut(<<>>, b) \in Results /\ Cut(<<>>, <<>>) \in Results
      BY EmptySeq DEF Cut, Results
    <3> QED
      BY <1>3, <2>3, <3>1 DEF FrameStep
  <2>4. CASE ~(\/ b = <<>> \/ LengthOf(b[1]) > MaxFrame
               \/ Len(b) < 1 + LengthOf(b[1]))
    <3> DEFINE c == From(b, LengthOf(b[1]) + 2)
    <3>1. /\ SubSeq(b, 2, LengthOf(b[1]) + 1) \in Seq(Cell)
          /\ c \in Seq(Cell) /\ Len(c) < Len(b)
      BY <2>4, FrameShorter
    <3>2. FrameReader[c] \in Results
      BY <3>1, <2>2
    <3>3. FrameReader[b] = Cut(Pass(SubSeq(b, 2, LengthOf(b[1]) + 1)) \o FrameReader[c].out,
                               FrameReader[c].rest)
      BY <1>3, <2>4 DEF FrameStep
    <3> HIDE DEF c
    <3> QED
      BY <3>1, <3>2, <3>3, CutType
  <2> QED
    BY <2>3, <2>4
<1> QED
  BY <1>3, <1>4

(* The first newline is the first one.                                     *)
LEMMA FirstEndIs ==
  ASSUME NEW D, NEW b \in Seq(D), Ends(b) # {}
  PROVE  /\ FirstEnd(b) \in Ends(b) /\ \A j \in Ends(b) : FirstEnd(b) <= j
         /\ FirstEnd(b) \in 1..Len(b)
<1>1. DOMAIN b = 1..Len(b) /\ Len(b) \in Nat
  BY LenProperties
<1>2. Ends(b) \in SUBSET Nat /\ Ends(b) \subseteq 1..Len(b)
  BY <1>1 DEF Ends
<1>3. \E i \in Ends(b) : \A j \in Ends(b) : i <= j
  BY <1>2, Least
<1>4. FirstEnd(b) \in Ends(b) /\ \A j \in Ends(b) : FirstEnd(b) <= j
  BY <1>3 DEF FirstEnd
<1> QED
  BY <1>2, <1>4

LineStep(f, b) ==
    IF Ends(b) = {} THEN Cut(<<>>, b)
    ELSE LET more == f[From(b, FirstEnd(b) + 1)]
         IN Cut(Pass(SubSeq(b, 1, FirstEnd(b))) \o more.out, more.rest)

(* A line lies inside the buffer, and what is behind it is shorter.        *)
LEMMA LineShorter ==
  ASSUME NEW b \in Seq(Cell), Ends(b) # {}
  PROVE  /\ SubSeq(b, 1, FirstEnd(b)) \in Seq(Cell)
         /\ From(b, FirstEnd(b) + 1) \in Seq(Cell)
         /\ Len(From(b, FirstEnd(b) + 1)) < Len(b)
<1> DEFINE i == FirstEnd(b)
<1>1. i \in 1..Len(b) /\ Len(b) \in Nat
  BY FirstEndIs, LenProperties
<1> HIDE DEF i
<1>2. 1 \in 1..(Len(b) + 1) /\ i \in (1 - 1)..Len(b)
      /\ i + 1 \in 1..(Len(b) + 1)
  BY <1>1
<1>3. SubSeq(b, 1, i) \in Seq(Cell)
  BY <1>2, Piece
<1>4. /\ From(b, i + 1) \in Seq(Cell)
      /\ Len(From(b, i + 1)) = Len(b) - (i + 1) + 1
  BY <1>2, FromPiece
<1> QED
  BY <1>1, <1>3, <1>4 DEF i

(* There is a function that the equation of LineReader describes.          *)
LEMMA LineReaderExists ==
  \E f : f = [b \in Seq(Cell) |-> LineStep(f, b)]
<1> DEFINE D == Seq(Cell)
           done == {b \in D : Ends(b) = {}}
           size == [b \in D |-> Len(b)]
           base == [b \in D |-> Cut(<<>>, b)]
           down == [b \in D |-> IF b \in done THEN b
                                ELSE From(b, FirstEnd(b) + 1)]
           piece(b) == SubSeq(b, 1, FirstEnd(b))
           step == [p \in D \X Results |->
                      IF p[1] \in done THEN Cut(<<>>, <<>>)
                      ELSE Cut(Pass(piece(p[1])) \o p[2].out, p[2].rest)]
<1>1. \A b \in D : Cut(<<>>, b) \in Results /\ Cut(<<>>, <<>>) \in Results
  BY EmptySeq DEF Cut, Results
<1>2. ASSUME NEW b \in D \ done
      PROVE  /\ piece(b) \in Seq(Cell)
             /\ From(b, FirstEnd(b) + 1) \in D
             /\ Len(From(b, FirstEnd(b) + 1)) < Len(b)
  BY LineShorter
<1>3. size \in [D -> Nat] /\ base \in [D -> Results] /\ done \in SUBSET D
  BY <1>1
<1>4. down \in [D -> D]
  BY <1>2
<1>5. step \in [D \X Results -> Results]
  <2>1. ASSUME NEW p \in D \X Results, p[1] \notin done
        PROVE  Cut(Pass(piece(p[1])) \o p[2].out, p[2].rest) \in Results
    <3>1. p[1] \in D \ done /\ p[2] \in Results
      BY <2>1
    <3>2. piece(p[1]) \in Seq(Cell)
      BY <3>1, <1>2
    <3> HIDE DEF piece, done, D
    <3> QED
      BY <3>1, <3>2, CutType
  <2>2. Cut(<<>>, <<>>) \in Results
    BY EmptySeq DEF Cut, Results
  <2> HIDE DEF piece, done, D
  <2> QED
    BY <2>1, <2>2
<1>6. \A b \in D \ done : size[down[b]] < size[b]
  BY <1>2
<1>7. Solvable(D, Results, done, base, down, step)
  <2>1. GoesDown(D, Results, size, done, base, down, step)
    <3> HIDE DEF D, done, size, base, down, step
    <3> QED
      BY <1>3, <1>4, <1>5, <1>6 DEF GoesDown
  <2> HIDE DEF D, done, size, base, down, step
  <2> QED
    BY <2>1, Recursion
<1>8. ASSUME NEW f \in [D -> Results], NEW b \in D
      PROVE  Unfold(f, done, base, down, step, b) = LineStep(f, b)
  <2>1. CASE b \in done
    BY <2>1 DEF Unfold, LineStep
  <2>2. CASE b \notin done
    <3>1. down[b] = From(b, FirstEnd(b) + 1) /\ down[b] \in D
      BY <2>2, <1>2
    <3>2. f[down[b]] \in Results
      BY <3>1
    <3>3. step[<<b, f[down[b]]>>]
            = Cut(Pass(piece(b)) \o f[down[b]].out, f[down[b]].rest)
      BY <3>2, <2>2
    <3> QED
      BY <3>1, <3>3, <2>2 DEF Unfold, LineStep
  <2> QED
    BY <2>1, <2>2
<1>9. PICK f \in [D -> Results] :
              \A b \in D : f[b] = Unfold(f, done, base, down, step, b)
  BY <1>7 DEF Solvable
<1>10. f = [b \in D |-> LineStep(f, b)]
  BY <1>8, <1>9
<1> QED
  BY <1>10

(* LineReader does what its equation says, returns a result, and keeps no  *)
(* complete line back.                                                     *)
LEMMA LineEquation ==
  \A b \in Seq(Cell) : /\ LineReader[b] = LineStep(LineReader, b)
                       /\ LineReader[b] \in Results
                       /\ Ends(LineReader[b].rest) = {}
<1>1. LineReader = CHOOSE f : f = [b \in Seq(Cell) |-> LineStep(f, b)]
  BY DEF LineReader, LineStep
<1>2. LineReader = [b \in Seq(Cell) |-> LineStep(LineReader, b)]
  BY <1>1, LineReaderExists
<1>3. \A b \in Seq(Cell) : LineReader[b] = LineStep(LineReader, b)
  BY <1>2
<1> DEFINE Right(r) == r \in Results /\ Ends(r.rest) = {}
           Bad == {b \in Seq(Cell) : ~Right(LineReader[b])}
<1>4. Bad = {}
  <2>1. SUFFICES ASSUME Bad # {} PROVE FALSE
    OBVIOUS
  <2>2. PICK b \in Bad : \A c \in Bad : Len(b) <= Len(c)
    BY <2>1, Shortest
  <2>3. CASE Ends(b) = {}
    <3>1. LineReader[b] = Cut(<<>>, b)
      BY <1>3, <2>3 DEF LineStep
    <3>2. Cut(<<>>, b) \in Results /\ Cut(<<>>, b).rest = b
      BY EmptySeq DEF Cut, Results
    <3> QED
      BY <3>1, <3>2, <2>3
  <2>4. CASE Ends(b) # {}
    <3> DEFINE c == From(b, FirstEnd(b) + 1)
    <3>1. /\ SubSeq(b, 1, FirstEnd(b)) \in Seq(Cell)
          /\ c \in Seq(Cell) /\ Len(c) < Len(b)
      BY <2>4, LineShorter
    <3>2. LineReader[c] \in Results /\ Ends(LineReader[c].rest) = {}
      <4>1. Len(b) \in Nat /\ Len(c) \in Nat
        BY <3>1
      <4> HIDE DEF c
      <4>2. c \notin Bad
        <5> HIDE DEF Bad
        <5> QED
          BY <4>1, <3>1, <2>2
      <4>3. Right(LineReader[c])
        <5> HIDE DEF Right
        <5> QED
          BY <4>2, <3>1
      <4> QED
        BY <4>3
    <3>3. LineReader[b] = Cut(Pass(SubSeq(b, 1, FirstEnd(b))) \o LineReader[c].out,
                              LineReader[c].rest)
      BY <1>3, <2>4 DEF LineStep
    <3>4. LineReader[b].rest = LineReader[c].rest
      BY <3>3 DEF Cut
    <3> HIDE DEF c
    <3>5. LineReader[b] \in Results
      BY <3>1, <3>2, <3>3, CutType
    <3> QED
      BY <3>2, <3>4, <3>5
  <2> QED
    BY <2>3, <2>4
<1> QED
  BY <1>3, <1>4

-----------------------------------------------------------------------------
(* Types.                                                                  *)

(* A chunk is a piece of the pipe, and the rest of it stays.               *)
LEMMA Chunk ==
  ASSUME TypeOK, NEW k \in 1..Len(pipe)
  PROVE  /\ SubSeq(pipe, 1, k) \in Seq(Cell) /\ Len(SubSeq(pipe, 1, k)) = k
         /\ \A i \in 1..k : SubSeq(pipe, 1, k)[i] = pipe[i]
         /\ From(pipe, k + 1) \in Seq(Cell)
         /\ Len(From(pipe, k + 1)) = Len(pipe) - k
         /\ \A i \in 1..(Len(pipe) - k) : From(pipe, k + 1)[i] = pipe[k + i]
<1>1. /\ pipe \in Seq(Cell) /\ Len(pipe) \in Nat
      /\ k \in (1 - 1)..Len(pipe) /\ 1 \in 1..(Len(pipe) + 1)
      /\ k + 1 \in 1..(Len(pipe) + 1)
  BY DEF TypeOK
<1>2. /\ SubSeq(pipe, 1, k) \in Seq(Cell)
      /\ Len(SubSeq(pipe, 1, k)) = k - 1 + 1
      /\ \A i \in 1..(k - 1 + 1) : SubSeq(pipe, 1, k)[i] = pipe[1 + i - 1]
  BY <1>1, Piece
<1>3. /\ From(pipe, k + 1) \in Seq(Cell)
      /\ Len(From(pipe, k + 1)) = Len(pipe) - (k + 1) + 1
      /\ \A i \in 1..(Len(pipe) - (k + 1) + 1) :
           From(pipe, k + 1)[i] = pipe[k + 1 + i - 1]
  BY <1>1, FromPiece
<1>4. /\ k - 1 + 1 = k /\ Len(pipe) - (k + 1) + 1 = Len(pipe) - k
      /\ \A i \in 1..k : 1 + i - 1 = i
      /\ \A i \in 1..(Len(pipe) - k) : k + 1 + i - 1 = k + i
  BY <1>1
<1>5. \A i \in 1..k : SubSeq(pipe, 1, k)[i] = pipe[i]
  BY <1>2, <1>4
<1>6. \A i \in 1..(Len(pipe) - k) : From(pipe, k + 1)[i] = pipe[k + i]
  BY <1>3, <1>4
<1> QED
  BY <1>2, <1>3, <1>4, <1>5, <1>6

(* What a receiver makes of a chunk is a result, and no complete line is   *)
(* kept back.                                                              *)
LEMMA ParseTypes ==
  ASSUME TypeOK, NEW k \in 1..Len(pipe),
         NEW r \in Parse(SubSeq(pipe, 1, k))
  PROVE  /\ r \in Results
         /\ kind \in {"status", "touch"} => Ends(r.rest) = {}
<1> DEFINE chunk == SubSeq(pipe, 1, k)
<1>1. chunk \in Seq(Cell) /\ Len(chunk) = k /\ k \in Nat /\ k >= 1
  BY Chunk DEF TypeOK
<1>2. buffer \o chunk \in Seq(Cell) /\ misread \in Nat
  BY <1>1, ConcatProperties DEF TypeOK
<1> HIDE DEF chunk
<1>3. CASE kind = "video"
  <2>1. r = FrameReader[buffer \o chunk]
    BY <1>3 DEF Parse, Frames, chunk
  <2> QED
    BY <2>1, <1>2, <1>3, FrameEquation
<1>4. CASE kind = "audio"
  <2>1. r \in Packet(chunk)
    BY <1>4 DEF Parse, chunk
  <2>2. ASSUME NEW u \in Seq(Cell) PROVE Cut(Pass(u), <<>>) \in Results
    BY PassType, EmptySeq DEF Cut, Results
  <2>3. Cut(<<>>, <<>>) \in Results
    BY EmptySeq DEF Cut, Results
  <2>4. CASE /\ r = Cut(Pass(SubSeq(chunk, 1, Size)), <<>>)
             /\ ~(Len(chunk) < Size)
    <3>1. SubSeq(chunk, 1, Size) \in Seq(Cell)
      BY <1>1, <2>4, Piece, SizeAssumption DEF SizeAssumption
    <3> QED
      BY <3>1, <2>2, <2>4, <1>4
  <2>5. \/ r = Cut(<<>>, <<>>)
        \/ r = Cut(Pass(chunk), <<>>)
        \/ r = Cut(Pass(SubSeq(chunk, 1, Size)), <<>>) /\ ~(Len(chunk) < Size)
    <3>1. CASE chunk[1][2] = 1
      BY <2>1, <3>1 DEF Packet
    <3>2. CASE chunk[1][2] # 1
      BY <2>1, <3>2 DEF Packet
    <3> QED
      BY <3>1, <3>2
  <2> QED
    BY <2>2, <2>3, <2>4, <2>5, <1>1, <1>4
<1>5. CASE kind \in {"status", "touch"}
  <2>1. r = LineReader[buffer \o chunk]
    BY <1>5 DEF Parse, Lines, chunk
  <2> QED
    BY <2>1, <1>2, LineEquation
<1> QED
  BY <1>3, <1>4, <1>5 DEF TypeOK

(* A read keeps the types.                                                 *)
LEMMA ReadTypes ==
  ASSUME TypeOK, NEW k \in 1..Len(pipe), Read(k)
  PROVE  TypeOK'
<1> DEFINE chunk == SubSeq(pipe, 1, k)
<1>1. chunk \in Seq(Cell) /\ k \in Nat /\ k >= 1
  BY Chunk DEF TypeOK
<1>2. pipe' \in Seq(Cell) /\ Len(pipe') <= Capacity
  <2>1. pipe' = From(pipe, k + 1)
    BY DEF Read
  <2>2. /\ Len(pipe') = Len(pipe) - k
        /\ Len(pipe) \in Nat /\ Len(pipe) <= Capacity
    <3>1. Len(pipe') = Len(pipe) - k
      BY <2>1, Chunk
    <3>2. Len(pipe) \in Nat /\ Len(pipe) <= Capacity
      BY LenProperties DEF TypeOK
    <3> QED
      BY <3>1, <3>2
  <2> QED
    BY <2>1, <2>2, <1>1, Chunk, BoundAssumption DEF BoundAssumption
<1>3. got' \in Seq(Cell)
  BY <1>1, ConcatProperties DEF Read, TypeOK
<1>4. aligned' \in BOOLEAN
  BY DEF Read
<1>5. UNCHANGED <<kind, action, misread, connected, next, pos, cuts, torn>>
  BY DEF Read, fixed
<1> DEFINE Right == /\ up' \in BOOLEAN /\ buffer' \in Seq(Cell)
                    /\ applied' \in Seq(Seq(Cell))
                    /\ kind \in {"status", "touch"} => Ends(buffer)' = {}
<1>6. Right
  <2>1. CASE Throws(chunk) /\ up' = FALSE /\ UNCHANGED <<buffer, applied>>
    BY <2>1 DEF TypeOK, Ends
  <2>2. ASSUME NEW r \in Parse(chunk), buffer' = r.rest,
               applied' = applied \o r.out, UNCHANGED up
        PROVE  Right
    <3>1. r \in Results /\ (kind \in {"status", "touch"} => Ends(r.rest) = {})
      BY ParseTypes
    <3>2. buffer' \in Seq(Cell) /\ r.out \in Seq(Seq(Cell))
      BY <3>1, <2>2 DEF Results
    <3>3. applied \o r.out \in Seq(Seq(Cell))
      BY <3>2, ConcatProperties DEF TypeOK
    <3>4. kind \in {"status", "touch"} => Ends(buffer)' = {}
      BY <3>1, <2>2 DEF Ends
    <3> QED
      BY <3>2, <3>3, <3>4, <2>2 DEF TypeOK
  <2>3. \/ \E r \in Parse(chunk) : /\ buffer' = r.rest
                                   /\ applied' = applied \o r.out
                                   /\ UNCHANGED up
        \/ Throws(chunk) /\ up' = FALSE /\ UNCHANGED <<buffer, applied>>
    BY DEF Read
  <2> HIDE DEF Right
  <2> QED
    BY <2>1, <2>2, <2>3
<1> QED
  BY <1>2, <1>3, <1>4, <1>5, <1>6 DEF TypeOK

(* Every step keeps the types.                                             *)
LEMMA TypeStep ==
  ASSUME TypeOK, [Next]_vars
  PROVE  TypeOK'
<1>1. CASE Write
  <2>1. Size \in Nat /\ MaxMessages \in Nat /\ Size >= 2
    BY SizeAssumption, BoundAssumption DEF SizeAssumption, BoundAssumption
  <2>2. <<next, pos + 1>> \in Cell
    BY <2>1, <1>1 DEF Write, TypeOK, Cell
  <2>3. pipe' \in Seq(Cell) /\ Len(pipe') <= Capacity
    BY <2>2, <1>1, BoundAssumption, AppendProperties
       DEF Write, TypeOK, BoundAssumption
  <2>4. /\ next' \in 1..(MaxMessages + 1) /\ pos' \in 0..(Size - 1)
        /\ pos' > 0 => next' <= MaxMessages
    BY <2>1, <1>1 DEF Write, TypeOK
  <2> QED
    BY <2>3, <2>4, <1>1 DEF Write, TypeOK, fixed, Ends
<1>2. CASE Skip
  <2>1. next' \in 1..(MaxMessages + 1)
    BY <1>2, BoundAssumption DEF Skip, TypeOK, BoundAssumption
  <2> QED
    BY <2>1, <1>2 DEF Skip, TypeOK, fixed, Ends
<1>3. CASE Disconnect
  <2>1. /\ next' \in 1..(MaxMessages + 1) /\ pos' \in 0..(Size - 1)
        /\ pos' > 0 => next' <= MaxMessages
    BY <1>3, SizeAssumption, BoundAssumption
       DEF Disconnect, TypeOK, SizeAssumption, BoundAssumption
  <2>2. pipe' \in Seq(Cell) /\ Len(pipe') <= Capacity
    BY <1>3, BoundAssumption, EmptySeq DEF Disconnect, BoundAssumption
  <2>3. cuts' \in 0..MaxCuts /\ torn' \in 0..cuts'
    BY <1>3, BoundAssumption DEF Disconnect, TypeOK, BoundAssumption
  <2> QED
    BY <2>1, <2>2, <2>3, <1>3 DEF Disconnect, TypeOK, fixed, Ends
<1>4. CASE Reconnect
  BY <1>4 DEF Reconnect, TypeOK, fixed, Ends
<1>5. CASE \E k \in 1..Len(pipe) : Read(k)
  BY <1>5, ReadTypes
<1>6. CASE UNCHANGED vars
  BY <1>6 DEF vars, fixed, TypeOK, Ends
<1> QED
  BY <1>1, <1>2, <1>3, <1>4, <1>5, <1>6 DEF Next, Done

-----------------------------------------------------------------------------
(* Sequences of cells that flow.                                           *)

Place == Nat \X (1..Size)

(* What follows a cell is of the same message or of a later one, and of a  *)
(* later one after an end.                                                 *)
LEMMA FollowsOrder ==
  ASSUME NEW c \in Place, NEW d \in Place, Follows(c, d)
  PROVE  c[1] <= d[1] /\ (c[2] = Size => c[1] < d[1])
<1>1. /\ c[1] \in Nat /\ d[1] \in Nat /\ c[2] \in Nat /\ d[2] \in Nat
      /\ c[2] <= Size /\ d[2] <= Size /\ Size \in Nat
  BY SizeAssumption DEF Place, SizeAssumption
<1> QED
  BY <1>1 DEF Follows

(* In a sequence that flows, messages come in order, and nothing of a      *)
(* message comes after its end.                                            *)
LEMMA FlowOrder ==
  ASSUME NEW b \in Seq(Place), Flow(b), NEW i \in 1..Len(b)
  PROVE  \A j \in (i + 1)..Len(b) :
           b[i][1] <= b[j][1] /\ (b[i][2] = Size => b[i][1] < b[j][1])
<1> DEFINE Right(j) ==
             b[i][1] <= b[j][1] /\ (b[i][2] = Size => b[i][1] < b[j][1])
           Bad == {j \in (i + 1)..Len(b) : ~Right(j)}
<1>1. Len(b) \in Nat /\ i \in Nat
  BY LenProperties
<1>2. SUFFICES ASSUME Bad # {} PROVE FALSE
  OBVIOUS
<1>3. PICK j \in Bad : \A m \in Bad : j <= m
  <2>1. Bad \in SUBSET Nat
    BY <1>1
  <2> HIDE DEF Bad
  <2> QED
    BY <1>2, <2>1, Least
<1>4. j \in (i + 1)..Len(b) /\ ~Right(j)
  OBVIOUS
<1>5. j - 1 \in 1..(Len(b) - 1) /\ j \in 1..Len(b) /\ j - 1 + 1 = j
  BY <1>1, <1>4
<1>6. Follows(b[j - 1], b[j])
  BY <1>5 DEF Flow
<1>7. b[i] \in Place /\ b[j - 1] \in Place /\ b[j] \in Place
  BY <1>1, <1>5
<1>8. /\ b[j - 1][1] <= b[j][1]
      /\ b[j - 1][2] = Size => b[j - 1][1] < b[j][1]
  BY <1>6, <1>7, FollowsOrder
<1>9. CASE j = i + 1
  BY <1>1, <1>4, <1>8, <1>9
<1>10. CASE j # i + 1
  <2>1. j - 1 \in (i + 1)..Len(b) /\ j - 1 < j
    BY <1>1, <1>4, <1>10
  <2>2. Right(j - 1)
    BY <2>1, <1>3
  <2>3. /\ b[i][1] \in Nat /\ b[j - 1][1] \in Nat /\ b[j][1] \in Nat
    BY <1>7 DEF Place
  <2>4. b[i][1] <= b[j][1]
    BY <2>2, <2>3, <1>8
  <2>5. b[i][2] = Size => b[i][1] < b[j][1]
    BY <2>2, <2>3, <1>8
  <2> QED
    BY <2>4, <2>5, <1>4
<1> QED
  BY <1>9, <1>10

(* A clean sequence begins with a message, part by part.                   *)
LEMMA CleanStart ==
  ASSUME NEW b \in Seq(Place), Clean(b)
  PROVE  \A j \in 1..Len(b) : j <= Size => b[j] = <<b[1][1], j>>
<1> DEFINE Bad == {j \in 1..Len(b) : j <= Size /\ b[j] # <<b[1][1], j>>}
<1>1. Len(b) \in Nat /\ Size \in Nat
  BY LenProperties, SizeAssumption DEF SizeAssumption
<1>2. SUFFICES ASSUME Bad # {} PROVE FALSE
  OBVIOUS
<1>3. PICK j \in Bad : \A m \in Bad : j <= m
  <2>1. Bad \in SUBSET Nat
    BY <1>1
  <2> HIDE DEF Bad
  <2> QED
    BY <1>2, <2>1, Least
<1>4. j \in 1..Len(b) /\ j <= Size /\ b[j] # <<b[1][1], j>>
  OBVIOUS
<1>5. 1 \in 1..Len(b) /\ b # <<>>
  BY <1>1, <1>4
<1>6. b[1][2] = 1 /\ b[1] \in Place /\ b[j] \in Place
  BY <1>4, <1>5 DEF Clean
<1>7. CASE j = 1
  BY <1>4, <1>6, <1>7 DEF Place
<1>8. CASE j # 1
  <2>1. /\ j - 1 \in 1..(Len(b) - 1) /\ j - 1 \in 1..Len(b)
        /\ j - 1 < j /\ j - 1 + 1 = j /\ j - 1 < Size
    BY <1>1, <1>4, <1>8
  <2>2. b[j - 1] = <<b[1][1], j - 1>>
    <3>1. j - 1 \notin Bad
      <4> HIDE DEF Bad
      <4> QED
        BY <1>1, <1>3, <2>1, <1>4
    <3>2. j - 1 <= Size
      BY <1>1, <2>1, <1>4
    <3> QED
      BY <3>1, <3>2, <2>1
  <2>3. Follows(b[j - 1], b[j])
    BY <2>1 DEF Clean, Flow
  <2>4. b[j][1] = b[1][1] /\ b[j][2] = j
    BY <2>1, <2>2, <2>3 DEF Follows
  <2> QED
    BY <2>4, <1>4, <1>6 DEF Place
<1> QED
  BY <1>7, <1>8

(* A piece of a sequence that flows does; after an end it is clean.        *)
LEMMA FlowPiece ==
  ASSUME NEW b \in Seq(Place), Flow(b), NEW i \in 1..(Len(b) + 1),
         NEW j \in (i - 1)..Len(b)
  PROVE  Flow(SubSeq(b, i, j))
<1>1. Len(b) \in Nat /\ i \in Nat /\ j \in Int
  BY LenProperties
<1>2. /\ Len(SubSeq(b, i, j)) = j - i + 1
      /\ \A m \in 1..(j - i + 1) : SubSeq(b, i, j)[m] = b[i + m - 1]
  BY Piece
<1>3. ASSUME NEW m \in 1..(j - i + 1 - 1)
      PROVE  Follows(SubSeq(b, i, j)[m], SubSeq(b, i, j)[m + 1])
  <2>1. m \in 1..(j - i + 1) /\ m + 1 \in 1..(j - i + 1)
    BY <1>1
  <2>2. /\ SubSeq(b, i, j)[m] = b[i + m - 1]
        /\ SubSeq(b, i, j)[m + 1] = b[i + (m + 1) - 1]
    BY <1>2, <2>1
  <2>3. i + m - 1 \in 1..(Len(b) - 1) /\ i + (m + 1) - 1 = i + m - 1 + 1
    BY <1>1
  <2> QED
    BY <2>2, <2>3 DEF Flow
<1> DEFINE c == SubSeq(b, i, j)
<1>4. Len(c) = j - i + 1
  BY <1>2
<1>5. \A m \in 1..(j - i + 1 - 1) : Follows(c[m], c[m + 1])
  BY <1>3
<1> HIDE DEF c
<1>6. Flow(c)
  BY <1>4, <1>5 DEF Flow
<1> QED
  BY <1>6 DEF c

(* What flows is clean behind the end of a message.                        *)
LEMMA CleanAfterEnd ==
  ASSUME NEW b \in Seq(Place), Flow(b),
         NEW j \in 1..Len(b), b[j][2] = Size
  PROVE  Clean(From(b, j + 1))
<1>1. Len(b) \in Nat /\ j + 1 \in 1..(Len(b) + 1) /\ Len(b) \in j..Len(b)
      /\ j \in Nat
  BY LenProperties
<1>2. Len(b) \in ((j + 1) - 1)..Len(b)
  BY <1>1
<1>3. Flow(From(b, j + 1))
  BY <1>1, <1>2, FlowPiece DEF From
<1>4. ASSUME From(b, j + 1) # <<>> PROVE From(b, j + 1)[1][2] = 1
  <2>1. /\ From(b, j + 1) \in Seq(Place)
        /\ Len(From(b, j + 1)) = Len(b) - (j + 1) + 1
        /\ \A m \in 1..(Len(b) - (j + 1) + 1) :
             From(b, j + 1)[m] = b[j + 1 + m - 1]
    BY <1>1, FromPiece
  <2>2. Len(b) - (j + 1) + 1 >= 1
    BY <2>1, <1>4, EmptySeq
  <2>3. From(b, j + 1)[1] = b[j + 1]
    BY <2>1, <2>2, <1>1
  <2>4. j \in 1..(Len(b) - 1) /\ j + 1 \in 1..Len(b)
    BY <2>2, <1>1
  <2>5. Follows(b[j], b[j + 1]) /\ b[j + 1] \in Place
    BY <2>4 DEF Flow
  <2>6. b[j + 1][2] = 1
    BY <2>5, SizeAssumption DEF Follows, Place, SizeAssumption
  <2> QED
    BY <2>3, <2>6
<1> QED
  BY <1>3, <1>4 DEF Clean

(* A cell that may follow the last one may be added.                       *)
LEMMA FlowAppend ==
  ASSUME NEW b \in Seq(Place), Flow(b), NEW d \in Place,
         b # <<>> => Follows(b[Len(b)], d)
  PROVE  Flow(Append(b, d))
<1>1. /\ Len(b) \in Nat
      /\ Len(Append(b, d)) = Len(b) + 1
      /\ \A i \in 1..Len(b) : Append(b, d)[i] = b[i]
      /\ Append(b, d)[Len(b) + 1] = d
  BY AppendProperties
<1>2. ASSUME NEW i \in 1..Len(b)
      PROVE  Follows(Append(b, d)[i], Append(b, d)[i + 1])
  <2>1. CASE i = Len(b)
    <3>1. b # <<>>
      BY <2>1, <1>1
    <3> QED
      BY <3>1, <2>1, <1>1
  <2>2. CASE i # Len(b)
    <3>1. i \in 1..(Len(b) - 1) /\ i + 1 \in 1..Len(b)
      BY <2>2, <1>1
    <3> QED
      BY <3>1, <1>1 DEF Flow
  <2> QED
    BY <2>1, <2>2
<1>3. Len(b) + 1 - 1 = Len(b)
  BY <1>1
<1> QED
  BY <1>1, <1>2, <1>3 DEF Flow

(* The last cell of a sequence that flows may be taken off, and follows    *)
(* the one before it.                                                      *)
LEMMA FlowButLast ==
  ASSUME NEW b \in Seq(Place), NEW d \in Place, Flow(Append(b, d))
  PROVE  Flow(b) /\ (b # <<>> => Follows(b[Len(b)], d))
<1>1. /\ Len(b) \in Nat
      /\ Len(Append(b, d)) = Len(b) + 1
      /\ \A i \in 1..Len(b) : Append(b, d)[i] = b[i]
      /\ Append(b, d)[Len(b) + 1] = d
  BY AppendProperties
<1>2. ASSUME NEW i \in 1..(Len(b) - 1)
      PROVE  Follows(b[i], b[i + 1])
  <2>1. i \in 1..(Len(b) + 1 - 1) /\ i \in 1..Len(b) /\ i + 1 \in 1..Len(b)
    BY <1>1
  <2> QED
    BY <2>1, <1>1 DEF Flow
<1>3. ASSUME b # <<>> PROVE Follows(b[Len(b)], d)
  <2>1. Len(b) \in 1..(Len(b) + 1 - 1) /\ Len(b) \in 1..Len(b)
    BY <1>1, <1>3, EmptySeq
  <2> QED
    BY <2>1, <1>1 DEF Flow
<1> QED
  BY <1>2, <1>3 DEF Flow

(* Both for clean sequences.                                               *)
LEMMA CleanAppend ==
  ASSUME NEW b \in Seq(Place), NEW d \in Place,
         IF b = <<>> THEN d[2] = 1 ELSE Clean(b) /\ Follows(b[Len(b)], d)
  PROVE  Clean(Append(b, d))
<1>1. Flow(b)
  BY DEF Clean, Flow
<1>2. Flow(Append(b, d))
  BY <1>1, FlowAppend
<1>3. Append(b, d)[1][2] = 1
  <2>1. CASE b = <<>>
    BY <2>1, AppendProperties, EmptySeq
  <2>2. CASE b # <<>>
    <3>1. 1 \in 1..Len(b)
      BY <2>2, EmptySeq
    <3> QED
      BY <3>1, <2>2, AppendProperties DEF Clean
  <2> QED
    BY <2>1, <2>2
<1> QED
  BY <1>2, <1>3 DEF Clean

(* What a clean sequence is without its last cell.                         *)
LEMMA CleanButLast ==
  ASSUME NEW b \in Seq(Place), NEW d \in Place, Clean(Append(b, d))
  PROVE  IF b = <<>> THEN d[2] = 1 ELSE Clean(b) /\ Follows(b[Len(b)], d)
<1>1. /\ Append(b, d) \in Seq(Place) /\ Append(b, d) # <<>>
      /\ Flow(Append(b, d)) /\ Append(b, d)[1][2] = 1
  BY AppendProperties DEF Clean
<1>2. CASE b = <<>>
  BY <1>1, <1>2, AppendProperties, EmptySeq
<1>3. CASE b # <<>>
  <2>1. 1 \in 1..Len(b)
    BY <1>3, EmptySeq
  <2>2. b[1][2] = 1
    BY <2>1, <1>1, AppendProperties
  <2> QED
    BY <2>2, <1>1, <1>3, FlowButLast DEF Clean
<1> QED
  BY <1>2, <1>3

-----------------------------------------------------------------------------
(* What is to come comes after what has ended.                             *)

(* Cells have a place in the order.                                        *)
LEMMA Places ==
  ASSUME TypeOK
  PROVE  /\ pipe \in Seq(Place) /\ buffer \in Seq(Place) /\ got \in Seq(Place)
         /\ buffer \o pipe \in Seq(Place)
         /\ <<next, pos + 1>> \in Place
         /\ Ahead \in Seq(Place) /\ Sight \in Seq(Place)
<1>1. Cell \subseteq Place
  BY BoundAssumption DEF Cell, Place, BoundAssumption
<1>2. Seq(Cell) \subseteq Seq(Place)
  BY <1>1, SeqMonotonic
<1>3. <<next, pos + 1>> \in Place
  BY SizeAssumption, BoundAssumption
     DEF TypeOK, Place, SizeAssumption, BoundAssumption
<1>4. pipe \in Seq(Place) /\ buffer \in Seq(Place) /\ got \in Seq(Place)
  BY <1>2 DEF TypeOK
<1>5. buffer \o pipe \in Seq(Place)
  BY <1>4, ConcatProperties
<1> QED
  BY <1>3, <1>4, <1>5, AppendProperties DEF Ahead, Sight

(* The same in the next state.                                             *)
LEMMA PlacesAfter ==
  ASSUME TypeOK'
  PROVE  /\ pipe' \in Seq(Place) /\ buffer' \in Seq(Place)
         /\ got' \in Seq(Place) /\ (buffer \o pipe)' \in Seq(Place)
         /\ <<next', pos' + 1>> \in Place
<1>1. Cell \subseteq Place
  BY BoundAssumption DEF Cell, Place, BoundAssumption
<1>2. Seq(Cell) \subseteq Seq(Place)
  BY <1>1, SeqMonotonic
<1>3. <<next', pos' + 1>> \in Place
  BY SizeAssumption, BoundAssumption
     DEF TypeOK, Place, SizeAssumption, BoundAssumption
<1>4. /\ pipe' \in Seq(Place) /\ buffer' \in Seq(Place)
      /\ got' \in Seq(Place)
  BY <1>2 DEF TypeOK
<1>5. (buffer \o pipe)' \in Seq(Place)
  BY <1>4, ConcatProperties
<1> QED
  BY <1>3, <1>4, <1>5

(* A message has ended in b when its last cell is in b.                    *)
LEMMA EndedIs ==
  ASSUME NEW b \in Seq(Place)
  PROVE  /\ Ended(b) \subseteq Nat
         /\ \A n : n \in Ended(b)
                     <=> \E i \in 1..Len(b) : b[i][1] = n /\ b[i][2] = Size
<1>1. DOMAIN b = 1..Len(b) /\ \A i \in 1..Len(b) : b[i] \in Place
  BY LenProperties
<1> QED
  BY <1>1 DEF Ended, Ends, Place

(* What ends in one of two sequences ends in both together.                *)
LEMMA EndedConcat ==
  ASSUME NEW b \in Seq(Place), NEW c \in Seq(Place)
  PROVE  Ended(b \o c) = Ended(b) \cup Ended(c)
<1> DEFINE e == b \o c
<1>1. /\ e \in Seq(Place) /\ Len(e) = Len(b) + Len(c)
      /\ \A i \in 1..(Len(b) + Len(c)) :
           e[i] = IF i <= Len(b) THEN b[i] ELSE c[i - Len(b)]
      /\ Len(b) \in Nat /\ Len(c) \in Nat
  BY ConcatProperties, LenProperties
<1> HIDE DEF e
<1>2. ASSUME NEW n \in Ended(e) PROVE n \in Ended(b) \cup Ended(c)
  <2>1. PICK i \in 1..Len(e) : e[i][1] = n /\ e[i][2] = Size
    <3>1. e \in Seq(Place)
      BY <1>1
    <3> QED
      BY <3>1, EndedIs
  <2>2. CASE i <= Len(b)
    <3>1. i \in 1..Len(b) /\ e[i] = b[i]
      BY <1>1, <2>2
    <3> QED
      BY <3>1, <2>1, EndedIs
  <2>3. CASE ~(i <= Len(b))
    <3>1. i - Len(b) \in 1..Len(c) /\ e[i] = c[i - Len(b)]
      BY <1>1, <2>3
    <3> QED
      BY <3>1, <2>1, EndedIs
  <2> QED
    BY <2>2, <2>3
<1>3. ASSUME NEW n \in Ended(b) PROVE n \in Ended(e)
  <2>1. PICK i \in 1..Len(b) : b[i][1] = n /\ b[i][2] = Size
    BY EndedIs
  <2>2. i \in 1..Len(e) /\ e[i] = b[i]
    BY <1>1
  <2> QED
    BY <1>1, <2>1, <2>2, EndedIs
<1>4. ASSUME NEW n \in Ended(c) PROVE n \in Ended(e)
  <2>1. PICK i \in 1..Len(c) : c[i][1] = n /\ c[i][2] = Size
    BY EndedIs
  <2>2. i + Len(b) \in 1..Len(e) /\ e[i + Len(b)] = c[i]
    <3>1. /\ i + Len(b) \in 1..(Len(b) + Len(c)) /\ ~(i + Len(b) <= Len(b))
          /\ i + Len(b) - Len(b) = i
      BY <1>1
    <3> QED
      BY <3>1, <1>1
  <2> QED
    BY <1>1, <2>1, <2>2, EndedIs
<1>5. Ended(e) = Ended(b) \cup Ended(c)
  BY <1>2, <1>3, <1>4
<1> QED
  BY <1>5 DEF e

(* The next message may be skipped: a later one may follow as well.        *)
LEMMA FollowsLater ==
  ASSUME NEW c \in Place, NEW n \in Nat, Follows(c, <<n, 1>>)
  PROVE  Follows(c, <<n + 1, 1>>)
<1>1. c[1] \in Nat /\ c[2] \in Nat /\ c[2] >= 1
  BY SizeAssumption DEF Place, SizeAssumption
<1> QED
  BY <1>1 DEF Follows

(* A cell that was written is followed by the one to be written next.      *)
LEMMA WriteFollows ==
  ASSUME TypeOK, Write
  PROVE  Follows(<<next, pos + 1>>, <<next', pos' + 1>>)
BY SizeAssumption, BoundAssumption
   DEF Write, Follows, TypeOK, SizeAssumption, BoundAssumption

(* Each step keeps what is written in order and after what has arrived.    *)
LEMMA FreshStep ==
  ASSUME TypeOK, TypeOK', Fresh, [Next]_vars
  PROVE  Fresh'
<1> DEFINE d == <<next, pos + 1>>
<1>1. /\ pipe \in Seq(Place) /\ pipe' \in Seq(Place)
      /\ d \in Place /\ d' \in Place /\ Ahead \in Seq(Place)
      /\ Len(pipe) \in Nat /\ DOMAIN pipe = 1..Len(pipe)
      /\ DOMAIN pipe' = 1..Len(pipe')
  <2>1. pipe \in Seq(Place) /\ d \in Place /\ Ahead \in Seq(Place)
    BY Places
  <2>2. pipe' \in Seq(Place) /\ d' \in Place
    BY PlacesAfter
  <2> QED
    BY <2>1, <2>2, LenProperties
<1>2. /\ next \in Nat /\ next' \in Nat
      /\ Arrived \subseteq Nat
  <2>1. Arrived \subseteq Nat
    BY EndedIs, Places DEF Arrived
  <2> QED
    BY <2>1, BoundAssumption DEF TypeOK, BoundAssumption
<1>3. Flow(Append(pipe, d))
  BY DEF Fresh, Ahead
<1>4. \A n \in Arrived : n < next /\ \A i \in 1..Len(pipe) : n < pipe[i][1]
  BY <1>1 DEF Fresh
<1> DEFINE After == /\ Flow(Append(pipe', d'))
                    /\ \A n \in Arrived' :
                         n < next' /\ \A i \in 1..Len(pipe') : n < pipe'[i][1]
<1> SUFFICES After
  BY <1>1 DEF Fresh, Ahead
<1>5. CASE Write
  <2>1. pipe' = Append(pipe, d) /\ got' = got
    BY <1>5 DEF Write
  <2>2. Flow(Append(pipe', d'))
    <3>1. Follows(d, d')
      BY <1>5, WriteFollows
    <3>2. pipe'[Len(pipe')] = d
      BY <1>1, <2>1, AppendProperties
    <3> QED
      BY <3>1, <3>2, <2>1, <1>1, <1>3, FlowAppend
  <2>3. Arrived' = Arrived
    BY <2>1 DEF Arrived, Ended, Ends
  <2>4. next <= next'
    BY <1>2, <1>5 DEF Write
  <2>5. ASSUME NEW n \in Arrived, NEW i \in 1..Len(pipe')
        PROVE  n < pipe'[i][1]
    <3>1. CASE i \in 1..Len(pipe)
      <4>1. pipe'[i] = pipe[i]
        BY <3>1, <2>1, <1>1, AppendProperties
      <4> QED
        BY <4>1, <3>1, <1>4
    <3>2. CASE i = Len(pipe) + 1
      <4>1. pipe'[i] = d
        BY <3>2, <2>1, <1>1, AppendProperties
      <4> QED
        BY <4>1, <1>4
    <3>3. Len(pipe') = Len(pipe) + 1
      BY <2>1, <1>1, AppendProperties
    <3> QED
      BY <3>1, <3>2, <3>3, <1>1
  <2>6. \A n \in Arrived : n < next'
    BY <2>4, <1>2, <1>4
  <2> QED
    BY <2>2, <2>3, <2>5, <2>6
<1>6. CASE Skip
  <2>1. pipe' = pipe /\ got' = got /\ d = <<next, 1>> /\ d' = <<next + 1, 1>>
    BY <1>6 DEF Skip
  <2>2. Flow(pipe) /\ (pipe # <<>> => Follows(pipe[Len(pipe)], d))
    BY <1>1, <1>3, FlowButLast
  <2>3. pipe # <<>> => Follows(pipe[Len(pipe)], d')
    <3>1. SUFFICES ASSUME pipe # <<>> PROVE Follows(pipe[Len(pipe)], d')
      OBVIOUS
    <3>2. Len(pipe) \in 1..Len(pipe)
      BY <3>1, <1>1, EmptySeq
    <3>3. pipe[Len(pipe)] \in Place
      BY <3>2, <1>1
    <3> QED
      BY <3>1, <3>3, <2>1, <2>2, <1>2, FollowsLater
  <2>4. Flow(Append(pipe, d'))
    <3> HIDE DEF d
    <3> QED
      BY <2>2, <2>3, <1>1, FlowAppend
  <2>5. Arrived' = Arrived
    BY <2>1 DEF Arrived, Ended, Ends
  <2>6. next' = next + 1
    BY <1>6 DEF Skip
  <2> QED
    BY <2>1, <2>4, <2>5, <2>6, <1>2, <1>4
<1>7. CASE Disconnect
  <2>1. pipe' = <<>> /\ got' = got /\ next <= next'
    BY <1>2, <1>7 DEF Disconnect
  <2>2. Flow(Append(pipe', d'))
    <3>1. Len(Append(pipe', d')) = 1
      BY <2>1, <1>1, AppendProperties, EmptySeq
    <3> HIDE DEF d
    <3> QED
      BY <3>1 DEF Flow
  <2>3. Arrived' = Arrived
    BY <2>1 DEF Arrived, Ended, Ends
  <2>4. Len(pipe') = 0
    BY <2>1
  <2>5. \A n \in Arrived : n < next'
    BY <2>1, <1>2, <1>4
  <2> QED
    BY <2>2, <2>3, <2>4, <2>5
<1>8. CASE UNCHANGED <<next, pos, pipe, got>>
  <2>1. Arrived' = Arrived
    BY <1>8 DEF Arrived, Ended, Ends
  <2> QED
    BY <2>1, <1>3, <1>4, <1>8
<1>9. ASSUME NEW k \in 1..Len(pipe), Read(k)
      PROVE  After
  <2> DEFINE chunk == SubSeq(pipe, 1, k)
  <2>1. /\ pipe' = From(pipe, k + 1) /\ got' = got \o chunk
        /\ next' = next /\ d' = d
    BY <1>9 DEF Read
  <2>2. /\ chunk \in Seq(Place) /\ Len(chunk) = k /\ k \in Nat
        /\ \A i \in 1..k : chunk[i] = pipe[i]
        /\ Len(pipe') = Len(pipe) - k
        /\ \A i \in 1..(Len(pipe) - k) : pipe'[i] = pipe[k + i]
    <3>1. chunk \in Seq(Place)
      <4>1. 1 \in 1..(Len(pipe) + 1) /\ k \in (1 - 1)..Len(pipe)
        BY <1>1
      <4> QED
        BY <4>1, <1>1, Piece
    <3>2. /\ Len(chunk) = k /\ k \in Nat
          /\ \A i \in 1..k : chunk[i] = pipe[i]
      BY Chunk
    <3>3. /\ Len(pipe') = Len(pipe) - k
          /\ \A i \in 1..(Len(pipe) - k) : pipe'[i] = pipe[k + i]
      BY <2>1, Chunk
    <3> HIDE DEF chunk
    <3> QED
      BY <3>1, <3>2, <3>3
  <2> HIDE DEF chunk
  <2>3. /\ Len(Append(pipe, d)) = Len(pipe) + 1
        /\ \A i \in 1..Len(pipe) : Append(pipe, d)[i] = pipe[i]
        /\ Append(pipe, d)[Len(pipe) + 1] = d
    BY <1>1, AppendProperties
  <2>4. Flow(Append(pipe', d'))
    <3>1. /\ Len(Append(pipe', d)) = Len(pipe') + 1
          /\ \A i \in 1..Len(pipe') : Append(pipe', d)[i] = pipe'[i]
          /\ Append(pipe', d)[Len(pipe') + 1] = d
      BY <1>1, AppendProperties
    <3> HIDE DEF d
    <3>2. ASSUME NEW i \in 1..(Len(pipe') + 1)
          PROVE  Append(pipe', d)[i] = Append(pipe, d)[k + i]
      <4>1. CASE i = Len(pipe') + 1
        BY <4>1, <3>1, <2>2, <2>3, <1>1
      <4>2. CASE i # Len(pipe') + 1
        <5>1. /\ i \in 1..(Len(pipe) - k) /\ k + i \in 1..Len(pipe)
              /\ i \in 1..Len(pipe')
          BY <4>2, <2>2, <1>1
        <5> QED
          BY <5>1, <3>1, <2>2, <2>3
      <4> QED
        BY <4>1, <4>2
    <3>3. ASSUME NEW i \in 1..Len(pipe')
          PROVE  Follows(Append(pipe', d)[i], Append(pipe', d)[i + 1])
      <4>1. /\ i \in 1..(Len(pipe') + 1) /\ i + 1 \in 1..(Len(pipe') + 1)
            /\ k + i \in 1..(Len(pipe) + 1 - 1) /\ k + (i + 1) = k + i + 1
        BY <2>2, <1>1
      <4> DEFINE a == Append(pipe, d)
                 e == Append(pipe', d)
      <4>2. Len(a) = Len(pipe) + 1 /\ Flow(a)
        BY <2>3, <1>3 DEF d
      <4>3. e[i] = a[k + i] /\ e[i + 1] = a[k + (i + 1)]
        BY <4>1, <3>2
      <4> HIDE DEF a, e
      <4>4. Follows(a[k + i], a[k + i + 1])
        BY <4>1, <4>2 DEF Flow
      <4>5. a[k + (i + 1)] = a[k + i + 1]
        BY <4>1
      <4>6. Follows(e[i], e[i + 1])
        BY <4>3, <4>4, <4>5
      <4> QED
        BY <4>6 DEF e
    <3>4. Len(pipe') + 1 - 1 = Len(pipe')
      BY <2>2, <1>1
    <3> QED
      BY <3>1, <3>3, <3>4, <2>1 DEF Flow
  <2>5. Arrived' = Arrived \cup Ended(chunk)
    <3>1. got \in Seq(Place)
      BY Places
    <3>2. Arrived' = Ended(got \o chunk)
      BY <2>1 DEF Arrived, Ended, Ends
    <3> QED
      BY <3>1, <3>2, <2>2, EndedConcat DEF Arrived
  <2>6. ASSUME NEW n \in Arrived
        PROVE  n < next' /\ \A i \in 1..Len(pipe') : n < pipe'[i][1]
    <3>1. ASSUME NEW i \in 1..Len(pipe') PROVE n < pipe'[i][1]
      <4>1. i \in 1..(Len(pipe) - k) /\ k + i \in 1..Len(pipe)
        BY <2>2, <1>1
      <4> QED
        BY <4>1, <2>2, <1>4
    <3> QED
      BY <3>1, <2>1, <1>4
  <2>7. ASSUME NEW n \in Ended(chunk)
        PROVE  n < next' /\ \A i \in 1..Len(pipe') : n < pipe'[i][1]
    <3>1. PICK m \in 1..k : chunk[m][1] = n /\ chunk[m][2] = Size
      BY <2>2, EndedIs
    <3>2. pipe[m][1] = n /\ pipe[m][2] = Size /\ m \in 1..Len(pipe)
      BY <3>1, <2>2, <1>1
    <3> DEFINE a == Append(pipe, d)
    <3>3. a \in Seq(Place) /\ Flow(a) /\ m \in 1..Len(a) /\ a[m] = pipe[m]
      BY <3>2, <2>3, <1>1, <1>3, AppendProperties
    <3>4. Len(a) = Len(pipe) + 1
      BY <2>3
    <3> HIDE DEF a
    <3>5. \A j \in (m + 1)..(Len(pipe) + 1) : n < a[j][1]
      BY <3>2, <3>3, <3>4, FlowOrder
    <3>6. n < next
      <4>1. Len(pipe) + 1 \in (m + 1)..(Len(pipe) + 1)
        BY <3>2, <1>1
      <4>2. a[Len(pipe) + 1] = d
        BY <2>3 DEF a
      <4> QED
        BY <4>1, <4>2, <3>5
    <3>7. ASSUME NEW i \in 1..Len(pipe') PROVE n < pipe'[i][1]
      <4>1. /\ i \in 1..(Len(pipe) - k) /\ k + i \in 1..Len(pipe)
            /\ k + i \in (m + 1)..(Len(pipe) + 1)
        BY <2>2, <1>1
      <4>2. a[k + i] = pipe'[i]
        BY <4>1, <2>2, <2>3 DEF a
      <4> QED
        BY <4>1, <4>2, <3>5
    <3> QED
      BY <3>6, <3>7, <2>1
  <2> QED
    BY <2>4, <2>5, <2>6, <2>7
<1>10. CASE Reconnect
  BY <1>8, <1>10 DEF Reconnect
<1>11. CASE UNCHANGED vars
  BY <1>8, <1>11 DEF vars
<1>12. After
  <2> HIDE DEF After
  <2> QED
    BY <1>5, <1>6, <1>7, <1>9, <1>10, <1>11 DEF Next, Done
<1> QED
  BY <1>1, <1>12 DEF Fresh, Ahead

-----------------------------------------------------------------------------
(* Messages passed on.                                                     *)

(* A message is a row of cells, and its content tells its number.          *)
LEMMA MessageIs ==
  ASSUME NEW n \in Nat
  PROVE  /\ Message(n) \in Seq(Place) /\ Len(Message(n)) = Size
         /\ \A i \in 1..Size : Message(n)[i] = <<n, i>>
<1>1. Size \in Nat
  BY SizeAssumption DEF SizeAssumption
<1>2. Message(n) \in [1..Size -> Place]
  BY DEF Message, Place
<1> QED
  BY <1>1, <1>2 DEF Message

(* The content of a message begins with the number of the message.         *)
LEMMA ContentIs ==
  ASSUME NEW n \in Nat
  PROVE  /\ Content(n) \in Seq(Place) /\ Content(n) # <<>>
         /\ Content(n)[1][1] = n
<1>1. /\ Message(n) \in Seq(Place) /\ Len(Message(n)) = Size
      /\ \A i \in 1..Size : Message(n)[i] = <<n, i>>
      /\ Size \in Nat /\ Size >= 2
  BY MessageIs, SizeAssumption DEF SizeAssumption
<1>2. Message(n) # <<>>
  BY <1>1, EmptySeq
<1>3. /\ Tail(Message(n)) \in Seq(Place) /\ Len(Tail(Message(n))) = Size - 1
      /\ \A i \in 1..(Size - 1) : Tail(Message(n))[i] = Message(n)[i + 1]
  BY <1>1, <1>2, HeadTailProperties
<1>4. Tail(Message(n)) # <<>> /\ Tail(Message(n))[1] = <<n, 2>>
  <2>1. Len(Tail(Message(n))) # 0
    <3>1. Size - 1 # 0
      BY <1>1
    <3> QED
      BY <3>1, <1>3
  <2>2. 1 \in 1..(Size - 1) /\ 1 + 1 \in 1..Size /\ 1 + 1 = 2
    BY <1>1
  <2>3. Tail(Message(n))[1] = <<n, 2>>
    BY <1>1, <1>3, <2>2
  <2> QED
    BY <2>1, <2>3, EmptySeq
<1>5. Message(n)[1] = <<n, 1>>
  <2>1. 1 \in 1..Size
    BY <1>1
  <2> QED
    BY <2>1, <1>1
<1>6. CASE kind = "video"
  BY <1>3, <1>4, <1>6 DEF Content
<1>7. CASE kind # "video"
  BY <1>1, <1>2, <1>5, <1>7 DEF Content
<1> QED
  BY <1>6, <1>7

(* Nothing, one message, and some messages followed by later ones.         *)
LEMMA DeliversNone == Delivers(<<>>, {})
<1>1. DOMAIN <<>> = {}
  OBVIOUS
<1> QED
  BY <1>1 DEF Delivers

(* One message delivers itself.                                            *)
LEMMA DeliversOne ==
  ASSUME NEW n
  PROVE  Delivers(<<Content(n)>>, {n})
<1> DEFINE s == <<Content(n)>>
<1>1. DOMAIN s = {1} /\ s[1] = Content(n)
  OBVIOUS
<1> HIDE DEF s
<1>2. {s[i] : i \in DOMAIN s} = {Content(m) : m \in {n}}
  BY <1>1
<1>3. \A i, j \in DOMAIN s : i < j => s[i][1][1] < s[j][1][1]
  BY <1>1
<1>4. Delivers(s, {n})
  BY <1>2, <1>3 DEF Delivers
<1> QED
  BY <1>4 DEF s

(* Later messages are delivered behind earlier ones.                       *)
LEMMA DeliversJoin ==
  ASSUME NEW D, NEW s \in Seq(D), NEW t \in Seq(D),
         NEW M \in SUBSET Nat, NEW N \in SUBSET Nat,
         Delivers(s, M), Delivers(t, N), \A m \in M, n \in N : m < n
  PROVE  Delivers(s \o t, M \cup N)
<1> DEFINE e == s \o t
<1>1. /\ Len(e) = Len(s) + Len(t) /\ Len(s) \in Nat /\ Len(t) \in Nat
      /\ \A i \in 1..(Len(s) + Len(t)) :
           e[i] = IF i <= Len(s) THEN s[i] ELSE t[i - Len(s)]
      /\ DOMAIN e = 1..Len(e) /\ DOMAIN s = 1..Len(s) /\ DOMAIN t = 1..Len(t)
  BY ConcatProperties, LenProperties
<1> HIDE DEF e
<1>2. /\ \A i \in 1..Len(s) : i \in 1..Len(e) /\ e[i] = s[i]
      /\ \A i \in 1..Len(t) :
           i + Len(s) \in 1..Len(e) /\ e[i + Len(s)] = t[i]
  <2>1. \A i \in 1..Len(s) : i \in 1..Len(e) /\ e[i] = s[i]
    BY <1>1
  <2>2. ASSUME NEW i \in 1..Len(t)
        PROVE  i + Len(s) \in 1..Len(e) /\ e[i + Len(s)] = t[i]
    <3>1. /\ i + Len(s) \in 1..(Len(s) + Len(t)) /\ ~(i + Len(s) <= Len(s))
          /\ i + Len(s) - Len(s) = i
      BY <1>1
    <3> QED
      BY <3>1, <1>1
  <2> QED
    BY <2>1, <2>2
<1>3. \A i \in 1..Len(e) : \/ i \in 1..Len(s) /\ e[i] = s[i]
                           \/ /\ i - Len(s) \in 1..Len(t) /\ Len(s) < i
                              /\ e[i] = t[i - Len(s)]
  BY <1>1
<1>4. /\ {s[i] : i \in 1..Len(s)} = {Content(n) : n \in M}
      /\ {t[i] : i \in 1..Len(t)} = {Content(n) : n \in N}
  BY <1>1 DEF Delivers
<1>5. {e[i] : i \in 1..Len(e)} = {Content(n) : n \in M \cup N}
  <2>1. {e[i] : i \in 1..Len(e)}
          = {s[i] : i \in 1..Len(s)} \cup {t[i] : i \in 1..Len(t)}
    <3>1. ASSUME NEW i \in 1..Len(e)
          PROVE  e[i] \in {s[j] : j \in 1..Len(s)}
                            \cup {t[j] : j \in 1..Len(t)}
      BY <1>3
    <3>2. ASSUME NEW j \in 1..Len(s) PROVE s[j] \in {e[i] : i \in 1..Len(e)}
      BY <1>2
    <3>3. ASSUME NEW j \in 1..Len(t) PROVE t[j] \in {e[i] : i \in 1..Len(e)}
      BY <1>2
    <3> QED
      BY <3>1, <3>2, <3>3
  <2> QED
    BY <2>1, <1>4
<1>6. ASSUME NEW i \in 1..Len(e), NEW j \in 1..Len(e), i < j
      PROVE  e[i][1][1] < e[j][1][1]
  <2>1. CASE i \in 1..Len(s) /\ j \in 1..Len(s)
    BY <2>1, <1>1, <1>2, <1>6 DEF Delivers
  <2>2. CASE i \in 1..Len(s) /\ j \notin 1..Len(s)
    <3>1. e[i] = s[i] /\ j - Len(s) \in 1..Len(t) /\ e[j] = t[j - Len(s)]
      BY <2>2, <1>2, <1>3
    <3>2. PICK m \in M : e[i] = Content(m)
      BY <3>1, <2>2, <1>4
    <3>3. PICK n \in N : e[j] = Content(n)
      BY <3>1, <1>4
    <3> QED
      BY <3>2, <3>3, ContentIs
  <2>3. CASE i \notin 1..Len(s)
    <3>1. /\ i - Len(s) \in 1..Len(t) /\ e[i] = t[i - Len(s)]
          /\ Len(s) < i
      BY <2>3, <1>3
    <3>2. /\ j - Len(s) \in 1..Len(t) /\ e[j] = t[j - Len(s)]
          /\ i - Len(s) < j - Len(s)
      BY <3>1, <1>1, <1>3, <1>6
    <3> QED
      BY <3>1, <3>2, <1>1 DEF Delivers
  <2> QED
    BY <2>1, <2>2, <2>3
<1>7. Delivers(e, M \cup N)
  BY <1>1, <1>5, <1>6 DEF Delivers
<1> QED
  BY <1>7 DEF e

-----------------------------------------------------------------------------
(* What the readers make of a clean buffer.                                *)

(* What is kept begins after an end, or at the beginning, and is less than *)
(* a message; what has ended is passed on.                                 *)
CutRight(b, r) ==
    /\ \E j \in 0..Len(b) : /\ j > 0 => b[j][2] = Size
                            /\ Len(b) - j < Size
                            /\ r.rest = From(b, j + 1)
    /\ action = "number" => Delivers(r.out, Ended(b))

(* One message at a time.                                                  *)
CutOne(rd, b) ==
    IF Len(b) < Size THEN rd[b] = Cut(<<>>, b)
    ELSE rd[b] = Cut(Pass(Content(b[1][1])) \o rd[From(b, Size + 1)].out,
                     rd[From(b, Size + 1)].rest)

(* Cells of a chunk are cells of places.                                   *)
LEMMA CellsPlaces == Seq(Cell) \subseteq Seq(Place)
<1>1. Cell \subseteq Place
  BY BoundAssumption DEF Cell, Place, BoundAssumption
<1> QED
  BY <1>1, SeqMonotonic

(* The content of a message is accepted, unless it is a touch with a word. *)
LEMMA ContentPasses ==
  ASSUME NEW n \in Nat, action = "number"
  PROVE  Pass(Content(n)) = <<Content(n)>>
<1>1. Content(n) # <<>> /\ Content(n)[1][1] = n
  BY ContentIs
<1>2. kind # "video" => Content(n) = Message(n)
  BY DEF Content
<1>3. Accepts(Content(n))
  BY <1>1, <1>2 DEF Accepts, ParsesJson, HasAction, Whole
<1> QED
  BY <1>3 DEF Pass

(* What is behind place i.                                                 *)
LEMMA Behind ==
  ASSUME NEW D, NEW b \in Seq(D), NEW i \in 0..Len(b)
  PROVE  /\ From(b, i + 1) \in Seq(D) /\ Len(From(b, i + 1)) = Len(b) - i
         /\ \A m \in 1..(Len(b) - i) : From(b, i + 1)[m] = b[i + m]
<1>1. /\ i + 1 \in 1..(Len(b) + 1) /\ Len(b) - (i + 1) + 1 = Len(b) - i
      /\ \A m \in 1..(Len(b) - i) : i + 1 + m - 1 = i + m
  BY LenProperties
<1>2. /\ From(b, i + 1) \in Seq(D)
      /\ Len(From(b, i + 1)) = Len(b) - (i + 1) + 1
      /\ \A m \in 1..(Len(b) - (i + 1) + 1) :
           From(b, i + 1)[m] = b[i + 1 + m - 1]
  BY <1>1, FromPiece
<1> QED
  BY <1>1, <1>2

(* What is behind a piece of a piece is behind the whole.                  *)
LEMMA FromFrom ==
  ASSUME NEW D, NEW b \in Seq(D), NEW i \in 0..Len(b), NEW j \in Nat,
         i + j <= Len(b)
  PROVE  From(From(b, i + 1), j + 1) = From(b, i + j + 1)
<1>1. /\ Len(b) \in Nat /\ i + 1 \in 1..(Len(b) + 1)
      /\ i + j + 1 \in 1..(Len(b) + 1)
  BY LenProperties
<1> DEFINE c == From(b, i + 1)
<1>2. /\ c \in Seq(D) /\ Len(c) = Len(b) - i
      /\ \A m \in 1..(Len(b) - i) : c[m] = b[i + m]
  <2>1. /\ c \in Seq(D) /\ Len(c) = Len(b) - (i + 1) + 1
        /\ \A m \in 1..(Len(b) - (i + 1) + 1) : c[m] = b[i + 1 + m - 1]
    BY <1>1, FromPiece
  <2> HIDE DEF c
  <2>2. \A m \in 1..(Len(b) - i) : i + 1 + m - 1 = i + m
    BY <1>1
  <2> QED
    BY <2>1, <2>2, <1>1
<1> HIDE DEF c
<1>3. j + 1 \in 1..(Len(c) + 1)
  BY <1>1, <1>2
<1> DEFINE e == From(c, j + 1)
           f == From(b, i + j + 1)
<1>4. /\ e \in Seq(D) /\ Len(e) = Len(c) - (j + 1) + 1
      /\ \A m \in 1..(Len(c) - (j + 1) + 1) : e[m] = c[j + 1 + m - 1]
  BY <1>2, <1>3, FromPiece
<1>5. /\ f \in Seq(D) /\ Len(f) = Len(b) - (i + j + 1) + 1
      /\ \A m \in 1..(Len(b) - (i + j + 1) + 1) : f[m] = b[i + j + 1 + m - 1]
  BY <1>1, FromPiece
<1> HIDE DEF e, f
<1>6. Len(e) = Len(f) /\ Len(e) = Len(b) - i - j
  BY <1>1, <1>2, <1>4, <1>5
<1>7. ASSUME NEW m \in 1..Len(e) PROVE e[m] = f[m]
  <2>1. /\ j + 1 + m - 1 \in 1..(Len(b) - i)
        /\ i + (j + 1 + m - 1) = i + j + 1 + m - 1
        /\ m \in 1..(Len(c) - (j + 1) + 1)
        /\ m \in 1..(Len(b) - (i + j + 1) + 1)
    BY <1>1, <1>2, <1>6
  <2> QED
    BY <2>1, <1>2, <1>4, <1>5
<1>8. e = f
  BY <1>4, <1>5, <1>6, <1>7, SeqEqual
<1> QED
  BY <1>8 DEF c, e, f

(* A reader that takes clean buffers one message at a time does right by   *)
(* every clean buffer.                                                     *)
LEMMA CleanCut ==
  ASSUME NEW rd, \A b \in Seq(Cell) : rd[b] \in Results,
         \A b \in Seq(Cell) : Clean(b) => CutOne(rd, b)
  PROVE  \A b \in Seq(Cell) : Clean(b) => CutRight(b, rd[b])
<1> DEFINE Bad == {b \in Seq(Cell) : Clean(b) /\ ~CutRight(b, rd[b])}
<1>1. SUFFICES ASSUME Bad # {} PROVE FALSE
  OBVIOUS
<1>2. PICK b \in Bad : \A c \in Bad : Len(b) <= Len(c)
  BY <1>1, Shortest
<1>3. /\ b \in Seq(Cell) /\ b \in Seq(Place) /\ Clean(b) /\ Flow(b)
      /\ ~CutRight(b, rd[b]) /\ CutOne(rd, b)
      /\ Len(b) \in Nat /\ Size \in Nat /\ Size >= 2
  BY CellsPlaces, SizeAssumption DEF Clean, SizeAssumption
<1>4. \A i \in 1..Len(b) : i <= Size => b[i] = <<b[1][1], i>>
  BY <1>3, CleanStart
<1>5. CASE Len(b) < Size
  <2>1. rd[b] = Cut(<<>>, b)
    BY <1>3, <1>5 DEF CutOne
  <2>2. b = From(b, 0 + 1)
    <3>1. /\ From(b, 1) \in Seq(Cell) /\ Len(From(b, 1)) = Len(b) - 1 + 1
          /\ \A m \in 1..(Len(b) - 1 + 1) : From(b, 1)[m] = b[1 + m - 1]
      <4>1. 1 \in 1..(Len(b) + 1)
        BY <1>3
      <4> QED
        BY <4>1, <1>3, FromPiece
    <3>2. Len(b) - 1 + 1 = Len(b) /\ \A m \in 1..Len(b) : 1 + m - 1 = m
      BY <1>3
    <3>3. \A m \in 1..Len(b) : b[m] = From(b, 1)[m]
      BY <3>1, <3>2
    <3> QED
      BY <3>1, <3>2, <3>3, <1>3, SeqEqual
  <2>3. Ended(b) = {}
    <3>1. ASSUME NEW i \in 1..Len(b) PROVE b[i][2] # Size
      <4>1. b[i] = <<b[1][1], i>> /\ i # Size
        BY <1>3, <1>4, <1>5
      <4> QED
        BY <4>1
    <3> QED
      BY <3>1, <1>3, EndedIs
  <2>4. Delivers(rd[b].out, Ended(b))
    BY <2>1, <2>3, DeliversNone DEF Cut
  <2>5. rd[b].rest = From(b, 0 + 1) /\ 0 \in 0..Len(b) /\ Len(b) - 0 < Size
    BY <2>1, <2>2, <1>3, <1>5 DEF Cut
  <2>6. CutRight(b, rd[b])
    BY <2>4, <2>5 DEF CutRight
  <2> QED
    BY <2>6, <1>3
<1>6. CASE ~(Len(b) < Size)
  <2> DEFINE c == From(b, Size + 1)
             n == b[1][1]
  <2>1. /\ Size \in 1..Len(b) /\ Size + 1 \in 1..(Len(b) + 1)
        /\ 1 \in 1..Len(b)
    BY <1>3, <1>6
  <2>2. b[Size] = <<n, Size>> /\ n \in Nat
    <3>1. b[1] \in Place
      BY <2>1, <1>3
    <3> QED
      BY <3>1, <2>1, <1>4 DEF Place
  <2>3. /\ c \in Seq(Cell) /\ Len(c) = Len(b) - Size
        /\ \A m \in 1..(Len(b) - Size) : c[m] = b[Size + m]
    <3>1. /\ c \in Seq(Cell) /\ Len(c) = Len(b) - (Size + 1) + 1
          /\ \A m \in 1..(Len(b) - (Size + 1) + 1) : c[m] = b[Size + 1 + m - 1]
      BY <2>1, <1>3, FromPiece
    <3>2. /\ Len(b) - (Size + 1) + 1 = Len(b) - Size
          /\ \A m \in 1..(Len(b) - Size) : Size + 1 + m - 1 = Size + m
      BY <1>3
    <3> HIDE DEF c
    <3>3. \A m \in 1..(Len(b) - Size) : c[m] = b[Size + m]
      BY <3>1, <3>2
    <3> QED
      BY <3>1, <3>2, <3>3
  <2>4. Clean(c)
    BY <2>1, <2>2, <1>3, CleanAfterEnd
  <2>5. rd[b] = Cut(Pass(Content(n)) \o rd[c].out, rd[c].rest)
    BY <1>3, <1>6 DEF CutOne
  <2> HIDE DEF c, n
  <2>6. CutRight(c, rd[c])
    <3>1. Len(c) < Len(b) /\ Len(c) \in Nat
      BY <2>3, <1>3
    <3>2. c \notin Bad
      <4> HIDE DEF Bad
      <4> QED
        BY <3>1, <1>2, <1>3
    <3> QED
      BY <3>2, <2>3, <2>4
  <2>7. PICK j \in 0..Len(c) : /\ j > 0 => c[j][2] = Size
                               /\ Len(c) - j < Size
                               /\ rd[c].rest = From(c, j + 1)
    BY <2>6 DEF CutRight
  <2>8. /\ Size + j \in 0..Len(b) /\ Len(b) - (Size + j) < Size
        /\ b[Size + j][2] = Size
        /\ rd[b].rest = From(b, Size + j + 1)
    <3>1. Size + j \in 0..Len(b) /\ Len(b) - (Size + j) < Size
      BY <2>3, <2>7, <1>3
    <3>2. b[Size + j][2] = Size
      <4>1. CASE j = 0
        BY <4>1, <2>2, <1>3
      <4>2. CASE j # 0
        <5>1. j \in 1..(Len(b) - Size) /\ j > 0
          BY <4>2, <2>3, <2>7
        <5> QED
          BY <5>1, <2>3, <2>7
      <4> QED
        BY <4>1, <4>2
    <3>3. rd[b].rest = From(c, j + 1)
      BY <2>5, <2>7 DEF Cut
    <3>4. From(c, j + 1) = From(b, Size + j + 1)
      <4>1. Size \in 0..Len(b) /\ j \in Nat /\ Size + j <= Len(b)
        BY <2>1, <2>3, <2>7, <1>3
      <4> QED
        BY <4>1, <1>3, FromFrom DEF c
    <3> QED
      BY <3>1, <3>2, <3>3, <3>4
  <2>9. ASSUME action = "number" PROVE Delivers(rd[b].out, Ended(b))
    <3>1. rd[b].out = <<Content(n)>> \o rd[c].out
      <4>1. Pass(Content(n)) = <<Content(n)>>
        BY <2>2, <2>9, ContentPasses
      <4> QED
        BY <4>1, <2>5 DEF Cut
    <3>2. Delivers(rd[c].out, Ended(c)) /\ Ended(c) \in SUBSET Nat
      BY <2>3, <2>6, <2>9, CellsPlaces, EndedIs DEF CutRight
    <3>3. ASSUME NEW m \in Ended(c) PROVE n < m
      <4>1. PICK i \in 1..Len(c) : c[i][1] = m /\ c[i][2] = Size
        BY <2>3, CellsPlaces, EndedIs
      <4>2. Size + i \in (Size + 1)..Len(b) /\ c[i] = b[Size + i]
        BY <4>1, <2>3, <1>3
      <4>3. b[Size][1] < b[Size + i][1]
        BY <4>2, <2>1, <2>2, <1>3, FlowOrder
      <4> QED
        BY <4>1, <4>2, <4>3, <2>2
    <3>4. Ended(b) = {n} \cup Ended(c)
      <4>1. ASSUME NEW m \in Ended(b) PROVE m = n \/ m \in Ended(c)
        <5>1. PICK i \in 1..Len(b) : b[i][1] = m /\ b[i][2] = Size
          BY <1>3, EndedIs
        <5>2. CASE i <= Size
          BY <5>1, <5>2, <1>4 DEF n
        <5>3. CASE ~(i <= Size)
          <6>1. /\ i - Size \in 1..(Len(b) - Size) /\ Size + (i - Size) = i
                /\ i - Size \in 1..Len(c)
            BY <5>3, <2>3, <1>3
          <6>2. c[i - Size] = b[i]
            BY <6>1, <2>3
          <6> QED
            BY <6>1, <6>2, <5>1, <2>3, CellsPlaces, EndedIs
        <5> QED
          BY <5>2, <5>3
      <4>2. n \in Ended(b)
        <5>1. b[Size][1] = n /\ b[Size][2] = Size
          BY <2>2
        <5> QED
          BY <5>1, <2>1, <1>3, EndedIs
      <4>3. ASSUME NEW m \in Ended(c) PROVE m \in Ended(b)
        <5>1. PICK i \in 1..Len(c) : c[i][1] = m /\ c[i][2] = Size
          BY <2>3, CellsPlaces, EndedIs
        <5>2. Size + i \in 1..Len(b) /\ c[i] = b[Size + i]
          BY <5>1, <2>3, <1>3
        <5> QED
          BY <5>1, <5>2, <1>3, EndedIs
      <4> QED
        BY <4>1, <4>2, <4>3
    <3>5. /\ <<Content(n)>> \in Seq(Seq(Place))
          /\ rd[c].out \in Seq(Seq(Place))
      <4>1. Content(n) \in Seq(Place)
        BY <2>2, ContentIs
      <4>2. rd[c].out \in Seq(Seq(Cell))
        BY <2>3 DEF Results
      <4>3. rd[c].out \in Seq(Seq(Place))
        BY <4>2, CellsPlaces, SeqMonotonic
      <4> QED
        BY <4>1, <4>3
    <3>6. Delivers(<<Content(n)>>, {n}) /\ {n} \in SUBSET Nat
      BY <2>2, DeliversOne
    <3>7. Delivers(<<Content(n)>> \o rd[c].out, {n} \cup Ended(c))
      BY <3>2, <3>3, <3>5, <3>6, DeliversJoin
    <3> QED
      BY <3>1, <3>4, <3>7
  <2>10. CutRight(b, rd[b])
    BY <2>8, <2>9 DEF CutRight
  <2> QED
    BY <2>10, <1>3
<1> QED
  BY <1>5, <1>6

(* A clean buffer of at least a message begins with it.                    *)
LEMMA FirstMessage ==
  ASSUME NEW b \in Seq(Cell), Clean(b), ~(Len(b) < Size)
  PROVE  /\ b[1][1] \in Nat
         /\ SubSeq(b, 1, Size) = Message(b[1][1])
         /\ SubSeq(b, 2, Size) = Tail(Message(b[1][1]))
<1> DEFINE n == b[1][1]
           u == SubSeq(b, 1, Size)
           t == SubSeq(b, 2, Size)
<1>1. /\ b \in Seq(Place) /\ Len(b) \in Nat /\ Size \in Nat /\ Size >= 2
      /\ Size <= Len(b)
  BY CellsPlaces, SizeAssumption DEF SizeAssumption
<1>2. \A i \in 1..Size : i \in 1..Len(b) /\ b[i] = <<n, i>>
  BY <1>1, CleanStart
<1>3. n \in Nat
  <2>1. b[1] \in Place
    BY <1>1
  <2> QED
    BY <2>1 DEF Place
<1>4. /\ u \in Seq(Place) /\ Len(u) = Size - 1 + 1
      /\ \A m \in 1..(Size - 1 + 1) : u[m] = b[1 + m - 1]
  <2>1. 1 \in 1..(Len(b) + 1) /\ Size \in (1 - 1)..Len(b)
    BY <1>1
  <2> QED
    BY <2>1, <1>1, Piece
<1>5. /\ t \in Seq(Place) /\ Len(t) = Size - 2 + 1
      /\ \A m \in 1..(Size - 2 + 1) : t[m] = b[2 + m - 1]
  <2>1. 2 \in 1..(Len(b) + 1) /\ Size \in (2 - 1)..Len(b)
    BY <1>1
  <2> QED
    BY <2>1, <1>1, Piece
<1> HIDE DEF n, u, t
<1>6. /\ Message(n) \in Seq(Place) /\ Len(Message(n)) = Size
      /\ \A i \in 1..Size : Message(n)[i] = <<n, i>>
  BY <1>3, MessageIs
<1>7. u = Message(n)
  <2>1. Size - 1 + 1 = Size /\ \A m \in 1..Size : 1 + m - 1 = m
    BY <1>1
  <2>2. \A m \in 1..Size : u[m] = Message(n)[m]
    BY <2>1, <1>2, <1>4, <1>6
  <2> QED
    BY <2>1, <2>2, <1>4, <1>6, SeqEqual
<1>8. t = Tail(Message(n))
  <2>1. Size # 0 /\ Size - 2 + 1 = Size - 1
        /\ \A m \in 1..(Size - 1) : 2 + m - 1 = m + 1 /\ m + 1 \in 1..Size
    BY <1>1
  <2>2. Message(n) # <<>>
    BY <2>1, <1>6, EmptySeq
  <2>3. /\ Tail(Message(n)) \in Seq(Place) /\ Len(Tail(Message(n))) = Size - 1
        /\ \A i \in 1..(Size - 1) : Tail(Message(n))[i] = Message(n)[i + 1]
    BY <2>2, <1>6, HeadTailProperties
  <2>4. \A m \in 1..(Size - 1) : t[m] = Tail(Message(n))[m]
    <3>1. ASSUME NEW m \in 1..(Size - 1) PROVE t[m] = Tail(Message(n))[m]
      <4>1. m \in 1..(Size - 2 + 1) /\ 2 + m - 1 = m + 1 /\ m + 1 \in 1..Size
        BY <2>1
      <4>2. t[m] = b[m + 1]
        BY <4>1, <1>5
      <4>3. b[m + 1] = Message(n)[m + 1]
        BY <4>1, <1>2, <1>6
      <4> QED
        BY <4>2, <4>3, <2>3
    <3> QED
      BY <3>1
  <2> QED
    BY <2>1, <2>3, <2>4, <1>5, SeqEqual
<1> QED
  BY <1>3, <1>7, <1>8 DEF n, u, t

(* LengthPrefixedReader does right by frames in step.                      *)
LEMMA FramesRight ==
  ASSUME kind = "video", misread \in Nat
  PROVE  \A b \in Seq(Cell) : Clean(b) => CutRight(b, FrameReader[b])
<1>1. ASSUME NEW b \in Seq(Cell), Clean(b) PROVE CutOne(FrameReader, b)
  <2>1. FrameReader[b] = FrameStep(FrameReader, b)
    BY FrameEquation
  <2>2. /\ Size \in Nat /\ Size >= 2 /\ MaxFrame \in Nat /\ Size <= MaxFrame
        /\ Len(b) \in Nat
    BY SizeAssumption DEF SizeAssumption
  <2>3. CASE b = <<>>
    <3>1. Len(b) < Size /\ FrameReader[b] = Cut(<<>>, b)
      BY <2>1, <2>2, <2>3, EmptySeq DEF FrameStep
    <3> QED
      BY <3>1 DEF CutOne
  <2>4. CASE b # <<>>
    <3>1. LengthOf(b[1]) = Size - 1
      BY <2>4, <1>1 DEF LengthOf, Clean
    <3>2. /\ ~(Size - 1 > MaxFrame)
          /\ 1 + (Size - 1) = Size /\ Size - 1 + 1 = Size
          /\ Size - 1 + 2 = Size + 1
      BY <2>2
    <3>3. CASE Len(b) < Size
      <4>1. FrameReader[b] = Cut(<<>>, b)
        BY <2>1, <2>4, <3>1, <3>2, <3>3 DEF FrameStep
      <4> QED
        BY <4>1, <3>3 DEF CutOne
    <3>4. CASE ~(Len(b) < Size)
      <4>1. FrameReader[b]
              = Cut(Pass(SubSeq(b, 2, Size)) \o FrameReader[From(b, Size + 1)].out,
                    FrameReader[From(b, Size + 1)].rest)
        BY <2>1, <2>4, <3>1, <3>2, <3>4 DEF FrameStep
      <4>2. SubSeq(b, 2, Size) = Content(b[1][1])
        BY <3>4, <1>1, FirstMessage DEF Content
      <4> QED
        BY <4>1, <4>2, <3>4 DEF CutOne
    <3> QED
      BY <3>3, <3>4
  <2> QED
    BY <2>3, <2>4
<1> QED
  BY <1>1, FrameEquation, CleanCut

(* The line readers do right by lines in step.                             *)
LEMMA LinesRight ==
  ASSUME kind # "video"
  PROVE  \A b \in Seq(Cell) : Clean(b) => CutRight(b, LineReader[b])
<1>1. ASSUME NEW b \in Seq(Cell), Clean(b) PROVE CutOne(LineReader, b)
  <2>1. LineReader[b] = LineStep(LineReader, b)
    BY LineEquation
  <2>2. /\ Size \in Nat /\ Size >= 2 /\ Len(b) \in Nat /\ b \in Seq(Place)
        /\ DOMAIN b = 1..Len(b)
    BY SizeAssumption, CellsPlaces DEF SizeAssumption
  <2>3. \A i \in 1..Len(b) : i <= Size => b[i] = <<b[1][1], i>>
    BY <2>2, <1>1, CleanStart
  <2>4. CASE Len(b) < Size
    <3>1. ASSUME NEW i \in 1..Len(b) PROVE b[i][2] # Size
      <4>1. b[i] = <<b[1][1], i>> /\ i # Size
        BY <2>2, <2>3, <2>4
      <4> QED
        BY <4>1
    <3>2. Ends(b) = {}
      BY <3>1, <2>2 DEF Ends
    <3> QED
      BY <3>2, <2>1, <2>4 DEF CutOne, LineStep
  <2>5. CASE ~(Len(b) < Size)
    <3>1. Size \in 1..Len(b) /\ b[Size] = <<b[1][1], Size>>
      BY <2>2, <2>3, <2>5
    <3>2. Size \in Ends(b)
      BY <3>1, <2>2 DEF Ends
    <3>3. /\ FirstEnd(b) \in Ends(b) /\ FirstEnd(b) <= Size
          /\ FirstEnd(b) \in 1..Len(b)
      BY <3>2, FirstEndIs
    <3>4. FirstEnd(b) = Size
      <4>1. b[FirstEnd(b)] = <<b[1][1], FirstEnd(b)>>
        BY <3>3, <2>3
      <4>2. b[FirstEnd(b)][2] = Size
        BY <3>3 DEF Ends
      <4> QED
        BY <4>1, <4>2
    <3>5. SubSeq(b, 1, Size) = Content(b[1][1])
      BY <2>5, <1>1, FirstMessage DEF Content
    <3> QED
      BY <3>2, <3>4, <3>5, <2>1, <2>5 DEF CutOne, LineStep
  <2> QED
    BY <2>4, <2>5
<1> QED
  BY <1>1, LineEquation, CleanCut

-----------------------------------------------------------------------------
(* What the receiver sees, before and after a read.                        *)

(* The cells of a buffer, a pipe and a cell to come.                       *)
LEMMA SightCells ==
  ASSUME NEW b \in Seq(Place), NEW p \in Seq(Place), NEW d \in Place
  PROVE  /\ b \o p \in Seq(Place) /\ Append(b \o p, d) \in Seq(Place)
         /\ Len(Append(b \o p, d)) = Len(b) + Len(p) + 1
         /\ \A i \in 1..Len(b) : Append(b \o p, d)[i] = b[i]
         /\ \A i \in 1..Len(p) : Append(b \o p, d)[Len(b) + i] = p[i]
         /\ Append(b \o p, d)[Len(b) + Len(p) + 1] = d
<1> DEFINE e == b \o p
<1>1. /\ e \in Seq(Place) /\ Len(e) = Len(b) + Len(p)
      /\ \A i \in 1..(Len(b) + Len(p)) :
           e[i] = IF i <= Len(b) THEN b[i] ELSE p[i - Len(b)]
      /\ Len(b) \in Nat /\ Len(p) \in Nat
  BY ConcatProperties, LenProperties
<1> HIDE DEF e
<1>2. /\ Append(e, d) \in Seq(Place)
      /\ Len(Append(e, d)) = Len(e) + 1
      /\ \A i \in 1..Len(e) : Append(e, d)[i] = e[i]
      /\ Append(e, d)[Len(e) + 1] = d
  BY <1>1, AppendProperties
<1>3. ASSUME NEW i \in 1..Len(b) PROVE Append(e, d)[i] = b[i]
  <2>1. i \in 1..Len(e) /\ i \in 1..(Len(b) + Len(p)) /\ i <= Len(b)
    BY <1>1
  <2> QED
    BY <2>1, <1>1, <1>2
<1>4. ASSUME NEW i \in 1..Len(p) PROVE Append(e, d)[Len(b) + i] = p[i]
  <2>1. /\ Len(b) + i \in 1..Len(e) /\ Len(b) + i \in 1..(Len(b) + Len(p))
        /\ ~(Len(b) + i <= Len(b)) /\ Len(b) + i - Len(b) = i
    BY <1>1
  <2> QED
    BY <2>1, <1>1, <1>2
<1> QED
  BY <1>1, <1>2, <1>3, <1>4 DEF e

(* Behind what is kept is what is ahead.                                   *)
LEMMA SightIs ==
  ASSUME TypeOK
  PROVE  /\ Sight \in Seq(Place) /\ Len(buffer) \in Nat /\ Len(pipe) \in Nat
         /\ Len(Sight) = Len(buffer) + Len(pipe) + 1
         /\ \A i \in 1..Len(buffer) : Sight[i] = buffer[i]
         /\ \A i \in 1..Len(pipe) : Sight[Len(buffer) + i] = pipe[i]
         /\ Sight[Len(Sight)] = <<next, pos + 1>>
         /\ Ahead \in Seq(Place) /\ Len(Ahead) = Len(pipe) + 1
         /\ \A i \in 1..Len(pipe) : Ahead[i] = pipe[i]
         /\ Ahead = From(Sight, Len(buffer) + 1)
<1> DEFINE d == <<next, pos + 1>>
<1>1. /\ pipe \in Seq(Place) /\ buffer \in Seq(Place) /\ d \in Place
      /\ Len(buffer) \in Nat /\ Len(pipe) \in Nat
  BY Places, LenProperties
<1> HIDE DEF d
<1>2. /\ Sight \in Seq(Place)
      /\ Len(Sight) = Len(buffer) + Len(pipe) + 1
      /\ \A i \in 1..Len(buffer) : Sight[i] = buffer[i]
      /\ \A i \in 1..Len(pipe) : Sight[Len(buffer) + i] = pipe[i]
      /\ Sight[Len(buffer) + Len(pipe) + 1] = d
  BY <1>1, SightCells DEF Sight, d
<1>3. /\ Ahead \in Seq(Place) /\ Len(Ahead) = Len(pipe) + 1
      /\ \A i \in 1..Len(pipe) : Ahead[i] = pipe[i]
      /\ Ahead[Len(pipe) + 1] = d
  BY <1>1, AppendProperties DEF Ahead, d
<1> DEFINE f == From(Sight, Len(buffer) + 1)
<1>4. /\ f \in Seq(Place) /\ Len(f) = Len(pipe) + 1
      /\ \A m \in 1..(Len(pipe) + 1) : f[m] = Sight[Len(buffer) + m]
  <2>1. Len(buffer) + 1 \in 1..(Len(Sight) + 1)
    BY <1>1, <1>2
  <2>2. /\ f \in Seq(Place) /\ Len(f) = Len(Sight) - (Len(buffer) + 1) + 1
        /\ \A m \in 1..(Len(Sight) - (Len(buffer) + 1) + 1) :
             f[m] = Sight[Len(buffer) + 1 + m - 1]
    BY <2>1, <1>2, FromPiece
  <2> HIDE DEF f
  <2>3. /\ Len(Sight) - (Len(buffer) + 1) + 1 = Len(pipe) + 1
        /\ \A m \in 1..(Len(pipe) + 1) :
             Len(buffer) + 1 + m - 1 = Len(buffer) + m
    BY <1>1, <1>2
  <2>4. \A m \in 1..(Len(pipe) + 1) : f[m] = Sight[Len(buffer) + m]
    BY <2>2, <2>3
  <2> QED
    BY <2>2, <2>3, <2>4
<1> HIDE DEF f
<1>5. ASSUME NEW m \in 1..(Len(pipe) + 1) PROVE Ahead[m] = f[m]
  <2>1. CASE m \in 1..Len(pipe)
    BY <2>1, <1>2, <1>3, <1>4
  <2>2. CASE m = Len(pipe) + 1
    <3>1. Len(buffer) + (Len(pipe) + 1) = Len(buffer) + Len(pipe) + 1
      BY <1>1
    <3> QED
      BY <3>1, <2>2, <1>2, <1>3, <1>4
  <2> QED
    BY <2>1, <2>2, <1>1
<1>6. Ahead = f
  BY <1>3, <1>4, <1>5, SeqEqual
<1>7. Sight[Len(Sight)] = d
  BY <1>2
<1> QED
  BY <1>1, <1>2, <1>3, <1>6, <1>7 DEF d, f

(* The buffer with a chunk is what is seen up to there; what is kept of it *)
(* and what is still in the pipe is seen afterwards.                       *)
LEMMA ReadSight ==
  ASSUME TypeOK, TypeOK', NEW k \in 1..Len(pipe), Read(k)
  PROVE  LET b == buffer \o SubSeq(pipe, 1, k)
         IN  /\ b \in Seq(Cell) /\ Len(b) = Len(buffer) + k
             /\ Len(b) < Len(Sight)
             /\ \A i \in 1..Len(b) : b[i] = Sight[i]
             /\ \A i \in 1..k : b[Len(buffer) + i] = pipe[i]
             /\ \A j \in 0..Len(b) :
                  buffer' = From(b, j + 1) => Sight' = From(Sight, j + 1)
<1> DEFINE chunk == SubSeq(pipe, 1, k)
           b == buffer \o chunk
           d == <<next, pos + 1>>
<1>1. /\ Sight \in Seq(Place) /\ Len(buffer) \in Nat /\ Len(pipe) \in Nat
      /\ Len(Sight) = Len(buffer) + Len(pipe) + 1
      /\ \A i \in 1..Len(buffer) : Sight[i] = buffer[i]
      /\ \A i \in 1..Len(pipe) : Sight[Len(buffer) + i] = pipe[i]
      /\ Sight[Len(buffer) + Len(pipe) + 1] = d
  BY SightIs
<1>2. /\ chunk \in Seq(Cell) /\ Len(chunk) = k /\ k \in Nat
      /\ \A i \in 1..k : chunk[i] = pipe[i]
  BY Chunk
<1>3. /\ pipe' \in Seq(Place) /\ Len(pipe') = Len(pipe) - k
      /\ \A i \in 1..(Len(pipe) - k) : pipe'[i] = pipe[k + i]
  BY Chunk, PlacesAfter DEF Read
<1>4. d' = d /\ d \in Place
  BY Places DEF Read
<1> HIDE DEF chunk, d
<1>5. /\ b \in Seq(Cell) /\ Len(b) = Len(buffer) + k
      /\ \A i \in 1..(Len(buffer) + k) :
           b[i] = IF i <= Len(buffer) THEN buffer[i]
                  ELSE chunk[i - Len(buffer)]
  <2>1. buffer \in Seq(Cell) /\ chunk \in Seq(Cell)
    BY <1>2 DEF TypeOK
  <2>2. /\ b \in Seq(Cell) /\ Len(b) = Len(buffer) + Len(chunk)
        /\ \A i \in 1..(Len(buffer) + Len(chunk)) :
             b[i] = IF i <= Len(buffer) THEN buffer[i]
                    ELSE chunk[i - Len(buffer)]
    BY <2>1, ConcatProperties
  <2> HIDE DEF b
  <2> QED
    BY <2>2, <1>2, Zenon
<1> HIDE DEF b
<1>6. /\ \A i \in 1..Len(buffer) : b[i] = buffer[i]
      /\ \A i \in 1..k : b[Len(buffer) + i] = pipe[i]
  <2>1. ASSUME NEW i \in 1..Len(buffer) PROVE b[i] = buffer[i]
    <3>1. i \in 1..(Len(buffer) + k) /\ i <= Len(buffer)
      BY <1>1, <1>2
    <3> QED
      BY <3>1, <1>5
  <2>2. ASSUME NEW i \in 1..k PROVE b[Len(buffer) + i] = pipe[i]
    <3>1. /\ Len(buffer) + i \in 1..(Len(buffer) + k)
          /\ ~(Len(buffer) + i <= Len(buffer))
          /\ Len(buffer) + i - Len(buffer) = i
      BY <1>1, <1>2
    <3> QED
      BY <3>1, <1>2, <1>5
  <2> QED
    BY <2>1, <2>2
<1>7. ASSUME NEW i \in 1..Len(b) PROVE b[i] = Sight[i]
  <2>1. CASE i <= Len(buffer)
    <3>1. i \in 1..Len(buffer)
      BY <2>1, <1>1
    <3> QED
      BY <3>1, <1>1, <1>6
  <2>2. CASE ~(i <= Len(buffer))
    <3>1. /\ i - Len(buffer) \in 1..k /\ i - Len(buffer) \in 1..Len(pipe)
          /\ Len(buffer) + (i - Len(buffer)) = i
      BY <2>2, <1>1, <1>2, <1>5
    <3> QED
      BY <3>1, <1>1, <1>6
  <2> QED
    BY <2>1, <2>2
<1>8. Len(b) < Len(Sight) /\ Len(b) \in Nat
  BY <1>1, <1>2, <1>5
<1>9. ASSUME NEW j \in 0..Len(b), buffer' = From(b, j + 1)
      PROVE  Sight' = From(Sight, j + 1)
  <2> DEFINE f == From(Sight, j + 1)
             g == Append(buffer' \o pipe', d)
  <2>1. /\ f \in Seq(Place) /\ Len(f) = Len(Sight) - j
        /\ \A m \in 1..(Len(Sight) - j) : f[m] = Sight[j + m]
    <3>1. j + 1 \in 1..(Len(Sight) + 1)
      BY <1>1, <1>8
    <3>2. /\ f \in Seq(Place) /\ Len(f) = Len(Sight) - (j + 1) + 1
          /\ \A m \in 1..(Len(Sight) - (j + 1) + 1) :
               f[m] = Sight[j + 1 + m - 1]
      BY <3>1, <1>1, FromPiece
    <3> HIDE DEF f
    <3>3. /\ Len(Sight) - (j + 1) + 1 = Len(Sight) - j
          /\ \A m \in 1..(Len(Sight) - j) : j + 1 + m - 1 = j + m
      BY <1>1
    <3>4. \A m \in 1..(Len(Sight) - j) : f[m] = Sight[j + m]
      BY <3>2, <3>3
    <3> QED
      BY <3>2, <3>3, <3>4
  <2>2. /\ buffer' \in Seq(Place) /\ Len(buffer') = Len(b) - j
        /\ \A m \in 1..(Len(b) - j) : buffer'[m] = b[j + m]
    <3>1. j + 1 \in 1..(Len(b) + 1)
      BY <1>8
    <3>2. /\ Len(buffer') = Len(b) - (j + 1) + 1
          /\ \A m \in 1..(Len(b) - (j + 1) + 1) : buffer'[m] = b[j + 1 + m - 1]
      BY <3>1, <1>5, <1>9, FromPiece
    <3>3. /\ Len(b) - (j + 1) + 1 = Len(b) - j
          /\ \A m \in 1..(Len(b) - j) : j + 1 + m - 1 = j + m
      BY <1>8
    <3>4. \A m \in 1..(Len(b) - j) : buffer'[m] = b[j + m]
      BY <3>2, <3>3
    <3>5. buffer' \in Seq(Place)
      BY PlacesAfter
    <3> QED
      BY <3>2, <3>3, <3>4, <3>5
  <2>3. /\ g \in Seq(Place)
        /\ Len(g) = Len(buffer') + Len(pipe') + 1
        /\ \A i \in 1..Len(buffer') : g[i] = buffer'[i]
        /\ \A i \in 1..Len(pipe') : g[Len(buffer') + i] = pipe'[i]
        /\ g[Len(buffer') + Len(pipe') + 1] = d
    <3>1. \A q \in Seq(Place), p \in Seq(Place) :
            /\ Append(q \o p, d) \in Seq(Place)
            /\ Len(Append(q \o p, d)) = Len(q) + Len(p) + 1
            /\ \A i \in 1..Len(q) : Append(q \o p, d)[i] = q[i]
            /\ \A i \in 1..Len(p) : Append(q \o p, d)[Len(q) + i] = p[i]
            /\ Append(q \o p, d)[Len(q) + Len(p) + 1] = d
      BY <1>4, SightCells
    <3>2. buffer' \in Seq(Place) /\ pipe' \in Seq(Place)
      BY <2>2, <1>3
    <3> QED
      BY <3>1, <3>2, Zenon
  <2>4. Sight' = g
    BY <1>4 DEF Sight, d
  <2> HIDE DEF f, g
  <2>5. /\ Len(buffer') = Len(buffer) + k - j /\ Len(pipe') = Len(pipe) - k
        /\ j \in Nat /\ j <= Len(buffer) + k /\ k <= Len(pipe)
    BY <2>2, <1>1, <1>2, <1>3, <1>5
  <2>6. Len(buffer) \in Nat /\ Len(pipe) \in Nat /\ k \in Nat
    BY <1>1, <1>2
  <2>7. Len(g) = Len(f)
    <3>1. /\ Len(g) = Len(buffer') + Len(pipe') + 1
          /\ Len(f) = Len(Sight) - j
          /\ Len(Sight) = Len(buffer) + Len(pipe) + 1
      BY <2>1, <2>3, <1>1
    <3> QED
      BY <3>1, <2>5, <2>6
  <2>8. ASSUME NEW m \in 1..Len(g) PROVE g[m] = f[m]
    <3>1. f[m] = Sight[j + m]
      BY <2>1, <2>7
    <3>2. CASE m <= Len(buffer')
      <4>1. /\ m \in 1..Len(buffer') /\ m \in 1..(Len(b) - j)
            /\ j + m \in 1..Len(b)
        BY <3>2, <2>2, <1>8
      <4> QED
        BY <4>1, <3>1, <2>2, <2>3, <1>7
    <3>3. CASE m = Len(buffer') + Len(pipe') + 1
      <4>1. j + m = Len(buffer) + Len(pipe) + 1
        <5>1. m = Len(buffer) + k - j + (Len(pipe) - k) + 1
          BY <3>3, <2>5
        <5> QED
          BY <5>1, <2>5, <2>6
      <4> QED
        BY <4>1, <3>1, <3>3, <2>3, <1>1
    <3>4. CASE ~(m <= Len(buffer')) /\ m # Len(buffer') + Len(pipe') + 1
      <4> DEFINE i == m - Len(buffer')
      <4>0. m \in Nat /\ m <= Len(buffer') + Len(pipe') + 1
        BY <2>3, <2>5, <1>1, <1>2
      <4>1. /\ i \in 1..Len(pipe') /\ Len(buffer') + i = m
            /\ i \in 1..(Len(pipe) - k) /\ k + i \in 1..Len(pipe)
            /\ Len(buffer) + (k + i) = j + m
        <5>1. /\ m \in Nat /\ m <= Len(buffer) + k - j + (Len(pipe) - k) + 1
              /\ m # Len(buffer) + k - j + (Len(pipe) - k) + 1
              /\ ~(m <= Len(buffer) + k - j)
          BY <4>0, <3>4, <2>5
        <5>2. i = m - (Len(buffer) + k - j)
          BY <2>5
        <5> QED
          BY <5>1, <5>2, <2>5, <2>6
      <4> HIDE DEF i
      <4>2. g[m] = pipe[k + i]
        BY <4>1, <2>3, <1>3
      <4>3. Sight[j + m] = pipe[k + i]
        BY <4>1, <1>1
      <4> QED
        BY <4>2, <4>3, <3>1
    <3> QED
      BY <3>2, <3>3, <3>4
  <2>9. g = f
    BY <2>1, <2>3, <2>7, <2>8, SeqEqual
  <2> QED
    BY <2>4, <2>9 DEF f
<1> QED
  BY <1>5, <1>6, <1>7, <1>8, <1>9 DEF b, chunk

(* Writing, skipping a message, and losing a connection between messages   *)
(* leave what is seen clean.                                               *)
LEMMA CleanKept ==
  ASSUME TypeOK, TypeOK', Clean(Sight),
         \/ Write \/ Skip \/ Reconnect \/ UNCHANGED vars
         \/ Disconnect /\ torn' = torn
  PROVE  Clean(Sight')
<1> DEFINE d == <<next, pos + 1>>
           e == <<next', pos' + 1>>
           q == buffer \o pipe
<1>1. /\ pipe \in Seq(Place) /\ buffer \in Seq(Place) /\ q \in Seq(Place)
      /\ d \in Place /\ e \in Place /\ Sight \in Seq(Place)
      /\ next \in Nat /\ pos \in Nat
  <2>1. /\ pipe \in Seq(Place) /\ buffer \in Seq(Place) /\ q \in Seq(Place)
        /\ d \in Place /\ Sight \in Seq(Place)
    BY Places
  <2>2. e \in Place
    BY PlacesAfter
  <2>3. next \in Nat /\ pos \in Nat
    BY BoundAssumption, SizeAssumption
       DEF TypeOK, BoundAssumption, SizeAssumption
  <2> HIDE DEF d, e, q
  <2> QED
    BY <2>1, <2>2, <2>3
<1>2. Clean(Append(q, d))
  BY DEF Sight
<1>3. CASE Write
  <2>1. pipe' = Append(pipe, d) /\ buffer' = buffer
    BY <1>3 DEF Write
  <2>2. buffer \o Append(pipe, d) = Sight
    <3> HIDE DEF d
    <3>1. /\ Append(pipe, d) = pipe \o <<d>> /\ Append(q, d) = q \o <<d>>
          /\ <<d>> \in Seq(Place)
      BY <1>1, AppendIsConcat, Single
    <3>2. buffer \o (pipe \o <<d>>) = (buffer \o pipe) \o <<d>>
      BY <1>1, <3>1, ConcatAssociative
    <3> QED
      BY <3>1, <3>2 DEF Sight, d
  <2>3. Follows(d, e)
    BY <1>3, WriteFollows
  <2>4. Sight # <<>> /\ Sight[Len(Sight)] = d
    <3> HIDE DEF d, q
    <3>1. Len(Append(q, d)) = Len(q) + 1 /\ Append(q, d)[Len(q) + 1] = d
          /\ Append(q, d) # <<>>
      BY <1>1, AppendProperties
    <3>2. Sight = Append(q, d)
      BY DEF Sight, q, d
    <3> QED
      BY <3>1, <3>2
  <2>5. Clean(Append(Sight, e))
    BY <2>3, <2>4, <1>1, CleanAppend
  <2> QED
    BY <2>1, <2>2, <2>5 DEF Sight
<1>4. CASE Skip
  <2>1. /\ pipe' = pipe /\ buffer' = buffer
        /\ d = <<next, 1>> /\ e = <<next + 1, 1>>
    BY <1>4 DEF Skip
  <2>2. IF q = <<>> THEN d[2] = 1 ELSE Clean(q) /\ Follows(q[Len(q)], d)
    <3> HIDE DEF d, q
    <3> QED
      BY <1>1, <1>2, CleanButLast
  <2>3. IF q = <<>> THEN e[2] = 1 ELSE Clean(q) /\ Follows(q[Len(q)], e)
    <3>1. CASE q = <<>>
      BY <3>1, <2>1
    <3>2. CASE q # <<>>
      <4> HIDE DEF q
      <4>1. Len(q) \in 1..Len(q)
        BY <3>2, <1>1, EmptySeq
      <4>2. q[Len(q)] \in Place
        BY <4>1, <1>1
      <4> QED
        BY <4>2, <3>2, <2>1, <2>2, <1>1, FollowsLater
    <3> QED
      BY <3>1, <3>2
  <2>4. Clean(Append(q, e))
    <3> HIDE DEF e, q
    <3> QED
      BY <2>3, <1>1, CleanAppend
  <2> QED
    BY <2>1, <2>4 DEF Sight
<1>5. CASE Disconnect /\ torn' = torn
  <2>1. pos = 0 /\ buffer = <<>>
    <3>1. torn \in Int
      BY DEF TypeOK
    <3>2. torn # torn + 1
      BY <3>1
    <3> QED
      BY <3>2, <1>1, <1>5 DEF Disconnect
  <2>2. buffer' = <<>> /\ pipe' = <<>> /\ pos' = 0
    BY <2>1, <1>5 DEF Disconnect
  <2>3. e[2] = 1 /\ <<>> \o <<>> = <<>>
    BY <2>2
  <2>4. Clean(Append(<<>>, e))
    <3> HIDE DEF e
    <3> QED
      BY <2>3, <1>1, EmptySeq, CleanAppend
  <2> QED
    BY <2>2, <2>3, <2>4 DEF Sight
<1>6. CASE UNCHANGED <<buffer, pipe, next, pos>>
  BY <1>2, <1>6 DEF Sight
<1> QED
  BY <1>3, <1>4, <1>5, <1>6 DEF Reconnect, vars

(* What is kept after an end, or from the beginning, of a clean buffer     *)
(* leaves what is seen clean.                                              *)
LEMMA ReadStaysClean ==
  ASSUME TypeOK, TypeOK', Clean(Sight), NEW k \in 1..Len(pipe), Read(k),
         NEW j \in 0..Len(buffer \o SubSeq(pipe, 1, k)),
         j > 0 => (buffer \o SubSeq(pipe, 1, k))[j][2] = Size,
         buffer' = From(buffer \o SubSeq(pipe, 1, k), j + 1)
  PROVE  Clean(Sight')
<1> DEFINE b == buffer \o SubSeq(pipe, 1, k)
<1>1. /\ Len(b) < Len(Sight) /\ \A i \in 1..Len(b) : b[i] = Sight[i]
      /\ Sight' = From(Sight, j + 1) /\ Len(b) \in Nat
  BY ReadSight
<1>2. Sight \in Seq(Place) /\ Len(Sight) \in Nat
  BY Places
<1> HIDE DEF b
<1>3. CASE j > 0
  <2>1. j \in 1..Len(b) /\ j \in 1..Len(Sight)
    BY <1>1, <1>2, <1>3 DEF b
  <2>2. Sight[j][2] = Size
    BY <2>1, <1>1, <1>3 DEF b
  <2> QED
    BY <2>1, <2>2, <1>1, <1>2, CleanAfterEnd DEF Clean
<1>4. CASE ~(j > 0)
  <2>1. j = 0
    BY <1>1, <1>4 DEF b
  <2>2. From(Sight, 1) = Sight
    BY <1>2, SubSeqFull DEF From
  <2> QED
    BY <2>1, <2>2, <1>1
<1> QED
  BY <1>3, <1>4

(* What is kept after an end that was ahead makes what is seen clean.      *)
LEMMA ReadBecomesClean ==
  ASSUME TypeOK, TypeOK', Flow(Ahead), NEW k \in 1..Len(pipe), Read(k),
         NEW j \in 1..k, pipe[j][2] = Size,
         buffer' = From(buffer \o SubSeq(pipe, 1, k), Len(buffer) + j + 1)
  PROVE  Clean(Sight')
<1>1. /\ Sight \in Seq(Place) /\ Len(buffer) \in Nat /\ Len(pipe) \in Nat
      /\ Len(Sight) = Len(buffer) + Len(pipe) + 1
      /\ Ahead \in Seq(Place) /\ Len(Ahead) = Len(pipe) + 1
      /\ \A i \in 1..Len(pipe) : Ahead[i] = pipe[i]
      /\ Ahead = From(Sight, Len(buffer) + 1)
  BY SightIs
<1>2. Sight' = From(Sight, Len(buffer) + j + 1)
  <2>1. Len(buffer) + j \in 0..Len(buffer \o SubSeq(pipe, 1, k))
    <3>1. Len(buffer \o SubSeq(pipe, 1, k)) = Len(buffer) + k
      BY ReadSight
    <3> QED
      BY <3>1, <1>1
  <2> QED
    BY <2>1, ReadSight
<1>3. From(Sight, Len(buffer) + j + 1) = From(Ahead, j + 1)
  <2>1. /\ Len(buffer) \in 0..Len(Sight)
        /\ j \in Nat /\ Len(buffer) + j <= Len(Sight)
    BY <1>1
  <2> QED
    BY <2>1, <1>1, FromFrom
<1>4. j \in 1..Len(pipe) /\ j \in 1..Len(Ahead)
  BY <1>1
<1>5. Ahead[j][2] = Size
  BY <1>1, <1>4
<1>6. Clean(From(Ahead, j + 1))
  BY <1>1, <1>4, <1>5, CleanAfterEnd
<1> QED
  BY <1>2, <1>3, <1>6

-----------------------------------------------------------------------------
(* The receiver stays in step.                                             *)

(* What is read of something clean is clean.                               *)
LEMMA CleanRead ==
  ASSUME TypeOK, TypeOK', Clean(Sight), NEW k \in 1..Len(pipe), Read(k)
  PROVE  Clean(buffer \o SubSeq(pipe, 1, k))
<1> DEFINE b == buffer \o SubSeq(pipe, 1, k)
<1>1. /\ b \in Seq(Cell) /\ Len(b) = Len(buffer) + k
      /\ Len(b) < Len(Sight) /\ \A i \in 1..Len(b) : b[i] = Sight[i]
  BY ReadSight
<1>2. Sight \in Seq(Place) /\ Len(Sight) \in Nat /\ Len(b) \in Nat
      /\ Len(b) >= 1
  <2>1. Len(buffer) \in Nat /\ k \in Nat /\ k >= 1
    BY DEF TypeOK
  <2> QED
    BY <2>1, <1>1, Places
<1> HIDE DEF b
<1>3. \A i \in 1..(Len(b) - 1) : Follows(b[i], b[i + 1])
  <2>1. ASSUME NEW i \in 1..(Len(b) - 1) PROVE Follows(b[i], b[i + 1])
    <3>1. /\ i \in 1..(Len(Sight) - 1)
          /\ i \in 1..Len(b) /\ i + 1 \in 1..Len(b)
      BY <1>1, <1>2
    <3> QED
      BY <3>1, <1>1 DEF Clean, Flow
  <2> QED
    BY <2>1
<1>4. b[1][2] = 1
  <2>1. 1 \in 1..Len(b) /\ Sight # <<>>
    BY <1>1, <1>2, EmptySeq
  <2> QED
    BY <2>1, <1>1 DEF Clean
<1> QED
  BY <1>3, <1>4 DEF Clean, Flow, b

(* A reader of frames or lines does right by a clean buffer.               *)
LEMMA ParseRight ==
  ASSUME TypeOK, kind # "audio", NEW chunk \in Seq(Cell),
         Clean(buffer \o chunk), NEW r \in Parse(chunk)
  PROVE  CutRight(buffer \o chunk, r)
<1>1. buffer \o chunk \in Seq(Cell) /\ misread \in Nat
  BY ConcatProperties DEF TypeOK
<1>2. CASE kind = "video"
  <2>1. r = FrameReader[buffer \o chunk]
    BY <1>2 DEF Parse, Frames
  <2> QED
    BY <2>1, <1>1, <1>2, FramesRight
<1>3. CASE kind # "video"
  <2>1. r = LineReader[buffer \o chunk]
    BY <1>3 DEF Parse, Lines
  <2> QED
    BY <2>1, <1>1, <1>3, LinesRight
<1> QED
  BY <1>2, <1>3

(* q is the end of g.                                                      *)
EndOf(q, g) == Len(q) <= Len(g) /\ q = From(g, Len(g) - Len(q) + 1)

(* The last cells that were read stay the last ones.                       *)
LEMMA LastRead ==
  ASSUME NEW D, NEW g \in Seq(D), NEW q \in Seq(D), NEW c \in Seq(D),
         EndOf(q, g), NEW j \in 0..Len(q \o c)
  PROVE  /\ Len(From(q \o c, j + 1)) = Len(q \o c) - j
         /\ EndOf(From(q \o c, j + 1), g \o c)
<1>0. Len(q) <= Len(g) /\ q = From(g, Len(g) - Len(q) + 1)
  BY DEF EndOf
<1> DEFINE i == Len(g) - Len(q)
<1>1. /\ Len(g) \in Nat /\ Len(q) \in Nat /\ Len(c) \in Nat
      /\ q \o c \in Seq(D) /\ Len(q \o c) = Len(q) + Len(c)
      /\ \A m \in 1..(Len(q) + Len(c)) :
           (q \o c)[m] = IF m <= Len(q) THEN q[m] ELSE c[m - Len(q)]
      /\ g \o c \in Seq(D) /\ Len(g \o c) = Len(g) + Len(c)
      /\ \A m \in 1..(Len(g) + Len(c)) :
           (g \o c)[m] = IF m <= Len(g) THEN g[m] ELSE c[m - Len(g)]
  BY ConcatProperties, LenProperties
<1>2. i \in Nat /\ i + Len(q) = Len(g) /\ j \in Nat /\ j <= Len(q) + Len(c)
  BY <1>0, <1>1
<1>3. \A m \in 1..Len(q) : q[m] = g[i + m]
  <2>1. i + 1 \in 1..(Len(g) + 1)
    BY <1>1, <1>2
  <2>2. /\ Len(From(g, i + 1)) = Len(g) - (i + 1) + 1
        /\ \A m \in 1..(Len(g) - (i + 1) + 1) :
             From(g, i + 1)[m] = g[i + 1 + m - 1]
    BY <2>1, FromPiece
  <2>3. q = From(g, i + 1)
    BY <1>0
  <2>4. /\ Len(g) - (i + 1) + 1 = Len(q)
        /\ \A m \in 1..Len(q) : i + 1 + m - 1 = i + m
    BY <1>1
  <2> HIDE DEF i
  <2> QED
    BY <2>2, <2>3, <2>4
<1> HIDE DEF i
<1> DEFINE qc == q \o c
           gc == g \o c
<1>4. \A m \in 1..Len(qc) : i + m \in 1..Len(gc) /\ qc[m] = gc[i + m]
  <2>1. ASSUME NEW m \in 1..Len(qc), NEW n, n = i + m
        PROVE  n \in 1..Len(gc) /\ qc[m] = gc[n]
    <3>1. /\ m \in 1..(Len(q) + Len(c)) /\ n \in 1..(Len(g) + Len(c))
          /\ n \in 1..Len(gc)
      BY <2>1, <1>1, <1>2
    <3>2. CASE m <= Len(q)
      <4>1. m \in 1..Len(q) /\ n <= Len(g)
        BY <2>1, <3>1, <3>2, <1>1, <1>2
      <4>2. qc[m] = q[m] /\ gc[n] = g[n]
        BY <4>1, <3>1, <1>1
      <4> QED
        BY <4>1, <4>2, <2>1, <3>1, <1>3
    <3>3. CASE ~(m <= Len(q))
      <4>1. ~(n <= Len(g)) /\ n - Len(g) = m - Len(q)
        <5>1. Len(q) \in Nat /\ Len(g) \in Nat
          BY <1>1
        <5> QED
          BY <5>1, <2>1, <3>1, <3>3, <1>2
      <4>2. qc[m] = c[m - Len(q)]
        BY <3>1, <3>3, <1>1
      <4>3. gc[n] = c[n - Len(g)]
        BY <4>1, <3>1, <1>1
      <4> QED
        BY <4>1, <4>2, <4>3, <3>1
    <3> QED
      BY <3>2, <3>3
  <2> HIDE DEF qc, gc
  <2> QED
    BY <2>1
<1>5. /\ qc \in Seq(D) /\ gc \in Seq(D) /\ Len(qc) \in Nat /\ Len(gc) \in Nat
      /\ Len(gc) = Len(qc) + i /\ j \in 0..Len(qc)
  <2>1. Len(q) + Len(c) \in Nat /\ Len(g) + Len(c) \in Nat
        /\ Len(g) + Len(c) = Len(q) + Len(c) + i
        /\ j \in 0..(Len(q) + Len(c))
    <3>1. j \in 0..(Len(q) + Len(c))
      BY <1>1, Zenon
    <3>2. Len(q) \in Nat /\ Len(c) \in Nat /\ Len(g) \in Nat
      BY <1>1
    <3> QED
      BY <3>1, <3>2, <1>2
  <2> QED
    BY <2>1, <1>1
<1> HIDE DEF qc, gc
<1>6. /\ From(qc, j + 1) \in Seq(D)
      /\ Len(From(qc, j + 1)) = Len(qc) - (j + 1) + 1
      /\ \A m \in 1..(Len(qc) - (j + 1) + 1) :
           From(qc, j + 1)[m] = qc[j + 1 + m - 1]
  <2>1. j + 1 \in 1..(Len(qc) + 1)
    BY <1>5
  <2> QED
    BY <2>1, <1>5, FromPiece
<1>7. /\ From(gc, i + j + 1) \in Seq(D)
      /\ Len(From(gc, i + j + 1)) = Len(gc) - (i + j + 1) + 1
      /\ \A m \in 1..(Len(gc) - (i + j + 1) + 1) :
           From(gc, i + j + 1)[m] = gc[i + j + 1 + m - 1]
  <2>1. i + j + 1 \in 1..(Len(gc) + 1)
    BY <1>2, <1>5
  <2> QED
    BY <2>1, <1>5, FromPiece
<1>8. /\ Len(qc) - (j + 1) + 1 = Len(qc) - j
      /\ Len(gc) - (i + j + 1) + 1 = Len(qc) - j
  BY <1>2, <1>5
<1>9. ASSUME NEW m \in 1..(Len(qc) - j)
      PROVE  From(qc, j + 1)[m] = From(gc, i + j + 1)[m]
  <2>1. /\ j + 1 + m - 1 = j + m /\ i + j + 1 + m - 1 = i + (j + m)
        /\ j + m \in 1..Len(qc)
    BY <1>2, <1>5
  <2>2. From(qc, j + 1)[m] = qc[j + m]
    BY <2>1, <1>6, <1>8
  <2>3. From(gc, i + j + 1)[m] = gc[i + (j + m)]
    BY <2>1, <1>7, <1>8
  <2> QED
    BY <2>1, <2>2, <2>3, <1>4
<1>10. From(qc, j + 1) = From(gc, i + j + 1)
  BY <1>6, <1>7, <1>8, <1>9, SeqEqual
<1>11. /\ Len(From(qc, j + 1)) = Len(qc) - j
       /\ Len(gc) - (Len(qc) - j) + 1 = i + j + 1
       /\ Len(qc) - j <= Len(gc)
  BY <1>2, <1>5, <1>6, <1>8
<1> QED
  BY <1>10, <1>11 DEF qc, gc, EndOf


(* A step other than a read leaves what the receiver has.                  *)
LEMMA Untouched ==
  ASSUME TypeOK, TypeOK',
         Write \/ Skip \/ Disconnect \/ Reconnect \/ UNCHANGED vars
  PROVE  /\ kind' = kind /\ action' = action /\ misread' = misread
         /\ buffer' = buffer /\ applied' = applied /\ got' = got
         /\ up' = up /\ aligned' = aligned
         /\ torn' = torn \/ (Disconnect /\ torn' = torn + 1)
<1>1. CASE Write
  BY <1>1 DEF Write, fixed
<1>2. CASE Skip
  BY <1>2 DEF Skip, fixed
<1>3. CASE Disconnect
  BY <1>3 DEF Disconnect, fixed
<1>4. CASE Reconnect
  BY <1>4 DEF Reconnect, fixed
<1>5. CASE UNCHANGED vars
  BY <1>5 DEF vars, fixed
<1> QED
  BY <1>1, <1>2, <1>3, <1>4, <1>5

(* What is seen stays clean unless a connection is lost in the middle of a *)
(* message.                                                                *)
LEMMA UntouchedClean ==
  ASSUME TypeOK, TypeOK', Clean(Sight), torn' = torn,
         Write \/ Skip \/ Disconnect \/ Reconnect \/ UNCHANGED vars
  PROVE  Clean(Sight')
BY CleanKept

(* A read of something clean leaves it clean; the receiver keeps less than *)
(* a message, and passes on the messages that end in what it parses.       *)
LEMMA ReadInStep ==
  ASSUME TypeOK, TypeOK', InStep, torn = 0, kind # "audio",
         NEW k \in 1..Len(pipe), Read(k)
  PROVE  /\ Clean(Sight')
         /\ Len(buffer') < Size /\ Len(buffer') <= Len(got')
         /\ buffer' = From(got', Len(got') - Len(buffer') + 1)
         /\ \E r \in Results :
              /\ applied' = applied \o r.out
              /\ action = "number" =>
                   Delivers(r.out, Ended(buffer \o SubSeq(pipe, 1, k)))
<1> DEFINE chunk == SubSeq(pipe, 1, k)
           b == buffer \o chunk
<1>1. /\ Clean(Sight) /\ Len(buffer) < Size /\ Len(buffer) <= Len(got)
      /\ buffer = From(got, Len(got) - Len(buffer) + 1)
  BY DEF InStep
<1>2. /\ chunk \in Seq(Cell) /\ buffer \in Seq(Cell) /\ got \in Seq(Cell)
      /\ got' = got \o chunk
  BY Chunk DEF TypeOK, Read
<1>3. Clean(b)
  BY <1>1, CleanRead
<1>4. PICK r \in Parse(chunk) : buffer' = r.rest /\ applied' = applied \o r.out
  BY DEF Read, Throws
<1>5. r \in Results /\ CutRight(b, r)
  BY <1>2, <1>3, <1>4, ParseTypes, ParseRight
<1>6. PICK j \in 0..Len(b) : /\ j > 0 => b[j][2] = Size
                             /\ Len(b) - j < Size
                             /\ r.rest = From(b, j + 1)
  BY <1>5 DEF CutRight
<1>7. Clean(Sight')
  BY <1>1, <1>4, <1>6, ReadStaysClean
<1>8. /\ Len(buffer') = Len(b) - j /\ Len(buffer') <= Len(got')
      /\ buffer' = From(got', Len(got') - Len(buffer') + 1)
  <2> HIDE DEF chunk
  <2>1. buffer' = From(buffer \o chunk, j + 1)
    BY <1>4, <1>6
  <2>2. EndOf(buffer, got)
    BY <1>1 DEF EndOf
  <2>3. j \in 0..Len(buffer \o chunk)
    OBVIOUS
  <2>4. /\ Len(From(buffer \o chunk, j + 1)) = Len(buffer \o chunk) - j
        /\ EndOf(From(buffer \o chunk, j + 1), got \o chunk)
    BY <2>2, <2>3, <1>2, LastRead
  <2> QED
    BY <2>1, <2>4, <1>2 DEF EndOf
<1>9. action = "number" => Delivers(r.out, Ended(b))
  BY <1>5 DEF CutRight
<1>10. Len(buffer') < Size
  BY <1>8, <1>6
<1> QED
  BY <1>4, <1>5, <1>7, <1>8, <1>9, <1>10

(* The receiver stays in step.                                             *)
LEMMA InStepStep ==
  ASSUME TypeOK, TypeOK', InStep, [Next]_vars
  PROVE  InStep'
<1>1. SUFFICES ASSUME torn' = 0, kind' # "audio"
               PROVE  /\ Clean(Sight')
                      /\ Len(buffer') < Size /\ Len(buffer') <= Len(got')
                      /\ buffer' = From(got', Len(got') - Len(buffer') + 1)
  BY DEF InStep, Clean, Flow, From
<1>2. CASE Write \/ Skip \/ Disconnect \/ Reconnect \/ UNCHANGED vars
  <2>1. /\ kind' = kind /\ buffer' = buffer /\ got' = got
        /\ torn' = torn \/ (Disconnect /\ torn' = torn + 1)
    BY <1>2, Untouched
  <2>2. torn' = torn
    <3>1. torn \in Nat
      BY DEF TypeOK
    <3> QED
      BY <3>1, <2>1, <1>1
  <2>3. /\ Clean(Sight) /\ Len(buffer) < Size /\ Len(buffer) <= Len(got)
        /\ buffer = From(got, Len(got) - Len(buffer) + 1)
    BY <1>1, <2>1, <2>2 DEF InStep
  <2> QED
    BY <1>2, <2>1, <2>2, <2>3, UntouchedClean
<1>3. ASSUME NEW k \in 1..Len(pipe), Read(k)
      PROVE  /\ Clean(Sight')
             /\ Len(buffer') < Size /\ Len(buffer') <= Len(got')
             /\ buffer' = From(got', Len(got') - Len(buffer') + 1)
  <2>1. torn = 0 /\ kind # "audio"
    BY <1>1, <1>3 DEF Read, fixed
  <2> QED
    BY <1>3, <2>1, ReadInStep
<1> QED
  BY <1>2, <1>3 DEF Next, Done

(* What arrives with a chunk comes after all that arrived before.          *)
LEMMA ReadArrives ==
  ASSUME TypeOK, Fresh, NEW k \in 1..Len(pipe), Read(k)
  PROVE  /\ Arrived' = Arrived \cup Ended(SubSeq(pipe, 1, k))
         /\ Arrived \subseteq Nat /\ Ended(SubSeq(pipe, 1, k)) \subseteq Nat
         /\ \A m \in Arrived, n \in Ended(SubSeq(pipe, 1, k)) : m < n
<1> DEFINE chunk == SubSeq(pipe, 1, k)
<1>1. /\ chunk \in Seq(Place) /\ got \in Seq(Place) /\ Len(chunk) = k
      /\ \A i \in 1..k : chunk[i] = pipe[i]
      /\ got' = got \o chunk
  BY Chunk, CellsPlaces, Places DEF Read
<1> HIDE DEF chunk
<1>2. Arrived' = Ended(got \o chunk)
  BY <1>1 DEF Arrived, Ended, Ends
<1>3. Arrived' = Arrived \cup Ended(chunk)
  BY <1>1, <1>2, EndedConcat DEF Arrived
<1>4. Arrived \subseteq Nat /\ Ended(chunk) \subseteq Nat
  BY <1>1, EndedIs DEF Arrived
<1>5. ASSUME NEW m \in Arrived, NEW n \in Ended(chunk)
      PROVE  m < n
  <2>1. PICK i \in 1..k : chunk[i][1] = n
    BY <1>1, EndedIs
  <2>2. i \in DOMAIN pipe
    BY LenProperties DEF TypeOK
  <2> QED
    BY <2>1, <2>2, <1>1 DEF Fresh
<1> QED
  BY <1>3, <1>4, <1>5 DEF chunk

(* A clean buffer that is shorter than a message holds no end of one.      *)
LEMMA NoEnd ==
  ASSUME NEW b \in Seq(Place), NEW c \in Seq(Place), Clean(b \o c),
         Len(b) < Size
  PROVE  Ended(b) = {}
<1>1. /\ b \o c \in Seq(Place) /\ Len(b \o c) = Len(b) + Len(c)
      /\ \A i \in 1..(Len(b) + Len(c)) :
           (b \o c)[i] = IF i <= Len(b) THEN b[i] ELSE c[i - Len(b)]
      /\ Len(b) \in Nat /\ Len(c) \in Nat
  BY ConcatProperties, LenProperties
<1>2. ASSUME NEW i \in 1..Len(b) PROVE b[i][2] # Size
  <2>1. /\ i \in 1..Len(b \o c) /\ i <= Size /\ i # Size
        /\ i \in 1..(Len(b) + Len(c)) /\ i <= Len(b)
    BY <1>1, SizeAssumption DEF SizeAssumption
  <2>2. (b \o c)[i] = b[i]
    BY <2>1, <1>1
  <2>3. (b \o c)[i] = <<(b \o c)[1][1], i>>
    BY <2>1, <1>1, CleanStart
  <2> QED
    BY <2>1, <2>2, <2>3
<1> QED
  BY <1>2, EndedIs

(* What Delivers says of the next state.                                   *)
LEMMA DeliversAfter ==
  ASSUME kind' = kind, Delivers(applied', Arrived')
  PROVE  Delivers(applied, Arrived)'
BY DEF Delivers, Content

(* The messages passed on and those that arrived stay the same ones.       *)
LEMMA ReassembledStep ==
  ASSUME TypeOK, TypeOK', Fresh, InStep, InStep', Reassembled, [Next]_vars
  PROVE  Reassembled'
<1>1. SUFFICES ASSUME torn' = 0, kind' # "audio", action' = "number"
               PROVE  Delivers(applied, Arrived)'
  BY DEF InStep, Reassembled
<1>2. CASE Write \/ Skip \/ Disconnect \/ Reconnect \/ UNCHANGED vars
  <2>1. /\ kind' = kind /\ applied' = applied /\ got' = got
        /\ action' = action
        /\ torn' = torn \/ (Disconnect /\ torn' = torn + 1)
    BY <1>2, Untouched
  <2>2. torn = 0
    <3>1. torn \in Nat
      BY DEF TypeOK
    <3> QED
      BY <3>1, <2>1, <1>1
  <2>3. Delivers(applied, Arrived)
    BY <1>1, <2>1, <2>2 DEF Reassembled
  <2>4. Arrived' = Arrived
    BY <2>1 DEF Arrived, Ended, Ends
  <2>5. Delivers(applied', Arrived')
    BY <2>1, <2>3, <2>4
  <2> QED
    BY <2>1, <2>5, DeliversAfter
<1>3. ASSUME NEW k \in 1..Len(pipe), Read(k)
      PROVE  Delivers(applied, Arrived)'
  <2> DEFINE chunk == SubSeq(pipe, 1, k)
  <2>1. torn = 0 /\ kind # "audio" /\ kind' = kind /\ action = "number"
    BY <1>1, <1>3 DEF Read, fixed
  <2>2. PICK r \in Results : /\ applied' = applied \o r.out
                             /\ Delivers(r.out, Ended(buffer \o chunk))
    BY <1>3, <2>1, ReadInStep
  <2>3. Ended(buffer \o chunk) = Ended(chunk)
    <3>1. buffer \in Seq(Place) /\ chunk \in Seq(Place)
      BY Places, Chunk, CellsPlaces
    <3>2. Clean(buffer \o chunk) /\ Len(buffer) < Size
      BY <1>3, <2>1, CleanRead DEF InStep
    <3> HIDE DEF chunk
    <3>3. Ended(buffer) = {}
      BY <3>1, <3>2, NoEnd
    <3>4. Ended(buffer \o chunk) = {} \cup Ended(chunk)
      BY <3>1, <3>3, EndedConcat
    <3> QED
      BY <3>4, Zenon
  <2>4. Delivers(applied, Arrived)
    BY <2>1 DEF Reassembled
  <2>5. /\ Arrived' = Arrived \cup Ended(chunk)
        /\ Arrived \subseteq Nat /\ Ended(chunk) \subseteq Nat
        /\ \A m \in Arrived, n \in Ended(chunk) : m < n
    BY <1>3, ReadArrives
  <2>6. applied \in Seq(Seq(Cell)) /\ r.out \in Seq(Seq(Cell))
    BY <2>2 DEF TypeOK, Results
  <2> HIDE DEF chunk
  <2>7. Delivers(applied \o r.out, Arrived \cup Ended(chunk))
    BY <2>2, <2>3, <2>4, <2>5, <2>6, DeliversJoin
  <2>8. Delivers(applied', Arrived')
    BY <2>2, <2>5, <2>7
  <2> QED
    BY <2>1, <2>8, DeliversAfter
<1> QED
  BY <1>2, <1>3 DEF Next, Done
-----------------------------------------------------------------------------
(* Audio.                                                                  *)

(* A message is whole, and the only one that ends in it is itself.         *)
LEMMA WholeMessage ==
  ASSUME NEW n \in Nat
  PROVE  Whole(Message(n)) /\ Ended(Message(n)) = {n}
<1>1. /\ Message(n) \in Seq(Place) /\ Len(Message(n)) = Size
      /\ \A i \in 1..Size : Message(n)[i] = <<n, i>>
      /\ Size \in Nat /\ Size >= 2
  BY MessageIs, SizeAssumption DEF SizeAssumption
<1> DEFINE u == Message(n)
<1>2. u \in Seq(Place) /\ Len(u) = Size /\ \A i \in 1..Size : u[i] = <<n, i>>
  BY <1>1
<1> HIDE DEF u
<1>3. u # <<>> /\ u[1][1] = n
  BY <1>1, <1>2, EmptySeq
<1>4. Whole(u)
  BY <1>3 DEF Whole, u
<1>5. ASSUME NEW m PROVE m \in Ended(u) <=> m = n
  <2>1. m \in Ended(u) <=> \E i \in 1..Len(u) : u[i][1] = m /\ u[i][2] = Size
    BY <1>2, EndedIs
  <2>2. Size \in 1..Len(u) /\ u[Size] = <<n, Size>>
    BY <1>1, <1>2
  <2> QED
    BY <2>1, <2>2, <1>2
<1> QED
  BY <1>4, <1>5 DEF u

(* A chunk flows.                                                          *)
LEMMA ChunkFlows ==
  ASSUME TypeOK, Flow(Ahead), NEW k \in 1..Len(pipe)
  PROVE  Flow(SubSeq(pipe, 1, k))
<1> DEFINE c == SubSeq(pipe, 1, k)
<1>1. /\ Len(c) = k /\ \A i \in 1..k : c[i] = pipe[i]
      /\ Len(Ahead) = Len(pipe) + 1 /\ Len(pipe) \in Nat
      /\ \A i \in 1..Len(pipe) : Ahead[i] = pipe[i]
  BY Chunk, SightIs
<1> HIDE DEF c
<1>2. ASSUME NEW i \in 1..(Len(c) - 1) PROVE Follows(c[i], c[i + 1])
  <2>1. /\ i \in 1..k /\ i + 1 \in 1..k
        /\ i \in 1..Len(pipe) /\ i + 1 \in 1..Len(pipe)
        /\ i \in 1..(Len(Ahead) - 1)
    BY <1>1
  <2>2. c[i] = Ahead[i] /\ c[i + 1] = Ahead[i + 1]
    BY <2>1, <1>1
  <2>3. Follows(Ahead[i], Ahead[i + 1])
    BY <2>1 DEF Flow
  <2> QED
    BY <2>2, <2>3
<1> QED
  BY <1>2 DEF Flow, c

(* What is passed on from a chunk is one packet at most, whole when it     *)
(* looks like a packet; a chunk that is a packet is passed on.             *)
LEMMA PacketRight ==
  ASSUME TypeOK, Flow(Ahead), kind = "audio", NEW k \in 1..Len(pipe),
         NEW r \in Packet(SubSeq(pipe, 1, k))
  PROVE  /\ \/ r.out = <<>>
            \/ \E u \in Seq(Cell) :
                 r.out = <<u>> /\ (u[1][2] = 1 => Whole(u))
         /\ Whole(SubSeq(pipe, 1, k)) =>
              Delivers(r.out, Ended(SubSeq(pipe, 1, k)))
<1> DEFINE c == SubSeq(pipe, 1, k)
<1>1. /\ c \in Seq(Cell) /\ c \in Seq(Place) /\ Len(c) = k /\ Flow(c)
      /\ k \in Nat /\ Size \in Nat /\ Size >= 2
  BY Chunk, CellsPlaces, ChunkFlows, SizeAssumption DEF SizeAssumption, TypeOK
<1>2. c # <<>> /\ c[1] \in Place
  BY <1>1, EmptySeq
<1>3. \A u : Pass(u) = <<u>>
  BY DEF Pass, Accepts
<1>7. r \in Packet(c)
  OBVIOUS
<1> HIDE DEF c
<1>4. CASE c[1][2] = 1 /\ Len(c) < Size
  <2>1. r.out = <<>>
    BY <1>4, <1>7 DEF Packet, Cut
  <2>2. ~Whole(c)
    <3>1. SUFFICES ASSUME Whole(c) PROVE FALSE
      OBVIOUS
    <3>2. c = Message(c[1][1]) /\ c[1][1] \in Nat
      BY <3>1, <1>2 DEF Whole, Place
    <3>3. Len(c) = Size
      BY <3>2, MessageIs
    <3> QED
      BY <3>3, <1>4, <1>1
  <2> QED
    BY <2>1, <2>2 DEF c
<1>5. CASE c[1][2] = 1 /\ ~(Len(c) < Size)
  <2> DEFINE n == c[1][1]
             u == SubSeq(c, 1, Size)
  <2>1. r.out = <<u>>
    <3>1. Len(c) # 1
      BY <1>5, <1>1
    <3>2. Packet(c) = {Cut(Pass(u), <<>>)}
      BY <3>1, <1>5 DEF Packet
    <3>3. r = Cut(Pass(u), <<>>)
      BY <3>2, <1>7
    <3> HIDE DEF u
    <3> QED
      BY <3>3, <1>3 DEF Cut
  <2>2. n \in Nat /\ u = Message(n)
    BY <1>1, <1>5, FirstMessage DEF Clean
  <2>3. Whole(u)
    BY <2>2, WholeMessage
  <2>4. u \in Seq(Cell)
    <3>1. 1 \in 1..(Len(c) + 1) /\ Size \in (1 - 1)..Len(c)
      BY <1>1, <1>5
    <3> QED
      BY <3>1, <1>1, Piece
  <2>5. ASSUME Whole(c) PROVE Delivers(r.out, Ended(c))
    <3>1. c = Message(n)
      BY <2>5 DEF Whole
    <3>2. Ended(c) = {n}
      BY <3>1, <2>2, WholeMessage
    <3>3. Content(n) = Message(n)
      BY DEF Content
    <3> HIDE DEF n, u
    <3> QED
      BY <3>2, <3>3, <2>1, <2>2, DeliversOne
  <2> QED
    BY <2>1, <2>3, <2>4, <2>5 DEF c
<1>6. CASE c[1][2] # 1
  <2>1. r.out = <<>> \/ r.out = <<c>>
    BY <1>3, <1>6, <1>7 DEF Packet, Cut
  <2>2. ~Whole(c)
    <3>1. SUFFICES ASSUME Whole(c) PROVE FALSE
      OBVIOUS
    <3>2. c = Message(c[1][1]) /\ c[1][1] \in Nat
      BY <3>1, <1>2 DEF Whole, Place
    <3>3. c[1] = <<c[1][1], 1>>
      <4>1. 1 \in 1..Size
        BY <1>1
      <4> QED
        BY <3>2, <4>1, MessageIs
    <3> QED
      BY <3>3, <1>6
  <2> QED
    BY <1>1, <1>6, <2>1, <2>2 DEF c
<1> QED
  BY <1>1, <1>4, <1>5, <1>6

(* The stream is the same one for the whole run.                           *)
LEMMA KindStays ==
  ASSUME [Next]_vars
  PROVE  kind' = kind /\ action' = action
<1>1. CASE Write \/ Skip \/ Disconnect \/ Reconnect
  BY <1>1 DEF Write, Skip, Disconnect, Reconnect, fixed
<1>2. ASSUME NEW k \in 1..Len(pipe), Read(k)
      PROVE  kind' = kind /\ action' = action
  BY <1>2 DEF Read, fixed
<1>3. CASE UNCHANGED vars
  BY <1>3 DEF vars, fixed
<1> QED
  BY <1>1, <1>2, <1>3 DEF Next, Done

(* What is passed on of audio stays right.                                 *)
LEMMA AudioStep ==
  ASSUME TypeOK, TypeOK', Fresh, AudioByChunk, [Next]_vars
  PROVE  AudioByChunk'
<1> DEFINE Beginning(s) == \A i \in DOMAIN s : s[i][1][2] = 1 => Whole(s[i])
<1>1. SUFFICES ASSUME kind' = "audio"
               PROVE  /\ Beginning(applied')
                      /\ aligned' => up' /\ Delivers(applied', Arrived')
  <2>1. SUFFICES ASSUME kind' = "audio" PROVE AudioByChunk'
    BY DEF AudioByChunk
  <2>2. /\ Beginning(applied')
        /\ aligned' => up' /\ Delivers(applied', Arrived')
    BY <2>1
  <2>3. kind' = kind
    BY KindStays
  <2>4. Delivers(applied', Arrived') => Delivers(applied, Arrived)'
    BY <2>3, DeliversAfter
  <2> QED
    BY <2>2, <2>4 DEF AudioByChunk
<1>2. CASE Write \/ Skip \/ Disconnect \/ Reconnect \/ UNCHANGED vars
  <2>1. /\ kind' = kind /\ applied' = applied /\ got' = got
        /\ up' = up /\ aligned' = aligned
    BY <1>2, Untouched
  <2>2. Arrived' = Arrived
    BY <2>1 DEF Arrived, Ended, Ends
  <2> QED
    BY <2>1, <2>2, <1>1 DEF AudioByChunk
<1>3. ASSUME NEW k \in 1..Len(pipe), Read(k)
      PROVE  /\ Beginning(applied')
             /\ aligned' => up' /\ Delivers(applied', Arrived')
  <2> DEFINE c == SubSeq(pipe, 1, k)
  <2>1. kind = "audio" /\ aligned' = (aligned /\ Whole(c))
    BY <1>1, <1>3 DEF Read, fixed
  <2>2. /\ Beginning(applied)
        /\ aligned => up /\ Delivers(applied, Arrived)
    BY <2>1 DEF AudioByChunk
  <2>3. c \in Seq(Place) /\ Len(c) = k
    BY Chunk, CellsPlaces
  <2>4. CASE Throws(c) /\ applied' = applied
    <3>1. ~Whole(c)
      <4>1. SUFFICES ASSUME Whole(c) PROVE FALSE
        OBVIOUS
      <4> HIDE DEF c
      <4>2. c = Message(c[1][1]) /\ c[1] \in Place
        BY <4>1, <2>3 DEF Whole
      <4>3. Len(c) = Size
        BY <4>2, MessageIs DEF Place
      <4> QED
        BY <4>3, <2>4, SizeAssumption DEF Throws, SizeAssumption
    <3> QED
      BY <3>1, <2>1, <2>2, <2>4
  <2>5. ASSUME NEW r \in Parse(c), applied' = applied \o r.out, up' = up
        PROVE  /\ Beginning(applied')
               /\ aligned' => up' /\ Delivers(applied', Arrived')
    <3>1. /\ \/ r.out = <<>>
             \/ \E u \in Seq(Cell) :
                  r.out = <<u>> /\ (u[1][2] = 1 => Whole(u))
          /\ Whole(c) => Delivers(r.out, Ended(c))
      <4>1. r \in Packet(c)
        BY <2>1 DEF Parse
      <4> QED
        BY <4>1, <2>1, PacketRight DEF Fresh
    <3> HIDE DEF c
    <3>2. applied \in Seq(Seq(Cell)) /\ r.out \in Seq(Seq(Cell))
      <4>1. r \in Results
        BY ParseTypes DEF c
      <4> QED
        BY <4>1 DEF TypeOK, Results
    <3>3. Beginning(applied')
      <4>1. CASE r.out = <<>>
        <5>1. applied' = applied
          BY <4>1, <2>5, <3>2, ConcatEmptySeq
        <5> QED
          BY <5>1, <2>2
      <4>2. ASSUME NEW u \in Seq(Cell), r.out = <<u>>, u[1][2] = 1 => Whole(u)
            PROVE  Beginning(applied')
        <5>1. applied' = Append(applied, u)
          BY <4>2, <2>5, <3>2, AppendIsConcat
        <5>2. /\ Len(applied) \in Nat /\ DOMAIN applied = 1..Len(applied)
              /\ DOMAIN applied' = 1..(Len(applied) + 1)
              /\ \A i \in 1..Len(applied) : applied'[i] = applied[i]
              /\ applied'[Len(applied) + 1] = u
          BY <5>1, <3>2, AppendProperties, LenProperties
        <5>3. ASSUME NEW i \in DOMAIN applied', applied'[i][1][2] = 1
              PROVE  Whole(applied'[i])
          <6>1. CASE i \in 1..Len(applied)
            BY <6>1, <5>2, <5>3, <2>2
          <6>2. CASE i = Len(applied) + 1
            BY <6>2, <5>2, <5>3, <4>2
          <6> QED
            BY <6>1, <6>2, <5>2
        <5> QED
          BY <5>3
      <4> QED
        BY <3>1, <4>1, <4>2
    <3>4. ASSUME aligned' PROVE up' /\ Delivers(applied', Arrived')
      <4>1. /\ Arrived' = Arrived \cup Ended(c)
            /\ Arrived \subseteq Nat /\ Ended(c) \subseteq Nat
            /\ \A m \in Arrived, n \in Ended(c) : m < n
        BY <1>3, ReadArrives DEF c
      <4>2. /\ up /\ Delivers(applied, Arrived) /\ Delivers(r.out, Ended(c))
        BY <3>4, <2>1, <2>2, <3>1
      <4>3. Delivers(applied \o r.out, Arrived \cup Ended(c))
        BY <4>1, <4>2, <3>2, DeliversJoin
      <4> QED
        BY <4>1, <4>2, <4>3, <2>5
    <3> QED
      BY <3>3, <3>4
  <2> QED
    BY <1>3, <2>4, <2>5 DEF Read
<1> QED
  BY <1>2, <1>3 DEF Next, Done
-----------------------------------------------------------------------------
(* Lines that are lost or garbled.                                         *)

(* What is wrong in s, and whether s has a thing.                          *)
Wrong(s) == {i \in DOMAIN s : ~Whole(s[i])}
Has(s, x) == \E i \in DOMAIN s : s[i] = x

(* Both, for one sequence behind another.                                  *)
LEMMA HasConcat ==
  ASSUME NEW D, NEW s \in Seq(D), NEW t \in Seq(D), NEW x,
         Has(s, x) \/ Has(t, x)
  PROVE  Has(s \o t, x)
<1> DEFINE e == s \o t
<1>1. /\ Len(s) \in Nat /\ Len(t) \in Nat
      /\ DOMAIN s = 1..Len(s) /\ DOMAIN t = 1..Len(t)
      /\ DOMAIN e = 1..(Len(s) + Len(t))
      /\ \A i \in 1..(Len(s) + Len(t)) :
           e[i] = IF i <= Len(s) THEN s[i] ELSE t[i - Len(s)]
  BY ConcatProperties, LenProperties
<1> HIDE DEF e
<1>2. ASSUME NEW i \in DOMAIN s, s[i] = x PROVE Has(e, x)
  <2>1. i \in DOMAIN e /\ i <= Len(s) /\ i \in 1..(Len(s) + Len(t))
    BY <1>1
  <2>2. e[i] = x
    BY <2>1, <1>1, <1>2
  <2> QED
    BY <2>1, <2>2 DEF Has
<1>3. ASSUME NEW i \in DOMAIN t, t[i] = x PROVE Has(e, x)
  <2> DEFINE j == Len(s) + i
  <2>1. j \in 1..(Len(s) + Len(t)) /\ ~(j <= Len(s)) /\ j - Len(s) = i
    BY <1>1
  <2> HIDE DEF j
  <2>2. j \in DOMAIN e /\ e[j] = x
    BY <2>1, <1>1, <1>3
  <2> QED
    BY <2>2 DEF Has
<1> QED
  BY <1>2, <1>3 DEF Has, e

(* Nothing gets wrong by what is whole behind it.                          *)
LEMMA WrongConcat ==
  ASSUME NEW D, NEW s \in Seq(D), NEW t \in Seq(D), Wrong(t) = {}
  PROVE  Wrong(s \o t) \subseteq Wrong(s)
<1> DEFINE e == s \o t
<1>1. /\ Len(s) \in Nat /\ Len(t) \in Nat
      /\ DOMAIN s = 1..Len(s) /\ DOMAIN t = 1..Len(t)
      /\ DOMAIN e = 1..(Len(s) + Len(t))
      /\ \A i \in 1..(Len(s) + Len(t)) :
           e[i] = IF i <= Len(s) THEN s[i] ELSE t[i - Len(s)]
  BY ConcatProperties, LenProperties
<1> HIDE DEF e
<1>2. ASSUME NEW i \in DOMAIN e, ~Whole(e[i])
      PROVE  i \in DOMAIN s /\ ~Whole(s[i])
  <2>1. CASE i <= Len(s)
    <3>1. i \in DOMAIN s /\ e[i] = s[i]
      BY <2>1, <1>1
    <3> QED
      BY <3>1, <1>2
  <2>2. CASE ~(i <= Len(s))
    <3> DEFINE j == i - Len(s)
    <3>1. j \in DOMAIN t /\ e[i] = t[j]
      BY <2>2, <1>1
    <3> HIDE DEF j
    <3> QED
      BY <3>1, <1>2 DEF Wrong
  <2> QED
    BY <2>1, <2>2
<1> QED
  BY <1>2 DEF Wrong, e

(* One message more is one wrong message more at most.                     *)
LEMMA WrongOne ==
  ASSUME NEW D, NEW s \in Seq(D), NEW u \in D
  PROVE  Wrong(s \o <<u>>) \subseteq Wrong(s) \cup {Len(s) + 1}
<1> DEFINE e == s \o <<u>>
<1>1. /\ Len(s) \in Nat /\ DOMAIN s = 1..Len(s)
      /\ DOMAIN e = 1..(Len(s) + 1)
      /\ \A i \in 1..Len(s) : e[i] = s[i]
  BY AppendIsConcat, AppendProperties, LenProperties
<1> HIDE DEF e
<1>2. ASSUME NEW i \in DOMAIN e, ~Whole(e[i]), i # Len(s) + 1
      PROVE  i \in DOMAIN s /\ ~Whole(s[i])
  <2>1. i \in 1..Len(s)
    BY <1>1, <1>2
  <2> QED
    BY <2>1, <1>1, <1>2
<1> QED
  BY <1>2 DEF Wrong, e

(* A set that grows by one thing at most.                                  *)
LEMMA OneMore ==
  ASSUME NEW S, NEW T, NEW x, IsFiniteSet(S), T \subseteq S \cup {x}
  PROVE  /\ Cardinality(S) \in Nat /\ Cardinality(T) \in Nat
         /\ Cardinality(T) <= Cardinality(S) + 1
<1>1. /\ IsFiniteSet(S \cup {x}) /\ Cardinality(S) \in Nat
      /\ \/ Cardinality(S \cup {x}) = Cardinality(S)
         \/ Cardinality(S \cup {x}) = Cardinality(S) + 1
  BY FS_AddElement, FS_CardinalityType
<1>2. IsFiniteSet(T) /\ Cardinality(T) <= Cardinality(S \cup {x})
  BY <1>1, FS_Subset
<1>3. Cardinality(T) \in Nat
  BY <1>2, FS_CardinalityType
<1> QED
  BY <1>1, <1>2, <1>3

(* One that does not grow.                                                 *)
LEMMA NoMore ==
  ASSUME NEW S, NEW T, IsFiniteSet(S), T \subseteq S
  PROVE  /\ Cardinality(S) \in Nat /\ Cardinality(T) \in Nat
         /\ Cardinality(T) <= Cardinality(S)
<1>1. IsFiniteSet(T) /\ Cardinality(T) <= Cardinality(S)
  BY FS_Subset
<1> QED
  BY <1>1, FS_CardinalityType

(* The lines that are counted.                                             *)
LEMMA Counted ==
  ASSUME TypeOK
  PROVE  /\ IsFiniteSet(Garbled) /\ IsFiniteSet(Lost)
         /\ Garbled = Wrong(applied)
         /\ \A n : n \in Lost <=> n \in Complete /\ ~Has(applied, Message(n))
         /\ Len(applied) \in Nat
<1>1. DOMAIN applied = 1..Len(applied) /\ Len(applied) \in Nat
  BY LenProperties DEF TypeOK
<1>2. IsFiniteSet(1..Len(applied)) /\ Garbled \subseteq 1..Len(applied)
  BY <1>1, FS_Interval DEF Garbled
<1>3. IsFiniteSet(1..MaxMessages) /\ Lost \subseteq 1..MaxMessages
  BY FS_Interval, BoundAssumption DEF Lost, Complete, BoundAssumption
<1>4. IsFiniteSet(Garbled) /\ IsFiniteSet(Lost)
  BY <1>2, <1>3, FS_Subset
<1> QED
  BY <1>1, <1>4 DEF Garbled, Wrong, Lost, Has

(* What is delivered as lines is whole, and nothing of it is missing.      *)
LEMMA DeliversWhole ==
  ASSUME kind # "video", NEW s, NEW M \in SUBSET Nat, Delivers(s, M)
  PROVE  Wrong(s) = {} /\ \A n \in M : Has(s, Message(n))
<1>1. {s[i] : i \in DOMAIN s} = {Message(n) : n \in M}
  BY DEF Delivers, Content
<1>2. ASSUME NEW i \in DOMAIN s PROVE Whole(s[i])
  <2>1. PICK n \in M : s[i] = Message(n)
    BY <1>1
  <2> QED
    BY <2>1, WholeMessage
<1>3. ASSUME NEW n \in M PROVE Has(s, Message(n))
  <2>1. Message(n) \in {s[i] : i \in DOMAIN s}
    BY <1>1
  <2> QED
    BY <2>1 DEF Has
<1> QED
  BY <1>2, <1>3 DEF Wrong

(* A message that a chunk completes ends in it.                            *)
LEMMA CompletedByEnd ==
  ASSUME TypeOK, Fresh, NEW k \in 1..Len(pipe), Read(k), NEW n \in Complete'
  PROVE  n \in Complete \/ n \in Ended(SubSeq(pipe, 1, k))
<1> DEFINE c == SubSeq(pipe, 1, k)
<1>1. /\ c \in Seq(Place) /\ got \in Seq(Place) /\ got' = got \o c
      /\ Len(c) = k /\ \A i \in 1..k : c[i] = pipe[i]
  BY Chunk, CellsPlaces, Places DEF Read
<1> HIDE DEF c
<1>2. /\ Len(got) \in Nat /\ DOMAIN got = 1..Len(got)
      /\ DOMAIN pipe = 1..Len(pipe)
      /\ DOMAIN (got \o c) = 1..(Len(got) + k)
      /\ \A i \in 1..(Len(got) + k) :
           (got \o c)[i] = IF i <= Len(got) THEN got[i] ELSE c[i - Len(got)]
  <2>1. DOMAIN pipe = 1..Len(pipe)
    BY LenProperties DEF TypeOK
  <2>2. /\ Len(got) \in Nat /\ DOMAIN got = 1..Len(got)
        /\ DOMAIN (got \o c) = 1..(Len(got) + Len(c))
        /\ \A i \in 1..(Len(got) + Len(c)) :
             (got \o c)[i] = IF i <= Len(got) THEN got[i] ELSE c[i - Len(got)]
    <3>1. c \in Seq(Place) /\ got \in Seq(Place)
      BY <1>1
    <3> QED
      BY <3>1, ConcatProperties, LenProperties
  <2>3. Len(c) = k
    BY <1>1
  <2> QED
    BY <2>1, <2>2, <2>3, Zenon
<1>3. /\ n \in 1..MaxMessages
      /\ \A i \in 1..Size : \E j \in DOMAIN got' : got'[j] = <<n, i>>
  BY DEF Complete
<1>4. ASSUME NEW x, NEW j \in DOMAIN got', got'[j] = x,
             \A i \in 1..k : c[i] # x
      PROVE  \E i \in DOMAIN got : got[i] = x
  <2> DEFINE e == got \o c
             m == j - Len(got)
  <2>1. j \in 1..(Len(got) + k) /\ e[j] = x
    BY <1>1, <1>2, <1>4
  <2>2. j <= Len(got)
    <3>1. SUFFICES ASSUME ~(j <= Len(got)) PROVE FALSE
      OBVIOUS
    <3>2. m \in 1..k /\ e[j] = c[m]
      BY <2>1, <3>1, <1>2
    <3> HIDE DEF m, e
    <3> QED
      BY <3>2, <2>1, <1>4
  <2> HIDE DEF e
  <2>3. e[j] = got[j]
    BY <2>1, <2>2, <1>2 DEF e
  <2> QED
    BY <2>1, <2>2, <2>3, <1>2
<1>5. SUFFICES ASSUME n \notin Ended(c) PROVE n \in Complete
  BY DEF c
<1>6. \A i \in 1..k : c[i] # <<n, Size>>
  <2>1. c \in Seq(Place) /\ Len(c) = k
    BY <1>1
  <2>2. \A i \in 1..k : ~(c[i][1] = n /\ c[i][2] = Size)
    BY <2>1, <1>5, EndedIs
  <2> QED
    BY <2>2
<1>7. n \in Arrived
  <2>1. Size \in 1..Size
    BY SizeAssumption DEF SizeAssumption
  <2>2. PICK j \in DOMAIN got' : got'[j] = <<n, Size>>
    BY <1>3, <2>1
  <2>3. PICK i \in DOMAIN got : got[i] = <<n, Size>>
    BY <2>2, <1>4, <1>6
  <2>4. i \in 1..Len(got) /\ got[i][1] = n /\ got[i][2] = Size
    BY <2>3, <1>2
  <2> QED
    BY <2>4, <1>1, EndedIs DEF Arrived
<1>8. \A i \in 1..k : n < c[i][1]
  <2>1. \A i \in DOMAIN pipe : n < pipe[i][1]
    BY <1>7 DEF Fresh
  <2>2. \A i \in 1..k : i \in DOMAIN pipe /\ c[i] = pipe[i]
    BY <1>1, <1>2
  <2> QED
    BY <2>1, <2>2
<1>9. ASSUME NEW i \in 1..Size PROVE \E j \in DOMAIN got : got[j] = <<n, i>>
  <2>1. \A m \in 1..k : c[m] # <<n, i>>
    BY <1>3, <1>8
  <2>2. PICK j \in DOMAIN got' : got'[j] = <<n, i>>
    BY <1>3
  <2> QED
    BY <2>1, <2>2, <1>4
<1> QED
  BY <1>3, <1>9 DEF Complete

(* Only a line that ends in the chunk, and is not passed on, is lost.      *)
LEMMA LostByRead ==
  ASSUME TypeOK, TypeOK', Fresh, NEW k \in 1..Len(pipe), Read(k),
         NEW out \in Seq(Seq(Cell)), applied' = applied \o out, NEW X,
         \A n \in Ended(SubSeq(pipe, 1, k)) : n \in X \/ Has(out, Message(n))
  PROVE  Lost' \subseteq Lost \cup X
<1>1. SUFFICES ASSUME NEW n \in Lost', n \notin X PROVE n \in Lost
  OBVIOUS
<1>2. n \in Complete' /\ ~Has(applied', Message(n))
  BY <1>1 DEF Lost, Has
<1>3. ~Has(applied, Message(n)) /\ ~Has(out, Message(n))
  <2>1. applied \in Seq(Seq(Cell))
    BY DEF TypeOK
  <2> QED
    BY <2>1, <1>2, HasConcat
<1>4. n \in Complete
  BY <1>1, <1>2, <1>3, CompletedByEnd
<1> QED
  BY <1>3, <1>4, Counted

(* The debt is one line at most, and none once what is seen is clean.      *)
LEMMA DebtIs == Debt \in {0, 1} /\ (Clean(Sight) => Debt = 0)
BY DEF Debt

(* The same in the next state.                                             *)
LEMMA DebtAfter ==
  Debt' \in {0, 1} /\ (Clean(Sight') => Debt' = 0)
                    /\ (~Clean(Sight) => Debt = 1)
BY DEF Debt, Clean, Flow

(* What is read while the receiver is in step.                             *)
LEMMA LinesInStep ==
  ASSUME TypeOK, TypeOK', Fresh, Clean(Sight), kind \in {"status", "touch"},
         action = "number", NEW k \in 1..Len(pipe), Read(k)
  PROVE  Clean(Sight') /\ Garbled' \subseteq Garbled /\ Lost' \subseteq Lost
<1> DEFINE chunk == SubSeq(pipe, 1, k)
           b == buffer \o chunk
<1>1. chunk \in Seq(Cell) /\ chunk \in Seq(Place) /\ buffer \in Seq(Place)
  BY Chunk, CellsPlaces, Places
<1>2. kind # "audio" /\ kind # "video"
  OBVIOUS
<1>3. PICK r \in Parse(chunk) : buffer' = r.rest /\ applied' = applied \o r.out
  BY <1>2 DEF Read, Throws
<1>4. r \in Results /\ CutRight(b, r)
  <2>1. Clean(b)
    BY CleanRead
  <2> QED
    BY <2>1, <1>1, <1>2, <1>3, ParseTypes, ParseRight
<1>5. PICK j \in 0..Len(b) : /\ j > 0 => b[j][2] = Size
                             /\ r.rest = From(b, j + 1)
  BY <1>4 DEF CutRight
<1>6. Clean(Sight')
  BY <1>3, <1>5, ReadStaysClean
<1>7. Delivers(r.out, Ended(b))
  BY <1>4 DEF CutRight
<1> HIDE DEF chunk
<1>8. Ended(b) \in SUBSET Nat /\ Ended(chunk) \subseteq Ended(b)
  <2>1. b \in Seq(Place)
    BY <1>1, ConcatProperties
  <2> QED
    BY <2>1, <1>1, EndedIs, EndedConcat
<1> HIDE DEF b
<1>9. Wrong(r.out) = {} /\ \A n \in Ended(b) : Has(r.out, Message(n))
  BY <1>2, <1>7, <1>8, DeliversWhole
<1>10. applied \in Seq(Seq(Cell)) /\ r.out \in Seq(Seq(Cell))
  BY <1>4 DEF TypeOK, Results
<1>11. Garbled' \subseteq Garbled
  <2>1. Wrong(applied \o r.out) \subseteq Wrong(applied)
    BY <1>9, <1>10, WrongConcat
  <2> QED
    BY <2>1, <1>3 DEF Garbled, Wrong
<1>12. Lost' \subseteq Lost \cup {}
  BY <1>3, <1>8, <1>9, <1>10, LostByRead DEF chunk
<1> QED
  BY <1>6, <1>11, <1>12

(* The first line that is read while the receiver is out of step is cut in *)
(* the chunk, and what is behind it is clean.                              *)
LEMMA LinesBackInStep ==
  ASSUME TypeOK, TypeOK', Fresh, kind \in {"status", "touch"},
         action = "number", NEW k \in 1..Len(pipe), Read(k),
         Ends(buffer \o SubSeq(pipe, 1, k)) # {}
  PROVE  /\ Clean(Sight')
         /\ Garbled' \subseteq Garbled \cup {Len(applied) + 1}
         /\ kind = "status" => Garbled' \subseteq Garbled
         /\ \E n : Lost' \subseteq Lost \cup {n}
<1> DEFINE chunk == SubSeq(pipe, 1, k)
           b == buffer \o chunk
           f == FirstEnd(b)
           u == SubSeq(b, 1, f)
           t == From(b, f + 1)
           more == LineReader[t]
           q == Len(buffer)
<1>1. /\ chunk \in Seq(Cell) /\ chunk \in Seq(Place) /\ Len(chunk) = k
      /\ buffer \in Seq(Cell) /\ b \in Seq(Cell) /\ Len(b) = q + k
      /\ q \in Nat /\ k \in Nat /\ Flow(chunk)
      /\ \A i \in 1..k : chunk[i] = pipe[i] /\ b[q + i] = pipe[i]
  <2>1. /\ chunk \in Seq(Cell) /\ chunk \in Seq(Place) /\ Len(chunk) = k
        /\ \A i \in 1..k : chunk[i] = pipe[i]
    BY Chunk, CellsPlaces
  <2>2. /\ b \in Seq(Cell) /\ Len(b) = q + k
        /\ \A i \in 1..k : b[q + i] = pipe[i]
    BY ReadSight
  <2>3. buffer \in Seq(Cell) /\ q \in Nat
    BY LenProperties DEF TypeOK
  <2>4. Flow(chunk)
    BY ChunkFlows DEF Fresh
  <2> QED
    BY <2>1, <2>2, <2>3, <2>4
<1>2. /\ f \in Ends(b) /\ (\A j \in Ends(b) : f <= j) /\ f \in 1..Len(b)
      /\ u \in Seq(Cell) /\ t \in Seq(Cell)
  BY <1>1, FirstEndIs, LineShorter
<1>3. PICK r \in Parse(chunk) : buffer' = r.rest /\ applied' = applied \o r.out
  BY DEF Read, Throws
<1>4. r = Cut(Pass(u) \o more.out, more.rest) /\ more \in Results
  <2>1. r = LineReader[b]
    BY <1>3 DEF Parse, Lines
  <2>2. LineReader[b] = LineStep(LineReader, b) /\ more \in Results
    BY <1>1, <1>2, LineEquation
  <2> QED
    BY <2>1, <2>2 DEF LineStep
<1> HIDE DEF more, u, f
<1>5. PICK m \in 1..k : f = q + m /\ pipe[m][2] = Size
  <2> DEFINE m == f - q
  <2>1. b[f][2] = Size
    BY <1>2 DEF Ends
  <2>2. ~(f <= q)
    <3>1. SUFFICES ASSUME f <= q PROVE FALSE
      OBVIOUS
    <3>2. f \in 1..Len(buffer)
      BY <3>1, <1>1, <1>2
    <3>3. b[f] = buffer[f]
      BY <3>2, <1>1, ConcatProperties
    <3>4. f \in Ends(buffer)
      BY <3>2, <3>3, <2>1, <1>1, LenProperties DEF Ends
    <3> QED
      BY <3>4 DEF TypeOK
  <2>3. m \in 1..k /\ f = q + m
    BY <2>2, <1>1, <1>2
  <2>4. b[q + m] = pipe[m]
    BY <2>3, <1>1
  <2> HIDE DEF m, b
  <2> QED
    BY <2>1, <2>3, <2>4
<1>6. /\ t = From(chunk, m + 1) /\ Len(t) = k - m /\ t \in Seq(Place)
      /\ \A i \in 1..(k - m) : t[i] = chunk[m + i]
  <2>1. From(b, q + 1) = chunk
    <3>1. q \in 0..Len(b) /\ Len(b) - q = k
      BY <1>1
    <3>2. /\ From(b, q + 1) \in Seq(Cell) /\ Len(From(b, q + 1)) = k
          /\ \A i \in 1..k : From(b, q + 1)[i] = b[q + i]
      <4> HIDE DEF b
      <4> QED
        BY <3>1, <1>1, Behind
    <3>3. \A i \in 1..k : From(b, q + 1)[i] = chunk[i]
      BY <3>2, <1>1
    <3> HIDE DEF b, chunk
    <3> QED
      BY <3>2, <3>3, <1>1, SeqEqual
  <2>2. t = From(From(b, q + 1), m + 1)
    <3>1. q \in 0..Len(b) /\ m \in Nat /\ q + m <= Len(b)
      BY <1>1
    <3>2. From(From(b, q + 1), m + 1) = From(b, q + m + 1)
      BY <3>1, <1>1, FromFrom
    <3> QED
      BY <3>2, <1>5
  <2> HIDE DEF t, b, chunk
  <2>3. t = From(chunk, m + 1)
    BY <2>1, <2>2
  <2>4. m \in 0..Len(chunk) /\ Len(chunk) - m = k - m
    BY <1>1
  <2>5. /\ From(chunk, m + 1) \in Seq(Place)
        /\ Len(From(chunk, m + 1)) = Len(chunk) - m
        /\ \A i \in 1..(Len(chunk) - m) : From(chunk, m + 1)[i] = chunk[m + i]
    BY <2>4, <1>1, Behind
  <2> QED
    BY <2>3, <2>4, <2>5
<1>7. Clean(t)
  <2> HIDE DEF t, chunk
  <2>1. m \in 1..Len(chunk) /\ chunk[m][2] = Size
    BY <1>1, <1>5
  <2> QED
    BY <2>1, <1>1, <1>6, CleanAfterEnd
<1>8. CutRight(t, more)
  <2> HIDE DEF t
  <2>1. kind # "video"
    OBVIOUS
  <2> QED
    BY <2>1, <1>2, <1>7, LinesRight DEF more
<1>9. PICK j \in 0..(k - m) : /\ j > 0 => t[j][2] = Size
                             /\ more.rest = From(t, j + 1)
  <2>1. PICK j \in 0..Len(t) : /\ j > 0 => t[j][2] = Size
                               /\ more.rest = From(t, j + 1)
    BY <1>8 DEF CutRight
  <2> QED
    BY <2>1, <1>6
<1>10. Delivers(more.out, Ended(t))
  BY <1>8 DEF CutRight
<1>11. buffer' = From(b, q + (m + j) + 1)
  <2>1. buffer' = From(t, j + 1)
    BY <1>3, <1>4, <1>9 DEF Cut
  <2>2. /\ f \in 0..Len(b) /\ j \in Nat /\ f + j <= Len(b)
        /\ f + j + 1 = q + (m + j) + 1
    <3>1. q \in Nat /\ k \in Nat /\ Len(b) = q + k /\ f = q + m
      BY <1>1, <1>5
    <3> HIDE DEF b, q
    <3> QED
      BY <3>1
  <2> HIDE DEF b
  <2>3. From(t, j + 1) = From(b, f + j + 1)
    BY <2>2, <1>1, FromFrom
  <2> QED
    BY <2>1, <2>2, <2>3
<1>12. Clean(Sight')
  <2> DEFINE p == m + j
  <2>1. p \in 1..k
    BY <1>1
  <2>2. pipe[p][2] = Size
    <3>1. CASE j = 0
      BY <3>1, <1>1, <1>5
    <3>2. CASE j # 0
      <4>1. j > 0 /\ j \in 1..(k - m)
        BY <3>2, <1>1
      <4> HIDE DEF t, chunk
      <4> QED
        BY <4>1, <2>1, <1>1, <1>6, <1>9
    <3> QED
      BY <3>1, <3>2
  <2>3. buffer' = From(b, Len(buffer) + p + 1) /\ Flow(Ahead)
    BY <1>11 DEF Fresh
  <2> HIDE DEF p
  <2> QED
    BY <2>1, <2>2, <2>3, ReadBecomesClean
<1>13. ASSUME NEW n \in Ended(chunk), n # pipe[m][1]
       PROVE  n \in Ended(t)
  <2> HIDE DEF t, chunk
  <2>1. PICK i \in 1..k : chunk[i][1] = n /\ chunk[i][2] = Size
    BY <1>13, <1>1, EndedIs
  <2>2. ~(i < m)
    <3>1. q + i \in DOMAIN b /\ b[q + i][2] = Size
      <4>1. q + i \in 1..Len(b) /\ b[q + i][2] = Size
        BY <2>1, <1>1
      <4> HIDE DEF b
      <4> QED
        BY <4>1, <1>1, LenProperties
    <3>2. f <= q + i
      BY <3>1, <1>2 DEF Ends
    <3> QED
      BY <3>2, <1>1, <1>5
  <2>3. i # m
    BY <2>1, <1>1, <1>13
  <2> DEFINE h == i - m
  <2>4. h \in 1..(k - m) /\ m + h = i
    BY <2>2, <2>3, <1>1
  <2> HIDE DEF h
  <2>5. h \in 1..Len(t) /\ t[h] = chunk[i]
    BY <2>4, <1>6
  <2> QED
    BY <2>1, <2>5, <1>6, EndedIs
<1> HIDE DEF t, chunk
<1>14. Wrong(more.out) = {} /\ \A n \in Ended(t) : Has(more.out, Message(n))
  <2>1. kind # "video" /\ Ended(t) \in SUBSET Nat
    BY <1>6, EndedIs
  <2> QED
    BY <2>1, <1>10, DeliversWhole
<1>15. /\ applied \in Seq(Seq(Cell)) /\ more.out \in Seq(Seq(Cell))
       /\ Pass(u) \in Seq(Seq(Cell)) /\ Pass(u) \o more.out \in Seq(Seq(Cell))
       /\ applied \o Pass(u) \in Seq(Seq(Cell))
       /\ applied' = applied \o (Pass(u) \o more.out)
       /\ applied' = (applied \o Pass(u)) \o more.out
  <2>1. /\ applied \in Seq(Seq(Cell)) /\ more.out \in Seq(Seq(Cell))
        /\ Pass(u) \in Seq(Seq(Cell))
    BY <1>2, <1>4, PassType DEF TypeOK, Results
  <2>2. applied' = applied \o (Pass(u) \o more.out)
    BY <1>3, <1>4 DEF Cut
  <2>3. /\ Pass(u) \o more.out \in Seq(Seq(Cell))
        /\ applied \o Pass(u) \in Seq(Seq(Cell))
    BY <2>1, ConcatProperties
  <2>4. applied \o (Pass(u) \o more.out) = (applied \o Pass(u)) \o more.out
    <3> DEFINE D == Seq(Cell)
               x == applied
               y == Pass(u)
               z == more.out
    <3>1. x \in Seq(D) /\ y \in Seq(D) /\ z \in Seq(D)
      BY <2>1
    <3> HIDE DEF D, x, y, z
    <3>2. (x \o y) \o z = x \o (y \o z)
      BY <3>1, ConcatAssociative
    <3> QED
      BY <3>2 DEF x, y, z
  <2> QED
    BY <2>1, <2>2, <2>3, <2>4
<1>16. Garbled' \subseteq Wrong(applied \o Pass(u))
  <2>1. Wrong((applied \o Pass(u)) \o more.out)
          \subseteq Wrong(applied \o Pass(u))
    BY <1>14, <1>15, WrongConcat
  <2>2. Garbled' = Wrong(applied')
    BY DEF Garbled, Wrong
  <2> QED
    BY <2>1, <2>2, <1>15
<1>17. Wrong(applied \o Pass(u)) \subseteq Garbled \cup {Len(applied) + 1}
  <2>1. CASE Pass(u) = <<>>
    <3>1. applied \o Pass(u) = applied
      BY <2>1, <1>15, ConcatEmptySeq
    <3> QED
      BY <3>1, Counted
  <2>2. CASE Pass(u) = <<u>>
    BY <2>2, <1>2, <1>15, WrongOne, Counted
  <2> QED
    BY <2>1, <2>2 DEF Pass
<1>18. ASSUME kind = "status" PROVE Wrong(applied \o Pass(u)) \subseteq Garbled
  <2>1. Wrong(Pass(u)) = {}
    <3>1. CASE Whole(u)
      <4>1. Pass(u) = <<u>> \/ Pass(u) = <<>>
        BY DEF Pass
      <4>2. ASSUME NEW i \in DOMAIN Pass(u) PROVE Pass(u)[i] = u
        BY <4>1
      <4> QED
        BY <3>1, <4>2 DEF Wrong
    <3>2. CASE ~Whole(u)
      <4>1. Pass(u) = <<>>
        BY <3>2, <1>18 DEF Pass, Accepts, ParsesJson
      <4>2. DOMAIN Pass(u) = {}
        BY <4>1
      <4> QED
        BY <4>2 DEF Wrong
    <3> QED
      BY <3>1, <3>2
  <2>2. Wrong(applied \o Pass(u)) \subseteq Wrong(applied)
    <3>1. \A x, y \in Seq(Seq(Cell)) :
            Wrong(y) = {} => Wrong(x \o y) \subseteq Wrong(x)
      BY WrongConcat
    <3> QED
      BY <2>1, <3>1, <1>15, Zenon
  <2> QED
    BY <2>2, Counted
<1>19. Lost' \subseteq Lost \cup {pipe[m][1]}
  <2> DEFINE out == Pass(u) \o more.out
  <2>1. \A n \in Ended(chunk) : n \in {pipe[m][1]} \/ Has(out, Message(n))
    BY <1>13, <1>14, <1>15, HasConcat
  <2>2. out \in Seq(Seq(Cell)) /\ applied' = applied \o out
    BY <1>15
  <2> HIDE DEF out
  <2> QED
    BY <2>1, <2>2, LostByRead DEF chunk
<1> QED
  BY <1>12, <1>16, <1>17, <1>18, <1>19

(* Nothing is passed on as long as no line ends.                           *)
LEMMA LinesGoOn ==
  ASSUME TypeOK, TypeOK', Fresh, kind \in {"status", "touch"},
         NEW k \in 1..Len(pipe), Read(k),
         Ends(buffer \o SubSeq(pipe, 1, k)) = {}
  PROVE  Garbled' \subseteq Garbled /\ Lost' \subseteq Lost
<1> DEFINE chunk == SubSeq(pipe, 1, k)
           b == buffer \o chunk
<1>1. b \in Seq(Cell) /\ chunk \in Seq(Place) /\ buffer \in Seq(Place)
  BY Chunk, CellsPlaces, Places, ReadSight
<1>2. PICK r \in Parse(chunk) : applied' = applied \o r.out
  BY DEF Read, Throws
<1>3. r = Cut(<<>>, b)
  <2>1. r = LineReader[b]
    BY <1>2 DEF Parse, Lines
  <2>2. LineReader[b] = LineStep(LineReader, b)
    BY <1>1, LineEquation
  <2> QED
    BY <2>1, <2>2 DEF LineStep
<1>4. applied \in Seq(Seq(Cell)) /\ <<>> \in Seq(Seq(Cell))
  BY EmptySeq DEF TypeOK
<1>5. applied' = applied \o <<>>
  BY <1>2, <1>3 DEF Cut
<1>6. applied' = applied
  BY <1>4, <1>5, ConcatEmptySeq
<1>7. Garbled' = Garbled
  BY <1>6 DEF Garbled
<1>8. Ended(chunk) = {}
  <2>1. Ended(b) = {}
    BY DEF Ended
  <2> HIDE DEF chunk
  <2>2. Ended(b) = Ended(buffer) \cup Ended(chunk)
    BY <1>1, EndedConcat
  <2> QED
    BY <2>1, <2>2
<1>9. Lost' \subseteq Lost \cup {}
  BY <1>4, <1>5, <1>8, LostByRead
<1> QED
  BY <1>7, <1>9

(* How a set is counted against the connections lost, and the debt: it may *)
(* grow by one thing when the debt is paid.                                *)
Pays(S, d, t, T, e, u) ==
    \/ T \subseteq S /\ ((u = t /\ e <= d) \/ u = t + 1)
    \/ (\E x : T \subseteq S \cup {x}) /\ u = t /\ d = 1 /\ e = 0

(* Then no more is counted than connections were lost.                     *)
LEMMA Tally ==
  ASSUME NEW S, IsFiniteSet(S), NEW T,
         NEW d \in {0, 1}, NEW e \in {0, 1}, NEW t \in Nat, NEW u \in Nat,
         Cardinality(S) + d <= t, Pays(S, d, t, T, e, u)
  PROVE  Cardinality(T) + e <= u
<1>1. CASE T \subseteq S /\ ((u = t /\ e <= d) \/ u = t + 1)
  <2>1. /\ Cardinality(S) \in Nat /\ Cardinality(T) \in Nat
        /\ Cardinality(T) <= Cardinality(S)
    BY <1>1, NoMore
  <2> QED
    BY <2>1, <1>1
<1>2. ASSUME NEW x, T \subseteq S \cup {x}, u = t, d = 1, e = 0
      PROVE  Cardinality(T) + e <= u
  <2>1. /\ Cardinality(S) \in Nat /\ Cardinality(T) \in Nat
        /\ Cardinality(T) <= Cardinality(S) + 1
    BY <1>2, OneMore
  <2> QED
    BY <2>1, <1>2
<1> QED
  BY <1>1, <1>2 DEF Pays

(* What one step does to the lines that are counted.                       *)
LEMMA LinesPay ==
  ASSUME TypeOK, TypeOK', Fresh, kind \in {"status", "touch"},
         action = "number", [Next]_vars
  PROVE  /\ kind = "status" => Garbled' \subseteq Garbled
         /\ Pays(Garbled, Debt, torn, Garbled', Debt', torn')
         /\ Pays(Lost, Debt, torn, Lost', Debt', torn')
<1>1. Debt \in {0, 1} /\ (Clean(Sight) => Debt = 0)
  BY DebtIs
<1>2. Debt' \in {0, 1} /\ (Clean(Sight') => Debt' = 0)
      /\ (~Clean(Sight) => Debt = 1)
  BY DebtAfter
<1> DEFINE d == Debt
           e == Debt'
           G == Garbled'
           L == Lost'
<1>3. /\ d \in {0, 1} /\ e \in {0, 1}
      /\ Clean(Sight) => d = 0
      /\ Clean(Sight') => e = 0
      /\ ~Clean(Sight) => d = 1
  BY <1>1, <1>2
<1>4. SUFFICES /\ kind = "status" => G \subseteq Garbled
               /\ Pays(Garbled, d, torn, G, e, torn')
               /\ Pays(Lost, d, torn, L, e, torn')
  OBVIOUS
<1>5. CASE Write \/ Skip \/ Disconnect \/ Reconnect \/ UNCHANGED vars
  <2>1. /\ applied' = applied /\ got' = got
        /\ torn' = torn \/ (Disconnect /\ torn' = torn + 1)
    BY <1>5, Untouched
  <2>2. G = Garbled /\ L = Lost
    BY <2>1 DEF Garbled, Lost, Complete
  <2>3. torn' = torn /\ Clean(Sight) => Clean(Sight')
    BY <1>5, UntouchedClean
  <2> HIDE DEF d, e, G, L
  <2>4. torn' = torn => e <= d
    BY <2>3, <1>3
  <2> QED
    BY <2>1, <2>2, <2>4 DEF Pays
<1>6. ASSUME NEW k \in 1..Len(pipe), Read(k)
      PROVE  /\ kind = "status" => G \subseteq Garbled
             /\ Pays(Garbled, d, torn, G, e, torn')
             /\ Pays(Lost, d, torn, L, e, torn')
  <2>1. torn' = torn
    BY <1>6 DEF Read
  <2>2. CASE Clean(Sight)
    <3>1. Clean(Sight') /\ G \subseteq Garbled /\ L \subseteq Lost
      BY <1>6, <2>2, LinesInStep
    <3> HIDE DEF d, e, G, L
    <3>2. e <= d
      BY <3>1, <2>2, <1>3
    <3> QED
      BY <3>1, <3>2, <2>1 DEF Pays
  <2>3. CASE ~Clean(Sight) /\ Ends(buffer \o SubSeq(pipe, 1, k)) = {}
    <3>1. G \subseteq Garbled /\ L \subseteq Lost
      BY <1>6, <2>3, LinesGoOn
    <3> HIDE DEF d, e, G, L
    <3>2. e <= d
      BY <2>3, <1>3
    <3> QED
      BY <3>1, <3>2, <2>1 DEF Pays
  <2>4. CASE ~Clean(Sight) /\ Ends(buffer \o SubSeq(pipe, 1, k)) # {}
    <3>1. /\ Clean(Sight')
          /\ \E x : G \subseteq Garbled \cup {x}
          /\ kind = "status" => G \subseteq Garbled
          /\ \E n : L \subseteq Lost \cup {n}
      BY <1>6, <2>4, LinesBackInStep
    <3> HIDE DEF d, e, G, L
    <3>2. d = 1 /\ e = 0
      BY <3>1, <2>4, <1>3
    <3> QED
      BY <3>1, <3>2, <2>1 DEF Pays
  <2> QED
    BY <2>2, <2>3, <2>4
<1> HIDE DEF d, e, G, L
<1> QED
  BY <1>5, <1>6 DEF Next, Done

(* Each connection lost costs one line at most.                            *)
LEMMA LinesLostStep ==
  ASSUME TypeOK, TypeOK', Fresh, LinesLost, [Next]_vars
  PROVE  LinesLost'
<1>1. SUFFICES ASSUME kind' \in {"status", "touch"}, action' = "number"
               PROVE  /\ kind' = "status" => Garbled' = {}
                      /\ Cardinality(Garbled') + Debt' <= torn'
                      /\ Cardinality(Lost') + Debt' <= torn'
  BY DEF LinesLost
<1>2. kind' = kind /\ action' = action
  BY KindStays
<1>3. /\ kind = "status" => Garbled = {}
      /\ Cardinality(Garbled) + Debt <= torn
      /\ Cardinality(Lost) + Debt <= torn
  BY <1>1, <1>2 DEF LinesLost
<1>4. /\ kind = "status" => Garbled' \subseteq Garbled
      /\ Pays(Garbled, Debt, torn, Garbled', Debt', torn')
      /\ Pays(Lost, Debt, torn, Lost', Debt', torn')
  BY <1>1, <1>2, LinesPay
<1> DEFINE d == Debt
           e == Debt'
           u == torn'
           G == Garbled'
           L == Lost'
<1>5. /\ d \in {0, 1} /\ e \in {0, 1} /\ torn \in Nat /\ u \in Nat
      /\ IsFiniteSet(Garbled) /\ IsFiniteSet(Lost)
  <2>1. torn \in Nat /\ torn' \in Nat
    BY BoundAssumption DEF TypeOK, BoundAssumption
  <2> QED
    BY <2>1, DebtIs, DebtAfter, Counted
<1>6. /\ Cardinality(Garbled) + d <= torn /\ Cardinality(Lost) + d <= torn
      /\ Pays(Garbled, d, torn, G, e, u) /\ Pays(Lost, d, torn, L, e, u)
  BY <1>3, <1>4
<1>7. kind' = "status" => G = {}
  BY <1>2, <1>3, <1>4
<1> HIDE DEF d, e, u, G, L
<1>8. Cardinality(G) + e <= u /\ Cardinality(L) + e <= u
  BY <1>5, <1>6, Tally
<1> QED
  BY <1>7, <1>8 DEF d, e, u, G, L

-----------------------------------------------------------------------------
(* The invariant, and the properties it gives.                             *)

(* The invariant holds at the start.                                       *)
LEMMA InitHolds == Init => IInv
<1>1. SUFFICES ASSUME Init PROVE IInv
  OBVIOUS
<1>2. /\ pipe = <<>> /\ buffer = <<>> /\ applied = <<>> /\ got = <<>>
      /\ next = 1 /\ pos = 0 /\ torn = 0 /\ cuts = 0 /\ up = TRUE
      /\ Size \in Nat /\ Size >= 2
      /\ MaxMessages \in Nat /\ MaxCuts \in Nat /\ Capacity \in Nat
  BY <1>1, SizeAssumption, BoundAssumption
     DEF Init, SizeAssumption, BoundAssumption
<1>3. Ends(<<>>) = {} /\ Ended(<<>>) = {} /\ Arrived = {}
  BY <1>2 DEF Ends, Ended, Arrived
<1>4. TypeOK
  <2>1. /\ <<>> \in Seq(Cell) /\ <<>> \in Seq(Seq(Cell)) /\ Len(<<>>) = 0
    BY EmptySeq
  <2> QED
    BY <1>1, <1>2, <1>3, <2>1 DEF TypeOK, Init
<1>5. Sight = <<<<1, 1>>>> /\ Ahead = <<<<1, 1>>>>
  BY <1>2 DEF Sight, Ahead
<1>6. Clean(Sight) /\ Flow(Ahead)
  <2>1. Len(<<<<1, 1>>>>) = 1 /\ <<<<1, 1>>>>[1][2] = 1
    OBVIOUS
  <2> QED
    BY <2>1, <1>5 DEF Clean, Flow
<1>7. Fresh
  BY <1>3, <1>6 DEF Fresh
<1>8. InStep
  <2>1. <<>> = From(<<>>, Len(<<>>) - Len(<<>>) + 1) /\ Len(<<>>) = 0
    BY DEF From
  <2> QED
    BY <2>1, <1>2, <1>6 DEF InStep
<1>9. Delivers(applied, Arrived)
  BY <1>2, <1>3, DeliversNone
<1>10. Reassembled
  BY <1>8, <1>9 DEF InStep, Reassembled
<1>11. LinesLost
  <2>1. Garbled = {} /\ Lost = {} /\ Debt = 0
    <3>1. Garbled = {}
      BY <1>2 DEF Garbled
    <3>2. Lost = {}
      <4>1. 1 \in 1..Size /\ DOMAIN got = {}
        BY <1>2
      <4> QED
        BY <4>1 DEF Lost, Complete
    <3> QED
      BY <3>1, <3>2, <1>6 DEF Debt
  <2> QED
    BY <2>1, <1>2, FS_EmptySet DEF LinesLost
<1>12. AudioByChunk
  BY <1>2, <1>9 DEF AudioByChunk
<1> QED
  BY <1>4, <1>7, <1>8, <1>10, <1>11, <1>12 DEF IInv

(* IInv is an invariant.                                                   *)
THEOREM Invariance == Spec => []IInv
<1>1. Init => IInv
  BY InitHolds
<1>2. IInv /\ [Next]_vars => IInv'
  <2>1. SUFFICES ASSUME IInv, [Next]_vars PROVE IInv'
    OBVIOUS
  <2>2. /\ TypeOK /\ Fresh /\ InStep /\ Reassembled /\ LinesLost
        /\ AudioByChunk
    BY <2>1 DEF IInv
  <2>3. TypeOK'
    BY <2>1, <2>2, TypeStep
  <2>4. Fresh' /\ InStep' /\ LinesLost' /\ AudioByChunk'
    BY <2>1, <2>2, <2>3, FreshStep, InStepStep, LinesLostStep, AudioStep
  <2>5. Reassembled'
    BY <2>1, <2>2, <2>3, <2>4, ReassembledStep
  <2> QED
    BY <2>3, <2>4, <2>5 DEF IInv
<1> QED
  BY <1>1, <1>2, PTL DEF Spec

(* Every variable has its type, and no complete line is held back.         *)
THEOREM TypeCorrect == Spec => []TypeOK
<1>1. IInv => TypeOK
  BY DEF IInv
<1> QED
  BY <1>1, Invariance, PTL

(* However they are cut into chunks, frames and lines are passed on whole, *)
(* once and in order, while no connection is lost in the middle of one.    *)
THEOREM Reassembles == Spec => []Reassembled
<1>1. IInv => Reassembled
  BY DEF IInv
<1> QED
  BY <1>1, Invariance, PTL

(* A connection lost in the middle of a line costs or garbles one line at  *)
(* most.                                                                   *)
THEOREM Resyncs == Spec => []Resynchronises
<1>1. IInv => Resynchronises
  <2>1. SUFFICES ASSUME TypeOK, LinesLost PROVE Resynchronises
    BY DEF IInv
  <2>2. SUFFICES ASSUME kind \in {"status", "touch"}, action = "number"
                 PROVE  /\ Cardinality(Garbled)
                             <= (IF kind = "status" THEN 0 ELSE torn)
                        /\ Cardinality(Lost) <= torn
    BY DEF Resynchronises
  <2>3. /\ kind = "status" => Garbled = {}
        /\ Cardinality(Garbled) + Debt <= torn
        /\ Cardinality(Lost) + Debt <= torn
    BY <2>1, <2>2 DEF LinesLost
  <2>4. Cardinality(Garbled) \in Nat /\ Cardinality(Lost) \in Nat
    BY <2>1, Counted, FS_CardinalityType
  <2>5. Debt \in {0, 1} /\ torn \in Nat
    BY <2>1, DebtIs DEF TypeOK
  <2>6. Cardinality({}) = 0
    BY FS_EmptySet
  <2> QED
    BY <2>3, <2>4, <2>5, <2>6
<1> QED
  BY <1>1, Invariance, PTL

(* Of audio, what looks like a packet is a whole one, and chunks that are  *)
(* packets are all passed on.                                              *)
THEOREM AudioRight == Spec => []AudioByChunk
<1>1. IInv => AudioByChunk
  BY DEF IInv
<1> QED
  BY <1>1, Invariance, PTL
=============================================================================
