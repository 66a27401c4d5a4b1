------------------------------ MODULE Counting ------------------------------
(***************************************************************************)
(* How many elements of a sequence are in a set, and how the sequence      *)
(* operations that queues are built from change that number.               *)
(***************************************************************************)
EXTENDS Integers, Sequences, FiniteSetTheorems, TLAPS

Places(s, H) == {i \in DOMAIN s : s[i] \in H}
Count(s, H) == Cardinality(Places(s, H))
Bit(b) == IF b THEN 1 ELSE 0

(* The places are finite, and their number is a natural number.            *)
LEMMA CountType ==
  ASSUME NEW T, NEW s \in Seq(T), NEW H
  PROVE  IsFiniteSet(Places(s, H)) /\ Count(s, H) \in Nat
<1>1. IsFiniteSet(1..Len(s))
  BY FS_Interval
<1>2. Places(s, H) \in SUBSET (1..Len(s))
  BY DEF Places
<1> QED
  BY <1>1, <1>2, FS_Subset, FS_CardinalityType DEF Count

(* The empty sequence has none.                                            *)
LEMMA CountEmpty ==
  ASSUME NEW H
  PROVE  Count(<<>>, H) = 0
<1>1. Places(<<>>, H) = {}
  BY DEF Places
<1> QED
  BY <1>1, FS_EmptySet DEF Count

(* There are none when no element is in the set, and the other way round.  *)
LEMMA CountZero ==
  ASSUME NEW T, NEW s \in Seq(T), NEW H
  PROVE  Count(s, H) = 0 <=> \A i \in DOMAIN s : s[i] \notin H
<1>1. Count(s, H) = 0 <=> Places(s, H) = {}
  BY CountType, FS_EmptySet DEF Count
<1> QED
  BY <1>1 DEF Places

(* Two elements at different places make two.                              *)
LEMMA CountOne ==
  ASSUME NEW T, NEW s \in Seq(T), NEW H, Count(s, H) <= 1,
         NEW i \in DOMAIN s, NEW j \in DOMAIN s, s[i] \in H, s[j] \in H
  PROVE  i = j
<1>1. IsFiniteSet(Places(s, H)) /\ Count(s, H) \in Nat
  BY CountType
<1>2. i \in Places(s, H) /\ j \in Places(s, H)
  BY DEF Places
<1>3. Cardinality(Places(s, H)) # 0
  BY <1>1, <1>2, FS_EmptySet
<1>4. Cardinality(Places(s, H)) = 1
  BY <1>1, <1>3 DEF Count
<1>5. PICK x : Places(s, H) = {x}
  BY <1>1, <1>4, FS_Singleton
<1> QED
  BY <1>2, <1>5

(* An element is added at the end.                                         *)
LEMMA CountAppend ==
  ASSUME NEW T, NEW s \in Seq(T), NEW e \in T, NEW H
  PROVE  Count(Append(s, e), H) = Count(s, H) + Bit(e \in H)
<1>1. IsFiniteSet(Places(s, H)) /\ Count(s, H) \in Nat
  BY CountType
<1> DEFINE n == Len(s) + 1
<1>2. n \in Nat /\ DOMAIN s = 1..Len(s) /\ DOMAIN Append(s, e) = 1..n
      /\ Append(s, e)[n] = e
      /\ \A i \in 1..Len(s) : Append(s, e)[i] = s[i]
  OBVIOUS
<1>3. n \notin Places(s, H)
  BY <1>2 DEF Places
<1>4. CASE e \in H
  <2>1. Places(Append(s, e), H) = Places(s, H) \cup {n}
    BY <1>2, <1>4 DEF Places
  <2>2. Cardinality(Places(s, H) \cup {n}) = Cardinality(Places(s, H)) + 1
    BY <1>1, <1>3, FS_AddElement
  <2> QED
    BY <1>4, <2>1, <2>2 DEF Count, Bit
<1>5. CASE e \notin H
  <2>1. Places(Append(s, e), H) = Places(s, H)
    BY <1>2, <1>5 DEF Places
  <2> QED
    BY <1>1, <1>5, <2>1 DEF Count, Bit
<1> QED
  BY <1>4, <1>5

(* The first element is taken.                                             *)
LEMMA CountTail ==
  ASSUME NEW T, NEW s \in Seq(T), s # <<>>, NEW H
  PROVE  Count(s, H) = Count(Tail(s), H) + Bit(Head(s) \in H)
<1> DEFINE rest == Places(Tail(s), H)
           later == {i \in Places(s, H) : i # 1}
           f == [i \in rest |-> i + 1]
<1>1. /\ DOMAIN s = 1..Len(s) /\ Len(s) \in Nat /\ Len(s) >= 1
      /\ Head(s) = s[1] /\ Tail(s) \in Seq(T)
      /\ DOMAIN Tail(s) = 1..(Len(s) - 1)
      /\ \A i \in 1..(Len(s) - 1) : Tail(s)[i] = s[i + 1]
  OBVIOUS
<1>2. f \in Bijection(rest, later)
  <2>1. \A i \in rest : i \in Int /\ i + 1 \in later
    BY <1>1 DEF Places
  <2>2. \A j \in later : j \in Int /\ j - 1 \in rest
    BY <1>1 DEF Places
  <2>3. f \in [rest -> later]
    BY <2>1
  <2>4. \A i, j \in rest : f[i] = f[j] => i = j
    BY <2>1
  <2>5. \A j \in later : \E i \in rest : f[i] = j
    BY <2>1, <2>2
  <2> QED
    BY <2>3, <2>4, <2>5
       DEF Bijection, Injection, Surjection, IsInjective
<1>3. IsFiniteSet(rest) /\ Cardinality(rest) \in Nat
  BY <1>1, CountType DEF Count
<1>4. Cardinality(later) = Cardinality(rest) /\ IsFiniteSet(later)
  BY <1>2, <1>3, FS_Bijection DEF ExistsBijection
<1>5. CASE Head(s) \in H
  <2>0. Count(s, H) = Cardinality(Places(s, H))
        /\ Count(Tail(s), H) = Cardinality(rest)
    BY DEF Count
  <2>1. Places(s, H) = later \cup {1} /\ 1 \notin later
    BY <1>1, <1>5 DEF Places
  <2>2. Cardinality(Places(s, H)) = Cardinality(later) + 1
    BY <1>4, <2>1, FS_AddElement
  <2> HIDE DEF rest, later
  <2> QED
    BY <1>3, <1>4, <1>5, <2>0, <2>2 DEF Bit
<1>6. CASE Head(s) \notin H
  <2>0. Count(s, H) = Cardinality(Places(s, H))
        /\ Count(Tail(s), H) = Cardinality(rest)
    BY DEF Count
  <2>1. Places(s, H) = later
    BY <1>1, <1>6 DEF Places
  <2> HIDE DEF rest, later
  <2> QED
    BY <1>3, <1>4, <1>6, <2>0, <2>1 DEF Bit
<1> QED
  BY <1>5, <1>6

(* Disjoint sets are counted apart.                                        *)
LEMMA CountUnion ==
  ASSUME NEW T, NEW s \in Seq(T), NEW H, NEW K, H \cap K = {}
  PROVE  Count(s, H \cup K) = Count(s, H) + Count(s, K)
<1>1. /\ IsFiniteSet(Places(s, H)) /\ Count(s, H) \in Nat
      /\ IsFiniteSet(Places(s, K)) /\ Count(s, K) \in Nat
  BY CountType
<1>2. Places(s, H \cup K) = Places(s, H) \cup Places(s, K)
  BY DEF Places
<1>3. Places(s, H) \cap Places(s, K) = {}
  BY DEF Places
<1>4. Cardinality(Places(s, H) \cap Places(s, K)) = 0
  BY <1>3, FS_EmptySet
<1>5. Cardinality(Places(s, H) \cup Places(s, K))
        = Cardinality(Places(s, H)) + Cardinality(Places(s, K)) - 0
  BY <1>1, <1>4, FS_Union
<1>6. /\ Count(s, H \cup K) = Cardinality(Places(s, H) \cup Places(s, K))
      /\ Count(s, H) = Cardinality(Places(s, H))
      /\ Count(s, K) = Cardinality(Places(s, K))
  BY <1>2 DEF Count
<1> QED
  BY <1>1, <1>5, <1>6

(* A larger set has at least as many.                                      *)
LEMMA CountMonotonic ==
  ASSUME NEW T, NEW s \in Seq(T), NEW H, NEW K, H \subseteq K
  PROVE  Count(s, H) <= Count(s, K)
<1>1. IsFiniteSet(Places(s, K))
  BY CountType
<1>2. Places(s, H) \in SUBSET Places(s, K)
  BY DEF Places
<1> QED
  BY <1>1, <1>2, FS_Subset DEF Count
=============================================================================
