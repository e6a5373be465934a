---------------------------- MODULE OrderProofs ----------------------------
(***************************************************************************)
(* What Order guarantees for any number of objects and groups, and keys of *)
(* any length: first of keys by themselves (Sorting), then of the rows of  *)
(* a list and of the drags that move them, and last of why a row vanishes: *)
(* what the list walks through, and the groups above a row, are least sets *)
(* that are closed, of which there is one.                                 *)
(***************************************************************************)
EXTENDS Order, SequenceTheorems, FiniteSetTheorems, WellFoundedInduction, TLAPS

-----------------------------------------------------------------------------
(* What the proofs below need of numbers and parts of finite sets. Induction is over a
   set of numbers, which a prover can be given, not over a predicate. *)

(* Numbers are well-founded: among some of them is a least. *)
LessThan == {pair \in Nat \X Nat : pair[1] < pair[2]}

LEMMA NatMin ==
    ASSUME NEW T \in SUBSET Nat, T # {}
    PROVE  \E n \in T : \A m \in T : n <= m
  <1>1. IsWellFoundedOn(LessThan, Nat)
    BY NatLessThanWellFounded, Zenon DEF OpToRel, LessThan
  <1>2. PICK n \in T : \A m \in T : <<m, n>> \notin LessThan
    BY <1>1, WFMin
  <1>3. \A m \in T : ~(m < n)
    BY <1>2 DEF LessThan
  <1> QED
    BY <1>3

(* What holds of zero and goes on from each number to the next holds of all. *)
LEMMA NatUp ==
    ASSUME NEW T \in SUBSET Nat, 0 \in T, \A n \in T : n + 1 \in T
    PROVE  T = Nat
  <1> SUFFICES ASSUME Nat \ T # {} PROVE FALSE
    OBVIOUS
  <1>1. PICK n \in Nat \ T : \A m \in Nat \ T : n <= m
    <2>1. Nat \ T \in SUBSET Nat
      OBVIOUS
    <2> QED
      BY <2>1, NatMin
  <1>2. n # 0 /\ n - 1 \in Nat
    BY <1>1
  <1>3. n - 1 \in T
    BY <1>1, <1>2
  <1>4. (n - 1) + 1 \in T
    BY <1>3
  <1> QED
    BY <1>1, <1>4

(* Fewer elements. *)
LEMMA PartIsSmaller ==
    ASSUME NEW S, IsFiniteSet(S), NEW T \in SUBSET S, T # S
    PROVE  /\ IsFiniteSet(T) /\ Cardinality(T) \in Nat /\ Cardinality(S) \in Nat
           /\ Cardinality(T) < Cardinality(S)
  <1>1. IsFiniteSet(T) /\ Cardinality(T) <= Cardinality(S) /\ Cardinality(S) # Cardinality(T)
    BY FS_Subset
  <1>2. Cardinality(T) \in Nat /\ Cardinality(S) \in Nat
    BY <1>1, FS_CardinalityType
  <1> QED
    BY <1>1, <1>2

-----------------------------------------------------------------------------
(* A key differs from another at a first byte, or ends before it. *)
LessAt(s, t, k) ==
    /\ k \in 1..Len(t)
    /\ k <= Len(s) + 1
    /\ \A j \in 1..k-1 : s[j] = t[j]
    /\ k <= Len(s) => s[k] < t[k]

LEMMA LessIsAt == \A s, t : Less(s, t) <=> \E k : LessAt(s, t, k)
  BY DEF Less, LessAt

LEMMA ByteOf ==
    ASSUME NEW s \in Sort, NEW j \in 1..Len(s)
    PROVE  s[j] \in Nat /\ s[j] <= MaxByte
  <1>1. s[j] \in Byte
    BY DEF Sort
  <1> QED
    BY <1>1, SortingAssumption DEF Byte

LEMMA LessIrreflexive ==
    ASSUME NEW s \in Sort
    PROVE  ~Less(s, s)
  <1> SUFFICES ASSUME NEW k, LessAt(s, s, k) PROVE FALSE
    BY LessIsAt
  <1>1. Len(s) \in Nat
    BY DEF Sort
  <1>2. k \in 1..Len(s)
    BY DEF LessAt
  <1>3. s[k] \in Nat
    BY <1>2, ByteOf
  <1> QED
    BY <1>1, <1>2, <1>3 DEF LessAt

LEMMA LessTransitive ==
    ASSUME NEW s \in Sort, NEW t \in Sort, NEW u \in Sort, Less(s, t), Less(t, u)
    PROVE  Less(s, u)
  <1>1. PICK k : LessAt(s, t, k)
    BY LessIsAt
  <1>2. PICK l : LessAt(t, u, l)
    BY LessIsAt
  <1>3. Len(s) \in Nat /\ Len(t) \in Nat /\ Len(u) \in Nat
    BY DEF Sort
  <1>4. k \in 1..Len(t) /\ l \in 1..Len(u) /\ k \in Nat /\ l \in Nat
    BY <1>1, <1>2, <1>3 DEF LessAt
  <1>5. CASE k <= l
    <2>1. k \in 1..Len(u) /\ k <= Len(s) + 1
      BY <1>1, <1>3, <1>4, <1>5 DEF LessAt
    <2>2. \A j \in 1..k-1 : s[j] = u[j]
      <3>1. \A j \in 1..k-1 : s[j] = t[j] /\ j \in 1..l-1
        BY <1>1, <1>4, <1>5 DEF LessAt
      <3> QED
        BY <3>1, <1>2 DEF LessAt
    <2>3. k <= Len(s) => s[k] < u[k]
      <3> SUFFICES ASSUME k <= Len(s) PROVE s[k] < u[k]
        OBVIOUS
      <3>1. s[k] < t[k]
        BY <1>1 DEF LessAt
      <3>2. s[k] \in Nat /\ t[k] \in Nat /\ u[k] \in Nat
        BY <1>3, <1>4, <2>1, ByteOf
      <3>3. k < l => t[k] = u[k]
        BY <1>2, <1>4 DEF LessAt
      <3>4. k = l => t[k] < u[k]
        BY <1>2, <1>4, <1>3 DEF LessAt
      <3> QED
        BY <3>1, <3>2, <3>3, <3>4, <1>4, <1>5
    <2> QED
      BY <2>1, <2>2, <2>3, LessIsAt DEF LessAt
  <1>6. CASE l < k
    <2>1. l <= Len(s) + 1
      BY <1>1, <1>3, <1>4, <1>6 DEF LessAt
    <2>2. \A j \in 1..l-1 : s[j] = u[j]
      <3>1. \A j \in 1..l-1 : t[j] = u[j] /\ j \in 1..k-1
        BY <1>2, <1>4, <1>6 DEF LessAt
      <3> QED
        BY <3>1, <1>1 DEF LessAt
    <2>3. s[l] = t[l] /\ l <= Len(t)
      BY <1>1, <1>3, <1>4, <1>6 DEF LessAt
    <2>4. t[l] < u[l]
      BY <1>2, <2>3 DEF LessAt
    <2> QED
      BY <1>4, <2>1, <2>2, <2>3, <2>4, LessIsAt DEF LessAt
  <1> QED
    BY <1>4, <1>5, <1>6

LEMMA LessTotal ==
    ASSUME NEW s \in Sort, NEW t \in Sort, s # t
    PROVE  Less(s, t) \/ Less(t, s)
  <1>1. Len(s) \in Nat /\ Len(t) \in Nat
    BY DEF Sort
  <1> DEFINE D == {j \in 1..Len(s) : j <= Len(t) /\ s[j] # t[j]}
  <1>2. CASE D = {}
    <2>1. \A j \in 1..Len(s) : j <= Len(t) => s[j] = t[j]
      BY <1>2
    <2>2. Len(s) # Len(t)
      <3> SUFFICES ASSUME Len(s) = Len(t) PROVE FALSE
        OBVIOUS
      <3>1. \A j \in 1..Len(s) : s[j] = t[j]
        BY <2>1, <1>1
      <3>2. s = t
        BY <3>1, SeqEqual DEF Sort
      <3> QED
        BY <3>2
    <2>3. CASE Len(s) < Len(t)
      <3>1. LessAt(s, t, Len(s) + 1)
        BY <1>1, <2>1, <2>3 DEF LessAt
      <3> QED
        BY <3>1, LessIsAt
    <2>4. CASE Len(t) < Len(s)
      <3>1. LessAt(t, s, Len(t) + 1)
        BY <1>1, <2>1, <2>4 DEF LessAt
      <3> QED
        BY <3>1, LessIsAt
    <2> QED
      BY <1>1, <2>2, <2>3, <2>4
  <1>3. CASE D # {}
    <2>1. PICK k \in D : \A j \in D : k <= j
      <3>1. D \in SUBSET Nat
        BY <1>1
      <3> HIDE DEF D
      <3> QED
        BY <1>3, <3>1, NatMin
    <2>2. k \in 1..Len(s) /\ k \in 1..Len(t) /\ s[k] # t[k]
      BY <1>1, <2>1
    <2>3. \A j \in 1..k-1 : s[j] = t[j]
      BY <1>1, <2>1, <2>2
    <2>4. s[k] \in Nat /\ t[k] \in Nat
      BY <2>2, ByteOf
    <2>5. CASE s[k] < t[k]
      <3>1. LessAt(s, t, k)
        BY <1>1, <2>2, <2>3, <2>5 DEF LessAt
      <3> QED
        BY <3>1, LessIsAt
    <2>6. CASE t[k] < s[k]
      <3>1. LessAt(t, s, k)
        BY <1>1, <2>2, <2>3, <2>6 DEF LessAt
      <3> QED
        BY <3>1, LessIsAt
    <2> QED
      BY <2>2, <2>4, <2>5, <2>6
  <1> QED
    BY <1>2, <1>3

-----------------------------------------------------------------------------
(* What is made of two keys is a key. *)
LEMMA HalfByte ==
    ASSUME NEW a \in Byte, NEW b \in Byte
    PROVE  (a + b) \div 2 \in Byte
  BY SortingAssumption DEF Byte

LEMMA EndsOfKeys ==
    ASSUME NEW s \in Sort, NEW i \in Nat \ {0}
    PROVE  Low(s, i) \in Byte /\ High(s, i) \in Byte
  <1>1. Len(s) \in Nat /\ (i <= Len(s) => s[i] \in Byte)
    BY DEF Sort
  <1> QED
    BY <1>1, SortingAssumption DEF Low, High, Byte

(* The first gap, when there is one. *)
LEMMA FirstGap ==
    ASSUME NEW len \in Nat, NEW lo, NEW hi, Gaps(len, lo, hi) # {}
    PROVE  LET i == CHOOSE i \in Gaps(len, lo, hi) : \A j \in Gaps(len, lo, hi) : i <= j
           IN  i \in 1..len /\ Low(lo, i) + 1 < High(hi, i)
  <1>1. Gaps(len, lo, hi) \in SUBSET Nat
    BY DEF Gaps
  <1>2. \E i \in Gaps(len, lo, hi) : \A j \in Gaps(len, lo, hi) : i <= j
    BY <1>1, NatMin
  <1> DEFINE i == CHOOSE i \in Gaps(len, lo, hi) : \A j \in Gaps(len, lo, hi) : i <= j
  <1>3. i \in Gaps(len, lo, hi)
    BY <1>2
  <1> HIDE DEF i
  <1>4. i \in 1..len /\ Low(lo, i) + 1 < High(hi, i)
    BY <1>3 DEF Gaps
  <1> QED
    BY <1>4 DEF i

LEMMA MiddleType ==
    ASSUME NEW len \in Nat, NEW lo \in Sort, NEW hi \in Sort
    PROVE  Middle(len, lo, hi) \in Sort
  <1>1. CASE Gaps(len, lo, hi) = {}
    <2>1. MaxByte \div 2 \in Byte
      BY SortingAssumption DEF Byte
    <2> QED
      BY <1>1, <2>1 DEF Middle, Sort
  <1>2. CASE Gaps(len, lo, hi) # {}
    <2> DEFINE i == CHOOSE i \in Gaps(len, lo, hi) : \A j \in Gaps(len, lo, hi) : i <= j
               size == IF i < Len(lo) THEN Len(lo) ELSE i
    <2>1. Middle(len, lo, hi) = [j \in 1..size |->
              IF j = i THEN (Low(lo, i) + High(hi, i)) \div 2 ELSE Around(lo, i, j)]
      BY <1>2 DEF Middle
    <2>2. i \in 1..len
      BY <1>2, FirstGap
    <2> HIDE DEF i
    <2>3. i \in Nat \ {0} /\ Len(lo) \in Nat /\ size \in Nat
      BY <2>2 DEF Sort
    <2>4. (Low(lo, i) + High(hi, i)) \div 2 \in Byte
      BY <2>3, EndsOfKeys, HalfByte
    <2>5. ASSUME NEW j \in 1..size, j # i
          PROVE  Around(lo, i, j) \in Byte
      <3>1. i <= Len(lo) + 1 => j \in 1..Len(lo)
        BY <2>3, <2>5
      <3>2. i <= Len(lo) + 1 => lo[j] \in Byte
        BY <3>1 DEF Sort
      <3> QED
        BY <3>2, SortingAssumption DEF Around, Byte
    <2> QED
      BY <2>1, <2>3, <2>4, <2>5 DEF Sort
  <1> QED
    BY <1>1, <1>2

LEMMA KeysType ==
    ASSUME NEW s \in Sort, NEW t \in Sort
    PROVE  Midpoint(s, t) \in Sort /\ Before(s) \in Sort /\ After(s) \in Sort
  <1>1. Len(s) \in Nat /\ Len(t) \in Nat /\ <<>> \in Sort
    BY DEF Sort
  <1>2. Longer(s, t) \in Nat
    BY <1>1 DEF Longer
  <1> QED
    BY <1>1, <1>2, MiddleType DEF Midpoint, Before, After

(* after() keeps its promise for keys of any length and bytes: what it gives comes after the
   key it is given, whether a byte is raised or one is added. *)
THEOREM AfterComesAfter == \A s \in Sort : Less(s, After(s))
  <1> SUFFICES ASSUME NEW s \in Sort PROVE Less(s, After(s))
    OBVIOUS
  <1> DEFINE len == Len(s)
  <1>1. len \in Nat
    BY DEF Sort
  <1>2. CASE Gaps(len, s, <<>>) = {}
    <2>1. After(s) = Append(s, MaxByte \div 2)
      BY <1>2 DEF After, Middle
    <2>2. Len(After(s)) = len + 1 /\ \A j \in 1..len : After(s)[j] = s[j]
      BY <2>1 DEF Sort
    <2>3. LessAt(s, After(s), len + 1)
      BY <1>1, <2>2 DEF LessAt
    <2> QED
      BY <2>3, LessIsAt
  <1>3. CASE Gaps(len, s, <<>>) # {}
    <2> DEFINE i == CHOOSE i \in Gaps(len, s, <<>>) : \A j \in Gaps(len, s, <<>>) : i <= j
               size == IF i < Len(s) THEN Len(s) ELSE i
               half == (Low(s, i) + High(<<>>, i)) \div 2
    <2>1. After(s) = [j \in 1..size |-> IF j = i THEN half ELSE Around(s, i, j)]
      BY <1>3 DEF After, Middle
    <2>2. i \in 1..len /\ Low(s, i) + 1 < High(<<>>, i)
      BY <1>1, <1>3, FirstGap
    <2> HIDE DEF i
    <2>3. size = len /\ i \in Nat /\ i <= len
      BY <1>1, <2>2
    <2>4. s[i] \in Nat /\ s[i] <= MaxByte /\ Low(s, i) = s[i] /\ High(<<>>, i) = MaxByte
      BY <1>1, <2>2, ByteOf DEF Low, High
    <2>5. s[i] < half
      BY <2>2, <2>4, SortingAssumption
    <2> HIDE DEF half
    <2>6. Len(After(s)) = len /\ After(s)[i] = half
      BY <1>1, <2>1, <2>2, <2>3
    <2>7. \A j \in 1..i-1 : After(s)[j] = s[j]
      BY <1>1, <2>1, <2>3 DEF Around
    <2>8. LessAt(s, After(s), i)
      BY <1>1, <2>2, <2>3, <2>5, <2>6, <2>7 DEF LessAt
    <2> QED
      BY <2>8, LessIsAt
  <1> QED
    BY <1>2, <1>3

(* What is made of two keys: the lower with a byte more, or a byte at the first gap. *)
LEMMA MiddleIs ==
    ASSUME NEW len \in Nat, NEW lo, NEW hi
    PROVE  \/ /\ Gaps(len, lo, hi) = {}
              /\ Middle(len, lo, hi) = Append(lo, MaxByte \div 2)
           \/ \E i \in Gaps(len, lo, hi) :
                /\ \A j \in Gaps(len, lo, hi) : i <= j
                /\ Middle(len, lo, hi) = [j \in 1..(IF i < Len(lo) THEN Len(lo) ELSE i) |->
                        IF j = i THEN (Low(lo, i) + High(hi, i)) \div 2 ELSE Around(lo, i, j)]
  <1>1. CASE Gaps(len, lo, hi) = {}
    BY <1>1 DEF Middle
  <1>2. CASE Gaps(len, lo, hi) # {}
    <2> DEFINE i == CHOOSE i \in Gaps(len, lo, hi) : \A j \in Gaps(len, lo, hi) : i <= j
    <2>1. Gaps(len, lo, hi) \in SUBSET Nat
      BY DEF Gaps
    <2>2. \E k \in Gaps(len, lo, hi) : \A j \in Gaps(len, lo, hi) : k <= j
      BY <1>2, <2>1, NatMin
    <2>3. i \in Gaps(len, lo, hi) /\ \A j \in Gaps(len, lo, hi) : i <= j
      BY <2>2
    <2>4. Middle(len, lo, hi) = [j \in 1..(IF i < Len(lo) THEN Len(lo) ELSE i) |->
                        IF j = i THEN (Low(lo, i) + High(hi, i)) \div 2 ELSE Around(lo, i, j)]
      BY <1>2 DEF Middle
    <2> HIDE DEF i
    <2> QED
      BY <2>3, <2>4
  <1> QED
    BY <1>1, <1>2

(* before() keeps its promise for every key that has a byte above 1: those that have none
   are the only ones above which a row is dropped wrongly. *)
THEOREM BeforeComesBefore == \A s \in Sort : (\E n \in 1..Len(s) : s[n] > 1) => Less(Before(s), s)
  <1> SUFFICES ASSUME NEW s \in Sort, NEW n \in 1..Len(s), s[n] > 1 PROVE Less(Before(s), s)
    OBVIOUS
  <1> DEFINE len == Len(s)
  <1>0. len \in Nat /\ Len(<<>>) = 0
    BY DEF Sort
  <1>1. \A j \in 1..len : Low(<<>>, j) = 0 /\ High(s, j) = s[j]
    BY <1>0 DEF Low, High
  <1>2. n \in Gaps(len, <<>>, s)
    BY <1>1 DEF Gaps
  <1>3. PICK i \in Gaps(len, <<>>, s) :
            Before(s) = [j \in 1..(IF i < Len(<<>>) THEN Len(<<>>) ELSE i) |->
                IF j = i THEN (Low(<<>>, i) + High(s, i)) \div 2 ELSE Around(<<>>, i, j)]
    BY <1>0, <1>2, MiddleIs DEF Before
  <1>4. i \in 1..len /\ 1 < s[i] /\ Low(<<>>, i) = 0 /\ High(s, i) = s[i]
    BY <1>1, <1>3 DEF Gaps
  <1> DEFINE mid == [j \in 1..i |-> IF j = i THEN s[i] \div 2 ELSE 0]
  <1>5. Before(s) = mid
    <2>1. \A j \in 1..i : j # i => Around(<<>>, i, j) = 0
      BY <1>0, <1>4 DEF Around
    <2>2. (Low(<<>>, i) + High(s, i)) \div 2 = s[i] \div 2
      <3>1. s[i] \in Nat
        BY <1>4, ByteOf
      <3> QED
        BY <1>4, <3>1
    <2>3. (IF i < Len(<<>>) THEN Len(<<>>) ELSE i) = i
      BY <1>0, <1>4
    <2> QED
      BY <1>3, <2>1, <2>2, <2>3
  <1> DEFINE K == {j \in 1..i : j = i \/ s[j] # 0}
  <1>6. PICK k \in K : \A j \in K : k <= j
    <2>1. K \in SUBSET Nat /\ i \in K
      BY <1>4
    <2> HIDE DEF K
    <2> QED
      BY <2>1, NatMin
  <1>7. k \in 1..i /\ k \in 1..len /\ \A j \in 1..k-1 : s[j] = 0 /\ j \in 1..i /\ j # i
    BY <1>0, <1>4, <1>6
  <1>8. mid[k] < s[k]
    <2>1. s[k] \in Nat /\ s[i] \in Nat
      BY <1>4, <1>7, ByteOf
    <2>2. CASE k = i
      BY <1>4, <1>7, <2>1, <2>2
    <2>3. CASE k # i
      BY <1>6, <1>7, <2>1, <2>3
    <2> QED
      BY <2>2, <2>3
  <1>9. \A j \in 1..k-1 : mid[j] = s[j]
    BY <1>7
  <1>10. Len(mid) = i
    BY <1>4
  <1> HIDE DEF mid
  <1>11. LessAt(mid, s, k)
    BY <1>0, <1>4, <1>7, <1>8, <1>9, <1>10 DEF LessAt
  <1> QED
    BY <1>5, <1>11, LessIsAt

(* midpoint() keeps its promise where the keys differ by a gap at the first byte in which they
   differ, or differ within the lower one that the upper exceeds by a byte at most. *)
THEOREM MidpointComesBetween ==
    \A s, t \in Sort : \A k :
        LessAt(s, t, k) /\ (Low(s, k) + 1 < t[k] \/ (k <= Len(s) /\ Len(t) <= Len(s) + 1)) =>
            /\ Less(s, Midpoint(s, t)) /\ Less(Midpoint(s, t), t)
            /\ Midpoint(t, s) = Midpoint(s, t)
  <1> SUFFICES ASSUME NEW s \in Sort, NEW t \in Sort, NEW k, LessAt(s, t, k),
                      Low(s, k) + 1 < t[k] \/ (k <= Len(s) /\ Len(t) <= Len(s) + 1)
               PROVE  /\ Less(s, Midpoint(s, t)) /\ Less(Midpoint(s, t), t)
                      /\ Midpoint(t, s) = Midpoint(s, t)
    OBVIOUS
  <1> DEFINE len == Longer(s, t)
             mid == Middle(len, s, t)
             half(i) == (Low(s, i) + High(t, i)) \div 2
  <1>0. Len(s) \in Nat /\ Len(t) \in Nat /\ len \in Nat /\ Len(s) <= len /\ Len(t) <= len
        /\ len \in {Len(s), Len(t)}
    BY DEF Sort, Longer
  <1>1. k \in 1..Len(t) /\ k \in 1..len /\ k \in Nat /\ k <= Len(s) + 1
    BY <1>0 DEF LessAt
  <1>2. s # t /\ Less(s, t) /\ ~Less(t, s)
    <2>1. Less(s, t)
      BY LessIsAt
    <2> QED
      BY <2>1, LessIrreflexive, LessTransitive
  <1>3. Midpoint(s, t) = mid /\ Midpoint(t, s) = mid
    <2>1. Longer(t, s) = len
      BY <1>0 DEF Longer
    <2> QED
      BY <1>2, <2>1 DEF Midpoint
  <1>4. \A j \in 1..len : Low(s, j) \in Nat /\ High(t, j) \in Nat
    BY EndsOfKeys, SortingAssumption DEF Byte
  (* Before k there is no gap. *)
  <1>5. \A j \in 1..k-1 : s[j] = t[j] /\ j \in 1..Len(s) /\ j \in 1..Len(t) /\ j \notin Gaps(len, s, t)
    <2> SUFFICES ASSUME NEW j \in 1..k-1
                 PROVE  s[j] = t[j] /\ j \in 1..Len(s) /\ j \in 1..Len(t) /\ j \notin Gaps(len, s, t)
      OBVIOUS
    <2>1. s[j] = t[j] /\ j \in 1..Len(s) /\ j \in 1..Len(t)
      BY <1>0, <1>1 DEF LessAt
    <2>2. s[j] \in Nat
      BY <2>1, ByteOf
    <2>3. Low(s, j) = s[j] /\ High(t, j) = s[j]
      BY <2>1 DEF Low, High
    <2>4. ~(Low(s, j) + 1 < High(t, j))
      BY <2>2, <2>3
    <2> QED
      BY <2>1, <2>4 DEF Gaps
  <1>6. t[k] \in Nat /\ High(t, k) = t[k] /\ (k <= Len(s) => s[k] \in Nat /\ Low(s, k) = s[k] /\ s[k] < t[k])
    BY <1>0, <1>1, ByteOf DEF Low, High, LessAt
  <1>7. CASE Gaps(len, s, t) = {}
    <2>1. mid = Append(s, MaxByte \div 2)
      BY <1>0, <1>7, MiddleIs
    <2>2. k <= Len(s)
      BY <1>1, <1>6, <1>7 DEF Gaps
    <2>3. Len(mid) = Len(s) + 1 /\ \A j \in 1..Len(s) : mid[j] = s[j]
      BY <2>1 DEF Sort
    <2> HIDE DEF mid
    <2>4. LessAt(s, mid, Len(s) + 1)
      BY <1>0, <2>3 DEF LessAt
    <2>5. LessAt(mid, t, k)
      BY <1>0, <1>1, <1>5, <1>6, <2>2, <2>3 DEF LessAt
    <2> QED
      BY <1>3, <2>4, <2>5, LessIsAt
  <1>8. CASE Gaps(len, s, t) # {}
    <2>1. PICK i \in Gaps(len, s, t) :
            /\ \A j \in Gaps(len, s, t) : i <= j
            /\ mid = [j \in 1..(IF i < Len(s) THEN Len(s) ELSE i) |->
                        IF j = i THEN half(i) ELSE Around(s, i, j)]
      BY <1>0, <1>8, MiddleIs
    <2>2. i \in 1..len /\ Low(s, i) + 1 < High(t, i) /\ k <= i
      <3>1. i \in 1..len /\ Low(s, i) + 1 < High(t, i)
        BY <2>1 DEF Gaps
      <3>2. ~(i < k)
        BY <1>1, <1>5, <2>1, <3>1
      <3> QED
        BY <1>0, <1>1, <3>1, <3>2
    <2>3. half(i) \in Nat /\ Low(s, i) < half(i) /\ half(i) < High(t, i)
      BY <1>4, <2>2
    <2>4. i <= Len(s) + 1
      <3>1. CASE Low(s, k) + 1 < t[k]
        <4>1. k \in Gaps(len, s, t)
          BY <1>1, <1>6, <3>1 DEF Gaps
        <4>2. i <= k
          BY <2>1, <4>1
        <4> QED
          BY <1>0, <1>1, <2>2, <4>2
      <3>2. CASE Len(t) <= Len(s) + 1
        BY <1>0, <2>2, <3>2
      <3> QED
        BY <3>1, <3>2
    <2> DEFINE size == IF i < Len(s) THEN Len(s) ELSE i
    <2>5. size \in Nat /\ i \in 1..size /\ i \in Nat
      BY <1>0, <2>2
    <2>6. Len(mid) = size /\ mid[i] = half(i) /\ \A j \in 1..size : j # i => mid[j] = s[j]
      <3>1. mid = [j \in 1..size |-> IF j = i THEN half(i) ELSE Around(s, i, j)]
        BY <2>1
      <3>2. \A j : Around(s, i, j) = s[j]
        BY <2>4 DEF Around
      <3> HIDE DEF mid, half, size
      <3> QED
        BY <2>5, <3>1, <3>2
    <2> HIDE DEF mid, half, size
    <2>7. \A j \in 1..i-1 : j \in 1..size /\ j # i /\ mid[j] = s[j]
      BY <2>5, <2>6
    <2>8. LessAt(s, mid, i)
      <3>1. i <= Len(s) => Low(s, i) = s[i]
        BY DEF Low
      <3> QED
        BY <2>3, <2>4, <2>5, <2>6, <2>7, <3>1 DEF LessAt
    <2>9. LessAt(mid, t, k)
      <3>1. \A j \in 1..k-1 : mid[j] = t[j]
        BY <1>1, <1>5, <2>2, <2>5, <2>7
      <3>2. CASE k = i
        BY <1>0, <1>1, <1>6, <2>3, <2>5, <2>6, <3>1, <3>2 DEF LessAt
      <3>3. CASE k # i
        <4>1. k <= Len(s) /\ k \in 1..i-1
          BY <1>0, <1>1, <2>2, <2>4, <2>5, <3>3
        <4>2. mid[k] = s[k] /\ k <= Len(mid) + 1
          BY <1>0, <1>1, <2>2, <2>5, <2>6, <2>7, <4>1
        <4> QED
          BY <1>1, <1>6, <3>1, <4>1, <4>2 DEF LessAt
      <3> QED
        BY <3>2, <3>3
    <2> QED
      BY <1>3, <2>8, <2>9, LessIsAt DEF mid
  <1> QED
    BY <1>7, <1>8

-----------------------------------------------------------------------------
(* Rows are in a strict order, in which finitely many have a first and a last. *)
RowSet == Sort \X ObjectId

LEMMA IdsAreNumbers == ObjectId \subseteq Nat \ {Zero} /\ None \notin ObjectId
  BY OrderAssumption

LEMMA AboveIrreflexive ==
    ASSUME NEW r \in RowSet
    PROVE  ~Above(r, r)
  <1>1. r[1] \in Sort /\ r[2] \in Nat
    BY IdsAreNumbers DEF RowSet
  <1>2. ~Less(r[1], r[1]) /\ ~(r[2] < r[2])
    BY <1>1, LessIrreflexive
  <1> QED
    BY <1>2 DEF Above

LEMMA AboveTransitive ==
    ASSUME NEW p \in RowSet, NEW q \in RowSet, NEW r \in RowSet, Above(p, q), Above(q, r)
    PROVE  Above(p, r)
  <1>1. p[1] \in Sort /\ q[1] \in Sort /\ r[1] \in Sort
        /\ p[2] \in Nat /\ q[2] \in Nat /\ r[2] \in Nat
    BY IdsAreNumbers DEF RowSet
  <1>2. CASE Less(p[1], q[1]) /\ Less(q[1], r[1])
    BY <1>1, <1>2, LessTransitive DEF Above
  <1>3. CASE ~(Less(p[1], q[1]) /\ Less(q[1], r[1]))
    BY <1>1, <1>3 DEF Above
  <1> QED
    BY <1>2, <1>3

LEMMA AboveTotal ==
    ASSUME NEW p \in RowSet, NEW q \in RowSet, p # q
    PROVE  Above(p, q) \/ Above(q, p)
  <1>0. p = <<p[1], p[2]>> /\ q = <<q[1], q[2]>>
    BY DEF RowSet
  <1>1. p[1] \in Sort /\ q[1] \in Sort /\ p[2] \in Nat /\ q[2] \in Nat
    BY IdsAreNumbers DEF RowSet
  <1>2. CASE p[1] # q[1]
    BY <1>1, <1>2, LessTotal DEF Above
  <1>3. CASE p[1] = q[1]
    <2>1. p[2] # q[2]
      BY <1>0, <1>3
    <2> QED
      BY <1>1, <1>3, <2>1 DEF Above
  <1> QED
    BY <1>2, <1>3

LEMMA LastRow ==
    ASSUME NEW T \in SUBSET RowSet, IsFiniteSet(T), T # {}
    PROVE  \E q \in T : \A p \in T \ {q} : Above(p, q)
  <1> DEFINE after(q) == {p \in T : Above(q, p)}
             counts == {Cardinality(after(q)) : q \in T}
  <1>1. ASSUME NEW q \in T
        PROVE  IsFiniteSet(after(q)) /\ Cardinality(after(q)) \in Nat
    BY FS_Subset, FS_CardinalityType
  <1>2. PICK n \in counts : \A m \in counts : n <= m
    <2>1. counts \in SUBSET Nat /\ counts # {}
      BY <1>1
    <2> HIDE DEF counts
    <2> QED
      BY <2>1, NatMin
  <1>3. PICK q \in T : n = Cardinality(after(q))
    BY <1>2
  <1>4. after(q) = {}
    <2> SUFFICES ASSUME NEW p \in after(q) PROVE FALSE
      OBVIOUS
    <2>1. p \in T /\ Above(q, p)
      OBVIOUS
    <2>2. \A r \in after(p) : r \in after(q)
      BY <2>1, AboveTransitive
    <2>3. p \notin after(p)
      BY <2>1, AboveIrreflexive
    <2>4. after(p) \subseteq after(q) /\ after(p) # after(q)
      BY <2>2, <2>3
    <2>5. IsFiniteSet(after(q))
      BY <1>1
    <2> HIDE DEF after
    <2>6. Cardinality(after(p)) < Cardinality(after(q))
      BY <2>4, <2>5, FS_Subset, FS_CardinalityType
    <2>7. Cardinality(after(p)) \in counts
      BY <2>1
    <2>8. Cardinality(after(p)) \in Nat /\ Cardinality(after(q)) \in Nat
      BY <1>1, <2>1
    <2> QED
      BY <1>2, <1>3, <2>6, <2>7, <2>8
  <1>5. \A p \in T \ {q} : Above(p, q)
    BY <1>4, AboveTotal
  <1> QED
    BY <1>5

-----------------------------------------------------------------------------
(* The rows of each group, as they come and go. *)
RowsIn(tree, g) == IF g \in DOMAIN tree THEN tree[g] ELSE {}

Kept(tree) == DOMAIN tree \subseteq Parent /\ \A g \in DOMAIN tree : tree[g] # {}

LEMMA PutRows ==
    ASSUME NEW tree, Kept(tree), NEW g \in Parent, NEW r
    PROVE  /\ Kept(Put(tree, g, r))
           /\ RowsIn(Put(tree, g, r), g) = RowsIn(tree, g) \cup {r}
           /\ \A h \in Parent \ {g} : RowsIn(Put(tree, g, r), h) = RowsIn(tree, h)
  BY DEF Kept, Put, RowsIn

LEMMA DropRows ==
    ASSUME NEW tree, Kept(tree), NEW g \in Parent, NEW r
    PROVE  /\ Kept(Drop(tree, g, r))
           /\ RowsIn(Drop(tree, g, r), g) = RowsIn(tree, g) \ {r}
           /\ \A h \in Parent \ {g} : RowsIn(Drop(tree, g, r), h) = RowsIn(tree, h)
  <1>1. CASE g \in DOMAIN tree /\ tree[g] = {r}
    BY <1>1 DEF Kept, Drop, RowsIn
  <1>2. CASE ~(g \in DOMAIN tree /\ tree[g] = {r})
    <2>1. Drop(tree, g, r) = [h \in DOMAIN tree |-> tree[h] \ (IF h = g THEN {r} ELSE {})]
      BY <1>2 DEF Drop
    <2>2. \A h \in DOMAIN tree : tree[h] \ (IF h = g THEN {r} ELSE {}) # {}
      BY <1>2 DEF Kept
    <2> QED
      BY <2>1, <2>2 DEF Kept, RowsIn
  <1> QED
    BY <1>1, <1>2

-----------------------------------------------------------------------------
(* The objects, where the index has them, its rows, and those that may be left over. *)
Places(objs, at, strays) ==
    /\ \A o \in ObjectId : objs[o] # None => at[o] = PlaceOf(objs[o])
    /\ \A o \in ObjectId \ strays : objs[o] = None => at[o] = None

AtPlace(at, tree, o) == <<at[o].sort, o>> \in RowsIn(tree, at[o].group)

Standing(objs, at, tree) == \A o \in ObjectId : objs[o] # None => AtPlace(at, tree, o)

RowFits(at, strays, g, r) == r[2] \in strays \/ at[r[2]] = [group |-> g, sort |-> r[1]]

NoOthers(at, tree, strays) ==
    \A g \in Parent : \A r \in RowsIn(tree, g) : r \in RowSet /\ RowFits(at, strays, g, r)

Sound(objs, at, tree, strays) ==
    /\ objs \in [ObjectId -> Object \cup {None}]
    /\ at \in [ObjectId -> Place \cup {None}]
    /\ strays \subseteq ObjectId
    /\ Kept(tree)
    /\ Places(objs, at, strays)
    /\ Standing(objs, at, tree)
    /\ NoOthers(at, tree, strays)

SoundNow == Sound(objects, noted, children, astray)

LEMMA PlacesOf ==
    ASSUME NEW ob \in Object
    PROVE  /\ PlaceOf(ob) \in Place /\ PlaceOf(ob) # None /\ ob # None
           /\ ob.group \in Parent /\ ob.sort \in Sort
           /\ PlaceOf(ob).group = ob.group /\ PlaceOf(ob).sort = ob.sort
           /\ PlaceOf(ob) = [group |-> ob.group, sort |-> ob.sort]
  BY NoneAssumption DEF PlaceOf, Place, Object

LEMMA PlacesAre ==
    /\ None \notin Place
    /\ \A p \in Place : p.group \in Parent /\ p.sort \in Sort /\ p = [group |-> p.group, sort |-> p.sort]
  BY NoneAssumption DEF Place

(* An object comes, or comes again. *)
LEMMA InsertSound ==
    ASSUME NEW objs, NEW at, NEW tree, NEW strays, Sound(objs, at, tree, strays),
           NEW o \in ObjectId, NEW ob \in Object
    PROVE  Sound([objs EXCEPT ![o] = ob], [at EXCEPT ![o] = PlaceOf(ob)],
                 Put(tree, ob.group, <<ob.sort, o>>),
                 IF at[o] \in {None, PlaceOf(ob)} THEN strays ELSE strays \cup {o})
  <1> DEFINE now == [objs EXCEPT ![o] = ob]
             then == [at EXCEPT ![o] = PlaceOf(ob)]
             put == Put(tree, ob.group, <<ob.sort, o>>)
             more == IF at[o] \in {None, PlaceOf(ob)} THEN strays ELSE strays \cup {o}
  <1>1. now \in [ObjectId -> Object \cup {None}] /\ then \in [ObjectId -> Place \cup {None}]
    BY PlacesOf DEF Sound
  <1>2. now[o] = ob /\ \A p \in ObjectId \ {o} : now[p] = objs[p]
    BY DEF Sound
  <1>3. then[o] = PlaceOf(ob) /\ \A p \in ObjectId \ {o} : then[p] = at[p]
    BY DEF Sound
  <1>4. more \subseteq ObjectId /\ strays \subseteq more
    BY DEF Sound
  <1>o. /\ ob # None /\ ob.group \in Parent /\ ob.sort \in Sort
        /\ PlaceOf(ob).group = ob.group /\ PlaceOf(ob).sort = ob.sort
        /\ PlaceOf(ob) = [group |-> ob.group, sort |-> ob.sort]
    BY PlacesOf
  <1>5. Kept(put)
    BY <1>o, PutRows DEF Sound
  <1>6. /\ RowsIn(put, ob.group) = RowsIn(tree, ob.group) \cup {<<ob.sort, o>>}
        /\ \A h \in Parent \ {ob.group} : RowsIn(put, h) = RowsIn(tree, h)
    BY <1>o, PutRows DEF Sound
  <1>m. o \in more \/ at[o] \in {None, PlaceOf(ob)}
    OBVIOUS
  <1> HIDE DEF now, then, put, more
  <1>7. Places(now, then, more)
    <2>1. \A p \in ObjectId : now[p] # None => then[p] = PlaceOf(now[p])
      BY <1>2, <1>3 DEF Sound, Places
    <2>2. \A p \in ObjectId \ more : now[p] = None => then[p] = None
      BY <1>2, <1>3, <1>4, <1>o DEF Sound, Places
    <2> QED
      BY <2>1, <2>2 DEF Places
  <1>8. Standing(now, then, put)
    <2> SUFFICES ASSUME NEW p \in ObjectId, now[p] # None PROVE AtPlace(then, put, p)
      BY DEF Standing
    <2>1. CASE p = o
      BY <1>3, <1>6, <1>o, <2>1 DEF AtPlace
    <2>2. CASE p # o
      <3>1. AtPlace(at, tree, p) /\ at[p].group \in Parent
        <4>1. objs[p] # None
          BY <1>2, <2>2
        <4>2. objs[p] \in Object /\ at[p] = PlaceOf(objs[p])
          BY <4>1 DEF Sound, Places
        <4> QED
          BY <4>1, <4>2, PlacesOf DEF Sound, Standing
      <3> QED
        BY <1>3, <1>6, <2>2, <3>1 DEF AtPlace
    <2> QED
      BY <2>1, <2>2
  <1>9. NoOthers(then, put, more)
    <2> SUFFICES ASSUME NEW g \in Parent, NEW r \in RowsIn(put, g)
                 PROVE  r \in RowSet /\ RowFits(then, more, g, r)
      BY DEF NoOthers
    <2>1. CASE r \in RowsIn(tree, g)
      <3>1. r \in RowSet /\ RowFits(at, strays, g, r)
        BY <2>1 DEF Sound, NoOthers
      <3>2. r[2] \in ObjectId
        BY <3>1 DEF RowSet
      <3>3. CASE r[2] # o
        BY <1>3, <1>4, <3>1, <3>2, <3>3 DEF RowFits
      <3>4. CASE r[2] = o
        <4>1. CASE o \in more
          BY <3>1, <3>4, <4>1 DEF RowFits
        <4>2. CASE o \notin more
          <5>1. at[o] = [group |-> g, sort |-> r[1]]
            BY <1>4, <3>1, <3>4, <4>2 DEF RowFits
          <5>2. [group |-> g, sort |-> r[1]] \in Place
            BY <3>1 DEF Place, RowSet
          <5>3. then[o] = [group |-> g, sort |-> r[1]]
            BY <1>3, <1>m, <4>2, <5>1, <5>2, PlacesAre
          <5> QED
            BY <3>1, <3>4, <5>3 DEF RowFits
        <4> QED
          BY <4>1, <4>2
      <3> QED
        BY <3>3, <3>4
    <2>2. CASE r \notin RowsIn(tree, g)
      <3>1. g = ob.group /\ r = <<ob.sort, o>>
        BY <1>6, <2>2
      <3>2. r \in RowSet
        BY <1>o, <3>1 DEF RowSet
      <3> QED
        BY <1>3, <1>o, <3>1, <3>2 DEF RowFits
    <2> QED
      BY <2>1, <2>2
  <1>10. Sound(now, then, put, more)
    BY <1>1, <1>4, <1>5, <1>7, <1>8, <1>9 DEF Sound
  <1> QED
    BY <1>10 DEF now, then, put, more

(* An object goes, with the row of where it was noted. *)
LEMMA RemoveSound ==
    ASSUME NEW objs, NEW at, NEW tree, NEW strays, Sound(objs, at, tree, strays),
           NEW o \in ObjectId
    PROVE  Sound([objs EXCEPT ![o] = None], [at EXCEPT ![o] = None],
                 IF at[o] = None THEN tree ELSE Drop(tree, at[o].group, <<at[o].sort, o>>), strays)
  <1> DEFINE now == [objs EXCEPT ![o] = None]
             then == [at EXCEPT ![o] = None]
             dropped == IF at[o] = None THEN tree ELSE Drop(tree, at[o].group, <<at[o].sort, o>>)
  <1>1. now \in [ObjectId -> Object \cup {None}] /\ then \in [ObjectId -> Place \cup {None}]
    BY DEF Sound
  <1>2. now[o] = None /\ \A p \in ObjectId \ {o} : now[p] = objs[p]
    BY DEF Sound
  <1>3. then[o] = None /\ \A p \in ObjectId \ {o} : then[p] = at[p]
    BY DEF Sound
  <1>4. at[o] # None => at[o].group \in Parent /\ at[o] = [group |-> at[o].group, sort |-> at[o].sort]
    BY PlacesAre DEF Sound
  <1>5. Kept(dropped)
    <2>1. CASE at[o] = None
      BY <2>1 DEF Sound
    <2>2. CASE at[o] # None
      BY <1>4, <2>2, DropRows DEF Sound
    <2> QED
      BY <2>1, <2>2
  <1>6. ASSUME NEW g \in Parent, NEW r
        PROVE  r \in RowsIn(dropped, g) <=>
                 r \in RowsIn(tree, g) /\ ~(at[o] # None /\ g = at[o].group /\ r = <<at[o].sort, o>>)
    <2>1. CASE at[o] = None
      BY <2>1
    <2>2. CASE at[o] # None
      <3>1. /\ RowsIn(dropped, at[o].group) = RowsIn(tree, at[o].group) \ {<<at[o].sort, o>>}
            /\ \A h \in Parent \ {at[o].group} : RowsIn(dropped, h) = RowsIn(tree, h)
        BY <1>4, <2>2, DropRows DEF Sound
      <3> HIDE DEF dropped
      <3> QED
        BY <2>2, <3>1
    <2> QED
      BY <2>1, <2>2
  <1> HIDE DEF now, then, dropped
  <1>7. Places(now, then, strays)
    BY <1>2, <1>3 DEF Sound, Places
  <1>8. Standing(now, then, dropped)
    <2> SUFFICES ASSUME NEW p \in ObjectId, now[p] # None PROVE AtPlace(then, dropped, p)
      BY DEF Standing
    <2>1. p # o /\ objs[p] # None
      BY <1>2
    <2>2. objs[p] \in Object /\ at[p] = PlaceOf(objs[p]) /\ AtPlace(at, tree, p)
      BY <2>1 DEF Sound, Places, Standing
    <2>3. at[p].group \in Parent
      BY <2>2, PlacesOf
    <2> QED
      BY <1>3, <1>6, <2>1, <2>2, <2>3 DEF AtPlace
  <1>9. NoOthers(then, dropped, strays)
    <2> SUFFICES ASSUME NEW g \in Parent, NEW r \in RowsIn(dropped, g)
                 PROVE  r \in RowSet /\ RowFits(then, strays, g, r)
      BY DEF NoOthers
    <2>1. r \in RowsIn(tree, g) /\ ~(at[o] # None /\ g = at[o].group /\ r = <<at[o].sort, o>>)
      BY <1>6
    <2>2. r \in RowSet /\ RowFits(at, strays, g, r)
      BY <2>1 DEF Sound, NoOthers
    <2>3. r[2] \in ObjectId /\ r = <<r[1], r[2]>> /\ r[1] \in Sort
      BY <2>2 DEF RowSet
    <2>4. CASE r[2] # o
      BY <1>3, <2>2, <2>3, <2>4 DEF RowFits
    <2>5. CASE r[2] = o /\ o \notin strays
      <3>1. at[o] = [group |-> g, sort |-> r[1]]
        BY <2>2, <2>5 DEF RowFits
      <3>2. [group |-> g, sort |-> r[1]] \in Place
        BY <2>3 DEF Place
      <3>3. at[o] # None /\ g = at[o].group /\ r = <<at[o].sort, o>>
        BY <2>3, <2>5, <3>1, <3>2, PlacesAre
      <3> QED
        BY <2>1, <3>3
    <2>6. CASE o \in strays
      BY <1>3, <2>2, <2>3, <2>6 DEF RowFits
    <2> QED
      BY <2>4, <2>5, <2>6
  <1>10. Sound(now, then, dropped, strays)
    BY <1>1, <1>5, <1>7, <1>8, <1>9 DEF Sound
  <1> QED
    BY <1>10 DEF now, then, dropped

(* An object moves: it goes from one place and comes to another. *)
LEMMA MoveSound ==
    ASSUME NEW objs, NEW at, NEW tree, NEW strays, Sound(objs, at, tree, strays),
           NEW o \in ObjectId, objs[o] # None, NEW ob \in Object
    PROVE  Sound([objs EXCEPT ![o] = ob], [at EXCEPT ![o] = PlaceOf(ob)],
                 IF at[o] = PlaceOf(ob) THEN tree ELSE Reorder(tree, o, at[o], PlaceOf(ob)), strays)
  <1>1. objs[o] \in Object /\ at[o] = PlaceOf(objs[o]) /\ AtPlace(at, tree, o)
    BY DEF Sound, Places, Standing
  <1>2. at[o] # None /\ at[o] \in Place
    BY <1>1, PlacesOf
  <1> DEFINE none == [objs EXCEPT ![o] = None]
             nowhere == [at EXCEPT ![o] = None]
             gone == Drop(tree, at[o].group, <<at[o].sort, o>>)
             now == [objs EXCEPT ![o] = ob]
             then == [at EXCEPT ![o] = PlaceOf(ob)]
             there == Put(gone, ob.group, <<ob.sort, o>>)
  <1>3. Sound(none, nowhere, gone, strays)
    <2>1. Sound(none, nowhere, IF at[o] = None THEN tree ELSE gone, strays)
      BY RemoveSound
    <2> HIDE DEF none, nowhere, gone
    <2> QED
      BY <1>2, <2>1
  <1>4. [none EXCEPT ![o] = ob] = now /\ [nowhere EXCEPT ![o] = PlaceOf(ob)] = then /\ nowhere[o] = None
    BY DEF Sound
  <1>5. Sound(now, then, there, strays)
    <2> HIDE DEF none, nowhere, gone, now, then
    <2>1. Sound([none EXCEPT ![o] = ob], [nowhere EXCEPT ![o] = PlaceOf(ob)], there,
                IF nowhere[o] \in {None, PlaceOf(ob)} THEN strays ELSE strays \cup {o})
      BY <1>3, InsertSound
    <2> HIDE DEF there
    <2> QED
      BY <1>4, <2>1
  <1>6. Stands(tree, o, at[o])
    BY <1>1 DEF AtPlace, RowsIn, Stands
  <1>7. CASE at[o] # PlaceOf(ob)
    <2>1. Reorder(tree, o, at[o], PlaceOf(ob)) = there
      BY <1>6, PlacesOf DEF Reorder
    <2> QED
      BY <1>5, <1>7, <2>1
  <1>8. CASE at[o] = PlaceOf(ob)
    <2>1. then = at
      BY <1>8 DEF Sound
    <2>2. now \in [ObjectId -> Object \cup {None}]
      BY DEF Sound
    <2>3. now[o] = ob /\ \A p \in ObjectId \ {o} : now[p] = objs[p]
      BY DEF Sound
    <2> HIDE DEF now, then
    <2>4. ob # None
      BY PlacesOf
    <2>5. Places(now, at, strays)
      BY <1>8, <2>3, <2>4 DEF Sound, Places
    <2>6. Standing(now, at, tree)
      BY <1>1, <2>3 DEF Sound, Standing
    <2>7. Sound(now, at, tree, strays)
      BY <2>2, <2>5, <2>6 DEF Sound
    <2>8. Sound(now, then, tree, strays)
      BY <2>1, <2>7
    <2> QED
      BY <1>8, <2>8 DEF now, then
  <1> QED
    BY <1>7, <1>8

-----------------------------------------------------------------------------
(* What holds in every state: that, the rest of the types, and that one drops into
   groups only. *)
Dragging ==
    /\ dragged \in ObjectId \cup {None}
    /\ dragOver \in Over \cup {None}
    /\ (dragged = None) = (dragOver = None)
    /\ dragOver # None /\ dragOver.drag = "into" => dragOver.target \in Parent

Others ==
    /\ modal \in Own \cup {None}
    /\ hung \in BOOLEAN
    /\ moves \in 0..MaxMoves

OInv == SoundNow /\ Dragging /\ Others

LEMMA ObjectsTyped ==
    ASSUME SoundNow, NEW o \in Live
    PROVE  /\ o \in ObjectId /\ objects[o] \in Object
           /\ SortOf(o) \in Sort /\ objects[o].group \in Parent
           /\ noted[o] = PlaceOf(objects[o]) /\ noted[o] # None
           /\ noted[o].group = objects[o].group
  <1>1. o \in ObjectId /\ objects[o] \in Object /\ noted[o] = PlaceOf(objects[o])
    BY DEF SoundNow, Sound, Places, Live
  <1> QED
    BY <1>1, PlacesOf DEF SortOf

LEMMA RowsTyped ==
    ASSUME SoundNow, NEW g
    PROVE  \A r \in Rows(g) : g \in Parent /\ r \in RowSet
  BY DEF SoundNow, Sound, Kept, NoOthers, Rows, RowsIn

LEMMA LiveIsFinite == IsFiniteSet(Live)
  BY OrderAssumption, FS_Subset DEF Live

LEMMA KeysAreFinite ==
    ASSUME NEW S \in SUBSET Live
    PROVE  IsFiniteSet({SortOf(p) : p \in S})
  <1> DEFINE f == [p \in S |-> SortOf(p)]
             K == {SortOf(p) : p \in S}
  <1>1. IsFiniteSet(S)
    BY LiveIsFinite, FS_Subset
  <1>2. f \in Surjection(S, K)
    BY DEF Surjection
  <1> QED
    BY <1>1, <1>2, FS_Surjection

LEMMA NewSortType ==
    ASSUME SoundNow, NEW d \in Over, d.target \in Live
    PROVE  NewSort(d) \in Sort
  <1>0. d.drag \in {"into", "above", "below"} /\ d.target \in ObjectId
    BY ObjectsTyped DEF Over
  <1>s. \A o \in Live : SortOf(o) \in Sort
    BY ObjectsTyped
  <1>1. CASE d.drag = "into"
    <2>1. FirstSort[d.target] \in Sort
      BY <1>0, OrderAssumption
    <2>2. LastOf(d.target) \in Live => After(SortOf(LastOf(d.target))) \in Sort
      BY <1>s, KeysType
    <2> QED
      BY <1>1, <2>1, <2>2 DEF NewSort
  <1>2. CASE d.drag = "above"
    <2>1. Before(SortOf(d.target)) \in Sort
      BY <1>s, KeysType
    <2>2. Prev(d.group, d.target) \in Live =>
            Midpoint(SortOf(Prev(d.group, d.target)), SortOf(d.target)) \in Sort
      BY <1>s, KeysType
    <2> QED
      BY <1>2, <2>1, <2>2 DEF NewSort
  <1>3. CASE d.drag = "below"
    <2>1. After(SortOf(d.target)) \in Sort
      BY <1>s, KeysType
    <2>2. Following(d.group, d.target) \in Live =>
            Midpoint(SortOf(d.target), SortOf(Following(d.group, d.target))) \in Sort
      BY <1>s, KeysType
    <2> QED
      BY <1>3, <2>1, <2>2 DEF NewSort
  <1> QED
    BY <1>0, <1>1, <1>2, <1>3

LEMMA CreateSortType ==
    ASSUME SoundNow, NEW o \in ObjectId
    PROVE  CreateSort(o) \in Sort
  <1> DEFINE own == {SortOf(p) : p \in Own \cap Live}
             s == CHOOSE s \in own : \A t \in own \ {s} : Less(t, s)
             T == {<<t, o>> : t \in own}
             f == [t \in own |-> <<t, o>>]
  <1>1. CASE o \in Foreign \/ own = {}
    BY <1>1, OrderAssumption DEF CreateSort
  <1>2. CASE ~(o \in Foreign \/ own = {})
    <2>1. own \in SUBSET Sort /\ own # {}
      BY <1>2, ObjectsTyped
    <2>2. IsFiniteSet(own)
      BY KeysAreFinite
    <2>3. CreateSort(o) = After(s)
      BY <1>2 DEF CreateSort
    <2> HIDE DEF own
    <2>4. f \in Surjection(own, T)
      BY DEF Surjection
    <2>5. IsFiniteSet(T)
      BY <2>2, <2>4, FS_Surjection
    <2>6. T \in SUBSET RowSet /\ T # {}
      <3>1. \A t \in own : t \in Sort
        BY <2>1
      <3>2. \A t \in own : <<t, o>> \in RowSet
        BY <3>1 DEF RowSet
      <3> QED
        BY <2>1, <3>2
    <2>7. PICK q \in T : \A p \in T \ {q} : Above(p, q)
      BY <2>5, <2>6, LastRow
    <2>8. q[1] \in own /\ q = <<q[1], o>>
      OBVIOUS
    <2>9. ASSUME NEW t \in own \ {q[1]}
          PROVE  Less(t, q[1])
      <3>1. Above(<<t, o>>, q)
        BY <2>7, <2>8
      <3>2. o \in Nat
        BY IdsAreNumbers
      <3> QED
        BY <2>8, <2>9, <3>1, <3>2 DEF Above
    <2>10. s \in own
      BY <2>8, <2>9
    <2> QED
      BY <2>1, <2>3, <2>10, KeysType
  <1> QED
    BY <1>1, <1>2

-----------------------------------------------------------------------------
LEMMA MoveCounts ==
    ASSUME Others, Move
    PROVE  moves' \in 0..MaxMoves
  <1>1. MaxMoves \in Nat /\ moves \in 0..MaxMoves /\ moves < MaxMoves /\ moves' = moves + 1
    BY OrderAssumption DEF Others, Move
  <1> QED
    BY <1>1

(* What a handler leaves alone when it changes the list. *)
LEMMA ListChanges ==
    ASSUME OInv, SoundNow', Move, Redraw, UNCHANGED <<dragged, dragOver>>, modal' \in {None, modal}
    PROVE  OInv'
  <1>1. hung' \in BOOLEAN
    BY DEF Redraw, Round
  <1>2. moves' \in 0..MaxMoves
    BY MoveCounts DEF OInv
  <1> QED
    BY <1>1, <1>2 DEF OInv, Dragging, Others

(* The first state. *)
LEMMA OInit == Init => OInv
  <1> SUFFICES ASSUME Init PROVE OInv
    OBVIOUS
  <1>1. SoundNow
    <2>1. \A o \in ObjectId : objects[o] = None /\ noted[o] = None
      BY DEF Init
    <2>2. \A g : RowsIn(children, g) = {}
      BY DEF Init, RowsIn
    <2>3. Kept(children)
      BY DEF Init, Kept
    <2>4. Places(objects, noted, astray) /\ Standing(objects, noted, children)
      BY <2>1 DEF Places, Standing
    <2>5. NoOthers(noted, children, astray)
      BY <2>2 DEF NoOthers
    <2> QED
      BY <2>3, <2>4, <2>5 DEF Init, SoundNow, Sound
  <1>2. 0 \in 0..MaxMoves
    BY OrderAssumption
  <1> QED
    BY <1>1, <1>2 DEF Init, OInv, Dragging, Others

(* The steps that move no object. *)
LEMMA DragTyped ==
    ASSUME NEW how \in {"into", "above", "below"}, NEW g \in Parent, NEW t \in ObjectId \cup {Zero}
    PROVE  /\ Drag(how, g, t) \in Over /\ Drag(how, g, t) # None
           /\ Drag(how, g, t).drag = how /\ Drag(how, g, t).target = t
  BY NoneAssumption DEF Drag, Over

LEMMA TargetsTyped ==
    ASSUME OInv, NEW d \in Targets
    PROVE  d \in Over /\ d # None /\ (d.drag = "into" => d.target \in Parent)
           /\ (d.drag = "below" => d.target \in ObjectId)
  <1>1. Parent \subseteq ObjectId \cup {Zero} /\ Groups \subseteq Parent
    BY OrderAssumption DEF Parent, ObjectId
  <1>2. \A g : \A r \in Shown(g) : g \in Parent /\ r[2] \in ObjectId
    BY RowsTyped DEF OInv, Shown, RowSet
  <1>f. \A g : First(g) \subseteq Shown(g)
    BY DEF First
  <1>3. PICK g \in Open :
            \/ \E r \in Shown(g) : d = Drag("below", g, r[2])
            \/ \E o \in Groups \cap {r[2] : r \in Shown(g)} : d = Drag("into", g, o)
            \/ \E r \in First(g) : d = Drag("above", g, r[2])
            \/ \E o \in Expanded : o \in {r[2] : r \in Shown(g)} /\ d = Drag("into", o, g)
    BY DEF Targets
  <1>4. CASE \E r \in Shown(g) : d = Drag("below", g, r[2])
    <2>1. PICK r \in Shown(g) : d = Drag("below", g, r[2])
      BY <1>4
    <2>2. g \in Parent /\ r[2] \in ObjectId
      BY <1>2
    <2> QED
      BY <2>1, <2>2, DragTyped
  <1>5. CASE \E o \in Groups \cap {r[2] : r \in Shown(g)} : d = Drag("into", g, o)
    <2>1. PICK o \in Groups \cap {r[2] : r \in Shown(g)} : d = Drag("into", g, o)
      BY <1>5
    <2>2. g \in Parent /\ o \in ObjectId /\ o \in Parent
      BY <1>1, <1>2
    <2> QED
      BY <2>1, <2>2, DragTyped
  <1>6. CASE \E r \in First(g) : d = Drag("above", g, r[2])
    <2>1. PICK r \in First(g) : d = Drag("above", g, r[2])
      BY <1>6
    <2>2. g \in Parent /\ r[2] \in ObjectId
      BY <1>2, <1>f
    <2> QED
      BY <2>1, <2>2, DragTyped
  <1>7. CASE \E o \in Expanded : o \in {r[2] : r \in Shown(g)} /\ d = Drag("into", o, g)
    <2>1. Expanded \subseteq Groups
      BY DEF Expanded
    <2>2. PICK o \in Expanded : o \in {r[2] : r \in Shown(g)} /\ d = Drag("into", o, g)
      BY <1>7
    <2>3. g \in Parent /\ g \in ObjectId \cup {Zero} /\ o \in Parent
      BY <1>1, <1>2, <2>1, <2>2
    <2> QED
      BY <2>2, <2>3, DragTyped
  <1> QED
    BY <1>3, <1>4, <1>5, <1>6, <1>7

LEMMA QuietStep ==
    ASSUME OInv,
           \/ \E d \in Targets : DragStart(d) \/ DragOver(d)
           \/ DropNowhere \/ DropForever \/ CloseModal
    PROVE  OInv'
  <1>0. None \notin ObjectId
    BY IdsAreNumbers
  <1>s. UNCHANGED treeVars => SoundNow'
    BY DEF OInv, SoundNow, treeVars
  <1>1. ASSUME NEW d \in Targets, DragStart(d)
        PROVE  OInv'
    <2>1. Dragging'
      BY <1>0, <1>1, TargetsTyped DEF DragStart, Dragging
    <2> QED
      BY <1>1, <1>s, <2>1 DEF DragStart, OInv, Others
  <1>2. ASSUME NEW d \in Targets, DragOver(d)
        PROVE  OInv'
    <2>1. Dragging'
      BY <1>2, TargetsTyped DEF DragOver, OInv, Dragging
    <2> QED
      BY <1>2, <1>s, <2>1 DEF DragOver, OInv, Others
  <1>3. CASE DropNowhere
    BY <1>3, <1>s DEF DropNowhere, EndDrag, OInv, Dragging, Others
  <1>4. CASE DropForever
    BY <1>4, <1>s DEF DropForever, EndDrag, OInv, Dragging, Others
  <1>5. CASE CloseModal
    BY <1>5, <1>s DEF CloseModal, OInv, Dragging, Others
  <1> QED
    BY <1>1, <1>2, <1>3, <1>4, <1>5

(* An object moves. *)
LEMMA RelocateSound ==
    ASSUME SoundNow, NEW o \in Live, NEW ob \in Object,
           objects' = [objects EXCEPT ![o] = ob], Relocate(o, PlaceOf(ob)), astray' = astray
    PROVE  SoundNow'
  <1>1. o \in ObjectId /\ objects[o] # None /\ noted[o] # None
    BY ObjectsTyped DEF Live
  <1>2. noted' = [noted EXCEPT ![o] = PlaceOf(ob)]
        /\ children' = IF noted[o] = PlaceOf(ob) THEN children
                       ELSE Reorder(children, o, noted[o], PlaceOf(ob))
    BY <1>1 DEF Relocate
  <1> QED
    BY <1>1, <1>2, MoveSound DEF SoundNow

(* Of an object that stays, only the flags change: its row does not. *)
LEMMA FlagStep ==
    ASSUME OInv, NEW o \in ObjectId, ToggleLocked(o) \/ ToggleExpanded(o)
    PROVE  OInv'
  <1>0. o \in Live /\ objects[o] \in Object /\ noted[o] = PlaceOf(objects[o]) /\ noted[o] # None
    BY ObjectsTyped DEF OInv, ToggleLocked, ToggleExpanded
  <1>1. PICK ob : /\ ob \in {[objects[o] EXCEPT !.locked = ~@], [objects[o] EXCEPT !.expanded = ~@]}
                  /\ objects' = [objects EXCEPT ![o] = ob]
    BY DEF ToggleLocked, ToggleExpanded
  <1>2. ob \in Object /\ PlaceOf(ob) = PlaceOf(objects[o])
    BY <1>0, <1>1 DEF Object, PlaceOf
  <1>3. noted' = noted /\ children' = children /\ astray' = astray /\ noted \in [ObjectId -> Place \cup {None}]
    BY DEF ToggleLocked, ToggleExpanded, OInv, SoundNow, Sound
  <1>4. Relocate(o, PlaceOf(ob))
    <2>1. noted' = [noted EXCEPT ![o] = PlaceOf(ob)]
      BY <1>0, <1>2, <1>3
    <2> QED
      BY <1>0, <1>2, <1>3, <2>1 DEF Relocate
  <1>5. SoundNow'
    BY <1>0, <1>1, <1>2, <1>3, <1>4, RelocateSound DEF OInv
  <1>6. Move /\ UNCHANGED <<dragged, dragOver, modal, hung>>
    BY DEF ToggleLocked, ToggleExpanded
  <1> QED
    BY <1>5, <1>6, MoveCounts DEF OInv, Dragging, Others

(* Objects come and go. *)
LEMMA ComesStep ==
    ASSUME OInv, NEW o \in ObjectId, NEW s \in Sort, Move, Redraw,
           objects' = [objects EXCEPT ![o] = New(Zero, s)],
           Insert(o, [group |-> Zero, sort |-> s]), UNCHANGED <<dragged, dragOver, modal>>
    PROVE  OInv'
  <1> DEFINE ob == New(Zero, s)
  <1>1. ob \in Object /\ PlaceOf(ob) = [group |-> Zero, sort |-> s]
        /\ ob.group = Zero /\ ob.sort = s
    BY DEF New, Object, PlaceOf, Parent
  <1>2. objects' = [objects EXCEPT ![o] = ob] /\ Insert(o, PlaceOf(ob))
    BY <1>1
  <1> HIDE DEF ob
  <1>3. /\ noted' = [noted EXCEPT ![o] = PlaceOf(ob)]
        /\ children' = Put(children, ob.group, <<ob.sort, o>>)
        /\ astray' = IF noted[o] \in {None, PlaceOf(ob)} THEN astray ELSE astray \cup {o}
    BY <1>1, <1>2 DEF Insert
  <1>4. Sound(objects, noted, children, astray)
    BY DEF OInv, SoundNow
  <1>5. SoundNow'
    <2>1. Sound([objects EXCEPT ![o] = ob], [noted EXCEPT ![o] = PlaceOf(ob)],
                Put(children, ob.group, <<ob.sort, o>>),
                IF noted[o] \in {None, PlaceOf(ob)} THEN astray ELSE astray \cup {o})
      BY <1>1, <1>4, InsertSound
    <2>2. Sound(objects', noted', children', astray')
      BY <1>2, <1>3, <2>1
    <2> QED
      BY <2>2 DEF SoundNow
  <1> QED
    BY <1>5, ListChanges

LEMMA OtherSortsTyped == OtherSorts \subseteq Sort
  BY OrderAssumption, KeysType DEF OtherSorts

LEMMA CreateStep ==
    ASSUME OInv, NEW o \in ObjectId,
           ObjectCreated(o) \/ (\E s \in OtherSorts : ObjectAgain(o, s))
    PROVE  OInv'
  <1>1. CASE ObjectCreated(o)
    BY <1>1, CreateSortType, ComesStep DEF OInv, ObjectCreated
  <1>2. ASSUME NEW s \in OtherSorts, ObjectAgain(o, s)
        PROVE  OInv'
    BY <1>2, OtherSortsTyped, ComesStep DEF ObjectAgain
  <1> QED
    BY <1>1, <1>2

LEMMA RemoveStep ==
    ASSUME OInv, NEW o \in ObjectId, RemoveObject(o)
    PROVE  OInv'
  <1>1. Sound(objects, noted, children, astray)
    BY DEF OInv, SoundNow
  <1>2. /\ objects' = [objects EXCEPT ![o] = None]
        /\ noted' = [noted EXCEPT ![o] = None]
        /\ children' = IF noted[o] = None THEN children
                       ELSE Drop(children, noted[o].group, <<noted[o].sort, o>>)
        /\ astray' = astray
    BY DEF RemoveObject, RemoveRow
  <1>3. SoundNow'
    BY <1>1, <1>2, RemoveSound DEF SoundNow
  <1> QED
    BY <1>3, ListChanges DEF RemoveObject

LEMMA LeaveStep ==
    ASSUME OInv, PeersLeave
    PROVE  OInv'
  <1>0. Sound(objects, noted, children, astray)
    BY DEF OInv, SoundNow
  <1>1. objects' \in [ObjectId -> Object \cup {None}] /\ noted' \in [ObjectId -> Place \cup {None}]
    BY <1>0 DEF Sound, PeersLeave
  <1>2. \A o \in ObjectId : objects'[o] = (IF o \in Foreign THEN None ELSE objects[o])
                            /\ noted'[o] = (IF o \in Foreign THEN None ELSE noted[o])
    BY DEF PeersLeave
  <1>a. astray' = astray \ Foreign
    BY DEF PeersLeave
  <1> DEFINE left(g) == {r \in children[g] : r[2] \notin Foreign}
  <1>3. children' = [g \in {h \in DOMAIN children : left(h) # {}} |-> left(g)]
    BY DEF PeersLeave
  <1>4. Kept(children')
    BY <1>0, <1>3 DEF Sound, Kept
  <1>5. \A g : RowsIn(children', g) = {r \in RowsIn(children, g) : r[2] \notin Foreign}
    BY <1>3 DEF RowsIn
  <1>6. Places(objects', noted', astray')
    BY <1>0, <1>2, <1>a DEF Sound, Places
  <1>7. Standing(objects', noted', children')
    <2> SUFFICES ASSUME NEW p \in ObjectId, objects'[p] # None PROVE AtPlace(noted', children', p)
      BY DEF Standing
    <2>1. p \notin Foreign /\ objects[p] # None /\ noted'[p] = noted[p]
      BY <1>2
    <2>2. AtPlace(noted, children, p)
      BY <1>0, <2>1 DEF Sound, Standing
    <2> QED
      BY <1>5, <2>1, <2>2 DEF AtPlace
  <1>8. NoOthers(noted', children', astray')
    <2> SUFFICES ASSUME NEW g \in Parent, NEW r \in RowsIn(children', g)
                 PROVE  r \in RowSet /\ RowFits(noted', astray', g, r)
      BY DEF NoOthers
    <2>1. r \in RowsIn(children, g) /\ r[2] \notin Foreign
      BY <1>5
    <2>2. r \in RowSet /\ RowFits(noted, astray, g, r)
      BY <1>0, <2>1 DEF Sound, NoOthers
    <2>3. r[2] \in ObjectId
      BY <2>2 DEF RowSet
    <2> QED
      BY <1>2, <1>a, <2>1, <2>2, <2>3 DEF RowFits
  <1>9. SoundNow'
    BY <1>0, <1>1, <1>4, <1>6, <1>7, <1>8, <1>a DEF Sound, SoundNow
  <1> QED
    BY <1>9, ListChanges DEF PeersLeave

(* The page connects again: what it has is put where it is, over all rows there are. *)
LEMMA InitializeStep ==
    ASSUME OInv, NEW o \in ObjectId, Initialize(o)
    PROVE  OInv'
  <1>0. Sound(objects, noted, children, astray) /\ objects \in [ObjectId -> Object \cup {None}]
    BY DEF OInv, SoundNow, Sound
  <1>1. objects' \in [ObjectId -> Object \cup {None}]
    <2>1. FirstSort[o] \in Sort
      BY OrderAssumption
    <2>2. New(Zero, FirstSort[o]) \in Object
      BY <2>1 DEF New, Object, Parent
    <2>3. ASSUME o \in Live
          PROVE  objects[o] \in Object
      BY <1>0, <2>3 DEF Live
    <2>4. ASSUME o \in Live, NEW g \in {Zero} \cup (Groups \ {o})
          PROVE  [objects[o] EXCEPT !.group = g] \in Object
      BY <2>3, <2>4 DEF Object, Parent
    <2>5. ASSUME o \in Live, NEW s \in OtherSorts
          PROVE  [objects[o] EXCEPT !.sort = s] \in Object
      BY <2>3, <2>5, OtherSortsTyped DEF Object
    <2>6. PICK p \in Object \cup {None} : objects' = [objects EXCEPT ![o] = p]
      <3>1. CASE o \notin Live
        BY <2>2, <3>1 DEF Initialize
      <3>2. CASE o \in Live /\ objects' = [objects EXCEPT ![o] = None]
        BY <3>2
      <3>3. ASSUME o \in Live, NEW g \in {Zero} \cup (Groups \ {o}), objects' = [objects EXCEPT ![o].group = g]
            PROVE  \E p \in Object \cup {None} : objects' = [objects EXCEPT ![o] = p]
        <4>1. objects' = [objects EXCEPT ![o] = [objects[o] EXCEPT !.group = g]]
          BY <3>3
        <4> QED
          BY <2>4, <3>3, <4>1
      <3>4. ASSUME o \in Live, NEW s \in OtherSorts, objects' = [objects EXCEPT ![o].sort = s]
            PROVE  \E p \in Object \cup {None} : objects' = [objects EXCEPT ![o] = p]
        <4>1. objects' = [objects EXCEPT ![o] = [objects[o] EXCEPT !.sort = s]]
          BY <3>4
        <4> QED
          BY <2>5, <3>4, <4>1
      <3> QED
        BY <3>1, <3>2, <3>3, <3>4 DEF Initialize
    <2> QED
      BY <1>0, <2>6
  <1> DEFINE now == {p \in ObjectId : objects'[p] # None}
             at(p) == PlaceOf(objects'[p])
  <1>2. /\ noted' = [p \in ObjectId |-> IF p \in now THEN at(p) ELSE noted[p]]
        /\ children' = [g \in DOMAIN children \cup {at(p).group : p \in now} |->
                          Rows(g) \cup {<<at(p).sort, p>> : p \in {q \in now : at(q).group = g}}]
        /\ astray' = astray \cup {p \in ObjectId : noted[p] \notin {None, noted'[p]}} \cup (Live \ now)
    BY DEF Initialize, InsertAll
  <1>3. \A p \in ObjectId : objects'[p] # None =>
          /\ objects'[p] \in Object /\ at(p).group \in Parent /\ at(p).sort \in Sort
          /\ noted'[p] = at(p) /\ at(p) \in Place /\ at(p) = [group |-> at(p).group, sort |-> at(p).sort]
    BY <1>1, <1>2, PlacesOf
  <1>4. \A p \in ObjectId : objects'[p] = None => noted'[p] = noted[p]
    BY <1>2
  <1>5. noted' \in [ObjectId -> Place \cup {None}]
    <2>1. \A p \in ObjectId : noted'[p] \in Place \cup {None}
      BY <1>0, <1>3, <1>4 DEF Sound
    <2> QED
      BY <1>2, <2>1
  <1>6. /\ astray \subseteq astray' /\ astray' \subseteq ObjectId
        /\ \A p \in ObjectId : noted[p] # None /\ noted'[p] # noted[p] => p \in astray'
        /\ \A p \in ObjectId : objects[p] # None /\ objects'[p] = None => p \in astray'
    BY <1>0, <1>2 DEF Sound, Live
  <1>7. \A g : RowsIn(children', g) =
                 RowsIn(children, g) \cup {<<at(p).sort, p>> : p \in {q \in now : at(q).group = g}}
    BY <1>2 DEF RowsIn, Rows
  <1>8. Kept(children')
    <2>1. DOMAIN children' \subseteq Parent
      BY <1>0, <1>2, <1>3 DEF Sound, Kept
    <2>2. ASSUME NEW g \in DOMAIN children'
          PROVE  children'[g] # {}
      <3>1. children'[g] = RowsIn(children', g)
        BY <2>2 DEF RowsIn
      <3>2. CASE g \in DOMAIN children
        BY <1>0, <1>7, <3>1, <3>2 DEF Sound, Kept, RowsIn
      <3>3. CASE g \notin DOMAIN children
        <4>1. DOMAIN children' = DOMAIN children \cup {at(p).group : p \in now}
          BY <1>2
        <4>2. PICK k \in now : g = at(k).group
          BY <2>2, <3>3, <4>1
        <4> DEFINE added == {<<at(p).sort, p>> : p \in {q \in now : at(q).group = g}}
        <4>3. <<at(k).sort, k>> \in added
          BY <4>2
        <4>4. RowsIn(children', g) = RowsIn(children, g) \cup added
          BY <1>7
        <4> HIDE DEF added
        <4> QED
          BY <3>1, <4>3, <4>4
      <3> QED
        BY <3>2, <3>3
    <2> QED
      BY <2>1, <2>2 DEF Kept
  <1>9. Places(objects', noted', astray')
    BY <1>0, <1>3, <1>4, <1>6 DEF Sound, Places
  <1>10. Standing(objects', noted', children')
    <2> SUFFICES ASSUME NEW p \in ObjectId, objects'[p] # None PROVE AtPlace(noted', children', p)
      BY DEF Standing
    <2>1. noted'[p] = at(p) /\ p \in now
      BY <1>3
    <2>2. <<at(p).sort, p>> \in RowsIn(children', at(p).group)
      BY <1>7, <2>1
    <2> QED
      BY <2>1, <2>2 DEF AtPlace
  <1>11. NoOthers(noted', children', astray')
    <2> SUFFICES ASSUME NEW g \in Parent, NEW r \in RowsIn(children', g)
                 PROVE  r \in RowSet /\ RowFits(noted', astray', g, r)
      BY DEF NoOthers
    <2>1. CASE r \in RowsIn(children, g)
      <3>1. r \in RowSet /\ RowFits(noted, astray, g, r)
        BY <1>0, <2>1 DEF Sound, NoOthers
      <3>2. r[2] \in ObjectId /\ r[1] \in Sort
        BY <3>1 DEF RowSet
      <3>3. CASE r[2] \in astray
        BY <1>6, <3>1, <3>3 DEF RowFits
      <3>4. CASE noted[r[2]] = [group |-> g, sort |-> r[1]]
        <4>1. noted[r[2]] # None
          <5>1. [group |-> g, sort |-> r[1]] \in Place
            BY <3>2 DEF Place
          <5> QED
            BY <3>4, <5>1, PlacesAre
        <4> QED
          BY <1>6, <3>1, <3>2, <3>4, <4>1 DEF RowFits
      <3> QED
        BY <3>1, <3>3, <3>4 DEF RowFits
    <2>2. CASE r \notin RowsIn(children, g)
      <3>1. PICK p \in now : at(p).group = g /\ r = <<at(p).sort, p>>
        BY <1>7, <2>2
      <3>2. p \in ObjectId /\ objects'[p] # None
        BY <3>1
      <3>3. at(p).sort \in Sort /\ noted'[p] = at(p) /\ at(p) = [group |-> at(p).group, sort |-> at(p).sort]
        BY <1>3, <3>2
      <3> HIDE DEF now
      <3>4. r \in RowSet /\ r[1] = at(p).sort /\ r[2] = p
        BY <3>1, <3>2, <3>3 DEF RowSet
      <3> QED
        BY <3>1, <3>3, <3>4 DEF RowFits
    <2> QED
      BY <2>1, <2>2
  <1>12. SoundNow'
    BY <1>1, <1>5, <1>6, <1>8, <1>9, <1>10, <1>11 DEF Sound, SoundNow
  <1> QED
    BY <1>12, ListChanges DEF Initialize

LEMMA UpdateStep ==
    ASSUME OInv, NEW o \in ObjectId,
           (\E g \in Parent : UpdateGroup(o, g)) \/ (\E s \in OtherSorts : UpdateSort(o, s))
    PROVE  OInv'
  <1>1. ASSUME NEW g \in Parent, UpdateGroup(o, g)
        PROVE  OInv'
    <2> DEFINE ob == [objects[o] EXCEPT !.group = g]
    <2>1. o \in Live /\ objects[o] \in Object /\ noted[o] = PlaceOf(objects[o]) /\ noted[o] # None
      BY <1>1, ObjectsTyped DEF OInv, UpdateGroup
    <2>2. ob \in Object /\ PlaceOf(ob) = [noted[o] EXCEPT !.group = g]
      BY <2>1 DEF Object, PlaceOf
    <2>3. objects' = [objects EXCEPT ![o] = ob] /\ Relocate(o, PlaceOf(ob)) /\ astray' = astray
      BY <1>1, <2>1, <2>2 DEF UpdateGroup
    <2> HIDE DEF ob
    <2>4. SoundNow'
      BY <2>1, <2>2, <2>3, RelocateSound DEF OInv
    <2> QED
      BY <1>1, <2>4, ListChanges DEF UpdateGroup
  <1>2. ASSUME NEW s \in OtherSorts, UpdateSort(o, s)
        PROVE  OInv'
    <2> DEFINE ob == [objects[o] EXCEPT !.sort = s]
    <2>0. s \in Sort
      BY <1>2, OtherSortsTyped
    <2>1. o \in Live /\ objects[o] \in Object /\ noted[o] = PlaceOf(objects[o]) /\ noted[o] # None
      BY <1>2, ObjectsTyped DEF OInv, UpdateSort
    <2>2. ob \in Object /\ PlaceOf(ob) = [noted[o] EXCEPT !.sort = s]
      BY <2>0, <2>1 DEF Object, PlaceOf
    <2>3. objects' = [objects EXCEPT ![o] = ob] /\ Relocate(o, PlaceOf(ob)) /\ astray' = astray
      BY <1>2, <2>1, <2>2 DEF UpdateSort
    <2> HIDE DEF ob
    <2>4. SoundNow'
      BY <2>1, <2>2, <2>3, RelocateSound DEF OInv
    <2> QED
      BY <1>2, <2>4, ListChanges DEF UpdateSort
  <1> QED
    BY <1>1, <1>2

(* What is dropped gets a key and a group. *)
LEMMA DropIsMove ==
    ASSUME OInv, DropOn(dragged, dragOver)
    PROVE  /\ dragged \in Live
           /\ dragOver \in Over /\ dragOver.target \in Live
           /\ TargetGroup(dragOver) \in Parent
           /\ NewSort(dragOver) \in Sort
           /\ \E ob \in Object :
                /\ ob.group = TargetGroup(dragOver) /\ ob.sort = NewSort(dragOver)
                /\ objects' = [objects EXCEPT ![dragged] = ob]
                /\ Relocate(dragged, PlaceOf(ob))
  <1> DEFINE o == dragged
             d == dragOver
  <1>1. o \in Live /\ d \in Over /\ d.target \in Live /\ d # None
    BY DEF DropOn, EndDrag, Dropped, OInv, Dragging
  <1>2. TargetGroup(d) \in Parent
    BY <1>1 DEF TargetGroup, OInv, Dragging, Over
  <1>3. NewSort(d) \in Sort
    BY <1>1, NewSortType DEF OInv
  <1>4. objects[o] \in Object
    BY <1>1, ObjectsTyped DEF OInv
  <1> DEFINE ob == [objects[o] EXCEPT !.group = TargetGroup(d), !.sort = NewSort(d)]
  <1>5. ob \in Object /\ ob.group = TargetGroup(d) /\ ob.sort = NewSort(d)
        /\ PlaceOf(ob) = [group |-> TargetGroup(d), sort |-> NewSort(d)]
    BY <1>2, <1>3, <1>4 DEF Object, PlaceOf
  <1>6. objects' = [objects EXCEPT ![o] = ob] /\ Relocate(o, PlaceOf(ob))
    <2>1. objects \in [ObjectId -> Object \cup {None}]
      BY DEF OInv, SoundNow, Sound
    <2> QED
      BY <1>1, <1>5, <2>1 DEF DropOn
  <1> HIDE DEF ob
  <1> QED
    BY <1>1, <1>2, <1>3, <1>5, <1>6

LEMMA DropStep ==
    ASSUME OInv, DropOn(dragged, dragOver)
    PROVE  OInv'
  <1>1. SoundNow'
    BY DropIsMove, RelocateSound DEF OInv, DropOn
  <1>2. hung' \in BOOLEAN
    BY DEF DropOn, Redraw, Round
  <1> QED
    BY <1>1, <1>2, MoveCounts DEF DropOn, EndDrag, OInv, Dragging, Others

LEMMA ONext == OInv /\ [Next]_vars => OInv'
  <1> SUFFICES ASSUME OInv, [Next]_vars PROVE OInv'
    OBVIOUS
  <1>1. CASE UNCHANGED vars
    BY <1>1 DEF vars, OInv, SoundNow, Dragging, Others
  <1>2. CASE Next
    BY <1>2, QuietStep, FlagStep, CreateStep, RemoveStep, LeaveStep, InitializeStep, UpdateStep,
       DropStep DEF Next
  <1> QED
    BY <1>1, <1>2

(* The state has the types of the code: every object is in a group and has a key, whatever
   keys the page computes from those there are. *)
THEOREM TypeCorrect == Spec => []TypeOK
  <1>1. OInv => TypeOK
    <2> SUFFICES ASSUME OInv PROVE TypeOK
      OBVIOUS
    <2>1. DOMAIN children \subseteq Parent
      BY DEF OInv, SoundNow, Sound, Kept
    <2>2. \A g \in DOMAIN children : children[g] \subseteq Sort \X ObjectId
      <3>1. \A g \in DOMAIN children : children[g] = Rows(g)
        BY DEF Rows
      <3> QED
        BY <3>1, RowsTyped DEF OInv, RowSet
    <2> QED
      BY <2>1, <2>2 DEF OInv, SoundNow, Sound, Dragging, Others, TypeOK
  <1> QED
    BY <1>1, OInit, ONext, PTL DEF Spec

(* For any number of objects and groups, keys of any length, drags that interleave with
   what other pages do to the same objects, and any number of connections that are made
   again: each object has its row in its group, at its key, and only of objects that came
   anew elsewhere, or were gone then, is there another. Each change of the tree and of the
   places beside it takes the old row from where the index has it, and puts the new one. *)
THEOREM ObjectsAreListed == Spec => []Listed
  <1>1. OInv => Listed
    <2> SUFFICES ASSUME OInv PROVE Listed
      OBVIOUS
    <2>0. Sound(objects, noted, children, astray)
      BY DEF OInv, SoundNow
    <2>1. \A o \in Live : noted[o] = PlaceOf(objects[o]) /\ Stands(children, o, noted[o])
      BY <2>0 DEF Sound, Places, Standing, AtPlace, RowsIn, Stands, Live
    <2>2. \A o \in ObjectId \ astray : objects[o] = None => noted[o] = None
      BY <2>0 DEF Sound, Places
    <2>3. \A g \in Parent : \A r \in Rows(g) : r[2] \in astray \/ noted[r[2]] = [group |-> g, sort |-> r[1]]
      BY <2>0 DEF Sound, NoOthers, RowFits, Rows, RowsIn
    <2>4. \A g \in DOMAIN children : children[g] # {}
      BY <2>0 DEF Sound, Kept
    <2> QED
      BY <2>1, <2>2, <2>3, <2>4 DEF Listed
  <1> QED
    BY <1>1, OInit, ONext, PTL DEF Spec

-----------------------------------------------------------------------------
(* The rows after an object has moved: the old one is gone, the new one is there. *)
LEMMA RelocatedRows ==
    ASSUME SoundNow, NEW o \in Live, NEW ob \in Object, Relocate(o, PlaceOf(ob)),
           NEW g \in Parent, NEW r
    PROVE  r \in RowsIn(children', g) <=>
             \/ g = ob.group /\ r = <<ob.sort, o>>
             \/ r \in RowsIn(children, g) /\ ~(g = noted[o].group /\ r = <<noted[o].sort, o>>)
  <1> DEFINE at == noted[o]
             old == <<at.sort, o>>
             gone == Drop(children, at.group, old)
  <1>1. at = PlaceOf(objects[o]) /\ at # None /\ at.group \in Parent /\ old \in RowsIn(children, at.group)
        /\ Kept(children)
    <2>1. o \in ObjectId /\ objects[o] # None
      BY DEF Live
    <2> QED
      BY <2>1, ObjectsTyped DEF SoundNow, Sound, Standing, AtPlace
  <1>2. PlaceOf(ob).group = ob.group /\ PlaceOf(ob).sort = ob.sort /\ ob.group \in Parent
    BY PlacesOf
  <1>3. CASE at = PlaceOf(ob)
    <2>1. children' = children
      BY <1>1, <1>3 DEF Relocate
    <2> QED
      BY <1>1, <1>2, <1>3, <2>1
  <1>4. CASE at # PlaceOf(ob)
    <2>1. Stands(children, o, at)
      BY <1>1 DEF Stands, RowsIn
    <2>2. children' = Put(gone, ob.group, <<ob.sort, o>>)
      BY <1>1, <1>2, <1>4, <2>1 DEF Relocate, Reorder
    <2>3. /\ Kept(gone)
          /\ RowsIn(gone, at.group) = RowsIn(children, at.group) \ {old}
          /\ \A h \in Parent \ {at.group} : RowsIn(gone, h) = RowsIn(children, h)
      BY <1>1, DropRows
    <2> HIDE DEF gone, at, old
    <2>4. /\ RowsIn(children', ob.group) = RowsIn(gone, ob.group) \cup {<<ob.sort, o>>}
          /\ \A h \in Parent \ {ob.group} : RowsIn(children', h) = RowsIn(gone, h)
      BY <1>2, <2>2, <2>3, PutRows
    <2> QED
      BY <2>3, <2>4 DEF at, old
  <1> QED
    BY <1>3, <1>4

-----------------------------------------------------------------------------
(* What is dropped last is last. *)
LEMMA CleanRows ==
    ASSUME SoundNow, NEW g, Clean(g)
    PROVE  /\ IsFiniteSet(Rows(g))
           /\ \A r \in Rows(g) : r[2] \in Live /\ r[1] = SortOf(r[2]) /\ r = <<r[1], r[2]>>
  <1> DEFINE S == {p \in Live : objects[p].group = g}
             f == [p \in S |-> <<objects[p].sort, p>>]
  <1>1. Rows(g) = {<<objects[o].sort, o>> : o \in S}
    BY DEF Clean
  <1>2. IsFiniteSet(S)
    BY LiveIsFinite, FS_Subset
  <1>3. f \in Surjection(S, Rows(g))
    <2> HIDE DEF S
    <2> QED
      BY <1>1 DEF Surjection
  <1>4. IsFiniteSet(Rows(g))
    BY <1>2, <1>3, FS_Surjection
  <1> QED
    BY <1>1, <1>4 DEF SortOf

(* There is one last row. *)
LEMMA LastIs ==
    ASSUME NEW T \in SUBSET RowSet, NEW r \in T, \A p \in T \ {r} : Above(p, r)
    PROVE  (CHOOSE q \in T : \A p \in T \ {q} : Above(p, q)) = r
  <1> DEFINE last == CHOOSE q \in T : \A p \in T \ {q} : Above(p, q)
  <1>1. last \in T /\ \A p \in T \ {last} : Above(p, last)
    OBVIOUS
  <1> HIDE DEF last
  <1>2. last = r
    <2> SUFFICES ASSUME last # r PROVE FALSE
      OBVIOUS
    <2>1. Above(r, last) /\ Above(last, r)
      BY <1>1
    <2>2. Above(r, r)
      BY <1>1, <2>1, AboveTransitive
    <2> QED
      BY <2>2, AboveIrreflexive
  <1> QED
    BY <1>2 DEF last

LEMMA LastOfGroup ==
    ASSUME SoundNow, NEW g, Clean(g), Rows(g) # {}
    PROVE  /\ LastOf(g) \in Live
           /\ <<SortOf(LastOf(g)), LastOf(g)>> \in Rows(g)
           /\ \A p \in Rows(g) \ {<<SortOf(LastOf(g)), LastOf(g)>>} :
                Above(p, <<SortOf(LastOf(g)), LastOf(g)>>)
  <1>0. Rows(g) \in SUBSET RowSet /\ IsFiniteSet(Rows(g))
    BY RowsTyped, CleanRows
  <1>1. PICK r \in Rows(g) : \A p \in Rows(g) \ {r} : Above(p, r)
    BY <1>0, LastRow
  <1>2. (CHOOSE q \in Rows(g) : \A p \in Rows(g) \ {q} : Above(p, q)) = r
    BY <1>0, <1>1, LastIs
  <1>3. LastOf(g) = r[2]
    BY <1>2 DEF LastOf
  <1>4. r[2] \in Live /\ r = <<SortOf(r[2]), r[2]>>
    BY CleanRows
  <1> QED
    BY <1>1, <1>3, <1>4

(* A drop into a group, or below its last row, gives a key above those of all its rows. *)
LEMMA NewSortIsLast ==
    ASSUME OInv, NEW d \in Over, d.target \in Live, Clean(TargetGroup(d)),
           d.drag = "into" \/ (d.drag = "below" /\ LastOf(d.group) = d.target)
    PROVE  \A r \in Rows(TargetGroup(d)) : Less(r[1], NewSort(d))
  <1> DEFINE g == TargetGroup(d)
             last == LastOf(g)
             row == <<SortOf(last), last>>
  <1>0. SoundNow
    BY DEF OInv
  <1> SUFFICES ASSUME Rows(g) # {} PROVE \A r \in Rows(g) : Less(r[1], NewSort(d))
    OBVIOUS
  <1>1. last \in Live /\ row \in Rows(g) /\ \A p \in Rows(g) \ {row} : Above(p, row)
    BY <1>0, LastOfGroup
  <1>2. SortOf(last) \in Sort /\ None \notin Live
    BY <1>0, <1>1, ObjectsTyped, IdsAreNumbers
  <1>3. NewSort(d) = After(SortOf(last))
    <2>1. CASE d.drag = "into"
      BY <1>1, <2>1 DEF NewSort, TargetGroup
    <2>2. CASE d.drag = "below" /\ LastOf(d.group) = d.target
      <3>1. g = d.group /\ last = d.target
        BY <2>2 DEF TargetGroup
      <3>2. ASSUME NEW q \in Rows(g), NEW r \in Rows(g), r[2] = d.target, Above(r, q)
            PROVE  FALSE
        <4>1. r = row
          BY <1>0, <3>1, <3>2, CleanRows
        <4>2. q \in RowSet /\ row \in RowSet
          BY <1>0, <1>1, RowsTyped
        <4>3. CASE q = row
          BY <3>2, <4>1, <4>2, <4>3, AboveIrreflexive
        <4>4. CASE q # row
          <5>1. Above(q, row) /\ Above(row, q)
            BY <1>1, <3>2, <4>1, <4>4
          <5>2. Above(row, row)
            BY <4>2, <5>1, AboveTransitive
          <5> QED
            BY <4>2, <5>2, AboveIrreflexive
        <4> QED
          BY <4>3, <4>4
      <3>3. Following(d.group, d.target) = None
        BY <3>1, <3>2 DEF Following
      <3> QED
        BY <1>2, <2>2, <3>1, <3>3 DEF NewSort
    <2> QED
      BY <2>1, <2>2
  <1>4. Less(SortOf(last), NewSort(d)) /\ NewSort(d) \in Sort
    BY <1>2, <1>3, AfterComesAfter, KeysType
  <1>5. ASSUME NEW r \in Rows(g)
        PROVE  Less(r[1], NewSort(d))
    <2>1. r \in RowSet /\ r[1] \in Sort
      BY <1>0, RowsTyped DEF RowSet
    <2>2. r[1] = SortOf(last) \/ Less(r[1], SortOf(last))
      BY <1>1 DEF Above
    <2> QED
      BY <1>2, <1>4, <2>1, <2>2, LessTransitive
  <1> QED
    BY <1>5

LEMMA DropLast ==
    ASSUME OInv, DropOn(dragged, dragOver),
           NEW o, o = dragged, NEW d, d = dragOver,
           d.drag = "into" \/ (d.drag = "below" /\ LastOf(d.group) = d.target),
           Clean(TargetGroup(d))
    PROVE  LastOf(TargetGroup(d))' = o
  <1> DEFINE g == TargetGroup(d)
             row == <<NewSort(d), o>>
             rows == RowsIn(children', g)
  <1>1. d \in Over /\ d.target \in Live /\ g \in Parent /\ NewSort(d) \in Sort /\ o \in Live
    BY DropIsMove
  <1>2. PICK ob \in Object : ob.group = g /\ ob.sort = NewSort(d) /\ Relocate(o, PlaceOf(ob))
    BY DropIsMove
  <1>3. \A r \in Rows(g) : Less(r[1], NewSort(d))
    BY <1>1, NewSortIsLast
  <1>4. \A r : r \in rows => r = row \/ r \in Rows(g)
    BY <1>1, <1>2, RelocatedRows DEF OInv, Rows, RowsIn
  <1>5. row \in rows
    <2>1. SoundNow
      BY DEF OInv
    <2>2. row \in RowsIn(children', g) <=>
             \/ g = ob.group /\ row = <<ob.sort, o>>
             \/ row \in RowsIn(children, g) /\ ~(g = noted[o].group /\ row = <<noted[o].sort, o>>)
      <3> HIDE DEF row
      <3> QED
        BY <1>1, <1>2, <2>1, RelocatedRows
    <2> QED
      BY <1>2, <2>2
  <1>6. \A p \in rows \ {row} : Above(p, row)
    BY <1>3, <1>4 DEF Above
  <1>7. rows \in SUBSET RowSet
    <2>1. row \in RowSet
      BY <1>1 DEF RowSet, Live
    <2> QED
      BY <1>4, <2>1, RowsTyped DEF OInv
  <1>8. (CHOOSE q \in rows : \A p \in rows \ {q} : Above(p, q)) = row
    <2> HIDE DEF row, rows
    <2> QED
      BY <1>5, <1>6, <1>7, LastIs
  <1>9. LastOf(TargetGroup(d))' =
           IF rows = {} THEN None ELSE (CHOOSE q \in rows : \A p \in rows \ {q} : Above(p, q))[2]
    BY DEF LastOf, Rows, RowsIn, TargetGroup
  <1>10. rows # {} /\ row[2] = o
    BY <1>5
  <1> HIDE DEF row, rows
  <1> QED
    BY <1>8, <1>9, <1>10

(* Whatever keys the rows of a group have: an object that is dropped into it, or below its last
   row, becomes its last row, if the rows are those of its objects. The key NewSort makes
   with after() is above every key there, since it is above the last, and above() is a
   strict total order of rows. *)
THEOREM DroppedLast == Spec => DropsLast
  <1>1. OInv /\ [Next]_vars =>
          [\A o \in {dragged}, d \in {dragOver} :
            /\ DropOn(o, d)
            /\ d.drag = "into" \/ (d.drag = "below" /\ LastOf(d.group) = d.target)
            /\ Clean(TargetGroup(d))
            => LastOf(TargetGroup(d))' = o]_vars
    BY DropLast
  <1> QED
    BY <1>1, OInit, ONext, PTL DEF Spec, DropsLast
-----------------------------------------------------------------------------
(* What is found going down. *)

(* A step that is taken again and again. *)
Iterated(f, x, step, N) == f = [n \in 0..N |-> IF n = 0 THEN x ELSE step[f[n - 1]]]

LEMMA Iterates ==
    ASSUME NEW X, NEW x \in X, NEW step \in [X -> X], NEW N \in Nat
    PROVE  \E f \in [0..N -> X] : Iterated(f, x, step, N)
  <1> DEFINE T == {m \in Nat : \E f \in [0..m -> X] :
                        f = [n \in 0..m |-> IF n = 0 THEN x ELSE step[f[n - 1]]]}
  <1>1. 0 \in T
    <2> DEFINE f == [n \in 0..0 |-> x]
    <2>1. f \in [0..0 -> X] /\ f = [n \in 0..0 |-> IF n = 0 THEN x ELSE step[f[n - 1]]]
      OBVIOUS
    <2> QED
      BY <2>1
  <1>2. ASSUME NEW m \in T
        PROVE  m + 1 \in T
    <2>1. PICK f \in [0..m -> X] : f = [n \in 0..m |-> IF n = 0 THEN x ELSE step[f[n - 1]]]
      OBVIOUS
    <2> DEFINE g == [n \in 0..m + 1 |-> IF n = m + 1 THEN step[f[m]] ELSE f[n]]
    <2>2. g \in [0..m + 1 -> X]
      BY <2>1
    <2>3. ASSUME NEW n \in 0..m + 1
          PROVE  g[n] = IF n = 0 THEN x ELSE step[g[n - 1]]
      <3>1. CASE n = m + 1
        BY <3>1
      <3>2. CASE n # m + 1
        <4>1. n \in 0..m /\ g[n] = f[n] /\ (n # 0 => n - 1 \in 0..m /\ g[n - 1] = f[n - 1])
          BY <3>2
        <4>2. f[n] = IF n = 0 THEN x ELSE step[f[n - 1]]
          BY <2>1, <4>1
        <4> QED
          BY <4>1, <4>2
      <3> QED
        BY <3>1, <3>2
    <2>4. g = [n \in 0..m + 1 |-> IF n = 0 THEN x ELSE step[g[n - 1]]]
      BY <2>3
    <2>5. \E h \in [0..m + 1 -> X] : h = [n \in 0..m + 1 |-> IF n = 0 THEN x ELSE step[h[n - 1]]]
      <3> HIDE DEF g
      <3> QED
        BY <2>2, <2>4
    <2> QED
      BY <2>5
  <1>3. T = Nat
    <2> HIDE DEF T
    <2>1. T \in SUBSET Nat
      BY DEF T
    <2> QED
      BY <1>1, <1>2, <2>1, NatUp
  <1> QED
    BY <1>3 DEF Iterated

(* What is in the rows of a group, and what has all that is in those of a group and its own. *)
Members(tree, g) == {r[2] : r \in RowsIn(tree, g)}

TreeTyped(tree) == \A g : Members(tree, g) \subseteq ObjectId

Closed(tree, top, W) == Members(tree, top) \subseteq W /\ \A g \in W : Members(tree, g) \subseteq W

Levels(tree, top) ==
    CHOOSE f : f = [n \in 0..Cardinality(ObjectId) |->
        IF n = 0 THEN Members(tree, top)
        ELSE f[n - 1] \cup UNION {Members(tree, g) : g \in f[n - 1] \cap ObjectId}]

UnderIn(tree, top) == Levels(tree, top)[Cardinality(ObjectId)]

LEMMA UnderIsIn ==
    /\ \A top : Under(top, ObjectId) = UnderIn(children, top)
    /\ Walked = UnderIn(children, Zero) /\ Walked' = UnderIn(children', Zero)
  BY DEF Walked, Under, UnderIn, Levels, Members, Rows, RowsIn

LEMMA SoundIsTyped ==
    ASSUME NEW objs, NEW at, NEW tree, NEW strays, Sound(objs, at, tree, strays)
    PROVE  TreeTyped(tree) /\ \A g : g \notin Parent => Members(tree, g) = {}
  BY DEF Sound, Kept, NoOthers, RowsIn, RowSet, TreeTyped, Members

LEMMA LevelsAre ==
    ASSUME NEW tree, TreeTyped(tree), NEW top
    PROVE  /\ Levels(tree, top) \in [0..Cardinality(ObjectId) -> SUBSET ObjectId]
           /\ Levels(tree, top)[0] = Members(tree, top)
           /\ \A n \in 1..Cardinality(ObjectId) :
                Levels(tree, top)[n] = Levels(tree, top)[n - 1]
                                    \cup UNION {Members(tree, g) : g \in Levels(tree, top)[n - 1]}
  <1> DEFINE N == Cardinality(ObjectId)
             X == SUBSET ObjectId
             first == Members(tree, top)
             step == [s \in X |-> s \cup UNION {Members(tree, g) : g \in s}]
             Level(f) == [n \in 0..N |->
                IF n = 0 THEN Members(tree, top)
                ELSE f[n - 1] \cup UNION {Members(tree, g) : g \in f[n - 1] \cap ObjectId}]
  <1>0. N \in Nat
    BY OrderAssumption, FS_CardinalityType
  <1>1. step \in [X -> X] /\ first \in X
    BY DEF TreeTyped
  <1>2. PICK f \in [0..N -> X] : Iterated(f, first, step, N)
    <2> HIDE DEF step, X, N, first
    <2> QED
      BY <1>0, <1>1, Iterates
  <1>3. ASSUME NEW s \in X
        PROVE  step[s] = s \cup UNION {Members(tree, g) : g \in s \cap ObjectId}
    <2>1. s \cap ObjectId = s
      OBVIOUS
    <2> QED
      BY <2>1
  <1>4. \A n \in 0..N : n # 0 => n - 1 \in 0..N /\ f[n - 1] \in X
    <2>1. \A n \in 0..N : n # 0 => n - 1 \in 0..N
      BY <1>0
    <2> HIDE DEF X, N, step, first
    <2> QED
      BY <1>2, <2>1
  <1>5. f = Level(f)
    <2>1. \A n \in 0..N : f[n] = IF n = 0 THEN Members(tree, top) ELSE step[f[n - 1]]
      BY <1>2 DEF Iterated
    <2>2. \A n \in 0..N : f[n] = Level(f)[n]
      <3> HIDE DEF step
      <3> QED
        BY <1>3, <1>4, <2>1
    <2> QED
      BY <1>2, <2>2
  <1>6. Levels(tree, top) = Level(Levels(tree, top))
    <2> HIDE DEF Level
    <2>1. Levels(tree, top) = CHOOSE g : g = Level(g)
      BY DEF Levels, Level
    <2> QED
      BY <1>5, <2>1
  <1> DEFINE L == Levels(tree, top)
  <1>7. L[0] = Members(tree, top)
    <2> HIDE DEF L
    <2>1. L = Level(L) /\ 0 \in 0..N
      <3> HIDE DEF Level, N
      <3> QED
        BY <1>0, <1>6 DEF L
    <2> QED
      BY <2>1
  <1>8. \A n \in 1..N : L[n - 1] \in X =>
          L[n] = L[n - 1] \cup UNION {Members(tree, g) : g \in L[n - 1]}
    <2> SUFFICES ASSUME NEW n \in 1..N, L[n - 1] \in X
                 PROVE  L[n] = L[n - 1] \cup UNION {Members(tree, g) : g \in L[n - 1]}
      OBVIOUS
    <2>1. L[n] = L[n - 1] \cup UNION {Members(tree, g) : g \in L[n - 1] \cap ObjectId}
      <3> HIDE DEF L
      <3>1. L = Level(L) /\ n \in 0..N /\ n # 0
        <4> HIDE DEF Level, N
        <4> QED
          BY <1>0, <1>6 DEF L
      <3> QED
        BY <3>1
    <2> QED
      BY <1>3, <2>1
  <1>9. \A n \in 0..N : L[n] \in X
    <2> DEFINE T == {n \in Nat : n \in 0..N => L[n] \in X}
    <2>1. 0 \in T
      BY <1>7 DEF TreeTyped
    <2>2. ASSUME NEW n \in T
          PROVE  n + 1 \in T
      <3> SUFFICES ASSUME n + 1 \in 0..N PROVE L[n + 1] \in X
        OBVIOUS
      <3>1. L[n] \in X /\ n + 1 \in 1..N /\ (n + 1) - 1 = n
        BY <1>0
      <3> QED
        BY <1>8, <3>1 DEF TreeTyped
    <2>3. T = Nat
      <3> HIDE DEF T
      <3>1. T \in SUBSET Nat
        BY DEF T
      <3> QED
        BY <2>1, <2>2, <3>1, NatUp
    <2> QED
      BY <2>3
  <1>10. L = [n \in 0..N |-> L[n]]
    <2> HIDE DEF L
    <2>1. L = Level(L)
      BY <1>6 DEF L
    <2> QED
      BY <2>1
  <1> QED
    <2>1. \A n \in 1..N : n - 1 \in 0..N
      BY <1>0
    <2> HIDE DEF L
    <2>2. L \in [0..N -> X]
      BY <1>9, <1>10
    <2> QED
      BY <1>7, <1>8, <1>9, <2>1, <2>2 DEF L

(* What is under a group is the least that has all members of the group and of itself: the
   levels grow until they do, and there are as many as objects. *)
LEMMA UnderIsLeast ==
    ASSUME NEW tree, TreeTyped(tree), NEW top
    PROVE  /\ UnderIn(tree, top) \subseteq ObjectId
           /\ Closed(tree, top, UnderIn(tree, top))
           /\ \A W \in SUBSET ObjectId : Closed(tree, top, W) => UnderIn(tree, top) \subseteq W
  <1> DEFINE N == Cardinality(ObjectId)
             L == Levels(tree, top)
             Full(n) == Closed(tree, top, L[n])
             Large(n) == Cardinality(L[n]) >= n
  <1>0. N \in Nat /\ IsFiniteSet(ObjectId)
    BY OrderAssumption, FS_CardinalityType
  <1>1. /\ L \in [0..N -> SUBSET ObjectId]
        /\ L[0] = Members(tree, top)
        /\ \A n \in 1..N : L[n] = L[n - 1] \cup UNION {Members(tree, g) : g \in L[n - 1]}
    BY LevelsAre
  <1> HIDE DEF L
  <1>2. ASSUME NEW n \in Nat, n + 1 \in 0..N
        PROVE  /\ n \in 0..N /\ L[n] \in SUBSET ObjectId /\ L[n + 1] \in SUBSET ObjectId
               /\ L[n + 1] = L[n] \cup UNION {Members(tree, g) : g \in L[n]}
    <2>1. n \in 0..N /\ n + 1 \in 1..N /\ (n + 1) - 1 = n
      BY <1>0, <1>2
    <2>2. L[n + 1] = L[(n + 1) - 1] \cup UNION {Members(tree, g) : g \in L[(n + 1) - 1]}
      BY <1>1, <2>1
    <2> QED
      BY <1>1, <1>2, <2>1, <2>2
  <1>3. UnderIn(tree, top) = L[N] /\ N \in 0..N /\ L[N] \in SUBSET ObjectId
    <2>1. N \in 0..N
      BY <1>0
    <2> QED
      BY <1>1, <2>1 DEF UnderIn, L
  <1>4. ASSUME NEW n \in 0..N, Members(tree, top) \subseteq L[n],
               UNION {Members(tree, g) : g \in L[n]} \subseteq L[n]
        PROVE  Full(n)
    BY <1>4 DEF Closed
  <1>5. Full(N)
    <2> DEFINE T == {n \in Nat : n \in 0..N => Members(tree, top) \subseteq L[n] /\ (Full(n) \/ Large(n))}
    <2>1. 0 \in T
      <3>1. Large(0)
        <4>1. IsFiniteSet(L[0])
          BY <1>0, <1>1, FS_Subset
        <4> QED
          BY <4>1, FS_CardinalityType
      <3> QED
        BY <1>1, <3>1
    <2>2. ASSUME NEW n \in T
          PROVE  n + 1 \in T
      <3> SUFFICES ASSUME n + 1 \in 0..N
                   PROVE  Members(tree, top) \subseteq L[n + 1] /\ (Full(n + 1) \/ Large(n + 1))
        OBVIOUS
      <3>1. /\ n \in 0..N /\ L[n] \in SUBSET ObjectId /\ L[n + 1] \in SUBSET ObjectId
            /\ L[n + 1] = L[n] \cup UNION {Members(tree, g) : g \in L[n]}
        BY <1>2
      <3>2. Members(tree, top) \subseteq L[n] /\ (Full(n) \/ Large(n))
        BY <3>1
      <3>3. CASE Full(n)
        <4>1. \A g \in L[n] : Members(tree, g) \subseteq L[n]
          BY <3>3 DEF Closed
        <4>2. L[n + 1] = L[n]
          BY <3>1, <4>1
        <4> QED
          BY <3>2, <3>3, <4>2
      <3>4. CASE ~Full(n)
        <4>1. L[n + 1] # L[n]
          <5> SUFFICES ASSUME L[n + 1] = L[n] PROVE FALSE
            OBVIOUS
          <5>1. UNION {Members(tree, g) : g \in L[n]} \subseteq L[n]
            BY <3>1
          <5> QED
            BY <1>4, <3>1, <3>2, <3>4, <5>1
        <4>2. IsFiniteSet(L[n]) /\ IsFiniteSet(L[n + 1])
          BY <1>0, <3>1, FS_Subset
        <4>3. L[n] \subseteq L[n + 1]
          BY <3>1
        <4>4. Cardinality(L[n]) < Cardinality(L[n + 1])
          BY <4>1, <4>2, <4>3, PartIsSmaller
        <4>5. Cardinality(L[n]) \in Nat /\ Cardinality(L[n + 1]) \in Nat
          BY <4>2, FS_CardinalityType
        <4>6. Large(n + 1)
          BY <3>2, <3>4, <4>4, <4>5
        <4> QED
          BY <3>2, <4>3, <4>6
      <3> QED
        BY <3>3, <3>4
    <2>3. T = Nat
      <3> HIDE DEF T
      <3>1. T \in SUBSET Nat
        BY DEF T
      <3> QED
        BY <2>1, <2>2, <3>1, NatUp
    <2>4. Full(N) \/ Large(N)
      BY <1>0, <1>3, <2>3
    <2>5. CASE Large(N)
      <3>1. IsFiniteSet(L[N]) /\ Cardinality(L[N]) \in Nat
        BY <1>0, <1>3, FS_Subset, FS_CardinalityType
      <3>2. L[N] = ObjectId
        <4> SUFFICES ASSUME L[N] # ObjectId PROVE FALSE
          OBVIOUS
        <4>1. Cardinality(L[N]) < Cardinality(ObjectId)
          BY <1>0, <1>3, PartIsSmaller
        <4> QED
          BY <2>5, <3>1, <1>0, <4>1
      <3> QED
        BY <3>2 DEF Closed, TreeTyped
    <2> QED
      BY <2>4, <2>5
  <1>6. ASSUME NEW W \in SUBSET ObjectId, Closed(tree, top, W)
        PROVE  L[N] \subseteq W
    <2> DEFINE T == {n \in Nat : n \in 0..N => L[n] \subseteq W}
    <2>1. \A g \in W : Members(tree, g) \subseteq W
      BY <1>6 DEF Closed
    <2>2. 0 \in T
      BY <1>1, <1>6 DEF Closed
    <2>3. ASSUME NEW n \in T
          PROVE  n + 1 \in T
      <3> SUFFICES ASSUME n + 1 \in 0..N PROVE L[n + 1] \subseteq W
        OBVIOUS
      <3>1. n \in 0..N /\ L[n + 1] = L[n] \cup UNION {Members(tree, g) : g \in L[n]}
        BY <1>2
      <3>2. L[n] \subseteq W
        BY <3>1
      <3> QED
        BY <2>1, <3>1, <3>2
    <2>4. T = Nat
      <3> HIDE DEF T
      <3>1. T \in SUBSET Nat
        BY DEF T
      <3> QED
        BY <2>2, <2>3, <3>1, NatUp
    <2> QED
      BY <1>0, <1>3, <2>4
  <1> QED
    BY <1>3, <1>5, <1>6

(* A row that goes takes only what is under it out of the list. *)
LEMMA CutOff ==
    ASSUME NEW tree, TreeTyped(tree), NEW tree2, TreeTyped(tree2), NEW a \in ObjectId,
           \A g : Members(tree, g) \subseteq Members(tree2, g) \cup {a},
           NEW o \in UnderIn(tree, Zero) \ UnderIn(tree2, Zero)
    PROVE  o = a \/ o \in UnderIn(tree, a)
  <1> DEFINE V == UnderIn(tree2, Zero)
             B == UnderIn(tree, a)
             Z == V \cup {a} \cup B
  <1>1. V \subseteq ObjectId /\ Closed(tree2, Zero, V)
    BY UnderIsLeast
  <1>2. B \subseteq ObjectId /\ Closed(tree, a, B)
    BY UnderIsLeast
  <1> HIDE DEF V, B
  <1>3. Closed(tree, Zero, Z)
    <2>1. Members(tree, Zero) \subseteq Z
      BY <1>1 DEF Closed
    <2>2. ASSUME NEW g \in Z
          PROVE  Members(tree, g) \subseteq Z
      <3>1. CASE g \in V
        BY <1>1, <3>1 DEF Closed
      <3>2. CASE g = a
        BY <1>2, <3>2 DEF Closed
      <3>3. CASE g \in B
        BY <1>2, <3>3 DEF Closed
      <3> QED
        BY <2>2, <3>1, <3>2, <3>3
    <2> QED
      BY <2>1, <2>2 DEF Closed
  <1>4. Z \in SUBSET ObjectId
    BY <1>1, <1>2
  <1> HIDE DEF Z
  <1>5. UnderIn(tree, Zero) \subseteq Z
    BY <1>3, <1>4, UnderIsLeast
  <1> QED
    BY <1>5 DEF Z, V, B

(* If no row goes, nothing goes. *)
LEMMA NothingGoes ==
    ASSUME NEW tree, TreeTyped(tree), NEW tree2, TreeTyped(tree2),
           NEW W \in SUBSET ObjectId, W = UnderIn(tree2, Zero),
           \A g \in W \cup {Zero} : Members(tree, g) \subseteq Members(tree2, g) \cup W
    PROVE  UnderIn(tree, Zero) \subseteq W
  <1>1. Closed(tree2, Zero, W)
    BY UnderIsLeast
  <1>2. Closed(tree, Zero, W)
    BY <1>1 DEF Closed
  <1> QED
    BY <1>2, UnderIsLeast

(* A row that goes from one group to another takes something out of the list only when
   the other group is not in the list, or under the row. *)
LEMMA PutAway ==
    ASSUME NEW tree, TreeTyped(tree), NEW tree2, TreeTyped(tree2), NEW a \in ObjectId,
           NEW g0, NEW g1, a \in Members(tree2, g1),
           Members(tree, g0) \subseteq Members(tree2, g0) \cup {a},
           \A g : g # g0 => Members(tree, g) \subseteq Members(tree2, g),
           NEW o \in UnderIn(tree, Zero) \ UnderIn(tree2, Zero)
    PROVE  /\ o = a \/ o \in UnderIn(tree, a)
           /\ g1 \notin {g0, Zero}
           /\ g1 \notin UnderIn(tree, Zero) \/ g1 \in {a} \cup UnderIn(tree, a)
  <1> DEFINE W == UnderIn(tree2, Zero)
  <1>1. W \in SUBSET ObjectId /\ Closed(tree2, Zero, W)
    BY UnderIsLeast
  <1>2. \A g : Members(tree, g) \subseteq Members(tree2, g) \cup {a}
    OBVIOUS
  <1>3. ~(\A g \in W \cup {Zero} : Members(tree, g) \subseteq Members(tree2, g) \cup W)
    <2> SUFFICES ASSUME \A g \in W \cup {Zero} : Members(tree, g) \subseteq Members(tree2, g) \cup W
                 PROVE  FALSE
      OBVIOUS
    <2> HIDE DEF W
    <2>1. UnderIn(tree, Zero) \subseteq W
      BY <1>1, NothingGoes DEF W
    <2> QED
      BY <2>1 DEF W
  <1> HIDE DEF W
  <1>4. a \notin W /\ g0 \in W \cup {Zero}
    BY <1>3
  <1>5. g1 \notin W \cup {Zero}
    BY <1>1, <1>4 DEF Closed
  <1>6. \A p \in UnderIn(tree, Zero) : p \in W \/ p = a \/ p \in UnderIn(tree, a)
    BY <1>2, CutOff DEF W
  <1> QED
    BY <1>4, <1>5, <1>6 DEF W

(* Each way the rows change in a step. *)
Gone(a) == RemoveObject(a) \/ (a \in Foreign /\ PeersLeave)

PutOff(a) ==
    /\ a \in Live
    /\ objects'[a].group \notin {objects[a].group, Zero}
    /\ objects'[a].group \notin Walked \/ objects'[a].group \in {a} \cup Under(a, ObjectId)

Caused(o) == \E a \in ObjectId : (o = a \/ o \in Under(a, ObjectId)) /\ (Gone(a) \/ PutOff(a))

LEMMA TreesTyped ==
    ASSUME SoundNow, SoundNow'
    PROVE  /\ TreeTyped(children) /\ TreeTyped(children')
           /\ \A g : g \notin Parent => Members(children, g) = {} /\ RowsIn(children, g) = {}
                                         /\ RowsIn(children', g) = {}
  <1>1. Sound(objects, noted, children, astray) /\ Sound(objects', noted', children', astray')
    BY DEF SoundNow
  <1> QED
    BY <1>1, SoundIsTyped DEF Sound, Kept, RowsIn

LEMMA GrowsOnly ==
    ASSUME SoundNow, SoundNow', \A g : RowsIn(children, g) \subseteq RowsIn(children', g)
    PROVE  Walked \subseteq Walked'
  <1>1. TreeTyped(children) /\ TreeTyped(children')
    BY TreesTyped
  <1>2. \A g : Members(children, g) \subseteq Members(children', g)
    BY DEF Members
  <1> DEFINE W == UnderIn(children', Zero)
  <1>3. W \in SUBSET ObjectId
    BY <1>1, UnderIsLeast
  <1>4. UnderIn(children, Zero) \subseteq W
    <2> HIDE DEF W
    <2> QED
      BY <1>1, <1>2, <1>3, NothingGoes DEF W
  <1> QED
    BY <1>4, UnderIsIn

LEMMA RelocateCauses ==
    ASSUME SoundNow, SoundNow', NEW a \in Live, NEW ob \in Object,
           objects' = [objects EXCEPT ![a] = ob], Relocate(a, PlaceOf(ob)),
           NEW o \in Walked \ Walked'
    PROVE  Caused(o)
  <1> DEFINE g0 == noted[a].group
             g1 == ob.group
  <1>1. a \in ObjectId /\ g0 = objects[a].group /\ g0 \in Parent /\ objects'[a] = ob /\ g1 \in Parent
    BY ObjectsTyped, PlacesOf DEF SoundNow, Sound
  <1>2. TreeTyped(children) /\ TreeTyped(children')
    BY TreesTyped
  <1>3. ASSUME NEW g \in Parent, NEW r
        PROVE  r \in RowsIn(children', g) <=>
                 \/ g = g1 /\ r = <<ob.sort, a>>
                 \/ r \in RowsIn(children, g) /\ ~(g = g0 /\ r = <<noted[a].sort, a>>)
    BY RelocatedRows
  <1>4. a \in Members(children', g1)
    <2>1. <<ob.sort, a>> \in RowsIn(children', g1)
      BY <1>1, <1>3
    <2>2. <<ob.sort, a>>[2] = a
      OBVIOUS
    <2> QED
      BY <2>1, <2>2 DEF Members
  <1>5. ASSUME NEW g
        PROVE  Members(children, g) \subseteq Members(children', g) \cup (IF g = g0 THEN {a} ELSE {})
    <2> SUFFICES ASSUME NEW r \in RowsIn(children, g)
                 PROVE  r[2] \in Members(children', g) \cup (IF g = g0 THEN {a} ELSE {})
      BY DEF Members
    <2>1. g \in Parent
      BY TreesTyped
    <2>2. CASE g = g0 /\ r = <<noted[a].sort, a>>
      BY <2>2
    <2>3. CASE ~(g = g0 /\ r = <<noted[a].sort, a>>)
      <3>1. r \in RowsIn(children', g)
        BY <1>3, <2>1, <2>3
      <3> QED
        BY <3>1 DEF Members
    <2> QED
      BY <2>2, <2>3
  <1>6. o \in UnderIn(children, Zero) \ UnderIn(children', Zero)
    BY UnderIsIn
  <1>7. /\ o = a \/ o \in UnderIn(children, a)
        /\ g1 \notin {g0, Zero}
        /\ g1 \notin UnderIn(children, Zero) \/ g1 \in {a} \cup UnderIn(children, a)
    <2>1. Members(children, g0) \subseteq Members(children', g0) \cup {a}
      BY <1>5
    <2>2. \A g : g # g0 => Members(children, g) \subseteq Members(children', g)
      BY <1>5
    <2> HIDE DEF g0, g1
    <2> QED
      BY <1>1, <1>2, <1>4, <1>6, <2>1, <2>2, PutAway
  <1>8. PutOff(a)
    BY <1>1, <1>7, UnderIsIn DEF PutOff
  <1> QED
    BY <1>1, <1>7, <1>8, UnderIsIn DEF Caused

LEMMA RemoveCauses ==
    ASSUME SoundNow, SoundNow', NEW a \in ObjectId, RemoveObject(a), NEW o \in Walked \ Walked'
    PROVE  Caused(o)
  <1>1. TreeTyped(children) /\ TreeTyped(children')
    BY TreesTyped
  <1>2. \A g : Members(children, g) \subseteq Members(children', g) \cup {a}
    <2> SUFFICES ASSUME NEW g, NEW r \in RowsIn(children, g)
                 PROVE  r[2] \in Members(children', g) \cup {a}
      BY DEF Members
    <2>1. CASE noted[a] = None
      BY <2>1 DEF RemoveObject, RemoveRow, Members
    <2>2. CASE noted[a] # None
      <3>1. noted[a].group \in Parent /\ g \in Parent /\ Kept(children)
        BY <2>2, PlacesAre, TreesTyped DEF SoundNow, Sound
      <3>2. children' = Drop(children, noted[a].group, <<noted[a].sort, a>>)
        BY <2>2 DEF RemoveObject, RemoveRow
      <3>3. r = <<noted[a].sort, a>> \/ r \in RowsIn(children', g)
        BY <3>1, <3>2, DropRows
      <3>4. r = <<noted[a].sort, a>> => r[2] = a
        OBVIOUS
      <3> QED
        BY <3>3, <3>4 DEF Members
    <2> QED
      BY <2>1, <2>2
  <1>3. o \in UnderIn(children, Zero) \ UnderIn(children', Zero)
    BY UnderIsIn
  <1>4. o = a \/ o \in UnderIn(children, a)
    BY <1>1, <1>2, <1>3, CutOff
  <1> QED
    BY <1>4, UnderIsIn DEF Caused, Gone

LEMMA LeaveCauses ==
    ASSUME SoundNow, SoundNow', PeersLeave, NEW o \in Walked \ Walked'
    PROVE  Caused(o)
  <1> DEFINE V == UnderIn(children', Zero)
             Z == V \cup Foreign
  <1>1. TreeTyped(children) /\ TreeTyped(children')
    BY TreesTyped
  <1>2. V \subseteq ObjectId /\ Closed(children', Zero, V)
    BY <1>1, UnderIsLeast
  <1>3. \A g : Members(children, g) \subseteq Members(children', g) \cup Foreign
    <2>1. \A g : \A r \in RowsIn(children, g) : r[2] \in Foreign \/ r \in RowsIn(children', g)
      BY DEF PeersLeave, RowsIn
    <2> QED
      BY <2>1 DEF Members
  <1>4. \A g \in Foreign : Members(children, g) = {}
    <2>1. \A g \in Foreign : g \notin Parent
      BY OrderAssumption DEF Parent, ObjectId
    <2> QED
      BY <2>1, TreesTyped
  <1> HIDE DEF V
  <1>5. Closed(children, Zero, Z)
    BY <1>2, <1>3, <1>4 DEF Closed
  <1>6. Z \in SUBSET ObjectId
    BY <1>2 DEF ObjectId
  <1> HIDE DEF Z
  <1>7. UnderIn(children, Zero) \subseteq Z
    BY <1>1, <1>5, <1>6, UnderIsLeast
  <1>8. o \in Foreign
    BY <1>7, UnderIsIn DEF Z, V
  <1> QED
    BY <1>8 DEF Caused, Gone, ObjectId

LEMMA InsertGrows ==
    ASSUME SoundNow, NEW o \in ObjectId, NEW at, at.group \in Parent, Insert(o, at), NEW g
    PROVE  RowsIn(children, g) \subseteq RowsIn(children', g)
  <1>1. Kept(children) /\ children' = Put(children, at.group, <<at.sort, o>>)
    BY DEF SoundNow, Sound, Insert
  <1>2. CASE g \in Parent
    BY <1>1, <1>2, PutRows
  <1>3. CASE g \notin Parent
    BY <1>1, <1>3 DEF Kept, RowsIn
  <1> QED
    BY <1>2, <1>3

(* Whatever is nested in what, however deep, and whatever rows are left over: a row goes from
   the list only when it, or a group above it, is removed, or is put where the list does not
   reach. What is walked is the least set with the ids in the rows of the top and of its own
   groups; what a step leaves in place stays in it, and what is put into a group of the list
   stays in it, unless the group is under it. *)
THEOREM GoneWithACause == Spec => VanishesWith
  <1> DEFINE A == \A o \in Walked \ Walked' : Caused(o)
  <1>1. OInv /\ [Next]_vars => [A]_vars
    <2> SUFFICES ASSUME OInv, [Next]_vars, NEW o \in Walked \ Walked' PROVE Caused(o)
      OBVIOUS
    <2>0. SoundNow /\ SoundNow'
      BY ONext DEF OInv
    <2>s. children' # children
      BY UnderIsIn
    <2>g. ASSUME \A g : RowsIn(children, g) \subseteq RowsIn(children', g)
          PROVE  Caused(o)
      BY <2>0, <2>g, GrowsOnly
    <2>1. ASSUME NEW p \in ObjectId, ObjectCreated(p) \/ (\E s \in OtherSorts : ObjectAgain(p, s))
          PROVE  Caused(o)
      <3>1. PICK s : Insert(p, [group |-> Zero, sort |-> s])
        BY <2>1 DEF ObjectCreated, ObjectAgain
      <3>2. Zero \in Parent
        BY DEF Parent
      <3> DEFINE at == [group |-> Zero, sort |-> s]
      <3>3. at.group \in Parent /\ Insert(p, at)
        BY <3>1, <3>2
      <3> HIDE DEF at
      <3> QED
        BY <2>0, <2>g, <3>3, InsertGrows
    <2>2. ASSUME NEW p \in ObjectId, Initialize(p)
          PROVE  Caused(o)
      <3>1. \A g \in DOMAIN children : g \in DOMAIN children' /\ children[g] \subseteq children'[g]
        BY <2>2 DEF Initialize, InsertAll, Rows
      <3> QED
        BY <2>g, <3>1 DEF RowsIn
    <2>3. ASSUME NEW p \in ObjectId, RemoveObject(p)
          PROVE  Caused(o)
      BY <2>0, <2>3, RemoveCauses
    <2>4. CASE PeersLeave
      BY <2>0, <2>4, LeaveCauses
    <2>5. CASE DropOn(dragged, dragOver)
      BY <2>0, <2>5, DropIsMove, RelocateCauses
    <2>6. ASSUME NEW p \in ObjectId, NEW g \in Parent, UpdateGroup(p, g)
          PROVE  Caused(o)
      <3> DEFINE ob == [objects[p] EXCEPT !.group = g]
      <3>1. p \in Live /\ objects[p] \in Object /\ noted[p] = PlaceOf(objects[p]) /\ noted[p] # None
        BY <2>0, <2>6, ObjectsTyped DEF UpdateGroup
      <3>2. ob \in Object /\ PlaceOf(ob) = [noted[p] EXCEPT !.group = g]
        BY <3>1 DEF Object, PlaceOf
      <3>3. objects' = [objects EXCEPT ![p] = ob] /\ Relocate(p, PlaceOf(ob))
        BY <2>6, <3>1, <3>2 DEF UpdateGroup
      <3> HIDE DEF ob
      <3> QED
        BY <2>0, <3>1, <3>2, <3>3, RelocateCauses
    <2>7. ASSUME NEW p \in ObjectId, NEW s \in OtherSorts, UpdateSort(p, s)
          PROVE  Caused(o)
      <3> DEFINE ob == [objects[p] EXCEPT !.sort = s]
      <3>0. s \in Sort
        BY <2>7, OtherSortsTyped
      <3>1. p \in Live /\ objects[p] \in Object /\ noted[p] = PlaceOf(objects[p]) /\ noted[p] # None
        BY <2>0, <2>7, ObjectsTyped DEF UpdateSort
      <3>2. ob \in Object /\ PlaceOf(ob) = [noted[p] EXCEPT !.sort = s]
        BY <3>0, <3>1 DEF Object, PlaceOf
      <3>3. objects' = [objects EXCEPT ![p] = ob] /\ Relocate(p, PlaceOf(ob))
        BY <2>7, <3>1, <3>2 DEF UpdateSort
      <3> HIDE DEF ob
      <3> QED
        BY <2>0, <3>1, <3>2, <3>3, RelocateCauses
    <2>8. ASSUME \/ \E p \in ObjectId : ToggleLocked(p) \/ ToggleExpanded(p)
                 \/ \E d \in Targets : DragStart(d) \/ DragOver(d)
                 \/ DropNowhere \/ DropForever \/ CloseModal
          PROVE  FALSE
      BY <2>s, <2>8 DEF ToggleLocked, ToggleExpanded, DragStart, DragOver, DropNowhere, DropForever,
         CloseModal, treeVars
    <2>9. CASE UNCHANGED vars
      BY <2>s, <2>9 DEF vars
    <2> QED
      BY <2>1, <2>2, <2>3, <2>4, <2>5, <2>6, <2>7, <2>8, <2>9 DEF Next
  <1>2. A => \A o \in Walked \ Walked' :
               \E a \in ObjectId :
                 /\ o = a \/ o \in Under(a, ObjectId)
                 /\ \/ RemoveObject(a) \/ (a \in Foreign /\ PeersLeave)
                    \/ /\ a \in Live
                       /\ objects'[a].group \notin {objects[a].group, Zero}
                       /\ \/ objects'[a].group \notin Walked
                          \/ objects'[a].group \in {a} \cup Under(a, ObjectId)
    BY DEF Caused, Gone, PutOff
  <1>3. OInv /\ [Next]_vars =>
          [\A o \in Walked \ Walked' :
               \E a \in ObjectId :
                 /\ o = a \/ o \in Under(a, ObjectId)
                 /\ \/ RemoveObject(a) \/ (a \in Foreign /\ PeersLeave)
                    \/ /\ a \in Live
                       /\ objects'[a].group \notin {objects[a].group, Zero}
                       /\ \/ objects'[a].group \notin Walked
                          \/ objects'[a].group \in {a} \cup Under(a, ObjectId)]_vars
    BY <1>1, <1>2
  <1> QED
    BY <1>3, OInit, ONext, PTL DEF Spec, VanishesWith
=============================================================================
