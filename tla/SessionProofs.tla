--------------------------- MODULE SessionProofs ---------------------------
(***************************************************************************)
(* Proofs about Session, for any objects, properties and entries of        *)
(* connections, and any number of changes and losses.                      *)
(*                                                                         *)
(* What the server makes of a sequence of frames is a fold (HandleAll), so *)
(* the proofs rest on what it makes of two sequences one after the other,  *)
(* and on what it makes of a drain of the sets (Drained), which says of    *)
(* each object and key where its value comes from.                         *)
(***************************************************************************)
EXTENDS Session, SequenceTheorems, FiniteSetTheorems, WellFoundedInduction, TLAPS

-----------------------------------------------------------------------------
(* What the proofs below need of numbers and sequences. Induction is over a
   set of numbers, which a prover can be given, not over a predicate. *)

(* Numbers are well-founded: among some of them is a least. *)
LessThan == {pair \in Nat \X Nat : pair[1] < pair[2]}

LEMMA NatMin ==
    ASSUME NEW T \in SUBSET Nat, T # {}
    PROVE  \E n \in T : \A m \in T : n <= m
  <1>1. IsWellFoundedOn(LessThan, Nat)
    BY NatLessThanWellFounded, Zenon DEF OpToRel, LessThan
  <1>2. PICK n \in T : \A m \in T : <<m, n>> \notin LessThan
    BY <1>1, WFMin
  <1>3. \A m \in T : ~(m < n)
    BY <1>2 DEF LessThan
  <1> QED
    BY <1>3

(* What holds of zero and goes on from each number to the next holds of all. *)
LEMMA NatUp ==
    ASSUME NEW T \in SUBSET Nat, 0 \in T, \A n \in T : n + 1 \in T
    PROVE  T = Nat
  <1> SUFFICES ASSUME Nat \ T # {} PROVE FALSE
    OBVIOUS
  <1>1. PICK n \in Nat \ T : \A m \in Nat \ T : n <= m
    <2>1. Nat \ T \in SUBSET Nat
      OBVIOUS
    <2> QED
      BY <2>1, NatMin
  <1>2. n # 0 /\ n - 1 \in Nat
    BY <1>1
  <1>3. n - 1 \in T
    BY <1>1, <1>2
  <1>4. (n - 1) + 1 \in T
    BY <1>3
  <1> QED
    BY <1>1, <1>4

(* What holds of no element and goes on from a sequence to one element more holds of all. *)
LEMMA SeqUp ==
    ASSUME NEW S, NEW T \in SUBSET Seq(S), <<>> \in T,
           \A s \in T, x \in S : Append(s, x) \in T
    PROVE  T = Seq(S)
  <1> DEFINE N == {n \in Nat : \A s \in Seq(S) : Len(s) = n => s \in T}
  <1>1. 0 \in N
    BY EmptySeq
  <1>2. ASSUME NEW n \in N
        PROVE  n + 1 \in N
    <2> SUFFICES ASSUME NEW s \in Seq(S), Len(s) = n + 1 PROVE s \in T
      OBVIOUS
    <2>1. PICK t \in Seq(S), x \in S : s = Append(t, x)
      <3>1. s # <<>>
        BY EmptySeq
      <3> QED
        BY <3>1, SequenceEmptyOrAppend
    <2>2. Len(t) = n
      BY <2>1, AppendProperties
    <2>3. t \in T
      BY <1>2, <2>2
    <2> QED
      BY <2>1, <2>3
  <1>3. N = Nat
    BY <1>1, <1>2, NatUp
  <1>4. \A s \in Seq(S) : Len(s) \in N
    BY <1>3
  <1> QED
    BY <1>4

(* Sequences and their elements. *)
LEMMA ElementOf ==
    \A S : \A s \in Seq(S) :
        DOMAIN s = 1..Len(s) /\ Len(s) \in Nat /\ \A i \in 1..Len(s) : s[i] \in S
  OBVIOUS

LEMMA SeqFrom ==
    \A S : \A n \in Nat : \A s \in [1..n -> S] : s \in Seq(S) /\ Len(s) = n
  OBVIOUS

LEMMA SeqWider ==
    ASSUME NEW S, NEW T, S \subseteq T
    PROVE  Seq(S) \subseteq Seq(T)
  <1> SUFFICES ASSUME NEW s \in Seq(S) PROVE s \in Seq(T)
    OBVIOUS
  <1>1. s \in [1..Len(s) -> T] /\ Len(s) \in Nat
    <2>1. s = [i \in 1..Len(s) |-> s[i]] /\ Len(s) \in Nat
      OBVIOUS
    <2>2. \A i \in 1..Len(s) : s[i] \in T
      BY ElementOf
    <2> QED
      BY <2>1, <2>2
  <1> QED
    BY <1>1, SeqFrom

(* The sequence of a finite set has its members, each once. *)
LEMMA SeqOfSet ==
    ASSUME NEW S, IsFiniteSet(S)
    PROVE  /\ SetToSeq(S) \in Seq(S)
           /\ \A x \in S : \E i \in 1..Len(SetToSeq(S)) : SetToSeq(S)[i] = x
           /\ \A i, j \in 1..Len(SetToSeq(S)) : SetToSeq(S)[i] = SetToSeq(S)[j] => i = j
  <1> DEFINE n == Cardinality(S)
             s == SetToSeq(S)
  <1>1. n \in Nat
    BY FS_CardinalityType
  <1>2. ExistsBijection(1..n, S)
    BY FS_CardinalityType
  <1>3. PICK g : g \in [1..n -> S] /\ IsInjective(g)
    BY <1>2 DEF ExistsBijection, Bijection, Injection, IsInjective
  <1>4. s \in [1..n -> S] /\ IsInjective(s)
    BY <1>3 DEF SetToSeq
  <1> HIDE DEF s, n
  <1>5. s \in Seq(S) /\ Len(s) = n
    BY <1>1, <1>4
  <1>6. s \in Injection(1..n, S)
    BY <1>4 DEF Injection
  <1>7. Cardinality(1..n) = n
    BY <1>1, FS_Interval
  <1>8. s \in Surjection(1..n, S)
    BY <1>6, <1>7, FS_Injection DEF n
  <1>9. \A x \in S : \E i \in 1..n : s[i] = x
    BY <1>8 DEF Surjection
  <1>10. \A i, j \in 1..n : s[i] = s[j] => i = j
    <2>1. DOMAIN s = 1..n
      BY <1>4
    <2> QED
      BY <1>4, <2>1, Zenon DEF IsInjective
  <1>11. s \in Seq(S) /\ (\A x \in S : \E i \in 1..Len(s) : s[i] = x)
         /\ (\A i, j \in 1..Len(s) : s[i] = s[j] => i = j)
    BY <1>5, <1>9, <1>10
  <1> QED
    BY <1>11 DEF s

(* A sequence of sequences, one after the other. *)
Chained(f, seqs, n) ==
    f = [i \in 1..n |-> IF i = 1 THEN seqs[i] ELSE f[i - 1] \o seqs[i]]

LEMMA ChainedOnce ==
    ASSUME NEW seqs, NEW n \in Nat, NEW f, NEW g, Chained(f, seqs, n), Chained(g, seqs, n)
    PROVE  f = g
  <1> DEFINE T == {m \in Nat : m \in 1..n => f[m] = g[m]}
  <1>1. 0 \in T
    OBVIOUS
  <1>2. ASSUME NEW m \in T
        PROVE  m + 1 \in T
    <2> SUFFICES ASSUME m + 1 \in 1..n PROVE f[m + 1] = g[m + 1]
      OBVIOUS
    <2>1. f[m + 1] = (IF m + 1 = 1 THEN seqs[m + 1] ELSE f[(m + 1) - 1] \o seqs[m + 1])
      BY DEF Chained
    <2>2. g[m + 1] = (IF m + 1 = 1 THEN seqs[m + 1] ELSE g[(m + 1) - 1] \o seqs[m + 1])
      BY DEF Chained
    <2>3. m # 0 => f[m] = g[m]
      BY <1>2
    <2> QED
      BY <2>1, <2>2, <2>3
  <1>3. T = Nat
    BY <1>1, <1>2, NatUp
  <1>4. \A m \in 1..n : f[m] = g[m]
    BY <1>3
  <1>5. f = [i \in 1..n |-> f[i]] /\ g = [i \in 1..n |-> g[i]]
    BY DEF Chained
  <1> QED
    BY <1>4, <1>5

LEMMA ChainExists ==
    ASSUME NEW seqs, NEW n \in Nat
    PROVE  \E f : Chained(f, seqs, n)
  <1> DEFINE T == {m \in Nat : \E f : Chained(f, seqs, m)}
  <1>1. 0 \in T
    <2>1. Chained([i \in 1..0 |-> 0], seqs, 0)
      BY DEF Chained
    <2> QED
      BY <2>1
  <1>2. ASSUME NEW m \in T
        PROVE  m + 1 \in T
    <2>1. PICK f : Chained(f, seqs, m)
      BY <1>2
    <2> DEFINE end == IF m + 1 = 1 THEN seqs[m + 1] ELSE f[m] \o seqs[m + 1]
               g == [i \in 1..m + 1 |-> IF i = m + 1 THEN end ELSE f[i]]
    <2>2. ASSUME NEW i \in 1..m + 1
          PROVE  g[i] = IF i = 1 THEN seqs[i] ELSE g[i - 1] \o seqs[i]
      <3>1. CASE i = m + 1
        <4>1. i # 1 => g[i - 1] = f[m]
          BY <3>1
        <4> QED
          BY <3>1, <4>1
      <3>2. CASE i # m + 1
        <4>1. i \in 1..m
          BY <3>2
        <4>2. f[i] = IF i = 1 THEN seqs[i] ELSE f[i - 1] \o seqs[i]
          BY <2>1, <4>1 DEF Chained
        <4>3. g[i] = f[i] /\ (i # 1 => g[i - 1] = f[i - 1])
          BY <4>1
        <4> QED
          BY <4>2, <4>3
      <3> QED
        BY <3>1, <3>2
    <2>3. g = [i \in 1..m + 1 |-> g[i]]
      OBVIOUS
    <2> HIDE DEF g
    <2>4. Chained(g, seqs, m + 1)
      BY <2>2, <2>3 DEF Chained
    <2> QED
      BY <2>4
  <1>3. T = Nat
    BY <1>1, <1>2, NatUp
  <1> QED
    BY <1>3

(* FlattenSeq, without its recursion. *)
LEMMA FlattenIs ==
    ASSUME NEW seqs, NEW n \in Nat \ {0}, Len(seqs) = n, NEW f, Chained(f, seqs, n)
    PROVE  FlattenSeq(seqs) = f[n]
  <1>1. \A g : Chained(g, seqs, n) => g = f
    BY ChainedOnce
  <1> DEFINE h == CHOOSE g : Chained(g, seqs, n)
  <1>2. h = f
    BY <1>1
  <1>3. FlattenSeq(seqs) = h[n]
    BY DEF FlattenSeq, Chained
  <1> QED
    BY <1>2, <1>3

LEMMA FlattenEmpty == FlattenSeq(<<>>) = <<>>
  BY DEF FlattenSeq

LEMMA FlattenAppend ==
    ASSUME NEW S, NEW seqs \in Seq(Seq(S)), NEW s \in Seq(S)
    PROVE  FlattenSeq(Append(seqs, s)) = FlattenSeq(seqs) \o s
  <1> DEFINE n == Len(seqs)
             more == Append(seqs, s)
  <1>1. n \in Nat /\ Len(more) = n + 1 /\ more[n + 1] = s /\ \A i \in 1..n : more[i] = seqs[i]
    OBVIOUS
  <1> HIDE DEF more, n
  <1>2. PICK f : Chained(f, more, n + 1)
    <2>1. n + 1 \in Nat
      BY <1>1
    <2> QED
      BY <2>1, ChainExists
  <1>3. FlattenSeq(more) = f[n + 1]
    BY <1>1, <1>2, FlattenIs
  <1>4. CASE n = 0
    <2>1. seqs = <<>>
      BY <1>4 DEF n
    <2>2. f[n + 1] = s
      BY <1>1, <1>2, <1>4 DEF Chained
    <2> QED
      BY <1>3, <2>1, <2>2, FlattenEmpty DEF more
  <1>5. CASE n # 0
    <2> DEFINE g == [i \in 1..n |-> f[i]]
    <2>1. ASSUME NEW i \in 1..n
          PROVE  g[i] = IF i = 1 THEN seqs[i] ELSE g[i - 1] \o seqs[i]
      <3>1. f[i] = IF i = 1 THEN more[i] ELSE f[i - 1] \o more[i]
        <4>1. i \in 1..n + 1
          BY <1>1
        <4> QED
          BY <1>2, <4>1 DEF Chained
      <3>2. i # 1 => i - 1 \in 1..n
        BY <1>1
      <3> QED
        BY <1>1, <3>1, <3>2
    <2>2. g = [i \in 1..n |-> g[i]]
      OBVIOUS
    <2>3. g[n] = f[n]
      BY <1>1, <1>5
    <2> HIDE DEF g
    <2>4. Chained(g, seqs, n)
      BY <2>1, <2>2 DEF Chained
    <2>5. FlattenSeq(seqs) = g[n]
      BY <1>1, <1>5, <2>4, FlattenIs DEF n
    <2>6. f[n + 1] = f[(n + 1) - 1] \o more[n + 1]
      <3>1. n + 1 \in 1..n + 1 /\ n + 1 # 1
        BY <1>1, <1>5
      <3> QED
        BY <1>2, <3>1 DEF Chained
    <2>7. f[n + 1] = f[n] \o s
      <3>1. (n + 1) - 1 = n
        BY <1>1
      <3> QED
        BY <1>1, <2>6, <3>1
    <2> QED
      BY <1>3, <2>3, <2>5, <2>7 DEF more
  <1> QED
    BY <1>4, <1>5

(* It has the elements of all of them, and no others. *)
LEMMA FlattenHas ==
    ASSUME NEW S, NEW seqs \in Seq(Seq(S))
    PROVE  /\ FlattenSeq(seqs) \in Seq(S)
           /\ \A i \in 1..Len(FlattenSeq(seqs)) :
                \E n \in 1..Len(seqs) : \E j \in 1..Len(seqs[n]) : FlattenSeq(seqs)[i] = seqs[n][j]
           /\ \A n \in 1..Len(seqs) : \A j \in 1..Len(seqs[n]) :
                \E i \in 1..Len(FlattenSeq(seqs)) : FlattenSeq(seqs)[i] = seqs[n][j]
  <1> DEFINE From(ss, t) ==
               \A i \in 1..Len(t) : \E n \in 1..Len(ss) : \E j \in 1..Len(ss[n]) : t[i] = ss[n][j]
             Into(ss, t) ==
               \A n \in 1..Len(ss) : \A j \in 1..Len(ss[n]) : \E i \in 1..Len(t) : t[i] = ss[n][j]
             Has(ss, t) == t \in Seq(S) /\ From(ss, t) /\ Into(ss, t)
             T == {ss \in Seq(Seq(S)) : Has(ss, FlattenSeq(ss))}
  <1>1. <<>> \in T
    <2>1. <<>> \in Seq(S) /\ <<>> \in Seq(Seq(S)) /\ Len(<<>>) = 0
      OBVIOUS
    <2>2. From(<<>>, <<>>) /\ Into(<<>>, <<>>)
      BY <2>1
    <2>3. Has(<<>>, <<>>)
      BY <2>1, <2>2
    <2> HIDE DEF Has
    <2>4. Has(<<>>, FlattenSeq(<<>>))
      BY <2>3, FlattenEmpty
    <2> QED
      BY <2>1, <2>4
  <1>2. ASSUME NEW ss \in T, NEW s \in Seq(S)
        PROVE  Append(ss, s) \in T
    <2> DEFINE t == FlattenSeq(ss)
               u == t \o s
               more == Append(ss, s)
    <2>1. t \in Seq(S) /\ From(ss, t) /\ Into(ss, t) /\ ss \in Seq(Seq(S))
      BY <1>2
    <2>2. /\ Len(more) = Len(ss) + 1 /\ more[Len(ss) + 1] = s
          /\ \A n \in 1..Len(ss) : more[n] = ss[n]
          /\ Len(ss) \in Nat /\ more \in Seq(Seq(S))
      BY <2>1
    <2> HIDE DEF t
    <2>3. /\ u \in Seq(S) /\ Len(u) = Len(t) + Len(s) /\ Len(t) \in Nat /\ Len(s) \in Nat
          /\ \A i \in 1..Len(t) : u[i] = t[i]
          /\ \A i \in 1..Len(s) : u[Len(t) + i] = s[i]
      BY <2>1
    <2> HIDE DEF u, more
    <2>4. From(more, u)
      <3> SUFFICES ASSUME NEW i \in 1..Len(u)
                   PROVE  \E n \in 1..Len(more) : \E j \in 1..Len(more[n]) : u[i] = more[n][j]
        OBVIOUS
      <3>1. CASE i \in 1..Len(t)
        <4>1. PICK n \in 1..Len(ss) : \E j \in 1..Len(ss[n]) : t[i] = ss[n][j]
          BY <2>1, <3>1
        <4>a. PICK j \in 1..Len(ss[n]) : t[i] = ss[n][j]
          BY <4>1
        <4>2. n \in 1..Len(more) /\ more[n] = ss[n]
          BY <2>2
        <4>3. u[i] = t[i]
          BY <2>3, <3>1
        <4>4. j \in 1..Len(more[n]) /\ u[i] = more[n][j]
          BY <4>a, <4>2, <4>3
        <4> QED
          BY <4>2, <4>4
      <3>2. CASE i \notin 1..Len(t)
        <4> DEFINE j == i - Len(t)
        <4>1. j \in 1..Len(s) /\ i = Len(t) + j
          BY <2>3, <3>2
        <4>2. u[i] = s[j]
          BY <2>3, <4>1
        <4>3. Len(ss) + 1 \in 1..Len(more) /\ more[Len(ss) + 1] = s
          BY <2>2
        <4> QED
          BY <4>1, <4>2, <4>3
      <3> QED
        BY <3>1, <3>2
    <2>5. Into(more, u)
      <3> SUFFICES ASSUME NEW n \in 1..Len(more), NEW j \in 1..Len(more[n])
                   PROVE  \E i \in 1..Len(u) : u[i] = more[n][j]
        OBVIOUS
      <3>1. CASE n \in 1..Len(ss)
        <4>1. PICK i \in 1..Len(t) : t[i] = ss[n][j]
          BY <2>1, <2>2, <3>1
        <4>2. i \in 1..Len(u) /\ u[i] = t[i]
          BY <2>3
        <4> QED
          BY <2>2, <3>1, <4>1, <4>2
      <3>2. CASE n \notin 1..Len(ss)
        <4>1. more[n] = s
          BY <2>2, <3>2
        <4>2. Len(t) + j \in 1..Len(u) /\ u[Len(t) + j] = s[j]
          BY <2>3, <4>1
        <4> QED
          BY <4>1, <4>2
      <3> QED
        BY <3>1, <3>2
    <2>6. FlattenSeq(more) = u
      BY <2>1, FlattenAppend DEF more, u, t
    <2> QED
      BY <2>2, <2>3, <2>4, <2>5, <2>6, ZenonT(30) DEF more
  <1>3. T = Seq(Seq(S))
    <2> HIDE DEF T
    <2>1. T \in SUBSET Seq(Seq(S))
      BY DEF T
    <2> QED
      BY <1>1, <1>2, <2>1, SeqUp
  <1>4. seqs \in T
    BY <1>3
  <1> QED
    BY <1>4

-----------------------------------------------------------------------------
(* The frames, by type. *)
Value == 1..MaxEdits
Hellos == [type : {"Hello"}]
Connects == [type : {"Connect"}, state : States]
PeerUpdates == [type : {"PeerUpdate"}, room : ObjectId \cup {NoRoom}]
ObjectCreates == [type : {"ObjectCreate"}, object : ObjectId, props : [Prop -> Value]]
ObjectUpdates == [type : {"ObjectUpdate"}, object : ObjectId, key : Prop, value : Value]
ObjectRemoves == [type : {"ObjectRemove"}, object : ObjectId]

Frame == Hellos \cup Connects \cup PeerUpdates \cup ObjectCreates \cup ObjectUpdates \cup ObjectRemoves

LEMMA NoneIsNoValue == None \notin [Prop -> Value]
  <1>1. [Prop -> Value] \subseteq [Prop -> Nat]
    BY SessionAssumption DEF Value
  <1> QED
    BY <1>1, SessionAssumption

LEMMA HandleHello ==
    ASSUME NEW c, NEW f \in Hellos PROVE Handle(c, f) = c
  BY DEF Handle, Hellos

LEMMA HandleConnect ==
    ASSUME NEW c, NEW f \in Connects PROVE Handle(c, f) = f.state
  BY DEF Handle, Connects

LEMMA HandlePeerUpdate ==
    ASSUME NEW c, NEW f \in PeerUpdates PROVE Handle(c, f) = [c EXCEPT !.room = f.room]
  BY DEF Handle, PeerUpdates

LEMMA HandleCreate ==
    ASSUME NEW c, NEW f \in ObjectCreates
    PROVE  Handle(c, f) = [c EXCEPT !.objects[f.object] = f.props]
  BY DEF Handle, ObjectCreates

LEMMA HandleUpdate ==
    ASSUME NEW c, NEW f \in ObjectUpdates
    PROVE  Handle(c, f) = IF c.objects[f.object] = None THEN c
                          ELSE [c EXCEPT !.objects[f.object][f.key] = f.value]
  BY DEF Handle, ObjectUpdates

LEMMA HandleRemove ==
    ASSUME NEW c, NEW f \in ObjectRemoves
    PROVE  Handle(c, f) = [c EXCEPT !.objects[f.object] = None]
  BY DEF Handle, ObjectRemoves

LEMMA HandleType ==
    ASSUME NEW c \in States, NEW f \in Frame
    PROVE  Handle(c, f) \in States
  <1>1. CASE f \in Hellos
    BY <1>1, HandleHello
  <1>2. CASE f \in Connects
    BY <1>2, HandleConnect DEF Connects
  <1>3. CASE f \in PeerUpdates
    BY <1>3, HandlePeerUpdate DEF PeerUpdates, States
  <1>4. CASE f \in ObjectCreates
    BY <1>4, HandleCreate DEF ObjectCreates, States, Value
  <1>5. CASE f \in ObjectUpdates
    <2>1. CASE c.objects[f.object] = None
      BY <1>5, <2>1, HandleUpdate
    <2>2. CASE c.objects[f.object] # None
      <3>1. Handle(c, f) = [c EXCEPT !.objects[f.object][f.key] = f.value]
        BY <1>5, <2>2, HandleUpdate
      <3>2. c.objects[f.object] \in [Prop -> 1..MaxEdits]
        BY <1>5, <2>2 DEF ObjectUpdates, States
      <3> QED
        BY <1>5, <3>1, <3>2 DEF ObjectUpdates, States, Value
    <2> QED
      BY <2>1, <2>2
  <1>6. CASE f \in ObjectRemoves
    BY <1>6, HandleRemove DEF ObjectRemoves, States
  <1> QED
    BY <1>1, <1>2, <1>3, <1>4, <1>5, <1>6 DEF Frame

-----------------------------------------------------------------------------
(* What the server has after each of some frames. *)
Applied(a, c, frames) ==
    a = [n \in 0..Len(frames) |-> IF n = 0 THEN c ELSE Handle(a[n - 1], frames[n])]

LEMMA AppliedOnce ==
    ASSUME NEW c, NEW frames, NEW a, NEW b, Applied(a, c, frames), Applied(b, c, frames),
           Len(frames) \in Nat
    PROVE  a = b
  <1> DEFINE N == 0..Len(frames)
             T == {n \in Nat : n \in N => a[n] = b[n]}
  <1>1. 0 \in T
    BY DEF Applied
  <1>2. ASSUME NEW n \in T
        PROVE  n + 1 \in T
    <2> SUFFICES ASSUME n + 1 \in N PROVE a[n + 1] = b[n + 1]
      OBVIOUS
    <2>1. a[n] = b[n]
      BY <1>2
    <2>2. a[n + 1] = Handle(a[(n + 1) - 1], frames[n + 1])
      BY DEF Applied
    <2>3. b[n + 1] = Handle(b[(n + 1) - 1], frames[n + 1])
      BY DEF Applied
    <2> QED
      BY <2>1, <2>2, <2>3
  <1>3. T = Nat
    BY <1>1, <1>2, NatUp
  <1>4. \A n \in N : a[n] = b[n]
    BY <1>3
  <1>5. a = [n \in N |-> a[n]] /\ b = [n \in N |-> b[n]]
    BY DEF Applied
  <1> QED
    BY <1>4, <1>5

LEMMA HandleAllIs ==
    ASSUME NEW c, NEW frames, NEW a, Applied(a, c, frames), Len(frames) \in Nat
    PROVE  HandleAll(c, frames) = a[Len(frames)]
  <1>1. \A b : Applied(b, c, frames) => b = a
    BY AppliedOnce
  <1> DEFINE after == CHOOSE b : Applied(b, c, frames)
  <1>2. after = a
    BY <1>1
  <1>3. HandleAll(c, frames) = after[Len(frames)]
    BY DEF HandleAll, Applied
  <1> QED
    BY <1>2, <1>3

LEMMA HandleNone == \A c : HandleAll(c, <<>>) = c
  <1> TAKE c
  <1> DEFINE a == [n \in 0..0 |-> c]
  <1>1. Applied(a, c, <<>>)
    BY DEF Applied
  <1>2. a[0] = c
    OBVIOUS
  <1>3. Len(<<>>) = 0 /\ 0 \in Nat
    OBVIOUS
  <1> HIDE DEF a
  <1> QED
    BY <1>1, <1>2, <1>3, HandleAllIs

(* One frame more. *)
LEMMA AppliedMore ==
    ASSUME NEW S, NEW c, NEW frames \in Seq(S), NEW f \in S, NEW a, Applied(a, c, frames)
    PROVE  \E b : Applied(b, c, Append(frames, f)) /\ b[Len(frames)] = a[Len(frames)]
  <1> DEFINE n == Len(frames)
             more == Append(frames, f)
             b == [m \in 0..n + 1 |-> IF m = n + 1 THEN Handle(a[n], f) ELSE a[m]]
  <1>1. n \in Nat /\ Len(more) = n + 1 /\ more[n + 1] = f /\ \A m \in 1..n : more[m] = frames[m]
    OBVIOUS
  <1> HIDE DEF more, n
  <1>2. ASSUME NEW m \in 0..n + 1
        PROVE  b[m] = IF m = 0 THEN c ELSE Handle(b[m - 1], more[m])
    <2>1. CASE m = n + 1
      <3>1. b[m - 1] = a[n]
        BY <1>1, <2>1
      <3> QED
        BY <1>1, <2>1, <3>1
    <2>2. CASE m # n + 1
      <3>1. m \in 0..n
        BY <1>1, <2>2
      <3>2. a[m] = IF m = 0 THEN c ELSE Handle(a[m - 1], frames[m])
        BY <3>1 DEF Applied, n
      <3>3. b[m] = a[m] /\ (m # 0 => b[m - 1] = a[m - 1] /\ more[m] = frames[m])
        BY <1>1, <3>1
      <3> QED
        BY <3>2, <3>3
    <2> QED
      BY <2>1, <2>2
  <1>3. b = [m \in 0..n + 1 |-> b[m]]
    OBVIOUS
  <1>4. b[n] = a[n]
    BY <1>1
  <1> HIDE DEF b
  <1>5. Applied(b, c, more)
    BY <1>1, <1>2, <1>3 DEF Applied
  <1> QED
    BY <1>4, <1>5 DEF more, n

LEMMA AppliedExists ==
    ASSUME NEW S, NEW c, NEW frames \in Seq(S)
    PROVE  \E a : Applied(a, c, frames)
  <1> DEFINE T == {s \in Seq(S) : \E a : Applied(a, c, s)}
  <1>1. <<>> \in T
    <2>1. Applied([n \in 0..0 |-> c], c, <<>>)
      BY DEF Applied
    <2> QED
      BY <2>1
  <1>2. ASSUME NEW s \in T, NEW f \in S PROVE Append(s, f) \in T
    BY AppliedMore
  <1>3. T = Seq(S)
    <2> HIDE DEF T
    <2>1. T \in SUBSET Seq(S)
      BY DEF T
    <2> QED
      BY <1>1, <1>2, <2>1, SeqUp
  <1> QED
    BY <1>3

LEMMA HandleAppend ==
    ASSUME NEW S, NEW c, NEW frames \in Seq(S), NEW f \in S
    PROVE  HandleAll(c, Append(frames, f)) = Handle(HandleAll(c, frames), f)
  <1> DEFINE n == Len(frames)
             more == Append(frames, f)
  <1>1. n \in Nat /\ Len(more) = n + 1 /\ more[n + 1] = f
    OBVIOUS
  <1>2. PICK a : Applied(a, c, frames)
    BY AppliedExists
  <1>3. PICK b : Applied(b, c, more) /\ b[n] = a[n]
    BY <1>2, AppliedMore
  <1>4. HandleAll(c, frames) = a[n]
    BY <1>1, <1>2, HandleAllIs
  <1> HIDE DEF more
  <1>5. HandleAll(c, more) = b[n + 1]
    BY <1>1, <1>3, HandleAllIs
  <1>6. b[n + 1] = Handle(b[(n + 1) - 1], more[n + 1])
    BY <1>1, <1>3 DEF Applied
  <1>7. b[n + 1] = Handle(b[n], f)
    BY <1>1, <1>6
  <1> QED
    BY <1>3, <1>4, <1>5, <1>7 DEF more

(* Frames are handled one after the other, wherever they are cut. *)
LEMMA HandleBoth ==
    ASSUME NEW S, NEW c, NEW s \in Seq(S), NEW t \in Seq(S)
    PROVE  HandleAll(c, s \o t) = HandleAll(HandleAll(c, s), t)
  <1> DEFINE T == {u \in Seq(S) : HandleAll(c, s \o u) = HandleAll(HandleAll(c, s), u)}
  <1>1. <<>> \in T
    <2>1. s \o <<>> = s
      OBVIOUS
    <2> QED
      BY <2>1, HandleNone
  <1>2. ASSUME NEW u \in T, NEW f \in S PROVE Append(u, f) \in T
    <2> DEFINE v == s \o u
               more == Append(u, f)
    <2>1. s \o more = Append(v, f) /\ v \in Seq(S)
      OBVIOUS
    <2>2. HandleAll(HandleAll(c, s), more) = Handle(HandleAll(HandleAll(c, s), u), f)
      BY HandleAppend
    <2>3. HandleAll(c, v) = HandleAll(HandleAll(c, s), u)
      OBVIOUS
    <2> HIDE DEF v, more
    <2>4. HandleAll(c, Append(v, f)) = Handle(HandleAll(c, v), f)
      BY <2>1, HandleAppend
    <2>5. HandleAll(c, s \o more) = HandleAll(HandleAll(c, s), more)
      BY <2>1, <2>2, <2>3, <2>4
    <2> QED
      BY <2>5 DEF more
  <1>3. T = Seq(S)
    <2> HIDE DEF T
    <2>1. T \in SUBSET Seq(S)
      BY DEF T
    <2> QED
      BY <1>1, <1>2, <2>1, SeqUp
  <1> QED
    BY <1>3

LEMMA HandleOne ==
    ASSUME NEW S, NEW c, NEW f \in S
    PROVE  HandleAll(c, <<f>>) = Handle(c, f)
  <1> DEFINE none == <<>>
             one == <<f>>
  <1>1. one = Append(none, f) /\ none \in Seq(S)
    OBVIOUS
  <1>2. HandleAll(c, none) = c
    BY HandleNone
  <1> HIDE DEF none, one
  <1>3. HandleAll(c, Append(none, f)) = Handle(HandleAll(c, none), f)
    BY <1>1, HandleAppend
  <1>4. HandleAll(c, one) = Handle(c, f)
    BY <1>1, <1>2, <1>3
  <1> QED
    BY <1>4 DEF one

LEMMA HandleFirst ==
    ASSUME NEW S, NEW c, NEW s \in Seq(S), s # <<>>
    PROVE  HandleAll(c, s) = HandleAll(Handle(c, Head(s)), Tail(s))
  <1> DEFINE one == <<Head(s)>>
             rest == Tail(s)
  <1>1. s = one \o rest /\ Head(s) \in S /\ rest \in Seq(S) /\ one \in Seq(S)
    OBVIOUS
  <1>2. HandleAll(c, one) = Handle(c, Head(s))
    BY <1>1, HandleOne
  <1> HIDE DEF one, rest
  <1>3. HandleAll(c, one \o rest) = HandleAll(HandleAll(c, one), rest)
    BY <1>1, HandleBoth
  <1>4. HandleAll(c, s) = HandleAll(Handle(c, Head(s)), rest)
    BY <1>1, <1>2, <1>3
  <1> QED
    BY <1>4 DEF rest

LEMMA HandleAllType ==
    ASSUME NEW c \in States, NEW s \in Seq(Frame)
    PROVE  HandleAll(c, s) \in States
  <1> DEFINE T == {u \in Seq(Frame) : HandleAll(c, u) \in States}
  <1>1. <<>> \in T
    BY HandleNone
  <1>2. ASSUME NEW u \in T, NEW f \in Frame PROVE Append(u, f) \in T
    <2>1. HandleAll(c, Append(u, f)) = Handle(HandleAll(c, u), f)
      BY HandleAppend
    <2> QED
      BY <2>1, HandleType
  <1>3. T = Seq(Frame)
    <2> HIDE DEF T
    <2>1. T \in SUBSET Seq(Frame)
      BY DEF T
    <2> QED
      BY <1>1, <1>2, <2>1, SeqUp
  <1> QED
    BY <1>3

-----------------------------------------------------------------------------
(* What the frames of one type do to an object, whatever their order. *)
Touches(s, o) == \E i \in 1..Len(s) : s[i].object = o
Writes(s, o, k) == \E i \in 1..Len(s) : s[i].object = o /\ s[i].key = k

LEMMA TouchesMore ==
    ASSUME NEW S, NEW s \in Seq(S), NEW f \in S, NEW o
    PROVE  Touches(Append(s, f), o) <=> Touches(s, o) \/ f.object = o
  <1> DEFINE more == Append(s, f)
  <1>1. Len(s) \in Nat /\ Len(more) = Len(s) + 1 /\ more[Len(s) + 1] = f
        /\ \A i \in 1..Len(s) : more[i] = s[i]
    OBVIOUS
  <1> HIDE DEF more
  <1>2. ASSUME NEW i \in 1..Len(more), more[i].object = o
        PROVE  Touches(s, o) \/ f.object = o
    <2>1. i \in 1..Len(s) \/ i = Len(s) + 1
      BY <1>1
    <2> QED
      BY <1>1, <1>2, <2>1 DEF Touches
  <1>3. ASSUME Touches(s, o) \/ f.object = o
        PROVE  Touches(more, o)
    <2>1. 1..Len(s) \subseteq 1..Len(more) /\ Len(s) + 1 \in 1..Len(more)
      BY <1>1
    <2> QED
      BY <1>1, <1>3, <2>1 DEF Touches
  <1>4. Touches(more, o) <=> Touches(s, o) \/ f.object = o
    BY <1>2, <1>3 DEF Touches
  <1> QED
    BY <1>4 DEF more

LEMMA WritesMore ==
    ASSUME NEW S, NEW s \in Seq(S), NEW f \in S, NEW o, NEW k
    PROVE  Writes(Append(s, f), o, k) <=> Writes(s, o, k) \/ (f.object = o /\ f.key = k)
  <1> DEFINE more == Append(s, f)
  <1>1. Len(s) \in Nat /\ Len(more) = Len(s) + 1 /\ more[Len(s) + 1] = f
        /\ \A i \in 1..Len(s) : more[i] = s[i]
    OBVIOUS
  <1> HIDE DEF more
  <1>2. ASSUME NEW i \in 1..Len(more), more[i].object = o, more[i].key = k
        PROVE  Writes(s, o, k) \/ (f.object = o /\ f.key = k)
    <2>1. i \in 1..Len(s) \/ i = Len(s) + 1
      BY <1>1
    <2> QED
      BY <1>1, <1>2, <2>1 DEF Writes
  <1>3. ASSUME Writes(s, o, k) \/ (f.object = o /\ f.key = k)
        PROVE  Writes(more, o, k)
    <2>1. 1..Len(s) \subseteq 1..Len(more) /\ Len(s) + 1 \in 1..Len(more)
      BY <1>1
    <2> QED
      BY <1>1, <1>3, <2>1 DEF Writes
  <1>4. Writes(more, o, k) <=> Writes(s, o, k) \/ (f.object = o /\ f.key = k)
    BY <1>2, <1>3 DEF Writes
  <1> QED
    BY <1>4 DEF more

AfterRemoves(a, c, s) ==
    /\ a \in States
    /\ a.room = c.room
    /\ \A o \in ObjectId : a.objects[o] = IF Touches(s, o) THEN None ELSE c.objects[o]

LEMMA RemovesDo ==
    ASSUME NEW c \in States, NEW s \in Seq(ObjectRemoves)
    PROVE  AfterRemoves(HandleAll(c, s), c, s)
  <1> DEFINE T == {u \in Seq(ObjectRemoves) : AfterRemoves(HandleAll(c, u), c, u)}
  <1>1. <<>> \in T
    <2>1. \A o : ~Touches(<<>>, o)
      BY DEF Touches
    <2>2. AfterRemoves(c, c, <<>>)
      BY <2>1 DEF AfterRemoves
    <2> QED
      BY <2>2, HandleNone
  <1>2. ASSUME NEW u \in T, NEW f \in ObjectRemoves PROVE Append(u, f) \in T
    <2> DEFINE a == HandleAll(c, u)
               b == Handle(a, f)
               more == Append(u, f)
    <2>1. HandleAll(c, more) = b
      BY HandleAppend
    <2>2. AfterRemoves(a, c, u)
      OBVIOUS
    <2>3. \A o : Touches(more, o) <=> Touches(u, o) \/ f.object = o
      BY TouchesMore
    <2>4. b = [a EXCEPT !.objects[f.object] = None] /\ f.object \in ObjectId
      BY HandleRemove DEF ObjectRemoves
    <2>5. more \in Seq(ObjectRemoves)
      OBVIOUS
    <2> HIDE DEF a, b, more
    <2>6. AfterRemoves(b, c, more)
      <3>1. b \in States /\ b.room = a.room
            /\ \A o \in ObjectId : b.objects[o] = IF o = f.object THEN None ELSE a.objects[o]
        BY <2>2, <2>4 DEF States, AfterRemoves
      <3> QED
        BY <2>2, <2>3, <3>1 DEF AfterRemoves
    <2> QED
      BY <2>1, <2>5, <2>6 DEF more
  <1>3. T = Seq(ObjectRemoves)
    <2> HIDE DEF T
    <2>1. T \in SUBSET Seq(ObjectRemoves)
      BY DEF T
    <2> QED
      BY <1>1, <1>2, <2>1, SeqUp
  <1> QED
    BY <1>3

CreatesOf(v) == {f \in ObjectCreates : f.props = v[f.object]}

AfterCreates(a, c, s, v) ==
    /\ a \in States
    /\ a.room = c.room
    /\ \A o \in ObjectId : a.objects[o] = IF Touches(s, o) THEN v[o] ELSE c.objects[o]

LEMMA CreatesDo ==
    ASSUME NEW c \in States, NEW v, NEW s \in Seq(CreatesOf(v))
    PROVE  AfterCreates(HandleAll(c, s), c, s, v)
  <1> DEFINE F == CreatesOf(v)
             T == {u \in Seq(F) : AfterCreates(HandleAll(c, u), c, u, v)}
  <1>1. <<>> \in T
    <2>1. \A o : ~Touches(<<>>, o)
      BY DEF Touches
    <2>2. AfterCreates(c, c, <<>>, v)
      BY <2>1 DEF AfterCreates
    <2> QED
      BY <2>2, HandleNone
  <1>2. ASSUME NEW u \in T, NEW f \in F PROVE Append(u, f) \in T
    <2> DEFINE a == HandleAll(c, u)
               b == Handle(a, f)
               more == Append(u, f)
    <2> HIDE DEF F
    <2>1. HandleAll(c, more) = b
      BY HandleAppend
    <2>2. AfterCreates(a, c, u, v)
      OBVIOUS
    <2>3. \A o : Touches(more, o) <=> Touches(u, o) \/ f.object = o
      BY TouchesMore
    <2>4. b = [a EXCEPT !.objects[f.object] = f.props] /\ f.object \in ObjectId
          /\ f.props \in [Prop -> Value] /\ f.props = v[f.object]
      BY HandleCreate DEF ObjectCreates, F, CreatesOf
    <2>5. more \in Seq(F)
      OBVIOUS
    <2> HIDE DEF a, b, more
    <2>6. AfterCreates(b, c, more, v)
      <3>1. b \in States /\ b.room = a.room
            /\ \A o \in ObjectId : b.objects[o] = IF o = f.object THEN f.props ELSE a.objects[o]
        BY <2>2, <2>4 DEF States, AfterCreates, Value
      <3> QED
        BY <2>2, <2>3, <2>4, <3>1 DEF AfterCreates
    <2> QED
      BY <2>1, <2>5, <2>6 DEF more
  <1>3. T = Seq(F)
    <2> HIDE DEF T
    <2>1. T \in SUBSET Seq(F)
      BY DEF T
    <2> QED
      BY <1>1, <1>2, <2>1, SeqUp
  <1> QED
    BY <1>3

UpdatesOf(v) == {f \in ObjectUpdates : v[f.object] # None /\ f.value = v[f.object][f.key]}

AfterUpdates(a, c, s, v) ==
    /\ a \in States
    /\ a.room = c.room
    /\ \A o \in ObjectId : a.objects[o] = None <=> c.objects[o] = None
    /\ \A o \in ObjectId : c.objects[o] # None =>
         \A k \in Prop : a.objects[o][k] = IF Writes(s, o, k) THEN v[o][k] ELSE c.objects[o][k]

LEMMA UpdatesDo ==
    ASSUME NEW c \in States, NEW v, NEW s \in Seq(UpdatesOf(v))
    PROVE  AfterUpdates(HandleAll(c, s), c, s, v)
  <1> DEFINE F == UpdatesOf(v)
             T == {u \in Seq(F) : AfterUpdates(HandleAll(c, u), c, u, v)}
  <1>1. <<>> \in T
    <2>1. \A o, k : ~Writes(<<>>, o, k)
      BY DEF Writes
    <2>2. AfterUpdates(c, c, <<>>, v)
      BY <2>1 DEF AfterUpdates
    <2> QED
      BY <2>2, HandleNone
  <1>2. ASSUME NEW u \in T, NEW f \in F PROVE Append(u, f) \in T
    <2> DEFINE a == HandleAll(c, u)
               b == Handle(a, f)
               more == Append(u, f)
    <2> HIDE DEF F
    <2>1. HandleAll(c, more) = b
      BY HandleAppend
    <2>2. AfterUpdates(a, c, u, v)
      OBVIOUS
    <2>3. \A o, k : Writes(more, o, k) <=> Writes(u, o, k) \/ (f.object = o /\ f.key = k)
      BY WritesMore
    <2>4. f \in ObjectUpdates /\ f.object \in ObjectId /\ f.key \in Prop /\ f.value \in Value
          /\ f.value = v[f.object][f.key]
      BY DEF ObjectUpdates, F, UpdatesOf
    <2>5. b = IF a.objects[f.object] = None THEN a
              ELSE [a EXCEPT !.objects[f.object][f.key] = f.value]
      BY <2>4, HandleUpdate
    <2>6. more \in Seq(F)
      OBVIOUS
    <2>7. b \in States
      BY <2>2, <2>4, HandleType DEF AfterUpdates, Frame
    <2> HIDE DEF a, b, more
    <2>8. CASE a.objects[f.object] = None
      <3>1. AfterUpdates(b, c, more, v)
        BY <2>2, <2>3, <2>5, <2>8 DEF AfterUpdates
      <3> QED
        BY <2>1, <2>6, <3>1 DEF more
    <2>9. CASE a.objects[f.object] # None
      <3>1. /\ b.room = a.room
            /\ \A o \in ObjectId \ {f.object} : b.objects[o] = a.objects[o]
            /\ b.objects[f.object] = [a.objects[f.object] EXCEPT ![f.key] = f.value]
        BY <2>2, <2>4, <2>5, <2>9 DEF States, AfterUpdates
      <3>2. a.objects[f.object] \in [Prop -> Value]
        BY <2>2, <2>4, <2>9 DEF States, AfterUpdates, Value
      <3>3. b.objects[f.object] \in [Prop -> Value]
        BY <2>4, <3>1, <3>2
      <3>4. b.objects[f.object] # None
        BY <3>3, NoneIsNoValue
      <3>5. \A k \in Prop : b.objects[f.object][k] = IF k = f.key THEN f.value ELSE a.objects[f.object][k]
        BY <2>4, <3>1, <3>2
      <3>6. \A o \in ObjectId : c.objects[o] # None =>
              \A k \in Prop : b.objects[o][k] = IF Writes(more, o, k) THEN v[o][k] ELSE c.objects[o][k]
        <4> SUFFICES ASSUME NEW o \in ObjectId, c.objects[o] # None, NEW k \in Prop
                     PROVE  b.objects[o][k] = IF Writes(more, o, k) THEN v[o][k] ELSE c.objects[o][k]
          OBVIOUS
        <4>1. a.objects[o][k] = IF Writes(u, o, k) THEN v[o][k] ELSE c.objects[o][k]
          BY <2>2 DEF AfterUpdates
        <4>2. CASE o = f.object /\ k = f.key
          BY <2>3, <2>4, <3>5, <4>2
        <4>3. CASE o = f.object /\ k # f.key
          BY <2>3, <3>5, <4>1, <4>3
        <4>4. CASE o # f.object
          BY <2>3, <3>1, <4>1, <4>4
        <4> QED
          BY <4>2, <4>3, <4>4
      <3>7. \A o \in ObjectId : b.objects[o] = None <=> c.objects[o] = None
        BY <2>2, <2>4, <2>9, <3>1, <3>4 DEF AfterUpdates
      <3>8. AfterUpdates(b, c, more, v)
        BY <2>2, <2>7, <3>1, <3>6, <3>7 DEF AfterUpdates
      <3> QED
        BY <2>1, <2>6, <3>8 DEF more
    <2> QED
      BY <2>8, <2>9
  <1>3. T = Seq(F)
    <2> HIDE DEF T
    <2>1. T \in SUBSET Seq(F)
      BY DEF T
    <2> QED
      BY <1>1, <1>2, <2>1, SeqUp
  <1> QED
    BY <1>3

-----------------------------------------------------------------------------
(* The sets, and what a drain of them does. *)
LocalType ==
    /\ Local \in States
    /\ changed \in [ObjectId -> SUBSET Prop]
    /\ dirty \subseteq ObjectId
    /\ added \subseteq ObjectId
    /\ removed \subseteq ObjectId
    /\ moved \in BOOLEAN

Live(S) == {o \in S : objects[o] # None}

UpdatesFor(o) ==
    LET ks == SetToSeq(changed[o])
    IN  [i \in DOMAIN ks |-> [type |-> "ObjectUpdate", object |-> o,
                              key |-> ks[i], value |-> objects[o][ks[i]]]]

MoveFrames == IF moved THEN <<[type |-> "PeerUpdate", room |-> room]>> ELSE <<>>

UpdateFrames ==
    LET ds == SetToSeq(Live(dirty)) IN FlattenSeq([i \in DOMAIN ds |-> UpdatesFor(ds[i])])

CreateFrames ==
    LET as == SetToSeq(Live(added))
    IN  [i \in DOMAIN as |-> [type |-> "ObjectCreate", object |-> as[i], props |-> objects[as[i]]]]

RemoveFrames ==
    LET rs == SetToSeq(removed)
    IN  [i \in DOMAIN rs |-> [type |-> "ObjectRemove", object |-> rs[i]]]

LEMMA DrainParts == DrainFrames = MoveFrames \o UpdateFrames \o CreateFrames \o RemoveFrames
  BY DEF DrainFrames, MoveFrames, UpdateFrames, CreateFrames, RemoveFrames, UpdatesFor, Live

LEMMA RemoveFramesAre ==
    ASSUME LocalType
    PROVE  /\ RemoveFrames \in Seq(ObjectRemoves)
           /\ \A o \in ObjectId : Touches(RemoveFrames, o) <=> o \in removed
  <1> DEFINE rs == SetToSeq(removed)
  <1>1. IsFiniteSet(removed)
    BY SessionAssumption, FS_Subset DEF LocalType
  <1>2. rs \in Seq(removed) /\ \A o \in removed : \E i \in 1..Len(rs) : rs[i] = o
    BY <1>1, SeqOfSet
  <1>3. RemoveFrames = [i \in DOMAIN rs |-> [type |-> "ObjectRemove", object |-> rs[i]]]
    BY DEF RemoveFrames
  <1> HIDE DEF rs
  <1>4. DOMAIN rs = 1..Len(rs) /\ Len(rs) \in Nat /\ \A i \in 1..Len(rs) : rs[i] \in removed
    BY <1>2
  <1>5. RemoveFrames = [i \in 1..Len(rs) |-> [type |-> "ObjectRemove", object |-> rs[i]]]
    BY <1>3, <1>4
  <1>6. RemoveFrames \in [1..Len(rs) -> ObjectRemoves]
    BY <1>4, <1>5 DEF ObjectRemoves, LocalType
  <1>7. RemoveFrames \in Seq(ObjectRemoves) /\ Len(RemoveFrames) = Len(rs)
    BY <1>4, <1>6
  <1>8. \A i \in 1..Len(rs) : RemoveFrames[i].object = rs[i]
    BY <1>5
  <1> QED
    BY <1>2, <1>4, <1>7, <1>8 DEF Touches

LEMMA CreateFramesAre ==
    ASSUME LocalType
    PROVE  /\ CreateFrames \in Seq(CreatesOf(objects))
           /\ \A o \in ObjectId : Touches(CreateFrames, o) <=> o \in Live(added)
  <1> DEFINE as == SetToSeq(Live(added))
  <1>0. Live(added) \subseteq ObjectId
    BY DEF Live, LocalType
  <1>1. IsFiniteSet(Live(added))
    BY <1>0, SessionAssumption, FS_Subset
  <1>2. as \in Seq(Live(added)) /\ \A o \in Live(added) : \E i \in 1..Len(as) : as[i] = o
    BY <1>1, SeqOfSet
  <1>3. CreateFrames = [i \in DOMAIN as |->
                          [type |-> "ObjectCreate", object |-> as[i], props |-> objects[as[i]]]]
    BY DEF CreateFrames
  <1> HIDE DEF as
  <1>4. DOMAIN as = 1..Len(as) /\ Len(as) \in Nat /\ \A i \in 1..Len(as) : as[i] \in Live(added)
    BY <1>2, ElementOf
  <1>5. CreateFrames = [i \in 1..Len(as) |->
                          [type |-> "ObjectCreate", object |-> as[i], props |-> objects[as[i]]]]
    BY <1>3, <1>4
  <1>6. \A o \in Live(added) : objects[o] \in [Prop -> Value]
    BY <1>0 DEF Live, LocalType, Local, States, Value
  <1>7. CreateFrames \in [1..Len(as) -> CreatesOf(objects)]
    <2> SUFFICES ASSUME NEW i \in 1..Len(as) PROVE CreateFrames[i] \in CreatesOf(objects)
      BY <1>5
    <2>1. as[i] \in ObjectId /\ objects[as[i]] \in [Prop -> Value]
      BY <1>0, <1>4, <1>6
    <2>2. CreateFrames[i] = [type |-> "ObjectCreate", object |-> as[i], props |-> objects[as[i]]]
      BY <1>5
    <2>3. CreateFrames[i] \in ObjectCreates
      <3> DEFINE o == as[i]
                 v == objects[o]
      <3>1. o \in ObjectId /\ v \in [Prop -> Value]
        BY <2>1
      <3>2. CreateFrames[i] = [type |-> "ObjectCreate", object |-> o, props |-> v]
        BY <2>2
      <3> HIDE DEF o, v
      <3> QED
        BY <3>1, <3>2 DEF ObjectCreates
    <2>4. CreateFrames[i].props = objects[CreateFrames[i].object]
      BY <2>2
    <2> QED
      BY <2>3, <2>4 DEF CreatesOf
  <1>8. CreateFrames \in Seq(CreatesOf(objects)) /\ Len(CreateFrames) = Len(as)
    BY <1>4, <1>7, SeqFrom
  <1>9. \A i \in 1..Len(as) : CreateFrames[i].object = as[i]
    BY <1>5
  <1> QED
    BY <1>2, <1>4, <1>8, <1>9 DEF Touches

LEMMA UpdatesForAre ==
    ASSUME LocalType, NEW o \in Live(ObjectId)
    PROVE  /\ UpdatesFor(o) \in Seq(UpdatesOf(objects))
           /\ \A i \in 1..Len(UpdatesFor(o)) :
                UpdatesFor(o)[i].object = o /\ UpdatesFor(o)[i].key \in changed[o]
           /\ \A k \in changed[o] : \E i \in 1..Len(UpdatesFor(o)) : UpdatesFor(o)[i].key = k
  <1> DEFINE ks == SetToSeq(changed[o])
             us == UpdatesFor(o)
  <1>0. changed[o] \subseteq Prop /\ o \in ObjectId /\ objects[o] \in [Prop -> Value]
    BY DEF LocalType, Local, States, Live, Value
  <1>1. IsFiniteSet(changed[o])
    BY <1>0, SessionAssumption, FS_Subset
  <1>2. ks \in Seq(changed[o]) /\ \A k \in changed[o] : \E i \in 1..Len(ks) : ks[i] = k
    BY <1>1, SeqOfSet
  <1>3. us = [i \in DOMAIN ks |-> [type |-> "ObjectUpdate", object |-> o,
                                   key |-> ks[i], value |-> objects[o][ks[i]]]]
    BY DEF UpdatesFor
  <1> HIDE DEF ks, us
  <1>4. DOMAIN ks = 1..Len(ks) /\ Len(ks) \in Nat /\ \A i \in 1..Len(ks) : ks[i] \in changed[o]
    BY <1>2
  <1>5. us = [i \in 1..Len(ks) |-> [type |-> "ObjectUpdate", object |-> o,
                                    key |-> ks[i], value |-> objects[o][ks[i]]]]
    BY <1>3, <1>4
  <1>6. us \in [1..Len(ks) -> UpdatesOf(objects)]
    <2> SUFFICES ASSUME NEW i \in 1..Len(ks) PROVE us[i] \in UpdatesOf(objects)
      BY <1>5
    <2>1. ks[i] \in Prop /\ objects[o][ks[i]] \in Value
      BY <1>0, <1>4
    <2>2. us[i] = [type |-> "ObjectUpdate", object |-> o, key |-> ks[i], value |-> objects[o][ks[i]]]
      BY <1>5
    <2>3. objects[o] # None
      BY DEF Live
    <2>4. us[i] \in ObjectUpdates
      BY <1>0, <2>1, <2>2 DEF ObjectUpdates
    <2>5. us[i].object = o /\ us[i].value = objects[o][us[i].key]
      BY <2>2
    <2> QED
      BY <2>3, <2>4, <2>5 DEF UpdatesOf
  <1>7. us \in Seq(UpdatesOf(objects)) /\ Len(us) = Len(ks)
    BY <1>4, <1>6
  <1>8. \A i \in 1..Len(ks) : us[i].object = o /\ us[i].key = ks[i]
    BY <1>5
  <1>9. /\ \A i \in 1..Len(us) : us[i].object = o /\ us[i].key \in changed[o]
        /\ \A k \in changed[o] : \E i \in 1..Len(us) : us[i].key = k
    BY <1>2, <1>4, <1>7, <1>8
  <1> QED
    BY <1>7, <1>9 DEF us

LEMMA UpdateFramesAre ==
    ASSUME LocalType
    PROVE  /\ UpdateFrames \in Seq(UpdatesOf(objects))
           /\ \A o \in ObjectId, k \in Prop :
                Writes(UpdateFrames, o, k) <=> o \in Live(dirty) /\ k \in changed[o]
  <1> DEFINE ds == SetToSeq(Live(dirty))
             seqs == [i \in DOMAIN ds |-> UpdatesFor(ds[i])]
             all == FlattenSeq(seqs)
             F == UpdatesOf(objects)
  <1>0. Live(dirty) \subseteq Live(ObjectId) /\ Live(dirty) \subseteq ObjectId
    BY DEF Live, LocalType
  <1>1. IsFiniteSet(Live(dirty))
    BY <1>0, SessionAssumption, FS_Subset
  <1>2. ds \in Seq(Live(dirty)) /\ \A o \in Live(dirty) : \E i \in 1..Len(ds) : ds[i] = o
    BY <1>1, SeqOfSet
  <1>3. UpdateFrames = all
    BY DEF UpdateFrames
  <1> HIDE DEF ds
  <1>4. DOMAIN ds = 1..Len(ds) /\ Len(ds) \in Nat /\ \A i \in 1..Len(ds) : ds[i] \in Live(dirty)
    BY <1>2, ElementOf
  <1> HIDE DEF F
  <1>5. ASSUME NEW i \in 1..Len(ds)
        PROVE  /\ seqs[i] \in Seq(F)
               /\ \A j \in 1..Len(seqs[i]) : seqs[i][j].object = ds[i] /\ seqs[i][j].key \in changed[ds[i]]
               /\ \A k \in changed[ds[i]] : \E j \in 1..Len(seqs[i]) : seqs[i][j].key = k
    <2>1. ds[i] \in Live(ObjectId) /\ seqs[i] = UpdatesFor(ds[i])
      BY <1>0, <1>4
    <2> DEFINE o == ds[i]
               us == UpdatesFor(o)
    <2>2. /\ us \in Seq(F)
          /\ \A j \in 1..Len(us) : us[j].object = o /\ us[j].key \in changed[o]
          /\ \A k \in changed[o] : \E j \in 1..Len(us) : us[j].key = k
      <3> HIDE DEF o
      <3>1. o \in Live(ObjectId)
        BY <2>1 DEF o
      <3> QED
        BY <3>1, UpdatesForAre DEF F
    <2> HIDE DEF seqs, us
    <2> QED
      BY <2>1, <2>2 DEF us
  <1>6. seqs \in [1..Len(ds) -> Seq(F)]
    <2>1. seqs = [i \in 1..Len(ds) |-> seqs[i]]
      BY <1>4
    <2> HIDE DEF seqs
    <2> QED
      BY <1>5, <2>1
  <1> HIDE DEF seqs
  <1>7. seqs \in Seq(Seq(F)) /\ Len(seqs) = Len(ds)
    BY <1>4, <1>6
  <1>8. /\ all \in Seq(F)
        /\ \A i \in 1..Len(all) : \E n \in 1..Len(seqs) : \E j \in 1..Len(seqs[n]) : all[i] = seqs[n][j]
        /\ \A n \in 1..Len(seqs) : \A j \in 1..Len(seqs[n]) : \E i \in 1..Len(all) : all[i] = seqs[n][j]
    BY <1>7, FlattenHas
  <1> HIDE DEF all
  <1>9. ASSUME NEW o \in ObjectId, NEW k \in Prop, Writes(all, o, k)
        PROVE  o \in Live(dirty) /\ k \in changed[o]
    <2>1. PICK i \in 1..Len(all) : all[i].object = o /\ all[i].key = k
      BY <1>9 DEF Writes
    <2>2. PICK n \in 1..Len(seqs) : \E j \in 1..Len(seqs[n]) : all[i] = seqs[n][j]
      BY <1>8
    <2>3. PICK j \in 1..Len(seqs[n]) : all[i] = seqs[n][j]
      BY <2>2
    <2>4. n \in 1..Len(ds)
      BY <1>7
    <2>5. seqs[n][j].object = ds[n] /\ seqs[n][j].key \in changed[ds[n]]
      BY <1>5, <2>4
    <2> QED
      BY <1>4, <2>1, <2>3, <2>4, <2>5
  <1>10. ASSUME NEW o \in ObjectId, NEW k \in Prop, o \in Live(dirty), k \in changed[o]
         PROVE  Writes(all, o, k)
    <2>1. PICK n \in 1..Len(ds) : ds[n] = o
      BY <1>2, <1>10
    <2>2. PICK j \in 1..Len(seqs[n]) : seqs[n][j].key = k
      BY <1>5, <1>10, <2>1
    <2>3. seqs[n][j].object = o
      BY <1>5, <2>1
    <2>4. n \in 1..Len(seqs)
      BY <1>7
    <2>5. PICK i \in 1..Len(all) : all[i] = seqs[n][j]
      BY <1>8, <2>4
    <2> QED
      BY <2>2, <2>3, <2>5 DEF Writes
  <1> QED
    BY <1>3, <1>8, <1>9, <1>10 DEF F

LEMMA MoveFramesAre ==
    ASSUME LocalType, NEW c \in States
    PROVE  /\ MoveFrames \in Seq(PeerUpdates)
           /\ HandleAll(c, MoveFrames) = [c EXCEPT !.room = IF moved THEN room ELSE c.room]
  <1>1. CASE moved
    <2> DEFINE f == [type |-> "PeerUpdate", room |-> room]
    <2>1. f \in PeerUpdates /\ f.room = room
      BY DEF PeerUpdates, LocalType, Local, States
    <2>2. MoveFrames = <<f>>
      BY <1>1 DEF MoveFrames
    <2> HIDE DEF f
    <2>3. HandleAll(c, <<f>>) = [c EXCEPT !.room = room]
      BY <2>1, HandleOne, HandlePeerUpdate
    <2> QED
      BY <1>1, <2>1, <2>2, <2>3
  <1>2. CASE ~moved
    <2>1. MoveFrames = <<>>
      BY <1>2 DEF MoveFrames
    <2>2. c = [c EXCEPT !.room = c.room]
      BY DEF States
    <2> QED
      BY <1>2, <2>1, <2>2, HandleNone
  <1> QED
    BY <1>1, <1>2

(* What run() sends of the sets. *)
Drainable == PeerUpdates \cup UpdatesOf(objects) \cup CreatesOf(objects) \cup ObjectRemoves

LEMMA DrainIsDrainable ==
    ASSUME LocalType
    PROVE  DrainFrames \in Seq(Drainable)
  <1>1. /\ MoveFrames \in Seq(Drainable) /\ UpdateFrames \in Seq(Drainable)
        /\ CreateFrames \in Seq(Drainable) /\ RemoveFrames \in Seq(Drainable)
    <2>1. CreatesOf(objects) \subseteq Drainable /\ UpdatesOf(objects) \subseteq Drainable
          /\ ObjectRemoves \subseteq Drainable /\ PeerUpdates \subseteq Drainable
      BY DEF Drainable
    <2>2. \A S \in SUBSET Drainable : Seq(S) \subseteq Seq(Drainable)
      BY SeqWider
    <2>3. \E c : c \in States
      BY DEF LocalType
    <2>4. MoveFrames \in Seq(PeerUpdates)
      BY <2>3, MoveFramesAre
    <2> QED
      BY <2>1, <2>2, <2>4, UpdateFramesAre, CreateFramesAre, RemoveFramesAre
  <1> QED
    BY <1>1, DrainParts

LEMMA DrainIsFrames ==
    ASSUME LocalType
    PROVE  DrainFrames \in Seq(Frame)
  <1>1. Drainable \subseteq Frame
    BY DEF Drainable, CreatesOf, UpdatesOf, Frame
  <1> QED
    BY <1>1, DrainIsDrainable, SeqWider

(* What a drain makes of the server's copy c. *)
Drained(a, c) ==
    /\ a \in States
    /\ a.room = IF moved THEN room ELSE c.room
    /\ \A o \in ObjectId :
         /\ o \in removed => a.objects[o] = None
         /\ o \in Live(added) \ removed => a.objects[o] = objects[o]
         /\ o \notin Live(added) \cup removed =>
              /\ a.objects[o] = None <=> c.objects[o] = None
              /\ c.objects[o] # None =>
                   \A k \in Prop :
                     a.objects[o][k] = IF o \in Live(dirty) /\ k \in changed[o] THEN objects[o][k]
                                       ELSE c.objects[o][k]

LEMMA DrainDoes ==
    ASSUME LocalType, NEW c \in States
    PROVE  Drained(HandleAll(c, DrainFrames), c)
  <1> DEFINE c1 == HandleAll(c, MoveFrames)
             c2 == HandleAll(c1, UpdateFrames)
             c3 == HandleAll(c2, CreateFrames)
             c4 == HandleAll(c3, RemoveFrames)
  <1>1. c1 \in States /\ c1.room = (IF moved THEN room ELSE c.room) /\ c1.objects = c.objects
    BY MoveFramesAre DEF States, LocalType, Local
  <1>2. AfterUpdates(c2, c1, UpdateFrames, objects)
    <2> HIDE DEF c1
    <2> QED
      BY <1>1, UpdateFramesAre, UpdatesDo
  <1>3. AfterCreates(c3, c2, CreateFrames, objects)
    <2>1. c2 \in States
      BY <1>2 DEF AfterUpdates
    <2> HIDE DEF c2
    <2> QED
      BY <2>1, CreateFramesAre, CreatesDo
  <1>4. AfterRemoves(c4, c3, RemoveFrames)
    <2>1. c3 \in States
      BY <1>3 DEF AfterCreates
    <2> HIDE DEF c3
    <2> QED
      BY <2>1, RemoveFramesAre, RemovesDo
  <1>5. HandleAll(c, DrainFrames) = c4
    <2>1. /\ MoveFrames \in Seq(Frame) /\ UpdateFrames \in Seq(Frame)
          /\ CreateFrames \in Seq(Frame) /\ RemoveFrames \in Seq(Frame)
      <3>1. CreatesOf(objects) \subseteq Frame /\ UpdatesOf(objects) \subseteq Frame
            /\ ObjectRemoves \subseteq Frame /\ PeerUpdates \subseteq Frame
        BY DEF CreatesOf, UpdatesOf, Frame
      <3>2. \A S \in SUBSET Frame : Seq(S) \subseteq Seq(Frame)
        BY SeqWider
      <3> QED
        BY <3>1, <3>2, MoveFramesAre, UpdateFramesAre, CreateFramesAre, RemoveFramesAre
    <2> DEFINE s1 == MoveFrames \o UpdateFrames
               s2 == s1 \o CreateFrames
    <2>2. HandleAll(c, s1) = c2
      BY <2>1, HandleBoth
    <2>3. s1 \in Seq(Frame) /\ s2 \in Seq(Frame)
      BY <2>1
    <2>4. DrainFrames = s2 \o RemoveFrames
      BY DrainParts
    <2> HIDE DEF s1
    <2>5. HandleAll(c, s2) = HandleAll(HandleAll(c, s1), CreateFrames)
      BY <2>1, <2>3, HandleBoth
    <2> HIDE DEF s2
    <2>6. HandleAll(c, s2 \o RemoveFrames) = HandleAll(HandleAll(c, s2), RemoveFrames)
      BY <2>1, <2>3, HandleBoth
    <2> QED
      BY <2>2, <2>4, <2>5, <2>6
  <1> HIDE DEF c1, c2, c3, c4
  <1>6. Drained(c4, c)
    <2>1. c4 \in States /\ c4.room = IF moved THEN room ELSE c.room
      BY <1>1, <1>2, <1>3, <1>4 DEF AfterUpdates, AfterCreates, AfterRemoves
    <2> SUFFICES ASSUME NEW o \in ObjectId
                 PROVE  /\ o \in removed => c4.objects[o] = None
                        /\ o \in Live(added) \ removed => c4.objects[o] = objects[o]
                        /\ o \notin Live(added) \cup removed =>
                             /\ c4.objects[o] = None <=> c.objects[o] = None
                             /\ c.objects[o] # None =>
                                  \A k \in Prop :
                                    c4.objects[o][k] =
                                      IF o \in Live(dirty) /\ k \in changed[o] THEN objects[o][k]
                                      ELSE c.objects[o][k]
      BY <2>1 DEF Drained
    <2>2. c4.objects[o] = IF o \in removed THEN None ELSE c3.objects[o]
      BY <1>4, RemoveFramesAre DEF AfterRemoves
    <2>3. c3.objects[o] = IF o \in Live(added) THEN objects[o] ELSE c2.objects[o]
      BY <1>3, CreateFramesAre DEF AfterCreates
    <2>4. c2.objects[o] = None <=> c.objects[o] = None
      BY <1>1, <1>2 DEF AfterUpdates
    <2>5. c.objects[o] # None =>
            \A k \in Prop : c2.objects[o][k] = IF o \in Live(dirty) /\ k \in changed[o]
                                               THEN objects[o][k] ELSE c.objects[o][k]
      BY <1>1, <1>2, UpdateFramesAre DEF AfterUpdates
    <2> QED
      BY <2>2, <2>3, <2>4, <2>5
  <1> QED
    BY <1>5, <1>6

(* A drain settles the copy on two grounds: what is in a set is sent, and what is in
   none the copy has already. *)
Settles(c) ==
    /\ ~moved => c.room = room
    /\ \A o \in ObjectId :
         /\ o \in removed => objects[o] = None
         /\ o \notin Live(added) \cup removed =>
              /\ c.objects[o] = None <=> objects[o] = None
              /\ objects[o] # None =>
                   \A k \in Prop : ~(o \in dirty /\ k \in changed[o]) =>
                                     c.objects[o][k] = objects[o][k]

LEMMA SettlesIff ==
    ASSUME LocalType, NEW c \in States
    PROVE  HandleAll(c, DrainFrames) = Local <=> Settles(c)
  <1> DEFINE a == HandleAll(c, DrainFrames)
  <1>1. Drained(a, c)
    BY DrainDoes
  <1> HIDE DEF a
  <1>2. a \in States /\ Local \in States /\ Local.objects = objects /\ Local.room = room
    BY <1>1 DEF Drained, LocalType, Local
  <1>3. ASSUME a = Local PROVE Settles(c)
    BY <1>1, <1>2, <1>3 DEF Drained, Settles, Live
  <1>4. ASSUME Settles(c) PROVE a = Local
    <2>1. a.room = room
      BY <1>1, <1>4 DEF Drained, Settles, LocalType
    <2>2. ASSUME NEW o \in ObjectId PROVE a.objects[o] = objects[o]
      <3>1. CASE o \in removed
        BY <1>1, <1>4, <3>1 DEF Drained, Settles
      <3>2. CASE o \in Live(added) \ removed
        BY <1>1, <3>2 DEF Drained
      <3>3. CASE o \notin Live(added) \cup removed
        <4>1. a.objects[o] = None <=> objects[o] = None
          BY <1>1, <1>4, <3>3 DEF Drained, Settles
        <4>2. CASE objects[o] # None
          <5>1. \A k \in Prop : a.objects[o][k] = objects[o][k]
            BY <1>1, <1>4, <3>3, <4>2 DEF Drained, Settles, Live
          <5>2. a.objects[o] \in [Prop -> Value] /\ objects[o] \in [Prop -> Value]
            BY <1>2, <4>1, <4>2 DEF States, Value
          <5> QED
            BY <5>1, <5>2
        <4> QED
          BY <4>1, <4>2
      <3> QED
        BY <3>1, <3>2, <3>3
    <2>3. a.objects = objects
      <3>1. a.objects \in [ObjectId -> [Prop -> 1..MaxEdits] \cup {None}]
            /\ objects \in [ObjectId -> [Prop -> 1..MaxEdits] \cup {None}]
        BY <1>2 DEF States
      <3> QED
        BY <2>2, <3>1
    <2> QED
      BY <1>2, <2>1, <2>3 DEF States
  <1> QED
    BY <1>3, <1>4 DEF a

-----------------------------------------------------------------------------
(* The inductive invariant. *)
Types ==
    /\ LocalType
    /\ used \subseteq ObjectId
    /\ creating \subseteq ObjectId
    /\ permit \in BOOLEAN
    /\ ready \in BOOLEAN
    /\ waking \in BOOLEAN
    /\ conn \in Slot \cup {None}
    /\ entry \in [Slot -> {"gone", "open", "challenged", "in"}]
    /\ inbox \in [Slot -> Seq(Frame)]
    /\ copy \in [Slot -> States]
    /\ edits \in 0..MaxEdits

(* Nothing is read of a connection after it, no id is used twice, and what was
   removed is gone. *)
Orderly ==
    /\ ready => conn # None
    /\ waking => ready
    /\ \A s \in Slot : entry[s] = "gone" => inbox[s] = <<>>
    /\ removed \subseteq used
    /\ \A o \in removed : objects[o] = None

(* What the server's copy will be once it has handled all that was sent. *)
Arrived == HandleAll(copy[conn], inbox[conn])

Settled == ready /\ entry[conn] # "gone" => Settles(Arrived)

Quiet == ready /\ entry[conn] # "gone" /\ ~permit /\ ~waking /\ creating = {}

IInv == Types /\ Orderly /\ Settled /\ NothingWaits

LEMMA TypesImply == Types /\ Orderly => TypeOK
  BY DEF Types, Orderly, TypeOK, LocalType

LEMMA ConnSlot == Types /\ Orderly /\ ready => conn \in Slot /\ conn # None
  BY DEF Types, Orderly

LEMMA LostIff ==
    ASSUME Types, Orderly
    PROVE  Settled <=> NothingLost
  <1>1. SUFFICES ASSUME ready, entry[conn] # "gone"
                 PROVE  Settles(Arrived) <=> HandleAll(copy[conn], inbox[conn] \o DrainFrames) = Local
    BY DEF Settled, NothingLost
  <1>2. conn \in Slot
    BY <1>1, ConnSlot
  <1> DEFINE c == copy[conn]
             s == inbox[conn]
             d == DrainFrames
  <1>3. c \in States /\ s \in Seq(Frame) /\ d \in Seq(Frame)
    BY <1>2, DrainIsFrames DEF Types
  <1>4. Arrived = HandleAll(c, s)
    BY DEF Arrived
  <1>5. HandleAll(HandleAll(c, s), d) = Local <=> Settles(HandleAll(c, s))
    <2>1. HandleAll(c, s) \in States
      BY <1>3, HandleAllType
    <2> QED
      BY <2>1, SettlesIff DEF Types
  <1> HIDE DEF c, s, d
  <1>6. HandleAll(c, s \o d) = HandleAll(HandleAll(c, s), d)
    BY <1>3, HandleBoth
  <1>7. Settles(Arrived) <=> HandleAll(c, s \o d) = Local
    BY <1>4, <1>5, <1>6
  <1> QED
    BY <1>7 DEF c, s, d

LEMMA ArrivedType ==
    ASSUME Types, Orderly, ready
    PROVE  Arrived \in States
  BY ConnSlot, HandleAllType DEF Types, Arrived

-----------------------------------------------------------------------------
LEMMA EditType ==
    ASSUME edits \in 0..MaxEdits, Edit
    PROVE  edits' \in 0..MaxEdits /\ New \in Value
  BY SessionAssumption DEF Edit, New, Value

LEMMA ReadyFrames ==
    ASSUME Types, NEW s \in Slot, inbox[s] # <<>>
    PROVE  Head(inbox[s]) \in Frame /\ Tail(inbox[s]) \in Seq(Frame)
  BY DEF Types

LEMMA TransmitType ==
    ASSUME Types, conn \in Slot, NEW frames \in Seq(Frame), Transmit(frames)
    PROVE  /\ inbox' \in [Slot -> Seq(Frame)]
           /\ \A s \in Slot : entry[s] = "gone" => inbox'[s] = inbox[s]
           /\ entry[conn] # "gone" => inbox'[conn] = inbox[conn] \o frames
           /\ \A s \in Slot \ {conn} : inbox'[s] = inbox[s]
  BY DEF Types, Transmit

LEMMA EmptyType == Empty \in States
  BY DEF Empty, States

LEMMA TypesInit == Init => Types /\ Orderly
  <1> SUFFICES ASSUME Init PROVE Types /\ Orderly
    OBVIOUS
  <1>1. Local = Empty
    BY DEF Init, Local, Empty
  <1>2. LocalType
    BY <1>1, EmptyType DEF Init, LocalType
  <1>3. inbox \in [Slot -> Seq(Frame)] /\ copy \in [Slot -> States]
    BY EmptyType DEF Init
  <1>4. edits \in 0..MaxEdits /\ conn \in Slot \cup {None}
        /\ entry \in [Slot -> {"gone", "open", "challenged", "in"}]
    BY SessionAssumption DEF Init
  <1> QED
    BY <1>2, <1>3, <1>4 DEF Init, Types, Orderly

LEMMA TypesNext ==
    ASSUME Types, Orderly, [Next]_vars
    PROVE  Types' /\ Orderly'
  <1> USE DEF localVars, serverVars, runVars
  <1>0. objects \in [ObjectId -> [Prop -> Value] \cup {None}] /\ room \in ObjectId \cup {NoRoom}
    BY DEF Types, LocalType, Local, States, Value
  <1>a. ASSUME objects' \in [ObjectId -> [Prop -> Value] \cup {None}], room' \in ObjectId \cup {NoRoom},
               changed' \in [ObjectId -> SUBSET Prop], dirty' \subseteq ObjectId,
               added' \subseteq ObjectId, removed' \subseteq ObjectId, moved' \in BOOLEAN
        PROVE  LocalType'
    BY <1>a DEF LocalType, Local, States, Value
  <1>b. ASSUME UNCHANGED <<objects, room, changed, dirty, added, removed, moved>> PROVE LocalType'
    BY <1>b DEF LocalType, Local, Types
  <1>1. CASE UNCHANGED vars
    BY <1>1, <1>b DEF vars, Types, Orderly
  <1>2. ASSUME NEW o \in ObjectId, CreateObject(o) PROVE Types' /\ Orderly'
    <2>1. New \in Value /\ edits' \in 0..MaxEdits
      BY <1>2, EditType DEF CreateObject, Types
    <2>2. LocalType'
      <3>1. [k \in Prop |-> New] \in [Prop -> Value]
        BY <2>1
      <3> QED
        BY <1>0, <1>2, <1>a, <3>1 DEF CreateObject, Types, LocalType
    <2>3. Types'
      BY <1>2, <2>1, <2>2 DEF CreateObject, Types
    <2>4. o \notin removed
      BY <1>2 DEF CreateObject, Orderly
    <2> QED
      BY <1>0, <1>2, <2>3, <2>4 DEF CreateObject, Orderly, Types, LocalType
  <1>3. ASSUME NEW o \in ObjectId, CreateNotify(o) PROVE Types' /\ Orderly'
    BY <1>3, <1>b DEF CreateNotify, Types, Orderly
  <1>4. ASSUME NEW o \in ObjectId, NEW k \in Prop, ObjectUpdate(o, k) PROVE Types' /\ Orderly'
    <2>1. New \in Value /\ edits' \in 0..MaxEdits
      BY <1>4, EditType DEF ObjectUpdate, Types
    <2>2. objects' = [objects EXCEPT ![o] = [objects[o] EXCEPT ![k] = New]]
          /\ objects[o] \in [Prop -> Value]
      BY <1>0, <1>4 DEF ObjectUpdate
    <2>3. LocalType'
      BY <1>0, <1>4, <1>a, <2>1, <2>2 DEF ObjectUpdate, Types, LocalType
    <2>4. Types'
      BY <1>4, <2>1, <2>3 DEF ObjectUpdate, Types
    <2>5. o \notin removed
      BY <1>4 DEF ObjectUpdate, Orderly
    <2> QED
      BY <1>0, <1>4, <2>2, <2>4, <2>5 DEF ObjectUpdate, Orderly, Types, LocalType
  <1>5. ASSUME NEW o \in ObjectId, RemoveObject(o) PROVE Types' /\ Orderly'
    <2>1. edits' \in 0..MaxEdits
      BY <1>5, EditType DEF RemoveObject, Types
    <2>2. LocalType'
      BY <1>0, <1>5, <1>a DEF RemoveObject, Types, LocalType
    <2>3. Types'
      BY <1>5, <2>1, <2>2 DEF RemoveObject, Types
    <2> QED
      BY <1>0, <1>5, <2>3 DEF RemoveObject, Orderly, Types, LocalType
  <1>6. ASSUME NEW r, SetRoom(r) PROVE Types' /\ Orderly'
    <2>1. edits' \in 0..MaxEdits
      BY <1>6, EditType DEF SetRoom, Types
    <2>2. LocalType'
      BY <1>0, <1>6, <1>a DEF SetRoom, Types, LocalType
    <2>3. Types'
      BY <1>6, <2>1, <2>2 DEF SetRoom, Types
    <2> QED
      BY <1>6, <2>3 DEF SetRoom, Orderly
  <1>7. ASSUME NEW s \in Slot, Dial(s) PROVE Types' /\ Orderly'
    <2>1. <<[type |-> "Hello"]>> \in Seq(Frame)
      BY DEF Frame, Hellos
    <2> DEFINE hello == <<[type |-> "Hello"]>>
    <2> HIDE DEF hello
    <2>2. inbox' = [inbox EXCEPT ![s] = hello] /\ hello \in Seq(Frame)
      BY <1>7, <2>1 DEF Dial, hello
    <2>3. conn' \in Slot /\ conn' # None
      BY <1>7, SessionAssumption DEF Dial
    <2> QED
      BY <1>7, <1>b, <2>2, <2>3 DEF Dial, Types, Orderly
  <1>8. ASSUME NEW s \in Slot, Receive(s) PROVE Types' /\ Orderly'
    <2> DEFINE f == Head(inbox[s])
    <2>1. f \in Frame /\ Tail(inbox[s]) \in Seq(Frame) /\ Handle(copy[s], f) \in States
      BY <1>8, ReadyFrames, HandleType DEF Receive, Types
    <2>2. CASE Forget(s)
      BY <1>8, <1>b, <2>2, EmptyType DEF Forget, Receive, Types, Orderly
    <2>3. CASE ~Forget(s)
      <3>1. /\ inbox' = [inbox EXCEPT ![s] = Tail(inbox[s])]
            /\ entry' = [entry EXCEPT ![s] = IF f.type = "Hello" THEN "challenged" ELSE "in"]
            /\ copy' = [copy EXCEPT ![s] = Handle(copy[s], f)]
        BY <1>8, <2>3 DEF Receive
      <3>2. UNCHANGED <<localVars, runVars, losses>>
        BY <1>8 DEF Receive
      <3> HIDE DEF f
      <3>3. Types'
        BY <1>b, <2>1, <3>1, <3>2 DEF Types
      <3>4. entry'[s] # "gone"
        BY <3>1 DEF Types
      <3> QED
        BY <3>1, <3>2, <3>3, <3>4 DEF Orderly, Types
    <2> QED
      BY <2>2, <2>3
  <1>9. ASSUME NEW s \in Slot, Expire(s) PROVE Types' /\ Orderly'
    BY <1>9, <1>b, EmptyType DEF Expire, Forget, Types, Orderly
  <1>10. ASSUME Answer PROVE Types' /\ Orderly'
    <2> DEFINE f == [type |-> "Connect", state |-> Local]
    <2>1. f \in Frame
      BY DEF Frame, Connects, Types, LocalType
    <2> HIDE DEF f
    <2>2. conn \in Slot /\ Transmit(<<f>>) /\ <<f>> \in Seq(Frame)
      BY <1>10, <2>1 DEF Answer, Types, f
    <2> QED
      BY <1>10, <1>b, <2>2, TransmitType DEF Answer, Types, Orderly
  <1>11. ASSUME Wake PROVE Types' /\ Orderly'
    BY <1>11, <1>b DEF Wake, Types, Orderly
  <1>12. ASSUME Drain PROVE Types' /\ Orderly'
    <2>1. conn \in Slot /\ DrainFrames \in Seq(Frame) /\ Transmit(DrainFrames)
      BY <1>12, DrainIsFrames DEF Drain, Types, Orderly
    <2>2. LocalType'
      BY <1>0, <1>12, <1>a DEF Drain, Types, LocalType
    <2> QED
      BY <1>12, <2>1, <2>2, TransmitType DEF Drain, Types, Orderly
  <1>13. ASSUME Lose \/ SeeEnd PROVE Types' /\ Orderly'
    BY <1>13, <1>b DEF Lose, SeeEnd, HangUp, Types, Orderly
  <1>14. ASSUME Drop PROVE Types' /\ Orderly'
    <2>1. conn \in Slot
      BY <1>14 DEF Drop, Types
    <2> QED
      BY <1>14, <1>b, <2>1, EmptyType DEF Drop, Forget, Types, Orderly
  <1> QED
    BY <1>1, <1>2, <1>3, <1>4, <1>5, <1>6, <1>7, <1>8, <1>9, <1>10, <1>11, <1>12, <1>13, <1>14
       DEF Next

(* A step of the server changes nothing of what will have arrived. *)
LEMMA ReceiveKeeps ==
    ASSUME Types, Orderly, NEW s \in Slot, Receive(s), ready, entry'[conn] # "gone"
    PROVE  entry[conn] # "gone" /\ Arrived' = Arrived
  <1> USE DEF localVars, serverVars, runVars
  <1>0. conn \in Slot /\ UNCHANGED conn
    BY ConnSlot DEF Receive
  <1>1. Arrived' = HandleAll(copy'[conn], inbox'[conn])
    BY <1>0 DEF Arrived
  <1> DEFINE f == Head(inbox[s])
  <1>2. CASE s # conn
    <2>1. inbox'[conn] = inbox[conn] /\ copy'[conn] = copy[conn] /\ entry'[conn] = entry[conn]
      BY <1>0, <1>2 DEF Receive, Forget, Types
    <2> QED
      BY <1>1, <2>1 DEF Arrived
  <1>3. CASE s = conn
    <2>1. inbox[s] # <<>> /\ ~Forget(s)
      BY <1>0, <1>3 DEF Receive, Forget, Types
    <2>2. inbox' = [inbox EXCEPT ![s] = Tail(inbox[s])] /\ copy' = [copy EXCEPT ![s] = Handle(copy[s], f)]
      BY <2>1 DEF Receive
    <2>3. inbox'[s] = Tail(inbox[s]) /\ copy'[s] = Handle(copy[s], f) /\ inbox[s] \in Seq(Frame)
      BY <2>2 DEF Types
    <2>4. HandleAll(copy[s], inbox[s]) = HandleAll(Handle(copy[s], f), Tail(inbox[s]))
      BY <2>1, <2>3, HandleFirst
    <2>5. entry[conn] # "gone"
      BY <1>0, <1>3, <2>1 DEF Orderly
    <2> QED
      BY <1>1, <1>3, <2>3, <2>4, <2>5 DEF Arrived
  <1> QED
    BY <1>2, <1>3

LEMMA AnswerSends ==
    ASSUME Types, Orderly, Answer
    PROVE  Arrived' = Local /\ UNCHANGED localVars
  <1>1. conn \in Slot /\ conn' = conn /\ copy' = copy
    BY DEF Answer, Types
  <1> DEFINE f == [type |-> "Connect", state |-> Local]
             s == inbox[conn]
             c == copy[conn]
  <1>2. f \in Connects /\ f \in Frame /\ f.state = Local
    BY DEF Frame, Connects, Types, LocalType
  <1>3. inbox'[conn] = Append(s, f)
    <2>1. s \in Seq(Frame) /\ Append(s, f) = s \o <<f>>
      BY <1>1, <1>2 DEF Types
    <2>2. inbox' = [inbox EXCEPT ![conn] = s \o <<f>>]
      BY DEF Answer, Transmit
    <2> QED
      BY <1>1, <2>1, <2>2 DEF Types
  <1>4. s \in Seq(Frame)
    BY <1>1 DEF Types
  <1>5. Arrived' = HandleAll(c, Append(s, f))
    BY <1>1, <1>3 DEF Arrived
  <1>6. UNCHANGED localVars
    BY DEF Answer
  <1> HIDE DEF f, s, c
  <1>7. HandleAll(c, Append(s, f)) = Handle(HandleAll(c, s), f)
    BY <1>2, <1>4, HandleAppend
  <1> QED
    BY <1>2, <1>5, <1>6, <1>7, HandleConnect

LEMMA DrainSends ==
    ASSUME Types, Orderly, Settled, Drain, entry[conn] # "gone"
    PROVE  Arrived' = Local
  <1>1. conn \in Slot /\ ready /\ conn' = conn /\ copy' = copy
    BY ConnSlot DEF Drain, Types, Orderly
  <1>2. inbox'[conn] = inbox[conn] \o DrainFrames
    BY <1>1, DrainIsFrames, TransmitType DEF Drain, Types
  <1>3. Arrived' = HandleAll(copy[conn], inbox[conn] \o DrainFrames)
    BY <1>1, <1>2 DEF Arrived
  <1> QED
    BY <1>1, <1>3, LostIff DEF NothingLost

-----------------------------------------------------------------------------
LEMMA SettledNext ==
    ASSUME Types, Orderly, Settled, [Next]_vars
    PROVE  Settled'
  <1> USE DEF localVars, serverVars, runVars
  <1> SUFFICES ASSUME ready', entry'[conn'] # "gone" PROVE Settles(Arrived)'
    BY DEF Settled
  <1>a. ASSUME ready, conn' = conn, entry' = entry, inbox' = inbox, copy' = copy
        PROVE  Arrived' = Arrived /\ Settles(Arrived) /\ Arrived \in States
    BY <1>a, ArrivedType DEF Settled, Arrived
  <1>b. ASSUME ready, entry[conn] # "gone", UNCHANGED localVars, Arrived' = Arrived
        PROVE  Settles(Arrived)'
    BY <1>b DEF Settles, Live, Settled
  <1>1. CASE UNCHANGED vars
    BY <1>1, <1>a, <1>b DEF vars
  <1>2. ASSUME NEW o \in ObjectId, CreateObject(o) PROVE Settles(Arrived)'
    <2>1. Arrived' = Arrived /\ Settles(Arrived)
      BY <1>2, <1>a DEF CreateObject
    <2>2. ASSUME NEW p \in ObjectId \ {o}
          PROVE  objects'[p] = objects[p] /\ changed'[p] = changed[p] /\ (p \in added' <=> p \in added)
      BY <1>2 DEF CreateObject, Types, LocalType, Local, States
    <2>3. o \notin removed /\ objects'[o] # None
      <3>1. objects'[o] = [k \in Prop |-> New]
        BY <1>2 DEF CreateObject, Types, LocalType, Local, States
      <3>2. New \in Value
        BY <1>2, EditType DEF CreateObject, Types
      <3> QED
        BY <1>2, <3>1, <3>2, NoneIsNoValue DEF CreateObject, Orderly
    <2>4. UNCHANGED <<room, dirty, removed, moved>> /\ o \in added'
      BY <1>2 DEF CreateObject
    <2> QED
      BY <2>1, <2>2, <2>3, <2>4 DEF Settles, Live
  <1>3. ASSUME NEW o \in ObjectId, CreateNotify(o) PROVE Settles(Arrived)'
    BY <1>3, <1>a DEF CreateNotify, Settles, Live
  <1>4. ASSUME NEW o \in ObjectId, NEW k \in Prop, ObjectUpdate(o, k) PROVE Settles(Arrived)'
    <2>1. Arrived' = Arrived /\ Settles(Arrived)
      BY <1>4, <1>a DEF ObjectUpdate
    <2>2. ASSUME NEW p \in ObjectId \ {o}
          PROVE  objects'[p] = objects[p] /\ changed'[p] = changed[p] /\ (p \in dirty' <=> p \in dirty)
      BY <1>4 DEF ObjectUpdate, Types, LocalType, Local, States
    <2>3. objects[o] \in [Prop -> Value] /\ objects'[o] = [objects[o] EXCEPT ![k] = New] /\ New \in Value
      BY <1>4, EditType DEF ObjectUpdate, Types, LocalType, Local, States, Value
    <2>4. /\ objects'[o] # None /\ objects[o] # None
          /\ \A j \in Prop \ {k} : objects'[o][j] = objects[o][j]
      <3>1. objects'[o] \in [Prop -> Value]
        BY <2>3
      <3> QED
        BY <2>3, <3>1, NoneIsNoValue
    <2>5. UNCHANGED <<room, added, removed, moved>> /\ dirty' = dirty \cup {o}
          /\ changed'[o] = changed[o] \cup {k}
      BY <1>4 DEF ObjectUpdate, Types, LocalType
    <2> QED
      BY <2>1, <2>2, <2>4, <2>5 DEF Settles, Live
  <1>5. ASSUME NEW o \in ObjectId, RemoveObject(o) PROVE Settles(Arrived)'
    <2>1. Arrived' = Arrived /\ Settles(Arrived)
      BY <1>5, <1>a DEF RemoveObject
    <2>2. ASSUME NEW p \in ObjectId \ {o}
          PROVE  /\ objects'[p] = objects[p] /\ changed'[p] = changed[p]
                 /\ (p \in dirty' <=> p \in dirty) /\ (p \in added' <=> p \in added)
                 /\ (p \in removed' <=> p \in removed)
      BY <1>5 DEF RemoveObject, Types, LocalType, Local, States
    <2>3. objects'[o] = None /\ o \in removed'
      BY <1>5 DEF RemoveObject, Types, LocalType, Local, States
    <2>4. ~moved' => ~moved /\ room' = room
      BY <1>5 DEF RemoveObject
    <2> QED
      BY <2>1, <2>2, <2>3, <2>4 DEF Settles, Live
  <1>6. ASSUME NEW r, SetRoom(r) PROVE Settles(Arrived)'
    BY <1>6, <1>a DEF SetRoom, Settles, Live
  <1>7. ASSUME NEW s \in Slot, Dial(s) PROVE Settles(Arrived)'
    BY <1>7 DEF Dial, Orderly
  <1>8. ASSUME NEW s \in Slot, Receive(s) PROVE Settles(Arrived)'
    BY <1>8, <1>b, ReceiveKeeps DEF Receive
  <1>9. ASSUME NEW s \in Slot, Expire(s) PROVE Settles(Arrived)'
    <2>1. inbox'[conn] = inbox[conn] /\ copy'[conn] = copy[conn] /\ entry'[conn] = entry[conn]
          /\ conn' = conn /\ ready
      BY <1>9, ConnSlot DEF Expire, Forget, Types
    <2>2. Arrived' = Arrived
      BY <2>1 DEF Arrived
    <2> QED
      BY <1>9, <1>b, <2>1, <2>2 DEF Expire
  <1>10. ASSUME Answer PROVE Settles(Arrived)'
    <2>1. Arrived' = Local /\ UNCHANGED localVars
      BY <1>10, AnswerSends
    <2>2. Local.room = room /\ Local.objects = objects
      BY DEF Local
    <2> QED
      BY <2>1, <2>2 DEF Settles, Live, Orderly
  <1>11. ASSUME Wake PROVE Settles(Arrived)'
    BY <1>11, <1>a DEF Wake, Settles, Live
  <1>12. ASSUME Drain PROVE Settles(Arrived)'
    <2>1. Arrived' = Local
      BY <1>12, DrainSends DEF Drain
    <2>2. Local.room = room /\ Local.objects = objects
      BY DEF Local
    <2>3. UNCHANGED <<objects, room>> /\ dirty' = {} /\ added' = {} /\ removed' = {}
      BY <1>12 DEF Drain
    <2> QED
      BY <2>1, <2>2, <2>3 DEF Settles, Live
  <1>13. ASSUME Lose \/ SeeEnd PROVE Settles(Arrived)'
    BY <1>13 DEF Lose, SeeEnd, HangUp
  <1>14. ASSUME Drop PROVE Settles(Arrived)'
    BY <1>14 DEF Drop, Forget, Types
  <1> QED
    BY <1>1, <1>2, <1>3, <1>4, <1>5, <1>6, <1>7, <1>8, <1>9, <1>10, <1>11, <1>12, <1>13, <1>14
       DEF Next

LEMMA WaitsIff == NothingWaits <=> (Quiet => Arrived = Local)
  BY DEF NothingWaits, Quiet, Arrived

LEMMA WaitsNext ==
    ASSUME Types, Orderly, Settled, NothingWaits, [Next]_vars
    PROVE  NothingWaits'
  <1> USE DEF localVars, serverVars, runVars
  <1>0. NothingWaits' <=> (Quiet' => Arrived' = Local')
    BY DEF NothingWaits, Quiet, Arrived
  <1> SUFFICES ASSUME Quiet' PROVE Arrived' = Local'
    BY <1>0
  <1>a. ASSUME Quiet, Arrived' = Arrived, UNCHANGED localVars PROVE Arrived' = Local'
    BY <1>a, WaitsIff DEF Local
  <1>1. CASE UNCHANGED vars
    BY <1>1, <1>a DEF vars, Quiet, Arrived
  <1>2. ASSUME NEW o \in ObjectId, CreateObject(o) PROVE FALSE
    BY <1>2 DEF CreateObject, Quiet
  <1>3. ASSUME NEW o \in ObjectId,
               CreateNotify(o) \/ (\E k \in Prop : ObjectUpdate(o, k)) \/ RemoveObject(o)
        PROVE  FALSE
    BY <1>3 DEF CreateNotify, ObjectUpdate, RemoveObject, Quiet
  <1>4. ASSUME NEW r, SetRoom(r) PROVE FALSE
    BY <1>4 DEF SetRoom, Quiet
  <1>5. ASSUME NEW s \in Slot, Dial(s) PROVE FALSE
    BY <1>5 DEF Dial, Orderly, Quiet
  <1>6. ASSUME NEW s \in Slot, Receive(s) PROVE Arrived' = Local'
    <2>1. UNCHANGED <<localVars, runVars>> /\ ready /\ entry'[conn] # "gone"
      BY <1>6 DEF Receive, Quiet
    <2>2. entry[conn] # "gone" /\ Arrived' = Arrived
      BY <1>6, <2>1, ReceiveKeeps
    <2> QED
      BY <1>a, <2>1, <2>2 DEF Quiet
  <1>7. ASSUME NEW s \in Slot, Expire(s) PROVE Arrived' = Local'
    <2>1. UNCHANGED <<localVars, runVars>> /\ ready /\ entry'[conn] # "gone"
      BY <1>7 DEF Expire, Quiet
    <2>2. inbox'[conn] = inbox[conn] /\ copy'[conn] = copy[conn] /\ entry'[conn] = entry[conn]
      BY <1>7, <2>1, ConnSlot DEF Expire, Forget, Types
    <2>3. Arrived' = Arrived
      BY <2>1, <2>2 DEF Arrived
    <2> QED
      BY <1>a, <2>1, <2>2, <2>3 DEF Quiet
  <1>8. ASSUME Answer PROVE Arrived' = Local'
    BY <1>8, AnswerSends DEF Local
  <1>9. ASSUME Wake PROVE FALSE
    BY <1>9 DEF Wake, Quiet
  <1>10. ASSUME Drain PROVE Arrived' = Local'
    <2>1. entry[conn] # "gone" /\ UNCHANGED <<objects, room>>
      BY <1>10 DEF Drain, Quiet
    <2> QED
      BY <1>10, <2>1, DrainSends DEF Local
  <1>11. ASSUME Lose \/ SeeEnd PROVE FALSE
    BY <1>11 DEF Lose, SeeEnd, HangUp, Quiet
  <1>12. ASSUME Drop PROVE FALSE
    BY <1>12 DEF Drop, Forget, Types, Quiet
  <1> QED
    BY <1>1, <1>2, <1>3, <1>4, <1>5, <1>6, <1>7, <1>8, <1>9, <1>10, <1>11, <1>12 DEF Next

LEMMA InvInit == Init => IInv
  BY TypesInit DEF Init, IInv, Settled, NothingWaits

LEMMA InvNext == IInv /\ [Next]_vars => IInv'
  BY TypesNext, SettledNext, WaitsNext DEF IInv

LEMMA InvAlways == Spec => []IInv
  BY InvInit, InvNext, PTL DEF Spec

(* Variables keep their types, and an entry the server has left has no frames. *)
THEOREM TypeCorrect == Spec => []TypeOK
  <1>1. IInv => TypeOK
    BY TypesImply DEF IInv
  <1> QED
    BY <1>1, InvAlways, PTL

(* On a connection that holds, what was sent and what is in the sets amount to what the
   client has, whatever was changed before, during or after the challenge and
   however often it is sent: run() and the snapshot lose nothing. *)
THEOREM NothingIsLost == Spec => []NothingLost
  <1>1. IInv => NothingLost
    BY LostIff DEF IInv
  <1> QED
    BY <1>1, InvAlways, PTL

(* While nobody is about to be woken, all was sent: a permit that was taken by a run
   that was dropped leaves nothing behind in the sets that the next snapshot lacks. *)
THEOREM NothingIsLeftWaiting == Spec => []NothingWaits
  <1>1. IInv => NothingWaits
    BY DEF IInv
  <1> QED
    BY <1>1, InvAlways, PTL

-----------------------------------------------------------------------------
(* The values of key k of object o that a copy has, and that a frame brings. *)
Held(c, o, k) == IF c.objects[o] = None THEN {} ELSE {c.objects[o][k]}

Brought(f, o, k) ==
    IF f.type = "Connect" THEN Held(f.state, o, k)
    ELSE IF f.type = "ObjectCreate" /\ f.object = o THEN {f.props[k]}
    ELSE IF f.type = "ObjectUpdate" /\ f.object = o /\ f.key = k THEN {f.value}
    ELSE {}

(* On the way from copy c through the frames fs to what the client has, l, the values
   of a key do not fall, and none is newer than the last change, m. *)
Rising(c, fs, l, m, o, k) ==
    /\ \A v \in Held(l, o, k) : v <= m
    /\ \A v \in Held(c, o, k) :
         /\ v <= m
         /\ \A w \in Held(l, o, k) : v <= w
         /\ \A i \in 1..Len(fs) : \A w \in Brought(fs[i], o, k) : v <= w
    /\ \A i \in 1..Len(fs) : \A v \in Brought(fs[i], o, k) :
         /\ v <= m
         /\ \A w \in Held(l, o, k) : v <= w
         /\ \A j \in 1..Len(fs) : i < j => \A w \in Brought(fs[j], o, k) : v <= w

Forward ==
    \A s \in Slot, o \in ObjectId, k \in Prop : Rising(copy[s], inbox[s], Local, edits, o, k)

LEMMA HeldType ==
    ASSUME NEW c \in States, NEW o \in ObjectId, NEW k \in Prop
    PROVE  Held(c, o, k) \subseteq Nat
  <1>1. c.objects[o] # None => c.objects[o] \in [Prop -> Value]
    BY DEF States, Value
  <1> QED
    BY <1>1, SessionAssumption DEF Held, Value

LEMMA BroughtType ==
    ASSUME NEW f \in Frame, NEW o \in ObjectId, NEW k \in Prop
    PROVE  Brought(f, o, k) \subseteq Nat
  <1>1. CASE f \in Connects
    BY <1>1, HeldType DEF Connects, Brought
  <1>2. CASE f \in ObjectCreates
    <2>1. f.props[k] \in Value /\ f.type = "ObjectCreate"
      BY <1>2 DEF ObjectCreates
    <2> QED
      BY <2>1 DEF Brought, Value
  <1>3. CASE f \in ObjectUpdates
    BY <1>3 DEF ObjectUpdates, Brought, Value
  <1>4. CASE f \in Hellos \cup PeerUpdates \cup ObjectRemoves
    BY <1>4 DEF Hellos, PeerUpdates, ObjectRemoves, Brought
  <1> QED
    BY <1>1, <1>2, <1>3, <1>4 DEF Frame

(* What is there after a frame was there before it or is brought by it. *)
LEMMA HandleHolds ==
    ASSUME NEW c \in States, NEW f \in Frame, NEW o \in ObjectId, NEW k \in Prop
    PROVE  Held(Handle(c, f), o, k) \subseteq Held(c, o, k) \cup Brought(f, o, k)
  <1>1. CASE f \in Connects
    BY <1>1, HandleConnect DEF Connects, Brought
  <1>2. CASE f \in ObjectCreates
    <2>1. Handle(c, f).objects = [c.objects EXCEPT ![f.object] = f.props] /\ f.type = "ObjectCreate"
      BY <1>2, HandleCreate DEF ObjectCreates, States
    <2>2. f.object \in ObjectId /\ c.objects = [p \in ObjectId |-> c.objects[p]]
      BY <1>2 DEF ObjectCreates, States
    <2> QED
      BY <2>1, <2>2 DEF Brought, Held
  <1>3. CASE f \in ObjectUpdates
    <2>1. f.object \in ObjectId /\ f.key \in Prop /\ f.type = "ObjectUpdate"
      BY <1>3 DEF ObjectUpdates
    <2>2. CASE c.objects[f.object] = None
      BY <1>3, <2>2, HandleUpdate
    <2>3. CASE c.objects[f.object] # None
      <3> DEFINE old == c.objects[f.object]
                 new == [old EXCEPT ![f.key] = f.value]
      <3>1. Handle(c, f).objects = [c.objects EXCEPT ![f.object] = new]
        <4>1. Handle(c, f) = [c EXCEPT !.objects[f.object][f.key] = f.value]
          BY <1>3, <2>3, HandleUpdate
        <4> QED
          BY <4>1 DEF States
      <3>2. old \in [Prop -> Value] /\ c.objects = [p \in ObjectId |-> c.objects[p]]
        BY <2>1, <2>3 DEF States, Value
      <3>3. new[k] = IF k = f.key THEN f.value ELSE old[k]
        BY <2>1, <3>2
      <3>4. Handle(c, f).objects[o] = IF o = f.object THEN new ELSE c.objects[o]
        BY <2>1, <3>1, <3>2
      <3> HIDE DEF new
      <3> QED
        BY <2>1, <2>3, <3>3, <3>4 DEF Brought, Held
    <2> QED
      BY <2>2, <2>3
  <1>4. CASE f \in Hellos
    BY <1>4, HandleHello
  <1>5. CASE f \in PeerUpdates
    <2>1. Handle(c, f).objects = c.objects
      BY <1>5, HandlePeerUpdate DEF States
    <2> QED
      BY <2>1 DEF Held
  <1>6. CASE f \in ObjectRemoves
    <2>1. Handle(c, f).objects = [c.objects EXCEPT ![f.object] = None]
      BY <1>6, HandleRemove DEF States
    <2>2. f.object \in ObjectId /\ c.objects = [p \in ObjectId |-> c.objects[p]]
      BY <1>6 DEF ObjectRemoves, States
    <2> QED
      BY <2>1, <2>2 DEF Held
  <1> QED
    BY <1>1, <1>2, <1>3, <1>4, <1>5, <1>6 DEF Frame

LEMMA RisingHandled ==
    ASSUME NEW c \in States, NEW fs \in Seq(Frame), fs # <<>>, NEW l, NEW m,
           NEW o \in ObjectId, NEW k \in Prop, Rising(c, fs, l, m, o, k)
    PROVE  Rising(Handle(c, Head(fs)), Tail(fs), l, m, o, k)
  <1> DEFINE f == Head(fs)
             d == Handle(c, f)
             rest == Tail(fs)
  <1>1. /\ 1 \in 1..Len(fs) /\ fs[1] = f /\ f \in Frame
        /\ \A i \in 1..Len(rest) : i + 1 \in 1..Len(fs) /\ rest[i] = fs[i + 1] /\ 1 < i + 1
        /\ \A i, j \in 1..Len(rest) : i < j => i + 1 < j + 1
    BY ElementOf
  <1>2. Held(d, o, k) \subseteq Held(c, o, k) \cup Brought(f, o, k)
    BY <1>1, HandleHolds
  <1> HIDE DEF f, d, rest
  <1>3. \A v \in Held(d, o, k) :
          /\ v <= m
          /\ \A w \in Held(l, o, k) : v <= w
          /\ \A i \in 1..Len(rest) : \A w \in Brought(rest[i], o, k) : v <= w
    BY <1>1, <1>2 DEF Rising
  <1>4. \A i \in 1..Len(rest) : \A v \in Brought(rest[i], o, k) :
          /\ v <= m
          /\ \A w \in Held(l, o, k) : v <= w
          /\ \A j \in 1..Len(rest) : i < j => \A w \in Brought(rest[j], o, k) : v <= w
    BY <1>1 DEF Rising
  <1>5. Rising(d, rest, l, m, o, k)
    BY <1>3, <1>4 DEF Rising
  <1> QED
    BY <1>5 DEF d, rest, f

(* Frames that bring what the client has now may follow. *)
LEMMA RisingSent ==
    ASSUME NEW c \in States, NEW fs \in Seq(Frame), NEW l \in States, NEW m,
           NEW o \in ObjectId, NEW k \in Prop, Rising(c, fs, l, m, o, k),
           NEW t \in Seq(Frame), \A i \in 1..Len(t) : Brought(t[i], o, k) \subseteq Held(l, o, k)
    PROVE  Rising(c, fs \o t, l, m, o, k)
  <1> DEFINE n == Len(fs)
             all == fs \o t
  <1>1. /\ n \in Nat /\ Len(t) \in Nat /\ Len(all) = n + Len(t)
        /\ \A i \in 1..n : all[i] = fs[i]
        /\ \A i \in 1..Len(t) : all[n + i] = t[i]
    OBVIOUS
  <1> HIDE DEF all
  <1>2. ASSUME NEW i \in 1..Len(all), i \notin 1..n
        PROVE  Brought(all[i], o, k) \subseteq Held(l, o, k)
    <2>1. i - n \in 1..Len(t) /\ i = n + (i - n)
      BY <1>1, <1>2
    <2> QED
      BY <1>1, <2>1
  <1>3. \A v, w \in Held(l, o, k) : v <= w
    BY HeldType DEF Held
  <1>4. ASSUME NEW v \in Held(c, o, k), NEW i \in 1..Len(all), NEW w \in Brought(all[i], o, k)
        PROVE  v <= w
    <2>1. CASE i \in 1..n
      BY <1>1, <2>1 DEF Rising
    <2>2. CASE i \notin 1..n
      BY <1>2, <2>2 DEF Rising
    <2> QED
      BY <2>1, <2>2
  <1>5. ASSUME NEW i \in 1..Len(all), NEW v \in Brought(all[i], o, k)
        PROVE  v <= m /\ \A w \in Held(l, o, k) : v <= w
    <2>1. CASE i \in 1..n
      BY <1>1, <2>1 DEF Rising
    <2>2. CASE i \notin 1..n
      BY <1>2, <1>3, <2>2 DEF Rising
    <2> QED
      BY <2>1, <2>2
  <1>6. ASSUME NEW i \in 1..Len(all), NEW v \in Brought(all[i], o, k),
               NEW j \in 1..Len(all), i < j, NEW w \in Brought(all[j], o, k)
        PROVE  v <= w
    <2>1. CASE j \in 1..n
      <3>1. i \in 1..n
        BY <1>6, <2>1
      <3> QED
        BY <1>1, <1>6, <2>1, <3>1 DEF Rising
    <2>2. CASE j \notin 1..n
      BY <1>2, <1>5, <2>2
    <2> QED
      BY <2>1, <2>2
  <1>7. Rising(c, all, l, m, o, k)
    BY <1>4, <1>5, <1>6 DEF Rising
  <1> QED
    BY <1>7 DEF all

(* The client makes a value newer than all, or takes one away. *)
LEMMA RisingEdited ==
    ASSUME NEW c \in States, NEW fs \in Seq(Frame), NEW l \in States, NEW m \in Nat,
           NEW o \in ObjectId, NEW k \in Prop, Rising(c, fs, l, m, o, k),
           NEW new, Held(new, o, k) \subseteq Held(l, o, k) \cup {m + 1}
    PROVE  Rising(c, fs, new, m + 1, o, k)
  <1>1. Held(c, o, k) \subseteq Nat /\ \A i \in 1..Len(fs) : Brought(fs[i], o, k) \subseteq Nat
    BY HeldType, BroughtType, ElementOf
  <1>2. \A v \in Held(new, o, k) : v <= m + 1
    <2> SUFFICES ASSUME NEW v \in Held(l, o, k) PROVE v <= m + 1
      OBVIOUS
    <2>1. v <= m
      BY DEF Rising
    <2>2. v \in Nat
      BY HeldType
    <2> QED
      BY <2>1, <2>2
  <1>3. \A v \in Held(c, o, k) :
          /\ v <= m + 1
          /\ \A w \in Held(new, o, k) : v <= w
          /\ \A i \in 1..Len(fs) : \A w \in Brought(fs[i], o, k) : v <= w
    BY <1>1 DEF Rising
  <1>4. \A i \in 1..Len(fs) : \A v \in Brought(fs[i], o, k) :
          /\ v <= m + 1
          /\ \A w \in Held(new, o, k) : v <= w
          /\ \A j \in 1..Len(fs) : i < j => \A w \in Brought(fs[j], o, k) : v <= w
    BY <1>1 DEF Rising
  <1> QED
    BY <1>2, <1>3, <1>4 DEF Rising

LEMMA DrainableBrings ==
    ASSUME LocalType, NEW f \in Drainable, NEW o \in ObjectId, NEW k \in Prop
    PROVE  Brought(f, o, k) \subseteq Held(Local, o, k)
  <1>0. Local.objects = objects
    BY DEF Local
  <1>1. CASE f \in CreatesOf(objects)
    <2>1. f.type = "ObjectCreate" /\ f.props = objects[f.object] /\ f.props \in [Prop -> Value]
      BY <1>1 DEF CreatesOf, ObjectCreates
    <2>2. f.props # None
      BY <2>1, NoneIsNoValue
    <2> QED
      BY <1>0, <2>1, <2>2 DEF Brought, Held
  <1>2. CASE f \in UpdatesOf(objects)
    <2>1. f.type = "ObjectUpdate" /\ f.value = objects[f.object][f.key] /\ objects[f.object] # None
      BY <1>2 DEF UpdatesOf, ObjectUpdates
    <2> QED
      BY <1>0, <2>1 DEF Brought, Held
  <1>3. CASE f \in PeerUpdates \cup ObjectRemoves
    BY <1>3 DEF PeerUpdates, ObjectRemoves, Brought
  <1> QED
    BY <1>1, <1>2, <1>3 DEF Drainable

LEMMA ForwardInit == Init => Forward
  <1> SUFFICES ASSUME Init, NEW s \in Slot, NEW o \in ObjectId, NEW k \in Prop
               PROVE  Rising(copy[s], inbox[s], Local, edits, o, k)
    BY DEF Forward
  <1>1. Held(copy[s], o, k) = {} /\ Held(Local, o, k) = {} /\ inbox[s] = <<>>
    BY DEF Init, Held, Local, Empty
  <1> QED
    BY <1>1 DEF Rising

LEMMA ForwardNext ==
    ASSUME Types, Orderly, Forward, [Next]_vars
    PROVE  Forward'
  <1> USE DEF localVars, serverVars, runVars
  <1> SUFFICES ASSUME NEW t \in Slot, NEW o \in ObjectId, NEW k \in Prop
               PROVE  Rising(copy'[t], inbox'[t], Local', edits', o, k)
    BY DEF Forward
  <1> DEFINE Goal == Rising(copy'[t], inbox'[t], Local', edits', o, k)
  <1>0. /\ Rising(copy[t], inbox[t], Local, edits, o, k)
        /\ copy[t] \in States /\ inbox[t] \in Seq(Frame) /\ Local \in States /\ edits \in Nat
    BY DEF Forward, Types, LocalType
  <1>a. ASSUME UNCHANGED localVars, copy'[t] = copy[t], inbox'[t] = inbox[t] PROVE Goal
    BY <1>0, <1>a DEF Local
  <1>b. ASSUME UNCHANGED <<copy, inbox>>, Edit,
               Held(Local', o, k) \subseteq Held(Local, o, k) \cup {edits + 1}
        PROVE  Goal
    <2>1. copy'[t] = copy[t] /\ inbox'[t] = inbox[t] /\ edits' = edits + 1
      BY <1>b DEF Edit
    <2>2. Rising(copy[t], inbox[t], Local', edits + 1, o, k)
      BY <1>0, <1>b, RisingEdited
    <2> QED
      BY <2>1, <2>2
  <1>c. ASSUME NEW frames \in Seq(Frame), conn \in Slot, UNCHANGED <<objects, room, edits, copy>>,
               Transmit(frames),
               \A i \in 1..Len(frames) : Brought(frames[i], o, k) \subseteq Held(Local, o, k)
        PROVE  Goal
    <2>1. Local' = Local /\ copy'[t] = copy[t] /\ edits' = edits
      BY <1>c DEF Local
    <2>2. inbox'[t] = inbox[t] \/ inbox'[t] = inbox[t] \o frames
      BY <1>c DEF Transmit, Types
    <2>3. Rising(copy[t], inbox[t] \o frames, Local, edits, o, k)
      BY <1>0, <1>c, RisingSent
    <2> QED
      BY <1>0, <2>1, <2>2, <2>3
  <1>d. ASSUME NEW s \in Slot, Forget(s), UNCHANGED localVars PROVE Goal
    <2>1. CASE s = t
      <3>1. copy'[t] = Empty /\ inbox'[t] = <<>> /\ Local' = Local /\ edits' = edits
        BY <1>d, <2>1 DEF Forget, Types, Local
      <3>2. Held(Empty, o, k) = {}
        BY DEF Held, Empty
      <3>3. Rising(Empty, <<>>, Local, edits, o, k)
        BY <1>0, <3>2 DEF Rising
      <3> QED
        BY <3>1, <3>3
    <2>2. CASE s # t
      BY <1>a, <1>d, <2>2 DEF Forget, Types
    <2> QED
      BY <2>1, <2>2
  <1>1. CASE UNCHANGED vars
    BY <1>1, <1>a DEF vars
  <1>2. ASSUME NEW p \in ObjectId, CreateObject(p) PROVE Goal
    <2>1. objects'[o] = objects[o] \/ objects'[o] = [j \in Prop |-> edits + 1]
      BY <1>2 DEF CreateObject, Types, LocalType, Local, States, New
    <2>2. Local'.objects = objects' /\ Local.objects = objects
      BY DEF Local
    <2>3. Held(Local', o, k) \subseteq Held(Local, o, k) \cup {edits + 1}
      BY <2>1, <2>2 DEF Held
    <2> QED
      BY <1>2, <1>b, <2>3 DEF CreateObject
  <1>3. ASSUME NEW p \in ObjectId, CreateNotify(p) PROVE Goal
    BY <1>0, <1>3 DEF CreateNotify, Local
  <1>4. ASSUME NEW p \in ObjectId, NEW j \in Prop, ObjectUpdate(p, j) PROVE Goal
    <2>1. objects'[o] = objects[o]
          \/ (objects[o] # None /\ objects'[o] = [objects[o] EXCEPT ![j] = edits + 1])
      BY <1>4 DEF ObjectUpdate, Types, LocalType, Local, States, New
    <2>2. Local'.objects = objects' /\ Local.objects = objects
      BY DEF Local
    <2>3. objects[o] # None => objects[o] \in [Prop -> Value]
      BY DEF Types, LocalType, Local, States, Value
    <2>4. Held(Local', o, k) \subseteq Held(Local, o, k) \cup {edits + 1}
      BY <2>1, <2>2, <2>3 DEF Held
    <2> QED
      BY <1>4, <1>b, <2>4 DEF ObjectUpdate
  <1>5. ASSUME NEW p \in ObjectId, RemoveObject(p) PROVE Goal
    <2>1. objects'[o] = objects[o] \/ objects'[o] = None
      BY <1>5 DEF RemoveObject, Types, LocalType, Local, States
    <2>2. Local'.objects = objects' /\ Local.objects = objects
      BY DEF Local
    <2>3. Held(Local', o, k) \subseteq Held(Local, o, k) \cup {edits + 1}
      BY <2>1, <2>2 DEF Held
    <2> QED
      BY <1>5, <1>b, <2>3 DEF RemoveObject
  <1>6. ASSUME NEW r, SetRoom(r) PROVE Goal
    <2>1. Held(Local', o, k) = Held(Local, o, k)
      BY <1>6 DEF SetRoom, Held, Local
    <2> QED
      BY <1>6, <1>b, <2>1 DEF SetRoom
  <1>7. ASSUME NEW s \in Slot, Dial(s) PROVE Goal
    <2>1. CASE s = t
      <3> DEFINE f == [type |-> "Hello"]
      <3>1. f \in Frame /\ Brought(f, o, k) = {}
        BY DEF Frame, Hellos, Brought
      <3>2. inbox[t] = <<>> /\ inbox'[t] = <<f>> /\ copy'[t] = copy[t] /\ Local' = Local /\ edits' = edits
        BY <1>7, <2>1 DEF Dial, Orderly, Types, Local
      <3> HIDE DEF f
      <3>3. <<f>> \in Seq(Frame) /\ \A i \in 1..Len(<<f>>) : Brought(<<f>>[i], o, k) \subseteq {}
        BY <3>1
      <3>4. Rising(copy[t], <<f>>, Local, edits, o, k)
        BY <1>0, <3>3 DEF Rising
      <3> QED
        BY <3>2, <3>4
    <2>2. CASE s # t
      BY <1>7, <1>a, <2>2 DEF Dial, Types
    <2> QED
      BY <2>1, <2>2
  <1>8. ASSUME NEW s \in Slot, Receive(s) PROVE Goal
    <2>1. CASE Forget(s)
      BY <1>8, <1>d, <2>1 DEF Receive
    <2>2. CASE ~Forget(s)
      <3>1. /\ inbox' = [inbox EXCEPT ![s] = Tail(inbox[s])]
            /\ copy' = [copy EXCEPT ![s] = Handle(copy[s], Head(inbox[s]))]
            /\ UNCHANGED localVars /\ inbox[s] # <<>>
        BY <1>8, <2>2 DEF Receive
      <3>2. CASE s = t
        <4>1. Rising(Handle(copy[t], Head(inbox[t])), Tail(inbox[t]), Local, edits, o, k)
          BY <1>0, <3>1, <3>2, RisingHandled
        <4>2. inbox'[t] = Tail(inbox[t]) /\ copy'[t] = Handle(copy[t], Head(inbox[t]))
              /\ Local' = Local /\ edits' = edits
          BY <3>1, <3>2 DEF Types, Local
        <4> QED
          BY <4>1, <4>2
      <3>3. CASE s # t
        BY <1>a, <3>1, <3>3 DEF Types
      <3> QED
        BY <3>2, <3>3
    <2> QED
      BY <2>1, <2>2
  <1>9. ASSUME NEW s \in Slot, Expire(s) PROVE Goal
    BY <1>9, <1>d DEF Expire
  <1>10. ASSUME Answer PROVE Goal
    <2> DEFINE f == [type |-> "Connect", state |-> Local]
    <2>1. f \in Frame /\ Brought(f, o, k) \subseteq Held(Local, o, k)
      BY <1>0 DEF Frame, Connects, Brought
    <2>2. Transmit(<<f>>) /\ conn \in Slot /\ UNCHANGED <<objects, room, edits, copy>>
      BY <1>10 DEF Answer, Types
    <2> HIDE DEF f
    <2>3. <<f>> \in Seq(Frame)
          /\ \A i \in 1..Len(<<f>>) : Brought(<<f>>[i], o, k) \subseteq Held(Local, o, k)
      BY <2>1
    <2> QED
      BY <1>c, <2>2, <2>3
  <1>11. ASSUME Wake PROVE Goal
    BY <1>0, <1>11 DEF Wake, Local
  <1>12. ASSUME Drain PROVE Goal
    <2>1. Transmit(DrainFrames) /\ conn \in Slot /\ UNCHANGED <<objects, room, edits, copy>>
      BY <1>12, ConnSlot DEF Drain, Orderly
    <2>2. DrainFrames \in Seq(Frame) /\ DrainFrames \in Seq(Drainable)
      BY DrainIsFrames, DrainIsDrainable DEF Types
    <2>3. \A i \in 1..Len(DrainFrames) : Brought(DrainFrames[i], o, k) \subseteq Held(Local, o, k)
      BY <2>2, DrainableBrings, ElementOf DEF Types
    <2> QED
      BY <1>c, <2>1, <2>2, <2>3
  <1>13. ASSUME Lose \/ SeeEnd PROVE Goal
    BY <1>13, <1>a DEF Lose, SeeEnd, HangUp
  <1>14. ASSUME Drop PROVE Goal
    BY <1>14, <1>d DEF Drop, Types
  <1> QED
    BY <1>1, <1>2, <1>3, <1>4, <1>5, <1>6, <1>7, <1>8, <1>9, <1>10, <1>11, <1>12, <1>13, <1>14
       DEF Next

(* The values of an object that others see through a connection never fall: a change
   that is sent twice, in the snapshot and from the sets, brings back no older one. *)
THEOREM NeverGoesBack == Spec => NeverBackwards
  <1> DEFINE Step ==
        \A s \in Slot : entry[s] = "in" /\ entry'[s] = "in" =>
          \A o \in ObjectId :
            copy[s].objects[o] # None /\ copy'[s].objects[o] # None =>
              \A k \in Prop : copy'[s].objects[o][k] >= copy[s].objects[o][k]
  <1>1. Init => Types /\ Orderly /\ Forward
    BY TypesInit, ForwardInit
  <1>2. Types /\ Orderly /\ Forward /\ [Next]_vars => (Types /\ Orderly /\ Forward)'
    BY TypesNext, ForwardNext
  <1>3. ASSUME Types, Orderly, Forward, [Next]_vars
        PROVE  Step
    <2> SUFFICES ASSUME NEW s \in Slot, entry[s] = "in", entry'[s] = "in", NEW o \in ObjectId,
                        copy[s].objects[o] # None, copy'[s].objects[o] # None, NEW k \in Prop
                 PROVE  copy'[s].objects[o][k] >= copy[s].objects[o][k]
      OBVIOUS
    <2>1. \/ copy'[s] = copy[s]
          \/ inbox[s] # <<>> /\ copy'[s] = Handle(copy[s], Head(inbox[s]))
      <3> USE DEF localVars, serverVars, runVars
      <3>1. ASSUME NEW t \in Slot, Forget(t) PROVE copy'[s] = copy[s]
        BY <1>3, <3>1 DEF Forget, Types
      <3>2. ASSUME NEW t \in Slot, Receive(t)
            PROVE  \/ copy'[s] = copy[s]
                   \/ inbox[s] # <<>> /\ copy'[s] = Handle(copy[s], Head(inbox[s]))
        BY <1>3, <3>1, <3>2 DEF Receive, Types
      <3>3. CASE \E t \in Slot : Expire(t)
        BY <3>1, <3>3 DEF Expire
      <3>4. CASE Drop
        BY <1>3, <3>1, <3>4 DEF Drop, Types
      <3>5. CASE UNCHANGED copy
        BY <3>5
      <3> QED
        BY <1>3, <3>2, <3>3, <3>4, <3>5
           DEF Next, vars, CreateObject, CreateNotify, ObjectUpdate, RemoveObject, SetRoom, Dial,
               Answer, Wake, Drain, Lose, SeeEnd
    <2>2. copy[s].objects[o][k] \in Nat
      <3>1. copy[s] \in States
        BY <1>3 DEF Types
      <3> QED
        BY <3>1, HeldType DEF Held
    <2>3. CASE copy'[s] = copy[s]
      BY <2>2, <2>3
    <2>4. CASE inbox[s] # <<>> /\ copy'[s] = Handle(copy[s], Head(inbox[s]))
      <3> DEFINE f == Head(inbox[s])
                 old == copy[s].objects[o][k]
                 new == copy'[s].objects[o][k]
      <3>1. f \in Frame /\ copy[s] \in States /\ f = inbox[s][1] /\ 1 \in 1..Len(inbox[s])
        BY <1>3, <2>4, ReadyFrames DEF Types
      <3>2. new \in Held(copy[s], o, k) \cup Brought(f, o, k)
        BY <2>4, <3>1, HandleHolds DEF Held
      <3>3. old \in Held(copy[s], o, k)
        BY DEF Held
      <3>4. \A w \in Brought(f, o, k) : old <= w /\ w \in Nat
        BY <1>3, <3>1, <3>3, BroughtType DEF Forward, Rising
      <3>5. new = old \/ (old <= new /\ new \in Nat)
        BY <3>2, <3>4 DEF Held
      <3> QED
        BY <2>2, <3>5
    <2> QED
      BY <2>1, <2>3, <2>4
  <1>4. Types /\ Orderly /\ Forward /\ [Next]_vars => [Step]_vars
    BY <1>3
  <1> QED
    BY <1>1, <1>2, <1>4, PTL DEF Spec, NeverBackwards
=============================================================================
