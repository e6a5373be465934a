---------------------------- MODULE ServerProofs ----------------------------
(***************************************************************************)
(* Proofs about Server, for any clients, identifiers, rooms and objects:   *)
(* its types, that no frame is left behind, and that it implements Relay.  *)
(*                                                                         *)
(* What a client makes of the frames in its buffer is a fold (Read). The   *)
(* frames about one peer touch the entry of that peer only, so the proofs  *)
(* follow one entry at a time (Seen), through what each handler writes.    *)
(***************************************************************************)
EXTENDS Server, SequenceTheorems, FiniteSetTheorems, WellFoundedInduction, TLAPS

-----------------------------------------------------------------------------
(* What the proofs below need of numbers and sequences. Induction is over a
   set of numbers, which a prover can be given, not over a predicate. *)

(* Numbers are well-founded: among some of them is a least. *)
LessThan == {pair \in Nat \X Nat : pair[1] < pair[2]}

LEMMA NatMin ==
    ASSUME NEW T \in SUBSET Nat, T # {}
    PROVE  \E n \in T : \A m \in T : n <= m
  <1>1. IsWellFoundedOn(LessThan, Nat)
    BY NatLessThanWellFounded, Zenon DEF OpToRel, LessThan
  <1>2. PICK n \in T : \A m \in T : <<m, n>> \notin LessThan
    BY <1>1, WFMin
  <1>3. \A m \in T : ~(m < n)
    BY <1>2 DEF LessThan
  <1> QED
    BY <1>3

(* What holds of zero and goes on from each number to the next holds of all. *)
LEMMA NatUp ==
    ASSUME NEW T \in SUBSET Nat, 0 \in T, \A n \in T : n + 1 \in T
    PROVE  T = Nat
  <1> SUFFICES ASSUME Nat \ T # {} PROVE FALSE
    OBVIOUS
  <1>1. PICK n \in Nat \ T : \A m \in Nat \ T : n <= m
    <2>1. Nat \ T \in SUBSET Nat
      OBVIOUS
    <2> QED
      BY <2>1, NatMin
  <1>2. n # 0 /\ n - 1 \in Nat
    BY <1>1
  <1>3. n - 1 \in T
    BY <1>1, <1>2
  <1>4. (n - 1) + 1 \in T
    BY <1>3
  <1> QED
    BY <1>1, <1>4

(* What holds of no element and goes on from a sequence to one element more holds of all. *)
LEMMA SeqUp ==
    ASSUME NEW S, NEW T \in SUBSET Seq(S), <<>> \in T,
           \A s \in T, x \in S : Append(s, x) \in T
    PROVE  T = Seq(S)
  <1> DEFINE N == {n \in Nat : \A s \in Seq(S) : Len(s) = n => s \in T}
  <1>1. 0 \in N
    BY EmptySeq
  <1>2. ASSUME NEW n \in N
        PROVE  n + 1 \in N
    <2> SUFFICES ASSUME NEW s \in Seq(S), Len(s) = n + 1 PROVE s \in T
      OBVIOUS
    <2>1. PICK t \in Seq(S), x \in S : s = Append(t, x)
      <3>1. s # <<>>
        BY EmptySeq
      <3> QED
        BY <3>1, SequenceEmptyOrAppend
    <2>2. Len(t) = n
      BY <2>1, AppendProperties
    <2>3. t \in T
      BY <1>2, <2>2
    <2> QED
      BY <2>1, <2>3
  <1>3. N = Nat
    BY <1>1, <1>2, NatUp
  <1>4. \A s \in Seq(S) : Len(s) \in N
    BY <1>3
  <1> QED
    BY <1>4

(* Sequences and their elements. *)
LEMMA ElementOf ==
    \A S : \A s \in Seq(S) :
        DOMAIN s = 1..Len(s) /\ Len(s) \in Nat /\ \A i \in 1..Len(s) : s[i] \in S
  OBVIOUS

LEMMA SeqFrom ==
    \A S : \A n \in Nat : \A s \in [1..n -> S] : s \in Seq(S) /\ Len(s) = n
  OBVIOUS

LEMMA SeqWider ==
    ASSUME NEW S, NEW T, S \subseteq T
    PROVE  Seq(S) \subseteq Seq(T)
  <1> SUFFICES ASSUME NEW s \in Seq(S) PROVE s \in Seq(T)
    OBVIOUS
  <1>1. s \in [1..Len(s) -> T] /\ Len(s) \in Nat
    <2>1. s = [i \in 1..Len(s) |-> s[i]] /\ Len(s) \in Nat
      OBVIOUS
    <2>2. \A i \in 1..Len(s) : s[i] \in T
      BY ElementOf
    <2> QED
      BY <2>1, <2>2
  <1> QED
    BY <1>1, SeqFrom

(* The sequence of a finite set has its members, each once. *)
LEMMA SeqOfSet ==
    ASSUME NEW S, IsFiniteSet(S)
    PROVE  /\ SetToSeq(S) \in Seq(S)
           /\ \A x \in S : \E i \in 1..Len(SetToSeq(S)) : SetToSeq(S)[i] = x
           /\ \A i, j \in 1..Len(SetToSeq(S)) : SetToSeq(S)[i] = SetToSeq(S)[j] => i = j
  <1> DEFINE n == Cardinality(S)
             s == SetToSeq(S)
  <1>1. n \in Nat
    BY FS_CardinalityType
  <1>2. ExistsBijection(1..n, S)
    BY FS_CardinalityType
  <1>3. PICK g : g \in [1..n -> S] /\ IsInjective(g)
    BY <1>2 DEF ExistsBijection, Bijection, Injection, IsInjective
  <1>4. s \in [1..n -> S] /\ IsInjective(s)
    BY <1>3 DEF SetToSeq
  <1> HIDE DEF s, n
  <1>5. s \in Seq(S) /\ Len(s) = n
    BY <1>1, <1>4
  <1>6. s \in Injection(1..n, S)
    BY <1>4 DEF Injection
  <1>7. Cardinality(1..n) = n
    BY <1>1, FS_Interval
  <1>8. s \in Surjection(1..n, S)
    BY <1>6, <1>7, FS_Injection DEF n
  <1>9. \A x \in S : \E i \in 1..n : s[i] = x
    BY <1>8 DEF Surjection
  <1>10. \A i, j \in 1..n : s[i] = s[j] => i = j
    <2>1. DOMAIN s = 1..n
      BY <1>4
    <2> QED
      BY <1>4, <2>1, Zenon DEF IsInjective
  <1>11. s \in Seq(S) /\ (\A x \in S : \E i \in 1..Len(s) : s[i] = x)
         /\ (\A i, j \in 1..Len(s) : s[i] = s[j] => i = j)
    BY <1>5, <1>9, <1>10
  <1> QED
    BY <1>11 DEF s

(* A sequence of sequences, one after the other. *)
Chained(f, seqs, n) ==
    f = [i \in 1..n |-> IF i = 1 THEN seqs[i] ELSE f[i - 1] \o seqs[i]]

LEMMA ChainedOnce ==
    ASSUME NEW seqs, NEW n \in Nat, NEW f, NEW g, Chained(f, seqs, n), Chained(g, seqs, n)
    PROVE  f = g
  <1> DEFINE T == {m \in Nat : m \in 1..n => f[m] = g[m]}
  <1>1. 0 \in T
    OBVIOUS
  <1>2. ASSUME NEW m \in T
        PROVE  m + 1 \in T
    <2> SUFFICES ASSUME m + 1 \in 1..n PROVE f[m + 1] = g[m + 1]
      OBVIOUS
    <2>1. f[m + 1] = (IF m + 1 = 1 THEN seqs[m + 1] ELSE f[(m + 1) - 1] \o seqs[m + 1])
      BY DEF Chained
    <2>2. g[m + 1] = (IF m + 1 = 1 THEN seqs[m + 1] ELSE g[(m + 1) - 1] \o seqs[m + 1])
      BY DEF Chained
    <2>3. m # 0 => f[m] = g[m]
      BY <1>2
    <2> QED
      BY <2>1, <2>2, <2>3
  <1>3. T = Nat
    BY <1>1, <1>2, NatUp
  <1>4. \A m \in 1..n : f[m] = g[m]
    BY <1>3
  <1>5. f = [i \in 1..n |-> f[i]] /\ g = [i \in 1..n |-> g[i]]
    BY DEF Chained
  <1> QED
    BY <1>4, <1>5

LEMMA ChainExists ==
    ASSUME NEW seqs, NEW n \in Nat
    PROVE  \E f : Chained(f, seqs, n)
  <1> DEFINE T == {m \in Nat : \E f : Chained(f, seqs, m)}
  <1>1. 0 \in T
    <2>1. Chained([i \in 1..0 |-> 0], seqs, 0)
      BY DEF Chained
    <2> QED
      BY <2>1
  <1>2. ASSUME NEW m \in T
        PROVE  m + 1 \in T
    <2>1. PICK f : Chained(f, seqs, m)
      BY <1>2
    <2> DEFINE end == IF m + 1 = 1 THEN seqs[m + 1] ELSE f[m] \o seqs[m + 1]
               g == [i \in 1..m + 1 |-> IF i = m + 1 THEN end ELSE f[i]]
    <2>2. ASSUME NEW i \in 1..m + 1
          PROVE  g[i] = IF i = 1 THEN seqs[i] ELSE g[i - 1] \o seqs[i]
      <3>1. CASE i = m + 1
        <4>1. i # 1 => g[i - 1] = f[m]
          BY <3>1
        <4> QED
          BY <3>1, <4>1
      <3>2. CASE i # m + 1
        <4>1. i \in 1..m
          BY <3>2
        <4>2. f[i] = IF i = 1 THEN seqs[i] ELSE f[i - 1] \o seqs[i]
          BY <2>1, <4>1 DEF Chained
        <4>3. g[i] = f[i] /\ (i # 1 => g[i - 1] = f[i - 1])
          BY <4>1
        <4> QED
          BY <4>2, <4>3
      <3> QED
        BY <3>1, <3>2
    <2>3. g = [i \in 1..m + 1 |-> g[i]]
      OBVIOUS
    <2> HIDE DEF g
    <2>4. Chained(g, seqs, m + 1)
      BY <2>2, <2>3 DEF Chained
    <2> QED
      BY <2>4
  <1>3. T = Nat
    BY <1>1, <1>2, NatUp
  <1> QED
    BY <1>3

(* FlattenSeq, without its recursion. *)
LEMMA FlattenIs ==
    ASSUME NEW seqs, NEW n \in Nat \ {0}, Len(seqs) = n, NEW f, Chained(f, seqs, n)
    PROVE  FlattenSeq(seqs) = f[n]
  <1>1. \A g : Chained(g, seqs, n) => g = f
    BY ChainedOnce
  <1> DEFINE h == CHOOSE g : Chained(g, seqs, n)
  <1>2. h = f
    BY <1>1
  <1>3. FlattenSeq(seqs) = h[n]
    BY DEF FlattenSeq, Chained
  <1> QED
    BY <1>2, <1>3

LEMMA FlattenEmpty == FlattenSeq(<<>>) = <<>>
  BY DEF FlattenSeq

LEMMA FlattenAppend ==
    ASSUME NEW S, NEW seqs \in Seq(Seq(S)), NEW s \in Seq(S)
    PROVE  FlattenSeq(Append(seqs, s)) = FlattenSeq(seqs) \o s
  <1> DEFINE n == Len(seqs)
             more == Append(seqs, s)
  <1>1. n \in Nat /\ Len(more) = n + 1 /\ more[n + 1] = s /\ \A i \in 1..n : more[i] = seqs[i]
    OBVIOUS
  <1> HIDE DEF more, n
  <1>2. PICK f : Chained(f, more, n + 1)
    <2>1. n + 1 \in Nat
      BY <1>1
    <2> QED
      BY <2>1, ChainExists
  <1>3. FlattenSeq(more) = f[n + 1]
    BY <1>1, <1>2, FlattenIs
  <1>4. CASE n = 0
    <2>1. seqs = <<>>
      BY <1>4 DEF n
    <2>2. f[n + 1] = s
      BY <1>1, <1>2, <1>4 DEF Chained
    <2> QED
      BY <1>3, <2>1, <2>2, FlattenEmpty DEF more
  <1>5. CASE n # 0
    <2> DEFINE g == [i \in 1..n |-> f[i]]
    <2>1. ASSUME NEW i \in 1..n
          PROVE  g[i] = IF i = 1 THEN seqs[i] ELSE g[i - 1] \o seqs[i]
      <3>1. f[i] = IF i = 1 THEN more[i] ELSE f[i - 1] \o more[i]
        <4>1. i \in 1..n + 1
          BY <1>1
        <4> QED
          BY <1>2, <4>1 DEF Chained
      <3>2. i # 1 => i - 1 \in 1..n
        BY <1>1
      <3> QED
        BY <1>1, <3>1, <3>2
    <2>2. g = [i \in 1..n |-> g[i]]
      OBVIOUS
    <2>3. g[n] = f[n]
      BY <1>1, <1>5
    <2> HIDE DEF g
    <2>4. Chained(g, seqs, n)
      BY <2>1, <2>2 DEF Chained
    <2>5. FlattenSeq(seqs) = g[n]
      BY <1>1, <1>5, <2>4, FlattenIs DEF n
    <2>6. f[n + 1] = f[(n + 1) - 1] \o more[n + 1]
      <3>1. n + 1 \in 1..n + 1 /\ n + 1 # 1
        BY <1>1, <1>5
      <3> QED
        BY <1>2, <3>1 DEF Chained
    <2>7. f[n + 1] = f[n] \o s
      <3>1. (n + 1) - 1 = n
        BY <1>1
      <3> QED
        BY <1>1, <2>6, <3>1
    <2> QED
      BY <1>3, <2>3, <2>5, <2>7 DEF more
  <1> QED
    BY <1>4, <1>5

-----------------------------------------------------------------------------
(* The client's table after each of some frames. *)
Applied(a, c, frames) ==
    a = [n \in 0..Len(frames) |-> IF n = 0 THEN c ELSE ReadOne(a[n - 1], frames[n])]

LEMMA AppliedOnce ==
    ASSUME NEW c, NEW frames, NEW a, NEW b, Applied(a, c, frames), Applied(b, c, frames),
           Len(frames) \in Nat
    PROVE  a = b
  <1> DEFINE N == 0..Len(frames)
             T == {n \in Nat : n \in N => a[n] = b[n]}
  <1>1. 0 \in T
    BY DEF Applied
  <1>2. ASSUME NEW n \in T
        PROVE  n + 1 \in T
    <2> SUFFICES ASSUME n + 1 \in N PROVE a[n + 1] = b[n + 1]
      OBVIOUS
    <2>1. a[n] = b[n]
      BY <1>2
    <2>2. a[n + 1] = ReadOne(a[(n + 1) - 1], frames[n + 1])
      BY DEF Applied
    <2>3. b[n + 1] = ReadOne(b[(n + 1) - 1], frames[n + 1])
      BY DEF Applied
    <2> QED
      BY <2>1, <2>2, <2>3
  <1>3. T = Nat
    BY <1>1, <1>2, NatUp
  <1>4. \A n \in N : a[n] = b[n]
    BY <1>3
  <1>5. a = [n \in N |-> a[n]] /\ b = [n \in N |-> b[n]]
    BY DEF Applied
  <1> QED
    BY <1>4, <1>5

LEMMA ReadIs ==
    ASSUME NEW c, NEW frames, NEW a, Applied(a, c, frames), Len(frames) \in Nat
    PROVE  Read(c, frames) = a[Len(frames)]
  <1>1. \A b : Applied(b, c, frames) => b = a
    BY AppliedOnce
  <1> DEFINE after == CHOOSE b : Applied(b, c, frames)
  <1>2. after = a
    BY <1>1
  <1>3. Read(c, frames) = after[Len(frames)]
    BY DEF Read, Applied
  <1> QED
    BY <1>2, <1>3

LEMMA ReadNone == \A c : Read(c, <<>>) = c
  <1> TAKE c
  <1> DEFINE a == [n \in 0..0 |-> c]
  <1>1. Applied(a, c, <<>>)
    BY DEF Applied
  <1>2. a[0] = c
    OBVIOUS
  <1>3. Len(<<>>) = 0 /\ 0 \in Nat
    OBVIOUS
  <1> HIDE DEF a
  <1> QED
    BY <1>1, <1>2, <1>3, ReadIs

(* One frame more. *)
LEMMA AppliedMore ==
    ASSUME NEW S, NEW c, NEW frames \in Seq(S), NEW f \in S, NEW a, Applied(a, c, frames)
    PROVE  \E b : Applied(b, c, Append(frames, f)) /\ b[Len(frames)] = a[Len(frames)]
  <1> DEFINE n == Len(frames)
             more == Append(frames, f)
             b == [m \in 0..n + 1 |-> IF m = n + 1 THEN ReadOne(a[n], f) ELSE a[m]]
  <1>1. n \in Nat /\ Len(more) = n + 1 /\ more[n + 1] = f /\ \A m \in 1..n : more[m] = frames[m]
    OBVIOUS
  <1> HIDE DEF more, n
  <1>2. ASSUME NEW m \in 0..n + 1
        PROVE  b[m] = IF m = 0 THEN c ELSE ReadOne(b[m - 1], more[m])
    <2>1. CASE m = n + 1
      <3>1. b[m - 1] = a[n]
        BY <1>1, <2>1
      <3> QED
        BY <1>1, <2>1, <3>1
    <2>2. CASE m # n + 1
      <3>1. m \in 0..n
        BY <1>1, <2>2
      <3>2. a[m] = IF m = 0 THEN c ELSE ReadOne(a[m - 1], frames[m])
        BY <3>1 DEF Applied, n
      <3>3. b[m] = a[m] /\ (m # 0 => b[m - 1] = a[m - 1] /\ more[m] = frames[m])
        BY <1>1, <3>1
      <3> QED
        BY <3>2, <3>3
    <2> QED
      BY <2>1, <2>2
  <1>3. b = [m \in 0..n + 1 |-> b[m]]
    OBVIOUS
  <1>4. b[n] = a[n]
    BY <1>1
  <1> HIDE DEF b
  <1>5. Applied(b, c, more)
    BY <1>1, <1>2, <1>3 DEF Applied
  <1> QED
    BY <1>4, <1>5 DEF more, n

LEMMA AppliedExists ==
    ASSUME NEW S, NEW c, NEW frames \in Seq(S)
    PROVE  \E a : Applied(a, c, frames)
  <1> DEFINE T == {s \in Seq(S) : \E a : Applied(a, c, s)}
  <1>1. <<>> \in T
    <2>1. Applied([n \in 0..0 |-> c], c, <<>>)
      BY DEF Applied
    <2> QED
      BY <2>1
  <1>2. ASSUME NEW s \in T, NEW f \in S PROVE Append(s, f) \in T
    BY AppliedMore
  <1>3. T = Seq(S)
    <2> HIDE DEF T
    <2>1. T \in SUBSET Seq(S)
      BY DEF T
    <2> QED
      BY <1>1, <1>2, <2>1, SeqUp
  <1> QED
    BY <1>3

LEMMA ReadAppend ==
    ASSUME NEW S, NEW c, NEW frames \in Seq(S), NEW f \in S
    PROVE  Read(c, Append(frames, f)) = ReadOne(Read(c, frames), f)
  <1> DEFINE n == Len(frames)
             more == Append(frames, f)
  <1>1. n \in Nat /\ Len(more) = n + 1 /\ more[n + 1] = f
    OBVIOUS
  <1>2. PICK a : Applied(a, c, frames)
    BY AppliedExists
  <1>3. PICK b : Applied(b, c, more) /\ b[n] = a[n]
    BY <1>2, AppliedMore
  <1>4. Read(c, frames) = a[n]
    BY <1>1, <1>2, ReadIs
  <1> HIDE DEF more
  <1>5. Read(c, more) = b[n + 1]
    BY <1>1, <1>3, ReadIs
  <1>6. b[n + 1] = ReadOne(b[(n + 1) - 1], more[n + 1])
    BY <1>1, <1>3 DEF Applied
  <1>7. b[n + 1] = ReadOne(b[n], f)
    BY <1>1, <1>6
  <1> QED
    BY <1>3, <1>4, <1>5, <1>7 DEF more

(* Frames are read one after the other, wherever they are cut. *)
LEMMA ReadBoth ==
    ASSUME NEW S, NEW c, NEW s \in Seq(S), NEW t \in Seq(S)
    PROVE  Read(c, s \o t) = Read(Read(c, s), t)
  <1> DEFINE T == {u \in Seq(S) : Read(c, s \o u) = Read(Read(c, s), u)}
  <1>1. <<>> \in T
    <2>1. s \o <<>> = s
      OBVIOUS
    <2> QED
      BY <2>1, ReadNone
  <1>2. ASSUME NEW u \in T, NEW f \in S PROVE Append(u, f) \in T
    <2> DEFINE v == s \o u
               more == Append(u, f)
    <2>1. s \o more = Append(v, f) /\ v \in Seq(S)
      OBVIOUS
    <2>2. Read(Read(c, s), more) = ReadOne(Read(Read(c, s), u), f)
      BY ReadAppend
    <2>3. Read(c, v) = Read(Read(c, s), u)
      OBVIOUS
    <2> HIDE DEF v, more
    <2>4. Read(c, Append(v, f)) = ReadOne(Read(c, v), f)
      BY <2>1, ReadAppend
    <2>5. Read(c, s \o more) = Read(Read(c, s), more)
      BY <2>1, <2>2, <2>3, <2>4
    <2> QED
      BY <2>5 DEF more
  <1>3. T = Seq(S)
    <2> HIDE DEF T
    <2>1. T \in SUBSET Seq(S)
      BY DEF T
    <2> QED
      BY <1>1, <1>2, <2>1, SeqUp
  <1> QED
    BY <1>3

LEMMA ReadSingle ==
    ASSUME NEW S, NEW c, NEW f \in S
    PROVE  Read(c, <<f>>) = ReadOne(c, f)
  <1> DEFINE none == <<>>
             one == <<f>>
  <1>1. one = Append(none, f) /\ none \in Seq(S)
    OBVIOUS
  <1>2. Read(c, none) = c
    BY ReadNone
  <1> HIDE DEF none, one
  <1>3. Read(c, Append(none, f)) = ReadOne(Read(c, none), f)
    BY <1>1, ReadAppend
  <1>4. Read(c, one) = ReadOne(c, f)
    BY <1>1, <1>2, <1>3
  <1> QED
    BY <1>4 DEF one

-----------------------------------------------------------------------------
(* The frames, by type, and what they do to the entry of the peer they are about. *)
Table == [PeerId -> Info]

About(f, q) == f.type \notin {"Challenge", "Pong"} /\ f.peer = q

AboutFrames(q) == {f \in Frame : About(f, q)}

OtherFrames(q) == {f \in Frame : ~About(f, q)}

LEMMA UnknownType == Unknown \in Info /\ NoObjects \in Objects
  BY DataAssumption DEF Unknown, Info, NoObjects, Objects, RoomKey

LEMMA ConnectedFrame ==
    ASSUME NEW q \in PeerId, NEW k \in Key \cup {ZeroKey}, NEW r \in RoomKey, NEW n \in Names
    PROVE  PeerConnected(q, k, r, n) \in AboutFrames(q)
  BY DEF PeerConnected, AboutFrames, About, Frame

LEMMA DisconnectFrame ==
    ASSUME NEW q \in PeerId
    PROVE  PeerDisconnect(q) \in AboutFrames(q) /\ PeerLeave(q) \in AboutFrames(q)
  BY DEF PeerDisconnect, PeerLeave, AboutFrames, About, Frame

LEMMA JoinFrame ==
    ASSUME NEW q \in PeerId, NEW objs \in Objects
    PROVE  PeerJoin(q, objs) \in AboutFrames(q)
  BY DEF PeerJoin, AboutFrames, About, Frame

LEMMA UpdatedFrame ==
    ASSUME NEW q \in PeerId, NEW r \in RoomKey, NEW n \in Names
    PROVE  RoomUpdated(q, r) \in AboutFrames(q) /\ NameUpdated(q, n) \in AboutFrames(q)
  BY DEF RoomUpdated, NameUpdated, AboutFrames, About, Frame

LEMMA ObjectFrame ==
    ASSUME NEW q \in PeerId, NEW o \in ObjectId
    PROVE  /\ \A v \in Val : /\ ObjectCreated(q, o, v) \in AboutFrames(q)
                             /\ ObjectUpdated(q, o, v) \in AboutFrames(q)
           /\ ObjectRemoved(q, o) \in AboutFrames(q)
  BY DEF ObjectCreated, ObjectUpdated, ObjectRemoved, AboutFrames, About, Frame

LEMMA ImageFrame ==
    ASSUME NEW q \in PeerId, NEW i \in ImageIds
    PROVE  ImageCreated(q, i) \in AboutFrames(q) /\ ImageRemoved(q, i) \in AboutFrames(q)
  BY DEF ImageCreated, ImageRemoved, AboutFrames, About, Frame

LEMMA PlainFrame ==
    ASSUME NEW q
    PROVE  Challenge \in OtherFrames(q) /\ Pong \in OtherFrames(q)
  BY DEF Challenge, Pong, OtherFrames, About, Frame

LEMMA AboutOne ==
    ASSUME NEW p, NEW q, p # q
    PROVE  AboutFrames(p) \subseteq OtherFrames(q)
  BY DEF AboutFrames, OtherFrames, About

(* What a frame makes of an entry. *)
LEMMA EntryConnected ==
    ASSUME NEW info, NEW q, NEW k, NEW r, NEW n
    PROVE  Entry(info, PeerConnected(q, k, r, n)) =
             [known |-> TRUE, key |-> k, room |-> r, name |-> n,
              objects |-> NoObjects, images |-> {}]
  BY DEF Entry, PeerConnected

LEMMA EntryJoin ==
    ASSUME NEW info, NEW q, NEW objs
    PROVE  Entry(info, PeerJoin(q, objs)) = Joined(info, objs)
  BY DEF Entry, PeerJoin

LEMMA EntryOf ==
    ASSUME NEW info, NEW q
    PROVE  /\ Entry(info, PeerDisconnect(q)) = Unknown
           /\ \A objs : Entry(info, PeerJoin(q, objs)) = Joined(info, objs)
           /\ Entry(info, PeerLeave(q)) = Left(info)
           /\ \A r : Entry(info, RoomUpdated(q, r)) = WithRoom(info, r)
           /\ \A n : Entry(info, NameUpdated(q, n)) = WithName(info, n)
  BY DEF Entry, PeerDisconnect, PeerJoin, PeerLeave, RoomUpdated, NameUpdated

LEMMA EntryOfObject ==
    ASSUME NEW info, NEW q, NEW o
    PROVE  /\ \A v : Entry(info, ObjectCreated(q, o, v)) = WithObject(info, o, v)
           /\ \A v : Entry(info, ObjectUpdated(q, o, v)) = WithUpdate(info, o, v)
           /\ Entry(info, ObjectRemoved(q, o)) = WithObject(info, o, None)
  BY DEF Entry, ObjectCreated, ObjectUpdated, ObjectRemoved

LEMMA EntryOfImage ==
    ASSUME NEW info, NEW q, NEW i
    PROVE  Entry(info, ImageCreated(q, i)) = WithImage(info, i) /\ Entry(info, ImageRemoved(q, i)) = info
  BY DEF Entry, ImageCreated, ImageRemoved

LEMMA InfoType ==
    ASSUME NEW info \in Info
    PROVE  /\ \A r \in RoomKey : WithRoom(info, r) \in Info
           /\ \A n \in Names : WithName(info, n) \in Info
           /\ \A o \in ObjectId, v \in Val \cup {None} :
                /\ WithObject(info, o, v) \in Info
                /\ WithUpdate(info, o, v) \in Info
           /\ \A i \in ImageIds : WithImage(info, i) \in Info
  <1>1. \A o \in ObjectId, v \in Val \cup {None} :
          WithObject(info, o, v) \in Info /\ WithUpdate(info, o, v) \in Info
    BY DEF WithObject, WithUpdate, Info, Objects
  <1>2. \A i \in ImageIds : WithImage(info, i) \in Info
    BY DEF WithImage, Info
  <1>3. /\ \A r \in RoomKey : WithRoom(info, r) \in Info
        /\ \A n \in Names : WithName(info, n) \in Info
    BY DEF WithRoom, WithName, Info
  <1> QED
    BY <1>1, <1>2, <1>3

LEMMA JoinedType ==
    ASSUME NEW info \in Info, NEW objs \in Objects
    PROVE  Joined(info, objs) \in Info /\ Left(info) \in Info
  BY DEF Joined, Left, Globals, Info, Objects, ObjectId

LEMMA EntryType ==
    ASSUME NEW info \in Info, NEW f \in Frame, f.type \notin {"Challenge", "Pong"}
    PROVE  f.peer \in PeerId /\ Entry(info, f) \in Info
  <1>0. f.peer \in PeerId
    BY DEF Frame
  <1>1. CASE f.type = "PeerConnected"
    <2>1. f.key \in Key \cup {ZeroKey} /\ f.room \in RoomKey /\ f.name \in Names
      BY <1>1 DEF Frame
    <2> QED
      BY <1>0, <1>1, <2>1, UnknownType DEF Entry, Info
  <1>2. CASE f.type \in {"PeerDisconnect", "PeerLeave"}
    <2>1. Left(info) \in Info
      BY UnknownType, JoinedType
    <2> QED
      BY <1>0, <1>2, <2>1, UnknownType DEF Entry
  <1>3. CASE f.type = "PeerJoin"
    <2>1. f.objects \in Objects
      BY <1>3 DEF Frame
    <2> QED
      BY <1>0, <1>3, <2>1, JoinedType DEF Entry
  <1>4. CASE f.type = "RoomUpdated"
    <2>1. f.room \in RoomKey
      BY <1>4 DEF Frame
    <2> QED
      BY <1>0, <1>4, <2>1, InfoType DEF Entry
  <1>5. CASE f.type = "NameUpdated"
    <2>1. f.name \in Names
      BY <1>5 DEF Frame
    <2> QED
      BY <1>0, <1>5, <2>1, InfoType DEF Entry
  <1>6. CASE f.type \in {"ObjectCreated", "ObjectUpdated"}
    <2>1. f.object \in ObjectId /\ f.value \in Val
      BY <1>6 DEF Frame
    <2> QED
      BY <1>0, <1>6, <2>1, InfoType DEF Entry
  <1>7. CASE f.type = "ObjectRemoved"
    <2>1. f.object \in ObjectId
      BY <1>7 DEF Frame
    <2> QED
      BY <1>0, <1>7, <2>1, InfoType DEF Entry
  <1>8. CASE f.type \in {"ImageCreated", "ImageRemoved"}
    <2>1. f.image \in ImageIds
      BY <1>8 DEF Frame
    <2> QED
      BY <1>0, <1>8, <2>1, InfoType DEF Entry
  <1>9. f.type \in {"PeerConnected", "PeerDisconnect", "PeerLeave", "PeerJoin", "RoomUpdated",
                    "NameUpdated", "ObjectCreated", "ObjectUpdated", "ObjectRemoved",
                    "ImageCreated", "ImageRemoved"}
    BY DEF Frame
  <1> QED
    BY <1>1, <1>2, <1>3, <1>4, <1>5, <1>6, <1>7, <1>8, <1>9

-----------------------------------------------------------------------------
(* One entry: what becomes of peer q's, info, through some frames. *)
Seen(info, q, frames) == Read([x \in PeerId |-> info], frames)[q]

SeenOne(info, q, f) == IF About(f, q) THEN Entry(info, f) ELSE info

LEMMA ReadOneAt ==
    ASSUME NEW table \in Table, NEW f \in Frame
    PROVE  /\ ReadOne(table, f) \in Table
           /\ \A q \in PeerId : ReadOne(table, f)[q] = SeenOne(table[q], q, f)
  <1>1. CASE f.type \in {"Challenge", "Pong"}
    BY <1>1 DEF ReadOne, SeenOne, About
  <1>2. CASE f.type \notin {"Challenge", "Pong"}
    <2>1. f.peer \in PeerId /\ Entry(table[f.peer], f) \in Info
      BY <1>2, EntryType, UnknownType DEF Table
    <2>2. ReadOne(table, f) = [table EXCEPT ![f.peer] = Entry(table[f.peer], f)]
      BY <1>2 DEF ReadOne
    <2> QED
      BY <1>2, <2>1, <2>2 DEF Table, SeenOne, About
  <1> QED
    BY <1>1, <1>2

LEMMA ReadType ==
    ASSUME NEW table \in Table, NEW s \in Seq(Frame)
    PROVE  Read(table, s) \in Table
  <1> DEFINE T == {u \in Seq(Frame) : Read(table, u) \in Table}
  <1>1. <<>> \in T
    BY ReadNone
  <1>2. ASSUME NEW u \in T, NEW f \in Frame PROVE Append(u, f) \in T
    <2>1. Read(table, Append(u, f)) = ReadOne(Read(table, u), f)
      BY ReadAppend
    <2> QED
      BY <2>1, ReadOneAt
  <1>3. T = Seq(Frame)
    <2> HIDE DEF T
    <2>1. T \in SUBSET Seq(Frame)
      BY DEF T
    <2> QED
      BY <1>1, <1>2, <2>1, SeqUp
  <1> QED
    BY <1>3

(* An entry depends on no other. *)
LEMMA ReadLocal ==
    ASSUME NEW t \in Table, NEW u \in Table, NEW q \in PeerId, t[q] = u[q], NEW s \in Seq(Frame)
    PROVE  Read(t, s)[q] = Read(u, s)[q]
  <1> DEFINE T == {v \in Seq(Frame) : Read(t, v)[q] = Read(u, v)[q]}
  <1>1. <<>> \in T
    BY ReadNone
  <1>2. ASSUME NEW v \in T, NEW f \in Frame PROVE Append(v, f) \in T
    <2>1. /\ Read(t, Append(v, f)) = ReadOne(Read(t, v), f)
          /\ Read(u, Append(v, f)) = ReadOne(Read(u, v), f)
      BY ReadAppend
    <2>2. Read(t, v) \in Table /\ Read(u, v) \in Table
      BY ReadType
    <2>3. /\ ReadOne(Read(t, v), f)[q] = SeenOne(Read(t, v)[q], q, f)
          /\ ReadOne(Read(u, v), f)[q] = SeenOne(Read(u, v)[q], q, f)
      BY <2>2, ReadOneAt
    <2> QED
      BY <2>1, <2>3
  <1>3. T = Seq(Frame)
    <2> HIDE DEF T
    <2>1. T \in SUBSET Seq(Frame)
      BY DEF T
    <2> QED
      BY <1>1, <1>2, <2>1, SeqUp
  <1> QED
    BY <1>3

LEMMA ReadSeen ==
    ASSUME NEW t \in Table, NEW q \in PeerId, NEW s \in Seq(Frame)
    PROVE  Read(t, s)[q] = Seen(t[q], q, s)
  <1> DEFINE u == [x \in PeerId |-> t[q]]
  <1>1. u \in Table /\ u[q] = t[q]
    BY DEF Table
  <1>2. Seen(t[q], q, s) = Read(u, s)[q]
    BY DEF Seen
  <1> HIDE DEF u
  <1> QED
    BY <1>1, <1>2, ReadLocal

LEMMA SeenType ==
    ASSUME NEW info \in Info, NEW q \in PeerId, NEW s \in Seq(Frame)
    PROVE  Seen(info, q, s) \in Info
  <1> DEFINE t == [x \in PeerId |-> info]
  <1>1. t \in Table
    BY DEF Table
  <1>2. Seen(info, q, s) = Read(t, s)[q]
    BY DEF Seen
  <1> HIDE DEF t
  <1>3. Read(t, s) \in Table
    BY <1>1, ReadType
  <1> QED
    BY <1>2, <1>3 DEF Table

LEMMA SeenNone ==
    ASSUME NEW info, NEW q \in PeerId
    PROVE  Seen(info, q, <<>>) = info
  BY ReadNone DEF Seen

LEMMA SeenAppend ==
    ASSUME NEW info \in Info, NEW q \in PeerId, NEW s \in Seq(Frame), NEW f \in Frame
    PROVE  Seen(info, q, Append(s, f)) = SeenOne(Seen(info, q, s), q, f)
  <1> DEFINE t == [x \in PeerId |-> info]
             more == Append(s, f)
  <1>1. t \in Table
    BY DEF Table
  <1>2. Seen(info, q, s) = Read(t, s)[q] /\ Seen(info, q, more) = Read(t, more)[q]
    BY DEF Seen
  <1>3. Read(t, more) = ReadOne(Read(t, s), f)
    BY ReadAppend
  <1> HIDE DEF t, more
  <1>4. ReadOne(Read(t, s), f)[q] = SeenOne(Read(t, s)[q], q, f)
    BY <1>1, ReadType, ReadOneAt
  <1>5. Seen(info, q, more) = SeenOne(Seen(info, q, s), q, f)
    BY <1>2, <1>3, <1>4
  <1> QED
    BY <1>5 DEF more

LEMMA SeenSingle ==
    ASSUME NEW info \in Info, NEW q \in PeerId, NEW f \in Frame
    PROVE  Seen(info, q, <<f>>) = SeenOne(info, q, f)
  <1> DEFINE none == <<>>
             one == <<f>>
  <1>1. none \in Seq(Frame) /\ Append(none, f) = one /\ Seen(info, q, none) = info
    BY SeenNone
  <1> HIDE DEF none, one
  <1>2. Seen(info, q, Append(none, f)) = SeenOne(Seen(info, q, none), q, f)
    BY <1>1, SeenAppend
  <1>3. Seen(info, q, one) = SeenOne(info, q, f)
    BY <1>1, <1>2
  <1> QED
    BY <1>3 DEF one

LEMMA SeenBoth ==
    ASSUME NEW info \in Info, NEW q \in PeerId, NEW s \in Seq(Frame), NEW u \in Seq(Frame)
    PROVE  Seen(info, q, s \o u) = Seen(Seen(info, q, s), q, u)
  <1> DEFINE t == [x \in PeerId |-> info]
             both == s \o u
  <1>1. t \in Table
    BY DEF Table
  <1>2. Seen(info, q, s) = Read(t, s)[q] /\ Seen(info, q, both) = Read(t, both)[q]
    BY DEF Seen
  <1>3. Read(t, both) = Read(Read(t, s), u)
    BY ReadBoth
  <1> HIDE DEF t, both
  <1>4. Read(Read(t, s), u)[q] = Seen(Read(t, s)[q], q, u)
    BY <1>1, ReadType, ReadSeen
  <1>5. Seen(info, q, both) = Seen(Seen(info, q, s), q, u)
    BY <1>2, <1>3, <1>4
  <1> QED
    BY <1>5 DEF both

(* Frames about others change nothing. *)
LEMMA SeenOthers ==
    ASSUME NEW info \in Info, NEW q \in PeerId, NEW s \in Seq(OtherFrames(q))
    PROVE  Seen(info, q, s) = info
  <1> DEFINE F == OtherFrames(q)
             T == {u \in Seq(F) : Seen(info, q, u) = info}
  <1>0. F \subseteq Frame
    BY DEF OtherFrames
  <1>1. <<>> \in T
    BY SeenNone
  <1>2. ASSUME NEW u \in T, NEW f \in F PROVE Append(u, f) \in T
    <2>1. u \in Seq(Frame) /\ f \in Frame
      BY <1>0, SeqWider
    <2>2. Seen(info, q, Append(u, f)) = SeenOne(Seen(info, q, u), q, f)
      BY <2>1, SeenAppend
    <2>3. ~About(f, q)
      BY DEF OtherFrames
    <2> QED
      BY <2>2, <2>3 DEF SeenOne
  <1>3. T = Seq(F)
    <2> HIDE DEF T, F
    <2>1. T \in SUBSET Seq(F)
      BY DEF T
    <2> QED
      BY <1>1, <1>2, <2>1, SeqUp
  <1> QED
    BY <1>3

-----------------------------------------------------------------------------
(* The frames about the members of a set, one after the other. *)
IsAt(s, x) == \E i \in 1..Len(s) : s[i] = x

Once(s) == \A i, j \in 1..Len(s) : s[i] = s[j] => i = j

LEMMA IsAtMore ==
    ASSUME NEW S, NEW s \in Seq(S), NEW x \in S, NEW y
    PROVE  /\ IsAt(Append(s, x), y) <=> IsAt(s, y) \/ y = x
           /\ Once(Append(s, x)) => Once(s) /\ ~IsAt(s, x)
  <1> DEFINE more == Append(s, x)
  <1>1. Len(s) \in Nat /\ Len(more) = Len(s) + 1 /\ more[Len(s) + 1] = x
        /\ \A i \in 1..Len(s) : more[i] = s[i]
    OBVIOUS
  <1>2. 1..Len(s) \subseteq 1..Len(more) /\ Len(s) + 1 \in 1..Len(more)
        /\ Len(s) + 1 \notin 1..Len(s)
    BY <1>1
  <1> HIDE DEF more
  <1>3. ASSUME NEW i \in 1..Len(more), more[i] = y
        PROVE  IsAt(s, y) \/ y = x
    <2>1. i \in 1..Len(s) \/ i = Len(s) + 1
      BY <1>1
    <2> QED
      BY <1>1, <1>3, <2>1 DEF IsAt
  <1>4. ASSUME IsAt(s, y) \/ y = x
        PROVE  IsAt(more, y)
    BY <1>1, <1>2, <1>4 DEF IsAt
  <1>5. IsAt(more, y) <=> IsAt(s, y) \/ y = x
    BY <1>3, <1>4 DEF IsAt
  <1>6. ASSUME Once(more)
        PROVE  Once(s) /\ ~IsAt(s, x)
    BY <1>1, <1>2, <1>6 DEF Once, IsAt
  <1>7. (IsAt(more, y) <=> IsAt(s, y) \/ y = x) /\ (Once(more) => Once(s) /\ ~IsAt(s, x))
    BY <1>5, <1>6
  <1> QED
    BY <1>7 DEF more

LEMMA IsAtNone == \A x : ~IsAt(<<>>, x)
  BY DEF IsAt

(* One element more of a sequence is one sequence more of those it is mapped to. *)
LEMMA MapMore ==
    ASSUME NEW S, NEW s \in Seq(S), NEW x \in S, NEW F
    PROVE  [n \in DOMAIN Append(s, x) |-> F[Append(s, x)[n]]]
             = Append([n \in DOMAIN s |-> F[s[n]]], F[x])
  <1> DEFINE more == Append(s, x)
             t == [n \in DOMAIN s |-> F[s[n]]]
             u == [n \in DOMAIN more |-> F[more[n]]]
             v == Append(t, F[x])
  <1>1. /\ Len(s) \in Nat /\ Len(more) = Len(s) + 1 /\ more[Len(s) + 1] = x
        /\ \A i \in 1..Len(s) : more[i] = s[i]
        /\ DOMAIN s = 1..Len(s) /\ DOMAIN more = 1..(Len(s) + 1)
    OBVIOUS
  <1>2. t = [n \in 1..Len(s) |-> F[s[n]]]
    BY <1>1
  <1>3. t \in Seq({F[s[n]] : n \in 1..Len(s)}) /\ Len(t) = Len(s)
    BY <1>1, <1>2, SeqFrom
  <1> HIDE DEF t
  <1>4. /\ v = [n \in 1..(Len(s) + 1) |-> v[n]]
        /\ \A n \in 1..Len(s) : v[n] = t[n]
        /\ v[Len(s) + 1] = F[x]
    <2>1. t \in Seq({F[s[n]] : n \in 1..Len(s)} \cup {F[x]})
      BY <1>3, SeqWider
    <2> QED
      BY <1>3, <2>1, AppendProperties
  <1> HIDE DEF more, v
  <1>5. u = [n \in 1..(Len(s) + 1) |-> F[more[n]]]
    BY <1>1
  <1>6. \A n \in 1..(Len(s) + 1) : v[n] = F[more[n]]
    <2> SUFFICES ASSUME NEW n \in 1..(Len(s) + 1) PROVE v[n] = F[more[n]]
      OBVIOUS
    <2>1. CASE n \in 1..Len(s)
      BY <1>1, <1>2, <1>4, <2>1
    <2>2. CASE n \notin 1..Len(s)
      <3>1. n = Len(s) + 1
        BY <1>1, <2>2
      <3> QED
        BY <1>1, <1>4, <3>1
    <2> QED
      BY <2>1, <2>2
  <1>7. u = v
    BY <1>4, <1>5, <1>6
  <1> QED
    BY <1>7 DEF u, v, t, more

LEMMA ConcatOf ==
    ASSUME NEW Q \in SUBSET PeerId, NEW F,
           \A m \in Q : F[m] \in Seq(AboutFrames(m))
    PROVE  /\ Concat(Q, F) \in Seq(Frame)
           /\ \A q \in PeerId \ Q : Concat(Q, F) \in Seq(OtherFrames(q))
           /\ \A q \in PeerId, info \in Info :
                Seen(info, q, Concat(Q, F)) = IF q \in Q THEN Seen(info, q, F[q]) ELSE info
  <1> DEFINE Frames(s) == [n \in DOMAIN s |-> F[s[n]]]
             All(s) == FlattenSeq(Frames(s))
             Effect(s) ==
               /\ Frames(s) \in Seq(Seq(Frame))
               /\ All(s) \in Seq(Frame)
               /\ \A q \in PeerId \ Q : All(s) \in Seq(OtherFrames(q))
               /\ Once(s) => \A q \in PeerId, info \in Info :
                    Seen(info, q, All(s)) = IF IsAt(s, q) THEN Seen(info, q, F[q]) ELSE info
             T == {s \in Seq(Q) : Effect(s)}
  <1>0. \A m \in Q : /\ F[m] \in Seq(Frame)
                     /\ \A q \in PeerId : q # m => F[m] \in Seq(OtherFrames(q))
    <2>1. \A m : AboutFrames(m) \subseteq Frame
      BY DEF AboutFrames
    <2> QED
      BY <2>1, AboutOne, SeqWider
  <1>1. <<>> \in T
    <2>1. Frames(<<>>) = <<>>
      OBVIOUS
    <2>2. All(<<>>) = <<>>
      BY <2>1, FlattenEmpty
    <2>3. \A S : <<>> \in Seq(S)
      OBVIOUS
    <2> HIDE DEF Frames, All
    <2>4. Effect(<<>>)
      BY <2>1, <2>2, <2>3, SeenNone, IsAtNone
    <2> HIDE DEF Effect
    <2> QED
      BY <2>3, <2>4
  <1>2. ASSUME NEW s \in T, NEW m \in Q PROVE Append(s, m) \in T
    <2> DEFINE more == Append(s, m)
               fs == Frames(s)
               a == All(s)
    <2>1. Frames(more) = Append(fs, F[m])
      BY MapMore
    <2>2. Effect(s) /\ s \in Seq(Q) /\ more \in Seq(Q)
      OBVIOUS
    <2>3. /\ fs \in Seq(Seq(Frame)) /\ a \in Seq(Frame) /\ a = FlattenSeq(fs)
          /\ \A q \in PeerId \ Q : a \in Seq(OtherFrames(q))
          /\ Once(s) => \A q \in PeerId, info \in Info :
               Seen(info, q, a) = IF IsAt(s, q) THEN Seen(info, q, F[q]) ELSE info
      BY <2>2
    <2>4. All(more) = FlattenSeq(Append(fs, F[m]))
      BY <2>1
    <2> HIDE DEF Frames, fs, a, All
    <2>5. All(more) = a \o F[m]
      BY <1>0, <2>3, <2>4, FlattenAppend
    <2>6. F[m] \in Seq(Frame) /\ \A q \in PeerId : q # m => F[m] \in Seq(OtherFrames(q))
      BY <1>0
    <2>7. Frames(more) \in Seq(Seq(Frame)) /\ All(more) \in Seq(Frame)
      BY <2>1, <2>3, <2>5, <2>6
    <2>8. ASSUME NEW q \in PeerId \ Q PROVE All(more) \in Seq(OtherFrames(q))
      <3>1. a \in Seq(OtherFrames(q)) /\ F[m] \in Seq(OtherFrames(q))
        BY <2>3, <2>6
      <3> QED
        BY <2>5, <3>1
    <2>9. ASSUME Once(more), NEW q \in PeerId, NEW info \in Info
          PROVE  Seen(info, q, All(more)) = IF IsAt(more, q) THEN Seen(info, q, F[q]) ELSE info
      <3>1. Once(s) /\ ~IsAt(s, m) /\ (IsAt(more, q) <=> IsAt(s, q) \/ q = m)
        BY <2>2, <2>9, IsAtMore
      <3>2. Seen(info, q, All(more)) = Seen(Seen(info, q, a), q, F[m])
        BY <2>3, <2>5, <2>6, SeenBoth
      <3>3. Seen(info, q, a) = IF IsAt(s, q) THEN Seen(info, q, F[q]) ELSE info
        BY <2>3, <3>1
      <3>4. Seen(info, q, a) \in Info
        BY <2>3, SeenType
      <3>5. CASE q = m
        BY <3>1, <3>2, <3>3, <3>5
      <3>6. CASE q # m
        <4>1. Seen(Seen(info, q, a), q, F[m]) = Seen(info, q, a)
          BY <2>6, <3>4, <3>6, SeenOthers
        <4> QED
          BY <3>1, <3>2, <3>3, <3>6, <4>1
      <3> QED
        BY <3>5, <3>6
    <2> HIDE DEF more
    <2>10. Effect(more)
      BY <2>7, <2>8, <2>9
    <2> HIDE DEF Effect
    <2> QED
      BY <2>2, <2>10 DEF more
  <1>3. T = Seq(Q)
    <2> HIDE DEF T
    <2>1. T \in SUBSET Seq(Q)
      BY DEF T
    <2> QED
      BY <1>1, <1>2, <2>1, SeqUp
  <1> DEFINE s == SetToSeq(Q)
  <1>4. s \in Seq(Q) /\ Once(s) /\ \A q \in Q : IsAt(s, q)
    <2>1. IsFiniteSet(Q)
      BY ServerAssumption, FS_Subset
    <2> QED
      BY <2>1, SeqOfSet DEF Once, IsAt
  <1>5. \A q : IsAt(s, q) => q \in Q
    <2> HIDE DEF s
    <2> QED
      BY <1>4, ElementOf DEF IsAt
  <1>6. Concat(Q, F) = All(s)
    BY DEF Concat
  <1>7. Effect(s)
    <2> HIDE DEF s, Effect
    <2> QED
      BY <1>3, <1>4
  <1> HIDE DEF s, All, Frames
  <1> QED
    BY <1>4, <1>5, <1>6, <1>7

-----------------------------------------------------------------------------
(* The global objects and the images of a peer, one after the other. *)
HasObjects(info, s, objs) ==
    [info EXCEPT !.objects = [o \in ObjectId |-> IF IsAt(s, o) THEN objs[o] ELSE info.objects[o]]]

LEMMA ObjectsCreated ==
    ASSUME NEW q \in PeerId, NEW objs \in Objects, NEW S \in SUBSET ObjectId,
           \A o \in S : objs[o] # None, NEW s \in Seq(S)
    PROVE  /\ [n \in DOMAIN s |-> ObjectCreated(q, s[n], objs[s[n]])] \in Seq(AboutFrames(q))
           /\ \A info \in Info : info.known =>
                Seen(info, q, [n \in DOMAIN s |-> ObjectCreated(q, s[n], objs[s[n]])])
                  = HasObjects(info, s, objs)
  <1> DEFINE F == [o \in S |-> ObjectCreated(q, o, objs[o])]
             Frames(u) == [n \in DOMAIN u |-> F[u[n]]]
             Effect(u) ==
               /\ Frames(u) \in Seq(AboutFrames(q))
               /\ \A info \in Info : info.known =>
                    Seen(info, q, Frames(u)) = HasObjects(info, u, objs)
             T == {u \in Seq(S) : Effect(u)}
  <1>0. AboutFrames(q) \subseteq Frame
    BY DEF AboutFrames
  <1>1. \A o \in S : F[o] \in AboutFrames(q) /\ F[o] = ObjectCreated(q, o, objs[o]) /\ objs[o] \in Val
    <2>1. \A o \in S : objs[o] \in Val
      BY DEF Objects
    <2> QED
      BY <2>1, ObjectFrame
  <1>2. <<>> \in T
    <2>1. Frames(<<>>) = <<>>
      OBVIOUS
    <2>2. ASSUME NEW info \in Info PROVE HasObjects(info, <<>>, objs) = info
      <3>1. info.objects = [o \in ObjectId |-> info.objects[o]]
        BY DEF Info, Objects
      <3>2. [o \in ObjectId |-> IF IsAt(<<>>, o) THEN objs[o] ELSE info.objects[o]] = info.objects
        BY <3>1, IsAtNone
      <3>3. [info EXCEPT !.objects = info.objects] = info
        BY DEF Info
      <3> QED
        BY <3>2, <3>3 DEF HasObjects
    <2>4. <<>> \in Seq(AboutFrames(q)) /\ <<>> \in Seq(S)
      OBVIOUS
    <2> HIDE DEF Frames
    <2>3. Effect(<<>>)
      BY <2>1, <2>2, <2>4, SeenNone
    <2> HIDE DEF Effect
    <2> QED
      BY <2>3, <2>4
  <1>3. ASSUME NEW u \in T, NEW x \in S PROVE Append(u, x) \in T
    <2> DEFINE more == Append(u, x)
    <2>1. Frames(more) = Append(Frames(u), F[x])
      BY MapMore
    <2>2. Effect(u) /\ u \in Seq(S) /\ more \in Seq(S)
      <3> HIDE DEF Effect
      <3> QED
        OBVIOUS
    <2>3. Frames(u) \in Seq(AboutFrames(q)) /\ Frames(u) \in Seq(Frame)
          /\ F[x] \in AboutFrames(q) /\ F[x] \in Frame
      BY <1>0, <1>1, <2>2, SeqWider
    <2>4. \A o : IsAt(more, o) <=> IsAt(u, o) \/ o = x
      BY <2>2, IsAtMore
    <2>a. \A info \in Info : info.known => Seen(info, q, Frames(u)) = HasObjects(info, u, objs)
      BY <2>2
    <2>b. F[x] = ObjectCreated(q, x, objs[x]) /\ x \in ObjectId /\ objs[x] \in Val
      BY <1>1
    <2> HIDE DEF Frames, more, F
    <2>5. ASSUME NEW info \in Info, info.known
          PROVE  Seen(info, q, Frames(more)) = HasObjects(info, more, objs)
      <3>1. Seen(info, q, Frames(more)) = SeenOne(Seen(info, q, Frames(u)), q, F[x])
        BY <2>1, <2>3, SeenAppend
      <3>2. Seen(info, q, Frames(u)) = HasObjects(info, u, objs)
        BY <2>5, <2>a
      <3> DEFINE i == HasObjects(info, u, objs)
      <3>3. SeenOne(i, q, F[x]) = WithObject(i, x, objs[x])
        <4> HIDE DEF i
        <4>1. Entry(i, ObjectCreated(q, x, objs[x])) = WithObject(i, x, objs[x])
          BY EntryOfObject
        <4>2. About(F[x], q)
          BY <2>3 DEF AboutFrames
        <4> QED
          BY <2>b, <4>1, <4>2 DEF SeenOne
      <3>4. i.known
        BY <2>5 DEF HasObjects, Info
      <3>5. WithObject(i, x, objs[x]) = HasObjects(info, more, objs)
        <4>1. WithObject(i, x, objs[x]) = [i EXCEPT !.objects[x] = objs[x]]
          BY <3>4 DEF WithObject
        <4>2. i.objects = [o \in ObjectId |-> IF IsAt(u, o) THEN objs[o] ELSE info.objects[o]]
          BY DEF HasObjects, Info
        <4>3. [i.objects EXCEPT ![x] = objs[x]]
                = [o \in ObjectId |-> IF IsAt(more, o) THEN objs[o] ELSE info.objects[o]]
          BY <2>4, <2>b, <4>2
        <4> QED
          BY <4>1, <4>3 DEF HasObjects, Info
      <3> QED
        BY <3>1, <3>2, <3>3, <3>5
    <2>6. Frames(more) \in Seq(AboutFrames(q))
      BY <2>1, <2>3
    <2>7. Effect(more)
      BY <2>5, <2>6
    <2> HIDE DEF Effect
    <2> QED
      BY <2>2, <2>7 DEF more
  <1>4. T = Seq(S)
    <2> HIDE DEF T
    <2>1. T \in SUBSET Seq(S)
      BY DEF T
    <2> QED
      BY <1>2, <1>3, <2>1, SeqUp
  <1>5. Effect(s)
    BY <1>4
  <1>6. Frames(s) = [n \in DOMAIN s |-> ObjectCreated(q, s[n], objs[s[n]])]
    BY <1>1, ElementOf
  <1> HIDE DEF Frames
  <1> QED
    BY <1>5, <1>6

HasImages(info, s) == [info EXCEPT !.images = @ \cup {i \in ImageIds : IsAt(s, i)}]

LEMMA ImagesCreated ==
    ASSUME NEW q \in PeerId, NEW S \in SUBSET ImageIds, NEW s \in Seq(S)
    PROVE  /\ [n \in DOMAIN s |-> ImageCreated(q, s[n])] \in Seq(AboutFrames(q))
           /\ \A info \in Info : info.known =>
                Seen(info, q, [n \in DOMAIN s |-> ImageCreated(q, s[n])]) = HasImages(info, s)
  <1> DEFINE F == [i \in S |-> ImageCreated(q, i)]
             Frames(u) == [n \in DOMAIN u |-> F[u[n]]]
             Effect(u) ==
               /\ Frames(u) \in Seq(AboutFrames(q))
               /\ \A info \in Info : info.known =>
                    Seen(info, q, Frames(u)) = HasImages(info, u)
             T == {u \in Seq(S) : Effect(u)}
  <1>0. AboutFrames(q) \subseteq Frame
    BY DEF AboutFrames
  <1>1. \A i \in S : F[i] \in AboutFrames(q) /\ F[i] = ImageCreated(q, i)
    BY ImageFrame
  <1>2. <<>> \in T
    <2>1. Frames(<<>>) = <<>>
      OBVIOUS
    <2>2. ASSUME NEW info \in Info PROVE HasImages(info, <<>>) = info
      BY IsAtNone DEF Info, HasImages
    <2>4. <<>> \in Seq(AboutFrames(q)) /\ <<>> \in Seq(S)
      OBVIOUS
    <2> HIDE DEF Frames
    <2>3. Effect(<<>>)
      BY <2>1, <2>2, <2>4, SeenNone
    <2> HIDE DEF Effect
    <2> QED
      BY <2>3, <2>4
  <1>3. ASSUME NEW u \in T, NEW x \in S PROVE Append(u, x) \in T
    <2> DEFINE more == Append(u, x)
    <2>1. Frames(more) = Append(Frames(u), F[x])
      BY MapMore
    <2>2. Effect(u) /\ u \in Seq(S) /\ more \in Seq(S)
      <3> HIDE DEF Effect
      <3> QED
        OBVIOUS
    <2>3. Frames(u) \in Seq(AboutFrames(q)) /\ Frames(u) \in Seq(Frame)
          /\ F[x] \in AboutFrames(q) /\ F[x] \in Frame
      BY <1>0, <1>1, <2>2, SeqWider
    <2>4. \A i : IsAt(more, i) <=> IsAt(u, i) \/ i = x
      BY <2>2, IsAtMore
    <2>a. \A info \in Info : info.known => Seen(info, q, Frames(u)) = HasImages(info, u)
      BY <2>2
    <2>b. F[x] = ImageCreated(q, x) /\ x \in ImageIds
      BY <1>1
    <2> HIDE DEF Frames, more, F
    <2>5. ASSUME NEW info \in Info, info.known
          PROVE  Seen(info, q, Frames(more)) = HasImages(info, more)
      <3>1. Seen(info, q, Frames(more)) = SeenOne(Seen(info, q, Frames(u)), q, F[x])
        BY <2>1, <2>3, SeenAppend
      <3>2. Seen(info, q, Frames(u)) = HasImages(info, u)
        BY <2>5, <2>a
      <3> DEFINE i == HasImages(info, u)
      <3>3. SeenOne(i, q, F[x]) = WithImage(i, x)
        <4> HIDE DEF i
        <4>1. Entry(i, ImageCreated(q, x)) = WithImage(i, x)
          BY EntryOfImage
        <4>2. About(F[x], q)
          BY <2>3 DEF AboutFrames
        <4> QED
          BY <2>b, <4>1, <4>2 DEF SeenOne
      <3>4. i.known
        BY <2>5 DEF HasImages, Info
      <3>5. WithImage(i, x) = HasImages(info, more)
        <4> DEFINE had == {j \in ImageIds : IsAt(u, j)}
        <4>1. {j \in ImageIds : IsAt(more, j)} = had \cup {x}
          BY <2>4, <2>b
        <4>2. i = [info EXCEPT !.images = info.images \cup had]
          BY DEF HasImages
        <4>3. HasImages(info, more) = [info EXCEPT !.images = info.images \cup (had \cup {x})]
          BY <4>1 DEF HasImages
        <4>4. WithImage(i, x) = [i EXCEPT !.images = i.images \cup {x}]
          BY <3>4 DEF WithImage
        <4>5. i.images \cup {x} = info.images \cup (had \cup {x})
          BY <4>2 DEF Info
        <4>6. [i EXCEPT !.images = i.images \cup {x}] = [info EXCEPT !.images = i.images \cup {x}]
          BY <4>2 DEF Info
        <4> HIDE DEF had, i
        <4> QED
          BY <4>3, <4>4, <4>5, <4>6
      <3> QED
        BY <3>1, <3>2, <3>3, <3>5
    <2>6. Frames(more) \in Seq(AboutFrames(q))
      BY <2>1, <2>3
    <2>7. Effect(more)
      BY <2>5, <2>6
    <2> HIDE DEF Effect
    <2> QED
      BY <2>2, <2>7 DEF more
  <1>4. T = Seq(S)
    <2> HIDE DEF T
    <2>1. T \in SUBSET Seq(S)
      BY DEF T
    <2> QED
      BY <1>2, <1>3, <2>1, SeqUp
  <1>5. Effect(s)
    BY <1>4
  <1>6. Frames(s) = [n \in DOMAIN s |-> ImageCreated(q, s[n])]
    BY <1>1, ElementOf
  <1> HIDE DEF Frames
  <1> QED
    BY <1>5, <1>6

(* A record with the fields of PeerInfo. *)
LEMMA InfoMade ==
    ASSUME NEW b \in BOOLEAN, NEW k \in Key \cup {ZeroKey}, NEW r \in RoomKey, NEW n \in Names,
           NEW objs \in Objects
    PROVE  [known |-> b, key |-> k, room |-> r, name |-> n, objects |-> objs, images |-> {}] \in Info
  BY DEF Info

IntroFrames(q, k, r, n, objs, imgs) ==
    <<PeerConnected(q, k, r, n)>> \o GlobalFrames(q, objs, imgs)

(* PeerConnected and what follows it introduce a peer, whatever was known before. *)
LEMMA IntroductionOf ==
    ASSUME NEW q \in PeerId, NEW k \in Key \cup {ZeroKey}, NEW r \in RoomKey, NEW n \in Names,
           NEW objs \in Objects, NEW imgs \in SUBSET ImageIds
    PROVE  /\ GlobalFrames(q, objs, imgs) \in Seq(AboutFrames(q))
           /\ IntroFrames(q, k, r, n, objs, imgs) \in Seq(AboutFrames(q))
           /\ \A info \in Info :
                Seen(info, q, IntroFrames(q, k, r, n, objs, imgs))
                  = Introduction(k, r, n, objs, imgs)
  <1> DEFINE S == {o \in RoomIds : objs[o] # None}
             ids == SetToSeq(S)
             pics == SetToSeq(imgs)
             s == [i \in DOMAIN ids |-> ObjectCreated(q, ids[i], objs[ids[i]])]
             u == [i \in DOMAIN pics |-> ImageCreated(q, pics[i])]
             f == PeerConnected(q, k, r, n)
             yes == TRUE
             info0 == [known |-> yes, key |-> k, room |-> r, name |-> n,
                       objects |-> NoObjects, images |-> {}]
  <1>1. ids \in Seq(S) /\ \A o \in S : IsAt(ids, o)
    <2>1. IsFiniteSet(S)
      BY ServerAssumption, FS_Subset
    <2> HIDE DEF S
    <2> QED
      BY <2>1, SeqOfSet DEF IsAt
  <1>2. pics \in Seq(imgs) /\ \A i \in imgs : IsAt(pics, i)
    <2>1. IsFiniteSet(imgs)
      BY ServerAssumption, FS_Subset
    <2> QED
      BY <2>1, SeqOfSet DEF IsAt
  <1>3. GlobalFrames(q, objs, imgs) = s \o u
    BY DEF GlobalFrames
  <1>4. S \in SUBSET ObjectId /\ \A o \in S : objs[o] # None
    BY DEF ObjectId
  <1>5. (\A o : IsAt(ids, o) => o \in S) /\ (\A i : IsAt(pics, i) => i \in imgs)
    <2> HIDE DEF ids, S, pics
    <2> QED
      BY <1>1, <1>2, ElementOf, SMTT(30) DEF IsAt
  <1> HIDE DEF ids, pics
  <1>6. /\ s \in Seq(AboutFrames(q))
        /\ \A info \in Info : info.known => Seen(info, q, s) = HasObjects(info, ids, objs)
    <2> HIDE DEF S
    <2> QED
      BY <1>1, <1>4, ObjectsCreated
  <1>7. /\ u \in Seq(AboutFrames(q))
        /\ \A info \in Info : info.known => Seen(info, q, u) = HasImages(info, pics)
    BY <1>2, ImagesCreated
  <1>8. info0 \in Info
    BY UnknownType DEF Info
  <1>9. \A info : Entry(info, f) = info0
    BY EntryConnected
  <1>10. f \in AboutFrames(q) /\ About(f, q) /\ f \in Frame
    BY ConnectedFrame DEF AboutFrames
  <1>11. info0.known /\ yes \in BOOLEAN
    OBVIOUS
  <1>a. Introduction(k, r, n, objs, imgs) =
          [known |-> yes, key |-> k, room |-> r, name |-> n, objects |-> Globals(objs), images |-> imgs]
    BY DEF Introduction
  <1> HIDE DEF yes
  <1>12. HasObjects(info0, ids, objs) =
           [known |-> yes, key |-> k, room |-> r, name |-> n, objects |-> Globals(objs), images |-> {}]
    <2>1. [o \in ObjectId |-> IF IsAt(ids, o) THEN objs[o] ELSE info0.objects[o]] = Globals(objs)
      <3> SUFFICES ASSUME NEW o \in ObjectId
                   PROVE  (IF IsAt(ids, o) THEN objs[o] ELSE info0.objects[o])
                            = IF o \in RoomIds THEN objs[o] ELSE None
        BY DEF Globals
      <3>1. info0.objects[o] = None
        BY DEF NoObjects
      <3> QED
        BY <1>1, <1>5, <3>1
    <2> DEFINE e == [o \in ObjectId |-> IF IsAt(ids, o) THEN objs[o] ELSE info0.objects[o]]
    <2>2. HasObjects(info0, ids, objs) = [info0 EXCEPT !.objects = e]
      BY Zenon DEF HasObjects
    <2>3. \A g : [info0 EXCEPT !.objects = g] =
                   [known |-> yes, key |-> k, room |-> r, name |-> n, objects |-> g, images |-> {}]
      OBVIOUS
    <2> HIDE DEF e
    <2> QED
      BY <2>1, <2>2, <2>3 DEF e
  <1> DEFINE info1 == HasObjects(info0, ids, objs)
  <1>13. info1 \in Info /\ info1.known
    <2>1. Globals(objs) \in Objects
      BY DEF Globals, Objects, ObjectId
    <2>2. yes /\ yes \in BOOLEAN
      BY DEF yes
    <2>3. [known |-> yes, key |-> k, room |-> r, name |-> n, objects |-> Globals(objs), images |-> {}]
            \in Info
      BY <2>1, <2>2, InfoMade
    <2>4. info1.known = yes
      BY <1>12
    <2> HIDE DEF info1
    <2>5. info1 \in Info
      BY <1>12, <2>3, Zenon DEF info1
    <2> QED
      BY <2>2, <2>4, <2>5, Zenon
  <1>14. HasImages(info1, pics) = Introduction(k, r, n, objs, imgs)
    <2>1. {i \in ImageIds : IsAt(pics, i)} = imgs
      BY <1>2, <1>5
    <2> QED
      BY <1>12, <1>a, <2>1 DEF HasImages
  <1> HIDE DEF s, u, f, info0, info1
  <1>15. s \in Seq(Frame) /\ u \in Seq(Frame)
    <2>1. AboutFrames(q) \subseteq Frame
      BY DEF AboutFrames
    <2> QED
      BY <1>6, <1>7, <2>1, SeqWider
  <1> DEFINE one == <<f>>
             g == s \o u
  <1>16. one \in Seq(Frame) /\ g \in Seq(Frame) /\ one \in Seq(AboutFrames(q)) /\ g \in Seq(AboutFrames(q))
         /\ one \o g \in Seq(AboutFrames(q))
    BY <1>6, <1>7, <1>10, <1>15
  <1>17. ASSUME NEW info \in Info
         PROVE  Seen(info, q, one \o g) = Introduction(k, r, n, objs, imgs)
    <2>1. Seen(info, q, one) = info0
      BY <1>9, <1>10, SeenSingle DEF SeenOne
    <2>2. Seen(info0, q, g) = Seen(Seen(info0, q, s), q, u)
      BY <1>8, <1>15, SeenBoth
    <2>3. Seen(info0, q, s) = info1
      BY <1>6, <1>8, <1>11 DEF info1, info0
    <2>4. Seen(info1, q, u) = Introduction(k, r, n, objs, imgs)
      BY <1>7, <1>13, <1>14
    <2> HIDE DEF one, g
    <2>5. Seen(info, q, one \o g) = Seen(Seen(info, q, one), q, g)
      BY <1>16, SeenBoth
    <2> QED
      BY <2>1, <2>2, <2>3, <2>4, <2>5
  <1> QED
    BY <1>3, <1>16, <1>17 DEF one, g, f, IntroFrames
-----------------------------------------------------------------------------
(* What a handler writes, and what each client makes of it. *)
Written == [PeerId -> Seq(Frame)]

(* The effect of each on the entries, for what is written to all. *)
EachTells(w, to, p, f) ==
    \A x, y \in PeerId, info \in Info :
        Seen(info, y, w[x]) = IF x \in to /\ y = p THEN Entry(info, f) ELSE info

Between(x, y, p, S) == (x = p /\ y \in S) \/ (x \in S /\ y = p)

JoinTells(w, p, met, objs) ==
    \A x, y \in PeerId, info \in Info :
        Seen(info, y, w[x]) = IF Between(x, y, p, met) THEN Joined(info, objs[y]) ELSE info

LeaveTells(w, p, stay) ==
    \A x, y \in PeerId, info \in Info :
        Seen(info, y, w[x]) = IF Between(x, y, p, stay) THEN Left(info) ELSE info

MetTells(w, K, N, O, I, rm, p, others) ==
    \A x, y \in PeerId, info \in Info :
        Seen(info, y, w[x]) =
            IF Between(x, y, p, others)
            THEN Introduction(K[y], rm[y], N[y], O[y], I[y]) ELSE info

LEMMA EachSeen ==
    ASSUME NEW to, NEW p \in PeerId, NEW f \in AboutFrames(p)
    PROVE  Each(to, f) \in Written /\ EachTells(Each(to, f), to, p, f)
  <1>1. f \in Frame /\ About(f, p) /\ \A y : About(f, y) <=> y = p
    BY DEF AboutFrames, About
  <1>2. <<f>> \in Seq(Frame) /\ <<>> \in Seq(Frame)
    BY <1>1
  <1>3. Each(to, f) \in Written
    BY <1>2 DEF Each, Written
  <1>4. ASSUME NEW x \in PeerId, NEW y \in PeerId, NEW info \in Info
        PROVE  Seen(info, y, Each(to, f)[x]) = IF x \in to /\ y = p THEN Entry(info, f) ELSE info
    <2>1. Each(to, f)[x] = IF x \in to THEN <<f>> ELSE <<>>
      BY DEF Each
    <2>2. Seen(info, y, <<f>>) = IF y = p THEN Entry(info, f) ELSE info
      BY <1>1, SeenSingle DEF SeenOne
    <2>3. Seen(info, y, <<>>) = info
      BY SeenNone
    <2> QED
      BY <2>1, <2>2, <2>3
  <1> QED
    BY <1>3, <1>4 DEF EachTells

LEMMA EachPlain ==
    ASSUME NEW to, NEW f \in {Challenge, Pong}
    PROVE  /\ Each(to, f) \in Written
           /\ \A x, y \in PeerId, info \in Info : Seen(info, y, Each(to, f)[x]) = info
  <1>1. \A y : f \in OtherFrames(y)
    BY PlainFrame
  <1>2. f \in Frame
    BY <1>1 DEF OtherFrames
  <1>3. Each(to, f) \in Written
    <2>1. <<f>> \in Seq(Frame) /\ <<>> \in Seq(Frame)
      BY <1>2
    <2> QED
      BY <2>1 DEF Each, Written
  <1>4. ASSUME NEW x \in PeerId, NEW y \in PeerId, NEW info \in Info
        PROVE  Seen(info, y, Each(to, f)[x]) = info
    <2>1. Each(to, f)[x] = IF x \in to THEN <<f>> ELSE <<>>
      BY DEF Each
    <2>2. <<f>> \in Seq(OtherFrames(y)) /\ <<>> \in Seq(OtherFrames(y))
      BY <1>1
    <2> HIDE DEF Each
    <2>3. Seen(info, y, <<f>>) = info /\ Seen(info, y, <<>>) = info
      BY <2>2, SeenOthers
    <2> QED
      BY <2>1, <2>3
  <1> QED
    BY <1>3, <1>4

LEMMA ThenSeen ==
    ASSUME NEW w1 \in Written, NEW w2 \in Written
    PROVE  /\ Then(w1, w2) \in Written
           /\ \A x, y \in PeerId, info \in Info :
                Seen(info, y, Then(w1, w2)[x]) = Seen(Seen(info, y, w1[x]), y, w2[x])
  <1>1. \A x \in PeerId : /\ w1[x] \in Seq(Frame) /\ w2[x] \in Seq(Frame)
                          /\ w1[x] \o w2[x] \in Seq(Frame)
    BY DEF Written
  <1>2. \A x \in PeerId : Then(w1, w2)[x] = w1[x] \o w2[x]
    BY DEF Then
  <1>3. Then(w1, w2) \in Written
    BY <1>1 DEF Then, Written
  <1>4. ASSUME NEW x \in PeerId, NEW y \in PeerId, NEW info \in Info
        PROVE  Seen(info, y, Then(w1, w2)[x]) = Seen(Seen(info, y, w1[x]), y, w2[x])
    <2>1. w1[x] \in Seq(Frame) /\ w2[x] \in Seq(Frame) /\ Then(w1, w2)[x] = w1[x] \o w2[x]
      BY <1>1, <1>2
    <2>2. Seen(info, y, w1[x] \o w2[x]) = Seen(Seen(info, y, w1[x]), y, w2[x])
      BY <2>1, SeenBoth
    <2> QED
      BY <2>1, <2>2, Zenon
  <1> QED
    BY <1>3, <1>4

(* join_room and leave_room. *)
LEMMA JoinFramesSeen ==
    ASSUME NEW p \in PeerId, NEW met \in SUBSET (PeerId \ {p}), NEW objs \in [PeerId -> Objects]
    PROVE  JoinFrames(p, met, objs) \in Written /\ JoinTells(JoinFrames(p, met, objs), p, met, objs)
  <1> DEFINE F == [m \in met |-> <<PeerJoin(m, Tokens(objs[m]))>>]
  <1>1. \A m \in PeerId : Tokens(objs[m]) \in Objects
    BY DEF Tokens, Objects
  <1>2. ASSUME NEW m \in PeerId, NEW info \in Info
        PROVE  Joined(info, Tokens(objs[m])) = Joined(info, objs[m])
    <2>1. \A o \in TokenIds : Tokens(objs[m])[o] = objs[m][o]
      BY DEF Tokens, ObjectId
    <2> QED
      BY <2>1 DEF Joined
  <1>3. ASSUME NEW m \in PeerId
        PROVE  /\ <<PeerJoin(m, Tokens(objs[m]))>> \in Seq(AboutFrames(m))
               /\ <<PeerJoin(m, Tokens(objs[m]))>> \in Seq(Frame)
               /\ \A y \in PeerId, info \in Info :
                    Seen(info, y, <<PeerJoin(m, Tokens(objs[m]))>>)
                      = IF y = m THEN Joined(info, objs[m]) ELSE info
    <2> DEFINE f == PeerJoin(m, Tokens(objs[m]))
    <2>1. f \in AboutFrames(m)
      BY <1>1, JoinFrame
    <2>2. \A info \in Info : Entry(info, f) = Joined(info, objs[m])
      <3>1. \A info \in Info : Entry(info, f) = Joined(info, Tokens(objs[m]))
        BY EntryJoin, Zenon
      <3> QED
        BY <1>2, <3>1, Zenon
    <2> HIDE DEF f
    <2>3. f \in Frame /\ \A y : About(f, y) <=> y = m
      BY <2>1 DEF AboutFrames, About
    <2>4. \A y \in PeerId, info \in Info : Seen(info, y, <<f>>) = IF y = m THEN Joined(info, objs[m]) ELSE info
      BY <2>2, <2>3, SeenSingle DEF SeenOne
    <2>5. <<f>> \in Seq(AboutFrames(m)) /\ <<f>> \in Seq(Frame)
      BY <2>1, <2>3
    <2> QED
      BY <2>4, <2>5 DEF f
  <1>4. \A m \in met : F[m] = <<PeerJoin(m, Tokens(objs[m]))>>
    OBVIOUS
  <1> HIDE DEF F
  <1>5. /\ Concat(met, F) \in Seq(Frame)
        /\ \A y \in PeerId, info \in Info :
             Seen(info, y, Concat(met, F)) = IF y \in met THEN Seen(info, y, F[y]) ELSE info
    <2>1. \A m \in met : F[m] \in Seq(AboutFrames(m))
      BY <1>3, <1>4
    <2>2. met \in SUBSET PeerId
      OBVIOUS
    <2> QED
      BY <2>1, <2>2, ConcatOf, ZenonT(30)
  <1>6. \A x \in PeerId : JoinFrames(p, met, objs)[x] =
          IF x = p THEN Concat(met, F)
          ELSE IF x \in met THEN <<PeerJoin(p, Tokens(objs[p]))>> ELSE <<>>
    BY DEF JoinFrames, F
  <1>7. JoinFrames(p, met, objs) \in Written
    <2>1. JoinFrames(p, met, objs) = [x \in PeerId |-> JoinFrames(p, met, objs)[x]]
      BY DEF JoinFrames
    <2>2. <<>> \in Seq(Frame)
      OBVIOUS
    <2>3. \A x \in PeerId : JoinFrames(p, met, objs)[x] \in Seq(Frame)
      BY <1>3, <1>5, <1>6, <2>2, Zenon
    <2> QED
      BY <2>1, <2>3, Zenon DEF Written
  <1>8. ASSUME NEW x \in PeerId, NEW y \in PeerId, NEW info \in Info
        PROVE  Seen(info, y, JoinFrames(p, met, objs)[x]) =
                 IF (x = p /\ y \in met) \/ (x \in met /\ y = p)
                 THEN Joined(info, objs[y]) ELSE info
    <2>1. CASE x = p
      <3>1. Seen(info, y, JoinFrames(p, met, objs)[x])
              = IF y \in met THEN Seen(info, y, F[y]) ELSE info
        BY <1>5, <1>6, <2>1
      <3>2. ASSUME y \in met
            PROVE  Seen(info, y, F[y]) = Joined(info, objs[y])
        <4>1. F[y] = <<PeerJoin(y, Tokens(objs[y]))>>
          BY <1>4, <3>2
        <4>2. Seen(info, y, <<PeerJoin(y, Tokens(objs[y]))>>) = Joined(info, objs[y])
          BY <1>3
        <4> QED
          BY <4>1, <4>2
      <3>3. p \notin met
        OBVIOUS
      <3> QED
        BY <2>1, <3>1, <3>2, <3>3
    <2>2. CASE x # p
      <3>1. Seen(info, y, <<>>) = info
        BY SeenNone
      <3> QED
        BY <1>3, <1>6, <2>2, <3>1
    <2> QED
      BY <2>1, <2>2
  <1> QED
    BY <1>7, <1>8 DEF JoinTells, Between

LEMMA LeaveFramesSeen ==
    ASSUME NEW p \in PeerId, NEW stay \in SUBSET (PeerId \ {p})
    PROVE  LeaveFrames(p, stay) \in Written /\ LeaveTells(LeaveFrames(p, stay), p, stay)
  <1> DEFINE F == [m \in stay |-> <<PeerLeave(m)>>]
  <1>1. ASSUME NEW m \in PeerId
        PROVE  /\ <<PeerLeave(m)>> \in Seq(AboutFrames(m))
               /\ <<PeerLeave(m)>> \in Seq(Frame)
               /\ \A y \in PeerId, info \in Info :
                    Seen(info, y, <<PeerLeave(m)>>) = IF y = m THEN Left(info) ELSE info
    <2> DEFINE f == PeerLeave(m)
    <2>1. f \in AboutFrames(m)
      BY DisconnectFrame
    <2>2. \A info \in Info : Entry(info, f) = Left(info)
      BY EntryOf
    <2> HIDE DEF f
    <2>3. f \in Frame /\ \A y : About(f, y) <=> y = m
      BY <2>1 DEF AboutFrames, About
    <2>4. \A y \in PeerId, info \in Info : Seen(info, y, <<f>>) = IF y = m THEN Left(info) ELSE info
      BY <2>2, <2>3, SeenSingle DEF SeenOne
    <2>5. <<f>> \in Seq(AboutFrames(m)) /\ <<f>> \in Seq(Frame)
      BY <2>1, <2>3
    <2> QED
      BY <2>4, <2>5 DEF f
  <1>2. \A m \in stay : F[m] = <<PeerLeave(m)>>
    OBVIOUS
  <1> HIDE DEF F
  <1>3. /\ Concat(stay, F) \in Seq(Frame)
        /\ \A y \in PeerId, info \in Info :
             Seen(info, y, Concat(stay, F)) = IF y \in stay THEN Seen(info, y, F[y]) ELSE info
    <2>1. \A m \in stay : F[m] \in Seq(AboutFrames(m))
      BY <1>1, <1>2
    <2>2. stay \in SUBSET PeerId
      OBVIOUS
    <2> QED
      BY <2>1, <2>2, ConcatOf, ZenonT(30)
  <1>4. \A x \in PeerId : LeaveFrames(p, stay)[x] =
          IF x = p THEN Concat(stay, F) ELSE IF x \in stay THEN <<PeerLeave(p)>> ELSE <<>>
    BY DEF LeaveFrames, F
  <1>5. LeaveFrames(p, stay) \in Written
    <2>1. LeaveFrames(p, stay) = [x \in PeerId |-> LeaveFrames(p, stay)[x]]
      BY DEF LeaveFrames
    <2>2. <<>> \in Seq(Frame)
      OBVIOUS
    <2>3. \A x \in PeerId : LeaveFrames(p, stay)[x] \in Seq(Frame)
      BY <1>1, <1>3, <1>4, <2>2, Zenon
    <2> QED
      BY <2>1, <2>3, Zenon DEF Written
  <1>6. ASSUME NEW x \in PeerId, NEW y \in PeerId, NEW info \in Info
        PROVE  Seen(info, y, LeaveFrames(p, stay)[x]) =
                 IF (x = p /\ y \in stay) \/ (x \in stay /\ y = p) THEN Left(info) ELSE info
    <2>1. CASE x = p
      <3>1. Seen(info, y, LeaveFrames(p, stay)[x])
              = IF y \in stay THEN Seen(info, y, F[y]) ELSE info
        BY <1>3, <1>4, <2>1
      <3> QED
        BY <1>1, <1>2, <2>1, <3>1
    <2>2. CASE x # p
      <3>1. Seen(info, y, <<>>) = info
        BY SeenNone
      <3> QED
        BY <1>1, <1>4, <2>2, <3>1
    <2> QED
      BY <2>1, <2>2
  <1> QED
    BY <1>5, <1>6 DEF LeaveTells, Between

(* Connect: the others learn of p, and p of the others, whose global objects are
   written once before they are introduced and once after. *)
Intro(K, N, O, I, rm, q) == IntroFrames(q, K[q], rm[q], N[q], O[q], I[q])

Met(K, N, O, I, rm, p, others) ==
    LET early == Concat(others, [q \in others |-> GlobalFrames(q, O[q], I[q])])
        late == Concat(others, [q \in others |-> Intro(K, N, O, I, rm, q)])
    IN  [q \in PeerId |->
            IF q = p THEN early \o late
            ELSE IF q \in others THEN Intro(K, N, O, I, rm, p) ELSE <<>>]

(* The types of key, name, objects, images and room. *)
PeerTypes(K, N, O, I, rm) ==
    /\ K \in [PeerId -> Key \cup {ZeroKey}]
    /\ N \in [PeerId -> Names]
    /\ O \in [PeerId -> Objects]
    /\ I \in [PeerId -> SUBSET ImageIds]
    /\ rm \in [PeerId -> RoomKey]

LEMMA MetSeen ==
    ASSUME NEW p \in PeerId, NEW others \in SUBSET (PeerId \ {p}),
           NEW K, NEW N, NEW O, NEW I, NEW rm, PeerTypes(K, N, O, I, rm)
    PROVE  /\ Met(K, N, O, I, rm, p, others) \in Written
           /\ MetTells(Met(K, N, O, I, rm, p, others), K, N, O, I, rm, p, others)
  <1> DEFINE G == [q \in others |-> GlobalFrames(q, O[q], I[q])]
             F == [q \in others |-> Intro(K, N, O, I, rm, q)]
             early == Concat(others, G)
             late == Concat(others, F)
             w == Met(K, N, O, I, rm, p, others)
  <1>1. ASSUME NEW q \in PeerId
        PROVE  /\ GlobalFrames(q, O[q], I[q]) \in Seq(AboutFrames(q))
               /\ Intro(K, N, O, I, rm, q) \in Seq(AboutFrames(q))
               /\ \A info \in Info :
                    Seen(info, q, Intro(K, N, O, I, rm, q))
                      = Introduction(K[q], rm[q], N[q], O[q], I[q])
    <2>1. /\ K[q] \in Key \cup {ZeroKey} /\ rm[q] \in RoomKey /\ N[q] \in Names
          /\ O[q] \in Objects /\ I[q] \in SUBSET ImageIds
      BY DEF PeerTypes
    <2>2. /\ GlobalFrames(q, O[q], I[q]) \in Seq(AboutFrames(q))
          /\ IntroFrames(q, K[q], rm[q], N[q], O[q], I[q])
               \in Seq(AboutFrames(q))
          /\ \A info \in Info :
               Seen(info, q, IntroFrames(q, K[q], rm[q], N[q], O[q], I[q]))
                 = Introduction(K[q], rm[q], N[q], O[q], I[q])
      BY <2>1, IntroductionOf
    <2> QED
      BY <2>2, Zenon DEF Intro
  <1>2. /\ \A q \in others : G[q] = GlobalFrames(q, O[q], I[q])
        /\ \A q \in others : F[q] = Intro(K, N, O, I, rm, q)
    OBVIOUS
  <1>3. \A x \in PeerId : w[x] = IF x = p THEN early \o late
                                 ELSE IF x \in others THEN Intro(K, N, O, I, rm, p) ELSE <<>>
    BY DEF Met
  <1>4. w = [x \in PeerId |-> w[x]]
    BY DEF Met
  <1>5. others \in SUBSET PeerId
    OBVIOUS
  <1> HIDE DEF F, G, w
  <1>6. /\ early \in Seq(Frame)
        /\ \A y \in PeerId, info \in Info :
             Seen(info, y, early) = IF y \in others THEN Seen(info, y, G[y]) ELSE info
    <2>1. \A m \in others : G[m] \in Seq(AboutFrames(m))
      BY <1>1, <1>2
    <2> HIDE DEF early
    <2>2. /\ Concat(others, G) \in Seq(Frame)
          /\ \A y \in PeerId, info \in Info :
               Seen(info, y, Concat(others, G)) = IF y \in others THEN Seen(info, y, G[y]) ELSE info
      BY <1>5, <2>1, ConcatOf, ZenonT(30)
    <2> QED
      BY <2>2 DEF early
  <1>7. /\ late \in Seq(Frame)
        /\ \A y \in PeerId, info \in Info :
             Seen(info, y, late) = IF y \in others THEN Seen(info, y, F[y]) ELSE info
    <2>1. \A m \in others : F[m] \in Seq(AboutFrames(m))
      BY <1>1, <1>2
    <2> HIDE DEF late
    <2>2. /\ Concat(others, F) \in Seq(Frame)
          /\ \A y \in PeerId, info \in Info :
               Seen(info, y, Concat(others, F)) = IF y \in others THEN Seen(info, y, F[y]) ELSE info
      BY <1>5, <2>1, ConcatOf, ZenonT(30)
    <2> QED
      BY <2>2 DEF late
  <1> HIDE DEF early, late
  <1>8. early \o late \in Seq(Frame)
    BY <1>6, <1>7
  <1>9. \A q \in PeerId : /\ Intro(K, N, O, I, rm, q) \in Seq(Frame)
                          /\ \A y \in PeerId : y # q => Intro(K, N, O, I, rm, q) \in Seq(OtherFrames(y))
    <2>1. \A m : AboutFrames(m) \subseteq Frame
      BY DEF AboutFrames
    <2> QED
      BY <1>1, <2>1, AboutOne, SeqWider
  <1>10. w \in Written
    <2>1. <<>> \in Seq(Frame)
      OBVIOUS
    <2>2. \A x \in PeerId : w[x] \in Seq(Frame)
      BY <1>3, <1>8, <1>9, <2>1, Zenon
    <2> QED
      BY <1>4, <2>2, Zenon DEF Written
  <1>11. ASSUME NEW x \in PeerId, NEW y \in PeerId, NEW info \in Info
         PROVE  Seen(info, y, w[x]) =
                  IF (x = p /\ y \in others) \/ (x \in others /\ y = p)
                  THEN Introduction(K[y], rm[y], N[y], O[y], I[y]) ELSE info
    <2>1. CASE x = p
      <3>1. Seen(info, y, early) \in Info
        BY <1>6, SeenType
      <3>2. Seen(info, y, early \o late) = Seen(Seen(info, y, early), y, late)
        BY <1>6, <1>7, SeenBoth
      <3>3. CASE y \in others
        <4> DEFINE seen == Seen(info, y, early)
        <4>1. Seen(seen, y, late) = Seen(seen, y, F[y])
          BY <1>7, <3>1, <3>3
        <4>2. Seen(seen, y, F[y]) = Introduction(K[y], rm[y], N[y], O[y], I[y])
          BY <1>1, <1>2, <3>1, <3>3
        <4> QED
          BY <1>3, <2>1, <3>2, <3>3, <4>1, <4>2
      <3>4. CASE y \notin others
        BY <1>3, <1>6, <1>7, <2>1, <3>1, <3>2, <3>4
      <3> QED
        BY <3>3, <3>4
    <2>2. CASE x # p /\ x \in others /\ y = p
      BY <1>1, <1>3, <2>2
    <2>3. CASE x # p /\ x \in others /\ y # p
      <3>1. Seen(info, y, Intro(K, N, O, I, rm, p)) = info
        BY <1>9, <2>3, SeenOthers
      <3> QED
        BY <1>3, <2>3, <3>1
    <2>4. CASE x # p /\ x \notin others
      <3>1. Seen(info, y, <<>>) = info
        BY SeenNone
      <3> QED
        BY <1>3, <2>4, <3>1
    <2> QED
      BY <2>1, <2>2, <2>3, <2>4
  <1> QED
    BY <1>10, <1>11 DEF w, MetTells, Between

-----------------------------------------------------------------------------
(* The tables of the clients once they have read what is written to them: the
   view of Relay. *)
View == [p \in PeerId |-> Read(held[p], out[p])]

LEMMA ViewType == TypeOK => View \in [PeerId -> Table]
  BY ReadType DEF TypeOK, View, Table

(* What is written is read last. *)
LEMMA WriteView ==
    ASSUME TypeOK, NEW w \in Written, Write(w), held' = held
    PROVE  /\ out' \in [PeerId -> Seq(Frame)]
           /\ View' = [x \in PeerId |-> [y \in PeerId |-> Seen(View[x][y], y, w[x])]]
  <1>1. ASSUME NEW x \in PeerId
        PROVE  /\ out[x] \in Seq(Frame) /\ w[x] \in Seq(Frame) /\ held[x] \in Table
               /\ out'[x] = out[x] \o w[x]
               /\ out[x] \o w[x] \in Seq(Frame)
    <2>1. out[x] \in Seq(Frame) /\ w[x] \in Seq(Frame) /\ held[x] \in Table
      BY DEF TypeOK, Written, Table
    <2>2. out'[x] = out[x] \o w[x]
      BY DEF Write
    <2> QED
      BY <2>1, <2>2
  <1>2. out' \in [PeerId -> Seq(Frame)]
    BY <1>1 DEF Write
  <1>3. ASSUME NEW x \in PeerId
        PROVE  View'[x] = [y \in PeerId |-> Seen(View[x][y], y, w[x])]
    <2>1. View'[x] = Read(held[x], out[x] \o w[x]) /\ View[x] = Read(held[x], out[x])
      BY <1>1 DEF View
    <2> HIDE DEF View
    <2>2. View'[x] = Read(View[x], w[x])
      <3> DEFINE was == held[x]
                 s == out[x]
                 u == w[x]
      <3>1. s \in Seq(Frame) /\ u \in Seq(Frame)
        BY <1>1
      <3> HIDE DEF was, s, u
      <3>2. Read(was, s \o u) = Read(Read(was, s), u)
        BY <3>1, ReadBoth
      <3> QED
        BY <2>1, <3>2 DEF was, s, u
    <2>3. View[x] \in Table
      BY <1>1, <2>1, ReadType
    <2>4. View'[x] \in Table
      BY <1>1, <2>2, <2>3, ReadType
    <2>5. ASSUME NEW y \in PeerId PROVE View'[x][y] = Seen(View[x][y], y, w[x])
      <3>1. Read(View[x], w[x])[y] = Seen(View[x][y], y, w[x])
        BY <1>1, <2>3, ReadSeen
      <3> QED
        BY <2>2, <3>1
    <2>6. View'[x] = [y \in PeerId |-> View'[x][y]]
      BY <2>4 DEF Table
    <2> QED
      BY <2>5, <2>6
  <1>4. View' = [x \in PeerId |-> View'[x]]
    BY DEF View
  <1> QED
    BY <1>2, <1>3, <1>4

-----------------------------------------------------------------------------
(* What the handlers write, action by action. *)
LEMMA EachWritten ==
    ASSUME TypeOK, NEW p \in PeerId, NEW to, NEW f \in AboutFrames(p), Write(Each(to, f)), held' = held
    PROVE  /\ Each(to, f) \in Written
           /\ out' \in [PeerId -> Seq(Frame)]
           /\ View' = [x \in PeerId |-> [y \in PeerId |->
                IF x \in to /\ y = p THEN Entry(View[x][y], f) ELSE View[x][y]]]
  <1> DEFINE w == Each(to, f)
  <1>1. w \in Written /\ \A x, y \in PeerId, info \in Info :
          Seen(info, y, w[x]) = IF x \in to /\ y = p THEN Entry(info, f) ELSE info
    <2>1. Each(to, f) \in Written /\ EachTells(Each(to, f), to, p, f)
      BY EachSeen
    <2> QED
      BY <2>1 DEF EachTells
  <1> HIDE DEF w
  <1>2. /\ out' \in [PeerId -> Seq(Frame)]
        /\ View' = [x \in PeerId |-> [y \in PeerId |-> Seen(View[x][y], y, w[x])]]
    BY <1>1, WriteView DEF w
  <1>3. \A x, y \in PeerId : View[x][y] \in Info
    BY ViewType DEF Table
  <1> QED
    BY <1>1, <1>2, <1>3 DEF w

LEMMA PlainWritten ==
    ASSUME TypeOK, NEW to, NEW f \in {Challenge, Pong}, Write(Each(to, f)), held' = held
    PROVE  /\ Each(to, f) \in Written
           /\ out' \in [PeerId -> Seq(Frame)]
           /\ View' = View
  <1> DEFINE w == Each(to, f)
  <1>1. w \in Written /\ \A x, y \in PeerId, info \in Info : Seen(info, y, w[x]) = info
    BY EachPlain
  <1> HIDE DEF w
  <1>2. /\ out' \in [PeerId -> Seq(Frame)]
        /\ View' = [x \in PeerId |-> [y \in PeerId |-> Seen(View[x][y], y, w[x])]]
    BY <1>1, WriteView DEF w
  <1>3. View \in [PeerId -> Table]
    BY ViewType
  <1>4. \A x, y \in PeerId : View[x][y] \in Info
    BY <1>3 DEF Table
  <1>5. View' = [x \in PeerId |-> [y \in PeerId |-> View[x][y]]]
    BY <1>1, <1>2, <1>4
  <1>6. \A x \in PeerId : [y \in PeerId |-> View[x][y]] = View[x]
    BY <1>3 DEF Table
  <1>7. View = [x \in PeerId |-> View[x]]
    BY <1>3
  <1> QED
    BY <1>1, <1>2, <1>5, <1>6, <1>7 DEF w

(* The frames of Connect. *)
ConnectWords(p, met) ==
    Then(Met(key', name', objects', images', room', p, Others(p)), JoinFrames(p, met, objects'))

LEMMA ConnectWritten ==
    ASSUME TypeOK, NEW p \in live, NEW met \in SUBSET Others(p),
           PeerTypes(key', name', objects', images', room'),
           Write(ConnectWords(p, met)), held' = held
    PROVE  /\ ConnectWords(p, met) \in Written
           /\ out' \in [PeerId -> Seq(Frame)]
           /\ View' = [x \in PeerId |-> [y \in PeerId |->
                IF (x = p /\ y \in Others(p)) \/ (x \in Others(p) /\ y = p)
                THEN IF x \in met \/ y \in met
                     THEN Joined(Introduction(key'[y], room'[y], name'[y], objects'[y], images'[y]),
                                 objects'[y])
                     ELSE Introduction(key'[y], room'[y], name'[y], objects'[y], images'[y])
                ELSE View[x][y]]]
  <1> DEFINE w1 == Met(key', name', objects', images', room', p, Others(p))
             w2 == JoinFrames(p, met, objects')
             w == ConnectWords(p, met)
             In(y) == Introduction(key'[y], room'[y], name'[y], objects'[y], images'[y])
  <1>1. p \in PeerId /\ Others(p) \in SUBSET (PeerId \ {p}) /\ met \in SUBSET (PeerId \ {p})
        /\ p \notin met /\ met \in SUBSET Others(p)
    BY DEF TypeOK, Others
  <1>2. objects' \in [PeerId -> Objects]
    BY DEF PeerTypes
  <1> HIDE DEF In
  <1>3. w1 \in Written /\ \A x, y \in PeerId, info \in Info :
          Seen(info, y, w1[x]) = IF Between(x, y, p, Others(p)) THEN In(y) ELSE info
    <2>1. /\ w1 \in Written
          /\ MetTells(w1, key', name', objects', images', room', p, Others(p))
      BY <1>1, MetSeen
    <2> HIDE DEF w1
    <2> QED
      BY <2>1 DEF In, MetTells
  <1>4. w2 \in Written /\ \A x, y \in PeerId, info \in Info :
          Seen(info, y, w2[x]) = IF Between(x, y, p, met) THEN Joined(info, objects'[y]) ELSE info
    <2>1. w2 \in Written /\ JoinTells(w2, p, met, objects')
      BY <1>1, <1>2, JoinFramesSeen
    <2> HIDE DEF w2
    <2> QED
      BY <2>1 DEF JoinTells
  <1>5. \A y \in PeerId : In(y) \in Info
    BY DEF In, PeerTypes, Introduction, Info, Globals, Objects, ObjectId
  <1>6. w = Then(w1, w2)
    BY DEF ConnectWords
  <1> HIDE DEF w, w1, w2
  <1>7. w \in Written /\ \A x, y \in PeerId, info \in Info :
          Seen(info, y, w[x]) = Seen(Seen(info, y, w1[x]), y, w2[x])
    BY <1>3, <1>4, <1>6, ThenSeen
  <1>8. /\ out' \in [PeerId -> Seq(Frame)]
        /\ View' = [x \in PeerId |-> [y \in PeerId |-> Seen(View[x][y], y, w[x])]]
    BY <1>7, WriteView DEF w
  <1>9. \A x, y \in PeerId : View[x][y] \in Info
    BY ViewType DEF Table
  <1>10. ASSUME NEW x \in PeerId, NEW y \in PeerId
         PROVE  Seen(View[x][y], y, w[x]) =
                  IF Between(x, y, p, Others(p))
                  THEN IF x \in met \/ y \in met THEN Joined(In(y), objects'[y]) ELSE In(y)
                  ELSE View[x][y]
    <2>1. CASE Between(x, y, p, Others(p))
      <3>1. Seen(View[x][y], y, w1[x]) = In(y)
        BY <1>3, <1>9, <2>1
      <3>2. Between(x, y, p, met) <=> x \in met \/ y \in met
        BY <1>1, <2>1 DEF Between
      <3> QED
        BY <1>4, <1>5, <1>7, <1>9, <2>1, <3>1, <3>2
    <2>2. CASE ~Between(x, y, p, Others(p))
      <3>1. Seen(View[x][y], y, w1[x]) = View[x][y]
        BY <1>3, <1>9, <2>2
      <3>2. ~Between(x, y, p, met)
        BY <1>1, <2>2 DEF Between
      <3> QED
        BY <1>4, <1>7, <1>9, <2>2, <3>1, <3>2
    <2> QED
      BY <2>1, <2>2
  <1> QED
    BY <1>7, <1>8, <1>10 DEF w, In, Between

(* The frames of PeerUpdate of ROOM. *)
RoomWords(p, r, stay, met) ==
    Then(Each(Others(p), RoomUpdated(p, r)), Then(LeaveFrames(p, stay), JoinFrames(p, met, objects)))

(* What client x holds of peer y then. *)
RoomSeen(p, r, stay, met, x, y) ==
    LET told == IF x \in Others(p) /\ y = p THEN WithRoom(View[x][y], r) ELSE View[x][y]
        gone == IF Between(x, y, p, stay) THEN Left(told) ELSE told
    IN  IF Between(x, y, p, met) THEN Joined(gone, objects[y]) ELSE gone

LEMMA RoomWritten ==
    ASSUME TypeOK, NEW p \in live, NEW r \in RoomKey, NEW stay \in SUBSET Others(p),
           NEW met \in SUBSET Others(p), Write(RoomWords(p, r, stay, met)), held' = held
    PROVE  /\ RoomWords(p, r, stay, met) \in Written
           /\ out' \in [PeerId -> Seq(Frame)]
           /\ View' = [x \in PeerId |-> [y \in PeerId |-> RoomSeen(p, r, stay, met, x, y)]]
  <1> DEFINE w1 == Each(Others(p), RoomUpdated(p, r))
             w2 == LeaveFrames(p, stay)
             w3 == JoinFrames(p, met, objects)
             w == RoomWords(p, r, stay, met)
             Told(x, y) == IF x \in Others(p) /\ y = p
                           THEN WithRoom(View[x][y], r) ELSE View[x][y]
             Gone(x, y) == IF Between(x, y, p, stay) THEN Left(Told(x, y)) ELSE Told(x, y)
             Next3(x, y) == IF Between(x, y, p, met) THEN Joined(Gone(x, y), objects[y]) ELSE Gone(x, y)
  <1>1. p \in PeerId /\ stay \in SUBSET (PeerId \ {p}) /\ met \in SUBSET (PeerId \ {p})
    BY DEF TypeOK, Others
  <1>2. objects \in [PeerId -> Objects]
    BY DEF TypeOK
  <1>3. w1 \in Written /\ \A x, y \in PeerId, info \in Info :
          Seen(info, y, w1[x]) = IF x \in Others(p) /\ y = p THEN WithRoom(info, r) ELSE info
    <2> DEFINE f == RoomUpdated(p, r)
    <2>1. f \in AboutFrames(p)
      BY <1>1, UpdatedFrame, DataAssumption
    <2>2. \A info : Entry(info, f) = WithRoom(info, r)
      BY EntryOf
    <2> HIDE DEF f
    <2>3. /\ Each(Others(p), f) \in Written
          /\ EachTells(Each(Others(p), f), Others(p), p, f)
      BY <1>1, <2>1, EachSeen
    <2> QED
      BY <2>2, <2>3 DEF f, EachTells
  <1>4. w2 \in Written /\ \A x, y \in PeerId, info \in Info :
          Seen(info, y, w2[x]) = IF Between(x, y, p, stay) THEN Left(info) ELSE info
    <2>1. w2 \in Written /\ LeaveTells(w2, p, stay)
      BY <1>1, LeaveFramesSeen
    <2> HIDE DEF w2
    <2> QED
      BY <2>1 DEF LeaveTells
  <1>5. w3 \in Written /\ \A x, y \in PeerId, info \in Info :
          Seen(info, y, w3[x]) = IF Between(x, y, p, met) THEN Joined(info, objects[y]) ELSE info
    <2>1. w3 \in Written /\ JoinTells(w3, p, met, objects)
      BY <1>1, <1>2, JoinFramesSeen
    <2> HIDE DEF w3
    <2> QED
      BY <2>1 DEF JoinTells
  <1>6. w = Then(w1, Then(w2, w3))
    BY DEF RoomWords
  <1> HIDE DEF w, w1, w2, w3
  <1>7. Then(w2, w3) \in Written /\ \A x, y \in PeerId, info \in Info :
          Seen(info, y, Then(w2, w3)[x]) = Seen(Seen(info, y, w2[x]), y, w3[x])
    BY <1>4, <1>5, ThenSeen
  <1>8. w \in Written /\ \A x, y \in PeerId, info \in Info :
          Seen(info, y, w[x]) = Seen(Seen(info, y, w1[x]), y, Then(w2, w3)[x])
    BY <1>3, <1>6, <1>7, ThenSeen
  <1>9. /\ out' \in [PeerId -> Seq(Frame)]
        /\ View' = [x \in PeerId |-> [y \in PeerId |-> Seen(View[x][y], y, w[x])]]
    BY <1>8, WriteView DEF w
  <1>10. \A x, y \in PeerId : View[x][y] \in Info
    BY ViewType DEF Table
  <1>11. ASSUME NEW x \in PeerId, NEW y \in PeerId
         PROVE  Seen(View[x][y], y, w[x]) = Next3(x, y)
    <2>1. Told(x, y) \in Info /\ Seen(View[x][y], y, w1[x]) = Told(x, y)
      BY <1>3, <1>10, InfoType
    <2> HIDE DEF Told
    <2>2. Gone(x, y) \in Info /\ Seen(Told(x, y), y, w2[x]) = Gone(x, y)
      BY <1>2, <1>4, <2>1, JoinedType
    <2> HIDE DEF Gone
    <2>3. Seen(Gone(x, y), y, w3[x]) = Next3(x, y)
      BY <1>5, <2>2
    <2> HIDE DEF Next3
    <2> QED
      BY <1>7, <1>8, <1>10, <2>1, <2>2, <2>3
  <1> QED
    BY <1>8, <1>9, <1>11 DEF w, RoomSeen
-----------------------------------------------------------------------------
(* Types. *)
LEMMA JoinType ==
    ASSUME NEW D, NEW table \in [D -> SUBSET PeerId], NEW r, NEW p \in PeerId
    PROVE  JoinRoom(table, r, p) \in [D -> SUBSET PeerId]
  BY DEF JoinRoom

LEMMA LeaveType ==
    ASSUME NEW D, NEW table \in [D -> SUBSET PeerId], NEW r, NEW p \in PeerId
    PROVE  LeaveRoom(table, r, p) \in [D -> SUBSET PeerId]
  BY DEF LeaveRoom

LEMMA CreateType ==
    ASSUME NEW D, NEW table \in [D -> SUBSET PeerId], live \in SUBSET PeerId, NEW S, NEW where
    PROVE  CreateRooms(table, S, live, where) \in [D \cup S -> SUBSET PeerId]
  BY DEF CreateRooms

(* A handler leaves the connections and what the clients have read alone, and marks
   connections only. *)
LEMMA HandledType ==
    ASSUME TypeOK, NEW p \in live, NEW told \in SUBSET live, Handled(p, told)
    PROVE  /\ held' = held /\ live' = live /\ last' = last /\ free' = free
           /\ poll' \in SUBSET live'
           /\ blocked' \in SUBSET live'
           /\ poll' \cup blocked' = poll \cup blocked \cup told \cup {p}
  BY DEF Handled, idVars, TypeOK

(* The audience of a frame: connections, and not the one it is about. *)
LEMMA AudienceType ==
    ASSUME NEW p
    PROVE  /\ Others(p) \in SUBSET live /\ p \notin Others(p)
           /\ \A table, r : Audience(table, r, p) \in SUBSET Others(p)
           /\ \A o : ObjectAudience(p, o) \in SUBSET Others(p)
  BY DEF Others, Audience, ObjectAudience

(* The part of the types the handlers have in common. *)
BufferTypes ==
    /\ last \in 0..MaxId
    /\ free \in Seq(PeerId)
    /\ live \in SUBSET PeerId
    /\ out \in [PeerId -> Seq(Frame)]
    /\ held \in [PeerId -> [PeerId -> Info]]
    /\ poll \in SUBSET live
    /\ blocked \in SUBSET live

LEMMA SendType ==
    ASSUME TypeOK, NEW p \in live, NEW to \in SUBSET Others(p), NEW f \in AboutFrames(p),
           Send(p, to, f)
    PROVE  /\ BufferTypes'
           /\ View' = [x \in PeerId |-> [y \in PeerId |->
                IF x \in to /\ y = p THEN Entry(View[x][y], f) ELSE View[x][y]]]
  <1>1. p \in PeerId /\ to \in SUBSET live
    BY AudienceType DEF TypeOK
  <1>2. Write(Each(to, f)) /\ Handled(p, to)
    BY DEF Send
  <1>3. /\ held' = held /\ live' = live /\ last' = last /\ free' = free
        /\ poll' \in SUBSET live' /\ blocked' \in SUBSET live'
    BY <1>1, <1>2, HandledType
  <1>4. /\ out' \in [PeerId -> Seq(Frame)]
        /\ View' = [x \in PeerId |-> [y \in PeerId |->
             IF x \in to /\ y = p THEN Entry(View[x][y], f) ELSE View[x][y]]]
    BY <1>1, <1>2, <1>3, EachWritten
  <1> QED
    BY <1>3, <1>4 DEF BufferTypes, TypeOK

LEMMA TypeInit == Init => TypeOK
  BY UnknownType, IdAssumption, DataAssumption DEF Init, TypeOK, RoomKey, Nothing

LEMMA AcceptType == ASSUME TypeOK, Accept PROVE TypeOK'
  <1> USE DEF peerVars
  <1>1. ASSUME NEW id \in PeerId, AcceptAs(id)
        PROVE  live' \in SUBSET PeerId /\ poll' \in SUBSET live' /\ blocked' \in SUBSET live'
    BY <1>1 DEF AcceptAs, TypeOK
  <1>2. CASE free # <<>> /\ free' = Tail(free) /\ last' = last /\ AcceptAs(Head(free))
    <2>1. Head(free) \in PeerId /\ Tail(free) \in Seq(PeerId)
      BY <1>2 DEF TypeOK
    <2> QED
      BY <1>1, <1>2, <2>1 DEF AcceptAs, TypeOK
  <1>3. CASE last < MaxId /\ last' = last + 1 /\ free' = free /\ AcceptAs(Mix[last + 1])
    <2>1. last' \in 0..MaxId /\ Mix[last + 1] \in PeerId
      BY <1>3, IdAssumption DEF TypeOK
    <2> QED
      BY <1>1, <1>3, <2>1 DEF AcceptAs, TypeOK
  <1> QED
    BY <1>2, <1>3 DEF Accept

(* What a write that goes n frames far leaves is read later. *)
LEMMA PolledSplit ==
    ASSUME TypeOK, NEW p \in PeerId, NEW n \in 0..Len(out[p])
    PROVE  /\ SubSeq(out[p], 1, n) \in Seq(Frame)
           /\ SubSeq(out[p], n + 1, Len(out[p])) \in Seq(Frame)
           /\ out[p] = SubSeq(out[p], 1, n) \o SubSeq(out[p], n + 1, Len(out[p]))
           /\ SubSeq(out[p], n + 1, Len(out[p])) # <<>> => n < Len(out[p])
  <1> DEFINE s == out[p]
  <1>1. s \in Seq(Frame) /\ n \in 0..Len(s)
    BY DEF TypeOK
  <1> HIDE DEF s
  <1>2. /\ SubSeq(s, 1, n) \in Seq(Frame)
        /\ SubSeq(s, n + 1, Len(s)) \in Seq(Frame)
        /\ Len(SubSeq(s, 1, n)) = n
        /\ Len(SubSeq(s, n + 1, Len(s))) = Len(s) - n
        /\ \A i \in 1..n : SubSeq(s, 1, n)[i] = s[i]
        /\ \A i \in 1..(Len(s) - n) : SubSeq(s, n + 1, Len(s))[i] = s[n + i]
    BY <1>1
  <1> DEFINE t == SubSeq(s, 1, n)
             u == SubSeq(s, n + 1, Len(s))
  <1>3. s = t \o u
    <2>0. /\ t \in Seq(Frame) /\ u \in Seq(Frame) /\ Len(t) = n /\ Len(u) = Len(s) - n
          /\ \A i \in 1..n : t[i] = s[i]
          /\ \A i \in 1..(Len(s) - n) : u[i] = s[n + i]
      BY <1>2
    <2> HIDE DEF t, u
    <2>1. /\ t \o u \in Seq(Frame)
          /\ Len(t \o u) = Len(t) + Len(u)
          /\ \A i \in 1..(Len(t) + Len(u)) : (t \o u)[i] = IF i <= Len(t) THEN t[i] ELSE u[i - Len(t)]
      BY <2>0, ConcatProperties
    <2> DEFINE v == t \o u
    <2>2. v \in Seq(Frame) /\ Len(v) = Len(s)
      BY <1>1, <2>0, <2>1
    <2>3. ASSUME NEW i \in 1..Len(s) PROVE s[i] = v[i]
      <3>1. v[i] = IF i <= n THEN t[i] ELSE u[i - n]
        BY <1>1, <2>0, <2>1
      <3> HIDE DEF v
      <3>2. CASE i <= n
        BY <1>1, <2>0, <3>1, <3>2
      <3>3. CASE ~(i <= n)
        <4>1. i - n \in 1..(Len(s) - n) /\ n + (i - n) = i
          BY <1>1, <3>3
        <4>2. u[i - n] = s[n + (i - n)]
          BY <2>0, <4>1
        <4> QED
          BY <3>1, <3>3, <4>1, <4>2
      <3> QED
        BY <3>2, <3>3
    <2> HIDE DEF v
    <2>4. s = v
      BY <1>1, <2>2, <2>3, SeqEqual
    <2> QED
      BY <2>4 DEF v
  <1>4. SubSeq(s, n + 1, Len(s)) # <<>> => n < Len(s)
    BY <1>1, <1>2
  <1> QED
    BY <1>2, <1>3, <1>4 DEF s

LEMMA PollType ==
    ASSUME TypeOK, NEW p \in PeerId, NEW n \in 0..Len(out[p]), PollPeer(p, n)
    PROVE  TypeOK' /\ View' = View
  <1> DEFINE s == SubSeq(out[p], 1, n)
             u == SubSeq(out[p], n + 1, Len(out[p]))
  <1>1. s \in Seq(Frame) /\ u \in Seq(Frame) /\ out[p] = s \o u
    BY PolledSplit
  <1>2. /\ held' = [held EXCEPT ![p] = Read(held[p], s)]
        /\ out' = [out EXCEPT ![p] = u]
        /\ poll' = poll \ {p}
        /\ blocked' \in {blocked \cup {p}, blocked \ {p}}
        /\ p \in live
        /\ UNCHANGED <<idVars, peerVars, rooms>>
    BY DEF PollPeer
  <1> HIDE DEF s, u
  <1>3. held \in [PeerId -> Table] /\ out \in [PeerId -> Seq(Frame)]
    BY DEF TypeOK, Table
  <1>4. Read(held[p], s) \in Table
    BY <1>1, <1>3, ReadType
  <1>5. held' \in [PeerId -> Table] /\ out' \in [PeerId -> Seq(Frame)]
    BY <1>1, <1>2, <1>3, <1>4
  <1>6. TypeOK'
    BY <1>2, <1>5 DEF TypeOK, Table, idVars, peerVars
  <1>7. Read(held[p], s \o u) = Read(Read(held[p], s), u)
    BY <1>1, ReadBoth
  <1>8. ASSUME NEW x \in PeerId PROVE Read(held'[x], out'[x]) = Read(held[x], out[x])
    <2>1. CASE x = p
      BY <1>1, <1>2, <1>3, <1>7, <2>1
    <2>2. CASE x # p
      BY <1>2, <1>3, <2>2
    <2> QED
      BY <2>1, <2>2
  <1> QED
    BY <1>6, <1>8 DEF View
(* Connect and PeerUpdateRoom, with what they write. *)
LEMMA ConnectStep ==
    ASSUME TypeOK, NEW p \in PeerId, NEW k \in Key, NEW r \in RoomKey, NEW n \in Names,
           NEW objs \in Objects, NEW imgs \in SUBSET ImageIds,
           Connect(p, k, r, n, objs, imgs),
           NEW created, created = CreateRooms(rooms, OwnRooms(k, objs), live, room'),
           NEW met, met = Audience(created, r, p)
    PROVE  /\ p \in live /\ met \in SUBSET Others(p)
           /\ rooms' = JoinRoom(created, r, p)
           /\ PeerTypes(key', name', objects', images', room')
           /\ challenged' \in [PeerId -> BOOLEAN]
           /\ Write(ConnectWords(p, met))
           /\ Handled(p, Others(p) \cup met)
  <1>1. PeerTypes(key', name', objects', images', room') /\ challenged' \in [PeerId -> BOOLEAN]
    BY DEF Connect, TypeOK, PeerTypes
  <1>2. p \in live /\ rooms' = JoinRoom(created, r, p) /\ Handled(p, Others(p) \cup met)
    BY DEF Connect, Handling
  <1>3. met \in SUBSET Others(p)
    BY AudienceType
  <1>4. Write(ConnectWords(p, met))
    BY DEF Connect, ConnectWords, Met, Intro, IntroFrames
  <1> QED
    BY <1>1, <1>2, <1>3, <1>4

LEMMA ConnectType ==
    ASSUME TypeOK, NEW p \in PeerId, NEW k \in Key, NEW r \in RoomKey, NEW n \in Names,
           NEW objs \in Objects, NEW imgs \in SUBSET ImageIds,
           Connect(p, k, r, n, objs, imgs)
    PROVE  TypeOK'
  <1> DEFINE created == CreateRooms(rooms, OwnRooms(k, objs), live, room')
             met == Audience(created, r, p)
  <1>1. created \in [DOMAIN rooms \cup OwnRooms(k, objs) -> SUBSET PeerId]
    BY CreateType DEF TypeOK
  <1> HIDE DEF created
  <1>2. /\ p \in live /\ met \in SUBSET Others(p)
        /\ rooms' = JoinRoom(created, r, p)
        /\ PeerTypes(key', name', objects', images', room')
        /\ challenged' \in [PeerId -> BOOLEAN]
        /\ Write(ConnectWords(p, met))
        /\ Handled(p, Others(p) \cup met)
    BY ConnectStep DEF created
  <1> HIDE DEF met
  <1>3. DOMAIN rooms' \in SUBSET RoomKey /\ rooms' \in [DOMAIN rooms' -> SUBSET PeerId]
    <2>1. OwnRooms(k, objs) \in SUBSET RoomKey
      BY DEF OwnRooms, RoomKey
    <2>2. rooms' \in [DOMAIN rooms \cup OwnRooms(k, objs) -> SUBSET PeerId]
      BY <1>1, <1>2, JoinType
    <2> QED
      BY <2>1, <2>2 DEF TypeOK
  <1>4. Others(p) \cup met \in SUBSET live
    BY <1>2, AudienceType
  <1>5. /\ held' = held /\ live' = live /\ last' = last /\ free' = free
        /\ poll' \in SUBSET live' /\ blocked' \in SUBSET live'
    BY <1>2, <1>4, HandledType
  <1>6. out' \in [PeerId -> Seq(Frame)]
    BY <1>2, <1>5, ConnectWritten
  <1> QED
    BY <1>2, <1>3, <1>5, <1>6 DEF TypeOK, PeerTypes

LEMMA RoomStep ==
    ASSUME TypeOK, NEW p \in PeerId, NEW r \in RoomKey, PeerUpdateRoom(p, r),
           NEW departed, departed = LeaveRoom(rooms, room[p], p),
           NEW stay, stay = Audience(departed, room[p], p),
           NEW met, met = Audience(departed, r, p)
    PROVE  /\ p \in live /\ stay \in SUBSET Others(p) /\ met \in SUBSET Others(p)
           /\ rooms' = JoinRoom(departed, r, p)
           /\ Write(RoomWords(p, r, stay, met))
           /\ Handled(p, Others(p) \cup met)
  BY AudienceType DEF PeerUpdateRoom, Handling, RoomWords

LEMMA RoomType ==
    ASSUME TypeOK, NEW p \in PeerId, NEW r \in RoomKey, PeerUpdateRoom(p, r)
    PROVE  TypeOK'
  <1> DEFINE departed == LeaveRoom(rooms, room[p], p)
             stay == Audience(departed, room[p], p)
             met == Audience(departed, r, p)
  <1>1. departed \in [DOMAIN rooms -> SUBSET PeerId]
    BY LeaveType DEF TypeOK
  <1> HIDE DEF departed
  <1>2. /\ p \in live /\ stay \in SUBSET Others(p) /\ met \in SUBSET Others(p)
        /\ rooms' = JoinRoom(departed, r, p)
        /\ Write(RoomWords(p, r, stay, met))
        /\ Handled(p, Others(p) \cup met)
    BY RoomStep DEF departed
  <1> HIDE DEF met, stay
  <1>3. rooms' \in [DOMAIN rooms -> SUBSET PeerId]
    BY <1>1, <1>2, JoinType
  <1>4. Others(p) \cup met \in SUBSET live
    BY <1>2, AudienceType
  <1>5. /\ held' = held /\ live' = live /\ last' = last /\ free' = free
        /\ poll' \in SUBSET live' /\ blocked' \in SUBSET live'
    BY <1>2, <1>4, HandledType
  <1>6. out' \in [PeerId -> Seq(Frame)]
    BY <1>2, <1>5, RoomWritten
  <1>7. /\ room' \in [PeerId -> RoomKey]
        /\ UNCHANGED <<key, challenged, name, objects, images>>
    BY DEF PeerUpdateRoom, TypeOK
  <1> QED
    BY <1>3, <1>5, <1>6, <1>7 DEF TypeOK

(* The others are told one frame. *)
LEMMA NameStep ==
    ASSUME TypeOK, NEW p \in PeerId, NEW n \in Names, PeerUpdateName(p, n)
    PROVE  p \in live /\ Others(p) \in SUBSET Others(p) /\ NameUpdated(p, n) \in AboutFrames(p)
           /\ Send(p, Others(p), NameUpdated(p, n))
  BY UpdatedFrame, DataAssumption DEF PeerUpdateName, Handling, RoomKey

LEMMA ObjectStep ==
    ASSUME TypeOK, NEW p \in PeerId, NEW o \in ObjectId
    PROVE  /\ \A v \in Val : ObjectCreate(p, o, v) =>
                /\ p \in live /\ ObjectCreated(p, o, v) \in AboutFrames(p)
                /\ Send(p, ObjectAudience(p, o), ObjectCreated(p, o, v))
           /\ \A v \in Val : ObjectUpdate(p, o, v) =>
                /\ p \in live /\ ObjectUpdated(p, o, v) \in AboutFrames(p)
                /\ Send(p, ObjectAudience(p, o), ObjectUpdated(p, o, v))
           /\ ObjectRemove(p, o) =>
                /\ p \in live /\ ObjectRemoved(p, o) \in AboutFrames(p)
                /\ Send(p, ObjectAudience(p, o), ObjectRemoved(p, o))
           /\ ObjectAudience(p, o) \in SUBSET Others(p)
  BY ObjectFrame, AudienceType DEF ObjectCreate, ObjectUpdate, ObjectRemove, Handling

LEMMA ImageStep ==
    ASSUME TypeOK, NEW p \in PeerId, NEW i \in ImageIds
    PROVE  /\ ImageCreate(p, i) =>
                /\ p \in live /\ ImageCreated(p, i) \in AboutFrames(p)
                /\ Send(p, Audience(rooms, room[p], p), ImageCreated(p, i))
           /\ ImageRemove(p, i) =>
                /\ p \in live /\ ImageRemoved(p, i) \in AboutFrames(p)
                /\ Send(p, Audience(rooms, room[p], p), ImageRemoved(p, i))
           /\ Audience(rooms, room[p], p) \in SUBSET Others(p)
  BY ImageFrame, AudienceType DEF ImageCreate, ImageRemove, Handling

LEMMA ObjectType ==
    ASSUME TypeOK, NEW p \in PeerId, NEW o \in ObjectId,
           \/ \E v \in Val : ObjectCreate(p, o, v) \/ ObjectUpdate(p, o, v)
           \/ ObjectRemove(p, o)
    PROVE  TypeOK'
  <1>1. BufferTypes'
    BY ObjectStep, SendType
  <1>2. ASSUME NEW v \in Val, ObjectCreate(p, o, v) PROVE TypeOK'
    <2>1. UNCHANGED <<key, challenged, room, name, images>> /\ objects' \in [PeerId -> Objects]
      BY <1>2 DEF ObjectCreate, TypeOK, Objects
    <2>2. DOMAIN rooms' \in SUBSET RoomKey /\ rooms' \in [DOMAIN rooms' -> SUBSET PeerId]
      <3>1. CASE o \in RoomIds
        <4>1. {<<key[p], o>>} \in SUBSET RoomKey
          BY <1>2, <3>1 DEF ObjectCreate, TypeOK, RoomKey
        <4>2. rooms' \in [DOMAIN rooms \cup {<<key[p], o>>} -> SUBSET PeerId]
          BY <1>2, <3>1, CreateType DEF ObjectCreate, TypeOK
        <4> QED
          BY <4>1, <4>2 DEF TypeOK
      <3> QED
        BY <1>2, <3>1 DEF ObjectCreate, TypeOK
    <2> QED
      BY <1>1, <2>1, <2>2 DEF BufferTypes, TypeOK
  <1>3. ASSUME NEW v \in Val, ObjectUpdate(p, o, v) PROVE TypeOK'
    <2>1. /\ UNCHANGED <<key, challenged, room, name, images, rooms>>
          /\ objects' \in [PeerId -> Objects]
      BY <1>3 DEF ObjectUpdate, TypeOK, Objects
    <2> QED
      BY <1>1, <2>1 DEF BufferTypes, TypeOK
  <1>4. ASSUME ObjectRemove(p, o) PROVE TypeOK'
    <2>1. UNCHANGED <<key, challenged, room, name, images>> /\ objects' \in [PeerId -> Objects]
      BY <1>4 DEF ObjectRemove, TypeOK, Objects
    <2>2. DOMAIN rooms' \in SUBSET RoomKey /\ rooms' \in [DOMAIN rooms' -> SUBSET PeerId]
      BY <1>4 DEF ObjectRemove, TypeOK
    <2> QED
      BY <1>1, <2>1, <2>2 DEF BufferTypes, TypeOK
  <1> QED
    BY <1>2, <1>3, <1>4

LEMMA RemoveType ==
    ASSUME TypeOK, NEW p \in PeerId, RemovePeer(p)
    PROVE  TypeOK'
  <1>1. PeerDisconnect(p) \in Frame
    BY DisconnectFrame DEF AboutFrames
  <1>2. out' \in [PeerId -> Seq(Frame)]
    <2> SUFFICES ASSUME NEW q \in PeerId, q # p
                 PROVE  out[q] \o Each(Others(p), PeerDisconnect(p))[q] \in Seq(Frame)
      BY DEF RemovePeer
    <2>1. Each(Others(p), PeerDisconnect(p))[q] \in Seq(Frame) /\ out[q] \in Seq(Frame)
      BY <1>1 DEF Each, TypeOK
    <2> QED
      BY <2>1
  <1>3. held' \in [PeerId -> [PeerId -> Info]]
    BY UnknownType DEF RemovePeer, TypeOK
  <1>4. last' \in 0..MaxId /\ free' \in Seq(PeerId) /\ live' \in SUBSET PeerId
    BY DEF RemovePeer, TypeOK
  <1>5. poll' \in SUBSET live' /\ blocked' \in SUBSET live'
    BY DEF RemovePeer, TypeOK, Others
  <1> QED
    BY <1>2, <1>3, <1>4, <1>5, UnknownType, DataAssumption DEF RemovePeer, TypeOK, RoomKey
LEMMA PlainStep ==
    ASSUME TypeOK, NEW p \in PeerId, Ping(p) \/ Hello(p)
    PROVE  /\ p \in live
           /\ \E f \in {Challenge, Pong} : Write(Each({p}, f))
           /\ Handled(p, {})
           /\ UNCHANGED <<key, room, name, objects, images, rooms>>
           /\ challenged' \in [PeerId -> BOOLEAN]
  BY DEF Ping, Hello, Handling, TypeOK, peerVars

LEMMA PlainType ==
    ASSUME TypeOK, NEW p \in PeerId, Ping(p) \/ Hello(p)
    PROVE  TypeOK' /\ View' = View
  <1>1. /\ p \in live
        /\ Handled(p, {})
        /\ UNCHANGED <<key, room, name, objects, images, rooms>>
        /\ challenged' \in [PeerId -> BOOLEAN]
    BY PlainStep
  <1>2. PICK f \in {Challenge, Pong} : Write(Each({p}, f))
    BY PlainStep
  <1>3. /\ held' = held /\ live' = live /\ last' = last /\ free' = free
        /\ poll' \in SUBSET live' /\ blocked' \in SUBSET live'
    BY <1>1, HandledType
  <1>4. out' \in [PeerId -> Seq(Frame)] /\ View' = View
    BY <1>2, <1>3, PlainWritten
  <1> QED
    BY <1>1, <1>3, <1>4 DEF TypeOK

LEMMA TypeStep == TypeOK /\ [Next]_vars => TypeOK'
  <1> SUFFICES ASSUME TypeOK, [Next]_vars PROVE TypeOK'
    OBVIOUS
  <1>1. CASE Accept
    BY <1>1, AcceptType
  <1>2. ASSUME NEW p \in PeerId, NEW n \in 0..Len(out[p]), PollPeer(p, n) PROVE TypeOK'
    BY <1>2, PollType
  <1>3. ASSUME NEW p \in PeerId, Ping(p) \/ Hello(p) PROVE TypeOK'
    BY <1>3, PlainType
  <1>4. ASSUME NEW p \in PeerId, NEW k \in Key, NEW r \in RoomKey, NEW n \in Names,
               NEW objs \in Objects, NEW imgs \in SUBSET ImageIds,
               Connect(p, k, r, n, objs, imgs)
        PROVE  TypeOK'
    BY <1>4, ConnectType
  <1>5. ASSUME NEW p \in PeerId, NEW r \in RoomKey, PeerUpdateRoom(p, r) PROVE TypeOK'
    BY <1>5, RoomType
  <1>6. ASSUME NEW p \in PeerId, NEW n \in Names, PeerUpdateName(p, n) PROVE TypeOK'
    <2>1. BufferTypes'
      BY <1>6, NameStep, SendType
    <2>2. UNCHANGED <<key, challenged, room, objects, images, rooms>> /\ name' \in [PeerId -> Names]
      BY <1>6 DEF PeerUpdateName, TypeOK
    <2> QED
      BY <2>1, <2>2 DEF BufferTypes, TypeOK
  <1>7. ASSUME NEW p \in PeerId, NEW o \in ObjectId,
               \/ \E v \in Val : ObjectCreate(p, o, v) \/ ObjectUpdate(p, o, v)
               \/ ObjectRemove(p, o)
        PROVE  TypeOK'
    BY <1>7, ObjectType
  <1>8. ASSUME NEW p \in PeerId, NEW i \in ImageIds, ImageCreate(p, i) \/ ImageRemove(p, i)
        PROVE  TypeOK'
    <2>1. BufferTypes'
      BY <1>8, ImageStep, SendType
    <2>2. /\ UNCHANGED <<key, challenged, room, name, objects, rooms>>
          /\ images' \in [PeerId -> SUBSET ImageIds]
      <3>1. ImageCreate(p, i) => /\ UNCHANGED <<key, challenged, room, name, objects, rooms>>
                                 /\ images' = [images EXCEPT ![p] = @ \cup {i}]
        BY DEF ImageCreate
      <3>2. ImageRemove(p, i) => /\ UNCHANGED <<key, challenged, room, name, objects, rooms>>
                                 /\ images' = [images EXCEPT ![p] = @ \ {i}]
        BY DEF ImageRemove
      <3>3. images \in [PeerId -> SUBSET ImageIds]
        BY DEF TypeOK
      <3>4. CASE ImageCreate(p, i)
        BY <3>1, <3>3, <3>4
      <3>5. CASE ImageRemove(p, i)
        BY <3>2, <3>3, <3>5
      <3> QED
        BY <1>8, <3>4, <3>5
    <2> QED
      BY <2>1, <2>2 DEF BufferTypes, TypeOK
  <1>9. ASSUME NEW p \in PeerId, RemovePeer(p) PROVE TypeOK'
    BY <1>9, RemoveType
  <1>10. CASE UNCHANGED vars
    BY <1>10 DEF vars, TypeOK
  <1> QED
    BY <1>1, <1>2, <1>3, <1>4, <1>5, <1>6, <1>7, <1>8, <1>9, <1>10 DEF Next

(* The server with its buffers never leaves the declared types: the frames it
   writes are frames the client can read, and it marks connections only. *)
THEOREM TypeCorrect == Spec => []TypeOK
  BY TypeInit, TypeStep, PTL DEF Spec

-----------------------------------------------------------------------------
(* Nothing written stays behind. *)

(* A handler that marks those it writes to leaves no frame behind. *)
LEMMA MarkedAll ==
    ASSUME TypeOK, NoStrandedOutput, NEW p \in live, NEW told \in SUBSET live,
           Handled(p, told), NEW w, Write(w),
           \A q \in live : q \notin told \cup {p} => w[q] = <<>>
    PROVE  NoStrandedOutput'
  <1>1. live' = live /\ poll' \cup blocked' = poll \cup blocked \cup told \cup {p}
    BY HandledType
  <1>2. ASSUME NEW q \in live, out'[q] # <<>> PROVE q \in poll' \cup blocked'
    <2>1. out'[q] = out[q] \o w[q] /\ out[q] \in Seq(Frame)
      BY DEF Write, TypeOK
    <2>2. CASE q \in told \cup {p}
      BY <1>1, <2>2
    <2>3. CASE q \notin told \cup {p}
      <3>1. out'[q] = out[q]
        BY <2>1, <2>3, ConcatEmptySeq
      <3> QED
        BY <1>1, <1>2, <3>1 DEF NoStrandedOutput
    <2> QED
      BY <2>2, <2>3
  <1> QED
    BY <1>1, <1>2 DEF NoStrandedOutput

LEMMA SendMarks ==
    ASSUME TypeOK, NoStrandedOutput, NEW p \in live, NEW to \in SUBSET Others(p), NEW f, Send(p, to, f)
    PROVE  NoStrandedOutput'
  <1>1. to \in SUBSET live
    BY AudienceType
  <1>2. \A q \in live : q \notin to \cup {p} => Each(to, f)[q] = <<>>
    BY DEF Each, TypeOK
  <1> QED
    BY <1>1, <1>2, MarkedAll DEF Send

(* Connect and PeerUpdateRoom mark everybody. *)
LEMMA MarkedEverybody ==
    ASSUME TypeOK, NoStrandedOutput, NEW p \in live, NEW met \in SUBSET Others(p),
           Handled(p, Others(p) \cup met), NEW w, Write(w)
    PROVE  NoStrandedOutput'
  <1>1. Others(p) \cup met \in SUBSET live /\ live = Others(p) \cup met \cup {p}
    BY DEF Others
  <1> QED
    BY <1>1, MarkedAll

LEMMA StrandedStep == TypeOK /\ NoStrandedOutput /\ [Next]_vars => NoStrandedOutput'
  <1> SUFFICES ASSUME TypeOK, NoStrandedOutput, [Next]_vars PROVE NoStrandedOutput'
    OBVIOUS
  <1>1. CASE Accept
    <2>1. PICK id : AcceptAs(id)
      BY <1>1 DEF Accept
    <2> QED
      BY <2>1 DEF AcceptAs, NoStrandedOutput
  <1>2. ASSUME NEW p \in PeerId, NEW n \in 0..Len(out[p]), PollPeer(p, n) PROVE NoStrandedOutput'
    <2>1. SubSeq(out[p], n + 1, Len(out[p])) # <<>> => n < Len(out[p])
      BY PolledSplit
    <2>2. out' = [out EXCEPT ![p] = SubSeq(out[p], n + 1, Len(out[p]))]
          /\ live' = live /\ poll' = poll \ {p}
          /\ blocked' = IF n < Len(out[p]) THEN blocked \cup {p} ELSE blocked \ {p}
      BY <1>2 DEF PollPeer, idVars
    <2>3. out'[p] # <<>> => p \in blocked'
      BY <2>1, <2>2 DEF TypeOK
    <2> QED
      BY <2>2, <2>3 DEF NoStrandedOutput, TypeOK
  <1>3. ASSUME NEW p \in PeerId, Ping(p) \/ Hello(p) PROVE NoStrandedOutput'
    <2>1. p \in live /\ Handled(p, {})
      BY <1>3, PlainStep
    <2>2. PICK f \in {Challenge, Pong} : Write(Each({p}, f))
      BY <1>3, PlainStep
    <2>3. \A q \in live : q \notin {} \cup {p} => Each({p}, f)[q] = <<>>
      BY DEF Each, TypeOK
    <2> QED
      BY <2>1, <2>2, <2>3, MarkedAll
  <1>4. ASSUME NEW p \in PeerId, NEW k \in Key, NEW r \in RoomKey, NEW n \in Names,
               NEW objs \in Objects, NEW imgs \in SUBSET ImageIds,
               Connect(p, k, r, n, objs, imgs)
        PROVE  NoStrandedOutput'
    <2> DEFINE met == Audience(CreateRooms(rooms, OwnRooms(k, objs), live, room'), r, p)
    <2>1. p \in live /\ met \in SUBSET Others(p) /\ Write(ConnectWords(p, met))
          /\ Handled(p, Others(p) \cup met)
      BY <1>4, ConnectStep
    <2> HIDE DEF met
    <2> QED
      BY <2>1, MarkedEverybody
  <1>5. ASSUME NEW p \in PeerId, NEW r \in RoomKey, PeerUpdateRoom(p, r) PROVE NoStrandedOutput'
    <2> DEFINE departed == LeaveRoom(rooms, room[p], p)
               stay == Audience(departed, room[p], p)
               met == Audience(departed, r, p)
    <2>1. p \in live /\ stay \in SUBSET Others(p) /\ met \in SUBSET Others(p)
          /\ Write(RoomWords(p, r, stay, met)) /\ Handled(p, Others(p) \cup met)
      BY <1>5, RoomStep
    <2> HIDE DEF met, stay
    <2> QED
      BY <2>1, MarkedEverybody
  <1>6. ASSUME NEW p \in PeerId, NEW n \in Names, PeerUpdateName(p, n) PROVE NoStrandedOutput'
    BY <1>6, NameStep, SendMarks
  <1>7. ASSUME NEW p \in PeerId, NEW o \in ObjectId,
               \/ \E v \in Val : ObjectCreate(p, o, v) \/ ObjectUpdate(p, o, v)
               \/ ObjectRemove(p, o)
        PROVE  NoStrandedOutput'
    BY <1>7, ObjectStep, SendMarks
  <1>8. ASSUME NEW p \in PeerId, NEW i \in ImageIds, ImageCreate(p, i) \/ ImageRemove(p, i)
        PROVE  NoStrandedOutput'
    BY <1>8, ImageStep, SendMarks
  <1>9. ASSUME NEW p \in PeerId, RemovePeer(p) PROVE NoStrandedOutput'
    BY <1>9 DEF RemovePeer, NoStrandedOutput, Others, TypeOK
  <1>10. CASE UNCHANGED vars
    BY <1>10 DEF vars, NoStrandedOutput
  <1> QED
    BY <1>1, <1>2, <1>3, <1>4, <1>5, <1>6, <1>7, <1>8, <1>9, <1>10 DEF Next

(* Whatever is in the buffer of a connection, PollPeers will come to it: the
   connection is marked or waits for its socket. *)
THEOREM NothingIsStranded == Spec => []NoStrandedOutput
  <1>1. Init => NoStrandedOutput
    BY DEF Init, NoStrandedOutput
  <1> QED
    BY <1>1, TypeCorrect, StrandedStep, PTL DEF Spec
-----------------------------------------------------------------------------
(* Server implements Relay. Relay has its own copy of what both take from Protocol. *)
LEMMA SameWords ==
    /\ R!ObjectId = ObjectId
    /\ R!RoomKey = RoomKey
    /\ R!NoObjects = NoObjects
    /\ R!Objects = Objects
    /\ R!Unknown = Unknown
    /\ \A k, r, n, objs, imgs : R!Introduction(k, r, n, objs, imgs) = Introduction(k, r, n, objs, imgs)
    /\ \A info, objs : R!Joined(info, objs) = Joined(info, objs)
    /\ \A info : R!Left(info) = Left(info)
    /\ \A info, r : R!WithRoom(info, r) = WithRoom(info, r)
    /\ \A info, n : R!WithName(info, n) = WithName(info, n)
  BY DEF R!ObjectId, ObjectId, R!RoomKey, RoomKey, R!NoObjects, NoObjects, R!Objects, Objects,
         R!Unknown, Unknown, R!Introduction, Introduction, R!Globals, Globals, R!Joined, Joined,
         R!Left, Left, R!WithRoom, WithRoom, R!WithName, WithName

LEMMA SameEntries ==
    /\ \A info, o, v : R!WithObject(info, o, v) = WithObject(info, o, v)
    /\ \A info, o, v : R!WithUpdate(info, o, v) = WithUpdate(info, o, v)
    /\ \A info, i : R!WithImage(info, i) = WithImage(info, i)
  BY DEF R!WithObject, WithObject, R!WithUpdate, WithUpdate, R!WithImage, WithImage

LEMMA SameRooms ==
    /\ \A table, S, who, where : R!CreateRooms(table, S, who, where) = CreateRooms(table, S, who, where)
    /\ \A k, objs : R!OwnRooms(k, objs) = OwnRooms(k, objs)
    /\ \A table, r, p : R!JoinRoom(table, r, p) = JoinRoom(table, r, p)
    /\ \A table, r, p : R!LeaveRoom(table, r, p) = LeaveRoom(table, r, p)
    /\ \A p : R!Others(p) = Others(p)
    /\ \A table, r, p : R!Audience(table, r, p) = Audience(table, r, p)
    /\ \A p, k : R!Fresh(p, k) = Fresh(p, k)
    /\ \A p, o : R!ObjectAudience(p, o) = ObjectAudience(p, o)
  BY DEF R!CreateRooms, CreateRooms, R!OwnRooms, OwnRooms, R!JoinRoom, JoinRoom,
         R!LeaveRoom, LeaveRoom, R!Others, Others, R!Audience, Audience, R!Members, Members,
         R!Fresh, Fresh, R!ObjectAudience, ObjectAudience

(* Telling some of p, one entry at a time. *)
LEMMA TellIs ==
    ASSUME View \in [PeerId -> Table], NEW to, NEW p \in PeerId, NEW entry
    PROVE  R!Tell(to, p, entry) =
             [x \in PeerId |-> [y \in PeerId |->
                IF x \in to /\ y = p THEN entry[x] ELSE View[x][y]]]
  <1>1. R!Tell(to, p, entry) =
          [x \in PeerId |-> IF x \in to THEN [View[x] EXCEPT ![p] = entry[x]] ELSE View[x]]
    BY DEF R!Tell, View
  <1> HIDE DEF View
  <1>2. \A x \in PeerId : View[x] \in [PeerId -> Info]
    BY DEF Table
  <1>3. \A x \in PeerId :
          (IF x \in to THEN [View[x] EXCEPT ![p] = entry[x]] ELSE View[x])
            = [y \in PeerId |-> IF x \in to /\ y = p THEN entry[x] ELSE View[x][y]]
    BY <1>2
  <1> QED
    BY <1>1, <1>3, Zenon

LEMMA RefineInit == Init => R!Init
  <1> SUFFICES ASSUME Init PROVE R!Init
    OBVIOUS
  <1>1. \A p \in PeerId : Read(held[p], out[p]) = [q \in PeerId |-> Unknown]
    <2> SUFFICES ASSUME NEW p \in PeerId PROVE Read(held[p], out[p]) = [q \in PeerId |-> Unknown]
      OBVIOUS
    <2>1. held[p] = [q \in PeerId |-> Unknown] /\ out[p] = <<>>
      BY DEF Init, Nothing
    <2> QED
      BY <2>1, ReadNone
  <1>2. [p \in PeerId |-> Read(held[p], out[p])] = [p \in PeerId |-> [q \in PeerId |-> Unknown]]
    BY <1>1, Zenon
  <1> QED
    BY <1>2, SameWords DEF Init, R!Init
LEMMA RefineAccept == ASSUME TypeOK, Accept PROVE R!Accept
  <1>1. ASSUME NEW id, AcceptAs(id) PROVE R!AcceptAs(id)
    BY <1>1 DEF AcceptAs, R!AcceptAs, peerVars, R!peerVars
  <1> QED
    BY <1>1 DEF Accept, R!Accept

(* What the buffers keep from Relay: writing to a socket, and Pong. *)
LEMMA RefineStutter ==
    ASSUME UNCHANGED <<idVars, peerVars, rooms>>, View' = View
    PROVE  UNCHANGED R!vars
  BY DEF R!vars, View, idVars, peerVars

LEMMA RefineHello == ASSUME TypeOK, NEW p \in PeerId, Hello(p) PROVE R!Hello(p)
  <1>1. View' = View
    BY PlainType
  <1> QED
    BY <1>1 DEF R!Hello, Hello, Handling, Handled, idVars, R!idVars, View

LEMMA RefineConnect ==
    ASSUME TypeOK, NEW p \in PeerId, NEW k \in Key, NEW r \in RoomKey, NEW n \in Names,
           NEW objs \in Objects, NEW imgs \in SUBSET ImageIds,
           Connect(p, k, r, n, objs, imgs)
    PROVE  R!Connect(p, k, r, n, objs, imgs)
  <1> DEFINE created == CreateRooms(rooms, OwnRooms(k, objs), live, room')
             met == Audience(created, r, p)
  <1>1. /\ p \in live /\ met \in SUBSET Others(p)
        /\ rooms' = JoinRoom(created, r, p)
        /\ PeerTypes(key', name', objects', images', room')
        /\ Write(ConnectWords(p, met))
        /\ Handled(p, Others(p) \cup met)
    BY ConnectStep
  <1>2. held' = held /\ UNCHANGED idVars
    BY <1>1 DEF Handled
  <1> HIDE DEF met
  <1>3. View' = [x \in PeerId |-> [y \in PeerId |->
                IF (x = p /\ y \in Others(p)) \/ (x \in Others(p) /\ y = p)
                THEN IF x \in met \/ y \in met
                     THEN Joined(Introduction(key'[y], room'[y], name'[y], objects'[y], images'[y]),
                                 objects'[y])
                     ELSE Introduction(key'[y], room'[y], name'[y], objects'[y], images'[y])
                ELSE View[x][y]]]
    BY <1>1, <1>2, ConnectWritten
  <1>4. /\ challenged[p] /\ Fresh(p, k)
        /\ challenged' = [challenged EXCEPT ![p] = FALSE]
        /\ key' = [key EXCEPT ![p] = k]
        /\ room' = [room EXCEPT ![p] = r]
        /\ name' = [name EXCEPT ![p] = n]
        /\ objects' = [objects EXCEPT ![p] = objs]
        /\ images' = [images EXCEPT ![p] = imgs]
    BY DEF Connect
  <1> DEFINE remet == R!Audience(R!CreateRooms(rooms, R!OwnRooms(k, objs), live, room'), r, p)
             In(y) == R!Introduction(key'[y], room'[y], name'[y], objects'[y], images'[y])
             Re(x, y) == IF (x = p /\ y \in R!Others(p)) \/ (x \in R!Others(p) /\ y = p)
                         THEN IF x \in remet \/ y \in remet THEN R!Joined(In(y), objects'[y]) ELSE In(y)
                         ELSE View[x][y]
             Our(x, y) == IF (x = p /\ y \in Others(p)) \/ (x \in Others(p) /\ y = p)
                THEN IF x \in met \/ y \in met
                     THEN Joined(Introduction(key'[y], room'[y], name'[y], objects'[y], images'[y]),
                                 objects'[y])
                     ELSE Introduction(key'[y], room'[y], name'[y], objects'[y], images'[y])
                ELSE View[x][y]
  <1>5. remet = met
    BY SameRooms DEF met
  <1>6. rooms' = R!JoinRoom(R!CreateRooms(rooms, R!OwnRooms(k, objs), live, room'), r, p)
    BY <1>1, SameRooms
  <1> HIDE DEF remet
  <1>7. \A x, y : Re(x, y) = Our(x, y)
    BY <1>5, SameWords, SameRooms
  <1>8. View' = [x \in PeerId |-> [y \in PeerId |-> Re(x, y)]]
    <2>1. View' = [x \in PeerId |-> [y \in PeerId |-> Our(x, y)]]
      BY <1>3
    <2> HIDE DEF Re, Our
    <2> QED
      BY <1>7, <2>1
  <1>9. R!Fresh(p, k)
    BY <1>4, SameRooms
  <1> QED
    BY <1>1, <1>2, <1>4, <1>6, <1>8, <1>9, Zenon DEF R!Connect, View, idVars, R!idVars, remet
LEMMA RefineRoom ==
    ASSUME TypeOK, NEW p \in PeerId, NEW r \in RoomKey, PeerUpdateRoom(p, r)
    PROVE  R!PeerUpdateRoom(p, r)
  <1> DEFINE departed == LeaveRoom(rooms, room[p], p)
             stay == Audience(departed, room[p], p)
             met == Audience(departed, r, p)
             Told(x, y) == IF x \in Others(p) /\ y = p
                           THEN WithRoom(View[x][y], r) ELSE View[x][y]
             Gone(x, y) == IF (x = p /\ y \in stay) \/ (x \in stay /\ y = p)
                           THEN Left(Told(x, y)) ELSE Told(x, y)
             Our(x, y) == IF (x = p /\ y \in met) \/ (x \in met /\ y = p)
                          THEN Joined(Gone(x, y), objects[y]) ELSE Gone(x, y)
  <1>1. /\ p \in live /\ stay \in SUBSET Others(p) /\ met \in SUBSET Others(p)
        /\ rooms' = JoinRoom(departed, r, p)
        /\ Write(RoomWords(p, r, stay, met))
        /\ Handled(p, Others(p) \cup met)
    BY RoomStep
  <1>2. held' = held /\ UNCHANGED idVars
    BY <1>1 DEF Handled
  <1> HIDE DEF stay, met
  <1>3. View' = [x \in PeerId |-> [y \in PeerId |-> Our(x, y)]]
    <2>1. View' = [x \in PeerId |-> [y \in PeerId |-> RoomSeen(p, r, stay, met, x, y)]]
      BY <1>1, <1>2, RoomWritten
    <2> QED
      BY <2>1 DEF RoomSeen, Between
  <1>4. /\ key[p] # ZeroKey
        /\ room' = [room EXCEPT ![p] = r]
        /\ UNCHANGED <<key, challenged, name, objects, images>>
    BY DEF PeerUpdateRoom
  <1> DEFINE redeparted == R!LeaveRoom(rooms, room[p], p)
             restay == R!Audience(redeparted, room[p], p)
             remet == R!Audience(redeparted, r, p)
             ReTold(x, y) == IF x \in R!Others(p) /\ y = p
                             THEN R!WithRoom(View[x][y], r) ELSE View[x][y]
             ReGone(x, y) == IF (x = p /\ y \in restay) \/ (x \in restay /\ y = p)
                             THEN R!Left(ReTold(x, y)) ELSE ReTold(x, y)
             Re(x, y) == IF (x = p /\ y \in remet) \/ (x \in remet /\ y = p)
                         THEN R!Joined(ReGone(x, y), objects[y]) ELSE ReGone(x, y)
  <1>5. restay = stay /\ remet = met
    BY SameRooms DEF stay, met
  <1>6. rooms' = R!JoinRoom(redeparted, r, p)
    BY <1>1, SameRooms
  <1> HIDE DEF restay, remet
  <1>7. \A x, y : ReTold(x, y) = Told(x, y)
    BY SameWords, SameRooms
  <1> HIDE DEF ReTold, Told
  <1>8. \A x, y : ReGone(x, y) = Gone(x, y)
    BY <1>5, <1>7, SameWords
  <1> HIDE DEF ReGone, Gone
  <1>9. \A x, y : Re(x, y) = Our(x, y)
    BY <1>5, <1>8, SameWords
  <1>10. View' = [x \in PeerId |-> [y \in PeerId |-> Re(x, y)]]
    <2> HIDE DEF Re, Our
    <2> QED
      BY <1>3, <1>9
  <1> QED
    BY <1>1, <1>2, <1>4, <1>6, <1>10, Zenon
    DEF R!PeerUpdateRoom, View, idVars, R!idVars, restay, remet, ReTold, ReGone

(* One frame about p to some is Tell. *)
LEMMA TellWritten ==
    ASSUME TypeOK, NEW p \in live, NEW to \in SUBSET Others(p), NEW f \in AboutFrames(p),
           Send(p, to, f), NEW entry, \A x \in PeerId : entry[x] = Entry(View[x][p], f)
    PROVE  View' = R!Tell(to, p, entry) /\ UNCHANGED idVars
  <1>1. View' = [x \in PeerId |-> [y \in PeerId |->
                   IF x \in to /\ y = p THEN Entry(View[x][y], f) ELSE View[x][y]]]
    BY SendType
  <1>2. R!Tell(to, p, entry) =
             [x \in PeerId |-> [y \in PeerId |->
                IF x \in to /\ y = p THEN entry[x] ELSE View[x][y]]]
    <2>1. View \in [PeerId -> Table] /\ p \in PeerId
      BY ViewType DEF TypeOK
    <2> QED
      BY <2>1, TellIs
  <1>3. \A x, y \in PeerId : (IF x \in to /\ y = p THEN Entry(View[x][y], f) ELSE View[x][y])
          = IF x \in to /\ y = p THEN entry[x] ELSE View[x][y]
    OBVIOUS
  <1>4. View' = R!Tell(to, p, entry)
    BY <1>1, <1>2, <1>3, Zenon
  <1> QED
    BY <1>4 DEF Send, Handled

LEMMA RefineName ==
    ASSUME TypeOK, NEW p \in PeerId, NEW n \in Names, PeerUpdateName(p, n)
    PROVE  R!PeerUpdateName(p, n)
  <1> DEFINE entry == [x \in PeerId |-> R!WithName(View[x][p], n)]
             f == NameUpdated(p, n)
  <1>1. \A x \in PeerId : entry[x] = Entry(View[x][p], f)
    BY SameWords, EntryOf
  <1>2. p \in live /\ Others(p) \in SUBSET Others(p) /\ f \in AboutFrames(p) /\ Send(p, Others(p), f)
    BY NameStep
  <1> HIDE DEF entry, f
  <1>3. View' = R!Tell(R!Others(p), p, entry) /\ UNCHANGED idVars
    BY <1>1, <1>2, TellWritten, SameRooms
  <1>4. /\ key[p] # ZeroKey
        /\ name' = [name EXCEPT ![p] = n]
        /\ UNCHANGED <<key, challenged, room, objects, images, rooms>>
    BY DEF PeerUpdateName
  <1> QED
    BY <1>2, <1>3, <1>4, Zenon DEF R!PeerUpdateName, View, idVars, R!idVars, entry

LEMMA RefineCreate ==
    ASSUME TypeOK, NEW p \in PeerId, NEW o \in ObjectId, NEW v \in Val, ObjectCreate(p, o, v)
    PROVE  R!ObjectCreate(p, o, v)
  <1> DEFINE entry == [x \in PeerId |-> R!WithObject(View[x][p], o, v)]
             f == ObjectCreated(p, o, v)
             to == ObjectAudience(p, o)
  <1>1. \A x \in PeerId : entry[x] = Entry(View[x][p], f)
    BY SameEntries, EntryOfObject
  <1>2. p \in live /\ to \in SUBSET Others(p) /\ f \in AboutFrames(p) /\ Send(p, to, f)
    BY ObjectStep
  <1>3. to = R!ObjectAudience(p, o)
    BY SameRooms
  <1> HIDE DEF entry, f, to
  <1>4. View' = R!Tell(R!ObjectAudience(p, o), p, entry) /\ UNCHANGED idVars
    BY <1>1, <1>2, <1>3, TellWritten
  <1>5. /\ key[p] # ZeroKey
        /\ objects' = [objects EXCEPT ![p][o] = v]
        /\ rooms' = IF o \in RoomIds
                    THEN R!CreateRooms(rooms, {<<key[p], o>>}, live, room) ELSE rooms
        /\ UNCHANGED <<key, challenged, room, name, images>>
    BY SameRooms DEF ObjectCreate
  <1> QED
    BY <1>2, <1>4, <1>5, Zenon DEF R!ObjectCreate, View, idVars, R!idVars, entry

LEMMA RefineUpdate ==
    ASSUME TypeOK, NEW p \in PeerId, NEW o \in ObjectId, NEW v \in Val, ObjectUpdate(p, o, v)
    PROVE  R!ObjectUpdate(p, o, v)
  <1> DEFINE entry == [x \in PeerId |-> R!WithUpdate(View[x][p], o, v)]
             f == ObjectUpdated(p, o, v)
             to == ObjectAudience(p, o)
  <1>1. \A x \in PeerId : entry[x] = Entry(View[x][p], f)
    BY SameEntries, EntryOfObject
  <1>2. p \in live /\ to \in SUBSET Others(p) /\ f \in AboutFrames(p) /\ Send(p, to, f)
    BY ObjectStep
  <1>3. to = R!ObjectAudience(p, o)
    BY SameRooms
  <1> HIDE DEF entry, f, to
  <1>4. View' = R!Tell(R!ObjectAudience(p, o), p, entry) /\ UNCHANGED idVars
    BY <1>1, <1>2, <1>3, TellWritten
  <1>5. /\ key[p] # ZeroKey /\ objects[p][o] # None
        /\ objects' = [objects EXCEPT ![p][o] = v]
        /\ UNCHANGED <<key, challenged, room, name, images, rooms>>
    BY DEF ObjectUpdate
  <1> QED
    BY <1>2, <1>4, <1>5, Zenon DEF R!ObjectUpdate, View, idVars, R!idVars, entry

LEMMA RefineRemoveObject ==
    ASSUME TypeOK, NEW p \in PeerId, NEW o \in ObjectId, ObjectRemove(p, o)
    PROVE  R!ObjectRemove(p, o)
  <1> DEFINE entry == [x \in PeerId |-> R!WithObject(View[x][p], o, None)]
             f == ObjectRemoved(p, o)
             to == ObjectAudience(p, o)
  <1>1. \A x \in PeerId : entry[x] = Entry(View[x][p], f)
    BY SameEntries, EntryOfObject
  <1>2. p \in live /\ to \in SUBSET Others(p) /\ f \in AboutFrames(p) /\ Send(p, to, f)
    BY ObjectStep
  <1>3. to = R!ObjectAudience(p, o)
    BY SameRooms
  <1> HIDE DEF entry, f, to
  <1>4. View' = R!Tell(R!ObjectAudience(p, o), p, entry) /\ UNCHANGED idVars
    BY <1>1, <1>2, <1>3, TellWritten
  <1>5. /\ key[p] # ZeroKey /\ objects[p][o] # None
        /\ objects' = [objects EXCEPT ![p][o] = None]
        /\ rooms' = IF o \in RoomIds
                    THEN [r \in DOMAIN rooms \ {<<key[p], o>>} |-> rooms[r]] ELSE rooms
        /\ UNCHANGED <<key, challenged, room, name, images>>
    BY DEF ObjectRemove
  <1> QED
    BY <1>2, <1>4, <1>5, Zenon DEF R!ObjectRemove, View, idVars, R!idVars, entry

LEMMA RefineImage ==
    ASSUME TypeOK, NEW p \in PeerId, NEW i \in ImageIds, ImageCreate(p, i)
    PROVE  R!ImageCreate(p, i)
  <1> DEFINE entry == [x \in PeerId |-> R!WithImage(View[x][p], i)]
             f == ImageCreated(p, i)
             to == Audience(rooms, room[p], p)
  <1>1. \A x \in PeerId : entry[x] = Entry(View[x][p], f)
    BY SameEntries, EntryOfImage
  <1>2. p \in live /\ to \in SUBSET Others(p) /\ f \in AboutFrames(p) /\ Send(p, to, f)
    BY ImageStep
  <1>3. to = R!Audience(rooms, room[p], p)
    BY SameRooms
  <1> HIDE DEF entry, f, to
  <1>4. View' = R!Tell(R!Audience(rooms, room[p], p), p, entry) /\ UNCHANGED idVars
    BY <1>1, <1>2, <1>3, TellWritten
  <1>5. /\ key[p] # ZeroKey
        /\ images' = [images EXCEPT ![p] = images[p] \cup {i}]
        /\ UNCHANGED <<key, challenged, room, name, objects, rooms>>
    BY DEF ImageCreate
  <1> QED
    BY <1>2, <1>4, <1>5, Zenon DEF R!ImageCreate, View, idVars, R!idVars, entry

(* A client keeps the id of an image that is removed. *)
LEMMA RefineRemoveImage ==
    ASSUME TypeOK, NEW p \in PeerId, NEW i \in ImageIds, ImageRemove(p, i)
    PROVE  R!ImageRemove(p, i)
  <1> DEFINE f == ImageRemoved(p, i)
             to == Audience(rooms, room[p], p)
  <1>1. \A info : Entry(info, f) = info
    BY EntryOfImage
  <1>2. p \in live /\ to \in SUBSET Others(p) /\ f \in AboutFrames(p) /\ Send(p, to, f)
    BY ImageStep
  <1> HIDE DEF f, to
  <1>3. View' = [x \in PeerId |-> [y \in PeerId |->
                   IF x \in to /\ y = p THEN Entry(View[x][y], f) ELSE View[x][y]]]
    BY <1>2, SendType
  <1>4. View' = View
    <2>1. View' = [x \in PeerId |-> [y \in PeerId |-> View[x][y]]]
      BY <1>1, <1>3
    <2>2. View \in [PeerId -> Table]
      BY ViewType
    <2>3. \A x \in PeerId : [y \in PeerId |-> View[x][y]] = View[x]
      BY <2>2 DEF Table
    <2> QED
      BY <2>1, <2>2, <2>3
  <1>5. /\ key[p] # ZeroKey
        /\ images' = [images EXCEPT ![p] = images[p] \ {i}]
        /\ UNCHANGED <<key, challenged, room, name, objects, rooms>>
    BY DEF ImageRemove
  <1>6. UNCHANGED idVars
    BY <1>2 DEF Send, Handled
  <1> QED
    BY <1>2, <1>4, <1>5, <1>6, Zenon DEF R!ImageRemove, View, idVars, R!idVars
(* The others hear of the end of a connection, and its client forgets them. *)
LEMMA RefineRemove ==
    ASSUME TypeOK, NEW p \in PeerId, RemovePeer(p)
    PROVE  R!Remove(p)
  <1> DEFINE f == PeerDisconnect(p)
             w == Each(Others(p), f)
             gone == [x \in PeerId |-> R!Unknown]
             nobody == [q \in PeerId |-> R!Unknown]
  <1>1. f \in AboutFrames(p) /\ \A info : Entry(info, f) = R!Unknown
    BY DisconnectFrame, EntryOf, SameWords
  <1>2. /\ held' = [held EXCEPT ![p] = nobody]
        /\ out' = [q \in PeerId |-> IF q = p THEN <<>> ELSE out[q] \o w[q]]
    BY SameWords DEF RemovePeer
  <1> HIDE DEF f
  <1>3. w \in Written /\ EachTells(w, Others(p), p, f)
    BY <1>1, EachSeen
  <1> HIDE DEF w
  <1>4. View \in [PeerId -> Table] /\ held \in [PeerId -> Table] /\ out \in [PeerId -> Seq(Frame)]
    BY ViewType DEF TypeOK, Table
  <1>5. ASSUME NEW x \in PeerId, x # p
        PROVE  View'[x] = [y \in PeerId |->
                              IF x \in Others(p) /\ y = p THEN gone[x] ELSE View[x][y]]
    <2> DEFINE was == held[x]
               s == out[x]
               u == w[x]
    <2>1. was \in Table /\ s \in Seq(Frame) /\ u \in Seq(Frame)
      BY <1>3, <1>4 DEF Written
    <2>2. View'[x] = Read(was, s \o u) /\ View[x] = Read(was, s)
      BY <1>2, <1>4, <1>5 DEF View
    <2>3. \A y \in PeerId : Seen(View[x][y], y, u)
                              = IF x \in Others(p) /\ y = p THEN gone[x] ELSE View[x][y]
      <3>1. \A y \in PeerId : View[x][y] \in Info
        BY <1>4 DEF Table
      <3> QED
        BY <1>1, <1>3, <3>1 DEF EachTells
    <2> HIDE DEF was, s, u
    <2>4. Read(was, s \o u) = Read(Read(was, s), u)
      BY <2>1, ReadBoth
    <2>5. View[x] \in Table /\ View'[x] \in Table
      BY <2>1, <2>2, <2>4, ReadType
    <2>6. \A y \in PeerId : View'[x][y] = Seen(View[x][y], y, u)
      BY <2>1, <2>2, <2>4, <2>5, ReadSeen
    <2>7. View'[x] = [y \in PeerId |-> View'[x][y]]
      BY <2>5 DEF Table
    <2> QED
      BY <2>3, <2>6, <2>7
  <1>6. View'[p] = nobody
    <2>1. View'[p] = Read(nobody, <<>>)
      BY <1>2, <1>4 DEF View
    <2> QED
      BY <2>1, ReadNone
  <1>7. View' = [R!Tell(Others(p), p, gone) EXCEPT ![p] = nobody]
    <2> DEFINE told == [x \in PeerId |-> [y \in PeerId |->
                          IF x \in Others(p) /\ y = p THEN gone[x] ELSE View[x][y]]]
    <2> HIDE DEF gone
    <2>1. R!Tell(Others(p), p, gone) = told
      BY <1>4, TellIs
    <2>2. \A x \in PeerId : View'[x] = IF x = p THEN nobody ELSE told[x]
      BY <1>5, <1>6
    <2>3. View' = [x \in PeerId |-> View'[x]]
      BY DEF View
    <2>4. [told EXCEPT ![p] = nobody] = [x \in PeerId |-> IF x = p THEN nobody ELSE told[x]]
      OBVIOUS
    <2> HIDE DEF told, nobody
    <2> QED
      BY <2>1, <2>2, <2>3, <2>4
  <1>8. View' = [R!Tell(R!Others(p), p, gone) EXCEPT ![p] = nobody]
    BY <1>7, SameRooms
  <1>9. /\ p \in live
        /\ live' = live \ {p}
        /\ free' = Append(free, p)
        /\ key' = [key EXCEPT ![p] = ZeroKey]
        /\ challenged' = [challenged EXCEPT ![p] = FALSE]
        /\ room' = [room EXCEPT ![p] = Lobby]
        /\ name' = [name EXCEPT ![p] = NoName]
        /\ objects' = [objects EXCEPT ![p] = R!NoObjects]
        /\ images' = [images EXCEPT ![p] = {}]
        /\ UNCHANGED <<last, rooms>>
    BY SameWords DEF RemovePeer
  <1> QED
    BY <1>8, <1>9, Zenon DEF R!Remove, View

LEMMA RefineStep == TypeOK /\ [Next]_vars => [R!Next]_R!vars
  <1> SUFFICES ASSUME TypeOK, [Next]_vars PROVE R!Next \/ UNCHANGED R!vars
    OBVIOUS
  <1>1. CASE Accept
    BY <1>1, RefineAccept DEF R!Next
  <1>2. ASSUME NEW p \in PeerId, NEW n \in 0..Len(out[p]), PollPeer(p, n)
        PROVE  UNCHANGED R!vars
    <2>1. UNCHANGED <<idVars, peerVars, rooms>>
      BY <1>2 DEF PollPeer
    <2> QED
      BY <1>2, <2>1, PollType, RefineStutter
  <1>3. ASSUME NEW p \in PeerId, Ping(p) PROVE UNCHANGED R!vars
    <2>1. UNCHANGED <<idVars, peerVars, rooms>>
      BY <1>3 DEF Ping, Handled
    <2> QED
      BY <1>3, <2>1, PlainType, RefineStutter
  <1>4. ASSUME NEW p \in PeerId, Hello(p) PROVE R!Next
    BY <1>4, RefineHello DEF R!Next
  <1>5. ASSUME NEW p \in PeerId, NEW k \in Key, NEW r \in RoomKey, NEW n \in Names,
               NEW objs \in Objects, NEW imgs \in SUBSET ImageIds,
               Connect(p, k, r, n, objs, imgs)
        PROVE  R!Next
    <2>1. R!Connect(p, k, r, n, objs, imgs)
      BY <1>5, RefineConnect
    <2>2. r \in R!RoomKey /\ objs \in R!Objects
      BY SameWords
    <2> QED
      BY <2>1, <2>2, Zenon DEF R!Next
  <1>6. ASSUME NEW p \in PeerId, NEW r \in RoomKey, PeerUpdateRoom(p, r) PROVE R!Next
    <2>1. R!PeerUpdateRoom(p, r) /\ r \in R!RoomKey
      BY <1>6, RefineRoom, SameWords
    <2> QED
      BY <2>1, Zenon DEF R!Next
  <1>7. ASSUME NEW p \in PeerId, NEW n \in Names, PeerUpdateName(p, n) PROVE R!Next
    BY <1>7, RefineName, Zenon DEF R!Next
  <1>8. ASSUME NEW p \in PeerId, NEW o \in ObjectId, NEW v \in Val, ObjectCreate(p, o, v)
        PROVE  R!Next
    <2>1. R!ObjectCreate(p, o, v) /\ o \in R!ObjectId
      BY <1>8, RefineCreate, SameWords
    <2> QED
      BY <2>1, Zenon DEF R!Next
  <1>9. ASSUME NEW p \in PeerId, NEW o \in ObjectId, NEW v \in Val, ObjectUpdate(p, o, v)
        PROVE  R!Next
    <2>1. R!ObjectUpdate(p, o, v) /\ o \in R!ObjectId
      BY <1>9, RefineUpdate, SameWords
    <2> QED
      BY <2>1, Zenon DEF R!Next
  <1>10. ASSUME NEW p \in PeerId, NEW o \in ObjectId, ObjectRemove(p, o) PROVE R!Next
    <2>1. R!ObjectRemove(p, o) /\ o \in R!ObjectId
      BY <1>10, RefineRemoveObject, SameWords
    <2> QED
      BY <2>1, Zenon DEF R!Next
  <1>11. ASSUME NEW p \in PeerId, NEW i \in ImageIds, ImageCreate(p, i) PROVE R!Next
    BY <1>11, RefineImage, Zenon DEF R!Next
  <1>12. ASSUME NEW p \in PeerId, NEW i \in ImageIds, ImageRemove(p, i) PROVE R!Next
    BY <1>12, RefineRemoveImage, Zenon DEF R!Next
  <1>13. ASSUME NEW p \in PeerId, RemovePeer(p) PROVE R!Next
    BY <1>13, RefineRemove, Zenon DEF R!Next
  <1>14. CASE UNCHANGED vars
    BY <1>14 DEF vars, R!vars
  <1> QED
    BY <1>1, <1>2, <1>3, <1>4, <1>5, <1>6, <1>7, <1>8, <1>9, <1>10, <1>11, <1>12, <1>13, <1>14
    DEF Next

(* The server with its buffers is the relay: whatever is written, in whatever
   pieces the sockets take it, a client that reads all of it holds what Relay
   says, and no handler does anything else. *)
THEOREM Refinement == Spec => Implements
  <1> DEFINE RInit == R!Init
             RNext == R!Next
  <1>1. Init => RInit
    BY RefineInit
  <1>2. TypeOK /\ [Next]_vars => [RNext]_R!vars
    BY RefineStep
  <1>3. Implements <=> RInit /\ [][RNext]_R!vars
    BY DEF Implements, R!Spec
  <1> HIDE DEF RInit, RNext
  <1> QED
    BY <1>1, <1>2, <1>3, TypeCorrect, PTL DEF Spec

-----------------------------------------------------------------------------
(* What RelayProofs proves of Relay holds of Server. *)
RP == INSTANCE RelayProofs WITH view <- [p \in PeerId |-> Read(held[p], out[p])]

LEMMA SameInit == R!Init => RP!Init
  BY Zenon DEF R!Init, RP!Init, R!NoObjects, RP!NoObjects, R!Unknown, RP!Unknown, R!ObjectId,
     RP!ObjectId

LEMMA SameActions ==
    /\ R!Accept => RP!Accept
    /\ \A p : R!Hello(p) => RP!Hello(p)
    /\ \A p, k, r, n, objs, imgs :
         R!Connect(p, k, r, n, objs, imgs) => RP!Connect(p, k, r, n, objs, imgs)
    /\ \A p, r : R!PeerUpdateRoom(p, r) => RP!PeerUpdateRoom(p, r)
    /\ \A p, n : R!PeerUpdateName(p, n) => RP!PeerUpdateName(p, n)
    /\ \A p, o, v : R!ObjectCreate(p, o, v) => RP!ObjectCreate(p, o, v)
    /\ \A p, o, v : R!ObjectUpdate(p, o, v) => RP!ObjectUpdate(p, o, v)
    /\ \A p, o : R!ObjectRemove(p, o) => RP!ObjectRemove(p, o)
    /\ \A p, i : R!ImageCreate(p, i) => RP!ImageCreate(p, i)
    /\ \A p, i : R!ImageRemove(p, i) => RP!ImageRemove(p, i)
    /\ \A p : R!Remove(p) => RP!Remove(p)
  <1>1. R!Accept => RP!Accept
    BY Zenon DEF R!Accept, RP!Accept, R!AcceptAs, RP!AcceptAs, R!peerVars, RP!peerVars
  <1>2. \A p : R!Hello(p) => RP!Hello(p)
    BY Zenon DEF R!Hello, RP!Hello, R!idVars, RP!idVars
  <1>3. ASSUME NEW p, NEW k, NEW r, NEW n, NEW objs, NEW imgs,
               R!Connect(p, k, r, n, objs, imgs)
        PROVE  RP!Connect(p, k, r, n, objs, imgs)
    BY <1>3, Zenon DEF R!Connect, RP!Connect, R!Introduction, RP!Introduction, R!Joined,
       RP!Joined, R!CreateRooms, RP!CreateRooms, R!OwnRooms, RP!OwnRooms, R!JoinRoom,
       RP!JoinRoom, R!Others, RP!Others, R!Audience, RP!Audience, R!Fresh, RP!Fresh, R!Members,
       RP!Members, R!Globals, RP!Globals, R!ObjectId, RP!ObjectId, R!idVars, RP!idVars
  <1>4. ASSUME NEW p, NEW r, R!PeerUpdateRoom(p, r) PROVE RP!PeerUpdateRoom(p, r)
    BY <1>4, Zenon DEF R!PeerUpdateRoom, RP!PeerUpdateRoom, R!Left, RP!Left, R!Joined,
       RP!Joined, R!WithRoom, RP!WithRoom, R!LeaveRoom, RP!LeaveRoom, R!JoinRoom, RP!JoinRoom,
       R!Others, RP!Others, R!Audience, RP!Audience, R!Members, RP!Members, R!Globals,
       RP!Globals, R!ObjectId, RP!ObjectId, R!idVars, RP!idVars
  <1>5. \A p, n : R!PeerUpdateName(p, n) => RP!PeerUpdateName(p, n)
    BY Zenon DEF R!PeerUpdateName, RP!PeerUpdateName, R!Tell, RP!Tell, R!WithName, RP!WithName,
       R!Others, RP!Others, R!idVars, RP!idVars
  <1>6. ASSUME NEW p, NEW o, NEW v, R!ObjectCreate(p, o, v) PROVE RP!ObjectCreate(p, o, v)
    BY <1>6, Zenon DEF R!ObjectCreate, RP!ObjectCreate, R!CreateRooms, RP!CreateRooms, R!Tell,
       RP!Tell, R!WithObject, RP!WithObject, R!ObjectAudience, RP!ObjectAudience, R!Audience,
       RP!Audience, R!Members, RP!Members, R!Others, RP!Others, R!idVars, RP!idVars
  <1>7. ASSUME NEW p, NEW o, NEW v, R!ObjectUpdate(p, o, v) PROVE RP!ObjectUpdate(p, o, v)
    BY <1>7, Zenon DEF R!ObjectUpdate, RP!ObjectUpdate, R!Tell, RP!Tell, R!WithUpdate, RP!WithUpdate,
       R!ObjectAudience, RP!ObjectAudience, R!Audience, RP!Audience, R!Members, RP!Members,
       R!Others, RP!Others, R!idVars, RP!idVars
  <1>8. \A p, o : R!ObjectRemove(p, o) => RP!ObjectRemove(p, o)
    BY Zenon DEF R!ObjectRemove, RP!ObjectRemove, R!Tell, RP!Tell, R!WithObject, RP!WithObject,
       R!ObjectAudience, RP!ObjectAudience, R!Audience, RP!Audience, R!Members, RP!Members,
       R!Others, RP!Others, R!idVars, RP!idVars
  <1>9. \A p, i : R!ImageCreate(p, i) => RP!ImageCreate(p, i)
    BY Zenon DEF R!ImageCreate, RP!ImageCreate, R!Tell, RP!Tell, R!WithImage, RP!WithImage,
       R!Audience, RP!Audience, R!Members, RP!Members, R!Others, RP!Others, R!idVars, RP!idVars
  <1>10. \A p, i : R!ImageRemove(p, i) => RP!ImageRemove(p, i)
    BY Zenon DEF R!ImageRemove, RP!ImageRemove, R!idVars, RP!idVars
  <1>11. \A p : R!Remove(p) => RP!Remove(p)
    BY Zenon DEF R!Remove, RP!Remove, R!Tell, RP!Tell, R!Unknown, RP!Unknown, R!NoObjects,
       RP!NoObjects, R!ObjectId, RP!ObjectId, R!Others, RP!Others
  <1> QED
    BY <1>1, <1>2, <1>3, <1>4, <1>5, <1>6, <1>7, <1>8, <1>9, <1>10, <1>11, Zenon

LEMMA SameNext == [R!Next]_R!vars => [RP!Next]_RP!vars
  <1>1. UNCHANGED R!vars => UNCHANGED RP!vars
    BY DEF R!vars, RP!vars
  <1>2. R!ObjectId = RP!ObjectId /\ R!RoomKey = RP!RoomKey /\ R!Objects = RP!Objects
    BY DEF R!ObjectId, RP!ObjectId, R!RoomKey, RP!RoomKey, R!Objects, RP!Objects
  <1>3. ASSUME R!Next PROVE RP!Next
    <2>1. CASE R!Accept
      BY <2>1, SameActions DEF RP!Next
    <2>2. ASSUME NEW p \in PeerId, R!Hello(p) PROVE RP!Next
      BY <2>2, SameActions DEF RP!Next
    <2>3. ASSUME NEW p \in PeerId, NEW k \in Key, NEW r \in RP!RoomKey, NEW n \in Names,
                 NEW objs \in RP!Objects, NEW imgs \in SUBSET ImageIds,
                 R!Connect(p, k, r, n, objs, imgs)
          PROVE  RP!Next
      <3>1. RP!Connect(p, k, r, n, objs, imgs)
        BY <2>3, SameActions
      <3> QED
        BY <3>1, Zenon DEF RP!Next
    <2>4. ASSUME NEW p \in PeerId, NEW r \in RP!RoomKey, R!PeerUpdateRoom(p, r) PROVE RP!Next
      BY <2>4, SameActions DEF RP!Next
    <2>5. ASSUME NEW p \in PeerId, NEW n \in Names, R!PeerUpdateName(p, n) PROVE RP!Next
      BY <2>5, SameActions DEF RP!Next
    <2>6. ASSUME NEW p \in PeerId, NEW o \in RP!ObjectId, NEW v \in Val,
                 R!ObjectCreate(p, o, v) \/ R!ObjectUpdate(p, o, v)
          PROVE  RP!Next
      BY <2>6, SameActions DEF RP!Next
    <2>7. ASSUME NEW p \in PeerId, NEW o \in RP!ObjectId, R!ObjectRemove(p, o) PROVE RP!Next
      BY <2>7, SameActions DEF RP!Next
    <2>8. ASSUME NEW p \in PeerId, NEW i \in ImageIds, R!ImageCreate(p, i) \/ R!ImageRemove(p, i)
          PROVE  RP!Next
      BY <2>8, SameActions DEF RP!Next
    <2>9. ASSUME NEW p \in PeerId, R!Remove(p) PROVE RP!Next
      BY <2>9, SameActions DEF RP!Next
    <2> QED
      BY <1>2, <1>3, <2>1, <2>2, <2>3, <2>4, <2>5, <2>6, <2>7, <2>8, <2>9, Zenon DEF R!Next
  <1> QED
    BY <1>1, <1>3

(* What Relay promises of the clients, once they have read their buffers. *)
RelayPromises ==
    /\ R!IdsSound
    /\ R!UniqueKeys
    /\ R!RoomComplete
    /\ R!RosterSound
    /\ R!NoGhostPeers
    /\ R!LobbyComplete

LEMMA SamePromises == RP!IInv => RelayPromises
  <1>1. RP!IdsSound => R!IdsSound
    BY DEF R!IdsSound, RP!IdsSound
  <1>2. RP!UniqueKeys => R!UniqueKeys
    BY DEF R!UniqueKeys, RP!UniqueKeys
  <1>3. RP!RoomComplete => R!RoomComplete
    BY DEF R!RoomComplete, RP!RoomComplete, R!Authenticated, RP!Authenticated
  <1>4. RP!RosterSound => R!RosterSound
    BY Zenon DEF R!RosterSound, RP!RosterSound, R!Authenticated, RP!Authenticated
  <1>5. RP!NoGhostPeers => R!NoGhostPeers
    BY Zenon DEF R!NoGhostPeers, RP!NoGhostPeers
  <1>6. RP!LobbyComplete => R!LobbyComplete
    BY Zenon DEF R!LobbyComplete, RP!LobbyComplete, R!Authenticated, RP!Authenticated,
       R!ObjectId, RP!ObjectId
  <1> QED
    BY <1>1, <1>2, <1>3, <1>4, <1>5, <1>6 DEF RelayPromises, RP!IInv

(* Behind buffers and sockets that take what they like, every client's roster is
   sound, complete in the lobby and free of ghosts once it has read what was
   written to it; identifiers and keys are not shared and rooms have their
   members. *)
THEOREM PromisesHold == Spec => []RelayPromises
  <1> DEFINE RInit == R!Init
             RNext == R!Next
             PInit == RP!Init
             PNext == RP!Next
             PInv == RP!IInv
  <1>1. Spec => RInit /\ [][RNext]_R!vars
    BY Refinement DEF Implements, R!Spec
  <1>2. RInit => PInit
    BY SameInit
  <1>3. [RNext]_R!vars => [PNext]_RP!vars
    BY SameNext
  <1>4. PInit /\ [][PNext]_RP!vars => []PInv
    <2>1. RP!Spec => []PInv
      BY RP!Invariance, KeyAssumption, IdAssumption, DataAssumption, PTL
    <2> QED
      BY <2>1 DEF RP!Spec
  <1>5. PInv => RelayPromises
    BY SamePromises
  <1> HIDE DEF RInit, RNext, PInit, PNext, PInv
  <1> QED
    BY <1>1, <1>2, <1>3, <1>4, <1>5, PTL
=============================================================================
