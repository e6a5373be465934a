----------------------------- MODULE MapProofs -----------------------------
(***************************************************************************)
(* What Map guarantees for any number of objects, of any kinds, and a      *)
(* world of any size.                                                      *)
(*                                                                         *)
(* The handlers are made of a few operators, each of which changes the     *)
(* page and notes what it changed. Three relations say what all of them    *)
(* have in common, and are handed on from one to the next: Writes, what is *)
(* noted and simulated; Fits, the types; Gestures, whose places change.    *)
(***************************************************************************)
EXTENDS Map, FiniteSetTheorems, WellFoundedInduction, TLAPS

-----------------------------------------------------------------------------
(* What the proofs below need of numbers and parts of finite sets. Induction is over a
   set of numbers, which a prover can be given, not over a predicate. *)

(* Numbers are well-founded: among some of them is a least. *)
LessThan == {pair \in Nat \X Nat : pair[1] < pair[2]}

LEMMA NatMin ==
    ASSUME NEW T \in SUBSET Nat, T # {}
    PROVE  \E n \in T : \A m \in T : n <= m
  <1>1. IsWellFoundedOn(LessThan, Nat)
    BY NatLessThanWellFounded, Zenon DEF OpToRel, LessThan
  <1>2. PICK n \in T : \A m \in T : <<m, n>> \notin LessThan
    BY <1>1, WFMin
  <1>3. \A m \in T : ~(m < n)
    BY <1>2 DEF LessThan
  <1> QED
    BY <1>3

(* Fewer elements. *)
LEMMA PartIsSmaller ==
    ASSUME NEW S, IsFiniteSet(S), NEW T \in SUBSET S, T # S
    PROVE  /\ IsFiniteSet(T) /\ Cardinality(T) \in Nat /\ Cardinality(S) \in Nat
           /\ Cardinality(T) < Cardinality(S)
  <1>1. IsFiniteSet(T) /\ Cardinality(T) <= Cardinality(S) /\ Cardinality(S) # Cardinality(T)
    BY FS_Subset
  <1>2. Cardinality(T) \in Nat /\ Cardinality(S) \in Nat
    BY <1>1, FS_CardinalityType
  <1> QED
    BY <1>1, <1>2

(* The greatest of finitely many numbers. *)
LEMMA GreatestNumber ==
    ASSUME NEW S \in SUBSET Nat, IsFiniteSet(S), S # {}
    PROVE  \E n \in S : \A m \in S : m <= n
  <1> DEFINE above(n) == {m \in S : n < m}
             counts == {Cardinality(above(n)) : n \in S}
  <1>1. \A n \in S : IsFiniteSet(above(n)) /\ Cardinality(above(n)) \in Nat
    BY FS_Subset, FS_CardinalityType
  <1>2. PICK k \in counts : \A l \in counts : k <= l
    <2>1. counts \in SUBSET Nat /\ counts # {}
      BY <1>1
    <2> HIDE DEF counts
    <2> QED
      BY <2>1, NatMin
  <1>3. PICK n \in S : k = Cardinality(above(n))
    BY <1>2
  <1>4. ASSUME NEW m \in above(n)
        PROVE  FALSE
    <2>1. m \in S /\ n < m
      OBVIOUS
    <2>2. above(m) \in SUBSET above(n) /\ above(m) # above(n)
      <3>1. \A x \in above(m) : x \in above(n)
        BY <2>1
      <3>2. m \notin above(m)
        BY <2>1
      <3> HIDE DEF above
      <3> QED
        BY <3>1, <3>2
    <2>3. IsFiniteSet(above(n))
      BY <1>1
    <2>4. Cardinality(above(m)) \in counts
      BY <2>1
    <2> HIDE DEF above, counts
    <2>5. /\ Cardinality(above(m)) < Cardinality(above(n))
          /\ Cardinality(above(m)) \in Nat /\ Cardinality(above(n)) \in Nat
      BY <2>2, <2>3, PartIsSmaller
    <2> QED
      BY <1>2, <1>3, <2>4, <2>5
  <1> QED
    BY <1>3, <1>4

-----------------------------------------------------------------------------
Mumble == <<Zero, "MUMBLE_OBJECT">>

Gestural(a) == "do" \in DOMAIN a /\ a.do \in {"translate", "rotate", "scale"}

Shape(p) ==
    /\ {"shown", "updates", "action", "active", "interval", "modal", "menu", "mouse", "panning"}
            \subseteq DOMAIN p
    /\ DOMAIN p.shown = Cell
    /\ p.action # None => Gestural(p.action)

(* A token of the user that is on its way. *)
Going(p, o) == Is(p, o, {"token"}) /\ Target(p, o) # None

(* From p to q: what is changed is noted, no object comes or goes, and a token that is
   sent off is simulated. *)
Writes(p, q) ==
    /\ Shape(q)
    /\ p.updates \subseteq q.updates
    /\ \A c \in q.updates \ p.updates : c[2] # "LIFE"
    /\ \A c \in Cell : q.shown[c] = p.shown[c] \/ c \in q.updates \ {<<c[1], "LIFE">>}
    /\ p.active \subseteq q.active
    /\ \A o \in Own : Going(q, o) => o \in q.active \/ Going(p, o)

LEMMA ZeroIsNobody == Zero \notin ObjectId /\ Own \subseteq ObjectId /\ Foreign \subseteq ObjectId
  BY MapAssumption DEF ObjectId

LEMMA LifeIsCell ==
    ASSUME NEW o \in ObjectId
    PROVE  <<o, "LIFE">> \in Cell
  BY MapAssumption DEF Cell, KeysOf

LEMMA MumbleIsCell == Mumble \in Cell
  BY DEF Cell, Setting, Mumble

LEMMA TargetIsCell ==
    ASSUME NEW o \in ObjectId, KindOf[o] = "token"
    PROVE  <<o, "MOVE_TARGET">> \in Cell
  BY MapAssumption DEF Cell, KeysOf

LEMMA WritesTransitive ==
    ASSUME NEW p, NEW q, NEW r, Writes(p, q), Writes(q, r)
    PROVE  Writes(p, r)
  <1>1. Shape(r) /\ p.updates \subseteq r.updates /\ p.active \subseteq r.active
    BY DEF Writes
  <1>2. \A c \in r.updates \ p.updates : c[2] # "LIFE"
    BY DEF Writes
  <1>3. \A c \in Cell : r.shown[c] = p.shown[c] \/ c \in r.updates \ {<<c[1], "LIFE">>}
    BY DEF Writes
  <1>4. \A o \in Own : Going(r, o) => o \in r.active \/ Going(p, o)
    BY DEF Writes
  <1> QED
    BY <1>1, <1>2, <1>3, <1>4 DEF Writes

(* What changes neither a cell nor the simulation. *)
LEMMA WritesAside ==
    ASSUME NEW p, NEW q, Shape(q), q.shown = p.shown, q.updates = p.updates,
           p.active \subseteq q.active
    PROVE  Writes(p, q)
  <1>1. \A o : Going(q, o) <=> Going(p, o)
    BY DEF Going, Is, Live, Target
  <1> QED
    BY <1>1 DEF Writes

LEMMA WritesSame ==
    ASSUME NEW p, Shape(p)
    PROVE  Writes(p, p)
  BY WritesAside

LEMMA SetFields ==
    ASSUME NEW p, Shape(p), NEW o, NEW k, NEW v
    PROVE  /\ Shape(Set(p, o, k, v))
           /\ Set(p, o, k, v).updates = p.updates \cup {<<o, k>>}
           /\ Set(p, o, k, v).active = p.active
           /\ Set(p, o, k, v).action = p.action
           /\ \A c \in Cell : Set(p, o, k, v).shown[c] = IF c = <<o, k>> THEN v ELSE p.shown[c]
  BY DEF Shape, Set

(* A cell is assigned and noted. *)
LEMMA WritesSet ==
    ASSUME NEW p, Shape(p), NEW o, NEW k, NEW v, k # "LIFE",
           k = "MOVE_TARGET" => v = None \/ o \in p.active
    PROVE  Writes(p, Set(p, o, k, v))
  <1> DEFINE q == Set(p, o, k, v)
  <1>1. /\ Shape(q) /\ q.updates = p.updates \cup {<<o, k>>} /\ q.active = p.active
        /\ \A c \in Cell : q.shown[c] = IF c = <<o, k>> THEN v ELSE p.shown[c]
    BY SetFields
  <1> HIDE DEF q
  <1>2. \A c \in Cell : q.shown[c] = p.shown[c] \/ c \in q.updates \ {<<c[1], "LIFE">>}
    BY <1>1
  <1>3. ASSUME NEW r \in Own, Going(q, r)
        PROVE  r \in q.active \/ Going(p, r)
    <2>1. r \in ObjectId /\ KindOf[r] = "token"
      BY <1>3, ZeroIsNobody DEF Going, Is
    <2>2. <<r, "LIFE">> \in Cell /\ <<r, "MOVE_TARGET">> \in Cell
      BY <2>1, LifeIsCell, TargetIsCell
    <2>3. Live(p, r)
      BY <1>1, <1>3, <2>2 DEF Going, Is, Live
    <2>4. CASE <<r, "MOVE_TARGET">> = <<o, k>>
      <3>1. Target(q, r) = v /\ k = "MOVE_TARGET" /\ r = o
        BY <1>1, <2>2, <2>4 DEF Target
      <3> QED
        BY <1>1, <1>3, <3>1 DEF Going
    <2>5. CASE <<r, "MOVE_TARGET">> # <<o, k>>
      <3>1. Target(q, r) = Target(p, r)
        BY <1>1, <2>2, <2>5 DEF Target
      <3> QED
        BY <1>3, <2>1, <2>3, <3>1 DEF Going, Is
    <2> QED
      BY <2>4, <2>5
  <1>4. Writes(p, q)
    BY <1>1, <1>2, <1>3 DEF Writes
  <1> QED
    BY <1>4 DEF q

(* A token is sent off and simulated. *)
LEMMA WritesTarget ==
    ASSUME NEW p, Shape(p), NEW o, NEW v
    PROVE  Writes(p, Active(Set(p, o, "MOVE_TARGET", v), o))
  <1> DEFINE q == Set(p, o, "MOVE_TARGET", v)
             r == Active(q, o)
  <1>1. /\ Shape(q) /\ q.updates = p.updates \cup {<<o, "MOVE_TARGET">>} /\ q.active = p.active
        /\ \A c \in Cell : q.shown[c] = IF c = <<o, "MOVE_TARGET">> THEN v ELSE p.shown[c]
    BY SetFields
  <1> HIDE DEF q
  <1>2. Shape(r) /\ r.updates = q.updates /\ r.shown = q.shown /\ r.active = q.active \cup {o}
    BY <1>1 DEF Active, Shape
  <1> HIDE DEF r
  <1>3. \A c \in Cell : r.shown[c] = p.shown[c] \/ c \in r.updates \ {<<c[1], "LIFE">>}
    BY <1>1, <1>2
  <1>4. ASSUME NEW s \in Own, Going(r, s), s # o
        PROVE  Going(p, s)
    <2>1. s \in ObjectId /\ KindOf[s] = "token"
      BY <1>4, ZeroIsNobody DEF Going, Is
    <2>2. <<s, "LIFE">> \in Cell /\ <<s, "MOVE_TARGET">> \in Cell
      BY <2>1, LifeIsCell, TargetIsCell
    <2> QED
      BY <1>1, <1>2, <1>4, <2>2 DEF Going, Is, Live, Target
  <1>5. Writes(p, r)
    BY <1>1, <1>2, <1>3, <1>4 DEF Writes
  <1> QED
    BY <1>5 DEF q, r

-----------------------------------------------------------------------------
(* The operators of the handlers. *)
LEMMA WritesNoAction ==
    ASSUME NEW p, Shape(p)
    PROVE  Writes(p, NoAction(p))
  <1>1. Shape(NoAction(p)) /\ NoAction(p).shown = p.shown /\ NoAction(p).updates = p.updates
        /\ NoAction(p).active = p.active
    BY DEF NoAction, Shape
  <1> QED
    BY <1>1, WritesAside

LEMMA WritesSelect ==
    ASSUME NEW p, Shape(p), NEW id
    PROVE  Writes(p, SelectObject(p, id))
  <1> DEFINE noted == Set(p, Zero, "SELECTED", id)
             chosen == [noted EXCEPT !.menu = None,
                                     !.modal = IF @ = <<"remove", id>> THEN None ELSE @]
             linked == Set(chosen, Zero, "MUMBLE_OBJECT", id)
  <1>1. Writes(p, noted) /\ Shape(noted)
    BY WritesSet, SetFields
  <1>2. Shape(chosen) /\ Writes(noted, chosen)
    <2> HIDE DEF noted
    <2>1. Shape(chosen) /\ chosen.shown = noted.shown /\ chosen.updates = noted.updates
          /\ chosen.active = noted.active
      BY <1>1 DEF Shape
    <2> HIDE DEF chosen
    <2> QED
      BY <2>1, WritesAside
  <1>3. Writes(p, chosen)
    BY <1>1, <1>2, WritesTransitive
  <1>4. Writes(p, linked)
    <2> HIDE DEF chosen
    <2>1. Writes(chosen, linked)
      BY <1>2, WritesSet
    <2> HIDE DEF linked
    <2> QED
      BY <1>3, <2>1, WritesTransitive
  <1>5. SelectObject(p, id) \in {p, chosen, linked}
    BY DEF SelectObject
  <1> HIDE DEF chosen, linked
  <1> QED
    BY <1>3, <1>4, <1>5, WritesSame

LEMMA WritesFinalized ==
    ASSUME NEW p, Shape(p)
    PROVE  Writes(p, Finalized(p))
  <1> DEFINE sized == Set(p, p.action.id, "SIZE", p.action.size)
  <1>1. Writes(p, sized) /\ Shape(sized)
    BY WritesSet, SetFields
  <1>2. Writes(p, NoAction(sized))
    <2> HIDE DEF sized
    <2>1. Writes(sized, NoAction(sized))
      BY <1>1, WritesNoAction
    <2> QED
      BY <1>1, <2>1, WritesTransitive
  <1>3. Finalized(p) \in {NoAction(p), NoAction(sized)}
    BY DEF Finalized
  <1> HIDE DEF sized
  <1> QED
    BY <1>2, <1>3, WritesNoAction

LEMMA WritesTurned ==
    ASSUME NEW p, Shape(p), NEW a, NEW m
    PROVE  Writes(p, Turned(p, a, m))
  <1> DEFINE turned == Set(p, a.id, "TRANSFORM", [Transform(p, a.id) EXCEPT !.front = m])
             looking == Set(turned, a.id, "LOOK_AT", m)
  <1>1. Writes(p, turned) /\ Shape(turned)
    BY WritesSet, SetFields
  <1>2. Writes(p, looking)
    <2> HIDE DEF turned
    <2>1. Writes(turned, looking)
      BY <1>1, WritesSet
    <2> HIDE DEF looking
    <2> QED
      BY <1>1, <2>1, WritesTransitive
  <1>3. Turned(p, a, m) \in {p, turned, looking}
    BY DEF Turned
  <1> HIDE DEF turned, looking
  <1> QED
    BY <1>1, <1>2, <1>3, WritesSame

LEMMA WritesMoved ==
    ASSUME NEW p, Shape(p), NEW a, NEW m
    PROVE  Writes(p, Moved(p, a, m))
  <1> DEFINE put == Set(p, a.id, "TRANSFORM", [Transform(p, a.id) EXCEPT !.at = m + a.offset])
             sent == Active(Set(p, a.id, "MOVE_TARGET", m), a.id)
  <1>1. Writes(p, put)
    BY WritesSet
  <1>2. Writes(p, sent)
    BY WritesTarget
  <1>3. Moved(p, a, m) \in {p, put, sent}
    BY DEF Moved
  <1> HIDE DEF put, sent
  <1> QED
    BY <1>1, <1>2, <1>3, WritesSame

LEMMA WritesApply ==
    ASSUME NEW p, Shape(p), NEW m
    PROVE  Writes(p, Apply(p, m))
  <1>1. CASE p.action = None
    BY <1>1, WritesSame DEF Apply
  <1>2. CASE p.action # None /\ p.action.do = "rotate"
    BY <1>2, WritesTurned DEF Apply
  <1>3. CASE p.action # None /\ p.action.do = "translate"
    BY <1>3, WritesMoved DEF Apply
  <1>4. CASE p.action # None /\ p.action.do = "scale"
    <2> DEFINE sized == [p EXCEPT !.action.size = Distance(p.action.center, m)]
    <2>1. Shape(sized) /\ sized.shown = p.shown /\ sized.updates = p.updates
          /\ sized.active = p.active
      BY <1>4 DEF Shape, Gestural
    <2>2. Apply(p, m) \in {p, sized}
      BY <1>4 DEF Apply
    <2> HIDE DEF sized
    <2> QED
      BY <2>1, <2>2, WritesAside, WritesSame
  <1> QED
    BY <1>1, <1>2, <1>3, <1>4 DEF Shape, Gestural

LEMMA WritesBegin ==
    ASSUME NEW p, Shape(p), NEW a, Gestural(a)
    PROVE  Writes(p, Begin(p, a))
  <1> DEFINE e == Finalized(p)
             f == [e EXCEPT !.action = a]
  <1>1. Writes(p, e) /\ Shape(e)
    BY WritesFinalized DEF Writes
  <1>2. Writes(p, f) /\ Shape(f)
    <2> HIDE DEF e
    <2>1. Shape(f) /\ f.shown = e.shown /\ f.updates = e.updates /\ f.active = e.active
      BY <1>1 DEF Shape
    <2> HIDE DEF f
    <2> QED
      BY <1>1, <2>1, WritesAside, WritesTransitive
  <1>3. Begin(p, a) = Apply(f, p.mouse)
    BY DEF Begin
  <1> HIDE DEF f
  <1> QED
    BY <1>2, <1>3, WritesApply, WritesTransitive

LEMMA WritesTranslate ==
    ASSUME NEW p, Shape(p), NEW id
    PROVE  Writes(p, StartTranslate(p, id))
  <1> DEFINE sent == Active(Set(p, id, "MOVE_TARGET", p.mouse), id)
             a == [do |-> "translate", id |-> id, offset |-> Transform(p, id).at - p.mouse]
             b == [do |-> "translate", id |-> id, offset |-> 0]
  <1>1. Writes(p, Begin(p, a))
    BY WritesBegin DEF Gestural
  <1>2. Writes(p, sent) /\ Shape(sent)
    BY WritesTarget DEF Writes
  <1>3. Writes(p, Begin(sent, b))
    <2> HIDE DEF sent
    <2>1. Writes(sent, Begin(sent, b))
      BY <1>2, WritesBegin DEF Gestural
    <2> QED
      BY <1>2, <2>1, WritesTransitive
  <1>4. StartTranslate(p, id) \in {p, Begin(p, a), Begin(sent, b)}
    BY DEF StartTranslate
  <1> HIDE DEF a, b, sent
  <1> QED
    BY <1>1, <1>3, <1>4, WritesSame

LEMMA WritesRotation ==
    ASSUME NEW p, Shape(p), NEW id
    PROVE  Writes(p, StartRotation(p, id))
  <1> DEFINE a == [do |-> "rotate", id |-> id, center |-> Transform(p, id).at]
  <1>1. Writes(p, Begin(p, a))
    BY WritesBegin DEF Gestural
  <1>2. StartRotation(p, id) \in {p, Begin(p, a)}
    BY DEF StartRotation
  <1> HIDE DEF a
  <1> QED
    BY <1>1, <1>2, WritesSame

LEMMA WritesHit ==
    ASSUME NEW p, Shape(p), NEW m
    PROVE  Writes(p, StartTranslateOnHit(p, m))
  <1> DEFINE chosen == SelectObject(p, Hit(p, m))
  <1>1. Writes(p, chosen) /\ Shape(chosen)
    BY WritesSelect DEF Writes
  <1>2. \A q : Writes(p, q) => Writes(p, StartTranslate(q, Selected(q)))
    <2> SUFFICES ASSUME NEW q, Writes(p, q) PROVE Writes(p, StartTranslate(q, Selected(q)))
      OBVIOUS
    <2>1. Shape(q)
      BY DEF Writes
    <2> QED
      BY <2>1, WritesTranslate, WritesTransitive
  <1>3. \E q \in {p, chosen} :
            \/ StartTranslateOnHit(p, m) = StartTranslate(q, Selected(q))
            \/ StartTranslateOnHit(p, m) = q
    BY DEF StartTranslateOnHit
  <1> HIDE DEF chosen
  <1> QED
    BY <1>1, <1>2, <1>3, WritesSame

-----------------------------------------------------------------------------
(* What holds in every state. While a snapshot is under way it differs from what the
   backend has in `astray` only; an object of the user that the page may have wrong
   is gone. *)
SnapshotSound ==
    channel = "opening" =>
        DOMAIN snapshot = Cell /\ \A c \in Cell \ astray : snapshot[c] = kept[c]

LivesKnown == \A o \in Own : <<o, "LIFE">> \in astray => kept[<<o, "LIFE">>] = "gone"

MInv ==
    /\ Shape(page) /\ page.updates = {}
    /\ DOMAIN kept = Cell /\ kept[Mumble] \notin Foreign
    /\ SnapshotSound
    /\ LivesKnown
    /\ SavedAsShown
    /\ Driven

(* What a handler makes of the page, but for whether o lives. *)
Part(p, o) ==
    /\ Shape(p)
    /\ \A c \in p.updates : c[2] # "LIFE"
    /\ \A c \in Cell \ {<<o, "LIFE">>} : p.shown[c] = page.shown[c] \/ c \in p.updates
    /\ \A r \in Own : Going(p, r) => r \in p.active \/ Going(page, r)

From(p) == Part(p, Zero)

(* The page before anything is changed: only what is not kept may be. *)
Start(e) == Shape(e) /\ e.shown = page.shown /\ e.updates = {}

LEMMA FromStart ==
    ASSUME NEW e, Start(e), NEW p, Writes(e, p)
    PROVE  From(p)
  <1>1. \A o : Going(e, o) <=> Going(page, o)
    BY DEF Start, Going, Is, Live, Target
  <1> QED
    BY <1>1 DEF Start, Writes, From, Part

LEMMA FromPart ==
    ASSUME NEW p, From(p), NEW o \in ObjectId
    PROVE  Part(p, o)
  <1>1. \A c \in Cell : c # <<Zero, "LIFE">>
    <2>1. \A c \in Cell : c[1] = Zero => c[2] \in Setting
      BY ZeroIsNobody DEF Cell
    <2> QED
      BY <2>1 DEF Setting
  <1> QED
    BY <1>1 DEF From, Part

(* What is sent, and what stays. *)
LEMMA SettledFields ==
    ASSUME NEW p, Shape(p)
    PROVE  /\ Shape(Settled(p)) /\ Settled(p).updates = {}
           /\ Settled(p).shown = p.shown /\ Settled(p).active = p.active
  BY DEF Settled, Shape

LEMMA ToldIsKnown ==
    ASSUME NEW p, NEW c
    PROVE  c = Mumble => Told(p, c) \notin Foreign
  <1>1. Stray \notin Foreign
    BY MapAssumption DEF Stray, ObjectId
  <1> QED
    BY <1>1 DEF Told, Linked, Mumble

LEMMA KeepFields ==
    ASSUME NEW p, MInv
    PROVE  /\ DOMAIN Keep(p) = Cell /\ Keep(p)[Mumble] \notin Foreign
           /\ \A c \in Cell : Keep(p)[c] = IF c \in Sent(p) THEN Told(p, c) ELSE kept[c]
  BY ToldIsKnown, MumbleIsCell DEF MInv, Keep

(* Of the user's tokens that are on their way, those nobody simulates were stopped. *)
LEMMA DrivenOn ==
    ASSUME MInv, NEW p, \A r \in Own : Going(p, r) => r \in p.active \/ Going(page, r),
           page'.shown = p.shown, page'.active = p.active, halted' = Halt(p)
    PROVE  Driven'
  <1> SUFFICES ASSUME NEW r \in Own, Going(page', r) PROVE r \in page'.active \cup halted'
    BY DEF Driven, Going
  <1>1. Going(p, r)
    BY DEF Going, Is, Live, Target
  <1>2. CASE r \in p.active
    BY <1>2
  <1>3. CASE r \notin p.active
    <2>1. Going(page, r)
      BY <1>1, <1>3
    <2>2. r \in page.active \cup halted
      BY <2>1 DEF MInv, Driven, Going
    <2> QED
      BY <1>1, <1>3, <2>2 DEF Halt, Going
  <1> QED
    BY <1>2, <1>3

(* A cell that was neither sent nor went astray is as it was, on both sides. *)
LEMMA CellStays ==
    ASSUME MInv, NEW p, NEW o, Part(p, o), channel # "none",
           NEW c \in Cell, c # <<o, "LIFE">>, c[1] \in Own \cup {Zero}, c \notin Sent(p)
    PROVE  Told(p, c) = Told(page, c) /\ Keep(p)[c] = kept[c]
  <1>1. c \notin p.updates
    BY DEF Sent
  <1>2. p.shown[c] = page.shown[c]
    BY <1>1 DEF Part
  <1> QED
    BY <1>2, KeepFields DEF Told, Linked

LEMMA HandleStep ==
    ASSUME MInv, NEW p, From(p), Handle(p)
    PROVE  MInv'
  <1>0. Part(p, Zero) /\ Shape(p)
    BY DEF From, Part
  <1>1. Shape(page') /\ page'.updates = {} /\ page'.shown = p.shown /\ page'.active = p.active
    BY <1>0, SettledFields DEF Handle
  <1>2. DOMAIN kept' = Cell /\ kept'[Mumble] \notin Foreign
        /\ \A c \in Cell : kept'[c] = IF c \in Sent(p) THEN Told(p, c) ELSE kept[c]
    BY KeepFields DEF Handle
  <1>3. \A c \in Sent(p) : c[2] # "LIFE"
    BY <1>0 DEF Sent, Part
  <1>4. \A o \in ObjectId : kept'[<<o, "LIFE">>] = kept[<<o, "LIFE">>]
    BY <1>2, <1>3, LifeIsCell
  <1>5. SnapshotSound'
    BY <1>2 DEF MInv, SnapshotSound, Handle
  <1>6. LivesKnown'
    <2>1. \A o \in Own : <<o, "LIFE">> \in astray' => <<o, "LIFE">> \in astray
      BY <1>3 DEF Handle
    <2> QED
      BY <1>4, <2>1, ZeroIsNobody DEF MInv, LivesKnown
  <1>7. SavedAsShown'
    <2> SUFFICES ASSUME channel' = "open", NEW c \in Cell \ astray',
                        c[1] = Zero \/ (c[1] \in Own /\ kept'[<<c[1], "LIFE">>] = "live")
                 PROVE  Told(page', c) = kept'[c]
      BY DEF SavedAsShown
    <2>1. channel = "open" /\ astray' = astray \ Sent(p)
      BY DEF Handle
    <2>2. Told(page', c) = Told(p, c)
      BY <1>1 DEF Told, Linked
    <2>3. CASE c \in Sent(p)
      BY <1>2, <2>2, <2>3
    <2>4. CASE c \notin Sent(p)
      <3>1. c \notin astray
        BY <2>1, <2>4
      <3>2. c # <<Zero, "LIFE">>
        BY ZeroIsNobody DEF Cell, Setting
      <3>3. Told(p, c) = Told(page, c)
        BY <1>0, <2>1, <2>4, <3>2, CellStays
      <3>4. c[1] = Zero \/ (c[1] \in Own /\ kept[<<c[1], "LIFE">>] = "live")
        BY <1>4, ZeroIsNobody
      <3>5. Told(page, c) = kept[c]
        BY <2>1, <3>1, <3>4 DEF MInv, SavedAsShown
      <3> QED
        BY <1>2, <2>2, <2>4, <3>3, <3>5
    <2> QED
      BY <2>3, <2>4
  <1>8. Driven'
    BY <1>0, <1>1, DrivenOn DEF Handle, Part
  <1> QED
    BY <1>1, <1>2, <1>5, <1>6, <1>7, <1>8 DEF MInv

LEMMA UserStep ==
    ASSUME MInv, NEW e, Start(e), NEW p, Writes(e, p), User(p)
    PROVE  MInv'
  BY FromStart, HandleStep DEF User

-----------------------------------------------------------------------------
(* The steps of the user. *)
LEMMA StartsHere ==
    ASSUME MInv
    PROVE  /\ Start(page)
           /\ \A a : Start([page EXCEPT !.active = a])
           /\ \A m : Start([page EXCEPT !.menu = m])
           /\ \A m : Start([page EXCEPT !.modal = m])
           /\ \A m : Start([page EXCEPT !.mouse = m])
  BY DEF MInv, Start, Shape

LEMMA PointerStep ==
    ASSUME MInv, Pointer
    PROVE  MInv'
  <1>1. ASSUME NEW m \in Place, PointerDown(m)
        PROVE  MInv'
    <2> DEFINE p == [page EXCEPT !.menu = None]
               e == [NoAction(p) EXCEPT !.mouse = m]
    <2>1. Start(p) /\ Shape(p)
      BY StartsHere DEF Start
    <2>2. Start(e) /\ Shape(e)
      <3> HIDE DEF p
      <3> QED
        BY <2>1 DEF Start, Shape, NoAction
    <2>3. User(Finalized(p)) \/ User(StartTranslateOnHit(e, m))
      BY <1>1 DEF PointerDown
    <2> HIDE DEF p, e
    <2> QED
      BY <2>1, <2>2, <2>3, WritesFinalized, WritesHit, UserStep
  <1>2. ASSUME NEW m \in Place, ShiftPointerDown(m)
        PROVE  MInv'
    <2> DEFINE p == [page EXCEPT !.menu = None, !.mouse = m]
    <2>1. Start(p) /\ Shape(p)
      BY DEF MInv, Start, Shape
    <2>2. User(StartRotation(p, Selected(p)))
      BY <1>2 DEF ShiftPointerDown
    <2> HIDE DEF p
    <2> QED
      BY <2>1, <2>2, WritesRotation, UserStep
  <1>3. ASSUME NEW m \in Place, PointerMove(m)
        PROVE  MInv'
    <2> DEFINE p == [page EXCEPT !.mouse = m]
               q == Set(p, Zero, "VIEW", 1 - p.shown[<<Zero, "VIEW">>])
    <2>1. Start(p) /\ Shape(p)
      BY StartsHere DEF Start
    <2>2. User(Apply(p, m)) \/ User(Apply(q, m))
      BY <1>3 DEF PointerMove
    <2> HIDE DEF p
    <2>3. Writes(p, q) /\ Shape(q)
      BY <2>1, WritesSet DEF Writes
    <2> HIDE DEF q
    <2>4. Writes(p, Apply(q, m))
      BY <2>3, WritesApply, WritesTransitive
    <2> QED
      BY <2>1, <2>2, <2>4, WritesApply, UserStep
  <1>4. ASSUME NEW m \in Place, OpenContextMenu(m)
        PROVE  MInv'
    <2> DEFINE hit == Hit(page, m)
               noted == Set(page, Zero, "SELECTED", hit)
    <2>1. User([page EXCEPT !.menu = None]) \/ User([page EXCEPT !.menu = hit])
          \/ User([noted EXCEPT !.menu = hit])
      BY <1>4 DEF OpenContextMenu
    <2>2. Start(page) /\ Shape(page) /\ Start([page EXCEPT !.menu = None])
          /\ Start([page EXCEPT !.menu = hit])
      BY StartsHere DEF Start
    <2> HIDE DEF hit
    <2>3. Writes(page, noted) /\ Shape(noted)
      BY <2>2, WritesSet DEF Writes
    <2>4. Writes(page, [noted EXCEPT !.menu = hit])
      <3> DEFINE q == [noted EXCEPT !.menu = hit]
      <3> HIDE DEF noted
      <3>1. Shape(q) /\ q.shown = noted.shown /\ q.updates = noted.updates /\ q.active = noted.active
        BY <2>3 DEF Shape
      <3> HIDE DEF q
      <3>2. Writes(noted, q)
        BY <3>1, WritesAside
      <3>3. Writes(page, q)
        BY <2>3, <3>2, WritesTransitive
      <3> QED
        BY <3>3 DEF q
    <2> HIDE DEF noted
    <2> QED
      BY <2>1, <2>2, <2>4, WritesSame, UserStep DEF Start
  <1>5. CASE MiddlePointerDown \/ MiddlePointerUp \/ PointerLeave \/ CloseContextMenu
    <2>1. /\ Start([page EXCEPT !.menu = None, !.panning = TRUE])
          /\ Start([page EXCEPT !.panning = FALSE])
          /\ Start([page EXCEPT !.action = None, !.panning = FALSE, !.mouse = None])
          /\ Start([page EXCEPT !.menu = None])
      BY DEF MInv, Start, Shape
    <2>2. \A e : Start(e) /\ User(e) => MInv'
      BY WritesSame, UserStep DEF Start
    <2> QED
      BY <1>5, <2>1, <2>2
         DEF MiddlePointerDown, MiddlePointerUp, PointerLeave, CloseContextMenu
  <1>6. CASE PointerUp
    BY <1>6, StartsHere, WritesFinalized, UserStep DEF PointerUp, Start
  <1>7. CASE Wheel
    <2>1. Writes(page, Set(page, Zero, "VIEW", 1 - page.shown[<<Zero, "VIEW">>]))
      BY WritesSet DEF MInv
    <2> QED
      BY <1>7, <2>1, StartsHere, UserStep DEF Wheel
  <1> QED
    BY <1>1, <1>2, <1>3, <1>4, <1>5, <1>6, <1>7 DEF Pointer

LEMMA KeyStep ==
    ASSUME MInv, KeyDown
    PROVE  MInv'
  <1>0. Start(page) /\ Shape(page)
    BY StartsHere DEF Start
  <1>1. CASE Escape
    <2> DEFINE noted == Set(page, Zero, "SELECTED", Zero)
    <2>1. \E p \in {NoAction(page), [page EXCEPT !.modal = None], [page EXCEPT !.menu = None],
                    page, noted} : User(p)
      BY <1>1 DEF Escape
    <2>2. Writes(page, noted) /\ Writes(page, NoAction(page)) /\ Writes(page, page)
      BY <1>0, WritesSet, WritesNoAction, WritesSame
    <2>3. Start([page EXCEPT !.modal = None]) /\ Start([page EXCEPT !.menu = None])
      BY StartsHere
    <2> HIDE DEF noted
    <2> QED
      BY <1>0, <2>1, <2>2, <2>3, WritesSame, UserStep DEF Start
  <1>2. CASE HelpKey
    <2> DEFINE asked == IF page.modal = <<"help", Zero>> THEN None ELSE <<"help", Zero>>
    <2>1. User([page EXCEPT !.modal = asked])
      BY <1>2 DEF HelpKey
    <2>2. Start([page EXCEPT !.modal = asked])
      BY StartsHere
    <2> HIDE DEF asked
    <2> QED
      BY <2>1, <2>2, WritesSame, UserStep DEF Start
  <1>3. CASE TranslateKey
    BY <1>0, <1>3, WritesTranslate, UserStep DEF TranslateKey
  <1>4. CASE RotateKey
    BY <1>0, <1>4, WritesRotation, UserStep DEF RotateKey
  <1>5. CASE ScaleKey
    <2> DEFINE id == Selected(page)
               e == [page EXCEPT !.active = @ \ {id}]
               a == [do |-> "scale", id |-> id, center |-> Transform(page, id).at,
                     size |-> page.shown[<<id, "SIZE">>]]
    <2>1. User(page) \/ User(Begin(e, a))
      BY <1>5 DEF ScaleKey, StartScale
    <2>2. Start(e) /\ Shape(e)
      BY StartsHere DEF Start
    <2>3. Gestural(a)
      BY DEF Gestural
    <2> HIDE DEF e, a
    <2> QED
      BY <1>0, <2>1, <2>2, <2>3, WritesBegin, WritesSame, UserStep
  <1>6. CASE ShiftUp
    <2> DEFINE p == NoAction(page)
               free == Set(p, page.action.id, "LOOK_AT", None)
    <2>1. User(p) \/ User(free)
      BY <1>6 DEF ShiftUp
    <2>2. Writes(page, p) /\ Shape(p)
      BY <1>0, WritesNoAction DEF Writes
    <2> HIDE DEF p
    <2>3. Writes(p, free)
      BY <2>2, WritesSet
    <2> HIDE DEF free
    <2>4. Writes(page, free)
      BY <2>2, <2>3, WritesTransitive
    <2> QED
      BY <1>0, <2>1, <2>2, <2>4, UserStep
  <1> QED
    BY <1>1, <1>2, <1>3, <1>4, <1>5, <1>6 DEF KeyDown

LEMMA FlagKeys ==
    ASSUME NEW kind, NEW k \in FlagsOf(kind)
    PROVE  k # "LIFE" /\ k # "MOVE_TARGET"
  BY MapAssumption DEF FlagsOf

(* All messages about an object but the one that removes it, then the others. *)
LEMMA MessageStep ==
    ASSUME MInv, NEW o \in ObjectId,
           \/ SelectListed(o) \/ OpenSettings(o) \/ ConfirmRemove(o) \/ ToggleMumbleObject(o)
           \/ \E k \in {"LOCKED", "HIDDEN", "LOCAL_HIDDEN", "EXPANDED"} : Toggle(o, k)
    PROVE  MInv'
  <1>0. Start(page) /\ Shape(page)
    BY StartsHere DEF Start
  <1>1. CASE SelectListed(o)
    <2>1. Writes(page, NoAction(page)) /\ Shape(NoAction(page))
      BY <1>0, WritesNoAction DEF Writes
    <2>2. Writes(page, SelectObject(NoAction(page), o))
      BY <2>1, WritesSelect, WritesTransitive
    <2> QED
      BY <1>0, <1>1, <2>2, UserStep DEF SelectListed
  <1>2. ASSUME NEW what, Ask(what, o)
        PROVE  MInv'
    <2> DEFINE p == [page EXCEPT !.menu = None]
               asked == <<IF IsLocked(p, o) THEN "unlock" ELSE what, o>>
    <2>1. User(p) \/ User([p EXCEPT !.modal = asked])
      BY <1>2 DEF Ask
    <2> HIDE DEF asked
    <2>2. Start(p) /\ Start([p EXCEPT !.modal = asked])
      BY <1>0 DEF Start, Shape
    <2> HIDE DEF p
    <2> QED
      BY <2>1, <2>2, WritesSame, UserStep DEF Start
  <1>3. CASE ToggleMumbleObject(o)
    <2> DEFINE p == [page EXCEPT !.menu = None]
               id == IF Linked(page) = o THEN Zero ELSE o
    <2>1. User(Set(p, Zero, "MUMBLE_OBJECT", id))
      BY <1>3 DEF ToggleMumbleObject
    <2>2. Start(p) /\ Shape(p)
      BY StartsHere DEF Start
    <2> HIDE DEF p, id
    <2> QED
      BY <2>1, <2>2, WritesSet, UserStep
  <1>4. ASSUME NEW k, Toggle(o, k)
        PROVE  MInv'
    <2> DEFINE p == IF k = "LOCKED" THEN page ELSE [page EXCEPT !.menu = None]
               q == Set(p, o, k, ~p.shown[<<o, k>>])
    <2>1. User(q) \/ User(p)
      BY <1>4 DEF Toggle
    <2>2. Start(p) /\ Shape(p)
      BY <1>0, StartsHere DEF Start
    <2>3. k # "LIFE" /\ k # "MOVE_TARGET"
      BY <1>4, FlagKeys DEF Toggle
    <2> HIDE DEF p
    <2>4. Writes(p, q)
      BY <2>2, <2>3, WritesSet
    <2> HIDE DEF q
    <2> QED
      BY <2>1, <2>2, <2>4, WritesSame, UserStep
  <1> QED
    BY <1>1, <1>2, <1>3, <1>4 DEF OpenSettings, ConfirmRemove

LEMMA PlainMessageStep ==
    ASSUME MInv, CloseModal \/ ToggleFollow
    PROVE  MInv'
  <1>1. CASE CloseModal
    BY <1>1, StartsHere, WritesSame, UserStep DEF CloseModal, Start
  <1>2. CASE ToggleFollow
    <2>0. Start(page) /\ Shape(page)
      BY StartsHere DEF Start
    <2>1. Writes(page, Set(page, Zero, "MUMBLE_FOLLOW", ~page.shown[<<Zero, "MUMBLE_FOLLOW">>]))
      BY <2>0, WritesSet
    <2> QED
      BY <2>0, <1>2, <2>1, UserStep DEF ToggleFollow
  <1> QED
    BY <1>1, <1>2

-----------------------------------------------------------------------------
(* An object is removed here, or by another page, or its peer. *)
LEMMA RemovedPart ==
    ASSUME MInv, NEW o \in ObjectId
    PROVE  Part(Removed(page, o), o)
  <1> DEFINE gone == [page EXCEPT !.shown[<<o, "LIFE">>] = "gone", !.active = @ \ {o}]
             left == IF Selected(page) = o THEN SelectObject(gone, Zero) ELSE gone
             p == [left EXCEPT !.modal = None]
  <1>1. /\ Shape(gone) /\ gone.updates = {}
        /\ \A c \in Cell : gone.shown[c] = IF c = <<o, "LIFE">> THEN "gone" ELSE page.shown[c]
    BY DEF MInv, Shape
  <1> HIDE DEF gone
  <1>2. Writes(gone, left) /\ Shape(left)
    BY <1>1, WritesSelect, WritesSame DEF Writes
  <1> HIDE DEF left
  <1>3. Shape(p) /\ p.shown = left.shown /\ p.updates = left.updates /\ p.active = left.active
    BY <1>2 DEF Shape
  <1> HIDE DEF p
  <1>4. Writes(gone, p)
    BY <1>2, <1>3, WritesAside, WritesTransitive
  <1>5. ASSUME NEW r \in Own, Going(p, r)
        PROVE  r \in p.active \/ Going(page, r)
    <2>1. r \in p.active \/ Going(gone, r)
      BY <1>4, <1>5 DEF Writes
    <2>2. ASSUME Going(gone, r)
          PROVE  Going(page, r)
      <3>1. r \in ObjectId /\ KindOf[r] = "token"
        BY <2>2, ZeroIsNobody DEF Going, Is
      <3>2. <<r, "LIFE">> \in Cell /\ <<r, "MOVE_TARGET">> \in Cell
        BY <3>1, LifeIsCell, TargetIsCell
      <3> QED
        BY <1>1, <2>2, <3>2 DEF Going, Is, Live, Target
    <2> QED
      BY <2>1, <2>2
  <1>6. Part(p, o)
    BY <1>1, <1>3, <1>4, <1>5 DEF Part, Writes
  <1>7. Removed(page, o) = p
    BY DEF Removed, left, gone, p
  <1> QED
    BY <1>6, <1>7

(* The claims about the other cells survive; those about o are none when o is gone, or are
   given up. *)
LEMMA GoneStep ==
    ASSUME MInv, NEW o \in ObjectId, NEW p, Part(p, o),
           page' = Settled(p), halted' = Halt(p), UNCHANGED <<snapshot, channel>>,
           NEW end, kept' = [Keep(p) EXCEPT ![<<o, "LIFE">>] = end],
           end = "gone" \/ (end = Keep(p)[<<o, "LIFE">>] /\ (o \in Foreign \/ channel = "none")),
           channel = "open" => astray \ (Sent(p) \cup {c \in Cell : c[1] = o}) \subseteq astray',
           astray' \subseteq astray \cup Sent(p) \cup {c \in Cell : c[1] = o},
           channel = "opening" => astray \cup Sent(p) \cup {c \in Cell : c[1] = o} \subseteq astray',
           o \in Own /\ channel # "none" => end = "gone",
           o \in Own /\ <<o, "LIFE">> \in astray' => end = "gone" \/ <<o, "LIFE">> \in astray
    PROVE  MInv'
  <1>0. Shape(p) /\ Shape(page') /\ page'.updates = {} /\ page'.shown = p.shown /\ page'.active = p.active
    BY SettledFields DEF Part
  <1>1. /\ DOMAIN kept' = Cell
        /\ \A c \in Cell : kept'[c] = IF c = <<o, "LIFE">> THEN end
                                      ELSE IF c \in Sent(p) THEN Told(p, c) ELSE kept[c]
    BY KeepFields
  <1>2. Mumble # <<o, "LIFE">> /\ kept'[Mumble] \notin Foreign
    BY <1>1, KeepFields, MumbleIsCell DEF Mumble
  <1>3. \A c \in Sent(p) : c[2] # "LIFE"
    BY DEF Sent, Part
  <1>4. \A r \in ObjectId \ {o} : kept'[<<r, "LIFE">>] = kept[<<r, "LIFE">>]
    BY <1>1, <1>3, LifeIsCell
  <1>5. SnapshotSound'
    <2> SUFFICES ASSUME channel = "opening"
                 PROVE  DOMAIN snapshot = Cell /\ \A c \in Cell \ astray' : snapshot[c] = kept'[c]
      BY DEF SnapshotSound
    <2>1. DOMAIN snapshot = Cell /\ \A c \in Cell \ astray : snapshot[c] = kept[c]
      BY DEF MInv, SnapshotSound
    <2>2. \A c \in Cell \ astray' : c \notin astray /\ c \notin Sent(p) /\ c # <<o, "LIFE">>
      OBVIOUS
    <2> QED
      BY <1>1, <2>1, <2>2
  <1>6. LivesKnown'
    <2> SUFFICES ASSUME NEW r \in Own, <<r, "LIFE">> \in astray'
                 PROVE  kept'[<<r, "LIFE">>] = "gone"
      BY DEF LivesKnown
    <2>1. CASE r # o
      <3>1. <<r, "LIFE">> \in astray
        BY <1>3, <2>1
      <3> QED
        BY <1>4, <2>1, <3>1, ZeroIsNobody DEF MInv, LivesKnown
    <2>2. CASE r = o
      <3>1. kept'[<<o, "LIFE">>] = end
        BY <1>1, LifeIsCell
      <3>2. end = "gone" \/ end = kept[<<o, "LIFE">>]
        BY <1>3, KeepFields, LifeIsCell
      <3> QED
        BY <2>2, <3>1, <3>2 DEF MInv, LivesKnown
    <2> QED
      BY <2>1, <2>2
  <1>7. SavedAsShown'
    <2> SUFFICES ASSUME channel' = "open", NEW c \in Cell \ astray',
                        c[1] = Zero \/ (c[1] \in Own /\ kept'[<<c[1], "LIFE">>] = "live")
                 PROVE  Told(page', c) = kept'[c]
      BY DEF SavedAsShown
    <2>0. channel = "open"
      OBVIOUS
    <2>1. Told(page', c) = Told(p, c)
      BY <1>0 DEF Told, Linked
    <2>2. c[1] # o
      <3>1. o # Zero
        BY ZeroIsNobody
      <3>2. o \in Own => kept'[<<o, "LIFE">>] = "gone"
        BY <1>1, <2>0, LifeIsCell
      <3> QED
        BY <3>1, <3>2
    <2>3. c # <<o, "LIFE">>
      BY <2>2
    <2>4. CASE c \in Sent(p)
      BY <1>1, <2>1, <2>3, <2>4
    <2>5. CASE c \notin Sent(p)
      <3>1. c \notin astray
        BY <2>0, <2>2, <2>5
      <3>2. Told(p, c) = Told(page, c)
        BY <2>0, <2>3, <2>5, CellStays
      <3>3. c[1] = Zero \/ (c[1] \in Own /\ kept[<<c[1], "LIFE">>] = "live")
        BY <1>4, <2>2, ZeroIsNobody
      <3>4. Told(page, c) = kept[c]
        BY <2>0, <3>1, <3>3 DEF MInv, SavedAsShown
      <3> QED
        BY <1>1, <2>1, <2>3, <2>5, <3>2, <3>4
    <2> QED
      BY <2>4, <2>5
  <1>8. Driven'
    BY <1>0, DrivenOn DEF Part
  <1> QED
    BY <1>0, <1>1, <1>2, <1>5, <1>6, <1>7, <1>8 DEF MInv

LEMMA RemoveObjectStep ==
    ASSUME MInv, NEW o \in ObjectId, RemoveObject(o)
    PROVE  MInv'
  <1> DEFINE p == Removed(page, o)
             lives == {c \in Cell : c[1] = o}
             end == IF o \in Own /\ channel # "none" THEN "gone" ELSE Keep(p)[<<o, "LIFE">>]
  <1>1. Part(p, o)
    BY RemovedPart
  <1>2. /\ page' = Settled(p) /\ halted' = Halt(p) /\ UNCHANGED <<snapshot, channel>>
        /\ kept' = [Keep(p) EXCEPT ![<<o, "LIFE">>] = end]
        /\ astray' = CASE channel = "opening" -> astray \cup Sent(p) \cup lives
                       [] channel = "open" /\ o \in Own -> astray \ (Sent(p) \cup lives)
                       [] OTHER -> astray \ Sent(p)
    BY DEF RemoveObject
  <1>3. end = "gone" \/ (end = Keep(p)[<<o, "LIFE">>] /\ (o \in Foreign \/ channel = "none"))
    BY DEF ObjectId
  <1>4. /\ channel = "open" => astray \ (Sent(p) \cup lives) \subseteq astray'
        /\ astray' \subseteq astray \cup Sent(p) \cup lives
        /\ channel = "opening" => astray \cup Sent(p) \cup lives \subseteq astray'
        /\ channel = "none" => astray' \subseteq astray
    <2> HIDE DEF p, lives
    <2>1. CASE channel = "opening"
      BY <1>2, <2>1
    <2>2. CASE channel # "opening"
      <3>1. astray' = astray \ (Sent(p) \cup lives) \/ astray' = astray \ Sent(p)
        BY <1>2, <2>2
      <3> QED
        BY <2>2, <3>1
    <2> QED
      BY <2>1, <2>2
  <1>5. /\ o \in Own /\ channel # "none" => end = "gone"
        /\ o \in Own /\ <<o, "LIFE">> \in astray' => end = "gone" \/ <<o, "LIFE">> \in astray
    BY <1>4
  <1> HIDE DEF p, end
  <1> QED
    BY <1>1, <1>2, <1>3, <1>4, <1>5, GoneStep

LEMMA ObjectRemovedStep ==
    ASSUME MInv, NEW o \in ObjectId, ObjectRemoved(o)
    PROVE  MInv'
  <1> DEFINE p == IF channel = "open" /\ page.shown[<<o, "LIFE">>] # "unborn"
                  THEN Removed(page, o) ELSE page
  <1>1. Part(p, o)
    <2>1. From(page)
      BY FromStart, StartsHere, WritesSame DEF Start
    <2> QED
      BY <2>1, FromPart, RemovedPart
  <1>2. /\ page' = Settled(p) /\ halted' = Halt(p) /\ UNCHANGED <<snapshot, channel>>
        /\ kept' = [Keep(p) EXCEPT ![<<o, "LIFE">>] = "gone"]
        /\ astray' = astray \ (Sent(p) \cup {<<o, "LIFE">>})
        /\ channel # "opening"
    BY DEF ObjectRemoved, Other
  <1>3. <<o, "LIFE">> \in {c \in Cell : c[1] = o}
    BY LifeIsCell
  <1> HIDE DEF p
  <1> QED
    BY <1>1, <1>2, <1>3, GoneStep

-----------------------------------------------------------------------------
(* What others change. *)
LEMMA OthersStay ==
    ASSUME MInv, channel # "opening", NEW c \in Cell, NEW v,
           kept' = [kept EXCEPT ![c] = v], c = Mumble => v \notin Foreign,
           UNCHANGED channel
    PROVE  /\ DOMAIN kept' = Cell /\ kept'[Mumble] \notin Foreign
           /\ SnapshotSound'
           /\ kept'[c] = v /\ \A d \in Cell \ {c} : kept'[d] = kept[d]
  BY MumbleIsCell DEF MInv, SnapshotSound

LEMMA ObjectUpdatedStep ==
    ASSUME MInv, NEW o \in ObjectId, NEW k, NEW v, ObjectUpdated(o, k, v)
    PROVE  MInv'
  <1> DEFINE c == <<o, k>>
             p == Updated(page, o, k, v)
  <1>1. /\ channel # "opening" /\ k # "LIFE" /\ c \in Cell /\ kept[<<o, "LIFE">>] = "live"
        /\ kept' = [kept EXCEPT ![c] = v] /\ UNCHANGED <<snapshot, channel>>
    BY DEF ObjectUpdated, Other
  <1>2. c # Mumble
    BY ZeroIsNobody DEF Mumble
  <1>3. /\ DOMAIN kept' = Cell /\ kept'[Mumble] \notin Foreign /\ SnapshotSound'
        /\ kept'[c] = v /\ \A d \in Cell \ {c} : kept'[d] = kept[d]
    BY <1>1, <1>2, OthersStay
  <1>4. \A r \in ObjectId : kept'[<<r, "LIFE">>] = kept[<<r, "LIFE">>]
    BY <1>1, <1>3, LifeIsCell
  <1>5. CASE channel # "open"
    <2>1. UNCHANGED <<page, halted, astray>>
      BY <1>5 DEF ObjectUpdated
    <2>2. LivesKnown'
      BY <1>4, <2>1, ZeroIsNobody DEF MInv, LivesKnown
    <2>3. Driven'
      BY <2>1 DEF MInv, Driven, Is, Live, Target
    <2>4. SavedAsShown'
      BY <1>1, <1>5 DEF SavedAsShown
    <2> QED
      BY <1>3, <2>1, <2>2, <2>3, <2>4 DEF MInv, Shape
  <1>6. CASE channel = "open"
    <2>1. /\ page' = Settled(p) /\ halted' = Halt(p)
          /\ astray' = IF Ignored(page, o, k) THEN astray \cup {c} ELSE astray \ {c}
      BY <1>6 DEF ObjectUpdated
    <2> DEFINE q == IF Ignored(page, o, k) THEN page ELSE [page EXCEPT !.shown[c] = v]
    <2>2. /\ Shape(q) /\ q.updates = {} /\ q.active = page.active
          /\ \A d \in Cell : q.shown[d] = IF d = c /\ ~Ignored(page, o, k) THEN v ELSE page.shown[d]
      BY DEF MInv, Shape
    <2> HIDE DEF q
    <2>3. /\ Shape(Active(q, o)) /\ Active(q, o).updates = {} /\ Active(q, o).shown = q.shown
          /\ Active(q, o).active = q.active \cup {o}
      BY <2>2 DEF Active, Shape
    <2>4. p = IF ~Live(page, o) THEN page ELSE IF k = "MOVE_TARGET" THEN Active(q, o) ELSE q
      BY DEF Updated, q
    <2>5. Shape(p) /\ p.updates = {}
      BY <2>2, <2>3, <2>4 DEF MInv
    <2>6. \A d \in Cell \ {c} : p.shown[d] = page.shown[d]
      BY <2>2, <2>3, <2>4
    <2>7. Live(page, o) => p.shown[c] = IF Ignored(page, o, k) THEN page.shown[c] ELSE v
      BY <1>1, <2>2, <2>3, <2>4
    <2>8. ASSUME NEW r \in Own, Going(p, r)
          PROVE  r \in p.active \/ Going(page, r)
      <3>1. r \in ObjectId /\ KindOf[r] = "token"
        BY <2>8, ZeroIsNobody DEF Going, Is
      <3>2. <<r, "LIFE">> \in Cell /\ <<r, "MOVE_TARGET">> \in Cell
        BY <3>1, LifeIsCell, TargetIsCell
      <3>3. Live(page, r)
        BY <1>1, <2>6, <2>8, <3>2 DEF Going, Is, Live
      <3>4. CASE c = <<r, "MOVE_TARGET">>
        BY <2>3, <2>4, <3>3, <3>4
      <3>5. CASE c # <<r, "MOVE_TARGET">>
        BY <2>6, <2>8, <3>2, <3>3, <3>5 DEF Going, Is, Target
      <3> QED
        BY <3>4, <3>5
    <2> HIDE DEF p
    <2>9. Shape(page') /\ page'.updates = {} /\ page'.shown = p.shown /\ page'.active = p.active
      BY <2>1, <2>5, SettledFields
    <2>10. Driven'
      BY <2>1, <2>8, <2>9, DrivenOn
    <2>11. LivesKnown'
      BY <1>1, <1>4, <2>1, ZeroIsNobody DEF MInv, LivesKnown
    <2>12. SavedAsShown'
      <3> SUFFICES ASSUME NEW d \in Cell \ astray',
                          d[1] = Zero \/ (d[1] \in Own /\ kept'[<<d[1], "LIFE">>] = "live")
                   PROVE  Told(page', d) = kept'[d]
        BY DEF SavedAsShown
      <3>1. Told(page', d) = Told(p, d)
        BY <2>9 DEF Told, Linked
      <3>2. d[1] = Zero \/ (d[1] \in Own /\ kept[<<d[1], "LIFE">>] = "live")
        BY <1>4, ZeroIsNobody
      <3>3. CASE d # c
        <4>1. d \notin astray
          BY <2>1, <3>3
        <4>2. Told(p, d) = Told(page, d)
          BY <2>6, <3>3 DEF Told, Linked
        <4>3. Told(page, d) = kept[d]
          BY <1>6, <3>2, <4>1 DEF MInv, SavedAsShown
        <4> QED
          BY <1>3, <3>1, <3>3, <4>2, <4>3
      <3>4. CASE d = c
        <4>1. ~Ignored(page, o, k)
          BY <2>1, <3>4
        <4>2. o \in Own /\ o # Zero
          BY <3>2, <3>4, ZeroIsNobody
        <4>3. Live(page, o)
          <5>1. <<o, "LIFE">> \in Cell \ astray
            BY <1>1, <4>2, LifeIsCell DEF MInv, LivesKnown
          <5>2. Told(page, <<o, "LIFE">>) = kept[<<o, "LIFE">>]
            BY <1>1, <1>6, <4>2, <5>1 DEF MInv, SavedAsShown
          <5> QED
            BY <1>1, <4>2, <5>2 DEF Told, Live
        <4>4. Told(p, c) = p.shown[c]
          BY <1>2 DEF Told, Mumble
        <4> QED
          BY <1>3, <2>7, <3>1, <3>4, <4>1, <4>3, <4>4
      <3> QED
        BY <3>3, <3>4
    <2> QED
      BY <1>3, <2>9, <2>10, <2>11, <2>12 DEF MInv
  <1> QED
    BY <1>5, <1>6

LEMMA ObjectCreatedStep ==
    ASSUME MInv, NEW o \in ObjectId, ObjectCreated(o)
    PROVE  MInv'
  <1> DEFINE born == [c \in Cell |-> IF c[1] # o THEN kept[c]
                                     ELSE IF c[2] = "LIFE" THEN "live" ELSE Default(c[2])]
             page1 == [page EXCEPT !.shown =
                        [c \in Cell |-> IF c[1] = o THEN born[c] ELSE page.shown[c]]]
  <1>1. /\ channel # "opening" /\ kept[<<o, "LIFE">>] = "unborn" /\ kept' = born
        /\ page' = IF channel = "open" THEN page1 ELSE page
        /\ UNCHANGED <<snapshot, channel, astray, halted>>
    BY DEF ObjectCreated, Other
  <1>2. o # Zero
    BY ZeroIsNobody
  <1>3. DOMAIN kept' = Cell /\ \A c \in Cell : c[1] # o => kept'[c] = kept[c]
    BY <1>1
  <1>4. kept'[Mumble] \notin Foreign
    BY <1>2, <1>3, MumbleIsCell DEF MInv, Mumble
  <1>5. /\ Shape(page1) /\ page1.updates = {} /\ page1.active = page.active
        /\ \A c \in Cell : page1.shown[c] = IF c[1] = o THEN born[c] ELSE page.shown[c]
    BY DEF MInv, Shape
  <1>6. \A c \in Cell : c = <<o, "MOVE_TARGET">> => born[c] = None
    <2>1. Default("MOVE_TARGET") = None
      BY DEF Default
    <2> QED
      BY <2>1
  <1> HIDE DEF page1, born
  <1>7. Shape(page') /\ page'.updates = {} /\ page'.active = page.active
    BY <1>1, <1>5 DEF MInv
  <1>8. SnapshotSound'
    BY <1>1 DEF SnapshotSound
  <1>9. LivesKnown'
    <2> SUFFICES ASSUME NEW r \in Own, <<r, "LIFE">> \in astray
                 PROVE  kept'[<<r, "LIFE">>] = "gone"
      BY <1>1 DEF LivesKnown
    <2>1. kept[<<r, "LIFE">>] = "gone" /\ r \in ObjectId
      BY ZeroIsNobody DEF MInv, LivesKnown
    <2>2. r # o
      BY <1>1, <2>1
    <2> QED
      BY <1>3, <2>1, <2>2, LifeIsCell
  <1>10. SavedAsShown'
    <2> SUFFICES ASSUME channel = "open", NEW c \in Cell \ astray,
                        c[1] = Zero \/ (c[1] \in Own /\ kept'[<<c[1], "LIFE">>] = "live")
                 PROVE  Told(page', c) = kept'[c]
      BY <1>1 DEF SavedAsShown
    <2>1. page' = page1
      BY <1>1
    <2>2. CASE c[1] = o
      <3>1. page'.shown[c] = kept'[c]
        BY <1>1, <1>5, <2>1, <2>2
      <3> QED
        BY <1>2, <2>2, <3>1 DEF Told
    <2>3. CASE c[1] # o
      <3>1. page'.shown[c] = page.shown[c] /\ kept'[c] = kept[c]
        BY <1>3, <1>5, <2>1, <2>3
      <3>2. c[1] \in Own => kept'[<<c[1], "LIFE">>] = kept[<<c[1], "LIFE">>]
        BY <1>3, <2>3, LifeIsCell, ZeroIsNobody
      <3>3. Told(page, c) = kept[c]
        BY <3>2 DEF MInv, SavedAsShown
      <3> QED
        BY <3>1, <3>3 DEF Told, Linked
    <2> QED
      BY <2>2, <2>3
  <1>11. Driven'
    <2> SUFFICES ASSUME NEW r \in Own, Going(page', r) PROVE r \in page.active \cup halted
      BY <1>1, <1>7 DEF Driven, Going
    <2>1. r \in ObjectId /\ KindOf[r] = "token"
      BY ZeroIsNobody DEF Going, Is
    <2>2. <<r, "LIFE">> \in Cell /\ <<r, "MOVE_TARGET">> \in Cell
      BY <2>1, LifeIsCell, TargetIsCell
    <2>3. Going(page, r)
      BY <1>1, <1>5, <1>6, <2>2 DEF Going, Is, Live, Target
    <2> QED
      BY <2>3 DEF MInv, Driven, Going
  <1> QED
    BY <1>3, <1>4, <1>7, <1>8, <1>9, <1>10, <1>11 DEF MInv

LEMMA ConfigUpdateStep ==
    ASSUME MInv, NEW k \in Setting, NEW v \in OthersValue(k), ConfigUpdate(k, v)
    PROVE  MInv'
  <1> DEFINE c == <<Zero, k>>
             page1 == [page EXCEPT !.shown[c] = v]
  <1>1. /\ channel # "opening" /\ kept' = [kept EXCEPT ![c] = v]
        /\ page' = IF channel = "open" THEN page1 ELSE page
        /\ astray' = astray \ {c} /\ UNCHANGED <<snapshot, channel, halted>>
    BY DEF ConfigUpdate, Other
  <1>2. c \in Cell /\ c[1] = Zero
    BY DEF Cell
  <1>3. c = Mumble => v \notin Foreign
    BY MapAssumption DEF OthersValue, Mumble
  <1>4. /\ DOMAIN kept' = Cell /\ kept'[Mumble] \notin Foreign /\ SnapshotSound'
        /\ kept'[c] = v /\ \A d \in Cell \ {c} : kept'[d] = kept[d]
    BY <1>1, <1>2, <1>3, OthersStay
  <1>5. /\ Shape(page1) /\ page1.updates = {} /\ page1.active = page.active
        /\ \A d \in Cell : page1.shown[d] = IF d = c THEN v ELSE page.shown[d]
    BY <1>2 DEF MInv, Shape
  <1> HIDE DEF page1
  <1>6. Shape(page') /\ page'.updates = {} /\ page'.active = page.active
    BY <1>1, <1>5 DEF MInv
  <1>7. \A r \in ObjectId : <<r, "LIFE">> # c /\ <<r, "MOVE_TARGET">> # c
    BY ZeroIsNobody
  <1>8. \A r \in ObjectId : kept'[<<r, "LIFE">>] = kept[<<r, "LIFE">>]
    BY <1>4, <1>7, LifeIsCell
  <1>9. LivesKnown'
    BY <1>1, <1>8, ZeroIsNobody DEF MInv, LivesKnown
  <1>10. SavedAsShown'
    <2> SUFFICES ASSUME channel = "open", NEW d \in Cell \ astray',
                        d[1] = Zero \/ (d[1] \in Own /\ kept'[<<d[1], "LIFE">>] = "live")
                 PROVE  Told(page', d) = kept'[d]
      BY <1>1 DEF SavedAsShown
    <2>1. page' = page1
      BY <1>1
    <2>2. CASE d = c
      <3>1. page'.shown[d] = v
        BY <1>5, <2>1, <2>2
      <3> QED
        BY <1>3, <1>4, <2>2, <3>1 DEF Told, Linked, Mumble
    <2>3. CASE d # c
      <3>1. d \notin astray /\ page'.shown[d] = page.shown[d] /\ kept'[d] = kept[d]
        BY <1>1, <1>4, <1>5, <2>1, <2>3
      <3>2. d[1] \in Own => kept'[<<d[1], "LIFE">>] = kept[<<d[1], "LIFE">>]
        BY <1>8, ZeroIsNobody
      <3>3. Told(page, d) = kept[d]
        BY <3>1, <3>2 DEF MInv, SavedAsShown
      <3> QED
        BY <3>1, <3>3 DEF Told, Linked
    <2> QED
      BY <2>2, <2>3
  <1>11. Driven'
    <2> SUFFICES ASSUME NEW r \in Own, Going(page', r) PROVE r \in page.active \cup halted
      BY <1>1, <1>6 DEF Driven, Going
    <2>1. r \in ObjectId /\ KindOf[r] = "token"
      BY ZeroIsNobody DEF Going, Is
    <2>2. <<r, "LIFE">> \in Cell /\ <<r, "MOVE_TARGET">> \in Cell
      BY <2>1, LifeIsCell, TargetIsCell
    <2>3. Going(page, r)
      BY <1>1, <1>5, <1>7, <2>1, <2>2 DEF Going, Is, Live, Target
    <2> QED
      BY <2>3 DEF MInv, Driven, Going
  <1> QED
    BY <1>4, <1>6, <1>9, <1>10, <1>11 DEF MInv

-----------------------------------------------------------------------------
(* The timer, the channel, the first state. *)
LEMMA FrameStep ==
    ASSUME MInv, SimulationFrame
    PROVE  MInv'
  <1> DEFINE p == Frame(page)
             there == {o \in OnTheWay(page) : Transform(page, o).at = Target(page, o)}
             going == OnTheWay(page) \ there
             changed == (there \X {"MOVE_TARGET"}) \cup (going \X {"TRANSFORM"})
             way(c) == IF c[2] = "MOVE_TARGET" THEN None
                       ELSE [at |-> Toward(Transform(page, c[1]).at, Target(page, c[1])),
                             front |-> Faces(page, c[1])]
  <1>1. /\ Shape(p) /\ p.updates = changed /\ p.active = going
        /\ p.shown = [c \in Cell |-> IF c \notin changed THEN page.shown[c] ELSE way(c)]
    BY DEF Frame, MInv, Shape
  <1>2. \A c \in changed : c[2] # "LIFE"
    OBVIOUS
  <1>3. ASSUME NEW r \in Own, Going(p, r)
        PROVE  Going(page, r)
    <2>1. r \in ObjectId /\ KindOf[r] = "token"
      BY <1>3, ZeroIsNobody DEF Going, Is
    <2>2. <<r, "LIFE">> \in Cell /\ <<r, "MOVE_TARGET">> \in Cell
      BY <2>1, LifeIsCell, TargetIsCell
    <2>3. p.shown[<<r, "LIFE">>] = page.shown[<<r, "LIFE">>]
      BY <1>1, <1>2, <2>2
    <2>4. <<r, "MOVE_TARGET">> \in changed => p.shown[<<r, "MOVE_TARGET">>] = None
      BY <1>1, <2>2
    <2>5. p.shown[<<r, "MOVE_TARGET">>] = page.shown[<<r, "MOVE_TARGET">>]
      BY <1>1, <1>3, <2>2, <2>4 DEF Going, Target
    <2> QED
      BY <1>3, <2>3, <2>5 DEF Going, Is, Live, Target
  <1>4. \A c \in Cell : p.shown[c] = page.shown[c] \/ c \in changed
    BY <1>1
  <1> HIDE DEF changed, p
  <1>5. From(p)
    BY <1>1, <1>2, <1>3, <1>4 DEF From, Part
  <1>6. Handle(p)
    BY DEF SimulationFrame, p
  <1> QED
    BY <1>5, <1>6, HandleStep

LEMMA ChannelStep ==
    ASSUME MInv, ChannelLost \/ ChannelOpen
    PROVE  MInv'
  <1>1. /\ UNCHANGED <<page, kept, halted>> /\ channel' \in {"none", "opening"}
        /\ channel' = "opening" => snapshot' = kept /\ astray' = {}
        /\ astray' \subseteq astray
    BY DEF ChannelLost, ChannelOpen
  <1>2. SnapshotSound'
    BY <1>1 DEF MInv, SnapshotSound
  <1>3. LivesKnown'
    BY <1>1 DEF MInv, LivesKnown
  <1>4. SavedAsShown'
    BY <1>1 DEF SavedAsShown
  <1>5. Driven'
    BY <1>1 DEF MInv, Driven, Is, Live, Target
  <1> QED
    BY <1>1, <1>2, <1>3, <1>4, <1>5 DEF MInv, Shape

LEMMA InitializeStep ==
    ASSUME MInv, Initialize
    PROVE  MInv'
  <1> DEFINE p == Initialized(page)
             sent == {o \in Own : KindOf[o] = "token" /\ snapshot[<<o, "LIFE">>] = "live"
                                   /\ snapshot[<<o, "MOVE_TARGET">>] # None}
  <1>1. /\ channel = "opening" /\ channel' = "open" /\ page' = Settled(p)
        /\ halted' = Halt(p) /\ UNCHANGED <<kept, astray>>
    BY DEF Initialize
  <1>2. DOMAIN snapshot = Cell /\ \A c \in Cell \ astray : snapshot[c] = kept[c]
    BY <1>1 DEF MInv, SnapshotSound
  <1>3. Shape(p) /\ p.shown = snapshot /\ p.active = page.active \cup sent
    BY <1>2 DEF Initialized, MInv, Shape
  <1>4. \A r \in Own : Going(p, r) => r \in p.active
    BY <1>3 DEF Going, Is, Live, Target
  <1> HIDE DEF p
  <1>5. Shape(page') /\ page'.updates = {} /\ page'.shown = snapshot /\ page'.active = p.active
    BY <1>1, <1>3, SettledFields
  <1>6. Driven'
    BY <1>1, <1>3, <1>4, <1>5, DrivenOn
  <1>7. SavedAsShown'
    <2> SUFFICES ASSUME NEW c \in Cell \ astray PROVE Told(page', c) = kept[c]
      BY <1>1 DEF SavedAsShown
    <2>1. page'.shown[c] = kept[c]
      BY <1>2, <1>5
    <2> QED
      BY <2>1 DEF Told, Linked, MInv, Mumble
  <1>8. SnapshotSound' /\ LivesKnown'
    BY <1>1 DEF MInv, SnapshotSound, LivesKnown
  <1> QED
    BY <1>1, <1>5, <1>6, <1>7, <1>8 DEF MInv

LEMMA MapInit == Init => MInv
  <1> SUFFICES ASSUME Init PROVE MInv
    OBVIOUS
  <1>1. /\ Shape(Empty) /\ Empty.updates = {} /\ Empty.action = None
        /\ \A c \in Cell : Empty.shown[c] = Default(c[2])
    BY DEF Empty, Shape
  <1>2. PICK m : page = [Empty EXCEPT !.mouse = m]
    BY DEF Init
  <1>3. Shape(page) /\ page.updates = {} /\ page.shown = Empty.shown
    BY <1>1, <1>2 DEF Shape
  <1>4. PICK s \in Born \cup {Zero}, locked \in SUBSET (Born \cap Own) :
            kept = [c \in Cell |->
                CASE c[2] = "LIFE" /\ c[1] \in Born -> "live"
                  [] c[2] = "LOCKED" -> c[1] \in locked
                  [] c[2] = "SELECTED" -> s
                  [] OTHER -> Default(c[2])]
    BY DEF Init
  <1>5. DOMAIN kept = Cell
    BY <1>4
  <1>6. kept[Mumble] = Zero
    BY <1>4, MumbleIsCell DEF Mumble, Default
  <1>7. Driven
    <2> SUFFICES ASSUME NEW r \in Own, Going(page, r) PROVE FALSE
      BY DEF Driven, Going
    <2>1. <<r, "MOVE_TARGET">> \in Cell
      BY TargetIsCell, ZeroIsNobody DEF Going, Is
    <2> QED
      BY <1>1, <1>3, <2>1 DEF Going, Target, Default
  <1> QED
    BY <1>3, <1>5, <1>6, <1>7, ZeroIsNobody
       DEF Init, MInv, SnapshotSound, LivesKnown, SavedAsShown

LEMMA MapNext == MInv /\ [Next]_vars => MInv'
  <1> SUFFICES ASSUME MInv, [Next]_vars PROVE MInv'
    OBVIOUS
  <1>1. CASE UNCHANGED vars
    BY <1>1 DEF vars, MInv, Shape, SnapshotSound, LivesKnown, SavedAsShown, Driven, Told, Linked,
                Is, Live, Target
  <1>2. CASE Pointer \/ KeyDown
    BY <1>2, PointerStep, KeyStep
  <1>3. CASE Message
    BY <1>3, MessageStep, PlainMessageStep, RemoveObjectStep DEF Message
  <1>4. CASE Others
    BY <1>4, ObjectCreatedStep, ObjectRemovedStep, ObjectUpdatedStep, ConfigUpdateStep DEF Others
  <1>5. CASE SimulationFrame \/ ChannelLost \/ ChannelOpen \/ Initialize
    BY <1>5, FrameStep, ChannelStep, InitializeStep
  <1> QED
    BY <1>1, <1>2, <1>3, <1>4, <1>5 DEF Next

(* While the channel is open, the page and the backend have the same of the user's objects
   and settings, whatever handlers run between what other pages and peers do, and for
   any objects: because every operator a handler is made of notes what it changes, and
   what is noted is sent or given up as `astray`. *)
THEOREM PageIsSaved == Spec => []SavedAsShown
  <1>1. MInv => SavedAsShown
    BY DEF MInv
  <1> QED
    BY <1>1, MapInit, MapNext, PTL DEF Spec

(* A token of the user that is on its way is simulated, unless a scale stopped it: each
   handler that gives a token a target puts it among those that are simulated, those
   that take one out begin a scale or remove it, and a snapshot brings back the rest. *)
THEOREM TokensAreDriven == Spec => []Driven
  <1>1. MInv => Driven
    BY DEF MInv
  <1> QED
    BY <1>1, MapInit, MapNext, PTL DEF Spec

-----------------------------------------------------------------------------
(* The types. The world has its ends, and ids their kinds: a page whose values fit stays one. *)
Deed == {a \in Gesture : KindOf[a.id] \in {"token", "static"}}

Modals == {"help", "settings", "remove", "unlock"} \X (ObjectId \cup {Zero})

Fits(p) ==
    /\ Shape(p)
    /\ \A c \in Cell : p.shown[c] \in Value(c[2])
    /\ p.updates \subseteq Cell
    /\ p.action \in Deed \cup {None}
    /\ p.active \subseteq ObjectId
    /\ p.modal \in Modals \cup {None}
    /\ p.menu \in ObjectId \cup {None}
    /\ p.mouse \in Place \cup {None}

LEMMA Values ==
    /\ Value("TRANSFORM") = [at : Place, front : Place]
    /\ Value("MOVE_TARGET") = Place \cup {None} /\ Value("LOOK_AT") = Place \cup {None}
    /\ Value("SIZE") = Place /\ Value("VIEW") = {0, 1}
    /\ Value("SELECTED") = ObjectId \cup {Zero}
    /\ Value("MUMBLE_OBJECT") = ObjectId \cup {Zero, Stray}
    /\ Value("MUMBLE_FOLLOW") = BOOLEAN
    /\ Value("LIFE") = {"unborn", "live", "gone"}
    /\ \A kind : \A k \in FlagsOf(kind) : Value(k) = BOOLEAN
  <1>1. \A kind : \A k \in FlagsOf(kind) : k \in {"LOCKED", "HIDDEN", "LOCAL_HIDDEN", "EXPANDED"}
    BY MapAssumption DEF FlagsOf
  <1> QED
    BY <1>1 DEF Value

LEMMA Cells ==
    /\ \A k \in Setting : <<Zero, k>> \in Cell
    /\ \A o \in ObjectId :
        /\ <<o, "LIFE">> \in Cell
        /\ \A k \in FlagsOf(KindOf[o]) : <<o, k>> \in Cell
        /\ KindOf[o] \in {"token", "static"} => <<o, "TRANSFORM">> \in Cell /\ <<o, "SIZE">> \in Cell
        /\ KindOf[o] = "token" => <<o, "MOVE_TARGET">> \in Cell /\ <<o, "LOOK_AT">> \in Cell
    /\ \A c \in Cell :
        /\ c = <<c[1], c[2]>>
        /\ (c[1] = Zero /\ c[2] \in Setting) \/ (c[1] \in ObjectId /\ c[2] \in KeysOf(KindOf[c[1]]))
  <1>1. \A k \in Setting : <<Zero, k>> \in Cell
    BY DEF Cell
  <1>2. ASSUME NEW o \in ObjectId, NEW k \in KeysOf(KindOf[o])
        PROVE  <<o, k>> \in Cell
    BY DEF Cell
  <1>3. ASSUME NEW o \in ObjectId
        PROVE  /\ "LIFE" \in KeysOf(KindOf[o]) /\ FlagsOf(KindOf[o]) \subseteq KeysOf(KindOf[o])
               /\ KindOf[o] \in {"token", "static"} => {"TRANSFORM", "SIZE"} \subseteq KeysOf(KindOf[o])
               /\ KindOf[o] = "token" => {"MOVE_TARGET", "LOOK_AT"} \subseteq KeysOf(KindOf[o])
    BY DEF KeysOf
  <1>4. \A c \in Cell :
            /\ c = <<c[1], c[2]>>
            /\ (c[1] = Zero /\ c[2] \in Setting) \/ (c[1] \in ObjectId /\ c[2] \in KeysOf(KindOf[c[1]]))
    BY DEF Cell
  <1> QED
    BY <1>1, <1>2, <1>3, <1>4

LEMMA Deeds ==
    /\ None \notin Deed
    /\ \A a \in Deed :
        /\ Gestural(a) /\ a.id \in Own /\ a.id \in ObjectId /\ KindOf[a.id] \in {"token", "static"}
        /\ a.do = "translate" => a.offset \in -MaxPlace..MaxPlace
        /\ a.do = "rotate" => a.center \in Place
        /\ a.do = "scale" => a.center \in Place /\ a.size \in Place
  <1>1. None \notin Deed
    BY NoneAssumption DEF Deed
  <1>2. ASSUME NEW a \in Deed
        PROVE  /\ Gestural(a) /\ a.id \in Own
               /\ a.do = "translate" => a.offset \in -MaxPlace..MaxPlace
               /\ a.do = "rotate" => a.center \in Place
               /\ a.do = "scale" => a.center \in Place /\ a.size \in Place
    BY DEF Deed, Gesture, Gestural
  <1> QED
    BY <1>1, <1>2, ZeroIsNobody DEF Deed

(* Deeds one by one. *)
LEMMA DeedsOf ==
    ASSUME NEW id \in Own, KindOf[id] \in {"token", "static"}
    PROVE  /\ \A x \in -MaxPlace..MaxPlace : [do |-> "translate", id |-> id, offset |-> x] \in Deed
           /\ \A x \in Place : [do |-> "rotate", id |-> id, center |-> x] \in Deed
           /\ \A x, y \in Place : [do |-> "scale", id |-> id, center |-> x, size |-> y] \in Deed
  BY DEF Deed, Gesture

(* What the page has beside the cells. *)
Aside(p, q) ==
    /\ q.active = p.active /\ q.action = p.action
    /\ q.modal = p.modal /\ q.menu = p.menu /\ q.mouse = p.mouse

LEMMA FitsSet ==
    ASSUME NEW p, Fits(p), NEW o, NEW k, <<o, k>> \in Cell, NEW v \in Value(k)
    PROVE  Fits(Set(p, o, k, v)) /\ Aside(p, Set(p, o, k, v))
  <1> DEFINE q == Set(p, o, k, v)
  <1>1. /\ Shape(q) /\ q.updates = p.updates \cup {<<o, k>>}
        /\ \A c \in Cell : q.shown[c] = IF c = <<o, k>> THEN v ELSE p.shown[c]
    BY SetFields DEF Fits
  <1>2. Aside(p, q)
    BY DEF Set, Aside, Fits, Shape
  <1> HIDE DEF q
  <1>3. \A c \in Cell : q.shown[c] \in Value(c[2])
    BY <1>1 DEF Fits
  <1>4. Fits(q) /\ Aside(p, q)
    BY <1>1, <1>2, <1>3 DEF Fits, Aside
  <1> QED
    BY <1>4 DEF q

LEMMA FitsParts ==
    ASSUME NEW p, Fits(p)
    PROVE  /\ Fits(NoAction(p)) /\ NoAction(p).mouse = p.mouse /\ NoAction(p).action = None
           /\ \A o \in ObjectId : Fits(Active(p, o)) /\ Active(p, o).mouse = p.mouse
           /\ \A o : Fits([p EXCEPT !.active = @ \ {o}])
           /\ \A a \in Deed : Fits([p EXCEPT !.action = a]) /\ [p EXCEPT !.action = a].mouse = p.mouse
           /\ \A m \in Modals \cup {None} : Fits([p EXCEPT !.modal = m])
           /\ \A m \in ObjectId \cup {None} : Fits([p EXCEPT !.menu = m])
           /\ \A m \in Place \cup {None} : Fits([p EXCEPT !.mouse = m])
           /\ \A b \in BOOLEAN : Fits([p EXCEPT !.panning = b])
  <1>1. Fits(NoAction(p)) /\ NoAction(p).mouse = p.mouse /\ NoAction(p).action = None
    BY DEF Fits, Shape, NoAction
  <1>2. ASSUME NEW o \in ObjectId
        PROVE  Fits(Active(p, o)) /\ Active(p, o).mouse = p.mouse
    BY DEF Fits, Shape, Active
  <1>3. ASSUME NEW o
        PROVE  Fits([p EXCEPT !.active = @ \ {o}])
    BY DEF Fits, Shape
  <1>4. ASSUME NEW a \in Deed
        PROVE  Fits([p EXCEPT !.action = a]) /\ [p EXCEPT !.action = a].mouse = p.mouse
    BY Deeds DEF Fits, Shape
  <1>5. ASSUME NEW m \in Modals \cup {None}
        PROVE  Fits([p EXCEPT !.modal = m])
    BY DEF Fits, Shape
  <1>6. ASSUME NEW m \in ObjectId \cup {None}
        PROVE  Fits([p EXCEPT !.menu = m])
    BY DEF Fits, Shape
  <1>7. ASSUME NEW m \in Place \cup {None}
        PROVE  Fits([p EXCEPT !.mouse = m])
    BY DEF Fits, Shape
  <1>8. ASSUME NEW b \in BOOLEAN
        PROVE  Fits([p EXCEPT !.panning = b])
    BY DEF Fits, Shape
  <1> QED
    BY <1>1, <1>2, <1>3, <1>4, <1>5, <1>6, <1>7, <1>8

(* Of finitely many objects one is on top. *)
LEMMA TopOf ==
    ASSUME NEW S \in SUBSET ObjectId, S # {}
    PROVE  (CHOOSE o \in S : \A q \in S : q <= o) \in S
  <1>1. IsFiniteSet(S) /\ S \subseteq Nat
    BY MapAssumption, FS_Subset
  <1>2. \E o \in S : \A q \in S : q <= o
    BY <1>1, GreatestNumber
  <1> QED
    BY <1>2

LEMMA HitIsObject ==
    ASSUME NEW p, NEW m
    PROVE  Hit(p, m) \in ObjectId \cup {Zero}
  <1> DEFINE under == {o \in ObjectId : Is(p, o, {"token", "static"}) /\ Transform(p, o).at = m}
  <1>1. under \in SUBSET ObjectId
    OBVIOUS
  <1>2. under # {} => (CHOOSE o \in under : \A q \in under : q <= o) \in under
    <2> HIDE DEF under
    <2> QED
      BY <1>1, TopOf
  <1>3. Hit(p, m) = IF under = {} THEN Zero ELSE CHOOSE o \in under : \A q \in under : q <= o
    BY DEF Hit
  <1> HIDE DEF under
  <1> QED
    BY <1>1, <1>2, <1>3

(* The operators of the handlers. *)
LEMMA FitsSelect ==
    ASSUME NEW p, Fits(p), NEW id \in ObjectId \cup {Zero}
    PROVE  Fits(SelectObject(p, id))
  <1> DEFINE noted == Set(p, Zero, "SELECTED", id)
             modal == IF noted.modal = <<"remove", id>> THEN None ELSE noted.modal
             closed == [noted EXCEPT !.menu = None]
             chosen == [closed EXCEPT !.modal = modal]
             linked == Set(chosen, Zero, "MUMBLE_OBJECT", id)
  <1>0. <<Zero, "SELECTED">> \in Cell /\ <<Zero, "MUMBLE_OBJECT">> \in Cell
    BY Cells DEF Setting
  <1>1. Fits(noted)
    BY <1>0, Values, FitsSet
  <1>2. Fits(closed)
    <2> HIDE DEF noted
    <2> QED
      BY <1>1, FitsParts
  <1>3. Fits(chosen)
    <2>1. modal \in Modals \cup {None}
      <3> HIDE DEF noted
      <3> QED
        BY <1>1 DEF Fits
    <2> HIDE DEF closed, modal
    <2> QED
      BY <1>2, <2>1, FitsParts
  <1>4. Fits(linked)
    <2>1. id \in Value("MUMBLE_OBJECT")
      BY Values
    <2> HIDE DEF chosen
    <2> QED
      BY <1>0, <1>3, <2>1, FitsSet
  <1>5. chosen = [noted EXCEPT !.menu = None, !.modal = IF @ = <<"remove", id>> THEN None ELSE @]
    <2> HIDE DEF noted
    <2> QED
      BY <1>1 DEF Fits, Shape
  <1>6. SelectObject(p, id) \in {p, chosen, linked}
    <2> DEFINE straight == [noted EXCEPT !.menu = None,
                                         !.modal = IF @ = <<"remove", id>> THEN None ELSE @]
    <2>1. SelectObject(p, id) \in {p, straight, Set(straight, Zero, "MUMBLE_OBJECT", id)}
      BY DEF SelectObject
    <2>2. straight = chosen
      BY <1>5
    <2> HIDE DEF straight, chosen
    <2> QED
      BY <2>1, <2>2
  <1> HIDE DEF chosen, linked
  <1> QED
    BY <1>3, <1>4, <1>6

LEMMA FitsFinalized ==
    ASSUME NEW p, Fits(p)
    PROVE  Fits(Finalized(p)) /\ Finalized(p).mouse = p.mouse /\ Finalized(p).action = None
  <1> DEFINE a == p.action
             sized == Set(p, a.id, "SIZE", a.size)
  <1>1. CASE a # None /\ a.do = "scale"
    <2>1. a \in Deed
      BY <1>1 DEF Fits
    <2>2. a.size \in Value("SIZE") /\ <<a.id, "SIZE">> \in Cell
      BY <1>1, <2>1, Deeds, Cells, Values
    <2>3. Fits(sized) /\ sized.mouse = p.mouse
      BY <2>2, FitsSet DEF Aside
    <2>4. Finalized(p) \in {NoAction(p), NoAction(sized)}
      BY DEF Finalized
    <2> HIDE DEF sized
    <2> QED
      BY <2>3, <2>4, FitsParts
  <1>2. CASE ~(a # None /\ a.do = "scale")
    <2>1. Finalized(p) = NoAction(p)
      BY <1>2 DEF Finalized
    <2> QED
      BY <2>1, FitsParts
  <1> QED
    BY <1>1, <1>2

LEMMA FitsTurned ==
    ASSUME NEW p, Fits(p), NEW a \in Deed, NEW m \in Place
    PROVE  Fits(Turned(p, a, m)) /\ Turned(p, a, m).action = p.action
  <1> DEFINE turned == Set(p, a.id, "TRANSFORM", [Transform(p, a.id) EXCEPT !.front = m])
             looking == Set(turned, a.id, "LOOK_AT", m)
  <1>1. a.id \in ObjectId /\ KindOf[a.id] \in {"token", "static"} /\ <<a.id, "TRANSFORM">> \in Cell
    BY Deeds, Cells
  <1>2. Transform(p, a.id) \in [at : Place, front : Place]
    BY <1>1, Values DEF Fits, Transform
  <1>3. [Transform(p, a.id) EXCEPT !.front = m] \in Value("TRANSFORM")
    BY <1>2, Values
  <1>4. Fits(turned) /\ turned.action = p.action
    BY <1>1, <1>3, FitsSet DEF Aside
  <1> HIDE DEF turned
  <1>5. KindOf[a.id] = "token" => Fits(looking) /\ looking.action = p.action
    <2>1. KindOf[a.id] = "token" => <<a.id, "LOOK_AT">> \in Cell /\ m \in Value("LOOK_AT")
      BY <1>1, Cells, Values
    <2> QED
      BY <1>4, <2>1, FitsSet DEF Aside
  <1>6. Turned(p, a, m) \in {p, turned} \/ (KindOf[a.id] = "token" /\ Turned(p, a, m) = looking)
    BY DEF Turned, turned
  <1> HIDE DEF looking
  <1> QED
    BY <1>4, <1>5, <1>6

LEMMA FitsMoved ==
    ASSUME NEW p, Fits(p), NEW a \in Deed, NEW m \in Place, m + a.offset \in Place
    PROVE  Fits(Moved(p, a, m)) /\ Moved(p, a, m).action = p.action
  <1> DEFINE put == Set(p, a.id, "TRANSFORM", [Transform(p, a.id) EXCEPT !.at = m + a.offset])
             sent == Set(p, a.id, "MOVE_TARGET", m)
  <1>1. a.id \in ObjectId /\ KindOf[a.id] \in {"token", "static"} /\ <<a.id, "TRANSFORM">> \in Cell
    BY Deeds, Cells
  <1>2. Transform(p, a.id) \in [at : Place, front : Place]
    BY <1>1, Values DEF Fits, Transform
  <1>3. [Transform(p, a.id) EXCEPT !.at = m + a.offset] \in Value("TRANSFORM")
    BY <1>2, Values
  <1>4. Fits(put) /\ put.action = p.action
    BY <1>1, <1>3, FitsSet DEF Aside
  <1>5. KindOf[a.id] # "static" => Fits(Active(sent, a.id)) /\ Active(sent, a.id).action = p.action
    <2> SUFFICES ASSUME KindOf[a.id] # "static"
                 PROVE  Fits(Active(sent, a.id)) /\ Active(sent, a.id).action = p.action
      OBVIOUS
    <2>1. <<a.id, "MOVE_TARGET">> \in Cell /\ m \in Value("MOVE_TARGET")
      BY <1>1, Cells, Values
    <2>2. Fits(sent) /\ sent.action = p.action
      BY <2>1, FitsSet DEF Aside
    <2> HIDE DEF sent
    <2>3. Active(sent, a.id).action = sent.action
      BY <2>2 DEF Active, Fits, Shape
    <2> QED
      BY <1>1, <2>2, <2>3, FitsParts
  <1>6. \/ Moved(p, a, m) \in {p, put}
        \/ KindOf[a.id] # "static" /\ Moved(p, a, m) = Active(sent, a.id)
    BY DEF Moved
  <1> HIDE DEF put, sent
  <1> QED
    BY <1>4, <1>5, <1>6

(* Which object is acted upon, and how. *)
On(p) == IF p.action = None THEN <<>> ELSE <<p.action.do, p.action.id>>

(* What is dragged stays in the world. *)
Within(p, m) == p.action # None /\ p.action.do = "translate" => m + p.action.offset \in Place

LEMMA FitsApply ==
    ASSUME NEW p, Fits(p), NEW m \in Place, Within(p, m)
    PROVE  Fits(Apply(p, m)) /\ On(Apply(p, m)) = On(p)
  <1> DEFINE a == p.action
  <1>1. CASE a = None
    BY <1>1 DEF Apply
  <1>2. CASE a # None
    <2>1. a \in Deed /\ a.do \in {"translate", "rotate", "scale"}
      BY <1>2, Deeds DEF Fits, Gestural
    <2>2. CASE a.do = "rotate"
      <3>1. Apply(p, m) = Turned(p, a, m)
        BY <1>2, <2>2 DEF Apply
      <3> QED
        BY <2>1, <3>1, FitsTurned DEF On
    <2>3. CASE a.do = "translate"
      <3>1. Apply(p, m) = Moved(p, a, m)
        BY <1>2, <2>3 DEF Apply
      <3> QED
        BY <1>2, <2>1, <2>3, <3>1, FitsMoved DEF On, Within
    <2>4. CASE a.do = "scale"
      <3> DEFINE d == Distance(a.center, m)
                 b == [a EXCEPT !.size = d]
                 q == [p EXCEPT !.action = b]
      <3>1. a.center \in Place /\ a.size \in Place
        BY <2>1, <2>4, Deeds
      <3>2. d \in Place
        <4>1. MaxPlace \in Nat
          BY MapAssumption
        <4> QED
          BY <3>1, <4>1 DEF Distance, Place
      <3>3. b \in Deed /\ b.do = a.do /\ b.id = a.id
        <4> HIDE DEF d
        <4>1. a \in [do : {"scale"}, id : Own, center : Place, size : Place]
          BY <2>1, <2>4 DEF Deed, Gesture
        <4> QED
          BY <2>1, <3>2, <4>1 DEF Deed, Gesture
      <3>4. Apply(p, m) \in {p, q}
        BY <1>2, <2>4 DEF Apply
      <3> HIDE DEF b
      <3>5. Fits(q) /\ q.action = b
        BY <3>3, FitsParts DEF Fits, Shape
      <3> HIDE DEF q
      <3> QED
        BY <1>2, <3>3, <3>4, <3>5, Deeds DEF On
    <2> QED
      BY <2>1, <2>2, <2>3, <2>4
  <1> QED
    BY <1>1, <1>2

LEMMA FitsBegin ==
    ASSUME NEW p, Fits(p), NEW a \in Deed, p.mouse # None,
           a.do = "translate" => p.mouse + a.offset \in Place
    PROVE  Fits(Begin(p, a)) /\ On(Begin(p, a)) = <<a.do, a.id>>
  <1> DEFINE e == Finalized(p)
             f == [e EXCEPT !.action = a]
  <1>1. Fits(e) /\ e.mouse = p.mouse
    BY FitsFinalized
  <1> HIDE DEF e
  <1>2. Fits(f) /\ f.mouse = p.mouse /\ f.action = a
    BY <1>1, FitsParts DEF Fits, Shape
  <1>3. Begin(p, a) = Apply(f, p.mouse)
    BY DEF Begin, e
  <1> HIDE DEF f
  <1>4. p.mouse \in Place /\ Within(f, p.mouse)
    BY <1>2 DEF Fits, Within
  <1>5. On(f) = <<a.do, a.id>>
    BY <1>2, Deeds DEF On
  <1> QED
    BY <1>2, <1>3, <1>4, <1>5, FitsApply

LEMMA AbleIs ==
    ASSUME NEW p, Fits(p), NEW id, Able(p, id)
    PROVE  /\ id \in Own /\ id \in ObjectId /\ KindOf[id] \in {"token", "static"}
           /\ p.mouse \in Place /\ p.mouse # None /\ Transform(p, id).at \in Place
           /\ p.shown[<<id, "SIZE">>] \in Place
  <1>1. id \in Own /\ id \in ObjectId /\ KindOf[id] \in {"token", "static"} /\ p.mouse # None
    BY ZeroIsNobody DEF Able, Is
  <1>2. <<id, "TRANSFORM">> \in Cell /\ <<id, "SIZE">> \in Cell
    BY <1>1, Cells
  <1>3. Transform(p, id) \in [at : Place, front : Place] /\ p.shown[<<id, "SIZE">>] \in Place
    BY <1>2, Values DEF Fits, Transform
  <1> QED
    BY <1>1, <1>3 DEF Fits

LEMMA FitsTranslate ==
    ASSUME NEW p, Fits(p), NEW id
    PROVE  Fits(StartTranslate(p, id))
  <1> DEFINE noted == Set(p, id, "MOVE_TARGET", p.mouse)
             sent == Active(noted, id)
             a == [do |-> "translate", id |-> id, offset |-> Transform(p, id).at - p.mouse]
             b == [do |-> "translate", id |-> id, offset |-> 0]
  <1>1. CASE ~Able(p, id)
    BY <1>1 DEF StartTranslate
  <1>2. CASE Able(p, id)
    <2>1. /\ id \in Own /\ id \in ObjectId /\ KindOf[id] \in {"token", "static"}
          /\ p.mouse \in Place /\ p.mouse # None /\ Transform(p, id).at \in Place
      BY <1>2, AbleIs
    <2>2. /\ Transform(p, id).at - p.mouse \in -MaxPlace..MaxPlace /\ 0 \in -MaxPlace..MaxPlace
          /\ p.mouse + (Transform(p, id).at - p.mouse) \in Place /\ p.mouse + 0 \in Place
      <3>1. MaxPlace \in Nat
        BY MapAssumption
      <3> QED
        BY <2>1, <3>1 DEF Place
    <2>3. a \in Deed /\ b \in Deed
      BY <2>1, <2>2, DeedsOf
    <2>4. CASE KindOf[id] = "static"
      <3>1. StartTranslate(p, id) = Begin(p, a)
        BY <1>2, <2>4 DEF StartTranslate
      <3>2. a.offset = Transform(p, id).at - p.mouse
        OBVIOUS
      <3> HIDE DEF a
      <3> QED
        BY <2>1, <2>2, <2>3, <3>1, <3>2, FitsBegin
    <2>5. CASE KindOf[id] # "static"
      <3>1. StartTranslate(p, id) = Begin(sent, b)
        BY <1>2, <2>5 DEF StartTranslate
      <3>2. b.offset = 0
        OBVIOUS
      <3>3. <<id, "MOVE_TARGET">> \in Cell /\ p.mouse \in Value("MOVE_TARGET")
        BY <2>1, <2>5, Cells, Values
      <3>4. Fits(noted) /\ noted.mouse = p.mouse
        BY <3>3, FitsSet DEF Aside
      <3> HIDE DEF b, noted
      <3>5. Fits(sent) /\ sent.mouse = p.mouse
        BY <2>1, <3>4, FitsParts
      <3> HIDE DEF sent
      <3> QED
        BY <2>1, <2>2, <2>3, <3>1, <3>2, <3>5, FitsBegin
    <2> QED
      BY <2>4, <2>5
  <1> QED
    BY <1>1, <1>2

LEMMA FitsRotation ==
    ASSUME NEW p, Fits(p), NEW id
    PROVE  Fits(StartRotation(p, id))
  <1> DEFINE a == [do |-> "rotate", id |-> id, center |-> Transform(p, id).at]
  <1>1. CASE ~Able(p, id)
    BY <1>1 DEF StartRotation
  <1>2. CASE Able(p, id)
    <2>1. a \in Deed /\ a.do = "rotate" /\ p.mouse # None
      BY <1>2, AbleIs, DeedsOf
    <2>2. StartRotation(p, id) = Begin(p, a)
      BY <1>2 DEF StartRotation
    <2> HIDE DEF a
    <2> QED
      BY <2>1, <2>2, FitsBegin
  <1> QED
    BY <1>1, <1>2

LEMMA FitsScale ==
    ASSUME NEW p, Fits(p), NEW id
    PROVE  Fits(StartScale(p, id))
  <1> DEFINE e == [p EXCEPT !.active = @ \ {id}]
             a == [do |-> "scale", id |-> id, center |-> Transform(p, id).at,
                   size |-> p.shown[<<id, "SIZE">>]]
  <1>1. CASE ~Able(p, id)
    BY <1>1 DEF StartScale
  <1>2. CASE Able(p, id)
    <2>1. a \in Deed /\ a.do = "scale" /\ p.mouse # None
      BY <1>2, AbleIs, DeedsOf
    <2>2. StartScale(p, id) = Begin(e, a)
      BY <1>2 DEF StartScale
    <2>3. Fits(e) /\ e.mouse = p.mouse
      BY FitsParts DEF Fits, Shape
    <2> HIDE DEF a, e
    <2> QED
      BY <2>1, <2>2, <2>3, FitsBegin
  <1> QED
    BY <1>1, <1>2

LEMMA FitsHit ==
    ASSUME NEW p, Fits(p), NEW m
    PROVE  Fits(StartTranslateOnHit(p, m))
  <1> DEFINE chosen == SelectObject(p, Hit(p, m))
  <1>1. Fits(chosen)
    BY HitIsObject, FitsSelect
  <1>2. \E q \in {p, chosen} : StartTranslateOnHit(p, m) \in {q, StartTranslate(q, Selected(q))}
    BY DEF StartTranslateOnHit
  <1> HIDE DEF chosen
  <1> QED
    BY <1>1, <1>2, FitsTranslate

-----------------------------------------------------------------------------
(* What gestures touch. From p to q no object is locked or comes or goes, and where an
   object is, where it is sent and how large it is changes only of `ids`. *)
Spots == {"TRANSFORM", "MOVE_TARGET", "SIZE"}

Touches(p, q, ids) ==
    \A c \in Cell : q.shown[c] # p.shown[c] =>
        c[2] \notin {"LOCKED", "LIFE"} /\ (c[2] \in Spots => c[1] \in ids)

Ids(p) == IF p.action = None THEN {} ELSE {p.action.id}

Gestures(p, q) ==
    /\ Touches(p, q, Ids(p) \cup Ids(q))
    /\ On(q) \notin {<<>>, On(p)} => q.action.id \in Own /\ ~IsLocked(p, q.action.id)

LEMMA TouchesOn ==
    /\ \A p, q, ids : q.shown = p.shown => Touches(p, q, ids)
    /\ \A p, q, ids, more : Touches(p, q, ids) /\ ids \subseteq more => Touches(p, q, more)
    /\ \A p, q, r, ids : Touches(p, q, ids) /\ Touches(q, r, ids) => Touches(p, r, ids)
  <1>1. ASSUME NEW p, NEW q, NEW r, NEW ids, Touches(p, q, ids), Touches(q, r, ids)
        PROVE  Touches(p, r, ids)
    <2> SUFFICES ASSUME NEW c \in Cell, r.shown[c] # p.shown[c]
                 PROVE  c[2] \notin {"LOCKED", "LIFE"} /\ (c[2] \in Spots => c[1] \in ids)
      BY DEF Touches
    <2>1. r.shown[c] # q.shown[c] \/ q.shown[c] # p.shown[c]
      OBVIOUS
    <2> QED
      BY <1>1, <2>1 DEF Touches
  <1> QED
    BY <1>1 DEF Touches

LEMMA TouchesSet ==
    ASSUME NEW p, Shape(p), NEW o, NEW k, NEW v, NEW ids,
           k \notin {"LOCKED", "LIFE"}, k \in Spots => o \in ids
    PROVE  Touches(p, Set(p, o, k, v), ids)
  <1>1. \A c \in Cell : Set(p, o, k, v).shown[c] # p.shown[c] => c = <<o, k>>
    BY SetFields
  <1> QED
    BY <1>1 DEF Touches

(* An object is locked before as after. *)
LEMMA LockStays ==
    ASSUME NEW p, NEW q, NEW ids, Touches(p, q, ids), NEW o \in ObjectId
    PROVE  IsLocked(q, o) <=> IsLocked(p, o)
  <1>1. q.shown[<<o, "LIFE">>] = p.shown[<<o, "LIFE">>]
    BY LifeIsCell DEF Touches
  <1>2. "LOCKED" \in KeysOf(KindOf[o]) => <<o, "LOCKED">> \in Cell
    BY DEF Cell
  <1>3. "LOCKED" \in KeysOf(KindOf[o]) => q.shown[<<o, "LOCKED">>] = p.shown[<<o, "LOCKED">>]
    BY <1>2 DEF Touches
  <1> QED
    BY <1>1, <1>3 DEF IsLocked, Live

(* A gesture goes on from what was chosen before it. *)
LEMMA GesturesFrom ==
    ASSUME NEW p, NEW e, Touches(p, e, {}), On(e) \in {On(p), <<>>}, Ids(e) \subseteq Ids(p),
           NEW q, Gestures(e, q)
    PROVE  Gestures(p, q)
  <1> DEFINE ids == Ids(p) \cup Ids(q)
  <1>1. Touches(p, e, ids) /\ Touches(e, q, ids)
    BY TouchesOn DEF Gestures
  <1>2. Touches(p, q, ids)
    BY <1>1, TouchesOn
  <1>3. ASSUME On(q) \notin {<<>>, On(p)}
        PROVE  q.action.id \in Own /\ ~IsLocked(p, q.action.id)
    <2>1. q.action.id \in Own /\ ~IsLocked(e, q.action.id)
      BY <1>3 DEF Gestures
    <2> QED
      BY <2>1, LockStays, ZeroIsNobody
  <1> QED
    BY <1>2, <1>3 DEF Gestures

LEMMA GesturesSame ==
    ASSUME NEW p, NEW q, Touches(p, q, Ids(p)), On(q) \in {On(p), <<>>}
    PROVE  Gestures(p, q)
  <1>1. Touches(p, q, Ids(p) \cup Ids(q))
    BY TouchesOn
  <1> QED
    BY <1>1 DEF Gestures

LEMMA TouchesSelect ==
    ASSUME NEW p, Shape(p), NEW id
    PROVE  Touches(p, SelectObject(p, id), {}) /\ SelectObject(p, id).action = p.action
  <1> DEFINE noted == Set(p, Zero, "SELECTED", id)
             chosen == [noted EXCEPT !.menu = None,
                                     !.modal = IF @ = <<"remove", id>> THEN None ELSE @]
             linked == Set(chosen, Zero, "MUMBLE_OBJECT", id)
  <1>1. Touches(p, noted, {}) /\ Shape(noted) /\ noted.action = p.action
    BY TouchesSet, SetFields DEF Spots
  <1>2. Shape(chosen) /\ chosen.shown = noted.shown /\ chosen.action = p.action
    <2> HIDE DEF noted
    <2> QED
      BY <1>1 DEF Shape
  <1>3. Touches(p, chosen, {})
    <2> HIDE DEF chosen, noted
    <2> QED
      BY <1>1, <1>2, TouchesOn
  <1>4. Touches(p, linked, {}) /\ linked.action = p.action
    <2> HIDE DEF chosen
    <2>1. Touches(chosen, linked, {}) /\ linked.action = p.action
      BY <1>2, TouchesSet, SetFields DEF Spots
    <2> HIDE DEF linked
    <2> QED
      BY <1>3, <2>1, TouchesOn
  <1>5. SelectObject(p, id) \in {p, chosen, linked}
    BY DEF SelectObject
  <1>6. Touches(p, p, {})
    BY TouchesOn
  <1> HIDE DEF chosen, linked
  <1> QED
    BY <1>2, <1>3, <1>4, <1>5, <1>6

LEMMA TouchesFinalized ==
    ASSUME NEW p, Fits(p)
    PROVE  Touches(p, Finalized(p), Ids(p))
  <1> DEFINE a == p.action
             sized == Set(p, a.id, "SIZE", a.size)
  <1>0. Shape(p)
    BY DEF Fits
  <1>1. Touches(p, NoAction(p), Ids(p))
    BY <1>0, TouchesOn DEF NoAction, Shape
  <1>2. CASE a # None
    <2>1. Touches(p, sized, Ids(p)) /\ Shape(sized)
      BY <1>0, <1>2, TouchesSet, SetFields DEF Ids
    <2> HIDE DEF sized
    <2>2. NoAction(sized).shown = sized.shown
      BY <2>1 DEF NoAction, Shape
    <2>3. Touches(p, NoAction(sized), Ids(p))
      BY <2>1, <2>2, TouchesOn
    <2>4. Finalized(p) \in {NoAction(p), NoAction(sized)}
      BY DEF Finalized, sized
    <2> QED
      BY <1>1, <2>3, <2>4
  <1>3. CASE a = None
    <2>1. Finalized(p) = NoAction(p)
      BY <1>3 DEF Finalized
    <2> QED
      BY <1>1, <2>1
  <1> QED
    BY <1>2, <1>3

LEMMA TouchesApply ==
    ASSUME NEW p, Fits(p), NEW m
    PROVE  Touches(p, Apply(p, m), Ids(p))
  <1> DEFINE a == p.action
             ids == {a.id}
  <1>0. Shape(p) /\ Touches(p, p, Ids(p))
    BY TouchesOn DEF Fits
  <1>1. CASE a = None
    BY <1>0, <1>1 DEF Apply
  <1>2. CASE a # None
    <2>1. a \in Deed /\ a.do \in {"translate", "rotate", "scale"} /\ Ids(p) = ids
      BY <1>2, Deeds DEF Fits, Gestural, Ids
    <2>2. CASE a.do = "rotate"
      <3> DEFINE turned == Set(p, a.id, "TRANSFORM", [Transform(p, a.id) EXCEPT !.front = m])
                 looking == Set(turned, a.id, "LOOK_AT", m)
      <3>1. Touches(p, turned, ids) /\ Shape(turned)
        BY <1>0, TouchesSet, SetFields
      <3>2. Touches(p, looking, ids)
        <4> HIDE DEF turned
        <4>1. Touches(turned, looking, ids)
          BY <3>1, TouchesSet
        <4> HIDE DEF looking
        <4> QED
          BY <3>1, <4>1, TouchesOn
      <3>3. Apply(p, m) \in {p, turned, looking}
        BY <1>2, <2>2 DEF Apply, Turned
      <3> HIDE DEF turned, looking
      <3> QED
        BY <1>0, <2>1, <3>1, <3>2, <3>3
    <2>3. CASE a.do = "translate"
      <3> DEFINE put == Set(p, a.id, "TRANSFORM", [Transform(p, a.id) EXCEPT !.at = m + a.offset])
                 sent == Set(p, a.id, "MOVE_TARGET", m)
                 off == Active(sent, a.id)
      <3>1. Touches(p, put, ids) /\ Touches(p, sent, ids) /\ Shape(sent)
        BY <1>0, TouchesSet, SetFields
      <3>2. off.shown = sent.shown
        <4> HIDE DEF sent
        <4> QED
          BY <3>1 DEF Active, Shape
      <3>3. Apply(p, m) \in {p, put, off}
        BY <1>2, <2>3 DEF Apply, Moved
      <3> HIDE DEF put, sent, off
      <3>4. Touches(p, off, ids)
        BY <3>1, <3>2, TouchesOn
      <3> QED
        BY <1>0, <2>1, <3>1, <3>3, <3>4
    <2>4. CASE a.do = "scale"
      <3> DEFINE q == [p EXCEPT !.action.size = Distance(a.center, m)]
      <3>1. q.shown = p.shown
        BY <1>0 DEF Shape
      <3>2. Apply(p, m) \in {p, q}
        BY <1>2, <2>4 DEF Apply
      <3> HIDE DEF q
      <3>3. Touches(p, q, ids)
        BY <3>1, TouchesOn
      <3> QED
        BY <1>0, <2>1, <3>2, <3>3
    <2> QED
      BY <2>1, <2>2, <2>3, <2>4
  <1> QED
    BY <1>1, <1>2

LEMMA TouchesBegin ==
    ASSUME NEW p, Fits(p), NEW a \in Deed
    PROVE  Touches(p, Begin(p, a), Ids(p) \cup {a.id})
  <1> DEFINE e == Finalized(p)
             f == [e EXCEPT !.action = a]
             ids == Ids(p) \cup {a.id}
  <1>1. Fits(e) /\ Touches(p, e, ids)
    BY FitsFinalized, TouchesFinalized, TouchesOn
  <1> HIDE DEF e
  <1>2. Fits(f) /\ f.shown = e.shown /\ f.action = a
    BY <1>1, FitsParts DEF Fits, Shape
  <1>3. Begin(p, a) = Apply(f, p.mouse)
    BY DEF Begin, e
  <1> HIDE DEF f
  <1>4. Touches(f, Apply(f, p.mouse), ids)
    <2>1. Ids(f) = {a.id}
      BY <1>2, Deeds DEF Ids
    <2>2. Touches(f, Apply(f, p.mouse), Ids(f))
      BY <1>2, TouchesApply
    <2> QED
      BY <2>1, <2>2, TouchesOn
  <1>5. Touches(p, f, ids)
    BY <1>1, <1>2, TouchesOn
  <1> QED
    BY <1>3, <1>4, <1>5, TouchesOn

(* A gesture that begins. *)
LEMMA GesturesBegin ==
    ASSUME NEW p, Fits(p), NEW id \in Own, ~IsLocked(p, id),
           NEW e, Fits(e), Touches(p, e, {id}), e.action = p.action, e.mouse = p.mouse,
           NEW a \in Deed, a.id = id, p.mouse # None,
           a.do = "translate" => p.mouse + a.offset \in Place
    PROVE  Gestures(p, Begin(e, a))
  <1> DEFINE q == Begin(e, a)
             ids == Ids(p) \cup {id}
  <1>1. On(q) = <<a.do, a.id>> /\ Touches(e, q, ids)
    <2>1. Ids(e) = Ids(p)
      BY DEF Ids
    <2> QED
      BY <2>1, FitsBegin, TouchesBegin
  <1> HIDE DEF q
  <1>2. q.action # None /\ q.action.id = id
    BY <1>1 DEF On
  <1>3. Touches(p, e, ids)
    BY TouchesOn
  <1>4. Touches(p, q, ids)
    BY <1>1, <1>3, TouchesOn
  <1>5. Ids(q) = {id}
    BY <1>2 DEF Ids
  <1>6. Gestures(p, q)
    BY <1>2, <1>4, <1>5 DEF Gestures
  <1> QED
    BY <1>6 DEF q

LEMMA GesturesStart ==
    ASSUME NEW p, Fits(p), NEW id
    PROVE  /\ Gestures(p, StartTranslate(p, id))
           /\ Gestures(p, StartRotation(p, id))
           /\ Gestures(p, StartScale(p, id))
  <1>0. Gestures(p, p)
    BY GesturesSame, TouchesOn
  <1>1. CASE ~Able(p, id)
    BY <1>0, <1>1 DEF StartTranslate, StartRotation, StartScale
  <1>2. CASE Able(p, id)
    <2>1. /\ id \in Own /\ id \in ObjectId /\ KindOf[id] \in {"token", "static"}
          /\ p.mouse \in Place /\ p.mouse # None /\ Transform(p, id).at \in Place
          /\ p.shown[<<id, "SIZE">>] \in Place /\ ~IsLocked(p, id) /\ Touches(p, p, {id})
      BY <1>2, AbleIs, TouchesOn DEF Able
    <2>2. /\ Transform(p, id).at - p.mouse \in -MaxPlace..MaxPlace /\ 0 \in -MaxPlace..MaxPlace
          /\ p.mouse + (Transform(p, id).at - p.mouse) \in Place /\ p.mouse + 0 \in Place
      <3>1. MaxPlace \in Nat
        BY MapAssumption
      <3> QED
        BY <2>1, <3>1 DEF Place
    <2>3. Gestures(p, StartRotation(p, id))
      <3> DEFINE a == [do |-> "rotate", id |-> id, center |-> Transform(p, id).at]
      <3>1. a \in Deed /\ a.do = "rotate" /\ a.id = id
        BY <2>1, DeedsOf
      <3>2. StartRotation(p, id) = Begin(p, a)
        BY <1>2 DEF StartRotation
      <3> HIDE DEF a
      <3> QED
        BY <2>1, <3>1, <3>2, GesturesBegin
    <2>4. Gestures(p, StartScale(p, id))
      <3> DEFINE a == [do |-> "scale", id |-> id, center |-> Transform(p, id).at,
                       size |-> p.shown[<<id, "SIZE">>]]
                 e == [p EXCEPT !.active = @ \ {id}]
      <3>1. a \in Deed /\ a.do = "scale" /\ a.id = id
        BY <2>1, DeedsOf
      <3>2. StartScale(p, id) = Begin(e, a)
        BY <1>2 DEF StartScale
      <3>3. Fits(e) /\ e.shown = p.shown /\ e.action = p.action /\ e.mouse = p.mouse
        BY FitsParts DEF Fits, Shape
      <3> HIDE DEF a, e
      <3>4. Touches(p, e, {id})
        BY <3>3, TouchesOn
      <3> QED
        BY <2>1, <3>1, <3>2, <3>3, <3>4, GesturesBegin
    <2>5. Gestures(p, StartTranslate(p, id))
      <3> DEFINE noted == Set(p, id, "MOVE_TARGET", p.mouse)
                 sent == Active(noted, id)
                 a == [do |-> "translate", id |-> id, offset |-> Transform(p, id).at - p.mouse]
                 b == [do |-> "translate", id |-> id, offset |-> 0]
      <3>1. a \in Deed /\ b \in Deed /\ a.id = id /\ b.id = id
            /\ a.offset = Transform(p, id).at - p.mouse /\ b.offset = 0
        BY <2>1, <2>2, DeedsOf
      <3>2. CASE KindOf[id] = "static"
        <4>1. StartTranslate(p, id) = Begin(p, a)
          BY <1>2, <3>2 DEF StartTranslate
        <4> HIDE DEF a
        <4> QED
          BY <2>1, <2>2, <3>1, <4>1, GesturesBegin
      <3>3. CASE KindOf[id] # "static"
        <4>1. StartTranslate(p, id) = Begin(sent, b)
          BY <1>2, <3>3 DEF StartTranslate
        <4>2. <<id, "MOVE_TARGET">> \in Cell /\ p.mouse \in Value("MOVE_TARGET")
          BY <2>1, <3>3, Cells, Values
        <4>3. Fits(noted) /\ noted.mouse = p.mouse /\ noted.action = p.action
          BY <4>2, FitsSet DEF Aside
        <4>4. Touches(p, noted, {id})
          BY TouchesSet DEF Fits
        <4> HIDE DEF b, noted
        <4>5. Fits(sent) /\ sent.mouse = p.mouse /\ sent.shown = noted.shown /\ sent.action = p.action
          BY <2>1, <4>3, FitsParts DEF Active, Fits, Shape
        <4> HIDE DEF sent
        <4>6. Touches(p, sent, {id})
          BY <4>4, <4>5, TouchesOn
        <4> QED
          BY <2>1, <2>2, <3>1, <4>1, <4>5, <4>6, GesturesBegin
      <3> QED
        BY <3>2, <3>3
    <2> QED
      BY <2>3, <2>4, <2>5
  <1> QED
    BY <1>1, <1>2

LEMMA GesturesHit ==
    ASSUME NEW p, Fits(p), NEW m
    PROVE  Gestures(p, StartTranslateOnHit(p, m))
  <1> DEFINE chosen == SelectObject(p, Hit(p, m))
  <1>0. Fits(p) /\ Touches(p, p, {})
    BY TouchesOn
  <1>1. Fits(chosen) /\ Touches(p, chosen, {}) /\ chosen.action = p.action
    BY HitIsObject, FitsSelect, TouchesSelect DEF Fits
  <1>2. \E q \in {p, chosen} : StartTranslateOnHit(p, m) \in {q, StartTranslate(q, Selected(q))}
    BY DEF StartTranslateOnHit
  <1> HIDE DEF chosen
  <1>3. ASSUME NEW q \in {p, chosen}
        PROVE  Gestures(p, q) /\ Gestures(p, StartTranslate(q, Selected(q)))
    <2>1. Fits(q) /\ Touches(p, q, {}) /\ q.action = p.action
      BY <1>0, <1>1
    <2>2. On(q) = On(p) /\ Ids(q) = Ids(p)
      BY <2>1 DEF On, Ids
    <2>3. Gestures(q, q) /\ Gestures(q, StartTranslate(q, Selected(q)))
      BY <2>1, GesturesSame, GesturesStart, TouchesOn
    <2> QED
      BY <2>1, <2>2, <2>3, GesturesFrom
  <1> QED
    BY <1>2, <1>3

-----------------------------------------------------------------------------
(* What each handler does to the types, and with gestures. *)
Store(f) ==
    /\ f \in [Cell -> UNION {Value(c[2]) : c \in Cell}]
    /\ \A c \in Cell : f[c] \in Value(c[2])

TInv ==
    /\ Fits(page) /\ page.updates = {}
    /\ page.active # {} => page.interval
    /\ Store(kept)
    /\ channel \in {"none", "opening", "open"}
    /\ IF channel = "opening" THEN Store(snapshot) ELSE snapshot = None
    /\ astray \subseteq Cell

LEMMA StoreOf ==
    ASSUME NEW f, f = [c \in Cell |-> f[c]], \A c \in Cell : f[c] \in Value(c[2])
    PROVE  Store(f)
  BY DEF Store

LEMMA SettledFits ==
    ASSUME NEW p, Fits(p)
    PROVE  /\ Fits(Settled(p)) /\ Settled(p).updates = {}
           /\ Settled(p).active # {} => Settled(p).interval
           /\ Settled(p).shown = p.shown /\ Settled(p).action = p.action
  <1>1. Shape(p) /\ Shape(Settled(p)) /\ Settled(p).shown = p.shown /\ Settled(p).updates = {}
    BY SettledFields DEF Fits
  <1>2. /\ Settled(p).action = p.action /\ Settled(p).active = p.active
        /\ Settled(p).modal = p.modal /\ Settled(p).menu = p.menu /\ Settled(p).mouse = p.mouse
        /\ Settled(p).interval = (p.interval \/ p.active # {})
    BY <1>1 DEF Settled, Shape
  <1>3. Settled(p).active # {} => Settled(p).interval
    BY <1>2, Zenon
  <1> QED
    BY <1>1, <1>2, <1>3 DEF Fits

LEMMA KeepFits ==
    ASSUME TInv, NEW p, Fits(p)
    PROVE  Store(Keep(p)) /\ Sent(p) \subseteq Cell
  <1>1. ASSUME NEW c \in Cell
        PROVE  Told(p, c) \in Value(c[2]) /\ kept[c] \in Value(c[2])
    <2>1. c = <<Zero, "MUMBLE_OBJECT">> => Stray \in Value(c[2])
      BY Values
    <2> QED
      BY <2>1 DEF Told, Fits, TInv, Store
  <1>2. \A c \in Cell : Keep(p)[c] \in Value(c[2])
    BY <1>1 DEF Keep
  <1>3. Keep(p) = [c \in Cell |-> Keep(p)[c]]
    BY DEF Keep
  <1> QED
    BY <1>2, <1>3, StoreOf DEF Sent, Fits

LEMMA HandleFits ==
    ASSUME TInv, NEW p, Fits(p), Handle(p)
    PROVE  TInv'
  <1>1. Fits(page') /\ page'.updates = {} /\ (page'.active # {} => page'.interval)
    BY SettledFits DEF Handle
  <1>2. Store(kept') /\ Sent(p) \subseteq Cell
    BY KeepFits DEF Handle
  <1>3. astray' \subseteq Cell
    BY <1>2 DEF Handle, TInv
  <1>4. UNCHANGED <<snapshot, channel>>
    BY DEF Handle
  <1> QED
    BY <1>1, <1>2, <1>3, <1>4 DEF TInv

(* A handler makes q of the page; its gestures are allowed. *)
Made(q) == Handle(q) /\ Fits(q) /\ Gestures(page, q)

(* The page before the handler proper: only the mouse, the menu and the like are changed,
   or the action is dropped. *)
Before(e) ==
    /\ Fits(e) /\ e.shown = page.shown
    /\ e.action \in {page.action, None}

LEMMA FromBefore ==
    ASSUME NEW e, Before(e), NEW q, User(q), Fits(q), Gestures(e, q)
    PROVE  Made(q)
  <1>1. Touches(page, e, {}) /\ On(e) \in {On(page), <<>>} /\ Ids(e) \subseteq Ids(page)
    BY TouchesOn DEF Before, On, Ids
  <1>2. Gestures(page, q)
    BY <1>1, GesturesFrom
  <1> QED
    BY <1>2 DEF Made, User

LEMMA BeforeOnly ==
    ASSUME NEW e, Before(e), User(e)
    PROVE  Made(e)
  <1>1. Gestures(e, e)
    BY TouchesOn, GesturesSame
  <1> QED
    BY <1>1, FromBefore DEF Before

(* A cell that is no object's place. *)
LEMMA BeforeSet ==
    ASSUME NEW e, Before(e), NEW o, NEW k, <<o, k>> \in Cell, NEW v \in Value(k),
           k \notin Spots \cup {"LOCKED", "LIFE"}
    PROVE  /\ Fits(Set(e, o, k, v)) /\ Gestures(e, Set(e, o, k, v))
           /\ Set(e, o, k, v).action = e.action /\ Touches(e, Set(e, o, k, v), {})
  <1> DEFINE q == Set(e, o, k, v)
  <1>1. Fits(q) /\ q.action = e.action
    BY FitsSet DEF Before, Aside
  <1>2. Touches(e, q, {})
    BY TouchesSet DEF Before, Fits
  <1> HIDE DEF q
  <1>3. Gestures(e, q)
    <2>1. Touches(e, q, Ids(e))
      BY <1>2, TouchesOn
    <2>2. On(q) = On(e)
      BY <1>1 DEF On
    <2> QED
      BY <2>1, <2>2, GesturesSame
  <1> QED
    BY <1>1, <1>2, <1>3 DEF q

LEMMA BeforeParts ==
    ASSUME NEW e, Before(e)
    PROVE  /\ \A m \in Modals \cup {None} : Before([e EXCEPT !.modal = m])
           /\ \A m \in ObjectId \cup {None} : Before([e EXCEPT !.menu = m])
           /\ \A m \in Place \cup {None} : Before([e EXCEPT !.mouse = m])
           /\ \A b \in BOOLEAN : Before([e EXCEPT !.panning = b])
           /\ Before(NoAction(e))
  <1>0. Fits(e) /\ Shape(e)
    BY DEF Before, Fits
  <1>1. ASSUME NEW m \in Modals \cup {None}
        PROVE  Before([e EXCEPT !.modal = m])
    BY <1>0, FitsParts DEF Before, Shape
  <1>2. ASSUME NEW m \in ObjectId \cup {None}
        PROVE  Before([e EXCEPT !.menu = m])
    BY <1>0, FitsParts DEF Before, Shape
  <1>3. ASSUME NEW m \in Place \cup {None}
        PROVE  Before([e EXCEPT !.mouse = m])
    BY <1>0, FitsParts DEF Before, Shape
  <1>4. ASSUME NEW b \in BOOLEAN
        PROVE  Before([e EXCEPT !.panning = b])
    BY <1>0, FitsParts DEF Before, Shape
  <1>5. Before(NoAction(e))
    BY <1>0, FitsParts DEF Before, Shape, NoAction
  <1> QED
    BY <1>1, <1>2, <1>3, <1>4, <1>5

LEMMA PageBefore ==
    ASSUME TInv
    PROVE  Before(page)
  BY DEF TInv, Before

LEMMA FinalizedGestures ==
    ASSUME NEW e, Fits(e)
    PROVE  Fits(Finalized(e)) /\ Gestures(e, Finalized(e))
  <1>1. Fits(Finalized(e)) /\ On(Finalized(e)) = <<>> /\ Touches(e, Finalized(e), Ids(e))
    BY FitsFinalized, TouchesFinalized DEF On
  <1> QED
    BY <1>1, GesturesSame

LEMMA PointerMade ==
    ASSUME TInv, Pointer
    PROVE  \E q : Made(q)
  <1>0. Before(page)
    BY PageBefore
  <1>1. ASSUME NEW m \in Place, PointerDown(m)
        PROVE  \E q : Made(q)
    <2> DEFINE p == [page EXCEPT !.menu = None]
               d == NoAction(p)
               e == [d EXCEPT !.mouse = m]
    <2>1. Before(p)
      BY <1>0, BeforeParts
    <2>2. User(Finalized(p)) \/ User(StartTranslateOnHit(e, m))
      BY <1>1 DEF PointerDown
    <2> HIDE DEF p
    <2>3. Before(d)
      BY <2>1, BeforeParts
    <2> HIDE DEF d
    <2>4. Before(e)
      BY <2>3, BeforeParts
    <2> HIDE DEF e
    <2>5. Fits(p) /\ Fits(e)
      BY <2>1, <2>4 DEF Before
    <2> QED
      BY <2>1, <2>2, <2>4, <2>5, FinalizedGestures, FitsHit, GesturesHit, FromBefore
  <1>2. ASSUME NEW m \in Place, ShiftPointerDown(m)
        PROVE  \E q : Made(q)
    <2> DEFINE d == [page EXCEPT !.menu = None]
               e == [d EXCEPT !.mouse = m]
    <2>1. Before(d)
      BY <1>0, BeforeParts
    <2>2. e = [page EXCEPT !.menu = None, !.mouse = m]
      BY <1>0 DEF Before, Fits, Shape
    <2> HIDE DEF d
    <2>3. Before(e) /\ Fits(e)
      BY <2>1, BeforeParts DEF Before
    <2> HIDE DEF e
    <2>4. User(StartRotation(e, Selected(e)))
      BY <1>2, <2>2 DEF ShiftPointerDown
    <2> QED
      BY <2>3, <2>4, FitsRotation, GesturesStart, FromBefore
  <1>3. ASSUME NEW m \in Place, PointerMove(m)
        PROVE  \E q : Made(q)
    <2> DEFINE p == [page EXCEPT !.mouse = m]
               q == Set(p, Zero, "VIEW", 1 - p.shown[<<Zero, "VIEW">>])
    <2>1. Before(p) /\ p.action = page.action
      BY <1>0, BeforeParts DEF Before, Fits, Shape
    <2>2. User(Apply(p, m)) \/ User(Apply(q, m))
      BY <1>3 DEF PointerMove
    <2>3. Within(page, m)
      <3>1. p.action # None /\ p.action.do = "translate" => m + p.action.offset \in Place
        BY <1>3 DEF PointerMove
      <3> QED
        BY <2>1, <3>1 DEF Within
    <2> HIDE DEF p
    <2>4. Fits(q) /\ q.action = p.action /\ Touches(p, q, {})
      <3>1. <<Zero, "VIEW">> \in Cell
        BY Cells DEF Setting
      <3>2. p.shown[<<Zero, "VIEW">>] \in {0, 1}
        BY <2>1, <3>1, Values DEF Before, Fits
      <3>3. 1 - p.shown[<<Zero, "VIEW">>] \in Value("VIEW")
        BY <3>2, Values
      <3> QED
        BY <2>1, <3>1, <3>3, BeforeSet DEF Spots
    <2> HIDE DEF q
    <2>5. ASSUME NEW r, Fits(r), r.action = p.action, Touches(p, r, {}), User(Apply(r, m))
          PROVE  Made(Apply(r, m))
      <3>1. Within(r, m) /\ On(r) = On(p) /\ Ids(r) = Ids(p)
        BY <2>1, <2>3, <2>5 DEF Within, On, Ids
      <3>2. Fits(Apply(r, m)) /\ On(Apply(r, m)) = On(r) /\ Touches(r, Apply(r, m), Ids(r))
        BY <2>5, <3>1, FitsApply, TouchesApply
      <3>3. Gestures(r, Apply(r, m))
        BY <3>2, GesturesSame
      <3>4. Gestures(p, Apply(r, m))
        BY <2>5, <3>1, <3>3, GesturesFrom
      <3> QED
        BY <2>1, <2>5, <3>2, <3>4, FromBefore
    <2>6. Fits(p) /\ Touches(p, p, {})
      BY <2>1, TouchesOn DEF Before
    <2> QED
      BY <2>2, <2>4, <2>5, <2>6
  <1>4. ASSUME NEW m \in Place, OpenContextMenu(m)
        PROVE  \E q : Made(q)
    <2> DEFINE hit == Hit(page, m)
               noted == Set(page, Zero, "SELECTED", hit)
               q == [noted EXCEPT !.menu = hit]
    <2>1. \/ User([page EXCEPT !.menu = None])
          \/ hit # Zero /\ User([page EXCEPT !.menu = hit])
          \/ hit # Zero /\ User(q)
      <3> DEFINE closed == [page EXCEPT !.menu = None]
                 opened == [page EXCEPT !.menu = hit]
      <3>1. User(IF hit = Zero THEN closed ELSE IF Selected(page) = hit THEN opened ELSE q)
        BY <1>4 DEF OpenContextMenu
      <3> HIDE DEF hit, closed, opened, q
      <3>2. User(closed) \/ (hit # Zero /\ User(opened)) \/ (hit # Zero /\ User(q))
        <4>1. CASE hit = Zero
          BY <3>1, <4>1
        <4>2. CASE hit # Zero /\ Selected(page) = hit
          BY <3>1, <4>2
        <4>3. CASE hit # Zero /\ Selected(page) # hit
          BY <3>1, <4>3
        <4> QED
          BY <4>1, <4>2, <4>3
      <3> QED
        BY <3>2 DEF closed, opened
    <2>2. hit \in ObjectId \cup {Zero}
      BY HitIsObject
    <2> HIDE DEF hit
    <2>3. Before([page EXCEPT !.menu = None]) /\ (hit # Zero => Before([page EXCEPT !.menu = hit]))
      BY <1>0, <2>2, BeforeParts
    <2>4. Fits(noted) /\ noted.action = page.action /\ Touches(page, noted, {})
      <3>1. <<Zero, "SELECTED">> \in Cell /\ hit \in Value("SELECTED")
        BY <2>2, Cells, Values DEF Setting
      <3> QED
        BY <1>0, <3>1, BeforeSet DEF Spots
    <2> HIDE DEF noted
    <2>5. ASSUME hit # Zero
          PROVE  Fits(q) /\ Gestures(page, q)
      <3>1. Fits(q) /\ q.shown = noted.shown /\ q.action = page.action
        BY <2>2, <2>4, <2>5, FitsParts DEF Fits, Shape
      <3> HIDE DEF q
      <3>2. Touches(noted, q, {})
        BY <3>1, TouchesOn
      <3>3. Touches(page, q, {})
        BY <2>4, <3>2, TouchesOn
      <3>4. Touches(page, q, Ids(page)) /\ On(q) = On(page)
        BY <3>1, <3>3, TouchesOn DEF On
      <3> QED
        BY <3>1, <3>4, GesturesSame
    <2> HIDE DEF q
    <2> QED
      BY <1>0, <2>1, <2>3, <2>5, BeforeOnly, FromBefore
  <1>5. CASE MiddlePointerDown \/ MiddlePointerUp \/ PointerLeave \/ CloseContextMenu
    <2> DEFINE d == [page EXCEPT !.menu = None]
               l == NoAction(page)
               k == [l EXCEPT !.panning = FALSE]
    <2>1. Before(d) /\ Before(l) /\ Before([page EXCEPT !.panning = FALSE])
      BY <1>0, BeforeParts
    <2>2. /\ [d EXCEPT !.panning = TRUE] = [page EXCEPT !.menu = None, !.panning = TRUE]
          /\ [k EXCEPT !.mouse = None]
                = [page EXCEPT !.action = None, !.panning = FALSE, !.mouse = None]
      BY <1>0 DEF Before, Fits, Shape, NoAction
    <2>3. \/ User(d) \/ User([d EXCEPT !.panning = TRUE]) \/ User([page EXCEPT !.panning = FALSE])
          \/ User([k EXCEPT !.mouse = None])
      BY <1>5, <2>2 DEF MiddlePointerDown, MiddlePointerUp, PointerLeave, CloseContextMenu
    <2> HIDE DEF d, l
    <2>4. Before(k) /\ Before([d EXCEPT !.panning = TRUE])
      BY <2>1, BeforeParts
    <2> HIDE DEF k
    <2>5. Before([k EXCEPT !.mouse = None])
      BY <2>4, BeforeParts
    <2> QED
      BY <2>1, <2>3, <2>4, <2>5, BeforeOnly
  <1>6. CASE PointerUp
    BY <1>0, <1>6, FinalizedGestures, FromBefore DEF PointerUp, Before
  <1>7. CASE Wheel
    <2> DEFINE v == 1 - page.shown[<<Zero, "VIEW">>]
    <2>1. <<Zero, "VIEW">> \in Cell
      BY Cells DEF Setting
    <2>2. page.shown[<<Zero, "VIEW">>] \in {0, 1}
      BY <1>0, <2>1, Values DEF Before, Fits
    <2>3. v \in Value("VIEW")
      BY <2>2, Values
    <2>4. User(Set(page, Zero, "VIEW", v))
      BY <1>7 DEF Wheel
    <2> HIDE DEF v
    <2> QED
      BY <1>0, <2>1, <2>3, <2>4, BeforeSet, FromBefore DEF Spots
  <1> QED
    BY <1>1, <1>2, <1>3, <1>4, <1>5, <1>6, <1>7 DEF Pointer

LEMMA KeyMade ==
    ASSUME TInv, KeyDown
    PROVE  \E q : Made(q)
  <1>0. Before(page) /\ Fits(page)
    BY PageBefore DEF Before
  <1>1. CASE Escape
    <2> DEFINE noted == Set(page, Zero, "SELECTED", Zero)
    <2>1. \E p \in {NoAction(page), [page EXCEPT !.modal = None], [page EXCEPT !.menu = None],
                    page, noted} : User(p)
      BY <1>1 DEF Escape
    <2>2. Fits(noted) /\ Gestures(page, noted)
      <3>1. <<Zero, "SELECTED">> \in Cell /\ Zero \in Value("SELECTED")
        BY Cells, Values DEF Setting
      <3> QED
        BY <1>0, <3>1, BeforeSet DEF Spots
    <2>3. Before(NoAction(page)) /\ Before([page EXCEPT !.modal = None])
          /\ Before([page EXCEPT !.menu = None])
      BY <1>0, BeforeParts
    <2> HIDE DEF noted
    <2> QED
      BY <1>0, <2>1, <2>2, <2>3, BeforeOnly, FromBefore
  <1>2. CASE HelpKey
    <2> DEFINE asked == IF page.modal = <<"help", Zero>> THEN None ELSE <<"help", Zero>>
    <2>1. User([page EXCEPT !.modal = asked])
      BY <1>2 DEF HelpKey
    <2>2. asked \in Modals \cup {None}
      BY DEF Modals
    <2> HIDE DEF asked
    <2> QED
      BY <1>0, <2>1, <2>2, BeforeParts, BeforeOnly
  <1>3. CASE TranslateKey
    BY <1>0, <1>3, FitsTranslate, GesturesStart, FromBefore DEF TranslateKey
  <1>4. CASE RotateKey
    BY <1>0, <1>4, FitsRotation, GesturesStart, FromBefore DEF RotateKey
  <1>5. CASE ScaleKey
    BY <1>0, <1>5, FitsScale, GesturesStart, FromBefore DEF ScaleKey
  <1>6. CASE ShiftUp
    <2> DEFINE p == NoAction(page)
               a == page.action
               free == Set(p, a.id, "LOOK_AT", None)
    <2>1. User(p) \/ (a # None /\ Is(p, a.id, {"token"}) /\ User(free))
      BY <1>6 DEF ShiftUp
    <2>2. Before(p)
      BY <1>0, BeforeParts
    <2> HIDE DEF p
    <2>3. ASSUME a # None, Is(p, a.id, {"token"})
          PROVE  Fits(free) /\ Gestures(p, free)
      <3>1. a \in Deed
        BY <1>0, <2>3 DEF Fits
      <3>2. <<a.id, "LOOK_AT">> \in Cell /\ None \in Value("LOOK_AT")
        BY <2>3, <3>1, Deeds, Cells, Values DEF Is
      <3> QED
        BY <2>2, <3>2, BeforeSet DEF Spots
    <2> HIDE DEF free
    <2> QED
      BY <2>1, <2>2, <2>3, BeforeOnly, FromBefore
  <1> QED
    BY <1>1, <1>2, <1>3, <1>4, <1>5, <1>6 DEF KeyDown

(* Another message of the user, or a frame. *)
LEMMA UserFits ==
    ASSUME TInv, NEW p, User(p), Fits(p)
    PROVE  TInv'
  BY HandleFits DEF User

LEMMA AskFits ==
    ASSUME TInv, NEW o \in ObjectId, NEW what \in {"settings", "remove"}, Ask(what, o)
    PROVE  TInv'
  <1> DEFINE p == [page EXCEPT !.menu = None]
             m == <<IF IsLocked(p, o) THEN "unlock" ELSE what, o>>
             q == [p EXCEPT !.modal = m]
  <1>1. Fits(p)
    BY FitsParts DEF TInv
  <1>2. m \in Modals
    BY DEF Modals
  <1>3. User(p) \/ User(q)
    BY DEF Ask
  <1> HIDE DEF p, m
  <1>4. Fits(q)
    BY <1>1, <1>2, FitsParts
  <1> HIDE DEF q
  <1> QED
    BY <1>1, <1>3, <1>4, UserFits

LEMMA MessageFits ==
    ASSUME TInv, NEW o \in ObjectId,
           \/ SelectListed(o) \/ OpenSettings(o) \/ ConfirmRemove(o) \/ ToggleMumbleObject(o)
           \/ \E k \in {"LOCKED", "HIDDEN", "LOCAL_HIDDEN", "EXPANDED"} : Toggle(o, k)
    PROVE  TInv'
  <1> DEFINE e == [page EXCEPT !.menu = None]
  <1>0. Fits(page) /\ Fits(e)
    BY FitsParts DEF TInv
  <1> HIDE DEF e
  <1>1. CASE SelectListed(o)
    <2> DEFINE d == NoAction(page)
    <2>1. Fits(d) /\ User(SelectObject(d, o))
      BY <1>0, <1>1, FitsParts DEF SelectListed
    <2> HIDE DEF d
    <2> QED
      BY <2>1, FitsSelect, UserFits
  <1>2. CASE OpenSettings(o) \/ ConfirmRemove(o)
    BY <1>2, AskFits DEF OpenSettings, ConfirmRemove
  <1>3. CASE ToggleMumbleObject(o)
    <2> DEFINE v == IF Linked(page) = o THEN Zero ELSE o
    <2>1. User(Set(e, Zero, "MUMBLE_OBJECT", v))
      BY <1>3 DEF ToggleMumbleObject, e
    <2>2. v \in Value("MUMBLE_OBJECT") /\ <<Zero, "MUMBLE_OBJECT">> \in Cell
      BY Values, Cells DEF Setting
    <2> HIDE DEF v
    <2> QED
      BY <1>0, <2>1, <2>2, FitsSet, UserFits
  <1>4. ASSUME NEW k, Toggle(o, k)
        PROVE  TInv'
    <2>1. k \in FlagsOf(KindOf[o])
      BY <1>4 DEF Toggle
    <2>2. PICK p \in {page, e} : User(p) \/ User(Set(p, o, k, ~p.shown[<<o, k>>]))
      BY <1>4 DEF Toggle, e
    <2>3. Fits(p)
      BY <1>0
    <2>4. <<o, k>> \in Cell /\ Value(k) = BOOLEAN
      BY <2>1, Cells, Values
    <2>5. (~p.shown[<<o, k>>]) \in Value(k)
      <3>1. p.shown[<<o, k>>] \in BOOLEAN
        BY <2>3, <2>4 DEF Fits
      <3>2. \A b \in BOOLEAN : (~b) \in BOOLEAN
        BY Zenon
      <3> QED
        BY <2>4, <3>1, <3>2, Zenon
    <2> QED
      BY <2>2, <2>3, <2>4, <2>5, FitsSet, UserFits
  <1> QED
    BY <1>1, <1>2, <1>3, <1>4

LEMMA PlainMessageFits ==
    ASSUME TInv, CloseModal \/ ToggleFollow
    PROVE  TInv'
  <1>0. Fits(page)
    BY DEF TInv
  <1>1. CASE CloseModal
    <2> DEFINE q == [page EXCEPT !.modal = None]
    <2>1. Fits(q) /\ User(q)
      BY <1>0, <1>1, FitsParts DEF CloseModal
    <2> HIDE DEF q
    <2> QED
      BY <2>1, UserFits
  <1>2. CASE ToggleFollow
    <2> DEFINE v == ~page.shown[<<Zero, "MUMBLE_FOLLOW">>]
    <2>1. User(Set(page, Zero, "MUMBLE_FOLLOW", v))
      BY <1>2 DEF ToggleFollow
    <2>2. v \in Value("MUMBLE_FOLLOW") /\ <<Zero, "MUMBLE_FOLLOW">> \in Cell
      BY Values, Cells DEF Setting
    <2> HIDE DEF v
    <2> QED
      BY <1>0, <2>1, <2>2, FitsSet, UserFits
  <1> QED
    BY <1>1, <1>2

(* Objects come and go, and change elsewhere. *)
LEMMA FitsShown ==
    ASSUME NEW p, Fits(p), NEW o, NEW k, <<o, k>> \in Cell, NEW v \in Value(k)
    PROVE  Fits([p EXCEPT !.shown[<<o, k>>] = v])
  <1> DEFINE q == [p EXCEPT !.shown[<<o, k>>] = v]
  <1>1. Shape(q) /\ q.updates = p.updates /\ Aside(p, q)
    BY DEF Fits, Shape, Aside
  <1>2. \A c \in Cell : q.shown[c] = IF c = <<o, k>> THEN v ELSE p.shown[c]
    BY DEF Fits, Shape
  <1> HIDE DEF q
  <1>3. \A c \in Cell : q.shown[c] \in Value(c[2])
    BY <1>2 DEF Fits
  <1>4. Fits(q)
    BY <1>1, <1>3 DEF Fits, Aside
  <1> QED
    BY <1>4 DEF q

LEMMA StoreSet ==
    ASSUME NEW f, Store(f), NEW o, NEW k, <<o, k>> \in Cell, NEW v \in Value(k)
    PROVE  Store([f EXCEPT ![<<o, k>>] = v])
  <1> DEFINE g == [f EXCEPT ![<<o, k>>] = v]
  <1>1. g = [c \in Cell |-> g[c]]
    BY DEF Store
  <1>2. \A c \in Cell : g[c] = IF c = <<o, k>> THEN v ELSE f[c]
    BY DEF Store
  <1> HIDE DEF g
  <1>3. \A c \in Cell : g[c] \in Value(c[2])
    BY <1>2 DEF Store
  <1>4. Store(g)
    BY <1>1, <1>3, StoreOf
  <1> QED
    BY <1>4 DEF g

LEMMA FitsRemoved ==
    ASSUME NEW p, Fits(p), NEW o \in ObjectId
    PROVE  Fits(Removed(p, o))
  <1> DEFINE dead == [p EXCEPT !.shown[<<o, "LIFE">>] = "gone"]
             gone == [dead EXCEPT !.active = @ \ {o}]
             left == IF Selected(p) = o THEN SelectObject(gone, Zero) ELSE gone
  <1>1. Fits(dead)
    BY Cells, Values, FitsShown
  <1>2. gone = [p EXCEPT !.shown[<<o, "LIFE">>] = "gone", !.active = @ \ {o}]
    BY DEF Fits, Shape
  <1>3. Removed(p, o) = [left EXCEPT !.modal = None]
    BY <1>2 DEF Removed
  <1> HIDE DEF dead
  <1>4. Fits(gone)
    BY <1>1, FitsParts
  <1> HIDE DEF gone
  <1>5. Fits(left)
    BY <1>4, FitsSelect
  <1> HIDE DEF left
  <1>6. Fits([left EXCEPT !.modal = None])
    BY <1>5, FitsParts
  <1> QED
    BY <1>3, <1>6, Zenon

LEMMA RemoveObjectFits ==
    ASSUME TInv, NEW o \in ObjectId, RemoveObject(o)
    PROVE  TInv'
  <1> DEFINE p == Removed(page, o)
             lives == {c \in Cell : c[1] = o}
             life == IF o \in Own /\ channel # "none" THEN "gone" ELSE Keep(p)[<<o, "LIFE">>]
  <1>1. Fits(p)
    BY FitsRemoved DEF TInv
  <1>2. /\ page' = Settled(p)
        /\ kept' = [Keep(p) EXCEPT ![<<o, "LIFE">>] = life]
        /\ astray' \in {astray \cup Sent(p) \cup lives, astray \ (Sent(p) \cup lives), astray \ Sent(p)}
        /\ UNCHANGED <<snapshot, channel>>
    <2>1. /\ page' = Settled(p)
          /\ kept' = [Keep(p) EXCEPT ![<<o, "LIFE">>] = life]
          /\ UNCHANGED <<snapshot, channel>>
      BY DEF RemoveObject
    <2>2. astray' \in {astray \cup Sent(p) \cup lives, astray \ (Sent(p) \cup lives), astray \ Sent(p)}
      <3>1. astray' = CASE channel = "opening" -> astray \cup Sent(p) \cup lives
                        [] channel = "open" /\ o \in Own -> astray \ (Sent(p) \cup lives)
                        [] OTHER -> astray \ Sent(p)
        BY DEF RemoveObject
      <3> HIDE DEF p, lives
      <3> QED
        BY <3>1
    <2> QED
      BY <2>1, <2>2
  <1> HIDE DEF p
  <1>3. Store(Keep(p)) /\ Sent(p) \subseteq Cell
    BY <1>1, KeepFits
  <1>4. <<o, "LIFE">> \in Cell /\ life \in Value("LIFE")
    BY <1>3, Cells, Values, ZenonT(30) DEF Store
  <1> HIDE DEF life
  <1>5. Store(kept')
    BY <1>2, <1>3, <1>4, StoreSet
  <1>6. astray' \subseteq Cell
    BY <1>2, <1>3 DEF TInv
  <1>7. Fits(page') /\ page'.updates = {} /\ (page'.active # {} => page'.interval)
    BY <1>1, <1>2, SettledFits
  <1> QED
    BY <1>2, <1>5, <1>6, <1>7 DEF TInv

LEMMA ObjectRemovedFits ==
    ASSUME TInv, NEW o \in ObjectId, ObjectRemoved(o)
    PROVE  TInv'
  <1> DEFINE p == IF channel = "open" /\ page.shown[<<o, "LIFE">>] # "unborn" THEN Removed(page, o)
                  ELSE page
  <1>1. Fits(p)
    BY FitsRemoved DEF TInv
  <1>2. /\ page' = Settled(p) /\ kept' = [Keep(p) EXCEPT ![<<o, "LIFE">>] = "gone"]
        /\ astray' \subseteq astray /\ UNCHANGED <<snapshot, channel>>
    BY DEF ObjectRemoved
  <1> HIDE DEF p
  <1>3. Store(Keep(p))
    BY <1>1, KeepFits
  <1>4. Store(kept')
    BY <1>2, <1>3, Cells, Values, StoreSet
  <1>5. Fits(page') /\ page'.updates = {} /\ (page'.active # {} => page'.interval)
    BY <1>1, <1>2, SettledFits
  <1> QED
    BY <1>2, <1>4, <1>5 DEF TInv

LEMMA GivenValues ==
    /\ \A k : Default(k) \in Value(k)
    /\ \A k : OthersValue(k) \subseteq Value(k)
  <1>1. 0 \in Place /\ 1 \in Place /\ MaxPlace \in Place
    BY MapAssumption DEF Place
  <1>2. ASSUME NEW k
        PROVE  Default(k) \in Value(k)
    BY <1>1 DEF Default, Value
  <1>3. ASSUME NEW k
        PROVE  OthersValue(k) \subseteq Value(k)
    BY <1>1 DEF OthersValue, Value, ObjectId
  <1> QED
    BY <1>2, <1>3

LEMMA ObjectCreatedFits ==
    ASSUME TInv, NEW o \in ObjectId, ObjectCreated(o)
    PROVE  TInv'
  <1> DEFINE born == [c \in Cell |->
                        IF c[1] # o THEN kept[c] ELSE IF c[2] = "LIFE" THEN "live" ELSE Default(c[2])]
             shown == [c \in Cell |-> IF c[1] = o THEN born[c] ELSE page.shown[c]]
             q == [page EXCEPT !.shown = shown]
  <1>1. /\ kept' = born /\ page' = (IF channel = "open" THEN q ELSE page)
        /\ UNCHANGED <<snapshot, channel, astray>>
    BY DEF ObjectCreated
  <1>2. \A c \in Cell : born[c] \in Value(c[2])
    BY Values, GivenValues DEF TInv, Store
  <1>3. Store(born)
    <2>1. born = [c \in Cell |-> born[c]]
      OBVIOUS
    <2> HIDE DEF born
    <2> QED
      BY <1>2, <2>1, StoreOf
  <1> HIDE DEF born
  <1>4. \A c \in Cell : shown[c] \in Value(c[2])
    BY <1>2 DEF TInv, Fits
  <1>5. DOMAIN shown = Cell
    OBVIOUS
  <1> HIDE DEF shown
  <1>6. Fits(q) /\ q.updates = page.updates /\ q.active = page.active /\ q.interval = page.interval
    BY <1>4, <1>5 DEF TInv, Fits, Shape
  <1> HIDE DEF q
  <1> QED
    BY <1>1, <1>3, <1>6 DEF TInv

LEMMA ObjectUpdatedFits ==
    ASSUME TInv, NEW o \in ObjectId, NEW k, NEW v \in OthersValue(k), ObjectUpdated(o, k, v)
    PROVE  TInv'
  <1> DEFINE p == Updated(page, o, k, v)
             moved == [page EXCEPT !.shown[<<o, k>>] = v]
  <1>1. /\ <<o, k>> \in Cell /\ kept' = [kept EXCEPT ![<<o, k>>] = v]
        /\ page' \in {page, Settled(p)} /\ astray' \subseteq astray \cup {<<o, k>>}
        /\ UNCHANGED <<snapshot, channel>>
    BY DEF ObjectUpdated
  <1>2. v \in Value(k)
    BY GivenValues
  <1>3. Store(kept')
    BY <1>1, <1>2, StoreSet DEF TInv
  <1>4. Fits(moved) /\ Fits(page)
    BY <1>1, <1>2, FitsShown DEF TInv
  <1>5. p \in {page, moved, Active(page, o), Active(moved, o)}
    BY DEF Updated
  <1> HIDE DEF p, moved
  <1>6. Fits(p)
    BY <1>4, <1>5, FitsParts
  <1>7. Fits(page') /\ page'.updates = {} /\ (page'.active # {} => page'.interval)
    BY <1>1, <1>6, SettledFits DEF TInv
  <1> QED
    BY <1>1, <1>3, <1>7 DEF TInv

LEMMA ConfigUpdateFits ==
    ASSUME TInv, NEW k \in Setting, NEW v \in OthersValue(k), ConfigUpdate(k, v)
    PROVE  TInv'
  <1> DEFINE q == [page EXCEPT !.shown[<<Zero, k>>] = v]
  <1>1. v \in Value(k) /\ <<Zero, k>> \in Cell
    BY GivenValues, Cells
  <1>2. /\ kept' = [kept EXCEPT ![<<Zero, k>>] = v] /\ page' \in {page, q}
        /\ astray' \subseteq astray /\ UNCHANGED <<snapshot, channel>>
    BY DEF ConfigUpdate
  <1>3. Store(kept')
    BY <1>1, <1>2, StoreSet DEF TInv
  <1>4. Fits(q)
    BY <1>1, FitsShown DEF TInv
  <1>5. q.updates = page.updates /\ q.active = page.active /\ q.interval = page.interval
    BY DEF TInv, Fits, Shape
  <1> HIDE DEF q
  <1> QED
    BY <1>2, <1>3, <1>4, <1>5 DEF TInv

(* A frame moves no token out of the world. *)
LEMMA FitsFrame ==
    ASSUME NEW p, Fits(p)
    PROVE  Fits(Frame(p))
  <1> DEFINE there == {o \in OnTheWay(p) : Transform(p, o).at = Target(p, o)}
             going == OnTheWay(p) \ there
             changed == (there \X {"MOVE_TARGET"}) \cup (going \X {"TRANSFORM"})
             shown == [c \in Cell |->
                IF c \notin changed THEN p.shown[c]
                ELSE IF c[2] = "MOVE_TARGET" THEN None
                ELSE [at |-> Toward(Transform(p, c[1]).at, Target(p, c[1])), front |-> Faces(p, c[1])]]
             q == [p EXCEPT !.shown = shown, !.updates = changed, !.active = going,
                            !.interval = going # {}]
  <1>1. Frame(p) = q
    BY DEF Frame
  <1>2. ASSUME NEW o \in OnTheWay(p)
        PROVE  /\ o \in ObjectId /\ KindOf[o] = "token"
               /\ <<o, "MOVE_TARGET">> \in Cell /\ <<o, "TRANSFORM">> \in Cell
               /\ [at |-> Toward(Transform(p, o).at, Target(p, o)), front |-> Faces(p, o)]
                    \in Value("TRANSFORM")
    <2>1. o \in ObjectId /\ KindOf[o] = "token" /\ Target(p, o) # None
      BY DEF OnTheWay, Is, Fits
    <2>2. /\ <<o, "MOVE_TARGET">> \in Cell /\ <<o, "TRANSFORM">> \in Cell /\ <<o, "LOOK_AT">> \in Cell
      BY <2>1, Cells
    <2>3. Target(p, o) \in Place /\ Transform(p, o) \in [at : Place, front : Place]
      BY <2>1, <2>2, Values DEF Fits, Target, Transform
    <2>4. Faces(p, o) \in Place
      BY <2>2, <2>3, Values DEF Fits, Faces
    <2>5. Toward(Transform(p, o).at, Target(p, o)) \in Place
      <3>1. MaxPlace \in Nat /\ Transform(p, o).at \in Place
        BY <2>3, MapAssumption
      <3>2. \A a, b \in Place : Toward(a, b) \in Place
        BY <3>1 DEF Toward, Place
      <3> QED
        BY <2>3, <3>1, <3>2
    <2> QED
      BY <2>1, <2>2, <2>4, <2>5, Values
  <1>3. changed \subseteq Cell /\ going \subseteq ObjectId
    <2>1. there \subseteq OnTheWay(p) /\ going \subseteq OnTheWay(p)
      OBVIOUS
    <2> HIDE DEF there, going
    <2>2. ASSUME NEW c \in changed
          PROVE  c \in Cell
      <3>1. \E o \in OnTheWay(p) : c = <<o, "MOVE_TARGET">> \/ c = <<o, "TRANSFORM">>
        BY <2>1
      <3> QED
        BY <1>2, <3>1
    <2> QED
      BY <1>2, <2>1, <2>2
  <1>4. ASSUME NEW c \in Cell
        PROVE  shown[c] \in Value(c[2])
    <2>1. CASE c \notin changed
      BY <2>1 DEF Fits
    <2>2. CASE c \in there \X {"MOVE_TARGET"}
      BY <2>2, Values
    <2>3. CASE c \in going \X {"TRANSFORM"}
      <3>1. c[1] \in OnTheWay(p) /\ c[2] = "TRANSFORM" /\ c \in changed
        BY <2>3
      <3>2. shown[c] = [at |-> Toward(Transform(p, c[1]).at, Target(p, c[1])), front |-> Faces(p, c[1])]
        BY <3>1
      <3> QED
        BY <1>2, <3>1, <3>2
    <2> QED
      BY <2>1, <2>2, <2>3
  <1>5. DOMAIN shown = Cell
    OBVIOUS
  <1> HIDE DEF shown, changed, going
  <1>6. /\ Shape(q) /\ q.shown = shown /\ q.updates = changed /\ q.active = going
        /\ q.action = p.action /\ q.modal = p.modal /\ q.menu = p.menu /\ q.mouse = p.mouse
    BY <1>5 DEF Fits, Shape
  <1> HIDE DEF q
  <1> QED
    BY <1>1, <1>3, <1>4, <1>6 DEF Fits

(* A store is no None. *)
LEMMA StoreIsSome ==
    ASSUME NEW f, Store(f)
    PROVE  f # None
  BY NoneAssumption DEF Store

LEMMA ChannelFits ==
    ASSUME TInv, ChannelLost \/ ChannelOpen
    PROVE  TInv'
  BY DEF TInv, ChannelLost, ChannelOpen

LEMMA InitializeFits ==
    ASSUME TInv, Initialize
    PROVE  TInv'
  <1> DEFINE more == {o \in Own : KindOf[o] = "token" /\ snapshot[<<o, "LIFE">>] = "live"
                                    /\ snapshot[<<o, "MOVE_TARGET">>] # None}
             q == [page EXCEPT !.shown = snapshot, !.active = @ \cup more]
  <1>1. more \subseteq ObjectId
    BY ZeroIsNobody
  <1>2. Initialized(page) = q
    BY DEF Initialized
  <1>3. Store(snapshot)
    BY DEF TInv, Initialize
  <1> HIDE DEF more
  <1>4. Fits(q)
    <2>1. /\ Shape(q) /\ q.shown = snapshot /\ q.updates = page.updates /\ q.active = page.active \cup more
          /\ q.action = page.action /\ q.modal = page.modal /\ q.menu = page.menu /\ q.mouse = page.mouse
      BY <1>3 DEF TInv, Fits, Shape, Store
    <2> HIDE DEF q
    <2> QED
      BY <1>1, <1>3, <2>1 DEF TInv, Fits, Store
  <1> HIDE DEF q
  <1>5. Fits(page') /\ page'.updates = {} /\ (page'.active # {} => page'.interval)
    BY <1>2, <1>4, SettledFits DEF Initialize
  <1> QED
    BY <1>5 DEF TInv, Initialize

LEMMA TypesInit == Init => TInv
  <1> SUFFICES ASSUME Init PROVE TInv
    OBVIOUS
  <1>1. PICK m \in {None, MaxPlace} : page = [Empty EXCEPT !.mouse = m]
    BY DEF Init
  <1>2. MaxPlace \in Place
    BY MapAssumption DEF Place
  <1>3. Fits(page) /\ page.updates = {} /\ page.active = {}
    <2>1. \A c \in Cell : Default(c[2]) \in Value(c[2])
      BY GivenValues
    <2> QED
      BY <1>1, <1>2, <2>1 DEF Empty, Fits, Shape
  <1>4. Store(kept)
    <2>1. PICK s \in Born \cup {Zero}, locked \in SUBSET (Born \cap Own) :
            kept = [c \in Cell |->
                CASE c[2] = "LIFE" /\ c[1] \in Born -> "live"
                  [] c[2] = "LOCKED" -> c[1] \in locked
                  [] c[2] = "SELECTED" -> s
                  [] OTHER -> Default(c[2])]
      BY DEF Init
    <2>2. s \in Value("SELECTED")
      BY Values, MapAssumption
    <2>3. Value("LOCKED") = BOOLEAN
      BY DEF Value
    <2>4. ASSUME NEW c \in Cell
          PROVE  kept[c] \in Value(c[2])
      <3>1. CASE c[2] = "LIFE" /\ c[1] \in Born
        BY <2>1, <3>1, Values
      <3>2. CASE c[2] = "LOCKED"
        <4>1. kept[c] = (c[1] \in locked)
          BY <2>1, <3>2
        <4>2. (c[1] \in locked) \in BOOLEAN
          OBVIOUS
        <4>3. Value(c[2]) = BOOLEAN
          BY <2>3, <3>2
        <4> QED
          BY <4>1, <4>2, <4>3, Zenon
      <3>3. CASE c[2] = "SELECTED"
        BY <2>1, <2>2, <3>3
      <3>4. CASE ~(c[2] = "LIFE" /\ c[1] \in Born) /\ c[2] # "LOCKED" /\ c[2] # "SELECTED"
        <4>1. kept[c] = Default(c[2])
          BY <2>1, <3>4
        <4> QED
          BY <4>1, GivenValues
      <3> QED
        BY <3>1, <3>2, <3>3, <3>4
    <2>5. kept = [c \in Cell |-> kept[c]]
      BY <2>1
    <2> QED
      BY <2>4, <2>5, StoreOf
  <1> QED
    BY <1>3, <1>4 DEF TInv, Init

LEMMA TypesNext == TInv /\ [Next]_vars => TInv'
  <1> SUFFICES ASSUME TInv, [Next]_vars PROVE TInv'
    OBVIOUS
  <1>1. CASE Pointer \/ KeyDown
    BY <1>1, PointerMade, KeyMade, HandleFits DEF Made
  <1>2. CASE Message
    <2>1. \A o \in ObjectId : RemoveObject(o) => TInv'
      BY RemoveObjectFits
    <2>2. CASE CloseModal \/ ToggleFollow
      BY <2>2, PlainMessageFits
    <2> QED
      BY <1>2, <2>1, <2>2, MessageFits DEF Message
  <1>3. CASE SimulationFrame
    BY <1>3, FitsFrame, HandleFits DEF SimulationFrame, TInv
  <1>4. CASE Others
    <2>1. \A o \in ObjectId : ObjectCreated(o) \/ ObjectRemoved(o) => TInv'
      BY ObjectCreatedFits, ObjectRemovedFits
    <2>2. ASSUME NEW o \in ObjectId, NEW k \in KeysOf(KindOf[o]), NEW v \in OthersValue(k),
                 ObjectUpdated(o, k, v)
          PROVE  TInv'
      BY <2>2, ObjectUpdatedFits
    <2>3. ASSUME NEW k \in Setting, NEW v \in OthersValue(k), ConfigUpdate(k, v)
          PROVE  TInv'
      BY <2>3, ConfigUpdateFits
    <2> QED
      BY <1>4, <2>1, <2>2, <2>3 DEF Others
  <1>5. CASE ChannelLost \/ ChannelOpen
    BY <1>5, ChannelFits
  <1>6. CASE Initialize
    BY <1>6, InitializeFits
  <1>7. CASE UNCHANGED vars
    BY <1>7 DEF vars, TInv
  <1> QED
    BY <1>1, <1>2, <1>3, <1>4, <1>5, <1>6, <1>7 DEF Next

LEMMA TypesHold == TInv => TypeOK
  <1> SUFFICES ASSUME TInv PROVE TypeOK
    OBVIOUS
  <1>1. page.action \in Gesture \cup {None}
    BY DEF TInv, Fits, Deed
  <1>2. (snapshot # None) = (channel = "opening")
    BY StoreIsSome DEF TInv
  <1>3. DOMAIN page.shown = Cell /\ \A c \in Cell : page.shown[c] \in Value(c[2])
    BY DEF TInv, Fits, Shape
  <1>4. DOMAIN kept = Cell /\ \A c \in Cell : kept[c] \in Value(c[2])
    BY DEF TInv, Store
  <1> QED
    BY <1>1, <1>2, <1>3, <1>4 DEF TypeOK, TInv, Fits, Modals

(* The page, what the backend has and the snapshot keep the types of the code; a handler
   leaves nothing noted, a timer is there while something moves, and a snapshot is under
   way exactly while the channel opens. *)
THEOREM TypeCorrect == Spec => []TypeOK
  <1>1. Init => TInv
    BY TypesInit
  <1>2. TInv /\ [Next]_vars => TInv'
    BY TypesNext
  <1>3. TInv => TypeOK
    BY TypesHold
  <1> QED
    BY <1>1, <1>2, <1>3, PTL DEF Spec

LEMMA GesturesStep ==
    ASSUME TInv, Pointer \/ KeyDown
    PROVE  Gestures(page, page')
  <1>1. PICK q : Made(q)
    BY PointerMade, KeyMade
  <1>2. page'.shown = q.shown /\ page'.action = q.action
    BY <1>1, SettledFits DEF Made, Handle
  <1>3. Gestures(page, q)
    BY <1>1 DEF Made
  <1>4. Ids(page') = Ids(q) /\ On(page') = On(q)
    BY <1>2 DEF Ids, On
  <1> QED
    BY <1>2, <1>3, <1>4 DEF Gestures, Touches

(* Whatever the pointer and the keys do: where an object is, where it is sent and how
   large it is changes only by a gesture on that very object, and a gesture begins only
   on an object of the user that is not locked. *)
THEOREM GesturesAreAllowed == Spec => GesturesAllowed
  <1>1. ASSUME TInv, Pointer \/ KeyDown
        PROVE  LET on(p) == IF p.action = None THEN <<>> ELSE <<p.action.do, p.action.id>>
               IN  /\ \A c \in Cell :
                        c[2] \in {"TRANSFORM", "MOVE_TARGET", "SIZE"} /\ page'.shown[c] # page.shown[c] =>
                            \E p \in {page, page'} : p.action # None /\ p.action.id = c[1]
                   /\ on(page') \notin {<<>>, on(page)} =>
                            page'.action.id \in Own /\ ~IsLocked(page, page'.action.id)
    <2>1. Gestures(page, page')
      BY <1>1, GesturesStep
    <2>2. ASSUME NEW c \in Cell, c[2] \in Spots, page'.shown[c] # page.shown[c]
          PROVE  \E p \in {page, page'} : p.action # None /\ p.action.id = c[1]
      <3>1. c[1] \in Ids(page) \cup Ids(page')
        BY <2>1, <2>2 DEF Gestures, Touches
      <3> QED
        BY <3>1 DEF Ids
    <2> QED
      BY <2>1, <2>2 DEF Gestures, On, Spots
  <1>2. TInv /\ [Next]_vars =>
          [Pointer \/ KeyDown =>
            LET on(p) == IF p.action = None THEN <<>> ELSE <<p.action.do, p.action.id>>
            IN  /\ \A c \in Cell :
                    c[2] \in {"TRANSFORM", "MOVE_TARGET", "SIZE"} /\ page'.shown[c] # page.shown[c] =>
                        \E p \in {page, page'} : p.action # None /\ p.action.id = c[1]
                /\ on(page') \notin {<<>>, on(page)} =>
                        page'.action.id \in Own /\ ~IsLocked(page, page'.action.id)]_vars
    BY <1>1
  <1>3. Init => TInv
    BY TypesInit
  <1>4. TInv /\ [Next]_vars => TInv'
    BY TypesNext
  <1> QED
    BY <1>2, <1>3, <1>4, PTL DEF Spec, GesturesAllowed
=============================================================================
