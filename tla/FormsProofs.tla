---------------------------- MODULE FormsProofs -----------------------------
(***************************************************************************)
(* Proofs about Forms, and Upload in it, for any pages, views, pictures    *)
(* and edits: their types, that what is marked lies on its picture, and    *)
(* that the views are in step once nothing is under way.                   *)
(***************************************************************************)
EXTENDS Forms, SequenceTheorems, TLAPS

-----------------------------------------------------------------------------
(* Numbers. *)

LEMMA Quotient ==
    ASSUME NEW a \in Int, NEW r \in Nat \ {0}
    PROVE  a \div r \in Int /\ (a \div r) * r <= a /\ (a >= 0 => a \div r >= 0)
  OBVIOUS

LEMMA Product ==
    ASSUME NEW a \in Int, NEW b \in Int, NEW r \in Nat, a <= b
    PROVE  a * r \in Int /\ b * r \in Int /\ a * r <= b * r /\ (a >= 0 => a * r >= 0)
  OBVIOUS

(* One axis of a selection: where it begins when the edge k is pulled and it becomes z long. *)
Begins(k, p, s, z) ==
    CASE k = -1 -> p + s - z
      [] k = 0  -> p + s \div 2 - z \div 2
      [] k = 1  -> p

Clipped(x, high) == Least(Most(x, 0), high)

(* And how long it may become, when w is wanted. *)
Reach(k, p, s, w, high) ==
    LET at == Clipped(Begins(k, p, s, w), high) IN IF k = -1 THEN p + s - at ELSE high - at

(* It lay on a picture `full` long, of which `high` are shown so far. *)
Lay(k, p, s, w, full, high) ==
    /\ k \in {-1, 0, 1} /\ p \in Int /\ s \in Int /\ w \in Int
    /\ full \in Nat /\ high \in {0, full}
    /\ p >= 0 /\ s >= 0 /\ p + s <= full /\ w >= 0
    /\ k = 0 => w = s

LEMMA Reaches ==
    ASSUME NEW k, NEW p, NEW s, NEW w, NEW full, NEW high, Lay(k, p, s, w, full, high)
    PROVE  Reach(k, p, s, w, high) \in Nat
  <1>1. CASE k = -1
    BY <1>1 DEF Lay, Reach, Begins, Clipped, Least, Most
  <1>2. CASE k = 0
    BY <1>2 DEF Lay, Reach, Begins, Clipped, Least, Most
  <1>3. CASE k = 1
    BY <1>3 DEF Lay, Reach, Begins, Clipped, Least, Most
  <1> QED
    BY <1>1, <1>2, <1>3 DEF Lay

(* What is no longer than the room there is stays on the picture. *)
Spared(k, p, s, w, high, z) ==
    /\ z \in Int /\ 0 <= z /\ z <= w /\ z <= Reach(k, p, s, w, high)
    /\ k = 0 => z = Least(w, Reach(k, p, s, w, high))

LEMMA Pulled ==
    ASSUME NEW k, NEW p, NEW s, NEW w, NEW full, NEW high, NEW z,
           Lay(k, p, s, w, full, high), Spared(k, p, s, w, high, z)
    PROVE  /\ Clipped(Begins(k, p, s, z), high) \in Nat
           /\ Clipped(Begins(k, p, s, z), high) + z <= full
  <1>1. CASE k = -1
    BY <1>1 DEF Lay, Spared, Reach, Begins, Clipped, Least, Most
  <1>2. CASE k = 0
    BY <1>2 DEF Lay, Spared, Reach, Begins, Clipped, Least, Most
  <1>3. CASE k = 1
    BY <1>3 DEF Lay, Spared, Reach, Begins, Clipped, Least, Most
  <1> QED
    BY <1>1, <1>2, <1>3 DEF Lay

-----------------------------------------------------------------------------
(* Selections. *)

Place == [XY -> Int]

Extent == [p1 : Place, p2 : Place]

Marked == [pos : Place, size : Place]

Full(f) == [d \in XY |-> Shown[f][d] * Unit]

On(p, f) == \A d \in XY : 0 <= p[d] /\ p[d] <= Full(f)[d]

Rests(s, f) ==
    \A d \in XY : s.size[d] >= 0 /\ s.pos[d] >= 0 /\ s.pos[d] + s.size[d] <= Full(f)[d]

LEMMA FullTyped == \A f \in File : Full(f) \in [XY -> Nat]
  <1> SUFFICES ASSUME NEW f \in File, NEW d \in XY PROVE Shown[f][d] * Unit \in Nat
    BY DEF Full
  <1>1. Shown[f][d] \in Nat /\ Unit \in Nat
    BY UploadAssumption DEF Pair
  <1> QED
    BY <1>1

(* The picture is as large as it is, or not at all. *)
LEMMA BoundsTyped ==
    ASSUME source \in File \cup {None}, loaded => source # None
    PROVE  /\ Bounds \in [XY -> Nat]
           /\ source \in File => \A d \in XY : Bounds[d] \in {0, Full(source)[d]}
           /\ loaded => Bounds = Full(source)
  BY FullTyped DEF Bounds, Full, Zero

LEMMA RatioIs == \A r \in Ratio : r = None \/ r \in Nat \ {0}
  BY UploadAssumption

LEMMA Sizes ==
    ASSUME NEW r \in Nat \ {0}, NEW h \in Int
    PROVE  /\ Size(r, h) \in Place /\ Size(r, h).x = h * r /\ Size(r, h).y = h
           /\ Size(r, h)["x"] = h * r /\ Size(r, h)["y"] = h
  BY DEF Size, Place, XY

(* However it was drawn, what is between two points is as large as the ratio lets it be. *)
LEMMA FromExtentIs ==
    ASSUME NEW e \in Extent, ratio \in Ratio
    PROVE  /\ FromExtent(e) \in Marked
           /\ \A f \in File : On(e.p1, f) /\ On(e.p2, f) => Rests(FromExtent(e), f)
  <1> DEFINE delta == Minus(e.p2, e.p1)
             abs == [d \in XY |-> Most(delta[d], -delta[d])]
             size == IF ratio = None THEN abs ELSE Size(ratio, Least(abs.x \div ratio, abs.y))
             pos == [d \in XY |-> IF delta[d] >= 0 THEN e.p1[d] ELSE e.p1[d] - size[d]]
  <1>1. e.p1 \in Place /\ e.p2 \in Place
    BY DEF Extent
  <1>2. delta \in Place /\ \A d \in XY : delta[d] = e.p2[d] - e.p1[d]
    BY <1>1 DEF Minus, Place
  <1> HIDE DEF delta
  <1>3. abs \in [XY -> Nat] /\ \A d \in XY : abs[d] = IF delta[d] >= 0 THEN delta[d] ELSE -delta[d]
    BY <1>2 DEF Most, Place
  <1>4. abs.x = abs["x"] /\ abs.y = abs["y"] /\ "x" \in XY /\ "y" \in XY
    BY DEF XY
  <1> HIDE DEF abs
  <1>5. size \in Place /\ \A d \in XY : 0 <= size[d] /\ size[d] <= abs[d]
    <2>1. CASE ratio = None
      BY <1>3, <2>1 DEF Place
    <2>2. CASE ratio # None
      <3> DEFINE h == Least(abs.x \div ratio, abs.y)
      <3>1. ratio \in Nat \ {0}
        BY <2>2, RatioIs
      <3>2. abs.x \in Nat /\ abs.y \in Nat
        BY <1>3, <1>4
      <3>3. abs.x \div ratio \in Int /\ abs.x \div ratio >= 0 /\ (abs.x \div ratio) * ratio <= abs.x
        BY <3>1, <3>2, Quotient
      <3>4. h \in Int /\ h >= 0 /\ h <= abs.x \div ratio /\ h <= abs.y
        BY <3>2, <3>3 DEF Least
      <3> HIDE DEF h
      <3>5. h * ratio \in Int /\ 0 <= h * ratio /\ h * ratio <= abs.x
        <4>1. h * ratio <= (abs.x \div ratio) * ratio /\ h * ratio \in Int /\ h * ratio >= 0
              /\ (abs.x \div ratio) * ratio \in Int
          BY <3>1, <3>3, <3>4, Product
        <4> QED
          BY <3>2, <3>3, <4>1
      <3>6. Size(ratio, h) \in Place /\ Size(ratio, h)["x"] = h * ratio /\ Size(ratio, h)["y"] = h
        BY <3>1, <3>4, Sizes
      <3>7. size = Size(ratio, h)
        BY <2>2 DEF h
      <3> QED
        BY <1>4, <3>4, <3>5, <3>6, <3>7 DEF XY
    <2> QED
      BY <2>1, <2>2
  <1> HIDE DEF size
  <1>6. pos \in Place /\ \A d \in XY : pos[d] = IF delta[d] >= 0 THEN e.p1[d] ELSE e.p1[d] - size[d]
    BY <1>1, <1>2, <1>5 DEF Place
  <1> HIDE DEF pos
  <1>7. FromExtent(e) = [pos |-> pos, size |-> size]
    BY DEF FromExtent, pos, size, abs, delta
  <1>8. ASSUME NEW f \in File, On(e.p1, f), On(e.p2, f), NEW d \in XY
        PROVE  size[d] >= 0 /\ pos[d] >= 0 /\ pos[d] + size[d] <= Full(f)[d]
    <2>1. /\ e.p1[d] \in Int /\ e.p2[d] \in Int /\ size[d] \in Int /\ Full(f)[d] \in Nat
          /\ delta[d] = e.p2[d] - e.p1[d]
      BY <1>1, <1>2, <1>5, FullTyped DEF Place
    <2>2. /\ 0 <= e.p1[d] /\ e.p1[d] <= Full(f)[d] /\ 0 <= e.p2[d] /\ e.p2[d] <= Full(f)[d]
      BY <1>8 DEF On
    <2> QED
      BY <1>3, <1>5, <1>6, <2>1, <2>2
  <1> QED
    BY <1>5, <1>6, <1>7, <1>8 DEF Marked, Rests

LEMMA ToExtentIs ==
    ASSUME NEW s \in Marked
    PROVE  /\ ToExtent(s) \in Extent
           /\ \A f \in File : Rests(s, f) => On(ToExtent(s).p1, f) /\ On(ToExtent(s).p2, f)
  <1>1. s.pos \in Place /\ s.size \in Place
    BY DEF Marked
  <1>2. Plus(s.pos, s.size) \in Place /\ \A d \in XY : Plus(s.pos, s.size)[d] = s.pos[d] + s.size[d]
    BY <1>1 DEF Plus, Place
  <1>3. ToExtent(s).p1 = s.pos /\ ToExtent(s).p2 = Plus(s.pos, s.size) /\ ToExtent(s) \in Extent
    BY <1>1, <1>2 DEF ToExtent, Extent
  <1>4. ASSUME NEW f \in File, Rests(s, f), NEW d \in XY
        PROVE  /\ 0 <= s.pos[d] /\ s.pos[d] <= Full(f)[d]
               /\ 0 <= Plus(s.pos, s.size)[d] /\ Plus(s.pos, s.size)[d] <= Full(f)[d]
    <2>1. s.pos[d] \in Int /\ s.size[d] \in Int /\ Full(f)[d] \in Nat
      BY <1>1, FullTyped DEF Place
    <2> QED
      BY <1>2, <1>4, <2>1 DEF Rests
  <1> QED
    BY <1>3, <1>4 DEF On

LEMMA ClampedIs ==
    ASSUME NEW v \in Place, NEW low \in Place, NEW high \in Place
    PROVE  /\ Clamped(v, low, high) \in Place
           /\ \A d \in XY : Clamped(v, low, high)[d] = Least(Most(v[d], low[d]), high[d])
  BY DEF Clamped, Place, Least, Most

LEMMA ZeroPlace == Zero \in Place /\ \A d \in XY : Zero[d] = 0
  BY DEF Zero, Place

(* What is moved stays as large as it is, and on the picture. *)
LEMMA MovedIs ==
    ASSUME NEW s \in Marked, NEW delta \in Place,
           source \in File \cup {None}, loaded => source # None
    PROVE  /\ Moved(s, delta) \in Marked
           /\ source \in File /\ Rests(s, source) /\ (\A d \in XY : s.size[d] <= Bounds[d])
                => Rests(Moved(s, delta), source)
  <1> DEFINE pos == Clamped(Plus(s.pos, delta), Zero, Minus(Bounds, s.size))
  <1>1. /\ Bounds \in [XY -> Nat]
        /\ source \in File => \A d \in XY : Bounds[d] \in {0, Full(source)[d]}
    BY BoundsTyped
  <1>2. s.pos \in Place /\ s.size \in Place /\ s = [pos |-> s.pos, size |-> s.size]
    BY DEF Marked
  <1> HIDE DEF Bounds
  <1>3. /\ Plus(s.pos, delta) \in Place /\ Minus(Bounds, s.size) \in Place
        /\ \A d \in XY : Minus(Bounds, s.size)[d] = Bounds[d] - s.size[d]
        /\ \A d \in XY : Plus(s.pos, delta)[d] = s.pos[d] + delta[d]
    BY <1>1, <1>2 DEF Plus, Minus, Place
  <1>4. /\ pos \in Place
        /\ \A d \in XY : pos[d] = Least(Most(s.pos[d] + delta[d], 0), Bounds[d] - s.size[d])
    BY <1>3, ClampedIs, ZeroPlace
  <1>5. Moved(s, delta) = [pos |-> pos, size |-> s.size]
    BY <1>2 DEF Moved
  <1> HIDE DEF pos
  <1>6. ASSUME source \in File, Rests(s, source), \A d \in XY : s.size[d] <= Bounds[d], NEW d \in XY
        PROVE  pos[d] >= 0 /\ pos[d] + s.size[d] <= Full(source)[d]
    <2>1. /\ s.pos[d] \in Int /\ s.size[d] \in Int /\ delta[d] \in Int /\ Bounds[d] \in Nat
          /\ Full(source)[d] \in Nat
      BY <1>1, <1>2, <1>6, FullTyped DEF Place
    <2>2. s.size[d] >= 0 /\ s.size[d] <= Bounds[d] /\ Bounds[d] <= Full(source)[d]
      BY <1>1, <1>6, <2>1 DEF Rests
    <2>3. pos[d] = Least(Most(s.pos[d] + delta[d], 0), Bounds[d] - s.size[d])
      BY <1>4
    <2> QED
      BY <2>1, <2>2, <2>3 DEF Least, Most
  <1> QED
    BY <1>2, <1>4, <1>5, <1>6 DEF Marked, Rests

(* The whole of the picture, or what the ratio lets be marked of it. *)
LEMMA MaxCenteredIs ==
    ASSUME NEW r \in Ratio, source \in File \cup {None}, loaded => source # None
    PROVE  /\ MaxCentered(r) \in Marked
           /\ source \in File => Rests(MaxCentered(r), source)
  <1>1. /\ Bounds \in [XY -> Nat]
        /\ source \in File => \A d \in XY : Bounds[d] \in {0, Full(source)[d]}
    BY BoundsTyped
  <1> HIDE DEF Bounds
  <1>2. Bounds.x = Bounds["x"] /\ Bounds.y = Bounds["y"] /\ Bounds.x \in Nat /\ Bounds.y \in Nat
    BY <1>1 DEF XY
  <1>3. source \in File => \A d \in XY : Bounds[d] <= Full(source)[d] /\ Full(source)[d] \in Nat
    BY <1>1, FullTyped
  <1>4. CASE r = None
    <2>1. MaxCentered(r) = [pos |-> Zero, size |-> Bounds]
      BY <1>4 DEF MaxCentered
    <2>2. Bounds \in Place
      BY <1>1 DEF Place
    <2>3. \A d \in XY : Bounds[d] \in Nat /\ Zero[d] = 0
      BY <1>1, ZeroPlace
    <2>4. ASSUME source \in File, NEW d \in XY
          PROVE  Bounds[d] >= 0 /\ Zero[d] >= 0 /\ Zero[d] + Bounds[d] <= Full(source)[d]
      BY <1>3, <2>3, <2>4
    <2> QED
      BY <2>1, <2>2, <2>4, ZeroPlace DEF Marked, Rests
  <1>5. CASE r # None
    <2> DEFINE h == Least(Bounds.x \div r, Bounds.y)
               size == Size(r, h)
               pos == [d \in XY |-> (Bounds[d] - size[d]) \div 2]
    <2>1. r \in Nat \ {0}
      BY <1>5, RatioIs
    <2>2. Bounds.x \div r \in Int /\ Bounds.x \div r >= 0 /\ (Bounds.x \div r) * r <= Bounds.x
      BY <1>2, <2>1, Quotient
    <2>3. h \in Int /\ h >= 0 /\ h <= Bounds.x \div r /\ h <= Bounds.y
      BY <1>2, <2>2 DEF Least
    <2> HIDE DEF h
    <2>4. h * r \in Int /\ 0 <= h * r /\ h * r <= Bounds.x
      <3>1. h * r <= (Bounds.x \div r) * r /\ h * r \in Int /\ h * r >= 0
            /\ (Bounds.x \div r) * r \in Int
        BY <2>1, <2>2, <2>3, Product
      <3> QED
        BY <1>2, <2>2, <3>1
    <2>5. size \in Place /\ size["x"] = h * r /\ size["y"] = h
      BY <2>1, <2>3, Sizes
    <2> HIDE DEF size
    <2>6. \A d \in XY : size[d] \in Int /\ 0 <= size[d] /\ size[d] <= Bounds[d] /\ Bounds[d] \in Nat
      BY <1>1, <1>2, <2>3, <2>4, <2>5 DEF XY
    <2>7. pos \in Place /\ \A d \in XY : pos[d] >= 0 /\ pos[d] + size[d] <= Bounds[d]
      BY <2>6 DEF Place
    <2>8. MaxCentered(r) = [pos |-> pos, size |-> size]
      BY <1>5 DEF MaxCentered, pos, size, h
    <2> HIDE DEF pos
    <2>9. ASSUME source \in File, NEW d \in XY
          PROVE  size[d] >= 0 /\ pos[d] >= 0 /\ pos[d] + size[d] <= Full(source)[d]
      <3>1. pos[d] \in Int
        BY <2>7 DEF Place
      <3> QED
        BY <1>3, <2>6, <2>7, <2>9, <3>1
    <2> QED
      BY <2>5, <2>7, <2>8, <2>9 DEF Marked, Rests
  <1> QED
    BY <1>4, <1>5

Way == [XY -> {-1, 0, 1}]

LEMMA WantedIs ==
    ASSUME NEW s \in Marked, NEW dir \in Way, NEW delta \in Place, ratio \in Ratio
    PROVE  /\ Wanted(s, dir, delta) \in [XY -> Nat]
           /\ ratio = None => \A d \in XY : dir[d] = 0 /\ s.size[d] >= 0 =>
                                  Wanted(s, dir, delta)[d] = s.size[d]
           /\ ratio # None => \E h \in Nat : Wanted(s, dir, delta) = Size(ratio, h)
  <1> DEFINE by == [d \in XY |-> dir[d] * delta[d]]
             wide == s.size.y + by.x \div ratio
             high == s.size.y + by.y
             height == CASE dir.x = 0 -> high [] dir.y = 0 -> wide [] OTHER -> Least(wide, high)
  <1>1. s.size \in Place /\ s.size.y \in Int
    BY DEF Marked, Place, XY
  <1>2. by \in Place /\ \A d \in XY : dir[d] = 0 => by[d] = 0
    <2>1. \A d \in XY : dir[d] \in {-1, 0, 1} /\ delta[d] \in Int
      BY DEF Way, Place
    <2>2. \A d \in XY : dir[d] * delta[d] \in Int /\ (dir[d] = 0 => dir[d] * delta[d] = 0)
      BY <2>1
    <2> QED
      BY <2>2 DEF Place
  <1> HIDE DEF by
  <1>3. by.x \in Int /\ by.y \in Int
    BY <1>2 DEF Place, XY
  <1>4. CASE ratio = None
    <2>1. Wanted(s, dir, delta) = [d \in XY |-> Most(s.size[d] + by[d], 0)]
      BY <1>4 DEF Wanted, by
    <2>2. \A d \in XY : s.size[d] \in Int /\ by[d] \in Int
      BY <1>1, <1>2 DEF Place
    <2>3. \A d \in XY : Most(s.size[d] + by[d], 0) \in Nat
      BY <2>2 DEF Most
    <2>4. \A d \in XY : dir[d] = 0 /\ s.size[d] >= 0 => Most(s.size[d] + by[d], 0) = s.size[d]
      BY <1>2, <2>2 DEF Most
    <2> QED
      BY <1>4, <2>1, <2>3, <2>4
  <1>5. CASE ratio # None
    <2>1. ratio \in Nat \ {0}
      BY <1>5, RatioIs
    <2>2. by.x \div ratio \in Int
      BY <1>3, <2>1, Quotient
    <2>3. wide \in Int /\ high \in Int
      BY <1>1, <1>3, <2>2
    <2> HIDE DEF wide, high
    <2>4. height \in Int
      BY <2>3 DEF Least
    <2>5. Wanted(s, dir, delta) = Size(ratio, Most(height, 0))
      BY <1>5 DEF Wanted, height, wide, high, by
    <2> HIDE DEF height
    <2>6. Most(height, 0) \in Nat
      BY <2>4 DEF Most
    <2>7. Most(height, 0) * ratio \in Nat
      BY <2>1, <2>6, Product
    <2>8. Size(ratio, Most(height, 0)) \in [XY -> Nat]
      BY <2>1, <2>6, <2>7 DEF Size, XY
    <2> QED
      BY <1>5, <2>5, <2>6, <2>8
  <1> QED
    BY <1>4, <1>5

LEMMA AnchorIs ==
    ASSUME NEW s \in Marked, NEW dir \in Way, NEW z \in Place, Bounds \in [XY -> Nat]
    PROVE  /\ Anchor(dir, s, z) \in Place
           /\ Clamped(Anchor(dir, s, z), Zero, Bounds) \in Place
           /\ \A d \in XY : Clamped(Anchor(dir, s, z), Zero, Bounds)[d]
                                = Clipped(Begins(dir[d], s.pos[d], s.size[d], z[d]), Bounds[d])
  <1> DEFINE a == Anchor(dir, s, z)
  <1>1. \A d \in XY : dir[d] \in {-1, 0, 1} /\ s.pos[d] \in Int /\ s.size[d] \in Int /\ z[d] \in Int
    BY DEF Way, Marked, Place
  <1>2. \A d \in XY : Begins(dir[d], s.pos[d], s.size[d], z[d]) \in Int
    BY <1>1 DEF Begins
  <1>3. a = [d \in XY |-> Begins(dir[d], s.pos[d], s.size[d], z[d])]
    BY DEF Anchor, Begins
  <1> HIDE DEF a, Bounds
  <1>4. a \in Place /\ \A d \in XY : a[d] = Begins(dir[d], s.pos[d], s.size[d], z[d])
    BY <1>2, <1>3 DEF Place
  <1>5. Bounds \in Place
    BY DEF Place
  <1>6. /\ Clamped(a, Zero, Bounds) \in Place
        /\ \A d \in XY : Clamped(a, Zero, Bounds)[d] = Least(Most(a[d], Zero[d]), Bounds[d])
    BY <1>4, <1>5, ClampedIs, ZeroPlace
  <1>7. \A d \in XY : Clamped(a, Zero, Bounds)[d] = Clipped(a[d], Bounds[d])
    BY <1>6, ZeroPlace DEF Clipped
  <1> QED
    BY <1>4, <1>6, <1>7 DEF a

(* Which axes an edge at a fixed proportion would carry past the picture. *)
Sideways(dir) == ratio # None /\ \E d \in XY : dir[d] = 0

(* An edge that is pulled does not leave the picture, unless at a fixed proportion the other
   axis grows from its middle. *)
LEMMA ResizedIs ==
    ASSUME NEW s \in Marked, NEW dir \in Way, NEW delta \in Place, ratio \in Ratio,
           source \in File \cup {None}, loaded => source # None
    PROVE  /\ Resized(s, dir, delta) \in Marked
           /\ source \in File /\ Rests(s, source) /\ ~Sideways(dir)
                => Rests(Resized(s, dir, delta), source)
  <1> DEFINE wanted == Wanted(s, dir, delta)
             at == Clamped(Anchor(dir, s, wanted), Zero, Bounds)
             room == Room(dir, s, at)
             size == CASE ratio = None -> [d \in XY |-> Least(wanted[d], room[d])]
                       [] ratio # None /\ wanted = Zero -> Zero
                       [] OTHER -> Size(ratio, Least(wanted.y, Least(room.x \div ratio, room.y)))
             pos == Clamped(Anchor(dir, s, size), Zero, Bounds)
  <1>1. /\ Bounds \in [XY -> Nat]
        /\ source \in File => \A d \in XY : Bounds[d] \in {0, Full(source)[d]}
    BY BoundsTyped
  <1> HIDE DEF Bounds
  <1>2. Resized(s, dir, delta) = [pos |-> pos, size |-> size]
    BY DEF Resized
  <1>3. /\ wanted \in [XY -> Nat]
        /\ ratio = None => \A d \in XY : dir[d] = 0 /\ s.size[d] >= 0 => wanted[d] = s.size[d]
        /\ ratio # None => \E h \in Nat : wanted = Size(ratio, h)
    BY WantedIs
  <1> HIDE DEF wanted
  <1>4. wanted \in Place
    BY <1>3 DEF Place
  <1>5. /\ at \in Place
        /\ \A d \in XY : at[d] = Clipped(Begins(dir[d], s.pos[d], s.size[d], wanted[d]), Bounds[d])
    BY <1>1, <1>4, AnchorIs
  <1> HIDE DEF at
  <1>6. s.pos \in Place /\ s.size \in Place
    BY DEF Marked
  <1>7. /\ room \in Place
        /\ \A d \in XY : room[d] = Reach(dir[d], s.pos[d], s.size[d], wanted[d], Bounds[d])
    <2>1. \A d \in XY : s.pos[d] \in Int /\ s.size[d] \in Int /\ at[d] \in Int /\ Bounds[d] \in Int
      BY <1>1, <1>5, <1>6 DEF Place
    <2>2. \A d \in XY : room[d] = IF dir[d] = -1 THEN s.pos[d] + s.size[d] - at[d] ELSE Bounds[d] - at[d]
      BY DEF Room
    <2>3. room \in Place
      BY <2>1 DEF Room, Place
    <2> QED
      BY <1>5, <2>2, <2>3 DEF Reach
  <1> HIDE DEF room
  <1>8. /\ room.x = room["x"] /\ room.y = room["y"] /\ wanted.y = wanted["y"]
        /\ room.x \in Int /\ room.y \in Int /\ wanted.y \in Nat
    BY <1>3, <1>7 DEF Place, XY
  <1>9. /\ size \in Place
        /\ (\A d \in XY : room[d] >= 0) =>
             \A d \in XY : 0 <= size[d] /\ size[d] <= wanted[d] /\ size[d] <= room[d]
        /\ ratio = None => \A d \in XY : size[d] = Least(wanted[d], room[d])
    <2>0. \A d \in XY : wanted[d] \in Nat /\ room[d] \in Int
      BY <1>3, <1>7 DEF Place
    <2>1. CASE ratio = None
      <3>1. size = [d \in XY |-> Least(wanted[d], room[d])]
        BY <2>1
      <3> HIDE DEF size
      <3>2. \A d \in XY : size[d] = Least(wanted[d], room[d])
        BY <3>1
      <3> QED
        BY <2>0, <2>1, <3>1, <3>2 DEF Least, Place
    <2>2. CASE ratio # None /\ wanted = Zero
      <3>1. size = Zero
        BY <2>2
      <3> HIDE DEF size
      <3> QED
        BY <2>0, <2>2, <3>1, ZeroPlace
    <2>3. CASE ratio # None /\ wanted # Zero
      <3> DEFINE h == Least(wanted.y, Least(room.x \div ratio, room.y))
      <3>1. size = Size(ratio, h)
        BY <2>3
      <3> HIDE DEF size
      <3>2. ratio \in Nat \ {0}
        BY <2>3, RatioIs
      <3>3. /\ room.x \div ratio \in Int /\ (room.x >= 0 => room.x \div ratio >= 0)
            /\ (room.x \div ratio) * ratio <= room.x
        BY <1>8, <3>2, Quotient
      <3>4. /\ h \in Int /\ h <= wanted.y /\ h <= room.x \div ratio /\ h <= room.y
            /\ room.x >= 0 /\ room.y >= 0 => h >= 0
        BY <1>8, <3>3 DEF Least
      <3> HIDE DEF h
      <3>5. size \in Place /\ size["x"] = h * ratio /\ size["y"] = h
        BY <3>1, <3>2, <3>4, Sizes
      <3>6. PICK most \in Nat : wanted = Size(ratio, most)
        BY <1>3, <2>3
      <3>7. wanted["x"] = most * ratio /\ wanted["y"] = most
        <4>1. most \in Int
          OBVIOUS
        <4> QED
          BY <3>2, <3>6, <4>1, Sizes
      <3>8. h * ratio \in Int /\ h * ratio <= most * ratio /\ (h >= 0 => h * ratio >= 0)
        <4>1. h <= most
          BY <1>8, <3>4, <3>7
        <4> QED
          BY <3>2, <3>4, <4>1, Product
      <3>9. h * ratio <= room.x
        <4>1. h * ratio <= (room.x \div ratio) * ratio /\ (room.x \div ratio) * ratio \in Int
          BY <3>2, <3>3, <3>4, Product
        <4> QED
          BY <1>8, <3>3, <3>8, <4>1
      <3>10. ASSUME \A d \in XY : room[d] >= 0
             PROVE  \A d \in XY : 0 <= size[d] /\ size[d] <= wanted[d] /\ size[d] <= room[d]
        <4>1. room.x >= 0 /\ room.y >= 0
          BY <1>8, <3>10 DEF XY
        <4>2. 0 <= size["x"] /\ size["x"] <= wanted["x"] /\ size["x"] <= room["x"]
          BY <1>8, <3>4, <3>5, <3>7, <3>8, <3>9, <4>1
        <4>3. 0 <= size["y"] /\ size["y"] <= wanted["y"] /\ size["y"] <= room["y"]
          BY <1>8, <3>4, <3>5, <4>1
        <4> QED
          BY <4>2, <4>3 DEF XY
      <3> QED
        BY <2>3, <3>5, <3>10
    <2> QED
      BY <2>1, <2>2, <2>3
  <1> HIDE DEF size
  <1>10. /\ pos \in Place
         /\ \A d \in XY : pos[d] = Clipped(Begins(dir[d], s.pos[d], s.size[d], size[d]), Bounds[d])
    BY <1>1, <1>9, AnchorIs
  <1> HIDE DEF pos
  <1>11. ASSUME source \in File, Rests(s, source), ~Sideways(dir), NEW d \in XY
         PROVE  size[d] >= 0 /\ pos[d] >= 0 /\ pos[d] + size[d] <= Full(source)[d]
    <2>1. ASSUME NEW e \in XY
          PROVE  Lay(dir[e], s.pos[e], s.size[e], wanted[e], Full(source)[e], Bounds[e])
      <3>1. dir[e] \in {-1, 0, 1} /\ s.pos[e] \in Int /\ s.size[e] \in Int
        BY <1>6 DEF Way, Place
      <3>2. wanted[e] \in Int /\ wanted[e] >= 0
        BY <1>3
      <3>3. Full(source)[e] \in Nat /\ Bounds[e] \in {0, Full(source)[e]}
        BY <1>1, <1>11, FullTyped
      <3>4. s.pos[e] >= 0 /\ s.size[e] >= 0 /\ s.pos[e] + s.size[e] <= Full(source)[e]
        BY <1>11 DEF Rests
      <3>5. dir[e] = 0 => wanted[e] = s.size[e]
        BY <1>3, <1>11, <3>4 DEF Sideways
      <3> QED
        BY <3>1, <3>2, <3>3, <3>4, <3>5 DEF Lay
    <2>2. ASSUME NEW e \in XY PROVE room[e] >= 0
      <3>1. Reach(dir[e], s.pos[e], s.size[e], wanted[e], Bounds[e]) \in Nat
        BY <2>1, Reaches, Zenon
      <3> QED
        BY <1>7, <3>1
    <2>3. 0 <= size[d] /\ size[d] <= wanted[d] /\ size[d] <= room[d] /\ size[d] \in Int
      BY <1>9, <2>2 DEF Place
    <2>4. dir[d] = 0 => size[d] = Least(wanted[d], room[d])
      BY <1>9, <1>11 DEF Sideways
    <2>5. pos[d] \in Nat /\ pos[d] + size[d] <= Full(source)[d]
      <3> DEFINE at0 == Clipped(Begins(dir[d], s.pos[d], s.size[d], size[d]), Bounds[d])
      <3>1. room[d] = Reach(dir[d], s.pos[d], s.size[d], wanted[d], Bounds[d]) /\ pos[d] = at0
        BY <1>7, <1>10
      <3>2. at0 \in Nat /\ at0 + size[d] <= Full(source)[d]
        <4>1. size[d] <= Reach(dir[d], s.pos[d], s.size[d], wanted[d], Bounds[d])
          BY <2>3, <3>1
        <4>2. dir[d] = 0 =>
                size[d] = Least(wanted[d], Reach(dir[d], s.pos[d], s.size[d], wanted[d], Bounds[d]))
          BY <2>4, <3>1
        <4> QED
          <5>1. Spared(dir[d], s.pos[d], s.size[d], wanted[d], Bounds[d], size[d])
            BY <2>3, <4>1, <4>2 DEF Spared
          <5>2. Lay(dir[d], s.pos[d], s.size[d], wanted[d], Full(source)[d], Bounds[d])
            BY <2>1
          <5> QED
            BY <5>1, <5>2, Pulled, Zenon
      <3> QED
        BY <3>1, <3>2
    <2> QED
      BY <2>3, <2>5
  <1> QED
    BY <1>2, <1>9, <1>10, <1>11 DEF Marked, Rests

-----------------------------------------------------------------------------
(* The form's image. *)

(* What is said to be marked on a picture lies on it, also when it was taken hold of; and
   what the pointer draws was begun on the picture that is shown. *)
UploadInv ==
    /\ UploadType
    /\ drag # None /\ origin # None => On(drag.p1, origin) /\ On(drag.p2, origin)
    /\ grip # None => dragging /\ (grip.origin # None => Rests(grip.selection, grip.origin))
    /\ dragging /\ grip = None /\ drag # None => origin = source

(* What is between the actions of the upload and the form it is in. *)
NotCropped == <<source, data, drag, scales, loaded, dragging, grip, empty, origin>>

LEMMA UploadBegins == ASSUME UploadInit PROVE UploadInv
  <1>1. 0 \in 0..MaxStroke
    BY UploadAssumption
  <1>2. UploadType
    BY <1>1 DEF UploadInit, UploadType
  <1> QED
    BY <1>2 DEF UploadInit, UploadInv

(* Whatever becomes of the request, of the edits that are left and of the ratio. *)
LEMMA UploadFrame ==
    ASSUME UploadInv, UNCHANGED NotCropped, uploading' \in BOOLEAN, strokes' \in 0..MaxStroke, ratio' \in Ratio
    PROVE  UploadInv'
  BY DEF UploadInv, UploadType, NotCropped

LEMMA PixelsPlace ==
    /\ \A p \in Point : InPixels(p) \in Place
    /\ \A by \in [XY -> Pull] : InPixels(by) \in Place
  <1>1. ASSUME NEW p \in Place PROVE InPixels(p) \in Place
    <2>1. \A d \in XY : p[d] \in Int /\ Unit \in Int
      BY UploadAssumption DEF Place
    <2>2. \A d \in XY : p[d] * Unit \in Int
      BY <2>1
    <2> QED
      BY <2>2 DEF InPixels, Place
  <1> QED
    BY <1>1, UploadAssumption DEF Place

LEMMA StrokesTyped ==
    ASSUME strokes \in 0..MaxStroke, Stroke \/ Slash
    PROVE  strokes' \in 0..MaxStroke
  BY UploadAssumption DEF Stroke, Slash

LEMMA NoneIsNoFile == None \notin File /\ \A r : r \in Ratio /\ r # None => r \in Nat \ {0}
  BY UploadAssumption

LEMMA FileTaken ==
    ASSUME UploadInv, NEW f \in File, FileSelected(f)
    PROVE  UploadInv'
  <1>1. strokes' \in 0..MaxStroke
    BY StrokesTyped DEF UploadInv, UploadType, FileSelected
  <1> QED
    BY <1>1, NoneIsNoFile DEF UploadInv, UploadType, FileSelected

(* The file is read, its size is known, Crop is closed. *)
LEMMA Plain ==
    ASSUME UploadInv, FileRead \/ ImageLoaded \/ CropCancelled \/ Uploaded \/ Confirm
    PROVE  UploadInv'
  <1> USE DEF UploadInv, UploadType
  <1>1. CASE FileRead
    BY <1>1 DEF FileRead
  <1>2. CASE ImageLoaded
    BY <1>2 DEF ImageLoaded
  <1>3. CASE CropCancelled
    BY <1>3 DEF CropCancelled, Closed
  <1>4. CASE Uploaded
    BY <1>4 DEF Uploaded, Closed
  <1>5. CASE Confirm
    <2>1. CASE CropRegion(Selection) = None
      BY <1>5, <2>1 DEF Confirm
    <2>2. CASE CropRegion(Selection) # None
      BY <1>5, <2>2 DEF Confirm, Confirmed, Closed
    <2> QED
      BY <2>1, <2>2
  <1> QED
    BY <1>1, <1>2, <1>3, <1>4, <1>5

LEMMA UploadGone ==
    ASSUME UploadInv, Gone, strokes' \in 0..MaxStroke, ratio' \in Ratio
    PROVE  UploadInv'
  BY DEF UploadInv, UploadType, Gone, Closed

(* The pointer is on the picture as far as it is shown. *)
LEMMA AtIs ==
    ASSUME UploadInv, source \in File, NEW p \in Point
    PROVE  Clamped(InPixels(p), Zero, Bounds) \in Place /\ On(Clamped(InPixels(p), Zero, Bounds), source)
  <1>1. loaded => source # None
    BY DEF UploadInv, UploadType
  <1>2. Bounds \in [XY -> Nat] /\ \A d \in XY : Bounds[d] \in {0, Full(source)[d]}
    BY <1>1, BoundsTyped
  <1> HIDE DEF Bounds
  <1>3. InPixels(p) \in Place /\ Bounds \in Place
    BY <1>2, PixelsPlace DEF Place
  <1>4. /\ Clamped(InPixels(p), Zero, Bounds) \in Place
        /\ \A d \in XY : Clamped(InPixels(p), Zero, Bounds)[d] = Least(Most(InPixels(p)[d], 0), Bounds[d])
    BY <1>3, ClampedIs, ZeroPlace
  <1>5. ASSUME NEW d \in XY
        PROVE  /\ 0 <= Least(Most(InPixels(p)[d], 0), Bounds[d])
               /\ Least(Most(InPixels(p)[d], 0), Bounds[d]) <= Full(source)[d]
    <2>1. InPixels(p)[d] \in Int /\ Bounds[d] \in {0, Full(source)[d]} /\ Full(source)[d] \in Nat
      BY <1>2, <1>3, FullTyped DEF Place
    <2> QED
      BY <2>1 DEF Least, Most
  <1> QED
    BY <1>4, <1>5 DEF On

(* What a step marks, and on what. *)
LEMMA Marking ==
    ASSUME UploadInv,
           UNCHANGED <<source, data, uploading, scales, loaded, empty>>,
           ratio' \in Ratio, strokes' \in 0..MaxStroke, dragging' \in BOOLEAN,
           source \in File, origin' \in File \cup {None},
           drag' # None => drag' \in Extent,
           drag' # None /\ origin' # None => On(drag'.p1, origin') /\ On(drag'.p2, origin'),
           grip' = None \/ (grip' = grip /\ dragging'),
           dragging' /\ grip' = None /\ drag' # None => origin' = source
    PROVE  UploadInv'
  <1>1. source # None
    BY NoneIsNoFile
  <1> QED
    BY <1>1 DEF UploadInv, UploadType, Extent, Place

LEMMA Pressed ==
    ASSUME UploadInv, NEW p \in Point, PointerDown(p)
    PROVE  UploadInv'
  <1> DEFINE at == Clamped(InPixels(p), Zero, Bounds)
  <1>1. source \in File /\ ratio' \in Ratio /\ grip = None
    BY DEF UploadInv, UploadType, PointerDown
  <1>2. strokes' \in 0..MaxStroke
    BY StrokesTyped DEF UploadInv, UploadType, PointerDown
  <1>3. at \in Place /\ On(at, source)
    BY <1>1, AtIs
  <1> HIDE DEF at
  <1>4. drag' = [p1 |-> at, p2 |-> at] /\ origin' = source
    BY DEF PointerDown, Mark, at
  <1>5. drag' \in Extent /\ On(drag'.p1, origin') /\ On(drag'.p2, origin')
    BY <1>3, <1>4 DEF Extent
  <1>6. /\ UNCHANGED <<source, data, uploading, scales, loaded, empty>>
        /\ dragging' \in BOOLEAN /\ grip' = None
    BY <1>1 DEF PointerDown
  <1>7. origin' \in File \cup {None}
    BY <1>1, <1>4
  <1> QED
    BY <1>1, <1>2, <1>4, <1>5, <1>6, <1>7, Marking

LEMMA SelectionIs ==
    ASSUME UploadInv, drag # None
    PROVE  Selection \in Marked /\ (origin # None => Rests(Selection, origin))
  <1>1. drag \in Extent /\ ratio \in Ratio /\ origin \in File \cup {None}
    BY DEF UploadInv, UploadType, Extent, Place
  <1>2. Selection = FromExtent(drag)
    BY DEF Selection
  <1>3. origin # None => On(drag.p1, origin) /\ On(drag.p2, origin)
    BY DEF UploadInv
  <1> QED
    BY <1>1, <1>2, <1>3, FromExtentIs

LEMMA Grasped ==
    ASSUME UploadInv, MoveStart \/ \E dir \in Dir : ResizeStart(dir)
    PROVE  UploadInv'
  <1>1. Selection \in Marked /\ (origin # None => Rests(Selection, origin))
    BY SelectionIs DEF MoveStart, ResizeStart
  <1>2. PICK dir \in Way : grip' = [selection |-> Selection, dir |-> dir, origin |-> origin]
    <2>1. Zero \in Way /\ Dir \subseteq Way
      BY DEF Zero, Way, Dir
    <2> QED
      BY <2>1 DEF MoveStart, ResizeStart
  <1> HIDE DEF Selection
  <1>3. strokes' \in 0..MaxStroke
    BY StrokesTyped DEF UploadInv, UploadType, MoveStart, ResizeStart
  <1>4. /\ source # None /\ dragging' = TRUE
        /\ UNCHANGED <<source, data, uploading, drag, scales, ratio, loaded, empty, origin>>
    BY DEF MoveStart, ResizeStart
  <1>5. origin \in File \cup {None}
    BY DEF UploadInv, UploadType
  <1> DEFINE g == [selection |-> Selection, dir |-> dir, origin |-> origin]
  <1>6. /\ g \in [selection : Marked, dir : Way, origin : File \cup {None}]
        /\ g.selection = Selection /\ g.origin = origin /\ g.dir \in Way
    BY <1>1, <1>5
  <1>7. grip' = g
    BY <1>2
  <1> HIDE DEF g
  <1>8. g \in Held
    BY <1>6 DEF Held, Marked, Place, Way
  <1>9. UploadType'
    BY <1>3, <1>4, <1>7, <1>8 DEF UploadInv, UploadType
  <1>10. grip' # None
    BY <1>7, <1>8, UploadAssumption
  <1> QED
    BY <1>1, <1>4, <1>6, <1>7, <1>9, <1>10 DEF UploadInv

LEMMA GrippedIs ==
    ASSUME UploadInv, source \in File, grip # None, Able, NEW by \in [XY -> Pull]
    PROVE  /\ Gripped(by) \in Marked
           /\ grip.origin = source /\ ~Spills => Rests(Gripped(by), source)
  <1>1. /\ grip.selection \in Marked /\ grip.dir \in Way
        /\ grip.origin = source => Rests(grip.selection, source)
    BY NoneIsNoFile DEF UploadInv, UploadType, Held, Marked, Way, Place
  <1>2. InPixels(by) \in Place
    BY PixelsPlace
  <1>3. ratio \in Ratio /\ source \in File \cup {None} /\ (loaded => source # None)
    BY DEF UploadInv, UploadType
  <1>4. CASE Resizing
    <2>1. Gripped(by) = Resized(grip.selection, grip.dir, InPixels(by))
      BY <1>4 DEF Gripped
    <2>2. ~Spills => ~Sideways(grip.dir)
      BY <1>4 DEF Spills, Sideways
    <2> QED
      BY <1>1, <1>2, <1>3, <2>1, <2>2, ResizedIs
  <1>5. CASE ~Resizing
    <2>1. Gripped(by) = Moved(grip.selection, InPixels(by))
      BY <1>5 DEF Gripped
    <2>2. \A d \in XY : grip.selection.size[d] <= Bounds[d]
      BY <1>5 DEF Able
    <2> QED
      BY <1>1, <1>2, <1>3, <2>1, <2>2, MovedIs
  <1> QED
    BY <1>4, <1>5

(* What is marked with a grip. *)
LEMMA Regripped ==
    ASSUME UploadInv, source \in File, grip # None, Able, NEW by \in [XY -> Pull],
           Remark(ToExtent(Gripped(by)))
    PROVE  /\ drag' \in Extent /\ origin' \in File \cup {None}
           /\ origin' # None => On(drag'.p1, origin') /\ On(drag'.p2, origin')
  <1>1. /\ Gripped(by) \in Marked
        /\ grip.origin = source /\ ~Spills => Rests(Gripped(by), source)
    BY GrippedIs
  <1> HIDE DEF Gripped
  <1>2. drag' = ToExtent(Gripped(by))
    BY DEF Remark
  <1>3. origin' = IF Spills \/ grip.origin # source THEN None ELSE source
    BY DEF Remark
  <1>4. /\ drag' \in Extent
        /\ Rests(Gripped(by), source) => On(drag'.p1, source) /\ On(drag'.p2, source)
    BY <1>1, <1>2, ToExtentIs
  <1>5. CASE Spills \/ grip.origin # source
    BY <1>3, <1>4, <1>5
  <1>6. CASE ~Spills /\ grip.origin = source
    BY <1>1, <1>3, <1>4, <1>6
  <1> QED
    BY <1>5, <1>6

LEMMA Pulls ==
    ASSUME UploadInv, NEW by \in [XY -> Pull], PointerMove(by) \/ PointerUp(by)
    PROVE  UploadInv'
  <1>1. source \in File /\ grip # None /\ Able /\ dragging = TRUE
    BY DEF UploadInv, UploadType, PointerMove, PointerUp
  <1>2. /\ UNCHANGED <<source, data, uploading, scales, loaded, empty>>
        /\ ratio' \in Ratio /\ strokes' \in 0..MaxStroke
        /\ dragging' \in BOOLEAN
        /\ (grip' = None /\ dragging' = FALSE) \/ (grip' = grip /\ dragging' = TRUE)
    <2>1. ratio \in Ratio /\ strokes \in 0..MaxStroke
      BY DEF UploadInv, UploadType
    <2>2. CASE PointerMove(by)
      BY <1>1, <2>1, <2>2 DEF PointerMove
    <2>3. CASE PointerUp(by)
      BY <1>1, <2>1, <2>3 DEF PointerUp
    <2> QED
      BY <2>2, <2>3
  <1>3. ~(dragging' /\ grip' = None)
    BY <1>1, <1>2
  <1>4. grip' = None \/ (grip' = grip /\ dragging')
    BY <1>2
  <1>5. CASE Remark(ToExtent(Gripped(by)))
    <2>1. /\ drag' \in Extent /\ origin' \in File \cup {None}
          /\ origin' # None => On(drag'.p1, origin') /\ On(drag'.p2, origin')
      BY <1>1, <1>5, Regripped
    <2> QED
      BY <1>1, <1>2, <1>3, <1>4, <2>1, Marking
  <1>6. CASE Remark(None)
    <2>1. drag' = None /\ origin' \in File \cup {None}
      BY <1>1, <1>6 DEF Remark
    <2> QED
      BY <1>1, <1>2, <1>3, <1>4, <2>1, Marking
  <1> QED
    BY <1>5, <1>6 DEF PointerMove, PointerUp

LEMMA Draws ==
    ASSUME UploadInv, NEW p \in Point, DrawTo(p) \/ DrawnTo(p)
    PROVE  UploadInv'
  <1> DEFINE to == Clamped(InPixels(p), Zero, Bounds)
             e == [drag EXCEPT !.p2 = to]
  <1>1. /\ source \in File /\ grip = None /\ drag # None /\ drag \in Extent
        /\ origin = source
    BY DEF UploadInv, UploadType, Extent, Place, DrawTo, DrawnTo
  <1>2. to \in Place /\ On(to, source)
    BY <1>1, AtIs
  <1> HIDE DEF to
  <1>3. e \in Extent /\ e.p1 = drag.p1 /\ e.p2 = to
    BY <1>1, <1>2 DEF Extent
  <1>4. On(drag.p1, source)
    BY <1>1, NoneIsNoFile DEF UploadInv
  <1>5. On(e.p1, source) /\ On(e.p2, source)
    BY <1>2, <1>3, <1>4
  <1>6. /\ UNCHANGED <<source, data, uploading, scales, loaded, empty, grip>>
        /\ ratio' \in Ratio /\ strokes' \in 0..MaxStroke /\ dragging' \in BOOLEAN
        /\ Remark(e) \/ Remark(None)
    BY DEF UploadInv, UploadType, DrawTo, DrawnTo, to
  <1>7. origin' = source /\ (drag' = e \/ drag' = None)
    BY <1>1, <1>6 DEF Remark
  <1> HIDE DEF e
  <1>8. grip' = None /\ origin' = source' /\ origin' \in File \cup {None}
    BY <1>1, <1>6, <1>7
  <1>9. /\ drag' # None => drag' \in Extent
        /\ drag' # None /\ origin' # None => On(drag'.p1, origin') /\ On(drag'.p2, origin')
    BY <1>3, <1>5, <1>7
  <1> QED
    BY <1>1, <1>6, <1>8, <1>9, Marking

LEMMA Centers ==
    ASSUME UploadInv, SelectAll \/ Rescale, strokes' \in 0..MaxStroke
    PROVE  UploadInv'
  <1>1. /\ source \in File /\ ratio' \in Ratio /\ ratio \in Ratio
        /\ loaded => source # None
        /\ UNCHANGED <<source, data, uploading, scales, loaded, empty, grip, dragging>>
        /\ dragging' \in BOOLEAN /\ (grip # None => dragging)
    BY DEF UploadInv, UploadType, SelectAll, Rescale, Mark
  <1>2. PICK r \in Ratio : Mark(ToExtent(MaxCentered(r)))
    BY <1>1, UploadAssumption DEF SelectAll, Rescale
  <1>3. /\ MaxCentered(r) \in Marked
        /\ source \in File => Rests(MaxCentered(r), source)
    BY <1>1, MaxCenteredIs
  <1> HIDE DEF MaxCentered
  <1>4. drag' \in Extent /\ On(drag'.p1, source) /\ On(drag'.p2, source) /\ origin' = source
    BY <1>1, <1>2, <1>3, ToExtentIs DEF Mark
  <1>5. grip' = None \/ (grip' = grip /\ dragging')
    BY <1>1
  <1>6. origin' = source' /\ origin' \in File \cup {None}
    BY <1>1, <1>4
  <1> QED
    BY <1>1, <1>4, <1>5, <1>6, Marking

LEMMA CropSteps ==
    ASSUME UploadInv, CropNext
    PROVE  UploadInv'
  <1>1. ASSUME SelectAll PROVE UploadInv'
    <2>1. strokes' \in 0..MaxStroke
      BY <1>1 DEF SelectAll, UploadInv, UploadType
    <2> QED
      BY <1>1, <2>1, Centers
  <1> QED
    BY <1>1, FileTaken, Plain, Pressed, Grasped, Pulls, Draws DEF CropNext

(* What is marked on a picture lies on it. *)
LEMMA FitsOf == ASSUME UploadInv PROVE CropFits
  <1> SUFFICES ASSUME loaded, drag # None, origin = source, NEW d \in XY
               PROVE  Selection.pos[d] >= 0 /\ Selection.pos[d] + Selection.size[d] <= Bounds[d]
    BY DEF CropFits
  <1>1. source \in File
    BY DEF UploadInv, UploadType
  <1>2. Rests(Selection, source)
    BY <1>1, SelectionIs, NoneIsNoFile
  <1>3. Bounds = Full(source)
    BY <1>1, BoundsTyped, NoneIsNoFile
  <1> HIDE DEF Selection, Bounds
  <1> QED
    BY <1>2, <1>3 DEF Rests

-----------------------------------------------------------------------------
(* Lists of messages. *)

Listed(s) == s \in Seq(ToSet(s))

LEMMA ListedOf == ASSUME NEW S, NEW s \in Seq(S) PROVE Listed(s)
  <1>1. Len(s) \in Nat /\ DOMAIN s = 1..Len(s) /\ s = [i \in 1..Len(s) |-> s[i]]
    OBVIOUS
  <1>2. \A i \in 1..Len(s) : s[i] \in ToSet(s)
    BY <1>1 DEF ToSet
  <1>3. s \in [1..Len(s) -> ToSet(s)]
    BY <1>1, <1>2
  <1> QED
    BY <1>1, <1>3, SeqDef DEF Listed

LEMMA ListedIs ==
    ASSUME NEW s, Listed(s)
    PROVE  /\ Len(s) \in Nat /\ DOMAIN s = 1..Len(s) /\ (s = <<>> <=> Len(s) = 0)
           /\ s # <<>> => Head(s) = s[1]
           /\ \A i \in DOMAIN s : s[i] \in ToSet(s)
  BY DEF Listed, ToSet

LEMMA ListedEmpty == Listed(<<>>) /\ Len(<<>>) = 0 /\ DOMAIN <<>> = {}
  <1>1. <<>> \in Seq({}) /\ Len(<<>>) = 0
    OBVIOUS
  <1>2. Listed(<<>>)
    BY <1>1, ListedOf
  <1> QED
    BY <1>1, <1>2, ListedIs

LEMMA ListedMade ==
    ASSUME NEW n \in Nat, NEW s, s = [i \in 1..n |-> s[i]]
    PROVE  Listed(s) /\ Len(s) = n
  <1>1. s \in [1..n -> {s[i] : i \in 1..n}]
    BY Zenon
  <1>2. s \in Seq({s[i] : i \in 1..n}) /\ Len(s) = n
    BY <1>1
  <1> QED
    BY <1>2, ListedOf

LEMMA ListedOne == ASSUME NEW x PROVE Listed(<<x>>) /\ Len(<<x>>) = 1 /\ <<x>>[1] = x
  <1>1. <<x>> \in Seq({x}) /\ Len(<<x>>) = 1 /\ <<x>>[1] = x
    OBVIOUS
  <1> QED
    BY <1>1, ListedOf

LEMMA ListedTwo ==
    ASSUME NEW x, NEW y
    PROVE  Listed(<<x, y>>) /\ Len(<<x, y>>) = 2 /\ <<x, y>>[1] = x /\ <<x, y>>[2] = y
  <1>1. <<x, y>> \in Seq({x, y}) /\ Len(<<x, y>>) = 2 /\ <<x, y>>[1] = x /\ <<x, y>>[2] = y
    OBVIOUS
  <1> QED
    BY <1>1, ListedOf

(* Some messages after others. *)
LEMMA ListedJoin ==
    ASSUME NEW s, NEW t, Listed(s), Listed(t)
    PROVE  /\ Listed(s \o t) /\ Len(s \o t) = Len(s) + Len(t)
           /\ \A i \in 1..Len(s) : (s \o t)[i] = s[i]
           /\ \A i \in 1..Len(t) : (s \o t)[Len(s) + i] = t[i]
           /\ \A i \in 1..Len(s) + Len(t) :
                i \in 1..Len(s) \/ \E j \in 1..Len(t) : i = Len(s) + j
  <1> DEFINE S == ToSet(s) \cup ToSet(t)
  <1>1. s \in Seq(ToSet(s)) /\ t \in Seq(ToSet(t))
    BY DEF Listed
  <1>2. s \in Seq(S) /\ t \in Seq(S)
    BY <1>1, SeqMonotonic
  <1> HIDE DEF S
  <1>3. /\ s \o t \in Seq(S) /\ Len(s \o t) = Len(s) + Len(t)
        /\ \A i \in 1..Len(s) + Len(t) : (s \o t)[i] = IF i <= Len(s) THEN s[i] ELSE t[i - Len(s)]
    BY <1>2, ConcatProperties
  <1>4. Len(s) \in Nat /\ Len(t) \in Nat
    BY ListedIs
  <1>5. ASSUME NEW i \in 1..Len(t) PROVE (s \o t)[Len(s) + i] = t[i]
    <2>1. Len(s) + i \in 1..Len(s) + Len(t) /\ ~(Len(s) + i <= Len(s)) /\ Len(s) + i - Len(s) = i
      BY <1>4
    <2> QED
      BY <1>3, <2>1
  <1>6. ASSUME NEW i \in 1..Len(s) + Len(t), i \notin 1..Len(s) PROVE \E j \in 1..Len(t) : i = Len(s) + j
    <2>1. i - Len(s) \in 1..Len(t) /\ i = Len(s) + (i - Len(s))
      BY <1>4, <1>6
    <2> QED
      BY <2>1
  <1>7. \A i \in 1..Len(s) : (s \o t)[i] = s[i]
    BY <1>3, <1>4
  <1>8. Listed(s \o t)
    BY <1>3, ListedOf
  <1> QED
    BY <1>3, <1>5, <1>6, <1>7, <1>8

LEMMA ListedAppend ==
    ASSUME NEW s, NEW x, Listed(s)
    PROVE  /\ Listed(Append(s, x)) /\ Len(Append(s, x)) = Len(s) + 1
           /\ \A i \in 1..Len(s) : Append(s, x)[i] = s[i]
           /\ Append(s, x)[Len(s) + 1] = x
  <1> DEFINE S == ToSet(s) \cup {x}
  <1>1. s \in Seq(ToSet(s))
    BY DEF Listed
  <1>2. s \in Seq(S) /\ x \in S
    BY <1>1, SeqMonotonic
  <1> HIDE DEF S
  <1>3. /\ Append(s, x) \in Seq(S) /\ Len(Append(s, x)) = Len(s) + 1
        /\ \A i \in 1..Len(s) : Append(s, x)[i] = s[i]
        /\ Append(s, x)[Len(s) + 1] = x
    BY <1>2
  <1> QED
    BY <1>3, ListedOf

(* The first is taken off. *)
LEMMA ListedTail ==
    ASSUME NEW s, Listed(s), s # <<>>
    PROVE  /\ Listed(Tail(s)) /\ Len(Tail(s)) = Len(s) - 1 /\ Len(s) >= 1
           /\ \A i \in 1..Len(s) - 1 : Tail(s)[i] = s[i + 1]
  <1>1. s \in Seq(ToSet(s))
    BY DEF Listed
  <1>2. /\ Tail(s) \in Seq(ToSet(s)) /\ Len(Tail(s)) = Len(s) - 1
        /\ \A i \in 1..Len(Tail(s)) : Tail(s)[i] = s[i + 1]
    BY <1>1, HeadTailProperties
  <1>3. Len(s) \in Nat /\ Len(s) # 0
    BY ListedIs
  <1>4. Listed(Tail(s))
    BY <1>2, ListedOf
  <1> QED
    BY <1>2, <1>3, <1>4

LEMMA ListedInsert ==
    ASSUME NEW s, NEW i, NEW x, Listed(s), i \in 1..Len(s) + 1
    PROVE  /\ Listed(InsertAt(s, i, x)) /\ Len(InsertAt(s, i, x)) = Len(s) + 1
           /\ InsertAt(s, i, x)[i] = x
           /\ \A j \in 1..Len(s) : j < i => InsertAt(s, i, x)[j] = s[j]
           /\ \A j \in 1..Len(s) : j >= i => InsertAt(s, i, x)[j + 1] = s[j]
  <1> DEFINE a == SubSeq(s, 1, i - 1)
             b == SubSeq(s, i, Len(s))
             n == Len(s)
  <1>1. n \in Nat /\ DOMAIN s = 1..n /\ \A j \in 1..n : s[j] \in ToSet(s)
    BY ListedIs
  <1>2. a \in Seq(ToSet(s)) /\ Len(a) = i - 1 /\ \A j \in 1..i - 1 : a[j] = s[j]
    <2>1. 1 \in Int /\ i - 1 \in Int /\ \A j \in 1..i - 1 : s[j] \in ToSet(s)
      BY <1>1
    <2>2. /\ a \in Seq(ToSet(s)) /\ Len(a) = IF 1 <= i - 1 THEN i - 1 - 1 + 1 ELSE 0
          /\ \A j \in 1..i - 1 - 1 + 1 : a[j] = s[1 + j - 1]
      BY <2>1, SubSeqProperties
    <2> HIDE DEF a
    <2> QED
      BY <1>1, <2>2
  <1>3. b \in Seq(ToSet(s)) /\ Len(b) = n - i + 1 /\ \A j \in 1..n - i + 1 : b[j] = s[i + j - 1]
    <2>1. i \in Int /\ n \in Int /\ \A j \in i..n : s[j] \in ToSet(s)
      BY <1>1
    <2>2. /\ b \in Seq(ToSet(s)) /\ Len(b) = IF i <= n THEN n - i + 1 ELSE 0
          /\ \A j \in 1..n - i + 1 : b[j] = s[i + j - 1]
      BY <2>1, SubSeqProperties
    <2> HIDE DEF b
    <2> QED
      BY <1>1, <2>2
  <1>4. Listed(a) /\ Listed(b) /\ Listed(<<x>>) /\ Len(<<x>>) = 1 /\ <<x>>[1] = x
    BY <1>2, <1>3, ListedOf, ListedOne
  <1>5. InsertAt(s, i, x) = (a \o <<x>>) \o b
    BY DEF InsertAt
  <1> HIDE DEF a, b
  <1> DEFINE c == a \o <<x>>
  <1>6. Listed(c) /\ Len(c) = i /\ c[i] = x /\ \A j \in 1..i - 1 : c[j] = s[j]
    <2>1. /\ Listed(c) /\ Len(c) = i - 1 + 1
          /\ \A j \in 1..i - 1 : c[j] = a[j]
          /\ \A j \in 1..1 : c[i - 1 + j] = <<x>>[j]
      BY <1>2, <1>4, ListedJoin
    <2> HIDE DEF c
    <2>2. c[i - 1 + 1] = x
      BY <1>4, <2>1
    <2>3. i - 1 + 1 = i
      BY <1>1
    <2> QED
      BY <1>2, <2>1, <2>2, <2>3
  <1> HIDE DEF c
  <1> DEFINE t == c \o b
  <1>7. /\ Listed(t) /\ Len(t) = i + (n - i + 1)
        /\ \A j \in 1..i : t[j] = c[j]
        /\ \A j \in 1..n - i + 1 : t[i + j] = b[j]
    BY <1>3, <1>4, <1>6, ListedJoin
  <1> HIDE DEF t
  <1>8. ASSUME NEW j \in 1..n, j >= i PROVE t[j + 1] = s[j]
    <2> DEFINE k == j - i + 1
    <2>1. k \in 1..n - i + 1 /\ i + k = j + 1 /\ i + k - 1 = j
      BY <1>1, <1>8
    <2> HIDE DEF k
    <2>2. t[i + k] = b[k] /\ b[k] = s[i + k - 1]
      BY <1>3, <1>7, <2>1
    <2> QED
      BY <2>1, <2>2
  <1>9. /\ Len(t) = n + 1 /\ t[i] = x
        /\ \A j \in 1..n : j < i => t[j] = s[j]
    <2>1. i \in 1..i /\ \A j \in 1..n : j < i => j \in 1..i - 1 /\ j \in 1..i
      BY <1>1
    <2>2. Len(t) = n + 1
      BY <1>1, <1>7
    <2> QED
      BY <1>6, <1>7, <2>1, <2>2
  <1>10. InsertAt(s, i, x) = t
    BY <1>5 DEF t, c
  <1> QED
    BY <1>7, <1>8, <1>9, <1>10

-----------------------------------------------------------------------------
(* What the queues hold. *)

Fit(c, x) == c = "ratio" => x \in Ratio

(* An update sets cells of its view, or one of them, if that is a Map. *)
Sets(v, sets) ==
    /\ Listed(sets)
    /\ \A i \in DOMAIN sets : sets[i][1] \in Cells(v) /\ Fit(sets[i][1], sets[i][2])
    /\ KindOf[v] = "map" => Len(sets) = 1

Request(q, m) ==
    /\ m.from \in View /\ PageOf[m.from] = q
    /\ \/ m.kind = "update" /\ Sets(m.from, m.sets)
       \/ m.kind = "get" /\ m = [kind |-> "get", from |-> m.from, live |-> m.live]

Word(m) ==
    /\ m.kind = "broadcast"
    /\ m.from \in View /\ m.cell \in Cells(m.from) /\ Fit(m.cell, m.value)

Reply(q, m) ==
    /\ m.kind = "answer"
    /\ m = [kind |-> "answer", from |-> m.from, live |-> m.live, cells |-> m.cells]
    /\ m.from \in View /\ PageOf[m.from] = q
    /\ DOMAIN m.cells = Cells(m.from)
    /\ "ratio" \in DOMAIN m.cells => m.cells["ratio"] \in Ratio

Asked(q, s) == Listed(s) /\ \A i \in DOMAIN s : Request(q, s[i])

Told(q, s) == Listed(s) /\ \A i \in DOMAIN s : Word(s[i]) /\ PageOf[s[i].from] = q

Brought(q, s) == Listed(s) /\ \A i \in DOMAIN s : Word(s[i]) \/ Reply(q, s[i])

LEMMA NothingQueued == \A q : Asked(q, <<>>) /\ Told(q, <<>>) /\ Brought(q, <<>>)
  BY ListedEmpty DEF Asked, Told, Brought

LEMMA AskedMore ==
    ASSUME NEW q, NEW s, NEW t, Asked(q, s), Asked(q, t)
    PROVE  Asked(q, s \o t)
  <1>1. Listed(s) /\ Listed(t) /\ DOMAIN s = 1..Len(s) /\ DOMAIN t = 1..Len(t)
    BY ListedIs DEF Asked
  <1>2. /\ Listed(s \o t) /\ DOMAIN (s \o t) = 1..Len(s) + Len(t)
        /\ \A i \in 1..Len(s) : (s \o t)[i] = s[i]
        /\ \A i \in 1..Len(t) : (s \o t)[Len(s) + i] = t[i]
        /\ \A i \in 1..Len(s) + Len(t) :
                i \in 1..Len(s) \/ \E j \in 1..Len(t) : i = Len(s) + j
    BY <1>1, ListedJoin, ListedIs
  <1>3. ASSUME NEW i \in 1..Len(s) + Len(t) PROVE Request(q, (s \o t)[i])
    BY <1>1, <1>2, Zenon DEF Asked
  <1> QED
    BY <1>2, <1>3 DEF Asked

(* What is left when the first is taken off. *)
LEMMA Lessened ==
    ASSUME NEW s, Listed(s), s # <<>>
    PROVE  /\ Listed(Tail(s)) /\ 1 \in DOMAIN s /\ Head(s) = s[1]
           /\ \A i \in DOMAIN Tail(s) : i + 1 \in DOMAIN s /\ Tail(s)[i] = s[i + 1]
           /\ DOMAIN Tail(s) = 1..Len(s) - 1
  <1>1. /\ Listed(Tail(s)) /\ Len(Tail(s)) = Len(s) - 1 /\ Len(s) >= 1
        /\ \A i \in 1..Len(s) - 1 : Tail(s)[i] = s[i + 1]
    BY ListedTail
  <1>2. DOMAIN s = 1..Len(s) /\ Head(s) = s[1] /\ Len(s) \in Nat /\ DOMAIN Tail(s) = 1..Len(s) - 1
    BY <1>1, ListedIs
  <1> QED
    BY <1>1, <1>2

LEMMA QueuedLess ==
    ASSUME NEW q, NEW s, s # <<>>
    PROVE  /\ Asked(q, s) => Asked(q, Tail(s)) /\ Request(q, Head(s))
           /\ Told(q, s) => Told(q, Tail(s)) /\ Word(Head(s)) /\ PageOf[Head(s).from] = q
           /\ Brought(q, s) => Brought(q, Tail(s)) /\ (Word(Head(s)) \/ Reply(q, Head(s)))
  BY Lessened DEF Asked, Told, Brought

LEMMA BroughtMore ==
    ASSUME NEW q, NEW s, NEW m, Brought(q, s), Word(m)
    PROVE  Brought(q, Append(s, m))
  <1>1. Listed(s) /\ DOMAIN s = 1..Len(s) /\ Len(s) \in Nat
    BY ListedIs DEF Brought
  <1>2. /\ Listed(Append(s, m)) /\ DOMAIN Append(s, m) = 1..Len(s) + 1
        /\ \A i \in 1..Len(s) : Append(s, m)[i] = s[i]
        /\ Append(s, m)[Len(s) + 1] = m
    BY <1>1, ListedAppend, ListedIs
  <1>3. ASSUME NEW i \in 1..Len(s) + 1 PROVE Word(Append(s, m)[i]) \/ Reply(q, Append(s, m)[i])
    <2>1. i \in 1..Len(s) \/ i = Len(s) + 1
      BY <1>1
    <2> QED
      BY <1>1, <1>2, <2>1, Zenon DEF Brought
  <1> QED
    BY <1>2, <1>3 DEF Brought

(* Where what was in a queue is when something has been put in. *)
LEMMA Inserted ==
    ASSUME NEW s, NEW i, NEW m, Listed(s), i \in 1..Len(s) + 1
    PROVE  /\ Listed(InsertAt(s, i, m)) /\ i \in DOMAIN InsertAt(s, i, m)
           /\ InsertAt(s, i, m)[i] = m
           /\ \A j \in DOMAIN s : j < i => j \in DOMAIN InsertAt(s, i, m) /\ InsertAt(s, i, m)[j] = s[j]
           /\ \A j \in DOMAIN s : j >= i =>
                j + 1 \in DOMAIN InsertAt(s, i, m) /\ InsertAt(s, i, m)[j + 1] = s[j]
           /\ \A k \in DOMAIN InsertAt(s, i, m) :
                \/ k = i
                \/ k \in DOMAIN s /\ k < i
                \/ \E j \in DOMAIN s : j >= i /\ k = j + 1
  <1> DEFINE t == InsertAt(s, i, m)
  <1>1. /\ Listed(t) /\ Len(t) = Len(s) + 1 /\ t[i] = m
        /\ \A j \in 1..Len(s) : j < i => t[j] = s[j]
        /\ \A j \in 1..Len(s) : j >= i => t[j + 1] = s[j]
    <2>1. Listed(t) /\ Len(t) = Len(s) + 1 /\ t[i] = m
      BY ListedInsert
    <2>2. \A j \in 1..Len(s) : j < i => t[j] = s[j]
      BY ListedInsert
    <2>3. \A j \in 1..Len(s) : j >= i => t[j + 1] = s[j]
      BY ListedInsert
    <2> QED
      BY <2>1, <2>2, <2>3
  <1> HIDE DEF t
  <1>2. DOMAIN s = 1..Len(s) /\ Len(s) \in Nat /\ DOMAIN t = 1..Len(s) + 1
    BY <1>1, ListedIs
  <1>3. ASSUME NEW k \in DOMAIN t, k # i, ~(k \in DOMAIN s /\ k < i)
        PROVE  \E j \in DOMAIN s : j >= i /\ k = j + 1
    <2>1. k - 1 \in DOMAIN s /\ k - 1 >= i /\ k = (k - 1) + 1
      BY <1>2, <1>3
    <2> QED
      BY <2>1
  <1>4. /\ i \in DOMAIN t
        /\ \A j \in DOMAIN s : j < i => j \in DOMAIN t /\ t[j] = s[j]
        /\ \A j \in DOMAIN s : j >= i => j + 1 \in DOMAIN t /\ t[j + 1] = s[j]
    BY <1>1, <1>2
  <1> QED
    BY <1>1, <1>3, <1>4 DEF t

LEMMA BroughtBetween ==
    ASSUME NEW q, NEW s, NEW m, Brought(q, s), Reply(q, m), NEW i \in 1..Len(s) + 1
    PROVE  Brought(q, InsertAt(s, i, m))
  <1> DEFINE t == InsertAt(s, i, m)
  <1>1. Listed(s)
    BY DEF Brought
  <1>2. /\ Listed(t) /\ t[i] = m
        /\ \A j \in DOMAIN s : j < i => t[j] = s[j]
        /\ \A j \in DOMAIN s : j >= i => t[j + 1] = s[j]
        /\ \A k \in DOMAIN t :
                \/ k = i
                \/ k \in DOMAIN s /\ k < i
                \/ \E j \in DOMAIN s : j >= i /\ k = j + 1
    <2>1. Listed(t) /\ t[i] = m /\ \A j \in DOMAIN s : j < i => t[j] = s[j]
      BY <1>1, Inserted
    <2>2. \A j \in DOMAIN s : j >= i => t[j + 1] = s[j]
      BY <1>1, Inserted
    <2>3. \A k \in DOMAIN t :
                \/ k = i
                \/ k \in DOMAIN s /\ k < i
                \/ \E j \in DOMAIN s : j >= i /\ k = j + 1
      BY <1>1, Inserted
    <2> QED
      BY <2>1, <2>2, <2>3
  <1> HIDE DEF t
  <1>3. ASSUME NEW k \in DOMAIN t PROVE Word(t[k]) \/ Reply(q, t[k])
    <2>1. CASE k = i
      BY <1>2, <2>1
    <2>2. CASE k \in DOMAIN s /\ k < i
      BY <1>2, <2>2 DEF Brought
    <2>3. CASE \E j \in DOMAIN s : j >= i /\ k = j + 1
      BY <1>2, <2>3 DEF Brought
    <2> QED
      BY <1>2, <2>1, <2>2, <2>3
  <1>4. Brought(q, t)
    BY <1>2, <1>3 DEF Brought
  <1> QED
    BY <1>4 DEF t

(* What a closed view does not hear stays where it is. *)
Muted(v, m) ==
    IF m.kind \in {"get", "answer"} /\ m.from = v THEN [m EXCEPT !.live = FALSE] ELSE m

LEMMA UnheardIs ==
    ASSUME NEW v, NEW s, Listed(s)
    PROVE  /\ Listed(Unheard(v, s)) /\ DOMAIN Unheard(v, s) = DOMAIN s
           /\ \A i \in DOMAIN s : Unheard(v, s)[i] = Muted(v, s[i])
  <1>1. Len(s) \in Nat /\ DOMAIN s = 1..Len(s)
    BY ListedIs
  <1>2. /\ DOMAIN Unheard(v, s) = DOMAIN s
        /\ \A i \in DOMAIN s : Unheard(v, s)[i] = Muted(v, s[i])
        /\ Unheard(v, s) = [i \in DOMAIN s |-> Unheard(v, s)[i]]
    BY DEF Unheard, Muted
  <1>3. Listed(Unheard(v, s))
    BY <1>1, <1>2, ListedMade
  <1> QED
    BY <1>2, <1>3

LEMMA MutedRequest ==
    ASSUME NEW q, NEW v, NEW m, Request(q, m)
    PROVE  /\ Request(q, Muted(v, m))
           /\ m.kind = "update" => Muted(v, m) = m
           /\ m.kind = "get" => /\ Muted(v, m).kind = "get" /\ Muted(v, m).from = m.from
                                /\ m.from # v => Muted(v, m).live = m.live
  BY DEF Request, Muted

LEMMA MutedNews ==
    ASSUME NEW q, NEW v, NEW m, Word(m) \/ Reply(q, m)
    PROVE  /\ Word(m) => Muted(v, m) = m
           /\ Reply(q, m) => /\ Reply(q, Muted(v, m)) /\ Muted(v, m).from = m.from
                             /\ Muted(v, m).cells = m.cells
                             /\ m.from # v => Muted(v, m).live = m.live
  BY DEF Word, Reply, Muted

LEMMA QueuedUnheard ==
    ASSUME NEW q, NEW v, NEW s
    PROVE  /\ Asked(q, s) => Asked(q, Unheard(v, s))
           /\ Brought(q, s) => Brought(q, Unheard(v, s))
  <1>1. ASSUME Asked(q, s) PROVE Asked(q, Unheard(v, s))
    BY <1>1, UnheardIs, MutedRequest DEF Asked
  <1>2. ASSUME Brought(q, s) PROVE Brought(q, Unheard(v, s))
    BY <1>2, UnheardIs, MutedNews DEF Brought
  <1> QED
    BY <1>1, <1>2

-----------------------------------------------------------------------------
(* What the views show. *)

Looks(v, w) ==
    /\ w = [channel |-> w.channel, shown |-> w.shown, off |-> w.off]
    /\ w.channel \in {"none", "new", "lost", "open"}
    /\ DOMAIN w.shown = Cell /\ w.shown["ratio"] \in Ratio
    /\ w.off \subseteq Cells(v)
    /\ KindOf[v] = "form" => w.off \subseteq {"image"}
    /\ KindOf[v] = "map" => w.channel \in {"lost", "open"}

(* A background's form is wrong in nothing. *)
Views ==
    /\ DOMAIN view = View
    /\ \A v \in View :
        /\ Looks(v, view[v])
        /\ view[v].channel = "open" => PageOf[v] \in open
        /\ KindOf[v] = "form" /\ ~scales /\ ratio = None => view[v].off = {}

Queues ==
    /\ DOMAIN up = Page /\ DOMAIN telling = Page /\ DOMAIN down = Page
    /\ \A q \in Page :
        /\ Asked(q, up[q]) /\ Told(q, telling[q]) /\ Brought(q, down[q])
        /\ q \notin open => up[q] = <<>> /\ telling[q] = <<>> /\ down[q] = <<>>

Stored ==
    /\ DOMAIN kept = Cell /\ kept["ratio"] \in Ratio
    /\ DOMAIN said \subseteq Cell
    /\ open \subseteq Page

FormsTyped == Stored /\ Queues /\ Views

LEMMA OverIs ==
    ASSUME NEW f, NEW g
    PROVE  /\ DOMAIN Over(f, g) = DOMAIN f \cup DOMAIN g
           /\ \A c \in DOMAIN f : Over(f, g)[c] = f[c]
           /\ \A c \in DOMAIN g \ DOMAIN f : Over(f, g)[c] = g[c]
  BY DEF Over

LEMMA JustIs == ASSUME NEW c, NEW x PROVE DOMAIN Just(c, x) = {c} /\ Just(c, x)[c] = x
  BY DEF Just

LEMMA CellsAre ==
    /\ \A v \in View : Cells(v) \subseteq Cell /\ (KindOf[v] = "status" => Cells(v) = {"setting"})
    /\ \A v \in View : KindOf[v] # "status" => Cells(v) = {"hidden", "height", "width", "ratio", "image"}
    /\ Cell = {"hidden", "height", "width", "ratio", "image", "setting"}
  BY DEF Cells, Cell

(* Requests that hold a cell. *)
Mentions(requests, c) ==
    \E i \in DOMAIN requests : \E j \in DOMAIN requests[i].sets : requests[i].sets[j][1] = c

(* Updates of a view. *)
Ours(v, requests) ==
    /\ Asked(PageOf[v], requests)
    /\ \A i \in DOMAIN requests : requests[i].kind = "update" /\ requests[i].from = v

(* They are sent. *)
Posts(v, requests) ==
    /\ DOMAIN up' = Page
    /\ \A p \in Page :
        up'[p] = IF p = PageOf[v] /\ view[v].channel = "open" THEN up[p] \o requests ELSE up[p]

(* A view shows something else, and sends what is not as it was. *)
Reshows(v, w, requests) ==
    /\ v \in View /\ Looks(v, w) /\ w.channel = view[v].channel
    /\ KindOf[v] = "form" /\ ~scales /\ ratio = None => w.off = {}
    /\ DOMAIN view' = View /\ view'[v] = w /\ \A u \in View \ {v} : view'[u] = view[u]
    /\ Posts(v, requests)
    /\ UNCHANGED <<kept, saved, unsaved, said, open, telling, down>>
    /\ Ours(v, requests)
    /\ \A c \in Cells(v) :
        \/ Mentions(requests, c)
        \/ c \in w.off
        \/ w.shown[c] = view[v].shown[c] /\ c \notin view[v].off
    /\ KindOf[v] = "map" =>
        /\ Len(requests) = 1
        /\ \A c \in Cells(v) :
            IF requests[1].sets[1][1] = c THEN w.shown[c] = requests[1].sets[1][2]
            ELSE w.shown[c] = view[v].shown[c] /\ (c \in view[v].off <=> c \in w.off)

(* What makes an edit one of these. *)
Sends(v, cells, requests) ==
    /\ v \in View /\ DOMAIN cells \subseteq Cells(v)
    /\ "ratio" \in DOMAIN cells => cells["ratio"] \in Ratio
    /\ Ours(v, requests)
    /\ \A c \in DOMAIN cells :
        Mentions(requests, c) \/ (cells[c] = view[v].shown[c] /\ c \notin view[v].off)
    /\ KindOf[v] = "map" =>
        /\ Len(requests) = 1
        /\ DOMAIN cells = {requests[1].sets[1][1]}
        /\ \A c \in DOMAIN cells : cells[c] = requests[1].sets[1][2]

LEMMA SendPosts ==
    ASSUME Queues, NEW v \in View, NEW requests, Send(v, requests)
    PROVE  Posts(v, requests)
  <1>1. DOMAIN up = Page /\ PageOf[v] \in Page
    BY FormsAssumption DEF Queues
  <1> QED
    BY <1>1 DEF Send, Posts

LEMMA EditReshows ==
    ASSUME Views, Queues, NEW v, NEW cells, NEW requests, Sends(v, cells, requests), Edit(v, cells, requests)
    PROVE  \E w : Reshows(v, w, requests)
  <1> DEFINE old == view[v]
             w == [channel |-> old.channel, shown |-> Over(cells, old.shown), off |-> old.off \ DOMAIN cells]
  <1>1. /\ v \in View /\ Looks(v, old) /\ DOMAIN view = View
        /\ KindOf[v] = "form" /\ ~scales /\ ratio = None => old.off = {}
    BY DEF Sends, Views
  <1>2. /\ DOMAIN cells \subseteq Cells(v) /\ Cells(v) \subseteq Cell
        /\ "ratio" \in DOMAIN cells => cells["ratio"] \in Ratio
    BY <1>1, CellsAre DEF Sends
  <1>3. DOMAIN view' = View /\ view'[v] = w /\ \A u \in View \ {v} : view'[u] = view[u]
    <2>1. old = [channel |-> old.channel, shown |-> old.shown, off |-> old.off]
      BY <1>1 DEF Looks
    <2>2. view' = [view EXCEPT ![v].shown = Over(cells, @), ![v].off = @ \ DOMAIN cells]
      BY DEF Edit
    <2>3. view'[v] = [[old EXCEPT !.shown = Over(cells, @)] EXCEPT !.off = @ \ DOMAIN cells]
      BY <1>1, <2>2
    <2>4. [old EXCEPT !.shown = Over(cells, @)]
            = [channel |-> old.channel, shown |-> Over(cells, old.shown), off |-> old.off]
      BY <2>1
    <2>5. view'[v] = w
      BY <2>3, <2>4
    <2> QED
      BY <1>1, <2>2, <2>5
  <1>4. /\ DOMAIN old.shown = Cell /\ old.shown["ratio"] \in Ratio
        /\ old.off \subseteq Cells(v)
        /\ KindOf[v] = "form" => old.off \subseteq {"image"}
        /\ KindOf[v] = "map" => old.channel \in {"lost", "open"}
        /\ old.channel \in {"none", "new", "lost", "open"}
    BY <1>1 DEF Looks
  <1> HIDE DEF old
  <1>5. /\ w = [channel |-> w.channel, shown |-> w.shown, off |-> w.off]
        /\ w.channel = old.channel /\ w.shown = Over(cells, old.shown) /\ w.off = old.off \ DOMAIN cells
    OBVIOUS
  <1> HIDE DEF w
  <1>6. /\ DOMAIN w.shown = Cell
        /\ \A c \in DOMAIN cells : w.shown[c] = cells[c]
        /\ \A c \in Cell \ DOMAIN cells : w.shown[c] = old.shown[c]
    <2>1. /\ DOMAIN w.shown = DOMAIN cells \cup Cell
          /\ \A c \in DOMAIN cells : w.shown[c] = cells[c]
          /\ \A c \in Cell \ DOMAIN cells : w.shown[c] = old.shown[c]
      <3>1. /\ DOMAIN Over(cells, old.shown) = DOMAIN cells \cup DOMAIN old.shown
            /\ \A c \in DOMAIN cells : Over(cells, old.shown)[c] = cells[c]
            /\ \A c \in DOMAIN old.shown \ DOMAIN cells : Over(cells, old.shown)[c] = old.shown[c]
        BY OverIs
      <3> QED
        BY <1>4, <1>5, <3>1
    <2> QED
      BY <1>2, <2>1
  <1>7. w.shown["ratio"] \in Ratio
    <2>1. "ratio" \in Cell
      BY DEF Cell
    <2> QED
      BY <1>2, <1>4, <1>6, <2>1
  <1>8. Looks(v, w)
    BY <1>4, <1>5, <1>6, <1>7 DEF Looks
  <1>9. ASSUME NEW c \in Cells(v)
        PROVE  \/ Mentions(requests, c)
               \/ c \in w.off
               \/ w.shown[c] = old.shown[c] /\ c \notin old.off
    <2>1. CASE c \in DOMAIN cells
      BY <1>6, <2>1 DEF Sends, old
    <2>2. CASE c \notin DOMAIN cells
      BY <1>2, <1>5, <1>6, <2>2
    <2> QED
      BY <2>1, <2>2
  <1>10. ASSUME KindOf[v] = "map"
         PROVE  /\ Len(requests) = 1
                /\ \A c \in Cells(v) :
                    IF requests[1].sets[1][1] = c THEN w.shown[c] = requests[1].sets[1][2]
                    ELSE w.shown[c] = old.shown[c] /\ (c \in old.off <=> c \in w.off)
    <2>1. /\ Len(requests) = 1
          /\ DOMAIN cells = {requests[1].sets[1][1]}
          /\ \A c \in DOMAIN cells : cells[c] = requests[1].sets[1][2]
      BY <1>10 DEF Sends
    <2> QED
      BY <1>2, <1>5, <1>6, <2>1
  <1>11. Ours(v, requests)
    BY DEF Sends
  <1>12. Posts(v, requests) /\ UNCHANGED <<kept, saved, unsaved, said, open, telling, down>>
    BY <1>1, SendPosts DEF Edit
  <1>13. KindOf[v] = "form" /\ ~scales /\ ratio = None => w.off = {}
    BY <1>1, <1>5 DEF old
  <1> QED
    BY <1>1, <1>3, <1>5, <1>8, <1>9, <1>10, <1>11, <1>12, <1>13 DEF Reshows, old

LEMMA SetsOne ==
    ASSUME NEW v, NEW c \in Cells(v), NEW x, Fit(c, x)
    PROVE  Sets(v, <<<<c, x>>>>) /\ <<<<c, x>>>>[1][1] = c /\ <<<<c, x>>>>[1][2] = x
  <1>1. Listed(<<<<c, x>>>>) /\ Len(<<<<c, x>>>>) = 1 /\ <<<<c, x>>>>[1] = <<c, x>>
    BY ListedOne
  <1>2. DOMAIN <<<<c, x>>>> = {1}
    BY <1>1, ListedIs
  <1>3. <<c, x>>[1] = c /\ <<c, x>>[2] = x
    BY ListedTwo
  <1> QED
    BY <1>1, <1>2, <1>3 DEF Sets

LEMMA SetsTwo ==
    ASSUME NEW v, NEW c \in Cells(v), NEW x, Fit(c, x), NEW d \in Cells(v), NEW y, Fit(d, y),
           KindOf[v] # "map"
    PROVE  /\ Sets(v, <<<<c, x>>, <<d, y>>>>)
           /\ <<<<c, x>>, <<d, y>>>>[1][1] = c /\ <<<<c, x>>, <<d, y>>>>[2][1] = d
           /\ DOMAIN <<<<c, x>>, <<d, y>>>> = {1, 2}
  <1> DEFINE s == <<<<c, x>>, <<d, y>>>>
  <1>1. Listed(s) /\ Len(s) = 2 /\ s[1] = <<c, x>> /\ s[2] = <<d, y>>
    BY ListedTwo
  <1>2. DOMAIN s = {1, 2}
    <2>1. 1..2 = {1, 2}
      OBVIOUS
    <2> QED
      BY <1>1, <2>1, ListedIs
  <1>3. <<c, x>>[1] = c /\ <<c, x>>[2] = x /\ <<d, y>>[1] = d /\ <<d, y>>[2] = y
    BY ListedTwo
  <1> HIDE DEF s
  <1>4. Sets(v, s) /\ s[1][1] = c /\ s[2][1] = d
    BY <1>1, <1>2, <1>3 DEF Sets
  <1> QED
    BY <1>2, <1>4 DEF s

LEMMA UpdateIs ==
    ASSUME NEW v \in View, NEW sets, Sets(v, sets)
    PROVE  /\ Update(v, sets).kind = "update" /\ Update(v, sets).from = v /\ Update(v, sets).sets = sets
           /\ Request(PageOf[v], Update(v, sets))
           /\ Asked(PageOf[v], <<Update(v, sets)>>)
           /\ Len(<<Update(v, sets)>>) = 1 /\ DOMAIN <<Update(v, sets)>> = {1}
           /\ <<Update(v, sets)>>[1] = Update(v, sets)
  <1> DEFINE m == Update(v, sets)
  <1>1. m.kind = "update" /\ m.from = v /\ m.sets = sets
    BY DEF Update
  <1> HIDE DEF m
  <1>2. Request(PageOf[v], m)
    BY <1>1 DEF Request
  <1>3. Listed(<<m>>) /\ Len(<<m>>) = 1 /\ <<m>>[1] = m
    BY ListedOne
  <1>4. DOMAIN <<m>> = {1}
    BY <1>3, ListedIs
  <1>5. Asked(PageOf[v], <<m>>)
    BY <1>2, <1>3, <1>4 DEF Asked
  <1> QED
    BY <1>1, <1>2, <1>3, <1>4, <1>5 DEF m

(* One cell of its own. *)
LEMMA OneSends ==
    ASSUME NEW v \in View, NEW c \in Cells(v), NEW x, Fit(c, x)
    PROVE  Sends(v, Just(c, x), <<Update(v, <<<<c, x>>>>)>>)
  <1> DEFINE sets == <<<<c, x>>>>
             requests == <<Update(v, sets)>>
  <1>1. Sets(v, sets) /\ sets[1][1] = c /\ sets[1][2] = x /\ Len(sets) = 1 /\ DOMAIN sets = {1}
    <2>1. Len(sets) = 1 /\ Listed(sets)
      BY ListedOne
    <2> QED
      BY <2>1, SetsOne, ListedIs
  <1> HIDE DEF sets
  <1>2. /\ Asked(PageOf[v], requests) /\ Len(requests) = 1 /\ DOMAIN requests = {1}
        /\ requests[1].kind = "update" /\ requests[1].from = v /\ requests[1].sets = sets
    BY <1>1, UpdateIs
  <1> HIDE DEF requests
  <1>3. Mentions(requests, c)
    BY <1>1, <1>2 DEF Mentions
  <1>4. DOMAIN Just(c, x) = {c} /\ Just(c, x)[c] = x
    BY JustIs
  <1>5. Sends(v, Just(c, x), requests)
    BY <1>1, <1>2, <1>3, <1>4 DEF Sends, Ours, Fit
  <1> QED
    BY <1>5 DEF requests, sets

LEMMA ChangeReshows ==
    ASSUME Views, Queues, NEW v \in View, NEW c \in Cells(v), NEW x, Fit(c, x), Change(v, c, x)
    PROVE  \E w, requests : Reshows(v, w, requests)
  <1>1. Sends(v, Just(c, x), <<Update(v, <<<<c, x>>>>)>>)
    BY OneSends
  <1>2. Edit(v, Just(c, x), <<Update(v, <<<<c, x>>>>)>>)
    BY DEF Change
  <1> QED
    BY <1>1, <1>2, EditReshows

LEMMA ToggleReshows ==
    ASSUME Views, Queues, NEW v \in View, NEW x,
           ToggleHidden(v, x) \/ BooleanChanged(v, x) \/ SettingChanged(v, x) \/ (KindOf[v] = "status" /\ Toggle(v))
    PROVE  \E w, requests : Reshows(v, w, requests)
  <1>1. ASSUME NEW y, SettingChanged(v, y) PROVE \E w, requests : Reshows(v, w, requests)
    <2>1. "setting" \in Cells(v) /\ Fit("setting", y) /\ Change(v, "setting", y)
      BY <1>1, CellsAre DEF SettingChanged, Fit
    <2> QED
      BY <2>1, ChangeReshows
  <1>2. ASSUME ToggleHidden(v, x) \/ BooleanChanged(v, x) PROVE \E w, requests : Reshows(v, w, requests)
    <2>1. "hidden" \in Cells(v) /\ Fit("hidden", x) /\ Change(v, "hidden", x)
      BY <1>2, CellsAre DEF ToggleHidden, BooleanChanged, Form, Fit
    <2> QED
      BY <2>1, ChangeReshows
  <1> QED
    BY <1>1, <1>2 DEF Toggle

LEMMA OursMore ==
    ASSUME NEW v, NEW s, NEW t, Ours(v, s), Ours(v, t)
    PROVE  /\ Ours(v, s \o t)
           /\ \A c : Mentions(s, c) \/ Mentions(t, c) => Mentions(s \o t, c)
  <1> DEFINE u == s \o t
  <1>1. Asked(PageOf[v], s) /\ Asked(PageOf[v], t) /\ Asked(PageOf[v], u)
    BY AskedMore DEF Ours
  <1>2. Listed(s) /\ Listed(t) /\ DOMAIN s = 1..Len(s) /\ DOMAIN t = 1..Len(t)
    BY <1>1, ListedIs DEF Asked
  <1>3. /\ Listed(u) /\ Len(u) = Len(s) + Len(t)
        /\ \A i \in 1..Len(s) : u[i] = s[i]
        /\ \A i \in 1..Len(t) : u[Len(s) + i] = t[i]
        /\ \A i \in 1..Len(s) + Len(t) :
                i \in 1..Len(s) \/ \E j \in 1..Len(t) : i = Len(s) + j
    BY <1>2, ListedJoin
  <1>4. DOMAIN u = 1..Len(s) + Len(t) /\ Len(s) \in Nat /\ Len(t) \in Nat
    BY <1>2, <1>3, ListedIs
  <1> HIDE DEF u
  <1>5. ASSUME NEW i \in DOMAIN u PROVE u[i].kind = "update" /\ u[i].from = v
    <2>1. i \in 1..Len(s) \/ \E j \in 1..Len(t) : i = Len(s) + j
      BY <1>3, <1>4
    <2>2. CASE i \in 1..Len(s)
      BY <1>2, <1>3, <2>2 DEF Ours
    <2>3. ASSUME NEW j \in 1..Len(t), i = Len(s) + j PROVE u[i].kind = "update" /\ u[i].from = v
      BY <1>2, <1>3, <2>3 DEF Ours
    <2> QED
      BY <2>1, <2>2, <2>3
  <1>6. ASSUME NEW c, Mentions(s, c) PROVE Mentions(u, c)
    <2>1. PICK i \in 1..Len(s) : \E j \in DOMAIN s[i].sets : s[i].sets[j][1] = c
      BY <1>2, <1>6 DEF Mentions
    <2>2. i \in DOMAIN u /\ u[i] = s[i]
      BY <1>3, <1>4
    <2> QED
      BY <2>1, <2>2 DEF Mentions
  <1>7. ASSUME NEW c, Mentions(t, c) PROVE Mentions(u, c)
    <2>1. PICK i \in 1..Len(t) : \E j \in DOMAIN t[i].sets : t[i].sets[j][1] = c
      BY <1>2, <1>7 DEF Mentions
    <2>2. Len(s) + i \in DOMAIN u /\ u[Len(s) + i] = t[i]
      BY <1>3, <1>4
    <2> QED
      BY <2>1, <2>2 DEF Mentions
  <1>8. Ours(v, u)
    BY <1>1, <1>5 DEF Ours, u
  <1> QED
    BY <1>6, <1>7, <1>8 DEF u

(* None, or one of a cell. *)
LEMMA OursFew ==
    ASSUME NEW v \in View
    PROVE  /\ Ours(v, <<>>)
           /\ \A c \in Cells(v) : \A x : Fit(c, x) =>
                /\ Ours(v, <<Update(v, <<<<c, x>>>>)>>)
                /\ Mentions(<<Update(v, <<<<c, x>>>>)>>, c)
  <1>1. Ours(v, <<>>)
    BY NothingQueued, ListedEmpty DEF Ours
  <1>2. ASSUME NEW c \in Cells(v), NEW x, Fit(c, x)
        PROVE  /\ Ours(v, <<Update(v, <<<<c, x>>>>)>>)
               /\ Mentions(<<Update(v, <<<<c, x>>>>)>>, c)
    <2>1. Sends(v, Just(c, x), <<Update(v, <<<<c, x>>>>)>>)
      BY <1>2, OneSends
    <2> DEFINE sets == <<<<c, x>>>>
               requests == <<Update(v, sets)>>
    <2>2. Sets(v, sets) /\ sets[1][1] = c /\ DOMAIN sets = {1}
      <3>1. Len(sets) = 1 /\ Listed(sets)
        BY ListedOne
      <3> QED
        BY <1>2, <3>1, SetsOne, ListedIs
    <2> HIDE DEF sets
    <2>3. DOMAIN requests = {1} /\ requests[1].sets = sets
      BY <2>2, UpdateIs
    <2> HIDE DEF requests
    <2>4. Mentions(requests, c)
      BY <2>2, <2>3 DEF Mentions
    <2> QED
      BY <2>1, <2>4 DEF Sends, requests, sets
  <1> QED
    BY <1>1, <1>2

LEMMA FloatReshows ==
    ASSUME Views, Queues, NEW v \in View, NEW c \in {"height", "width"}, NEW x, FloatChanged(v, c, x)
    PROVE  \E w, requests : Reshows(v, w, requests)
  <1> DEFINE r == Of(v).ratio
             other == IF c = "height" THEN "width" ELSE "height"
             follows == IF c = "height" THEN x * r ELSE x \div r
             first == IF r = None THEN <<>> ELSE <<Update(v, <<<<other, follows>>>>)>>
             last == IF Of(v)[c] = x THEN <<>> ELSE <<Update(v, <<<<c, x>>>>)>>
             cells == IF r = None THEN Just(c, x) ELSE Over(Just(c, x), Just(other, follows))
  <1>1. Form(v) /\ Edit(v, cells, first \o last)
    BY DEF FloatChanged
  <1>2. KindOf[v] = "form" /\ view[v].off \subseteq {"image"}
    BY <1>1 DEF Form, Views, Looks
  <1>3. /\ c \in Cells(v) /\ other \in Cells(v) /\ c # other
        /\ Fit(c, x) /\ Fit(other, follows)
    BY <1>2, CellsAre DEF Fit
  <1>4. other \in {"height", "width"}
    OBVIOUS
  <1> HIDE DEF follows, other, r
  <1>5. /\ Ours(v, first) /\ Ours(v, last)
        /\ r # None => Mentions(first, other)
        /\ Of(v)[c] # x => Mentions(last, c)
    BY <1>3, OursFew
  <1> HIDE DEF first, last
  <1>6. /\ DOMAIN cells = IF r = None THEN {c} ELSE {c, other}
        /\ cells[c] = x
    <2>1. /\ DOMAIN Just(c, x) = {c} /\ Just(c, x)[c] = x
          /\ DOMAIN Just(other, follows) = {other}
      BY JustIs
    <2>2. /\ DOMAIN Over(Just(c, x), Just(other, follows)) = {c} \cup {other}
          /\ Over(Just(c, x), Just(other, follows))[c] = x
      <3> DEFINE f == Just(c, x)
                 g == Just(other, follows)
      <3>1. DOMAIN f = {c} /\ f[c] = x /\ DOMAIN g = {other}
        BY <2>1
      <3> HIDE DEF f, g
      <3>2. DOMAIN Over(f, g) = DOMAIN f \cup DOMAIN g /\ \A d \in DOMAIN f : Over(f, g)[d] = f[d]
        BY OverIs
      <3>3. DOMAIN Over(f, g) = {c} \cup {other} /\ Over(f, g)[c] = x
        BY <3>1, <3>2
      <3> QED
        BY <3>3 DEF f, g
    <2> QED
      BY <2>1, <2>2
  <1> HIDE DEF cells
  <1>7. /\ Ours(v, first \o last)
        /\ \A d : Mentions(first, d) \/ Mentions(last, d) => Mentions(first \o last, d)
    BY <1>5, OursMore
  <1>8. \A d \in DOMAIN cells :
            Mentions(first \o last, d) \/ (cells[d] = view[v].shown[d] /\ d \notin view[v].off)
    <2>1. Mentions(first \o last, c) \/ (cells[c] = view[v].shown[c] /\ c \notin view[v].off)
      BY <1>2, <1>5, <1>6, <1>7 DEF Of
    <2>2. r # None => Mentions(first \o last, other)
      BY <1>5, <1>7
    <2> QED
      BY <1>6, <2>1, <2>2
  <1>9. DOMAIN cells \subseteq Cells(v) /\ ("ratio" \in DOMAIN cells => cells["ratio"] \in Ratio)
    BY <1>3, <1>4, <1>6
  <1>10. Sends(v, cells, first \o last)
    BY <1>2, <1>7, <1>8, <1>9 DEF Sends
  <1> QED
    BY <1>1, <1>10, EditReshows

LEMMA FixedRatioReshows ==
    ASSUME Views, Queues, NEW v \in View, NEW r \in Choice[v]["ratio"], FixedRatioChanged(v, r)
    PROVE  \E w, requests : Reshows(v, w, requests)
  <1>1. Form(v) /\ Edit(v, Just("ratio", r), <<Update(v, <<<<"ratio", r>>>>)>>)
    BY DEF FixedRatioChanged
  <1>2. "ratio" \in Cells(v) /\ Fit("ratio", r)
    BY <1>1, CellsAre, FormsAssumption DEF Form, Fit
  <1>3. Sends(v, Just("ratio", r), <<Update(v, <<<<"ratio", r>>>>)>>)
    BY <1>2, OneSends
  <1> QED
    BY <1>1, <1>3, EditReshows

LEMMA RatioReshows ==
    ASSUME Views, Queues, NEW v \in View, KindOf[v] = "form", NEW r \in Ratio, RatioTaken(v, r)
    PROVE  \E w, requests : Reshows(v, w, requests)
  <1> DEFINE width == Of(v).height * r
             same == Of(v).ratio = r /\ Of(v).width = width
             sets == <<<<"ratio", r>>, <<"width", width>>>>
             update == Update(v, sets)
             requests == IF same THEN <<>> ELSE <<update>>
             f == Just("ratio", r)
             g == Just("width", width)
             cells == Over(f, g)
  <1>1. Edit(v, cells, requests)
    BY DEF RatioTaken
  <1>2. view[v].off \subseteq {"image"}
    BY DEF Views, Looks
  <1>3. "ratio" \in Cells(v) /\ "width" \in Cells(v)
    BY CellsAre
  <1>4. cells["ratio"] = r /\ cells["width"] = width /\ DOMAIN cells = {"ratio", "width"}
    <2>1. /\ DOMAIN f = {"ratio"} /\ f["ratio"] = r
          /\ DOMAIN g = {"width"} /\ g["width"] = width
      BY JustIs
    <2> HIDE DEF f, g, width
    <2>2. /\ DOMAIN cells = DOMAIN f \cup DOMAIN g
          /\ \A c \in DOMAIN f : cells[c] = f[c]
          /\ \A c \in DOMAIN g \ DOMAIN f : cells[c] = g[c]
      BY OverIs
    <2> HIDE DEF cells
    <2> QED
      BY <2>1, <2>2
  <1> HIDE DEF width, cells, f, g
  <1>5. Sets(v, sets) /\ sets[1][1] = "ratio" /\ sets[2][1] = "width" /\ DOMAIN sets = {1, 2}
    <2>1. Fit("ratio", r) /\ Fit("width", width)
      BY DEF Fit
    <2> QED
      BY <1>3, <2>1, SetsTwo
  <1> HIDE DEF sets
  <1>6. /\ Ours(v, <<update>>)
        /\ Mentions(<<update>>, "ratio") /\ Mentions(<<update>>, "width")
    <2>1. /\ update.kind = "update" /\ update.from = v /\ update.sets = sets
          /\ Asked(PageOf[v], <<update>>) /\ DOMAIN <<update>> = {1} /\ <<update>>[1] = update
      BY <1>5, UpdateIs
    <2> HIDE DEF update
    <2> QED
      BY <1>5, <2>1 DEF Ours, Mentions
  <1> HIDE DEF update
  <1>7. Ours(v, requests) /\ (~same => Mentions(requests, "ratio") /\ Mentions(requests, "width"))
    BY <1>6, OursFew
  <1> HIDE DEF requests
  <1>8. \A c \in DOMAIN cells :
            Mentions(requests, c) \/ (cells[c] = view[v].shown[c] /\ c \notin view[v].off)
    <2>1. CASE same
      BY <1>2, <1>4, <2>1 DEF Of
    <2>2. CASE ~same
      BY <1>4, <1>7, <2>2
    <2> QED
      BY <2>1, <2>2
  <1>9. Sends(v, cells, requests)
    BY <1>3, <1>4, <1>7, <1>8 DEF Sends
  <1> QED
    BY <1>1, <1>9, EditReshows

(* The other images are only shown, until the backend says so. *)
LEMMA ImageReshows ==
    ASSUME Views, Queues, NEW v \in View, KindOf[v] = "form", NEW i, Take(v, i)
    PROVE  \E w, requests : Reshows(v, w, requests)
  <1> DEFINE requests == <<Update(v, <<<<"image", i>>>>)>>
             old == view[v]
  <1>1. "image" \in Cells(v) /\ Fit("image", i)
    BY CellsAre DEF Fit
  <1>2. /\ Ours(v, <<>>) /\ Ours(v, requests) /\ Mentions(requests, "image")
        /\ Sends(v, Just("image", i), requests)
    BY <1>1, OursFew, OneSends
  <1>3. /\ Looks(v, old) /\ DOMAIN view = View
        /\ ~scales /\ ratio = None => old.off = {}
    BY DEF Views
  <1>4. CASE ~scales /\ ratio = None
    <2>1. RemoteIdChanged(v, i) /\ old.off = {}
      BY <1>3, <1>4 DEF Take
    <2>2. CASE Of(v).image = i
      <3>1. DOMAIN Just("image", i) = {"image"} /\ Just("image", i)["image"] = i
        BY JustIs
      <3>2. Sends(v, Just("image", i), <<>>)
        BY <1>1, <1>2, <2>1, <2>2, <3>1 DEF Sends, Of
      <3> QED
        BY <2>1, <2>2, <3>2, EditReshows DEF RemoteIdChanged
    <2>3. CASE Of(v).image # i
      BY <1>2, <2>1, <2>3, EditReshows DEF RemoteIdChanged
    <2> QED
      BY <2>2, <2>3
  <1>5. CASE ~(~scales /\ ratio = None)
    <2> DEFINE off == IF Of(v).image = i THEN old.off ELSE old.off \cup {"image"}
               w == [channel |-> old.channel, shown |-> [old.shown EXCEPT !["image"] = i], off |-> off]
               sent == IF Of(v).image = i THEN requests ELSE <<>>
    <2>1. ImageChanged(v, i)
      BY <1>5 DEF Take
    <2>2. DOMAIN view' = View /\ view'[v] = w /\ \A u \in View \ {v} : view'[u] = view[u]
      <3>1. view' = [view EXCEPT ![v].shown["image"] = i, ![v].off = IF Of(v).image = i THEN @ ELSE @ \cup {"image"}]
        BY <2>1 DEF ImageChanged
      <3>2. old = [channel |-> old.channel, shown |-> old.shown, off |-> old.off]
        BY <1>3 DEF Looks
      <3>3. view'[v] = [[old EXCEPT !.shown["image"] = i] EXCEPT !.off = IF Of(v).image = i THEN @ ELSE @ \cup {"image"}]
        BY <1>3, <3>1
      <3>4. [old EXCEPT !.shown["image"] = i]
              = [channel |-> old.channel, shown |-> [old.shown EXCEPT !["image"] = i], off |-> old.off]
        BY <3>2
      <3>5. view'[v] = w
        BY <3>3, <3>4
      <3> QED
        BY <1>3, <3>1, <3>5
    <2>3. /\ DOMAIN old.shown = Cell /\ old.shown["ratio"] \in Ratio
          /\ old.off \subseteq {"image"} /\ old.channel \in {"none", "new", "lost", "open"}
      BY <1>3 DEF Looks
    <2>4. /\ w.channel = old.channel /\ w.off = off /\ w.shown = [old.shown EXCEPT !["image"] = i]
          /\ w = [channel |-> w.channel, shown |-> w.shown, off |-> w.off]
      OBVIOUS
    <2> HIDE DEF w
    <2>5. /\ DOMAIN w.shown = Cell /\ w.shown["ratio"] \in Ratio /\ w.shown["image"] = i
          /\ \A c \in Cell \ {"image"} : w.shown[c] = old.shown[c]
      BY <2>3, <2>4 DEF Cell
    <2>6. Looks(v, w)
      BY <1>1, <2>3, <2>4, <2>5 DEF Looks
    <2>7. Posts(v, sent) /\ UNCHANGED <<kept, saved, unsaved, said, open, telling, down>>
      <3>1. CASE Of(v).image = i
        BY <2>1, <3>1, SendPosts DEF ImageChanged
      <3>2. CASE Of(v).image # i
        <4>1. UNCHANGED up /\ sent = <<>>
          BY <2>1, <3>2 DEF ImageChanged
        <4>2. DOMAIN up = Page /\ \A p \in Page : up[p] \o <<>> = up[p]
          BY ConcatEmptySeq DEF Queues, Asked, Listed
        <4>3. Posts(v, <<>>)
          BY <4>1, <4>2 DEF Posts
        <4> QED
          BY <2>1, <4>1, <4>3 DEF ImageChanged
      <3> QED
        BY <3>1, <3>2
    <2>8. Ours(v, sent)
      BY <1>2
    <2>9. ASSUME NEW c \in Cells(v)
          PROVE  \/ Mentions(sent, c)
                 \/ c \in w.off
                 \/ w.shown[c] = old.shown[c] /\ c \notin old.off
      <3>1. CASE c = "image"
        BY <1>2, <2>4, <3>1
      <3>2. CASE c # "image"
        BY <2>3, <2>5, <3>2, CellsAre
      <3> QED
        BY <3>1, <3>2
    <2>10. Reshows(v, w, sent)
      BY <1>5, <2>2, <2>4, <2>6, <2>7, <2>8, <2>9 DEF Reshows
    <2> QED
      BY <2>10
  <1> QED
    BY <1>4, <1>5

(* Whatever is typed or chosen. *)
LEMMA EditsReshow ==
    ASSUME Views, Queues, Edits, ~\E v \in View : Unmount(v)
    PROVE  \E v, w, requests : Reshows(v, w, requests)
  <1>1. PICK v \in View :
            \/ \E x \in Choice[v]["hidden"] : ToggleHidden(v, x) \/ BooleanChanged(v, x)
            \/ \E x \in Choice[v]["setting"] : SettingChanged(v, x)
            \/ KindOf[v] = "status" /\ Toggle(v)
            \/ \E c \in {"height", "width"} : \E x \in Choice[v][c] : FloatChanged(v, c, x)
            \/ \E r \in Choice[v]["ratio"] : FixedRatioChanged(v, r)
            \/ \E i \in Choice[v]["image"] : SelectImage(v, i)
    BY DEF Edits
  <1>2. ASSUME NEW i, SelectImage(v, i) PROVE \E w, requests : Reshows(v, w, requests)
    BY <1>2, ImageReshows DEF SelectImage, Form
  <1>3. \E w, requests : Reshows(v, w, requests)
    BY <1>1, <1>2, ToggleReshows, FloatReshows, FixedRatioReshows
  <1> QED
    BY <1>3

LEMMA EditsCount ==
    ASSUME Edits, strokes \in 0..MaxStroke
    PROVE  strokes' \in 0..MaxStroke
  <1>1. Stroke \/ Slash
    BY DEF Edits, ToggleHidden, BooleanChanged, SettingChanged, Toggle, FloatChanged, FixedRatioChanged,
           SelectImage, Change, Unmount
  <1> QED
    BY <1>1, StrokesTyped

-----------------------------------------------------------------------------
(* The types are kept by each step. *)

(* What no step does: the kind of object does not change. *)
Same == scales' = scales /\ (~scales => ratio' = ratio)

LEMMA TypedReshow ==
    ASSUME FormsTyped, Same, NEW v, NEW w, NEW requests, Reshows(v, w, requests)
    PROVE  FormsTyped'
  <1>1. /\ v \in View /\ Looks(v, w) /\ w.channel = view[v].channel
        /\ KindOf[v] = "form" /\ ~scales /\ ratio = None => w.off = {}
        /\ DOMAIN view' = View /\ view'[v] = w /\ \A u \in View \ {v} : view'[u] = view[u]
        /\ UNCHANGED <<kept, saved, unsaved, said, open, telling, down>>
        /\ Asked(PageOf[v], requests)
    BY DEF Reshows, Ours
  <1>2. /\ DOMAIN up' = Page
        /\ \A p \in Page :
            up'[p] = IF p = PageOf[v] /\ view[v].channel = "open" THEN up[p] \o requests ELSE up[p]
    BY DEF Reshows, Posts
  <1>3. Views'
    BY <1>1 DEF FormsTyped, Views, Same
  <1>4. \A p \in Page : Asked(p, up'[p])
    <2> SUFFICES ASSUME NEW p \in Page PROVE Asked(p, up'[p])
      OBVIOUS
    <2>1. Asked(p, up[p])
      BY DEF FormsTyped, Queues
    <2>2. ASSUME p = PageOf[v] PROVE Asked(p, up[p] \o requests)
      BY <1>1, <2>1, <2>2, AskedMore
    <2> QED
      BY <1>2, <2>1, <2>2
  <1>5. ASSUME NEW p \in Page, p \notin open PROVE up'[p] = <<>>
    <2>1. ~(p = PageOf[v] /\ view[v].channel = "open")
      BY <1>1, <1>5 DEF FormsTyped, Views
    <2> QED
      BY <1>2, <1>5, <2>1 DEF FormsTyped, Queues
  <1>6. Queues'
    BY <1>1, <1>2, <1>4, <1>5 DEF FormsTyped, Queues
  <1>7. Stored'
    BY <1>1 DEF FormsTyped, Stored
  <1> QED
    BY <1>3, <1>6, <1>7 DEF FormsTyped

(* A channel becomes something else. *)
LEMMA Rechanneled ==
    ASSUME Views, NEW v \in View, NEW channel, view' = [view EXCEPT ![v].channel = channel]
    PROVE  /\ DOMAIN view' = View /\ \A u \in View \ {v} : view'[u] = view[u]
           /\ view'[v] = [channel |-> channel, shown |-> view[v].shown, off |-> view[v].off]
  <1>1. /\ DOMAIN view = View
        /\ view[v] = [channel |-> view[v].channel, shown |-> view[v].shown, off |-> view[v].off]
    BY DEF Views, Looks
  <1>2. view'[v] = [view[v] EXCEPT !.channel = channel]
    BY <1>1
  <1> QED
    BY <1>1, <1>2

LEMMA LooksRechanneled ==
    ASSUME NEW v \in View, NEW w, Looks(v, w), NEW channel \in {"none", "new", "lost", "open"},
           KindOf[v] = "map" => channel \in {"lost", "open"}
    PROVE  Looks(v, [channel |-> channel, shown |-> w.shown, off |-> w.off])
  BY DEF Looks

LEMMA TypedChannelOpen ==
    ASSUME FormsTyped, Same, NEW v \in View, ChannelOpen(v)
    PROVE  FormsTyped'
  <1> DEFINE w == [channel |-> "open", shown |-> view[v].shown, off |-> view[v].off]
  <1>1. /\ DOMAIN view' = View /\ view'[v] = w /\ \A u \in View \ {v} : view'[u] = view[u]
    BY Rechanneled DEF FormsTyped, ChannelOpen
  <1>2. Looks(v, w)
    BY LooksRechanneled DEF FormsTyped, Views
  <1>3. w.channel = "open" /\ w.off = view[v].off
    OBVIOUS
  <1> HIDE DEF w
  <1>4. PageOf[v] \in open /\ UNCHANGED <<kept, saved, unsaved, said, open, telling, down>>
    BY DEF ChannelOpen
  <1>5. Views'
    BY <1>1, <1>2, <1>3, <1>4 DEF FormsTyped, Views, Same
  <1>6. Asked(PageOf[v], <<Get(v)>>)
    <2>1. Listed(<<Get(v)>>) /\ DOMAIN <<Get(v)>> = {1} /\ <<Get(v)>>[1] = Get(v)
      BY ListedOne, ListedIs
    <2>2. Request(PageOf[v], Get(v))
      BY DEF Request, Get
    <2> QED
      BY <2>1, <2>2 DEF Asked
  <1>7. DOMAIN up' = Page /\ \A p \in Page :
            up'[p] = IF p = PageOf[v] THEN Append(up[p], Get(v)) ELSE up[p]
    BY DEF ChannelOpen, FormsTyped, Queues
  <1>8. \A p \in Page : Append(up[p], Get(v)) = up[p] \o <<Get(v)>>
    <2> SUFFICES ASSUME NEW p \in Page PROVE Append(up[p], Get(v)) = up[p] \o <<Get(v)>>
      OBVIOUS
    <2>1. up[p] \in Seq(ToSet(up[p]))
      BY DEF FormsTyped, Queues, Asked, Listed
    <2> QED
      BY <2>1
  <1>9. \A p \in Page : Asked(p, up'[p])
    <2> SUFFICES ASSUME NEW p \in Page PROVE Asked(p, up'[p])
      OBVIOUS
    <2>1. Asked(p, up[p])
      BY DEF FormsTyped, Queues
    <2>2. ASSUME p = PageOf[v] PROVE Asked(p, up[p] \o <<Get(v)>>)
      BY <1>6, <2>1, <2>2, AskedMore
    <2> QED
      BY <1>7, <1>8, <2>1, <2>2
  <1>10. Queues'
    BY <1>4, <1>7, <1>9 DEF FormsTyped, Queues
  <1>11. Stored'
    BY <1>4 DEF FormsTyped, Stored
  <1> QED
    BY <1>5, <1>10, <1>11 DEF FormsTyped

LEMMA TypedMount ==
    ASSUME FormsTyped, Same, NEW v \in View, Mount(v)
    PROVE  FormsTyped'
  <1> DEFINE w == [channel |-> "new", shown |-> view[v].shown, off |-> view[v].off]
  <1>1. /\ DOMAIN view' = View /\ view'[v] = w /\ \A u \in View \ {v} : view'[u] = view[u]
    BY Rechanneled DEF FormsTyped, Mount
  <1>2. view[v].channel = "none"
    BY DEF Mount, Mounted
  <1>3. KindOf[v] # "map"
    BY <1>2 DEF FormsTyped, Views, Looks
  <1>4. Looks(v, w)
    BY <1>3, LooksRechanneled DEF FormsTyped, Views
  <1>5. w.channel = "new" /\ w.off = view[v].off
    OBVIOUS
  <1> HIDE DEF w
  <1>6. UNCHANGED <<kept, saved, unsaved, said, open, up, telling, down>>
    BY DEF Mount
  <1>7. Views'
    BY <1>1, <1>4, <1>5, <1>6 DEF FormsTyped, Views, Same
  <1> QED
    BY <1>6, <1>7 DEF FormsTyped, Queues, Stored

LEMMA TypedUnmount ==
    ASSUME FormsTyped, Same, NEW v \in View, Unmount(v)
    PROVE  FormsTyped'
  <1> DEFINE w == [channel |-> "none", shown |-> First, off |-> {}]
             q == PageOf[v]
  <1>1. q \in Page
    BY FormsAssumption
  <1>2. KindOf[v] # "map" /\ UNCHANGED <<kept, saved, unsaved, said, open, telling>>
    BY DEF Unmount
  <1>3. DOMAIN view' = View /\ view'[v] = w /\ \A u \in View \ {v} : view'[u] = view[u]
    BY DEF Unmount, FormsTyped, Views
  <1>4. Looks(v, w)
    BY <1>2, FormsAssumption DEF Looks
  <1>5. w.channel = "none" /\ w.off = {}
    OBVIOUS
  <1> HIDE DEF w
  <1>6. Views'
    BY <1>2, <1>3, <1>4, <1>5 DEF FormsTyped, Views, Same
  <1>7. /\ DOMAIN up' = Page /\ DOMAIN down' = Page
        /\ \A p \in Page : up'[p] = IF p = q THEN Unheard(v, up[p]) ELSE up[p]
        /\ \A p \in Page : down'[p] = IF p = q THEN Unheard(v, down[p]) ELSE down[p]
    BY DEF Unmount, FormsTyped, Queues
  <1>8. \A p \in Page : Asked(p, up'[p]) /\ Brought(p, down'[p])
    BY <1>7, QueuedUnheard DEF FormsTyped, Queues
  <1>9. Unheard(v, <<>>) = <<>>
    <2>1. Listed(Unheard(v, <<>>)) /\ DOMAIN Unheard(v, <<>>) = {}
      BY ListedEmpty, UnheardIs
    <2>2. Len(Unheard(v, <<>>)) = 0
      BY <2>1, ListedIs
    <2> QED
      BY <2>1, <2>2, ListedIs
  <1>10. Queues'
    BY <1>2, <1>7, <1>8, <1>9 DEF FormsTyped, Queues
  <1> QED
    BY <1>2, <1>6, <1>10 DEF FormsTyped, Stored

LEMMA TypedJoin ==
    ASSUME FormsTyped, Same, NEW q \in Page, Join(q)
    PROVE  FormsTyped'
  <1>1. open' = open \cup {q} /\ UNCHANGED <<kept, saved, unsaved, said, up, telling, down, view>>
    BY DEF Join
  <1>2. Views'
    BY <1>1 DEF FormsTyped, Views, Same
  <1>3. Queues'
    BY <1>1 DEF FormsTyped, Queues
  <1> QED
    BY <1>1, <1>2, <1>3 DEF FormsTyped, Stored

LEMMA TypedLose ==
    ASSUME FormsTyped, Same, NEW q \in Page, Lose(q)
    PROVE  FormsTyped'
  <1>1. /\ open' = open \ {q} /\ UNCHANGED kept
        /\ up' = [up EXCEPT ![q] = <<>>] /\ telling' = [telling EXCEPT ![q] = <<>>]
        /\ down' = [down EXCEPT ![q] = <<>>]
        /\ view' = Deprived(q)
        /\ DOMAIN said' \subseteq DOMAIN said
    BY DEF Lose
  <1>2. Queues'
    BY <1>1, NothingQueued DEF FormsTyped, Queues
  <1>3. Stored'
    BY <1>1 DEF FormsTyped, Stored
  <1>4. ASSUME NEW v \in View
        PROVE  /\ Looks(v, view'[v]) /\ view'[v].off = view[v].off
               /\ view'[v].channel = "open" => view[v].channel = "open" /\ PageOf[v] # q
    <2>1. Looks(v, view[v])
      BY DEF FormsTyped, Views
    <2>2. CASE PageOf[v] = q /\ view[v].channel = "open"
      <3> DEFINE w == [channel |-> "lost", shown |-> view[v].shown, off |-> view[v].off]
      <3>1. view[v] = [channel |-> view[v].channel, shown |-> view[v].shown, off |-> view[v].off]
        BY <2>1 DEF Looks
      <3>2. view'[v] = [view[v] EXCEPT !.channel = "lost"]
        BY <1>1, <2>2 DEF Deprived
      <3>3. view'[v] = w
        BY <3>1, <3>2
      <3>4. Looks(v, w)
        BY <2>1, LooksRechanneled
      <3> QED
        BY <3>3, <3>4
    <2>3. CASE ~(PageOf[v] = q /\ view[v].channel = "open")
      <3>1. view'[v] = view[v]
        BY <1>1, <2>3 DEF Deprived
      <3> QED
        BY <2>1, <2>3, <3>1
    <2> QED
      BY <2>2, <2>3
  <1>5. DOMAIN view' = View
    BY <1>1 DEF Deprived
  <1>6. Views'
    BY <1>1, <1>4, <1>5 DEF FormsTyped, Views, Same
  <1> QED
    BY <1>2, <1>3, <1>6 DEF FormsTyped

LEMMA TypedSave ==
    ASSUME FormsTyped, Same, NEW q, Save(q)
    PROVE  FormsTyped'
  BY DEF FormsTyped, Stored, Queues, Views, Same, Save

LEMMA TypedApply ==
    ASSUME FormsTyped, Same, NEW q \in Page, Apply(q)
    PROVE  FormsTyped'
  <1> DEFINE m == Head(up[q])
             value(c) == (CHOOSE s \in ToSet(m.sets) : s[1] = c)[2]
             told == [i \in DOMAIN m.sets |-> Broadcast(m.from, m.sets[i])]
  <1>1. /\ up[q] # <<>> /\ m.kind = "update"
        /\ kept' = [c \in Cell |-> IF \E i \in DOMAIN m.sets : m.sets[i][1] = c THEN value(c) ELSE kept[c]]
        /\ telling' = [telling EXCEPT ![q] = told]
        /\ up' = [up EXCEPT ![q] = Tail(@)]
        /\ UNCHANGED <<saved, unsaved, said, open, down, view>>
    BY DEF Apply
  <1>2. Asked(q, Tail(up[q])) /\ Request(q, m)
    BY <1>1, QueuedLess DEF FormsTyped, Queues
  <1> HIDE DEF m
  <1>3. /\ m.from \in View /\ PageOf[m.from] = q /\ Listed(m.sets)
        /\ \A i \in DOMAIN m.sets : m.sets[i][1] \in Cells(m.from) /\ Fit(m.sets[i][1], m.sets[i][2])
    BY <1>1, <1>2 DEF Request, Sets
  <1>4. ASSUME NEW c, \E i \in DOMAIN m.sets : m.sets[i][1] = c
        PROVE  Fit(c, value(c))
    <2>1. \E s \in ToSet(m.sets) : s[1] = c
      BY <1>4 DEF ToSet
    <2> DEFINE x == CHOOSE s \in ToSet(m.sets) : s[1] = c
    <2>2. x \in ToSet(m.sets) /\ x[1] = c
      BY <2>1
    <2> HIDE DEF x
    <2>3. PICK i \in DOMAIN m.sets : x = m.sets[i]
      BY <2>2 DEF ToSet
    <2>4. Fit(c, x[2])
      BY <1>3, <2>2, <2>3
    <2> QED
      BY <2>4 DEF x
  <1> HIDE DEF value
  <1>5. DOMAIN kept' = Cell /\ kept'["ratio"] \in Ratio
    BY <1>1, <1>4 DEF FormsTyped, Stored, Fit, Cell
  <1>6. Told(q, told)
    <2>1. Listed(told) /\ DOMAIN told = DOMAIN m.sets
      <3>1. DOMAIN m.sets = 1..Len(m.sets) /\ Len(m.sets) \in Nat
        BY <1>3, ListedIs
      <3>2. told = [i \in 1..Len(m.sets) |-> told[i]]
        BY <3>1
      <3> QED
        BY <3>1, <3>2, ListedMade
    <2>2. ASSUME NEW i \in DOMAIN m.sets PROVE Word(told[i]) /\ PageOf[told[i].from] = q
      BY <1>3 DEF Broadcast, Word
    <2> QED
      BY <2>1, <2>2 DEF Told
  <1> HIDE DEF told
  <1>7. \A p \in Page : Asked(p, up'[p]) /\ Told(p, telling'[p])
    BY <1>1, <1>2, <1>6 DEF FormsTyped, Queues
  <1>8. q \in open
    BY <1>1 DEF FormsTyped, Queues
  <1>9. Queues'
    BY <1>1, <1>7, <1>8 DEF FormsTyped, Queues
  <1>10. Stored'
    BY <1>1, <1>5 DEF FormsTyped, Stored
  <1>11. Views'
    BY <1>1 DEF FormsTyped, Views, Same
  <1> QED
    BY <1>9, <1>10, <1>11 DEF FormsTyped

LEMMA TypedTell ==
    ASSUME FormsTyped, Same, NEW q \in Page, Tell(q)
    PROVE  FormsTyped'
  <1> DEFINE m == Head(telling[q])
  <1>1. /\ telling[q] # <<>>
        /\ said' = Over(Just(m.cell, m.value), said)
        /\ down' = [p \in Page |-> IF p \in open THEN Append(down[p], m) ELSE down[p]]
        /\ telling' = [telling EXCEPT ![q] = Tail(@)]
        /\ UNCHANGED <<kept, saved, open, up, view>>
    BY DEF Tell
  <1>2. Told(q, Tail(telling[q])) /\ Word(m)
    BY <1>1, QueuedLess DEF FormsTyped, Queues
  <1> HIDE DEF m
  <1>3. \A p \in Page : Told(p, telling'[p])
    BY <1>1, <1>2 DEF FormsTyped, Queues
  <1>4. ASSUME NEW p \in Page PROVE Brought(p, down'[p])
    <2>1. Brought(p, down[p])
      BY DEF FormsTyped, Queues
    <2>2. Brought(p, Append(down[p], m))
      BY <1>2, <2>1, BroughtMore
    <2> QED
      BY <1>1, <2>1, <2>2
  <1>5. q \in open
    BY <1>1 DEF FormsTyped, Queues
  <1>6. Queues'
    BY <1>1, <1>3, <1>4, <1>5 DEF FormsTyped, Queues
  <1>7. DOMAIN said' \subseteq Cell
    <2>1. DOMAIN said' = {m.cell} \cup DOMAIN said
      BY <1>1 DEF Over, Just
    <2>2. m.cell \in Cell
      BY <1>2, CellsAre DEF Word
    <2> QED
      BY <2>1, <2>2 DEF FormsTyped, Stored
  <1>8. Stored'
    BY <1>1, <1>7 DEF FormsTyped, Stored
  <1>9. Views'
    BY <1>1 DEF FormsTyped, Views, Same
  <1> QED
    BY <1>6, <1>8, <1>9 DEF FormsTyped

LEMMA KnownIs ==
    ASSUME Stored, NEW v \in View
    PROVE  /\ DOMAIN Known(v) = Cells(v)
           /\ "ratio" \in DOMAIN Known(v) => Known(v)["ratio"] \in Ratio
           /\ KindOf[v] # "status" => \A c \in Cells(v) : Known(v)[c] = kept[c]
  <1>1. CASE KindOf[v] = "status"
    <2>1. Known(v) = Just("setting", saved) /\ Cells(v) = {"setting"}
      BY <1>1, CellsAre DEF Known
    <2>2. DOMAIN Just("setting", saved) = {"setting"}
      BY JustIs
    <2> QED
      BY <1>1, <2>1, <2>2
  <1>2. CASE KindOf[v] # "status"
    BY <1>2, CellsAre DEF Known, Stored
  <1> QED
    BY <1>1, <1>2

(* What an answer is, and where it is put. *)
Answering(q, v, i, m) ==
    /\ v \in View /\ PageOf[v] = q
    /\ i \in 1..Len(down[q]) + 1
    /\ m = [kind |-> "answer", from |-> v, live |-> Head(up[q]).live, cells |-> Known(v)]
    /\ \A j \in DOMAIN down[q] : j >= i => down[q][j].kind = "broadcast"
    /\ down' = [down EXCEPT ![q] = InsertAt(@, i, m)]
    /\ up[q] # <<>> /\ Head(up[q]).kind = "get" /\ Head(up[q]).from = v /\ telling[q] = <<>>
    /\ up' = [up EXCEPT ![q] = Tail(@)]
    /\ UNCHANGED <<kept, saved, unsaved, said, open, telling, view>>

LEMMA AnswerIs ==
    ASSUME FormsTyped, NEW q \in Page, Answer(q)
    PROVE  \E v, i, m : Answering(q, v, i, m) /\ Reply(q, m)
  <1> DEFINE v == Head(up[q]).from
  <1>1. up[q] # <<>> /\ telling[q] = <<>> /\ Head(up[q]).kind = "get"
    BY DEF Answer
  <1>2. v \in View /\ PageOf[v] = q
    BY <1>1, QueuedLess DEF FormsTyped, Queues, Request
  <1> DEFINE m == [kind |-> "answer", from |-> v, live |-> Head(up[q]).live, cells |-> Known(v)]
  <1>3. PICK i \in 1..Len(down[q]) + 1 :
            /\ \A j \in i..Len(down[q]) : down[q][j].kind = "broadcast"
            /\ down' = [down EXCEPT ![q] = InsertAt(@, i, m)]
    BY DEF Answer
  <1>4. \A j \in DOMAIN down[q] : j >= i => down[q][j].kind = "broadcast"
    <2>1. DOMAIN down[q] = 1..Len(down[q]) /\ Len(down[q]) \in Nat
      BY ListedIs DEF FormsTyped, Queues, Brought
    <2> QED
      BY <1>3, <2>1
  <1>5. Answering(q, v, i, m)
    BY <1>1, <1>2, <1>3, <1>4 DEF Answering, Answer
  <1>6. Reply(q, m)
    BY <1>2, KnownIs DEF Reply, FormsTyped
  <1> QED
    BY <1>5, <1>6

LEMMA TypedAnswer ==
    ASSUME FormsTyped, Same, NEW q \in Page, Answer(q)
    PROVE  FormsTyped'
  <1>1. PICK v, i, m : Answering(q, v, i, m) /\ Reply(q, m)
    BY AnswerIs
  <1>2. /\ up[q] # <<>> /\ up' = [up EXCEPT ![q] = Tail(@)]
        /\ down' = [down EXCEPT ![q] = InsertAt(@, i, m)]
        /\ i \in 1..Len(down[q]) + 1
        /\ UNCHANGED <<kept, saved, unsaved, said, open, telling, view>>
    BY <1>1 DEF Answering
  <1>3. Asked(q, Tail(up[q]))
    BY <1>2, QueuedLess DEF FormsTyped, Queues
  <1>4. Brought(q, InsertAt(down[q], i, m))
    <2>1. Brought(q, down[q])
      BY DEF FormsTyped, Queues
    <2> QED
      BY <1>1, <1>2, <2>1, BroughtBetween
  <1>5. q \in open
    BY <1>2 DEF FormsTyped, Queues
  <1>6. Queues'
    BY <1>2, <1>3, <1>4, <1>5 DEF FormsTyped, Queues
  <1>7. Views' /\ Stored'
    BY <1>2 DEF FormsTyped, Views, Same, Stored
  <1> QED
    BY <1>6, <1>7 DEF FormsTyped

(* What a view w is once it has heard, or is answered. *)
Hears(v, m, w) ==
    /\ w.channel = view[v].channel
    /\ ~Heeds(v, m) => w = view[v]
    /\ Heeds(v, m) =>
         /\ \A c \in Cell : w.shown[c] = IF c = m.cell THEN m.value ELSE view[v].shown[c]
         /\ w.off = IF KindOf[v] = "map" /\ Owing(v, m.cell) THEN view[v].off \cup {m.cell}
                    ELSE view[v].off \ {m.cell}

Takes(v, m, w) ==
    /\ w.channel = view[v].channel
    /\ \A c \in Cells(v) : w.shown[c] = m.cells[c]
    /\ KindOf[v] = "form" => w.off = {}
    /\ KindOf[v] = "map" => \A c \in Cells(v) : c \in w.off <=> Owing(v, c)
    /\ KindOf[v] = "status" => \A c \in Cells(v) : c \in w.off <=> m.cells[c] # kept[c]

LEMMA HeardIs ==
    ASSUME NEW v \in View, Looks(v, view[v]), NEW m, Word(m)
    PROVE  Looks(v, Heard(v, m)) /\ Hears(v, m, Heard(v, m))
  <1> DEFINE old == view[v]
             off == IF KindOf[v] = "map" /\ Owing(v, m.cell) THEN old.off \cup {m.cell} ELSE old.off \ {m.cell}
             shown == [old.shown EXCEPT ![m.cell] = m.value]
             w == [channel |-> old.channel, shown |-> shown, off |-> off]
  <1>1. CASE ~Heeds(v, m)
    BY <1>1 DEF Heard, Hears
  <1>2. CASE Heeds(v, m)
    <2>1. old = [channel |-> old.channel, shown |-> old.shown, off |-> old.off] /\ DOMAIN old.shown = Cell
      BY DEF Looks
    <2>2. Heard(v, m) = [[old EXCEPT !.shown[m.cell] = m.value] EXCEPT
                           !.off = IF KindOf[v] = "map" /\ Owing(v, m.cell) THEN @ \cup {m.cell} ELSE @ \ {m.cell}]
      BY <1>2 DEF Heard
    <2>3. [old EXCEPT !.shown[m.cell] = m.value] = [channel |-> old.channel, shown |-> shown, off |-> old.off]
      BY <2>1
    <2>4. Heard(v, m) = w
      BY <2>2, <2>3
    <2>5. m.cell \in Cells(v) /\ m.cell \in Cell
      BY <1>2, CellsAre DEF Heeds
    <2>6. DOMAIN shown = Cell /\ \A c \in Cell : shown[c] = IF c = m.cell THEN m.value ELSE old.shown[c]
      BY <2>1
    <2>7. shown["ratio"] \in Ratio
      BY <2>6 DEF Cell, Word, Fit, Looks
    <2> HIDE DEF shown
    <2>8. Looks(v, w)
      BY <2>5, <2>6, <2>7 DEF Looks
    <2>9. Hears(v, m, w)
      BY <1>2, <2>6 DEF Hears
    <2> QED
      BY <2>4, <2>8, <2>9
  <1> QED
    BY <1>1, <1>2

LEMMA AnsweredIs ==
    ASSUME NEW q, NEW m, Reply(q, m), NEW v \in View, v = m.from, Looks(v, view[v])
    PROVE  Looks(v, Answered(v, m)) /\ Takes(v, m, Answered(v, m))
  <1> DEFINE old == view[v]
             shown == Over(m.cells, old.shown)
             off == {c \in Cells(v) :
                        CASE KindOf[v] = "map" -> Owing(v, c)
                          [] KindOf[v] = "status" -> m.cells[c] # kept[c]
                          [] OTHER -> FALSE}
             w == [channel |-> old.channel, shown |-> shown, off |-> off]
  <1>1. old = [channel |-> old.channel, shown |-> old.shown, off |-> old.off] /\ DOMAIN old.shown = Cell
    BY DEF Looks
  <1>2. Answered(v, m) = [[old EXCEPT !.shown = Over(m.cells, @)] EXCEPT !.off = off]
    BY DEF Answered
  <1>3. [old EXCEPT !.shown = Over(m.cells, @)] = [channel |-> old.channel, shown |-> shown, off |-> old.off]
    BY <1>1
  <1>4. Answered(v, m) = w
    BY <1>2, <1>3
  <1>5. DOMAIN m.cells = Cells(v) /\ Cells(v) \subseteq Cell
    BY CellsAre DEF Reply
  <1>6. /\ DOMAIN shown = Cell
        /\ \A c \in Cells(v) : shown[c] = m.cells[c]
        /\ \A c \in Cell \ Cells(v) : shown[c] = old.shown[c]
    <2> DEFINE f == m.cells
               g == old.shown
    <2>1. DOMAIN f = Cells(v) /\ DOMAIN g = Cell
      BY <1>1, <1>5
    <2> HIDE DEF f, g
    <2>2. /\ DOMAIN Over(f, g) = DOMAIN f \cup DOMAIN g
          /\ \A c \in DOMAIN f : Over(f, g)[c] = f[c]
          /\ \A c \in DOMAIN g \ DOMAIN f : Over(f, g)[c] = g[c]
      BY OverIs
    <2>3. /\ DOMAIN Over(f, g) = Cell
          /\ \A c \in Cells(v) : Over(f, g)[c] = f[c]
          /\ \A c \in Cell \ Cells(v) : Over(f, g)[c] = g[c]
      BY <1>5, <2>1, <2>2
    <2> QED
      BY <2>3 DEF f, g
  <1> HIDE DEF shown
  <1>7. shown["ratio"] \in Ratio
    BY <1>5, <1>6 DEF Reply, Looks, Cell
  <1>8. off \subseteq Cells(v) /\ (KindOf[v] = "form" => off = {})
    OBVIOUS
  <1>9. /\ KindOf[v] = "map" => \A c \in Cells(v) : c \in off <=> Owing(v, c)
        /\ KindOf[v] = "status" => \A c \in Cells(v) : c \in off <=> m.cells[c] # kept[c]
    BY Zenon
  <1> HIDE DEF off
  <1>10. Looks(v, w)
    BY <1>6, <1>7, <1>8 DEF Looks
  <1>11. Takes(v, m, w)
    BY <1>6, <1>8, <1>9 DEF Takes
  <1> QED
    BY <1>4, <1>10, <1>11

(* What a step of hearing does to each view. *)
LEMMA HearIs ==
    ASSUME FormsTyped, NEW q \in Page, Hear(q)
    PROVE  /\ down[q] # <<>> /\ down' = [down EXCEPT ![q] = Tail(@)]
           /\ UNCHANGED <<kept, saved, unsaved, said, open, up, telling>>
           /\ DOMAIN view' = View
           /\ \A v \in View :
                \/ /\ Word(Head(down[q])) /\ PageOf[v] = q
                   /\ view'[v] = Heard(v, Head(down[q]))
                \/ /\ Reply(q, Head(down[q])) /\ Head(down[q]).from = v /\ Head(down[q]).live
                   /\ PageOf[v] = q
                   /\ view'[v] = Answered(v, Head(down[q]))
                \/ /\ ~(Word(Head(down[q])) /\ PageOf[v] = q)
                   /\ ~(Head(down[q]).kind = "answer" /\ Head(down[q]).from = v /\ Head(down[q]).live)
                   /\ view'[v] = view[v]
  <1> DEFINE m == Head(down[q])
  <1>1. down[q] # <<>>
    BY DEF Hear
  <1>2. Word(m) \/ Reply(q, m)
    BY <1>1, QueuedLess DEF FormsTyped, Queues
  <1>3. /\ view' = [v \in View |->
                       CASE m.kind = "broadcast" /\ PageOf[v] = q -> Heard(v, m)
                         [] m.kind = "answer" /\ m.from = v /\ m.live -> Answered(v, m)
                         [] OTHER -> view[v]]
        /\ down' = [down EXCEPT ![q] = Tail(@)]
        /\ UNCHANGED <<kept, saved, unsaved, said, open, up, telling>>
    BY DEF Hear
  <1> HIDE DEF m
  <1>4. ASSUME NEW v \in View
        PROVE  \/ Word(m) /\ PageOf[v] = q /\ view'[v] = Heard(v, m)
               \/ Reply(q, m) /\ m.from = v /\ m.live /\ PageOf[v] = q /\ view'[v] = Answered(v, m)
               \/ /\ ~(Word(m) /\ PageOf[v] = q)
                  /\ ~(m.kind = "answer" /\ m.from = v /\ m.live)
                  /\ view'[v] = view[v]
    <2>1. /\ Word(m) => m.kind = "broadcast" /\ m.kind # "answer"
          /\ Reply(q, m) => m.kind = "answer" /\ m.kind # "broadcast" /\ PageOf[m.from] = q
      BY DEF Word, Reply
    <2>2. CASE m.kind = "broadcast" /\ PageOf[v] = q
      <3>1. view'[v] = Heard(v, m)
        BY <1>3, <2>2
      <3> QED
        BY <1>2, <2>1, <2>2, <3>1
    <2>3. CASE m.kind = "answer" /\ m.from = v /\ m.live
      <3>1. view'[v] = Answered(v, m)
        BY <1>3, <2>3
      <3> QED
        BY <1>2, <2>1, <2>3, <3>1
    <2>4. CASE ~(m.kind = "broadcast" /\ PageOf[v] = q) /\ ~(m.kind = "answer" /\ m.from = v /\ m.live)
      <3>1. view'[v] = view[v]
        BY <1>3, <2>4
      <3> QED
        BY <1>2, <2>1, <2>4, <3>1
    <2> QED
      BY <2>2, <2>3, <2>4
  <1>5. DOMAIN view' = View
    BY <1>3
  <1> QED
    BY <1>1, <1>3, <1>4, <1>5 DEF m

LEMMA TypedHear ==
    ASSUME FormsTyped, Same, NEW q \in Page, Hear(q)
    PROVE  FormsTyped'
  <1> DEFINE m == Head(down[q])
  <1>1. /\ down[q] # <<>> /\ down' = [down EXCEPT ![q] = Tail(@)]
        /\ UNCHANGED <<kept, saved, unsaved, said, open, up, telling>>
        /\ DOMAIN view' = View
    BY HearIs
  <1>2. ASSUME NEW v \in View
        PROVE  /\ Looks(v, view'[v]) /\ view'[v].channel = view[v].channel
               /\ KindOf[v] = "form" /\ view[v].off = {} => view'[v].off = {}
    <2>1. /\ Looks(v, view[v])
          /\ \/ Word(m) /\ PageOf[v] = q /\ view'[v] = Heard(v, m)
             \/ Reply(q, m) /\ m.from = v /\ view'[v] = Answered(v, m)
             \/ view'[v] = view[v]
      BY HearIs DEF FormsTyped, Views
    <2> HIDE DEF m
    <2>2. CASE Word(m) /\ view'[v] = Heard(v, m)
      <3>1. /\ Looks(v, Heard(v, m)) /\ Heard(v, m).channel = view[v].channel
            /\ ~Heeds(v, m) => Heard(v, m) = view[v]
            /\ Heeds(v, m) => Heard(v, m).off = IF KindOf[v] = "map" /\ Owing(v, m.cell) THEN view[v].off \cup {m.cell}
                                     ELSE view[v].off \ {m.cell}
        <4>1. Looks(v, Heard(v, m)) /\ Hears(v, m, Heard(v, m))
          BY <2>1, <2>2, HeardIs
        <4> QED
          BY <4>1 DEF Hears
      <3> QED
        BY <2>2, <3>1
    <2>3. CASE Reply(q, m) /\ m.from = v /\ view'[v] = Answered(v, m)
      <3>1. Looks(v, Answered(v, m)) /\ Takes(v, m, Answered(v, m))
        BY <2>1, <2>3, AnsweredIs
      <3> QED
        BY <2>3, <3>1 DEF Takes
    <2>4. CASE view'[v] = view[v]
      BY <2>1, <2>4
    <2> QED
      BY <2>1, <2>2, <2>3, <2>4
  <1>3. Views'
    BY <1>1, <1>2 DEF FormsTyped, Views, Same
  <1>4. Brought(q, Tail(down[q]))
    BY <1>1, QueuedLess DEF FormsTyped, Queues
  <1>5. q \in open
    BY <1>1 DEF FormsTyped, Queues
  <1>6. Queues'
    BY <1>1, <1>4, <1>5 DEF FormsTyped, Queues
  <1>7. Stored'
    BY <1>1 DEF FormsTyped, Stored
  <1> QED
    BY <1>3, <1>6, <1>7 DEF FormsTyped

-----------------------------------------------------------------------------
(* The types, and that what is marked fits, in every reachable state. *)

LEMMA FormsBegin == ASSUME Init PROVE UploadInv /\ FormsTyped
  <1>1. UploadInit
    BY DEF Init
  <1>2. UploadInv
    BY <1>1, UploadBegins
  <1>3. ratio \in Ratio /\ None \in Ratio
    BY <1>2, UploadAssumption DEF UploadInv, UploadType
  <1>4. DOMAIN kept = Cell /\ kept["ratio"] \in Ratio
    <2>1. kept = [First EXCEPT !["ratio"] = IF scales THEN ratio ELSE None]
      BY DEF Init
    <2>2. DOMAIN First = Cell /\ "ratio" \in Cell
      BY FormsAssumption DEF Cell
    <2> QED
      BY <1>3, <2>1, <2>2
  <1>5. Stored
    BY <1>4 DEF Stored, Init
  <1>6. \A q \in Page : up[q] = <<>> /\ telling[q] = <<>> /\ down[q] = <<>>
    BY DEF Init
  <1>7. Queues
    BY <1>6, NothingQueued DEF Queues, Init
  <1>8. ASSUME NEW v \in View PROVE Looks(v, view[v]) /\ PageOf[v] \in open /\ view[v].off = {}
    <2> DEFINE w == [channel |-> "open", shown |-> kept, off |-> {}]
    <2>1. view[v] = w /\ open = Page
      BY DEF Init
    <2>2. Looks(v, w)
      BY <1>4 DEF Looks
    <2> QED
      BY <2>1, <2>2, FormsAssumption
  <1>9. Views
    BY <1>8 DEF Views, Init
  <1> QED
    BY <1>2, <1>5, <1>7, <1>9 DEF FormsTyped

(* The Crop's ratio is one that may be asked for, since its form's is. *)
LEMMA ShowsRatio ==
    ASSUME FormsTyped', UploadInv, Shows
    PROVE  ratio' \in Ratio
  <1>1. view'[Cropper].shown["ratio"] \in Ratio
    BY FormsAssumption DEF FormsTyped, Views, Looks
  <1>2. ratio \in Ratio
    BY DEF UploadInv, UploadType
  <1> QED
    BY <1>1, <1>2 DEF Shows

LEMMA ServesTyped ==
    ASSUME FormsTyped, Same, Serves
    PROVE  FormsTyped'
  BY TypedChannelOpen, TypedMount, TypedJoin, TypedApply, TypedTell, TypedAnswer, TypedSave, TypedHear DEF Serves

LEMMA EditsTyped ==
    ASSUME FormsTyped, Same, Edits
    PROVE  FormsTyped'
  <1>1. CASE \E v \in View : Unmount(v)
    BY <1>1, TypedUnmount
  <1>2. CASE ~\E v \in View : Unmount(v)
    BY <1>2, EditsReshow, TypedReshow DEF FormsTyped
  <1> QED
    BY <1>1, <1>2

LEMMA FormsStep ==
    ASSUME UploadInv, FormsTyped, [Next]_vars
    PROVE  (UploadInv /\ FormsTyped)' /\ Same
  <1> USE DEF Same
  <1>0. ratio \in Ratio /\ scales \in BOOLEAN /\ strokes \in 0..MaxStroke /\ uploading \in BOOLEAN
    BY DEF UploadInv, UploadType
  <1>1. CASE Edits /\ Shows /\ UNCHANGED cropVars
    <2>1. Same
      BY <1>1 DEF cropVars, Shows
    <2>2. FormsTyped'
      BY <1>1, <2>1, EditsTyped
    <2>3. ratio' \in Ratio
      BY <1>1, <2>2, ShowsRatio
    <2>4. strokes' \in 0..MaxStroke
      BY <1>0, <1>1, EditsCount
    <2>5. UploadInv'
      BY <1>0, <1>1, <2>3, <2>4, UploadFrame DEF cropVars, NotCropped
    <2> QED
      BY <2>1, <2>2, <2>5
  <1>2. CASE Serves /\ Shows /\ UNCHANGED <<cropVars, strokes>>
    <2>1. Same
      BY <1>2 DEF cropVars, Shows
    <2>2. FormsTyped'
      BY <1>2, <2>1, ServesTyped
    <2>3. ratio' \in Ratio
      BY <1>2, <2>2, ShowsRatio
    <2>4. UploadInv'
      BY <1>0, <1>2, <2>3, UploadFrame DEF cropVars, NotCropped
    <2> QED
      BY <2>1, <2>2, <2>4
  <1>3. ASSUME NEW q \in Page, Lose(q), Shows,
               uploading' = (uploading /\ q # PageOf[Cropper]),
               UNCHANGED <<source, data, drag, scales, loaded, dragging, grip, empty, origin>>
        PROVE  (UploadInv /\ FormsTyped)' /\ Same
    <2>1. Same
      BY <1>3 DEF Shows
    <2>2. FormsTyped'
      BY <1>3, <2>1, TypedLose
    <2>3. ratio' \in Ratio
      BY <1>3, <2>2, ShowsRatio
    <2>4. strokes' \in 0..MaxStroke
      BY <1>0, <1>3, StrokesTyped DEF Lose
    <2>5. uploading' \in BOOLEAN
      BY <1>3, Zenon
    <2>6. UploadInv'
      BY <1>3, <2>3, <2>4, <2>5, UploadFrame DEF NotCropped
    <2> QED
      BY <2>1, <2>2, <2>6
  <1>4. CASE Unmount(Cropper) /\ Gone /\ Shows
    <2>1. Same
      BY <1>4 DEF Gone, Shows
    <2>2. FormsTyped'
      BY <1>4, <2>1, TypedUnmount, FormsAssumption
    <2>3. ratio' \in Ratio
      BY <1>4, <2>2, ShowsRatio
    <2>4. strokes' \in 0..MaxStroke
      BY <1>0, <1>4, StrokesTyped DEF Unmount
    <2>5. UploadInv'
      BY <1>4, <2>3, <2>4, UploadGone
    <2> QED
      BY <2>1, <2>2, <2>5
  <1>5. CASE CropNext /\ UNCHANGED formVars
    <2>1. UploadInv'
      BY <1>5, CropSteps
    <2>2. UNCHANGED <<scales, ratio>>
      BY <1>5 DEF CropNext, FileSelected, FileRead, ImageLoaded, CropCancelled, Confirm, SelectAll,
                  PointerDown, DrawTo, DrawnTo, MoveStart, ResizeStart, PointerMove, PointerUp
    <2>3. FormsTyped'
      BY <1>5, <2>2 DEF formVars, FormsTyped, Stored, Queues, Views
    <2> QED
      BY <2>1, <2>2, <2>3
  <1>6. CASE Rescale /\ RatioTaken(Cropper, ratio')
    <2>1. Same /\ ratio' \in Ratio
      BY <1>6 DEF Rescale
    <2>2. \E w, requests : Reshows(Cropper, w, requests)
      BY <1>6, <2>1, RatioReshows, FormsAssumption DEF FormsTyped
    <2>3. FormsTyped'
      BY <2>1, <2>2, TypedReshow
    <2>4. strokes' \in 0..MaxStroke
      BY <1>0, <1>6 DEF Rescale
    <2>5. UploadInv'
      BY <1>6, <2>4, Centers
    <2> QED
      BY <2>1, <2>3, <2>5
  <1>7. ASSUME NEW i, Uploaded, Take(Cropper, i)
        PROVE  (UploadInv /\ FormsTyped)' /\ Same
    <2>1. Same
      BY <1>7 DEF Uploaded
    <2>2. \E w, requests : Reshows(Cropper, w, requests)
      BY <1>7, ImageReshows, FormsAssumption DEF FormsTyped
    <2>3. FormsTyped'
      BY <2>1, <2>2, TypedReshow
    <2>4. UploadInv'
      BY <1>7, Plain
    <2> QED
      BY <2>1, <2>3, <2>4
  <1>8. CASE UNCHANGED vars
    BY <1>8 DEF vars, formVars, uploadVars, UploadInv, UploadType, FormsTyped, Stored, Queues, Views
  <1> QED
    BY <1>1, <1>2, <1>3, <1>4, <1>5, <1>6, <1>7, <1>8 DEF Next

LEMMA FormsAlways == Spec => [](UploadInv /\ FormsTyped)
  <1>1. UploadInv /\ FormsTyped /\ [Next]_vars => (UploadInv /\ FormsTyped)'
    BY FormsStep
  <1> QED
    BY <1>1, FormsBegin, PTL DEF Spec

LEMMA TypesOf == ASSUME UploadInv, FormsTyped PROVE TypeOK
  <1>1. UploadType
    BY DEF UploadInv
  <1>2. DOMAIN kept = Cell /\ DOMAIN said \subseteq Cell /\ open \subseteq Page
    BY DEF FormsTyped, Stored
  <1>3. ASSUME NEW q \in Page
        PROVE  /\ \A m \in ToSet(up[q]) : m.from \in View /\ PageOf[m.from] = q
               /\ q \notin open => up[q] = <<>> /\ telling[q] = <<>> /\ down[q] = <<>>
    BY DEF FormsTyped, Queues, Asked, Request, ToSet
  <1>4. ASSUME NEW v \in View
        PROVE  /\ view[v].channel \in {"none", "new", "lost", "open"}
               /\ view[v].channel = "open" => PageOf[v] \in open
               /\ DOMAIN view[v].shown = Cell /\ view[v].off \subseteq Cells(v)
    BY DEF FormsTyped, Views, Looks
  <1> QED
    BY <1>1, <1>2, <1>3, <1>4 DEF TypeOK

(* The messages of a page come from its views, a closed page has none under way, and a view
   has a channel only where the socket is open: for any pages, views, pictures and edits. *)
THEOREM TypeCorrect == Spec => []TypeOK
  BY FormsAlways, TypesOf, PTL

(* However the pointer draws, moves and pulls, and whatever ratio comes from the other pages
   meanwhile, what is marked on a picture lies on it: Selection::from_extent, moved and
   resized keep it there, for pictures of any size. *)
THEOREM MarkedFits == Spec => []CropFits
  BY FormsAlways, FitsOf, PTL

-----------------------------------------------------------------------------
(* What of a queue matters to what is shown in the end. *)

Broadcasts(m, c) == m.kind = "broadcast" /\ m.cell = c

Answers(m, v) == m.kind = "answer" /\ m.from = v /\ m.live

Concerns(m, v, c) == Broadcasts(m, c) \/ Answers(m, v)

(* The last that is said of a cell is x. *)
Closes(s, c, x) ==
    \A i \in DOMAIN s :
        Broadcasts(s[i], c) /\ (\A j \in DOMAIN s : i < j => ~Broadcasts(s[j], c)) => s[i].value = x

(* What is heard last of a cell by a view that looks like w, or what it shows when there is
   nothing more to hear, is among R; an answer to the settings is looked at when it comes. *)
Ends(s, v, c, R, w) ==
    /\ \A i \in DOMAIN s :
        Answers(s[i], v) /\ (\A j \in DOMAIN s : i < j => ~Concerns(s[j], v, c)) /\ KindOf[v] # "status"
            => s[i].cells[c] \in R
    /\ (\A i \in DOMAIN s : ~Concerns(s[i], v, c)) /\ c \notin w.off => w.shown[c] \in R

LEMMA ClosesTail ==
    ASSUME NEW s, Listed(s), s # <<>>, NEW c, NEW x, Closes(s, c, x)
    PROVE  Closes(Tail(s), c, x)
  <1> DEFINE t == Tail(s)
  <1>1. /\ Len(s) \in Nat /\ DOMAIN s = 1..Len(s) /\ DOMAIN t = 1..Len(s) - 1
        /\ \A i \in DOMAIN t : i + 1 \in DOMAIN s /\ t[i] = s[i + 1]
    BY Lessened, ListedIs
  <1> HIDE DEF t
  <1>2. ASSUME NEW i \in DOMAIN t, Broadcasts(t[i], c), \A j \in DOMAIN t : i < j => ~Broadcasts(t[j], c)
        PROVE  t[i].value = x
    <2>1. ASSUME NEW j \in DOMAIN s, i + 1 < j PROVE ~Broadcasts(s[j], c)
      <3>1. j - 1 \in DOMAIN t /\ i < j - 1 /\ (j - 1) + 1 = j
        BY <1>1, <2>1
      <3> QED
        BY <1>1, <1>2, <3>1
    <2> QED
      BY <1>1, <1>2, <2>1 DEF Closes
  <1> QED
    BY <1>2 DEF Closes, t

LEMMA ClosesMore ==
    ASSUME NEW s, Listed(s), NEW m, NEW c, NEW x,
           IF Broadcasts(m, c) THEN x = m.value ELSE Closes(s, c, x)
    PROVE  Closes(Append(s, m), c, x)
  <1> DEFINE t == Append(s, m)
             n == Len(s)
  <1>1. /\ n \in Nat /\ DOMAIN s = 1..n /\ DOMAIN t = 1..n + 1
        /\ \A i \in 1..n : t[i] = s[i]
        /\ t[n + 1] = m
    BY ListedAppend, ListedIs
  <1> HIDE DEF t, n
  <1>2. ASSUME NEW i \in DOMAIN t, Broadcasts(t[i], c), \A j \in DOMAIN t : i < j => ~Broadcasts(t[j], c)
        PROVE  t[i].value = x
    <2>1. CASE i = n + 1
      BY <1>1, <1>2, <2>1
    <2>2. CASE i # n + 1
      <3>1. i \in 1..n /\ i < n + 1 /\ n + 1 \in DOMAIN t
        BY <1>1, <2>2
      <3>2. ~Broadcasts(m, c)
        BY <1>1, <1>2, <3>1
      <3>3. \A j \in DOMAIN s : i < j => ~Broadcasts(s[j], c)
        BY <1>1, <1>2
      <3> QED
        BY <1>1, <1>2, <3>1, <3>2, <3>3 DEF Closes
    <2> QED
      BY <2>1, <2>2
  <1> QED
    BY <1>2 DEF Closes, t

LEMMA ClosesBetween ==
    ASSUME NEW s, Listed(s), NEW m, NEW i \in 1..Len(s) + 1, NEW c, NEW x,
           ~Broadcasts(m, c), Closes(s, c, x)
    PROVE  Closes(InsertAt(s, i, m), c, x)
  <1> DEFINE t == InsertAt(s, i, m)
  <1>1. Len(s) \in Nat /\ DOMAIN s = 1..Len(s) /\ i \in Nat
    BY ListedIs
  <1>2. /\ t[i] = m
        /\ \A j \in DOMAIN s : j < i => j \in DOMAIN t /\ t[j] = s[j]
    BY Inserted
  <1>3. \A j \in DOMAIN s : j >= i => j + 1 \in DOMAIN t /\ t[j + 1] = s[j]
    BY Inserted
  <1>4. \A k \in DOMAIN t :
                \/ k = i
                \/ k \in DOMAIN s /\ k < i
                \/ \E j \in DOMAIN s : j >= i /\ k = j + 1
    BY Inserted
  <1> HIDE DEF t
  <1>5. ASSUME NEW k \in DOMAIN t, Broadcasts(t[k], c), \A j \in DOMAIN t : k < j => ~Broadcasts(t[j], c)
        PROVE  t[k].value = x
    <2>1. k # i
      BY <1>2, <1>5
    <2>2. CASE k \in DOMAIN s /\ k < i
      <3>1. ASSUME NEW j \in DOMAIN s, k < j PROVE ~Broadcasts(s[j], c)
        <4>1. CASE j < i
          BY <1>2, <1>5, <3>1, <4>1
        <4>2. CASE j >= i
          <5>1. k < j + 1
            BY <1>1, <2>2, <3>1
          <5> QED
            BY <1>3, <1>5, <4>2, <5>1
        <4> QED
          BY <1>1, <4>1, <4>2
      <3> QED
        BY <1>2, <1>5, <2>2, <3>1 DEF Closes
    <2>3. ASSUME NEW l \in DOMAIN s, l >= i, k = l + 1
          PROVE  t[k].value = x
      <3>1. ASSUME NEW j \in DOMAIN s, l < j PROVE ~Broadcasts(s[j], c)
        <4>1. j >= i /\ k < j + 1
          BY <1>1, <2>3, <3>1
        <4> QED
          BY <1>3, <1>5, <4>1
      <3> QED
        BY <1>3, <1>5, <2>3, <3>1 DEF Closes
    <2> QED
      BY <1>4, <2>1, <2>2, <2>3
  <1> QED
    BY <1>5 DEF Closes, t

(* Nothing that a view still heeds changes when another is closed. *)
LEMMA MutedConcerns ==
    ASSUME NEW q, NEW u, NEW v, NEW m, Word(m) \/ Reply(q, m)
    PROVE  /\ \A c : Broadcasts(Muted(u, m), c) <=> Broadcasts(m, c)
           /\ u # v => (Answers(Muted(u, m), v) <=> Answers(m, v)) /\ Muted(u, m).from = m.from
           /\ \A c : Broadcasts(m, c) => Muted(u, m) = m
           /\ Answers(m, v) => Muted(u, m).cells = m.cells
  <1>1. CASE Word(m)
    BY <1>1, MutedNews DEF Broadcasts, Answers, Word
  <1>2. CASE Reply(q, m)
    <2>1. m.kind = "answer" /\ Muted(u, m).kind = "answer" /\ m.kind # "broadcast"
      BY <1>2, MutedNews DEF Reply
    <2> QED
      BY <1>2, <2>1, MutedNews DEF Broadcasts, Answers
  <1> QED
    BY <1>1, <1>2

LEMMA ClosesUnheard ==
    ASSUME NEW q, NEW s, Brought(q, s), NEW u, NEW c, NEW x, Closes(s, c, x)
    PROVE  Closes(Unheard(u, s), c, x)
  <1> DEFINE t == Unheard(u, s)
  <1>1. DOMAIN t = DOMAIN s /\ \A i \in DOMAIN s : t[i] = Muted(u, s[i])
    BY UnheardIs DEF Brought
  <1> HIDE DEF t
  <1>2. ASSUME NEW i \in DOMAIN s
        PROVE  /\ Broadcasts(t[i], c) <=> Broadcasts(s[i], c)
               /\ Broadcasts(s[i], c) => t[i] = s[i]
    <2>1. Word(s[i]) \/ Reply(q, s[i])
      BY DEF Brought
    <2>2. /\ Broadcasts(Muted(u, s[i]), c) <=> Broadcasts(s[i], c)
          /\ Broadcasts(s[i], c) => Muted(u, s[i]) = s[i]
      BY <2>1, MutedConcerns
    <2> QED
      BY <1>1, <2>2
  <1>3. Closes(t, c, x)
    BY <1>1, <1>2 DEF Closes
  <1> QED
    BY <1>3 DEF t

LEMMA EndsMore ==
    ASSUME NEW s, Listed(s), NEW m, m.kind = "broadcast", NEW v, NEW c, NEW R, NEW w,
           Broadcasts(m, c) \/ Ends(s, v, c, R, w)
    PROVE  Ends(Append(s, m), v, c, R, w)
  <1> DEFINE t == Append(s, m)
             n == Len(s)
  <1>1. /\ n \in Nat /\ DOMAIN s = 1..n /\ DOMAIN t = 1..n + 1
        /\ \A i \in 1..n : t[i] = s[i]
        /\ t[n + 1] = m
    BY ListedAppend, ListedIs
  <1> HIDE DEF t, n
  <1>2. ~Answers(m, v)
    BY DEF Answers
  <1>3. CASE Broadcasts(m, c)
    <2>1. n + 1 \in DOMAIN t /\ Concerns(t[n + 1], v, c)
      BY <1>1, <1>3 DEF Concerns
    <2>2. ASSUME NEW i \in DOMAIN t, Answers(t[i], v) PROVE i < n + 1
      BY <1>1, <1>2, <2>2
    <2> QED
      BY <2>1, <2>2 DEF Ends, t
  <1>4. CASE ~Broadcasts(m, c) /\ Ends(s, v, c, R, w)
    <2>1. ~Concerns(m, v, c)
      BY <1>2, <1>4 DEF Concerns
    <2>2. ASSUME NEW i \in DOMAIN t, Answers(t[i], v), \A j \in DOMAIN t : i < j => ~Concerns(t[j], v, c),
                 KindOf[v] # "status"
          PROVE  t[i].cells[c] \in R
      <3>1. i \in DOMAIN s /\ t[i] = s[i]
        BY <1>1, <1>2, <2>2
      <3>2. \A j \in DOMAIN s : i < j => ~Concerns(s[j], v, c)
        BY <1>1, <2>2
      <3> QED
        BY <1>4, <2>2, <3>1, <3>2 DEF Ends
    <2>3. ASSUME \A i \in DOMAIN t : ~Concerns(t[i], v, c), c \notin w.off
          PROVE  w.shown[c] \in R
      <3>1. \A i \in DOMAIN s : ~Concerns(s[i], v, c)
        BY <1>1, <2>3
      <3> QED
        BY <1>4, <2>3, <3>1 DEF Ends
    <2> QED
      BY <2>2, <2>3 DEF Ends, t
  <1> QED
    BY <1>3, <1>4

LEMMA EndsBetween ==
    ASSUME NEW s, Listed(s), NEW m, NEW i \in 1..Len(s) + 1, m.kind = "answer",
           \A j \in DOMAIN s : j >= i => s[j].kind = "broadcast",
           NEW v, NEW c, NEW R, NEW w,
           IF Answers(m, v) THEN KindOf[v] # "status" => m.cells[c] \in R ELSE Ends(s, v, c, R, w)
    PROVE  Ends(InsertAt(s, i, m), v, c, R, w)
  <1> DEFINE t == InsertAt(s, i, m)
  <1>1. Len(s) \in Nat /\ DOMAIN s = 1..Len(s) /\ i \in Nat
    BY ListedIs
  <1>2. /\ t[i] = m /\ i \in DOMAIN t
        /\ \A j \in DOMAIN s : j < i => j \in DOMAIN t /\ t[j] = s[j]
    BY Inserted
  <1>3. \A j \in DOMAIN s : j >= i => j + 1 \in DOMAIN t /\ t[j + 1] = s[j]
    BY Inserted
  <1>4. \A k \in DOMAIN t :
                \/ k = i
                \/ k \in DOMAIN s /\ k < i
                \/ \E j \in DOMAIN s : j >= i /\ k = j + 1
    BY Inserted
  <1> HIDE DEF t
  <1>5. ASSUME NEW k \in DOMAIN t, Answers(t[k], v), k # i PROVE k \in DOMAIN s /\ k < i
    <2>1. ~\E j \in DOMAIN s : j >= i /\ k = j + 1
      BY <1>3, <1>5 DEF Answers
    <2> QED
      BY <1>4, <1>5, <2>1
  <1>6. CASE Answers(m, v)
    <2>1. Concerns(t[i], v, c)
      BY <1>2, <1>6 DEF Concerns
    <2>2. ASSUME NEW k \in DOMAIN t, Answers(t[k], v), \A j \in DOMAIN t : k < j => ~Concerns(t[j], v, c)
          PROVE  t[k] = m
      BY <1>2, <1>5, <2>1, <2>2
    <2> QED
      BY <1>2, <1>6, <2>1, <2>2 DEF Ends, t
  <1>7. CASE ~Answers(m, v)
    <2>1. Ends(s, v, c, R, w)
      BY <1>7
    <2>2. ASSUME NEW j \in DOMAIN s PROVE \E k \in DOMAIN t : t[k] = s[j] /\ k >= j
      <3>1. CASE j < i
        BY <1>1, <1>2, <3>1
      <3>2. CASE j >= i
        BY <1>1, <1>3, <3>2
      <3> QED
        BY <1>1, <3>1, <3>2
    <2>3. ASSUME NEW k \in DOMAIN t, Answers(t[k], v), \A j \in DOMAIN t : k < j => ~Concerns(t[j], v, c),
                 KindOf[v] # "status"
          PROVE  t[k].cells[c] \in R
      <3>1. k \in DOMAIN s /\ k < i /\ t[k] = s[k]
        BY <1>2, <1>5, <1>7, <2>3
      <3>2. ASSUME NEW j \in DOMAIN s, k < j PROVE ~Concerns(s[j], v, c)
        <4>1. PICK l \in DOMAIN t : t[l] = s[j] /\ l >= j
          BY <2>2
        <4>2. k < l
          <5>1. l \in Int
            BY <1>1, <1>4
          <5> QED
            BY <1>1, <3>1, <3>2, <4>1, <5>1
        <4> QED
          BY <2>3, <4>1, <4>2
      <3> QED
        BY <2>1, <2>3, <3>1, <3>2 DEF Ends
    <2>4. ASSUME \A k \in DOMAIN t : ~Concerns(t[k], v, c), c \notin w.off
          PROVE  w.shown[c] \in R
      <3>1. \A j \in DOMAIN s : ~Concerns(s[j], v, c)
        BY <2>2, <2>4
      <3> QED
        BY <2>1, <2>4, <3>1 DEF Ends
    <2> QED
      BY <2>3, <2>4 DEF Ends, t
  <1> QED
    BY <1>6, <1>7

LEMMA EndsUnheard ==
    ASSUME NEW q, NEW s, Brought(q, s), NEW u, NEW v, u # v, NEW c, NEW R, NEW w, Ends(s, v, c, R, w)
    PROVE  Ends(Unheard(u, s), v, c, R, w)
  <1> DEFINE t == Unheard(u, s)
  <1>1. DOMAIN t = DOMAIN s /\ \A i \in DOMAIN s : t[i] = Muted(u, s[i])
    BY UnheardIs DEF Brought
  <1> HIDE DEF t
  <1>2. ASSUME NEW i \in DOMAIN s
        PROVE  /\ Concerns(t[i], v, c) <=> Concerns(s[i], v, c)
               /\ Answers(t[i], v) <=> Answers(s[i], v)
               /\ Answers(s[i], v) => t[i].cells = s[i].cells
    <2>1. Word(s[i]) \/ Reply(q, s[i])
      BY DEF Brought
    <2>2. /\ Broadcasts(Muted(u, s[i]), c) <=> Broadcasts(s[i], c)
          /\ Answers(Muted(u, s[i]), v) <=> Answers(s[i], v)
          /\ Answers(s[i], v) => Muted(u, s[i]).cells = s[i].cells
      BY <2>1, MutedConcerns
    <2> QED
      BY <1>1, <2>2 DEF Concerns
  <1>3. Ends(t, v, c, R, w)
    BY <1>1, <1>2 DEF Ends
  <1> QED
    BY <1>3 DEF t

LEMMA EndsTail ==
    ASSUME NEW s, Listed(s), s # <<>>, NEW v, NEW c, NEW R, NEW w, NEW w2, Ends(s, v, c, R, w),
           (\A i \in DOMAIN Tail(s) : ~Concerns(Tail(s)[i], v, c)) /\ c \notin w2.off => w2.shown[c] \in R
    PROVE  Ends(Tail(s), v, c, R, w2)
  <1> DEFINE t == Tail(s)
  <1>1. /\ Len(s) \in Nat /\ DOMAIN s = 1..Len(s) /\ DOMAIN t = 1..Len(s) - 1
        /\ \A i \in DOMAIN t : i + 1 \in DOMAIN s /\ t[i] = s[i + 1]
    BY Lessened, ListedIs
  <1>2. (\A i \in DOMAIN t : ~Concerns(t[i], v, c)) /\ c \notin w2.off => w2.shown[c] \in R
    OBVIOUS
  <1> HIDE DEF t
  <1>3. ASSUME NEW i \in DOMAIN t, Answers(t[i], v), \A j \in DOMAIN t : i < j => ~Concerns(t[j], v, c),
               KindOf[v] # "status"
        PROVE  t[i].cells[c] \in R
    <2>1. ASSUME NEW j \in DOMAIN s, i + 1 < j PROVE ~Concerns(s[j], v, c)
      <3>1. j - 1 \in DOMAIN t /\ i < j - 1 /\ (j - 1) + 1 = j
        BY <1>1, <2>1
      <3> QED
        BY <1>1, <1>3, <3>1
    <2> QED
      BY <1>1, <1>3, <2>1 DEF Ends
  <1> QED
    BY <1>2, <1>3 DEF Ends, t

(* When nothing else is to be heard, the first is the last. *)
LEMMA FirstIsLast ==
    ASSUME NEW s, Listed(s), s # <<>>, NEW v, NEW c,
           \A i \in DOMAIN Tail(s) : ~Concerns(Tail(s)[i], v, c)
    PROVE  1 \in DOMAIN s /\ Head(s) = s[1] /\ \A j \in DOMAIN s : 1 < j => ~Concerns(s[j], v, c)
  <1> DEFINE t == Tail(s)
  <1>1. /\ Len(s) \in Nat /\ DOMAIN s = 1..Len(s) /\ DOMAIN t = 1..Len(s) - 1
        /\ \A i \in DOMAIN t : i + 1 \in DOMAIN s /\ t[i] = s[i + 1]
        /\ 1 \in DOMAIN s /\ Head(s) = s[1]
    BY Lessened, ListedIs
  <1>2. \A i \in DOMAIN t : ~Concerns(t[i], v, c)
    OBVIOUS
  <1> HIDE DEF t
  <1>3. ASSUME NEW j \in DOMAIN s, 1 < j PROVE ~Concerns(s[j], v, c)
    <2>1. j - 1 \in DOMAIN t /\ (j - 1) + 1 = j
      BY <1>1, <1>3
    <2> QED
      BY <1>1, <1>2, <2>1
  <1> QED
    BY <1>1, <1>3

-----------------------------------------------------------------------------
(* What of them matters to a Map, which leaves alone what it sent itself. *)

Asks(m, v, c) == m.kind = "update" /\ m.from = v /\ m.sets[1][1] = c

Own(m, v, c) == m.kind = "broadcast" /\ m.from = v /\ m.cell = c

Else(m, v, c) == Concerns(m, v, c) /\ ~Own(m, v, c)

NoAsk(u, v, c) == \A i \in DOMAIN u : ~Asks(u[i], v, c)

NoOwn(s, v, c) == \A i \in DOMAIN s : ~Own(s[i], v, c)

Elsewhere(d, v, c) == \E i \in DOMAIN d : Else(d[i], v, c)

LastAsk(u, i, v, c) ==
    i \in DOMAIN u /\ Asks(u[i], v, c) /\ \A j \in DOMAIN u : i < j => ~Asks(u[j], v, c)

LastOwn(s, i, v, c) ==
    i \in DOMAIN s /\ Own(s[i], v, c) /\ \A j \in DOMAIN s : i < j => ~Own(s[j], v, c)

AskEcho(u, d, v, c, x) ==
    \A i : LastAsk(u, i, v, c) => x = u[i].sets[1][2] \/ Elsewhere(d, v, c)

ToldEcho(t, d, v, c, x) ==
    \A i : LastOwn(t, i, v, c) => x = t[i].value \/ Elsewhere(d, v, c)

DownEcho(d, v, c, x) ==
    \A i : LastOwn(d, i, v, c) => x = d[i].value \/ \E k \in DOMAIN d : k < i /\ Else(d[k], v, c)

(* What is shown is what it sent last, wherever that is, or it has yet to hear something else. *)
Echoes(u, t, d, v, c, x) ==
    /\ AskEcho(u, d, v, c, x)
    /\ NoAsk(u, v, c) => ToldEcho(t, d, v, c, x)
    /\ NoAsk(u, v, c) /\ NoOwn(t, v, c) => DownEcho(d, v, c, x)

LEMMA EchoesVoid ==
    ASSUME NEW u, NEW t, NEW d, NEW v, NEW c, NEW x, NoAsk(u, v, c), NoOwn(t, v, c), NoOwn(d, v, c)
    PROVE  Echoes(u, t, d, v, c, x)
  BY DEF NoAsk, NoOwn, Echoes, AskEcho, ToldEcho, DownEcho, LastAsk, LastOwn

(* More requests, of others. *)
LEMMA AskMore ==
    ASSUME NEW s, NEW r, Listed(s), Listed(r), NEW d, NEW v, NEW c, NEW x, NoAsk(r, v, c)
    PROVE  /\ NoAsk(s \o r, v, c) <=> NoAsk(s, v, c)
           /\ AskEcho(s, d, v, c, x) => AskEcho(s \o r, d, v, c, x)
  <1> DEFINE t == s \o r
             n == Len(s)
  <1>a. /\ Listed(t) /\ Len(t) = n + Len(r)
        /\ \A i \in 1..n : t[i] = s[i]
        /\ \A i \in 1..Len(r) : t[n + i] = r[i]
        /\ \A i \in 1..n + Len(r) : i \in 1..n \/ \E j \in 1..Len(r) : i = n + j
    BY ListedJoin
  <1>b. n \in Nat /\ DOMAIN s = 1..n
    BY ListedIs
  <1>c. Len(r) \in Nat /\ DOMAIN r = 1..Len(r)
    BY ListedIs
  <1> HIDE DEF t, n
  <1>d. DOMAIN t = 1..Len(t)
    BY <1>a, ListedIs
  <1>1. /\ n \in Nat /\ Len(r) \in Nat /\ DOMAIN s = 1..n /\ DOMAIN r = 1..Len(r)
        /\ DOMAIN t = 1..n + Len(r)
        /\ \A i \in 1..n : t[i] = s[i]
        /\ \A i \in 1..Len(r) : t[n + i] = r[i]
        /\ \A i \in 1..n + Len(r) : i \in 1..n \/ \E j \in 1..Len(r) : i = n + j
    BY <1>a, <1>b, <1>c, <1>d
  <1>2. ASSUME NEW i \in DOMAIN t, Asks(t[i], v, c) PROVE i \in DOMAIN s /\ t[i] = s[i]
    <2>1. ~\E j \in 1..Len(r) : i = n + j
      BY <1>1, <1>2 DEF NoAsk
    <2> QED
      BY <1>1, <2>1
  <1>3. \A i \in DOMAIN s : i \in DOMAIN t /\ t[i] = s[i]
    BY <1>1
  <1>4. NoAsk(t, v, c) <=> NoAsk(s, v, c)
    BY <1>2, <1>3 DEF NoAsk
  <1>5. ASSUME AskEcho(s, d, v, c, x) PROVE AskEcho(t, d, v, c, x)
    BY <1>2, <1>3, <1>5 DEF AskEcho, LastAsk
  <1> QED
    BY <1>4, <1>5 DEF t

(* A request of its own. *)
LEMMA AskOwn ==
    ASSUME NEW s, NEW r, Listed(s), Listed(r), Len(r) = 1, NEW d, NEW v, NEW c, Asks(r[1], v, c)
    PROVE  /\ ~NoAsk(s \o r, v, c)
           /\ AskEcho(s \o r, d, v, c, r[1].sets[1][2])
  <1> DEFINE t == s \o r
             n == Len(s)
  <1>a. /\ Listed(t) /\ Len(t) = n + Len(r)
        /\ \A i \in 1..n : t[i] = s[i]
        /\ \A i \in 1..Len(r) : t[n + i] = r[i]
        /\ \A i \in 1..n + Len(r) : i \in 1..n \/ \E j \in 1..Len(r) : i = n + j
    BY ListedJoin
  <1>b. n \in Nat /\ DOMAIN s = 1..n
    BY ListedIs
  <1> HIDE DEF t, n
  <1>d. DOMAIN t = 1..Len(t)
    BY <1>a, ListedIs
  <1>1. /\ n \in Nat /\ DOMAIN s = 1..n /\ DOMAIN t = 1..n + 1
        /\ \A i \in 1..1 : t[n + i] = r[i]
    BY <1>a, <1>b, <1>d
  <1>2. n + 1 \in DOMAIN t /\ t[n + 1] = r[1] /\ \A i \in DOMAIN t : i = n + 1 \/ i < n + 1
    BY <1>1
  <1>3. ~NoAsk(t, v, c)
    BY <1>2 DEF NoAsk
  <1>4. AskEcho(t, d, v, c, r[1].sets[1][2])
    BY <1>2 DEF AskEcho, LastAsk
  <1> QED
    BY <1>3, <1>4 DEF t

LEMMA AskTail ==
    ASSUME NEW s, Listed(s), s # <<>>, NEW d, NEW v, NEW c, NEW x
    PROVE  /\ NoAsk(s, v, c) => NoAsk(Tail(s), v, c)
           /\ NoAsk(Tail(s), v, c) /\ ~Asks(Head(s), v, c) => NoAsk(s, v, c)
           /\ AskEcho(s, d, v, c, x) => AskEcho(Tail(s), d, v, c, x)
           /\ AskEcho(s, d, v, c, x) /\ NoAsk(Tail(s), v, c) /\ Asks(Head(s), v, c)
                => x = Head(s).sets[1][2] \/ Elsewhere(d, v, c)
  <1> DEFINE t == Tail(s)
  <1>1. /\ Len(s) \in Nat /\ DOMAIN s = 1..Len(s) /\ DOMAIN t = 1..Len(s) - 1
        /\ \A i \in DOMAIN t : i + 1 \in DOMAIN s /\ t[i] = s[i + 1]
        /\ 1 \in DOMAIN s /\ Head(s) = s[1]
    BY Lessened, ListedIs
  <1> HIDE DEF t
  <1>2. ASSUME NEW j \in DOMAIN s, j # 1 PROVE j - 1 \in DOMAIN t /\ t[j - 1] = s[j]
    <2>1. j - 1 \in DOMAIN t /\ (j - 1) + 1 = j
      BY <1>1, <1>2
    <2> QED
      BY <1>1, <2>1
  <1>3. NoAsk(s, v, c) => NoAsk(t, v, c)
    BY <1>1 DEF NoAsk
  <1>4. NoAsk(t, v, c) /\ ~Asks(s[1], v, c) => NoAsk(s, v, c)
    BY <1>2 DEF NoAsk
  <1>5. ASSUME NEW i, LastAsk(t, i, v, c) PROVE LastAsk(s, i + 1, v, c) /\ t[i] = s[i + 1]
    <2>1. i \in DOMAIN t /\ i + 1 \in DOMAIN s /\ t[i] = s[i + 1] /\ Asks(t[i], v, c)
      BY <1>1, <1>5 DEF LastAsk
    <2>2. ASSUME NEW j \in DOMAIN s, i + 1 < j PROVE ~Asks(s[j], v, c)
      <3>1. j # 1 /\ i < j - 1
        BY <1>1, <2>1, <2>2
      <3> QED
        BY <1>2, <1>5, <3>1 DEF LastAsk
    <2> QED
      BY <2>1, <2>2 DEF LastAsk
  <1>6. AskEcho(s, d, v, c, x) => AskEcho(t, d, v, c, x)
    BY <1>5 DEF AskEcho
  <1>7. ASSUME AskEcho(s, d, v, c, x), NoAsk(t, v, c), Asks(s[1], v, c)
        PROVE  x = s[1].sets[1][2] \/ Elsewhere(d, v, c)
    <2>1. \A j \in DOMAIN s : 1 < j => ~Asks(s[j], v, c)
      BY <1>2, <1>7 DEF NoAsk
    <2>2. LastAsk(s, 1, v, c)
      BY <1>1, <1>7, <2>1 DEF LastAsk
    <2> QED
      BY <1>7, <2>2 DEF AskEcho
  <1> QED
    BY <1>1, <1>3, <1>4, <1>6, <1>7 DEF t

LEMMA AskUnheard ==
    ASSUME NEW q, NEW s, Asked(q, s), NEW u, NEW d, NEW v, NEW c, NEW x
    PROVE  /\ NoAsk(Unheard(u, s), v, c) <=> NoAsk(s, v, c)
           /\ AskEcho(s, d, v, c, x) => AskEcho(Unheard(u, s), d, v, c, x)
  <1> DEFINE t == Unheard(u, s)
  <1>1. DOMAIN t = DOMAIN s /\ \A i \in DOMAIN s : t[i] = Muted(u, s[i])
    BY UnheardIs DEF Asked
  <1> HIDE DEF t
  <1>2. ASSUME NEW i \in DOMAIN s
        PROVE  (Asks(t[i], v, c) <=> Asks(s[i], v, c)) /\ (Asks(s[i], v, c) => t[i] = s[i])
    <2>1. Request(q, s[i])
      BY DEF Asked
    <2>2. s[i].kind \in {"update", "get"}
      BY <2>1 DEF Request
    <2>3. CASE s[i].kind = "update"
      BY <1>1, <2>1, <2>3, MutedRequest
    <2>4. CASE s[i].kind = "get"
      <3>1. t[i].kind = "get"
        BY <1>1, <2>1, <2>4, MutedRequest
      <3> QED
        BY <2>4, <3>1 DEF Asks
    <2> QED
      BY <2>2, <2>3, <2>4
  <1>3. NoAsk(t, v, c) <=> NoAsk(s, v, c)
    BY <1>1, <1>2 DEF NoAsk
  <1>4. AskEcho(s, d, v, c, x) => AskEcho(t, d, v, c, x)
    BY <1>1, <1>2 DEF AskEcho, LastAsk
  <1> QED
    BY <1>3, <1>4 DEF t

LEMMA ToldTail ==
    ASSUME NEW s, Listed(s), s # <<>>, NEW d, NEW v, NEW c, NEW x
    PROVE  /\ NoOwn(s, v, c) => NoOwn(Tail(s), v, c)
           /\ NoOwn(Tail(s), v, c) /\ ~Own(Head(s), v, c) => NoOwn(s, v, c)
           /\ ToldEcho(s, d, v, c, x) => ToldEcho(Tail(s), d, v, c, x)
           /\ ToldEcho(s, d, v, c, x) /\ NoOwn(Tail(s), v, c) /\ Own(Head(s), v, c)
                => x = Head(s).value \/ Elsewhere(d, v, c)
  <1> DEFINE t == Tail(s)
  <1>1. /\ Len(s) \in Nat /\ DOMAIN s = 1..Len(s) /\ DOMAIN t = 1..Len(s) - 1
        /\ \A i \in DOMAIN t : i + 1 \in DOMAIN s /\ t[i] = s[i + 1]
        /\ 1 \in DOMAIN s /\ Head(s) = s[1]
    BY Lessened, ListedIs
  <1> HIDE DEF t
  <1>2. ASSUME NEW j \in DOMAIN s, j # 1 PROVE j - 1 \in DOMAIN t /\ t[j - 1] = s[j]
    <2>1. j - 1 \in DOMAIN t /\ (j - 1) + 1 = j
      BY <1>1, <1>2
    <2> QED
      BY <1>1, <2>1
  <1>3. NoOwn(s, v, c) => NoOwn(t, v, c)
    BY <1>1 DEF NoOwn
  <1>4. NoOwn(t, v, c) /\ ~Own(s[1], v, c) => NoOwn(s, v, c)
    BY <1>2 DEF NoOwn
  <1>5. ASSUME NEW i, LastOwn(t, i, v, c) PROVE LastOwn(s, i + 1, v, c) /\ t[i] = s[i + 1]
    <2>1. i \in DOMAIN t /\ i + 1 \in DOMAIN s /\ t[i] = s[i + 1] /\ Own(t[i], v, c)
      BY <1>1, <1>5 DEF LastOwn
    <2>2. ASSUME NEW j \in DOMAIN s, i + 1 < j PROVE ~Own(s[j], v, c)
      <3>1. j # 1 /\ i < j - 1
        BY <1>1, <2>1, <2>2
      <3> QED
        BY <1>2, <1>5, <3>1 DEF LastOwn
    <2> QED
      BY <2>1, <2>2 DEF LastOwn
  <1>6. ToldEcho(s, d, v, c, x) => ToldEcho(t, d, v, c, x)
    BY <1>5 DEF ToldEcho
  <1>7. ASSUME ToldEcho(s, d, v, c, x), NoOwn(t, v, c), Own(s[1], v, c)
        PROVE  x = s[1].value \/ Elsewhere(d, v, c)
    <2>1. \A j \in DOMAIN s : 1 < j => ~Own(s[j], v, c)
      BY <1>2, <1>7 DEF NoOwn
    <2>2. LastOwn(s, 1, v, c)
      BY <1>1, <1>7, <2>1 DEF LastOwn
    <2> QED
      BY <1>7, <2>2 DEF ToldEcho
  <1> QED
    BY <1>1, <1>3, <1>4, <1>6, <1>7 DEF t

(* What was on its way is still, in the same order, and nothing of its own besides. *)
Carries(d, e, f, v, c) ==
    /\ DOMAIN d \subseteq Int
    /\ \A i \in DOMAIN d :
        /\ f[i] \in DOMAIN e
        /\ Own(e[f[i]], v, c) <=> Own(d[i], v, c)
        /\ Own(d[i], v, c) => e[f[i]].value = d[i].value
        /\ Else(d[i], v, c) => Else(e[f[i]], v, c)
    /\ \A i, j \in DOMAIN d : i < j => f[i] < f[j]
    /\ \A k \in DOMAIN e : Own(e[k], v, c) => \E i \in DOMAIN d : k = f[i]

LEMMA Carried ==
    ASSUME NEW d, NEW e, NEW f, NEW v, NEW c, NEW x, Carries(d, e, f, v, c)
    PROVE  /\ Elsewhere(d, v, c) => Elsewhere(e, v, c)
           /\ NoOwn(e, v, c) <=> NoOwn(d, v, c)
           /\ DownEcho(d, v, c, x) => DownEcho(e, v, c, x)
  <1>1. Elsewhere(d, v, c) => Elsewhere(e, v, c)
    BY DEF Carries, Elsewhere
  <1>2. NoOwn(e, v, c) <=> NoOwn(d, v, c)
    BY DEF Carries, NoOwn
  <1>3. ASSUME DownEcho(d, v, c, x), NEW k, LastOwn(e, k, v, c)
        PROVE  x = e[k].value \/ \E l \in DOMAIN e : l < k /\ Else(e[l], v, c)
    <2>1. PICK i \in DOMAIN d : k = f[i]
      BY <1>3 DEF Carries, LastOwn
    <2>2. Own(d[i], v, c) /\ e[k].value = d[i].value
      BY <1>3, <2>1 DEF Carries, LastOwn
    <2>3. ASSUME NEW j \in DOMAIN d, i < j PROVE ~Own(d[j], v, c)
      BY <1>3, <2>1, <2>3 DEF Carries, LastOwn
    <2>4. LastOwn(d, i, v, c)
      BY <2>2, <2>3 DEF LastOwn
    <2>5. x = d[i].value \/ \E l \in DOMAIN d : l < i /\ Else(d[l], v, c)
      BY <1>3, <2>4 DEF DownEcho
    <2> QED
      BY <2>1, <2>2, <2>5 DEF Carries
  <1> QED
    BY <1>1, <1>2, <1>3 DEF DownEcho

LEMMA EchoesCarried ==
    ASSUME NEW u, NEW t, NEW d, NEW e, NEW f, NEW v, NEW c, NEW x,
           Carries(d, e, f, v, c), Echoes(u, t, d, v, c, x)
    PROVE  Echoes(u, t, e, v, c, x)
  <1>1. /\ Elsewhere(d, v, c) => Elsewhere(e, v, c)
        /\ DownEcho(d, v, c, x) => DownEcho(e, v, c, x)
    BY Carried
  <1> QED
    BY <1>1 DEF Echoes, AskEcho, ToldEcho

LEMMA CarriesMore ==
    ASSUME NEW s, Listed(s), NEW m, NEW v, NEW c, ~Own(m, v, c)
    PROVE  Carries(s, Append(s, m), [i \in DOMAIN s |-> i], v, c)
  <1> DEFINE t == Append(s, m)
             n == Len(s)
             f == [i \in DOMAIN s |-> i]
  <1>1. /\ n \in Nat /\ DOMAIN s = 1..n /\ DOMAIN t = 1..n + 1
        /\ \A i \in 1..n : t[i] = s[i]
        /\ t[n + 1] = m
    BY ListedAppend, ListedIs
  <1>2. \A i \in DOMAIN s : f[i] = i
    OBVIOUS
  <1> HIDE DEF t, n, f
  <1>3. DOMAIN s \subseteq Int /\ \A i \in DOMAIN s : i \in DOMAIN t /\ t[i] = s[i]
    BY <1>1
  <1>4. \A k \in DOMAIN t : Own(t[k], v, c) => k \in DOMAIN s
    BY <1>1
  <1>5. Carries(s, t, f, v, c)
    BY <1>2, <1>3, <1>4 DEF Carries
  <1> QED
    BY <1>5 DEF t, f

LEMMA CarriesBetween ==
    ASSUME NEW s, Listed(s), NEW m, NEW i \in 1..Len(s) + 1, NEW v, NEW c, ~Own(m, v, c)
    PROVE  Carries(s, InsertAt(s, i, m), [j \in DOMAIN s |-> IF j < i THEN j ELSE j + 1], v, c)
  <1> DEFINE t == InsertAt(s, i, m)
             f == [j \in DOMAIN s |-> IF j < i THEN j ELSE j + 1]
  <1>1. Len(s) \in Nat /\ DOMAIN s = 1..Len(s) /\ i \in Nat
    BY ListedIs
  <1>2. /\ t[i] = m
        /\ \A j \in DOMAIN s : j < i => j \in DOMAIN t /\ t[j] = s[j]
    BY Inserted
  <1>3. \A j \in DOMAIN s : j >= i => j + 1 \in DOMAIN t /\ t[j + 1] = s[j]
    BY Inserted
  <1>4. \A k \in DOMAIN t :
                \/ k = i
                \/ k \in DOMAIN s /\ k < i
                \/ \E j \in DOMAIN s : j >= i /\ k = j + 1
    BY Inserted
  <1>5. \A j \in DOMAIN s : (j < i => f[j] = j) /\ (j >= i => f[j] = j + 1)
    BY <1>1
  <1> HIDE DEF t, f
  <1>6. \A j \in DOMAIN s : f[j] \in DOMAIN t /\ t[f[j]] = s[j]
    BY <1>1, <1>2, <1>3, <1>5
  <1>7. \A j, l \in DOMAIN s : j < l => f[j] < f[l]
    BY <1>1, <1>5
  <1>8. ASSUME NEW k \in DOMAIN t, Own(t[k], v, c) PROVE \E j \in DOMAIN s : k = f[j]
    <2>1. k # i
      BY <1>2, <1>8
    <2> QED
      BY <1>1, <1>4, <1>5, <2>1
  <1>9. DOMAIN s \subseteq Int
    BY <1>1
  <1>10. Carries(s, t, f, v, c)
    BY <1>6, <1>7, <1>8, <1>9 DEF Carries
  <1> QED
    BY <1>10 DEF t, f

LEMMA CarriesUnheard ==
    ASSUME NEW q, NEW s, Brought(q, s), NEW u, NEW v, u # v, NEW c
    PROVE  Carries(s, Unheard(u, s), [i \in DOMAIN s |-> i], v, c)
  <1> DEFINE t == Unheard(u, s)
             f == [i \in DOMAIN s |-> i]
  <1>1. DOMAIN t = DOMAIN s /\ \A i \in DOMAIN s : t[i] = Muted(u, s[i])
    BY UnheardIs DEF Brought
  <1>2. \A i \in DOMAIN s : f[i] = i
    OBVIOUS
  <1>3. DOMAIN s \subseteq Int
    BY ListedIs DEF Brought
  <1> HIDE DEF t, f
  <1>4. ASSUME NEW i \in DOMAIN s
        PROVE  /\ Own(t[i], v, c) <=> Own(s[i], v, c)
               /\ Own(s[i], v, c) => t[i].value = s[i].value
               /\ Else(s[i], v, c) => Else(t[i], v, c)
    <2>1. Word(s[i]) \/ Reply(q, s[i])
      BY DEF Brought
    <2>2. /\ Broadcasts(Muted(u, s[i]), c) <=> Broadcasts(s[i], c)
          /\ Broadcasts(s[i], c) => Muted(u, s[i]) = s[i]
          /\ Answers(Muted(u, s[i]), v) <=> Answers(s[i], v)
          /\ Muted(u, s[i]).from = s[i].from
      BY <2>1, MutedConcerns
    <2>3. /\ Own(t[i], v, c) <=> Own(s[i], v, c)
          /\ Own(s[i], v, c) => t[i] = s[i]
      BY <1>1, <2>2 DEF Own, Broadcasts
    <2>4. Concerns(t[i], v, c) <=> Concerns(s[i], v, c)
      BY <1>1, <2>2 DEF Concerns
    <2> QED
      BY <2>3, <2>4 DEF Else
  <1>5. Carries(s, t, f, v, c)
    BY <1>1, <1>2, <1>3, <1>4 DEF Carries
  <1> QED
    BY <1>5 DEF t, f

(* A view hears what is nothing but its own, or of another cell. *)
LEMMA EchoesHear ==
    ASSUME NEW u, NEW t, NEW d, Listed(d), d # <<>>, NEW v, NEW c, NEW x,
           ~Else(Head(d), v, c), Echoes(u, t, d, v, c, x)
    PROVE  Echoes(u, t, Tail(d), v, c, x)
  <1> DEFINE e == Tail(d)
  <1>1. /\ Len(d) \in Nat /\ DOMAIN d = 1..Len(d) /\ DOMAIN e = 1..Len(d) - 1
        /\ \A i \in DOMAIN e : i + 1 \in DOMAIN d /\ e[i] = d[i + 1]
        /\ 1 \in DOMAIN d /\ Head(d) = d[1]
    BY Lessened, ListedIs
  <1> HIDE DEF e
  <1>2. ASSUME NEW j \in DOMAIN d, j # 1 PROVE j - 1 \in DOMAIN e /\ e[j - 1] = d[j]
    <2>1. j - 1 \in DOMAIN e /\ (j - 1) + 1 = j
      BY <1>1, <1>2
    <2> QED
      BY <1>1, <2>1
  <1>3. ~Else(d[1], v, c)
    BY <1>1
  <1>4. Elsewhere(d, v, c) => Elsewhere(e, v, c)
    BY <1>2, <1>3 DEF Elsewhere
  <1>5. ASSUME NEW i, LastOwn(e, i, v, c) PROVE LastOwn(d, i + 1, v, c) /\ e[i] = d[i + 1] /\ i \in DOMAIN e
    <2>1. i \in DOMAIN e /\ i + 1 \in DOMAIN d /\ e[i] = d[i + 1] /\ Own(e[i], v, c)
      BY <1>1, <1>5 DEF LastOwn
    <2>2. ASSUME NEW j \in DOMAIN d, i + 1 < j PROVE ~Own(d[j], v, c)
      <3>1. j # 1 /\ i < j - 1
        BY <1>1, <2>1, <2>2
      <3> QED
        BY <1>2, <1>5, <3>1 DEF LastOwn
    <2> QED
      BY <2>1, <2>2 DEF LastOwn
  <1>6. ASSUME DownEcho(d, v, c, x), NEW i, LastOwn(e, i, v, c)
        PROVE  x = e[i].value \/ \E k \in DOMAIN e : k < i /\ Else(e[k], v, c)
    <2>1. LastOwn(d, i + 1, v, c) /\ e[i] = d[i + 1] /\ i \in DOMAIN e
      BY <1>5, <1>6
    <2>2. x = d[i + 1].value \/ \E k \in DOMAIN d : k < i + 1 /\ Else(d[k], v, c)
      BY <1>6, <2>1 DEF DownEcho
    <2>3. ASSUME NEW k \in DOMAIN d, k < i + 1, Else(d[k], v, c)
          PROVE  \E l \in DOMAIN e : l < i /\ Else(e[l], v, c)
      <3>1. k # 1
        BY <1>3, <2>3
      <3>2. k - 1 \in DOMAIN e /\ e[k - 1] = d[k] /\ k - 1 < i
        BY <1>1, <1>2, <2>1, <2>3, <3>1
      <3> QED
        BY <2>3, <3>2
    <2> QED
      BY <2>1, <2>2, <2>3
  <1>7. DownEcho(d, v, c, x) => DownEcho(e, v, c, x)
    BY <1>6 DEF DownEcho
  <1>8. Echoes(u, t, e, v, c, x)
    BY <1>4, <1>7 DEF Echoes, AskEcho, ToldEcho
  <1> QED
    BY <1>8 DEF e

(* Its own is told. *)
LEMMA EchoesTold ==
    ASSUME NEW u, NEW t, NEW d, Listed(t), Listed(d), t # <<>>, NEW v, NEW c, NEW x,
           Echoes(u, t, d, v, c, x)
    PROVE  Echoes(u, Tail(t), Append(d, Head(t)), v, c, x)
  <1> DEFINE m == Head(t)
             r == Tail(t)
             e == Append(d, m)
             n == Len(d)
  <1>1. /\ NoOwn(r, v, c) /\ ~Own(m, v, c) => NoOwn(t, v, c)
        /\ ToldEcho(t, d, v, c, x) => ToldEcho(r, d, v, c, x)
        /\ ToldEcho(t, d, v, c, x) /\ NoOwn(r, v, c) /\ Own(m, v, c)
             => x = m.value \/ Elsewhere(d, v, c)
    BY ToldTail
  <1>2. /\ n \in Nat /\ DOMAIN d = 1..n /\ DOMAIN e = 1..n + 1
        /\ \A i \in 1..n : e[i] = d[i]
        /\ e[n + 1] = m
    BY ListedAppend, ListedIs
  <1>3. CASE ~Own(m, v, c)
    <2>1. Echoes(u, r, d, v, c, x)
      BY <1>1, <1>3 DEF Echoes
    <2>2. Carries(d, e, [i \in DOMAIN d |-> i], v, c)
      BY <1>3, CarriesMore
    <2> QED
      BY <2>1, <2>2, EchoesCarried
  <1>4. CASE Own(m, v, c)
    <2> HIDE DEF m, r, e, n
    <2>1. Elsewhere(d, v, c) => Elsewhere(e, v, c) /\ \E k \in DOMAIN e : k < n + 1 /\ Else(e[k], v, c)
      BY <1>2 DEF Elsewhere
    <2>2. AskEcho(u, e, v, c, x) /\ (NoAsk(u, v, c) => ToldEcho(r, e, v, c, x))
      BY <1>1, <2>1 DEF Echoes, AskEcho, ToldEcho
    <2>3. ASSUME NoAsk(u, v, c), NoOwn(r, v, c) PROVE DownEcho(e, v, c, x)
      <3>1. x = m.value \/ Elsewhere(d, v, c)
        BY <1>1, <1>4, <2>3 DEF Echoes
      <3>2. ASSUME NEW i, LastOwn(e, i, v, c) PROVE i = n + 1
        <4>1. i \in DOMAIN e /\ ~(i < n + 1)
          BY <1>2, <1>4, <3>2 DEF LastOwn
        <4> QED
          BY <1>2, <4>1
      <3> QED
        BY <1>2, <2>1, <3>1, <3>2 DEF DownEcho
    <2> QED
      BY <2>2, <2>3 DEF Echoes, m, r, e
  <1> QED
    BY <1>3, <1>4

(* A request is applied: if it is its own, that is now to be told. *)
LEMMA EchoesApplied ==
    ASSUME NEW u, NEW t, NEW d, Listed(u), u # <<>>, NEW v, NEW c, NEW x,
           Echoes(u, <<>>, d, v, c, x),
           \A i \in DOMAIN t : Own(t[i], v, c) =>
               Asks(Head(u), v, c) /\ t[i].value = Head(u).sets[1][2],
           Asks(Head(u), v, c) => ~NoOwn(t, v, c)
    PROVE  Echoes(Tail(u), t, d, v, c, x)
  <1> DEFINE r == Tail(u)
             m == Head(u)
  <1>1. /\ NoAsk(r, v, c) /\ ~Asks(m, v, c) => NoAsk(u, v, c)
        /\ AskEcho(u, d, v, c, x) => AskEcho(r, d, v, c, x)
        /\ AskEcho(u, d, v, c, x) /\ NoAsk(r, v, c) /\ Asks(m, v, c)
             => x = m.sets[1][2] \/ Elsewhere(d, v, c)
    BY AskTail
  <1>2. \A i \in DOMAIN t : Own(t[i], v, c) => Asks(m, v, c) /\ t[i].value = m.sets[1][2]
    OBVIOUS
  <1>3. Asks(m, v, c) => ~NoOwn(t, v, c)
    OBVIOUS
  <1> HIDE DEF r, m
  <1>4. AskEcho(r, d, v, c, x)
    BY <1>1 DEF Echoes
  <1>5. ASSUME NoAsk(r, v, c) PROVE ToldEcho(t, d, v, c, x)
    <2>1. ASSUME NEW i, LastOwn(t, i, v, c) PROVE x = t[i].value \/ Elsewhere(d, v, c)
      <3>1. Asks(m, v, c) /\ t[i].value = m.sets[1][2]
        BY <1>2, <2>1 DEF LastOwn
      <3> QED
        BY <1>1, <1>5, <3>1 DEF Echoes
    <2> QED
      BY <2>1 DEF ToldEcho
  <1>6. ASSUME NoAsk(r, v, c), NoOwn(t, v, c) PROVE DownEcho(d, v, c, x)
    <2>1. NoAsk(u, v, c)
      BY <1>1, <1>3, <1>6
    <2>2. NoOwn(<<>>, v, c)
      BY ListedEmpty DEF NoOwn
    <2> QED
      BY <2>1, <2>2 DEF Echoes
  <1> QED
    BY <1>4, <1>5, <1>6 DEF Echoes, r

-----------------------------------------------------------------------------
(* What is in step, or will be. *)

(* What is in a list, once it has become another. *)
LEMMA TailHolds ==
    ASSUME NEW s, Listed(s), s # <<>>
    PROVE  /\ \E i \in DOMAIN s : s[i] = Head(s)
           /\ \A i \in DOMAIN s : s[i] = Head(s) \/ \E j \in DOMAIN Tail(s) : Tail(s)[j] = s[i]
           /\ \A j \in DOMAIN Tail(s) : \E i \in DOMAIN s : s[i] = Tail(s)[j]
  <1> DEFINE t == Tail(s)
  <1>1. /\ Len(s) \in Nat /\ DOMAIN s = 1..Len(s) /\ DOMAIN t = 1..Len(s) - 1
        /\ \A i \in DOMAIN t : i + 1 \in DOMAIN s /\ t[i] = s[i + 1]
        /\ 1 \in DOMAIN s /\ Head(s) = s[1]
    BY Lessened, ListedIs
  <1> HIDE DEF t
  <1>2. ASSUME NEW j \in DOMAIN s, j # 1 PROVE j - 1 \in DOMAIN t /\ t[j - 1] = s[j]
    <2>1. j - 1 \in DOMAIN t /\ (j - 1) + 1 = j
      BY <1>1, <1>2
    <2> QED
      BY <1>1, <2>1
  <1>3. \A i \in DOMAIN s : s[i] = Head(s) \/ \E j \in DOMAIN t : t[j] = s[i]
    BY <1>1, <1>2
  <1> QED
    BY <1>1, <1>3 DEF t

(* What one holds, two others hold. *)
Joins(t, s, r) ==
    /\ \A i \in DOMAIN s : \E k \in DOMAIN t : t[k] = s[i]
    /\ \A i \in DOMAIN r : \E k \in DOMAIN t : t[k] = r[i]
    /\ \A k \in DOMAIN t : (\E i \in DOMAIN s : t[k] = s[i]) \/ \E i \in DOMAIN r : t[k] = r[i]

LEMMA JoinHolds ==
    ASSUME NEW s, NEW r, Listed(s), Listed(r)
    PROVE  Joins(s \o r, s, r)
  <1> DEFINE t == s \o r
             n == Len(s)
  <1>a. /\ Listed(t) /\ Len(t) = n + Len(r)
        /\ \A i \in 1..n : t[i] = s[i]
        /\ \A i \in 1..Len(r) : t[n + i] = r[i]
        /\ \A i \in 1..n + Len(r) : i \in 1..n \/ \E j \in 1..Len(r) : i = n + j
    BY ListedJoin
  <1>b. n \in Nat /\ DOMAIN s = 1..n
    BY ListedIs
  <1>c. Len(r) \in Nat /\ DOMAIN r = 1..Len(r)
    BY ListedIs
  <1> HIDE DEF t, n
  <1>d. DOMAIN t = 1..n + Len(r)
    BY <1>a, ListedIs
  <1>1. \A i \in DOMAIN s : i \in DOMAIN t /\ t[i] = s[i]
    BY <1>a, <1>b, <1>c, <1>d
  <1>2. \A i \in DOMAIN r : n + i \in DOMAIN t /\ t[n + i] = r[i]
    BY <1>a, <1>b, <1>c, <1>d
  <1>3. \A k \in DOMAIN t : k \in DOMAIN s \/ \E i \in DOMAIN r : k = n + i
    BY <1>a, <1>b, <1>c, <1>d
  <1>4. \A k \in DOMAIN t : (\E i \in DOMAIN s : t[k] = s[i]) \/ \E i \in DOMAIN r : t[k] = r[i]
    BY <1>1, <1>2, <1>3
  <1> QED
    BY <1>1, <1>2, <1>4 DEF Joins, t

LEMMA AppendHolds ==
    ASSUME NEW s, NEW x, Listed(s)
    PROVE  \A k \in DOMAIN Append(s, x) :
                Append(s, x)[k] = x \/ \E i \in DOMAIN s : Append(s, x)[k] = s[i]
  <1> DEFINE t == Append(s, x)
             n == Len(s)
  <1>1. /\ n \in Nat /\ DOMAIN s = 1..n /\ DOMAIN t = 1..n + 1
        /\ \A i \in 1..n : t[i] = s[i]
        /\ t[n + 1] = x
    BY ListedAppend, ListedIs
  <1> HIDE DEF t, n
  <1>2. \A k \in DOMAIN t : t[k] = x \/ \E i \in DOMAIN s : t[k] = s[i]
    BY <1>1
  <1> QED
    BY <1>2 DEF t

(* The view asks what there is. *)
Inquiry(m, v) == m.kind = "get" /\ m.from = v /\ m.live

(* A cell is to be set. *)
Wish(m, c) == m.kind = "update" /\ \E j \in DOMAIN m.sets : m.sets[j][1] = c

Inquires(s, v) == \E i \in DOMAIN s : Inquiry(s[i], v)

Wants(s, c) == \E i \in DOMAIN s : Wish(s[i], c)

Awaits(s, c) == \E i \in DOMAIN s : s[i].cell = c

Pending(c) == \E q \in Page : Awaits(telling[q], c)

(* Nothing of its own is under way. *)
Quiets(u, t, d, v) ==
    /\ \A i \in DOMAIN u : ~(u[i].kind = "update" /\ u[i].from = v)
    /\ \A i \in DOMAIN t : t[i].from # v
    /\ \A i \in DOMAIN d : ~(d[i].kind = "broadcast" /\ d[i].from = v)

(* Unless it is still to be asked, set or told, what a view hears last is what was told last,
   or what is kept. *)
Steady(v, c) ==
    c \in DOMAIN said =>
        \/ Inquires(up[PageOf[v]], v) \/ Wants(up[PageOf[v]], c) \/ Pending(c)
        \/ Ends(down[PageOf[v]], v, c, {said[c], kept[c]}, view[v])

(* A Map has sent nothing over a channel it has not. *)
Mapped(v) ==
    LET q == PageOf[v]
    IN  IF view[v].channel = "open"
        THEN \A c \in Cells(v) \ view[v].off :
                Echoes(up[q], telling[q], down[q], v, c, view[v].shown[c])
        ELSE Quiets(up[q], telling[q], down[q], v)

Closing == \A q \in Page : \A c \in DOMAIN said : Closes(down[q], c, said[c])

Settling == \A v \in View : view[v].channel = "open" => \A c \in Cells(v) : Steady(v, c)

Mapping == \A v \in View : KindOf[v] = "map" => Mapped(v)

StepInv == Closing /\ Settling /\ Mapping

LEMMA QuietsVoid ==
    ASSUME NEW u, NEW t, NEW d, NEW v, Quiets(u, t, d, v), NEW c, NEW x
    PROVE  Echoes(u, t, d, v, c, x)
  <1>1. NoAsk(u, v, c) /\ NoOwn(t, v, c) /\ NoOwn(d, v, c)
    BY DEF Quiets, NoAsk, Asks, NoOwn, Own
  <1> QED
    BY <1>1, EchoesVoid

LEMMA NoneMore ==
    ASSUME NEW s, NEW r, Listed(s), Listed(r), NEW v,
           \A i \in DOMAIN s : ~(s[i].kind = "update" /\ s[i].from = v),
           \A i \in DOMAIN r : ~(r[i].kind = "update" /\ r[i].from = v)
    PROVE  \A k \in DOMAIN (s \o r) : ~((s \o r)[k].kind = "update" /\ (s \o r)[k].from = v)
  <1> DEFINE t == s \o r
  <1>1. /\ \A i \in DOMAIN s : \E k \in DOMAIN t : t[k] = s[i]
        /\ \A i \in DOMAIN r : \E k \in DOMAIN t : t[k] = r[i]
        /\ \A k \in DOMAIN t : (\E i \in DOMAIN s : t[k] = s[i]) \/ \E i \in DOMAIN r : t[k] = r[i]
    <2>1. Joins(t, s, r)
      BY JoinHolds
    <2> QED
      BY <2>1 DEF Joins
  <1> HIDE DEF t
  <1>2. \A k \in DOMAIN t : ~(t[k].kind = "update" /\ t[k].from = v)
    BY <1>1
  <1> QED
    BY <1>2 DEF t

LEMMA AskingMore ==
    ASSUME NEW s, NEW r, Listed(s), Listed(r)
    PROVE  /\ \A v : Inquires(s, v) \/ Inquires(r, v) => Inquires(s \o r, v)
           /\ \A c : Wants(s, c) \/ Wants(r, c) => Wants(s \o r, c)
  <1> DEFINE t == s \o r
  <1>1. /\ \A i \in DOMAIN s : \E k \in DOMAIN t : t[k] = s[i]
        /\ \A i \in DOMAIN r : \E k \in DOMAIN t : t[k] = r[i]
        /\ \A k \in DOMAIN t : (\E i \in DOMAIN s : t[k] = s[i]) \/ \E i \in DOMAIN r : t[k] = r[i]
    <2>1. Joins(t, s, r)
      BY JoinHolds
    <2> QED
      BY <2>1 DEF Joins
  <1> HIDE DEF t
  <1>2. \A v : Inquires(s, v) \/ Inquires(r, v) => Inquires(t, v)
    BY <1>1 DEF Inquires
  <1>3. \A c : Wants(s, c) \/ Wants(r, c) => Wants(t, c)
    BY <1>1 DEF Wants
  <1> QED
    BY <1>2, <1>3 DEF t

LEMMA AskingTail ==
    ASSUME NEW s, Listed(s), s # <<>>
    PROVE  /\ \A v : Inquires(s, v) => Inquiry(Head(s), v) \/ Inquires(Tail(s), v)
           /\ \A c : Wants(s, c) => Wish(Head(s), c) \/ Wants(Tail(s), c)
  <1> DEFINE t == Tail(s)
             m == Head(s)
  <1>1. \A i \in DOMAIN s : s[i] = m \/ \E j \in DOMAIN t : t[j] = s[i]
    BY TailHolds
  <1> HIDE DEF t, m
  <1>2. \A v : Inquires(s, v) => Inquiry(m, v) \/ Inquires(t, v)
    BY <1>1 DEF Inquires
  <1>3. \A c : Wants(s, c) => Wish(m, c) \/ Wants(t, c)
    BY <1>1 DEF Wants
  <1> QED
    BY <1>2, <1>3 DEF t, m

LEMMA AskingUnheard ==
    ASSUME NEW q, NEW s, Asked(q, s), NEW u
    PROVE  /\ \A v : u # v /\ Inquires(s, v) => Inquires(Unheard(u, s), v)
           /\ \A c : Wants(s, c) => Wants(Unheard(u, s), c)
  <1> DEFINE t == Unheard(u, s)
  <1>1. DOMAIN t = DOMAIN s /\ \A i \in DOMAIN s : t[i] = Muted(u, s[i])
    BY UnheardIs DEF Asked
  <1> HIDE DEF t
  <1>2. ASSUME NEW i \in DOMAIN s
        PROVE  /\ \A v : u # v /\ Inquiry(s[i], v) => Inquiry(t[i], v)
               /\ \A c : Wish(s[i], c) => Wish(t[i], c)
    <2>1. Request(q, s[i])
      BY DEF Asked
    <2>2. /\ s[i].kind = "update" => t[i] = s[i]
          /\ s[i].kind = "get" => /\ t[i].kind = "get" /\ t[i].from = s[i].from
                                  /\ s[i].from # u => t[i].live = s[i].live
      BY <1>1, <2>1, MutedRequest
    <2> QED
      BY <2>2 DEF Inquiry, Wish
  <1>3. \A v : u # v /\ Inquires(s, v) => Inquires(t, v)
    BY <1>1, <1>2 DEF Inquires
  <1>4. \A c : Wants(s, c) => Wants(t, c)
    BY <1>1, <1>2 DEF Wants
  <1> QED
    BY <1>3, <1>4 DEF t

LEMMA AwaitingTail ==
    ASSUME NEW s, Listed(s), s # <<>>
    PROVE  \A c : Awaits(s, c) => Head(s).cell = c \/ Awaits(Tail(s), c)
  <1> DEFINE t == Tail(s)
             m == Head(s)
  <1>1. \A i \in DOMAIN s : s[i] = m \/ \E j \in DOMAIN t : t[j] = s[i]
    BY TailHolds
  <1> HIDE DEF t, m
  <1>2. \A c : Awaits(s, c) => m.cell = c \/ Awaits(t, c)
    BY <1>1 DEF Awaits
  <1> QED
    BY <1>2 DEF t, m

(* Each step keeps it. *)

(* Nothing a view goes by has changed. *)
LEMMA SteadySame ==
    ASSUME NEW v \in View, NEW c, Steady(v, c),
           up'[PageOf[v]] = up[PageOf[v]], down'[PageOf[v]] = down[PageOf[v]], view'[v] = view[v],
           c \in DOMAIN said' => c \in DOMAIN said /\ said'[c] = said[c],
           c \in DOMAIN said' => kept'[c] = kept[c],
           c \in DOMAIN said' /\ Pending(c) => Pending(c)'
    PROVE  Steady(v, c)'
  BY DEF Steady

LEMMA MappedSame ==
    ASSUME NEW v \in View, Mapped(v), view'[v] = view[v], up'[PageOf[v]] = up[PageOf[v]],
           telling'[PageOf[v]] = telling[PageOf[v]], down'[PageOf[v]] = down[PageOf[v]]
    PROVE  Mapped(v)'
  BY DEF Mapped

LEMMA StepReshow ==
    ASSUME FormsTyped, StepInv, NEW v, NEW w, NEW requests, Reshows(v, w, requests)
    PROVE  StepInv'
  <1> DEFINE q == PageOf[v]
             old == view[v]
  <1>1. /\ v \in View /\ w.channel = old.channel
        /\ view'[v] = w /\ \A u \in View \ {v} : view'[u] = view[u]
        /\ UNCHANGED <<kept, saved, unsaved, said, open, telling, down>>
    BY DEF Reshows
  <1>2. \A c \in Cells(v) :
            \/ Mentions(requests, c)
            \/ c \in w.off
            \/ w.shown[c] = old.shown[c] /\ c \notin old.off
    BY DEF Reshows
  <1>3. KindOf[v] = "map" =>
            /\ Len(requests) = 1
            /\ \A c \in Cells(v) :
                IF requests[1].sets[1][1] = c THEN w.shown[c] = requests[1].sets[1][2]
                ELSE w.shown[c] = old.shown[c] /\ (c \in old.off <=> c \in w.off)
    BY DEF Reshows
  <1>4. \A p \in Page : up'[p] = IF p = q /\ old.channel = "open" THEN up[p] \o requests ELSE up[p]
    BY DEF Reshows, Posts
  <1>5. /\ Listed(requests)
        /\ \A i \in DOMAIN requests : requests[i].kind = "update" /\ requests[i].from = v
    BY DEF Reshows, Ours, Asked
  <1>6. q \in Page /\ \A u \in View : PageOf[u] \in Page
    BY <1>1, FormsAssumption
  <1>7. \A p \in Page : Listed(up[p])
    BY DEF FormsTyped, Queues, Asked
  <1>8. Closing'
    BY <1>1 DEF StepInv, Closing
  <1> HIDE DEF old, q
  <1>9. ASSUME NEW u \in View, view'[u].channel = "open", NEW c \in Cells(u)
        PROVE  Steady(u, c)'
    <2> DEFINE p == PageOf[u]
    <2>1. view[u].channel = "open" /\ Steady(u, c)
      <3>1. view[u].channel = "open"
        BY <1>1, <1>9 DEF old
      <3> QED
        BY <3>1 DEF StepInv, Settling
    <2>2. /\ Inquires(up[p], u) => Inquires(up'[p], u)
          /\ Wants(up[p], c) => Wants(up'[p], c)
      <3>1. /\ Inquires(up[p], u) => Inquires(up[p] \o requests, u)
            /\ Wants(up[p], c) => Wants(up[p] \o requests, c)
        BY <1>5, <1>6, <1>7, AskingMore
      <3> QED
        BY <1>4, <1>6, <3>1
    <2>3. said' = said /\ kept' = kept /\ down'[p] = down[p] /\ (Pending(c) => Pending(c)')
      BY <1>1 DEF Pending
    <2>4. CASE u # v
      <3>1. view'[u] = view[u]
        BY <1>1, <2>4
      <3> QED
        BY <2>1, <2>2, <2>3, <3>1 DEF Steady
    <2>5. CASE u = v
      <3>1. p = q /\ view'[u] = w /\ view[u] = old
        BY <1>1, <2>5 DEF old, q
      <3>2. CASE Mentions(requests, c)
        <4>1. Wants(requests, c)
          BY <1>5, <3>2 DEF Mentions, Wants, Wish
        <4>2. up'[p] = up[p] \o requests
          BY <1>4, <1>6, <2>1, <3>1
        <4>3. Wants(up[p] \o requests, c)
          BY <1>5, <1>6, <1>7, <4>1, AskingMore
        <4> QED
          BY <4>2, <4>3 DEF Steady
      <3>3. CASE c \in w.off \/ (w.shown[c] = old.shown[c] /\ c \notin old.off)
        <4>1. \A R : Ends(down[p], v, c, R, old) => Ends(down[p], v, c, R, w)
          BY <3>3 DEF Ends
        <4> QED
          BY <2>1, <2>2, <2>3, <2>5, <3>1, <4>1 DEF Steady
      <3> QED
        BY <1>2, <2>5, <3>2, <3>3
    <2> QED
      BY <2>4, <2>5
  <1>10. ASSUME NEW u \in View, KindOf[u] = "map" PROVE Mapped(u)'
    <2> DEFINE p == PageOf[u]
    <2>1. Mapped(u) /\ telling'[p] = telling[p] /\ down'[p] = down[p] /\ p \in Page
      BY <1>1, <1>6, <1>10 DEF StepInv, Mapping
    <2>2. CASE up'[p] = up[p] /\ u # v
      BY <1>1, <2>1, <2>2, MappedSame
    <2>3. CASE u # v /\ up'[p] # up[p]
      <3>1. up'[p] = up[p] \o requests /\ view'[u] = view[u]
        BY <1>1, <1>4, <2>1, <2>3
      <3>2. CASE view[u].channel = "open"
        <4>1. ASSUME NEW c \in Cells(u) \ view[u].off
              PROVE  Echoes(up'[p], telling[p], down[p], u, c, view[u].shown[c])
          <5> DEFINE x == view[u].shown[c]
          <5>1. Echoes(up[p], telling[p], down[p], u, c, x)
            BY <2>1, <3>2 DEF Mapped
          <5>2. NoAsk(requests, u, c)
            BY <1>5, <2>3 DEF NoAsk, Asks
          <5> HIDE DEF x
          <5>3. /\ NoAsk(up[p] \o requests, u, c) <=> NoAsk(up[p], u, c)
                /\ AskEcho(up[p], down[p], u, c, x) => AskEcho(up[p] \o requests, down[p], u, c, x)
            BY <1>5, <1>7, <2>1, <5>2, AskMore
          <5>4. Echoes(up'[p], telling[p], down[p], u, c, x)
            BY <3>1, <5>1, <5>3 DEF Echoes
          <5> QED
            BY <5>4 DEF x
        <4> QED
          BY <2>1, <3>1, <3>2, <4>1 DEF Mapped
      <3>3. CASE view[u].channel # "open"
        <4>1. Quiets(up[p], telling[p], down[p], u)
          BY <2>1, <3>3 DEF Mapped
        <4>2. /\ Listed(up[p]) /\ Listed(requests)
              /\ \A i \in DOMAIN up[p] : ~(up[p][i].kind = "update" /\ up[p][i].from = u)
              /\ \A i \in DOMAIN requests : ~(requests[i].kind = "update" /\ requests[i].from = u)
          BY <1>5, <1>7, <2>1, <2>3, <4>1 DEF Quiets
        <4>3. \A k \in DOMAIN up'[p] : ~(up'[p][k].kind = "update" /\ up'[p][k].from = u)
          BY <3>1, <4>2, NoneMore
        <4>4. Quiets(up'[p], telling[p], down[p], u)
          BY <4>1, <4>3 DEF Quiets
        <4> QED
          BY <2>1, <3>1, <3>3, <4>4 DEF Mapped
      <3> QED
        BY <3>2, <3>3
    <2>4. CASE u = v /\ old.channel = "open"
      <3>1. up'[p] = up[p] \o requests /\ p = q /\ view'[u] = w /\ view[u] = old /\ w.channel = "open"
        BY <1>1, <1>4, <2>1, <2>4 DEF old, q
      <3>2. ASSUME NEW c \in Cells(u) \ w.off
            PROVE  Echoes(up'[p], telling[p], down[p], u, c, w.shown[c])
        <4>1. DOMAIN requests = {1} /\ Len(requests) = 1
          BY <1>3, <1>5, <1>10, <2>4, ListedIs
        <4>2. CASE requests[1].sets[1][1] = c
          <5>1. w.shown[c] = requests[1].sets[1][2]
            BY <1>3, <1>10, <2>4, <3>2, <4>2
          <5>2. Asks(requests[1], u, c)
            BY <1>5, <2>4, <4>1, <4>2 DEF Asks
          <5>3. /\ ~NoAsk(up[p] \o requests, u, c)
                /\ AskEcho(up[p] \o requests, down[p], u, c, requests[1].sets[1][2])
            BY <1>5, <1>7, <2>1, <4>1, <5>2, AskOwn
          <5> QED
            BY <3>1, <5>1, <5>3 DEF Echoes
        <4>3. CASE requests[1].sets[1][1] # c
          <5> DEFINE x == old.shown[c]
          <5>1. w.shown[c] = x /\ c \notin old.off
            BY <1>3, <1>10, <2>4, <3>2, <4>3
          <5>2. Echoes(up[p], telling[p], down[p], u, c, x)
            BY <2>1, <2>4, <3>1, <3>2, <5>1 DEF Mapped
          <5>3. NoAsk(requests, u, c)
            BY <4>1, <4>3 DEF NoAsk, Asks
          <5> HIDE DEF x
          <5>4. /\ NoAsk(up[p] \o requests, u, c) <=> NoAsk(up[p], u, c)
                /\ AskEcho(up[p], down[p], u, c, x) => AskEcho(up[p] \o requests, down[p], u, c, x)
            BY <1>5, <1>7, <2>1, <5>3, AskMore
          <5> QED
            BY <3>1, <5>1, <5>2, <5>4 DEF Echoes
        <4> QED
          BY <4>2, <4>3
      <3> QED
        BY <2>1, <3>1, <3>2 DEF Mapped
    <2>5. CASE u = v /\ old.channel # "open"
      <3>1. up'[p] = up[p] /\ view'[u] = w /\ view[u] = old /\ w.channel # "open"
        BY <1>1, <1>4, <2>1, <2>5 DEF old
      <3> QED
        BY <2>1, <2>5, <3>1 DEF Mapped
    <2> QED
      BY <2>2, <2>3, <2>4, <2>5
  <1> QED
    BY <1>8, <1>9, <1>10 DEF StepInv, Settling, Mapping

LEMMA StepChannelOpen ==
    ASSUME FormsTyped, StepInv, NEW v \in View, ChannelOpen(v)
    PROVE  StepInv'
  <1> DEFINE q == PageOf[v]
             get == <<Get(v)>>
             w == [channel |-> "open", shown |-> view[v].shown, off |-> view[v].off]
  <1>1. view'[v] = w /\ \A u \in View \ {v} : view'[u] = view[u]
    BY Rechanneled DEF FormsTyped, ChannelOpen
  <1>2. view[v].channel # "open" /\ UNCHANGED <<kept, saved, unsaved, said, open, telling, down>>
    BY DEF ChannelOpen
  <1>3. w.channel = "open" /\ w.shown = view[v].shown /\ w.off = view[v].off
    OBVIOUS
  <1>4. q \in Page /\ \A u \in View : PageOf[u] \in Page
    BY FormsAssumption
  <1>5. \A p \in Page : Listed(up[p])
    BY DEF FormsTyped, Queues, Asked
  <1>6. \A p \in Page : up'[p] = IF p = q THEN up[p] \o get ELSE up[p]
    <2>1. \A p \in Page : up'[p] = IF p = q THEN Append(up[p], Get(v)) ELSE up[p]
      BY DEF ChannelOpen, FormsTyped, Queues
    <2>2. ASSUME NEW p \in Page PROVE Append(up[p], Get(v)) = up[p] \o get
      <3>1. up[p] \in Seq(ToSet(up[p]))
        BY <1>5 DEF Listed
      <3> QED
        BY <3>1
    <2> QED
      BY <2>1, <2>2
  <1>7. /\ Listed(get) /\ DOMAIN get = {1} /\ get[1].kind = "get" /\ get[1].kind # "update"
        /\ get[1].from = v /\ get[1].live
    <2>1. Listed(get) /\ DOMAIN get = {1} /\ get[1] = Get(v)
      BY ListedOne, ListedIs
    <2> QED
      BY <2>1 DEF Get
  <1> HIDE DEF w, get, q
  <1>8. Closing'
    BY <1>2 DEF StepInv, Closing
  <1>9. ASSUME NEW u \in View, view'[u].channel = "open", NEW c \in Cells(u)
        PROVE  Steady(u, c)'
    <2> DEFINE p == PageOf[u]
    <2>1. /\ Inquires(up[p], u) \/ Inquires(get, u) => Inquires(up[p] \o get, u)
          /\ Wants(up[p], c) => Wants(up[p] \o get, c)
      BY <1>4, <1>5, <1>7, AskingMore
    <2>2. CASE u = v
      <3>1. Inquires(get, u)
        BY <1>7, <2>2 DEF Inquires, Inquiry
      <3>2. p = q
        BY <2>2 DEF q
      <3> QED
        BY <1>4, <1>6, <2>1, <3>1, <3>2 DEF Steady
    <2>3. CASE u # v
      <3>1. view'[u] = view[u] /\ Steady(u, c)
        BY <1>1, <1>9, <2>3 DEF StepInv, Settling
      <3>2. /\ Inquires(up[p], u) => Inquires(up'[p], u)
            /\ Wants(up[p], c) => Wants(up'[p], c)
        BY <1>4, <1>6, <2>1
      <3>3. said' = said /\ kept' = kept /\ down'[p] = down[p] /\ (Pending(c) => Pending(c)')
        BY <1>2 DEF Pending
      <3> QED
        BY <3>1, <3>2, <3>3 DEF Steady
    <2> QED
      BY <2>2, <2>3
  <1>10. ASSUME NEW u \in View, KindOf[u] = "map" PROVE Mapped(u)'
    <2> DEFINE p == PageOf[u]
    <2>1. Mapped(u) /\ telling'[p] = telling[p] /\ down'[p] = down[p] /\ p \in Page
      BY <1>2, <1>4, <1>10 DEF StepInv, Mapping
    <2>2. view'[u].shown = view[u].shown /\ view'[u].off = view[u].off
      BY <1>1, <1>3
    <2>3. CASE view[u].channel = "open"
      <3>1. u # v /\ view'[u] = view[u]
        BY <1>1, <1>2, <2>3
      <3>2. ASSUME NEW c \in Cells(u) \ view[u].off
            PROVE  Echoes(up'[p], telling[p], down[p], u, c, view[u].shown[c])
        <4> DEFINE x == view[u].shown[c]
        <4>1. Echoes(up[p], telling[p], down[p], u, c, x)
          BY <2>1, <2>3 DEF Mapped
        <4>2. NoAsk(get, u, c)
          BY <1>7 DEF NoAsk, Asks
        <4> HIDE DEF x
        <4>3. /\ NoAsk(up[p] \o get, u, c) <=> NoAsk(up[p], u, c)
              /\ AskEcho(up[p], down[p], u, c, x) => AskEcho(up[p] \o get, down[p], u, c, x)
          BY <1>5, <1>7, <2>1, <4>2, AskMore
        <4>4. Echoes(up'[p], telling[p], down[p], u, c, x)
          BY <1>6, <2>1, <4>1, <4>3 DEF Echoes
        <4> QED
          BY <4>4 DEF x
      <3> QED
        BY <2>1, <2>3, <3>1, <3>2 DEF Mapped
    <2>4. CASE view[u].channel # "open"
      <3>1. Quiets(up[p], telling[p], down[p], u)
        BY <2>1, <2>4 DEF Mapped
      <3>2. /\ Listed(up[p]) /\ Listed(get)
            /\ \A i \in DOMAIN up[p] : ~(up[p][i].kind = "update" /\ up[p][i].from = u)
            /\ \A i \in DOMAIN get : ~(get[i].kind = "update" /\ get[i].from = u)
        BY <1>5, <1>7, <2>1, <3>1 DEF Quiets
      <3>3. \A k \in DOMAIN up'[p] : ~(up'[p][k].kind = "update" /\ up'[p][k].from = u)
        <4>1. up'[p] = up[p] \/ up'[p] = up[p] \o get
          BY <1>6, <2>1
        <4> QED
          BY <3>2, <4>1, NoneMore
      <3>4. Quiets(up'[p], telling[p], down[p], u)
        BY <3>1, <3>3 DEF Quiets
      <3>5. \A c, x : Echoes(up'[p], telling[p], down[p], u, c, x)
        BY <3>4, QuietsVoid
      <3> QED
        BY <2>1, <3>4, <3>5 DEF Mapped
    <2> QED
      BY <2>3, <2>4
  <1> QED
    BY <1>8, <1>9, <1>10 DEF StepInv, Settling, Mapping

LEMMA StepMount ==
    ASSUME FormsTyped, StepInv, NEW v \in View, Mount(v)
    PROVE  StepInv'
  <1> DEFINE w == [channel |-> "new", shown |-> view[v].shown, off |-> view[v].off]
  <1>1. view'[v] = w /\ \A u \in View \ {v} : view'[u] = view[u]
    BY Rechanneled DEF FormsTyped, Mount
  <1>2. w.channel = "new"
    OBVIOUS
  <1> HIDE DEF w
  <1>3. KindOf[v] # "map"
    BY DEF Mount, Mounted, FormsTyped, Views, Looks
  <1>4. UNCHANGED <<kept, saved, unsaved, said, open, up, telling, down>>
    BY DEF Mount
  <1>5. Closing'
    BY <1>4 DEF StepInv, Closing
  <1>6. ASSUME NEW u \in View, view'[u].channel = "open", NEW c \in Cells(u)
        PROVE  Steady(u, c)'
    <2>1. u # v
      BY <1>1, <1>2, <1>6
    <2>2. Steady(u, c) /\ view'[u] = view[u]
      BY <1>1, <1>6, <2>1 DEF StepInv, Settling
    <2>3. Pending(c) => Pending(c)'
      BY <1>4 DEF Pending
    <2> QED
      BY <1>4, <2>2, <2>3, SteadySame
  <1>7. ASSUME NEW u \in View, KindOf[u] = "map" PROVE Mapped(u)'
    BY <1>1, <1>3, <1>4, <1>7, MappedSame DEF StepInv, Mapping
  <1> QED
    BY <1>5, <1>6, <1>7 DEF StepInv, Settling, Mapping

LEMMA StepUnmount ==
    ASSUME FormsTyped, StepInv, NEW v \in View, Unmount(v)
    PROVE  StepInv'
  <1> DEFINE w == [channel |-> "none", shown |-> First, off |-> {}]
             q == PageOf[v]
  <1>1. q \in Page /\ \A u \in View : PageOf[u] \in Page
    BY FormsAssumption
  <1>2. KindOf[v] # "map" /\ UNCHANGED <<kept, saved, unsaved, said, open, telling>>
    BY DEF Unmount
  <1>3. view'[v] = w /\ \A u \in View \ {v} : view'[u] = view[u]
    BY DEF Unmount, FormsTyped, Views
  <1>4. w.channel = "none"
    OBVIOUS
  <1> HIDE DEF w, q
  <1>5. /\ \A p \in Page : up'[p] = IF p = q THEN Unheard(v, up[p]) ELSE up[p]
        /\ \A p \in Page : down'[p] = IF p = q THEN Unheard(v, down[p]) ELSE down[p]
    BY DEF Unmount, FormsTyped, Queues, q
  <1>6. \A p \in Page : Asked(p, up[p]) /\ Brought(p, down[p])
    BY DEF FormsTyped, Queues
  <1>7. Closing'
    <2> SUFFICES ASSUME NEW p \in Page, NEW c \in DOMAIN said PROVE Closes(down'[p], c, said[c])
      BY <1>2 DEF Closing
    <2>1. Closes(down[p], c, said[c])
      BY DEF StepInv, Closing
    <2>2. Closes(Unheard(v, down[p]), c, said[c])
      BY <1>6, <2>1, ClosesUnheard
    <2> QED
      BY <1>5, <2>1, <2>2
  <1>8. ASSUME NEW u \in View, view'[u].channel = "open", NEW c \in Cells(u)
        PROVE  Steady(u, c)'
    <2> DEFINE p == PageOf[u]
    <2>1. u # v
      BY <1>3, <1>4, <1>8
    <2>2. Steady(u, c) /\ view'[u] = view[u] /\ p \in Page
      BY <1>1, <1>3, <1>8, <2>1 DEF StepInv, Settling
    <2>3. /\ Inquires(up[p], u) => Inquires(Unheard(v, up[p]), u)
          /\ Wants(up[p], c) => Wants(Unheard(v, up[p]), c)
      BY <1>6, <2>1, <2>2, AskingUnheard
    <2>4. /\ Inquires(up[p], u) => Inquires(up'[p], u)
          /\ Wants(up[p], c) => Wants(up'[p], c)
      BY <1>5, <2>2, <2>3
    <2>5. said' = said /\ kept' = kept /\ (Pending(c) => Pending(c)')
      BY <1>2 DEF Pending
    <2>6. ASSUME NEW R, Ends(down[p], u, c, R, view[u]) PROVE Ends(down'[p], u, c, R, view[u])
      <3>1. Ends(Unheard(v, down[p]), u, c, R, view[u])
        BY <1>6, <2>1, <2>2, <2>6, EndsUnheard
      <3> QED
        BY <1>5, <2>2, <2>6, <3>1
    <2> QED
      BY <2>2, <2>4, <2>5, <2>6 DEF Steady
  <1>9. ASSUME NEW u \in View, KindOf[u] = "map" PROVE Mapped(u)'
    <2> DEFINE p == PageOf[u]
    <2>1. u # v /\ p \in Page /\ Mapped(u) /\ telling'[p] = telling[p] /\ view'[u] = view[u]
      BY <1>1, <1>2, <1>3, <1>9 DEF StepInv, Mapping
    <2>2. CASE p # q
      BY <1>5, <2>1, <2>2, MappedSame
    <2>3. CASE p = q /\ view[u].channel = "open"
      <3>1. up'[p] = Unheard(v, up[p]) /\ down'[p] = Unheard(v, down[p])
        BY <1>5, <2>1, <2>3
      <3>2. ASSUME NEW c \in Cells(u) \ view[u].off
            PROVE  Echoes(up'[p], telling[p], down'[p], u, c, view[u].shown[c])
        <4> DEFINE x == view[u].shown[c]
        <4>1. Echoes(up[p], telling[p], down[p], u, c, x)
          BY <2>1, <2>3 DEF Mapped
        <4> HIDE DEF x
        <4>2. /\ NoAsk(Unheard(v, up[p]), u, c) <=> NoAsk(up[p], u, c)
              /\ AskEcho(up[p], down[p], u, c, x) => AskEcho(Unheard(v, up[p]), down[p], u, c, x)
          BY <1>6, <2>1, AskUnheard
        <4>3. Echoes(up'[p], telling[p], down[p], u, c, x)
          BY <3>1, <4>1, <4>2 DEF Echoes
        <4>4. Carries(down[p], Unheard(v, down[p]), [i \in DOMAIN down[p] |-> i], u, c)
          BY <1>6, <2>1, CarriesUnheard
        <4>5. Echoes(up'[p], telling[p], down'[p], u, c, x)
          BY <3>1, <4>3, <4>4, EchoesCarried
        <4> QED
          BY <4>5 DEF x
      <3> QED
        BY <2>1, <2>3, <3>2 DEF Mapped
    <2>4. CASE p = q /\ view[u].channel # "open"
      <3>1. Quiets(up[p], telling[p], down[p], u)
        BY <2>1, <2>4 DEF Mapped
      <3>2. up'[p] = Unheard(v, up[p]) /\ down'[p] = Unheard(v, down[p])
        BY <1>5, <2>1, <2>4
      <3>3. /\ DOMAIN up'[p] = DOMAIN up[p] /\ \A i \in DOMAIN up[p] : up'[p][i] = Muted(v, up[p][i])
            /\ DOMAIN down'[p] = DOMAIN down[p] /\ \A i \in DOMAIN down[p] : down'[p][i] = Muted(v, down[p][i])
        BY <1>6, <2>1, <3>2, UnheardIs DEF Asked, Brought
      <3>4. \A i \in DOMAIN up[p] : ~(Muted(v, up[p][i]).kind = "update" /\ Muted(v, up[p][i]).from = u)
        <4> SUFFICES ASSUME NEW i \in DOMAIN up[p]
                     PROVE  ~(Muted(v, up[p][i]).kind = "update" /\ Muted(v, up[p][i]).from = u)
          OBVIOUS
        <4>1. Request(p, up[p][i]) /\ ~(up[p][i].kind = "update" /\ up[p][i].from = u)
          BY <1>6, <2>1, <3>1 DEF Quiets, Asked
        <4>2. up[p][i].kind \in {"update", "get"}
          BY <4>1 DEF Request
        <4>3. /\ up[p][i].kind = "update" => Muted(v, up[p][i]) = up[p][i]
              /\ up[p][i].kind = "get" => Muted(v, up[p][i]).kind = "get"
          BY <4>1, MutedRequest
        <4> QED
          BY <4>1, <4>2, <4>3
      <3>5. \A i \in DOMAIN down[p] : ~(Muted(v, down[p][i]).kind = "broadcast" /\ Muted(v, down[p][i]).from = u)
        <4> SUFFICES ASSUME NEW i \in DOMAIN down[p]
                     PROVE  ~(Muted(v, down[p][i]).kind = "broadcast" /\ Muted(v, down[p][i]).from = u)
          OBVIOUS
        <4>1. /\ Word(down[p][i]) \/ Reply(p, down[p][i])
              /\ ~(down[p][i].kind = "broadcast" /\ down[p][i].from = u)
          BY <1>6, <2>1, <3>1 DEF Quiets, Brought
        <4>2. CASE Word(down[p][i])
          BY <4>1, <4>2, MutedNews
        <4>3. CASE Reply(p, down[p][i])
          <5>1. Reply(p, Muted(v, down[p][i]))
            BY <4>3, MutedNews
          <5> QED
            BY <5>1 DEF Reply
        <4> QED
          BY <4>1, <4>2, <4>3
      <3>6. Quiets(up'[p], telling[p], down'[p], u)
        BY <3>1, <3>3, <3>4, <3>5 DEF Quiets
      <3> QED
        BY <2>1, <2>4, <3>6 DEF Mapped
    <2> QED
      BY <2>2, <2>3, <2>4
  <1> QED
    BY <1>7, <1>8, <1>9 DEF StepInv, Settling, Mapping

(* What was not told of, and was applied, does not come to be said any more. *)
LEMMA StepLose ==
    ASSUME FormsTyped, StepInv, NEW q \in Page, Lose(q)
    PROVE  StepInv'
  <1>1. /\ view' = Deprived(q) /\ UNCHANGED kept
        /\ said' = [c \in DOMAIN said \ {m.cell : m \in ToSet(telling[q])} |-> said[c]]
        /\ up' = [up EXCEPT ![q] = <<>>] /\ telling' = [telling EXCEPT ![q] = <<>>]
        /\ down' = [down EXCEPT ![q] = <<>>]
    BY DEF Lose
  <1>2. /\ up'[q] = <<>> /\ telling'[q] = <<>> /\ down'[q] = <<>>
        /\ \A p \in Page \ {q} : up'[p] = up[p] /\ telling'[p] = telling[p] /\ down'[p] = down[p]
    BY <1>1 DEF FormsTyped, Queues
  <1>3. \A c \in DOMAIN said' : c \in DOMAIN said /\ said'[c] = said[c] /\ ~Awaits(telling[q], c)
    BY <1>1 DEF Awaits, ToSet
  <1>4. ASSUME NEW u \in View
        PROVE  /\ PageOf[u] \in Page
               /\ PageOf[u] = q => view'[u].channel # "open"
               /\ PageOf[u] # q => view'[u] = view[u]
    <2>1. /\ PageOf[u] \in Page
          /\ view[u] = [channel |-> view[u].channel, shown |-> view[u].shown, off |-> view[u].off]
      BY FormsAssumption DEF FormsTyped, Views, Looks
    <2>2. CASE PageOf[u] = q /\ view[u].channel = "open"
      <3>1. view'[u] = [view[u] EXCEPT !.channel = "lost"]
        BY <1>1, <2>2 DEF Deprived
      <3>2. view'[u].channel = "lost"
        BY <2>1, <3>1
      <3> QED
        BY <2>1, <2>2, <3>2
    <2>3. CASE ~(PageOf[u] = q /\ view[u].channel = "open")
      <3>1. view'[u] = view[u]
        BY <1>1, <2>3 DEF Deprived
      <3> QED
        BY <2>1, <2>3, <3>1
    <2> QED
      BY <2>2, <2>3
  <1>5. DOMAIN <<>> = {}
    BY ListedEmpty
  <1>6. Closing'
    <2> SUFFICES ASSUME NEW p \in Page, NEW c \in DOMAIN said' PROVE Closes(down'[p], c, said'[c])
      BY DEF Closing
    <2>1. Closes(down[p], c, said'[c])
      BY <1>3 DEF StepInv, Closing
    <2>2. Closes(<<>>, c, said'[c])
      BY <1>5 DEF Closes
    <2> QED
      BY <1>2, <2>1, <2>2
  <1>7. ASSUME NEW u \in View, view'[u].channel = "open", NEW c \in Cells(u)
        PROVE  Steady(u, c)'
    <2>1. PageOf[u] \in Page \ {q} /\ view'[u] = view[u]
      BY <1>4, <1>7
    <2>2. Steady(u, c)
      BY <1>7, <2>1 DEF StepInv, Settling
    <2>3. ASSUME c \in DOMAIN said', Pending(c) PROVE Pending(c)'
      <3>1. PICK p \in Page : Awaits(telling[p], c)
        BY <2>3 DEF Pending
      <3>2. Awaits(telling'[p], c)
        BY <1>2, <1>3, <2>3, <3>1
      <3> QED
        BY <3>2 DEF Pending
    <2>4. c \in DOMAIN said' => c \in DOMAIN said /\ said'[c] = said[c] /\ kept'[c] = kept[c]
      BY <1>1, <1>3
    <2>5. up'[PageOf[u]] = up[PageOf[u]] /\ down'[PageOf[u]] = down[PageOf[u]]
      BY <1>2, <2>1
    <2> QED
      BY <2>1, <2>2, <2>3, <2>4, <2>5, SteadySame
  <1>8. ASSUME NEW u \in View, KindOf[u] = "map" PROVE Mapped(u)'
    <2>1. CASE PageOf[u] = q
      <3>1. Quiets(<<>>, <<>>, <<>>, u)
        BY <1>5 DEF Quiets
      <3> QED
        BY <1>2, <1>4, <2>1, <3>1 DEF Mapped
    <2>2. CASE PageOf[u] # q
      <3>1. PageOf[u] \in Page \ {q} /\ view'[u] = view[u] /\ Mapped(u)
        BY <1>4, <1>8, <2>2 DEF StepInv, Mapping
      <3>2. /\ up'[PageOf[u]] = up[PageOf[u]] /\ telling'[PageOf[u]] = telling[PageOf[u]]
            /\ down'[PageOf[u]] = down[PageOf[u]]
        BY <1>2, <3>1
      <3> QED
        BY <3>1, <3>2, MappedSame
    <2> QED
      BY <2>1, <2>2
  <1> QED
    BY <1>6, <1>7, <1>8 DEF StepInv, Settling, Mapping

(* Nothing that is compared. *)
LEMMA StepIdle ==
    ASSUME StepInv, UNCHANGED <<kept, said, up, telling, down, view>>
    PROVE  StepInv'
  <1>1. Closing'
    BY DEF StepInv, Closing
  <1>2. ASSUME NEW u \in View, view'[u].channel = "open", NEW c \in Cells(u)
        PROVE  Steady(u, c)'
    <2>1. Steady(u, c)
      BY <1>2 DEF StepInv, Settling
    <2>2. Pending(c) => Pending(c)'
      BY DEF Pending
    <2> QED
      BY <2>1, <2>2, SteadySame
  <1>3. ASSUME NEW u \in View, KindOf[u] = "map" PROVE Mapped(u)'
    BY <1>3, MappedSame DEF StepInv, Mapping
  <1> QED
    BY <1>1, <1>2, <1>3 DEF StepInv, Settling, Mapping

LEMMA StepApply ==
    ASSUME FormsTyped, StepInv, NEW q \in Page, Apply(q)
    PROVE  StepInv'
  <1> DEFINE m == Head(up[q])
             value(c) == (CHOOSE s \in ToSet(m.sets) : s[1] = c)[2]
             told == [i \in DOMAIN m.sets |-> Broadcast(m.from, m.sets[i])]
  <1>1. /\ up[q] # <<>> /\ telling[q] = <<>> /\ m.kind = "update"
        /\ kept' = [c \in Cell |-> IF \E i \in DOMAIN m.sets : m.sets[i][1] = c THEN value(c) ELSE kept[c]]
        /\ telling' = [telling EXCEPT ![q] = told]
        /\ up' = [up EXCEPT ![q] = Tail(@)]
        /\ UNCHANGED <<saved, unsaved, said, open, down, view>>
    BY DEF Apply
  <1>2. /\ telling'[q] = told /\ up'[q] = Tail(up[q])
        /\ \A p \in Page \ {q} : up'[p] = up[p] /\ telling'[p] = telling[p]
    BY <1>1 DEF FormsTyped, Queues
  <1>3. Request(q, m) /\ Listed(up[q])
    BY <1>1, QueuedLess DEF FormsTyped, Queues, Asked
  <1> HIDE DEF m
  <1>4. /\ DOMAIN told = DOMAIN m.sets
        /\ \A i \in DOMAIN told : /\ told[i].kind = "broadcast" /\ told[i].from = m.from
                                  /\ told[i].cell = m.sets[i][1] /\ told[i].value = m.sets[i][2]
    BY DEF Broadcast
  <1>5. /\ m.from \in View /\ PageOf[m.from] = q /\ Listed(m.sets)
        /\ KindOf[m.from] = "map" => Len(m.sets) = 1
    BY <1>1, <1>3 DEF Request, Sets
  <1> HIDE DEF told, value
  <1>6. DOMAIN <<>> = {} /\ \A u \in View : PageOf[u] \in Page
    BY ListedEmpty, FormsAssumption
  <1>7. Closing'
    BY <1>1 DEF StepInv, Closing
  <1>8. ASSUME NEW u \in View, view'[u].channel = "open", NEW c \in Cells(u)
        PROVE  Steady(u, c)'
    <2> DEFINE p == PageOf[u]
    <2>1. view'[u] = view[u] /\ down'[p] = down[p] /\ said' = said /\ Steady(u, c) /\ p \in Page
      BY <1>1, <1>6, <1>8 DEF StepInv, Settling
    <2>2. CASE Wish(m, c)
      <3>1. Awaits(told, c)
        BY <1>4, <2>2 DEF Wish, Awaits
      <3>2. Pending(c)'
        BY <1>2, <3>1 DEF Pending
      <3> QED
        BY <3>2 DEF Steady
    <2>3. CASE ~Wish(m, c)
      <3>1. kept'[c] = kept[c]
        <4>1. c \in Cell /\ ~\E i \in DOMAIN m.sets : m.sets[i][1] = c
          BY <1>1, <2>3, CellsAre DEF Wish
        <4> QED
          BY <1>1, <4>1
      <3>2. Pending(c) => Pending(c)'
        <4>1. ~Awaits(<<>>, c)
          BY <1>6 DEF Awaits
        <4> QED
          BY <1>1, <1>2, <4>1 DEF Pending
      <3>3. /\ Inquires(up[q], u) => Inquiry(m, u) \/ Inquires(Tail(up[q]), u)
            /\ Wants(up[q], c) => Wish(m, c) \/ Wants(Tail(up[q]), c)
        BY <1>1, <1>3, AskingTail DEF m
      <3>4. ~Inquiry(m, u)
        BY <1>1 DEF Inquiry
      <3>5. /\ Inquires(up[p], u) => Inquires(up'[p], u)
            /\ Wants(up[p], c) => Wants(up'[p], c)
        BY <1>2, <2>1, <2>3, <3>3, <3>4
      <3> QED
        BY <2>1, <3>1, <3>2, <3>5 DEF Steady
    <2> QED
      BY <2>2, <2>3
  <1>9. ASSUME NEW u \in View, KindOf[u] = "map" PROVE Mapped(u)'
    <2> DEFINE p == PageOf[u]
    <2>1. view'[u] = view[u] /\ down'[p] = down[p] /\ Mapped(u) /\ p \in Page
      BY <1>1, <1>6, <1>9 DEF StepInv, Mapping
    <2>2. CASE p # q
      BY <1>2, <2>1, <2>2, MappedSame
    <2>3. CASE p = q /\ view[u].channel = "open"
      <3>1. ASSUME NEW c \in Cells(u) \ view[u].off
            PROVE  Echoes(up'[p], telling'[p], down[p], u, c, view[u].shown[c])
        <4> DEFINE x == view[u].shown[c]
        <4>1. Echoes(up[q], <<>>, down[p], u, c, x)
          BY <1>1, <2>1, <2>3 DEF Mapped
        <4> HIDE DEF x
        <4>2. m.from = u => DOMAIN m.sets = {1}
          BY <1>5, <1>9, ListedIs
        <4>3. \A i \in DOMAIN told : Own(told[i], u, c) => Asks(m, u, c) /\ told[i].value = m.sets[1][2]
          BY <1>1, <1>4, <4>2 DEF Own, Asks
        <4>4. Asks(m, u, c) => ~NoOwn(told, u, c)
          BY <1>4, <4>2 DEF Asks, NoOwn, Own
        <4>5. Echoes(Tail(up[q]), told, down[p], u, c, x)
          BY <1>1, <1>3, <4>1, <4>3, <4>4, EchoesApplied DEF m
        <4> QED
          BY <1>2, <2>3, <4>5 DEF x
      <3> QED
        BY <2>1, <2>3, <3>1 DEF Mapped
    <2>4. CASE p = q /\ view[u].channel # "open"
      <3>1. Quiets(up[q], <<>>, down[p], u)
        BY <1>1, <2>1, <2>4 DEF Mapped
      <3>2. /\ \E i \in DOMAIN up[q] : up[q][i] = m
            /\ \A j \in DOMAIN Tail(up[q]) : \E i \in DOMAIN up[q] : up[q][i] = Tail(up[q])[j]
        BY <1>1, <1>3, TailHolds DEF m
      <3>3. m.from # u
        BY <1>1, <3>1, <3>2 DEF Quiets
      <3>4. Quiets(Tail(up[q]), told, down[p], u)
        BY <1>4, <3>1, <3>2, <3>3 DEF Quiets
      <3> QED
        BY <1>2, <2>1, <2>4, <3>4 DEF Mapped
    <2> QED
      BY <2>2, <2>3, <2>4
  <1> QED
    BY <1>7, <1>8, <1>9 DEF StepInv, Settling, Mapping

LEMMA StepTell ==
    ASSUME FormsTyped, StepInv, NEW q \in Page, Tell(q)
    PROVE  StepInv'
  <1> DEFINE m == Head(telling[q])
  <1>1. /\ telling[q] # <<>>
        /\ said' = Over(Just(m.cell, m.value), said)
        /\ down' = [p \in Page |-> IF p \in open THEN Append(down[p], m) ELSE down[p]]
        /\ telling' = [telling EXCEPT ![q] = Tail(@)]
        /\ UNCHANGED <<kept, saved, open, up, view>>
    BY DEF Tell
  <1>2. Word(m) /\ PageOf[m.from] = q /\ Listed(telling[q])
    BY <1>1, QueuedLess DEF FormsTyped, Queues, Told
  <1>3. /\ telling'[q] = Tail(telling[q])
        /\ \A p \in Page \ {q} : telling'[p] = telling[p]
        /\ \A p \in Page : down'[p] = IF p \in open THEN Append(down[p], m) ELSE down[p]
    BY <1>1 DEF FormsTyped, Queues
  <1>4. m.kind = "broadcast" /\ \A c : Broadcasts(m, c) <=> m.cell = c
    BY <1>2 DEF Word, Broadcasts
  <1>5. \A p \in Page : Listed(down[p]) /\ (p \notin open => down[p] = <<>>)
    BY DEF FormsTyped, Queues, Brought
  <1>6. \A u \in View : PageOf[u] \in Page /\ (view[u].channel = "open" => PageOf[u] \in open)
    BY FormsAssumption DEF FormsTyped, Views
  <1>7. /\ DOMAIN said' = {m.cell} \cup DOMAIN said
        /\ said'[m.cell] = m.value
        /\ \A c \in DOMAIN said \ {m.cell} : said'[c] = said[c]
    <2> DEFINE f == Just(m.cell, m.value)
    <2>1. DOMAIN f = {m.cell} /\ f[m.cell] = m.value
      BY JustIs
    <2> HIDE DEF f, m
    <2>2. /\ DOMAIN Over(f, said) = DOMAIN f \cup DOMAIN said
          /\ \A c \in DOMAIN f : Over(f, said)[c] = f[c]
          /\ \A c \in DOMAIN said \ DOMAIN f : Over(f, said)[c] = said[c]
      BY OverIs
    <2>3. said' = Over(f, said)
      BY <1>1 DEF f
    <2> QED
      BY <2>1, <2>2, <2>3
  <1> HIDE DEF m
  <1>8. Closing'
    <2> SUFFICES ASSUME NEW p \in Page, NEW c \in DOMAIN said' PROVE Closes(down'[p], c, said'[c])
      BY DEF Closing
    <2>1. CASE p \in open
      <3>1. IF Broadcasts(m, c) THEN said'[c] = m.value ELSE Closes(down[p], c, said'[c])
        BY <1>4, <1>7 DEF StepInv, Closing
      <3>2. Closes(Append(down[p], m), c, said'[c])
        BY <1>5, <3>1, ClosesMore
      <3> QED
        BY <1>3, <2>1, <3>2
    <2>2. CASE p \notin open
      <3>1. down'[p] = <<>>
        BY <1>3, <1>5, <2>2
      <3> QED
        BY <3>1, ListedEmpty DEF Closes
    <2> QED
      BY <2>1, <2>2
  <1>9. ASSUME NEW u \in View, view'[u].channel = "open", NEW c \in Cells(u)
        PROVE  Steady(u, c)'
    <2> DEFINE p == PageOf[u]
    <2>1. /\ view'[u] = view[u] /\ up'[p] = up[p] /\ kept' = kept /\ Steady(u, c)
          /\ p \in Page /\ down'[p] = Append(down[p], m)
      BY <1>1, <1>3, <1>6, <1>9 DEF StepInv, Settling
    <2>2. CASE m.cell = c
      <3>1. \A R : Ends(down'[p], u, c, R, view[u])
        BY <1>4, <1>5, <2>1, <2>2, EndsMore
      <3> QED
        BY <2>1, <3>1 DEF Steady
    <2>3. CASE m.cell # c
      <3>1. \A R : Ends(down[p], u, c, R, view[u]) => Ends(down'[p], u, c, R, view[u])
        BY <1>4, <1>5, <2>1, EndsMore
      <3>2. Pending(c) => Pending(c)'
        <4>1. Awaits(telling[q], c) => Awaits(Tail(telling[q]), c)
          BY <1>1, <1>2, <2>3, AwaitingTail DEF m
        <4> QED
          BY <1>3, <4>1 DEF Pending
      <3>3. c \in DOMAIN said' => c \in DOMAIN said /\ said'[c] = said[c]
        BY <1>7, <2>3
      <3> QED
        BY <2>1, <3>1, <3>2, <3>3 DEF Steady
    <2> QED
      BY <2>2, <2>3
  <1>10. ASSUME NEW u \in View, KindOf[u] = "map" PROVE Mapped(u)'
    <2> DEFINE p == PageOf[u]
    <2>1. view'[u] = view[u] /\ up'[p] = up[p] /\ Mapped(u) /\ p \in Page
      BY <1>1, <1>6, <1>10 DEF StepInv, Mapping
    <2>2. CASE view[u].channel = "open"
      <3>1. ASSUME NEW c \in Cells(u) \ view[u].off
            PROVE  Echoes(up[p], telling'[p], down'[p], u, c, view[u].shown[c])
        <4> DEFINE x == view[u].shown[c]
        <4>1. Echoes(up[p], telling[p], down[p], u, c, x) /\ down'[p] = Append(down[p], m)
          BY <1>3, <1>6, <2>1, <2>2 DEF Mapped
        <4> HIDE DEF x
        <4>2. CASE p = q
          <5>1. Echoes(up[p], Tail(telling[p]), Append(down[p], m), u, c, x)
            BY <1>1, <1>2, <1>5, <2>1, <4>1, <4>2, EchoesTold DEF m
          <5> QED
            BY <1>3, <4>1, <4>2, <5>1 DEF x
        <4>3. CASE p # q
          <5>1. ~Own(m, u, c)
            BY <1>2, <4>3 DEF Own
          <5>2. Carries(down[p], Append(down[p], m), [i \in DOMAIN down[p] |-> i], u, c)
            BY <1>5, <2>1, <5>1, CarriesMore
          <5>3. Echoes(up[p], telling[p], Append(down[p], m), u, c, x)
            BY <4>1, <5>2, EchoesCarried
          <5> QED
            BY <1>3, <2>1, <4>1, <4>3, <5>3 DEF x
        <4> QED
          BY <4>2, <4>3
      <3> QED
        BY <2>1, <2>2, <3>1 DEF Mapped
    <2>3. CASE view[u].channel # "open"
      <3>1. Quiets(up[p], telling[p], down[p], u)
        BY <2>1, <2>3 DEF Mapped
      <3>2. /\ \E i \in DOMAIN telling[q] : telling[q][i] = m
            /\ \A j \in DOMAIN Tail(telling[q]) : \E i \in DOMAIN telling[q] : telling[q][i] = Tail(telling[q])[j]
        BY <1>1, <1>2, TailHolds DEF m
      <3>3. m.from # u
        BY <1>2, <3>1, <3>2 DEF Quiets
      <3>4. \A k \in DOMAIN Append(down[p], m) :
                Append(down[p], m)[k] = m \/ \E i \in DOMAIN down[p] : Append(down[p], m)[k] = down[p][i]
        BY <1>5, <2>1, AppendHolds
      <3>5. \A i \in DOMAIN down'[p] : ~(down'[p][i].kind = "broadcast" /\ down'[p][i].from = u)
        <4>1. down'[p] = down[p] \/ down'[p] = Append(down[p], m)
          BY <1>3, <2>1
        <4>2. \A i \in DOMAIN down[p] : ~(down[p][i].kind = "broadcast" /\ down[p][i].from = u)
          BY <3>1 DEF Quiets
        <4> QED
          BY <3>3, <3>4, <4>1, <4>2
      <3>6. \A i \in DOMAIN telling'[p] : telling'[p][i].from # u
        <4>1. telling'[p] = telling[p] \/ (p = q /\ telling'[p] = Tail(telling[q]))
          BY <1>3, <2>1
        <4>2. \A i \in DOMAIN telling[p] : telling[p][i].from # u
          BY <3>1 DEF Quiets
        <4> QED
          BY <3>2, <4>1, <4>2
      <3>7. Quiets(up[p], telling'[p], down'[p], u)
        BY <3>1, <3>5, <3>6 DEF Quiets
      <3> QED
        BY <2>1, <2>3, <3>7 DEF Mapped
    <2> QED
      BY <2>2, <2>3
  <1> QED
    BY <1>8, <1>9, <1>10 DEF StepInv, Settling, Mapping

LEMMA StepAnswer ==
    ASSUME FormsTyped, StepInv, NEW q \in Page, Answer(q)
    PROVE  StepInv'
  <1>1. PICK v, i, m : Answering(q, v, i, m) /\ Reply(q, m)
    BY AnswerIs
  <1> DEFINE get == Head(up[q])
             e == InsertAt(down[q], i, m)
  <1>2. /\ v \in View /\ PageOf[v] = q /\ i \in 1..Len(down[q]) + 1
        /\ up[q] # <<>> /\ get.kind = "get" /\ get.from = v /\ telling[q] = <<>>
        /\ \A j \in DOMAIN down[q] : j >= i => down[q][j].kind = "broadcast"
        /\ UNCHANGED <<kept, saved, unsaved, said, open, telling, view>>
    BY <1>1 DEF Answering
  <1>3. /\ up'[q] = Tail(up[q]) /\ down'[q] = e
        /\ \A p \in Page \ {q} : up'[p] = up[p] /\ down'[p] = down[p]
    BY <1>1 DEF Answering, FormsTyped, Queues
  <1>4. m.kind = "answer" /\ m.from = v /\ m.live = get.live /\ m.cells = Known(v)
    BY <1>1 DEF Answering
  <1>5. Listed(up[q]) /\ Listed(down[q])
    BY DEF FormsTyped, Queues, Asked, Brought
  <1>6. \A u \in View : PageOf[u] \in Page
    BY FormsAssumption
  <1>7. KindOf[v] # "status" => \A c \in Cells(v) : m.cells[c] = kept[c]
    BY <1>2, <1>4, KnownIs DEF FormsTyped
  <1> HIDE DEF get, e
  <1>8. ~(m.kind = "broadcast") /\ \A c : ~Broadcasts(m, c)
    BY <1>4 DEF Broadcasts
  <1>9. Closing'
    <2> SUFFICES ASSUME NEW p \in Page, NEW c \in DOMAIN said PROVE Closes(down'[p], c, said[c])
      BY <1>2 DEF Closing
    <2>1. Closes(down[p], c, said[c])
      BY DEF StepInv, Closing
    <2>2. ASSUME p = q PROVE Closes(e, c, said[c])
      BY <1>2, <1>5, <1>8, <2>1, <2>2, ClosesBetween DEF e
    <2> QED
      BY <1>3, <2>1, <2>2
  <1>10. ASSUME NEW u \in View, view'[u].channel = "open", NEW c \in Cells(u)
         PROVE  Steady(u, c)'
    <2> DEFINE p == PageOf[u]
    <2>1. view'[u] = view[u] /\ Steady(u, c) /\ p \in Page /\ said' = said /\ kept' = kept
      BY <1>2, <1>6, <1>10 DEF StepInv, Settling
    <2>2. Pending(c) => Pending(c)'
      BY <1>2 DEF Pending
    <2>3. CASE p # q
      BY <1>3, <2>1, <2>2, <2>3, SteadySame
    <2>4. CASE p = q
      <3> DEFINE R == {said[c], kept[c]}
                 w == view[u]
      <3>1. CASE Answers(m, u)
        <4>1. KindOf[u] # "status" => m.cells[c] \in R
          BY <1>4, <1>7, <3>1 DEF Answers
        <4> HIDE DEF R, w
        <4>2. Ends(e, u, c, R, w)
          BY <1>2, <1>4, <1>5, <3>1, <4>1, EndsBetween DEF e
        <4> QED
          BY <1>3, <2>1, <2>4, <4>2 DEF Steady, R, w
      <3>2. CASE ~Answers(m, u)
        <4>1. Ends(down[q], u, c, R, w) => Ends(e, u, c, R, w)
          <5> HIDE DEF R, w
          <5> QED
            BY <1>2, <1>4, <1>5, <3>2, EndsBetween DEF e
        <4>2. ~Inquiry(get, u) /\ ~Wish(get, c)
          BY <1>2, <1>4, <3>2 DEF Answers, Inquiry, Wish
        <4>3. /\ Inquires(up[q], u) => Inquires(Tail(up[q]), u)
              /\ Wants(up[q], c) => Wants(Tail(up[q]), c)
          BY <1>2, <1>5, <4>2, AskingTail DEF get
        <4> QED
          BY <1>3, <2>1, <2>2, <2>4, <4>1, <4>3 DEF Steady
      <3> QED
        BY <3>1, <3>2
    <2> QED
      BY <2>3, <2>4
  <1>11. ASSUME NEW u \in View, KindOf[u] = "map" PROVE Mapped(u)'
    <2> DEFINE p == PageOf[u]
    <2>1. view'[u] = view[u] /\ telling'[p] = telling[p] /\ Mapped(u) /\ p \in Page
      BY <1>2, <1>6, <1>11 DEF StepInv, Mapping
    <2>2. CASE p # q
      BY <1>3, <2>1, <2>2, MappedSame
    <2>3. CASE p = q /\ view[u].channel = "open"
      <3>1. ASSUME NEW c \in Cells(u) \ view[u].off
            PROVE  Echoes(up'[p], telling[p], down'[p], u, c, view[u].shown[c])
        <4> DEFINE x == view[u].shown[c]
        <4>1. Echoes(up[q], <<>>, down[q], u, c, x)
          BY <1>2, <2>1, <2>3 DEF Mapped
        <4> HIDE DEF x
        <4>2. ~Asks(get, u, c)
          BY <1>2 DEF Asks
        <4>3. DOMAIN <<>> = {}
          BY ListedEmpty
        <4>4. Echoes(Tail(up[q]), <<>>, down[q], u, c, x)
          BY <1>2, <1>5, <4>1, <4>2, <4>3, EchoesApplied DEF get
        <4>5. ~Own(m, u, c)
          BY <1>4 DEF Own
        <4>6. Carries(down[q], e, [j \in DOMAIN down[q] |-> IF j < i THEN j ELSE j + 1], u, c)
          BY <1>2, <1>5, <4>5, CarriesBetween DEF e
        <4>7. Echoes(Tail(up[q]), <<>>, e, u, c, x)
          BY <4>4, <4>6, EchoesCarried
        <4> QED
          BY <1>2, <1>3, <2>3, <4>7 DEF x
      <3> QED
        BY <2>1, <2>3, <3>1 DEF Mapped
    <2>4. CASE p = q /\ view[u].channel # "open"
      <3>1. Quiets(up[q], telling[q], down[q], u)
        BY <2>1, <2>4 DEF Mapped
      <3>2. \A j \in DOMAIN Tail(up[q]) : \E k \in DOMAIN up[q] : up[q][k] = Tail(up[q])[j]
        BY <1>2, <1>5, TailHolds
      <3>3. ASSUME NEW k \in DOMAIN e PROVE e[k] = m \/ \E j \in DOMAIN down[q] : e[k] = down[q][j]
        <4>1. e[i] = m /\ \A j \in DOMAIN down[q] : j < i => j \in DOMAIN e /\ e[j] = down[q][j]
          BY <1>2, <1>5, Inserted DEF e
        <4>2. \A j \in DOMAIN down[q] : j >= i => j + 1 \in DOMAIN e /\ e[j + 1] = down[q][j]
          BY <1>2, <1>5, Inserted DEF e
        <4>3. \/ k = i
              \/ k \in DOMAIN down[q] /\ k < i
              \/ \E j \in DOMAIN down[q] : j >= i /\ k = j + 1
          BY <1>2, <1>5, Inserted DEF e
        <4> QED
          BY <4>1, <4>2, <4>3
      <3>4. \A k \in DOMAIN e : ~(e[k].kind = "broadcast" /\ e[k].from = u)
        BY <1>8, <3>1, <3>3 DEF Quiets
      <3>5. Quiets(Tail(up[q]), telling[q], e, u)
        BY <3>1, <3>2, <3>4 DEF Quiets
      <3> QED
        BY <1>2, <1>3, <2>1, <2>4, <3>5 DEF Mapped
    <2> QED
      BY <2>2, <2>3, <2>4
  <1> QED
    BY <1>9, <1>10, <1>11 DEF StepInv, Settling, Mapping

LEMMA OwingIs ==
    ASSUME FormsTyped, NEW v \in View, KindOf[v] = "map", NEW c, ~Owing(v, c)
    PROVE  /\ NoAsk(up[PageOf[v]], v, c) /\ NoOwn(telling[PageOf[v]], v, c)
           /\ NoOwn(Tail(down[PageOf[v]]), v, c)
  <1> DEFINE q == PageOf[v]
  <1>1. q \in Page
    BY FormsAssumption
  <1>2. ASSUME NEW i \in DOMAIN up[q], Asks(up[q][i], v, c) PROVE FALSE
    <2> DEFINE m == up[q][i]
    <2>1. m.kind = "update" /\ m.from = v /\ m.sets[1][1] = c /\ Request(q, m)
      BY <1>1, <1>2 DEF Asks, FormsTyped, Queues, Asked
    <2>2. m \in ToSet(up[q])
      BY DEF ToSet
    <2> HIDE DEF m, q
    <2>3. Listed(m.sets) /\ Len(m.sets) = 1
      BY <2>1 DEF Request, Sets
    <2>4. m.sets[1] \in ToSet(m.sets)
      BY <2>3, ListedIs
    <2> QED
      BY <2>1, <2>2, <2>4 DEF Owing, q
  <1>3. ASSUME NEW i \in DOMAIN telling[q], Own(telling[q][i], v, c) PROVE FALSE
    BY <1>3 DEF Own, Owing, ToSet
  <1>4. ASSUME NEW i \in DOMAIN Tail(down[q]), Own(Tail(down[q])[i], v, c) PROVE FALSE
    BY <1>4 DEF Own, Owing, ToSet
  <1> QED
    BY <1>2, <1>3, <1>4 DEF NoAsk, NoOwn

(* What a Map shows once it has heard. *)
LEMMA MappedHear ==
    ASSUME FormsTyped, StepInv, NEW q \in Page, Hear(q), NEW v \in View, KindOf[v] = "map"
    PROVE  Mapped(v)'
  <1> DEFINE m == Head(down[q])
             p == PageOf[v]
  <1>1. /\ down[q] # <<>> /\ down' = [down EXCEPT ![q] = Tail(@)]
        /\ UNCHANGED <<kept, saved, unsaved, said, open, up, telling>>
    BY HearIs
  <1>2. \/ Word(m) /\ p = q /\ view'[v] = Heard(v, m)
        \/ Reply(q, m) /\ m.from = v /\ m.live /\ p = q /\ view'[v] = Answered(v, m)
        \/ /\ ~(Word(m) /\ p = q)
           /\ ~(m.kind = "answer" /\ m.from = v /\ m.live)
           /\ view'[v] = view[v]
    BY HearIs
  <1>3. down'[q] = Tail(down[q]) /\ \A r \in Page \ {q} : down'[r] = down[r]
    BY <1>1 DEF FormsTyped, Queues
  <1>4. p \in Page /\ Mapped(v) /\ Looks(v, view[v])
    BY FormsAssumption DEF StepInv, Mapping, FormsTyped, Views
  <1>5. Listed(down[q])
    BY DEF FormsTyped, Queues, Brought
  <1>6. Word(m) \/ Reply(q, m)
    BY <1>1, QueuedLess DEF FormsTyped, Queues
  <1>7. CASE p # q
    <2>1. view'[v] = view[v] /\ down'[p] = down[p]
      BY <1>2, <1>3, <1>4, <1>7
    <2> QED
      BY <1>1, <1>4, <2>1, MappedSame
  <1>8. CASE p = q
    <2> HIDE DEF m
    <2>1. /\ Word(m) => /\ Heard(v, m).channel = view[v].channel
                        /\ ~Heeds(v, m) => Heard(v, m) = view[v]
                        /\ Heeds(v, m) =>
                            /\ \A c \in Cell : Heard(v, m).shown[c] = IF c = m.cell THEN m.value ELSE view[v].shown[c]
                            /\ Heard(v, m).off = IF KindOf[v] = "map" /\ Owing(v, m.cell) THEN view[v].off \cup {m.cell}
                                                 ELSE view[v].off \ {m.cell}
      <3>1. Word(m) => Hears(v, m, Heard(v, m))
        BY <1>4, HeardIs
      <3> QED
        BY <3>1 DEF Hears
    <2>2. Reply(q, m) /\ m.from = v =>
            /\ Answered(v, m).channel = view[v].channel
            /\ \A c \in Cells(v) : c \in Answered(v, m).off <=> Owing(v, c)
      <3>1. Reply(q, m) /\ m.from = v => Takes(v, m, Answered(v, m))
        BY <1>4, AnsweredIs
      <3> QED
        BY <3>1 DEF Takes
    <2>3. view'[v].channel = view[v].channel
      BY <1>2, <2>1, <2>2
    <2>4. CASE view[v].channel # "open"
      <3>1. Quiets(up[q], telling[q], down[q], v)
        BY <1>4, <1>8, <2>4 DEF Mapped
      <3>2. \A j \in DOMAIN Tail(down[q]) : \E k \in DOMAIN down[q] : down[q][k] = Tail(down[q])[j]
        BY <1>1, <1>5, TailHolds
      <3>3. Quiets(up[q], telling[q], Tail(down[q]), v)
        BY <3>1, <3>2 DEF Quiets
      <3> QED
        BY <1>1, <1>3, <1>8, <2>3, <2>4, <3>3 DEF Mapped
    <2>5. CASE view[v].channel = "open"
      <3>1. ASSUME NEW c \in Cells(v) \ view'[v].off
            PROVE  Echoes(up[q], telling[q], Tail(down[q]), v, c, view'[v].shown[c])
        <4>1. c \in Cell
          BY CellsAre
        <4>2. CASE ~Owing(v, c)
          <5>1. NoAsk(up[q], v, c) /\ NoOwn(telling[q], v, c) /\ NoOwn(Tail(down[q]), v, c)
            BY <1>8, <4>2, OwingIs
          <5> QED
            BY <5>1, EchoesVoid
        <4>3. CASE Owing(v, c)
          <5>1. ~(Reply(q, m) /\ m.from = v /\ m.live /\ view'[v] = Answered(v, m))
            BY <2>2, <3>1, <4>3
          <5>2. /\ view'[v].shown[c] = view[v].shown[c] /\ c \notin view[v].off
                /\ ~Else(m, v, c)
            <6>1. CASE Word(m) /\ view'[v] = Heard(v, m) /\ Heeds(v, m)
              <7>1. m.cell # c
                BY <2>1, <3>1, <4>3, <6>1
              <7>2. ~Concerns(m, v, c)
                BY <6>1, <7>1 DEF Concerns, Broadcasts, Answers, Word
              <7> QED
                BY <2>1, <3>1, <4>1, <6>1, <7>1, <7>2 DEF Else
            <6>2. CASE Word(m) /\ view'[v] = Heard(v, m) /\ ~Heeds(v, m)
              <7>1. m.cell \notin Cells(v) \/ m.from = v
                BY <2>5, <6>2 DEF Heeds, Listens
              <7>2. ~Else(m, v, c)
                BY <6>2, <7>1 DEF Else, Own, Concerns, Broadcasts, Answers, Word
              <7> QED
                BY <2>1, <3>1, <6>2, <7>2
            <6>3. CASE ~Word(m)
              <7>1. view'[v] = view[v] /\ ~(m.kind = "answer" /\ m.from = v /\ m.live) /\ Reply(q, m)
                BY <1>2, <1>6, <5>1, <6>3
              <7>2. ~Else(m, v, c)
                BY <7>1 DEF Else, Concerns, Broadcasts, Answers, Reply
              <7> QED
                BY <3>1, <7>1, <7>2
            <6>4. ~Word(m) \/ view'[v] = Heard(v, m)
              <7>1. ~(Word(m) /\ Reply(q, m))
                BY DEF Word, Reply
              <7> QED
                BY <1>2, <1>8, <7>1
            <6> QED
              BY <6>1, <6>2, <6>3, <6>4
          <5> DEFINE x == view[v].shown[c]
          <5>3. Echoes(up[q], telling[q], down[q], v, c, x)
            BY <1>4, <1>8, <2>5, <5>2 DEF Mapped
          <5> HIDE DEF x
          <5>4. Echoes(up[q], telling[q], Tail(down[q]), v, c, x)
            BY <1>1, <1>5, <5>2, <5>3, EchoesHear DEF m
          <5> QED
            BY <5>2, <5>4 DEF x
        <4> QED
          BY <4>2, <4>3
      <3> QED
        BY <1>1, <1>3, <1>8, <2>3, <2>5, <3>1 DEF Mapped
    <2> QED
      BY <2>4, <2>5
  <1> QED
    BY <1>7, <1>8

(* And any view: what it hears last is what is said last. *)
LEMMA SteadyHear ==
    ASSUME FormsTyped, StepInv, NEW q \in Page, Hear(q), NEW v \in View, view'[v].channel = "open",
           NEW c \in Cells(v)
    PROVE  Steady(v, c)'
  <1> DEFINE m == Head(down[q])
             t == Tail(down[q])
             p == PageOf[v]
             R == {said[c], kept[c]}
             w == view'[v]
  <1>1. /\ down[q] # <<>> /\ down' = [down EXCEPT ![q] = Tail(@)]
        /\ UNCHANGED <<kept, saved, unsaved, said, open, up, telling>>
    BY HearIs
  <1>2. \/ Word(m) /\ p = q /\ w = Heard(v, m)
        \/ Reply(q, m) /\ m.from = v /\ m.live /\ p = q /\ w = Answered(v, m)
        \/ /\ ~(Word(m) /\ p = q)
           /\ ~(m.kind = "answer" /\ m.from = v /\ m.live)
           /\ w = view[v]
    BY HearIs
  <1>3. down'[q] = t /\ \A r \in Page \ {q} : down'[r] = down[r]
    BY <1>1 DEF FormsTyped, Queues
  <1>4. p \in Page /\ Looks(v, view[v])
    BY FormsAssumption DEF FormsTyped, Views
  <1>5. Listed(down[q])
    BY DEF FormsTyped, Queues, Brought
  <1>6. Word(m) \/ Reply(q, m)
    BY <1>1, QueuedLess DEF FormsTyped, Queues
  <1>7. w.channel = "open"
    OBVIOUS
  <1>8. KindOf[v] \in {"map", "form", "status"} /\ c \in Cell
    BY FormsAssumption, CellsAre
  <1>9. 1 \in DOMAIN down[q] /\ m = down[q][1]
    <2>1. Len(down[q]) \in Nat /\ DOMAIN down[q] = 1..Len(down[q]) /\ Len(down[q]) # 0
      BY <1>1, <1>5, ListedIs
    <2>2. m = down[q][1]
      BY <1>1, <1>5, ListedIs
    <2> QED
      BY <2>1, <2>2
  <1> HIDE DEF m, w
  <1>10. /\ Word(m) => /\ Heard(v, m).channel = view[v].channel
                       /\ ~Heeds(v, m) => Heard(v, m) = view[v]
                       /\ Heeds(v, m) =>
                            /\ \A d \in Cell : Heard(v, m).shown[d] = IF d = m.cell THEN m.value ELSE view[v].shown[d]
                            /\ Heard(v, m).off = IF KindOf[v] = "map" /\ Owing(v, m.cell) THEN view[v].off \cup {m.cell}
                                                 ELSE view[v].off \ {m.cell}
    <2>1. Word(m) => Hears(v, m, Heard(v, m))
      BY <1>4, HeardIs
    <2> QED
      BY <2>1 DEF Hears
  <1>11. Reply(q, m) /\ m.from = v =>
            /\ Answered(v, m).channel = view[v].channel
            /\ Answered(v, m).shown[c] = m.cells[c]
            /\ KindOf[v] = "status" => (c \in Answered(v, m).off <=> m.cells[c] # kept[c])
    <2>1. Reply(q, m) /\ m.from = v => Takes(v, m, Answered(v, m))
      BY <1>4, AnsweredIs
    <2> QED
      BY <2>1 DEF Takes
  <1>12. view[v].channel = "open"
    BY <1>2, <1>7, <1>10, <1>11
  <1>13. Steady(v, c) /\ (Pending(c) => Pending(c)')
    BY <1>1, <1>12 DEF StepInv, Settling, Pending
  <1>14. CASE p # q
    <2>1. w = view[v] /\ down'[p] = down[p]
      BY <1>2, <1>3, <1>4, <1>14
    <2> QED
      BY <1>1, <1>13, <2>1, SteadySame DEF w
  <1>15. CASE p = q /\ (c \notin DOMAIN said \/ Inquires(up[p], v) \/ Wants(up[p], c) \/ Pending(c))
    BY <1>1, <1>13, <1>15 DEF Steady
  <1>16. CASE p = q /\ c \in DOMAIN said /\ ~Inquires(up[p], v) /\ ~Wants(up[p], c) /\ ~Pending(c)
    <2>1. Ends(down[q], v, c, R, view[v])
      BY <1>13, <1>16 DEF Steady
    <2>2. said[c] \in R /\ kept[c] \in R
      OBVIOUS
    <2> HIDE DEF R, t, p
    <2>3. ASSUME \A i \in DOMAIN t : ~Concerns(t[i], v, c), c \notin w.off
          PROVE  w.shown[c] \in R
      <3>1. \A j \in DOMAIN down[q] : 1 < j => ~Concerns(down[q][j], v, c)
        BY <1>1, <1>5, <2>3, FirstIsLast DEF t
      <3>2. ASSUME Broadcasts(m, c) PROVE m.value = said[c]
        <4>1. Closes(down[q], c, said[c])
          BY <1>16 DEF StepInv, Closing
        <4>2. \A j \in DOMAIN down[q] : 1 < j => ~Broadcasts(down[q][j], c)
          BY <3>1 DEF Concerns
        <4> QED
          BY <1>9, <3>2, <4>1, <4>2 DEF Closes
      <3>3. ASSUME ~Concerns(m, v, c), c \notin view[v].off PROVE view[v].shown[c] \in R
        <4>1. DOMAIN down[q] = 1..Len(down[q]) /\ Len(down[q]) \in Nat
          BY <1>5, ListedIs
        <4>2. \A j \in DOMAIN down[q] : ~Concerns(down[q][j], v, c)
          BY <1>9, <3>1, <3>3, <4>1
        <4> QED
          BY <2>1, <3>3, <4>2 DEF Ends
      <3>4. CASE Word(m)
        <4>1. w = Heard(v, m) /\ m.kind = "broadcast" /\ ~Answers(m, v)
          <5>1. ~Reply(q, m) /\ m.kind = "broadcast" /\ ~Answers(m, v)
            BY <3>4 DEF Word, Reply, Answers
          <5> QED
            BY <1>2, <1>16, <3>4, <5>1 DEF p
        <4>2. CASE m.cell # c
          <5>1. ~Concerns(m, v, c)
            BY <4>1, <4>2 DEF Concerns, Broadcasts
          <5>2. w.shown[c] = view[v].shown[c] /\ c \notin view[v].off
            BY <1>8, <1>10, <2>3, <3>4, <4>1, <4>2
          <5> QED
            BY <3>3, <5>1, <5>2
        <4>3. CASE m.cell = c /\ Heeds(v, m)
          <5>1. w.shown[c] = m.value
            BY <1>8, <1>10, <3>4, <4>1, <4>3
          <5>2. Broadcasts(m, c)
            BY <4>1, <4>3 DEF Broadcasts
          <5> QED
            BY <2>2, <3>2, <5>1, <5>2
        <4>4. CASE m.cell = c /\ ~Heeds(v, m)
          <5>1. KindOf[v] = "map" /\ m.from = v
            BY <1>12, <4>4 DEF Heeds, Listens
          <5>2. Own(m, v, c) /\ Broadcasts(m, c)
            BY <4>1, <4>4, <5>1 DEF Own, Broadcasts
          <5>3. w = view[v] /\ c \in Cells(v) \ view[v].off
            BY <1>10, <2>3, <3>4, <4>1, <4>4
          <5>4. Echoes(up[q], telling[q], down[q], v, c, view[v].shown[c])
            <6>1. Mapped(v)
              BY <5>1 DEF StepInv, Mapping
            <6> QED
              BY <1>12, <1>16, <5>3, <6>1 DEF Mapped, p
          <5>5. NoAsk(up[q], v, c)
            <6>1. ASSUME NEW i \in DOMAIN up[q], Asks(up[q][i], v, c) PROVE FALSE
              <7> DEFINE a == up[q][i]
              <7>1. a.kind = "update" /\ a.from = v /\ a.sets[1][1] = c /\ Request(q, a)
                BY <6>1 DEF Asks, FormsTyped, Queues, Asked
              <7> HIDE DEF a
              <7>2. Listed(a.sets) /\ Len(a.sets) = 1
                BY <5>1, <7>1 DEF Request, Sets
              <7>3. 1 \in DOMAIN a.sets
                BY <7>2, ListedIs
              <7>4. Wish(a, c)
                BY <7>1, <7>3 DEF Wish
              <7>5. Wants(up[q], c)
                BY <7>4 DEF Wants, a
              <7> QED
                BY <1>16, <7>5 DEF p
            <6> QED
              BY <6>1 DEF NoAsk
          <5>6. NoOwn(telling[q], v, c)
            BY <1>16 DEF NoOwn, Own, Pending, Awaits
          <5>7. \A j \in DOMAIN down[q] : 1 < j => ~Own(down[q][j], v, c)
            BY <3>1 DEF Concerns, Own, Broadcasts
          <5>8. LastOwn(down[q], 1, v, c)
            BY <1>9, <5>2, <5>7 DEF LastOwn
          <5>9. view[v].shown[c] = m.value \/ \E k \in DOMAIN down[q] : k < 1 /\ Else(down[q][k], v, c)
            BY <1>9, <5>4, <5>5, <5>6, <5>8 DEF Echoes, DownEcho
          <5>10. ~\E k \in DOMAIN down[q] : k < 1
            BY <1>5, ListedIs
          <5> QED
            BY <2>2, <3>2, <5>2, <5>3, <5>9, <5>10
        <4> QED
          BY <4>2, <4>3, <4>4
      <3>5. CASE Reply(q, m) /\ m.from = v /\ m.live
        <4>1. ~Word(m) /\ m.kind = "answer"
          BY <3>5 DEF Word, Reply
        <4>2. w = Answered(v, m) /\ Answers(m, v)
          BY <1>2, <3>5, <4>1 DEF Answers
        <4>3. CASE KindOf[v] = "status"
          BY <1>11, <2>2, <2>3, <3>5, <4>2, <4>3
        <4>4. CASE KindOf[v] # "status"
          <5>1. m.cells[c] \in R
            BY <1>9, <2>1, <3>1, <4>2, <4>4 DEF Ends
          <5> QED
            BY <1>11, <3>5, <4>2, <5>1
        <4> QED
          BY <4>3, <4>4
      <3>6. CASE ~Word(m) /\ ~(Reply(q, m) /\ m.from = v /\ m.live)
        <4>1. w = view[v] /\ Reply(q, m)
          BY <1>2, <1>6, <3>6
        <4>2. ~Concerns(m, v, c)
          BY <3>6, <4>1 DEF Concerns, Broadcasts, Answers, Reply
        <4> QED
          BY <2>3, <3>3, <4>1, <4>2
      <3> QED
        BY <3>4, <3>5, <3>6
    <2>4. Ends(t, v, c, R, w)
      BY <1>1, <1>5, <2>1, <2>3, EndsTail DEF t
    <2> QED
      BY <1>1, <1>3, <1>16, <2>4 DEF Steady, R, w, p
  <1> QED
    BY <1>14, <1>15, <1>16

LEMMA StepHear ==
    ASSUME FormsTyped, StepInv, NEW q \in Page, Hear(q)
    PROVE  StepInv'
  <1>1. /\ down[q] # <<>> /\ down' = [down EXCEPT ![q] = Tail(@)] /\ said' = said
    BY HearIs
  <1>2. Listed(down[q]) /\ \A p \in Page : down'[p] = IF p = q THEN Tail(down[q]) ELSE down[p]
    BY <1>1 DEF FormsTyped, Queues, Brought
  <1>3. Closing'
    <2> SUFFICES ASSUME NEW p \in Page, NEW c \in DOMAIN said PROVE Closes(down'[p], c, said[c])
      BY <1>1 DEF Closing
    <2>1. Closes(down[p], c, said[c])
      BY DEF StepInv, Closing
    <2>2. p = q => Closes(Tail(down[q]), c, said[c])
      BY <1>1, <1>2, <2>1, ClosesTail
    <2> QED
      BY <1>2, <2>1, <2>2
  <1>4. Settling'
    BY SteadyHear DEF Settling
  <1>5. Mapping'
    BY MappedHear DEF Mapping
  <1> QED
    BY <1>3, <1>4, <1>5 DEF StepInv

-----------------------------------------------------------------------------
(* In every reachable state. *)

LEMMA StepBegins == ASSUME Init PROVE StepInv
  <1>1. \A q \in Page : up[q] = <<>> /\ telling[q] = <<>> /\ down[q] = <<>>
    BY DEF Init
  <1>2. \A v \in View : /\ PageOf[v] \in Page
                        /\ view[v].channel = "open" /\ view[v].shown = kept /\ view[v].off = {}
    BY FormsAssumption DEF Init
  <1>3. DOMAIN <<>> = {}
    BY ListedEmpty
  <1>4. Closing
    BY <1>1, <1>3 DEF Closing, Closes
  <1>5. ASSUME NEW v \in View, NEW c PROVE Steady(v, c)
    <2>1. \A R : kept[c] \in R => Ends(<<>>, v, c, R, view[v])
      BY <1>2, <1>3 DEF Ends
    <2>2. Ends(down[PageOf[v]], v, c, {said[c], kept[c]}, view[v])
      BY <1>1, <1>2, <2>1
    <2> QED
      BY <2>2 DEF Steady
  <1>6. ASSUME NEW v \in View PROVE Mapped(v)
    <2>1. Quiets(<<>>, <<>>, <<>>, v)
      BY <1>3 DEF Quiets
    <2>2. \A c, x : Echoes(<<>>, <<>>, <<>>, v, c, x)
      BY <2>1, QuietsVoid
    <2> QED
      BY <1>1, <1>2, <2>2 DEF Mapped
  <1> QED
    BY <1>4, <1>5, <1>6 DEF StepInv, Settling, Mapping

LEMMA ServesSteps ==
    ASSUME FormsTyped, StepInv, Serves
    PROVE  StepInv'
  <1>1. CASE \E q \in Page : Join(q) \/ Save(q)
    BY <1>1, StepIdle DEF Join, Save
  <1>2. CASE \E v \in View : ChannelOpen(v) \/ Mount(v)
    BY <1>2, StepChannelOpen, StepMount
  <1>3. CASE \E q \in Page : Apply(q) \/ Tell(q) \/ Answer(q) \/ Hear(q)
    BY <1>3, StepApply, StepTell, StepAnswer, StepHear
  <1> QED
    BY <1>1, <1>2, <1>3 DEF Serves

LEMMA StepKept ==
    ASSUME UploadInv, FormsTyped, StepInv, [Next]_vars
    PROVE  StepInv'
  <1>1. CASE Edits
    <2>1. CASE \E v \in View : Unmount(v)
      BY <2>1, StepUnmount
    <2>2. CASE ~\E v \in View : Unmount(v)
      <3>1. \E v, w, requests : Reshows(v, w, requests)
        BY <1>1, <2>2, EditsReshow DEF FormsTyped
      <3> QED
        BY <3>1, StepReshow
    <2> QED
      BY <2>1, <2>2
  <1>2. CASE Serves
    BY <1>2, ServesSteps
  <1>3. CASE \E q \in Page : Lose(q)
    BY <1>3, StepLose
  <1>4. CASE Unmount(Cropper)
    BY <1>4, StepUnmount, FormsAssumption
  <1>5. CASE UNCHANGED formVars
    BY <1>5, StepIdle DEF formVars
  <1>6. CASE Rescale /\ RatioTaken(Cropper, ratio')
    <2>1. ratio' \in Ratio
      BY <1>6 DEF Rescale
    <2>2. \E w, requests : Reshows(Cropper, w, requests)
      BY <1>6, <2>1, RatioReshows, FormsAssumption DEF FormsTyped
    <2> QED
      BY <2>2, StepReshow
  <1>7. CASE \E i : Take(Cropper, i)
    <2>1. \E w, requests : Reshows(Cropper, w, requests)
      BY <1>7, ImageReshows, FormsAssumption DEF FormsTyped
    <2> QED
      BY <2>1, StepReshow
  <1>8. \/ Edits \/ Serves \/ (\E q \in Page : Lose(q)) \/ Unmount(Cropper) \/ UNCHANGED formVars
        \/ (Rescale /\ RatioTaken(Cropper, ratio'))
        \/ \E i : Take(Cropper, i)
    BY DEF Next, vars
  <1> QED
    BY <1>1, <1>2, <1>3, <1>4, <1>5, <1>6, <1>7, <1>8

LEMMA StepAlways == Spec => [](FormsTyped /\ StepInv)
  <1>1. Init => StepInv
    BY StepBegins
  <1>2. UploadInv /\ FormsTyped /\ StepInv /\ [Next]_vars => StepInv'
    BY StepKept
  <1> QED
    BY <1>1, <1>2, FormsAlways, PTL DEF Spec

(* With nothing under way there is nothing to be asked, set or told, and what is shown is
   what was heard last. *)
LEMMA CurrentOf ==
    ASSUME FormsTyped, StepInv, Quiet, NEW v \in View, view[v].channel = "open"
    PROVE  Current(v)
  <1>1. \A q \in Page : up[q] = <<>> /\ telling[q] = <<>> /\ down[q] = <<>>
    BY DEF Quiet
  <1>2. PageOf[v] \in Page /\ DOMAIN <<>> = {}
    BY FormsAssumption, ListedEmpty
  <1>3. ASSUME NEW c \in (Cells(v) \cap DOMAIN said) \ view[v].off, said[c] = kept[c]
        PROVE  view[v].shown[c] = kept[c]
    <2>1. Steady(v, c)
      BY DEF StepInv, Settling
    <2>2. ~Inquires(up[PageOf[v]], v) /\ ~Wants(up[PageOf[v]], c) /\ ~Pending(c)
      BY <1>1, <1>2 DEF Inquires, Wants, Pending, Awaits
    <2>3. Ends(<<>>, v, c, {said[c], kept[c]}, view[v])
      BY <1>1, <1>2, <2>1, <2>2 DEF Steady
    <2>4. view[v].shown[c] \in {said[c], kept[c]}
      BY <1>2, <2>3 DEF Ends
    <2> QED
      BY <1>3, <2>4
  <1> QED
    BY <1>3 DEF Current, Of

(* However the edits of any pages cross, sockets are lost and opened again, and answers run
   before what was told: once nothing is under way, a Map that leaves alone what it sent
   itself shows of the object what was told of last, where that is what the backend has. *)
THEOREM MapsInStep == Spec => []InStep
  <1>1. FormsTyped /\ StepInv => InStep
    BY CurrentOf DEF InStep
  <1> QED
    BY <1>1, StepAlways, PTL

(* And so do the forms and the settings, which take what they sent as anybody else's. *)
THEOREM FormsInStep == Spec => []FormsSettle
  <1>1. FormsTyped /\ StepInv => FormsSettle
    BY CurrentOf DEF FormsSettle
  <1> QED
    BY <1>1, StepAlways, PTL
=============================================================================
