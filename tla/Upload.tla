------------------------------- MODULE Upload -------------------------------
(***************************************************************************)
(* ImageUpload (web/src/components/image_upload.rs) and the Crop it opens  *)
(* on a file (web/src/components/crop.rs), in which the user marks the     *)
(* part of the picture to take. ImageUpload keeps what is marked, and the  *)
(* file while it is read; Crop keeps what the pointer is at.               *)
(*                                                                         *)
(* Places are in parts of a pixel, of which the pointer knows whole ones.  *)
(***************************************************************************)
EXTENDS Integers

CONSTANTS
    File,       \* pictures
    Shown,      \* how large each is on the page, in pixels
    Natural,    \* and by itself
    Ratio,      \* the proportions that may be asked for
    Unit,       \* parts of a pixel: a multiple of what halving comes to
    None,
    Point,      \* bound: where the pointer may be, in pixels
    Pull,       \* bound: and how far it pulls
    MaxStroke   \* bound: files taken, presses of the pointer and edits

XY == {"x", "y"}

Pair == [XY -> Nat]

(* What the pointer has hold of. *)
Held == [selection : [pos : [XY -> Int], size : [XY -> Int]], dir : [XY -> {-1, 0, 1}],
         origin : File \cup {None}]

ASSUME UploadAssumption ==
    /\ Shown \in [File -> Pair] /\ Natural \in [File -> Pair]
    /\ None \notin File \cup Nat /\ None \notin Held
    /\ Ratio \subseteq (Nat \ {0}) \cup {None} /\ None \in Ratio
    /\ Point \subseteq [XY -> Int] /\ Pull \subseteq Int
    /\ Unit \in Nat \ {0} /\ MaxStroke \in Nat

VARIABLES
    source,     \* ImageUpload.crop_source_url: the file Crop is open on, or None
    data,       \* crop_source_data: it has been read
    uploading,  \* _upload_image: its answer is awaited
    drag,       \* ImageUpload.drag: an extent, or None
    scales,     \* ImageUpload.onratio is given: the object takes any proportion
    ratio,      \* ImageUpload.ratio: its RATIO, 1 for a token, None for a background
    loaded,     \* the img element knows its size
    dragging,
    grip,       \* Crop.move_state or resize_state, or None
    empty,      \* empty_crop_region
    origin,     \* history: the file it was marked on, or None once an edge was pulled
                \* at a fixed proportion, or on another file
    strokes

uploadVars == <<source, data, uploading, drag, scales, ratio, loaded, dragging, grip, empty,
                origin, strokes>>

Zero == [d \in XY |-> 0]

(* Crop::image_bounds. *)
Bounds == IF loaded THEN [d \in XY |-> Shown[source][d] * Unit] ELSE Zero

Least(a, b) == IF a < b THEN a ELSE b

Most(a, b) == IF a < b THEN b ELSE a

Clamped(v, low, high) == [d \in XY |-> Least(Most(v[d], low[d]), high[d])]

Plus(v, w) == [d \in XY |-> v[d] + w[d]]

Minus(v, w) == [d \in XY |-> v[d] - w[d]]

Size(ratioed, height) == [x |-> height * ratioed, y |-> height]

-----------------------------------------------------------------------------
(* Selection. *)

ToExtent(s) == [p1 |-> s.pos, p2 |-> Plus(s.pos, s.size)]

MaxCentered(r) ==
    IF r = None THEN [pos |-> Zero, size |-> Bounds]
    ELSE LET size == Size(r, Least(Bounds.x \div r, Bounds.y))
         IN  [pos |-> [d \in XY |-> (Bounds[d] - size[d]) \div 2], size |-> size]

FromExtent(e) ==
    LET delta == Minus(e.p2, e.p1)
        abs == [d \in XY |-> Most(delta[d], -delta[d])]
        size == IF ratio = None THEN abs ELSE Size(ratio, Least(abs.x \div ratio, abs.y))
    IN  [pos |-> [d \in XY |-> IF delta[d] >= 0 THEN e.p1[d] ELSE e.p1[d] - size[d]],
         size |-> size]

Selection == IF drag = None THEN None ELSE FromExtent(drag)

(* Dir: which edge is pulled, in each axis. *)
Dir == [XY -> {-1, 0, 1}] \ {Zero}

(* Dir::anchor. *)
Anchor(dir, s, size) ==
    [d \in XY |->
        CASE dir[d] = -1 -> s.pos[d] + s.size[d] - size[d]
          [] dir[d] = 0  -> s.pos[d] + s.size[d] \div 2 - size[d] \div 2
          [] dir[d] = 1  -> s.pos[d]]

(* Dir::extent. *)
Room(dir, s, anchor) ==
    [d \in XY |-> IF dir[d] = -1 THEN s.pos[d] + s.size[d] - anchor[d] ELSE Bounds[d] - anchor[d]]

(* How large it would be without the edges of the picture. *)
Wanted(s, dir, delta) ==
    LET by == [d \in XY |-> dir[d] * delta[d]]
        wide == s.size.y + by.x \div ratio
        high == s.size.y + by.y
        height == CASE dir.x = 0 -> high [] dir.y = 0 -> wide [] OTHER -> Least(wide, high)
    IN  IF ratio = None THEN [d \in XY |-> Most(s.size[d] + by[d], 0)]
        ELSE Size(ratio, Most(height, 0))

(* Mutation: the size is not brought down to the room there is. *)
ResizedFreely(s, dir, delta) ==
    LET wanted == Wanted(s, dir, delta)
    IN  [pos |-> Clamped(Anchor(dir, s, wanted), Zero, Bounds), size |-> wanted]

(* Selection::resized. *)
Resized(s, dir, delta) ==
    LET wanted == Wanted(s, dir, delta)
        room == Room(dir, s, Clamped(Anchor(dir, s, wanted), Zero, Bounds))
        size == CASE ratio = None -> [d \in XY |-> Least(wanted[d], room[d])]
                  [] ratio # None /\ wanted = Zero -> Zero
                  [] OTHER -> Size(ratio, Least(wanted.y, Least(room.x \div ratio, room.y)))
    IN  [pos |-> Clamped(Anchor(dir, s, size), Zero, Bounds), size |-> size]

(* Selection::moved. *)
Moved(s, delta) == [s EXCEPT !.pos = Clamped(Plus(@, delta), Zero, Minus(Bounds, s.size))]

(* Selection::to_crop_region. *)
CropRegion(s) ==
    LET last == Plus(s.pos, s.size)
        at(v) == [d \in XY |->
            LET n == Natural[source][d]
            IN  Least((2 * v[d] * n + Bounds[d]) \div (2 * Bounds[d]), n)]
        empties == \E d \in XY : Bounds[d] = 0 \/ at(last)[d] <= at(s.pos)[d]
    IN  IF empties THEN None ELSE [p1 |-> at(s.pos), p2 |-> at(last)]

-----------------------------------------------------------------------------
(* ImageUpload. *)

Stroke == strokes < MaxStroke /\ strokes' = strokes + 1

(* What takes two of them. *)
Slash == strokes + 1 < MaxStroke /\ strokes' = strokes + 2

(* Crop goes, with what it kept. *)
Closed ==
    /\ source' = None
    /\ loaded' = FALSE /\ dragging' = FALSE /\ grip' = None /\ empty' = FALSE

(* What is marked stays when another file is taken. *)
FileSelected(f) ==
    /\ Stroke
    /\ source = None
    /\ source' = f
    /\ data' = FALSE
    /\ UNCHANGED <<uploading, drag, scales, ratio, loaded, dragging, grip, empty, origin>>

FileRead ==
    /\ source # None /\ ~data
    /\ data' = TRUE
    /\ UNCHANGED <<source, uploading, drag, scales, ratio, loaded, dragging, grip, empty, origin, strokes>>

ImageLoaded ==
    /\ source # None /\ ~loaded
    /\ loaded' = TRUE
    /\ UNCHANGED <<source, data, uploading, drag, scales, ratio, dragging, grip, empty, origin, strokes>>

CropCancelled ==
    /\ source # None
    /\ Closed
    /\ data' = FALSE
    /\ UNCHANGED <<uploading, drag, scales, ratio, origin, strokes>>

(* CropConfirmed: without the file's data Crop stays open. The request may fail, and then
   there is no answer. *)
Confirmed == data /\ Closed /\ data' = FALSE /\ uploading' \in BOOLEAN

(* Crop::on_confirm. *)
Confirm ==
    /\ source # None /\ drag # None
    /\ IF CropRegion(Selection) = None
       THEN empty' = TRUE /\ UNCHANGED <<source, data, uploading, loaded, dragging, grip>>
       ELSE Confirmed
    /\ UNCHANGED <<drag, scales, ratio, origin, strokes>>

(* The answer, which closes Crop although another file may be on it by now. *)
Uploaded ==
    /\ uploading
    /\ uploading' = FALSE
    /\ Closed
    /\ UNCHANGED <<data, drag, scales, ratio, origin, strokes>>

(* The form is closed, and all of this with it. *)
Gone ==
    /\ Closed
    /\ data' = FALSE /\ uploading' = FALSE /\ drag' = None /\ origin' = None
    /\ UNCHANGED scales

-----------------------------------------------------------------------------
(* Crop. *)

Resizing == grip # None /\ grip.dir # Zero

Spills == Resizing /\ ratio # None /\ \E d \in XY : grip.dir[d] = 0

(* Mark an extent anew. *)
Mark(e) == drag' = e /\ origin' = source

(* Carry on with the extent that was marked. *)
Remark(e) ==
    /\ drag' = e
    /\ origin' = IF grip = None THEN origin
                 ELSE IF Spills \/ grip.origin # source THEN None ELSE source

InPixels(p) == [d \in XY |-> p[d] * Unit]

PointerDown(p) ==
    LET at == Clamped(InPixels(p), Zero, Bounds)
    IN  /\ Stroke
        /\ source # None /\ ~dragging
        /\ dragging' = TRUE
        /\ Mark([p1 |-> at, p2 |-> at])
        /\ UNCHANGED <<source, data, uploading, scales, ratio, loaded, grip, empty>>

MoveStart ==
    /\ Stroke
    /\ source # None
    /\ ~dragging /\ drag # None
    /\ dragging' = TRUE
    /\ grip' = [selection |-> Selection, dir |-> Zero, origin |-> origin]
    /\ UNCHANGED <<source, data, uploading, drag, scales, ratio, loaded, empty, origin>>

(* Also with another pointer, while one is down. *)
ResizeStart(dir) ==
    /\ Stroke
    /\ source # None
    /\ drag # None
    /\ dragging' = TRUE
    /\ grip' = [selection |-> Selection, dir |-> dir, origin |-> origin]
    /\ UNCHANGED <<source, data, uploading, drag, scales, ratio, loaded, empty, origin>>

(* What is marked when the pointer is `by` from where it was pressed, in pixels. *)
Gripped(by) ==
    IF Resizing THEN Resized(grip.selection, grip.dir, InPixels(by))
    ELSE Moved(grip.selection, InPixels(by))

(* f64::clamp panics where the least is more than the most, and that is the end of the page. *)
Able == Resizing \/ \A d \in XY : grip.selection.size[d] <= Bounds[d]

PointerMove(by) ==
    /\ source # None /\ dragging /\ grip # None
    /\ Able
    /\ Remark(ToExtent(Gripped(by)))
    /\ UNCHANGED <<source, data, uploading, scales, ratio, loaded, dragging, grip, empty, strokes>>

DrawTo(p) ==
    /\ source # None /\ dragging /\ grip = None /\ drag # None
    /\ Remark([drag EXCEPT !.p2 = Clamped(InPixels(p), Zero, Bounds)])
    /\ UNCHANGED <<source, data, uploading, scales, ratio, loaded, dragging, grip, empty, strokes>>

MinSize == 2 * Unit

PointerUp(by) ==
    /\ source # None /\ dragging /\ grip # None
    /\ Able
    /\ dragging' = FALSE /\ grip' = None
    /\ IF Resizing /\ Gripped(by).size.y < MinSize THEN Remark(None)
       ELSE Remark(ToExtent(Gripped(by)))
    /\ UNCHANGED <<source, data, uploading, scales, ratio, loaded, empty, strokes>>

Apart(v, w) == [d \in XY |-> Most(v[d] - w[d], w[d] - v[d])]

DrawnTo(p) ==
    LET to == Clamped(InPixels(p), Zero, Bounds)
        far == Apart(to, drag.p1).x + Apart(to, drag.p1).y >= MinSize
    IN  /\ source # None /\ dragging /\ grip = None /\ drag # None
        /\ dragging' = FALSE
        /\ Remark(IF far THEN [drag EXCEPT !.p2 = to] ELSE None)
        /\ UNCHANGED <<source, data, uploading, scales, ratio, loaded, grip, empty, strokes>>

SelectAll ==
    /\ source # None /\ ~scales
    /\ Mark(ToExtent(MaxCentered(ratio)))
    /\ UNCHANGED <<source, data, uploading, scales, ratio, loaded, dragging, grip, empty, strokes>>

(* The proportions of the picture become those of the object. *)
Rescale ==
    /\ loaded /\ scales
    /\ ratio' \in {r \in Ratio \ {None} : Shown[source].x = r * Shown[source].y}
    /\ Mark(ToExtent(MaxCentered(None)))
    /\ UNCHANGED <<source, data, uploading, scales, loaded, dragging, grip, empty, strokes>>

-----------------------------------------------------------------------------
UploadInit ==
    /\ source = None /\ data = FALSE /\ uploading = FALSE
    /\ drag = None
    /\ scales \in BOOLEAN /\ ratio \in Ratio
    /\ scales \/ ratio \in {1, None}
    /\ loaded = FALSE /\ dragging = FALSE /\ grip = None /\ empty = FALSE
    /\ origin = None
    /\ strokes = 0

CropNext ==
    \/ \E f \in File : FileSelected(f)
    \/ FileRead \/ ImageLoaded \/ CropCancelled
    \/ Confirm \/ SelectAll
    \/ \E p \in Point : PointerDown(p) \/ DrawTo(p) \/ DrawnTo(p)
    \/ MoveStart
    \/ \E dir \in Dir : ResizeStart(dir)
    \/ \E by \in [XY -> Pull] : PointerMove(by) \/ PointerUp(by)

-----------------------------------------------------------------------------
UploadType ==
    /\ source \in File \cup {None} /\ origin \in File \cup {None}
    /\ {data, uploading, scales, loaded, dragging, empty} \subseteq BOOLEAN
    /\ ratio \in Ratio
    /\ strokes \in 0..MaxStroke
    /\ drag # None => drag \in [p1 : [XY -> Int], p2 : [XY -> Int]]
    /\ grip # None => grip \in Held
    /\ loaded \/ dragging \/ grip # None \/ empty => source # None

(* However the pointer draws, moves and pulls, and whatever proportion is asked for in
   between, what is marked on a picture lies on it: it may only leave the picture when an
   edge was pulled at a fixed proportion, or when it was marked on another picture. *)
CropFits ==
    loaded /\ drag # None /\ origin = source =>
        \A d \in XY : Selection.pos[d] >= 0 /\ Selection.pos[d] + Selection.size[d] <= Bounds[d]
=============================================================================
