--------------------------------- MODULE Map ---------------------------------
(***************************************************************************)
(* The map of one page (web/src/components/map.rs, objects.rs): the        *)
(* gestures of its user - selecting, moving, turning, scaling, locking and *)
(* removing objects, with keys, a pointer, menus and modals - and the      *)
(* frames that move tokens to where they were sent. Each handler changes   *)
(* the page at once and sends what it changed; what other pages and peers  *)
(* do arrives in between.                                                  *)
(*                                                                         *)
(* A handler is an operator from the page before to the page after, as the *)
(* code's are methods that share a page. The world is a line of places.    *)
(***************************************************************************)
EXTENDS Integers, FiniteSets

CONSTANTS
    Own,        \* ids of the user's objects
    Foreign,    \* ids of the objects of peers, which are drawn above them
    Born,       \* the objects that are there when the page is loaded
    KindOf,     \* ObjectKind of each object
    Flags,      \* bound: which of LOCKED, HIDDEN, LOCAL_HIDDEN and EXPANDED are looked at
    None,
    MaxPlace,   \* bound: the last place of the world
    MaxMoves    \* bound: steps of the users, of this page and others

ObjectId == Own \cup Foreign

Zero == 0   \* RemoteId::ZERO: no object, and the id settings are sent under

Stray == -1 \* the id of a peer's object taken for one of the user

Kind == {"token", "static", "group", "room"}

ASSUME MapAssumption ==
    /\ Own \cap Foreign = {}
    /\ ObjectId \subseteq Nat \ {Zero} /\ IsFiniteSet(ObjectId)
    /\ Born \subseteq ObjectId
    /\ KindOf \in [ObjectId -> Kind]
    /\ Flags \subseteq {"LOCKED", "HIDDEN", "LOCAL_HIDDEN", "EXPANDED"}
    /\ None \notin Nat
    /\ MaxPlace \in Nat \ {0} /\ MaxMoves \in Nat

VARIABLES
    page,       \* the Map component
    kept,       \* what the backend has of each cell
    snapshot,   \* the InitializeMapResponse that is under way, or None
    channel,    \* MapState.channel: "none", "opening" until the snapshot is there, "open"
    astray,     \* history: cells another page or a late snapshot made differ
    halted,     \* history: tokens a scale stopped on their way
    moves

vars == <<page, kept, snapshot, channel, astray, halted, moves>>

Place == 0..MaxPlace

(* The keys of objects. WIDTH and HEIGHT, and RADIUS, are SIZE; LIFE is whether there is
   such an object. *)
FlagsOf(kind) ==
    Flags \cap
        CASE kind = "room" -> {"HIDDEN", "LOCAL_HIDDEN"}
          [] kind = "group" -> {"HIDDEN", "LOCAL_HIDDEN", "LOCKED", "EXPANDED"}
          [] OTHER -> {"HIDDEN", "LOCAL_HIDDEN", "LOCKED"}

KeysOf(kind) ==
    FlagsOf(kind) \cup {"LIFE"}
    \cup (IF kind \in {"token", "static"} THEN {"TRANSFORM", "SIZE"} ELSE {})
    \cup (IF kind = "token" THEN {"MOVE_TARGET", "LOOK_AT"} ELSE {})

(* MapValues; ZOOM and PAN are VIEW. *)
Setting == {"SELECTED", "MUMBLE_OBJECT", "MUMBLE_FOLLOW", "VIEW"}

Cell == (UNION {{o} \X KeysOf(KindOf[o]) : o \in ObjectId}) \cup ({Zero} \X Setting)

Value(k) ==
    CASE k = "TRANSFORM" -> [at : Place, front : Place]
      [] k \in {"MOVE_TARGET", "LOOK_AT"} -> Place \cup {None}
      [] k \in {"SIZE"} -> Place
      [] k = "VIEW" -> {0, 1}
      [] k = "SELECTED" -> ObjectId \cup {Zero}
      [] k = "MUMBLE_OBJECT" -> ObjectId \cup {Zero, Stray}
      [] k = "LIFE" -> {"unborn", "live", "gone"}
      [] OTHER -> BOOLEAN

Default(k) ==
    CASE k = "TRANSFORM" -> [at |-> 0, front |-> 0]
      [] k \in {"MOVE_TARGET", "LOOK_AT"} -> None
      [] k \in {"SIZE"} -> 1
      [] k = "VIEW" -> 0
      [] k \in {"SELECTED", "MUMBLE_OBJECT"} -> Zero
      [] k = "LIFE" -> "unborn"
      [] OTHER -> FALSE

(* Action: what the pointer does to an object of the user. *)
Gesture ==
    [do : {"translate"}, id : Own, offset : -MaxPlace..MaxPlace]
    \cup [do : {"rotate"}, id : Own, center : Place]
    \cup [do : {"scale"}, id : Own, center : Place, size : Place]

(* None is no gesture, and no snapshot. *)
ASSUME NoneAssumption == None \notin Gesture \cup [Cell -> UNION {Value(c[2]) : c \in Cell}]

-----------------------------------------------------------------------------
(* The page. *)

Live(p, o) == o # Zero /\ p.shown[<<o, "LIFE">>] = "live"

Is(p, o, kinds) == Live(p, o) /\ KindOf[o] \in kinds

Transform(p, o) == p.shown[<<o, "TRANSFORM">>]

Target(p, o) == p.shown[<<o, "MOVE_TARGET">>]

Selected(p) == p.shown[<<Zero, "SELECTED">>]

Linked(p) == p.shown[<<Zero, "MUMBLE_OBJECT">>]

(* ObjectsRef::is_locked, of an object that is in no group. *)
IsLocked(p, o) ==
    Live(p, o) /\ "LOCKED" \in KeysOf(KindOf[o]) /\ p.shown[<<o, "LOCKED">>]

Distance(a, b) == IF a < b THEN b - a ELSE a - b

(* A value is assigned and noted in MapState.updates. *)
Set(p, o, k, v) == [p EXCEPT !.shown[<<o, k>>] = v, !.updates = @ \cup {<<o, k>>}]

Active(p, o) == [p EXCEPT !.active = @ \cup {o}]

NoAction(p) == [p EXCEPT !.action = None]

(* The objects under the mouse, of which the last is drawn on top. *)
Hit(p, m) ==
    LET under == {o \in ObjectId : Is(p, o, {"token", "static"}) /\ Transform(p, o).at = m}
    IN  IF under = {} THEN Zero ELSE CHOOSE o \in under : \A q \in under : q <= o

(* MapState::select_object: the object the mumble link follows goes with it. *)
SelectObject(p, id) ==
    LET chosen == [Set(p, Zero, "SELECTED", id) EXCEPT
                        !.menu = None,
                        !.modal = IF @ = <<"remove", id>> THEN None ELSE @]
        follows == /\ p.shown[<<Zero, "MUMBLE_FOLLOW">>]
                   /\ Linked(p) # id
                   /\ id = Zero \/ Is(p, id, {"token"})
    IN  IF Selected(p) = id THEN p
        ELSE IF follows THEN Set(chosen, Zero, "MUMBLE_OBJECT", id)
        ELSE chosen

(* MapState::finalize_action: only a scale is kept for the end. *)
Finalized(p) ==
    LET a == p.action
    IN  IF a # None /\ a.do = "scale" /\ Live(p, a.id) /\ p.shown[<<a.id, "SIZE">>] # a.size
        THEN NoAction(Set(p, a.id, "SIZE", a.size))
        ELSE NoAction(p)

Turned(p, a, m) ==
    LET turned == Set(p, a.id, "TRANSFORM", [Transform(p, a.id) EXCEPT !.front = m])
    IN  IF a.center = m \/ ~Live(p, a.id) THEN p
        ELSE IF KindOf[a.id] = "token" THEN Set(turned, a.id, "LOOK_AT", m)
        ELSE turned

(* Mutation: the token is sent off on the page alone. *)
MovedUnsent(p, a, m) ==
    IF ~Live(p, a.id) THEN p
    ELSE IF KindOf[a.id] = "static"
    THEN Set(p, a.id, "TRANSFORM", [Transform(p, a.id) EXCEPT !.at = m + a.offset])
    ELSE Active([p EXCEPT !.shown[<<a.id, "MOVE_TARGET">>] = m], a.id)

Moved(p, a, m) ==
    IF ~Live(p, a.id) THEN p
    ELSE IF KindOf[a.id] = "static"
    THEN Set(p, a.id, "TRANSFORM", [Transform(p, a.id) EXCEPT !.at = m + a.offset])
    ELSE Active(Set(p, a.id, "MOVE_TARGET", m), a.id)

(* MapState::apply. *)
Apply(p, m) ==
    IF p.action = None THEN p
    ELSE CASE p.action.do = "rotate" -> Turned(p, p.action, m)
           [] p.action.do = "translate" -> Moved(p, p.action, m)
           [] p.action.do = "scale" ->
                IF p.action.center = m THEN p
                ELSE [p EXCEPT !.action.size = Distance(p.action.center, m)]

Begin(p, a) == Apply([Finalized(p) EXCEPT !.action = a], p.mouse)

Able(p, id) == id \in Own /\ p.mouse # None /\ ~IsLocked(p, id) /\ Is(p, id, {"token", "static"})

(* Map::start_translate, start_rotation and start_scale. *)
StartTranslate(p, id) ==
    IF ~Able(p, id) THEN p
    ELSE IF KindOf[id] = "static"
    THEN Begin(p, [do |-> "translate", id |-> id, offset |-> Transform(p, id).at - p.mouse])
    ELSE Begin(Active(Set(p, id, "MOVE_TARGET", p.mouse), id),
               [do |-> "translate", id |-> id, offset |-> 0])

StartRotation(p, id) ==
    IF ~Able(p, id) THEN p
    ELSE Begin(p, [do |-> "rotate", id |-> id, center |-> Transform(p, id).at])

(* Mutation: the lock is not looked at. *)
StartScaleLocked(p, id) ==
    IF ~(id \in Own /\ p.mouse # None /\ Is(p, id, {"token", "static"})) THEN p
    ELSE Begin([p EXCEPT !.active = @ \ {id}],
               [do |-> "scale", id |-> id, center |-> Transform(p, id).at,
                size |-> p.shown[<<id, "SIZE">>]])

StartScale(p, id) ==
    IF ~Able(p, id) THEN p
    ELSE Begin([p EXCEPT !.active = @ \ {id}],
               [do |-> "scale", id |-> id, center |-> Transform(p, id).at,
                size |-> p.shown[<<id, "SIZE">>]])

(* Map::start_translate_on_hit: a token that is selected stays so unless another is hit. *)
StartTranslateOnHit(p, m) ==
    LET hit == Hit(p, m)
        selected == IF Live(p, Selected(p)) THEN Selected(p) ELSE Zero
        fresh == selected # hit /\ (~Is(p, selected, {"token"}) \/ Is(p, hit, {"token"}))
        chosen == IF fresh THEN SelectObject(p, hit) ELSE p
    IN  IF selected = hit \/ ~fresh \/ ~Is(p, hit, {"token"})
        THEN StartTranslate(chosen, Selected(chosen))
        ELSE chosen

(* Map::remove_object. *)
Removed(p, id) ==
    LET gone == [p EXCEPT !.shown[<<id, "LIFE">>] = "gone", !.active = @ \ {id}]
        left == IF Selected(p) = id THEN SelectObject(gone, Zero) ELSE gone
    IN  [left EXCEPT !.modal = None]

(* Mutation: no timer is started. *)
SettledUntimed(p) == [p EXCEPT !.updates = {}]

(* The end of Map::update: a timer is there while something moves. *)
Settled(p) == [p EXCEPT !.updates = {}, !.interval = @ \/ p.active # {}]

-----------------------------------------------------------------------------
(* What a handler changed is sent (Map::send_updates), unless there is no channel or it
   is of a peer; what is sent while the snapshot is under way is overwritten by it. *)
Sent(p) == IF channel = "none" THEN {} ELSE {c \in p.updates : c[1] \in Own \cup {Zero}}

(* MapValues::get: of the object the mumble link follows the number is sent, not whose it
   is. *)
Told(p, c) ==
    IF c = <<Zero, "MUMBLE_OBJECT">> /\ Linked(p) \in Foreign THEN Stray ELSE p.shown[c]

Keep(p) == [c \in Cell |-> IF c \in Sent(p) THEN Told(p, c) ELSE kept[c]]

(* Tokens that were on their way when a scale took them out of the simulation. *)
Halt(p) ==
    {o \in Own \ p.active : Is(p, o, {"token"}) /\ Target(p, o) # None /\ o \in page.active \cup halted}

Handle(p) ==
    /\ page' = Settled(p)
    /\ kept' = Keep(p)
    /\ astray' = IF channel = "opening" THEN astray \cup Sent(p) ELSE astray \ Sent(p)
    /\ halted' = Halt(p)
    /\ UNCHANGED <<snapshot, channel>>

Move == moves < MaxMoves /\ moves' = moves + 1

User(p) == Move /\ p # page /\ Handle(p)

-----------------------------------------------------------------------------
(* The pointer. *)

(* With an action under way the button ends it; otherwise it begins one. *)
PointerDown(m) ==
    LET p == [page EXCEPT !.menu = None]
        ends == p.action # None /\ (p.action.do = "scale" => Live(p, p.action.id))
    IN  User(IF ends THEN Finalized(p)
             ELSE StartTranslateOnHit([NoAction(p) EXCEPT !.mouse = m], m))

ShiftPointerDown(m) ==
    LET p == [page EXCEPT !.menu = None, !.mouse = m]
    IN  User(StartRotation(p, Selected(p)))

MiddlePointerDown == User([page EXCEPT !.menu = None, !.panning = TRUE])

(* The pointer stays where what it drags is in the world. *)
PointerMove(m) ==
    LET p == [page EXCEPT !.mouse = m]
    IN  /\ p.action # None /\ p.action.do = "translate" => m + p.action.offset \in Place
        /\ User(Apply(IF p.panning THEN Set(p, Zero, "VIEW", 1 - p.shown[<<Zero, "VIEW">>]) ELSE p, m))

PointerUp == User(Finalized(page))

MiddlePointerUp == User([page EXCEPT !.panning = FALSE])

(* A scale that is under way is forgotten. *)
PointerLeave == User([page EXCEPT !.action = None, !.panning = FALSE, !.mouse = None])

Wheel == User(Set(page, Zero, "VIEW", 1 - page.shown[<<Zero, "VIEW">>]))

(* on_context_menu selects without what select_object does besides. *)
OpenContextMenu(m) ==
    LET hit == Hit(page, m)
    IN  User(IF hit = Zero THEN [page EXCEPT !.menu = None]
             ELSE IF Selected(page) = hit THEN [page EXCEPT !.menu = hit]
             ELSE [Set(page, Zero, "SELECTED", hit) EXCEPT !.menu = hit])

CloseContextMenu == User([page EXCEPT !.menu = None])

-----------------------------------------------------------------------------
(* Keys. Enter is left out: its guard asks for no modal, and accept() for one. *)

Escape ==
    User(CASE page.action # None -> NoAction(page)
           [] page.action = None /\ page.modal # None -> [page EXCEPT !.modal = None]
           [] page.action = None /\ page.modal = None /\ page.menu # None -> [page EXCEPT !.menu = None]
           [] OTHER -> IF Selected(page) = Zero THEN page ELSE Set(page, Zero, "SELECTED", Zero))

HelpKey == User([page EXCEPT !.modal = IF @ = <<"help", Zero>> THEN None ELSE <<"help", Zero>>])

TranslateKey == page.modal = None /\ User(StartTranslate(page, Selected(page)))

RotateKey == page.modal = None /\ User(StartRotation(page, Selected(page)))

ScaleKey == page.modal = None /\ User(StartScale(page, Selected(page)))

(* A rotation ends, and the token no longer looks at a place; any other action is
   dropped. *)
ShiftUp ==
    LET p == NoAction(page)
        a == page.action
    IN  /\ page.modal = None
        /\ User(IF a # None /\ a.do = "rotate" /\ Is(p, a.id, {"token"})
                THEN Set(p, a.id, "LOOK_AT", None) ELSE p)

-----------------------------------------------------------------------------
(* Messages of the list, the menu and the modals. *)

(* From the list: an action under way is dropped. *)
SelectListed(o) == Live(page, o) /\ User(SelectObject(NoAction(page), o))

Ask(what, o) ==
    LET p == [page EXCEPT !.menu = None]
    IN  User(IF ~Live(p, o) THEN p
             ELSE [p EXCEPT !.modal = <<IF IsLocked(p, o) THEN "unlock" ELSE what, o>>])

OpenSettings(o) == (Live(page, o) \/ page.menu = o) /\ Ask("settings", o)

(* The Delete key, or the menu: of a peer's objects, too. *)
ConfirmRemove(o) == o \in {page.menu, Selected(page)} \ {None} /\ Ask("remove", o)

CloseModal == User([page EXCEPT !.modal = None])

(* toggle_locked, toggle_hidden, toggle_local_hidden, toggle_expanded. *)
Toggle(o, k) ==
    LET p == IF k = "LOCKED" THEN page ELSE [page EXCEPT !.menu = None]
    IN  /\ o \in Own
        /\ k \in FlagsOf(KindOf[o])
        /\ User(IF Live(p, o) THEN Set(p, o, k, ~p.shown[<<o, k>>]) ELSE p)

ToggleMumbleObject(o) ==
    /\ o \in Own
    /\ Live(page, o) \/ page.menu = o
    /\ User(Set([page EXCEPT !.menu = None], Zero, "MUMBLE_OBJECT", IF Linked(page) = o THEN Zero ELSE o))

ToggleFollow == User(Set(page, Zero, "MUMBLE_FOLLOW", ~page.shown[<<Zero, "MUMBLE_FOLLOW">>]))

(* remove_object_remote: the backend knows only the user's objects by their id. What is
   removed while the snapshot is under way comes back with it. *)
RemoveObject(o) ==
    LET p == Removed(page, o)
        lives == {c \in Cell : c[1] = o}
    IN  /\ page.modal = <<"remove", o>>
        /\ Move
        /\ page' = Settled(p)
        /\ kept' = [Keep(p) EXCEPT ![<<o, "LIFE">>] =
                        IF o \in Own /\ channel # "none" THEN "gone" ELSE @]
        /\ astray' = CASE channel = "opening" -> astray \cup Sent(p) \cup lives
                       [] channel = "open" /\ o \in Own -> astray \ (Sent(p) \cup lives)
                       [] OTHER -> astray \ Sent(p)
        /\ halted' = Halt(p)
        /\ UNCHANGED <<snapshot, channel>>

-----------------------------------------------------------------------------
(* Map::simulation_frame. *)

Toward(a, b) == CASE a < b -> a + 1 [] a > b -> a - 1 [] a = b -> a

OnTheWay(p) == {o \in p.active : Is(p, o, {"token"}) /\ Target(p, o) # None}

Faces(p, o) ==
    IF p.shown[<<o, "LOOK_AT">>] = None THEN Target(p, o) ELSE p.shown[<<o, "LOOK_AT">>]

Frame(p) ==
    LET there == {o \in OnTheWay(p) : Transform(p, o).at = Target(p, o)}
        going == OnTheWay(p) \ there
        changed == (there \X {"MOVE_TARGET"}) \cup (going \X {"TRANSFORM"})
    IN  [p EXCEPT
            !.shown = [c \in Cell |->
                IF c \notin changed THEN p.shown[c]
                ELSE IF c[2] = "MOVE_TARGET" THEN None
                ELSE [at |-> Toward(Transform(p, c[1]).at, Target(p, c[1])), front |-> Faces(p, c[1])]],
            !.updates = changed,
            !.active = going,
            !.interval = going # {}]

SimulationFrame ==
    /\ page.interval
    /\ Handle(Frame(page))
    /\ UNCHANGED moves

-----------------------------------------------------------------------------
(* What others do: another page of the user changes what is the user's, peers what is
   theirs. With an open channel the page hears of it; while a snapshot is under way it
   hears of it after that, on the same socket. *)

Other == Move /\ channel # "opening"

(* What others set: one value of each kind is enough, and none. *)
OthersValue(k) ==
    CASE k = "TRANSFORM" -> {[at |-> MaxPlace, front |-> 0]}
      [] k = "MOVE_TARGET" -> {MaxPlace, None}
      [] k = "LOOK_AT" -> {None}
      [] k = "SIZE" -> {0}
      [] k = "SELECTED" -> {Zero}
      [] k = "MUMBLE_OBJECT" -> Own
      [] OTHER -> Value(k)

(* Object::update: a token that moves keeps to its own way. *)
Ignored(p, o, k) == k = "TRANSFORM" /\ KindOf[o] = "token" /\ Target(p, o) # None

(* Mutation: a token that is sent off by another page is not simulated. *)
UpdatedStill(p, o, k, v) ==
    IF ~Live(p, o) \/ Ignored(p, o, k) THEN p ELSE [p EXCEPT !.shown[<<o, k>>] = v]

Updated(p, o, k, v) ==
    LET q == IF Ignored(p, o, k) THEN p ELSE [p EXCEPT !.shown[<<o, k>>] = v]
    IN  IF ~Live(p, o) THEN p ELSE IF k = "MOVE_TARGET" THEN Active(q, o) ELSE q

ObjectUpdated(o, k, v) ==
    /\ Other
    /\ k # "LIFE" /\ <<o, k>> \in Cell /\ kept[<<o, "LIFE">>] = "live" /\ kept[<<o, k>>] # v
    /\ kept' = [kept EXCEPT ![<<o, k>>] = v]
    /\ IF channel = "open"
       THEN LET p == Updated(page, o, k, v)
            IN  /\ page' = Settled(p)
                /\ halted' = Halt(p)
                /\ astray' = IF Ignored(page, o, k) THEN astray \cup {<<o, k>>} ELSE astray \ {<<o, k>>}
       ELSE UNCHANGED <<page, halted, astray>>
    /\ UNCHANGED <<snapshot, channel>>

ObjectCreated(o) ==
    LET born == [c \in Cell |-> IF c[1] # o THEN kept[c] ELSE IF c[2] = "LIFE" THEN "live" ELSE Default(c[2])]
    IN  /\ Other
        /\ kept[<<o, "LIFE">>] = "unborn"
        /\ kept' = born
        /\ page' = IF channel = "open"
                   THEN [page EXCEPT !.shown = [c \in Cell |-> IF c[1] = o THEN born[c] ELSE page.shown[c]]]
                   ELSE page
        /\ UNCHANGED <<snapshot, channel, astray, halted>>

ObjectRemoved(o) ==
    LET p == IF channel = "open" /\ page.shown[<<o, "LIFE">>] # "unborn" THEN Removed(page, o) ELSE page
    IN  /\ Other
        /\ kept[<<o, "LIFE">>] = "live"
        /\ page' = Settled(p)
        /\ kept' = [Keep(p) EXCEPT ![<<o, "LIFE">>] = "gone"]
        /\ astray' = astray \ (Sent(p) \cup {<<o, "LIFE">>})
        /\ halted' = Halt(p)
        /\ UNCHANGED <<snapshot, channel>>

(* MapValues::update. *)
ConfigUpdate(k, v) ==
    /\ Other
    /\ kept[<<Zero, k>>] # v
    /\ kept' = [kept EXCEPT ![<<Zero, k>>] = v]
    /\ page' = IF channel = "open" THEN [page EXCEPT !.shown[<<Zero, k>>] = v] ELSE page
    /\ astray' = astray \ {<<Zero, k>>}
    /\ UNCHANGED <<snapshot, channel, halted>>

-----------------------------------------------------------------------------
(* The channel. *)

ChannelLost ==
    /\ Move
    /\ channel # "none"
    /\ channel' = "none"
    /\ snapshot' = None
    /\ UNCHANGED <<page, kept, astray, halted>>

(* The request for the snapshot is the first thing that is sent. *)
ChannelOpen ==
    /\ channel = "none"
    /\ channel' = "opening"
    /\ snapshot' = kept
    /\ astray' = {}
    /\ UNCHANGED <<page, kept, halted, moves>>

(* Mutation: the tokens that are moving are not simulated. *)
InitializedStill(p) == [p EXCEPT !.shown = snapshot]

(* Map::initialize: the user's tokens that are moving go on. *)
Initialized(p) ==
    [p EXCEPT
        !.shown = snapshot,
        !.active = @ \cup {o \in Own : KindOf[o] = "token" /\ snapshot[<<o, "LIFE">>] = "live"
                                        /\ snapshot[<<o, "MOVE_TARGET">>] # None}]

Initialize ==
    /\ channel = "opening"
    /\ channel' = "open"
    /\ snapshot' = None
    /\ page' = Settled(Initialized(page))
    /\ halted' = Halt(Initialized(page))
    /\ UNCHANGED <<kept, astray, moves>>

-----------------------------------------------------------------------------
Empty ==
    [shown |-> [c \in Cell |-> Default(c[2])], updates |-> {}, action |-> None, active |-> {},
     interval |-> FALSE, modal |-> None, menu |-> None, mouse |-> None, panning |-> FALSE]

(* The page is loaded, and the objects are those of the database: some are locked, one
   is selected. The pointer may be over the map before there is a channel. *)
Init ==
    /\ \E m \in {None, MaxPlace} : page = [Empty EXCEPT !.mouse = m]
    /\ \E s \in Born \cup {Zero}, locked \in SUBSET (Born \cap Own) :
        kept = [c \in Cell |->
            CASE c[2] = "LIFE" /\ c[1] \in Born -> "live"
              [] c[2] = "LOCKED" -> c[1] \in locked
              [] c[2] = "SELECTED" -> s
              [] OTHER -> Default(c[2])]
    /\ snapshot = None
    /\ channel = "none"
    /\ astray = {}
    /\ halted = {}
    /\ moves = 0

Pointer ==
    \/ \E m \in Place :
        \/ PointerDown(m) \/ ShiftPointerDown(m) \/ PointerMove(m) \/ OpenContextMenu(m)
    \/ MiddlePointerDown \/ MiddlePointerUp \/ PointerUp \/ PointerLeave \/ Wheel
    \/ CloseContextMenu

KeyDown == Escape \/ HelpKey \/ TranslateKey \/ RotateKey \/ ScaleKey \/ ShiftUp

Message ==
    \/ \E o \in ObjectId :
        \/ SelectListed(o) \/ OpenSettings(o) \/ ConfirmRemove(o) \/ RemoveObject(o)
        \/ ToggleMumbleObject(o)
        \/ \E k \in {"LOCKED", "HIDDEN", "LOCAL_HIDDEN", "EXPANDED"} : Toggle(o, k)
    \/ CloseModal \/ ToggleFollow

Others ==
    \/ \E o \in ObjectId :
        \/ ObjectCreated(o) \/ ObjectRemoved(o)
        \/ \E k \in KeysOf(KindOf[o]) : \E v \in OthersValue(k) : ObjectUpdated(o, k, v)
    \/ \E k \in Setting : \E v \in OthersValue(k) : ConfigUpdate(k, v)

Next ==
    \/ Pointer \/ KeyDown \/ Message
    \/ SimulationFrame
    \/ Others
    \/ ChannelLost \/ ChannelOpen \/ Initialize

Spec == Init /\ [][Next]_vars

(* The timer goes on as long as it is there. *)
FairSpec == Spec /\ WF_vars(SimulationFrame)

-----------------------------------------------------------------------------
(* The page has the types of the code; nothing stays noted to be sent, and there is a
   timer when something moves. *)
TypeOK ==
    /\ DOMAIN page.shown = Cell /\ \A c \in Cell : page.shown[c] \in Value(c[2])
    /\ DOMAIN kept = Cell /\ \A c \in Cell : kept[c] \in Value(c[2])
    /\ page.updates = {}
    /\ page.action \in Gesture \cup {None}
    /\ page.active \subseteq ObjectId
    /\ page.active # {} => page.interval
    /\ page.modal \in ({"help", "settings", "remove", "unlock"} \X (ObjectId \cup {Zero})) \cup {None}
    /\ page.menu \in ObjectId \cup {None}
    /\ page.mouse \in Place \cup {None}
    /\ (snapshot # None) = (channel = "opening")
    /\ channel \in {"none", "opening", "open"}
    /\ astray \subseteq Cell

(* While the channel is open the page shows of the user's objects and settings what the
   backend has, and the backend what the page shows: the exceptions are what was changed
   while the snapshot was under way, and where another page put a token that is moving. *)
SavedAsShown ==
    channel = "open" =>
        \A c \in Cell \ astray :
            c[1] = Zero \/ (c[1] \in Own /\ kept[<<c[1], "LIFE">>] = "live") =>
                Told(page, c) = kept[c]

(* A token of the user that is on its way is being simulated, whoever sent it off and
   wherever the page was loaded or cut off: unless a scale stopped it. *)
Driven ==
    \A o \in Own :
        Is(page, o, {"token"}) /\ Target(page, o) # None => o \in page.active \cup halted

(* So it gets there, and its target goes. *)
Arrives ==
    \A o \in Own :
        KindOf[o] = "token" =>
            ((Target(page, o) # None) ~>
                (Target(page, o) = None \/ ~Live(page, o) \/ o \in halted))

(* Where an object is, where it is sent and how large it is, the user changes only by a
   gesture on that object; and a gesture begins on an object of the user that is not
   locked, though it may be locked before the gesture ends. *)
GesturesAllowed ==
    [][Pointer \/ KeyDown =>
        LET on(p) == IF p.action = None THEN <<>> ELSE <<p.action.do, p.action.id>>
        IN  /\ \A c \in Cell :
                c[2] \in {"TRANSFORM", "MOVE_TARGET", "SIZE"} /\ page'.shown[c] # page.shown[c] =>
                    \E p \in {page, page'} : p.action # None /\ p.action.id = c[1]
            /\ on(page') \notin {<<>>, on(page)} =>
                    page'.action.id \in Own /\ ~IsLocked(page, page'.action.id)]_vars
=============================================================================
