-------------------------------- MODULE Order --------------------------------
(***************************************************************************)
(* The list of objects of a page: objects in groups in groups, each group  *)
(* in the order of its sorting keys, and what dragging a row onto another  *)
(* does to it (web/src/order.rs, drag_over.rs, components/object_list.rs,  *)
(* drag_end of components/map.rs).                                         *)
(*                                                                         *)
(* Objects name their group; the index of the list is kept beside them and *)
(* updated with them. Meanwhile other pages move the same objects, and     *)
(* the page hears of each key of each object by itself, in any order. A    *)
(* page that connects again gets its objects anew, and an object it has    *)
(* may be sent again: the index is not cleared then, and rows are left.    *)
(***************************************************************************)
EXTENDS Sorting, FiniteSets

CONSTANTS
    Own,        \* ids of the user's objects
    Foreign,    \* ids of the objects of peers, which sort after them
    Groups,     \* those of Own that are groups
    None,
    FirstSort,  \* the bytes of the id of each object
    MaxLen,     \* bound: longest key
    MaxMoves    \* bound: changes of objects

ObjectId == Own \cup Foreign

Zero == 0   \* RemoteId::ZERO: the top of the list

ASSUME OrderAssumption ==
    /\ Own \cap Foreign = {}
    /\ ObjectId \subseteq Nat \ {Zero}
    /\ Groups \subseteq Own
    /\ None \notin Nat
    /\ FirstSort \in [ObjectId -> Sort]
    /\ IsFiniteSet(ObjectId)
    /\ MaxLen \in Nat /\ MaxMoves \in Nat

VARIABLES
    objects,    \* ObjectsRef: group, sort, locked and expanded of each, or None
    noted,      \* OrderRef.objects: where the index has each object, or None
    children,   \* OrderRef.data: the rows <<sort, id>> of each group
    dragged,    \* the row that is being dragged, or None
    dragOver,   \* Map.drag_over, or None
    modal,      \* the object the Unlock modal asks about, or None
    hung,       \* the page is in a loop that does not end
    astray,     \* history: the ids of which the index may have rows left over
    moves

treeVars == <<objects, noted, children, astray>>
vars == <<objects, noted, children, dragged, dragOver, modal, hung, astray, moves>>

Parent == Groups \cup {Zero}

Live == {o \in ObjectId : objects[o] # None}

Object == [group : Parent, sort : Sort, locked : BOOLEAN, expanded : BOOLEAN]

Place == [group : Parent, sort : Sort]

(* DragOver: where what is dragged would go, next to or into which row. *)
Over == [drag : {"into", "above", "below"}, group : Parent, target : ObjectId \cup {Zero}]

ASSUME NoneAssumption == None \notin Object \cup Place \cup Over

PlaceOf(o) == [group |-> o.group, sort |-> o.sort]

Move == ~hung /\ moves < MaxMoves /\ moves' = moves + 1

-----------------------------------------------------------------------------
(* The index. *)

Rows(g) == IF g \in DOMAIN children THEN children[g] ELSE {}

(* SortKey: by key, then by id. *)
Above(r, q) == Less(r[1], q[1]) \/ (r[1] = q[1] /\ r[2] < q[2])

(* Data::insert. *)
Put(tree, g, r) ==
    [h \in DOMAIN tree \cup {g} |->
        (IF h \in DOMAIN tree THEN tree[h] ELSE {}) \cup (IF h = g THEN {r} ELSE {})]

(* Mutation: the group goes with the first row that does. *)
DropGroup(tree, g, r) == [h \in DOMAIN tree \ {g} |-> tree[h]]

(* Data::remove: a group without rows goes. *)
Drop(tree, g, r) ==
    IF g \in DOMAIN tree /\ tree[g] = {r} THEN [h \in DOMAIN tree \ {g} |-> tree[h]]
    ELSE [h \in DOMAIN tree |-> tree[h] \ (IF h = g THEN {r} ELSE {})]

Stands(tree, o, at) == at.group \in DOMAIN tree /\ <<at.sort, o>> \in tree[at.group]

(* Data::reorder: an object that is not where it should be goes nowhere. *)
Reorder(tree, o, old, new) ==
    IF Stands(tree, o, old)
    THEN Put(Drop(tree, old.group, <<old.sort, o>>), new.group, <<new.sort, o>>)
    ELSE tree

(* Mutation: OrderRef::insert takes an object the index has for another one. *)
InsertOnce(o, at) ==
    IF noted[o] # None THEN UNCHANGED <<noted, children, astray>>
    ELSE /\ noted' = [noted EXCEPT ![o] = at]
         /\ children' = Put(children, at.group, <<at.sort, o>>)
         /\ astray' = astray

(* OrderRef::insert: the row of where the object was noted stays. *)
Insert(o, at) ==
    /\ noted' = [noted EXCEPT ![o] = at]
    /\ children' = Put(children, at.group, <<at.sort, o>>)
    /\ astray' = IF noted[o] \in {None, at} THEN astray ELSE astray \cup {o}

(* OrderRef::extend, on what the page has from now on. *)
InsertAll ==
    LET now == {o \in ObjectId : objects'[o] # None}
        at(o) == PlaceOf(objects'[o])
    IN  /\ noted' = [o \in ObjectId |-> IF o \in now THEN at(o) ELSE noted[o]]
        /\ children' = [g \in DOMAIN children \cup {at(o).group : o \in now} |->
                           Rows(g) \cup {<<at(o).sort, o>> : o \in {p \in now : at(p).group = g}}]
        /\ astray' = astray \cup {o \in ObjectId : noted[o] \notin {None, noted'[o]}}
                           \cup (Live \ now)

(* OrderRef::remove. *)
RemoveRow(o) ==
    /\ noted' = [noted EXCEPT ![o] = None]
    /\ children' = IF noted[o] = None THEN children
                   ELSE Drop(children, noted[o].group, <<noted[o].sort, o>>)

(* OrderRef::update for GROUP or SORT, and reorder for both: nothing is looked up
   when the index has the values already. *)
Relocate(o, new) ==
    IF noted[o] = None THEN UNCHANGED <<noted, children>>
    ELSE /\ noted' = [noted EXCEPT ![o] = new]
         /\ children' = IF noted[o] = new THEN children
                        ELSE Reorder(children, o, noted[o], new)

(* What is under a group, through the groups of `open`. *)
Under(top, open) ==
    LET level[n \in 0..Cardinality(ObjectId)] ==
            IF n = 0 THEN {r[2] : r \in Rows(top)}
            ELSE level[n - 1] \cup UNION {{r[2] : r \in Rows(g)} : g \in level[n - 1] \cap open}
    IN  level[Cardinality(ObjectId)]

(* OrderRef::walk. *)
Walked == Under(Zero, ObjectId)

(* It goes through the rows of a group at each row of it, and does not come to an end
   when one is under itself. *)
Round == \E g \in Walked \cap Groups : g \in Under(g, ObjectId)

(* Map::redraw, at the end of each handler that changes the list: it walks it. *)
Redraw == hung' = Round'

-----------------------------------------------------------------------------
(* ObjectsRef::is_locked goes up from an object: to a locked one, to an object whose
   group is not there, or round and round. *)

GroupOf(o) == IF o \in Live THEN objects[o].group ELSE Zero

Ancestor(o) ==
    LET up[n \in 0..Cardinality(ObjectId)] == IF n = 0 THEN o ELSE GroupOf(up[n - 1])
    IN  {up[n] : n \in 0..Cardinality(ObjectId)} \cap Live

IsLocked(o) == \E a \in Ancestor(o) : objects[a].locked

Loop(o) == \A a \in Ancestor(o) : GroupOf(a) \in Live

Endless(o) == o \in Live /\ Loop(o) /\ ~IsLocked(o)

-----------------------------------------------------------------------------
(* The rows a user sees, which are of objects the page has, and where one can be dropped
   (ObjectList::view). *)

Expanded == {g \in Groups \cap Live : objects[g].expanded}

Open == {Zero} \cup (Under(Zero, Expanded) \cap Expanded)

Shown(g) == {r \in Rows(g) : r[2] \in Live}

Drag(how, g, t) == [drag |-> how, group |-> g, target |-> t]

First(g) == {r \in Shown(g) : \A q \in Shown(g) \ {r} : Above(r, q)}

(* The parent of the group one hovers over is handed down as the target of its
   empty list. *)
Targets ==
    UNION {
        {Drag("below", g, r[2]) : r \in Shown(g)}
        \cup {Drag("into", g, o) : o \in Groups \cap {r[2] : r \in Shown(g)}}
        \cup {Drag("above", g, r[2]) : r \in First(g)}
        \cup {Drag("into", o, g) : o \in {e \in Expanded : Shown(e) = {} /\ e \in {r[2] : r \in Shown(g)}
                                                        /\ dragOver = Drag("into", g, e)}}
        : g \in Open}

DragStart(d) ==
    /\ ~hung
    /\ dragged = None
    /\ d \in Targets
    /\ d.drag = "below"
    /\ dragged' = d.target
    /\ dragOver' = d
    /\ UNCHANGED <<treeVars, modal, hung, moves>>

DragOver(d) ==
    /\ ~hung
    /\ dragged # None
    /\ d \in Targets
    /\ dragOver' = d
    /\ UNCHANGED <<treeVars, dragged, modal, hung, moves>>

-----------------------------------------------------------------------------
(* DragOver::new_sort. *)

(* The object whose row is next to that of t among the rows of g, or None: also when
   t is not in the group any more. *)
Prev(g, t) ==
    LET above == {q \in Rows(g) : \E r \in Rows(g) : r[2] = t /\ Above(q, r)}
    IN  IF above = {} THEN None
        ELSE (CHOOSE q \in above : \A p \in above \ {q} : Above(p, q))[2]

Following(g, t) ==
    LET below == {q \in Rows(g) : \E r \in Rows(g) : r[2] = t /\ Above(r, q)}
    IN  IF below = {} THEN None
        ELSE (CHOOSE q \in below : \A p \in below \ {q} : Above(q, p))[2]

LastOf(g) ==
    IF Rows(g) = {} THEN None
    ELSE (CHOOSE q \in Rows(g) : \A p \in Rows(g) \ {q} : Above(p, q))[2]

SortOf(o) == objects[o].sort

(* Mutation: what is dropped into a group, or below its last row, takes the key of that row. *)
NewSortSame(d) ==
    CASE d.drag = "into" ->
            IF LastOf(d.target) \in Live THEN SortOf(LastOf(d.target))
            ELSE FirstSort[d.target]
      [] d.drag = "above" ->
            IF Prev(d.group, d.target) \in Live
            THEN Midpoint(SortOf(Prev(d.group, d.target)), SortOf(d.target))
            ELSE Before(SortOf(d.target))
      [] d.drag = "below" ->
            IF Following(d.group, d.target) \in Live
            THEN Midpoint(SortOf(d.target), SortOf(Following(d.group, d.target)))
            ELSE SortOf(d.target)

NewSort(d) ==
    CASE d.drag = "into" ->
            IF LastOf(d.target) \in Live THEN After(SortOf(LastOf(d.target)))
            ELSE FirstSort[d.target]
      [] d.drag = "above" ->
            IF Prev(d.group, d.target) \in Live
            THEN Midpoint(SortOf(Prev(d.group, d.target)), SortOf(d.target))
            ELSE Before(SortOf(d.target))
      [] d.drag = "below" ->
            IF Following(d.group, d.target) \in Live
            THEN Midpoint(SortOf(d.target), SortOf(Following(d.group, d.target)))
            ELSE After(SortOf(d.target))

TargetGroup(d) == IF d.drag = "into" THEN d.target ELSE d.group

-----------------------------------------------------------------------------
(* Map::drag_end. *)

(* Mutation: where it was dropped stays marked. *)
EndDragOver == ~hung /\ dragged # None /\ dragged' = None /\ dragOver' = dragOver

EndDrag == ~hung /\ dragged # None /\ dragged' = None /\ dragOver' = None

(* What is dragged is up to date in the page, and may be dropped where it is. *)
Dropped(o, d) ==
    /\ o \in Own
    /\ ~IsLocked(o)
    /\ o # TargetGroup(d)
    /\ TargetGroup(d) \notin Foreign
    /\ d.target \in Live
    /\ o \in Live

DropOn(o, d) ==
    /\ EndDrag
    /\ Move
    /\ Dropped(o, d)
    /\ ~Endless(o)
    /\ Len(NewSort(d)) <= MaxLen
    /\ objects' = [objects EXCEPT ![o].group = TargetGroup(d), ![o].sort = NewSort(d)]
    /\ Relocate(o, [group |-> TargetGroup(d), sort |-> NewSort(d)])
    /\ Redraw
    /\ UNCHANGED <<modal, astray>>

(* The key would grow past the bound, or one of the conditions fails. *)
DropNowhere ==
    /\ EndDrag
    /\ ~Endless(dragged)
    /\ IF Dropped(dragged, dragOver) THEN Len(NewSort(dragOver)) > MaxLen ELSE TRUE
    /\ modal' = IF dragged \in Own \cap Live /\ IsLocked(dragged) THEN dragged ELSE modal
    /\ UNCHANGED <<treeVars, hung, moves>>

DropForever ==
    /\ EndDrag
    /\ dragged \in Own
    /\ Endless(dragged)
    /\ hung' = TRUE
    /\ UNCHANGED <<treeVars, modal, moves>>

-----------------------------------------------------------------------------
(* Messages of the page. *)

(* toggle_locked, from the list or from the Unlock modal. *)
ToggleLocked(o) ==
    /\ Move
    /\ o \in Own \cap Live
    /\ objects' = [objects EXCEPT ![o].locked = ~@]
    /\ UNCHANGED <<noted, children, astray, dragged, dragOver, modal, hung>>

ToggleExpanded(o) ==
    /\ Move
    /\ o \in Groups \cap Live
    /\ objects' = [objects EXCEPT ![o].expanded = ~@]
    /\ UNCHANGED <<noted, children, astray, dragged, dragOver, modal, hung>>

CloseModal ==
    /\ ~hung
    /\ modal # None
    /\ modal' = None
    /\ UNCHANGED <<treeVars, dragged, dragOver, hung, moves>>

(* The keys other pages give: those of the ids, and one step from them. *)
OtherSorts == {FirstSort[o] : o \in ObjectId} \cup {Before(FirstSort[o]) : o \in ObjectId}

New(g, s) == [group |-> g, sort |-> s, locked |-> FALSE, expanded |-> TRUE]

(* Backend::create_object puts an object after all the user has. Those of peers come
   with the key they have. *)
CreateSort(o) ==
    LET own == {SortOf(p) : p \in Own \cap Live}
    IN  IF o \in Foreign \/ own = {} THEN FirstSort[o]
        ELSE After(CHOOSE s \in own : \A t \in own \ {s} : Less(t, s))

(* ObjectCreated, or PeerJoin. *)
ObjectCreated(o) ==
    /\ Move
    /\ o \notin Live
    /\ Len(CreateSort(o)) <= MaxLen
    /\ objects' = [objects EXCEPT ![o] = New(Zero, CreateSort(o))]
    /\ Insert(o, [group |-> Zero, sort |-> CreateSort(o)])
    /\ Redraw
    /\ UNCHANGED <<dragged, dragOver, modal>>

(* The same of an object the page has: it was in the answer to its InitializeMapRequest,
   or its peer joins twice. It comes as it was when it was sent. *)
ObjectAgain(o, s) ==
    /\ Move
    /\ o \in Live
    /\ objects' = [objects EXCEPT ![o] = New(Zero, s)]
    /\ Insert(o, [group |-> Zero, sort |-> s])
    /\ Redraw
    /\ UNCHANGED <<dragged, dragOver, modal>>

(* Map::initialize, when the page connects again: meanwhile one object was made, moved
   or removed, or nothing was. More than one are as many reconnections. *)
Initialize(o) ==
    /\ Move
    /\ IF o \notin Live THEN objects' = [objects EXCEPT ![o] = New(Zero, FirstSort[o])]
       ELSE \/ objects' = [objects EXCEPT ![o] = None]
            \/ \E g \in {Zero} \cup (Groups \ {o}) :
                o \in Own /\ objects' = [objects EXCEPT ![o].group = g]
            \/ \E s \in OtherSorts : objects' = [objects EXCEPT ![o].sort = s]
    /\ InsertAll
    /\ Redraw
    /\ UNCHANGED <<dragged, dragOver, modal>>

(* ObjectUpdated: another page moved the object, and says so key by key. *)
UpdateGroup(o, g) ==
    /\ Move
    /\ o \in Own \cap Live
    /\ g \in {Zero} \cup (Groups \ {o})
    /\ objects' = [objects EXCEPT ![o].group = g]
    /\ IF noted[o] = None THEN UNCHANGED <<noted, children>>
       ELSE Relocate(o, [noted[o] EXCEPT !.group = g])
    /\ Redraw
    /\ UNCHANGED <<dragged, dragOver, modal, astray>>

UpdateSort(o, s) ==
    /\ Move
    /\ o \in Live
    /\ objects' = [objects EXCEPT ![o].sort = s]
    /\ IF noted[o] = None THEN UNCHANGED <<noted, children>>
       ELSE Relocate(o, [noted[o] EXCEPT !.sort = s])
    /\ Redraw
    /\ UNCHANGED <<dragged, dragOver, modal, astray>>

(* remove_object, also of one that is not there any more: the rows under a group
   stay under it. *)
RemoveObject(o) ==
    /\ Move
    /\ objects' = [objects EXCEPT ![o] = None]
    /\ RemoveRow(o)
    /\ modal' = None
    /\ Redraw
    /\ UNCHANGED <<dragged, dragOver, astray>>

(* PeerLeave, PeerDisconnect, RemoteLost: OrderRef::retain. *)
PeersLeave ==
    /\ Move
    /\ objects' = [o \in ObjectId |-> IF o \in Foreign THEN None ELSE objects[o]]
    /\ noted' = [o \in ObjectId |-> IF o \in Foreign THEN None ELSE noted[o]]
    /\ LET left(g) == {r \in children[g] : r[2] \notin Foreign}
       IN  children' = [g \in {h \in DOMAIN children : left(h) # {}} |-> left(g)]
    /\ astray' = astray \ Foreign
    /\ Redraw
    /\ UNCHANGED <<dragged, dragOver, modal>>

-----------------------------------------------------------------------------
Init ==
    /\ objects = [o \in ObjectId |-> None]
    /\ noted = [o \in ObjectId |-> None]
    /\ children = [g \in {} |-> {}]
    /\ dragged = None
    /\ dragOver = None
    /\ modal = None
    /\ hung = FALSE
    /\ astray = {}
    /\ moves = 0

Next ==
    \/ \E o \in ObjectId :
        \/ ToggleLocked(o) \/ ToggleExpanded(o)
        \/ ObjectCreated(o) \/ RemoveObject(o) \/ Initialize(o)
        \/ \E g \in Parent : UpdateGroup(o, g)
        \/ \E s \in OtherSorts : UpdateSort(o, s) \/ ObjectAgain(o, s)
    \/ \E d \in Targets : DragStart(d) \/ DragOver(d)
    \/ DropOn(dragged, dragOver)
    \/ DropNowhere \/ DropForever
    \/ CloseModal \/ PeersLeave

Spec == Init /\ [][Next]_vars

-----------------------------------------------------------------------------
(* The state has the types of the code, and nothing is dragged but over a row. *)
TypeOK ==
    /\ objects \in [ObjectId -> Object \cup {None}]
    /\ noted \in [ObjectId -> Place \cup {None}]
    /\ DOMAIN children \subseteq Parent
    /\ \A g \in DOMAIN children : children[g] \subseteq Sort \X ObjectId
    /\ dragged \in ObjectId \cup {None}
    /\ dragOver \in Over \cup {None}
    /\ (dragged = None) = (dragOver = None)
    /\ modal \in Own \cup {None}
    /\ hung \in BOOLEAN
    /\ astray \subseteq ObjectId
    /\ moves \in 0..MaxMoves

(* Whoever moved what in whatever order, and however often the page connected again:
   each object has its row in its group, at its key. Rows left over are only of
   objects that came anew elsewhere, or were gone when the page came back; of the
   others there is no other row, and there are no groups without any. *)
Listed ==
    /\ \A o \in Live : noted[o] = PlaceOf(objects[o]) /\ Stands(children, o, noted[o])
    /\ \A o \in ObjectId \ astray : objects[o] = None => noted[o] = None
    /\ \A g \in Parent : \A r \in Rows(g) :
        \/ r[2] \in astray
        \/ noted[r[2]] = [group |-> g, sort |-> r[1]]
    /\ \A g \in DOMAIN children : children[g] # {}

(* The rows of a group are those of the objects in it. *)
Clean(g) == Rows(g) = {<<objects[o].sort, o>> : o \in {p \in Live : objects[p].group = g}}

(* An object that is dropped into a group, or below the last row of one, becomes the
   last row of it, whatever keys were there, unless a row is left over in it. *)
DropsLast ==
    [][\A o \in {dragged}, d \in {dragOver} :
        /\ DropOn(o, d)
        /\ d.drag = "into" \/ (d.drag = "below" /\ LastOf(d.group) = d.target)
        /\ Clean(TargetGroup(d))
        => LastOf(TargetGroup(d))' = o]_vars

(* A row goes from the list only with itself or a group above it: one of them is
   removed, leaves with its peer, or is put into a group that is not in the list or is
   under it. Nothing done to other objects, here or on another page, hides it, and
   neither does connecting again. *)
VanishesWith ==
    [][\A o \in Walked \ Walked' :
        \E a \in ObjectId :
            /\ o = a \/ o \in Under(a, ObjectId)
            /\ \/ RemoveObject(a) \/ (a \in Foreign /\ PeersLeave)
               \/ /\ a \in Live
                  /\ objects'[a].group \notin {objects[a].group, Zero}
                  /\ \/ objects'[a].group \notin Walked
                     \/ objects'[a].group \in {a} \cup Under(a, ObjectId)]_vars

(* What is dropped above a row comes before it: "a byte string that sorts before the
   given string" (sorting/src/lib.rs). *)
DropsAbove ==
    [][\A o \in {dragged}, d \in {dragOver} :
        DropOn(o, d) /\ d.drag = "above" /\ o # d.target => Less(SortOf(o)', SortOf(d.target)')]_vars
=============================================================================
