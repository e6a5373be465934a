------------------------------ MODULE Persist ------------------------------
(***************************************************************************)
(* What the local program keeps: the state of the backend, the pages that  *)
(* change it, the database, and a restart (web/ws.rs, backend.rs,          *)
(* database.rs).                                                           *)
(*                                                                         *)
(* A page changes the state at once and queues what it wrote; a timer of   *)
(* that page's connection saves the queue a second later. Objects are made *)
(* and removed in the database before they are in memory, and every await  *)
(* lets another page go first, but for those who wait for client_state. A  *)
(* connection that ends drops its queue and the request it was at, a crash *)
(* drops those of all. The remote client clears and saves ROOM of itself   *)
(* when the room of a peer is removed (client.rs).                         *)
(***************************************************************************)
EXTENDS Integers, Functions

CONSTANTS
    Page,       \* connections of pages to the web server
    ObjectId,   \* ids of objects
    None,       \* no value
    Theirs,     \* a room of a peer, as ROOM names it
    MaxChanges  \* bound: objects made, properties written and rooms of peers removed

ASSUME PersistAssumption ==
    /\ MaxChanges \in Nat
    /\ None \notin Nat \cup ObjectId
    /\ Theirs \notin Nat \cup ObjectId \cup {None}
    /\ ObjectId \cap {"mumble", "room"} = {}

(* The settings that name an object: MUMBLE_OBJECT and ROOM. *)
Setting == {"mumble", "room"}

(* A row of the table of properties: those of an object are one cell. *)
Cell == ObjectId \cup Setting

Value == (1..MaxChanges) \cup ObjectId \cup {None, Theirs}

(* What a setting may be: MUMBLE_OBJECT names an object of one's own. *)
Names(s) == ObjectId \cup {None} \cup (IF s = "room" THEN {Theirs} ELSE {})

VARIABLES
    objects,    \* ids in ClientState.objects
    mem,        \* properties of objects, and ClientState.props
    linked,     \* Inner.mumble_object
    known,      \* ids that were in memory once: pages may name them
    doomed,     \* ids whose removal was asked for since the program started
    rows,       \* ids in the table of objects
    saved,      \* the table of properties
    call,       \* the request each page's connection is handling
    queued,     \* HandlerInner.database_updates of each page
    notified,   \* database_updates_notify holds a permit
    batch,      \* local_updates
    timer,      \* debounce_timer runs
    writing,    \* what set_properties was given and did not write yet
    client,     \* where the remote client is at ROOM
    behind,     \* cells whose last value the database may never get: see Settle
    changes

pageVars == <<queued, notified, batch, timer, writing>>
dataVars == <<objects, mem, linked, known, doomed, rows, saved>>
vars == <<dataVars, call, pageVars, client, behind, changes>>

Empty == [c \in {} |-> None]

(* HashMap::insert of each of the values of g. *)
Over(f, g) == [c \in DOMAIN f \cup DOMAIN g |-> IF c \in DOMAIN g THEN g[c] ELSE f[c]]

(* The steps a request may be at. *)
Op == {"idle", "enqueue", "create", "insert", "save",
       "unlink", "remove", "forget", "leave", "left"}

Call == [op : Op, cell : Cell \cup {None}, value : Value]

Idle == [op |-> "idle", cell |-> None, value |-> None]

(* A connection takes one request at a time, and none while it saves. *)
Ready(p) == call[p] = Idle /\ writing[p] = Empty

(* Its request is at this step, and goes on. *)
At(p, op) == call[p].op = op /\ writing[p] = Empty

Begin(p, op, c, v) == call' = [call EXCEPT ![p] = [op |-> op, cell |-> c, value |-> v]]

Continue(p, op) == call' = [call EXCEPT ![p].op = op]

Return(p) == call' = [call EXCEPT ![p] = Idle]

(* remove_object holds client_state while it removes ROOM from the database. *)
Holds(p) == call[p].op \in {"leave", "left"}

Free == \A p \in Page : ~Holds(p)

New == changes + 1

Change == changes < MaxChanges /\ changes' = New

(* What page p changed and did not save. *)
Unsaved(p) ==
    DOMAIN queued[p] \cup DOMAIN batch[p] \cup DOMAIN writing[p]
    \cup (IF call[p].op \in {"enqueue", "save"} THEN {call[p].cell} ELSE {})

(* Somebody else has an older value of cell c to write: a page of ps, or the client. *)
Waiting(c, ps) == (c = "room" /\ client = "save") \/ \E q \in ps : c \in Unsaved(q)

(* Cell c is changed, and an older value may be written later: nobody keeps the order
   in which two connections save. *)
Settle(c, ps) == behind' = IF Waiting(c, ps) THEN behind \cup {c} ELSE behind \ {c}

-----------------------------------------------------------------------------
(* Requests::Updates and ObjectUpdate: the backend first, then the queue. *)

Updates(p, s, v) ==
    /\ Ready(p)
    /\ Free
    /\ Change
    /\ mem' = [mem EXCEPT ![s] = v]
    /\ linked' = IF s = "mumble" THEN v ELSE linked
    /\ Begin(p, "enqueue", s, v)
    /\ Settle(s, Page \ {p})
    /\ UNCHANGED <<objects, known, doomed, rows, saved, pageVars, client>>

(* Mutation: the properties are kept though the object is not there. *)
ObjectUpdateAny(p, o) ==
    /\ Ready(p)
    /\ Free
    /\ Change
    /\ o \in known
    /\ mem' = [mem EXCEPT ![o] = New]
    /\ Begin(p, "enqueue", o, New)
    /\ Settle(o, Page \ {p})
    /\ UNCHANGED <<objects, linked, known, doomed, rows, saved, pageVars, client>>

(* An update of an object that is gone is queued all the same. *)
ObjectUpdate(p, o) ==
    /\ Ready(p)
    /\ Free
    /\ Change
    /\ o \in known
    /\ mem' = IF o \in objects THEN [mem EXCEPT ![o] = New] ELSE mem
    /\ Begin(p, "enqueue", o, New)
    /\ Settle(o, Page \ {p})
    /\ UNCHANGED <<objects, linked, known, doomed, rows, saved, pageVars, client>>

Enqueue(p) ==
    /\ At(p, "enqueue")
    /\ queued' = [queued EXCEPT ![p] = Over(@, [c \in {call[p].cell} |-> call[p].value])]
    /\ notified' = [notified EXCEPT ![p] = TRUE]
    /\ Return(p)
    /\ UNCHANGED <<dataVars, batch, timer, writing, behind, changes, client>>

-----------------------------------------------------------------------------
(* create_object: an id, a row, the object in memory, then its properties. *)

CreateObject(p, o) ==
    /\ Ready(p)
    /\ Change
    /\ o \notin known \cup rows
    /\ \A q \in Page : call[q].op \in {"create", "insert"} => call[q].cell # o
    /\ Begin(p, "create", o, New)
    /\ UNCHANGED <<dataVars, pageVars, behind, client>>

(* Mutation: a failure to insert the row is ignored. *)
InsertRowOrNot(p) ==
    /\ At(p, "create")
    /\ rows' \in {rows, rows \cup {call[p].cell}}
    /\ Continue(p, "insert")
    /\ UNCHANGED <<objects, mem, linked, known, doomed, saved, pageVars, behind,
                   changes, client>>

InsertRow(p) ==
    /\ At(p, "create")
    /\ rows' = rows \cup {call[p].cell}
    /\ Continue(p, "insert")
    /\ UNCHANGED <<objects, mem, linked, known, doomed, saved, pageVars, behind,
                   changes, client>>

Insert(p) ==
    /\ At(p, "insert")
    /\ Free
    /\ objects' = objects \cup {call[p].cell}
    /\ known' = known \cup {call[p].cell}
    /\ mem' = [mem EXCEPT ![call[p].cell] = call[p].value]
    /\ Continue(p, "save")
    /\ UNCHANGED <<linked, doomed, rows, saved, pageVars, behind, changes, client>>

SaveNew(p) ==
    /\ At(p, "save")
    /\ saved' = [saved EXCEPT ![call[p].cell] = call[p].value]
    /\ Return(p)
    /\ UNCHANGED <<objects, mem, linked, known, doomed, rows, pageVars, behind, changes,
                   client>>

-----------------------------------------------------------------------------
(* remove_object: the link, the row, ROOM if it is the object, in the database while
   the lock is held, then ROOM and the object in memory. The properties of the object
   stay in their table. *)

RemoveObject(p, o) ==
    /\ Ready(p)
    /\ o \in known
    /\ doomed' = doomed \cup {o}
    /\ Begin(p, IF linked = o THEN "unlink" ELSE "remove", o, None)
    /\ UNCHANGED <<objects, mem, linked, known, rows, saved, pageVars, behind, changes,
                   client>>

(* Whatever was linked since the id was compared. *)
Unlink(p) ==
    /\ At(p, "unlink")
    /\ linked' = None
    /\ Continue(p, "remove")
    /\ UNCHANGED <<objects, mem, known, doomed, rows, saved, pageVars, behind, changes,
                   client>>

(* Mutation: a failure to delete the row is ignored. *)
DeleteRowOrNot(p) ==
    /\ At(p, "remove")
    /\ rows' \in {rows, rows \ {call[p].cell}}
    /\ Continue(p, "forget")
    /\ UNCHANGED <<objects, mem, linked, known, doomed, saved, pageVars, behind,
                   changes, client>>

DeleteRow(p) ==
    /\ At(p, "remove")
    /\ rows' = rows \ {call[p].cell}
    /\ Continue(p, "forget")
    /\ UNCHANGED <<objects, mem, linked, known, doomed, saved, pageVars, behind,
                   changes, client>>

(* Mutation: ROOM is left in the database. *)
ForgetOnly(p) ==
    /\ At(p, "forget")
    /\ Free
    /\ objects' = objects \ {call[p].cell}
    /\ mem' = [c \in Cell |-> IF c = call[p].cell \/ (c = "room" /\ mem[c] = call[p].cell)
                             THEN None ELSE mem[c]]
    /\ Return(p)
    /\ UNCHANGED <<linked, known, doomed, rows, saved, pageVars, client, behind, changes>>

Forget(p) ==
    /\ At(p, "forget")
    /\ Free
    /\ mem["room"] # call[p].cell
    /\ objects' = objects \ {call[p].cell}
    /\ mem' = [mem EXCEPT ![call[p].cell] = None]
    /\ Return(p)
    /\ UNCHANGED <<linked, known, doomed, rows, saved, pageVars, client, behind, changes>>

(* The room one is in: from here on nobody changes ROOM in memory, but what was queued
   before may be written at any time. *)
Leave(p) ==
    /\ At(p, "forget")
    /\ Free
    /\ mem["room"] = call[p].cell
    /\ Settle("room", Page)
    /\ Continue(p, "leave")
    /\ UNCHANGED <<dataVars, pageVars, client, changes>>

RemoveProperty(p) ==
    /\ At(p, "leave")
    /\ saved' = [saved EXCEPT !["room"] = None]
    /\ Continue(p, "left")
    /\ UNCHANGED <<objects, mem, linked, known, doomed, rows, pageVars, client, behind,
                   changes>>

ForgetRoom(p) ==
    /\ At(p, "left")
    /\ objects' = objects \ {call[p].cell}
    /\ mem' = [mem EXCEPT ![call[p].cell] = None, !["room"] = None]
    /\ Return(p)
    /\ UNCHANGED <<linked, known, doomed, rows, saved, pageVars, client, behind, changes>>

-----------------------------------------------------------------------------
(* Event::ObjectRemoved of the peer whose room it is: ROOM is compared under the lock,
   and cleared under another one, whatever it is then. No page saves that: the client
   does, and what becomes of its connection decides whether it comes to it. *)

ClientHears ==
    /\ client = "idle"
    /\ Free
    /\ mem["room"] = Theirs
    /\ Change
    /\ client' = "clear"
    /\ UNCHANGED <<dataVars, call, pageVars, behind>>

ClientClears ==
    /\ client = "clear"
    /\ Free
    /\ mem' = [mem EXCEPT !["room"] = None]
    /\ client' = "save"
    /\ Settle("room", Page)
    /\ UNCHANGED <<objects, linked, known, doomed, rows, saved, call, pageVars, changes>>

ClientSaves ==
    /\ client = "save"
    /\ saved' = [saved EXCEPT !["room"] = None]
    /\ client' = "idle"
    /\ UNCHANGED <<objects, mem, linked, known, doomed, rows, call, pageVars, behind,
                   changes>>

(* The write fails and ends the client, or a restart drops it where it waits. *)
ClientEnds ==
    /\ client # "idle"
    /\ client' = "idle"
    /\ behind' = IF client = "save" THEN behind \cup {"room"} ELSE behind
    /\ UNCHANGED <<dataVars, call, pageVars, changes>>

-----------------------------------------------------------------------------
(* The loop of a page's connection: gather what the handlers queued, start the
   timer if there was nothing to save before, save when it is over. A request may
   be under way meanwhile, but for the one step that waits for nothing. *)

Looping(p) == writing[p] = Empty /\ call[p].op \notin {"enqueue", "unlink"}

(* Mutation: was_empty is taken after the queue was drained into local_updates. *)
GatherUntimed(p) ==
    /\ Looping(p)
    /\ notified[p]
    /\ notified' = [notified EXCEPT ![p] = FALSE]
    /\ batch' = [batch EXCEPT ![p] = Over(@, queued[p])]
    /\ queued' = [queued EXCEPT ![p] = Empty]
    /\ timer' = [timer EXCEPT ![p] = @ \/ batch'[p] = Empty]
    /\ UNCHANGED <<dataVars, call, writing, behind, changes, client>>

Gather(p) ==
    /\ Looping(p)
    /\ notified[p]
    /\ notified' = [notified EXCEPT ![p] = FALSE]
    /\ batch' = [batch EXCEPT ![p] = Over(@, queued[p])]
    /\ queued' = [queued EXCEPT ![p] = Empty]
    /\ timer' = [timer EXCEPT ![p] = @ \/ batch[p] = Empty]
    /\ UNCHANGED <<dataVars, call, writing, behind, changes, client>>

Fire(p) ==
    /\ Looping(p)
    /\ timer[p]
    /\ timer' = [timer EXCEPT ![p] = FALSE]
    /\ writing' = [writing EXCEPT ![p] = batch[p]]
    /\ batch' = [batch EXCEPT ![p] = Empty]
    /\ UNCHANGED <<dataVars, call, queued, notified, behind, changes, client>>

SetProperties(p) ==
    /\ writing[p] # Empty
    /\ saved' = Over(saved, writing[p])
    /\ writing' = [writing EXCEPT ![p] = Empty]
    /\ UNCHANGED <<objects, mem, linked, known, doomed, rows, call, queued, notified, batch,
                   timer, behind, changes, client>>

(* What is lost of a request that goes no further: a value it has to save, or ROOM,
   which may be in memory and no longer in the database. *)
Lost(p) ==
    IF call[p].op \in {"enqueue", "save"} THEN {call[p].cell}
    ELSE IF Holds(p) THEN {"room"} ELSE {}

(* The connection ends: what it queued goes, and a request that waits for the
   database or a lock goes no further. *)
End(p) ==
    /\ behind' = behind \cup Unsaved(p) \cup Lost(p)
    /\ queued' = [queued EXCEPT ![p] = Empty]
    /\ notified' = [notified EXCEPT ![p] = FALSE]
    /\ batch' = [batch EXCEPT ![p] = Empty]
    /\ timer' = [timer EXCEPT ![p] = FALSE]
    /\ writing' = [writing EXCEPT ![p] = Empty]
    /\ Return(p)

(* The page is closed, or lags behind the broadcasts. *)
Close(p) ==
    /\ Looping(p)
    /\ End(p)
    /\ UNCHANGED <<dataVars, changes, client>>

(* A request fails where it waits for the database. *)
Fail(p) ==
    /\ \E op \in {"create", "save", "remove", "leave"} : At(p, op)
    /\ behind' = behind \cup Lost(p)
    /\ Return(p)
    /\ UNCHANGED <<dataVars, pageVars, changes, client>>

(* set_properties fails after some cells: the loop ends, and the rest is not written. *)
SetSome(p) ==
    /\ writing[p] # Empty
    /\ \E done \in SUBSET DOMAIN writing[p] : saved' = Over(saved, Restrict(writing[p], done))
    /\ End(p)
    /\ UNCHANGED <<objects, mem, linked, known, doomed, rows, changes, client>>

(* The program stops at any point and Backend::new loads what is there. Of what
   set_properties was writing any part is written. *)
Crash ==
    /\ \E p \in Page : \E done \in SUBSET DOMAIN writing[p] :
        saved' = Over(saved, Restrict(writing[p], done))
    /\ objects' = rows
    /\ mem' = [c \in Cell |-> IF c \in rows \cup Setting THEN saved'[c] ELSE None]
    /\ linked' = saved'["mumble"]
    /\ known' = known \cup rows
    /\ doomed' = {}
    /\ call' = [p \in Page |-> Idle]
    /\ queued' = [p \in Page |-> Empty]
    /\ notified' = [p \in Page |-> FALSE]
    /\ batch' = [p \in Page |-> Empty]
    /\ timer' = [p \in Page |-> FALSE]
    /\ writing' = [p \in Page |-> Empty]
    /\ client' = "idle"
    /\ behind' = {}
    /\ UNCHANGED <<rows, changes>>

-----------------------------------------------------------------------------
(* A program that is started with an empty database. *)
Init ==
    /\ objects = {} /\ known = {} /\ doomed = {} /\ rows = {}
    /\ mem = [c \in Cell |-> None]
    /\ saved = [c \in Cell |-> None]
    /\ linked = None
    /\ call = [p \in Page |-> Idle]
    /\ queued = [p \in Page |-> Empty]
    /\ notified = [p \in Page |-> FALSE]
    /\ batch = [p \in Page |-> Empty]
    /\ timer = [p \in Page |-> FALSE]
    /\ writing = [p \in Page |-> Empty]
    /\ client = "idle"
    /\ behind = {}
    /\ changes = 0

Request(p) ==
    \/ \E s \in Setting : \E v \in Names(s) \cap (known \cup {None, Theirs}) : Updates(p, s, v)
    \/ \E o \in ObjectId : ObjectUpdate(p, o) \/ CreateObject(p, o) \/ RemoveObject(p, o)

(* What a connection does of itself. *)
Work(p) ==
    \/ Enqueue(p) \/ InsertRow(p) \/ Insert(p) \/ SaveNew(p)
    \/ Unlink(p) \/ DeleteRow(p) \/ Forget(p) \/ Leave(p) \/ RemoveProperty(p) \/ ForgetRoom(p)
    \/ Gather(p) \/ Fire(p) \/ SetProperties(p)

Client == ClientHears \/ ClientClears \/ ClientSaves \/ ClientEnds

Next ==
    \/ \E p \in Page : Request(p) \/ Work(p) \/ Close(p) \/ Fail(p) \/ SetSome(p)
    \/ Client
    \/ Crash

Spec == Init /\ [][Next]_vars

(* Requests run to their end, a timer goes off, a write returns, whoever holds
   client_state lets go of it and the client saves what it cleared. *)
Live ==
    /\ \A p \in Page :
        /\ WF_vars(Enqueue(p)) /\ WF_vars(SaveNew(p))
        /\ WF_vars(Unlink(p)) /\ WF_vars(RemoveProperty(p)) /\ WF_vars(ForgetRoom(p))
        /\ WF_vars(Gather(p)) /\ WF_vars(Fire(p)) /\ WF_vars(SetProperties(p))
    /\ WF_vars(ClientSaves)

FairSpec == Spec /\ Live

-----------------------------------------------------------------------------
Partial == UNION {[d -> Value] : d \in SUBSET Cell}

(* The types of the state, and which cells hold what: an object's properties are in
   memory only while the object is, and ROOM and MUMBLE_OBJECT are ids or unset. *)
TypeOK ==
    /\ objects \subseteq known /\ known \subseteq ObjectId
    /\ rows \subseteq ObjectId /\ doomed \subseteq known
    /\ mem \in [Cell -> Value] /\ saved \in [Cell -> Value]
    /\ \A s \in Setting : {mem[s], saved[s]} \subseteq Names(s)
    /\ \A o \in ObjectId : mem[o] \in 1..changes \cup {None} /\ (mem[o] # None => o \in objects)
    /\ linked \in ObjectId \cup {None}
    /\ call \in [Page -> Call]
    /\ \A p \in Page : (call[p] = Idle \/ call[p].cell \in Cell) /\ (call[p].op = "idle" => call[p] = Idle)
    /\ {queued, batch, writing} \subseteq [Page -> Partial]
    /\ notified \in [Page -> BOOLEAN] /\ timer \in [Page -> BOOLEAN]
    /\ client \in {"idle", "clear", "save"} /\ behind \subseteq Cell
    /\ changes \in 0..MaxChanges

(* An object that was removed never comes back, however the program ends and
   whoever else was removing it: remove_object deletes the row before it forgets the
   object, and create_object inserts it before anyone can name the object. *)
GoneIsGone == rows \cap (known \ objects) = {}

(* An object that nobody asked to remove is still there after a restart, from the
   moment a page can see it. *)
RowsKept == objects \ doomed \subseteq rows

(* What page p has yet to write into cell c. *)
Pending(p, c) ==
    {f[c] : f \in {g \in {queued[p], batch[p], writing[p]} : c \in DOMAIN g}}
    \cup (IF call[p].op \in {"enqueue", "save"} /\ call[p].cell = c THEN {call[p].value} ELSE {})

(* Somebody is about to write the value that cell c has in memory, or ROOM is being
   removed from both: whoever does that holds client_state. *)
OnItsWay(c) ==
    \/ \E p \in Page : mem[c] \in Pending(p, c)
    \/ c = "room" /\ (~Free \/ (client = "save" /\ mem[c] = None))

(* The last value of each cell is in the database or on its way there, unless an older
   value waited to be written when the cell changed last, or the one that changed it is
   gone: the debounce of ws.rs drops nothing and puts nothing older in its place, and
   the removal of a room leaves ROOM in neither place. *)
Covered ==
    \A c \in ((objects \ doomed) \cup Setting) \ behind : saved[c] = mem[c] \/ OnItsWay(c)

(* Once nothing is changed any more, all of that is in the database and stays there:
   no queue is left without its notification, no batch without its timer. ROOM is
   excepted while it is being removed from both. *)
Persists ==
    <>[](\A c \in ((objects \ doomed) \cup Setting) \ behind :
            saved[c] = mem[c] \/ (c = "room" /\ ~Free))

(* backend.rs:659 of remove_object: "If the mumble object is removed, clear the mumble
   object setting to avoid dangling references." *)
SettingCleared ==
    [][\A p \in Page : Forget(p) \/ ForgetRoom(p) => mem'["mumble"] # call[p].cell]_vars

=============================================================================
