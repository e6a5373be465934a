--------------------------- MODULE PersistProofs ---------------------------
(***************************************************************************)
(* Proofs about Persist, for any pages and objects and any number of       *)
(* changes.                                                                *)
(*                                                                         *)
(* GoneIsGone and RowsKept need to know what is so at each step of the     *)
(* requests that make and remove objects (MakingSound, RemovingSound).     *)
(* TypeOK needs to know which values a cell may have had (Typed).          *)
(*                                                                         *)
(* Covered, that the debounced writes forget no value and put none in the  *)
(* place of a newer one, follows each cell that is not behind: one page at *)
(* most has something to write there, what that page writes last is what   *)
(* is in memory, and once nobody has anything to write the database has    *)
(* it.                                                                     *)
(***************************************************************************)
EXTENDS Persist, TLAPS

(* The types that the proofs need. *)
Types ==
    /\ call \in [Page -> Call]
    /\ changes \in 0..MaxChanges
    /\ objects \subseteq known
    /\ known \subseteq ObjectId
    /\ doomed \subseteq known
    /\ rows \subseteq ObjectId

Making == {"create", "insert"}

Removing == {"unlink", "remove", "forget", "leave", "left"}

(* The row of the object is deleted. *)
Forgetting == {"forget", "leave", "left"}

(* An object that is being made is unknown, is made by one page, and has a row once
   that was inserted. *)
MakingSound ==
    /\ \A p \in Page : call[p].op = "create" => call[p].cell \in ObjectId \ (known \cup rows)
    /\ \A p \in Page : call[p].op = "insert" => call[p].cell \in rows \ known
    /\ \A p, q \in Page :
        p # q /\ call[p].op \in Making /\ call[q].op \in Making => call[p].cell # call[q].cell

(* An object that is being removed was asked for, and has no row once that was
   deleted. *)
RemovingSound ==
    /\ \A p \in Page : call[p].op \in Removing => call[p].cell \in doomed
    /\ \A p \in Page : call[p].op \in Forgetting => call[p].cell \notin rows

IInv == Types /\ MakingSound /\ RemovingSound /\ GoneIsGone /\ RowsKept

-----------------------------------------------------------------------------
(* Most steps leave ids and rows alone, and leave a request at a step that the
   invariant says nothing about. *)
LEMMA Aside ==
    ASSUME IInv,
           UNCHANGED <<objects, known, doomed, rows>>,
           call' \in [Page -> Call],
           changes' \in 0..MaxChanges,
           \A p \in Page : call'[p] = call[p] \/ call'[p].op \notin Making \cup Removing
    PROVE  IInv'
<1>1. Types'
    BY DEF IInv, Types
<1>2. MakingSound'
    BY DEF IInv, MakingSound, Making, Removing
<1>3. RemovingSound'
    BY DEF IInv, RemovingSound, Making, Removing, Forgetting
<1>4. GoneIsGone' /\ RowsKept'
    BY DEF IInv, GoneIsGone, RowsKept
<1> QED
    BY <1>1, <1>2, <1>3, <1>4 DEF IInv

(* A request that begins changes its own page's entry only. *)
LEMMA Beginning ==
    ASSUME call \in [Page -> Call],
           NEW p \in Page, NEW op \in Op, NEW c \in Cell, NEW v \in Value,
           Begin(p, op, c, v)
    PROVE  /\ call' \in [Page -> Call]
           /\ call'[p] = [op |-> op, cell |-> c, value |-> v]
           /\ \A q \in Page \ {p} : call'[q] = call[q]
BY DEF Begin, Call

LEMMA Continuing ==
    ASSUME call \in [Page -> Call],
           NEW p \in Page, NEW op \in Op,
           Continue(p, op)
    PROVE  /\ call' \in [Page -> Call]
           /\ call'[p].op = op
           /\ call'[p].cell = call[p].cell
           /\ \A q \in Page \ {p} : call'[q] = call[q]
BY DEF Continue, Call

LEMMA Returning ==
    ASSUME call \in [Page -> Call],
           NEW p \in Page,
           Return(p)
    PROVE  /\ call' \in [Page -> Call]
           /\ call'[p].op = "idle"
           /\ \A q \in Page \ {p} : call'[q] = call[q]
BY DEF Return, Call, Idle, Op, Value

(* A change is counted, and its number is a value. *)
LEMMA Counting ==
    ASSUME changes \in 0..MaxChanges, Change
    PROVE  changes' \in 0..MaxChanges /\ New \in Value
BY PersistAssumption DEF Change, New, Value

-----------------------------------------------------------------------------
(* The steps that the invariant is about. *)

LEMMA CreateObjectStep ==
    ASSUME IInv, NEW p \in Page, NEW o \in ObjectId, CreateObject(p, o)
    PROVE  IInv'
<1>1. UNCHANGED <<objects, known, doomed, rows>>
    BY DEF CreateObject, dataVars
<1>2. changes' \in 0..MaxChanges /\ New \in Value
    BY Counting DEF CreateObject, IInv, Types
<1>3. /\ call' \in [Page -> Call]
      /\ call'[p] = [op |-> "create", cell |-> o, value |-> New]
      /\ \A q \in Page \ {p} : call'[q] = call[q]
    <2>1. o \in Cell /\ "create" \in Op
        BY DEF Cell, Op
    <2> QED
        BY <1>2, <2>1, Beginning DEF CreateObject, IInv, Types
<1>4. Types'
    BY <1>1, <1>2, <1>3 DEF IInv, Types
<1>5. MakingSound'
    BY <1>1, <1>3 DEF IInv, MakingSound, Making, CreateObject
<1>6. RemovingSound'
    BY <1>1, <1>3 DEF IInv, RemovingSound, Removing, Forgetting
<1>7. GoneIsGone' /\ RowsKept'
    BY <1>1 DEF IInv, GoneIsGone, RowsKept
<1> QED
    BY <1>4, <1>5, <1>6, <1>7 DEF IInv

LEMMA InsertRowStep ==
    ASSUME IInv, NEW p \in Page, InsertRow(p)
    PROVE  IInv'
<1> DEFINE o == call[p].cell
<1>1. /\ UNCHANGED <<objects, known, doomed, changes>>
      /\ rows' = rows \cup {o}
      /\ call[p].op = "create"
    BY DEF InsertRow, At
<1>2. /\ call' \in [Page -> Call]
      /\ call'[p].op = "insert"
      /\ call'[p].cell = o
      /\ \A q \in Page \ {p} : call'[q] = call[q]
    BY Continuing DEF InsertRow, IInv, Types, Op
<1>3. o \in ObjectId \ (known \cup rows)
    BY <1>1 DEF IInv, MakingSound
<1>4. Types'
    BY <1>1, <1>2, <1>3 DEF IInv, Types
<1>5. MakingSound'
    BY <1>1, <1>2, <1>3 DEF IInv, MakingSound, Making
<1>6. RemovingSound'
    BY <1>1, <1>2, <1>3 DEF IInv, Types, RemovingSound, Removing, Forgetting
<1>7. GoneIsGone' /\ RowsKept'
    BY <1>1, <1>3 DEF IInv, GoneIsGone, RowsKept
<1> QED
    BY <1>4, <1>5, <1>6, <1>7 DEF IInv

LEMMA InsertStep ==
    ASSUME IInv, NEW p \in Page, Insert(p)
    PROVE  IInv'
<1> DEFINE o == call[p].cell
<1>1. /\ UNCHANGED <<doomed, rows, changes>>
      /\ objects' = objects \cup {o}
      /\ known' = known \cup {o}
      /\ call[p].op = "insert"
    BY DEF Insert, At
<1>2. /\ call' \in [Page -> Call]
      /\ call'[p].op = "save"
      /\ \A q \in Page \ {p} : call'[q] = call[q]
    BY Continuing DEF Insert, IInv, Types, Op
<1>3. o \in rows \ known
    BY <1>1 DEF IInv, MakingSound
<1>4. Types'
    BY <1>1, <1>2, <1>3 DEF IInv, Types
<1>5. MakingSound'
    BY <1>1, <1>2, <1>3 DEF IInv, MakingSound, Making
<1>6. RemovingSound'
    BY <1>1, <1>2 DEF IInv, RemovingSound, Removing, Forgetting
<1>7. GoneIsGone' /\ RowsKept'
    BY <1>1, <1>3 DEF IInv, GoneIsGone, RowsKept
<1> QED
    BY <1>4, <1>5, <1>6, <1>7 DEF IInv

LEMMA RemoveObjectStep ==
    ASSUME IInv, NEW p \in Page, NEW o \in ObjectId, RemoveObject(p, o)
    PROVE  IInv'
<1>1. /\ UNCHANGED <<objects, known, rows, changes>>
      /\ doomed' = doomed \cup {o}
      /\ o \in known
    BY DEF RemoveObject
<1>2. /\ call' \in [Page -> Call]
      /\ call'[p].op \in {"unlink", "remove"}
      /\ call'[p].cell = o
      /\ \A q \in Page \ {p} : call'[q] = call[q]
    <2> DEFINE op == IF linked = o THEN "unlink" ELSE "remove"
    <2>1. o \in Cell /\ None \in Value /\ op \in Op /\ op \in {"unlink", "remove"}
        BY DEF Cell, Value, Op
    <2>2. Begin(p, op, o, None)
        BY DEF RemoveObject
    <2> HIDE DEF op
    <2>3. /\ call' \in [Page -> Call]
          /\ call'[p] = [op |-> op, cell |-> o, value |-> None]
          /\ \A q \in Page \ {p} : call'[q] = call[q]
        BY <2>1, <2>2, Beginning DEF IInv, Types
    <2> QED
        BY <2>1, <2>3
<1>3. Types'
    BY <1>1, <1>2 DEF IInv, Types
<1>4. MakingSound'
    BY <1>1, <1>2 DEF IInv, MakingSound, Making
<1>5. RemovingSound'
    BY <1>1, <1>2 DEF IInv, RemovingSound, Removing, Forgetting
<1>6. GoneIsGone' /\ RowsKept'
    BY <1>1 DEF IInv, GoneIsGone, RowsKept
<1> QED
    BY <1>3, <1>4, <1>5, <1>6 DEF IInv

LEMMA UnlinkStep ==
    ASSUME IInv, NEW p \in Page, Unlink(p)
    PROVE  IInv'
<1>1. UNCHANGED <<objects, known, doomed, rows, changes>> /\ call[p].op = "unlink"
    BY DEF Unlink, At
<1>2. /\ call' \in [Page -> Call]
      /\ call'[p].op = "remove"
      /\ call'[p].cell = call[p].cell
      /\ \A q \in Page \ {p} : call'[q] = call[q]
    BY Continuing DEF Unlink, IInv, Types, Op
<1>3. Types'
    BY <1>1, <1>2 DEF IInv, Types
<1>4. MakingSound'
    BY <1>1, <1>2 DEF IInv, MakingSound, Making
<1>5. RemovingSound'
    BY <1>1, <1>2 DEF IInv, RemovingSound, Removing, Forgetting
<1>6. GoneIsGone' /\ RowsKept'
    BY <1>1 DEF IInv, GoneIsGone, RowsKept
<1> QED
    BY <1>3, <1>4, <1>5, <1>6 DEF IInv

LEMMA DeleteRowStep ==
    ASSUME IInv, NEW p \in Page, DeleteRow(p)
    PROVE  IInv'
<1> DEFINE o == call[p].cell
<1>1. /\ UNCHANGED <<objects, known, doomed, changes>>
      /\ rows' = rows \ {o}
      /\ call[p].op = "remove"
    BY DEF DeleteRow, At
<1>2. /\ call' \in [Page -> Call]
      /\ call'[p].op = "forget"
      /\ call'[p].cell = o
      /\ \A q \in Page \ {p} : call'[q] = call[q]
    BY Continuing DEF DeleteRow, IInv, Types, Op
<1>3. o \in doomed /\ o \in known
    BY <1>1 DEF IInv, Types, RemovingSound, Removing, Forgetting
<1>4. Types'
    BY <1>1, <1>2 DEF IInv, Types
<1>5. MakingSound'
    BY <1>1, <1>2, <1>3 DEF IInv, MakingSound, Making
<1>6. RemovingSound'
    BY <1>1, <1>2, <1>3 DEF IInv, RemovingSound, Removing, Forgetting
<1>7. GoneIsGone' /\ RowsKept'
    BY <1>1, <1>3 DEF IInv, GoneIsGone, RowsKept
<1> QED
    BY <1>4, <1>5, <1>6, <1>7 DEF IInv

LEMMA ForgetStep ==
    ASSUME IInv, NEW p \in Page, Forget(p) \/ ForgetRoom(p)
    PROVE  IInv'
<1> DEFINE o == call[p].cell
<1>1. /\ UNCHANGED <<known, doomed, rows, changes>>
      /\ objects' = objects \ {o}
      /\ call[p].op \in Forgetting
    BY DEF Forget, ForgetRoom, At, Forgetting
<1>2. /\ call' \in [Page -> Call]
      /\ call'[p].op = "idle"
      /\ \A q \in Page \ {p} : call'[q] = call[q]
    BY Returning DEF Forget, ForgetRoom, IInv, Types
<1>3. o \notin rows
    BY <1>1 DEF IInv, RemovingSound
<1>4. Types'
    BY <1>1, <1>2 DEF IInv, Types
<1>5. MakingSound'
    BY <1>1, <1>2 DEF IInv, MakingSound, Making
<1>6. RemovingSound'
    BY <1>1, <1>2 DEF IInv, RemovingSound, Removing, Forgetting
<1>7. GoneIsGone' /\ RowsKept'
    BY <1>1, <1>3 DEF IInv, GoneIsGone, RowsKept
<1> QED
    BY <1>4, <1>5, <1>6, <1>7 DEF IInv

LEMMA LeaveStep ==
    ASSUME IInv, NEW p \in Page, Leave(p) \/ RemoveProperty(p)
    PROVE  IInv'
<1> DEFINE op == IF call[p].op = "forget" THEN "leave" ELSE "left"
<1>1. /\ UNCHANGED <<objects, known, doomed, rows, changes>>
      /\ call[p].op \in Forgetting
      /\ Continue(p, op)
    BY DEF Leave, RemoveProperty, At, Forgetting, dataVars
<1>2. op \in Op /\ op \in Forgetting
    BY DEF Op, Forgetting
<1> HIDE DEF op
<1>3. /\ call' \in [Page -> Call]
      /\ call'[p].op = op
      /\ call'[p].cell = call[p].cell
      /\ \A q \in Page \ {p} : call'[q] = call[q]
    BY <1>1, <1>2, Continuing DEF IInv, Types
<1>4. Types'
    BY <1>1, <1>3 DEF IInv, Types
<1>5. MakingSound'
    BY <1>1, <1>2, <1>3 DEF IInv, MakingSound, Making, Forgetting
<1>6. RemovingSound'
    BY <1>1, <1>2, <1>3 DEF IInv, RemovingSound, Removing, Forgetting
<1>7. GoneIsGone' /\ RowsKept'
    BY <1>1 DEF IInv, GoneIsGone, RowsKept
<1> QED
    BY <1>4, <1>5, <1>6, <1>7 DEF IInv

LEMMA CrashStep ==
    ASSUME IInv, Crash
    PROVE  IInv'
<1>1. /\ UNCHANGED <<rows, changes>>
      /\ objects' = rows
      /\ known' = known \cup rows
      /\ doomed' = {}
      /\ call' = [p \in Page |-> Idle]
    BY DEF Crash
<1>2. call' \in [Page -> Call] /\ \A p \in Page : call'[p].op = "idle"
    BY <1>1 DEF Idle, Call, Op, Value
<1>3. Types'
    BY <1>1, <1>2 DEF IInv, Types
<1>4. MakingSound' /\ RemovingSound'
    BY <1>2 DEF MakingSound, RemovingSound, Making, Removing, Forgetting
<1>5. GoneIsGone' /\ RowsKept'
    BY <1>1 DEF GoneIsGone, RowsKept
<1> QED
    BY <1>3, <1>4, <1>5 DEF IInv

-----------------------------------------------------------------------------
(* The steps that leave the invariant alone. *)

LEMMA UpdateStep ==
    ASSUME IInv, NEW p \in Page,
           NEW c \in Cell, NEW v \in Value,
           Change, Begin(p, "enqueue", c, v),
           UNCHANGED <<objects, known, doomed, rows>>
    PROVE  IInv'
<1>1. changes' \in 0..MaxChanges
    BY Counting DEF IInv, Types
<1>2. /\ call' \in [Page -> Call]
      /\ call'[p] = [op |-> "enqueue", cell |-> c, value |-> v]
      /\ \A q \in Page \ {p} : call'[q] = call[q]
    <2>1. "enqueue" \in Op
        BY DEF Op
    <2> QED
        BY <2>1, Beginning DEF IInv, Types
<1> QED
    BY <1>1, <1>2, Aside DEF Making, Removing

LEMMA ReturnStep ==
    ASSUME IInv, NEW p \in Page,
           Return(p),
           UNCHANGED <<objects, known, doomed, rows, changes>>
    PROVE  IInv'
<1>1. /\ call' \in [Page -> Call]
      /\ call'[p].op = "idle"
      /\ \A q \in Page \ {p} : call'[q] = call[q]
    BY Returning DEF IInv, Types
<1> QED
    BY <1>1, Aside DEF IInv, Types, Making, Removing

LEMMA LoopStep ==
    ASSUME IInv, UNCHANGED <<objects, known, doomed, rows, changes, call>>
    PROVE  IInv'
BY Aside DEF IInv, Types

-----------------------------------------------------------------------------
LEMMA Starts == Init => IInv
<1> SUFFICES ASSUME Init PROVE IInv
    OBVIOUS
<1>1. call \in [Page -> Call] /\ \A p \in Page : call[p].op = "idle"
    BY DEF Init, Idle, Call, Op, Value
<1>2. Types
    BY <1>1, PersistAssumption DEF Init, Types
<1>3. MakingSound /\ RemovingSound
    BY <1>1 DEF MakingSound, RemovingSound, Making, Removing, Forgetting
<1>4. GoneIsGone /\ RowsKept
    BY DEF Init, GoneIsGone, RowsKept
<1> QED
    BY <1>2, <1>3, <1>4 DEF IInv

LEMMA RequestStep ==
    ASSUME IInv, NEW p \in Page, Request(p)
    PROVE  IInv'
<1>1. CASE \E s \in Setting : \E v \in Names(s) \cap (known \cup {None, Theirs}) : Updates(p, s, v)
    <2>1. PICK s \in Setting : \E v \in Names(s) \cap (known \cup {None, Theirs}) : Updates(p, s, v)
        BY <1>1
    <2>2. PICK v \in known \cup {None, Theirs} : Updates(p, s, v)
        BY <2>1
    <2>3. s \in Cell /\ v \in Value
        BY DEF IInv, Types, Cell, Value
    <2> QED
        BY <2>2, <2>3, UpdateStep DEF Updates
<1>2. CASE \E o \in ObjectId : ObjectUpdate(p, o)
    <2>1. PICK o \in ObjectId : ObjectUpdate(p, o)
        BY <1>2
    <2>2. o \in Cell /\ New \in Value
        BY <2>1, Counting DEF ObjectUpdate, Cell, IInv, Types
    <2> QED
        BY <2>1, <2>2, UpdateStep DEF ObjectUpdate
<1>3. CASE \E o \in ObjectId : CreateObject(p, o)
    BY <1>3, CreateObjectStep
<1>4. CASE \E o \in ObjectId : RemoveObject(p, o)
    BY <1>4, RemoveObjectStep
<1> QED
    BY <1>1, <1>2, <1>3, <1>4 DEF Request

LEMMA WorkStep ==
    ASSUME IInv, NEW p \in Page, Work(p)
    PROVE  IInv'
<1>1. CASE Enqueue(p)
    BY <1>1, ReturnStep DEF Enqueue, dataVars
<1>2. CASE InsertRow(p)
    BY <1>2, InsertRowStep
<1>3. CASE Insert(p)
    BY <1>3, InsertStep
<1>4. CASE SaveNew(p)
    BY <1>4, ReturnStep DEF SaveNew
<1>5. CASE Unlink(p)
    BY <1>5, UnlinkStep
<1>6. CASE DeleteRow(p)
    BY <1>6, DeleteRowStep
<1>7. CASE Forget(p) \/ ForgetRoom(p) \/ Leave(p) \/ RemoveProperty(p)
    BY <1>7, ForgetStep, LeaveStep
<1>8. CASE Gather(p)
    BY <1>8, LoopStep DEF Gather, dataVars
<1>9. CASE Fire(p)
    BY <1>9, LoopStep DEF Fire, dataVars
<1>10. CASE SetProperties(p)
    BY <1>10, LoopStep DEF SetProperties
<1> QED
    BY <1>1, <1>2, <1>3, <1>4, <1>5, <1>6, <1>7, <1>8, <1>9, <1>10 DEF Work

LEMMA ClientStep ==
    ASSUME IInv, Client
    PROVE  IInv'
<1>1. UNCHANGED <<objects, known, doomed, rows, call>>
    BY DEF Client, ClientHears, ClientClears, ClientSaves, ClientEnds, dataVars
<1>2. changes' \in 0..MaxChanges
    BY Counting DEF Client, ClientHears, ClientClears, ClientSaves, ClientEnds, IInv, Types
<1> QED
    BY <1>1, <1>2, Aside DEF IInv, Types

LEMMA Steps == IInv /\ [Next]_vars => IInv'
<1> SUFFICES ASSUME IInv, [Next]_vars PROVE IInv'
    OBVIOUS
<1>1. CASE \E p \in Page : Request(p)
    BY <1>1, RequestStep
<1>2. CASE \E p \in Page : Work(p)
    BY <1>2, WorkStep
<1>3. CASE \E p \in Page : Close(p)
    BY <1>3, ReturnStep DEF Close, End, dataVars
<1>4. CASE \E p \in Page : Fail(p)
    BY <1>4, ReturnStep DEF Fail, dataVars
<1>5. CASE \E p \in Page : SetSome(p)
    BY <1>5, ReturnStep DEF SetSome, End
<1>6. CASE Crash
    BY <1>6, CrashStep
<1>7. CASE Client
    BY <1>7, ClientStep
<1>8. CASE UNCHANGED vars
    BY <1>8, LoopStep DEF vars, dataVars
<1> QED
    BY <1>1, <1>2, <1>3, <1>4, <1>5, <1>6, <1>7, <1>8 DEF Next

LEMMA Invariance == Spec => []IInv
BY Starts, Steps, PTL DEF Spec

(* remove_object and create_object: whatever fails, ends or stops between their
   steps, an object that was removed is not there again. *)
THEOREM RemovalIsFinal == Spec => []GoneIsGone
<1>1. IInv => GoneIsGone
    BY DEF IInv
<1> QED
    BY <1>1, Invariance, PTL

(* An object that a page can see has a row, unless its removal was asked for: no
   restart loses it. *)
THEOREM ObjectsAreKept == Spec => []RowsKept
<1>1. IInv => RowsKept
    BY DEF IInv
<1> QED
    BY <1>1, Invariance, PTL

-----------------------------------------------------------------------------
(* What is indexed by what. *)
Stores ==
    /\ mem = [c \in Cell |-> mem[c]]
    /\ saved = [c \in Cell |-> saved[c]]
    /\ queued = [p \in Page |-> queued[p]]
    /\ batch = [p \in Page |-> batch[p]]
    /\ writing = [p \in Page |-> writing[p]]

(* The cells page p's loop has values of. *)
Held(p) == DOMAIN queued[p] \cup DOMAIN batch[p] \cup DOMAIN writing[p]

(* The steps at which a request holds a value that it has yet to hand on. *)
Carrying == {"enqueue", "save"}

Carries(p, c) == call[p].op \in Carrying /\ call[p].cell = c

CarriedKnown == \A p \in Page : Unsaved(p) \subseteq known \cup Setting

(* Nobody has queued anything of an object that is being made. *)
NewApart ==
    \A p \in Page : call[p].op \in Making \cup {"save"} => call[p].cell \notin Held(p)

(* The value of c that page p writes last. *)
Last(p, c) ==
    IF Carries(p, c) THEN call[p].value
    ELSE IF c \in DOMAIN queued[p] THEN queued[p][c]
    ELSE IF c \in DOMAIN batch[p] THEN batch[p][c]
    ELSE writing[p][c]

Kept == (objects \ doomed) \cup Setting

(* The client has cleared ROOM and not saved that. *)
Cleared(c) == c = "room" /\ client = "save"

(* ROOM is being removed from the database and from memory. *)
Leaving(c) == c = "room" /\ ~Free

Right(c) ==
    /\ \A p, q \in Page : c \in Unsaved(p) /\ c \in Unsaved(q) => p = q
    /\ Cleared(c) => mem[c] = None /\ \A p \in Page : c \notin Unsaved(p)
    /\ Leaving(c) => ~Cleared(c) /\ \A p \in Page : c \notin Unsaved(p)
    /\ Leaving(c) => \A p \in Page : call[p].op = "left" => saved[c] = None
    /\ c \in Kept => \A p \in Page : c \in Unsaved(p) => Last(p, c) = mem[c]
    /\ \/ c \notin Kept \/ Cleared(c) \/ Leaving(c)
       \/ \E p \in Page : c \in Unsaved(p)
       \/ saved[c] = mem[c]

AllRight == \A c \in Cell \ behind : Right(c)

SInv == Stores /\ CarriedKnown /\ NewApart /\ AllRight

-----------------------------------------------------------------------------
LEMMA UnsavedIs ==
    ASSUME NEW p, NEW c
    PROVE  c \in Unsaved(p) <=> c \in Held(p) \/ Carries(p, c)
BY DEF Unsaved, Held, Carries, Carrying

(* A page whose queues stay and whose request carries what it carried. *)
LEMMA SamePage ==
    ASSUME NEW p \in Page,
           queued'[p] = queued[p], batch'[p] = batch[p], writing'[p] = writing[p],
           \/ call'[p] = call[p]
           \/ call[p].op \notin Carrying /\ call'[p].op \notin Carrying
    PROVE  /\ Held(p)' = Held(p)
           /\ Unsaved(p)' = Unsaved(p)
           /\ \A c : Last(p, c)' = Last(p, c)
<1>1. Held(p)' = Held(p)
    BY DEF Held
<1>2. Unsaved(p)' = Unsaved(p)
    BY DEF Unsaved, Carrying
<1>3. \A c : Last(p, c)' = Last(p, c)
    BY DEF Last, Carries
<1> QED
    BY <1>1, <1>2, <1>3

(* Who holds client_state, and at which step. *)
SameLock == \A p \in Page : call'[p].op = call[p].op \/ (~Holds(p) /\ ~Holds(p)')

LEMMA SameFree ==
    ASSUME SameLock
    PROVE  Free' = Free
<1>1. \A p \in Page : Holds(p)' = Holds(p)
    BY DEF SameLock, Holds
<1> QED
    BY <1>1 DEF Free

(* A cell that a step does not touch, or that does not matter after it. *)
LEMMA SameCell ==
    ASSUME NEW c, Right(c),
           c \in Kept' => c \in Kept /\ mem'[c] = mem[c] /\ saved'[c] = saved[c],
           c = "room" => SameLock /\ client' = client,
           \A p \in Page :
               /\ c \in Unsaved(p)' <=> c \in Unsaved(p)
               /\ c \in Unsaved(p) => Last(p, c)' = Last(p, c)
    PROVE  Right(c)'
<1>1. c = "room" => c \in Kept'
    BY DEF Kept, Setting
<1>2. Leaving(c)' = Leaving(c) /\ Cleared(c)' = Cleared(c)
    BY SameFree DEF Leaving, Cleared
<1>3. c = "room" => \A p \in Page : call'[p].op = "left" => call[p].op = "left"
    BY DEF SameLock, Holds
<1>4. Leaving(c) \/ Cleared(c) => c = "room"
    BY DEF Leaving, Cleared
<1> QED
    BY <1>1, <1>2, <1>3, <1>4 DEF Right

(* Steps of requests that carry nothing. *)
LEMMA Quiet ==
    ASSUME SInv,
           UNCHANGED <<mem, saved, client, behind, queued, batch, writing>>,
           known \subseteq known', Kept' \subseteq Kept,
           \A p \in Page :
               \/ call'[p] = call[p]
               \/ /\ call[p].op \notin Carrying \cup {"leave", "left"}
                  /\ call'[p].op \notin Carrying \cup {"leave", "left"}
                  /\ call'[p].op \in Making => call'[p].cell \notin Held(p)
    PROVE  SInv'
<1>1. \A p \in Page : /\ Held(p)' = Held(p)
                      /\ Unsaved(p)' = Unsaved(p)
                      /\ \A c : Last(p, c)' = Last(p, c)
    BY SamePage
<1>2. Stores'
    BY DEF SInv, Stores
<1>3. CarriedKnown'
    BY <1>1 DEF SInv, CarriedKnown
<1>4. NewApart'
    BY <1>1 DEF SInv, NewApart, Carrying
<1>5. AllRight'
    <2> SUFFICES ASSUME NEW c \in Cell \ behind' PROVE Right(c)'
        BY DEF AllRight
    <2>1. Right(c)
        BY DEF SInv, AllRight
    <2>2. SameLock
        BY DEF SameLock, Holds
    <2> QED
        BY <1>1, <2>1, <2>2, SameCell
<1> QED
    BY <1>2, <1>3, <1>4, <1>5 DEF SInv

(* Steps of the loop that hand values on. *)
LEMMA HandedOn ==
    ASSUME SInv, Stores', NewApart',
           UNCHANGED <<mem, saved, client, behind, objects, doomed, known>>, SameLock,
           \A p \in Page : /\ Unsaved(p)' = Unsaved(p)
                           /\ \A c \in Unsaved(p) : Last(p, c)' = Last(p, c)
    PROVE  SInv'
<1>1. CarriedKnown'
    BY DEF SInv, CarriedKnown
<1>2. AllRight'
    <2> SUFFICES ASSUME NEW c \in Cell \ behind' PROVE Right(c)'
        BY DEF AllRight
    <2>1. Right(c)
        BY DEF SInv, AllRight
    <2>2. Kept' = Kept
        BY DEF Kept
    <2> QED
        BY <2>1, <2>2, SameCell
<1> QED
    BY <1>1, <1>2 DEF SInv

-----------------------------------------------------------------------------
LEMMA EnqueueCovered ==
    ASSUME IInv, SInv, NEW p \in Page, Enqueue(p)
    PROVE  SInv'
<1> DEFINE c0 == call[p].cell
<1>1. /\ UNCHANGED <<mem, saved, client, behind, objects, doomed, known, batch, writing>>
      /\ queued' = [queued EXCEPT ![p] = Over(@, [c \in {c0} |-> call[p].value])]
      /\ call[p].op = "enqueue"
    BY DEF Enqueue, At, dataVars
<1>2. /\ call' \in [Page -> Call]
      /\ call'[p].op = "idle"
      /\ \A q \in Page \ {p} : call'[q] = call[q]
    BY Returning DEF Enqueue, IInv, Types
<1>3. /\ DOMAIN queued'[p] = DOMAIN queued[p] \cup {c0}
      /\ queued'[p][c0] = call[p].value
      /\ \A c \in DOMAIN queued[p] \ {c0} : queued'[p][c] = queued[p][c]
      /\ \A q \in Page \ {p} : queued'[q] = queued[q]
    BY <1>1 DEF SInv, Stores, Over
<1>4. Stores'
    BY <1>1 DEF SInv, Stores
<1>5. \A q \in Page \ {p} : /\ Held(q)' = Held(q)
                            /\ Unsaved(q)' = Unsaved(q)
                            /\ \A c : Last(q, c)' = Last(q, c)
    BY <1>1, <1>2, <1>3, SamePage
<1>6. Unsaved(p)' = Unsaved(p)
    BY <1>1, <1>2, <1>3 DEF Unsaved
<1>7. \A c \in Unsaved(p) : Last(p, c)' = Last(p, c)
    BY <1>1, <1>2, <1>3 DEF Last, Carries, Carrying, Unsaved
<1>8. NewApart'
    BY <1>1, <1>2, <1>5 DEF SInv, NewApart, Making
<1>9. SameLock
    BY <1>1, <1>2 DEF SameLock, Holds
<1> QED
    BY <1>1, <1>4, <1>5, <1>6, <1>7, <1>8, <1>9, HandedOn

LEMMA GatherCovered ==
    ASSUME IInv, SInv, NEW p \in Page, Gather(p)
    PROVE  SInv'
<1>1. /\ UNCHANGED <<mem, saved, client, behind, objects, doomed, known, writing, call>>
      /\ batch' = [batch EXCEPT ![p] = Over(@, queued[p])]
      /\ queued' = [queued EXCEPT ![p] = Empty]
    BY DEF Gather, dataVars
<1>2. /\ DOMAIN batch'[p] = DOMAIN batch[p] \cup DOMAIN queued[p]
      /\ \A c \in DOMAIN queued[p] : batch'[p][c] = queued[p][c]
      /\ \A c \in DOMAIN batch[p] \ DOMAIN queued[p] : batch'[p][c] = batch[p][c]
      /\ DOMAIN queued'[p] = {}
      /\ \A q \in Page \ {p} : batch'[q] = batch[q] /\ queued'[q] = queued[q]
    BY <1>1 DEF SInv, Stores, Over, Empty
<1>3. Stores'
    BY <1>1 DEF SInv, Stores
<1>4. \A q \in Page \ {p} : /\ Held(q)' = Held(q)
                            /\ Unsaved(q)' = Unsaved(q)
                            /\ \A c : Last(q, c)' = Last(q, c)
    BY <1>1, <1>2, SamePage
<1>5. Held(p)' = Held(p)
    BY <1>1, <1>2 DEF Held
<1>6. Unsaved(p)' = Unsaved(p)
    BY <1>1, <1>2 DEF Unsaved
<1>7. \A c \in Unsaved(p) : Last(p, c)' = Last(p, c)
    BY <1>1, <1>2 DEF Last, Carries
<1>8. NewApart'
    BY <1>1, <1>4, <1>5 DEF SInv, NewApart
<1>9. SameLock
    BY <1>1 DEF SameLock, Holds
<1> QED
    BY <1>1, <1>3, <1>4, <1>6, <1>7, <1>8, <1>9, HandedOn

LEMMA FireCovered ==
    ASSUME IInv, SInv, NEW p \in Page, Fire(p)
    PROVE  SInv'
<1>1. /\ UNCHANGED <<mem, saved, client, behind, objects, doomed, known, queued, call>>
      /\ writing' = [writing EXCEPT ![p] = batch[p]]
      /\ batch' = [batch EXCEPT ![p] = Empty]
      /\ writing[p] = Empty
    BY DEF Fire, Looping, dataVars
<1>2. /\ writing'[p] = batch[p]
      /\ DOMAIN writing[p] = {}
      /\ DOMAIN batch'[p] = {}
      /\ \A q \in Page \ {p} : batch'[q] = batch[q] /\ writing'[q] = writing[q]
    BY <1>1 DEF SInv, Stores, Empty
<1>3. Stores'
    BY <1>1 DEF SInv, Stores
<1>4. \A q \in Page \ {p} : /\ Held(q)' = Held(q)
                            /\ Unsaved(q)' = Unsaved(q)
                            /\ \A c : Last(q, c)' = Last(q, c)
    BY <1>1, <1>2, SamePage
<1>5. Held(p)' = Held(p)
    BY <1>1, <1>2 DEF Held
<1>6. Unsaved(p)' = Unsaved(p)
    BY <1>1, <1>2 DEF Unsaved
<1>7. \A c \in Unsaved(p) : Last(p, c)' = Last(p, c)
    BY <1>1, <1>2, UnsavedIs DEF Last, Carries, Held
<1>8. NewApart'
    BY <1>1, <1>4, <1>5 DEF SInv, NewApart
<1>9. SameLock
    BY <1>1 DEF SameLock, Holds
<1> QED
    BY <1>1, <1>3, <1>4, <1>6, <1>7, <1>8, <1>9, HandedOn

-----------------------------------------------------------------------------
(* Updates and ObjectUpdate write a cell c0: mem has the new value, if it matters. *)
LEMMA ChangeCovered ==
    ASSUME IInv, SInv, NEW p \in Page, NEW c0 \in known \cup Setting, NEW v \in Value,
           Begin(p, "enqueue", c0, v),
           Ready(p), Free,
           Settle(c0, Page \ {p}),
           UNCHANGED <<saved, client, objects, doomed, known, queued, batch, writing>>,
           mem' = [c \in Cell |-> mem'[c]],
           \A c \in Cell \ {c0} : mem'[c] = mem[c],
           c0 \in Kept => mem'[c0] = v
    PROVE  SInv'
<1>1. c0 \in Cell
    BY DEF IInv, Types, Cell
<1>2. /\ call' \in [Page -> Call]
      /\ call'[p] = [op |-> "enqueue", cell |-> c0, value |-> v]
      /\ \A q \in Page \ {p} : call'[q] = call[q]
    <2>1. "enqueue" \in Op
        BY DEF Op
    <2> QED
        BY <1>1, <2>1, Beginning DEF IInv, Types
<1>3. Kept' = Kept
    BY DEF Kept
<1>4. \A q \in Page \ {p} : /\ Held(q)' = Held(q)
                            /\ Unsaved(q)' = Unsaved(q)
                            /\ \A c : Last(q, c)' = Last(q, c)
    BY <1>2, SamePage
<1>5. Unsaved(p)' = Unsaved(p) \cup {c0} /\ call[p].op = "idle"
    BY <1>2 DEF Ready, Idle, Unsaved
<1>6. Stores'
    BY DEF SInv, Stores
<1>7. CarriedKnown'
    BY <1>4, <1>5 DEF SInv, CarriedKnown
<1>8. NewApart'
    BY <1>2, <1>4 DEF SInv, NewApart, Making
<1>9. SameLock
    BY <1>2, <1>5 DEF SameLock, Holds
<1>10. Free'
    BY <1>9, SameFree
<1>11. AllRight'
    <2> SUFFICES ASSUME NEW c \in Cell \ behind' PROVE Right(c)'
        BY DEF AllRight
    <2>1. CASE c = c0
        <3>1. ~Cleared(c0) /\ \A q \in Page \ {p} : c0 \notin Unsaved(q)
            BY <2>1 DEF Settle, Waiting, Cleared
        <3>2. Last(p, c0)' = v
            BY <1>2 DEF Last, Carries, Carrying
        <3>3. ~Cleared(c0)' /\ ~Leaving(c0)'
            BY <1>10, <3>1 DEF Cleared, Leaving
        <3>4. \A q \in Page : c0 \in Unsaved(q)' <=> q = p
            BY <1>4, <1>5, <3>1
        <3> QED
            BY <1>3, <2>1, <3>2, <3>3, <3>4 DEF Right
    <2>2. CASE c # c0
        <3>1. Right(c)
            BY <2>2 DEF Settle, SInv, AllRight
        <3>2. Last(p, c)' = Last(p, c)
            BY <1>2, <1>5, <2>2 DEF Last, Carries, Carrying
        <3> QED
            BY <1>3, <1>4, <1>5, <1>9, <2>2, <3>1, <3>2, SameCell
    <2> QED
        BY <2>1, <2>2
<1> QED
    BY <1>6, <1>7, <1>8, <1>11 DEF SInv

LEMMA RequestCovered ==
    ASSUME IInv, SInv, NEW p \in Page, Request(p)
    PROVE  SInv'
<1>1. CASE \E s \in Setting : \E w \in Names(s) \cap (known \cup {None, Theirs}) : Updates(p, s, w)
    <2>0. PICK s \in Setting : \E w \in Names(s) \cap (known \cup {None, Theirs}) : Updates(p, s, w)
        BY <1>1
    <2>1. PICK w \in known \cup {None, Theirs} : Updates(p, s, w)
        BY <2>0
    <2>2. w \in Value /\ s \in Cell
        BY DEF IInv, Types, Value, Cell
    <2>3. /\ mem' = [c \in Cell |-> mem'[c]]
          /\ \A c \in Cell \ {s} : mem'[c] = mem[c]
          /\ mem'[s] = w
        BY <2>1, <2>2 DEF Updates, SInv, Stores
    <2> QED
        BY <2>1, <2>2, <2>3, ChangeCovered DEF Updates, pageVars
<1>2. CASE \E o \in ObjectId : ObjectUpdate(p, o)
    <2>1. PICK o \in ObjectId : ObjectUpdate(p, o)
        BY <1>2
    <2>2. New \in Value /\ o \in known /\ o \in Cell
        BY <2>1, Counting DEF ObjectUpdate, IInv, Types, Cell
    <2>3. o \in Kept => o \in objects
        BY PersistAssumption DEF Kept, Setting
    <2>4. /\ mem' = [c \in Cell |-> mem'[c]]
          /\ \A c \in Cell \ {o} : mem'[c] = mem[c]
          /\ o \in Kept => mem'[o] = New
        BY <2>1, <2>2, <2>3 DEF ObjectUpdate, SInv, Stores
    <2> QED
        BY <2>1, <2>2, <2>4, ChangeCovered DEF ObjectUpdate, pageVars
<1>3. CASE \E o \in ObjectId : CreateObject(p, o)
    <2>1. PICK o \in ObjectId : CreateObject(p, o)
        BY <1>3
    <2>2. /\ call'[p] = [op |-> "create", cell |-> o, value |-> New]
          /\ \A q \in Page \ {p} : call'[q] = call[q]
          /\ call[p].op = "idle"
        <3>1. o \in Cell /\ "create" \in Op /\ New \in Value
            BY <2>1, Counting DEF Cell, Op, CreateObject, IInv, Types
        <3> QED
            BY <2>1, <3>1, Beginning DEF CreateObject, IInv, Types, Ready, Idle
    <2>3. o \notin Held(p)
        <3>1. o \notin known \cup Setting
            BY <2>1, PersistAssumption DEF CreateObject, Setting
        <3> QED
            BY <3>1, UnsavedIs DEF SInv, CarriedKnown
    <2>4. /\ UNCHANGED <<mem, saved, client, behind, queued, batch, writing, known>>
          /\ Kept' \subseteq Kept
        BY <2>1 DEF CreateObject, dataVars, pageVars, Kept
    <2> QED
        BY <2>2, <2>3, <2>4, Quiet DEF Carrying
<1>4. CASE \E o \in ObjectId : RemoveObject(p, o)
    <2>1. PICK o \in ObjectId : RemoveObject(p, o)
        BY <1>4
    <2>2. /\ call'[p].op \in {"unlink", "remove"}
          /\ \A q \in Page \ {p} : call'[q] = call[q]
          /\ call[p].op = "idle"
        <3> DEFINE op == IF linked = o THEN "unlink" ELSE "remove"
        <3>1. o \in Cell /\ op \in Op /\ None \in Value /\ op \in {"unlink", "remove"}
            BY DEF Cell, Op, Value
        <3>2. Begin(p, op, o, None)
            BY <2>1 DEF RemoveObject
        <3>3. call[p].op = "idle"
            BY <2>1 DEF RemoveObject, Ready, Idle
        <3> HIDE DEF op
        <3>4. /\ call'[p] = [op |-> op, cell |-> o, value |-> None]
              /\ \A q \in Page \ {p} : call'[q] = call[q]
            BY <3>1, <3>2, Beginning DEF IInv, Types
        <3> QED
            BY <3>1, <3>3, <3>4
    <2>3. /\ UNCHANGED <<mem, saved, client, behind, queued, batch, writing, known>>
          /\ Kept' \subseteq Kept
        BY <2>1 DEF RemoveObject, pageVars, Kept
    <2> QED
        BY <2>2, <2>3, Quiet DEF Carrying, Making
<1> QED
    BY <1>1, <1>2, <1>3, <1>4 DEF Request

-----------------------------------------------------------------------------
(* The rest of create_object and remove_object. *)

LEMMA InsertRowCovered ==
    ASSUME IInv, SInv, NEW p \in Page, InsertRow(p)
    PROVE  SInv'
<1>1. /\ call'[p].op = "insert"
      /\ call'[p].cell = call[p].cell
      /\ call[p].op = "create"
      /\ \A q \in Page \ {p} : call'[q] = call[q]
    BY Continuing DEF InsertRow, At, IInv, Types, Op
<1>2. call[p].cell \notin Held(p)
    BY <1>1 DEF SInv, NewApart, Making
<1>3. /\ UNCHANGED <<mem, saved, client, behind, queued, batch, writing, known>>
      /\ Kept' \subseteq Kept
    BY DEF InsertRow, pageVars, Kept
<1> QED
    BY <1>1, <1>2, <1>3, Quiet DEF Carrying

LEMMA InsertCovered ==
    ASSUME IInv, SInv, NEW p \in Page, Insert(p)
    PROVE  SInv'
<1> DEFINE o == call[p].cell
<1>1. /\ UNCHANGED <<saved, client, behind, doomed, queued, batch, writing>>
      /\ objects' = objects \cup {o}
      /\ known' = known \cup {o}
      /\ mem' = [mem EXCEPT ![o] = call[p].value]
      /\ call[p].op = "insert"
    BY DEF Insert, At, pageVars
<1>2. /\ call' \in [Page -> Call]
      /\ call'[p].op = "save"
      /\ call'[p].cell = o
      /\ call'[p].value = call[p].value
      /\ \A q \in Page \ {p} : call'[q] = call[q]
    <2>1. call \in [Page -> Call] /\ "save" \in Op /\ Continue(p, "save")
        BY DEF Insert, IInv, Types, Op
    <2>2. call'[p].value = call[p].value
        BY <2>1 DEF Continue, Call
    <2> QED
        BY <2>1, <2>2, Continuing
<1>3. o \in ObjectId /\ o \notin known \cup Setting /\ o \in Cell
    BY <1>1, PersistAssumption DEF IInv, Types, MakingSound, Setting, Cell
<1>4. \A q \in Page : o \notin Unsaved(q)
    BY <1>3 DEF SInv, CarriedKnown
<1>5. \A q \in Page \ {p} : /\ Held(q)' = Held(q)
                            /\ Unsaved(q)' = Unsaved(q)
                            /\ \A c : Last(q, c)' = Last(q, c)
    BY <1>1, <1>2, SamePage
<1>6. Held(p)' = Held(p) /\ Unsaved(p)' = Unsaved(p) \cup {o}
    BY <1>1, <1>2 DEF Held, Unsaved
<1>7. Stores'
    BY <1>1 DEF SInv, Stores
<1>8. CarriedKnown'
    BY <1>1, <1>5, <1>6 DEF SInv, CarriedKnown
<1>9. NewApart'
    BY <1>1, <1>2, <1>5, <1>6 DEF SInv, NewApart, Making
<1>11. SameLock
    BY <1>1, <1>2 DEF SameLock, Holds
<1>10. AllRight'
    <2> SUFFICES ASSUME NEW c \in Cell \ behind' PROVE Right(c)'
        BY DEF AllRight
    <2>1. CASE c = o
        <3>1. mem'[o] = call[p].value
            BY <1>1, <1>3 DEF SInv, Stores
        <3>2. Last(p, c)' = call[p].value
            BY <1>2, <2>1 DEF Last, Carries, Carrying
        <3>3. \A q \in Page : c \in Unsaved(q)' <=> q = p
            BY <1>4, <1>5, <1>6, <2>1
        <3>4. \A q \in Page : c \in Unsaved(q)' => Last(q, c)' = mem'[c]
            BY <2>1, <3>1, <3>2, <3>3
        <3>5. ~Cleared(c)' /\ ~Leaving(c)'
            BY <1>3, <2>1 DEF Cleared, Leaving, Setting
        <3> QED
            BY <3>3, <3>4, <3>5 DEF Right
    <2>2. CASE c # o
        <3>1. Right(c)
            BY <1>1 DEF SInv, AllRight
        <3>2. Last(p, c)' = Last(p, c)
            BY <1>1, <1>2, <2>2 DEF Last, Carries, Carrying
        <3>3. mem'[c] = mem[c]
            BY <1>1, <2>2 DEF SInv, Stores
        <3>4. c \in Kept' => c \in Kept
            BY <1>1, <2>2 DEF Kept
        <3> QED
            BY <1>1, <1>5, <1>6, <1>11, <2>2, <3>1, <3>2, <3>3, <3>4, SameCell
    <2> QED
        BY <2>1, <2>2
<1> QED
    BY <1>7, <1>8, <1>9, <1>10 DEF SInv

LEMMA SaveNewCovered ==
    ASSUME IInv, SInv, NEW p \in Page, SaveNew(p)
    PROVE  SInv'
<1> DEFINE o == call[p].cell
<1>1. /\ UNCHANGED <<mem, client, behind, objects, doomed, known, queued, batch, writing>>
      /\ saved' = [saved EXCEPT ![o] = call[p].value]
      /\ call[p].op = "save"
    BY DEF SaveNew, At, pageVars
<1>2. /\ call' \in [Page -> Call]
      /\ call'[p].op = "idle"
      /\ \A q \in Page \ {p} : call'[q] = call[q]
    BY Returning DEF SaveNew, IInv, Types
<1>3. o \in Unsaved(p) /\ o \notin Held(p) /\ Last(p, o) = call[p].value
    BY <1>1 DEF Unsaved, SInv, NewApart, Last, Carries, Carrying
<1>4. \A q \in Page \ {p} : /\ Held(q)' = Held(q)
                            /\ Unsaved(q)' = Unsaved(q)
                            /\ \A c : Last(q, c)' = Last(q, c)
    BY <1>1, <1>2, SamePage
<1>5. Held(p)' = Held(p) /\ Unsaved(p)' = Unsaved(p) \ {o}
    BY <1>1, <1>2, <1>3 DEF Held, Unsaved
<1>6. Stores'
    BY <1>1 DEF SInv, Stores
<1>7. CarriedKnown'
    BY <1>1, <1>4, <1>5 DEF SInv, CarriedKnown
<1>8. NewApart'
    BY <1>1, <1>2, <1>4 DEF SInv, NewApart, Making
<1>9. Kept' = Kept
    BY <1>1 DEF Kept
<1>11. SameLock
    BY <1>1, <1>2 DEF SameLock, Holds
<1>12. Free' = Free
    BY <1>11, SameFree
<1>10. AllRight'
    <2> SUFFICES ASSUME NEW c \in Cell \ behind' PROVE Right(c)'
        BY DEF AllRight
    <2>1. Right(c)
        BY <1>1 DEF SInv, AllRight
    <2>2. CASE c = o
        <3>1. saved'[o] = call[p].value
            BY <1>1, <2>2 DEF SInv, Stores
        <3>2. \A q \in Page \ {p} : o \notin Unsaved(q)
            BY <1>3, <2>1, <2>2 DEF Right
        <3>3. o \in Kept => mem[o] = call[p].value
            BY <1>3, <2>1, <2>2 DEF Right
        <3>4. ~Cleared(c)' /\ ~Leaving(c)'
            BY <1>1, <1>3, <1>12, <2>1, <2>2 DEF Right, Cleared, Leaving
        <3>5. \A q \in Page : c \notin Unsaved(q)'
            BY <1>4, <1>5, <2>2, <3>2
        <3> QED
            BY <1>1, <1>9, <2>2, <3>1, <3>3, <3>4, <3>5 DEF Right
    <2>3. CASE c # o
        <3>1. Last(p, c)' = Last(p, c)
            BY <1>1, <1>2, <2>3 DEF Last, Carries, Carrying
        <3>2. saved'[c] = saved[c]
            BY <1>1, <2>3 DEF SInv, Stores
        <3> QED
            BY <1>1, <1>4, <1>5, <1>9, <1>11, <2>1, <2>3, <3>1, <3>2, SameCell
    <2> QED
        BY <2>2, <2>3
<1> QED
    BY <1>6, <1>7, <1>8, <1>10 DEF SInv

LEMMA UnlinkDeleteCovered ==
    ASSUME IInv, SInv, NEW p \in Page, Unlink(p) \/ DeleteRow(p)
    PROVE  SInv'
<1>1. /\ call'[p].op \in {"unlink", "remove", "forget"}
      /\ call[p].op \in {"unlink", "remove", "forget"}
      /\ \A q \in Page \ {p} : call'[q] = call[q]
    BY Continuing DEF Unlink, DeleteRow, At, IInv, Types, Op
<1>2. /\ UNCHANGED <<mem, saved, client, behind, queued, batch, writing, known>>
      /\ Kept' \subseteq Kept
    BY DEF Unlink, DeleteRow, pageVars, Kept
<1> QED
    BY <1>1, <1>2, Quiet DEF Carrying, Making

LEMMA ForgetCovered ==
    ASSUME IInv, SInv, NEW p \in Page, Forget(p)
    PROVE  SInv'
<1> DEFINE o == call[p].cell
<1>1. /\ UNCHANGED <<saved, client, behind, doomed, known, queued, batch, writing>>
      /\ objects' = objects \ {o}
      /\ mem' = [mem EXCEPT ![o] = None]
      /\ call[p].op = "forget"
    BY DEF Forget, At, pageVars
<1>2. /\ call' \in [Page -> Call]
      /\ call'[p].op = "idle"
      /\ \A q \in Page \ {p} : call'[q] = call[q]
    BY Returning DEF Forget, IInv, Types
<1>3. o \in doomed /\ o \in ObjectId
    BY <1>1 DEF IInv, Types, RemovingSound, Removing
<1>4. \A q \in Page : /\ Held(q)' = Held(q)
                      /\ Unsaved(q)' = Unsaved(q)
                      /\ \A c : Last(q, c)' = Last(q, c)
    BY <1>1, <1>2, SamePage DEF Carrying
<1>5. Stores'
    BY <1>1 DEF SInv, Stores
<1>6. CarriedKnown'
    BY <1>1, <1>4 DEF SInv, CarriedKnown
<1>7. NewApart'
    BY <1>1, <1>2, <1>4 DEF SInv, NewApart, Making
<1>8. Kept' \subseteq Kept /\ o \notin Kept'
    BY <1>1, <1>3, PersistAssumption DEF Kept, Setting
<1>9. SameLock
    BY <1>1, <1>2 DEF SameLock, Holds
<1>10. AllRight'
    <2> SUFFICES ASSUME NEW c \in Cell \ behind' PROVE Right(c)'
        BY DEF AllRight
    <2>1. Right(c)
        BY <1>1 DEF SInv, AllRight
    <2>2. c # o => mem'[c] = mem[c]
        BY <1>1 DEF SInv, Stores
    <2> QED
        BY <1>1, <1>4, <1>8, <1>9, <2>1, <2>2, SameCell
<1> QED
    BY <1>5, <1>6, <1>7, <1>10 DEF SInv

(* The steps at which client_state is held: what page p does to ROOM. *)
LEMMA LeavingCovered ==
    ASSUME IInv, SInv, NEW p \in Page, Leave(p) \/ RemoveProperty(p) \/ ForgetRoom(p)
    PROVE  SInv'
<1> DEFINE o == call[p].cell
<1>1. /\ UNCHANGED <<client, doomed, known, queued, batch, writing>>
      /\ objects' \subseteq objects
      /\ call[p].op \in Forgetting
    BY DEF Leave, RemoveProperty, ForgetRoom, At, Forgetting, pageVars, dataVars
<1>2. /\ call'[p].op \in {"leave", "left", "idle"}
      /\ \A q \in Page \ {p} : call'[q] = call[q]
    BY Continuing, Returning DEF Leave, RemoveProperty, ForgetRoom, IInv, Types, Op
<1>3. o \in doomed /\ o \in ObjectId
    BY <1>1 DEF IInv, Types, RemovingSound, Removing, Forgetting
<1>4. \A q \in Page : /\ Held(q)' = Held(q)
                      /\ Unsaved(q)' = Unsaved(q)
                      /\ \A c : Last(q, c)' = Last(q, c)
    BY <1>1, <1>2, SamePage DEF Carrying, Forgetting
<1>5. Stores'
    BY <1>1 DEF Leave, RemoveProperty, ForgetRoom, SInv, Stores, dataVars
<1>6. CarriedKnown'
    BY <1>1, <1>4 DEF SInv, CarriedKnown
<1>7. NewApart'
    BY <1>2, <1>4 DEF SInv, NewApart, Making
<1>8. Kept' \subseteq Kept /\ "room" \in Kept
    BY <1>1 DEF Kept, Setting
<1>9. ASSUME NEW c \in Cell \ behind', c # "room" PROVE Right(c)'
    <2>1. Right(c)
        BY <1>9 DEF SInv, AllRight, Leave, RemoveProperty, ForgetRoom, Settle
    <2>2. c \in Kept' => mem'[c] = mem[c] /\ saved'[c] = saved[c]
        <3>1. CASE Leave(p)
            BY <3>1 DEF Leave, dataVars
        <3>2. CASE RemoveProperty(p)
            BY <1>9, <3>2 DEF RemoveProperty, SInv, Stores
        <3>3. CASE ForgetRoom(p)
            <4>1. c \in Kept' => c # o
                BY <1>1, <1>3, PersistAssumption DEF Kept, Setting
            <4> QED
                BY <1>9, <3>3, <4>1 DEF ForgetRoom, SInv, Stores
        <3> QED
            BY <3>1, <3>2, <3>3
    <2> QED
        BY <1>4, <1>8, <1>9, <2>1, <2>2, SameCell
<1>10. ASSUME "room" \notin behind' PROVE Right("room")'
    <2>1. CASE Leave(p)
        <3>1. ~Cleared("room") /\ (\A q \in Page : "room" \notin Unsaved(q))
            BY <1>10, <2>1 DEF Leave, Settle, Waiting, Cleared
        <3>2. call'[p].op = "leave" /\ Holds(p)'
            BY <2>1, Continuing DEF Leave, IInv, Types, Op, Holds
        <3>3. \A q \in Page : call'[q].op # "left"
            BY <1>2, <2>1, <3>2 DEF Leave, Free, Holds
        <3>4. Leaving("room")' /\ ~Cleared("room")'
            BY <1>1, <3>1, <3>2 DEF Leaving, Free, Cleared
        <3> QED
            BY <1>4, <3>1, <3>3, <3>4 DEF Right
    <2>2. CASE RemoveProperty(p)
        <3>1. Right("room")
            BY <1>10, <2>2 DEF RemoveProperty, SInv, AllRight, Cell, Setting
        <3>2. call'[p].op = "left" /\ Holds(p)' /\ Holds(p)
            BY <2>2, Continuing DEF RemoveProperty, At, IInv, Types, Op, Holds
        <3>3. saved'["room"] = None
            BY <2>2 DEF RemoveProperty, SInv, Stores, Cell, Setting
        <3>4. Leaving("room") /\ Leaving("room")' /\ Cleared("room")' = Cleared("room")
            BY <1>1, <3>2 DEF Leaving, Free, Cleared
        <3> QED
            BY <1>4, <3>1, <3>3, <3>4 DEF Right
    <2>3. CASE ForgetRoom(p)
        <3>1. Right("room")
            BY <1>10, <2>3 DEF ForgetRoom, SInv, AllRight, Cell, Setting
        <3>2. call[p].op = "left" /\ Holds(p) /\ call'[p].op = "idle"
            BY <2>3, Returning DEF ForgetRoom, At, IInv, Types, Holds
        <3>3. Leaving("room") /\ Cleared("room")' = Cleared("room")
            BY <1>1, <3>2 DEF Leaving, Free, Cleared
        <3>4. saved["room"] = None /\ saved' = saved
            BY <2>3, <3>1, <3>2, <3>3 DEF Right, ForgetRoom
        <3>5. mem'["room"] = None
            BY <2>3 DEF ForgetRoom, SInv, Stores, Cell, Setting
        <3> QED
            BY <1>4, <3>1, <3>3, <3>4, <3>5 DEF Right
    <2> QED
        BY <2>1, <2>2, <2>3
<1>11. AllRight'
    BY <1>9, <1>10 DEF AllRight
<1> QED
    BY <1>5, <1>6, <1>7, <1>11 DEF SInv

(* The remote client clears ROOM and saves that. *)
LEMMA ClientCovered ==
    ASSUME IInv, SInv, Client
    PROVE  SInv'
<1>1. UNCHANGED <<objects, doomed, known, queued, batch, writing, call>>
    BY DEF Client, ClientHears, ClientClears, ClientSaves, ClientEnds, dataVars, pageVars
<1>2. \A q \in Page : /\ Held(q)' = Held(q)
                      /\ Unsaved(q)' = Unsaved(q)
                      /\ \A c : Last(q, c)' = Last(q, c)
    BY <1>1, SamePage
<1>3. Stores'
    BY <1>1 DEF Client, ClientHears, ClientClears, ClientSaves, ClientEnds, SInv, Stores, dataVars
<1>4. CarriedKnown' /\ NewApart'
    BY <1>1, <1>2 DEF SInv, CarriedKnown, NewApart
<1>5. Kept' = Kept /\ "room" \in Kept
    BY <1>1 DEF Kept, Setting
<1>6. SameLock /\ Free' = Free
    BY <1>1 DEF SameLock, Free, Holds
<1>7. ASSUME NEW c \in Cell \ behind', c # "room" PROVE Right(c)'
    <2>1. Right(c)
        BY <1>7 DEF SInv, AllRight, Client, ClientHears, ClientClears, ClientSaves, ClientEnds, Settle
    <2>2. mem'[c] = mem[c] /\ saved'[c] = saved[c]
        BY <1>7 DEF Client, ClientHears, ClientClears, ClientSaves, ClientEnds, SInv, Stores, dataVars
    <2> QED
        BY <1>2, <1>5, <1>7, <2>1, <2>2, SameCell
<1>8. ASSUME "room" \notin behind' PROVE Right("room")'
    <2>1. CASE ClientHears \/ ClientEnds
        <3>1. Right("room") /\ ~Cleared("room") /\ ~Cleared("room")'
            BY <1>8, <2>1 DEF ClientHears, ClientEnds, Cleared, SInv, AllRight, Cell, Setting
        <3>2. UNCHANGED <<mem, saved>> /\ Leaving("room")' = Leaving("room")
            BY <1>6, <2>1 DEF ClientHears, ClientEnds, Leaving, dataVars
        <3> QED
            BY <1>1, <1>2, <1>5, <3>1, <3>2 DEF Right
    <2>2. CASE ClientClears
        <3>1. \A q \in Page : "room" \notin Unsaved(q)
            BY <1>8, <2>2 DEF ClientClears, Settle, Waiting
        <3>2. Cleared("room")' /\ ~Leaving("room")'
            BY <1>6, <2>2 DEF ClientClears, Cleared, Leaving
        <3>3. mem'["room"] = None
            BY <2>2 DEF ClientClears, SInv, Stores, Cell, Setting
        <3> QED
            BY <1>2, <3>1, <3>2, <3>3 DEF Right
    <2>3. CASE ClientSaves
        <3>1. Right("room") /\ Cleared("room")
            BY <1>8, <2>3 DEF ClientSaves, Cleared, SInv, AllRight, Cell, Setting
        <3>2. \A q \in Page : "room" \notin Unsaved(q)
            BY <3>1 DEF Right
        <3>3. ~Leaving("room")' /\ ~Cleared("room")'
            BY <1>6, <2>3, <3>1 DEF Right, ClientSaves, Cleared, Leaving
        <3>4. saved'["room"] = None /\ mem'["room"] = None
            BY <2>3, <3>1 DEF Right, ClientSaves, SInv, Stores, Cell, Setting
        <3> QED
            BY <1>2, <3>2, <3>3, <3>4 DEF Right
    <2> QED
        BY <2>1, <2>2, <2>3 DEF Client
<1>9. AllRight'
    BY <1>7, <1>8 DEF AllRight
<1> QED
    BY <1>3, <1>4, <1>9 DEF SInv

-----------------------------------------------------------------------------
(* Writes, and what ends. *)

LEMMA SetPropertiesCovered ==
    ASSUME IInv, SInv, NEW p \in Page, SetProperties(p)
    PROVE  SInv'
<1> DEFINE w == writing[p]
<1>1. /\ UNCHANGED <<mem, client, behind, objects, doomed, known, queued, batch, call>>
      /\ saved' = Over(saved, w)
      /\ writing' = [writing EXCEPT ![p] = Empty]
    BY DEF SetProperties
<1>2. DOMAIN w \subseteq Cell
    BY DEF SInv, CarriedKnown, Unsaved, IInv, Types, Cell
<1>3. /\ saved' = [c \in Cell |-> saved'[c]]
      /\ \A c \in DOMAIN w : saved'[c] = w[c]
      /\ \A c \in Cell \ DOMAIN w : saved'[c] = saved[c]
    BY <1>1, <1>2 DEF SInv, Stores, Over
<1>4. /\ DOMAIN writing'[p] = {}
      /\ \A q \in Page \ {p} : writing'[q] = writing[q]
    BY <1>1 DEF SInv, Stores, Empty
<1>5. \A q \in Page \ {p} : /\ Held(q)' = Held(q)
                            /\ Unsaved(q)' = Unsaved(q)
                            /\ \A c : Last(q, c)' = Last(q, c)
    BY <1>1, <1>4, SamePage
<1>6. /\ Held(p)' \subseteq Held(p)
      /\ Unsaved(p)' \subseteq Unsaved(p)
      /\ Unsaved(p) \ DOMAIN w \subseteq Unsaved(p)'
    BY <1>1, <1>4 DEF Held, Unsaved
<1>7. \A c \in Unsaved(p)' : Last(p, c)' = Last(p, c)
    BY <1>1, <1>4 DEF Unsaved, Last, Carries, Carrying
<1>8. \A c \in DOMAIN w \ Unsaved(p)' : Last(p, c) = w[c] /\ c \in Unsaved(p)
    BY <1>1, <1>4 DEF Unsaved, Last, Carries, Carrying
<1>9. Stores'
    BY <1>1, <1>3 DEF SInv, Stores
<1>10. CarriedKnown'
    BY <1>1, <1>5, <1>6 DEF SInv, CarriedKnown
<1>11. NewApart'
    BY <1>1, <1>5, <1>6 DEF SInv, NewApart
<1>12. Kept' = Kept
    BY <1>1 DEF Kept
<1>14. SameLock /\ Free' = Free
    BY <1>1 DEF SameLock, Free, Holds
<1>15. \A c : Cleared(c)' = Cleared(c) /\ Leaving(c)' = Leaving(c)
    BY <1>1, <1>14 DEF Cleared, Leaving
<1>13. AllRight'
    <2> SUFFICES ASSUME NEW c \in Cell \ behind' PROVE Right(c)'
        BY DEF AllRight
    <2> HIDE DEF w
    <2>1. Right(c)
        BY <1>1 DEF SInv, AllRight
    <2>2. CASE c \notin DOMAIN w
        BY <1>1, <1>3, <1>5, <1>6, <1>7, <1>12, <1>14, <2>1, <2>2, SameCell
    <2>3. CASE c \in DOMAIN w /\ c \in Unsaved(p)'
        <3>1. \A q \in Page : c \in Unsaved(q)' <=> q = p
            BY <1>5, <1>6, <2>1, <2>3 DEF Right
        <3>2. c \in Kept => Last(p, c)' = mem'[c]
            BY <1>1, <1>6, <1>7, <2>1, <2>3 DEF Right
        <3>3. ~Cleared(c)' /\ ~Leaving(c)'
            BY <1>6, <1>15, <2>1, <2>3 DEF Right
        <3> QED
            BY <1>12, <3>1, <3>2, <3>3 DEF Right
    <2>4. CASE c \in DOMAIN w /\ c \notin Unsaved(p)'
        <3>1. \A q \in Page : c \notin Unsaved(q)'
            BY <1>5, <1>8, <2>1, <2>4 DEF Right
        <3>2. c \in Kept => saved'[c] = mem'[c]
            BY <1>1, <1>3, <1>8, <2>1, <2>4 DEF Right
        <3>3. ~Cleared(c)' /\ ~Leaving(c)'
            BY <1>8, <1>15, <2>1, <2>4 DEF Right
        <3> QED
            BY <1>12, <3>1, <3>2, <3>3 DEF Right
    <2> QED
        BY <2>2, <2>3, <2>4
<1> QED
    BY <1>9, <1>10, <1>11, <1>13 DEF SInv

(* What a connection that ends had to write is behind, or was written. *)
LEMMA EndCovered ==
    ASSUME IInv, SInv, NEW p \in Page, End(p),
           UNCHANGED <<mem, client, objects, doomed, known>>,
           saved' = [c \in Cell |-> saved'[c]],
           \A c \in Cell \ Unsaved(p) : saved'[c] = saved[c]
    PROVE  SInv'
<1>1. /\ behind' = behind \cup Unsaved(p) \cup Lost(p)
      /\ queued' = [queued EXCEPT ![p] = Empty]
      /\ batch' = [batch EXCEPT ![p] = Empty]
      /\ writing' = [writing EXCEPT ![p] = Empty]
    BY DEF End
<1>2. /\ call' \in [Page -> Call]
      /\ call'[p].op = "idle"
      /\ \A q \in Page \ {p} : call'[q] = call[q]
    BY Returning DEF End, IInv, Types
<1>3. \A q \in Page \ {p} :
        queued'[q] = queued[q] /\ batch'[q] = batch[q] /\ writing'[q] = writing[q]
    BY <1>1 DEF SInv, Stores
<1>4. \A q \in Page \ {p} : /\ Held(q)' = Held(q)
                            /\ Unsaved(q)' = Unsaved(q)
                            /\ \A c : Last(q, c)' = Last(q, c)
    BY <1>2, <1>3, SamePage
<1>5. Unsaved(p)' = {}
    <2>1. queued'[p] = Empty /\ batch'[p] = Empty /\ writing'[p] = Empty
        BY <1>1 DEF SInv, Stores
    <2> QED
        BY <1>2, <2>1 DEF Unsaved, Empty
<1>6. Stores'
    BY <1>1 DEF SInv, Stores
<1>7. CarriedKnown'
    BY <1>4, <1>5 DEF SInv, CarriedKnown
<1>8. NewApart'
    BY <1>2, <1>4 DEF SInv, NewApart, Making
<1>9. Kept' = Kept
    BY DEF Kept
<1>10. AllRight'
    <2> SUFFICES ASSUME NEW c \in Cell \ behind' PROVE Right(c)'
        BY DEF AllRight
    <2>1. Right(c) /\ c \notin Unsaved(p)
        BY <1>1 DEF SInv, AllRight
    <2>2. c = "room" => ~Holds(p)
        BY <1>1 DEF Lost, Holds
    <2>3. c = "room" => SameLock
        BY <1>2, <2>2 DEF SameLock, Holds
    <2> QED
        BY <1>4, <1>5, <1>9, <2>1, <2>3, SameCell
<1> QED
    BY <1>6, <1>7, <1>8, <1>10 DEF SInv

LEMMA CloseCovered ==
    ASSUME IInv, SInv, NEW p \in Page, Close(p)
    PROVE  SInv'
<1>1. saved' = [c \in Cell |-> saved'[c]]
    BY DEF Close, dataVars, SInv, Stores
<1> QED
    BY <1>1, EndCovered DEF Close, dataVars

LEMMA SetSomeCovered ==
    ASSUME IInv, SInv, NEW p \in Page, SetSome(p)
    PROVE  SInv'
<1>1. PICK done \in SUBSET DOMAIN writing[p] : saved' = Over(saved, Restrict(writing[p], done))
    BY DEF SetSome
<1>2. done \subseteq Unsaved(p) /\ done \subseteq Cell
    BY DEF SInv, CarriedKnown, Unsaved, IInv, Types, Cell
<1>3. /\ saved' = [c \in Cell |-> saved'[c]]
      /\ \A c \in Cell \ Unsaved(p) : saved'[c] = saved[c]
    BY <1>1, <1>2 DEF SInv, Stores, Over, Restrict
<1> QED
    BY <1>3, EndCovered DEF SetSome

LEMMA FailCovered ==
    ASSUME IInv, SInv, NEW p \in Page, Fail(p)
    PROVE  SInv'
<1> DEFINE o == call[p].cell
<1>1. /\ UNCHANGED <<mem, saved, client, objects, doomed, known, queued, batch, writing>>
      /\ behind' = behind \cup Lost(p)
      /\ call[p].op \in {"create", "save", "remove", "leave"}
    BY DEF Fail, At, dataVars, pageVars
<1>2. /\ call' \in [Page -> Call]
      /\ call'[p].op = "idle"
      /\ \A q \in Page \ {p} : call'[q] = call[q]
    BY Returning DEF Fail, IInv, Types
<1>3. \A q \in Page \ {p} : /\ Held(q)' = Held(q)
                            /\ Unsaved(q)' = Unsaved(q)
                            /\ \A c : Last(q, c)' = Last(q, c)
    BY <1>1, <1>2, SamePage
<1>4. /\ Unsaved(p)' \subseteq Unsaved(p)
      /\ \A c \in Unsaved(p) \ Unsaved(p)' : c = o /\ call[p].op = "save"
    BY <1>1, <1>2 DEF Unsaved
<1>5. Stores'
    BY <1>1 DEF SInv, Stores
<1>6. CarriedKnown'
    BY <1>1, <1>3, <1>4 DEF SInv, CarriedKnown
<1>7. NewApart'
    BY <1>1, <1>2, <1>3 DEF SInv, NewApart, Making
<1>8. Kept' = Kept
    BY <1>1 DEF Kept
<1>9. AllRight'
    <2> SUFFICES ASSUME NEW c \in Cell \ behind' PROVE Right(c)'
        BY DEF AllRight
    <2>1. Right(c)
        BY <1>1 DEF SInv, AllRight
    <2>2. call[p].op = "save" => c # o
        BY <1>1 DEF Lost
    <2>3. c \in Unsaved(p)' <=> c \in Unsaved(p)
        BY <1>4, <2>2
    <2>4. Last(p, c)' = Last(p, c)
        BY <1>1, <1>2, <2>2 DEF Last, Carries, Carrying
    <2>5. c = "room" => ~Holds(p)
        BY <1>1 DEF Lost, Holds
    <2>6. c = "room" => SameLock
        BY <1>2, <2>5 DEF SameLock, Holds
    <2> QED
        BY <1>1, <1>3, <1>8, <2>1, <2>3, <2>4, <2>6, SameCell
<1> QED
    BY <1>5, <1>6, <1>7, <1>9 DEF SInv

LEMMA CrashCovered ==
    ASSUME IInv, SInv, Crash
    PROVE  SInv'
<1>1. /\ mem' = [c \in Cell |-> IF c \in rows \cup Setting THEN saved'[c] ELSE None]
      /\ objects' = rows
      /\ call' = [p \in Page |-> Idle]
      /\ queued' = [p \in Page |-> Empty]
      /\ batch' = [p \in Page |-> Empty]
      /\ writing' = [p \in Page |-> Empty]
    BY DEF Crash
<1>2. saved' = [c \in Cell |-> saved'[c]]
    <2>1. PICK p \in Page : \E done \in SUBSET DOMAIN writing[p] :
            saved' = Over(saved, Restrict(writing[p], done))
        BY DEF Crash
    <2>2. PICK done \in SUBSET DOMAIN writing[p] :
            saved' = Over(saved, Restrict(writing[p], done))
        BY <2>1
    <2>3. done \subseteq Cell
        BY DEF SInv, CarriedKnown, Unsaved, IInv, Types, Cell
    <2> QED
        BY <2>2, <2>3 DEF SInv, Stores, Over, Restrict
<1>3. \A p \in Page : Unsaved(p)' = {} /\ Held(p)' = {}
    BY <1>1 DEF Unsaved, Held, Idle, Empty
<1>4. Stores'
    BY <1>1, <1>2 DEF Stores
<1>5. CarriedKnown' /\ NewApart'
    BY <1>3 DEF CarriedKnown, NewApart
<1>6. \A c : ~Cleared(c)' /\ ~Leaving(c)'
    BY DEF Crash, Cleared, Leaving, Free, Holds, Idle
<1>7. \A c \in Kept' : mem'[c] = saved'[c]
    BY <1>1 DEF Kept, Cell, IInv, Types
<1>8. AllRight'
    BY <1>3, <1>6, <1>7 DEF AllRight, Right
<1> QED
    BY <1>4, <1>5, <1>8 DEF SInv

-----------------------------------------------------------------------------
LEMMA StartsCovered == Init => SInv
<1> SUFFICES ASSUME Init PROVE SInv
    OBVIOUS
<1>1. \A p \in Page : Unsaved(p) = {} /\ Held(p) = {}
    BY DEF Init, Unsaved, Held, Idle, Empty
<1>2. Stores
    BY DEF Init, Stores
<1>3. CarriedKnown /\ NewApart
    BY <1>1 DEF CarriedKnown, NewApart
<1>4. \A c : ~Cleared(c) /\ ~Leaving(c)
    BY DEF Init, Cleared, Leaving, Free, Holds, Idle
<1>5. AllRight
    BY <1>1, <1>4 DEF AllRight, Right, Init
<1> QED
    BY <1>2, <1>3, <1>5 DEF SInv

LEMMA StepsCovered == IInv /\ SInv /\ [Next]_vars => SInv'
<1> SUFFICES ASSUME IInv, SInv, [Next]_vars PROVE SInv'
    OBVIOUS
<1>1. CASE \E p \in Page : Request(p)
    BY <1>1, RequestCovered
<1>2. CASE \E p \in Page : Work(p)
    <2>1. PICK p \in Page : Work(p)
        BY <1>2
    <2>2. CASE Enqueue(p) \/ Gather(p) \/ Fire(p) \/ SetProperties(p)
        BY <2>2, EnqueueCovered, GatherCovered, FireCovered, SetPropertiesCovered
    <2>3. CASE InsertRow(p) \/ Insert(p) \/ SaveNew(p)
        BY <2>3, InsertRowCovered, InsertCovered, SaveNewCovered
    <2>4. CASE Unlink(p) \/ DeleteRow(p) \/ Forget(p)
        BY <2>4, UnlinkDeleteCovered, ForgetCovered
    <2>5. CASE Leave(p) \/ RemoveProperty(p) \/ ForgetRoom(p)
        BY <2>5, LeavingCovered
    <2> QED
        BY <2>1, <2>2, <2>3, <2>4, <2>5 DEF Work
<1>3. CASE \E p \in Page : Close(p) \/ Fail(p) \/ SetSome(p)
    BY <1>3, CloseCovered, FailCovered, SetSomeCovered
<1>4. CASE Crash
    BY <1>4, CrashCovered
<1>5. CASE UNCHANGED vars
    <2>1. UNCHANGED <<mem, saved, client, behind, queued, batch, writing, known, objects, doomed, call>>
        BY <1>5 DEF vars, dataVars, pageVars
    <2> QED
        BY <2>1, Quiet DEF Kept
<1>6. CASE Client
    BY <1>6, ClientCovered
<1> QED
    BY <1>1, <1>2, <1>3, <1>4, <1>5, <1>6 DEF Next

LEMMA CoveredFollows == IInv /\ SInv => Covered
<1> SUFFICES ASSUME IInv, SInv PROVE Covered
    OBVIOUS
<1> SUFFICES ASSUME NEW c \in Kept \ behind,
                    saved[c] # mem[c], ~Leaving(c), ~Cleared(c)
             PROVE  \E p \in Page : mem[c] \in Pending(p, c)
    <2>1. ASSUME NEW c \in Kept \ behind, Cleared(c) PROVE mem[c] = None
        <3>1. c \in Cell
            BY DEF Kept, Cell, IInv, Types
        <3> QED
            BY <2>1, <3>1 DEF SInv, AllRight, Right
    <2> QED
        BY <2>1 DEF Covered, Kept, OnItsWay, Leaving, Cleared
<1>1. c \in Cell
    BY DEF Kept, Cell, IInv, Types
<1>2. PICK p \in Page : c \in Unsaved(p)
    BY <1>1 DEF SInv, AllRight, Right
<1>3. Last(p, c) = mem[c]
    BY <1>1, <1>2 DEF SInv, AllRight, Right
<1>4. Last(p, c) \in Pending(p, c)
    BY <1>2 DEF Last, Carries, Carrying, Pending, Unsaved
<1> QED
    BY <1>3, <1>4

(* The debounced writes of ws.rs: the last value of a cell that is not behind is in
   the database, or some connection is going to write it. *)
THEOREM LastValuesAreCovered == Spec => []Covered
<1>1. Init => SInv
    BY StartsCovered
<1>2. IInv /\ SInv /\ [Next]_vars => SInv'
    BY StepsCovered
<1>3. IInv /\ SInv => Covered
    BY CoveredFollows
<1> QED
    BY <1>1, <1>2, <1>3, Invariance, PTL DEF Spec

-----------------------------------------------------------------------------
(* What a cell may hold after n changes: a setting an id, an object the number of
   the change. The cells of a queue are of those, and so is a value on its way there. *)
Kinds(c, n) == IF c \in Setting THEN Names(c) ELSE (1..n) \cup {None}

Store(f, n) ==
    /\ f = [c \in DOMAIN f |-> f[c]]
    /\ DOMAIN f \subseteq Cell
    /\ \A c \in DOMAIN f : f[c] \in Kinds(c, n)

Table(f, n) == Store(f, n) /\ DOMAIN f = Cell

RequestFits(r, n) ==
    /\ r = Idle \/ (r.cell \in Cell /\ r.value \in Kinds(r.cell, n))
    /\ r.op = "idle" => r = Idle

Queues(f, n) == f = [p \in Page |-> f[p]] /\ \A p \in Page : Store(f[p], n)

Typed ==
    /\ Table(mem, changes)
    /\ Table(saved, changes)
    /\ \A o \in ObjectId : mem[o] # None => o \in objects
    /\ linked \in ObjectId \cup {None}
    /\ \A p \in Page : RequestFits(call[p], changes)
    /\ Queues(queued, changes)
    /\ Queues(batch, changes)
    /\ Queues(writing, changes)
    /\ notified \in [Page -> BOOLEAN]
    /\ timer \in [Page -> BOOLEAN]
    /\ client \in {"idle", "clear", "save"}
    /\ behind \subseteq Cell

LEMMA KindsAre ==
    ASSUME NEW c \in Cell, NEW n \in 0..MaxChanges
    PROVE  Kinds(c, n) \subseteq Value /\ None \in Kinds(c, n)
<1>1. 1..n \subseteq 1..MaxChanges
    BY PersistAssumption
<1> QED
    BY <1>1 DEF Kinds, Value, Names

LEMMA KindsGrow ==
    ASSUME NEW c, NEW n \in Nat, NEW m \in Nat, n <= m
    PROVE  Kinds(c, n) \subseteq Kinds(c, m)
BY DEF Kinds

LEMMA StoreGrows ==
    ASSUME NEW f, NEW n \in Nat, NEW m \in Nat, n <= m, Store(f, n)
    PROVE  Store(f, m)
BY KindsGrow DEF Store

LEMMA StoreEmpty ==
    ASSUME NEW n PROVE Store(Empty, n)
BY DEF Store, Empty

LEMMA StoreOver ==
    ASSUME NEW f, NEW g, NEW n, Store(f, n), Store(g, n)
    PROVE  Store(Over(f, g), n) /\ DOMAIN Over(f, g) = DOMAIN f \cup DOMAIN g
BY DEF Store, Over

LEMMA StoreRestrict ==
    ASSUME NEW f, NEW n, Store(f, n), NEW done \in SUBSET DOMAIN f
    PROVE  Store(Restrict(f, done), n) /\ DOMAIN Restrict(f, done) \subseteq Cell
BY DEF Store, Restrict

LEMMA StorePartial ==
    ASSUME NEW f, NEW n \in 0..MaxChanges, Store(f, n)
    PROVE  f \in Partial
<1>1. f \in [DOMAIN f -> Value]
    BY KindsAre DEF Store
<1> QED
    BY <1>1 DEF Store, Partial

LEMMA TableType ==
    ASSUME NEW f, NEW n \in 0..MaxChanges, Table(f, n)
    PROVE  /\ f \in [Cell -> Value]
           /\ \A s \in Setting : f[s] \in Names(s)
           /\ \A o \in ObjectId : f[o] \in 1..n \cup {None}
<1>1. f \in [Cell -> Value]
    BY KindsAre DEF Store, Table
<1>2. \A s \in Setting : f[s] \in Names(s)
    BY DEF Table, Store, Cell, Kinds
<1>3. \A o \in ObjectId : o \notin Setting
    BY PersistAssumption DEF Setting
<1>4. \A o \in ObjectId : f[o] \in 1..n \cup {None}
    BY <1>3 DEF Table, Store, Cell, Kinds
<1> QED
    BY <1>1, <1>2, <1>4

LEMMA TypesFollow == IInv /\ Typed => TypeOK
<1> SUFFICES ASSUME IInv, Typed PROVE TypeOK
    OBVIOUS
<1>1. changes \in 0..MaxChanges /\ call \in [Page -> Call] /\ objects \subseteq known
      /\ known \subseteq ObjectId /\ rows \subseteq ObjectId /\ doomed \subseteq known
    BY DEF IInv, Types
<1>2. /\ mem \in [Cell -> Value] /\ saved \in [Cell -> Value]
      /\ \A s \in Setting : mem[s] \in Names(s) /\ saved[s] \in Names(s)
      /\ \A o \in ObjectId : mem[o] \in 1..changes \cup {None}
    BY <1>1, TableType DEF Typed
<1>3. \A f : Queues(f, changes) => f \in [Page -> Partial]
    BY <1>1, StorePartial DEF Queues
<1>4. {queued, batch, writing} \subseteq [Page -> Partial]
    BY <1>3 DEF Typed
<1>5. \A p \in Page : (call[p] = Idle \/ call[p].cell \in Cell) /\ (call[p].op = "idle" => call[p] = Idle)
    BY DEF Typed, RequestFits
<1> QED
    BY <1>1, <1>2, <1>4, <1>5 DEF TypeOK, Typed

(* A table that is written one cell, or some. *)
LEMMA TableWrite ==
    ASSUME NEW f, NEW n, Table(f, n), NEW c \in Cell, NEW v \in Kinds(c, n)
    PROVE  Table([f EXCEPT ![c] = v], n)
BY DEF Table, Store

LEMMA TableOver ==
    ASSUME NEW f, NEW g, NEW n, Table(f, n), Store(g, n)
    PROVE  Table(Over(f, g), n)
<1>1. DOMAIN g \subseteq Cell
    BY DEF Store
<1> QED
    BY <1>1, StoreOver DEF Table

LEMMA QueueWrite ==
    ASSUME NEW f, NEW n, Queues(f, n), NEW p \in Page, NEW g, Store(g, n)
    PROVE  Queues([f EXCEPT ![p] = g], n)
<1> DEFINE h == [f EXCEPT ![p] = g]
<1>1. \A q \in Page : h[q] = IF q = p THEN g ELSE f[q]
    BY DEF Queues
<1>2. h = [q \in Page |-> h[q]]
    BY DEF Queues
<1> HIDE DEF h
<1>3. \A q \in Page : Store(h[q], n)
    BY <1>1 DEF Queues
<1> QED
    BY <1>2, <1>3 DEF Queues, h

(* One more change. *)
LEMMA Changed ==
    ASSUME Typed, changes \in Nat, changes' \in Nat, changes <= changes'
    PROVE  /\ \A f : Table(f, changes) => Table(f, changes')
           /\ \A f : Queues(f, changes) => Queues(f, changes')
           /\ \A p \in Page : RequestFits(call[p], changes')
<1>1. \A f : Store(f, changes) => Store(f, changes')
    BY StoreGrows
<1>2. \A p \in Page : RequestFits(call[p], changes')
    BY KindsGrow DEF Typed, RequestFits
<1> QED
    BY <1>1, <1>2 DEF Table, Queues

LEMMA UnsavedCells ==
    ASSUME Typed, NEW p \in Page
    PROVE  Unsaved(p) \subseteq Cell
<1>1. call[p].op \in {"enqueue", "save"} => call[p].cell \in Cell
    BY DEF Typed, RequestFits, Idle
<1>2. DOMAIN queued[p] \subseteq Cell /\ DOMAIN batch[p] \subseteq Cell /\ DOMAIN writing[p] \subseteq Cell
    BY DEF Typed, Queues, Store
<1> QED
    BY <1>1, <1>2 DEF Unsaved

LEMMA LostCells ==
    ASSUME Typed, NEW p \in Page
    PROVE  Lost(p) \subseteq Cell
<1>1. call[p].op \in {"enqueue", "save"} => call[p].cell \in Cell
    BY DEF Typed, RequestFits, Idle
<1> QED
    BY <1>1 DEF Lost, Cell, Setting

(* A request that begins, goes on or ends. *)
LEMMA Begun ==
    ASSUME IInv, Typed, NEW p \in Page, NEW op \in Op \ {"idle"}, NEW c \in Cell,
           changes' \in Nat, changes <= changes', NEW v \in Kinds(c, changes'), Begin(p, op, c, v)
    PROVE  \A q \in Page : RequestFits(call'[q], changes')
<1>1. call' = [call EXCEPT ![p] = [op |-> op, cell |-> c, value |-> v]]
    BY DEF Begin
<1>2. changes \in Nat /\ call \in [Page -> Call]
    BY PersistAssumption DEF IInv, Types
<1>3. \A q \in Page : RequestFits(call[q], changes')
    BY <1>2, Changed
<1>4. call'[p] = [op |-> op, cell |-> c, value |-> v] /\ \A q \in Page : q # p => call'[q] = call[q]
    BY <1>1, <1>2
<1>5. RequestFits(call'[p], changes')
    BY <1>4 DEF RequestFits
<1> QED
    BY <1>3, <1>4, <1>5

LEMMA WentOn ==
    ASSUME IInv, Typed, NEW p \in Page, NEW op \in Op \ {"idle"}, call[p].op # "idle",
           changes' = changes, Continue(p, op)
    PROVE  \A q \in Page : RequestFits(call'[q], changes')
<1>1. call \in [Page -> Call]
    BY DEF IInv, Types
<1>2. call[p] # Idle
    BY DEF Idle
<1>3. /\ call'[p].op = op /\ call'[p].cell = call[p].cell /\ call'[p].value = call[p].value
      /\ \A q \in Page : q # p => call'[q] = call[q]
    BY <1>1 DEF Continue, Call
<1>4. RequestFits(call'[p], changes')
    BY <1>2, <1>3 DEF Typed, RequestFits
<1> QED
    BY <1>3, <1>4 DEF Typed

LEMMA WasOver ==
    ASSUME IInv, Typed, NEW p \in Page, changes' = changes, Return(p)
    PROVE  \A q \in Page : RequestFits(call'[q], changes')
<1>1. call'[p] = Idle /\ \A q \in Page : q # p => call'[q] = call[q]
    BY DEF IInv, Types, Return
<1> QED
    BY <1>1 DEF Typed, RequestFits

LEMMA RequestTyped ==
    ASSUME IInv, Typed, NEW p \in Page, Request(p)
    PROVE  Typed'
<1>1. changes \in Nat /\ 0..MaxChanges \subseteq Nat
    BY PersistAssumption DEF IInv, Types
<1>2. Change => changes' \in Nat /\ changes <= changes' /\ New \in 1..changes'
    BY <1>1 DEF Change, New
<1>4. \A c \in Cell : Settle(c, Page \ {p}) => behind' \subseteq Cell
    BY DEF Settle, Typed, Waiting
<1>5. \A o \in ObjectId : o \in Cell /\ (\A n : Kinds(o, n) = (1..n) \cup {None})
    BY PersistAssumption DEF Kinds, Setting, Cell
<1>6. known \subseteq ObjectId
    BY DEF IInv, Types
<1>7. ASSUME NEW s \in Setting, NEW v \in Names(s), Updates(p, s, v) PROVE Typed'
    <2>1. s \in Cell /\ v \in Kinds(s, changes') /\ (s = "mumble" => v \in ObjectId \cup {None})
        BY DEF Cell, Kinds, Names
    <2>2. /\ changes' \in Nat /\ changes <= changes'
          /\ UNCHANGED <<objects, saved, queued, batch, writing, notified, timer, client>>
          /\ mem' = [mem EXCEPT ![s] = v]
          /\ linked' \in ObjectId \cup {None}
        BY <1>2, <2>1, <1>7 DEF Updates, pageVars, Typed
    <2>3. /\ Table(saved', changes') /\ Table(mem, changes')
          /\ Queues(queued', changes') /\ Queues(batch', changes') /\ Queues(writing', changes')
        BY <1>1, <2>2, Changed DEF Typed
    <2>4. Table(mem', changes')
        BY <2>1, <2>2, <2>3, TableWrite
    <2>5. \A q \in Page : RequestFits(call'[q], changes')
        BY <1>7, <2>1, <2>2, Begun DEF Updates, Op
    <2>6. behind' \subseteq Cell
        BY <1>4, <1>7, <2>1 DEF Updates
    <2>7. \A o \in ObjectId : mem'[o] # None => o \in objects'
        BY <1>5, <2>1, <2>2, PersistAssumption DEF Typed, Table, Setting
    <2> QED
        BY <2>2, <2>3, <2>4, <2>5, <2>6, <2>7 DEF Typed
<1>8. ASSUME NEW o \in ObjectId, ObjectUpdate(p, o) PROVE Typed'
    <2>1. o \in Cell /\ New \in Kinds(o, changes')
        BY <1>2, <1>5, <1>8 DEF ObjectUpdate
    <2>2. /\ changes' \in Nat /\ changes <= changes'
          /\ UNCHANGED <<objects, linked, saved, queued, batch, writing, notified, timer, client>>
          /\ mem' = IF o \in objects THEN [mem EXCEPT ![o] = New] ELSE mem
        BY <1>2, <1>8 DEF ObjectUpdate, pageVars
    <2>3. /\ Table(saved', changes') /\ Table(mem, changes')
          /\ Queues(queued', changes') /\ Queues(batch', changes') /\ Queues(writing', changes')
        BY <1>1, <2>2, Changed DEF Typed
    <2>4. Table(mem', changes')
        BY <2>1, <2>2, <2>3, TableWrite
    <2>5. \A q \in Page : RequestFits(call'[q], changes')
        BY <1>8, <2>1, <2>2, Begun DEF ObjectUpdate, Op
    <2>6. behind' \subseteq Cell
        BY <1>4, <1>8, <2>1 DEF ObjectUpdate
    <2>7. \A x \in ObjectId : mem'[x] # None => x \in objects'
        BY <2>1, <2>2 DEF Typed, Table
    <2> QED
        BY <2>2, <2>3, <2>4, <2>5, <2>6, <2>7 DEF Typed
<1>9. ASSUME NEW o \in ObjectId, CreateObject(p, o) PROVE Typed'
    <2>1. o \in Cell /\ New \in Kinds(o, changes')
        BY <1>2, <1>5, <1>9 DEF CreateObject
    <2>2. /\ changes' \in Nat /\ changes <= changes'
          /\ UNCHANGED <<objects, linked, mem, saved, queued, batch, writing, notified, timer, client, behind>>
        BY <1>2, <1>9 DEF CreateObject, pageVars, dataVars
    <2>3. /\ Table(saved', changes') /\ Table(mem', changes')
          /\ Queues(queued', changes') /\ Queues(batch', changes') /\ Queues(writing', changes')
        BY <1>1, <2>2, Changed DEF Typed
    <2>5. \A q \in Page : RequestFits(call'[q], changes')
        BY <1>9, <2>1, <2>2, Begun DEF CreateObject, Op
    <2> QED
        BY <2>2, <2>3, <2>5 DEF Typed
<1>10. ASSUME NEW o \in ObjectId, RemoveObject(p, o) PROVE Typed'
    <2>1. o \in Cell /\ None \in Kinds(o, changes')
        BY <1>5
    <2>2. UNCHANGED <<changes, objects, linked, mem, saved, queued, batch, writing, notified, timer, client, behind>>
        BY <1>10 DEF RemoveObject, pageVars
    <2>3. (IF linked = o THEN "unlink" ELSE "remove") \in Op \ {"idle"}
        BY DEF Op
    <2>5. \A q \in Page : RequestFits(call'[q], changes')
        BY <1>1, <1>10, <2>1, <2>2, <2>3, Begun DEF RemoveObject
    <2> QED
        BY <2>2, <2>5 DEF Typed
<1> QED
    BY <1>7, <1>8, <1>9, <1>10 DEF Request

(* A request that does its work: its value is one of its cell. *)
LEMMA CarriedFits ==
    ASSUME Typed, NEW p \in Page, call[p].op # "idle"
    PROVE  call[p].cell \in Cell /\ call[p].value \in Kinds(call[p].cell, changes)
BY DEF Typed, RequestFits, Idle

LEMMA WorkTyped ==
    ASSUME IInv, Typed, NEW p \in Page, Work(p)
    PROVE  Typed'
<1>1. CASE Enqueue(p)
    <2>1. /\ call[p].op = "enqueue"
          /\ queued' = [queued EXCEPT ![p] = Over(@, [c \in {call[p].cell} |-> call[p].value])]
          /\ UNCHANGED <<objects, linked, mem, saved, batch, writing, timer, client, behind, changes>>
          /\ notified' = [notified EXCEPT ![p] = TRUE]
        BY <1>1, Zenon DEF Enqueue, At, dataVars
    <2>2. Store([c \in {call[p].cell} |-> call[p].value], changes)
        BY <2>1, CarriedFits DEF Store
    <2>3. Store(queued[p], changes)
        BY DEF Typed, Queues
    <2>4. Queues(queued', changes)
        BY <2>1, <2>2, <2>3, StoreOver, QueueWrite DEF Typed
    <2>5. \A q \in Page : RequestFits(call'[q], changes')
        BY <1>1, <2>1, WasOver DEF Enqueue
    <2> QED
        BY <2>1, <2>4, <2>5 DEF Typed
<1>2. CASE InsertRow(p)
    <2>1. \A q \in Page : RequestFits(call'[q], changes')
        BY <1>2, WentOn DEF InsertRow, At, Op
    <2> QED
        BY <1>2, <2>1 DEF InsertRow, pageVars, Typed
<1>3. CASE Insert(p)
    <2>1. \A q \in Page : RequestFits(call'[q], changes')
        BY <1>3, WentOn DEF Insert, At, Op
    <2>2. call[p].cell \in Cell /\ call[p].value \in Kinds(call[p].cell, changes)
        BY <1>3, CarriedFits DEF Insert, At
    <2>3. Table(mem', changes)
        BY <1>3, <2>2, TableWrite DEF Insert, Typed
    <2>4. \A o \in ObjectId : mem'[o] # None => o \in objects'
        BY <1>3, <2>2 DEF Insert, Typed, Table
    <2> QED
        BY <1>3, <2>1, <2>3, <2>4 DEF Insert, pageVars, Typed
<1>4. CASE SaveNew(p)
    <2>1. \A q \in Page : RequestFits(call'[q], changes')
        BY <1>4, WasOver DEF SaveNew
    <2>2. call[p].cell \in Cell /\ call[p].value \in Kinds(call[p].cell, changes)
        BY <1>4, CarriedFits DEF SaveNew, At
    <2>3. Table(saved', changes)
        BY <1>4, <2>2, TableWrite DEF SaveNew, Typed
    <2> QED
        BY <1>4, <2>1, <2>3 DEF SaveNew, pageVars, Typed
<1>5. CASE Unlink(p)
    <2>1. \A q \in Page : RequestFits(call'[q], changes')
        BY <1>5, WentOn DEF Unlink, At, Op
    <2> QED
        BY <1>5, <2>1 DEF Unlink, pageVars, Typed
<1>6. CASE DeleteRow(p)
    <2>1. \A q \in Page : RequestFits(call'[q], changes')
        BY <1>6, WentOn DEF DeleteRow, At, Op
    <2> QED
        BY <1>6, <2>1 DEF DeleteRow, pageVars, Typed
<1>7. CASE Forget(p) \/ ForgetRoom(p)
    <2> DEFINE o == call[p].cell
    <2>1. \A q \in Page : RequestFits(call'[q], changes')
        BY <1>7, WasOver DEF Forget, ForgetRoom
    <2>2. /\ objects' = objects \ {o}
          /\ mem' = [mem EXCEPT ![o] = None] \/ mem' = [mem EXCEPT ![o] = None, !["room"] = None]
          /\ UNCHANGED <<linked, saved, queued, batch, writing, notified, timer, client, behind, changes>>
        BY <1>7 DEF Forget, ForgetRoom, pageVars
    <2>3. \A c : None \in Kinds(c, changes)
        BY DEF Kinds, Names
    <2>4. mem' = [c \in Cell |-> mem'[c]] /\ \A c \in Cell : mem'[c] = mem[c] \/ mem'[c] = None
        BY <2>2 DEF Typed, Table, Store
    <2>5. Table(mem', changes)
        BY <2>3, <2>4 DEF Typed, Table, Store
    <2>6. \A x \in ObjectId : mem'[x] # None => x \in objects'
        BY <2>2, <2>4 DEF Typed, Cell, Table
    <2> QED
        BY <2>1, <2>2, <2>5, <2>6 DEF Typed
<1>11. CASE Leave(p)
    <2>1. \A q \in Page : RequestFits(call'[q], changes')
        BY <1>11, WentOn DEF Leave, At, Op
    <2>2. behind' \subseteq Cell
        BY <1>11 DEF Leave, Settle, Typed, Cell, Setting
    <2> QED
        BY <1>11, <2>1, <2>2 DEF Leave, pageVars, dataVars, Typed
<1>12. CASE RemoveProperty(p)
    <2>1. \A q \in Page : RequestFits(call'[q], changes')
        BY <1>12, WentOn DEF RemoveProperty, At, Op
    <2>2. Table(saved', changes)
        BY <1>12, TableWrite DEF RemoveProperty, Typed, Kinds, Names, Cell, Setting
    <2> QED
        BY <1>12, <2>1, <2>2 DEF RemoveProperty, pageVars, Typed
<1>8. CASE Gather(p)
    <2>1. /\ batch' = [batch EXCEPT ![p] = Over(@, queued[p])]
          /\ queued' = [queued EXCEPT ![p] = Empty]
          /\ UNCHANGED <<objects, linked, mem, saved, call, writing, client, behind, changes>>
          /\ notified' \in [Page -> BOOLEAN]
        BY <1>8 DEF Gather, dataVars, Typed
    <2>2. timer' \in [Page -> BOOLEAN]
        <3>1. timer' = [timer EXCEPT ![p] = @ \/ batch[p] = Empty]
            BY <1>8 DEF Gather
        <3>2. (timer[p] \/ batch[p] = Empty) \in BOOLEAN
            OBVIOUS
        <3> QED
            BY <3>1, <3>2 DEF Typed
    <2>3. Store(batch[p], changes) /\ Store(queued[p], changes)
        BY DEF Typed, Queues
    <2>4. Queues(batch', changes)
        BY <2>1, <2>3, StoreOver, QueueWrite DEF Typed
    <2>5. Queues(queued', changes)
        BY <2>1, StoreEmpty, QueueWrite DEF Typed
    <2> QED
        BY <2>1, <2>2, <2>4, <2>5 DEF Typed
<1>9. CASE Fire(p)
    <2>1. /\ writing' = [writing EXCEPT ![p] = batch[p]]
          /\ batch' = [batch EXCEPT ![p] = Empty]
          /\ UNCHANGED <<objects, linked, mem, saved, call, queued, notified, client, behind, changes>>
          /\ timer' \in [Page -> BOOLEAN]
        BY <1>9 DEF Fire, dataVars, Typed
    <2>2. Store(batch[p], changes)
        BY DEF Typed, Queues
    <2>3. Queues(writing', changes) /\ Queues(batch', changes)
        BY <2>1, <2>2, StoreEmpty, QueueWrite DEF Typed
    <2> QED
        BY <2>1, <2>3 DEF Typed
<1>10. CASE SetProperties(p)
    <2>1. /\ saved' = Over(saved, writing[p])
          /\ writing' = [writing EXCEPT ![p] = Empty]
          /\ UNCHANGED <<objects, linked, mem, call, queued, batch, notified, timer, client, behind, changes>>
        BY <1>10 DEF SetProperties
    <2>2. Store(writing[p], changes)
        BY DEF Typed, Queues
    <2>3. Table(saved', changes)
        BY <2>1, <2>2, TableOver DEF Typed
    <2>4. Queues(writing', changes)
        BY <2>1, StoreEmpty, QueueWrite DEF Typed
    <2> QED
        BY <2>1, <2>3, <2>4 DEF Typed
<1> QED
    BY <1>1, <1>2, <1>3, <1>4, <1>5, <1>6, <1>7, <1>8, <1>9, <1>10, <1>11, <1>12 DEF Work

(* What a connection that ends leaves. *)
LEMMA EndTyped ==
    ASSUME IInv, Typed, NEW p \in Page, changes' = changes, End(p)
    PROVE  /\ behind' \subseteq Cell
           /\ Queues(queued', changes) /\ Queues(batch', changes) /\ Queues(writing', changes)
           /\ notified' \in [Page -> BOOLEAN] /\ timer' \in [Page -> BOOLEAN]
           /\ \A q \in Page : RequestFits(call'[q], changes')
<1>1. behind' \subseteq Cell
    BY UnsavedCells, LostCells DEF End, Typed
<1>2. Queues(queued', changes) /\ Queues(batch', changes) /\ Queues(writing', changes)
    BY StoreEmpty, QueueWrite DEF End, Typed
<1>3. notified' \in [Page -> BOOLEAN] /\ timer' \in [Page -> BOOLEAN]
    BY DEF End, Typed
<1>4. \A q \in Page : RequestFits(call'[q], changes')
    BY WasOver DEF End
<1> QED
    BY <1>1, <1>2, <1>3, <1>4

LEMMA CrashTyped ==
    ASSUME IInv, Typed, Crash
    PROVE  Typed'
<1>1. PICK p \in Page : \E done \in SUBSET DOMAIN writing[p] :
        saved' = Over(saved, Restrict(writing[p], done))
    BY DEF Crash
<1>2. PICK done \in SUBSET DOMAIN writing[p] : saved' = Over(saved, Restrict(writing[p], done))
    BY <1>1
<1>3. Store(Restrict(writing[p], done), changes)
    <2>1. Store(writing[p], changes)
        BY DEF Typed, Queues
    <2> QED
        BY <2>1, StoreRestrict
<1>4. Table(saved', changes)
    BY <1>2, <1>3, TableOver DEF Typed
<1>5. mem' = [c \in Cell |-> IF c \in rows \cup Setting THEN saved'[c] ELSE None]
    BY DEF Crash
<1>6. \A c : None \in Kinds(c, changes)
    BY DEF Kinds, Names
<1>7. Table(mem', changes)
    BY <1>4, <1>5, <1>6 DEF Table, Store
<1>8. \A o \in ObjectId : mem'[o] # None => o \in rows
    BY <1>5, PersistAssumption DEF Cell, Setting
<1>9. "mumble" \in Setting /\ "mumble" \in Cell
    BY DEF Setting, Cell
<1>10. saved'["mumble"] \in ObjectId \cup {None}
    BY <1>4, <1>9 DEF Table, Store, Kinds, Names
<1>11. /\ \A q \in Page : call'[q] = Idle
       /\ queued' = [q \in Page |-> Empty] /\ batch' = [q \in Page |-> Empty]
       /\ writing' = [q \in Page |-> Empty]
       /\ notified' = [q \in Page |-> FALSE] /\ timer' = [q \in Page |-> FALSE]
       /\ client' = "idle" /\ behind' = {} /\ changes' = changes /\ objects' = rows /\ linked' = saved'["mumble"]
    BY DEF Crash
<1>12. \A q \in Page : RequestFits(call'[q], changes')
    BY <1>11 DEF RequestFits
<1>13. Queues(queued', changes) /\ Queues(batch', changes) /\ Queues(writing', changes)
    BY <1>11, StoreEmpty DEF Queues
<1> QED
    BY <1>4, <1>7, <1>8, <1>10, <1>11, <1>12, <1>13 DEF Typed

LEMMA StartsTyped == Init => Typed
<1> SUFFICES ASSUME Init PROVE Typed
    OBVIOUS
<1>1. \A c : None \in Kinds(c, changes)
    BY DEF Kinds, Names
<1>2. Table(mem, changes) /\ Table(saved, changes)
    BY <1>1 DEF Init, Table, Store
<1>3. Queues(queued, changes) /\ Queues(batch, changes) /\ Queues(writing, changes)
    BY StoreEmpty DEF Init, Queues
<1>4. \A q \in Page : RequestFits(call[q], changes)
    BY DEF Init, RequestFits
<1> QED
    BY <1>2, <1>3, <1>4 DEF Init, Typed, Cell

LEMMA StepsTyped == IInv /\ Typed /\ [Next]_vars => Typed'
<1> SUFFICES ASSUME IInv, Typed, [Next]_vars PROVE Typed'
    OBVIOUS
<1>1. CASE \E p \in Page : Request(p)
    BY <1>1, RequestTyped
<1>2. CASE \E p \in Page : Work(p)
    BY <1>2, WorkTyped
<1>3. ASSUME NEW p \in Page, Close(p) PROVE Typed'
    <2>1. End(p) /\ UNCHANGED <<objects, linked, mem, saved, client, changes>>
        BY <1>3 DEF Close, dataVars
    <2> QED
        BY <2>1, EndTyped DEF Typed
<1>4. ASSUME NEW p \in Page, Fail(p) PROVE Typed'
    <2>1. /\ UNCHANGED <<objects, linked, mem, saved, queued, batch, writing, notified, timer, client, changes>>
          /\ Return(p)
        BY <1>4 DEF Fail, dataVars, pageVars
    <2>2. behind' \subseteq Cell
        BY <1>4, LostCells DEF Fail, Typed
    <2>3. \A q \in Page : RequestFits(call'[q], changes')
        BY <2>1, WasOver
    <2> QED
        BY <2>1, <2>2, <2>3 DEF Typed
<1>5. ASSUME NEW p \in Page, SetSome(p) PROVE Typed'
    <2>1. PICK done \in SUBSET DOMAIN writing[p] : saved' = Over(saved, Restrict(writing[p], done))
        BY <1>5 DEF SetSome
    <2>2. Store(writing[p], changes)
        BY DEF Typed, Queues
    <2>3. Table(saved', changes)
        BY <2>1, <2>2, StoreRestrict, TableOver DEF Typed
    <2>4. End(p) /\ UNCHANGED <<objects, linked, mem, client, changes>>
        BY <1>5 DEF SetSome
    <2> QED
        BY <2>3, <2>4, EndTyped DEF Typed
<1>6. CASE Crash
    BY <1>6, CrashTyped
<1>7. CASE UNCHANGED vars
    BY <1>7 DEF vars, dataVars, pageVars, Typed
<1>8. CASE Client
    <2>1. /\ UNCHANGED <<objects, linked, call, queued, batch, writing, notified, timer>>
          /\ client' \in {"idle", "clear", "save"}
        BY <1>8 DEF Client, ClientHears, ClientClears, ClientSaves, ClientEnds, dataVars, pageVars
    <2>2. changes \in Nat /\ changes' \in Nat /\ changes <= changes'
        BY <1>8, PersistAssumption DEF Client, ClientHears, ClientClears, ClientSaves, ClientEnds,
           Change, New, IInv, Types
    <2>3. /\ Table(saved, changes') /\ Table(mem, changes')
          /\ Queues(queued', changes') /\ Queues(batch', changes') /\ Queues(writing', changes')
          /\ \A q \in Page : RequestFits(call'[q], changes')
        BY <2>1, <2>2, Changed DEF Typed
    <2>4. "room" \in Cell /\ None \in Kinds("room", changes')
        BY DEF Kinds, Names, Cell, Setting
    <2>5. mem' = mem \/ mem' = [mem EXCEPT !["room"] = None]
        BY <1>8 DEF Client, ClientHears, ClientClears, ClientSaves, ClientEnds, dataVars
    <2>6. saved' = saved \/ saved' = [saved EXCEPT !["room"] = None]
        BY <1>8 DEF Client, ClientHears, ClientClears, ClientSaves, ClientEnds, dataVars
    <2>7. Table(mem', changes') /\ Table(saved', changes')
        BY <2>3, <2>4, <2>5, <2>6, TableWrite
    <2>8. behind' \subseteq Cell
        BY <1>8, <2>4 DEF Client, ClientHears, ClientClears, ClientSaves, ClientEnds, Settle, Typed
    <2>9. \A o \in ObjectId : mem'[o] # None => o \in objects'
        BY <2>1, <2>5, PersistAssumption DEF Typed, Table, Store, Cell, Setting
    <2> QED
        BY <2>1, <2>3, <2>7, <2>8, <2>9 DEF Typed
<1> QED
    BY <1>1, <1>2, <1>3, <1>4, <1>5, <1>6, <1>7, <1>8 DEF Next

(* The variables keep their types, and what comes back after a restart is an id where
   a setting names an object, and for objects the number of a change. *)
THEOREM TypeCorrect == Spec => []TypeOK
<1>1. Init => IInv /\ Typed
    BY Starts, StartsTyped
<1>2. IInv /\ Typed /\ [Next]_vars => (IInv /\ Typed)'
    BY Steps, StepsTyped
<1> QED
    BY <1>1, <1>2, TypesFollow, PTL DEF Spec
=============================================================================
