------------------------------ MODULE Protocol ------------------------------
(***************************************************************************)
(* What the client and the server of mumbler share: identifiers, objects,  *)
(* the PeerInfo a client keeps of each peer and the table of rooms.        *)
(***************************************************************************)
EXTENDS Integers, Sequences, FiniteSets

CONSTANTS
    Key,        \* public keys of the clients
    ZeroKey,    \* PublicKey::ZERO, an entry that is not authenticated
    PeerId,     \* peer identifiers
    MaxId,      \* the largest value of the allocator's counter
    Mix,        \* hash::map: counter value -> identifier
    RoomIds,    \* local ids of ROOM objects, the only global type
    TokenIds,   \* local ids of TOKEN, STATIC and GROUP objects
    Val,        \* the properties an object may have
    None,       \* no such object
    ImageIds,   \* local ids of images
    Names,      \* values of PEER_NAME
    NoName,     \* its default
    Lobby       \* StableId::ZERO, the room every peer starts in

ObjectId == RoomIds \cup TokenIds

(* StableId: the owner's public key and the room's local id. *)
RoomKey == {Lobby} \cup (Key \X RoomIds)

ASSUME KeyAssumption == ZeroKey \notin Key
ASSUME IdAssumption ==
    /\ MaxId \in Nat
    /\ Mix \in [1..MaxId -> PeerId]
    /\ \A m, n \in 1..MaxId : Mix[m] = Mix[n] => m = n
ASSUME DataAssumption ==
    /\ RoomIds \cap TokenIds = {}
    /\ None \notin Val
    /\ NoName \in Names
    /\ Lobby \notin Key \X RoomIds

-----------------------------------------------------------------------------
(* The client's side: one PeerInfo per known peer. *)

NoObjects == [o \in ObjectId |-> None]
Objects == [ObjectId -> Val \cup {None}]

Info == [known : BOOLEAN, key : Key \cup {ZeroKey}, room : RoomKey, name : Names,
         objects : Objects, images : SUBSET ImageIds]

Unknown == [known |-> FALSE, key |-> ZeroKey, room |-> Lobby, name |-> NoName,
            objects |-> NoObjects, images |-> {}]

(* The objects that reach every peer, whatever its room. *)
Globals(objs) == [o \in ObjectId |-> IF o \in RoomIds THEN objs[o] ELSE None]

(* PeerConnected, then ObjectCreated and ImageCreated for what is global. *)
Introduction(k, r, n, objs, imgs) ==
    [known |-> TRUE, key |-> k, room |-> r, name |-> n,
     objects |-> Globals(objs), images |-> imgs]

(* Mutation: an object that is there already is kept as it is. *)
JoinedAbsent(info, objs) ==
    IF info.known
    THEN [info EXCEPT !.objects =
            [o \in ObjectId |->
                IF o \in TokenIds /\ info.objects[o] = None THEN objs[o] ELSE info.objects[o]]]
    ELSE info

(* PeerJoin merges the objects it carries, it replaces nothing else. *)
Joined(info, objs) ==
    IF info.known
    THEN [info EXCEPT !.objects =
            [o \in ObjectId |->
                IF o \in TokenIds /\ objs[o] # None THEN objs[o] ELSE info.objects[o]]]
    ELSE info

(* Mutation: the global objects go too. *)
LeftBare(info) ==
    IF info.known THEN [info EXCEPT !.images = {}, !.objects = NoObjects] ELSE info

(* PeerLeave keeps the global objects only. *)
Left(info) ==
    IF info.known
    THEN [info EXCEPT !.images = {}, !.objects = Globals(info.objects)]
    ELSE info

(* PeerUpdated. *)
WithRoom(info, r) == IF info.known THEN [info EXCEPT !.room = r] ELSE info

WithName(info, n) == IF info.known THEN [info EXCEPT !.name = n] ELSE info

(* ObjectCreated, and ObjectRemoved with v = None. *)
WithObject(info, o, v) ==
    IF info.known THEN [info EXCEPT !.objects[o] = v] ELSE info

(* ObjectUpdated is ignored for an object the client does not hold. *)
WithUpdate(info, o, v) ==
    IF info.known /\ info.objects[o] # None
    THEN [info EXCEPT !.objects[o] = v] ELSE info

WithImage(info, i) ==
    IF info.known THEN [info EXCEPT !.images = @ \cup {i}] ELSE info

-----------------------------------------------------------------------------
(* The table of rooms. A closed room has no entry, and get() on it returns
   early. *)

Members(table, r) == IF r \in DOMAIN table THEN table[r] ELSE {}

(* Mutation: a new room is left empty. *)
CreateRoomsEmpty(table, S, who, where) ==
    [r \in DOMAIN table \cup S |-> IF r \in S THEN {} ELSE table[r]]

(* create_room: the members are found again among the connected peers. *)
CreateRooms(table, S, who, where) ==
    [r \in DOMAIN table \cup S |->
        IF r \in S THEN {q \in who : where[q] = r} ELSE table[r]]

(* Mutation: the type of the object is not looked at. *)
OwnRoomsOfAny(k, objs) == {<<k, o>> : o \in {i \in ObjectId : objs[i] # None}}

(* The rooms among a client's objects, as created for the others. *)
OwnRooms(k, objs) == {<<k, o>> : o \in {i \in RoomIds : objs[i] # None}}

JoinRoom(table, r, p) ==
    [s \in DOMAIN table |-> IF s = r THEN table[s] \cup {p} ELSE table[s]]

LeaveRoom(table, r, p) ==
    [s \in DOMAIN table |-> IF s = r THEN table[s] \ {p} ELSE table[s]]

=============================================================================
