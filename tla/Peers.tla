-------------------------------- MODULE Peers --------------------------------
(***************************************************************************)
(* What a page knows of the peers (web/src/peers.rs): its Map and, when it *)
(* is shown, its list of rooms each take a snapshot of the table of peers  *)
(* the backend keeps, and each follow the broadcasts of what the table     *)
(* goes through (remote_update of components/map.rs, components/rooms.rs). *)
(*                                                                         *)
(* Peers have an id while they are connected, and a key for good. The room *)
(* the user is in is kept by key, and looked up by id. The broadcasts of a *)
(* page wait in its queue (tokio::sync::broadcast) while requests are      *)
(* answered: a snapshot may be newer than what arrives after it.           *)
(*                                                                         *)
(* What the server says of peers is broadcast while the table is locked.   *)
(* What becomes of the user's rooms, and of ROOM, is broadcast by whoever  *)
(* changed it once it has let go of the lock: others come in between.      *)
(***************************************************************************)
EXTENDS Integers, Sequences, FiniteSets

CONSTANTS
    PeerId, PublicKey,
    Me,         \* the public key of the user, not one of PublicKey
    Room,       \* ids of objects that are rooms, and is_global
    Token,      \* ids of other objects
    None,
    MaxBus,     \* bound: broadcasts that wait
    MaxMoves    \* bound: events

Local == 0  \* PeerId::ZERO

ASSUME PeersAssumption ==
    /\ PeerId \subseteq Nat \ {Local}
    /\ Me \notin PublicKey /\ None \notin PublicKey \cup {Me, Local} \cup PeerId
    /\ Room \cap Token = {}
    /\ MaxBus \in Nat /\ MaxMoves \in Nat

VARIABLES
    table,      \* ClientState.peers of the backend
    mine,       \* the rooms of the user
    made,       \* ClientState.used_ids: the rooms there ever were
    room,       \* ROOM of the backend: a stable id
    telling,    \* what each handler has done and has still to broadcast
    clearing,   \* the client is to clear ROOM
    bus,        \* broadcasts the page has not seen
    map,        \* the Map component
    rooms,      \* the Rooms component
    off,        \* (history) the Map was told last of another ROOM than there is
    astray,     \* (history) rooms of which a component was told nothing, or too late
    moves

own == <<mine, made>>

history == <<off, astray>>

vars == <<table, own, room, telling, clearing, bus, map, rooms, history, moves>>

ObjectId == Room \cup Token

(* The connection of the page, that of another one, and the client. *)
Handler == {"page", "other", "client"}

(* RemoteId::ZERO and StableId::ZERO. *)
Zero == <<None, None>>

StableId == ((PublicKey \cup {Me}) \X ObjectId) \cup {Zero}

RemoteId == ((PeerId \cup {Local}) \X ObjectId) \cup {Zero}

Info == [key : PublicKey, room : StableId, things : SUBSET ObjectId]

KnownPeer == [key : PublicKey, room : StableId, here : BOOLEAN]

(* What is broadcast of an object, and of ROOM. *)
Thing == [is : {"ObjectCreated", "ObjectRemoved"}, peer : PeerId \cup {Local}, object : ObjectId]

Setting == [is : {"Config"}, room : StableId, from : {"backend", "other", "rooms"}]

ASSUME NoneAssumption == None \notin Info \cup KnownPeer \cup Thing \cup Setting

Connected == {p \in PeerId : table[p] # None}

Known == {table[p].key : p \in Connected}

-----------------------------------------------------------------------------
(* Peers, as each component has one: v.peers by id, v.keys from key to id, v.me. *)

Forgotten(f, k) == [j \in DOMAIN f \ {k} |-> f[j]]

Noted(f, k, p) == [j \in DOMAIN f \cup {k} |-> IF j = k THEN p ELSE f[j]]

NoPeers(v) == [v EXCEPT !.peers = [p \in PeerId |-> None], !.keys = <<>>]

(* Mutation: the key a peer id had before stays. *)
InsertOver(v, p, key, its, here) ==
    LET old == IF key \in DOMAIN v.keys THEN v.keys[key] ELSE None
        peers == [q \in PeerId |-> IF q = old THEN None ELSE v.peers[q]]
    IN  [v EXCEPT !.peers = [peers EXCEPT ![p] = [key |-> key, room |-> its, here |-> its = here]],
                  !.keys = Noted(v.keys, key, p)]

(* Peers::insert. *)
Insert(v, p, key, its, here) ==
    LET old == IF key \in DOMAIN v.keys THEN v.keys[key] ELSE None
        peers == [q \in PeerId |-> IF q = old THEN None ELSE v.peers[q]]
        keys == Noted(v.keys, key, p)
    IN  [v EXCEPT !.peers = [peers EXCEPT ![p] = [key |-> key, room |-> its, here |-> its = here]],
                  !.keys = IF peers[p] = None THEN keys ELSE Forgotten(keys, peers[p].key)]

(* Peers::remove. *)
Remove(v, p) ==
    IF v.peers[p] = None THEN v
    ELSE [v EXCEPT !.peers[p] = None, !.keys = Forgotten(v.keys, v.peers[p].key)]

(* Mutation: a key nobody has now is kept as it is. *)
ToRemoteIdKept(v, id) ==
    IF id = Zero THEN Zero
    ELSE IF id[1] = v.me THEN <<Local, id[2]>>
    ELSE IF id[1] \in DOMAIN v.keys THEN <<v.keys[id[1]], id[2]>>
    ELSE id

ToRemoteId(v, id) ==
    IF id = Zero THEN Zero
    ELSE IF id[1] = v.me THEN <<Local, id[2]>>
    ELSE IF id[1] \in DOMAIN v.keys THEN <<v.keys[id[1]], id[2]>>
    ELSE Zero

ToStableId(v, p, o) ==
    IF p = Local THEN <<v.me, o>>
    ELSE IF v.peers[p] = None THEN Zero
    ELSE <<v.peers[p].key, o>>

(* Every peer of a snapshot is inserted; it has no key twice. *)
Copied(v, here) ==
    [v EXCEPT
        !.me = Me,
        !.peers = [p \in PeerId |->
            IF table[p] = None THEN None
            ELSE [key |-> table[p].key, room |-> table[p].room, here |-> table[p].room = here]],
        !.keys = [k \in Known |-> CHOOSE p \in Connected : table[p].key = k]]

-----------------------------------------------------------------------------
(* The Map. *)

(* Mutation: what was found once is not looked up again. *)
UpdatePeersOnce(v) == [v EXCEPT !.roomId = IF @ = Zero THEN ToRemoteId(v, v.room) ELSE @]

(* MapValues::update_peers. *)
UpdatePeers(v) == [v EXCEPT !.roomId = ToRemoteId(v, v.room)]

(* Cache::update: the room that is drawn. *)
Drawn(v) ==
    [v EXCEPT !.display = IF v.roomId \in v.things /\ v.roomId[2] \in Room THEN v.roomId ELSE Zero]

Of(p) == {p} \X ObjectId

(* Map::remote_update. *)
MapUpdate(v, m) ==
    CASE m.is = "RemoteLost" -> Drawn(NoPeers([v EXCEPT !.things = @ \cap Of(Local)]))
      [] m.is = "PeerConnected" -> UpdatePeers(Insert(v, m.peer, m.key, m.room, v.room))
      [] m.is = "PeerJoin" -> [v EXCEPT !.things = @ \cup ({m.peer} \X m.things)]
      [] m.is = "PeerLeave" -> [v EXCEPT !.things = @ \ ({m.peer} \X Token)]
      [] m.is = "PeerDisconnect" ->
            UpdatePeers(Remove([v EXCEPT !.things = @ \ Of(m.peer)], m.peer))
      [] m.is = "PeerUpdate" ->
            IF v.peers[m.peer] = None THEN v
            ELSE UpdatePeers([v EXCEPT !.peers[m.peer].room = m.room,
                                       !.peers[m.peer].here = (m.room = v.room)])
      [] m.is = "ObjectCreated" -> Drawn([v EXCEPT !.things = @ \cup {<<m.peer, m.object>>}])
      [] m.is = "ObjectRemoved" -> Drawn([v EXCEPT !.things = @ \ {<<m.peer, m.object>>}])

(* Map::config_update: only what changes is looked up again. *)
MapConfig(v, r) ==
    IF v.room = r THEN v
    ELSE Drawn(UpdatePeers(
            [v EXCEPT !.room = r,
                      !.peers = [p \in PeerId |-> IF v.peers[p] = None THEN None
                                ELSE [v.peers[p] EXCEPT !.here = (v.peers[p].room = r)]]]))

(* The user's rooms and what peers have, for Map::initialize. *)
AllThings == ({Local} \X mine) \cup UNION {{p} \X table[p].things : p \in Connected}

(* Mutation: what was there before stays. *)
InitializedOver(v) ==
    LET w == [Copied(v, v.room) EXCEPT !.room = room, !.things = @ \cup AllThings]
    IN  Drawn(IF room = Zero THEN w ELSE UpdatePeers(w))

(* Peers are compared with the room of before the snapshot, and room_id is not reset
   when there is no room any more. *)
Initialized(v) ==
    LET w == [Copied(v, v.room) EXCEPT !.room = room, !.things = AllThings]
    IN  Drawn(IF room = Zero THEN w ELSE UpdatePeers(w))

-----------------------------------------------------------------------------
(* The list of rooms, in which a room may be more than once. *)

Plus(list, id, n) == [list EXCEPT ![id] = @ + n]

(* Mutation: only the first that is found. *)
WithoutOne(list, ids) ==
    [id \in StableId |-> IF id \in ids /\ list[id] > 0 THEN list[id] - 1 ELSE list[id]]

Without(list, ids) == [id \in StableId |-> IF id \in ids THEN 0 ELSE list[id]]

OfKey(k) == {id \in StableId : id[1] = k}

(* Rooms::try_update: RemoteUpdate. *)
RoomsUpdate(v, m) ==
    CASE m.is = "RemoteLost" -> [v EXCEPT !.list = Without(@, OfKey(v.me)), !.lost = TRUE]
      [] m.is = "PeerConnected" -> Insert(v, m.peer, m.key, m.room, v.active)
      [] m.is = "PeerDisconnect" ->
            IF v.peers[m.peer] = None THEN v
            ELSE [Remove(v, m.peer) EXCEPT !.list = Without(@, OfKey(v.peers[m.peer].key))]
      [] m.is = "PeerUpdate" ->
            IF v.peers[m.peer] = None THEN v
            ELSE [v EXCEPT !.peers[m.peer].room = m.room,
                           !.peers[m.peer].here = (m.room = v.active)]
      [] m.is = "ObjectCreated" ->
            IF m.object \in Room THEN [v EXCEPT !.list = Plus(@, ToStableId(v, m.peer, m.object), 1)]
            ELSE v
      [] m.is = "ObjectRemoved" -> [v EXCEPT !.list = Without(@, {ToStableId(v, m.peer, m.object)})]
      [] OTHER -> v

RoomsInitialized(v) ==
    LET w == [Copied(v, room) EXCEPT !.active = room]
        all == {id \in AllThings : id[2] \in Room}
    IN  [w EXCEPT !.list = [id \in StableId |->
            Cardinality({r \in all : ToStableId(w, r[1], r[2]) = id})]]

NoRooms ==
    [open |-> "none", me |-> None, peers |-> [p \in PeerId |-> None], keys |-> <<>>,
     active |-> Zero, list |-> [id \in StableId |-> 0], lost |-> FALSE]

-----------------------------------------------------------------------------
(* The backend. *)

Move == moves < MaxMoves /\ moves' = moves + 1

(* Backend::broadcast, while the page is there. *)
Say(ms) ==
    IF map.open = "none" THEN bus' = bus
    ELSE bus' = bus \o ms /\ Len(bus') <= MaxBus

Config(r, from) == [is |-> "Config", room |-> r, from |-> from]

(* The client handles an event when it is done with the one before. *)
ClientFree == telling["client"] = None /\ ~clearing

(* handle_peer: PeerConnected. *)
PeerConnected(p, k, r) ==
    /\ Move /\ ClientFree
    /\ p \notin Connected /\ k \notin Known
    /\ table' = [table EXCEPT ![p] = [key |-> k, room |-> r, things |-> {}]]
    /\ Say(<<[is |-> "PeerConnected", peer |-> p, key |-> k, room |-> r]>>)
    /\ UNCHANGED <<own, room, telling, clearing, map, rooms, history>>

(* PeerJoin: all the client has of the peer is broadcast. *)
PeerJoin(p) ==
    /\ Move /\ ClientFree
    /\ p \in Connected
    /\ table' = [table EXCEPT ![p].things = @ \cup Token]
    /\ Say(<<[is |-> "PeerJoin", peer |-> p, things |-> table'[p].things]>>)
    /\ UNCHANGED <<own, room, telling, clearing, map, rooms, history>>

PeerLeave(p) ==
    /\ Move /\ ClientFree
    /\ p \in Connected
    /\ table' = [table EXCEPT ![p].things = @ \cap Room]
    /\ Say(<<[is |-> "PeerLeave", peer |-> p]>>)
    /\ UNCHANGED <<own, room, telling, clearing, map, rooms, history>>

PeerDisconnect(p) ==
    /\ Move /\ ClientFree
    /\ p \in Connected
    /\ table' = [table EXCEPT ![p] = None]
    /\ Say(<<[is |-> "PeerDisconnect", peer |-> p]>>)
    /\ UNCHANGED <<own, room, telling, clearing, map, rooms, history>>

PeerUpdated(p, r) ==
    /\ Move /\ ClientFree
    /\ p \in Connected
    /\ table[p].room # r
    /\ table' = [table EXCEPT ![p].room = r]
    /\ Say(<<[is |-> "PeerUpdate", peer |-> p, room |-> r]>>)
    /\ UNCHANGED <<own, room, telling, clearing, map, rooms, history>>

ObjectCreated(p, o) ==
    /\ Move /\ ClientFree
    /\ p \in Connected
    /\ o \notin table[p].things
    /\ table' = [table EXCEPT ![p].things = @ \cup {o}]
    /\ Say(<<[is |-> "ObjectCreated", peer |-> p, object |-> o]>>)
    /\ UNCHANGED <<own, room, telling, clearing, map, rooms, history>>

(* The lock is let go before the removal is told; whether ROOM goes with the object is
   decided by then. *)
ObjectRemoved(p, o) ==
    /\ Move /\ ClientFree
    /\ p \in Connected
    /\ o \in table[p].things
    /\ table' = [table EXCEPT ![p].things = @ \ {o}]
    /\ clearing' = (room = <<table[p].key, o>>)
    /\ telling' = [telling EXCEPT !["client"] = [is |-> "ObjectRemoved", peer |-> p, object |-> o]]
    /\ UNCHANGED <<own, room, bus, map, rooms, history>>

(* ROOM is cleared, whatever it has come to be. *)
ClientClears ==
    /\ clearing /\ telling["client"] = None
    /\ clearing' = FALSE
    /\ room' = Zero
    /\ telling' = [telling EXCEPT !["client"] = Config(Zero, "backend")]
    /\ UNCHANGED <<table, own, bus, map, rooms, history, moves>>

(* managed(): nobody is known when the connection is made anew. The client that waits for
   the lock to clear ROOM never does. *)
RemoteLost ==
    /\ Move
    /\ telling["client"] = None
    /\ clearing' = FALSE
    /\ table' = [p \in PeerId |-> None]
    /\ Say(<<[is |-> "RemoteLost"]>>)
    /\ UNCHANGED <<own, room, telling, map, rooms, history>>

(* The request of a page, when it has had its answer to the one before. *)
Asks(h) ==
    /\ h # "client" /\ telling[h] = None
    /\ h = "page" => map.open # "none"

(* create_object: the room is there before its properties are saved, and it is told. *)
CreateRoom(h, o) ==
    /\ Move /\ Asks(h)
    /\ o \in Room \ made
    /\ mine' = mine \cup {o}
    /\ made' = made \cup {o}
    /\ telling' = [telling EXCEPT ![h] = [is |-> "ObjectCreated", peer |-> Local, object |-> o]]
    /\ UNCHANGED <<table, room, clearing, bus, map, rooms, history>>

Creates(o) == {h \in Handler : telling[h] = [is |-> "ObjectCreated", peer |-> Local, object |-> o]}

Strays(o) == astray' = [c \in DOMAIN astray |-> astray[c] \cup {o}]

(* set_property fails, or the connection ends: nobody is told. *)
CreateFails(h, o) ==
    /\ h \in Creates(o)
    /\ telling' = [telling EXCEPT ![h] = None]
    /\ Strays(o)
    /\ UNCHANGED <<table, own, room, clearing, bus, map, rooms, off, moves>>

(* remove_object: the room is told of, but not ROOM. *)
RemoveRoom(h, o) ==
    /\ Move /\ Asks(h)
    /\ o \in mine
    /\ mine' = mine \ {o}
    /\ room' = IF room = <<Me, o>> THEN Zero ELSE room
    /\ off' = (off \/ room = <<Me, o>>)
    /\ IF Creates(o) = {} THEN astray' = astray ELSE Strays(o)
    /\ telling' = [telling EXCEPT ![h] = [is |-> "ObjectRemoved", peer |-> Local, object |-> o]]
    /\ UNCHANGED <<table, made, clearing, bus, map, rooms>>

EnterElsewhere(r) ==
    /\ Move /\ Asks("other")
    /\ room' = r
    /\ telling' = [telling EXCEPT !["other"] = Config(r, "other")]
    /\ UNCHANGED <<table, own, clearing, bus, map, rooms, history>>

(* What was done is broadcast. *)
Tell(h) ==
    LET m == telling[h]
    IN  /\ m # None
        /\ telling' = [telling EXCEPT ![h] = None]
        /\ Say(<<m>>)
        /\ off' = IF m.is = "Config" THEN m.room # room ELSE off
        /\ UNCHANGED <<table, own, room, clearing, map, rooms, astray, moves>>

-----------------------------------------------------------------------------
(* The page. *)

(* Rooms: Connect and Disconnect; the request is at once with the backend. *)
Enter(r) ==
    /\ Move /\ Asks("page")
    /\ rooms.open = "open"
    /\ r = Zero \/ rooms.list[r] > 0
    /\ room' = r
    /\ rooms' = [rooms EXCEPT !.active = r]
    /\ telling' = [telling EXCEPT !["page"] = Config(r, "rooms")]
    /\ UNCHANGED <<table, own, clearing, bus, map, history>>

(* Each component hears each broadcast but the echo of what it sent itself. *)
Hear ==
    LET m == Head(bus)
    IN  /\ bus # <<>>
        /\ bus' = Tail(bus)
        /\ map' = IF m.is = "Config" THEN MapConfig(map, m.room) ELSE MapUpdate(map, m)
        /\ rooms' = IF rooms.open = "none" THEN rooms
                    ELSE IF m.is # "Config" THEN RoomsUpdate(rooms, m)
                    ELSE IF m.from = "rooms" THEN rooms
                    ELSE [rooms EXCEPT !.active = m.room]
        /\ UNCHANGED <<table, own, room, telling, clearing, history, moves>>

(* The page's connection subscribes, and its Map asks for a snapshot. *)
Open ==
    /\ map.open = "none"
    /\ map' = [map EXCEPT !.open = "opening"]
    /\ UNCHANGED <<table, own, room, telling, clearing, bus, rooms, history, moves>>

(* Rooms whose creation is still to be told of, or to be heard of. *)
Late ==
    {o \in Room : Creates(o) # {} \/ \E i \in DOMAIN bus :
        bus[i] = [is |-> "ObjectCreated", peer |-> Local, object |-> o]}

(* A snapshot has all there is; but older broadcasts are heard after it. *)
InitializeMap ==
    /\ map.open = "opening"
    /\ map' = [Initialized(map) EXCEPT !.open = "open"]
    /\ off' = (off /\ \E i \in DOMAIN bus : bus[i].is = "Config")
    /\ astray' = [astray EXCEPT !["map"] = @ \cap Late]
    /\ UNCHANGED <<table, own, room, telling, clearing, bus, rooms, moves>>

(* The Rooms modal is opened; when it is closed its component goes. *)
OpenRooms ==
    /\ map.open = "open" /\ rooms.open = "none"
    /\ rooms' = [NoRooms EXCEPT !.open = "opening"]
    /\ UNCHANGED <<table, own, room, telling, clearing, bus, map, history, moves>>

InitializeRooms ==
    /\ rooms.open = "opening"
    /\ rooms' = [RoomsInitialized(rooms) EXCEPT !.open = "open"]
    /\ astray' = [astray EXCEPT !["rooms"] = @ \cap Late]
    /\ UNCHANGED <<table, own, room, telling, clearing, bus, map, off, moves>>

CloseRooms ==
    /\ Move
    /\ rooms.open # "none"
    /\ rooms' = NoRooms
    /\ UNCHANGED <<table, own, room, telling, clearing, bus, map, history>>

(* The socket is lost, and what waits with it: the Map keeps what it had. *)
Lose ==
    /\ Move
    /\ map.open # "none"
    /\ map' = [map EXCEPT !.open = "none"]
    /\ rooms' = NoRooms
    /\ bus' = <<>>
    /\ UNCHANGED <<table, own, room, telling, clearing, history>>

-----------------------------------------------------------------------------
(* The rooms and ROOM are those of the database. *)
Init ==
    /\ table = [p \in PeerId |-> None]
    /\ mine \in SUBSET Room
    /\ made = mine
    /\ room \in {Zero} \cup (PublicKey \X Room) \cup ({Me} \X mine)
    /\ telling = [h \in Handler |-> None]
    /\ clearing = FALSE
    /\ bus = <<>>
    /\ map = [open |-> "none", me |-> None, peers |-> [p \in PeerId |-> None], keys |-> <<>>,
              room |-> Zero, roomId |-> Zero, things |-> {}, display |-> Zero]
    /\ rooms = NoRooms
    /\ off = FALSE
    /\ astray = [c \in {"map", "rooms"} |-> {}]
    /\ moves = 0

(* The rooms one can be in: those of somebody who is known. *)
SomeRoom ==
    {Zero} \cup ({Me} \X mine) \cup UNION {{table[p].key} \X (table[p].things \cap Room) : p \in Connected}

Remote ==
    \/ \E p \in PeerId :
        \/ \E k \in PublicKey, r \in SomeRoom : PeerConnected(p, k, r)
        \/ \E r \in SomeRoom : PeerUpdated(p, r)
        \/ \E o \in ObjectId : ObjectCreated(p, o) \/ ObjectRemoved(p, o)
        \/ PeerJoin(p) \/ PeerLeave(p) \/ PeerDisconnect(p)
    \/ ClientClears
    \/ RemoteLost

Own ==
    \/ \E h \in Handler :
        \/ \E o \in Room : CreateRoom(h, o) \/ CreateFails(h, o) \/ RemoveRoom(h, o)
        \/ Tell(h)
    \/ \E r \in SomeRoom : EnterElsewhere(r)

Next ==
    \/ Remote
    \/ Own
    \/ \E r \in StableId : Enter(r)
    \/ Hear
    \/ Open \/ InitializeMap
    \/ OpenRooms \/ InitializeRooms \/ CloseRooms
    \/ Lose

Spec == Init /\ [][Next]_vars

-----------------------------------------------------------------------------
(* The components have the types of the code. *)
TypeOK ==
    /\ table \in [PeerId -> Info \cup {None}]
    /\ mine \subseteq made /\ made \subseteq Room
    /\ room \in StableId
    /\ telling \in [Handler -> Thing \cup Setting \cup {None}] /\ clearing \in BOOLEAN
    /\ Len(bus) <= MaxBus
    /\ \A v \in {map, rooms} :
        /\ v.open \in {"none", "opening", "open"}
        /\ v.me \in {Me, None}
        /\ v.peers \in [PeerId -> KnownPeer \cup {None}]
        /\ DOMAIN v.keys \subseteq PublicKey
    /\ map.room \in StableId
    /\ map.roomId \in RemoteId /\ map.display \in RemoteId
    /\ map.things \subseteq RemoteId
    /\ rooms.active \in StableId
    /\ off \in BOOLEAN /\ astray \in [{"map", "rooms"} -> SUBSET Room]

(* The ids and keys of the peers of a component lead to each other, in whatever order
   peers came and went under the same ids and keys, also when a page is told again what
   its snapshot had. *)
KeysPaired ==
    \A v \in {map, rooms} :
        /\ \A k \in DOMAIN v.keys : v.peers[v.keys[k]] # None /\ v.peers[v.keys[k]].key = k
        /\ \A p \in PeerId :
            v.peers[p] # None => v.peers[p].key \in DOMAIN v.keys /\ v.keys[v.peers[p].key] = p

(* Nothing is left to tell, or to hear. *)
Settled == bus = <<>> /\ \A h \in Handler : telling[h] = None

Astray(c) == {Local} \X astray[c]

(* Once nothing is left to hear, the Map has the peers and objects the backend has, however
   old the broadcasts were that it heard after its snapshot; but for a room of the user
   that nobody told of, or that was told of when it was gone. It is in the room the backend
   is in, unless that was cleared with the room, or changed twice and told of in another
   order. *)
CaughtUp ==
    map.open = "open" /\ Settled =>
        /\ map.things \ Astray("map") = AllThings \ Astray("map")
        /\ ~off => map.room = room
        /\ \A p \in PeerId :
            IF table[p] = None THEN map.peers[p] = None
            ELSE /\ map.peers[p] # None
                 /\ map.peers[p].key = table[p].key /\ map.peers[p].room = table[p].room

(* The room the Map is in is the one that is drawn, if its owner is known and it still
   exists: under the id the owner has now. *)
RoomDrawn ==
    map.open = "open" /\ Settled =>
        LET id == ToRemoteId(map, map.room)
        IN  id # Zero /\ id \in AllThings \ Astray("map") /\ id[2] \in Room
                => map.roomId = id /\ map.display = id

(* Until the remote connection is lost, the list has every room there is, and no other:
   but some twice, or without an owner, when they were made while it was opened, and but
   for those that nobody told of, or too late. *)
RoomsListed ==
    rooms.open = "open" /\ Settled /\ ~rooms.lost =>
        \A id \in StableId \ {Zero} : ToRemoteId(map, id) \notin Astray("rooms") =>
            (rooms.list[id] > 0 <=> id[2] \in Room /\ ToRemoteId(map, id) \in AllThings)
=============================================================================
