------------------------------- MODULE Relay -------------------------------
(***************************************************************************)
(* What the mumbler server promises the peers connected to it              *)
(* (crates/mumbler/src/remote/server.rs), one event handler per action.    *)
(*                                                                         *)
(* The server keeps an entry per connection and a table of rooms, and      *)
(* relays what one client says to the others.  Here the frames it writes   *)
(* to a connection are applied at once to view[p], the table of peers that *)
(* the client behind connection p will hold when it has read everything    *)
(* written to it so far (the handlers of crates/mumbler/src/client.rs).    *)
(* Buffers, sockets and the polling of peers are in module Server, which   *)
(* implements this one.                                                    *)
(*                                                                         *)
(* The clients follow the protocol of client.rs: one Hello, one Connect    *)
(* with a good signature once challenged, updates after that.              *)
(***************************************************************************)
EXTENDS Protocol

VARIABLES
    last,       \* Ids.last
    free,       \* Ids.free, oldest first
    live,       \* the ids in Peers.peers
    key,        \* ServerPeerState.public_key
    challenged, \* whether ServerPeerState.challenge is Some
    room,       \* props[ROOM]
    name,       \* props[PEER_NAME]
    objects,    \* ServerPeerState.objects
    images,     \* ServerPeerState.images
    rooms,      \* State.rooms: the members of each room
    view        \* view[p][q]: what the client behind p holds of peer q

idVars == <<last, free, live>>
peerVars == <<key, challenged, room, name, objects, images>>
vars == <<last, free, live, key, challenged, room, name, objects, images, rooms, view>>

-----------------------------------------------------------------------------
Others(p) == live \ {p}

(* The connections a message about room r reaches: a member that is gone is
   skipped by Peers::get_mut. *)
Audience(table, r, p) == Members(table, r) \cap Others(p)

(* send_to_all, send_to_room: the tables once the connections of `to` were told
   about p. *)
Tell(to, p, entry) ==
    [x \in PeerId |->
        IF x \in to THEN [view[x] EXCEPT ![p] = entry[x]] ELSE view[x]]

(* The connections that hear of an object of p: all, or p's room. *)
ObjectAudience(p, o) ==
    IF o \in RoomIds THEN Others(p) ELSE Audience(rooms, room[p], p)

-----------------------------------------------------------------------------
Init ==
    /\ last = 0
    /\ free = <<>>
    /\ live = {}
    /\ key = [p \in PeerId |-> ZeroKey]
    /\ challenged = [p \in PeerId |-> FALSE]
    /\ room = [p \in PeerId |-> Lobby]
    /\ name = [p \in PeerId |-> NoName]
    /\ objects = [p \in PeerId |-> NoObjects]
    /\ images = [p \in PeerId |-> {}]
    /\ rooms = [r \in {Lobby} |-> {}]
    /\ view = [p \in PeerId |-> [q \in PeerId |-> Unknown]]

(* A connection is accepted under the id freed first, or a new one. Without an
   id it is turned away. *)
AcceptAs(id) ==
    /\ live' = live \cup {id}
    /\ UNCHANGED <<peerVars, rooms, view>>

(* Mutation: an id that is handed out stays among the free ones. *)
AcceptAgain ==
    \/ /\ free # <<>>
       /\ UNCHANGED <<last, free>>
       /\ AcceptAs(Head(free))
    \/ /\ free = <<>>
       /\ last < MaxId
       /\ last' = last + 1
       /\ free' = free
       /\ AcceptAs(Mix[last + 1])

Accept ==
    \/ /\ free # <<>>
       /\ free' = Tail(free)
       /\ last' = last
       /\ AcceptAs(Head(free))
    \/ /\ free = <<>>
       /\ last < MaxId
       /\ last' = last + 1
       /\ free' = free
       /\ AcceptAs(Mix[last + 1])

Hello(p) ==
    /\ p \in live
    /\ key[p] = ZeroKey
    /\ ~challenged[p]
    /\ challenged' = [challenged EXCEPT ![p] = TRUE]
    /\ UNCHANGED <<idVars, key, room, name, objects, images, rooms, view>>

(* Mutation: the public key may be taken. *)
FreshAlways(p, k) == TRUE

(* No other connection speaks for the public key. *)
Fresh(p, k) == \A q \in Others(p) : key[q] # k

(* Connect, with the client's whole state. *)
Connect(p, k, r, n, objs, imgs) ==
    /\ p \in live
    /\ challenged[p]
    /\ Fresh(p, k)
    /\ challenged' = [challenged EXCEPT ![p] = FALSE]
    /\ key' = [key EXCEPT ![p] = k]
    /\ room' = [room EXCEPT ![p] = r]
    /\ name' = [name EXCEPT ![p] = n]
    /\ objects' = [objects EXCEPT ![p] = objs]
    /\ images' = [images EXCEPT ![p] = imgs]
    /\ LET created == CreateRooms(rooms, OwnRooms(k, objs), live, room')
           met == Audience(created, r, p)
           Intro(q) == Introduction(key'[q], room'[q], name'[q], objects'[q], images'[q])
       IN  /\ rooms' = JoinRoom(created, r, p)
           /\ view' = [x \in PeerId |-> [y \in PeerId |->
                IF (x = p /\ y \in Others(p)) \/ (x \in Others(p) /\ y = p)
                THEN IF x \in met \/ y \in met
                     THEN Joined(Intro(y), objects'[y])
                     ELSE Intro(y)
                ELSE view[x][y]]]
    /\ UNCHANGED idVars

(* PeerUpdate of ROOM: told to all, then the old room is left and the new one
   joined. *)
PeerUpdateRoom(p, r) ==
    /\ p \in live
    /\ key[p] # ZeroKey
    /\ room' = [room EXCEPT ![p] = r]
    /\ LET departed == LeaveRoom(rooms, room[p], p)
           leftWith == Audience(departed, room[p], p)
           met == Audience(departed, r, p)
           Told(x, y) == IF x \in Others(p) /\ y = p
                         THEN WithRoom(view[x][y], r) ELSE view[x][y]
           Gone(x, y) == IF (x = p /\ y \in leftWith) \/ (x \in leftWith /\ y = p)
                         THEN Left(Told(x, y)) ELSE Told(x, y)
       IN  /\ rooms' = JoinRoom(departed, r, p)
           /\ view' = [x \in PeerId |-> [y \in PeerId |->
                IF (x = p /\ y \in met) \/ (x \in met /\ y = p)
                THEN Joined(Gone(x, y), objects[y]) ELSE Gone(x, y)]]
    /\ UNCHANGED <<idVars, key, challenged, name, objects, images>>

(* PeerUpdate of PEER_NAME. *)
PeerUpdateName(p, n) ==
    /\ p \in live
    /\ key[p] # ZeroKey
    /\ name' = [name EXCEPT ![p] = n]
    /\ view' = Tell(Others(p), p, [x \in PeerId |-> WithName(view[x][p], n)])
    /\ UNCHANGED <<idVars, key, challenged, room, objects, images, rooms>>

ObjectCreate(p, o, v) ==
    /\ p \in live
    /\ key[p] # ZeroKey
    /\ objects' = [objects EXCEPT ![p][o] = v]
    /\ rooms' = IF o \in RoomIds
                THEN CreateRooms(rooms, {<<key[p], o>>}, live, room) ELSE rooms
    /\ view' = Tell(ObjectAudience(p, o), p, [x \in PeerId |-> WithObject(view[x][p], o, v)])
    /\ UNCHANGED <<idVars, key, challenged, room, name, images>>

(* An update of an object the server does not hold is skipped. *)
ObjectUpdate(p, o, v) ==
    /\ p \in live
    /\ key[p] # ZeroKey
    /\ objects[p][o] # None
    /\ objects' = [objects EXCEPT ![p][o] = v]
    /\ view' = Tell(ObjectAudience(p, o), p, [x \in PeerId |-> WithUpdate(view[x][p], o, v)])
    /\ UNCHANGED <<idVars, key, challenged, room, name, images, rooms>>

(* Removing a ROOM object closes the room, its members keep it as their room. *)
ObjectRemove(p, o) ==
    /\ p \in live
    /\ key[p] # ZeroKey
    /\ objects[p][o] # None
    /\ objects' = [objects EXCEPT ![p][o] = None]
    /\ rooms' = IF o \in RoomIds
                THEN [r \in DOMAIN rooms \ {<<key[p], o>>} |-> rooms[r]] ELSE rooms
    /\ view' = Tell(ObjectAudience(p, o), p, [x \in PeerId |-> WithObject(view[x][p], o, None)])
    /\ UNCHANGED <<idVars, key, challenged, room, name, images>>

ImageCreate(p, i) ==
    /\ p \in live
    /\ key[p] # ZeroKey
    /\ images' = [images EXCEPT ![p] = @ \cup {i}]
    /\ view' = Tell(Audience(rooms, room[p], p), p, [x \in PeerId |-> WithImage(view[x][p], i)])
    /\ UNCHANGED <<idVars, key, challenged, room, name, objects, rooms>>

(* ImageRemoved drops the bytes a client cached, not the id in its PeerInfo. *)
ImageRemove(p, i) ==
    /\ p \in live
    /\ key[p] # ZeroKey
    /\ images' = [images EXCEPT ![p] = @ \ {i}]
    /\ UNCHANGED <<idVars, key, challenged, room, name, objects, rooms, view>>

(* Mutation: only the room hears that a connection is gone. *)
RemoveQuietly(p) ==
    /\ p \in live
    /\ live' = live \ {p}
    /\ free' = Append(free, p)
    /\ key' = [key EXCEPT ![p] = ZeroKey]
    /\ challenged' = [challenged EXCEPT ![p] = FALSE]
    /\ room' = [room EXCEPT ![p] = Lobby]
    /\ name' = [name EXCEPT ![p] = NoName]
    /\ objects' = [objects EXCEPT ![p] = NoObjects]
    /\ images' = [images EXCEPT ![p] = {}]
    /\ view' = [Tell(Audience(rooms, room[p], p), p, [x \in PeerId |-> Unknown])
                 EXCEPT ![p] = [q \in PeerId |-> Unknown]]
    /\ UNCHANGED <<last, rooms>>

(* The connection ends: closed, timed out, or refused by a handler. Its id is
   freed at once and the others are told; the rooms keep it as a member. Its
   client forgets its peers before it connects again. *)
Remove(p) ==
    /\ p \in live
    /\ live' = live \ {p}
    /\ free' = Append(free, p)
    /\ key' = [key EXCEPT ![p] = ZeroKey]
    /\ challenged' = [challenged EXCEPT ![p] = FALSE]
    /\ room' = [room EXCEPT ![p] = Lobby]
    /\ name' = [name EXCEPT ![p] = NoName]
    /\ objects' = [objects EXCEPT ![p] = NoObjects]
    /\ images' = [images EXCEPT ![p] = {}]
    /\ view' = [Tell(Others(p), p, [x \in PeerId |-> Unknown])
                 EXCEPT ![p] = [q \in PeerId |-> Unknown]]
    /\ UNCHANGED <<last, rooms>>

Next ==
    \/ Accept
    \/ \E p \in PeerId :
        \/ Hello(p)
        \/ \E k \in Key, r \in RoomKey, n \in Names, objs \in Objects,
              imgs \in SUBSET ImageIds : Connect(p, k, r, n, objs, imgs)
        \/ \E r \in RoomKey : PeerUpdateRoom(p, r)
        \/ \E n \in Names : PeerUpdateName(p, n)
        \/ \E o \in ObjectId, v \in Val : ObjectCreate(p, o, v)
        \/ \E o \in ObjectId, v \in Val : ObjectUpdate(p, o, v)
        \/ \E o \in ObjectId : ObjectRemove(p, o)
        \/ \E i \in ImageIds : ImageCreate(p, i)
        \/ \E i \in ImageIds : ImageRemove(p, i)
        \/ Remove(p)

Spec == Init /\ [][Next]_vars
-----------------------------------------------------------------------------
TypeOK ==
    /\ last \in 0..MaxId
    /\ free \in Seq(PeerId)
    /\ live \in SUBSET PeerId
    /\ key \in [PeerId -> Key \cup {ZeroKey}]
    /\ challenged \in [PeerId -> BOOLEAN]
    /\ room \in [PeerId -> RoomKey]
    /\ name \in [PeerId -> Names]
    /\ objects \in [PeerId -> Objects]
    /\ images \in [PeerId -> SUBSET ImageIds]
    /\ DOMAIN rooms \in SUBSET RoomKey
    /\ rooms \in [DOMAIN rooms -> SUBSET PeerId]
    /\ view \in [PeerId -> [PeerId -> Info]]

Authenticated(p) == p \in live /\ key[p] # ZeroKey

(* Ids.free hands out identifiers in the order they came back: however
   connections come and go, an identifier is in use once, or waiting once, or
   not yet made, and none is lost. *)
IdsSound ==
    /\ \A i, j \in DOMAIN free : free[i] = free[j] => i = j
    /\ \A i \in DOMAIN free : free[i] \notin live
    /\ {Mix[n] : n \in 1..last} = live \cup {free[i] : i \in DOMAIN free}

(* The duplicate check of Connect runs while the peer is out of the table: all
   the same no two connections ever speak for one public key. *)
UniqueKeys ==
    \A p, q \in live : key[p] = key[q] /\ key[p] # ZeroKey => p = q

(* "Ensure that all peers that have it as their property gets added to it": a
   peer whose room is open is a member of it, through joins, leaves, rooms
   made, closed and made again, and reconnections. *)
RoomComplete ==
    \A p \in live : Authenticated(p) /\ room[p] \in DOMAIN rooms => p \in rooms[room[p]]

(* The roster a client is left with. Every other authenticated peer is on it,
   nobody is on it who is gone, and the entry is that of the peer behind the id
   now, not of one that used the id before: its key, properties and global
   objects are those the server holds. *)
RosterSound ==
    \A p, q \in live : p # q =>
        /\ Authenticated(p) /\ Authenticated(q) => view[p][q].known
        /\ view[p][q].known =>
              /\ view[p][q].key = key[q]
              /\ view[p][q].room = room[q]
              /\ view[p][q].name = name[q]
              /\ \A o \in RoomIds : view[p][q].objects[o] = objects[q][o]

(* A client holds peers while it is connected, none of them is gone and none is
   the client itself. *)
NoGhostPeers ==
    \A p, q \in PeerId : view[p][q].known => p \in live /\ q \in live /\ q # p

(* The lobby is made with the server and no room object stands for it. *)
LobbyOpen == Lobby \in DOMAIN rooms

(* A slot without a connection speaks for nobody. *)
IdleSlots == \A p \in PeerId \ live : key[p] = ZeroKey

(* Two peers in the lobby, which is never closed, hold each other's objects as
   they are now, whatever rooms they went through before. *)
LobbyComplete ==
    \A p, q \in live :
        /\ p # q
        /\ Authenticated(p) /\ Authenticated(q)
        /\ room[p] = Lobby /\ room[q] = Lobby
        => \A o \in ObjectId :
              objects[q][o] # None => view[p][q].objects[o] = objects[q][o]

(* What the steps preserve together. *)
IInv ==
    /\ TypeOK
    /\ IdsSound
    /\ IdleSlots
    /\ UniqueKeys
    /\ LobbyOpen
    /\ RoomComplete
    /\ NoGhostPeers
    /\ RosterSound
    /\ LobbyComplete

(* "The members of this room." (server.rs:353): a member that is connected has
   the room as its own. *)
MembersAreInRoom ==
    \A r \in DOMAIN rooms : \A p \in rooms[r] \cap live : room[p] = r
=============================================================================
