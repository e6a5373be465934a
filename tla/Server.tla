------------------------------- MODULE Server -------------------------------
(***************************************************************************)
(* The relay server with its output buffers and its scheduling             *)
(* (crates/mumbler/src/remote/server.rs, the write side of remote/peer.rs).*)
(*                                                                         *)
(* A handler appends frames to the buffers of the peers it tells and marks *)
(* those peers in State.poll; PollPeers pops one peer at a time, writes    *)
(* what the socket takes, and hands the peer to the handlers when it has   *)
(* input. A peer that is neither marked nor woken is not looked at again   *)
(* until its socket wakes it, so a frame written to a peer nobody marks    *)
(* stays where it is.                                                      *)
(*                                                                         *)
(* held[p] is what the client behind p has read so far. The module         *)
(* implements Relay, whose view[p] is held[p] once out[p] is read too.     *)
(***************************************************************************)
EXTENDS Protocol, SequencesExt

CONSTANTS
    MaxBacklog  \* bound: none is accepted or heard while a buffer is longer

ASSUME ServerAssumption ==
    /\ MaxBacklog \in Nat
    /\ IsFiniteSet(PeerId)
    /\ IsFiniteSet(RoomIds)
    /\ IsFiniteSet(ImageIds)

VARIABLES
    last,       \* Ids.last
    free,       \* Ids.free, oldest first
    live,       \* the ids in Peers.peers
    key,        \* ServerPeerState.public_key
    challenged, \* whether ServerPeerState.challenge is Some
    room,       \* props[ROOM]
    name,       \* props[PEER_NAME]
    objects,    \* ServerPeerState.objects
    images,     \* ServerPeerState.images
    rooms,      \* State.rooms: the members of each room
    out,        \* Peer.write: frames not yet taken by the socket
    held,       \* ClientState.peers of the client behind each connection
    poll,       \* State.poll
    blocked     \* the others whose last poll left a write waker with the socket

idVars == <<last, free, live>>
peerVars == <<key, challenged, room, name, objects, images>>
vars == <<last, free, live, key, challenged, room, name, objects, images, rooms,
          out, held, poll, blocked>>

-----------------------------------------------------------------------------
(* Frames, and what the client does with them. *)

Challenge == [type |-> "Challenge"]

Pong == [type |-> "Pong"]

PeerConnected(q, k, r, n) ==
    [type |-> "PeerConnected", peer |-> q, key |-> k, room |-> r, name |-> n]

PeerDisconnect(q) == [type |-> "PeerDisconnect", peer |-> q]

PeerJoin(q, objs) == [type |-> "PeerJoin", peer |-> q, objects |-> objs]

PeerLeave(q) == [type |-> "PeerLeave", peer |-> q]

RoomUpdated(q, r) == [type |-> "RoomUpdated", peer |-> q, room |-> r]

NameUpdated(q, n) == [type |-> "NameUpdated", peer |-> q, name |-> n]

ObjectCreated(q, o, v) == [type |-> "ObjectCreated", peer |-> q, object |-> o, value |-> v]

ObjectUpdated(q, o, v) == [type |-> "ObjectUpdated", peer |-> q, object |-> o, value |-> v]

ObjectRemoved(q, o) == [type |-> "ObjectRemoved", peer |-> q, object |-> o]

ImageCreated(q, i) == [type |-> "ImageCreated", peer |-> q, image |-> i]

ImageRemoved(q, i) == [type |-> "ImageRemoved", peer |-> q, image |-> i]

(* handle_peer: the entry of the peer a frame is about. A frame about a peer the
   client does not know changes nothing, but for PeerConnected. *)
Entry(info, f) ==
    CASE f.type = "PeerConnected" ->
            [known |-> TRUE, key |-> f.key, room |-> f.room, name |-> f.name,
             objects |-> NoObjects, images |-> {}]
      [] f.type = "PeerDisconnect" -> Unknown
      [] f.type = "PeerJoin" -> Joined(info, f.objects)
      [] f.type = "PeerLeave" -> Left(info)
      [] f.type = "RoomUpdated" -> WithRoom(info, f.room)
      [] f.type = "NameUpdated" -> WithName(info, f.name)
      [] f.type = "ObjectCreated" -> WithObject(info, f.object, f.value)
      [] f.type = "ObjectUpdated" -> WithUpdate(info, f.object, f.value)
      [] f.type = "ObjectRemoved" -> WithObject(info, f.object, None)
      [] f.type = "ImageCreated" -> WithImage(info, f.image)
      [] f.type = "ImageRemoved" -> info

ReadOne(table, f) ==
    IF f.type \in {"Challenge", "Pong"} THEN table
    ELSE [table EXCEPT ![f.peer] = Entry(table[f.peer], f)]

Read(table, frames) ==
    LET after[n \in 0..Len(frames)] == IF n = 0 THEN table ELSE ReadOne(after[n - 1], frames[n])
    IN  after[Len(frames)]

-----------------------------------------------------------------------------
(* What is written. *)

Nothing == [q \in PeerId |-> <<>>]

Others(p) == live \ {p}

Audience(table, r, p) == Members(table, r) \cap Others(p)

(* send_to_all, send_to_room: frame f to each connection of `to`. *)
Each(to, f) == [q \in PeerId |-> IF q \in to THEN <<f>> ELSE <<>>]

(* One list of frames after the other, for each connection. *)
Then(w1, w2) == [q \in PeerId |-> w1[q] \o w2[q]]

Write(w) == out' = [q \in PeerId |-> out[q] \o w[q]]

(* Mutation: the images are forgotten. *)
GlobalFramesBare(q, objs, imgs) ==
    LET ids == SetToSeq({o \in RoomIds : objs[o] # None})
    IN  [n \in DOMAIN ids |-> ObjectCreated(q, ids[n], objs[ids[n]])]

(* ObjectCreated for the global objects of peer q, ImageCreated for its images. *)
GlobalFrames(q, objs, imgs) ==
    LET ids == SetToSeq({o \in RoomIds : objs[o] # None})
        pics == SetToSeq(imgs)
    IN  [n \in DOMAIN ids |-> ObjectCreated(q, ids[n], objs[ids[n]])]
        \o [n \in DOMAIN pics |-> ImageCreated(q, pics[n])]

(* The frames F[q] of every q in Q, one after the other. *)
Concat(Q, F) == LET s == SetToSeq(Q) IN FlattenSeq([n \in DOMAIN s |-> F[s[n]]])

Tokens(objs) == [o \in ObjectId |-> IF o \in TokenIds THEN objs[o] ELSE None]

(* join_room: p and the members that are connected swap their objects. *)
JoinFrames(p, met, objs) ==
    [q \in PeerId |->
        IF q = p THEN Concat(met, [m \in met |-> <<PeerJoin(m, Tokens(objs[m]))>>])
        ELSE IF q \in met THEN <<PeerJoin(p, Tokens(objs[p]))>> ELSE <<>>]

(* Mutation: the one that leaves is not told to forget the others. *)
LeaveFramesOneWay(p, stay) ==
    [q \in PeerId |-> IF q \in stay THEN <<PeerLeave(p)>> ELSE <<>>]

(* leave_room: p and the members that stay forget each other's. *)
LeaveFrames(p, stay) ==
    [q \in PeerId |->
        IF q = p THEN Concat(stay, [m \in stay |-> <<PeerLeave(m)>>])
        ELSE IF q \in stay THEN <<PeerLeave(p)>> ELSE <<>>]

-----------------------------------------------------------------------------
Init ==
    /\ last = 0
    /\ free = <<>>
    /\ live = {}
    /\ key = [p \in PeerId |-> ZeroKey]
    /\ challenged = [p \in PeerId |-> FALSE]
    /\ room = [p \in PeerId |-> Lobby]
    /\ name = [p \in PeerId |-> NoName]
    /\ objects = [p \in PeerId |-> NoObjects]
    /\ images = [p \in PeerId |-> {}]
    /\ rooms = [r \in {Lobby} |-> {}]
    /\ out = Nothing
    /\ held = [p \in PeerId |-> [q \in PeerId |-> Unknown]]
    /\ poll = {}
    /\ blocked = {}

Uncongested == \A q \in live : Len(out[q]) <= MaxBacklog

(* The branch of run() that accepts: the peer is polled first thing. *)
AcceptAs(id) ==
    /\ Uncongested
    /\ live' = live \cup {id}
    /\ poll' = poll \cup {id}
    /\ UNCHANGED <<peerVars, rooms, out, held, blocked>>

Accept ==
    \/ /\ free # <<>>
       /\ free' = Tail(free)
       /\ last' = last
       /\ AcceptAs(Head(free))
    \/ /\ free = <<>>
       /\ last < MaxId
       /\ last' = last + 1
       /\ free' = free
       /\ AcceptAs(Mix[last + 1])

(* Mutation: a write that goes half way does not wait for the socket. *)
PollPeerHalf(p, n) ==
    /\ p \in live
    /\ poll' = poll \ {p}
    /\ held' = [held EXCEPT ![p] = Read(@, SubSeq(out[p], 1, n))]
    /\ out' = [out EXCEPT ![p] = SubSeq(@, n + 1, Len(@))]
    /\ blocked' = blocked \ {p}
    /\ UNCHANGED <<idVars, peerVars, rooms>>

(* PollPeers, for a peer that is marked or that its socket woke: the socket takes
   the first n frames, and there is nothing to read. *)
PollPeer(p, n) ==
    /\ p \in live
    /\ poll' = poll \ {p}
    /\ held' = [held EXCEPT ![p] = Read(@, SubSeq(out[p], 1, n))]
    /\ out' = [out EXCEPT ![p] = SubSeq(@, n + 1, Len(@))]
    /\ blocked' = IF n < Len(out[p]) THEN blocked \cup {p} ELSE blocked \ {p}
    /\ UNCHANGED <<idVars, peerVars, rooms>>

-----------------------------------------------------------------------------
(* The handlers: peer p was marked or woken and there was something to read. It is
   out of Peers.peers while it is handled, then put back and marked, for it to be
   polled again. Frames read together are handled one after the other. *)

Handling(p) == p \in live /\ Uncongested

(* Mutation: the peers that were written to are not marked. *)
HandledAlone(p, told) ==
    /\ poll' = poll \cup {p}
    /\ blocked' = blocked \ poll'
    /\ UNCHANGED <<idVars, held>>

Handled(p, told) ==
    /\ poll' = poll \cup told \cup {p}
    /\ blocked' = blocked \ poll'
    /\ UNCHANGED <<idVars, held>>

Ping(p) ==
    /\ Handling(p)
    /\ Write(Each({p}, Pong))
    /\ UNCHANGED <<peerVars, rooms>>
    /\ Handled(p, {})

Hello(p) ==
    /\ Handling(p)
    /\ key[p] = ZeroKey
    /\ ~challenged[p]
    /\ challenged' = [challenged EXCEPT ![p] = TRUE]
    /\ Write(Each({p}, Challenge))
    /\ UNCHANGED <<key, room, name, objects, images, rooms>>
    /\ Handled(p, {})

(* No other connection speaks for the public key. *)
Fresh(p, k) == \A q \in Others(p) : key[q] # k

(* The client signs the nonce it read. *)
Connect(p, k, r, n, objs, imgs) ==
    /\ Handling(p)
    /\ challenged[p]
    /\ \A j \in DOMAIN out[p] : out[p][j] # Challenge
    /\ Fresh(p, k)
    /\ challenged' = [challenged EXCEPT ![p] = FALSE]
    /\ key' = [key EXCEPT ![p] = k]
    /\ room' = [room EXCEPT ![p] = r]
    /\ name' = [name EXCEPT ![p] = n]
    /\ objects' = [objects EXCEPT ![p] = objs]
    /\ images' = [images EXCEPT ![p] = imgs]
    /\ LET created == CreateRooms(rooms, OwnRooms(k, objs), live, room')
           met == Audience(created, r, p)
           Globs(q) == GlobalFrames(q, objects'[q], images'[q])
           Intro(q) == <<PeerConnected(q, key'[q], room'[q], name'[q])>> \o Globs(q)
           early == Concat(Others(p), [q \in Others(p) |-> Globs(q)])
           late == Concat(Others(p), [q \in Others(p) |-> Intro(q)])
           connected == [q \in PeerId |->
                IF q = p THEN early \o late
                ELSE IF q \in Others(p) THEN Intro(p) ELSE <<>>]
       IN  /\ rooms' = JoinRoom(created, r, p)
           /\ Write(Then(connected, JoinFrames(p, met, objects')))
           /\ Handled(p, Others(p) \cup met)

PeerUpdateRoom(p, r) ==
    /\ Handling(p)
    /\ key[p] # ZeroKey
    /\ room' = [room EXCEPT ![p] = r]
    /\ LET departed == LeaveRoom(rooms, room[p], p)
           stay == Audience(departed, room[p], p)
           met == Audience(departed, r, p)
       IN  /\ rooms' = JoinRoom(departed, r, p)
           /\ Write(Then(Each(Others(p), RoomUpdated(p, r)),
                         Then(LeaveFrames(p, stay), JoinFrames(p, met, objects))))
           /\ Handled(p, Others(p) \cup met)
    /\ UNCHANGED <<key, challenged, name, objects, images>>

(* send_to_all and send_to_room mark whom they wrote to. *)
Send(p, to, f) == Write(Each(to, f)) /\ Handled(p, to)

ObjectAudience(p, o) ==
    IF o \in RoomIds THEN Others(p) ELSE Audience(rooms, room[p], p)

PeerUpdateName(p, n) ==
    /\ Handling(p)
    /\ key[p] # ZeroKey
    /\ name' = [name EXCEPT ![p] = n]
    /\ Send(p, Others(p), NameUpdated(p, n))
    /\ UNCHANGED <<key, challenged, room, objects, images, rooms>>

ObjectCreate(p, o, v) ==
    /\ Handling(p)
    /\ key[p] # ZeroKey
    /\ objects' = [objects EXCEPT ![p][o] = v]
    /\ rooms' = IF o \in RoomIds
                THEN CreateRooms(rooms, {<<key[p], o>>}, live, room) ELSE rooms
    /\ Send(p, ObjectAudience(p, o), ObjectCreated(p, o, v))
    /\ UNCHANGED <<key, challenged, room, name, images>>

ObjectUpdate(p, o, v) ==
    /\ Handling(p)
    /\ key[p] # ZeroKey
    /\ objects[p][o] # None
    /\ objects' = [objects EXCEPT ![p][o] = v]
    /\ Send(p, ObjectAudience(p, o), ObjectUpdated(p, o, v))
    /\ UNCHANGED <<key, challenged, room, name, images, rooms>>

ObjectRemove(p, o) ==
    /\ Handling(p)
    /\ key[p] # ZeroKey
    /\ objects[p][o] # None
    /\ objects' = [objects EXCEPT ![p][o] = None]
    /\ rooms' = IF o \in RoomIds
                THEN [r \in DOMAIN rooms \ {<<key[p], o>>} |-> rooms[r]] ELSE rooms
    /\ Send(p, ObjectAudience(p, o), ObjectRemoved(p, o))
    /\ UNCHANGED <<key, challenged, room, name, images>>

ImageCreate(p, i) ==
    /\ Handling(p)
    /\ key[p] # ZeroKey
    /\ images' = [images EXCEPT ![p] = @ \cup {i}]
    /\ Send(p, Audience(rooms, room[p], p), ImageCreated(p, i))
    /\ UNCHANGED <<key, challenged, room, name, objects, rooms>>

ImageRemove(p, i) ==
    /\ Handling(p)
    /\ key[p] # ZeroKey
    /\ images' = [images EXCEPT ![p] = @ \ {i}]
    /\ Send(p, Audience(rooms, room[p], p), ImageRemoved(p, i))
    /\ UNCHANGED <<key, challenged, room, name, objects, rooms>>

(* The end of the stream, a timeout, or an event that is refused. *)
RemovePeer(p) ==
    /\ p \in live
    /\ live' = live \ {p}
    /\ free' = Append(free, p)
    /\ key' = [key EXCEPT ![p] = ZeroKey]
    /\ challenged' = [challenged EXCEPT ![p] = FALSE]
    /\ room' = [room EXCEPT ![p] = Lobby]
    /\ name' = [name EXCEPT ![p] = NoName]
    /\ objects' = [objects EXCEPT ![p] = NoObjects]
    /\ images' = [images EXCEPT ![p] = {}]
    /\ out' = [q \in PeerId |->
                IF q = p THEN <<>>
                ELSE out[q] \o Each(Others(p), PeerDisconnect(p))[q]]
    /\ held' = [held EXCEPT ![p] = [q \in PeerId |-> Unknown]]
    /\ poll' = (poll \cup Others(p)) \ {p}
    /\ blocked' = blocked \ (poll' \cup {p})
    /\ UNCHANGED <<last, rooms>>

Next ==
    \/ Accept
    \/ \E p \in PeerId :
        \/ \E n \in 0..Len(out[p]) : PollPeer(p, n)
        \/ Ping(p)
        \/ Hello(p)
        \/ \E k \in Key, r \in RoomKey, n \in Names, objs \in Objects,
              imgs \in SUBSET ImageIds : Connect(p, k, r, n, objs, imgs)
        \/ \E r \in RoomKey : PeerUpdateRoom(p, r)
        \/ \E n \in Names : PeerUpdateName(p, n)
        \/ \E o \in ObjectId, v \in Val : ObjectCreate(p, o, v)
        \/ \E o \in ObjectId, v \in Val : ObjectUpdate(p, o, v)
        \/ \E o \in ObjectId : ObjectRemove(p, o)
        \/ \E i \in ImageIds : ImageCreate(p, i)
        \/ \E i \in ImageIds : ImageRemove(p, i)
        \/ RemovePeer(p)

Spec == Init /\ [][Next]_vars

-----------------------------------------------------------------------------
Frame ==
    [type : {"Challenge", "Pong"}]
    \cup [type : {"PeerConnected"}, peer : PeerId, key : Key \cup {ZeroKey},
          room : RoomKey, name : Names]
    \cup [type : {"PeerDisconnect", "PeerLeave"}, peer : PeerId]
    \cup [type : {"PeerJoin"}, peer : PeerId, objects : Objects]
    \cup [type : {"RoomUpdated"}, peer : PeerId, room : RoomKey]
    \cup [type : {"NameUpdated"}, peer : PeerId, name : Names]
    \cup [type : {"ObjectCreated", "ObjectUpdated"}, peer : PeerId, object : ObjectId,
          value : Val]
    \cup [type : {"ObjectRemoved"}, peer : PeerId, object : ObjectId]
    \cup [type : {"ImageCreated", "ImageRemoved"}, peer : PeerId, image : ImageIds]

TypeOK ==
    /\ last \in 0..MaxId
    /\ free \in Seq(PeerId)
    /\ live \in SUBSET PeerId
    /\ key \in [PeerId -> Key \cup {ZeroKey}]
    /\ challenged \in [PeerId -> BOOLEAN]
    /\ room \in [PeerId -> RoomKey]
    /\ name \in [PeerId -> Names]
    /\ objects \in [PeerId -> Objects]
    /\ images \in [PeerId -> SUBSET ImageIds]
    /\ DOMAIN rooms \in SUBSET RoomKey
    /\ rooms \in [DOMAIN rooms -> SUBSET PeerId]
    /\ out \in [PeerId -> Seq(Frame)]
    /\ held \in [PeerId -> [PeerId -> Info]]
    /\ poll \in SUBSET live
    /\ blocked \in SUBSET live

(* Nothing written stays behind: a peer with frames to write is marked or waits
   for its socket. leave_room marks the peer that leaves instead of the
   members it writes to, and relies on the update sent to all just before. *)
NoStrandedOutput ==
    \A p \in live :
        out[p] # <<>> => p \in poll \cup blocked

(* The handlers, their frames and the client's reading of them are what Relay
   says: view[p] is what the client holds once it has read its buffer. *)
R == INSTANCE Relay WITH view <- [p \in PeerId |-> Read(held[p], out[p])]

Implements == R!Spec

-----------------------------------------------------------------------------
(* The loop of run() goes on and comes round to every peer that is marked or woken,
   a client reads what reaches it, and a socket that is writable again and again
   takes something. *)
Taken(p) == p \in poll \cup blocked /\ \E n \in 1..Len(out[p]) : PollPeer(p, n)

FairSpec == Spec /\ \A p \in PeerId : SF_vars(Taken(p))

(* Once the clients have nothing more to say, everybody has read everything. *)
Delivered ==
    <>[][\E p \in PeerId : \E n \in 0..Len(out[p]) : PollPeer(p, n)]_vars
    => <>[](\A p \in live : out[p] = <<>>)
=============================================================================
