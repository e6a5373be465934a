---------------------------- MODULE RelayProofs ----------------------------
(* What Relay guarantees for any number of clients, identifiers, rooms and
   objects. *)
EXTENDS Relay, TLAPS

(* Every operator on a client's PeerInfo yields a PeerInfo. *)
LEMMA JoinedType ==
    ASSUME NEW info \in Info, NEW objs \in Objects
    PROVE  Joined(info, objs) \in Info
  BY DEF Joined, Info, Objects, ObjectId

LEMMA LeftType ==
    ASSUME NEW info \in Info
    PROVE  Left(info) \in Info
  BY DEF Left, Globals, Info, Objects, ObjectId

LEMMA InfoType ==
    ASSUME NEW info \in Info
    PROVE  /\ \A r \in RoomKey : WithRoom(info, r) \in Info
           /\ \A n \in Names : WithName(info, n) \in Info
           /\ \A o \in ObjectId, v \in Val \cup {None} :
                /\ WithObject(info, o, v) \in Info
                /\ WithUpdate(info, o, v) \in Info
           /\ \A i \in ImageIds : WithImage(info, i) \in Info
  <1>1. \A o \in ObjectId, v \in Val \cup {None} :
          WithObject(info, o, v) \in Info /\ WithUpdate(info, o, v) \in Info
    BY DEF WithObject, WithUpdate, Info, Objects
  <1>2. \A i \in ImageIds : WithImage(info, i) \in Info
    BY DEF WithImage, Info
  <1>3. /\ \A r \in RoomKey : WithRoom(info, r) \in Info
        /\ \A n \in Names : WithName(info, n) \in Info
    BY DEF WithRoom, WithName, Info
  <1> QED
    BY <1>1, <1>2, <1>3

LEMMA UnknownType == Unknown \in Info /\ NoObjects \in Objects
  BY DataAssumption DEF Unknown, Info, NoObjects, Objects, RoomKey

LEMMA IntroductionType ==
    ASSUME NEW k \in Key \cup {ZeroKey}, NEW r \in RoomKey, NEW n \in Names,
           NEW objs \in Objects, NEW imgs \in SUBSET ImageIds
    PROVE  Introduction(k, r, n, objs, imgs) \in Info
  <1>1. Globals(objs) \in Objects
    BY DEF Globals, Objects, ObjectId
  <1> QED
    BY <1>1 DEF Introduction, Info

(* Joining, leaving and creating keep a table of sets of members. *)
LEMMA JoinType ==
    ASSUME NEW D, NEW table \in [D -> SUBSET PeerId], NEW r, NEW p \in PeerId
    PROVE  JoinRoom(table, r, p) \in [D -> SUBSET PeerId]
  BY DEF JoinRoom

LEMMA LeaveType ==
    ASSUME NEW D, NEW table \in [D -> SUBSET PeerId], NEW r, NEW p \in PeerId
    PROVE  LeaveRoom(table, r, p) \in [D -> SUBSET PeerId]
  BY DEF LeaveRoom

LEMMA CreateType ==
    ASSUME NEW D, NEW table \in [D -> SUBSET PeerId], live \in SUBSET PeerId,
           NEW S, NEW where
    PROVE  CreateRooms(table, S, live, where) \in [D \cup S -> SUBSET PeerId]
  BY DEF CreateRooms

(* Telling the others yields tables of PeerInfo. *)
LEMMA TellType ==
    ASSUME NEW to, NEW p \in PeerId, view \in [PeerId -> [PeerId -> Info]],
           NEW entry \in [PeerId -> Info]
    PROVE  Tell(to, p, entry) \in [PeerId -> [PeerId -> Info]]
  BY DEF Tell

LEMMA TypeInit == Init => TypeOK
  BY UnknownType, IdAssumption, DataAssumption DEF Init, TypeOK, RoomKey

LEMMA TypeStep == TypeOK /\ [Next]_vars => TypeOK'
  <1> SUFFICES ASSUME TypeOK, [Next]_vars PROVE TypeOK'
    OBVIOUS
  <1> USE DEF idVars, peerVars
  <1>1. CASE Accept
    <2>1. ASSUME NEW id \in PeerId, AcceptAs(id)
          PROVE  view' \in [PeerId -> [PeerId -> Info]] /\ live' \in SUBSET PeerId
      BY <2>1, UnknownType DEF AcceptAs, TypeOK
    <2>2. CASE free # <<>> /\ free' = Tail(free) /\ last' = last /\ AcceptAs(Head(free))
      <3>1. Head(free) \in PeerId /\ Tail(free) \in Seq(PeerId)
        BY <2>2 DEF TypeOK
      <3> QED
        BY <2>1, <2>2, <3>1 DEF AcceptAs, TypeOK
    <2>3. CASE last < MaxId /\ last' = last + 1 /\ free' = free /\ AcceptAs(Mix[last + 1])
      <3>1. last' \in 0..MaxId /\ Mix[last + 1] \in PeerId
        BY <2>3, IdAssumption DEF TypeOK
      <3> QED
        BY <2>1, <2>3, <3>1 DEF AcceptAs, TypeOK
    <2> QED
      BY <1>1, <2>2, <2>3 DEF Accept
  <1>2. ASSUME NEW p \in PeerId, Hello(p) PROVE TypeOK'
    BY <1>2 DEF Hello, TypeOK
  <1>3. ASSUME NEW p \in PeerId, NEW k \in Key, NEW r \in RoomKey, NEW n \in Names,
               NEW objs \in Objects, NEW imgs \in SUBSET ImageIds,
               Connect(p, k, r, n, objs, imgs)
        PROVE  TypeOK'
    <2> DEFINE created == CreateRooms(rooms, OwnRooms(k, objs), live, room')
               Intro(q) == Introduction(key'[q], room'[q], name'[q], objects'[q], images'[q])
    <2>1. /\ key' \in [PeerId -> Key \cup {ZeroKey}]
          /\ challenged' \in [PeerId -> BOOLEAN]
          /\ room' \in [PeerId -> RoomKey]
          /\ name' \in [PeerId -> Names]
          /\ objects' \in [PeerId -> Objects]
          /\ images' \in [PeerId -> SUBSET ImageIds]
      BY <1>3 DEF Connect, TypeOK
    <2>2. \A y \in PeerId : Intro(y) \in Info /\ Joined(Intro(y), objects'[y]) \in Info
      BY <2>1, IntroductionType, JoinedType
    <2>3. view' \in [PeerId -> [PeerId -> Info]]
      <3>1. \A x, y \in PeerId : view[x][y] \in Info
        BY DEF TypeOK
      <3> QED
        BY <1>3, <2>2, <3>1 DEF Connect
    <2>4. OwnRooms(k, objs) \in SUBSET RoomKey
      BY DEF OwnRooms, RoomKey
    <2>5. created \in [DOMAIN rooms \cup OwnRooms(k, objs) -> SUBSET PeerId]
      BY CreateType DEF TypeOK
    <2>6. DOMAIN rooms' \in SUBSET RoomKey /\ rooms' \in [DOMAIN rooms' -> SUBSET PeerId]
      <3>1. rooms' = JoinRoom(created, r, p)
        BY <1>3 DEF Connect
      <3>2. rooms' \in [DOMAIN rooms \cup OwnRooms(k, objs) -> SUBSET PeerId]
        BY <2>5, <3>1, JoinType
      <3> QED
        BY <2>4, <3>2 DEF TypeOK
    <2> QED
      BY <1>3, <2>1, <2>3, <2>6 DEF Connect, TypeOK
  <1>4. ASSUME NEW p \in PeerId, NEW r \in RoomKey, PeerUpdateRoom(p, r) PROVE TypeOK'
    <2> DEFINE Told(x, y) == IF x \in Others(p) /\ y = p
                             THEN WithRoom(view[x][y], r) ELSE view[x][y]
    <2>1. \A x, y \in PeerId : view[x][y] \in Info /\ Told(x, y) \in Info
      BY InfoType DEF TypeOK
    <2>2. \A x, y \in PeerId : Left(Told(x, y)) \in Info
      BY <2>1, LeftType
    <2>3. \A x, y \in PeerId : /\ Joined(Left(Told(x, y)), objects[y]) \in Info
                               /\ Joined(Told(x, y), objects[y]) \in Info
      BY <2>1, <2>2, JoinedType DEF TypeOK
    <2>4. view' \in [PeerId -> [PeerId -> Info]]
      BY <1>4, <2>1, <2>2, <2>3 DEF PeerUpdateRoom
    <2>5. DOMAIN rooms' \in SUBSET RoomKey /\ rooms' \in [DOMAIN rooms' -> SUBSET PeerId]
      <3>1. rooms' = JoinRoom(LeaveRoom(rooms, room[p], p), r, p)
        BY <1>4 DEF PeerUpdateRoom
      <3>2. LeaveRoom(rooms, room[p], p) \in [DOMAIN rooms -> SUBSET PeerId]
        BY LeaveType DEF TypeOK
      <3>3. rooms' \in [DOMAIN rooms -> SUBSET PeerId]
        BY <3>1, <3>2, JoinType
      <3> QED
        BY <3>3 DEF TypeOK
    <2> QED
      BY <1>4, <2>4, <2>5 DEF PeerUpdateRoom, TypeOK
  <1>5. ASSUME NEW p \in PeerId, NEW n \in Names, PeerUpdateName(p, n) PROVE TypeOK'
    <2>1. view' \in [PeerId -> [PeerId -> Info]]
      <3>1. [x \in PeerId |-> WithName(view[x][p], n)] \in [PeerId -> Info]
        BY InfoType DEF TypeOK
      <3> QED
        BY <1>5, <3>1, TellType DEF PeerUpdateName, TypeOK
    <2> QED
      BY <1>5, <2>1 DEF PeerUpdateName, TypeOK
  <1>6. ASSUME NEW p \in PeerId, NEW o \in ObjectId, NEW v \in Val, ObjectCreate(p, o, v)
        PROVE  TypeOK'
    <2>1. view' \in [PeerId -> [PeerId -> Info]]
      <3>1. [x \in PeerId |-> WithObject(view[x][p], o, v)] \in [PeerId -> Info]
        BY InfoType DEF TypeOK
      <3> QED
        BY <1>6, <3>1, TellType DEF ObjectCreate, TypeOK
    <2>2. objects' \in [PeerId -> Objects]
      BY <1>6 DEF ObjectCreate, TypeOK, Objects
    <2>3. DOMAIN rooms' \in SUBSET RoomKey /\ rooms' \in [DOMAIN rooms' -> SUBSET PeerId]
      <3>1. CASE o \in RoomIds
        <4>1. {<<key[p], o>>} \in SUBSET RoomKey
          BY <1>6, <3>1 DEF ObjectCreate, TypeOK, RoomKey
        <4>2. rooms' \in [DOMAIN rooms \cup {<<key[p], o>>} -> SUBSET PeerId]
          BY <1>6, <3>1, CreateType DEF ObjectCreate, TypeOK
        <4> QED
          BY <4>1, <4>2 DEF TypeOK
      <3> QED
        BY <1>6, <3>1 DEF ObjectCreate, TypeOK
    <2> QED
      BY <1>6, <2>1, <2>2, <2>3 DEF ObjectCreate, TypeOK
  <1>7. ASSUME NEW p \in PeerId, NEW o \in ObjectId, NEW v \in Val, ObjectUpdate(p, o, v)
        PROVE  TypeOK'
    <2>1. view' \in [PeerId -> [PeerId -> Info]]
      <3>1. [x \in PeerId |-> WithUpdate(view[x][p], o, v)] \in [PeerId -> Info]
        BY InfoType DEF TypeOK
      <3> QED
        BY <1>7, <3>1, TellType DEF ObjectUpdate, TypeOK
    <2>2. objects' \in [PeerId -> Objects]
      BY <1>7 DEF ObjectUpdate, TypeOK, Objects
    <2> QED
      BY <1>7, <2>1, <2>2 DEF ObjectUpdate, TypeOK
  <1>8. ASSUME NEW p \in PeerId, NEW o \in ObjectId, ObjectRemove(p, o) PROVE TypeOK'
    <2>1. view' \in [PeerId -> [PeerId -> Info]]
      <3>1. [x \in PeerId |-> WithObject(view[x][p], o, None)] \in [PeerId -> Info]
        BY InfoType DEF TypeOK
      <3> QED
        BY <1>8, <3>1, TellType DEF ObjectRemove, TypeOK
    <2>2. objects' \in [PeerId -> Objects]
      BY <1>8 DEF ObjectRemove, TypeOK, Objects
    <2>3. DOMAIN rooms' \in SUBSET RoomKey /\ rooms' \in [DOMAIN rooms' -> SUBSET PeerId]
      BY <1>8 DEF ObjectRemove, TypeOK
    <2> QED
      BY <1>8, <2>1, <2>2, <2>3 DEF ObjectRemove, TypeOK
  <1>9. ASSUME NEW p \in PeerId, NEW i \in ImageIds, ImageCreate(p, i) PROVE TypeOK'
    <2>1. view' \in [PeerId -> [PeerId -> Info]]
      <3>1. [x \in PeerId |-> WithImage(view[x][p], i)] \in [PeerId -> Info]
        BY InfoType DEF TypeOK
      <3> QED
        BY <1>9, <3>1, TellType DEF ImageCreate, TypeOK
    <2> QED
      BY <1>9, <2>1 DEF ImageCreate, TypeOK
  <1>10. ASSUME NEW p \in PeerId, NEW i \in ImageIds, ImageRemove(p, i) PROVE TypeOK'
    BY <1>10 DEF ImageRemove, TypeOK
  <1>11. ASSUME NEW p \in PeerId, Remove(p) PROVE TypeOK'
    <2>1. view' \in [PeerId -> [PeerId -> Info]]
      BY <1>11, UnknownType, TellType DEF Remove, TypeOK
    <2>2. free' \in Seq(PeerId)
      BY <1>11 DEF Remove, TypeOK
    <2> QED
      BY <1>11, <2>1, <2>2, UnknownType, DataAssumption DEF Remove, TypeOK, RoomKey
  <1>12. CASE UNCHANGED vars
    BY <1>12 DEF vars, TypeOK
  <1> QED
    BY <1>1, <1>2, <1>3, <1>4, <1>5, <1>6, <1>7, <1>8, <1>9, <1>10, <1>11, <1>12 DEF Next

(* Spec never leaves the declared types. *)
THEOREM TypeCorrect == Spec => []TypeOK
  BY TypeInit, TypeStep, PTL DEF Spec
-----------------------------------------------------------------------------
(* Identifiers. *)

(* The identifier of an accepted connection is one nobody uses. *)
LEMMA AcceptFresh ==
    ASSUME TypeOK, IdsSound, Accept
    PROVE  \E id \in PeerId \ live : AcceptAs(id)
  <1>1. CASE free # <<>> /\ free' = Tail(free) /\ last' = last /\ AcceptAs(Head(free))
    <2>1. Head(free) \in PeerId /\ Head(free) = free[1] /\ 1 \in DOMAIN free
      BY <1>1 DEF TypeOK
    <2>2. Head(free) \notin live
      BY <2>1 DEF IdsSound
    <2> QED
      BY <1>1, <2>1, <2>2
  <1>2. CASE last < MaxId /\ last' = last + 1 /\ free' = free /\ AcceptAs(Mix[last + 1])
    <2>1. last + 1 \in 1..MaxId /\ last + 1 \notin 1..last /\ 1..last \subseteq 1..MaxId
      BY <1>2, IdAssumption DEF TypeOK
    <2>2. Mix[last + 1] \notin {Mix[n] : n \in 1..last}
      BY <2>1, IdAssumption
    <2>3. Mix[last + 1] \in PeerId \ live
      BY <2>1, <2>2, IdAssumption DEF IdsSound
    <2> QED
      BY <1>2, <2>3
  <1> QED
    BY <1>1, <1>2 DEF Accept

(* The handlers of events leave the table of connections alone. *)
LEMMA OnlyAcceptAndRemove ==
    ASSUME Next, ~Accept, \A p \in PeerId : ~Remove(p)
    PROVE  UNCHANGED idVars
  <1>1. \A p \in PeerId : Hello(p) => UNCHANGED idVars
    BY DEF Hello
  <1>2. \A p, k, r, n, objs, imgs : Connect(p, k, r, n, objs, imgs) => UNCHANGED idVars
    BY DEF Connect
  <1>3. \A p, r : PeerUpdateRoom(p, r) => UNCHANGED idVars
    BY DEF PeerUpdateRoom
  <1>4. \A p, n : PeerUpdateName(p, n) => UNCHANGED idVars
    BY DEF PeerUpdateName
  <1>5. \A p, o, v : ObjectCreate(p, o, v) => UNCHANGED idVars
    BY DEF ObjectCreate
  <1>6. \A p, o, v : ObjectUpdate(p, o, v) => UNCHANGED idVars
    BY DEF ObjectUpdate
  <1>7. \A p, o : ObjectRemove(p, o) => UNCHANGED idVars
    BY DEF ObjectRemove
  <1>8. \A p, i : ImageCreate(p, i) \/ ImageRemove(p, i) => UNCHANGED idVars
    BY DEF ImageCreate, ImageRemove
  <1> QED
    BY <1>1, <1>2, <1>3, <1>4, <1>5, <1>6, <1>7, <1>8, Zenon DEF Next

LEMMA IdsStep == TypeOK /\ IdsSound /\ [Next]_vars => IdsSound'
  <1> SUFFICES ASSUME TypeOK, IdsSound, [Next]_vars PROVE IdsSound'
    OBVIOUS
  <1> USE DEF idVars, peerVars
  <1>1. CASE free # <<>> /\ free' = Tail(free) /\ last' = last /\ AcceptAs(Head(free))
    <2>1. /\ Len(free) \in Nat /\ Len(free) # 0
          /\ DOMAIN free = 1..Len(free)
          /\ DOMAIN free' = 1..(Len(free) - 1)
          /\ \A i \in DOMAIN free' : i + 1 \in DOMAIN free /\ free'[i] = free[i + 1]
          /\ Head(free) = free[1]
          /\ live' = live \cup {free[1]}
      BY <1>1 DEF TypeOK, AcceptAs
    <2>2. \A i, j \in DOMAIN free' : free'[i] = free'[j] => i = j
      BY <2>1 DEF IdsSound
    <2>3. \A i \in DOMAIN free' : free'[i] \notin live'
      BY <2>1 DEF IdsSound
    <2>4. live' \cup {free'[i] : i \in DOMAIN free'} = live \cup {free[i] : i \in DOMAIN free}
      <3>1. \A i \in DOMAIN free : i = 1 \/ (i - 1 \in DOMAIN free' /\ free'[i - 1] = free[i])
        BY <2>1
      <3> QED
        BY <2>1, <3>1
    <2> QED
      BY <1>1, <2>2, <2>3, <2>4 DEF IdsSound
  <1>2. CASE free = <<>> /\ last < MaxId /\ last' = last + 1 /\ free' = free
             /\ AcceptAs(Mix[last + 1])
    <2>1. last + 1 \in 1..MaxId /\ 1..last' = 1..last \cup {last + 1}
      BY <1>2, IdAssumption DEF TypeOK
    <2>2. live' = live \cup {Mix[last + 1]} /\ DOMAIN free = {}
      BY <1>2 DEF AcceptAs
    <2>3. {Mix[n] : n \in 1..last'} = {Mix[n] : n \in 1..last} \cup {Mix[last + 1]}
      BY <2>1
    <2>4. {free[i] : i \in DOMAIN free} = {} /\ {free'[i] : i \in DOMAIN free'} = {}
      BY <1>2, <2>2
    <2>5. {Mix[n] : n \in 1..last} = live
      BY <2>4 DEF IdsSound
    <2>6. {Mix[n] : n \in 1..last'} = live' \cup {free'[i] : i \in DOMAIN free'}
      BY <2>2, <2>3, <2>4, <2>5
    <2>7. DOMAIN free' = {}
      BY <1>2, <2>2
    <2> QED
      BY <2>6, <2>7 DEF IdsSound
  <1>3. CASE UNCHANGED idVars
    BY <1>3 DEF IdsSound
  <1>4. ASSUME NEW p \in PeerId, Remove(p) PROVE IdsSound'
    <2>1. /\ Len(free) \in Nat
          /\ DOMAIN free = 1..Len(free)
          /\ DOMAIN free' = 1..(Len(free) + 1)
          /\ \A i \in DOMAIN free : i \in DOMAIN free' /\ free'[i] = free[i]
          /\ free'[Len(free) + 1] = p
          /\ live' = live \ {p} /\ p \in live /\ last' = last
      BY <1>4 DEF TypeOK, Remove
    <2>2. \A i \in DOMAIN free' : i \in DOMAIN free \/ i = Len(free) + 1
      BY <2>1
    <2>3. \A i, j \in DOMAIN free' : free'[i] = free'[j] => i = j
      BY <2>1, <2>2 DEF IdsSound
    <2>4. \A i \in DOMAIN free' : free'[i] \notin live'
      BY <2>1, <2>2 DEF IdsSound
    <2>5. live' \cup {free'[i] : i \in DOMAIN free'} = live \cup {free[i] : i \in DOMAIN free}
      BY <2>1, <2>2
    <2> QED
      BY <2>1, <2>3, <2>4, <2>5 DEF IdsSound
  <1>5. Accept => IdsSound'
    BY <1>1, <1>2 DEF Accept
  <1>6. UNCHANGED vars => UNCHANGED idVars
    BY DEF vars
  <1> QED
    BY <1>3, <1>4, <1>5, <1>6, OnlyAcceptAndRemove

(* However connections come and go, no identifier is shared or lost. *)
THEOREM IdsAreSound == Spec => []IdsSound
  <1>1. Init => IdsSound
    BY IdAssumption DEF Init, IdsSound
  <1> QED
    BY <1>1, TypeInit, TypeStep, IdsStep, PTL DEF Spec
-----------------------------------------------------------------------------
(* What the operators on a PeerInfo keep and what they add. *)

SameHeader(i, j) == i.known = j.known /\ i.key = j.key /\ i.room = j.room /\ i.name = j.name

LEMMA JoinedFacts ==
    ASSUME NEW info \in Info, NEW objs \in Objects
    PROVE  /\ SameHeader(Joined(info, objs), info)
           /\ \A o \in RoomIds : Joined(info, objs).objects[o] = info.objects[o]
           /\ info.known => \A o \in TokenIds :
                objs[o] # None => Joined(info, objs).objects[o] = objs[o]
  BY DataAssumption DEF SameHeader, Joined, Info, Objects, ObjectId

LEMMA LeftFacts ==
    ASSUME NEW info \in Info
    PROVE  /\ SameHeader(Left(info), info)
           /\ \A o \in RoomIds : Left(info).objects[o] = info.objects[o]
  BY DEF SameHeader, Left, Globals, Info, Objects, ObjectId

LEMMA IntroductionFacts ==
    ASSUME NEW k \in Key \cup {ZeroKey}, NEW r \in RoomKey, NEW n \in Names,
           NEW objs \in Objects, NEW imgs \in SUBSET ImageIds
    PROVE  LET i == Introduction(k, r, n, objs, imgs) IN
           /\ i.known /\ i.key = k /\ i.room = r /\ i.name = n
           /\ \A o \in RoomIds : i.objects[o] = objs[o]
  BY DEF Introduction, Globals, ObjectId

LEMMA WithFacts ==
    ASSUME NEW info \in Info
    PROVE  /\ \A r \in RoomKey :
                /\ WithRoom(info, r).known = info.known
                /\ WithRoom(info, r).key = info.key
                /\ WithRoom(info, r).name = info.name
                /\ WithRoom(info, r).objects = info.objects
                /\ info.known => WithRoom(info, r).room = r
           /\ \A n \in Names :
                /\ WithName(info, n).known = info.known
                /\ WithName(info, n).key = info.key
                /\ WithName(info, n).room = info.room
                /\ WithName(info, n).objects = info.objects
                /\ info.known => WithName(info, n).name = n
  BY DEF WithRoom, WithName, Info

LEMMA WithObjectFacts ==
    ASSUME NEW info \in Info, NEW o \in ObjectId, NEW v \in Val \cup {None}
    PROVE  /\ SameHeader(WithObject(info, o, v), info)
           /\ \A a \in ObjectId : a # o => WithObject(info, o, v).objects[a] = info.objects[a]
           /\ info.known => WithObject(info, o, v).objects[o] = v
           /\ SameHeader(WithUpdate(info, o, v), info)
           /\ \A a \in ObjectId : a # o => WithUpdate(info, o, v).objects[a] = info.objects[a]
           /\ info.known /\ info.objects[o] # None => WithUpdate(info, o, v).objects[o] = v
  <1>1. info.objects \in [ObjectId -> Val \cup {None}] /\ info.known \in BOOLEAN
    BY DEF Info, Objects
  <1>2. CASE ~info.known
    BY <1>1, <1>2 DEF SameHeader, WithObject, WithUpdate
  <1>3. CASE info.known
    <2>1. WithObject(info, o, v) = [info EXCEPT !.objects[o] = v]
      BY <1>3 DEF WithObject
    <2>2. WithUpdate(info, o, v) =
            IF info.objects[o] # None THEN [info EXCEPT !.objects[o] = v] ELSE info
      BY <1>3 DEF WithUpdate
    <2> QED
      BY <1>1, <2>1, <2>2 DEF SameHeader, Info
  <1> QED
    BY <1>1, <1>2, <1>3

LEMMA WithImageFacts ==
    ASSUME NEW info \in Info, NEW i \in ImageIds
    PROVE  SameHeader(WithImage(info, i), info) /\ WithImage(info, i).objects = info.objects
  BY DEF SameHeader, WithImage, Info

(* What a client holds of one peer after others were told about p. *)
LEMMA TellAt ==
    ASSUME view \in [PeerId -> [PeerId -> Info]], NEW to, NEW p \in PeerId, NEW entry,
           NEW x \in PeerId, NEW y \in PeerId
    PROVE  Tell(to, p, entry)[x][y] =
             IF x \in to /\ y = p THEN entry[x] ELSE view[x][y]
  BY DEF Tell
-----------------------------------------------------------------------------
(* The step of a handler, seen entry by entry. *)

(* Connect introduces p and every other peer to each other and leaves the rest. *)
LEMMA ConnectView ==
    ASSUME TypeOK, TypeOK', NEW p \in PeerId, NEW k \in Key, NEW r \in RoomKey,
           NEW n \in Names, NEW objs \in Objects, NEW imgs \in SUBSET ImageIds,
           Connect(p, k, r, n, objs, imgs), NEW x \in PeerId, NEW y \in PeerId
    PROVE  /\ (x = p /\ y \in Others(p)) \/ (x \in Others(p) /\ y = p) =>
                /\ view'[x][y].known
                /\ view'[x][y].key = key'[y]
                /\ view'[x][y].room = room'[y]
                /\ view'[x][y].name = name'[y]
                /\ \A o \in RoomIds : view'[x][y].objects[o] = objects'[y][o]
           /\ ~((x = p /\ y \in Others(p)) \/ (x \in Others(p) /\ y = p)) =>
                view'[x][y] = view[x][y]
  <1> DEFINE met == Audience(CreateRooms(rooms, OwnRooms(k, objs), live, room'), r, p)
             i == Introduction(key'[y], room'[y], name'[y], objects'[y], images'[y])
  <1>1. view'[x][y] =
          IF (x = p /\ y \in Others(p)) \/ (x \in Others(p) /\ y = p)
          THEN IF x \in met \/ y \in met THEN Joined(i, objects'[y]) ELSE i
          ELSE view[x][y]
    BY DEF Connect
  <1>2. /\ key'[y] \in Key \cup {ZeroKey} /\ room'[y] \in RoomKey /\ name'[y] \in Names
        /\ objects'[y] \in Objects /\ images'[y] \in SUBSET ImageIds
    BY DEF TypeOK
  <1>3. i \in Info
    BY <1>2, IntroductionType
  <1>4. /\ i.known /\ i.key = key'[y] /\ i.room = room'[y] /\ i.name = name'[y]
        /\ \A o \in RoomIds : i.objects[o] = objects'[y][o]
    BY <1>2, IntroductionFacts
  <1>5. /\ SameHeader(Joined(i, objects'[y]), i)
        /\ \A o \in RoomIds : Joined(i, objects'[y]).objects[o] = i.objects[o]
    BY <1>2, <1>3, JoinedFacts
  <1> HIDE DEF met, i
  <1> QED
    BY <1>1, <1>4, <1>5 DEF SameHeader

(* A change of room keeps an entry, but for the room of p itself. *)
LEMMA RoomView ==
    ASSUME TypeOK, NEW p \in PeerId, NEW r \in RoomKey, PeerUpdateRoom(p, r),
           NEW x \in PeerId, NEW y \in PeerId
    PROVE  /\ view'[x][y].known = view[x][y].known
           /\ view'[x][y].key = view[x][y].key
           /\ view'[x][y].name = view[x][y].name
           /\ \A o \in RoomIds : view'[x][y].objects[o] = view[x][y].objects[o]
           /\ view[x][y].known =>
                view'[x][y].room = IF x \in Others(p) /\ y = p THEN r ELSE view[x][y].room
           /\ x # p /\ y # p => view'[x][y] = view[x][y]
  <1> DEFINE told == IF x \in Others(p) /\ y = p THEN WithRoom(view[x][y], r) ELSE view[x][y]
  <1>1. /\ \/ view'[x][y] = told
           \/ view'[x][y] = Left(told)
           \/ view'[x][y] = Joined(told, objects[y])
           \/ view'[x][y] = Joined(Left(told), objects[y])
        /\ x # p /\ y # p => view'[x][y] = view[x][y]
    BY DEF PeerUpdateRoom
  <1>2. view[x][y] \in Info /\ objects[y] \in Objects
    BY DEF TypeOK
  <1>3. /\ told \in Info
        /\ told.known = view[x][y].known /\ told.key = view[x][y].key
        /\ told.name = view[x][y].name /\ told.objects = view[x][y].objects
        /\ view[x][y].known =>
             told.room = IF x \in Others(p) /\ y = p THEN r ELSE view[x][y].room
    BY <1>2, InfoType, WithFacts
  <1> HIDE DEF told
  <1>4. /\ Left(told) \in Info /\ SameHeader(Left(told), told)
        /\ \A o \in RoomIds : Left(told).objects[o] = told.objects[o]
    BY <1>3, LeftType, LeftFacts
  <1>5. /\ SameHeader(Joined(told, objects[y]), told)
        /\ \A o \in RoomIds : Joined(told, objects[y]).objects[o] = told.objects[o]
    BY <1>2, <1>3, JoinedFacts
  <1>6. /\ SameHeader(Joined(Left(told), objects[y]), Left(told))
        /\ \A o \in RoomIds : Joined(Left(told), objects[y]).objects[o] = Left(told).objects[o]
    BY <1>2, <1>4, JoinedFacts
  <1> QED
    BY <1>1, <1>3, <1>4, <1>5, <1>6 DEF SameHeader

(* A new name changes nothing else. *)
LEMMA NameView ==
    ASSUME TypeOK, NEW p \in PeerId, NEW n \in Names, PeerUpdateName(p, n),
           NEW x \in PeerId, NEW y \in PeerId
    PROVE  /\ view'[x][y].known = view[x][y].known
           /\ view'[x][y].key = view[x][y].key
           /\ view'[x][y].room = view[x][y].room
           /\ view'[x][y].objects = view[x][y].objects
           /\ view[x][y].known =>
                view'[x][y].name = IF x \in Others(p) /\ y = p THEN n ELSE view[x][y].name
  <1>1. view'[x][y] =
          IF x \in Others(p) /\ y = p THEN WithName(view[x][y], n) ELSE view[x][y]
    BY TellAt DEF PeerUpdateName, TypeOK
  <1>2. view[x][y] \in Info
    BY DEF TypeOK
  <1>3. /\ WithName(view[x][y], n).known = view[x][y].known
        /\ WithName(view[x][y], n).key = view[x][y].key
        /\ WithName(view[x][y], n).room = view[x][y].room
        /\ WithName(view[x][y], n).objects = view[x][y].objects
        /\ view[x][y].known => WithName(view[x][y], n).name = n
    BY <1>2, WithFacts
  <1> QED
    BY <1>1, <1>3

(* A message about object o of p reaches that object only. *)
ObjectStep(p, o, v) ==
    \/ ObjectCreate(p, o, v)
    \/ ObjectUpdate(p, o, v)
    \/ ObjectRemove(p, o) /\ v = None

LEMMA ObjectView ==
    ASSUME TypeOK, NEW p \in PeerId, NEW o \in ObjectId, NEW v \in Val \cup {None},
           ObjectStep(p, o, v), NEW x \in PeerId, NEW y \in PeerId
    PROVE  /\ SameHeader(view'[x][y], view[x][y])
           /\ \A a \in ObjectId : ~(y = p /\ a = o) =>
                view'[x][y].objects[a] = view[x][y].objects[a]
           /\ /\ y = p /\ x \in ObjectAudience(p, o) /\ view[x][y].known
              /\ objects[y][o] # None => view[x][y].objects[o] = objects[y][o]
              => view'[x][y].objects[o] = v
  <1>1. /\ \/ view'[x][y] =
                IF x \in ObjectAudience(p, o) /\ y = p
                THEN WithObject(view[x][y], o, v) ELSE view[x][y]
           \/ /\ view'[x][y] =
                   IF x \in ObjectAudience(p, o) /\ y = p
                   THEN WithUpdate(view[x][y], o, v) ELSE view[x][y]
              /\ objects[p][o] # None
    <2>1. CASE ObjectCreate(p, o, v)
      BY <2>1, TellAt DEF ObjectCreate, TypeOK
    <2>2. CASE ObjectUpdate(p, o, v)
      BY <2>2, TellAt DEF ObjectUpdate, TypeOK
    <2>3. CASE ObjectRemove(p, o) /\ v = None
      BY <2>3, TellAt DEF ObjectRemove, TypeOK
    <2> QED
      BY <2>1, <2>2, <2>3 DEF ObjectStep
  <1>2. view[x][y] \in Info
    BY DEF TypeOK
  <1> DEFINE i == view[x][y]
  <1>3. /\ SameHeader(WithObject(i, o, v), i)
        /\ \A a \in ObjectId : a # o => WithObject(i, o, v).objects[a] = i.objects[a]
        /\ i.known => WithObject(i, o, v).objects[o] = v
        /\ SameHeader(WithUpdate(i, o, v), i)
        /\ \A a \in ObjectId : a # o => WithUpdate(i, o, v).objects[a] = i.objects[a]
        /\ i.known /\ i.objects[o] # None => WithUpdate(i, o, v).objects[o] = v
    BY <1>2, WithObjectFacts
  <1>4. SameHeader(i, i)
    BY DEF SameHeader
  <1> QED
    BY <1>1, <1>3, <1>4

LEMMA ObjectFrame ==
    ASSUME TypeOK, NEW p \in PeerId, NEW o \in ObjectId, NEW v \in Val \cup {None},
           ObjectStep(p, o, v)
    PROVE  /\ p \in live /\ key[p] # ZeroKey
           /\ live' = live /\ key' = key /\ room' = room /\ name' = name
           /\ objects' = [objects EXCEPT ![p][o] = v]
  <1> USE DEF idVars
  <1>1. CASE ObjectCreate(p, o, v)
    BY <1>1 DEF ObjectCreate
  <1>2. CASE ObjectUpdate(p, o, v)
    BY <1>2 DEF ObjectUpdate
  <1>3. CASE ObjectRemove(p, o) /\ v = None
    BY <1>3 DEF ObjectRemove
  <1> QED
    BY <1>1, <1>2, <1>3 DEF ObjectStep

(* An image touches neither the roster nor objects. *)
LEMMA ImageView ==
    ASSUME TypeOK, NEW p \in PeerId, NEW i \in ImageIds,
           ImageCreate(p, i) \/ ImageRemove(p, i), NEW x \in PeerId, NEW y \in PeerId
    PROVE  /\ SameHeader(view'[x][y], view[x][y])
           /\ view'[x][y].objects = view[x][y].objects
           /\ live' = live /\ key' = key /\ room' = room /\ name' = name
           /\ objects' = objects
  <1> USE DEF idVars
  <1>1. view'[x][y] = view[x][y] \/ view'[x][y] = WithImage(view[x][y], i)
    BY TellAt DEF ImageCreate, ImageRemove, TypeOK
  <1>2. view[x][y] \in Info
    BY DEF TypeOK
  <1>3. /\ SameHeader(WithImage(view[x][y], i), view[x][y])
        /\ WithImage(view[x][y], i).objects = view[x][y].objects
        /\ SameHeader(view[x][y], view[x][y])
    BY <1>2, WithImageFacts DEF SameHeader
  <1>4. /\ live' = live /\ key' = key /\ room' = room /\ name' = name
        /\ objects' = objects
    BY DEF ImageCreate, ImageRemove
  <1> QED
    BY <1>1, <1>3, <1>4

LEMMA RemoveView ==
    ASSUME TypeOK, NEW p \in PeerId, Remove(p), NEW x \in PeerId, NEW y \in PeerId
    PROVE  view'[x][y] = IF x = p \/ (x \in Others(p) /\ y = p) THEN Unknown ELSE view[x][y]
  BY TellAt DEF Remove, TypeOK, Tell
-----------------------------------------------------------------------------
(* Rosters. *)

(* Nobody appears in a table but by Connect. *)
LEMMA GhostStep ==
    TypeOK /\ TypeOK' /\ IdsSound /\ NoGhostPeers /\ [Next]_vars => NoGhostPeers'
  <1> SUFFICES ASSUME TypeOK, TypeOK', IdsSound, NoGhostPeers, [Next]_vars,
                      NEW x \in PeerId, NEW y \in PeerId, view'[x][y].known
               PROVE  x \in live' /\ y \in live' /\ y # x
    BY DEF NoGhostPeers
  <1> USE DEF idVars, peerVars
  <1>1. CASE Accept
    <2>1. PICK id \in PeerId \ live : AcceptAs(id)
      BY <1>1, AcceptFresh
    <2>2. live' = live \cup {id} /\ view' = view
      BY <2>1 DEF AcceptAs
    <2> QED
      BY <2>2 DEF NoGhostPeers, Unknown
  <1>2. ASSUME NEW p \in PeerId, Hello(p) PROVE x \in live' /\ y \in live' /\ y # x
    BY <1>2 DEF Hello, NoGhostPeers
  <1>3. ASSUME NEW p \in PeerId, NEW k \in Key, NEW r \in RoomKey, NEW n \in Names,
               NEW objs \in Objects, NEW imgs \in SUBSET ImageIds,
               Connect(p, k, r, n, objs, imgs)
        PROVE  x \in live' /\ y \in live' /\ y # x
    <2>1. live' = live /\ p \in live
      BY <1>3 DEF Connect
    <2> QED
      BY <1>3, <2>1, ConnectView DEF NoGhostPeers, Others
  <1>4. ASSUME NEW p \in PeerId, NEW r \in RoomKey, PeerUpdateRoom(p, r)
        PROVE  x \in live' /\ y \in live' /\ y # x
    <2>1. live' = live
      BY <1>4 DEF PeerUpdateRoom
    <2> QED
      BY <1>4, <2>1, RoomView DEF NoGhostPeers
  <1>5. ASSUME NEW p \in PeerId, NEW n \in Names, PeerUpdateName(p, n)
        PROVE  x \in live' /\ y \in live' /\ y # x
    <2>1. live' = live
      BY <1>5 DEF PeerUpdateName
    <2> QED
      BY <1>5, <2>1, NameView DEF NoGhostPeers
  <1>6. ASSUME NEW p \in PeerId, NEW o \in ObjectId, NEW v \in Val \cup {None},
               ObjectStep(p, o, v)
        PROVE  x \in live' /\ y \in live' /\ y # x
    <2>1. live' = live
      BY <1>6, ObjectFrame
    <2>2. SameHeader(view'[x][y], view[x][y])
      BY <1>6, ObjectView
    <2> QED
      BY <2>1, <2>2 DEF NoGhostPeers, SameHeader
  <1>7. ASSUME NEW p \in PeerId, NEW i \in ImageIds, ImageCreate(p, i) \/ ImageRemove(p, i)
        PROVE  x \in live' /\ y \in live' /\ y # x
    BY <1>7, ImageView DEF NoGhostPeers, SameHeader
  <1>8. ASSUME NEW p \in PeerId, Remove(p) PROVE x \in live' /\ y \in live' /\ y # x
    <2>1. live' = live \ {p}
      BY <1>8 DEF Remove
    <2>2. view'[x][y] =
            IF x = p \/ (x \in Others(p) /\ y = p) THEN Unknown ELSE view[x][y]
      BY <1>8, RemoveView
    <2> QED
      BY <2>1, <2>2 DEF NoGhostPeers, Unknown, Others
  <1>9. CASE UNCHANGED vars
    BY <1>9 DEF vars, NoGhostPeers
  <1> QED
    BY <1>1, <1>2, <1>3, <1>4, <1>5, <1>6, <1>7, <1>8, <1>9 DEF Next, ObjectStep
-----------------------------------------------------------------------------
(* Public keys. *)

(* Only Connect and Remove touch a public key. *)
LEMMA KeysKept ==
    ASSUME Next, ~Accept, \A p \in PeerId : ~Remove(p),
           \A p \in PeerId, k \in Key, r \in RoomKey, n \in Names, objs \in Objects,
              imgs \in SUBSET ImageIds : ~Connect(p, k, r, n, objs, imgs)
    PROVE  live' = live /\ key' = key
  <1> USE DEF idVars
  <1>1. \A p : Hello(p) => live' = live /\ key' = key
    BY DEF Hello
  <1>2. \A p, r : PeerUpdateRoom(p, r) => live' = live /\ key' = key
    BY DEF PeerUpdateRoom
  <1>3. \A p, n : PeerUpdateName(p, n) => live' = live /\ key' = key
    BY DEF PeerUpdateName
  <1>4. \A p, o, v : ObjectCreate(p, o, v) => live' = live /\ key' = key
    BY DEF ObjectCreate
  <1>5. \A p, o, v : ObjectUpdate(p, o, v) => live' = live /\ key' = key
    BY DEF ObjectUpdate
  <1>6. \A p, o : ObjectRemove(p, o) => live' = live /\ key' = key
    BY DEF ObjectRemove
  <1>7. \A p, i : ImageCreate(p, i) \/ ImageRemove(p, i) => live' = live /\ key' = key
    BY DEF ImageCreate, ImageRemove
  <1> QED
    BY <1>1, <1>2, <1>3, <1>4, <1>5, <1>6, <1>7, Zenon DEF Next

LEMMA KeysStep ==
    /\ TypeOK /\ IdsSound /\ IdleSlots /\ UniqueKeys /\ [Next]_vars
    => IdleSlots' /\ UniqueKeys'
  <1> SUFFICES ASSUME TypeOK, IdsSound, IdleSlots, UniqueKeys, [Next]_vars
               PROVE  IdleSlots' /\ UniqueKeys'
    OBVIOUS
  <1> USE DEF idVars, peerVars
  <1>1. CASE Accept
    <2>1. PICK id \in PeerId \ live : AcceptAs(id)
      BY <1>1, AcceptFresh
    <2>2. live' = live \cup {id} /\ key' = key /\ key[id] = ZeroKey
      BY <2>1 DEF AcceptAs, IdleSlots
    <2> QED
      BY <2>2 DEF IdleSlots, UniqueKeys
  <1>2. ASSUME NEW p \in PeerId, NEW k \in Key, NEW r \in RoomKey, NEW n \in Names,
               NEW objs \in Objects, NEW imgs \in SUBSET ImageIds,
               Connect(p, k, r, n, objs, imgs)
        PROVE  IdleSlots' /\ UniqueKeys'
    <2>1. /\ p \in live /\ live' = live /\ key' = [key EXCEPT ![p] = k]
          /\ \A q \in live \ {p} : key[q] # k
      BY <1>2 DEF Connect, Fresh, Others
    <2> QED
      BY <2>1 DEF IdleSlots, UniqueKeys, TypeOK
  <1>3. ASSUME NEW p \in PeerId, Remove(p) PROVE IdleSlots' /\ UniqueKeys'
    <2>1. live' = live \ {p} /\ key' = [key EXCEPT ![p] = ZeroKey]
      BY <1>3 DEF Remove
    <2> QED
      BY <2>1 DEF IdleSlots, UniqueKeys, TypeOK
  <1>4. ASSUME live' = live, key' = key PROVE IdleSlots' /\ UniqueKeys'
    BY <1>4 DEF IdleSlots, UniqueKeys
  <1>5. UNCHANGED vars => live' = live /\ key' = key
    BY DEF vars
  <1> QED
    BY <1>1, <1>2, <1>3, <1>4, <1>5, KeysKept

(* No two connections ever speak for the same public key. *)
THEOREM KeysAreUnique == Spec => []UniqueKeys
  <1>1. Init => IdsSound /\ IdleSlots /\ UniqueKeys
    BY IdAssumption DEF Init, IdsSound, IdleSlots, UniqueKeys
  <1> QED
    BY <1>1, TypeInit, TypeStep, IdsStep, KeysStep, PTL DEF Spec
-----------------------------------------------------------------------------
(* Rooms. *)

LEMMA RoomsStep ==
    /\ TypeOK /\ IdsSound /\ IdleSlots /\ LobbyOpen /\ RoomComplete /\ [Next]_vars
    => LobbyOpen' /\ RoomComplete'
  <1> SUFFICES ASSUME TypeOK, IdsSound, IdleSlots, LobbyOpen, RoomComplete, [Next]_vars
               PROVE  LobbyOpen' /\ RoomComplete'
    OBVIOUS
  <1> USE DEF idVars, peerVars
  <1>0. ASSUME live' = live, key' = key, room' = room, rooms' = rooms
        PROVE  LobbyOpen' /\ RoomComplete'
    BY <1>0 DEF LobbyOpen, RoomComplete, Authenticated
  <1>1. CASE Accept
    <2>1. PICK id \in PeerId \ live : AcceptAs(id)
      BY <1>1, AcceptFresh
    <2>2. live' = live \cup {id} /\ key' = key /\ room' = room /\ rooms' = rooms
          /\ key[id] = ZeroKey
      BY <2>1 DEF AcceptAs, IdleSlots
    <2> QED
      BY <2>2 DEF LobbyOpen, RoomComplete, Authenticated
  <1>2. ASSUME NEW p \in PeerId, Hello(p) PROVE LobbyOpen' /\ RoomComplete'
    BY <1>0, <1>2 DEF Hello
  <1>3. ASSUME NEW p \in PeerId, NEW k \in Key, NEW r \in RoomKey, NEW n \in Names,
               NEW objs \in Objects, NEW imgs \in SUBSET ImageIds,
               Connect(p, k, r, n, objs, imgs)
        PROVE  LobbyOpen' /\ RoomComplete'
    <2> DEFINE S == OwnRooms(k, objs)
               created == CreateRooms(rooms, S, live, room')
    <2>1. /\ p \in live /\ live' = live /\ key' = [key EXCEPT ![p] = k]
          /\ room' = [room EXCEPT ![p] = r] /\ rooms' = JoinRoom(created, r, p)
      BY <1>3 DEF Connect
    <2>2. /\ DOMAIN created = DOMAIN rooms \cup S
          /\ \A s \in DOMAIN created : created[s] =
               IF s \in S THEN {q \in live : room'[q] = s} ELSE rooms[s]
      BY DEF CreateRooms
    <2>3. /\ DOMAIN rooms' = DOMAIN rooms \cup S
          /\ \A s \in DOMAIN rooms' : rooms'[s] =
               IF s = r THEN created[s] \cup {p} ELSE created[s]
      BY <2>1, <2>2 DEF JoinRoom
    <2> HIDE DEF created
    <2>4. LobbyOpen'
      BY <2>2, <2>3 DEF LobbyOpen
    <2>5. ASSUME NEW q \in live', Authenticated(q)', room'[q] \in DOMAIN rooms'
          PROVE  q \in rooms'[room'[q]]
      <3>1. CASE q = p
        BY <2>1, <2>2, <2>3, <2>5, <3>1 DEF TypeOK
      <3>2. CASE q # p
        <4>1. room'[q] = room[q] /\ key[q] # ZeroKey
          BY <2>1, <2>5, <3>2 DEF Authenticated, TypeOK
        <4>2. q \in created[room[q]]
          <5>1. CASE room[q] \in S
            BY <2>1, <2>2, <2>5, <4>1, <5>1
          <5>2. CASE room[q] \notin S
            BY <2>1, <2>2, <2>3, <2>5, <4>1, <5>2 DEF RoomComplete, Authenticated
          <5> QED
            BY <5>1, <5>2
        <4> QED
          BY <2>3, <2>5, <4>1, <4>2
      <3> QED
        BY <3>1, <3>2
    <2> QED
      BY <2>4, <2>5 DEF RoomComplete
  <1>4. ASSUME NEW p \in PeerId, NEW r \in RoomKey, PeerUpdateRoom(p, r)
        PROVE  LobbyOpen' /\ RoomComplete'
    <2> DEFINE departed == LeaveRoom(rooms, room[p], p)
    <2>1. /\ p \in live /\ live' = live /\ key' = key
          /\ room' = [room EXCEPT ![p] = r] /\ rooms' = JoinRoom(departed, r, p)
      BY <1>4 DEF PeerUpdateRoom
    <2>2. /\ DOMAIN departed = DOMAIN rooms
          /\ \A s \in DOMAIN rooms : departed[s] =
               IF s = room[p] THEN rooms[s] \ {p} ELSE rooms[s]
      BY DEF LeaveRoom
    <2>3. /\ DOMAIN rooms' = DOMAIN rooms
          /\ \A s \in DOMAIN rooms : rooms'[s] =
               IF s = r THEN departed[s] \cup {p} ELSE departed[s]
      BY <2>1, <2>2 DEF JoinRoom
    <2> HIDE DEF departed
    <2> QED
      BY <2>1, <2>2, <2>3 DEF LobbyOpen, RoomComplete, Authenticated, TypeOK
  <1>5. ASSUME NEW p \in PeerId, NEW n \in Names, PeerUpdateName(p, n)
        PROVE  LobbyOpen' /\ RoomComplete'
    BY <1>0, <1>5 DEF PeerUpdateName
  <1>6. ASSUME NEW p \in PeerId, NEW o \in ObjectId, NEW v \in Val, ObjectCreate(p, o, v)
        PROVE  LobbyOpen' /\ RoomComplete'
    <2>1. live' = live /\ key' = key /\ room' = room
      BY <1>6 DEF ObjectCreate
    <2>2. CASE o \in RoomIds
      <3>1. rooms' = CreateRooms(rooms, {<<key[p], o>>}, live, room)
        BY <1>6, <2>2 DEF ObjectCreate
      <3>2. /\ DOMAIN rooms' = DOMAIN rooms \cup {<<key[p], o>>}
            /\ \A s \in DOMAIN rooms' : rooms'[s] =
                 IF s \in {<<key[p], o>>} THEN {q \in live : room[q] = s} ELSE rooms[s]
        BY <3>1 DEF CreateRooms
      <3> QED
        BY <2>1, <3>2 DEF LobbyOpen, RoomComplete, Authenticated
    <2>3. CASE o \notin RoomIds
      BY <1>0, <1>6, <2>1, <2>3 DEF ObjectCreate
    <2> QED
      BY <2>2, <2>3
  <1>7. ASSUME NEW p \in PeerId, NEW o \in ObjectId, NEW v \in Val, ObjectUpdate(p, o, v)
        PROVE  LobbyOpen' /\ RoomComplete'
    BY <1>0, <1>7 DEF ObjectUpdate
  <1>8. ASSUME NEW p \in PeerId, NEW o \in ObjectId, ObjectRemove(p, o)
        PROVE  LobbyOpen' /\ RoomComplete'
    <2>1. live' = live /\ key' = key /\ room' = room
      BY <1>8 DEF ObjectRemove
    <2>2. CASE o \in RoomIds
      <3>1. rooms' = [r \in DOMAIN rooms \ {<<key[p], o>>} |-> rooms[r]]
        BY <1>8, <2>2 DEF ObjectRemove
      <3>2. key[p] \in Key
        BY <1>8 DEF ObjectRemove, TypeOK
      <3>3. Lobby # <<key[p], o>>
        BY <2>2, <3>2, DataAssumption
      <3> QED
        BY <2>1, <3>1, <3>3 DEF LobbyOpen, RoomComplete, Authenticated
    <2>3. CASE o \notin RoomIds
      BY <1>0, <1>8, <2>1, <2>3 DEF ObjectRemove
    <2> QED
      BY <2>2, <2>3
  <1>9. ASSUME NEW p \in PeerId, NEW i \in ImageIds, ImageCreate(p, i) \/ ImageRemove(p, i)
        PROVE  LobbyOpen' /\ RoomComplete'
    BY <1>0, <1>9 DEF ImageCreate, ImageRemove
  <1>10. ASSUME NEW p \in PeerId, Remove(p) PROVE LobbyOpen' /\ RoomComplete'
    <2>1. /\ live' = live \ {p} /\ key' = [key EXCEPT ![p] = ZeroKey]
          /\ room' = [room EXCEPT ![p] = Lobby] /\ rooms' = rooms
      BY <1>10 DEF Remove
    <2> QED
      BY <2>1 DEF LobbyOpen, RoomComplete, Authenticated, TypeOK
  <1>11. CASE UNCHANGED vars
    BY <1>0, <1>11 DEF vars
  <1> QED
    BY <1>1, <1>2, <1>3, <1>4, <1>5, <1>6, <1>7, <1>8, <1>9, <1>10, <1>11 DEF Next

(* A peer whose room is open is among its members. *)
THEOREM RoomsAreComplete == Spec => []RoomComplete
  <1>1. Init => IdsSound /\ IdleSlots /\ UniqueKeys /\ LobbyOpen /\ RoomComplete
    BY IdAssumption
       DEF Init, IdsSound, IdleSlots, UniqueKeys, LobbyOpen, RoomComplete, Authenticated
  <1> QED
    BY <1>1, TypeInit, TypeStep, IdsStep, KeysStep, RoomsStep, PTL DEF Spec
-----------------------------------------------------------------------------
(* What a roster says is what the server holds. *)

EntrySound(x, y) ==
    /\ Authenticated(x) /\ Authenticated(y) => view[x][y].known
    /\ view[x][y].known =>
         /\ view[x][y].key = key[y]
         /\ view[x][y].room = room[y]
         /\ view[x][y].name = name[y]
         /\ \A o \in RoomIds : view[x][y].objects[o] = objects[y][o]

LEMMA RosterStep ==
    /\ TypeOK /\ TypeOK' /\ IdsSound /\ IdleSlots /\ NoGhostPeers /\ RosterSound
    /\ [Next]_vars
    => RosterSound'
  <1> SUFFICES ASSUME TypeOK, TypeOK', IdsSound, IdleSlots, NoGhostPeers, RosterSound,
                      [Next]_vars, NEW x \in live', NEW y \in live', x # y
               PROVE  EntrySound(x, y)'
    BY DEF RosterSound, EntrySound
  <1> USE DEF idVars, peerVars
  <1>0. /\ x \in PeerId /\ y \in PeerId
        /\ x \in live /\ y \in live => EntrySound(x, y)
    BY DEF TypeOK, RosterSound, EntrySound
  <1>1. CASE Accept
    <2>1. PICK id \in PeerId \ live : AcceptAs(id)
      BY <1>1, AcceptFresh
    <2>2. /\ live' = live \cup {id} /\ key' = key /\ room' = room /\ name' = name
          /\ objects' = objects /\ key[id] = ZeroKey
          /\ view' = view
      BY <1>0, <2>1 DEF AcceptAs, IdleSlots
    <2>3. CASE x = id
      <3>1. ~view[x][y].known
        BY <1>0, <2>1, <2>3 DEF NoGhostPeers
      <3> QED
        BY <2>2, <2>3, <3>1 DEF EntrySound, Authenticated
    <2>4. CASE x # id /\ y = id
      <3>1. ~view[x][y].known
        BY <1>0, <2>1, <2>2, <2>4 DEF NoGhostPeers
      <3> QED
        BY <2>2, <2>4, <3>1 DEF EntrySound, Authenticated
    <2>5. CASE x # id /\ y # id
      BY <1>0, <2>2, <2>5 DEF EntrySound, Authenticated
    <2> QED
      BY <2>3, <2>4, <2>5
  <1>2. ASSUME NEW p \in PeerId, Hello(p) PROVE EntrySound(x, y)'
    BY <1>0, <1>2 DEF Hello, EntrySound, Authenticated
  <1>3. ASSUME NEW p \in PeerId, NEW k \in Key, NEW r \in RoomKey, NEW n \in Names,
               NEW objs \in Objects, NEW imgs \in SUBSET ImageIds,
               Connect(p, k, r, n, objs, imgs)
        PROVE  EntrySound(x, y)'
    <2>1. /\ p \in live /\ live' = live /\ key' = [key EXCEPT ![p] = k]
          /\ room' = [room EXCEPT ![p] = r] /\ name' = [name EXCEPT ![p] = n]
          /\ objects' = [objects EXCEPT ![p] = objs]
      BY <1>3 DEF Connect
    <2>2. CASE x = p \/ y = p
      <3>1. (x = p /\ y \in Others(p)) \/ (x \in Others(p) /\ y = p)
        BY <2>1, <2>2 DEF Others
      <3> QED
        BY <1>0, <1>3, <3>1, ConnectView DEF EntrySound
    <2>3. CASE x # p /\ y # p
      <3>1. view'[x][y] = view[x][y]
        BY <1>0, <1>3, <2>3, ConnectView
      <3> QED
        BY <1>0, <2>1, <2>3, <3>1 DEF EntrySound, Authenticated, TypeOK
    <2> QED
      BY <2>2, <2>3
  <1>4. ASSUME NEW p \in PeerId, NEW r \in RoomKey, PeerUpdateRoom(p, r)
        PROVE  EntrySound(x, y)'
    <2>1. /\ p \in live /\ live' = live /\ key' = key /\ name' = name
          /\ objects' = objects /\ room' = [room EXCEPT ![p] = r]
      BY <1>4 DEF PeerUpdateRoom
    <2>2. /\ view'[x][y].known = view[x][y].known
          /\ view'[x][y].key = view[x][y].key
          /\ view'[x][y].name = view[x][y].name
          /\ \A o \in RoomIds : view'[x][y].objects[o] = view[x][y].objects[o]
          /\ view[x][y].known =>
               view'[x][y].room = IF x \in Others(p) /\ y = p THEN r ELSE view[x][y].room
      BY <1>0, <1>4, RoomView
    <2>3. x \in Others(p) /\ y = p <=> y = p
      BY <2>1 DEF Others
    <2> QED
      BY <1>0, <2>1, <2>2, <2>3 DEF EntrySound, Authenticated, TypeOK
  <1>5. ASSUME NEW p \in PeerId, NEW n \in Names, PeerUpdateName(p, n)
        PROVE  EntrySound(x, y)'
    <2>1. /\ p \in live /\ live' = live /\ key' = key /\ room' = room
          /\ objects' = objects /\ name' = [name EXCEPT ![p] = n]
      BY <1>5 DEF PeerUpdateName
    <2>2. /\ view'[x][y].known = view[x][y].known
          /\ view'[x][y].key = view[x][y].key
          /\ view'[x][y].room = view[x][y].room
          /\ view'[x][y].objects = view[x][y].objects
          /\ view[x][y].known =>
               view'[x][y].name = IF x \in Others(p) /\ y = p THEN n ELSE view[x][y].name
      BY <1>0, <1>5, NameView
    <2>3. x \in Others(p) /\ y = p <=> y = p
      BY <2>1 DEF Others
    <2> QED
      BY <1>0, <2>1, <2>2, <2>3 DEF EntrySound, Authenticated, TypeOK
  <1>6. ASSUME NEW p \in PeerId, NEW o \in ObjectId, NEW v \in Val \cup {None},
               ObjectStep(p, o, v)
        PROVE  EntrySound(x, y)'
    <2>1. /\ p \in live /\ live' = live /\ key' = key /\ room' = room /\ name' = name
          /\ objects' = [objects EXCEPT ![p][o] = v]
      BY <1>6, ObjectFrame
    <2>2. /\ SameHeader(view'[x][y], view[x][y])
          /\ \A a \in ObjectId : ~(y = p /\ a = o) =>
               view'[x][y].objects[a] = view[x][y].objects[a]
          /\ /\ y = p /\ x \in ObjectAudience(p, o) /\ view[x][y].known
             /\ objects[y][o] # None => view[x][y].objects[o] = objects[y][o]
             => view'[x][y].objects[o] = v
      BY <1>0, <1>6, ObjectView
    <2>3. ASSUME NEW a \in RoomIds, view[x][y].known
          PROVE  view'[x][y].objects[a] = objects'[y][a]
      <3>1. view[x][y].objects[a] = objects[y][a] /\ a \in ObjectId
        BY <1>0, <2>1, <2>3 DEF EntrySound, ObjectId
      <3>2. CASE y = p /\ a = o
        <4>1. x \in ObjectAudience(p, o)
          BY <2>1, <2>3, <3>2 DEF ObjectAudience, Others
        <4>2. view'[x][y].objects[o] = v
          BY <2>2, <2>3, <3>1, <3>2, <4>1
        <4>3. objects'[y][o] = v
          BY <2>1, <3>2 DEF TypeOK, Objects
        <4> QED
          BY <3>2, <4>2, <4>3
      <3>3. CASE ~(y = p /\ a = o)
        <4>1. objects'[y][a] = objects[y][a]
          BY <1>0, <2>1, <3>1, <3>3 DEF TypeOK, Objects
        <4> QED
          BY <2>2, <3>1, <3>3, <4>1
      <3> QED
        BY <3>2, <3>3
    <2> QED
      BY <1>0, <2>1, <2>2, <2>3 DEF EntrySound, Authenticated, SameHeader
  <1>7. ASSUME NEW p \in PeerId, NEW i \in ImageIds, ImageCreate(p, i) \/ ImageRemove(p, i)
        PROVE  EntrySound(x, y)'
    <2>1. /\ SameHeader(view'[x][y], view[x][y])
          /\ view'[x][y].objects = view[x][y].objects
          /\ live' = live /\ key' = key /\ room' = room /\ name' = name
          /\ objects' = objects
      BY <1>0, <1>7, ImageView
    <2> QED
      BY <1>0, <2>1 DEF EntrySound, Authenticated, SameHeader
  <1>8. ASSUME NEW p \in PeerId, Remove(p) PROVE EntrySound(x, y)'
    <2>1. /\ live' = live \ {p} /\ key' = [key EXCEPT ![p] = ZeroKey]
          /\ room' = [room EXCEPT ![p] = Lobby] /\ name' = [name EXCEPT ![p] = NoName]
          /\ objects' = [objects EXCEPT ![p] = NoObjects]
      BY <1>8 DEF Remove
    <2>2. view'[x][y] = view[x][y] /\ x # p /\ y # p
      BY <1>0, <1>8, <2>1, RemoveView
    <2> QED
      BY <1>0, <2>1, <2>2 DEF EntrySound, Authenticated, TypeOK
  <1>9. CASE UNCHANGED vars
    BY <1>0, <1>9 DEF vars, EntrySound, Authenticated
  <1> QED
    BY <1>1, <1>2, <1>3, <1>4, <1>5, <1>6, <1>7, <1>8, <1>9 DEF Next, ObjectStep
-----------------------------------------------------------------------------
(* The lobby. *)

(* A peer that is in the lobby is found there, and reached by what is sent to
   it. *)
LEMMA LobbyMember ==
    ASSUME LobbyOpen, RoomComplete, NEW z \in live, Authenticated(z), room[z] = Lobby
    PROVE  z \in rooms[Lobby]
  BY DEF LobbyOpen, RoomComplete

(* A change of room that ends in the lobby meets those who are in it. *)
LEMMA RoomMeets ==
    ASSUME TypeOK, NEW p \in PeerId, NEW r \in RoomKey, PeerUpdateRoom(p, r), r = Lobby,
           Lobby \in DOMAIN rooms,
           NEW x \in live, NEW y \in live, x # y,
           \/ x = p /\ y \in rooms[Lobby]
           \/ y = p /\ x \in rooms[Lobby],
           view'[x][y].known,
           NEW o \in TokenIds, objects[y][o] # None
    PROVE  view'[x][y].objects[o] = objects[y][o]
  <1> DEFINE departed == LeaveRoom(rooms, room[p], p)
             leftWith == Audience(departed, room[p], p)
             met == Audience(departed, r, p)
             told == IF x \in Others(p) /\ y = p
                     THEN WithRoom(view[x][y], r) ELSE view[x][y]
             gone == IF (x = p /\ y \in leftWith) \/ (x \in leftWith /\ y = p)
                     THEN Left(told) ELSE told
  <1>1. x \in PeerId /\ y \in PeerId /\ view[x][y] \in Info /\ objects[y] \in Objects
    BY DEF TypeOK
  <1>2. (x = p /\ y \in met) \/ (x \in met /\ y = p)
    BY DEF Audience, Members, Others, LeaveRoom
  <1>3. view'[x][y] = Joined(gone, objects[y])
    BY <1>1, <1>2 DEF PeerUpdateRoom
  <1>4. told \in Info
    BY <1>1, InfoType
  <1>5. gone \in Info
    BY <1>4, LeftType
  <1> HIDE DEF gone, told, met
  <1>6. /\ SameHeader(Joined(gone, objects[y]), gone)
        /\ gone.known => Joined(gone, objects[y]).objects[o] = objects[y][o]
    BY <1>1, <1>5, JoinedFacts
  <1> QED
    BY <1>3, <1>6 DEF SameHeader

(* So does a client that connects with the lobby as its room. *)
LEMMA ConnectMeets ==
    ASSUME TypeOK, TypeOK', NEW p \in PeerId, NEW k \in Key, NEW r \in RoomKey,
           NEW n \in Names, NEW objs \in Objects, NEW imgs \in SUBSET ImageIds,
           Connect(p, k, r, n, objs, imgs), r = Lobby, Lobby \in DOMAIN rooms,
           NEW x \in live, NEW y \in live, x # y,
           \/ x = p /\ y \in rooms[Lobby]
           \/ y = p /\ x \in rooms[Lobby],
           NEW o \in TokenIds, objects'[y][o] # None
    PROVE  view'[x][y].objects[o] = objects'[y][o]
  <1> DEFINE created == CreateRooms(rooms, OwnRooms(k, objs), live, room')
             met == Audience(created, r, p)
             i == Introduction(key'[y], room'[y], name'[y], objects'[y], images'[y])
  <1>1. /\ x \in PeerId /\ y \in PeerId
        /\ key'[y] \in Key \cup {ZeroKey} /\ room'[y] \in RoomKey /\ name'[y] \in Names
        /\ objects'[y] \in Objects /\ images'[y] \in SUBSET ImageIds
    BY DEF TypeOK
  <1>2. Lobby \notin OwnRooms(k, objs)
    BY DataAssumption DEF OwnRooms
  <1>3. Lobby \in DOMAIN created /\ created[Lobby] = rooms[Lobby]
    BY <1>2 DEF CreateRooms
  <1>4. (x = p /\ y \in met) \/ (x \in met /\ y = p)
    BY <1>3 DEF Audience, Members, Others
  <1>5. (x = p /\ y \in Others(p)) \/ (x \in Others(p) /\ y = p)
    BY DEF Others
  <1>6. view'[x][y] = Joined(i, objects'[y])
    BY <1>1, <1>4, <1>5 DEF Connect
  <1>7. i \in Info /\ i.known
    BY <1>1, IntroductionType, IntroductionFacts
  <1> HIDE DEF i
  <1>8. Joined(i, objects'[y]).objects[o] = objects'[y][o]
    BY <1>1, <1>7, JoinedFacts
  <1> QED
    BY <1>6, <1>8

LEMMA LobbyStep ==
    /\ TypeOK /\ TypeOK' /\ IdsSound /\ IdleSlots /\ LobbyOpen /\ RoomComplete
    /\ RosterSound /\ RosterSound' /\ LobbyComplete /\ [Next]_vars
    => LobbyComplete'
  <1> SUFFICES ASSUME TypeOK, TypeOK', IdsSound, IdleSlots, LobbyOpen, RoomComplete,
                      RosterSound, RosterSound', LobbyComplete, [Next]_vars,
                      NEW x \in live', NEW y \in live', x # y,
                      Authenticated(x)', Authenticated(y)',
                      room'[x] = Lobby, room'[y] = Lobby,
                      NEW o \in ObjectId, objects'[y][o] # None
               PROVE  view'[x][y].objects[o] = objects'[y][o]
    BY DEF LobbyComplete
  <1> USE DEF idVars, peerVars
  <1> DEFINE Goal == view'[x][y].objects[o] = objects'[y][o]
             Before(a, b) == /\ a \in live /\ Authenticated(a) /\ room[a] = Lobby
                             /\ b \in live /\ Authenticated(b) /\ room[b] = Lobby
  <1>0. /\ x \in PeerId /\ y \in PeerId /\ o \in RoomIds \cup TokenIds
        /\ view'[x][y].known
        /\ Before(x, y) => /\ view[x][y].known
                           /\ objects[y][o] # None => view[x][y].objects[o] = objects[y][o]
    BY DEF TypeOK, RosterSound, LobbyComplete, ObjectId
  <1>a. CASE o \in RoomIds
    BY <1>0, <1>a DEF RosterSound
  <1>b. CASE o \in TokenIds
    <2>0. ASSUME live' = live, key' = key, room' = room, objects' = objects,
                 view'[x][y].objects = view[x][y].objects
          PROVE  Goal
      BY <1>0, <2>0 DEF Authenticated
    <2>1. CASE Accept
      <3>1. PICK id \in PeerId \ live : AcceptAs(id)
        BY <2>1, AcceptFresh
      <3>2. /\ live' = live \cup {id} /\ key' = key /\ room' = room
            /\ objects' = objects /\ key[id] = ZeroKey
            /\ view' = view
        BY <1>0, <3>1 DEF AcceptAs, IdleSlots
      <3> QED
        BY <1>0, <3>2 DEF Authenticated
    <2>2. ASSUME NEW p \in PeerId, Hello(p) PROVE Goal
      BY <2>0, <2>2 DEF Hello
    <2>3. ASSUME NEW p \in PeerId, NEW k \in Key, NEW r \in RoomKey, NEW n \in Names,
                 NEW objs \in Objects, NEW imgs \in SUBSET ImageIds,
                 Connect(p, k, r, n, objs, imgs)
          PROVE  Goal
      <3>1. /\ p \in live /\ live' = live /\ key' = [key EXCEPT ![p] = k]
            /\ room' = [room EXCEPT ![p] = r] /\ objects' = [objects EXCEPT ![p] = objs]
        BY <2>3 DEF Connect
      <3>2. ASSUME NEW z \in live, z # p, Authenticated(z)', room'[z] = Lobby
            PROVE  z \in rooms[Lobby] /\ Authenticated(z) /\ room[z] = Lobby
        <4>1. Authenticated(z) /\ room[z] = Lobby
          BY <3>1, <3>2 DEF Authenticated, TypeOK
        <4> QED
          BY <4>1, LobbyMember
      <3>3. CASE x = p \/ y = p
        <4>1. r = Lobby
          BY <3>1, <3>3 DEF TypeOK
        <4>2. (x = p /\ y \in rooms[Lobby]) \/ (y = p /\ x \in rooms[Lobby])
          BY <3>1, <3>2, <3>3
        <4> QED
          BY <1>b, <2>3, <3>1, <4>1, <4>2, ConnectMeets DEF LobbyOpen
      <3>4. CASE x # p /\ y # p
        <4>1. view'[x][y] = view[x][y]
          BY <1>0, <2>3, <3>4, ConnectView
        <4>2. Before(x, y) /\ objects'[y] = objects[y]
          BY <1>0, <3>1, <3>2, <3>4 DEF TypeOK
        <4> QED
          BY <1>0, <4>1, <4>2
      <3> QED
        BY <3>3, <3>4
    <2>4. ASSUME NEW p \in PeerId, NEW r \in RoomKey, PeerUpdateRoom(p, r) PROVE Goal
      <3>1. /\ p \in live /\ live' = live /\ key' = key /\ objects' = objects
            /\ room' = [room EXCEPT ![p] = r]
        BY <2>4 DEF PeerUpdateRoom
      <3>2. ASSUME NEW z \in live, z # p, Authenticated(z)', room'[z] = Lobby
            PROVE  z \in rooms[Lobby] /\ Authenticated(z) /\ room[z] = Lobby
        <4>1. Authenticated(z) /\ room[z] = Lobby
          BY <3>1, <3>2 DEF Authenticated, TypeOK
        <4> QED
          BY <4>1, LobbyMember
      <3>3. CASE x = p \/ y = p
        <4>1. r = Lobby
          BY <3>1, <3>3 DEF TypeOK
        <4>2. (x = p /\ y \in rooms[Lobby]) \/ (y = p /\ x \in rooms[Lobby])
          BY <3>1, <3>2, <3>3
        <4> QED
          BY <1>0, <1>b, <2>4, <3>1, <4>1, <4>2, RoomMeets DEF LobbyOpen
      <3>4. CASE x # p /\ y # p
        <4>1. view'[x][y] = view[x][y]
          BY <1>0, <2>4, <3>4, RoomView
        <4>2. Before(x, y)
          BY <3>1, <3>2, <3>4
        <4> QED
          BY <1>0, <3>1, <4>1, <4>2
      <3> QED
        BY <3>3, <3>4
    <2>5. ASSUME NEW p \in PeerId, NEW n \in Names, PeerUpdateName(p, n) PROVE Goal
      <3>1. live' = live /\ key' = key /\ room' = room /\ objects' = objects
        BY <2>5 DEF PeerUpdateName
      <3>2. view'[x][y].objects = view[x][y].objects
        BY <1>0, <2>5, NameView
      <3> QED
        BY <2>0, <3>1, <3>2
    <2>6. ASSUME NEW p \in PeerId, NEW a \in ObjectId, NEW v \in Val \cup {None},
                 ObjectStep(p, a, v)
          PROVE  Goal
      <3>1. /\ live' = live /\ key' = key /\ room' = room
            /\ objects' = [objects EXCEPT ![p][a] = v]
        BY <2>6, ObjectFrame
      <3>2. Before(x, y)
        BY <3>1 DEF Authenticated
      <3>3. /\ \A b \in ObjectId : ~(y = p /\ b = a) =>
                 view'[x][y].objects[b] = view[x][y].objects[b]
            /\ /\ y = p /\ x \in ObjectAudience(p, a) /\ view[x][y].known
               /\ objects[y][a] # None => view[x][y].objects[a] = objects[y][a]
               => view'[x][y].objects[a] = v
        BY <1>0, <2>6, ObjectView
      <3>4. CASE y = p /\ o = a
        <4>1. x \in rooms[Lobby]
          BY <3>2, LobbyMember
        <4>2. x \in ObjectAudience(p, a)
          BY <1>b, <3>2, <3>4, <4>1, DataAssumption
             DEF ObjectAudience, Audience, Members, Others, LobbyOpen
        <4>3. view'[x][y].objects[o] = v
          BY <1>0, <3>2, <3>3, <3>4, <4>2
        <4>4. objects'[y][o] = v
          BY <3>1, <3>4 DEF TypeOK, Objects
        <4> QED
          BY <4>3, <4>4
      <3>5. CASE ~(y = p /\ o = a)
        <4>1. objects'[y][o] = objects[y][o]
          BY <1>0, <3>1, <3>5 DEF TypeOK, Objects
        <4> QED
          BY <1>0, <3>2, <3>3, <3>5, <4>1
      <3> QED
        BY <3>4, <3>5
    <2>7. ASSUME NEW p \in PeerId, NEW i \in ImageIds, ImageCreate(p, i) \/ ImageRemove(p, i)
          PROVE  Goal
      <3>1. /\ view'[x][y].objects = view[x][y].objects
            /\ live' = live /\ key' = key /\ room' = room /\ objects' = objects
        BY <1>0, <2>7, ImageView
      <3> QED
        BY <2>0, <3>1
    <2>8. ASSUME NEW p \in PeerId, Remove(p) PROVE Goal
      <3>1. /\ live' = live \ {p} /\ key' = [key EXCEPT ![p] = ZeroKey]
            /\ room' = [room EXCEPT ![p] = Lobby]
            /\ objects' = [objects EXCEPT ![p] = NoObjects]
        BY <2>8 DEF Remove
      <3>2. view'[x][y] = view[x][y] /\ x # p /\ y # p
        BY <1>0, <2>8, <3>1, RemoveView
      <3>3. Before(x, y) /\ objects'[y] = objects[y]
        BY <3>1, <3>2 DEF Authenticated, TypeOK
      <3> QED
        BY <1>0, <3>2, <3>3
    <2>9. CASE UNCHANGED vars
      BY <2>0, <2>9 DEF vars
    <2> QED
      BY <2>1, <2>2, <2>3, <2>4, <2>5, <2>6, <2>7, <2>8, <2>9 DEF Next, ObjectStep
  <1> QED
    BY <1>0, <1>a, <1>b
-----------------------------------------------------------------------------
LEMMA InvInit == Init => IInv
  <1> SUFFICES ASSUME Init PROVE IInv
    OBVIOUS
  <1>1. TypeOK
    BY TypeInit
  <1>2. live = {} /\ Lobby \in DOMAIN rooms
    BY DEF Init
  <1>3. IdsSound
    BY IdAssumption DEF Init, IdsSound
  <1>4. IdleSlots
    BY DEF Init, IdleSlots
  <1>5. NoGhostPeers
    BY DEF Init, NoGhostPeers, Unknown
  <1> QED
    BY <1>1, <1>2, <1>3, <1>4, <1>5
       DEF IInv, UniqueKeys, LobbyOpen, RoomComplete, RosterSound, LobbyComplete

LEMMA InvStep == IInv /\ [Next]_vars => IInv'
  BY TypeStep, IdsStep, KeysStep, RoomsStep, GhostStep, RosterStep, LobbyStep DEF IInv

LEMMA Invariance == Spec => []IInv
  BY InvInit, InvStep, PTL DEF Spec

(* No client holds a peer that left, or its own connection, as a peer. *)
THEOREM NoGhosts == Spec => []NoGhostPeers
  <1>1. IInv => NoGhostPeers
    BY DEF IInv
  <1> QED
    BY <1>1, Invariance, PTL

(* Every roster says what the server holds. *)
THEOREM RostersAreSound == Spec => []RosterSound
  <1>1. IInv => RosterSound
    BY DEF IInv
  <1> QED
    BY <1>1, Invariance, PTL

(* The peers in the lobby hold each other's objects. *)
THEOREM LobbyIsComplete == Spec => []LobbyComplete
  <1>1. IInv => LobbyComplete
    BY DEF IInv
  <1> QED
    BY <1>1, Invariance, PTL
=============================================================================
