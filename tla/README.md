# A verification of mumbler in TLA+

mumbler is a shared map for voice-chat games. Every user runs a local program
(`crates/mumbler`) that keeps the user's objects in a SQLite database, serves a
page (`crates/web`, Yew) over a websocket, feeds the position of one object to
Mumble through shared memory (`crates/mumblelink`) and holds one connection to a
relay server (`mumbler-server`, `crates/mumbler/src/remote/server.rs`). The server
keeps no data of its own: it holds what each connected client said and relays it.

Paths below are relative to `src/crates/`.

## 1. The system

| Component | State | Operations | What must hold |
|---|---|---|---|
| Relay server, `mumbler/src/remote/server.rs` | `Peers` (id allocator, entry per connection: key, challenge, props, objects, images), `State.rooms` | accept, `Hello`, `Connect`, `PeerUpdate`, `ObjectCreate/Update/Remove`, `ImageCreate/Remove`, `Ping`, removal | ids sound over reuse; one connection per key; rooms have their members; every client ends up with the server's view of the others |
| Its loop, `PollPeers`, `Wakers`, `remote/peer.rs` | `State.poll`, woken set, cached wakers, `Peer.write`/`read` | poll, partial write, wake | nothing written is forgotten; nobody is starved |
| Framing, `remote/client.rs`, `remote/peer.rs` | `Buf` (read and write cursor), header state | read, write, decode | a frame is read whole, once, in order |
| Remote client, `mumbler/src/client.rs` | `ClientState.peers`, `authenticated`, ping state | `handle_peer`, `run`, `managed` | table of peers is the server's; the client gets in again after a loss |
| Backend, `mumbler/src/backend.rs` | objects, images, props, change sets, `used_ids`, keypair, mumble link state, broadcast channel | create, update, remove, `updates`, restart | no change is lost between page, database and server |
| Web server, `mumbler/src/web/` | pending property writes per page, debounce timer | requests, broadcasts, `InitializeMap/Rooms` | what a page sees is the backend's state; what it says is saved |
| Database, `mumbler/src/database.rs` | objects, properties, images | migrations, CRUD | restart resumes with what was said |
| Sorting keys, `sorting/src/lib.rs` | none | `midpoint`, `before`, `after` | the key falls between its neighbours |
| Page: list, `web/src/objects.rs`, `order.rs`, `drag_over.rs` | objects, index of rows, row that is dragged | drags, updates of each key, creation, removal | the index is that of the objects; what is dropped lies where it was dropped |
| Page: map, `web/src/components/map.rs` | cells of objects and settings, gesture, tokens on their way, modal, menu, channel | pointer, keys, menus, modals, frames, `initialize`, updates of others | what is shown is saved; tokens arrive; gestures respect locks and owners |
| Page: peers and rooms, `web/src/peers.rs`, `state.rs`, `components/rooms.rs` | ids and keys of peers, room, list of rooms | snapshot, joins and leaves, `RemoteLost`, enter a room | ids and keys are paired; the page catches up; the room that is drawn is the one it is in |
| Page: forms, `components/settings.rs`, `object_settings.rs`, `mumble_status.rs`, `remote_status.rs`, `setup_channel.rs` | what each shows, a channel each | edit, echo, first answer, mount and unmount | all views come to show what the backend has |
| Page: upload, `components/image_upload.rs`, `crop.rs` | file, selection, what the pointer holds | take a file, mark, move, pull an edge, upload | what is marked lies on the picture |
| Mumble link, `mumbler/src/mumblelink.rs` | position of the chosen object | update, hide, restart | a hidden object does not speak from its place |

They interact so. The page calls the web server over a websocket. A handler
changes `ClientState` under its lock, broadcasts to the other pages, leaves a
permit in `client_notify`, and puts property writes in a map that a timer saves.
`run()` takes the permit and writes the change sets to the server. The server
handles one frame at a time, on one task, and appends frames to the buffers of
others. Their `run()` reads them into `ClientState.peers` and broadcasts to the
pages.

What is hard here: connections end at any point and ids are reused at once; rooms
are made, closed and made again by one peer while others are in them; frames queue
up behind a slow socket and are read long after the state they describe; one client
may have two connections, one of them dead; changes are made while a connection
is being set up; a task is dropped at an `await` by a restart; writes to the
database lag behind. On the page, a snapshot overtakes broadcasts or is overtaken by them;
several views hold the same value, each with a channel of its own; the objects of a gesture or
a drag are locked, moved or removed by others before it ends; every page simulates the same
token. `PROJECT.json` lists each hazard at its line.

## 2. The modules

    Protocol   identifiers, objects, PeerInfo and the table of rooms, shared by both
      Relay        the server as a promise: handlers, and the tables clients end up with
        RelayProofs    its invariants, proved
      Server       the server with frames, buffers and polling; implements Relay
        ServerProofs   that it does, and that no frame is left behind, proved
    Session    one client's changes, across connections that are lost and refused
      SessionProofs  that none is lost, forgotten or undone by an older one, proved
    Persist    one program's objects and settings, its pages, the database and a restart
      PersistProofs  objects and their rows, and that no last value is forgotten, proved
    Sorting    the keys that order a list
      Order      the list of objects of a page, and drags in it
        OrderProofs    its keys and index, drops at the end, and why rows vanish, proved
    Map        the map of a page: gestures, simulation, its channel
      MapProofs      what is shown is saved, what moves is simulated, gestures, types, proved
    Peers      what a page knows of peers and rooms
      PeersProofs    that ids and keys are paired, and that the page catches up, proved
    Upload     a picture and what is marked on it
      Forms        the views of an object and of the settings on several pages
        FormsProofs    that all of them come to show the same, and that marks lie on their picture, proved

    MCRelay, MCServer, MCSession, MCPersist, MCOrder, MCMap, MCPeers, MCForms    the same for TLC

They cut the program along the places where it waits: Server is behind one socket, Session and
Persist share `ClientState` and look at its two exits (the server, the database), Forms, Peers and
Map at the third (the pages). A page is cut by what its parts keep: Order takes the list alone, Map
the objects without groups, Peers the ids, Forms the values that several views show.

### Protocol

The client's `PeerInfo` is a record with the fields of `backend.rs:80` and
`known`, whether `ClientState.peers` has an entry. `PEER_NAME` and `ROOM` are the only
properties that go to other peers (`Key::is_remote`). The operators `Joined`,
`Left`, `WithRoom`, `WithObject`, ... are the arms of `handle_peer` in
`client.rs`. An object's properties are one value of `Val`, since nothing here looks into
them. `TOKEN`, `STATIC` and `GROUP` objects act alike (`TokenIds`); `ROOM` is
the only global type (`RoomIds`, `Type::is_global`). Rooms are `StableId`s: a public key and an
object's id, or `Lobby`, which is zero. `rooms` is a function whose domain is the rooms that
are open, and members are sets: the vectors of the code are never
given an id twice (`create_room` clears, `join_room` looks first).

### Relay

One action per event handler of `State::handle`, plus `Accept` and `Remove` for the
loop in `run()`. Every handler runs to its end before the next (its `async fn`
awaits nothing), so it is one step. The effect of all the frames a step
writes is applied at once to `view[p]`, the table that the client behind
connection `p` will hold. The disconnection of an id and the refusal of an event (an
early return with an error) both end in `remove_peer`, and are `Remove`. The clients are the ones of this
repository: one `Hello`, then one `Connect` that is signed for the challenge, then updates.
The server itself would let an authenticated peer say `Hello` and `Connect` again.

| Property | Says |
|---|---|
| `TypeOK` | types |
| `IdsSound` | an id is in use once, or free once, or not made yet; none is lost |
| `UniqueKeys` | no two connections for one public key |
| `RoomComplete` | who has an open room as its `ROOM` is a member ("ensure that all peers that have it as their property gets added to it") |
| `RosterSound` | authenticated peers are on each other's roster, and key, properties and global objects there are the server's |
| `NoGhostPeers` | nobody is on a roster who is gone |
| `LobbyComplete` | two peers in the lobby hold each other's objects as they are |
| `MembersAreInRoom` | what the comment on `ServerRoom.members` says. It does **not** hold |

`LobbyComplete` is about the lobby and objects that exist, for a reason. A room
object may be closed under its members, who are not told to forget each other; and
`create_room` makes members of peers without exchanging their objects. In such a
room a client may lack objects, or hold ones that are gone.

`MembersAreInRoom` fails in a few steps: a connection joins a room and ends, the
next is given its id (`Ids.free` is a queue) and is, unawares, a member of that room. It
receives what is said there. This does not break `RosterSound`: what it
receives is about peers it knows anyway, and only changes which objects it holds of them.

### Server

The state of Relay, with `out[p]` (frames in `Peer.write`), `held[p]` (what
the client has read), `poll` (`State.poll`) and `blocked` (peers whose last poll left a
waker with a socket that was full). `PollPeer(p, n)` writes any number of frames,
which stands for a socket that takes any part of the buffer (a frame that is cut is not
read until it is whole). The handlers append the frames the code appends, in
its order, and mark the peers the code marks.

`Implements` is the refinement: with `view[p]` the table the client has once
it has read `out[p]`, every step of Server is a step of Relay or a stutter.
So frames that wait behind a slow socket, about a peer that is gone by then or has
changed rooms twice, still bring the client to the server's state, because they are
read in the order they were written. Frames about an unknown peer are dropped in
`handle_peer`; the refinement shows that none of those matter.

`NoStrandedOutput` and `Delivered` are about polling. `leave_room` (`server.rs:809`)
marks the peer that leaves when it wrote to one that stays; that is saved by
`send_to_all` in the same handler, which marks everyone.

Left out: the order in which `PollPeers` takes marked and woken peers, and the
cached wakers of `Wakers`. A peer with input may be handled at any time.

### Session

One client from the user's changes to the server's copy. `objects`, `room` and the
change sets are `ClientState`; `permit` is the `Notify` (`notify_one` keeps a
permit when nobody waits). `creating` is a `create_object` between its insertion and its
notification, with awaits on the database in between. `run()` takes the permit (`Wake`),
then waits for the lock, then drains (`Drain`): a restart may drop it between the two.
`Answer` is the arm of `handle_peer` for `Challenge`: the snapshot goes out and the sets are
kept. On the server's side each connection has an entry, frames that are not
handled yet, and a copy. A second `Connect` for the key is refused while an
entry that is authenticated is there (`Receive`), which ends the connection, and the client
tries again. `Lose` is the client's side ending a connection (a restart, a late pong, a
cut); `Drop` and `Expire` are the server's (5 s without a ping).

| Property | Says |
|---|---|
| `NothingLost` | what is under way and what is in the sets bring the server's copy to the client's state, in any connection, at any time after the snapshot |
| `NothingWaits` | with no permit, nobody waking and nobody about to notify, what is under way is enough |
| `NeverBackwards` | in a connection the server never sees a value older than one it has, though changes are sent twice |
| `Converges` | in the end the client is in, and the server's copy is what it has |

`NothingWaits` is weaker than "a non-empty set has a permit", which is false: a
restart after `Wake` leaves sets full and the permit spent. It holds all the same, since the
next snapshot has those changes.

Left out of Session: images (their sets work as those of objects do), a new
`PEER_SECRET` (another key, so another client for the server), switching the remote off,
failures of the database.

### Persist

The local program from its pages to the database. `objects` and `mem` are
`ClientState`, `linked` the `mumble_object` that is kept beside it, `rows` and `saved` the
tables. A page is a connection with what its loop in `ws.rs` keeps: the queue of the handlers
(`queued`), the permit (`notified`), `local_updates` (`batch`), the timer, and
what `set_properties` was given (`writing`). A request is as many steps as it has places to
wait, and `call[p]` says which is next: `create_object` is an id, a row,
the object in memory, its properties; `remove_object` compares the linked id, clears
it, deletes the row, and takes the lock of `ClientState`. If `ROOM` names the object (`Leave`), it is removed
from the database (`RemoveProperty`) while the lock is held, and only then from memory, with the object
(`ForgetRoom`); nobody else gets at memory meanwhile (`Free`). Otherwise the object is forgotten at once (`Forget`).
The program runs on several threads, so that steps of two connections mix even
where nothing waits.

The third writer of `ROOM` is the remote client. When a peer removes the room one is in (`Theirs` stands for it),
`handle_peer` compares `ROOM` under the lock (`ClientHears`), clears it under another one, whatever it is by then
(`ClientClears`), and saves that itself, past all queues (`ClientSaves`). The write may fail, or a restart may drop the
client at any of its awaits (`ClientEnds`). That `ROOM` comes from the removal of a room is bounded as a change.

A request may fail wherever it uses the database (`Fail`), a write may fail half-way
(`SetSome`), a connection may end with a request under way (`Close`), and the
program may stop at any point and load what is in the database (`Crash`).

| Property | Says |
|---|---|
| `GoneIsGone` | a removed object never comes back, not after a restart either |
| `RowsKept` | an object nobody asked to remove has a row from the moment a page can see it |
| `Covered` | a cell's last value is in the database or on its way there; `ROOM` also when it is being removed from both |
| `Persists` | when changes end, it gets there, and stays |
| `SettingCleared` | what the comment in `remove_object` says of the mumble object. It does **not** hold |

`doomed` and `behind` are there for the properties only. `doomed` holds the objects
whose removal was asked for: a removal that fails between the row and memory leaves
an object that is gone after a restart, which is what was asked. `behind` holds the cells
whose last value may stay out of the database: whoever wrote it is gone before it was saved (a page that was closed
within the second, whose queue goes with it; the client, when its write fails or it is started again), or somebody
else had a write of the cell on its way and may make it later, since each connection saves by its own timer and the
client when it comes to it. Both happen in the code, and no document promises otherwise. `ROOM` has cases of its own. A
connection that ends while it removes the room one is in, or whose removal fails, may leave `ROOM` in memory and not in
the database (`Lost`). A page that set it within the second, also the one that removes the room, writes it again after
it was removed (`Leave` settles it against all pages, as `ClientClears` does). A cell leaves `behind` when it is set
again with nobody else at it, or by a restart.

`SettingCleared` fails when the linked object is removed: `linked` is cleared, `MUMBLE_OBJECT` is
not, in memory or in the database, and names an object that is gone.

An object's properties are one cell, so the order in which they are written one by one is
not told apart. A value is the number of the change that wrote it. Of settings there are
the two that name objects; `None` stands for every other value. The table's foreign key is not enforced
(SQLite's default), and properties of removed objects stay. An id is not made again
after it was used: `used_ids` sees to it until the program stops, and after that
the seed is random. One connection handles one request at a time; that is how
`musli_web`, which is not part of this repository, is taken to work.

Left out: images, the migrations, the secret key made at the first start, broadcasts. The removal of an object
of a peer nobody knows: `to_stable_id` gives the zero id, which an unset `ROOM` is too, so that the client would clear what is
clear; the server sends none. A write that is dropped at its await runs on in the database's thread to its end, before the next
one there: it is a write that was made, and then the end.

### Sorting and Order

`Sorting` has `midpoint`, `before` and `after` as functions of strings of bytes, of any
greatest byte. `Order` has the objects of a page with what the list needs (group, key, `LOCKED`,
`EXPANDED`), the index `OrderRef` with what it noted of each object and its rows, and the row that is
dragged. `Walked` is what the Map draws its objects from; the list shows those of its rows whose object is there
(`Shown`), a group's under it when it is open (`Open`). A drag begins, passes over rows,
and drops (`drag_end` of `map.rs`, with the Unlock modal in between for a locked group); other pages
set the group and the key of an object one at a time, and make, remove, lock and expand.

A page that connects again clears its objects and fills them from a snapshot (`Initialize`), and inserts all of
them into the index it has (`InsertAll`), which nothing clears. A `PeerJoin` may bring objects the page has, and so may the
creation of an object that was in its snapshot (`ObjectAgain`). `OrderRef::insert` then notes the new place and leaves the
old row. Such rows stay as long as the page, but for one the object comes back to, and those of peers, which go
with the peers (`PeersLeave`). `astray` is for the properties only: it holds the ids that may have such rows, or are noted and gone.
`Initialize` has one object made, moved or removed since the connection was lost; more are as many reconnections.

| Property | Says |
|---|---|
| `TypeOK` | types |
| `Listed` | each object has its row in its group, at its key; of an object that is not in `astray` there is no other row, and none when it is gone; no group is without rows |
| `DropsLast` | what is dropped into a group, or below its last row, becomes its last row, if the rows of the group are those of the objects in it (`Clean`) |
| `VanishesWith` | a row leaves the walk only with itself, or with a group above it that is removed, is moved out of sight, or is put under itself; connecting again hides nothing else |
| `DropsAbove` | what the doc of `before` says: the key it gives is before the one it is given. It does **not** hold |

`DropsAbove` fails at keys of which every byte is 0 or 1: `before` halves the first
byte above 1, and when there is none it returns half of the greatest byte, so `before([1])` is
`[127]`. A row that is dropped above such a row ends below it. `BeforeComesBefore` shows that there are no
other keys where `before` is wrong. `midpoint` is wrong in two cases. Where no byte fits between, it appends to the lower
key: `[1, 127]` is between `[1]` and `[2]`, but when the lower key is the beginning of the upper one, as `[]` of
`[1]`, what comes of it (`[127]`) is above both. And where the first byte that fits lies more than one past the end of the lower key, `midpoint_impl` fills up with
zeros from the start and forgets the lower key: between `[5]` and `[6, 0, 255]` it puts `[0, 0, 127]`.
`MidpointComesBetween` says where it is right.

A group may be dropped into its own subgroup: the test in `drag_end` looks at the target only. Then
walks over ancestors (`is_hidden`, `is_locked`) do not end, and the page hangs (`hung`). A walk over rows
(`Walk`) does not end either when it comes to a group that is under itself by its rows, which a row left over may bring
about though no object is in itself (`Round`); each redraw makes that walk. Removing
a group leaves its children with a group that is gone, and they are not listed.

`Data::remove` (`order.rs:92`) says "Remove the given id from all groups" and removes one row of one group, which is why a row that
is left over is never found again. It is a private function whose callers hand it the group and key to remove; the comment is at odds with
it and with nothing that is promised to a user, and no run is spent on it.

Left out: what a reconnection changes in more than one object at once (a sequence of them has the same rows); keys
of objects that are sent again other than `OtherSorts`; and the peers' visibility, by which the list leaves out rows.

### Map

The page is a record: the cells it shows, the cells noted to be sent (`updates`), the gesture
(`action`), the tokens it simulates (`active`), modal, menu and pointer. Handlers are operators from a
page to a page, as the code's are methods; `Settled` is what `update` does after each of them (send
what is noted, start the timer). An edit is at the backend at once: what is between is in
Forms. `ObjectUpdated`, `ConfigUpdate` are what other pages and peers do, told at once, and `Initialize` takes a
snapshot that may be older than what the user did meanwhile. The world is a line of places;
a direction is the place looked at; a frame of the simulation takes a token one place on.

| Property | Says |
|---|---|
| `TypeOK` | types; nothing stays noted; what moves has a timer |
| `SavedAsShown` | what the page shows of the user's objects and settings is what the backend has |
| `Driven` | a token of the user with a target is simulated |
| `Arrives` | it arrives |
| `GesturesAllowed` | a gesture changes its own object only, and begins on an unlocked object of the user |

`astray` and `halted` are for the properties only. `astray` holds cells in which page and backend may
differ: an edit between the opening of the channel and the snapshot's arrival is overwritten on the page, and a
position that another page sets is ignored while the token is on its way here (`objects.rs:256`).
`halted` holds tokens that were on their way when the user began to scale them, which takes them
out of the simulation with the target still set (`map.rs`, `start_scale`).

The code lets the user do some things the model has and no property forbids: to follow a
token of a peer (`Stray`: only the number is sent, and names no object, or another, of the user), and to ask
for the removal of a peer's object (likewise the number only). The key Enter is bound
to nothing that runs.

### Peers

`table`, `mine` and `room` are the backend's, `bus` the broadcasts the page has not seen. `map`
and `rooms` are two components, each with a `Peers` (ids to peers, keys to ids, its own
key), a snapshot and a channel. The room the user is in is a stable id (a key and an object); it is looked up as a
remote id (a peer's id and an object) by `update_peers`. Peers leave and come back under other ids.

What the server says of peers is broadcast under the lock of `ClientState`, so that the table and the broadcast are one
step. What is done with the user's rooms and with `ROOM` is not: each of three handlers (the connection of the page, that
of another page, the client) changes the state, and tells of it once it has let go of the lock (`telling`,
`Tell`), with others in between.
- `CreateRoom` puts the room in memory, where a snapshot has it at once; its properties are then saved, which may fail, or
  the connection ends, and nobody is told (`CreateFails`). Another page, which has the room from a snapshot, may
  remove it before it is told of.
- `RemoveRoom` clears `ROOM` if it names the room, and tells of the room only: `remove_object` broadcasts no
  `Config` (`backend.rs:673`, `ws.rs:189`), and pages stay in a room that is gone.
- `Enter` and `EnterElsewhere` set `ROOM`, and tell of it later (`backend.rs:585`).
- `ObjectRemoved` of a peer decides under the lock whether `ROOM` goes, tells of the object, and then clears
  `ROOM`, whatever it is by then (`ClientClears`), and tells of that.

| Property | Says |
|---|---|
| `TypeOK` | types |
| `KeysPaired` | in both components, ids lead to keys and keys to ids |
| `CaughtUp` | with nothing to tell or to hear the Map has the peers, their rooms and their things, but for `astray`, and is in the room the program is in, but for `off` |
| `RoomDrawn` | and draws the room it is in, under the id its owner has now, if it is there |
| `RoomsListed` | and the list has the rooms that exist, and no other, but for `astray` |

`off` and `astray` are for the properties only, and hold what the code gets wrong. `off` is that the page was told last of another
`ROOM` than there is: it was cleared with the room it named, or two set it, or one set it and the client cleared it, and
told of it in the other order. The page is then in another room than the program until one of them sets it again or
the page connects again. `astray` has for each component the rooms of the user of whose creation nobody told, or whose removal was done while
their creation was still to be told, so that a page may hear of them in the wrong order and show a room that is gone, also
until it connects again. No document of the repository says what should be.

`RoomsListed` says nothing after `RemoteLost`, which in `rooms.rs:336` keeps the rooms of others and
drops the user's. It counts a room that is listed twice as listed: `rooms.rs:349` appends what
the snapshot has already. `MapValues::initialize` keeps the id of the old room when there is none any more. Then a
room the user is not in is drawn until the next message that looks it up; `RoomDrawn` is about a Map that is in a room, and leaves
this out. Peers are compared with the room of before the snapshot until the next update (`here`), of which no property speaks.

Between a change and its broadcast nobody waits for anything but in `create_object`, so that what is done is told, though later
than what others did. In the model a page that connects again makes no request before what its last connection did is told.
What a page asks for reaches the backend at once, and a page may ask for the removal of a room before it has heard of it.
A list of rooms that is opened anew would hear the `Config` that the one before it sent over another channel, and here leaves it
alone as its own: only which room the list marks depends on it, and no property speaks of that.

Left out: a restart of the client, which waits for the lock of `ClientState` (`managed`, `client.rs:479` and `481`) while the `run` it
replaces is neither polled nor dropped. tokio's `Mutex` hands the lock to whoever is next in line, and if that is this `run`, nobody gets it any
more. Here as in Session and Persist a restart drops the `run` at once.

### Upload and Forms

`Upload` is `ImageUpload` and `Crop` with the geometry in whole parts of a pixel: the pointer marks a
selection, moves it, pulls an edge, with or without a fixed proportion, and the file is read,
uploaded and answered. `CropFits` says that what is marked lies on the picture. It leaves out
(`origin`) a mark made on another picture, since `drag` stays when a file of another size is
chosen, also in the middle of a stroke (`grip` remembers where it was taken hold of); and one with an edge
pulled at a fixed proportion, which is clamped along one axis only, and whatever is made of it.

`Forms` has views on pages. Each has its channel and shows cells of one object, or
one setting that stands for all. An edit is shown at once and sent, if there is a channel. The
handler of a page applies a request (`Apply`), then tells each cell to all pages (`Tell`), so
that two handlers may tell in another order than they applied. A view asks for what there is when its channel opens, and
the answer may overtake broadcasts. The settings are answered from the database, which is up to a
second behind.

| Property | Says |
|---|---|
| `TypeOK` | types |
| `InStep` | with nothing under way, a Map shows what the backend has, whichever view sent it |
| `FormsSettle` | and so does a form |
| `CropFits` | what is marked lies on the picture it was marked on |

A view may be wrong for good, in cells that `off` holds: the Map, when another page's
update crossed one of its own (it ignores its own echo, `map.rs:1642`); a view of the
settings that was answered from the database before the timer; a new image of an object, which `ImageChanged` shows and
does not send, while it sends one that is the same (`object_settings.rs:499`). And all views may be wrong in a cell
whose updates were told in another order than applied: the properties speak of cells where what was
told last (`said`) is what is kept. A connection that ends between applying and telling leaves a cell of which
nothing was told since it was set, and `said` has none until it is told again.

## 3. The runs

| Run | Bounds | Distinct states |
|---|---|---|
| `relay` | 2 keys, 2 ids, a room object, a token and an image per client, 2 values; images only while there is no token (`ImagesAlone`) | 333 220 |
| `relay_members` | as `relay`, without tokens and images; a counterexample | |
| `server_rooms` | 2 keys, 2 ids, a room object and a token, one client with rooms at a time (`OneHost`), handlers only when all buffers are empty | 238 295 |
| `server_delivery` | 2 keys, 2 ids, an image, handlers while each buffer has at most one frame | 90 571 |
| `session` | 2 objects, 1 property, 2 changes, 2 losses, 3 entries | 349 778 |
| `persist` | 2 pages, 1 object, a room of a peer, 3 changes | 341 396 |
| `persist_setting` | 1 page, 1 object, 3 changes; a counterexample | |
| `order` | 3 objects of the user, 2 of them groups, 1 of a peer, bytes 0 to 5, keys of 2 bytes, 4 changes | 92 567 |
| `order_before` | 2 objects of the user, 1 a group, bytes 0 to 255; a counterexample | |
| `map` | a token and a static object of the user, a token of a peer, 3 places, `LOCKED`, 3 steps of users | 260 050 |
| `peers` | 2 ids, 2 keys, a room and a token each, 3 broadcasts that wait, 4 events | 4 115 877 |
| `forms` | 2 pages, 5 views, 2 pictures of unlike size, 3 edits or strokes | 676 233 |

The three counterexamples are `findings` in `PROJECT.json`, each against a comment in the code.

Why they are enough. `MaxId` is the number of ids the allocator can make: with two,
`Accept` must reuse ids, in both orders. `Mix` maps the counter out of order.
Two peers are a pair, and all properties of Relay but `IdsSound` speak of pairs; the proofs
cover any number. Two values tell an old
object from a new one. A room is an object and a property of its peer at once; names
are told as rooms are, and only the proofs have more than one. `ImagesAlone` keeps images and tokens
apart, which no handler brings together. `MaxBacklog` bounds
when handlers may run, not how long a buffer gets: one handler writes up to a dozen frames,
and with a backlog of one, frames of two handlers mix behind a blocked
socket. `PollPeer` writes any part. Removal of a peer is never held back by a backlog. `OneHost` is a
constraint that is symmetric in the keys: a second host multiplies the states beyond
what a run can hold, and `relay`, which has no buffers, does without it. In Session
two losses leave two dead entries and a third that is refused; two changes are
enough to create and remove, or create and change, an object around a challenge.
Each change writes a value of its own (`New`), so that an old one shows. In Persist
three changes make an object and write a cell twice, from one page or from two, or once with the
client clearing it in between;
removals, failures, closings and crashes are not bounded. In Order four changes take a group into
another, move it by its key, and drop under it or remove what is dragged, or connect again after any of
them; a step up to a byte that
has no room left is met at bytes 0 to 5, and `OrderBefore` has the bytes of the code. In Map three
steps select, send off and cut across (a second gesture, a lock, a loss); frames, the
channel's opening and the snapshot are not counted. In Peers four events bring a peer back under another id around a snapshot, with the room it is
about, or have two pages set `ROOM` while a third party clears it; telling, hearing, opening and snapshots are not counted. In Forms three edits are
one each at two pages and a third that crosses; closing a view or a socket counts as two
(`Slash`). `Calm` leaves out that the last edit is on its way and the last stroke of the pointer is being
made at once.

`SYMMETRY` is on keys, in runs without liveness properties. `CHECK_DEADLOCK FALSE` is
said where the users' steps are bounded and nothing else is left to do once they are used up: Session (pings,
which go on, are not modelled there), Order, Map, Peers, Forms.

The fairness. `server_delivery`: `SF(Taken(p))`, for each connection. The loop in
`run()` does nothing but wait for sockets and go through marked and woken peers, and once
the clients are silent no peer has input to hold it up, so it comes round to each; a
socket whose client reads is writable again and again. A peer that is neither marked
nor blocked gets no fairness: that is what the property is after. `Delivered`
assumes that the clients are silent from some point on. `session`: weak
fairness of the client's own tasks (`Wake`, `Drain`, `Answer`, `CreateNotify`, a reconnection 5 s
after a failure), of delivery on a connection that holds (`Receive`, `SeeEnd`), and of
the server's timeout on connections nobody is behind (`Expire`). Nothing is assumed of
the user's changes or of losses, but that they are finitely many. `persist`: weak
fairness of each step of a request, of the loop's two branches (`select!` picks among the
ready ones at random) and of the write; and of the client's write of `ROOM`, which its task makes when it is next polled.
Of the removal of an object only the steps under the lock are fair (`RemoveProperty`, `ForgetRoom`), and `Unlink`, which
waits for nothing: `Persists` needs no more. Closings, failures and crashes may go on for ever. `map`:
weak fairness of `SimulationFrame`, which an interval of the browser calls as long as there is one.
`InStep`, `FormsSettle`, `CaughtUp`, `RoomDrawn` and `RoomsListed` need none: they
speak of states with nothing under way.

Definitions named in a comment that starts with "Mutation" are faulty variants of the definition that
follows them. Nothing uses them; with one in the place of the definition, the
property `PROJECT.json` pairs it with is violated.

## 4. What is proved

`RelayProofs` proves for Relay, for every set of keys, ids, objects, names and images,
any `MaxId` and any injective `Mix`: `TypeCorrect`, `IdsAreSound`,
`KeysAreUnique`, `RoomsAreComplete`, `NoGhosts`, `RostersAreSound`, `LobbyIsComplete`, each
`Spec => []P`. The assumptions are those of `Protocol`: the zero key is nobody's,
`Mix` is injective on `1..MaxId` (`hash::map` is a bijection), room and token ids are
apart (an object has one type), and the lobby is no client's room.

The inductive invariant is `IInv`. None of its parts but the types and `LobbyOpen` is inductive alone:
- `IdsSound` needs only itself and the types: `Accept` takes the head of the
  queue, which is not in use, or a new image of `Mix`, which injectivity
  keeps apart from those in use and those that wait.
- `UniqueKeys` needs that an entry which is accepted has no key: `IdleSlots`, every
  slot without a connection is blank, because `Remove` leaves it so.
- `RoomComplete` needs `IdleSlots` as well: a new connection is not authenticated, so it is not
  yet due anywhere.
- `NoGhostPeers` is what makes `RosterSound` survive `Accept`: an id that is
  handed out is on nobody's roster, so no old entry is taken for the new peer.
- `RosterSound` needs `NoGhostPeers` and, in a frame that is ignored for an unknown
  peer, that unknown peers are not claimed about.
- `LobbyComplete` needs `LobbyOpen` and `RoomComplete`: that both are members of the lobby's
  room is why each update of a token reaches the other, and why whoever comes in is
  met by whoever is there; and `RosterSound`, that the object frames are not ignored.

`Invariance` puts them together.

`ServerProofs` proves for Server, with any number of connections and buffers of any length: `TypeCorrect`,
`NothingIsStranded` (`NoStrandedOutput`), `Refinement` (`Implements`) and `PromisesHold`. The
assumptions are those of `Protocol`, and that ids, rooms and images are finitely many, since the
handlers go through them in some order.
- The table of a client, once it has read its buffer, is a fold over frames (`Read`). A frame changes the
  entry of the peer it is about and no other, and reads no other, so the proofs follow one entry
  (`Seen`), for which frames about others may be left out. `ConnectWritten` and
  `RoomWritten` say what each client makes of the frames a handler writes: of a dozen, in
  the order of the code, those about one peer come down to `Joined`, `Left`, or one after the other.
- What is written is read last (`WriteView`), so a handler changes what a client will hold as if the buffers
  were empty, whatever is in them; and what `PollPeer` moves from one side of the
  fold to the other changes nothing (`RefineStutter`).
- `Refinement` needs of the states nothing but their types. Each action has a lemma (`RefineConnect`,
  `RefineRoom`, ...).
- `NoStrandedOutput` is inductive with the types: a handler marks those it writes to (`SendMarks`),
  and `Connect` and `PeerUpdate` of `ROOM`, whose `leave_room` does not mark them all, end with one that
  marks everybody (`MarkedEverybody`).
- `PromisesHold` carries over what `RelayProofs` proves: `IdsSound`, `UniqueKeys`, `RoomComplete`,
  `RosterSound`, `NoGhostPeers` and `LobbyComplete` hold of the server and of what its clients have
  read and will read. No run checks it: the runs of Server check `Implements`, and those of Relay the promises.

`SessionProofs` proves for Session, for any number of objects, properties, changes, losses and entries
of the server: `TypeCorrect`, `NothingIsLost` (`NothingLost`), `NothingIsLeftWaiting`
(`NothingWaits`) and `NeverGoesBack` (`NeverBackwards`).
- The inductive invariant `IInv` is `Types`, `Orderly`, `Settled` and `NothingWaits`. `NothingLost` speaks of a drain
  that would be made now; `Settled` says it without the drain: of each object and
  of the room, either the copy, once it has handled what was sent, has the client's value, or a set has
  it (`Settles`). `SettlesIff` shows that this is what a drain takes to bring the copy to the client's state.
- A step of the server changes nothing of what will have arrived, since frames are handled one after
  the other wherever they are cut; a change by the user puts into a set what it unsettles;
  the snapshot settles everything, and leaves the sets as they are.
- `NothingWaits` needs `Settled` for the moment it becomes due, after a drain, and that each change leaves a
  permit or is by somebody who is about to.
- `NeverGoesBack` has an invariant of its own, `Forward`: on the way from a copy through the frames
  under way to what the client has, the values of a key do not fall (`Rising`). It holds of a snapshot that is
  followed by sets it has already, because drained values are the client's newest. It needs
  `Orderly`, that an object that was removed is not made again.

Induction in these two, and in the proofs of Order and Map, is a statement about a set of numbers, or of sequences,
that is closed under one more (`NatUp`, `SeqUp`), which the provers take, where a theorem about a predicate they do not.
Each of the four modules begins with the lemmas of this kind that it needs.

`PersistProofs` proves for Persist, for every set of pages and ids and any
number of changes: `TypeCorrect` (`TypeOK`), `RemovalIsFinal` (`GoneIsGone`), `ObjectsAreKept`
(`RowsKept`) and `LastValuesAreCovered` (`Covered`). The assumptions: ids of objects are not settings, and
`None` and `Theirs` are neither ids nor numbers, and differ.
- `GoneIsGone` and `RowsKept` need what holds at each step of the requests. An object that is being
  made is unknown, is made by one page, and from `insert` on has its row (`MakingSound`):
  so `InsertRow` never gives a row to an object that was removed, and `Insert` shows
  none that lacks one. An object that is being removed was asked for, and at `forget` and after it its row is gone
  (`RemovingSound`).
- `Covered` needs, for each cell that is not behind, that one page at most has something to write
  there; that what this page will write last (`Last`: its request's value, else the queue's, the
  batch's, the one being written) is the value in memory; and that the database has
  it once nobody has (`Right`). Of `ROOM` it says besides that while the client has to save it (`Cleared`), or a
  request removes it under the lock (`Leaving`), no page has anything to write there, and what the first cleared, and
  the second has removed from the database, is unset. Besides, nobody has queued anything of an object
  that is still being made (`NewApart`), since pages only name objects they know
  (`CarriedKnown`): otherwise `SaveNew` could come after an update. `SInv` is these together,
  and is inductive relative to the invariant of the other two, `IInv`.
- `TypeOK` needs `Typed`: what each cell may hold after so many changes (`Kinds`), in memory, in the database and
  in every queue, batch and write between them, so that a restart loads only such values.

`OrderProofs` proves of Sorting, for keys of any length and any greatest byte:
- `AfterComesAfter`: `after` raises the first byte that can be raised, or appends, so the key is greater by the
  order of slices, which is shown to be a strict total order there.
- `BeforeComesBefore`, for a key that has a byte above 1, and `MidpointComesBetween`, for keys
  with a gap at the first byte where they differ, or that differ within the lower one, which the upper exceeds by a
  byte at most. Beyond that both are false (see Sorting and Order above).

For Order, for any objects, groups and keys, it proves `TypeCorrect`, `ObjectsAreListed`
(`Listed`), `DroppedLast` (`DropsLast`) and `GoneWithACause` (`VanishesWith`).
- `OInv` is `Sound(objects, noted, children, astray)`, which is `TypeOK` and `Listed` of the tree as a
  relation of four values, so that it can be handed through the steps of one handler:
  lemmas say that each operation of `OrderRef` keeps it, `insert` over a row that is there and `extend` over
  the whole index too; `Dragging` and `Others` are the types of the rest.
- `DroppedLast` needs that rows are in a strict total order (key, then id), of which a finite non-empty set has a last,
  and `AfterComesAfter`. It needs `Clean` of the group: the key is made from the object of the last row, which need not have
  the key of a row that was left over.
- `GoneWithACause` is about walks of any depth. `Under` adds the rows of groups level by level: a level
  that adds nothing is the last, and as each other has one object more than the one before, there is one by the time
  there are as many as objects (`Iterates`). So what is under a group is the least set with the group's members
  and those of its own groups (`UnderIsLeast`). When only rows of one object go, the new walk, with that object and all that was under
  it, is closed in the old tree, so it has the old walk (`CutOff`); and when the object goes to a group that is in the list and not
  under it, nothing is lost (`PutAway`). Inserting and connecting again take no row away (`GrowsOnly`).
- The objects are assumed to be finitely many, and ids to be numbers.

`MapProofs` proves for Map, for any objects of any kinds and a world of any size: `PageIsSaved`
(`SavedAsShown`), `TokensAreDriven` (`Driven`), `TypeCorrect` (`TypeOK`) and `GesturesAreAllowed`
(`GesturesAllowed`).
- A handler is a chain of operators. `Writes(p, q)` says what they all do: what they change they note,
  no object comes or goes, and a token that is sent off is simulated. It is
  transitive, has one lemma for each operator, and `HandleStep` shows that a handler that `Writes`, then is
  `Settled`, keeps the invariant.
- `MInv` has besides the first two properties: nothing stays noted, so that each handler starts from
  a page that is sent; the setting that names the linked object names none of a peer in the backend, since
  only the number is told; the snapshot under way differs from the backend in `astray` cells only
  (`SnapshotSound`), so that they hold when it arrives; and an object of the user
  of which the page does not know whether it lives is gone (`LivesKnown`).
- `TypeOK` needs `TInv`: the snapshot has the types of the page, and a gesture under way is on a
  token or a static object (`Deed`, which `TypeOK` does not say), so that what it writes is a cell. `Fits` goes through
  the operators as `Writes` does. What is dragged stays in the world because a pointer does, at
  the offset at which it took hold (`Within`).
- `GesturesAllowed` goes through them once more, as `Gestures(p, q)`: places change of what is or comes to be acted
  upon, and no lock does (`LockStays`), so that an object that is not locked when its gesture begins was not
  when the key or button was pressed.
- The assumptions: ids are numbers, objects finitely many (of those under the pointer one is on top), the world
  has two places, and `None` is no gesture and no table of cells.

`PeersProofs` proves for Peers, for any number of peers, keys and rooms and any broadcasts that
wait: `KeysArePaired` (`KeysPaired`), `PeersTyped` (`TypeOK`), `MapCatchesUp` (`CaughtUp`), `RoomIsDrawn`
(`RoomDrawn`) and `RoomsAreListed` (`RoomsListed`).
- `Good`, that both maps of a component lead to each
  other, is kept by insertion, removal and the snapshot; the last needs that the backend's table has no key
  twice, which is a part of the invariant and what the server refuses (`UniqueKeys` of Relay).
- The other properties speak of a state with nothing to tell or to hear. What waits on the bus is not about the backend as it is, since
  that may have done what it has not told yet. The invariants (`Following` for the Map, `Listing` for the list) say
  that there is a table, a set of rooms and a `ROOM`, which are the backend's but for what is still to be told, or was never
  told (`TableTold`, `MineTold`, `RoomTold`), and that what waits agrees with those: `Told`, that what the bus says last of a peer,
  a thing or the room is so there (`Stands`); and `MapFollows`, that the Map has right what the bus
  is silent about (`Quiet`).
- A step is of one of three kinds. It changes the backend and tells of it (`Announced`): the message does no more than it says
  (`Happens`, `AnnouncedSays`). It changes the backend in silence (`Silent`): what was told stays. Or it tells (`Tell`): what was told
  comes to what is. A snapshot has all that is done, told or not; `Retold` says that what waits agrees with it too, once what
  the older broadcasts still say is put back (`KeptRooms`, `KeptRoom`).
- This needs to know what a handler tells of: that a room which is created is there or is `astray`, that one which is
  removed is gone, and does not come back (`UserSound`, `ClientSound`, `GoneForGood`; with the invariant of the first two theorems they are `Honest`).
- `RoomDrawn` needs that the Map looks its room up and draws it whenever it must, though not for
  every message: `Looked` (the id is the one its owner has by now) and `Painted` (it is drawn unless something of it waits, or the
  client has yet to tell that it is gone, `Owed`).
- `RoomsListed` is harder, since the list takes away rooms by the key of a peer, which it looks up under an id that may be
  another's by then. `Ordered` says that on the bus peers come and go in turn, and so do those that have
  one key; `Early`, that who has an id in the list when it should not, leaves first; `Leaving`, that a room which
  is listed and is not there will be taken off by something that waits.
- The assumptions: ids are numbers, `Me` is no peer's key, rooms and tokens are apart, and `None` is none of these.

`FormsProofs` proves for Forms, and for Upload in it, for any pages, views, pictures and edits: `TypeCorrect`
(`TypeOK`), `MarkedFits` (`CropFits`), `MapsInStep` (`InStep`) and `FormsInStep` (`FormsSettle`).
- `CropFits` comes from `UploadInv`. It says of the picture a mark was made on (`origin`), whether it
  is shown or not, that the mark lies on it; of what is held, that it did when it was taken hold of, and on which picture;
  and that what is being drawn was begun on the picture that is shown. The rest is arithmetic along one axis: `Moved`
  is clamped, `Resized` ends where the other edge is or at the picture's (`Lay`, `Reach`), and with a fixed proportion the
  other side is the quotient or the product, which is why `CropFits` excepts an edge in the middle of a side. Whole
  proportions, a unit of at least one and whole sizes of pictures are all that is assumed of the numbers.
- `TypeOK` needs `FormsTyped`: of each message under way not only who sent it but what it holds (`Asked`, `Told`,
  `Brought`), since what is heard is then shown, and the ratio that is shown becomes the Crop's.
- `InStep` and `FormsSettle` speak of empty queues. `StepInv`, which is inductive with `FormsTyped`, says
  what holds before, in three parts. `Closing`: the last broadcast of a cell in each queue is what
  was told last, wherever the answers were put between the broadcasts. `Settling`: of each view with a channel and each cell, a question or an update of it is
  still with the handler, or what the view will have heard last, or shows if nothing more comes, is `said` or `kept`
  (`Ends`); an answer may hold what is kept and not told yet. `Mapping`: what a Map shows in a
  cell that is not `off` is what it sent last, wherever that is by now, the request, what is to be told or the broadcast,
  unless something else is to be heard after it (`Echoes`); so it may leave its own echo alone. Over a channel that is not open it has
  nothing under way (`Quiets`): SetupChannel takes the channel away when the socket is closed, and what was on its way is lost with it.
- Each action has a lemma (`StepApply`, `StepTell`, `StepAnswer`, ...). `StepHear` is the hard one: what is heard is
  taken by some views and left alone by others, and a Map that leaves alone an echo must show its value already.

Three things of the model came out of these proofs. A mark that was taken hold of on one picture and moved over another
(a file may be chosen in the middle of a stroke) is clamped by the other's bounds, so it does not lie on the first for certain:
`Remark` says so. A value that was applied and lost before it was told leaves what was told last (`said`) in doubt: a view may be answered with
it, and a second value that is lost can make `kept` equal to `said` again, so `Lose` takes the cell out of `said`. The
server does not know that a view was closed: what the view asked is answered, and not heard (`live`).

Only model-checked: the liveness properties (`Delivered`, `Converges`, `Persists`, `Arrives`), which rest on fairness
and `ENABLED`, which the provers do not reason about. Every invariant, action property and refinement
that a passing run checks is proved.

## 5. Not modelled

- **Framing** (`remote/client.rs`, `remote/peer.rs`): `Buf`, partial reads and the size limits.
  They copy bytes on one connection, whose cursors no other task touches. Server has the writing of any part
  of a buffer as a step. A buffer that is nearly full does not move what is unread to the front
  (`remote/client.rs:147`), and refuses a message that would fit.
- **The order in which `PollPeers` takes peers**, and the cached wakers. Smallest id first, at the first
  that has input: a peer that always has input starves the ones after it. `Delivered` assumes
  silent clients for that reason.
- **The timers of the heartbeat**: a late ping or pong is a step that may happen at any time.
- **Mumble link** (`mumblelink.rs`, `crates/mumblelink`): the position that is published is computed from the
  objects and written to shared memory. Persist has which object is linked.
- **Images as data**: the image table, the cache of `client.rs`, the gallery, images that are dropped on the map. The
  gallery's list follows broadcasts as the list of rooms does. Relay and Server have the frames.
- **Log, navigation, app, routes, static files**: lists that are shown, and pages that are served.
- **Rendering** (`render.rs`, `dynamic_canvas.rs`): drawing in floating point, with no state to be wrong.
- **Keys and signatures** (`crypto.rs`): taken to work. A signature verifies for the key that made it.
- **Start-up** (`main.rs`, `tls.rs`, `paths.rs`), migrations, and the encoding of values.
