------------------------------ MODULE Session ------------------------------
(***************************************************************************)
(* One client's objects and its copy of them on the server, across         *)
(* connections that are lost, restarted and refused: backend.rs (what the  *)
(* user changes), client.rs (handle_peer, run, managed) and the part of    *)
(* server.rs that keeps what a client says.                                *)
(*                                                                         *)
(* The client notes each change in a set and leaves a permit in a Notify;  *)
(* run() drains the sets into the connection when it takes the permit. A   *)
(* connection starts from a snapshot of everything, taken when the         *)
(* challenge is answered, and the sets are not emptied then. The server    *)
(* may still hold an old connection of the same client, and refuses a      *)
(* second one for its public key until it has noticed the first is gone.   *)
(***************************************************************************)
EXTENDS Integers, SequencesExt

CONSTANTS
    ObjectId,   \* ids of the client's objects
    Prop,       \* keys of an object's properties
    None,       \* no object; no connection
    NoRoom,     \* the empty ROOM property: the lobby
    Slot,       \* entries of connections the server may hold at a time
    MaxEdits,   \* bound: changes the user makes
    MaxLosses   \* bound: connections cut or restarted

ASSUME SessionAssumption ==
    /\ IsFiniteSet(ObjectId)
    /\ IsFiniteSet(Prop)
    /\ None \notin [Prop -> Nat]
    /\ None \notin Slot
    /\ NoRoom \notin ObjectId
    /\ MaxEdits \in Nat
    /\ MaxLosses \in Nat

VARIABLES
    objects,    \* ClientState.objects: the properties of each, or None
    room,       \* ClientState.props[ROOM], one of the client's own rooms
    used,       \* ClientState.used_ids
    changed,    \* LocalObject.changed
    dirty,      \* objects_changed
    added,      \* objects_added
    removed,    \* objects_removed
    moved,      \* whether ROOM is in props_changed
    creating,   \* create_object calls that have not notified yet
    permit,     \* client_notify holds a permit
    conn,       \* the connection of run(), or None
    ready,      \* run: authenticated
    waking,     \* run took the permit and waits for the lock of ClientState
    entry,      \* the server's entry of each connection
    inbox,      \* the frames the server has not handled yet
    copy,       \* the objects and room the server holds for it
    edits, losses

localVars == <<objects, room, used, changed, dirty, added, removed, moved, creating, permit, edits>>
serverVars == <<entry, inbox, copy>>
runVars == <<conn, ready, waking>>
vars == <<objects, room, used, changed, dirty, added, removed, moved, creating, permit,
          conn, ready, waking, entry, inbox, copy, edits, losses>>

Empty == [objects |-> [o \in ObjectId |-> None], room |-> NoRoom]

Local == [objects |-> objects, room |-> room]

-----------------------------------------------------------------------------
(* What the user does: handlers of the local web server, on the backend. *)

Edit == edits < MaxEdits /\ edits' = edits + 1

(* Each change writes a value of its own. *)
New == edits + 1

(* create_object inserts the object, then writes to the database, then notifies. *)
CreateObject(o) ==
    /\ Edit
    /\ o \notin used
    /\ used' = used \cup {o}
    /\ objects' = [objects EXCEPT ![o] = [k \in Prop |-> New]]
    /\ changed' = [changed EXCEPT ![o] = {}]
    /\ added' = added \cup {o}
    /\ creating' = creating \cup {o}
    /\ UNCHANGED <<room, dirty, removed, moved, permit, runVars, serverVars, losses>>

(* Mutation: nobody is woken for a new object. *)
CreateQuietly(o) ==
    /\ o \in creating
    /\ creating' = creating \ {o}
    /\ UNCHANGED <<objects, room, used, changed, dirty, added, removed, moved, permit, runVars,
                   serverVars, edits, losses>>

CreateNotify(o) ==
    /\ o \in creating
    /\ creating' = creating \ {o}
    /\ permit' = TRUE
    /\ UNCHANGED <<objects, room, used, changed, dirty, added, removed, moved, runVars,
                   serverVars, edits, losses>>

ObjectUpdate(o, k) ==
    /\ Edit
    /\ objects[o] # None
    /\ objects' = [objects EXCEPT ![o][k] = New]
    /\ changed' = [changed EXCEPT ![o] = @ \cup {k}]
    /\ dirty' = dirty \cup {o}
    /\ permit' = TRUE
    /\ UNCHANGED <<room, used, added, removed, moved, creating, runVars, serverVars, losses>>

(* Mutation: an object that waits to be announced is not announced as removed. *)
RemoveUnannounced(o) ==
    /\ Edit
    /\ o \in used
    /\ objects' = [objects EXCEPT ![o] = None]
    /\ changed' = [changed EXCEPT ![o] = {}]
    /\ room' = IF room = o THEN NoRoom ELSE room
    /\ moved' = (moved \/ room = o)
    /\ dirty' = dirty \ {o}
    /\ added' = added \ {o}
    /\ removed' = IF o \in added THEN removed ELSE removed \cup {o}
    /\ permit' = TRUE
    /\ UNCHANGED <<used, creating, runVars, serverVars, losses>>

(* remove_object also leaves the room when the object is it. A second page may
   remove what is gone. *)
RemoveObject(o) ==
    /\ Edit
    /\ o \in used
    /\ objects' = [objects EXCEPT ![o] = None]
    /\ changed' = [changed EXCEPT ![o] = {}]
    /\ room' = IF room = o THEN NoRoom ELSE room
    /\ moved' = (moved \/ room = o)
    /\ dirty' = dirty \ {o}
    /\ added' = added \ {o}
    /\ removed' = removed \cup {o}
    /\ permit' = TRUE
    /\ UNCHANGED <<used, creating, runVars, serverVars, losses>>

(* updates, with ROOM. *)
SetRoom(r) ==
    /\ Edit
    /\ r \in {NoRoom} \cup {o \in ObjectId : objects[o] # None}
    /\ room' = r
    /\ moved' = TRUE
    /\ permit' = TRUE
    /\ UNCHANGED <<objects, used, changed, dirty, added, removed, creating, runVars,
                   serverVars, losses>>

-----------------------------------------------------------------------------
(* Frames to the server, and what its handlers make of them. *)

Handle(c, f) ==
    CASE f.type = "Hello" -> c
      [] f.type = "Connect" -> f.state
      [] f.type = "PeerUpdate" -> [c EXCEPT !.room = f.room]
      [] f.type = "ObjectCreate" -> [c EXCEPT !.objects[f.object] = f.props]
      [] f.type = "ObjectUpdate" ->
            IF c.objects[f.object] = None THEN c
            ELSE [c EXCEPT !.objects[f.object][f.key] = f.value]
      [] f.type = "ObjectRemove" -> [c EXCEPT !.objects[f.object] = None]

HandleAll(c, frames) ==
    LET after[n \in 0..Len(frames)] == IF n = 0 THEN c ELSE Handle(after[n - 1], frames[n])
    IN  after[Len(frames)]

(* The sets as run() drains them, in this order. An object that is changed but
   gone is skipped, and so is one that is added but gone. *)
DrainFrames ==
    LET present(S) == SetToSeq({o \in S : objects[o] # None})
        updates(o) == LET ks == SetToSeq(changed[o])
                      IN  [i \in DOMAIN ks |-> [type |-> "ObjectUpdate", object |-> o,
                                                key |-> ks[i], value |-> objects[o][ks[i]]]]
        ds == present(dirty)
        as == present(added)
        rs == SetToSeq(removed)
    IN  (IF moved THEN <<[type |-> "PeerUpdate", room |-> room]>> ELSE <<>>)
        \o FlattenSeq([i \in DOMAIN ds |-> updates(ds[i])])
        \o [i \in DOMAIN as |->
              [type |-> "ObjectCreate", object |-> as[i], props |-> objects[as[i]]]]
        \o [i \in DOMAIN rs |-> [type |-> "ObjectRemove", object |-> rs[i]]]

(* Mutation: what is written goes before what was not handled yet. *)
TransmitFirst(frames) ==
    inbox' = IF entry[conn] = "gone" THEN inbox ELSE [inbox EXCEPT ![conn] = frames \o @]

(* What is written to a connection the server has left is lost. *)
Transmit(frames) ==
    inbox' = IF entry[conn] = "gone" THEN inbox ELSE [inbox EXCEPT ![conn] = @ \o frames]

-----------------------------------------------------------------------------
(* The client's side of a connection: managed() and run(). *)

(* managed builds a run after a restart, or 5 s after the last one failed: a new
   connection is accepted and says Hello. *)
Dial(s) ==
    /\ conn = None
    /\ entry[s] = "gone"
    /\ conn' = s
    /\ entry' = [entry EXCEPT ![s] = "open"]
    /\ inbox' = [inbox EXCEPT ![s] = <<[type |-> "Hello"]>>]
    /\ UNCHANGED <<localVars, ready, waking, copy, losses>>

(* The client reads the challenge: a snapshot goes out, the sets stay. *)
Answer ==
    /\ conn # None
    /\ ~ready
    /\ entry[conn] = "challenged"
    /\ ready' = TRUE
    /\ Transmit(<<[type |-> "Connect", state |-> Local]>>)
    /\ UNCHANGED <<localVars, conn, waking, entry, copy, losses>>

(* run() takes the permit first, and waits for the lock after. *)
Wake ==
    /\ ready
    /\ permit
    /\ ~waking
    /\ waking' = TRUE
    /\ permit' = FALSE
    /\ UNCHANGED <<objects, room, used, changed, dirty, added, removed, moved, creating, edits,
                   conn, ready, serverVars, losses>>

Drain ==
    /\ waking
    /\ waking' = FALSE
    /\ Transmit(DrainFrames)
    /\ changed' = [o \in ObjectId |-> IF o \in dirty THEN {} ELSE changed[o]]
    /\ dirty' = {}
    /\ added' = {}
    /\ removed' = {}
    /\ moved' = FALSE
    /\ UNCHANGED <<objects, room, used, creating, permit, conn, ready, entry, copy, edits, losses>>

HangUp == conn' = None /\ ready' = FALSE /\ waking' = FALSE

(* A restart, a pong that is late, a link that is cut: run is dropped where it
   stands, and the server does not know it yet. *)
Lose ==
    /\ conn # None
    /\ losses < MaxLosses
    /\ losses' = losses + 1
    /\ HangUp
    /\ UNCHANGED <<localVars, serverVars>>

(* The client reads the end of a stream the server has left. *)
SeeEnd ==
    /\ conn # None
    /\ ~waking
    /\ entry[conn] = "gone"
    /\ HangUp
    /\ UNCHANGED <<localVars, serverVars, losses>>

-----------------------------------------------------------------------------
(* The server's side: handle() and remove_peer. *)

(* Mutation: frames that were read but not handled stay. *)
ForgetEntry(s) ==
    /\ entry' = [entry EXCEPT ![s] = "gone"]
    /\ copy' = [copy EXCEPT ![s] = Empty]
    /\ UNCHANGED inbox

(* The entry goes with all that was not handled. *)
Forget(s) ==
    /\ entry' = [entry EXCEPT ![s] = "gone"]
    /\ inbox' = [inbox EXCEPT ![s] = <<>>]
    /\ copy' = [copy EXCEPT ![s] = Empty]

(* Connect is refused while another entry has the public key. *)
Refused(s, f) == f.type = "Connect" /\ \E t \in Slot \ {s} : entry[t] = "in"

Receive(s) ==
    /\ inbox[s] # <<>>
    /\ LET f == Head(inbox[s])
       IN  \/ /\ Refused(s, f)
              /\ Forget(s)
           \/ /\ ~Refused(s, f)
              /\ inbox' = [inbox EXCEPT ![s] = Tail(@)]
              /\ entry' = [entry EXCEPT ![s] = IF f.type = "Hello" THEN "challenged" ELSE "in"]
              /\ copy' = [copy EXCEPT ![s] = Handle(@, f)]
    /\ UNCHANGED <<localVars, runVars, losses>>

(* Mutation: the timeout covers the handshake only. *)
ExpireEarly(s) ==
    /\ entry[s] \in {"open", "challenged"}
    /\ s # conn
    /\ Forget(s)
    /\ UNCHANGED <<localVars, runVars, losses>>

(* The server reads the end of a stream the client left, or its 5 s timeout runs
   out first. *)
Expire(s) ==
    /\ entry[s] # "gone"
    /\ s # conn
    /\ Forget(s)
    /\ UNCHANGED <<localVars, runVars, losses>>

(* The timeout runs out on a client that is there, but was slow. *)
Drop ==
    /\ conn # None
    /\ entry[conn] # "gone"
    /\ losses < MaxLosses
    /\ losses' = losses + 1
    /\ Forget(conn)
    /\ UNCHANGED <<localVars, runVars>>

-----------------------------------------------------------------------------
Init ==
    /\ objects = [o \in ObjectId |-> None]
    /\ room = NoRoom
    /\ used = {}
    /\ changed = [o \in ObjectId |-> {}]
    /\ dirty = {}
    /\ added = {}
    /\ removed = {}
    /\ moved = FALSE
    /\ creating = {}
    /\ permit = FALSE
    /\ conn = None
    /\ ready = FALSE
    /\ waking = FALSE
    /\ entry = [s \in Slot |-> "gone"]
    /\ inbox = [s \in Slot |-> <<>>]
    /\ copy = [s \in Slot |-> Empty]
    /\ edits = 0
    /\ losses = 0

Next ==
    \/ \E o \in ObjectId :
        \/ CreateObject(o)
        \/ CreateNotify(o)
        \/ \E k \in Prop : ObjectUpdate(o, k)
        \/ RemoveObject(o)
    \/ \E r \in ObjectId \cup {NoRoom} : SetRoom(r)
    \/ \E s \in Slot : Dial(s) \/ Receive(s) \/ Expire(s)
    \/ Answer
    \/ Wake
    \/ Drain
    \/ Lose
    \/ SeeEnd
    \/ Drop

Spec == Init /\ [][Next]_vars

(* Both programs keep running, 5 s pass, and bytes arrive on a link that holds. *)
FairSpec ==
    /\ Spec
    /\ \A o \in ObjectId : WF_vars(CreateNotify(o))
    /\ \A s \in Slot : WF_vars(Receive(s)) /\ WF_vars(Expire(s))
    /\ WF_vars(\E s \in Slot : Dial(s))
    /\ WF_vars(Answer)
    /\ WF_vars(Wake)
    /\ WF_vars(Drain)
    /\ WF_vars(SeeEnd)

-----------------------------------------------------------------------------
States == [objects : [ObjectId -> [Prop -> 1..MaxEdits] \cup {None}], room : ObjectId \cup {NoRoom}]

TypeOK ==
    /\ Local \in States
    /\ used \in SUBSET ObjectId
    /\ changed \in [ObjectId -> SUBSET Prop]
    /\ {dirty, added, removed, creating} \subseteq SUBSET ObjectId
    /\ {moved, permit, ready, waking} \subseteq BOOLEAN
    /\ conn \in Slot \cup {None}
    /\ entry \in [Slot -> {"gone", "open", "challenged", "in"}]
    /\ copy \in [Slot -> States]
    /\ \A s \in Slot : entry[s] = "gone" => inbox[s] = <<>>

(* Whatever was changed before, during or after the challenge, what is still in
   the connection and in the sets brings the server's copy to what the client
   has: a connection that holds loses nothing, and a change that is sent again
   after the snapshot that has it already undoes nothing. *)
NothingLost ==
    ready /\ entry[conn] # "gone" =>
        HandleAll(copy[conn], inbox[conn] \o DrainFrames) = Local

(* A connection where nobody is about to be woken has everything: a change that is
   still in a set, because run() was dropped after it took the permit, is one
   that the next snapshot carried. *)
NothingWaits ==
    ready /\ entry[conn] # "gone" /\ ~permit /\ ~waking /\ creating = {} =>
        HandleAll(copy[conn], inbox[conn]) = Local

(* What the others see of an object goes forward: no change that is sent twice, in
   the snapshot and from the sets, brings back an older value. *)
NeverBackwards ==
    [][\A s \in Slot : entry[s] = "in" /\ entry'[s] = "in" =>
        \A o \in ObjectId :
            copy[s].objects[o] # None /\ copy'[s].objects[o] # None =>
                \A k \in Prop : copy'[s].objects[o][k] >= copy[s].objects[o][k]]_vars

Synced ==
    /\ ready /\ entry[conn] = "in"
    /\ copy[conn] = Local

(* The client gets in again past its own dead connections, and the server ends up
   with what the client has. *)
Converges == <>[]Synced
=============================================================================
