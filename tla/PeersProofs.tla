---------------------------- MODULE PeersProofs ----------------------------
(***************************************************************************)
(* What Peers guarantees for any number of peers, keys, rooms and          *)
(* broadcasts.                                                             *)
(*                                                                         *)
(* That ids and keys are paired is kept by each operator by itself. That   *)
(* the Map and the list of rooms come to show what the backend has, rests  *)
(* on what the queue says last of each peer, thing and room: a step of the *)
(* backend changes no more than it says, and of what the queue is silent   *)
(* about, or says last, the page will have it right.                       *)
(***************************************************************************)
EXTENDS Peers, SequenceTheorems, FiniteSetTheorems, TLAPS

Keys == UNION {[D -> PeerId] : D \in SUBSET PublicKey}

(* A component, with the peers and keys it has. *)
Fields(v) ==
    /\ {"peers", "keys"} \subseteq DOMAIN v
    /\ v.peers \in [PeerId -> KnownPeer \cup {None}]
    /\ v.keys \in Keys

(* Its ids and keys lead to each other. *)
Paired(v) ==
    /\ \A k \in DOMAIN v.keys : v.peers[v.keys[k]] # None /\ v.peers[v.keys[k]].key = k
    /\ \A p \in PeerId :
        v.peers[p] # None => v.peers[p].key \in DOMAIN v.keys /\ v.keys[v.peers[p].key] = p

Good(v) == Fields(v) /\ Paired(v)

LEMMA NoPeersGood ==
    ASSUME NEW v, Fields(v)
    PROVE  Good(NoPeers(v))
  <1> DEFINE w == NoPeers(v)
  <1>1. w.peers = [p \in PeerId |-> None] /\ w.keys = <<>> /\ DOMAIN w = DOMAIN v
    BY DEF NoPeers, Fields
  <1>2. <<>> \in [{} -> PeerId]
    OBVIOUS
  <1> QED
    BY <1>1, <1>2 DEF Good, Fields, Paired, Keys

LEMMA InsertGood ==
    ASSUME NEW v, Good(v), NEW p \in PeerId, NEW key \in PublicKey, NEW its \in StableId, NEW here
    PROVE  Good(Insert(v, p, key, its, here))
  <1> DEFINE old == IF key \in DOMAIN v.keys THEN v.keys[key] ELSE None
             peers == [q \in PeerId |-> IF q = old THEN None ELSE v.peers[q]]
             keys == Noted(v.keys, key, p)
             new == [key |-> key, room |-> its, here |-> its = here]
             left == IF peers[p] = None THEN keys ELSE Forgotten(keys, peers[p].key)
             w == Insert(v, p, key, its, here)
  <1>1. w.peers = [peers EXCEPT ![p] = new] /\ w.keys = left /\ DOMAIN w = DOMAIN v
    BY DEF Insert, Good, Fields
  <1>2. new \in KnownPeer /\ new # None /\ new.key = key
    <2>1. (its = here) \in BOOLEAN
      OBVIOUS
    <2>2. \A b \in BOOLEAN : [key |-> key, room |-> its, here |-> b] \in KnownPeer
      BY DEF KnownPeer
    <2>3. new \in KnownPeer
      BY <2>1, <2>2, Zenon
    <2>4. new.key = key
      OBVIOUS
    <2> QED
      BY <2>3, <2>4, NoneAssumption, Zenon
  <1>3. peers \in [PeerId -> KnownPeer \cup {None}]
    BY DEF Good, Fields
  <1>4. DOMAIN keys = {key} \cup DOMAIN v.keys /\ keys[key] = p
        /\ \A k \in DOMAIN v.keys \ {key} : keys[k] = v.keys[k]
    BY DEF Noted
  <1> HIDE DEF keys, peers, w, new
  <1>5. DOMAIN v.keys \subseteq PublicKey /\ \A k \in DOMAIN v.keys : v.keys[k] \in PeerId
    BY DEF Good, Fields, Keys
  <1>6. keys \in [DOMAIN keys -> PeerId]
    BY <1>4, <1>5 DEF keys, Noted
  <1>7. \A q \in PeerId : peers[q] = IF q = old THEN None ELSE v.peers[q]
    BY DEF peers
  <1>8. peers[p] # None => peers[p].key # key /\ peers[p].key \in DOMAIN keys
    <2> SUFFICES ASSUME peers[p] # None PROVE peers[p].key # key /\ peers[p].key \in DOMAIN keys
      OBVIOUS
    <2>1. peers[p] = v.peers[p] /\ p # old /\ v.peers[p] # None
      BY <1>7
    <2>2. v.peers[p].key \in DOMAIN v.keys /\ v.keys[v.peers[p].key] = p
      BY <2>1 DEF Good, Paired
    <2> QED
      BY <2>1, <2>2, <1>4
  <1>9. left \in [DOMAIN left -> PeerId] /\ DOMAIN left \subseteq PublicKey
        /\ DOMAIN left = (IF peers[p] = None THEN DOMAIN keys ELSE DOMAIN keys \ {peers[p].key})
        /\ \A k \in DOMAIN left : left[k] = keys[k]
    BY <1>4, <1>5, <1>6 DEF Forgotten
  <1> HIDE DEF left, old
  <1>10. Fields(w)
    BY <1>1, <1>2, <1>3, <1>9 DEF Good, Fields, Keys
  <1>11. ASSUME NEW k \in DOMAIN w.keys
         PROVE  w.peers[w.keys[k]] # None /\ w.peers[w.keys[k]].key = k
    <2>1. CASE k = key
      <3>1. w.keys[k] = p
        BY <2>1, <1>1, <1>4, <1>9
      <3> QED
        BY <3>1, <2>1, <1>1, <1>2, <1>3
    <2>2. CASE k # key
      <3>1. k \in DOMAIN v.keys /\ w.keys[k] = v.keys[k] /\ v.keys[k] \in PeerId
        BY <2>2, <1>1, <1>4, <1>5, <1>9
      <3>2. v.peers[v.keys[k]] # None /\ v.peers[v.keys[k]].key = k
        BY <3>1 DEF Good, Paired
      <3>3. v.keys[k] # old
        <4>1. CASE key \in DOMAIN v.keys
          BY <4>1, <3>2, <2>2 DEF Good, Paired, old
        <4>2. CASE key \notin DOMAIN v.keys
          BY <4>2, <3>1, PeersAssumption DEF old
        <4> QED
          BY <4>1, <4>2
      <3>4. peers[v.keys[k]] = v.peers[v.keys[k]]
        BY <3>1, <3>3, <1>7
      <3>5. v.keys[k] # p
        BY <3>1, <3>2, <3>4, <1>1, <1>9
      <3> QED
        BY <3>1, <3>2, <3>4, <3>5, <1>1, <1>3
    <2> QED
      BY <2>1, <2>2
  <1>12. ASSUME NEW q \in PeerId, w.peers[q] # None
         PROVE  w.peers[q].key \in DOMAIN w.keys /\ w.keys[w.peers[q].key] = q
    <2>1. CASE q = p
      <3>1. w.peers[q].key = key
        BY <2>1, <1>1, <1>2, <1>3
      <3> QED
        BY <3>1, <2>1, <1>1, <1>4, <1>8, <1>9
    <2>2. CASE q # p
      <3>1. w.peers[q] = v.peers[q] /\ q # old /\ v.peers[q] # None
        BY <2>2, <1>1, <1>3, <1>7, <1>12
      <3>2. v.peers[q].key \in DOMAIN v.keys /\ v.keys[v.peers[q].key] = q
        BY <3>1 DEF Good, Paired
      <3>3. v.peers[q].key # key
        BY <3>1, <3>2 DEF old
      <3>4. peers[p] # None => v.peers[q].key # peers[p].key
        <4> SUFFICES ASSUME peers[p] # None PROVE v.peers[q].key # peers[p].key
          OBVIOUS
        <4>1. v.peers[p] # None /\ peers[p] = v.peers[p]
          BY <1>7
        <4> QED
          BY <4>1, <3>2, <2>2 DEF Good, Paired
      <3> QED
        BY <3>1, <3>2, <3>3, <3>4, <1>1, <1>4, <1>9
    <2> QED
      BY <2>1, <2>2
  <1> QED
    BY <1>10, <1>11, <1>12 DEF Good, Paired, w

LEMMA RemoveGood ==
    ASSUME NEW v, Good(v), NEW p \in PeerId
    PROVE  Good(Remove(v, p))
  <1>1. CASE v.peers[p] = None
    BY <1>1 DEF Remove
  <1>2. CASE v.peers[p] # None
    <2> DEFINE key == v.peers[p].key
               w == Remove(v, p)
    <2>1. w.peers = [v.peers EXCEPT ![p] = None] /\ w.keys = Forgotten(v.keys, key)
          /\ DOMAIN w = DOMAIN v
      BY <1>2 DEF Remove, Good, Fields
    <2>2. DOMAIN v.keys \subseteq PublicKey /\ \A k \in DOMAIN v.keys : v.keys[k] \in PeerId
      BY DEF Good, Fields, Keys
    <2>3. DOMAIN w.keys = DOMAIN v.keys \ {key} /\ \A k \in DOMAIN w.keys : w.keys[k] = v.keys[k]
      BY <2>1 DEF Forgotten
    <2>4. w.keys \in [DOMAIN w.keys -> PeerId]
      BY <2>1, <2>2, <2>3 DEF Forgotten
    <2> HIDE DEF w, key
    <2>5. Fields(w)
      BY <2>1, <2>2, <2>3, <2>4 DEF Good, Fields, Keys
    <2>6. key \in DOMAIN v.keys /\ v.keys[key] = p
      BY <1>2 DEF Good, Paired, key
    <2>7. \A k \in DOMAIN w.keys : w.keys[k] # p
      BY <2>3 DEF Good, Paired, key
    <2>8. \A k \in DOMAIN w.keys : w.peers[w.keys[k]] # None /\ w.peers[w.keys[k]].key = k
      BY <2>1, <2>2, <2>3, <2>7 DEF Good, Fields, Paired
    <2>9. \A q \in PeerId : w.peers[q] # None => q # p /\ w.peers[q] = v.peers[q]
      BY <2>1 DEF Good, Fields
    <2>10. \A q \in PeerId : w.peers[q] # None =>
              w.peers[q].key \in DOMAIN w.keys /\ w.keys[w.peers[q].key] = q
      BY <2>3, <2>6, <2>9 DEF Good, Paired
    <2> QED
      BY <2>5, <2>8, <2>10 DEF Good, Paired, w
  <1> QED
    BY <1>1, <1>2

(* Nothing depends on the rooms of the peers, nor on what else a component has. *)
LEMMA AlikeGood ==
    ASSUME NEW v, Good(v), NEW w, Fields(w), w.keys = v.keys,
           \A p \in PeerId : (w.peers[p] = None) <=> (v.peers[p] = None),
           \A p \in PeerId : v.peers[p] # None => w.peers[p].key = v.peers[p].key
    PROVE  Good(w)
  <1>1. \A k \in DOMAIN v.keys : v.keys[k] \in PeerId
    BY DEF Good, Fields, Keys
  <1> QED
    BY <1>1 DEF Good, Paired

LEMMA SameGood ==
    ASSUME NEW v, Good(v), NEW w, DOMAIN w = DOMAIN v, w.peers = v.peers, w.keys = v.keys
    PROVE  Good(w)
  BY DEF Good, Fields, Paired

(* What is known of a peer once its room is said to be another; the key stays. *)
Relodged(info, its, here) == [info EXCEPT !.room = its, !.here = (its = here)]

LEMMA OneKnown ==
    ASSUME NEW info \in KnownPeer, NEW its \in StableId, NEW here
    PROVE  LET new == Relodged(info, its, here)
           IN  new \in KnownPeer /\ new # None /\ new.key = info.key
  <1> DEFINE new(b) == [info EXCEPT !.room = its, !.here = b]
  <1>1. \A b \in BOOLEAN : new(b) \in KnownPeer /\ new(b).key = info.key
    BY DEF KnownPeer
  <1>2. (its = here) \in BOOLEAN
    OBVIOUS
  <1>3. new(its = here) \in KnownPeer /\ new(its = here).key = info.key
    BY <1>1, <1>2, Zenon
  <1> QED
    BY <1>3, NoneAssumption, Zenon DEF Relodged

LEMMA MovedGood ==
    ASSUME NEW v, Good(v), NEW p \in PeerId, v.peers[p] # None, NEW its \in StableId, NEW here
    PROVE  Good([v EXCEPT !.peers[p].room = its, !.peers[p].here = (its = here)])
  <1> DEFINE info == v.peers[p]
             new == Relodged(info, its, here)
             w == [v EXCEPT !.peers[p].room = its, !.peers[p].here = (its = here)]
  <1>1. info \in KnownPeer
    BY DEF Good, Fields
  <1>2. new \in KnownPeer /\ new # None /\ new.key = info.key
    <2> HIDE DEF info
    <2> QED
      BY <1>1, OneKnown
  <1>3. w.peers = [v.peers EXCEPT ![p] = new] /\ w.keys = v.keys /\ DOMAIN w = DOMAIN v
    BY DEF Good, Fields, Relodged
  <1> HIDE DEF w, new
  <1>4. w.peers \in [PeerId -> KnownPeer \cup {None}]
    BY <1>2, <1>3 DEF Good, Fields
  <1>5. Fields(w)
    BY <1>3, <1>4 DEF Good, Fields
  <1>6. \A q \in PeerId : (w.peers[q] = None) <=> (v.peers[q] = None)
    BY <1>2, <1>3 DEF Good, Fields
  <1>7. \A q \in PeerId : v.peers[q] # None => w.peers[q].key = v.peers[q].key
    BY <1>2, <1>3 DEF Good, Fields
  <1>8. w.keys = v.keys
    BY <1>3
  <1>9. Good(w)
    BY <1>5, <1>6, <1>7, <1>8, AlikeGood
  <1> QED
    BY <1>9 DEF w

-----------------------------------------------------------------------------
(* The backend's table: nobody is known twice. *)
TableSound ==
    /\ table \in [PeerId -> Info \cup {None}]
    /\ \A p, q \in Connected : table[p].key = table[q].key => p = q

LEMMA CopiedGood ==
    ASSUME TableSound, NEW v, {"peers", "keys"} \subseteq DOMAIN v, NEW here
    PROVE  Good(Copied(v, here))
  <1> DEFINE w == Copied(v, here)
             info(p) == [key |-> table[p].key, room |-> table[p].room, here |-> table[p].room = here]
  <1>1. /\ w.peers = [p \in PeerId |-> IF table[p] = None THEN None ELSE info(p)]
        /\ w.keys = [k \in Known |-> CHOOSE p \in Connected : table[p].key = k]
        /\ DOMAIN w = DOMAIN v
    BY DEF Copied
  <1>2. ASSUME NEW p \in Connected
        PROVE  /\ p \in PeerId /\ table[p].key \in PublicKey
               /\ info(p) \in KnownPeer /\ info(p) # None /\ info(p).key = table[p].key
    <2>1. p \in PeerId /\ table[p] \in Info
      BY DEF Connected, TableSound
    <2>2. \A b \in BOOLEAN : [key |-> table[p].key, room |-> table[p].room, here |-> b] \in KnownPeer
      BY <2>1 DEF Info, KnownPeer
    <2>3. (table[p].room = here) \in BOOLEAN
      OBVIOUS
    <2>4. info(p) \in KnownPeer
      BY <2>2, <2>3, Zenon
    <2>5. info(p).key = table[p].key
      OBVIOUS
    <2>6. table[p].key \in PublicKey
      BY <2>1 DEF Info
    <2> QED
      BY <2>1, <2>4, <2>5, <2>6, NoneAssumption, Zenon
  <1> HIDE DEF info, w
  <1>3. w.peers \in [PeerId -> KnownPeer \cup {None}]
    BY <1>1, <1>2 DEF Connected
  <1>4. \A k \in Known : w.keys[k] \in Connected /\ table[w.keys[k]].key = k
    BY <1>1 DEF Known
  <1>5. \A p \in Connected : table[p].key \in Known /\ w.keys[table[p].key] = p
    BY <1>4 DEF Known, TableSound
  <1>6. Known \subseteq PublicKey /\ w.keys \in [Known -> PeerId]
    BY <1>1, <1>2, <1>4 DEF Known
  <1>7. Fields(w)
    BY <1>1, <1>3, <1>6 DEF Fields, Keys
  <1>8. \A p \in Connected : w.peers[p] = info(p) /\ w.peers[p] # None /\ w.peers[p].key = table[p].key
    BY <1>1, <1>2 DEF Connected
  <1>9. \A p \in PeerId : w.peers[p] # None => p \in Connected
    BY <1>1 DEF Connected
  <1>10. DOMAIN w.keys = Known
    BY <1>1
  <1>11. Paired(w)
    BY <1>4, <1>5, <1>8, <1>9, <1>10 DEF Paired
  <1> QED
    BY <1>1, <1>7, <1>11 DEF Good, w

-----------------------------------------------------------------------------
(* What waits for a page. *)
Message ==
    [is : {"RemoteLost"}]
    \cup [is : {"PeerConnected"}, peer : PeerId, key : PublicKey, room : StableId]
    \cup [is : {"PeerJoin"}, peer : PeerId, things : {x \in SUBSET ObjectId : Token \subseteq x}]
    \cup [is : {"PeerLeave", "PeerDisconnect"}, peer : PeerId]
    \cup [is : {"PeerUpdate"}, peer : PeerId, room : StableId]
    \cup [is : {"ObjectCreated", "ObjectRemoved"}, peer : PeerId \cup {Local}, object : ObjectId]
    \cup [is : {"Config"}, room : StableId, from : {"backend", "other", "rooms"}]

LEMMA Beside ==
    ASSUME NEW v, Good(v)
    PROVE  /\ Good(Drawn(v)) /\ Good(UpdatePeers(v))
           /\ \A x : Good([v EXCEPT !.things = x]) /\ Good([v EXCEPT !.list = x])
                     /\ Good([v EXCEPT !.room = x]) /\ Good([v EXCEPT !.active = x])
                     /\ Good([v EXCEPT !.open = x])
           /\ \A x, y : Good([v EXCEPT !.list = x, !.lost = y])
  <1>1. Good(Drawn(v))
    BY SameGood DEF Drawn, Good, Fields
  <1>2. Good(UpdatePeers(v))
    BY SameGood DEF UpdatePeers, Good, Fields
  <1>3. ASSUME NEW x, NEW y
        PROVE  /\ Good([v EXCEPT !.things = x]) /\ Good([v EXCEPT !.list = x])
               /\ Good([v EXCEPT !.room = x]) /\ Good([v EXCEPT !.active = x])
               /\ Good([v EXCEPT !.open = x]) /\ Good([v EXCEPT !.list = x, !.lost = y])
    <2>1. Good([v EXCEPT !.things = x])
      BY SameGood DEF Good, Fields
    <2>2. Good([v EXCEPT !.list = x])
      BY SameGood DEF Good, Fields
    <2>3. Good([v EXCEPT !.room = x])
      BY SameGood DEF Good, Fields
    <2>4. Good([v EXCEPT !.active = x])
      BY SameGood DEF Good, Fields
    <2>5. Good([v EXCEPT !.open = x])
      BY SameGood DEF Good, Fields
    <2>6. Good([v EXCEPT !.list = x, !.lost = y])
      BY SameGood DEF Good, Fields
    <2> QED
      BY <2>1, <2>2, <2>3, <2>4, <2>5, <2>6
  <1> QED
    BY <1>1, <1>2, <1>3

LEMMA MapUpdateGood ==
    ASSUME NEW v, Good(v), NEW m \in Message, m.is # "Config"
    PROVE  Good(MapUpdate(v, m))
  <1>1. CASE m.is = "RemoteLost"
    <2>1. Good([v EXCEPT !.things = @ \cap Of(Local)])
      BY Beside
    <2>2. Good(NoPeers([v EXCEPT !.things = @ \cap Of(Local)]))
      BY <2>1, NoPeersGood DEF Good
    <2> QED
      BY <1>1, <2>2, Beside DEF MapUpdate
  <1>2. CASE m.is = "PeerConnected"
    <2>1. m.peer \in PeerId /\ m.key \in PublicKey /\ m.room \in StableId
      BY <1>2 DEF Message
    <2>2. Good(Insert(v, m.peer, m.key, m.room, v.room))
      BY <2>1, InsertGood
    <2> QED
      BY <1>2, <2>2, Beside DEF MapUpdate
  <1>3. CASE m.is = "PeerJoin"
    BY <1>3, Beside DEF MapUpdate
  <1>4. CASE m.is = "PeerLeave"
    BY <1>4, Beside DEF MapUpdate
  <1>5. CASE m.is = "PeerDisconnect"
    <2>1. m.peer \in PeerId
      BY <1>5 DEF Message
    <2>2. Good([v EXCEPT !.things = @ \ Of(m.peer)])
      BY Beside
    <2>3. Good(Remove([v EXCEPT !.things = @ \ Of(m.peer)], m.peer))
      BY <2>1, <2>2, RemoveGood
    <2> QED
      BY <1>5, <2>3, Beside DEF MapUpdate
  <1>6. CASE m.is = "PeerUpdate"
    <2>1. m.peer \in PeerId /\ m.room \in StableId
      BY <1>6 DEF Message
    <2>2. CASE v.peers[m.peer] = None
      BY <1>6, <2>2 DEF MapUpdate
    <2>3. CASE v.peers[m.peer] # None
      <3>1. Good([v EXCEPT !.peers[m.peer].room = m.room,
                           !.peers[m.peer].here = (m.room = v.room)])
        BY <2>1, <2>3, MovedGood
      <3> QED
        BY <1>6, <2>3, <3>1, Beside DEF MapUpdate
    <2> QED
      BY <2>2, <2>3
  <1>7. CASE m.is = "ObjectCreated"
    <2>1. Good([v EXCEPT !.things = @ \cup {<<m.peer, m.object>>}])
      BY Beside
    <2> QED
      BY <1>7, <2>1, Beside DEF MapUpdate
  <1>8. CASE m.is = "ObjectRemoved"
    <2>1. Good([v EXCEPT !.things = @ \ {<<m.peer, m.object>>}])
      BY Beside
    <2> QED
      BY <1>8, <2>1, Beside DEF MapUpdate
  <1> QED
    BY <1>1, <1>2, <1>3, <1>4, <1>5, <1>6, <1>7, <1>8 DEF Message

LEMMA MapConfigGood ==
    ASSUME NEW v, Good(v), NEW r
    PROVE  Good(MapConfig(v, r))
  <1>1. CASE v.room = r
    BY <1>1 DEF MapConfig
  <1>2. CASE v.room # r
    <2> DEFINE new(p) == [v.peers[p] EXCEPT !.here = (v.peers[p].room = r)]
               w == [v EXCEPT !.room = r,
                              !.peers = [p \in PeerId |-> IF v.peers[p] = None THEN None
                                         ELSE [v.peers[p] EXCEPT !.here = (v.peers[p].room = r)]]]
    <2>1. /\ w.peers = [p \in PeerId |-> IF v.peers[p] = None THEN None ELSE new(p)]
          /\ w.keys = v.keys /\ DOMAIN w = DOMAIN v
      BY DEF Good, Fields
    <2>2. ASSUME NEW p \in PeerId, v.peers[p] # None
          PROVE  new(p) \in KnownPeer /\ new(p) # None /\ new(p).key = v.peers[p].key
      <3>1. v.peers[p] \in KnownPeer
        BY <2>2 DEF Good, Fields
      <3>2. \A b \in BOOLEAN : [v.peers[p] EXCEPT !.here = b] \in KnownPeer
                               /\ [v.peers[p] EXCEPT !.here = b].key = v.peers[p].key
        BY <3>1 DEF KnownPeer
      <3>3. (v.peers[p].room = r) \in BOOLEAN
        OBVIOUS
      <3>4. new(p) \in KnownPeer /\ new(p).key = v.peers[p].key
        BY <3>2, <3>3, Zenon
      <3> QED
        BY <3>4, NoneAssumption, Zenon
    <2> HIDE DEF new, w
    <2>3. w.peers \in [PeerId -> KnownPeer \cup {None}]
      BY <2>1, <2>2
    <2>4. Fields(w)
      BY <2>1, <2>3 DEF Good, Fields
    <2>5. \A q \in PeerId : /\ (w.peers[q] = None) <=> (v.peers[q] = None)
                            /\ v.peers[q] # None => w.peers[q].key = v.peers[q].key
      BY <2>1, <2>2
    <2>6. Good(w)
      BY <2>1, <2>4, <2>5, AlikeGood
    <2>7. MapConfig(v, r) = Drawn(UpdatePeers(w))
      BY <1>2 DEF MapConfig, w
    <2> QED
      BY <2>6, <2>7, Beside
  <1> QED
    BY <1>1, <1>2

LEMMA RoomsUpdateGood ==
    ASSUME NEW v, Good(v), NEW m \in Message
    PROVE  Good(RoomsUpdate(v, m))
  <1>1. CASE m.is = "RemoteLost"
    BY <1>1, Beside DEF RoomsUpdate
  <1>2. CASE m.is = "PeerConnected"
    <2>1. m.peer \in PeerId /\ m.key \in PublicKey /\ m.room \in StableId
      BY <1>2 DEF Message
    <2> QED
      BY <1>2, <2>1, InsertGood DEF RoomsUpdate
  <1>3. CASE m.is = "PeerDisconnect"
    <2>1. m.peer \in PeerId
      BY <1>3 DEF Message
    <2>2. Good(Remove(v, m.peer))
      BY <2>1, RemoveGood
    <2> QED
      BY <1>3, <2>2, Beside DEF RoomsUpdate
  <1>4. CASE m.is = "PeerUpdate"
    <2>1. m.peer \in PeerId /\ m.room \in StableId
      BY <1>4 DEF Message
    <2>2. v.peers[m.peer] # None =>
            Good([v EXCEPT !.peers[m.peer].room = m.room,
                           !.peers[m.peer].here = (m.room = v.active)])
      BY <2>1, MovedGood
    <2> QED
      BY <1>4, <2>2 DEF RoomsUpdate
  <1>5. CASE m.is = "ObjectCreated"
    BY <1>5, Beside DEF RoomsUpdate
  <1>6. CASE m.is = "ObjectRemoved"
    BY <1>6, Beside DEF RoomsUpdate
  <1>7. CASE m.is \in {"PeerJoin", "PeerLeave", "Config"}
    BY <1>7 DEF RoomsUpdate
  <1> QED
    BY <1>1, <1>2, <1>3, <1>4, <1>5, <1>6, <1>7 DEF Message

(* What is to be told is a broadcast, and not none. *)
LEMMA Broadcasts ==
    /\ Thing \subseteq Message /\ Setting \subseteq Message
    /\ None \notin Thing /\ None \notin Setting
    /\ \A m \in Thing : m.is # "Config" /\ m.peer \in PeerId \cup {Local} /\ m.object \in ObjectId
    /\ \A m \in Setting : m.is = "Config" /\ m.room \in StableId
  BY NoneAssumption DEF Thing, Setting, Message

-----------------------------------------------------------------------------
(* The inductive invariant: both components are sound, and so is what they are told. *)
OwnSound ==
    /\ mine \subseteq made /\ made \subseteq Room
    /\ telling \in [Handler -> Thing \cup Setting \cup {None}]
    /\ clearing \in BOOLEAN /\ off \in BOOLEAN
    /\ astray \in [{"map", "rooms"} -> SUBSET Room]

PInv ==
    /\ TableSound
    /\ OwnSound
    /\ room \in StableId
    /\ bus \in Seq(Message)
    /\ Good(map)
    /\ Good(rooms)

LEMMA NewGood == Good(NoRooms)
  <1>1. NoRooms.peers = [p \in PeerId |-> None] /\ NoRooms.keys = <<>>
        /\ {"peers", "keys"} \subseteq DOMAIN NoRooms
    BY DEF NoRooms
  <1>2. <<>> \in [{} -> PeerId]
    OBVIOUS
  <1> QED
    BY <1>1, <1>2 DEF Good, Fields, Paired, Keys

LEMMA PInit == Init => PInv
  <1> SUFFICES ASSUME Init PROVE PInv
    OBVIOUS
  <1>1. TableSound
    BY DEF Init, TableSound, Connected
  <1>2. room \in StableId /\ bus \in Seq(Message)
    BY DEF Init, StableId, ObjectId
  <1>3. map.peers = [p \in PeerId |-> None] /\ map.keys = <<>>
        /\ {"peers", "keys"} \subseteq DOMAIN map
    BY DEF Init
  <1>4. <<>> \in [{} -> PeerId]
    OBVIOUS
  <1>5. Good(map)
    BY <1>3, <1>4 DEF Good, Fields, Paired, Keys
  <1>6. OwnSound
    BY DEF Init, OwnSound
  <1> QED
    BY <1>1, <1>2, <1>5, <1>6, NewGood DEF PInv, Init

LEMMA Said ==
    ASSUME bus \in Seq(Message), NEW ms \in Seq(Message), Say(ms)
    PROVE  bus' \in Seq(Message)
  <1>1. bus \o ms \in Seq(Message)
    BY ConcatProperties
  <1> QED
    BY <1>1 DEF Say

LEMMA OneSaid ==
    ASSUME bus \in Seq(Message), NEW m \in Message, Say(<<m>>)
    PROVE  bus' \in Seq(Message)
  <1>1. <<m>> \in Seq(Message)
    OBVIOUS
  <1> QED
    BY <1>1, Said

LEMMA RoomsAreIds ==
    ASSUME PInv, NEW r \in SomeRoom
    PROVE  r \in StableId
  <1>1. ASSUME NEW p \in Connected
        PROVE  table[p].key \in PublicKey
    BY DEF PInv, TableSound, Connected, Info
  <1>2. mine \subseteq Room
    BY DEF PInv, OwnSound
  <1> QED
    BY <1>1, <1>2 DEF SomeRoom, StableId, ObjectId

(* What the client is told of a peer. *)
LEMMA RemoteStep ==
    ASSUME PInv, Remote
    PROVE  PInv'
  <1>1. ASSUME NEW p \in PeerId, NEW k \in PublicKey, NEW r \in SomeRoom, PeerConnected(p, k, r)
        PROVE  PInv'
    <2>1. r \in StableId
      BY RoomsAreIds
    <2>2. [key |-> k, room |-> r, things |-> {}] \in Info
      BY <2>1 DEF Info
    <2>3. [is |-> "PeerConnected", peer |-> p, key |-> k, room |-> r] \in Message
      BY <2>1 DEF Message
    <2>4. bus' \in Seq(Message)
      BY <1>1, <2>3, OneSaid DEF PeerConnected, PInv
    <2>5. TableSound'
      <3>1. table' \in [PeerId -> Info \cup {None}]
        BY <1>1, <2>2 DEF PeerConnected, PInv, TableSound
      <3>2. table'[p].key = k /\ \A q \in PeerId \ {p} : table'[q] = table[q]
        BY <1>1 DEF PeerConnected, PInv, TableSound
      <3>3. \A q \in Connected : table[q].key # k
        BY <1>1 DEF PeerConnected, Known
      <3>4. \A q \in Connected' : q = p \/ (q \in Connected /\ table'[q] = table[q])
        BY <3>2 DEF Connected
      <3> QED
        BY <3>1, <3>2, <3>3, <3>4 DEF PInv, TableSound
    <2> QED
      BY <1>1, <2>4, <2>5 DEF PeerConnected, PInv, OwnSound, own, history
  <1>2. ASSUME NEW p \in PeerId, NEW new \in Info, new.key = table[p].key, p \in Connected,
               table' = [table EXCEPT ![p] = new]
        PROVE  TableSound'
    BY <1>2 DEF PInv, TableSound, Connected
  <1>3. ASSUME NEW p \in PeerId, NEW r \in SomeRoom, PeerUpdated(p, r)
        PROVE  PInv'
    <2>1. r \in StableId
      BY RoomsAreIds
    <2>2. table[p] \in Info
      BY <1>3 DEF PeerUpdated, Connected, PInv, TableSound
    <2>3. TableSound'
      <3> DEFINE new == [table[p] EXCEPT !.room = r]
      <3>1. new \in Info /\ new.key = table[p].key
        BY <2>1, <2>2 DEF Info
      <3>2. table' = [table EXCEPT ![p] = new] /\ p \in Connected
        BY <1>3, <2>2 DEF PeerUpdated
      <3> HIDE DEF new
      <3> QED
        BY <1>2, <3>1, <3>2
    <2>4. [is |-> "PeerUpdate", peer |-> p, room |-> r] \in Message
      BY <2>1 DEF Message
    <2>5. bus' \in Seq(Message)
      BY <1>3, <2>4, OneSaid DEF PeerUpdated, PInv
    <2> QED
      BY <1>3, <2>3, <2>5 DEF PeerUpdated, PInv, OwnSound, own, history
  <1>4. ASSUME NEW p \in PeerId, NEW things \in SUBSET ObjectId, p \in Connected,
               table' = [table EXCEPT ![p].things = things]
        PROVE  TableSound'
    <2> DEFINE new == [table[p] EXCEPT !.things = things]
    <2>1. table[p] \in Info
      BY <1>4 DEF Connected, PInv, TableSound
    <2>2. new \in Info /\ new.key = table[p].key
      BY <2>1 DEF Info
    <2>3. table' = [table EXCEPT ![p] = new]
      BY <1>4
    <2> HIDE DEF new
    <2> QED
      BY <1>2, <1>4, <2>2, <2>3
  <1>5. ASSUME NEW p \in Connected
        PROVE  p \in PeerId /\ table[p].things \in SUBSET ObjectId /\ table[p].key \in PublicKey
    BY DEF Connected, PInv, TableSound, Info
  <1>6. ASSUME NEW p \in PeerId, NEW o \in ObjectId, ObjectCreated(p, o)
        PROVE  PInv'
    <2>1. TableSound'
      <3>1. p \in Connected /\ table[p].things \cup {o} \in SUBSET ObjectId
        BY <1>5, <1>6 DEF ObjectCreated
      <3>2. table' = [table EXCEPT ![p].things = table[p].things \cup {o}]
        BY <1>6 DEF ObjectCreated
      <3> QED
        BY <1>4, <3>1, <3>2
    <2>2. [is |-> "ObjectCreated", peer |-> p, object |-> o] \in Message
      BY DEF Message
    <2>3. bus' \in Seq(Message)
      BY <1>6, <2>2, OneSaid DEF ObjectCreated, PInv
    <2> QED
      BY <1>6, <2>1, <2>3 DEF ObjectCreated, PInv, OwnSound, own, history
  <1>7. ASSUME NEW p \in PeerId, NEW o \in ObjectId, ObjectRemoved(p, o)
        PROVE  PInv'
    <2>1. TableSound'
      BY <1>4, <1>5, <1>7, ZenonT(30) DEF ObjectRemoved
    <2>2. [is |-> "ObjectRemoved", peer |-> p, object |-> o] \in Thing
      BY DEF Thing
    <2>3. (room = <<table[p].key, o>>) \in BOOLEAN
      OBVIOUS
    <2>4. clearing' \in BOOLEAN
      BY <1>7, <2>3, Zenon DEF ObjectRemoved
    <2>5. telling' \in [Handler -> Thing \cup Setting \cup {None}]
      BY <1>7, <2>2 DEF ObjectRemoved, PInv, OwnSound
    <2>6. OwnSound'
      BY <1>7, <2>4, <2>5 DEF ObjectRemoved, PInv, OwnSound, own, history
    <2> QED
      BY <1>7, <2>1, <2>6 DEF ObjectRemoved, PInv
  <1>8. ASSUME NEW p \in PeerId, PeerJoin(p)
        PROVE  PInv'
    <2>1. table[p].things \cup Token \in SUBSET ObjectId /\ p \in Connected
      BY <1>5, <1>8 DEF PeerJoin, ObjectId
    <2>2. table' = [table EXCEPT ![p].things = table[p].things \cup Token]
      BY <1>8 DEF PeerJoin
    <2>3. TableSound'
      BY <1>4, <2>1, <2>2
    <2>4. table'[p].things \in {x \in SUBSET ObjectId : Token \subseteq x}
      BY <2>1, <2>2 DEF PInv, TableSound, Info, Connected
    <2>5. [is |-> "PeerJoin", peer |-> p, things |-> table'[p].things] \in Message
      BY <2>4 DEF Message
    <2>6. bus' \in Seq(Message)
      BY <1>8, <2>5, OneSaid DEF PeerJoin, PInv
    <2> QED
      BY <1>8, <2>3, <2>6 DEF PeerJoin, PInv, OwnSound, own, history
  <1>9. ASSUME NEW p \in PeerId, PeerLeave(p)
        PROVE  PInv'
    <2>1. TableSound'
      BY <1>4, <1>5, <1>9, ZenonT(30) DEF PeerLeave
    <2>2. [is |-> "PeerLeave", peer |-> p] \in Message
      BY DEF Message
    <2>3. bus' \in Seq(Message)
      BY <1>9, <2>2, OneSaid DEF PeerLeave, PInv
    <2> QED
      BY <1>9, <2>1, <2>3 DEF PeerLeave, PInv, OwnSound, own, history
  <1>10. ASSUME NEW p \in PeerId, PeerDisconnect(p)
         PROVE  PInv'
    <2>1. TableSound'
      BY <1>10 DEF PeerDisconnect, PInv, TableSound, Connected
    <2>2. [is |-> "PeerDisconnect", peer |-> p] \in Message
      BY DEF Message
    <2>3. bus' \in Seq(Message)
      BY <1>10, <2>2, OneSaid DEF PeerDisconnect, PInv
    <2> QED
      BY <1>10, <2>1, <2>3 DEF PeerDisconnect, PInv, OwnSound, own, history
  <1>11. CASE RemoteLost
    <2>1. TableSound'
      BY <1>11 DEF RemoteLost, TableSound, Connected
    <2>2. [is |-> "RemoteLost"] \in Message
      BY DEF Message
    <2>3. bus' \in Seq(Message)
      BY <1>11, <2>2, OneSaid DEF RemoteLost, PInv
    <2> QED
      BY <1>11, <2>1, <2>3 DEF RemoteLost, PInv, OwnSound, own, history
  <1>12. CASE ClientClears
    <2>1. Zero \in StableId /\ Config(Zero, "backend") \in Setting
      BY DEF StableId, Setting, Config
    <2>2. telling' \in [Handler -> Thing \cup Setting \cup {None}]
      BY <1>12, <2>1 DEF ClientClears, PInv, OwnSound
    <2> QED
      BY <1>12, <2>1, <2>2 DEF ClientClears, PInv, OwnSound, TableSound, Connected, own, history
  <1> QED
    BY <1>1, <1>3, <1>6, <1>7, <1>8, <1>9, <1>10, <1>11, <1>12 DEF Remote

(* What the user does, on any page, and what is told of it. *)
LEMMA LocalStep ==
    ASSUME PInv, Own \/ \E r \in StableId : Enter(r)
    PROVE  PInv'
  <1>1. ASSUME NEW h \in Handler, NEW o \in Room, CreateRoom(h, o)
        PROVE  PInv'
    <2>1. [is |-> "ObjectCreated", peer |-> Local, object |-> o] \in Thing
      BY DEF Thing, ObjectId
    <2>2. telling' \in [Handler -> Thing \cup Setting \cup {None}]
      BY <1>1, <2>1 DEF CreateRoom, PInv, OwnSound
    <2>3. OwnSound'
      BY <1>1, <2>2 DEF CreateRoom, PInv, OwnSound, history
    <2> QED
      BY <1>1, <2>3 DEF CreateRoom, PInv, TableSound, Connected
  <1>2. ASSUME NEW o \in Room, Strays(o)
        PROVE  astray' \in [{"map", "rooms"} -> SUBSET Room]
    BY <1>2 DEF Strays, PInv, OwnSound
  <1>3. ASSUME NEW h \in Handler, NEW o \in Room, CreateFails(h, o)
        PROVE  PInv'
    <2>1. telling' \in [Handler -> Thing \cup Setting \cup {None}]
      BY <1>3 DEF CreateFails, PInv, OwnSound
    <2>2. astray' \in [{"map", "rooms"} -> SUBSET Room]
      BY <1>2, <1>3 DEF CreateFails
    <2>3. OwnSound'
      BY <1>3, <2>1, <2>2 DEF CreateFails, PInv, OwnSound, own
    <2> QED
      BY <1>3, <2>3 DEF CreateFails, PInv, TableSound, Connected
  <1>4. ASSUME NEW h \in Handler, NEW o \in Room, RemoveRoom(h, o)
        PROVE  PInv'
    <2>1. [is |-> "ObjectRemoved", peer |-> Local, object |-> o] \in Thing
      BY DEF Thing, ObjectId
    <2>2. telling' \in [Handler -> Thing \cup Setting \cup {None}]
      BY <1>4, <2>1 DEF RemoveRoom, PInv, OwnSound
    <2>3. astray' \in [{"map", "rooms"} -> SUBSET Room]
      BY <1>2, <1>4 DEF RemoveRoom, PInv, OwnSound
    <2>4. (off \/ room = <<Me, o>>) \in BOOLEAN
      OBVIOUS
    <2>5. off' \in BOOLEAN
      BY <1>4, <2>4, Zenon DEF RemoveRoom
    <2>6. mine' \subseteq made' /\ made' \subseteq Room /\ clearing' \in BOOLEAN
      BY <1>4 DEF RemoveRoom, PInv, OwnSound
    <2>7. OwnSound'
      BY <2>2, <2>3, <2>5, <2>6 DEF OwnSound
    <2>8. room' \in StableId
      BY <1>4 DEF RemoveRoom, PInv, StableId
    <2> QED
      BY <1>4, <2>7, <2>8 DEF RemoveRoom, PInv, TableSound, Connected
  <1>5. ASSUME NEW r \in StableId, NEW h \in Handler, NEW from \in {"backend", "other", "rooms"},
               telling' = [telling EXCEPT ![h] = Config(r, from)], UNCHANGED <<own, clearing, history>>
        PROVE  OwnSound'
    <2>1. Config(r, from) \in Setting
      BY DEF Setting, Config
    <2>2. telling' \in [Handler -> Thing \cup Setting \cup {None}]
      BY <1>5, <2>1 DEF PInv, OwnSound
    <2> QED
      BY <1>5, <2>2 DEF PInv, OwnSound, own, history
  <1>6. ASSUME NEW r \in SomeRoom, EnterElsewhere(r)
        PROVE  PInv'
    <2>1. r \in StableId /\ "other" \in Handler
      BY RoomsAreIds DEF Handler
    <2>2. OwnSound'
      BY <1>5, <1>6, <2>1 DEF EnterElsewhere
    <2> QED
      BY <1>6, <2>1, <2>2 DEF EnterElsewhere, PInv, TableSound, Connected
  <1>7. ASSUME NEW r \in StableId, Enter(r)
        PROVE  PInv'
    <2>1. OwnSound'
      BY <1>5, <1>7 DEF Enter, Handler
    <2>2. Good(rooms')
      BY <1>7, Beside DEF Enter, PInv
    <2> QED
      BY <1>7, <2>1, <2>2 DEF Enter, PInv, TableSound, Connected
  <1>8. ASSUME NEW h \in Handler, Tell(h)
        PROVE  PInv'
    <2> DEFINE m == telling[h]
    <2>1. m \in Thing \cup Setting /\ m \in Message
      BY <1>8, Broadcasts DEF Tell, PInv, OwnSound
    <2>2. bus' \in Seq(Message)
      BY <1>8, <2>1, OneSaid DEF Tell, PInv
    <2>3. telling' \in [Handler -> Thing \cup Setting \cup {None}]
      BY <1>8 DEF Tell, PInv, OwnSound
    <2>4. (m.room # room) \in BOOLEAN /\ off \in BOOLEAN
      BY DEF PInv, OwnSound
    <2>5. off' = IF m.is = "Config" THEN m.room # room ELSE off
      BY <1>8 DEF Tell
    <2> HIDE DEF m
    <2>6. off' \in BOOLEAN
      BY <2>4, <2>5, Zenon
    <2>7. OwnSound'
      BY <1>8, <2>3, <2>6 DEF Tell, PInv, OwnSound, own
    <2> QED
      BY <1>8, <2>2, <2>7 DEF Tell, PInv, TableSound, Connected
  <1> QED
    BY <1>1, <1>3, <1>4, <1>6, <1>7, <1>8 DEF Own

(* A broadcast is heard. *)
LEMMA HearStep ==
    ASSUME PInv, Hear
    PROVE  PInv'
  <1> DEFINE m == Head(bus)
  <1>1. m \in Message /\ bus' \in Seq(Message)
    BY DEF PInv, Hear
  <1>2. /\ map' = IF m.is = "Config" THEN MapConfig(map, m.room) ELSE MapUpdate(map, m)
        /\ rooms' = IF rooms.open = "none" THEN rooms
                    ELSE IF m.is # "Config" THEN RoomsUpdate(rooms, m)
                    ELSE IF m.from = "rooms" THEN rooms
                    ELSE [rooms EXCEPT !.active = m.room]
    BY DEF Hear
  <1> HIDE DEF m
  <1>3. Good(map')
    BY <1>1, <1>2, MapUpdateGood, MapConfigGood DEF PInv
  <1>4. Good(rooms')
    BY <1>1, <1>2, RoomsUpdateGood, Beside DEF PInv
  <1> QED
    BY <1>1, <1>3, <1>4 DEF Hear, PInv, OwnSound, TableSound, Connected, own, history

(* Snapshots, and components that come and go. *)
LEMMA PageStep ==
    ASSUME PInv,
           Open \/ InitializeMap \/ OpenRooms \/ InitializeRooms \/ CloseRooms \/ Lose
    PROVE  PInv'
  <1>1. CASE Open
    BY <1>1, Beside DEF Open, PInv, OwnSound, TableSound, Connected, own, history
  <1>2. CASE InitializeMap
    <2>1. Good(Copied(map, map.room))
      BY CopiedGood DEF PInv, Good, Fields
    <2>2. Good([Copied(map, map.room) EXCEPT !.room = room, !.things = AllThings])
      BY <2>1, SameGood DEF Good, Fields
    <2>3. Good(Initialized(map))
      BY <2>2, Beside DEF Initialized
    <2>4. Good(map')
      BY <1>2, <2>3, Beside DEF InitializeMap
    <2>5. OwnSound'
      <3>1. (off /\ \E i \in DOMAIN bus : bus[i].is = "Config") \in BOOLEAN
        OBVIOUS
      <3>2. off' \in BOOLEAN
        BY <1>2, <3>1, Zenon DEF InitializeMap
      <3> QED
        BY <1>2, <3>2 DEF InitializeMap, PInv, OwnSound, own
    <2> QED
      BY <1>2, <2>4, <2>5 DEF InitializeMap, PInv, TableSound, Connected
  <1>3. CASE OpenRooms
    BY <1>3, NewGood, Beside DEF OpenRooms, PInv, OwnSound, TableSound, Connected, own, history
  <1>4. CASE InitializeRooms
    <2>1. Good(Copied(rooms, room))
      BY CopiedGood DEF PInv, Good, Fields
    <2>2. Good([Copied(rooms, room) EXCEPT !.active = room])
      BY <2>1, Beside
    <2>3. Good(RoomsInitialized(rooms))
      BY <2>2, Beside DEF RoomsInitialized
    <2>4. Good(rooms')
      BY <1>4, <2>3, Beside DEF InitializeRooms
    <2>5. OwnSound'
      BY <1>4 DEF InitializeRooms, PInv, OwnSound, own
    <2> QED
      BY <1>4, <2>4, <2>5 DEF InitializeRooms, PInv, TableSound, Connected
  <1>5. CASE CloseRooms
    BY <1>5, NewGood DEF CloseRooms, PInv, OwnSound, TableSound, Connected, own, history
  <1>6. CASE Lose
    <2>1. Good(map')
      BY <1>6, Beside DEF Lose, PInv
    <2>2. Good(rooms') /\ bus' = <<>>
      BY <1>6, NewGood DEF Lose
    <2> QED
      BY <1>6, <2>1, <2>2 DEF Lose, PInv, OwnSound, TableSound, Connected, own, history
  <1> QED
    BY <1>1, <1>2, <1>3, <1>4, <1>5, <1>6

LEMMA PNext == PInv /\ [Next]_vars => PInv'
  <1> SUFFICES ASSUME PInv, [Next]_vars PROVE PInv'
    OBVIOUS
  <1>1. CASE UNCHANGED vars
    BY <1>1 DEF vars, PInv, OwnSound, TableSound, Connected, own, history
  <1>2. CASE Next
    BY <1>2, RemoteStep, LocalStep, HearStep, PageStep DEF Next
  <1> QED
    BY <1>1, <1>2

(* In the Map and in the list of rooms the ids and the keys of the peers lead to each other,
   for any number of peers that come and go under any ids and keys, and for snapshots and
   broadcasts in any order: what Peers::insert and Peers::remove have to see to. *)
THEOREM KeysArePaired == Spec => []KeysPaired
  <1>1. PInv => KeysPaired
    BY DEF PInv, Good, Paired, KeysPaired
  <1> QED
    BY <1>1, PInit, PNext, PTL DEF Spec

-----------------------------------------------------------------------------
(* What is still to be told is so, or has come to be otherwise and is told of that too. *)
Created(o) == [is |-> "ObjectCreated", peer |-> Local, object |-> o]

Removed(p, o) == [is |-> "ObjectRemoved", peer |-> p, object |-> o]

(* Of the client. *)
ClientSound ==
    telling["client"] \in Thing =>
        \E p \in PeerId, o \in ObjectId :
            telling["client"] = Removed(p, o) /\ table[p] # None /\ o \notin table[p].things

(* Of the user. *)
UserSound ==
    \A h \in Handler \ {"client"} : telling[h] \in Thing =>
        \E o \in made :
            \/ telling[h] = Created(o) /\ (o \in mine \/ \A c \in {"map", "rooms"} : o \in astray[c])
            \/ telling[h] = Removed(Local, o) /\ o \notin mine

(* A room that is gone does not come back. *)
GoneForGood ==
    \A i \in 1..Len(bus) :
        bus[i].is = "ObjectRemoved" /\ bus[i].peer = Local => bus[i].object \in made \ mine

Honest == PInv /\ ClientSound /\ UserSound /\ GoneForGood

LEMMA ThingsAre ==
    /\ \A o \in Room : Created(o) \in Thing
    /\ \A p \in PeerId \cup {Local}, o \in ObjectId : Removed(p, o) \in Thing
    /\ \A r, from : Config(r, from) \notin Thing
    /\ \A o, p, x : Created(o) # Removed(p, x)
    /\ \A o, x : Created(o) = Created(x) => o = x
    /\ \A p, o, q, x : Removed(p, o) = Removed(q, x) => p = q /\ o = x
    /\ None \notin Thing
  <1>1. \A r, from : Config(r, from).is = "Config"
    BY DEF Config
  <1>2. \A o : Created(o).is = "ObjectCreated" /\ Created(o).object = o
    BY DEF Created
  <1>3. \A p, o : Removed(p, o).is = "ObjectRemoved" /\ Removed(p, o).peer = p /\ Removed(p, o).object = o
    BY DEF Removed
  <1>4. \A m \in Thing : m.is # "Config"
    BY Broadcasts
  <1>5. None \notin Thing
    BY Broadcasts
  <1>6. \A o \in Room : Created(o) \in Thing
    BY DEF Created, Thing, ObjectId
  <1>7. \A p \in PeerId \cup {Local}, o \in ObjectId : Removed(p, o) \in Thing
    BY DEF Removed, Thing
  <1>8. \A r, from : Config(r, from) \notin Thing
    BY <1>1, <1>4, Zenon
  <1>9. "ObjectCreated" # "ObjectRemoved"
    OBVIOUS
  <1>10. ASSUME NEW o, NEW p, NEW x
         PROVE  Created(o) # Removed(p, x)
    <2>1. Created(o).is = "ObjectCreated"
      BY <1>2
    <2>2. Removed(p, x).is = "ObjectRemoved"
      BY <1>3
    <2> QED
      BY <2>1, <2>2, <1>9
  <1>11. \A o, x : Created(o) = Created(x) => o = x
    BY <1>2
  <1>12. \A p, o, q, x : Removed(p, o) = Removed(q, x) => p = q /\ o = x
    BY <1>3
  <1> QED
    BY <1>5, <1>6, <1>7, <1>8, <1>10, <1>11, <1>12

(* A broadcast of the server is none of a room of the user. *)
LEMMA GoneSaid ==
    ASSUME PInv, GoneForGood, NEW m, Say(<<m>>), UNCHANGED own,
           m.is = "ObjectRemoved" /\ m.peer = Local => m.object \in made \ mine
    PROVE  GoneForGood'
  <1>1. bus \in Seq(Message) /\ made' = made /\ mine' = mine
    BY DEF PInv, own
  <1>2. CASE bus' = bus
    BY <1>1, <1>2 DEF GoneForGood
  <1>3. CASE bus' = bus \o <<m>>
    <2>1. /\ Len(bus) \in Nat /\ Len(bus') = Len(bus) + 1 /\ bus'[Len(bus) + 1] = m
          /\ \A i \in 1..Len(bus) : bus'[i] = bus[i]
      BY <1>1, <1>3
    <2>2. ASSUME NEW i \in 1..Len(bus'), bus'[i].is = "ObjectRemoved", bus'[i].peer = Local
          PROVE  bus'[i].object \in made \ mine
      <3>1. CASE i \in 1..Len(bus)
        BY <2>1, <2>2, <3>1 DEF GoneForGood
      <3>2. CASE i = Len(bus) + 1
        BY <2>1, <2>2, <3>2
      <3> QED
        BY <2>1, <3>1, <3>2
    <2> QED
      BY <1>1, <2>2 DEF GoneForGood
  <1> QED
    BY <1>2, <1>3 DEF Say

LEMMA HonestRemote ==
    ASSUME Honest, Remote
    PROVE  ClientSound' /\ UserSound' /\ GoneForGood'
  <1>0. telling \in [Handler -> Thing \cup Setting \cup {None}] /\ "client" \in Handler /\ Local \notin PeerId
    BY PeersAssumption DEF Honest, PInv, OwnSound, Handler
  <1>1. ASSUME UNCHANGED <<own, astray>>, \A h \in Handler \ {"client"} : telling'[h] = telling[h]
        PROVE  UserSound'
    BY <1>1 DEF Honest, UserSound, own
  <1>2. ASSUME NEW m, m.is # "ObjectRemoved", Say(<<m>>), UNCHANGED <<own, telling, history>>,
               telling["client"] = None
        PROVE  ClientSound' /\ UserSound' /\ GoneForGood'
    <2>1. ClientSound'
      BY <1>2, ThingsAre DEF ClientSound
    <2>2. UserSound'
      BY <1>1, <1>2 DEF history
    <2>3. GoneForGood'
      BY <1>2, GoneSaid DEF Honest
    <2> QED
      BY <2>1, <2>2, <2>3
  <1>3. ASSUME NEW p \in PeerId, NEW k \in PublicKey, NEW r \in SomeRoom, PeerConnected(p, k, r)
        PROVE  ClientSound' /\ UserSound' /\ GoneForGood'
    <2> DEFINE m == [is |-> "PeerConnected", peer |-> p, key |-> k, room |-> r]
    <2>1. m.is # "ObjectRemoved" /\ Say(<<m>>)
      BY <1>3 DEF PeerConnected
    <2> HIDE DEF m
    <2> QED
      BY <1>2, <1>3, <2>1 DEF PeerConnected, ClientFree
  <1>4. ASSUME NEW p \in PeerId, NEW r \in SomeRoom, PeerUpdated(p, r)
        PROVE  ClientSound' /\ UserSound' /\ GoneForGood'
    <2> DEFINE m == [is |-> "PeerUpdate", peer |-> p, room |-> r]
    <2>1. m.is # "ObjectRemoved" /\ Say(<<m>>)
      BY <1>4 DEF PeerUpdated
    <2> HIDE DEF m
    <2> QED
      BY <1>2, <1>4, <2>1 DEF PeerUpdated, ClientFree
  <1>5. ASSUME NEW p \in PeerId, NEW o \in ObjectId, ObjectCreated(p, o)
        PROVE  ClientSound' /\ UserSound' /\ GoneForGood'
    <2> DEFINE m == [is |-> "ObjectCreated", peer |-> p, object |-> o]
    <2>1. m.is # "ObjectRemoved" /\ Say(<<m>>)
      BY <1>5 DEF ObjectCreated
    <2> HIDE DEF m
    <2> QED
      BY <1>2, <1>5, <2>1 DEF ObjectCreated, ClientFree
  <1>6. ASSUME NEW p \in PeerId, PeerJoin(p)
        PROVE  ClientSound' /\ UserSound' /\ GoneForGood'
    <2> DEFINE m == [is |-> "PeerJoin", peer |-> p, things |-> table'[p].things]
    <2>1. m.is # "ObjectRemoved" /\ Say(<<m>>)
      BY <1>6 DEF PeerJoin
    <2> HIDE DEF m
    <2> QED
      BY <1>2, <1>6, <2>1 DEF PeerJoin, ClientFree
  <1>7. ASSUME NEW p \in PeerId, PeerLeave(p) \/ PeerDisconnect(p)
        PROVE  ClientSound' /\ UserSound' /\ GoneForGood'
    <2> DEFINE m(kind) == [is |-> kind, peer |-> p]
    <2>1. m("PeerLeave").is # "ObjectRemoved" /\ m("PeerDisconnect").is # "ObjectRemoved"
          /\ (Say(<<m("PeerLeave")>>) \/ Say(<<m("PeerDisconnect")>>))
      BY <1>7 DEF PeerLeave, PeerDisconnect
    <2> HIDE DEF m
    <2> QED
      BY <1>2, <1>7, <2>1 DEF PeerLeave, PeerDisconnect, ClientFree
  <1>8. CASE RemoteLost
    <2> DEFINE m == [is |-> "RemoteLost"]
    <2>1. m.is # "ObjectRemoved" /\ Say(<<m>>)
      BY <1>8 DEF RemoteLost
    <2> HIDE DEF m
    <2> QED
      BY <1>2, <1>8, <2>1 DEF RemoteLost
  <1>9. ASSUME NEW p \in PeerId, NEW o \in ObjectId, ObjectRemoved(p, o)
        PROVE  ClientSound' /\ UserSound' /\ GoneForGood'
    <2>1. telling' = [telling EXCEPT !["client"] = Removed(p, o)] /\ UNCHANGED <<own, bus, history>>
      BY <1>9 DEF ObjectRemoved, Removed
    <2>2. telling'["client"] = Removed(p, o) /\ \A h \in Handler \ {"client"} : telling'[h] = telling[h]
      BY <1>0, <2>1
    <2>3. table'[p] # None /\ o \notin table'[p].things
      <3>1. table[p] \in Info /\ table[p] # None /\ table \in [PeerId -> Info \cup {None}]
        BY <1>9 DEF ObjectRemoved, Connected, Honest, PInv, TableSound
      <3>2. table' = [table EXCEPT ![p].things = table[p].things \ {o}]
        BY <1>9 DEF ObjectRemoved
      <3>3. table'[p] = [table[p] EXCEPT !.things = table[p].things \ {o}]
        BY <3>1, <3>2
      <3>4. table'[p] \in Info /\ table'[p].things = table[p].things \ {o}
        BY <3>1, <3>3 DEF Info
      <3> QED
        BY <3>4, NoneAssumption
    <2>4. ClientSound'
      BY <2>2, <2>3 DEF ClientSound
    <2>5. UserSound'
      BY <1>1, <2>1, <2>2 DEF history
    <2>6. GoneForGood'
      BY <2>1 DEF Honest, GoneForGood, own
    <2> QED
      BY <2>4, <2>5, <2>6
  <1>10. CASE ClientClears
    <2>1. /\ telling' = [telling EXCEPT !["client"] = Config(Zero, "backend")]
          /\ UNCHANGED <<own, bus, history>>
      BY <1>10 DEF ClientClears
    <2>2. telling'["client"] = Config(Zero, "backend") /\ \A h \in Handler \ {"client"} : telling'[h] = telling[h]
      BY <1>0, <2>1
    <2>3. ClientSound'
      BY <2>2, ThingsAre DEF ClientSound
    <2>4. UserSound'
      BY <1>1, <2>1, <2>2 DEF history
    <2>5. GoneForGood'
      BY <2>1 DEF Honest, GoneForGood, own
    <2> QED
      BY <2>3, <2>4, <2>5
  <1> QED
    BY <1>3, <1>4, <1>5, <1>6, <1>7, <1>8, <1>9, <1>10 DEF Remote

LEMMA HonestLocal ==
    ASSUME Honest, Own \/ \E r \in StableId : Enter(r)
    PROVE  ClientSound' /\ UserSound' /\ GoneForGood'
  <1>0. /\ telling \in [Handler -> Thing \cup Setting \cup {None}] /\ "client" \in Handler /\ Local \notin PeerId
        /\ mine \subseteq made /\ made \subseteq Room /\ astray \in [{"map", "rooms"} -> SUBSET Room]
    BY PeersAssumption DEF Honest, PInv, OwnSound, Handler
  <1>1. ASSUME telling'["client"] = telling["client"], table' = table
        PROVE  ClientSound'
    BY <1>1 DEF Honest, ClientSound
  <1>2. ASSUME NEW h \in Handler, NEW o \in Room, CreateRoom(h, o)
        PROVE  ClientSound' /\ UserSound' /\ GoneForGood'
    <2>1. /\ telling' = [telling EXCEPT ![h] = Created(o)] /\ h # "client" /\ o \notin made
          /\ mine' = mine \cup {o} /\ made' = made \cup {o}
          /\ table' = table /\ bus' = bus /\ astray' = astray
      BY <1>2 DEF CreateRoom, Created, Asks, history
    <2>2. telling'[h] = Created(o) /\ \A g \in Handler \ {h} : telling'[g] = telling[g]
      BY <1>0, <2>1
    <2>3. ClientSound'
      BY <1>0, <1>1, <2>1, <2>2
    <2>4. UserSound'
      BY <1>0, <2>1, <2>2 DEF Honest, UserSound
    <2>5. GoneForGood'
      BY <1>0, <2>1 DEF Honest, GoneForGood
    <2> QED
      BY <2>3, <2>4, <2>5
  <1>3. ASSUME NEW h \in Handler, NEW o \in Room, CreateFails(h, o)
        PROVE  ClientSound' /\ UserSound' /\ GoneForGood'
    <2>1. /\ telling' = [telling EXCEPT ![h] = None] /\ telling[h] = Created(o)
          /\ mine' = mine /\ made' = made /\ table' = table /\ bus' = bus /\ Strays(o)
      BY <1>3 DEF CreateFails, Created, Creates, own
    <2>2. telling'[h] = None /\ \A g \in Handler \ {h} : telling'[g] = telling[g]
      BY <1>0, <2>1
    <2>3. h # "client"
      BY <2>1, ThingsAre DEF Honest, ClientSound
    <2>4. ClientSound'
      BY <1>0, <1>1, <2>1, <2>2, <2>3
    <2>5. \A c \in {"map", "rooms"} : astray[c] \subseteq astray'[c]
      BY <1>0, <2>1 DEF Strays
    <2>6. UserSound'
      BY <1>0, <2>1, <2>2, <2>5, ThingsAre DEF Honest, UserSound
    <2>7. GoneForGood'
      BY <1>0, <2>1 DEF Honest, GoneForGood
    <2> QED
      BY <2>4, <2>6, <2>7
  <1>4. ASSUME NEW h \in Handler, NEW o \in Room, RemoveRoom(h, o)
        PROVE  ClientSound' /\ UserSound' /\ GoneForGood'
    <2>1. /\ telling' = [telling EXCEPT ![h] = Removed(Local, o)] /\ h # "client" /\ o \in mine
          /\ mine' = mine \ {o} /\ made' = made /\ table' = table /\ bus' = bus
          /\ IF Creates(o) = {} THEN astray' = astray ELSE Strays(o)
      BY <1>4 DEF RemoveRoom, Removed, Asks
    <2>2. telling'[h] = Removed(Local, o) /\ \A g \in Handler \ {h} : telling'[g] = telling[g]
      BY <1>0, <2>1
    <2>3. ClientSound'
      BY <1>0, <1>1, <2>1, <2>2
    <2>4. /\ \A c \in {"map", "rooms"} : astray[c] \subseteq astray'[c]
          /\ Creates(o) # {} => \A c \in {"map", "rooms"} : o \in astray'[c]
      BY <1>0, <2>1 DEF Strays
    <2>5. ASSUME NEW g \in Handler \ {"client"}, telling'[g] \in Thing
          PROVE  \E x \in made :
                    \/ telling'[g] = Created(x) /\ (x \in mine' \/ \A c \in {"map", "rooms"} : x \in astray'[c])
                    \/ telling'[g] = Removed(Local, x) /\ x \notin mine'
      <3>1. CASE g = h
        BY <1>0, <2>1, <2>2, <3>1
      <3>2. CASE g # h
        <4>1. telling'[g] = telling[g]
          BY <2>2, <3>2
        <4>2. PICK x \in made :
                    \/ telling[g] = Created(x) /\ (x \in mine \/ \A c \in {"map", "rooms"} : x \in astray[c])
                    \/ telling[g] = Removed(Local, x) /\ x \notin mine
          BY <2>5, <4>1 DEF Honest, UserSound
        <4>3. CASE telling[g] = Created(x) /\ x = o
          <5>1. g \in Creates(o)
            BY <4>3 DEF Creates, Created
          <5> QED
            BY <2>4, <4>1, <4>3, <5>1
        <4>4. CASE ~(telling[g] = Created(x) /\ x = o)
          BY <2>1, <2>4, <4>1, <4>2, <4>4
        <4> QED
          BY <4>3, <4>4
      <3> QED
        BY <3>1, <3>2
    <2>6. UserSound'
      BY <2>1, <2>5 DEF UserSound
    <2>7. GoneForGood'
      BY <1>0, <2>1 DEF Honest, GoneForGood
    <2> QED
      BY <2>3, <2>6, <2>7
  <1>5. ASSUME NEW h \in Handler \ {"client"}, NEW r, NEW from, telling' = [telling EXCEPT ![h] = Config(r, from)],
               UNCHANGED <<table, own, bus, history>>
        PROVE  ClientSound' /\ UserSound' /\ GoneForGood'
    <2>1. telling'[h] = Config(r, from) /\ \A g \in Handler \ {h} : telling'[g] = telling[g]
      BY <1>0, <1>5
    <2>2. ClientSound'
      BY <1>0, <1>1, <1>5, <2>1
    <2>3. UserSound'
      BY <1>0, <1>5, <2>1, ThingsAre DEF Honest, UserSound, own, history
    <2>4. GoneForGood'
      BY <1>5 DEF Honest, GoneForGood, own
    <2> QED
      BY <2>2, <2>3, <2>4
  <1>6. ASSUME NEW r, EnterElsewhere(r) \/ Enter(r)
        PROVE  ClientSound' /\ UserSound' /\ GoneForGood'
    BY <1>5, <1>6 DEF EnterElsewhere, Enter, Handler
  <1>7. ASSUME NEW h \in Handler, Tell(h)
        PROVE  ClientSound' /\ UserSound' /\ GoneForGood'
    <2> DEFINE m == telling[h]
    <2>1. /\ telling' = [telling EXCEPT ![h] = None] /\ m # None /\ Say(<<m>>)
          /\ UNCHANGED <<table, own, astray>>
      BY <1>7 DEF Tell
    <2>2. telling'[h] = None /\ \A g \in Handler \ {h} : telling'[g] = telling[g]
      BY <1>0, <2>1
    <2>3. ClientSound'
      <3>1. CASE h = "client"
        BY <2>2, <3>1, ThingsAre DEF ClientSound
      <3>2. CASE h # "client"
        BY <1>0, <1>1, <2>1, <2>2, <3>2
      <3> QED
        BY <3>1, <3>2
    <2>4. UserSound'
      BY <1>0, <2>1, <2>2, ThingsAre DEF Honest, UserSound, own
    <2>5. m.is = "ObjectRemoved" /\ m.peer = Local => m.object \in made \ mine
      <3> SUFFICES ASSUME m.is = "ObjectRemoved", m.peer = Local PROVE m.object \in made \ mine
        OBVIOUS
      <3>1. m \in Thing
        BY <1>0, <2>1, Broadcasts
      <3>2. h # "client"
        BY <1>0, <3>1 DEF Honest, ClientSound, Removed
      <3>3. PICK o \in made :
                \/ m = Created(o) /\ (o \in mine \/ \A c \in {"map", "rooms"} : o \in astray[c])
                \/ m = Removed(Local, o) /\ o \notin mine
        BY <3>1, <3>2 DEF Honest, UserSound
      <3> QED
        BY <3>3 DEF Created, Removed
    <2> HIDE DEF m
    <2>6. GoneForGood'
      BY <2>1, <2>5, GoneSaid DEF Honest
    <2> QED
      BY <2>3, <2>4, <2>6
  <1> QED
    BY <1>2, <1>3, <1>4, <1>6, <1>7 DEF Own

LEMMA HonestPage ==
    ASSUME Honest, Hear \/ Open \/ InitializeMap \/ OpenRooms \/ InitializeRooms \/ CloseRooms \/ Lose
    PROVE  ClientSound' /\ UserSound' /\ GoneForGood'
  <1>0. /\ made \subseteq Room /\ astray \in [{"map", "rooms"} -> SUBSET Room]
        /\ bus \in Seq(Message)
    BY DEF Honest, PInv, OwnSound
  <1>1. UNCHANGED <<table, own, telling>> /\ (bus' = bus \/ bus' = <<>> \/ (bus # <<>> /\ bus' = Tail(bus)))
    <2>1. CASE Hear
      BY <2>1 DEF Hear
    <2>2. CASE Open \/ OpenRooms \/ CloseRooms \/ Lose
      BY <2>2 DEF Open, OpenRooms, CloseRooms, Lose
    <2>3. CASE InitializeMap \/ InitializeRooms
      BY <2>3 DEF InitializeMap, InitializeRooms
    <2> QED
      BY <2>1, <2>2, <2>3
  <1>2. ClientSound'
    BY <1>1 DEF Honest, ClientSound
  <1>3. GoneForGood'
    <2>1. \A i \in 1..Len(bus') : \E j \in 1..Len(bus) : bus'[i] = bus[j]
      <3>1. CASE bus # <<>> /\ bus' = Tail(bus)
        <4>1. /\ Len(bus) \in Nat \ {0} /\ Len(bus') = Len(bus) - 1
              /\ \A i \in 1..Len(bus') : bus'[i] = bus[i + 1]
          BY <1>0, <3>1
        <4>2. \A i \in 1..Len(bus') : i + 1 \in 1..Len(bus)
          BY <4>1
        <4> QED
          BY <4>1, <4>2
      <3>2. CASE bus' = <<>>
        BY <3>2
      <3>3. CASE bus' = bus
        BY <3>3
      <3> QED
        BY <1>1, <3>1, <3>2, <3>3
    <2>2. made' = made /\ mine' = mine
      BY <1>1 DEF own
    <2> QED
      BY <2>1, <2>2 DEF Honest, GoneForGood
  <1>4. ASSUME NEW h \in Handler, NEW o \in made, telling[h] = Created(o), NEW c \in {"map", "rooms"}, o \in astray[c]
        PROVE  o \in astray'[c]
    <2>1. o \in Late
      BY <1>0, <1>4 DEF Late, Creates, Created
    <2>2. astray' = astray \/ \E d \in {"map", "rooms"} : astray' = [astray EXCEPT ![d] = @ \cap Late]
      BY DEF Hear, Open, InitializeMap, OpenRooms, InitializeRooms, CloseRooms, Lose, history
    <2> QED
      BY <1>0, <1>4, <2>1, <2>2
  <1>5. UserSound'
    <2>1. made' = made /\ mine' = mine /\ telling' = telling
      BY <1>1 DEF own
    <2> SUFFICES ASSUME NEW h \in Handler \ {"client"}, telling[h] \in Thing
                 PROVE  \E o \in made :
                            \/ telling[h] = Created(o) /\ (o \in mine \/ \A c \in {"map", "rooms"} : o \in astray'[c])
                            \/ telling[h] = Removed(Local, o) /\ o \notin mine
      BY <2>1 DEF UserSound
    <2>2. PICK o \in made :
                \/ telling[h] = Created(o) /\ (o \in mine \/ \A c \in {"map", "rooms"} : o \in astray[c])
                \/ telling[h] = Removed(Local, o) /\ o \notin mine
      BY DEF Honest, UserSound
    <2> QED
      BY <1>4, <2>2
  <1> QED
    BY <1>2, <1>3, <1>5

LEMMA HonestInit == Init => Honest
  <1> SUFFICES ASSUME Init PROVE Honest
    OBVIOUS
  <1>1. \A h \in Handler : telling[h] = None
    BY DEF Init
  <1>2. ClientSound /\ UserSound
    BY <1>1, ThingsAre DEF ClientSound, UserSound, Handler
  <1>3. bus = <<>> /\ Len(bus) = 0
    BY DEF Init
  <1>4. GoneForGood
    BY <1>3 DEF GoneForGood
  <1> QED
    BY <1>2, <1>4, PInit DEF Honest

LEMMA HonestNext == Honest /\ [Next]_vars => Honest'
  <1> SUFFICES ASSUME Honest, [Next]_vars PROVE Honest'
    OBVIOUS
  <1>1. PInv'
    BY PNext DEF Honest
  <1>2. CASE UNCHANGED vars
    <2>1. ClientSound' /\ UserSound' /\ GoneForGood'
      BY <1>2 DEF vars, own, history, Honest, ClientSound, UserSound, GoneForGood
    <2> QED
      BY <1>1, <2>1 DEF Honest
  <1>3. CASE Next
    <2>1. ClientSound' /\ UserSound' /\ GoneForGood'
      BY <1>3, HonestRemote, HonestLocal, HonestPage DEF Next
    <2> QED
      BY <1>1, <2>1 DEF Honest
  <1> QED
    BY <1>2, <1>3

-----------------------------------------------------------------------------
(* What waits says what will be heard last. X stands in b when something of X is said and
   nothing of Y after it. *)
Stands(b, X, Y) == \E j \in 1..Len(b) : b[j] \in X /\ \A i \in (j + 1)..Len(b) : b[i] \notin Y

Quiet(b, Y) == \A i \in 1..Len(b) : b[i] \notin Y

LEMMA SaidLast ==
    ASSUME NEW b \in Seq(Message), NEW m \in Message
    PROVE  /\ b \o <<m>> \in Seq(Message)
           /\ Len(b) \in Nat /\ Len(b \o <<m>>) = Len(b) + 1
           /\ \A i \in 1..Len(b) : (b \o <<m>>)[i] = b[i]
           /\ (b \o <<m>>)[Len(b) + 1] = m
  <1>1. <<m>> \in Seq(Message) /\ Len(<<m>>) = 1 /\ <<m>>[1] = m
    OBVIOUS
  <1> QED
    BY <1>1, ConcatProperties

LEMMA HeardFirst ==
    ASSUME NEW b \in Seq(Message), b # <<>>
    PROVE  /\ Tail(b) \in Seq(Message) /\ Head(b) = b[1] /\ Head(b) \in Message
           /\ Len(b) \in Nat \ {0} /\ Len(Tail(b)) = Len(b) - 1
           /\ \A i \in 1..Len(Tail(b)) : Tail(b)[i] = b[i + 1]
  BY HeadTailProperties, ElementOfSeq

LEMMA QuietAppend ==
    ASSUME NEW b \in Seq(Message), NEW m \in Message, NEW Y
    PROVE  Quiet(b \o <<m>>, Y) <=> Quiet(b, Y) /\ m \notin Y
  <1> DEFINE c == b \o <<m>>
  <1>1. /\ Len(b) \in Nat /\ Len(c) = Len(b) + 1 /\ c[Len(b) + 1] = m
        /\ \A i \in 1..Len(b) : c[i] = b[i]
    BY SaidLast
  <1> HIDE DEF c
  <1>2. Quiet(c, Y) <=> Quiet(b, Y) /\ m \notin Y
    BY <1>1 DEF Quiet
  <1> QED
    BY <1>2 DEF c

LEMMA StandsAppend ==
    ASSUME NEW b \in Seq(Message), NEW m \in Message, NEW X, NEW Y
    PROVE  Stands(b \o <<m>>, X, Y) <=> m \in X \/ (m \notin Y /\ Stands(b, X, Y))
  <1> DEFINE c == b \o <<m>>
  <1>1. /\ Len(b) \in Nat /\ Len(c) = Len(b) + 1 /\ c[Len(b) + 1] = m
        /\ \A i \in 1..Len(b) : c[i] = b[i]
    BY SaidLast
  <1> HIDE DEF c
  <1>2. m \in X => Stands(c, X, Y)
    BY <1>1 DEF Stands
  <1>3. m \notin Y /\ Stands(b, X, Y) => Stands(c, X, Y)
    BY <1>1 DEF Stands
  <1>4. m \notin X /\ Stands(c, X, Y) => m \notin Y /\ Stands(b, X, Y)
    BY <1>1 DEF Stands
  <1> QED
    BY <1>2, <1>3, <1>4 DEF c

LEMMA QuietTail ==
    ASSUME NEW b \in Seq(Message), b # <<>>, NEW Y
    PROVE  Quiet(b, Y) <=> Head(b) \notin Y /\ Quiet(Tail(b), Y)
  <1> DEFINE c == Tail(b)
  <1>1. /\ Len(b) \in Nat \ {0} /\ Len(c) = Len(b) - 1 /\ Head(b) = b[1]
        /\ \A i \in 1..Len(c) : c[i] = b[i + 1]
    BY HeardFirst
  <1> HIDE DEF c
  <1>2. Quiet(b, Y) => Head(b) \notin Y /\ Quiet(c, Y)
    BY <1>1 DEF Quiet
  <1>3. ASSUME Head(b) \notin Y, Quiet(c, Y), NEW i \in 1..Len(b)
        PROVE  b[i] \notin Y
    <2>1. CASE i = 1
      BY <1>1, <1>3, <2>1
    <2>2. CASE i # 1
      <3>1. i - 1 \in 1..Len(c) /\ c[i - 1] = b[i]
        BY <1>1, <2>2
      <3> QED
        BY <1>3, <3>1 DEF Quiet
    <2> QED
      BY <2>1, <2>2
  <1> QED
    BY <1>2, <1>3 DEF c, Quiet

LEMMA StandsTail ==
    ASSUME NEW b \in Seq(Message), b # <<>>, NEW X, NEW Y
    PROVE  Stands(b, X, Y) <=> Stands(Tail(b), X, Y) \/ (Head(b) \in X /\ Quiet(Tail(b), Y))
  <1> DEFINE c == Tail(b)
  <1>1. /\ Len(b) \in Nat \ {0} /\ Len(c) = Len(b) - 1 /\ Head(b) = b[1]
        /\ \A i \in 1..Len(c) : c[i] = b[i + 1]
    BY HeardFirst
  <1> HIDE DEF c
  <1>2. \A i \in 2..Len(b) : i - 1 \in 1..Len(c) /\ c[i - 1] = b[i]
    BY <1>1
  <1>3. ASSUME Stands(c, X, Y) PROVE Stands(b, X, Y)
    <2>1. PICK j \in 1..Len(c) : c[j] \in X /\ \A i \in (j + 1)..Len(c) : c[i] \notin Y
      BY <1>3 DEF Stands
    <2>2. j + 1 \in 1..Len(b) /\ b[j + 1] \in X
      BY <1>1, <2>1
    <2>3. \A i \in (j + 2)..Len(b) : i - 1 \in (j + 1)..Len(c) /\ b[i] = c[i - 1]
      BY <1>1, <2>1
    <2> QED
      BY <2>1, <2>2, <2>3, <1>1, SMTT(30) DEF Stands
  <1>4. ASSUME Head(b) \in X, Quiet(c, Y) PROVE Stands(b, X, Y)
    BY <1>1, <1>2, <1>4 DEF Stands, Quiet
  <1>5. ASSUME Stands(b, X, Y) PROVE Stands(c, X, Y) \/ (Head(b) \in X /\ Quiet(c, Y))
    <2>1. PICK j \in 1..Len(b) : b[j] \in X /\ \A i \in (j + 1)..Len(b) : b[i] \notin Y
      BY <1>5 DEF Stands
    <2>2. \A i \in j..Len(c) : c[i] \notin Y
      BY <1>1, <2>1
    <2>3. CASE j = 1
      BY <1>1, <2>1, <2>2, <2>3 DEF Quiet
    <2>4. CASE j # 1
      <3>1. j - 1 \in 1..Len(c) /\ c[j - 1] \in X /\ (j - 1) + 1 = j
        BY <1>1, <1>2, <2>1, <2>4
      <3> QED
        BY <2>2, <3>1 DEF Stands
    <2> QED
      BY <2>3, <2>4
  <1> QED
    BY <1>3, <1>4, <1>5 DEF c

-----------------------------------------------------------------------------
(* What messages say of one peer, of one object, and of the room. *)
Somebody == PeerId \cup {Local}

Comes(p, k) == {m \in Message : m.is = "PeerConnected" /\ m.peer = p /\ m.key = k}

Goes(p) == {m \in Message : m.is = "RemoteLost" \/ (m.is = "PeerDisconnect" /\ m.peer = p)}

Presence(p) == {m \in Message : m \in Goes(p) \/ (m.is = "PeerConnected" /\ m.peer = p)}

Places(p, its) ==
    {m \in Message : m.is \in {"PeerConnected", "PeerUpdate"} /\ m.peer = p /\ m.room = its}

Placement(p) == {m \in Message : m \in Presence(p) \/ (m.is = "PeerUpdate" /\ m.peer = p)}

Gives(p, o) ==
    {m \in Message :
        \/ m.is = "ObjectCreated" /\ m.peer = p /\ m.object = o
        \/ m.is = "PeerJoin" /\ m.peer = p /\ o \in m.things}

Takes(p, o) ==
    {m \in Message :
        \/ m.is = "ObjectRemoved" /\ m.peer = p /\ m.object = o
        \/ m.is = "PeerLeave" /\ m.peer = p /\ o \in Token
        \/ m.is = "PeerConnected" /\ m.peer = p
        \/ p # Local /\ m \in Goes(p)}

(* A snapshot of a peer's objects has the same rooms as before. *)
Touches(p, o) ==
    {m \in Message :
        \/ m.is \in {"ObjectCreated", "ObjectRemoved"} /\ m.peer = p /\ m.object = o
        \/ m.is \in {"PeerJoin", "PeerLeave"} /\ m.peer = p /\ o \in Token
        \/ p # Local /\ m \in Goes(p)}

Configs == {m \in Message : m.is = "Config"}

Sets(r) == {m \in Configs : m.room = r}

(* Peer p of the table t, or the user who has the rooms mi, has o. *)
Has(t, mi, p, o) == IF p = Local THEN o \in mi ELSE t[p] # None /\ o \in t[p].things

(* What b says last is so. A key that moves is said to. *)
Told(b, t, mi, r) ==
    /\ \A p \in PeerId :
        /\ Stands(b, Goes(p), Presence(p)) => t[p] = None
        /\ \A k \in PublicKey :
            /\ Stands(b, Comes(p, k), Presence(p)) => t[p] # None /\ t[p].key = k
            /\ t[p] # None /\ t[p].key = k =>
                \A q \in PeerId \ {p} : ~Stands(b, Comes(q, k), Comes(p, k))
        /\ \A its \in StableId :
            Stands(b, Places(p, its), Placement(p)) => t[p] # None /\ t[p].room = its
    /\ \A p \in Somebody, o \in ObjectId :
        /\ Stands(b, Gives(p, o), Touches(p, o)) => Has(t, mi, p, o)
        /\ Stands(b, Takes(p, o), Touches(p, o)) => ~Has(t, mi, p, o)
    /\ \A its \in StableId : Stands(b, Sets(its), Configs) => r = its

(* What m makes of the backend's state: no more than it says. *)
PeersChange(m, t, t2) ==
    \A p \in PeerId :
        /\ m \in Goes(p) => t2[p] = None
        /\ \A k \in PublicKey :
            m \in Comes(p, k) =>
                /\ t[p] = None /\ t2[p] # None /\ t2[p].key = k
                /\ \A q \in PeerId \ {p} : t2[q] # None => t2[q].key # k
        /\ m.is \in {"ObjectCreated", "ObjectRemoved"} /\ m.peer = p => t[p] # None
        /\ m \notin Presence(p) => ((t2[p] = None) <=> (t[p] = None)) /\ (t[p] # None => t2[p].key = t[p].key)
        /\ \A its \in StableId : m \in Places(p, its) => t2[p] # None /\ t2[p].room = its
        /\ m \notin Placement(p) /\ t[p] # None => t2[p].room = t[p].room

ThingsChange(m, t, mi, t2, mi2) ==
    \A p \in Somebody, o \in ObjectId :
        /\ m \in Gives(p, o) => Has(t2, mi2, p, o)
        /\ m \in Takes(p, o) => ~Has(t2, mi2, p, o)
        /\ m \notin Touches(p, o) => (Has(t2, mi2, p, o) <=> Has(t, mi, p, o))

RoomChanges(m, r, r2) ==
    /\ \A its \in StableId : m \in Sets(its) => r2 = its
    /\ m \notin Configs => r2 = r

Happens(m, t, mi, r, t2, mi2, r2) ==
    PeersChange(m, t, t2) /\ ThingsChange(m, t, mi, t2, mi2) /\ RoomChanges(m, r, r2)

LEMMA PresenceIs ==
    ASSUME NEW m \in Message, NEW p \in PeerId, m \in Presence(p)
    PROVE  m \in Goes(p) \/ \E k \in PublicKey : m \in Comes(p, k)
  BY DEF Message, Presence, Goes, Comes

LEMMA ToldAppend ==
    ASSUME NEW b \in Seq(Message), NEW m \in Message, NEW t, NEW mi, NEW r, NEW t2, NEW mi2, NEW r2,
           Told(b, t, mi, r), Happens(m, t, mi, r, t2, mi2, r2)
    PROVE  Told(b \o <<m>>, t2, mi2, r2)
  <1> DEFINE c == b \o <<m>>
  <1>0. \A X, Y : Stands(c, X, Y) <=> m \in X \/ (m \notin Y /\ Stands(b, X, Y))
    BY StandsAppend
  <1> HIDE DEF c
  <1>1. ASSUME NEW p \in PeerId, Stands(c, Goes(p), Presence(p)) PROVE t2[p] = None
    BY <1>0, <1>1 DEF Told, Happens, PeersChange, ThingsChange, RoomChanges
  <1>2. ASSUME NEW p \in PeerId, NEW k \in PublicKey, Stands(c, Comes(p, k), Presence(p))
        PROVE  t2[p] # None /\ t2[p].key = k
    BY <1>0, <1>2 DEF Told, Happens, PeersChange, ThingsChange, RoomChanges
  <1>3. ASSUME NEW p \in PeerId, NEW k \in PublicKey, t2[p] # None, t2[p].key = k, NEW q \in PeerId \ {p},
               Stands(c, Comes(q, k), Comes(p, k))
        PROVE  FALSE
    <2>1. m \notin Comes(q, k)
      BY <1>3 DEF Happens, PeersChange
    <2>2. m \notin Comes(p, k) /\ Stands(b, Comes(q, k), Comes(p, k))
      BY <1>0, <1>3, <2>1
    <2>3. m \notin Presence(p)
      BY <1>3, <2>2, PresenceIs DEF Happens, PeersChange
    <2> QED
      BY <1>3, <2>2, <2>3 DEF Told, Happens, PeersChange, ThingsChange, RoomChanges
  <1>4. ASSUME NEW p \in PeerId, NEW its \in StableId, Stands(c, Places(p, its), Placement(p))
        PROVE  t2[p] # None /\ t2[p].room = its
    <2>1. m \notin Placement(p) => m \notin Presence(p)
      BY DEF Placement
    <2> QED
      BY <1>0, <1>4, <2>1 DEF Told, Happens, PeersChange, ThingsChange, RoomChanges
  <1>5. ASSUME NEW p \in Somebody, NEW o \in ObjectId
        PROVE  /\ Stands(c, Gives(p, o), Touches(p, o)) => Has(t2, mi2, p, o)
               /\ Stands(c, Takes(p, o), Touches(p, o)) => ~Has(t2, mi2, p, o)
    BY <1>0 DEF Told, Happens, PeersChange, ThingsChange, RoomChanges
  <1>6. ASSUME NEW its \in StableId, Stands(c, Sets(its), Configs)
        PROVE  r2 = its
    BY <1>0, <1>6 DEF Told, Happens, PeersChange, ThingsChange, RoomChanges
  <1>7. Told(c, t2, mi2, r2)
    BY <1>1, <1>2, <1>3, <1>4, <1>5, <1>6 DEF Told
  <1> QED
    BY <1>7 DEF c

LEMMA ToldTail ==
    ASSUME NEW b \in Seq(Message), b # <<>>, NEW t, NEW mi, NEW r, Told(b, t, mi, r)
    PROVE  Told(Tail(b), t, mi, r)
  <1> DEFINE c == Tail(b)
  <1>1. \A X, Y : Stands(c, X, Y) => Stands(b, X, Y)
    BY StandsTail
  <1> HIDE DEF c
  <1>2. Told(c, t, mi, r)
    BY <1>1 DEF Told
  <1> QED
    BY <1>2 DEF c

(* What is heard, and never contradicted, is so. *)
LEMMA ToldHead ==
    ASSUME NEW b \in Seq(Message), b # <<>>, NEW t, NEW mi, NEW r, Told(b, t, mi, r), NEW m, m = Head(b)
    PROVE  /\ \A p \in PeerId :
                /\ m \in Goes(p) /\ Quiet(Tail(b), Presence(p)) => t[p] = None
                /\ \A k \in PublicKey :
                    /\ m \in Comes(p, k) /\ Quiet(Tail(b), Presence(p)) => t[p] # None /\ t[p].key = k
                    /\ t[p] # None /\ t[p].key = k =>
                        \A q \in PeerId \ {p} : ~(m \in Comes(q, k) /\ Quiet(Tail(b), Comes(p, k)))
                /\ \A its \in StableId :
                    m \in Places(p, its) /\ Quiet(Tail(b), Placement(p)) => t[p] # None /\ t[p].room = its
           /\ \A p \in Somebody, o \in ObjectId :
                /\ m \in Gives(p, o) /\ Quiet(Tail(b), Touches(p, o)) => Has(t, mi, p, o)
                /\ m \in Takes(p, o) /\ Quiet(Tail(b), Touches(p, o)) => ~Has(t, mi, p, o)
           /\ \A its \in StableId : m \in Sets(its) /\ Quiet(Tail(b), Configs) => r = its
  <1>1. \A X, Y : m \in X /\ Quiet(Tail(b), Y) => Stands(b, X, Y)
    BY StandsTail
  <1> QED
    BY <1>1 DEF Told

LEMMA QuietSome ==
    ASSUME NEW b, NEW X, NEW Y, Y \subseteq X, Quiet(b, X)
    PROVE  Quiet(b, Y)
  BY DEF Quiet

LEMMA Classes ==
    ASSUME NEW p \in PeerId
    PROVE  /\ Presence(p) \subseteq Placement(p) /\ Goes(p) \subseteq Presence(p)
           /\ \A k : Comes(p, k) \subseteq Presence(p)
           /\ \A o : Goes(p) \subseteq Touches(p, o) /\ Goes(p) \subseteq Takes(p, o)
  <1>1. p # Local
    BY PeersAssumption
  <1> QED
    BY <1>1 DEF Presence, Placement, Goes, Comes, Touches, Takes

-----------------------------------------------------------------------------
(* What the backend does, and says of it. *)
Saying(b, t, mi, r, b2, t2, mi2, r2) ==
    \E m \in Message : b2 = b \o <<m>> /\ Happens(m, t, mi, r, t2, mi2, r2)

LEMMA ConnectedSays ==
    ASSUME PInv, NEW p \in PeerId, NEW k \in PublicKey, NEW r \in SomeRoom, PeerConnected(p, k, r),
           map.open # "none", NEW mi, NEW ro
    PROVE  Saying(bus, table, mi, ro, bus', table', mi, ro)
  <1> DEFINE m == [is |-> "PeerConnected", peer |-> p, key |-> k, room |-> r]
  <1>1. r \in StableId /\ p # Local
    BY RoomsAreIds, PeersAssumption
  <1>2. m \in Message
    BY <1>1 DEF Message
  <1>3. bus' = bus \o <<m>>
    BY DEF PeerConnected, Say
  <1>4. /\ table' = [table EXCEPT ![p] = [key |-> k, room |-> r, things |-> {}]]
        /\ table[p] = None
        /\ \A q \in PeerId : table[q] # None => table[q].key # k
    BY DEF PeerConnected, Connected, Known
  <1>5. table \in [PeerId -> Info \cup {None}]
    BY DEF PInv, TableSound
  <1>6. [key |-> k, room |-> r, things |-> {}] # None
    BY <1>1, NoneAssumption DEF Info
  <1>7. /\ table'[p] # None /\ table'[p].key = k /\ table'[p].room = r /\ table'[p].things = {}
        /\ \A q \in PeerId \ {p} : table'[q] = table[q]
    BY <1>4, <1>5, <1>6
  <1>8. /\ \A q : m \notin Goes(q)
        /\ \A q, x : m \in Comes(q, x) <=> q = p /\ x = k
        /\ \A q : m \in Presence(q) <=> q = p
        /\ \A q, x : m \in Places(q, x) <=> q = p /\ x = r
        /\ \A q : m \in Placement(q) <=> q = p
        /\ \A q, o : m \notin Gives(q, o) /\ (m \in Takes(q, o) <=> q = p) /\ m \notin Touches(q, o)
        /\ m \notin Configs /\ m.is = "PeerConnected"
    BY <1>2 DEF Goes, Comes, Presence, Places, Placement, Gives, Takes, Touches, Configs
  <1> HIDE DEF m
  <1>9. \A q \in Somebody, o \in ObjectId :
            /\ Has(table', mi, q, o) <=> Has(table, mi, q, o)
            /\ q = p => ~Has(table', mi, q, o)
    BY <1>1, <1>4, <1>7 DEF Has, Somebody
  <1>10. PeersChange(m, table, table')
    BY <1>4, <1>7, <1>8 DEF PeersChange
  <1>11. ThingsChange(m, table, mi, table', mi)
    BY <1>8, <1>9 DEF ThingsChange
  <1>12. RoomChanges(m, ro, ro)
    BY <1>4, <1>8 DEF RoomChanges, Sets
  <1> QED
    BY <1>2, <1>3, <1>10, <1>11, <1>12 DEF Saying, Happens

(* Only what one peer has changes. *)
LEMMA ThingsOnly ==
    ASSUME PInv, NEW p \in PeerId, p \in Connected, NEW x \in SUBSET ObjectId,
           table' = [table EXCEPT ![p].things = x]
    PROVE  /\ \A q \in PeerId :
                /\ (table'[q] = None) <=> (table[q] = None)
                /\ table[q] # None => table'[q].key = table[q].key /\ table'[q].room = table[q].room
                /\ q # p => table'[q] = table[q]
           /\ table'[p].things = x /\ table'[p] # None
  <1>1. table[p] \in Info /\ table \in [PeerId -> Info \cup {None}]
    BY DEF PInv, TableSound, Connected
  <1>2. [table[p] EXCEPT !.things = x] \in Info /\ [table[p] EXCEPT !.things = x] # None
    BY <1>1, NoneAssumption DEF Info
  <1>3. [table[p] EXCEPT !.things = x].things = x /\ [table[p] EXCEPT !.things = x].key = table[p].key
        /\ [table[p] EXCEPT !.things = x].room = table[p].room
    BY <1>1 DEF Info
  <1>4. table'[p] = [table[p] EXCEPT !.things = x] /\ \A q \in PeerId \ {p} : table'[q] = table[q]
    BY <1>1
  <1> QED
    BY <1>2, <1>3, <1>4 DEF Connected

LEMMA PeersSame ==
    ASSUME NEW m, NEW t, NEW t2,
           \A q \in PeerId : m \notin Placement(q) /\ m \notin Goes(q) /\ m \notin Presence(q),
           \A q \in PeerId : (\A k : m \notin Comes(q, k)) /\ (\A its : m \notin Places(q, its)),
           \A q \in PeerId : m.is \in {"ObjectCreated", "ObjectRemoved"} /\ m.peer = q => t[q] # None,
           \A q \in PeerId :
                /\ (t2[q] = None) <=> (t[q] = None)
                /\ t[q] # None => t2[q].key = t[q].key /\ t2[q].room = t[q].room
    PROVE  PeersChange(m, t, t2)
  BY DEF PeersChange

LEMMA ThingsSay ==
    ASSUME PInv, NEW p \in PeerId,
           \/ PeerJoin(p) \/ PeerLeave(p)
           \/ \E o \in ObjectId : ObjectCreated(p, o),
           map.open # "none", NEW mi, NEW ro
    PROVE  Saying(bus, table, mi, ro, bus', table', mi, ro)
  <1>0. p \in Connected /\ p # Local
    BY PeersAssumption DEF PeerJoin, PeerLeave, ObjectCreated
  <1>1. table[p].things \subseteq ObjectId /\ table[p] # None
    BY <1>0 DEF Connected, PInv, TableSound, Info
  <1>2. CASE PeerJoin(p)
    <2> DEFINE m == [is |-> "PeerJoin", peer |-> p, things |-> table'[p].things]
               x == table[p].things \cup Token
    <2>1. bus' = bus \o <<m>> /\ table' = [table EXCEPT ![p].things = x] /\ x \in SUBSET ObjectId
      BY <1>1, <1>2 DEF PeerJoin, Say, ObjectId
    <2> HIDE DEF x
    <2>2. /\ \A q \in PeerId :
                /\ (table'[q] = None) <=> (table[q] = None)
                /\ table[q] # None => table'[q].key = table[q].key /\ table'[q].room = table[q].room
                /\ q # p => table'[q] = table[q]
          /\ table'[p].things = x /\ table'[p] # None
      BY <1>0, <2>1, ThingsOnly
    <2>3. m \in Message
      BY <2>1, <2>2 DEF Message, x
    <2>4. m.is = "PeerJoin" /\ m.peer = p /\ m.things = x
      BY <2>2
    <2> HIDE DEF m
    <2>5. /\ \A q : m \notin Placement(q) /\ m \notin Goes(q) /\ m \notin Presence(q)
          /\ \A q : (\A k : m \notin Comes(q, k)) /\ (\A its : m \notin Places(q, its))
          /\ m \notin Configs
      BY <2>4 DEF Goes, Comes, Presence, Places, Placement, Configs
    <2>6. PeersChange(m, table, table')
      BY <2>2, <2>4, <2>5, PeersSame
    <2>7. \A q \in Somebody, o \in ObjectId :
            /\ m \in Gives(q, o) <=> q = p /\ o \in x
            /\ m \notin Takes(q, o)
            /\ m \in Touches(q, o) <=> q = p /\ o \in Token
      BY <2>3, <2>4, <2>5 DEF Gives, Takes, Touches
    <2>8. \A q \in Somebody, o \in ObjectId :
            /\ q = p /\ o \in x => Has(table', mi, q, o)
            /\ q # p \/ o \notin Token => (Has(table', mi, q, o) <=> Has(table, mi, q, o))
      BY <1>0, <1>1, <2>2 DEF Has, Somebody, x
    <2>9. ThingsChange(m, table, mi, table', mi)
      BY <2>7, <2>8 DEF ThingsChange
    <2>10. RoomChanges(m, ro, ro)
      BY <1>0, <2>5 DEF RoomChanges, Sets
    <2> QED
      BY <2>1, <2>3, <2>6, <2>9, <2>10 DEF Saying, Happens
  <1>3. CASE PeerLeave(p)
    <2> DEFINE m == [is |-> "PeerLeave", peer |-> p]
               x == table[p].things \cap Room
    <2>1. bus' = bus \o <<m>> /\ table' = [table EXCEPT ![p].things = x] /\ x \in SUBSET ObjectId
      BY <1>1, <1>3 DEF PeerLeave, Say, ObjectId
    <2> HIDE DEF x
    <2>2. /\ \A q \in PeerId :
                /\ (table'[q] = None) <=> (table[q] = None)
                /\ table[q] # None => table'[q].key = table[q].key /\ table'[q].room = table[q].room
                /\ q # p => table'[q] = table[q]
          /\ table'[p].things = x /\ table'[p] # None
      BY <1>0, <2>1, ThingsOnly
    <2>3. m \in Message
      BY DEF Message
    <2>4. m.is = "PeerLeave" /\ m.peer = p
      OBVIOUS
    <2> HIDE DEF m
    <2>5. /\ \A q : m \notin Placement(q) /\ m \notin Goes(q) /\ m \notin Presence(q)
          /\ \A q : (\A k : m \notin Comes(q, k)) /\ (\A its : m \notin Places(q, its))
          /\ m \notin Configs
      BY <2>4 DEF Goes, Comes, Presence, Places, Placement, Configs
    <2>6. PeersChange(m, table, table')
      BY <2>2, <2>4, <2>5, PeersSame
    <2>7. \A q \in Somebody, o \in ObjectId :
            /\ m \notin Gives(q, o)
            /\ m \in Takes(q, o) <=> q = p /\ o \in Token
            /\ m \in Touches(q, o) <=> q = p /\ o \in Token
      BY <2>3, <2>4, <2>5 DEF Gives, Takes, Touches
    <2>8. \A q \in Somebody, o \in ObjectId :
            /\ q = p /\ o \in Token => ~Has(table', mi, q, o)
            /\ q # p \/ o \notin Token => (Has(table', mi, q, o) <=> Has(table, mi, q, o))
      BY <1>0, <1>1, <2>2, PeersAssumption DEF Has, Somebody, x, ObjectId
    <2>9. ThingsChange(m, table, mi, table', mi)
      BY <2>7, <2>8 DEF ThingsChange
    <2>10. RoomChanges(m, ro, ro)
      BY <1>0, <2>5 DEF RoomChanges, Sets
    <2> QED
      BY <2>1, <2>3, <2>6, <2>9, <2>10 DEF Saying, Happens
  <1>4. ASSUME NEW a \in ObjectId, ObjectCreated(p, a)
        PROVE  Saying(bus, table, mi, ro, bus', table', mi, ro)
    <2> DEFINE m == [is |-> "ObjectCreated", peer |-> p, object |-> a]
               x == table[p].things \cup {a}
    <2>1. bus' = bus \o <<m>> /\ table' = [table EXCEPT ![p].things = x] /\ x \in SUBSET ObjectId
      BY <1>1, <1>4 DEF ObjectCreated, Say
    <2> HIDE DEF x
    <2>2. /\ \A q \in PeerId :
                /\ (table'[q] = None) <=> (table[q] = None)
                /\ table[q] # None => table'[q].key = table[q].key /\ table'[q].room = table[q].room
                /\ q # p => table'[q] = table[q]
          /\ table'[p].things = x /\ table'[p] # None
      BY <1>0, <2>1, ThingsOnly
    <2>3. m \in Message
      BY DEF Message
    <2>4. m.is = "ObjectCreated" /\ m.peer = p /\ m.object = a
      OBVIOUS
    <2> HIDE DEF m
    <2>5. /\ \A q : m \notin Placement(q) /\ m \notin Goes(q) /\ m \notin Presence(q)
          /\ \A q : (\A k : m \notin Comes(q, k)) /\ (\A its : m \notin Places(q, its))
          /\ m \notin Configs
      BY <2>4 DEF Goes, Comes, Presence, Places, Placement, Configs
    <2>6. PeersChange(m, table, table')
      BY <1>1, <2>2, <2>4, <2>5, PeersSame
    <2>7. \A q \in Somebody, o \in ObjectId :
            /\ m \in Gives(q, o) <=> q = p /\ o = a
            /\ m \notin Takes(q, o)
            /\ m \in Touches(q, o) <=> q = p /\ o = a
      BY <2>3, <2>4, <2>5 DEF Gives, Takes, Touches
    <2>8. \A q \in Somebody, o \in ObjectId :
            /\ q = p /\ o = a => Has(table', mi, q, o)
            /\ q # p \/ o # a => (Has(table', mi, q, o) <=> Has(table, mi, q, o))
      BY <1>0, <1>1, <2>2 DEF Has, Somebody, x
    <2>9. ThingsChange(m, table, mi, table', mi)
      BY <2>7, <2>8 DEF ThingsChange
    <2>10. RoomChanges(m, ro, ro)
      BY <1>0, <2>5 DEF RoomChanges, Sets
    <2> QED
      BY <2>1, <2>3, <2>6, <2>9, <2>10 DEF Saying, Happens
  <1> QED
    BY <1>2, <1>3, <1>4

LEMMA PlacesSay ==
    ASSUME PInv, map.open # "none",
           \/ \E p \in PeerId : PeerDisconnect(p)
           \/ \E p \in PeerId, its \in SomeRoom : PeerUpdated(p, its)
           \/ RemoteLost,
           NEW mi, NEW ro
    PROVE  Saying(bus, table, mi, ro, bus', table', mi, ro)
  <1>0. table \in [PeerId -> Info \cup {None}] /\ Local \notin PeerId
    BY PeersAssumption DEF PInv, TableSound
  <1>1. ASSUME NEW p \in PeerId, PeerDisconnect(p)
        PROVE  Saying(bus, table, mi, ro, bus', table', mi, ro)
    <2> DEFINE m == [is |-> "PeerDisconnect", peer |-> p]
    <2>1. bus' = bus \o <<m>> /\ table' = [table EXCEPT ![p] = None]
      BY <1>1 DEF PeerDisconnect, Say
    <2>2. m \in Message
      BY DEF Message
    <2>3. m.is = "PeerDisconnect" /\ m.peer = p
      OBVIOUS
    <2> HIDE DEF m
    <2>4. table'[p] = None /\ \A q \in PeerId \ {p} : table'[q] = table[q]
      BY <1>0, <2>1
    <2>5. /\ \A q : m \in Placement(q) <=> q = p
          /\ \A q : m \in Goes(q) <=> q = p
          /\ \A q : m \in Presence(q) <=> q = p
          /\ \A q : (\A k : m \notin Comes(q, k)) /\ (\A its : m \notin Places(q, its))
          /\ m \notin Configs
      BY <2>2, <2>3 DEF Goes, Comes, Presence, Places, Placement, Configs
    <2>6. PeersChange(m, table, table')
      BY <2>3, <2>4, <2>5 DEF PeersChange
    <2>7. \A q \in Somebody, o \in ObjectId :
            /\ m \notin Gives(q, o)
            /\ m \in Takes(q, o) => q = p
            /\ m \in Touches(q, o) <=> q = p
      BY <1>0, <2>2, <2>3, <2>5 DEF Gives, Takes, Touches
    <2>8. \A q \in Somebody, o \in ObjectId :
            /\ q = p => ~Has(table', mi, q, o)
            /\ q # p => (Has(table', mi, q, o) <=> Has(table, mi, q, o))
      BY <1>0, <2>1, <2>4 DEF Has, Somebody
    <2>9. ThingsChange(m, table, mi, table', mi)
      BY <2>7, <2>8 DEF ThingsChange
    <2>10. RoomChanges(m, ro, ro)
      BY <2>1, <2>5 DEF RoomChanges, Sets
    <2> QED
      BY <2>1, <2>2, <2>6, <2>9, <2>10 DEF Saying, Happens
  <1>2. ASSUME NEW p \in PeerId, NEW its \in SomeRoom, PeerUpdated(p, its)
        PROVE  Saying(bus, table, mi, ro, bus', table', mi, ro)
    <2> DEFINE m == [is |-> "PeerUpdate", peer |-> p, room |-> its]
    <2>1. /\ bus' = bus \o <<m>> /\ table' = [table EXCEPT ![p].room = its]
          /\ table[p] # None
      BY <1>2 DEF PeerUpdated, Say, Connected
    <2>2. m \in Message /\ its \in StableId
      BY RoomsAreIds DEF Message
    <2>3. m.is = "PeerUpdate" /\ m.peer = p /\ m.room = its
      OBVIOUS
    <2> HIDE DEF m
    <2>4. /\ table'[p] # None /\ table'[p].key = table[p].key /\ table'[p].room = its
          /\ table'[p].things = table[p].things
          /\ \A q \in PeerId \ {p} : table'[q] = table[q]
      <3>1. table[p] \in Info
        BY <1>0, <2>1
      <3>2. table'[p] = [table[p] EXCEPT !.room = its]
        BY <1>0, <2>1
      <3>3. table'[p] \in Info
        BY <2>2, <3>1, <3>2 DEF Info
      <3>4. \A q \in PeerId \ {p} : table'[q] = table[q]
        BY <1>0, <2>1
      <3> QED
        BY <3>1, <3>2, <3>3, <3>4, NoneAssumption DEF Info
    <2>5. /\ \A q : m \in Placement(q) <=> q = p
          /\ \A q : m \notin Goes(q) /\ m \notin Presence(q)
          /\ \A q : (\A k : m \notin Comes(q, k)) /\ (\A x : m \in Places(q, x) <=> q = p /\ x = its)
          /\ m \notin Configs
      BY <2>2, <2>3 DEF Goes, Comes, Presence, Places, Placement, Configs
    <2>6. PeersChange(m, table, table')
      BY <2>1, <2>3, <2>4, <2>5 DEF PeersChange
    <2>7. \A q \in Somebody, o \in ObjectId :
            m \notin Gives(q, o) /\ m \notin Takes(q, o) /\ m \notin Touches(q, o)
      BY <2>2, <2>3, <2>5 DEF Gives, Takes, Touches
    <2>8. \A q \in Somebody, o \in ObjectId : Has(table', mi, q, o) <=> Has(table, mi, q, o)
      BY <2>1, <2>4 DEF Has, Somebody
    <2>9. ThingsChange(m, table, mi, table', mi)
      BY <2>7, <2>8 DEF ThingsChange
    <2>10. RoomChanges(m, ro, ro)
      BY <2>1, <2>5 DEF RoomChanges, Sets
    <2> QED
      BY <2>1, <2>2, <2>6, <2>9, <2>10 DEF Saying, Happens
  <1>3. CASE RemoteLost
    <2> DEFINE m == [is |-> "RemoteLost"]
    <2>1. bus' = bus \o <<m>> /\ table' = [p \in PeerId |-> None]
      BY <1>3 DEF RemoteLost, Say
    <2>2. m \in Message
      BY DEF Message
    <2>3. m.is = "RemoteLost"
      OBVIOUS
    <2> HIDE DEF m
    <2>5. /\ \A q : m \in Placement(q) /\ m \in Goes(q) /\ m \in Presence(q)
          /\ \A q : (\A k : m \notin Comes(q, k)) /\ (\A its : m \notin Places(q, its))
          /\ m \notin Configs
      BY <2>2, <2>3 DEF Goes, Comes, Presence, Places, Placement, Configs
    <2>6. PeersChange(m, table, table')
      BY <2>1, <2>3, <2>5 DEF PeersChange
    <2>7. \A q \in Somebody, o \in ObjectId :
            /\ m \notin Gives(q, o)
            /\ m \in Takes(q, o) => q # Local
            /\ m \in Touches(q, o) <=> q # Local
      BY <1>0, <2>2, <2>3, <2>5 DEF Gives, Takes, Touches
    <2>8. \A q \in Somebody, o \in ObjectId :
            /\ q # Local => ~Has(table', mi, q, o)
            /\ q = Local => (Has(table', mi, q, o) <=> Has(table, mi, q, o))
      BY <2>1 DEF Has, Somebody
    <2>9. ThingsChange(m, table, mi, table', mi)
      BY <2>7, <2>8 DEF ThingsChange
    <2>10. RoomChanges(m, ro, ro)
      BY <2>1, <2>5 DEF RoomChanges, Sets
    <2> QED
      BY <2>1, <2>2, <2>6, <2>9, <2>10 DEF Saying, Happens
  <1> QED
    BY <1>1, <1>2, <1>3
(* What is told by whoever did it. *)
LEMMA ConfigHappens ==
    ASSUME NEW r \in StableId, NEW from \in {"backend", "other", "rooms"}, NEW c, NEW t, NEW mi, NEW x
    PROVE  Saying(c, t, mi, x, c \o <<Config(r, from)>>, t, mi, r)
  <1> DEFINE m == Config(r, from)
  <1>1. m \in Message
    BY DEF Message, Config
  <1>2. m.is = "Config" /\ m.room = r
    BY DEF Config
  <1> HIDE DEF m
  <1>3. /\ \A q : m \notin Placement(q) /\ m \notin Goes(q) /\ m \notin Presence(q)
        /\ \A q : (\A k : m \notin Comes(q, k)) /\ (\A its : m \notin Places(q, its))
        /\ \A its : m \in Sets(its) => its = r
        /\ m \in Configs
    BY <1>1, <1>2 DEF Goes, Comes, Presence, Places, Placement, Configs, Sets
  <1>4. PeersChange(m, t, t)
    BY <1>2, <1>3 DEF PeersChange
  <1>5. \A q, o : m \notin Gives(q, o) /\ m \notin Takes(q, o) /\ m \notin Touches(q, o)
    BY <1>2, <1>3 DEF Gives, Takes, Touches
  <1>6. ThingsChange(m, t, mi, t, mi) /\ RoomChanges(m, x, r)
    BY <1>3, <1>5 DEF ThingsChange, RoomChanges
  <1>7. Saying(c, t, mi, x, c \o <<m>>, t, mi, r)
    BY <1>1, <1>4, <1>6 DEF Saying, Happens
  <1> QED
    BY <1>7 DEF m

(* Tables in which the same peers are, with the same keys and in the same rooms. *)
SamePeers(t, u) ==
    \A q \in PeerId :
        /\ (u[q] = None) <=> (t[q] = None)
        /\ t[q] # None => u[q].key = t[q].key /\ u[q].room = t[q].room

LEMMA RemovedHappens ==
    ASSUME NEW p \in PeerId, NEW a \in ObjectId, NEW c, NEW t, NEW u, NEW mi, NEW r,
           SamePeers(t, u), t[p] # None, a \notin u[p].things,
           \A q \in PeerId, o \in ObjectId : q # p \/ o # a => (o \in u[q].things <=> o \in t[q].things)
    PROVE  Saying(c, t, mi, r, c \o <<Removed(p, a)>>, u, mi, r)
  <1> DEFINE m == Removed(p, a)
  <1>0. p # Local /\ Local \notin PeerId
    BY PeersAssumption
  <1>4. m \in Message
    BY DEF Message, Removed
  <1>5. m.is = "ObjectRemoved" /\ m.peer = p /\ m.object = a
    BY DEF Removed
  <1> HIDE DEF m
  <1>6. /\ \A q : m \notin Placement(q) /\ m \notin Goes(q) /\ m \notin Presence(q)
        /\ \A q : (\A k : m \notin Comes(q, k)) /\ (\A its : m \notin Places(q, its))
        /\ m \notin Configs
    BY <1>5 DEF Goes, Comes, Presence, Places, Placement, Configs
  <1>7. PeersChange(m, t, u)
    BY <1>5, <1>6, PeersSame DEF SamePeers
  <1>8. \A q \in Somebody, o \in ObjectId :
            /\ m \notin Gives(q, o)
            /\ m \in Takes(q, o) <=> q = p /\ o = a
            /\ m \in Touches(q, o) <=> q = p /\ o = a
    BY <1>4, <1>5, <1>6 DEF Gives, Takes, Touches
  <1>9. \A q \in Somebody, o \in ObjectId :
            /\ q = p /\ o = a => ~Has(u, mi, q, o)
            /\ q # p \/ o # a => (Has(u, mi, q, o) <=> Has(t, mi, q, o))
    BY <1>0 DEF Has, Somebody, SamePeers
  <1>10. ThingsChange(m, t, mi, u, mi) /\ RoomChanges(m, r, r)
    BY <1>6, <1>8, <1>9 DEF ThingsChange, RoomChanges, Sets
  <1>11. Happens(m, t, mi, r, u, mi, r)
    BY <1>7, <1>10 DEF Happens
  <1>12. Saying(c, t, mi, r, c \o <<m>>, u, mi, r)
    BY <1>4, <1>11 DEF Saying
  <1> QED
    BY <1>12 DEF m

(* The rooms of the user. *)
LEMMA MineHappens ==
    ASSUME NEW a \in Room, NEW kind \in {"ObjectCreated", "ObjectRemoved"}, NEW c, NEW t, NEW mi, NEW r
    PROVE  Saying(c, t, mi, r, c \o <<[is |-> kind, peer |-> Local, object |-> a]>>,
                  t, IF kind = "ObjectCreated" THEN mi \cup {a} ELSE mi \ {a}, r)
  <1> DEFINE m == [is |-> kind, peer |-> Local, object |-> a]
             new == IF kind = "ObjectCreated" THEN mi \cup {a} ELSE mi \ {a}
  <1>1. m \in Message
    BY DEF Message, ObjectId
  <1>2. m.is = kind /\ m.peer = Local /\ m.object = a /\ Local \notin PeerId
    BY PeersAssumption
  <1> HIDE DEF m
  <1>3. /\ \A q : m \notin Placement(q) /\ m \notin Goes(q) /\ m \notin Presence(q)
        /\ \A q : (\A k : m \notin Comes(q, k)) /\ (\A its : m \notin Places(q, its))
        /\ m \notin Configs
    BY <1>2 DEF Goes, Comes, Presence, Places, Placement, Configs
  <1>4. PeersChange(m, t, t)
    BY <1>2, <1>3 DEF PeersChange
  <1>5. \A q \in Somebody, o \in ObjectId :
            /\ m \in Gives(q, o) <=> q = Local /\ o = a /\ kind = "ObjectCreated"
            /\ m \in Takes(q, o) <=> q = Local /\ o = a /\ kind = "ObjectRemoved"
            /\ m \in Touches(q, o) <=> q = Local /\ o = a
    BY <1>1, <1>2, <1>3 DEF Gives, Takes, Touches
  <1>6. \A q \in Somebody, o \in ObjectId :
            /\ q = Local /\ o = a => (Has(t, new, q, o) <=> kind = "ObjectCreated")
            /\ q # Local \/ o # a => (Has(t, new, q, o) <=> Has(t, mi, q, o))
    BY DEF Has
  <1> HIDE DEF new
  <1>7. ThingsChange(m, t, mi, t, new) /\ RoomChanges(m, r, r)
    BY <1>3, <1>5, <1>6 DEF ThingsChange, RoomChanges, Sets
  <1>8. Saying(c, t, mi, r, c \o <<m>>, t, new, r)
    BY <1>1, <1>4, <1>7 DEF Saying, Happens
  <1> QED
    BY <1>8 DEF m, new

LEMMA CreatedHappens ==
    ASSUME NEW a \in Room, NEW c, NEW t, NEW mi, NEW r
    PROVE  /\ Saying(c, t, mi, r, c \o <<Created(a)>>, t, mi \cup {a}, r)
           /\ Saying(c, t, mi, r, c \o <<Removed(Local, a)>>, t, mi \ {a}, r)
  <1>1. Saying(c, t, mi, r, c \o <<[is |-> "ObjectCreated", peer |-> Local, object |-> a]>>,
               t, IF "ObjectCreated" = "ObjectCreated" THEN mi \cup {a} ELSE mi \ {a}, r)
    BY MineHappens
  <1>2. Saying(c, t, mi, r, c \o <<[is |-> "ObjectRemoved", peer |-> Local, object |-> a]>>,
               t, IF "ObjectRemoved" = "ObjectCreated" THEN mi \cup {a} ELSE mi \ {a}, r)
    BY MineHappens
  <1> QED
    BY <1>1, <1>2 DEF Created, Removed

(* What is told at once, what is done in silence, and what is told of after it. *)
Announced ==
    \/ \E p \in PeerId :
        \/ \E k \in PublicKey, r \in SomeRoom : PeerConnected(p, k, r)
        \/ \E r \in SomeRoom : PeerUpdated(p, r)
        \/ \E o \in ObjectId : ObjectCreated(p, o)
        \/ PeerJoin(p) \/ PeerLeave(p) \/ PeerDisconnect(p)
    \/ RemoteLost

Silent ==
    \/ \E p \in PeerId, o \in ObjectId : ObjectRemoved(p, o)
    \/ ClientClears
    \/ \E h \in Handler, o \in Room : CreateRoom(h, o) \/ CreateFails(h, o) \/ RemoveRoom(h, o)
    \/ \E r \in SomeRoom : EnterElsewhere(r)
    \/ \E r \in StableId : Enter(r)

LEMMA Steps ==
    ASSUME Next
    PROVE  \/ Announced \/ Silent
           \/ \E h \in Handler : Tell(h)
           \/ Hear \/ Open \/ InitializeMap \/ OpenRooms \/ InitializeRooms \/ CloseRooms \/ Lose
  BY DEF Next, Remote, Own, Announced, Silent

LEMMA AnnouncedSays ==
    ASSUME PInv, map.open # "none", Announced, NEW mi, NEW ro
    PROVE  Saying(bus, table, mi, ro, bus', table', mi, ro)
  BY ConnectedSays, ThingsSay, PlacesSay DEF Announced

-----------------------------------------------------------------------------
(* The peers of a component, as what waits leaves them to be. What b is silent about is
   in v as it is. *)
PeersFollow(b, t, v) ==
    \A p \in PeerId :
        /\ Quiet(b, Presence(p)) =>
            /\ (v.peers[p] = None) <=> (t[p] = None)
            /\ t[p] # None => v.peers[p].key = t[p].key
        /\ Quiet(b, Placement(p)) /\ t[p] # None => v.peers[p].room = t[p].room

(* What m makes of them. *)
PeersHeard(m, v, w) ==
    \A p \in PeerId :
        /\ m \in Goes(p) => w.peers[p] = None
        /\ \A k \in PublicKey : m \in Comes(p, k) => w.peers[p] # None /\ w.peers[p].key = k
        /\ \A its \in StableId : m \in Places(p, its) /\ w.peers[p] # None => w.peers[p].room = its
        /\ m \notin Presence(p) =>
            \/ /\ (w.peers[p] = None) <=> (v.peers[p] = None)
               /\ v.peers[p] # None => w.peers[p].key = v.peers[p].key
               /\ v.peers[p] # None /\ m \notin Placement(p) => w.peers[p].room = v.peers[p].room
            \/ v.peers[p] # None /\ \E q \in PeerId \ {p} : m \in Comes(q, v.peers[p].key)

LEMMA PeersFollowAppend ==
    ASSUME NEW b \in Seq(Message), NEW m \in Message, NEW t, NEW t2, NEW v,
           PeersFollow(b, t, v), PeersChange(m, t, t2)
    PROVE  PeersFollow(b \o <<m>>, t2, v)
  <1> DEFINE c == b \o <<m>>
  <1>1. \A Y : Quiet(c, Y) <=> Quiet(b, Y) /\ m \notin Y
    BY QuietAppend
  <1> HIDE DEF c
  <1>2. \A p \in PeerId : m \notin Placement(p) => m \notin Presence(p)
    BY Classes
  <1>3. ASSUME NEW p \in PeerId, Quiet(c, Placement(p))
        PROVE  Quiet(c, Presence(p))
    BY <1>3, Classes, QuietSome
  <1>4. PeersFollow(c, t2, v)
    BY <1>1, <1>2, <1>3 DEF PeersFollow, PeersChange
  <1> QED
    BY <1>4 DEF c

LEMMA PeersFollowTail ==
    ASSUME NEW b \in Seq(Message), b # <<>>, NEW t, NEW mi, NEW r, NEW v, NEW w,
           \A p \in PeerId : t[p] # None => t[p].key \in PublicKey,
           Told(b, t, mi, r), PeersFollow(b, t, v), PeersHeard(Head(b), v, w)
    PROVE  PeersFollow(Tail(b), t, w)
  <1> DEFINE m == Head(b)
             c == Tail(b)
  <1>1. \A Y : Quiet(b, Y) <=> m \notin Y /\ Quiet(c, Y)
    BY QuietTail
  <1>2. m \in Message
    BY HeardFirst
  <1>3. /\ \A p \in PeerId :
                /\ m \in Goes(p) /\ Quiet(c, Presence(p)) => t[p] = None
                /\ \A k \in PublicKey :
                    /\ m \in Comes(p, k) /\ Quiet(c, Presence(p)) => t[p] # None /\ t[p].key = k
                    /\ t[p] # None /\ t[p].key = k =>
                        \A q \in PeerId \ {p} : ~(m \in Comes(q, k) /\ Quiet(c, Comes(p, k)))
                /\ \A its \in StableId :
                    m \in Places(p, its) /\ Quiet(c, Placement(p)) => t[p] # None /\ t[p].room = its
    BY ToldHead
  <1>4. PeersHeard(m, v, w)
    OBVIOUS
  <1> HIDE DEF m, c
  <1>5. ASSUME NEW p \in PeerId, Quiet(c, Presence(p)), m \notin Presence(p), t[p] # None, v.peers[p] # None
        PROVE  ~ \E q \in PeerId \ {p} : m \in Comes(q, v.peers[p].key)
    <2>1. v.peers[p].key = t[p].key /\ t[p].key \in PublicKey
      BY <1>1, <1>5 DEF PeersFollow
    <2>2. Quiet(c, Comes(p, t[p].key))
      BY <1>5, Classes, QuietSome
    <2> QED
      BY <1>3, <1>5, <2>1, <2>2
  <1>6. ASSUME NEW p \in PeerId, Quiet(c, Presence(p))
        PROVE  /\ (w.peers[p] = None) <=> (t[p] = None)
               /\ t[p] # None => w.peers[p].key = t[p].key
    <2>1. CASE m \in Goes(p)
      BY <1>3, <1>4, <1>6, <2>1 DEF PeersHeard
    <2>2. ASSUME NEW k \in PublicKey, m \in Comes(p, k)
          PROVE  /\ (w.peers[p] = None) <=> (t[p] = None)
                 /\ t[p] # None => w.peers[p].key = t[p].key
      BY <1>3, <1>4, <1>6, <2>2 DEF PeersHeard
    <2>3. CASE m \notin Presence(p)
      <3>1. /\ (v.peers[p] = None) <=> (t[p] = None)
            /\ t[p] # None => v.peers[p].key = t[p].key
        BY <1>1, <1>6, <2>3 DEF PeersFollow
      <3> QED
        BY <1>4, <1>5, <1>6, <2>3, <3>1 DEF PeersHeard
    <2> QED
      BY <1>2, <2>1, <2>2, <2>3, PresenceIs
  <1>7. ASSUME NEW p \in PeerId, Quiet(c, Placement(p)), t[p] # None
        PROVE  w.peers[p].room = t[p].room
    <2>1. Quiet(c, Presence(p))
      BY <1>7, Classes, QuietSome
    <2>2. w.peers[p] # None
      BY <1>6, <1>7, <2>1
    <2>3. CASE m \notin Placement(p)
      <3>1. m \notin Presence(p) /\ Quiet(b, Placement(p)) /\ Quiet(b, Presence(p))
        BY <1>1, <1>7, <2>1, <2>3, Classes
      <3>2. v.peers[p] # None /\ v.peers[p].room = t[p].room
        BY <1>7, <3>1 DEF PeersFollow
      <3> QED
        BY <1>4, <1>5, <1>7, <2>1, <2>3, <3>1, <3>2 DEF PeersHeard
    <2>4. CASE m \in Placement(p)
      <3>1. m \notin Goes(p)
        BY <1>3, <1>7, <2>1
      <3>2. m.room \in StableId /\ m \in Places(p, m.room)
        BY <1>2, <2>4, <3>1 DEF Message, Placement, Presence, Places
      <3> QED
        BY <1>3, <1>4, <1>7, <2>2, <3>2 DEF PeersHeard
    <2> QED
      BY <2>3, <2>4
  <1>8. PeersFollow(c, t, w)
    BY <1>6, <1>7 DEF PeersFollow
  <1> QED
    BY <1>8 DEF c

LEMMA InsertPeers ==
    ASSUME NEW v, Good(v), NEW p \in PeerId, NEW key \in PublicKey, NEW its \in StableId, NEW here,
           NEW w, w = Insert(v, p, key, its, here)
    PROVE  /\ DOMAIN w = DOMAIN v /\ \A f \in DOMAIN v \ {"peers", "keys"} : w[f] = v[f]
           /\ w.peers[p] # None /\ w.peers[p].key = key /\ w.peers[p].room = its
           /\ \A q \in PeerId \ {p} :
                w.peers[q] = IF v.peers[q] # None /\ v.peers[q].key = key THEN None ELSE v.peers[q]
           /\ key \in DOMAIN w.keys /\ w.keys[key] = p
           /\ \A k \in DOMAIN w.keys \ {key} : k \in DOMAIN v.keys /\ w.keys[k] = v.keys[k]
  <1> DEFINE old == IF key \in DOMAIN v.keys THEN v.keys[key] ELSE None
             peers == [q \in PeerId |-> IF q = old THEN None ELSE v.peers[q]]
             keys == Noted(v.keys, key, p)
             new == [key |-> key, room |-> its, here |-> its = here]
             left == IF peers[p] = None THEN keys ELSE Forgotten(keys, peers[p].key)
  <1>1. /\ w.peers = [peers EXCEPT ![p] = new] /\ w.keys = left /\ DOMAIN w = DOMAIN v
        /\ \A f \in DOMAIN v \ {"peers", "keys"} : w[f] = v[f]
    BY DEF Insert, Good, Fields
  <1>2. \A q \in PeerId : q = old <=> v.peers[q] # None /\ v.peers[q].key = key
    BY PeersAssumption DEF Good, Paired, Fields
  <1>3. \A q \in PeerId : peers[q] = IF v.peers[q] # None /\ v.peers[q].key = key THEN None ELSE v.peers[q]
    BY <1>2
  <1>4. DOMAIN keys = {key} \cup DOMAIN v.keys /\ keys[key] = p
        /\ \A k \in DOMAIN v.keys \ {key} : keys[k] = v.keys[k]
    BY DEF Noted
  <1>5. Good(w)
    BY InsertGood
  <1>6. new.key = key /\ new.room = its /\ peers = [q \in PeerId |-> peers[q]]
    OBVIOUS
  <1> HIDE DEF old, peers, keys, new
  <1>7. w.peers[p] = new /\ \A q \in PeerId \ {p} : w.peers[q] = peers[q]
    BY <1>1, <1>6
  <1>8. new # None
    <2>1. \A b \in BOOLEAN : [key |-> key, room |-> its, here |-> b] \in KnownPeer
      BY DEF KnownPeer
    <2>2. (its = here) \in BOOLEAN
      OBVIOUS
    <2>3. new \in KnownPeer
      BY <2>1, <2>2, Zenon DEF new
    <2> QED
      BY <2>3, NoneAssumption, Zenon
  <1>9. key \in DOMAIN w.keys /\ w.keys[key] = p
    BY <1>5, <1>6, <1>7, <1>8 DEF Good, Paired
  <1>10. \A k \in DOMAIN w.keys \ {key} : k \in DOMAIN v.keys /\ w.keys[k] = v.keys[k]
    BY <1>1, <1>4 DEF Forgotten
  <1> QED
    BY <1>1, <1>3, <1>6, <1>7, <1>8, <1>9, <1>10

LEMMA RemovePeers ==
    ASSUME NEW v, Good(v), NEW p \in PeerId, NEW w, w = Remove(v, p)
    PROVE  /\ DOMAIN w = DOMAIN v /\ \A f \in DOMAIN v \ {"peers", "keys"} : w[f] = v[f]
           /\ w.peers[p] = None
           /\ \A q \in PeerId \ {p} : w.peers[q] = v.peers[q]
           /\ \A k \in DOMAIN w.keys : k \in DOMAIN v.keys /\ w.keys[k] = v.keys[k]
           /\ \A k \in DOMAIN v.keys : v.keys[k] # p => k \in DOMAIN w.keys
  BY DEF Remove, Good, Fields, Forgotten, Paired

Placed(v, p, its, here) == [v EXCEPT !.peers[p].room = its, !.peers[p].here = (its = here)]

LEMMA PlacedPeers ==
    ASSUME NEW v, Good(v), NEW p \in PeerId, v.peers[p] # None, NEW its \in StableId, NEW here,
           NEW w, w = Placed(v, p, its, here)
    PROVE  /\ DOMAIN w = DOMAIN v /\ \A f \in DOMAIN v \ {"peers"} : w[f] = v[f]
           /\ w.peers[p] # None /\ w.peers[p].key = v.peers[p].key /\ w.peers[p].room = its
           /\ \A q \in PeerId \ {p} : w.peers[q] = v.peers[q]
  <1> DEFINE info == v.peers[p]
             new == Relodged(info, its, here)
  <1>1. info \in KnownPeer
    BY DEF Good, Fields
  <1>2. new \in KnownPeer /\ new # None /\ new.key = info.key
    <2> HIDE DEF info
    <2> QED
      BY <1>1, OneKnown
  <1>3. new.room = its
    <2> HIDE DEF info
    <2> QED
      BY <1>1 DEF KnownPeer, Relodged
  <1>4. w.peers = [v.peers EXCEPT ![p] = new] /\ DOMAIN w = DOMAIN v /\ \A f \in DOMAIN v \ {"peers"} : w[f] = v[f]
    BY DEF Good, Fields, Placed, Relodged
  <1> HIDE DEF new
  <1>5. w.peers[p] = new /\ \A q \in PeerId \ {p} : w.peers[q] = v.peers[q]
    BY <1>4 DEF Good, Fields
  <1> QED
    BY <1>2, <1>3, <1>4, <1>5

Alike(v, w, q) ==
    /\ (w.peers[q] = None) <=> (v.peers[q] = None)
    /\ v.peers[q] # None => w.peers[q].key = v.peers[q].key /\ w.peers[q].room = v.peers[q].room

LEMMA HeardPeers ==
    ASSUME NEW v, NEW w, NEW m \in Message,
           \/ /\ m.is = "PeerConnected" /\ w.peers[m.peer] # None
              /\ w.peers[m.peer].key = m.key /\ w.peers[m.peer].room = m.room
              /\ \A q \in PeerId \ {m.peer} :
                    w.peers[q] = IF v.peers[q] # None /\ v.peers[q].key = m.key THEN None ELSE v.peers[q]
           \/ /\ m.is = "PeerDisconnect" /\ w.peers[m.peer] = None
              /\ \A q \in PeerId \ {m.peer} : w.peers[q] = v.peers[q]
           \/ /\ m.is = "PeerUpdate"
              /\ (w.peers[m.peer] = None) <=> (v.peers[m.peer] = None)
              /\ v.peers[m.peer] # None =>
                    w.peers[m.peer].key = v.peers[m.peer].key /\ w.peers[m.peer].room = m.room
              /\ \A q \in PeerId \ {m.peer} : w.peers[q] = v.peers[q]
           \/ /\ m.is \in {"PeerJoin", "PeerLeave", "ObjectCreated", "ObjectRemoved", "Config"}
              /\ \A q \in PeerId : Alike(v, w, q)
           \/ m.is = "RemoteLost" /\ \A q \in PeerId : w.peers[q] = None
    PROVE  PeersHeard(m, v, w)
  <1>1. CASE m.is = "PeerConnected"
    <2>1. m.peer \in PeerId /\ m.key \in PublicKey
      BY <1>1 DEF Message
    <2>2. \A q \in PeerId :
            /\ m \notin Goes(q) /\ (m \in Presence(q) <=> q = m.peer)
            /\ \A k \in PublicKey : m \in Comes(q, k) <=> q = m.peer /\ k = m.key
            /\ \A its : m \in Places(q, its) => q = m.peer /\ its = m.room
      BY <1>1 DEF Goes, Presence, Comes, Places
    <2>3. m \in Comes(m.peer, m.key)
      BY <2>1, <2>2
    <2> QED
      BY <1>1, <2>1, <2>2, <2>3 DEF PeersHeard
  <1>2. CASE m.is = "PeerDisconnect"
    <2>1. \A q \in PeerId :
            /\ (m \in Goes(q) <=> q = m.peer) /\ (m \in Presence(q) <=> q = m.peer)
            /\ \A k : m \notin Comes(q, k)
            /\ \A its : m \notin Places(q, its)
      BY <1>2 DEF Goes, Presence, Comes, Places
    <2> QED
      BY <1>2, <2>1 DEF PeersHeard
  <1>3. CASE m.is = "PeerUpdate"
    <2>1. \A q \in PeerId :
            /\ m \notin Goes(q) /\ m \notin Presence(q)
            /\ \A k : m \notin Comes(q, k)
            /\ \A its : m \in Places(q, its) => q = m.peer /\ its = m.room
            /\ m \in Placement(q) <=> q = m.peer
      BY <1>3 DEF Goes, Presence, Comes, Places, Placement
    <2> QED
      BY <1>3, <2>1 DEF PeersHeard
  <1>4. CASE m.is \in {"PeerJoin", "PeerLeave", "ObjectCreated", "ObjectRemoved", "Config"}
    <2>1. \A q \in PeerId :
            /\ m \notin Goes(q) /\ m \notin Presence(q)
            /\ \A k : m \notin Comes(q, k)
            /\ \A its : m \notin Places(q, its)
      BY <1>4 DEF Goes, Presence, Comes, Places
    <2> QED
      BY <1>4, <2>1 DEF PeersHeard, Alike
  <1>5. CASE m.is = "RemoteLost"
    <2>1. \A q \in PeerId :
            /\ m \in Goes(q) /\ m \in Presence(q)
            /\ \A k : m \notin Comes(q, k)
            /\ \A its : m \notin Places(q, its)
      BY <1>5 DEF Goes, Presence, Comes, Places
    <2> QED
      BY <1>5, <2>1 DEF PeersHeard
  <1> QED
    BY <1>1, <1>2, <1>3, <1>4, <1>5

-----------------------------------------------------------------------------
(* The Map. *)
MapTyped(v) ==
    /\ {"open", "me", "peers", "keys", "room", "roomId", "things", "display"} \subseteq DOMAIN v
    /\ v.open \in {"none", "opening", "open"}
    /\ v.me \in {Me, None}
    /\ v.room \in StableId
    /\ v.roomId \in RemoteId /\ v.display \in RemoteId
    /\ v.things \subseteq Somebody \X ObjectId

(* Of the things of E, which are still to be told of, nothing is said. *)
MapFollows(b, t, mi, r, E, v) ==
    /\ PeersFollow(b, t, v)
    /\ \A p \in Somebody, o \in ObjectId :
        Quiet(b, Touches(p, o)) /\ <<p, o>> \notin E => (<<p, o>> \in v.things <=> Has(t, mi, p, o))
    /\ Quiet(b, Configs) => v.room = r

(* Its room has been looked up, and is drawn unless something of it waits. *)
Looked(v) == ToRemoteId(v, v.room) # Zero => v.roomId = ToRemoteId(v, v.room)

Painted(b, E, v) ==
    \A p \in Somebody, o \in Room :
        /\ ToRemoteId(v, v.room) = <<p, o>> /\ <<p, o>> \in v.things
        /\ Quiet(b, Touches(p, o)) /\ <<p, o>> \notin E
        => v.display = <<p, o>>

(* Once m is told, nothing but what it tells of is said of more than before. *)
Leaves(m, E, F) == \A p \in Somebody, o \in ObjectId : <<p, o>> \in E \ F => m \in Touches(p, o)

IsDrawn(v) ==
    v.display = IF v.roomId \in v.things /\ v.roomId[2] \in Room THEN v.roomId ELSE Zero

(* What m makes of it. *)
MapHeard(m, v, w) ==
    /\ PeersHeard(m, v, w)
    /\ \A p \in Somebody, o \in ObjectId :
        /\ m \in Gives(p, o) => <<p, o>> \in w.things
        /\ m \in Touches(p, o) /\ m \notin Gives(p, o) => <<p, o>> \notin w.things
        /\ m \notin Touches(p, o) /\ m \notin Gives(p, o) => (<<p, o>> \in w.things <=> <<p, o>> \in v.things)
    /\ \A its \in StableId : m \in Sets(its) => w.room = its
    /\ m \notin Configs => w.room = v.room

LEMMA GivesOrTakes ==
    ASSUME NEW m \in Message, NEW p \in Somebody, NEW o \in ObjectId, m \in Touches(p, o), m \notin Gives(p, o)
    PROVE  m \in Takes(p, o)
  BY DEF Message, Touches, Gives, Takes

LEMMA MapFollowsAppend ==
    ASSUME NEW b \in Seq(Message), NEW m \in Message, NEW t, NEW mi, NEW r, NEW t2, NEW mi2, NEW r2, NEW v,
           NEW E, NEW F, Leaves(m, E, F),
           MapFollows(b, t, mi, r, E, v), Painted(b, E, v), Happens(m, t, mi, r, t2, mi2, r2)
    PROVE  MapFollows(b \o <<m>>, t2, mi2, r2, F, v) /\ Painted(b \o <<m>>, F, v)
  <1> DEFINE c == b \o <<m>>
  <1>1. \A Y : Quiet(c, Y) <=> Quiet(b, Y) /\ m \notin Y
    BY QuietAppend
  <1>2. PeersFollow(c, t2, v)
    BY PeersFollowAppend DEF MapFollows, Happens
  <1> HIDE DEF c
  <1>3. \A p \in Somebody, o \in ObjectId :
            Quiet(c, Touches(p, o)) /\ <<p, o>> \notin F => (<<p, o>> \in v.things <=> Has(t2, mi2, p, o))
    BY <1>1 DEF MapFollows, Happens, ThingsChange, Leaves
  <1>4. Quiet(c, Configs) => v.room = r2
    BY <1>1 DEF MapFollows, Happens, RoomChanges
  <1>5. Painted(c, F, v)
    <2>1. Room \subseteq ObjectId
      BY DEF ObjectId
    <2> QED
      BY <1>1, <2>1 DEF Painted, Leaves
  <1> QED
    BY <1>2, <1>3, <1>4, <1>5 DEF c, MapFollows

LEMMA MapFollowsTail ==
    ASSUME NEW b \in Seq(Message), b # <<>>, NEW t, NEW mi, NEW r, NEW E, NEW v, NEW w,
           \A p \in PeerId : t[p] # None => t[p].key \in PublicKey,
           Told(b, t, mi, r), MapFollows(b, t, mi, r, E, v), MapHeard(Head(b), v, w)
    PROVE  MapFollows(Tail(b), t, mi, r, E, w)
  <1> DEFINE m == Head(b)
             c == Tail(b)
  <1>1. \A Y : Quiet(b, Y) <=> m \notin Y /\ Quiet(c, Y)
    BY QuietTail
  <1>2. m \in Message
    BY HeardFirst
  <1>3. PeersFollow(c, t, w)
    BY PeersFollowTail DEF MapFollows, MapHeard
  <1>4. /\ \A p \in Somebody, o \in ObjectId :
                /\ m \in Gives(p, o) /\ Quiet(Tail(b), Touches(p, o)) => Has(t, mi, p, o)
                /\ m \in Takes(p, o) /\ Quiet(Tail(b), Touches(p, o)) => ~Has(t, mi, p, o)
        /\ \A its \in StableId : m \in Sets(its) /\ Quiet(Tail(b), Configs) => r = its
    BY ToldHead
  <1>5. MapHeard(m, v, w)
    OBVIOUS
  <1> HIDE DEF m, c
  <1>6. ASSUME NEW p \in Somebody, NEW o \in ObjectId, Quiet(c, Touches(p, o)), <<p, o>> \notin E
        PROVE  <<p, o>> \in w.things <=> Has(t, mi, p, o)
    <2>1. CASE m \in Gives(p, o)
      BY <1>4, <1>5, <1>6, <2>1 DEF MapHeard, c
    <2>2. CASE m \in Touches(p, o) /\ m \notin Gives(p, o)
      <3>1. m \in Takes(p, o)
        BY <1>2, <2>2, GivesOrTakes
      <3> QED
        BY <1>4, <1>5, <1>6, <2>2, <3>1 DEF MapHeard, c
    <2>3. CASE m \notin Touches(p, o) /\ m \notin Gives(p, o)
      BY <1>1, <1>5, <1>6, <2>3 DEF MapHeard, MapFollows
    <2> QED
      BY <2>1, <2>2, <2>3
  <1>7. ASSUME Quiet(c, Configs)
        PROVE  w.room = r
    <2>1. CASE m \in Configs
      <3>1. m.room \in StableId /\ m \in Sets(m.room)
        BY <1>2, <2>1 DEF Configs, Sets, Message
      <3> QED
        BY <1>4, <1>5, <1>7, <3>1 DEF MapHeard, c
    <2>2. CASE m \notin Configs
      BY <1>1, <1>5, <1>7, <2>2 DEF MapHeard, MapFollows
    <2> QED
      BY <2>1, <2>2
  <1> QED
    BY <1>3, <1>6, <1>7 DEF MapFollows, c

LEMMA ZeroIsNowhere ==
    /\ \A p \in Somebody : \A o : <<p, o>> # Zero
    /\ \A k \in PublicKey \cup {Me} : \A o : <<k, o>> # Zero
    /\ Local \notin PeerId /\ Local \in Somebody /\ PeerId \subseteq Somebody
  BY PeersAssumption DEF Somebody, Zero

LEMMA LookedUp ==
    ASSUME NEW v, Good(v), NEW id \in StableId
    PROVE  /\ ToRemoteId(v, id) \in RemoteId
           /\ ToRemoteId(v, id) # Zero =>
                /\ id # Zero /\ id[2] \in ObjectId
                /\ \/ id[1] = v.me /\ ToRemoteId(v, id) = <<Local, id[2]>>
                   \/ id[1] # v.me /\ id[1] \in DOMAIN v.keys /\ ToRemoteId(v, id) = <<v.keys[id[1]], id[2]>>
  <1>1. id # Zero => id[2] \in ObjectId
    BY DEF StableId
  <1>2. \A k \in DOMAIN v.keys : v.keys[k] \in PeerId
    BY DEF Good, Fields, Keys
  <1> QED
    BY <1>1, <1>2 DEF ToRemoteId, RemoteId

(* With fewer keys nothing else is found. *)
LEMMA LookedBefore ==
    ASSUME NEW v, NEW w, NEW id, w.me = v.me, ToRemoteId(w, id) # Zero,
           id[1] \in DOMAIN w.keys => id[1] \in DOMAIN v.keys /\ w.keys[id[1]] = v.keys[id[1]]
    PROVE  ToRemoteId(v, id) = ToRemoteId(w, id)
  BY DEF ToRemoteId

LEMMA DrawnMap ==
    ASSUME NEW v, MapTyped(v), NEW w, w = Drawn(v)
    PROVE  /\ MapTyped(w) /\ IsDrawn(w)
           /\ w.peers = v.peers /\ w.keys = v.keys /\ w.me = v.me /\ w.open = v.open
           /\ w.room = v.room /\ w.roomId = v.roomId /\ w.things = v.things
           /\ Looked(v) => Looked(w)
  <1> DEFINE d == IF v.roomId \in v.things /\ v.roomId[2] \in Room THEN v.roomId ELSE Zero
  <1>1. d \in RemoteId
    BY DEF MapTyped, RemoteId
  <1>2. w.display = d /\ DOMAIN w = DOMAIN v /\ \A f \in DOMAIN v \ {"display"} : w[f] = v[f]
    BY DEF Drawn, MapTyped
  <1>3. /\ w.peers = v.peers /\ w.keys = v.keys /\ w.me = v.me /\ w.open = v.open
        /\ w.room = v.room /\ w.roomId = v.roomId /\ w.things = v.things
    BY <1>2 DEF MapTyped
  <1>4. IsDrawn(w)
    BY <1>2, <1>3 DEF IsDrawn
  <1>5. Looked(v) => Looked(w)
    BY <1>3 DEF Looked, ToRemoteId
  <1> QED
    BY <1>1, <1>2, <1>3, <1>4, <1>5 DEF MapTyped

LEMMA UpdatedMap ==
    ASSUME NEW v, Good(v), MapTyped(v), NEW w, w = UpdatePeers(v)
    PROVE  /\ MapTyped(w) /\ Looked(w)
           /\ w.peers = v.peers /\ w.keys = v.keys /\ w.me = v.me /\ w.open = v.open
           /\ w.room = v.room /\ w.things = v.things /\ w.display = v.display
  <1> DEFINE id == ToRemoteId(v, v.room)
  <1>1. id \in RemoteId
    BY LookedUp DEF MapTyped
  <1>2. w.roomId = id /\ DOMAIN w = DOMAIN v /\ \A f \in DOMAIN v \ {"roomId"} : w[f] = v[f]
    BY DEF UpdatePeers, MapTyped
  <1>3. /\ w.peers = v.peers /\ w.keys = v.keys /\ w.me = v.me /\ w.open = v.open
        /\ w.room = v.room /\ w.things = v.things /\ w.display = v.display
    BY <1>2 DEF MapTyped
  <1>4. Looked(w)
    BY <1>2, <1>3 DEF Looked, ToRemoteId
  <1> QED
    BY <1>1, <1>2, <1>3, <1>4 DEF MapTyped

(* What is drawn is the room that was looked up. *)
LEMMA DrawnIsPainted ==
    ASSUME NEW v, MapTyped(v), IsDrawn(v), Looked(v), NEW b, NEW E
    PROVE  Painted(b, E, v)
  <1> SUFFICES ASSUME NEW p \in Somebody, NEW o \in Room,
                      ToRemoteId(v, v.room) = <<p, o>>, <<p, o>> \in v.things
               PROVE  v.display = <<p, o>>
    BY DEF Painted
  <1>1. v.roomId = <<p, o>>
    BY ZeroIsNowhere DEF Looked
  <1> QED
    BY <1>1 DEF IsDrawn

(* One step of a component that only changes other things than its peers. *)
LEMMA MapThings ==
    ASSUME NEW v, MapTyped(v), NEW x \in SUBSET (Somebody \X ObjectId), NEW w, w = [v EXCEPT !.things = x]
    PROVE  /\ MapTyped(w) /\ (Looked(v) => Looked(w))
           /\ w.peers = v.peers /\ w.keys = v.keys /\ w.me = v.me /\ w.open = v.open
           /\ w.room = v.room /\ w.roomId = v.roomId /\ w.things = x /\ w.display = v.display
  <1>1. w.things = x /\ DOMAIN w = DOMAIN v /\ \A f \in DOMAIN v \ {"things"} : w[f] = v[f]
    BY DEF MapTyped
  <1>2. /\ w.peers = v.peers /\ w.keys = v.keys /\ w.me = v.me /\ w.open = v.open
        /\ w.room = v.room /\ w.roomId = v.roomId /\ w.display = v.display
    BY <1>1 DEF MapTyped
  <1> QED
    BY <1>1, <1>2 DEF MapTyped, Looked, ToRemoteId

LEMMA MapHearsLost ==
    ASSUME NEW v, Good(v), MapTyped(v), Looked(v), NEW m \in Message, m.is = "RemoteLost",
           NEW w, w = MapUpdate(v, m)
    PROVE  /\ MapTyped(w) /\ Looked(w) /\ IsDrawn(w) /\ MapHeard(m, v, w)
           /\ w.me = v.me /\ w.open = v.open
  <1> DEFINE x == v.things \cap Of(Local)
             a == [v EXCEPT !.things = x]
             n == NoPeers(a)
  <1>1. w = Drawn(n)
    BY DEF MapUpdate
  <1>2. x \in SUBSET (Somebody \X ObjectId)
    BY DEF MapTyped
  <1> HIDE DEF x
  <1>3. /\ MapTyped(a) /\ Looked(a)
        /\ a.peers = v.peers /\ a.keys = v.keys /\ a.me = v.me /\ a.open = v.open
        /\ a.room = v.room /\ a.roomId = v.roomId /\ a.things = x /\ a.display = v.display
    BY <1>2, MapThings
  <1> HIDE DEF a
  <1>4. /\ n.peers = [p \in PeerId |-> None] /\ n.keys = <<>> /\ DOMAIN n = DOMAIN a
        /\ \A f \in DOMAIN a \ {"peers", "keys"} : n[f] = a[f]
    BY <1>3 DEF NoPeers, MapTyped
  <1> HIDE DEF n
  <1>5. /\ n.me = v.me /\ n.open = v.open /\ n.room = v.room /\ n.roomId = v.roomId /\ n.things = x
        /\ n.display = v.display
    BY <1>3, <1>4 DEF MapTyped
  <1>6. MapTyped(n)
    BY <1>3, <1>4, <1>5 DEF MapTyped
  <1>7. Looked(n)
    BY <1>4, <1>5, LookedBefore DEF Looked
  <1>8. /\ MapTyped(w) /\ IsDrawn(w) /\ Looked(w)
        /\ w.peers = n.peers /\ w.me = n.me /\ w.open = n.open /\ w.room = n.room /\ w.things = n.things
    BY <1>1, <1>6, <1>7, DrawnMap
  <1>9. PeersHeard(m, v, w)
    BY <1>4, <1>8, HeardPeers
  <1>10. \A p \in Somebody, o \in ObjectId : <<p, o>> \in x <=> <<p, o>> \in v.things /\ p = Local
    BY DEF x, Of
  <1>11. \A p \in Somebody, o \in ObjectId : m \notin Gives(p, o) /\ (m \in Touches(p, o) <=> p # Local)
    BY DEF Gives, Touches, Goes
  <1>12. m \notin Configs
    BY DEF Configs
  <1> QED
    BY <1>5, <1>8, <1>9, <1>10, <1>11, <1>12 DEF MapHeard, Sets

LEMMA MapHearsConnected ==
    ASSUME NEW v, Good(v), MapTyped(v), Looked(v), NEW m \in Message, m.is = "PeerConnected",
           NEW w, w = MapUpdate(v, m)
    PROVE  /\ MapTyped(w) /\ Looked(w) /\ MapHeard(m, v, w)
           /\ w.me = v.me /\ w.open = v.open /\ w.room = v.room
           /\ w.display = v.display /\ w.things = v.things
           /\ w.keys[m.key] = m.peer
           /\ \A k \in DOMAIN w.keys \ {m.key} : k \in DOMAIN v.keys /\ w.keys[k] = v.keys[k]
  <1> DEFINE a == Insert(v, m.peer, m.key, m.room, v.room)
  <1>1. w = UpdatePeers(a)
    BY DEF MapUpdate
  <1>2. m.peer \in PeerId /\ m.key \in PublicKey /\ m.room \in StableId
    BY DEF Message
  <1>3. Good(a)
    BY <1>2, InsertGood
  <1>4. /\ DOMAIN a = DOMAIN v /\ \A f \in DOMAIN v \ {"peers", "keys"} : a[f] = v[f]
        /\ a.peers[m.peer] # None /\ a.peers[m.peer].key = m.key /\ a.peers[m.peer].room = m.room
        /\ \A q \in PeerId \ {m.peer} :
             a.peers[q] = IF v.peers[q] # None /\ v.peers[q].key = m.key THEN None ELSE v.peers[q]
        /\ m.key \in DOMAIN a.keys /\ a.keys[m.key] = m.peer
        /\ \A k \in DOMAIN a.keys \ {m.key} : k \in DOMAIN v.keys /\ a.keys[k] = v.keys[k]
    BY <1>2, InsertPeers
  <1> HIDE DEF a
  <1>5. /\ a.me = v.me /\ a.open = v.open /\ a.room = v.room /\ a.roomId = v.roomId
        /\ a.things = v.things /\ a.display = v.display
    BY <1>4 DEF MapTyped
  <1>6. MapTyped(a)
    BY <1>4, <1>5 DEF MapTyped
  <1>7. /\ MapTyped(w) /\ Looked(w)
        /\ w.peers = a.peers /\ w.keys = a.keys /\ w.me = a.me /\ w.open = a.open
        /\ w.room = a.room /\ w.things = a.things /\ w.display = a.display
    BY <1>1, <1>3, <1>6, UpdatedMap
  <1>8. PeersHeard(m, v, w)
    BY <1>4, <1>7, HeardPeers
  <1>9. \A p \in Somebody, o \in ObjectId : m \notin Gives(p, o) /\ m \notin Touches(p, o)
    BY DEF Gives, Touches, Goes
  <1>10. m \notin Configs
    BY DEF Configs
  <1> QED
    BY <1>4, <1>5, <1>7, <1>8, <1>9, <1>10 DEF MapHeard, Sets

LEMMA MapHearsDisconnect ==
    ASSUME NEW v, Good(v), MapTyped(v), Looked(v), NEW m \in Message, m.is = "PeerDisconnect",
           NEW w, w = MapUpdate(v, m)
    PROVE  /\ MapTyped(w) /\ Looked(w) /\ MapHeard(m, v, w)
           /\ w.me = v.me /\ w.open = v.open /\ w.room = v.room
           /\ w.display = v.display /\ w.things = v.things \ Of(m.peer)
           /\ \A k \in DOMAIN w.keys : k \in DOMAIN v.keys /\ w.keys[k] = v.keys[k]
  <1> DEFINE x == v.things \ Of(m.peer)
             a == [v EXCEPT !.things = x]
             n == Remove(a, m.peer)
  <1>1. w = UpdatePeers(n)
    BY DEF MapUpdate
  <1>2. m.peer \in PeerId /\ x \in SUBSET (Somebody \X ObjectId)
    BY DEF Message, MapTyped
  <1> HIDE DEF x
  <1>3. /\ MapTyped(a)
        /\ a.peers = v.peers /\ a.keys = v.keys /\ a.me = v.me /\ a.open = v.open
        /\ a.room = v.room /\ a.roomId = v.roomId /\ a.things = x /\ a.display = v.display
    BY <1>2, MapThings, SMTT(30)
  <1>14. Good(a)
    BY Beside
  <1> HIDE DEF a
  <1>4. /\ DOMAIN n = DOMAIN a /\ \A f \in DOMAIN a \ {"peers", "keys"} : n[f] = a[f]
        /\ n.peers[m.peer] = None
        /\ \A q \in PeerId \ {m.peer} : n.peers[q] = a.peers[q]
        /\ \A k \in DOMAIN n.keys : k \in DOMAIN a.keys /\ n.keys[k] = a.keys[k]
    BY <1>2, <1>14, RemovePeers
  <1>5. Good(n)
    BY <1>2, <1>14, RemoveGood
  <1> HIDE DEF n
  <1>6. /\ n.me = v.me /\ n.open = v.open /\ n.room = v.room /\ n.roomId = v.roomId /\ n.things = x
        /\ n.display = v.display
    BY <1>3, <1>4 DEF MapTyped
  <1>7. MapTyped(n)
    BY <1>3, <1>4, <1>6 DEF MapTyped
  <1>8. /\ MapTyped(w) /\ Looked(w)
        /\ w.peers = n.peers /\ w.keys = n.keys /\ w.me = n.me /\ w.open = n.open
        /\ w.room = n.room /\ w.things = n.things /\ w.display = n.display
    BY <1>1, <1>5, <1>7, UpdatedMap
  <1>9. PeersHeard(m, v, w)
    BY <1>3, <1>4, <1>8, HeardPeers
  <1>10. \A p \in Somebody, o \in ObjectId : <<p, o>> \in x <=> <<p, o>> \in v.things /\ p # m.peer
    BY DEF x, Of
  <1>11. \A p \in Somebody, o \in ObjectId : m \notin Gives(p, o) /\ (m \in Touches(p, o) <=> p = m.peer)
    BY <1>2, ZeroIsNowhere DEF Gives, Touches, Goes
  <1>12. m \notin Configs
    BY DEF Configs
  <1>13. MapHeard(m, v, w)
    BY <1>6, <1>8, <1>9, <1>10, <1>11, <1>12 DEF MapHeard, Sets
  <1> QED
    BY <1>3, <1>4, <1>6, <1>8, <1>13 DEF x

LEMMA MapHearsUpdate ==
    ASSUME NEW v, Good(v), MapTyped(v), Looked(v), NEW m \in Message, m.is = "PeerUpdate",
           NEW w, w = MapUpdate(v, m)
    PROVE  /\ MapTyped(w) /\ Looked(w) /\ MapHeard(m, v, w)
           /\ w.me = v.me /\ w.open = v.open /\ w.room = v.room
           /\ w.display = v.display /\ w.things = v.things /\ w.keys = v.keys
  <1>1. m.peer \in PeerId /\ m.room \in StableId
    BY DEF Message
  <1>2. \A p \in Somebody, o \in ObjectId : m \notin Gives(p, o) /\ m \notin Touches(p, o)
    BY DEF Gives, Touches, Goes
  <1>3. m \notin Configs
    BY DEF Configs
  <1>4. CASE v.peers[m.peer] = None
    <2>1. w = v
      BY <1>4 DEF MapUpdate
    <2>2. PeersHeard(m, v, w)
      BY <1>4, <2>1, HeardPeers
    <2> QED
      BY <1>2, <1>3, <2>1, <2>2 DEF MapHeard, Sets
  <1>5. CASE v.peers[m.peer] # None
    <2> DEFINE a == [v EXCEPT !.peers[m.peer].room = m.room, !.peers[m.peer].here = (m.room = v.room)]
    <2>1. w = UpdatePeers(a)
      BY <1>5 DEF MapUpdate
    <2>2. Good(a)
      BY <1>1, <1>5, MovedGood
    <2>8. a = Placed(v, m.peer, m.room, v.room)
      BY DEF Placed
    <2> HIDE DEF a
    <2>3. /\ DOMAIN a = DOMAIN v /\ \A f \in DOMAIN v \ {"peers"} : a[f] = v[f]
          /\ a.peers[m.peer] # None /\ a.peers[m.peer].key = v.peers[m.peer].key
          /\ a.peers[m.peer].room = m.room
          /\ \A q \in PeerId \ {m.peer} : a.peers[q] = v.peers[q]
      BY <1>1, <1>5, <2>8, PlacedPeers
    <2>4. /\ a.me = v.me /\ a.open = v.open /\ a.room = v.room /\ a.roomId = v.roomId
          /\ a.things = v.things /\ a.display = v.display /\ a.keys = v.keys
      BY <2>3 DEF MapTyped
    <2>5. MapTyped(a)
      BY <2>3, <2>4 DEF MapTyped
    <2>6. /\ MapTyped(w) /\ Looked(w)
          /\ w.peers = a.peers /\ w.keys = a.keys /\ w.me = a.me /\ w.open = a.open
          /\ w.room = a.room /\ w.things = a.things /\ w.display = a.display
      BY <2>1, <2>2, <2>5, UpdatedMap
    <2>7. PeersHeard(m, v, w)
      BY <1>5, <2>3, <2>6, HeardPeers
    <2> QED
      BY <1>2, <1>3, <2>4, <2>6, <2>7 DEF MapHeard, Sets
  <1> QED
    BY <1>4, <1>5

(* A snapshot of a peer's objects, or that it left, in the Map. *)
Joined(v, m) ==
    IF m.is = "PeerJoin" THEN v.things \cup ({m.peer} \X m.things) ELSE v.things \ ({m.peer} \X Token)

LEMMA MapHearsJoin ==
    ASSUME NEW v, Good(v), MapTyped(v), Looked(v), NEW m \in Message, m.is \in {"PeerJoin", "PeerLeave"},
           NEW w, w = MapUpdate(v, m)
    PROVE  /\ MapTyped(w) /\ Looked(w) /\ MapHeard(m, v, w)
           /\ w.me = v.me /\ w.open = v.open /\ w.room = v.room
           /\ w.display = v.display /\ w.keys = v.keys
           /\ w.things = Joined(v, m)
  <1> DEFINE x == Joined(v, m)
  <1>1. m.peer \in PeerId /\ (m.is = "PeerJoin" => m.things \subseteq ObjectId /\ Token \subseteq m.things)
    BY DEF Message
  <1>2. w = [v EXCEPT !.things = x]
    BY DEF MapUpdate, Joined
  <1>3. x \in SUBSET (Somebody \X ObjectId)
    BY <1>1 DEF MapTyped, Somebody, Joined
  <1>4. \A p \in Somebody, o \in ObjectId :
            /\ m.is = "PeerJoin" => (<<p, o>> \in x <=> <<p, o>> \in v.things \/ (p = m.peer /\ o \in m.things))
            /\ m.is = "PeerLeave" => (<<p, o>> \in x <=> <<p, o>> \in v.things /\ ~(p = m.peer /\ o \in Token))
    BY DEF Joined
  <1>5. w.things = x
    BY <1>2 DEF MapTyped
  <1> HIDE DEF x
  <1>6. /\ MapTyped(w) /\ Looked(w)
        /\ w.peers = v.peers /\ w.keys = v.keys /\ w.me = v.me /\ w.open = v.open
        /\ w.room = v.room /\ w.things = x /\ w.display = v.display
    BY <1>2, <1>3, MapThings
  <1>7. PeersHeard(m, v, w)
    BY <1>6, HeardPeers DEF Alike
  <1>8. \A p \in Somebody, o \in ObjectId :
            /\ m \in Gives(p, o) <=> m.is = "PeerJoin" /\ p = m.peer /\ o \in m.things
            /\ m \in Touches(p, o) <=> p = m.peer /\ o \in Token
    BY DEF Gives, Touches, Goes
  <1>9. m \notin Configs
    BY DEF Configs
  <1>10. MapHeard(m, v, w)
    BY <1>1, <1>4, <1>6, <1>7, <1>8, <1>9 DEF MapHeard, Sets
  <1> QED
    BY <1>6, <1>10 DEF x

LEMMA MapHearsObject ==
    ASSUME NEW v, Good(v), MapTyped(v), Looked(v), NEW m \in Message, m.is \in {"ObjectCreated", "ObjectRemoved"},
           NEW w, w = MapUpdate(v, m)
    PROVE  /\ MapTyped(w) /\ Looked(w) /\ IsDrawn(w) /\ MapHeard(m, v, w)
           /\ w.me = v.me /\ w.open = v.open
  <1> DEFINE x == IF m.is = "ObjectCreated" THEN v.things \cup {<<m.peer, m.object>>}
                  ELSE v.things \ {<<m.peer, m.object>>}
             a == [v EXCEPT !.things = x]
  <1>1. m.peer \in Somebody /\ m.object \in ObjectId
    BY DEF Message, Somebody
  <1>2. w = Drawn(a)
    BY DEF MapUpdate
  <1>3. x \in SUBSET (Somebody \X ObjectId)
    BY <1>1 DEF MapTyped
  <1>4. \A p \in Somebody, o \in ObjectId :
            /\ m.is = "ObjectCreated" => (<<p, o>> \in x <=> <<p, o>> \in v.things \/ (p = m.peer /\ o = m.object))
            /\ m.is = "ObjectRemoved" => (<<p, o>> \in x <=> <<p, o>> \in v.things /\ ~(p = m.peer /\ o = m.object))
    OBVIOUS
  <1> HIDE DEF x
  <1>5. /\ MapTyped(a) /\ Looked(a)
        /\ a.peers = v.peers /\ a.keys = v.keys /\ a.me = v.me /\ a.open = v.open
        /\ a.room = v.room /\ a.things = x /\ a.display = v.display
    BY <1>3, MapThings
  <1> HIDE DEF a
  <1>6. /\ MapTyped(w) /\ IsDrawn(w) /\ Looked(w)
        /\ w.peers = v.peers /\ w.me = v.me /\ w.open = v.open /\ w.room = v.room /\ w.things = x
    BY <1>2, <1>5, DrawnMap
  <1>7. PeersHeard(m, v, w)
    BY <1>6, HeardPeers DEF Alike
  <1>8. \A p \in Somebody, o \in ObjectId :
            /\ m \in Gives(p, o) <=> m.is = "ObjectCreated" /\ p = m.peer /\ o = m.object
            /\ m \in Touches(p, o) <=> p = m.peer /\ o = m.object
    BY DEF Gives, Touches, Goes
  <1>9. m \notin Configs
    BY DEF Configs
  <1>10. MapHeard(m, v, w)
    BY <1>4, <1>6, <1>7, <1>8, <1>9 DEF MapHeard, Sets
  <1> QED
    BY <1>6, <1>10

LEMMA MapHearsConfig ==
    ASSUME NEW v, Good(v), MapTyped(v), Looked(v), NEW m \in Message, m.is = "Config",
           NEW w, w = MapConfig(v, m.room)
    PROVE  /\ MapTyped(w) /\ Looked(w) /\ MapHeard(m, v, w)
           /\ w.me = v.me /\ w.open = v.open
           /\ w = v \/ IsDrawn(w)
  <1>1. \A p \in Somebody, o \in ObjectId : m \notin Gives(p, o) /\ m \notin Touches(p, o)
    BY DEF Gives, Touches, Goes
  <1>2. m \in Configs /\ m.room \in StableId /\ \A its : m \in Sets(its) <=> its = m.room
    BY DEF Configs, Message, Sets
  <1>3. CASE v.room = m.room
    <2>1. w = v
      BY <1>3 DEF MapConfig
    <2>2. PeersHeard(m, v, w)
      BY <2>1, HeardPeers DEF Alike
    <2> QED
      BY <1>1, <1>2, <1>3, <2>1, <2>2 DEF MapHeard
  <1>4. CASE v.room # m.room
    <2> DEFINE ps == [p \in PeerId |-> IF v.peers[p] = None THEN None
                                       ELSE [v.peers[p] EXCEPT !.here = (v.peers[p].room = m.room)]]
               a == [v EXCEPT !.room = m.room, !.peers = ps]
               u == UpdatePeers(a)
    <2>1. w = Drawn(u)
      BY <1>4 DEF MapConfig
    <2>2. \A p \in PeerId :
            /\ (ps[p] = None) <=> (v.peers[p] = None)
            /\ v.peers[p] # None => ps[p] \in KnownPeer /\ ps[p].key = v.peers[p].key /\ ps[p].room = v.peers[p].room
      <3> SUFFICES ASSUME NEW p \in PeerId
                   PROVE  /\ (ps[p] = None) <=> (v.peers[p] = None)
                          /\ v.peers[p] # None =>
                                ps[p] \in KnownPeer /\ ps[p].key = v.peers[p].key /\ ps[p].room = v.peers[p].room
        OBVIOUS
      <3> DEFINE k == v.peers[p]
                 new == [k EXCEPT !.here = (k.room = m.room)]
      <3>1. CASE k = None
        BY <3>1
      <3>2. CASE k # None
        <4>1. k \in KnownPeer
          BY <3>2 DEF Good, Fields
        <4>2. new \in KnownPeer
          <5>1. \A b \in BOOLEAN : [k EXCEPT !.here = b] \in KnownPeer
            BY <4>1 DEF KnownPeer
          <5>2. (k.room = m.room) \in BOOLEAN
            OBVIOUS
          <5> QED
            BY <5>1, <5>2, Zenon
        <4>3. new.key = k.key /\ new.room = k.room
          BY <4>1 DEF KnownPeer
        <4>4. ps[p] = new
          BY <3>2
        <4> QED
          BY <3>2, <4>2, <4>3, <4>4, NoneAssumption, Zenon
      <3> QED
        BY <3>1, <3>2
    <2>3. ps = [p \in PeerId |-> ps[p]]
      OBVIOUS
    <2> HIDE DEF ps
    <2>4. /\ a.peers = ps /\ a.room = m.room /\ DOMAIN a = DOMAIN v
          /\ \A f \in DOMAIN v \ {"room", "peers"} : a[f] = v[f]
      BY DEF MapTyped
    <2> HIDE DEF a
    <2>5. /\ a.me = v.me /\ a.open = v.open /\ a.roomId = v.roomId /\ a.things = v.things
          /\ a.display = v.display /\ a.keys = v.keys
      BY <2>4 DEF MapTyped
    <2>6. MapTyped(a)
      BY <1>2, <2>4, <2>5 DEF MapTyped
    <2>7. Good(a)
      <3>1. Fields(a)
        BY <2>2, <2>3, <2>4, <2>5 DEF Good, Fields
      <3>2. Paired(a)
        <4>1. \A k \in DOMAIN v.keys : v.keys[k] \in PeerId
          BY DEF Good, Fields, Keys
        <4> QED
          BY <2>2, <2>4, <2>5, <4>1 DEF Good, Paired
      <3> QED
        BY <3>1, <3>2 DEF Good
    <2>8. /\ MapTyped(u) /\ Looked(u)
          /\ u.peers = ps /\ u.me = v.me /\ u.open = v.open /\ u.room = m.room /\ u.things = v.things
      BY <2>4, <2>5, <2>6, <2>7, UpdatedMap
    <2> HIDE DEF u
    <2>9. /\ MapTyped(w) /\ IsDrawn(w) /\ Looked(w)
          /\ w.peers = ps /\ w.me = v.me /\ w.open = v.open /\ w.room = m.room /\ w.things = v.things
      BY <2>1, <2>8, DrawnMap
    <2>10. PeersHeard(m, v, w)
      BY <2>2, <2>9, HeardPeers DEF Alike
    <2> QED
      BY <1>1, <1>2, <2>9, <2>10 DEF MapHeard
  <1> QED
    BY <1>3, <1>4

Hears(v, m) == IF m.is = "Config" THEN MapConfig(v, m.room) ELSE MapUpdate(v, m)

LEMMA MapHears ==
    ASSUME NEW v, Good(v), MapTyped(v), Looked(v), NEW m \in Message, NEW w, w = Hears(v, m)
    PROVE  MapTyped(w) /\ Looked(w) /\ MapHeard(m, v, w) /\ w.me = v.me /\ w.open = v.open
  <1>1. m.is # "Config" => w = MapUpdate(v, m)
    BY DEF Hears
  <1>2. m.is = "Config" => w = MapConfig(v, m.room)
    BY DEF Hears
  <1>3. CASE m.is = "Config"
    BY <1>2, <1>3, MapHearsConfig
  <1>4. CASE m.is = "RemoteLost"
    BY <1>1, <1>4, MapHearsLost
  <1>5. CASE m.is = "PeerConnected"
    BY <1>1, <1>5, MapHearsConnected
  <1>6. CASE m.is = "PeerDisconnect"
    BY <1>1, <1>6, MapHearsDisconnect
  <1>7. CASE m.is = "PeerUpdate"
    BY <1>1, <1>7, MapHearsUpdate
  <1>8. CASE m.is \in {"PeerJoin", "PeerLeave"}
    <2>1. w = MapUpdate(v, m)
      BY <1>1, <1>8
    <2> QED
      BY <1>8, <2>1, MapHearsJoin
  <1>9. CASE m.is \in {"ObjectCreated", "ObjectRemoved"}
    <2>1. w = MapUpdate(v, m)
      BY <1>1, <1>9
    <2> QED
      BY <1>9, <2>1, MapHearsObject
  <1> QED
    BY <1>3, <1>4, <1>5, <1>6, <1>7, <1>8, <1>9 DEF Message

(* The room that is drawn stays the one that is looked up, though not every message draws:
   a peer that comes has no rooms yet, and a snapshot of its objects has the same ones. *)
LEMMA MapStaysPainted ==
    ASSUME NEW b \in Seq(Message), b # <<>>, NEW t, NEW mi, NEW r, NEW E,
           \A p \in PeerId : t[p] # None => t[p].key \in PublicKey,
           Told(b, t, mi, r), NEW v, Good(v), MapTyped(v), Looked(v),
           MapFollows(b, t, mi, r, E, v), Painted(b, E, v), NEW m, m = Head(b), NEW w, w = Hears(v, m)
    PROVE  Painted(Tail(b), E, w)
  <1> DEFINE c == Tail(b)
  <1>1. m \in Message
    BY HeardFirst
  <1>2. MapTyped(w) /\ Looked(w) /\ MapHeard(m, v, w) /\ w.me = v.me /\ w.open = v.open
    BY <1>1, MapHears
  <1>3. MapFollows(c, t, mi, r, E, w)
    BY <1>2, MapFollowsTail
  <1>4. \A p \in Somebody, o \in ObjectId :
            /\ m \in Gives(p, o) /\ Quiet(c, Touches(p, o)) => Has(t, mi, p, o)
            /\ m \in Takes(p, o) /\ Quiet(c, Touches(p, o)) => ~Has(t, mi, p, o)
    BY ToldHead
  <1>5. \A Y : Quiet(b, Y) <=> m \notin Y /\ Quiet(c, Y)
    BY QuietTail
  <1>6. Room \subseteq ObjectId /\ Room \cap Token = {}
    BY PeersAssumption DEF ObjectId
  <1> HIDE DEF c
  <1>7. IsDrawn(w) => Painted(c, E, w)
    BY <1>2, DrawnIsPainted
  <1>8. ASSUME w.display = v.display,
               \A p \in Somebody, o \in Room :
                /\ ToRemoteId(w, w.room) = <<p, o>> /\ <<p, o>> \in w.things
                /\ Quiet(c, Touches(p, o)) /\ <<p, o>> \notin E
                => /\ ToRemoteId(v, v.room) = <<p, o>> /\ <<p, o>> \in v.things
                   /\ m \notin Touches(p, o)
        PROVE  Painted(c, E, w)
    BY <1>5, <1>8 DEF Painted
  <1>9. CASE m.is \in {"RemoteLost", "ObjectCreated", "ObjectRemoved"}
    <2>1. IsDrawn(w)
      BY <1>1, <1>9, MapHearsLost, MapHearsObject DEF Hears
    <2> QED
      BY <1>7, <2>1 DEF c
  <1>10. CASE m.is = "Config"
    <2>1. w = v \/ IsDrawn(w)
      BY <1>1, <1>10, MapHearsConfig DEF Hears
    <2>2. \A p \in Somebody, o \in Room : m \notin Touches(p, o)
      BY <1>1, <1>10 DEF Touches, Goes
    <2> QED
      BY <1>7, <1>8, <2>1, <2>2 DEF c
  <1>11. CASE m.is = "PeerUpdate"
    <2>1. w.me = v.me /\ w.room = v.room /\ w.display = v.display /\ w.things = v.things /\ w.keys = v.keys
      BY <1>1, <1>11, MapHearsUpdate DEF Hears
    <2>2. \A p \in Somebody, o \in Room : m \notin Touches(p, o)
      BY <1>1, <1>11 DEF Touches, Goes
    <2> QED
      BY <1>8, <2>1, <2>2 DEF c, ToRemoteId
  <1>12. CASE m.is = "PeerDisconnect"
    <2>1. /\ w.me = v.me /\ w.room = v.room /\ w.display = v.display /\ w.things = v.things \ Of(m.peer)
          /\ \A k \in DOMAIN w.keys : k \in DOMAIN v.keys /\ w.keys[k] = v.keys[k]
      BY <1>1, <1>12, MapHearsDisconnect DEF Hears
    <2>2. \A p \in Somebody, o \in Room : <<p, o>> \in w.things => m \notin Touches(p, o)
      BY <1>1, <1>6, <1>12, <2>1 DEF Touches, Goes, Of
    <2>3. \A p \in Somebody, o \in Room : ToRemoteId(w, w.room) = <<p, o>> => ToRemoteId(v, v.room) = <<p, o>>
      BY <2>1, LookedBefore, ZeroIsNowhere
    <2> QED
      BY <1>8, <2>1, <2>2, <2>3 DEF c
  <1>13. CASE m.is \in {"PeerJoin", "PeerLeave"}
    <2>5. w = MapUpdate(v, m)
      BY <1>13 DEF Hears
    <2>1. /\ w.room = v.room /\ w.display = v.display /\ w.keys = v.keys
          /\ w.things = Joined(v, m)
      BY <1>1, <1>13, <2>5, MapHearsJoin
    <2>2. \A p \in Somebody, o \in Room : m \notin Touches(p, o)
      BY <1>1, <1>6, <1>13 DEF Touches, Goes
    <2>3. ASSUME NEW p \in Somebody, NEW o \in Room, <<p, o>> \in w.things, Quiet(c, Touches(p, o)), <<p, o>> \notin E
          PROVE  <<p, o>> \in v.things
      <3>1. CASE <<p, o>> \in v.things
        BY <3>1
      <3>2. CASE <<p, o>> \notin v.things
        <4>1. m.is = "PeerJoin" /\ p = m.peer /\ o \in m.things
          BY <1>13, <2>1, <2>3, <3>2 DEF Joined
        <4>2. m \in Gives(p, o)
          BY <1>1, <4>1 DEF Gives
        <4>3. Has(t, mi, p, o)
          BY <1>4, <1>6, <2>3, <4>2
        <4>4. Quiet(b, Touches(p, o))
          BY <1>5, <2>2, <2>3
        <4> QED
          BY <1>6, <2>3, <4>3, <4>4 DEF MapFollows
      <3> QED
        BY <3>1, <3>2
    <2>4. ToRemoteId(w, w.room) = ToRemoteId(v, v.room)
      BY <1>2, <2>1 DEF ToRemoteId
    <2> QED
      BY <1>8, <2>1, <2>2, <2>3, <2>4 DEF c
  <1>14. CASE m.is = "PeerConnected"
    <2>1. /\ w.room = v.room /\ w.display = v.display /\ w.things = v.things
          /\ w.keys[m.key] = m.peer
          /\ \A k \in DOMAIN w.keys \ {m.key} : k \in DOMAIN v.keys /\ w.keys[k] = v.keys[k]
      BY <1>1, <1>14, MapHearsConnected DEF Hears
    <2>2. \A p \in Somebody, o \in Room : m \notin Touches(p, o)
      BY <1>1, <1>14 DEF Touches, Goes
    <2>3. ASSUME NEW p \in Somebody, NEW o \in Room, ToRemoteId(w, w.room) = <<p, o>>,
                 <<p, o>> \in w.things, Quiet(c, Touches(p, o)), <<p, o>> \notin E
          PROVE  ToRemoteId(v, v.room) = <<p, o>>
      <3> DEFINE id == w.room
      <3>1. <<p, o>> # Zero
        BY ZeroIsNowhere
      <3>2. CASE id[1] # m.key \/ id[1] = w.me
        <4>1. ToRemoteId(v, id) = ToRemoteId(w, id)
          <5>1. CASE id[1] = w.me
            BY <1>2, <5>1 DEF ToRemoteId
          <5>2. CASE id[1] # m.key
            BY <1>2, <2>1, <2>3, <3>1, <5>2, LookedBefore
          <5> QED
            BY <3>2, <5>1, <5>2
        <4> QED
          BY <2>1, <2>3, <4>1
      <3>3. CASE id[1] = m.key /\ id[1] # w.me
        <4>1. p = m.peer
          BY <2>1, <2>3, <3>1, <3>3 DEF ToRemoteId
        <4>2. m \in Takes(p, o)
          BY <1>1, <1>14, <4>1 DEF Takes
        <4>3. ~Has(t, mi, p, o)
          BY <1>4, <1>6, <2>3, <4>2
        <4> QED
          BY <1>3, <1>6, <2>3, <4>3 DEF MapFollows
      <3> QED
        BY <3>2, <3>3
    <2> QED
      BY <1>8, <2>1, <2>2, <2>3 DEF c
  <1> QED
    BY <1>1, <1>9, <1>10, <1>11, <1>12, <1>13, <1>14 DEF Message

(* The peers of a snapshot. *)
LEMMA CopiedPeers ==
    ASSUME TableSound, NEW v, {"me", "peers", "keys"} \subseteq DOMAIN v, NEW here, NEW w, w = Copied(v, here)
    PROVE  /\ DOMAIN w = DOMAIN v /\ w.me = Me
           /\ \A f \in DOMAIN v \ {"me", "peers", "keys"} : w[f] = v[f]
           /\ \A p \in PeerId :
                /\ (w.peers[p] = None) <=> (table[p] = None)
                /\ table[p] # None => w.peers[p].key = table[p].key /\ w.peers[p].room = table[p].room
  <1>1. /\ DOMAIN w = DOMAIN v /\ w.me = Me
        /\ w.peers = [p \in PeerId |->
            IF table[p] = None THEN None
            ELSE [key |-> table[p].key, room |-> table[p].room, here |-> table[p].room = here]]
        /\ \A f \in DOMAIN v \ {"me", "peers", "keys"} : w[f] = v[f]
    BY DEF Copied
  <1> SUFFICES ASSUME NEW p \in PeerId
               PROVE  /\ (w.peers[p] = None) <=> (table[p] = None)
                      /\ table[p] # None =>
                          w.peers[p].key = table[p].key /\ w.peers[p].room = table[p].room
    BY <1>1
  <1> DEFINE info == [key |-> table[p].key, room |-> table[p].room, here |-> table[p].room = here]
  <1>2. w.peers[p] = IF table[p] = None THEN None ELSE info
    BY <1>1
  <1>3. ASSUME table[p] # None PROVE info # None
    <2>1. table[p] \in Info
      BY <1>3 DEF TableSound
    <2>2. \A x \in BOOLEAN : [key |-> table[p].key, room |-> table[p].room, here |-> x] \in KnownPeer
      BY <2>1 DEF Info, KnownPeer
    <2>3. (table[p].room = here) \in BOOLEAN
      OBVIOUS
    <2>4. info \in KnownPeer
      BY <2>2, <2>3, Zenon
    <2> QED
      BY <2>4, NoneAssumption, Zenon
  <1>4. info.key = table[p].key /\ info.room = table[p].room
    OBVIOUS
  <1> HIDE DEF info
  <1> QED
    BY <1>2, <1>3, <1>4

(* The snapshot. *)
LEMMA MapSnapshot ==
    ASSUME PInv, MapTyped(map), Looked(map), NEW w, w = Initialized(map), NEW b,
           NEW t, NEW mi, NEW r, NEW E, SamePeers(table, t),
           \A p \in PeerId, o \in ObjectId : <<p, o>> \notin E => (o \in t[p].things <=> o \in table[p].things),
           \A o \in ObjectId : Quiet(b, Touches(Local, o)) => (o \in mi <=> o \in mine),
           Quiet(b, Configs) => r = room
    PROVE  /\ MapTyped(w) /\ Looked(w) /\ IsDrawn(w) /\ w.me = Me
           /\ MapFollows(b, t, mi, r, E, w)
  <1> DEFINE k == Copied(map, map.room)
             a == [k EXCEPT !.room = room, !.things = AllThings]
             u == IF room = Zero THEN a ELSE UpdatePeers(a)
  <1>1. w = Drawn(u)
    BY DEF Initialized
  <1>2. Good(k)
    BY CopiedGood DEF PInv, Good, Fields
  <1>3. /\ DOMAIN k = DOMAIN map /\ k.me = Me
        /\ \A f \in DOMAIN map \ {"me", "peers", "keys"} : k[f] = map[f]
        /\ \A p \in PeerId :
            /\ (k.peers[p] = None) <=> (table[p] = None)
            /\ table[p] # None => k.peers[p].key = table[p].key /\ k.peers[p].room = table[p].room
    BY CopiedPeers DEF PInv, MapTyped
  <1> HIDE DEF k
  <1>4. \A p \in Connected : table[p].things \subseteq ObjectId /\ p \in PeerId
    BY DEF Connected, PInv, TableSound, Info
  <1>5. \A p, o : <<p, o>> \in AllThings <=>
            \/ p = Local /\ o \in mine
            \/ p \in Connected /\ o \in table[p].things
    <2> TAKE p, o
    <2>1. <<p, o>> \in {Local} \X mine <=> p = Local /\ o \in mine
      OBVIOUS
    <2>2. <<p, o>> \in UNION {{q} \X table[q].things : q \in Connected} <=>
            p \in Connected /\ o \in table[p].things
      OBVIOUS
    <2> QED
      BY <2>1, <2>2 DEF AllThings
  <1>6. AllThings \in SUBSET (Somebody \X ObjectId)
    BY <1>4 DEF AllThings, Somebody, PInv, OwnSound, ObjectId
  <1> HIDE DEF u
  <1>7. /\ a.room = room /\ a.things = AllThings /\ DOMAIN a = DOMAIN k
        /\ \A f \in DOMAIN k \ {"room", "things"} : a[f] = k[f]
    BY <1>3 DEF MapTyped
  <1>8. Good(a)
    BY <1>2, <1>7, SameGood DEF Good, Fields
  <1> HIDE DEF a
  <1>9. /\ a.me = Me /\ a.peers = k.peers /\ a.open = map.open /\ a.roomId = map.roomId
         /\ a.display = map.display
    BY <1>3, <1>7 DEF MapTyped
  <1>10. MapTyped(a)
    BY <1>3, <1>6, <1>7, <1>9 DEF MapTyped, PInv
  <1>11. MapTyped(u) /\ Looked(u) /\ u.me = Me /\ u.peers = a.peers /\ u.room = room /\ u.things = AllThings
    <2>1. CASE room = Zero
      <3>1. u = a
        BY <2>1 DEF u
      <3> QED
        BY <1>7, <1>9, <1>10, <2>1, <3>1 DEF Looked, ToRemoteId
    <2>2. CASE room # Zero
      <3>1. u = UpdatePeers(a)
        BY <2>2 DEF u
      <3> QED
        BY <1>7, <1>8, <1>9, <1>10, <3>1, UpdatedMap
    <2> QED
      BY <2>1, <2>2
  <1>12. /\ MapTyped(w) /\ IsDrawn(w) /\ Looked(w) /\ w.me = Me
         /\ w.peers = k.peers /\ w.room = room /\ w.things = AllThings
    BY <1>1, <1>9, <1>11, DrawnMap
  <1>13. PeersFollow(b, t, w)
    BY <1>3, <1>12 DEF PeersFollow, SamePeers
  <1>14. \A p \in Somebody, o \in ObjectId : <<p, o>> \in w.things <=> Has(table, mine, p, o)
    BY <1>5, <1>12, ZeroIsNowhere DEF Has, Connected, Somebody
  <1>15. ASSUME NEW p \in Somebody, NEW o \in ObjectId, Quiet(b, Touches(p, o)), <<p, o>> \notin E
         PROVE  Has(table, mine, p, o) <=> Has(t, mi, p, o)
    BY <1>15 DEF Has, SamePeers, Somebody
  <1> QED
    BY <1>12, <1>13, <1>14, <1>15 DEF MapFollows
-----------------------------------------------------------------------------
(* The backend as it has told of itself: what is still to be told of is as it was, or as
   some snapshot had it. *)
Owed == {x \in PeerId \X ObjectId : telling["client"] = Removed(x[1], x[2])}

TableTold(t) ==
    \/ t = table
    \/ \E p \in PeerId, o \in ObjectId :
        telling["client"] = Removed(p, o) /\ t = [table EXCEPT ![p].things = @ \cup {o}]

Untold == {o \in Room : \E h \in Handler : telling[h] \in {Created(o), Removed(Local, o)}}

MineTold(c, mi) ==
    mi \subseteq Room /\ \A o \in Room \ (Untold \cup astray[c]) : o \in mi <=> o \in mine

RoomTold(r) == ~off /\ (\A h \in Handler : telling[h] \notin Setting) => r = room

LEMMA TableToldIs ==
    ASSUME Honest, NEW t, TableTold(t)
    PROVE  /\ SamePeers(table, t) /\ SamePeers(t, table)
           /\ \A p \in PeerId : t[p] # None => t[p].key \in PublicKey
           /\ \A p \in PeerId, o \in ObjectId :
                <<p, o>> \notin Owed => (o \in t[p].things <=> o \in table[p].things)
           /\ \A p \in PeerId, o \in ObjectId : o \in table[p].things => o \in t[p].things
           /\ telling["client"] \notin Thing => t = table /\ Owed = {}
           /\ \A p, o : <<p, o>> \in Owed <=> p \in PeerId /\ o \in ObjectId /\ telling["client"] = Removed(p, o)
  <1>1. table \in [PeerId -> Info \cup {None}] /\ \A p \in PeerId : table[p] # None => table[p].key \in PublicKey
    BY DEF Honest, PInv, TableSound, Info
  <1>2. telling["client"] \notin Thing => t = table /\ Owed = {}
    <2> SUFFICES ASSUME telling["client"] \notin Thing PROVE t = table /\ Owed = {}
      OBVIOUS
    <2>1. \A p \in PeerId, o \in ObjectId : telling["client"] # Removed(p, o)
      BY ThingsAre
    <2> QED
      BY <2>1 DEF TableTold, Owed
  <1>3. \A p, o : <<p, o>> \in Owed <=> p \in PeerId /\ o \in ObjectId /\ telling["client"] = Removed(p, o)
    BY DEF Owed
  <1>4. CASE t = table
    BY <1>1, <1>2, <1>3, <1>4 DEF SamePeers
  <1>5. CASE t # table
    <2>1. PICK q \in PeerId, x \in ObjectId :
            telling["client"] = Removed(q, x) /\ t = [table EXCEPT ![q].things = table[q].things \cup {x}]
      BY <1>5 DEF TableTold
    <2>2. table[q] # None
      <3>1. telling["client"] \in Thing
        BY <2>1, ThingsAre
      <3>2. PICK p \in PeerId, o \in ObjectId : telling["client"] = Removed(p, o) /\ table[p] # None
        BY <3>1 DEF Honest, ClientSound
      <3>3. Removed(p, o) = Removed(q, x)
        BY <2>1, <3>2, Zenon
      <3>4. p = q
        BY <3>3, ThingsAre
      <3> QED
        BY <3>2, <3>4
    <2>3. table[q] \in Info
      BY <1>1, <2>2
    <2> DEFINE new == [table[q] EXCEPT !.things = table[q].things \cup {x}]
    <2>4. /\ new.key = table[q].key /\ new.room = table[q].room /\ new.things = table[q].things \cup {x}
          /\ new # None
      <3>1. new.key = table[q].key /\ new.room = table[q].room /\ new.things = table[q].things \cup {x}
        BY <2>3 DEF Info
      <3>2. new \in Info
        BY <2>3 DEF Info
      <3> QED
        BY <3>1, <3>2, NoneAssumption
    <2>5. t[q] = new /\ \A p \in PeerId \ {q} : t[p] = table[p]
      BY <1>1, <2>1
    <2> HIDE DEF new
    <2>6. SamePeers(table, t) /\ SamePeers(t, table)
      BY <2>2, <2>4, <2>5 DEF SamePeers
    <2>7. \A p \in PeerId : t[p] # None => t[p].key \in PublicKey
      BY <1>1, <2>2, <2>4, <2>5
    <2>8. <<q, x>> \in Owed
      BY <1>3, <2>1
    <2>9. \A p \in PeerId, o \in ObjectId :
            /\ o \in table[p].things => o \in t[p].things
            /\ <<p, o>> # <<q, x>> => (o \in t[p].things <=> o \in table[p].things)
      BY <2>4, <2>5
    <2> QED
      BY <1>2, <1>3, <2>6, <2>7, <2>8, <2>9
  <1> QED
    BY <1>4, <1>5

(* What is done in silence leaves what was told as it is. *)
LEMMA SilentStep ==
    ASSUME Honest, Silent, NEW t, TableTold(t), NEW c \in {"map", "rooms"}, NEW mi, MineTold(c, mi), NEW r
    PROVE  /\ TableTold(t)' /\ MineTold(c, mi)' /\ (RoomTold(r) => RoomTold(r)')
           /\ Owed \subseteq Owed' /\ bus' = bus /\ map' = map
  <1>0. /\ telling \in [Handler -> Thing \cup Setting \cup {None}] /\ "client" \in Handler
        /\ mine \subseteq made /\ made \subseteq Room /\ astray \in [{"map", "rooms"} -> SUBSET Room]
    BY DEF Honest, PInv, OwnSound, Handler
  <1>1. ASSUME telling'["client"] = telling["client"], table' = table
        PROVE  TableTold(t)' /\ Owed \subseteq Owed'
    BY <1>1 DEF TableTold, Owed
  <1>11. ASSUME NEW h, telling[h] = None, \A g \in Handler \ {h} : telling'[g] = telling[g]
         PROVE  Untold \subseteq Untold'
    <2>1. \A x \in Room : Created(x) # None /\ Removed(Local, x) # None
      BY ThingsAre DEF ObjectId
    <2> QED
      BY <1>11, <2>1 DEF Untold
  <1>2. ASSUME NEW p \in PeerId, NEW o \in ObjectId, ObjectRemoved(p, o)
        PROVE  /\ TableTold(t)' /\ MineTold(c, mi)' /\ (RoomTold(r) => RoomTold(r)')
               /\ Owed \subseteq Owed' /\ bus' = bus /\ map' = map
    <2>1. /\ telling' = [telling EXCEPT !["client"] = Removed(p, o)] /\ telling["client"] = None
          /\ table' = [table EXCEPT ![p].things = table[p].things \ {o}]
          /\ table[p] # None /\ o \in table[p].things
          /\ UNCHANGED <<mine, room, bus, map, off, astray>>
      BY <1>2 DEF ObjectRemoved, ClientFree, Removed, Connected, own, history
    <2>2. telling'["client"] = Removed(p, o) /\ \A h \in Handler \ {"client"} : telling'[h] = telling[h]
      BY <1>0, <2>1
    <2>3. t = table /\ Owed = {}
      BY <2>1, ThingsAre, TableToldIs
    <2>4. table \in [PeerId -> Info \cup {None}] /\ table[p] \in Info
      BY <2>1 DEF Honest, PInv, TableSound
    <2>5. table = [table' EXCEPT ![p].things = table'[p].things \cup {o}]
      <3> DEFINE new == [table[p] EXCEPT !.things = table[p].things \ {o}]
                 back == [new EXCEPT !.things = new.things \cup {o}]
      <3>1. table'[p] = new
        BY <2>1, <2>4
      <3>2. new.things = table[p].things \ {o}
        BY <2>4 DEF Info
      <3>3. new.things \cup {o} = table[p].things
        BY <2>1, <3>2
      <3>4. back = table[p]
        BY <2>4, <3>3 DEF Info
      <3> QED
        BY <2>1, <2>4, <3>1, <3>4
    <2>6. TableTold(t)'
      BY <2>2, <2>3, <2>5 DEF TableTold
    <2>7. Untold \subseteq Untold'
      BY <1>11, <2>1, <2>2
    <2>8. MineTold(c, mi)'
      BY <2>1, <2>7 DEF MineTold
    <2>9. RoomTold(r) => RoomTold(r)'
      BY <2>1, <2>2, Broadcasts DEF RoomTold
    <2> QED
      BY <2>1, <2>3, <2>6, <2>8, <2>9
  <1>3. CASE ClientClears
    <2>1. /\ telling' = [telling EXCEPT !["client"] = Config(Zero, "backend")] /\ telling["client"] = None
          /\ UNCHANGED <<mine, table, bus, map, off, astray>>
      BY <1>3 DEF ClientClears, own, history
    <2>2. telling'["client"] = Config(Zero, "backend") /\ \A h \in Handler \ {"client"} : telling'[h] = telling[h]
      BY <1>0, <2>1
    <2>3. t = table /\ Owed = {}
      BY <2>1, ThingsAre, TableToldIs
    <2>4. TableTold(t)'
      BY <2>1, <2>3 DEF TableTold
    <2>5. Untold \subseteq Untold'
      BY <1>11, <2>1, <2>2
    <2>6. MineTold(c, mi)'
      BY <2>1, <2>5 DEF MineTold
    <2>7. Config(Zero, "backend") \in Setting
      BY DEF Setting, Config, StableId
    <2>8. RoomTold(r)'
      BY <1>0, <2>2, <2>7 DEF RoomTold
    <2> QED
      BY <2>1, <2>3, <2>4, <2>6, <2>8
  <1>4. ASSUME NEW h \in Handler \ {"client"}, NEW s \in StableId, NEW from \in {"backend", "other", "rooms"},
               telling[h] = None, telling' = [telling EXCEPT ![h] = Config(s, from)],
               UNCHANGED <<table, mine, bus, map, off, astray>>
        PROVE  /\ TableTold(t)' /\ MineTold(c, mi)' /\ RoomTold(r)'
               /\ Owed \subseteq Owed' /\ bus' = bus /\ map' = map
    <2>1. telling'[h] = Config(s, from) /\ \A g \in Handler \ {h} : telling'[g] = telling[g]
      BY <1>0, <1>4
    <2>2. Config(s, from) \in Setting
      BY DEF Setting, Config
    <2>3. RoomTold(r)'
      BY <1>4, <2>1, <2>2 DEF RoomTold
    <2>4. Untold \subseteq Untold'
      BY <1>11, <1>4, <2>1
    <2>5. MineTold(c, mi)'
      BY <1>4, <2>4 DEF MineTold
    <2> QED
      BY <1>0, <1>1, <1>4, <2>1, <2>3, <2>5
  <1>5. ASSUME NEW s \in SomeRoom, EnterElsewhere(s)
        PROVE  /\ TableTold(t)' /\ MineTold(c, mi)' /\ RoomTold(r)'
               /\ Owed \subseteq Owed' /\ bus' = bus /\ map' = map
    BY <1>4, <1>5, RoomsAreIds DEF EnterElsewhere, Asks, Handler, own, history, Honest
  <1>6. ASSUME NEW s \in StableId, Enter(s)
        PROVE  /\ TableTold(t)' /\ MineTold(c, mi)' /\ RoomTold(r)'
               /\ Owed \subseteq Owed' /\ bus' = bus /\ map' = map
    BY <1>4, <1>6 DEF Enter, Asks, Handler, own, history
  <1>7. ASSUME NEW h \in Handler \ {"client"}, NEW o \in Room,
               \A g \in Handler \ {h} : telling'[g] = telling[g],
               \A x \in Room : telling[h] \in {Created(x), Removed(Local, x)} => x \in Untold' \cup astray'[c],
               o \in Untold' \cup astray'[c], astray[c] \subseteq astray'[c],
               \A x \in Room \ {o} : x \in mine' <=> x \in mine
        PROVE  MineTold(c, mi)'
    <2>1. Untold \cup astray[c] \subseteq Untold' \cup astray'[c]
      BY <1>7 DEF Untold
    <2> QED
      BY <1>7, <2>1 DEF MineTold
  <1>8. ASSUME NEW h \in Handler, NEW o \in Room, CreateRoom(h, o)
        PROVE  /\ TableTold(t)' /\ MineTold(c, mi)' /\ (RoomTold(r) => RoomTold(r)')
               /\ Owed \subseteq Owed' /\ bus' = bus /\ map' = map
    <2>1. /\ telling' = [telling EXCEPT ![h] = Created(o)] /\ h # "client" /\ telling[h] = None
          /\ mine' = mine \cup {o} /\ UNCHANGED <<table, room, bus, map, off, astray>>
      BY <1>8 DEF CreateRoom, Created, Asks, history
    <2>2. telling'[h] = Created(o) /\ \A g \in Handler \ {h} : telling'[g] = telling[g]
      BY <1>0, <2>1
    <2>3. o \in Untold' /\ \A x \in Room : telling[h] \notin {Created(x), Removed(Local, x)}
      <3>1. o \in Untold'
        BY <2>2 DEF Untold
      <3>2. \A x \in Room : Created(x) # None /\ Removed(Local, x) # None
        BY ThingsAre DEF ObjectId
      <3> QED
        BY <2>1, <3>1, <3>2
    <2>4. MineTold(c, mi)'
      BY <1>7, <2>1, <2>2, <2>3
    <2>5. RoomTold(r) => RoomTold(r)'
      BY <2>1, <2>2, Broadcasts DEF RoomTold
    <2> QED
      BY <1>0, <1>1, <2>1, <2>2, <2>4, <2>5
  <1>9. ASSUME NEW h \in Handler, NEW o \in Room, CreateFails(h, o)
        PROVE  /\ TableTold(t)' /\ MineTold(c, mi)' /\ (RoomTold(r) => RoomTold(r)')
               /\ Owed \subseteq Owed' /\ bus' = bus /\ map' = map
    <2>1. /\ telling' = [telling EXCEPT ![h] = None] /\ telling[h] = Created(o)
          /\ UNCHANGED <<table, mine, room, bus, map, off>> /\ Strays(o)
      BY <1>9 DEF CreateFails, Created, Creates, own
    <2>2. telling'[h] = None /\ \A g \in Handler \ {h} : telling'[g] = telling[g]
      BY <1>0, <2>1
    <2>3. h # "client" /\ Created(o) \in Thing
      BY <2>1, ThingsAre DEF Honest, ClientSound
    <2>4. o \in astray'[c] /\ astray[c] \subseteq astray'[c]
      BY <1>0, <2>1 DEF Strays
    <2>5. \A x \in Room : telling[h] \in {Created(x), Removed(Local, x)} => x = o
      BY <2>1, ThingsAre
    <2>6. MineTold(c, mi)'
      BY <1>7, <2>1, <2>2, <2>3, <2>4, <2>5
    <2>7. RoomTold(r) => RoomTold(r)'
      BY <2>1, <2>2, <2>3, Broadcasts DEF RoomTold
    <2> QED
      BY <1>0, <1>1, <2>1, <2>2, <2>3, <2>6, <2>7
  <1>10. ASSUME NEW h \in Handler, NEW o \in Room, RemoveRoom(h, o)
        PROVE  /\ TableTold(t)' /\ MineTold(c, mi)' /\ (RoomTold(r) => RoomTold(r)')
               /\ Owed \subseteq Owed' /\ bus' = bus /\ map' = map
    <2>1. /\ telling' = [telling EXCEPT ![h] = Removed(Local, o)] /\ h # "client" /\ telling[h] = None
          /\ mine' = mine \ {o} /\ UNCHANGED <<table, bus, map>>
          /\ room' = (IF room = <<Me, o>> THEN Zero ELSE room)
          /\ off' = (off \/ room = <<Me, o>>)
          /\ IF Creates(o) = {} THEN astray' = astray ELSE Strays(o)
      BY <1>10 DEF RemoveRoom, Removed, Asks
    <2>2. telling'[h] = Removed(Local, o) /\ \A g \in Handler \ {h} : telling'[g] = telling[g]
      BY <1>0, <2>1
    <2>3. o \in Untold' /\ \A x \in Room : telling[h] \notin {Created(x), Removed(Local, x)}
      <3>1. o \in Untold'
        BY <2>2 DEF Untold
      <3>2. \A x \in Room : Created(x) # None /\ Removed(Local, x) # None
        BY ThingsAre DEF ObjectId
      <3> QED
        BY <2>1, <3>1, <3>2
    <2>4. astray[c] \subseteq astray'[c]
      BY <1>0, <2>1 DEF Strays
    <2>5. MineTold(c, mi)'
      BY <1>7, <2>1, <2>2, <2>3, <2>4
    <2>6. Removed(Local, o) \notin Setting
      BY ThingsAre, Broadcasts DEF ObjectId
    <2>7. RoomTold(r) => RoomTold(r)'
      BY <2>1, <2>2, Broadcasts DEF RoomTold
    <2> QED
      BY <1>0, <1>1, <2>1, <2>2, <2>5, <2>7
  <1> QED
    BY <1>2, <1>3, <1>5, <1>6, <1>8, <1>9, <1>10 DEF Silent


LEMMA SameLast ==
    ASSUME NEW b \in Seq(Message), NEW m \in Message, NEW n \in Message, b \o <<m>> = b \o <<n>>
    PROVE  m = n
  BY SaidLast

(* Who tells of what was done tells what its sender's backend is, and owes less. *)
Telling(c, t, mi, r, u, mk, q) ==
    /\ TableTold(u)' /\ MineTold(c, mk)' /\ (RoomTold(r) => RoomTold(q)')
    /\ map.open # "none" =>
        \E m \in Message :
            bus' = bus \o <<m>> /\ Happens(m, t, mi, r, u, mk, q) /\ Leaves(m, Owed, Owed')

LEMMA ToldIs ==
    ASSUME NEW m \in Message, NEW t, NEW mi, NEW r, NEW u, NEW mk, NEW q, bus \in Seq(Message),
           Saying(bus, t, mi, r, bus \o <<m>>, u, mk, q)
    PROVE  Happens(m, t, mi, r, u, mk, q)
  <1>1. PICK n \in Message : bus \o <<m>> = bus \o <<n>> /\ Happens(n, t, mi, r, u, mk, q)
    BY DEF Saying
  <1>2. m = n
    BY <1>1, SameLast
  <1> QED
    BY <1>1, <1>2

LEMMA TellStep ==
    ASSUME Honest, NEW h \in Handler, Tell(h), NEW t, TableTold(t),
           NEW c \in {"map", "rooms"}, NEW mi, MineTold(c, mi), NEW r
    PROVE  \E u, mk, q : Telling(c, t, mi, r, u, mk, q)
  <1> DEFINE m == telling[h]
  <1>0. /\ telling \in [Handler -> Thing \cup Setting \cup {None}] /\ "client" \in Handler
        /\ mine \subseteq made /\ made \subseteq Room /\ bus \in Seq(Message)
        /\ Local \notin PeerId /\ Room \subseteq ObjectId
    BY PeersAssumption DEF Honest, PInv, OwnSound, Handler, ObjectId
  <1>1. /\ m # None /\ telling' = [telling EXCEPT ![h] = None]
        /\ off' = IF m.is = "Config" THEN m.room # room ELSE off
        /\ UNCHANGED <<table, mine, room, map, astray>>
        /\ map.open # "none" => bus' = bus \o <<m>>
    BY DEF Tell, Say, own
  <1>2. telling'[h] = None /\ \A g \in Handler \ {h} : telling'[g] = telling[g]
    BY <1>0, <1>1
  <1>3. m \in Thing \cup Setting /\ telling[h] = m
    BY <1>0, <1>1
  <1>4. Thing \cup Setting \subseteq Message
    BY DEF Message, Thing, Setting
  <1> HIDE DEF m
  <1>5. /\ SamePeers(t, table)
        /\ \A p \in PeerId, o \in ObjectId :
                <<p, o>> \notin Owed => (o \in t[p].things <=> o \in table[p].things)
        /\ telling["client"] \notin Thing => t = table /\ Owed = {}
        /\ \A p, o : <<p, o>> \in Owed <=> p \in PeerId /\ o \in ObjectId /\ telling["client"] = Removed(p, o)
    BY TableToldIs
  <1>6. /\ \A o \in Room : Created(o) \in Thing
        /\ \A p \in PeerId \cup {Local}, o \in ObjectId : Removed(p, o) \in Thing
        /\ None \notin Thing /\ None \notin Setting
        /\ \A s \in Setting : s \notin Thing /\ s.is = "Config"
        /\ \A s \in Thing : s.is # "Config"
    BY ThingsAre, Broadcasts, NoneAssumption
  <1>7. h # "client" => Owed' = Owed /\ TableTold(t)'
    BY <1>0, <1>1, <1>2 DEF Owed, TableTold
  <1>8. CASE m \in Setting
    <2>1. PICK s \in StableId, from \in {"backend", "other", "rooms"} : m = Config(s, from)
      BY <1>8 DEF Setting, Config
    <2>2. Saying(bus, t, mi, r, bus \o <<m>>, t, mi, s)
      BY <2>1, ConfigHappens
    <2>3. Happens(m, t, mi, r, t, mi, s)
      BY <1>0, <1>4, <1>8, <2>2, ToldIs
    <2>4. Owed' = Owed /\ TableTold(t)'
      <3>1. CASE h = "client"
        <4>1. t = table /\ Owed = {}
          BY <1>3, <1>5, <1>6, <1>8, <3>1
        <4>2. \A p \in PeerId, o \in ObjectId : telling'["client"] # Removed(p, o)
          BY <1>2, <1>6, <3>1
        <4>3. Owed' = {}
          BY <4>2 DEF Owed
        <4> QED
          BY <1>1, <4>1, <4>3 DEF TableTold
      <3> QED
        BY <1>7, <3>1
    <2>5. Untold \subseteq Untold'
      <3>1. \A x \in Room : m # Created(x) /\ m # Removed(Local, x)
        BY <1>0, <1>6, <1>8
      <3> QED
        BY <1>2, <1>3, <3>1 DEF Untold
    <2>6. MineTold(c, mi)'
      BY <1>1, <2>5 DEF MineTold
    <2>7. RoomTold(s)'
      <3>1. m.room = s
        BY <2>1 DEF Config
      <3> QED
        BY <1>1, <1>6, <1>8, <3>1 DEF RoomTold
    <2>8. Leaves(m, Owed, Owed')
      BY <2>4 DEF Leaves
    <2>9. Telling(c, t, mi, r, t, mi, s)
      BY <1>1, <1>4, <1>8, <2>3, <2>4, <2>6, <2>7, <2>8 DEF Telling
    <2> QED
      BY <2>9
  <1>9. ASSUME m \in Thing
        PROVE  RoomTold(r) => RoomTold(r)'
    BY <1>1, <1>2, <1>3, <1>6, <1>9 DEF RoomTold
  <1>10. CASE m \in Thing /\ h = "client"
    <2>1. PICK p \in PeerId, o \in ObjectId : m = Removed(p, o) /\ table[p] # None /\ o \notin table[p].things
      BY <1>3, <1>10 DEF Honest, ClientSound
    <2>2. PICK u : u = table
      OBVIOUS
    <2>3. \A q \in PeerId, x \in ObjectId : <<q, x>> \in Owed => q = p /\ x = o
      <3> TAKE q \in PeerId, x \in ObjectId
      <3> HAVE <<q, x>> \in Owed
      <3>1. Removed(q, x) = Removed(p, o)
        BY <1>3, <1>5, <1>10, <2>1
      <3> QED
        BY <3>1, ThingsAre
    <2>4. Saying(bus, t, mi, r, bus \o <<m>>, u, mi, r)
      <3>1. t[p] # None
        BY <1>5, <2>1 DEF SamePeers
      <3>2. \A q \in PeerId, x \in ObjectId : q # p \/ x # o => (x \in u[q].things <=> x \in t[q].things)
        BY <1>5, <2>2, <2>3
      <3> QED
        BY <1>5, <2>1, <2>2, <3>1, <3>2, RemovedHappens
    <2>5. Happens(m, t, mi, r, u, mi, r)
      BY <1>0, <1>4, <1>10, <2>4, ToldIs
    <2>6. TableTold(u)'
      BY <1>1, <2>2 DEF TableTold
    <2>7. Untold \subseteq Untold'
      <3>1. \A x \in Room : m # Created(x) /\ m # Removed(Local, x)
        <4> TAKE x \in Room
        <4>1. p # Local
          BY <1>0
        <4>2. Removed(p, o) = Removed(Local, x) => p = Local
          BY ThingsAre
        <4>3. Created(x) # Removed(p, o)
          BY ThingsAre
        <4> QED
          BY <2>1, <4>1, <4>2, <4>3
      <3> QED
        BY <1>2, <1>3, <3>1 DEF Untold
    <2>8. MineTold(c, mi)'
      BY <1>1, <2>7 DEF MineTold
    <2>9. Leaves(m, Owed, Owed')
      <3>1. m \in Message /\ m.is = "ObjectRemoved" /\ m.peer = p /\ m.object = o
        BY <1>4, <1>10, <2>1 DEF Removed
      <3>2. m \in Touches(p, o)
        BY <3>1 DEF Touches
      <3>3. \A q, x : <<q, x>> \in Owed => q = p /\ x = o
        BY <1>5, <2>3
      <3> QED
        BY <3>2, <3>3 DEF Leaves
    <2>10. Telling(c, t, mi, r, u, mi, r)
      BY <1>1, <1>4, <1>9, <1>10, <2>5, <2>6, <2>8, <2>9 DEF Telling
    <2> QED
      BY <2>10
  <1>11. CASE m \in Thing /\ h # "client"
    <2>1. PICK o \in made :
            \/ m = Created(o) /\ (o \in mine \/ o \in astray[c])
            \/ m = Removed(Local, o) /\ o \notin mine
      BY <1>3, <1>11 DEF Honest, UserSound
    <2>2. o \in Room
      BY <1>0
    <2>3. PICK mk : mk = IF m = Created(o) THEN mi \cup {o} ELSE mi \ {o}
      OBVIOUS
    <2>4. m # Created(o) => m = Removed(Local, o) /\ o \notin mine
      BY <2>1
    <2>5. m = Created(o) => o \in mine \/ o \in astray[c]
      BY <2>1, ThingsAre
    <2>6. Saying(bus, t, mi, r, bus \o <<m>>, t, mk, r)
      BY <2>2, <2>3, <2>4, CreatedHappens
    <2>7. Happens(m, t, mi, r, t, mk, r)
      BY <1>0, <1>4, <1>11, <2>6, ToldIs
    <2>8. \A x \in Room : m = Created(x) \/ m = Removed(Local, x) => x = o
      <3> TAKE x \in Room
      <3>1. CASE m = Created(o)
        BY <3>1, ThingsAre
      <3>2. CASE m = Removed(Local, o)
        <4>1. Removed(Local, x) = Removed(Local, o) => x = o
          BY ThingsAre
        <4>2. Created(x) # Removed(Local, o)
          BY ThingsAre
        <4> QED
          BY <3>2, <4>1, <4>2
      <3> QED
        BY <2>4, <3>1, <3>2
    <2>9. Untold \ {o} \subseteq Untold'
      BY <1>2, <1>3, <2>8 DEF Untold
    <2>10. MineTold(c, mk)'
      BY <1>1, <2>2, <2>3, <2>4, <2>5, <2>9 DEF MineTold
    <2>11. Leaves(m, Owed, Owed')
      BY <1>7, <1>11 DEF Leaves
    <2>12. Telling(c, t, mi, r, t, mk, r)
      BY <1>1, <1>4, <1>7, <1>9, <1>11, <2>7, <2>10, <2>11 DEF Telling
    <2> QED
      BY <2>12
  <1> QED
    BY <1>3, <1>8, <1>10, <1>11

LEMMA AnnouncedKeeps ==
    ASSUME Announced
    PROVE  /\ UNCHANGED <<map, rooms, own, room, telling, off, astray>>
           /\ map.open = "none" => bus' = bus
           /\ bus' = bus \/ Len(bus') <= MaxBus
           /\ telling["client"] = None
  <1>1. ASSUME NEW ms, Say(ms), UNCHANGED <<own, room, telling, map, rooms, history>>, telling["client"] = None
        PROVE  /\ UNCHANGED <<map, rooms, own, room, telling, off, astray>>
               /\ map.open = "none" => bus' = bus
               /\ bus' = bus \/ Len(bus') <= MaxBus
               /\ telling["client"] = None
    BY <1>1 DEF Say, history
  <1> DEFINE Claim ==
               /\ UNCHANGED <<map, rooms, own, room, telling, off, astray>>
               /\ map.open = "none" => bus' = bus
               /\ bus' = bus \/ Len(bus') <= MaxBus
               /\ telling["client"] = None
  <1>2. ASSUME NEW p \in PeerId, NEW k \in PublicKey, NEW r \in SomeRoom, PeerConnected(p, k, r)
        PROVE  Claim
    BY <1>1, <1>2 DEF PeerConnected, ClientFree
  <1>3. ASSUME NEW p \in PeerId, NEW r \in SomeRoom, PeerUpdated(p, r)
        PROVE  Claim
    BY <1>1, <1>3 DEF PeerUpdated, ClientFree
  <1>4. ASSUME NEW p \in PeerId, NEW o \in ObjectId, ObjectCreated(p, o)
        PROVE  Claim
    BY <1>1, <1>4 DEF ObjectCreated, ClientFree
  <1>5. ASSUME NEW p \in PeerId, PeerJoin(p)
        PROVE  Claim
    BY <1>1, <1>5 DEF PeerJoin, ClientFree
  <1>6. ASSUME NEW p \in PeerId, PeerLeave(p)
        PROVE  Claim
    BY <1>1, <1>6 DEF PeerLeave, ClientFree
  <1>7. ASSUME NEW p \in PeerId, PeerDisconnect(p)
        PROVE  Claim
    BY <1>1, <1>7 DEF PeerDisconnect, ClientFree
  <1>8. ASSUME RemoteLost
        PROVE  Claim
    BY <1>1, <1>8 DEF RemoteLost
  <1> HIDE DEF Claim
  <1>9. Claim
    BY <1>2, <1>3, <1>4, <1>5, <1>6, <1>7, <1>8 DEF Announced
  <1> QED
    BY <1>9 DEF Claim

LEMMA AnnouncedStep ==
    ASSUME Honest, Announced, NEW t, TableTold(t),
           NEW c \in {"map", "rooms"}, NEW mi, MineTold(c, mi), NEW r
    PROVE  \E u, mk, q : Telling(c, t, mi, r, u, mk, q)
  <1>1. /\ UNCHANGED <<mine, room, telling, off, astray>> /\ telling["client"] = None
    BY AnnouncedKeeps DEF own
  <1>2. t = table /\ Owed = {}
    BY <1>1, ThingsAre, TableToldIs
  <1>3. PICK u : u = table'
    OBVIOUS
  <1>4. TableTold(u)'
    BY <1>3 DEF TableTold
  <1>5. Untold' = Untold
    BY <1>1 DEF Untold
  <1>6. MineTold(c, mi)'
    BY <1>1, <1>5 DEF MineTold
  <1>7. RoomTold(r) => RoomTold(r)'
    BY <1>1 DEF RoomTold
  <1>8. map.open # "none" => Saying(bus, t, mi, r, bus', u, mi, r)
    BY <1>2, <1>3, AnnouncedSays DEF Honest
  <1>9. \A m : Leaves(m, Owed, Owed')
    BY <1>2 DEF Leaves
  <1>10. Telling(c, t, mi, r, u, mi, r)
    BY <1>4, <1>6, <1>7, <1>8, <1>9 DEF Telling, Saying
  <1> QED
    BY <1>10

(* A snapshot tells of what is done, but for what older broadcasts still say otherwise. *)
KeptRooms(mi) ==
    {o \in Room : IF \E i \in 1..Len(bus) : bus[i] = Created(o) THEN o \in mi ELSE o \in mine}

KeptRoom(r) == IF Quiet(bus, Configs) THEN room ELSE r

LEMMA Retold ==
    ASSUME Honest, NEW t, NEW c \in {"map", "rooms"}, NEW mi, MineTold(c, mi), NEW r, Told(bus, t, mi, r),
           NEW mk, mk = KeptRooms(mi), NEW q, q = KeptRoom(r),
           UNCHANGED <<mine, telling>>, astray' = [astray EXCEPT ![c] = astray[c] \cap Late]
    PROVE  /\ Told(bus, t, mk, q) /\ Told(bus, t, mk, r) /\ MineTold(c, mk)'
           /\ \A o \in ObjectId : Quiet(bus, Touches(Local, o)) => (o \in mk <=> o \in mine)
           /\ Quiet(bus, Configs) => q = room
  <1>0. /\ mine \subseteq Room /\ Local \notin PeerId /\ bus \in Seq(Message) /\ Local \in Somebody
        /\ Room \subseteq ObjectId /\ Len(bus) \in Nat /\ \A i \in 1..Len(bus) : bus[i] \in Message
    <2>1. mine \subseteq Room /\ bus \in Seq(Message)
      BY DEF Honest, PInv, OwnSound
    <2>2. Len(bus) \in Nat /\ \A i \in 1..Len(bus) : bus[i] \in Message
      BY <2>1
    <2> QED
      BY <2>1, <2>2, PeersAssumption DEF ObjectId, Somebody
  <1>1. \A o \in ObjectId : o \in mk <=> o \in Room /\
            IF \E i \in 1..Len(bus) : bus[i] = Created(o) THEN o \in mi ELSE o \in mine
    BY DEF KeptRooms
  <1>2. \A o \in ObjectId, m \in Message : m \in Gives(Local, o) => m = Created(o)
    <2> TAKE o \in ObjectId, m \in Message
    <2> HAVE m \in Gives(Local, o)
    <2>1. m.is = "ObjectCreated" /\ m.peer = Local /\ m.object = o
      BY <1>0 DEF Gives, Message
    <2>2. m \in [is : {"ObjectCreated", "ObjectRemoved"}, peer : PeerId \cup {Local}, object : ObjectId]
      BY <2>1 DEF Message
    <2> QED
      BY <2>1, <2>2 DEF Created
  <1>3. \A o \in ObjectId, m \in Message : m \in Takes(Local, o) =>
            m.is = "ObjectRemoved" /\ m.peer = Local /\ m.object = o
    BY <1>0 DEF Takes, Message
  <1>4. \A o \in ObjectId : Quiet(bus, Touches(Local, o)) => ~\E i \in 1..Len(bus) : bus[i] = Created(o)
    <2> TAKE o \in ObjectId
    <2>1. Created(o).is = "ObjectCreated" /\ Created(o).peer = Local /\ Created(o).object = o
      BY DEF Created
    <2>2. Created(o) \in Message => Created(o) \in Touches(Local, o)
      BY <2>1 DEF Touches
    <2> QED
      BY <1>0, <2>2 DEF Quiet
  <1>5. \A o \in ObjectId : Quiet(bus, Touches(Local, o)) => (o \in mk <=> o \in mine)
    BY <1>0, <1>1, <1>4
  <1>6. Quiet(bus, Configs) => q = room
    BY DEF KeptRoom
  <1>7. MineTold(c, mk)'
    <2>1. astray'[c] = astray[c] \cap Late
      BY DEF Honest, PInv, OwnSound
    <2>2. \A o \in Room : (\E i \in 1..Len(bus) : bus[i] = Created(o)) => o \in Late
      BY <1>0 DEF Late, Created
    <2>3. Untold' = Untold
      BY DEF Untold
    <2>4. mk \subseteq Room
      BY DEF KeptRooms
    <2>5. ASSUME NEW o \in Room, o \notin Untold, o \notin astray'[c]
          PROVE  o \in mk <=> o \in mine
      <3>1. CASE \E i \in 1..Len(bus) : bus[i] = Created(o)
        <4>1. o \notin astray[c]
          BY <2>1, <2>2, <2>5, <3>1
        <4>2. o \in mi <=> o \in mine
          BY <2>5, <4>1 DEF MineTold
        <4> QED
          BY <1>0, <1>1, <3>1, <4>2
      <3>2. CASE ~\E i \in 1..Len(bus) : bus[i] = Created(o)
        BY <1>0, <1>1, <3>2
      <3> QED
        BY <3>1, <3>2
    <2> QED
      BY <2>3, <2>4, <2>5 DEF MineTold
  <1>8. ASSUME NEW o \in ObjectId, Stands(bus, Gives(Local, o), Touches(Local, o)) PROVE o \in mk
    <2>1. PICK j \in 1..Len(bus) : bus[j] \in Gives(Local, o)
      BY <1>8 DEF Stands
    <2>2. bus[j] = Created(o) /\ bus[j] \in Message
      BY <1>0, <1>2, <2>1
    <2>3. o \in Room
      <3>1. o \in mi
        BY <1>0, <1>8 DEF Told, Has
      <3> QED
        BY <3>1 DEF MineTold
    <2>4. o \in mi
      BY <1>0, <1>8 DEF Told, Has
    <2> QED
      BY <1>1, <2>2, <2>3, <2>4
  <1>9. ASSUME NEW o \in ObjectId, Stands(bus, Takes(Local, o), Touches(Local, o)) PROVE o \notin mk
    <2>1. PICK j \in 1..Len(bus) : bus[j] \in Takes(Local, o)
      BY <1>9 DEF Stands
    <2>2. bus[j].is = "ObjectRemoved" /\ bus[j].peer = Local /\ bus[j].object = o
      BY <1>0, <1>3, <2>1
    <2>3. o \notin mine
      BY <2>2 DEF Honest, GoneForGood
    <2>4. o \notin mi
      BY <1>0, <1>9 DEF Told, Has
    <2> QED
      BY <1>1, <2>3, <2>4
  <1>10. \A p \in Somebody, o \in ObjectId :
            /\ Stands(bus, Gives(p, o), Touches(p, o)) => Has(t, mk, p, o)
            /\ Stands(bus, Takes(p, o), Touches(p, o)) => ~Has(t, mk, p, o)
    <2> TAKE p \in Somebody, o \in ObjectId
    <2>1. CASE p = Local
      BY <1>8, <1>9, <2>1 DEF Has
    <2>2. CASE p # Local
      BY <2>2 DEF Told, Has
    <2> QED
      BY <2>1, <2>2
  <1>11. \A its \in StableId : Stands(bus, Sets(its), Configs) => q = its
    <2> TAKE its \in StableId
    <2> HAVE Stands(bus, Sets(its), Configs)
    <2>1. ~Quiet(bus, Configs)
      BY DEF Stands, Quiet, Sets
    <2> QED
      BY <2>1 DEF Told, KeptRoom
  <1>12. Told(bus, t, mk, q)
    BY <1>10, <1>11 DEF Told
  <1>13. Told(bus, t, mk, r)
    BY <1>10 DEF Told
  <1> QED
    BY <1>5, <1>6, <1>7, <1>12, <1>13

-----------------------------------------------------------------------------
(* The invariant of the Map: what waits for it is told in order, of a backend that has told of
   all that it did; and once the Map has taken its snapshot it has all that what waits is
   silent about. *)
MapTold(t, mi, r) ==
    /\ TableTold(t) /\ MineTold("map", mi) /\ RoomTold(r)
    /\ Told(bus, t, mi, r)
    /\ map.open = "open" => MapFollows(bus, t, mi, r, Owed, map) /\ Painted(bus, Owed, map)

Following ==
    /\ Honest
    /\ map.open = "none" => bus = <<>>
    /\ MapTyped(map) /\ Looked(map)
    /\ map.open = "open" => map.me = Me
    /\ \E t, mi, r : MapTold(t, mi, r)

LEMMA NothingTold ==
    ASSUME NEW t, NEW mi, NEW r
    PROVE  Told(<<>>, t, mi, r)
  <1>1. \A X, Y : ~Stands(<<>>, X, Y)
    BY DEF Stands
  <1> QED
    BY <1>1 DEF Told

LEMMA OpenedMap ==
    ASSUME NEW v, MapTyped(v), NEW x \in {"none", "opening", "open"}, NEW w, w = [v EXCEPT !.open = x]
    PROVE  /\ MapTyped(w) /\ w.open = x /\ w.me = v.me
           /\ Looked(v) => Looked(w)
           /\ IsDrawn(v) => IsDrawn(w)
           /\ \A b, t, mi, r, E : MapFollows(b, t, mi, r, E, v) => MapFollows(b, t, mi, r, E, w)
  <1>1. w.open = x /\ DOMAIN w = DOMAIN v /\ \A f \in DOMAIN v \ {"open"} : w[f] = v[f]
    BY DEF MapTyped
  <1>2. /\ w.peers = v.peers /\ w.keys = v.keys /\ w.me = v.me
        /\ w.room = v.room /\ w.roomId = v.roomId /\ w.things = v.things /\ w.display = v.display
    BY <1>1 DEF MapTyped
  <1> QED
    BY <1>1, <1>2 DEF MapTyped, Looked, ToRemoteId, IsDrawn, MapFollows, PeersFollow

LEMMA FollowsLess ==
    ASSUME NEW b, NEW t, NEW mi, NEW r, NEW E, NEW F, NEW v, E \subseteq F
    PROVE  /\ MapFollows(b, t, mi, r, E, v) => MapFollows(b, t, mi, r, F, v)
           /\ Painted(b, E, v) => Painted(b, F, v)
  BY DEF MapFollows, Painted

LEMMA FollowingBackend ==
    ASSUME Following, Honest', \/ Announced \/ Silent
                               \/ \E h \in Handler : Tell(h)
    PROVE  Following'
  <1>0. MapTyped(map) /\ Looked(map) /\ bus \in Seq(Message) /\ Honest
    BY DEF Following, Honest, PInv
  <1>1. PICK t, mi, r : MapTold(t, mi, r)
    BY DEF Following
  <1>2. TableTold(t) /\ MineTold("map", mi) /\ RoomTold(r) /\ Told(bus, t, mi, r)
    BY <1>1 DEF MapTold
  <1>3. CASE Silent
    <2>1. /\ TableTold(t)' /\ MineTold("map", mi)' /\ RoomTold(r)'
          /\ Owed \subseteq Owed' /\ bus' = bus /\ map' = map
      BY <1>0, <1>2, <1>3, SilentStep
    <2>2. MapTold(t, mi, r)'
      BY <1>1, <2>1, FollowsLess DEF MapTold
    <2> QED
      BY <2>1, <2>2 DEF Following
  <1>4. CASE Announced \/ \E h \in Handler : Tell(h)
    <2>1. map' = map /\ (map.open = "none" => bus' = bus)
      <3>1. CASE Announced
        BY <3>1, AnnouncedKeeps
      <3>2. CASE \E h \in Handler : Tell(h)
        BY <3>2 DEF Tell, Say
      <3> QED
        BY <1>4, <3>1, <3>2
    <2>2. PICK u, mk, q : Telling("map", t, mi, r, u, mk, q)
      <3>1. CASE Announced
        BY <1>0, <1>2, <3>1, AnnouncedStep
      <3>2. CASE \E h \in Handler : Tell(h)
        BY <1>0, <1>2, <3>2, TellStep
      <3> QED
        BY <1>4, <3>1, <3>2
    <2>3. TableTold(u)' /\ MineTold("map", mk)' /\ RoomTold(q)'
      BY <1>2, <2>2 DEF Telling
    <2>4. CASE map.open = "none"
      <3>1. bus' = <<>> /\ map'.open = "none"
        BY <2>1, <2>4 DEF Following
      <3>2. Told(bus', u, mk, q)
        BY <3>1, NothingTold
      <3>3. MapTold(u, mk, q)'
        BY <2>3, <3>1, <3>2 DEF MapTold
      <3> QED
        BY <2>1, <3>1, <3>3 DEF Following
    <2>5. CASE map.open # "none"
      <3>1. PICK m \in Message :
                bus' = bus \o <<m>> /\ Happens(m, t, mi, r, u, mk, q) /\ Leaves(m, Owed, Owed')
        BY <2>2, <2>5 DEF Telling
      <3>2. Told(bus', u, mk, q)
        BY <1>0, <1>2, <3>1, ToldAppend
      <3>3. ASSUME map.open = "open"
            PROVE  MapFollows(bus', u, mk, q, Owed', map) /\ Painted(bus', Owed', map)
        <4>1. MapFollows(bus, t, mi, r, Owed, map) /\ Painted(bus, Owed, map)
          BY <1>1, <3>3 DEF MapTold
        <4> QED
          BY <1>0, <3>1, <4>1, MapFollowsAppend
      <3>4. MapTold(u, mk, q)'
        BY <2>1, <2>3, <3>2, <3>3 DEF MapTold
      <3> QED
        BY <2>1, <2>5, <3>4 DEF Following
    <2> QED
      BY <2>4, <2>5
  <1> QED
    BY <1>3, <1>4

LEMMA FollowingHear ==
    ASSUME Following, Hear, Honest'
    PROVE  Following'
  <1> DEFINE m == Head(bus)
  <1>1. /\ bus # <<>> /\ bus' = Tail(bus) /\ UNCHANGED <<table, mine, room, telling, off, astray>>
        /\ map' = Hears(map, m)
    BY DEF Hear, Hears, own, history
  <1>2. bus \in Seq(Message) /\ Good(map) /\ m \in Message
    BY <1>1, HeardFirst DEF Following, Honest, PInv
  <1>3. MapTyped(map) /\ Looked(map) /\ Honest
    BY DEF Following
  <1>4. PICK t, mi, r : MapTold(t, mi, r)
    BY DEF Following
  <1>5. TableTold(t) /\ MineTold("map", mi) /\ RoomTold(r) /\ Told(bus, t, mi, r)
    BY <1>4 DEF MapTold
  <1>6. \A p \in PeerId : t[p] # None => t[p].key \in PublicKey
    BY <1>3, <1>5, TableToldIs
  <1>7. Owed' = Owed /\ TableTold(t)' /\ MineTold("map", mi)' /\ RoomTold(r)'
    BY <1>1, <1>5 DEF Owed, TableTold, MineTold, Untold, RoomTold
  <1> DEFINE w == map'
  <1>8. MapTyped(w) /\ Looked(w) /\ MapHeard(m, map, w) /\ w.me = map.me /\ w.open = map.open
    BY <1>1, <1>2, <1>3, MapHears
  <1>9. Told(Tail(bus), t, mi, r)
    BY <1>1, <1>2, <1>5, ToldTail
  <1>10. ASSUME map.open = "open"
         PROVE  MapFollows(Tail(bus), t, mi, r, Owed, w) /\ Painted(Tail(bus), Owed, w)
    <2>1. MapFollows(bus, t, mi, r, Owed, map) /\ Painted(bus, Owed, map)
      BY <1>4, <1>10 DEF MapTold
    <2>2. MapFollows(Tail(bus), t, mi, r, Owed, w)
      BY <1>1, <1>2, <1>5, <1>6, <1>8, <2>1, MapFollowsTail
    <2>3. Painted(Tail(bus), Owed, w)
      BY <1>1, <1>2, <1>3, <1>5, <1>6, <2>1, MapStaysPainted
    <2> QED
      BY <2>2, <2>3
  <1>11. MapTold(t, mi, r)'
    BY <1>1, <1>7, <1>8, <1>9, <1>10 DEF MapTold
  <1>12. map'.open = "none" => bus' = <<>>
    BY <1>1, <1>8 DEF Following
  <1>13. map'.open = "open" => map'.me = Me
    BY <1>8 DEF Following
  <1> QED
    BY <1>8, <1>11, <1>12, <1>13 DEF Following

LEMMA FollowingSnapshot ==
    ASSUME Following, Honest', InitializeMap
    PROVE  Following'
  <1>0. MapTyped(map) /\ Looked(map) /\ Honest /\ PInv /\ bus \in Seq(Message)
    BY DEF Following, Honest, PInv
  <1>1. PICK t, mi, r : MapTold(t, mi, r)
    BY DEF Following
  <1>2. TableTold(t) /\ MineTold("map", mi) /\ RoomTold(r) /\ Told(bus, t, mi, r)
    BY <1>1 DEF MapTold
  <1>3. /\ UNCHANGED <<table, mine, room, telling, bus>>
        /\ astray' = [astray EXCEPT !["map"] = astray["map"] \cap Late]
        /\ off' = (off /\ \E i \in DOMAIN bus : bus[i].is = "Config")
        /\ map' = [Initialized(map) EXCEPT !.open = "open"]
    BY DEF InitializeMap, own
  <1>4. PICK mk : mk = KeptRooms(mi)
    OBVIOUS
  <1>5. PICK q : q = KeptRoom(r)
    OBVIOUS
  <1>6. /\ Told(bus, t, mk, q) /\ MineTold("map", mk)'
        /\ \A o \in ObjectId : Quiet(bus, Touches(Local, o)) => (o \in mk <=> o \in mine)
        /\ Quiet(bus, Configs) => q = room
    BY <1>0, <1>2, <1>3, <1>4, <1>5, Retold
  <1>7. TableTold(t)' /\ Owed' = Owed
    BY <1>2, <1>3 DEF TableTold, Owed
  <1>8. RoomTold(q)'
    <2>1. SUFFICES ASSUME ~off', \A h \in Handler : telling[h] \notin Setting
                   PROVE  q = room
      BY <1>3 DEF RoomTold
    <2>2. CASE Quiet(bus, Configs)
      BY <1>6, <2>2
    <2>3. CASE ~Quiet(bus, Configs)
      <3>1. \E i \in 1..Len(bus) : bus[i].is = "Config"
        BY <2>3 DEF Quiet, Configs
      <3>2. DOMAIN bus = 1..Len(bus)
        BY <1>0
      <3>3. ~off
        BY <1>3, <2>1, <3>1, <3>2
      <3> QED
        BY <1>2, <1>5, <2>1, <2>3, <3>3 DEF RoomTold, KeptRoom
    <2> QED
      BY <2>2, <2>3
  <1>9. /\ SamePeers(table, t)
        /\ \A p \in PeerId, o \in ObjectId : <<p, o>> \notin Owed => (o \in t[p].things <=> o \in table[p].things)
    BY <1>0, <1>2, TableToldIs
  <1> DEFINE w == Initialized(map)
  <1>10. /\ MapTyped(w) /\ Looked(w) /\ IsDrawn(w) /\ w.me = Me
         /\ MapFollows(bus, t, mk, q, Owed, w)
    BY <1>0, <1>6, <1>9, MapSnapshot
  <1>11. map' = [w EXCEPT !.open = "open"]
    BY <1>3
  <1> HIDE DEF w
  <1>12. /\ MapTyped(map') /\ Looked(map') /\ IsDrawn(map') /\ map'.me = Me /\ map'.open = "open"
         /\ MapFollows(bus, t, mk, q, Owed, map')
    BY <1>10, <1>11, OpenedMap
  <1>13. Painted(bus, Owed, map')
    BY <1>12, DrawnIsPainted
  <1>14. MapTold(t, mk, q)'
    BY <1>3, <1>6, <1>7, <1>8, <1>12, <1>13 DEF MapTold
  <1> QED
    BY <1>12, <1>14 DEF Following

LEMMA FollowingPage ==
    ASSUME Following, Honest',
           Open \/ OpenRooms \/ InitializeRooms \/ CloseRooms \/ Lose
    PROVE  Following'
  <1>0. MapTyped(map) /\ Looked(map)
    BY DEF Following
  <1>1. PICK t, mi, r : MapTold(t, mi, r)
    BY DEF Following
  <1>2. UNCHANGED <<table, mine, room, telling, off>> /\ astray'["map"] = astray["map"]
    <2>1. CASE Open
      BY <2>1 DEF Open, own, history
    <2>2. CASE OpenRooms
      BY <2>2 DEF OpenRooms, own, history
    <2>3. CASE InitializeRooms
      <3>1. astray'["map"] = astray["map"]
        BY <2>3 DEF InitializeRooms, Following, Honest, PInv, OwnSound
      <3> QED
        BY <2>3, <3>1 DEF InitializeRooms, own
    <2>4. CASE CloseRooms
      BY <2>4 DEF CloseRooms, own, history
    <2>5. CASE Lose
      BY <2>5 DEF Lose, own, history
    <2> QED
      BY <2>1, <2>2, <2>3, <2>4, <2>5
  <1>3. Owed' = Owed /\ TableTold(t)' /\ MineTold("map", mi)' /\ RoomTold(r)'
    BY <1>1, <1>2 DEF MapTold, Owed, TableTold, MineTold, Untold, RoomTold
  <1>4. CASE Open
    <2>1. MapTyped(map') /\ Looked(map') /\ map'.open = "opening" /\ bus' = bus
      BY <1>0, <1>4, OpenedMap DEF Open
    <2>2. MapTold(t, mi, r)'
      BY <1>1, <1>3, <2>1 DEF MapTold
    <2> QED
      BY <2>1, <2>2 DEF Following
  <1>5. CASE OpenRooms \/ InitializeRooms \/ CloseRooms
    <2>1. map' = map /\ bus' = bus
      BY <1>5 DEF OpenRooms, InitializeRooms, CloseRooms
    <2>2. MapTold(t, mi, r)'
      BY <1>1, <1>3, <2>1 DEF MapTold
    <2> QED
      BY <2>1, <2>2 DEF Following
  <1>6. CASE Lose
    <2>1. MapTyped(map') /\ Looked(map') /\ map'.open = "none" /\ bus' = <<>>
      BY <1>0, <1>6, OpenedMap DEF Lose
    <2>2. Told(bus', t, mi, r)
      BY <2>1, NothingTold
    <2>3. MapTold(t, mi, r)'
      BY <1>3, <2>1, <2>2 DEF MapTold
    <2> QED
      BY <2>1, <2>3 DEF Following
  <1> QED
    BY <1>4, <1>5, <1>6

LEMMA FollowingInit == Init => Following
  <1> SUFFICES ASSUME Init PROVE Following
    OBVIOUS
  <1>1. Honest
    BY HonestInit
  <1>2. MapTyped(map) /\ map.open = "none"
    BY DEF Init, MapTyped, StableId, RemoteId
  <1>3. Looked(map)
    BY DEF Init, Looked, ToRemoteId
  <1>4. bus = <<>> /\ Told(bus, table, mine, room)
    BY NothingTold DEF Init
  <1>5. TableTold(table) /\ MineTold("map", mine) /\ RoomTold(room)
    BY DEF Init, TableTold, MineTold, RoomTold
  <1>6. MapTold(table, mine, room)
    BY <1>2, <1>4, <1>5 DEF MapTold
  <1> QED
    BY <1>1, <1>2, <1>3, <1>4, <1>6 DEF Following

LEMMA FollowingNext == Following /\ [Next]_vars => Following'
  <1> SUFFICES ASSUME Following, [Next]_vars PROVE Following'
    OBVIOUS
  <1>1. Honest'
    BY HonestNext DEF Following
  <1>2. CASE UNCHANGED vars
    <2>1. PICK t, mi, r : MapTold(t, mi, r)
      BY DEF Following
    <2>2. UNCHANGED <<table, mine, room, telling, bus, map, off, astray>>
      BY <1>2 DEF vars, own, history
    <2>3. MapTold(t, mi, r)'
      BY <2>1, <2>2 DEF MapTold, TableTold, MineTold, Untold, RoomTold, Owed
    <2> QED
      BY <1>1, <2>2, <2>3 DEF Following
  <1>3. CASE Next
    <2>1. \/ Announced \/ Silent
          \/ \E h \in Handler : Tell(h)
          \/ Hear \/ Open \/ InitializeMap \/ OpenRooms \/ InitializeRooms \/ CloseRooms \/ Lose
      BY <1>3, Steps
    <2> QED
      BY <1>1, <2>1, FollowingBackend, FollowingHear, FollowingSnapshot, FollowingPage
  <1> QED
    BY <1>2, <1>3

LEMMA FollowingHolds == Spec => []Following
  BY FollowingInit, FollowingNext, PTL DEF Spec

LEMMA AllThingsAre ==
    ASSUME PInv
    PROVE  /\ AllThings \subseteq Somebody \X ObjectId
           /\ \A p \in Somebody, o \in ObjectId : <<p, o>> \in AllThings <=> Has(table, mine, p, o)
  <1>1. \A p \in Connected : table[p].things \subseteq ObjectId /\ p \in PeerId
    BY DEF Connected, PInv, TableSound, Info
  <1>2. \A p, o : <<p, o>> \in AllThings <=>
            \/ p = Local /\ o \in mine
            \/ p \in Connected /\ o \in table[p].things
    <2> TAKE p, o
    <2>1. <<p, o>> \in {Local} \X mine <=> p = Local /\ o \in mine
      OBVIOUS
    <2>2. <<p, o>> \in UNION {{q} \X table[q].things : q \in Connected} <=>
            p \in Connected /\ o \in table[p].things
      OBVIOUS
    <2> QED
      BY <2>1, <2>2 DEF AllThings
  <1>3. AllThings \subseteq Somebody \X ObjectId
    BY <1>1 DEF AllThings, Somebody, PInv, OwnSound, ObjectId
  <1> QED
    BY <1>2, <1>3, ZeroIsNowhere DEF Has, Connected, Somebody

(* When all is told and heard, the Map follows the backend as it is. *)
LEMMA WhenSettled ==
    ASSUME Following, map.open = "open", Settled
    PROVE  \E mi, r :
            /\ \A o \in Room \ astray["map"] : o \in mi <=> o \in mine
            /\ mi \subseteq Room
            /\ ~off => r = room
            /\ MapFollows(bus, table, mi, r, {}, map) /\ Painted(bus, {}, map)
  <1>1. PICK t, mi, r : MapTold(t, mi, r)
    BY DEF Following
  <1>2. (\A h \in Handler : telling[h] = None) /\ "client" \in Handler
    BY DEF Settled, Handler
  <1>3. t = table /\ Owed = {}
    BY <1>1, <1>2, ThingsAre, TableToldIs DEF MapTold, Following
  <1>4. \A o \in Room : Created(o) # None /\ Removed(Local, o) # None
    <2> TAKE o \in Room
    <2>1. Created(o) \in Thing /\ Removed(Local, o) \in Thing /\ None \notin Thing
      BY ThingsAre DEF ObjectId
    <2> QED
      BY <2>1
  <1>5. Untold = {}
    BY <1>2, <1>4 DEF Untold
  <1>6. mi \subseteq Room /\ \A o \in Room \ astray["map"] : o \in mi <=> o \in mine
    BY <1>1, <1>5 DEF MapTold, MineTold
  <1>7. ~off => r = room
    BY <1>1, <1>2, NoneAssumption DEF MapTold, RoomTold
  <1>8. MapFollows(bus, table, mi, r, {}, map) /\ Painted(bus, {}, map)
    BY <1>1, <1>3 DEF MapTold
  <1> QED
    BY <1>6, <1>7, <1>8

(* A Map that has heard all there is to hear has the peers and objects of the backend, and
   its room, whatever the page was told, before and after its snapshot, in however many
   messages that were older than the snapshot: but for the rooms of the user nobody told of
   in time, and a ROOM that was cleared unheard or told of in another order. *)
THEOREM MapCatchesUp == Spec => []CaughtUp
  <1>1. Following => CaughtUp
    <2> SUFFICES ASSUME Following, map.open = "open", Settled
                 PROVE  /\ map.things \ Astray("map") = AllThings \ Astray("map")
                        /\ ~off => map.room = room
                        /\ \A p \in PeerId :
                            IF table[p] = None THEN map.peers[p] = None
                            ELSE /\ map.peers[p] # None
                                 /\ map.peers[p].key = table[p].key /\ map.peers[p].room = table[p].room
      BY DEF CaughtUp
    <2>1. PICK mi, r :
            /\ \A o \in Room \ astray["map"] : o \in mi <=> o \in mine
            /\ mi \subseteq Room
            /\ ~off => r = room
            /\ MapFollows(bus, table, mi, r, {}, map) /\ Painted(bus, {}, map)
      BY WhenSettled
    <2>2. MapTyped(map) /\ PInv /\ bus = <<>>
      BY DEF Following, Honest, Settled
    <2>3. \A Y : Quiet(bus, Y)
      BY <2>2 DEF Quiet
    <2>4. map.things \ Astray("map") = AllThings \ Astray("map")
      <3>1. map.things \subseteq Somebody \X ObjectId /\ AllThings \subseteq Somebody \X ObjectId
        BY <2>2, AllThingsAre DEF MapTyped
      <3>2. mine \subseteq Room
        BY <2>2 DEF PInv, OwnSound
      <3>3. \A p \in Somebody, o \in ObjectId :
                /\ <<p, o>> \in map.things <=> Has(table, mi, p, o)
                /\ <<p, o>> \in AllThings <=> Has(table, mine, p, o)
        BY <2>1, <2>2, <2>3, AllThingsAre DEF MapFollows
      <3>4. \A p \in Somebody, o \in ObjectId : <<p, o>> \notin Astray("map") =>
                (<<p, o>> \in map.things <=> <<p, o>> \in AllThings)
        BY <2>1, <3>2, <3>3 DEF Has, Astray
      <3>5. ASSUME NEW x \in Somebody \X ObjectId, x \notin Astray("map")
            PROVE  x \in map.things <=> x \in AllThings
        <4>1. PICK p \in Somebody, o \in ObjectId : x = <<p, o>>
          OBVIOUS
        <4> QED
          BY <3>4, <3>5, <4>1
      <3> QED
        BY <3>1, <3>5, Zenon
    <2>5. ~off => map.room = room
      BY <2>1, <2>3 DEF MapFollows
    <2> QED
      BY <2>1, <2>3, <2>4, <2>5 DEF MapFollows, PeersFollow
  <1> QED
    BY <1>1, FollowingHolds, PTL

(* The room the Map is in is drawn as soon as its owner is known and it exists, under the
   id the owner has now: remote_update looks it up and draws it whenever it has to, though
   it does not do either for every message. *)
THEOREM RoomIsDrawn == Spec => []RoomDrawn
  <1>1. Following => RoomDrawn
    <2> SUFFICES ASSUME Following, map.open = "open", Settled, NEW id, id = ToRemoteId(map, map.room),
                        id # Zero, id \in AllThings \ Astray("map"), id[2] \in Room
                 PROVE  map.roomId = id /\ map.display = id
      BY DEF RoomDrawn
    <2>1. PICK mi, r :
            /\ \A o \in Room \ astray["map"] : o \in mi <=> o \in mine
            /\ mi \subseteq Room
            /\ ~off => r = room
            /\ MapFollows(bus, table, mi, r, {}, map) /\ Painted(bus, {}, map)
      BY WhenSettled
    <2>2. MapTyped(map) /\ Looked(map) /\ PInv /\ bus = <<>>
      BY DEF Following, Honest, Settled
    <2>3. \A Y : Quiet(bus, Y)
      BY <2>2 DEF Quiet
    <2>4. map.roomId = id
      BY <2>2 DEF Looked
    <2>5. PICK p \in Somebody, o \in ObjectId : id = <<p, o>> /\ Has(table, mine, p, o)
      BY <2>2, AllThingsAre
    <2>6. o \in Room
      BY <2>5
    <2>7. Has(table, mi, p, o)
      BY <2>1, <2>5, <2>6 DEF Has, Astray
    <2>8. id \in map.things
      BY <2>1, <2>3, <2>5, <2>7 DEF MapFollows
    <2>9. map.display = id
      BY <2>1, <2>3, <2>5, <2>6, <2>8 DEF Painted
    <2> QED
      BY <2>4, <2>9
  <1> QED
    BY <1>1, FollowingHolds, PTL


-----------------------------------------------------------------------------
(* In what order peers come, speak and go. Peer q is there where b goes on from n: it goes
   before it comes again, or is in the table. *)
PresentFrom(b, n, t, q) ==
    \/ \E j \in n..Len(b) : b[j] \in Goes(q) /\ \A i \in n..(j - 1) : b[i] \notin Presence(q)
    \/ t[q] # None /\ \A i \in n..Len(b) : b[i] \notin Presence(q)

(* What only one who is there says. *)
Says(q) == {m \in Message : m.is \in {"PeerConnected", "ObjectCreated"} /\ m.peer = q}

(* What takes room o of q from the list. *)
Removals(q, o) ==
    {m \in Message : m \in Presence(q) \/ (m.is = "ObjectRemoved" /\ m.peer = q /\ m.object = o)}

(* Peers come and go in turn, and so do those who have one key. *)
Ordered(b, t, mi) ==
    \A q \in PeerId :
        /\ \A j \in 1..Len(b) : b[j] \in Says(q) => PresentFrom(b, j + 1, t, q)
        /\ \A k \in PublicKey :
            /\ t[q] # None /\ t[q].key = k => Quiet(b, Presence(q)) \/ Stands(b, Comes(q, k), Presence(q))
            /\ \A p \in PeerId \ {q}, i, j \in 1..Len(b) :
                i < j /\ b[i] \in Comes(q, k) /\ b[j] \in Comes(p, k) =>
                    \E l \in (i + 1)..(j - 1) : b[l] \in Goes(q)
        /\ \A o \in Room : Stands(b, Gives(q, o), Removals(q, o)) => Has(t, mi, q, o)

LEMMA PresentAppend ==
    ASSUME NEW b \in Seq(Message), NEW m \in Message, NEW t, NEW t2, PeersChange(m, t, t2),
           NEW n \in 1..(Len(b) + 1), NEW q \in PeerId, PresentFrom(b, n, t, q)
    PROVE  PresentFrom(b \o <<m>>, n, t2, q)
  <1> DEFINE c == b \o <<m>>
  <1>1. /\ Len(b) \in Nat /\ Len(c) = Len(b) + 1 /\ c[Len(b) + 1] = m
        /\ \A i \in 1..Len(b) : c[i] = b[i]
    BY SaidLast
  <1> HIDE DEF c
  <1>2. CASE \E j \in n..Len(b) : b[j] \in Goes(q) /\ \A i \in n..(j - 1) : b[i] \notin Presence(q)
    BY <1>1, <1>2 DEF PresentFrom, c
  <1>3. CASE t[q] # None /\ \A i \in n..Len(b) : b[i] \notin Presence(q)
    <2>1. CASE m \in Goes(q)
      <3>1. c[Len(b) + 1] \in Goes(q) /\ \A i \in n..Len(b) : c[i] \notin Presence(q)
        BY <1>1, <1>3, <2>1
      <3>2. Len(b) + 1 \in n..Len(c) /\ (Len(b) + 1) - 1 = Len(b)
        BY <1>1
      <3> QED
        BY <3>1, <3>2 DEF PresentFrom, c
    <2>2. CASE m \notin Presence(q)
      <3>1. t2[q] # None
        BY <1>3, <2>2 DEF PeersChange
      <3>2. \A i \in n..Len(c) : c[i] \notin Presence(q)
        BY <1>1, <1>3, <2>2
      <3> QED
        BY <3>1, <3>2 DEF PresentFrom, c
    <2>3. \A k \in PublicKey : m \notin Comes(q, k)
      BY <1>3 DEF PeersChange
    <2> QED
      BY <2>1, <2>2, <2>3, PresenceIs
  <1> QED
    BY <1>2, <1>3 DEF PresentFrom

LEMMA PresentTail ==
    ASSUME NEW b \in Seq(Message), b # <<>>, NEW t, NEW n \in Nat \ {0}, NEW q, PresentFrom(b, n + 1, t, q)
    PROVE  PresentFrom(Tail(b), n, t, q)
  <1> DEFINE c == Tail(b)
  <1>1. /\ Len(b) \in Nat \ {0} /\ Len(c) = Len(b) - 1
        /\ \A i \in 1..Len(c) : c[i] = b[i + 1]
    BY HeardFirst
  <1> HIDE DEF c
  <1>2. CASE \E j \in (n + 1)..Len(b) : b[j] \in Goes(q) /\ \A i \in (n + 1)..(j - 1) : b[i] \notin Presence(q)
    <2>1. PICK j \in (n + 1)..Len(b) : b[j] \in Goes(q) /\ \A i \in (n + 1)..(j - 1) : b[i] \notin Presence(q)
      BY <1>2
    <2>2. j - 1 \in n..Len(c) /\ c[j - 1] \in Goes(q)
      BY <1>1, <2>1
    <2>3. \A i \in n..((j - 1) - 1) : c[i] \notin Presence(q)
      BY <1>1, <2>1
    <2> QED
      BY <2>2, <2>3 DEF PresentFrom, c
  <1>3. CASE t[q] # None /\ \A i \in (n + 1)..Len(b) : b[i] \notin Presence(q)
    BY <1>1, <1>3 DEF PresentFrom, c
  <1> QED
    BY <1>2, <1>3 DEF PresentFrom

(* Who is there, and not heard of at first, is there after that. *)
LEMMA PresentOn ==
    ASSUME NEW b \in Seq(Message), b # <<>>, NEW t, NEW q, PresentFrom(b, 1, t, q), b[1] \notin Presence(q)
    PROVE  PresentFrom(b, 2, t, q)
  <1>1. Len(b) \in Nat \ {0} /\ Goes(q) \subseteq Presence(q)
    BY HeardFirst DEF Goes, Presence
  <1> QED
    BY <1>1 DEF PresentFrom

LEMMA OrderedAppend ==
    ASSUME NEW b \in Seq(Message), NEW m \in Message, NEW t, NEW mi, NEW r, NEW t2, NEW mi2, NEW r2,
           Told(b, t, mi, r), Ordered(b, t, mi), Happens(m, t, mi, r, t2, mi2, r2)
    PROVE  Ordered(b \o <<m>>, t2, mi2)
  <1> DEFINE c == b \o <<m>>
  <1>1. /\ Len(b) \in Nat /\ Len(c) = Len(b) + 1 /\ c[Len(b) + 1] = m
        /\ \A i \in 1..Len(b) : c[i] = b[i]
    BY SaidLast
  <1>2. \A n \in 1..(Len(b) + 1), q \in PeerId : PresentFrom(b, n, t, q) => PresentFrom(c, n, t2, q)
    BY PresentAppend DEF Happens
  <1>3. /\ \A Y : Quiet(c, Y) <=> Quiet(b, Y) /\ m \notin Y
        /\ \A X, Y : Stands(c, X, Y) <=> m \in X \/ (m \notin Y /\ Stands(b, X, Y))
    BY QuietAppend, StandsAppend
  <1> HIDE DEF c
  <1>4. ASSUME NEW q \in PeerId, NEW j \in 1..Len(c), c[j] \in Says(q)
        PROVE  PresentFrom(c, j + 1, t2, q)
    <2>1. CASE j \in 1..Len(b)
      <3>1. PresentFrom(b, j + 1, t, q) /\ j + 1 \in 1..(Len(b) + 1)
        BY <1>1, <1>4, <2>1 DEF Ordered
      <3> QED
        BY <1>2, <3>1
    <2>2. CASE j = Len(b) + 1
      <3>1. m \in Says(q)
        BY <1>1, <1>4, <2>2
      <3>2. t2[q] # None
        <4>1. CASE m.is = "PeerConnected"
          <5>1. m.key \in PublicKey /\ m \in Comes(q, m.key)
            BY <3>1, <4>1 DEF Says, Comes, Message
          <5> QED
            BY <5>1 DEF Happens, PeersChange
        <4>2. CASE m.is = "ObjectCreated"
          <5>1. m \notin Presence(q) /\ m.peer = q
            BY <3>1, <4>2 DEF Says, Presence, Goes
          <5> QED
            BY <4>2, <5>1 DEF Happens, PeersChange
        <4> QED
          BY <3>1, <4>1, <4>2 DEF Says
      <3>3. \A i \in (j + 1)..Len(c) : FALSE
        BY <1>1, <2>2
      <3> QED
        BY <3>2, <3>3 DEF PresentFrom
    <2> QED
      BY <1>1, <2>1, <2>2
  <1>5. ASSUME NEW q \in PeerId, NEW k \in PublicKey, t2[q] # None, t2[q].key = k
        PROVE  Quiet(c, Presence(q)) \/ Stands(c, Comes(q, k), Presence(q))
    <2>1. CASE m \in Presence(q)
      <3>1. m \notin Goes(q)
        BY <1>5 DEF Happens, PeersChange
      <3>2. PICK j \in PublicKey : m \in Comes(q, j)
        BY <2>1, <3>1, PresenceIs
      <3>3. j = k
        BY <1>5, <3>2 DEF Happens, PeersChange
      <3> QED
        BY <1>3, <3>2, <3>3
    <2>2. CASE m \notin Presence(q)
      <3>1. t[q] # None /\ t[q].key = k
        BY <1>5, <2>2 DEF Happens, PeersChange
      <3> QED
        BY <1>3, <2>2, <3>1 DEF Ordered
    <2> QED
      BY <2>1, <2>2
  <1>6. ASSUME NEW q \in PeerId, NEW k \in PublicKey, NEW p \in PeerId \ {q},
               NEW i \in 1..Len(c), NEW j \in 1..Len(c),
               i < j, c[i] \in Comes(q, k), c[j] \in Comes(p, k)
        PROVE  \E l \in (i + 1)..(j - 1) : c[l] \in Goes(q)
    <2>1. CASE j \in 1..Len(b)
      <3>1. i \in 1..Len(b) /\ b[i] \in Comes(q, k) /\ b[j] \in Comes(p, k)
        BY <1>1, <1>6, <2>1
      <3>2. PICK l \in (i + 1)..(j - 1) : b[l] \in Goes(q)
        BY <1>6, <2>1, <3>1 DEF Ordered
      <3>3. c[l] = b[l]
        BY <1>1, <2>1, <3>1
      <3> QED
        BY <3>2, <3>3
    <2>2. CASE j = Len(b) + 1
      <3>1. i \in 1..Len(b) /\ b[i] \in Comes(q, k) /\ m \in Comes(p, k)
        BY <1>1, <1>6, <2>2
      <3>2. b[i] \in Says(q)
        BY <3>1 DEF Comes, Says
      <3>3. PresentFrom(b, i + 1, t, q)
        BY <3>1, <3>2 DEF Ordered
      <3>4. CASE \E l \in (i + 1)..Len(b) : b[l] \in Goes(q)
        BY <1>1, <2>2, <3>1, <3>4
      <3>5. CASE t[q] # None /\ \A l \in (i + 1)..Len(b) : b[l] \notin Presence(q)
        <4>1. Stands(b, Comes(q, k), Presence(q))
          BY <3>1, <3>5 DEF Stands
        <4>2. t[q].key = k
          BY <4>1 DEF Told
        <4>3. m \notin Presence(q)
          BY <3>1 DEF Comes, Presence, Goes
        <4>4. t2[q] # None /\ t2[q].key = k
          BY <3>5, <4>2, <4>3 DEF Happens, PeersChange
        <4> QED
          BY <3>1, <4>4 DEF Happens, PeersChange
      <3> QED
        BY <3>3, <3>4, <3>5 DEF PresentFrom
    <2> QED
      BY <1>1, <2>1, <2>2
  <1>7. ASSUME NEW q \in PeerId, NEW o \in Room, Stands(c, Gives(q, o), Removals(q, o))
        PROVE  Has(t2, mi2, q, o)
    <2>0. q \in Somebody /\ o \in ObjectId /\ o \notin Token
      BY PeersAssumption DEF Somebody, ObjectId
    <2>1. CASE m \in Gives(q, o)
      BY <2>0, <2>1 DEF Happens, ThingsChange
    <2>2. CASE m \notin Gives(q, o)
      <3>1. m \notin Removals(q, o) /\ Has(t, mi, q, o)
        BY <1>3, <1>7, <2>2 DEF Ordered
      <3>2. m \notin Touches(q, o)
        BY <2>0, <2>2, <3>1 DEF Touches, Removals, Gives, Presence
      <3> QED
        BY <2>0, <3>1, <3>2 DEF Happens, ThingsChange
    <2> QED
      BY <2>1, <2>2
  <1>8. Ordered(c, t2, mi2)
    BY <1>4, <1>5, <1>6, <1>7 DEF Ordered
  <1> QED
    BY <1>8 DEF c

LEMMA OrderedTail ==
    ASSUME NEW b \in Seq(Message), b # <<>>, NEW t, NEW mi, Ordered(b, t, mi)
    PROVE  Ordered(Tail(b), t, mi)
  <1> DEFINE c == Tail(b)
  <1>1. /\ Len(b) \in Nat \ {0} /\ Len(c) = Len(b) - 1
        /\ \A i \in 1..Len(c) : c[i] = b[i + 1]
    BY HeardFirst
  <1>2. /\ \A Y : Quiet(b, Y) => Quiet(c, Y)
        /\ \A X, Y : Stands(b, X, Y) => Stands(c, X, Y) \/ Quiet(c, Y)
        /\ \A X, Y : Stands(c, X, Y) => Stands(b, X, Y)
    BY QuietTail, StandsTail
  <1>3. \A n \in Nat \ {0} : \A q : PresentFrom(b, n + 1, t, q) => PresentFrom(c, n, t, q)
    BY PresentTail
  <1> HIDE DEF c
  <1>4. ASSUME NEW q \in PeerId, NEW j \in 1..Len(c), c[j] \in Says(q)
        PROVE  PresentFrom(c, j + 1, t, q)
    <2>1. j + 1 \in 1..Len(b) /\ b[j + 1] \in Says(q) /\ j + 1 \in Nat \ {0}
      BY <1>1, <1>4
    <2>2. PresentFrom(b, (j + 1) + 1, t, q)
      BY <2>1 DEF Ordered
    <2> QED
      BY <1>3, <2>1, <2>2
  <1>5. ASSUME NEW q \in PeerId, NEW k \in PublicKey, t[q] # None, t[q].key = k
        PROVE  Quiet(c, Presence(q)) \/ Stands(c, Comes(q, k), Presence(q))
    BY <1>2, <1>5 DEF Ordered
  <1>6. ASSUME NEW q \in PeerId, NEW k \in PublicKey, NEW p \in PeerId \ {q},
               NEW i \in 1..Len(c), NEW j \in 1..Len(c),
               i < j, c[i] \in Comes(q, k), c[j] \in Comes(p, k)
        PROVE  \E l \in (i + 1)..(j - 1) : c[l] \in Goes(q)
    <2>1. /\ i + 1 \in 1..Len(b) /\ j + 1 \in 1..Len(b) /\ i + 1 < j + 1
          /\ b[i + 1] \in Comes(q, k) /\ b[j + 1] \in Comes(p, k)
      BY <1>1, <1>6
    <2>2. PICK l \in ((i + 1) + 1)..((j + 1) - 1) : b[l] \in Goes(q)
      BY <2>1 DEF Ordered
    <2>3. l - 1 \in (i + 1)..(j - 1) /\ c[l - 1] = b[l]
      BY <1>1, <2>2
    <2> QED
      BY <2>2, <2>3
  <1>7. ASSUME NEW q \in PeerId, NEW o \in Room, Stands(c, Gives(q, o), Removals(q, o))
        PROVE  Has(t, mi, q, o)
    BY <1>2, <1>7 DEF Ordered
  <1>8. Ordered(c, t, mi)
    BY <1>4, <1>5, <1>6, <1>7 DEF Ordered
  <1> QED
    BY <1>8 DEF c

-----------------------------------------------------------------------------
(* The list of rooms. When the peers of v are not those that b begins with, b says so. *)
Early(b, t, v) ==
    \A q \in PeerId, k \in PublicKey : v.peers[q] # None /\ v.peers[q].key = k =>
        \/ \E j \in 1..Len(b) : b[j] \in Comes(q, k)
        \/ /\ PresentFrom(b, 1, t, q)
           /\ \A p \in PeerId \ {q}, j \in 1..Len(b) :
                b[j] \in Comes(p, k) => \E i \in 1..(j - 1) : b[i] \in Goes(q)

Owned(t, k, o) == \E p \in PeerId : t[p] # None /\ t[p].key = k /\ o \in t[p].things

(* What is listed and is not there will be taken from the list. *)
Leaving(b, t, v, k, o) ==
    \E q \in PeerId :
        \/ /\ v.peers[q] # None /\ v.peers[q].key = k /\ PresentFrom(b, 1, t, q)
           /\ \E j \in 1..Len(b) : b[j] \in Removals(q, o)
        \/ \E i, j \in 1..Len(b) : i < j /\ b[i] \in Comes(q, k) /\ b[j] \in Removals(q, o)

ListFollows(b, t, mi, E, v) ==
    /\ \A p \in PeerId, o \in Room :
        t[p] # None /\ o \in t[p].things /\ <<p, o>> \notin E
            /\ Quiet(b, Presence(p)) /\ Quiet(b, Touches(p, o)) =>
            v.list[<<t[p].key, o>>] > 0
    /\ \A k \in PublicKey, o \in Room : v.list[<<k, o>>] > 0 => Owned(t, k, o) \/ Leaving(b, t, v, k, o)
    /\ \A o \in Room : Quiet(b, Touches(Local, o)) => (v.list[<<Me, o>>] > 0 <=> o \in mi)

RoomsFollow(b, t, mi, E, v) == PeersFollow(b, t, v) /\ Early(b, t, v) /\ ListFollows(b, t, mi, E, v)

(* What m makes of it. *)
ListHeard(m, v, w) ==
    /\ \A k \in PublicKey, o \in Room :
        LET taken == \E p \in PeerId : /\ v.peers[p] # None /\ v.peers[p].key = k
                                       /\ \/ m.is = "PeerDisconnect" /\ m.peer = p
                                          \/ m.is = "ObjectRemoved" /\ m.peer = p /\ m.object = o
            given == \E p \in PeerId : /\ v.peers[p] # None /\ v.peers[p].key = k
                                       /\ m.is = "ObjectCreated" /\ m.peer = p /\ m.object = o
        IN  w.list[<<k, o>>] > 0 <=> given \/ (v.list[<<k, o>>] > 0 /\ ~taken)
    /\ \A o \in Room :
        w.list[<<Me, o>>] > 0 <=>
            \/ m.is = "ObjectCreated" /\ m.peer = Local /\ m.object = o
            \/ v.list[<<Me, o>>] > 0 /\ ~(m.is = "ObjectRemoved" /\ m.peer = Local /\ m.object = o)

RoomsHeard(m, v, w) ==
    /\ PeersHeard(m, v, w)
    /\ \A q \in PeerId :
        m \notin Presence(q) /\ w.peers[q] # None => v.peers[q] # None /\ w.peers[q].key = v.peers[q].key
    /\ ListHeard(m, v, w)

LEMMA RoomsFollowAppend ==
    ASSUME NEW b \in Seq(Message), NEW m \in Message, NEW t, NEW mi, NEW r, NEW t2, NEW mi2, NEW r2, NEW v,
           NEW E, NEW F, Leaves(m, E, F),
           Ordered(b, t, mi), RoomsFollow(b, t, mi, E, v), Happens(m, t, mi, r, t2, mi2, r2)
    PROVE  RoomsFollow(b \o <<m>>, t2, mi2, F, v)
  <1> DEFINE c == b \o <<m>>
  <1>1. /\ Len(b) \in Nat /\ Len(c) = Len(b) + 1 /\ c[Len(b) + 1] = m
        /\ \A i \in 1..Len(b) : c[i] = b[i]
    BY SaidLast
  <1>2. \A q \in PeerId : PresentFrom(b, 1, t, q) => PresentFrom(c, 1, t2, q)
    <2>1. 1 \in 1..(Len(b) + 1)
      BY <1>1
    <2> QED
      BY <2>1, PresentAppend DEF Happens
  <1>3. \A Y : Quiet(c, Y) <=> Quiet(b, Y) /\ m \notin Y
    BY QuietAppend
  <1>4. PeersFollow(c, t2, v)
    BY PeersFollowAppend DEF Happens, RoomsFollow
  <1> HIDE DEF c
  <1>5. Early(c, t2, v)
    <2> SUFFICES ASSUME NEW q \in PeerId, NEW k \in PublicKey, v.peers[q] # None, v.peers[q].key = k,
                        \A j \in 1..Len(c) : c[j] \notin Comes(q, k)
                 PROVE  /\ PresentFrom(c, 1, t2, q)
                        /\ \A p \in PeerId \ {q}, j \in 1..Len(c) :
                            c[j] \in Comes(p, k) => \E i \in 1..(j - 1) : c[i] \in Goes(q)
      BY DEF Early
    <2>1. \A j \in 1..Len(b) : b[j] \notin Comes(q, k)
      BY <1>1
    <2>2. /\ PresentFrom(b, 1, t, q)
          /\ \A p \in PeerId \ {q}, j \in 1..Len(b) :
                b[j] \in Comes(p, k) => \E i \in 1..(j - 1) : b[i] \in Goes(q)
      BY <2>1 DEF Early, RoomsFollow
    <2>3. ASSUME NEW p \in PeerId \ {q}, NEW j \in 1..Len(c), c[j] \in Comes(p, k)
          PROVE  \E i \in 1..(j - 1) : c[i] \in Goes(q)
      <3>1. CASE j \in 1..Len(b)
        <4>1. PICK i \in 1..(j - 1) : b[i] \in Goes(q)
          BY <1>1, <2>2, <2>3, <3>1
        <4> QED
          BY <1>1, <3>1, <4>1
      <3>2. CASE j = Len(b) + 1
        <4>1. m \in Comes(p, k)
          BY <1>1, <2>3, <3>2
        <4>2. CASE \E i \in 1..Len(b) : b[i] \in Goes(q)
          BY <1>1, <3>2, <4>2
        <4>3. CASE t[q] # None /\ \A i \in 1..Len(b) : b[i] \notin Presence(q)
          <5>1. t[q].key = k
            BY <4>3 DEF Quiet, RoomsFollow, PeersFollow
          <5>2. m \notin Presence(q)
            BY <4>1 DEF Comes, Presence, Goes
          <5>3. t2[q] # None /\ t2[q].key = k
            BY <4>3, <5>1, <5>2 DEF Happens, PeersChange
          <5> QED
            BY <4>1, <5>3 DEF Happens, PeersChange
        <4> QED
          BY <2>2, <4>2, <4>3 DEF PresentFrom
      <3> QED
        BY <1>1, <3>1, <3>2
    <2> QED
      BY <1>2, <2>2, <2>3
  <1>6. ASSUME NEW p \in PeerId, NEW o \in Room, t2[p] # None, o \in t2[p].things,
               <<p, o>> \notin F, Quiet(c, Presence(p)), Quiet(c, Touches(p, o))
        PROVE  v.list[<<t2[p].key, o>>] > 0
    <2>0. p \in Somebody /\ o \in ObjectId /\ p # Local
      BY PeersAssumption DEF Somebody, ObjectId
    <2>1. t[p] # None /\ t2[p].key = t[p].key
      BY <1>3, <1>6 DEF Happens, PeersChange
    <2>2. Has(t, mi, p, o)
      BY <1>3, <1>6, <2>0 DEF Happens, ThingsChange, Has
    <2>3. <<p, o>> \notin E
      BY <1>3, <1>6, <2>0 DEF Leaves
    <2> QED
      BY <1>3, <1>6, <2>0, <2>1, <2>2, <2>3 DEF RoomsFollow, ListFollows, Has
  <1>7. ASSUME NEW k \in PublicKey, NEW o \in Room, v.list[<<k, o>>] > 0
        PROVE  Owned(t2, k, o) \/ Leaving(c, t2, v, k, o)
    <2>1. CASE Leaving(b, t, v, k, o)
      <3>1. PICK q \in PeerId :
                \/ /\ v.peers[q] # None /\ v.peers[q].key = k /\ PresentFrom(b, 1, t, q)
                   /\ \E j \in 1..Len(b) : b[j] \in Removals(q, o)
                \/ \E i, j \in 1..Len(b) : i < j /\ b[i] \in Comes(q, k) /\ b[j] \in Removals(q, o)
        BY <2>1 DEF Leaving
      <3>2. CASE /\ v.peers[q] # None /\ v.peers[q].key = k /\ PresentFrom(b, 1, t, q)
                 /\ \E j \in 1..Len(b) : b[j] \in Removals(q, o)
        <4>1. \E j \in 1..Len(c) : c[j] \in Removals(q, o)
          BY <1>1, <3>2
        <4> QED
          BY <1>2, <3>2, <4>1 DEF Leaving
      <3>3. CASE \E i, j \in 1..Len(b) : i < j /\ b[i] \in Comes(q, k) /\ b[j] \in Removals(q, o)
        <4>1. \E i, j \in 1..Len(c) : i < j /\ c[i] \in Comes(q, k) /\ c[j] \in Removals(q, o)
          BY <1>1, <3>3
        <4> QED
          BY <4>1 DEF Leaving
      <3> QED
        BY <3>1, <3>2, <3>3
    <2>2. CASE Owned(t, k, o)
      <3>1. PICK p \in PeerId : t[p] # None /\ t[p].key = k /\ o \in t[p].things
        BY <2>2 DEF Owned
      <3>0. p \in Somebody /\ o \in ObjectId /\ p # Local /\ o \notin Token
        BY PeersAssumption DEF Somebody, ObjectId
      <3>2. CASE m \notin Removals(p, o)
        <4>1. m \notin Presence(p)
          BY <3>2 DEF Removals
        <4>2. t2[p] # None /\ t2[p].key = k
          BY <3>1, <4>1 DEF Happens, PeersChange
        <4>3. m \in Touches(p, o) => m \in Gives(p, o)
          BY <3>0, <3>2, <4>1 DEF Touches, Gives, Removals, Presence
        <4>4. Has(t2, mi2, p, o)
          BY <3>0, <3>1, <4>3 DEF Happens, ThingsChange, Has
        <4> QED
          BY <3>0, <4>2, <4>4 DEF Has, Owned
      <3>3. CASE m \in Removals(p, o)
        <4>1. CASE Quiet(b, Presence(p))
          <5>1. v.peers[p] # None /\ v.peers[p].key = k
            BY <3>1, <4>1 DEF RoomsFollow, PeersFollow
          <5>2. PresentFrom(c, 1, t2, p)
            BY <1>2, <3>1, <4>1 DEF PresentFrom, Quiet
          <5>3. \E j \in 1..Len(c) : c[j] \in Removals(p, o)
            BY <1>1, <3>3
          <5> QED
            BY <5>1, <5>2, <5>3 DEF Leaving
        <4>2. CASE Stands(b, Comes(p, k), Presence(p))
          <5>1. \E i, j \in 1..Len(c) : i < j /\ c[i] \in Comes(p, k) /\ c[j] \in Removals(p, o)
            BY <1>1, <3>3, <4>2 DEF Stands
          <5> QED
            BY <5>1 DEF Leaving
        <4> QED
          BY <3>1, <4>1, <4>2 DEF Ordered
      <3> QED
        BY <3>2, <3>3
    <2> QED
      BY <1>7, <2>1, <2>2 DEF RoomsFollow, ListFollows
  <1>8. ASSUME NEW o \in Room, Quiet(c, Touches(Local, o))
        PROVE  v.list[<<Me, o>>] > 0 <=> o \in mi2
    <2>0. Local \in Somebody /\ o \in ObjectId
      BY DEF Somebody, ObjectId
    <2> QED
      BY <1>3, <1>8, <2>0 DEF Happens, ThingsChange, Has, RoomsFollow, ListFollows
  <1>9. ListFollows(c, t2, mi2, F, v)
    BY <1>6, <1>7, <1>8 DEF ListFollows
  <1>10. RoomsFollow(c, t2, mi2, F, v)
    BY <1>4, <1>5, <1>9 DEF RoomsFollow
  <1> QED
    BY <1>10 DEF c

LEMMA RoomsFollowTail ==
    ASSUME NEW b \in Seq(Message), b # <<>>, NEW t, NEW mi, NEW r,
           \A p \in PeerId : t[p] # None => t[p].key \in PublicKey,
           Told(b, t, mi, r), Ordered(b, t, mi), NEW v, Good(v),
           NEW E, RoomsFollow(b, t, mi, E, v),
           NEW m, m = Head(b), m.is # "RemoteLost", NEW w, RoomsHeard(m, v, w)
    PROVE  RoomsFollow(Tail(b), t, mi, E, w)
  <1> DEFINE c == Tail(b)
  <1>1. /\ Len(b) \in Nat \ {0} /\ Len(c) = Len(b) - 1 /\ m \in Message /\ b[1] = m
        /\ \A i \in 1..Len(c) : c[i] = b[i + 1]
    BY HeardFirst
  <1>2. \A Y : Quiet(b, Y) <=> m \notin Y /\ Quiet(c, Y)
    BY QuietTail
  <1>3. /\ \A q \in PeerId : m \notin Presence(q) /\ PresentFrom(b, 1, t, q) => PresentFrom(c, 1, t, q)
        /\ \A q \in PeerId : m \in Says(q) => PresentFrom(c, 1, t, q)
    <2>1. 1 \in Nat \ {0} /\ 1 + 1 = 2 /\ 1 \in 1..Len(b)
      BY <1>1
    <2>2. \A q \in PeerId : PresentFrom(b, 2, t, q) => PresentFrom(c, 1, t, q)
      BY <2>1, PresentTail
    <2> QED
      BY <1>1, <2>1, <2>2, PresentOn DEF Ordered
  <1>4. PeersFollow(c, t, w)
    BY PeersFollowTail DEF RoomsFollow, RoomsHeard
  <1>5. /\ \A p \in PeerId : m \in Goes(p) /\ Quiet(c, Presence(p)) => t[p] = None
        /\ \A p \in Somebody, o \in ObjectId :
                /\ m \in Gives(p, o) /\ Quiet(c, Touches(p, o)) => Has(t, mi, p, o)
                /\ m \in Takes(p, o) /\ Quiet(c, Touches(p, o)) => ~Has(t, mi, p, o)
    BY ToldHead
  <1>6. \A X : (\E j \in 2..Len(b) : b[j] \in X) => \E j \in 1..Len(c) : c[j] \in X
    <2> SUFFICES ASSUME NEW X, NEW j \in 2..Len(b), b[j] \in X
                 PROVE  \E i \in 1..Len(c) : c[i] \in X
      OBVIOUS
    <2>1. j - 1 \in 1..Len(c) /\ (j - 1) + 1 = j
      BY <1>1
    <2>2. c[j - 1] = b[j]
      BY <1>1, <2>1
    <2> QED
      BY <2>1, <2>2
  <1> HIDE DEF c
  <1>7. \A p, q \in PeerId : v.peers[p] # None /\ v.peers[q] # None /\ v.peers[p].key = v.peers[q].key => p = q
    BY DEF Good, Paired
  <1>8. \A q \in PeerId, k \in PublicKey : m \in Comes(q, k) => w.peers[q] # None /\ w.peers[q].key = k
    BY DEF RoomsHeard, PeersHeard
  <1>9. \A q \in PeerId : m \in Goes(q) => m.is = "PeerDisconnect" /\ m.peer = q /\ w.peers[q] = None
    BY DEF RoomsHeard, PeersHeard, Goes
  <1>10. Early(c, t, w)
    <2> SUFFICES ASSUME NEW q \in PeerId, NEW k \in PublicKey, w.peers[q] # None, w.peers[q].key = k,
                        \A j \in 1..Len(c) : c[j] \notin Comes(q, k)
                 PROVE  /\ PresentFrom(c, 1, t, q)
                        /\ \A p \in PeerId \ {q}, j \in 1..Len(c) :
                            c[j] \in Comes(p, k) => \E i \in 1..(j - 1) : c[i] \in Goes(q)
      BY DEF Early
    <2>1. m \notin Goes(q)
      BY <1>9
    <2>2. CASE m \in Presence(q)
      <3>1. m \in Comes(q, k)
        BY <1>1, <1>8, <2>1, <2>2, PresenceIs
      <3>2. m \in Says(q)
        BY <3>1 DEF Comes, Says
      <3>3. ASSUME NEW p \in PeerId \ {q}, NEW j \in 1..Len(c), c[j] \in Comes(p, k)
            PROVE  \E i \in 1..(j - 1) : c[i] \in Goes(q)
        <4>1. 1 < j + 1 /\ 1 \in 1..Len(b) /\ j + 1 \in 1..Len(b) /\ b[1] \in Comes(q, k) /\ b[j + 1] \in Comes(p, k)
          BY <1>1, <3>1, <3>3
        <4>2. PICK l \in (1 + 1)..((j + 1) - 1) : b[l] \in Goes(q)
          BY <4>1 DEF Ordered
        <4>3. l - 1 \in 1..(j - 1) /\ c[l - 1] = b[l]
          BY <1>1, <4>2
        <4> QED
          BY <4>2, <4>3
      <3> QED
        BY <1>3, <3>2, <3>3
    <2>3. CASE m \notin Presence(q)
      <3>1. v.peers[q] # None /\ v.peers[q].key = k
        BY <2>3 DEF RoomsHeard
      <3>2. \A j \in 1..Len(b) : b[j] \notin Comes(q, k)
        <4>1. m \notin Comes(q, k)
          BY <2>3, Classes
        <4> QED
          BY <1>1, <1>6, <4>1
      <3>3. /\ PresentFrom(b, 1, t, q)
            /\ \A p \in PeerId \ {q}, j \in 1..Len(b) :
                b[j] \in Comes(p, k) => \E i \in 1..(j - 1) : b[i] \in Goes(q)
        BY <3>1, <3>2 DEF RoomsFollow, Early
      <3>4. ASSUME NEW p \in PeerId \ {q}, NEW j \in 1..Len(c), c[j] \in Comes(p, k)
            PROVE  \E i \in 1..(j - 1) : c[i] \in Goes(q)
        <4>1. j + 1 \in 1..Len(b) /\ b[j + 1] \in Comes(p, k)
          BY <1>1, <3>4
        <4>2. PICK i \in 1..((j + 1) - 1) : b[i] \in Goes(q)
          BY <3>3, <4>1
        <4>3. i # 1
          BY <1>1, <2>1, <4>2
        <4>4. i - 1 \in 1..(j - 1) /\ c[i - 1] = b[i]
          BY <1>1, <4>2, <4>3
        <4> QED
          BY <4>2, <4>4
      <3> QED
        BY <1>3, <2>3, <3>3, <3>4
    <2> QED
      BY <2>2, <2>3
  <1>11. ASSUME NEW p \in PeerId, NEW o \in Room, t[p] # None, o \in t[p].things,
                <<p, o>> \notin E, Quiet(c, Presence(p)), Quiet(c, Touches(p, o))
         PROVE  w.list[<<t[p].key, o>>] > 0
    <2> DEFINE k == t[p].key
    <2>0. p \in Somebody /\ o \in ObjectId /\ p # Local /\ o \notin Token /\ k \in PublicKey
      BY <1>11, PeersAssumption DEF Somebody, ObjectId
    <2>1. Has(t, mi, p, o)
      BY <1>11, <2>0 DEF Has
    <2>2. m \notin Takes(p, o)
      BY <1>5, <1>11, <2>0, <2>1
    <2>3. m \notin Presence(p)
      BY <2>0, <2>2 DEF Takes, Presence
    <2>4. v.peers[p] # None /\ v.peers[p].key = k
      BY <1>2, <1>11, <2>3 DEF RoomsFollow, PeersFollow
    <2>5. CASE m.is = "ObjectCreated" /\ m.peer = p /\ m.object = o
      BY <2>0, <2>4, <2>5 DEF RoomsHeard, ListHeard
    <2>6. CASE ~(m.is = "ObjectCreated" /\ m.peer = p /\ m.object = o)
      <3>1. m \notin Touches(p, o)
        BY <2>0, <2>2, <2>6 DEF Touches, Takes
      <3>2. v.list[<<k, o>>] > 0
        BY <1>2, <1>11, <2>3, <3>1 DEF RoomsFollow, ListFollows
      <3>3. ~\E q \in PeerId : /\ v.peers[q] # None /\ v.peers[q].key = k
                               /\ \/ m.is = "PeerDisconnect" /\ m.peer = q
                                  \/ m.is = "ObjectRemoved" /\ m.peer = q /\ m.object = o
        <4>1. ~(m.is = "PeerDisconnect" /\ m.peer = p)
          BY <1>1, <2>3 DEF Presence, Goes
        <4>2. ~(m.is = "ObjectRemoved" /\ m.peer = p /\ m.object = o)
          BY <1>1, <2>2 DEF Takes
        <4> QED
          BY <1>7, <2>4, <4>1, <4>2
      <3> QED
        BY <2>0, <3>2, <3>3 DEF RoomsHeard, ListHeard
    <2> QED
      BY <2>5, <2>6
  <1>12. ASSUME NEW k \in PublicKey, NEW o \in Room, w.list[<<k, o>>] > 0
         PROVE  Owned(t, k, o) \/ Leaving(c, t, w, k, o)
    <2>0. o \in ObjectId /\ o \notin Token
      BY PeersAssumption DEF ObjectId
    <2>1. CASE \E p \in PeerId : /\ v.peers[p] # None /\ v.peers[p].key = k
                                 /\ m.is = "ObjectCreated" /\ m.peer = p /\ m.object = o
      <3>1. PICK p \in PeerId : /\ v.peers[p] # None /\ v.peers[p].key = k
                                /\ m.is = "ObjectCreated" /\ m.peer = p /\ m.object = o
        BY <2>1
      <3>2. m \notin Presence(p) /\ m \in Says(p) /\ m \in Gives(p, o)
            /\ \A q, j : m \notin Comes(q, j)
        BY <1>1, <3>1 DEF Presence, Goes, Says, Gives, Comes
      <3>3. w.peers[p] # None /\ w.peers[p].key = k
        BY <3>1, <3>2 DEF RoomsHeard, PeersHeard
      <3>4. CASE Quiet(c, Removals(p, o))
        <4>1. Stands(b, Gives(p, o), Removals(p, o))
          BY <3>2, <3>4, StandsTail DEF c
        <4>2. Has(t, mi, p, o) /\ p # Local
          BY <4>1, PeersAssumption DEF Ordered
        <4>3. Quiet(c, Presence(p))
          BY <3>4 DEF Quiet, Removals, Presence
        <4>4. t[p].key = k
          BY <1>2, <3>1, <3>2, <4>2, <4>3 DEF RoomsFollow, PeersFollow, Has
        <4> QED
          BY <4>2, <4>4 DEF Has, Owned
      <3>5. CASE ~Quiet(c, Removals(p, o))
        BY <1>3, <3>2, <3>3, <3>5 DEF Quiet, Leaving
      <3> QED
        BY <3>4, <3>5
    <2>2. CASE /\ v.list[<<k, o>>] > 0
               /\ ~\E p \in PeerId : /\ v.peers[p] # None /\ v.peers[p].key = k
                                     /\ \/ m.is = "PeerDisconnect" /\ m.peer = p
                                        \/ m.is = "ObjectRemoved" /\ m.peer = p /\ m.object = o
      <3>1. Owned(t, k, o) \/ Leaving(b, t, v, k, o)
        BY <2>2 DEF RoomsFollow, ListFollows
      <3>2. ASSUME NEW q \in PeerId, NEW i \in 1..Len(b), NEW j \in 1..Len(b),
                   i < j, b[i] \in Comes(q, k), b[j] \in Removals(q, o)
            PROVE  Leaving(c, t, w, k, o)
        <4>1. CASE i = 1
          <5>1. m \in Comes(q, k) /\ m \in Says(q)
            BY <1>1, <3>2, <4>1 DEF Comes, Says
          <5>2. \E l \in 1..Len(c) : c[l] \in Removals(q, o)
            BY <1>1, <1>6, <3>2, <4>1
          <5> QED
            BY <1>3, <1>8, <5>1, <5>2 DEF Leaving
        <4>2. CASE i # 1
          <5>1. /\ i - 1 \in 1..Len(c) /\ j - 1 \in 1..Len(c) /\ i - 1 < j - 1
                /\ c[i - 1] \in Comes(q, k) /\ c[j - 1] \in Removals(q, o)
            BY <1>1, <3>2, <4>2
          <5> QED
            BY <5>1 DEF Leaving
        <4> QED
          BY <4>1, <4>2
      <3>3. ASSUME NEW q \in PeerId, v.peers[q] # None, v.peers[q].key = k, PresentFrom(b, 1, t, q),
                   NEW j \in 1..Len(b), b[j] \in Removals(q, o)
            PROVE  Leaving(c, t, w, k, o)
        <4>1. m \notin Goes(q)
          BY <1>9, <2>2, <3>3
        <4>2. m \notin Presence(q)
          <5>1. Goes(q) \subseteq Presence(q)
            BY Classes
          <5>2. CASE t[q] # None /\ \A i \in 1..Len(b) : b[i] \notin Presence(q)
            BY <1>1, <5>2
          <5>3. CASE \E l \in 1..Len(b) : b[l] \in Goes(q) /\ \A i \in 1..(l - 1) : b[i] \notin Presence(q)
            BY <1>1, <4>1, <5>3
          <5> QED
            BY <3>3, <5>2, <5>3 DEF PresentFrom
        <4>3. PresentFrom(c, 1, t, q)
          BY <1>3, <3>3, <4>2
        <4>4. m \notin Removals(q, o)
          BY <2>2, <3>3, <4>2 DEF Removals
        <4>5. \E l \in 1..Len(c) : c[l] \in Removals(q, o)
          BY <1>1, <1>6, <3>3, <4>4
        <4>6. CASE w.peers[q] # None
          <5>1. w.peers[q].key = k
            BY <3>3, <4>2, <4>6 DEF RoomsHeard
          <5> QED
            BY <4>3, <4>5, <4>6, <5>1 DEF Leaving
        <4>7. CASE w.peers[q] = None
          <5>1. PICK p \in PeerId \ {q} : m \in Comes(p, k)
            BY <3>3, <4>2, <4>7 DEF RoomsHeard, PeersHeard
          <5>2. m \in Says(p) /\ b[1] \in Comes(p, k)
            BY <1>1, <5>1 DEF Comes, Says
          <5>3. PICK l \in 1..Len(b) : b[l] \in Comes(q, k)
            <6>1. 1 \in 1..Len(b) /\ \A i \in 1..(1 - 1) : FALSE
              BY <1>1
            <6> QED
              BY <3>3, <5>2, <6>1 DEF RoomsFollow, Early
          <5>4. l # 1
            BY <1>1, <4>2, <5>3, Classes
          <5>5. 1 \in 1..Len(b) /\ 1 < l
            BY <1>1, <5>4
          <5>6. PICK i \in (1 + 1)..(l - 1) : b[i] \in Goes(p)
            BY <5>2, <5>3, <5>5 DEF Ordered
          <5>7. Goes(p) \subseteq Removals(p, o)
            BY DEF Goes, Removals, Presence
          <5>8. \E j2 \in 1..Len(c) : c[j2] \in Removals(p, o)
            BY <1>1, <1>6, <5>6, <5>7
          <5> QED
            BY <1>3, <1>8, <5>1, <5>2, <5>8 DEF Leaving
        <4> QED
          BY <4>6, <4>7
      <3> QED
        BY <3>1, <3>2, <3>3 DEF Leaving
    <2> QED
      BY <1>12, <2>1, <2>2 DEF RoomsHeard, ListHeard
  <1>13. ASSUME NEW o \in Room, Quiet(c, Touches(Local, o))
         PROVE  w.list[<<Me, o>>] > 0 <=> o \in mi
    <2>0. Local \in Somebody /\ o \in ObjectId /\ o \notin Token /\ Local \notin PeerId
      BY PeersAssumption DEF Somebody, ObjectId
    <2>1. CASE m.is = "ObjectCreated" /\ m.peer = Local /\ m.object = o
      <3>1. m \in Gives(Local, o)
        BY <1>1, <2>1 DEF Gives
      <3> QED
        BY <1>5, <1>13, <2>0, <2>1, <3>1 DEF RoomsHeard, ListHeard, Has
    <2>2. CASE m.is = "ObjectRemoved" /\ m.peer = Local /\ m.object = o
      <3>1. m \in Takes(Local, o)
        BY <1>1, <2>2 DEF Takes
      <3> QED
        BY <1>5, <1>13, <2>0, <2>2, <3>1 DEF RoomsHeard, ListHeard, Has
    <2>3. CASE /\ ~(m.is = "ObjectCreated" /\ m.peer = Local /\ m.object = o)
               /\ ~(m.is = "ObjectRemoved" /\ m.peer = Local /\ m.object = o)
      <3>1. m \notin Touches(Local, o)
        BY <2>0, <2>3 DEF Touches
      <3> QED
        BY <1>2, <1>13, <2>3, <3>1 DEF RoomsHeard, ListHeard, RoomsFollow, ListFollows
    <2> QED
      BY <2>1, <2>2, <2>3
  <1>14. ListFollows(c, t, mi, E, w)
    BY <1>11, <1>12, <1>13 DEF ListFollows
  <1>15. RoomsFollow(c, t, mi, E, w)
    BY <1>4, <1>10, <1>14 DEF RoomsFollow
  <1> QED
    BY <1>15 DEF c

RoomsTyped(v) ==
    /\ {"open", "me", "peers", "keys", "active", "list", "lost"} \subseteq DOMAIN v
    /\ v.open \in {"none", "opening", "open"}
    /\ v.me \in {Me, None}
    /\ v.active \in StableId
    /\ v.lost \in BOOLEAN
    /\ v.list \in [StableId -> Nat]
    /\ \A k \in PublicKey \cup {Me}, o \in ObjectId : v.list[<<k, o>>] > 0 => o \in Room

LEMMA ListChanges ==
    ASSUME NEW list \in [StableId -> Nat], NEW ids, NEW one
    PROVE  /\ Without(list, ids) \in [StableId -> Nat]
           /\ \A id \in StableId : Without(list, ids)[id] > 0 <=> list[id] > 0 /\ id \notin ids
           /\ Plus(list, one, 1) \in [StableId -> Nat]
           /\ \A id \in StableId : Plus(list, one, 1)[id] > 0 <=> list[id] > 0 \/ id = one
  <1>1. /\ Without(list, ids) \in [StableId -> Nat]
        /\ \A id \in StableId : Without(list, ids)[id] > 0 <=> list[id] > 0 /\ id \notin ids
    BY DEF Without
  <1>2. CASE one \in StableId
    <2>1. list[one] + 1 \in Nat /\ list[one] + 1 > 0
      BY <1>2
    <2> QED
      BY <1>1, <1>2, <2>1 DEF Plus
  <1>3. CASE one \notin StableId
    BY <1>1, <1>3 DEF Plus
  <1> QED
    BY <1>2, <1>3

(* A component of which only the peers and the list change. *)
LEMMA RoomsStayTyped ==
    ASSUME NEW v, RoomsTyped(v), NEW w, DOMAIN w = DOMAIN v,
           \A f \in DOMAIN v \ {"peers", "keys", "list"} : w[f] = v[f],
           w.list \in [StableId -> Nat],
           \A k \in PublicKey \cup {Me}, o \in ObjectId : w.list[<<k, o>>] > 0 => v.list[<<k, o>>] > 0 \/ o \in Room
    PROVE  RoomsTyped(w) /\ w.open = v.open /\ w.me = v.me /\ w.lost = v.lost
  <1>1. w.open = v.open /\ w.me = v.me /\ w.lost = v.lost /\ w.active = v.active
    BY DEF RoomsTyped
  <1> QED
    BY <1>1 DEF RoomsTyped

LEMMA RoomsHearLost ==
    ASSUME NEW v, RoomsTyped(v), NEW m \in Message, m.is = "RemoteLost", NEW w, w = RoomsUpdate(v, m)
    PROVE  RoomsTyped(w) /\ w.open = v.open /\ w.me = v.me /\ w.lost
  <1> DEFINE l == Without(v.list, OfKey(v.me))
  <1>1. w = [v EXCEPT !.list = l, !.lost = TRUE]
    BY DEF RoomsUpdate
  <1>2. l \in [StableId -> Nat] /\ \A id \in StableId : l[id] > 0 => v.list[id] > 0
    BY ListChanges DEF RoomsTyped
  <1> HIDE DEF l
  <1>3. /\ DOMAIN w = DOMAIN v /\ w.list = l /\ w.lost = TRUE
        /\ \A f \in DOMAIN v \ {"list", "lost"} : w[f] = v[f]
    BY <1>1 DEF RoomsTyped
  <1>4. w.open = v.open /\ w.me = v.me /\ w.active = v.active
    BY <1>3 DEF RoomsTyped
  <1>5. \A k \in PublicKey \cup {Me}, o \in ObjectId : <<k, o>> \in StableId
    BY DEF StableId
  <1> QED
    BY <1>2, <1>3, <1>4, <1>5 DEF RoomsTyped

LEMMA RoomsHearPeers ==
    ASSUME NEW v, Good(v), RoomsTyped(v), NEW m \in Message,
           m.is \in {"PeerConnected", "PeerUpdate", "PeerJoin", "PeerLeave"}, NEW w, w = RoomsUpdate(v, m)
    PROVE  /\ RoomsTyped(w) /\ w.open = v.open /\ w.me = v.me /\ w.lost = v.lost
           /\ RoomsHeard(m, v, w)
  <1>1. /\ DOMAIN w = DOMAIN v /\ \A f \in DOMAIN v \ {"peers", "keys"} : w[f] = v[f]
        /\ PeersHeard(m, v, w)
        /\ \A q \in PeerId :
            m \notin Presence(q) /\ w.peers[q] # None => v.peers[q] # None /\ w.peers[q].key = v.peers[q].key
    <2>1. CASE m.is = "PeerConnected"
      <3>1. w = Insert(v, m.peer, m.key, m.room, v.active)
            /\ m.peer \in PeerId /\ m.key \in PublicKey /\ m.room \in StableId /\ m \in Presence(m.peer)
        BY <2>1 DEF RoomsUpdate, Message, Presence
      <3>2. /\ DOMAIN w = DOMAIN v /\ \A f \in DOMAIN v \ {"peers", "keys"} : w[f] = v[f]
            /\ w.peers[m.peer] # None /\ w.peers[m.peer].key = m.key /\ w.peers[m.peer].room = m.room
            /\ \A q \in PeerId \ {m.peer} :
                w.peers[q] = IF v.peers[q] # None /\ v.peers[q].key = m.key THEN None ELSE v.peers[q]
        BY <3>1, InsertPeers
      <3>3. PeersHeard(m, v, w)
        BY <2>1, <3>2, HeardPeers
      <3> QED
        BY <3>1, <3>2, <3>3
    <2>2. CASE m.is = "PeerUpdate" /\ v.peers[m.peer] # None
      <3>1. m.peer \in PeerId /\ m.room \in StableId /\ w = Placed(v, m.peer, m.room, v.active)
        BY <2>2 DEF RoomsUpdate, Message, Placed
      <3>2. /\ DOMAIN w = DOMAIN v /\ \A f \in DOMAIN v \ {"peers"} : w[f] = v[f]
            /\ w.peers[m.peer] # None /\ w.peers[m.peer].key = v.peers[m.peer].key
            /\ w.peers[m.peer].room = m.room
            /\ \A q \in PeerId \ {m.peer} : w.peers[q] = v.peers[q]
        BY <2>2, <3>1, PlacedPeers
      <3>3. PeersHeard(m, v, w)
        BY <2>2, <3>2, HeardPeers
      <3> QED
        BY <2>2, <3>2, <3>3
    <2>3. CASE m.is = "PeerUpdate" /\ v.peers[m.peer] = None
      <3>1. w = v
        BY <2>3 DEF RoomsUpdate
      <3> QED
        BY <2>3, <3>1, HeardPeers
    <2>4. CASE m.is \in {"PeerJoin", "PeerLeave"}
      <3>1. w = v
        BY <2>4 DEF RoomsUpdate
      <3> QED
        BY <2>4, <3>1, HeardPeers DEF Alike
    <2> QED
      BY <2>1, <2>2, <2>3, <2>4
  <1>2. w.list = v.list
    BY <1>1 DEF RoomsTyped
  <1>3. ListHeard(m, v, w)
    BY <1>2 DEF ListHeard
  <1>4. RoomsTyped(w) /\ w.open = v.open /\ w.me = v.me /\ w.lost = v.lost
    BY <1>1, <1>2, RoomsStayTyped DEF RoomsTyped
  <1> QED
    BY <1>1, <1>3, <1>4 DEF RoomsHeard

LEMMA RoomsHearDisconnect ==
    ASSUME NEW v, Good(v), RoomsTyped(v), NEW m \in Message, m.is = "PeerDisconnect",
           NEW w, w = RoomsUpdate(v, m)
    PROVE  /\ RoomsTyped(w) /\ w.open = v.open /\ w.me = v.me /\ w.lost = v.lost
           /\ RoomsHeard(m, v, w)
  <1>0. /\ m.peer \in PeerId
        /\ \A k \in PublicKey \cup {Me}, o \in ObjectId : <<k, o>> \in StableId /\ <<k, o>>[1] = k
        /\ Room \subseteq ObjectId
    BY DEF Message, StableId, ObjectId
  <1>1. CASE v.peers[m.peer] = None
    <2>1. w = v
      BY <1>1 DEF RoomsUpdate
    <2>2. PeersHeard(m, v, w)
      BY <1>1, <2>1, HeardPeers
    <2>3. ListHeard(m, v, w)
      BY <1>1, <2>1 DEF ListHeard
    <2> QED
      BY <2>1, <2>2, <2>3 DEF RoomsHeard
  <1>2. CASE v.peers[m.peer] # None
    <2> DEFINE u == Remove(v, m.peer)
               k == v.peers[m.peer].key
               l == Without(v.list, OfKey(k))
    <2>1. /\ DOMAIN u = DOMAIN v /\ \A f \in DOMAIN v \ {"peers", "keys"} : u[f] = v[f]
          /\ u.peers[m.peer] = None
          /\ \A q \in PeerId \ {m.peer} : u.peers[q] = v.peers[q]
      BY <1>0, RemovePeers
    <2>2. u.list = v.list
      BY <2>1 DEF RoomsTyped
    <2>3. w = [u EXCEPT !.list = Without(u.list, OfKey(k))]
      BY <1>2 DEF RoomsUpdate
    <2>4. k \in PublicKey
      BY <1>0, <1>2 DEF Good, Fields, KnownPeer
    <2>5. l \in [StableId -> Nat]
          /\ \A id \in StableId : l[id] > 0 <=> v.list[id] > 0 /\ id[1] # k
      BY ListChanges DEF RoomsTyped, OfKey
    <2> HIDE DEF u, k
    <2>6. w = [u EXCEPT !.list = l]
      BY <2>2, <2>3
    <2> HIDE DEF l
    <2>7. /\ DOMAIN w = DOMAIN v /\ w.list = l /\ w.peers = u.peers
          /\ \A f \in DOMAIN v \ {"peers", "keys", "list"} : w[f] = v[f]
      BY <2>1, <2>6 DEF RoomsTyped
    <2>8. RoomsTyped(w) /\ w.open = v.open /\ w.me = v.me /\ w.lost = v.lost
      BY <1>0, <2>5, <2>7, RoomsStayTyped
    <2>9. PeersHeard(m, v, w)
      BY <2>1, <2>7, HeardPeers
    <2>10. \A q \in PeerId :
            m \notin Presence(q) /\ w.peers[q] # None => v.peers[q] # None /\ w.peers[q].key = v.peers[q].key
      BY <2>1, <2>7
    <2>11. \A j \in PublicKey \cup {Me}, o \in Room : w.list[<<j, o>>] > 0 <=> v.list[<<j, o>>] > 0 /\ j # k
      BY <1>0, <2>5, <2>7
    <2>12. Me # k /\ \A j \in PublicKey : j = k <=> \E p \in PeerId :
                v.peers[p] # None /\ v.peers[p].key = j /\ m.peer = p
      BY <1>0, <1>2, <2>4, PeersAssumption DEF k
    <2>13. ListHeard(m, v, w)
      BY <2>11, <2>12 DEF ListHeard
    <2> QED
      BY <2>8, <2>9, <2>10, <2>13 DEF RoomsHeard
  <1> QED
    BY <1>1, <1>2

LEMMA RoomsHearObject ==
    ASSUME NEW v, Good(v), RoomsTyped(v), NEW m \in Message, m.is \in {"ObjectCreated", "ObjectRemoved"},
           NEW w, w = RoomsUpdate(v, m)
    PROVE  /\ RoomsTyped(w) /\ w.open = v.open /\ w.me = v.me /\ w.lost = v.lost
           /\ v.me = Me => RoomsHeard(m, v, w)
  <1> DEFINE id == ToStableId(v, m.peer, m.object)
             l == w.list
  <1>0. /\ m.peer \in PeerId \cup {Local} /\ m.object \in ObjectId /\ Local \notin PeerId
        /\ \A k \in PublicKey \cup {Me}, o \in ObjectId : <<k, o>> \in StableId /\ <<k, o>> # Zero
        /\ Room \subseteq ObjectId
    BY ZeroIsNowhere DEF Message, StableId, ObjectId
  <1>1. /\ DOMAIN w = DOMAIN v /\ \A f \in DOMAIN v \ {"list"} : w[f] = v[f]
        /\ w.list = IF m.is = "ObjectRemoved" THEN Without(v.list, {id})
                    ELSE IF m.object \in Room THEN Plus(v.list, id, 1) ELSE v.list
    BY DEF RoomsUpdate, RoomsTyped
  <1>2. \A k \in PublicKey, o \in ObjectId : id = <<k, o>> <=>
            o = m.object /\ \E p \in PeerId : v.peers[p] # None /\ v.peers[p].key = k /\ m.peer = p
    BY <1>0, PeersAssumption DEF ToStableId, RoomsTyped
  <1>3. v.me = Me => \A o \in ObjectId : id = <<Me, o>> <=> o = m.object /\ m.peer = Local
    <2>1. \A p \in PeerId : v.peers[p] # None => v.peers[p].key # Me
      BY PeersAssumption DEF Good, Fields, KnownPeer
    <2> QED
      BY <1>0, <2>1 DEF ToStableId
  <1>4. \A k \in PublicKey \cup {Me}, o \in ObjectId : id = <<k, o>> => o = m.object
    <2>1. id = Zero \/ id[2] = m.object
      BY DEF ToStableId
    <2> QED
      BY <1>0, <2>1
  <1> HIDE DEF id
  <1>5. /\ l \in [StableId -> Nat]
        /\ \A x \in StableId : l[x] > 0 <=>
            \/ m.is = "ObjectRemoved" /\ v.list[x] > 0 /\ x # id
            \/ m.is = "ObjectCreated" /\ (v.list[x] > 0 \/ (m.object \in Room /\ x = id))
    BY <1>1, ListChanges DEF RoomsTyped
  <1>6. RoomsTyped(w) /\ w.open = v.open /\ w.me = v.me /\ w.lost = v.lost
    <2>1. ASSUME NEW k \in PublicKey \cup {Me}, NEW o \in ObjectId, w.list[<<k, o>>] > 0
          PROVE  v.list[<<k, o>>] > 0 \/ o \in Room
      BY <1>0, <1>4, <1>5, <2>1
    <2>2. \A f \in DOMAIN v \ {"peers", "keys", "list"} : w[f] = v[f]
      BY <1>1
    <2> QED
      BY <1>1, <1>5, <2>1, <2>2, RoomsStayTyped
  <1>7. w.peers = v.peers
    BY <1>1 DEF RoomsTyped
  <1>8. PeersHeard(m, v, w)
    BY <1>7, HeardPeers DEF Alike
  <1> HIDE DEF l
  <1>9. ASSUME v.me = Me PROVE ListHeard(m, v, w)
    <2>1. \A k \in PublicKey, o \in Room : id = <<k, o>> <=>
            o = m.object /\ \E p \in PeerId : v.peers[p] # None /\ v.peers[p].key = k /\ m.peer = p
      BY <1>0, <1>2
    <2>2. \A o \in Room : id = <<Me, o>> <=> o = m.object /\ m.peer = Local
      BY <1>0, <1>3, <1>9
    <2>3. \A k \in PublicKey \cup {Me}, o \in Room : w.list[<<k, o>>] > 0 <=>
            \/ m.is = "ObjectRemoved" /\ v.list[<<k, o>>] > 0 /\ id # <<k, o>>
            \/ m.is = "ObjectCreated" /\ (v.list[<<k, o>>] > 0 \/ (m.object \in Room /\ id = <<k, o>>))
      BY <1>0, <1>5 DEF l
    <2> QED
      BY <2>1, <2>2, <2>3 DEF ListHeard
  <1> QED
    BY <1>6, <1>7, <1>8, <1>9 DEF RoomsHeard

LEMMA RoomsHears ==
    ASSUME NEW v, Good(v), RoomsTyped(v), NEW m \in Message, m.is # "Config", NEW w, w = RoomsUpdate(v, m)
    PROVE  /\ RoomsTyped(w) /\ w.open = v.open /\ w.me = v.me
           /\ m.is = "RemoteLost" => w.lost
           /\ m.is # "RemoteLost" => w.lost = v.lost /\ (v.me = Me => RoomsHeard(m, v, w))
  BY RoomsHearLost, RoomsHearPeers, RoomsHearDisconnect, RoomsHearObject DEF Message

LEMMA AtMostOne ==
    ASSUME NEW S, \A x, y \in S : x = y
    PROVE  Cardinality(S) \in Nat /\ (Cardinality(S) > 0 <=> S # {})
  <1>1. CASE S = {}
    BY <1>1, FS_EmptySet
  <1>2. CASE S # {}
    <2>1. PICK x \in S : TRUE
      BY <1>2
    <2>2. S = {x}
      BY <2>1
    <2>3. Cardinality(S) = 1
      BY <2>2, FS_Singleton
    <2> QED
      BY <1>2, <2>3
  <1> QED
    BY <1>1, <1>2

(* The rooms of a snapshot: each is listed once. *)
LEMMA RoomsCounted ==
    ASSUME PInv, RoomsTyped(rooms), NEW w, w = RoomsInitialized(rooms)
    PROVE  /\ RoomsTyped(w) /\ w.open = rooms.open /\ w.me = Me /\ w.lost = rooms.lost
           /\ \A p \in PeerId :
                /\ (w.peers[p] = None) <=> (table[p] = None)
                /\ table[p] # None => w.peers[p].key = table[p].key /\ w.peers[p].room = table[p].room
           /\ \A k \in PublicKey, o \in Room : w.list[<<k, o>>] > 0 <=> Owned(table, k, o)
           /\ \A o \in Room : w.list[<<Me, o>>] > 0 <=> o \in mine
  <1> DEFINE k == Copied(rooms, room)
             u == [k EXCEPT !.active = room]
             all == {id \in AllThings : id[2] \in Room}
             of(id) == {r \in all : ToStableId(u, r[1], r[2]) = id}
             l == [id \in StableId |-> Cardinality(of(id))]
  <1>1. w = [u EXCEPT !.list = l]
    BY DEF RoomsInitialized
  <1>2. /\ DOMAIN k = DOMAIN rooms /\ k.me = Me
        /\ \A f \in DOMAIN rooms \ {"me", "peers", "keys"} : k[f] = rooms[f]
        /\ \A p \in PeerId :
            /\ (k.peers[p] = None) <=> (table[p] = None)
            /\ table[p] # None => k.peers[p].key = table[p].key /\ k.peers[p].room = table[p].room
    BY CopiedPeers DEF PInv, RoomsTyped
  <1> HIDE DEF k
  <1>3. /\ DOMAIN u = DOMAIN rooms /\ u.me = Me /\ u.peers = k.peers /\ u.active = room
        /\ \A f \in DOMAIN rooms \ {"me", "peers", "keys", "active"} : u[f] = rooms[f]
    BY <1>2 DEF RoomsTyped
  <1> HIDE DEF u
  <1>4. \A x \in StableId : of(x) = {r \in AllThings : r[2] \in Room /\ ToStableId(u, r[1], r[2]) = x}
    OBVIOUS
  <1>5. /\ \A p \in Somebody, o \in ObjectId : <<p, o>> \in AllThings <=> Has(table, mine, p, o)
        /\ AllThings \subseteq Somebody \X ObjectId
    BY AllThingsAre
  <1>6. /\ Local \notin PeerId /\ Local \in Somebody /\ Somebody = PeerId \cup {Local}
        /\ Room \subseteq ObjectId /\ Me \notin PublicKey
        /\ \A j \in PublicKey \cup {Me}, o \in ObjectId : <<j, o>> \in StableId /\ <<j, o>> # Zero
    BY PeersAssumption, ZeroIsNowhere DEF Somebody, ObjectId, StableId
  <1>7. \A p \in PeerId : table[p] # None => table[p].key \in PublicKey
    BY DEF PInv, TableSound, Info
  <1>8. \A p, q \in PeerId : table[p] # None /\ table[q] # None /\ table[p].key = table[q].key => p = q
    BY DEF PInv, TableSound, Connected
  <1> DEFINE key(p) == IF p = Local THEN Me ELSE table[p].key
  <1>9. \A p \in Somebody, o \in ObjectId : Has(table, mine, p, o) => ToStableId(u, p, o) = <<key(p), o>>
    BY <1>2, <1>3, <1>6 DEF ToStableId, Has
  <1>10. \A p, q \in Somebody, o, x \in ObjectId :
            Has(table, mine, p, o) /\ Has(table, mine, q, x) /\ key(p) = key(q) => p = q
    BY <1>6, <1>7, <1>8 DEF Has
  <1> HIDE DEF key
  <1>11. ASSUME NEW x \in StableId
         PROVE  Cardinality(of(x)) \in Nat /\ (Cardinality(of(x)) > 0 <=> of(x) # {})
    <2>1. ASSUME NEW r \in of(x), NEW s \in of(x)
          PROVE  r = s
      <3>1. PICK p \in Somebody, o \in ObjectId : r = <<p, o>>
        BY <1>4, <1>5, <2>1
      <3>2. PICK q \in Somebody, y \in ObjectId : s = <<q, y>>
        BY <1>4, <1>5, <2>1
      <3>3. Has(table, mine, p, o) /\ Has(table, mine, q, y)
        BY <1>4, <1>5, <2>1, <3>1, <3>2
      <3>4. x = <<key(p), o>> /\ x = <<key(q), y>>
        BY <1>4, <1>9, <2>1, <3>1, <3>2, <3>3
      <3> QED
        BY <1>10, <3>1, <3>2, <3>3, <3>4
    <2> QED
      BY <2>1, AtMostOne
  <1>12. ASSUME NEW j \in PublicKey \cup {Me}, NEW o \in ObjectId
         PROVE  of(<<j, o>>) # {} <=> o \in Room /\ \E p \in Somebody : Has(table, mine, p, o) /\ key(p) = j
    <2>1. ASSUME NEW r \in of(<<j, o>>)
          PROVE  o \in Room /\ \E p \in Somebody : Has(table, mine, p, o) /\ key(p) = j
      <3>1. PICK p \in Somebody, y \in ObjectId : r = <<p, y>>
        BY <1>4, <1>5, <2>1
      <3>2. Has(table, mine, p, y) /\ y \in Room
        BY <1>4, <1>5, <2>1, <3>1
      <3>3. <<j, o>> = <<key(p), y>>
        BY <1>4, <1>9, <2>1, <3>1, <3>2
      <3> QED
        BY <3>2, <3>3
    <2>2. ASSUME o \in Room, NEW p \in Somebody, Has(table, mine, p, o), key(p) = j
          PROVE  of(<<j, o>>) # {}
      <3>1. <<p, o>> \in AllThings /\ ToStableId(u, p, o) = <<j, o>>
        BY <1>5, <1>9, <2>2
      <3>2. <<p, o>> \in of(<<j, o>>)
        BY <2>2, <3>1
      <3> QED
        BY <3>2
    <2> QED
      BY <2>1, <2>2
  <1> HIDE DEF of
  <1>13. l \in [StableId -> Nat] /\ \A x \in StableId : l[x] > 0 <=> of(x) # {}
    BY <1>11
  <1> HIDE DEF l
  <1>14. /\ w.list = l /\ DOMAIN w = DOMAIN rooms /\ w.me = Me /\ w.peers = k.peers /\ w.active = room
         /\ w.open = rooms.open /\ w.lost = rooms.lost
    BY <1>1, <1>3 DEF RoomsTyped
  <1>15. \A j \in PublicKey \cup {Me}, o \in ObjectId : w.list[<<j, o>>] > 0 <=>
            o \in Room /\ \E p \in Somebody : Has(table, mine, p, o) /\ key(p) = j
    BY <1>6, <1>12, <1>13, <1>14
  <1>16. RoomsTyped(w)
    BY <1>13, <1>14, <1>15 DEF RoomsTyped, PInv
  <1>17. \A j \in PublicKey, o \in Room : w.list[<<j, o>>] > 0 <=> Owned(table, j, o)
    BY <1>6, <1>15 DEF Owned, Has, key
  <1>18. \A o \in Room : w.list[<<Me, o>>] > 0 <=> o \in mine
    BY <1>6, <1>7, <1>15 DEF Has, key
  <1> QED
    BY <1>2, <1>14, <1>16, <1>17, <1>18

LEMMA RoomsSnapshot ==
    ASSUME PInv, RoomsTyped(rooms), NEW t, NEW mi, NEW r, NEW E, SamePeers(table, t),
           \A p \in PeerId, o \in ObjectId : <<p, o>> \notin E => (o \in t[p].things <=> o \in table[p].things),
           \A p \in PeerId, o \in ObjectId : o \in table[p].things => o \in t[p].things,
           \A o \in ObjectId : Quiet(bus, Touches(Local, o)) => (o \in mi <=> o \in mine),
           Told(bus, t, mi, r), Ordered(bus, t, mi),
           NEW w, w = RoomsInitialized(rooms)
    PROVE  /\ RoomsTyped(w) /\ w.open = rooms.open /\ w.me = Me /\ w.lost = rooms.lost
           /\ RoomsFollow(bus, t, mi, E, w)
  <1>0. /\ Room \subseteq ObjectId
        /\ \A p \in PeerId : table[p] # None => table[p].key \in PublicKey
    BY DEF ObjectId, PInv, TableSound, Info
  <1>1. /\ RoomsTyped(w) /\ w.open = rooms.open /\ w.me = Me /\ w.lost = rooms.lost
        /\ \A p \in PeerId :
            /\ (w.peers[p] = None) <=> (table[p] = None)
            /\ table[p] # None => w.peers[p].key = table[p].key /\ w.peers[p].room = table[p].room
        /\ \A k \in PublicKey, o \in Room : w.list[<<k, o>>] > 0 <=> Owned(table, k, o)
        /\ \A o \in Room : w.list[<<Me, o>>] > 0 <=> o \in mine
    BY RoomsCounted
  <1>2. \A p \in PeerId :
            /\ (w.peers[p] = None) <=> (t[p] = None)
            /\ t[p] # None => w.peers[p].key = t[p].key /\ w.peers[p].room = t[p].room
    BY <1>1 DEF SamePeers
  <1>3. PeersFollow(bus, t, w)
    BY <1>2 DEF PeersFollow
  <1>4. Early(bus, t, w)
    <2> SUFFICES ASSUME NEW q \in PeerId, NEW k \in PublicKey, w.peers[q] # None, w.peers[q].key = k,
                        \A j \in 1..Len(bus) : bus[j] \notin Comes(q, k)
                 PROVE  /\ PresentFrom(bus, 1, t, q)
                        /\ \A p \in PeerId \ {q}, j \in 1..Len(bus) :
                            bus[j] \in Comes(p, k) => \E i \in 1..(j - 1) : bus[i] \in Goes(q)
      BY DEF Early
    <2>1. t[q] # None /\ t[q].key = k
      BY <1>2
    <2>2. Quiet(bus, Presence(q))
      BY <2>1 DEF Ordered, Stands
    <2>3. \A p \in PeerId \ {q}, j \in 1..Len(bus) : bus[j] \notin Comes(p, k)
      <3> SUFFICES ASSUME NEW p \in PeerId \ {q}, NEW j \in 1..Len(bus), bus[j] \in Comes(p, k)
                   PROVE  FALSE
        OBVIOUS
      <3>1. Stands(bus, Comes(p, k), Comes(q, k))
        <4>1. \A i \in (j + 1)..Len(bus) : i \in 1..Len(bus)
          BY DEF PInv
        <4> QED
          BY <4>1 DEF Stands
      <3> QED
        BY <2>1, <3>1 DEF Told
    <2> QED
      BY <2>1, <2>2, <2>3 DEF PresentFrom, Quiet
  <1>5. ASSUME NEW p \in PeerId, NEW o \in Room, t[p] # None, o \in t[p].things, <<p, o>> \notin E
        PROVE  w.list[<<t[p].key, o>>] > 0
    <2>1. table[p] # None /\ table[p].key = t[p].key /\ o \in table[p].things
      BY <1>0, <1>5 DEF SamePeers
    <2>2. Owned(table, t[p].key, o) /\ t[p].key \in PublicKey
      BY <1>0, <2>1 DEF Owned
    <2> QED
      BY <1>1, <2>2
  <1>6. ASSUME NEW k \in PublicKey, NEW o \in Room, w.list[<<k, o>>] > 0
        PROVE  Owned(t, k, o)
    <2>1. PICK p \in PeerId : table[p] # None /\ table[p].key = k /\ o \in table[p].things
      BY <1>1, <1>6 DEF Owned
    <2>2. t[p] # None /\ t[p].key = k /\ o \in t[p].things
      BY <1>0, <2>1 DEF SamePeers
    <2> QED
      BY <2>2 DEF Owned
  <1>7. \A o \in Room : Quiet(bus, Touches(Local, o)) => (w.list[<<Me, o>>] > 0 <=> o \in mi)
    BY <1>0, <1>1
  <1>8. ListFollows(bus, t, mi, E, w)
    BY <1>5, <1>6, <1>7 DEF ListFollows
  <1> QED
    BY <1>1, <1>3, <1>4, <1>8 DEF RoomsFollow

(* A component of which only the active room changes, or whether it is open. *)
LEMMA RoomsActive ==
    ASSUME NEW v, RoomsTyped(v), NEW w, DOMAIN w = DOMAIN v,
           \A f \in DOMAIN v \ {"active", "open"} : w[f] = v[f],
           w.open \in {"none", "opening", "open"}, w.active \in StableId
    PROVE  /\ RoomsTyped(w) /\ w.me = v.me /\ w.lost = v.lost
           /\ \A b, t, mi, E : RoomsFollow(b, t, mi, E, v) => RoomsFollow(b, t, mi, E, w)
           /\ \A m \in Message : m.is = "Config" => RoomsHeard(m, v, w)
  <1>1. w.me = v.me /\ w.lost = v.lost /\ w.peers = v.peers /\ w.list = v.list
    BY DEF RoomsTyped
  <1>2. RoomsTyped(w)
    BY <1>1 DEF RoomsTyped
  <1>3. \A b, t, mi, E : RoomsFollow(b, t, mi, E, v) => RoomsFollow(b, t, mi, E, w)
    BY <1>1 DEF RoomsFollow, PeersFollow, Early, ListFollows, Leaving
  <1>4. ASSUME NEW m \in Message, m.is = "Config" PROVE RoomsHeard(m, v, w)
    <2>1. PeersHeard(m, v, w)
      BY <1>1, <1>4, HeardPeers DEF Alike
    <2>2. ListHeard(m, v, w)
      BY <1>1, <1>4 DEF ListHeard
    <2> QED
      BY <1>1, <2>1, <2>2 DEF RoomsHeard
  <1> QED
    BY <1>1, <1>2, <1>3, <1>4

-----------------------------------------------------------------------------
(* The invariant of the list of rooms: until what waits says that the connection is lost, the
   list has what waits leaves it to have. *)
(* The invariant of the list of rooms: until what waits says that the connection is lost, the
   list has what waits leaves it to have. *)
Lost == {m \in Message : m.is = "RemoteLost"}

RoomsTold(t, mi, r) ==
    /\ TableTold(t) /\ MineTold("rooms", mi)
    /\ Told(bus, t, mi, r) /\ Ordered(bus, t, mi)
    /\ rooms.open = "open" /\ ~rooms.lost /\ Quiet(bus, Lost) => RoomsFollow(bus, t, mi, Owed, rooms)

Listing ==
    /\ Following
    /\ Len(bus) <= MaxBus
    /\ RoomsTyped(rooms)
    /\ rooms.open # "none" => map.open = "open"
    /\ rooms.open = "open" => rooms.me = Me
    /\ \E t, mi, r : RoomsTold(t, mi, r)

LEMMA NothingOrdered ==
    ASSUME NEW t, NEW mi
    PROVE  Ordered(<<>>, t, mi)
  <1>1. (\A X, Y : ~Stands(<<>>, X, Y)) /\ (\A Y : Quiet(<<>>, Y)) /\ Len(<<>>) = 0
    BY DEF Stands, Quiet
  <1> QED
    BY <1>1 DEF Ordered

LEMMA NewTyped == RoomsTyped(NoRooms) /\ NoRooms.open = "none"
  <1>1. Zero \in StableId
    BY DEF StableId
  <1>2. /\ NoRooms.list = [id \in StableId |-> 0]
        /\ NoRooms.open = "none" /\ NoRooms.me = None /\ NoRooms.active = Zero /\ NoRooms.lost = FALSE
        /\ {"open", "me", "peers", "keys", "active", "list", "lost"} \subseteq DOMAIN NoRooms
    BY DEF NoRooms
  <1>3. \A k \in PublicKey \cup {Me}, o \in ObjectId : <<k, o>> \in StableId
    BY DEF StableId
  <1>4. NoRooms.list \in [StableId -> Nat] /\ \A k \in PublicKey \cup {Me}, o \in ObjectId : NoRooms.list[<<k, o>>] = 0
    BY <1>2, <1>3
  <1>5. \A k \in PublicKey \cup {Me}, o \in ObjectId : NoRooms.list[<<k, o>>] > 0 => o \in Room
    BY <1>4
  <1> QED
    BY <1>1, <1>2, <1>4, <1>5 DEF RoomsTyped

LEMMA OrderedMine ==
    ASSUME NEW b, NEW t, NEW mi, NEW mk, Ordered(b, t, mi)
    PROVE  Ordered(b, t, mk)
  <1>1. \A q \in PeerId : q # Local
    BY PeersAssumption
  <1>2. \A q \in PeerId, o \in Room : Has(t, mi, q, o) <=> Has(t, mk, q, o)
    BY <1>1 DEF Has
  <1> QED
    BY <1>2 DEF Ordered

LEMMA RoomsFollowLess ==
    ASSUME NEW b, NEW t, NEW mi, NEW E, NEW F, NEW v, E \subseteq F, RoomsFollow(b, t, mi, E, v)
    PROVE  RoomsFollow(b, t, mi, F, v)
  <1>1. ListFollows(b, t, mi, F, v)
    BY DEF RoomsFollow, ListFollows
  <1> QED
    BY <1>1 DEF RoomsFollow

LEMMA SilentRooms ==
    ASSUME Silent
    PROVE  rooms' = rooms \/ \E r \in StableId : rooms' = [rooms EXCEPT !.active = r]
  <1> DEFINE Claim == rooms' = rooms \/ \E r \in StableId : rooms' = [rooms EXCEPT !.active = r]
  <1>1. ASSUME NEW p \in PeerId, NEW o \in ObjectId, ObjectRemoved(p, o)
        PROVE  Claim
    BY <1>1 DEF ObjectRemoved
  <1>2. ASSUME ClientClears
        PROVE  Claim
    BY <1>2 DEF ClientClears
  <1>3. ASSUME NEW h \in Handler, NEW o \in Room, CreateRoom(h, o) \/ CreateFails(h, o) \/ RemoveRoom(h, o)
        PROVE  Claim
    BY <1>3 DEF CreateRoom, CreateFails, RemoveRoom
  <1>4. ASSUME NEW r \in SomeRoom, EnterElsewhere(r)
        PROVE  Claim
    BY <1>4 DEF EnterElsewhere
  <1>5. ASSUME NEW r \in StableId, Enter(r)
        PROVE  Claim
    BY <1>5 DEF Enter
  <1> HIDE DEF Claim
  <1>6. Claim
    BY <1>1, <1>2, <1>3, <1>4, <1>5 DEF Silent
  <1> QED
    BY <1>6 DEF Claim

LEMMA ListingBackend ==
    ASSUME Listing, Following', \/ Announced \/ Silent
                                \/ \E h \in Handler : Tell(h)
    PROVE  Listing'
  <1>0. /\ bus \in Seq(Message) /\ Honest /\ RoomsTyped(rooms) /\ (map.open = "none" => bus = <<>>)
        /\ "rooms" \in {"map", "rooms"} /\ Len(bus) <= MaxBus
        /\ (rooms.open # "none" => map.open = "open") /\ (rooms.open = "open" => rooms.me = Me)
    BY DEF Listing, Following, Honest, PInv
  <1>1. PICK t, mi, r : RoomsTold(t, mi, r)
    BY DEF Listing
  <1>2. TableTold(t) /\ MineTold("rooms", mi) /\ Told(bus, t, mi, r) /\ Ordered(bus, t, mi)
    BY <1>1 DEF RoomsTold
  <1>3. CASE Silent
    <2>1. /\ TableTold(t)' /\ MineTold("rooms", mi)'
          /\ Owed \subseteq Owed' /\ bus' = bus /\ map' = map
      BY <1>0, <1>2, <1>3, SilentStep
    <2> DEFINE w == rooms'
    <2>2. PICK x \in StableId : w = rooms \/ w = [rooms EXCEPT !.active = x]
      BY <1>0, <1>3, SilentRooms DEF RoomsTyped
    <2> HIDE DEF w
    <2>3. /\ DOMAIN w = DOMAIN rooms /\ \A f \in DOMAIN rooms \ {"active", "open"} : w[f] = rooms[f]
          /\ w.open = rooms.open /\ w.active \in StableId
      BY <1>0, <2>2 DEF RoomsTyped
    <2>4. w.open \in {"none", "opening", "open"}
      BY <1>0, <2>3 DEF RoomsTyped
    <2>5. /\ RoomsTyped(w) /\ w.me = rooms.me /\ w.lost = rooms.lost
          /\ RoomsFollow(bus, t, mi, Owed, rooms) => RoomsFollow(bus, t, mi, Owed, w)
      BY <1>0, <2>3, <2>4, RoomsActive
    <2>6. ASSUME w.open = "open", ~w.lost, Quiet(bus, Lost)
          PROVE  RoomsFollow(bus, t, mi, Owed', w)
      <3>1. RoomsFollow(bus, t, mi, Owed, w)
        BY <1>1, <2>3, <2>5, <2>6 DEF RoomsTold
      <3> QED
        BY <2>1, <3>1, RoomsFollowLess
    <2>7. RoomsTold(t, mi, r)'
      BY <1>2, <2>1, <2>6 DEF RoomsTold, w
    <2> QED
      BY <1>0, <2>1, <2>3, <2>5, <2>7 DEF Listing, w
  <1>4. CASE Announced \/ \E h \in Handler : Tell(h)
    <2>1. map' = map /\ rooms' = rooms /\ (map.open = "none" => bus' = bus) /\ Len(bus') <= MaxBus
      <3>1. CASE Announced
        BY <1>0, <3>1, AnnouncedKeeps
      <3>2. CASE \E h \in Handler : Tell(h)
        BY <1>0, <3>2 DEF Tell, Say
      <3> QED
        BY <1>4, <3>1, <3>2
    <2>2. PICK u, mk, q : Telling("rooms", t, mi, r, u, mk, q)
      <3>1. CASE Announced
        BY <1>0, <1>2, <3>1, AnnouncedStep
      <3>2. CASE \E h \in Handler : Tell(h)
        BY <1>0, <1>2, <3>2, TellStep
      <3> QED
        BY <1>4, <3>1, <3>2
    <2>3. TableTold(u)' /\ MineTold("rooms", mk)'
      BY <2>2 DEF Telling
    <2>4. CASE map.open = "none"
      <3>1. bus' = <<>> /\ rooms'.open = "none"
        BY <1>0, <2>1, <2>4
      <3>2. Told(bus', u, mk, q) /\ Ordered(bus', u, mk)
        BY <3>1, NothingTold, NothingOrdered
      <3>3. RoomsTold(u, mk, q)'
        BY <2>3, <3>1, <3>2 DEF RoomsTold
      <3> QED
        BY <1>0, <2>1, <3>3 DEF Listing
    <2>5. CASE map.open # "none"
      <3>1. PICK m \in Message :
                bus' = bus \o <<m>> /\ Happens(m, t, mi, r, u, mk, q) /\ Leaves(m, Owed, Owed')
        BY <2>2, <2>5 DEF Telling
      <3>2. Told(bus', u, mk, q)
        BY <1>0, <1>2, <3>1, ToldAppend
      <3>3. Ordered(bus', u, mk)
        BY <1>0, <1>2, <3>1, OrderedAppend
      <3>4. ASSUME rooms.open = "open", ~rooms.lost, Quiet(bus', Lost)
            PROVE  RoomsFollow(bus', u, mk, Owed', rooms)
        <4>1. Quiet(bus, Lost)
          BY <1>0, <3>1, <3>4, QuietAppend
        <4>2. RoomsFollow(bus, t, mi, Owed, rooms)
          BY <1>1, <3>4, <4>1 DEF RoomsTold
        <4> QED
          BY <1>0, <1>2, <3>1, <4>2, RoomsFollowAppend
      <3>5. RoomsTold(u, mk, q)'
        BY <2>1, <2>3, <3>2, <3>3, <3>4 DEF RoomsTold
      <3> QED
        BY <1>0, <2>1, <3>5 DEF Listing
    <2> QED
      BY <2>4, <2>5
  <1> QED
    BY <1>3, <1>4

LEMMA ListingHear ==
    ASSUME Listing, Hear, Following'
    PROVE  Listing'
  <1> DEFINE m == Head(bus)
             c == Tail(bus)
             w == rooms'
  <1>1. /\ bus # <<>> /\ bus' = c /\ map' = Hears(map, m)
        /\ UNCHANGED <<table, mine, room, telling, astray>>
        /\ w = IF rooms.open = "none" THEN rooms
               ELSE IF m.is # "Config" THEN RoomsUpdate(rooms, m)
               ELSE IF m.from = "rooms" THEN rooms
               ELSE [rooms EXCEPT !.active = m.room]
    BY DEF Hear, Hears, own, history
  <1>2. /\ bus \in Seq(Message) /\ Good(map) /\ Good(rooms) /\ MapTyped(map) /\ Looked(map)
        /\ RoomsTyped(rooms) /\ Honest
    BY DEF Listing, Following, Honest, PInv
  <1>3. m \in Message /\ Len(c) <= MaxBus
    BY <1>1, <1>2, HeardFirst, PeersAssumption DEF Listing
  <1>4. map'.open = map.open
    BY <1>1, <1>2, <1>3, MapHears
  <1>5. PICK t, mi, r : RoomsTold(t, mi, r)
    BY DEF Listing
  <1>6. TableTold(t) /\ MineTold("rooms", mi) /\ Told(bus, t, mi, r) /\ Ordered(bus, t, mi)
    BY <1>5 DEF RoomsTold
  <1>7. TableTold(t)' /\ MineTold("rooms", mi)' /\ Owed' = Owed
    BY <1>1, <1>6 DEF TableTold, MineTold, Untold, Owed
  <1>8. Ordered(c, t, mi) /\ Told(c, t, mi, r)
    BY <1>1, <1>2, <1>6, OrderedTail, ToldTail
  <1>9. \A p \in PeerId : t[p] # None => t[p].key \in PublicKey
    BY <1>2, <1>6, TableToldIs
  <1>10. Quiet(bus, Lost) <=> m.is # "RemoteLost" /\ Quiet(c, Lost)
    BY <1>1, <1>2, <1>3, QuietTail DEF Lost
  <1> HIDE DEF m, c, w
  <1>11. CASE rooms.open = "none"
    <2>1. w = rooms
      BY <1>1, <1>11
    <2>2. RoomsTold(t, mi, r)'
      BY <1>1, <1>7, <1>8, <1>11, <2>1 DEF RoomsTold, w
    <2> QED
      BY <1>1, <1>2, <1>3, <1>4, <1>11, <2>1, <2>2 DEF Listing, w
  <1>12. CASE rooms.open # "none"
    <2>1. /\ RoomsTyped(w) /\ w.open = rooms.open /\ w.me = rooms.me
          /\ m.is = "RemoteLost" => w.lost
          /\ m.is # "RemoteLost" => w.lost = rooms.lost /\ (rooms.me = Me => RoomsHeard(m, rooms, w))
      <3>1. CASE m.is # "Config"
        <4>1. w = RoomsUpdate(rooms, m)
          BY <1>1, <1>12, <3>1
        <4> QED
          BY <1>2, <1>3, <3>1, <4>1, RoomsHears
      <3>2. CASE m.is = "Config"
        <4>1. m.room \in StableId
          BY <1>3, <3>2 DEF Message
        <4>2. w = rooms \/ w = [rooms EXCEPT !.active = m.room]
          BY <1>1, <1>12, <3>2
        <4>3. /\ DOMAIN w = DOMAIN rooms /\ \A f \in DOMAIN rooms \ {"active", "open"} : w[f] = rooms[f]
              /\ w.open = rooms.open /\ w.active \in StableId
          BY <1>2, <4>1, <4>2 DEF RoomsTyped
        <4>4. w.open \in {"none", "opening", "open"}
          BY <1>2, <4>3 DEF RoomsTyped
        <4> QED
          BY <1>2, <1>3, <3>2, <4>3, <4>4, RoomsActive
      <3> QED
        BY <3>1, <3>2
    <2>2. ASSUME w.open = "open", ~w.lost, Quiet(c, Lost)
          PROVE  RoomsFollow(c, t, mi, Owed, w)
      <3>1. m.is # "RemoteLost" /\ rooms.open = "open" /\ rooms.me = Me /\ ~rooms.lost
        BY <2>1, <2>2 DEF Listing
      <3>2. RoomsFollow(bus, t, mi, Owed, rooms)
        BY <1>5, <1>10, <2>2, <3>1 DEF RoomsTold
      <3>3. RoomsHeard(m, rooms, w)
        BY <2>1, <3>1
      <3> QED
        BY <1>1, <1>2, <1>6, <1>9, <3>1, <3>2, <3>3, RoomsFollowTail DEF m, c
    <2>3. RoomsTold(t, mi, r)'
      BY <1>1, <1>7, <1>8, <2>2 DEF RoomsTold, w
    <2>4. (w.open # "none" => map'.open = "open") /\ (w.open = "open" => w.me = Me)
      BY <1>4, <2>1 DEF Listing
    <2> QED
      BY <1>1, <1>3, <2>1, <2>3, <2>4 DEF Listing, w
  <1> QED
    BY <1>11, <1>12

LEMMA ListingSnapshot ==
    ASSUME Listing, Following', InitializeRooms
    PROVE  Listing'
  <1>0. /\ bus \in Seq(Message) /\ Honest /\ PInv /\ RoomsTyped(rooms)
        /\ "rooms" \in {"map", "rooms"}
    BY DEF Listing, Following, Honest, PInv
  <1>1. PICK t, mi, r : RoomsTold(t, mi, r)
    BY DEF Listing
  <1>2. TableTold(t) /\ MineTold("rooms", mi) /\ Told(bus, t, mi, r) /\ Ordered(bus, t, mi)
    BY <1>1 DEF RoomsTold
  <1>3. /\ UNCHANGED <<table, mine, telling, bus, map>>
        /\ astray' = [astray EXCEPT !["rooms"] = astray["rooms"] \cap Late]
        /\ rooms' = [RoomsInitialized(rooms) EXCEPT !.open = "open"]
        /\ rooms.open = "opening"
    BY DEF InitializeRooms, own
  <1>4. PICK mk : mk = KeptRooms(mi)
    OBVIOUS
  <1>5. PICK q : q = KeptRoom(r)
    OBVIOUS
  <1>6. /\ Told(bus, t, mk, r) /\ MineTold("rooms", mk)'
        /\ \A o \in ObjectId : Quiet(bus, Touches(Local, o)) => (o \in mk <=> o \in mine)
    BY <1>0, <1>2, <1>3, <1>4, <1>5, Retold
  <1>7. Ordered(bus, t, mk)
    BY <1>2, OrderedMine
  <1>8. TableTold(t)' /\ Owed' = Owed
    BY <1>2, <1>3 DEF TableTold, Owed
  <1>9. /\ SamePeers(table, t)
        /\ \A p \in PeerId, o \in ObjectId : <<p, o>> \notin Owed => (o \in t[p].things <=> o \in table[p].things)
        /\ \A p \in PeerId, o \in ObjectId : o \in table[p].things => o \in t[p].things
    BY <1>0, <1>2, TableToldIs
  <1> DEFINE u == RoomsInitialized(rooms)
  <1>10. /\ RoomsTyped(u) /\ u.open = rooms.open /\ u.me = Me /\ u.lost = rooms.lost
         /\ RoomsFollow(bus, t, mk, Owed, u)
    BY <1>0, <1>6, <1>7, <1>9, RoomsSnapshot
  <1>11. rooms' = [u EXCEPT !.open = "open"]
    BY <1>3
  <1> HIDE DEF u
  <1> DEFINE w == rooms'
  <1>12. /\ DOMAIN w = DOMAIN u /\ \A f \in DOMAIN u \ {"active", "open"} : w[f] = u[f]
         /\ w.open = "open" /\ w.active \in StableId
    BY <1>10, <1>11 DEF RoomsTyped
  <1> HIDE DEF w
  <1>13. RoomsTyped(w) /\ w.me = Me /\ RoomsFollow(bus, t, mk, Owed, w)
    BY <1>10, <1>12, RoomsActive
  <1>14. RoomsTold(t, mk, r)'
    BY <1>3, <1>6, <1>7, <1>8, <1>13 DEF RoomsTold, w
  <1> QED
    BY <1>3, <1>12, <1>13, <1>14 DEF Listing, w

LEMMA ListingPage ==
    ASSUME Listing, Following',
           Open \/ InitializeMap \/ OpenRooms \/ CloseRooms \/ Lose
    PROVE  Listing'
  <1>0. RoomsTyped(rooms) /\ MapTyped(map) /\ Len(bus) <= MaxBus /\ astray \in [{"map", "rooms"} -> SUBSET Room]
    BY DEF Listing, Following, Honest, PInv, OwnSound
  <1>1. PICK t, mi, r : RoomsTold(t, mi, r)
    BY DEF Listing
  <1>2. UNCHANGED <<table, mine, telling>> /\ astray'["rooms"] = astray["rooms"]
    <2>1. CASE Open
      BY <2>1 DEF Open, own, history
    <2>2. CASE InitializeMap
      BY <1>0, <2>2 DEF InitializeMap, own
    <2>3. CASE OpenRooms
      BY <2>3 DEF OpenRooms, own, history
    <2>4. CASE CloseRooms
      BY <2>4 DEF CloseRooms, own, history
    <2>5. CASE Lose
      BY <2>5 DEF Lose, own, history
    <2> QED
      BY <2>1, <2>2, <2>3, <2>4, <2>5
  <1>3. TableTold(t)' /\ MineTold("rooms", mi)'
    BY <1>1, <1>2 DEF RoomsTold, TableTold, MineTold, Untold
  <1>4. ASSUME bus' = bus, rooms'.open # "open"
        PROVE  RoomsTold(t, mi, r)'
    BY <1>1, <1>3, <1>4 DEF RoomsTold
  <1>5. CASE Open
    <2>1. map'.open = "opening" /\ rooms.open = "none" /\ rooms' = rooms /\ bus' = bus
      BY <1>0, <1>5, OpenedMap DEF Open, Listing
    <2> QED
      BY <1>0, <1>4, <2>1 DEF Listing
  <1>6. CASE InitializeMap
    <2>1. map.open = "opening" /\ map' = [Initialized(map) EXCEPT !.open = "open"] /\ rooms' = rooms /\ bus' = bus
      BY <1>6 DEF InitializeMap
    <2>2. rooms.open = "none"
      BY <2>1 DEF Listing
    <2> QED
      BY <1>0, <1>4, <2>1, <2>2 DEF Listing
  <1>7. CASE OpenRooms
    <2>1. RoomsTyped(rooms') /\ rooms'.open = "opening"
      <3> DEFINE n == NoRooms
                 w == rooms'
      <3>1. RoomsTyped(n) /\ w = [n EXCEPT !.open = "opening"]
        BY <1>7, NewTyped DEF OpenRooms
      <3> HIDE DEF n, w
      <3>2. /\ DOMAIN w = DOMAIN n /\ \A f \in DOMAIN n \ {"active", "open"} : w[f] = n[f]
            /\ w.open = "opening" /\ w.active \in StableId
        BY <3>1 DEF RoomsTyped
      <3> QED
        BY <3>1, <3>2, RoomsActive DEF w
    <2>2. map.open = "open" /\ map' = map /\ bus' = bus
      BY <1>7 DEF OpenRooms
    <2> QED
      BY <1>0, <1>4, <2>1, <2>2 DEF Listing
  <1>8. CASE CloseRooms
    <2>1. rooms' = NoRooms /\ map' = map /\ bus' = bus
      BY <1>8 DEF CloseRooms
    <2> QED
      BY <1>0, <1>4, <2>1, NewTyped DEF Listing
  <1>9. CASE Lose
    <2>1. bus' = <<>> /\ rooms' = NoRooms
      BY <1>9 DEF Lose
    <2>2. Told(bus', t, mi, r) /\ Ordered(bus', t, mi)
      BY <2>1, NothingTold, NothingOrdered
    <2>3. Len(bus') <= MaxBus
      BY <2>1, PeersAssumption
    <2>4. RoomsTold(t, mi, r)'
      BY <1>3, <2>1, <2>2, NewTyped DEF RoomsTold
    <2> QED
      BY <2>1, <2>3, <2>4, NewTyped DEF Listing
  <1> QED
    BY <1>5, <1>6, <1>7, <1>8, <1>9

LEMMA ListingInit == Init => Listing
  <1> SUFFICES ASSUME Init PROVE Listing
    OBVIOUS
  <1>1. bus = <<>> /\ rooms = NoRooms
    BY DEF Init
  <1>2. Len(bus) <= MaxBus
    BY <1>1, PeersAssumption
  <1>3. TableTold(table) /\ MineTold("rooms", mine)
    BY DEF Init, TableTold, MineTold
  <1>4. RoomsTold(table, mine, room)
    BY <1>1, <1>3, NothingTold, NothingOrdered, NewTyped DEF RoomsTold
  <1> QED
    BY <1>1, <1>2, <1>4, FollowingInit, NewTyped DEF Listing

LEMMA ListingNext == Listing /\ [Next]_vars => Listing'
  <1> SUFFICES ASSUME Listing, [Next]_vars PROVE Listing'
    OBVIOUS
  <1>1. Following'
    BY FollowingNext DEF Listing
  <1>2. CASE UNCHANGED vars
    <2>1. PICK t, mi, r : RoomsTold(t, mi, r)
      BY DEF Listing
    <2>2. UNCHANGED <<table, mine, telling, bus, map, rooms, astray>>
      BY <1>2 DEF vars, own, history
    <2>3. RoomsTold(t, mi, r)'
      BY <2>1, <2>2 DEF RoomsTold, TableTold, MineTold, Untold, Owed
    <2> QED
      BY <1>1, <2>2, <2>3 DEF Listing
  <1>3. CASE Next
    <2>1. \/ Announced \/ Silent
          \/ \E h \in Handler : Tell(h)
          \/ Hear \/ Open \/ InitializeMap \/ OpenRooms \/ InitializeRooms \/ CloseRooms \/ Lose
      BY <1>3, Steps
    <2> QED
      BY <1>1, <2>1, ListingBackend, ListingHear, ListingSnapshot, ListingPage
  <1> QED
    BY <1>2, <1>3

LEMMA ListingHolds == Spec => []Listing
  BY ListingInit, ListingNext, PTL DEF Spec

(* The state has its types, whatever a page is told and when: what is looked up, drawn and
   listed are ids of somebody's objects, and no more waits than a page's queue takes. *)
THEOREM PeersTyped == Spec => []TypeOK
  <1>1. Listing => TypeOK
    <2> SUFFICES ASSUME Listing PROVE TypeOK
      OBVIOUS
    <2>1. PInv /\ MapTyped(map) /\ RoomsTyped(rooms) /\ Len(bus) <= MaxBus
      BY DEF Listing, Following, Honest
    <2>2. \A v \in {map, rooms} : v.peers \in [PeerId -> KnownPeer \cup {None}] /\ DOMAIN v.keys \subseteq PublicKey
      BY <2>1 DEF PInv, Good, Fields, Keys
    <2>3. map.things \subseteq RemoteId
      BY <2>1 DEF MapTyped, RemoteId, Somebody
    <2>4. /\ mine \subseteq made /\ made \subseteq Room
          /\ telling \in [Handler -> Thing \cup Setting \cup {None}] /\ clearing \in BOOLEAN
          /\ off \in BOOLEAN /\ astray \in [{"map", "rooms"} -> SUBSET Room]
      BY <2>1 DEF PInv, OwnSound
    <2>5. /\ table \in [PeerId -> Info \cup {None}] /\ room \in StableId
      BY <2>1 DEF PInv, TableSound
    <2>6. \A v \in {map, rooms} : v.open \in {"none", "opening", "open"} /\ v.me \in {Me, None}
      BY <2>1 DEF MapTyped, RoomsTyped
    <2>7. map.room \in StableId /\ map.roomId \in RemoteId /\ map.display \in RemoteId /\ rooms.active \in StableId
      BY <2>1 DEF MapTyped, RoomsTyped
    <2> QED
      BY <2>1, <2>2, <2>3, <2>4, <2>5, <2>6, <2>7 DEF TypeOK
  <1> QED
    BY <1>1, ListingHolds, PTL

(* Once all is told and heard, and unless the connection was lost, the rooms that are listed
   are those there are: whoever came, went and came again under another id while the list was
   being opened, and in whatever order its snapshot and the broadcasts reached it; but for a
   room of the user nobody told of in time. *)
THEOREM RoomsAreListed == Spec => []RoomsListed
  <1>1. Listing => RoomsListed
    <2> SUFFICES ASSUME Listing, rooms.open = "open", Settled, ~rooms.lost,
                        NEW id \in StableId \ {Zero}, ToRemoteId(map, id) \notin Astray("rooms")
                 PROVE  rooms.list[id] > 0 <=> id[2] \in Room /\ ToRemoteId(map, id) \in AllThings
      BY DEF RoomsListed
    <2>1. map.me = Me /\ map.open = "open" /\ PInv /\ Good(map) /\ RoomsTyped(rooms) /\ bus = <<>> /\ Following
      BY DEF Listing, Following, Honest, PInv, Settled
    <2>2. (\A Y : Quiet(bus, Y)) /\ Len(bus) = 0
      BY <2>1 DEF Quiet
    <2>3. PICK t, mi, r : RoomsTold(t, mi, r)
      BY DEF Listing
    <2>4. (\A h \in Handler : telling[h] = None) /\ "client" \in Handler
      BY DEF Settled, Handler
    <2>5. t = table /\ Owed = {}
      BY <2>3, <2>4, ThingsAre, TableToldIs DEF RoomsTold, Listing, Following
    <2>6. Untold = {}
      <3>1. \A o \in Room : Created(o) # None /\ Removed(Local, o) # None
        <4> TAKE o \in Room
        <4>1. Created(o) \in Thing /\ Removed(Local, o) \in Thing /\ None \notin Thing
          BY ThingsAre DEF ObjectId
        <4> QED
          BY <4>1
      <3> QED
        BY <2>4, <3>1 DEF Untold
    <2>7. \A o \in Room \ astray["rooms"] : o \in mi <=> o \in mine
      BY <2>3, <2>6 DEF RoomsTold, MineTold
    <2>8. RoomsFollow(bus, table, mi, {}, rooms)
      BY <2>2, <2>3, <2>5 DEF RoomsTold
    <2>9. \A p \in PeerId :
            /\ (map.peers[p] = None) <=> (table[p] = None)
            /\ table[p] # None => map.peers[p].key = table[p].key /\ table[p].key \in PublicKey
      <3>1. PICK mj, s : MapFollows(bus, table, mj, s, {}, map)
        BY <2>1, WhenSettled
      <3> QED
        BY <2>1, <2>2, <3>1 DEF MapFollows, PeersFollow, PInv, TableSound, Info
    <2>10. /\ Local \notin PeerId /\ Local \in Somebody /\ PeerId \subseteq Somebody
           /\ Room \subseteq ObjectId /\ Me \notin PublicKey
           /\ \A p \in Somebody : \A o : <<p, o>> # Zero
           /\ \A k \in PublicKey \cup {Me} : \A o : <<k, o>> # Zero
      BY ZeroIsNowhere, PeersAssumption DEF ObjectId
    <2>11. /\ \A p \in Somebody, o \in ObjectId : <<p, o>> \in AllThings <=> Has(table, mine, p, o)
           /\ Zero \notin AllThings
      <3>1. AllThings \subseteq Somebody \X ObjectId
        BY <2>1, AllThingsAre
      <3> QED
        BY <2>1, <2>10, <3>1, AllThingsAre
    <2>12. ASSUME NEW o \in ObjectId, id = <<Me, o>>
           PROVE  rooms.list[<<Me, o>>] > 0 <=> o \in Room /\ ToRemoteId(map, <<Me, o>>) \in AllThings
      <3>1. ToRemoteId(map, <<Me, o>>) = <<Local, o>>
        BY <2>1, <2>10 DEF ToRemoteId
      <3>2. <<Local, o>> \in AllThings <=> o \in mine
        BY <2>10, <2>11 DEF Has
      <3>3. rooms.list[<<Me, o>>] > 0 => o \in Room
        BY <2>1 DEF RoomsTyped
      <3>4. o \notin astray["rooms"]
        BY <2>12, <3>1 DEF Astray
      <3>5. o \in Room => (rooms.list[<<Me, o>>] > 0 <=> o \in mi)
        BY <2>2, <2>8 DEF RoomsFollow, ListFollows
      <3> QED
        BY <2>7, <3>1, <3>2, <3>3, <3>4, <3>5
    <2>13. ASSUME NEW k \in PublicKey, NEW o \in ObjectId
           PROVE  rooms.list[<<k, o>>] > 0 <=> o \in Room /\ ToRemoteId(map, <<k, o>>) \in AllThings
      <3>1. rooms.list[<<k, o>>] > 0 <=> o \in Room /\ Owned(table, k, o)
        <4>1. \A v, t2 : ~Leaving(bus, t2, v, k, o)
          BY <2>2 DEF Leaving
        <4>2. rooms.list[<<k, o>>] > 0 => o \in Room
          BY <2>1 DEF RoomsTyped
        <4>3. o \in Room /\ Owned(table, k, o) => rooms.list[<<k, o>>] > 0
          BY <2>2, <2>8 DEF Owned, RoomsFollow, ListFollows
        <4>4. o \in Room /\ rooms.list[<<k, o>>] > 0 => Owned(table, k, o)
          BY <2>8, <4>1 DEF RoomsFollow, ListFollows
        <4> QED
          BY <4>2, <4>3, <4>4
      <3>2. ToRemoteId(map, <<k, o>>) = IF k \in DOMAIN map.keys THEN <<map.keys[k], o>> ELSE Zero
        BY <2>1, <2>10 DEF ToRemoteId
      <3>3. ASSUME k \in DOMAIN map.keys
            PROVE  <<map.keys[k], o>> \in AllThings <=> Owned(table, k, o)
        <4> DEFINE p == map.keys[k]
        <4>1. p \in PeerId /\ map.peers[p] # None /\ map.peers[p].key = k
          BY <2>1, <3>3 DEF Good, Fields, Paired, Keys
        <4>2. table[p] # None /\ table[p].key = k
          BY <2>9, <4>1
        <4>3. \A q \in PeerId : table[q] # None /\ table[q].key = k => q = p
          BY <2>1, <4>1, <4>2 DEF PInv, TableSound, Connected
        <4> HIDE DEF p
        <4>4. <<p, o>> \in AllThings <=> o \in table[p].things
          BY <2>10, <2>11, <4>1, <4>2 DEF Has
        <4> QED
          BY <4>1, <4>2, <4>3, <4>4 DEF Owned, p
      <3>4. k \notin DOMAIN map.keys => ~Owned(table, k, o)
        BY <2>1, <2>9 DEF Good, Paired, Owned
      <3> QED
        BY <2>11, <3>1, <3>2, <3>3, <3>4
    <2>14. PICK k \in PublicKey \cup {Me}, o \in ObjectId : id = <<k, o>>
      BY DEF StableId
    <2> QED
      BY <2>12, <2>13, <2>14
  <1> QED
    BY <1>1, ListingHolds, PTL
=============================================================================
