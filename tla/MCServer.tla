------------------------------ MODULE MCServer ------------------------------
(* Server for TLC. *)
EXTENDS Server, TLC

MCPeerId == 1..MaxId
MCMix == [n \in 1..MaxId |-> (n % MaxId) + 1]
KeySymmetry == Permutations(Key)

(* Bound: at most one client has rooms at a time, or had the ones still open; the
   others visit them. *)
OneHost ==
    \E h \in Key :
        /\ DOMAIN rooms \subseteq {Lobby} \cup ({h} \X RoomIds)
        /\ \A p \in PeerId :
            /\ room[p] \in {Lobby} \cup ({h} \X RoomIds)
            /\ key[p] # h => \A o \in RoomIds : objects[p][o] = None
=============================================================================
