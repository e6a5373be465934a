------------------------------ MODULE MCRelay ------------------------------
(* Relay for TLC: a counter that maps to identifiers out of order, and clients
   that only differ in their key. *)
EXTENDS Relay, TLC

MCPeerId == 1..MaxId
MCMix == [n \in 1..MaxId |-> (n % MaxId) + 1]
KeySymmetry == Permutations(Key)

(* Bound: images are there only while there is no token, which are told of alike. *)
ImagesAlone == (\E p \in PeerId : images[p] # {}) => \A p \in PeerId : \A o \in TokenIds : objects[p][o] = None
=============================================================================
