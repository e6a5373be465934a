------------------------------- MODULE MCPeers -------------------------------
(* Peers for TLC. *)
EXTENDS Peers, TLC

(* Nothing tells the keys apart. *)
Symmetry == Permutations(PublicKey)
=============================================================================
