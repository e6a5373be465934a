----------------------------- MODULE MCPersist -----------------------------
(* Persist for TLC. *)
EXTENDS Persist, TLC

PageSymmetry == Permutations(Page) \cup Permutations(ObjectId)
=============================================================================
