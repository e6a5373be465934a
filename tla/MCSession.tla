----------------------------- MODULE MCSession -----------------------------
(* Session for TLC. *)
EXTENDS Session, TLC

ObjectSymmetry == Permutations(ObjectId) \cup Permutations(Prop) \cup Permutations(Slot)
=============================================================================
