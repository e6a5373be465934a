------------------------------- MODULE MCOrder -------------------------------
(* Order for TLC. *)
EXTENDS Order, TLC

(* Ids of one byte each, in the order of the ids. *)
MCFirstSort == [o \in ObjectId |-> <<o>>]
=============================================================================
