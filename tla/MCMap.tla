-------------------------------- MODULE MCMap --------------------------------
(* Map for TLC. *)
EXTENDS Map

(* A token and a static object of the user, and a token of a peer. *)
MCKindOf == [o \in ObjectId |-> IF o = 2 THEN "static" ELSE "token"]
=============================================================================
