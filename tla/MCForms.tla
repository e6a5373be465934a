------------------------------ MODULE MCForms -------------------------------
(* Two pages with a form each and a Map on one, and the settings on both; two pictures. *)
EXTENDS Forms

MCShown == [f |-> [x |-> 4, y |-> 2], g |-> [x |-> 2, y |-> 2]]

MCNatural == [f |-> [x |-> 8, y |-> 4], g |-> [x |-> 1, y |-> 2]]

MCPoint == {[x |-> 0, y |-> 0], [x |-> 1, y |-> 2], [x |-> 3, y |-> 1], [x |-> 5, y |-> 2]}

MCPull == {-3, 2}

MCPageOf == [map |-> "p", form |-> "p", status |-> "p", form2 |-> "q", status2 |-> "q"]

MCKindOf ==
    [map |-> "map", form |-> "form", status |-> "status", form2 |-> "form", status2 |-> "status"]

Nothing == [hidden |-> {}, height |-> {}, width |-> {}, ratio |-> {}, image |-> {}, setting |-> {}]

MCChoice ==
    [map |-> [Nothing EXCEPT !.hidden = {TRUE}],
     form |-> [Nothing EXCEPT !.hidden = {FALSE}, !.height = {4}, !.ratio = Ratio, !.image = {1}],
     form2 |-> [Nothing EXCEPT !.hidden = {TRUE}, !.width = {8}],
     status |-> [Nothing EXCEPT !.setting = {FALSE}],
     status2 |-> [Nothing EXCEPT !.setting = {TRUE}]]

MCFirst ==
    [hidden |-> FALSE, height |-> 2, width |-> 4, ratio |-> None, image |-> 0, setting |-> FALSE]

(* Bound: the last edit and the last stroke of the pointer are not under way at once. *)
Calm == strokes = MaxStroke /\ (source # None \/ drag # None \/ uploading) => Quiet
=============================================================================
