---------------------------- MODULE MCFloorplan ----------------------------
(* Floorplan on an input of a few small cells. *)
EXTENDS Floorplan

Cell(alt, left, above, next) == [alt |-> alt, left |-> left, above |-> above, next |-> next]

(* Three cells of one orientation: the second below the first, the third   *)
(* right of the first, where it stands on the second.                      *)
Standing ==
  << Cell(<<<<2, 1>>>>, 0, -1, 2),
     Cell(<<<<1, 2>>>>, -1, 1, 3),
     Cell(<<<<2, 1>>>>, 1, -1, 0) >>
=============================================================================
