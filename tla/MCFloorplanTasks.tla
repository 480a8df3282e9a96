-------------------------- MODULE MCFloorplanTasks --------------------------
(* FloorplanTasks on an input of a few small cells. *)
EXTENDS FloorplanTasks

Cell(alt, left, above, next) == [alt |-> alt, left |-> left, above |-> above, next |-> next]

(* Three cells, two of them in two orientations: the second below the      *)
(* first, the third to the right of the first.                             *)
ThreeCells ==
  << Cell(<<<<1, 2>>, <<2, 1>>>>, 0, -1, 2),
     Cell(<<<<1, 2>>>>, -1, 1, 3),
     Cell(<<<<1, 2>>, <<2, 1>>>>, 1, -1, 0) >>
=============================================================================
