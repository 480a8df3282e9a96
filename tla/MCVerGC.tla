------------------------------ MODULE MCVerGC ------------------------------
(* VerGC with two threads, of one or two handles each. *)
EXTENDS VerGC, TLC

CONSTANTS t1, t2, h1, h2, h3, h4

FourHandles == h1 :> t1 @@ h2 :> t1 @@ h3 :> t2 @@ h4 :> t2
ThreeHandles == h1 :> t1 @@ h3 :> t2 @@ h4 :> t2

Symmetry == Permutations(Versions)
=============================================================================
