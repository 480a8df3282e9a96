------------------------------- MODULE MCVer -------------------------------
(* Ver with two threads, of two handles each. *)
EXTENDS Ver, TLC

CONSTANTS t1, t2, h1, h2, h3, h4

HandleOwner == h1 :> t1 @@ h2 :> t1 @@ h3 :> t2 @@ h4 :> t2

Symmetry == Permutations(Versions)
=============================================================================
