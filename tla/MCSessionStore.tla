--------------------------- MODULE MCSessionStore ---------------------------
(* Instances of SessionStore: the ids are interchangeable.                 *)
EXTENDS SessionStore, TLC

IdSymmetry == Permutations(Ids)
=============================================================================
