------------------------------ MODULE MC_Store ------------------------------
(***************************************************************************)
(* Small instances of the store.                                           *)
(***************************************************************************)
EXTENDS StoreFiles, TLC

CONSTANTS s1, o1, d1, c1, c2, i1, i2

OneOwner == [s \in {s1} |-> o1]
OneBlockOrNone == {<<>>, <<0>>}
Symmetry == Permutations(CommitID) \cup Permutations(Instance)
=============================================================================
