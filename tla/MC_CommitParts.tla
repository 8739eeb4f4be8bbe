--------------------------- MODULE MC_CommitParts ---------------------------
(***************************************************************************)
(* Two commits and one with a bad ID, in up to three parts of one or two   *)
(* bytes, against a limit of four.                                         *)
(***************************************************************************)
EXTENDS CommitParts, TLC

CONSTANTS h1, h2, badID, p1, p2

MCValidID(h) == h # badID
MCSize(p) == IF p = p1 THEN 1 ELSE 2
HeaderSymmetry == Permutations({h1, h2})
=============================================================================
