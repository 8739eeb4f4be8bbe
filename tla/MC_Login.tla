------------------------------ MODULE MC_Login ------------------------------
(***************************************************************************)
(* Logins that queue for the key cache.  A fetch may take as long as the   *)
(* keys are kept at least, as in the code (10 s each).                     *)
(***************************************************************************)
EXTENDS Login, TLC

CONSTANTS c1, c2

MCLifetimes == {0, 2}

ConnSymmetry == Permutations({c1, c2})
=============================================================================
