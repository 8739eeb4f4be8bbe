----------------------------- MODULE MC_TokenKeys -----------------------------
(***************************************************************************)
(* Two keys that come and go, and times that keep the order of those in    *)
(* the code: minCacheAge = fetchTimeout < refetchInterval < maxCacheAge    *)
(* < maxStale.                                                             *)
(***************************************************************************)
EXTENDS TokenKeys, TLC

CONSTANTS k1, k2

KidSymmetry == Permutations({k1, k2})
=============================================================================
