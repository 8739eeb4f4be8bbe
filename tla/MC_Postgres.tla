---------------------------- MODULE MC_Postgres ----------------------------
(***************************************************************************)
(* Small instances of the PostgreSQL store.                                *)
(***************************************************************************)
EXTENDS PostgresStore, TLC

CONSTANTS s1, s2, o1, d1, c1, c2, l1, i1, i2, t1, t2

NoOwners == [s \in Subject |-> NoOwner]
OneOwner == [s \in Subject |-> o1]
EmptyBlocks == {<<>>}
OneBlock == {<<0>>}
OneName == <<d1>>
TxCommitSymmetry ==
  Permutations(Tx) \cup Permutations(CommitID) \cup Permutations(Instance)
TxSubjectSymmetry == Permutations(Tx) \cup Permutations(Subject)
=============================================================================
