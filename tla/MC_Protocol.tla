---------------------------- MODULE MC_Protocol ----------------------------
(***************************************************************************)
(* Small instances of connections, servers and the store.                  *)
(***************************************************************************)
EXTENDS Protocol, TLC

CONSTANTS s1, s2, o1, d1, c1, c2, l1, i1, i2, v1, v2, x1, x2, x3

NoOwners == [s \in Subject |-> NoOwner]
OneOwner == [s \in Subject |-> o1]
OneServer == [c \in Conn |-> v1]
TwoServers == [c \in Conn |-> IF c = x2 THEN v2 ELSE v1]
OneSubject == [c \in Conn |-> s1]
TwoSubjects == [c \in Conn |-> IF c = x3 THEN s2 ELSE s1]
OneInstance == [c \in Conn |-> i1]
TwoInstances == [c \in Conn |-> IF c = x1 THEN i1 ELSE i2]
NoRanges == {}
Blocks(first, count) == [first |-> first, count |-> count]
\* One range, two with an empty one, and lists that overlap, are too long, or wrap at 4.
SomeRanges ==
  {<<Blocks(0, 2)>>, <<Blocks(0, 1), Blocks(1, 1)>>, <<Blocks(0, 2), Blocks(2, 0)>>,
   <<Blocks(0, 2), Blocks(1, 1)>>, <<Blocks(0, 0), Blocks(0, 1), Blocks(1, 1)>>,
   <<Blocks(1, 3), Blocks(0, 1)>>}
ConnSymmetry == Permutations({x1, x2})
EmptyBlocks == {<<>>}
BothBlocks == {<<0, 1>>}
=============================================================================
