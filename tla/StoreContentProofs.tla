------------------------- MODULE StoreContentProofs -------------------------
(***************************************************************************)
(* Theorems about the content of databases: the blocks, the state Open     *)
(* returns, the change log, and the files of LeasedFile.                   *)
(***************************************************************************)
EXTENDS PostgresRows, StoreProofs

USE ZenonT(60), SMTT(60)

-----------------------------------------------------------------------------
(* The state is that of the last commit *)

\* What a commit leaves of the blocks.
LEMMA CommittedBlocks ==
  ASSUME NEW db \in Database, NEW req, NEW t
  PROVE  Committed(db, req, t).blocks = Written(db.blocks, req)
BY DEF Committed, Database

\* Every step keeps the content that of the last commit.
LEMMA ContentStep ==
  ASSUME StoreTypeOK, StoreInv, Effect, NEW k \in Key, ContentOf(k)
  PROVE  ContentOf(k)'
<1>1. /\ dbs[k] \in Database /\ dbs[k].version \in Nat /\ life[k] \in Nat
      /\ \A a \in applied : a.version \in Nat /\ a.life \in Nat
  BY DEF StoreTypeOK, Database, Applied
<1>2. ASSUME applied' = applied, life'[k] = life[k], dbs'[k].version = dbs[k].version,
             dbs'[k].lastCommitID = dbs[k].lastCommitID,
             dbs'[k].pageCount = dbs[k].pageCount, dbs'[k].blocks = dbs[k].blocks
      PROVE  ContentOf(k)'
  BY <1>2 DEF ContentOf, Current
<1>3. ASSUME NEW key, NEW req, Grants(key, req) PROVE ContentOf(k)'
  <2>1. CASE k = key
    BY SMTT(60), <1>1, <1>2, <1>3, <2>1, GrantStep, GrantedFields
  <2>2. CASE k # key
    BY <1>2, <1>3, <2>2, GrantStep
  <2> QED
    BY <2>1, <2>2
<1>4. ASSUME NEW req, NEW t, Applies(req, t) PROVE ContentOf(k)'
  <2> DEFINE new == AppliedCommit(req)
  <2>0. /\ applied' = applied \cup {new} /\ life' = life
        /\ k # req.lease.key => dbs'[k] = dbs[k]
    BY <1>4, ApplyStep
  <2>1. CASE k = req.lease.key
    <3>1. /\ new.lease.key = k /\ new.life = life[k] /\ new.version = dbs[k].version + 1
          /\ new.id = req.id /\ new.pageCount = req.pageCount
          /\ new.blocks = Written(dbs[k].blocks, req)
      BY <2>1 DEF AppliedCommit
    <3>2. dbs'[k] = Committed(dbs[k], req, t)
      BY <1>4, <2>1, ApplyStep
    <3>3. /\ dbs'[k].version = dbs[k].version + 1 /\ dbs'[k].lastCommitID = req.id
          /\ dbs'[k].pageCount = req.pageCount
      BY SMTT(60), <1>1, <3>2, CommittedFields
    <3>4. dbs'[k].blocks = Written(dbs[k].blocks, req)
      BY <1>1, <3>2, CommittedBlocks
    <3> HIDE DEF new
    <3>5. \E a \in applied' :
            /\ a.lease.key = k /\ a.life = life'[k] /\ a.version = dbs'[k].version
            /\ a.id = dbs'[k].lastCommitID
            /\ a.pageCount = dbs'[k].pageCount /\ a.blocks = dbs'[k].blocks
      <4>1. new \in applied' /\ new.life = life'[k]
        BY <2>0, <3>1
      <4> QED
        BY <3>1, <3>3, <3>4, <4>1
    <3> QED
      BY <3>5 DEF ContentOf, Current
  <2>2. CASE k # req.lease.key
    <3>1. new.lease.key # k
      BY <2>2 DEF AppliedCommit
    <3> HIDE DEF new
    <3> QED
      BY <2>0, <2>2, <3>1 DEF ContentOf, Current
  <2> QED
    BY <2>1, <2>2
<1>5. CASE Quiet
  <2>0. applied' = applied
    BY <1>5 DEF Quiet
  <2>1. CASE life'[k] = life[k] /\ Kept(dbs[k], dbs'[k])
    BY <1>2, <2>0, <2>1 DEF Kept
  <2>2. CASE life'[k] = life[k] /\ Deleted(dbs[k], dbs'[k])
    <3>1. /\ dbs'[k].lastCommitID = None /\ dbs'[k].pageCount = 0
          /\ dbs'[k].blocks = NoBlocks /\ dbs'[k].version = dbs[k].version + 1
      BY <1>1, <2>2, DeletedFields
    <3>2. \A a \in applied : Current(a, k) => a.version <= dbs[k].version
      BY DEF StoreInv, Current
    <3> QED
      BY SMTT(60), <1>1, <2>0, <2>2, <3>1, <3>2 DEF ContentOf, Current
  <2>3. CASE life'[k] = life[k] + 1 /\ dbs'[k] = NoDatabase
    <3>1. \A a \in applied : ~ (a.lease.key = k /\ a.life = life'[k])
      BY SMTT(60), <1>1, <2>3 DEF StoreInv
    <3> QED
      BY <2>0, <2>3, <3>1, NoDatabaseFields DEF ContentOf, Current
  <2> QED
    BY <1>5, <2>1, <2>2, <2>3 DEF Quiet
<1> QED
  BY <1>3, <1>4, <1>5 DEF Effect

(***************************************************************************)
(* The state of a database is what its last commit left, for files of      *)
(* every length, through deletions, purges and creations anew.             *)
(***************************************************************************)
THEOREM StateIsLastCommitHolds == StoreSpec => []StateIsLastCommit
<1> DEFINE Inv == \A key \in Key : ContentOf(key)
<1>1. StoreInit => Inv
  BY NoDatabaseFields DEF StoreInit, ContentOf
<1>2. StoreTypeOK /\ StoreInv /\ Inv /\ [StoreNext]_vars => Inv'
  BY StepEffect, ContentStep
<1>3. Inv => StateIsLastCommit
  BY DEF ContentOf, StateIsLastCommit
<1> QED
  BY <1>1, <1>2, <1>3, StoreInvariant, PTL DEF StoreSpec

-----------------------------------------------------------------------------
(* Page sizes *)

\* BlocksFitTheFile for databases of every status.
SizesOf(key) ==
  \A i \in Index : \/ dbs[key].blocks[i] = Zero
                   \/ /\ i < dbs[key].pageCount
                      /\ dbs[key].blocks[i].size = dbs[key].pageSize

\* Every step keeps blocks within the file and of its page size.
LEMMA SizesStep ==
  ASSUME StoreTypeOK, StoreInv, Effect, NEW k \in Key, SizesOf(k)
  PROVE  SizesOf(k)'
<1>1. dbs[k] \in Database
  BY DEF StoreTypeOK
<1>2. ASSUME dbs'[k].blocks = dbs[k].blocks, dbs'[k].pageSize = dbs[k].pageSize,
             dbs'[k].pageCount = dbs[k].pageCount
      PROVE  SizesOf(k)'
  BY <1>2 DEF SizesOf
<1>3. ASSUME dbs'[k].blocks = NoBlocks PROVE SizesOf(k)'
  BY <1>3 DEF SizesOf, NoBlocks
<1>4. ASSUME NEW key, NEW req, Grants(key, req) PROVE SizesOf(k)'
  <2>1. CASE k = key /\ dbs[k].status = "live"
    BY SMTT(60), <1>1, <1>2, <1>4, <2>1, GrantStep, GrantedFields
  <2>2. CASE k = key /\ dbs[k].status # "live"
    BY SMTT(60), <1>1, <1>3, <1>4, <2>2, GrantStep, GrantedFields DEF StoreInv
  <2>3. CASE k # key
    BY <1>2, <1>4, <2>3, GrantStep
  <2> QED
    BY <2>1, <2>2, <2>3
<1>5. ASSUME NEW req, NEW t, Applies(req, t) PROVE SizesOf(k)'
  <2>1. CASE k = req.lease.key
    <3>1. /\ dbs'[k] = Committed(dbs[k], req, t) /\ ValidateCommit(dbs[k].pageSize, req)
          /\ req.pageCount \in Nat
      BY <1>5, <2>1, ApplyStep
    <3>2. dbs'[k].blocks = Written(dbs[k].blocks, req)
      BY <1>1, <3>1, CommittedBlocks
    <3>3. dbs'[k].pageSize = dbs[k].pageSize /\ dbs'[k].pageCount = req.pageCount
      BY SMTT(60), <1>1, <3>1, CommittedFields
    <3>4. ASSUME NEW i \in Index, dbs'[k].blocks[i] # Zero
          PROVE  i < dbs'[k].pageCount /\ dbs'[k].blocks[i].size = dbs'[k].pageSize
      <4>1. i \in Nat
        BY SMTT(60), ConstantsAssumption DEF Index
      <4>2. i < req.pageCount
        BY SMTT(60), <3>1, <3>2, <3>4, <4>1 DEF Written
      <4>3. CASE i \in Indexes(req.blocks)
        <5>1. req.size = dbs[k].pageSize
          BY SMTT(60), <3>1, <4>3 DEF ValidateCommit, Indexes
        <5> QED
          BY SMTT(60), <3>1, <3>2, <3>3, <4>1, <4>2, <4>3, <5>1 DEF Written
      <4>4. CASE i \notin Indexes(req.blocks)
        BY <3>1, <3>2, <3>3, <3>4, <4>1, <4>2, <4>4 DEF Written, SizesOf
      <4> QED
        BY <4>3, <4>4
    <3> QED
      BY <3>4 DEF SizesOf
  <2>2. CASE k # req.lease.key
    BY <1>2, <1>5, <2>2, ApplyStep
  <2> QED
    BY <2>1, <2>2
<1>6. CASE Quiet
  <2>1. CASE Kept(dbs[k], dbs'[k])
    BY <1>2, <2>1 DEF Kept
  <2>2. CASE Deleted(dbs[k], dbs'[k])
    BY <1>1, <1>3, <2>2, DeletedFields
  <2>3. CASE dbs'[k] = NoDatabase
    BY <1>3, <2>3, NoDatabaseFields
  <2> QED
    BY <1>6, <2>1, <2>2, <2>3 DEF Quiet
<1> QED
  BY <1>4, <1>5, <1>6 DEF Effect

(***************************************************************************)
(* Every stored block has the page size of its database and lies within    *)
(* the file, for files of every length and every set of page sizes         *)
(* (ValidateCommit, Commit, remove and Open).                              *)
(***************************************************************************)
THEOREM BlocksFitTheFileHolds == StoreSpec => []BlocksFitTheFile
<1> DEFINE Inv == \A key \in Key : SizesOf(key)
<1>1. StoreInit => Inv
  BY SMTT(60), NoDatabaseFields DEF StoreInit, SizesOf, NoBlocks
<1>2. StoreTypeOK /\ StoreInv /\ Inv /\ [StoreNext]_vars => Inv'
  BY StepEffect, SizesStep
<1>3. Inv => BlocksFitTheFile
  BY DEF SizesOf, BlocksFitTheFile
<1> QED
  BY <1>1, <1>2, <1>3, StoreInvariant, PTL DEF StoreSpec

\* Every step keeps the bound on files.
LEMMA FileSizesStep ==
  ASSUME StoreTypeOK, StoreInv, Effect, FileSizes
  PROVE  FileSizes'
<1> SUFFICES ASSUME NEW k \in Key PROVE dbs'[k].pageCount <= MaxPages
  BY DEF FileSizes
<1>1. dbs[k] \in Database /\ dbs[k].pageCount <= MaxPages /\ 0 <= MaxPages
  BY SMTT(60), ConstantsAssumption DEF StoreTypeOK, FileSizes
<1>2. ASSUME NEW key, NEW req, Grants(key, req) PROVE dbs'[k].pageCount <= MaxPages
  BY SMTT(60), <1>1, <1>2, GrantStep, GrantedFields
<1>3. ASSUME NEW req, NEW t, Applies(req, t) PROVE dbs'[k].pageCount <= MaxPages
  <2>1. req.pageCount <= MaxPages
    BY SMTT(60), <1>3, ConstantsAssumption DEF Applies, CommitRequest
  <2>2. dbs'[k] = dbs[k] \/ dbs'[k] = Committed(dbs[k], req, t)
    BY <1>3, ApplyStep
  <2> QED
    BY SMTT(60), <1>1, <2>1, <2>2, CommittedFields
<1>4. CASE Quiet
  <2>1. Kept(dbs[k], dbs'[k]) \/ Deleted(dbs[k], dbs'[k]) \/ dbs'[k] = NoDatabase
    BY <1>4 DEF Quiet
  <2> QED
    BY <1>1, <2>1, DeletedFields, NoDatabaseFields DEF Kept
<1> QED
  BY <1>2, <1>3, <1>4 DEF Effect

-----------------------------------------------------------------------------
(* The change log *)

\* What a commit leaves of the change log.
LEMMA CommittedChanges ==
  ASSUME NEW db \in Database, NEW req, NEW t
  PROVE  Committed(db, req, t).changes =
           Trim(Append(db.changes, [version |-> db.version + 1,
                                    blocks |-> Indexes(req.blocks)]))
BY DEF Committed, Database

\* Trim keeps a suffix that ends with the appended entry.
LEMMA TrimAppend ==
  ASSUME NEW log \in Seq(Entry), NEW e \in Entry
  PROVE  LET new == Trim(Append(log, e))
             d == Len(log) + 1 - Len(new) IN
         /\ new \in Seq(Entry) /\ Len(new) \in 1 .. Len(log) + 1
         /\ \A j \in 1 .. Len(new) - 1 : new[j] = log[d + j]
         /\ new[Len(new)] = e
<1> DEFINE all == Append(log, e)
           n == Len(log) + 1
           kept == Trim(all)
<1> SUFFICES /\ kept \in Seq(Entry) /\ Len(kept) \in 1 .. n
             /\ \A j \in 1 .. Len(kept) - 1 : kept[j] = log[n - Len(kept) + j]
             /\ kept[Len(kept)] = e
  BY SMTT(60)
<1>1. /\ all \in Seq(Entry) /\ Len(all) = n /\ n \in Nat \ {0}
      /\ \A j \in 1 .. Len(log) : all[j] = log[j]
      /\ all[n] = e
  BY SMTT(60), AppendedSeq, SeqShape
<1> HIDE DEF all
<1>2. CASE n <= ChangeWindow
  <2>1. Trim(all) = all
    BY SMTT(60), <1>1, <1>2, ConstantsAssumption DEF Trim
  <2> QED
    BY SMTT(60), <1>1, <2>1, SeqShape DEF all
<1>3. CASE n > ChangeWindow
  <2> DEFINE a == n - ChangeWindow + 1
  <2>1. a \in 1 .. n /\ ChangeWindow \in Nat \ {0}
    BY SMTT(60), <1>1, <1>3, ConstantsAssumption
  <2>2. Trim(all) = SubSeq(all, a, n)
    BY <1>1, <1>3 DEF Trim
  <2>3. /\ SubSeq(all, a, n) \in Seq(Entry) /\ Len(SubSeq(all, a, n)) = ChangeWindow
        /\ \A j \in 1 .. ChangeWindow : SubSeq(all, a, n)[j] = all[a + j - 1]
    BY SMTT(60), <1>1, <2>1, CutSeq
  <2>4. ASSUME NEW j \in 1 .. ChangeWindow - 1 PROVE all[a + j - 1] = log[n - ChangeWindow + j]
    <3>1. Len(log) \in Nat
      BY SeqShape
    <3>2. a + j - 1 = n - ChangeWindow + j /\ n - ChangeWindow + j \in 1 .. Len(log)
      BY SMTT(60), <1>3, <2>1, <3>1
    <3> QED
      BY <1>1, <3>2
  <2>5. all[a + ChangeWindow - 1] = e
    BY SMTT(60), <1>1, <2>1
  <2> DEFINE new == SubSeq(all, a, n)
  <2>6. \A j \in 1 .. ChangeWindow - 1 : new[j] = log[n - ChangeWindow + j]
    BY SMTT(60), <2>1, <2>3, <2>4
  <2>7. new[ChangeWindow] = e
    BY SMTT(60), <2>1, <2>3, <2>5
  <2>8. ChangeWindow \in 1 .. n
    BY SMTT(60), <1>1, <1>3, <2>1
  <2> HIDE DEF new
  <2>9. /\ new \in Seq(Entry) /\ Len(new) \in 1 .. n
        /\ \A j \in 1 .. Len(new) - 1 : new[j] = log[n - Len(new) + j]
        /\ new[Len(new)] = e
    BY <2>3, <2>6, <2>7, <2>8 DEF new
  <2> QED
    BY <2>2, <2>9 DEF new
<1> QED
  BY SMTT(60), <1>1, <1>2, <1>3, ConstantsAssumption

(***************************************************************************)
(* What a commit adds to the log.  If the new log reaches back to a        *)
(* version, so did the old one, and the change set since that version      *)
(* gains the blocks of the commit and loses none.                          *)
(***************************************************************************)
LEMMA CommitLog ==
  ASSUME NEW db \in Database, LogOK(db), NEW req, req.blocks \in Seq(Nat), NEW t
  PROVE  LET new == Committed(db, req, t) IN
         /\ LogOK(new)
         /\ \A from \in 0 .. db.version : LogReaches(new, from) =>
              /\ Changes(db, from).complete
              /\ Changes(db, from).blocks \subseteq Changes(new, from).blocks
              /\ Indexes(req.blocks) \subseteq Changes(new, from).blocks
<1> DEFINE new == Committed(db, req, t)
           c == db.changes
           d == new.changes
           e == [version |-> db.version + 1, blocks |-> Indexes(req.blocks)]
           L == Len(c)
           m == Len(d)
<1>1. db.version \in Nat
  BY DEF Database
<1>2. c \in Seq(Entry)
  BY DEF Database
<1>3. e \in Entry
  <2>1. Indexes(req.blocks) \in SUBSET Nat
    BY SMTT(60) DEF Indexes
  <2> QED
    BY SMTT(60), <1>1, <2>1 DEF Entry
<1>4. d = Trim(Append(c, e))
  BY CommittedChanges
<1>5. new.version = db.version + 1
  BY SMTT(60), CommittedFields
<1>6. e.version = db.version + 1 /\ e.blocks = Indexes(req.blocks)
  OBVIOUS
<1> HIDE DEF new, c, d, e
<1>7. /\ d \in Seq(Entry) /\ m \in 1 .. L + 1
      /\ \A j \in 1 .. m - 1 : d[j] = c[L + 1 - m + j]
      /\ d[m] = e
  BY <1>2, <1>3, <1>4, TrimAppend
<1>8. L \in Nat /\ m \in Nat \ {0} /\ DOMAIN c = 1 .. L /\ DOMAIN d = 1 .. m
  BY SMTT(60), <1>2, <1>7, SeqShape
<1> HIDE DEF L, m
<1>9. \A i \in 1 .. L : c[i].version = db.version - L + i
  BY DEF LogOK, c, L
<1>10. ASSUME NEW j \in 1 .. m PROVE d[j].version = new.version - m + j
  <2>1. CASE j = m
    BY SMTT(60), <1>1, <1>5, <1>6, <1>7, <1>8, <2>1
  <2>2. CASE j < m
    <3>1. L + 1 - m + j \in 1 .. L
      BY SMTT(60), <1>7, <1>8, <2>2
    <3>2. d[j] = c[L + 1 - m + j]
      BY SMTT(60), <1>7, <1>8, <2>2
    <3> QED
      BY SMTT(60), <1>1, <1>5, <1>8, <1>9, <3>1, <3>2
  <2> QED
    BY SMTT(60), <1>8, <2>1, <2>2
<1>11. LogOK(new)
  BY <1>10 DEF LogOK, d, m
<1>12. ASSUME NEW from \in 0 .. db.version, LogReaches(new, from)
       PROVE  /\ Changes(db, from).complete
              /\ Changes(db, from).blocks \subseteq Changes(new, from).blocks
              /\ Indexes(req.blocks) \subseteq Changes(new, from).blocks
  <2>1. d[1].version <= from + 1
    BY <1>12 DEF LogReaches, d
  <2>2. db.version + 1 - m <= from
    BY SMTT(60), <1>1, <1>5, <1>8, <1>10, <2>1
  <2>3. Changes(new, from).blocks = UNION {d[i].blocks : i \in {j \in 1 .. m : d[j].version > from}}
    BY SMTT(60), <1>1, <1>5, <1>8, <1>12 DEF Changes, d
  <2>4. Indexes(req.blocks) \subseteq Changes(new, from).blocks
    <3>1. m \in {j \in 1 .. m : d[j].version > from}
      BY SMTT(60), <1>1, <1>6, <1>7, <1>8
    <3> QED
      BY <1>6, <1>7, <2>3, <3>1
  <2>5. CASE from = db.version
    BY <2>4, <2>5 DEF Changes
  <2>6. CASE from < db.version
    <3>1. m >= 2 /\ L >= 1
      BY SMTT(60), <1>1, <1>7, <1>8, <2>2, <2>6
    <3>2. c # <<>> /\ c[1].version <= from + 1
      BY SMTT(60), <1>1, <1>7, <1>8, <1>9, <2>2, <3>1
    <3>3. LogReaches(db, from)
      BY <3>2 DEF LogReaches, c
    <3>4. Changes(db, from).blocks = UNION {c[i].blocks : i \in {j \in 1 .. L : c[j].version > from}}
      BY SMTT(60), <1>1, <1>8, <2>6, <3>3 DEF Changes, c
    <3>5. ASSUME NEW i \in 1 .. L, c[i].version > from
          PROVE  c[i].blocks \subseteq Changes(new, from).blocks
      <4> DEFINE j == i - (L + 1 - m)
      <4>0. c[i].version = db.version - L + i
        BY <1>9
      <4>1. j \in 1 .. m - 1
        BY SMTT(60), <1>1, <1>8, <2>2, <3>5, <4>0
      <4>2. d[j] = c[i]
        <5>1. L + 1 - m + j = i
          BY SMTT(60), <1>8
        <5> HIDE DEF j
        <5> QED
          BY <1>7, <4>1, <5>1
      <4>3. j \in {r \in 1 .. m : d[r].version > from}
        BY SMTT(60), <1>8, <3>5, <4>1, <4>2
      <4> HIDE DEF j
      <4> QED
        BY <2>3, <4>2, <4>3
    <3>6. Changes(db, from).complete
      BY <3>3 DEF Changes
    <3> QED
      BY <2>4, <3>4, <3>5, <3>6
  <2> QED
    BY SMTT(60), <1>1, <2>5, <2>6
<1> QED
  BY <1>11, <1>12 DEF new

\* A client with the copy that commit a left can catch up with db, the database of key.
CopyOK(key, db, a) ==
  Changes(db, a.version).complete =>
    \A i \in Index \ Changes(db, a.version).blocks : i < a.pageCount =>
      \/ i < db.pageCount /\ db.blocks[i] = a.blocks[i]
      \/ CutOff(key, a.version, i) /\ db.blocks[i] = Zero

\* CatchUp for one database, with the shape of its log.
CopiesOf(key) ==
  LogOK(dbs[key]) /\ \A a \in applied : Current(a, key) => CopyOK(key, dbs[key], a)

\* Every step keeps what the change log says of older copies.
LEMMA CopiesStep ==
  ASSUME StoreTypeOK, StoreInv, Effect, NEW k \in Key, CopiesOf(k)
  PROVE  CopiesOf(k)'
<1>1. dbs[k] \in Database /\ dbs[k].version \in Nat /\ dbs[k].pageCount \in Nat /\ life[k] \in Nat
  BY DEF StoreTypeOK, Database
<1>2. \A a \in applied : a.version \in Nat /\ a.pageCount \in Nat /\ a.life \in Nat
  BY DEF StoreTypeOK, Applied
<1>3. \A a \in applied : Current(a, k) => a.version \in 0 .. dbs[k].version
  BY SMTT(60), <1>1, <1>2 DEF StoreInv, Current
<1>4. ASSUME applied' = applied, life'[k] = life[k], dbs'[k].version = dbs[k].version,
             dbs'[k].changes = dbs[k].changes, dbs'[k].pageCount = dbs[k].pageCount,
             dbs'[k].blocks = dbs[k].blocks
      PROVE  CopiesOf(k)'
  <2>1. LogOK(dbs'[k])
    BY <1>4 DEF LogOK, CopiesOf
  <2>2. ASSUME NEW a, NEW i PROVE CutOff(k, a.version, i)' <=> CutOff(k, a.version, i)
    BY <1>4 DEF CutOff, Current
  <2>3. ASSUME NEW a, CopyOK(k, dbs[k], a) PROVE CopyOK(k, dbs[k], a)'
    <3>1. Changes(dbs'[k], a.version) = Changes(dbs[k], a.version)
      BY <1>4 DEF Changes, LogReaches
    <3>2. \A i : CutOff(k, a.version, i)' <=> CutOff(k, a.version, i)
      BY <2>2
    <3> QED
      BY <1>4, <2>3, <3>1, <3>2 DEF CopyOK
  <2> QED
    BY <1>4, <2>1, <2>3 DEF CopiesOf, Current
<1>5. ASSUME applied' = applied, dbs'[k].changes = <<>>,
             \A a \in applied : a.lease.key = k /\ a.life = life'[k] => a.version # dbs'[k].version
      PROVE  CopiesOf(k)'
  <2>1. LogOK(dbs'[k])
    BY SMTT(60), <1>5 DEF LogOK
  <2>2. ASSUME NEW a \in applied, a.lease.key = k, a.life = life'[k] PROVE CopyOK(k, dbs[k], a)'
    BY <1>5, <2>2 DEF CopyOK, Changes, LogReaches
  <2> QED
    BY <1>5, <2>1, <2>2 DEF CopiesOf, Current
<1>6. ASSUME NEW key, NEW req, Grants(key, req) PROVE CopiesOf(k)'
  <2>1. CASE k = key
    BY SMTT(60), <1>1, <1>4, <1>6, <2>1, GrantStep, GrantedFields
  <2>2. CASE k # key
    BY <1>4, <1>6, <2>2, GrantStep
  <2> QED
    BY <2>1, <2>2
<1>7. ASSUME NEW req, NEW t, Applies(req, t) PROVE CopiesOf(k)'
  <2> DEFINE added == AppliedCommit(req)
             db == dbs[k]
             new == Committed(db, req, t)
  <2>0. /\ applied' = applied \cup {added} /\ life' = life
        /\ k # req.lease.key => dbs'[k] = dbs[k]
    BY <1>7, ApplyStep
  <2>1. ASSUME NEW v, NEW i, CutOff(k, v, i) PROVE CutOff(k, v, i)'
    BY <2>0, <2>1 DEF CutOff, Current
  <2>2. CASE k # req.lease.key
    <3>1. added.lease.key # k
      BY <2>2 DEF AppliedCommit
    <3> HIDE DEF added
    <3>2. ASSUME NEW a PROVE CopyOK(k, dbs[k], a) => CopyOK(k, dbs[k], a)'
      BY <2>0, <2>1, <2>2 DEF CopyOK
    <3> QED
      BY <2>0, <2>2, <3>1, <3>2 DEF CopiesOf, Current
  <2>3. CASE k = req.lease.key
    <3>1. dbs'[k] = new /\ req.blocks \in Seq(Nat) /\ req.pageCount \in Nat
      BY <1>7, <2>3, ApplyStep
    <3>2. LogOK(new)
      BY <1>1, <3>1, CommitLog DEF CopiesOf
    <3>3. new.version = db.version + 1 /\ new.pageCount = req.pageCount
      BY SMTT(60), <1>1, CommittedFields
    <3>4. new.blocks = Written(db.blocks, req)
      BY <1>1, CommittedBlocks
    <3>5. /\ added.version = new.version /\ added.blocks = new.blocks
          /\ added.pageCount = new.pageCount /\ added.lease.key = k /\ added.life = life[k]
      BY <2>3, <3>3, <3>4 DEF AppliedCommit
    <3>6. ASSUME NEW a \in applied, Current(a, k), Changes(new, a.version).complete,
                 NEW i \in Index \ Changes(new, a.version).blocks, i < a.pageCount
          PROVE  \/ i < new.pageCount /\ new.blocks[i] = a.blocks[i]
                 \/ CutOff(k, a.version, i)' /\ new.blocks[i] = Zero
      <4>1. a.version \in 0 .. db.version /\ a.version < new.version /\ a.version # new.version
        BY SMTT(60), <1>1, <1>3, <3>3, <3>6
      <4>2. LogReaches(new, a.version)
        BY <3>6, <4>1 DEF Changes
      <4>3. /\ Changes(db, a.version).complete
            /\ Changes(db, a.version).blocks \subseteq Changes(new, a.version).blocks
            /\ Indexes(req.blocks) \subseteq Changes(new, a.version).blocks
        BY <1>1, <3>1, <4>1, <4>2, CommitLog DEF CopiesOf
      <4>4. i \notin Indexes(req.blocks) /\ i \notin Changes(db, a.version).blocks
        BY <3>6, <4>3
      <4>5. \/ i < db.pageCount /\ db.blocks[i] = a.blocks[i]
            \/ CutOff(k, a.version, i) /\ db.blocks[i] = Zero
        BY <3>6, <4>3, <4>4 DEF CopiesOf, CopyOK
      <4>6. i \in Nat
        BY SMTT(60), ConstantsAssumption DEF Index
      <4>7. CASE i < req.pageCount
        <5>1. Written(db.blocks, req)[i] = db.blocks[i]
          BY SMTT(60), <3>1, <4>4, <4>6, <4>7 DEF Written
        <5> QED
          BY <2>1, <3>3, <3>4, <4>5, <4>7, <5>1
      <4>8. CASE i >= req.pageCount
        <5>1. Written(db.blocks, req)[i] = Zero
          BY <4>8 DEF Written
        <5>2. CutOff(k, a.version, i)'
          <6> HIDE DEF added, new
          <6> QED
            BY <2>0, <3>3, <3>5, <4>1, <4>8 DEF CutOff, Current
        <5> QED
          BY <3>4, <5>1, <5>2
      <4> QED
        BY SMTT(60), <3>1, <4>6, <4>7, <4>8
    <3> HIDE DEF added, new
    <3>7. ASSUME NEW a, a = added PROVE CopyOK(k, dbs[k], a)'
      BY <3>1, <3>5, <3>7 DEF CopyOK
    <3>8. \A a \in applied : Current(a, k) => CopyOK(k, dbs[k], a)'
      BY <3>1, <3>6 DEF CopyOK
    <3>9. \A a \in applied' : Current(a, k)' => CopyOK(k, dbs[k], a)'
      BY <2>0, <3>7, <3>8 DEF Current
    <3> QED
      BY <3>1, <3>2, <3>9 DEF CopiesOf
  <2> QED
    BY <2>2, <2>3
<1>8. CASE Quiet
  <2>0. applied' = applied
    BY <1>8 DEF Quiet
  <2>1. CASE life'[k] = life[k] /\ Kept(dbs[k], dbs'[k])
    BY <1>4, <2>0, <2>1 DEF Kept
  <2>2. CASE life'[k] = life[k] /\ Deleted(dbs[k], dbs'[k])
    <3>1. dbs'[k].changes = <<>> /\ dbs'[k].version = dbs[k].version + 1
      BY <1>1, <2>2, DeletedFields
    <3>2. \A a \in applied : a.lease.key = k /\ a.life = life'[k] => a.version # dbs'[k].version
      BY SMTT(60), <1>1, <1>3, <2>2, <3>1 DEF Current
    <3> QED
      BY <1>5, <2>0, <3>1, <3>2
  <2>3. CASE life'[k] = life[k] + 1 /\ dbs'[k] = NoDatabase
    <3>1. \A a \in applied : ~ (a.lease.key = k /\ a.life = life'[k])
      BY SMTT(60), <1>1, <1>2, <2>3 DEF StoreInv
    <3> QED
      BY <1>5, <2>0, <2>3, <3>1, NoDatabaseFields
  <2> QED
    BY <1>8, <2>1, <2>2, <2>3 DEF Quiet
<1> QED
  BY <1>6, <1>7, <1>8 DEF Effect

(***************************************************************************)
(* A client that discards the blocks Changes lists, and those that were    *)
(* cut off, has the current database, for every window and every number    *)
(* of commits it missed.                                                   *)
(***************************************************************************)
THEOREM CatchUpHolds == StoreSpec => []CatchUp
<1> DEFINE Inv == \A key \in Key : CopiesOf(key)
<1>1. StoreInit => Inv
  BY SMTT(60), NoDatabaseFields DEF StoreInit, CopiesOf, LogOK
<1>2. StoreTypeOK /\ StoreInv /\ Inv /\ [StoreNext]_vars => Inv'
  BY StepEffect, CopiesStep
<1>3. Inv => CatchUp
  BY DEF CopiesOf, CopyOK, CatchUp
<1> QED
  BY <1>1, <1>2, <1>3, StoreInvariant, PTL DEF StoreSpec

-----------------------------------------------------------------------------
(* Files *)

\* Every record is a file as LeasedFile has it.
LEMMA FileType ==
  ASSUME NEW db \in Database, NEW n \in Nat
  PROVE  FileOf(db, n) \in F!File
<1>1. <<db.pageCount, db.blocks>> \in Nat \X [Index -> Data]
  BY DEF Database
<1>2. db.epoch \in Nat /\ db.version \in Nat /\ db.holder \in Instance \cup {None}
  BY DEF Database
<1> QED
  BY <1>1, <1>2 DEF FileOf, F!File

\* A grant counts the epoch up and has a holder.
LEMMA GrantedFile ==
  ASSUME NEW db \in Database, NEW n \in Nat, NEW req, req.instance \in Instance
  PROVE  F!Grant(FileOf(db, n), FileOf(Granted(db, req), n))
<1> DEFINE new == Granted(db, req)
<1>1. /\ new.epoch = db.epoch + 1 /\ new.version = db.version
      /\ new.pageCount = db.pageCount /\ new.blocks = db.blocks
  BY GrantedFields
<1>2. new.holder = req.instance
  BY DEF Granted, Database
<1>3. new.holder # None
  BY <1>2, ConstantsAssumption
<1> HIDE DEF new
<1>4. F!Grant(FileOf(db, n), FileOf(new, n))
  BY <1>1, <1>3 DEF F!Grant, F!AFile, FileOf
<1> QED
  BY <1>4 DEF new

\* A commit is a write by the holder.
LEMMA CommittedFile ==
  ASSUME NEW db \in Database, NEW n \in Nat, NEW req, NEW t, db.holder # None
  PROVE  F!Write(FileOf(db, n), FileOf(Committed(db, req, t), n))
<1> DEFINE new == Committed(db, req, t)
<1>1. new.epoch = db.epoch /\ new.version = db.version + 1
  BY SMTT(60), CommittedFields
<1>2. new.holder = db.holder
  BY DEF Committed, Database
<1> HIDE DEF new
<1>3. F!Write(FileOf(db, n), FileOf(new, n))
  BY <1>1, <1>2 DEF F!Write, F!AFile, FileOf
<1> QED
  BY <1>3 DEF new

\* A deletion leaves an empty file with the next epoch and version.
LEMMA DeletedFile ==
  ASSUME NEW db \in Database, NEW n \in Nat, NEW new, Deleted(db, new)
  PROVE  F!Delete(FileOf(db, n), FileOf(new, n))
BY DeletedFields DEF F!Delete, F!AFile, FileOf

\* A step that keeps a record leaves its file as it is, or ends the lease.
LEMMA KeptFile ==
  ASSUME NEW db, NEW new, NEW n \in Nat, Kept(db, new)
  PROVE  \/ FileOf(new, n) = FileOf(db, n)
         \/ F!End(FileOf(db, n), FileOf(new, n))
<1>1. CASE new.holder = db.holder
  BY <1>1 DEF Kept, FileOf
<1>2. CASE new.holder = None
  BY <1>2 DEF Kept, FileOf, F!AFile, F!End
<1> QED
  BY <1>1, <1>2 DEF Kept

\* A purge starts a new life.
LEMMA PurgedFile ==
  ASSUME NEW db, NEW n \in Nat
  PROVE  F!Purge(FileOf(db, n), FileOf(NoDatabase, n + 1))
BY NoDatabaseFields DEF F!Purge, F!NewFile, F!AFile, FileOf

\* What each operation of the store does to one database is a step of its file.
LEMMA FileStep ==
  ASSUME StoreTypeOK, StoreInv, Effect, NEW k \in Key
  PROVE  F!Step(FileOf(dbs[k], life[k]), FileOf(dbs'[k], life'[k]))
<1>1. dbs[k] \in Database /\ life[k] \in Nat
  BY DEF StoreTypeOK
<1>2. ASSUME dbs'[k] = dbs[k], life'[k] = life[k]
      PROVE  F!Step(FileOf(dbs[k], life[k]), FileOf(dbs'[k], life'[k]))
  BY <1>2 DEF F!Step
<1>3. ASSUME NEW key, NEW req, Grants(key, req)
      PROVE  F!Step(FileOf(dbs[k], life[k]), FileOf(dbs'[k], life'[k]))
  <2>1. CASE k = key
    <3>1. req.instance \in Instance
      BY <1>3 DEF Grants
    <3>2. dbs'[k] = Granted(dbs[k], req) /\ life'[k] = life[k]
      BY <1>3, <2>1, GrantStep
    <3> QED
      BY <1>1, <3>1, <3>2, GrantedFile DEF F!Step
  <2>2. CASE k # key
    BY SMTT(60), <1>2, <1>3, <2>2, GrantStep
  <2> QED
    BY <2>1, <2>2
<1>4. ASSUME NEW req, NEW t, Applies(req, t)
      PROVE  F!Step(FileOf(dbs[k], life[k]), FileOf(dbs'[k], life'[k]))
  <2>1. CASE k = req.lease.key
    <3>1. dbs'[k] = Committed(dbs[k], req, t) /\ life'[k] = life[k]
      BY <1>4, <2>1, ApplyStep
    <3>2. dbs[k].holder # None
      BY <1>4, <2>1 DEF Applies, CommitApply, CommitOutcome, Holds
    <3> QED
      BY <1>1, <3>1, <3>2, CommittedFile DEF F!Step
  <2>2. CASE k # req.lease.key
    BY <1>2, <1>4, <2>2, ApplyStep
  <2> QED
    BY <2>1, <2>2
<1>5. CASE Quiet
  <2>1. CASE life'[k] = life[k] /\ Kept(dbs[k], dbs'[k])
    BY <1>1, <2>1, KeptFile DEF F!Step
  <2>2. CASE life'[k] = life[k] /\ Deleted(dbs[k], dbs'[k])
    BY <1>1, <2>2, DeletedFile DEF F!Step
  <2>3. CASE life'[k] = life[k] + 1 /\ dbs'[k] = NoDatabase
    BY <1>1, <2>3, PurgedFile DEF F!Step
  <2> QED
    BY <1>5, <2>1, <2>2, <2>3 DEF Quiet
<1> QED
  BY <1>3, <1>4, <1>5 DEF Effect

\* Initially no file has a writer.
LEMMA FileInit == ASSUME StoreInit PROVE F!Init
<1> SUFFICES fileOf = [k \in Key |-> F!NewFile(0)]
  BY DEF F!Init
<1>1. \A k \in Key : dbs[k] = NoDatabase /\ life[k] = 0
  BY DEF StoreInit
<1>2. FileOf(NoDatabase, 0) = F!NewFile(0)
  BY NoDatabaseFields DEF FileOf, F!NewFile, F!AFile
<1> QED
  BY <1>1, <1>2 DEF fileOf

\* Whatever a step of the store does, it takes every file at most one step further.
LEMMA FilesStep ==
  ASSUME StoreTypeOK, StoreTypeOK', StoreInv, Effect
  PROVE  F!Next
<1>1. fileOf' = [k \in Key |-> FileOf(dbs'[k], life'[k])]
  BY DEF fileOf, FileOf
<1>2. \A k \in Key : FileOf(dbs'[k], life'[k]) \in F!File
  BY FileType DEF StoreTypeOK
<1>3. \A k \in Key : F!Step(fileOf[k], fileOf'[k])
  BY <1>1, FileStep DEF fileOf
<1>4. fileOf' \in [Key -> F!File]
  BY <1>1, <1>2
<1> QED
  BY <1>3, <1>4 DEF F!Next

(***************************************************************************)
(* The store implements versioned files with one writer each.  Initially   *)
(* no file has a writer, and whatever a step of the store does, it takes   *)
(* every file at most one step further.                                    *)
(***************************************************************************)
THEOREM StoreImplementsLeasedFile == StoreSpec => ImplementsLeasedFile
<1>1. StoreInit => F!Init
  BY FileInit
<1>2. StoreTypeOK /\ StoreTypeOK' /\ StoreInv /\ [StoreNext]_vars => [F!Next]_fileOf
  BY StepEffect, FilesStep
<1> QED
  BY <1>1, <1>2, StoreInvariant, PTL DEF StoreSpec, ImplementsLeasedFile, F!Spec

-----------------------------------------------------------------------------
(* What every effect keeps *)

\* The change log changes only together with version or life.
LEMMA LogEffect ==
  ASSUME StoreTypeOK, StoreInv, Effect, NEW k \in Key
  PROVE  \/ /\ life'[k] = life[k] /\ dbs'[k].version = dbs[k].version
            /\ dbs'[k].changes = dbs[k].changes
         \/ life'[k] = life[k] /\ dbs'[k].version = dbs[k].version + 1
         \/ life'[k] = life[k] + 1
<1>1. dbs[k] \in Database
  BY DEF StoreTypeOK
<1>2. ASSUME NEW key, NEW req, Grants(key, req)
      PROVE  /\ life'[k] = life[k] /\ dbs'[k].version = dbs[k].version
             /\ dbs'[k].changes = dbs[k].changes
  BY SMTT(60), <1>1, <1>2, GrantStep, GrantedFields
<1>3. ASSUME NEW req, NEW t, Applies(req, t)
      PROVE  life'[k] = life[k] /\ (dbs'[k] = dbs[k] \/ dbs'[k].version = dbs[k].version + 1)
  BY SMTT(60), <1>1, <1>3, ApplyStep, CommittedFields
<1>4. CASE Quiet
  <2>1. \/ life'[k] = life[k] /\ (Kept(dbs[k], dbs'[k]) \/ Deleted(dbs[k], dbs'[k]))
        \/ life'[k] = life[k] + 1
    BY <1>4 DEF Quiet
  <2> QED
    BY <1>1, <2>1, DeletedFields DEF Kept
<1> QED
  BY <1>2, <1>3, <1>4 DEF Effect

\* A commit is recorded with the next version.
LEMMA AppliedEffect ==
  ASSUME StoreTypeOK, StoreInv, Effect, NEW a \in applied' \ applied
  PROVE  /\ a.lease.key \in Key /\ a.life = life[a.lease.key]
         /\ a.version = dbs[a.lease.key].version + 1
<1>1. ~ \E key, req : Grants(key, req)
  BY GrantStep
<1>2. ~Quiet
  BY DEF Quiet
<1>3. PICK req, t : Applies(req, t)
  BY <1>1, <1>2 DEF Effect
<1>4. a = AppliedCommit(req) /\ req.lease.key \in Key
  BY <1>3, ApplyStep
<1> QED
  BY <1>4 DEF AppliedCommit

\* No commit is forgotten.
LEMMA AppliedGrows ==
  ASSUME StoreTypeOK, StoreInv, Effect
  PROVE  applied \subseteq applied'
<1>1. (\E key, req : Grants(key, req)) \/ Quiet => applied' = applied
  BY GrantStep DEF Quiet
<1>2. (\E req, t : Applies(req, t)) => applied \subseteq applied'
  BY ApplyStep
<1> QED
  BY <1>1, <1>2 DEF Effect

\* A transaction that updates one row.
LEMMA UpdateEffect ==
  ASSUME StoreTypeOK, NEW key \in Key, NEW new \in Database,
         Kept(dbs[key], new) \/ Deleted(dbs[key], new),
         dbs' = [dbs EXCEPT ![key] = new], UNCHANGED <<slots, now, minted, life, leases, applied>>
  PROVE  Effect /\ StoreTypeOK'
<1>1. Quiet
  BY QuietUpdate
<1>2. dbs' \in [Key -> Database]
  BY DEF StoreTypeOK
<1> QED
  BY <1>1, <1>2 DEF Effect, StoreTypeOK

\* Trim keeps at most the window.
LEMMA TrimLength ==
  ASSUME NEW log \in Seq(Entry)
  PROVE  Len(Trim(log)) <= ChangeWindow
<1>1. Len(log) \in Nat /\ ChangeWindow \in Nat \ {0}
  BY SeqShape, ConstantsAssumption
<1>2. CASE Len(log) > ChangeWindow
  <2> DEFINE n == Len(log) - ChangeWindow + 1
  <2>1. n \in 1 .. Len(log) + 1 /\ Len(log) - n + 1 = ChangeWindow
    BY SMTT(60), <1>1, <1>2
  <2>2. Trim(log) = SubSeq(log, n, Len(log))
    BY <1>2 DEF Trim
  <2> HIDE DEF n
  <2>3. Len(SubSeq(log, n, Len(log))) = Len(log) - n + 1
    BY <2>1, CutSeq
  <2> QED
    BY SMTT(60), <1>1, <2>1, <2>2, <2>3
<1>3. CASE ~(Len(log) > ChangeWindow)
  BY SMTT(60), <1>1, <1>3 DEF Trim
<1> QED
  BY <1>2, <1>3

\* The log is never longer than the window, nor has it more entries than there were versions.
LEMMA LogFitsStep ==
  ASSUME StoreTypeOK, StoreInv, Effect, NEW k \in Key, LogFits(dbs[k])
  PROVE  LogFits(dbs'[k])
<1>1. dbs[k] \in Database /\ dbs[k].version \in Nat /\ dbs[k].changes \in Seq(Entry)
  BY DEF StoreTypeOK, Database
<1>2. ASSUME NEW new, new.changes = <<>>, new.version \in Nat PROVE LogFits(new)
  BY SMTT(60), <1>2, ConstantsAssumption DEF LogFits
<1>3. ASSUME NEW new, new.changes = dbs[k].changes, new.version = dbs[k].version PROVE LogFits(new)
  BY <1>3 DEF LogFits
<1>4. ASSUME NEW key, NEW req, Grants(key, req) PROVE LogFits(dbs'[k])
  BY SMTT(60), <1>1, <1>3, <1>4, GrantStep, GrantedFields
<1>5. ASSUME NEW req, NEW t, Applies(req, t) PROVE LogFits(dbs'[k])
  <2>1. CASE k # req.lease.key
    BY <1>3, <1>5, <2>1, ApplyStep
  <2>2. CASE k = req.lease.key
    <3> DEFINE new == Committed(dbs[k], req, t)
               log == dbs[k].changes
               e == [version |-> dbs[k].version + 1, blocks |-> Indexes(req.blocks)]
               c == Trim(Append(log, e))
    <3>1. dbs'[k] = new /\ req.blocks \in Seq(Nat)
      BY <1>5, <2>2, ApplyStep
    <3>2. new.changes = c /\ new.version = dbs[k].version + 1
      BY SMTT(60), <1>1, CommittedChanges, CommittedFields
    <3>3. Indexes(req.blocks) \subseteq Nat
      BY SMTT(60), <3>1, SeqShape DEF Indexes
    <3>4. e \in Entry
      BY SMTT(60), <1>1, <3>3 DEF Entry
    <3> HIDE DEF e
    <3>5. Len(c) <= ChangeWindow
      BY <1>1, <3>4, AppendedSeq, TrimLength
    <3>6. Len(c) \in 1 .. Len(log) + 1
      BY <1>1, <3>4, TrimAppend
    <3>7. Len(log) <= dbs[k].version /\ Len(log) \in Nat
      BY <1>1, SeqShape DEF LogFits
    <3> HIDE DEF c, log, new
    <3>8. Len(c) <= dbs[k].version + 1
      BY SMTT(60), <1>1, <3>6, <3>7
    <3> QED
      BY <3>1, <3>2, <3>5, <3>8 DEF LogFits
  <2> QED
    BY <2>1, <2>2
<1>6. CASE Quiet
  <2>1. Kept(dbs[k], dbs'[k]) \/ Deleted(dbs[k], dbs'[k]) \/ dbs'[k] = NoDatabase
    BY <1>6 DEF Quiet
  <2>2. CASE Kept(dbs[k], dbs'[k])
    BY <1>3, <2>2 DEF Kept
  <2>3. CASE Deleted(dbs[k], dbs'[k])
    BY SMTT(60), <1>1, <1>2, <2>3, DeletedFields
  <2>4. CASE dbs'[k] = NoDatabase
    BY SMTT(60), <1>2, <2>4, NoDatabaseFields
  <2> QED
    BY <2>1, <2>2, <2>3, <2>4
<1> QED
  BY <1>4, <1>5, <1>6 DEF Effect

-----------------------------------------------------------------------------
(* What the statements of the PostgreSQL store make of a row *)

\* GrantLease, after ReviveDatabase for a deleted one, is the grant of the store.
LEMMA GrantLeaseGrants ==
  ASSUME NEW db \in Database, db.status # "missing", NEW req
  PROVE  q!GrantLease(reviveDatabase(db, req), minted + 1, req.instance, req.now + TTL) = Granted(db, req)
<1> DEFINE e == req.now + TTL
           i == req.instance
           m == minted + 1
           n == db.epoch + 1
           p == req.pageSize
<1>1. CASE db.status = "live"
  <2>1. Granted(db, req) = [db EXCEPT !.status = db.status, !.pageSize = db.pageSize, !.epoch = n,
                                      !.leaseID = m, !.holder = i, !.expires = e]
    BY <1>1 DEF Granted
  <2>2. q!GrantLease(reviveDatabase(db, req), m, i, e) =
          [db EXCEPT !.epoch = n, !.leaseID = m, !.holder = i, !.expires = e]
    BY <1>1 DEF q!GrantLease, reviveDatabase
  <2> HIDE DEF e, i, m, n
  <2> QED
    BY <2>1, <2>2 DEF Database, e, i, m
<1>2. CASE db.status = "deleted"
  <2> DEFINE new == [db EXCEPT !.status = "live", !.pageSize = p]
  <2>1. Granted(db, req) = [db EXCEPT !.status = "live", !.pageSize = p, !.epoch = n,
                                      !.leaseID = m, !.holder = i, !.expires = e]
    BY <1>2 DEF Granted
  <2>2. new.epoch = db.epoch
    BY DEF Database
  <2>3. q!GrantLease(reviveDatabase(db, req), m, i, e) =
          [new EXCEPT !.epoch = n, !.leaseID = m, !.holder = i, !.expires = e]
    BY <1>2, <2>2 DEF q!GrantLease, reviveDatabase, q!ReviveDatabase
  <2> HIDE DEF e, i, m, n, p
  <2> QED
    BY <2>1, <2>3 DEF Database, e, i, m
<1> QED
  BY <1>1, <1>2 DEF Database

\* So is GrantLease of the row that CreateDatabase inserted.
LEMMA CreateGrants ==
  ASSUME NEW p \in PageSize, NEW req, NEW r, r.pageSize = p, r.instance = req.instance, r.now = req.now
  PROVE  q!GrantLease(reviveDatabase(q!CreateDatabase(p), req), minted + 1, req.instance, req.now + TTL)
           = Granted(NoDatabase, r)
<1> DEFINE e == req.now + TTL
           i == req.instance
           m == minted + 1
<1>1. Granted(NoDatabase, r) = [NoDatabase EXCEPT !.status = "live",
                                    !.pageSize = p,
                                    !.epoch = @ + 1, !.leaseID = m, !.holder = i, !.expires = e]
  BY DEF Granted, NoDatabase
<1>2. reviveDatabase(q!CreateDatabase(p), req) = [NoDatabase EXCEPT !.status = "live", !.pageSize = p]
  BY DEF reviveDatabase, q!CreateDatabase, NoDatabase
<1> HIDE DEF e, i, m
<1>3. q!GrantLease([NoDatabase EXCEPT !.status = "live", !.pageSize = p], m, i, e) =
        [NoDatabase EXCEPT !.status = "live", !.pageSize = p,
                           !.epoch = @ + 1, !.leaseID = m, !.holder = i, !.expires = e]
  BY DEF q!GrantLease, NoDatabase
<1> QED
  BY <1>1, <1>2, <1>3 DEF e, i, m

\* ExtendLease extends the lease, if it is the current one.
LEMMA ExtendKept ==
  ASSUME NEW db \in Database, NEW epoch, NEW x \in Nat, db.status # "live" => db.holder = None
  PROVE  /\ Kept(db, q!ExtendLease(db, epoch, x + TTL))
         /\ q!ExtendLease(db, epoch, x + TTL) \in Database
<1>1. CASE db.holder # None /\ db.epoch = epoch
  BY <1>1, ExtendedKept, ExtendedType DEF q!ExtendLease, q!LeaseMatches, Extended
<1>2. CASE ~(db.holder # None /\ db.epoch = epoch)
  BY <1>2, KeptSame DEF q!ExtendLease, q!LeaseMatches
<1> QED
  BY <1>1, <1>2

\* ReleaseLease ends the lease, if it is the current one.
LEMMA ReleaseKept ==
  ASSUME NEW db \in Database, NEW epoch, db.status # "live" => db.holder = None
  PROVE  Kept(db, q!ReleaseLease(db, epoch)) /\ q!ReleaseLease(db, epoch) \in Database
<1>1. CASE db.holder # None /\ db.epoch = epoch
  <2>1. [db EXCEPT !.holder = None] \in Database
    BY DEF Database
  <2>2. Kept(db, [db EXCEPT !.holder = None])
    BY <1>1 DEF Kept, Database
  <2> QED
    BY <1>1, <2>1, <2>2 DEF q!ReleaseLease, q!LeaseMatches
<1>2. CASE ~(db.holder # None /\ db.epoch = epoch)
  BY <1>2, KeptSame DEF q!ReleaseLease, q!LeaseMatches
<1> QED
  BY <1>1, <1>2

\* A deletion leaves what the store leaves, without the expiry.
LEMMA RemoveForgets ==
  ASSUME NEW db \in Database
  PROVE  remove(db) = [Removed(db) EXCEPT !.expires = 0]
<1>1. q!DeleteBlocksFrom(db, 0) = [db EXCEPT !.blocks = NoBlocks]
  BY SMTT(60), ConstantsAssumption DEF q!DeleteBlocksFrom, NoBlocks, Index
<1> DEFINE v == db.version + 1
           n == db.epoch + 1
           cut == [[db EXCEPT !.blocks = NoBlocks] EXCEPT !.changes = <<>>]
<1>2. cut.version = db.version /\ cut.epoch = db.epoch
  BY DEF Database
<1>3. remove(db) = [cut EXCEPT !.status = "deleted", !.pageCount = 0, !.version = v, !.lastCommitID = None,
                               !.epoch = n, !.leaseID = 0, !.holder = None, !.expires = 0]
  BY <1>1, <1>2 DEF remove, q!DeleteChanges, q!DeleteDatabase
<1>4. Removed(db) = [db EXCEPT !.status = "deleted", !.blocks = NoBlocks, !.changes = <<>>,
                               !.pageCount = 0, !.version = v, !.lastCommitID = None,
                               !.epoch = n, !.leaseID = 0, !.holder = None]
  BY DEF Removed
<1> HIDE DEF v, n
<1> QED
  BY <1>3, <1>4 DEF Database

\* So remove is a deletion.
LEMMA RemoveDeletes ==
  ASSUME NEW db \in Database, db.status = "live"
  PROVE  Deleted(db, remove(db)) /\ remove(db) \in Database
<1>1. remove(db) = [Removed(db) EXCEPT !.expires = 0]
  BY RemoveForgets
<1>2. [Removed(db) EXCEPT !.expires = 0] \in Database
  <2>1. Removed(db) \in Database /\ 0 \in Nat
    BY RemovedType
  <2> QED
    BY <2>1 DEF Database
<1> QED
  BY <1>1, <1>2 DEF Deleted

\* PruneChanges keeps the entries that Trim keeps.
LEMMA PruneTrims ==
  ASSUME NEW row, row.changes \in Seq(Entry), NEW v \in Nat,
         \A i \in 1 .. Len(row.changes) : row.changes[i].version = v - Len(row.changes) + i
  PROVE  q!PruneChanges(row, v - ChangeWindow) = [row EXCEPT !.changes = Trim(row.changes)]
<1> DEFINE log == row.changes
           L == Len(log)
           Old(n) == \A i \in DOMAIN log : log[i].version <= v - ChangeWindow <=> i <= n
           m == IF L > ChangeWindow THEN L - ChangeWindow ELSE 0
           n == CHOOSE x \in 0 .. L : Old(x)
<1>1. L \in Nat /\ DOMAIN log = 1 .. L /\ ChangeWindow \in Nat \ {0}
  BY SeqShape, ConstantsAssumption
<1>2. m \in 0 .. L /\ Old(m)
  <2>1. m \in 0 .. L
    BY SMTT(60), <1>1
  <2>2. ASSUME NEW i \in 1 .. L PROVE log[i].version <= v - ChangeWindow <=> i <= m
    <3>1. log[i].version = v - L + i
      OBVIOUS
    <3> HIDE DEF L, log
    <3> QED
      BY SMTT(60), <1>1, <3>1
  <2> HIDE DEF m
  <2> QED
    BY <1>1, <2>1, <2>2
<1>3. ASSUME NEW x \in 0 .. L, Old(x) PROVE x = m
  <2> HIDE DEF m
  <2>1. \A i \in 1 .. L : i <= x <=> i <= m
    BY <1>1, <1>2, <1>3
  <2>2. x >= 1 => x <= m
    BY SMTT(60), <1>1, <2>1
  <2>3. m >= 1 => m <= x
    BY SMTT(60), <1>1, <1>2, <2>1
  <2> QED
    BY SMTT(60), <1>1, <1>2, <2>2, <2>3
<1>4. n = m
  <2>1. n \in 0 .. L /\ Old(n)
    BY <1>2
  <2> HIDE DEF n, m
  <2> QED
    BY <1>3, <2>1
<1>5. q!PruneChanges(row, v - ChangeWindow) = [row EXCEPT !.changes = SubSeq(log, n + 1, L)]
  BY DEF q!PruneChanges
<1>6. SubSeq(log, m + 1, L) = Trim(log)
  <2>1. CASE L > ChangeWindow
    BY <2>1 DEF Trim
  <2>2. CASE ~(L > ChangeWindow)
    <3>1. SubSeq(log, 1, L) = log
      BY SMTT(60), <1>1
    <3> QED
      BY SMTT(60), <2>2, <3>1 DEF Trim
  <2> QED
    BY <2>1, <2>2
<1> HIDE DEF n, m
<1> QED
  BY <1>4, <1>5, <1>6

\* The log after recordChange.
LEMMA RecordTrims ==
  ASSUME NEW row \in Database, NEW v \in Nat, row.version = v + 1,
         \A i \in 1 .. Len(row.changes) : row.changes[i].version = v - Len(row.changes) + i,
         Len(row.changes) <= v, NEW req, Indexes(req.blocks) \subseteq Nat
  PROVE  recordChange(row, req) =
           [row EXCEPT !.changes = Trim(Append(row.changes, [version |-> v + 1, blocks |-> Indexes(req.blocks)]))]
<1> DEFINE log == row.changes
           e == [version |-> v + 1, blocks |-> Indexes(req.blocks)]
           all == Append(log, e)
           new == [row EXCEPT !.changes = all]
<1>0. log \in Seq(Entry)
  BY DEF Database
<1>1. Len(log) \in Nat /\ DOMAIN log = 1 .. Len(log) /\ ChangeWindow \in Nat \ {0} /\ e \in Entry
  BY SMTT(60), <1>0, SeqShape, ConstantsAssumption DEF Entry
<1>2. ~ \E i \in DOMAIN log : log[i].version = v + 1
  <2> SUFFICES ASSUME NEW i \in 1 .. Len(log) PROVE log[i].version # v + 1
    BY <1>1
  <2>1. log[i].version = v - Len(log) + i
    OBVIOUS
  <2> HIDE DEF log
  <2> QED
    BY SMTT(60), <1>1, <2>1
<1>3. q!RecordChange(row, row.version, Indexes(req.blocks)) = new
  BY <1>2 DEF q!RecordChange
<1>4. /\ all \in Seq(Entry) /\ Len(all) = Len(log) + 1
      /\ \A i \in 1 .. Len(log) : all[i] = log[i]
      /\ all[Len(log) + 1] = e
  BY SMTT(60), <1>0, <1>1, AppendedSeq
<1>5. \A i \in 1 .. Len(all) : all[i].version = (v + 1) - Len(all) + i
  <2> DEFINE L == Len(log)
  <2> HIDE DEF all, L
  <2>1. L \in Nat /\ Len(all) = L + 1
    BY <1>1, <1>4 DEF L
  <2>2. ASSUME NEW i \in 1 .. L PROVE all[i].version = v - L + i
    BY <1>4, <2>2 DEF L
  <2>3. all[L + 1].version = v + 1
    BY SMTT(60), <1>4 DEF L
  <2> QED
    BY SMTT(60), <2>1, <2>2, <2>3
<1> HIDE DEF all
<1>6. new.changes = all
  BY DEF Database
<1>7. CASE v + 1 <= ChangeWindow
  <2>1. ~(Len(all) > ChangeWindow)
    <3> HIDE DEF log
    <3>1. Len(log) <= v
      BY DEF log
    <3> QED
      BY SMTT(60), <1>1, <1>4, <1>7, <3>1
  <2>2. Trim(all) = all
    BY <2>1 DEF Trim
  <2> QED
    BY <1>3, <1>7, <2>2 DEF recordChange, all
<1>8. CASE ~(v + 1 <= ChangeWindow)
  <2> DEFINE kept == Trim(all)
  <2>1. recordChange(row, req) = q!PruneChanges(new, (v + 1) - ChangeWindow)
    BY <1>3, <1>8 DEF recordChange
  <2>2. [new EXCEPT !.changes = kept] = [row EXCEPT !.changes = kept]
    <3> HIDE DEF kept
    <3> QED
      BY DEF Database
  <2> HIDE DEF new
  <2>3. q!PruneChanges(new, (v + 1) - ChangeWindow) = [new EXCEPT !.changes = kept]
    <3>1. v + 1 \in Nat
      BY SMTT(60)
    <3> QED
      BY <1>4, <1>5, <1>6, <3>1, PruneTrims
  <2> QED
    BY <2>1, <2>2, <2>3 DEF all
<1> QED
  BY <1>7, <1>8

\* What a commit writes: PutBlocks and DeleteBlocksFrom are Written, recordChange keeps the window.
LEMMA WriteCommits ==
  ASSUME NEW db \in Database, LogOK(db), LogFits(db), NEW req, NEW x \in Nat, req.pageCount \in Nat,
         req.id \in CommitID, req.size \in PageSize, req.blocks \in Seq(Nat)
  PROVE  recordChange(q!ApplyCommit(q!DeleteBlocksFrom(putBlocks(db, req), req.pageCount),
                                    req.pageCount, req.id, x + TTL), req)
           = Committed(db, req, x)
<1> DEFINE b == [i \in Index |-> IF \E n \in DOMAIN req.blocks : req.blocks[n] = i
                                 THEN [by |-> req.id, size |-> req.size] ELSE db.blocks[i]]
           put == [db EXCEPT !.blocks = b]
           w == Written(db.blocks, req)
           e == x + TTL
           v == db.version + 1
           row == [db EXCEPT !.blocks = w, !.pageCount = req.pageCount, !.version = v,
                             !.lastCommitID = req.id, !.expires = e]
           entry == [version |-> v, blocks |-> Indexes(req.blocks)]
<1>1. putBlocks(db, req) = put
  BY DEF putBlocks, q!PutBlocks
<1>2. w = [i \in Index |-> IF i >= req.pageCount THEN Zero ELSE b[i]]
  BY DEF Written, Indexes
<1> HIDE DEF b, w
<1>3. put.blocks = b
  BY DEF Database
<1>4. q!DeleteBlocksFrom(put, req.pageCount) = [put EXCEPT !.blocks = w]
  BY <1>2, <1>3 DEF q!DeleteBlocksFrom
<1>5. [put EXCEPT !.blocks = w] = [db EXCEPT !.blocks = w]
  BY DEF Database
<1>6. q!ApplyCommit([db EXCEPT !.blocks = w], req.pageCount, req.id, e) = row
  <2> DEFINE cut == [db EXCEPT !.blocks = w]
  <2>1. cut.version = db.version
    BY DEF Database
  <2>2. q!ApplyCommit(cut, req.pageCount, req.id, e) =
          [cut EXCEPT !.pageCount = req.pageCount, !.version = v, !.lastCommitID = req.id, !.expires = e]
    BY <2>1 DEF q!ApplyCommit
  <2> HIDE DEF e, v
  <2> QED
    BY <2>2 DEF Database
<1>7. v \in Nat /\ e \in Nat /\ db.version \in Nat /\ db.changes \in Seq(Entry)
  BY SMTT(60), ConstantsAssumption DEF Database
<1>8. w \in [Index -> Data]
  <2>1. db.blocks \in [Index -> Data]
    BY DEF Database
  <2> QED
    BY <2>1, WrittenType DEF w
<1>9. Indexes(req.blocks) \subseteq Nat
  BY SMTT(60), SeqShape DEF Indexes
<1>10. Committed(db, req, x) = [db EXCEPT !.blocks = w, !.pageCount = req.pageCount, !.version = v,
                                          !.lastCommitID = req.id, !.expires = e,
                                          !.changes = Trim(Append(db.changes, entry))]
  BY DEF Committed, w
<1> DEFINE c == Trim(Append(db.changes, entry))
<1>11. row.changes = db.changes /\ row.version = v
  BY DEF Database
<1> HIDE DEF e
<1>12. row \in Database
  <2> HIDE DEF v
  <2> QED
    BY <1>7, <1>8 DEF Database
<1>13. recordChange(row, req) = [row EXCEPT !.changes = c]
  <2> DEFINE n == db.version
  <2>1. \A i \in 1 .. Len(row.changes) : row.changes[i].version = n - Len(row.changes) + i
    BY <1>11 DEF LogOK
  <2>2. Len(row.changes) <= n
    BY <1>11 DEF LogFits
  <2>3. row.version = n + 1 /\ n \in Nat
    BY <1>7, <1>11
  <2> HIDE DEF row, n
  <2>4. recordChange(row, req) =
          [row EXCEPT !.changes = Trim(Append(row.changes, [version |-> n + 1, blocks |-> Indexes(req.blocks)]))]
    BY <1>9, <1>12, <2>1, <2>2, <2>3, RecordTrims
  <2> QED
    BY <1>11, <2>4 DEF n
<1> HIDE DEF c, v
<1>14. [row EXCEPT !.changes = c] = [db EXCEPT !.blocks = w, !.pageCount = req.pageCount, !.version = v,
                                          !.lastCommitID = req.id, !.expires = e, !.changes = c]
  BY DEF Database
<1> HIDE DEF row, put
<1> QED
  BY <1>1, <1>4, <1>5, <1>6, <1>10, <1>13, <1>14 DEF c, e
=============================================================================
