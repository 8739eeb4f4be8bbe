------------------------------ MODULE Queries ------------------------------
(***************************************************************************)
(* The SQL statements of the PostgreSQL store (queries.sql, compiled to    *)
(* internal/store/postgres/db), each by what it returns or by the rows it  *)
(* leaves.  A record of dbs is a row of the table databases together with  *)
(* the rows of blocks and changes that refer to it; the foreign keys       *)
(* delete those with it.  A missing block is Zero, NULL in lease_expires   *)
(* is 0 and in lease_id 0.                                                 *)
(*                                                                         *)
(* A statement that changes a row is a function of the row as committed    *)
(* when the statement gets its lock.  Which locks it waits for is in       *)
(* PostgresStore.                                                          *)
(***************************************************************************)
EXTENDS Integers, Sequences

CONSTANTS
  Key,           \* the primary key of databases
  Owner,         \* the primary key of slots
  Index,         \* block indexes
  None,          \* NULL
  NoDatabase,    \* a key without a row in databases
  NoSlot,        \* an owner without a row in slots
  Zero           \* an index without a row in blocks

VARIABLES dbs, slots

\* Rows of databases.

GetDatabase(key) == dbs[key]

\* FOR UPDATE.
LockDatabase(key) == dbs[key]

\* The row that is inserted if there is none.
CreateDatabase(pageSize) == [NoDatabase EXCEPT !.status = "live", !.pageSize = pageSize]

ReviveDatabase(row, pageSize) == [row EXCEPT !.status = "live", !.pageSize = pageSize]

GrantLease(row, id, holder, expires) ==
  [row EXCEPT !.epoch = @ + 1, !.leaseID = id, !.holder = holder, !.expires = expires]

\* The rows that ExtendLease and ReleaseLease update.
LeaseMatches(row, epoch) == row.epoch = epoch /\ row.holder # None

ExtendLease(row, epoch, expires) ==
  IF LeaseMatches(row, epoch) THEN [row EXCEPT !.expires = expires] ELSE row

ReleaseLease(row, epoch) ==
  IF LeaseMatches(row, epoch) THEN [row EXCEPT !.holder = None] ELSE row

ApplyCommit(row, pageCount, commitID, expires) ==
  [row EXCEPT !.pageCount = pageCount, !.version = @ + 1, !.lastCommitID = commitID,
              !.expires = expires]

DeleteDatabase(row) ==
  [row EXCEPT !.status = "deleted", !.pageCount = 0, !.version = @ + 1, !.lastCommitID = None,
              !.epoch = @ + 1, !.leaseID = 0, !.holder = None, !.expires = 0]

PurgeDatabase(row) == NoDatabase

\* The databases whose lease expired before cutoff, oldest first, at most limit.
UnusedDatabases(cutoff, limit) ==
  LET unused == {k \in Key : dbs[k].status = "live" /\ dbs[k].expires < cutoff} IN
  {rows \in UNION {[1 .. n -> unused] : n \in 0 .. limit} :
     /\ \A i, j \in DOMAIN rows :
          i < j => rows[i] # rows[j] /\ dbs[rows[i]].expires <= dbs[rows[j]].expires
     /\ \A k \in unused :
          \/ \E i \in DOMAIN rows : rows[i] = k
          \/ Len(rows) = limit /\ \A i \in DOMAIN rows : dbs[rows[i]].expires <= dbs[k].expires}

\* The rows PurgeSubject visits: those that are there when it begins.
PurgeSubject(subject) == {k \in Key : k[1] = subject /\ dbs[k].status # "missing"}

-----------------------------------------------------------------------------
\* Rows of blocks.

PutBlocks(row, list, data) ==
  [row EXCEPT !.blocks = [i \in Index |-> IF \E n \in DOMAIN list : list[n] = i THEN data ELSE @[i]]]

DeleteBlocksFrom(row, idx) ==
  [row EXCEPT !.blocks = [i \in Index |-> IF i >= idx THEN Zero ELSE @[i]]]

FetchBlocks(row, first, beyond) ==
  {<<i, row.blocks[i]>> : i \in {j \in Index : first <= j /\ j < beyond /\ row.blocks[j] # Zero}}

-----------------------------------------------------------------------------
\* Rows of changes, ordered by their version.

\* A version has one entry.
RecordChange(row, version, blocks) ==
  [row EXCEPT !.changes =
     IF \E i \in DOMAIN @ : @[i].version = version THEN @
     ELSE Append(@, [version |-> version, blocks |-> blocks])]

\* The rows are ordered by their version: the old ones are the first n.
PruneChanges(row, version) ==
  LET n == CHOOSE n \in 0 .. Len(row.changes) :
             \A i \in DOMAIN row.changes : row.changes[i].version <= version <=> i <= n IN
  [row EXCEPT !.changes = SubSeq(@, n + 1, Len(@))]

DeleteChanges(row) == [row EXCEPT !.changes = <<>>]

\* 0 if there is none.
OldestChange(key) == IF dbs[key].changes = <<>> THEN 0 ELSE dbs[key].changes[1].version

ChangedSince(key, version) ==
  {dbs[key].changes[i] : i \in {j \in DOMAIN dbs[key].changes : dbs[key].changes[j].version > version}}

-----------------------------------------------------------------------------
\* Rows of slots.

\* FOR UPDATE.
LockSlot(owner) == slots[owner]

\* FOR SHARE.
ShareSlot(owner) == slots[owner]

HoldsSlot(subject) == \E o \in Owner : slots[o].subject = subject

\* The row that is inserted if the owner has none.
InsertSlot(subject, t) == [subject |-> subject, label |-> None, claimedAt |-> t, replaced |-> {}]

\* The slot passes to another key.
UpdateSlot(row, subject, t) ==
  [subject |-> subject, label |-> None, claimedAt |-> t,
   replaced |-> (row.replaced \cup {row.subject}) \ {subject}]

LabelSlot(row, subject, label) ==
  IF row.subject = subject THEN [row EXCEPT !.label = label] ELSE row

DeleteSlotOf(row) == NoSlot

\* The row goes if it was claimed before cutoff and the subquery finds no database of its key.
ReleaseUnusedSlots(row, cutoff, used) ==
  IF row.claimedAt < cutoff /\ row.subject \notin used THEN NoSlot ELSE row
=============================================================================
