------------------------------- MODULE Store -------------------------------
(***************************************************************************)
(* The storage of the server: databases with their blocks, versions and    *)
(* leases, and the slots of owners.  The operations are those of           *)
(* internal/store/memory/memory.go, each one step because each runs under  *)
(* the store's mutex.  internal/store/store.go calls the memory store and  *)
(* the PostgreSQL store two implementations of one contract, so this       *)
(* module is also the abstract specification the latter is compared with.  *)
(*                                                                         *)
(* A request that is refused changes nothing and is a stuttering step.     *)
(* The reason of the refusal is the value of the operators OpenOutcome,    *)
(* CommitOutcome, LeaseOutcome and FetchOutcome.                           *)
(***************************************************************************)
EXTENDS Integers, Sequences, FiniteSets

CONSTANTS
  Subject,        \* subjects, i.e. client keys
  DBID,           \* database names within a subject
  Owner,          \* owners of keys, the sub claims of access tokens
  OwnerOf,        \* the owner of each subject, NoOwner without access tokens
  NoOwner,
  Instance,       \* instance IDs of clients
  CommitID,       \* commit IDs
  Label,          \* labels of slots
  None,           \* nil: no holder, no commit ID, no subject
  PageSize,       \* the valid page sizes
  BlockList,      \* the lists of block indexes a commit may carry
  MaxPages,       \* bound: the longest file, in blocks
  ChangeWindow,   \* commits kept in the change log
  TTL,            \* time to live of a lease
  Skew,           \* bound: how old the Now of a request can be
  MaxTime,        \* bound: the last instant
  MaxLeases,      \* bound: leases granted
  MaxVersion      \* bound: versions of a database

ASSUME ConstantsAssumption ==
  /\ OwnerOf \in [Subject -> Owner \cup {NoOwner}]
  /\ NoOwner \notin Owner
  /\ None \notin Instance \cup CommitID \cup Subject
  /\ PageSize \subseteq Nat \ {0}
  /\ BlockList \subseteq Seq(Nat)
  /\ MaxPages \in Nat /\ ChangeWindow \in Nat \ {0}
  /\ TTL \in Nat /\ Skew \in Nat /\ MaxTime \in Nat
  /\ MaxLeases \in Nat /\ MaxVersion \in Nat

VARIABLES
  dbs,       \* the record of each database
  slots,     \* the slot of each owner
  now,       \* the clock
  minted,    \* lease IDs drawn so far; newLeaseID never returns one twice
  \* History, read by the properties only:
  life,      \* how often the record of each database was purged
  leases,    \* every lease granted, with the version its Open returned
  applied    \* every commit applied, with the content it left

vars == <<dbs, slots, now, minted, life, leases, applied>>

Key == Subject \X DBID
Index == 0 .. MaxPages - 1
Zero == [by |-> None, size |-> 0]
Data == [by : CommitID, size : PageSize] \cup {Zero}
Entry == [version : Nat, blocks : SUBSET Nat]

(***************************************************************************)
(* A block that was never written, or was cut off, reads as zeros, so a    *)
(* block map is a total function with Zero for the missing blocks.         *)
(***************************************************************************)
NoBlocks == [i \in Index |-> Zero]

Database ==
  [status : {"missing", "live", "deleted"}, pageSize : PageSize \cup {0},
   pageCount : Nat, version : Nat, lastCommitID : CommitID \cup {None},
   blocks : [Index -> Data], changes : Seq(Entry),
   epoch : Nat, leaseID : Nat, holder : Instance \cup {None}, expires : Nat]

\* A key without a record: never created, or purged.
NoDatabase ==
  [status |-> "missing", pageSize |-> 0, pageCount |-> 0, version |-> 0,
   lastCommitID |-> None, blocks |-> NoBlocks, changes |-> <<>>,
   epoch |-> 0, leaseID |-> 0, holder |-> None, expires |-> 0]

(***************************************************************************)
(* replaced is history: the keys that lost the slot to later claims since  *)
(* the slot was last free.                                                 *)
(***************************************************************************)
Slot == [subject : Subject \cup {None}, label : Label \cup {None},
         claimedAt : Nat, replaced : SUBSET Subject]
NoSlot == [subject |-> None, label |-> None, claimedAt |-> 0, replaced |-> {}]

Lease == [key : Key, life : Nat, epoch : Nat, id : Nat, version : Nat]
Applied == [lease : Lease, life : Nat, version : Nat, id : CommitID,
            pageCount : Nat, blocks : [Index -> Data]]

NoResume == [id |-> 0, epoch |-> 0]

StoreTypeOK ==
  /\ dbs \in [Key -> Database]
  /\ slots \in [Owner -> Slot]
  /\ now \in Nat /\ minted \in Nat
  /\ life \in [Key -> Nat]
  /\ leases \subseteq Lease
  /\ applied \subseteq Applied

StoreInit ==
  /\ dbs = [k \in Key |-> NoDatabase]
  /\ slots = [o \in Owner |-> NoSlot]
  /\ now = 0 /\ minted = 0
  /\ life = [k \in Key |-> 0]
  /\ leases = {} /\ applied = {}

\* The Now of a request is read before the store is called, at most Skew ago.
Nows == {t \in 0 .. now : now - t <= Skew}

Tick ==
  /\ now < MaxTime
  /\ now' = now + 1
  /\ UNCHANGED <<dbs, slots, minted, life, leases, applied>>

-----------------------------------------------------------------------------
(* Leases *)

HoldsAnyEpoch(db, epoch) == db.holder # None
HoldsReleased(db, epoch) == db.epoch = epoch
Holds(db, epoch) == db.holder # None /\ db.epoch = epoch
Active(db, t) == db.holder # None /\ t < db.expires

SlotTaken(req) ==
  LET owner == OwnerOf[req.key[1]] IN
  owner # NoOwner /\ slots[owner].subject \notin {None, req.key[1]}

OpenOutcome(req) ==
  LET db == dbs[req.key] IN
  IF SlotTaken(req) THEN "slot_taken"
  ELSE IF db.status = "deleted" /\ req.resume # NoResume THEN "fenced"
  ELSE IF db.status # "live" /\ (~req.create \/ req.resume # NoResume) THEN "not_found"
  ELSE IF db.status # "live" /\ req.pageSize \notin PageSize THEN "bad_request"
  ELSE IF db.status = "live" /\ req.pageSize \notin {0, db.pageSize} THEN "bad_request"
  ELSE IF req.resume # NoResume THEN
         IF Holds(db, req.resume.epoch) /\ db.leaseID = req.resume.id
         THEN "resumed" ELSE "fenced"
  ELSE IF Active(db, req.now) /\ ~req.takeover /\ db.holder # req.instance
         THEN "lease_held"
  ELSE "granted"

\* The lease an Open of key grants: a fresh ID and the next epoch.
NewLease(key) ==
  [key |-> key, life |-> life[key], epoch |-> dbs[key].epoch + 1,
   id |-> minted + 1, version |-> dbs[key].version]

\* Open takes the lease, and creates the database first if it is missing or deleted.
Granted(db, req) ==
  [db EXCEPT !.status = "live",
             !.pageSize = IF db.status = "live" THEN @ ELSE req.pageSize,
             !.epoch = @ + 1, !.leaseID = minted + 1,
             !.holder = req.instance, !.expires = req.now + TTL]

OpenGrant(req) ==
  /\ OpenOutcome(req) = "granted"
  /\ minted < MaxLeases
  /\ minted' = minted + 1
  /\ leases' = leases \cup {NewLease(req.key)}
  /\ dbs' = [dbs EXCEPT ![req.key] = Granted(@, req)]
  /\ UNCHANGED <<slots, now, life, applied>>

ExtendedShort(db, t) == [db EXCEPT !.expires = t + TTL - 1]
Extended(db, t) == [db EXCEPT !.expires = t + TTL]

OpenResume(req) ==
  /\ OpenOutcome(req) = "resumed"
  /\ dbs' = [dbs EXCEPT ![req.key] = Extended(@, req.now)]
  /\ UNCHANGED <<slots, now, minted, life, leases, applied>>

\* The answer to Renew and Release.
LeaseOutcome(key, epoch) ==
  IF dbs[key].status = "missing" THEN "not_found"
  ELSE IF ~Holds(dbs[key], epoch) THEN "fenced" ELSE "ok"

Renew(key, epoch, t) ==
  /\ LeaseOutcome(key, epoch) = "ok"
  /\ dbs' = [dbs EXCEPT ![key] = Extended(@, t)]
  /\ UNCHANGED <<slots, now, minted, life, leases, applied>>

Release(key, epoch) ==
  /\ LeaseOutcome(key, epoch) = "ok"
  /\ dbs' = [dbs EXCEPT ![key].holder = None]
  /\ UNCHANGED <<slots, now, minted, life, leases, applied>>

-----------------------------------------------------------------------------
(* Commits and the change log *)

Indexes(list) == {list[i] : i \in DOMAIN list}

ValidateCommitAnySize(pageSize, req) ==
  /\ req.id # None
  /\ \A i \in Indexes(req.blocks) : i < req.pageCount
  /\ \A i, j \in DOMAIN req.blocks : req.blocks[i] = req.blocks[j] => i = j

\* The commit ID is not empty, blocks have the page size, lie within the page count and appear once.
ValidateCommit(pageSize, req) ==
  /\ req.id # None
  /\ req.blocks # <<>> => req.size = pageSize
  /\ \A i \in Indexes(req.blocks) : i < req.pageCount
  /\ \A i, j \in DOMAIN req.blocks : req.blocks[i] = req.blocks[j] => i = j

\* The request repeats the last commit.
Repeats(db, req) ==
  db.version = req.base + 1 /\ req.id # None /\ db.lastCommitID = req.id

\* The request was based on a version other than the current one.
ConflictsIfAhead(db, req) == db.version < req.base
Conflicts(db, req) == db.version # req.base

CommitOutcome(req) ==
  LET db == dbs[req.lease.key] IN
  IF db.status = "missing" THEN "not_found"
  ELSE IF ~Holds(db, req.lease.epoch) THEN "fenced"
  ELSE IF Repeats(db, req) THEN "repeated"
  ELSE IF Conflicts(db, req) THEN "conflict"
  ELSE IF ~ValidateCommit(db.pageSize, req) THEN "bad_request"
  ELSE "applied"

\* The blocks after a commit: the written ones, and none at or beyond the page count.
Written(blocks, req) ==
  [i \in Index |-> IF i >= req.pageCount THEN Zero
                   ELSE IF i \in Indexes(req.blocks) THEN [by |-> req.id, size |-> req.size]
                   ELSE blocks[i]]

\* The change log keeps the last ChangeWindow entries.
Trim(log) ==
  IF Len(log) > ChangeWindow THEN SubSeq(log, Len(log) - ChangeWindow + 1, Len(log)) ELSE log

Committed(db, req, t) ==
  [db EXCEPT !.blocks = Written(@, req), !.pageCount = req.pageCount,
             !.version = @ + 1, !.lastCommitID = req.id, !.expires = t + TTL,
             !.changes = Trim(Append(@, [version |-> db.version + 1,
                                         blocks |-> Indexes(req.blocks)]))]

\* A commit as the history records it.
AppliedCommit(req) ==
  LET db == dbs[req.lease.key] IN
  [lease |-> req.lease, life |-> life[req.lease.key], version |-> db.version + 1,
   id |-> req.id, pageCount |-> req.pageCount, blocks |-> Written(db.blocks, req)]

CommitApply(req, t) ==
  /\ CommitOutcome(req) = "applied"
  /\ dbs[req.lease.key].version < MaxVersion
  /\ dbs' = [dbs EXCEPT ![req.lease.key] = Committed(@, req, t)]
  /\ applied' = applied \cup {AppliedCommit(req)}
  /\ UNCHANGED <<slots, now, minted, life, leases>>

CommitRepeat(req, t) ==
  /\ CommitOutcome(req) = "repeated"
  /\ dbs' = [dbs EXCEPT ![req.lease.key] = Extended(@, t)]
  /\ UNCHANGED <<slots, now, minted, life, leases, applied>>

\* The count blocks starting at first lie within pageCount. The difference cannot wrap.
CheckRange(first, count, pageCount) == first <= pageCount /\ count <= pageCount - first

\* The answer to Fetch.
FetchOutcome(key, version, first, count) ==
  IF dbs[key].status # "live" THEN "not_found"
  ELSE IF version # dbs[key].version THEN "conflict"
  ELSE IF ~CheckRange(first, count, dbs[key].pageCount) THEN "bad_request"
  ELSE "ok"

\* The blocks of a Fetch. A block that was never written reads as zeros.
FetchedRange(db, first, count) ==
  [n \in 1 .. count |-> IF first + n - 1 \in Index THEN db.blocks[first + n - 1] ELSE Zero]

LogReachesTooFar(db, from) == db.changes # <<>> /\ db.changes[1].version <= from + 2
\* The log contains every version after from.
LogReaches(db, from) == db.changes # <<>> /\ db.changes[1].version <= from + 1

\* The change set of a live database since version from <= db.version.
Changes(db, from) ==
  [complete |-> from = db.version \/ LogReaches(db, from),
   blocks |-> IF from # db.version /\ LogReaches(db, from)
              THEN UNION {db.changes[i].blocks :
                            i \in {j \in DOMAIN db.changes : db.changes[j].version > from}}
              ELSE {}]

-----------------------------------------------------------------------------
(* Deletion *)

RemovedAnew(db) == [NoDatabase EXCEPT !.status = "deleted", !.pageSize = db.pageSize]
RemovedSameEpoch(db) ==
  [db EXCEPT !.status = "deleted", !.blocks = NoBlocks, !.changes = <<>>,
             !.pageCount = 0, !.version = @ + 1, !.lastCommitID = None,
             !.leaseID = 0, !.holder = None]
RemovedKeepsCommitID(db) ==
  [db EXCEPT !.status = "deleted", !.blocks = NoBlocks, !.changes = <<>>,
             !.pageCount = 0, !.version = @ + 1,
             !.epoch = @ + 1, !.leaseID = 0, !.holder = None]
\* remove keeps the record, with a higher epoch and version.
Removed(db) ==
  [db EXCEPT !.status = "deleted", !.blocks = NoBlocks, !.changes = <<>>,
             !.pageCount = 0, !.version = @ + 1, !.lastCommitID = None,
             !.epoch = @ + 1, !.leaseID = 0, !.holder = None]

DeleteOutcome(key, takeover, t) ==
  IF dbs[key].status # "live" THEN "nothing"
  ELSE IF Active(dbs[key], t) /\ ~takeover THEN "lease_held" ELSE "deleted"

Delete(key, takeover, t) ==
  /\ DeleteOutcome(key, takeover, t) = "deleted"
  /\ dbs[key].version < MaxVersion
  /\ dbs' = [dbs EXCEPT ![key] = Removed(@)]
  /\ UNCHANGED <<slots, now, minted, life, leases, applied>>

PurgeLive(K) ==
  /\ dbs' = [k \in Key |-> IF k \in K /\ dbs[k].status = "live" THEN NoDatabase ELSE dbs[k]]
  /\ life' = [k \in Key |-> IF k \in K /\ dbs[k].status = "live" THEN life[k] + 1 ELSE life[k]]
\* purge deletes the records in K completely.
Purge(K) ==
  /\ dbs' = [k \in Key |-> IF k \in K THEN NoDatabase ELSE dbs[k]]
  /\ life' = [k \in Key |-> IF k \in K /\ dbs[k].status # "missing"
                            THEN life[k] + 1 ELSE life[k]]

KeysOf(subject) == {k \in Key : k[1] = subject}
slotHolders == {slots[o].subject : o \in Owner} \ {None}
hasDatabases(d, subject) == \E k \in KeysOf(subject) : d[k].status = "live"

Unused(cutoff) == {k \in Key : dbs[k].status = "live" /\ dbs[k].expires < cutoff}

\* The oldest unused databases, at most limit. Equally old ones come in any order.
Batches(cutoff, limit) ==
  {B \in SUBSET Unused(cutoff) :
     /\ \/ B = Unused(cutoff)
        \/ Cardinality(B) = limit
     /\ Cardinality(B) <= limit
     /\ \A a \in B, b \in Unused(cutoff) \ B : dbs[a].expires <= dbs[b].expires}

\* Deletes a batch, completely for keys that hold a slot, and releases the slots left empty.
DeleteUnused(cutoff, limit) ==
  \E B \in Batches(cutoff, limit) :
    LET purged == {k \in B : k[1] \in slotHolders} IN
    /\ \A k \in B : dbs[k].version < MaxVersion
    /\ dbs' = [k \in Key |-> IF k \in purged THEN NoDatabase
                             ELSE IF k \in B THEN Removed(dbs[k]) ELSE dbs[k]]
    /\ life' = [k \in Key |-> IF k \in purged THEN life[k] + 1 ELSE life[k]]
    /\ slots' = [o \in Owner |->
                   IF /\ slots[o].subject # None /\ slots[o].claimedAt < cutoff
                      /\ ~hasDatabases(dbs', slots[o].subject)
                   THEN NoSlot ELSE slots[o]]
    /\ UNCHANGED <<now, minted, leases, applied>>

-----------------------------------------------------------------------------
(* Slots *)

ClaimSlot(owner, subject, t) ==
  LET old == slots[owner] IN
  /\ old.subject # subject
  /\ slots' = [slots EXCEPT ![owner] =
       [subject |-> subject, label |-> None, claimedAt |-> t,
        replaced |-> (old.replaced \cup {old.subject}) \ {None, subject}]]
  /\ Purge(IF old.subject = None THEN {} ELSE KeysOf(old.subject))
  /\ UNCHANGED <<now, minted, leases, applied>>

SetSlotLabel(owner, subject, label) ==
  /\ slots[owner].subject = subject
  /\ slots' = [slots EXCEPT ![owner].label = label]
  /\ UNCHANGED <<dbs, now, minted, life, leases, applied>>

DeleteSlot(owner, subject) ==
  /\ slots[owner].subject \in {None, subject}
  /\ slots' = [slots EXCEPT ![owner] = NoSlot]
  /\ Purge(KeysOf(subject))
  /\ UNCHANGED <<now, minted, leases, applied>>
=============================================================================
