--------------------------- MODULE PostgresStore ---------------------------
(***************************************************************************)
(* internal/store/postgres: the operations of the store as transactions of *)
(* PostgreSQL at READ COMMITTED, but for Fetch.  dbs holds the committed   *)
(* rows of the tables databases, blocks and changes, slots those of the    *)
(* table slots.  The statements are those of Queries, as q!.               *)
(*                                                                         *)
(* A transaction reads and locks rows one statement at a time; what it     *)
(* writes shows when it commits, so the writes and the commit are one      *)
(* step.  It decides by the row it read and updates the row that is there. *)
(* It can end without effect at any point: its context is cancelled, the   *)
(* connection to PostgreSQL fails or the server stops.                     *)
(*                                                                         *)
(* Row locks, what a blocked statement sees when it goes on, and unique    *)
(* indexes are PostgreSQL's; they are modelled from how this code uses     *)
(* them.                                                                   *)
(***************************************************************************)
EXTENDS PostgresRows

CONSTANTS
  Tx,          \* calls in progress
  Ops,         \* the operations they run
  ScanOrder    \* the order in which a statement visits the databases of a subject

ASSUME PostgresAssumption ==
  /\ ScanOrder \in Seq(DBID)
  /\ \A d \in DBID : \E i \in DOMAIN ScanOrder : ScanOrder[i] = d
  /\ \A i, j \in DOMAIN ScanOrder : ScanOrder[i] = ScanOrder[j] => i = j
  /\ Ops \subseteq {"open", "commit", "delete", "sweep", "claim", "deleteSlot", "changes", "fetch"}

VARIABLE txs

pgVars == <<vars, txs>>

\* A transaction without locks.
Unlocked == [rows |-> {}, share |-> {}, update |-> {}, row |-> NoDatabase]
Idle == [pc |-> "idle", op |-> "none", lock |-> Unlocked]

PgInit == StoreInit /\ txs = [t \in Tx |-> Idle]

Goto(t, pc) == txs' = [txs EXCEPT ![t].pc = pc]
\* Commit or rollback: every lock is released.
Done(t) == txs' = [txs EXCEPT ![t] = Idle]
At(t, pc) == txs[t].pc = pc
OwnerIn(t) == OwnerOf[txs[t].subject]

Abort(t) == ~At(t, "idle") /\ Done(t) /\ UNCHANGED vars

-----------------------------------------------------------------------------
(* Locks *)

RowFree(t, key) == \A u \in Tx \ {t} : key \notin txs[u].lock.rows
SlotFree(t, o) ==
  \A u \in Tx \ {t} : o \notin txs[u].lock.share \cup txs[u].lock.update
SlotShareable(t, o) == \A u \in Tx \ {t} : o \notin txs[u].lock.update

LockedRow(t) == [txs[t].lock EXCEPT !.rows = @ \cup {txs[t].key}, !.row = q!LockDatabase(txs[t].key)]

\* SELECT ... FOR UPDATE of a database. It waits for the lock and returns the row as committed then.
LockDatabase(t, found, missing) ==
  LET key == txs[t].key IN
  /\ RowFree(t, key)
  /\ txs' = [txs EXCEPT ![t] =
       IF dbs[key].status # "missing" THEN [@ EXCEPT !.pc = found, !.lock = LockedRow(t)]
       ELSE IF missing = "abort" THEN Idle
       ELSE [@ EXCEPT !.pc = missing]]
  /\ UNCHANGED vars

\* The row at position i of the scan is the next that a purge visits.
VisitsNext(t, i) == i \in txs[t].rest /\ \A j \in txs[t].rest : i <= j
RowAt(t, i) == <<txs[t].victim, ScanOrder[i]>>

\* What a transaction in txs would have to wait for u for.
WaitsFor(t, u) ==
  /\ t # u /\ txs[u].pc # "idle"
  /\ \/ At(t, "shareSlot") /\ OwnerIn(t) \in txs[u].lock.update
     \/ txs[t].pc \in {"lockSlot", "relockSlot"} /\ OwnerIn(t) \in txs[u].lock.share \cup txs[u].lock.update
     \/ txs[t].pc \in {"lockRow", "insert", "relock"} /\ txs[t].key \in txs[u].lock.rows
     \/ At(t, "sweep") /\ txs[t].candidates # <<>> /\ Head(txs[t].candidates) \in txs[u].lock.rows
     \/ At(t, "purge") /\ \E i \in txs[t].rest : VisitsNext(t, i) /\ RowAt(t, i) \in txs[u].lock.rows
     \/ At(t, "release") /\ txs[t].owners \cap (txs[u].lock.share \cup txs[u].lock.update) # {}

-----------------------------------------------------------------------------
(* Open *)

\* The rest of the request is chosen by the step that first reads it.
OpenBegin(t) ==
  \E key \in Key : \E resume \in ResumeOf(key), takeover \in BOOLEAN, at \in Nows :
    txs' = [txs EXCEPT ![t] =
      [pc |-> IF OwnerOf[key[1]] = NoOwner THEN "lockRow" ELSE "shareSlot",
       op |-> "open", lock |-> Unlocked, subject |-> key[1], key |-> key,
       resume |-> resume, takeover |-> takeover, at |-> at]]

RequestIn(t) ==
  [key : {txs[t].key}, instance : Instance, pageSize : PageSize \cup {0}, create : BOOLEAN,
   takeover : {txs[t].takeover}, resume : {txs[t].resume}, now : {txs[t].at}]

\* SELECT ... FOR SHARE of the slot. Without a slot there is no row to lock.
ShareSlot(t) ==
  LET o == OwnerIn(t)
      slot == q!ShareSlot(o) IN
  /\ At(t, "shareSlot") /\ SlotShareable(t, o)
  /\ txs' = [txs EXCEPT ![t] =
       IF slot = NoSlot THEN [@ EXCEPT !.pc = "lockRow"]
       ELSE IF slot.subject = @.subject THEN [@ EXCEPT !.pc = "lockRow", !.lock.share = {o}]
       ELSE Idle]
  /\ UNCHANGED vars

OpenLockThenSlot(t) ==
  /\ At(t, "lockRow") /\ txs[t].op = "open"
  /\ LockDatabase(t, IF OwnerIn(t) = NoOwner THEN "apply" ELSE "shareSlot", "insert")
OpenLock(t) == At(t, "lockRow") /\ txs[t].op = "open" /\ LockDatabase(t, "apply", "insert")

\* createDatabase: the row is inserted, or another transaction was first.
createDatabase(t) ==
  LET key == txs[t].key IN
  /\ At(t, "insert") /\ RowFree(t, key)
  /\ \E req \in RequestIn(t) :
       txs' = [txs EXCEPT ![t] =
         IF ~req.create \/ req.resume # NoResume \/ req.pageSize \notin PageSize THEN Idle
         ELSE IF dbs[key].status # "missing" THEN [@ EXCEPT !.pc = "relock"]
         ELSE [@ EXCEPT !.pc = "apply", !.lock.rows = {key},
                        !.lock.row = q!CreateDatabase(req.pageSize)]]
  /\ UNCHANGED vars

Relock(t) == At(t, "relock") /\ LockDatabase(t, "apply", "abort")

RowUsable(row, req) ==
  IF row.status = "deleted"
  THEN req.resume = NoResume /\ req.create /\ req.pageSize \in PageSize
  ELSE req.pageSize \in {0, row.pageSize}

LeaseGrantable(row, req) ==
  \/ ~ (row.holder # None /\ req.now < row.expires)
  \/ req.takeover
  \/ row.holder = req.instance

holdsReleased(row, epoch) == row.epoch = epoch
holds(row, epoch) == row.holder # None /\ row.epoch = epoch

\* The row as this transaction sees it: its own insert, or the row that is there.
RowIn(t) == IF dbs[txs[t].key].status = "missing" THEN txs[t].lock.row ELSE dbs[txs[t].key]

\* GrantLease on the row of a database that is, or is made, live.
OpenCommit(t) ==
  LET key == txs[t].key
      row == txs[t].lock.row IN
  /\ At(t, "apply") /\ txs[t].op = "open" /\ minted < MaxLeases
  /\ \E req \in RequestIn(t) :
       /\ RowUsable(row, req) /\ req.resume = NoResume /\ LeaseGrantable(row, req)
       /\ dbs' = [dbs EXCEPT ![key] =
            q!GrantLease(reviveDatabase(RowIn(t), req), minted + 1, req.instance, req.now + TTL)]
  /\ minted' = minted + 1
  /\ leases' = leases \cup {[key |-> key, life |-> life[key], epoch |-> dbs'[key].epoch,
                             id |-> minted + 1, version |-> row.version]}
  /\ Done(t) /\ UNCHANGED <<slots, now, life, applied>>

ResumeCommit(t) ==
  LET key == txs[t].key
      row == txs[t].lock.row IN
  /\ At(t, "apply") /\ txs[t].op = "open"
  /\ \E req \in RequestIn(t) :
       /\ RowUsable(row, req) /\ req.resume # NoResume
       /\ holds(row, req.resume.epoch) /\ row.leaseID = req.resume.id
       /\ dbs' = [dbs EXCEPT ![key] = q!ExtendLease(@, row.epoch, req.now + TTL)]
  /\ Done(t) /\ UNCHANGED <<slots, now, minted, life, leases, applied>>

-----------------------------------------------------------------------------
(* Commit, Renew and Release *)

CommitBegin(t) ==
  \E req \in CommitRequest, at \in Nows :
    /\ req.id # None /\ NamesOneCommit(req)
    /\ \A u \in Tx : txs[u].op = "commit" /\ txs[u].req.id = req.id =>
         txs[u].key = req.lease.key /\ txs[u].req.base = req.base
    /\ txs' = [txs EXCEPT ![t] =
         [pc |-> "lockRow", op |-> "commit", lock |-> Unlocked, subject |-> req.lease.key[1],
          key |-> req.lease.key, req |-> req, at |-> at]]

CommitUnlocked(t) ==
  /\ At(t, "lockRow") /\ txs[t].op = "commit" /\ dbs[txs[t].key].status # "missing"
  /\ txs' = [txs EXCEPT ![t].pc = "apply", ![t].lock.row = dbs[txs[t].key]]
  /\ UNCHANGED vars
CommitLock(t) == At(t, "lockRow") /\ txs[t].op = "commit" /\ LockDatabase(t, "apply", "abort")

RepeatCommit(t) ==
  LET key == txs[t].key
      req == txs[t].req
      row == txs[t].lock.row IN
  /\ At(t, "apply") /\ txs[t].op = "commit"
  /\ holds(row, req.lease.epoch) /\ Repeats(row, req)
  /\ dbs' = [dbs EXCEPT ![key] = q!ExtendLease(@, row.epoch, txs[t].at + TTL)]
  /\ Done(t) /\ UNCHANGED <<slots, now, minted, life, leases, applied>>

writeCommit(t) ==
  LET key == txs[t].key
      req == txs[t].req
      cut == q!DeleteBlocksFrom(putBlocks(dbs[key], req), req.pageCount)
      new == recordChange(q!ApplyCommit(cut, req.pageCount, req.id, txs[t].at + TTL), req) IN
  /\ new.version <= MaxVersion
  /\ dbs' = [dbs EXCEPT ![key] = new]
  /\ applied' = applied \cup {[lease |-> req.lease, life |-> life[key], version |-> new.version,
                               id |-> req.id, pageCount |-> new.pageCount, blocks |-> new.blocks]}
  /\ Done(t) /\ UNCHANGED <<slots, now, minted, life, leases>>

ApplyCommit(t) ==
  LET req == txs[t].req
      row == txs[t].lock.row IN
  /\ At(t, "apply") /\ txs[t].op = "commit"
  /\ holds(row, req.lease.epoch) /\ ~Repeats(row, req)
  /\ row.version = req.base /\ ValidateCommit(row.pageSize, req)
  /\ writeCommit(t)

\* One UPDATE each. It waits for a lock on the row and checks the row as committed then.
RenewLease ==
  \E l \in leases, t \in Nows :
    /\ \A u \in Tx : l.key \notin txs[u].lock.rows
    /\ dbs' = [dbs EXCEPT ![l.key] = q!ExtendLease(@, l.epoch, t + TTL)]
    /\ UNCHANGED <<slots, now, minted, life, leases, applied, txs>>

ReleaseLease ==
  \E l \in leases :
    /\ \A u \in Tx : l.key \notin txs[u].lock.rows
    /\ dbs' = [dbs EXCEPT ![l.key] = q!ReleaseLease(@, l.epoch)]
    /\ UNCHANGED <<slots, now, minted, life, leases, applied, txs>>

-----------------------------------------------------------------------------
(* Deletion *)

DeleteBegin(t) ==
  \E key \in Key, takeover \in BOOLEAN, at \in Nows :
    txs' = [txs EXCEPT ![t] =
      [pc |-> "lockRow", op |-> "delete", lock |-> Unlocked, subject |-> key[1],
       key |-> key, takeover |-> takeover, at |-> at]]

DeleteUnlocked(t) ==
  /\ At(t, "lockRow") /\ txs[t].op = "delete" /\ dbs[txs[t].key].status # "missing"
  /\ txs' = [txs EXCEPT ![t].pc = "apply", ![t].lock.row = dbs[txs[t].key]]
  /\ UNCHANGED vars
DeleteLock(t) == At(t, "lockRow") /\ txs[t].op = "delete" /\ LockDatabase(t, "apply", "abort")

DeleteCommit(t) ==
  LET key == txs[t].key
      row == txs[t].lock.row IN
  /\ At(t, "apply") /\ txs[t].op = "delete"
  /\ row.status = "live"
  /\ txs[t].takeover \/ ~ (row.holder # None /\ txs[t].at < row.expires)
  /\ dbs[key].version < MaxVersion
  /\ dbs' = [dbs EXCEPT ![key] = remove(@)]
  /\ Done(t) /\ UNCHANGED <<slots, now, minted, life, leases, applied>>

(***************************************************************************)
(* DeleteUnused reads the candidates without a lock, deletes each in a     *)
(* transaction of its own and releases the unused slots at the end.        *)
(***************************************************************************)
SweepBegin(t) ==
  /\ now >= UnusedAfter
  /\ \E candidates \in q!UnusedDatabases(now - UnusedAfter, SweepBatch) :
       txs' = [txs EXCEPT ![t] =
         [pc |-> "sweep", op |-> "sweep", lock |-> Unlocked,
          cutoff |-> now - UnusedAfter, candidates |-> candidates]]

SweepLockUnchecked(t) ==
  LET key == Head(txs[t].candidates) IN
  /\ At(t, "sweep") /\ txs[t].candidates # <<>> /\ RowFree(t, key)
  /\ txs' = [txs EXCEPT ![t] =
       IF dbs[key].status = "missing" THEN [@ EXCEPT !.pc = "failed"]
       ELSE [@ EXCEPT !.pc = "holdsSlot", !.lock.rows = {key}]]
  /\ UNCHANGED vars
\* The next candidate is locked and checked again. Without its row the call fails.
SweepLock(t) ==
  LET key == Head(txs[t].candidates) IN
  /\ At(t, "sweep") /\ txs[t].candidates # <<>> /\ RowFree(t, key)
  /\ txs' = [txs EXCEPT ![t] =
       IF dbs[key].status = "missing" THEN [@ EXCEPT !.pc = "failed"]
       ELSE IF dbs[key].status = "deleted" \/ dbs[key].expires >= @.cutoff
            THEN [@ EXCEPT !.candidates = Tail(txs[t].candidates)]
       ELSE [@ EXCEPT !.pc = "holdsSlot", !.lock.rows = {key}]]
  /\ UNCHANGED vars

HoldsSlot(t) ==
  /\ At(t, "holdsSlot")
  /\ Goto(t, IF q!HoldsSlot(Head(txs[t].candidates)[1]) THEN "sweepPurge" ELSE "sweepRemove")
  /\ UNCHANGED vars

SweepCommit(t) ==
  LET tx == txs[t]
      key == Head(tx.candidates) IN
  /\ tx.pc \in {"sweepPurge", "sweepRemove"}
  /\ dbs[key].version < MaxVersion
  /\ dbs' = [dbs EXCEPT ![key] = IF At(t, "sweepPurge") THEN q!PurgeDatabase(@) ELSE remove(@)]
  /\ life' = [life EXCEPT ![key] = IF At(t, "sweepPurge") THEN @ + 1 ELSE @]
  /\ txs' = [txs EXCEPT ![t] = [tx EXCEPT !.pc = "sweep", !.lock = Unlocked, !.candidates = Tail(tx.candidates)]]
  /\ UNCHANGED <<slots, now, minted, leases, applied>>

\* ReleaseUnusedSlots sees the databases as they were when it began.
ReleaseBegin(t) ==
  /\ At(t, "sweep") /\ txs[t].candidates = <<>>
  /\ txs' = [txs EXCEPT ![t] =
       [pc |-> "release", op |-> "sweep", lock |-> Unlocked, cutoff |-> @.cutoff,
        used |-> {s \in Subject : hasDatabases(dbs, s)}, owners |-> {o \in Owner : slots[o] # NoSlot}]]
  /\ UNCHANGED vars

\* It waits for a lock on each slot and checks the slot, not the databases, as committed then.
ReleaseSlot(t) ==
  LET tx == txs[t]
      unused(o) == slots[o] # NoSlot /\ q!ReleaseUnusedSlots(slots[o], tx.cutoff, tx.used) = NoSlot IN
  /\ At(t, "release")
  /\ \/ \E o \in tx.owners :
          /\ SlotFree(t, o)
          /\ txs' = [txs EXCEPT ![t] =
               [tx EXCEPT !.owners = @ \ {o}, !.lock.update = IF unused(o) THEN @ \cup {o} ELSE @]]
          /\ UNCHANGED slots
     \/ /\ tx.owners = {}
        /\ slots' = [o \in Owner |-> IF o \in tx.lock.update THEN NoSlot ELSE slots[o]]
        /\ Done(t)
  /\ UNCHANGED <<dbs, now, minted, life, leases, applied>>

-----------------------------------------------------------------------------
(* Slots *)

SlotBegin(t) ==
  \E s \in Subject, at \in Nows, op \in Ops \cap {"claim", "deleteSlot"} :
    /\ OwnerOf[s] # NoOwner
    /\ txs' = [txs EXCEPT ![t] =
         [pc |-> "lockSlot", op |-> op, lock |-> Unlocked, subject |-> s, at |-> at,
          rest |-> {}, victim |-> None]]

\* PurgeSubject visits the rows of subject that are there when it begins.
PurgeSubject(tx, subject) ==
  [tx EXCEPT !.pc = "purge", !.victim = subject,
             !.rest = {i \in DOMAIN ScanOrder : <<subject, ScanOrder[i]>> \in q!PurgeSubject(subject)}]

SlotLocked(t) == [txs[t] EXCEPT !.lock.update = {OwnerIn(t)}]

\* A claim locks the slot. It inserts a missing one, and purges the key that holds it.
ClaimLock(t) ==
  LET o == OwnerIn(t)
      slot == q!LockSlot(o)
      tx == txs[t] IN
  /\ tx.op = "claim" /\ tx.pc \in {"lockSlot", "relockSlot"} /\ SlotFree(t, o)
  /\ txs' = [txs EXCEPT ![t] =
       CASE slot = NoSlot -> IF tx.pc = "lockSlot" THEN [tx EXCEPT !.pc = "insertSlot"] ELSE Idle
         [] slot # NoSlot /\ slot.subject = tx.subject -> Idle
         [] OTHER -> PurgeSubject(SlotLocked(t), slot.subject)]
  /\ UNCHANGED vars

\* DeleteSlot locks the slot, if there is one, and purges its own key unless another key holds it.
DeleteSlotLock(t) ==
  LET o == OwnerIn(t)
      slot == q!LockSlot(o)
      tx == txs[t] IN
  /\ tx.op = "deleteSlot" /\ tx.pc = "lockSlot" /\ SlotFree(t, o)
  /\ txs' = [txs EXCEPT ![t] =
       CASE slot = NoSlot -> PurgeSubject(tx, tx.subject)
         [] slot # NoSlot /\ slot.subject # tx.subject -> Idle
         [] OTHER -> PurgeSubject(SlotLocked(t), tx.subject)]
  /\ UNCHANGED vars

\* InsertSlot claims a free slot, or another transaction was first.
InsertSlot(t) ==
  LET o == OwnerIn(t) IN
  /\ At(t, "insertSlot")
  /\ \/ /\ slots[o] = NoSlot
        /\ slots' = [slots EXCEPT ![o] = q!InsertSlot(txs[t].subject, txs[t].at)]
        /\ Done(t)
     \/ /\ slots[o] # NoSlot /\ UNCHANGED slots
        /\ Goto(t, "relockSlot")
  /\ UNCHANGED <<dbs, now, minted, life, leases, applied>>

PurgeLock(t) ==
  LET tx == txs[t] IN
  /\ At(t, "purge")
  /\ \E i \in tx.rest :
       /\ VisitsNext(t, i) /\ RowFree(t, RowAt(t, i))
       /\ txs' = [txs EXCEPT ![t] =
            [tx EXCEPT !.rest = @ \ {i},
                       !.lock.rows = IF dbs[RowAt(t, i)].status = "missing" THEN @
                                     ELSE @ \cup {RowAt(t, i)}]]
  /\ UNCHANGED vars

\* The rows found are deleted and the slot passes to the claimer, or is free.
PurgeCommit(t) ==
  LET o == OwnerIn(t)
      tx == txs[t] IN
  /\ At(t, "purge") /\ tx.rest = {}
  /\ dbs' = [k \in Key |-> IF k \in tx.lock.rows THEN q!PurgeDatabase(dbs[k]) ELSE dbs[k]]
  /\ life' = [k \in Key |-> IF k \in tx.lock.rows THEN life[k] + 1 ELSE life[k]]
  /\ slots' = [slots EXCEPT ![o] =
       IF tx.op = "claim" THEN q!UpdateSlot(@, tx.subject, tx.at)
       ELSE IF o \in tx.lock.update THEN q!DeleteSlotOf(@) ELSE @]
  /\ Done(t) /\ UNCHANGED <<now, minted, leases, applied>>

\* One UPDATE.
SetLabel ==
  \E s \in Subject, label \in Label :
    /\ OwnerOf[s] # NoOwner
    /\ \A u \in Tx : OwnerOf[s] \notin txs[u].lock.share \cup txs[u].lock.update
    /\ slots' = [slots EXCEPT ![OwnerOf[s]] = q!LabelSlot(@, s, label)]
    /\ UNCHANGED <<dbs, now, minted, life, leases, applied, txs>>

-----------------------------------------------------------------------------
(* Changes reads in three statements, each with a snapshot of its own. *)

ChangesBegin(t) ==
  \E key \in Key : \E from \in 0 .. dbs[key].version :
    /\ dbs[key].status = "live"
    /\ txs' = [txs EXCEPT ![t] =
         [pc |-> IF from = dbs[key].version THEN "changes" ELSE "oldest", op |-> "changes",
          lock |-> Unlocked, key |-> key, from |-> from, life |-> life[key],
          to |-> dbs[key].version, complete |-> TRUE, blocks |-> {}]]

OldestChangeTooFar(t) ==
  LET oldest == q!OldestChange(txs[t].key) IN
  /\ At(t, "oldest")
  /\ txs' = [txs EXCEPT ![t] =
       IF oldest = 0 \/ oldest > @.from + 2
       THEN [@ EXCEPT !.pc = "changes", !.complete = FALSE]
       ELSE [@ EXCEPT !.pc = "since"]]
  /\ UNCHANGED vars
OldestChange(t) ==
  LET oldest == q!OldestChange(txs[t].key) IN
  /\ At(t, "oldest")
  /\ txs' = [txs EXCEPT ![t] =
       IF oldest = 0 \/ oldest > @.from + 1
       THEN [@ EXCEPT !.pc = "changes", !.complete = FALSE]
       ELSE [@ EXCEPT !.pc = "since"]]
  /\ UNCHANGED vars

ChangedSince(t) ==
  LET rows == q!ChangedSince(txs[t].key, txs[t].from) IN
  /\ At(t, "since")
  /\ txs' = [txs EXCEPT ![t] =
       [@ EXCEPT !.pc = "changes", !.blocks = UNION {row.blocks : row \in rows}]]
  /\ UNCHANGED vars

ChangesReturn(t) == At(t, "changes") /\ Done(t) /\ UNCHANGED vars

-----------------------------------------------------------------------------
(***************************************************************************)
(* Fetch reads the state and the blocks in two statements of one           *)
(* REPEATABLE READ transaction: both see the rows as the first found them. *)
(***************************************************************************)
FetchBegin(t) ==
  \E key \in Key :
    /\ q!GetDatabase(key).status = "live"
    /\ txs' = [txs EXCEPT ![t] =
         [pc |-> "fetchBlocks", op |-> "fetch", lock |-> [Unlocked EXCEPT !.row = q!GetDatabase(key)],
          key |-> key, life |-> life[key]]]

SnapshotReadCommitted(t) == q!GetDatabase(txs[t].key)
Snapshot(t) == txs[t].lock.row

\* The blocks of a range that CheckRange accepted. One without a row reads as zeros.
Fetched(t, first, count) ==
  LET written == q!FetchBlocks(Snapshot(t), first, first + count) IN
  [i \in first .. first + count - 1 |->
     IF \E w \in written : w[1] = i THEN (CHOOSE w \in written : w[1] = i)[2] ELSE Zero]

FetchReturn(t) == At(t, "fetchBlocks") /\ Done(t) /\ UNCHANGED vars

-----------------------------------------------------------------------------
Begin(t) ==
  /\ At(t, "idle")
  /\ \/ "open" \in Ops /\ OpenBegin(t)
     \/ "commit" \in Ops /\ CommitBegin(t)
     \/ "delete" \in Ops /\ DeleteBegin(t)
     \/ "sweep" \in Ops /\ SweepBegin(t)
     \/ SlotBegin(t)
     \/ "changes" \in Ops /\ ChangesBegin(t)
     \/ "fetch" \in Ops /\ FetchBegin(t)
  /\ UNCHANGED vars

PgNext ==
  \/ \E t \in Tx :
       \/ Begin(t) \/ Abort(t)
       \/ ShareSlot(t) \/ OpenLock(t) \/ createDatabase(t) \/ Relock(t)
       \/ OpenCommit(t) \/ ResumeCommit(t)
       \/ CommitLock(t) \/ RepeatCommit(t) \/ ApplyCommit(t)
       \/ DeleteLock(t) \/ DeleteCommit(t)
       \/ SweepLock(t) \/ HoldsSlot(t) \/ SweepCommit(t) \/ ReleaseBegin(t) \/ ReleaseSlot(t)
       \/ ClaimLock(t) \/ DeleteSlotLock(t) \/ InsertSlot(t) \/ PurgeLock(t) \/ PurgeCommit(t)
       \/ OldestChange(t) \/ ChangedSince(t) \/ ChangesReturn(t)
       \/ FetchReturn(t)
  \/ RenewLease \/ ReleaseLease \/ SetLabel
  \/ Tick /\ UNCHANGED txs

PgSpec == PgInit /\ [][PgNext]_pgVars

-----------------------------------------------------------------------------
(* Properties *)

(***************************************************************************)
(* The contract of store.go as the PostgreSQL store keeps it without       *)
(* slots: every committed transaction is one step of the store             *)
(* specification.  A deletion also forgets when the lease expired, and the *)
(* sweep deletes one database at a time, any that is unused when it does.  *)
(***************************************************************************)
ForgetUnused(key) ==
  /\ dbs' = [dbs EXCEPT ![key] = [Removed(@) EXCEPT !.expires = 0]]
  /\ UNCHANGED <<slots, now, minted, life, leases, applied>>

ContractNext ==
  \/ UNCHANGED vars
  \/ StoreNext
  \/ \E key \in Key, takeover \in BOOLEAN, t \in Nows :
       DeleteOutcome(key, takeover, t) = "deleted" /\ ForgetUnused(key)
  \/ \E key \in Key : now >= UnusedAfter /\ key \in Unused(now - UnusedAfter) /\ ForgetUnused(key)

Contract == StoreInit /\ [][ContractNext]_vars

(***************************************************************************)
(* Without takeover, opening and deleting a database ends no lease of      *)
(* another instance that has time left when the transaction commits        *)
(* (Takeover: "even if another instance holds an unexpired lease").  The   *)
(* transaction judges by the time at which its call began, and the lease   *)
(* may have been granted or extended while it waited for the row.          *)
(***************************************************************************)
NotStolen ==
  [][\A t \in Tx : (OpenCommit(t) \/ DeleteCommit(t)) /\ ~txs[t].takeover =>
       LET key == txs[t].key IN Active(dbs[key], now) => dbs'[key].holder = dbs[key].holder]_pgVars

(***************************************************************************)
(* Transactions never wait for each other in a circle, as queries.sql      *)
(* states for opening, claiming and deleting slots: they lock the slot     *)
(* before any database.                                                    *)
(***************************************************************************)
NoWaitCycle ==
  \A T \in (SUBSET Tx) \ {{}} : \E t \in T : \A u \in T : ~WaitsFor(t, u)

(***************************************************************************)
(* What Changes returns for a version that is still current is right: a    *)
(* client reads the blocks it names with Fetch, which checks the version.  *)
(* The three statements of Changes do not share a snapshot.                *)
(***************************************************************************)
ChangesOfCurrentVersion ==
  \A t \in Tx : LET tx == txs[t] IN
    (At(t, "changes") /\ life[tx.key] = tx.life /\ dbs[tx.key].version = tx.to) =>
      [complete |-> tx.complete, blocks |-> tx.blocks] = Changes(dbs[tx.key], tx.from)

(***************************************************************************)
(* Fetch returns the blocks as the commit of the version it was asked for  *)
(* left them, whatever commits and deletions happen between its two        *)
(* statements ("so a concurrent commit cannot mix two versions").          *)
(***************************************************************************)
FetchIsASnapshot ==
  \A t \in Tx : At(t, "fetchBlocks") =>
    LET tx == txs[t]
        row == tx.lock.row
        commits == {a \in applied : a.lease.key = tx.key /\ a.life = tx.life /\ a.version = row.version}
        content == IF commits = {} THEN NoBlocks ELSE (CHOOSE a \in commits : TRUE).blocks IN
    \A first \in 0 .. row.pageCount : \A count \in 0 .. row.pageCount - first :
      Fetched(t, first, count) = [i \in first .. first + count - 1 |-> content[i]]

(***************************************************************************)
(* The sweep deletes no database that was used since: an open or a commit  *)
(* after it read its candidates keeps the database (DeleteUnused locks the *)
(* row and checks it again).                                               *)
(***************************************************************************)
OnlyUnusedAreSwept ==
  [][\A t \in Tx : SweepCommit(t) => Head(txs[t].candidates) \in Unused(txs[t].cutoff)]_pgVars
=============================================================================
