----------------------- MODULE PostgresTransactions -----------------------
(***************************************************************************)
(* The transactions of the PostgreSQL store: the invariant of what each    *)
(* has read and locked, what its statements do to it, why none waits for   *)
(* ever for a lock, and which requests they carry out.                     *)
(***************************************************************************)
EXTENDS PostgresStore, TLAPS

USE ZenonT(60), SMTT(60)

-----------------------------------------------------------------------------
(* Transactions *)

\* A log reaches back to a version when its oldest entry is of the next one or before.
LEMMA NotPast ==
  ASSUME NEW n \in Nat \ {0}, NEW m \in Nat
  PROVE  n <= m + 1 <=> ~(n = 0 \/ n > m + 1)
BY SMTT(60)


Locks == [rows : SUBSET Key, share : SUBSET Owner, update : SUBSET Owner, row : Database]

Requests ==
  [lease : Lease, id : CommitID \cup {None}, base : 0 .. MaxVersion,
   pageCount : 0 .. MaxPages, blocks : BlockList, size : PageSize]

OpenTx ==
  [pc : {"shareSlot", "lockRow", "insert", "relock", "apply"}, op : {"open"}, lock : Locks,
   subject : Subject, key : Key, resume : [id : Nat, epoch : Nat], takeover : BOOLEAN,
   at : Nat]
CommitTx ==
  [pc : {"lockRow", "apply"}, op : {"commit"}, lock : Locks,
   subject : Subject, key : Key, req : Requests, at : Nat]
DeleteTx ==
  [pc : {"lockRow", "apply"}, op : {"delete"}, lock : Locks,
   subject : Subject, key : Key, takeover : BOOLEAN, at : Nat]
SweepTx ==
  [pc : {"sweep", "failed", "holdsSlot", "sweepPurge", "sweepRemove"}, op : {"sweep"}, lock : Locks,
   cutoff : Nat, candidates : Seq(Key)]
ReleaseTx ==
  [pc : {"release"}, op : {"sweep"}, lock : Locks,
   cutoff : Nat, used : SUBSET Subject, owners : SUBSET Owner]
SlotTx ==
  [pc : {"lockSlot", "relockSlot", "insertSlot", "purge"}, op : {"claim", "deleteSlot"}, lock : Locks,
   subject : {s \in Subject : OwnerOf[s] # NoOwner}, at : Nat,
   rest : SUBSET DOMAIN ScanOrder, victim : Subject \cup {None}]
ChangesTx ==
  [pc : {"oldest", "since", "changes"}, op : {"changes"}, lock : Locks,
   key : Key, from : Nat, life : Nat, to : Nat, complete : BOOLEAN, blocks : SUBSET Nat]
FetchTx ==
  [pc : {"fetchBlocks"}, op : {"fetch"}, lock : Locks, key : Key, life : Nat]

Transaction ==
  {Idle} \cup OpenTx \cup CommitTx \cup DeleteTx \cup SweepTx \cup ReleaseTx \cup SlotTx
         \cup ChangesTx \cup FetchTx

Sweeping == {"holdsSlot", "sweepPurge", "sweepRemove"}
RowWaits == {"lockRow", "insert", "relock"}

(***************************************************************************)
(* What a transaction knows of the rows d it has locked.  An open, commit  *)
(* or deletion applies to the row it read, or to a row that it created;    *)
(* the sweep has locked a database that is unused; a purge has locked rows *)
(* of its victim that precede those it still visits.                       *)
(***************************************************************************)
RowsOK(tx, d) ==
  /\ tx.pc = "apply" =>
       /\ tx.lock.rows = {tx.key}
       /\ \/ d[tx.key].status # "missing" /\ tx.lock.row = d[tx.key]
          \/ /\ d[tx.key].status = "missing" /\ tx.op = "open" /\ tx.resume = NoResume
             /\ \E p \in PageSize : tx.lock.row = q!CreateDatabase(p)
  /\ tx.pc \in Sweeping =>
       /\ tx.candidates # <<>> /\ tx.lock.rows = {Head(tx.candidates)}
       /\ d[Head(tx.candidates)].status = "live" /\ d[Head(tx.candidates)].expires < tx.cutoff
  /\ tx.pc = "purge" =>
       \A k \in tx.lock.rows : \E i \in DOMAIN ScanOrder :
         k = <<tx.victim, ScanOrder[i]>> /\ \A j \in tx.rest : i < j
  /\ tx.pc \notin {"apply", "purge"} \cup Sweeping => tx.lock.rows = {}

(***************************************************************************)
(* What a transaction knows of the slots s it has locked.  A claim that    *)
(* purges has locked a slot that is held.                                  *)
(***************************************************************************)
SlotsOK(tx, s) ==
  /\ tx.pc = "shareSlot" => OwnerOf[tx.subject] # NoOwner
  /\ tx.pc \in {"apply"} \cup RowWaits => tx.lock.update = {}
  /\ tx.pc = "purge" =>
       /\ tx.lock.share = {} /\ tx.victim \in Subject
       /\ tx.op = "claim" => /\ OwnerOf[tx.subject] \in tx.lock.update
                             /\ s[OwnerOf[tx.subject]].subject # None
  /\ tx.pc = "release" => tx.lock.share = {} /\ tx.lock.update \cap tx.owners = {}
  /\ tx.pc \notin {"apply", "purge", "release"} \cup RowWaits => tx.lock.share = {} /\ tx.lock.update = {}

\* No two transactions lock one row, or one slot unless both share it.
Exclusive ==
  \A t, u \in Tx : t # u =>
    /\ txs[t].lock.rows \cap txs[u].lock.rows = {}
    /\ txs[t].lock.update \cap (txs[u].lock.share \cup txs[u].lock.update) = {}

(***************************************************************************)
(* The commits in progress.  Each names a lease of L, the leases granted,  *)
(* and its ID is that of no other commit in A, those applied.              *)
(***************************************************************************)
CommitOK(tx, L, A) ==
  tx.op = "commit" =>
    /\ tx.req.lease \in L /\ tx.req.id # None /\ tx.key = tx.req.lease.key
    /\ \A a \in A : a.id = tx.req.id => a.lease.key = tx.key /\ a.version = tx.req.base + 1

SameCommit(tx, ux) ==
  tx.op = "commit" /\ ux.op = "commit" /\ tx.req.id = ux.req.id =>
    tx.key = ux.key /\ tx.req.base = ux.req.base

(***************************************************************************)
(* What Changes has read is right while the version it found is the        *)
(* current one: the log changes only together with version or life.        *)
(***************************************************************************)
ChangesOK(tx, d, l) ==
  tx.op = "changes" =>
    /\ tx.life <= l[tx.key]
    /\ tx.life = l[tx.key] => tx.to <= d[tx.key].version
    /\ tx.life = l[tx.key] /\ tx.to = d[tx.key].version =>
         /\ tx.pc \in {"oldest", "since"} => tx.from # tx.to /\ tx.complete /\ tx.blocks = {}
         /\ tx.pc = "since" => LogReaches(d[tx.key], tx.from)
         /\ tx.pc = "changes" =>
              [complete |-> tx.complete, blocks |-> tx.blocks] = Changes(d[tx.key], tx.from)

\* The snapshot of Fetch is what the commit of its version left, if there was one.
IsOf(a, tx) == a.lease.key = tx.key /\ a.life = tx.life /\ a.version = tx.lock.row.version
FetchOK(tx, d, l, A) ==
  tx.op = "fetch" =>
    /\ tx.lock.row.pageCount <= MaxPages /\ tx.life <= l[tx.key]
    /\ tx.life = l[tx.key] => tx.lock.row.version <= d[tx.key].version
    /\ \A a \in A : IsOf(a, tx) => a.blocks = tx.lock.row.blocks
    /\ (\A a \in A : ~IsOf(a, tx)) => tx.lock.row.blocks = NoBlocks

\* The invariant of the transactions.
TxInv ==
  /\ txs \in [Tx -> Transaction]
  /\ \A t \in Tx : /\ RowsOK(txs[t], dbs) /\ SlotsOK(txs[t], slots)
                   /\ CommitOK(txs[t], leases, applied)
                   /\ ChangesOK(txs[t], dbs, life) /\ FetchOK(txs[t], dbs, life, applied)
  /\ \A t, u \in Tx : SameCommit(txs[t], txs[u])
  /\ Exclusive
  /\ \A o \in Owner : slots[o] = NoSlot \/ slots[o].subject # None

-----------------------------------------------------------------------------
(* Records of transactions *)

\* A transaction without locks.
LEMMA UnlockedType == Unlocked \in Locks
BY SMTT(60) DEF Unlocked, Locks, NoDatabase, Database, NoBlocks, Data, Zero

\* Which transactions an operation has.
LEMMA ByOp ==
  ASSUME NEW tx \in Transaction
  PROVE  /\ tx.lock \in Locks
         /\ tx.op = "open" => tx \in OpenTx
         /\ tx.op = "commit" => tx \in CommitTx
         /\ tx.op = "delete" => tx \in DeleteTx
         /\ tx.op = "changes" => tx \in ChangesTx
         /\ tx.op = "fetch" => tx \in FetchTx
         /\ tx.op \in {"claim", "deleteSlot"} => tx \in SlotTx
<1> DEFINE Op(op) == tx.lock \in Locks /\ tx.op = op
<1>1. tx = Idle => Op("none")
  BY SMTT(60), UnlockedType DEF Idle
<1>2. tx \in OpenTx => Op("open")
  BY DEF OpenTx
<1>3. tx \in CommitTx => Op("commit")
  BY DEF CommitTx
<1>4. tx \in DeleteTx => Op("delete")
  BY DEF DeleteTx
<1>5. tx \in SweepTx => Op("sweep")
  BY DEF SweepTx
<1>6. tx \in ReleaseTx => Op("sweep")
  BY DEF ReleaseTx
<1>7. tx \in SlotTx => Op("claim") \/ Op("deleteSlot")
  BY DEF SlotTx
<1>8. tx \in ChangesTx => Op("changes")
  BY DEF ChangesTx
<1>9. tx \in FetchTx => Op("fetch")
  BY DEF FetchTx
<1> QED
  BY <1>1, <1>2, <1>3, <1>4, <1>5, <1>6, <1>7, <1>8, <1>9 DEF Transaction

\* Which transactions are at a statement.
LEMMA ByPC ==
  ASSUME NEW tx \in Transaction
  PROVE  /\ tx.pc = "idle" => tx = Idle
         /\ tx.pc \in {"shareSlot", "insert", "relock"} => tx \in OpenTx
         /\ tx.pc \in {"lockRow", "apply"} => tx \in OpenTx \cup CommitTx \cup DeleteTx
         /\ tx.pc \in {"sweep", "failed"} \cup Sweeping => tx \in SweepTx
         /\ tx.pc = "release" => tx \in ReleaseTx
         /\ tx.pc \in {"lockSlot", "relockSlot", "insertSlot", "purge"} => tx \in SlotTx
         /\ tx.pc \in {"oldest", "since", "changes"} => tx \in ChangesTx
         /\ tx.pc = "fetchBlocks" => tx \in FetchTx
<1>1. tx = Idle => tx.pc = "idle"
  BY SMTT(60) DEF Idle
<1>2. tx \in OpenTx => tx.pc \in {"shareSlot", "lockRow", "insert", "relock", "apply"}
  BY DEF OpenTx
<1>3. tx \in CommitTx => tx.pc \in {"lockRow", "apply"}
  BY DEF CommitTx
<1>4. tx \in DeleteTx => tx.pc \in {"lockRow", "apply"}
  BY DEF DeleteTx
<1>5. tx \in SweepTx => tx.pc \in {"sweep", "failed"} \cup Sweeping
  BY DEF SweepTx, Sweeping
<1>6. tx \in ReleaseTx => tx.pc = "release"
  BY DEF ReleaseTx
<1>7. tx \in SlotTx => tx.pc \in {"lockSlot", "relockSlot", "insertSlot", "purge"}
  BY DEF SlotTx
<1>8. tx \in ChangesTx => tx.pc \in {"oldest", "since", "changes"}
  BY DEF ChangesTx
<1>9. tx \in FetchTx => tx.pc = "fetchBlocks"
  BY DEF FetchTx
<1> QED
  BY <1>1, <1>2, <1>3, <1>4, <1>5, <1>6, <1>7, <1>8, <1>9 DEF Transaction, Sweeping

-----------------------------------------------------------------------------
(***************************************************************************)
(* A step of transaction t, which becomes new.  Took: what it has locked,  *)
(* it had locked before or nobody else had.                                *)
(***************************************************************************)

Took(t, new) ==
  /\ \A k \in new.lock.rows : k \in txs[t].lock.rows \/ RowFree(t, k)
  /\ \A o \in new.lock.share : o \in txs[t].lock.share \/ SlotShareable(t, o)
  /\ \A o \in new.lock.update : o \in txs[t].lock.update \/ SlotFree(t, o)

Moved(t, new) ==
  /\ txs' = [txs EXCEPT ![t] = new] /\ new \in Transaction
  /\ RowsOK(new, dbs') /\ SlotsOK(new, slots') /\ Took(t, new)
  /\ CommitOK(new, leases, applied) /\ \A u \in Tx \ {t} : SameCommit(new, txs[u])
  /\ ChangesOK(new, dbs, life) /\ FetchOK(new, dbs, life, applied)

\* What t writes it has locked, but for a slot that it claims because there is none.
Wrote(t) ==
  /\ \A k \in Key : dbs'[k] = dbs[k] \/ k \in txs[t].lock.rows
  /\ \A o \in Owner : slots'[o] = slots[o] \/ o \in txs[t].lock.update \/ slots[o] = NoSlot
  /\ \A o \in Owner : slots'[o] = NoSlot \/ slots'[o].subject # None
  /\ leases \subseteq leases'
  /\ \/ applied' = applied
     \/ /\ txs' = [txs EXCEPT ![t] = Idle] /\ txs[t].op = "commit"
        /\ \A a \in applied' \ applied :
             a.id = txs[t].req.id /\ a.lease.key = txs[t].key /\ a.version = txs[t].req.base + 1

\* A step of a single statement writes what nobody has locked.
Alone ==
  /\ txs' = txs /\ leases' = leases /\ applied' = applied
  /\ \A k \in Key : dbs'[k] = dbs[k] \/ \A u \in Tx : k \notin txs[u].lock.rows
  /\ \A o \in Owner : slots'[o] = slots[o] \/ \A u \in Tx : o \notin txs[u].lock.update
  /\ \A o \in Owner : slots'[o] = NoSlot \/ slots'[o].subject # None

\* A transaction without locks knows nothing of rows and slots.
LEMMA UnlockedOK ==
  ASSUME NEW tx, tx.lock = Unlocked, tx.pc \notin {"apply", "purge"} \cup Sweeping,
         tx.pc = "shareSlot" => OwnerOf[tx.subject] # NoOwner, NEW t, NEW d, NEW s
  PROVE  RowsOK(tx, d) /\ SlotsOK(tx, s) /\ Took(t, tx)
<1>1. tx.lock.rows = {} /\ tx.lock.share = {} /\ tx.lock.update = {}
  BY SMTT(60) DEF Unlocked
<1> QED
  BY <1>1 DEF RowsOK, SlotsOK, Took, Sweeping

\* A transaction that ends.
LEMMA DoneMoves ==
  ASSUME TxInv, NEW t \in Tx, Done(t)
  PROVE  Moved(t, Idle)
<1>1. Idle \in Transaction /\ Idle.lock = Unlocked /\ Idle.pc = "idle" /\ Idle.op = "none"
  BY DEF Idle, Transaction
<1>2. RowsOK(Idle, dbs') /\ SlotsOK(Idle, slots') /\ Took(t, Idle)
  BY <1>1, UnlockedOK DEF Sweeping
<1> QED
  BY <1>1, <1>2 DEF Moved, Done, CommitOK, SameCommit, ChangesOK, FetchOK

-----------------------------------------------------------------------------
(* The first statement of each operation *)

\* A transaction that begins and is none of those with an invariant of their own.
LEMMA PlainBegin ==
  ASSUME NEW t \in Tx, NEW new \in Transaction, new.lock = Unlocked,
         new.pc \notin {"apply", "purge"} \cup Sweeping, new.op \notin {"commit", "changes", "fetch"},
         new.pc = "shareSlot" => OwnerOf[new.subject] # NoOwner,
         txs' = [txs EXCEPT ![t] = new]
  PROVE  Moved(t, new)
BY UnlockedOK DEF Moved, CommitOK, SameCommit, ChangesOK, FetchOK

\* Open.
LEMMA OpenBegins ==
  ASSUME StoreTypeOK, NEW t \in Tx, OpenBegin(t)
  PROVE  \E new : Moved(t, new)
<1>1. PICK key \in Key : \E resume \in ResumeOf(key), takeover \in BOOLEAN, at \in Nows :
        txs' = [txs EXCEPT ![t] =
          [pc |-> IF OwnerOf[key[1]] = NoOwner THEN "lockRow" ELSE "shareSlot",
           op |-> "open", lock |-> Unlocked, subject |-> key[1], key |-> key,
           resume |-> resume, takeover |-> takeover, at |-> at]]
  BY DEF OpenBegin
<1>2. PICK resume \in ResumeOf(key), takeover \in BOOLEAN, at \in Nows :
        txs' = [txs EXCEPT ![t] =
          [pc |-> IF OwnerOf[key[1]] = NoOwner THEN "lockRow" ELSE "shareSlot",
           op |-> "open", lock |-> Unlocked, subject |-> key[1], key |-> key,
           resume |-> resume, takeover |-> takeover, at |-> at]]
  BY <1>1
<1>3. key[1] \in Subject
  BY DEF Key
<1>4. resume \in [id : Nat, epoch : Nat]
  BY SMTT(60) DEF ResumeOf, NoResume, StoreTypeOK, Lease
<1>5. at \in Nat
  BY SMTT(60) DEF Nows, StoreTypeOK
<1> DEFINE new == [pc |-> IF OwnerOf[key[1]] = NoOwner THEN "lockRow" ELSE "shareSlot",
                   op |-> "open", lock |-> Unlocked, subject |-> key[1], key |-> key,
                   resume |-> resume, takeover |-> takeover, at |-> at]
<1>6. new \in OpenTx
  BY <1>3, <1>4, <1>5, UnlockedType DEF OpenTx
<1>7. /\ new.lock = Unlocked /\ new.op = "open" /\ new.pc \in {"lockRow", "shareSlot"}
      /\ new.pc = "shareSlot" => OwnerOf[new.subject] # NoOwner
  OBVIOUS
<1>8. txs' = [txs EXCEPT ![t] = new]
  BY <1>2
<1> HIDE DEF new
<1>9. Moved(t, new)
  BY <1>6, <1>7, <1>8, PlainBegin DEF Transaction, Sweeping
<1> QED
  BY <1>9

\* Delete.
LEMMA DeleteBegins ==
  ASSUME StoreTypeOK, NEW t \in Tx, DeleteBegin(t)
  PROVE  \E new : Moved(t, new)
<1>1. PICK key \in Key, takeover \in BOOLEAN, at \in Nows :
        txs' = [txs EXCEPT ![t] =
          [pc |-> "lockRow", op |-> "delete", lock |-> Unlocked, subject |-> key[1],
           key |-> key, takeover |-> takeover, at |-> at]]
  BY DEF DeleteBegin
<1>2. key[1] \in Subject /\ at \in Nat
  BY SMTT(60) DEF Nows, StoreTypeOK, Key
<1> DEFINE new == [pc |-> "lockRow", op |-> "delete", lock |-> Unlocked, subject |-> key[1],
                   key |-> key, takeover |-> takeover, at |-> at]
<1>3. new \in DeleteTx /\ new.lock = Unlocked /\ new.op = "delete" /\ new.pc = "lockRow"
  BY <1>2, UnlockedType DEF DeleteTx
<1> HIDE DEF new
<1>4. Moved(t, new)
  BY <1>1, <1>3, PlainBegin DEF Transaction, Sweeping, new
<1> QED
  BY <1>4

\* The sweep.
LEMMA SweepBegins ==
  ASSUME StoreTypeOK, NEW t \in Tx, SweepBegin(t)
  PROVE  \E new : Moved(t, new)
<1>1. PICK candidates \in q!UnusedDatabases(now - UnusedAfter, SweepBatch) :
        txs' = [txs EXCEPT ![t] =
          [pc |-> "sweep", op |-> "sweep", lock |-> Unlocked,
           cutoff |-> now - UnusedAfter, candidates |-> candidates]]
  BY DEF SweepBegin
<1>2. now - UnusedAfter \in Nat
  BY SMTT(60), CallersAssumption DEF SweepBegin, StoreTypeOK
<1>3. candidates \in Seq(Key)
  <2> DEFINE unused == {k \in Key : dbs[k].status = "live" /\ dbs[k].expires < now - UnusedAfter}
  <2>1. PICK n \in 0 .. SweepBatch : candidates \in [1 .. n -> unused]
    BY DEF q!UnusedDatabases
  <2>2. n \in Nat /\ candidates \in [1 .. n -> Key]
    BY SMTT(60), <2>1, CallersAssumption
  <2> QED
    BY SMTT(60), <2>2
<1> DEFINE new == [pc |-> "sweep", op |-> "sweep", lock |-> Unlocked,
                   cutoff |-> now - UnusedAfter, candidates |-> candidates]
<1>4. new \in SweepTx /\ new.lock = Unlocked /\ new.op = "sweep" /\ new.pc = "sweep"
  BY <1>2, <1>3, UnlockedType DEF SweepTx
<1> HIDE DEF new
<1>5. Moved(t, new)
  BY <1>1, <1>4, PlainBegin DEF Transaction, Sweeping, new
<1> QED
  BY <1>5

\* ClaimSlot and DeleteSlot.
LEMMA SlotBegins ==
  ASSUME StoreTypeOK, NEW t \in Tx, SlotBegin(t)
  PROVE  \E new : Moved(t, new)
<1>1. PICK s \in Subject, at \in Nows, op \in Ops \cap {"claim", "deleteSlot"} :
        /\ OwnerOf[s] # NoOwner
        /\ txs' = [txs EXCEPT ![t] =
             [pc |-> "lockSlot", op |-> op, lock |-> Unlocked, subject |-> s, at |-> at,
              rest |-> {}, victim |-> None]]
  BY DEF SlotBegin
<1>2. at \in Nat
  BY SMTT(60) DEF Nows, StoreTypeOK
<1> DEFINE new == [pc |-> "lockSlot", op |-> op, lock |-> Unlocked, subject |-> s, at |-> at,
                   rest |-> {}, victim |-> None]
<1>3. new \in SlotTx
  BY <1>1, <1>2, UnlockedType DEF SlotTx
<1>4. new.lock = Unlocked /\ new.op \in {"claim", "deleteSlot"} /\ new.pc = "lockSlot"
  OBVIOUS
<1> HIDE DEF new
<1>5. Moved(t, new)
  BY <1>1, <1>3, <1>4, PlainBegin DEF Transaction, Sweeping, new
<1> QED
  BY <1>5

\* Commit.
LEMMA CommitBegins ==
  ASSUME StoreTypeOK, NEW t \in Tx, CommitBegin(t)
  PROVE  \E new : Moved(t, new)
<1>1. PICK req \in CommitRequest, at \in Nows :
        /\ req.id # None /\ NamesOneCommit(req)
        /\ \A u \in Tx : txs[u].op = "commit" /\ txs[u].req.id = req.id =>
             txs[u].key = req.lease.key /\ txs[u].req.base = req.base
        /\ txs' = [txs EXCEPT ![t] =
             [pc |-> "lockRow", op |-> "commit", lock |-> Unlocked, subject |-> req.lease.key[1],
              key |-> req.lease.key, req |-> req, at |-> at]]
  BY DEF CommitBegin
<1>2. req.lease.key \in Key /\ req.lease \in leases /\ at \in Nat
  BY SMTT(60) DEF CommitRequest, StoreTypeOK, Lease, Nows
<1>3. req.lease.key[1] \in Subject
  BY <1>2 DEF Key
<1>4. req \in Requests
  BY DEF Requests, CommitRequest, StoreTypeOK
<1> DEFINE new == [pc |-> "lockRow", op |-> "commit", lock |-> Unlocked, subject |-> req.lease.key[1],
                   key |-> req.lease.key, req |-> req, at |-> at]
<1>5. new \in CommitTx
  BY <1>2, <1>3, <1>4, UnlockedType DEF CommitTx
<1>6. /\ new.lock = Unlocked /\ new.op = "commit" /\ new.pc = "lockRow"
      /\ new.key = req.lease.key /\ new.req = req
  OBVIOUS
<1>7. txs' = [txs EXCEPT ![t] = new]
  BY <1>1
<1> HIDE DEF new
<1>8. RowsOK(new, dbs') /\ SlotsOK(new, slots') /\ Took(t, new)
  BY <1>6, UnlockedOK DEF Sweeping
<1>9. CommitOK(new, leases, applied) /\ \A u \in Tx : SameCommit(new, txs[u])
  BY <1>1, <1>2, <1>6 DEF CommitOK, SameCommit, NamesOneCommit
<1>10. ChangesOK(new, dbs, life) /\ FetchOK(new, dbs, life, applied)
  BY <1>6 DEF ChangesOK, FetchOK
<1>11. Moved(t, new)
  BY <1>5, <1>7, <1>8, <1>9, <1>10 DEF Moved, Transaction
<1> QED
  BY <1>11

\* Changes.
LEMMA ChangesBegins ==
  ASSUME StoreTypeOK, NEW t \in Tx, ChangesBegin(t)
  PROVE  \E new : Moved(t, new)
<1>1. PICK key \in Key : \E from \in 0 .. dbs[key].version :
        /\ dbs[key].status = "live"
        /\ txs' = [txs EXCEPT ![t] =
             [pc |-> IF from = dbs[key].version THEN "changes" ELSE "oldest", op |-> "changes",
              lock |-> Unlocked, key |-> key, from |-> from, life |-> life[key],
              to |-> dbs[key].version, complete |-> TRUE, blocks |-> {}]]
  BY DEF ChangesBegin
<1>2. PICK from \in 0 .. dbs[key].version :
        /\ dbs[key].status = "live"
        /\ txs' = [txs EXCEPT ![t] =
             [pc |-> IF from = dbs[key].version THEN "changes" ELSE "oldest", op |-> "changes",
              lock |-> Unlocked, key |-> key, from |-> from, life |-> life[key],
              to |-> dbs[key].version, complete |-> TRUE, blocks |-> {}]]
  BY <1>1
<1>3. life[key] \in Nat /\ dbs[key].version \in Nat /\ from \in Nat
  BY SMTT(60) DEF StoreTypeOK, Database
<1> DEFINE new == [pc |-> IF from = dbs[key].version THEN "changes" ELSE "oldest", op |-> "changes",
                   lock |-> Unlocked, key |-> key, from |-> from, life |-> life[key],
                   to |-> dbs[key].version, complete |-> TRUE, blocks |-> {}]
<1>4. new \in ChangesTx
  BY <1>3, UnlockedType DEF ChangesTx
<1>5. /\ new.lock = Unlocked /\ new.op = "changes" /\ new.pc \in {"changes", "oldest"}
      /\ new.key = key /\ new.from = from /\ new.life = life[key] /\ new.to = dbs[key].version
      /\ new.complete = TRUE /\ new.blocks = {}
      /\ new.pc = "changes" <=> from = dbs[key].version
  OBVIOUS
<1>6. txs' = [txs EXCEPT ![t] = new]
  BY <1>2
<1> HIDE DEF new
<1>7. RowsOK(new, dbs') /\ SlotsOK(new, slots') /\ Took(t, new)
  BY <1>5, UnlockedOK DEF Sweeping
<1>8. from = dbs[key].version => Changes(dbs[key], from) = [complete |-> TRUE, blocks |-> {}]
  BY DEF Changes
<1>9. ChangesOK(new, dbs, life)
  <2>1. new.pc = "changes" =>
          [complete |-> new.complete, blocks |-> new.blocks] = Changes(dbs[new.key], new.from)
    BY <1>5, <1>8
  <2> QED
    BY SMTT(60), <1>3, <1>5, <2>1 DEF ChangesOK
<1>10. CommitOK(new, leases, applied) /\ FetchOK(new, dbs, life, applied) /\ \A u \in Tx : SameCommit(new, txs[u])
  BY <1>5 DEF CommitOK, FetchOK, SameCommit
<1>11. Moved(t, new)
  BY <1>4, <1>6, <1>7, <1>9, <1>10 DEF Moved, Transaction
<1> QED
  BY <1>11

\* Fetch.
LEMMA FetchBegins ==
  ASSUME StoreTypeOK, ExactlyOnce, FileSizes, \A k \in Key : ContentOf(k), NEW t \in Tx, FetchBegin(t)
  PROVE  \E new : Moved(t, new)
<1>1. PICK key \in Key :
        txs' = [txs EXCEPT ![t] =
          [pc |-> "fetchBlocks", op |-> "fetch", lock |-> [Unlocked EXCEPT !.row = dbs[key]],
           key |-> key, life |-> life[key]]]
  BY DEF FetchBegin, q!GetDatabase
<1>2. dbs[key] \in Database /\ life[key] \in Nat /\ dbs[key].version \in Nat
  BY DEF StoreTypeOK, Database
<1> DEFINE lk == [Unlocked EXCEPT !.row = dbs[key]]
<1>3. lk \in Locks /\ lk.rows = {} /\ lk.share = {} /\ lk.update = {} /\ lk.row = dbs[key]
  BY <1>2 DEF Unlocked, Locks
<1> HIDE DEF lk
<1> DEFINE new == [pc |-> "fetchBlocks", op |-> "fetch", lock |-> lk, key |-> key, life |-> life[key]]
<1>4. new \in FetchTx
  BY <1>2, <1>3 DEF FetchTx
<1>5. new.lock = lk /\ new.op = "fetch" /\ new.pc = "fetchBlocks" /\ new.key = key /\ new.life = life[key]
  OBVIOUS
<1>6. txs' = [txs EXCEPT ![t] = new]
  BY <1>1 DEF lk
<1> HIDE DEF new
<1>7. RowsOK(new, dbs') /\ SlotsOK(new, slots') /\ Took(t, new)
  BY <1>3, <1>5 DEF RowsOK, SlotsOK, Took, Sweeping, RowWaits
<1>8. /\ \A a \in applied : IsOf(a, new) => a.blocks = dbs[key].blocks
      /\ (\A a \in applied : ~IsOf(a, new)) => dbs[key].blocks = NoBlocks
  <2>1. \A a : IsOf(a, new) <=> Current(a, key) /\ a.version = dbs[key].version
    BY <1>3, <1>5 DEF IsOf, Current
  <2>2. CASE /\ dbs[key].blocks = NoBlocks
             /\ \A a \in applied : Current(a, key) => a.version < dbs[key].version
    BY SMTT(60), <1>2, <2>1, <2>2
  <2>3. CASE \E a \in applied : /\ Current(a, key) /\ a.version = dbs[key].version
                                /\ a.blocks = dbs[key].blocks
    BY <2>1, <2>3 DEF ExactlyOnce, Current
  <2>4. ContentOf(key)
    OBVIOUS
  <2> QED
    BY <2>2, <2>3, <2>4 DEF ContentOf
<1>9. FetchOK(new, dbs, life, applied)
  BY SMTT(60), <1>2, <1>3, <1>5, <1>8 DEF FetchOK, FileSizes
<1>10. CommitOK(new, leases, applied) /\ ChangesOK(new, dbs, life) /\ \A u \in Tx : SameCommit(new, txs[u])
  BY <1>5 DEF CommitOK, ChangesOK, SameCommit
<1>11. Moved(t, new)
  BY <1>4, <1>6, <1>7, <1>9, <1>10 DEF Moved, Transaction
<1> QED
  BY <1>11

-----------------------------------------------------------------------------
(* Statements that read and lock *)

\* A step of an open, a commit or a deletion that changes where it is and what it has locked.
LEMMA RowTx ==
  ASSUME NEW tx \in OpenTx \cup CommitTx \cup DeleteTx, NEW lk \in Locks,
         NEW pc \in {"apply"} \cup RowWaits,
         pc \in {"lockRow", "apply"} \/ tx \in OpenTx
  PROVE  LET new == [tx EXCEPT !.pc = pc, !.lock = lk] IN
         /\ new \in Transaction /\ new.pc = pc /\ new.lock = lk
         /\ new.op = tx.op /\ new.op \in {"open", "commit", "delete"} /\ new.key = tx.key
         /\ tx.op = "open" => new.resume = tx.resume
         /\ tx.op = "commit" => new.req = tx.req
<1> DEFINE new == [tx EXCEPT !.pc = pc, !.lock = lk]
           Goal == /\ new \in Transaction /\ new.pc = pc /\ new.lock = lk
                   /\ new.op = tx.op /\ new.op \in {"open", "commit", "delete"} /\ new.key = tx.key
                   /\ tx.op = "open" => new.resume = tx.resume
                   /\ tx.op = "commit" => new.req = tx.req
<1>1. CASE tx \in OpenTx
  <2>1. new \in OpenTx
    BY <1>1 DEF OpenTx, RowWaits
  <2>2. /\ new.pc = pc /\ new.lock = lk /\ new.op = "open" /\ tx.op = "open" /\ new.key = tx.key
        /\ new.resume = tx.resume
    BY <1>1 DEF OpenTx
  <2> QED
    BY <2>1, <2>2 DEF Transaction
<1>2. CASE tx \in CommitTx
  <2>0. pc \in {"lockRow", "apply"}
    BY <1>2 DEF OpenTx, CommitTx
  <2>1. new \in CommitTx
    BY <1>2, <2>0 DEF CommitTx
  <2>2. /\ new.pc = pc /\ new.lock = lk /\ new.op = "commit" /\ tx.op = "commit" /\ new.key = tx.key
        /\ new.req = tx.req
    BY <1>2 DEF CommitTx
  <2> QED
    BY <2>1, <2>2 DEF Transaction
<1>3. CASE tx \in DeleteTx
  <2>0. pc \in {"lockRow", "apply"}
    BY <1>3 DEF OpenTx, DeleteTx
  <2>1. new \in DeleteTx
    BY <1>3, <2>0 DEF DeleteTx
  <2>2. new.pc = pc /\ new.lock = lk /\ new.op = "delete" /\ tx.op = "delete" /\ new.key = tx.key
    BY <1>3 DEF DeleteTx
  <2> QED
    BY <2>1, <2>2 DEF Transaction
<1> QED
  BY <1>1, <1>2, <1>3

\* A step that leaves the locks alone.
LEMMA RowTxLocks ==
  ASSUME NEW tx \in OpenTx \cup CommitTx \cup DeleteTx, NEW pc
  PROVE  [tx EXCEPT !.pc = pc] = [tx EXCEPT !.pc = pc, !.lock = tx.lock]
<1>1. CASE tx \in OpenTx
  BY <1>1 DEF OpenTx
<1>2. CASE tx \in CommitTx
  BY <1>2 DEF CommitTx
<1>3. CASE tx \in DeleteTx
  BY <1>3 DEF DeleteTx
<1> QED
  BY <1>1, <1>2, <1>3

\* What an open, a commit or a deletion has to keep when it locks a row or a slot.
LEMMA RowMoves ==
  ASSUME TxInv, NEW t \in Tx, txs[t] \in OpenTx \cup CommitTx \cup DeleteTx, NEW lk \in Locks,
         NEW pc \in {"apply"} \cup RowWaits,
         pc \in {"lockRow", "apply"} \/ txs[t] \in OpenTx,
         txs' = [txs EXCEPT ![t] = [txs[t] EXCEPT !.pc = pc, !.lock = lk]], UNCHANGED vars,
         lk.update = {},
         \A o \in lk.share : o \in txs[t].lock.share \/ SlotShareable(t, o),
         \/ pc # "apply" /\ lk.rows = {}
         \/ /\ pc = "apply" /\ lk.rows = {txs[t].key} /\ RowFree(t, txs[t].key)
            /\ \/ dbs[txs[t].key].status # "missing" /\ lk.row = dbs[txs[t].key]
               \/ /\ dbs[txs[t].key].status = "missing" /\ txs[t].op = "open"
                  /\ txs[t].resume = NoResume /\ \E p \in PageSize : lk.row = q!CreateDatabase(p)
  PROVE  \E new : Moved(t, new)
<1> DEFINE tx == txs[t]
           new == [tx EXCEPT !.pc = pc, !.lock = lk]
<1>1. /\ new \in Transaction /\ new.pc = pc /\ new.lock = lk
      /\ new.op = tx.op /\ new.op \in {"open", "commit", "delete"} /\ new.key = tx.key
      /\ tx.op = "open" => new.resume = tx.resume
      /\ tx.op = "commit" => new.req = tx.req
  BY RowTx
<1>2. txs' = [txs EXCEPT ![t] = new] /\ dbs' = dbs /\ slots' = slots
  BY DEF vars
<1> HIDE DEF new
<1>3. RowsOK(new, dbs)
  <2>1. CASE pc # "apply"
    BY <1>1, <2>1 DEF RowsOK, Sweeping, RowWaits
  <2>2. CASE pc = "apply"
    BY <1>1, <2>2 DEF RowsOK, Sweeping
  <2> QED
    BY <2>1, <2>2
<1>4. SlotsOK(new, slots)
  BY <1>1 DEF SlotsOK, RowWaits
<1>5. Took(t, new)
  BY <1>1 DEF Took
<1>6. CommitOK(tx, leases, applied) /\ \A u \in Tx : SameCommit(tx, txs[u])
  BY DEF TxInv
<1>7. CommitOK(new, leases, applied) /\ \A u \in Tx : SameCommit(new, txs[u])
  BY <1>1, <1>6 DEF CommitOK, SameCommit
<1>8. ChangesOK(new, dbs, life) /\ FetchOK(new, dbs, life, applied)
  BY <1>1 DEF ChangesOK, FetchOK
<1>9. Moved(t, new)
  BY <1>1, <1>2, <1>3, <1>4, <1>5, <1>7, <1>8 DEF Moved
<1> QED
  BY <1>9

\* SELECT ... FOR UPDATE of a database.
LEMMA LockMoves ==
  ASSUME StoreTypeOK, TxInv, NEW t \in Tx, txs[t].pc \in RowWaits, NEW missing,
         missing = "abort" \/ (missing = "insert" /\ txs[t].op = "open"),
         LockDatabase(t, "apply", missing)
  PROVE  \E new : Moved(t, new)
<1> DEFINE tx == txs[t]
           key == tx.key
<1>1. /\ tx \in Transaction /\ tx.lock \in Locks
      /\ tx \in OpenTx \cup CommitTx \cup DeleteTx
      /\ missing = "insert" => tx \in OpenTx
  BY ByPC, ByOp DEF TxInv, RowWaits
<1>2. key \in Key
  BY <1>1 DEF OpenTx, CommitTx, DeleteTx
<1>3. tx.lock.rows = {} /\ tx.lock.update = {}
  BY DEF TxInv, RowsOK, SlotsOK, RowWaits, Sweeping
<1>4. RowFree(t, key) /\ UNCHANGED vars
  BY DEF LockDatabase
<1>5. CASE dbs[key].status # "missing"
  <2> DEFINE lk == LockedRow(t)
  <2>1. lk \in Locks /\ lk.rows = {key} /\ lk.row = dbs[key] /\ lk.share = tx.lock.share /\ lk.update = {}
    BY <1>1, <1>2, <1>3 DEF LockedRow, Locks, q!LockDatabase, StoreTypeOK
  <2>2. txs' = [txs EXCEPT ![t] = [tx EXCEPT !.pc = "apply", !.lock = lk]]
    BY <1>5 DEF LockDatabase
  <2> HIDE DEF lk
  <2> QED
    BY <1>1, <1>4, <1>5, <2>1, <2>2, RowMoves
<1>6. CASE dbs[key].status = "missing" /\ missing = "abort"
  <2>1. Done(t)
    BY <1>6 DEF LockDatabase, Done
  <2> QED
    BY <2>1, DoneMoves
<1>7. CASE dbs[key].status = "missing" /\ missing = "insert"
  <2>1. txs' = [txs EXCEPT ![t] = [tx EXCEPT !.pc = "insert"]]
    BY <1>7 DEF LockDatabase
  <2>2. txs' = [txs EXCEPT ![t] = [tx EXCEPT !.pc = "insert", !.lock = tx.lock]]
    BY <1>1, <2>1, RowTxLocks
  <2> QED
    BY <1>1, <1>3, <1>4, <1>7, <2>2, RowMoves DEF RowWaits
<1> QED
  BY <1>5, <1>6, <1>7

\* SELECT ... FOR SHARE of the slot.
LEMMA ShareMoves ==
  ASSUME StoreTypeOK, TxInv, NEW t \in Tx, ShareSlot(t)
  PROVE  \E new : Moved(t, new)
<1> DEFINE tx == txs[t]
           o == OwnerIn(t)
<1>1. tx \in Transaction /\ tx \in OpenTx /\ tx.lock \in Locks
  BY ByPC, ByOp DEF TxInv, ShareSlot, At
<1>2. tx.lock.rows = {} /\ tx.lock.update = {} /\ tx.lock.share = {}
  BY DEF TxInv, RowsOK, SlotsOK, RowWaits, Sweeping, ShareSlot, At
<1>3. UNCHANGED vars /\ SlotShareable(t, o)
  BY DEF ShareSlot
<1>4. CASE q!ShareSlot(o) = NoSlot
  <2>1. txs' = [txs EXCEPT ![t] = [tx EXCEPT !.pc = "lockRow"]]
    BY <1>4 DEF ShareSlot
  <2>2. txs' = [txs EXCEPT ![t] = [tx EXCEPT !.pc = "lockRow", !.lock = tx.lock]]
    BY <1>1, <2>1, RowTxLocks
  <2> QED
    BY <1>1, <1>2, <1>3, <2>2, RowMoves DEF RowWaits
<1>5. CASE q!ShareSlot(o) # NoSlot /\ q!ShareSlot(o).subject = tx.subject
  <2> DEFINE lk == [tx.lock EXCEPT !.share = {o}]
  <2>1. o \in Owner
    BY <1>1, ConstantsAssumption DEF TxInv, SlotsOK, ShareSlot, At, OwnerIn, OpenTx
  <2>2. lk \in Locks /\ lk.rows = {} /\ lk.share = {o} /\ lk.update = {}
    BY <1>1, <1>2, <2>1 DEF Locks
  <2>3. txs' = [txs EXCEPT ![t] = [tx EXCEPT !.pc = "lockRow", !.lock = lk]]
    BY <1>5 DEF ShareSlot
  <2> HIDE DEF lk
  <2> QED
    BY <1>1, <1>3, <2>2, <2>3, RowMoves DEF RowWaits
<1>6. CASE q!ShareSlot(o) # NoSlot /\ q!ShareSlot(o).subject # tx.subject
  <2>1. Done(t)
    BY <1>6 DEF ShareSlot, Done
  <2> QED
    BY <2>1, DoneMoves
<1> QED
  BY <1>4, <1>5, <1>6

\* The row that Open inserts.
LEMMA CreatedRow ==
  ASSUME NEW p \in PageSize
  PROVE  /\ q!CreateDatabase(p) = [NoDatabase EXCEPT !.status = "live", !.pageSize = p]
         /\ q!CreateDatabase(p) \in Database
<1>1. q!CreateDatabase(p) = [NoDatabase EXCEPT !.status = "live", !.pageSize = p]
  BY DEF q!CreateDatabase
<1>2. NoDatabase \in Database
  BY SMTT(60) DEF NoDatabase, Database, NoBlocks, Data, Zero
<1>3. [NoDatabase EXCEPT !.status = "live", !.pageSize = p] \in Database
  BY <1>2 DEF Database
<1> QED
  BY <1>1, <1>3

\* INSERT of a database.
LEMMA CreateMoves ==
  ASSUME StoreTypeOK, TxInv, NEW t \in Tx, createDatabase(t)
  PROVE  \E new : Moved(t, new)
<1> DEFINE tx == txs[t]
           key == tx.key
<1>1. tx \in Transaction /\ tx \in OpenTx /\ tx.lock \in Locks
  BY ByPC, ByOp DEF TxInv, createDatabase, At
<1>2. tx.lock.rows = {} /\ tx.lock.update = {}
  BY DEF TxInv, RowsOK, SlotsOK, RowWaits, Sweeping, createDatabase, At
<1>3. UNCHANGED vars /\ RowFree(t, key)
  BY DEF createDatabase
<1>4. PICK req \in RequestIn(t) :
        txs' = [txs EXCEPT ![t] =
          IF ~req.create \/ req.resume # NoResume \/ req.pageSize \notin PageSize THEN Idle
          ELSE IF dbs[key].status # "missing" THEN [@ EXCEPT !.pc = "relock"]
          ELSE [@ EXCEPT !.pc = "apply", !.lock.rows = {key},
                         !.lock.row = q!CreateDatabase(req.pageSize)]]
  BY DEF createDatabase
<1>5. key \in Key /\ tx.op = "open"
  BY <1>1 DEF OpenTx
<1>6. CASE ~req.create \/ req.resume # NoResume \/ req.pageSize \notin PageSize
  <2>1. Done(t)
    BY <1>4, <1>6 DEF Done
  <2> QED
    BY <2>1, DoneMoves
<1>7. CASE ~(~req.create \/ req.resume # NoResume \/ req.pageSize \notin PageSize) /\ dbs[key].status # "missing"
  <2>1. txs' = [txs EXCEPT ![t] = [tx EXCEPT !.pc = "relock"]]
    BY <1>4, <1>7
  <2>2. txs' = [txs EXCEPT ![t] = [tx EXCEPT !.pc = "relock", !.lock = tx.lock]]
    BY <1>1, <2>1, RowTxLocks
  <2> QED
    BY <1>1, <1>2, <1>3, <2>2, RowMoves DEF RowWaits
<1>8. CASE ~(~req.create \/ req.resume # NoResume \/ req.pageSize \notin PageSize) /\ dbs[key].status = "missing"
  <2> DEFINE row == q!CreateDatabase(req.pageSize)
             lk == [tx.lock EXCEPT !.rows = {key}, !.row = row]
  <2>1. req.pageSize \in PageSize /\ tx.resume = NoResume
    BY <1>8 DEF RequestIn
  <2>2. row \in Database
    BY <2>1, CreatedRow
  <2>3. txs' = [txs EXCEPT ![t] = [tx EXCEPT !.pc = "apply", !.lock = lk]]
    BY <1>4, <1>8
  <2>4. \E p \in PageSize : row = q!CreateDatabase(p)
    BY <2>1
  <2> HIDE DEF row
  <2>5. lk \in Locks /\ lk.rows = {key} /\ lk.row = row /\ lk.share = tx.lock.share /\ lk.update = {}
    BY <1>1, <1>2, <1>5, <2>2 DEF Locks
  <2> HIDE DEF lk
  <2> QED
    BY <1>1, <1>3, <1>5, <1>8, <2>1, <2>3, <2>4, <2>5, RowMoves
<1> QED
  BY <1>6, <1>7, <1>8

\* A step of a transaction that is no commit and reads neither changes nor blocks.
LEMMA PlainMoves ==
  ASSUME NEW t \in Tx, NEW new \in Transaction, new.op \notin {"commit", "changes", "fetch"},
         txs' = [txs EXCEPT ![t] = new], RowsOK(new, dbs'), SlotsOK(new, slots'), Took(t, new)
  PROVE  Moved(t, new)
BY DEF Moved, CommitOK, SameCommit, ChangesOK, FetchOK

\* A step of the sweep.
SweepTo(tx, pc, lk, c) == [tx EXCEPT !.pc = pc, !.lock = lk, !.candidates = c]

\* It leaves a sweep with its cutoff.
LEMMA SweepTxNew ==
  ASSUME NEW tx \in SweepTx, NEW lk \in Locks, NEW c \in Seq(Key),
         NEW pc \in {"sweep", "failed"} \cup Sweeping
  PROVE  LET new == SweepTo(tx, pc, lk, c) IN
         /\ new \in Transaction /\ new.pc = pc /\ new.lock = lk /\ new.candidates = c
         /\ new.op = "sweep" /\ new.cutoff = tx.cutoff
<1> DEFINE new == SweepTo(tx, pc, lk, c)
<1>1. new \in SweepTx
  BY DEF SweepTx, Sweeping, SweepTo
<1>2. new.pc = pc /\ new.lock = lk /\ new.candidates = c /\ new.op = "sweep" /\ new.cutoff = tx.cutoff
  BY DEF SweepTx, SweepTo
<1> QED
  BY <1>1, <1>2 DEF Transaction

\* A step that leaves the locks or the candidates alone.
LEMMA SweepTxSame ==
  ASSUME NEW tx \in SweepTx
  PROVE  /\ \A pc : [tx EXCEPT !.pc = pc] = SweepTo(tx, pc, tx.lock, tx.candidates)
         /\ \A c : [tx EXCEPT !.candidates = c] = SweepTo(tx, tx.pc, tx.lock, c)
         /\ \A pc, lk : [tx EXCEPT !.pc = pc, !.lock = lk] = SweepTo(tx, pc, lk, tx.candidates)
BY DEF SweepTx, SweepTo

\* The sweep locks the next candidate, if it is still unused.
LEMMA SweepLockMoves ==
  ASSUME StoreTypeOK, TxInv, NEW t \in Tx, SweepLock(t)
  PROVE  \E new : Moved(t, new)
<1> DEFINE tx == txs[t]
           key == Head(tx.candidates)
<1>1. tx \in Transaction /\ tx \in SweepTx /\ tx.lock \in Locks /\ tx.pc = "sweep"
  BY ByPC, ByOp DEF TxInv, SweepLock, At
<1>2. tx.lock.rows = {} /\ tx.lock.update = {} /\ tx.lock.share = {}
  BY DEF TxInv, RowsOK, SlotsOK, RowWaits, Sweeping, SweepLock, At
<1>3. dbs' = dbs /\ slots' = slots /\ RowFree(t, key) /\ tx.candidates # <<>>
  BY DEF SweepLock, vars
<1>4. tx.candidates \in Seq(Key) /\ tx.cutoff \in Nat
  BY <1>1 DEF SweepTx
<1>5. key \in Key /\ Tail(tx.candidates) \in Seq(Key)
  BY SMTT(60), <1>3, <1>4
<1>6. dbs[key] \in Database
  BY <1>5 DEF StoreTypeOK
<1> HIDE DEF key
<1>7. CASE dbs[key].status = "missing"
  <2> DEFINE new == SweepTo(tx, "failed", tx.lock, tx.candidates)
  <2>1. txs' = [txs EXCEPT ![t] = new]
    BY <1>1, <1>7, SweepTxSame DEF SweepLock, key
  <2>2. new \in Transaction /\ new.pc = "failed" /\ new.lock = tx.lock /\ new.op = "sweep"
    BY SMTT(60), <1>1, <1>4, SweepTxNew
  <2> HIDE DEF new
  <2>3. RowsOK(new, dbs') /\ SlotsOK(new, slots') /\ Took(t, new)
    BY <1>2, <2>2 DEF RowsOK, SlotsOK, Took, Sweeping, RowWaits
  <2> QED
    BY <2>1, <2>2, <2>3, PlainMoves
<1>8. CASE dbs[key].status # "missing" /\ (dbs[key].status = "deleted" \/ dbs[key].expires >= tx.cutoff)
  <2> DEFINE c == Tail(tx.candidates)
             new == SweepTo(tx, "sweep", tx.lock, c)
  <2>1. txs' = [txs EXCEPT ![t] = [tx EXCEPT !.candidates = c]]
    BY <1>8 DEF SweepLock, key
  <2>0. c \in Seq(Key)
    BY <1>5
  <2> HIDE DEF c
  <2>2. txs' = [txs EXCEPT ![t] = new]
    BY <1>1, <2>1 DEF SweepTx, SweepTo
  <2>3. new \in Transaction /\ new.pc = "sweep" /\ new.lock = tx.lock /\ new.op = "sweep"
    BY SMTT(60), <1>1, <2>0, SweepTxNew
  <2> HIDE DEF new
  <2>4. RowsOK(new, dbs') /\ SlotsOK(new, slots') /\ Took(t, new)
    BY <1>2, <2>3 DEF RowsOK, SlotsOK, Took, Sweeping, RowWaits
  <2> QED
    BY <2>2, <2>3, <2>4, PlainMoves
<1>9. CASE ~(dbs[key].status = "missing") /\ ~(dbs[key].status = "deleted" \/ dbs[key].expires >= tx.cutoff)
  <2> DEFINE lk == [tx.lock EXCEPT !.rows = {key}]
             new == SweepTo(tx, "holdsSlot", lk, tx.candidates)
  <2>1. txs' = [txs EXCEPT ![t] = [tx EXCEPT !.pc = "holdsSlot", !.lock = lk]]
    BY <1>9 DEF SweepLock, key
  <2>2. lk \in Locks /\ lk.rows = {key} /\ lk.share = {} /\ lk.update = {}
    BY <1>1, <1>2, <1>5 DEF Locks
  <2> HIDE DEF lk
  <2>3. txs' = [txs EXCEPT ![t] = new]
    BY <1>1, <2>1, SweepTxSame
  <2>4. /\ new \in Transaction /\ new.pc = "holdsSlot" /\ new.lock = lk /\ new.op = "sweep"
        /\ new.candidates = tx.candidates /\ new.cutoff = tx.cutoff
    BY SMTT(60), <1>1, <1>4, <2>2, SweepTxNew DEF Sweeping
  <2> HIDE DEF new
  <2>5. dbs[key].status = "live" /\ dbs[key].expires < tx.cutoff
    BY SMTT(60), <1>4, <1>6, <1>9 DEF Database
  <2>6. RowsOK(new, dbs')
    BY <1>3, <2>2, <2>4, <2>5 DEF RowsOK, Sweeping, key
  <2>7. SlotsOK(new, slots') /\ Took(t, new)
    BY <1>3, <2>2, <2>4 DEF SlotsOK, Took, RowWaits
  <2> QED
    BY <2>3, <2>4, <2>6, <2>7, PlainMoves
<1> QED
  BY <1>7, <1>8, <1>9

\* The sweep looks whether the subject holds a slot, and keeps its lock.
LEMMA HoldsMoves ==
  ASSUME StoreTypeOK, TxInv, NEW t \in Tx, HoldsSlot(t)
  PROVE  \E new : Moved(t, new)
<1> DEFINE tx == txs[t]
<1>1. tx \in Transaction /\ tx \in SweepTx /\ tx.lock \in Locks /\ tx.pc = "holdsSlot"
  BY ByPC, ByOp DEF TxInv, HoldsSlot, At, Sweeping
<1>2. tx.candidates \in Seq(Key) /\ dbs' = dbs /\ slots' = slots
  BY <1>1 DEF SweepTx, HoldsSlot, vars
<1>3. PICK pc \in {"sweepPurge", "sweepRemove"} : txs' = [txs EXCEPT ![t] = [tx EXCEPT !.pc = pc]]
  BY DEF HoldsSlot, Goto
<1> DEFINE new == SweepTo(tx, pc, tx.lock, tx.candidates)
<1>4. txs' = [txs EXCEPT ![t] = new]
  BY <1>1, <1>3, SweepTxSame
<1>5. /\ new \in Transaction /\ new.pc = pc /\ new.lock = tx.lock /\ new.op = "sweep"
      /\ new.candidates = tx.candidates /\ new.cutoff = tx.cutoff
  BY SMTT(60), <1>1, <1>2, SweepTxNew DEF Sweeping
<1> HIDE DEF new
<1>6. RowsOK(tx, dbs) /\ SlotsOK(tx, slots)
  BY DEF TxInv
<1>7. RowsOK(new, dbs')
  BY <1>1, <1>2, <1>5, <1>6 DEF RowsOK, Sweeping
<1>8. SlotsOK(new, slots') /\ Took(t, new)
  BY <1>1, <1>2, <1>5, <1>6 DEF SlotsOK, Took, RowWaits
<1> QED
  BY <1>4, <1>5, <1>7, <1>8, PlainMoves

\* The sweep commits the deletion of a database and goes on with the next.
LEMMA SweepCommitMoves ==
  ASSUME StoreTypeOK, TxInv, NEW t \in Tx, SweepCommit(t)
  PROVE  \E new : Moved(t, new)
<1> DEFINE tx == txs[t]
           c == Tail(tx.candidates)
           new == SweepTo(tx, "sweep", Unlocked, c)
<1>1. tx \in Transaction /\ tx \in SweepTx /\ tx.pc \in Sweeping
  BY ByPC, ByOp DEF TxInv, SweepCommit, Sweeping
<1>2. tx.candidates \in Seq(Key) /\ tx.candidates # <<>>
  BY <1>1 DEF SweepTx, TxInv, RowsOK
<1>3. c \in Seq(Key)
  BY SMTT(60), <1>2
<1>4. txs' = [txs EXCEPT ![t] = new]
  BY DEF SweepCommit, SweepTo
<1> HIDE DEF c
<1>5. new \in Transaction /\ new.pc = "sweep" /\ new.lock = Unlocked /\ new.op = "sweep"
  BY SMTT(60), <1>1, <1>3, UnlockedType, SweepTxNew
<1> HIDE DEF new
<1> QED
  BY <1>4, <1>5, PlainBegin DEF Sweeping

\* ReleaseUnusedSlots.
LEMMA ReleaseBeginMoves ==
  ASSUME StoreTypeOK, TxInv, NEW t \in Tx, ReleaseBegin(t)
  PROVE  \E new : Moved(t, new)
<1> DEFINE tx == txs[t]
           used == {s \in Subject : hasDatabases(dbs, s)}
           owners == {o \in Owner : slots[o] # NoSlot}
           new == [pc |-> "release", op |-> "sweep", lock |-> Unlocked, cutoff |-> tx.cutoff,
                   used |-> used, owners |-> owners]
<1>1. tx.cutoff \in Nat
  BY SMTT(60), ByPC DEF TxInv, ReleaseBegin, At, SweepTx
<1>2. txs' = [txs EXCEPT ![t] = new]
  BY DEF ReleaseBegin
<1>3. used \in SUBSET Subject /\ owners \in SUBSET Owner
  OBVIOUS
<1> HIDE DEF used, owners
<1>4. new \in ReleaseTx /\ new.pc = "release" /\ new.lock = Unlocked /\ new.op = "sweep"
  BY <1>1, <1>3, UnlockedType DEF ReleaseTx
<1> HIDE DEF new
<1> QED
  BY <1>2, <1>4, PlainBegin DEF Sweeping, Transaction

\* The release of an owner's slot after the sweep.
LEMMA ReleaseMoves ==
  ASSUME StoreTypeOK, TxInv, NEW t \in Tx, ReleaseSlot(t)
  PROVE  \E new : Moved(t, new)
<1> DEFINE tx == txs[t]
<1>1. tx \in Transaction /\ tx \in ReleaseTx /\ tx.lock \in Locks /\ tx.pc = "release"
  BY ByPC, ByOp DEF TxInv, ReleaseSlot, At
<1>2. tx.lock.rows = {} /\ tx.lock.share = {} /\ tx.lock.update \cap tx.owners = {}
  BY <1>1 DEF TxInv, RowsOK, SlotsOK, Sweeping
<1>3. CASE Done(t)
  BY <1>3, DoneMoves
<1>4. CASE ~Done(t)
  <2>0. PICK o \in tx.owners :
          /\ SlotFree(t, o)
          /\ txs' = [txs EXCEPT ![t] =
               [tx EXCEPT !.owners = @ \ {o},
                          !.lock.update =
                            IF slots[o] # NoSlot /\ q!ReleaseUnusedSlots(slots[o], tx.cutoff, tx.used) = NoSlot
                            THEN @ \cup {o} ELSE @]]
    BY <1>4 DEF ReleaseSlot
  <2>1. PICK held \in {tx.lock.update, tx.lock.update \cup {o}} :
          txs' = [txs EXCEPT ![t] = [tx EXCEPT !.owners = tx.owners \ {o}, !.lock.update = held]]
    BY <2>0
  <2> DEFINE lk == [tx.lock EXCEPT !.update = held]
             left == tx.owners \ {o}
             new == [tx EXCEPT !.owners = left, !.lock = lk]
  <2>2. o \in Owner /\ left \in SUBSET Owner
    BY <1>1 DEF ReleaseTx
  <2>3. lk \in Locks /\ lk.rows = {} /\ lk.share = {} /\ lk.update = held
    BY <1>1, <1>2, <2>2 DEF Locks
  <2>4. txs' = [txs EXCEPT ![t] = new]
    BY <2>1
  <2>5. held \cap left = {}
    BY <1>2
  <2>6. \A x \in held : x \in tx.lock.update \/ SlotFree(t, x)
    BY <2>0, <2>1
  <2> HIDE DEF lk, left
  <2>7. new \in ReleaseTx
    BY <1>1, <2>2, <2>3 DEF ReleaseTx
  <2>8. new.pc = "release" /\ new.op = "sweep" /\ new.lock = lk /\ new.owners = left
    BY <1>1 DEF ReleaseTx
  <2> HIDE DEF new
  <2>9. RowsOK(new, dbs') /\ SlotsOK(new, slots') /\ Took(t, new)
    BY <2>3, <2>5, <2>6, <2>8 DEF RowsOK, SlotsOK, Took, Sweeping, RowWaits
  <2> QED
    BY <2>4, <2>7, <2>8, <2>9, PlainMoves DEF Transaction
<1> QED
  BY <1>3, <1>4

-----------------------------------------------------------------------------
(* Claims and deletions of slots *)

\* A step of a claim or of the deletion of a slot.
SlotTo(tx, pc, lk, victim, rest) ==
  [tx EXCEPT !.pc = pc, !.lock = lk, !.victim = victim, !.rest = rest]

\* It leaves a transaction of a slot with its subject.
LEMMA SlotTxNew ==
  ASSUME NEW tx \in SlotTx, NEW lk \in Locks, NEW pc \in {"relockSlot", "insertSlot", "purge"},
         NEW victim \in Subject \cup {None}, NEW rest \in SUBSET DOMAIN ScanOrder
  PROVE  LET new == SlotTo(tx, pc, lk, victim, rest) IN
         /\ new \in Transaction /\ new.pc = pc /\ new.lock = lk /\ new.victim = victim /\ new.rest = rest
         /\ new.op = tx.op /\ new.op \in {"claim", "deleteSlot"} /\ new.subject = tx.subject
<1> DEFINE new == SlotTo(tx, pc, lk, victim, rest)
<1>1. new \in SlotTx
  BY DEF SlotTx, SlotTo
<1>2. /\ new.pc = pc /\ new.lock = lk /\ new.victim = victim /\ new.rest = rest
      /\ new.op = tx.op /\ new.op \in {"claim", "deleteSlot"} /\ new.subject = tx.subject
  BY DEF SlotTx, SlotTo
<1> QED
  BY <1>1, <1>2 DEF Transaction

\* A step that leaves most of it alone.
LEMMA SlotTxSame ==
  ASSUME NEW tx \in SlotTx
  PROVE  /\ \A pc : [tx EXCEPT !.pc = pc] = SlotTo(tx, pc, tx.lock, tx.victim, tx.rest)
         /\ \A lk, rest : [tx EXCEPT !.lock = lk, !.rest = rest] = SlotTo(tx, tx.pc, lk, tx.victim, rest)
BY DEF SlotTx, SlotTo

\* A transaction on a slot that goes on to another statement without a lock.
LEMMA SlotGoes ==
  ASSUME TxInv, NEW t \in Tx, txs[t].pc \in {"lockSlot", "relockSlot", "insertSlot"},
         NEW pc \in {"relockSlot", "insertSlot"},
         txs' = [txs EXCEPT ![t] = [txs[t] EXCEPT !.pc = pc]]
  PROVE  \E new : Moved(t, new)
<1> DEFINE tx == txs[t]
           new == SlotTo(tx, pc, tx.lock, tx.victim, tx.rest)
<1>1. tx \in Transaction /\ tx \in SlotTx /\ tx.lock \in Locks
  BY ByPC, ByOp DEF TxInv
<1>2. tx.lock.rows = {} /\ tx.lock.update = {} /\ tx.lock.share = {}
  BY DEF TxInv, RowsOK, SlotsOK, RowWaits, Sweeping
<1>3. txs' = [txs EXCEPT ![t] = new]
  BY <1>1, SlotTxSame
<1>4. tx.victim \in Subject \cup {None} /\ tx.rest \in SUBSET DOMAIN ScanOrder
  BY <1>1 DEF SlotTx
<1>5. new \in Transaction /\ new.pc = pc /\ new.lock = tx.lock /\ new.op \in {"claim", "deleteSlot"}
  BY SMTT(60), <1>1, <1>4, SlotTxNew
<1> HIDE DEF new
<1>6. RowsOK(new, dbs') /\ SlotsOK(new, slots') /\ Took(t, new)
  BY <1>2, <1>5 DEF RowsOK, SlotsOK, Took, RowWaits, Sweeping
<1> QED
  BY <1>3, <1>5, <1>6, PlainMoves

\* A transaction on a slot that begins a purge, with or without a lock on the slot.
LEMMA PurgeBegins ==
  ASSUME TxInv, NEW t \in Tx, txs[t].pc \in {"lockSlot", "relockSlot"}, UNCHANGED vars,
         NEW victim \in Subject, SlotFree(t, OwnerIn(t)),
         \/ /\ txs' = [txs EXCEPT ![t] = PurgeSubject(SlotLocked(t), victim)]
            /\ txs[t].op = "claim" => slots[OwnerIn(t)].subject # None
         \/ txs[t].op = "deleteSlot" /\ txs' = [txs EXCEPT ![t] = PurgeSubject(txs[t], victim)]
  PROVE  \E new : Moved(t, new)
<1> DEFINE tx == txs[t]
           o == OwnerIn(t)
           rest == {i \in DOMAIN ScanOrder : <<victim, ScanOrder[i]>> \in q!PurgeSubject(victim)}
<1>1. tx \in Transaction /\ tx \in SlotTx /\ tx.lock \in Locks
  BY ByPC, ByOp DEF TxInv
<1>2. tx.lock.rows = {} /\ tx.lock.update = {} /\ tx.lock.share = {}
  BY DEF TxInv, RowsOK, SlotsOK, RowWaits, Sweeping
<1>3. o \in Owner
  BY <1>1, ConstantsAssumption DEF SlotTx, OwnerIn
<1>4. rest \in SUBSET DOMAIN ScanOrder /\ slots' = slots
  BY DEF vars
<1>5. PICK lk \in Locks :
        /\ txs' = [txs EXCEPT ![t] = SlotTo(tx, "purge", lk, victim, rest)]
        /\ lk.rows = {} /\ lk.share = {} /\ lk.update \in {{}, {o}}
        /\ tx.op = "claim" => lk.update = {o} /\ slots[o].subject # None
  <2>1. CASE txs' = [txs EXCEPT ![t] = PurgeSubject(SlotLocked(t), victim)]
             /\ (tx.op = "claim" => slots[o].subject # None)
    <3> DEFINE lk == [tx.lock EXCEPT !.update = {o}]
    <3>1. lk \in Locks /\ lk.rows = {} /\ lk.share = {} /\ lk.update = {o}
      BY <1>1, <1>2, <1>3 DEF Locks
    <3> HIDE DEF rest
    <3>2. SlotLocked(t) = [tx EXCEPT !.lock = lk]
      BY DEF SlotLocked
    <3> HIDE DEF lk
    <3>3. PurgeSubject(SlotLocked(t), victim) =
            [[tx EXCEPT !.lock = lk] EXCEPT !.pc = "purge", !.victim = victim, !.rest = rest]
      BY <3>2 DEF PurgeSubject, rest
    <3>4. [[tx EXCEPT !.lock = lk] EXCEPT !.pc = "purge", !.victim = victim, !.rest = rest] =
            SlotTo(tx, "purge", lk, victim, rest)
      BY <1>1 DEF SlotTx, SlotTo
    <3> QED
      BY <2>1, <3>1, <3>3, <3>4
  <2>2. CASE txs[t].op = "deleteSlot" /\ txs' = [txs EXCEPT ![t] = PurgeSubject(tx, victim)]
    <3> HIDE DEF rest
    <3>1. PurgeSubject(tx, victim) = [tx EXCEPT !.pc = "purge", !.victim = victim, !.rest = rest]
      BY DEF PurgeSubject, rest
    <3>2. PurgeSubject(tx, victim) = SlotTo(tx, "purge", tx.lock, victim, rest)
      BY <1>1, <3>1 DEF SlotTx, SlotTo
    <3> QED
      BY <1>1, <1>2, <2>2, <3>2
  <2> QED
    BY <2>1, <2>2
<1> HIDE DEF rest
<1> DEFINE new == SlotTo(tx, "purge", lk, victim, rest)
<1>6. /\ new \in Transaction /\ new.pc = "purge" /\ new.lock = lk /\ new.victim = victim
      /\ new.op = tx.op /\ new.op \in {"claim", "deleteSlot"} /\ new.subject = tx.subject
  BY SMTT(60), <1>1, <1>4, <1>5, SlotTxNew
<1>7. txs' = [txs EXCEPT ![t] = new]
  BY <1>5
<1> HIDE DEF new
<1>8. RowsOK(new, dbs')
  BY <1>5, <1>6 DEF RowsOK, Sweeping
<1>9. SlotsOK(new, slots')
  BY <1>4, <1>5, <1>6 DEF SlotsOK, RowWaits, OwnerIn
<1>10. Took(t, new)
  BY <1>5, <1>6 DEF Took
<1> QED
  BY <1>6, <1>7, <1>8, <1>9, <1>10, PlainMoves

\* A claim locks the slot.
LEMMA ClaimMoves ==
  ASSUME StoreTypeOK, TxInv, NEW t \in Tx, ClaimLock(t)
  PROVE  \E new : Moved(t, new)
<1> DEFINE tx == txs[t]
           o == OwnerIn(t)
           slot == slots[o]
<1>1. tx.pc \in {"lockSlot", "relockSlot"} /\ SlotFree(t, o) /\ UNCHANGED vars /\ tx.op = "claim"
  BY DEF ClaimLock
<1>2. o \in Owner
  BY SMTT(60), <1>1, ByPC, ConstantsAssumption DEF TxInv, SlotTx, OwnerIn
<1>3. CASE slot = NoSlot /\ tx.pc = "lockSlot"
  <2>1. txs' = [txs EXCEPT ![t] = [tx EXCEPT !.pc = "insertSlot"]]
    BY <1>3 DEF ClaimLock, q!LockSlot
  <2> QED
    BY <1>1, <2>1, SlotGoes
<1>4. CASE (slot = NoSlot /\ tx.pc # "lockSlot") \/ (slot # NoSlot /\ slot.subject = tx.subject)
  <2>1. Done(t)
    BY <1>4 DEF ClaimLock, q!LockSlot, Done
  <2> QED
    BY <2>1, DoneMoves
<1>5. CASE slot # NoSlot /\ slot.subject # tx.subject
  <2>1. txs' = [txs EXCEPT ![t] = PurgeSubject(SlotLocked(t), slot.subject)]
    BY <1>5 DEF ClaimLock, q!LockSlot
  <2>2. slot.subject \in Subject /\ slot.subject # None
    BY <1>2, <1>5 DEF StoreTypeOK, Slot, TxInv
  <2> QED
    BY <1>1, <2>1, <2>2, PurgeBegins
<1> QED
  BY <1>3, <1>4, <1>5

\* DeleteSlot locks the slot.
LEMMA DeleteSlotMoves ==
  ASSUME StoreTypeOK, TxInv, NEW t \in Tx, DeleteSlotLock(t)
  PROVE  \E new : Moved(t, new)
<1> DEFINE tx == txs[t]
           o == OwnerIn(t)
           slot == slots[o]
<1>1. tx.pc = "lockSlot" /\ SlotFree(t, o) /\ UNCHANGED vars /\ tx.op = "deleteSlot"
  BY DEF DeleteSlotLock
<1>2. tx.subject \in Subject
  BY SMTT(60), <1>1, ByPC DEF TxInv, SlotTx
<1>3. CASE slot = NoSlot
  <2>1. txs' = [txs EXCEPT ![t] = PurgeSubject(tx, tx.subject)]
    BY <1>3 DEF DeleteSlotLock, q!LockSlot
  <2> QED
    BY <1>1, <1>2, <2>1, PurgeBegins
<1>4. CASE slot # NoSlot /\ slot.subject # tx.subject
  <2>1. Done(t)
    BY <1>4 DEF DeleteSlotLock, q!LockSlot, Done
  <2> QED
    BY <2>1, DoneMoves
<1>5. CASE slot # NoSlot /\ slot.subject = tx.subject
  <2>1. txs' = [txs EXCEPT ![t] = PurgeSubject(SlotLocked(t), tx.subject)]
    BY <1>5 DEF DeleteSlotLock, q!LockSlot
  <2> QED
    BY <1>1, <1>2, <2>1, PurgeBegins
<1> QED
  BY <1>3, <1>4, <1>5

\* A purge locks the next row.
LEMMA PurgeMoves ==
  ASSUME StoreTypeOK, TxInv, NEW t \in Tx, PurgeLock(t)
  PROVE  \E new : Moved(t, new)
<1> DEFINE tx == txs[t]
<1>1. tx \in Transaction /\ tx \in SlotTx /\ tx.lock \in Locks /\ tx.pc = "purge"
  BY ByPC, ByOp DEF TxInv, PurgeLock, At
<1>2. RowsOK(tx, dbs) /\ SlotsOK(tx, slots)
  BY DEF TxInv
<1>3. dbs' = dbs /\ slots' = slots
  BY DEF PurgeLock, vars
<1>4. PICK i \in tx.rest :
        /\ VisitsNext(t, i) /\ RowFree(t, RowAt(t, i))
        /\ txs' = [txs EXCEPT ![t] =
             [tx EXCEPT !.rest = @ \ {i},
                        !.lock.rows = IF dbs[RowAt(t, i)].status = "missing" THEN @
                                      ELSE @ \cup {RowAt(t, i)}]]
  BY DEF PurgeLock
<1> DEFINE k == RowAt(t, i)
           rows == IF dbs[k].status = "missing" THEN tx.lock.rows ELSE tx.lock.rows \cup {k}
           lk == [tx.lock EXCEPT !.rows = rows]
           rest == tx.rest \ {i}
           new == SlotTo(tx, "purge", lk, tx.victim, rest)
<1>5. tx.victim \in Subject /\ tx.lock.share = {}
  BY <1>1, <1>2 DEF SlotsOK
<1>6. i \in DOMAIN ScanOrder /\ rest \in SUBSET DOMAIN ScanOrder /\ tx.rest \subseteq DOMAIN ScanOrder
  BY <1>1 DEF SlotTx
<1>7. k = <<tx.victim, ScanOrder[i]>> /\ k \in Key
  BY SMTT(60), <1>5, <1>6, PostgresAssumption DEF RowAt, Key
<1>8. i \in Nat /\ \A j \in tx.rest : j \in Nat /\ i <= j
  BY SMTT(60), <1>4, <1>6, PostgresAssumption DEF VisitsNext
<1> HIDE DEF k
<1>9. lk \in Locks /\ lk.rows = rows /\ lk.share = {} /\ lk.update = tx.lock.update
  BY <1>1, <1>5, <1>7 DEF Locks
<1>10. \A x \in rows : x \in tx.lock.rows \/ x = k
  OBVIOUS
<1>11. txs' = [txs EXCEPT ![t] = [tx EXCEPT !.rest = rest, !.lock = lk]]
  BY <1>4 DEF k
<1>12. \A j \in rest : i < j
  BY SMTT(60), <1>8
<1>13. \A x \in tx.lock.rows : \E n \in DOMAIN ScanOrder :
         x = <<tx.victim, ScanOrder[n]>> /\ \A j \in rest : n < j
  BY <1>1, <1>2 DEF RowsOK
<1> HIDE DEF lk, rows, rest
<1>14. [tx EXCEPT !.rest = rest, !.lock = lk] = new
  BY <1>1 DEF SlotTx, SlotTo
<1>15. txs' = [txs EXCEPT ![t] = new]
  BY <1>11, <1>14
<1>16. /\ new \in Transaction /\ new.pc = "purge" /\ new.lock = lk /\ new.victim = tx.victim
       /\ new.rest = rest /\ new.op = tx.op /\ new.op \in {"claim", "deleteSlot"}
       /\ new.subject = tx.subject
  <2>1. tx.victim \in Subject \cup {None} /\ "purge" \in {"relockSlot", "insertSlot", "purge"}
    BY <1>5
  <2>2. tx \in SlotTx /\ lk \in Locks /\ rest \in SUBSET DOMAIN ScanOrder
    BY <1>1, <1>6, <1>9
  <2> QED
    BY SMTT(60), <2>1, <2>2, SlotTxNew
<1> HIDE DEF new
<1>17. \A x \in new.lock.rows : \E n \in DOMAIN ScanOrder :
         x = <<new.victim, ScanOrder[n]>> /\ \A j \in new.rest : n < j
  BY <1>6, <1>7, <1>9, <1>10, <1>12, <1>13, <1>16
<1>18. RowsOK(new, dbs')
  BY <1>16, <1>17 DEF RowsOK, Sweeping
<1>19. SlotsOK(new, slots')
  BY <1>1, <1>2, <1>3, <1>9, <1>16 DEF SlotsOK, RowWaits
<1>20. Took(t, new)
  BY <1>4, <1>9, <1>10, <1>16 DEF Took, k
<1> QED
  BY <1>15, <1>16, <1>18, <1>19, <1>20, PlainMoves

-----------------------------------------------------------------------------
(* Changes *)

\* A step of Changes.
ChangesTo(tx, pc, complete, blocks) == [tx EXCEPT !.pc = pc, !.complete = complete, !.blocks = blocks]

\* It leaves Changes with its key and its version.
LEMMA ChangesTxNew ==
  ASSUME NEW tx \in ChangesTx, NEW pc \in {"since", "changes"}, NEW complete \in BOOLEAN,
         NEW blocks \in SUBSET Nat
  PROVE  LET new == ChangesTo(tx, pc, complete, blocks) IN
         /\ new \in Transaction /\ new.pc = pc /\ new.complete = complete /\ new.blocks = blocks
         /\ new.op = "changes" /\ new.lock = tx.lock /\ new.key = tx.key /\ new.from = tx.from
         /\ new.life = tx.life /\ new.to = tx.to
<1> DEFINE new == ChangesTo(tx, pc, complete, blocks)
<1>1. new \in ChangesTx
  BY DEF ChangesTx, ChangesTo
<1>2. /\ new.pc = pc /\ new.complete = complete /\ new.blocks = blocks
      /\ new.op = "changes" /\ new.lock = tx.lock /\ new.key = tx.key /\ new.from = tx.from
      /\ new.life = tx.life /\ new.to = tx.to
  BY DEF ChangesTx, ChangesTo
<1> QED
  BY <1>1, <1>2 DEF Transaction

\* What such a step has to keep.
LEMMA ChangesMoves ==
  ASSUME TxInv, NEW t \in Tx, txs[t].pc \in {"oldest", "since"}, NEW pc \in {"since", "changes"},
         NEW complete \in BOOLEAN, NEW blocks \in SUBSET Nat, UNCHANGED vars,
         txs' = [txs EXCEPT ![t] = ChangesTo(txs[t], pc, complete, blocks)],
         LET tx == txs[t]
             db == dbs[tx.key] IN
         tx.life = life[tx.key] /\ tx.to = db.version =>
           /\ pc = "since" => complete = TRUE /\ blocks = {} /\ LogReaches(db, tx.from)
           /\ pc = "changes" => [complete |-> complete, blocks |-> blocks] = Changes(db, tx.from)
  PROVE  \E new : Moved(t, new)
<1> DEFINE tx == txs[t]
           new == ChangesTo(tx, pc, complete, blocks)
<1>0. tx \in Transaction
  BY DEF TxInv
<1>1. tx \in Transaction /\ tx \in ChangesTx /\ tx.op = "changes"
  <2>1. tx \in ChangesTx
    BY <1>0, ByPC
  <2> QED
    BY <1>0, <2>1 DEF ChangesTx
<1>2. tx.lock.rows = {} /\ tx.lock.update = {} /\ tx.lock.share = {}
  BY DEF TxInv, RowsOK, SlotsOK, RowWaits, Sweeping
<1>3. ChangesOK(tx, dbs, life)
  BY DEF TxInv
<1>4. /\ new \in Transaction /\ new.pc = pc /\ new.complete = complete /\ new.blocks = blocks
      /\ new.op = "changes" /\ new.lock = tx.lock /\ new.key = tx.key /\ new.from = tx.from
      /\ new.life = tx.life /\ new.to = tx.to
  BY SMTT(60), <1>1, ChangesTxNew
<1>5. txs' = [txs EXCEPT ![t] = new]
  OBVIOUS
<1> HIDE DEF new
<1>6. RowsOK(new, dbs') /\ SlotsOK(new, slots') /\ Took(t, new)
  BY <1>2, <1>4 DEF RowsOK, SlotsOK, Took, Sweeping, RowWaits
<1>7. tx.life = life[tx.key] /\ tx.to = dbs[tx.key].version => tx.from # tx.to
  BY <1>1, <1>3 DEF ChangesOK
<1>8. /\ tx.life <= life[tx.key]
      /\ tx.life = life[tx.key] => tx.to <= dbs[tx.key].version
  BY <1>1, <1>3 DEF ChangesOK
<1>9. ChangesOK(new, dbs, life)
  BY <1>4, <1>7, <1>8 DEF ChangesOK
<1>10. CommitOK(new, leases, applied) /\ FetchOK(new, dbs, life, applied) /\ \A u \in Tx : SameCommit(new, txs[u])
  BY <1>4 DEF CommitOK, FetchOK, SameCommit
<1>11. Moved(t, new)
  BY <1>4, <1>5, <1>6, <1>9, <1>10 DEF Moved
<1> QED
  BY <1>11

\* The second statement of Changes: does the log reach back?
LEMMA OldestMoves ==
  ASSUME StoreTypeOK, TxInv, \A k \in Key : LogOK(dbs[k]) /\ LogFits(dbs[k]), NEW t \in Tx, OldestChange(t)
  PROVE  \E new : Moved(t, new)
<1> DEFINE tx == txs[t]
           db == dbs[tx.key]
           oldest == q!OldestChange(tx.key)
<1>1. tx \in Transaction /\ tx \in ChangesTx /\ tx.op = "changes" /\ tx.pc = "oldest" /\ UNCHANGED vars
  BY SMTT(60), ByPC DEF TxInv, ChangesTx, OldestChange, At
<1>2. tx.key \in Key /\ tx.from \in Nat /\ tx.blocks \in SUBSET Nat /\ tx.complete \in BOOLEAN
  BY <1>1 DEF ChangesTx
<1>3. db \in Database /\ LogOK(db) /\ LogFits(db)
  BY <1>2 DEF StoreTypeOK
<1>4. db.changes \in Seq(Entry) /\ db.version \in Nat
  BY <1>3 DEF Database
<1>5. LogReaches(db, tx.from) <=> ~(oldest = 0 \/ oldest > tx.from + 1)
  <2>1. CASE db.changes = <<>>
    BY <2>1 DEF LogReaches, q!OldestChange
  <2>2. CASE db.changes # <<>>
    <3>1. Len(db.changes) \in Nat \ {0} /\ db.changes[1].version = db.version - Len(db.changes) + 1
      BY SMTT(60), <1>3, <1>4, <2>2 DEF LogOK
    <3>2. oldest = db.changes[1].version
      BY <2>2 DEF q!OldestChange
    <3>4. db.changes[1].version \in Nat \ {0}
      <4> DEFINE n == Len(db.changes)
                 v == db.version
                 e == db.changes[1].version
      <4>1. n \in Nat \ {0} /\ v \in Nat /\ n <= v /\ e = v - n + 1
        BY <1>3, <1>4, <3>1 DEF LogFits
      <4> HIDE DEF n, v, e
      <4>2. e \in Nat \ {0}
        BY SMTT(60), <4>1
      <4> QED
        BY <4>2 DEF e
    <3>3. LogReaches(db, tx.from) <=> db.changes[1].version <= tx.from + 1
      BY <2>2 DEF LogReaches
    <3> HIDE DEF oldest
    <3> QED
      BY <1>2, <3>2, <3>3, <3>4, NotPast
  <2> QED
    BY <2>1, <2>2
<1>6. /\ tx.life = life[tx.key] /\ tx.to = db.version =>
           tx.from # db.version /\ tx.complete = TRUE /\ tx.blocks = {}
  BY <1>1, <1>2 DEF TxInv, ChangesOK
<1>7. CASE LogReaches(db, tx.from)
  <2>1. txs' = [txs EXCEPT ![t] = [tx EXCEPT !.pc = "since"]]
    BY <1>5, <1>7 DEF OldestChange
  <2>2. txs' = [txs EXCEPT ![t] = ChangesTo(tx, "since", tx.complete, tx.blocks)]
    BY <1>1, <2>1 DEF ChangesTx, ChangesTo
  <2> QED
    BY <1>1, <1>2, <1>6, <1>7, <2>2, ChangesMoves
<1>8. CASE ~LogReaches(db, tx.from)
  <2>1. txs' = [txs EXCEPT ![t] = [tx EXCEPT !.pc = "changes", !.complete = FALSE]]
    BY <1>5, <1>8 DEF OldestChange
  <2>2. txs' = [txs EXCEPT ![t] = ChangesTo(tx, "changes", FALSE, tx.blocks)]
    BY <1>1, <2>1 DEF ChangesTx, ChangesTo
  <2>3. tx.from # db.version => Changes(db, tx.from) = [complete |-> FALSE, blocks |-> {}]
    BY <1>8 DEF Changes
  <2> QED
    BY <1>1, <1>2, <1>6, <2>2, <2>3, ChangesMoves
<1> QED
  BY <1>7, <1>8

\* The third statement of Changes: the blocks.
LEMMA SinceMoves ==
  ASSUME StoreTypeOK, TxInv, NEW t \in Tx, ChangedSince(t)
  PROVE  \E new : Moved(t, new)
<1> DEFINE tx == txs[t]
           db == dbs[tx.key]
           blocks == UNION {row.blocks : row \in q!ChangedSince(tx.key, tx.from)}
<1>1. tx \in Transaction /\ tx \in ChangesTx /\ tx.op = "changes" /\ tx.pc = "since" /\ UNCHANGED vars
  BY SMTT(60), ByPC DEF TxInv, ChangesTx, ChangedSince, At
<1>2. tx.key \in Key /\ tx.from \in Nat /\ tx.complete \in BOOLEAN
  BY <1>1 DEF ChangesTx
<1>3. db.changes \in Seq(Entry)
  BY <1>2 DEF StoreTypeOK, Database
<1>4. blocks = UNION {db.changes[i].blocks : i \in {j \in DOMAIN db.changes : db.changes[j].version > tx.from}}
  BY DEF q!ChangedSince
<1>5. blocks \in SUBSET Nat
  <2>1. \A i \in DOMAIN db.changes : db.changes[i] \in Entry
    BY SMTT(60), <1>3
  <2>2. \A i \in DOMAIN db.changes : db.changes[i].blocks \subseteq Nat
    BY <2>1 DEF Entry
  <2> QED
    BY <1>4, <2>2
<1>6. tx.life = life[tx.key] /\ tx.to = db.version =>
        tx.from # db.version /\ tx.complete = TRUE /\ LogReaches(db, tx.from)
  BY <1>1, <1>2 DEF TxInv, ChangesOK
<1>7. tx.from # db.version /\ LogReaches(db, tx.from) =>
        Changes(db, tx.from) = [complete |-> TRUE, blocks |-> blocks]
  BY <1>4 DEF Changes
<1>8. txs' = [txs EXCEPT ![t] = [tx EXCEPT !.pc = "changes", !.blocks = blocks]]
  BY DEF ChangedSince
<1> HIDE DEF blocks
<1>9. txs' = [txs EXCEPT ![t] = ChangesTo(tx, "changes", tx.complete, blocks)]
  BY <1>1, <1>8 DEF ChangesTx, ChangesTo
<1> QED
  BY <1>1, <1>2, <1>5, <1>6, <1>7, <1>9, ChangesMoves

-----------------------------------------------------------------------------
(* Every step *)

\* InsertSlot.
LEMMA InsertMoves ==
  ASSUME TxInv, NEW t \in Tx, InsertSlot(t)
  PROVE  \E new : Moved(t, new)
<1>1. CASE Done(t)
  BY <1>1, DoneMoves
<1>2. CASE Goto(t, "relockSlot")
  <2>1. txs' = [txs EXCEPT ![t] = [txs[t] EXCEPT !.pc = "relockSlot"]]
    BY <1>2 DEF Goto
  <2> QED
    BY <2>1, SlotGoes DEF InsertSlot, At
<1> QED
  BY <1>1, <1>2 DEF InsertSlot

\* What Open, Commit, Changes and Fetch rely on.
Reads ==
  /\ ExactlyOnce /\ FileSizes
  /\ \A k \in Key : ContentOf(k) /\ LogOK(dbs[k]) /\ LogFits(dbs[k])

\* The steps of transaction t that only read.
ReadStep(t) ==
  \/ Begin(t) \/ Abort(t)
  \/ ShareSlot(t) \/ OpenLock(t) \/ createDatabase(t) \/ Relock(t)
  \/ CommitLock(t) \/ DeleteLock(t)
  \/ SweepLock(t) \/ HoldsSlot(t) \/ ReleaseBegin(t)
  \/ ClaimLock(t) \/ DeleteSlotLock(t) \/ PurgeLock(t)
  \/ OldestChange(t) \/ ChangedSince(t) \/ ChangesReturn(t)
  \/ FetchReturn(t)

\* The steps that write.
WriteStep(t) ==
  \/ OpenCommit(t) \/ ResumeCommit(t) \/ RepeatCommit(t) \/ ApplyCommit(t) \/ DeleteCommit(t)
  \/ SweepCommit(t) \/ ReleaseSlot(t) \/ InsertSlot(t) \/ PurgeCommit(t)

\* A statement that only reads.
LEMMA ReadMoves ==
  ASSUME StoreTypeOK, TxInv, Reads, NEW t \in Tx, ReadStep(t)
  PROVE  (\E new : Moved(t, new)) /\ UNCHANGED vars
<1>1. CASE Begin(t)
  <2>1. CASE FetchBegin(t)
    <3>1. ExactlyOnce /\ FileSizes /\ \A k \in Key : ContentOf(k)
      BY DEF Reads
    <3> QED
      BY <1>1, <2>1, <3>1, FetchBegins DEF Begin
  <2> QED
    BY <1>1, <2>1, OpenBegins, CommitBegins, DeleteBegins, SweepBegins, SlotBegins, ChangesBegins DEF Begin
<1>2. CASE Abort(t) \/ ChangesReturn(t) \/ FetchReturn(t)
  BY <1>2, DoneMoves DEF Abort, ChangesReturn, FetchReturn
<1>3. CASE OpenLock(t) \/ Relock(t) \/ CommitLock(t) \/ DeleteLock(t)
  <2>1. txs[t].pc \in RowWaits /\ UNCHANGED vars
    BY <1>3 DEF OpenLock, Relock, CommitLock, DeleteLock, LockDatabase, At, RowWaits
  <2> QED
    BY <1>3, <2>1, LockMoves DEF OpenLock, Relock, CommitLock, DeleteLock
<1>4. CASE OldestChange(t)
  BY <1>4, OldestMoves DEF OldestChange, Reads
<1>5. CASE SweepLock(t) \/ HoldsSlot(t) \/ ReleaseBegin(t)
  BY <1>5, SweepLockMoves, HoldsMoves, ReleaseBeginMoves DEF SweepLock, HoldsSlot, ReleaseBegin
<1>6. CASE ClaimLock(t) \/ DeleteSlotLock(t) \/ PurgeLock(t)
  BY <1>6, ClaimMoves, DeleteSlotMoves, PurgeMoves DEF ClaimLock, DeleteSlotLock, PurgeLock
<1>7. CASE ShareSlot(t) \/ createDatabase(t) \/ ChangedSince(t)
  BY <1>7, ShareMoves, CreateMoves, SinceMoves DEF ShareSlot, createDatabase, ChangedSince
<1> QED
  BY <1>1, <1>2, <1>3, <1>4, <1>5, <1>6, <1>7 DEF ReadStep

\* A statement that writes.
LEMMA WriteMoves ==
  ASSUME StoreTypeOK, TxInv, NEW t \in Tx, WriteStep(t)
  PROVE  \E new : Moved(t, new)
<1>1. CASE Done(t)
  BY <1>1, DoneMoves
<1>2. CASE SweepCommit(t) \/ ReleaseSlot(t) \/ InsertSlot(t)
  BY <1>2, SweepCommitMoves, ReleaseMoves, InsertMoves
<1> QED
  BY <1>1, <1>2 DEF WriteStep, OpenCommit, ResumeCommit, RepeatCommit, ApplyCommit, writeCommit,
     DeleteCommit, PurgeCommit

\* What a transaction that applies knows of its row, which it has locked.
LEMMA ApplyRow ==
  ASSUME TxInv, NEW t \in Tx, txs[t].pc = "apply"
  PROVE  /\ txs[t].key \in Key /\ txs[t].key \in txs[t].lock.rows
         /\ txs[t].op # "open" => dbs[txs[t].key].status # "missing"
         /\ dbs[txs[t].key].status # "missing" => txs[t].lock.row = dbs[txs[t].key]
<1>1. txs[t] \in OpenTx \cup CommitTx \cup DeleteTx
  BY ByPC DEF TxInv
<1>2. txs[t].key \in Key
  BY <1>1 DEF OpenTx, CommitTx, DeleteTx
<1> QED
  BY <1>2 DEF TxInv, RowsOK

\* An update of one row.
LEMMA WroteRow ==
  ASSUME StoreTypeOK, TxInv, NEW t \in Tx, NEW key \in txs[t].lock.rows, NEW new,
         dbs' = [dbs EXCEPT ![key] = new], slots' = slots, leases \subseteq leases', applied' = applied
  PROVE  Wrote(t)
BY DEF Wrote, StoreTypeOK, TxInv

\* A write of Open, Commit or Delete.
LEMMA ApplyWrote ==
  ASSUME StoreTypeOK, TxInv, NEW t \in Tx,
         OpenCommit(t) \/ ResumeCommit(t) \/ RepeatCommit(t) \/ DeleteCommit(t)
  PROVE  Wrote(t)
<1>1. txs[t].key \in txs[t].lock.rows
  BY ApplyRow DEF OpenCommit, ResumeCommit, RepeatCommit, DeleteCommit, At
<1>2. slots' = slots /\ leases \subseteq leases' /\ applied' = applied
  BY DEF OpenCommit, ResumeCommit, RepeatCommit, DeleteCommit
<1>3. \E new : dbs' = [dbs EXCEPT ![txs[t].key] = new]
  BY DEF OpenCommit, ResumeCommit, RepeatCommit, DeleteCommit
<1> QED
  BY <1>1, <1>2, <1>3, WroteRow

\* A commit.
LEMMA CommitWrote ==
  ASSUME StoreTypeOK, TxInv, NEW t \in Tx, ApplyCommit(t)
  PROVE  Wrote(t)
<1> DEFINE tx == txs[t]
<1>1. tx.pc = "apply" /\ tx.op = "commit"
  BY DEF ApplyCommit, At
<1>2. /\ tx.key \in Key /\ tx.key \in tx.lock.rows /\ tx.lock.row = dbs[tx.key]
      /\ tx.req.lease.key = tx.key
  BY <1>1, ApplyRow DEF TxInv, CommitOK
<1>3. dbs[tx.key] \in Database /\ dbs[tx.key].version = tx.req.base
  BY <1>2 DEF StoreTypeOK, ApplyCommit
<1>4. PICK new : /\ dbs' = [dbs EXCEPT ![tx.key] = new]
                 /\ new.version = dbs[tx.key].version + 1
                 /\ applied' = applied \cup {[lease |-> tx.req.lease, life |-> life[tx.key],
                       version |-> new.version, id |-> tx.req.id, pageCount |-> new.pageCount,
                       blocks |-> new.blocks]}
  <2> DEFINE cut == q!DeleteBlocksFrom(putBlocks(dbs[tx.key], tx.req), tx.req.pageCount)
             row == q!ApplyCommit(cut, tx.req.pageCount, tx.req.id, tx.at + TTL)
  <2>1. recordChange(row, tx.req).version = dbs[tx.key].version + 1
    <3>1. row.version = dbs[tx.key].version + 1
      BY <1>3 DEF q!DeleteBlocksFrom, putBlocks, q!PutBlocks, q!ApplyCommit, Database
    <3> HIDE DEF row
    <3>2. recordChange(row, tx.req).version = row.version
      BY SMTT(60) DEF recordChange, q!RecordChange, q!PruneChanges
    <3> QED
      BY <3>1, <3>2
  <2> QED
    BY <2>1 DEF ApplyCommit, writeCommit
<1>5. txs' = [txs EXCEPT ![t] = Idle] /\ slots' = slots /\ leases' = leases
  BY DEF ApplyCommit, writeCommit, Done
<1>6. \A a \in applied' \ applied : a.id = tx.req.id /\ a.lease.key = tx.key /\ a.version = tx.req.base + 1
  <2> TAKE a \in applied' \ applied
  <2>1. a = [lease |-> tx.req.lease, life |-> life[tx.key], version |-> new.version, id |-> tx.req.id,
             pageCount |-> new.pageCount, blocks |-> new.blocks]
    BY <1>4
  <2>2. a.lease = tx.req.lease /\ a.version = new.version /\ a.id = tx.req.id
    BY <2>1
  <2> QED
    BY <1>2, <1>3, <1>4, <2>2
<1>7. \A k \in Key : dbs'[k] = dbs[k] \/ k \in tx.lock.rows
  BY <1>2, <1>4 DEF StoreTypeOK
<1> QED
  BY <1>1, <1>5, <1>6, <1>7 DEF Wrote, TxInv

\* A step of the sweep that writes.
LEMMA SweepWrote ==
  ASSUME StoreTypeOK, TxInv, NEW t \in Tx, SweepCommit(t)
  PROVE  Wrote(t)
<1>1. Head(txs[t].candidates) \in txs[t].lock.rows
  BY DEF SweepCommit, TxInv, RowsOK, Sweeping
<1>2. slots' = slots /\ leases' = leases /\ applied' = applied
  BY DEF SweepCommit
<1>3. \E new : dbs' = [dbs EXCEPT ![Head(txs[t].candidates)] = new]
  BY DEF SweepCommit
<1> QED
  BY <1>1, <1>2, <1>3, WroteRow

\* A step that writes slots.
LEMMA SlotWrote ==
  ASSUME StoreTypeOK, TxInv, NEW t \in Tx, ReleaseSlot(t) \/ InsertSlot(t) \/ PurgeCommit(t)
  PROVE  Wrote(t)
<1> DEFINE tx == txs[t]
           o == OwnerIn(t)
<1>1. leases' = leases /\ applied' = applied
  BY DEF ReleaseSlot, InsertSlot, PurgeCommit
<1>2. \A s \in Subject : s # None
  BY ConstantsAssumption
<1>3. \A p \in Owner : slots[p] = NoSlot \/ slots[p].subject # None
  BY DEF TxInv
<1>4. CASE ReleaseSlot(t)
  <2>1. dbs' = dbs /\ (slots' = slots \/ slots' = [p \in Owner |-> IF p \in tx.lock.update THEN NoSlot ELSE slots[p]])
    BY <1>4 DEF ReleaseSlot
  <2> QED
    BY <1>1, <1>3, <2>1 DEF Wrote
<1>5. CASE InsertSlot(t)
  <2>1. tx.subject \in Subject
    BY SMTT(60), <1>5, ByPC DEF InsertSlot, At, TxInv, SlotTx
  <2>2. \/ dbs' = dbs /\ slots' = slots
        \/ dbs' = dbs /\ slots[o] = NoSlot /\ slots' = [slots EXCEPT ![o] = q!InsertSlot(tx.subject, tx.at)]
    BY <1>5 DEF InsertSlot
  <2>3. q!InsertSlot(tx.subject, tx.at).subject # None
    BY <1>2, <2>1 DEF q!InsertSlot
  <2> QED
    BY <1>1, <1>3, <2>2, <2>3 DEF Wrote, StoreTypeOK
<1>6. CASE PurgeCommit(t)
  <2>1. tx.subject \in Subject /\ tx.op \in {"claim", "deleteSlot"}
    BY SMTT(60), <1>6, ByPC DEF PurgeCommit, At, TxInv, SlotTx
  <2>2. tx.op = "claim" => o \in tx.lock.update
    BY <1>6 DEF PurgeCommit, At, TxInv, SlotsOK, OwnerIn
  <2>3. PICK new : /\ slots' = [slots EXCEPT ![o] = new]
                   /\ tx.op = "claim" => new = q!UpdateSlot(slots[o], tx.subject, tx.at)
                   /\ tx.op # "claim" => new = IF o \in tx.lock.update THEN NoSlot ELSE slots[o]
    BY <1>6 DEF PurgeCommit, q!DeleteSlotOf
  <2>4. tx.op = "claim" => new.subject # None
    BY SMTT(60), <1>2, <2>1, <2>3 DEF q!UpdateSlot
  <2>5. \A p \in Owner : \/ slots'[p] = slots[p] \/ p \in tx.lock.update
    BY <2>2, <2>3 DEF StoreTypeOK
  <2>6. \A p \in Owner : slots'[p] = NoSlot \/ slots'[p].subject # None
    BY <1>3, <2>3, <2>4 DEF StoreTypeOK
  <2>7. \A k \in Key : dbs'[k] = dbs[k] \/ k \in tx.lock.rows
    BY <1>6 DEF PurgeCommit
  <2> QED
    BY <1>1, <2>5, <2>6, <2>7 DEF Wrote
<1> QED
  BY <1>4, <1>5, <1>6

\* A step of no transaction.
LEMMA AloneSteps ==
  ASSUME StoreTypeOK, TxInv,
         RenewLease \/ ReleaseLease \/ SetLabel \/ (Tick /\ UNCHANGED txs) \/ UNCHANGED pgVars
  PROVE  Alone
<1>1. CASE RenewLease \/ ReleaseLease
  <2>1. PICK key : /\ \A u \in Tx : key \notin txs[u].lock.rows
                   /\ \E new : dbs' = [dbs EXCEPT ![key] = new]
                   /\ UNCHANGED <<slots, leases, applied, txs>>
    BY <1>1 DEF RenewLease, ReleaseLease
  <2> QED
    BY <2>1 DEF Alone, StoreTypeOK, TxInv
<1>2. CASE SetLabel
  <2>1. PICK s \in Subject, label \in Label :
          /\ OwnerOf[s] # NoOwner
          /\ \A u \in Tx : OwnerOf[s] \notin txs[u].lock.share \cup txs[u].lock.update
          /\ slots' = [slots EXCEPT ![OwnerOf[s]] = q!LabelSlot(@, s, label)]
          /\ UNCHANGED <<dbs, leases, applied, txs>>
    BY <1>2 DEF SetLabel
  <2> DEFINE o == OwnerOf[s]
             new == q!LabelSlot(slots[o], s, label)
  <2>2. o \in Owner /\ slots[o] \in Slot
    BY <2>1, ConstantsAssumption DEF StoreTypeOK
  <2>3. new = slots[o] \/ new.subject = slots[o].subject
    BY <2>2 DEF q!LabelSlot, Slot
  <2>4. new = slots[o] \/ slots[o] # NoSlot
    BY SMTT(60), ConstantsAssumption DEF q!LabelSlot, NoSlot
  <2>5. slots' = [slots EXCEPT ![o] = new]
    BY <2>1
  <2> HIDE DEF new
  <2> QED
    BY <2>1, <2>2, <2>3, <2>4, <2>5 DEF Alone, StoreTypeOK, TxInv
<1>3. CASE Tick /\ UNCHANGED txs
  BY <1>3 DEF Tick, Alone, TxInv
<1>4. CASE UNCHANGED pgVars
  BY <1>4 DEF pgVars, vars, Alone, TxInv
<1> QED
  BY <1>1, <1>2, <1>3, <1>4

(***************************************************************************)
(* Every step is one of a transaction that writes only what it has locked, *)
(* or writes what nobody has locked.                                       *)
(***************************************************************************)
LEMMA Steps ==
  ASSUME StoreTypeOK, TxInv, Reads, [PgNext]_pgVars
  PROVE  \/ \E t \in Tx : Wrote(t) /\ \E new : Moved(t, new)
         \/ Alone
<1>1. ASSUME NEW t \in Tx, ReadStep(t) PROVE Wrote(t) /\ \E new : Moved(t, new)
  <2>1. (\E new : Moved(t, new)) /\ UNCHANGED vars
    BY <1>1, ReadMoves
  <2> QED
    BY <2>1 DEF Wrote, vars, TxInv
<1>2. ASSUME NEW t \in Tx, WriteStep(t) PROVE Wrote(t) /\ \E new : Moved(t, new)
  BY <1>2, WriteMoves, ApplyWrote, CommitWrote, SweepWrote, SlotWrote DEF WriteStep
<1>3. CASE PgNext
  BY <1>1, <1>2, <1>3, AloneSteps DEF PgNext, ReadStep, WriteStep
<1> QED
  BY <1>3, AloneSteps

-----------------------------------------------------------------------------
(* The other transactions *)

\* No two transactions lock one row, or one slot unless both share it.
LEMMA ExclusiveStep ==
  ASSUME TxInv, NEW t \in Tx, NEW new, Moved(t, new)
  PROVE  Exclusive'
<1>1. txs'[t] = new /\ \A u \in Tx \ {t} : txs'[u] = txs[u]
  BY DEF Moved, TxInv
<1>2. ASSUME NEW u \in Tx \ {t}
      PROVE  /\ new.lock.rows \cap txs[u].lock.rows = {}
             /\ new.lock.update \cap (txs[u].lock.share \cup txs[u].lock.update) = {}
             /\ txs[u].lock.update \cap (new.lock.share \cup new.lock.update) = {}
  <2>1. Took(t, new) /\ Exclusive
    BY DEF Moved, TxInv
  <2>2. new.lock.rows \cap txs[u].lock.rows = {}
    BY <2>1 DEF Took, Exclusive, RowFree
  <2>3. new.lock.update \cap (txs[u].lock.share \cup txs[u].lock.update) = {}
    BY <2>1 DEF Took, Exclusive, SlotFree
  <2>4. txs[u].lock.update \cap new.lock.share = {}
    BY <2>1 DEF Took, Exclusive, SlotShareable
  <2> QED
    BY <2>2, <2>3, <2>4
<1>3. \A u, w \in Tx : u # w /\ u # t /\ w # t =>
        /\ txs'[u].lock.rows \cap txs'[w].lock.rows = {}
        /\ txs'[u].lock.update \cap (txs'[w].lock.share \cup txs'[w].lock.update) = {}
  BY <1>1 DEF TxInv, Exclusive
<1> SUFFICES ASSUME NEW u \in Tx, NEW w \in Tx, u # w
             PROVE  /\ txs'[u].lock.rows \cap txs'[w].lock.rows = {}
                    /\ txs'[u].lock.update \cap (txs'[w].lock.share \cup txs'[w].lock.update) = {}
  BY DEF Exclusive
<1>4. CASE u = t
  BY <1>1, <1>2, <1>4
<1>5. CASE w = t
  BY <1>1, <1>2, <1>5
<1> QED
  BY <1>3, <1>4, <1>5

\* What a transaction knows of the rows it has locked depends on those rows alone.
LEMMA RowsKept ==
  ASSUME StoreTypeOK, NEW tx \in Transaction, RowsOK(tx, dbs), \A k \in tx.lock.rows : dbs'[k] = dbs[k]
  PROVE  RowsOK(tx, dbs')
<1>1. tx.pc = "apply" => dbs'[tx.key] = dbs[tx.key]
  BY DEF RowsOK
<1>2. tx.pc \in Sweeping => dbs'[Head(tx.candidates)] = dbs[Head(tx.candidates)]
  BY DEF RowsOK
<1> QED
  BY <1>1, <1>2 DEF RowsOK

\* So does what a claim knows of the slot.
LEMMA SlotsKept ==
  ASSUME NEW tx, SlotsOK(tx, slots),
         tx.pc = "purge" /\ tx.op = "claim" => slots'[OwnerOf[tx.subject]] = slots[OwnerOf[tx.subject]]
  PROVE  SlotsOK(tx, slots')
BY DEF SlotsOK

\* The other transactions are not disturbed.
LEMMA OthersStep ==
  ASSUME StoreTypeOK, TxInv, NEW t \in Tx, Wrote(t), NEW u \in Tx \ {t}
  PROVE  RowsOK(txs[u], dbs') /\ SlotsOK(txs[u], slots') /\ CommitOK(txs[u], leases', applied')
<1> DEFINE ux == txs[u]
<1>0. ux \in Transaction /\ RowsOK(ux, dbs) /\ SlotsOK(ux, slots) /\ CommitOK(ux, leases, applied)
  BY DEF TxInv
<1>1. /\ ux.lock.rows \cap txs[t].lock.rows = {}
      /\ txs[t].lock.update \cap ux.lock.update = {}
  BY DEF TxInv, Exclusive
<1>2. ux.lock.rows \subseteq Key
  BY <1>0, ByOp DEF Locks
<1>3. RowsOK(ux, dbs')
  BY <1>0, <1>1, <1>2, RowsKept DEF Wrote
<1>4. SlotsOK(ux, slots')
  <2> SUFFICES ASSUME ux.pc = "purge", ux.op = "claim"
               PROVE  slots'[OwnerOf[ux.subject]] = slots[OwnerOf[ux.subject]]
    BY <1>0, SlotsKept
  <2> DEFINE o == OwnerOf[ux.subject]
  <2>1. o \in ux.lock.update /\ slots[o].subject # None
    BY <1>0 DEF SlotsOK
  <2>2. o \in Owner /\ NoSlot.subject = None
    BY <1>0, <2>1, ByOp DEF Locks, NoSlot
  <2> QED
    BY <1>1, <2>1, <2>2 DEF Wrote
<1>5. CommitOK(ux, leases', applied')
  <2> SUFFICES ASSUME ux.op = "commit" PROVE CommitOK(ux, leases', applied')
    BY DEF CommitOK
  <2>1. SameCommit(txs[t], ux) /\ leases \subseteq leases'
    BY DEF TxInv, Wrote
  <2>2. ASSUME NEW a \in applied', a.id = ux.req.id
        PROVE  a.lease.key = ux.key /\ a.version = ux.req.base + 1
    <3>1. CASE a \in applied
      BY <1>0, <2>2, <3>1 DEF CommitOK
    <3>2. CASE a \notin applied
      BY <2>1, <2>2, <3>2 DEF Wrote, SameCommit
    <3> QED
      BY <3>1, <3>2
  <2> QED
    BY <1>0, <2>1, <2>2 DEF CommitOK
<1> QED
  BY <1>3, <1>4, <1>5

-----------------------------------------------------------------------------
(* The snapshot of a fetch *)

\* A range of a row is read as it is stored: what has no row of blocks is Zero.
LEMMA FetchedBlocks ==
  ASSUME NEW t \in Tx, NEW first \in Nat, NEW count \in Nat, first + count <= MaxPages
  PROVE  Fetched(t, first, count) = [i \in first .. first + count - 1 |-> Snapshot(t).blocks[i]]
<1> DEFINE row == Snapshot(t)
           written == q!FetchBlocks(row, first, first + count)
           Read(i) == IF \E w \in written : w[1] = i THEN (CHOOSE w \in written : w[1] = i)[2] ELSE Zero
<1>1. Fetched(t, first, count) = [i \in first .. first + count - 1 |-> Read(i)]
  BY DEF Fetched
<1>2. ASSUME NEW i \in first .. first + count - 1 PROVE Read(i) = row.blocks[i]
  <2>1. i \in Index /\ first <= i /\ i < first + count
    BY SMTT(60), ConstantsAssumption DEF Index
  <2>2. \A w \in written : w[1] = i => w[2] = row.blocks[i] /\ row.blocks[i] # Zero
    BY SMTT(60) DEF q!FetchBlocks
  <2>3. row.blocks[i] # Zero => <<i, row.blocks[i]>> \in written
    BY <2>1 DEF q!FetchBlocks
  <2> HIDE DEF written
  <2>4. CASE row.blocks[i] = Zero
    BY <2>2, <2>4
  <2>5. CASE row.blocks[i] # Zero
    <3>1. \E w \in written : w[1] = i
      BY <2>3, <2>5
    <3> DEFINE c == CHOOSE w \in written : w[1] = i
    <3>2. c \in written /\ c[1] = i
      BY <3>1
    <3> QED
      BY <2>2, <3>1, <3>2
  <2> QED
    BY <2>4, <2>5
<1> HIDE DEF Read
<1> QED
  BY <1>1, <1>2

-----------------------------------------------------------------------------
(* Deadlocks *)

W == INSTANCE WellFoundedInduction

\* Every set of naturals has a least element.
LEMMA LeastPosition ==
  ASSUME NEW S \in SUBSET Nat, S # {}
  PROVE  \E x \in S : \A y \in S : x <= y
<1> DEFINE R == W!OpToRel(<, Nat)
<1>1. \A x, y \in Nat : y < x => <<y, x>> \in R
  BY DEF W!OpToRel
<1>2. W!IsWellFoundedOn(R, Nat)
  BY W!NatLessThanWellFounded
<1> HIDE DEF R
<1>3. PICK x \in S : \A y \in S : ~(<<y, x>> \in R)
  BY <1>2, W!WFMin
<1>4. \A y \in S : ~(y < x)
  BY <1>1, <1>3
<1>5. \A y \in S : y \in Nat /\ x \in Nat
  OBVIOUS
<1> QED
  BY SMTT(60), <1>4, <1>5

(***************************************************************************)
(* No two sweeps release slots at the same time, or there is one owner.    *)
(* Two sweeps of several slots may lock them in opposite orders: nothing   *)
(* orders the rows of ReleaseUnusedSlots.                                  *)
(***************************************************************************)
SweepsApart ==
  \/ \A t, u \in Tx : At(t, "release") /\ At(u, "release") => t = u
  \/ \A o, p \in Owner : o = p

\* Where a transaction that waits is.
LEMMA WaitingPC ==
  ASSUME NEW t, NEW u, WaitsFor(t, u)
  PROVE  txs[t].pc \in {"shareSlot", "lockSlot", "relockSlot", "sweep", "purge", "release"} \cup RowWaits
BY DEF WaitsFor, At, RowWaits

\* Only a purge waits with a row locked.
LEMMA WaitsWithRow ==
  ASSUME TxInv, NEW t \in Tx, NEW u, WaitsFor(t, u), txs[t].lock.rows # {}
  PROVE  At(t, "purge")
<1>1. RowsOK(txs[t], dbs)
  BY DEF TxInv
<1>2. txs[t].pc \in {"apply", "purge"} \cup Sweeping
  BY <1>1 DEF RowsOK
<1> QED
  BY <1>2, WaitingPC DEF Sweeping, RowWaits, At

\* With a slot locked, one waits for rows or for further slots to release.
LEMMA WaitsWithSlot ==
  ASSUME TxInv, NEW t \in Tx, NEW u, WaitsFor(t, u), txs[t].lock.share \cup txs[t].lock.update # {}
  PROVE  txs[t].pc \in {"purge", "release"} \cup RowWaits
<1>1. SlotsOK(txs[t], slots)
  BY DEF TxInv
<1>2. txs[t].pc \in {"apply", "purge", "release"} \cup RowWaits
  BY <1>1 DEF SlotsOK
<1> QED
  BY <1>2, WaitingPC DEF RowWaits

\* The next row of a purge that waits.
LEMMA PurgeWaits ==
  ASSUME TxInv, NEW t \in Tx, NEW u, WaitsFor(t, u), At(t, "purge")
  PROVE  \E i \in DOMAIN ScanOrder : VisitsNext(t, i) /\ RowAt(t, i) \in txs[u].lock.rows
<1>1. txs[t] \in SlotTx
  BY ByPC DEF TxInv, At
<1>2. txs[t].rest \subseteq DOMAIN ScanOrder
  BY <1>1 DEF SlotTx
<1>3. \E i \in txs[t].rest : VisitsNext(t, i) /\ RowAt(t, i) \in txs[u].lock.rows
  BY DEF WaitsFor, At
<1> QED
  BY <1>2, <1>3

\* A purge waits for one that is further.
LEMMA PurgeWaitsForFurther ==
  ASSUME TxInv, NEW t \in Tx, NEW i \in DOMAIN ScanOrder,
         NEW u \in Tx, At(u, "purge"), RowAt(t, i) \in txs[u].lock.rows,
         NEW j, VisitsNext(u, j)
  PROVE  i < j
<1>1. RowsOK(txs[u], dbs)
  BY DEF TxInv
<1>2. PICK m \in DOMAIN ScanOrder :
        RowAt(t, i) = <<txs[u].victim, ScanOrder[m]>> /\ \A n \in txs[u].rest : m < n
  BY <1>1 DEF RowsOK, At
<1>3. ScanOrder[i] = ScanOrder[m]
  BY <1>2 DEF RowAt
<1>4. i = m
  BY <1>3, PostgresAssumption
<1> QED
  BY <1>2, <1>4 DEF VisitsNext

\* Transactions that wait for each other include no purge: the one that is furthest waits for none.
LEMMA NoPurgeInCycle ==
  ASSUME TxInv, NEW T \in SUBSET Tx, \A t \in T : \E u \in T : WaitsFor(t, u),
         NEW p \in T, At(p, "purge")
  PROVE  FALSE
<1> DEFINE Next(t, i) == At(t, "purge") /\ VisitsNext(t, i)
           Ahead(n, t, i) == Next(t, i) /\ n = Len(ScanOrder) - i
           S == {n \in Nat : \E t \in T, i \in DOMAIN ScanOrder : Ahead(n, t, i)}
<1>1. ASSUME NEW t \in T, At(t, "purge")
      PROVE  \E u \in T, i \in DOMAIN ScanOrder :
               Next(t, i) /\ RowAt(t, i) \in txs[u].lock.rows
  <2>1. PICK u \in T : WaitsFor(t, u)
    OBVIOUS
  <2>2. PICK i \in DOMAIN ScanOrder : VisitsNext(t, i) /\ RowAt(t, i) \in txs[u].lock.rows
    BY <1>1, <2>1, PurgeWaits
  <2> QED
    BY <1>1, <2>2
<1>2. \A t \in T, i \in DOMAIN ScanOrder : Next(t, i) => Len(ScanOrder) - i \in S
  <2>1. \A i \in DOMAIN ScanOrder : i \in Nat /\ Len(ScanOrder) - i \in Nat
    BY SMTT(60), PostgresAssumption
  <2> HIDE DEF Next
  <2> QED
    BY <2>1
<1>3. \A i, j \in DOMAIN ScanOrder : i \in Nat /\ j \in Nat /\ Len(ScanOrder) \in Nat
  BY SMTT(60), PostgresAssumption
<1>4. S # {}
  BY <1>1, <1>2
<1>5. S \in SUBSET Nat
  OBVIOUS
<1> HIDE DEF S
<1>6. PICK n \in S : \A m \in S : n <= m
  BY <1>4, <1>5, LeastPosition
<1>7. PICK t \in T, i \in DOMAIN ScanOrder : Ahead(n, t, i)
  BY <1>6 DEF S
<1>8. PICK u \in T, j \in DOMAIN ScanOrder : Next(t, j) /\ RowAt(t, j) \in txs[u].lock.rows
  BY <1>1, <1>7
<1>9. i = j
  BY SMTT(60), <1>3, <1>7, <1>8 DEF VisitsNext
<1>10. At(u, "purge")
  BY <1>8, WaitsWithRow
<1>11. PICK k \in DOMAIN ScanOrder : Next(u, k)
  BY <1>1, <1>10
<1>12. i < k
  BY <1>8, <1>9, <1>10, <1>11, PurgeWaitsForFurther
<1>13. n = Len(ScanOrder) - i /\ n <= Len(ScanOrder) - k
  BY <1>2, <1>6, <1>7, <1>11
<1> QED
  BY SMTT(60), <1>3, <1>12, <1>13

\* Each waits for one that releases slots.
LEMMA CycleOfReleases ==
  ASSUME TxInv, NEW T \in SUBSET Tx, \A t \in T : \E u \in T : WaitsFor(t, u), NEW t \in T
  PROVE  \E u \in T : WaitsFor(t, u) /\ At(u, "release")
<1>1. \A u, v \in T : WaitsFor(u, v) =>
        txs[u].pc \in {"shareSlot", "lockSlot", "relockSlot", "release"}
  <2> SUFFICES ASSUME NEW u \in T, NEW v \in T, WaitsFor(u, v),
                      txs[u].pc \notin {"shareSlot", "lockSlot", "relockSlot", "release"}
               PROVE  FALSE
    OBVIOUS
  <2>1. txs[v].lock.rows # {}
    BY DEF WaitsFor, At
  <2> QED
    BY <2>1, WaitsWithRow, NoPurgeInCycle
<1>2. PICK u \in T : WaitsFor(t, u)
  OBVIOUS
<1>3. txs[u].lock.share \cup txs[u].lock.update # {}
  BY <1>1, <1>2 DEF WaitsFor, At
<1>4. PICK v \in T : WaitsFor(u, v)
  OBVIOUS
<1>5. txs[u].pc \in {"purge", "release"} \cup RowWaits
  BY <1>3, <1>4, WaitsWithSlot
<1> QED
  BY <1>1, <1>2, <1>4, <1>5 DEF RowWaits, At

\* Transactions that wait for each other would be two sweeps that release slots.
LEMMA NoCycle ==
  ASSUME TxInv, SweepsApart, NEW T \in SUBSET Tx, T # {}, \A t \in T : \E u \in T : WaitsFor(t, u)
  PROVE  FALSE
<1>1. PICK s \in T : TRUE
  OBVIOUS
<1>2. PICK t \in T : At(t, "release")
  BY <1>1, CycleOfReleases
<1>3. PICK u \in T : WaitsFor(t, u) /\ At(u, "release")
  BY CycleOfReleases
<1>4. PICK v \in T : WaitsFor(u, v) /\ At(v, "release")
  BY CycleOfReleases
<1>5. t # u
  BY <1>3 DEF WaitsFor
<1>6. \A x \in T : At(x, "release") =>
        /\ txs[x].owners \subseteq Owner /\ txs[x].lock.update \subseteq Owner
        /\ txs[x].lock.share = {} /\ txs[x].lock.update \cap txs[x].owners = {}
  <2> SUFFICES ASSUME NEW x \in T, txs[x].pc = "release"
               PROVE  /\ txs[x].owners \subseteq Owner /\ txs[x].lock.update \subseteq Owner
                      /\ txs[x].lock.share = {} /\ txs[x].lock.update \cap txs[x].owners = {}
    BY DEF At
  <2>1. txs[x] \in Transaction /\ SlotsOK(txs[x], slots)
    BY DEF TxInv
  <2>2. txs[x] \in ReleaseTx
    BY <2>1, ByPC
  <2> QED
    BY <2>1, <2>2 DEF SlotsOK, ReleaseTx, Locks
<1>7. PICK o \in Owner : o \in txs[u].lock.update
  BY <1>2, <1>3, <1>6 DEF WaitsFor, At
<1>8. PICK p \in Owner : p \in txs[u].owners
  BY <1>3, <1>4, <1>6 DEF WaitsFor, At
<1>9. o # p
  BY <1>3, <1>6, <1>7, <1>8
<1> QED
  BY <1>2, <1>3, <1>5, <1>9 DEF SweepsApart

-----------------------------------------------------------------------------
(* Requests *)

\* No key has an owner: the store is used without slots.
NoSlots == \A s \in Subject : OwnerOf[s] = NoOwner

(***************************************************************************)
(* A request is of a time n that has come, resumes a lease of L, those     *)
(* granted, and sweeps what is unused by now.  Without slots the sweep     *)
(* purges nothing.                                                         *)
(***************************************************************************)
RequestOK(tx, n, L) ==
  /\ tx.op \in {"open", "commit", "delete"} => tx.at <= n
  /\ tx.op = "open" =>
       \/ tx.resume = NoResume
       \/ \E l \in L : l.key = tx.key /\ tx.resume = [id |-> l.id, epoch |-> l.epoch]
  /\ tx.op = "sweep" => UnusedAfter <= n /\ tx.cutoff <= n - UnusedAfter
  /\ tx.pc # "sweepPurge"

RequestsInv ==
  /\ now <= MaxTime
  /\ \A o \in Owner : slots[o] = NoSlot
  /\ \A t \in Tx : RequestOK(txs[t], now, leases)

\* A transaction that becomes new keeps its request, or ends.
SameRequest(tx, new) ==
  /\ new.pc # "sweepPurge"
  /\ \/ new.op \notin {"open", "commit", "delete", "sweep"}
     \/ /\ new.op = tx.op
        /\ new.op \in {"open", "commit", "delete"} => new.at = tx.at
        /\ new.op = "open" => new.key = tx.key /\ new.resume = tx.resume
        /\ new.op = "sweep" => new.cutoff = tx.cutoff

\* A step that keeps its request keeps what is known of it.
LEMMA SameRequestOK ==
  ASSUME NEW tx, NEW new, NEW n, NEW L, RequestOK(tx, n, L), SameRequest(tx, new)
  PROVE  RequestOK(new, n, L)
<1>1. CASE new.op \notin {"open", "commit", "delete", "sweep"}
  BY <1>1 DEF RequestOK, SameRequest
<1>2. CASE new.op \in {"open", "commit", "delete", "sweep"}
  BY <1>2 DEF RequestOK, SameRequest
<1> QED
  BY <1>1, <1>2

\* Time goes on and leases are granted.
LEMMA OlderRequestOK ==
  ASSUME NEW tx \in Transaction, NEW n \in Nat, NEW m \in Nat, n <= m,
         NEW L, NEW M, L \subseteq M, RequestOK(tx, n, L)
  PROVE  RequestOK(tx, m, M)
<1>1. tx.op \in {"open", "commit", "delete"} => tx.at \in Nat
  BY ByOp DEF OpenTx, CommitTx, DeleteTx
<1>2. tx.op = "sweep" => tx.cutoff \in Nat
  <2>1. tx = Idle => tx.op # "sweep"
    BY SMTT(60) DEF Idle
  <2>2. tx \in SweepTx \cup ReleaseTx => tx.cutoff \in Nat
    BY DEF SweepTx, ReleaseTx
  <2>3. tx \in OpenTx \cup CommitTx \cup DeleteTx \cup SlotTx \cup ChangesTx \cup FetchTx => tx.op # "sweep"
    BY DEF OpenTx, CommitTx, DeleteTx, SlotTx, ChangesTx, FetchTx
  <2> QED
    BY <2>1, <2>2, <2>3 DEF Transaction
<1>3. ASSUME NEW x \in Nat, x <= n PROVE x <= m
  BY SMTT(60), <1>3
<1>4. ASSUME NEW x \in Nat, UnusedAfter <= n, x <= n - UnusedAfter
      PROVE  UnusedAfter <= m /\ x <= m - UnusedAfter
  BY SMTT(60), <1>4, CallersAssumption
<1> QED
  BY <1>1, <1>2, <1>3, <1>4 DEF RequestOK

\* A request that has come in.
LEMMA BeginRequest ==
  ASSUME NoSlots, StoreTypeOK, NEW t \in Tx, Begin(t)
  PROVE  \E new : txs' = [txs EXCEPT ![t] = new] /\ RequestOK(new, now, leases)
<1>0. \A at \in Nows : at <= now
  BY SMTT(60) DEF Nows, StoreTypeOK
<1>1. CASE OpenBegin(t)
  <2>1. PICK key \in Key : \E resume \in ResumeOf(key), takeover \in BOOLEAN, at \in Nows :
          txs' = [txs EXCEPT ![t] =
            [pc |-> IF OwnerOf[key[1]] = NoOwner THEN "lockRow" ELSE "shareSlot",
             op |-> "open", lock |-> Unlocked, subject |-> key[1], key |-> key,
             resume |-> resume, takeover |-> takeover, at |-> at]]
    BY <1>1 DEF OpenBegin
  <2>2. PICK resume \in ResumeOf(key), takeover \in BOOLEAN, at \in Nows :
          txs' = [txs EXCEPT ![t] =
            [pc |-> IF OwnerOf[key[1]] = NoOwner THEN "lockRow" ELSE "shareSlot",
             op |-> "open", lock |-> Unlocked, subject |-> key[1], key |-> key,
             resume |-> resume, takeover |-> takeover, at |-> at]]
    BY <2>1
  <2> DEFINE new == [pc |-> IF OwnerOf[key[1]] = NoOwner THEN "lockRow" ELSE "shareSlot",
                     op |-> "open", lock |-> Unlocked, subject |-> key[1], key |-> key,
                     resume |-> resume, takeover |-> takeover, at |-> at]
  <2>3. /\ new.op = "open" /\ new.pc \in {"lockRow", "shareSlot"} /\ new.at = at
        /\ new.key = key /\ new.resume = resume
    OBVIOUS
  <2>4. txs' = [txs EXCEPT ![t] = new]
    BY <2>2
  <2> HIDE DEF new
  <2>5. resume = NoResume \/ \E l \in leases : l.key = key /\ resume = [id |-> l.id, epoch |-> l.epoch]
    BY DEF ResumeOf
  <2>6. RequestOK(new, now, leases)
    BY <1>0, <2>3, <2>5 DEF RequestOK
  <2> QED
    BY <2>4, <2>6
<1>2. CASE CommitBegin(t)
  <2>1. PICK req \in CommitRequest, at \in Nows :
          txs' = [txs EXCEPT ![t] =
            [pc |-> "lockRow", op |-> "commit", lock |-> Unlocked, subject |-> req.lease.key[1],
             key |-> req.lease.key, req |-> req, at |-> at]]
    BY <1>2 DEF CommitBegin
  <2> DEFINE new == [pc |-> "lockRow", op |-> "commit", lock |-> Unlocked, subject |-> req.lease.key[1],
                     key |-> req.lease.key, req |-> req, at |-> at]
  <2>2. new.op = "commit" /\ new.pc = "lockRow" /\ new.at = at
    OBVIOUS
  <2> HIDE DEF new
  <2>3. RequestOK(new, now, leases)
    BY <1>0, <2>2 DEF RequestOK
  <2> QED
    BY <2>1, <2>3 DEF new
<1>3. CASE DeleteBegin(t)
  <2>1. PICK key \in Key, takeover \in BOOLEAN, at \in Nows :
          txs' = [txs EXCEPT ![t] =
            [pc |-> "lockRow", op |-> "delete", lock |-> Unlocked, subject |-> key[1],
             key |-> key, takeover |-> takeover, at |-> at]]
    BY <1>3 DEF DeleteBegin
  <2> DEFINE new == [pc |-> "lockRow", op |-> "delete", lock |-> Unlocked, subject |-> key[1],
                     key |-> key, takeover |-> takeover, at |-> at]
  <2>2. new.op = "delete" /\ new.pc = "lockRow" /\ new.at = at
    OBVIOUS
  <2> HIDE DEF new
  <2>3. RequestOK(new, now, leases)
    BY <1>0, <2>2 DEF RequestOK
  <2> QED
    BY <2>1, <2>3 DEF new
<1>4. CASE SweepBegin(t)
  <2>1. PICK candidates \in q!UnusedDatabases(now - UnusedAfter, SweepBatch) :
          txs' = [txs EXCEPT ![t] =
            [pc |-> "sweep", op |-> "sweep", lock |-> Unlocked,
             cutoff |-> now - UnusedAfter, candidates |-> candidates]]
    BY <1>4 DEF SweepBegin
  <2> DEFINE n == now - UnusedAfter
             new == [pc |-> "sweep", op |-> "sweep", lock |-> Unlocked,
                     cutoff |-> n, candidates |-> candidates]
  <2>2. UnusedAfter <= now /\ n <= n
    BY SMTT(60), <1>4, CallersAssumption DEF SweepBegin, StoreTypeOK
  <2>3. txs' = [txs EXCEPT ![t] = new]
    BY <2>1
  <2>4. new.op = "sweep" /\ new.pc = "sweep" /\ new.cutoff = n
    OBVIOUS
  <2> HIDE DEF new
  <2>5. RequestOK(new, now, leases)
    BY <2>2, <2>4 DEF RequestOK
  <2> QED
    BY <2>3, <2>5
<1>5. CASE SlotBegin(t)
  BY <1>5 DEF SlotBegin, NoSlots
<1>6. CASE ChangesBegin(t)
  <2>1. PICK key \in Key : \E from \in 0 .. dbs[key].version :
          txs' = [txs EXCEPT ![t] =
            [pc |-> IF from = dbs[key].version THEN "changes" ELSE "oldest", op |-> "changes",
             lock |-> Unlocked, key |-> key, from |-> from, life |-> life[key],
             to |-> dbs[key].version, complete |-> TRUE, blocks |-> {}]]
    BY <1>6 DEF ChangesBegin
  <2>2. PICK from \in 0 .. dbs[key].version :
          txs' = [txs EXCEPT ![t] =
            [pc |-> IF from = dbs[key].version THEN "changes" ELSE "oldest", op |-> "changes",
             lock |-> Unlocked, key |-> key, from |-> from, life |-> life[key],
             to |-> dbs[key].version, complete |-> TRUE, blocks |-> {}]]
    BY <2>1
  <2> DEFINE new == [pc |-> IF from = dbs[key].version THEN "changes" ELSE "oldest", op |-> "changes",
                     lock |-> Unlocked, key |-> key, from |-> from, life |-> life[key],
                     to |-> dbs[key].version, complete |-> TRUE, blocks |-> {}]
  <2>3. new.op = "changes" /\ new.pc \in {"changes", "oldest"} /\ txs' = [txs EXCEPT ![t] = new]
    BY <2>2
  <2> HIDE DEF new
  <2>4. RequestOK(new, now, leases)
    BY <2>3 DEF RequestOK
  <2> QED
    BY <2>3, <2>4
<1>7. CASE FetchBegin(t)
  <2>1. PICK key \in Key :
          txs' = [txs EXCEPT ![t] =
            [pc |-> "fetchBlocks", op |-> "fetch", lock |-> [Unlocked EXCEPT !.row = q!GetDatabase(key)],
             key |-> key, life |-> life[key]]]
    BY <1>7 DEF FetchBegin
  <2> DEFINE new == [pc |-> "fetchBlocks", op |-> "fetch", lock |-> [Unlocked EXCEPT !.row = q!GetDatabase(key)],
                     key |-> key, life |-> life[key]]
  <2>2. new.op = "fetch" /\ new.pc = "fetchBlocks" /\ txs' = [txs EXCEPT ![t] = new]
    BY <2>1
  <2> HIDE DEF new
  <2>3. RequestOK(new, now, leases)
    BY <2>2 DEF RequestOK
  <2> QED
    BY <2>2, <2>3
<1> QED
  BY <1>1, <1>2, <1>3, <1>4, <1>5, <1>6, <1>7 DEF Begin

\* Transaction t goes on with its request, or ends.
GoesOn(t) == \E new : txs' = [txs EXCEPT ![t] = new] /\ SameRequest(txs[t], new)

\* The end of a transaction.
LEMMA DoneGoesOn == ASSUME NEW t, Done(t) PROVE GoesOn(t)
<1>1. Idle.pc = "idle" /\ Idle.op = "none"
  BY DEF Idle
<1> QED
  BY <1>1 DEF Done, GoesOn, SameRequest

\* The steps that get the lock of a row, and wait for it.
LEMMA RowGoesOn ==
  ASSUME NEW t, txs[t] \in OpenTx \cup CommitTx \cup DeleteTx,
         NEW pc \in {"apply"} \cup RowWaits, NEW lk,
         txs' = [txs EXCEPT ![t] = [txs[t] EXCEPT !.pc = pc, !.lock = lk]]
  PROVE  GoesOn(t)
<1> DEFINE tx == txs[t]
           new == [tx EXCEPT !.pc = pc, !.lock = lk]
           Same == /\ new.pc = pc /\ new.op = tx.op /\ tx.op # "sweep" /\ new.at = tx.at
                   /\ new.op = "open" => new.key = tx.key /\ new.resume = tx.resume
<1>1. tx \in OpenTx => Same
  BY DEF OpenTx
<1>2. tx \in CommitTx => Same
  BY DEF CommitTx
<1>3. tx \in DeleteTx => Same
  BY DEF DeleteTx
<1>4. Same /\ pc # "sweepPurge" /\ txs' = [txs EXCEPT ![t] = new]
  BY <1>1, <1>2, <1>3 DEF RowWaits
<1> HIDE DEF new
<1>5. SameRequest(tx, new)
  BY <1>4 DEF SameRequest
<1> QED
  BY <1>4, <1>5 DEF GoesOn

\* The steps of a sweep but the one that purges slots.
LEMMA SweepGoesOn ==
  ASSUME NEW t, txs[t] \in SweepTx, NEW pc, pc # "sweepPurge", NEW lk, NEW c,
         txs' = [txs EXCEPT ![t] = SweepTo(txs[t], pc, lk, c)]
  PROVE  GoesOn(t)
<1> DEFINE tx == txs[t]
           new == SweepTo(tx, pc, lk, c)
<1>1. new.pc = pc /\ new.op = "sweep" /\ tx.op = "sweep" /\ new.cutoff = tx.cutoff
  BY DEF SweepTx, SweepTo
<1>2. txs' = [txs EXCEPT ![t] = new]
  OBVIOUS
<1> HIDE DEF new
<1>3. SameRequest(tx, new)
  BY <1>1 DEF SameRequest
<1> QED
  BY <1>2, <1>3 DEF GoesOn

\* SELECT ... FOR UPDATE of a database.
LEMMA LockGoesOn ==
  ASSUME TxInv, NEW t \in Tx, txs[t].pc \in RowWaits, NEW missing \in {"abort", "insert"},
         LockDatabase(t, "apply", missing)
  PROVE  GoesOn(t)
<1> DEFINE tx == txs[t]
           key == tx.key
<1>1. tx \in OpenTx \cup CommitTx \cup DeleteTx
  BY ByPC DEF TxInv, RowWaits
<1>2. CASE dbs[key].status # "missing"
  <2>1. txs' = [txs EXCEPT ![t] = [tx EXCEPT !.pc = "apply", !.lock = LockedRow(t)]]
    BY <1>2 DEF LockDatabase
  <2> QED
    BY <1>1, <2>1, RowGoesOn
<1>3. CASE dbs[key].status = "missing" /\ missing = "abort"
  <2>1. Done(t)
    BY <1>3 DEF LockDatabase, Done
  <2> QED
    BY <2>1, DoneGoesOn
<1>4. CASE dbs[key].status = "missing" /\ missing = "insert"
  <2>1. txs' = [txs EXCEPT ![t] = [tx EXCEPT !.pc = "insert"]]
    BY <1>4 DEF LockDatabase
  <2>2. txs' = [txs EXCEPT ![t] = [tx EXCEPT !.pc = "insert", !.lock = tx.lock]]
    BY <1>1, <2>1, RowTxLocks
  <2> QED
    BY <1>1, <2>2, RowGoesOn DEF RowWaits
<1> QED
  BY <1>2, <1>3, <1>4

\* The row of a database is inserted.
LEMMA CreateGoesOn ==
  ASSUME TxInv, NEW t \in Tx, createDatabase(t)
  PROVE  GoesOn(t)
<1> DEFINE tx == txs[t]
           key == tx.key
<1>1. tx \in OpenTx
  BY ByPC DEF TxInv, createDatabase, At
<1>2. PICK req \in RequestIn(t) :
        txs' = [txs EXCEPT ![t] =
          IF ~req.create \/ req.resume # NoResume \/ req.pageSize \notin PageSize THEN Idle
          ELSE IF dbs[key].status # "missing" THEN [@ EXCEPT !.pc = "relock"]
          ELSE [@ EXCEPT !.pc = "apply", !.lock.rows = {key},
                         !.lock.row = q!CreateDatabase(req.pageSize)]]
  BY DEF createDatabase
<1> DEFINE lk == [tx.lock EXCEPT !.rows = {key}, !.row = q!CreateDatabase(req.pageSize)]
<1>3. \/ Done(t)
      \/ txs' = [txs EXCEPT ![t] = [tx EXCEPT !.pc = "relock"]]
      \/ txs' = [txs EXCEPT ![t] = [tx EXCEPT !.pc = "apply", !.lock = lk]]
  BY <1>2 DEF Done
<1> HIDE DEF lk
<1>4. [tx EXCEPT !.pc = "relock"] = [tx EXCEPT !.pc = "relock", !.lock = tx.lock]
  BY <1>1, RowTxLocks
<1>5. CASE Done(t)
  BY <1>5, DoneGoesOn
<1>6. CASE txs' = [txs EXCEPT ![t] = [tx EXCEPT !.pc = "relock"]]
  <2>1. txs' = [txs EXCEPT ![t] = [tx EXCEPT !.pc = "relock", !.lock = tx.lock]]
    BY <1>4, <1>6
  <2> QED
    BY <1>1, <2>1, RowGoesOn DEF RowWaits
<1>7. CASE txs' = [txs EXCEPT ![t] = [tx EXCEPT !.pc = "apply", !.lock = lk]]
  BY <1>1, <1>7, RowGoesOn
<1> QED
  BY <1>3, <1>5, <1>6, <1>7

\* A statement of the sweep.
LEMMA SweepLockGoesOn ==
  ASSUME TxInv, NEW t \in Tx, SweepLock(t)
  PROVE  GoesOn(t)
<1> DEFINE tx == txs[t]
           c == Tail(tx.candidates)
           lk == [tx.lock EXCEPT !.rows = {Head(tx.candidates)}]
<1>1. tx \in SweepTx /\ tx.pc = "sweep"
  BY ByPC DEF TxInv, SweepLock, At
<1>2. \/ txs' = [txs EXCEPT ![t] = [tx EXCEPT !.pc = "failed"]]
      \/ txs' = [txs EXCEPT ![t] = [tx EXCEPT !.candidates = c]]
      \/ txs' = [txs EXCEPT ![t] = [tx EXCEPT !.pc = "holdsSlot", !.lock = lk]]
  <2> DEFINE db == dbs[Head(tx.candidates)]
  <2>1. CASE db.status = "missing"
    BY <2>1 DEF SweepLock
  <2>2. CASE db.status # "missing" /\ (db.status = "deleted" \/ db.expires >= tx.cutoff)
    BY <2>2 DEF SweepLock
  <2>3. CASE db.status # "missing" /\ ~(db.status = "deleted" \/ db.expires >= tx.cutoff)
    BY <2>3 DEF SweepLock
  <2> QED
    BY <2>1, <2>2, <2>3
<1> HIDE DEF c, lk
<1>3. \/ txs' = [txs EXCEPT ![t] = SweepTo(tx, "failed", tx.lock, tx.candidates)]
      \/ txs' = [txs EXCEPT ![t] = SweepTo(tx, "sweep", tx.lock, c)]
      \/ txs' = [txs EXCEPT ![t] = SweepTo(tx, "holdsSlot", lk, tx.candidates)]
  BY <1>1, <1>2, SweepTxSame
<1> QED
  BY <1>1, <1>3, SweepGoesOn

\* Without slots the sweep finds none to purge.
LEMMA HoldsGoesOn ==
  ASSUME TxInv, \A o \in Owner : slots[o] = NoSlot, NEW t \in Tx, HoldsSlot(t)
  PROVE  GoesOn(t)
<1> DEFINE tx == txs[t]
           s == Head(tx.candidates)[1]
<1>1. tx \in SweepTx /\ tx.candidates # <<>>
  BY ByPC DEF TxInv, RowsOK, HoldsSlot, At, Sweeping
<1>2. s \in Subject
  <2>1. tx.candidates \in Seq(Key)
    BY <1>1 DEF SweepTx
  <2>2. Head(tx.candidates) \in Key
    BY SMTT(60), <1>1, <2>1
  <2> QED
    BY <2>2 DEF Key
<1> HIDE DEF s
<1>3. NoSlot.subject = None
  BY DEF NoSlot
<1>4. ~q!HoldsSlot(s)
  BY <1>2, <1>3, ConstantsAssumption DEF q!HoldsSlot
<1>5. txs' = [txs EXCEPT ![t] = [tx EXCEPT !.pc = "sweepRemove"]]
  BY <1>4 DEF HoldsSlot, Goto, s
<1>6. txs' = [txs EXCEPT ![t] = SweepTo(tx, "sweepRemove", tx.lock, tx.candidates)]
  BY <1>1, <1>5, SweepTxSame
<1> QED
  BY <1>1, <1>6, SweepGoesOn

\* The step of the sweep that removes a database.
LEMMA SweepCommitGoesOn ==
  ASSUME TxInv, NEW t \in Tx, SweepCommit(t)
  PROVE  GoesOn(t)
<1>1. txs[t] \in SweepTx
  BY ByPC DEF TxInv, SweepCommit, Sweeping
<1>2. txs' = [txs EXCEPT ![t] = SweepTo(txs[t], "sweep", Unlocked, Tail(txs[t].candidates))]
  BY DEF SweepCommit, SweepTo
<1> QED
  BY <1>1, <1>2, SweepGoesOn

\* The steps that release a slot.
LEMMA ReleaseGoesOn ==
  ASSUME TxInv, NEW t \in Tx, ReleaseBegin(t) \/ ReleaseSlot(t)
  PROVE  GoesOn(t)
<1> DEFINE tx == txs[t]
<1>1. CASE ReleaseBegin(t)
  <2>1. tx.op = "sweep"
    BY SMTT(60), <1>1, ByPC DEF TxInv, ReleaseBegin, At, SweepTx
  <2> DEFINE new == [pc |-> "release", op |-> "sweep", lock |-> Unlocked, cutoff |-> tx.cutoff,
                     used |-> {s \in Subject : hasDatabases(dbs, s)}, owners |-> {o \in Owner : slots[o] # NoSlot}]
  <2>2. txs' = [txs EXCEPT ![t] = new]
    BY <1>1 DEF ReleaseBegin
  <2>3. new.pc = "release" /\ new.op = "sweep" /\ new.cutoff = tx.cutoff
    OBVIOUS
  <2> HIDE DEF new
  <2>4. SameRequest(tx, new)
    BY <2>1, <2>3 DEF SameRequest
  <2> QED
    BY <2>2, <2>4 DEF GoesOn
<1>2. CASE ReleaseSlot(t)
  <2>1. tx \in ReleaseTx
    BY <1>2, ByPC DEF TxInv, ReleaseSlot, At
  <2>2. CASE Done(t)
    BY <2>2, DoneGoesOn
  <2>3. CASE ~Done(t)
    <3>1. PICK owners, lk : txs' = [txs EXCEPT ![t] = [tx EXCEPT !.owners = owners, !.lock = lk]]
      <4>1. PICK o, held :
              txs' = [txs EXCEPT ![t] = [tx EXCEPT !.owners = tx.owners \ {o}, !.lock.update = held]]
        BY <1>2, <2>3 DEF ReleaseSlot
      <4> QED
        BY <4>1
    <3> DEFINE new == [tx EXCEPT !.owners = owners, !.lock = lk]
    <3>2. new.pc = "release" /\ new.op = "sweep" /\ tx.op = "sweep" /\ new.cutoff = tx.cutoff
      BY <2>1 DEF ReleaseTx
    <3>3. txs' = [txs EXCEPT ![t] = new]
      BY <3>1
    <3> HIDE DEF new
    <3>4. SameRequest(tx, new)
      BY <3>2 DEF SameRequest
    <3> QED
      BY <3>3, <3>4 DEF GoesOn
  <2> QED
    BY <2>2, <2>3
<1> QED
  BY <1>1, <1>2

\* A statement of Changes.
LEMMA ChangesGoesOn ==
  ASSUME TxInv, NEW t \in Tx, OldestChange(t) \/ ChangedSince(t)
  PROVE  GoesOn(t)
<1> DEFINE tx == txs[t]
<1>1. tx \in ChangesTx
  BY ByPC DEF TxInv, OldestChange, ChangedSince, At
<1>2. ASSUME NEW new, txs' = [txs EXCEPT ![t] = new], new.op = "changes", new.pc # "sweepPurge"
      PROVE  GoesOn(t)
  BY <1>2 DEF GoesOn, SameRequest
<1>3. CASE ChangedSince(t)
  <2> DEFINE b == UNION {row.blocks : row \in q!ChangedSince(tx.key, tx.from)}
             new == [tx EXCEPT !.pc = "changes", !.blocks = b]
  <2>1. new.op = "changes" /\ new.pc = "changes"
    BY <1>1 DEF ChangesTx
  <2>2. txs' = [txs EXCEPT ![t] = new]
    BY <1>3 DEF ChangedSince
  <2> HIDE DEF new
  <2> QED
    BY <1>2, <2>1, <2>2
<1>4. CASE OldestChange(t)
  <2> DEFINE oldest == q!OldestChange(tx.key)
             all == [tx EXCEPT !.pc = "changes", !.complete = FALSE]
             since == [tx EXCEPT !.pc = "since"]
  <2>1. all.op = "changes" /\ all.pc = "changes" /\ since.op = "changes" /\ since.pc = "since"
    BY <1>1 DEF ChangesTx
  <2>2. txs' = [txs EXCEPT ![t] = all] \/ txs' = [txs EXCEPT ![t] = since]
    <3>1. CASE oldest = 0 \/ oldest > tx.from + 1
      BY <1>4, <3>1 DEF OldestChange
    <3>2. CASE ~(oldest = 0 \/ oldest > tx.from + 1)
      BY <1>4, <3>2 DEF OldestChange
    <3> QED
      BY <3>1, <3>2
  <2> HIDE DEF all, since
  <2> QED
    BY <1>2, <2>1, <2>2
<1> QED
  BY <1>3, <1>4

\* Without slots nobody claims or deletes one, and none is shared.
SlotStep(t) ==
  \/ ShareSlot(t) \/ ClaimLock(t) \/ DeleteSlotLock(t) \/ InsertSlot(t) \/ PurgeLock(t) \/ PurgeCommit(t)

\* Without slots there is nothing such a step could be about.
LEMMA NoSlotSteps ==
  ASSUME NoSlots, TxInv, NEW t \in Tx
  PROVE  ~SlotStep(t)
<1> SUFFICES ASSUME SlotStep(t) PROVE FALSE
  OBVIOUS
<1>1. txs[t] \in Transaction /\ SlotsOK(txs[t], slots)
  BY DEF TxInv
<1>2. CASE ShareSlot(t)
  <2>1. txs[t].pc = "shareSlot" /\ txs[t] \in OpenTx
    BY <1>1, <1>2, ByPC DEF ShareSlot, At
  <2>2. txs[t].subject \in Subject
    BY <2>1 DEF OpenTx
  <2> QED
    BY <1>1, <2>1, <2>2 DEF SlotsOK, NoSlots
<1>3. CASE ~ShareSlot(t)
  <2>1. txs[t].pc \in {"lockSlot", "relockSlot", "insertSlot", "purge"}
    BY <1>3 DEF SlotStep, ClaimLock, DeleteSlotLock, InsertSlot, PurgeLock, PurgeCommit, At
  <2>2. txs[t] \in SlotTx
    BY <1>1, <2>1, ByPC
  <2>3. txs[t].subject \in Subject /\ OwnerOf[txs[t].subject] # NoOwner
    BY <2>2 DEF SlotTx
  <2> QED
    BY <2>3 DEF NoSlots
<1> QED
  BY <1>2, <1>3

\* Every step of a transaction after its first keeps the request.
LEMMA StepGoesOn ==
  ASSUME NoSlots, TxInv, \A o \in Owner : slots[o] = NoSlot, NEW t \in Tx,
         ReadStep(t) \/ WriteStep(t), ~Begin(t)
  PROVE  GoesOn(t)
<1>1. ~SlotStep(t)
  BY NoSlotSteps
<1>2. CASE Done(t)
  BY <1>2, DoneGoesOn
<1>3. CASE OpenLock(t) \/ Relock(t) \/ CommitLock(t) \/ DeleteLock(t)
  <2>1. txs[t].pc \in RowWaits /\ \E missing \in {"abort", "insert"} : LockDatabase(t, "apply", missing)
    BY <1>3 DEF OpenLock, Relock, CommitLock, DeleteLock, At, RowWaits
  <2> QED
    BY <2>1, LockGoesOn
<1>4. CASE createDatabase(t) \/ SweepLock(t) \/ HoldsSlot(t) \/ SweepCommit(t) \/ ReleaseBegin(t)
           \/ ReleaseSlot(t) \/ OldestChange(t) \/ ChangedSince(t)
  BY <1>4, CreateGoesOn, SweepLockGoesOn, HoldsGoesOn, SweepCommitGoesOn, ReleaseGoesOn, ChangesGoesOn
<1>5. Done(t) \/ ~(Abort(t) \/ ChangesReturn(t) \/ FetchReturn(t) \/ OpenCommit(t) \/ ResumeCommit(t)
                   \/ RepeatCommit(t) \/ ApplyCommit(t) \/ DeleteCommit(t))
  BY DEF Abort, ChangesReturn, FetchReturn, OpenCommit, ResumeCommit, RepeatCommit, ApplyCommit,
         writeCommit, DeleteCommit
<1> QED
  BY <1>1, <1>2, <1>3, <1>4, <1>5 DEF ReadStep, WriteStep, SlotStep

\* What is left alone: the slots, and the clock while a transaction does something.
LEMMA SlotsStay ==
  ASSUME NoSlots, StoreTypeOK, TxInv, Reads, \A o \in Owner : slots[o] = NoSlot, [PgNext]_pgVars
  PROVE  slots' = slots
<1>1. CASE SetLabel
  BY <1>1 DEF SetLabel, NoSlots
<1>2. ASSUME NEW t \in Tx, ReadStep(t) PROVE slots' = slots
  BY <1>2, ReadMoves DEF vars
<1>3. ASSUME NEW t \in Tx, WriteStep(t) PROVE slots' = slots
  <2>1. ~SlotStep(t)
    BY NoSlotSteps
  <2>2. CASE ReleaseSlot(t)
    <3>1. \/ slots' = slots
          \/ slots' = [o \in Owner |-> IF o \in txs[t].lock.update THEN NoSlot ELSE slots[o]]
      BY <2>2 DEF ReleaseSlot
    <3>2. slots = [o \in Owner |-> slots[o]]
      BY DEF StoreTypeOK
    <3>3. [o \in Owner |-> IF o \in txs[t].lock.update THEN NoSlot ELSE slots[o]] = [o \in Owner |-> slots[o]]
      BY SMTT(60)
    <3> QED
      BY <3>1, <3>2, <3>3
  <2> QED
    BY <1>3, <2>1, <2>2 DEF WriteStep, SlotStep, OpenCommit, ResumeCommit, RepeatCommit, ApplyCommit,
       writeCommit, DeleteCommit, SweepCommit
<1>4. CASE RenewLease \/ ReleaseLease \/ (Tick /\ UNCHANGED txs) \/ UNCHANGED pgVars
  BY <1>4 DEF RenewLease, ReleaseLease, Tick, pgVars, vars
<1>5. CASE PgNext
  BY <1>1, <1>2, <1>3, <1>4, <1>5 DEF PgNext, ReadStep, WriteStep
<1> QED
  BY <1>4, <1>5

\* No transaction moves the clock or forgets a lease.
LEMMA ClockStays ==
  ASSUME StoreTypeOK, TxInv, Reads, NEW t \in Tx, ReadStep(t) \/ WriteStep(t)
  PROVE  now' = now /\ leases \subseteq leases'
<1>1. CASE ReadStep(t)
  BY <1>1, ReadMoves DEF vars
<1>2. CASE WriteStep(t)
  BY <1>2 DEF WriteStep, OpenCommit, ResumeCommit, RepeatCommit, ApplyCommit, writeCommit, DeleteCommit,
     SweepCommit, ReleaseSlot, InsertSlot, PurgeCommit
<1> QED
  BY <1>1, <1>2

\* Every step keeps the requests.
LEMMA RequestsStep ==
  ASSUME NoSlots, StoreTypeOK, TxInv, Reads, RequestsInv, [PgNext]_pgVars
  PROVE  RequestsInv'
<1>1. /\ \A o \in Owner : slots[o] = NoSlot
      /\ now \in Nat /\ now <= MaxTime /\ MaxTime \in Nat /\ txs \in [Tx -> Transaction]
      /\ \A u \in Tx : RequestOK(txs[u], now, leases)
  BY ConstantsAssumption DEF RequestsInv, StoreTypeOK, TxInv
<1>2. slots' = slots
  BY <1>1, SlotsStay
<1>3. ASSUME NEW t \in Tx, ReadStep(t) \/ WriteStep(t) PROVE RequestsInv'
  <2>1. now' = now /\ leases \subseteq leases' /\ now <= now
    BY SMTT(60), <1>1, <1>3, ClockStays
  <2>2. PICK new : txs' = [txs EXCEPT ![t] = new] /\ RequestOK(new, now, leases)
    <3>1. CASE Begin(t)
      BY <3>1, BeginRequest
    <3>2. CASE ~Begin(t)
      BY <1>1, <1>3, <3>2, StepGoesOn, SameRequestOK DEF GoesOn
    <3> QED
      BY <3>1, <3>2
  <2>3. \A u \in Tx : txs'[u] = IF u = t THEN new ELSE txs[u]
    BY <1>1, <2>2
  <2>4. \A u \in Tx : RequestOK(txs'[u], now, leases)
    BY <1>1, <2>2, <2>3
  <2>5. \A u \in Tx : txs'[u] \in Transaction
    BY <1>1, <1>3, ReadMoves, WriteMoves DEF Moved
  <2>6. \A u \in Tx : RequestOK(txs'[u], now', leases')
    BY <1>1, <2>1, <2>4, <2>5, OlderRequestOK
  <2> QED
    BY <1>1, <1>2, <2>1, <2>6 DEF RequestsInv
<1>4. CASE RenewLease \/ ReleaseLease \/ SetLabel \/ UNCHANGED pgVars
  <2>1. now' = now /\ leases' = leases /\ txs' = txs
    BY <1>4 DEF RenewLease, ReleaseLease, SetLabel, pgVars, vars
  <2> QED
    BY <1>1, <1>2, <2>1 DEF RequestsInv
<1>5. CASE Tick /\ UNCHANGED txs
  <2>1. now' \in Nat /\ now <= now' /\ now' <= MaxTime /\ leases \subseteq leases' /\ txs' = txs
    BY SMTT(60), <1>1, <1>5 DEF Tick
  <2>2. \A u \in Tx : RequestOK(txs[u], now', leases')
    BY <1>1, <2>1, OlderRequestOK
  <2> QED
    BY <1>1, <1>2, <2>1, <2>2 DEF RequestsInv
<1>6. CASE PgNext
  BY <1>3, <1>4, <1>5, <1>6 DEF PgNext, ReadStep, WriteStep
<1> QED
  BY <1>4, <1>6
=============================================================================
