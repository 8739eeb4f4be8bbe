-------------------------- MODULE PostgresProofs --------------------------
(***************************************************************************)
(* Theorems about the PostgreSQL store, for any number of transactions.    *)
(***************************************************************************)
EXTENDS PostgresTransactions, StoreContentProofs

USE ZenonT(60), SMTT(60)

-----------------------------------------------------------------------------
(* The invariant of the transactions *)

\* Every effect keeps what Changes knows.
LEMMA ChangesKept ==
  ASSUME StoreTypeOK, StoreTypeOK', StoreInv, Effect, NEW tx \in Transaction, ChangesOK(tx, dbs, life)
  PROVE  ChangesOK(tx, dbs', life')
<1> SUFFICES ASSUME tx.op = "changes" PROVE ChangesOK(tx, dbs', life')
  BY DEF ChangesOK
<1> DEFINE k == tx.key
           db == dbs[k]
           new == dbs'[k]
<1>1. k \in Key /\ tx.life \in Nat /\ tx.to \in Nat
  BY ByOp DEF ChangesTx
<1>2. life[k] \in Nat /\ life'[k] \in Nat /\ db.version \in Nat /\ new.version \in Nat
  BY <1>1 DEF StoreTypeOK, Database
<1>3. ASSUME new.version = db.version, new.changes = db.changes
      PROVE  /\ LogReaches(new, tx.from) <=> LogReaches(db, tx.from)
             /\ Changes(new, tx.from) = Changes(db, tx.from)
  BY <1>3 DEF LogReaches, Changes
<1>4. \/ life'[k] = life[k] /\ new.version = db.version /\ new.changes = db.changes
      \/ life'[k] = life[k] /\ new.version = db.version + 1
      \/ life'[k] = life[k] + 1
  BY <1>1, LogEffect
<1>5. tx.life <= life[k] /\ (tx.life = life[k] => tx.to <= db.version)
  BY DEF ChangesOK
<1>6. CASE life'[k] = life[k] /\ new.version = db.version /\ new.changes = db.changes
  BY <1>3, <1>6 DEF ChangesOK
<1>7. CASE life'[k] = life[k] /\ new.version = db.version + 1
  BY SMTT(60), <1>1, <1>2, <1>5, <1>7 DEF ChangesOK
<1>8. CASE life'[k] = life[k] + 1
  BY SMTT(60), <1>1, <1>2, <1>5, <1>8 DEF ChangesOK
<1> QED
  BY <1>4, <1>6, <1>7, <1>8

\* Every effect keeps what Fetch knows.
LEMMA FetchKept ==
  ASSUME StoreTypeOK, StoreTypeOK', StoreInv, Effect, NEW tx \in Transaction,
         applied \subseteq applied', FetchOK(tx, dbs, life, applied)
  PROVE  FetchOK(tx, dbs', life', applied')
<1> SUFFICES ASSUME tx.op = "fetch" PROVE FetchOK(tx, dbs', life', applied')
  BY DEF FetchOK
<1> DEFINE k == tx.key
           v == tx.lock.row.version
<1>1. k \in Key /\ tx.life \in Nat /\ v \in Nat
  BY ByOp DEF FetchTx, Locks, Database
<1>2. life[k] \in Nat /\ life'[k] \in Nat /\ dbs[k].version \in Nat /\ dbs'[k].version \in Nat
  BY <1>1 DEF StoreTypeOK, Database
<1>3. tx.life <= life[k] /\ (tx.life = life[k] => v <= dbs[k].version)
  BY DEF FetchOK
<1>4. tx.life <= life'[k] /\ (tx.life = life'[k] => v <= dbs'[k].version)
  <2>1. \/ life'[k] = life[k] /\ dbs'[k].version = dbs[k].version
        \/ life'[k] = life[k] /\ dbs'[k].version = dbs[k].version + 1
        \/ life'[k] = life[k] + 1
    BY <1>1, LogEffect
  <2> HIDE DEF k, v
  <2> QED
    BY SMTT(60), <1>1, <1>2, <1>3, <2>1
<1>5. ASSUME NEW a \in applied' \ applied, IsOf(a, tx) PROVE FALSE
  <2>1. a.lease.key = k /\ a.life = tx.life /\ a.version = v
    BY <1>5 DEF IsOf
  <2>2. a.life = life[k] /\ a.version = dbs[k].version + 1
    BY <1>5, <2>1, AppliedEffect
  <2> QED
    BY SMTT(60), <1>1, <1>2, <1>3, <2>1, <2>2
<1>6. tx.lock.row.pageCount <= MaxPages
  BY DEF FetchOK
<1>7. /\ \A a \in applied' : IsOf(a, tx) => a.blocks = tx.lock.row.blocks
      /\ (\A a \in applied' : ~IsOf(a, tx)) => tx.lock.row.blocks = NoBlocks
  BY <1>5 DEF FetchOK
<1> QED
  BY <1>4, <1>6, <1>7 DEF FetchOK

\* Every step keeps the invariant of the transactions.
LEMMA TxInvStep ==
  ASSUME StoreTypeOK, StoreTypeOK', StoreInv, Effect, TxInv, Reads, [PgNext]_pgVars
  PROVE  TxInv'
<1> DEFINE OK(tx) == /\ RowsOK(tx, dbs') /\ SlotsOK(tx, slots') /\ CommitOK(tx, leases', applied')
                     /\ ChangesOK(tx, dbs', life') /\ FetchOK(tx, dbs', life', applied')
<1>1. ASSUME NEW tx \in Transaction, ChangesOK(tx, dbs, life), FetchOK(tx, dbs, life, applied)
      PROVE  ChangesOK(tx, dbs', life') /\ FetchOK(tx, dbs', life', applied')
  BY <1>1, ChangesKept, FetchKept, AppliedGrows
<1>2. \A u \in Tx : ChangesOK(txs[u], dbs', life') /\ FetchOK(txs[u], dbs', life', applied')
  BY <1>1 DEF TxInv
<1>3. ASSUME NEW t \in Tx, Wrote(t), NEW new, Moved(t, new)
      PROVE  TxInv'
  <2>1. txs' \in [Tx -> Transaction] /\ txs'[t] = new /\ \A u \in Tx \ {t} : txs'[u] = txs[u]
    BY <1>3 DEF Moved, TxInv
  <2>2. CommitOK(new, leases', applied')
    <3>1. CASE applied' = applied
      BY <1>3, <3>1 DEF Moved, Wrote, CommitOK
    <3>2. CASE applied' # applied
      <4>1. new = Idle
        BY <1>3, <2>1, <3>2 DEF Wrote, TxInv
      <4> QED
        BY <4>1 DEF Idle, CommitOK
    <3> QED
      BY <3>1, <3>2
  <2>3. OK(new)
    BY <1>1, <1>3, <2>2 DEF Moved
  <2>4. \A u \in Tx \ {t} : OK(txs[u])
    BY <1>2, <1>3, OthersStep
  <2>5. \A u \in Tx : OK(txs'[u])
    BY <2>1, <2>3, <2>4
  <2>6. \A u, w \in Tx : SameCommit(txs'[u], txs'[w])
    <3>1. \A u \in Tx \ {t} : SameCommit(new, txs[u])
      BY <1>3 DEF Moved
    <3>2. SameCommit(new, new) /\ \A u \in Tx \ {t} : SameCommit(txs[u], new)
      BY <3>1 DEF SameCommit
    <3>3. \A u, w \in Tx \ {t} : SameCommit(txs[u], txs[w])
      BY DEF TxInv
    <3> SUFFICES ASSUME NEW u \in Tx, NEW w \in Tx PROVE SameCommit(txs'[u], txs'[w])
      OBVIOUS
    <3>4. CASE u = t
      BY <2>1, <3>1, <3>2, <3>4
    <3>5. CASE u # t
      BY SMTT(60), <2>1, <3>2, <3>3, <3>5
    <3> QED
      BY <3>4, <3>5
  <2>7. Exclusive'
    BY <1>3, ExclusiveStep
  <2>8. \A o \in Owner : slots'[o] = NoSlot \/ slots'[o].subject # None
    BY <1>3 DEF Wrote
  <2> QED
    BY <2>1, <2>5, <2>6, <2>7, <2>8 DEF TxInv
<1>4. CASE Alone
  <2>1. ASSUME NEW u \in Tx PROVE OK(txs[u])
    <3> DEFINE ux == txs[u]
    <3>1. ux \in Transaction /\ RowsOK(ux, dbs) /\ SlotsOK(ux, slots) /\ CommitOK(ux, leases, applied)
      BY DEF TxInv
    <3>2. ux.lock.rows \subseteq Key /\ ux.lock.update \subseteq Owner
      BY <3>1, ByOp DEF Locks
    <3>3. RowsOK(ux, dbs')
      BY <1>4, <3>1, <3>2, RowsKept DEF Alone
    <3>4. SlotsOK(ux, slots')
      BY <1>4, <3>1, <3>2, SlotsKept DEF Alone, SlotsOK
    <3>5. CommitOK(ux, leases', applied')
      BY <1>4, <3>1 DEF Alone
    <3> QED
      BY <1>2, <3>3, <3>4, <3>5
  <2>2. txs' = txs /\ \A o \in Owner : slots'[o] = NoSlot \/ slots'[o].subject # None
    BY <1>4 DEF Alone
  <2> QED
    BY <2>1, <2>2 DEF TxInv, Exclusive
<1> QED
  BY <1>3, <1>4, Steps

-----------------------------------------------------------------------------
(***************************************************************************)
(* What a transaction does to the records when it commits: the effects of  *)
(* StoreProofs.                                                            *)
(***************************************************************************)

\* A request of Open without a lease to resume.
NewOpens(key, at) ==
  [key : {key}, instance : Instance, pageSize : PageSize \cup {0}, create : BOOLEAN,
   takeover : BOOLEAN, resume : {NoResume}, now : {at}]

NewOpen(key, at, i, p, c, x) ==
  [key |-> key, instance |-> i, pageSize |-> p, create |-> c,
   takeover |-> x, resume |-> NoResume, now |-> at]

(***************************************************************************)
(* Open grants a lease that the store grants too, unless it finds the slot *)
(* taken.  A transaction that inserted the row is a request that creates   *)
(* the database.                                                           *)
(***************************************************************************)
LEMMA OpenGrants ==
  ASSUME StoreTypeOK, StoreInv, TxInv, NEW t \in Tx, OpenCommit(t)
  PROVE  LET key == txs[t].key IN
         \E r \in NewOpens(key, txs[t].at) :
           /\ key \in Key /\ txs[t].at \in Nat /\ r.key = key
           /\ r.instance \in Instance /\ r.pageSize \in PageSize \cup {0} /\ r.now = txs[t].at
           /\ ~SlotTaken(r) => OpenOutcome(r) = "granted"
           /\ dbs' = [dbs EXCEPT ![key] = Granted(dbs[key], r)]
           /\ leases' = leases \cup {NewLease(key)}
           /\ minted < MaxLeases /\ minted' = minted + 1
           /\ UNCHANGED <<slots, now, life, applied>>
<1> DEFINE tx == txs[t]
           key == tx.key
           db == dbs[key]
<1>1. tx.pc = "apply" /\ tx.op = "open" /\ tx \in OpenTx
  BY ByOp DEF OpenCommit, At, TxInv
<1>2. key \in Key /\ tx.at \in Nat /\ (db.status # "missing" => tx.lock.row = db)
  BY <1>1, ApplyRow DEF OpenTx
<1>3. db \in Database /\ (db.status = "missing" => db = NoDatabase)
  BY <1>2 DEF StoreTypeOK, StoreInv
<1>4. PICK req \in RequestIn(t) :
        /\ RowUsable(tx.lock.row, req) /\ req.resume = NoResume /\ LeaseGrantable(tx.lock.row, req)
        /\ dbs' = [dbs EXCEPT ![key] =
             q!GrantLease(reviveDatabase(RowIn(t), req), minted + 1, req.instance, req.now + TTL)]
  BY DEF OpenCommit
<1>5. /\ req.key = key /\ req.instance \in Instance /\ req.pageSize \in PageSize \cup {0}
      /\ req.create \in BOOLEAN /\ req.takeover \in BOOLEAN /\ req.now = tx.at
  BY <1>1 DEF RequestIn, OpenTx
<1>6. PICK r \in NewOpens(key, tx.at) :
        /\ r.key = key /\ r.instance \in Instance /\ r.pageSize \in PageSize \cup {0} /\ r.now = tx.at
        /\ ~SlotTaken(r) => OpenOutcome(r) = "granted"
        /\ dbs' = [dbs EXCEPT ![key] = Granted(db, r)]
  <2>1. CASE db.status # "missing"
    <3> DEFINE r == NewOpen(key, tx.at, req.instance, req.pageSize, req.create, req.takeover)
    <3>1. /\ r \in NewOpens(key, tx.at)
          /\ r.key = key /\ r.instance = req.instance /\ r.pageSize = req.pageSize /\ r.create = req.create
          /\ r.takeover = req.takeover /\ r.resume = NoResume /\ r.now = tx.at
      BY <1>5 DEF NewOpen, NewOpens
    <3> HIDE DEF r
    <3>2. Granted(db, r) = Granted(db, req)
      BY <1>5, <3>1 DEF Granted
    <3>3. dbs' = [dbs EXCEPT ![key] = Granted(db, r)]
      BY <1>3, <1>4, <2>1, <3>2, GrantLeaseGrants DEF RowIn
    <3>4. db.status \in {"live", "deleted"}
      BY <1>3, <2>1 DEF Database
    <3>5. RowUsable(db, req) /\ LeaseGrantable(db, req)
      BY <1>2, <1>4, <2>1
    <3>6. RowUsable(db, r) /\ LeaseGrantable(db, r)
      BY <1>4, <1>5, <3>1, <3>5 DEF RowUsable, LeaseGrantable
    <3>7. ~SlotTaken(r) => OpenOutcome(r) = "granted"
      BY <3>1, <3>4, <3>6 DEF OpenOutcome, RowUsable, LeaseGrantable, Active
    <3> QED
      BY <1>5, <3>1, <3>3, <3>7
  <2>2. CASE db.status = "missing"
    <3>1. PICK p \in PageSize : tx.lock.row = q!CreateDatabase(p)
      BY <1>1, <2>2 DEF TxInv, RowsOK
    <3> DEFINE r == NewOpen(key, tx.at, req.instance, p, TRUE, req.takeover)
    <3>2. /\ r \in NewOpens(key, tx.at)
          /\ r.key = key /\ r.instance = req.instance /\ r.pageSize = p /\ r.create = TRUE
          /\ r.takeover = req.takeover /\ r.resume = NoResume /\ r.now = tx.at
      BY <1>5 DEF NewOpen, NewOpens
    <3> HIDE DEF r
    <3>3. db = NoDatabase /\ db.holder = None
      BY <1>3, <2>2, NoDatabaseFields
    <3>4. RowIn(t) = q!CreateDatabase(p)
      BY <2>2, <3>1 DEF RowIn
    <3>5. q!GrantLease(reviveDatabase(q!CreateDatabase(p), req), minted + 1, req.instance, req.now + TTL)
            = Granted(NoDatabase, r)
      BY SMTT(60), <1>5, <3>2, CreateGrants
    <3>6. dbs' = [dbs EXCEPT ![key] = Granted(db, r)]
      BY <1>4, <3>3, <3>4, <3>5
    <3>7. ~SlotTaken(r) => OpenOutcome(r) = "granted"
      BY <2>2, <3>2, <3>3 DEF OpenOutcome, Active
    <3> QED
      BY <1>5, <3>2, <3>6, <3>7
  <2> QED
    BY <2>1, <2>2
<1>7. tx.lock.row.version = db.version
  <2>1. CASE db.status = "missing"
    <3>1. \E p \in PageSize : tx.lock.row = q!CreateDatabase(p)
      BY <1>1, <2>1 DEF TxInv, RowsOK
    <3>2. db.version = 0
      BY <1>3, <2>1, NoDatabaseFields
    <3> QED
      BY <3>1, <3>2 DEF q!CreateDatabase, NoDatabase
  <2> QED
    BY <1>2, <2>1
<1>8. dbs'[key] = Granted(db, r) /\ dbs'[key].epoch = db.epoch + 1
  BY <1>2, <1>3, <1>6, GrantedFields DEF StoreTypeOK
<1>9. /\ leases' = leases \cup {NewLease(key)} /\ UNCHANGED <<slots, now, life, applied>>
      /\ minted < MaxLeases /\ minted' = minted + 1
  BY <1>7, <1>8 DEF OpenCommit, NewLease
<1> QED
  BY <1>2, <1>6, <1>9

\* So Open without a resumed lease has an effect the store allows.
LEMMA OpenEffect ==
  ASSUME StoreTypeOK, StoreInv, TxInv, NEW t \in Tx, OpenCommit(t)
  PROVE  Effect /\ StoreTypeOK'
<1> DEFINE key == txs[t].key
           db == dbs[key]
<1>1. PICK r :
        /\ key \in Key /\ txs[t].at \in Nat /\ r.key = key
        /\ r.instance \in Instance /\ r.pageSize \in PageSize \cup {0} /\ r.now = txs[t].at
        /\ dbs' = [dbs EXCEPT ![key] = Granted(db, r)]
        /\ leases' = leases \cup {NewLease(key)} /\ minted' = minted + 1
        /\ UNCHANGED <<slots, now, life, applied>>
  BY OpenGrants
<1>2. db \in Database /\ minted \in Nat
  BY <1>1 DEF StoreTypeOK
<1>3. Grants(key, r)
  BY <1>1 DEF Grants
<1>4. Granted(db, r) \in Database
  BY <1>1, <1>2, GrantedType
<1>5. dbs' \in [Key -> Database]
  BY <1>1, <1>4 DEF StoreTypeOK
<1>6. leases' \subseteq Lease /\ minted' \in Nat
  BY SMTT(60), <1>1, <1>2, NewLeaseType DEF StoreTypeOK
<1> QED
  BY <1>1, <1>3, <1>5, <1>6 DEF Effect, StoreTypeOK

\* A resumed Open, a repeated commit and a deletion.
LEMMA ApplyEffect ==
  ASSUME StoreTypeOK, StoreInv, TxInv, NEW t \in Tx, ResumeCommit(t) \/ RepeatCommit(t) \/ DeleteCommit(t)
  PROVE  Effect /\ StoreTypeOK'
<1> DEFINE tx == txs[t]
           key == tx.key
           db == dbs[key]
<1>1. tx.pc = "apply" /\ UNCHANGED <<slots, now, minted, life, leases, applied>>
  BY DEF ResumeCommit, RepeatCommit, DeleteCommit, At
<1>2. key \in Key /\ (db.status # "missing" => tx.lock.row = db) /\ (tx.op # "open" => db.status # "missing")
  BY <1>1, ApplyRow
<1>3. tx.at \in Nat
  BY SMTT(60), <1>1, ByPC DEF TxInv, OpenTx, CommitTx, DeleteTx
<1>4. db \in Database /\ (db.status # "live" => db.holder = None)
  BY <1>2 DEF StoreTypeOK, StoreInv
<1>5. CASE ResumeCommit(t) \/ RepeatCommit(t)
  <2>1. ASSUME NEW req \in RequestIn(t) PROVE req.now = tx.at
    BY DEF RequestIn
  <2>2. dbs' = [dbs EXCEPT ![key] = q!ExtendLease(db, tx.lock.row.epoch, tx.at + TTL)]
    BY <1>5, <2>1 DEF ResumeCommit, RepeatCommit
  <2> QED
    BY <1>1, <1>2, <1>3, <1>4, <2>2, ExtendKept, UpdateEffect
<1>6. CASE DeleteCommit(t)
  <2>1. db.status = "live" /\ dbs' = [dbs EXCEPT ![key] = remove(db)]
    BY <1>2, <1>6 DEF DeleteCommit
  <2> QED
    BY <1>1, <1>2, <1>4, <2>1, RemoveDeletes, UpdateEffect
<1> QED
  BY <1>5, <1>6

\* The request of a commit in progress is one of the callers of the store.
LEMMA CommitNames ==
  ASSUME TxInv, NEW t \in Tx, txs[t].op = "commit"
  PROVE  LET req == txs[t].req IN
         /\ req \in CommitRequest /\ NamesOneCommit(req)
         /\ req.lease \in leases /\ req.id # None /\ txs[t].key = req.lease.key
<1> DEFINE tx == txs[t]
           req == tx.req
<1>1. tx \in CommitTx
  BY ByOp DEF TxInv
<1>2. /\ req.lease \in leases /\ req.id # None /\ tx.key = req.lease.key
      /\ \A a \in applied : a.id = req.id => a.lease.key = req.lease.key /\ a.version = req.base + 1
  BY <1>1 DEF TxInv, CommitOK
<1>3. tx.req \in Requests
  BY <1>1 DEF CommitTx
<1>4. req \in CommitRequest
  <2> HIDE DEF req
  <2>1. /\ req = [lease |-> req.lease, id |-> req.id, base |-> req.base, pageCount |-> req.pageCount,
                  blocks |-> req.blocks, size |-> req.size]
        /\ req.id \in CommitID \cup {None} /\ req.base \in 0 .. MaxVersion
        /\ req.pageCount \in 0 .. MaxPages /\ req.blocks \in BlockList /\ req.size \in PageSize
    BY <1>3 DEF Requests, req
  <2> QED
    BY <1>2, <2>1 DEF CommitRequest, req
<1> QED
  BY <1>2, <1>4 DEF NamesOneCommit

\* A commit applies its request.
LEMMA CommitApplies ==
  ASSUME StoreTypeOK, TxInv, Reads, NEW t \in Tx, ApplyCommit(t)
  PROVE  Applies(txs[t].req, txs[t].at)
<1> DEFINE tx == txs[t]
           key == tx.key
           db == dbs[key]
           req == tx.req
<1>1. tx.pc = "apply" /\ tx.op = "commit" /\ tx \in CommitTx
  BY ByOp DEF ApplyCommit, At, TxInv
<1>2. key \in Key /\ tx.lock.row = db /\ db.status # "missing"
  BY <1>1, ApplyRow
<1>3. db \in Database /\ LogOK(db) /\ LogFits(db)
  BY <1>2 DEF StoreTypeOK, Reads
<1>4. /\ req \in CommitRequest /\ NamesOneCommit(req)
      /\ req.lease \in leases /\ req.id # None /\ key = req.lease.key
  BY <1>1, CommitNames
<1>5. tx.at \in Nat
  BY <1>1 DEF CommitTx
<1>6. /\ req.pageCount \in Nat /\ req.id \in CommitID /\ req.size \in PageSize
      /\ req.blocks \in Seq(Nat) /\ req.lease \in Lease
  BY <1>4, CommitRequestType
<1>7. /\ holds(db, req.lease.epoch) /\ ~Repeats(db, req)
      /\ db.version = req.base /\ ValidateCommit(db.pageSize, req)
  BY <1>2 DEF ApplyCommit
<1>8. CommitOutcome(req) = "applied"
  BY <1>2, <1>4, <1>7 DEF CommitOutcome, Conflicts, Holds, holds
<1>9. recordChange(q!ApplyCommit(q!DeleteBlocksFrom(putBlocks(db, req), req.pageCount),
                                 req.pageCount, req.id, tx.at + TTL), req) = Committed(db, req, tx.at)
  BY <1>3, <1>5, <1>6, WriteCommits
<1> DEFINE new == Committed(db, req, tx.at)
<1>10. /\ new.version <= MaxVersion /\ dbs' = [dbs EXCEPT ![key] = new]
       /\ applied' = applied \cup {[lease |-> req.lease, life |-> life[key], version |-> new.version,
                                    id |-> req.id, pageCount |-> new.pageCount, blocks |-> new.blocks]}
       /\ UNCHANGED <<slots, now, minted, life, leases>>
  BY <1>9 DEF ApplyCommit, writeCommit
<1>11. /\ new.version = db.version + 1 /\ new.pageCount = req.pageCount
       /\ new.blocks = Written(db.blocks, req)
  <2>1. new.version = db.version + 1 /\ new.pageCount = req.pageCount
    BY SMTT(60), <1>3, CommittedFields
  <2>2. new.blocks = Written(db.blocks, req)
    BY <1>3, CommittedBlocks
  <2> QED
    BY <2>1, <2>2
<1>12. applied' = applied \cup {AppliedCommit(req)}
  BY <1>4, <1>10, <1>11 DEF AppliedCommit
<1>13. db.version < MaxVersion
  <2>1. db.version \in Nat /\ MaxVersion \in Nat
    BY <1>3, ConstantsAssumption DEF Database
  <2> HIDE DEF new, db
  <2> QED
    BY SMTT(60), <1>10, <1>11, <2>1
<1>14. CommitApply(req, tx.at)
  BY <1>4, <1>8, <1>10, <1>12, <1>13 DEF CommitApply
<1> QED
  BY <1>4, <1>5, <1>14 DEF Applies

\* So a commit has an effect the store allows.
LEMMA CommitEffect ==
  ASSUME StoreTypeOK, TxInv, Reads, NEW t \in Tx, ApplyCommit(t)
  PROVE  Effect /\ StoreTypeOK'
<1> DEFINE req == txs[t].req
           key == req.lease.key
           new == Committed(dbs[key], req, txs[t].at)
<1>1. Applies(req, txs[t].at)
  BY CommitApplies
<1>2. /\ req \in CommitRequest /\ txs[t].at \in Nat
      /\ dbs' = [dbs EXCEPT ![key] = new] /\ applied' = applied \cup {AppliedCommit(req)}
      /\ UNCHANGED <<slots, now, minted, life, leases>>
  BY <1>1 DEF Applies, CommitApply
<1>3. /\ req.pageCount \in Nat /\ req.id \in CommitID /\ req.size \in PageSize
      /\ req.blocks \in Seq(Nat) /\ req.lease \in Lease
  <2>1. txs[t].op = "commit"
    BY DEF ApplyCommit
  <2> QED
    BY <1>2, <2>1, CommitNames, CommitRequestType
<1>4. key \in Key
  BY <1>3 DEF Lease
<1>5. dbs[key] \in Database
  BY <1>4 DEF StoreTypeOK
<1>6. new \in Database /\ AppliedCommit(req) \in Applied
  BY <1>2, <1>3, <1>5, CommittedType, AppliedCommitType
<1> HIDE DEF new
<1>7. dbs' \in [Key -> Database] /\ applied' \subseteq Applied
  BY <1>2, <1>6 DEF StoreTypeOK
<1> QED
  BY <1>1, <1>2, <1>7 DEF Effect, StoreTypeOK

\* The sweep deletes or purges a database.
LEMMA SweepEffect ==
  ASSUME StoreTypeOK, TxInv, NEW t \in Tx, SweepCommit(t)
  PROVE  Effect /\ StoreTypeOK'
<1> DEFINE key == Head(txs[t].candidates)
           db == dbs[key]
<1>1. txs[t] \in SweepTx /\ txs[t].pc \in Sweeping
  BY ByPC DEF TxInv, SweepCommit, Sweeping
<1>2. txs[t].candidates # <<>> /\ db.status = "live"
  BY <1>1 DEF TxInv, RowsOK
<1>3. key \in Key
  BY <1>1, <1>2, HeadAndTail DEF SweepTx
<1>4. db \in Database /\ life[key] \in Nat
  BY <1>3 DEF StoreTypeOK
<1>5. UNCHANGED <<slots, now, minted, leases, applied>>
  BY DEF SweepCommit
<1>6. CASE At(t, "sweepPurge")
  <2>1. dbs' = [dbs EXCEPT ![key] = NoDatabase] /\ life' = [life EXCEPT ![key] = life[key] + 1]
    BY <1>6 DEF SweepCommit, q!PurgeDatabase
  <2> HIDE DEF key
  <2>2. ASSUME NEW k \in Key
        PROVE  \/ life'[k] = life[k] /\ Kept(dbs[k], dbs'[k])
               \/ life'[k] = life[k] + 1 /\ dbs'[k] = NoDatabase
    BY <1>3, <2>1, KeptSame DEF StoreTypeOK
  <2>3. Quiet
    BY <1>5, <2>2 DEF Quiet
  <2>4. life[key] + 1 \in Nat
    BY SMTT(60), <1>4
  <2>5. dbs' \in [Key -> Database] /\ life' \in [Key -> Nat]
    BY <2>1, <2>4, NoDatabaseType DEF StoreTypeOK
  <2> QED
    BY <1>5, <2>3, <2>5 DEF Effect, StoreTypeOK
<1>7. CASE ~At(t, "sweepPurge")
  <2>1. dbs' = [dbs EXCEPT ![key] = remove(db)] /\ life' = [life EXCEPT ![key] = life[key]]
    BY <1>7 DEF SweepCommit
  <2>2. life' = life
    BY <2>1 DEF StoreTypeOK
  <2> HIDE DEF key
  <2> QED
    BY <1>2, <1>3, <1>4, <1>5, <2>1, <2>2, RemoveDeletes, UpdateEffect
<1> QED
  BY <1>6, <1>7

\* The steps that write slots.
LEMMA SlotEffect ==
  ASSUME StoreTypeOK, TxInv, NEW t \in Tx, ReleaseSlot(t) \/ InsertSlot(t)
  PROVE  Effect /\ StoreTypeOK'
<1>1. UNCHANGED <<dbs, now, minted, life, leases, applied>>
  BY DEF ReleaseSlot, InsertSlot
<1>2. Quiet
  BY <1>1, KeptSame DEF Quiet
<1>3. slots' \in [Owner -> Slot]
  <2>1. CASE ReleaseSlot(t)
    BY <2>1, NoSlotType DEF ReleaseSlot, StoreTypeOK
  <2>2. CASE InsertSlot(t)
    <3> DEFINE new == q!InsertSlot(txs[t].subject, txs[t].at)
    <3>1. txs[t].subject \in Subject /\ txs[t].at \in Nat
      <4>1. txs[t] \in SlotTx
        BY <2>2, ByPC DEF InsertSlot, At, TxInv
      <4> QED
        BY <4>1 DEF SlotTx
    <3>2. new \in Slot
      BY <3>1 DEF q!InsertSlot, Slot
    <3> HIDE DEF new
    <3>3. slots' = slots \/ slots' = [slots EXCEPT ![OwnerIn(t)] = new]
      BY <2>2 DEF InsertSlot, new
    <3> QED
      BY <3>2, <3>3 DEF StoreTypeOK
  <2> QED
    BY <2>1, <2>2
<1> QED
  BY <1>1, <1>2, <1>3 DEF Effect, StoreTypeOK

\* A purge deletes the rows it locked.
LEMMA PurgeEffect ==
  ASSUME StoreTypeOK, TxInv, NEW t \in Tx, PurgeCommit(t)
  PROVE  Effect /\ StoreTypeOK'
<1> DEFINE tx == txs[t]
           o == OwnerIn(t)
<1>1. /\ dbs' = [k \in Key |-> IF k \in tx.lock.rows THEN NoDatabase ELSE dbs[k]]
      /\ life' = [k \in Key |-> IF k \in tx.lock.rows THEN life[k] + 1 ELSE life[k]]
      /\ UNCHANGED <<now, minted, leases, applied>>
  BY DEF PurgeCommit, q!PurgeDatabase
<1>2. Quiet
  BY <1>1, KeptSame DEF Quiet
<1>3. dbs' \in [Key -> Database] /\ life' \in [Key -> Nat]
  BY SMTT(60), <1>1, NoDatabaseType DEF StoreTypeOK
<1>4. tx \in SlotTx
  BY ByPC DEF PurgeCommit, At, TxInv
<1>5. tx.subject \in Subject /\ tx.at \in Nat /\ o \in Owner
  BY <1>4, ConstantsAssumption DEF SlotTx, OwnerIn
<1>6. tx.op = "claim" => slots[o].subject # None
  BY DEF PurgeCommit, At, TxInv, SlotsOK, OwnerIn
<1> DEFINE claimed == q!UpdateSlot(slots[o], tx.subject, tx.at)
<1>7. slots' = [slots EXCEPT ![o] = IF tx.op = "claim" THEN claimed
                                    ELSE IF o \in tx.lock.update THEN NoSlot ELSE slots[o]]
  BY DEF PurgeCommit, q!DeleteSlotOf
<1>8. slots[o] \in Slot
  BY <1>5 DEF StoreTypeOK
<1>9. tx.op = "claim" => claimed \in Slot
  <2> HIDE DEF o
  <2> QED
    BY <1>5, <1>6, <1>8 DEF q!UpdateSlot, Slot
<1> HIDE DEF claimed
<1>10. slots' \in [Owner -> Slot]
  BY <1>7, <1>8, <1>9, NoSlotType DEF StoreTypeOK
<1> QED
  BY <1>1, <1>2, <1>3, <1>10 DEF Effect, StoreTypeOK

\* The single statements.
LEMMA AloneEffect ==
  ASSUME StoreTypeOK, StoreInv, RenewLease \/ ReleaseLease \/ SetLabel \/ Tick \/ UNCHANGED vars
  PROVE  Effect /\ StoreTypeOK'
<1>0. ASSUME NEW l \in leases
      PROVE  /\ l.key \in Key /\ dbs[l.key] \in Database
             /\ dbs[l.key].status # "live" => dbs[l.key].holder = None
  BY DEF StoreTypeOK, StoreInv, Lease
<1>1. CASE RenewLease
  <2>1. PICK l \in leases, x \in Nows :
          /\ dbs' = [dbs EXCEPT ![l.key] = q!ExtendLease(dbs[l.key], l.epoch, x + TTL)]
          /\ UNCHANGED <<slots, now, minted, life, leases, applied>>
    BY <1>1 DEF RenewLease
  <2>2. x \in Nat
    BY NowsType
  <2> QED
    BY <1>0, <2>1, <2>2, ExtendKept, UpdateEffect
<1>2. CASE ReleaseLease
  <2>1. PICK l \in leases :
          /\ dbs' = [dbs EXCEPT ![l.key] = q!ReleaseLease(dbs[l.key], l.epoch)]
          /\ UNCHANGED <<slots, now, minted, life, leases, applied>>
    BY <1>2 DEF ReleaseLease
  <2> QED
    BY <1>0, <2>1, ReleaseKept, UpdateEffect
<1>3. ASSUME UNCHANGED <<dbs, life, leases, applied>> PROVE Quiet
  BY <1>3, KeptSame DEF Quiet
<1>4. CASE SetLabel
  <2>1. PICK s \in Subject, label \in Label :
          /\ slots' = [slots EXCEPT ![OwnerOf[s]] = q!LabelSlot(slots[OwnerOf[s]], s, label)]
          /\ UNCHANGED <<dbs, now, minted, life, leases, applied>>
    BY <1>4 DEF SetLabel
  <2>2. ASSUME NEW x \in Slot PROVE q!LabelSlot(x, s, label) \in Slot
    BY DEF q!LabelSlot, Slot
  <2>3. slots' \in [Owner -> Slot]
    BY <2>1, <2>2 DEF StoreTypeOK
  <2> QED
    BY <1>3, <2>1, <2>3 DEF Effect, StoreTypeOK
<1>5. CASE Tick
  <2>1. now' \in Nat
    BY SMTT(60), <1>5 DEF Tick, StoreTypeOK
  <2> QED
    BY <1>3, <1>5, <2>1 DEF Tick, Effect, StoreTypeOK
<1>6. CASE UNCHANGED vars
  BY <1>3, <1>6 DEF vars, Effect, StoreTypeOK
<1> QED
  BY <1>1, <1>2, <1>4, <1>5, <1>6

(***************************************************************************)
(* Every step of the PostgreSQL store grants a lease, applies a commit or  *)
(* is quiet, as a step of the store does.                                  *)
(***************************************************************************)
LEMMA PgEffect ==
  ASSUME StoreTypeOK, StoreInv, TxInv, Reads, [PgNext]_pgVars
  PROVE  Effect /\ StoreTypeOK'
<1>1. ASSUME NEW t \in Tx, ReadStep(t) PROVE Effect /\ StoreTypeOK'
  BY <1>1, ReadMoves, AloneEffect
<1>2. ASSUME NEW t \in Tx, WriteStep(t) PROVE Effect /\ StoreTypeOK'
  BY <1>2, OpenEffect, ApplyEffect, CommitEffect, SweepEffect, SlotEffect, PurgeEffect DEF WriteStep
<1>3. CASE PgNext
  BY <1>1, <1>2, <1>3, AloneEffect DEF PgNext, ReadStep, WriteStep
<1>4. CASE UNCHANGED pgVars
  BY <1>4, AloneEffect DEF pgVars, vars
<1> QED
  BY <1>3, <1>4

-----------------------------------------------------------------------------
(* The theorems *)

StoreOK ==
  /\ StoreTypeOK /\ StoreInv /\ Fencing /\ ExactlyOnce /\ FileSizes
  /\ \A k \in Key : ContentOf(k) /\ SizesOf(k) /\ CopiesOf(k) /\ LogFits(dbs[k])

\* What the store promises is what the transactions read.
LEMMA StoreReads == ASSUME StoreOK PROVE Reads
BY DEF StoreOK, Reads, CopiesOf

\* The initial state.
LEMMA PgInitOK == ASSUME PgInit PROVE StoreOK /\ TxInv
<1>0. StoreInit
  BY DEF PgInit
<1>1. StoreTypeOK /\ StoreInv
  <2>1. StoreTypeOK
    BY <1>0, NoDatabaseType, NoSlotType DEF StoreInit, StoreTypeOK
  <2>2. StoreInv
    BY <1>0, NoDatabaseFields DEF StoreInit, StoreInv
  <2> QED
    BY <2>1, <2>2
<1>2. \A k \in Key : dbs[k] = NoDatabase
  BY <1>0 DEF StoreInit
<1>3. Fencing /\ ExactlyOnce
  BY <1>0 DEF StoreInit, Fencing, ExactlyOnce
<1>4. FileSizes
  BY SMTT(60), <1>2, NoDatabaseFields, ConstantsAssumption DEF FileSizes
<1>5. ASSUME NEW k \in Key PROVE ContentOf(k) /\ SizesOf(k) /\ CopiesOf(k) /\ LogFits(dbs[k])
  <2>1. applied = {} /\ ChangeWindow \in Nat
    BY <1>0, ConstantsAssumption DEF StoreInit
  <2>2. ContentOf(k)
    BY <1>2, <2>1, NoDatabaseFields DEF ContentOf
  <2>3. SizesOf(k)
    BY <1>2, NoDatabaseFields DEF SizesOf, NoBlocks
  <2>4. CopiesOf(k) /\ LogFits(dbs[k])
    BY SMTT(60), <1>2, <2>1, NoDatabaseFields DEF CopiesOf, LogOK, LogFits
  <2> QED
    BY <2>2, <2>3, <2>4
<1>6. TxInv
  <2>1. \A t \in Tx : txs[t] = Idle
    BY DEF PgInit
  <2>2. txs \in [Tx -> Transaction]
    BY DEF PgInit, Transaction
  <2>3. Idle.pc = "idle" /\ Idle.op = "none" /\ Idle.lock = Unlocked
    BY DEF Idle
  <2>4. Idle.lock.rows = {} /\ Idle.lock.update = {}
    <3>1. Unlocked.rows = {} /\ Unlocked.update = {}
      BY DEF Unlocked
    <3> QED
      BY <2>3, <3>1
  <2>5. RowsOK(Idle, dbs) /\ SlotsOK(Idle, slots)
    BY <2>3, UnlockedOK DEF Sweeping
  <2>6. CommitOK(Idle, leases, applied) /\ ChangesOK(Idle, dbs, life) /\ FetchOK(Idle, dbs, life, applied)
        /\ SameCommit(Idle, Idle)
    BY <2>3 DEF CommitOK, ChangesOK, FetchOK, SameCommit
  <2>7. \A o \in Owner : slots[o] = NoSlot
    BY <1>0 DEF StoreInit
  <2>8. Exclusive
    BY <2>1, <2>4 DEF Exclusive
  <2> QED
    BY <2>1, <2>2, <2>5, <2>6, <2>7, <2>8 DEF TxInv
<1> QED
  BY <1>1, <1>3, <1>4, <1>5, <1>6 DEF StoreOK

\* Every step keeps both invariants.
LEMMA PgStep ==
  ASSUME StoreOK, TxInv, [PgNext]_pgVars
  PROVE  StoreOK' /\ TxInv' /\ Effect
<1>1. StoreTypeOK /\ StoreInv /\ Reads
  BY StoreReads DEF StoreOK
<1>2. Effect /\ StoreTypeOK'
  BY <1>1, PgEffect
<1>3. StoreInv' /\ Fencing' /\ ExactlyOnce' /\ FileSizes'
  BY <1>1, <1>2, StoreInvStep, FencingStep, ExactlyOnceStep, FileSizesStep DEF StoreOK
<1>4. ASSUME NEW k \in Key PROVE ContentOf(k)' /\ SizesOf(k)' /\ CopiesOf(k)' /\ LogFits(dbs[k])'
  BY <1>1, <1>2, ContentStep, SizesStep, CopiesStep, LogFitsStep DEF StoreOK
<1>5. StoreOK'
  BY <1>2, <1>3, <1>4 DEF StoreOK
<1>6. TxInv'
  BY <1>1, <1>2, TxInvStep
<1> QED
  BY <1>2, <1>5, <1>6

(***************************************************************************)
(* What every reachable state of the PostgreSQL store satisfies, for any   *)
(* number of transactions: StoreOK of the rows that are committed, TxInv   *)
(* of what each transaction has read and locked.                           *)
(***************************************************************************)
THEOREM PgInvariant == PgSpec => [](StoreOK /\ TxInv)
<1>1. StoreOK /\ TxInv /\ [PgNext]_pgVars => (StoreOK /\ TxInv)'
  BY PgStep
<1> QED
  BY <1>1, PgInitOK, PTL DEF PgSpec

(***************************************************************************)
(* A commit of the PostgreSQL store is applied only with the current lease *)
(* and to the version it was made for: the row it checked stays locked     *)
(* until it is written.                                                    *)
(***************************************************************************)
THEOREM PgFencingHolds == PgSpec => []Fencing
<1>1. StoreOK => Fencing
  BY DEF StoreOK
<1> QED
  BY <1>1, PgInvariant, PTL

(***************************************************************************)
(* A commit that is repeated with its ID, also while the first attempt is  *)
(* still running, is applied once.                                         *)
(***************************************************************************)
THEOREM PgExactlyOnceHolds == PgSpec => []ExactlyOnce
<1>1. StoreOK => ExactlyOnce
  BY DEF StoreOK
<1> QED
  BY <1>1, PgInvariant, PTL

(***************************************************************************)
(* The blocks and the page count of a database are those of the last       *)
(* commit, which putBlocks and DeleteBlocksFrom write in several           *)
(* statements.                                                             *)
(***************************************************************************)
THEOREM PgStateIsLastCommit == PgSpec => []StateIsLastCommit
<1>1. StoreOK => StateIsLastCommit
  BY DEF StoreOK, ContentOf, StateIsLastCommit
<1> QED
  BY <1>1, PgInvariant, PTL

(***************************************************************************)
(* The rows of blocks lie within the file and have the page size of its    *)
(* database, also when it is revived with another one.                     *)
(***************************************************************************)
THEOREM PgBlocksFitTheFile == PgSpec => []BlocksFitTheFile
<1>1. StoreOK => BlocksFitTheFile
  BY DEF StoreOK, SizesOf, BlocksFitTheFile
<1> QED
  BY <1>1, PgInvariant, PTL

(***************************************************************************)
(* A client that discards the blocks of the rows of changes has the        *)
(* current database: RecordChange and PruneChanges keep the window.        *)
(***************************************************************************)
THEOREM PgCatchUp == PgSpec => []CatchUp
<1>1. StoreOK => CatchUp
  BY DEF StoreOK, CopiesOf, CopyOK, CatchUp
<1> QED
  BY <1>1, PgInvariant, PTL

(***************************************************************************)
(* No transaction takes an epoch or a version of a row back.               *)
(***************************************************************************)
THEOREM PgGrowth == PgSpec => EpochAndVersionGrow
<1>1. StoreOK /\ TxInv /\ [PgNext]_pgVars =>
        [\A key \in Key : life'[key] = life[key] =>
           /\ dbs'[key].epoch >= dbs[key].epoch
           /\ dbs'[key].version >= dbs[key].version
           /\ dbs'[key].status # dbs[key].status => dbs'[key].epoch > dbs[key].epoch
           /\ dbs'[key].leaseID # dbs[key].leaseID => dbs'[key].epoch > dbs[key].epoch]_vars
  BY PgStep, GrowthStep DEF Grows, StoreOK
<1> QED
  BY <1>1, PgInvariant, PTL DEF PgSpec, EpochAndVersionGrow

(***************************************************************************)
(* The PostgreSQL store implements versioned files with one writer each:   *)
(* every statement or transaction takes a file at most one step further,   *)
(* those of slots and of the sweep included.                               *)
(***************************************************************************)
THEOREM PgImplementsLeasedFile == PgSpec => ImplementsLeasedFile
<1>1. PgInit => F!Init
  BY FileInit DEF PgInit
<1>2. StoreOK /\ TxInv /\ [PgNext]_pgVars => [F!Next]_fileOf
  BY PgStep, FilesStep DEF StoreOK
<1> QED
  BY <1>1, <1>2, PgInvariant, PTL DEF PgSpec, ImplementsLeasedFile, F!Spec

(***************************************************************************)
(* The sweep deletes no database that was used since it read its           *)
(* candidates: DeleteUnused checks the row again once it is locked.        *)
(***************************************************************************)
THEOREM OnlyUnusedAreSweptHolds == PgSpec => OnlyUnusedAreSwept
<1>1. ASSUME StoreOK, TxInv, NEW t \in Tx, SweepCommit(t)
      PROVE  Head(txs[t].candidates) \in Unused(txs[t].cutoff)
  <2>1. txs[t] \in Transaction /\ RowsOK(txs[t], dbs) /\ txs[t].pc \in Sweeping
    BY <1>1 DEF TxInv, SweepCommit, Sweeping
  <2>2. txs[t] \in SweepTx
    BY <2>1, ByPC DEF Sweeping
  <2>3. txs[t].candidates \in Seq(Key) /\ txs[t].candidates # <<>>
    BY <2>1, <2>2 DEF SweepTx, RowsOK
  <2>4. Head(txs[t].candidates) \in Key
    BY SMTT(60), <2>3
  <2> QED
    BY <2>1, <2>4 DEF RowsOK, Unused
<1>2. StoreOK /\ TxInv /\ [PgNext]_pgVars =>
        [\A t \in Tx : SweepCommit(t) => Head(txs[t].candidates) \in Unused(txs[t].cutoff)]_pgVars
  BY <1>1
<1> QED
  BY <1>2, PgInvariant, PTL DEF PgSpec, OnlyUnusedAreSwept

(***************************************************************************)
(* What Changes answers for a version that is still current is right,      *)
(* whatever is committed between its three statements.                     *)
(***************************************************************************)
THEOREM ChangesOfCurrentVersionHolds == PgSpec => []ChangesOfCurrentVersion
<1>1. ASSUME TxInv, NEW t \in Tx, At(t, "changes"), life[txs[t].key] = txs[t].life,
             dbs[txs[t].key].version = txs[t].to
      PROVE  [complete |-> txs[t].complete, blocks |-> txs[t].blocks]
               = Changes(dbs[txs[t].key], txs[t].from)
  <2>1. txs[t] \in Transaction /\ ChangesOK(txs[t], dbs, life) /\ txs[t].pc = "changes"
    BY <1>1 DEF TxInv, At
  <2>2. txs[t].op = "changes"
    BY <2>1, ByPC DEF ChangesTx
  <2> QED
    BY <1>1, <2>1, <2>2 DEF ChangesOK
<1>2. TxInv => ChangesOfCurrentVersion
  BY <1>1 DEF ChangesOfCurrentVersion
<1> QED
  BY <1>2, PgInvariant, PTL

(***************************************************************************)
(* Fetch returns the blocks as the commit of one version left them: both   *)
(* statements of its REPEATABLE READ transaction see one row, and that row *)
(* was the state after a commit.                                           *)
(***************************************************************************)
THEOREM FetchIsASnapshotHolds == PgSpec => []FetchIsASnapshot
<1>1. ASSUME TxInv PROVE FetchIsASnapshot
  <2> SUFFICES ASSUME NEW t \in Tx, At(t, "fetchBlocks"),
                      NEW first \in 0 .. txs[t].lock.row.pageCount,
                      NEW count \in 0 .. txs[t].lock.row.pageCount - first
               PROVE  LET commits == {a \in applied : a.lease.key = txs[t].key /\ a.life = txs[t].life
                                                      /\ a.version = txs[t].lock.row.version}
                          content == IF commits = {} THEN NoBlocks ELSE (CHOOSE a \in commits : TRUE).blocks IN
                      Fetched(t, first, count) = [i \in first .. first + count - 1 |-> content[i]]
    BY DEF FetchIsASnapshot
  <2> DEFINE row == txs[t].lock.row
             commits == {a \in applied : a.lease.key = txs[t].key /\ a.life = txs[t].life
                                       /\ a.version = txs[t].lock.row.version}
             content == IF commits = {} THEN NoBlocks ELSE (CHOOSE a \in commits : TRUE).blocks
  <2>1. txs[t] \in Transaction /\ FetchOK(txs[t], dbs, life, applied) /\ txs[t].pc = "fetchBlocks"
    BY <1>1 DEF TxInv, At
  <2>2. txs[t] \in FetchTx
    BY <2>1, ByPC
  <2>3. txs[t].op = "fetch" /\ row \in Database
    BY <2>2 DEF FetchTx, Locks
  <2>4. /\ row.pageCount <= MaxPages
        /\ \A a \in commits : a.blocks = row.blocks
        /\ commits = {} => row.blocks = NoBlocks
    BY <2>1, <2>3 DEF FetchOK, IsOf
  <2> HIDE DEF commits
  <2>5. content = row.blocks
    <3>1. CASE commits = {}
      BY <2>4, <3>1
    <3>2. CASE commits # {}
      <4>1. (CHOOSE a \in commits : TRUE) \in commits
        BY <3>2
      <4> QED
        BY <2>4, <3>2, <4>1
    <3> QED
      BY <3>1, <3>2
  <2>6. row.pageCount \in Nat /\ MaxPages \in Nat /\ row = Snapshot(t)
    BY <2>3, ConstantsAssumption DEF Database, Snapshot
  <2>7. first \in Nat /\ count \in Nat /\ first + count <= MaxPages
    <3>1. first \in 0 .. row.pageCount /\ count \in 0 .. row.pageCount - first
      OBVIOUS
    <3> HIDE DEF row
    <3> QED
      BY SMTT(60), <2>4, <2>6, <3>1
  <2> HIDE DEF row, content
  <2>8. Fetched(t, first, count) = [i \in first .. first + count - 1 |-> content[i]]
    <3>1. Fetched(t, first, count) = [i \in first .. first + count - 1 |-> Snapshot(t).blocks[i]]
      BY <2>7, FetchedBlocks
    <3> QED
      BY <2>5, <2>6, <3>1
  <2> QED
    BY <2>8 DEF commits, content
<1> QED
  BY <1>1, PgInvariant, PTL

(***************************************************************************)
(* Transactions never wait for each other in a circle, for any number of   *)
(* them, of owners and of databases, unless two sweeps release slots at    *)
(* the same time: slots are locked before databases, and the databases of  *)
(* a subject in the order of the scan.                                     *)
(***************************************************************************)
THEOREM NoDeadlock == PgSpec => [](SweepsApart => NoWaitCycle)
<1>1. TxInv => (SweepsApart => NoWaitCycle)
  BY NoCycle DEF NoWaitCycle
<1> QED
  BY <1>1, PgInvariant, PTL

-----------------------------------------------------------------------------
(* The contract of the store *)

\* The time of a request may be any up to now.
LEMMA RequestTime ==
  ASSUME StoreTypeOK, now <= MaxTime, MaxTime <= Skew, NEW x \in Nat, x <= now
  PROVE  x \in Nows
BY SMTT(60), ConstantsAssumption DEF Nows, StoreTypeOK

\* An Open of the contract, of a key that is free, expired or taken over.
LEMMA OpenKeepsContract ==
  ASSUME NoSlots, MaxTime <= Skew, StoreTypeOK, StoreInv, TxInv, RequestsInv, NEW t \in Tx, OpenCommit(t)
  PROVE  StoreNext
<1> DEFINE tx == txs[t]
           key == tx.key
<1>1. PICK r \in NewOpens(key, tx.at) :
        /\ key \in Key /\ tx.at \in Nat /\ r.key = key
        /\ ~SlotTaken(r) => OpenOutcome(r) = "granted"
        /\ dbs' = [dbs EXCEPT ![key] = Granted(dbs[key], r)]
        /\ leases' = leases \cup {NewLease(key)}
        /\ minted < MaxLeases /\ minted' = minted + 1
        /\ UNCHANGED <<slots, now, life, applied>>
  BY OpenGrants
<1>2. tx.at \in Nows
  BY <1>1, RequestTime DEF RequestsInv, RequestOK, OpenCommit
<1>3. r \in OpenRequest(key)
  BY <1>2 DEF OpenRequest, NewOpens, ResumeOf
<1>4. ~SlotTaken(r)
  <2>1. key[1] \in Subject
    BY <1>1 DEF Key
  <2> QED
    BY <1>1, <2>1 DEF NoSlots, SlotTaken
<1>5. OpenGrant(r)
  BY <1>1, <1>4 DEF OpenGrant
<1> QED
  BY <1>1, <1>3, <1>5 DEF Open, StoreNext

\* An Open of the contract that resumes its lease.
LEMMA ResumeKeepsContract ==
  ASSUME NoSlots, MaxTime <= Skew, StoreTypeOK, StoreInv, TxInv, RequestsInv, NEW t \in Tx, ResumeCommit(t)
  PROVE  StoreNext
<1> DEFINE tx == txs[t]
           key == tx.key
           db == dbs[key]
<1>1. tx.pc = "apply" /\ tx.op = "open" /\ tx \in OpenTx
  BY ByOp DEF ResumeCommit, At, TxInv
<1>2. PICK req \in RequestIn(t) :
        /\ RowUsable(tx.lock.row, req) /\ req.resume # NoResume
        /\ holds(tx.lock.row, req.resume.epoch) /\ tx.lock.row.leaseID = req.resume.id
        /\ dbs' = [dbs EXCEPT ![key] = q!ExtendLease(dbs[key], tx.lock.row.epoch, req.now + TTL)]
  BY DEF ResumeCommit
<1>3. /\ req.key = key /\ req.resume = tx.resume /\ req.now = tx.at
      /\ req = [key |-> req.key, instance |-> req.instance, pageSize |-> req.pageSize, create |-> req.create,
                takeover |-> req.takeover, resume |-> req.resume, now |-> req.now]
      /\ req.instance \in Instance /\ req.pageSize \in PageSize \cup {0}
      /\ req.create \in BOOLEAN /\ req.takeover \in BOOLEAN
  BY <1>1 DEF RequestIn, OpenTx
<1>4. db.status # "missing"
  BY <1>1, <1>2, <1>3 DEF TxInv, RowsOK
<1>5. key \in Key /\ tx.at \in Nat /\ tx.lock.row = db
  BY <1>1, <1>4, ApplyRow DEF OpenTx
<1>6. db \in Database /\ (db.status # "live" => db.holder = None)
  BY <1>5 DEF StoreTypeOK, StoreInv
<1>7. tx.at \in Nows
  BY <1>1, <1>5, <1>6, RequestTime DEF RequestsInv, RequestOK
<1>8. tx.resume \in ResumeOf(key)
  BY <1>1 DEF RequestsInv, RequestOK, ResumeOf
<1>9. req \in OpenRequest(key)
  BY <1>3, <1>7, <1>8 DEF OpenRequest
<1>10. db.status = "live" /\ Holds(db, req.resume.epoch) /\ db.leaseID = req.resume.id
  BY <1>2, <1>5, <1>6 DEF holds, Holds
<1>11. ~SlotTaken(req)
  <2>1. key[1] \in Subject
    BY <1>5 DEF Key
  <2> QED
    BY <1>3, <2>1 DEF NoSlots, SlotTaken
<1>12. OpenOutcome(req) = "resumed"
  BY <1>2, <1>3, <1>5, <1>10, <1>11 DEF OpenOutcome, RowUsable
<1>13. q!ExtendLease(db, db.epoch, req.now + TTL) = Extended(db, req.now)
  BY <1>10 DEF q!ExtendLease, q!LeaseMatches, Extended, Holds
<1>14. dbs' = [dbs EXCEPT ![req.key] = Extended(dbs[req.key], req.now)]
  BY <1>2, <1>3, <1>5, <1>13
<1>15. OpenResume(req)
  BY <1>12, <1>14 DEF OpenResume, ResumeCommit
<1> QED
  BY <1>5, <1>9, <1>15 DEF Open, StoreNext

\* A commit of the contract, applied or repeated.
LEMMA CommitKeepsContract ==
  ASSUME MaxTime <= Skew, StoreTypeOK, TxInv, Reads, RequestsInv, NEW t \in Tx, ApplyCommit(t) \/ RepeatCommit(t)
  PROVE  StoreNext
<1> DEFINE tx == txs[t]
           req == tx.req
           db == dbs[tx.key]
<1>1. tx.pc = "apply" /\ tx.op = "commit" /\ tx \in CommitTx
  BY ByOp DEF ApplyCommit, RepeatCommit, At, TxInv
<1>2. tx.at \in Nat
  BY <1>1 DEF CommitTx
<1>3. tx.at \in Nows
  BY <1>1, <1>2, RequestTime DEF RequestsInv, RequestOK
<1>4. CASE ApplyCommit(t)
  <2>1. Applies(req, tx.at)
    BY <1>4, CommitApplies
  <2> QED
    BY <1>3, <2>1 DEF Applies, Commit, StoreNext
<1>5. CASE RepeatCommit(t)
  <2>1. req \in CommitRequest /\ NamesOneCommit(req) /\ req.lease.key = tx.key
    BY <1>1, CommitNames
  <2>2. tx.lock.row = db /\ db.status # "missing"
    BY <1>1, ApplyRow
  <2>3. /\ holds(db, req.lease.epoch) /\ Repeats(db, req)
        /\ dbs' = [dbs EXCEPT ![tx.key] = q!ExtendLease(db, db.epoch, tx.at + TTL)]
        /\ UNCHANGED <<slots, now, minted, life, leases, applied>>
    BY <1>5, <2>2 DEF RepeatCommit
  <2>4. CommitOutcome(req) = "repeated"
    BY <2>1, <2>2, <2>3 DEF CommitOutcome, Holds, holds
  <2>5. q!ExtendLease(db, db.epoch, tx.at + TTL) = Extended(db, tx.at)
    BY <2>3 DEF q!ExtendLease, q!LeaseMatches, Extended, holds
  <2>6. CommitRepeat(req, tx.at)
    BY <2>1, <2>3, <2>4, <2>5 DEF CommitRepeat
  <2> QED
    BY <1>3, <2>1, <2>6 DEF Commit, StoreNext
<1> QED
  BY <1>4, <1>5

\* A Delete of the contract.
LEMMA DeleteKeepsContract ==
  ASSUME MaxTime <= Skew, StoreTypeOK, TxInv, RequestsInv, NEW t \in Tx, DeleteCommit(t)
  PROVE  ContractNext
<1> DEFINE tx == txs[t]
           key == tx.key
           db == dbs[key]
<1>1. tx.pc = "apply" /\ tx.op = "delete" /\ tx \in DeleteTx
  BY ByOp DEF DeleteCommit, At, TxInv
<1>2. key \in Key /\ tx.lock.row = db /\ tx.at \in Nat /\ tx.takeover \in BOOLEAN
  BY <1>1, ApplyRow DEF DeleteTx
<1>3. tx.at \in Nows
  BY <1>1, <1>2, RequestTime DEF RequestsInv, RequestOK
<1>4. DeleteOutcome(key, tx.takeover, tx.at) = "deleted"
  BY <1>2 DEF DeleteOutcome, DeleteCommit, Active
<1>5. db \in Database
  BY <1>2 DEF StoreTypeOK
<1>6. ForgetUnused(key)
  BY <1>5, RemoveForgets DEF DeleteCommit, ForgetUnused
<1> QED
  BY <1>2, <1>3, <1>4, <1>6 DEF ContractNext

\* A sweep of the contract forgets an unused database.
LEMMA SweepKeepsContract ==
  ASSUME StoreTypeOK, TxInv, RequestsInv, NEW t \in Tx, SweepCommit(t)
  PROVE  ContractNext
<1> DEFINE tx == txs[t]
           key == Head(tx.candidates)
           db == dbs[key]
           cutoff == now - UnusedAfter
<1>1. tx \in SweepTx /\ tx.pc \in Sweeping /\ tx.op = "sweep"
  <2>1. tx \in SweepTx /\ tx.pc \in Sweeping
    BY ByPC DEF TxInv, SweepCommit, Sweeping
  <2> QED
    BY <2>1 DEF SweepTx
<1>2. tx.candidates # <<>> /\ db.status = "live" /\ db.expires < tx.cutoff
  BY <1>1 DEF TxInv, RowsOK
<1>3. key \in Key
  BY <1>1, <1>2, HeadAndTail DEF SweepTx
<1>4. db \in Database /\ tx.cutoff \in Nat
  BY <1>1, <1>3 DEF StoreTypeOK, SweepTx
<1>5. UnusedAfter <= now /\ tx.cutoff <= cutoff /\ ~At(t, "sweepPurge")
  BY <1>1 DEF RequestsInv, RequestOK, At
<1>6. db.expires < cutoff /\ now >= UnusedAfter
  <2>1. db.expires \in Nat /\ now \in Nat /\ UnusedAfter \in Nat
    BY <1>4, CallersAssumption DEF Database, StoreTypeOK
  <2> HIDE DEF db
  <2> QED
    BY SMTT(60), <1>2, <1>4, <1>5, <2>1
<1>7. key \in Unused(cutoff)
  BY <1>2, <1>3, <1>6 DEF Unused
<1>8. dbs' = [dbs EXCEPT ![key] = [Removed(db) EXCEPT !.expires = 0]] /\ life' = [life EXCEPT ![key] = life[key]]
  BY <1>4, <1>5, RemoveForgets DEF SweepCommit
<1>9. life' = life
  BY <1>8 DEF StoreTypeOK
<1>10. ForgetUnused(key)
  BY <1>8, <1>9 DEF SweepCommit, ForgetUnused
<1> QED
  BY <1>3, <1>6, <1>7, <1>10 DEF ContractNext

\* Renewals and releases of the contract.
LEMMA LeaseKeepsContract ==
  ASSUME StoreTypeOK, StoreInv, RenewLease \/ ReleaseLease
  PROVE  ContractNext
<1>0. ASSUME NEW l \in leases
      PROVE  /\ l.key \in Key /\ dbs = [dbs EXCEPT ![l.key] = dbs[l.key]]
             /\ dbs[l.key].status = "missing" => dbs[l.key].holder = None
  BY NoDatabaseFields DEF StoreTypeOK, StoreInv, Lease
<1>1. CASE RenewLease
  <2>1. PICK l \in leases, x \in Nows :
          /\ dbs' = [dbs EXCEPT ![l.key] = q!ExtendLease(dbs[l.key], l.epoch, x + TTL)]
          /\ UNCHANGED <<slots, now, minted, life, leases, applied>>
    BY <1>1 DEF RenewLease
  <2>2. CASE Holds(dbs[l.key], l.epoch)
    <3>1. LeaseOutcome(l.key, l.epoch) = "ok"
      BY <1>0, <2>2 DEF LeaseOutcome, Holds
    <3>2. q!ExtendLease(dbs[l.key], l.epoch, x + TTL) = Extended(dbs[l.key], x)
      BY <2>2 DEF q!ExtendLease, q!LeaseMatches, Extended, Holds
    <3>3. Renew(l.key, l.epoch, x)
      BY <2>1, <3>1, <3>2 DEF Renew
    <3> QED
      BY <3>3 DEF StoreNext, ContractNext
  <2>3. CASE ~Holds(dbs[l.key], l.epoch)
    <3>1. q!ExtendLease(dbs[l.key], l.epoch, x + TTL) = dbs[l.key]
      BY <2>3 DEF q!ExtendLease, q!LeaseMatches, Holds
    <3> QED
      BY <1>0, <2>1, <3>1 DEF ContractNext, vars
  <2> QED
    BY <2>2, <2>3
<1>2. CASE ReleaseLease
  <2>1. PICK l \in leases :
          /\ dbs' = [dbs EXCEPT ![l.key] = q!ReleaseLease(dbs[l.key], l.epoch)]
          /\ UNCHANGED <<slots, now, minted, life, leases, applied>>
    BY <1>2 DEF ReleaseLease
  <2>2. CASE Holds(dbs[l.key], l.epoch)
    <3>1. LeaseOutcome(l.key, l.epoch) = "ok"
      BY <1>0, <2>2 DEF LeaseOutcome, Holds
    <3>2. dbs' = [dbs EXCEPT ![l.key].holder = None]
      BY <2>1, <2>2 DEF q!ReleaseLease, q!LeaseMatches, Holds
    <3>3. Release(l.key, l.epoch)
      BY <2>1, <3>1, <3>2 DEF Release
    <3> QED
      BY <3>3 DEF StoreNext, ContractNext
  <2>3. CASE ~Holds(dbs[l.key], l.epoch)
    <3>1. q!ReleaseLease(dbs[l.key], l.epoch) = dbs[l.key]
      BY <2>3 DEF q!ReleaseLease, q!LeaseMatches, Holds
    <3> QED
      BY <1>0, <2>1, <3>1 DEF ContractNext, vars
  <2> QED
    BY <2>2, <2>3
<1> QED
  BY <1>1, <1>2

\* Every step is one that the contract allows.
LEMMA ContractStep ==
  ASSUME NoSlots, MaxTime <= Skew, StoreTypeOK, StoreInv, TxInv, Reads, RequestsInv, [PgNext]_pgVars
  PROVE  [ContractNext]_vars
<1>0. \A o \in Owner : slots[o] = NoSlot
  BY DEF RequestsInv
<1>1. ASSUME NEW t \in Tx, ReadStep(t) PROVE UNCHANGED vars
  BY <1>1, ReadMoves
<1>2. ASSUME NEW t \in Tx, WriteStep(t) PROVE [ContractNext]_vars
  <2>1. ~SlotStep(t)
    BY NoSlotSteps
  <2>2. CASE ReleaseSlot(t)
    <3>1. slots' = slots
      BY <1>0, SlotsStay
    <3> QED
      BY <2>2, <3>1 DEF ReleaseSlot, vars
  <2>3. CASE OpenCommit(t) \/ ResumeCommit(t) \/ RepeatCommit(t) \/ ApplyCommit(t)
    BY <2>3, OpenKeepsContract, ResumeKeepsContract, CommitKeepsContract DEF ContractNext
  <2>4. CASE DeleteCommit(t) \/ SweepCommit(t)
    BY <2>4, DeleteKeepsContract, SweepKeepsContract
  <2> QED
    BY <1>2, <2>1, <2>2, <2>3, <2>4 DEF WriteStep, SlotStep
<1>3. CASE RenewLease \/ ReleaseLease
  BY <1>3, LeaseKeepsContract
<1>4. CASE SetLabel
  BY <1>4 DEF SetLabel, NoSlots
<1>5. CASE Tick
  BY <1>5 DEF StoreNext, ContractNext
<1>6. CASE UNCHANGED pgVars
  BY <1>6 DEF pgVars
<1>7. CASE PgNext
  BY <1>1, <1>2, <1>3, <1>4, <1>5, <1>7 DEF PgNext, ReadStep, WriteStep
<1> QED
  BY <1>6, <1>7

\* The initial state.
LEMMA RequestsInit == ASSUME PgInit PROVE RequestsInv
<1>1. /\ now = 0 /\ \A o \in Owner : slots[o] = NoSlot
      /\ \A t \in Tx : txs[t] = Idle
  BY DEF PgInit, StoreInit
<1>2. Idle.pc = "idle" /\ Idle.op = "none"
  BY DEF Idle
<1>3. RequestOK(Idle, now, leases)
  BY <1>2 DEF RequestOK
<1>4. 0 <= MaxTime
  BY SMTT(60), ConstantsAssumption
<1> QED
  BY <1>1, <1>3, <1>4 DEF RequestsInv

(***************************************************************************)
(* Without slots the PostgreSQL store implements the store specification:  *)
(* whatever its transactions read and lock in between, each takes effect   *)
(* in one step that the specification allows at that moment.  A            *)
(* transaction may have waited for a lock since it took the time of its    *)
(* request, so the times of requests are any up to now.                    *)
(***************************************************************************)
THEOREM PgImplementsStore ==
  ASSUME NoSlots, MaxTime <= Skew
  PROVE  PgSpec => Contract
<1>1. PgInit => StoreInit /\ RequestsInv
  BY RequestsInit DEF PgInit
<1>2. StoreOK /\ TxInv /\ RequestsInv /\ [PgNext]_pgVars => RequestsInv' /\ [ContractNext]_vars
  <2> SUFFICES ASSUME StoreOK, TxInv, RequestsInv, [PgNext]_pgVars
               PROVE  RequestsInv' /\ [ContractNext]_vars
    OBVIOUS
  <2>1. StoreTypeOK /\ StoreInv /\ Reads
    BY StoreReads DEF StoreOK
  <2> QED
    BY <2>1, RequestsStep, ContractStep
<1> QED
  BY <1>1, <1>2, PgInvariant, PTL DEF PgSpec, Contract

\* An Open or a deletion without takeover finds the lease of another instance expired, at the latest by now.
LEMMA StepStealsNothing ==
  ASSUME StoreTypeOK, StoreInv, TxInv, RequestsInv, NEW t \in Tx, OpenCommit(t) \/ DeleteCommit(t),
         ~txs[t].takeover, Active(dbs[txs[t].key], now)
  PROVE  dbs'[txs[t].key].holder = dbs[txs[t].key].holder
<1> DEFINE tx == txs[t]
           key == tx.key
           db == dbs[key]
<1>1. tx.pc = "apply" /\ tx \in OpenTx \cup DeleteTx /\ tx.op \in {"open", "delete"}
  BY ByOp DEF OpenCommit, DeleteCommit, At, TxInv
<1>2. key \in Key /\ tx.at \in Nat /\ (db.status # "missing" => tx.lock.row = db)
  BY <1>1, ApplyRow DEF OpenTx, DeleteTx
<1>3. db \in Database /\ db.holder # None /\ db.status = "live" /\ now < db.expires
  BY <1>2 DEF StoreTypeOK, StoreInv, Active
<1>4. tx.lock.row = db
  BY <1>2, <1>3
<1>5. tx.at < db.expires
  <2>1. tx.at <= now
    BY <1>1 DEF RequestsInv, RequestOK
  <2>2. now \in Nat /\ db.expires \in Nat
    BY <1>3 DEF StoreTypeOK, Database
  <2> QED
    BY SMTT(60), <1>2, <1>3, <2>1, <2>2
<1>6. ~DeleteCommit(t)
  BY <1>3, <1>4, <1>5 DEF DeleteCommit
<1>7. PICK req \in RequestIn(t) :
        /\ LeaseGrantable(db, req)
        /\ dbs' = [dbs EXCEPT ![key] =
             q!GrantLease(reviveDatabase(RowIn(t), req), minted + 1, req.instance, req.now + TTL)]
  BY <1>4, <1>6 DEF OpenCommit
<1>8. req.instance = db.holder
  BY <1>3, <1>5, <1>7 DEF RequestIn, LeaseGrantable
<1>9. dbs'[key] = q!GrantLease(reviveDatabase(db, req), minted + 1, req.instance, req.now + TTL)
  BY <1>2, <1>3, <1>7 DEF RowIn, StoreTypeOK
<1>10. dbs'[key] = Granted(db, req)
  BY <1>3, <1>9, GrantLeaseGrants
<1>11. Granted(db, req).holder = req.instance
  BY <1>3 DEF Granted, Database
<1> QED
  BY <1>8, <1>10, <1>11

(***************************************************************************)
(* Without takeover no lease that has time left is taken from another      *)
(* instance, however long a transaction waits for its row and whatever     *)
(* times the servers' calls began at.  It rests on the row lock: what is   *)
(* judged is the row that is written.                                      *)
(***************************************************************************)
THEOREM NotStolenHolds ==
  ASSUME NoSlots
  PROVE  PgSpec => NotStolen
<1>1. PgInit => RequestsInv
  BY RequestsInit
<1>2. StoreOK /\ TxInv /\ RequestsInv /\ [PgNext]_pgVars => RequestsInv'
  BY StoreReads, RequestsStep DEF StoreOK
<1>3. StoreOK /\ TxInv /\ RequestsInv =>
        \A t \in Tx : (OpenCommit(t) \/ DeleteCommit(t)) /\ ~txs[t].takeover =>
          LET key == txs[t].key IN Active(dbs[key], now) => dbs'[key].holder = dbs[key].holder
  BY StepStealsNothing DEF StoreOK
<1> QED
  BY <1>1, <1>2, <1>3, PgInvariant, PTL DEF PgSpec, NotStolen
=============================================================================
