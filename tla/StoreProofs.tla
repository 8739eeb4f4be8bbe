---------------------------- MODULE StoreProofs ----------------------------
(***************************************************************************)
(* Theorems about the store, for every value of its constants.             *)
(***************************************************************************)
EXTENDS StoreSpec, TLAPS

USE ZenonT(60), SMTT(60)

-----------------------------------------------------------------------------
(* Sequences *)

\* The elements of a sequence.
LEMMA SeqShape ==
  ASSUME NEW S, NEW s \in Seq(S)
  PROVE  Len(s) \in Nat /\ DOMAIN s = 1 .. Len(s) /\ \A i \in 1 .. Len(s) : s[i] \in S
BY SMTT(60)

\* A function on 1 .. n is a sequence.
LEMMA FunctionIsSeq ==
  ASSUME NEW S, NEW n \in Nat, NEW f \in [1 .. n -> S]
  PROVE  f \in Seq(S)
BY SMTT(60)

\* What a log has after an entry is added.
LEMMA AppendedSeq ==
  ASSUME NEW S, NEW s \in Seq(S), NEW e \in S
  PROVE  /\ Append(s, e) \in Seq(S) /\ Len(Append(s, e)) = Len(s) + 1
         /\ Append(s, e)[Len(s) + 1] = e
         /\ \A i \in 1 .. Len(s) : Append(s, e)[i] = s[i]
BY SMTT(60)

\* What a log has after its oldest entries are cut off.
LEMMA CutSeq ==
  ASSUME NEW S, NEW s \in Seq(S), NEW m \in 1 .. Len(s) + 1
  PROVE  LET t == SubSeq(s, m, Len(s)) IN
         /\ t \in Seq(S) /\ Len(t) = Len(s) - m + 1
         /\ \A i \in 1 .. Len(s) - m + 1 : t[i] = s[m + i - 1]
BY SMTT(60)

\* The first element of a list of ranges and the others.
LEMMA HeadAndTail ==
  ASSUME NEW S, NEW s \in Seq(S), s # <<>>
  PROVE  Head(s) \in S /\ Tail(s) \in Seq(S)
BY SMTT(60)

-----------------------------------------------------------------------------
(* What the operators on records return *)

\* A missing database is a database.
LEMMA NoDatabaseType == NoDatabase \in Database
BY SMTT(60) DEF NoDatabase, Database, NoBlocks, Data, Zero

\* A free slot is a slot.
LEMMA NoSlotType == NoSlot \in Slot
BY DEF NoSlot, Slot

\* Blocks after the writes of a commit.
LEMMA WrittenType ==
  ASSUME NEW blocks \in [Index -> Data], NEW req,
         req.id \in CommitID, req.size \in PageSize
  PROVE  Written(blocks, req) \in [Index -> Data]
BY DEF Written, Data, Zero

\* The change log after it is cut to its window.
LEMMA TrimType ==
  ASSUME NEW log \in Seq(Entry)
  PROVE  Trim(log) \in Seq(Entry)
<1>1. CASE Len(log) > ChangeWindow
  <2>1. Len(log) - ChangeWindow + 1 \in 1 .. Len(log) + 1
    BY SMTT(60), <1>1, ConstantsAssumption, SeqShape
  <2>2. SubSeq(log, Len(log) - ChangeWindow + 1, Len(log)) \in Seq(Entry)
    BY <2>1, CutSeq
  <2> QED
    BY <1>1, <2>2 DEF Trim
<1>2. CASE ~(Len(log) > ChangeWindow)
  BY <1>2 DEF Trim
<1> QED
  BY <1>1, <1>2

\* The blocks of an empty file.
LEMMA NoBlocksType == NoBlocks \in [Index -> Data]
BY DEF NoBlocks, Data, Zero

\* A database after its lease was extended.
LEMMA ExtendedType ==
  ASSUME NEW db \in Database, NEW t \in Nat
  PROVE  Extended(db, t) \in Database
<1> DEFINE e == t + TTL
<1>1. e \in Nat
  BY SMTT(60), ConstantsAssumption
<1> HIDE DEF e
<1>2. [db EXCEPT !.expires = e] \in Database
  BY <1>1 DEF Database
<1> QED
  BY <1>2 DEF Extended, e

\* A database after a lease was granted.
LEMMA GrantedType ==
  ASSUME NEW db \in Database, NEW req, minted \in Nat, req.now \in Nat,
         req.instance \in Instance, req.pageSize \in PageSize \cup {0}
  PROVE  Granted(db, req) \in Database
<1> DEFINE e == req.now + TTL
           p == IF db.status = "live" THEN db.pageSize ELSE req.pageSize
           n == db.epoch + 1
           m == minted + 1
<1>1. e \in Nat /\ n \in Nat /\ m \in Nat /\ p \in PageSize \cup {0}
  BY SMTT(60), ConstantsAssumption DEF Database
<1>2. req.instance \in Instance \cup {None}
  OBVIOUS
<1>3. Granted(db, req) =
        [db EXCEPT !.status = "live", !.pageSize = p, !.epoch = n, !.leaseID = m,
                   !.holder = req.instance, !.expires = e]
  BY DEF Granted, Database
<1> HIDE DEF e, p, n, m
<1>4. [db EXCEPT !.status = "live", !.pageSize = p, !.epoch = n, !.leaseID = m,
                 !.holder = req.instance, !.expires = e] \in Database
  BY <1>1, <1>2 DEF Database
<1> QED
  BY <1>3, <1>4

\* A database after a commit.
LEMMA CommittedType ==
  ASSUME NEW db \in Database, NEW req, NEW t \in Nat, req.pageCount \in Nat,
         req.id \in CommitID, req.size \in PageSize, req.blocks \in Seq(Nat)
  PROVE  Committed(db, req, t) \in Database
<1> DEFINE e == t + TTL
           v == db.version + 1
           b == Written(db.blocks, req)
           entry == [version |-> db.version + 1, blocks |-> Indexes(req.blocks)]
           c == Trim(Append(db.changes, entry))
<1>1. e \in Nat /\ v \in Nat
  BY SMTT(60), ConstantsAssumption DEF Database
<1>2. db.blocks \in [Index -> Data] /\ db.changes \in Seq(Entry)
  BY DEF Database
<1>3. b \in [Index -> Data]
  BY <1>2, WrittenType
<1>4. Indexes(req.blocks) \in SUBSET Nat
  BY SMTT(60) DEF Indexes
<1>5. entry \in Entry
  BY <1>1, <1>4 DEF Entry
<1>6. c \in Seq(Entry)
  BY <1>2, <1>5, AppendedSeq, TrimType
<1>7. req.id \in CommitID \cup {None}
  OBVIOUS
<1>8. Committed(db, req, t) =
        [db EXCEPT !.blocks = b, !.pageCount = req.pageCount, !.version = v,
                   !.lastCommitID = req.id, !.expires = e, !.changes = c]
  BY DEF Committed, Database
<1> HIDE DEF e, v, b, c
<1>9. [db EXCEPT !.blocks = b, !.pageCount = req.pageCount, !.version = v,
                 !.lastCommitID = req.id, !.expires = e, !.changes = c] \in Database
  BY <1>1, <1>3, <1>6, <1>7 DEF Database
<1> QED
  BY <1>8, <1>9

\* A database after its deletion.
LEMMA RemovedType ==
  ASSUME NEW db \in Database
  PROVE  Removed(db) \in Database
<1> DEFINE v == db.version + 1
           n == db.epoch + 1
           c == <<>>
<1>1. v \in Nat /\ n \in Nat /\ c \in Seq(Entry)
  BY SMTT(60) DEF Database
<1>2. Removed(db) =
        [db EXCEPT !.status = "deleted", !.blocks = NoBlocks, !.changes = c,
                   !.pageCount = 0, !.version = v, !.lastCommitID = None,
                   !.epoch = n, !.leaseID = 0, !.holder = None]
  BY DEF Removed, Database
<1> HIDE DEF v, n, c
<1>3. [db EXCEPT !.status = "deleted", !.blocks = NoBlocks, !.changes = c,
                 !.pageCount = 0, !.version = v, !.lastCommitID = None,
                 !.epoch = n, !.leaseID = 0, !.holder = None] \in Database
  BY <1>1, NoBlocksType DEF Database
<1> QED
  BY <1>2, <1>3

\* The lease that a grant returns.
LEMMA NewLeaseType ==
  ASSUME StoreTypeOK, NEW key \in Key
  PROVE  NewLease(key) \in Lease
BY SMTT(60) DEF StoreTypeOK, NewLease, Lease, Database

\* The history entry of a commit.
LEMMA AppliedCommitType ==
  ASSUME StoreTypeOK, NEW req, req.lease \in Lease, req.id \in CommitID,
         req.size \in PageSize, req.pageCount \in Nat
  PROVE  AppliedCommit(req) \in Applied
<1> DEFINE db == dbs[req.lease.key]
           v == db.version + 1
           b == Written(db.blocks, req)
<1>1. req.lease.key \in Key
  BY DEF Lease
<1>2. db \in Database /\ life[req.lease.key] \in Nat
  BY <1>1 DEF StoreTypeOK
<1>3. v \in Nat
  <2> HIDE DEF db
  <2>1. db.version \in Nat
    BY <1>2 DEF Database
  <2> QED
    BY SMTT(60), <2>1
<1>4. b \in [Index -> Data]
  <2>1. db.blocks \in [Index -> Data]
    BY <1>2 DEF Database
  <2> QED
    BY <2>1, WrittenType
<1>5. AppliedCommit(req) =
        [lease |-> req.lease, life |-> life[req.lease.key], version |-> v,
         id |-> req.id, pageCount |-> req.pageCount, blocks |-> b]
  BY DEF AppliedCommit
<1>6. ASSUME NEW l \in Lease, NEW n \in Nat, NEW w \in Nat, NEW id \in CommitID,
             NEW p \in Nat, NEW c \in [Index -> Data]
      PROVE  [lease |-> l, life |-> n, version |-> w, id |-> id, pageCount |-> p,
              blocks |-> c] \in Applied
  BY DEF Applied
<1> HIDE DEF db, v, b
<1> QED
  BY SMTT(60), <1>2, <1>3, <1>4, <1>5, <1>6

\* The parts of an open request.
LEMMA OpenRequestType ==
  ASSUME StoreTypeOK, NEW key \in Key, NEW req \in OpenRequest(key)
  PROVE  /\ req.key = key /\ req.instance \in Instance
         /\ req.pageSize \in PageSize \cup {0} /\ req.now \in Nat
BY SMTT(60) DEF OpenRequest, Nows, StoreTypeOK

\* The parts of a commit request.
LEMMA CommitRequestType ==
  ASSUME StoreTypeOK, NEW req \in CommitRequest
  PROVE  /\ req.lease \in leases /\ req.lease \in Lease /\ req.lease.key \in Key
         /\ req.pageCount \in Nat /\ req.base \in Nat
         /\ req.blocks \in Seq(Nat) /\ req.size \in PageSize
         /\ req.id \in CommitID \cup {None}
BY SMTT(60), ConstantsAssumption DEF CommitRequest, StoreTypeOK, Lease

\* An applied commit has an ID.
LEMMA AppliedHasID ==
  ASSUME NEW req \in CommitRequest, CommitOutcome(req) = "applied"
  PROVE  req.id \in CommitID
BY DEF CommitRequest, CommitOutcome, ValidateCommit

\* The times a request may carry.
LEMMA NowsType == ASSUME StoreTypeOK, NEW t \in Nows PROVE t \in Nat
BY SMTT(60) DEF Nows, StoreTypeOK

-----------------------------------------------------------------------------
(* Type correctness *)

\* Every operation keeps the types.
LEMMA StoreTypeStep ==
  ASSUME StoreTypeOK, [StoreNext]_vars
  PROVE  StoreTypeOK'
<1>1. CASE Tick
  BY SMTT(60), <1>1 DEF Tick, StoreTypeOK
<1>2. CASE Open
  <2> PICK key \in Key : \E req \in OpenRequest(key) : OpenGrant(req) \/ OpenResume(req)
    BY <1>2 DEF Open
  <2> PICK req \in OpenRequest(key) : OpenGrant(req) \/ OpenResume(req)
    OBVIOUS
  <2> dbs[key] \in Database /\ minted \in Nat
    BY DEF StoreTypeOK
  <2>1. CASE OpenGrant(req)
    <3>1. Granted(dbs[key], req) \in Database
      BY OpenRequestType, GrantedType
    <3>2. dbs' \in [Key -> Database]
      BY <2>1, <3>1, OpenRequestType DEF OpenGrant, StoreTypeOK
    <3>3. leases' \subseteq Lease
      BY <2>1, NewLeaseType, OpenRequestType DEF OpenGrant, StoreTypeOK
    <3> QED
      BY SMTT(60), <2>1, <3>2, <3>3 DEF OpenGrant, StoreTypeOK
  <2>2. CASE OpenResume(req)
    <3>1. Extended(dbs[key], req.now) \in Database
      BY OpenRequestType, ExtendedType
    <3> QED
      BY <2>2, <3>1, OpenRequestType DEF OpenResume, StoreTypeOK
  <2> QED
    BY <2>1, <2>2
<1>3. CASE Commit
  <2> PICK req \in CommitRequest, t \in Nows : CommitApply(req, t) \/ CommitRepeat(req, t)
    BY <1>3 DEF Commit
  <2> dbs[req.lease.key] \in Database /\ t \in Nat
    BY CommitRequestType, NowsType DEF StoreTypeOK
  <2>1. CASE CommitApply(req, t)
    <3>1. req.id \in CommitID
      BY <2>1, AppliedHasID DEF CommitApply
    <3>2. Committed(dbs[req.lease.key], req, t) \in Database
      BY <3>1, CommitRequestType, CommittedType
    <3>3. AppliedCommit(req) \in Applied
      BY <3>1, CommitRequestType, AppliedCommitType
    <3> QED
      BY <2>1, <3>2, <3>3 DEF CommitApply, StoreTypeOK
  <2>2. CASE CommitRepeat(req, t)
    <3>1. Extended(dbs[req.lease.key], t) \in Database
      BY ExtendedType
    <3> QED
      BY <2>2, <3>1 DEF CommitRepeat, StoreTypeOK
  <2> QED
    BY <2>1, <2>2
<1>4. ASSUME NEW l \in leases, NEW t \in Nows, Renew(l.key, l.epoch, t)
      PROVE  StoreTypeOK'
  <2>1. l.key \in Key
    BY DEF StoreTypeOK, Lease
  <2>2. Extended(dbs[l.key], t) \in Database
    BY <2>1, NowsType, ExtendedType DEF StoreTypeOK
  <2> QED
    BY <1>4, <2>2 DEF Renew, StoreTypeOK
<1>5. ASSUME NEW l \in leases, Release(l.key, l.epoch)
      PROVE  StoreTypeOK'
  <2>1. dbs[l.key] \in Database
    BY DEF StoreTypeOK, Lease
  <2>2. [dbs[l.key] EXCEPT !.holder = None] \in Database
    BY <2>1 DEF Database
  <2> QED
    BY <1>5, <2>2 DEF Release, StoreTypeOK
<1>6. ASSUME NEW key \in Key, NEW takeover \in BOOLEAN, NEW t \in Nows, Delete(key, takeover, t)
      PROVE  StoreTypeOK'
  <2>1. Removed(dbs[key]) \in Database
    BY RemovedType DEF StoreTypeOK
  <2> QED
    BY <1>6, <2>1 DEF Delete, StoreTypeOK
<1>7. CASE Sweep
  <2>1. \A k \in Key : dbs[k] \in Database /\ Removed(dbs[k]) \in Database /\ life[k] \in Nat
    BY RemovedType DEF StoreTypeOK
  <2>2. dbs' \in [Key -> Database] /\ life' \in [Key -> Nat]
    BY SMTT(60), <1>7, <2>1, NoDatabaseType DEF Sweep, DeleteUnused
  <2>3. slots' \in [Owner -> Slot]
    BY <1>7, NoSlotType DEF Sweep, DeleteUnused, StoreTypeOK
  <2> QED
    BY <1>7, <2>2, <2>3 DEF Sweep, DeleteUnused, StoreTypeOK
<1>8. ASSUME NEW K, Purge(K)
      PROVE  dbs' \in [Key -> Database] /\ life' \in [Key -> Nat]
  BY SMTT(60), <1>8, NoDatabaseType DEF Purge, StoreTypeOK
<1>9. ASSUME NEW s \in Subject, NEW t \in Nows, ClaimSlot(OwnerOf[s], s, t)
      PROVE  StoreTypeOK'
  <2>1. dbs' \in [Key -> Database] /\ life' \in [Key -> Nat]
    BY <1>8, <1>9 DEF ClaimSlot
  <2> DEFINE old == slots[OwnerOf[s]]
             new == [subject |-> s, label |-> None, claimedAt |-> t,
                     replaced |-> (old.replaced \cup {old.subject}) \ {None, s}]
  <2>2. slots \in [Owner -> Slot] /\ slots' = [slots EXCEPT ![OwnerOf[s]] = new]
    BY <1>9 DEF ClaimSlot, StoreTypeOK
  <2>3. OwnerOf[s] \in Owner => new \in Slot
    BY <2>2, NowsType DEF Slot
  <2> HIDE DEF new
  <2>4. slots' \in [Owner -> Slot]
    BY <2>2, <2>3
  <2> QED
    BY <1>9, <2>1, <2>4 DEF ClaimSlot, StoreTypeOK
<1>10. ASSUME NEW s \in Subject, NEW label \in Label, SetSlotLabel(OwnerOf[s], s, label)
       PROVE  StoreTypeOK'
  <2>1. slots \in [Owner -> Slot] /\ slots' = [slots EXCEPT ![OwnerOf[s]].label = label]
    BY <1>10 DEF SetSlotLabel, StoreTypeOK
  <2>2. ASSUME NEW x \in Slot PROVE [x EXCEPT !.label = label] \in Slot
    BY DEF Slot
  <2>3. slots' \in [Owner -> Slot]
    BY <2>1, <2>2
  <2> QED
    BY <1>10, <2>3 DEF SetSlotLabel, StoreTypeOK
<1>11. ASSUME NEW s \in Subject, DeleteSlot(OwnerOf[s], s)
       PROVE  StoreTypeOK'
  <2>1. dbs' \in [Key -> Database] /\ life' \in [Key -> Nat]
    BY <1>8, <1>11 DEF DeleteSlot
  <2> QED
    BY <1>11, <2>1, NoSlotType DEF DeleteSlot, StoreTypeOK
<1>12. CASE UNCHANGED vars
  BY <1>12 DEF vars, StoreTypeOK
<1> QED
  BY <1>1, <1>2, <1>3, <1>4, <1>5, <1>6, <1>7, <1>9, <1>10, <1>11, <1>12 DEF StoreNext

(***************************************************************************)
(* The variables have their types in every reachable state, whatever the   *)
(* requests: the state of internal/store/memory stays well formed.         *)
(***************************************************************************)
THEOREM StoreTypeCorrect == StoreSpec => []StoreTypeOK
<1>1. StoreInit => StoreTypeOK
  BY SMTT(60), NoDatabaseType, NoSlotType DEF StoreInit, StoreTypeOK
<1>2. StoreTypeOK /\ [StoreNext]_vars => StoreTypeOK'
  BY StoreTypeStep
<1> QED
  BY <1>1, <1>2, PTL DEF StoreSpec

-----------------------------------------------------------------------------
(***************************************************************************)
(* What a step does to the records.  Every step grants a lease, applies a  *)
(* commit or is quiet: it records neither, and leaves each record as it is *)
(* but for the holder and the expiry of its lease, or purges it, or        *)
(* deletes it.  What follows rests on these effects alone, so it also      *)
(* holds of the PostgreSQL store, whose steps have them too.               *)
(***************************************************************************)

Kept(db, new) ==
  /\ new.status = db.status /\ new.pageSize = db.pageSize
  /\ new.pageCount = db.pageCount /\ new.version = db.version
  /\ new.lastCommitID = db.lastCommitID /\ new.blocks = db.blocks
  /\ new.changes = db.changes /\ new.epoch = db.epoch /\ new.leaseID = db.leaseID
  /\ new.holder \in {db.holder, None}
  /\ db.status # "live" => new = db

\* The PostgreSQL store also forgets when the lease expired.
Deleted(db, new) ==
  db.status = "live" /\ \E e \in Nat : new = [Removed(db) EXCEPT !.expires = e]

Quiet ==
  /\ leases' = leases /\ applied' = applied
  /\ \A k \in Key :
       \/ life'[k] = life[k] /\ (Kept(dbs[k], dbs'[k]) \/ Deleted(dbs[k], dbs'[k]))
       \/ life'[k] = life[k] + 1 /\ dbs'[k] = NoDatabase

Grants(key, req) ==
  /\ key \in Key /\ req.key = key /\ req.instance \in Instance
  /\ dbs' = [dbs EXCEPT ![key] = Granted(@, req)]
  /\ leases' = leases \cup {NewLease(key)}
  /\ UNCHANGED <<slots, life, applied>>

Applies(req, t) ==
  /\ req \in CommitRequest /\ t \in Nat
  /\ NamesOneCommit(req)
  /\ CommitApply(req, t)

Effect ==
  \/ \E key, req : Grants(key, req)
  \/ \E req, t : Applies(req, t)
  \/ Quiet

\* A database that is not touched is kept.
LEMMA KeptSame == ASSUME NEW db PROVE Kept(db, db)
BY DEF Kept

\* Extending a lease keeps epoch, version and content.
LEMMA ExtendedKept ==
  ASSUME NEW db \in Database, NEW t, db.holder # None,
         db.status # "live" => db.holder = None
  PROVE  Kept(db, Extended(db, t))
<1> DEFINE e == t + TTL
<1> HIDE DEF e
<1>1. Kept(db, [db EXCEPT !.expires = e])
  BY DEF Kept, Database
<1> QED
  BY <1>1 DEF Extended, e

\* Updating one row, with lease and content kept or deleted, is quiet.
LEMMA QuietUpdate ==
  ASSUME StoreTypeOK, NEW key \in Key, NEW new,
         Kept(dbs[key], new) \/ Deleted(dbs[key], new),
         dbs' = [dbs EXCEPT ![key] = new], UNCHANGED <<life, leases, applied>>
  PROVE  Quiet
<1> SUFFICES ASSUME NEW k \in Key
             PROVE  Kept(dbs[k], dbs'[k]) \/ Deleted(dbs[k], dbs'[k])
  BY DEF Quiet
<1>1. CASE k = key
  BY <1>1 DEF StoreTypeOK
<1>2. CASE k # key
  BY <1>2, KeptSame DEF StoreTypeOK
<1> QED
  BY <1>1, <1>2

\* A purge is quiet.
LEMMA QuietPurge ==
  ASSUME StoreTypeOK, StoreInv, NEW K, Purge(K), UNCHANGED <<leases, applied>>
  PROVE  Quiet
<1> SUFFICES ASSUME NEW k \in Key
             PROVE  \/ life'[k] = life[k] /\ Kept(dbs[k], dbs'[k])
                    \/ life'[k] = life[k] + 1 /\ dbs'[k] = NoDatabase
  BY DEF Quiet
<1>1. CASE k \in K /\ dbs[k].status # "missing"
  BY <1>1 DEF Purge
<1>2. CASE k \in K /\ dbs[k].status = "missing"
  <2>1. dbs'[k] = dbs[k] /\ life'[k] = life[k]
    BY <1>2 DEF Purge, StoreInv
  <2> QED
    BY <2>1, KeptSame
<1>3. CASE k \notin K
  <2>1. dbs'[k] = dbs[k] /\ life'[k] = life[k]
    BY <1>3 DEF Purge
  <2> QED
    BY <2>1, KeptSame
<1> QED
  BY <1>1, <1>2, <1>3

\* Epoch and version after a deletion.
LEMMA RemovedFields ==
  ASSUME NEW db \in Database
  PROVE  /\ Removed(db).status = "deleted" /\ Removed(db).holder = None
         /\ Removed(db).version = db.version + 1 /\ Removed(db).epoch = db.epoch + 1
         /\ Removed(db).blocks = NoBlocks /\ Removed(db).changes = <<>>
         /\ Removed(db).pageCount = 0 /\ Removed(db).lastCommitID = None
BY DEF Removed, Database

\* The memory store keeps the time of expiry.
LEMMA RemovedDeleted ==
  ASSUME NEW db \in Database, db.status = "live"
  PROVE  Deleted(db, Removed(db))
<1> DEFINE new == Removed(db)
<1>1. new.expires \in Nat /\ new = [new EXCEPT !.expires = new.expires]
  BY DEF Removed, Database
<1> HIDE DEF new
<1> QED
  BY <1>1 DEF Deleted, new

\* Epoch and version of a deleted database.
LEMMA DeletedFields ==
  ASSUME NEW db \in Database, NEW new, Deleted(db, new)
  PROVE  /\ new.status = "deleted" /\ new.holder = None
         /\ new.version = db.version + 1 /\ new.epoch = db.epoch + 1
         /\ new.blocks = NoBlocks /\ new.changes = <<>>
         /\ new.pageCount = 0 /\ new.lastCommitID = None
<1>1. PICK e \in Nat : new = [Removed(db) EXCEPT !.expires = e]
  BY DEF Deleted
<1>2. Removed(db) \in Database
  BY RemovedType
<1> QED
  BY <1>1, <1>2, RemovedFields DEF Database

\* Every step grants a lease, applies a commit or is quiet.
LEMMA Effects ==
  ASSUME StoreTypeOK, StoreInv, [StoreNext]_vars
  PROVE  \/ \E key \in Key : \E req \in OpenRequest(key) : Grants(key, req) /\ OpenGrant(req)
         \/ \E req, t : Applies(req, t)
         \/ Quiet
<1>0. \A k \in Key : dbs[k] \in Database /\ (dbs[k].status # "live" => dbs[k].holder = None)
  BY DEF StoreTypeOK, StoreInv
<1>a. ASSUME UNCHANGED <<dbs, life, leases, applied>> PROVE Quiet
  BY <1>a, KeptSame DEF Quiet
<1>1. CASE Tick
  BY <1>1, <1>a DEF Tick
<1>2. CASE Open
  <2>1. PICK key \in Key : \E req \in OpenRequest(key) : OpenGrant(req) \/ OpenResume(req)
    BY <1>2 DEF Open
  <2>2. PICK req \in OpenRequest(key) : OpenGrant(req) \/ OpenResume(req)
    BY <2>1
  <2>3. CASE OpenGrant(req)
    <3>1. req.key = key /\ req.instance \in Instance
      BY OpenRequestType
    <3>2. Grants(key, req)
      BY <2>3, <3>1 DEF Grants, OpenGrant
    <3> QED
      BY <2>3, <3>2
  <2>4. CASE OpenResume(req)
    <3>1. req.key = key
      BY OpenRequestType
    <3>2. OpenOutcome(req) = "resumed" => Holds(dbs[req.key], req.resume.epoch)
      BY DEF OpenOutcome
    <3>3. dbs[key].holder # None
      BY <2>4, <3>1, <3>2 DEF OpenResume, Holds
    <3>4. Kept(dbs[key], Extended(dbs[key], req.now))
      BY <1>0, <3>3, ExtendedKept
    <3>5. dbs' = [dbs EXCEPT ![key] = Extended(dbs[key], req.now)] /\ UNCHANGED <<life, leases, applied>>
      BY <2>4, <3>1 DEF OpenResume
    <3> QED
      BY <3>4, <3>5, QuietUpdate
  <2> QED
    BY <2>2, <2>3, <2>4
<1>3. CASE Commit
  <2> PICK req \in CommitRequest, t \in Nows :
         /\ NamesOneCommit(req)
         /\ (CommitApply(req, t) \/ CommitRepeat(req, t))
    BY <1>3 DEF Commit
  <2>1. CASE CommitApply(req, t)
    BY <2>1, NowsType DEF Applies
  <2>2. CASE CommitRepeat(req, t)
    <3>1. req.lease.key \in Key /\ dbs[req.lease.key].holder # None
      BY <2>2, CommitRequestType DEF CommitRepeat, CommitOutcome, Holds
    <3>2. Kept(dbs[req.lease.key], Extended(dbs[req.lease.key], t))
      BY <1>0, <3>1, ExtendedKept
    <3> QED
      BY <2>2, <3>1, <3>2, QuietUpdate DEF CommitRepeat
  <2> QED
    BY <2>1, <2>2
<1>4. ASSUME NEW l \in leases, NEW t \in Nows, Renew(l.key, l.epoch, t)
      PROVE  Quiet
  <2>1. l.key \in Key /\ dbs[l.key].holder # None
    BY <1>4 DEF Renew, LeaseOutcome, Holds, StoreTypeOK, Lease
  <2>2. Kept(dbs[l.key], Extended(dbs[l.key], t))
    BY <1>0, <2>1, ExtendedKept
  <2> QED
    BY <1>4, <2>1, <2>2, QuietUpdate DEF Renew
<1>5. ASSUME NEW l \in leases, Release(l.key, l.epoch)
      PROVE  Quiet
  <2>1. l.key \in Key /\ dbs[l.key].holder # None
    BY <1>5 DEF Release, LeaseOutcome, Holds, StoreTypeOK, Lease
  <2>2. Kept(dbs[l.key], [dbs[l.key] EXCEPT !.holder = None])
    BY <1>0, <2>1 DEF Kept, Database
  <2> QED
    BY <1>5, <2>1, <2>2, QuietUpdate DEF Release
<1>6. ASSUME NEW key \in Key, NEW takeover \in BOOLEAN, NEW t \in Nows, Delete(key, takeover, t)
      PROVE  Quiet
  <2>1. Deleted(dbs[key], Removed(dbs[key]))
    BY <1>0, <1>6, RemovedDeleted DEF Delete, DeleteOutcome
  <2> QED
    BY <1>6, <2>1, QuietUpdate DEF Delete
<1>7. CASE Sweep
  <2>1. PICK B \in Batches(now - UnusedAfter, SweepBatch) :
          LET purged == {k \in B : k[1] \in slotHolders} IN
          /\ dbs' = [k \in Key |-> IF k \in purged THEN NoDatabase
                                   ELSE IF k \in B THEN Removed(dbs[k]) ELSE dbs[k]]
          /\ life' = [k \in Key |-> IF k \in purged THEN life[k] + 1 ELSE life[k]]
    BY <1>7 DEF Sweep, DeleteUnused
  <2>2. \A k \in B : dbs[k].status = "live"
    BY DEF Batches, Unused
  <2>3. \A k \in Key :
          \/ life'[k] = life[k] /\ (Kept(dbs[k], dbs'[k]) \/ Deleted(dbs[k], dbs'[k]))
          \/ life'[k] = life[k] + 1 /\ dbs'[k] = NoDatabase
    BY <1>0, <2>1, <2>2, KeptSame, RemovedDeleted
  <2> QED
    BY <1>7, <2>3 DEF Sweep, DeleteUnused, Quiet
<1>8. ASSUME NEW s \in Subject, NEW t \in Nows, ClaimSlot(OwnerOf[s], s, t)
      PROVE  Quiet
  BY <1>8, QuietPurge DEF ClaimSlot
<1>9. ASSUME NEW s \in Subject, NEW label \in Label, SetSlotLabel(OwnerOf[s], s, label)
      PROVE  Quiet
  BY <1>9, <1>a DEF SetSlotLabel
<1>10. ASSUME NEW s \in Subject, DeleteSlot(OwnerOf[s], s)
       PROVE  Quiet
  BY <1>10, QuietPurge DEF DeleteSlot
<1>11. CASE UNCHANGED vars
  BY <1>11, <1>a DEF vars
<1> QED
  BY <1>1, <1>2, <1>3, <1>4, <1>5, <1>6, <1>7, <1>8, <1>9, <1>10, <1>11 DEF StoreNext

\* The same as a disjunction of effects.
LEMMA StepEffect ==
  ASSUME StoreTypeOK, StoreInv, [StoreNext]_vars
  PROVE  Effect
BY Effects DEF Effect

\* Epoch and version after a grant.
LEMMA GrantedFields ==
  ASSUME NEW db \in Database, NEW req
  PROVE  /\ Granted(db, req).status = "live" /\ Granted(db, req).version = db.version
         /\ Granted(db, req).epoch = db.epoch + 1
         /\ db.status = "live" => Granted(db, req).pageSize = db.pageSize
         /\ Granted(db, req).blocks = db.blocks /\ Granted(db, req).changes = db.changes
         /\ Granted(db, req).pageCount = db.pageCount
         /\ Granted(db, req).lastCommitID = db.lastCommitID
BY DEF Granted, Database

\* Epoch and version after a commit.
LEMMA CommittedFields ==
  ASSUME NEW db \in Database, NEW req, NEW t
  PROVE  /\ Committed(db, req, t).status = db.status
         /\ Committed(db, req, t).epoch = db.epoch
         /\ Committed(db, req, t).leaseID = db.leaseID
         /\ Committed(db, req, t).pageSize = db.pageSize
         /\ Committed(db, req, t).version = db.version + 1
         /\ Committed(db, req, t).pageCount = req.pageCount
         /\ Committed(db, req, t).lastCommitID = req.id
BY DEF Committed, Database

\* Epoch and version of a missing database.
LEMMA NoDatabaseFields ==
  /\ NoDatabase.status = "missing" /\ NoDatabase.version = 0 /\ NoDatabase.epoch = 0
  /\ NoDatabase.pageCount = 0 /\ NoDatabase.lastCommitID = None
  /\ NoDatabase.blocks = NoBlocks /\ NoDatabase.changes = <<>>
  /\ NoDatabase.holder = None
BY DEF NoDatabase

\* What a grant does, field by field.
LEMMA GrantStep ==
  ASSUME StoreTypeOK, NEW key, NEW req, Grants(key, req)
  PROVE  /\ key \in Key /\ req.key = key
         /\ life' = life /\ applied' = applied /\ slots' = slots
         /\ leases' = leases \cup {NewLease(key)}
         /\ dbs[key] \in Database /\ dbs'[key] = Granted(dbs[key], req)
         /\ \A k \in Key \ {key} : dbs'[k] = dbs[k]
BY DEF Grants, StoreTypeOK

\* What a commit does, field by field.  It is applied under the epoch of its lease.
LEMMA ApplyStep ==
  ASSUME StoreTypeOK, StoreInv, NEW req, NEW t, Applies(req, t)
  PROVE  LET key == req.lease.key IN
         /\ key \in Key /\ req.lease \in leases
         /\ life' = life /\ leases' = leases /\ slots' = slots
         /\ applied' = applied \cup {AppliedCommit(req)}
         /\ dbs[key] \in Database /\ dbs'[key] = Committed(dbs[key], req, t)
         /\ dbs[key].status = "live" /\ dbs[key].epoch = req.lease.epoch
         /\ dbs[key].version = req.base /\ ValidateCommit(dbs[key].pageSize, req)
         /\ req.id \in CommitID /\ req.size \in PageSize /\ req.pageCount \in Nat
         /\ req.blocks \in Seq(Nat)
         /\ \A k \in Key \ {key} : dbs'[k] = dbs[k]
<1> req \in CommitRequest /\ CommitApply(req, t)
  BY DEF Applies
<1> DEFINE key == req.lease.key
<1>1. key \in Key /\ req.lease \in leases
  BY CommitRequestType
<1>2. dbs[key] \in Database
  BY <1>1 DEF StoreTypeOK
<1>3. /\ dbs'[key] = Committed(dbs[key], req, t)
      /\ \A k \in Key \ {key} : dbs'[k] = dbs[k]
  BY <1>1 DEF CommitApply, StoreTypeOK
<1>4. CommitOutcome(req) = "applied"
  BY DEF CommitApply
<1>5. /\ Holds(dbs[key], req.lease.epoch) /\ dbs[key].version = req.base
      /\ ValidateCommit(dbs[key].pageSize, req)
  BY <1>4 DEF CommitOutcome, Conflicts
<1>6. dbs[key].status = "live" /\ dbs[key].epoch = req.lease.epoch
  BY <1>1, <1>5 DEF Holds, StoreInv
<1>7. req.id \in CommitID /\ req.size \in PageSize /\ req.pageCount \in Nat /\ req.blocks \in Seq(Nat)
  BY <1>4, AppliedHasID, CommitRequestType
<1>8. /\ life' = life /\ leases' = leases /\ slots' = slots
      /\ applied' = applied \cup {AppliedCommit(req)}
  BY DEF CommitApply
<1> HIDE DEF key
<1>9. QED
  BY <1>1, <1>2, <1>3, <1>5, <1>6, <1>7, <1>8 DEF key

\* Every operation keeps the inductive invariant.
LEMMA StoreInvStep ==
  ASSUME StoreTypeOK, StoreTypeOK', StoreInv, Effect
  PROVE  StoreInv'
<1> DEFINE RecordOK(k) ==
      /\ dbs[k].status = "missing" => dbs[k] = NoDatabase
      /\ dbs[k].status # "live" => dbs[k].holder = None /\ dbs[k].blocks = NoBlocks
    LeaseOK(l) ==
      /\ l.life <= life[l.key]
      /\ l.life = life[l.key] =>
           l.epoch <= dbs[l.key].epoch /\ l.version <= dbs[l.key].version
    AppliedOK(a) ==
      /\ a.life <= life[a.lease.key] /\ a.version >= 1
      /\ a.life = life[a.lease.key] => a.version <= dbs[a.lease.key].version
<1>1. \A k \in Key : /\ dbs[k] \in Database /\ dbs'[k] \in Database
                     /\ life[k] \in Nat /\ life'[k] \in Nat
                     /\ dbs[k].version \in Nat /\ dbs[k].epoch \in Nat
                     /\ dbs'[k].version \in Nat /\ dbs'[k].epoch \in Nat
  BY DEF StoreTypeOK, Database
<1>2. \A l \in leases : l.key \in Key /\ l.life \in Nat /\ l.epoch \in Nat /\ l.version \in Nat
  BY DEF StoreTypeOK, Lease
<1>3. \A a \in applied : a.lease.key \in Key /\ a.life \in Nat /\ a.version \in Nat
  BY DEF StoreTypeOK, Applied, Lease
<1>4. /\ \A k \in Key : RecordOK(k)
      /\ \A l \in leases : LeaseOK(l)
      /\ \A a \in applied : AppliedOK(a)
  BY DEF StoreInv
<1>5. ASSUME NEW key, NEW req, Grants(key, req) PROVE StoreInv'
  <2>1. \A k \in Key : /\ dbs'[k].version = dbs[k].version
                       /\ dbs'[k].epoch >= dbs[k].epoch /\ RecordOK(k)'
    BY SMTT(60), <1>1, <1>4, <1>5, GrantStep, GrantedFields
  <2>2. ASSUME NEW l \in leases' PROVE LeaseOK(l)'
    <3>1. CASE l \in leases
      BY SMTT(60), <1>2, <1>1, <1>4, <1>5, <2>1, <3>1, GrantStep
    <3>2. CASE l = NewLease(key)
      <4>1. /\ l.key = key /\ l.life = life[key] /\ l.epoch = dbs[key].epoch + 1
            /\ l.version = dbs[key].version
        BY <3>2 DEF NewLease
      <4> QED
        BY SMTT(60), <1>1, <1>5, <4>1, GrantStep, GrantedFields
    <3> QED
      BY SMTT(60), <1>5, <3>1, <3>2, GrantStep
  <2>3. \A a \in applied : AppliedOK(a)'
    BY <1>3, <1>4, <1>5, <2>1, GrantStep
  <2>4. applied' = applied
    BY <1>5, GrantStep
  <2> QED
    BY <2>1, <2>2, <2>3, <2>4 DEF StoreInv
<1>6. ASSUME NEW req, NEW t, Applies(req, t) PROVE StoreInv'
  <2> DEFINE key == req.lease.key
  <2>0. /\ key \in Key /\ life' = life /\ leases' = leases
        /\ applied' = applied \cup {AppliedCommit(req)}
        /\ dbs'[key] = Committed(dbs[key], req, t) /\ dbs[key].status = "live"
        /\ \A k \in Key \ {key} : dbs'[k] = dbs[k]
    BY <1>6, ApplyStep
  <2> HIDE DEF key
  <2>a. /\ dbs'[key].status = "live" /\ dbs'[key].epoch = dbs[key].epoch
        /\ dbs'[key].version = dbs[key].version + 1
    <3> DEFINE new == Committed(dbs[key], req, t)
    <3>1. dbs[key] \in Database
      BY <1>1, <2>0
    <3>2. new.status = dbs[key].status /\ new.epoch = dbs[key].epoch /\ new.version = dbs[key].version + 1
      BY SMTT(60), <3>1, CommittedFields
    <3> HIDE DEF new
    <3> QED
      BY <2>0, <3>2 DEF new
  <2>1. \A k \in Key : /\ dbs'[k].version >= dbs[k].version
                       /\ dbs'[k].epoch = dbs[k].epoch /\ RecordOK(k)'
    BY SMTT(60), <1>1, <1>4, <2>0, <2>a
  <2>2. \A l \in leases : LeaseOK(l)'
    BY SMTT(60), <1>1, <1>2, <1>4, <2>0, <2>1
  <2>3. ASSUME NEW a \in applied' PROVE AppliedOK(a)'
    <3>1. CASE a \in applied
      BY SMTT(60), <1>1, <1>3, <1>4, <2>0, <2>1, <3>1
    <3>2. CASE a = AppliedCommit(req)
      <4>1. a.lease.key = key /\ a.life = life[key] /\ a.version = dbs[key].version + 1
        BY <3>2 DEF AppliedCommit, key
      <4> QED
        BY SMTT(60), <1>1, <2>0, <2>a, <4>1
    <3> QED
      BY <2>0, <3>1, <3>2
  <2> QED
    BY <2>0, <2>1, <2>2, <2>3 DEF StoreInv
<1>7. CASE Quiet
  <2>1. \A k \in Key : RecordOK(k)'
    BY <1>1, <1>4, <1>7, DeletedFields, NoDatabaseFields DEF Quiet, Kept
  <2>2. ASSUME NEW k \in Key
        PROVE  /\ life'[k] >= life[k]
               /\ life'[k] = life[k] => /\ dbs'[k].version >= dbs[k].version
                                        /\ dbs'[k].epoch >= dbs[k].epoch
    <3>1. CASE life'[k] = life[k] /\ Kept(dbs[k], dbs'[k])
      BY SMTT(60), <1>1, <3>1 DEF Kept
    <3>2. CASE life'[k] = life[k] /\ Deleted(dbs[k], dbs'[k])
      BY SMTT(60), <1>1, <3>2, DeletedFields
    <3>3. CASE life'[k] = life[k] + 1
      BY SMTT(60), <1>1, <3>3
    <3> QED
      BY <1>7, <3>1, <3>2, <3>3 DEF Quiet
  <2>3. \A l \in leases : LeaseOK(l)'
    BY SMTT(60), <1>1, <1>2, <1>4, <2>2
  <2>4. \A a \in applied : AppliedOK(a)'
    BY SMTT(60), <1>1, <1>3, <1>4, <2>2
  <2> QED
    BY <1>7, <2>1, <2>3, <2>4 DEF Quiet, StoreInv
<1> QED
  BY <1>5, <1>6, <1>7 DEF Effect

(***************************************************************************)
(* The bookkeeping of leases and commits is never behind the records of    *)
(* the store (Open, Commit and remove in memory.go).                       *)
(***************************************************************************)
THEOREM StoreInvariant == StoreSpec => [](StoreTypeOK /\ StoreInv)
<1>1. StoreInit => StoreTypeOK /\ StoreInv
  <2>1. StoreInit => StoreTypeOK
    BY SMTT(60), NoDatabaseType, NoSlotType DEF StoreInit, StoreTypeOK
  <2>2. StoreInit => StoreInv
    BY NoDatabaseFields DEF StoreInit, StoreInv
  <2> QED
    BY <2>1, <2>2
<1>2. StoreTypeOK /\ StoreInv /\ [StoreNext]_vars => (StoreTypeOK /\ StoreInv)'
  BY StoreTypeStep, StepEffect, StoreInvStep
<1> QED
  BY <1>1, <1>2, PTL DEF StoreSpec

-----------------------------------------------------------------------------
(* Fencing and idempotence *)

\* Every operation keeps Fencing.
LEMMA FencingStep ==
  ASSUME StoreTypeOK, StoreInv, Fencing, Effect
  PROVE  Fencing'
<1> SUFFICES ASSUME NEW a \in applied', NEW l \in leases',
                    a.lease.key = l.key, a.lease.life = l.life, a.life = l.life,
                    a.lease.epoch < l.epoch
             PROVE  a.version <= l.version
  BY DEF Fencing
<1>1. CASE a \in applied /\ l \in leases
  BY <1>1 DEF Fencing
<1>2. ASSUME NEW key, NEW req, Grants(key, req), l \notin leases
      PROVE  a.version <= l.version
  <2>1. a \in applied /\ l = NewLease(key)
    BY <1>2, GrantStep
  <2>2. l.key = key /\ l.life = life[key] /\ l.version = dbs[key].version
    BY <2>1 DEF NewLease
  <2> QED
    BY <2>1, <2>2 DEF StoreInv
<1>3. ASSUME NEW req, NEW t, Applies(req, t), a \notin applied
      PROVE  FALSE
  <2>1. a = AppliedCommit(req) /\ l \in leases
    BY SMTT(60), <1>3, ApplyStep
  <2>2. a.lease = req.lease /\ a.life = life[req.lease.key]
    BY <2>1 DEF AppliedCommit
  <2>3. req.lease.key \in Key /\ dbs[req.lease.key].epoch = req.lease.epoch
    BY <1>3, ApplyStep
  <2>4. l.epoch <= dbs[l.key].epoch
    BY <2>1, <2>2 DEF StoreInv
  <2>5. l.epoch \in Nat /\ dbs[req.lease.key].epoch \in Nat
    BY <2>1, <2>3 DEF StoreTypeOK, Lease, Database
  <2> QED
    BY SMTT(60), <2>2, <2>3, <2>4, <2>5
<1>4. CASE Quiet
  BY <1>1, <1>4 DEF Quiet
<1>5. ASSUME NEW key, NEW req, Grants(key, req) PROVE a \in applied
  BY <1>5, GrantStep
<1>6. ASSUME NEW req, NEW t, Applies(req, t) PROVE l \in leases
  BY <1>6, ApplyStep
<1> QED
  BY <1>1, <1>2, <1>3, <1>4, <1>5, <1>6 DEF Effect

(***************************************************************************)
(* Fencing holds for every number of clients, leases and requests in       *)
(* flight, and whatever the clocks say.                                    *)
(***************************************************************************)
THEOREM FencingHolds == StoreSpec => []Fencing
<1>1. StoreInit => Fencing
  BY DEF StoreInit, Fencing
<1>2. StoreTypeOK /\ StoreInv /\ Fencing /\ [StoreNext]_vars => Fencing'
  BY StepEffect, FencingStep
<1> QED
  BY <1>1, <1>2, StoreInvariant, PTL DEF StoreSpec

\* Every operation keeps ExactlyOnce.
LEMMA ExactlyOnceStep ==
  ASSUME StoreTypeOK, StoreInv, ExactlyOnce, Effect
  PROVE  ExactlyOnce'
<1>1. ASSUME applied' = applied PROVE ExactlyOnce'
  BY <1>1 DEF ExactlyOnce
<1>2. ASSUME NEW req, NEW t, Applies(req, t) PROVE ExactlyOnce'
  <2> DEFINE new == AppliedCommit(req)
             key == req.lease.key
  <2>1. /\ key \in Key /\ applied' = applied \cup {new}
        /\ dbs[key].version = req.base
    BY <1>2, ApplyStep
  <2>2. /\ new.lease.key = key /\ new.life = life[key]
        /\ new.version = dbs[key].version + 1 /\ new.id = req.id
    BY DEF AppliedCommit
  <2>3. dbs[key].version \in Nat
    BY <2>1 DEF StoreTypeOK, Database
  <2> HIDE DEF new, key
  <2>4. ASSUME NEW a \in applied, a.lease.key = key, a.life = life[key]
        PROVE  a.id # new.id /\ a.version # new.version
    <3>1. a.version \in Nat /\ a.version <= dbs[key].version
      BY <2>4 DEF StoreInv, StoreTypeOK, Applied
    <3>2. a.id = req.id => a.version = req.base + 1
      BY <1>2 DEF Applies, NamesOneCommit
    <3> QED
      BY SMTT(60), <2>1, <2>2, <2>3, <3>1, <3>2
  <2> QED
    BY SMTT(60), <2>1, <2>2, <2>4 DEF ExactlyOnce
<1>3. ASSUME NEW key, NEW req, Grants(key, req) PROVE applied' = applied
  BY <1>3, GrantStep
<1>4. CASE Quiet
  BY <1>1, <1>4 DEF Quiet
<1> QED
  BY <1>1, <1>2, <1>3, <1>4 DEF Effect

(***************************************************************************)
(* Commits are applied exactly once for every number of repetitions, if    *)
(* commit IDs name one commit each.                                        *)
(***************************************************************************)
THEOREM ExactlyOnceHolds == StoreSpec => []ExactlyOnce
<1>1. StoreInit => ExactlyOnce
  BY DEF StoreInit, ExactlyOnce
<1>2. StoreTypeOK /\ StoreInv /\ ExactlyOnce /\ [StoreNext]_vars => ExactlyOnce'
  BY StepEffect, ExactlyOnceStep
<1> QED
  BY <1>1, <1>2, StoreInvariant, PTL DEF StoreSpec

-----------------------------------------------------------------------------
(* Growth of epochs and versions *)

Grows(key) ==
  life'[key] = life[key] =>
    /\ dbs'[key].epoch >= dbs[key].epoch
    /\ dbs'[key].version >= dbs[key].version
    /\ dbs'[key].status # dbs[key].status => dbs'[key].epoch > dbs[key].epoch
    /\ dbs'[key].leaseID # dbs[key].leaseID => dbs'[key].epoch > dbs[key].epoch

\* No operation lets an epoch or a version fall.
LEMMA GrowthStep ==
  ASSUME StoreTypeOK, StoreInv, Effect, NEW k \in Key
  PROVE  Grows(k)
<1>1. dbs[k] \in Database /\ dbs[k].epoch \in Nat /\ dbs[k].version \in Nat /\ life[k] \in Nat
  BY DEF StoreTypeOK, Database
<1>2. ASSUME dbs'[k] = dbs[k] PROVE Grows(k)
  BY SMTT(60), <1>1, <1>2 DEF Grows
<1>3. ASSUME NEW key, NEW req, Grants(key, req) PROVE Grows(k)
  <2>1. CASE k = key
    BY SMTT(60), <1>1, <1>3, <2>1, GrantStep, GrantedFields DEF Grows
  <2>2. CASE k # key
    BY SMTT(60), <1>2, <1>3, <2>2, GrantStep
  <2> QED
    BY <2>1, <2>2
<1>4. ASSUME NEW req, NEW t, Applies(req, t) PROVE Grows(k)
  <2>1. CASE k = req.lease.key
    <3>1. dbs'[k] = Committed(dbs[k], req, t)
      BY <1>4, <2>1, ApplyStep
    <3> QED
      BY SMTT(60), <1>1, <3>1, CommittedFields DEF Grows
  <2>2. CASE k # req.lease.key
    BY <1>2, <1>4, <2>2, ApplyStep
  <2> QED
    BY <2>1, <2>2
<1>5. CASE Quiet
  <2>1. CASE Kept(dbs[k], dbs'[k])
    BY SMTT(60), <1>1, <2>1 DEF Kept, Grows
  <2>2. CASE Deleted(dbs[k], dbs'[k])
    BY SMTT(60), <1>1, <2>2, DeletedFields DEF Grows
  <2>3. CASE life'[k] = life[k] + 1
    BY SMTT(60), <1>1, <2>3 DEF Grows
  <2> QED
    BY <1>5, <2>1, <2>2, <2>3 DEF Quiet
<1> QED
  BY <1>3, <1>4, <1>5 DEF Effect

(***************************************************************************)
(* No step of the store takes an epoch or a version back while the record  *)
(* of the database exists.                                                 *)
(***************************************************************************)
THEOREM GrowthHolds == StoreSpec => EpochAndVersionGrow
<1>1. StoreTypeOK /\ StoreInv /\ [StoreNext]_vars =>
        [\A key \in Key : life'[key] = life[key] =>
           /\ dbs'[key].epoch >= dbs[key].epoch
           /\ dbs'[key].version >= dbs[key].version
           /\ dbs'[key].status # dbs[key].status => dbs'[key].epoch > dbs[key].epoch
           /\ dbs'[key].leaseID # dbs[key].leaseID => dbs'[key].epoch > dbs[key].epoch]_vars
  BY StepEffect, GrowthStep DEF Grows
<1> QED
  BY <1>1, StoreInvariant, PTL DEF StoreSpec, EpochAndVersionGrow

-----------------------------------------------------------------------------
(* Slots *)

\* A slot belongs to keys of its owner, the one that holds it and those it replaced.
SlotsInv ==
  /\ ReplacedKeysHaveNothing
  /\ \A o \in Owner :
       /\ \A s \in slots[o].replaced \cup ({slots[o].subject} \ {None}) : OwnerOf[s] = o
       /\ slots[o].subject \notin slots[o].replaced
       /\ slots[o].subject = None => slots[o].replaced = {}

\* A missing database stays missing unless Open creates it.
LEMMA MissingStays ==
  ASSUME StoreTypeOK, StoreInv, [StoreNext]_vars, NEW k \in Key, dbs[k].status = "missing"
  PROVE  \/ dbs'[k].status = "missing"
         \/ \E req \in OpenRequest(k) : OpenGrant(req)
<1>1. ASSUME NEW key \in Key, NEW req \in OpenRequest(key), Grants(key, req), OpenGrant(req)
      PROVE  dbs'[k].status = "missing" \/ \E r \in OpenRequest(k) : OpenGrant(r)
  BY <1>1, GrantStep
<1>2. ASSUME NEW req, NEW t, Applies(req, t) PROVE dbs'[k].status = "missing"
  BY <1>2, ApplyStep
<1>3. CASE Quiet
  BY <1>3, NoDatabaseFields DEF Quiet, Kept, Deleted
<1> QED
  BY <1>1, <1>2, <1>3, Effects

\* Every operation keeps ReplacedKeysHaveNothing.
LEMMA SlotsStep ==
  ASSUME StoreTypeOK, StoreInv, SlotsInv, [StoreNext]_vars
  PROVE  SlotsInv'
<1>0. \A o \in Owner : slots[o].replaced \subseteq Subject /\ slots[o].subject \in Subject \cup {None}
  BY DEF StoreTypeOK, Slot
<1>1. ASSUME NEW k \in Key, NEW o \in Owner, k[1] \in slots[o].replaced
      PROVE  dbs'[k].status = "missing"
  <2>1. dbs[k].status = "missing"
    BY <1>1 DEF SlotsInv, ReplacedKeysHaveNothing
  <2>2. ASSUME NEW req \in OpenRequest(k), OpenGrant(req) PROVE FALSE
    <3>1. OwnerOf[k[1]] = o /\ slots[o].subject \notin {None, k[1]}
      BY <1>1 DEF SlotsInv
    <3>2. SlotTaken(req)
      BY SMTT(60), <3>1, OpenRequestType, ConstantsAssumption DEF SlotTaken
    <3> QED
      BY <2>2, <3>2 DEF OpenGrant, OpenOutcome
  <2> QED
    BY <2>1, <2>2, MissingStays
<1>2. ASSUME \A o \in Owner : \/ slots'[o] = NoSlot
                              \/ /\ slots'[o].subject = slots[o].subject
                                 /\ slots'[o].replaced = slots[o].replaced
      PROVE  SlotsInv'
  <2>1. NoSlot.subject = None /\ NoSlot.replaced = {}
    BY DEF NoSlot
  <2> QED
    BY <1>1, <1>2, <2>1 DEF SlotsInv, ReplacedKeysHaveNothing
<1>3. CASE slots' = slots
  BY <1>2, <1>3
<1>4. CASE Sweep
  BY <1>2, <1>4 DEF Sweep, DeleteUnused
<1>5. ASSUME NEW s \in Subject, NEW label \in Label, SetSlotLabel(OwnerOf[s], s, label)
      PROVE  SlotsInv'
  BY <1>2, <1>5 DEF SetSlotLabel, StoreTypeOK, Slot
<1>6. ASSUME NEW s \in Subject, DeleteSlot(OwnerOf[s], s)
      PROVE  SlotsInv'
  BY <1>2, <1>6 DEF DeleteSlot, StoreTypeOK
<1>7. ASSUME NEW s \in Subject, OwnerOf[s] # NoOwner, NEW t \in Nows, ClaimSlot(OwnerOf[s], s, t)
      PROVE  SlotsInv'
  <2> DEFINE o == OwnerOf[s]
             old == slots[o]
  <2>1. o \in Owner /\ s # None
    BY <1>7, ConstantsAssumption
  <2>2. /\ slots'[o].subject = s
        /\ slots'[o].replaced = (old.replaced \cup {old.subject}) \ {None, s}
        /\ \A q \in Owner \ {o} : slots'[q] = slots[q]
    BY <1>7, <2>1 DEF ClaimSlot, StoreTypeOK
  <2>3. ASSUME old.subject # None, NEW k \in KeysOf(old.subject)
        PROVE  dbs'[k].status = "missing"
    BY <1>7, <2>3, NoDatabaseFields DEF ClaimSlot, Purge, KeysOf
  <2> HIDE DEF o, old
  <2>4. ASSUME NEW q \in Owner, NEW k \in Key, k[1] \in slots'[q].replaced
        PROVE  dbs'[k].status = "missing"
    <3>1. CASE q # o
      BY <1>1, <2>2, <2>4, <3>1
    <3>2. CASE q = o /\ k[1] = old.subject
      BY <2>2, <2>3, <2>4, <3>2 DEF KeysOf
    <3>3. CASE q = o /\ k[1] # old.subject
      BY <1>1, <2>2, <2>4, <3>3 DEF old
    <3> QED
      BY <3>1, <3>2, <3>3
  <2>5. ASSUME NEW q \in Owner
        PROVE  /\ \A r \in slots'[q].replaced \cup ({slots'[q].subject} \ {None}) : OwnerOf[r] = q
               /\ slots'[q].subject \notin slots'[q].replaced
               /\ slots'[q].subject = None => slots'[q].replaced = {}
    <3>1. CASE q # o
      BY <2>2, <3>1 DEF SlotsInv
    <3>2. CASE q = o
      <4>1. \A r \in old.replaced \cup ({old.subject} \ {None}) : OwnerOf[r] = q
        BY <3>2 DEF SlotsInv, old
      <4>2. OwnerOf[s] = q
        BY <3>2 DEF o
      <4> QED
        BY <2>1, <2>2, <3>2, <4>1, <4>2
    <3> QED
      BY <3>1, <3>2
  <2> QED
    BY <2>4, <2>5 DEF SlotsInv, ReplacedKeysHaveNothing
<1>8. CASE Open \/ Commit \/ Tick \/ UNCHANGED vars
  BY <1>3, <1>8 DEF Open, OpenGrant, OpenResume, Commit, CommitApply, CommitRepeat, Tick, vars
<1>9. ASSUME NEW l \in leases, NEW t, Renew(l.key, l.epoch, t) \/ Release(l.key, l.epoch)
      PROVE  SlotsInv'
  BY <1>3, <1>9 DEF Renew, Release
<1>10. ASSUME NEW key, NEW takeover, NEW t, Delete(key, takeover, t)
       PROVE  SlotsInv'
  BY <1>3, <1>10 DEF Delete
<1> QED
  BY <1>4, <1>5, <1>6, <1>7, <1>8, <1>9, <1>10 DEF StoreNext

(***************************************************************************)
(* A replaced key has no databases while the slot is held, for every       *)
(* number of keys and owners (ClaimSlot, Open and DeleteUnused).           *)
(***************************************************************************)
THEOREM ReplacedKeysHold == StoreSpec => []ReplacedKeysHaveNothing
<1>1. ASSUME StoreInit
      PROVE  SlotsInv
  <2>1. \A o \in Owner : slots[o].replaced = {} /\ slots[o].subject = None
    BY <1>1 DEF StoreInit, NoSlot
  <2> QED
    BY <2>1 DEF SlotsInv, ReplacedKeysHaveNothing
<1>2. StoreTypeOK /\ StoreInv /\ SlotsInv /\ [StoreNext]_vars => SlotsInv'
  BY SlotsStep
<1>3. SlotsInv => ReplacedKeysHaveNothing
  BY DEF SlotsInv
<1> QED
  BY <1>1, <1>2, <1>3, StoreInvariant, PTL DEF StoreSpec
=============================================================================
