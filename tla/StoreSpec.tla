----------------------------- MODULE StoreSpec -----------------------------
(***************************************************************************)
(* The store with its callers: connections that pass on the requests of    *)
(* clients, and the sweep of unused databases.  A client names a lease     *)
(* that some Open granted; whether it is still current is for the store to *)
(* find out.                                                               *)
(***************************************************************************)
EXTENDS Store

CONSTANTS
  UnusedAfter,    \* time without use after which the sweep deletes a database
  SweepBatch      \* databases the sweep deletes in one call

ASSUME CallersAssumption ==
  UnusedAfter \in Nat /\ SweepBatch \in Nat \ {0}

ResumeOf(key) ==
  {NoResume} \cup {[id |-> l.id, epoch |-> l.epoch] : l \in {m \in leases : m.key = key}}

OpenRequest(key) ==
  [key : {key}, instance : Instance, pageSize : PageSize \cup {0}, create : BOOLEAN,
   takeover : BOOLEAN, resume : ResumeOf(key), now : Nows]

CommitRequest ==
  [lease : leases, id : CommitID \cup {None}, base : 0 .. MaxVersion,
   pageCount : 0 .. MaxPages, blocks : BlockList, size : PageSize]

(***************************************************************************)
(* A commit ID is 16 random bytes, drawn anew for every commit.  It comes  *)
(* back only when its commit is repeated, perhaps under a later lease.     *)
(***************************************************************************)
NamesOneCommit(req) ==
  \A a \in applied : a.id = req.id =>
    a.lease.key = req.lease.key /\ a.version = req.base + 1

Open == \E key \in Key : \E req \in OpenRequest(key) : OpenGrant(req) \/ OpenResume(req)

Commit ==
  \E req \in CommitRequest, t \in Nows :
    /\ NamesOneCommit(req)
    /\ CommitApply(req, t) \/ CommitRepeat(req, t)

Sweep ==
  /\ now >= UnusedAfter
  /\ DeleteUnused(now - UnusedAfter, SweepBatch)

StoreNext ==
  \/ Tick
  \/ Open
  \/ Commit
  \/ \E l \in leases, t \in Nows : Renew(l.key, l.epoch, t)
  \/ \E l \in leases : Release(l.key, l.epoch)
  \/ \E key \in Key, takeover \in BOOLEAN, t \in Nows : Delete(key, takeover, t)
  \/ Sweep
  \/ \E s \in Subject : OwnerOf[s] # NoOwner /\
       \/ \E t \in Nows : ClaimSlot(OwnerOf[s], s, t)
       \/ \E label \in Label : SetSlotLabel(OwnerOf[s], s, label)
       \/ DeleteSlot(OwnerOf[s], s)

StoreSpec == StoreInit /\ [][StoreNext]_vars

-----------------------------------------------------------------------------
(* Properties *)

\* a was applied to the record that key has now.
Current(a, key) == a.lease.key = key /\ a.life = life[key]

(***************************************************************************)
(* Fencing (store.go: "Requests with an older epoch are rejected").  What  *)
(* Open told the holder of a lease stays true but for its own commits:     *)
(* no commit of an earlier lease is applied after a later one was granted. *)
(* Purging a record starts a new life, in which epochs count anew.         *)
(***************************************************************************)
Fencing ==
  \A a \in applied, l \in leases :
    /\ a.lease.key = l.key
    /\ a.lease.life = l.life /\ a.life = l.life
    /\ a.lease.epoch < l.epoch
    => a.version <= l.version

(***************************************************************************)
(* A commit takes effect once and no two commits make the same version,    *)
(* however often a request is repeated after a lost acknowledgement and    *)
(* under whichever lease (Commit's check of LastCommitID).                 *)
(***************************************************************************)
ExactlyOnce ==
  \A a, b \in applied :
    /\ a.lease.key = b.lease.key /\ a.life = b.life
    /\ a.id = b.id \/ a.version = b.version
    => a = b

(***************************************************************************)
(* What Open and Fetch return is the outcome of the last commit and of     *)
(* nothing else.  A client that resumes without an acknowledgement learns  *)
(* from LastCommitID whether its commit was applied; a database created    *)
(* anew after a deletion is empty and names no commit.                     *)
(***************************************************************************)
StateIsLastCommit ==
  \A key \in Key : dbs[key].status = "live" =>
    \/ /\ dbs[key].lastCommitID = None
       /\ dbs[key].pageCount = 0 /\ dbs[key].blocks = NoBlocks
       /\ \A a \in applied : Current(a, key) => a.version < dbs[key].version
    \/ \E a \in applied :
         /\ Current(a, key) /\ a.version = dbs[key].version
         /\ a.id = dbs[key].lastCommitID
         /\ a.pageCount = dbs[key].pageCount /\ a.blocks = dbs[key].blocks

(***************************************************************************)
(* Every stored block has the page size of its database and lies within    *)
(* the file, also when the database was deleted and created anew with      *)
(* another page size (ValidateCommit).  So a file that shrank and grows    *)
(* again shows zeros where it ended, never what was cut off (Commit        *)
(* deletes the blocks beyond PageCount).                                   *)
(***************************************************************************)
BlocksFitTheFile ==
  \A key \in Key : dbs[key].status = "live" =>
    \A i \in Index : \/ dbs[key].blocks[i] = Zero
                     \/ /\ i < dbs[key].pageCount
                        /\ dbs[key].blocks[i].size = dbs[key].pageSize

\* A commit after version from ended the file of key before block i.
CutOff(key, from, i) ==
  \E b \in applied : Current(b, key) /\ from < b.version /\ b.pageCount <= i

(***************************************************************************)
(* Catching up.  A client has a copy of the database as some commit left   *)
(* it.  If Changes is complete, a block of the copy that it does not list  *)
(* is as in the current version, so the client may keep it, unless the     *)
(* file was cut off before the block in between: then the block reads as   *)
(* zeros, whether or not the file has grown over it again.                 *)
(***************************************************************************)
CatchUp ==
  \A key \in Key : \A a \in applied : Current(a, key) =>
    LET ch == Changes(dbs[key], a.version) IN
    ch.complete =>
      \A i \in Index \ ch.blocks : i < a.pageCount =>
        \/ i < dbs[key].pageCount /\ dbs[key].blocks[i] = a.blocks[i]
        \/ CutOff(key, a.version, i) /\ dbs[key].blocks[i] = Zero

(***************************************************************************)
(* A key that lost its owner's slot to a claim has no databases, and can   *)
(* create none, for as long as the slot is held (ClaimSlot deletes them,   *)
(* Open refuses the key, DeleteUnused may free the slot in between).       *)
(***************************************************************************)
ReplacedKeysHaveNothing ==
  \A o \in Owner : \A k \in Key :
    k[1] \in slots[o].replaced => dbs[k].status = "missing"

(***************************************************************************)
(* While a record exists its epoch and its version never decrease, and a   *)
(* deletion or a new lease increases the epoch: a holder of an old lease   *)
(* is recognised, also after the database was deleted and created anew.    *)
(***************************************************************************)
EpochAndVersionGrow ==
  [][\A key \in Key : life'[key] = life[key] =>
       /\ dbs'[key].epoch >= dbs[key].epoch
       /\ dbs'[key].version >= dbs[key].version
       /\ dbs'[key].status # dbs[key].status => dbs'[key].epoch > dbs[key].epoch
       /\ dbs'[key].leaseID # dbs[key].leaseID => dbs'[key].epoch > dbs[key].epoch]_vars

(***************************************************************************)
(* What fencing and idempotence rest on, an inductive invariant.  A purged *)
(* key is as if it had never existed, and nobody holds a database that is  *)
(* not live.  No lease and no commit of the current life of a record is    *)
(* ahead of the record: the epoch bounds the leases Open granted, and the  *)
(* version bounds what Open returned and what was committed.               *)
(***************************************************************************)
StoreInv ==
  /\ \A k \in Key :
       /\ dbs[k].status = "missing" => dbs[k] = NoDatabase
       /\ dbs[k].status # "live" => dbs[k].holder = None /\ dbs[k].blocks = NoBlocks
  /\ \A l \in leases :
       /\ l.life <= life[l.key]
       /\ l.life = life[l.key] =>
            l.epoch <= dbs[l.key].epoch /\ l.version <= dbs[l.key].version
  /\ \A a \in applied :
       /\ a.life <= life[a.lease.key] /\ a.version >= 1
       /\ a.life = life[a.lease.key] => a.version <= dbs[a.lease.key].version

\* StateIsLastCommit for databases of every status, which makes it inductive.
ContentOf(key) ==
  \/ /\ dbs[key].lastCommitID = None
     /\ dbs[key].pageCount = 0 /\ dbs[key].blocks = NoBlocks
     /\ \A a \in applied : Current(a, key) => a.version < dbs[key].version
  \/ \E a \in applied :
       /\ Current(a, key) /\ a.version = dbs[key].version
       /\ a.id = dbs[key].lastCommitID
       /\ a.pageCount = dbs[key].pageCount /\ a.blocks = dbs[key].blocks

\* Files are no longer than commits make them.
FileSizes == \A k \in Key : dbs[k].pageCount <= MaxPages

\* The log is gapless and ends with the current version.
LogOK(db) ==
  \A i \in 1 .. Len(db.changes) : db.changes[i].version = db.version - Len(db.changes) + i

\* The log has an entry for each of the last versions, at most as many as there are.
LogFits(db) == Len(db.changes) <= db.version /\ Len(db.changes) <= ChangeWindow
=============================================================================
