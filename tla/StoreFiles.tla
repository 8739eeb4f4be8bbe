----------------------------- MODULE StoreFiles -----------------------------
(***************************************************************************)
(* The databases of the store as versioned files with one writer each.     *)
(***************************************************************************)
EXTENDS StoreSpec

\* A record as its clients see it.
FileOf(db, n) ==
  [life |-> n, epoch |-> db.epoch, holder |-> db.holder, version |-> db.version,
   content |-> <<db.pageCount, db.blocks>>]
fileOf == [k \in Key |-> FileOf(dbs[k], life[k])]

F == INSTANCE LeasedFile WITH
       Writer <- Instance, NoWriter <- None,
       Content <- Nat \X [Index -> Data], Empty <- <<0, NoBlocks>>, file <- fileOf

(***************************************************************************)
(* The store implements versioned files with one writer each: whatever     *)
(* Open, Resume, Renew, Commit, Release, Delete, the sweep and the slots   *)
(* do to a database is a grant, an end of a lease, a write by the holder,  *)
(* a deletion or a purge, and an ended lease never comes back.             *)
(***************************************************************************)
ImplementsLeasedFile == F!Spec
=============================================================================
