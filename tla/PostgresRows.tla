---------------------------- MODULE PostgresRows ----------------------------
(***************************************************************************)
(* internal/store/postgres: what the statements of one operation together  *)
(* make of the row of its database.  The statements are those of Queries,  *)
(* as q!.                                                                  *)
(***************************************************************************)
EXTENDS StoreFiles

q == INSTANCE Queries

\* A deleted database is created anew; its epoch and version continue.
reviveDatabase(row, req) ==
  IF row.status = "deleted" THEN q!ReviveDatabase(row, req.pageSize) ELSE row

\* The change is recorded and the entries before the window go.
recordChange(row, req) ==
  LET new == q!RecordChange(row, row.version, Indexes(req.blocks)) IN
  IF row.version <= ChangeWindow THEN new ELSE q!PruneChanges(new, row.version - ChangeWindow)

putBlocks(row, req) == q!PutBlocks(row, req.blocks, [by |-> req.id, size |-> req.size])

\* The blocks and the change log go, the record stays without a lease.
remove(row) == q!DeleteDatabase(q!DeleteChanges(q!DeleteBlocksFrom(row, 0)))
=============================================================================
