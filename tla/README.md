# Verification of sqlite-remote-server

The server keeps SQLite databases for clients: blocks of ciphertext, a version
per database, and a lease that allows one client instance at a time to commit.
Clients connect over a WebSocket, log in by proving a key, and open, fetch,
commit, close and delete databases. Several server instances may share one
PostgreSQL database; a single instance may keep everything in memory.

This directory holds TLA+ modules that model the server, the configurations
that check them with TLC, and proofs that TLAPS checks. Paths below are relative
to the repository, and every definition that models code is listed with its lines
in `PROJECT.json`.

## 1. The system

| Part | Source | State | Operations |
|---|---|---|---|
| Store contract | `internal/store/store.go` | databases (page size, page count, version, last commit ID, blocks, change log, lease), slots of owners | Open, Fetch, Commit, Changes, Renew, Release, Delete, DeleteUnused, ClaimSlot, SetSlotLabel, DeleteSlot |
| Memory store | `internal/store/memory` | two maps under one mutex | the same, each one step |
| PostgreSQL store | `internal/store/postgres` | tables databases, blocks, changes, slots; row locks | the same, as transactions of several statements at READ COMMITTED |
| Connection | `internal/protocol/connection.go` | databases open on it with lease, last renewal and pending commit | one handler per frame, ping, end |
| Registry of lease holders | `internal/protocol/holders.go` | per server: database to connection and epoch | set, remove, revoke, purge, and pushes in goroutines |
| Login and tokens | `internal/protocol/connection.go`, `internal/token` | challenge, deadlines; cache of the token service's keys | Hello, token check, Proof; find, fetch |
| Configuration | `config`, `server/server.go`, `cmd` | environment, Config | LoadFrom, Validate |
| Server process | `server`, `internal/platform`, `internal/protocol/server.go` | pool, context, HTTP server, connection count, stop flag, sweeper | Run, openStore, Serve, ServeHTTP, Shutdown, deleteUnused |

How the parts interact: a connection's goroutine handles one frame at a time and calls
the store, then the registry of its server. Other connections, of this server and of
others, run in between. The registry starts goroutines that push `LeaseRevoked`. The
sweep calls the store on its own schedule on every server. Logins and slot lookups
over HTTP share the key cache and its mutex. Shutdown closes what the others use.

What makes it hard, and what should hold nevertheless:

- *Store.* Requests arrive late, repeated after a lost acknowledgement, and
  under leases that were taken over, released, deleted or purged. Old leases
  must be fenced, a commit must be applied once, the content must be that of the
  last commit, and an incomplete change log must never pass for a complete one.
- *PostgreSQL store.* Transactions interleave statement by statement and may end
  anywhere. Each must still act as one step, nobody may steal an unexpired
  lease, locks must not be waited for in a circle, and the sweep must
  look again before it deletes.
- *Connections and registry.* The store call and the registry call of a
  handler are two steps, pushes overtake answers. No push may be wrong, no entry
  may outlive its connection, a fetch of several ranges must be of one version and
  be answered in frames within the limit.
- *Commit parts.* The client sends parts without waiting for answers, so parts
  still arrive after a rejection. No partial commit may be applied.
- *Pings.* Few pings are written to the store, and pings are lost. The lease of
  a connected client must not expire.
- *Key cache and login.* Keys rotate while fetches take time and fail. Withdrawn
  keys must go, new keys must be found, known keys must do during an outage, and
  logins must end.
- *Start and shutdown.* A start may fail after the pool was opened. A server that
  serves must have what its variables ask for. Requests upgrade and call the store
  while the server stops. No connection may be missed, the pool must be closed after
  its last use, and Run must return.

## 2. Modules

| Module | Models | Lines it follows |
|---|---|---|
| `Store` | rows, slots and the effect and outcome of every operation | `memory.go`, validation in `store.go` |
| `StoreSpec` | the store with its callers; the abstract specification; its properties | the interface in `store.go`, the sweep of `server.go` |
| `LeasedFile` | versioned files with one writer each, the abstraction of the store | the promises of `store.go` |
| `StoreFiles` | the file that a row stands for | |
| `Protocol` | connections, registries and pushes over `StoreSpec` | `connection.go`, `holders.go` |
| `Queries` | the SQL statements, by what they return or leave | `db/queries.sql.go`, `db/batch.go` |
| `PostgresRows` | what several statements together make of a row | helpers of `postgres.go` |
| `PostgresStore` | transactions of these statements over the rows of `Store` | `postgres.go` |
| `CommitParts` | collecting the parts of a commit | `connection.commit` |
| `LeaseRenewal` | pings and the expiry of a lease | `connection.renewDue`, `Config.Validate` |
| `TokenKeys` | the key cache | `token.keySet` |
| `Login` | the steps of a login, their timeouts, the fetches of slot lookups, and the expiry of the token | `connection.run`, `identify`, `tokenTTL`, `ServeSlot` |
| `Config` | what the variables make of a configuration, and which ones are refused | `LoadFrom`, `Validate`, `Named` |
| `ServerRun` | the life of the process, from its environment to its return | `main.run`, `server.Run`, `openStore`, `platform.Serve`, `protocol.Server` |
| `StoreProofs`, `StoreContentProofs`, `ProtocolProofs`, `FetchProofs`, `ConnectionProofs`, `ServerRunProofs`, `PostgresTransactions`, `PostgresProofs` | theorems and their lemmas | |
| `MC_*` | small instances for TLC | |

**Store.** `dbs[key]` is a row: `status` is `missing` (no record), `live` or
`deleted` (a record is kept), with epoch, holder, expiry, version, last commit
ID, blocks and log. A block is reduced to the commit that wrote it and its size.
`slots[owner]` is the slot, with the history of the keys that were replaced in
it. A request that is refused is a stuttering step; the reason is the value of
`OpenOutcome`, `CommitOutcome`, `LeaseOutcome` or `FetchOutcome`. A lease ID is
a fresh number. The `Now` of a request is taken before the store is entered and
may be up to `Skew` old. `life`, `leases` and `applied` are history: how often a
record was purged, each lease with the version its Open returned, and each commit
with the content it left.

**StoreSpec.** A client names leases that some Open granted, resumes any lease
of its key and draws a new commit ID for a new commit. A commit may shrink the
file, and grow it with or without writing the new blocks: the server accepts
both. The sweep is an action of its own.

**LeasedFile.** A file has a life, an epoch, a holder, a version and a content. It
knows no requests, clock, slots or logs. `StoreFiles` maps a row to a file
(`ImplementsLeasedFile`): a database that is missing or deleted is an empty one.

**Protocol.** `conns[c]` has the databases open on a connection and what is left of
the handler it is in (`todo`). `OpenCall` then `OpenSet`, `CloseCall` then
`CloseRemove`, `DeleteCall` then `DeleteRevoke`, `ClaimCall` or `DeleteSlotCall` then
`PurgeHolder` are the two halves of handlers. A fetch reads one range per step, notes
the page size of the blocks that it got, and adds them to frames as `connection.fetch`
does, by the page size that the connection noted at Open; a range is two numbers that
wrap around at `Wrap`, which stands for 2^64. Time does not pass the start of a ping
that is still being handled by more than `Skew` (`InTime`). A push is delivered at any
later time. A client ignores a `LeaseRevoked` whose epoch is not above that of its
lease. `KeyReuse` says whether clients go on with a key whose databases were purged.

**Queries, PostgresRows and PostgresStore.** `dbs` and `slots` are the committed rows.
`txs[t]` is a transaction with its program counter, its locks and what it has read.
Its writes show when it commits, so the writes and the commit are one step. A blocked
`SELECT ... FOR UPDATE` returns the row as committed when it gets the lock; an `INSERT
... ON CONFLICT DO NOTHING` waits for an uncommitted row of the same key and then
inserts nothing; a `DELETE` uses the snapshot of its statement; the statements of a
Fetch read the snapshot that its first one took (REPEATABLE READ). `PurgeSubject`
locks the rows of a subject one by one in the order in which it meets them
(`ScanOrder`, any order of the names, the same for every scan); `rest` has the
positions it has yet to visit. These rules are PostgreSQL's and are marked external.
Each transaction may abort anywhere, which is how cancellation, a lost connection and
a crashed server appear.

**CommitParts.** One database on one connection. A header stands for commit ID,
epoch, base version and page count together, since the code compares all four.

**LeaseRenewal.** Time is the server's. `PingEvery` is the longest time between
two pings or commits of a client; not more than one ping in a row is lost.

**TokenKeys.** `keySet.find` holds one mutex also while it fetches, so one lookup
is under way at a time. Publication, withdrawal, and the moment at which the
service answers are free. `okAt` is history: when the last fetch that did not fail
began. Only a JWKS with a URL is modelled; one from a file never changes.

**Login.** Ages count instead of a clock, and a token has the time it is still valid
for, which goes below zero. `mutex` says who fetches keys: a login, a lookup of a
slot, or nobody. `fetches` is history: how many fetches went on while a login waited
for the key cache. Lookups are a source of fetches and have no other state. What the
server computes takes no time, and the sending of refusals is left out.

**Config.** An environment gives every variable a value, `Unset`, or `Unreadable`
if it does not parse. Numbers and durations are numbers, in the units of the checks.
`LoadFrom` and `Validate` return their complaints in the order of the code.

**ServerRun.** A goroutine each for Run, the sweep and every WebSocket request.
Run starts with an environment out of `Envs`, builds the verifier, opens the pool,
migrates and asks for the standbys; each of these may fail. HTTP requests other than
those for a WebSocket are left out.

Operators whose name extends that of the definition below them (`HoldsAnyEpoch`
before `Holds`) are deliberate mistakes. `PROJECT.json` names, for every property
of a run, one that makes TLC find the property violated.

## 3. Runs

`tlc -config <cfg> <module>` repeats a run; `PROJECT.json` lists the pairs.

| Run | Checks | Instance |
|---|---|---|
| `store` | `StoreTypeOK`, `StoreInv`, `Fencing`, `ExactlyOnce`, `StateIsLastCommit`, `BlocksFitTheFile`, `CatchUp`, `EpochAndVersionGrow`, `ImplementsLeasedFile` (refinement) | one key with an owner, two instances, two commit IDs, two page sizes, one block, window 1, two leases, versions to 3, clock to 1, TTL 0 |
| `protocol_leases` | `ProtocolTypeOK`, `FetchIsOneVersion`, `AnswerIsWhole`, `FramesFit`, `ImplementsStore` (refinement of `StoreSpec`) | two connections of one key on two servers, two instances, two commits of two blocks, two page sizes, versions to 2, lists of ranges that adjoin, overlap, are too long or wrap around, frames of one large or two small blocks, clock to 1, TTL 0, `Skew` 1 |
| `protocol_registry` | `EntriesAreLive`, `RevokedIsLost`, `ReplacedKeysHaveNothing` | three connections on one server, two keys of one owner, two leases, no clock |
| `postgres_databases` | `Contract` (refinement), `NotStolen`, `ChangesOfCurrentVersion`, `FetchIsASnapshot` | two transactions at a time that open, commit, delete, fetch and read changes, and single statements that renew and release; two instances, two commit IDs, versions to 2, window 1, clock to 1, TTL 1, `Skew` 1 |
| `postgres_slots` | `NoWaitCycle`, `OnlyUnusedAreSwept`, `ImplementsLeasedFile` (refinement) | two transactions at a time that open, claim, delete a slot and sweep; two keys of one owner, one lease, clock to 1, TTL 0 |
| `commit_parts` | `WholeCommits`, `SizeBounded` | two commits and one with a bad ID, parts of size 1 and 2, up to 3 parts, 4 frames, limit 4 |
| `lease_renewal` | `LeaseStays` | PingInterval 4, a ping every 2, TTL 9, clock to 40 |
| `token_keys` | `WithdrawnKeysExpire`, `PublishedKeysAreFound`, `OutageIsBridged` | two key IDs, ages of 1 to 4 units, clock to 8 |
| `server_run` | `CleanShutdown`, `StoreOutlivesUse`, `PoolIsClosed`, `SyncIsKept`, `ServesAsConfigured`, `RunReturns`, `ConnectionsEnd` | two connections; some fifty environments with a memory or a PostgreSQL store and one or two variables at or beyond a limit |
| `login` | `LoginsEnd`, `LifetimeIsTold`, `NoLateRequest` | two connections and slot lookups, timeouts of 1 or 2 units, tokens with a lifetime of 0 and 2, leeway 1 |
| `protocol_reuse` | `LeaseOfThisLife`, violated | two connections of one key, which goes on after a purge |
| `postgres_replaced` | `ReplacedKeysHaveNothing`, violated | two keys of one owner, opens and claims |

What they show:

- *Store.* No commit of an earlier lease is applied after a later one was granted
  (`Fencing`). A repeated commit takes effect once, and no two commits make one
  version (`ExactlyOnce`). The row is what the last commit left, also after deletion
  and creation (`StateIsLastCommit`, `BlocksFitTheFile`). A client that keeps the
  blocks a complete change set does not list has the current ones, but for blocks
  that were cut off in between (`CatchUp`). Epoch and version do not fall while a
  record exists (`EpochAndVersionGrow`). Seen from outside, a database is a file
  with one writer, whose epochs and versions count without gaps
  (`ImplementsLeasedFile`).
- *Connections.* Every effect of the handlers on the store is a step of `StoreSpec`,
  so the store's properties hold with several servers. A fetch of several ranges is of
  one version (`FetchIsOneVersion`), and its frames hold the blocks of the ranges,
  each once and in order, with a frame for an empty range too and one mark at the end
  (`AnswerIsWhole`). The frames are no larger than MaxFrameBytes, with the sizes of
  the blocks that the store returned, as long as the lease of the connection is
  current (`FramesFit`). Without the lease they may be larger (section 6). The
  registry has no entry for a connection that has ended or closed the database, and no
  push talks a client out of a lease that is good. The last one is checked for keys
  that are not used again after a purge (`KeyReuse = FALSE`), an assumption about
  clients.
- *PostgreSQL.* Each committed transaction on databases is one step of the store
  specification, although its statements interleave with those of another
  (`Contract`), and with slots it is a step of `LeasedFile`. `Contract` lets a request
  be as old as the clock, so it does not say what a wait does to a lease: an open or
  delete without takeover, however long it waited for the row, ends no lease that has
  time left (`NotStolen`). `Contract`
  differs from `StoreSpec` in that a deleted row has no expiry and the sweep takes
  one database at a time. Transactions do not wait for each other in a circle. The
  sweep deletes nothing that was used after it read its candidates. A change set is
  right if its version is still current, which the following Fetch checks. A Fetch,
  which locks nothing, is of one version (`FetchIsASnapshot`).
- *Commit parts.* What reaches the store is a whole commit, from the first part to
  the last, within the size limit.
- *Login.* A login ends within the sum of its timeouts and one timeout for each fetch,
  of a login or a lookup, that goes on while it waits for the key cache (`LoginsEnd`).
  The code does not limit the number of these fetches: lookups come in any number, and
  each may fetch when the keys have aged or a key is unknown. HelloOk never says 0,
  which means that no tokens are needed, for a token that expired during the login
  (`LifetimeIsTold`). No request is handled after the token and the leeway have passed
  (`NoLateRequest`).
- *Start and shutdown.* A server that requires synchronous replication serves only
  after it has seen it (`SyncIsKept`). One that serves checks tokens if any variable
  says what a token must have, and its limits are those that the rest of the code
  relies on (`ServesAsConfigured`). No pool is left open however the start or the
  end fails (`PoolIsClosed`).
- *Pings.* A client that pings or commits twice per PingInterval keeps its lease
  although one ping is lost (`LeaseStays`). A client that pings once per interval may
  lose it (section 6).
- *Keys.* A withdrawn key is refused and a published one accepted after the times that
  the constants of `keys.go` promise (`WithdrawnKeysExpire`, `PublishedKeysAreFound`),
  and the keys of the last fetch that did not fail serve through an outage of
  MinCacheAge and MaxStale (`OutageIsBridged`).

Why the bounds are enough: the store needs a lease and one that fences it, a commit
and one that conflicts with or repeats it, and a version beyond the window; a
deletion provides the third version. In `store` leases expire at once (TTL 0), so
that take-over needs no waiting; that an unexpired lease is not taken is for
`postgres_databases` and `protocol_registry`, with TTL 1. Two transactions are the
smallest circle, and a third one would wait for one of the two. Two pages in frames
of one block are the smallest answer of several frames; with the smaller page size a
frame holds both. `MaxFetches` of 3 lets a login wait for two fetches of others and
make its own. Three connections are a
holder, one that takes over and one of another key. `Skew` is the clock's bound in
`protocol_leases`, since a ping keeps the time of its start while the clock goes on.
`CHECK_DEADLOCK FALSE` is set where the bounds, or a server that has returned, stop
the system; `commit_parts` and `login` do without.

Symmetry is over values that only differ in name: commit IDs, instances,
transactions, key IDs, headers, connections of one subject, and subjects of one
owner. Runs with liveness
use none.

## 4. Fairness

Only `ServerRun` has liveness. Run's goroutine, the handlers, and the timers of a
shutdown are weakly fair: a goroutine that can go on does, and timers fire. Clients
are not fair: a connection may stay silent, and only closing it makes its read
fail. `SweeperStops` is strongly fair: the sweep's `select` chooses at random among
ready cases, so a cancelled context is not passed over for ever. Store calls end,
since they carry the request's context and a pool closes after its calls.
The time limits of `Login`, `LeaseRenewal` and `TokenKeys` are safety properties
over a clock that does not pass a deadline before its action.

## 5. Proofs

`tlapm <module>` checks them. They hold for all values of the constants under the
named assumptions of each module, which TLC evaluates in the runs.

| Module | Theorems | Inductive invariant |
|---|---|---|
| `StoreProofs` | `StoreTypeCorrect`, `StoreInvariant`, `FencingHolds`, `ExactlyOnceHolds`, `GrowthHolds`, `ReplacedKeysHold` | `StoreTypeOK`, `StoreInv` and what each theorem adds; `SlotsInv` for slots |
| `StoreContentProofs` | `StateIsLastCommitHolds`, `BlocksFitTheFileHolds`, `CatchUpHolds`, `StoreImplementsLeasedFile` | `ContentOf`, `SizesOf`, `CopiesOf` of every row |
| `PostgresProofs`, with the lemmas of `PostgresTransactions` | `PgInvariant`, `PgFencingHolds`, `PgExactlyOnceHolds`, `PgStateIsLastCommit`, `PgBlocksFitTheFile`, `PgCatchUp`, `PgGrowth`, `PgImplementsLeasedFile`, `OnlyUnusedAreSweptHolds`, `ChangesOfCurrentVersionHolds`, `FetchIsASnapshotHolds`, `NoDeadlock`, `NotStolenHolds`, `PgImplementsStore` | `StoreOK` of the committed rows, `TxInv` of the transactions; `RequestsInv` of their requests |
| `ProtocolProofs` | `ProtocolImplementsStore`, `ProtocolFences`, `ProtocolTypeCorrect`, `EntriesStayLive`, `RevokedLeasesAreLost` | `ConnInv`, on top of the store's; `EntryInv`, `PastInv` |
| `FetchProofs` | `FetchIsOneVersionHolds`, `AnswerIsWholeHolds`, `FramesFitHolds` | `ReadInv`, `PlanInv`, `LiveSizes`, `OpenSizes`, `RunSizes`, on top of `ConnInv` and the store's |
| `ServerRunProofs` | `ShutdownIsClean`, `StoreIsClosedInTime`, `PoolIsClosedHolds`, `SyncIsKeptHolds`, `ServesAsConfiguredHolds`, `LeaseStaysHolds` | `RunInv`, `StartInv`, `RenewalInv` |
| `ConnectionProofs` | `PartsTypeCorrect`, `WholeCommitsHold`; `LoginsEndHolds`, `LifetimeIsToldHolds`, `NoLateRequestHolds`; `KeysTypeCorrect`, `WithdrawnKeysExpireHolds`, `PublishedKeysAreFoundHolds`, `OutageIsBridgedHolds` | `PartsInv`, `LoginInv`, `KeysInv` |

*Store.* Fencing is not inductive: that a new commit cannot belong to an older
lease follows from the row, which the property does not mention. `StoreInv` says
that no lease and no commit of the current life of a record is ahead of the
record's epoch and version. Then the epoch check of a commit means that its lease
is the newest, and the base version means that its version is new. `ExactlyOnce`
also needs that a commit ID is not drawn twice (`NamesOneCommit`). A purge
starts a new life, in which nothing has been granted or committed.

*Slots.* A key that was replaced has no databases because the claim purges them and
Open refuses the key while another one holds the slot. `SlotsInv` adds that the
holder is not among the replaced keys.

*Content.* The row equals the last applied commit. For `CatchUp` every older copy
is related to the row block by block through the log: the log is a run of
consecutive versions up to the current one, and a block that no entry after the
copy lists is unchanged or was cut off.

*Files.* Every action of the store changes each row by a step of `LeasedFile` or not
at all, which is shown action by action. A purge changes several rows, so a step of
`LeasedFile` may take every file one step further.

*PostgreSQL.* The statements of any number of transactions interleave, so that what one
has read may be outdated when it writes. `TxInv` says for each statement what still
holds of what was read before it: a transaction about to write has the lock of its row,
and the row is still the one it read (`RowsOK`); a sweep has locked a row that is
unused; a Fetch has the content of an applied commit (`FetchOK`); a Changes whose
version is current has not missed an entry of the log (`ChangesOK`). A step of another
transaction keeps this because it writes only rows it has locked itself, and no row is
locked twice (`Exclusive`). Hence a commit applies to the row that it checked, and what
it leaves is what `Store` makes of that row, although `PutBlocks`, `DeleteBlocksFrom`,
`ApplyCommit`, `RecordChange` and `PruneChanges` are statements of their own. Every step
of `PostgresStore` is therefore one of three effects on the records (a lease granted, a
commit applied, or neither), the same to which the actions of `Store` are reduced, and
the lemmas about effects carry the properties of the store over.

`PgImplementsStore` says more: without slots (`NoSlots`, nobody owns a key), a
transaction that commits is one step of `Contract`, an Open, Commit, Delete or the
removal of one unused database of the store specification, with the same outcome.
An effect does not tell why a lease was granted or a database removed, so this needs
`RequestsInv`: the time that a waiting transaction took for its request has come, the
lease it resumes was granted, and the cutoff of a sweep is past. A transaction may
wait for a lock for as long as it likes after it took its time, so `Contract` has to
let requests be as old as the clock (`MaxTime <= Skew`). Both premises hold in
`postgres_databases`; the sweeps that the theorem covers as well are not in that run.
`NotStolenHolds` rests on the same invariant, without the premise on `Skew`: the time of
a request is never ahead of the clock, so a lease that has time left at the commit had
time left when it was judged, and the row judged is the row written.

For `NoDeadlock`
locks are ordered: slots come before databases, only a sweep that releases slots waits
for one with another locked, and only a purge waits with a database locked, in
the order of the scan. `SweepsApart` is a premise: nothing orders the rows of
`ReleaseUnusedSlots`, so that two sweeps that release several slots at once may lock
them in opposite orders. PostgreSQL would abort one of them, and the next sweep would
release what is left. `postgres_slots` has one owner, where the premise holds.
`ReplacedKeysHaveNothing` does not hold for this store (section 6).

*Protocol.* A handler names the lease of an open database, and `ConnInv` says that
Open granted it, also in a handler that is half done. So every step maps to a step of
`StoreSpec` or to a stutter, and the store's theorems carry over (`ProtocolFences`). A
registry entry is put there by the handler that has the database open, and removed
before it is closed or by the end of the connection (`EntryInv`). For
`RevokedIsLost`, `PastInv` says that whatever is still to be pushed or revoked names
an epoch that its database has passed, and that no open database has been purged;
the latter needs `KeyReuse = FALSE`, a premise of the theorem.

*Fetches.* A Fetch reads its ranges in calls of their own, between which others may
commit. Each call names the version of the first, and the store answers only while
that is the current one. `ReadInv` says that what was read so far is part of one
applied commit of that version; that it is still the same commit when the next range
is read follows from `ExactlyOnce` and `StateIsLastCommit`, and that the row is not
one of a later life from `KeyReuse = FALSE`, a premise of the theorem (section 6).
`PlanInv` says that the ranges, those read and those to be read, follow each other.
From this and the arithmetic of `FramesOf` (the number of frames is rounded up, the
last one holds the rest) every frame of an answer has its place: `AnswerIsWhole` needs
no premise. For `FramesFit` the page size that a connection noted is shown to be that
of the database while its lease is current (`OpenSizes`), and a page size changes only
with a new lease; the runs read under that lease have it (`RunSizes`). That a block of
every page size fits into a frame is an assumption on the constants, which
`Config.Validate` enforces. The store's limit on files, below 2^64, keeps the sums of
the range checks from wrapping around.

*Start.* `StartInv` says that Run goes on only with a configuration that `LoadFrom`
accepted, and what each step has checked. What an accepted configuration is like
rests on the list of complaints: it is empty only if no complaint applies, which is
shown with the first complaint that does.

*Shutdown.* `RunInv` says for each step of Run what the steps before it have left
behind: which states connections and the sweep can still be in, depending on the
errors so far and on the stop flag.

*Parts.* The pending commit consists of the parts received so far from part 0, so
that completing it yields a whole one; the frames that were received are history.

*Logins.* Logins queue for the mutex of the key cache, so the age of one depends on
the fetches of other logins and of slot lookups. `LoginInv` bounds the age of a waiting
login by one timeout for each fetch that has ended since its Hello, plus the time for
which the present fetch has held the mutex: whenever the mutex is free, a login that
waits goes on or a fetch begins, so no time passes without one.

*Pings.* The lease is renewed at half of the TTL. The proof needs
`2 * PingEvery <= PingInterval`, a premise of the theorem; section 6 says why.

*Keys.* The cache was read from the service when its last fetch began, not when it
ended; the invariant relates cached keys, publication times and the times of the
last fetches.

The types of `CommitParts`, `Login`, `TokenKeys` and `ServerRun` are conjuncts of their
invariants here, and not repeated in the runs.

Only model-checked: liveness; and `SizeBounded`, which sums over a sequence and needs
induction over data.

## 6. Where code and documentation disagree

Shown by runs:

- `protocol_reuse`: a purge keeps no record, so epochs start again. A
  connection that still has the purged database open commits to the one created
  anew under the same name, with its old lease (`connection.go:501`). The protocol
  says that every new lease has a higher epoch. Nothing in the server keeps a
  client from going on with such a key; that none does (`KeyReuse = FALSE`) is an
  assumption of `protocol_registry`.
- `postgres_replaced`: Open locks the owner's slot, but nothing if there is none
  (`postgres.go:71`). While it runs, its key and then another key may claim the slot,
  and the database Open creates outlives the purge.

Found while modelling, and not made a property:

- `memory.go:175`, `sqlite_remote.proto:210`: a block that was cut off and grown over
  again without being written is not in the change set, yet reads as zeros.
  SQLite writes the pages it appends, so its clients do not meet this.
- `holders.go:35`: opens of two connections may enter the registry in the opposite
  order of their leases. The older entry replaces the newer one, and the old holder is
  not told "immediately" (`holders.go:9-10`). It is fenced all the same.
- `postgres.go:375`: Changes reads the log in two statements. A commit may prune it in
  between, and the result is marked complete (`store.go:122-123`) for a version that
  is no longer current.
- `postgres.go:471`: of two sweeps that meet at a database of a key with a slot, the
  second ends with an error and leaves out the rest of its batch
  (`store.go:181-182`).
- `postgres.go:500`: the statement that releases unused slots does not look again
  after its snapshot, and may release the slot of a key that has just opened a
  database (`store.go:184-185`).
- `server.go:77-78`: a TTL of twice PingInterval does not survive one lost ping, if
  the client pings once per interval. A ping just before half of the TTL renews
  nothing, the next is lost, the third is too late. Three intervals would do.
- `server.go:90`: reading does not count as use. Only opens, commits and pings renew.
- `server.go:84`: HelloTimeout limits the wait for Hello and not the login; the option
  of the protocol package says so (`protocol/server.go:34`).
- `connection.go:403`: the number of blocks per Pages frame goes by the page size at
  Open. If the database is deleted and created with larger pages, a connection that
  opened it before may fetch a version of the new one, in frames above MaxFrameBytes,
  which "limits the size of every frame in both directions" (`protocol/server.go:26`).
  The lease of that connection is gone by then, but a Fetch needs none. `FramesFit`
  leaves this case out and holds of connections that have their lease.
- `server.go:173`: a TokenAudience without keys is reported as a fault of TokenIssuer.
- `server.go:223`: after a listen error with the sweep on, Run waits until its caller
  cancels the context. `RunReturns` leaves this case out.

## 7. Not modelled

- Cryptography (signatures, nonces, transcripts, the claims of a token other than
  its expiry, the parsing of keys) is a free choice of outcome.
- The split of blocks into rows of the table is layout. That a list of changes too
  long for one frame is sent as incomplete is left out.
- Migrations are one step that may fail; the schema is run by a library.
- Numbers, durations and URLs of the configuration parse or do not; how is left out.
- Probes, logging, metrics and the translation of errors to frames keep no state.
- Of the lookup of a slot over HTTP only its use of the key cache is modelled (`Login`);
  its answer is one read of the store, and origins and headers are left out.
- Generated protocol code, and the suite of tests that every store must pass.

A crash of a server appears as the abort of its transactions and the end of its
connections; PostgreSQL's own durability is assumed. The memory store keeps nothing
across a restart.

Of what is modelled, the slots of the PostgreSQL store are checked against
`LeasedFile` and not against `Contract`: a sweep with slots purges database by
database and releases slots in a statement of its own, where `StoreSpec` has one
step.
