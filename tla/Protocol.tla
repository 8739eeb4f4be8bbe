------------------------------ MODULE Protocol ------------------------------
(***************************************************************************)
(* Connections to server instances that share one store, and the registry  *)
(* of lease holders each instance keeps (internal/protocol).  A connection *)
(* handles one frame at a time.  A handler calls the store and then the    *)
(* registry, in two steps: the handlers of other connections run between.  *)
(* LeaseRevoked is pushed by goroutines of its own, in any order.          *)
(*                                                                         *)
(* A refused request changes nothing but the answer and is a stuttering    *)
(* step.  Clients are external: they name the lease that Open gave them on *)
(* the connection, or resume any lease of their key.                       *)
(***************************************************************************)
EXTENDS StoreSpec

CONSTANTS
  Server,        \* server instances
  Conn,          \* connections; each is used once
  ServerOf,      \* the instance a connection is made to
  SubjectOf,     \* the subject its login proved
  InstanceOf,    \* the instance ID of its Hello
  FetchRanges,   \* the ranges a Fetch may ask for; without a list it has the one of its first fields
  MaxFetchRanges,
  MaxFrameBytes,
  Wrap,          \* 2^64, where the sum of two uint64 starts again at 0
  KeyReuse       \* whether clients open databases with a key whose databases were purged

\* Space in a frame outside the blocks, and around each block.
pagesFrameOverhead == 64
pagesBlockOverhead == 8

ASSUME ProtocolAssumption ==
  /\ ServerOf \in [Conn -> Server]
  /\ SubjectOf \in [Conn -> Subject]
  /\ InstanceOf \in [Conn -> Instance]
  /\ FetchRanges \subseteq Seq([first : Nat, count : Nat]) \ {<<>>}
  /\ MaxFetchRanges \in Nat /\ MaxFrameBytes \in Nat /\ MaxFrameBytes >= pagesFrameOverhead
  /\ \A size \in PageSize : MaxFrameBytes >= pagesFrameOverhead + size + pagesBlockOverhead
  /\ Wrap \in Nat /\ Wrap > MaxPages
  /\ KeyReuse \in BOOLEAN

VARIABLES
  conns,     \* the state of each connection
  holders,   \* the registry of each server: database to lease holder
  pushes     \* revoked callbacks started and not yet run

protocolVars == <<vars, conns, holders, pushes>>
storeUnchanged == UNCHANGED vars
registryUnchanged == UNCHANGED <<holders, pushes>>

\* An open database. None is no entry in the map of the connection.
OpenDB == [lease : Lease, pageSize : Nat, renewed : Nat]
ASSUME NoneIsNotOpen == None \notin OpenDB
NoHolder == [conn |-> None, epoch |-> 0]
Holder == [conn : Conn, epoch : Nat]
Push == [conn : Conn, dbid : DBID, epoch : Nat]

\* What is left of the handler a connection is in.
Idle == [op |-> "idle"]
Todo ==
  {Idle}
  \cup [op : {"set"}, dbid : DBID, epoch : Nat]
  \cup [op : {"ping"}, now : Nat, due : SUBSET DBID]
  \cup [op : {"remove"}, dbid : DBID]
  \cup [op : {"revoke"}, dbid : DBID, epoch : Nat]
  \cup [op : {"purge"}, keys : SUBSET Key]
  \cup [op : {"fetch"}, dbid : DBID, version : Nat, ranges : Seq([first : Nat, count : Nat]),
        runs : Seq([first : Nat, blocks : Seq(Data), size : Nat])]

ProtocolTypeOK ==
  /\ StoreTypeOK
  /\ conns \in [Conn -> [state : {"new", "up", "ended"},
                         dbs : [DBID -> OpenDB \cup {None}], todo : Todo]]
  /\ holders \in [Server -> [Key -> Holder \cup {NoHolder}]]
  /\ pushes \subseteq Push

ProtocolInit ==
  /\ StoreInit
  /\ conns = [c \in Conn |-> [state |-> "new", dbs |-> [d \in DBID |-> None], todo |-> Idle]]
  /\ holders = [s \in Server |-> [k \in Key |-> NoHolder]]
  /\ pushes = {}

Ready(c) == conns[c].state = "up" /\ conns[c].todo = Idle
KeyOf(c, d) == <<SubjectOf[c], d>>
IsOpen(c, d) == conns[c].dbs[d] # None
LeaseOn(c, d) == conns[c].dbs[d].lease

-----------------------------------------------------------------------------
(* The registry of a server, internal/protocol/holders.go *)

\* set records the new holder and revokes another connection that held an older epoch.
HolderSet(c, key, epoch) ==
  LET previous == holders[ServerOf[c]][key] IN
  /\ holders' = [holders EXCEPT ![ServerOf[c]][key] = [conn |-> c, epoch |-> epoch]]
  /\ pushes' = IF previous # NoHolder /\ previous.conn # c /\ previous.epoch < epoch
               THEN pushes \cup {[conn |-> previous.conn, dbid |-> key[2], epoch |-> epoch]}
               ELSE pushes

\* remove deletes the entries of K that name c.
HoldersWithout(c, K) ==
  [holders EXCEPT ![ServerOf[c]] =
     [k \in Key |-> IF k \in K /\ @[k].conn = c THEN NoHolder ELSE @[k]]]

HolderRevokeKeepsEntry(c, key, epoch) ==
  /\ holders' = [holders EXCEPT ![ServerOf[c]][key].conn = None, ![ServerOf[c]][key].epoch = epoch]
  /\ UNCHANGED pushes
HolderRevokeAny(c, key, epoch) ==
  LET previous == holders[ServerOf[c]][key] IN
  /\ holders' = [holders EXCEPT ![ServerOf[c]][key] = NoHolder]
  /\ pushes' = IF previous # NoHolder
               THEN pushes \cup {[conn |-> previous.conn, dbid |-> key[2],
                                  epoch |-> previous.epoch + 1]}
               ELSE pushes
\* revoke deletes the entry of a deleted database and revokes a holder of an older epoch.
HolderRevoke(c, key, epoch) ==
  LET previous == holders[ServerOf[c]][key] IN
  /\ holders' = [holders EXCEPT ![ServerOf[c]][key] = NoHolder]
  /\ pushes' = IF previous # NoHolder /\ previous.epoch < epoch
               THEN pushes \cup {[conn |-> previous.conn, dbid |-> key[2], epoch |-> epoch]}
               ELSE pushes

\* purge deletes the entry of a purged database and revokes its holder.
HolderPurge(c, key) ==
  LET previous == holders[ServerOf[c]][key] IN
  /\ holders' = [holders EXCEPT ![ServerOf[c]][key] = NoHolder]
  /\ pushes' = IF previous # NoHolder
               THEN pushes \cup {[conn |-> previous.conn, dbid |-> key[2],
                                  epoch |-> previous.epoch + 1]}
               ELSE pushes

-----------------------------------------------------------------------------
(* Handlers, internal/protocol/connection.go *)

\* The connection was accepted and its client logged in.
Connect(c) ==
  /\ conns[c].state = "new"
  /\ conns' = [conns EXCEPT ![c].state = "up"]
  /\ storeUnchanged /\ registryUnchanged

\* Lease l is open on c, and the registry is still to be told.
Opened(c, d, l, t) ==
  conns' = [conns EXCEPT ![c].dbs[d] = [lease |-> l, pageSize |-> dbs'[KeyOf(c, d)].pageSize, renewed |-> t],
                         ![c].todo = [op |-> "set", dbid |-> d, epoch |-> l.epoch]]

\* open, to the answer of the store.
OpenCall(c, d) ==
  LET key == KeyOf(c, d) IN
  /\ Ready(c) /\ ~IsOpen(c, d)
  /\ KeyReuse \/ life[key] = 0
  /\ \E req \in OpenRequest(key) :
       /\ req.instance = InstanceOf[c]
       /\ \/ OpenGrant(req) /\ Opened(c, d, NewLease(key), req.now)
          \/ /\ OpenResume(req)
             /\ \E l \in leases : l.key = key /\ l.id = req.resume.id /\ Opened(c, d, l, req.now)
  /\ registryUnchanged

OpenSet(c) ==
  LET todo == conns[c].todo IN
  /\ todo.op = "set"
  /\ HolderSet(c, KeyOf(c, todo.dbid), todo.epoch)
  /\ conns' = [conns EXCEPT ![c].todo = Idle]
  /\ storeUnchanged

\* commit, for a commit whose parts have all arrived.
CommitCall(c, d) ==
  /\ Ready(c) /\ IsOpen(c, d)
  /\ \E req \in CommitRequest, t \in Nows :
       /\ req.lease = LeaseOn(c, d) /\ req.id # None
       /\ NamesOneCommit(req)
       /\ (CommitApply(req, t) \/ CommitRepeat(req, t))
       /\ conns' = [conns EXCEPT ![c].dbs[d].renewed = t]
  /\ registryUnchanged

renewDue(db, t) == t - db.renewed >= TTL \div 2

\* ping reads the clock and renews the leases that are due, one by one in any order.
Ping(c) ==
  /\ Ready(c)
  /\ \E t \in Nows :
       LET due == {d \in DBID : IsOpen(c, d) /\ renewDue(conns[c].dbs[d], t)} IN
       /\ due # {}
       /\ conns' = [conns EXCEPT ![c].todo = [op |-> "ping", now |-> t, due |-> due]]
  /\ storeUnchanged /\ registryUnchanged

PingRenewUnchecked(c) ==
  LET todo == conns[c].todo IN
  /\ todo.op = "ping"
  /\ \E d \in todo.due :
       /\ dbs' = [dbs EXCEPT ![KeyOf(c, d)] = Extended(@, todo.now)]
       /\ conns' = [conns EXCEPT ![c].dbs[d].renewed = todo.now, ![c].todo = Idle]
  /\ UNCHANGED <<slots, now, minted, life, leases, applied>> /\ registryUnchanged
PingRenew(c) ==
  LET todo == conns[c].todo IN
  /\ todo.op = "ping"
  /\ \E d \in todo.due :
       LET rest == IF todo.due = {d} THEN Idle ELSE [op |-> "ping", now |-> todo.now, due |-> todo.due \ {d}] IN
       \/ /\ Renew(KeyOf(c, d), LeaseOn(c, d).epoch, todo.now)
          /\ conns' = [conns EXCEPT ![c].dbs[d].renewed = todo.now, ![c].todo = rest]
       \/ /\ LeaseOutcome(KeyOf(c, d), LeaseOn(c, d).epoch) # "ok" /\ storeUnchanged
          /\ conns' = [conns EXCEPT ![c].todo = rest]
  /\ registryUnchanged

\* closeDB, to the answer of the store.
CloseCall(c, d) ==
  /\ Ready(c) /\ IsOpen(c, d)
  /\ Release(KeyOf(c, d), LeaseOn(c, d).epoch)
  /\ conns' = [conns EXCEPT ![c].todo = [op |-> "remove", dbid |-> d]]
  /\ registryUnchanged

CloseRemove(c) ==
  LET d == conns[c].todo.dbid IN
  /\ conns[c].todo.op = "remove"
  /\ conns' = [conns EXCEPT ![c].dbs[d] = None, ![c].todo = Idle]
  /\ holders' = HoldersWithout(c, {KeyOf(c, d)})
  /\ storeUnchanged /\ UNCHANGED pushes

\* deleteDB, to the answer of the store.
DeleteCall(c, d) ==
  /\ Ready(c) /\ ~IsOpen(c, d)
  /\ \E takeover \in BOOLEAN, t \in Nows : Delete(KeyOf(c, d), takeover, t)
  /\ conns' = [conns EXCEPT ![c].todo = [op |-> "revoke", dbid |-> d,
                                         epoch |-> dbs'[KeyOf(c, d)].epoch]]
  /\ registryUnchanged

DeleteRevoke(c) ==
  LET todo == conns[c].todo IN
  /\ todo.op = "revoke"
  /\ HolderRevoke(c, KeyOf(c, todo.dbid), todo.epoch)
  /\ conns' = [conns EXCEPT ![c].todo = Idle]
  /\ storeUnchanged

\* The databases that were live before a purge, which the registry forgets next.
PurgedKeys == {k \in Key : dbs[k].status = "live" /\ dbs'[k].status = "missing"}

\* claimSlot, to the answer of the store.
ClaimCall(c) ==
  LET owner == OwnerOf[SubjectOf[c]] IN
  /\ Ready(c) /\ owner # NoOwner
  /\ \E t \in Nows : ClaimSlot(owner, SubjectOf[c], t)
  /\ conns' = [conns EXCEPT ![c].todo = [op |-> "purge", keys |-> PurgedKeys]]
  /\ registryUnchanged

\* deleteSlot, to the answer of the store.
DeleteSlotCall(c) ==
  LET owner == OwnerOf[SubjectOf[c]] IN
  /\ Ready(c) /\ owner # NoOwner
  /\ \A d \in DBID : ~IsOpen(c, d)
  /\ DeleteSlot(owner, SubjectOf[c])
  /\ conns' = [conns EXCEPT ![c].todo = [op |-> "purge", keys |-> PurgedKeys]]
  /\ registryUnchanged

PurgeHolder(c) ==
  /\ conns[c].todo.op = "purge"
  /\ \/ \E key \in conns[c].todo.keys :
          /\ HolderPurge(c, key)
          /\ conns' = [conns EXCEPT ![c].todo = [op |-> "purge", keys |-> conns[c].todo.keys \ {key}]]
     \/ /\ conns[c].todo.keys = {}
        /\ conns' = [conns EXCEPT ![c].todo = Idle]
        /\ UNCHANGED <<holders, pushes>>
  /\ storeUnchanged

SetLabel(c) ==
  LET owner == OwnerOf[SubjectOf[c]] IN
  /\ Ready(c) /\ owner # NoOwner
  /\ \E label \in Label : SetSlotLabel(owner, SubjectOf[c], label)
  /\ UNCHANGED conns /\ registryUnchanged

\* Ranges are sorted and do not overlap, as far as their ends do not wrap.
Disjoint(ranges) ==
  \A n \in 2 .. Len(ranges) :
    ranges[n].first >= (ranges[n-1].first + ranges[n-1].count) % Wrap

(***************************************************************************)
(* fetch reads the ranges one by one, each by a call to the store, which   *)
(* returns blocks of the page size that the database has then, zeros       *)
(* included.  It answers when it has all of them.                          *)
(***************************************************************************)
FetchNextAnyVersion(c, d, todo) ==
  LET key == KeyOf(c, d)
      r == Head(todo.ranges) IN
  IF FetchOutcome(key, dbs[key].version, r.first, r.count) = "ok"
  THEN [op |-> "fetch", dbid |-> d, version |-> todo.version, ranges |-> Tail(todo.ranges),
        runs |-> Append(todo.runs, [first |-> r.first, size |-> dbs[key].pageSize,
                                    blocks |-> FetchedRange(dbs[key], r.first, r.count)])]
  ELSE Idle
FetchNext(c, d, todo) ==
  LET key == KeyOf(c, d)
      r == Head(todo.ranges) IN
  IF FetchOutcome(key, todo.version, r.first, r.count) = "ok"
  THEN [op |-> "fetch", dbid |-> d, version |-> todo.version, ranges |-> Tail(todo.ranges),
        runs |-> Append(todo.runs, [first |-> r.first, size |-> dbs[key].pageSize,
                                    blocks |-> FetchedRange(dbs[key], r.first, r.count)])]
  ELSE Idle

FetchStart(c, d) ==
  /\ Ready(c) /\ IsOpen(c, d)
  /\ \E ranges \in FetchRanges, version \in 0 .. MaxVersion :
       /\ Len(ranges) <= MaxFetchRanges /\ Disjoint(ranges)
       /\ conns' = [conns EXCEPT ![c].todo =
            FetchNext(c, d, [op |-> "fetch", dbid |-> d, version |-> version, ranges |-> ranges,
                             runs |-> <<>>])]
  /\ storeUnchanged /\ registryUnchanged

FetchRange(c) ==
  LET todo == conns[c].todo IN
  /\ todo.op = "fetch" /\ todo.ranges # <<>>
  /\ conns' = [conns EXCEPT ![c].todo = FetchNext(c, todo.dbid, todo)]
  /\ storeUnchanged /\ registryUnchanged

perFrameRoundedUp(c, d) ==
  LET w == conns[c].dbs[d].pageSize + pagesBlockOverhead IN
  (MaxFrameBytes - pagesFrameOverhead + w - 1) \div w
\* How many blocks a Pages frame holds, by the page size at Open.
perFrame(c, d) ==
  LET n == (MaxFrameBytes - pagesFrameOverhead) \div (conns[c].dbs[d].pageSize + pagesBlockOverhead) IN
  IF n < 1 THEN 1 ELSE n

FramesOfExtra(run, lastRun, n) ==
  LET len == Len(run.blocks)
      start(k) == (k - 1) * n
      end(k) == IF k * n < len THEN k * n ELSE len IN
  [k \in 1 .. len \div n + 1 |->
     [first |-> run.first + start(k), blocks |-> SubSeq(run.blocks, start(k) + 1, end(k)),
      last |-> lastRun /\ end(k) = len]]
\* The frames of one range: blocks start + 1 to end of it, n at a time. An empty range has one.
FramesOf(run, lastRun, n) ==
  LET len == Len(run.blocks)
      frames == IF len = 0 THEN 1 ELSE (len + n - 1) \div n
      start(k) == (k - 1) * n
      end(k) == IF k * n < len THEN k * n ELSE len IN
  [k \in 1 .. frames |->
     [first |-> run.first + start(k), blocks |-> SubSeq(run.blocks, start(k) + 1, end(k)),
      last |-> lastRun /\ end(k) = len]]

\* The Pages frames that answer a Fetch, range by range.
Pages(c) ==
  LET todo == conns[c].todo IN
  [n \in DOMAIN todo.runs |->
     FramesOf(todo.runs[n], n = Len(todo.runs), perFrame(c, todo.dbid))]

FetchSend(c) ==
  /\ conns[c].todo.op = "fetch" /\ conns[c].todo.ranges = <<>>
  /\ conns' = [conns EXCEPT ![c].todo = Idle]
  /\ storeUnchanged /\ registryUnchanged

EndLeavesEntries(c) ==
  /\ Ready(c)
  /\ conns' = [conns EXCEPT ![c].state = "ended", ![c].dbs = [d \in DBID |-> None]]
  /\ storeUnchanged /\ registryUnchanged
\* The connection ends: the client left, sent nothing for too long, its token expired, or the server stops.
End(c) ==
  /\ Ready(c)
  /\ conns' = [conns EXCEPT ![c].state = "ended", ![c].dbs = [d \in DBID |-> None]]
  /\ holders' = HoldersWithout(c, {KeyOf(c, d) : d \in {e \in DBID : IsOpen(c, e)}})
  /\ storeUnchanged /\ UNCHANGED pushes

\* A revoked callback runs: it sends LeaseRevoked, which a client ignores if its lease is not older.
Deliver(p) ==
  /\ pushes' = pushes \ {p}
  /\ storeUnchanged /\ UNCHANGED <<conns, holders>>

\* Time does not pass a ping by: the clock it read is at most Skew ago when it calls the store.
InTime == \A c \in Conn : conns[c].todo.op = "ping" => now - conns[c].todo.now < Skew

ProtocolNext ==
  \/ \E c \in Conn :
       \/ Connect(c)
       \/ \E d \in DBID : \/ OpenCall(c, d) \/ CommitCall(c, d)
                          \/ CloseCall(c, d) \/ DeleteCall(c, d) \/ FetchStart(c, d)
       \/ Ping(c) \/ PingRenew(c)
       \/ OpenSet(c) \/ CloseRemove(c) \/ DeleteRevoke(c)
       \/ ClaimCall(c) \/ DeleteSlotCall(c) \/ PurgeHolder(c) \/ SetLabel(c)
       \/ FetchRange(c) \/ FetchSend(c)
       \/ End(c)
  \/ \E p \in pushes : Deliver(p)
  \/ ((InTime /\ Tick) \/ Sweep) /\ UNCHANGED conns /\ registryUnchanged

ProtocolSpec == ProtocolInit /\ [][ProtocolNext]_protocolVars

-----------------------------------------------------------------------------
(* Properties *)

(***************************************************************************)
(* Whatever the connections do is a behaviour of the store alone: each     *)
(* handler calls the store once at a time with a request the store allows, *)
(* so what is shown of StoreSpec holds behind the protocol.                *)
(***************************************************************************)
ImplementsStore == StoreInit /\ [][UNCHANGED vars \/ StoreNext]_vars

(***************************************************************************)
(* An entry of a registry names a connection of that server that is up and *)
(* has the database open under the epoch of the entry: closing, deleting   *)
(* and the end of a connection leave no entry behind that would push to a  *)
(* dead connection or keep it in memory (holders.remove and its callers).  *)
(***************************************************************************)
EntriesAreLive ==
  \A s \in Server, k \in Key : holders[s][k] # NoHolder =>
    LET c == holders[s][k].conn IN
    /\ ServerOf[c] = s /\ conns[c].state = "up" /\ SubjectOf[c] = k[1]
    /\ IsOpen(c, k[2]) /\ LeaseOn(c, k[2]).epoch = holders[s][k].epoch

(***************************************************************************)
(* A client that gets LeaseRevoked with an epoch above that of its lease   *)
(* has lost the lease: the push never talks a client out of a lease that   *)
(* is still good, although it overtakes answers and is overtaken by them.  *)
(***************************************************************************)
RevokedIsLost ==
  \A p \in pushes : LET key == KeyOf(p.conn, p.dbid) IN
    IsOpen(p.conn, p.dbid) /\ LeaseOn(p.conn, p.dbid).epoch < p.epoch =>
      LET l == LeaseOn(p.conn, p.dbid) IN
      ~ (l.life = life[key] /\ Holds(dbs[key], l.epoch))

(***************************************************************************)
(* All blocks of one Fetch are of the version it names, although it reads  *)
(* its ranges one by one and commits come in between (the version check of *)
(* every Fetch call).                                                      *)
(***************************************************************************)
FetchIsOneVersion ==
  \A c \in Conn : LET todo == conns[c].todo IN
    todo.op = "fetch" /\ (\E n \in DOMAIN todo.runs : todo.runs[n].blocks # <<>>) =>
      \E a \in applied :
        /\ a.lease.key = KeyOf(c, todo.dbid) /\ a.version = todo.version
        /\ \A n \in DOMAIN todo.runs :
             LET run == todo.runs[n] IN run.blocks = FetchedRange(a, run.first, Len(run.blocks))

(***************************************************************************)
(* The frames that answer a Fetch say which block is which: their blocks   *)
(* follow each other without a gap within a range and lie behind those of  *)
(* the range before, all blocks of the ranges are there, an empty range    *)
(* has a frame too, and Last is on the last frame only (connection.fetch:  *)
(* "so the blocks of the answer are unambiguous").                         *)
(***************************************************************************)
AnswerIsWhole ==
  \A c \in Conn : LET todo == conns[c].todo IN
    todo.op = "fetch" /\ todo.ranges = <<>> =>
      LET pages == Pages(c)
          beyond(frame) == frame.first + Len(frame.blocks) IN
      \A n \in DOMAIN pages :
        /\ pages[n] # <<>>
        /\ \A k \in DOMAIN pages[n] : LET frame == pages[n][k] IN
             /\ frame.last <=> n = Len(pages) /\ k = Len(pages[n])
             /\ frame.first = IF k = 1 THEN todo.runs[n].first ELSE beyond(pages[n][k-1])
             /\ k = Len(pages[n]) => beyond(frame) = todo.runs[n].first + Len(todo.runs[n].blocks)
             /\ k = 1 /\ n > 1 => frame.first >= todo.runs[n-1].first + Len(todo.runs[n-1].blocks)
             /\ \A i \in DOMAIN frame.blocks :
                  frame.blocks[i] = todo.runs[n].blocks[frame.first + i - todo.runs[n].first]

(***************************************************************************)
(* "MaxFrameBytes limits the size of every frame" (Options.MaxFrameBytes): *)
(* the frames with the blocks that the store returned are no larger, as    *)
(* long as the client has its lease.  Their number of blocks comes from    *)
(* the page size at Open, and the database may have been deleted and made  *)
(* with another one since, but then the lease is gone.                     *)
(***************************************************************************)
FramesFit ==
  \A c \in Conn : LET todo == conns[c].todo IN
    todo.op = "fetch" /\ todo.ranges = <<>> =>
      LET key == KeyOf(c, todo.dbid)
          l == LeaseOn(c, todo.dbid)
          pages == Pages(c) IN
      l.life = life[key] /\ Holds(dbs[key], l.epoch) =>
        \A n \in DOMAIN pages : \A k \in DOMAIN pages[n] :
          pagesFrameOverhead + Len(pages[n][k].blocks) * (todo.runs[n].size + pagesBlockOverhead)
            <= MaxFrameBytes

(***************************************************************************)
(* A commit is applied to the database its lease was granted for, not to a *)
(* later one of the same name (Opened.lease_epoch: "Every new lease has a  *)
(* higher epoch").                                                         *)
(***************************************************************************)
LeaseOfThisLife == \A a \in applied : a.lease.life = a.life
=============================================================================
