--------------------------- MODULE ProtocolProofs ---------------------------
(***************************************************************************)
(* Theorems about connections, the registries of open databases and their  *)
(* callbacks, for any number of clients, servers, connections and          *)
(* databases.                                                              *)
(***************************************************************************)
EXTENDS Protocol, StoreProofs

USE ZenonT(60), SMTT(60)

ConnState == [state : {"new", "up", "ended"}, dbs : [DBID -> OpenDB \cup {None}], todo : Todo]

-----------------------------------------------------------------------------
(* What a step of connection c does to it: its state, open databases and *)
(* what is left of its handler become s, m and t.                        *)

Becomes(c, s, m, t) ==
  /\ conns' \in [Conn -> ConnState]
  /\ \A x \in Conn \ {c} : conns'[x] = conns[x]
  /\ conns'[c].state = s /\ conns'[c].dbs = m /\ conns'[c].todo = t

\* A step that only sets the rest of the handler, field by field.
LEMMA TodoBecomes ==
  ASSUME conns \in [Conn -> ConnState], NEW c \in Conn, NEW t \in Todo,
         conns' = [conns EXCEPT ![c].todo = t]
  PROVE  Becomes(c, conns[c].state, conns[c].dbs, t)
BY DEF Becomes, ConnState

\* A step that opens or closes a database and sets the rest of the handler.
LEMMA EntryBecomes ==
  ASSUME conns \in [Conn -> ConnState], NEW c \in Conn, NEW d \in DBID,
         NEW v \in OpenDB \cup {None}, NEW t \in Todo,
         conns' = [conns EXCEPT ![c].dbs[d] = v, ![c].todo = t]
  PROVE  Becomes(c, conns[c].state, [conns[c].dbs EXCEPT ![d] = v], t)
BY DEF Becomes, ConnState

Renewed(db, t) == [db EXCEPT !.renewed = t]

\* Noting a renewal changes neither lease nor page size.
LEMMA RenewedType ==
  ASSUME NEW db \in OpenDB, NEW t \in Nat
  PROVE  /\ Renewed(db, t) \in OpenDB /\ Renewed(db, t).lease = db.lease
         /\ Renewed(db, t).pageSize = db.pageSize
BY DEF Renewed, OpenDB

\* A ping that notes a renewal.
LEMMA RenewedBecomes ==
  ASSUME conns \in [Conn -> ConnState], NEW c \in Conn, NEW d \in DBID,
         conns[c].dbs[d] \in OpenDB, NEW n \in Nat, NEW t \in Todo,
         conns' = [conns EXCEPT ![c].dbs[d].renewed = n, ![c].todo = t]
  PROVE  Becomes(c, conns[c].state, [conns[c].dbs EXCEPT ![d] = Renewed(@, n)], t)
<1> DEFINE v == Renewed(conns[c].dbs[d], n)
<1>1. v \in OpenDB
  BY RenewedType
<1>2. conns' = [conns EXCEPT ![c].dbs[d] = v, ![c].todo = t]
  BY DEF Renewed, ConnState
<1> HIDE DEF v
<1>3. Becomes(c, conns[c].state, [conns[c].dbs EXCEPT ![d] = v], t)
  BY <1>1, <1>2, EntryBecomes
<1> QED
  BY <1>3 DEF v

\* A step that opens or closes a database within a handler.
LEMMA OneEntryBecomes ==
  ASSUME conns \in [Conn -> ConnState], NEW c \in Conn, NEW d \in DBID, NEW v \in OpenDB \cup {None},
         conns' = [conns EXCEPT ![c].dbs[d] = v]
  PROVE  Becomes(c, conns[c].state, [conns[c].dbs EXCEPT ![d] = v], conns[c].todo)
BY DEF Becomes, ConnState

\* A commit notes that it renewed the lease.
LEMMA CommitBecomes ==
  ASSUME conns \in [Conn -> ConnState], NEW c \in Conn, NEW d \in DBID,
         conns[c].dbs[d] \in OpenDB, NEW n \in Nat,
         conns' = [conns EXCEPT ![c].dbs[d].renewed = n]
  PROVE  Becomes(c, conns[c].state, [conns[c].dbs EXCEPT ![d] = Renewed(@, n)], conns[c].todo)
<1> DEFINE v == Renewed(conns[c].dbs[d], n)
<1>1. v \in OpenDB
  BY RenewedType
<1>2. conns' = [conns EXCEPT ![c].dbs[d] = v]
  BY DEF Renewed
<1> HIDE DEF v
<1>3. Becomes(c, conns[c].state, [conns[c].dbs EXCEPT ![d] = v], conns[c].todo)
  BY <1>1, <1>2, OneEntryBecomes
<1> QED
  BY <1>3 DEF v

-----------------------------------------------------------------------------
(* Every step is a step of the store or leaves it alone *)

\* The leases of open databases m of connection c in state s are leases that Open granted for them.
LeasesOK(c, s, m, L) ==
  \A d \in DBID : m[d] # None => m[d].lease \in L /\ m[d].lease.key = KeyOf(c, d) /\ s = "up"

\* What is left of a handler is about open databases.
TodoOK(m, t, N) ==
  /\ t.op = "set" => m[t.dbid] # None /\ m[t.dbid].lease.epoch = t.epoch
  /\ t.op = "ping" => t.now \in N /\ \A d \in t.due : m[d] # None

(***************************************************************************)
(* The inductive invariant behind ImplementsStore: a connection names only *)
(* leases that Open granted, also in the handlers that are half done.      *)
(***************************************************************************)
ConnInv ==
  \A c \in Conn :
    /\ LeasesOK(c, conns[c].state, conns[c].dbs, leases)
    /\ TodoOK(conns[c].dbs, conns[c].todo, Nows)

\* The invariant of the connections has to be shown for the one that takes the step.
LEMMA ConnInvStep ==
  ASSUME conns \in [Conn -> ConnState], ConnInv, NEW c \in Conn, NEW s, NEW m, NEW t, Becomes(c, s, m, t),
         leases \subseteq leases', now' = now, LeasesOK(c, s, m, leases'), TodoOK(m, t, Nows)
  PROVE  ConnInv'
<1> SUFFICES ASSUME NEW x \in Conn
             PROVE  /\ LeasesOK(x, conns'[x].state, conns'[x].dbs, leases')
                    /\ TodoOK(conns'[x].dbs, conns'[x].todo, Nows)
  BY DEF ConnInv, LeasesOK, TodoOK, KeyOf, Nows
<1>1. CASE x = c
  BY <1>1 DEF Becomes
<1>2. CASE x # c
  BY <1>2 DEF Becomes, ConnInv, LeasesOK
<1> QED
  BY <1>1, <1>2

\* The fields of what a deletion and a purge have yet to do.
LEMMA RevokeFields ==
  ASSUME NEW d, NEW e, NEW t, t = [op |-> "revoke", dbid |-> d, epoch |-> e]
  PROVE  t.op = "revoke" /\ t.op # "purge" /\ t.dbid = d /\ t.epoch = e
OBVIOUS

LEMMA PurgeFields ==
  ASSUME NEW K, NEW t, t = [op |-> "purge", keys |-> K]
  PROVE  t.op = "purge" /\ t.op # "revoke" /\ t.keys = K
OBVIOUS

\* What is compared of epochs and of lives.
LEMMA NatOrder == \A n \in Nat : n <= n /\ (n = 0 \/ n > 0) /\ n + 1 > 0
BY SMTT(60)

\* The kinds of Todo, by op.
LEMMA TodoKinds ==
  ASSUME NEW t \in Todo
  PROVE  /\ t.op = "set" => t.dbid \in DBID /\ t.epoch \in Nat
         /\ t.op = "ping" => t.now \in Nat /\ t.due \subseteq DBID
         /\ t.op = "remove" => t.dbid \in DBID
         /\ t.op = "revoke" => t.dbid \in DBID /\ t.epoch \in Nat
         /\ t.op = "purge" => t.keys \subseteq Key
         /\ t.op = "fetch" =>
              /\ t.dbid \in DBID /\ t.version \in Nat /\ t.ranges \in Seq([first : Nat, count : Nat])
              /\ t.runs \in Seq([first : Nat, blocks : Seq(Data), size : Nat])
BY SMTT(60) DEF Todo, Idle

\* No handler runs.
LEMMA IdleKind == Idle \in Todo /\ Idle.op = "idle"
BY DEF Todo, Idle

\* The key of a connection and a name is a key of the store.
LEMMA KeyOfType == ASSUME NEW c \in Conn, NEW d \in DBID PROVE KeyOf(c, d) \in Key
BY ProtocolAssumption DEF KeyOf, Key

ConnsOK == conns \in [Conn -> ConnState] /\ ConnInv

\* A handler that is told no lease and no time goes on.
LEMMA TodoStep ==
  ASSUME ConnsOK, NEW c \in Conn, NEW t \in Todo, t.op \notin {"set", "ping"},
         conns' = [conns EXCEPT ![c].todo = t], leases' = leases, now' = now
  PROVE  ConnsOK'
<1>1. Becomes(c, conns[c].state, conns[c].dbs, t)
  BY TodoBecomes DEF ConnsOK
<1>2. LeasesOK(c, conns[c].state, conns[c].dbs, leases') /\ TodoOK(conns[c].dbs, t, Nows)
  BY DEF ConnsOK, ConnInv, TodoOK
<1>3. ConnInv'
  BY <1>1, <1>2, ConnInvStep DEF ConnsOK
<1> QED
  BY <1>1, <1>3 DEF ConnsOK, Becomes

\* The blocks Fetch returns are a sequence of blocks.
LEMMA FetchedType ==
  ASSUME NEW db \in Database, NEW first \in Nat, NEW count \in Nat
  PROVE  FetchedRange(db, first, count) \in Seq(Data)
<1>1. db.blocks \in [Index -> Data] /\ Zero \in Data
  BY DEF Database, Data
<1>2. FetchedRange(db, first, count) \in [1 .. count -> Data]
  BY <1>1 DEF FetchedRange
<1> QED
  BY <1>2, FunctionIsSeq

\* A page size, or 0 for any, is a number.
LEMMA PageSizeType == ASSUME NEW p \in PageSize \cup {0} PROVE p \in Nat
BY SMTT(60), ConstantsAssumption

\* A Fetch that has called the store for one range goes on with the others.
LEMMA FetchNextType ==
  ASSUME StoreTypeOK, NEW c \in Conn, NEW d \in DBID, NEW t, t.version \in Nat,
         t.ranges \in Seq([first : Nat, count : Nat]), t.ranges # <<>>,
         t.runs \in Seq([first : Nat, blocks : Seq(Data), size : Nat])
  PROVE  FetchNext(c, d, t) \in Todo /\ FetchNext(c, d, t).op \in {"idle", "fetch"}
<1> DEFINE r == Head(t.ranges)
           blocks == FetchedRange(dbs[KeyOf(c, d)], r.first, r.count)
           size == dbs[KeyOf(c, d)].pageSize
           runs == Append(t.runs, [first |-> r.first, size |-> size, blocks |-> blocks])
           next == [op |-> "fetch", dbid |-> d, version |-> t.version, ranges |-> Tail(t.ranges), runs |-> runs]
<1>1. r \in [first : Nat, count : Nat] /\ Tail(t.ranges) \in Seq([first : Nat, count : Nat])
  BY HeadAndTail
<1>2. blocks \in Seq(Data)
  BY <1>1, KeyOfType, FetchedType DEF StoreTypeOK
<1>a. size \in Nat
  BY KeyOfType, PageSizeType DEF StoreTypeOK, Database
<1> HIDE DEF r, blocks, size
<1>3. runs \in Seq([first : Nat, blocks : Seq(Data), size : Nat])
  BY <1>1, <1>2, <1>a, AppendedSeq
<1> HIDE DEF runs
<1>4. next \in Todo /\ next.op = "fetch"
  BY <1>1, <1>3 DEF Todo
<1>5. FetchNext(c, d, t) \in {Idle, next}
  BY DEF FetchNext, next, runs, blocks, r, size
<1> QED
  BY <1>4, <1>5, IdleKind

StepOK == [StoreNext]_vars /\ ConnsOK'

\* Handlers that do not call the store and keep the open databases.
LEMMA LocalStep ==
  ASSUME StoreTypeOK, ConnsOK, NEW c \in Conn,
         \/ OpenSet(c) \/ DeleteRevoke(c) \/ PurgeHolder(c) \/ FetchRange(c) \/ FetchSend(c)
         \/ \E d \in DBID : FetchStart(c, d)
  PROVE  StepOK
<1>1. conns[c].todo \in Todo
  BY DEF ConnsOK, ConnState
<1>2. ASSUME NEW t \in Todo, t.op \notin {"set", "ping"}, conns' = [conns EXCEPT ![c].todo = t], storeUnchanged
      PROVE  StepOK
  BY <1>2, TodoStep DEF StepOK, storeUnchanged, vars
<1>3. CASE OpenSet(c) \/ DeleteRevoke(c) \/ FetchSend(c)
  BY <1>2, <1>3, IdleKind DEF OpenSet, DeleteRevoke, FetchSend
<1>4. CASE PurgeHolder(c)
  <2>1. CASE conns' = [conns EXCEPT ![c].todo = Idle]
    BY <1>2, <1>4, <2>1, IdleKind DEF PurgeHolder
  <2>2. ASSUME NEW key \in conns[c].todo.keys,
               conns' = [conns EXCEPT ![c].todo = [op |-> "purge", keys |-> conns[c].todo.keys \ {key}]]
        PROVE  StepOK
    <3> DEFINE t == [op |-> "purge", keys |-> conns[c].todo.keys \ {key}]
    <3>1. conns[c].todo.keys \subseteq Key
      BY <1>1, <1>4, TodoKinds DEF PurgeHolder
    <3>2. t \in Todo /\ t.op = "purge"
      BY <3>1 DEF Todo
    <3> QED
      BY <1>2, <1>4, <2>2, <3>2 DEF PurgeHolder
  <2> QED
    BY <1>4, <2>1, <2>2 DEF PurgeHolder
<1>5. CASE FetchRange(c)
  <2> DEFINE todo == conns[c].todo
             t == FetchNext(c, todo.dbid, todo)
  <2>1. t \in Todo /\ t.op \in {"idle", "fetch"}
    BY <1>1, <1>5, TodoKinds, FetchNextType DEF FetchRange
  <2> QED
    BY <1>2, <1>5, <2>1 DEF FetchRange
<1>6. ASSUME NEW d \in DBID, FetchStart(c, d) PROVE StepOK
  <2> PICK ranges \in FetchRanges, version \in 0 .. MaxVersion :
        conns' = [conns EXCEPT ![c].todo =
          FetchNext(c, d, [op |-> "fetch", dbid |-> d, version |-> version, ranges |-> ranges, runs |-> <<>>])]
    BY <1>6 DEF FetchStart
  <2> DEFINE todo == [op |-> "fetch", dbid |-> d, version |-> version, ranges |-> ranges, runs |-> <<>>]
             t == FetchNext(c, d, todo)
  <2>1. ranges \in Seq([first : Nat, count : Nat]) /\ ranges # <<>> /\ version \in Nat
    BY SMTT(60), ProtocolAssumption, ConstantsAssumption
  <2>2. /\ todo.version \in Nat /\ todo.ranges \in Seq([first : Nat, count : Nat]) /\ todo.ranges # <<>>
        /\ todo.runs \in Seq([first : Nat, blocks : Seq(Data), size : Nat])
    BY SMTT(60), <2>1
  <2>3. t \in Todo /\ t.op \in {"idle", "fetch"}
    BY <2>2, FetchNextType
  <2> QED
    BY <1>2, <1>6, <2>3 DEF FetchStart
<1> QED
  BY <1>3, <1>4, <1>5, <1>6

\* The lease that Open returns may be kept by the connection.
LEMMA OpenedOK ==
  ASSUME ConnsOK, StoreTypeOK', NEW c \in Conn, NEW d \in DBID, NEW l \in Lease, NEW t \in Nat,
         conns[c].state = "up", l \in leases', l.key = KeyOf(c, d), leases \subseteq leases', now' = now,
         Opened(c, d, l, t)
  PROVE  ConnsOK'
<1> DEFINE v == [lease |-> l, pageSize |-> dbs'[KeyOf(c, d)].pageSize, renewed |-> t]
           w == [op |-> "set", dbid |-> d, epoch |-> l.epoch]
           m == [conns[c].dbs EXCEPT ![d] = v]
<1>1. dbs'[KeyOf(c, d)].pageSize \in Nat
  <2>1. dbs'[KeyOf(c, d)] \in Database
    BY KeyOfType DEF StoreTypeOK
  <2>2. dbs'[KeyOf(c, d)].pageSize \in PageSize \cup {0}
    BY <2>1 DEF Database
  <2> QED
    BY <2>2, PageSizeType
<1>2. v \in OpenDB /\ v # None /\ v.lease = l
  BY SMTT(60), <1>1, NoneIsNotOpen DEF OpenDB
<1>3. w \in Todo /\ w.op = "set" /\ w.dbid = d /\ w.epoch = l.epoch
  BY DEF Todo, Lease
<1>4. conns' = [conns EXCEPT ![c].dbs[d] = v, ![c].todo = w]
  BY DEF Opened
<1> HIDE DEF v, w
<1>5. Becomes(c, conns[c].state, m, w)
  BY <1>2, <1>3, <1>4, EntryBecomes DEF ConnsOK
<1>6. \A e \in DBID : m[e] = IF e = d THEN v ELSE conns[c].dbs[e]
  BY DEF ConnsOK, ConnState
<1>7. LeasesOK(c, conns[c].state, m, leases')
  BY SMTT(60), <1>2, <1>6 DEF ConnsOK, ConnInv, LeasesOK
<1>8. TodoOK(m, w, Nows)
  BY <1>2, <1>3, <1>6 DEF TodoOK
<1>9. ConnInv'
  BY <1>5, <1>7, <1>8, ConnInvStep DEF ConnsOK
<1> QED
  BY <1>5, <1>9 DEF ConnsOK, Becomes

\* The store call of the open handler is a step of the store.
LEMMA OpenStep ==
  ASSUME StoreTypeOK, ConnsOK, NEW c \in Conn, NEW d \in DBID, OpenCall(c, d)
  PROVE  StepOK
<1> DEFINE key == KeyOf(c, d)
<1>1. key \in Key
  BY KeyOfType
<1> HIDE DEF key
<1> PICK req \in OpenRequest(key) :
      \/ OpenGrant(req) /\ Opened(c, d, NewLease(key), req.now)
      \/ OpenResume(req) /\ \E l \in leases : l.key = key /\ Opened(c, d, l, req.now)
  BY DEF OpenCall, key
<1>2. req.key = key /\ req.now \in Nat
  BY <1>1, OpenRequestType
<1>3. Open
  BY <1>1 DEF Open
<1>4. [StoreNext]_vars
  BY <1>3 DEF StoreNext
<1>5. StoreTypeOK'
  BY <1>4, StoreTypeStep
<1>6. conns[c].state = "up"
  BY DEF OpenCall, Ready
<1>7. CASE OpenGrant(req) /\ Opened(c, d, NewLease(key), req.now)
  <2>1. NewLease(key) \in Lease /\ NewLease(key).key = key
    BY <1>1, NewLeaseType DEF NewLease
  <2>2. leases' = leases \cup {NewLease(key)} /\ now' = now
    BY <1>2, <1>7 DEF OpenGrant
  <2>3. ConnsOK'
    BY <1>2, <1>5, <1>6, <1>7, <2>1, <2>2, OpenedOK DEF key
  <2> QED
    BY <1>4, <2>3 DEF StepOK
<1>8. ASSUME OpenResume(req), NEW l \in leases, l.key = key, Opened(c, d, l, req.now)
      PROVE  StepOK
  <2>1. leases' = leases /\ now' = now /\ l \in Lease
    BY <1>8 DEF OpenResume, StoreTypeOK
  <2>2. ConnsOK'
    BY <1>2, <1>5, <1>6, <1>8, <2>1, OpenedOK DEF key
  <2> QED
    BY <1>4, <2>2 DEF StepOK
<1> QED
  BY <1>7, <1>8

\* Renewing changes no lease.
LEMMA RenewedOK ==
  ASSUME ConnsOK, NEW c \in Conn, NEW d \in DBID, IsOpen(c, d), NEW n \in Nat,
         NEW t, TodoOK(conns[c].dbs, t, Nows),
         Becomes(c, conns[c].state, [conns[c].dbs EXCEPT ![d] = Renewed(@, n)], t),
         leases' = leases, now' = now
  PROVE  ConnsOK'
<1> DEFINE v == Renewed(conns[c].dbs[d], n)
           m == [conns[c].dbs EXCEPT ![d] = v]
<1>1. conns[c].dbs[d] \in OpenDB
  BY DEF ConnsOK, ConnState, IsOpen
<1>2. v \in OpenDB /\ v # None /\ v.lease = conns[c].dbs[d].lease
  BY <1>1, RenewedType, NoneIsNotOpen
<1>3. Becomes(c, conns[c].state, m, t)
  OBVIOUS
<1> HIDE DEF v
<1>4. \A e \in DBID : m[e] = IF e = d THEN v ELSE conns[c].dbs[e]
  BY DEF ConnsOK, ConnState
<1>5. LeasesOK(c, conns[c].state, m, leases')
  BY SMTT(60), <1>2, <1>4 DEF ConnsOK, ConnInv, LeasesOK, IsOpen
<1>6. TodoOK(m, t, Nows)
  BY SMTT(60), <1>2, <1>4 DEF TodoOK, IsOpen
<1>7. ConnInv'
  BY <1>3, <1>5, <1>6, ConnInvStep DEF ConnsOK
<1> QED
  BY <1>3, <1>7 DEF ConnsOK, Becomes

\* An open database has a lease that the store has granted.
LEMMA OpenIsLease ==
  ASSUME ConnsOK, NEW c \in Conn, NEW d \in DBID, IsOpen(c, d)
  PROVE  /\ conns[c].dbs[d] \in OpenDB
         /\ LeaseOn(c, d) \in leases /\ LeaseOn(c, d).key = KeyOf(c, d) /\ conns[c].state = "up"
BY DEF ConnsOK, ConnState, ConnInv, LeasesOK, IsOpen, LeaseOn

\* The commit handler is a step of the store with a lease the store has granted.
LEMMA CommitStep ==
  ASSUME StoreTypeOK, ConnsOK, NEW c \in Conn, NEW d \in DBID, CommitCall(c, d)
  PROVE  StepOK
<1> PICK req \in CommitRequest, t \in Nows :
      /\ NamesOneCommit(req)
      /\ CommitApply(req, t) \/ CommitRepeat(req, t)
      /\ conns' = [conns EXCEPT ![c].dbs[d].renewed = t]
  BY DEF CommitCall
<1>1. Commit
  BY DEF Commit
<1>2. leases' = leases /\ now' = now
  BY DEF CommitApply, CommitRepeat
<1>3. t \in Nat
  BY NowsType
<1>4. IsOpen(c, d) /\ conns[c].dbs[d] \in OpenDB
  BY OpenIsLease DEF CommitCall
<1>5. Becomes(c, conns[c].state, [conns[c].dbs EXCEPT ![d] = Renewed(@, t)], conns[c].todo)
  BY <1>3, <1>4, CommitBecomes DEF ConnsOK
<1>6. TodoOK(conns[c].dbs, conns[c].todo, Nows)
  BY DEF ConnsOK, ConnInv
<1>7. ConnsOK'
  BY <1>2, <1>3, <1>4, <1>5, <1>6, RenewedOK
<1> QED
  BY <1>1, <1>7 DEF StepOK, StoreNext

\* A ping collects the databases to renew and calls no store.
LEMMA PingStep ==
  ASSUME StoreTypeOK, ConnsOK, NEW c \in Conn, Ping(c)
  PROVE  StepOK
<1> PICK t \in Nows : \E D : /\ D = {d \in DBID : IsOpen(c, d) /\ renewDue(conns[c].dbs[d], t)}
                              /\ conns' = [conns EXCEPT ![c].todo = [op |-> "ping", now |-> t, due |-> D]]
  BY DEF Ping
<1> PICK D : /\ D = {d \in DBID : IsOpen(c, d) /\ renewDue(conns[c].dbs[d], t)}
             /\ conns' = [conns EXCEPT ![c].todo = [op |-> "ping", now |-> t, due |-> D]]
  OBVIOUS
<1> DEFINE w == [op |-> "ping", now |-> t, due |-> D]
<1>1. w \in Todo
  BY NowsType DEF Todo
<1>2. TodoOK(conns[c].dbs, w, Nows)
  BY DEF TodoOK, IsOpen
<1>3. UNCHANGED vars /\ leases' = leases /\ now' = now
  BY DEF Ping, storeUnchanged, vars
<1> HIDE DEF w
<1>4. Becomes(c, conns[c].state, conns[c].dbs, w)
  BY <1>1, TodoBecomes DEF ConnsOK, w
<1>5. LeasesOK(c, conns[c].state, conns[c].dbs, leases')
  BY <1>3 DEF ConnsOK, ConnInv
<1>6. ConnInv'
  BY <1>2, <1>3, <1>4, <1>5, ConnInvStep DEF ConnsOK
<1> QED
  BY <1>3, <1>4, <1>6 DEF StepOK, ConnsOK, Becomes

\* Each renewal of a ping is a step of the store.
LEMMA PingRenewStep ==
  ASSUME StoreTypeOK, ConnsOK, NEW c \in Conn, PingRenew(c)
  PROVE  StepOK
<1> DEFINE todo == conns[c].todo
           Rest(d) == IF todo.due = {d} THEN Idle
                      ELSE [op |-> "ping", now |-> todo.now, due |-> todo.due \ {d}]
<1>1. todo \in Todo /\ todo.op = "ping" /\ TodoOK(conns[c].dbs, todo, Nows)
  BY DEF PingRenew, ConnsOK, ConnState, ConnInv
<1>2. todo.now \in Nat /\ todo.now \in Nows /\ todo.due \subseteq DBID /\ \A d \in todo.due : IsOpen(c, d)
  BY <1>1, TodoKinds DEF TodoOK, IsOpen
<1>d. PICK d \in todo.due :
      \/ /\ Renew(KeyOf(c, d), LeaseOn(c, d).epoch, todo.now)
         /\ conns' = [conns EXCEPT ![c].dbs[d].renewed = todo.now, ![c].todo = Rest(d)]
      \/ /\ UNCHANGED vars
         /\ conns' = [conns EXCEPT ![c].todo = Rest(d)]
  BY DEF PingRenew, storeUnchanged
<1>3. d \in DBID /\ IsOpen(c, d)
  BY <1>2
<1>4. conns[c].dbs[d] \in OpenDB /\ LeaseOn(c, d) \in leases /\ LeaseOn(c, d).key = KeyOf(c, d)
  BY <1>3, OpenIsLease
<1>5. Rest(d) \in Todo /\ TodoOK(conns[c].dbs, Rest(d), Nows)
  <2>1. CASE todo.due = {d}
    BY <2>1, IdleKind DEF TodoOK
  <2>2. CASE todo.due # {d}
    <3> DEFINE w == [op |-> "ping", now |-> todo.now, due |-> todo.due \ {d}]
    <3>1. w \in Todo
      BY <1>2 DEF Todo
    <3>2. TodoOK(conns[c].dbs, w, Nows)
      BY <1>2 DEF TodoOK, IsOpen
    <3> QED
      BY <2>2, <3>1, <3>2
  <2> QED
    BY <2>1, <2>2
<1> HIDE DEF Rest
<1>6. CASE Renew(KeyOf(c, d), LeaseOn(c, d).epoch, todo.now)
           /\ conns' = [conns EXCEPT ![c].dbs[d].renewed = todo.now, ![c].todo = Rest(d)]
  <2>1. leases' = leases /\ now' = now
    BY <1>6 DEF Renew
  <2>2. Becomes(c, conns[c].state, [conns[c].dbs EXCEPT ![d] = Renewed(@, todo.now)], Rest(d))
    BY <1>2, <1>3, <1>4, <1>5, <1>6, RenewedBecomes DEF ConnsOK
  <2>3. ConnsOK'
    BY <1>2, <1>3, <1>5, <2>1, <2>2, RenewedOK
  <2>4. StoreNext
    BY <1>2, <1>4, <1>6 DEF StoreNext
  <2> QED
    BY <2>3, <2>4 DEF StepOK
<1>7. CASE UNCHANGED vars /\ conns' = [conns EXCEPT ![c].todo = Rest(d)]
  <2>1. leases' = leases /\ now' = now
    BY <1>7 DEF vars
  <2>2. Becomes(c, conns[c].state, conns[c].dbs, Rest(d))
    BY <1>5, <1>7, TodoBecomes DEF ConnsOK
  <2>3. LeasesOK(c, conns[c].state, conns[c].dbs, leases')
    BY <2>1 DEF ConnsOK, ConnInv
  <2>4. ConnInv'
    BY <1>5, <2>1, <2>2, <2>3, ConnInvStep DEF ConnsOK
  <2> QED
    BY <1>7, <2>2, <2>4 DEF StepOK, ConnsOK, Becomes
<1> QED
  BY <1>d, <1>6, <1>7

\* Handlers that call the store and leave the registry for later.
LEMMA CallStep ==
  ASSUME StoreTypeOK, ConnsOK, NEW c \in Conn,
         \/ \E d \in DBID : CloseCall(c, d) \/ DeleteCall(c, d)
         \/ ClaimCall(c) \/ DeleteSlotCall(c) \/ SetLabel(c)
  PROVE  StepOK
<1>1. ASSUME NEW t \in Todo, t.op \notin {"set", "ping"}, conns' = [conns EXCEPT ![c].todo = t],
             leases' = leases, now' = now
      PROVE  ConnsOK'
  BY <1>1, TodoStep
<1>2. SubjectOf[c] \in Subject
  BY ProtocolAssumption
<1>3. ASSUME NEW d \in DBID, CloseCall(c, d) PROVE StepOK
  <2> DEFINE t == [op |-> "remove", dbid |-> d]
  <2>1. LeaseOn(c, d) \in leases /\ LeaseOn(c, d).key = KeyOf(c, d)
    BY <1>3, OpenIsLease DEF CloseCall
  <2>2. StoreNext
    BY <1>3, <2>1 DEF CloseCall, StoreNext
  <2>3. t \in Todo /\ t.op = "remove"
    BY DEF Todo
  <2>4. leases' = leases /\ now' = now
    BY <1>3 DEF CloseCall, Release
  <2> QED
    BY <1>1, <1>3, <2>2, <2>3, <2>4 DEF CloseCall, StepOK
<1>4. ASSUME NEW d \in DBID, DeleteCall(c, d) PROVE StepOK
  <2> PICK takeover \in BOOLEAN, n \in Nows : Delete(KeyOf(c, d), takeover, n)
    BY <1>4 DEF DeleteCall
  <2> DEFINE t == [op |-> "revoke", dbid |-> d, epoch |-> dbs'[KeyOf(c, d)].epoch]
  <2>1. StoreNext
    BY KeyOfType DEF StoreNext
  <2>2. StoreTypeOK'
    BY <2>1, StoreTypeStep
  <2>3. dbs'[KeyOf(c, d)].epoch \in Nat
    BY <2>2, KeyOfType DEF StoreTypeOK, Database
  <2>4. t \in Todo /\ t.op = "revoke"
    BY <2>3 DEF Todo
  <2>5. leases' = leases /\ now' = now
    BY DEF Delete
  <2> QED
    BY <1>1, <1>4, <2>1, <2>4, <2>5 DEF DeleteCall, StepOK
<1>5. CASE ClaimCall(c) \/ DeleteSlotCall(c)
  <2> DEFINE t == [op |-> "purge", keys |-> PurgedKeys]
  <2>1. StoreNext
    BY <1>2, <1>5 DEF ClaimCall, DeleteSlotCall, StoreNext
  <2>2. t \in Todo /\ t.op = "purge"
    BY DEF Todo, PurgedKeys
  <2>3. leases' = leases /\ now' = now
    BY <1>5 DEF ClaimCall, DeleteSlotCall, ClaimSlot, DeleteSlot
  <2>4. conns' = [conns EXCEPT ![c].todo = t]
    BY <1>5 DEF ClaimCall, DeleteSlotCall
  <2> QED
    BY <1>1, <2>1, <2>2, <2>3, <2>4 DEF StepOK
<1>6. CASE SetLabel(c)
  <2>1. StoreNext
    BY <1>2, <1>6 DEF SetLabel, StoreNext
  <2>2. leases' = leases /\ now' = now /\ conns' = conns
    BY <1>6 DEF SetLabel, SetSlotLabel
  <2> QED
    BY <2>1, <2>2 DEF StepOK, ConnsOK, ConnInv, LeasesOK, TodoOK, Nows, KeyOf
<1> QED
  BY <1>3, <1>4, <1>5, <1>6

\* Steps that close databases, or open none.
LEMMA EndStep ==
  ASSUME StoreTypeOK, ConnsOK, NEW c \in Conn, Connect(c) \/ CloseRemove(c) \/ End(c)
  PROVE  StepOK
<1>1. UNCHANGED vars /\ leases' = leases /\ now' = now
  BY DEF Connect, CloseRemove, End, storeUnchanged, vars
<1>2. ASSUME NEW s, NEW m, NEW t, Becomes(c, s, m, t),
             LeasesOK(c, s, m, leases), TodoOK(m, t, Nows)
      PROVE  StepOK
  <2>1. ConnInv'
    BY <1>1, <1>2, ConnInvStep DEF ConnsOK
  <2> QED
    BY <1>1, <1>2, <2>1 DEF StepOK, ConnsOK, Becomes
<1>3. /\ LeasesOK(c, conns[c].state, conns[c].dbs, leases)
      /\ TodoOK(conns[c].dbs, conns[c].todo, Nows)
      /\ conns[c].todo \in Todo
  BY DEF ConnsOK, ConnInv, ConnState
<1>4. CASE Connect(c)
  <2>1. Becomes(c, "up", conns[c].dbs, conns[c].todo)
    BY <1>4 DEF Connect, Becomes, ConnsOK, ConnState
  <2>2. LeasesOK(c, "up", conns[c].dbs, leases)
    BY <1>3 DEF LeasesOK
  <2> QED
    BY <1>2, <1>3, <2>1, <2>2
<1>5. CASE CloseRemove(c)
  <2> DEFINE d == conns[c].todo.dbid
             m == [conns[c].dbs EXCEPT ![d] = None]
  <2>1. d \in DBID
    BY <1>3, <1>5, TodoKinds DEF CloseRemove
  <2>2. Becomes(c, conns[c].state, m, Idle)
    BY <1>5, <2>1, EntryBecomes, IdleKind DEF CloseRemove, ConnsOK
  <2>3. \A e \in DBID : m[e] = IF e = d THEN None ELSE conns[c].dbs[e]
    BY DEF ConnsOK, ConnState
  <2>4. LeasesOK(c, conns[c].state, m, leases)
    BY <1>3, <2>3 DEF LeasesOK
  <2>5. TodoOK(m, Idle, Nows)
    BY IdleKind DEF TodoOK
  <2> QED
    BY <1>2, <2>2, <2>4, <2>5
<1>6. CASE End(c)
  <2> DEFINE m == [d \in DBID |-> None]
  <2>1. m \in [DBID -> OpenDB \cup {None}] /\ \A d \in DBID : m[d] = None
    OBVIOUS
  <2> HIDE DEF m
  <2>2. conns' = [conns EXCEPT ![c].state = "ended", ![c].dbs = m] /\ conns[c].todo = Idle
    BY <1>6 DEF End, Ready, m
  <2>3. Becomes(c, "ended", m, Idle)
    BY <2>1, <2>2 DEF Becomes, ConnsOK, ConnState
  <2>4. LeasesOK(c, "ended", m, leases) /\ TodoOK(m, Idle, Nows)
    BY <2>1, IdleKind DEF LeasesOK, TodoOK
  <2> QED
    BY <1>2, <2>3, <2>4
<1> QED
  BY <1>4, <1>5, <1>6

\* The clock, the sweep and the callbacks.
LEMMA OtherStep ==
  ASSUME StoreTypeOK, ConnsOK,
         \/ ((InTime /\ Tick) \/ Sweep) /\ UNCHANGED conns
         \/ \E p \in pushes : Deliver(p)
  PROVE  StepOK
<1>1. ASSUME conns' = conns, leases' = leases, \A c \in Conn : TodoOK(conns[c].dbs, conns[c].todo, Nows')
      PROVE  ConnsOK'
  BY <1>1 DEF ConnsOK, ConnInv, LeasesOK, TodoOK, KeyOf
<1>2. CASE InTime /\ Tick /\ UNCHANGED conns
  <2>1. \A c \in Conn : TodoOK(conns[c].dbs, conns[c].todo, Nows')
    <3> SUFFICES ASSUME NEW c \in Conn PROVE TodoOK(conns[c].dbs, conns[c].todo, Nows')
      OBVIOUS
    <3>1. TodoOK(conns[c].dbs, conns[c].todo, Nows)
      BY DEF ConnsOK, ConnInv
    <3>2. now \in Nat /\ now' = now + 1 /\ Skew \in Nat
      BY <1>2, ConstantsAssumption DEF Tick, StoreTypeOK
    <3>3. ASSUME NEW t \in Nows, now - t < Skew PROVE t \in Nows'
      BY SMTT(60), <3>2, <3>3 DEF Nows
    <3>4. conns[c].todo.op = "ping" => now - conns[c].todo.now < Skew
      BY <1>2 DEF InTime
    <3> QED
      BY <3>1, <3>3, <3>4 DEF TodoOK
  <2> QED
    BY <1>1, <1>2, <2>1 DEF Tick, StepOK, StoreNext
<1>3. ASSUME conns' = conns, leases' = leases, now' = now PROVE ConnsOK'
  BY <1>3 DEF ConnsOK, ConnInv, LeasesOK, TodoOK, Nows, KeyOf
<1>4. CASE Sweep /\ UNCHANGED conns
  BY <1>3, <1>4 DEF Sweep, DeleteUnused, StepOK, StoreNext
<1>5. CASE \E p \in pushes : Deliver(p)
  BY <1>3, <1>5 DEF Deliver, storeUnchanged, vars, StepOK
<1> QED
  BY <1>2, <1>4, <1>5

\* Every step of the handlers is a step of the store, or leaves it, and keeps the connections.
LEMMA ProtocolStep ==
  ASSUME StoreTypeOK, ConnsOK, ProtocolNext
  PROVE  StepOK
BY LocalStep, OpenStep, CommitStep, PingStep, PingRenewStep, CallStep, EndStep, OtherStep DEF ProtocolNext

\* No connection has anything open at first.
LEMMA ConnsInit == ProtocolInit => ConnsOK
<1> SUFFICES ASSUME ProtocolInit PROVE ConnsOK
  OBVIOUS
<1>1. \A c \in Conn : /\ conns[c].state = "new" /\ conns[c].todo = Idle
                       /\ \A d \in DBID : conns[c].dbs[d] = None
  BY DEF ProtocolInit
<1>2. conns \in [Conn -> ConnState]
  BY IdleKind DEF ProtocolInit, ConnState
<1>3. ConnInv
  BY <1>1, IdleKind DEF ConnInv, LeasesOK, TodoOK
<1> QED
  BY <1>2, <1>3 DEF ConnsOK

\* The invariants of the store and of the connections, with the store's own steps.
THEOREM ProtocolInvariant ==
  ProtocolSpec => [](StoreTypeOK /\ StoreInv /\ ConnsOK)
<1>1. ProtocolInit => StoreTypeOK /\ StoreInv /\ ConnsOK
  <2>1. StoreInit => StoreTypeOK
    BY SMTT(60), NoDatabaseType, NoSlotType DEF StoreInit, StoreTypeOK
  <2>2. StoreInit => StoreInv
    BY NoDatabaseFields DEF StoreInit, StoreInv
  <2> QED
    BY <2>1, <2>2, ConnsInit DEF ProtocolInit
<1>2. ASSUME StoreTypeOK, StoreInv, ConnsOK, [ProtocolNext]_protocolVars
      PROVE  StoreTypeOK' /\ StoreInv' /\ ConnsOK'
  <2>1. [StoreNext]_vars /\ ConnsOK'
    <3>1. CASE ProtocolNext
      BY <1>2, <3>1, ProtocolStep DEF StepOK
    <3>2. CASE UNCHANGED protocolVars
      BY <1>2, <3>2 DEF protocolVars, vars, ConnsOK, ConnInv, LeasesOK, TodoOK, Nows, KeyOf
    <3> QED
      BY <1>2, <3>1, <3>2
  <2>2. StoreTypeOK'
    BY <1>2, <2>1, StoreTypeStep
  <2> QED
    BY <1>2, <2>1, <2>2, StepEffect, StoreInvStep
<1> QED
  BY <1>1, <1>2, PTL DEF ProtocolSpec

(***************************************************************************)
(* However many connections there are, and however their handlers          *)
(* interleave, the store sees only requests that it allows: what the       *)
(* theorems say of StoreSpec holds behind the protocol.  A handler names   *)
(* the lease of an open database, which Open put there.                    *)
(***************************************************************************)
THEOREM ProtocolImplementsStore == ProtocolSpec => ImplementsStore
<1>1. ProtocolInit => StoreInit
  BY DEF ProtocolInit
<1>2. StoreTypeOK /\ StoreInv /\ ConnsOK /\ [ProtocolNext]_protocolVars => [UNCHANGED vars \/ StoreNext]_vars
  <2> SUFFICES ASSUME StoreTypeOK, ConnsOK, [ProtocolNext]_protocolVars PROVE [StoreNext]_vars
    OBVIOUS
  <2>1. CASE ProtocolNext
    BY <2>1, ProtocolStep DEF StepOK
  <2>2. CASE UNCHANGED protocolVars
    BY <2>2 DEF protocolVars
  <2> QED
    BY <2>1, <2>2
<1> QED
  BY <1>1, <1>2, ProtocolInvariant, PTL DEF ProtocolSpec, ImplementsStore

(***************************************************************************)
(* So no commit of an earlier lease is applied after a later one was       *)
(* granted, and none twice, whatever the connections do.                   *)
(***************************************************************************)
THEOREM ProtocolFences == ProtocolSpec => [](Fencing /\ ExactlyOnce)
<1>1. ImplementsStore => StoreSpec
  <2>1. [UNCHANGED vars \/ StoreNext]_vars => [StoreNext]_vars
    OBVIOUS
  <2> QED
    BY <2>1, PTL DEF ImplementsStore, StoreSpec
<1> QED
  BY <1>1, ProtocolImplementsStore, FencingHolds, ExactlyOnceHolds, PTL

-----------------------------------------------------------------------------
(* Which databases are open *)

\* d stays open, or not open, on connection x, with the same lease and page size.
Same(x, d) ==
  /\ IsOpen(x, d)' <=> IsOpen(x, d)
  /\ IsOpen(x, d) => /\ LeaseOn(x, d)' = LeaseOn(x, d)
                     /\ conns'[x].dbs[d].pageSize = conns[x].dbs[d].pageSize

Keeps == \A x \in Conn, d \in DBID : Same(x, d)

\* Going on with a handler opens and closes nothing.
LEMMA TodoKeeps ==
  ASSUME ConnsOK, NEW c \in Conn, NEW t, conns' = [conns EXCEPT ![c].todo = t]
  PROVE  Keeps
BY DEF ConnsOK, ConnState, Keeps, Same, IsOpen, LeaseOn

\* Noting a renewal opens and closes nothing.
LEMMA RenewedKeeps ==
  ASSUME ConnsOK, NEW c \in Conn, NEW d \in DBID, IsOpen(c, d), NEW n \in Nat, NEW t,
         Becomes(c, conns[c].state, [conns[c].dbs EXCEPT ![d] = Renewed(@, n)], t)
  PROVE  Keeps
<1> DEFINE v == Renewed(conns[c].dbs[d], n)
<1>1. conns[c].dbs[d] \in OpenDB
  BY OpenIsLease
<1>2. v # None /\ v.lease = conns[c].dbs[d].lease /\ v.pageSize = conns[c].dbs[d].pageSize
  BY <1>1, RenewedType, NoneIsNotOpen
<1>3. Becomes(c, conns[c].state, [conns[c].dbs EXCEPT ![d] = v], t)
  OBVIOUS
<1> HIDE DEF v
<1>4. \A x \in Conn \ {c} : conns'[x] = conns[x]
  BY <1>3 DEF Becomes
<1>5. \A e \in DBID : conns'[c].dbs[e] = IF e = d THEN v ELSE conns[c].dbs[e]
  BY <1>3 DEF Becomes, ConnsOK, ConnState
<1> QED
  BY <1>2, <1>4, <1>5 DEF Keeps, Same, IsOpen, LeaseOn

\* Steps other than these open and close nothing.
LEMMA OthersKeep ==
  ASSUME StoreTypeOK, ConnsOK, ProtocolNext,
         \A c \in Conn : ~CloseRemove(c) /\ ~End(c) /\ \A d \in DBID : ~OpenCall(c, d)
  PROVE  Keeps
<1>1. CASE UNCHANGED conns
  BY <1>1 DEF Keeps, Same, IsOpen, LeaseOn
<1>2. ASSUME NEW c \in Conn, Connect(c) PROVE Keeps
  BY <1>2 DEF Connect, ConnsOK, ConnState, Keeps, Same, IsOpen, LeaseOn
<1>3. ASSUME NEW c \in Conn, NEW d \in DBID, CommitCall(c, d) PROVE Keeps
  <2> PICK t \in Nows : conns' = [conns EXCEPT ![c].dbs[d].renewed = t]
    BY <1>3 DEF CommitCall
  <2>1. IsOpen(c, d) /\ conns[c].dbs[d] \in OpenDB /\ t \in Nat
    BY <1>3, OpenIsLease, NowsType DEF CommitCall
  <2>2. Becomes(c, conns[c].state, [conns[c].dbs EXCEPT ![d] = Renewed(@, t)], conns[c].todo)
    BY <2>1, CommitBecomes DEF ConnsOK
  <2> QED
    BY <2>1, <2>2, RenewedKeeps
<1>4. ASSUME NEW c \in Conn, PingRenew(c) PROVE Keeps
  <2>1. PICK d \in conns[c].todo.due :
          \/ \E t \in {Idle, [op |-> "ping", now |-> conns[c].todo.now, due |-> conns[c].todo.due \ {d}]} :
               conns' = [conns EXCEPT ![c].dbs[d].renewed = conns[c].todo.now, ![c].todo = t]
          \/ \E t : conns' = [conns EXCEPT ![c].todo = t]
    BY <1>4 DEF PingRenew
  <2>2. conns[c].todo \in Todo /\ conns[c].todo.op = "ping" /\ TodoOK(conns[c].dbs, conns[c].todo, Nows)
    BY <1>4 DEF PingRenew, ConnsOK, ConnState, ConnInv
  <2>3. conns[c].todo.now \in Nat /\ conns[c].todo.due \subseteq DBID /\ d \in DBID /\ IsOpen(c, d)
    BY <2>2, TodoKinds DEF TodoOK, IsOpen
  <2>4. [op |-> "ping", now |-> conns[c].todo.now, due |-> conns[c].todo.due \ {d}] \in Todo
    BY <2>3 DEF Todo
  <2>5. ASSUME NEW t \in Todo, conns' = [conns EXCEPT ![c].dbs[d].renewed = conns[c].todo.now, ![c].todo = t]
        PROVE  Keeps
    <3>1. Becomes(c, conns[c].state, [conns[c].dbs EXCEPT ![d] = Renewed(@, conns[c].todo.now)], t)
      BY <2>3, <2>5, OpenIsLease, RenewedBecomes DEF ConnsOK
    <3> QED
      BY <2>3, <3>1, RenewedKeeps
  <2> QED
    BY <2>1, <2>4, <2>5, IdleKind, TodoKeeps
<1>5. ASSUME NEW c \in Conn,
             \/ \E d \in DBID : CloseCall(c, d) \/ DeleteCall(c, d) \/ FetchStart(c, d)
             \/ Ping(c) \/ OpenSet(c) \/ DeleteRevoke(c) \/ ClaimCall(c) \/ DeleteSlotCall(c)
             \/ PurgeHolder(c) \/ FetchRange(c) \/ FetchSend(c)
      PROVE  Keeps
  <2>1. \E t : conns' = [conns EXCEPT ![c].todo = t]
    BY <1>5 DEF CloseCall, DeleteCall, FetchStart, Ping, OpenSet, DeleteRevoke, ClaimCall,
                DeleteSlotCall, PurgeHolder, FetchRange, FetchSend
  <2> QED
    BY <2>1, TodoKeeps
<1> QED
  BY <1>1, <1>2, <1>3, <1>4, <1>5 DEF ProtocolNext, SetLabel, Deliver

\* The open handler opens its database, and no other.
LEMMA OpenOpens ==
  ASSUME StoreTypeOK, ConnsOK, NEW c \in Conn, NEW d \in DBID, OpenCall(c, d)
  PROVE  \A x \in Conn, e \in DBID : <<x, e>> # <<c, d>> => Same(x, e)
<1>1. PICK l, n : Opened(c, d, l, n)
  BY DEF OpenCall
<1> DEFINE v == [lease |-> l, pageSize |-> dbs'[KeyOf(c, d)].pageSize, renewed |-> n]
           t == [op |-> "set", dbid |-> d, epoch |-> l.epoch]
<1>2. conns' = [conns EXCEPT ![c].dbs[d] = v, ![c].todo = t]
  BY <1>1 DEF Opened
<1> HIDE DEF v, t
<1> QED
  BY <1>2 DEF ConnsOK, ConnState, Same, IsOpen, LeaseOn

\* The close handler closes its database, and no other.
LEMMA CloseCloses ==
  ASSUME ConnsOK, NEW c \in Conn, CloseRemove(c)
  PROVE  \A x \in Conn, e \in DBID :
           IF <<x, e>> = <<c, conns[c].todo.dbid>> THEN ~IsOpen(x, e)' ELSE Same(x, e)
<1>1. conns' = [conns EXCEPT ![c].dbs[conns[c].todo.dbid] = None, ![c].todo = Idle]
  BY DEF CloseRemove
<1>2. conns[c].todo.dbid \in DBID
  BY TodoKinds DEF CloseRemove, ConnsOK, ConnState
<1> QED
  BY <1>1, <1>2 DEF ConnsOK, ConnState, Same, IsOpen, LeaseOn

\* A connection that ends closes its databases, and those of no other.
LEMMA EndCloses ==
  ASSUME ConnsOK, NEW c \in Conn, End(c)
  PROVE  \A x \in Conn, e \in DBID : IF x = c THEN ~IsOpen(x, e)' ELSE Same(x, e)
<1>1. conns' = [conns EXCEPT ![c].state = "ended", ![c].dbs = [d \in DBID |-> None]]
  BY DEF End
<1> QED
  BY <1>1 DEF ConnsOK, ConnState, Same, IsOpen, LeaseOn

-----------------------------------------------------------------------------
(* The registries *)

RegistryType == holders \in [Server -> [Key -> Holder \cup {NoHolder}]] /\ pushes \subseteq Push

\* Entry h of server s for database k names an open database.
EntryOK(s, k, h) ==
  h # NoHolder =>
    /\ h.conn \in Conn /\ ServerOf[h.conn] = s /\ SubjectOf[h.conn] = k[1]
    /\ IsOpen(h.conn, k[2]) /\ LeaseOn(h.conn, k[2]).epoch = h.epoch

EntryInv == \A s \in Server, k \in Key : EntryOK(s, k, holders[s][k])

RegistryOK == RegistryType /\ EntryInv

\* A key is the subject of its connection and a name.
LEMMA KeyParts ==
  ASSUME NEW k \in Key
  PROVE  k[1] \in Subject /\ k[2] \in DBID /\ \A c \in Conn : SubjectOf[c] = k[1] => KeyOf(c, k[2]) = k
BY SMTT(60) DEF Key, KeyOf

\* Entries stay good where the leases they name stay.
LEMMA SameEntry ==
  ASSUME NEW s \in Server, NEW k \in Key, EntryOK(s, k, holders[s][k]), holders[s][k] # NoHolder,
         holders'[s][k] = holders[s][k], Same(holders[s][k].conn, k[2])
  PROVE  EntryOK(s, k, holders[s][k])'
BY DEF EntryOK, Same, IsOpen, LeaseOn

\* The entry of one database changes to h, and perhaps a callback is started.
Registers(s, key, h) ==
  /\ holders' = [holders EXCEPT ![s][key] = h]
  /\ \/ pushes' = pushes
     \/ /\ holders[s][key] # NoHolder
        /\ \E e \in Nat : pushes' = pushes \cup {[conn |-> holders[s][key].conn, dbid |-> key[2], epoch |-> e]}

\* A change of one entry keeps the registry if the new entry is good.
LEMMA RegistersOK ==
  ASSUME RegistryOK, Keeps, NEW s \in Server, NEW key \in Key, NEW h \in Holder \cup {NoHolder},
         Registers(s, key, h), EntryOK(s, key, h)
  PROVE  RegistryOK'
<1>1. holders' \in [Server -> [Key -> Holder \cup {NoHolder}]]
  BY DEF RegistryOK, RegistryType, Registers
<1>2. pushes' \subseteq Push
  <2>1. holders[s][key] # NoHolder => holders[s][key].conn \in Conn /\ key[2] \in DBID
    BY KeyParts DEF RegistryOK, EntryInv, EntryOK
  <2>2. \A e \in Nat : holders[s][key] # NoHolder =>
          [conn |-> holders[s][key].conn, dbid |-> key[2], epoch |-> e] \in Push
    BY <2>1 DEF Push
  <2> QED
    BY SMTT(60), <2>2 DEF RegistryOK, RegistryType, Registers
<1>3. ASSUME NEW r \in Server, NEW k \in Key PROVE EntryOK(r, k, holders[r][k])'
  <2>1. holders'[r][k] = IF <<r, k>> = <<s, key>> THEN h ELSE holders[r][k]
    BY DEF RegistryOK, RegistryType, Registers
  <2>2. EntryOK(r, k, holders[r][k])
    BY DEF RegistryOK, EntryInv
  <2>3. CASE <<r, k>> = <<s, key>>
    <3>1. h # NoHolder => Same(h.conn, k[2])
      BY <2>3, KeyParts DEF EntryOK, Keeps
    <3> QED
      BY <2>1, <2>3, <3>1 DEF EntryOK, Same, IsOpen, LeaseOn
  <2>4. CASE <<r, k>> # <<s, key>>
    <3>1. CASE holders[r][k] = NoHolder
      BY <2>1, <2>4, <3>1 DEF EntryOK, NoHolder
    <3>2. CASE holders[r][k] # NoHolder
      <4>1. Same(holders[r][k].conn, k[2])
        BY <2>2, <3>2, KeyParts DEF EntryOK, Keeps
      <4> QED
        BY <2>1, <2>2, <2>4, <3>2, <4>1, SameEntry
    <3> QED
      BY <3>1, <3>2
  <2> QED
    BY <2>3, <2>4
<1> QED
  BY <1>1, <1>2, <1>3 DEF RegistryOK, RegistryType, EntryInv

\* Steps that leave the registries alone.
LEMMA QuietRegistryOK ==
  ASSUME RegistryOK, holders' = holders, pushes' \subseteq pushes,
         \A x \in Conn, d \in DBID : IsOpen(x, d) => Same(x, d)
  PROVE  RegistryOK'
<1>1. ASSUME NEW s \in Server, NEW k \in Key PROVE EntryOK(s, k, holders[s][k])'
  <2>1. EntryOK(s, k, holders[s][k])
    BY DEF RegistryOK, EntryInv
  <2>2. CASE holders[s][k] = NoHolder
    BY <2>2 DEF EntryOK, NoHolder
  <2>3. CASE holders[s][k] # NoHolder
    BY <2>1, <2>3, KeyParts, SameEntry DEF EntryOK
  <2> QED
    BY <2>2, <2>3
<1> QED
  BY <1>1 DEF RegistryOK, RegistryType, EntryInv

\* remove, for the databases K that connection c closes.
LEMMA WithoutOK ==
  ASSUME RegistryOK, NEW c \in Conn, NEW K, holders' = HoldersWithout(c, K), pushes' = pushes,
         \A x \in Conn, d \in DBID :
           IsOpen(x, d) => Same(x, d) \/ (x = c /\ KeyOf(c, d) \in K)
  PROVE  RegistryOK'
<1>1. ServerOf[c] \in Server
  BY ProtocolAssumption
<1>2. \A s \in Server, k \in Key :
        holders'[s][k] = IF s = ServerOf[c] /\ k \in K /\ holders[s][k].conn = c
                         THEN NoHolder ELSE holders[s][k]
  BY <1>1 DEF RegistryOK, RegistryType, HoldersWithout
<1>3. holders' \in [Server -> [Key -> Holder \cup {NoHolder}]]
  BY <1>1 DEF RegistryOK, RegistryType, HoldersWithout
<1>4. ASSUME NEW s \in Server, NEW k \in Key PROVE EntryOK(s, k, holders[s][k])'
  <2>1. EntryOK(s, k, holders[s][k])
    BY DEF RegistryOK, EntryInv
  <2>2. CASE holders'[s][k] = NoHolder
    BY <2>2 DEF EntryOK, NoHolder
  <2>3. CASE holders'[s][k] # NoHolder
    <3>1. holders'[s][k] = holders[s][k] /\ holders[s][k] # NoHolder
      BY <1>2, <2>3
    <3>2. /\ holders[s][k].conn \in Conn /\ ServerOf[holders[s][k].conn] = s
          /\ IsOpen(holders[s][k].conn, k[2]) /\ KeyOf(holders[s][k].conn, k[2]) = k /\ k[2] \in DBID
      BY <2>1, <3>1, KeyParts DEF EntryOK
    <3>3. Same(holders[s][k].conn, k[2])
      BY SMTT(60), <1>2, <2>3, <3>1, <3>2
    <3> QED
      BY <2>1, <3>1, <3>3, SameEntry
  <2> QED
    BY <2>2, <2>3
<1> QED
  BY <1>3, <1>4 DEF RegistryOK, RegistryType, EntryInv

\* The steps that change entries one by one, and what each leaves in the registry of its server.
LEMMA SetRegisters ==
  ASSUME RegistryOK, ConnsOK, NEW c \in Conn, OpenSet(c)
  PROVE  LET d == conns[c].todo.dbid
             h == [conn |-> c, epoch |-> conns[c].todo.epoch] IN
         /\ d \in DBID /\ h \in Holder
         /\ Registers(ServerOf[c], KeyOf(c, d), h)
         /\ EntryOK(ServerOf[c], KeyOf(c, d), h)
<1> DEFINE todo == conns[c].todo
           d == todo.dbid
           h == [conn |-> c, epoch |-> todo.epoch]
<1>1. todo \in Todo /\ todo.op = "set" /\ TodoOK(conns[c].dbs, todo, Nows)
  BY DEF OpenSet, ConnsOK, ConnState, ConnInv
<1>2. d \in DBID /\ todo.epoch \in Nat /\ IsOpen(c, d) /\ LeaseOn(c, d).epoch = todo.epoch
  BY <1>1, TodoKinds DEF TodoOK, IsOpen, LeaseOn
<1>3. h \in Holder
  BY <1>2 DEF Holder
<1>4. Registers(ServerOf[c], KeyOf(c, d), h)
  BY <1>2 DEF OpenSet, HolderSet, Registers
<1>5. EntryOK(ServerOf[c], KeyOf(c, d), h)
  BY <1>2 DEF EntryOK, KeyOf
<1> QED
  BY <1>2, <1>3, <1>4, <1>5

\* The deletion handler takes out one entry and pushes to its holder.
LEMMA RevokeRegisters ==
  ASSUME ConnsOK, NEW c \in Conn, DeleteRevoke(c)
  PROVE  /\ conns[c].todo.dbid \in DBID
         /\ Registers(ServerOf[c], KeyOf(c, conns[c].todo.dbid), NoHolder)
<1>1. conns[c].todo.dbid \in DBID /\ conns[c].todo.epoch \in Nat
  BY TodoKinds DEF DeleteRevoke, ConnsOK, ConnState
<1> QED
  BY <1>1 DEF DeleteRevoke, HolderRevoke, Registers

\* The slot handlers take out one entry at a time.
LEMMA PurgeRegisters ==
  ASSUME RegistryOK, NEW c \in Conn, NEW key \in Key, HolderPurge(c, key)
  PROVE  Registers(ServerOf[c], key, NoHolder)
<1>1. ServerOf[c] \in Server
  BY ProtocolAssumption
<1>2. holders[ServerOf[c]][key] # NoHolder => holders[ServerOf[c]][key].epoch + 1 \in Nat
  BY SMTT(60), <1>1 DEF RegistryOK, RegistryType, Holder
<1> QED
  BY <1>2 DEF HolderPurge, Registers

\* No entry is a good entry.
LEMMA NoEntryOK == ASSUME NEW s, NEW k PROVE EntryOK(s, k, NoHolder)
BY DEF EntryOK

\* Only the steps that set or take out an entry change a registry or start a push.
LEMMA RegistryRests ==
  ASSUME ProtocolNext,
         \A c \in Conn : /\ ~OpenSet(c) /\ ~DeleteRevoke(c) /\ ~PurgeHolder(c)
                         /\ ~CloseRemove(c) /\ ~End(c)
  PROVE  holders' = holders /\ pushes' \subseteq pushes
<1>1. ASSUME NEW c \in Conn, Connect(c) \/ Ping(c) \/ PingRenew(c) \/ FetchRange(c) \/ FetchSend(c)
      PROVE  registryUnchanged
  BY <1>1 DEF Connect, Ping, PingRenew, FetchRange, FetchSend
<1>2. ASSUME NEW c \in Conn, ClaimCall(c) \/ DeleteSlotCall(c) \/ SetLabel(c)
      PROVE  registryUnchanged
  BY <1>2 DEF ClaimCall, DeleteSlotCall, SetLabel
<1>3. ASSUME NEW c \in Conn, NEW d \in DBID, OpenCall(c, d) \/ CommitCall(c, d) \/ FetchStart(c, d)
      PROVE  registryUnchanged
  BY <1>3 DEF OpenCall, CommitCall, FetchStart
<1>4. ASSUME NEW c \in Conn, NEW d \in DBID, CloseCall(c, d) \/ DeleteCall(c, d)
      PROVE  registryUnchanged
  BY <1>4 DEF CloseCall, DeleteCall
<1>5. ASSUME NEW p \in pushes, Deliver(p) PROVE holders' = holders /\ pushes' \subseteq pushes
  BY <1>5 DEF Deliver
<1>6. registryUnchanged \/ \E p \in pushes : Deliver(p)
  BY <1>1, <1>2, <1>3, <1>4 DEF ProtocolNext
<1> QED
  BY <1>5, <1>6 DEF registryUnchanged

\* Every step of the handlers keeps the entries good.
LEMMA RegistryStep ==
  ASSUME StoreTypeOK, ConnsOK, RegistryOK, ProtocolNext
  PROVE  RegistryOK'
<1>0. \A c \in Conn : ServerOf[c] \in Server
  BY ProtocolAssumption
<1>1. ASSUME NEW c \in Conn, OpenSet(c) \/ DeleteRevoke(c) \/ PurgeHolder(c) PROVE Keeps
  <2>1. \E t : conns' = [conns EXCEPT ![c].todo = t]
    BY <1>1 DEF OpenSet, DeleteRevoke, PurgeHolder
  <2> QED
    BY <2>1, TodoKeeps
<1>2. ASSUME NEW c \in Conn, OpenSet(c) PROVE RegistryOK'
  BY <1>0, <1>1, <1>2, SetRegisters, RegistersOK, KeyOfType
<1>3. ASSUME NEW c \in Conn, DeleteRevoke(c) PROVE RegistryOK'
  BY <1>0, <1>1, <1>3, RevokeRegisters, RegistersOK, KeyOfType, NoEntryOK
<1>4. ASSUME NEW c \in Conn, PurgeHolder(c) PROVE RegistryOK'
  <2>1. CASE UNCHANGED <<holders, pushes>>
    BY <1>1, <1>4, <2>1, QuietRegistryOK DEF Keeps
  <2>2. ASSUME NEW key \in conns[c].todo.keys, HolderPurge(c, key) PROVE RegistryOK'
    <3>1. key \in Key
      BY <1>4, <2>2, TodoKinds DEF PurgeHolder, ConnsOK, ConnState
    <3> QED
      BY <1>0, <1>1, <1>4, <2>2, <3>1, PurgeRegisters, RegistersOK, NoEntryOK
  <2> QED
    BY <1>4, <2>1, <2>2 DEF PurgeHolder
<1>5. ASSUME NEW c \in Conn, CloseRemove(c) PROVE RegistryOK'
  <2> DEFINE d == conns[c].todo.dbid
  <2>1. holders' = HoldersWithout(c, {KeyOf(c, d)}) /\ pushes' = pushes
    BY <1>5 DEF CloseRemove
  <2>2. \A x \in Conn, e \in DBID : Same(x, e) \/ (x = c /\ KeyOf(c, e) \in {KeyOf(c, d)})
    BY <1>5, CloseCloses
  <2> QED
    BY <2>1, <2>2, WithoutOK
<1>6. ASSUME NEW c \in Conn, End(c) PROVE RegistryOK'
  <2> DEFINE K == {KeyOf(c, d) : d \in {e \in DBID : IsOpen(c, e)}}
  <2>1. holders' = HoldersWithout(c, K) /\ pushes' = pushes
    BY <1>6 DEF End
  <2>2. \A x \in Conn, e \in DBID : IsOpen(x, e) => Same(x, e) \/ (x = c /\ KeyOf(c, e) \in K)
    BY <1>6, EndCloses
  <2> HIDE DEF K
  <2> QED
    BY <2>1, <2>2, WithoutOK
<1>7. ASSUME NEW c \in Conn, NEW d \in DBID, OpenCall(c, d) PROVE RegistryOK'
  <2>1. ~IsOpen(c, d) /\ UNCHANGED <<holders, pushes>>
    BY <1>7 DEF OpenCall, registryUnchanged
  <2>2. \A x \in Conn, e \in DBID : IsOpen(x, e) => Same(x, e)
    BY <1>7, <2>1, OpenOpens
  <2> QED
    BY <2>1, <2>2, QuietRegistryOK
<1>8. ASSUME \A c \in Conn : /\ ~CloseRemove(c) /\ ~End(c) /\ ~OpenSet(c) /\ ~DeleteRevoke(c)
                             /\ ~PurgeHolder(c) /\ \A d \in DBID : ~OpenCall(c, d)
      PROVE  RegistryOK'
  <2>1. Keeps
    BY <1>8, OthersKeep
  <2>2. holders' = holders /\ pushes' \subseteq pushes
    BY <1>8, RegistryRests
  <2> QED
    BY <2>1, <2>2, QuietRegistryOK DEF Keeps
<1> QED
  BY <1>2, <1>3, <1>4, <1>5, <1>6, <1>7, <1>8

\* The invariant of the registries, with those of the store and the connections.
THEOREM RegistryInvariant ==
  ProtocolSpec => [](StoreTypeOK /\ StoreInv /\ ConnsOK /\ RegistryOK)
<1>1. ProtocolInit => RegistryOK
  BY SMTT(60) DEF ProtocolInit, RegistryOK, RegistryType, EntryInv, EntryOK
<1>2. StoreTypeOK /\ ConnsOK /\ RegistryOK /\ [ProtocolNext]_protocolVars => RegistryOK'
  <2> SUFFICES ASSUME StoreTypeOK, ConnsOK, RegistryOK, [ProtocolNext]_protocolVars PROVE RegistryOK'
    OBVIOUS
  <2>1. CASE UNCHANGED protocolVars
    BY <2>1, QuietRegistryOK DEF protocolVars, Same, IsOpen, LeaseOn
  <2> QED
    BY <2>1, RegistryStep
<1> QED
  BY <1>1, <1>2, ProtocolInvariant, PTL DEF ProtocolSpec

\* Connections, the handlers they are in, registries and callbacks have their types.
THEOREM ProtocolTypeCorrect == ProtocolSpec => []ProtocolTypeOK
<1>1. StoreTypeOK /\ ConnsOK /\ RegistryOK => ProtocolTypeOK
  BY DEF ConnsOK, ConnState, RegistryOK, RegistryType, ProtocolTypeOK
<1> QED
  BY <1>1, RegistryInvariant, PTL

(***************************************************************************)
(* No registry keeps an entry of a connection that ended or of a database  *)
(* that is closed, and entries have the epoch of the open lease (the       *)
(* callers of holders.set, remove, revoke and purge).                      *)
(***************************************************************************)
THEOREM EntriesStayLive == ProtocolSpec => []EntriesAreLive
<1>1. ConnsOK /\ RegistryOK => EntriesAreLive
  <2> SUFFICES ASSUME ConnsOK, RegistryOK, NEW s \in Server, NEW k \in Key, holders[s][k] # NoHolder
               PROVE  LET c == holders[s][k].conn IN
                      /\ ServerOf[c] = s /\ conns[c].state = "up" /\ SubjectOf[c] = k[1]
                      /\ IsOpen(c, k[2]) /\ LeaseOn(c, k[2]).epoch = holders[s][k].epoch
    BY DEF EntriesAreLive
  <2>1. EntryOK(s, k, holders[s][k]) /\ k[2] \in DBID
    BY KeyParts DEF RegistryOK, EntryInv
  <2> QED
    BY <2>1, OpenIsLease DEF EntryOK
<1> QED
  BY <1>1, RegistryInvariant, PTL

-----------------------------------------------------------------------------
(* LeaseRevoked *)

\* The database has passed epoch e, or was purged.
Past(key, e) == life[key] > 0 \/ e <= dbs[key].epoch

(***************************************************************************)
(* The inductive invariant behind RevokedIsLost, for clients that open     *)
(* nothing with a key whose databases were purged: every epoch that a      *)
(* callback carries, or a handler will give to one, has been passed.       *)
(***************************************************************************)
FirstLife == \A c \in Conn, d \in DBID : IsOpen(c, d) => LeaseOn(c, d).life = 0
TodoPast(c, t) ==
  /\ t.op = "revoke" => Past(KeyOf(c, t.dbid), t.epoch)
  /\ t.op = "purge" => \A k \in t.keys : life[k] > 0
PushPast == \A p \in pushes : Past(KeyOf(p.conn, p.dbid), p.epoch)
PastInv == FirstLife /\ (\A c \in Conn : TodoPast(c, conns[c].todo)) /\ PushPast

\* A database that has passed an epoch stays past it.
LEMMA PastStays ==
  ASSUME StoreTypeOK, StoreTypeOK', StoreInv, [StoreNext]_vars, NEW k \in Key
  PROVE  /\ life[k] > 0 => life'[k] > 0
         /\ \A e \in Nat : Past(k, e) => life'[k] > 0 \/ e <= dbs'[k].epoch
<1>1. life'[k] \in {life[k], life[k] + 1}
  <2>1. ASSUME NEW key, NEW req, Grants(key, req) PROVE life'[k] = life[k]
    BY <2>1, GrantStep
  <2>2. ASSUME NEW req, NEW t, Applies(req, t) PROVE life'[k] = life[k]
    BY <2>2, ApplyStep
  <2> QED
    BY <2>1, <2>2, Effects DEF Quiet
<1>2. life[k] \in Nat /\ dbs[k].epoch \in Nat /\ dbs'[k].epoch \in Nat
  BY DEF StoreTypeOK, Database
<1>3. life'[k] = life[k] => dbs'[k].epoch >= dbs[k].epoch
  BY StepEffect, GrowthStep DEF Grows
<1> QED
  BY SMTT(60), <1>1, <1>2, <1>3 DEF Past

\* Without reuse of keys, every open database is in its first life.
LEMMA FirstLifeStep ==
  ASSUME StoreTypeOK, StoreInv, ConnsOK, FirstLife, KeyReuse = FALSE, ProtocolNext
  PROVE  FirstLife'
<1>1. ASSUME NEW x \in Conn, NEW e \in DBID, Same(x, e) \/ ~IsOpen(x, e)', IsOpen(x, e)'
      PROVE  LeaseOn(x, e)'.life = 0
  BY <1>1 DEF Same, FirstLife
<1>2. ASSUME NEW c \in Conn, NEW d \in DBID, OpenCall(c, d) PROVE LeaseOn(c, d)'.life = 0
  <2> DEFINE key == KeyOf(c, d)
  <2>1. key \in Key /\ life[key] = 0
    BY <1>2, KeyOfType DEF OpenCall
  <2>2. PICK l, n : /\ Opened(c, d, l, n)
                    /\ l = NewLease(key) \/ (l \in leases /\ l.key = key)
    BY <1>2 DEF OpenCall
  <2>3. l.life = 0
    <3>1. CASE l = NewLease(key)
      BY <2>1, <3>1 DEF NewLease
    <3>2. CASE l \in leases /\ l.key = key
      <4>1. l.life <= 0 /\ l.life \in Nat
        BY <2>1, <3>2 DEF StoreInv, StoreTypeOK, Lease
      <4> QED
        BY SMTT(60), <4>1
    <3> QED
      BY <2>2, <3>1, <3>2
  <2> DEFINE v == [lease |-> l, pageSize |-> dbs'[key].pageSize, renewed |-> n]
             t == [op |-> "set", dbid |-> d, epoch |-> l.epoch]
  <2>4. conns' = [conns EXCEPT ![c].dbs[d] = v, ![c].todo = t] /\ v.lease = l
    BY <2>2 DEF Opened
  <2> HIDE DEF v, t
  <2>5. LeaseOn(c, d)' = l
    BY <2>4 DEF LeaseOn, ConnsOK, ConnState
  <2> QED
    BY <2>3, <2>5
<1>3. ASSUME NEW x \in Conn, NEW e \in DBID, IsOpen(x, e)' PROVE LeaseOn(x, e)'.life = 0
  <2>1. CASE \E c \in Conn, d \in DBID : OpenCall(c, d)
    BY SMTT(60), <1>1, <1>2, <1>3, <2>1, OpenOpens
  <2>2. CASE \E c \in Conn : CloseRemove(c) \/ End(c)
    BY <1>1, <1>3, <2>2, CloseCloses, EndCloses
  <2>3. CASE \A c \in Conn : ~CloseRemove(c) /\ ~End(c) /\ \A d \in DBID : ~OpenCall(c, d)
    BY <1>1, <1>3, <2>3, OthersKeep DEF Keeps
  <2> QED
    BY <2>1, <2>2, <2>3
<1> QED
  BY <1>3 DEF FirstLife

\* The steps of the handlers of connection c.
HandlerStep(c) ==
  \/ Connect(c) \/ Ping(c) \/ PingRenew(c) \/ OpenSet(c) \/ CloseRemove(c) \/ DeleteRevoke(c)
  \/ ClaimCall(c) \/ DeleteSlotCall(c) \/ PurgeHolder(c) \/ FetchRange(c) \/ FetchSend(c) \/ End(c)
  \/ \E d \in DBID : \/ OpenCall(c, d) \/ CommitCall(c, d)
                     \/ CloseCall(c, d) \/ DeleteCall(c, d) \/ FetchStart(c, d)

\* A step leaves the connections, is one of connection x, or changes one other.
LEMMA OneConnection ==
  ASSUME ConnsOK, ProtocolNext, NEW x \in Conn
  PROVE  \/ UNCHANGED conns \/ HandlerStep(x)
         \/ \E c \in Conn \ {x} : conns' = [conns EXCEPT ![c] = conns'[c]]
<1> DEFINE One(c) == conns' = [conns EXCEPT ![c] = conns'[c]]
<1>1. ASSUME NEW c \in Conn, NEW v, conns' = [conns EXCEPT ![c] = v] PROVE One(c)
  BY <1>1 DEF ConnsOK
<1> HIDE DEF One
<1>2. ASSUME NEW c \in Conn, Connect(c) \/ Ping(c) \/ PingRenew(c) \/ FetchRange(c) \/ FetchSend(c) PROVE One(c)
  BY <1>1, <1>2 DEF Connect, Ping, PingRenew, FetchRange, FetchSend
<1>3. ASSUME NEW c \in Conn, OpenSet(c) \/ CloseRemove(c) \/ DeleteRevoke(c) \/ End(c) PROVE One(c)
  BY <1>1, <1>3 DEF OpenSet, CloseRemove, DeleteRevoke, End
<1>4. ASSUME NEW c \in Conn, ClaimCall(c) \/ DeleteSlotCall(c) \/ PurgeHolder(c) PROVE One(c)
  BY <1>1, <1>4 DEF ClaimCall, DeleteSlotCall, PurgeHolder
<1>5. ASSUME NEW c \in Conn, NEW d \in DBID, CommitCall(c, d) \/ FetchStart(c, d) PROVE One(c)
  BY <1>1, <1>5 DEF CommitCall, FetchStart
<1>6. ASSUME NEW c \in Conn, NEW d \in DBID, OpenCall(c, d) \/ CloseCall(c, d) \/ DeleteCall(c, d) PROVE One(c)
  BY <1>1, <1>6 DEF OpenCall, Opened, CloseCall, DeleteCall
<1>7. UNCHANGED conns \/ \E c \in Conn : HandlerStep(c)
  BY DEF ProtocolNext, HandlerStep, SetLabel, Deliver
<1>8. \A c \in Conn : HandlerStep(c) => One(c)
  BY <1>2, <1>3, <1>4, <1>5, <1>6 DEF HandlerStep
<1> QED
  BY <1>7, <1>8 DEF One

\* What a handler has left that will revoke or fetch, and since when.
LEMMA TodoNext ==
  ASSUME StoreTypeOK, ConnsOK, ProtocolNext, NEW x \in Conn
  PROVE  \/ conns'[x].todo = conns[x].todo
         \/ conns'[x].todo.op \notin {"revoke", "purge", "fetch"}
         \/ FetchRange(x) \/ \E d \in DBID : FetchStart(x, d)
         \/ \E d \in DBID : conns'[x].todo = [op |-> "revoke", dbid |-> d, epoch |-> dbs'[KeyOf(x, d)].epoch]
         \/ (ClaimCall(x) \/ DeleteSlotCall(x)) /\ conns'[x].todo = [op |-> "purge", keys |-> PurgedKeys]
         \/ /\ conns[x].todo.op = "purge"
            /\ \E K \in SUBSET conns[x].todo.keys : conns'[x].todo = [op |-> "purge", keys |-> K]
<1> DEFINE Goal == \/ conns'[x].todo = conns[x].todo
                   \/ conns'[x].todo.op \notin {"revoke", "purge", "fetch"}
                   \/ FetchRange(x) \/ \E d \in DBID : FetchStart(x, d)
                   \/ \E d \in DBID : conns'[x].todo = [op |-> "revoke", dbid |-> d, epoch |-> dbs'[KeyOf(x, d)].epoch]
                   \/ (ClaimCall(x) \/ DeleteSlotCall(x)) /\ conns'[x].todo = [op |-> "purge", keys |-> PurgedKeys]
                   \/ /\ conns[x].todo.op = "purge"
                      /\ \E K \in SUBSET conns[x].todo.keys : conns'[x].todo = [op |-> "purge", keys |-> K]
<1> SUFFICES Goal
  OBVIOUS
<1>1. conns[x].todo \in Todo /\ \A t : conns' = [conns EXCEPT ![x].todo = t] => conns'[x].todo = t
  BY DEF ConnsOK, ConnState
<1>2. CASE OpenSet(x) \/ DeleteRevoke(x) \/ FetchSend(x)
  BY <1>1, <1>2, IdleKind DEF OpenSet, DeleteRevoke, FetchSend
<1>3. CASE CloseRemove(x)
  <2>1. conns'[x].todo = Idle
    BY <1>3 DEF CloseRemove, ConnsOK, ConnState
  <2> QED
    BY <2>1, IdleKind
<1>4. CASE Connect(x) \/ End(x)
  BY <1>4 DEF Connect, End, ConnsOK, ConnState
<1>5. ASSUME NEW d \in DBID, CommitCall(x, d) PROVE Goal
  <2>1. PICK t : conns' = [conns EXCEPT ![x].dbs[d].renewed = t]
    BY <1>5 DEF CommitCall
  <2> QED
    BY <2>1 DEF ConnsOK, ConnState
<1>6. ASSUME NEW d \in DBID, OpenCall(x, d) PROVE Goal
  <2>1. PICK l, n : Opened(x, d, l, n)
    BY <1>6 DEF OpenCall
  <2> DEFINE t == [op |-> "set", dbid |-> d, epoch |-> l.epoch]
  <2>2. \E v : conns' = [conns EXCEPT ![x].dbs[d] = v, ![x].todo = t]
    BY <2>1 DEF Opened
  <2>3. t.op = "set"
    OBVIOUS
  <2> HIDE DEF t
  <2>4. conns'[x].todo = t
    BY <2>2 DEF ConnsOK, ConnState
  <2> QED
    BY <2>3, <2>4
<1>7. CASE Ping(x)
  <2>1. PICK n, D : conns' = [conns EXCEPT ![x].todo = [op |-> "ping", now |-> n, due |-> D]]
    BY <1>7 DEF Ping
  <2> QED
    BY SMTT(60), <1>1, <2>1
<1>8. CASE PingRenew(x)
  <2>1. PICK d, n, t :
          /\ \/ conns' = [conns EXCEPT ![x].dbs[d].renewed = n, ![x].todo = t]
             \/ conns' = [conns EXCEPT ![x].todo = t]
          /\ t \in {Idle, [op |-> "ping", now |-> conns[x].todo.now, due |-> conns[x].todo.due \ {d}]}
    BY <1>8 DEF PingRenew
  <2>2. conns'[x].todo = t
    BY <2>1 DEF ConnsOK, ConnState
  <2> QED
    BY SMTT(60), <2>1, <2>2, IdleKind
<1>9. ASSUME NEW d \in DBID, CloseCall(x, d) PROVE Goal
  BY SMTT(60), <1>1, <1>9 DEF CloseCall
<1>10. ASSUME NEW d \in DBID, DeleteCall(x, d) PROVE Goal
  BY <1>1, <1>10 DEF DeleteCall
<1>11. CASE ClaimCall(x) \/ DeleteSlotCall(x)
  BY <1>1, <1>11 DEF ClaimCall, DeleteSlotCall
<1>12. CASE PurgeHolder(x)
  <2>1. CASE conns' = [conns EXCEPT ![x].todo = Idle]
    BY <1>1, <2>1, IdleKind
  <2>2. CASE \E key : conns' = [conns EXCEPT ![x].todo = [op |-> "purge", keys |-> conns[x].todo.keys \ {key}]]
    BY <1>1, <1>12, <2>2 DEF PurgeHolder
  <2> QED
    BY <1>12, <2>1, <2>2 DEF PurgeHolder
<1>13. CASE FetchRange(x)
  BY <1>13
<1>14. ASSUME NEW d \in DBID, FetchStart(x, d) PROVE Goal
  BY <1>14
<1>15. CASE UNCHANGED conns
  BY <1>15
<1>16. CASE \E c \in Conn \ {x} : conns' = [conns EXCEPT ![c] = conns'[c]]
  BY <1>16 DEF ConnsOK
<1> HIDE DEF Goal
<1>17. ASSUME NEW d \in DBID, \/ OpenCall(x, d) \/ CommitCall(x, d)
                               \/ CloseCall(x, d) \/ DeleteCall(x, d) \/ FetchStart(x, d)
       PROVE  Goal
  BY <1>5, <1>6, <1>9, <1>10, <1>14, <1>17
<1>18. CASE HandlerStep(x)
  BY <1>2, <1>3, <1>4, <1>7, <1>8, <1>11, <1>12, <1>13, <1>17, <1>18 DEF HandlerStep
<1> QED
  BY OneConnection, <1>15, <1>16, <1>18

\* A Fetch goes on with the next range, or ends.
LEMMA FetchStarts ==
  ASSUME ConnsOK, NEW x \in Conn, NEW d \in DBID, FetchStart(x, d)
  PROVE  /\ UNCHANGED vars
         /\ \E ranges \in FetchRanges, version \in 0 .. MaxVersion :
              /\ Disjoint(ranges)
              /\ conns'[x].todo = FetchNext(x, d, [op |-> "fetch", dbid |-> d, version |-> version,
                                                   ranges |-> ranges, runs |-> <<>>])
<1>1. \A t : conns' = [conns EXCEPT ![x].todo = t] => conns'[x].todo = t
  BY DEF ConnsOK, ConnState
<1> QED
  BY <1>1 DEF FetchStart, storeUnchanged

\* Going on with a Fetch.
LEMMA FetchContinues ==
  ASSUME ConnsOK, NEW x \in Conn, FetchRange(x)
  PROVE  /\ UNCHANGED vars /\ conns[x].todo.op = "fetch" /\ conns[x].todo.ranges # <<>>
         /\ conns'[x].todo = FetchNext(x, conns[x].todo.dbid, conns[x].todo)
<1>1. \A t : conns' = [conns EXCEPT ![x].todo = t] => conns'[x].todo = t
  BY DEF ConnsOK, ConnState
<1> QED
  BY <1>1 DEF FetchRange, storeUnchanged

\* The databases a claim or the deletion of a slot removes have been purged.
LEMMA PurgedPast ==
  ASSUME StoreTypeOK, NEW c \in Conn, ClaimCall(c) \/ DeleteSlotCall(c)
  PROVE  \A k \in PurgedKeys : life'[k] > 0
<1>1. PICK K : Purge(K)
  BY DEF ClaimCall, DeleteSlotCall, ClaimSlot, DeleteSlot
<1> QED
  <2> TAKE k \in PurgedKeys
  <2>1. k \in Key /\ dbs[k].status = "live" /\ dbs'[k].status = "missing"
    BY DEF PurgedKeys
  <2>2. k \in K
    BY <1>1, <2>1 DEF Purge
  <2>3. life'[k] = life[k] + 1 /\ life[k] \in Nat
    BY <1>1, <2>1, <2>2 DEF Purge, StoreTypeOK
  <2> QED
    BY <2>3, NatOrder

\* What a handler has yet to revoke is past its epoch.
LEMMA TodoPastStep ==
  ASSUME StoreTypeOK, StoreTypeOK', StoreInv, ConnsOK, ConnsOK', ProtocolNext, [StoreNext]_vars,
         NEW x \in Conn, TodoPast(x, conns[x].todo)
  PROVE  TodoPast(x, conns[x].todo)'
<1>0. PICK t : t = conns'[x].todo
  OBVIOUS
<1>a. \/ t = conns[x].todo \/ t.op \notin {"revoke", "purge"}
      \/ \E d \in DBID : t = [op |-> "revoke", dbid |-> d, epoch |-> dbs'[KeyOf(x, d)].epoch]
      \/ (ClaimCall(x) \/ DeleteSlotCall(x)) /\ t = [op |-> "purge", keys |-> PurgedKeys]
      \/ /\ conns[x].todo.op = "purge"
         /\ \E K \in SUBSET conns[x].todo.keys : t = [op |-> "purge", keys |-> K]
  <2>1. CASE FetchRange(x) \/ \E d \in DBID : FetchStart(x, d)
    <3>1. PICK d, u : t = FetchNext(x, d, u)
      BY <1>0, <2>1, FetchStarts, FetchContinues
    <3> QED
      BY <3>1, IdleKind DEF FetchNext
  <2> QED
    BY <1>0, <2>1, TodoNext
<1>1. t \in Todo /\ conns[x].todo \in Todo
  BY <1>0 DEF ConnsOK, ConnState
<1>2. ASSUME t.op = "revoke" PROVE life'[KeyOf(x, t.dbid)] > 0 \/ t.epoch <= dbs'[KeyOf(x, t.dbid)].epoch
  <2>1. t.dbid \in DBID /\ t.epoch \in Nat /\ KeyOf(x, t.dbid) \in Key
    BY <1>1, <1>2, TodoKinds, KeyOfType
  <2>2. CASE t = conns[x].todo
    BY <1>2, <2>1, <2>2, PastStays DEF TodoPast
  <2>3. CASE \E d \in DBID : t = [op |-> "revoke", dbid |-> d, epoch |-> dbs'[KeyOf(x, d)].epoch]
    <3>1. PICK d \in DBID : t = [op |-> "revoke", dbid |-> d, epoch |-> dbs'[KeyOf(x, d)].epoch]
      BY <2>3
    <3>2. t.epoch = dbs'[KeyOf(x, t.dbid)].epoch
      BY <3>1, RevokeFields
    <3> QED
      BY <2>1, <3>2, NatOrder
  <2>4. \A K : t # [op |-> "purge", keys |-> K]
    BY <1>2, PurgeFields
  <2> QED
    BY <1>2, <1>a, <2>2, <2>3, <2>4
<1>3. ASSUME t.op = "purge", NEW k \in t.keys PROVE life'[k] > 0
  <2>1. k \in Key
    BY <1>1, <1>3, TodoKinds
  <2>2. CASE t = conns[x].todo
    BY <1>3, <2>1, <2>2, PastStays DEF TodoPast
  <2>3. CASE (ClaimCall(x) \/ DeleteSlotCall(x)) /\ t = [op |-> "purge", keys |-> PurgedKeys]
    BY <1>3, <2>3, PurgedPast
  <2>4. CASE /\ conns[x].todo.op = "purge"
             /\ \E K \in SUBSET conns[x].todo.keys : t = [op |-> "purge", keys |-> K]
    <3>1. PICK K \in SUBSET conns[x].todo.keys : t = [op |-> "purge", keys |-> K]
      BY <2>4
    <3>2. k \in conns[x].todo.keys
      BY <1>3, <3>1, PurgeFields
    <3>3. life[k] > 0
      BY <2>4, <3>2 DEF TodoPast
    <3> QED
      BY <2>1, <3>3, PastStays
  <2>5. \A d, e : t # [op |-> "revoke", dbid |-> d, epoch |-> e]
    BY <1>3, RevokeFields
  <2> QED
    BY <1>3, <1>a, <2>2, <2>3, <2>4, <2>5
<1> QED
  BY <1>0, <1>2, <1>3 DEF TodoPast, Past, KeyOf

\* Only the steps that set or take out an entry start a push.
LEMMA PushSteps ==
  ASSUME ProtocolNext, \A c \in Conn : ~OpenSet(c) /\ ~DeleteRevoke(c) /\ ~PurgeHolder(c)
  PROVE  pushes' \subseteq pushes
<1>1. ASSUME NEW c \in Conn, CloseRemove(c) \/ End(c) PROVE pushes' = pushes
  BY <1>1 DEF CloseRemove, End
<1> QED
  BY <1>1, RegistryRests

\* A callback is started for the holder of a database that has passed the epoch it carries.
LEMMA NewPush ==
  ASSUME StoreTypeOK, StoreInv, ConnsOK, RegistryOK, PastInv, ProtocolNext, NEW p \in pushes', p \notin pushes
  PROVE  Past(KeyOf(p.conn, p.dbid), p.epoch) /\ UNCHANGED vars
<1>1. ASSUME NEW c \in Conn, NEW key \in Key, NEW e, Past(key, e),
             holders[ServerOf[c]][key] # NoHolder,
             pushes' = pushes \cup {[conn |-> holders[ServerOf[c]][key].conn, dbid |-> key[2], epoch |-> e]}
      PROVE  Past(KeyOf(p.conn, p.dbid), p.epoch)
  <2>1. p = [conn |-> holders[ServerOf[c]][key].conn, dbid |-> key[2], epoch |-> e]
    BY <1>1
  <2>2. EntryOK(ServerOf[c], key, holders[ServerOf[c]][key])
    BY ProtocolAssumption DEF RegistryOK, EntryInv
  <2>3. KeyOf(p.conn, p.dbid) = key
    BY <1>1, <2>1, <2>2, KeyParts DEF EntryOK
  <2> QED
    BY <1>1, <2>1, <2>3
<1>2. \A c \in Conn : conns[c].todo \in Todo /\ TodoOK(conns[c].dbs, conns[c].todo, Nows)
  BY DEF ConnsOK, ConnState, ConnInv
<1>3. ASSUME NEW c \in Conn, OpenSet(c) PROVE Past(KeyOf(p.conn, p.dbid), p.epoch) /\ UNCHANGED vars
  <2> DEFINE d == conns[c].todo.dbid
             e == conns[c].todo.epoch
             l == LeaseOn(c, d)
  <2>1. d \in DBID /\ IsOpen(c, d) /\ l.epoch = e
    BY <1>2, <1>3, TodoKinds DEF OpenSet, TodoOK, IsOpen, LeaseOn
  <2>2. l \in leases /\ l.key = KeyOf(c, d) /\ l.life = 0 /\ KeyOf(c, d) \in Key
    BY <2>1, OpenIsLease, KeyOfType DEF PastInv, FirstLife
  <2>3. Past(KeyOf(c, d), e)
    <3>1. l.life = life[l.key] => l.epoch <= dbs[l.key].epoch
      BY <2>2 DEF StoreInv
    <3>2. life[KeyOf(c, d)] \in Nat
      BY <2>2 DEF StoreTypeOK
    <3> QED
      BY <2>1, <2>2, <3>1, <3>2, NatOrder DEF Past
  <2> QED
    BY <1>1, <1>3, <2>2, <2>3 DEF OpenSet, HolderSet, storeUnchanged
<1>4. ASSUME NEW c \in Conn, DeleteRevoke(c) PROVE Past(KeyOf(p.conn, p.dbid), p.epoch) /\ UNCHANGED vars
  <2> DEFINE key == KeyOf(c, conns[c].todo.dbid)
             e == conns[c].todo.epoch
  <2>1. key \in Key
    BY <1>2, <1>4, TodoKinds, KeyOfType DEF DeleteRevoke
  <2>2. Past(key, e)
    BY <1>4 DEF DeleteRevoke, PastInv, TodoPast
  <2> QED
    BY <1>1, <1>4, <2>1, <2>2 DEF DeleteRevoke, HolderRevoke, storeUnchanged
<1>5. ASSUME NEW c \in Conn, PurgeHolder(c) PROVE Past(KeyOf(p.conn, p.dbid), p.epoch) /\ UNCHANGED vars
  <2>1. PICK key \in conns[c].todo.keys : HolderPurge(c, key)
    BY <1>5 DEF PurgeHolder
  <2>2. key \in Key
    BY <1>2, <1>5, TodoKinds DEF PurgeHolder
  <2>3. \A e : Past(key, e)
    BY <1>5 DEF PurgeHolder, PastInv, TodoPast, Past
  <2> QED
    BY <1>1, <1>5, <2>1, <2>2, <2>3 DEF PurgeHolder, HolderPurge, storeUnchanged
<1>6. CASE pushes' \subseteq pushes
  BY <1>6
<1> QED
  BY <1>3, <1>4, <1>5, <1>6, PushSteps

\* Every step keeps what is past.
LEMMA PastStep ==
  ASSUME StoreTypeOK, StoreInv, ConnsOK, ConnsOK', RegistryOK, PastInv, KeyReuse = FALSE, ProtocolNext
  PROVE  PastInv'
<1>1. [StoreNext]_vars
  BY ProtocolStep DEF StepOK
<1>2. StoreTypeOK'
  BY <1>1, StoreTypeStep
<1>3. FirstLife'
  BY FirstLifeStep DEF PastInv
<1>4. \A c \in Conn : TodoPast(c, conns[c].todo)'
  BY <1>1, <1>2, TodoPastStep DEF PastInv
<1>5. ASSUME NEW p \in pushes' PROVE Past(KeyOf(p.conn, p.dbid), p.epoch)'
  <2>1. CASE p \in pushes
    <3>1. p.conn \in Conn /\ p.dbid \in DBID /\ p.epoch \in Nat
      BY <2>1 DEF RegistryOK, RegistryType, Push
    <3>2. Past(KeyOf(p.conn, p.dbid), p.epoch) /\ KeyOf(p.conn, p.dbid) \in Key
      BY <2>1, <3>1, KeyOfType DEF PastInv, PushPast
    <3> QED
      BY <1>1, <1>2, <3>1, <3>2, PastStays DEF Past, KeyOf
  <2>2. CASE p \notin pushes
    BY <2>2, NewPush DEF Past, KeyOf, vars
  <2> QED
    BY <2>1, <2>2
<1> QED
  BY <1>3, <1>4, <1>5 DEF PastInv, PushPast

(***************************************************************************)
(* LeaseRevoked talks no client out of a lease that is still good, in any  *)
(* order of callbacks, handlers and answers, as long as clients open       *)
(* nothing with a key whose databases were purged (holders.set, revoke and *)
(* purge, and the handlers that call them).                                *)
(***************************************************************************)
THEOREM RevokedLeasesAreLost ==
  ASSUME KeyReuse = FALSE
  PROVE  ProtocolSpec => []RevokedIsLost
<1>1. ProtocolInit => PastInv
  <2> SUFFICES ASSUME ProtocolInit PROVE PastInv
    OBVIOUS
  <2>1. \A c \in Conn : conns[c].todo = Idle /\ \A d \in DBID : conns[c].dbs[d] = None
    BY DEF ProtocolInit
  <2> QED
    BY <2>1, IdleKind DEF ProtocolInit, PastInv, FirstLife, TodoPast, PushPast, IsOpen
<1>2. StoreTypeOK /\ StoreInv /\ ConnsOK /\ ConnsOK' /\ RegistryOK /\ PastInv /\ [ProtocolNext]_protocolVars => PastInv'
  <2> SUFFICES ASSUME StoreTypeOK, StoreInv, ConnsOK, ConnsOK', RegistryOK, PastInv, [ProtocolNext]_protocolVars
               PROVE  PastInv'
    OBVIOUS
  <2>1. CASE UNCHANGED protocolVars
    BY <2>1 DEF protocolVars, vars, PastInv, FirstLife, TodoPast, PushPast, Past, KeyOf, IsOpen, LeaseOn
  <2> QED
    BY <2>1, PastStep
<1>3. StoreTypeOK /\ RegistryOK /\ PastInv => RevokedIsLost
  <2> SUFFICES ASSUME StoreTypeOK, RegistryOK, PastInv, NEW p \in pushes, IsOpen(p.conn, p.dbid),
                      LeaseOn(p.conn, p.dbid).epoch < p.epoch,
                      LeaseOn(p.conn, p.dbid).life = life[KeyOf(p.conn, p.dbid)],
                      dbs[KeyOf(p.conn, p.dbid)].epoch = LeaseOn(p.conn, p.dbid).epoch
               PROVE  FALSE
    BY DEF RevokedIsLost, Holds
  <2>1. p.conn \in Conn /\ p.dbid \in DBID /\ p.epoch \in Nat
    BY DEF RegistryOK, RegistryType, Push
  <2>2. LeaseOn(p.conn, p.dbid).life = 0 /\ Past(KeyOf(p.conn, p.dbid), p.epoch)
    BY <2>1 DEF PastInv, FirstLife, PushPast
  <2>3. dbs[KeyOf(p.conn, p.dbid)].epoch \in Nat
    BY <2>1, KeyOfType DEF StoreTypeOK, Database
  <2> QED
    BY SMTT(60), <2>1, <2>2, <2>3 DEF Past
<1> QED
  BY <1>1, <1>2, <1>3, RegistryInvariant, PTL DEF ProtocolSpec
=============================================================================
