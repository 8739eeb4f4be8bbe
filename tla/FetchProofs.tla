---------------------------- MODULE FetchProofs ----------------------------
(***************************************************************************)
(* Theorems about the answers to Fetch: what is read in several calls of   *)
(* the store while others commit, and the frames it is sent in.            *)
(***************************************************************************)
EXTENDS ProtocolProofs, StoreContentProofs

USE ZenonT(60), SMTT(60)

-----------------------------------------------------------------------------
(* Fetches *)

\* Only the open handler takes new leases.
LEMMA OnlyOpenGrants ==
  ASSUME ProtocolNext, \A c \in Conn, d \in DBID : ~OpenCall(c, d)
  PROVE  minted' = minted
<1>1. ASSUME storeUnchanged PROVE minted' = minted
  BY <1>1 DEF storeUnchanged, vars
<1>2. ASSUME NEW c \in Conn, \/ Connect(c) \/ Ping(c) \/ OpenSet(c) \/ CloseRemove(c) \/ DeleteRevoke(c)
                              \/ PurgeHolder(c) \/ FetchRange(c) \/ FetchSend(c) \/ End(c)
                              \/ \E d \in DBID : FetchStart(c, d)
      PROVE  storeUnchanged
  BY <1>2 DEF Connect, Ping, OpenSet, CloseRemove, DeleteRevoke, PurgeHolder, FetchRange, FetchSend, End,
                     FetchStart
<1>3. ASSUME NEW c \in Conn, PingRenew(c) PROVE minted' = minted
  BY <1>1, <1>3 DEF PingRenew, Renew
<1>4. ASSUME NEW c \in Conn, ClaimCall(c) \/ DeleteSlotCall(c) \/ SetLabel(c) PROVE minted' = minted
  BY <1>4 DEF ClaimCall, DeleteSlotCall, SetLabel, ClaimSlot, DeleteSlot, SetSlotLabel
<1>5. ASSUME NEW c \in Conn, NEW d \in DBID, CommitCall(c, d) \/ CloseCall(c, d) \/ DeleteCall(c, d)
      PROVE  minted' = minted
  BY <1>5 DEF CommitCall, CommitApply, CommitRepeat, CloseCall, Release, DeleteCall, Delete
<1>6. CASE \E p \in pushes : Deliver(p)
  BY <1>1, <1>6 DEF Deliver
<1>7. CASE (InTime /\ Tick) \/ Sweep
  BY <1>7 DEF Tick, Sweep, DeleteUnused
<1> QED
  BY <1>1, <1>2, <1>3, <1>4, <1>5, <1>6, <1>7 DEF ProtocolNext

FirstLives == \A k \in Key : dbs[k].status = "live" => life[k] = 0

\* Without reuse of keys, every database is in its first life.
LEMMA FirstLivesStep ==
  ASSUME StoreTypeOK, StoreInv, FirstLives, KeyReuse = FALSE, ProtocolNext, [StoreNext]_vars
  PROVE  FirstLives'
<1> SUFFICES ASSUME NEW k \in Key, dbs'[k].status = "live" PROVE life'[k] = 0
  BY DEF FirstLives
<1>0. dbs[k] \in Database
  BY DEF StoreTypeOK
<1>1. ASSUME NEW c \in Conn, NEW d \in DBID, OpenCall(c, d) PROVE life'[k] = 0
  <2> DEFINE key == KeyOf(c, d)
  <2>1. PICK new : life[key] = 0 /\ life' = life /\ dbs' = [dbs EXCEPT ![key] = new]
    <3>1. PICK req \in OpenRequest(key) : life[key] = 0 /\ (OpenGrant(req) \/ OpenResume(req))
      BY <1>1 DEF OpenCall
    <3>2. req.key = key
      BY <3>1, KeyOfType, OpenRequestType
    <3> QED
      BY <3>1, <3>2 DEF OpenGrant, OpenResume
  <2> HIDE DEF key
  <2> QED
    BY <2>1 DEF FirstLives, StoreTypeOK
<1>2. ASSUME \A c \in Conn, d \in DBID : ~OpenCall(c, d) PROVE life'[k] = 0
  <2>1. ASSUME NEW key, NEW req, OpenGrant(req) PROVE FALSE
    <3>1. minted' = minted + 1 /\ minted \in Nat
      BY <2>1 DEF OpenGrant, StoreTypeOK
    <3> QED
      BY SMTT(60), <1>2, <3>1, OnlyOpenGrants
  <2>2. ASSUME NEW req, NEW t, Applies(req, t) PROVE life'[k] = 0
    BY <1>0, <2>2, ApplyStep, CommittedFields DEF FirstLives
  <2>3. CASE Quiet
    <3>1. life'[k] = life[k] /\ Kept(dbs[k], dbs'[k])
      BY <1>0, <2>3, DeletedFields, NoDatabaseFields DEF Quiet
    <3> QED
      BY <3>1 DEF Kept, FirstLives
  <2> QED
    BY <2>1, <2>2, <2>3, Effects
<1> QED
  BY <1>1, <1>2

Range == [first : Nat, count : Nat]
Run == [first : Nat, blocks : Seq(Data), size : Nat]

\* The fields of a range that was read.
LEMMA RunFields ==
  ASSUME NEW run \in Run
  PROVE  run.first \in Nat /\ run.blocks \in Seq(Data) /\ Len(run.blocks) \in Nat
BY SMTT(60) DEF Run

\* What a call of the store returns has the length asked for.
LEMMA FetchedLength ==
  ASSUME NEW db, NEW first \in Nat, NEW count \in Nat
  PROVE  Len(FetchedRange(db, first, count)) = count
BY SMTT(60) DEF FetchedRange

\* It depends on the blocks only.
LEMMA FetchedBlocks ==
  ASSUME NEW db, NEW a, a.blocks = db.blocks, NEW first, NEW count
  PROVE  FetchedRange(a, first, count) = FetchedRange(db, first, count)
BY DEF FetchedRange

\* An empty range has no blocks.
LEMMA FetchedNothing ==
  ASSUME NEW a, NEW first \in Nat
  PROVE  FetchedRange(a, first, 0) = <<>>
BY SMTT(60) DEF FetchedRange

\* A sum below 2^64 does not wrap.
LEMMA NoWrap ==
  ASSUME NEW w \in Nat, NEW n \in Nat, n < w
  PROVE  n % w = n
BY SMTT(60)

(***************************************************************************)
(* The inductive invariants of a Fetch.  The ranges that were read and     *)
(* those to be read follow each other, and the blocks read so far are      *)
(* those of one commit, of the first life of the database.                 *)
(***************************************************************************)
Behind(run, first) == first >= run.first + Len(run.blocks)
PlanOK(t) ==
  /\ Disjoint(t.ranges)
  /\ \A n \in 2 .. Len(t.runs) : Behind(t.runs[n-1], t.runs[n].first)
  /\ t.runs # <<>> /\ t.ranges # <<>> => Behind(t.runs[Len(t.runs)], t.ranges[1].first)

IsPartOf(run, a) == run.blocks = FetchedRange(a, run.first, Len(run.blocks))
ReadOK(key, t, A) ==
  (\E n \in DOMAIN t.runs : t.runs[n].blocks # <<>>) =>
    \E a \in A : /\ a.lease.key = key /\ a.life = 0 /\ a.version = t.version
                 /\ \A n \in DOMAIN t.runs : IsPartOf(t.runs[n], a)

PlanInv == \A c \in Conn : conns[c].todo.op = "fetch" => IsOpen(c, conns[c].todo.dbid) /\ PlanOK(conns[c].todo)
ReadInv ==
  \A c \in Conn : conns[c].todo.op = "fetch" =>
    ReadOK(KeyOf(c, conns[c].todo.dbid), conns[c].todo, applied)

\* A Fetch in its midst, as FetchNext takes it.
Midst(t) == t.version \in Nat /\ t.ranges \in Seq(Range) /\ t.ranges # <<>> /\ t.runs \in Seq(Run)

\* The store has the next range r of Fetch t, and run of it is the next of u.
GoesOn(db, d, t, u, r, run) ==
  /\ r = Head(t.ranges)
  /\ db \in Database /\ db.status = "live" /\ db.version = t.version
  /\ CheckRange(r.first, r.count, db.pageCount)
  /\ run.first = r.first /\ run.blocks = FetchedRange(db, r.first, r.count) /\ run.size = db.pageSize
  /\ u.dbid = d /\ u.version = t.version /\ u.ranges = Tail(t.ranges) /\ u.runs = Append(t.runs, run)

\* What FetchNext makes of it if the store has the range.
LEMMA FetchNextFields ==
  ASSUME StoreTypeOK, NEW c \in Conn, NEW d \in DBID, NEW t, Midst(t), FetchNext(c, d, t).op = "fetch"
  PROVE  \E r \in Range, run \in Run : GoesOn(dbs[KeyOf(c, d)], d, t, FetchNext(c, d, t), r, run)
<1> DEFINE r == Head(t.ranges)
           db == dbs[KeyOf(c, d)]
           blocks == FetchedRange(db, r.first, r.count)
           run == [first |-> r.first, size |-> db.pageSize, blocks |-> blocks]
           next == [op |-> "fetch", dbid |-> d, version |-> t.version, ranges |-> Tail(t.ranges),
                    runs |-> Append(t.runs, run)]
<1>1. r \in Range
  BY HeadAndTail DEF Midst
<1>2. db \in Database
  BY KeyOfType DEF StoreTypeOK
<1>3. FetchNext(c, d, t) = next /\ FetchOutcome(KeyOf(c, d), t.version, r.first, r.count) = "ok"
  BY IdleKind DEF FetchNext
<1>4. db.status = "live" /\ db.version = t.version /\ CheckRange(r.first, r.count, db.pageCount)
  BY <1>3 DEF FetchOutcome
<1>a. db.pageSize \in Nat
  BY <1>2, PageSizeType DEF Database
<1> HIDE DEF r, db
<1>5. blocks \in Seq(Data)
  BY <1>1, <1>2, FetchedType DEF Range
<1> HIDE DEF blocks
<1>6. run \in Run /\ run.first = r.first /\ run.blocks = blocks /\ run.size = db.pageSize
  BY <1>1, <1>5, <1>a DEF Run, Range
<1> HIDE DEF run
<1>7. next.dbid = d /\ next.version = t.version /\ next.ranges = Tail(t.ranges) /\ next.runs = Append(t.runs, run)
  OBVIOUS
<1> HIDE DEF next
<1>8. GoesOn(db, d, t, next, r, run)
  BY <1>2, <1>4, <1>6, <1>7 DEF GoesOn, r, blocks
<1> QED
  BY <1>1, <1>3, <1>6, <1>8 DEF db

\* Going on with the next range keeps the ranges behind each other: none wraps that the store has.
LEMMA PlanStep ==
  ASSUME StoreTypeOK, FileSizes, NEW c \in Conn, NEW d \in DBID, NEW t, Midst(t), PlanOK(t),
         FetchNext(c, d, t).op = "fetch"
  PROVE  FetchNext(c, d, t).dbid = d /\ PlanOK(FetchNext(c, d, t))
<1> DEFINE u == FetchNext(c, d, t)
           db == dbs[KeyOf(c, d)]
<1>0. PICK r \in Range, run \in Run : GoesOn(db, d, t, u, r, run)
  BY FetchNextFields
<1>1. /\ r = Head(t.ranges) /\ db \in Database
      /\ CheckRange(r.first, r.count, db.pageCount)
      /\ run.first = r.first /\ run.blocks = FetchedRange(db, r.first, r.count)
      /\ u.dbid = d /\ u.ranges = Tail(t.ranges) /\ u.runs = Append(t.runs, run)
  BY <1>0 DEF GoesOn
<1>2. db.pageCount \in Nat /\ db.pageCount <= MaxPages
  BY <1>1, KeyOfType DEF FileSizes, Database
<1>3. r.first \in Nat /\ r.count \in Nat
  BY DEF Range
<1>4. Len(run.blocks) = r.count
  BY SMTT(60), <1>1, <1>3, FetchedLength
<1> HIDE DEF u, db
<1>5. r.first + r.count < Wrap /\ Wrap \in Nat
  <2>1. r.first <= db.pageCount /\ r.count <= db.pageCount - r.first
    BY <1>1 DEF CheckRange
  <2>2. MaxPages \in Nat /\ Wrap \in Nat /\ Wrap > MaxPages
    BY ProtocolAssumption, ConstantsAssumption
  <2> QED
    BY SMTT(60), <1>2, <1>3, <2>1, <2>2
<1>6. (r.first + r.count) % Wrap = r.first + r.count
  <2>1. r.first + r.count \in Nat
    BY SMTT(60), <1>3
  <2> QED
    BY <1>5, <2>1, NoWrap
<1>7. /\ t.ranges \in Seq(Range) /\ Len(t.ranges) \in Nat \ {0} /\ r = t.ranges[1]
      /\ Len(u.ranges) = Len(t.ranges) - 1
      /\ \A n \in 1 .. Len(u.ranges) : u.ranges[n] = t.ranges[n+1]
  BY SMTT(60), <1>1 DEF Midst
<1>8. /\ Len(t.runs) \in Nat /\ Len(u.runs) = Len(t.runs) + 1 /\ u.runs[Len(t.runs) + 1] = run
      /\ \A n \in 1 .. Len(t.runs) : u.runs[n] = t.runs[n]
  BY SMTT(60), <1>1, AppendedSeq, SeqShape DEF Midst
<1>9. Disjoint(u.ranges)
  <2> SUFFICES ASSUME NEW n \in 2 .. Len(u.ranges)
               PROVE  u.ranges[n].first >= (u.ranges[n-1].first + u.ranges[n-1].count) % Wrap
    BY DEF Disjoint
  <2>1. n + 1 \in 2 .. Len(t.ranges) /\ (n + 1) - 1 = (n - 1) + 1
    BY SMTT(60), <1>7
  <2>2. t.ranges[n+1].first >= (t.ranges[(n+1)-1].first + t.ranges[(n+1)-1].count) % Wrap
    BY <2>1 DEF PlanOK, Disjoint
  <2>3. u.ranges[n] = t.ranges[n+1] /\ u.ranges[n-1] = t.ranges[(n-1)+1]
    BY SMTT(60), <1>7
  <2> QED
    BY <2>1, <2>2, <2>3
<1>10. ASSUME NEW n \in 2 .. Len(u.runs) PROVE Behind(u.runs[n-1], u.runs[n].first)
  <2>1. CASE n <= Len(t.runs)
    BY SMTT(60), <1>8, <2>1 DEF PlanOK
  <2>2. CASE n = Len(t.runs) + 1
    <3>1. t.runs # <<>> /\ t.ranges # <<>>
      BY SMTT(60), <1>8, <2>2 DEF Midst
    <3>2. Behind(t.runs[Len(t.runs)], t.ranges[1].first)
      BY <3>1 DEF PlanOK
    <3>3. u.runs[n-1] = t.runs[Len(t.runs)] /\ u.runs[n].first = t.ranges[1].first
      BY SMTT(60), <1>1, <1>7, <1>8, <2>2
    <3> QED
      BY <3>2, <3>3
  <2> QED
    BY SMTT(60), <1>8, <2>1, <2>2
<1>11. ASSUME u.ranges # <<>> PROVE Behind(u.runs[Len(u.runs)], u.ranges[1].first)
  <2>1. 2 \in 2 .. Len(t.ranges) /\ u.ranges[1] = t.ranges[2]
    BY SMTT(60), <1>1, <1>7, <1>11
  <2>2. t.ranges[2].first >= (t.ranges[1].first + t.ranges[1].count) % Wrap
    BY SMTT(60), <2>1 DEF PlanOK, Disjoint
  <2>3. t.ranges[2].first >= r.first + r.count
    BY <1>6, <1>7, <2>2
  <2>4. u.runs[Len(u.runs)] = run
    BY <1>8
  <2> QED
    BY <1>1, <1>4, <2>1, <2>3, <2>4 DEF Behind
<1> QED
  BY <1>1, <1>9, <1>10, <1>11 DEF PlanOK, u

\* Reading the next range from the same version adds to what is read of one commit.
LEMMA ReadStep ==
  ASSUME StoreTypeOK, FirstLives, StateIsLastCommit, ExactlyOnce, NEW c \in Conn, NEW d \in DBID, NEW t,
         Midst(t), ReadOK(KeyOf(c, d), t, applied), FetchNext(c, d, t).op = "fetch"
  PROVE  ReadOK(KeyOf(c, d), FetchNext(c, d, t), applied)
<1> DEFINE u == FetchNext(c, d, t)
           key == KeyOf(c, d)
           db == dbs[key]
<1> SUFFICES ReadOK(key, u, applied)
  OBVIOUS
<1>0. PICK r \in Range, run \in Run : GoesOn(db, d, t, u, r, run)
  BY FetchNextFields
<1>1. /\ db \in Database /\ db.status = "live" /\ db.version = t.version
      /\ CheckRange(r.first, r.count, db.pageCount)
      /\ run.first = r.first /\ run.blocks = FetchedRange(db, r.first, r.count)
      /\ u.version = t.version /\ u.runs = Append(t.runs, run)
  BY <1>0 DEF GoesOn
<1>2. r.first \in Nat /\ r.count \in Nat /\ db.pageCount \in Nat
  BY <1>1 DEF Range, Database
<1>3. key \in Key /\ life[key] = 0
  BY <1>1, KeyOfType DEF FirstLives
<1>4. \/ db.pageCount = 0
      \/ \E a \in applied : /\ a.lease.key = key /\ a.life = 0 /\ a.version = t.version
                            /\ a.blocks = db.blocks
  <2> HIDE DEF key
  <2> QED
    BY SMTT(60), <1>1, <1>3 DEF StateIsLastCommit, Current
<1>5. Len(run.blocks) = r.count /\ (r.count = 0 => run.blocks = <<>>)
  BY SMTT(60), <1>1, <1>2, FetchedLength, FetchedNothing
<1> HIDE DEF u, key, db
<1>6. /\ Len(t.runs) \in Nat /\ DOMAIN t.runs = 1 .. Len(t.runs)
      /\ DOMAIN u.runs = 1 .. Len(t.runs) + 1 /\ u.runs[Len(t.runs) + 1] = run
      /\ \A n \in 1 .. Len(t.runs) : u.runs[n] = t.runs[n] /\ t.runs[n] \in Run
  BY SMTT(60), <1>1, AppendedSeq, SeqShape DEF Midst
<1> DEFINE Nothing == \A n \in DOMAIN t.runs : t.runs[n].blocks = <<>>
           Of(a) == a.lease.key = key /\ a.life = 0 /\ a.version = t.version
           Before(a) == \A n \in DOMAIN t.runs : IsPartOf(t.runs[n], a)
<1>7. ASSUME Nothing, NEW a PROVE Before(a)
  <2> SUFFICES ASSUME NEW n \in DOMAIN t.runs PROVE IsPartOf(t.runs[n], a)
    OBVIOUS
  <2>1. t.runs[n].blocks = <<>> /\ t.runs[n].first \in Nat
    BY <1>6, <1>7 DEF Run
  <2>2. Len(t.runs[n].blocks) = 0
    BY SMTT(60), <2>1
  <2> QED
    BY <2>1, <2>2, FetchedNothing DEF IsPartOf
<1>8. ASSUME ~Nothing PROVE \E a \in applied : Of(a) /\ Before(a)
  BY <1>8 DEF ReadOK, key
<1>9. ASSUME NEW a \in applied, Of(a), Before(a), IsPartOf(run, a) PROVE ReadOK(key, u, applied)
  <2>1. \A n \in DOMAIN u.runs : IsPartOf(u.runs[n], a)
    BY SMTT(60), <1>6, <1>9
  <2> QED
    BY <1>1, <1>9, <2>1 DEF ReadOK
<1>10. CASE r.count = 0
  <2>1. CASE Nothing
    <3>0. run.blocks = <<>>
      BY <1>5, <1>10
    <3>1. \A n \in DOMAIN u.runs : u.runs[n].blocks = <<>>
      BY SMTT(60), <1>6, <2>1, <3>0
    <3> QED
      BY <3>1 DEF ReadOK
  <2>2. CASE ~Nothing
    <3>1. PICK a \in applied : Of(a) /\ Before(a)
      BY <1>8, <2>2
    <3>2. IsPartOf(run, a)
      BY <1>1, <1>2, <1>5, <1>10, FetchedNothing DEF IsPartOf
    <3> QED
      BY <1>9, <3>1, <3>2
  <2> QED
    BY <2>1, <2>2
<1>11. CASE r.count # 0
  <2>1. db.pageCount # 0
    BY SMTT(60), <1>1, <1>2, <1>11 DEF CheckRange
  <2>2. PICK a \in applied : Of(a) /\ a.blocks = db.blocks
    BY <1>4, <2>1
  <2>3. IsPartOf(run, a)
    BY SMTT(60), <1>1, <1>5, <2>2, FetchedBlocks DEF IsPartOf
  <2>4. CASE Nothing
    BY <1>7, <1>9, <2>2, <2>3, <2>4
  <2>5. CASE ~Nothing
    <3>1. PICK b \in applied : Of(b) /\ Before(b)
      BY <1>8, <2>5
    <3>2. a = b
      BY <2>2, <3>1 DEF ExactlyOnce
    <3> QED
      BY <1>9, <2>2, <2>3, <3>1, <3>2
  <2> QED
    BY <2>4, <2>5
<1> QED
  BY <1>10, <1>11

\* Connection x goes on with Fetch t of its database d, or begins it.
FetchStep(x, d, t) ==
  /\ Midst(t) /\ conns'[x].todo = FetchNext(x, d, t)
  /\ \/ IsOpen(x, d) /\ t.runs = <<>> /\ Disjoint(t.ranges)
     \/ t = conns[x].todo /\ t.op = "fetch" /\ t.dbid = d

\* A Fetch that is not yet answered was there before, or the store was just called for it.
LEMMA FetchTodo ==
  ASSUME StoreTypeOK, ConnsOK, ProtocolNext, NEW x \in Conn, conns'[x].todo.op = "fetch"
  PROVE  \/ conns'[x].todo = conns[x].todo
         \/ UNCHANGED vars /\ Keeps /\ \E d \in DBID : \E t : FetchStep(x, d, t)
<1>0. ASSUME FetchRange(x) \/ \E d \in DBID : FetchStart(x, d) PROVE Keeps
  <2>1. \E t : conns' = [conns EXCEPT ![x].todo = t]
    BY <1>0 DEF FetchRange, FetchStart
  <2> QED
    BY <2>1, TodoKeeps
<1>1. CASE FetchRange(x)
  <2> DEFINE t == conns[x].todo
  <2>1. /\ UNCHANGED vars /\ t.op = "fetch" /\ t.ranges # <<>>
        /\ conns'[x].todo = FetchNext(x, t.dbid, t)
    BY <1>1, FetchContinues
  <2>2. t \in Todo
    BY DEF ConnsOK, ConnState
  <2>3. t.dbid \in DBID /\ Midst(t)
    BY <2>1, <2>2, TodoKinds DEF Midst, Range, Run
  <2> QED
    BY <1>0, <1>1, <2>1, <2>3 DEF FetchStep
<1>2. ASSUME NEW d \in DBID, FetchStart(x, d) PROVE UNCHANGED vars /\ Keeps /\ \E t : FetchStep(x, d, t)
  <2>1. IsOpen(x, d)
    BY <1>2 DEF FetchStart
  <2>2. PICK ranges \in FetchRanges, version \in 0 .. MaxVersion :
          /\ UNCHANGED vars /\ Disjoint(ranges)
          /\ conns'[x].todo = FetchNext(x, d, [op |-> "fetch", dbid |-> d, version |-> version,
                                               ranges |-> ranges, runs |-> <<>>])
    BY <1>2, FetchStarts
  <2> DEFINE t == [op |-> "fetch", dbid |-> d, version |-> version, ranges |-> ranges, runs |-> <<>>]
  <2>3. ranges \in Seq(Range) /\ ranges # <<>> /\ version \in Nat
    BY SMTT(60), ProtocolAssumption, ConstantsAssumption DEF Range
  <2>4. Midst(t) /\ t.runs = <<>> /\ t.ranges = ranges
    BY SMTT(60), <2>3 DEF Midst
  <2> HIDE DEF t
  <2>5. FetchStep(x, d, t)
    BY <2>1, <2>2, <2>4 DEF FetchStep, t
  <2> QED
    BY <1>0, <1>2, <2>2, <2>5
<1>3. \/ conns'[x].todo = conns[x].todo \/ conns'[x].todo.op \in {"revoke", "purge"}
      \/ FetchRange(x) \/ \E d \in DBID : FetchStart(x, d)
  <2>1. ASSUME NEW d, conns'[x].todo = [op |-> "revoke", dbid |-> d, epoch |-> dbs'[KeyOf(x, d)].epoch]
        PROVE  conns'[x].todo.op = "revoke"
    BY SMTT(60), <2>1
  <2>2. ASSUME NEW K, conns'[x].todo = [op |-> "purge", keys |-> K] PROVE conns'[x].todo.op = "purge"
    BY SMTT(60), <2>2
  <2> QED
    BY <2>1, <2>2, TodoNext
<1> QED
  BY <1>1, <1>2, <1>3

\* A connection that fetches keeps its databases open.
LEMMA FetchKeepsSame ==
  ASSUME StoreTypeOK, ConnsOK, ProtocolNext, NEW x \in Conn, conns[x].todo.op = "fetch", NEW d \in DBID
  PROVE  Same(x, d)
<1>1. ~CloseRemove(x) /\ ~End(x) /\ \A e \in DBID : ~OpenCall(x, e)
  BY IdleKind DEF CloseRemove, End, OpenCall, Ready
<1>2. CASE \E c \in Conn, e \in DBID : OpenCall(c, e)
  BY <1>1, <1>2, OpenOpens
<1>3. ASSUME NEW c \in Conn, CloseRemove(c) PROVE Same(x, d)
  BY <1>1, <1>3, CloseCloses
<1>4. ASSUME NEW c \in Conn, End(c) PROVE Same(x, d)
  BY <1>1, <1>4, EndCloses
<1>5. CASE \A c \in Conn : ~CloseRemove(c) /\ ~End(c) /\ \A e \in DBID : ~OpenCall(c, e)
  BY <1>5, OthersKeep DEF Keeps
<1> QED
  BY <1>2, <1>3, <1>4, <1>5

\* Beginning a Fetch or going on with it, FetchNext takes one that keeps the plan.
LEMMA FetchPlan ==
  ASSUME PlanInv, NEW x \in Conn, NEW d \in DBID, NEW t, FetchStep(x, d, t)
  PROVE  IsOpen(x, d) /\ PlanOK(t)
<1>1. CASE IsOpen(x, d) /\ t.runs = <<>> /\ Disjoint(t.ranges)
  BY SMTT(60), <1>1 DEF PlanOK
<1>2. CASE t = conns[x].todo /\ t.op = "fetch" /\ t.dbid = d
  BY <1>2 DEF PlanInv
<1> QED
  BY <1>1, <1>2 DEF FetchStep

\* Every step keeps the plans.
LEMMA PlanInvStep ==
  ASSUME StoreTypeOK, ConnsOK, FileSizes, PlanInv, ProtocolNext
  PROVE  PlanInv'
<1> SUFFICES ASSUME NEW x \in Conn, conns'[x].todo.op = "fetch"
             PROVE  conns'[x].dbs[conns'[x].todo.dbid] # None /\ PlanOK(conns'[x].todo)
  BY DEF PlanInv, PlanOK, Behind, Disjoint, IsOpen
<1>1. CASE conns'[x].todo = conns[x].todo
  <2>1. conns[x].todo.dbid \in DBID
    BY <1>1, TodoKinds DEF ConnsOK, ConnState
  <2>2. IsOpen(x, conns[x].todo.dbid) /\ PlanOK(conns[x].todo)
    BY <1>1 DEF PlanInv
  <2>3. conns'[x].dbs[conns[x].todo.dbid] # None
    BY <1>1, <2>1, <2>2, FetchKeepsSame DEF Same, IsOpen
  <2> QED
    BY <1>1, <2>2, <2>3
<1>2. ASSUME Keeps, NEW d \in DBID, NEW t, FetchStep(x, d, t)
      PROVE  conns'[x].dbs[conns'[x].todo.dbid] # None /\ PlanOK(conns'[x].todo)
  <2>1. IsOpen(x, d) /\ PlanOK(t)
    BY <1>2, FetchPlan
  <2>2. Midst(t) /\ conns'[x].todo = FetchNext(x, d, t)
    BY <1>2 DEF FetchStep
  <2>3. FetchNext(x, d, t).op = "fetch"
    BY <2>2
  <2>4. FetchNext(x, d, t).dbid = d /\ PlanOK(FetchNext(x, d, t))
    BY <2>1, <2>2, <2>3, PlanStep
  <2>5. conns'[x].dbs[d] # None
    BY <1>2, <2>1 DEF Keeps, Same, IsOpen
  <2> QED
    BY <2>2, <2>4, <2>5
<1> QED
  BY <1>1, <1>2, FetchTodo

\* Every step keeps what has been read that of one commit.
LEMMA ReadInvStep ==
  ASSUME StoreTypeOK, StoreInv, ConnsOK, FirstLives, StateIsLastCommit, ExactlyOnce, ReadInv, ProtocolNext,
         [StoreNext]_vars
  PROVE  ReadInv'
<1>0. applied \subseteq applied'
  <2>1. ASSUME NEW key, NEW req, Grants(key, req) PROVE applied' = applied
    BY <2>1, GrantStep
  <2>2. ASSUME NEW req, NEW t, Applies(req, t) PROVE applied' = applied \cup {AppliedCommit(req)}
    BY <2>2, ApplyStep
  <2> QED
    BY <2>1, <2>2, Effects DEF Quiet
<1> SUFFICES ASSUME NEW x \in Conn, conns'[x].todo.op = "fetch"
             PROVE  ReadOK(KeyOf(x, conns'[x].todo.dbid), conns'[x].todo, applied')
  BY DEF ReadInv, ReadOK, IsPartOf, FetchedRange, KeyOf
<1>1. CASE conns'[x].todo = conns[x].todo
  <2>1. ReadOK(KeyOf(x, conns[x].todo.dbid), conns[x].todo, applied)
    BY <1>1 DEF ReadInv
  <2> QED
    BY <1>0, <1>1, <2>1 DEF ReadOK
<1>2. ASSUME UNCHANGED vars, NEW d \in DBID, NEW t, FetchStep(x, d, t)
      PROVE  ReadOK(KeyOf(x, conns'[x].todo.dbid), conns'[x].todo, applied')
  <2>1. Midst(t) /\ conns'[x].todo = FetchNext(x, d, t)
    BY <1>2 DEF FetchStep
  <2>2. FetchNext(x, d, t).op = "fetch"
    BY <2>1
  <2>3. ReadOK(KeyOf(x, d), t, applied)
    <3>1. CASE t.runs = <<>>
      BY SMTT(60), <3>1 DEF ReadOK
    <3>2. CASE t = conns[x].todo /\ t.op = "fetch" /\ t.dbid = d
      BY <3>2 DEF ReadInv
    <3> QED
      BY <1>2, <3>1, <3>2 DEF FetchStep
  <2>4. ReadOK(KeyOf(x, d), FetchNext(x, d, t), applied)
    BY <2>1, <2>2, <2>3, ReadStep
  <2>5. FetchNext(x, d, t).dbid = d
    <3>1. PICK r, run : GoesOn(dbs[KeyOf(x, d)], d, t, FetchNext(x, d, t), r, run)
      BY <2>1, <2>2, FetchNextFields
    <3> QED
      BY <3>1 DEF GoesOn
  <2>6. applied' = applied
    BY <1>2 DEF vars
  <2> QED
    BY <2>1, <2>4, <2>5, <2>6
<1> QED
  BY <1>1, <1>2, FetchTodo

(***************************************************************************)
(* All blocks of one Fetch are those one commit left, that of the version  *)
(* it names, for any number of ranges, connections and commits in between, *)
(* as long as clients open nothing with a key whose databases were purged. *)
(***************************************************************************)
THEOREM FetchIsOneVersionHolds ==
  ASSUME KeyReuse = FALSE
  PROVE  ProtocolSpec => []FetchIsOneVersion
<1> DEFINE Base == StoreTypeOK /\ StoreInv /\ ConnsOK
<1>1. ProtocolInit => FirstLives /\ ReadInv
  <2> SUFFICES ASSUME ProtocolInit PROVE FirstLives /\ ReadInv
    OBVIOUS
  <2>1. \A c \in Conn : conns[c].todo = Idle
    BY DEF ProtocolInit
  <2> QED
    BY <2>1, IdleKind DEF ProtocolInit, StoreInit, FirstLives, ReadInv
<1>2. /\ Base /\ StateIsLastCommit /\ ExactlyOnce /\ FirstLives /\ ReadInv /\ [ProtocolNext]_protocolVars
      => FirstLives' /\ ReadInv'
  <2> SUFFICES ASSUME Base, StateIsLastCommit, ExactlyOnce, FirstLives, ReadInv, [ProtocolNext]_protocolVars
               PROVE  FirstLives' /\ ReadInv'
    OBVIOUS
  <2>1. CASE ProtocolNext
    <3>1. [StoreNext]_vars
      BY <2>1, ProtocolStep DEF StepOK
    <3> QED
      BY <2>1, <3>1, FirstLivesStep, ReadInvStep
  <2>2. CASE UNCHANGED protocolVars
    <3>1. dbs' = dbs /\ life' = life /\ applied' = applied /\ conns' = conns
      BY <2>2 DEF protocolVars, vars
    <3>2. FirstLives'
      BY <3>1 DEF FirstLives
    <3>3. ReadInv'
      <4> SUFFICES ASSUME NEW x \in Conn, conns'[x].todo.op = "fetch"
                   PROVE  ReadOK(KeyOf(x, conns'[x].todo.dbid), conns'[x].todo, applied')
        BY DEF ReadInv, ReadOK, IsPartOf, FetchedRange, KeyOf
      <4> QED
        BY <3>1 DEF ReadInv
    <3> QED
      BY <3>2, <3>3
  <2> QED
    BY <2>1, <2>2
<1>3. ReadInv => FetchIsOneVersion
  BY DEF ReadInv, ReadOK, IsPartOf, FetchIsOneVersion
<1>4. ProtocolSpec => [](Base /\ StateIsLastCommit /\ ExactlyOnce)
  <2>1. ImplementsStore => StoreSpec
    <3>1. [UNCHANGED vars \/ StoreNext]_vars => [StoreNext]_vars
      OBVIOUS
    <3> QED
      BY <3>1, PTL DEF ImplementsStore, StoreSpec
  <2> QED
    BY <2>1, ProtocolImplementsStore, ProtocolInvariant, StateIsLastCommitHolds, ExactlyOnceHolds, PTL
<1> QED
  BY <1>1, <1>2, <1>3, <1>4, PTL DEF ProtocolSpec

-----------------------------------------------------------------------------
(* The frames of an answer *)

\* Multiplication is monotonic.
LEMMA Times ==
  ASSUME NEW a \in Nat, NEW b \in Nat, NEW w \in Nat, a <= b
  PROVE  a * w \in Nat /\ b * w \in Nat /\ a * w <= b * w
BY SMTT(60)

\* Division rounds down.
LEMMA Division ==
  ASSUME NEW a \in Nat, NEW w \in Nat \ {0}
  PROVE  a \div w \in Nat /\ (a \div w) * w <= a /\ a < (a \div w) * w + w
BY SMTT(60)

\* The number of frames for len blocks, n in each, is the least that suffices.
LEMMA FrameCount ==
  ASSUME NEW len \in Nat \ {0}, NEW n \in Nat \ {0}
  PROVE  /\ (len + n - 1) \div n \in Nat \ {0}
         /\ ((len + n - 1) \div n - 1) * n < len /\ len <= ((len + n - 1) \div n) * n
<1> DEFINE f == (len + n - 1) \div n
<1>1. len + n - 1 \in Nat
  BY SMTT(60)
<1>2. f \in Nat /\ f * n <= len + n - 1 /\ len + n - 1 < f * n + n
  BY <1>1, Division
<1> HIDE DEF f
<1>3. f # 0
  BY SMTT(60), <1>2
<1>4. (f - 1) * n = f * n - n /\ f * n \in Nat
  BY SMTT(60), <1>2
<1> QED
  BY SMTT(60), <1>2, <1>3, <1>4 DEF f

\* A frame with as many blocks as perFrame says, or fewer, is no larger than allowed, if more than one is.
LEMMA FrameSize ==
  ASSUME NEW c, NEW d, conns[c].dbs[d].pageSize \in Nat
  PROVE  /\ perFrame(c, d) \in Nat \ {0}
         /\ \A l \in 0 .. perFrame(c, d) :
              \/ pagesFrameOverhead + l * (conns[c].dbs[d].pageSize + pagesBlockOverhead) <= MaxFrameBytes
              \/ l = 1
<1> DEFINE w == conns[c].dbs[d].pageSize + pagesBlockOverhead
           most == (MaxFrameBytes - pagesFrameOverhead) \div w
<1>a. MaxFrameBytes \in Nat /\ MaxFrameBytes >= pagesFrameOverhead
  BY ProtocolAssumption
<1>1. w \in Nat \ {0} /\ MaxFrameBytes \in Nat /\ MaxFrameBytes - pagesFrameOverhead \in Nat
      /\ pagesFrameOverhead \in Nat
  BY SMTT(60), <1>a DEF pagesBlockOverhead, pagesFrameOverhead
<1>2. most \in Nat /\ most * w <= MaxFrameBytes - pagesFrameOverhead
  BY <1>1, Division
<1>3. perFrame(c, d) = IF most < 1 THEN 1 ELSE most
  BY DEF perFrame
<1> HIDE DEF w, most
<1>4. ASSUME NEW l \in 0 .. perFrame(c, d) PROVE pagesFrameOverhead + l * w <= MaxFrameBytes \/ l = 1
  <2>1. CASE l = 0
    BY SMTT(60), <1>1, <2>1
  <2>2. CASE l # 0 /\ most < 1
    BY SMTT(60), <1>2, <1>3, <2>2
  <2>3. CASE most >= 1
    <3>1. l \in Nat /\ l <= most
      BY SMTT(60), <1>2, <1>3, <2>3
    <3>2. l * w \in Nat /\ most * w \in Nat /\ l * w <= most * w
      BY <1>1, <1>2, <3>1, Times
    <3> QED
      BY SMTT(60), <1>1, <1>2, <3>2
  <2> QED
    BY SMTT(60), <1>2, <2>1, <2>2, <2>3
<1> QED
  BY SMTT(60), <1>2, <1>3, <1>4 DEF w

\* Blocks m to k of a list.
LEMMA PartOfSeq ==
  ASSUME NEW S, NEW s \in Seq(S), NEW m \in 1 .. Len(s) + 1, NEW k \in m - 1 .. Len(s)
  PROVE  /\ SubSeq(s, m, k) \in Seq(S) /\ Len(SubSeq(s, m, k)) = k - m + 1
         /\ \A i \in 1 .. k - m + 1 : SubSeq(s, m, k)[i] = s[m + i - 1]
BY SMTT(60)

\* The k-th of m frames with n blocks each has the blocks of the run from block (k - 1) * n on.
FrameOK(run, lastRun, n, m, k, frame) ==
  /\ frame.first = run.first + (k - 1) * n
  /\ frame.last <=> lastRun /\ k = m
  /\ frame.blocks \in Seq(Data) /\ Len(frame.blocks) \in 0 .. n
  /\ Len(frame.blocks) = IF k = m THEN Len(run.blocks) - (k - 1) * n ELSE n
  /\ \A i \in 1 .. Len(frame.blocks) : frame.blocks[i] = run.blocks[(k - 1) * n + i]

\* The frames of one range.
LEMMA FramesFacts ==
  ASSUME NEW run \in Run, NEW lastRun \in BOOLEAN, NEW n \in Nat \ {0}
  PROVE  /\ Len(FramesOf(run, lastRun, n)) \in Nat \ {0}
         /\ DOMAIN FramesOf(run, lastRun, n) = 1 .. Len(FramesOf(run, lastRun, n))
         /\ \A k \in 1 .. Len(FramesOf(run, lastRun, n)) :
              FrameOK(run, lastRun, n, Len(FramesOf(run, lastRun, n)), k, FramesOf(run, lastRun, n)[k])
<1> DEFINE len == Len(run.blocks)
           m == IF len = 0 THEN 1 ELSE (len + n - 1) \div n
           start(k) == (k - 1) * n
           end(k) == IF k * n < len THEN k * n ELSE len
           frame(k) == [first |-> run.first + start(k),
                        blocks |-> SubSeq(run.blocks, start(k) + 1, end(k)),
                        last |-> lastRun /\ end(k) = len]
           f == [k \in 1 .. m |-> frame(k)]
<1>1. FramesOf(run, lastRun, n) = f
  BY DEF FramesOf
<1>2. run.blocks \in Seq(Data) /\ run.first \in Nat /\ len \in Nat
  BY RunFields
<1>3. m \in Nat \ {0} /\ (len # 0 => (m - 1) * n < len /\ len <= m * n)
  <2>1. CASE len = 0
    BY SMTT(60), <2>1
  <2>2. CASE len # 0
    <3>1. m = (len + n - 1) \div n
      BY <2>2
    <3> HIDE DEF len, m
    <3> QED
      BY <1>2, <2>2, <3>1, FrameCount
  <2> QED
    BY <2>1, <2>2
<1> HIDE DEF len, m
<1>4. Len(f) = m /\ DOMAIN f = 1 .. m
  BY SMTT(60), <1>3
<1>5. ASSUME NEW k \in 1 .. m PROVE FrameOK(run, lastRun, n, m, k, frame(k))
  <2>1. /\ k \in Nat \ {0} /\ k - 1 \in Nat /\ start(k) \in Nat /\ k * n \in Nat
        /\ k * n = start(k) + n
    BY SMTT(60), <1>3
  <2>2. start(k) <= len
    <3>1. CASE len = 0
      BY SMTT(60), <1>3, <2>1, <3>1 DEF m
    <3>2. CASE len # 0
      <4>1. (k - 1) * n <= (m - 1) * n /\ (m - 1) * n \in Nat
        BY SMTT(60), <1>3, <2>1, Times
      <4> QED
        BY SMTT(60), <1>2, <1>3, <2>1, <3>2, <4>1
    <3> QED
      BY <3>1, <3>2
  <2>3. k = m => end(k) = len
    BY SMTT(60), <1>2, <1>3, <2>1
  <2>4. k # m => k * n < len
    <3>1. ASSUME k # m PROVE k * n < len
      <4>1. k <= m - 1 /\ m - 1 \in Nat /\ m # 1
        BY SMTT(60), <1>3, <2>1, <3>1
      <4>2. k * n <= (m - 1) * n /\ (m - 1) * n \in Nat
        BY <2>1, <4>1, Times
      <4>3. len # 0
        BY <4>1 DEF m
      <4> QED
        BY SMTT(60), <1>2, <1>3, <2>1, <4>2, <4>3
    <3> QED
      BY <3>1
  <2>5. /\ end(k) \in Nat /\ start(k) <= end(k) /\ end(k) <= len /\ end(k) - start(k) <= n
        /\ end(k) - start(k) = IF k = m THEN len - start(k) ELSE n
        /\ end(k) = len <=> k = m
    BY SMTT(60), <1>2, <2>1, <2>2, <2>3, <2>4
  <2> HIDE DEF start, end
  <2> DEFINE b == SubSeq(run.blocks, start(k) + 1, end(k))
  <2>6. /\ b \in Seq(Data) /\ Len(b) = end(k) - start(k)
        /\ \A i \in 1 .. Len(b) : b[i] = run.blocks[start(k) + i]
    <3>1. start(k) + 1 \in 1 .. Len(run.blocks) + 1 /\ end(k) \in (start(k) + 1) - 1 .. Len(run.blocks)
      BY SMTT(60), <1>2, <2>1, <2>5 DEF len
    <3>2. /\ b \in Seq(Data) /\ Len(b) = end(k) - (start(k) + 1) + 1
          /\ \A i \in 1 .. end(k) - (start(k) + 1) + 1 : b[i] = run.blocks[(start(k) + 1) + i - 1]
      BY <1>2, <3>1, PartOfSeq
    <3>3. end(k) - (start(k) + 1) + 1 = end(k) - start(k)
      BY SMTT(60), <2>1, <2>5
    <3>4. \A i \in 1 .. end(k) - start(k) : (start(k) + 1) + i - 1 = start(k) + i
      BY SMTT(60), <2>1, <2>5
    <3> HIDE DEF b
    <3> QED
      BY <3>2, <3>3, <3>4
  <2>7. frame(k).first = run.first + start(k) /\ frame(k).blocks = b /\ (frame(k).last <=> lastRun /\ end(k) = len)
    OBVIOUS
  <2> HIDE DEF b, frame
  <2>8. Len(b) \in 0 .. n
    BY SMTT(60), <2>1, <2>5, <2>6
  <2> QED
    BY <2>5, <2>6, <2>7, <2>8 DEF FrameOK, start, len
<1>6. \A k \in 1 .. m : f[k] = frame(k)
  OBVIOUS
<1> HIDE DEF f, frame
<1> QED
  BY <1>1, <1>3, <1>4, <1>5, <1>6

\* The ranges of an answer follow each other, and the page size of the database is known.
AnswerInv ==
  \A c \in Conn : conns[c].todo.op = "fetch" =>
    /\ conns[c].dbs[conns[c].todo.dbid].pageSize \in Nat
    /\ conns[c].todo.runs \in Seq(Run)
    /\ PlanOK(conns[c].todo)

\* What AnswerIsWhole says of frame k of m, of range n of t.
WholeFrame(t, n, last, f, k) ==
  /\ f[k].last <=> n = last /\ k = Len(f)
  /\ f[k].first = IF k = 1 THEN t.runs[n].first ELSE f[k-1].first + Len(f[k-1].blocks)
  /\ k = Len(f) => f[k].first + Len(f[k].blocks) = t.runs[n].first + Len(t.runs[n].blocks)
  /\ k = 1 /\ n > 1 => f[k].first >= t.runs[n-1].first + Len(t.runs[n-1].blocks)
  /\ \A i \in DOMAIN f[k].blocks : f[k].blocks[i] = t.runs[n].blocks[f[k].first + i - t.runs[n].first]

LEMMA FrameIsWhole ==
  ASSUME NEW c, NEW d, conns[c].dbs[d].pageSize \in Nat, NEW t, PlanOK(t), t.runs \in Seq(Run),
         NEW n \in 1 .. Len(t.runs),
         NEW f, f = FramesOf(t.runs[n], n = Len(t.runs), perFrame(c, d)),
         NEW k \in 1 .. Len(f)
  PROVE  f # <<>> /\ WholeFrame(t, n, Len(t.runs), f, k)
<1> DEFINE pf == perFrame(c, d)
           run == t.runs[n]
           m == Len(f)
           len == Len(run.blocks)
<1>1. pf \in Nat \ {0}
  BY FrameSize
<1>2. run \in Run
  BY SMTT(60)
<1>3. (n = Len(t.runs)) \in BOOLEAN
  OBVIOUS
<1>4. m \in Nat \ {0} /\ \A j \in 1 .. m : FrameOK(run, n = Len(t.runs), pf, m, j, f[j])
  BY <1>1, <1>2, <1>3, FramesFacts
<1>5. FrameOK(run, n = Len(t.runs), pf, m, k, f[k])
  BY <1>4
<1>6. run.first \in Nat /\ run.blocks \in Seq(Data) /\ len \in Nat
  BY <1>2, RunFields
<1>7. \A i \in 2 .. Len(t.runs) : t.runs[i].first >= t.runs[i-1].first + Len(t.runs[i-1].blocks)
  BY DEF PlanOK, Behind
<1>8. Len(t.runs) \in Nat /\ n \in Nat /\ n <= Len(t.runs) /\ n >= 1
  BY SMTT(60)
<1> HIDE DEF pf, m, len, run
<1>9. k \in Nat /\ k >= 1 /\ k <= m
  BY SMTT(60), <1>4 DEF m
<1>10. f # <<>>
  BY SMTT(60), <1>4 DEF m
<1>11. f[k].last <=> n = Len(t.runs) /\ k = m
  BY <1>5 DEF FrameOK
<1>12. f[k].first = run.first + (k - 1) * pf
  BY <1>5 DEF FrameOK
<1>13. f[k].first = IF k = 1 THEN run.first ELSE f[k-1].first + Len(f[k-1].blocks)
  <2>1. CASE k = 1
    <3>1. (k - 1) * pf = 0
      BY SMTT(60), <1>1, <2>1
    <3> QED
      BY SMTT(60), <1>6, <1>12, <2>1, <3>1
  <2>2. CASE k # 1
    <3>1. k - 1 \in 1 .. m /\ k - 1 # m
      BY SMTT(60), <1>4, <1>9, <2>2
    <3>2. f[k-1].first = run.first + ((k - 1) - 1) * pf /\ Len(f[k-1].blocks) = pf
      BY <1>4, <3>1 DEF FrameOK
    <3> DEFINE a == (k - 1) * pf
               b == ((k - 1) - 1) * pf
    <3>3. a = b + pf /\ a \in Nat /\ b \in Nat
      BY SMTT(60), <1>1, <1>9, <2>2
    <3>4. f[k].first = run.first + a /\ f[k-1].first = run.first + b
      BY <1>12, <3>2
    <3> HIDE DEF a, b
    <3>5. run.first + a = (run.first + b) + pf
      BY SMTT(60), <1>1, <1>6, <3>3
    <3> QED
      BY <2>2, <3>2, <3>4, <3>5
  <2> QED
    BY <2>1, <2>2
<1>14. k = m => f[k].first + Len(f[k].blocks) = run.first + len
  <2>1. k = m => Len(f[k].blocks) = len - (k - 1) * pf
    BY <1>5 DEF FrameOK, len
  <2>2. (k - 1) * pf \in Nat
    BY SMTT(60), <1>1, <1>9
  <2> QED
    BY SMTT(60), <1>6, <1>12, <2>1, <2>2
<1>15. k = 1 /\ n > 1 => f[k].first >= t.runs[n-1].first + Len(t.runs[n-1].blocks)
  <2>1. n > 1 => n \in 2 .. Len(t.runs)
    BY SMTT(60), <1>8
  <2>2. n > 1 => run.first >= t.runs[n-1].first + Len(t.runs[n-1].blocks)
    BY <1>7, <2>1 DEF run
  <2> QED
    BY <1>13, <2>2
<1>16. \A i \in DOMAIN f[k].blocks : f[k].blocks[i] = run.blocks[f[k].first + i - run.first]
  <2>1. f[k].blocks \in Seq(Data) /\ \A i \in 1 .. Len(f[k].blocks) : f[k].blocks[i] = run.blocks[(k - 1) * pf + i]
    BY <1>5 DEF FrameOK
  <2>2. DOMAIN f[k].blocks = 1 .. Len(f[k].blocks) /\ Len(f[k].blocks) \in Nat
    BY <2>1, SeqShape
  <2>3. (k - 1) * pf \in Nat
    BY SMTT(60), <1>1, <1>9
  <2>4. \A i \in 1 .. Len(f[k].blocks) : f[k].first + i - run.first = (k - 1) * pf + i
    BY SMTT(60), <1>6, <1>12, <2>2, <2>3
  <2> TAKE i \in DOMAIN f[k].blocks
  <2>5. f[k].blocks[i] = run.blocks[(k - 1) * pf + i] /\ f[k].first + i - run.first = (k - 1) * pf + i
    BY <2>1, <2>2, <2>4
  <2> QED
    BY <2>5
<1> QED
  BY <1>10, <1>11, <1>13, <1>14, <1>15, <1>16 DEF WholeFrame, m, len, run

\* The frames of range n of the answer of connection c.
LEMMA AnswerPages ==
  ASSUME NEW c \in Conn, conns[c].dbs[conns[c].todo.dbid].pageSize \in Nat, conns[c].todo.runs \in Seq(Run),
         NEW n \in DOMAIN Pages(c)
  PROVE  LET t == conns[c].todo
             pf == perFrame(c, t.dbid)
             f == Pages(c)[n]
         IN  /\ n \in 1 .. Len(t.runs) /\ Len(Pages(c)) = Len(t.runs) /\ t.runs[n] \in Run
             /\ f = FramesOf(t.runs[n], n = Len(t.runs), pf)
             /\ DOMAIN f = 1 .. Len(f) /\ Len(f) \in Nat \ {0}
             /\ \A k \in DOMAIN f : Len(f[k].blocks) \in 0 .. pf
<1> DEFINE t == conns[c].todo
           pf == perFrame(c, t.dbid)
           last == n = Len(t.runs)
<1>1. Pages(c) = [i \in DOMAIN t.runs |-> FramesOf(t.runs[i], i = Len(t.runs), pf)]
  BY DEF Pages
<1>2. pf \in Nat \ {0}
  BY FrameSize
<1> HIDE DEF t, pf
<1>3. DOMAIN t.runs = 1 .. Len(t.runs) /\ Len(t.runs) \in Nat
  BY SeqShape DEF t
<1>4. DOMAIN Pages(c) = 1 .. Len(t.runs) /\ Len(Pages(c)) = Len(t.runs)
  BY SMTT(60), <1>1, <1>3
<1>5. n \in 1 .. Len(t.runs) /\ Pages(c)[n] = FramesOf(t.runs[n], last, pf)
  BY <1>1, <1>3, <1>4
<1>6. t.runs[n] \in Run /\ last \in BOOLEAN
  BY SMTT(60), <1>5 DEF t
<1> HIDE DEF last
<1>7. /\ DOMAIN Pages(c)[n] = 1 .. Len(Pages(c)[n]) /\ Len(Pages(c)[n]) \in Nat \ {0}
      /\ \A k \in 1 .. Len(Pages(c)[n]) :
           FrameOK(t.runs[n], last, pf, Len(Pages(c)[n]), k, Pages(c)[n][k])
  BY <1>2, <1>5, <1>6, FramesFacts
<1>8. \A k \in DOMAIN Pages(c)[n] : Len(Pages(c)[n][k].blocks) \in 0 .. pf
  BY <1>7 DEF FrameOK
<1> QED
  BY <1>4, <1>5, <1>6, <1>7, <1>8 DEF last, t, pf

\* So the frames of an answer are whole.
LEMMA AnswerFrames ==
  ASSUME AnswerInv PROVE AnswerIsWhole
<1> SUFFICES ASSUME NEW c \in Conn, conns[c].todo.op = "fetch", NEW n \in DOMAIN Pages(c)
             PROVE  /\ Pages(c)[n] # <<>>
                    /\ \A k \in DOMAIN Pages(c)[n] :
                         WholeFrame(conns[c].todo, n, Len(Pages(c)), Pages(c)[n], k)
  BY DEF AnswerIsWhole, WholeFrame
<1> DEFINE t == conns[c].todo
<1>1. conns[c].dbs[t.dbid].pageSize \in Nat /\ t.runs \in Seq(Run) /\ PlanOK(t)
  BY DEF AnswerInv
<1>2. /\ n \in 1 .. Len(t.runs) /\ Len(Pages(c)) = Len(t.runs)
      /\ Pages(c)[n] = FramesOf(t.runs[n], n = Len(t.runs), perFrame(c, t.dbid))
      /\ DOMAIN Pages(c)[n] = 1 .. Len(Pages(c)[n]) /\ Len(Pages(c)[n]) \in Nat \ {0}
  BY <1>1, AnswerPages
<1> HIDE DEF t
<1>3. 1 \in 1 .. Len(Pages(c)[n])
  BY SMTT(60), <1>2
<1>4. \A k \in 1 .. Len(Pages(c)[n]) : Pages(c)[n] # <<>> /\ WholeFrame(t, n, Len(t.runs), Pages(c)[n], k)
  BY <1>1, <1>2, FrameIsWhole
<1> QED
  BY <1>2, <1>3, <1>4 DEF t

\* At the start nothing is fetched.
LEMMA PlanInit ==
  ASSUME ProtocolInit PROVE FileSizes /\ PlanInv
<1>1. \A c \in Conn : conns[c].todo = Idle
  BY DEF ProtocolInit
<1>2. PlanInv
  BY <1>1, IdleKind DEF PlanInv
<1>3. \A k \in Key : dbs[k] = NoDatabase
  BY DEF ProtocolInit, StoreInit
<1>4. FileSizes
  BY SMTT(60), <1>3, NoDatabaseFields, ConstantsAssumption DEF FileSizes
<1> QED
  BY <1>2, <1>4

\* Every step keeps the plans and the bound on files.
LEMMA PlanKept ==
  ASSUME StoreTypeOK, StoreInv, ConnsOK, FileSizes, PlanInv, [ProtocolNext]_protocolVars
  PROVE  FileSizes' /\ PlanInv'
<1>1. CASE ProtocolNext
  <2>1. [StoreNext]_vars
    BY <1>1, ProtocolStep DEF StepOK
  <2> QED
    BY <1>1, <2>1, StepEffect, FileSizesStep, PlanInvStep
<1>2. CASE UNCHANGED protocolVars
  <2>1. dbs' = dbs /\ conns' = conns
    BY <1>2 DEF protocolVars, vars
  <2> QED
    BY <2>1 DEF FileSizes, PlanInv, IsOpen, PlanOK, Behind, Disjoint
<1> QED
  BY <1>1, <1>2

(***************************************************************************)
(* The frames that answer a Fetch hold all its blocks, in order, each      *)
(* once, with Last on the last one only: for any ranges, wrapping and      *)
(* empty ones included, any number of blocks per frame, and whatever       *)
(* happens to the database between the calls of the store.                 *)
(***************************************************************************)
THEOREM AnswerIsWholeHolds == ProtocolSpec => []AnswerIsWhole
<1> DEFINE Base == StoreTypeOK /\ StoreInv /\ ConnsOK
<1>1. ProtocolInit => FileSizes /\ PlanInv
  BY PlanInit
<1>2. Base /\ FileSizes /\ PlanInv /\ [ProtocolNext]_protocolVars => FileSizes' /\ PlanInv'
  BY PlanKept
<1>3. Base /\ PlanInv => AnswerIsWhole
  <2> SUFFICES ASSUME Base, PlanInv, NEW c \in Conn, conns[c].todo.op = "fetch"
               PROVE  /\ conns[c].dbs[conns[c].todo.dbid].pageSize \in Nat
                      /\ conns[c].todo.runs \in Seq(Run)
                      /\ PlanOK(conns[c].todo)
    BY AnswerFrames DEF AnswerInv
  <2>1. conns[c] \in ConnState
    BY DEF ConnsOK
  <2>2. conns[c].todo.dbid \in DBID /\ conns[c].todo.runs \in Seq(Run)
    BY <2>1, TodoKinds DEF ConnState, Run
  <2>3. conns[c].dbs[conns[c].todo.dbid] \in OpenDB
    BY <2>1, <2>2 DEF ConnState, PlanInv, IsOpen
  <2>4. conns[c].dbs[conns[c].todo.dbid].pageSize \in Nat
    BY <2>3 DEF OpenDB
  <2> QED
    BY <2>2, <2>4 DEF PlanInv
<1>4. ProtocolSpec => []Base
  BY ProtocolInvariant, PTL
<1> QED
  BY <1>1, <1>2, <1>3, <1>4, PTL DEF ProtocolSpec
-----------------------------------------------------------------------------
(* The size of the frames *)

\* Connection c has the lease on d.
Leased(c, d) == LeaseOn(c, d).life = life[KeyOf(c, d)] /\ Holds(dbs[KeyOf(c, d)], LeaseOn(c, d).epoch)

(***************************************************************************)
(* The inductive invariant behind FramesFit: while a connection has its    *)
(* lease, the database has the page size it had at Open, and the blocks    *)
(* read so far have it too.                                                *)
(***************************************************************************)
LiveSizes == \A k \in Key : dbs[k].status = "live" => dbs[k].pageSize \in PageSize
OpenSizes ==
  \A c \in Conn, d \in DBID :
    IsOpen(c, d) /\ Leased(c, d) => conns[c].dbs[d].pageSize = dbs[KeyOf(c, d)].pageSize
RunSizes ==
  \A c \in Conn : LET t == conns[c].todo IN
    t.op = "fetch" /\ Leased(c, t.dbid) =>
      \A n \in DOMAIN t.runs : t.runs[n].size = dbs[KeyOf(c, t.dbid)].pageSize

\* A database that is created gets one of the page sizes.
LEMMA LiveSizesStep ==
  ASSUME StoreTypeOK, StoreInv, LiveSizes, [StoreNext]_vars
  PROVE  LiveSizes'
<1> SUFFICES ASSUME NEW k \in Key, dbs'[k].status = "live" PROVE dbs'[k].pageSize \in PageSize
  BY DEF LiveSizes
<1>0. dbs[k] \in Database
  BY DEF StoreTypeOK
<1>1. ASSUME NEW key \in Key, NEW req \in OpenRequest(key), Grants(key, req), OpenGrant(req)
      PROVE  dbs'[k].pageSize \in PageSize
  <2>1. dbs[key].status # "live" => req.pageSize \in PageSize
    <3>1. OpenOutcome(req) = "granted" /\ req.key = key
      BY <1>1 DEF OpenGrant, Grants
    <3> QED
      BY <3>1 DEF OpenOutcome
  <2>2. CASE k = key
    <3>1. dbs'[k] = Granted(dbs[k], req)
      BY <1>1, <2>2, GrantStep
    <3>2. dbs'[k].pageSize = IF dbs[k].status = "live" THEN dbs[k].pageSize ELSE req.pageSize
      BY <1>0, <3>1 DEF Granted, Database
    <3> QED
      BY <2>1, <2>2, <3>2 DEF LiveSizes
  <2>3. CASE k # key
    BY <1>1, <2>3, GrantStep DEF LiveSizes
  <2> QED
    BY <2>2, <2>3
<1>2. ASSUME NEW req, NEW t, Applies(req, t) PROVE dbs'[k].pageSize \in PageSize
  <2>1. dbs'[k] = dbs[k] \/ dbs'[k] = Committed(dbs[k], req, t)
    BY <1>2, ApplyStep
  <2> QED
    BY SMTT(60), <1>0, <2>1, CommittedFields DEF LiveSizes
<1>3. CASE Quiet
  <2>1. Kept(dbs[k], dbs'[k])
    BY <1>0, <1>3, DeletedFields, NoDatabaseFields DEF Quiet
  <2> QED
    BY <2>1 DEF Kept, LiveSizes
<1> QED
  BY <1>1, <1>2, <1>3, Effects

\* A lease that is good after a step was good before, and the page size is the same.
LEMMA LeasedBefore ==
  ASSUME StoreTypeOK, StoreInv, [StoreNext]_vars, NEW l \in leases, NEW key \in Key, l.key = key,
         l.life = life'[key], Holds(dbs'[key], l.epoch)
  PROVE  /\ l.life = life[key] /\ Holds(dbs[key], l.epoch)
         /\ dbs'[key].pageSize = dbs[key].pageSize
<1>0. dbs[key] \in Database /\ dbs'[key].holder # None /\ dbs'[key].epoch = l.epoch /\ l.epoch \in Nat
  BY DEF StoreTypeOK, Holds, Lease
<1>1. ASSUME NEW k \in Key, NEW req, Grants(k, req) PROVE dbs'[key] = dbs[key] /\ life' = life
  <2>1. life' = life /\ (k # key => dbs'[key] = dbs[key])
    BY <1>1, GrantStep
  <2>2. CASE k = key
    <3>1. dbs'[key].epoch = dbs[key].epoch + 1
      BY SMTT(60), <1>0, <1>1, <2>2, GrantStep, GrantedFields
    <3>2. l.epoch <= dbs[key].epoch /\ dbs[key].epoch \in Nat
      BY <1>0, <2>1 DEF StoreInv, Database
    <3> QED
      BY SMTT(60), <1>0, <3>1, <3>2
  <2> QED
    BY <2>1, <2>2
<1>2. ASSUME NEW req, NEW t, Applies(req, t)
      PROVE  /\ life' = life /\ dbs'[key].holder = dbs[key].holder /\ dbs'[key].epoch = dbs[key].epoch
             /\ dbs'[key].pageSize = dbs[key].pageSize
  <2>1. life' = life /\ (dbs'[key] = dbs[key] \/ dbs'[key] = Committed(dbs[key], req, t))
    BY <1>2, ApplyStep
  <2>2. Committed(dbs[key], req, t).holder = dbs[key].holder
    BY <1>0 DEF Committed, Database
  <2> QED
    BY SMTT(60), <1>0, <2>1, <2>2, CommittedFields
<1>3. ASSUME Quiet PROVE life'[key] = life[key] /\ Kept(dbs[key], dbs'[key])
  BY <1>0, <1>3, DeletedFields, NoDatabaseFields DEF Quiet
<1> QED
  BY <1>0, <1>1, <1>2, <1>3, Effects DEF Holds, Kept

\* The open handler notes the page size.
LEMMA OpenNotesSize ==
  ASSUME ConnsOK, NEW c \in Conn, NEW d \in DBID, OpenCall(c, d)
  PROVE  conns'[c].dbs[d].pageSize = dbs'[KeyOf(c, d)].pageSize
<1>1. PICK l, n : Opened(c, d, l, n)
  BY DEF OpenCall
<1> DEFINE v == [lease |-> l, pageSize |-> dbs'[KeyOf(c, d)].pageSize, renewed |-> n]
           t == [op |-> "set", dbid |-> d, epoch |-> l.epoch]
<1>2. conns' = [conns EXCEPT ![c].dbs[d] = v, ![c].todo = t] /\ v.pageSize = dbs'[KeyOf(c, d)].pageSize
  BY <1>1 DEF Opened
<1> HIDE DEF v, t
<1> QED
  BY <1>2 DEF ConnsOK, ConnState

\* The lease of a database that stays open, before and after a step.
LEMMA SameLeased ==
  ASSUME StoreTypeOK, StoreInv, ConnsOK, [StoreNext]_vars, NEW c \in Conn, NEW d \in DBID, Same(c, d),
         IsOpen(c, d), Leased(c, d)'
  PROVE  Leased(c, d) /\ dbs'[KeyOf(c, d)].pageSize = dbs[KeyOf(c, d)].pageSize
<1> DEFINE l == LeaseOn(c, d)
           key == KeyOf(c, d)
<1>1. key \in Key /\ l \in leases /\ l.key = key
  BY KeyOfType DEF ConnsOK, ConnInv, LeasesOK, IsOpen, LeaseOn
<1>2. l.life = life'[key] /\ Holds(dbs'[key], l.epoch)
  BY DEF Same, Leased, KeyOf, Holds
<1> HIDE DEF l, key
<1>3. l.life = life[key] /\ Holds(dbs[key], l.epoch) /\ dbs'[key].pageSize = dbs[key].pageSize
  BY <1>1, <1>2, LeasedBefore
<1> QED
  BY <1>3 DEF Leased, l, key

\* Every step keeps the noted page sizes those of the databases.
LEMMA OpenSizesStep ==
  ASSUME StoreTypeOK, StoreInv, ConnsOK, OpenSizes, ProtocolNext, [StoreNext]_vars
  PROVE  OpenSizes'
<1> SUFFICES ASSUME NEW x \in Conn, NEW e \in DBID, IsOpen(x, e)', Leased(x, e)'
             PROVE  conns'[x].dbs[e].pageSize = dbs'[KeyOf(x, e)].pageSize
  BY DEF OpenSizes, KeyOf
<1>1. ASSUME Same(x, e) PROVE conns'[x].dbs[e].pageSize = dbs'[KeyOf(x, e)].pageSize
  <2>1. IsOpen(x, e) /\ conns'[x].dbs[e].pageSize = conns[x].dbs[e].pageSize
    BY <1>1 DEF Same
  <2>2. Leased(x, e) /\ dbs'[KeyOf(x, e)].pageSize = dbs[KeyOf(x, e)].pageSize
    BY <1>1, <2>1, SameLeased
  <2> QED
    BY <2>1, <2>2 DEF OpenSizes
<1>2. ASSUME NEW c \in Conn, NEW d \in DBID, OpenCall(c, d)
      PROVE  conns'[x].dbs[e].pageSize = dbs'[KeyOf(x, e)].pageSize
  <2>1. CASE x = c /\ e = d
    BY <1>2, <2>1, OpenNotesSize
  <2>2. CASE <<x, e>> # <<c, d>>
    BY <1>1, <1>2, <2>2, OpenOpens
  <2> QED
    BY <2>1, <2>2
<1>3. CASE \E c \in Conn : CloseRemove(c) \/ End(c)
  BY <1>1, <1>3, CloseCloses, EndCloses
<1>4. CASE \A c \in Conn : ~CloseRemove(c) /\ ~End(c) /\ \A d \in DBID : ~OpenCall(c, d)
  BY <1>1, <1>4, OthersKeep DEF Keeps
<1> QED
  BY <1>2, <1>3, <1>4

\* Every step keeps the size of what has been read that of the database.
LEMMA RunSizesStep ==
  ASSUME StoreTypeOK, StoreInv, ConnsOK, PlanInv, RunSizes, ProtocolNext, [StoreNext]_vars
  PROVE  RunSizes'
<1> SUFFICES ASSUME NEW x \in Conn, NEW d, conns'[x].todo.op = "fetch", conns'[x].todo.dbid = d, Leased(x, d)'
             PROVE  \A n \in DOMAIN conns'[x].todo.runs :
                      conns'[x].todo.runs[n].size = dbs'[KeyOf(x, d)].pageSize
  BY DEF RunSizes, Leased, LeaseOn, KeyOf
<1>1. CASE conns'[x].todo = conns[x].todo
  <2>1. d \in DBID /\ IsOpen(x, d)
    BY <1>1, TodoKinds DEF ConnsOK, ConnState, PlanInv
  <2>2. Same(x, d)
    BY <1>1, <2>1, FetchKeepsSame
  <2>3. Leased(x, d) /\ dbs'[KeyOf(x, d)].pageSize = dbs[KeyOf(x, d)].pageSize
    BY <2>1, <2>2, SameLeased
  <2> QED
    BY <1>1, <2>3 DEF RunSizes
<1>2. ASSUME UNCHANGED vars, Keeps, NEW e \in DBID, NEW t, FetchStep(x, e, t)
      PROVE  \A n \in DOMAIN conns'[x].todo.runs : conns'[x].todo.runs[n].size = dbs'[KeyOf(x, d)].pageSize
  <2> DEFINE u == FetchNext(x, e, t)
             db == dbs[KeyOf(x, d)]
  <2>1. Midst(t) /\ conns'[x].todo = u /\ u.op = "fetch" /\ dbs' = dbs
    BY <1>2 DEF FetchStep, vars
  <2>2. PICK run \in Run : u.dbid = e /\ u.runs = Append(t.runs, run) /\ run.size = dbs[KeyOf(x, e)].pageSize
    BY SMTT(60), <2>1, FetchNextFields DEF GoesOn
  <2>a. d = e /\ d \in DBID /\ run.size = db.pageSize
    BY <2>1, <2>2
  <2>3. IsOpen(x, d)
    BY <1>2, <2>a, FetchPlan
  <2>4. Leased(x, d)
    <3>1. Same(x, d)
      BY <1>2, <2>a DEF Keeps
    <3> QED
      BY <2>3, <2>a, <3>1, SameLeased
  <2> HIDE DEF u
  <2>5. \A n \in DOMAIN t.runs : t.runs[n].size = db.pageSize
    <3>1. CASE t.runs = <<>>
      BY SMTT(60), <3>1
    <3>2. CASE t = conns[x].todo /\ t.op = "fetch" /\ t.dbid = d
      BY <2>4, <2>a, <3>2 DEF RunSizes
    <3> QED
      BY <1>2, <2>a, <3>1, <3>2 DEF FetchStep
  <2> HIDE DEF db
  <2>6. /\ Len(t.runs) \in Nat /\ DOMAIN t.runs = 1 .. Len(t.runs)
        /\ DOMAIN u.runs = 1 .. Len(t.runs) + 1 /\ u.runs[Len(t.runs) + 1] = run
        /\ \A n \in 1 .. Len(t.runs) : u.runs[n] = t.runs[n]
    <3>1. t.runs \in Seq(Run)
      BY <2>1 DEF Midst
    <3>2. Len(t.runs) \in Nat /\ DOMAIN t.runs = 1 .. Len(t.runs)
      BY <3>1, SeqShape
    <3>3. /\ u.runs \in Seq(Run) /\ Len(u.runs) = Len(t.runs) + 1 /\ u.runs[Len(t.runs) + 1] = run
          /\ \A n \in 1 .. Len(t.runs) : u.runs[n] = t.runs[n]
      BY SMTT(60), <2>2, <3>1, AppendedSeq
    <3>4. DOMAIN u.runs = 1 .. Len(u.runs)
      BY <3>3, SeqShape
    <3> QED
      BY <3>2, <3>3, <3>4
  <2>7. \A n \in DOMAIN u.runs : u.runs[n].size = db.pageSize
    <3>1. \A n \in 1 .. Len(t.runs) + 1 : n \in 1 .. Len(t.runs) \/ n = Len(t.runs) + 1
      BY SMTT(60), <2>6
    <3> QED
      BY <2>5, <2>6, <2>a, <3>1
  <2> QED
    BY <2>1, <2>7 DEF db
<1> QED
  BY <1>1, <1>2, FetchTodo

\* So the frames are no larger than allowed.
LEMMA SizesFit ==
  ASSUME StoreTypeOK, StoreInv, ConnsOK, PlanInv, LiveSizes, OpenSizes, RunSizes
  PROVE  FramesFit
<1> SUFFICES ASSUME NEW c \in Conn, conns[c].todo.op = "fetch", Leased(c, conns[c].todo.dbid),
                    NEW n \in DOMAIN Pages(c), NEW k \in DOMAIN Pages(c)[n]
             PROVE  pagesFrameOverhead
                      + Len(Pages(c)[n][k].blocks) * (conns[c].todo.runs[n].size + pagesBlockOverhead)
                      <= MaxFrameBytes
  BY DEF FramesFit, Leased
<1> DEFINE t == conns[c].todo
           d == t.dbid
           key == KeyOf(c, d)
           ps == conns[c].dbs[d].pageSize
           len == Len(Pages(c)[n][k].blocks)
<1>1. d \in DBID /\ t.runs \in Seq(Run) /\ IsOpen(c, d)
  BY TodoKinds DEF ConnsOK, ConnState, PlanInv, Run
<1>2. ps = dbs[key].pageSize
  BY <1>1 DEF OpenSizes
<1>3. ps \in PageSize
  <2>1. key \in Key /\ dbs[key].holder # None
    BY <1>1, KeyOfType DEF Leased, Holds
  <2> HIDE DEF key
  <2> QED
    BY <1>2, <2>1 DEF LiveSizes, StoreInv
<1>4. ps \in Nat
  BY <1>3, PageSizeType
<1>5. n \in DOMAIN t.runs /\ len \in 0 .. perFrame(c, d)
  <2>1. n \in 1 .. Len(t.runs) /\ len \in 0 .. perFrame(c, d)
    BY <1>1, <1>4, AnswerPages
  <2> QED
    BY <1>1, <2>1, SeqShape
<1>6. t.runs[n].size = ps
  BY <1>2, <1>5 DEF RunSizes
<1>7. pagesFrameOverhead + len * (ps + pagesBlockOverhead) <= MaxFrameBytes \/ len = 1
  BY <1>4, <1>5, FrameSize
<1>8. MaxFrameBytes >= pagesFrameOverhead + ps + pagesBlockOverhead
  BY <1>3, ProtocolAssumption
<1> HIDE DEF t, len, ps
<1>9. len = 1 => pagesFrameOverhead + len * (ps + pagesBlockOverhead) <= MaxFrameBytes
  BY SMTT(60), <1>4, <1>8, ProtocolAssumption DEF pagesFrameOverhead, pagesBlockOverhead
<1> QED
  BY <1>6, <1>7, <1>9 DEF t, len

(***************************************************************************)
(* No frame of an answer is larger than MaxFrameBytes as long as the       *)
(* client has its lease, for all page sizes that fit into a frame and any  *)
(* number of deletions, new databases of the same name and takeovers.      *)
(***************************************************************************)
THEOREM FramesFitHolds == ProtocolSpec => []FramesFit
<1> DEFINE Base == StoreTypeOK /\ StoreInv /\ ConnsOK
           Inv == FileSizes /\ PlanInv /\ LiveSizes /\ OpenSizes /\ RunSizes
<1>1. ProtocolInit => Inv
  <2> SUFFICES ASSUME ProtocolInit PROVE LiveSizes /\ OpenSizes /\ RunSizes
    BY PlanInit
  <2>1. \A c \in Conn : conns[c].todo = Idle /\ \A d \in DBID : ~IsOpen(c, d)
    BY DEF ProtocolInit, IsOpen
  <2>2. \A k \in Key : dbs[k] = NoDatabase
    BY DEF ProtocolInit, StoreInit
  <2> QED
    BY <2>1, <2>2, IdleKind, NoDatabaseFields DEF LiveSizes, OpenSizes, RunSizes
<1>2. Base /\ Inv /\ [ProtocolNext]_protocolVars => Inv'
  <2> SUFFICES ASSUME Base, Inv, [ProtocolNext]_protocolVars PROVE Inv'
    OBVIOUS
  <2>1. FileSizes' /\ PlanInv'
    BY PlanKept
  <2>2. CASE ProtocolNext
    <3>1. [StoreNext]_vars
      BY <2>2, ProtocolStep DEF StepOK
    <3>2. LiveSizes'
      BY <3>1, LiveSizesStep
    <3>3. OpenSizes'
      BY <2>2, <3>1, OpenSizesStep
    <3>4. RunSizes'
      BY <2>2, <3>1, RunSizesStep
    <3> QED
      BY <2>1, <3>2, <3>3, <3>4
  <2>3. CASE UNCHANGED protocolVars
    <3>1. dbs' = dbs /\ life' = life /\ conns' = conns
      BY <2>3 DEF protocolVars, vars
    <3>2. LiveSizes'
      BY <3>1 DEF LiveSizes
    <3>3. OpenSizes'
      BY <3>1 DEF OpenSizes, IsOpen, Leased, LeaseOn, KeyOf, Holds
    <3>4. RunSizes'
      BY <3>1 DEF RunSizes, Leased, LeaseOn, KeyOf, Holds
    <3> QED
      BY <2>1, <3>2, <3>3, <3>4
  <2> QED
    BY <2>2, <2>3
<1>3. Base /\ Inv => FramesFit
  BY SizesFit
<1>4. ProtocolSpec => []Base
  BY ProtocolInvariant, PTL
<1> QED
  BY <1>1, <1>2, <1>3, <1>4, PTL DEF ProtocolSpec
=============================================================================
