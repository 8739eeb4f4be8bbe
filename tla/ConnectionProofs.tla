-------------------------- MODULE ConnectionProofs --------------------------
(***************************************************************************)
(* What a connection does.  No partial commit reaches the store, for any   *)
(* headers, payloads, limits and frames; logins end in time, for any       *)
(* number of connections, timeouts and lifetimes of tokens; and the cache  *)
(* of the keys that check tokens keeps its promises for every choice of    *)
(* its times and any number of keys.                                       *)
(***************************************************************************)
EXTENDS CommitParts, Login, TokenKeys, FiniteSetTheorems, TLAPS

USE ZenonT(60), SMTT(60)

-----------------------------------------------------------------------------
(* The parts of a commit *)

PartsInv == PartsTypeOK /\ PendingIsPrefix /\ WholeCommits

\* A frame more leaves the parts found before in place.
LEMMA PartsOfStays ==
  ASSUME PartsTypeOK, NEW frame \in Frame, frames' = Append(frames, frame),
         NEW header, NEW blocks, Len(blocks) \in Nat, NEW last \in Nat,
         PartsOf(header, blocks, last)
  PROVE  PartsOf(header, blocks, last)' /\ frames'[last] = frames[last]
<1>1. /\ Len(frames) \in Nat /\ Len(frames') = Len(frames) + 1
      /\ \A i \in 1 .. Len(frames) : frames'[i] = frames[i]
  BY SMTT(60) DEF PartsTypeOK
<1>2. \A k \in 1 .. Len(blocks) : last - Len(blocks) + k \in 1 .. Len(frames)
  BY SMTT(60), <1>1 DEF PartsOf
<1>3. last \in 1 .. Len(frames)
  BY SMTT(60), <1>1 DEF PartsOf
<1> QED
  BY SMTT(60), <1>1, <1>2, <1>3 DEF PartsOf

\* A commit with the blocks of one more frame: the frame is the next part.
LEMMA PartsOfGrows ==
  ASSUME PartsTypeOK, NEW frame \in Frame, frames' = Append(frames, frame),
         NEW blocks \in Seq(Payload), frame.part = Len(blocks), NEW last, last = Len(frames) + 1,
         \/ blocks = <<>>
         \/ PartsOf(frame.header, blocks, Len(frames)) /\ frames[Len(frames)].more
  PROVE  PartsOf(frame.header, Append(blocks, frame.payload), last)'
<1> DEFINE n == Len(blocks)
           new == Append(blocks, frame.payload)
           N == Len(frames)
<1>1. N \in Nat /\ Len(frames') = N + 1 /\ frames'[N + 1] = frame
      /\ \A i \in 1 .. N : frames'[i] = frames[i]
  BY SMTT(60) DEF PartsTypeOK
<1>2. n \in Nat /\ Len(new) = n + 1 /\ new[n + 1] = frame.payload /\ \A k \in 1 .. n : new[k] = blocks[k]
  BY SMTT(60) DEF Frame
<1>3. n <= N
  BY SMTT(60), <1>1, <1>2 DEF PartsOf
<1>4. ASSUME NEW k \in 1 .. n + 1
      PROVE  /\ frames'[N - n + k].header = frame.header
             /\ frames'[N - n + k].part = k - 1
             /\ frames'[N - n + k].payload = new[k]
             /\ k < n + 1 => frames'[N - n + k].more
  <2>1. CASE k = n + 1
    <3>1. N - n + k = N + 1 /\ k - 1 = n
      BY SMTT(60), <1>1, <1>2, <2>1
    <3> QED
      BY SMTT(60), <1>1, <1>2, <2>1, <3>1
  <2>2. CASE k # n + 1
    <3>1. k \in 1 .. n /\ N - n + k \in 1 .. N /\ blocks # <<>>
      BY SMTT(60), <1>1, <1>2, <1>3, <2>2
    <3>2. /\ frames[N - n + k].header = frame.header
          /\ frames[N - n + k].part = k - 1
          /\ frames[N - n + k].payload = blocks[k]
          /\ k < n => frames[N - n + k].more
      BY <3>1 DEF PartsOf
    <3>3. k = n => N - n + k = N
      BY SMTT(60), <1>1, <1>2
    <3>4. frames[N - n + k].more
      BY SMTT(60), <3>1, <3>2, <3>3, <1>2
    <3> QED
      BY <1>1, <1>2, <3>1, <3>2, <3>4
  <2> QED
    BY <2>1, <2>2
<1> HIDE DEF n, new, N
<1>5. /\ Len(new) > 0 /\ Len(new) <= last /\ last <= Len(frames')
      /\ \A k \in 1 .. Len(new) : last - Len(new) + k = N - n + k /\ k \in 1 .. n + 1
  <2>1. last = N + 1
    BY DEF N
  <2>2. N \in Nat /\ n \in Nat /\ Len(new) = n + 1 /\ Len(frames') = N + 1
    BY <1>1, <1>2
  <2>3. \A k \in 1 .. n + 1 : N + 1 - (n + 1) + k = N - n + k
    BY SMTT(60), <2>2
  <2> QED
    BY SMTT(60), <1>3, <2>1, <2>2, <2>3
<1>6. \A k \in 1 .. Len(new) :
        /\ frames'[last - Len(new) + k].header = frame.header
        /\ frames'[last - Len(new) + k].part = k - 1
        /\ frames'[last - Len(new) + k].payload = new[k]
        /\ k < Len(new) => frames'[last - Len(new) + k].more
  BY <1>2, <1>4, <1>5
<1>7. PartsOf(frame.header, new, last)'
  BY <1>5, <1>6 DEF PartsOf
<1> QED
  BY <1>7 DEF new

\* Types and both facts are preserved when a frame is received.
LEMMA ReceiveKeepsInv ==
  ASSUME PartsInv, NEW frame \in Frame, Receive(frame)
  PROVE  PartsInv'
<1> USE PartsAssumption
<1> DEFINE commit == Extend(IF frame.part = 0 THEN Started(frame) ELSE pending, frame)
           new == [header |-> commit.header, blocks |-> commit.blocks,
                   size |-> commit.size, at |-> Len(frames) + 1]
<1>1. /\ open' = open /\ frames' = Append(frames, frame) /\ frames' \in Seq(Frame)
      /\ Len(frames) \in Nat /\ Len(frames') = Len(frames) + 1 /\ frames'[Len(frames) + 1] = frame
  BY SMTT(60) DEF Receive, PartsInv, PartsTypeOK
<1>2. \A c \in stored : PartsOf(c.header, c.blocks, c.at)' /\ ~frames'[c.at].more
  <2> SUFFICES ASSUME NEW c \in stored
               PROVE  PartsOf(c.header, c.blocks, c.at)' /\ ~frames'[c.at].more
    OBVIOUS
  <2>1. Len(c.blocks) \in Nat /\ c.at \in Nat
    BY SMTT(60) DEF PartsInv, PartsTypeOK
  <2>2. PartsOf(c.header, c.blocks, c.at) /\ ~frames[c.at].more
    BY DEF PartsInv, WholeCommits
  <2> QED
    BY <1>1, <2>1, <2>2, PartsOfStays DEF PartsInv
<1>3. CASE pending' \in {pending, NoCommit} /\ (pending' # NoCommit => ~open) /\ UNCHANGED stored
  BY <1>1, <1>2, <1>3 DEF PartsInv, PartsTypeOK, PendingIsPrefix, WholeCommits
<1>4. CASE Take(frame)
  <2> DEFINE base == IF frame.part = 0 THEN Started(frame) ELSE pending
  <2>1. base \in Pending /\ base.header = frame.header /\ base.nextPart = Len(base.blocks)
        /\ base.nextPart = frame.part
        /\ \/ base.blocks = <<>>
           \/ PartsOf(frame.header, base.blocks, Len(frames)) /\ frames[Len(frames)].more
    <3>1. CASE frame.part = 0
      <4>1. <<>> \in Seq(Payload) /\ Len(<<>>) = 0
        BY SMTT(60)
      <4> QED
        BY <3>1, <4>1 DEF Started, Pending, Frame
    <3>2. CASE frame.part # 0
      <4>1. pending # NoCommit /\ frame.part = pending.nextPart /\ frame.header = pending.header
        BY <1>4, <3>2 DEF Take, Continues
      <4> QED
        BY <3>2, <4>1 DEF PartsInv, PartsTypeOK, PendingIsPrefix
    <3> QED
      BY <3>1, <3>2
  <2> HIDE DEF base
  <2>2. /\ base.blocks \in Seq(Payload) /\ base.nextPart \in Nat /\ base.size \in Nat
        /\ frame.payload \in Payload /\ Size(frame.payload) \in Nat /\ frame.header \in Header
    BY <2>1 DEF Pending, Frame
  <2>3. Append(base.blocks, frame.payload) \in Seq(Payload)
        /\ Len(Append(base.blocks, frame.payload)) = Len(base.blocks) + 1
        /\ base.nextPart + 1 \in Nat /\ base.size + Size(frame.payload) \in Nat
    BY SMTT(60), <2>2
  <2>4. /\ commit.header = frame.header /\ commit.nextPart = base.nextPart + 1
        /\ commit.blocks = Append(base.blocks, frame.payload)
        /\ commit.size = base.size + Size(frame.payload) /\ commit \in Pending
    BY <2>1, <2>2, <2>3 DEF base, Extend, Pending
  <2> HIDE DEF commit
  <2>5. PICK last, before, blocks :
          last = Len(frames) + 1 /\ before = base.blocks /\ blocks = Append(before, frame.payload)
    OBVIOUS
  <2>6. PartsOf(frame.header, blocks, last)'
    <3>1. /\ before \in Seq(Payload) /\ frame.part = Len(before)
          /\ \/ before = <<>>
             \/ PartsOf(frame.header, before, Len(frames)) /\ frames[Len(frames)].more
      BY <2>1, <2>2, <2>5
    <3> QED
      BY <1>1, <2>5, <3>1, PartsOfGrows DEF PartsInv
  <2>7. CASE pending' = NoCommit /\ stored' = stored
    BY <1>1, <1>2, <2>7 DEF PartsInv, PartsTypeOK, PendingIsPrefix, WholeCommits
  <2>8. CASE pending' = commit /\ stored' = stored /\ frame.more
    <3>1. pending'.nextPart = Len(pending'.blocks) /\ pending' \in Pending
      BY <2>1, <2>3, <2>4, <2>8
    <3>2. pending'.header = frame.header /\ pending'.blocks = blocks /\ Len(frames') = last
      BY <1>1, <2>4, <2>5, <2>8
    <3>3. PartsOf(pending.header, pending.blocks, Len(frames))'
      BY <2>6, <3>2 DEF PartsOf
    <3>4. frames'[Len(frames')].more /\ open'
      BY <1>1, <1>4, <2>8 DEF Take
    <3> QED
      BY <1>1, <1>2, <2>8, <3>1, <3>3, <3>4
      DEF PartsInv, PartsTypeOK, PendingIsPrefix, WholeCommits
  <2>9. CASE pending' = NoCommit /\ stored' = stored \cup {new} /\ ~frame.more
    <3>1. PICK entry : entry = new
      OBVIOUS
    <3>2. /\ entry \in [header : Header, blocks : Seq(Payload), size : Nat, at : Nat]
          /\ entry.header = frame.header /\ entry.blocks = blocks /\ entry.at = last
      BY SMTT(60), <1>1, <2>2, <2>3, <2>4, <2>5, <3>1
    <3> HIDE DEF new
    <3>3. PartsOf(entry.header, entry.blocks, entry.at)' /\ ~frames'[entry.at].more
      BY <1>1, <2>5, <2>6, <2>9, <3>2 DEF PartsOf
    <3>4. stored' = stored \cup {entry}
      BY <2>9, <3>1
    <3>5. WholeCommits'
      BY <1>2, <3>3, <3>4 DEF WholeCommits
    <3> QED
      BY <1>1, <2>9, <3>2, <3>4, <3>5 DEF PartsInv, PartsTypeOK, PendingIsPrefix
  <2> QED
    BY <1>4, <2>7, <2>8, <2>9 DEF Take, commit, new
<1> QED
  BY <1>3, <1>4 DEF Receive, NotOpen, BadID, Reject, PartsInv, PendingIsPrefix

(***************************************************************************)
(* Whatever frames arrive, the variables keep their types, what is pending *)
(* is a prefix of one commit and what was stored are whole commits.        *)
(***************************************************************************)
THEOREM PartsInvariant == PartsSpec => []PartsInv
<1>1. PartsInit => PartsInv
  <2>1. <<>> \in Seq(Frame)
    BY SMTT(60)
  <2> QED
    BY <2>1 DEF PartsInit, PartsInv, PartsTypeOK, PendingIsPrefix, WholeCommits
<1>2. PartsInv /\ [PartsNext]_partsVars => PartsInv'
  <2> SUFFICES ASSUME PartsInv, [PartsNext]_partsVars
               PROVE  PartsInv'
    OBVIOUS
  <2>1. CASE OpenDB \/ CloseDB \/ UNCHANGED partsVars
    <3>1. /\ pending' \in {pending, NoCommit} /\ frames' = frames /\ stored' = stored /\ open' \in BOOLEAN
          /\ pending' # NoCommit /\ pending # NoCommit => (open => open')
      BY <2>1 DEF OpenDB, CloseDB, partsVars, PartsInv, PartsTypeOK
    <3>2. WholeCommits'
      BY SMTT(60), <3>1 DEF PartsInv, WholeCommits, PartsOf
    <3>3. PendingIsPrefix'
      BY <3>1 DEF PartsInv, PendingIsPrefix, PartsOf
    <3> QED
      BY <3>1, <3>2, <3>3 DEF PartsInv, PartsTypeOK
  <2>2. CASE \E frame \in Frame : Receive(frame)
    BY <2>2, ReceiveKeepsInv
  <2> QED
    BY <2>1, <2>2 DEF PartsNext
<1> QED
  BY <1>1, <1>2, PTL DEF PartsSpec

(***************************************************************************)
(* The variables of the assembly keep their types.                         *)
(***************************************************************************)
THEOREM PartsTypeCorrect == PartsSpec => []PartsTypeOK
<1>1. PartsInv => PartsTypeOK
  BY DEF PartsInv
<1> QED
  BY <1>1, PartsInvariant, PTL

(***************************************************************************)
(* Only whole commits reach the store (connection.commit).                 *)
(***************************************************************************)
THEOREM WholeCommitsHold == PartsSpec => []WholeCommits
<1>1. PartsInv => WholeCommits
  BY DEF PartsInv
<1> QED
  BY <1>1, PartsInvariant, PTL

-----------------------------------------------------------------------------
(* Logins *)

\* The time that n fetches can take.
Fetches(n) == n * KeyFetchTimeout

(***************************************************************************)
(* What is true of one connection: what is known of its token, and how     *)
(* long each step may have taken.                                          *)
(***************************************************************************)
StepOK(conn) ==
  /\ conn.step \in {"none", "hello", "closed"} => conn.token = NoToken
  /\ conn.step \notin {"none", "hello", "closed"} => (required <=> conn.token \in Int)
  /\ conn.step = "token" => required
  /\ conn.step = "hello" => conn.waited <= HelloTimeout /\ conn.age = conn.waited
  /\ conn.step = "challenge" => conn.waited <= WriteTimeout
  /\ conn.step = "proof" => conn.waited <= ChallengeTTL

(***************************************************************************)
(* How old a login is.  While its token waits to be checked, all its       *)
(* fetches but the one that holds the mutex, for the time h so far, have   *)
(* taken a timeout each.                                                   *)
(***************************************************************************)
WaitOK(conn, locked, h) ==
  /\ conn.step = "token" /\ ~locked => conn.age <= HelloTimeout + Fetches(conn.fetches)
  /\ conn.step = "token" /\ locked =>
       conn.age + KeyFetchTimeout <= HelloTimeout + Fetches(conn.fetches) + h
  /\ conn.step = "challenge" => conn.age <= HelloTimeout + Fetches(conn.fetches) + conn.waited
  /\ conn.step = "proof" =>
       conn.age <= HelloTimeout + Fetches(conn.fetches) + WriteTimeout + conn.waited

\* A fetch ends in time, and a login that holds the mutex waits for its token to be checked.
MutexOK ==
  /\ Locked => held <= KeyFetchTimeout
  /\ mutex \in Conn => conns[mutex].step = "token"

\* The inductive invariant.
LoginInv ==
  /\ LoginTypeOK /\ MutexOK
  /\ \A c \in Conn : StepOK(conns[c]) /\ WaitOK(conns[c], Locked, held)

\* The assumptions, one by one.
LEMMA LoginConstants ==
  /\ HelloTimeout \in Nat /\ KeyFetchTimeout \in Nat /\ KeyCacheAge \in Nat /\ WriteTimeout \in Nat
  /\ ChallengeTTL \in Nat /\ PingInterval \in Nat /\ Leeway \in Nat
  /\ Lifetimes \subseteq Int /\ NoToken \notin Int
  /\ Lookup \notin Conn /\ NoOne \notin Conn /\ Lookup # NoOne
BY LoginAssumption

\* One more fetch takes one more timeout.
LEMMA FetchesGrow ==
  ASSUME NEW n \in Nat
  PROVE  Fetches(n) \in Nat /\ Fetches(n + 1) = Fetches(n) + KeyFetchTimeout
BY SMTT(60), LoginConstants DEF Fetches

\* Before the first fetch, and after it.
LEMMA FetchesStart == Fetches(0) = 0 /\ Fetches(1) = KeyFetchTimeout
BY SMTT(60), LoginConstants DEF Fetches

\* The steps that one connection can take, if the mutex is locked or free after the step.
Moves(old, new, locked) ==
  \/ old.step = "none" /\ new = Fresh("hello")
  \/ /\ old.step \in {"hello", "proof", "in"} \/ (old.step = "token" /\ ~locked)
     /\ new = Fresh("closed")
  \/ /\ old.step = "hello" /\ required
     /\ \E life \in Int : new = [old EXCEPT !.step = "token", !.waited = 0, !.token = life,
                                            !.fetches = IF locked THEN 1 ELSE 0]
  \/ /\ (old.step = "hello" /\ ~required) \/ (old.step = "token" /\ ~locked)
     /\ new = [old EXCEPT !.step = "challenge", !.waited = 0, !.challenge = 0]
  \/ old.step = "challenge" /\ new = [old EXCEPT !.step = "proof", !.waited = 0]
  \/ old.step = "proof" /\ new = [old EXCEPT !.step = "in", !.waited = 0, !.age = 0, !.fetches = 0]
  \/ old.step = "in" /\ new = [old EXCEPT !.step = "in", !.waited = 0]

\* The steps of a connection that start no fetch.
ConnStep(c) ==
  \/ Connect(c) \/ Hello(c) \/ Verify(c) \/ KeysFetched(c)
  \/ ChallengeSent(c) \/ Proof(c) \/ Ping(c) \/ Request(c) \/ readFailed(c)

\* Such a step changes nothing but this connection, and gives the mutex back after a fetch.
LEMMA OneMoves ==
  ASSUME LoginTypeOK, MutexOK, NEW c \in Conn, ConnStep(c)
  PROVE  /\ required' = required
         /\ UNCHANGED keyCache \/ (Locked /\ Unlock)
         /\ \E new : conns' = [conns EXCEPT ![c] = new] /\ Moves(conns[c], new, Locked')
<1> USE LoginConstants
<1> DEFINE Goal == /\ required' = required
                   /\ UNCHANGED keyCache \/ (Locked /\ Unlock)
                   /\ \E new : conns' = [conns EXCEPT ![c] = new] /\ Moves(conns[c], new, Locked')
<1> SUFFICES Goal
  OBVIOUS
<1>t. conns \in [Conn -> Connection]
  BY DEF LoginTypeOK
<1>l. UNCHANGED keyCache => (Locked' <=> Locked)
  BY DEF keyCache, Locked
<1>1. CASE Connect(c)
  BY <1>1, <1>t DEF Connect, Moves
<1>2. CASE Hello(c)
  <2>0. Locked' <=> Locked
    BY <1>2, <1>l DEF Hello
  <2>1. ASSUME NEW life \in Lifetimes, required,
               conns' = [conns EXCEPT ![c].step = "token", ![c].waited = 0, ![c].token = life,
                                      ![c].fetches = IF Locked THEN 1 ELSE 0]
        PROVE  \E new : conns' = [conns EXCEPT ![c] = new] /\ Moves(conns[c], new, Locked')
    <3> DEFINE new == [conns[c] EXCEPT !.step = "token", !.waited = 0, !.token = life,
                                       !.fetches = IF Locked' THEN 1 ELSE 0]
    <3>1. conns' = [conns EXCEPT ![c] = new]
      BY <2>0, <2>1, <1>t
    <3>2. Moves(conns[c], new, Locked')
      BY <2>1, <1>2 DEF Hello, Moves
    <3> QED
      BY <3>1, <3>2
  <2>2. CASE ~required /\ identify(c)
    BY <1>2, <2>2, <1>t DEF Hello, Moves, identify
  <2>3. CASE Close(c)
    BY <1>2, <2>3, <1>t DEF Hello, Moves, Close
  <2>4. required' = required /\ UNCHANGED keyCache
    BY <1>2 DEF Hello
  <2> QED
    BY <1>2, <2>1, <2>2, <2>3, <2>4 DEF Hello
<1>3. CASE Verify(c)
  <2>1. ~Locked' /\ conns[c].step = "token" /\ UNCHANGED <<required, keyCache>>
    BY <1>3, <1>l DEF Verify
  <2>2. Checked(c)
    BY <1>3 DEF Verify
  <2> QED
    BY <2>1, <2>2, <1>t DEF Checked, Moves, identify, Close
<1>5. CASE KeysFetched(c)
  <2>1. ~Locked' /\ conns[c].step = "token" /\ Unlock /\ Locked /\ required' = required
    BY <1>5 DEF KeysFetched, Unlock, Locked, MutexOK
  <2>2. Checked(c)
    BY <1>5 DEF KeysFetched
  <2> QED
    BY <2>1, <2>2, <1>t DEF Checked, Moves, identify, Close
<1>6. CASE ChallengeSent(c)
  BY <1>6, <1>t DEF ChallengeSent, Moves, Goes
<1>7. CASE Proof(c)
  BY <1>7, <1>t DEF Proof, LoggedIn, Close, Moves
<1>8. CASE Ping(c)
  BY <1>8, <1>t DEF Ping, Goes, Moves
<1>9. CASE Request(c)
  BY <1>9, <1>t DEF Request, Goes, Close, Moves
<1>10. CASE readFailed(c)
  BY <1>10, <1>t DEF readFailed, Close, Moves
<1> HIDE DEF Goal
<1> QED
  BY <1>1, <1>2, <1>3, <1>5, <1>6, <1>7, <1>8, <1>9, <1>10 DEF ConnStep

\* A connection that moves has its type again, and comes from the step before.
LEMMA MovesFacts ==
  ASSUME NEW old \in Connection, NEW new, NEW locked \in BOOLEAN, Moves(old, new, locked)
  PROVE  /\ new \in Connection
         /\ old.step = "token" => ~locked
         /\ new.step = "token" =>
              old.step = "hello" /\ new.age = old.age /\ new.fetches = IF locked THEN 1 ELSE 0
         /\ new.step = "challenge" =>
              /\ old.step = "hello" \/ (old.step = "token" /\ ~locked)
              /\ new.age = old.age /\ new.waited = 0 /\ new.fetches = old.fetches
         /\ new.step = "proof" =>
              /\ old.step = "challenge"
              /\ new.age = old.age /\ new.waited = 0 /\ new.fetches = old.fetches
<1> USE LoginConstants DEF Connection
<1>1. CASE (old.step = "none" /\ new = Fresh("hello")) \/
           ((old.step # "token" \/ ~locked) /\ new = Fresh("closed"))
  BY SMTT(60), <1>1 DEF Fresh
<1>2. CASE /\ old.step = "hello"
           /\ \E life \in Int : new = [old EXCEPT !.step = "token", !.waited = 0, !.token = life,
                                                  !.fetches = IF locked THEN 1 ELSE 0]
  <2>1. PICK life \in Int : new = [old EXCEPT !.step = "token", !.waited = 0, !.token = life,
                                              !.fetches = IF locked THEN 1 ELSE 0]
    BY <1>2
  <2>2. /\ new \in Connection /\ new.step = "token" /\ new.age = old.age
        /\ new.fetches = IF locked THEN 1 ELSE 0
    BY <2>1
  <2> QED
    BY <2>2, <1>2
<1>3. CASE /\ old.step = "hello" \/ (old.step = "token" /\ ~locked)
           /\ new = [old EXCEPT !.step = "challenge", !.waited = 0, !.challenge = 0]
  BY <1>3
<1>5. CASE old.step = "challenge" /\ new = [old EXCEPT !.step = "proof", !.waited = 0]
  BY <1>5
<1>6. CASE /\ old.step = "proof"
           /\ new = [old EXCEPT !.step = "in", !.waited = 0, !.age = 0, !.fetches = 0]
  BY <1>6
<1>7. CASE old.step = "in" /\ new = [old EXCEPT !.step = "in", !.waited = 0]
  BY <1>7
<1> QED
  BY <1>1, <1>2, <1>3, <1>5, <1>6, <1>7 DEF Moves

\* What a connection knows of its token and its times stays true when it moves.
LEMMA MovesKeepStepOK ==
  ASSUME NEW old \in Connection, NEW new, NEW locked \in BOOLEAN, StepOK(old), Moves(old, new, locked)
  PROVE  StepOK(new)
<1> USE LoginConstants DEF Connection
<1>1. CASE new = Fresh("hello") \/ new = Fresh("closed")
  BY SMTT(60), <1>1 DEF Fresh, StepOK
<1>2. CASE /\ old.step = "hello" /\ required
           /\ \E life \in Int : new = [old EXCEPT !.step = "token", !.waited = 0, !.token = life,
                                                  !.fetches = IF locked THEN 1 ELSE 0]
  <2>1. PICK life \in Int : new = [old EXCEPT !.step = "token", !.waited = 0, !.token = life,
                                              !.fetches = IF locked THEN 1 ELSE 0]
    BY <1>2
  <2>2. new.step = "token" /\ new.token \in Int
    BY <2>1
  <2> QED
    BY <2>2, <1>2 DEF StepOK
<1>3. CASE /\ (old.step = "hello" /\ ~required) \/ old.step = "token"
           /\ new = [old EXCEPT !.step = "challenge", !.waited = 0, !.challenge = 0]
  BY SMTT(60), <1>3 DEF StepOK
<1>6. CASE old.step = "challenge" /\ new = [old EXCEPT !.step = "proof", !.waited = 0]
  BY SMTT(60), <1>6 DEF StepOK
<1>7. CASE /\ old.step = "proof"
           /\ new = [old EXCEPT !.step = "in", !.waited = 0, !.age = 0, !.fetches = 0]
  BY <1>7 DEF StepOK
<1>8. CASE old.step = "in" /\ new = [old EXCEPT !.step = "in", !.waited = 0]
  BY <1>8 DEF StepOK
<1> QED
  BY <1>1, <1>2, <1>3, <1>6, <1>7, <1>8 DEF Moves

\* A connection that moves is not older than it may be.
LEMMA MovedWaits ==
  ASSUME NEW old \in Connection, NEW new, NEW locked \in BOOLEAN, NEW h \in Nat,
         StepOK(old), WaitOK(old, locked, h), Moves(old, new, locked)
  PROVE  WaitOK(new, locked, h)
<1>1. /\ new.step = "token" =>
           old.step = "hello" /\ new.age = old.age /\ new.fetches = IF locked THEN 1 ELSE 0
      /\ new.step = "challenge" =>
           /\ old.step = "hello" \/ (old.step = "token" /\ ~locked)
           /\ new.age = old.age /\ new.waited = 0 /\ new.fetches = old.fetches
      /\ new.step = "proof" =>
           /\ old.step = "challenge"
           /\ new.age = old.age /\ new.waited = 0 /\ new.fetches = old.fetches
  BY MovesFacts
<1>2. /\ old.age \in Nat /\ old.waited \in Nat /\ old.fetches \in Nat /\ Fetches(old.fetches) \in Nat
      /\ HelloTimeout \in Nat /\ KeyFetchTimeout \in Nat /\ WriteTimeout \in Nat
  BY LoginConstants, FetchesGrow DEF Connection
<1>3. /\ old.step = "hello" => old.age <= HelloTimeout
      /\ old.step = "challenge" => old.waited <= WriteTimeout
  BY DEF StepOK
<1>4. CASE new.step = "token"
  BY SMTT(60), <1>1, <1>2, <1>3, <1>4, FetchesStart DEF WaitOK
<1>5. CASE new.step = "challenge"
  <2>1. old.age <= HelloTimeout + Fetches(old.fetches)
    BY SMTT(60), <1>1, <1>2, <1>3, <1>5 DEF WaitOK
  <2> QED
    BY SMTT(60), <1>1, <1>2, <1>5, <2>1 DEF WaitOK
<1>6. CASE new.step = "proof"
  BY SMTT(60), <1>1, <1>2, <1>3, <1>6 DEF WaitOK
<1> QED
  BY <1>4, <1>5, <1>6 DEF WaitOK

\* Giving the mutex back keeps what is known of the waiting logins.
LEMMA UnlockWaits ==
  ASSUME LoginInv, UNCHANGED keyCache \/ (Locked /\ Unlock)
  PROVE  /\ Locked' \in BOOLEAN /\ held' \in Nat /\ mutex' \in {mutex, NoOne}
         /\ Locked' => held' <= KeyFetchTimeout
         /\ refetch' \in 0..KeyCacheAge
         /\ \A c \in Conn : WaitOK(conns[c], Locked', held')
<1>1. CASE UNCHANGED keyCache
  BY <1>1 DEF LoginInv, LoginTypeOK, MutexOK, Locked, keyCache
<1>2. CASE Locked /\ Unlock
  <2>1. ~Locked' /\ held' = 0 /\ mutex' = NoOne /\ refetch' = refetch
    BY <1>2 DEF Unlock, Locked
  <2>2. ASSUME NEW c \in Conn PROVE WaitOK(conns[c], Locked', held')
    <3>1. /\ WaitOK(conns[c], TRUE, held) /\ conns[c] \in Connection
          /\ held \in Nat /\ held <= KeyFetchTimeout
      BY <1>2 DEF LoginInv, LoginTypeOK, MutexOK, WaitOK
    <3>2. /\ conns[c].age \in Nat /\ Fetches(conns[c].fetches) \in Nat
          /\ HelloTimeout \in Nat /\ KeyFetchTimeout \in Nat
      BY <3>1, LoginConstants, FetchesGrow DEF Connection
    <3>3. conns[c].step = "token" => conns[c].age <= HelloTimeout + Fetches(conns[c].fetches)
      BY SMTT(60), <3>1, <3>2 DEF WaitOK
    <3> QED
      BY <2>1, <3>1, <3>3 DEF WaitOK
  <2>3. Locked' \in BOOLEAN
    BY DEF Locked
  <2>4. held' \in Nat
    BY SMTT(60), <2>1
  <2>5. refetch' \in 0..KeyCacheAge
    BY <2>1 DEF LoginInv, LoginTypeOK
  <2> QED
    BY <2>1, <2>2, <2>3, <2>4, <2>5
<1> QED
  BY <1>1, <1>2

\* A step of a connection that starts no fetch keeps the invariant.
LEMMA ConnKeepsLoginInv ==
  ASSUME LoginInv, NEW c \in Conn, ConnStep(c)
  PROVE  LoginInv'
<1>0. /\ required' = required
      /\ UNCHANGED keyCache \/ (Locked /\ Unlock)
      /\ \E new : conns' = [conns EXCEPT ![c] = new] /\ Moves(conns[c], new, Locked')
  BY OneMoves DEF LoginInv
<1>1. PICK new : conns' = [conns EXCEPT ![c] = new] /\ Moves(conns[c], new, Locked')
  BY <1>0
<1>2. conns \in [Conn -> Connection] /\ conns[c] \in Connection /\ StepOK(conns[c])
  BY DEF LoginInv, LoginTypeOK
<1>3. /\ Locked' \in BOOLEAN /\ held' \in Nat /\ mutex' \in {mutex, NoOne}
      /\ Locked' => held' <= KeyFetchTimeout
      /\ refetch' \in 0..KeyCacheAge
      /\ \A d \in Conn : WaitOK(conns[d], Locked', held')
  BY <1>0, UnlockWaits
<1>4. new \in Connection /\ (conns[c].step = "token" => ~Locked')
  BY <1>1, <1>2, <1>3, MovesFacts
<1>5. conns'[c] = new /\ \A d \in Conn : d # c => conns'[d] = conns[d]
  BY <1>1, <1>2
<1>6. LoginTypeOK'
  <2>1. conns' \in [Conn -> Connection]
    BY <1>1, <1>2, <1>4
  <2>2. required' \in BOOLEAN
    BY <1>0 DEF LoginInv, LoginTypeOK
  <2>3. mutex' \in Conn \cup {Lookup, NoOne}
    BY <1>3 DEF LoginInv, LoginTypeOK
  <2> QED
    BY <1>3, <2>1, <2>2, <2>3 DEF LoginTypeOK
<1>7. MutexOK'
  <2>1. ASSUME mutex' \in Conn PROVE conns'[mutex'].step = "token"
    <3>1. Locked' /\ mutex' = mutex /\ conns[mutex].step = "token"
      BY <1>3, <2>1, LoginConstants DEF LoginInv, MutexOK, Locked
    <3> QED
      BY <1>4, <1>5, <2>1, <3>1
  <2> QED
    BY <1>3, <2>1 DEF MutexOK
<1>8. \A d \in Conn : StepOK(conns[d])'
  <2>1. StepOK(new)
    BY <1>1, <1>2, <1>3, MovesKeepStepOK
  <2>2. \A d \in Conn : StepOK(conns'[d])
    BY <1>5, <2>1 DEF LoginInv
  <2> QED
    BY <1>0, <2>2 DEF StepOK
<1>9. \A d \in Conn : WaitOK(conns'[d], Locked', held')
  <2>1. WaitOK(new, Locked', held')
    BY <1>1, <1>2, <1>3, MovedWaits
  <2> QED
    BY <1>3, <1>5, <2>1
<1>10. \A d \in Conn : WaitOK(conns[d], Locked, held)'
  BY <1>9 DEF WaitOK
<1> QED
  BY <1>6, <1>7, <1>8, <1>10 DEF LoginInv

\* The start of a fetch keeps the invariant: it is one more for everybody who waits.
LEMMA FetchKeepsLoginInv ==
  ASSUME LoginInv, NEW caller \in Conn \cup {Lookup}, FetchKeys(caller),
         caller \in Conn => conns[caller].step = "token"
  PROVE  LoginInv'
<1> USE LoginConstants
<1>1. ~Locked /\ mutex' = caller /\ held' = 0 /\ refetch' = KeyCacheAge /\ required' = required
  BY DEF FetchKeys
<1>2. Locked'
  BY <1>1 DEF Locked
<1>3. \A c \in Conn : conns[c] \in Connection /\ StepOK(conns[c]) /\ WaitOK(conns[c], FALSE, held)
  BY <1>1 DEF LoginInv, LoginTypeOK, WaitOK
<1>4. \A c \in Conn : conns'[c] = IF conns[c].step = "token"
                                  THEN [conns[c] EXCEPT !.fetches = @ + 1] ELSE conns[c]
  BY DEF FetchKeys
<1>5. ASSUME NEW c \in Conn
      PROVE  /\ conns'[c] \in Connection /\ conns'[c].step = conns[c].step
             /\ conns'[c].age = conns[c].age /\ conns'[c].waited = conns[c].waited
             /\ conns'[c].token = conns[c].token
             /\ conns'[c].fetches = IF conns[c].step = "token" THEN conns[c].fetches + 1
                                    ELSE conns[c].fetches
  <2>0. conns[c].fetches \in Nat
    BY <1>3 DEF Connection
  <2>1. conns[c].fetches + 1 \in Nat
    BY SMTT(60), <2>0
  <2> QED
    BY <1>3, <1>4, <2>1 DEF Connection
<1>6. LoginTypeOK'
  <2>1. conns' \in [Conn -> Connection]
    BY <1>5 DEF FetchKeys
  <2>2. required' \in BOOLEAN
    BY <1>1 DEF LoginInv, LoginTypeOK
  <2>3. held' \in Nat /\ refetch' \in 0..KeyCacheAge
    BY SMTT(60), <1>1
  <2> QED
    BY <1>1, <2>1, <2>2, <2>3 DEF LoginTypeOK
<1>7. MutexOK'
  <2>1. held' <= KeyFetchTimeout
    BY SMTT(60), <1>1
  <2> QED
    BY <1>1, <1>5, <2>1 DEF MutexOK
<1>8. \A c \in Conn : StepOK(conns[c])'
  BY <1>1, <1>3, <1>5 DEF StepOK
<1>9. ASSUME NEW c \in Conn PROVE WaitOK(conns[c], Locked, held)'
  <2>1. conns[c].age \in Nat /\ conns[c].waited \in Nat /\ conns[c].fetches \in Nat
    BY <1>3 DEF Connection
  <2>2. /\ Fetches(conns[c].fetches) \in Nat
        /\ Fetches(conns[c].fetches + 1) = Fetches(conns[c].fetches) + KeyFetchTimeout
    BY <2>1, FetchesGrow
  <2>3. CASE conns[c].step = "token"
    <3>1. conns[c].age <= HelloTimeout + Fetches(conns[c].fetches)
      BY <1>3, <2>3 DEF WaitOK
    <3>2. conns'[c].age + KeyFetchTimeout <= HelloTimeout + Fetches(conns'[c].fetches) + held'
      BY SMTT(60), <1>1, <1>5, <2>1, <2>2, <2>3, <3>1
    <3> QED
      BY <1>2, <1>5, <2>3, <3>2 DEF WaitOK
  <2>4. CASE conns[c].step # "token"
    BY <1>3, <1>5, <2>4 DEF WaitOK
  <2> QED
    BY <2>3, <2>4
<1> QED
  BY <1>6, <1>7, <1>8, <1>9 DEF LoginInv

\* So does the end of the fetch of a lookup.
LEMMA LookupKeepsLoginInv ==
  ASSUME LoginInv, LookupFetched
  PROVE  LoginInv'
<1>1. Locked /\ Unlock /\ required' = required /\ conns' = conns
  BY LoginConstants DEF LookupFetched, Locked
<1>2. /\ held' \in Nat /\ mutex' = NoOne /\ refetch' \in 0..KeyCacheAge
      /\ Locked' => held' <= KeyFetchTimeout
      /\ \A c \in Conn : WaitOK(conns[c], Locked', held')
  BY <1>1, UnlockWaits DEF Unlock
<1>3. LoginTypeOK'
  BY <1>1, <1>2 DEF LoginInv, LoginTypeOK
<1>4. MutexOK'
  BY <1>2, LoginConstants DEF MutexOK
<1>5. \A c \in Conn : StepOK(conns[c])' /\ WaitOK(conns[c], Locked, held)'
  BY <1>1, <1>2 DEF LoginInv, StepOK, WaitOK
<1> QED
  BY <1>3, <1>4, <1>5 DEF LoginInv

\* A connection that gets older stays in its step.
LEMMA OlderFacts ==
  ASSUME NEW conn \in Connection
  PROVE  /\ Older(conn) \in Connection /\ Older(conn).step = conn.step
         /\ Older(conn).waited = conn.waited + 1 /\ Older(conn).fetches = conn.fetches
         /\ conn.step # "in" => Older(conn).age = conn.age + 1
         /\ Older(conn).token \in Int <=> conn.token \in Int
         /\ conn.token = NoToken => Older(conn).token = NoToken
<1> USE LoginConstants
<1>1. /\ conn.waited \in Nat /\ conn.age \in Nat /\ conn.challenge \in Nat
      /\ conn.token \in Int \cup {NoToken}
  BY DEF Connection
<1>2. /\ Older(conn).step = conn.step /\ Older(conn).waited = conn.waited + 1
      /\ Older(conn).fetches = conn.fetches
      /\ Older(conn).age = IF conn.step = "in" THEN conn.age ELSE conn.age + 1
      /\ Older(conn).token = IF conn.token # NoToken /\ conn.token >= -Leeway
                             THEN conn.token - 1 ELSE conn.token
  BY DEF Older, Connection
<1>3. Older(conn).token \in Int \cup {NoToken} /\ (Older(conn).token \in Int <=> conn.token \in Int)
  BY SMTT(60), <1>1, <1>2
<1>5. Older(conn) \in Connection
  <2> DEFINE age == IF conn.step = "in" THEN conn.age ELSE conn.age + 1
             challenge == IF conn.step = "in" THEN conn.challenge ELSE conn.challenge + 1
             token == IF conn.token # NoToken /\ conn.token >= -Leeway THEN conn.token - 1 ELSE conn.token
  <2>1. Older(conn) = [conn EXCEPT !.waited = conn.waited + 1, !.age = age, !.challenge = challenge,
                                   !.token = token]
    BY DEF Older, Connection
  <2>2. age \in Nat /\ challenge \in Nat /\ token \in Int \cup {NoToken} /\ conn.waited + 1 \in Nat
    BY SMTT(60), <1>1
  <2> HIDE DEF age, challenge, token
  <2> QED
    BY <2>1, <2>2 DEF Connection
<1> QED
  BY <1>2, <1>3, <1>5

\* The passing of time keeps the invariant.
LEMMA TickKeepsLoginInv ==
  ASSUME LoginInv, LoginTick
  PROVE  LoginInv'
<1> USE LoginConstants
<1>1. \A c \in Conn : conns[c] \in Connection /\ StepOK(conns[c]) /\ WaitOK(conns[c], Locked, held) /\ Waits(c)
  BY DEF LoginInv, LoginTypeOK, LoginTick, Passes
<1>2. \A c \in Conn : conns'[c] = IF Done(c) THEN conns[c] ELSE Older(conns[c])
  BY DEF LoginTick, Passes
<1>3. \A c \in Conn : conns'[c] \in Connection /\ conns'[c].step = conns[c].step
  BY <1>1, <1>2, OlderFacts
<1>4. LoginTypeOK'
  <2>1. conns' \in [Conn -> Connection]
    BY <1>3 DEF LoginTick, Passes
  <2>2. required' \in BOOLEAN /\ mutex' \in Conn \cup {Lookup, NoOne}
    BY DEF LoginInv, LoginTypeOK, LoginTick, Passes
  <2>3. refetch' \in 0..KeyCacheAge /\ held' \in Nat
    BY SMTT(60) DEF LoginInv, LoginTypeOK, LoginTick, Passes
  <2> QED
    BY <2>1, <2>2, <2>3 DEF LoginTypeOK
<1>5. MutexOK'
  <2>1. mutex' = mutex /\ (Locked' <=> Locked)
    BY DEF LoginTick, Passes, Locked
  <2>2. Locked => held' <= KeyFetchTimeout
    BY SMTT(60) DEF LoginInv, LoginTypeOK, LoginTick, Passes
  <2> QED
    BY <1>3, <2>1, <2>2 DEF LoginInv, MutexOK
<1>6. \A c \in Conn : StepOK(conns[c])'
  <2> SUFFICES ASSUME NEW c \in Conn PROVE StepOK(conns[c])'
    OBVIOUS
  <2>1. required' = required
    BY DEF LoginTick, Passes
  <2>2. CASE Done(c)
    BY <1>1, <1>2, <2>1, <2>2 DEF StepOK
  <2>3. CASE ~Done(c)
    <3>1. conns'[c] = Older(conns[c]) /\ conns[c] \in Connection
      BY <1>1, <1>2, <2>3
    <3>2. /\ conns[c].step = "hello" => conns[c].waited < HelloTimeout
          /\ conns[c].step = "challenge" => conns[c].waited < WriteTimeout
          /\ conns[c].step = "proof" => conns[c].waited < ChallengeTTL
      BY <1>1, <2>3 DEF Waits, Done
    <3>3. conns[c].waited \in Nat /\ conns[c].age \in Nat
      BY <3>1 DEF Connection
    <3>4. /\ conns'[c].step = conns[c].step /\ conns'[c].waited = conns[c].waited + 1
          /\ conns[c].step # "in" => conns'[c].age = conns[c].age + 1
      BY <3>1, OlderFacts
    <3>5. /\ conns'[c].token \in Int <=> conns[c].token \in Int
          /\ conns[c].token = NoToken => conns'[c].token = NoToken
      BY <3>1, OlderFacts
    <3>6. StepOK(conns[c])
      BY <1>1
    <3> QED
      BY SMTT(60), <2>1, <2>3, <3>2, <3>3, <3>4, <3>5, <3>6 DEF StepOK, Done
  <2> QED
    BY <2>2, <2>3
<1>9. \A c \in Conn : WaitOK(conns[c], Locked, held)'
  <2> SUFFICES ASSUME NEW c \in Conn PROVE WaitOK(conns[c], Locked, held)'
    OBVIOUS
  <2>1. ~Done(c) /\ conns[c].step # "in" =>
          /\ conns'[c].waited = conns[c].waited + 1 /\ conns'[c].age = conns[c].age + 1
          /\ conns'[c].fetches = conns[c].fetches
    BY <1>1, <1>2, OlderFacts
  <2>2. /\ conns[c].waited \in Nat /\ conns[c].age \in Nat /\ Fetches(conns[c].fetches) \in Nat
        /\ held \in Nat
    BY <1>1, FetchesGrow DEF Connection, LoginInv, LoginTypeOK
  <2>3. conns[c].step = "token" => Locked
    BY <1>1 DEF Waits, Done
  <2>4. WaitOK(conns[c], Locked, held)
    BY <1>1
  <2>5. (Locked' <=> Locked) /\ (Locked => held' = held + 1)
    BY DEF LoginTick, Passes, Locked
  <2> QED
    BY SMTT(60), <2>1, <2>2, <2>3, <2>4, <2>5, <1>3 DEF WaitOK, Done
<1> QED
  BY <1>4, <1>5, <1>6, <1>9 DEF LoginInv

\* The invariant holds before anybody connects.
LEMMA LoginInvInit == LoginInit => LoginInv
<1> SUFFICES ASSUME LoginInit PROVE LoginInv
  OBVIOUS
<1>1. \A c \in Conn : conns[c] = Fresh("none")
  BY DEF LoginInit
<1>2. LoginTypeOK
  <2>1. required \in BOOLEAN /\ mutex \in Conn \cup {Lookup, NoOne}
    BY DEF LoginInit
  <2>2. conns \in [Conn -> Connection] /\ refetch \in 0..KeyCacheAge /\ held \in Nat
    BY SMTT(60), LoginConstants DEF LoginInit, Fresh, Connection
  <2> QED
    BY <2>1, <2>2 DEF LoginTypeOK
<1>3. \A c \in Conn : conns[c].step = "none" /\ conns[c].token = NoToken
  BY SMTT(60), <1>1 DEF Fresh
<1>4. MutexOK
  BY LoginConstants DEF LoginInit, MutexOK, Locked
<1> QED
  BY <1>2, <1>3, <1>4 DEF LoginInv, StepOK, WaitOK

\* The inductive invariant holds of all logins.
THEOREM LoginInvariant == LoginSpec => []LoginInv
<1>1. LoginInv /\ [LoginNext]_loginVars => LoginInv'
  <2> SUFFICES ASSUME LoginInv, [LoginNext]_loginVars PROVE LoginInv'
    OBVIOUS
  <2>1. CASE UNCHANGED loginVars
    BY <2>1 DEF loginVars, keyCache, LoginInv, LoginTypeOK, MutexOK, StepOK, WaitOK, Locked
  <2>2. CASE LoginTick
    BY <2>2, TickKeepsLoginInv
  <2>3. CASE LookupFetch
    BY <2>3, FetchKeepsLoginInv, LoginConstants DEF LookupFetch
  <2>4. CASE LookupFetched
    BY <2>4, LookupKeepsLoginInv
  <2>5. ASSUME NEW c \in Conn, Fetch(c) PROVE LoginInv'
    BY <2>5, FetchKeepsLoginInv DEF Fetch
  <2>6. ASSUME NEW c \in Conn, ConnStep(c) PROVE LoginInv'
    BY <2>6, ConnKeepsLoginInv
  <2> QED
    BY <2>1, <2>2, <2>3, <2>4, <2>5, <2>6 DEF LoginNext, ConnStep
<1> QED
  BY <1>1, LoginInvInit, PTL DEF LoginSpec

(***************************************************************************)
(* No login lasts longer than its own timeouts and one timeout for each    *)
(* fetch that went on while it waited for the key cache, however many      *)
(* connections and lookups of slots share the cache and whatever the       *)
(* timeouts are (connection.run, keySet.find).                             *)
(***************************************************************************)
THEOREM LoginsEndHolds == LoginSpec => []LoginsEnd
<1>1. LoginInv => LoginsEnd
  <2> SUFFICES ASSUME LoginInv, NEW c \in Conn, ~Done(c), conns[c].step # "in"
               PROVE  conns[c].age <=
                        HelloTimeout + Fetches(conns[c].fetches) + WriteTimeout + ChallengeTTL
    BY DEF LoginsEnd, Fetches
  <2> USE LoginConstants
  <2>1. /\ StepOK(conns[c]) /\ WaitOK(conns[c], Locked, held) /\ conns[c] \in Connection
        /\ held \in Nat /\ (Locked => held <= KeyFetchTimeout)
    BY DEF LoginInv, LoginTypeOK, MutexOK
  <2>2. Fetches(conns[c].fetches) \in Nat
    BY <2>1, FetchesGrow DEF Connection
  <2>3. conns[c].age \in Nat /\ conns[c].waited \in Nat
    BY <2>1 DEF Connection
  <2>4. conns[c].step \in {"hello", "token", "challenge", "proof"}
    BY <2>1 DEF Connection, Done
  <2> QED
    BY SMTT(60), <2>1, <2>2, <2>3, <2>4 DEF WaitOK, StepOK
<1> QED
  BY <1>1, LoginInvariant, PTL

(***************************************************************************)
(* What HelloOk says of the lifetime of the token is true of every token   *)
(* and every duration of the login (tokenTTL).                             *)
(***************************************************************************)
THEOREM LifetimeIsToldHolds == LoginSpec => LifetimeIsTold
<1>1. ASSUME LoginInv, NEW c \in Conn, conns[c].step = "proof"
      PROVE  LET ttl == tokenTTL(conns[c].token) IN
             /\ ttl = 0 <=> ~required
             /\ ttl > 1 => ttl <= conns[c].token
  <2>1. conns[c].token \in Int \cup {NoToken} /\ (required <=> conns[c].token \in Int)
    BY <1>1 DEF LoginInv, LoginTypeOK, Connection, StepOK
  <2> QED
    BY SMTT(60), <2>1, LoginConstants DEF tokenTTL
<1>2. LoginInv /\ [LoginNext]_loginVars =>
        [\A c \in Conn :
           conns[c].step = "proof" /\ conns'[c].step = "in" =>
             LET ttl == tokenTTL(conns[c].token) IN
             /\ ttl = 0 <=> ~required
             /\ ttl > 1 => ttl <= conns[c].token]_loginVars
  BY <1>1
<1> QED
  BY <1>2, LoginInvariant, PTL DEF LoginSpec, LifetimeIsTold

(***************************************************************************)
(* No request of a client whose token has expired is handled, whenever in  *)
(* the login or after it the token expired (Config.TokenLeeway).           *)
(***************************************************************************)
THEOREM NoLateRequestHolds == LoginSpec => NoLateRequest
<1>1. ASSUME LoginInv, NEW c \in Conn, Request(c), conns'[c].step = "in", required
      PROVE  conns[c].token \in Int /\ conns[c].token >= -Leeway
  <2>1. conns[c].step = "in" /\ conns \in [Conn -> Connection] /\ StepOK(conns[c])
    BY <1>1 DEF LoginInv, LoginTypeOK, Request
  <2>2. conns[c].token \in Int
    BY <1>1, <2>1 DEF StepOK
  <2>3. ~tokenExpired(c)
    BY SMTT(60), <1>1, <2>1 DEF Request, Close, Fresh
  <2> QED
    BY SMTT(60), <2>2, <2>3, LoginConstants DEF tokenExpired
<1>2. LoginInv /\ [LoginNext]_loginVars =>
        [\A c \in Conn :
           Request(c) /\ conns'[c].step = "in" /\ required =>
             conns[c].token \in Int /\ conns[c].token >= -Leeway]_loginVars
  BY <1>1
<1> QED
  BY <1>2, LoginInvariant, PTL DEF LoginSpec, NoLateRequest

-----------------------------------------------------------------------------
(* The token keys *)

\* The keys in one of two sets but not in the other.
Differ(a, b) == (a \ b) \cup (b \ a)

(***************************************************************************)
(* The times of the cache: a key that the cache and the service disagree   *)
(* on has changed at most MaxCacheAge before the cache expires, and not    *)
(* before the last fetch that did not fail.                                *)
(***************************************************************************)
CacheInv ==
  /\ fresh <= now + MaxCacheAge
  /\ \A k \in Differ(keys, published) : fresh <= changed[k] + MaxCacheAge
  /\ \A k \in Differ(keys, published) : okAt <= changed[k]
  /\ okAt <= now /\ (okAt = Never \/ okAt + MinCacheAge <= fresh)
  /\ lastFetch = "ok" /\ ~Fetching => fetched + MinCacheAge <= fresh
  /\ lastFetch = "none" /\ ~Fetching => fetched = Never

(***************************************************************************)
(* The lookup under way: a key on which the answer and the service         *)
(* disagree has changed since the lookup began, and a lookup that reads    *)
(* expired keys comes after a fetch that failed.                           *)
(***************************************************************************)
CallInv ==
  call # NoCall =>
    /\ call.at <= now
    /\ Fetching => fetched = call.at
    /\ Fetching /\ call.answer # {} => \A k \in Differ(call.answer, published) : call.at <= changed[k]
    /\ ~Fetching => call.answer = {}
    /\ call.step \in {"look", "lookAgain"} => lastFetch = "failed" \/ call.at < fresh
    /\ call.step \in {"retry", "lookAgain"} => Available

KeysInv == KeysTypeOK /\ CacheInv /\ CallInv

\* The initial cache is empty and has expired.
LEMMA KeysInitInv == KeysInit => KeysInv
<1> SUFFICES ASSUME KeysInit PROVE KeysInv
  OBVIOUS
<1>1. Never \in Int /\ Never <= 0
  BY SMTT(60), KeysAssumption DEF Never
<1>2. KeysTypeOK
  BY <1>1 DEF KeysInit, KeysTypeOK
<1>3. CacheInv
  <2>0. fresh = Never /\ now = 0 /\ \A k \in Differ(keys, published) : changed[k] = 0
    BY DEF KeysInit, Differ
  <2>1. Never <= 0 + MaxCacheAge
    BY SMTT(60), <1>1, KeysAssumption
  <2>2. fresh <= now + MaxCacheAge /\ \A k \in Differ(keys, published) : fresh <= changed[k] + MaxCacheAge
    BY <2>0, <2>1
  <2>3. okAt = Never /\ okAt <= now /\ \A k \in Differ(keys, published) : okAt <= changed[k]
    BY <1>1, <2>0 DEF KeysInit
  <2> QED
    BY <2>2, <2>3 DEF KeysInit, CacheInv
<1>4. CallInv
  BY DEF KeysInit, CallInv
<1> QED
  BY <1>2, <1>3, <1>4 DEF KeysInv

\* Every step keeps the types.
LEMMA KeysTypeStep == KeysTypeOK /\ [KeysNext]_keyVars => KeysTypeOK'
<1> SUFFICES ASSUME KeysTypeOK, [KeysNext]_keyVars PROVE KeysTypeOK'
  OBVIOUS
<1> USE KeysAssumption DEF KeysTypeOK
<1>1. CASE Tick
  BY SMTT(60), <1>1 DEF Tick, cache, service, history
<1>2. CASE Answer
  <2>1. call \in Call
    BY SMTT(60), <1>2 DEF Answer, Fetching, NoCall
  <2>2. call' \in Call
    BY <1>2, <2>1 DEF Answer, Call
  <2> QED
    BY <1>2, <2>2 DEF Answer, cache, service, history
<1>3. ASSUME Fetching PROVE AfterFetch \in Call
  <2>1. call \in Call
    BY SMTT(60), <1>3 DEF Fetching, NoCall
  <2> QED
    BY <2>1 DEF AfterFetch, Call
<1>4. CASE FetchFails
  BY <1>3, <1>4 DEF FetchFails, cache, service, history
<1>5. CASE Found \/ Denied
  BY <1>5 DEF Found, Denied, Return, cache, service, history
<1>6. CASE Retry
  <2>1. call \in Call
    BY SMTT(60), <1>6 DEF Retry, NoCall
  <2>2. call' \in Call /\ fetched' \in Int
    BY SMTT(60), <1>6, <2>1 DEF Retry, Call
  <2> QED
    BY <1>6, <2>2 DEF Retry, cache, service, history
<1>7. ASSUME NEW k \in Kid, Publish(k) \/ Withdraw(k) PROVE KeysTypeOK'
  BY <1>7 DEF Publish, Withdraw, cache, history
<1>8. ASSUME NEW k \in Kid, Find(k) PROVE KeysTypeOK'
  BY SMTT(60), <1>8 DEF Find, Call, cache, service, history
<1>9. ASSUME NEW age \in MinCacheAge .. MaxCacheAge, Fetched(age) PROVE KeysTypeOK'
  <2>1. call \in Call
    BY SMTT(60), <1>9 DEF Fetched, Fetching, NoCall
  <2>2. keys' \subseteq Kid /\ fresh' \in Int /\ okAt' \in Int
    BY SMTT(60), <1>9, <2>1 DEF Fetched, Call
  <2> QED
    BY <1>3, <1>9, <2>2 DEF Fetched, service
<1>10. CASE UNCHANGED keyVars
  BY <1>10 DEF keyVars
<1> QED
  BY <1>1, <1>2, <1>4, <1>5, <1>6, <1>7, <1>8, <1>9, <1>10 DEF KeysNext

\* A step keeps what is known of the lookup and the cache as long as it changes neither.
LEMMA KeysInvStep == KeysInv /\ [KeysNext]_keyVars => KeysInv'
<1> SUFFICES ASSUME KeysInv, [KeysNext]_keyVars PROVE KeysInv'
  OBVIOUS
<1>1. KeysTypeOK'
  BY KeysTypeStep DEF KeysInv
<1> USE KeysAssumption DEF KeysTypeOK
<1> SUFFICES CacheInv' /\ CallInv'
  BY <1>1 DEF KeysInv
<1>2. CASE Tick
  <2>1. CacheInv'
    BY SMTT(60), <1>2 DEF Tick, cache, service, history, KeysInv, CacheInv, Fetching, Never, Differ
  <2>2. CallInv'
    <3>1. call' # NoCall => call.at \in Nat
      BY <1>2 DEF Tick, KeysInv, Call
    <3> QED
      BY SMTT(60), <1>2, <3>1 DEF Tick, cache, service, history, KeysInv, CallInv, Fetching, Available, Differ
  <2> QED
    BY <2>1, <2>2
<1>3. CASE Answer
  <2>1. CacheInv'
    BY SMTT(60), <1>3 DEF Answer, cache, service, history, KeysInv, CacheInv, Fetching, Never, Differ, Call
  <2>2. CallInv'
    BY <1>3 DEF Answer, cache, service, history, KeysInv, CallInv, Fetching, Available, Differ, Call, NoCall
  <2> QED
    BY <2>1, <2>2
<1>4. CASE FetchFails
  BY SMTT(60), <1>4 DEF FetchFails, AfterFetch, cache, service, history, KeysInv, CacheInv, CallInv, Fetching, Available,
              Never, Call, NoCall
<1>5. CASE Found \/ Denied
  BY <1>5 DEF Found, Denied, Return, cache, service, history, KeysInv, CacheInv, CallInv, Fetching, Never, NoCall
<1>6. CASE Retry
  <2>1. call \in Call
    BY SMTT(60), <1>6 DEF Retry, KeysInv, NoCall
  <2>2. /\ call' \in Call /\ call'.step = "retry" /\ call'.at = call.at /\ call'.answer = call.answer
        /\ fetched' = call.at
    BY <1>6, <2>1 DEF Retry, Call
  <2>3. CacheInv'
    BY <1>6, <2>2 DEF Retry, cache, service, history, KeysInv, CacheInv, Fetching, Differ
  <2>4. call.at \in Nat
    BY <2>1 DEF Call
  <2>5. CallInv'
    BY SMTT(60), <1>6, <2>2, <2>4 DEF Retry, cache, service, history, KeysInv, CallInv, Fetching, Available, Differ, NoCall
  <2> QED
    BY <2>3, <2>5
<1>7. ASSUME NEW k \in Kid, Publish(k) \/ Withdraw(k) PROVE CacheInv' /\ CallInv'
  <2>1. /\ UNCHANGED <<now, keys, fresh, fetched, call, lastFetch, okAt>>
        /\ \A j \in Kid : j # k => changed'[j] = changed[j] /\ (j \in published' <=> j \in published)
        /\ changed'[k] = now
    BY <1>7 DEF Publish, Withdraw, cache, history, KeysInv
  <2>2. keys \subseteq Kid /\ published \subseteq Kid /\ published' \subseteq Kid
    BY <1>1 DEF KeysInv
  <2>3. \A j \in Differ(keys, published)' : j \in Kid /\ (j # k => j \in Differ(keys, published))
    BY <2>1, <2>2 DEF Differ
  <2>4. CacheInv'
    BY <2>1, <2>3 DEF KeysInv, CacheInv, Fetching, Never
  <2>5. call.answer \in SUBSET Kid \/ call = NoCall
    BY DEF KeysInv, Call
  <2>6. CallInv'
    BY <2>1, <2>2, <2>5 DEF KeysInv, CallInv, Fetching, Available, Differ, Call
  <2> QED
    BY <2>4, <2>6
<1>8. ASSUME NEW k \in Kid, Find(k) PROVE CacheInv' /\ CallInv'
  BY SMTT(60), <1>8 DEF Find, Expired, cache, service, history, KeysInv, CacheInv, CallInv, Fetching, Available, Never, NoCall
<1>9. ASSUME NEW age \in MinCacheAge .. MaxCacheAge, Fetched(age) PROVE CacheInv' /\ CallInv'
  BY SMTT(60), <1>9 DEF Fetched, AfterFetch, service, KeysInv, CacheInv, CallInv, Fetching, Available, Never, Differ,
              Call, NoCall
<1>10. CASE UNCHANGED keyVars
  BY <1>10 DEF keyVars, KeysInv, CacheInv, CallInv, Fetching, Available, Never, Differ
<1> QED
  BY <1>2, <1>3, <1>4, <1>5, <1>6, <1>7, <1>8, <1>9, <1>10 DEF KeysNext

\* The invariant of the key cache holds in every behaviour.
THEOREM KeysInvariant == KeysSpec => []KeysInv
BY KeysInitInv, KeysInvStep, PTL DEF KeysSpec

(***************************************************************************)
(* Type correctness of the key cache, the lookup under way and the state   *)
(* of the token service (token.keySet).                                    *)
(***************************************************************************)
THEOREM KeysTypeCorrect == KeysSpec => []KeysTypeOK
<1>1. KeysInv => KeysTypeOK
  BY DEF KeysInv
<1> QED
  BY <1>1, KeysInvariant, PTL

(***************************************************************************)
(* A withdrawn key is accepted from no login that starts MaxCacheAge       *)
(* later, and while fetching fails from none that starts MaxStale later    *)
(* still (keySet.find).                                                    *)
(***************************************************************************)
THEOREM WithdrawnKeysExpireHolds == KeysSpec => WithdrawnKeysExpire
<1> DEFINE Kept ==
      LET k == call.kid IN
      \/ k \in published
      \/ call.at < changed[k] + MaxCacheAge
      \/ lastFetch = "failed" /\ call.at < changed[k] + MaxCacheAge + MaxStale
<1>1. ASSUME KeysInv, Found PROVE Kept
  <2>1. call \in Call
    BY SMTT(60), <1>1 DEF KeysInv, KeysTypeOK, Found, NoCall
  <2>2. call.kid \in Kid /\ call.at \in Nat /\ changed[call.kid] \in Nat /\ fresh \in Int
    BY <1>1, <2>1 DEF KeysInv, KeysTypeOK, Call
  <2>3. call.kid \notin published => fresh <= changed[call.kid] + MaxCacheAge
    BY <1>1 DEF KeysInv, CacheInv, Found, Differ
  <2>4. (lastFetch = "failed" \/ call.at < fresh) /\ call.at < fresh + MaxStale
    BY SMTT(60), <1>1 DEF KeysInv, CallInv, Found, Available, NoCall
  <2> QED
    BY SMTT(60), <2>2, <2>3, <2>4, KeysAssumption
<1>2. KeysInv => (Found => Kept)
  BY <1>1
<1> QED
  BY <1>2, KeysInvariant, PTL DEF WithdrawnKeysExpire

(***************************************************************************)
(* A key published MaxCacheAge before a login starts is refused only after *)
(* a fetch that failed (keySet.find).                                      *)
(***************************************************************************)
THEOREM PublishedKeysAreFoundHolds == KeysSpec => PublishedKeysAreFound
<1> DEFINE Excused ==
      LET k == call.kid IN
      \/ k \notin published
      \/ call.at < changed[k] + MaxCacheAge
      \/ lastFetch = "failed"
<1>1. ASSUME KeysInv, Denied PROVE Excused
  <2>1. call \in Call
    BY SMTT(60), <1>1 DEF KeysInv, KeysTypeOK, Denied, NoCall
  <2>2. call.kid \in Kid /\ call.at \in Nat /\ changed[call.kid] \in Nat /\ fresh \in Int
    BY <1>1, <2>1 DEF KeysInv, KeysTypeOK, Call
  <2>3. lastFetch = "failed" \/ call.at < fresh
    BY SMTT(60), <1>1 DEF KeysInv, CallInv, Denied, NoCall
  <2>4. CASE ~Available
    BY SMTT(60), <2>2, <2>3, <2>4, KeysAssumption DEF Available
  <2>5. CASE Available
    <3>1. call.kid \notin keys
      BY <1>1, <2>5 DEF Denied
    <3>2. call.kid \in published => fresh <= changed[call.kid] + MaxCacheAge
      BY <1>1, <3>1 DEF KeysInv, CacheInv, Differ
    <3> QED
      BY SMTT(60), <2>2, <2>3, <3>2, KeysAssumption
  <2> QED
    BY <2>4, <2>5
<1>2. KeysInv => (Denied => Excused)
  BY <1>1
<1> QED
  BY <1>2, KeysInvariant, PTL DEF PublishedKeysAreFound

(***************************************************************************)
(* A key that the service has had since the last fetch that did not fail   *)
(* is refused from no login that starts within MinCacheAge and MaxStale of *)
(* that fetch, however many fetches fail in between (maxStale).            *)
(***************************************************************************)
THEOREM OutageIsBridgedHolds == KeysSpec => OutageIsBridged
<1> DEFINE Excused ==
      LET k == call.kid IN
      \/ k \notin published
      \/ changed[k] >= okAt
      \/ call.at >= okAt + MinCacheAge + MaxStale
<1>1. ASSUME KeysInv, Denied PROVE Excused
  <2>1. call \in Call
    BY SMTT(60), <1>1 DEF KeysInv, KeysTypeOK, Denied, NoCall
  <2>2. /\ call.kid \in Kid /\ call.at \in Nat /\ changed[call.kid] \in Nat
        /\ fresh \in Int /\ okAt \in Int
    BY <1>1, <2>1 DEF KeysInv, KeysTypeOK, Call
  <2>3. CASE ~Available
    <3>1. okAt = Never \/ okAt + MinCacheAge <= fresh
      BY <1>1 DEF KeysInv, CacheInv
    <3>2. Never <= 0
      BY SMTT(60), KeysAssumption DEF Never
    <3> QED
      BY SMTT(60), <2>2, <2>3, <3>1, <3>2, KeysAssumption DEF Available
  <2>4. CASE Available
    <3>1. call.kid \notin keys
      BY <1>1, <2>4 DEF Denied
    <3>2. call.kid \in published => okAt <= changed[call.kid]
      BY <1>1, <3>1 DEF KeysInv, CacheInv, Differ
    <3> QED
      BY SMTT(60), <2>2, <3>2
  <2> QED
    BY <2>3, <2>4
<1>2. KeysInv => (Denied => Excused)
  BY <1>1
<1> QED
  BY <1>2, KeysInvariant, PTL DEF OutageIsBridged
=============================================================================
