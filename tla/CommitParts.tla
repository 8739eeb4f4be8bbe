----------------------------- MODULE CommitParts -----------------------------
(***************************************************************************)
(* How a connection puts the parts of a commit together                    *)
(* (connection.commit).  A commit that does not fit into one frame is sent *)
(* as parts 0, 1, ...; all but the last say that more follow.  The client  *)
(* sends parts without waiting for answers, so parts that follow a         *)
(* rejected one still arrive.  The module follows the Commit frames of one *)
(* database on one connection: other frames leave its pending commit alone.*)
(***************************************************************************)
EXTENDS Naturals, Sequences

LOCAL INSTANCE Functions

CONSTANTS
  Header,          \* commit ID, lease epoch, base version and page count
  ValidID(_),      \* whether the commit ID of a header has the right length
  Payload,         \* the blocks of one part
  Size(_),         \* their size
  MaxCommitBytes,
  MaxPart,         \* the highest part number of a frame
  MaxFrames        \* bound on the frames of a behaviour

ASSUME PartsAssumption ==
  /\ \A h \in Header : ValidID(h) \in BOOLEAN
  /\ \A p \in Payload : Size(p) \in Nat
  /\ MaxCommitBytes \in Nat /\ MaxPart \in Nat /\ MaxFrames \in Nat

VARIABLES
  open,      \* whether the database is open on the connection
  pending,   \* openDB.pending: the parts so far, or NoCommit
  frames,    \* history: the Commit frames received
  stored     \* history: the commits passed to the store, and after which frame

partsVars == <<open, pending, frames, stored>>

Frame == [header : Header, part : 0 .. MaxPart, payload : Payload, more : BOOLEAN]

NoCommit == [nextPart |-> 0, blocks |-> <<>>, size |-> 0]
Pending == [header : Header, nextPart : Nat, blocks : Seq(Payload), size : Nat]
Started(frame) == [header |-> frame.header, nextPart |-> 0, blocks |-> <<>>, size |-> 0]

PartsTypeOK ==
  /\ open \in BOOLEAN
  /\ pending \in Pending \cup {NoCommit}
  /\ frames \in Seq(Frame)
  /\ stored \subseteq [header : Header, blocks : Seq(Payload), size : Nat, at : Nat]

PartsInit == open = FALSE /\ pending = NoCommit /\ frames = <<>> /\ stored = {}

-----------------------------------------------------------------------------
OpenDB ==
  /\ ~open /\ open' = TRUE
  /\ UNCHANGED <<pending, frames, stored>>

\* The entry of the database goes, and its pending commit with it.
CloseDB ==
  /\ open /\ open' = FALSE /\ pending' = NoCommit
  /\ UNCHANGED <<frames, stored>>

Continues(frame) ==
  /\ pending # NoCommit /\ frame.part = pending.nextPart /\ frame.header = pending.header

\* The pending commit with the blocks of frame.
Extend(commit, frame) ==
  [commit EXCEPT !.nextPart = @ + 1, !.blocks = Append(@, frame.payload),
                 !.size = @ + Size(frame.payload)]

\* A frame for a database that is not open on the connection.
NotOpen(frame) == ~open /\ UNCHANGED <<pending, stored>>

\* A commit ID of the wrong length discards what is pending.
BadID(frame) ==
  /\ open /\ ~ValidID(frame.header)
  /\ pending' = NoCommit /\ UNCHANGED stored

RejectKeepsPending(frame) ==
  /\ open /\ ValidID(frame.header) /\ frame.part # 0 /\ ~Continues(frame)
  /\ UNCHANGED <<pending, stored>>
\* A part that does not continue the pending commit discards it.
Reject(frame) ==
  /\ open /\ ValidID(frame.header) /\ frame.part # 0 /\ ~Continues(frame)
  /\ pending' = NoCommit /\ UNCHANGED stored

TakeUnlimited(frame) ==
  LET commit == Extend(IF frame.part = 0 THEN Started(frame) ELSE pending, frame) IN
  /\ open /\ ValidID(frame.header) /\ (frame.part = 0 \/ Continues(frame))
  /\ pending' = IF frame.more THEN commit ELSE NoCommit
  /\ stored' = IF frame.more THEN stored
               ELSE stored \cup {[header |-> commit.header, blocks |-> commit.blocks,
                                  size |-> commit.size, at |-> Len(frames) + 1]}
\* A part is taken. Part 0 discards what is pending, and the last part passes the commit to the store.
Take(frame) ==
  LET commit == Extend(IF frame.part = 0 THEN Started(frame) ELSE pending, frame)
      fits == commit.size <= MaxCommitBytes IN
  /\ open /\ ValidID(frame.header) /\ (frame.part = 0 \/ Continues(frame))
  /\ pending' = IF fits /\ frame.more THEN commit ELSE NoCommit
  /\ stored' = IF ~fits \/ frame.more THEN stored
               ELSE stored \cup {[header |-> commit.header, blocks |-> commit.blocks,
                                  size |-> commit.size, at |-> Len(frames) + 1]}

Receive(frame) ==
  /\ Len(frames) < MaxFrames
  /\ NotOpen(frame) \/ BadID(frame) \/ Reject(frame) \/ Take(frame)
  /\ frames' = Append(frames, frame) /\ UNCHANGED open

PartsNext == OpenDB \/ CloseDB \/ (\E frame \in Frame : Receive(frame))

PartsSpec == PartsInit /\ [][PartsNext]_partsVars

-----------------------------------------------------------------------------
(* Properties *)

\* The n frames up to the one numbered last are the parts 0 .. n - 1 of one commit.
PartsOf(header, blocks, last) ==
  LET n == Len(blocks) IN
  /\ n > 0 /\ n <= last /\ last <= Len(frames)
  /\ \A k \in 1 .. n :
       /\ frames[last - n + k].header = header
       /\ frames[last - n + k].part = k - 1
       /\ frames[last - n + k].payload = blocks[k]
       /\ k < n => frames[last - n + k].more

(***************************************************************************)
(* A commit that reaches the store consists of all its parts, from part 0  *)
(* to the last, in their order and of one header, received one after the   *)
(* other with nothing rejected, started anew or discarded in between: a    *)
(* partial commit is never applied, however parts are lost, repeated,      *)
(* mixed or sent on after a rejection (connection.commit: "the server      *)
(* would apply a partial commit").                                         *)
(***************************************************************************)
WholeCommits ==
  \A c \in stored : PartsOf(c.header, c.blocks, c.at) /\ ~frames[c.at].more

(***************************************************************************)
(* What is pending is a prefix of the parts of one commit on an open       *)
(* database, and these parts are the frames received last.                 *)
(***************************************************************************)
PendingIsPrefix ==
  pending # NoCommit =>
    /\ open /\ pending.nextPart = Len(pending.blocks)
    /\ PartsOf(pending.header, pending.blocks, Len(frames)) /\ frames[Len(frames)].more

\* The size of all blocks of a commit.
Total(blocks) == FoldFunction(LAMBDA payload, sum : Size(payload) + sum, 0, blocks)

(***************************************************************************)
(* Over all its parts, neither a stored commit nor the one a connection    *)
(* keeps between two frames is larger than MaxCommitBytes                  *)
(* (Config.MaxCommitBytes: "over all its parts").                          *)
(***************************************************************************)
SizeBounded ==
  /\ Total(pending.blocks) <= MaxCommitBytes
  /\ \A c \in stored : Total(c.blocks) <= MaxCommitBytes
=============================================================================
