---------------------------- MODULE LeaseRenewal ----------------------------
(***************************************************************************)
(* Whether a connected client keeps its lease from expiring, and so its    *)
(* database from the sweep.  A ping extends the lease in the store only if *)
(* half of LeaseTTL has passed since the last extension                    *)
(* (connection.renewDue), to save writes.  A commit extends it.  Other     *)
(* requests change nothing here.  Time is that of the server; a ping that  *)
(* is late or never arrives is lost.                                       *)
(***************************************************************************)
EXTENDS Integers

CONSTANTS
  PingInterval,
  LeaseTTL,
  PingEvery,   \* the longest time between two pings or commits of a client
  MaxTime      \* bound on the clock

ASSUME RenewalAssumption ==
  /\ PingInterval \in Nat /\ PingInterval > 0
  /\ LeaseTTL \in Nat /\ LeaseTTL >= 2 * PingInterval   \* Config.Validate
  /\ PingEvery \in Nat /\ MaxTime \in Nat

VARIABLES
  now,
  renewed,   \* openDB.renewed
  expires,   \* the expiry of the lease in the store
  sent,      \* when the client sent the last ping or commit
  lost       \* the number of pings lost since one arrived

renewalVars == <<now, renewed, expires, sent, lost>>

RenewalTypeOK ==
  /\ now \in Nat /\ renewed \in Nat /\ expires \in Nat /\ sent \in Nat
  /\ lost \in {0, 1}

\* The store extends the lease, and the connection notes when.
Renewed == renewed' = now /\ expires' = now + LeaseTTL

\* The database was just opened.
RenewalInit ==
  now = 0 /\ renewed = 0 /\ expires = LeaseTTL /\ sent = 0 /\ lost = 0

\* The clock of a server whose client pings in time.
Tick ==
  /\ now < MaxTime /\ now < sent + PingEvery
  /\ now' = now + 1
  /\ UNCHANGED <<renewed, expires, sent, lost>>

HalfTTL == LeaseTTL \div 2

renewDueLate == now - renewed > LeaseTTL - LeaseTTL \div 4
renewDue == now - renewed >= HalfTTL

Ping ==
  /\ IF renewDue THEN Renewed ELSE UNCHANGED <<renewed, expires>>
  /\ sent' = now /\ lost' = 0
  /\ UNCHANGED now

\* Not two pings in a row.
PingLost ==
  /\ lost = 0 /\ lost' = 1 /\ sent' = now
  /\ UNCHANGED <<now, renewed, expires>>

Commit ==
  /\ Renewed /\ sent' = now /\ lost' = 0
  /\ UNCHANGED now

RenewalNext == Tick \/ Ping \/ PingLost \/ Commit

RenewalSpec == RenewalInit /\ [][RenewalNext]_renewalVars

-----------------------------------------------------------------------------
(***************************************************************************)
(* The lease of a connected client that pings or commits at least twice    *)
(* per PingInterval (2 * PingEvery <= PingInterval) does not expire, so    *)
(* that no other instance takes it without a takeover, although pings are  *)
(* mostly not written to the store and one may be lost (Config.LeaseTTL:   *)
(* "one lost ping does not cost a client its lease").  The premise is what *)
(* renewDue says of clients: "about every half ping interval".  With one   *)
(* ping per PingInterval, all that Config.PingInterval asks of a client,   *)
(* and a LeaseTTL of two, it does not hold.                                *)
(***************************************************************************)
LeaseStays == now < expires
=============================================================================
