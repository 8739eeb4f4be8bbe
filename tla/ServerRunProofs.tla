-------------------------- MODULE ServerRunProofs --------------------------
(***************************************************************************)
(* How a server process starts and ends, for any number of connections and *)
(* any configuration; and that a client keeps its lease with the limits    *)
(* that every accepted configuration has.                                  *)
(***************************************************************************)
EXTENDS ServerRun, LeaseRenewal, SequenceTheorems, WellFoundedInduction, TLAPS

USE ZenonT(60), SMTT(60)

-----------------------------------------------------------------------------
(* The end *)

StartSteps == {"loading", "verifier", "store", "migrating", "replication", "starting"}
EndSteps == {"ending", "closing", "returned"}

None(states) == \A c \in Conn : conns[c] \notin states

(***************************************************************************)
(* The inductive invariant.  The goroutine of Run, the sweep and the       *)
(* connections know of each other only by what each step of Run has left   *)
(* behind: requests that arrived before the listener was closed are still  *)
(* to be counted or refused, which of the two Server.stopped decides.      *)
(***************************************************************************)
EndInv ==
  /\ run \in StartSteps =>
       sweeper = "none" /\ errs = {} /\ \A c \in Conn : conns[c] = "none"
  /\ run \in {"loading", "verifier", "store"} => pool = "none"
  /\ pool = "closed" => run \in {"closing", "returned"}
  /\ run \in {"closing", "returned"} => pool # "open" /\ sweeper \in {"none", "stopped"}
  /\ run \in {"serving", "draining"} => errs = {}
  /\ run \in {"stopping", "waiting"} => errs \subseteq {"drain"} /\ (errs = {} => None({"entered"}))
  /\ run = "waiting" => stopped
  /\ run \in EndSteps =>
       /\ errs \subseteq {"drain"} =>
            /\ None({"counted", "reading", "calling"})
            /\ stopped \/ None({"entered"})
       /\ errs = {} => None({"entered"})
  /\ run = "returned" /\ pool = "closed" => None({"calling"})

RunInv == RunTypeOK /\ EndInv

\* The invariant holds before the configuration is loaded.
LEMMA RunInvInit == RunInit => RunInv
BY DEF RunInit, RunInv, RunTypeOK, EndInv, StartSteps, EndSteps

\* Every step of the start keeps it: no connection and no sweep is there yet.
LEMMA StartKeepsRunInv ==
  ASSUME RunInv, StartNext
  PROVE  RunInv'
<1> USE DEF RunInv, RunTypeOK, EndInv, StartSteps, EndSteps, None, Starting, Refuse, startVars
<1>1. CASE Load
  BY <1>1 DEF Load
<1>2. CASE newVerifier
  BY <1>2 DEF newVerifier
<1>3. CASE openStore
  BY <1>3 DEF openStore
<1>4. CASE Migrate
  BY <1>4 DEF Migrate
<1>5. CASE SyncStandbyNames
  BY <1>5 DEF SyncStandbyNames
<1>6. CASE StartServing
  BY <1>6 DEF StartServing
<1> QED
  BY <1>1, <1>2, <1>3, <1>4, <1>5, <1>6 DEF StartNext

\* Requests and connections keep it.
LEMMA ConnKeepsRunInv ==
  ASSUME RunInv, NEW c \in Conn, ConnNext(c)
  PROVE  RunInv'
<1> USE DEF RunInv, RunTypeOK, EndInv, StartSteps, EndSteps, None, SetConn
<1>1. CASE Arrive(c)
  BY <1>1 DEF Arrive
<1>2. CASE Register(c)
  BY <1>2 DEF Register
<1>3. CASE Upgrade(c)
  BY SMTT(60), <1>3 DEF Upgrade
<1>4. CASE ReadFrame(c)
  BY <1>4 DEF ReadFrame
<1>5. CASE CallEnds(c)
  BY <1>5 DEF CallEnds
<1>6. CASE ReadFails(c)
  BY <1>6 DEF ReadFails
<1>7. CASE WatchStop(c)
  BY <1>7 DEF WatchStop
<1> QED
  BY <1>1, <1>2, <1>3, <1>4, <1>5, <1>6, <1>7 DEF ConnNext

\* The sweep keeps it.
LEMMA SweepKeepsRunInv ==
  ASSUME RunInv, SweepEnds \/ SweepAgain \/ SweeperStops
  PROVE  RunInv'
<1> USE DEF RunInv, RunTypeOK, EndInv, StartSteps, EndSteps, None, SetSweeper
<1>1. CASE SweepEnds
  BY <1>1 DEF SweepEnds
<1>2. CASE SweepAgain
  BY <1>2 DEF SweepAgain
<1>3. CASE SweeperStops
  BY <1>3 DEF SweeperStops
<1> QED
  BY <1>1, <1>2, <1>3

\* Serve, Shutdown and the deferred calls of Run keep it.
LEMMA EndKeepsRunInv ==
  ASSUME RunInv,
         Cancel \/ ListenFails \/ Drain \/ Expire \/ Drained \/ Stop \/ Waited \/ CloseStore \/ Return
  PROVE  RunInv'
<1> USE DEF RunInv, RunTypeOK, EndInv, StartSteps, EndSteps, None, RunAt
<1>1. CASE Cancel
  BY <1>1 DEF Cancel
<1>2. CASE ListenFails
  BY <1>2 DEF ListenFails
<1>3. CASE Drain
  BY <1>3 DEF Drain
<1>4. CASE Expire
  BY <1>4 DEF Expire
<1>5. CASE Drained
  BY <1>5 DEF Drained
<1>6. CASE Stop
  BY <1>6 DEF Stop
<1>7. CASE Waited
  BY <1>7 DEF Waited, Counted
<1>8. CASE CloseStore
  BY <1>8 DEF CloseStore, Closed
<1>9. CASE Return
  BY <1>9 DEF Return
<1> QED
  BY <1>1, <1>2, <1>3, <1>4, <1>5, <1>6, <1>7, <1>8, <1>9

\* The inductive invariant holds of every run of the server.
THEOREM RunInvariant == RunSpec => []RunInv
<1>1. RunInv /\ [RunNext]_runVars => RunInv'
  <2>1. CASE UNCHANGED runVars
    BY <2>1 DEF runVars, RunInv, RunTypeOK, EndInv, None
  <2> QED
    BY <2>1, StartKeepsRunInv, ConnKeepsRunInv, SweepKeepsRunInv, EndKeepsRunInv DEF RunNext
<1> QED
  BY <1>1, RunInvInit, PTL DEF RunSpec

(***************************************************************************)
(* A shutdown without an error leaves no connection and no request, with   *)
(* any number of connections (Server.Shutdown and Server.ServeHTTP).       *)
(***************************************************************************)
THEOREM ShutdownIsClean == RunSpec => []CleanShutdown
<1>1. RunInv => CleanShutdown
  BY DEF RunInv, EndInv, EndSteps, None, CleanShutdown, Counted
<1> QED
  BY <1>1, RunInvariant, PTL

(***************************************************************************)
(* The pool is closed after the last sweep, and Run returns after the last *)
(* call to it (the deferred calls of Run).                                 *)
(***************************************************************************)
THEOREM StoreIsClosedInTime == RunSpec => []StoreOutlivesUse
<1>1. RunInv => StoreOutlivesUse
  BY DEF RunInv, RunTypeOK, EndInv, None, StoreOutlivesUse
<1> QED
  BY <1>1, RunInvariant, PTL

\* No way out of Run leaves the pool open (the error returns of openStore, and the deferred calls).
THEOREM PoolIsClosedHolds == RunSpec => []PoolIsClosed
<1>1. RunInv => PoolIsClosed
  BY DEF RunInv, RunTypeOK, EndInv, PoolIsClosed
<1> QED
  BY <1>1, RunInvariant, PTL

-----------------------------------------------------------------------------
(* The configuration *)

\* Every set of naturals has a least element.
LEMMA LeastNumber ==
  ASSUME NEW T \in SUBSET Nat, T # {}
  PROVE  \E x \in T : \A y \in T : x <= y
<1> DEFINE R == OpToRel(<, Nat)
<1>1. \A x, y \in Nat : y < x => <<y, x>> \in R
  BY DEF OpToRel
<1>2. IsWellFoundedOn(R, Nat)
  BY NatLessThanWellFounded
<1> HIDE DEF R
<1>3. PICK x \in T : \A y \in T : ~(<<y, x>> \in R)
  BY <1>2, WFMin
<1>4. \A y \in T : ~(y < x)
  BY <1>1, <1>3
<1>5. \A y \in T : y \in Nat /\ x \in Nat
  OBVIOUS
<1> QED
  BY SMTT(60), <1>4, <1>5

\* A list of checks, each with the name that its error has.
IsChecks(v) == \E X : v \in Seq(X) /\ \A x \in X : x[1] \in Names

\* A list that is given by its entries.
LEMMA ChecksOf ==
  ASSUME NEW v, NEW n \in Nat, v = [i \in 1..n |-> v[i]], \A i \in 1..n : v[i][1] \in Names
  PROVE  IsChecks(v)
<1> DEFINE X == {v[i] : i \in 1..n}
<1>1. v \in [1..n -> X]
  OBVIOUS
<1>2. v \in Seq(X)
  BY <1>1, SeqDef
<1>3. \A x \in X : x[1] \in Names
  OBVIOUS
<1> QED
  BY <1>2, <1>3 DEF IsChecks

\* If there is no error then no check has failed.
LEMMA NoneFails ==
  ASSUME NEW checks, IsChecks(checks), FirstFailing(checks) = Unset
  PROVE  \A n \in 1..Len(checks) : ~checks[n][2]
<1> DEFINE failing == {n \in DOMAIN checks : checks[n][2]}
<1>1. /\ DOMAIN checks = 1..Len(checks) /\ Len(checks) \in Nat
      /\ \A n \in DOMAIN checks : checks[n][1] \in Names
  <2>1. PICK X : checks \in Seq(X) /\ \A x \in X : x[1] \in Names
    BY DEF IsChecks
  <2> QED
    BY SMTT(60), <2>1
<1> SUFFICES ASSUME failing # {} PROVE FALSE
  BY <1>1
<1>2. \E n \in failing : \A m \in failing : n <= m
  <2>1. failing \subseteq Nat
    BY SMTT(60), <1>1
  <2> QED
    BY <2>1, LeastNumber
<1> DEFINE first == CHOOSE n \in failing : \A m \in failing : n <= m
<1>3. first \in DOMAIN checks
  BY <1>2
<1>4. FirstFailing(checks) = checks[first][1]
  BY DEF FirstFailing
<1> QED
  BY <1>1, <1>3, <1>4, ConfigAssumption

\* If a list of checks after another has no error then neither of the two has failed.
LEMMA NoneFailsOfTwo ==
  ASSUME NEW a, NEW b, IsChecks(a), IsChecks(b)
  PROVE  /\ IsChecks(a \o b)
         /\ (\A n \in 1..Len(a \o b) : ~(a \o b)[n][2]) =>
              (\A n \in 1..Len(a) : ~a[n][2]) /\ (\A m \in 1..Len(b) : ~b[m][2])
<1>1. PICK X : a \in Seq(X) /\ \A x \in X : x[1] \in Names
  BY DEF IsChecks
<1>2. PICK Y : b \in Seq(Y) /\ \A x \in Y : x[1] \in Names
  BY DEF IsChecks
<1>3. a \in Seq(X \cup Y) /\ b \in Seq(X \cup Y)
  BY SMTT(60), <1>1, <1>2
<1>4. a \o b \in Seq(X \cup Y) /\ \A x \in X \cup Y : x[1] \in Names
  BY SMTT(60), <1>1, <1>2, <1>3
<1>5. Len(a \o b) = Len(a) + Len(b) /\ Len(a) \in Nat /\ Len(b) \in Nat
  BY SMTT(60), <1>3
<1>6. /\ \A n \in 1..Len(a) : n \in 1..Len(a \o b) /\ (a \o b)[n] = a[n]
      /\ \A m \in 1..Len(b) : Len(a) + m \in 1..Len(a \o b) /\ (a \o b)[Len(a) + m] = b[m]
  BY SMTT(60), <1>3, <1>5
<1>7. IsChecks(a \o b)
  BY <1>4 DEF IsChecks
<1> QED
  BY <1>6, <1>7

\* The four lists of checks.
LEMMA AreChecks ==
  ASSUME NEW c
  PROVE  /\ IsChecks(ValidateStore(c)) /\ Len(ValidateStore(c)) = 8
         /\ IsChecks(ValidateLimits(c)) /\ Len(ValidateLimits(c)) = 6
         /\ IsChecks(ValidateTokens(c)) /\ Len(ValidateTokens(c)) = 6
         /\ IsChecks(ParseFailures(c)) /\ Len(ParseFailures(c)) = 12
<1>1. /\ ValidateStore(c) = [i \in 1..8 |-> ValidateStore(c)[i]]
      /\ \A i \in 1..8 : ValidateStore(c)[i][1] \in Names
      /\ Len(ValidateStore(c)) = 8
  BY SMTT(60) DEF ValidateStore, Names, NoEnv
<1>2. /\ ValidateLimits(c) = [i \in 1..6 |-> ValidateLimits(c)[i]]
      /\ \A i \in 1..6 : ValidateLimits(c)[i][1] \in Names
      /\ Len(ValidateLimits(c)) = 6
  BY SMTT(60) DEF ValidateLimits, Names, NoEnv
<1>3. /\ ValidateTokens(c) = [i \in 1..6 |-> ValidateTokens(c)[i]]
      /\ \A i \in 1..6 : ValidateTokens(c)[i][1] \in Names
      /\ Len(ValidateTokens(c)) = 6
  BY SMTT(60) DEF ValidateTokens, Names, NoEnv
<1>4. /\ ParseFailures(c) = [i \in 1..12 |-> ParseFailures(c)[i]]
      /\ \A i \in 1..12 : ParseFailures(c)[i][1] \in Names
      /\ Len(ParseFailures(c)) = 12
  BY SMTT(60) DEF ParseFailures, Names, NoEnv
<1> QED
  BY <1>1, <1>2, <1>3, <1>4, ChecksOf

\* The variable that an error names is never Unset.
LEMMA NamedIsSet ==
  ASSUME NEW field, Named(field) = Unset
  PROVE  field = Unset
BY ConfigAssumption DEF Named, envOf, Names, NoEnv

\* What LoadFrom accepts has failed no check.
LEMMA LoadedFacts ==
  ASSUME NEW e, LoadFrom(e).problem = Unset
  PROVE  /\ LoadFrom(e).config = ConfigOf(e)
         /\ \A n \in 1..12 : ~ParseFailures(e)[n][2]
         /\ \A n \in 1..8 : ~ValidateStore(ConfigOf(e))[n][2]
         /\ \A n \in 1..6 : ~ValidateLimits(ConfigOf(e))[n][2]
         /\ \A n \in 1..6 : ~ValidateTokens(ConfigOf(e))[n][2]
<1> DEFINE c == ConfigOf(e)
           unread == FirstFailing(ParseFailures(e))
           wrong == IF unread # Unset THEN unread ELSE Named(Validate(c))
<1>1. LoadFrom(e) = IF wrong # Unset THEN [problem |-> wrong]
                    ELSE [problem |-> Unset, config |-> c]
  BY DEF LoadFrom
<1>2. wrong = Unset /\ LoadFrom(e).config = c
  <2> HIDE DEF wrong, c
  <2> QED
    BY SMTT(60), <1>1
<1>3. unread = Unset /\ Validate(c) = Unset
  BY <1>2, NamedIsSet
<1> DEFINE store == ValidateStore(c)
           limits == ValidateLimits(c)
           toks == ValidateTokens(c)
<1>4. FirstFailing((store \o limits) \o toks) = Unset
  BY <1>3 DEF Validate
<1>5. /\ IsChecks(store) /\ Len(store) = 8 /\ IsChecks(limits) /\ Len(limits) = 6
      /\ IsChecks(toks) /\ Len(toks) = 6
  BY AreChecks
<1>6. \A n \in 1..12 : ~ParseFailures(e)[n][2]
  BY <1>3, AreChecks, NoneFails
<1> HIDE DEF store, limits, toks
<1>7. /\ \A n \in 1..8 : ~store[n][2]
      /\ \A m \in 1..6 : ~limits[m][2] /\ ~toks[m][2]
  <2>1. IsChecks(store \o limits) /\ IsChecks((store \o limits) \o toks)
    BY <1>5, NoneFailsOfTwo
  <2>2. \A n \in 1..Len((store \o limits) \o toks) : ~((store \o limits) \o toks)[n][2]
    BY <1>4, <2>1, NoneFails
  <2>3. (\A n \in 1..Len(store \o limits) : ~(store \o limits)[n][2]) /\ (\A m \in 1..6 : ~toks[m][2])
    BY <1>5, <2>1, <2>2, NoneFailsOfTwo
  <2>4. (\A n \in 1..8 : ~store[n][2]) /\ (\A m \in 1..6 : ~limits[m][2])
    BY <1>5, <2>3, NoneFailsOfTwo
  <2> QED
    BY <2>3, <2>4
<1> QED
  BY <1>2, <1>6, <1>7 DEF store, limits, toks

(***************************************************************************)
(* What an environment that LoadFrom accepts has: synchronous replication  *)
(* only with PostgreSQL, what a token must have only with keys, and limits *)
(* that fit each other.                                                    *)
(***************************************************************************)
Accepted(e, c) ==
  /\ e.RequireSyncReplication = TRUE => c.RequireSyncReplication /\ c.Store = "postgres"
  /\ \A v \in {"TokenJWKSURL", "TokenJWKSFile", "TokenIssuer", "TokenAudience"} :
       e[v] # Unset => tokens(c)
  /\ c.LeaseTTL >= 2 * c.PingInterval
  /\ c.MaxFrameBytes >= 65536 + 64 + 8 /\ c.MaxCommitBytes >= c.MaxFrameBytes

\* LoadFrom accepts no other environment.
LEMMA AcceptedFacts ==
  ASSUME NEW e \in Envs, LoadFrom(e).problem = Unset
  PROVE  Accepted(e, ConfigOf(e))
<1> DEFINE c == ConfigOf(e)
<1> SUFFICES Accepted(e, c)
  OBVIOUS
<1>1. /\ \A n \in 1..12 : ~ParseFailures(e)[n][2]
      /\ \A n \in 1..8 : ~ValidateStore(c)[n][2]
      /\ \A n \in 1..6 : ~ValidateLimits(c)[n][2]
      /\ \A n \in 1..6 : ~ValidateTokens(c)[n][2]
  BY LoadedFacts
<1>2. c = ConfigOf(e)
  OBVIOUS
<1> HIDE DEF c
<1>3. e.RequireSyncReplication = TRUE => c.RequireSyncReplication /\ c.Store = "postgres"
  <2>1. e.RequireSyncReplication = TRUE => c.RequireSyncReplication = TRUE
    BY <1>2, ConfigAssumption DEF ConfigOf, Or
  <2>2. ~ValidateStore(c)[8][2]
    BY SMTT(60), <1>1
  <2>3. ~(c.RequireSyncReplication /\ c.Store # "postgres")
    BY <2>2 DEF ValidateStore
  <2> QED
    BY <2>1, <2>3
<1>4. \A v \in {"TokenJWKSURL", "TokenJWKSFile", "TokenIssuer", "TokenAudience"} :
        e[v] # Unset => tokens(c)
  <2>1. /\ c.TokenJWKSURL = e.TokenJWKSURL /\ c.TokenJWKSFile = e.TokenJWKSFile
        /\ c.TokenIssuer = e.TokenIssuer /\ c.TokenAudience = e.TokenAudience
    BY <1>2 DEF ConfigOf
  <2>2. ~ValidateTokens(c)[2][2]
    BY SMTT(60), <1>1
  <2>3. ~(~tokens(c) /\ (c.TokenIssuer # Unset \/ c.TokenAudience # Unset))
    BY <2>2 DEF ValidateTokens
  <2> QED
    BY <2>1, <2>3 DEF tokens
<1>5. /\ c.MaxFrameBytes \in Int /\ c.MaxCommitBytes \in Int
      /\ c.PingInterval \in Int /\ c.LeaseTTL \in Int
  <2>1. ~ParseFailures(e)[6][2] /\ ~ParseFailures(e)[7][2] /\ ~ParseFailures(e)[8][2] /\ ~ParseFailures(e)[9][2]
    BY SMTT(60), <1>1
  <2>2. ~NotANumber(e.MaxFrameBytes) /\ ~NotANumber(e.MaxCommitBytes)
    BY SMTT(60), <2>1 DEF ParseFailures
  <2>3. ~NotPositive(e.PingInterval) /\ ~NotPositive(e.LeaseTTL)
    BY SMTT(60), <2>1 DEF ParseFailures
  <2>4. /\ e.MaxFrameBytes \in Int \cup {Unset} /\ e.MaxCommitBytes \in Int \cup {Unset}
        /\ e.PingInterval \in Int \cup {Unset} /\ e.LeaseTTL \in Int \cup {Unset}
    <3>1. \A v \in {"MaxFrameBytes", "MaxCommitBytes", "PingInterval", "LeaseTTL"} :
            e[v] \in Int \cup {Unset, Unreadable}
      BY EnvsAssumption
    <3>2. e.MaxFrameBytes \in Int \cup {Unset} /\ e.MaxCommitBytes \in Int \cup {Unset}
      BY <2>2, <3>1 DEF NotANumber
    <3>3. e.PingInterval \in Int \cup {Unset} /\ e.LeaseTTL \in Int \cup {Unset}
      BY <2>3, <3>1 DEF NotPositive
    <3> QED
      BY <3>2, <3>3
  <2>5. /\ c.MaxFrameBytes = Or(e.MaxFrameBytes, DefaultConfig.MaxFrameBytes)
        /\ c.MaxCommitBytes = Or(e.MaxCommitBytes, DefaultConfig.MaxCommitBytes)
        /\ c.PingInterval = Or(e.PingInterval, DefaultConfig.PingInterval)
        /\ c.LeaseTTL = Or(e.LeaseTTL, DefaultConfig.LeaseTTL)
    BY <1>2 DEF ConfigOf
  <2>6. /\ DefaultConfig.MaxFrameBytes \in Int /\ DefaultConfig.MaxCommitBytes \in Int
        /\ DefaultConfig.PingInterval \in Int /\ DefaultConfig.LeaseTTL \in Int
    BY SMTT(60) DEF DefaultConfig
  <2> QED
    BY <2>4, <2>5, <2>6 DEF Or
<1>6. c.LeaseTTL >= 2 * c.PingInterval
  <2>1. ~ValidateLimits(c)[4][2]
    BY SMTT(60), <1>1
  <2>2. ~(c.LeaseTTL < 2 * c.PingInterval)
    BY <2>1 DEF ValidateLimits
  <2> QED
    BY SMTT(60), <1>5, <2>2
<1>7. c.MaxFrameBytes >= 65536 + 64 + 8 /\ c.MaxCommitBytes >= c.MaxFrameBytes
  <2>1. ~ValidateLimits(c)[1][2] /\ ~ValidateLimits(c)[2][2]
    BY SMTT(60), <1>1
  <2>2. ~(c.MaxFrameBytes < minMaxFrameBytes) /\ ~(c.MaxCommitBytes < c.MaxFrameBytes)
    BY <2>1 DEF ValidateLimits
  <2> QED
    BY SMTT(60), <1>5, <2>2 DEF minMaxFrameBytes
<1> QED
  BY SMTT(60), <1>3, <1>4, <1>6, <1>7 DEF Accepted

-----------------------------------------------------------------------------
(* The start *)

BeforeStore == {"loading", "verifier", "store"}

(***************************************************************************)
(* The inductive invariant.  A server that has not returned has a          *)
(* configuration that LoadFrom accepted, and each step of the start leaves *)
(* behind what it has checked.                                             *)
(***************************************************************************)
StartInv ==
  /\ run \notin {"loading", "returned"} =>
       env \in Envs /\ LoadFrom(env).problem = Unset /\ cfg = ConfigOf(env)
  /\ run \notin {"loading", "verifier", "returned"} => (tokens(cfg) => verifier)
  /\ run \in {"migrating", "replication"} => pool # "none"
  /\ run \notin BeforeStore \cup {"migrating", "replication", "returned"} /\ cfg.Store = "postgres" =>
       pool # "none" /\ (cfg.RequireSyncReplication => standbys)

\* Every step of the start keeps it.
LEMMA StartKeepsStartInv ==
  ASSUME RunTypeOK, StartInv, StartNext
  PROVE  StartInv'
<1> USE DEF StartInv, BeforeStore, Starting, Refuse, startVars
<1>1. CASE Load
  <2>1. PICK e \in Envs :
          /\ run' = IF LoadFrom(e).problem = Unset THEN "verifier" ELSE "returned"
          /\ env' = e
          /\ cfg' = IF LoadFrom(e).problem = Unset THEN LoadFrom(e).config ELSE Unset
    BY <1>1 DEF Load
  <2>2. LoadFrom(e).problem = Unset => LoadFrom(e).config = ConfigOf(e)
    BY LoadedFacts
  <2> QED
    BY <2>1, <2>2
<1>2. CASE newVerifier
  BY <1>2 DEF newVerifier
<1>3. CASE openStore
  BY <1>3 DEF openStore
<1>4. CASE Migrate
  BY <1>4 DEF Migrate
<1>5. CASE SyncStandbyNames
  BY SMTT(60), <1>5 DEF SyncStandbyNames
<1>6. CASE StartServing
  BY <1>6 DEF StartServing
<1> QED
  BY <1>1, <1>2, <1>3, <1>4, <1>5, <1>6 DEF StartNext

\* After the start only Run goes on, and the pool changes only from open to closed.
LEMMA OthersKeepStartInv ==
  ASSUME RunTypeOK, StartInv, RunNext, ~StartNext
  PROVE  StartInv'
<1>1. /\ UNCHANGED startVars
      /\ run' = run \/ (run \notin StartSteps \cup {"returned"} /\ run' \notin StartSteps)
      /\ pool' = pool \/ (run \notin StartSteps \cup {"returned"} /\ pool' = "closed")
  <2>1. CASE Cancel \/ Expire \/ SweepEnds \/ SweepAgain \/ SweeperStops
    BY <2>1 DEF Cancel, Expire, SweepEnds, SweepAgain, SweeperStops, SetSweeper
  <2>2. CASE ListenFails \/ Drain \/ Drained \/ Stop \/ Waited
    BY <2>2 DEF ListenFails, Drain, Drained, Stop, Waited, RunAt, StartSteps
  <2>3. CASE CloseStore \/ Return
    BY <2>3 DEF CloseStore, Return, Closed, RunAt, StartSteps
  <2>4. ASSUME NEW c \in Conn, ConnNext(c)
        PROVE  UNCHANGED startVars /\ run' = run /\ pool' = pool
    BY <2>4 DEF ConnNext, Arrive, Register, Upgrade, ReadFrame, CallEnds, ReadFails, WatchStop, SetConn
  <2> QED
    BY <2>1, <2>2, <2>3, <2>4 DEF RunNext
<1>2. /\ env' = env /\ cfg' = cfg /\ verifier' = verifier /\ standbys' = standbys
      /\ pool # "none" => pool' # "none"
  BY <1>1 DEF startVars
<1> QED
  BY <1>1, <1>2 DEF StartInv, StartSteps, BeforeStore

\* The inductive invariant holds of every run of the server.
THEOREM StartInvariant == RunSpec => []StartInv
<1>1. RunInit => StartInv
  BY DEF RunInit, StartInv, BeforeStore
<1>2. RunTypeOK /\ StartInv /\ [RunNext]_runVars => StartInv'
  <2>1. CASE UNCHANGED runVars
    BY <2>1 DEF runVars, startVars, StartInv
  <2> QED
    BY <2>1, StartKeepsStartInv, OthersKeepStartInv
<1>3. RunInv => RunTypeOK
  BY DEF RunInv
<1> QED
  BY <1>1, <1>2, <1>3, RunInvariant, PTL DEF RunSpec

(***************************************************************************)
(* A server that was told to require synchronous replication serves only   *)
(* with it, in any environment (Config.Validate, openStore).               *)
(***************************************************************************)
THEOREM SyncIsKeptHolds == RunSpec => []SyncIsKept
<1>1. StartInv => SyncIsKept
  <2> SUFFICES ASSUME StartInv, Serves, env.RequireSyncReplication = TRUE
               PROVE  pool # "none" /\ standbys
    BY DEF SyncIsKept
  <2>1. /\ env \in Envs /\ LoadFrom(env).problem = Unset /\ cfg = ConfigOf(env)
        /\ cfg.Store = "postgres" => pool # "none" /\ (cfg.RequireSyncReplication => standbys)
    BY DEF StartInv, Serves, BeforeStore
  <2>2. Accepted(env, cfg)
    BY SMTT(60), <2>1, AcceptedFacts
  <2>3. cfg.RequireSyncReplication /\ cfg.Store = "postgres"
    BY SMTT(60), <2>2 DEF Accepted
  <2> QED
    BY <2>1, <2>3
<1> QED
  BY <1>1, StartInvariant, PTL

(***************************************************************************)
(* A server that serves checks tokens if a variable asks for it, and has   *)
(* limits that fit each other, in any environment (LoadFrom, Validate,     *)
(* newVerifier).                                                           *)
(***************************************************************************)
THEOREM ServesAsConfiguredHolds == RunSpec => []ServesAsConfigured
<1>1. StartInv => ServesAsConfigured
  <2> SUFFICES ASSUME StartInv, Serves
               PROVE  /\ \A v \in {"TokenJWKSURL", "TokenJWKSFile", "TokenIssuer", "TokenAudience"} :
                           env[v] # Unset => verifier
                      /\ cfg.LeaseTTL >= 2 * cfg.PingInterval
                      /\ cfg.MaxFrameBytes >= 65536 + 64 + 8 /\ cfg.MaxCommitBytes >= cfg.MaxFrameBytes
    BY SMTT(60) DEF ServesAsConfigured
  <2>1. /\ env \in Envs /\ LoadFrom(env).problem = Unset /\ cfg = ConfigOf(env)
        /\ tokens(cfg) => verifier
    BY DEF StartInv, Serves
  <2>2. Accepted(env, cfg)
    BY <2>1, AcceptedFacts
  <2> QED
    BY SMTT(60), <2>1, <2>2 DEF Accepted
<1> QED
  BY <1>1, StartInvariant, PTL

-----------------------------------------------------------------------------
(* The lease of a connected client *)

\* The last ping that arrived left the lease more than half its time, and one lost ping costs PingEvery of it.
RenewalInv ==
  /\ RenewalTypeOK
  /\ expires = renewed + LeaseTTL /\ renewed <= now
  /\ sent <= now /\ now <= sent + PingEvery
  /\ sent - renewed < HalfTTL + PingEvery
  /\ lost = 0 => sent - renewed < HalfTTL

\* Half of a time rounded down. Every valid TTL has a half.
LEMMA Halves == HalfTTL \in Nat /\ HalfTTL > 0 /\ 2 * (HalfTTL) <= LeaseTTL
  BY SMTT(60), RenewalAssumption DEF HalfTTL

\* Two pings of PingEvery fit into the half of the TTL that is left.
LEMMA TwoPingsFit ==
  ASSUME 2 * PingEvery <= PingInterval
  PROVE  HalfTTL + PingEvery + PingEvery <= LeaseTTL
<1>1. 2 * PingInterval <= LeaseTTL /\ PingInterval \in Nat /\ PingEvery \in Nat /\ LeaseTTL \in Nat
  BY RenewalAssumption
<1> QED
  BY SMTT(60), <1>1, Halves

(***************************************************************************)
(* If a client pings or commits at least every half PingInterval, as       *)
(* renewDue expects of it, then one lost ping never costs it its lease.    *)
(***************************************************************************)
THEOREM LeaseStaysHolds ==
  ASSUME 2 * PingEvery <= PingInterval
  PROVE  RenewalSpec => []LeaseStays
<1> USE RenewalAssumption, Halves
<1>1. RenewalInit => RenewalInv
  <2> SUFFICES ASSUME RenewalInit PROVE RenewalInv
    OBVIOUS
  <2>1. RenewalTypeOK
    BY DEF RenewalInit, RenewalTypeOK
  <2>2. expires = renewed + LeaseTTL /\ renewed <= now /\ sent <= now /\ now <= sent + PingEvery
    BY SMTT(60) DEF RenewalInit
  <2>3. sent - renewed < HalfTTL + PingEvery
    BY SMTT(60) DEF RenewalInit
  <2>4. sent - renewed < HalfTTL
    BY SMTT(60) DEF RenewalInit
  <2> QED
    BY <2>1, <2>2, <2>3, <2>4 DEF RenewalInv
<1>2. RenewalInv /\ [RenewalNext]_renewalVars => RenewalInv'
  <2> SUFFICES ASSUME RenewalInv, [RenewalNext]_renewalVars
               PROVE  RenewalInv'
    OBVIOUS
  <2> USE DEF RenewalInv, RenewalTypeOK
  <2>1. CASE Tick
    BY SMTT(60), <2>1 DEF Tick
  <2>2. CASE Ping
    <3>1. now' = now /\ sent' = now /\ lost' = 0
      BY <2>2 DEF Ping
    <3>2. CASE renewDue
      <4>1. renewed' = now /\ expires' = now + LeaseTTL
        BY <2>2, <3>2 DEF Ping, Renewed
      <4> QED
        BY SMTT(60), <3>1, <4>1
    <3>3. CASE ~renewDue
      <4>1. renewed' = renewed /\ expires' = expires /\ now - renewed < HalfTTL
        BY SMTT(60), <2>2, <3>3 DEF Ping, renewDue
      <4> QED
        BY SMTT(60), <3>1, <4>1
    <3> QED
      BY <3>2, <3>3
  <2>3. CASE PingLost
    BY SMTT(60), <2>3 DEF PingLost
  <2>4. CASE Commit
    BY SMTT(60), <2>4 DEF Commit, Renewed
  <2>5. CASE UNCHANGED renewalVars
    BY <2>5 DEF renewalVars
  <2> QED
    BY <2>1, <2>2, <2>3, <2>4, <2>5 DEF RenewalNext
<1>3. RenewalInv => LeaseStays
  BY SMTT(60), TwoPingsFit DEF RenewalInv, RenewalTypeOK, LeaseStays
<1> QED
  BY <1>1, <1>2, <1>3, PTL DEF RenewalSpec
=============================================================================
