----------------------------- MODULE ServerRun -----------------------------
(***************************************************************************)
(* The life of a server process: the command loads its configuration,      *)
(* server.Run opens the store and starts the sweep of unused databases,    *)
(* platform.Serve runs the HTTP server, and protocol.Server has its        *)
(* connections and its Shutdown.  The sweep and every connection are       *)
(* goroutines of their own.                                                *)
(***************************************************************************)
EXTENDS Config

CONSTANTS
  Conn,  \* requests for a WebSocket
  Envs   \* the environments the command is started in

\* A limit is a number, or no number, or not set.
ASSUME EnvsAssumption ==
  \A e \in Envs : \A v \in {"MaxFrameBytes", "MaxCommitBytes", "PingInterval", "LeaseTTL"} :
    e[v] \in Int \cup {Unset, Unreadable}

VARIABLES
  env,         \* the environment variables
  cfg,         \* the configuration that Run is called with, or Unset
  problem,     \* why the server did not start: a variable, "other", or Unset
  verifier,    \* whether access tokens are checked
  standbys,    \* whether PostgreSQL had synchronous standbys at the start
  pool,        \* the connection pool of the PostgreSQL store
  cancelled,   \* the context of Run is done
  run,         \* where the goroutine of Run is
  errs,        \* the errors platform.Serve returns
  expired,     \* shutdownTimeout has passed since the shutdown began
  stopped,     \* Server.stopped, and the channel Server.stop is closed
  sweeper,     \* where the goroutine of deleteUnused is
  conns,       \* where the goroutine of each connection is
  closed       \* the connections whose WebSocket was closed with "going away"

startVars == <<env, cfg, problem, verifier, standbys>>
runVars == <<startVars, pool, cancelled, run, errs, expired, stopped, sweeper, conns, closed>>

\* Where the pool, Run, the sweep and the connections can be.
RunTypeOK ==
  /\ pool \in {"none", "open", "closed"}
  /\ run \in {"loading", "verifier", "store", "migrating", "replication", "starting",
               "serving", "draining", "stopping", "waiting", "ending", "closing", "returned"}
  /\ sweeper \in {"none", "sweeping", "waiting", "stopped"}
  /\ conns \in [Conn -> {"none", "entered", "counted", "reading", "calling", "refused", "done"}]

RunInit ==
  /\ env = NoEnv /\ cfg = Unset /\ problem = Unset /\ verifier = FALSE /\ standbys = FALSE /\ pool = "none"
  /\ cancelled = FALSE /\ run = "loading" /\ errs = {} /\ expired = FALSE
  /\ stopped = FALSE /\ sweeper = "none"
  /\ conns = [c \in Conn |-> "none"] /\ closed = {}

\* The connections Server.conns counts.
Counted == {c \in Conn : conns[c] \in {"counted", "reading", "calling"}}

\* A signal cancels the context of Run.
Cancel ==
  /\ run # "loading" /\ ~cancelled /\ cancelled' = TRUE
  /\ UNCHANGED <<startVars, pool, run, errs, expired, stopped, sweeper, conns, closed>>

-----------------------------------------------------------------------------
(* The start: main.run, server.Run up to Serve, and openStore *)

Starting(from, to) ==
  /\ run = from /\ run' = to
  /\ UNCHANGED <<cancelled, errs, expired, stopped, conns, closed>>

\* run loads the configuration, and Run validates it again.
Load ==
  \E e \in Envs :
    LET loaded == LoadFrom(e) IN
    /\ Starting("loading", IF loaded.problem = Unset THEN "verifier" ELSE "returned")
    /\ env' = e /\ problem' = loaded.problem
    /\ cfg' = IF loaded.problem = Unset THEN loaded.config ELSE Unset
    /\ UNCHANGED <<verifier, standbys, pool, sweeper>>

\* Run returns an error before it serves.
Refuse(from, why) ==
  /\ Starting(from, "returned") /\ problem' = why
  /\ UNCHANGED <<env, cfg, verifier, sweeper>>

\* A file of keys is read at once and may be unusable. Keys behind a URL are fetched later.
newVerifier ==
  \/ /\ Starting("verifier", "store") /\ verifier' = tokens(cfg)
     /\ UNCHANGED <<env, cfg, problem, standbys, pool, sweeper>>
  \/ /\ Refuse("verifier", Named("TokenJWKSFile")) /\ cfg.TokenJWKSFile # Unset
     /\ UNCHANGED <<standbys, pool>>

\* openStore up to the connection pool. The memory store has none.
openStore ==
  \/ /\ Starting("store", "starting") /\ cfg.Store = "memory"
     /\ UNCHANGED <<startVars, pool, sweeper>>
  \/ /\ Starting("store", "migrating") /\ cfg.Store = "postgres" /\ pool' = "open"
     /\ UNCHANGED <<startVars, sweeper>>
  \/ /\ Refuse("store", "other") /\ cfg.Store = "postgres"
     /\ UNCHANGED <<standbys, pool>>

Migrate ==
  \/ /\ Starting("migrating", "replication")
     /\ UNCHANGED <<startVars, pool, sweeper>>
  \/ /\ Refuse("migrating", "other") /\ pool' = "closed"
     /\ UNCHANGED standbys

SyncStandbyNamesKeepsPool ==
  \/ \E set \in BOOLEAN :
       /\ Starting("replication", "starting") /\ standbys' = set
       /\ set \/ ~cfg.RequireSyncReplication
       /\ UNCHANGED <<env, cfg, problem, verifier, pool, sweeper>>
  \/ /\ Refuse("replication", "other") /\ pool' = "closed"
     /\ UNCHANGED standbys
  \/ /\ Refuse("replication", Named("RequireSyncReplication")) /\ cfg.RequireSyncReplication
     /\ UNCHANGED <<standbys, pool>>
\* openStore reads synchronous_standby_names, which may fail, and refuses to go on if they are required and empty.
SyncStandbyNames ==
  \/ \E set \in BOOLEAN :
       /\ Starting("replication", "starting") /\ standbys' = set
       /\ set \/ ~cfg.RequireSyncReplication
       /\ UNCHANGED <<env, cfg, problem, verifier, pool, sweeper>>
  \/ /\ Refuse("replication", "other") /\ pool' = "closed"
     /\ UNCHANGED standbys
  \/ /\ Refuse("replication", Named("RequireSyncReplication")) /\ cfg.RequireSyncReplication
     /\ pool' = "closed" /\ UNCHANGED standbys

\* Run starts the sweep and serves.
StartServing ==
  /\ Starting("starting", "serving")
  /\ sweeper' = IF cfg.DeleteUnusedAfter > 0 THEN "sweeping" ELSE "none"
  /\ UNCHANGED <<startVars, pool>>

StartNext == Load \/ newVerifier \/ openStore \/ Migrate \/ SyncStandbyNames \/ StartServing

-----------------------------------------------------------------------------
(* protocol.Server.ServeHTTP and connection.serve *)

SetConn(c, state) ==
  /\ conns' = [conns EXCEPT ![c] = state]
  /\ UNCHANGED <<startVars, pool, cancelled, run, errs, expired, stopped, sweeper, closed>>

\* The HTTP server accepts requests until Serve ends or shuts it down.
Arrive(c) == run = "serving" /\ conns[c] = "none" /\ SetConn(c, "entered")

RegisterAlways(c) == conns[c] = "entered" /\ SetConn(c, "counted")
Register(c) == conns[c] = "entered" /\ SetConn(c, IF stopped THEN "refused" ELSE "counted")

\* The WebSocket takes the connection over from the HTTP server, or the upgrade fails.
Upgrade(c) == conns[c] = "counted" /\ \E state \in {"reading", "done"} : SetConn(c, state)

\* A frame arrives. Its handler calls the store, which refuses at once when its pool is closed.
ReadFrame(c) == conns[c] = "reading" /\ c \notin closed /\ pool # "closed" /\ SetConn(c, "calling")

\* The store returns.
CallEnds(c) == conns[c] = "calling" /\ SetConn(c, "reading")

\* Reading fails: the client has gone, sent nothing in time, or the WebSocket was closed.
ReadFails(c) == conns[c] = "reading" /\ SetConn(c, "done")

WatchStopOne(c) ==
  /\ stopped /\ conns[c] \in {"reading", "calling"} /\ closed = {}
  /\ closed' = closed \cup {c}
  /\ UNCHANGED <<startVars, pool, cancelled, run, errs, expired, stopped, sweeper, conns>>
\* The goroutine that waits for Server.stop.
WatchStop(c) ==
  /\ stopped /\ conns[c] \in {"reading", "calling"} /\ c \notin closed
  /\ closed' = closed \cup {c}
  /\ UNCHANGED <<startVars, pool, cancelled, run, errs, expired, stopped, sweeper, conns>>

-----------------------------------------------------------------------------
(* deleteUnused *)

SetSweeper(state) ==
  /\ sweeper' = state
  /\ UNCHANGED <<startVars, pool, cancelled, run, errs, expired, stopped, conns, closed>>

SweepEnds == sweeper = "sweeping" /\ SetSweeper("waiting")
\* The ticker. The select may take it also when the context is done.
SweepAgain == sweeper = "waiting" /\ SetSweeper("sweeping")
SweeperStopsLast == sweeper = "waiting" /\ run = "closing" /\ SetSweeper("stopped")
SweeperStops == sweeper = "waiting" /\ cancelled /\ SetSweeper("stopped")

-----------------------------------------------------------------------------
(* server.Run and platform.Serve *)

RunAt(from, to) ==
  /\ run = from /\ run' = to
  /\ UNCHANGED <<startVars, cancelled, sweeper, conns, closed>>

\* ListenAndServe fails. Serve returns its error and shuts nothing down.
ListenFails ==
  /\ RunAt("serving", "ending") /\ errs' = {"listen"}
  /\ UNCHANGED <<expired, stopped, pool>>

\* http.Server.Shutdown closes the listener,
Drain ==
  /\ cancelled /\ RunAt("serving", "draining")
  /\ UNCHANGED <<errs, expired, stopped, pool>>

Expire ==
  /\ run \in {"draining", "stopping", "waiting"} /\ ~expired /\ expired' = TRUE
  /\ UNCHANGED <<startVars, pool, cancelled, run, errs, stopped, sweeper, conns, closed>>

\* and waits for the requests that are no WebSocket yet, until shutdownTimeout.
Drained ==
  /\ RunAt("draining", "stopping")
  /\ \/ (\A c \in Conn : conns[c] \notin {"entered", "counted"}) /\ UNCHANGED errs
     \/ expired /\ errs' = {"drain"}
  /\ UNCHANGED <<expired, stopped, pool>>

\* Shutdown closes Server.stop under the mutex of ServeHTTP,
Stop ==
  /\ RunAt("stopping", "waiting") /\ stopped' = TRUE
  /\ UNCHANGED <<errs, expired, pool>>

\* and waits for the connections, until shutdownTimeout. Serve joins the two errors.
Waited ==
  /\ RunAt("waiting", "ending")
  /\ \/ Counted = {} /\ UNCHANGED errs
     \/ expired /\ errs' = errs \cup {"shutdown"}
  /\ UNCHANGED <<expired, stopped, pool>>

\* closeStore does nothing for the memory store.
Closed == pool' = IF pool = "open" THEN "closed" ELSE pool

CloseStoreAtOnce ==
  /\ RunAt("ending", "closing") /\ Closed
  /\ UNCHANGED <<errs, expired, stopped>>
\* The deferred calls: the last sweep ends before the store is closed.
CloseStore ==
  /\ sweeper \in {"none", "stopped"}
  /\ RunAt("ending", "closing") /\ Closed
  /\ UNCHANGED <<errs, expired, stopped>>

\* Closing the pool takes no more calls and waits for those under way.
Return ==
  /\ pool = "closed" => \A c \in Conn : conns[c] # "calling"
  /\ RunAt("closing", "returned")
  /\ UNCHANGED <<errs, expired, stopped, pool>>

ConnNext(c) ==
  Arrive(c) \/ Register(c) \/ Upgrade(c) \/ ReadFrame(c) \/ CallEnds(c) \/ ReadFails(c) \/ WatchStop(c)

RunNext ==
  \/ StartNext
  \/ Cancel \/ ListenFails \/ Drain \/ Expire \/ Drained \/ Stop \/ Waited \/ CloseStore \/ Return
  \/ SweepEnds \/ SweepAgain \/ SweeperStops
  \/ \E c \in Conn : ConnNext(c)

(***************************************************************************)
(* Goroutines that can go on do so, timers fire, store calls return, and a *)
(* read on a WebSocket that was closed fails.  A select chooses at random  *)
(* among what is ready, so the sweeper does not take the ticker for ever.  *)
(***************************************************************************)
RunFairness ==
  /\ WF_runVars(StartNext)
  /\ WF_runVars(Drain \/ Drained \/ Stop \/ Waited \/ CloseStore \/ Return) /\ WF_runVars(Expire)
  /\ WF_runVars(SweepEnds) /\ SF_runVars(SweeperStops)
  /\ \A c \in Conn :
       /\ WF_runVars(Register(c) \/ Upgrade(c) \/ CallEnds(c)) /\ WF_runVars(WatchStop(c))
       /\ WF_runVars(c \in closed /\ ReadFails(c))

RunSpec == RunInit /\ [][RunNext]_runVars /\ RunFairness

-----------------------------------------------------------------------------
(* Properties *)

(***************************************************************************)
(* If Shutdown returns without an error, no connection is served and none  *)
(* begins later, though requests arrive, upgrade and call the store while  *)
(* the server shuts down (Server.Shutdown: "waits until all connections    *)
(* have ended").  Without any error no request is left either.             *)
(***************************************************************************)
CleanShutdown ==
  run \in {"ending", "closing", "returned"} =>
    /\ errs \subseteq {"drain"} => Counted = {}
    /\ errs = {} => \A c \in Conn : conns[c] # "entered"

(***************************************************************************)
(* "The store stays open until the last deletion has finished" (Run), and  *)
(* Run does not return while a handler is still in the PostgreSQL store.   *)
(***************************************************************************)
StoreOutlivesUse ==
  /\ sweeper = "sweeping" => pool # "closed"
  /\ run = "returned" /\ pool # "none" => \A c \in Conn : conns[c] # "calling"

(***************************************************************************)
(* However Run ends, also at any step of a start that fails, it leaves no  *)
(* connection pool open (openStore closes it, or Run by defer).            *)
(***************************************************************************)
PoolIsClosed == run = "returned" => pool # "open"

Serves == run \in {"serving", "draining", "stopping", "waiting"}

(***************************************************************************)
(* "RequireSyncReplication makes Run refuse to start unless PostgreSQL     *)
(* replicates commits synchronously" (Config): a server that was told to   *)
(* require it never serves otherwise, whichever store it was given.        *)
(***************************************************************************)
SyncIsKept == Serves /\ env.RequireSyncReplication = TRUE => pool # "none" /\ standbys

(***************************************************************************)
(* A server that serves checks access tokens if any variable says what a   *)
(* token must have, and its limits are those the rest of the code relies   *)
(* on: a lease outlives one lost ping (LeaseRenewal), a block of 64 KiB    *)
(* fits into a Pages frame (perFrame) and every frame into a commit.       *)
(***************************************************************************)
ServesAsConfigured ==
  Serves =>
    /\ \A v \in {"TokenJWKSURL", "TokenJWKSFile", "TokenIssuer", "TokenAudience"} :
         env[v] # Unset => verifier
    /\ cfg.LeaseTTL >= 2 * cfg.PingInterval
    /\ cfg.MaxFrameBytes >= 65536 + 64 + 8 /\ cfg.MaxCommitBytes >= cfg.MaxFrameBytes

(***************************************************************************)
(* Run returns once its context is done, whatever requests, connections    *)
(* and the sweep are doing then; after a listen error also without that,   *)
(* if there is no sweep to wait for.                                       *)
(***************************************************************************)
RunReturns == cancelled \/ ("listen" \in errs /\ sweeper = "none") ~> run = "returned"

(***************************************************************************)
(* After Shutdown every connection ends, also one that was counted before  *)
(* and upgraded after it: no connection misses the closing of Server.stop. *)
(***************************************************************************)
ConnectionsEnd == stopped ~> Counted = {}
=============================================================================
