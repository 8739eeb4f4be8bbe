------------------------------- MODULE Config -------------------------------
(***************************************************************************)
(* The configuration of the server: config.LoadFrom reads it from          *)
(* environment variables, server.Config.Validate checks it, config.Named   *)
(* names the variable in an error.  Times are in seconds, and short enough *)
(* that twice a time is still a time.Duration.  Strings are only told      *)
(* apart as far as the checks do.                                          *)
(***************************************************************************)
EXTENDS Integers, Sequences

CONSTANTS
  Unset,      \* the value of a variable that is not set, getenv returns "" for it
  Unreadable  \* a value that does not parse

(***************************************************************************)
(* The environment gives every variable a value: the number, truth value   *)
(* or name that it stands for.  A pool size or port keeps its sign.        *)
(***************************************************************************)
NoEnv ==
  [Port |-> Unset, LogLevel |-> Unset, ServerID |-> Unset, Store |-> Unset,
   DatabaseURL |-> Unset, DBMaxConns |-> Unset, DBMinConns |-> Unset,
   RequireSyncReplication |-> Unset, MaxFrameBytes |-> Unset, MaxCommitBytes |-> Unset,
   PingInterval |-> Unset, LeaseTTL |-> Unset, HelloTimeout |-> Unset,
   AllowedOrigins |-> {}, DeleteUnusedAfterDays |-> Unset,
   TokenJWKSURL |-> Unset, TokenJWKSFile |-> Unset, TokenIssuer |-> Unset,
   TokenAudience |-> Unset, TokenLeeway |-> Unset]

\* What an error can name: a variable, or a field of the configuration.
Names == DOMAIN NoEnv \cup {"Addr", "DeleteUnusedAfter"}

\* A variable that is not set is no value and no name.
ASSUME ConfigAssumption == Unset \notin Int /\ Unset \notin BOOLEAN /\ Unset \notin Names

Day == 24 * 60 * 60
minMaxFrameBytes == 65536 + 1024
defaultPort == 8080

\* The limits and timeouts of a configuration that sets nothing.
DefaultConfig ==
  [MaxFrameBytes |-> 1024 * 1024, MaxCommitBytes |-> 256 * 1024 * 1024, PingInterval |-> 10,
   LeaseTTL |-> 5 * 60, HelloTimeout |-> 5, DeleteUnusedAfter |-> 180 * Day, TokenLeeway |-> 60]

-----------------------------------------------------------------------------
(* server.Config *)

\* The first of some checks that fails, each a name and whether it fails, or Unset.
FirstFailing(checks) ==
  LET failing == {n \in DOMAIN checks : checks[n][2]} IN
  IF failing = {} THEN Unset
  ELSE checks[CHOOSE n \in failing : \A m \in failing : n <= m][1]

tokensOfURL(c) == c.TokenJWKSURL # Unset
tokens(c) == c.TokenJWKSURL # Unset \/ c.TokenJWKSFile # Unset

\* Https, or http on localhost.
SecureURL == {"https", "http on localhost"}

ValidateLimits(c) ==
  << <<"MaxFrameBytes", c.MaxFrameBytes < minMaxFrameBytes>>,
     <<"MaxCommitBytes", c.MaxCommitBytes < c.MaxFrameBytes>>,
     <<"PingInterval", c.PingInterval <= 0>>,
     <<"LeaseTTL", c.LeaseTTL < 2 * c.PingInterval>>,
     <<"HelloTimeout", c.HelloTimeout <= 0>>,
     <<"DeleteUnusedAfter",
       c.DeleteUnusedAfter < 0 \/ (c.DeleteUnusedAfter > 0 /\ c.DeleteUnusedAfter < Day)>> >>

ValidateStoreAnySync(c) ==
  << <<"Addr", c.Addr = Unset>>,
     <<"ServerID", c.ServerID = Unset>>,
     <<"Store", c.Store \notin {"memory", "postgres"}>>,
     <<"DatabaseURL", c.Store = "postgres" /\ c.DatabaseURL = Unset>>,
     <<"DBMaxConns", c.DBMaxConns < 0>>,
     <<"DBMinConns", c.DBMinConns < 0>>,
     <<"DBMinConns", c.DBMaxConns > 0 /\ c.DBMinConns > c.DBMaxConns>> >>
ValidateStore(c) ==
  << <<"Addr", c.Addr = Unset>>,
     <<"ServerID", c.ServerID = Unset>>,
     <<"Store", c.Store \notin {"memory", "postgres"}>>,
     <<"DatabaseURL", c.Store = "postgres" /\ c.DatabaseURL = Unset>>,
     <<"DBMaxConns", c.DBMaxConns < 0>>,
     <<"DBMinConns", c.DBMinConns < 0>>,
     <<"DBMinConns", c.DBMaxConns > 0 /\ c.DBMinConns > c.DBMaxConns>>,
     <<"RequireSyncReplication", c.RequireSyncReplication /\ c.Store # "postgres">> >>

ValidateTokens(c) ==
  << <<"TokenJWKSFile", c.TokenJWKSURL # Unset /\ c.TokenJWKSFile # Unset>>,
     <<"TokenIssuer", ~tokens(c) /\ (c.TokenIssuer # Unset \/ c.TokenAudience # Unset)>>,
     <<"TokenIssuer", tokens(c) /\ c.TokenIssuer = Unset>>,
     <<"TokenLeeway", c.TokenLeeway < 0>>,
     <<"TokenJWKSURL", c.TokenJWKSURL # Unset /\ c.TokenJWKSURL \notin SecureURL>>,
     <<"AllowedOrigins", c.AllowedOrigins \cap {"", "with scheme or path"} # {}>> >>

\* The first invalid field, or Unset.
Validate(c) == FirstFailing(ValidateStore(c) \o ValidateLimits(c) \o ValidateTokens(c))

-----------------------------------------------------------------------------
(* package config *)

\* The variable that sets a field. The other fields are named like their variables.
envOf(field) ==
  CASE field = "Addr" -> "Port"
    [] field = "DeleteUnusedAfter" -> "DeleteUnusedAfterDays"
    [] OTHER -> field

\* Named: an error says which variable is wrong.
Named(field) == IF field = Unset THEN Unset ELSE envOf(field)

\* Pool sizes (connsVar) and durations (durationVar) are positive, other numbers may be 0.
NotPositive(v) == v # Unset /\ (v = Unreadable \/ v <= 0)
NotANumber(v) == v = Unreadable

\* The variables in the order in which LoadFrom parses them, with whether it fails.
ParseFailures(env) ==
  << <<"Port", NotPositive(env.Port) \/ (env.Port # Unset /\ env.Port > 65535)>>,
     <<"LogLevel", env.LogLevel = Unreadable>>,
     <<"DBMaxConns", NotPositive(env.DBMaxConns)>>,
     <<"DBMinConns", NotPositive(env.DBMinConns)>>,
     <<"RequireSyncReplication", env.RequireSyncReplication = Unreadable>>,
     <<"MaxFrameBytes", NotANumber(env.MaxFrameBytes)>>,
     <<"MaxCommitBytes", NotANumber(env.MaxCommitBytes)>>,
     <<"PingInterval", NotPositive(env.PingInterval)>>,
     <<"LeaseTTL", NotPositive(env.LeaseTTL)>>,
     <<"HelloTimeout", NotPositive(env.HelloTimeout)>>,
     <<"TokenLeeway", NotPositive(env.TokenLeeway)>>,
     <<"DeleteUnusedAfterDays", NotANumber(env.DeleteUnusedAfterDays)>> >>

Or(v, default) == IF v = Unset THEN default ELSE v

\* The configuration that variables which all parse stand for.
ConfigOf(env) ==
  [Addr |-> Or(env.Port, defaultPort), ServerID |-> env.ServerID, Store |-> env.Store,
   DatabaseURL |-> env.DatabaseURL,
   DBMaxConns |-> Or(env.DBMaxConns, 0), DBMinConns |-> Or(env.DBMinConns, 0),
   RequireSyncReplication |-> Or(env.RequireSyncReplication, FALSE),
   MaxFrameBytes |-> Or(env.MaxFrameBytes, DefaultConfig.MaxFrameBytes),
   MaxCommitBytes |-> Or(env.MaxCommitBytes, DefaultConfig.MaxCommitBytes),
   PingInterval |-> Or(env.PingInterval, DefaultConfig.PingInterval),
   LeaseTTL |-> Or(env.LeaseTTL, DefaultConfig.LeaseTTL),
   HelloTimeout |-> Or(env.HelloTimeout, DefaultConfig.HelloTimeout),
   AllowedOrigins |-> env.AllowedOrigins \ {""},
   DeleteUnusedAfter |->
     IF env.DeleteUnusedAfterDays = Unset THEN DefaultConfig.DeleteUnusedAfter
     ELSE env.DeleteUnusedAfterDays * Day,
   TokenJWKSURL |-> env.TokenJWKSURL, TokenJWKSFile |-> env.TokenJWKSFile,
   TokenIssuer |-> env.TokenIssuer, TokenAudience |-> env.TokenAudience,
   TokenLeeway |-> Or(env.TokenLeeway, DefaultConfig.TokenLeeway)]

\* LoadFrom returns a configuration, or the variable that is wrong.
LoadFrom(env) ==
  LET unread == FirstFailing(ParseFailures(env))
      config == ConfigOf(env)
      problem == IF unread # Unset THEN unread ELSE Named(Validate(config)) IN
  IF problem # Unset THEN [problem |-> problem]
  ELSE [problem |-> Unset, config |-> config]
=============================================================================
