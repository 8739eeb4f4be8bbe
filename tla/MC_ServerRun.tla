----------------------------- MODULE MC_ServerRun -----------------------------
(***************************************************************************)
(* Two connections, and a server started with a memory or a PostgreSQL     *)
(* store and one or two more variables at or beyond a limit.               *)
(***************************************************************************)
EXTENDS ServerRun

CONSTANTS c1, c2

With(e, v, x) == [e EXCEPT ![v] = x]

OnMemory == With(With(NoEnv, "ServerID", "id"), "Store", "memory")
OnPostgres == With(With(With(NoEnv, "ServerID", "id"), "Store", "postgres"), "DatabaseURL", "url")
WithTokens == With(With(OnPostgres, "TokenJWKSFile", "file"), "TokenIssuer", "issuer")

\* Variables and the values at and beyond their limits.
Values ==
  { <<"Port", 65536>>, <<"LogLevel", Unreadable>>, <<"ServerID", Unset>>,
    <<"Store", "other">>, <<"DatabaseURL", Unset>>, <<"DBMaxConns", 0>>, 
    <<"RequireSyncReplication", TRUE>>, <<"RequireSyncReplication", Unreadable>>,
    <<"MaxFrameBytes", 66559>>, <<"MaxFrameBytes", 66560>>, <<"MaxCommitBytes", 2 ^ 20 - 1>>,
    <<"PingInterval", 150>>, <<"PingInterval", 151>>, <<"LeaseTTL", 0>>, <<"HelloTimeout", 0>>,
    <<"DeleteUnusedAfterDays", 0>>, <<"DeleteUnusedAfterDays", 1>>,
    <<"TokenIssuer", "issuer">>, <<"TokenAudience", "audience">>, <<"TokenLeeway", 0>>,
    <<"AllowedOrigins", {"", "host"}>>, <<"AllowedOrigins", {"with scheme or path"}>> }

TokenValues ==
  { <<"TokenIssuer", Unset>>, <<"TokenAudience", "audience">>, <<"TokenJWKSURL", "https">> }

MCEnvs ==
  {With(e, x[1], x[2]) : e \in {OnMemory, OnPostgres}, x \in Values}
    \cup {With(WithTokens, x[1], x[2]) : x \in TokenValues}
    \cup {With(With(OnPostgres, "DBMaxConns", 2), "DBMinConns", n) : n \in {2, 3}}
    \cup {With(With(OnMemory, "TokenJWKSURL", u), "TokenIssuer", "issuer") :
            u \in {"https", "http on localhost", "http"}}
=============================================================================
