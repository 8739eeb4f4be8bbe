-------------------------------- MODULE Login --------------------------------
(***************************************************************************)
(* How long logins take, and how long a client that has logged in may send *)
(* requests (connection.run).  The client sends a Hello, the server checks *)
(* its access token, sends a challenge and waits for the Proof.  Checking  *)
(* a token may fetch the keys of the token service under the mutex of the  *)
(* key cache, which all logins and the lookups of slots over HTTP share;   *)
(* the cache itself is in TokenKeys.                                       *)
(* After the login the token expires while the client sends pings and      *)
(* requests.  What the server computes takes no time here, only waiting    *)
(* does.                                                                   *)
(***************************************************************************)
EXTENDS Integers, FiniteSets

CONSTANTS
  Conn,
  HelloTimeout,
  KeyFetchTimeout, KeyCacheAge,   \* of the key cache
  WriteTimeout,
  ChallengeTTL,
  PingInterval,
  Leeway,
  Lifetimes,   \* the times to the expiry of the tokens that clients send
  NoToken,
  Lookup, NoOne,   \* who else may hold the mutex
  MaxFetches   \* bound on the fetches of lookups that a login waits for

ASSUME LoginAssumption ==
  /\ IsFiniteSet(Conn)
  /\ {HelloTimeout, KeyFetchTimeout, KeyCacheAge, WriteTimeout, ChallengeTTL, PingInterval, Leeway,
      MaxFetches} \subseteq Nat
  /\ Lifetimes \subseteq Int /\ NoToken \notin Int
  /\ Lookup \notin Conn /\ NoOne \notin Conn /\ Lookup # NoOne

VARIABLES
  required,  \* whether the server requires access tokens
  conns,     \* how far every login is
  mutex,     \* who fetches the keys, with the mutex of the key cache
  held,      \* for how long
  refetch    \* the time until the keys may be fetched again

keyCache == <<mutex, held, refetch>>
loginVars == <<required, conns, keyCache>>

(***************************************************************************)
(* A connection has a step and the time it has been in it, its age, the    *)
(* age of its challenge and the time until its token expires, negative     *)
(* after that (connection.tokenExpires).  fetches is history: the fetches, *)
(* of anybody, that went on while its token waited to be checked.          *)
(***************************************************************************)
Connection ==
  [step : {"none", "hello", "token", "challenge", "proof", "in", "closed"},
   waited : Nat, age : Nat, challenge : Nat, token : Int \cup {NoToken}, fetches : Nat]

Fresh(step) ==
  [step |-> step, waited |-> 0, age |-> 0, challenge |-> 0, token |-> NoToken, fetches |-> 0]

LoginInit ==
  /\ required \in BOOLEAN
  /\ conns = [c \in Conn |-> Fresh("none")]
  /\ mutex = NoOne /\ held = 0 /\ refetch = 0

Goes(c, step) == conns' = [conns EXCEPT ![c].step = step, ![c].waited = 0]
Close(c) == conns' = [conns EXCEPT ![c] = Fresh("closed")]

Connect(c) ==
  /\ conns[c].step = "none"
  /\ conns' = [conns EXCEPT ![c] = Fresh("hello")]
  /\ UNCHANGED <<required, keyCache>>

\* The mutex of the key cache is held during a fetch, of a login or of a lookup.
Locked == mutex # NoOne

\* identify makes the challenge. Its deadline counts from here, not from when it was sent.
identify(c) == conns' = [conns EXCEPT ![c].step = "challenge", ![c].waited = 0, ![c].challenge = 0]

(***************************************************************************)
(* A Hello arrives, or a frame that the server refuses.  Its token is      *)
(* looked at only if the server requires tokens.                           *)
(***************************************************************************)
Hello(c) ==
  /\ conns[c].step = "hello"
  /\ \/ required /\ \E life \in Lifetimes :
          conns' = [conns EXCEPT ![c].step = "token", ![c].waited = 0, ![c].token = life,
                                 ![c].fetches = IF Locked THEN 1 ELSE 0]
     \/ ~required /\ identify(c)
     \/ Close(c)
  /\ UNCHANGED <<required, keyCache>>

\* The key of the token is known, and the token has not expired and is valid otherwise, or is refused.
Checked(c) == (conns[c].token > -Leeway /\ identify(c)) \/ Close(c)

\* Verify finds the key of the token in the cache.
Verify(c) ==
  /\ conns[c].step = "token" /\ ~Locked
  /\ Checked(c)
  /\ UNCHANGED <<required, keyCache>>

(***************************************************************************)
(* find fetches the keys for a login or a lookup, once: the second fetch   *)
(* of find comes too soon after the first.  The time until the next one    *)
(* counts from its start.                                                  *)
(***************************************************************************)
FetchKeys(caller) ==
  /\ ~Locked /\ refetch = 0
  /\ mutex' = caller /\ held' = 0 /\ refetch' = KeyCacheAge
  /\ conns' = [c \in Conn |-> IF conns[c].step = "token"
                               THEN [conns[c] EXCEPT !.fetches = @ + 1] ELSE conns[c]]
  /\ UNCHANGED required

\* The keys are there, or the fetch failed.
Unlock == mutex' = NoOne /\ held' = 0 /\ UNCHANGED refetch

Fetch(c) ==
  /\ conns[c].step = "token"
  /\ FetchKeys(c)

KeysFetched(c) ==
  /\ mutex = c
  /\ Checked(c)
  /\ Unlock /\ UNCHANGED required

(***************************************************************************)
(* ServeSlot checks the token of a GET request with the same key cache, if *)
(* the server requires tokens.  Lookups come at any time, in any number; a *)
(* lookup that waits for the mutex or finds its key in the cache changes   *)
(* nothing, and one fetches at a time.                                     *)
(***************************************************************************)
LookupFetch ==
  /\ required
  /\ \A c \in Conn : conns[c].step = "token" => conns[c].fetches < MaxFetches
  /\ FetchKeys(Lookup)

LookupFetched ==
  /\ mutex = Lookup
  /\ Unlock /\ UNCHANGED <<required, conns>>

(***************************************************************************)
(* The challenge is written to the socket. An error is only logged: the    *)
(* read that follows fails then.                                           *)
(***************************************************************************)
ChallengeSent(c) ==
  /\ conns[c].step = "challenge"
  /\ Goes(c, "proof")
  /\ UNCHANGED <<required, keyCache>>

\* The age of the login does not matter any more.
LoggedIn(c) ==
  conns' = [conns EXCEPT ![c].step = "in", ![c].waited = 0, ![c].age = 0, ![c].fetches = 0]

(***************************************************************************)
(* A Proof arrives. It is refused after the deadline of the challenge, or  *)
(* if the signature does not match.                                        *)
(***************************************************************************)
Proof(c) ==
  /\ conns[c].step = "proof"
  /\ \/ conns[c].challenge <= ChallengeTTL /\ LoggedIn(c)
     \/ Close(c)
  /\ UNCHANGED <<required, keyCache>>

tokenTTLUnsigned(token) ==
  IF token = NoToken THEN 0 ELSE token % 2 ^ 16
\* The lifetime of the token that HelloOk tells the client, 0 without a token.
tokenTTL(token) ==
  IF token = NoToken THEN 0 ELSE IF token > 1 THEN token ELSE 1

tokenExpired(c) == conns[c].token # NoToken /\ conns[c].token < -Leeway

\* A ping arrives, which no expiry of the token ends.
Ping(c) ==
  /\ conns[c].step = "in" /\ Goes(c, "in")
  /\ UNCHANGED <<required, keyCache>>

RequestUnchecked(c) ==
  /\ conns[c].step = "in" /\ Goes(c, "in")
  /\ UNCHANGED <<required, keyCache>>
\* Another request arrives. It is handled, or closes the connection.
Request(c) ==
  /\ conns[c].step = "in"
  /\ IF tokenExpired(c) THEN Close(c) ELSE Goes(c, "in")
  /\ UNCHANGED <<required, keyCache>>

\* read fails: no frame in time, or the connection is lost.
readFailed(c) ==
  /\ conns[c].step \in {"hello", "proof", "in"}
  /\ Close(c)
  /\ UNCHANGED <<required, keyCache>>

Done(c) == conns[c].step \in {"none", "closed"}

\* c may wait: for its timeout, or for the mutex.
Waits(c) ==
  CASE Done(c) -> TRUE
    [] conns[c].step = "hello" -> conns[c].waited < HelloTimeout
    [] conns[c].step = "token" -> Locked
    [] conns[c].step = "challenge" -> conns[c].waited < WriteTimeout
    [] conns[c].step = "proof" -> conns[c].waited < ChallengeTTL
    [] conns[c].step = "in" -> conns[c].waited < 3 * PingInterval

\* What a connection is after one more unit of time.
Older(conn) ==
  [conn EXCEPT
     !.waited = @ + 1,
     !.age = IF conn.step = "in" THEN @ ELSE @ + 1,
     !.challenge = IF conn.step = "in" THEN @ ELSE @ + 1,
     !.token = IF @ # NoToken /\ @ >= -Leeway THEN @ - 1 ELSE @]

Passes ==
  /\ \A c \in Conn : Waits(c)
  /\ conns' = [c \in Conn |-> IF Done(c) THEN conns[c] ELSE Older(conns[c])]
  /\ held' = IF Locked THEN held + 1 ELSE 0
  /\ refetch' = IF refetch = 0 THEN 0 ELSE refetch - 1
  /\ UNCHANGED <<required, mutex>>

\* Time passes while every connection waits and no fetch is at its timeout.
LoginTick ==
  /\ Locked => held < KeyFetchTimeout
  /\ Passes

LoginNext ==
  \/ LoginTick \/ LookupFetch \/ LookupFetched
  \/ \E c \in Conn :
       \/ Connect(c) \/ Hello(c) \/ Verify(c) \/ Fetch(c) \/ KeysFetched(c)
       \/ ChallengeSent(c) \/ Proof(c) \/ Ping(c) \/ Request(c) \/ readFailed(c)

LoginSpec == LoginInit /\ [][LoginNext]_loginVars

-----------------------------------------------------------------------------

\* The connections, the mutex and the time until the next fetch have their types.
LoginTypeOK ==
  /\ required \in BOOLEAN /\ conns \in [Conn -> Connection]
  /\ mutex \in Conn \cup {Lookup, NoOne} /\ held \in Nat /\ refetch \in 0..KeyCacheAge

(***************************************************************************)
(* connection.run: no connection stays without a login for longer than its *)
(* own timeouts and one timeout for each fetch that goes on while it waits *)
(* for the key cache, whether a login or a lookup makes it.  In particular *)
(* a client that stops answering does not keep its connection.             *)
(***************************************************************************)
LoginsEnd ==
  \A c \in Conn :
    ~Done(c) /\ conns[c].step # "in" =>
      conns[c].age <=
        HelloTimeout + conns[c].fetches * KeyFetchTimeout + WriteTimeout + ChallengeTTL

(***************************************************************************)
(* A client is told by HelloOk for how long its token is valid, however    *)
(* long the login took since the token was checked: at least 1, since 0    *)
(* means that no tokens are needed, and not for longer than it is, also if *)
(* it has expired in the meantime (tokenTTL).                              *)
(***************************************************************************)
LifetimeIsTold ==
  [][\A c \in Conn :
       conns[c].step = "proof" /\ conns'[c].step = "in" =>
         LET ttl == tokenTTL(conns[c].token) IN
         /\ ttl = 0 <=> ~required
         /\ ttl > 1 => ttl <= conns[c].token]_loginVars

(***************************************************************************)
(* "A connection whose token expired more than TokenLeeway ago is closed   *)
(* at the next request" (Config.TokenLeeway): a server that requires       *)
(* tokens handles no request after that, though the token may expire       *)
(* while the login waits for keys or for the Proof, and pings keep the     *)
(* connection open.                                                        *)
(***************************************************************************)
NoLateRequest ==
  [][\A c \in Conn :
       Request(c) /\ conns'[c].step = "in" /\ required =>
         conns[c].token \in Int /\ conns[c].token >= -Leeway]_loginVars
=============================================================================
