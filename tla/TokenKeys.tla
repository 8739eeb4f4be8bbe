----------------------------- MODULE TokenKeys -----------------------------
(***************************************************************************)
(* The cache of the token service's signature keys (token.keySet).  A      *)
(* login looks up the key that signed its access token.  The cache fetches *)
(* the JWKS again when it has expired or does not have the key, and goes   *)
(* on with the keys it has while fetching fails.  keySet.find holds one    *)
(* mutex, also while it fetches, so one lookup is under way at a time; it  *)
(* reads the clock once, after it has the mutex.                           *)
(***************************************************************************)
EXTENDS Integers

CONSTANTS
  Kid,               \* key IDs
  MinCacheAge, MaxCacheAge, RefetchInterval, MaxStale, FetchTimeout,
  MaxTime            \* bound on the clock

ASSUME KeysAssumption ==
  /\ MinCacheAge \in Nat /\ MaxCacheAge \in Nat /\ RefetchInterval \in Nat
  /\ MaxStale \in Nat /\ FetchTimeout \in Nat /\ MaxTime \in Nat
  /\ 0 < MinCacheAge /\ MinCacheAge <= MaxCacheAge

VARIABLES
  now,
  keys,        \* the IDs of the cached keys
  fresh,       \* until when they are used without fetching again
  fetched,     \* when the last fetch was started
  call,        \* the lookup that holds the mutex, or NoCall
  published,   \* the IDs of the keys in the service's JWKS
  changed,     \* history: when a key was published or withdrawn last
  lastFetch,   \* history: how the last fetch ended
  okAt         \* history: the time of the last fetch that did not fail

cache == <<keys, fresh>>
service == <<published, changed>>
history == <<lastFetch, okAt>>
keyVars == <<now, keys, fresh, fetched, call, published, changed, lastFetch, okAt>>

\* The zero time.Time, long ago.
Never == -(MinCacheAge + RefetchInterval + MaxStale)

NoCall == [step |-> "none"]
Call ==
  [kid : Kid, at : Nat, step : {"renew", "look", "retry", "lookAgain"},
   answer : SUBSET Kid]   \* the JWKS the service has sent, {} if none

KeysTypeOK ==
  /\ now \in Nat
  /\ keys \subseteq Kid /\ published \subseteq Kid
  /\ fresh \in Int /\ fetched \in Int
  /\ call \in Call \cup {NoCall}
  /\ changed \in [Kid -> Nat]
  /\ lastFetch \in {"none", "ok", "failed"} /\ okAt \in Int

KeysInit ==
  /\ now = 0
  /\ keys = {} /\ fresh = Never /\ fetched = Never
  /\ call = NoCall /\ lastFetch = "none" /\ okAt = Never
  /\ published \in SUBSET Kid /\ changed = [k \in Kid |-> 0]

-----------------------------------------------------------------------------
(* The token service and the clock *)

Fetching == call.step \in {"renew", "retry"}

\* A fetch ends within FetchTimeout.
Tick ==
  /\ now < MaxTime /\ (Fetching => now < call.at + FetchTimeout)
  /\ now' = now + 1
  /\ UNCHANGED <<cache, fetched, call, service, history>>

Publish(k) ==
  /\ k \notin published
  /\ published' = published \cup {k} /\ changed' = [changed EXCEPT ![k] = now]
  /\ UNCHANGED <<now, cache, fetched, call, history>>

Withdraw(k) ==
  /\ k \in published
  /\ published' = published \ {k} /\ changed' = [changed EXCEPT ![k] = now]
  /\ UNCHANGED <<now, cache, fetched, call, history>>

\* The service answers a fetch. The answer is under way until Fetched or FetchFails.
Answer ==
  /\ Fetching /\ call.answer = {}
  /\ call' = [call EXCEPT !.answer = published]
  /\ UNCHANGED <<now, cache, fetched, service, history>>

-----------------------------------------------------------------------------
(* keySet *)

Expired(t) == t >= fresh /\ t - fetched >= MinCacheAge

\* find, from its begin to the first lookup or the start of the first fetch.
Find(kid) ==
  /\ call = NoCall
  /\ call' = [kid |-> kid, at |-> now, answer |-> {},
              step |-> IF Expired(now) THEN "renew" ELSE "look"]
  /\ fetched' = IF Expired(now) THEN now ELSE fetched
  /\ UNCHANGED <<now, cache, service, history>>

\* The lookup after the fetch.
AfterFetch ==
  [call EXCEPT !.step = IF @ = "renew" THEN "look" ELSE "lookAgain", !.answer = {}]

FetchedNow(age) ==
  /\ Fetching /\ call.answer # {}
  /\ keys' = call.answer /\ fresh' = now + age
  /\ call' = AfterFetch /\ lastFetch' = "ok" /\ okAt' = call.at
  /\ UNCHANGED <<now, fetched, service>>
FetchedKeepsKeys(age) ==
  /\ Fetching /\ call.answer # {}
  /\ fresh' = call.at + age
  /\ call' = AfterFetch /\ lastFetch' = "ok" /\ okAt' = call.at
  /\ UNCHANGED <<now, keys, fetched, service>>
\* refresh, if the JWKS arrives and has a usable key. cacheAge keeps its max-age between the limits.
Fetched(age) ==
  /\ Fetching /\ call.answer # {}
  /\ keys' = call.answer /\ fresh' = call.at + age
  /\ call' = AfterFetch /\ lastFetch' = "ok" /\ okAt' = call.at
  /\ UNCHANGED <<now, fetched, service>>

FetchFailsForgets ==
  /\ Fetching
  /\ call' = AfterFetch /\ lastFetch' = "failed"
  /\ keys' = {} /\ UNCHANGED <<now, fresh, fetched, service, okAt>>
\* refresh, if the service does not answer in time, fails or has no usable key, or if the caller gives up.
FetchFails ==
  /\ Fetching
  /\ call' = AfterFetch /\ lastFetch' = "failed"
  /\ UNCHANGED <<now, cache, fetched, service, okAt>>

\* The end of find.
Return == call' = NoCall /\ UNCHANGED <<now, cache, fetched, service, history>>

Available == call.at < fresh + MaxStale

\* find returns a key: at the first lookup, or after the fetch for an unknown key ID.
Found ==
  /\ (call.step = "look" /\ Available) \/ call.step = "lookAgain"
  /\ call.kid \in keys
  /\ Return

RetryDue == call.at - fetched >= RefetchInterval

\* The key ID is unknown, which can mean a key rotation.
Retry ==
  /\ call.step = "look" /\ Available /\ call.kid \notin keys /\ RetryDue
  /\ fetched' = call.at /\ call' = [call EXCEPT !.step = "retry"]
  /\ UNCHANGED <<now, cache, service, history>>

\* find refuses the key ID.
Denied ==
  /\ \/ call.step = "look" /\ ~Available
     \/ call.step = "look" /\ call.kid \notin keys /\ ~RetryDue
     \/ call.step = "lookAgain" /\ call.kid \notin keys
  /\ Return

KeysNext ==
  \/ Tick \/ Answer \/ FetchFails \/ Found \/ Retry \/ Denied
  \/ \E k \in Kid : Publish(k) \/ Withdraw(k) \/ Find(k)
  \/ \E age \in MinCacheAge .. MaxCacheAge : Fetched(age)

KeysSpec == KeysInit /\ [][KeysNext]_keyVars

-----------------------------------------------------------------------------
(* Properties *)

(***************************************************************************)
(* A key that the token service has withdrawn is accepted from no login    *)
(* that starts MaxCacheAge after that, and as long as fetching fails from  *)
(* none that starts MaxStale later still, whatever max-age the JWKS had,   *)
(* however long a fetch took and in whatever order fetches for expiry and  *)
(* for unknown keys ran (maxCacheAge and maxStale).                        *)
(***************************************************************************)
WithdrawnKeysExpire ==
  [][Found =>
       LET k == call.kid IN
       \/ k \in published
       \/ call.at < changed[k] + MaxCacheAge
       \/ lastFetch = "failed" /\ call.at < changed[k] + MaxCacheAge + MaxStale]_keyVars

(***************************************************************************)
(* A key that was published MaxCacheAge before a login starts is refused   *)
(* only if the last fetch failed: "A token service that rotates its key    *)
(* publishes the new key at least this long before it signs with it"       *)
(* (maxCacheAge) is enough for every login with it.                        *)
(***************************************************************************)
PublishedKeysAreFound ==
  [][Denied =>
       LET k == call.kid IN
       \/ k \notin published
       \/ call.at < changed[k] + MaxCacheAge
       \/ lastFetch = "failed"]_keyVars

(***************************************************************************)
(* "It keeps logins working during a short outage of the token service"    *)
(* (maxStale): a key that the service has had since the last fetch that    *)
(* did not fail is refused from no login that starts within MinCacheAge    *)
(* and MaxStale of that fetch, however many fetches for expiry and for     *)
(* unknown keys fail or time out in between.                               *)
(***************************************************************************)
OutageIsBridged ==
  [][Denied =>
       LET k == call.kid IN
       \/ k \notin published
       \/ changed[k] >= okAt
       \/ call.at >= okAt + MinCacheAge + MaxStale]_keyVars
=============================================================================
