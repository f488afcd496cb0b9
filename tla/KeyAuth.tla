------------------------------ MODULE KeyAuth -------------------------------
(***************************************************************************)
(* API-key authentication (morf/auth/middleware.go, IsValid of             *)
(* morf/models/APIKey.go, the revoke command of morf/cmd/apikey.go): the   *)
(* cached validation and the per-key limiter (KeyUsage has the usage).     *)
(* One key, whose row an operator may revoke at any time from another      *)
(* process; requests run concurrently.  Time is counted in ticks, and no   *)
(* more than an hour passes, so the limiter does not refill.               *)
(***************************************************************************)
EXTENDS Integers, Sequences

CONSTANTS Clients,       \* requests in flight at a time
          KeyTTL,        \* apiKeyCacheTTL
          LookupTime,    \* how long a lookup in the database may take
          HourlyLimit,   \* the key's RateLimit
          KeyExpiry,     \* the key's ExpiresAt
          KeyHorizon     \* where time stops

ASSUME KeyAssumption == /\ KeyTTL \in Nat /\ LookupTime \in Nat
                        /\ HourlyLimit \in Int /\ KeyExpiry \in Nat /\ KeyHorizon \in Nat

Never == -1

VARIABLES keyTime,    \* the clock
          revoked,    \* when the row became inactive, or Never
          keyCache,   \* apiKeyCache: the copy's IsActive, and when it expires
          request,    \* each request: its stage, the copy it uses, when it was read
          limiter,    \* tokens of every limiter object made for the key
          mapped,     \* which of them globalRateLimiter holds, 0 for none
          served,     \* requests the middleware let through
          overdue     \* the longest time after its revocation the key was accepted

keyVars == <<keyTime, revoked, keyCache, request, limiter, mapped, served, overdue>>

NoEntry == [active |-> FALSE, till |-> Never]
NoCopy  == [at |-> "idle", active |-> FALSE, read |-> 0, lim |-> 0]

KeyTypeOK ==
  /\ keyTime \in 0..KeyHorizon /\ revoked \in Never..KeyHorizon
  /\ keyCache \in [active: BOOLEAN, till: Int]
  /\ \A r \in Clients : request[r].at \in {"idle", "lookup", "store", "check",
                                            "get", "make", "allow"}
  /\ mapped \in 0..Len(limiter) /\ served \in Nat
  /\ overdue \in 0..KeyHorizon

KeyInit ==
  /\ keyTime = 0 /\ revoked = Never /\ keyCache = NoEntry
  /\ request = [r \in Clients |-> NoCopy]
  /\ limiter = <<>> /\ mapped = 0 /\ served = 0 /\ overdue = 0

Stage(r, stage) == request' = [request EXCEPT ![r].at = stage]
limitVars == <<limiter, mapped, served>>
Cached == [NoCopy EXCEPT !.at = "check", !.active = keyCache.active]

-----------------------------------------------------------------------------
(* validateAPIKeyCached. *)

(* Mutant: an entry is served whatever its age. *)
CacheLookupStale(r) ==
  /\ request[r].at = "idle"
  /\ IF keyCache # NoEntry
     THEN request' = [request EXCEPT ![r] = Cached]
     ELSE Stage(r, "lookup")
  /\ UNCHANGED <<keyTime, revoked, keyCache, overdue, limitVars>>

(* A fresh entry is served; a stale one is deleted. *)
CacheLookup(r) ==
  /\ request[r].at = "idle"
  /\ IF keyTime < keyCache.till
     THEN /\ request' = [request EXCEPT ![r] = Cached]
          /\ UNCHANGED keyCache
     ELSE Stage(r, "lookup") /\ keyCache' = NoEntry
  /\ UNCHANGED <<keyTime, revoked, overdue, limitVars>>

(* ValidateAPIKey: the row as it is now, active or not; or an error, which *)
(* ends the request and is not cached.                                     *)
ReadRow(r) ==
  /\ request[r].at = "lookup"
  /\ \/ request' = [request EXCEPT ![r] = [@ EXCEPT !.at = "store", !.active = (revoked = Never),
                                                    !.read = keyTime]]
     \/ request' = [request EXCEPT ![r] = NoCopy]
  /\ UNCHANGED <<keyTime, revoked, keyCache, overdue, limitVars>>

StoreEntry(r) ==
  /\ request[r].at = "store"
  /\ request' = [request EXCEPT ![r].at = "check", ![r].read = 0]
  /\ keyCache' = IF KeyTTL > 0 THEN [active |-> request[r].active, till |-> keyTime + KeyTTL]
                               ELSE keyCache
  /\ UNCHANGED <<keyTime, revoked, overdue, limitVars>>

(* IsValid on the copy. *)
IsValid(r) == request[r].active /\ ~(keyTime > KeyExpiry)

UseKey(r) ==
  /\ request[r].at = "check"
  /\ IF IsValid(r)
     THEN /\ Stage(r, "get")
          /\ overdue' = IF revoked # Never /\ keyTime - revoked > overdue THEN keyTime - revoked
                        ELSE overdue
     ELSE /\ request' = [request EXCEPT ![r] = NoCopy]
          /\ UNCHANGED overdue
  /\ UNCHANGED <<keyTime, revoked, keyCache, limitVars>>

-----------------------------------------------------------------------------
(* RateLimitMiddleware and GetLimiter. *)
Limit == IF HourlyLimit <= 0 THEN 100 ELSE HourlyLimit

(* Under the read lock. *)
FindLimiter(r) ==
  /\ request[r].at = "get"
  /\ request' = [request EXCEPT ![r].at = IF mapped # 0 THEN "allow" ELSE "make", ![r].lim = mapped]
  /\ UNCHANGED <<keyTime, revoked, keyCache, overdue, limitVars>>

(* Mutant: no second look under the write lock. *)
MakeLimiterBlindly(r) ==
  /\ request[r].at = "make"
  /\ limiter' = Append(limiter, Limit) /\ mapped' = Len(limiter) + 1
  /\ request' = [request EXCEPT ![r].at = "allow", ![r].lim = mapped']
  /\ UNCHANGED <<keyTime, revoked, keyCache, served, overdue>>

(* Under the write lock: look again, then create. *)
MakeLimiter(r) ==
  /\ request[r].at = "make"
  /\ IF mapped # 0 THEN UNCHANGED <<limiter, mapped>>
     ELSE limiter' = Append(limiter, Limit) /\ mapped' = Len(limiter) + 1
  /\ request' = [request EXCEPT ![r].at = "allow", ![r].lim = mapped']
  /\ UNCHANGED <<keyTime, revoked, keyCache, served, overdue>>

(* limiter.Allow takes a token or the request is refused. *)
Allow(r) ==
  /\ request[r].at = "allow"
  /\ LET i == request[r].lim IN
     IF limiter[i] > 0 THEN limiter' = [limiter EXCEPT ![i] = @ - 1] /\ served' = served + 1
     ELSE UNCHANGED <<limiter, served>>
  /\ request' = [request EXCEPT ![r] = NoCopy]
  /\ UNCHANGED <<keyTime, revoked, keyCache, mapped, overdue>>

-----------------------------------------------------------------------------
(* apiKeyRevokeCmd, in a process of its own: no cache hears of it. *)
Revoke ==
  /\ revoked = Never /\ revoked' = keyTime
  /\ UNCHANGED <<keyTime, keyCache, request, overdue, limitVars>>

(* Time passes; a lookup takes at most LookupTime, and a request checks    *)
(* the copy it has at once.                                                *)
KeyTick ==
  /\ keyTime < KeyHorizon
  /\ \A r \in Clients : request[r].at = "store" => keyTime - request[r].read < LookupTime
  /\ \A r \in Clients : request[r].at # "check"
  /\ keyTime' = keyTime + 1
  /\ UNCHANGED <<revoked, keyCache, request, overdue, limitVars>>

KeyRequest(r) == \/ CacheLookup(r) \/ ReadRow(r) \/ StoreEntry(r) \/ UseKey(r)
                 \/ FindLimiter(r) \/ MakeLimiter(r) \/ Allow(r)

KeyNext == \/ \E r \in Clients : KeyRequest(r)
           \/ Revoke \/ KeyTick

KeySpec == KeyInit /\ [][KeyNext]_keyVars

-----------------------------------------------------------------------------
(* A revocation takes effect within the cache's TTL and the time a lookup  *)
(* was already under way: no request is accepted later than that           *)
(* (validateAPIKeyCached, the comment above it).                           *)
RevocationTakesEffect == overdue <= KeyTTL + LookupTime

(* Concurrent first requests of a key share its limiter: no more than the  *)
(* hourly limit are let through (GetLimiter).                              *)
LimitIsShared == served <= Limit
=============================================================================
