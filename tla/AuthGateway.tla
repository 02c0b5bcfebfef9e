----------------------------- MODULE AuthGateway -----------------------------
(***************************************************************************)
(* The gateway's side of a session: the endpoints of core/api/v1/auth.py   *)
(* with the JWTs (core/auth/jwt.py), the blacklist (blacklist.py) and the  *)
(* rate limiter (rate_limit.py) behind them.  Both of the latter keep what *)
(* they know in Redis, which may be down at any call, and let a request    *)
(* pass when it is.  Limiters count per path and share nothing; the model  *)
(* has the one of a Path, any of the three below.                          *)
(*                                                                         *)
(* Time is counted in half seconds: a token expires at a whole second, an  *)
(* entry of Redis a whole number of seconds after it was made.             *)
(***************************************************************************)
EXTENDS Integers

CONSTANTS
  Sessions,      \* requests that may be under way at the same time
  Tokens,        \* tokens somebody may still present; forgotten ones come again
  NoToken,
  Life,          \* seconds a token lives
  Path,          \* whose limiter it is: that of register, login or refresh
  MaxRequests,   \* per window and client
  Window         \* seconds

ASSUME TokenAssumption == NoToken \notin Tokens
ASSUME TimeAssumption == Life \in Nat \ {0} /\ Window \in Nat \ {0}
ASSUME LimitAssumption == Path \in {"register", "login", "refresh"} /\ MaxRequests \in Nat \ {0}

VARIABLES
  half,      \* is it half past the second? 0 or 1
  redis,     \* does Redis answer?
  kind,      \* per token: none, access, refresh
  left,      \* per token: half seconds to its exp, Dead once it is refused
  entry,     \* per token: half seconds its blacklist entry has, 0 without one
  count,     \* requests counted in Redis
  ttl,       \* half seconds the counter has, or Forever
  work,      \* per session: its request
  revoked,   \* history: tokens for which an entry was made
  lost       \* history: has an EXPIRE been lost?

tokenVars == <<kind, left, entry, revoked>>
limiterVars == <<count, ttl, lost>>
authVars == <<half, redis, kind, left, entry, count, ttl, work, revoked, lost>>

Dead == -2       \* jose compares whole seconds: exp is accepted for one more
Forever == -1

Work(op, at, t) == [op |-> op, at |-> at, token |-> t]
Rest == Work("none", "idle", NoToken)
Goes(s, at) == work' = [work EXCEPT ![s].at = at]
Ends(s) == work' = [work EXCEPT ![s] = Rest]

AuthTypeOK ==
  /\ half \in 0..1 /\ redis \in BOOLEAN
  /\ kind \in [Tokens -> {"none", "access", "refresh"}]
  /\ left \in [Tokens -> Dead..2 * Life]
  /\ entry \in [Tokens -> 0..2 * Life]
  /\ count \in 0..MaxRequests + 1
  /\ ttl \in Forever..2 * Window
  /\ work \in [Sessions -> [op : {"none", "register", "login", "refresh", "me", "logout"},
       at : {"idle", "limit", "expire", "over", "passed", "lookup", "accepted", "issue"},
       token : Tokens \cup {NoToken}]]
  /\ \A s \in Sessions : work[s].op \in {"refresh", "me", "logout"} => work[s].token \in Tokens
  /\ revoked \subseteq Tokens /\ lost \in BOOLEAN

-----------------------------------------------------------------------------
(* A request comes in; on the Path it meets the rate limiter first. *)

Entrance(op) == IF op = Path THEN "limit" ELSE "passed"

Begin(s, op, t) ==
  /\ work[s] = Rest
  /\ kind[t] # "none"
  /\ work' = [work EXCEPT ![s] = Work(op, Entrance(op), t)]
  /\ UNCHANGED <<half, redis, tokenVars, limiterVars>>

BeginWithout(s, op) ==
  /\ work[s] = Rest
  /\ work' = [work EXCEPT ![s] = Work(op, Entrance(op), NoToken)]
  /\ UNCHANGED <<half, redis, tokenVars, limiterVars>>

-----------------------------------------------------------------------------
(* RateLimiter.__call__ *)

(* INCR; beyond the limit the count no longer matters. *)
Counted == IF count > MaxRequests THEN count ELSE count + 1

(* A variant: the key is given its time before it is counted up. *)
ExpireThenIncr(s) ==
  /\ work[s].at = "limit" /\ redis
  /\ count' = Counted
  /\ Goes(s, IF Counted > MaxRequests THEN "over" ELSE "passed")
  /\ UNCHANGED <<half, redis, tokenVars, ttl, lost>>

Incr(s) ==
  /\ work[s].at = "limit" /\ redis
  /\ count' = Counted
  /\ Goes(s, IF Counted = 1 THEN "expire"
             ELSE IF Counted > MaxRequests THEN "over" ELSE "passed")
  /\ UNCHANGED <<half, redis, tokenVars, ttl, lost>>

(* EXPIRE, by the one that made the key. *)
Expire(s) ==
  /\ work[s].at = "expire" /\ redis
  /\ ttl' = 2 * Window
  /\ Goes(s, "passed")
  /\ UNCHANGED <<half, redis, tokenVars, count, lost>>

(* TTL, and 429. *)
TooMany(s) ==
  /\ work[s].at = "over" /\ redis
  /\ Ends(s)
  /\ UNCHANGED <<half, redis, tokenVars, limiterVars>>

(* Redis does not answer: the request passes, and an EXPIRE that was due is
   not made up for. *)
FailOpen(s) ==
  /\ work[s].at \in {"limit", "expire", "over"} /\ ~redis
  /\ lost' = (lost \/ work[s].at = "expire")
  /\ Goes(s, "passed")
  /\ UNCHANGED <<half, redis, tokenVars, count, ttl>>

-----------------------------------------------------------------------------
(* verify_token, and what the endpoints do then. *)

(* The signature holds; has the token expired? *)
Decode(s) ==
  /\ work[s].at = "passed" /\ work[s].op \notin {"register", "login"}
  /\ IF left[work[s].token] > Dead THEN Goes(s, "lookup") ELSE Ends(s)
  /\ UNCHANGED <<half, redis, tokenVars, limiterVars>>

(* is_revoked: EXISTS, or no answer. *)
Lookup(s) ==
  /\ work[s].at = "lookup"
  /\ IF redis /\ entry[work[s].token] > 0 THEN Ends(s) ELSE Goes(s, "accepted")
  /\ UNCHANGED <<half, redis, tokenVars, limiterVars>>

(* get_current_user takes access tokens only and looks for their user; the
   endpoint behind it changes nothing here. *)
CurrentUser(s) ==
  /\ work[s].at = "accepted" /\ work[s].op = "me"
  /\ Ends(s)
  /\ UNCHANGED <<half, redis, tokenVars, limiterVars>>

(* refresh takes refresh tokens only, of active users. *)
Refresh(s) ==
  /\ work[s].at = "accepted" /\ work[s].op = "refresh"
  /\ IF kind[work[s].token] = "refresh" THEN Goes(s, "issue") \/ Ends(s) ELSE Ends(s)
  /\ UNCHANGED <<half, redis, tokenVars, limiterVars>>

(* register adds a user whose address nobody has; of users the model keeps
   nothing. *)
Register(s) ==
  /\ work[s].at = "passed" /\ work[s].op = "register"
  /\ Goes(s, "issue") \/ Ends(s)
  /\ UNCHANGED <<half, redis, tokenVars, limiterVars>>

(* login finds an active user and the password right, or not. *)
Login(s) ==
  /\ work[s].at = "passed" /\ work[s].op = "login"
  /\ Goes(s, "issue") \/ Ends(s)
  /\ UNCHANGED <<half, redis, tokenVars, limiterVars>>

(* create_access_token, create_refresh_token: jose cuts exp down to the second. *)
FreshLife == 2 * Life - half

(* _issue_tokens: a new pair beside whatever was issued before. *)
IssueTokens(s, a, r) ==
  /\ work[s].at = "issue"
  /\ a # r /\ \A w \in Sessions \ {s} : work[w].token \notin {a, r}
  /\ kind' = [kind EXCEPT ![a] = "access", ![r] = "refresh"]
  /\ left' = [t \in Tokens |-> IF t \in {a, r} THEN FreshLife ELSE left[t]]
  /\ entry' = [t \in Tokens |-> IF t \in {a, r} THEN 0 ELSE entry[t]]
  /\ revoked' = revoked \ {a, r}
  /\ Ends(s)
  /\ UNCHANGED <<half, redis, limiterVars>>

(* Whole seconds the token has left. *)
TTLSeconds(t) == left[t] \div 2

(* A variant: the entry is made for a second less, to be on the safe side. *)
RevokeShort(s) ==
  LET t == work[s].token IN
  /\ work[s].at = "accepted" /\ work[s].op = "logout"
  /\ IF redis /\ TTLSeconds(t) > 1
     THEN /\ entry' = [entry EXCEPT ![t] = 2 * (TTLSeconds(t) - 1)]
          /\ revoked' = revoked \cup {t}
     ELSE UNCHANGED <<entry, revoked>>
  /\ Ends(s)
  /\ UNCHANGED <<half, redis, kind, left, limiterVars>>

(* TokenBlacklist.revoke: SETEX with the seconds left, if there are any. *)
Blacklist(t) ==
  IF redis /\ TTLSeconds(t) > 0
  THEN /\ entry' = [entry EXCEPT ![t] = 2 * TTLSeconds(t)]
       /\ revoked' = revoked \cup {t}
  ELSE UNCHANGED <<entry, revoked>>

(* logout: the answer is the same whether the token was revoked or not. *)
Revoke(s) ==
  /\ work[s].at = "accepted" /\ work[s].op = "logout"
  /\ Blacklist(work[s].token)
  /\ Ends(s)
  /\ UNCHANGED <<half, redis, kind, left, limiterVars>>

-----------------------------------------------------------------------------
(* Redis goes away and comes back, with what it had. *)
RedisToggles ==
  /\ redis' = ~redis
  /\ UNCHANGED <<half, tokenVars, limiterVars, work>>

(* The process ends: every request with it. *)
GatewayCrash ==
  /\ \E s \in Sessions : work[s] # Rest
  /\ lost' = (lost \/ \E s \in Sessions : work[s].at = "expire")
  /\ work' = [s \in Sessions |-> Rest]
  /\ UNCHANGED <<half, redis, tokenVars, count, ttl>>

(* Half a second passes; Redis drops what has expired. *)
HalfSecond ==
  /\ half' = 1 - half
  /\ left' = [t \in Tokens |-> IF left[t] = Dead THEN Dead ELSE left[t] - 1]
  /\ entry' = [t \in Tokens |-> IF entry[t] = 0 THEN 0 ELSE entry[t] - 1]
  /\ count' = IF ttl = 1 THEN 0 ELSE count
  /\ ttl' = IF ttl \in {Forever, 1} THEN Forever ELSE ttl - 1
  /\ UNCHANGED <<redis, kind, work, revoked, lost>>

AuthInit ==
  /\ half = 0 /\ redis = TRUE
  /\ kind = [t \in Tokens |-> "none"]
  /\ left = [t \in Tokens |-> Dead]
  /\ entry = [t \in Tokens |-> 0]
  /\ count = 0 /\ ttl = Forever
  /\ work = [s \in Sessions |-> Rest]
  /\ revoked = {} /\ lost = FALSE

Handle(s) ==
  \/ Incr(s) \/ Expire(s) \/ TooMany(s) \/ FailOpen(s)
  \/ Decode(s) \/ Lookup(s) \/ CurrentUser(s) \/ Refresh(s) \/ Register(s) \/ Login(s) \/ Revoke(s)
  \/ \E op \in {"register", "login"} : BeginWithout(s, op)
  \/ \E t \in Tokens, op \in {"me", "refresh", "logout"} : Begin(s, op, t)
  \/ \E a, r \in Tokens : IssueTokens(s, a, r)

AuthNext ==
  \/ \E s \in Sessions : Handle(s)
  \/ RedisToggles \/ GatewayCrash \/ HalfSecond

AuthSpec == AuthInit /\ [][AuthNext]_authVars
-----------------------------------------------------------------------------
(* Properties. *)

(* A token for which a logout has made an entry is refused whenever Redis
   answers, but for its last second: the entry's time is cut down to whole
   seconds, and the token is good until the second of its exp is over. *)
RevokedIsRefused == [][\A s \in Sessions :
  redis /\ work[s].at = "lookup" /\ work'[s].at = "accepted" /\ work[s].token \in revoked
    => left[work[s].token] <= 1]_authVars

(* A counter is without an end only while the request that made it is about
   to set one, or because Redis or the process failed at that very moment. *)
CounterEnds == count > 0 /\ ttl = Forever =>
  lost \/ \E s \in Sessions : work[s].at = "expire"
=============================================================================
