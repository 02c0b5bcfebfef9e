----------------------------- MODULE PartProofs ------------------------------
(***************************************************************************)
(* Proofs about five parts that share no state: the gateway's tokens and   *)
(* rate limiter, the window of the frontend, the SDK, the payout and the   *)
(* trigger of scaling.                                                     *)
(* Each has the invariant that makes its properties inductive.             *)
(***************************************************************************)
EXTENDS AuthGateway, FrontendSession, SdkClient, Payout, Autoscaler, TLAPS

-----------------------------------------------------------------------------
(* AuthGateway.  A blacklist entry lasts, to the half second, as long as its
   token; and only Redis, by dropping the key, takes a counter's end away. *)

RevokedInv == \A t \in revoked : entry[t] >= left[t] - 1

AuthInv == AuthTypeOK /\ RevokedInv /\ CounterEnds /\ ttl # 0

LEMMA AuthStarts == AuthInit => AuthInv
<1> SUFFICES ASSUME AuthInit PROVE AuthInv
  OBVIOUS
<1> USE DEF AuthInit
<1>1. /\ left \in [Tokens -> Dead..2 * Life] /\ entry \in [Tokens -> 0..2 * Life]
      /\ count \in 0..MaxRequests + 1 /\ ttl \in Forever..2 * Window
  BY TimeAssumption, LimitAssumption DEF Dead, Forever
<1>2. /\ work \in [Sessions -> [op : {"none", "register", "login", "refresh", "me", "logout"},
           at : {"idle", "limit", "expire", "over", "passed", "lookup", "accepted", "issue"},
           token : Tokens \cup {NoToken}]]
      /\ \A s \in Sessions : work[s].op = "none"
  BY DEF Rest, Work
<1>3. AuthTypeOK
  <2>1. half \in 0..1 /\ kind \in [Tokens -> {"none", "access", "refresh"}] /\ revoked \subseteq Tokens
    OBVIOUS
  <2>2. redis \in BOOLEAN /\ lost \in BOOLEAN
    BY Zenon
  <2> QED
    BY <1>1, <1>2, <2>1, <2>2 DEF AuthTypeOK
<1> QED
  BY <1>3 DEF AuthInv, RevokedInv, CounterEnds, Forever

(* What the limiter does. *)
LEMMA LimiterStep ==
  ASSUME AuthInv, NEW s \in Sessions, Incr(s) \/ Expire(s) \/ TooMany(s) \/ FailOpen(s)
  PROVE  AuthInv'
<1> USE TimeAssumption, LimitAssumption DEF AuthInv, AuthTypeOK
<1>1. CASE Incr(s)
  <2>1. Counted \in 1..MaxRequests + 1
    BY DEF Counted
  <2>2. AuthTypeOK'
    BY <1>1, <2>1 DEF Incr, Goes, tokenVars
  <2>3. CounterEnds'
    BY <1>1, <2>1 DEF Incr, Goes, CounterEnds, Counted
  <2> QED
    BY <1>1, <2>2, <2>3 DEF Incr, tokenVars, RevokedInv
<1>2. CASE Expire(s)
  BY <1>2 DEF Expire, Goes, CounterEnds, tokenVars, RevokedInv, Forever
<1>3. CASE TooMany(s)
  <2>1. AuthTypeOK'
    BY <1>3, TokenAssumption DEF TooMany, Ends, Rest, Work, tokenVars, limiterVars
  <2>2. CounterEnds'
    BY <1>3 DEF TooMany, Ends, CounterEnds, limiterVars
  <2> QED
    BY <1>3, <2>1, <2>2 DEF TooMany, tokenVars, limiterVars, RevokedInv
<1>4. CASE FailOpen(s)
  <2>1. AuthTypeOK'
    BY <1>4 DEF FailOpen, Goes, tokenVars
  <2>2. CounterEnds'
    BY <1>4 DEF FailOpen, Goes, CounterEnds
  <2> QED
    BY <1>4, <2>1, <2>2 DEF FailOpen, tokenVars, RevokedInv
<1> QED
  BY <1>1, <1>2, <1>3, <1>4

(* A request that is neither at the limiter nor about to write. *)
LEMMA PassageStep ==
  ASSUME AuthInv, NEW s \in Sessions,
         \/ Decode(s) \/ Lookup(s) \/ CurrentUser(s) \/ Refresh(s) \/ Register(s) \/ Login(s)
         \/ \E op \in {"register", "login"} : BeginWithout(s, op)
         \/ \E t \in Tokens, op \in {"me", "refresh", "logout"} : Begin(s, op, t)
  PROVE  AuthInv'
<1> USE DEF AuthInv
<1>1. work[s].at # "expire" /\ UNCHANGED <<half, redis, tokenVars, limiterVars>>
  BY DEF BeginWithout, Decode, Lookup, CurrentUser, Refresh, Register, Login, Begin, Rest, Work
<1>2. /\ work' = [work EXCEPT ![s] = work'[s]]
      /\ work'[s] \in [op : {"none", "register", "login", "refresh", "me", "logout"},
           at : {"idle", "limit", "expire", "over", "passed", "lookup", "accepted", "issue"},
           token : Tokens \cup {NoToken}]
      /\ work'[s].op \in {"refresh", "me", "logout"} => work'[s].token \in Tokens
  BY DEF BeginWithout, Decode, Lookup, CurrentUser, Refresh, Register, Login, Begin, Goes, Ends,
         Rest, Work, Entrance, AuthTypeOK
<1>3. AuthTypeOK'
  BY <1>1, <1>2 DEF AuthTypeOK, tokenVars, limiterVars
<1>4. CounterEnds'
  <2>1. \A u \in Sessions : u # s => work'[u] = work[u]
    BY <1>2 DEF AuthTypeOK
  <2> QED
    BY <1>1, <2>1 DEF CounterEnds, limiterVars
<1> QED
  BY <1>1, <1>3, <1>4 DEF tokenVars, limiterVars, RevokedInv

(* New tokens are not revoked; a revoked one gets an entry that lasts. *)
LEMMA TokenStep ==
  ASSUME AuthInv, NEW s \in Sessions, Revoke(s) \/ \E a, r \in Tokens : IssueTokens(s, a, r)
  PROVE  AuthInv'
<1> USE TimeAssumption DEF AuthInv, AuthTypeOK
<1>1. ASSUME NEW a \in Tokens, NEW r \in Tokens, IssueTokens(s, a, r) PROVE AuthInv'
  <2>1. AuthTypeOK'
    BY <1>1 DEF IssueTokens, FreshLife, Ends, Rest, Work, limiterVars, Dead
  <2>2. RevokedInv'
    BY <1>1 DEF IssueTokens, FreshLife, RevokedInv
  <2>3. CounterEnds'
    BY <1>1 DEF IssueTokens, Ends, CounterEnds, limiterVars
  <2> QED
    BY <1>1, <2>1, <2>2, <2>3 DEF IssueTokens, limiterVars
<1>2. ASSUME Revoke(s) PROVE AuthInv'
  <2> DEFINE t == work[s].token
  <2>1. CounterEnds'
    BY <1>2 DEF Revoke, Ends, CounterEnds, limiterVars
  <2>2. CASE UNCHANGED <<entry, revoked>>
    <3>1. AuthTypeOK'
      BY <1>2, <2>2 DEF Revoke, Ends, Rest, Work, limiterVars
    <3> QED
      BY <1>2, <2>1, <2>2, <3>1 DEF Revoke, limiterVars, RevokedInv
  <2>3. CASE ~UNCHANGED <<entry, revoked>>
    <3>1. /\ entry' = [entry EXCEPT ![t] = 2 * TTLSeconds(t)] /\ revoked' = revoked \cup {t}
          /\ TTLSeconds(t) > 0
      BY <1>2, <2>3 DEF Revoke, Blacklist
    <3>2. t \in Tokens
      BY <1>2 DEF Revoke
    <3>3. 2 * TTLSeconds(t) \in 0..2 * Life /\ 2 * TTLSeconds(t) >= left[t] - 1
      BY <3>1, <3>2 DEF TTLSeconds, Dead
    <3>4. AuthTypeOK'
      BY <1>2, <3>1, <3>2, <3>3 DEF Revoke, Ends, Rest, Work, limiterVars
    <3>5. RevokedInv'
      BY <1>2, <3>1, <3>2, <3>3 DEF Revoke, RevokedInv
    <3> QED
      BY <1>2, <2>1, <3>4, <3>5 DEF Revoke, limiterVars
  <2> QED
    BY <2>2, <2>3
<1> QED
  BY <1>1, <1>2

LEMMA AuthStep ==
  ASSUME AuthInv, [AuthNext]_authVars
  PROVE  AuthInv'
<1> USE TimeAssumption DEF AuthInv
<1>1. ASSUME NEW s \in Sessions, Handle(s) PROVE AuthInv'
  BY <1>1, LimiterStep, PassageStep, TokenStep DEF Handle
<1>2. CASE RedisToggles
  BY <1>2 DEF RedisToggles, AuthTypeOK, tokenVars, limiterVars, RevokedInv, CounterEnds
<1>3. CASE GatewayCrash
  <2>1. AuthTypeOK'
    BY <1>3 DEF GatewayCrash, AuthTypeOK, tokenVars, Rest, Work
  <2>2. CounterEnds'
    BY <1>3 DEF GatewayCrash, CounterEnds
  <2> QED
    BY <1>3, <2>1, <2>2 DEF GatewayCrash, tokenVars, RevokedInv
<1>4. CASE HalfSecond
  <2>0. /\ left \in [Tokens -> Dead..2 * Life] /\ entry \in [Tokens -> 0..2 * Life]
        /\ revoked \subseteq Tokens /\ count \in 0..MaxRequests + 1
        /\ ttl \in Forever..2 * Window
    BY DEF AuthTypeOK
  <2>1. left' \in [Tokens -> Dead..2 * Life] /\ entry' \in [Tokens -> 0..2 * Life]
    BY <1>4, <2>0 DEF HalfSecond, Dead
  <2>2. count' \in 0..MaxRequests + 1 /\ ttl' \in Forever..2 * Window /\ ttl' # 0
    BY <1>4, <2>0, LimitAssumption DEF HalfSecond, Forever
  <2>3. half' \in 0..1
    BY <1>4 DEF HalfSecond, AuthTypeOK
  <2>4. AuthTypeOK'
    BY <1>4, <2>1, <2>2, <2>3 DEF HalfSecond, AuthTypeOK
  <2>5. RevokedInv'
    BY <1>4, <2>0 DEF HalfSecond, RevokedInv, Dead
  <2>6. CounterEnds'
    BY <1>4, <2>0 DEF HalfSecond, CounterEnds, Forever
  <2> QED
    BY <2>2, <2>4, <2>5, <2>6
<1>5. CASE UNCHANGED authVars
  BY <1>5 DEF authVars, AuthTypeOK, RevokedInv, CounterEnds
<1> QED
  BY <1>1, <1>2, <1>3, <1>4, <1>5 DEF AuthNext

THEOREM AuthInvariant == AuthSpec => []AuthInv
<1>1. AuthInit => AuthInv
  BY AuthStarts
<1>2. AuthInv /\ [AuthNext]_authVars => AuthInv'
  BY AuthStep
<1> QED
  BY <1>1, <1>2, PTL DEF AuthSpec

(* The gateway's tokens, entries, counter and requests are what they are
   declared to be. *)
THEOREM AuthTypes == AuthSpec => []AuthTypeOK
<1>1. AuthInv => AuthTypeOK
  BY DEF AuthInv
<1> QED
  BY <1>1, AuthInvariant, PTL

(* A counter without an end lost it to a failure of Redis or the process, or
   is about to be given one. *)
THEOREM CountersEnd == AuthSpec => []CounterEnds
<1>1. AuthInv => CounterEnds
  BY DEF AuthInv
<1> QED
  BY <1>1, AuthInvariant, PTL

Accepts(s) == redis /\ work[s].at = "lookup" /\ work'[s].at = "accepted"

(* While Redis answers, a revoked token passes only in its last second. *)
THEOREM RevocationHolds == AuthSpec => RevokedIsRefused
<1>1. ASSUME AuthInv, [AuthNext]_authVars, NEW s \in Sessions, Accepts(s),
             work[s].token \in revoked
      PROVE  left[work[s].token] <= 1
  <2> DEFINE t == work[s].token
  <2>1. Lookup(s)
    <3>1. work'[s] # work[s]
      BY <1>1 DEF Accepts
    <3>2. ~RedisToggles /\ ~HalfSecond /\ ~UNCHANGED authVars
      BY <3>1 DEF RedisToggles, HalfSecond, authVars
    <3>3. ~GatewayCrash
      <4>1. GatewayCrash => work' = [u \in Sessions |-> Rest]
        BY Zenon DEF GatewayCrash
      <4>2. GatewayCrash => work'[s].at = "idle"
        BY <4>1 DEF Rest, Work
      <4> QED
        BY <1>1, <4>2 DEF Accepts
    <3>4. PICK u \in Sessions : Handle(u)
      BY <1>1, <3>2, <3>3 DEF AuthNext
    <3>5. \A v \in Sessions \ {u} : work'[v] = work[v]
      <4> USE <1>1 DEF Goes, Ends, AuthInv, AuthTypeOK
      <4>1. CASE Incr(u) \/ Expire(u) \/ TooMany(u) \/ FailOpen(u)
        BY <4>1 DEF Incr, Expire, TooMany, FailOpen
      <4>2. CASE Decode(u) \/ Lookup(u) \/ CurrentUser(u) \/ Refresh(u) \/ Register(u) \/ Login(u)
        BY <4>2 DEF Decode, Lookup, CurrentUser, Refresh, Register, Login
      <4>3. CASE Revoke(u) \/ \E a, r \in Tokens : IssueTokens(u, a, r)
        BY <4>3 DEF Revoke, IssueTokens
      <4>4. CASE \/ \E k \in Tokens, op \in {"me", "refresh", "logout"} : Begin(u, op, k)
                  \/ \E way \in {"register", "login"} : BeginWithout(u, way)
        BY <4>4 DEF Begin, BeginWithout
      <4> QED
        BY <3>4, <4>1, <4>2, <4>3, <4>4 DEF Handle
    <3>6. u = s
      BY <1>1, <3>1, <3>5 DEF AuthInv, AuthTypeOK
    <3>7. Handle(s) /\ work[s].at = "lookup"
      BY <1>1, <3>4, <3>6 DEF Accepts
    <3> QED
      BY <3>7 DEF Handle, BeginWithout, Incr, Expire, TooMany, FailOpen, Decode,
         CurrentUser, Refresh, Register, Login, Revoke, Begin, IssueTokens, Rest, Work
  <2>2. ~(entry[t] > 0)
    BY <1>1, <2>1 DEF Lookup, Ends, Rest, Work, Accepts, AuthInv, AuthTypeOK
  <2>3. entry[t] >= left[t] - 1 /\ entry[t] \in 0..2 * Life /\ left[t] \in Dead..2 * Life
    BY <1>1 DEF AuthInv, RevokedInv, AuthTypeOK
  <2> QED
    BY <2>2, <2>3, TimeAssumption DEF Dead
<1>2. AuthInv /\ [AuthNext]_authVars =>
        [\A s \in Sessions : Accepts(s) /\ work[s].token \in revoked
            => left[work[s].token] <= 1]_authVars
  BY <1>1
<1> QED
  BY <1>2, AuthInvariant, PTL DEF AuthSpec, RevokedIsRefused, Accepts

-----------------------------------------------------------------------------
(* FrontendSession.  Once out, nothing that could bring a session back is
   under way or armed; and a load that is not cancelled was served no
   earlier than the one on the page. *)

OutInv == out =>
  /\ ~tokens /\ ~timer /\ api = "off" /\ own = "off" /\ login = "off"
  /\ logout = "off" => ~user /\ ~storedAccess /\ ~storedRefresh
  /\ logout = "deleteRefresh" => ~storedAccess

LEMMA OutStep ==
  ASSUME OutInv, [PageNext]_pageVars
  PROVE  OutInv'
<1> USE DEF OutInv
<1>1. CASE ClientNext
  BY <1>1 DEF ClientNext, ApiRefreshed, ApiSavesAccess, ApiSavesRefresh, ApiRefreshFails
<1>2. CASE TimerFires \/ OwnRefreshed \/ OwnSavesAccess \/ OwnSavesRefresh \/ OwnRefused
           \/ OwnDeletesAccess \/ OwnDeletesRefresh \/ OwnFails
  BY <1>2 DEF TimerFires, OwnRefreshed, OwnSavesAccess, OwnSavesRefresh, OwnRefused,
              OwnDeletesAccess, OwnDeletesRefresh, OwnFails
<1>3. CASE LogIn \/ LoginAccepted \/ LoginRefused \/ LoginFails \/ LoginSavesAccess
           \/ LoginSavesRefresh
  BY <1>3 DEF LogIn, LoginAccepted, LoginRefused, LoginFails, LoginSavesAccess, LoginSavesRefresh
<1>4. CASE LogOut
  BY <1>4 DEF LogOut
<1>5. CASE LogoutDeletesAccess \/ LogoutDeletesRefresh
  BY <1>5 DEF LogoutDeletesAccess, LogoutDeletesRefresh, SignedOut, stored
<1>6. CASE Reload
  BY <1>6 DEF Reload, stored
<1>7. CASE ClosePage \/ JobMoves
  BY <1>7 DEF ClosePage, JobMoves, stored, provider
<1>8. ASSUME NEW c \in Calls, LoadNext(c) PROVE OutInv'
  BY <1>8 DEF LoadNext, OpenPage, Poll, StartLoad, Refused, JoinedRefresh, Serve, LoadFails,
              Loaded, stored, provider
<1>9. CASE UNCHANGED pageVars
  BY <1>9 DEF pageVars
<1> QED
  BY <1>1, <1>2, <1>3, <1>4, <1>5, <1>6, <1>7, <1>8, <1>9 DEF PageNext, ProviderNext

(* A window signed out with nothing under way stays signed out. *)
THEOREM SignedOutForGood == PageSpec => []SignedOutStaysOut
<1>1. PageInit => OutInv
  BY DEF PageInit, OutInv
<1>2. OutInv /\ [PageNext]_pageVars => OutInv'
  BY OutStep
<1>3. OutInv => SignedOutStaysOut
  BY DEF OutInv, SignedOutStaysOut
<1> QED
  BY <1>1, <1>2, <1>3, PTL DEF PageSpec

(* The page's loads, as far as the page depends on them. *)
LoadInv ==
  /\ call \in [Calls -> [at : {"idle", "sent", "waiting", "again", "ok"},
                         answer : Nothing..LastState]]
  /\ jobState \in 0..LastState /\ shown \in Nothing..jobState
  /\ \A c \in Calls : call[c].at = "ok" => call[c].answer \in 0..jobState
  /\ \A c \in Calls : c = current /\ call[c].at = "ok" => shown <= call[c].answer

Unshown == UNCHANGED <<current, shown, jobState>>

(* Whatever else happens to a load, it is not served by it. *)
LEMMA UnservedLoads ==
  ASSUME LoadInv, Unshown, call' \in [Calls -> [at : {"idle", "sent", "waiting", "again", "ok"},
                                               answer : Nothing..LastState]],
         \A c \in Calls : call'[c].at = "ok" => call'[c] = call[c]
  PROVE  LoadInv'
BY DEF LoadInv, Unshown

LEMMA LoadStep ==
  ASSUME LoadInv, [PageNext]_pageVars
  PROVE  LoadInv' /\ (shown = Nothing \/ shown' = Nothing \/ shown <= shown')
<1> USE StateAssumption, CallAssumption DEF Nothing
<1>0. jobState \in Nat /\ shown \in Int
  BY DEF LoadInv
<1>1. CASE UNCHANGED <<call, current, shown, jobState>>
  BY <1>0, <1>1 DEF LoadInv
<1>2. CASE (ApiSavesRefresh \/ ApiRefreshFails)
  <2>1. Unshown
    BY <1>2 DEF ApiSavesRefresh, ApiRefreshFails, Unshown
  <2>2. PICK state \in {"again", "idle"} : call' = [c \in Calls |->
           IF call[c].at = "waiting" THEN Request(state, Nothing) ELSE call[c]]
    BY <1>2 DEF ApiSavesRefresh, ApiRefreshFails, Resume
  <2>3. LoadInv'
    BY <2>1, <2>2, UnservedLoads DEF Request, LoadInv
  <2> QED
    BY <1>0, <2>1, <2>3 DEF Unshown
<1>3. CASE ClosePage \/ OwnDeletesRefresh \/ LogoutDeletesRefresh
  <2>1. UNCHANGED <<call, jobState>> /\ current' = NoCall /\ shown' = Nothing
    BY <1>3 DEF ClosePage, OwnDeletesRefresh, LogoutDeletesRefresh, SignedOut
  <2> QED
    BY <2>1 DEF LoadInv
<1>4. CASE Reload
  BY <1>4 DEF Reload, LoadInv, NoRequest, Request
<1>5. CASE JobMoves
  BY <1>0, <1>5 DEF JobMoves, LoadInv
<1>6. ASSUME NEW c \in Calls, OpenPage(c) \/ Poll(c)
      PROVE  LoadInv' /\ shown <= shown'
  <2>1. /\ call' = [call EXCEPT ![c] = Request("sent", Nothing)] /\ current' = c
        /\ UNCHANGED <<shown, jobState>>
    BY <1>6 DEF OpenPage, Poll, StartLoad
  <2> QED
    BY <1>0, <2>1 DEF LoadInv, Request
<1>7. ASSUME NEW c \in Calls, Refused(c) \/ LoadFails(c)
      PROVE  LoadInv' /\ shown <= shown'
  <2>1. /\ \/ call' = [call EXCEPT ![c] = Request("waiting", Nothing)]
           \/ call' = [call EXCEPT ![c] = NoRequest]
        /\ Unshown
    BY <1>7 DEF Refused, LoadFails, Unshown
  <2>2. LoadInv'
    BY <2>1, UnservedLoads DEF Request, NoRequest, LoadInv
  <2> QED
    BY <1>0, <2>1, <2>2 DEF Unshown
<1>8. ASSUME NEW c \in Calls, Serve(c)
      PROVE  LoadInv' /\ shown <= shown'
  BY <1>0, <1>8 DEF Serve, LoadInv, Request
<1>9. ASSUME NEW c \in Calls, Loaded(c)
      PROVE  LoadInv' /\ shown <= shown'
  BY <1>0, <1>9 DEF Loaded, LoadInv, NoRequest, Request
<1> QED
  <2>1. CASE ClientNext
    BY <1>1, <1>2, <2>1 DEF ClientNext, ApiRefreshed, ApiSavesAccess, page
  <2>2. CASE ProviderNext
    BY <1>1, <1>3, <1>4, <2>2 DEF ProviderNext, page, TimerFires, OwnRefreshed, OwnSavesAccess,
       OwnSavesRefresh, OwnRefused, OwnDeletesAccess, OwnFails, LogIn, LoginAccepted,
       LoginRefused, LoginFails, LoginSavesAccess, LoginSavesRefresh, LogOut, LogoutDeletesAccess
  <2>3. ASSUME NEW c \in Calls, LoadNext(c) PROVE LoadInv' /\ shown <= shown'
    BY <2>3, <1>6, <1>7, <1>8, <1>9 DEF LoadNext
  <2>4. CASE UNCHANGED pageVars
    BY <1>1, <2>4 DEF pageVars
  <2> QED
    BY <1>3, <1>5, <2>1, <2>2, <2>3, <2>4 DEF PageNext

(* The job on an open page never goes back to an earlier state. *)
THEOREM PageNeverGoesBack == PageSpec => ShownIsLatest
<1>1. PageInit => LoadInv
  BY StateAssumption, CallAssumption DEF PageInit, LoadInv, NoRequest, Request, Nothing
<1>2. LoadInv /\ [PageNext]_pageVars
        => LoadInv' /\ [shown = Nothing \/ shown' = Nothing \/ shown <= shown']_pageVars
  BY LoadStep
<1> QED
  BY <1>1, <1>2, PTL DEF PageSpec, ShownIsLatest

-----------------------------------------------------------------------------
(* SdkClient.  A job may leave COMPLETED, but it keeps a result_ref once it
   has one; and what is streamed is the result. *)

DownloadInv ==
  /\ task \in [Tasks -> Calling]
  /\ resultRef \in [Jobs -> {"none", "invalid", "valid"}]
  /\ file \in [Jobs -> {"none", "partial", "result", "error"}]
  /\ \A t \in Tasks : task[t].op \notin {"none", "login", "list"} => job(t) \in Jobs
  /\ \A t \in Tasks : task[t].op = "download" => task[t].at \in {"sent", "answered", "streaming"}
  /\ \A t \in Tasks : task[t].at = "streaming" => task[t].op = "download" /\ task[t].body = "result"
  /\ \A t \in Tasks : task[t].op = "download" /\ task[t].at \in {"answered", "streaming"}
       => resultRef[job(t)] # "none"

Ops == {"login", "submit", "get", "list", "cancel", "download"}

(* What the script calls, a request is sent for. *)
LEMMA CallsAreSent ==
  ASSUME NEW t \in Tasks, MakesCall(t)
  PROVE  \E op \in Ops, j \in Jobs \cup {NoJob} :
           Send(t, op, j) /\ (op \notin {"login", "list"} => j \in Jobs)
BY DEF MakesCall, CallLogin, CallSubmitJob, CallGetJob, CallListJobs, CallCancelJob,
   CallDownload, Ops

(* Only a mover writes a result_ref, and it never takes one away. *)
LEMMA ResultStays ==
  ASSUME SdkNext, resultRef \in [Jobs -> {"none", "invalid", "valid"}]
  PROVE  /\ resultRef' \in [Jobs -> {"none", "invalid", "valid"}]
         /\ \A j \in Jobs : resultRef[j] # "none" => resultRef'[j] # "none"
<1>1. ASSUME NEW t \in Tasks, TaskNext(t) PROVE UNCHANGED resultRef
  BY <1>1, CallsAreSent DEF TaskNext, Send, Raise, Return, LoggedIn, Submit, GetJob, ListJobs, Cancel,
     Cancelled, GetJobResult, Open, WriteChunk, Downloaded, StreamBreaks, UrlExpires
<1>2. ASSUME NEW m \in Movers, JobMoved(m)
      PROVE  /\ resultRef' \in [Jobs -> {"none", "invalid", "valid"}]
             /\ \A j \in Jobs : resultRef[j] # "none" => resultRef'[j] # "none"
  BY <1>2 DEF JobMoved
<1>3. ASSUME NEW i \in Jobs, UploadFile(i) \/ DeleteFile(i) PROVE UNCHANGED resultRef
  BY <1>3 DEF UploadFile, DeleteFile
<1>4. ASSUME NEW m \in Movers, NEW i \in Jobs, NEW to \in Statuses, JobLoaded(m, i, to)
      PROVE  UNCHANGED resultRef
  BY <1>4 DEF JobLoaded
<1>5. ASSUME NEW x \in Tasks \cup Movers, NotMoved(x) PROVE UNCHANGED resultRef
  BY <1>5 DEF NotMoved
<1> QED
  BY <1>1, <1>2, <1>3, <1>4, <1>5 DEF SdkNext, TokenExpires

(* A task goes on with the download of a job that has a result. *)
LEMMA DownloadGoesOn ==
  ASSUME DownloadInv, NEW t \in Tasks, UNCHANGED resultRef,
         file' \in [Jobs -> {"none", "partial", "result", "error"}],
         task' \in [Tasks -> Calling], \A u \in Tasks \ {t} : task'[u] = task[u],
         task[t].op = "download", resultRef[task[t].job] # "none",
         task'[t].op = "download", task'[t].job = task[t].job,
         task'[t].at \in {"answered", "streaming"},
         task'[t].at = "streaming" => task'[t].body = "result"
  PROVE  DownloadInv'
<1> USE DEF DownloadInv, job
<1>1. \A u \in Tasks : task'[u].op \notin {"none", "login", "list"} => task'[u].job \in Jobs
  OBVIOUS
<1>2. \A u \in Tasks : task'[u].op = "download" => task'[u].at \in {"sent", "answered", "streaming"}
  OBVIOUS
<1>3. \A u \in Tasks : task'[u].at = "streaming"
        => task'[u].op = "download" /\ task'[u].body = "result"
  OBVIOUS
<1>4. \A u \in Tasks : task'[u].op = "download" /\ task'[u].at \in {"answered", "streaming"}
        => resultRef'[task'[u].job] # "none"
  OBVIOUS
<1> QED
  BY <1>1, <1>2, <1>3, <1>4

(* The URL is answered and opened. *)
LEMMA UrlSteps ==
  ASSUME DownloadInv, NEW t \in Tasks, GetJobResult(t) \/ Open(t)
  PROVE  DownloadInv'
<1>1. /\ task \in [Tasks -> Calling] /\ task[t] \in Calling
      /\ file \in [Jobs -> {"none", "partial", "result", "error"}]
      /\ task[t].op = "download" /\ task[t].at = "answered" => resultRef[task[t].job] # "none"
  BY DEF DownloadInv, job
<1>2. CASE GetJobResult(t)
  <2>1. task' = [task EXCEPT ![t] = [@ EXCEPT !.at = "answered", !.signed = TRUE]]
    BY <1>2 DEF GetJobResult
  <2>2. [task[t] EXCEPT !.at = "answered", !.signed = TRUE] \in Calling
    BY <1>1 DEF Calling
  <2>3. task' \in [Tasks -> Calling] /\ \A u \in Tasks \ {t} : task'[u] = task[u]
    BY <1>1, <2>1, <2>2
  <2>4. /\ task[t].op = "download" /\ resultRef[task[t].job] # "none"
        /\ UNCHANGED <<resultRef, file>>
    BY <1>2 DEF GetJobResult, Asks, job
  <2>5. task'[t].op = "download" /\ task'[t].at = "answered" /\ task'[t].job = task[t].job
    BY <1>1, <2>1, <2>4 DEF Calling
  <2> QED
    BY <1>1, <2>3, <2>4, <2>5, DownloadGoesOn
<1>3. CASE Open(t)
  <2>1. Body(t) = "result"
    BY <1>3 DEF Open, Body
  <2>2. task' = [task EXCEPT ![t] = [@ EXCEPT !.at = "streaming", !.body = "result"]]
    BY <1>3, <2>1 DEF Open
  <2>3. [task[t] EXCEPT !.at = "streaming", !.body = "result"] \in Calling
    BY <1>1 DEF Calling
  <2>4. task' \in [Tasks -> Calling] /\ \A u \in Tasks \ {t} : task'[u] = task[u]
    BY <1>1, <2>2, <2>3
  <2>5. task[t].op = "download" /\ resultRef[task[t].job] # "none" /\ UNCHANGED resultRef
    BY <1>1, <1>3 DEF Open
  <2>6. /\ task'[t].op = "download" /\ task'[t].at = "streaming" /\ task'[t].body = "result"
        /\ task'[t].job = task[t].job
    BY <1>1, <2>2, <2>5 DEF Calling
  <2>7. file' \in [Jobs -> {"none", "partial", "result", "error"}]
    BY <1>1, <1>3 DEF Open
  <2> QED
    BY <2>4, <2>5, <2>6, <2>7, DownloadGoesOn
<1> QED
  BY <1>2, <1>3

LEMMA DownloadStep ==
  ASSUME DownloadInv, SdkNext
  PROVE  DownloadInv'
<1>0. /\ resultRef' \in [Jobs -> {"none", "invalid", "valid"}]
      /\ \A j \in Jobs : resultRef[j] # "none" => resultRef'[j] # "none"
  BY ResultStays DEF DownloadInv
<1> USE JobAssumption, ChunkAssumption DEF DownloadInv, job
<1>1. ASSUME NEW t \in Tasks, TaskNext(t) PROVE DownloadInv'
  <2>1. ASSUME NEW op \in Ops, NEW j \in Jobs \cup {NoJob}, Send(t, op, j),
               op \notin {"login", "list"} => j \in Jobs
        PROVE  DownloadInv'
    <3>1. Call(op, j) \in Calling
      BY DEF Call, Stage, Ops, Calling
    <3>2. Call(op, j).op \notin {"none", "login", "list"} => Call(op, j).job \in Jobs
      BY <2>1 DEF Call, Stage
    <3>3. Call(op, j).at = "sent"
      BY DEF Call, Stage
    <3> QED
      BY <2>1, <3>1, <3>2, <3>3 DEF Send
  <2>2. ASSUME NEW how \in {"returned", "raised"}, Finish(t, how), UNCHANGED resultRef,
               file' \in [Jobs -> {"none", "partial", "result", "error"}]
        PROVE DownloadInv'
    <3>1. Done(how) \in Calling
          /\ Done(how).op = "none" /\ Done(how).at = how
      BY DEF Done, Stage, Calling
    <3> QED
      BY <2>2, <3>1 DEF Finish
  <2>3. CASE Raise(t) \/ Return(t) \/ LoggedIn(t) \/ StreamBreaks(t) \/ Downloaded(t)
    <3>1. file' \in [Jobs -> {"none", "partial", "result", "error"}]
      BY <2>3 DEF Raise, Return, LoggedIn, StreamBreaks, Downloaded
    <3> QED
      BY <2>2, <2>3, <3>1 DEF Raise, Return, LoggedIn, StreamBreaks, Downloaded
  <2>4. CASE Submit(t)
    BY <2>4 DEF Submit, Asks, Answers, Calling
  <2>7. CASE Cancel(t) \/ Cancelled(t)
    <3>0. task[t] \in Calling /\ task[t].at = "served" => task[t].op # "download"
      OBVIOUS
    <3>1. \A at \in {"served", "answered"} : [task[t] EXCEPT !.at = at] \in Calling
      BY <3>0 DEF Calling
    <3>2. /\ task' \in [Tasks -> Calling] /\ \A u \in Tasks \ {t} : task'[u] = task[u]
          /\ UNCHANGED <<resultRef, file>>
      BY <2>7, <3>1 DEF Cancel, Cancelled
    <3>3. task'[t] = task[t] \/ \E at \in {"served", "answered"} :
            task[t].op # "download" /\ task'[t] = [task[t] EXCEPT !.at = at]
      BY <2>7, <3>0 DEF Cancel, Cancelled, Asks
    <3>4. /\ task'[t].op = task[t].op /\ task'[t].job = task[t].job
          /\ task'[t] = task[t] \/ (task[t].op # "download" /\ task'[t].at \in {"served", "answered"})
      BY <3>0, <3>3 DEF Calling
    <3> QED
      BY <3>2, <3>4
  <2>5. CASE GetJob(t) \/ ListJobs(t)
    BY <2>5 DEF GetJob, ListJobs, Known, Asks, Answers, Calling
  <2>6. CASE GetJobResult(t) \/ Open(t)
    BY <2>6, UrlSteps
  <2>8. CASE WriteChunk(t) \/ UrlExpires(t)
    <3>0. task[t] \in Calling
      OBVIOUS
    <3>1. /\ [task[t] EXCEPT !.signed = FALSE] \in Calling
          /\ task[t].got < Chunks => [task[t] EXCEPT !.got = @ + 1] \in Calling
      <4>1. [task[t] EXCEPT !.signed = FALSE] \in Calling
        BY <3>0 DEF Calling
      <4>2. task[t].got < Chunks => task[t].got + 1 \in 0..Chunks
        BY <3>0 DEF Calling
      <4>3. \A n \in 0..Chunks : [task[t] EXCEPT !.got = n] \in Calling
        BY <3>0 DEF Calling
      <4> QED
        BY <4>1, <4>2, <4>3
    <3>2. task' \in [Tasks -> Calling]
      BY <2>8, <3>1 DEF WriteChunk, UrlExpires
    <3>3. /\ \A u \in Tasks \ {t} : task'[u] = task[u]
          /\ task'[t] = [task[t] EXCEPT !.signed = FALSE] \/ task'[t] = [task[t] EXCEPT !.got = @ + 1]
      BY <2>8 DEF WriteChunk, UrlExpires
    <3>4. /\ task'[t].op = task[t].op /\ task'[t].at = task[t].at
          /\ task'[t].body = task[t].body /\ task'[t].job = task[t].job
      BY <3>0, <3>3 DEF Calling
    <3>5. \A u \in Tasks : task'[u].op = task[u].op /\ task'[u].at = task[u].at
                          /\ task'[u].body = task[u].body /\ task'[u].job = task[u].job
      BY <3>3, <3>4
    <3> QED
      BY <2>8, <3>2, <3>5 DEF WriteChunk, UrlExpires
  <2> QED
    BY <1>1, <2>1, <2>3, <2>4, <2>5, <2>6, <2>7, <2>8, CallsAreSent DEF TaskNext
<1>2. ASSUME UNCHANGED <<task, file>> PROVE DownloadInv'
  BY <1>0, <1>2
<1>3. (\E t \in Tasks : TaskNext(t)) \/ UNCHANGED <<task, file>>
  BY DEF SdkNext, JobLoaded, JobMoved, NotMoved, UploadFile, DeleteFile, TokenExpires
<1> QED
  BY <1>1, <1>2, <1>3

(* A download that returns leaves the whole result of a job that was COMPLETED with one. *)
THEOREM DownloadsAreWhole == SdkSpec => ReturnedIsWhole
<1>1. SdkInit => DownloadInv
  BY JobAssumption, ChunkAssumption DEF SdkInit, DownloadInv, Done, Stage, job, Calling
<1>2. DownloadInv /\ [SdkNext]_sdkVars => DownloadInv'
  BY DownloadStep DEF sdkVars, DownloadInv, job
<1>3. ASSUME DownloadInv, SdkNext, NEW t \in Tasks, task[t].op = "download",
             task'[t].at = "returned"
      PROVE  file'[job(t)] = "result" /\ resultRef[job(t)] # "none"
  <2> USE DEF DownloadInv
  <2>1. ASSUME NEW u \in Tasks, TaskNext(u) PROVE u = t /\ Downloaded(t)
    <3>1. u = t
      BY <1>3, <2>1, CallsAreSent DEF TaskNext, Send, Raise, Return, LoggedIn, Submit, GetJob, ListJobs, Cancel,
         Cancelled, GetJobResult, Open, WriteChunk, Downloaded, StreamBreaks, UrlExpires, Answers, Finish
    <3> QED
      BY <1>3, <2>1, <3>1, CallsAreSent DEF TaskNext, Send, Raise, Return, LoggedIn, Submit, GetJob, ListJobs,
         Cancel, Cancelled, GetJobResult, Open, WriteChunk, StreamBreaks, UrlExpires, Answers, Finish,
         Resting, Asks, Call, Done, Stage, Calling
  <2>2. task'[t] # task[t]
    BY <1>3
  <2>3. \E u \in Tasks : TaskNext(u)
    BY <1>3, <2>2 DEF SdkNext, JobLoaded, JobMoved, NotMoved, UploadFile, DeleteFile, TokenExpires
  <2>4. Downloaded(t)
    BY <2>1, <2>3
  <2> QED
    BY <1>3, <2>4 DEF Downloaded, job
<1>4. DownloadInv /\ [SdkNext]_sdkVars =>
        [\A t \in Tasks : task[t].op = "download" /\ task'[t].at = "returned"
           => file'[job(t)] = "result" /\ resultRef[job(t)] # "none"]_sdkVars
  BY <1>3
<1> QED
  BY <1>1, <1>2, <1>4, PTL DEF SdkSpec, ReturnedIsWhole

-----------------------------------------------------------------------------
(* Payout.  A job that is COMPLETED has a home where its row says, and homes
   are not forgotten; every row, written or still to come, holds jobs that had
   a home at its node in its month; and no two rows have one reference. *)

Rows == paid \cup UNION {run[p].rows : p \in Payers}

(* By the homes h: where each job of a row or of a sum was COMPLETED. *)
RowFits(h, r) == \A j \in r.jobs : j \in NodeJobs /\ r.ref \in h[j]
SumFits(h, x, d) == \A j \in x.jobs : j \in NodeJobs /\ Ref(x.node, d) \in h[j]

AtHome == \A j \in completed : stamp[j] # NotYet /\ Ref(nodeOf[j], Calendar[stamp[j]]) \in homes[j]

PayInv ==
  /\ PayoutTypeOK
  /\ AtHome
  /\ \A r \in Rows : RowFits(homes, r)
  /\ \A p \in Payers : \A x \in run[p].sums \cup run[p].next : SumFits(homes, x, run[p].date)
  /\ \A r, q \in paid : r # q => r.ref # q.ref
  /\ \A p \in Payers : \A r \in run[p].rows :
       /\ \A q \in paid : r.ref # q.ref
       /\ \A q \in run[p].rows : r # q => r.ref # q.ref
       /\ \A o \in Payers \ {p} : \A q \in run[o].rows : r.ref # q.ref
  /\ \A p \in Payers : \A x \in run[p].next : \A r \in run[p].rows :
       r.ref # Ref(x.node, run[p].date)

(* Between two month boundaries lie the days of one month. *)
LEMMA MonthBounds ==
  ASSUME NEW c \in Date, NEW d \in Date, ~Before(c, FirstDay(d)), Before(c, NextMonth(d))
  PROVE  c.year = d.year /\ c.month = d.month
<1>1. /\ FirstDay(d).year = d.year /\ FirstDay(d).month = d.month /\ FirstDay(d).day = 1
  BY DEF FirstDay, Date
<1>2. d.month = 12 => NextMonth(d).year = d.year + 1 /\ NextMonth(d).month = 1 /\ NextMonth(d).day = 1
  BY <1>1 DEF NextMonth, FirstDay, Date
<1>3. d.month # 12 => NextMonth(d).year = d.year /\ NextMonth(d).month = d.month + 1 /\ NextMonth(d).day = 1
  BY <1>1 DEF NextMonth, FirstDay, Date
<1>4. c.year \in Nat /\ c.month \in 1..12 /\ c.day \in 1..31 /\ d.year \in Nat /\ d.month \in 1..12
  BY DEF Date
<1> QED
  BY <1>1, <1>2, <1>3, <1>4 DEF Before

LEMMA PayStarts == PayoutInit => PayInv
<1> SUFFICES ASSUME PayoutInit PROVE PayInv
  OBVIOUS
<1>1. Calendar[1] \in Date /\ 1 \in DOMAIN Calendar /\ Len(Calendar) \in Nat
  BY CalendarAssumption
<1>2. Rows = {}
  BY DEF PayoutInit, Rows, NoRun
<1> QED
  <2>1. NoRun \in Running
    BY <1>1 DEF NoRun, Running
  <2>2. PayoutTypeOK
    BY <1>1, <2>1 DEF PayoutInit, PayoutTypeOK, NotYet, NoUpdate
  <2> QED
    BY <1>2, <2>2 DEF PayoutInit, PayInv, NoRun, AtHome

(* What jobs the month's query returns. *)
LEMMA JobsFit ==
  ASSUME PayInv, NEW n, NEW d \in Date, NEW j \in JobsOf(n, d)
  PROVE  j \in NodeJobs /\ Ref(n, d) \in homes[j]
<1>1. /\ j \in NodeJobs /\ j \in completed /\ nodeOf[j] = n /\ InMonth(j, d)
      /\ Ref(nodeOf[j], Calendar[stamp[j]]) \in homes[j]
  BY DEF PayInv, PayoutTypeOK, JobsOf, AtHome
<1>2. stamp[j] \in DOMAIN Calendar /\ Calendar[stamp[j]] \in Date
  BY <1>1, CalendarAssumption DEF PayInv, PayoutTypeOK, InMonth, NotYet
<1>3. Calendar[stamp[j]].year = d.year /\ Calendar[stamp[j]].month = d.month
  BY <1>1, <1>2, MonthBounds DEF InMonth
<1>4. Ref(nodeOf[j], Calendar[stamp[j]]) = Ref(n, d)
  BY <1>1, <1>3 DEF Ref
<1> QED
  BY <1>1, <1>4

(* A run that adds no row and sums up what fits leaves everything in order. *)
LEMMA RunStep ==
  ASSUME PayInv, NEW p \in Payers, UNCHANGED <<now, jobCols, held, paid>>,
         run' \in [Payers -> Running], \A o \in Payers \ {p} : run'[o] = run[o],
         free' \subseteq NodeJobs, run'[p].rows \subseteq run[p].rows,
         \A x \in run'[p].sums \cup run'[p].next : SumFits(homes, x, run'[p].date),
         \A x \in run'[p].next : \A r \in run'[p].rows : r.ref # Ref(x.node, run'[p].date)
  PROVE  PayInv'
<1>0. PayoutTypeOK' /\ AtHome'
  BY DEF PayInv, PayoutTypeOK, AtHome, jobCols
<1>1. Rows' \subseteq Rows
  BY DEF Rows
<1>2. \A r \in Rows' : RowFits(homes', r)
  BY <1>1 DEF PayInv, RowFits, jobCols
<1>3. \A o \in Payers : \A x \in run'[o].sums \cup run'[o].next : SumFits(homes', x, run'[o].date)
  BY DEF PayInv, SumFits, jobCols
<1>4. \A o \in Payers : run'[o].rows \subseteq run[o].rows
  OBVIOUS
<1> QED
  BY <1>0, <1>2, <1>3, <1>4 DEF PayInv

LEMMA PayStep ==
  ASSUME PayInv, [PayoutNext]_payoutVars
  PROVE  PayInv'
<1>0. /\ PayoutTypeOK
      /\ run \in [Payers -> Running]
      /\ \A p \in Payers : run[p] \in Running /\ run[p].date \in Date
      /\ \A p \in Payers : \A x \in run[p].sums \cup run[p].next : SumFits(homes, x, run[p].date)
      /\ \A p \in Payers : \A x \in run[p].next : \A r \in run[p].rows :
           r.ref # Ref(x.node, run[p].date)
  BY DEF PayInv, PayoutTypeOK, Running
<1>00. \A i \in DOMAIN Calendar : Calendar[i] \in Date
  BY CalendarAssumption
<1>1. ASSUME NEW p \in Payers, NEW i \in DOMAIN Calendar, Start(p, i) PROVE PayInv'
  <2>1. /\ run'[p].date \in Date /\ run'[p].rows = {} /\ run'[p].sums = {} /\ run'[p].next = {}
        /\ run' \in [Payers -> Running] /\ \A o \in Payers \ {p} : run'[o] = run[o]
    BY <1>0, <1>00, <1>1 DEF Start, NoRun, Running
  <2> QED
    BY <1>0, <1>1, <2>1, RunStep DEF Start, PayoutTypeOK
<1>2. ASSUME NEW p \in Payers, NEW n \in Nodes, CalculateEarnings(p, n) PROVE PayInv'
  <2> DEFINE x == [node |-> n, jobs |-> JobsOf(n, run[p].date), earns |-> ~(JobsOf(n, run[p].date) \subseteq free)]
  <2>0. x \in Summary
    BY <1>0 DEF JobsOf, Summary, PayoutTypeOK
  <2>1. SumFits(homes, x, run[p].date)
    BY <1>0, JobsFit DEF SumFits
  <2>2. /\ run'[p].date = run[p].date /\ run'[p].rows = run[p].rows
        /\ run'[p].sums = run[p].sums \cup {x} /\ run'[p].next = run[p].next
        /\ run' \in [Payers -> Running] /\ \A o \in Payers \ {p} : run'[o] = run[o]
    <3>1. run' = [run EXCEPT ![p].nodes = @ \ {n}, ![p].sums = @ \cup {x}]
      BY <1>2 DEF CalculateEarnings
    <3> HIDE DEF x
    <3>2. [run[p] EXCEPT !.nodes = @ \ {n}, !.sums = @ \cup {x}] \in Running
      BY <1>0, <2>0 DEF Running
    <3>3. run' = [run EXCEPT ![p] = [run[p] EXCEPT !.nodes = @ \ {n}, !.sums = @ \cup {x}]]
      BY <1>0, <3>1
    <3>4. run'[p] = [run[p] EXCEPT !.nodes = @ \ {n}, !.sums = @ \cup {x}]
      BY <1>0, <3>3
    <3>5. /\ run'[p].date = run[p].date /\ run'[p].rows = run[p].rows
          /\ run'[p].sums = run[p].sums \cup {x} /\ run'[p].next = run[p].next
      BY <1>0, <3>4 DEF Running
    <3>6. run' \in [Payers -> Running] /\ \A o \in Payers \ {p} : run'[o] = run[o]
      BY <1>0, <3>2, <3>3
    <3> QED
      BY <3>5, <3>6
  <2>3. \A y \in run'[p].sums \cup run'[p].next : SumFits(homes, y, run'[p].date)
    BY <1>0, <2>1, <2>2
  <2>4. free' \subseteq NodeJobs /\ UNCHANGED <<now, jobCols, held, paid>>
    BY <1>0, <1>2 DEF CalculateEarnings, PayoutTypeOK
  <2>5. \A y \in run'[p].next : \A r \in run'[p].rows : r.ref # Ref(y.node, run'[p].date)
    BY <1>0, <2>2
  <2>6. run'[p].rows \subseteq run[p].rows
    BY <2>2
  <2> HIDE DEF x
  <2> QED
    BY <2>2, <2>3, <2>4, <2>5, <2>6, RunStep
<1>3. ASSUME NEW p \in Payers, ReportDone(p) \/ Abandon(p) PROVE PayInv'
  <2>1. CASE ReportDone(p)
    <3>1. /\ run'[p].date = run[p].date /\ run'[p].rows = run[p].rows
          /\ run'[p].sums = run[p].sums /\ run'[p].next = run[p].next
          /\ run' \in [Payers -> Running] /\ \A o \in Payers \ {p} : run'[o] = run[o]
      BY <1>0, <2>1 DEF ReportDone, Proceed, Running
    <3> QED
      BY <1>0, <2>1, <3>1, RunStep DEF ReportDone, PayoutTypeOK
  <2>2. CASE Abandon(p)
    <3>1. /\ run'[p].date \in Date /\ run'[p].rows = {} /\ run'[p].sums = {} /\ run'[p].next = {}
          /\ run' \in [Payers -> Running] /\ \A o \in Payers \ {p} : run'[o] = run[o]
      BY <1>0, <1>00, <2>2, CalendarAssumption DEF Abandon, NoRun, Running
    <3> QED
      BY <1>0, <2>2, <3>1, RunStep DEF Abandon, PayoutTypeOK
  <2> QED
    BY <1>3, <2>1, <2>2
<1>4. ASSUME NEW p \in Payers, NEW x \in run[p].sums, Skip(p, x) \/ NoneFound(p, x)
      PROVE  PayInv'
  <2>1. /\ run'[p].date = run[p].date /\ run'[p].rows = run[p].rows
        /\ run'[p].sums \subseteq run[p].sums
        /\ run' \in [Payers -> Running] /\ \A o \in Payers \ {p} : run'[o] = run[o]
    BY <1>0, <1>4 DEF Skip, NoneFound, Running
  <2>2. run'[p].next = run[p].next \/ (run'[p].next = {x} /\ ~Found(p, x))
    <3>1. CASE Skip(p, x)
      <4>1. run'[p].next = run[p].next
        BY <1>0, <3>1 DEF Skip, Running
      <4> QED
        BY <4>1
    <3>2. CASE NoneFound(p, x)
      <4>1. run'[p].next = {x}
        BY <1>0, <3>2 DEF NoneFound, Running
      <4>2. ~Found(p, x)
        BY <3>2 DEF NoneFound
      <4> QED
        BY <4>1, <4>2
    <3> QED
      BY <1>4, <3>1, <3>2
  <2>3. \A y \in run'[p].next : \A r \in run'[p].rows : r.ref # Ref(y.node, run'[p].date)
    BY <1>0, <2>1, <2>2 DEF Found
  <2>4. UNCHANGED <<now, jobCols, held, free, paid>>
    BY <1>4 DEF Skip, NoneFound
  <2>5. \A y \in run'[p].sums \cup run'[p].next : SumFits(homes, y, run'[p].date)
    BY <1>0, <2>1, <2>2
  <2> QED
    BY <1>0, <2>1, <2>3, <2>4, <2>5, RunStep DEF PayoutTypeOK
<1>5. ASSUME NEW p \in Payers, NEW x \in run[p].next, Conflict(p, x) PROVE PayInv'
  <2>1. /\ run'[p].date = run[p].date /\ run'[p].rows = {} /\ run'[p].next = {}
        /\ run'[p].sums = run[p].sums
        /\ run' \in [Payers -> Running] /\ \A o \in Payers \ {p} : run'[o] = run[o]
    BY <1>0, <1>5 DEF Conflict, Running
  <2> QED
    BY <1>0, <1>5, <2>1, RunStep DEF Conflict, PayoutTypeOK
<1>6. ASSUME NEW p \in Payers, NEW x \in run[p].next, Insert(p, x) PROVE PayInv'
  <2> DEFINE new == Row(x, run[p].date)
  <2>0. new \in PaidRow
    BY <1>0 DEF Row, Ref, Refs, PaidRow, Running, Summary, Date
  <2>1. /\ run'[p].date = run[p].date /\ run'[p].rows = run[p].rows \cup {new}
        /\ run'[p].next = {} /\ run'[p].sums = run[p].sums
        /\ run' \in [Payers -> Running] /\ \A o \in Payers \ {p} : run'[o] = run[o]
        /\ UNCHANGED <<now, jobCols, held, free, paid>>
    BY <1>0, <1>6, <2>0 DEF Insert, Running
  <2>2. /\ new.ref = Ref(x.node, run[p].date) /\ new.jobs = x.jobs
        /\ new.ref.node = x.node /\ new.ref.year = run[p].date.year
        /\ new.ref.month = run[p].date.month
    BY DEF Row, Ref
  <2>3. RowFits(homes, new)
    BY <1>0, <2>2 DEF RowFits, SumFits
  <2>4. /\ \A r \in paid : r.ref # new.ref
        /\ \A r \in run[p].rows : r.ref # new.ref
        /\ \A o \in Payers \ {p} : \A r \in run[o].rows : r.ref # new.ref
    BY <1>0, <1>6, <2>2 DEF Insert
  <2> HIDE DEF new
  <2>5. Rows' \subseteq Rows \cup {new}
    BY <2>1 DEF Rows
  <2>6. \A r \in Rows' : RowFits(homes', r)
    BY <2>1, <2>3, <2>5 DEF PayInv, RowFits, jobCols
  <2>7. \A o \in Payers : \A y \in run'[o].sums \cup run'[o].next : SumFits(homes', y, run'[o].date)
    BY <1>0, <2>1 DEF SumFits, jobCols
  <2>8. \A o \in Payers : \A r \in run'[o].rows :
          /\ \A q \in paid : r.ref # q.ref
          /\ \A q \in run'[o].rows : r # q => r.ref # q.ref
          /\ \A u \in Payers \ {o} : \A q \in run'[u].rows : r.ref # q.ref
    BY <2>1, <2>4 DEF PayInv
  <2> QED
    <3>1. PayoutTypeOK' /\ AtHome'
      BY <1>0, <2>1 DEF PayInv, PayoutTypeOK, AtHome, jobCols
    <3>2. \A o \in Payers : \A y \in run'[o].next : \A r \in run'[o].rows :
            r.ref # Ref(y.node, run'[o].date)
      BY <1>0, <2>1
    <3>3. \A r, q \in paid' : r # q => r.ref # q.ref
      BY <2>1 DEF PayInv
    <3> QED
      BY <2>1, <2>6, <2>7, <2>8, <3>1, <3>2, <3>3 DEF PayInv
<1>7. ASSUME NEW p \in Payers, Commit(p) PROVE PayInv'
  <2>1. /\ run'[p].date \in Date /\ run'[p].rows = {} /\ run'[p].sums = {} /\ run'[p].next = {}
        /\ run' \in [Payers -> Running] /\ \A o \in Payers \ {p} : run'[o] = run[o]
        /\ paid' = paid \cup run[p].rows /\ UNCHANGED <<now, jobCols, held, free>>
    BY <1>0, <1>00, <1>7, CalendarAssumption DEF Commit, NoRun, Running
  <2>2. Rows' \subseteq Rows
    BY <2>1 DEF Rows
  <2>3. \A r \in Rows' : RowFits(homes', r)
    BY <2>1, <2>2 DEF PayInv, RowFits, jobCols
  <2>4. \A o \in Payers : \A y \in run'[o].sums \cup run'[o].next : SumFits(homes', y, run'[o].date)
    BY <1>0, <2>1 DEF SumFits, jobCols
  <2>5. \A r, q \in paid' : r # q => r.ref # q.ref
    BY <2>1 DEF PayInv
  <2>6. \A o \in Payers : \A r \in run'[o].rows :
          /\ \A q \in paid' : r.ref # q.ref
          /\ \A q \in run'[o].rows : r # q => r.ref # q.ref
          /\ \A u \in Payers \ {o} : \A q \in run'[u].rows : r.ref # q.ref
    BY <2>1 DEF PayInv
  <2> QED
    <3>1. PayoutTypeOK' /\ AtHome'
      BY <1>0, <2>1 DEF PayInv, PayoutTypeOK, AtHome, jobCols, Running
    <3>2. \A o \in Payers : \A y \in run'[o].next : \A r \in run'[o].rows :
            r.ref # Ref(y.node, run'[o].date)
      BY <1>0, <2>1
    <3> QED
      BY <2>3, <2>4, <2>5, <2>6, <3>1, <3>2 DEF PayInv
<1>8. ASSUME UNCHANGED <<run, paid>>, PayoutTypeOK', AtHome',
             \A j \in NodeJobs : homes[j] \subseteq homes'[j]
      PROVE  PayInv'
  <2>1. \A r : RowFits(homes, r) => RowFits(homes', r)
    BY <1>8 DEF RowFits
  <2>2. \A x, d : SumFits(homes, x, d) => SumFits(homes', x, d)
    BY <1>8 DEF SumFits
  <2>3. Rows' = Rows
    BY <1>8 DEF Rows
  <2> QED
    BY <1>8, <2>1, <2>2, <2>3 DEF PayInv
<1>9. ASSUME NEW u \in Updaters, Update(u) PROVE PayInv'
  <2>0. now \in DOMAIN Calendar /\ DOMAIN Calendar = 1..Len(Calendar) /\ Len(Calendar) \in Nat
    BY <1>0, CalendarAssumption DEF PayoutTypeOK
  <2>1. ASSUME NEW j \in NodeJobs, Load(u, j) PROVE PayInv'
    <3>1. PayoutTypeOK'
      BY <1>0, <2>1 DEF Load, PayoutTypeOK, jobCols
    <3>2. AtHome'
      BY <2>1 DEF Load, PayInv, AtHome, jobCols
    <3> QED
      BY <1>8, <2>1, <3>1, <3>2 DEF Load, jobCols
  <2>2. ASSUME Holds(u) PROVE UpdatedJob(u) \in NodeJobs /\ TimeTaken(u) \in DOMAIN Calendar
    <3>1. held[u] \in NodeJobs \X DOMAIN Calendar
      <4>1. held[u] \in {NoUpdate} \cup (NodeJobs \X DOMAIN Calendar)
        BY <1>0, <1>9 DEF PayoutTypeOK
      <4>2. held[u] # NoUpdate
        BY <2>2 DEF Holds
      <4> QED
        BY <4>1, <4>2
    <3>2. held[u][1] \in NodeJobs /\ held[u][2] \in DOMAIN Calendar
      BY <3>1
    <3> QED
      BY <3>2 DEF UpdatedJob, TimeTaken
  <2>3. ASSUME Complete(u) PROVE PayInv'
    <3> DEFINE i == UpdatedJob(u)
               t == TimeTaken(u)
               home == Ref(nodeOf[i], Calendar[t])
    <3>1. /\ i \in NodeJobs /\ t \in DOMAIN Calendar
          /\ stamp' = [stamp EXCEPT ![i] = t]
          /\ completed' = completed \cup {i}
          /\ homes' = [homes EXCEPT ![i] = @ \cup {home}]
          /\ held' = [held EXCEPT ![u] = NoUpdate]
          /\ UNCHANGED <<now, nodeOf, free, run, paid>>
      BY <2>2, <2>3 DEF Complete, Releases
    <3>2. home \in Refs
      BY <1>0, <1>00, <3>1 DEF PayoutTypeOK, Ref, Refs, Date
    <3> HIDE DEF i, t, home
    <3>3. PayoutTypeOK'
      BY <1>0, <2>0, <3>1, <3>2 DEF PayoutTypeOK, NotYet
    <3>4. \A j \in NodeJobs : homes[j] \subseteq homes'[j]
      BY <1>0, <3>1 DEF PayoutTypeOK
    <3>5. stamp'[i] = t /\ t # NotYet /\ home \in homes'[i]
      BY <1>0, <2>0, <3>1 DEF PayoutTypeOK, NotYet
    <3>6. home = Ref(nodeOf'[i], Calendar[stamp'[i]])
      BY <3>1, <3>5 DEF home
    <3>7. \A j \in completed' : j # i => j \in completed /\ stamp'[j] = stamp[j] /\ j \in NodeJobs
      BY <1>0, <3>1 DEF PayoutTypeOK
    <3>8. AtHome'
      BY <3>1, <3>4, <3>5, <3>6, <3>7 DEF PayInv, AtHome
    <3> QED
      BY <1>8, <3>1, <3>3, <3>4, <3>8
  <2>4. ASSUME NEW n \in Nodes, Reopen(u, n) PROVE PayInv'
    <3> DEFINE i == UpdatedJob(u)
               t == TimeTaken(u)
    <3>1. /\ i \in NodeJobs /\ t \in DOMAIN Calendar
          /\ stamp' \in {stamp, [stamp EXCEPT ![i] = t]}
          /\ nodeOf' = [nodeOf EXCEPT ![i] = n]
          /\ completed' = completed \ {i}
          /\ held' = [held EXCEPT ![u] = NoUpdate]
          /\ UNCHANGED <<now, homes, free, run, paid>>
      BY <2>2, <2>4 DEF Reopen, Releases
    <3> HIDE DEF i, t
    <3>2. PayoutTypeOK'
      BY <1>0, <2>0, <3>1 DEF PayoutTypeOK, NotYet
    <3>3. \A j \in completed' : j \in completed /\ stamp'[j] = stamp[j] /\ nodeOf'[j] = nodeOf[j]
      BY <1>0, <3>1 DEF PayoutTypeOK
    <3>4. AtHome'
      BY <3>1, <3>3 DEF PayInv, AtHome
    <3> QED
      BY <1>8, <3>1, <3>2, <3>4
  <2>5. ASSUME Drop(u) PROVE PayInv'
    <3>1. PayoutTypeOK'
      BY <1>0, <2>5 DEF Drop, Releases, PayoutTypeOK, jobCols
    <3>2. AtHome'
      BY <2>5 DEF Drop, PayInv, AtHome, jobCols
    <3> QED
      BY <1>8, <2>5, <3>1, <3>2 DEF Drop, jobCols
  <2> QED
    BY <1>9, <2>1, <2>3, <2>4, <2>5 DEF Update
<1>10. ASSUME UNCHANGED <<jobCols, held, run, paid>>, now' \in DOMAIN Calendar, free' \subseteq NodeJobs
       PROVE  PayInv'
  <2>1. PayoutTypeOK'
    BY <1>0, <1>10 DEF PayoutTypeOK, jobCols
  <2>2. AtHome'
    BY <1>10 DEF PayInv, AtHome, jobCols
  <2> QED
    BY <1>8, <1>10, <2>1, <2>2 DEF jobCols
<1>11. ASSUME NEW j \in NodeJobs, Reprice(j) PROVE PayInv'
  BY <1>0, <1>10, <1>11 DEF Reprice, PayoutTypeOK
<1>12. CASE Passes \/ UNCHANGED payoutVars
  BY <1>0, <1>10, <1>12, CalendarAssumption DEF Passes, payoutVars, PayoutTypeOK
<1> QED
  BY <1>1, <1>2, <1>3, <1>4, <1>5, <1>6, <1>7, <1>9, <1>11, <1>12 DEF PayoutNext, Pay

(* What is paid was COMPLETED at the node, in the month, it is paid for, and
   no node has two payouts for one month. *)
THEOREM PaidOnce == PayoutSpec => []NoCompletionPaidTwice
<1>1. PayoutInit => PayInv
  BY PayStarts
<1>2. PayInv /\ [PayoutNext]_payoutVars => PayInv'
  BY PayStep
<1>3. PayInv => NoCompletionPaidTwice
  BY DEF PayInv, NoCompletionPaidTwice, Rows, RowFits
<1> QED
  BY <1>1, <1>2, <1>3, PTL DEF PayoutSpec
-----------------------------------------------------------------------------
(* Autoscaler.  A stamp is no older than the event it stands for, but while
   the check that published it has yet to write it. *)

StampInv == \A c \in Checks, way \in Directions :
  check[c] = [at |-> "stamp", way |-> way] \/ stampAge[way] <= eventAge[c][way]

AutoInv == AutoTypeOK /\ StampInv /\ EventsApart

LEMMA AutoStarts == AutoInit => AutoInv
<1> SUFFICES ASSUME AutoInit PROVE AutoInv
  OBVIOUS
<1> USE CooldownAssumption DEF AutoInit, Off, CheckState, Directions
<1>1. AutoTypeOK
  BY DEF AutoTypeOK
<1> QED
  BY <1>1 DEF AutoInv, StampInv, EventsApart

LEMMA AutoStep == AutoInv /\ [AutoNext]_autoVars => AutoInv'
<1> SUFFICES ASSUME AutoInv, [AutoNext]_autoVars PROVE AutoInv'
  OBVIOUS
<1> USE CooldownAssumption DEF AutoInv, AutoTypeOK, CheckState
<1>1. ASSUME NEW c \in Checks, NEW way \in Directions, BeginCheck(c, way) PROVE AutoInv'
  <2>1. stampAge[way] <= eventAge[c][way]
    BY <1>1 DEF BeginCheck, StampInv
  <2>2. eventAge[c][way] = Cooldown
    BY <1>1, <2>1 DEF BeginCheck, CooledDown
  <2>3. AutoTypeOK'
    BY <1>1 DEF BeginCheck
  <2>4. StampInv'
    BY <1>1, <2>1 DEF BeginCheck, StampInv
  <2>5. EventsApart'
    BY <1>1, <2>2 DEF BeginCheck, EventsApart
  <2> QED
    BY <2>3, <2>4, <2>5
<1>2. ASSUME NEW c \in Checks, Publish(c) PROVE AutoInv'
  <2>1. AutoTypeOK'
    BY <1>2 DEF Publish
  <2>2. StampInv'
    BY <1>2 DEF Publish, StampInv
  <2>3. EventsApart'
    BY <1>2 DEF Publish, EventsApart
  <2> QED
    BY <2>1, <2>2, <2>3
<1>3. ASSUME NEW c \in Checks, RedisFails(c) PROVE AutoInv'
  <2>1. AutoTypeOK'
    BY <1>3 DEF RedisFails
  <2>2. StampInv'
    BY <1>3 DEF RedisFails, StampInv
  <2>3. EventsApart'
    BY <1>3 DEF RedisFails, EventsApart
  <2> QED
    BY <2>1, <2>2, <2>3
<1>4. ASSUME NEW c \in Checks, StampWay(c) PROVE AutoInv'
  <2>1. AutoTypeOK'
    BY <1>4 DEF StampWay, Off, Directions
  <2>2. StampInv'
    BY <1>4 DEF StampWay, StampInv, Off
  <2>3. EventsApart'
    BY <1>4 DEF StampWay, EventsApart, Off
  <2> QED
    BY <2>1, <2>2, <2>3
<1>5. ASSUME NEW m \in Machines, NEW l \in Loads \cup {Down}, LoadChanges(m, l) PROVE AutoInv'
  BY <1>5 DEF LoadChanges, StampInv, EventsApart
<1>6. CASE TimePasses
  <2>1. /\ AutoTypeOK'
        /\ \A way \in Directions : stampAge'[way] = Older(stampAge[way])
        /\ \A c \in Checks, way \in Directions : eventAge'[c][way] = Older(eventAge[c][way])
    BY <1>6 DEF TimePasses, Older
  <2>2. StampInv'
    BY <1>6, <2>1 DEF TimePasses, StampInv, Older
  <2>3. EventsApart'
    BY <1>6, <2>1 DEF TimePasses, EventsApart, Older
  <2> QED
    BY <2>1, <2>2, <2>3
<1>7. CASE RestartScaler
  <2>1. AutoTypeOK'
    BY <1>7 DEF RestartScaler, Off, Directions
  <2> QED
    BY <1>7, <2>1 DEF RestartScaler, StampInv, EventsApart, Off, Directions
<1>8. CASE UNCHANGED autoVars
  BY <1>8 DEF autoVars, StampInv, EventsApart
<1> QED
  BY <1>1, <1>2, <1>3, <1>4, <1>5, <1>6, <1>7, <1>8 DEF AutoNext

(* However the checks of a process overlap, whatever Redis loses: an event
   that a check is about to publish comes a cooldown or more after its last
   one of that direction (check_and_scale). *)
THEOREM ScalingIsSpaced == AutoSpec => []EventsApart
<1>1. AutoInit => AutoInv
  BY AutoStarts
<1>2. AutoInv /\ [AutoNext]_autoVars => AutoInv'
  BY AutoStep
<1>3. AutoInv => EventsApart
  BY DEF AutoInv
<1> QED
  BY <1>1, <1>2, <1>3, PTL DEF AutoSpec
=============================================================================
