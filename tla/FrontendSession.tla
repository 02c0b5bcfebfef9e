--------------------------- MODULE FrontendSession ---------------------------
(***************************************************************************)
(* The tokens of one window of the desktop frontend, and those who pass    *)
(* them around: the API client (lib/api.ts) with its refresh on a 401, the *)
(* AuthProvider (contexts/AuthContext.tsx) with a refresh of its own, log  *)
(* in, log out and the restoring of a session, and a job's page that polls *)
(* (hooks/useJobs.ts).  Each is an async function: it goes on, between two *)
(* awaits, whatever the others have done since.                            *)
(*                                                                         *)
(* Of a token the model keeps whether it is there.  The gateway may refuse *)
(* any: they expire, are revoked or met by a rate limit.  The secure       *)
(* storage takes one token per await and does not fail.  A fetch ends      *)
(* before the next expiry of a token is due.                               *)
(***************************************************************************)
EXTENDS Integers

CONSTANTS
  Calls,      \* loads of the page that may be under way at the same time
  NoCall,
  LastState   \* bound: states the job goes through, the last one terminal

ASSUME CallAssumption == NoCall \notin Calls
ASSUME StateAssumption == LastState \in Nat

VARIABLES
  tokens,         \* accessToken and refreshToken of lib/api.ts
  storedAccess,   \* the secure storage
  storedRefresh,
  user,           \* is someone signed in, for the pages?
  timer,          \* refreshTimerRef
  api,            \* refreshPromise: doRefresh of lib/api.ts
  own,            \* doRefresh of the AuthProvider
  login, logout,
  call,           \* per load: how far its request is, what it was answered
  current,        \* the load whose effect is not cancelled, NoCall without page
  shown,          \* the state of the job on the page, or Nothing
  jobState,       \* and at the gateway
  out             \* history: signed out, nothing having been under way

provider == <<user, timer, own, login, logout>>
stored == <<storedAccess, storedRefresh>>
page == <<call, current, shown, jobState>>
pageVars == <<tokens, storedAccess, storedRefresh, user, timer, api, own, login,
              logout, call, current, shown, jobState, out>>

Nothing == -1
Request(at, answer) == [at |-> at, answer |-> answer]
NoRequest == Request("idle", Nothing)

PageTypeOK ==
  /\ tokens \in BOOLEAN /\ storedAccess \in BOOLEAN /\ storedRefresh \in BOOLEAN
  /\ user \in BOOLEAN /\ timer \in BOOLEAN /\ out \in BOOLEAN
  /\ api \in {"off", "sent", "saveAccess", "saveRefresh"}
  /\ own \in {"off", "sent", "saveAccess", "saveRefresh", "deleteAccess", "deleteRefresh"}
  /\ login \in {"off", "sent", "waiting", "again", "saveAccess", "saveRefresh"}
  /\ logout \in {"off", "deleteAccess", "deleteRefresh"}
  /\ call \in [Calls -> [at : {"idle", "sent", "waiting", "again", "ok"},
                         answer : Nothing..LastState]]
  /\ current \in Calls \cup {NoCall}
  /\ shown \in Nothing..LastState /\ jobState \in 0..LastState

-----------------------------------------------------------------------------
(* request: a 401 leads to one refresh and one more try.  attemptTokenRefresh
   joins the refresh under way, if any; without a refresh token the call
   fails. *)

JoinedRefresh == IF tokens /\ api = "off" THEN "sent" ELSE api

(* A variant: the refresh is attempted with or without a token. *)
RefusedAlwaysRefreshes(c) ==
  /\ call[c].at = "sent"
  /\ call' = [call EXCEPT ![c] = Request("waiting", Nothing)]
  /\ api' = IF api = "off" THEN "sent" ELSE api
  /\ UNCHANGED <<tokens, stored, provider, current, shown, jobState, out>>

Refused(c) ==
  /\ call[c].at = "sent"
  /\ call' = [call EXCEPT ![c] = IF tokens THEN Request("waiting", Nothing) ELSE NoRequest]
  /\ api' = JoinedRefresh
  /\ UNCHANGED <<tokens, stored, provider, current, shown, jobState, out>>

LoginRefused ==
  /\ login = "sent"
  /\ login' = IF tokens THEN "waiting" ELSE "off"
  /\ api' = JoinedRefresh
  /\ UNCHANGED <<tokens, stored, user, timer, own, logout, page, out>>

(* doRefresh is answered: the tokens replace whatever is there. *)
ApiRefreshed ==
  /\ api = "sent"
  /\ tokens' = TRUE
  /\ api' = "saveAccess"
  /\ UNCHANGED <<stored, provider, page, out>>

ApiSavesAccess ==
  /\ api = "saveAccess"
  /\ storedAccess' = TRUE
  /\ api' = "saveRefresh"
  /\ UNCHANGED <<tokens, storedRefresh, provider, page, out>>

(* Everyone who waited goes on: tries again, or fails. *)
Resume(state) ==
  /\ api' = "off"
  /\ call' = [c \in Calls |-> IF call[c].at = "waiting" THEN Request(state, Nothing)
                              ELSE call[c]]
  /\ login' = IF login # "waiting" THEN login ELSE IF state = "again" THEN state ELSE "off"

ApiSavesRefresh ==
  /\ api = "saveRefresh"
  /\ storedRefresh' = TRUE
  /\ Resume("again")
  /\ UNCHANGED <<tokens, storedAccess, user, timer, own, logout, current, shown, jobState, out>>

(* Refused or no answer: request clears the tokens; the user stays. *)
ApiRefreshFails ==
  /\ api = "sent"
  /\ tokens' = FALSE
  /\ Resume("idle")
  /\ UNCHANGED <<stored, user, timer, own, logout, current, shown, jobState, out>>

-----------------------------------------------------------------------------
(* AuthProvider.doRefresh, by its timer or when a session is restored. *)

TimerFires ==
  /\ timer /\ own = "off"
  /\ timer' = FALSE
  /\ own' = IF tokens THEN "sent" ELSE "off"
  /\ UNCHANGED <<tokens, stored, user, api, login, logout, page, out>>

OwnRefreshed ==
  /\ own = "sent"
  /\ tokens' = TRUE
  /\ own' = "saveAccess"
  /\ UNCHANGED <<stored, user, timer, api, login, logout, page, out>>

OwnSavesAccess ==
  /\ own = "saveAccess"
  /\ storedAccess' = TRUE
  /\ own' = "saveRefresh"
  /\ UNCHANGED <<tokens, storedRefresh, user, timer, api, login, logout, page, out>>

(* setUser, and scheduleRefresh for the token there is by now. *)
OwnSavesRefresh ==
  /\ own = "saveRefresh"
  /\ storedRefresh' = TRUE
  /\ own' = "off" /\ user' = TRUE /\ timer' = tokens
  /\ UNCHANGED <<tokens, storedAccess, api, login, logout, page, out>>

OwnRefused ==
  /\ own = "sent"
  /\ tokens' = FALSE
  /\ own' = "deleteAccess"
  /\ UNCHANGED <<stored, user, timer, api, login, logout, page, out>>

OwnDeletesAccess ==
  /\ own = "deleteAccess"
  /\ storedAccess' = FALSE
  /\ own' = "deleteRefresh"
  /\ UNCHANGED <<tokens, storedRefresh, user, timer, api, login, logout, page, out>>

(* Without a user ProtectedRoute leaves the page, whose effect is cancelled. *)
SignedOut ==
  /\ user' = FALSE
  /\ current' = NoCall /\ shown' = Nothing
  /\ UNCHANGED <<call, jobState>>

OwnDeletesRefresh ==
  /\ own = "deleteRefresh"
  /\ storedRefresh' = FALSE
  /\ own' = "off"
  /\ SignedOut
  /\ UNCHANGED <<tokens, storedAccess, timer, api, login, logout, out>>

(* A network error is swallowed; nobody schedules another try. *)
OwnFails ==
  /\ own = "sent"
  /\ own' = "off"
  /\ UNCHANGED <<tokens, stored, user, timer, api, login, logout, page, out>>

-----------------------------------------------------------------------------
(* Log in and log out. *)

LogIn ==
  /\ ~user /\ login = "off"
  /\ login' = "sent"
  /\ out' = FALSE
  /\ UNCHANGED <<tokens, stored, user, timer, api, own, logout, page>>

LoginAccepted ==
  /\ login \in {"sent", "again"}
  /\ tokens' = TRUE
  /\ login' = "saveAccess"
  /\ UNCHANGED <<stored, user, timer, api, own, logout, page, out>>

LoginFails ==
  /\ login \in {"sent", "again"}
  /\ login' = "off"
  /\ UNCHANGED <<tokens, stored, user, timer, api, own, logout, page, out>>

LoginSavesAccess ==
  /\ login = "saveAccess"
  /\ storedAccess' = TRUE
  /\ login' = "saveRefresh"
  /\ UNCHANGED <<tokens, storedRefresh, user, timer, api, own, logout, page, out>>

LoginSavesRefresh ==
  /\ login = "saveRefresh"
  /\ storedRefresh' = TRUE
  /\ login' = "off" /\ user' = TRUE /\ timer' = tokens
  /\ UNCHANGED <<tokens, storedAccess, api, own, logout, page, out>>

(* The gateway's /auth/logout is not called. *)
LogOut ==
  /\ user /\ logout = "off"
  /\ timer' = FALSE /\ tokens' = FALSE
  /\ logout' = "deleteAccess"
  /\ out' = (api = "off" /\ own = "off" /\ login = "off")
  /\ UNCHANGED <<stored, user, api, own, login, page>>

LogoutDeletesAccess ==
  /\ logout = "deleteAccess"
  /\ storedAccess' = FALSE
  /\ logout' = "deleteRefresh"
  /\ UNCHANGED <<tokens, storedRefresh, user, timer, api, own, login, page, out>>

LogoutDeletesRefresh ==
  /\ logout = "deleteRefresh"
  /\ storedRefresh' = FALSE
  /\ logout' = "off"
  /\ SignedOut
  /\ UNCHANGED <<tokens, storedAccess, timer, api, own, login, out>>

(* The window is opened anew and restores what it finds stored: a session
   whose access token is good for some time, for a short time, or expired. *)
Reload ==
  LET both == storedAccess /\ storedRefresh IN
  /\ tokens' = both
  /\ \/ user' = both /\ timer' = both /\ own' = "off"
     \/ both /\ user' \in BOOLEAN /\ timer' = FALSE /\ own' = "sent"
  /\ api' = "off" /\ login' = "off" /\ logout' = "off"
  /\ call' = [c \in Calls |-> NoRequest]
  /\ current' = NoCall /\ shown' = Nothing
  /\ out' = (out /\ logout = "off")
  /\ UNCHANGED <<stored, jobState>>

-----------------------------------------------------------------------------
(* The job's page. *)

(* Its effect loads the job and cancels the load before. *)
StartLoad(c) ==
  /\ call[c] = NoRequest
  /\ call' = [call EXCEPT ![c] = Request("sent", Nothing)]
  /\ current' = c
  /\ UNCHANGED <<tokens, stored, provider, api, jobState, out>>

OpenPage(c) ==
  /\ user /\ current = NoCall
  /\ StartLoad(c)
  /\ UNCHANGED shown

(* The interval, there while the job shown is active. *)
Poll(c) ==
  /\ shown \in 0..LastState - 1
  /\ StartLoad(c)
  /\ UNCHANGED shown

ClosePage ==
  /\ current # NoCall
  /\ current' = NoCall /\ shown' = Nothing
  /\ UNCHANGED <<tokens, stored, provider, api, call, jobState, out>>

(* The gateway answers with the job as it is. *)
Serve(c) ==
  /\ call[c].at \in {"sent", "again"}
  /\ call' = [call EXCEPT ![c] = Request("ok", jobState)]
  /\ UNCHANGED <<tokens, stored, provider, api, current, shown, jobState, out>>

(* An error other than the 401 above; the page shows it beside the job. *)
LoadFails(c) ==
  /\ call[c].at \in {"sent", "again"}
  /\ call' = [call EXCEPT ![c] = NoRequest]
  /\ UNCHANGED <<tokens, stored, provider, api, current, shown, jobState, out>>

(* A variant: a load does not ask whether it was cancelled. *)
LoadedRegardless(c) ==
  /\ call[c].at = "ok"
  /\ call' = [call EXCEPT ![c] = NoRequest]
  /\ shown' = IF current # NoCall THEN call[c].answer ELSE shown
  /\ UNCHANGED <<tokens, stored, provider, api, current, jobState, out>>

Loaded(c) ==
  /\ call[c].at = "ok"
  /\ call' = [call EXCEPT ![c] = NoRequest]
  /\ shown' = IF c = current THEN call[c].answer ELSE shown
  /\ UNCHANGED <<tokens, stored, provider, api, current, jobState, out>>

(* Meanwhile the job goes on. *)
JobMoves ==
  /\ jobState < LastState
  /\ jobState' = jobState + 1
  /\ UNCHANGED <<tokens, stored, provider, api, call, current, shown, out>>

PageInit ==
  /\ tokens = FALSE /\ storedAccess = FALSE /\ storedRefresh = FALSE
  /\ user = FALSE /\ timer = FALSE /\ out = FALSE
  /\ api = "off" /\ own = "off" /\ login = "off" /\ logout = "off"
  /\ call = [c \in Calls |-> NoRequest]
  /\ current = NoCall /\ shown = Nothing /\ jobState = 0

ClientNext == ApiRefreshed \/ ApiSavesAccess \/ ApiSavesRefresh \/ ApiRefreshFails

ProviderNext ==
  \/ TimerFires \/ OwnRefreshed \/ OwnSavesAccess \/ OwnSavesRefresh
  \/ OwnRefused \/ OwnDeletesAccess \/ OwnDeletesRefresh \/ OwnFails
  \/ LogIn \/ LoginAccepted \/ LoginRefused \/ LoginFails
  \/ LoginSavesAccess \/ LoginSavesRefresh
  \/ LogOut \/ LogoutDeletesAccess \/ LogoutDeletesRefresh \/ Reload

LoadNext(c) ==
  OpenPage(c) \/ Poll(c) \/ Refused(c) \/ Serve(c) \/ LoadFails(c) \/ Loaded(c)

PageNext ==
  \/ ClientNext \/ ProviderNext \/ ClosePage \/ JobMoves
  \/ \E c \in Calls : LoadNext(c)

PageSpec == PageInit /\ [][PageNext]_pageVars
-----------------------------------------------------------------------------
(* Properties. *)

(* A window signed out with no refresh or login under way stays signed out
   until someone logs in: no call that is refused late, no timer and no
   restart of the window brings tokens, user or stored session back. *)
SignedOutStaysOut == out =>
  /\ ~tokens /\ ~timer /\ api = "off" /\ own = "off"
  /\ logout = "off" => ~user /\ ~storedAccess /\ ~storedRefresh

(* While a job's page is open, the job on it never goes back to an earlier
   state, in whatever order its loads are answered, refused or tried again. *)
ShownIsLatest == [][shown = Nothing \/ shown' = Nothing \/ shown <= shown']_pageVars
=============================================================================
