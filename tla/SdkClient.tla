------------------------------ MODULE SdkClient ------------------------------
(***************************************************************************)
(* A script that uses the SDK (sdk/python/rendertrust/async_client.py, or  *)
(* client.py, which does the same call by call in threads), the job        *)
(* endpoints it calls (core/api/v1/jobs.py) and the URLs the storage       *)
(* service signs (core/storage/service.py).  Tasks of the script call at   *)
(* the same time, with one token.  The object a result_ref names is put    *)
(* there, and taken away, through the storage service, whose callers are   *)
(* elsewhere.                                                              *)
(*                                                                         *)
(* A job moves, by a cancel or otherwise, in a session that loads its row, *)
(* decides by the status it finds, and writes the new one when it commits, *)
(* whatever the row has become: COMPLETED is not for good.                 *)
(*                                                                         *)
(* Assumed of the script: no two tasks download one job at the same time,  *)
(* for both would write the same file.                                     *)
(***************************************************************************)
EXTENDS Naturals

CONSTANTS
  Jobs, Tasks,
  NoJob,
  Movers,     \* other sessions that may move jobs at the same time
  Chunks      \* of 8192 bytes, in a result

ASSUME JobAssumption == NoJob \notin Jobs
ASSUME ChunkAssumption == Chunks \in Nat \ {0}

VARIABLES
  status,     \* of each job at the gateway, "none" before it exists
  resultRef,  \* of each job: none, invalid (as a key), valid
  move,       \* per session of a cancel or a mover: the move it will write
  objects,    \* the jobs whose object is in the bucket
  token,      \* _token: none, good, stale
  task,       \* per task: its call
  file        \* the file of each job's result: none, partial, result, error

sdkVars == <<status, resultRef, move, objects, token, task, file>>

(* retries and buried are of no concern here. *)
Machine == INSTANCE JobMachine WITH MaxRetries <- 0, state <- status,
                                    retries <- [j \in Jobs |-> 0], buried <- {}

Stage(op, j, at) ==
  [op |-> op, job |-> j, at |-> at, signed |-> FALSE, body |-> "none", got |-> 0]
Call(op, j) == Stage(op, j, "sent")
Done(how) == Stage("none", NoJob, how)
Resting(t) == task[t].at \in {"idle", "returned", "raised"}
Finish(t, how) == task' = [task EXCEPT ![t] = Done(how)]
job(t) == task[t].job
Asks(t, op) == task[t].at = "sent" /\ task[t].op = op

NoMove == <<>>
Statuses == Machine!Unfinished \cup {"COMPLETED", "FAILED"}
AtRest(s) == move[s] = NoMove
Moved(s) == move[s].job
Forgets(s) == move' = [move EXCEPT ![s] = NoMove]

Calling ==
  [op : {"none", "login", "submit", "get", "list", "cancel", "download"}, job : Jobs \cup {NoJob},
   at : {"idle", "sent", "served", "answered", "streaming", "returned", "raised"},
   signed : BOOLEAN, body : {"none", "result", "error"}, got : 0..Chunks]

SdkTypeOK ==
  /\ status \in [Jobs -> Statuses \cup {"none"}]
  /\ resultRef \in [Jobs -> {"none", "invalid", "valid"}]
  /\ move \in [Tasks \cup Movers -> {NoMove} \cup [job : Jobs, to : Statuses]]
  /\ objects \subseteq Jobs /\ token \in {"none", "good", "stale"}
  /\ task \in [Tasks -> Calling]
  /\ \A t \in Tasks : task[t].op \notin {"none", "login", "list"} => task[t].job \in Jobs
  /\ file \in [Jobs -> {"none", "partial", "result", "error"}]

-----------------------------------------------------------------------------
(* The script calls; the request carries the token there is. *)

Send(t, op, j) ==
  /\ Resting(t)
  /\ task' = [task EXCEPT ![t] = Call(op, j)]
  /\ UNCHANGED <<status, resultRef, move, objects, token, file>>

CallLogin(t) == Send(t, "login", NoJob)
CallSubmitJob(t, j) == Send(t, "submit", j)
CallGetJob(t, j) == Send(t, "get", j)
CallListJobs(t) == Send(t, "list", NoJob)
CallCancelJob(t, j) == AtRest(t) /\ Send(t, "cancel", j)   \* a bound: its last one is through
CallDownload(t, j) ==
  /\ \A u \in Tasks : task[u].op # "download" \/ job(u) # j
  /\ Send(t, "download", j)

(* _handle_response of anything but a success raises, as does httpx without
   an answer: a request that was carried out may look like one that was not. *)
Raise(t) ==
  /\ task[t].at \in {"sent", "served", "answered"}
  /\ Finish(t, "raised")
  /\ UNCHANGED <<status, resultRef, move, objects, token, file>>

LoggedIn(t) ==
  /\ Asks(t, "login")
  /\ token' = "good"
  /\ Finish(t, "returned")
  /\ UNCHANGED <<status, resultRef, move, objects, file>>

(* An access token expires; the SDK keeps a refresh token, and no use for it. *)
TokenExpires ==
  /\ token = "good"
  /\ token' = "stale"
  /\ UNCHANGED <<status, resultRef, move, objects, task, file>>

-----------------------------------------------------------------------------
(* The gateway, once get_current_user has accepted the token.  Its answer
   may still be lost. *)

Answers(t) ==
  /\ token = "good"
  /\ task' = [task EXCEPT ![t].at = "answered"]

Submit(t) ==
  /\ Asks(t, "submit") /\ status[job(t)] = "none"
  /\ status' = [status EXCEPT ![job(t)] = "DISPATCHED"]
  /\ Answers(t)
  /\ UNCHANGED <<resultRef, move, objects, token, file>>

(* get_job of the job service finds the row. *)
Known(t) == status[job(t)] # "none"

(* GET /jobs/{id} and GET /jobs change nothing. *)
GetJob(t) ==
  /\ Asks(t, "get") /\ Known(t)
  /\ Answers(t)
  /\ UNCHANGED <<status, resultRef, move, objects, token, file>>

ListJobs(t) ==
  /\ Asks(t, "list")
  /\ Answers(t)
  /\ UNCHANGED <<status, resultRef, move, objects, token, file>>

(* cancel_job finds the job as it may be cancelled, ... *)
Cancel(t) ==
  /\ Asks(t, "cancel") /\ token = "good"
  /\ status[job(t)] \in {"QUEUED", "DISPATCHED"}
  /\ move' = [move EXCEPT ![t] = [job |-> job(t), to |-> "FAILED"]]
  /\ task' = [task EXCEPT ![t].at = "served"]
  /\ UNCHANGED <<status, resultRef, objects, token, file>>

(* ... and writes: the caller may have given up. *)
Cancelled(t) ==
  /\ ~AtRest(t)
  /\ status' = [status EXCEPT ![Moved(t)] = move[t].to]
  /\ Forgets(t)
  /\ task' = IF task[t].at = "served" THEN [task EXCEPT ![t].at = "answered"] ELSE task
  /\ UNCHANGED <<resultRef, objects, token, file>>

(* validate_key: all that is asked of a key before a URL is signed for it. *)
Signable(j) == resultRef[j] = "valid"

GetJobResult(t) ==
  /\ Asks(t, "download") /\ Known(t)
  /\ status[job(t)] = "COMPLETED" /\ resultRef[job(t)] # "none" /\ Signable(job(t))
  /\ token = "good"
  /\ task' = [task EXCEPT ![t].at = "answered", ![t].signed = TRUE]
  /\ UNCHANGED <<status, resultRef, move, objects, token, file>>

(* The call returns what the gateway answered. *)
Return(t) ==
  /\ task[t].at = "answered" /\ task[t].op # "download"
  /\ Finish(t, "returned")
  /\ UNCHANGED <<status, resultRef, move, objects, token, file>>

-----------------------------------------------------------------------------
(* download_result, second step: the signed URL. *)

Served(t) == task[t].signed /\ job(t) \in objects
Body(t) == IF Served(t) THEN "result" ELSE "error"

(* A variant: without raise_for_status. *)
OpenUnchecked(t) ==
  /\ task[t].at = "answered" /\ task[t].op = "download"
  /\ file' = [file EXCEPT ![job(t)] = "partial"]
  /\ task' = [task EXCEPT ![t].at = "streaming", ![t].body = Body(t)]
  /\ UNCHANGED <<status, resultRef, move, objects, token>>

(* raise_for_status is content; open(..., "wb") empties the file. *)
Open(t) ==
  /\ task[t].at = "answered" /\ task[t].op = "download"
  /\ Served(t)
  /\ file' = [file EXCEPT ![job(t)] = "partial"]
  /\ task' = [task EXCEPT ![t].at = "streaming", ![t].body = Body(t)]
  /\ UNCHANGED <<status, resultRef, move, objects, token>>

WriteChunk(t) ==
  /\ task[t].at = "streaming" /\ task[t].got < Chunks
  /\ task' = [task EXCEPT ![t].got = @ + 1]
  /\ UNCHANGED <<status, resultRef, move, objects, token, file>>

(* The body has ended, the file is closed. *)
Downloaded(t) ==
  /\ task[t].at = "streaming" /\ task[t].got = Chunks
  /\ file' = [file EXCEPT ![job(t)] = task[t].body]
  /\ Finish(t, "returned")
  /\ UNCHANGED <<status, resultRef, move, objects, token>>

(* The connection breaks, or the disk is full: what was written stays. *)
StreamBreaks(t) ==
  /\ task[t].at = "streaming"
  /\ Finish(t, "raised")
  /\ UNCHANGED <<status, resultRef, move, objects, token, file>>

(* expires_in seconds after it was signed. *)
UrlExpires(t) ==
  /\ task[t].signed
  /\ task' = [task EXCEPT ![t].signed = FALSE]
  /\ UNCHANGED <<status, resultRef, move, objects, token, file>>

-----------------------------------------------------------------------------
(* Meanwhile. *)

(* update_job_status finds a transition, ... *)
JobLoaded(m, j, to) ==
  /\ AtRest(m)
  /\ <<status[j], to>> \in Machine!Transitions \cup {<<"FAILED", "QUEUED">>}
  /\ move' = [move EXCEPT ![m] = [job |-> j, to |-> to]]
  /\ UNCHANGED <<status, resultRef, objects, token, task, file>>

(* ... and its session commits.  COMPLETED brings the result_ref the worker
   reported; without one, an old one stays. *)
JobMoved(m) ==
  /\ ~AtRest(m)
  /\ status' = [status EXCEPT ![Moved(m)] = move[m].to]
  /\ \E ref \in IF move[m].to = "COMPLETED" THEN {resultRef[Moved(m)], "invalid", "valid"}
                                            ELSE {resultRef[Moved(m)]} :
       resultRef' = [resultRef EXCEPT ![Moved(m)] = ref]
  /\ Forgets(m)
  /\ UNCHANGED <<objects, token, task, file>>

(* A session is rolled back. *)
NotMoved(s) ==
  /\ ~AtRest(s)
  /\ Forgets(s)
  /\ UNCHANGED <<status, resultRef, objects, token, task, file>>

UploadFile(j) ==
  /\ objects' = objects \cup {j}
  /\ UNCHANGED <<status, resultRef, move, token, task, file>>

DeleteFile(j) ==
  /\ objects' = objects \ {j}
  /\ UNCHANGED <<status, resultRef, move, token, task, file>>

SdkInit ==
  /\ status = [j \in Jobs |-> "none"]
  /\ resultRef = [j \in Jobs |-> "none"]
  /\ move = [s \in Tasks \cup Movers |-> NoMove]
  /\ objects = {} /\ token = "none"
  /\ task = [t \in Tasks |-> Done("idle")]
  /\ file = [j \in Jobs |-> "none"]

MakesCall(t) ==
  \/ CallLogin(t) \/ CallListJobs(t)
  \/ \E j \in Jobs : CallSubmitJob(t, j) \/ CallGetJob(t, j) \/ CallCancelJob(t, j) \/ CallDownload(t, j)

TaskNext(t) ==
  \/ MakesCall(t)
  \/ Raise(t) \/ Return(t) \/ LoggedIn(t)
  \/ Submit(t) \/ GetJob(t) \/ ListJobs(t) \/ Cancel(t) \/ Cancelled(t) \/ GetJobResult(t)
  \/ Open(t) \/ WriteChunk(t) \/ Downloaded(t) \/ StreamBreaks(t) \/ UrlExpires(t)

SdkNext ==
  \/ \E t \in Tasks : TaskNext(t)
  \/ \E j \in Jobs : UploadFile(j) \/ DeleteFile(j)
  \/ \E m \in Movers, j \in Jobs, to \in Statuses : JobLoaded(m, j, to)
  \/ \E m \in Movers : JobMoved(m)
  \/ \E s \in Tasks \cup Movers : NotMoved(s)
  \/ TokenExpires

SdkSpec == SdkInit /\ [][SdkNext]_sdkVars
-----------------------------------------------------------------------------
(* Properties. *)

(* When download_result returns, the file is the whole result of a job that
   was COMPLETED with one, however late the URL was used and whatever became
   of the job, the object and the token since it was asked for. *)
ReturnedIsWhole == [][\A t \in Tasks :
  task[t].op = "download" /\ task'[t].at = "returned"
    => file'[job(t)] = "result" /\ resultRef[job(t)] # "none"]_sdkVars
=============================================================================
