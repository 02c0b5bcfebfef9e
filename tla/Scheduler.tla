----------------------------- MODULE Scheduler ------------------------------
(***************************************************************************)
(* Jobs in core/scheduler: dispatch.py creates them, job_service.py moves  *)
(* them through VALID_TRANSITIONS, retry.py requeues or buries them and    *)
(* circuit_breaker.py takes them off a tripped node.                       *)
(*                                                                         *)
(* Each call runs in a database session of its own and commits at its end. *)
(* It loads a row, decides on what it loaded, flushes an UPDATE of the     *)
(* columns it changed (and so locks the row), perhaps pushes to Redis, and *)
(* commits: other sessions run between these steps, and what was loaded is *)
(* never loaded again.  A push is not part of the transaction and survives *)
(* a rollback; when Redis is down the push fails open.                     *)
(*                                                                         *)
(* Which nodes are HEALTHY changes freely (heartbeats, staleness and the   *)
(* breaker's counters are NodeHealth's subject); loads are arbitrary, so   *)
(* the least loaded node is any healthy one.                               *)
(***************************************************************************)
EXTENDS Naturals, FiniteSets

CONSTANTS
  Jobs,         \* job ids; a fresh one for every dispatch
  Nodes,        \* edge nodes with the job's capability
  Sessions,     \* the database sessions
  Calls,        \* Calls[s]: the kinds of call session s makes
  MaxRetries,   \* MAX_RETRIES
  MaxRequeued,  \* a bound of the model: reports requeue no job past this retry_count
  NoJob,        \* no such row
  NoNode        \* find_best_node found none

Statuses == {"QUEUED", "DISPATCHED", "RUNNING", "COMPLETED", "FAILED"}
Kinds == {"dispatch", "report", "cancel", "retry", "redistribute"}

(* A job_dispatches row; of timestamps and texts, whether they are set. *)
Row == [status : Statuses, node : Nodes, retries : Nat,
        sent : BOOLEAN,     \* dispatched_at
        ended : BOOLEAN,    \* completed_at
        result : BOOLEAN]   \* result_ref

ASSUME CallsAssumption == Calls \in [Sessions -> SUBSET Kinds]
ASSUME BoundAssumption == MaxRetries \in Nat /\ MaxRequeued \in Nat
ASSUME NothingAssumption == NoJob \notin Row /\ NoNode \notin Nodes

VARIABLES
  jobs,      \* the committed rows, NoJob where there is none
  letters,   \* the jobs with a committed dead letter entry
  pushed,    \* pushed[n]: the jobs RPUSHed to queue:node:n so far
  lost,      \* jobs with a push Redis did not take
  healthy,   \* the nodes whose status is HEALTHY
  phase,     \* per session: idle, loaded, flushed, pushed
  op,        \* per session: the call it is in
  on,        \* per session: the jobs it writes
  seen,      \* per session: the rows as it loaded them
  pick       \* per session: the node find_best_node gave it (redistribute: the tripped node)

vars == <<jobs, letters, pushed, lost, healthy, phase, op, on, seen, pick>>

Phases == {"idle", "loaded", "flushed", "pushed"}

(* What update_job_status is called with. *)
Reports == Statuses
Ops == Reports \cup {"dispatch", "cancel", "retry", "bury", "redistribute", "none"}

TypeOK ==
  /\ jobs \in [Jobs -> Row \cup {NoJob}]
  /\ letters \subseteq Jobs
  /\ pushed \in [Nodes -> SUBSET Jobs]
  /\ lost \subseteq Jobs
  /\ healthy \subseteq Nodes
  /\ phase \in [Sessions -> Phases]
  /\ op \in [Sessions -> Ops]
  /\ on \in [Sessions -> SUBSET Jobs]
  /\ seen \in [Sessions -> [Jobs -> Row \cup {NoJob}]]
  /\ pick \in [Sessions -> Nodes \cup {NoNode}]
  /\ \A s \in Sessions : op[s] # "dispatch" =>
       \A j \in on[s] : seen[s][j] # NoJob /\ jobs[j] # NoJob
  /\ \A s \in Sessions : op[s] = "dispatch" => pick[s] \in Nodes
  /\ \A s \in Sessions : op[s] = "none" <=> phase[s] = "idle"

-----------------------------------------------------------------------------
(* The rows. *)

(* VALID_TRANSITIONS *)
ValidTransitions ==
  ({"QUEUED"} \X {"DISPATCHED", "FAILED"})
  \cup ({"DISPATCHED"} \X {"RUNNING", "FAILED", "QUEUED"})
  \cup ({"RUNNING"} \X {"COMPLETED", "FAILED"})
  \cup ({"FAILED"} \X {"QUEUED"})

(* dispatch_job's new row *)
NewRow(n) == [status |-> "DISPATCHED", node |-> n, retries |-> 0,
              sent |-> TRUE, ended |-> FALSE, result |-> FALSE]

(* A variant: completed_at only set on success. *)
ReportedUnended(r, was, new) ==
  [r EXCEPT !.status = new,
            !.retries = IF new = "QUEUED" THEN was.retries + 1 ELSE @,
            !.sent = @ \/ new = "DISPATCHED",
            !.ended = @ \/ new = "COMPLETED",
            !.result = @ \/ new = "COMPLETED"]

(* update_job_status; back to QUEUED counts as a retry, with no look at
   MAX_RETRIES.  A COMPLETED report here always brings its result_ref. *)
Reported(r, was, new) ==
  [r EXCEPT !.status = new,
            !.retries = IF new = "QUEUED" THEN was.retries + 1 ELSE @,
            !.sent = @ \/ new = "DISPATCHED",
            !.ended = @ \/ new \in {"COMPLETED", "FAILED"},
            !.result = @ \/ new = "COMPLETED"]

(* cancel_job *)
Cancelled(r) == [r EXCEPT !.status = "FAILED", !.ended = TRUE]

(* schedule_retry: to FAILED unless it is, to QUEUED, to node n if there is one *)
Requeued(r, was, n) ==
  [r EXCEPT !.status = "QUEUED",
            !.retries = was.retries + 1,
            !.ended = @ \/ was.status # "FAILED",
            !.node = IF n \in {NoNode, was.node} THEN @ ELSE n]

(* A variant: the FAILED transition is forgotten. *)
BuriedAsItIs(r, was) == r

(* move_to_dlq *)
Buried(r, was) == IF was.status = "FAILED" THEN r ELSE Cancelled(r)

(* A variant: the status is not written back. *)
TakenBackByHalf(r, was) == [r EXCEPT !.sent = FALSE]

(* redistribute_jobs: only the columns that changed are written *)
TakenBack(r, was) ==
  [r EXCEPT !.status = IF was.status = "QUEUED" THEN @ ELSE "QUEUED",
            !.sent = @ /\ ~was.sent]

(* The row session s leaves of job j, whose committed row is r. *)
Written(s, j, r) ==
  CASE op[s] = "dispatch" -> NewRow(pick[s])
    [] op[s] \in Reports -> Reported(r, seen[s][j], op[s])
    [] op[s] = "cancel" -> Cancelled(r)
    [] op[s] = "retry" -> Requeued(r, seen[s][j], pick[s])
    [] op[s] = "bury" -> Buried(r, seen[s][j])
    [] op[s] = "redistribute" -> TakenBack(r, seen[s][j])

(* A variant: off by one. *)
ShouldRetryOnceMore(r) == r.retries <= MaxRetries

(* should_retry *)
ShouldRetry(r) == r.retries < MaxRetries

-----------------------------------------------------------------------------
(* The steps of a session. *)

(* The call's first SELECT: what the session knows from now on. *)
Open(s, o, S) ==
  /\ phase[s] = "idle"
  /\ phase' = [phase EXCEPT ![s] = "loaded"]
  /\ op' = [op EXCEPT ![s] = o]
  /\ on' = [on EXCEPT ![s] = S]
  /\ seen' = [seen EXCEPT ![s] = [j \in Jobs |-> IF j \in S THEN jobs[j] ELSE NoJob]]

(* A fresh job id: no row, no session and no queue knows it. *)
Fresh(j) == /\ jobs[j] = NoJob /\ j \notin lost
            /\ \A s \in Sessions : j \notin on[s]
            /\ \A n \in Nodes : j \notin pushed[n]

(* A variant: the missing node goes unnoticed. *)
DispatchNowhere(s, j, n) ==
  /\ "dispatch" \in Calls[s]
  /\ phase[s] = "idle"
  /\ Fresh(j)
  /\ phase' = [phase EXCEPT ![s] = "flushed"]
  /\ op' = [op EXCEPT ![s] = "dispatch"]
  /\ on' = [on EXCEPT ![s] = {j}]
  /\ pick' = [pick EXCEPT ![s] = IF n \in healthy THEN n ELSE NoNode]
  /\ UNCHANGED <<jobs, letters, pushed, lost, healthy, seen>>

(* dispatch_job finds a node and flushes the new row (503 when none is). *)
Dispatch(s, j, n) ==
  /\ "dispatch" \in Calls[s]
  /\ phase[s] = "idle"
  /\ Fresh(j) /\ n \in healthy
  /\ phase' = [phase EXCEPT ![s] = "flushed"]
  /\ op' = [op EXCEPT ![s] = "dispatch"]
  /\ on' = [on EXCEPT ![s] = {j}]
  /\ pick' = [pick EXCEPT ![s] = n]
  /\ UNCHANGED <<jobs, letters, pushed, lost, healthy, seen>>

(* update_job_status loads the row and checks the transition. *)
LoadReport(s, j, new) ==
  /\ "report" \in Calls[s]
  /\ jobs[j] # NoJob
  /\ <<jobs[j].status, new>> \in ValidTransitions
  /\ new = "QUEUED" => jobs[j].retries < MaxRequeued
  /\ Open(s, new, {j})
  /\ UNCHANGED <<jobs, letters, pushed, lost, healthy, pick>>

(* cancel_job loads the row and checks that it is cancellable. *)
LoadCancel(s, j) ==
  /\ "cancel" \in Calls[s]
  /\ jobs[j] # NoJob
  /\ jobs[j].status \in {"QUEUED", "DISPATCHED"}
  /\ Open(s, "cancel", {j})
  /\ UNCHANGED <<jobs, letters, pushed, lost, healthy, pick>>

(* schedule_retry gets a job its caller loaded: with retries left it will be
   queued again, else buried; a COMPLETED job raises. *)
LoadRetry(s, j) ==
  /\ "retry" \in Calls[s]
  /\ jobs[j] # NoJob
  /\ jobs[j].status # "COMPLETED"
  /\ Open(s, IF ShouldRetry(jobs[j]) THEN "retry" ELSE "bury", {j})
  /\ UNCHANGED <<jobs, letters, pushed, lost, healthy, pick>>

(* record_failure at the threshold marks node n UNHEALTHY in its transaction
   and redistribute_jobs loads the node's waiting jobs. *)
LoadRedistribute(s, n) ==
  /\ "redistribute" \in Calls[s]
  /\ Open(s, "redistribute",
          {j \in {i \in Jobs : jobs[i] # NoJob} :
             jobs[j].node = n /\ jobs[j].status \in {"QUEUED", "DISPATCHED"}})
  /\ pick' = [pick EXCEPT ![s] = n]
  /\ UNCHANGED <<jobs, letters, pushed, lost, healthy>>

(* find_best_node's answers: loads are arbitrary, so any healthy node may be
   the least loaded one. *)
BestNodes == IF healthy = {} THEN {NoNode} ELSE healthy

(* No other session has flushed, and so locked, a row of S. *)
Unlocked(s, S) == \A t \in Sessions \ {s} :
  phase[t] \in {"flushed", "pushed"} => on[t] \cap S = {}

(* The flush: the UPDATE waits for the rows' locks.  schedule_retry then asks
   find_best_node for a node, the one that failed included. *)
Flush(s) ==
  /\ phase[s] = "loaded"
  /\ Unlocked(s, on[s])
  /\ phase' = [phase EXCEPT ![s] = "flushed"]
  /\ pick' \in {[pick EXCEPT ![s] = n] :
                 n \in IF op[s] = "retry" THEN BestNodes ELSE {pick[s]}}
  /\ UNCHANGED <<jobs, letters, pushed, lost, healthy, op, on, seen>>

Pushes(s) == op[s] \in {"dispatch", "retry"} /\ pick[s] # NoNode

(* push_to_queue, Redis up *)
Push(s) ==
  /\ phase[s] = "flushed" /\ Pushes(s)
  /\ pushed' = [pushed EXCEPT ![pick[s]] = @ \cup on[s]]
  /\ phase' = [phase EXCEPT ![s] = "pushed"]
  /\ UNCHANGED <<jobs, letters, lost, healthy, op, on, seen, pick>>

(* push_to_queue, Redis down: fails open *)
PushLost(s) ==
  /\ phase[s] = "flushed" /\ Pushes(s)
  /\ lost' = lost \cup on[s]
  /\ phase' = [phase EXCEPT ![s] = "pushed"]
  /\ UNCHANGED <<jobs, letters, pushed, healthy, op, on, seen, pick>>

Close(s) == /\ phase' = [phase EXCEPT ![s] = "idle"]
            /\ op' = [op EXCEPT ![s] = "none"]
            /\ on' = [on EXCEPT ![s] = {}]
            /\ seen' = [seen EXCEPT ![s] = [j \in Jobs |-> NoJob]]
            /\ pick' = [pick EXCEPT ![s] = NoNode]
            /\ UNCHANGED <<pushed, lost>>

(* A variant: the commit does not wait for the push. *)
CommitEarly(s) ==
  /\ phase[s] \in {"flushed", "pushed"}
  /\ jobs' = [j \in Jobs |-> IF j \in on[s] THEN Written(s, j, jobs[j]) ELSE jobs[j]]
  /\ letters' = IF op[s] = "bury" THEN letters \cup on[s] ELSE letters
  /\ healthy' = IF op[s] = "redistribute" THEN healthy \ {pick[s]} ELSE healthy
  /\ Close(s)

Commit(s) ==
  /\ phase[s] = IF Pushes(s) THEN "pushed" ELSE "flushed"
  /\ jobs' = [j \in Jobs |-> IF j \in on[s] THEN Written(s, j, jobs[j]) ELSE jobs[j]]
  /\ letters' = IF op[s] = "bury" THEN letters \cup on[s] ELSE letters
  /\ healthy' = IF op[s] = "redistribute" THEN healthy \ {pick[s]} ELSE healthy
  /\ Close(s)

(* The process dies or the database refuses: the transaction is gone, a push
   already made is not. *)
Rollback(s) == /\ phase[s] # "idle"
               /\ Close(s)
               /\ UNCHANGED <<jobs, letters, healthy>>

(* A heartbeat revives a node; staleness, or another breaker, takes it out. *)
NodeUp(n) == /\ n \notin healthy
             /\ healthy' = healthy \cup {n}
             /\ UNCHANGED <<jobs, letters, pushed, lost, phase, op, on, seen, pick>>

NodeDown(n) == /\ n \in healthy
               /\ healthy' = healthy \ {n}
               /\ UNCHANGED <<jobs, letters, pushed, lost, phase, op, on, seen, pick>>

Init ==
  /\ jobs = [j \in Jobs |-> NoJob]
  /\ letters = {}
  /\ pushed = [n \in Nodes |-> {}]
  /\ lost = {}
  /\ healthy = {}
  /\ phase = [s \in Sessions |-> "idle"]
  /\ op = [s \in Sessions |-> "none"]
  /\ on = [s \in Sessions |-> {}]
  /\ seen = [s \in Sessions |-> [j \in Jobs |-> NoJob]]
  /\ pick = [s \in Sessions |-> NoNode]

Begin(s) ==
  \/ \E j \in Jobs, n \in Nodes : Dispatch(s, j, n)
  \/ \E j \in Jobs, new \in Reports : LoadReport(s, j, new)
  \/ \E j \in Jobs : LoadCancel(s, j)
  \/ \E j \in Jobs : LoadRetry(s, j)
  \/ \E n \in Nodes : LoadRedistribute(s, n)

Proceed(s) == Flush(s) \/ Push(s) \/ PushLost(s) \/ Commit(s) \/ Rollback(s)

Next == \/ \E s \in Sessions : Begin(s) \/ Proceed(s)
        \/ \E n \in Nodes : NodeUp(n) \/ NodeDown(n)

Spec == Init /\ [][Next]_vars
-----------------------------------------------------------------------------
(* Properties. *)

(* The node a job is assigned to has had it pushed to its queue, unless Redis
   was down for a push of that job: a retry never moves a job to a node that
   is not told, however calls overlap. *)
AssignedIsQueued == \A j \in Jobs :
  jobs[j] # NoJob /\ j \notin lost => j \in pushed[jobs[j].node]

(* A finished job has its completed_at, however calls overlap. *)
EndedHasTime == \A j \in Jobs :
  jobs[j] # NoJob /\ jobs[j].status \in {"COMPLETED", "FAILED"} => jobs[j].ended

(* A commit of a session that decided on a row of j which is no longer the
   committed one. *)
WritesStale(j) == \E s \in Sessions :
  Commit(s) /\ j \in on[s] /\ seen[s][j] # jobs[j]

(* The columns of j tell one story: at its node it has its dispatched_at,
   and only a COMPLETED job has a result. *)
ColumnsAgree(j) == jobs[j] # NoJob =>
  /\ jobs[j].status \in {"DISPATCHED", "RUNNING"} => jobs[j].sent
  /\ jobs[j].result => jobs[j].status = "COMPLETED"

(* The columns of a job come apart in one way only: the commit of a session
   whose row was overwritten since it was loaded.  Any calls that take turns,
   reports that requeue a failed job included, keep them together. *)
SpoiltOnlyByStaleRows ==
  [][\A j \in Jobs : ColumnsAgree(j) /\ ~ColumnsAgree(j)' => WritesStale(j)]_vars

(* However calls overlap, schedule_retry takes no retry_count past
   MAX_RETRIES: what does is update_job_status told to requeue the job. *)
RetriesOf(j) == IF jobs[j] = NoJob THEN 0 ELSE jobs[j].retries
OnlyReportsExceed ==
  [][\A j \in Jobs : RetriesOf(j)' > RetriesOf(j) /\ RetriesOf(j)' > MaxRetries =>
       \E s \in Sessions : Commit(s) /\ j \in on[s] /\ op[s] = "QUEUED"]_vars

(* COMPLETED is terminal: a job with a result is never failed, cancelled or
   run again. *)
ResultIsFinal == \A j \in Jobs :
  jobs[j] # NoJob /\ jobs[j].result => jobs[j].status = "COMPLETED"

(* What clients see of a job. *)
Machine == INSTANCE JobMachine WITH
  state <- [j \in Jobs |-> IF jobs[j] = NoJob THEN "none" ELSE jobs[j].status],
  retries <- [j \in Jobs |-> RetriesOf(j)],
  buried <- letters

(* However calls overlap, every step of every job is one VALID_TRANSITIONS
   allows, and only a job out of retries is given up, unless a session writes
   a row that was overwritten since it loaded it. *)
LegalUnlessStale ==
  [][letters \subseteq letters' /\ \A j \in Jobs : WritesStale(j) \/ Machine!Lives(j)]_vars
=============================================================================
