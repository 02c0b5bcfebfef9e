----------------------------- MODULE NodeHealth -----------------------------
(***************************************************************************)
(* The gateway's view of its nodes (core/scheduler/service.py, router.py,  *)
(* auth.py, circuit_breaker.py): a row per registered public key with its  *)
(* status and last heartbeat, and the circuit breaker's counters in the    *)
(* memory of the process.  Registration, heartbeats, the search for stale  *)
(* nodes and the breaker's three calls run in sessions: each reads a row,  *)
(* decides, and writes at its commit what it decided.                      *)
(*                                                                         *)
(* An UPDATE locks its row up to the commit, so flush and commit are one   *)
(* step.  Time passes in ticks; ages are kept only as far as they matter.  *)
(* The breaker's redistribution of jobs is part of Scheduler.              *)
(***************************************************************************)
EXTENDS Integers

CONSTANTS
  Keys,              \* public keys, each naming the row registered for it
  Sessions,
  FailureThreshold,
  RecoveryTimeout,   \* in ticks
  StaleAfter         \* UNHEALTHY_THRESHOLD_SECONDS, in ticks

ASSUME ThresholdAssumption ==
  FailureThreshold \in Nat \ {0} /\ RecoveryTimeout \in Nat /\ StaleAfter \in Nat

VARIABLES
  status,     \* per row: absent, REGISTERED, HEALTHY, UNHEALTHY
  heard,      \* per row: age of last_heartbeat, or Never
  failures,   \* _failure_counts, which only matter up to the threshold
  failedAt,   \* age of _last_failure_time, or Never
  halfOpen,   \* _half_open
  task,       \* per session: what it has read and is about to write
  requests,   \* registrations on their way to the gateway
  answers     \* and the answers on their way back

rows == <<status, heard>>
memory == <<failures, failedAt, halfOpen>>
mail == <<requests, answers>>
gatewayVars == <<status, heard, failures, failedAt, halfOpen, task, requests, answers>>

Never == -1
Status == {"absent", "REGISTERED", "HEALTHY", "UNHEALTHY"}
Task(op, on, st, age) == [op |-> op, on |-> on, status |-> st, age |-> age]
Idle == Task("idle", {}, "absent", 0)

(* One tick later; beyond its bound an age makes no more difference. *)
Older(age, bound) == IF age \in {Never, bound} THEN age ELSE age + 1

GatewayTypeOK ==
  /\ status \in [Keys -> Status]
  /\ heard \in [Keys -> Never..StaleAfter + 1]
  /\ failures \in [Keys -> 0..FailureThreshold]
  /\ failedAt \in [Keys -> Never..RecoveryTimeout]
  /\ halfOpen \subseteq Keys
  /\ task \in [Sessions -> [op : {"idle", "register", "beat", "write", "trip", "probe"},
                            on : SUBSET Keys, status : Status, age : 0..StaleAfter + 1]]
  /\ requests \subseteq Keys /\ answers \subseteq Keys

-----------------------------------------------------------------------------
(* Registration and heartbeats. *)

(* A variant: the answer goes out before the commit. *)
AnswerFirst(s, k) ==
  /\ task[s] = Idle /\ k \in requests
  /\ task' = [task EXCEPT ![s] = Task("register", {k}, status[k], 0)]
  /\ requests' = requests \ {k} /\ answers' = answers \cup {k}
  /\ UNCHANGED <<rows, memory>>

(* register_node looks for a row with the key. *)
BeginRegister(s, k) ==
  /\ task[s] = Idle /\ k \in requests
  /\ task' = [task EXCEPT ![s] = Task("register", {k}, status[k], 0)]
  /\ requests' = requests \ {k}
  /\ UNCHANGED <<rows, memory, answers>>

(* It adds one if it saw none, commits, and answers with the node's token. *)
CommitRegister(s, k) ==
  /\ task[s].op = "register" /\ k \in task[s].on
  /\ status' = [status EXCEPT ![k] = IF task[s].status = "absent" THEN "REGISTERED" ELSE @]
  /\ task' = [task EXCEPT ![s] = Idle]
  /\ answers' = answers \cup {k}
  /\ UNCHANGED <<heard, memory, requests>>

(* get_current_node loads the row, process_heartbeat stamps the time. *)
BeginBeat(s, k) ==
  /\ task[s] = Idle /\ status[k] # "absent"
  /\ task' = [task EXCEPT ![s] = Task("beat", {k}, status[k], 0)]
  /\ UNCHANGED <<rows, memory, mail>>

(* A variant: a heartbeat makes only a newly registered node healthy. *)
FirstBeatOnly(s, k) ==
  /\ task[s].op = "beat" /\ k \in task[s].on
  /\ heard' = [heard EXCEPT ![k] = task[s].age]
  /\ status' = [status EXCEPT ![k] = IF task[s].status = "REGISTERED" THEN "HEALTHY" ELSE @]
  /\ task' = [task EXCEPT ![s] = Idle]
  /\ UNCHANGED <<memory, mail>>

(* The stamp is written always, the status only if the loaded one changes. *)
CommitBeat(s, k) ==
  /\ task[s].op = "beat" /\ k \in task[s].on
  /\ heard' = [heard EXCEPT ![k] = task[s].age]
  /\ status' = [status EXCEPT ![k] =
                  IF task[s].status \in {"REGISTERED", "UNHEALTHY"} THEN "HEALTHY" ELSE @]
  /\ task' = [task EXCEPT ![s] = Idle]
  /\ UNCHANGED <<memory, mail>>

(* mark_stale_nodes: HEALTHY rows last heard of too long ago. *)
Sweep(s) ==
  LET stale == {k \in Keys : status[k] = "HEALTHY" /\ heard[k] > StaleAfter} IN
  /\ task[s] = Idle /\ stale # {}
  /\ task' = [task EXCEPT ![s] = Task("write", stale, "UNHEALTHY", 0)]
  /\ UNCHANGED <<rows, memory, mail>>

-----------------------------------------------------------------------------
(* The circuit breaker.  Jobs, and so their outcomes, come only to nodes
   that find_best_node once saw HEALTHY. *)

RanJobs(k) == heard[k] # Never

(* record_failure: counted and stamped before anything is awaited; at the
   threshold the row is to become UNHEALTHY. *)
RecordFailure(s, k) ==
  LET count == IF failures[k] < FailureThreshold THEN failures[k] + 1 ELSE failures[k] IN
  /\ task[s] = Idle /\ RanJobs(k)
  /\ failures' = [failures EXCEPT ![k] = count]
  /\ failedAt' = [failedAt EXCEPT ![k] = 0]
  /\ task' = IF count = FailureThreshold
             THEN [task EXCEPT ![s] = Task("trip", {k}, "UNHEALTHY", 0)] ELSE task
  /\ UNCHANGED <<rows, halfOpen, mail>>

(* UPDATE and redistribution are through: the probe, if any, has ended. *)
Trip(s) ==
  /\ task[s].op = "trip"
  /\ halfOpen' = halfOpen \ task[s].on
  /\ task' = [task EXCEPT ![s].op = "write"]
  /\ UNCHANGED <<rows, failures, failedAt, mail>>

(* record_success forgets the failures first, then has the row HEALTHY. *)
RecordSuccess(s, k) ==
  /\ task[s] = Idle /\ RanJobs(k)
  /\ failures' = [failures EXCEPT ![k] = 0]
  /\ failedAt' = [failedAt EXCEPT ![k] = Never]
  /\ halfOpen' = halfOpen \ {k}
  /\ task' = [task EXCEPT ![s] = Task("write", {k}, "HEALTHY", 0)]
  /\ UNCHANGED <<rows, mail>>

(* check_node_health of an UNHEALTHY row; of any other it returns the status. *)
CheckNodeHealth(s, k) ==
  /\ task[s] = Idle /\ status[k] = "UNHEALTHY"
  /\ task' = [task EXCEPT ![s] = Task("probe", {k}, "UNHEALTHY", 0)]
  /\ UNCHANGED <<rows, memory, mail>>

(* A variant: no failure on record counts as one long past. *)
ProbeUnlessRecent(s, k) ==
  /\ task[s].op = "probe" /\ k \in task[s].on
  /\ halfOpen' = IF failedAt[k] \in 0..RecoveryTimeout - 1 THEN halfOpen ELSE halfOpen \cup {k}
  /\ task' = [task EXCEPT ![s] = Idle]
  /\ UNCHANGED <<rows, failures, failedAt, mail>>

(* The SELECT has returned: the last failure, as it is by now, decides. *)
ProbeDecided(s, k) ==
  /\ task[s].op = "probe" /\ k \in task[s].on
  /\ halfOpen' = IF failedAt[k] = RecoveryTimeout THEN halfOpen \cup {k} ELSE halfOpen
  /\ task' = [task EXCEPT ![s] = Idle]
  /\ UNCHANGED <<rows, failures, failedAt, mail>>

(* The caller of the sweep, or of the breaker, commits. *)
CommitWrite(s) ==
  /\ task[s].op = "write"
  /\ status' = [k \in Keys |-> IF k \in task[s].on THEN task[s].status ELSE status[k]]
  /\ task' = [task EXCEPT ![s] = Idle]
  /\ UNCHANGED <<heard, memory, mail>>

-----------------------------------------------------------------------------
(* A session that fails leaves the rows alone, but not what the breaker has
   in memory. *)
Rollback(s) ==
  /\ task[s].op \in {"register", "beat", "write", "trip"}
  /\ task' = [task EXCEPT ![s] = Idle]
  /\ UNCHANGED <<rows, memory, mail>>

(* The process ends and starts again: the breaker has forgotten everything. *)
Restart ==
  /\ task' = [s \in Sessions |-> Idle]
  /\ failures' = [k \in Keys |-> 0]
  /\ failedAt' = [k \in Keys |-> Never]
  /\ halfOpen' = {}
  /\ requests' = {}
  /\ UNCHANGED <<rows, answers>>

Tick ==
  /\ heard' = [k \in Keys |-> Older(heard[k], StaleAfter + 1)]
  /\ failedAt' = [k \in Keys |-> Older(failedAt[k], RecoveryTimeout)]
  /\ task' = [s \in Sessions |-> IF task[s].op = "beat"
                THEN [task[s] EXCEPT !.age = Older(@, StaleAfter + 1)] ELSE task[s]]
  /\ UNCHANGED <<status, failures, halfOpen, mail>>

GatewayInit ==
  /\ status = [k \in Keys |-> "absent"]
  /\ heard = [k \in Keys |-> Never]
  /\ failures = [k \in Keys |-> 0]
  /\ failedAt = [k \in Keys |-> Never]
  /\ halfOpen = {}
  /\ task = [s \in Sessions |-> Idle]
  /\ requests = {} /\ answers = {}

Call(s, k) ==
  \/ BeginRegister(s, k) \/ CommitRegister(s, k) \/ CommitBeat(s, k)
  \/ RecordFailure(s, k) \/ RecordSuccess(s, k)
  \/ CheckNodeHealth(s, k) \/ ProbeDecided(s, k)

GatewayNext ==
  \/ \E s \in Sessions, k \in Keys : Call(s, k)
  \/ \E s \in Sessions : Sweep(s) \/ Trip(s) \/ CommitWrite(s) \/ Rollback(s)
  \/ Restart \/ Tick
-----------------------------------------------------------------------------
(* Properties. *)

(* A node on probation is one whose last failure the breaker remembers: no
   success, restart or late answer of the database leaves one without. *)
HalfOpenHasFailure == \A k \in halfOpen : failedAt[k] # Never
=============================================================================
