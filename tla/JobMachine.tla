----------------------------- MODULE JobMachine -----------------------------
(***************************************************************************)
(* The life of a job as VALID_TRANSITIONS draws it, with no database: what *)
(* a client polling the job may see from one poll to the next.             *)
(***************************************************************************)
EXTENDS Naturals

CONSTANTS Jobs, MaxRetries

VARIABLES
  state,     \* a status for each job, "none" before it exists
  retries,   \* how often each job was retried
  buried     \* the jobs in the dead letter queue

Transitions == {<<"QUEUED", "DISPATCHED">>, <<"QUEUED", "FAILED">>,
                <<"DISPATCHED", "RUNNING">>, <<"DISPATCHED", "FAILED">>,
                <<"DISPATCHED", "QUEUED">>,
                <<"RUNNING", "COMPLETED">>, <<"RUNNING", "FAILED">>}

Unfinished == {"QUEUED", "DISPATCHED", "RUNNING"}

Stays(j) == state'[j] = state[j] /\ retries'[j] = retries[j]

Created(j) == state[j] = "none" /\ state'[j] = "DISPATCHED" /\ retries'[j] = 0

Moved(j) == /\ <<state[j], state'[j]>> \in Transitions
            /\ retries'[j] = retries[j]

(* Requeued by a report, as often as one comes. *)
Requeued(j) == /\ state[j] \in {"DISPATCHED", "FAILED"}
               /\ state'[j] = "QUEUED"
               /\ retries'[j] = retries[j] + 1

(* Failed and queued again at once: one retry of the few. *)
Retried(j) == /\ state[j] \in Unfinished
              /\ state'[j] = "QUEUED"
              /\ retries'[j] = retries[j] + 1
              /\ retries'[j] <= MaxRetries

(* Only a FAILED job with no retries left is given up. *)
GivenUp(j) == j \in buried' \ buried => retries'[j] >= MaxRetries /\ state'[j] = "FAILED"

Lives(j) == /\ Stays(j) \/ Created(j) \/ Moved(j) \/ Requeued(j) \/ Retried(j)
            /\ GivenUp(j)
=============================================================================
