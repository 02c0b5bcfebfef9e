------------------------------- MODULE Payout -------------------------------
(***************************************************************************)
(* The monthly payout of the node operators (core/billing/payout.py): a    *)
(* run asks for the nodes with completed jobs in a month, adds up each     *)
(* node's jobs, and allocates the earnings under a reference made of node  *)
(* and month.  Runs may overlap, be repeated, name any day of the month,   *)
(* and come before it is over.                                             *)
(*                                                                         *)
(* Jobs are updated meanwhile, by sessions that load the row of a job that *)
(* is not COMPLETED, take the time, and write both to it when they commit, *)
(* whatever it has become: a job can be COMPLETED again, at another time   *)
(* or node.  homes remembers where it was, to speak of.                    *)
(*                                                                         *)
(* The ledger below is allocate_credits as CreditLedger has it, cut down   *)
(* to its references.  Of an amount the model keeps whether it is zero: it *)
(* is the sum, at the prices of the moment, of the jobs a row remembers.   *)
(***************************************************************************)
EXTENDS Integers, Sequences

CONSTANTS
  NodeJobs, Nodes,
  Calendar,      \* the midnights and other moments at which things happen
  Payers,        \* runs that may be under way at the same time
  Updaters       \* sessions that may update jobs at the same time

Date == [year : Nat, month : 1..12, day : 1..31]
ASSUME CalendarAssumption == Calendar \in Seq(Date) /\ Calendar # <<>>

VARIABLES
  now,        \* a moment of the calendar
  nodeOf,     \* node_id of each job
  stamp,      \* completed_at of each job, NotYet before
  completed,  \* the jobs whose committed status is COMPLETED
  held,       \* per updater: the job it has loaded and the time it took
  free,       \* the jobs whose type has price zero
  run,        \* per payer: the run under way
  paid,       \* the committed payouts
  homes       \* history: the nodes and months in which each job was COMPLETED

jobCols == <<nodeOf, stamp, completed, homes>>
payoutVars == <<now, jobCols, held, free, run, paid>>

NotYet == 0
Ref(n, m) == [node |-> n, year |-> m.year, month |-> m.month]
Row(x, m) == [ref |-> Ref(x.node, m), jobs |-> x.jobs]

(* The parts of a run: date, nodes to add up, summaries to pay, the one whose
   row is to be inserted, rows not committed yet. *)
Summary == [node : Nodes, jobs : SUBSET NodeJobs, earns : BOOLEAN]
NoRun == [at |-> "off", date |-> Calendar[1], nodes |-> {}, sums |-> {}, next |-> {}, rows |-> {}]

Refs == [node : Nodes, year : Nat, month : 1..12]
PaidRow == [ref : Refs, jobs : SUBSET NodeJobs]
NoUpdate == <<>>
Running ==
  [at : {"off", "report", "pay", "insert"}, date : Date, nodes : SUBSET Nodes,
   sums : SUBSET Summary, next : SUBSET Summary, rows : SUBSET PaidRow]

PayoutTypeOK ==
  /\ now \in DOMAIN Calendar
  /\ nodeOf \in [NodeJobs -> Nodes]
  /\ stamp \in [NodeJobs -> NotYet..Len(Calendar)]
  /\ completed \subseteq NodeJobs /\ free \subseteq NodeJobs
  /\ held \in [Updaters -> {NoUpdate} \cup (NodeJobs \X DOMAIN Calendar)]
  /\ homes \in [NodeJobs -> SUBSET Refs]
  /\ run \in [Payers -> Running]
  /\ paid \subseteq PaidRow

-----------------------------------------------------------------------------
(* _month_boundaries *)
FirstDay(d) == [d EXCEPT !.day = 1]
NextMonth(d) == LET f == FirstDay(d) IN
  IF f.month = 12 THEN [f EXCEPT !.year = @ + 1, !.month = 1] ELSE [f EXCEPT !.month = @ + 1]

Before(a, b) ==
  \/ a.year < b.year
  \/ a.year = b.year /\ a.month < b.month
  \/ a.year = b.year /\ a.month = b.month /\ a.day < b.day

(* A variant: completed_at <= next_month. *)
InMonthInclusive(j, d) == stamp[j] # NotYet
  /\ ~Before(Calendar[stamp[j]], FirstDay(d)) /\ ~Before(NextMonth(d), Calendar[stamp[j]])

InMonth(j, d) == stamp[j] # NotYet
  /\ ~Before(Calendar[stamp[j]], FirstDay(d)) /\ Before(Calendar[stamp[j]], NextMonth(d))

JobsOf(n, d) == {j \in completed : nodeOf[j] = n /\ InMonth(j, d)}

Today == Calendar[now]
Proceed(p, at) == run' = [run EXCEPT ![p].at = at]

-----------------------------------------------------------------------------
(* execute_payouts: _get_active_node_ids first. *)
Start(p, i) ==
  /\ run[p] = NoRun
  /\ i \in 1..now
  /\ run' = [run EXCEPT ![p] = [NoRun EXCEPT !.at = "report", !.date = Calendar[i],
               !.nodes = {n \in Nodes : JobsOf(n, Calendar[i]) # {}}]]
  /\ UNCHANGED <<now, jobCols, held, free, paid>>

(* calculate_earnings: the node's jobs and their prices, as they are by now. *)
CalculateEarnings(p, n) ==
  LET jobs == JobsOf(n, run[p].date) IN
  /\ run[p].at = "report" /\ n \in run[p].nodes
  /\ run' = [run EXCEPT ![p].nodes = @ \ {n},
               ![p].sums = @ \cup {[node |-> n, jobs |-> jobs, earns |-> ~(jobs \subseteq free)]}]
  /\ UNCHANGED <<now, jobCols, held, free, paid>>

ReportDone(p) ==
  /\ run[p].at = "report" /\ run[p].nodes = {}
  /\ Proceed(p, "pay")
  /\ UNCHANGED <<now, jobCols, held, free, paid>>

Found(p, x) == \E r \in paid \cup run[p].rows : r.ref = Ref(x.node, run[p].date)

(* Nothing earned, or a row found under the reference: on to the next node. *)
Skip(p, x) ==
  /\ run[p].at = "pay" /\ x \in run[p].sums
  /\ ~x.earns \/ Found(p, x)
  /\ run' = [run EXCEPT ![p].sums = @ \ {x}]
  /\ UNCHANGED <<now, jobCols, held, free, paid>>

NoneFound(p, x) ==
  /\ run[p].at = "pay" /\ x \in run[p].sums
  /\ x.earns /\ ~Found(p, x)
  /\ run' = [run EXCEPT ![p].at = "insert", ![p].next = {x}, ![p].sums = @ \ {x}]
  /\ UNCHANGED <<now, jobCols, held, free, paid>>

(* The INSERT waits while another run's row with the reference is there. *)
Insert(p, x) ==
  LET others == UNION {run[q].rows : q \in Payers \ {p}} IN
  /\ run[p].at = "insert" /\ x \in run[p].next
  /\ \A r \in paid \cup others : r.ref # Ref(x.node, run[p].date)
  /\ run' = [run EXCEPT ![p].at = "pay", ![p].next = {}, ![p].rows = @ \cup {Row(x, run[p].date)}]
  /\ UNCHANGED <<now, jobCols, held, free, paid>>

(* That run has committed: the rollback takes this one's earlier rows along. *)
Conflict(p, x) ==
  /\ run[p].at = "insert" /\ x \in run[p].next
  /\ \E r \in paid : r.ref = Ref(x.node, run[p].date)
  /\ run' = [run EXCEPT ![p].at = "pay", ![p].next = {}, ![p].rows = {}]
  /\ UNCHANGED <<now, jobCols, held, free, paid>>

(* Every node is through, and the caller commits. *)
Commit(p) ==
  /\ run[p].at = "pay" /\ run[p].sums = {}
  /\ paid' = paid \cup run[p].rows
  /\ run' = [run EXCEPT ![p] = NoRun]
  /\ UNCHANGED <<now, jobCols, held, free>>

(* An error anywhere, or the end of the process. *)
Abandon(p) ==
  /\ run[p] # NoRun
  /\ run' = [run EXCEPT ![p] = NoRun]
  /\ UNCHANGED <<now, jobCols, held, free, paid>>

-----------------------------------------------------------------------------
(* update_job_status, cancel_job and schedule_retry find a job that is not
   COMPLETED and take the time. *)
Load(u, j) ==
  /\ held[u] = NoUpdate /\ j \notin completed
  /\ held' = [held EXCEPT ![u] = <<j, now>>]
  /\ UNCHANGED <<now, jobCols, free, run, paid>>

Holds(u) == held[u] # NoUpdate
Releases(u) == held' = [held EXCEPT ![u] = NoUpdate]
UpdatedJob(u) == held[u][1]
TimeTaken(u) == held[u][2]

(* The commit of COMPLETED, the first or not. *)
Complete(u) ==
  /\ Holds(u)
  /\ stamp' = [stamp EXCEPT ![UpdatedJob(u)] = TimeTaken(u)]
  /\ completed' = completed \cup {UpdatedJob(u)}
  /\ homes' = [homes EXCEPT ![UpdatedJob(u)] =
                 @ \cup {Ref(nodeOf[UpdatedJob(u)], Calendar[TimeTaken(u)])}]
  /\ Releases(u)
  /\ UNCHANGED <<now, nodeOf, free, run, paid>>

(* The commit of any other status: FAILED has a completed_at too, a retry may
   have another node. *)
Reopen(u, n) ==
  /\ Holds(u)
  /\ stamp' \in {stamp, [stamp EXCEPT ![UpdatedJob(u)] = TimeTaken(u)]}
  /\ nodeOf' = [nodeOf EXCEPT ![UpdatedJob(u)] = n]
  /\ completed' = completed \ {UpdatedJob(u)}
  /\ Releases(u)
  /\ UNCHANGED <<now, homes, free, run, paid>>

(* The update raises, or its session is rolled back. *)
Drop(u) ==
  /\ Holds(u)
  /\ Releases(u)
  /\ UNCHANGED <<now, jobCols, free, run, paid>>

(* get_job_price depends on rows of job_pricing that come and go. *)
Reprice(j) ==
  /\ free' = IF j \in free THEN free \ {j} ELSE free \cup {j}
  /\ UNCHANGED <<now, jobCols, held, run, paid>>

Passes ==
  /\ now < Len(Calendar)
  /\ now' = now + 1
  /\ UNCHANGED <<jobCols, held, free, run, paid>>

PayoutInit ==
  /\ now = 1
  /\ nodeOf \in [NodeJobs -> Nodes]
  /\ stamp = [j \in NodeJobs |-> NotYet] /\ completed = {}
  /\ homes = [j \in NodeJobs |-> {}]
  /\ held = [u \in Updaters |-> NoUpdate]
  /\ free = {}
  /\ run = [p \in Payers |-> NoRun]
  /\ paid = {}

Pay(p) ==
  \/ \E i \in DOMAIN Calendar : Start(p, i)
  \/ \E n \in Nodes : CalculateEarnings(p, n)
  \/ \E x \in run[p].sums : Skip(p, x) \/ NoneFound(p, x)
  \/ \E x \in run[p].next : Insert(p, x) \/ Conflict(p, x)
  \/ ReportDone(p) \/ Commit(p) \/ Abandon(p)

Update(u) ==
  \/ \E j \in NodeJobs : Load(u, j)
  \/ \E n \in Nodes : Reopen(u, n)
  \/ Complete(u) \/ Drop(u)

PayoutNext ==
  \/ \E p \in Payers : Pay(p)
  \/ \E u \in Updaters : Update(u)
  \/ \E j \in NodeJobs : Reprice(j)
  \/ Passes

PayoutSpec == PayoutInit /\ [][PayoutNext]_payoutVars
-----------------------------------------------------------------------------
(* Properties. *)

(* A payout is for jobs that were COMPLETED at its node in its month, and
   there is one for a node and a month: no completion is paid twice, whatever
   days the runs named, however they overlapped and failed, and however jobs
   changed under them. *)
NoCompletionPaidTwice == \A r \in paid :
  /\ \A j \in r.jobs : r.ref \in homes[j]
  /\ \A q \in paid : r # q => r.ref # q.ref
=============================================================================
