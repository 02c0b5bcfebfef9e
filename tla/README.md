# A verification project for RenderTrust

RenderTrust is a Python gateway (`core/`) that sells credits, dispatches compute
jobs to edge nodes and anchors its ledger on a chain; an edge runtime
(`edgekit/`) that runs the jobs; an SDK, a frontend and operations material.
This directory holds TLA+ models of the parts whose difficulty lies in what
happens *between* steps: database sessions that interleave, pushes that are not
part of a transaction, connections that die unnoticed, a chain that may or may
not have taken what it was sent, a page whose calls come back late. TLC checks small
instances, TLAPS proves the main results for every value of the constants.

    tlc -config MCLedgerShared.cfg MCCreditLedger.tla     # a run
    tlapm CreditLedgerProofs.tla                          # the proofs

## 1. Inventory

Every part of the repository, modelled or not, is a component in
`PROJECT.json`, which also lists the hazards at the lines where they bite. The
parts with state and behaviour of their own:

| part | state | operations | hard because | correct when |
|---|---|---|---|---|
| credit ledger (`core/ledger/service.py`) | append-only rows with a running balance; UNIQUE(reference, direction) | `allocate_credits`, `deduct_credits`, `get_balance` | sessions interleave at each statement; duplicates, retries, rollback | a reference counts once, balances add up, nobody overspends, an answered request is durable |
| its callers (`billing/`, `api/v1/credits.py`) | none | Stripe webhook, `/credits/deduct`, usage charge, monthly payout | delivery at least once; several calls in one transaction | what they report is what was committed |
| job dispatch (`scheduler/dispatch.py`) | job rows, `queue:node:*` in Redis | `dispatch_job` | push before commit, Redis may be down | the node assigned has been told |
| job lifecycle (`job_service.py`, `retry.py`) | status, retry count, times; dead letters | `update_job_status`, `cancel_job`, `schedule_retry`, `move_to_dlq` | read, decide, write without a lock | only valid transitions, bounded retries, terminal means terminal, given up means given up |
| circuit breaker, node health (`circuit_breaker.py`, `scheduler/service.py`) | counters in memory, node status in the database | register, heartbeat, staleness, record failure / success, probe, redistribute | three writers of one status; memory lost on restart | who is on probation has failed; a node that beats recovers |
| enrolment (`edgekit/cli/register.py`) | key files, `config.json` | `register`, `--force` | interrupted anywhere, an answer lost or late | the configuration names a row there is |
| autoscaler (`scheduler/autoscale.py`) | time of the last event per direction, in memory | `check_and_scale` | checks overlap at the await that publishes; Redis may fail | the cooldown is kept |
| monthly payout (`billing/payout.py`) | none; reads jobs and prices, writes the ledger | `execute_payouts` | any day, overlapping; jobs complete, reopen and complete again meanwhile | nothing is paid twice |
| relay gateway (`core/relay/`) | `node_id -> WebSocket`; a handler and a heartbeat task per connection | connect, disconnect, send, ping | tasks interleave at awaits; a node is back before its loss is noticed | the manager finds a connected node; only dead connections time out, or those whose node is too busy |
| relay client and executor (`edgekit/relay`, `edgekit/workers`) | the connection, the job under way | receive, acknowledge, run, reconnect | the job is awaited in the receive loop | pings are answered, jobs reported in order, the client comes back |
| anchoring (`core/ledger/anchor`, `rollup_anchor`) | unanchored entries, anchor records, chain | fetch, submit, save | the chain is outside the transaction | records match the chain, entries are anchored and stay so, at most the failed cycles' roots are wasted; proofs verify |
| authentication (`core/auth`, `api/v1/auth.py`) | token blacklist and counters in Redis | register, login, refresh, logout, limit | fails open; two Redis calls where one is meant | a revoked token stays revoked, a limit ends |
| frontend session (`frontend/src`) | tokens in memory and in storage, the page of a job | request, refresh, login, logout, timer, poll | two kinds of refresh at once; logout in between; loads overlap | signed out stays signed out; a page never goes back |
| SDK (`sdk/python`), job endpoints, storage | the token, a file per result | login, submit, get, list, cancel, download | a URL that expires, an object that goes, a stream that breaks | what is returned is a whole result |

How they interact: the ledger's functions run inside their caller's session and
the caller commits. `schedule_retry` and `record_failure` call
`update_job_status`, `find_best_node` and `redistribute_jobs` inside one
session. The gateway reaches a node through `ConnectionManager.send_to_node`;
the node's answers come in on the same WebSocket and are, in this version, only
logged. Redis holds the queues, the blacklist and the counters, and every use of
it fails open.

Several functions have no caller in `src/` but the tests (`update_job_status`
other than through retries, `schedule_retry`, the breaker, `mark_stale_nodes`,
`execute_payouts`, the autoscaler). They are modelled as what their interface
offers: any session may call them, in a transaction of its own.

## 2. Modules

| module | what it is |
|---|---|
| `Bank` | abstract: a growing set of entries, a reference counts once, no user overspends |
| `CreditLedger` | the ledger's functions statement by statement in interleaving sessions |
| `CreditLedgerProofs` | its theorems |
| `JobMachine` | abstract: the life of a job as `VALID_TRANSITIONS` draws it |
| `Scheduler` | dispatch, reports, cancels, retries, burials and redistribution in sessions |
| `SchedulerProofs` | its theorems |
| `RelayConnection` | one node's connections: gateway handlers, heartbeats, manager, client, executor |
| `Merkle` | the gateway's Merkle tree as pure operators |
| `MerkleWalk` | one proof request loop by loop: build, `get_proof`, `verify_proof` |
| `AnchorBundler` | the bundler's cycle, its tables and the chain |
| `Anchoring` | `AnchorBundler` and `MerkleWalk` composed: the proof endpoint over the bundler's tables |
| `MerkleProofs`, `AnchoringProofs` | their theorems |
| `DataFacts` | lemmas the proofs share: induction, finite sets, sequences |
| `NodeHealth` | rows of nodes, heartbeats, the sweep and the circuit breaker in sessions |
| `Fleet` | `NodeHealth` composed with a node's `register` command and its files |
| `FleetProofs` | their theorems |
| `AuthGateway` | tokens, blacklist and rate limiter behind the auth endpoints |
| `FrontendSession` | a window of the frontend: API client, AuthProvider, the page of a job |
| `SdkClient` | a script's tasks, the job endpoints and the storage they use |
| `Payout` | payout runs over months, jobs and prices |
| `Autoscaler` | overlapping checks of the fleet's load |
| `PartProofs` | the theorems of these five |
| `MCCreditLedger`, `MCScheduler`, `MCRelayConnection`, `MCAnchoring`, `MCFleet`, `MCParts` | the instances for TLC |

Definitions named as a variant ("A variant: ...") stand before the operator they
vary. No specification uses them: each is a plausible bug, and the runs'
properties fail when it takes the operator's place.

### CreditLedger

`prog[s]` is the sequence of calls session `s` makes in one request, `step[s]`
the current one and `pc[s]` its next statement. The actions follow the code from
top to bottom: `RefuseAmount`, the idempotency SELECT (`FindExisting`,
`MissExisting`), the SELECT ... FOR UPDATE in its two halves (`ReadLast` picks
the row from the statement's snapshot, `LockLast` waits for its lock),
`RefuseOverdraft`, the flush (`SendInsert` draws the row's created_at, its `at`,
then `Insert`, or `InsertConflict` when the table refuses the row), the except
branch (`Recover` finds the entry, `RecoverNothing` raises), the caller's
`Commit`, and `Fail` for a crash or error at any point.

PostgreSQL is external and modelled from what the code asks of it: READ
COMMITTED (the engine sets no other level), row locks held to the end of the
transaction, a unique index on which an INSERT waits for another session's
uncommitted key, the CHECK on the balance and the foreign key to users
(`Rejected`), and the abort of a session that waits in a circle
(`DeadlockAbort`). Stamps come from one clock without ties. Amounts are
integers. `Users` are the ids entries are booked under and `Accounts` those of
them that are users: payouts book under a node's id, which is none.

`overtaken` is a history variable: the users for whom another session committed
rows after this one had picked its base row for them and before it commits.

### Scheduler

A session loads rows (`LoadReport`, `LoadCancel`, `LoadRetry`,
`LoadRedistribute`; `Dispatch` creates one), flushes (`Flush`, which takes the
row locks and for a retry picks the node), perhaps pushes (`Push`, or `PushLost`
when Redis is down), and commits or rolls back. `Written` says which columns a
call writes: SQLAlchemy updates those whose value changed from what was
*loaded*, so `Requeued`, `Buried` and `TakenBack` take both the committed row
and the loaded one. Timestamps and texts are reduced to whether they are set; a
report of COMPLETED is taken to come with a result. A report can be of any
status, `QUEUED` included: `update_job_status` requeues a DISPATCHED or FAILED
job and counts a retry, whatever its count is and wherever it has been buried. Nodes become healthy and
cease to be at any time. `find_best_node` answers with any healthy node, since
loads are arbitrary.

### RelayConnection

One node, since the manager keeps one entry per node and nodes share nothing
else. Per connection: the link, the handler `relay_websocket`, its heartbeat
task and the event `last_pong`, and the frames under way in each direction. The
client has one connection at a time and is receiving, or in a job: `AckJob`,
`StartJob` and `FinishJob` are separated by the awaits of the code, and while a
job is under way nothing else is received. `Cut` kills a connection at any time;
the gateway's `Disconnected` and `Leave` and the client's `Lost` then happen
independently, and `Connect` may come before them.

The 90 s pong window is not counted in seconds but in jobs: `JobsInWindow` of
them in a row end within it. `SendPing` compares that number with the jobs that
are before the ping (`Before`: those in the channel and the one under way) and
keeps the verdict in `late`. `PongTimeout` is enabled when no answer can still
arrive in time: no pong is under way, and either no ping is or the ping is
`late`. A ping frame is taken to be sent without suspending the task between
`send_json` and `last_pong.clear()`.

### Merkle, MerkleWalk, AnchorBundler, Anchoring

A hash is the term it was computed from, so SHA-256 is taken to be free of
collisions. `Merkle` has the tree as a fold over rounds, which is what the
bundler's `Root` is; `MerkleWalk` has the loops themselves (`Build`, `Note`,
`Fold` are rounds of `_build`, `get_proof`, `verify_proof`). That the loop builds
what the fold returns is a theorem. `Sorted` chooses the increasing sequence of a
set's elements.

`AnchorBundler` cuts a cycle where something can come between: the SELECT
(`Fetch`), the nonce (`BuildTransaction`), `send_raw_transaction` (`Send`,
`SendRefused`), the receipt (`Receive`, `Timeout`), `save_anchor` (`Save`).
`Interrupt` is any error, a receipt that came too late, or the end of the process;
all of them end the cycle and leave the chain as it is. `Post` commits entries in
any order of their ids. The chain is external: it mines the transaction with the
next nonce or drops it (`Mine`, `Evict`), and a transaction may replace the
waiting one with the same nonce. `Timeout` is the case of a transaction that is
gone; giving up on one that is still waiting is an `Interrupt` and counted.
`anchorRoot` reverts only for an empty root or no entries, which the code never
sends, so a receipt means success (the code does not look at its status).

`EntryRepository` is a protocol without an implementation in `src/`, and nothing
starts the loop; the model takes it to do what its docstrings say. They promise
no order: `Fetch` takes any sequence of up to `BatchSize` entries without an
anchor, `BuildTransaction` hashes it as it is, and `orders` remembers it. The
proof endpoint sorts by id, whatever that order was. A cycle anchors one batch,
whatever the docstring of `_run_once` says of several. While a request walks the
tree, nothing else moves: between `AnchoringService.get_proof` and the answer
there is no await, and a step of the chain or of another process touches nothing
the walk reads. What the client does with the proof, `verify_proof`, is taken to
follow at once.

### NodeHealth, Fleet

A row per public key has a status and the age of its last heartbeat; the
breaker's three dictionaries are the memory of the process. A session reads
(`BeginRegister`, `BeginBeat`, `Sweep`, `CheckNodeHealth`), and later writes what
it decided (`CommitRegister`, `CommitBeat`, `CommitWrite`): an UPDATE holds its
row's lock up to the commit, so the two are one step. What the breaker changes
in memory it changes before an await (`RecordFailure`, `RecordSuccess`) or after
one (`Trip`, `ProbeDecided`), and no rollback takes it back. `Restart` loses it.
Jobs, and so failures, come only to a node that was HEALTHY once. `Trip` stands
for the UPDATE and the redistribution, which Scheduler has.

`Fleet` adds the `register` command: a key pair (`RunRegister`), the request
(`Post`), the answer (`Answered`), `config.json` (`SaveConfig`, or `TearConfig`
when the process ends within the write), and `GiveUp` anywhere. An answer may
arrive after the command has given up, or be lost with the gateway. `Heartbeat`
is sent by whoever holds a configuration; no code in `edgekit/` does that yet.

### AuthGateway

A request passes the limiter of its path (`Incr`, `Expire`, `TooMany`,
`FailOpen`: four Redis calls), is decoded (`Decode`) and looked up in the
blacklist (`Lookup`), and ends in its endpoint (`CurrentUser`, `Refresh`,
`Register`, `Login`, `Revoke`, `IssueTokens`). Time runs in half seconds, because
the two clocks differ by less than a second: `jose` accepts a token to the end of
the second of its exp, an entry of the blacklist ends whole seconds after it was
made. Redis may stop answering and answer again, with what it had.

### FrontendSession

JavaScript runs to the next await, so a step is what a function does between two
awaits: `doRefresh` of the API client (`api`), that of the AuthProvider (`own`),
`login`, `logout`, and the loads of a page (`call`). Of a token only its presence
is kept; any call may be refused. `current` is the load whose effect has not
been cleaned up, the `cancelled` flag of the others. `Reload` opens the window
anew. The secure storage takes one token per await and does not fail.

### SdkClient

A task's call is sent, carried out by the gateway and answered in separate
steps; `Raise` may come after any of them, so a call that was carried out can
look like one that was not. A job is moved, by `Cancel` and `Cancelled` or by
`JobLoaded` and `JobMoved`, in two steps: what was decided on a loaded row is
written over whatever the row has become, so that a job leaves COMPLETED too,
as `scheduler_racing` has it happen. `Open`,
`WriteChunk`, `Downloaded` and `StreamBreaks` are the second step of
`download_result`, from a URL that expires for an object that may be gone. No
two tasks download one job at a time: they would write the same file.

### Payout

A run asks for the nodes of a month, adds up their jobs one node per query
(`CalculateEarnings`), and allocates (`Skip`, `NoneFound`, `Insert`, `Conflict`)
under the reference of node and month; its caller commits. `allocate_credits`
is the one of CreditLedger, reduced to its references; node ids are taken to be
account holders' (otherwise a run ends in `Abandon`, section 5). Jobs
are updated by sessions that `Load` a job that is not COMPLETED and take the time,
and later `Complete` or `Reopen` it, whatever it has become: `completed_at`, node
and status are written again and again. `homes` remembers where and when each job
was COMPLETED. Of an amount the model keeps which jobs it pays and whether it is
zero.

### Autoscaler

`Beyond` is the comparison of the average load with the two thresholds,
`BeginCheck` a check that goes past them and past the cooldown, `Publish` or
`RedisFails` the await, `StampWay` what follows it. `eventAge` is a history: the
age of the last event each check published. `RestartScaler` is a new process
(or `reset`).

## 3. Runs

| run | instance | shows |
|---|---|---|
| `ledger_shared` | 3 sessions, 2 users and an id that is none, 3 references, any of five requests | the invariants of the rows, and the `Bank`'s promise but for overtaken commits |
| `ledger_disjoint` | 2 sessions, one per user, requests of one or two calls | exact balances, the refinement of `Bank` |
| `ledger_crossing` | 2 payout runs of 2 nodes each, in any order | termination through deadlocks; what spoils a balance |
| `ledger_racing` | 2 sessions, one user | `BalanceExact` fails: a lost update |
| `ledger_payout` | 2 payout runs | `AckedIsDurable` fails: rolled back, reported paid |
| `scheduler_overlap` | 1 job, 2 nodes, 2 sessions doing everything | the queues; what holds, and what alone goes wrong, when calls overlap |
| `scheduler_racing` | 1 job, 2 nodes, 2 sessions doing everything | `ResultIsFinal` fails: a stale write over COMPLETED |
| `relay_prompt` | 2 connections, 1 job assigned any number of times, one job fits the window, two do not | registration, heartbeat, report order, liveness |
| `relay_reconnect` | 2 connections | `Reachable` fails: the old handler unregisters the new connection |
| `anchoring` | 3 entries, batches of up to 3, two failures, proofs asked for at any time | records against the chain, roots against tables, proofs, the backlog drains |
| `fleet` | 2 keys, 2 sessions, threshold 2, one tick of recovery and of staleness | configuration against rows, probation, recovery by heartbeats |
| `parts` | five parts side by side, see the bounds | tokens, limiter, window, page, downloads, payouts, scaling |

**What the ledger runs say.** With no assumption on who is served when, a
reference takes effect once per direction, an answered single-call request is in
the table, every committed balance continues a committed balance of the same
user, and the except branch of an account holder's call finds what it looks for.
What does *not* hold without assumption is that the balance is the sum of the
entries: FOR UPDATE on a row that is never updated serialises the sessions
without refreshing what they read (`ledger_racing`). `SpoiltOnlyByOvertaken` and
`BankUnlessOvertaken` say how far that goes: an exact balance becomes wrong, and
a user is overdrawn, by the commit of a session that was overtaken between its
SELECT and its commit, and by no rollback, retry, conflict, deadlock or crash.
With one session per user at a time (`ledger_disjoint`, references still shared)
there is no such commit, the sum is exact and the ledger implements `Bank`; nothing
in the code serves users that way. Requests end although payout runs wait for each
other in a circle: one of them is aborted (`ledger_crossing`). `ledger_payout`
concerns the only caller that makes several calls per transaction.

**What the scheduler runs say.** With any sessions: a finished job has its time,
the node a job is assigned to has been told unless Redis was down,
`schedule_retry` exceeds no limit (a report that requeues does), the columns of a
row tell one story and every step is one of `JobMachine`'s, unless a session writes
a row that was overwritten since it was loaded. Sessions that take turns on a job
write no such row, so what clients then see is `JobMachine`. Its life of a job is
weaker than the docs: a report may requeue a FAILED job as often as it comes, a
buried one too. A stale decision overwrites COMPLETED (`scheduler_racing`).

**What the relay runs say.** The heartbeat closes no connection but those that the
network has cut and those whose node had more jobs before the ping than end within
the window; at most one heartbeat is under way per connection, the manager never
holds a connection without a handler, jobs are reported one at a time and in order,
dead handlers end and the node gets a live connection back, also when it was closed
because a ping waited behind too many jobs. A node that reconnects before the
gateway has noticed is unregistered by the handler of its old connection, though
(`relay_reconnect`).

**What the anchoring runs say.** A record is of a transaction the chain has, and
of its own; the entries linked to a record are those its root was hashed from,
however out of order they were committed; an entry's anchor never changes; the
chain holds no more roots without a record than cycles were cut short (an entry
may be anchored twice *on chain* then: the code has no idempotency there, and none
of the docs promises it); a proof convinces of its entry and of no other; and the
backlog drains again and again. The proof leads to the recorded root if the batch
was fetched in the order of the ids, and need not otherwise: the endpoint's
"ordered by id for determinism" has no counterpart on the anchoring side.

**What the fleet run says.** A configuration on a node names a row the gateway
has committed, and its key pair is complete, wherever the command or the gateway
was cut short: the gateway commits before it answers and the command saves only
what was answered. A node is on probation only while the breaker remembers its
failure, although the memory is changed on both sides of awaits. A node whose
heartbeats are taken again and again does not stay UNHEALTHY, whoever wrote that
status.

**What the run of the parts says.** The parts share no state; a behaviour of
`MCParts` is one of one part, chosen at the start, so that one run checks all
five, each at the size it would have alone. A revoked token is refused whenever
Redis answers, but for its last second (the entry's life is cut down to whole
seconds); a limiter's counter ends unless its EXPIRE was lost. A window signed
out with nothing under way stays so; with a refresh under way it does not (see
section 5). A page never shows an older state. `download_result` returns with the
whole result of a job that was COMPLETED with one, or not at all: the job may have
left that status since, and a broken download leaves part of a file, in place of
an earlier good one. A payout is for jobs that were COMPLETED at its node in its
month, and there is one per node and month, however runs and updates overlap. A
*job*, though, may be COMPLETED twice, in two months or at two nodes, and is then in
two payouts. Some completions are in none: a run before the end of its month uses up
the reference, and a job stamped before a run and committed after it is missed. An
autoscaler's check keeps the cooldown against its own events; overlapping ones each
publish theirs.

### Bounds

* `MaxStamp` and `Room` (CreditLedger): created_at stamps. A request that may need
  stamps begins only while `Room` of them are left, as many as the requests under
  way can draw together, so that no session is ever stuck for want of one. What
  failures use up is not available to later requests, hence the slack in
  `MaxStamp`; a request whose every call finds its entry needs no stamp and
  always begins.
* Three sessions are what a lost update with a bystander needs; the references
  are fewer than the requests, so that keys collide within and across users.
  `ledger_crossing` has two users and two references per request, in both orders:
  circles of row locks and circles of references both form.
* `MaxRetries = 1` reaches every step of a retry and the dead letter queue.
  `MaxRequeued = 2` stops *reports* from requeueing a job whose count has got
  there: the count passes `MaxRetries`, and stays finite. Of
  a node's queue and of the dead letters the model keeps which jobs they have
  named, not how often. One job is enough for any two calls to meet on a row, two
  nodes for a retry to move it; calls on different jobs share nothing but the nodes'
  health, and redistribution of any number of jobs is in the proofs.
* `JobsInWindow = 1` (RelayConnection) has a ping that is answered in time behind
  one job and one that is not behind two, so that the server also closes live
  connections.
* `MaxBacklog` limits the messages under way when another job is *assigned*;
  pings and the node's messages are not limited. 1 lets an assignment wait while
  another job is under way and a ping wait behind both. Two connections
  are the dying one and its successor; a connection can be used again once all
  is over with it.
* `MaxFailures = 2` (AnchorBundler) limits the cycles cut short and the
  transactions dropped: one leaves a root on the chain without a record, a nonce
  that is out of date or a replacement, two let a second follow on what the first
  has left. Three entries in batches of up to three give one, two or three records,
  batches that leave entries behind, and trees of one, two and three leaves, the odd
  one with a last node paired with itself. A proof is checked against each of the
  entries and against a leaf that is none.
* `Fleet`: two keys are an enrolled node and its re-registration with `--force`,
  or two nodes; a key is used once. Two sessions race on one row. `FailureThreshold
  = 2` has a count below the threshold; one tick is the least that tells recent
  from long ago, twice.
* `AuthGateway`: two tokens are the pair one login issues, and each other's
  replacement; `Life = 2` seconds has whole, half and last seconds, `MaxRequests
  = 1` a request at, above and below the limit. `Path` is `refresh`, the one whose
  requests go on to a token; the others differ in what follows.
* `FrontendSession`: two loads, one overtaking the other; a job with two states.
* `SdkClient`: two tasks and one session that moves the job beside them, one job,
  two chunks: a stream that breaks in the middle. A task calls `cancel_job` only
  when its last one is through at the gateway.
* `Payout`: a job whose updates overlap in two sessions, two nodes it moves
  between, two runs, a calendar of a day in December and the midnight of the year's
  end, which is the first moment of the month after.
* `Autoscaler`: two checks, two nodes with load 0, 50, 100 or down, so that
  averages fall below, between and above the thresholds; `Cooldown = 2` has a
  moment at which it is half over.

### Symmetry, deadlock

Sessions (where they may make the same requests), nodes, and a payout's nodes, runs
and updaters are symmetric in the runs that check only safety; runs with liveness
use none. Deadlock is checked in every run.

### Fairness

* CreditLedger: strong fairness of each session's own steps. PostgreSQL queues
  waiters for a row lock or a unique key and breaks circles of them after
  `deadlock_timeout`, and a request that has begun is driven to its end by the
  event loop. Nothing is assumed of requests or failures.
* RelayConnection: weak fairness of each task's steps. asyncio runs a task that
  is ready; timers fire; a job ends because `wait_for` limits it; the client's
  loop keeps trying to connect and some attempt succeeds. Nothing is assumed of
  cuts or assignments.
* Anchoring: strong fairness of the chain and of the bundler's cycle *between
  requests*, weak fairness of a request under way. The loop sleeps and runs
  again for ever, the event loop gives its task a turn among requests, the chain
  mines what it keeps, and only finitely many cycles fail (`MaxFailures`):
  without that last assumption the backlog need not drain.
* Fleet: none is assumed of the gateway. `BeatingNodesRecover` has its premise in
  itself: *if* heartbeats of a node are committed again and again, it recovers.
* Scheduler: no liveness is stated. Nothing in `src/` moves a job that was
  redistributed or dispatched into a lost push, so there is no fairness to
  assume for it.

## 4. Proofs

All theorems hold for any sets of sessions, users, jobs, nodes and entries (for
`Anchoring`, finitely many entries) and any bounds, under the named assumptions
on the constants.

**CreditLedgerProofs.** `TypeCorrect` is inductive as `TypeOK` stands.
`AppliedOnceHolds`: the unique index keeps flushed keys apart, so a session that
commits or inserts never meets its own key in another's rows; the strengthening
is that rows with equal keys are equal over committed and pending rows
together, and that pending rows of different sessions are apart.
`RecoveryFindsHolds` needs that no row's balance is negative, that a base row is
one of them, and that a credit is positive by the time it is inserted: then the
CHECK constraint refuses nothing, and what is left is the reference.
`AckedIsDurableHolds` is proved for single-call requests (`SingleCalls`, false
for payouts, where TLC refutes it): the invariant ties the label `commit` to the
call's key being committed or pending. `ChainGroundedHolds` needs the most: that
a session's base row is committed or its own pending row, and older than every
row flushed later, so that grounding survives the commits and the rollbacks of
all other sessions.

`SpoiltOnlyByOvertakenHolds` and `BankUnlessOvertakenHolds` assume nothing of who
is served when. `ExactInv` speaks of the sessions that nobody has overtaken for a
user: the base row such a session has read is still the newest of the rows it sees
(`ReadsLast`), stamps are apart (`Apart`), and where the committed balance of the
user is exact, so is that of what the session sees (`Follows`): its new balance is
the sum of those rows and the new one, and its commit takes the whole of it over.
So a commit that makes an exact balance wrong is an overtaken one. The sum over a
set is a fold; that adding a row adds its amount is proved by induction on the
number of rows. The Bank's other half, that entries only grow and a reference
counts once, comes from the unique index. `BalanceExact` and the refinement of
`Bank` under one session per user are TLC's.

**SchedulerProofs.** For any sessions making any calls: `TypeCorrect`,
`EndedHasTimeHolds` (per row and per loaded row: ended
whenever finished), `AssignedIsQueuedHolds` (a session past its push has pushed
or lost each job it writes; queues and the set of lost pushes only grow).
`CallsInv` keeps what each call checked of the rows it *loaded*, and that a job
being dispatched is nobody else's. From it `OnlyReportsExceedHolds`: a retry
loaded a count below the limit and writes one more. `CommitMoves` says what a
commit makes of a row that is still the one loaded: it moves it along
`VALID_TRANSITIONS`, keeps its status, or requeues it, and buries only a job out
of retries. `SpoiltOnlyByStaleRowsHolds` and `LegalUnlessStaleHolds` follow, the
latter being the step of a refinement of `JobMachine` wherever no stale row is
written.

**MerkleProofs.** `ProofsAreRight`, for batches of any length. The code forgets
the indices it passed on its way up, so the invariant says that there *is* a
path: from the leaf's index, halved at every level, with the noted sibling and
side of each of its nodes, and what `verify_proof` has computed is the path's
node exactly if the claimed leaf is the right one. A level is well-formed above
a well-formed one (`AboveIsLevel`), which carries the odd last node.
`TopIsRoot`: the levels that the loop grows are those that `Levels` folds. The loop
stops at one node and the fold goes on for as many rounds as there are leaves, so
the theorem needs that a level has fewer nodes than the one below
(`TreesHalve`): the loop is done in time, and further rounds change nothing
(`FoldIsTree`). That the recursively chosen function behind the fold exists is an
induction over its rounds (`GrowthExists`).

**AnchoringProofs.** `AnchorInvariant`: the entries a cycle holds have no anchor
yet, the transaction it has built speaks of them, and after `Receive` the chain
has it; whatever waits has the next nonce, so mining never overwrites.
`RecordsAreOnChain`, `RecordsAreRebuilt` (a record's root is that of the list it was
hashed from, and that list names the linked entries, each once) and
`EntriesStayAnchored` follow.
`WasteIsBounded` needs a count that also holds while a transaction waits:
mined plus waiting is at most recorded plus failures plus the cycle that waits.
`TypeCorrect` adds the shape of a cycle; that a built transaction is not the
empty one needs finite batches.

`SystemIsBundler` and `SystemIsWalk`: the composition's
steps are steps of each part or leave it alone, so the theorems above hold of
the composition (`SystemProofsAreRight`, `SystemRecordsHold`). The second needs
that a record's entries are finitely many and contain the entry asked for.
`ProofsLeadToAnchors` joins the two sides: a request is about the entries of one
record, in the order of their ids (`RequestsAreAsked`), the tree it grows has their
`Root` on top (`TopIsRoot`), which is the root in that record (`RootsRebuilt`) if the
batch was fetched in that order; that premise is part of the property. And the proof
is for the entry asked for (`ProofsAreForTheEntry`). That a finite set of ids can be
put in order at all, and that an id then comes after as many as are smaller, are
lemmas (`OrderExists`, `PlaceOf`);
`EntriesAssumption` says only that whatever can be anchored can be asked about.

**DataFacts.** The library's induction theorems take the predicate as a parameter,
which no backend here can instantiate. `Induction` therefore speaks of a *set* of
naturals with zero and the successor of each of its elements, and is proved from the
well-foundedness of < on Nat. The proofs define the set of those n for which the
claim holds of every set of up to n elements.

**RelayProofs.** For any number of connections, jobs and messages under way.
`RelayInvariant` follows the channels: where the link is down nothing is left for
the node, and where the handler is ending or gone nothing is left to read
(`Quiet`); a connection has at most one heartbeat out (`OneBeat`) and, on a live
link, the heartbeat that waits has its ping or its pong on the way (`Answered`),
so that a timeout means a cut or a ping that was late when it was sent (`OnlyCut`,
for any number of jobs in the window); and the last report sent is the one the client's stage names
(`Trail`), so that whatever comes next follows it. A message appended, the first
taken and the end cut off are lemmas about which messages a sequence carries, how
often and in which order.

**FleetProofs.** `FleetInvariant`: what a session remembers of a row is still
worth something when it writes, since a row once seen stays; so a registration
that found one may answer without adding any, and no write makes a row absent.
Every answer is of a row there is, and what the command holds, an answer or a
key, matches what it has put on disk. From it `FleetTypes`,
`ConfigurationIsRegistered` and `ProbationHasReason`.

**PartProofs.** One invariant per part. `RevocationHolds` and `CountersEnd`: a
blacklist entry lasts, to the half second, as long as its token, and only Redis or
the end of the process takes a counter's end away. `SignedOutForGood`: signed out,
nothing that could bring tokens back is under way and nothing can start it.
`PageNeverGoesBack`: a load that is not cancelled was served no earlier than the one
on the page. `DownloadsAreWhole`: a stream open for a job is of a job that has a
result_ref, which no update takes away, and nobody else writes its file; that the
job is still COMPLETED is neither needed nor true. `PaidOnce`: what a row or a
summary counts has a home at its node in the month of its reference, for any
calendar (`MonthBounds`), and homes are only added. `ScalingIsSpaced`: a stamp is no older than the event it
stands for, but while the check that published it has yet to write it.

**Only model-checked.** Every invariant of the passing runs but `BalanceExact`, and
every action property, is proved. `BalanceExact` and the refinement of `Bank` hold
only where sessions do not overlap on one user, which the code does not see to; what
is proved instead is what holds of any overlap. Induction over the data of
recursive definitions and the liveness properties (`CallsFinish`,
`DeadHandlersEnd`, `BackOnline`, `BacklogDrains`, `BeatingNodesRecover`) are out of
the prover's reach. Nor proved are, of course, the four violations, which TLC shows
on a behaviour.

## 5. Not modelled, and where code and docs differ

Cryptographic primitives, S3 and HTTP I/O, layout, wording, metrics and logging;
legacy modules the gateway does not mount; deployment. `PROJECT.json` gives the
reason per component. Within the modelled parts:

* Ledger: decimal rounding, connection-pool exhaustion, ties of created_at.
* Relay: authentication of the WebSocket handshake, `broadcast`, `disconnect()`
  of the client from another task.
* Anchoring: the dry-run chain client, whose constant `tx_hash` meets the unique
  column at the second batch; `verify_root`, which asks the event for `merkleRoot`
  although contract and ABI call it `root` (`chain.py:134`,
  `LedgerAnchor.abi.json:8`); the contract's `verifyProof` (sorted pairs, keccak),
  which is not the gateway's tree; the stand-alone bundler of `rollup_anchor/`.
  The anchor models map a table `ledger_entries` of their own, not the
  `credit_ledger_entries` of CreditLedger, so the two are not composed.
* Nodes: loads, capabilities, and the 24 hours of a node token, after which a node
  has to register again; a second row for one key (below).
* Authentication: users, passwords, and AuthMiddleware, which verifies tokens once
  more without effect.
* Frontend: the register page, submitting, cancelling and credits.
* Certificates: the gateway certifies a key pair it makes itself and drops the
  private key (`certs.py:121`), so no node can use what it is given; nothing in
  `src/` calls the node's side of issuing or renewing.

Met while modelling, and within the models where they can be, but stated by no
run:

* `scheduler/service.py:69`: two registrations of one key may both find no row;
  the key is not unique, and later ones then fail on two.
* `scheduler/service.py:127`: a heartbeat makes a node HEALTHY that the breaker
  has tripped, whose count stays at the threshold. Of two overlapping heartbeats
  the older may commit last and move `last_heartbeat` back. `:162`: the sweep
  writes UNHEALTHY over a heartbeat that arrived after its SELECT.
* `circuit_breaker.py:221`: after the recovery timeout every caller is let
  through as the probe, not one.
* `circuit_breaker.py:241`: redistributed jobs wait for a dispatch cycle that
  does not exist.
* `register.py`: a `config.json` that was cut short makes the command fail, with
  `--force` too.
* `autoscale.py:208`: without a healthy node the load is 0.0, and the fleet is
  scaled down. `:219`: overlapping checks publish one event each.
* `api/v1/auth.py:171`: registration flushes the user and no one commits it.
  Refresh tokens can be used again, although `docs/confluence/03-*` (line 157) calls
  them single-use.
* `rate_limit.py:91`: a lost EXPIRE leaves a counter without an end.
* `lib/api.ts:110`: a failed refresh clears the tokens and leaves the user signed
  in; `:165`: one that ends after a logout stores tokens again, and the
  AuthProvider's own sets the user again. The page never calls `/auth/logout`.
* `useJobs.ts`: a poll cancels the load before it, so that a gateway slower than
  the interval never updates the page; after an error at the first load there is
  no other.
* `billing/payout.py:254`: payouts book under node ids, which are no users'. The
  foreign key refuses the row, `ledger/service.py:126` takes that for a duplicate
  ("another transaction created the entry first"), and `scalar_one()` finds no entry:
  the run raises.
* `scheduler/job_service.py:133`: a report of QUEUED counts a retry without a look
  at MAX_RETRIES or the dead letters, so a job that `move_to_dlq` "marks ... as
  permanently FAILED" (`retry.py:195`) lives again, its dead letter notwithstanding.
* `scheduler/job_service.py:124`: `completed_at` is written at every accepted end. A
  job whose COMPLETED a stale update has overwritten, and which is completed again in
  another month or on another node, is found by another payout, whose reference
  differs; the "idempotency check" of `payout.py:226` is per node and month.
* `edgekit/relay/client.py:234`: the receive loop awaits a job's callback, so a ping
  waits behind every job assigned before it. Two that each end within the 90 s window
  outlast it together (one job may, its limit being 300 s by default), and the
  gateway closes the connection of a live node, which "automatically responds to
  heartbeat pings" (line 51).
* `api/v1/ledger.py:180`: the endpoint rebuilds the tree ORDER BY id, the cycle
  hashed what `fetch_unanchored` returned, whose protocol promises no order
  (`bundler_task.py:61`); in another order the proof leads to another root than the
  record's.

## 6. Plan

Done: the ledger, the scheduler's job lifecycle, the relay, anchoring with its
Merkle tree, nodes with the breaker and their enrolment, the gateway's tokens and
limiter, the frontend's session and page, the SDK with the job endpoints, payouts
and the autoscaler; and a proof, without assumptions on who overlaps whom, of every
invariant but one and of every action property that a run checks.

To prove next: what the abstract specifications promise of themselves (no overspent
user in `Bank`, no way out of COMPLETED in `JobMachine`); that stamps leave room
for a waiting session, the safety half of `CallsFinish`.

What could come next in the model: `JobAtNode`, Scheduler and RelayConnection composed, once
the gateway does more with a node's report than to log it; AuthGateway and
FrontendSession composed, for what a revoked token does to a page; Fleet composed
with Scheduler through `healthy`; fixed-point amounts in CreditLedger.
