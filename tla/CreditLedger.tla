---------------------------- MODULE CreditLedger ----------------------------
(***************************************************************************)
(* The credit ledger of core/ledger/service.py as PostgreSQL runs it.  A   *)
(* database session serves one request: it calls allocate_credits or       *)
(* deduct_credits once (the Stripe webhook, POST /credits/deduct, a usage  *)
(* charge) or once per node (execute_payouts), then its caller commits.    *)
(* Every SQL statement is one step; sessions interleave between statements *)
(* and a session can fail at any of them.                                  *)
(*                                                                         *)
(* The engine runs at PostgreSQL's default, READ COMMITTED: a statement    *)
(* sees what was committed when it starts, and its own session's rows.     *)
(* SELECT ... ORDER BY ... LIMIT 1 FOR UPDATE picks its row from that      *)
(* snapshot and then waits for the row's lock; since ledger rows are never *)
(* updated, the row it finally locks is the one it picked.  created_at is  *)
(* drawn before the INSERT is sent (stamps of one clock, no ties), and the *)
(* INSERT may then wait for another session's reference.  Where sessions   *)
(* wait for each other in a circle, PostgreSQL aborts one of them.         *)
(***************************************************************************)
EXTENDS Integers, Sequences, FiniteSets

CONSTANTS
  Sessions,     \* the database sessions (connections of the pool)
  Users,        \* the ids credits and debits are booked under
  Accounts,     \* those of them that are rows of the users table
  Refs,         \* the idempotency keys: checkout ids, job-<id>, payout-<...>
  Programs,     \* Programs[s]: the call sequences session s may be asked to run
  MaxStamp,     \* bound: the largest created_at stamp
  Room,         \* bound: stamps kept free for the requests under way
  NoRow         \* the answer of a SELECT that found nothing

Directions == {"CREDIT", "DEBIT"}
Call == [dir : Directions, user : Users, ref : Refs, amount : Int]
Stamps == 1..MaxStamp
Row == [user : Users, dir : Directions, ref : Refs, amount : Int,
        bal : Int, at : Stamps]
Key == Refs \X Directions

ASSUME ProgramsAssumption ==
  Programs \in [Sessions -> SUBSET (Seq(Call) \ {<<>>})]
ASSUME AccountsAssumption == Accounts \subseteq Users
ASSUME StampAssumption == MaxStamp \in Nat /\ Room \in Nat
ASSUME NoRowAssumption == NoRow \notin Row

VARIABLES
  committed,    \* the rows of credit_ledger_entries every session sees
  pending,      \* per session: rows flushed and not yet committed
  locks,        \* per session: keys of the rows it holds FOR UPDATE
  pc,           \* per session: the statement it runs next
  prog,         \* per session: the calls its request makes
  step,         \* per session: which of them it is in
  base,         \* per session: the "last entry" its SELECT picked
  stamp,        \* per session: the created_at of the row it is inserting
  acked,        \* every call whose request was answered with success
  overtaken     \* history, per session: the users whose rows another session
                \* committed while this one was reading or writing them

vars == <<committed, pending, locks, pc, prog, step, base, stamp, acked, overtaken>>

Labels == {"idle", "check", "read", "lock", "insert", "flush", "recover", "commit"}

TypeOK ==
  /\ committed \subseteq Row
  /\ pending \in [Sessions -> SUBSET Row]
  /\ locks \in [Sessions -> SUBSET Key]
  /\ pc \in [Sessions -> Labels]
  /\ prog \in [Sessions -> Seq(Call)]
  /\ step \in [Sessions -> Nat]
  /\ base \in [Sessions -> Row \cup {NoRow}]
  /\ stamp \in [Sessions -> 0..MaxStamp]
  /\ acked \subseteq Call
  /\ overtaken \in [Sessions -> SUBSET Users]
  /\ \A s \in Sessions : pc[s] # "idle" => step[s] \in DOMAIN prog[s]
  /\ \A s \in Sessions : pc[s] = "lock" => base[s] # NoRow
  /\ \A s \in Sessions : pc[s] = "flush" => stamp[s] \in Stamps

-----------------------------------------------------------------------------
(* What a statement sees, and what a call computes from it. *)

KeyOf(x) == <<x.ref, x.dir>>
Keys(S) == {KeyOf(r) : r \in S}
Flushed == UNION {pending[s] : s \in Sessions}
Table == committed \cup Flushed
Visible(s) == committed \cup pending[s]
call(s) == prog[s][step[s]]

(* A variant: the rows ordered oldest first. *)
IsOldest(r, S, u) == r.user = u /\ \A q \in S : q.user = u => q.at >= r.at

(* A variant: the filter on user_id forgotten. *)
IsLastOfAnyone(r, S, u) == \A q \in S : q.at <= r.at

(* WHERE user_id = u ORDER BY created_at DESC LIMIT 1 *)
IsLast(r, S, u) == r.user = u /\ \A q \in S : q.user = u => q.at <= r.at

LastOf(S, u) == IF \E r \in S : IsLast(r, S, u)
                THEN CHOOSE r \in S : IsLast(r, S, u)
                ELSE NoRow

BalanceOf(r) == IF r = NoRow THEN 0 ELSE r.bal

(* get_balance: the running balance of the newest committed row. *)
GetBalance(u) == BalanceOf(LastOf(committed, u))

NewBalance(s) == IF call(s).dir = "CREDIT"
                 THEN BalanceOf(base[s]) + call(s).amount
                 ELSE BalanceOf(base[s]) - call(s).amount

(* A variant: deduct_credits without its balance check. *)
NeverOverdraws(s) == FALSE

Overdraws(s) == call(s).dir = "DEBIT" /\ NewBalance(s) < 0

(* The stamp after every one drawn so far. *)
Drawn == {r.at : r \in Table} \cup {stamp[s] : s \in Sessions}
IsNextStamp(t) == /\ \A d \in Drawn : d < t
                  /\ t - 1 \in {0} \cup Drawn

UsersOf(S) == {r.user : r \in S}

(* The users whose rows session s has read for a call or has flushed. *)
Reading(s) == UsersOf(pending[s])
              \cup (IF pc[s] \in {"lock", "insert", "flush"} THEN {call(s).user} ELSE {})

-----------------------------------------------------------------------------
(* Control shared by the steps of a session. *)

(* What a call has read ends with it. *)
Forget(s) == /\ base' = [base EXCEPT ![s] = NoRow]
             /\ stamp' = [stamp EXCEPT ![s] = 0]

(* The call returned an entry: on to the next call, or to the commit. *)
Advance(s) ==
  /\ IF step[s] < Len(prog[s])
     THEN /\ step' = [step EXCEPT ![s] = @ + 1]
          /\ pc' = [pc EXCEPT ![s] = "check"]
     ELSE /\ pc' = [pc EXCEPT ![s] = "commit"]
          /\ UNCHANGED step
  /\ Forget(s)
  /\ UNCHANGED prog

Goto(s, label) == /\ pc' = [pc EXCEPT ![s] = label]
                  /\ UNCHANGED <<prog, step>>

(* The transaction ends: its locks go, and its rows are no longer its own. *)
EndTransaction(s) == /\ pending' = [pending EXCEPT ![s] = {}]
                     /\ locks' = [locks EXCEPT ![s] = {}]

Rollback(s) == /\ EndTransaction(s)
               /\ overtaken' = [overtaken EXCEPT ![s] = {}]

Finish(s) == /\ pc' = [pc EXCEPT ![s] = "idle"]
             /\ prog' = [prog EXCEPT ![s] = <<>>]
             /\ step' = [step EXCEPT ![s] = 0]
             /\ Forget(s)

(* A variant: the session is not closed. *)
AbandonUnclosed(s) ==
  Finish(s) /\ UNCHANGED <<pending, locks, committed, acked, overtaken>>

(* The request raised: get_db_session closes the session uncommitted. *)
Abandon(s) == Rollback(s) /\ Finish(s) /\ UNCHANGED <<committed, acked>>

-----------------------------------------------------------------------------
(* The steps of a request. *)

(* A request that may need stamps starts only while Room of them are left;
   one whose every call finds its entry needs none. *)
Begin(s, p) ==
  /\ pc[s] = "idle"
  /\ \/ \A d \in Drawn : d + Room <= MaxStamp
     \/ \A i \in DOMAIN p : KeyOf(p[i]) \in Keys(committed)
  /\ pc' = [pc EXCEPT ![s] = "check"]
  /\ prog' = [prog EXCEPT ![s] = p]
  /\ step' = [step EXCEPT ![s] = 1]
  /\ UNCHANGED <<committed, pending, locks, base, stamp, acked, overtaken>>

(* if amount <= 0: raise ValueError *)
RefuseAmount(s) ==
  /\ pc[s] = "check"
  /\ call(s).amount <= 0
  /\ Abandon(s)

(* The idempotency SELECT finds an entry under the reference, whoever's it is. *)
FindExisting(s) ==
  /\ pc[s] = "check"
  /\ call(s).amount > 0
  /\ KeyOf(call(s)) \in Keys(Visible(s))
  /\ Advance(s)
  /\ UNCHANGED <<committed, pending, locks, acked, overtaken>>

MissExisting(s) ==
  /\ pc[s] = "check"
  /\ call(s).amount > 0
  /\ KeyOf(call(s)) \notin Keys(Visible(s))
  /\ Goto(s, "read")
  /\ UNCHANGED <<committed, pending, locks, base, stamp, acked, overtaken>>

(* A variant: the SELECT of a call sorts without desc(). *)
ReadFirst(s) ==
  LET S     == Visible(s)
      first == IF \E r \in S : IsOldest(r, S, call(s).user)
               THEN CHOOSE r \in S : IsOldest(r, S, call(s).user)
               ELSE NoRow
  IN  /\ pc[s] = "read"
      /\ base' = [base EXCEPT ![s] = first]
      /\ Goto(s, IF first = NoRow THEN "insert" ELSE "lock")
      /\ UNCHANGED <<committed, pending, locks, stamp, acked, overtaken>>

(* SELECT ... FOR UPDATE picks the user's newest row; with no row there is
   nothing to lock. *)
ReadLast(s) ==
  LET last == LastOf(Visible(s), call(s).user)
  IN  /\ pc[s] = "read"
      /\ base' = [base EXCEPT ![s] = last]
      /\ Goto(s, IF last = NoRow THEN "insert" ELSE "lock")
      /\ UNCHANGED <<committed, pending, locks, stamp, acked, overtaken>>

(* ... and gets that row's lock once no other session holds it. *)
LockLast(s) ==
  /\ pc[s] = "lock"
  /\ \A t \in Sessions \ {s} : KeyOf(base[s]) \notin locks[t]
  /\ locks' = [locks EXCEPT ![s] = @ \cup {KeyOf(base[s])}]
  /\ Goto(s, "insert")
  /\ UNCHANGED <<committed, pending, base, stamp, acked, overtaken>>

(* InsufficientCreditsError *)
RefuseOverdraft(s) ==
  /\ pc[s] = "insert"
  /\ Overdraws(s)
  /\ Abandon(s)

(* session.add() and flush(): created_at is drawn and the INSERT is sent. *)
SendInsert(s) ==
  /\ pc[s] = "insert"
  /\ ~Overdraws(s)
  /\ \E t \in Stamps : /\ IsNextStamp(t)
                       /\ stamp' = [stamp EXCEPT ![s] = t]
  /\ Goto(s, "flush")
  /\ UNCHANGED <<committed, pending, locks, base, acked, overtaken>>

NewRow(s, t) == [user |-> call(s).user, dir |-> call(s).dir,
                 ref |-> call(s).ref, amount |-> call(s).amount,
                 bal |-> NewBalance(s), at |-> t]

(* What the INSERT breaks: CHECK (balance_after >= 0) before anything else,
   UNIQUE(reference_id, direction) once the reference is another's for good,
   the foreign key to users last. *)
Rejected(s) ==
  \/ NewBalance(s) < 0
  \/ KeyOf(call(s)) \in Keys(committed)
  \/ KeyOf(call(s)) \notin Keys(Table) /\ call(s).user \notin Accounts

(* A variant: the table without UNIQUE(reference_id, direction). *)
InsertUnconstrained(s) ==
  /\ pc[s] = "flush"
  /\ NewBalance(s) >= 0 /\ call(s).user \in Accounts
  /\ pending' = [pending EXCEPT ![s] = @ \cup {NewRow(s, stamp[s])}]
  /\ Advance(s)
  /\ UNCHANGED <<committed, locks, acked, overtaken>>

(* The row goes in.  While another session's uncommitted row holds the
   reference, the unique index makes the INSERT wait. *)
Insert(s) ==
  /\ pc[s] = "flush"
  /\ ~Rejected(s)
  /\ KeyOf(call(s)) \notin Keys(Table)
  /\ pending' = [pending EXCEPT ![s] = @ \cup {NewRow(s, stamp[s])}]
  /\ Advance(s)
  /\ UNCHANGED <<committed, locks, acked, overtaken>>

(* flush() raises IntegrityError: session.rollback() takes the whole
   transaction with it, the rows of earlier calls included. *)
InsertConflict(s) ==
  /\ pc[s] = "flush"
  /\ Rejected(s)
  /\ Rollback(s)
  /\ Goto(s, "recover")
  /\ Forget(s)
  /\ UNCHANGED <<committed, acked>>

(* scalar_one() returns the entry committed under the reference. *)
Recover(s) ==
  /\ pc[s] = "recover"
  /\ KeyOf(call(s)) \in Keys(Visible(s))
  /\ Advance(s)
  /\ UNCHANGED <<committed, pending, locks, acked, overtaken>>

(* scalar_one() raises NoResultFound: the reference was not the reason. *)
RecoverNothing(s) ==
  /\ pc[s] = "recover"
  /\ KeyOf(call(s)) \notin Keys(Visible(s))
  /\ Abandon(s)

(* A variant: the caller answers without session.commit(). *)
AnswerUncommitted(s) ==
  /\ pc[s] = "commit"
  /\ acked' = acked \cup {prog[s][i] : i \in DOMAIN prog[s]}
  /\ Rollback(s)
  /\ Finish(s)
  /\ UNCHANGED committed

(* The caller commits and answers with success. *)
Commit(s) ==
  /\ pc[s] = "commit"
  /\ committed' = committed \cup pending[s]
  /\ acked' = acked \cup {prog[s][i] : i \in DOMAIN prog[s]}
  /\ overtaken' = [t \in Sessions |->
       IF t = s THEN {} ELSE overtaken[t] \cup (Reading(t) \cap UsersOf(pending[s]))]
  /\ EndTransaction(s)
  /\ Finish(s)

(* Session x needs a row lock or a reference that session y holds. *)
WaitsFor(x, y) ==
  /\ x # y
  /\ \/ pc[x] = "lock" /\ KeyOf(base[x]) \in locks[y]
     \/ pc[x] = "flush" /\ NewBalance(x) >= 0 /\ KeyOf(call(x)) \in Keys(pending[y])

(* s is in a circle of waits (each session waits for one other at most). *)
Deadlocked(s) ==
  \E C \in SUBSET Sessions :
    /\ s \in C
    /\ \A x \in C : (\E y \in C : WaitsFor(x, y)) /\ (\E y \in C : WaitsFor(y, x))

(* PostgreSQL's deadlock detector aborts s; the request raises. *)
DeadlockAbort(s) == Deadlocked(s) /\ Abandon(s)

(* The process dies, the connection is lost or the commit fails. *)
Fail(s) == pc[s] # "idle" /\ Abandon(s)

Init ==
  /\ committed = {}
  /\ pending = [s \in Sessions |-> {}]
  /\ locks = [s \in Sessions |-> {}]
  /\ pc = [s \in Sessions |-> "idle"]
  /\ prog = [s \in Sessions |-> <<>>]
  /\ step = [s \in Sessions |-> 0]
  /\ base = [s \in Sessions |-> NoRow]
  /\ stamp = [s \in Sessions |-> 0]
  /\ acked = {}
  /\ overtaken = [s \in Sessions |-> {}]

(* The steps a session takes by itself once its request has begun. *)
Run(s) ==
  \/ RefuseAmount(s) \/ FindExisting(s) \/ MissExisting(s)
  \/ ReadLast(s) \/ LockLast(s)
  \/ RefuseOverdraft(s) \/ SendInsert(s) \/ Insert(s) \/ InsertConflict(s)
  \/ Recover(s) \/ RecoverNothing(s) \/ Commit(s) \/ DeadlockAbort(s)

Next == \E s \in Sessions : (\E p \in Programs[s] : Begin(s, p)) \/ Run(s) \/ Fail(s)

Spec == Init /\ [][Next]_vars

(* PostgreSQL grants row locks and unique-index waits in arrival order and
   breaks circles of them after deadlock_timeout, so a session that keeps being
   able to proceed does; nothing is assumed about requests arriving or about
   failures. *)
FairSpec == Spec /\ \A s \in Sessions : SF_vars(Run(s))
-----------------------------------------------------------------------------
(* Properties. *)

(* A reference takes effect at most once in each direction, whatever retries,
   duplicates and races the callers bring (UNIQUE(reference_id, direction)
   with the idempotency SELECT and the IntegrityError path). *)
AppliedOnce == \A r, q \in Table : KeyOf(r) = KeyOf(q) => r = q

(* An INSERT that fails for an account holder failed for its reference: the
   call's own balance check leaves the CHECK constraint nothing to reject, so
   the entry the except branch looks for is there. *)
RecoveryFinds ==
  \A s \in Sessions :
    pc[s] = "recover" /\ call(s).user \in Accounts => KeyOf(call(s)) \in Keys(committed)

(* Every request makes one call: all callers but execute_payouts. *)
SingleCalls == \A s \in Sessions : \A p \in Programs[s] : Len(p) = 1

(* A request answered with success left its entry in the committed table:
   its own, or the one already there under the reference. *)
AckedIsDurable ==
  \A c \in acked : KeyOf(c) \in Keys(committed)

(* r's balance continues that of an older row of its user in S, or zero. *)
Grounded(r, S) ==
  \E b \in {0} \cup {q.bal : q \in {x \in S : x.user = r.user /\ x.at < r.at}} :
    r.bal = IF r.dir = "CREDIT" THEN b + r.amount ELSE b - r.amount

(* Every committed balance continues the balance of an older committed row
   of the same user, or starts from zero: no balance rests on a row that was
   rolled back, or on another user's. *)
ChainGrounded == \A r \in committed : Grounded(r, committed)

(* The entries behind the committed rows, as the Bank sees them. *)
EntriesOf(S) == {[user |-> r.user, dir |-> r.dir, ref |-> r.ref,
                  amount |-> r.amount] : r \in S}

AbstractBank == INSTANCE Bank WITH entries <- EntriesOf(committed)

(* The balance get_balance answers for u is the sum of u's committed credits
   less the committed debits. *)
Exact(u) == GetBalance(u) = AbstractBank!Balance(EntriesOf(committed), u)
BalanceExact == \A u \in Users : Exact(u)

(* A session commits rows of u that build on a balance another session's
   commit has replaced since. *)
CommitsOvertaken(u) == \E s \in Sessions : u \in overtaken[s] /\ Commit(s)

(* However many sessions serve a user, a balance that was exact goes wrong in
   one way only: by the commit of a session that another one overtook between
   the SELECT ... FOR UPDATE and the commit.  No rollback, retry, conflict,
   deadlock or failure does it. *)
SpoiltOnlyByOvertaken ==
  [][\A u \in Users : Exact(u) /\ ~Exact(u)' => CommitsOvertaken(u)]_vars

(* And the ledger keeps the Bank's promise step by step: entries are never
   lost or applied twice, and a user whose balance is exact is overdrawn by
   no commit but an overtaken one. *)
BankUnlessOvertaken ==
  [][/\ AbstractBank!Adds
     /\ \A u \in Users : Exact(u) => AbstractBank!Bears(u) \/ CommitsOvertaken(u)]_vars

(* The ledger implements the Bank: entries are never lost or applied twice
   and no user spends more than was credited. *)
ImplementsBank == AbstractBank!Spec

(* Every request ends: sessions that wait on each other's row locks and
   unflushed references get out of it, whichever order they take them in. *)
CallsFinish == \A s \in Sessions : pc[s] # "idle" ~> pc[s] = "idle"
=============================================================================
