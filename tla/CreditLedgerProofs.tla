------------------------- MODULE CreditLedgerProofs -------------------------
(***************************************************************************)
(* The credit ledger's safety properties for any number of sessions,       *)
(* users, references and requests.  Type correctness and AppliedOnce are   *)
(* inductive; RecoveryFinds needs that what a session has read is not      *)
(* negative and what it is about to insert is positive; AckedIsDurable     *)
(* needs that a session about to commit sees its call's entry;             *)
(* ChainGrounded needs that a session's flushed rows continue rows it sees *)
(* and that the row it read is one of them, of its own user.               *)
(* SpoiltOnlyByOvertaken needs that, until another session overtakes it, a *)
(* session that has read a user's newest row still sees it as the newest,  *)
(* and sees an exact balance wherever the committed one is exact;          *)
(* BankUnlessOvertaken follows from it.                                    *)
(***************************************************************************)
EXTENDS CreditLedger, DataFacts, TLAPS

(* The newest row of a user, where a SELECT finds one. *)
LEMMA LastOfType ==
  ASSUME NEW S, NEW u
  PROVE  LastOf(S, u) \in S \cup {NoRow}
BY DEF LastOf

(* A SELECT that finds a row finds the newest one of that very user. *)
LEMMA LastOfUser ==
  ASSUME NEW S, NEW u, LastOf(S, u) # NoRow
  PROVE  LastOf(S, u) \in S /\ LastOf(S, u).user = u
         /\ \A q \in S : q.user = u => q.at <= LastOf(S, u).at
BY DEF LastOf, IsLast

(* A row and a call both name a reference and a direction. *)
LEMMA KeyType == ASSUME NEW r \in Row \cup Call PROVE KeyOf(r) \in Key
BY DEF KeyOf, Key, Row, Call

(* A session under way is in one of its calls. *)
LEMMA CallType ==
  ASSUME TypeOK, NEW s \in Sessions, pc[s] # "idle"
  PROVE  call(s) \in Call
<1>1. prog[s] \in Seq(Call) /\ step[s] \in DOMAIN prog[s]
  BY DEF TypeOK
<1>2. QED
  BY <1>1 DEF call

(* A session sees rows only. *)
LEMMA VisibleType ==
  ASSUME TypeOK, NEW s \in Sessions
  PROVE  Visible(s) \subseteq Row
BY DEF TypeOK, Visible

(* The row a call inserts is a ledger row, whatever its balance. *)
LEMMA NewRowType ==
  ASSUME TypeOK, NEW s \in Sessions, pc[s] # "idle", NEW t \in Stamps
  PROVE  NewRow(s, t) \in Row
<1>1. call(s) \in Call
  BY CallType
<1>2. BalanceOf(base[s]) \in Int
  BY DEF TypeOK, BalanceOf, Row
<1>3. NewBalance(s) \in Int
  BY <1>1, <1>2 DEF NewBalance, Call
<1>4. QED
  BY <1>1, <1>3 DEF NewRow, Row, Call

(* The control steps keep the session's own variables in their types. *)
ControlOK ==
  /\ pc \in [Sessions -> Labels]
  /\ prog \in [Sessions -> Seq(Call)]
  /\ step \in [Sessions -> Nat]
  /\ base \in [Sessions -> Row \cup {NoRow}]
  /\ stamp \in [Sessions -> 0..MaxStamp]
  /\ \A s \in Sessions : pc[s] # "idle" => step[s] \in DOMAIN prog[s]
  /\ \A s \in Sessions : pc[s] = "lock" => base[s] # NoRow
  /\ \A s \in Sessions : pc[s] = "flush" => stamp[s] \in Stamps

StoreOK ==
  /\ committed \subseteq Row
  /\ pending \in [Sessions -> SUBSET Row]
  /\ locks \in [Sessions -> SUBSET Key]
  /\ acked \subseteq Call
  /\ overtaken \in [Sessions -> SUBSET Users]

(* What a call has read is forgotten within the types. *)
LEMMA ForgetType ==
  ASSUME ControlOK, NEW s \in Sessions, Forget(s)
  PROVE  base' \in [Sessions -> Row \cup {NoRow}] /\ stamp' \in [Sessions -> 0..MaxStamp]
BY StampAssumption DEF ControlOK, Forget

(* Going to the next call or to the commit keeps the control variables
   typed. *)
LEMMA AdvanceType ==
  ASSUME ControlOK, NEW s \in Sessions, pc[s] # "idle", Advance(s)
  PROVE  ControlOK'
<1>1. prog[s] \in Seq(Call) /\ step[s] \in 1..Len(prog[s])
  BY DEF ControlOK
<1>2. CASE step[s] < Len(prog[s])
  <2>1. step'[s] \in 1..Len(prog[s])
    BY <1>1, <1>2 DEF Advance, ControlOK
  <2>2. \A t \in Sessions : pc'[t] # "idle" => step'[t] \in DOMAIN prog'[t]
    <3>1. prog' = prog /\ DOMAIN prog[s] = 1..Len(prog[s])
      BY <1>1 DEF Advance
    <3>2. step'[s] \in DOMAIN prog'[s]
      BY <2>1, <3>1
    <3>3. \A t \in Sessions \ {s} : pc'[t] = pc[t] /\ step'[t] = step[t]
      BY <1>2 DEF Advance, ControlOK
    <3>4. QED
      BY <3>1, <3>2, <3>3 DEF ControlOK
  <2>3. pc' \in [Sessions -> Labels]
    BY <1>2 DEF Advance, ControlOK, Labels
  <2>7. prog' \in [Sessions -> Seq(Call)]
    BY DEF Advance, ControlOK
  <2>8. step' \in [Sessions -> Nat]
    <3>1. step' = [step EXCEPT ![s] = step[s] + 1]
      BY <1>2 DEF Advance
    <3>2. step \in [Sessions -> Nat] /\ step[s] + 1 \in Nat
      BY DEF ControlOK
    <3>3. QED
      BY <3>1, <3>2
  <2>4. base' \in [Sessions -> Row \cup {NoRow}] /\ stamp' \in [Sessions -> 0..MaxStamp]
    BY ForgetType DEF Advance
  <2>5. \A t \in Sessions : /\ pc'[t] = "lock" => base'[t] # NoRow
                            /\ pc'[t] = "flush" => stamp'[t] \in Stamps
    BY <1>2 DEF Advance, Forget, ControlOK
  <2>6. QED
    BY <2>2, <2>3, <2>4, <2>5, <2>7, <2>8 DEF ControlOK
<1>3. CASE ~(step[s] < Len(prog[s]))
  <2>1. base' \in [Sessions -> Row \cup {NoRow}] /\ stamp' \in [Sessions -> 0..MaxStamp]
    BY ForgetType DEF Advance
  <2>2. \A t \in Sessions : /\ pc'[t] = "lock" => base'[t] # NoRow
                            /\ pc'[t] = "flush" => stamp'[t] \in Stamps
    BY <1>3 DEF Advance, Forget, ControlOK
  <2>3. QED
    BY <1>1, <1>3, <2>1, <2>2 DEF Advance, ControlOK, Labels
<1>4. QED
  BY <1>2, <1>3

(* Ending a request keeps the control variables typed. *)
LEMMA FinishType ==
  ASSUME ControlOK, NEW s \in Sessions, Finish(s)
  PROVE  ControlOK'
<1>1. <<>> \in Seq(Call)
  OBVIOUS
<1>2. base' \in [Sessions -> Row \cup {NoRow}] /\ stamp' \in [Sessions -> 0..MaxStamp]
  BY ForgetType DEF Finish
<1>3. \A t \in Sessions : /\ pc'[t] = "lock" => base'[t] # NoRow
                          /\ pc'[t] = "flush" => stamp'[t] \in Stamps
  BY DEF Finish, Forget, ControlOK
<1>4. QED
  BY <1>1, <1>2, <1>3 DEF Finish, ControlOK, Labels

(* A rollback keeps the stores typed. *)
LEMMA RollbackType ==
  ASSUME StoreOK, NEW s \in Sessions, Rollback(s)
  PROVE  /\ pending' \in [Sessions -> SUBSET Row] /\ locks' \in [Sessions -> SUBSET Key]
         /\ overtaken' \in [Sessions -> SUBSET Users]
BY DEF StoreOK, Rollback, EndTransaction

(* A commit marks other sessions as overtaken for users only. *)
LEMMA CommitType ==
  ASSUME StoreOK, ControlOK, NEW s \in Sessions, Commit(s)
  PROVE  StoreOK'
<1>1. {prog[s][i] : i \in DOMAIN prog[s]} \subseteq Call
  BY DEF ControlOK
<1>2. UsersOf(pending[s]) \subseteq Users
  BY DEF StoreOK, UsersOf, Row
<1>3. overtaken' \in [Sessions -> SUBSET Users]
  BY <1>2 DEF Commit, StoreOK
<1>4. committed' \subseteq Row /\ acked' \subseteq Call
  BY <1>1 DEF Commit, StoreOK
<1>5. pending' \in [Sessions -> SUBSET Row] /\ locks' \in [Sessions -> SUBSET Key]
  BY DEF Commit, EndTransaction, StoreOK
<1>6. QED
  BY <1>3, <1>4, <1>5 DEF StoreOK

(* An abandoned request leaves every variable typed. *)
LEMMA AbandonType ==
  ASSUME TypeOK, NEW s \in Sessions, Abandon(s)
  PROVE  TypeOK'
<1>1. ControlOK /\ StoreOK
  BY DEF TypeOK, ControlOK, StoreOK
<1>2. ControlOK'
  BY <1>1, FinishType DEF Abandon
<1>3. StoreOK'
  BY <1>1, RollbackType DEF Abandon, StoreOK
<1>4. QED
  BY <1>2, <1>3 DEF TypeOK, ControlOK, StoreOK

(* Going to another statement of the same call keeps the control variables
   typed. *)
LEMMA GotoType ==
  ASSUME ControlOK, NEW s \in Sessions, pc[s] # "idle",
         NEW label \in Labels \ {"idle"}, Goto(s, label),
         base' \in [Sessions -> Row \cup {NoRow}],
         stamp' \in [Sessions -> 0..MaxStamp],
         \A t \in Sessions : pc'[t] = "lock" => base'[t] # NoRow,
         \A t \in Sessions : pc'[t] = "flush" => stamp'[t] \in Stamps
  PROVE  ControlOK'
BY DEF ControlOK, Goto

(* A step belongs to one session. *)
Act(s) == (\E p \in Programs[s] : Begin(s, p)) \/ Run(s) \/ Fail(s)

(* A session's step begins a request, abandons it, or is one of the steps of
   a call that goes on or of its commit. *)
LEMMA Kinds ==
  ASSUME NEW s \in Sessions, Act(s)
  PROVE  \/ \E p \in Programs[s] : Begin(s, p)
         \/ Abandon(s)
         \/ FindExisting(s) \/ MissExisting(s) \/ ReadLast(s) \/ LockLast(s)
         \/ SendInsert(s) \/ Insert(s) \/ InsertConflict(s) \/ Recover(s)
         \/ Commit(s)
BY DEF Act, Run, RefuseAmount, RefuseOverdraft, RecoverNothing, DeadlockAbort, Fail

(* Every variable keeps its type, and a session under way is in one of its
   request's calls. *)
THEOREM TypeCorrect == Spec => []TypeOK
<1>1. Init => TypeOK
  <2>1. <<>> \in Seq(Call)
    OBVIOUS
  <2>2. 0 \in 0..MaxStamp
    BY StampAssumption
  <2>3. QED
    BY <2>1, <2>2 DEF Init, TypeOK, Labels
<1>2. TypeOK /\ [Next]_vars => TypeOK'
  <2> SUFFICES ASSUME TypeOK, [Next]_vars PROVE TypeOK'
    OBVIOUS
  <2>0. ControlOK /\ StoreOK
    BY DEF TypeOK, ControlOK, StoreOK
  <2>00. ControlOK' /\ StoreOK' => TypeOK'
    BY DEF TypeOK, ControlOK, StoreOK
  <2>1. CASE UNCHANGED vars
    BY <2>1 DEF vars, TypeOK
  <2>3. ASSUME NEW s \in Sessions, Act(s)
        PROVE  TypeOK'
    <3>0. ASSUME NEW p \in Programs[s], Begin(s, p)
          PROVE  TypeOK'
      <4>1. p \in Seq(Call) /\ Len(p) \in Nat \ {0} /\ 1 \in DOMAIN p
        BY ProgramsAssumption
      <4>2. QED
        BY <3>0, <4>1 DEF Begin, TypeOK, Labels
    <3>1. CASE Abandon(s)
      BY <3>1, AbandonType
    <3>2. CASE FindExisting(s)
      <4>1. ControlOK'
        BY <2>0, <3>2, AdvanceType DEF FindExisting
      <4>2. QED
        BY <2>0, <2>00, <3>2, <4>1 DEF FindExisting, StoreOK
    <3>3. CASE MissExisting(s)
      <4>1. ControlOK'
        BY <2>0, <3>3, GotoType DEF MissExisting, ControlOK, Labels, Goto
      <4>2. QED
        BY <2>0, <2>00, <3>3, <4>1 DEF MissExisting, StoreOK
    <3>4. CASE ReadLast(s)
      <4>1. LastOf(Visible(s), call(s).user) \in Row \cup {NoRow}
        BY LastOfType, VisibleType
      <4>2. base' \in [Sessions -> Row \cup {NoRow}]
        BY <2>0, <3>4, <4>1 DEF ReadLast, ControlOK
      <4> DEFINE label == IF LastOf(Visible(s), call(s).user) = NoRow
                          THEN "insert" ELSE "lock"
      <4>5. label \in Labels \ {"idle"}
        BY DEF Labels
      <4>6. Goto(s, label) /\ pc[s] # "idle"
        BY <3>4 DEF ReadLast
      <4>7. \A t \in Sessions : /\ pc'[t] = "lock" => base'[t] # NoRow
                                /\ pc'[t] = "flush" => stamp'[t] \in Stamps
        BY <2>0, <3>4 DEF ReadLast, Goto, ControlOK
      <4> HIDE DEF label
      <4>3. ControlOK'
        BY <2>0, <3>4, <4>2, <4>5, <4>6, <4>7, GotoType DEF ReadLast, ControlOK
      <4>4. QED
        BY <2>0, <2>00, <3>4, <4>3 DEF ReadLast, StoreOK
    <3>5. CASE LockLast(s)
      <4>1. base[s] \in Row
        BY <2>0, <3>5 DEF ControlOK, LockLast
      <4>2. KeyOf(base[s]) \in Key
        BY <4>1, KeyType
      <4>3. ControlOK'
        BY <2>0, <3>5, GotoType DEF LockLast, ControlOK, Labels, Goto
      <4>4. StoreOK'
        BY <2>0, <3>5, <4>2 DEF LockLast, StoreOK
      <4>5. QED
        BY <2>00, <4>3, <4>4
    <3>6. CASE SendInsert(s)
      <4>1. PICK t \in Stamps : stamp' = [stamp EXCEPT ![s] = t]
        BY <3>6 DEF SendInsert
      <4>2. stamp' \in [Sessions -> 0..MaxStamp]
        BY <2>0, <4>1, StampAssumption DEF ControlOK, Stamps
      <4>3. \A u \in Sessions : /\ pc'[u] = "lock" => base'[u] # NoRow
                                /\ pc'[u] = "flush" => stamp'[u] \in Stamps
        BY <2>0, <3>6, <4>1 DEF SendInsert, Goto, ControlOK
      <4>4. ControlOK'
        BY <2>0, <3>6, <4>2, <4>3, GotoType DEF SendInsert, ControlOK, Labels
      <4>5. QED
        BY <2>0, <2>00, <3>6, <4>4 DEF SendInsert, StoreOK
    <3>7. CASE Insert(s)
      <4>1. stamp[s] \in Stamps
        BY <2>0, <3>7 DEF Insert, ControlOK
      <4>2. NewRow(s, stamp[s]) \in Row
        BY <3>7, <4>1, NewRowType DEF Insert
      <4>3. ControlOK'
        BY <2>0, <3>7, AdvanceType DEF Insert
      <4>4. StoreOK'
        BY <2>0, <3>7, <4>2 DEF Insert, StoreOK
      <4>5. QED
        BY <2>00, <4>3, <4>4
    <3>8. CASE InsertConflict(s)
      <4>0. base' \in [Sessions -> Row \cup {NoRow}] /\ stamp' \in [Sessions -> 0..MaxStamp]
        BY <2>0, <3>8, ForgetType DEF InsertConflict
      <4>1. ControlOK'
        BY <2>0, <3>8, <4>0, GotoType DEF InsertConflict, Forget, ControlOK, Labels, Goto
      <4>2. StoreOK'
        BY <2>0, <3>8, RollbackType DEF InsertConflict, StoreOK
      <4>3. QED
        BY <2>00, <4>1, <4>2
    <3>9. CASE Recover(s)
      <4>1. ControlOK'
        BY <2>0, <3>9, AdvanceType DEF Recover
      <4>2. QED
        BY <2>0, <2>00, <3>9, <4>1 DEF Recover, StoreOK
    <3>10. CASE Commit(s)
      <4>1. ControlOK'
        BY <2>0, <3>10, FinishType DEF Commit
      <4>2. StoreOK'
        BY <2>0, <3>10, CommitType
      <4>3. QED
        BY <2>00, <4>1, <4>2
    <3>11. QED
      BY <2>3, <3>0, <3>1, <3>2, <3>3, <3>4, <3>5, <3>6, <3>7, <3>8, <3>9, <3>10, Kinds
  <2>5. QED
    BY <2>1, <2>3 DEF Next, Act
<1>3. QED
  BY <1>1, <1>2, PTL DEF Spec
-----------------------------------------------------------------------------
(* What a step does to the table: nothing, a session's rows leave pending
   (rolled back or committed), or one row is flushed. *)

RowsLeave(s) == /\ pending' = [pending EXCEPT ![s] = {}]
                /\ committed' = committed \/ committed' = committed \cup pending[s]

(* Every step adds one row, or moves or drops a session's flushed rows, or
   leaves the rows alone. *)
LEMMA StoreSteps ==
  ASSUME [Next]_vars
  PROVE  \/ UNCHANGED <<committed, pending>>
         \/ \E s \in Sessions : RowsLeave(s)
         \/ \E s \in Sessions : Insert(s)
<1>1. CASE UNCHANGED vars
  BY <1>1 DEF vars
<1>2. ASSUME NEW s \in Sessions, Act(s)
      PROVE  UNCHANGED <<committed, pending>> \/ RowsLeave(s) \/ Insert(s)
  <2>1. CASE Abandon(s)
    BY <2>1 DEF Abandon, Rollback, EndTransaction, RowsLeave
  <2>2. ASSUME NEW p \in Programs[s], Begin(s, p) PROVE UNCHANGED <<committed, pending>>
    BY <2>2 DEF Begin
  <2>3. CASE \/ FindExisting(s) \/ MissExisting(s) \/ ReadLast(s)
             \/ LockLast(s) \/ SendInsert(s) \/ Recover(s)
    BY <2>3 DEF FindExisting, MissExisting, ReadLast, LockLast, SendInsert, Recover
  <2>4. CASE InsertConflict(s)
    BY <2>4 DEF InsertConflict, Rollback, EndTransaction, RowsLeave
  <2>5. CASE Commit(s)
    BY <2>5 DEF Commit, EndTransaction, RowsLeave
  <2>6. QED
    BY <1>2, <2>1, <2>2, <2>3, <2>4, <2>5, Kinds
<1>3. QED
  BY <1>1, <1>2 DEF Next, Act

(* Rows that move to the committed table or are rolled back add none. *)
LEMMA LeavingTable ==
  ASSUME TypeOK, NEW s \in Sessions, RowsLeave(s)
  PROVE  Table' \subseteq Table
<1>1. \A t \in Sessions : pending'[t] \subseteq pending[t]
  BY DEF RowsLeave, TypeOK
<1>2. Flushed' \subseteq Flushed
  BY <1>1 DEF Flushed
<1>3. committed' \subseteq Table
  BY DEF RowsLeave, Table, Flushed
<1>4. QED
  BY <1>2, <1>3 DEF Table

(* An INSERT adds its one row. *)
LEMMA InsertedTable ==
  ASSUME TypeOK, NEW s \in Sessions, Insert(s)
  PROVE  Table' \subseteq Table \cup {NewRow(s, stamp[s])}
<1> DEFINE x == NewRow(s, stamp[s])
<1>0. committed' = committed /\ pending' = [pending EXCEPT ![s] = @ \cup {x}]
  BY DEF Insert
<1> HIDE DEF x
<1>1. \A u \in Sessions : pending'[u] \subseteq pending[u] \cup {x}
  BY <1>0 DEF TypeOK
<1>2. Flushed' \subseteq Flushed \cup {x}
  BY <1>1 DEF Flushed
<1>3. QED
  BY <1>0, <1>2 DEF Table, x

(* The inserted row carries its call's reference and direction. *)
LEMMA NewRowKey ==
  ASSUME NEW s, NEW t
  PROVE  KeyOf(NewRow(s, t)) = KeyOf(call(s))
BY DEF KeyOf, NewRow

(* At most one row per reference and direction, flushed or committed. *)
THEOREM AppliedOnceHolds == Spec => []AppliedOnce
<1>1. Init => AppliedOnce
  BY DEF Init, AppliedOnce, Table, Flushed
<1>2. TypeOK /\ AppliedOnce /\ [Next]_vars => AppliedOnce'
  <2> SUFFICES ASSUME TypeOK, AppliedOnce, [Next]_vars PROVE AppliedOnce'
    OBVIOUS
  <2>0. ASSUME Table' \subseteq Table PROVE AppliedOnce'
    BY <2>0 DEF AppliedOnce, KeyOf
  <2>1. CASE UNCHANGED <<committed, pending>>
    BY <2>0, <2>1 DEF Table, Flushed
  <2>2. ASSUME NEW s \in Sessions, RowsLeave(s) PROVE AppliedOnce'
    BY <2>0, <2>2, LeavingTable
  <2>3. ASSUME NEW s \in Sessions, Insert(s) PROVE AppliedOnce'
    <3> DEFINE x == NewRow(s, stamp[s])
    <3>1. Table' \subseteq Table \cup {x}
      BY <2>3, InsertedTable
    <3>2. \A r \in Table : KeyOf(r) # KeyOf(x)
      BY <2>3, NewRowKey DEF Insert, Keys
    <3>3. \A r, q \in Table \cup {x} : KeyOf(r) = KeyOf(q) => r = q
      BY <3>2 DEF AppliedOnce
    <3>4. QED
      BY <3>1, <3>3 DEF AppliedOnce, KeyOf
  <2>4. QED
    BY <2>1, <2>2, <2>3, StoreSteps
<1>3. QED
  BY <1>1, <1>2, TypeCorrect, PTL DEF Spec
-----------------------------------------------------------------------------
(* A session's step leaves the others' transactions alone. *)

Same(t) == /\ pc'[t] = pc[t] /\ prog'[t] = prog[t] /\ step'[t] = step[t]
           /\ base'[t] = base[t] /\ stamp'[t] = stamp[t] /\ pending'[t] = pending[t]

(* A session's step leaves the other sessions' control and rows alone. *)
LEMMA Frame ==
  ASSUME TypeOK, NEW s \in Sessions, NEW t \in Sessions \ {s}, Act(s)
  PROVE  Same(t)
<1>1. CASE Abandon(s)
  BY <1>1 DEF Abandon, Rollback, EndTransaction, Finish, Forget, Same, TypeOK
<1>2. ASSUME NEW p \in Programs[s], Begin(s, p) PROVE Same(t)
  BY <1>2 DEF Begin, Same, TypeOK
<1>3. CASE FindExisting(s) \/ Recover(s) \/ Insert(s)
  <2>1. Advance(s)
    BY <1>3 DEF FindExisting, Recover, Insert
  <2>2. pc'[t] = pc[t] /\ prog'[t] = prog[t] /\ step'[t] = step[t]
        /\ base'[t] = base[t] /\ stamp'[t] = stamp[t]
    BY <2>1 DEF Advance, Forget, TypeOK
  <2>3. pending'[t] = pending[t]
    BY <1>3 DEF FindExisting, Recover, Insert, TypeOK
  <2>4. QED
    BY <2>2, <2>3 DEF Same
<1>4. CASE MissExisting(s) \/ LockLast(s)
  BY <1>4 DEF MissExisting, LockLast, Goto, Same, TypeOK
<1>5. CASE ReadLast(s)
  BY <1>5 DEF ReadLast, Goto, Same, TypeOK
<1>6. CASE SendInsert(s)
  BY <1>6 DEF SendInsert, Goto, Same, TypeOK
<1>7. CASE InsertConflict(s)
  BY <1>7 DEF InsertConflict, Goto, Rollback, EndTransaction, Forget, Same, TypeOK
<1>8. CASE Commit(s)
  BY <1>8 DEF Commit, Finish, EndTransaction, Forget, Same, TypeOK
<1>9. QED
  BY <1>1, <1>2, <1>3, <1>4, <1>5, <1>6, <1>7, <1>8, Kinds

(* No row, flushed or committed, carries a negative balance. *)
NoneNegative == \A r \in Table : r.bal >= 0

(* What a call has read is not negative, it adds or takes something, and what
   it inserts is not negative either. *)
ReadOK(s) ==
  /\ base[s] # NoRow => base[s].bal >= 0
  /\ pc[s] \in {"read", "lock", "insert", "flush", "recover"} => call(s).amount > 0
  /\ pc[s] = "flush" => NewBalance(s) >= 0

(* An INSERT rejected for an account holder finds the entry it looks for. *)
FindsEntry(s) ==
  pc[s] = "recover" /\ call(s).user \in Accounts => KeyOf(call(s)) \in Keys(committed)

FindInv == NoneNegative /\ \A s \in Sessions : ReadOK(s) /\ FindsEntry(s)

(* A balance that passed the balance check is not negative. *)
LEMMA NewBalanceNonNegative ==
  ASSUME TypeOK, NEW s \in Sessions, pc[s] = "insert", ReadOK(s), ~Overdraws(s)
  PROVE  NewBalance(s) >= 0
<1>1. call(s) \in Call /\ call(s).amount > 0
  BY CallType DEF ReadOK
<1>2. BalanceOf(base[s]) \in Int /\ BalanceOf(base[s]) >= 0
  BY DEF ReadOK, BalanceOf, TypeOK, Row
<1>3. QED
  BY <1>1, <1>2 DEF NewBalance, Overdraws, Call, Directions

(* What a session has read and is about to insert stays good under every
   step. *)
LEMMA ReadOKStep ==
  ASSUME TypeOK, NoneNegative, NEW s \in Sessions, ReadOK(s), Act(s)
  PROVE  ReadOK(s)'
<1>1. ASSUME Finish(s) PROVE ReadOK(s)'
  BY <1>1 DEF Finish, Forget, ReadOK, TypeOK
<1>2. CASE Abandon(s) \/ Commit(s)
  BY <1>1, <1>2 DEF Abandon, Commit
<1>3. ASSUME NEW p \in Programs[s], Begin(s, p) PROVE ReadOK(s)'
  BY <1>3 DEF Begin, ReadOK, TypeOK
<1>4. CASE FindExisting(s) \/ Recover(s) \/ Insert(s)
  <2>1. Advance(s)
    BY <1>4 DEF FindExisting, Recover, Insert
  <2>2. base'[s] = NoRow /\ pc'[s] \in {"check", "commit"}
    BY <2>1 DEF Advance, Forget, TypeOK
  <2>3. QED
    BY <2>2 DEF ReadOK
<1>5. CASE MissExisting(s) \/ LockLast(s)
  <2>1. call(s)' = call(s) /\ base' = base /\ pc'[s] \in {"read", "insert"}
    BY <1>5 DEF MissExisting, LockLast, Goto, call, TypeOK
  <2>2. QED
    BY <1>5, <2>1 DEF MissExisting, LockLast, ReadOK
<1>6. CASE ReadLast(s)
  <2>1. call(s)' = call(s) /\ base'[s] = LastOf(Visible(s), call(s).user)
        /\ pc'[s] \in {"lock", "insert"}
    BY <1>6 DEF ReadLast, Goto, call, TypeOK
  <2>2. base'[s] # NoRow => base'[s] \in Table
    BY <2>1, LastOfUser DEF Visible, Table, Flushed
  <2>3. QED
    BY <1>6, <2>1, <2>2 DEF ReadLast, ReadOK, NoneNegative
<1>7. CASE SendInsert(s)
  <2>1. call(s)' = call(s) /\ base' = base /\ NewBalance(s)' = NewBalance(s)
    BY <1>7 DEF SendInsert, Goto, call, NewBalance
  <2>2. NewBalance(s) >= 0
    BY <1>7, NewBalanceNonNegative DEF SendInsert
  <2>3. QED
    BY <1>7, <2>1, <2>2 DEF SendInsert, ReadOK
<1>8. CASE InsertConflict(s)
  <2>1. call(s)' = call(s) /\ base'[s] = NoRow /\ pc'[s] = "recover"
    BY <1>8 DEF InsertConflict, Forget, Goto, call, TypeOK
  <2>2. QED
    BY <1>8, <2>1 DEF InsertConflict, ReadOK
<1>9. QED
  BY <1>2, <1>3, <1>4, <1>5, <1>6, <1>7, <1>8, Kinds

(* A session that goes to look for the entry finds it. *)
LEMMA FindsEntryStep ==
  ASSUME TypeOK, NEW s \in Sessions, ReadOK(s), FindsEntry(s), Act(s)
  PROVE  FindsEntry(s)'
<1>1. CASE InsertConflict(s)
  <2>1. call(s)' = call(s) /\ committed' = committed
    BY <1>1 DEF InsertConflict, Goto, call
  <2>2. NewBalance(s) >= 0 /\ NewBalance(s) \in Int
    <3>1. call(s) \in Call /\ BalanceOf(base[s]) \in Int
      BY <1>1, CallType DEF InsertConflict, BalanceOf, TypeOK, Row
    <3>2. QED
      BY <1>1, <3>1 DEF InsertConflict, ReadOK, NewBalance, Call
  <2>3. call(s).user \in Accounts => KeyOf(call(s)) \in Keys(committed)
    BY <1>1, <2>2 DEF InsertConflict, Rejected
  <2>4. QED
    BY <2>1, <2>3 DEF FindsEntry, Keys, KeyOf
<1>2. ASSUME pc'[s] # "recover" PROVE FindsEntry(s)'
  BY <1>2 DEF FindsEntry
<1>3. ASSUME Finish(s) PROVE pc'[s] # "recover"
  BY <1>3 DEF Finish, TypeOK
<1>4. CASE Abandon(s) \/ Commit(s)
  BY <1>2, <1>3, <1>4 DEF Abandon, Commit
<1>5. ASSUME NEW p \in Programs[s], Begin(s, p) PROVE FindsEntry(s)'
  <2>1. pc'[s] = "check"
    BY <1>5 DEF Begin, TypeOK
  <2>2. QED
    BY <1>2, <2>1
<1>6. CASE FindExisting(s) \/ Recover(s) \/ Insert(s)
  <2>1. pc'[s] \in {"check", "commit"}
    BY <1>6 DEF FindExisting, Recover, Insert, Advance, TypeOK
  <2>2. QED
    BY <1>2, <2>1
<1>7. CASE MissExisting(s) \/ ReadLast(s) \/ LockLast(s) \/ SendInsert(s)
  <2>1. pc'[s] \in {"read", "lock", "insert", "flush"}
    BY <1>7 DEF MissExisting, ReadLast, LockLast, SendInsert, Goto, TypeOK
  <2>2. QED
    BY <1>2, <2>1
<1>8. QED
  BY <1>1, <1>4, <1>5, <1>6, <1>7, Kinds

(* No committed row ever leaves the table. *)
LEMMA CommittedGrows ==
  ASSUME [Next]_vars
  PROVE  committed \subseteq committed'
BY StoreSteps DEF RowsLeave, Insert

(* A step leaves no negative balance in the table. *)
LEMMA NoneNegativeStep ==
  ASSUME TypeOK, FindInv, [Next]_vars
  PROVE  NoneNegative'
<1>0. ASSUME Table' \subseteq Table PROVE NoneNegative'
  BY <1>0 DEF FindInv, NoneNegative
<1>1. CASE UNCHANGED <<committed, pending>>
  BY <1>0, <1>1 DEF Table, Flushed
<1>2. ASSUME NEW u \in Sessions, RowsLeave(u) PROVE NoneNegative'
  BY <1>0, <1>2, LeavingTable
<1>3. ASSUME NEW u \in Sessions, Insert(u) PROVE NoneNegative'
  <2>1. Table' \subseteq Table \cup {NewRow(u, stamp[u])}
    BY <1>3, InsertedTable
  <2>2. NewRow(u, stamp[u]).bal >= 0
    BY <1>3 DEF Insert, FindInv, ReadOK, NewRow
  <2>3. QED
    BY <2>1, <2>2 DEF FindInv, NoneNegative
<1>4. QED
  BY <1>1, <1>2, <1>3, StoreSteps

(* No balance is negative, and the except branch finds its entry. *)
LEMMA FindInvHolds == Spec => []FindInv
<1>1. Init => FindInv
  BY DEF Init, FindInv, NoneNegative, Table, Flushed, ReadOK, FindsEntry
<1>2. TypeOK /\ FindInv /\ [Next]_vars => FindInv'
  <2> SUFFICES ASSUME TypeOK, FindInv, [Next]_vars PROVE FindInv'
    OBVIOUS
  <2>0. committed \subseteq committed' /\ NoneNegative'
    BY CommittedGrows, NoneNegativeStep
  <2>1. CASE UNCHANGED vars
    BY <2>1 DEF vars, FindInv, NoneNegative, Table, Flushed, ReadOK, FindsEntry, call,
       NewBalance, BalanceOf
  <2>2. ASSUME NEW s \in Sessions, Act(s) PROVE FindInv'
    <3>1. ReadOK(s)' /\ FindsEntry(s)'
      BY <2>2, ReadOKStep, FindsEntryStep DEF FindInv
    <3>2. ASSUME NEW t \in Sessions \ {s} PROVE ReadOK(t)' /\ FindsEntry(t)'
      <4>1. Same(t) /\ call(t)' = call(t)
        BY <2>2, Frame DEF Same, call
      <4>2. ReadOK(t)'
        BY <4>1 DEF Same, FindInv, ReadOK, NewBalance, BalanceOf
      <4>3. FindsEntry(t)'
        BY <2>0, <4>1 DEF Same, FindInv, FindsEntry, Keys, KeyOf
      <4>4. QED
        BY <4>2, <4>3
    <3>3. QED
      BY <2>0, <3>1, <3>2 DEF FindInv
  <2>3. QED
    BY <2>1, <2>2 DEF Next, Act
<1>3. QED
  BY <1>1, <1>2, TypeCorrect, PTL DEF Spec

(* An INSERT rejected for an account holder was rejected for its reference,
   and the entry under it is committed. *)
THEOREM RecoveryFindsHolds == Spec => []RecoveryFinds
<1>1. FindInv => RecoveryFinds
  BY DEF FindInv, RecoveryFinds, FindsEntry
<1>2. QED
  BY <1>1, FindInvHolds, PTL
-----------------------------------------------------------------------------
(* Requests of one call: a session about to commit sees its call's entry. *)

SeesEntry(s) ==
  /\ pc[s] # "idle" => prog[s] \in Programs[s] /\ step[s] = 1
  /\ pc[s] = "commit" => KeyOf(call(s)) \in Keys(Visible(s))

DurableInv == AckedIsDurable /\ \A s \in Sessions : SeesEntry(s)

(* A session about to commit goes on seeing its call's entry. *)
LEMMA SeesEntryStep ==
  ASSUME SingleCalls, TypeOK, NEW s \in Sessions, SeesEntry(s), Act(s)
  PROVE  SeesEntry(s)'
<1>0. pc[s] # "idle" => Len(prog[s]) = 1 /\ step[s] = 1
  BY DEF SeesEntry, SingleCalls
<1>1. ASSUME Finish(s) PROVE SeesEntry(s)'
  BY <1>1 DEF Finish, SeesEntry, TypeOK
<1>2. ASSUME NEW p \in Programs[s], Begin(s, p) PROVE SeesEntry(s)'
  BY <1>2 DEF Begin, SeesEntry, TypeOK
<1>3. ASSUME Advance(s), pc[s] # "idle", KeyOf(call(s)) \in Keys(Visible(s)')
      PROVE  SeesEntry(s)'
  <2>4. step[s] = 1 /\ Len(prog[s]) = 1
    BY <1>0, <1>3
  <2>0. ~(step[s] < Len(prog[s]))
    BY <2>4
  <2>1. prog' = prog /\ step' = step
    BY <1>3, <2>0 DEF Advance
  <2>2. call(s)' = call(s)
    BY <2>1 DEF call
  <2>3. QED
    BY <1>3, <2>1, <2>2 DEF SeesEntry, Keys, KeyOf
<1>4. CASE Abandon(s) \/ Commit(s)
  BY <1>1, <1>4 DEF Abandon, Commit
<1>5. CASE FindExisting(s) \/ Recover(s)
  BY <1>3, <1>5 DEF FindExisting, Recover, Visible
<1>6. CASE Insert(s)
  <2>1. NewRow(s, stamp[s]) \in Visible(s)'
    BY <1>6 DEF Insert, Visible, TypeOK
  <2>2. KeyOf(call(s)) \in Keys(Visible(s)')
    BY <2>1, NewRowKey DEF Keys
  <2>3. QED
    BY <1>3, <1>6, <2>2 DEF Insert
<1>7. CASE \/ MissExisting(s) \/ ReadLast(s) \/ LockLast(s)
           \/ SendInsert(s) \/ InsertConflict(s)
  <2>1. pc'[s] \in {"read", "lock", "insert", "flush", "recover"} /\ pc[s] # "idle"
    BY <1>7 DEF MissExisting, ReadLast, LockLast, SendInsert, InsertConflict, Goto, TypeOK
  <2>2. UNCHANGED <<prog, step>>
    BY <1>7 DEF MissExisting, ReadLast, LockLast, SendInsert, InsertConflict, Goto
  <2>3. QED
    BY <2>1, <2>2 DEF SeesEntry
<1>8. QED
  BY <1>2, <1>4, <1>5, <1>6, <1>7, Kinds

(* Where every request makes one call, an acknowledged call's entry is in the
   committed table. *)
THEOREM AckedIsDurableHolds == SingleCalls => (Spec => []AckedIsDurable)
<1> SUFFICES ASSUME SingleCalls PROVE Spec => []AckedIsDurable
  OBVIOUS
<1>1. Init => DurableInv
  BY DEF Init, DurableInv, AckedIsDurable, SeesEntry
<1>2. TypeOK /\ DurableInv /\ [Next]_vars => DurableInv'
  <2> SUFFICES ASSUME TypeOK, DurableInv, [Next]_vars PROVE DurableInv'
    OBVIOUS
  <2>0. committed \subseteq committed'
    BY CommittedGrows
  <2>1. CASE UNCHANGED vars
    BY <2>1 DEF vars, DurableInv, AckedIsDurable, SeesEntry, call, Visible
  <2>2. ASSUME NEW s \in Sessions, Act(s) PROVE DurableInv'
    <3>1. \A t \in Sessions : SeesEntry(t)'
      <4>1. SeesEntry(s)'
        BY <2>2, SeesEntryStep DEF DurableInv
      <4>2. ASSUME NEW t \in Sessions \ {s} PROVE SeesEntry(t)'
        BY <2>0, <2>2, Frame DEF Same, DurableInv, SeesEntry, call, Visible, Keys
      <4>3. QED
        BY <4>1, <4>2
    <3>3. CASE Commit(s)
      <4>1. SeesEntry(s) /\ Len(prog[s]) = 1 /\ step[s] = 1 /\ prog[s] \in Seq(Call)
        BY <3>3 DEF Commit, DurableInv, SeesEntry, SingleCalls, TypeOK
      <4>2. {prog[s][i] : i \in DOMAIN prog[s]} = {call(s)}
        BY <4>1 DEF call
      <4>3. KeyOf(call(s)) \in Keys(committed')
        BY <3>3, <4>1 DEF Commit, SeesEntry, Visible
      <4>4. QED
        BY <2>0, <3>1, <3>3, <4>2, <4>3 DEF Commit, DurableInv, AckedIsDurable, Keys
    <3>4. UNCHANGED acked \/ Commit(s)
      BY <2>2, Kinds DEF Begin, Abandon, FindExisting, MissExisting, ReadLast, LockLast,
         SendInsert, Insert, InsertConflict, Recover
    <3>5. CASE UNCHANGED acked /\ \A t \in Sessions : SeesEntry(t)'
      BY <2>0, <3>5 DEF DurableInv, AckedIsDurable, Keys
    <3>6. QED
      BY <3>1, <3>3, <3>4, <3>5
  <2>3. QED
    BY <2>1, <2>2 DEF Next, Act
<1>3. DurableInv => AckedIsDurable
  BY DEF DurableInv
<1>4. QED
  BY <1>1, <1>2, <1>3, TypeCorrect, PTL DEF Spec
-----------------------------------------------------------------------------
(* The chain of balances.  What a session has read is a row it sees, of the
   user it serves; what it has flushed continues a row it sees. *)

BaseOK(s) == base[s] # NoRow => /\ pc[s] # "idle"
                                /\ base[s] \in Visible(s)
                                /\ base[s].user = call(s).user
                                /\ pc[s] = "flush" => base[s].at < stamp[s]

PendingGrounded(s) == \A r \in pending[s] : Grounded(r, Visible(s))

GroundInv == ChainGrounded /\ \A s \in Sessions : BaseOK(s) /\ PendingGrounded(s)

(* A grounded balance stays grounded in a larger table. *)
LEMMA GroundedMonotone ==
  ASSUME NEW S, NEW T, S \subseteq T, NEW r, Grounded(r, S)
  PROVE  Grounded(r, T)
BY DEF Grounded

(* The row a session read stays one that it sees, of its own user. *)
LEMMA BaseOKStep ==
  ASSUME TypeOK, NEW s \in Sessions, BaseOK(s), Act(s)
  PROVE  BaseOK(s)'
<1>1. ASSUME base'[s] = NoRow PROVE BaseOK(s)'
  BY <1>1 DEF BaseOK
<1>2. CASE Abandon(s) \/ Commit(s) \/ InsertConflict(s)
  <2>1. Forget(s)
    BY <1>2 DEF Abandon, Commit, InsertConflict, Finish
  <2>2. QED
    BY <1>1, <2>1 DEF Forget, TypeOK
<1>3. CASE FindExisting(s) \/ Recover(s) \/ Insert(s)
  <2>1. Forget(s)
    BY <1>3 DEF FindExisting, Recover, Insert, Advance
  <2>2. QED
    BY <1>1, <2>1 DEF Forget, TypeOK
<1>4. ASSUME NEW p \in Programs[s], Begin(s, p) PROVE BaseOK(s)'
  BY <1>4 DEF Begin, BaseOK
<1>5. CASE MissExisting(s) \/ LockLast(s)
  <2>1. UNCHANGED <<prog, step, base, committed, pending>> /\ pc'[s] \in {"read", "insert"}
        /\ pc[s] # "idle"
    BY <1>5 DEF MissExisting, LockLast, Goto, TypeOK
  <2>2. QED
    BY <2>1 DEF BaseOK, call, Visible
<1>6. CASE ReadLast(s)
  <2>1. UNCHANGED <<prog, step, committed, pending>> /\ pc'[s] \in {"lock", "insert"}
    BY <1>6 DEF ReadLast, Goto, TypeOK
  <2>2. base'[s] = LastOf(Visible(s), call(s).user)
    BY <1>6 DEF ReadLast, TypeOK
  <2>3. base'[s] # NoRow => base'[s] \in Visible(s) /\ base'[s].user = call(s).user
    BY <2>2, LastOfUser
  <2>4. QED
    BY <2>1, <2>3 DEF BaseOK, call, Visible
<1>7. CASE SendInsert(s)
  <2>1. UNCHANGED <<prog, step, base, committed, pending>> /\ pc'[s] = "flush"
    BY <1>7 DEF SendInsert, Goto, TypeOK
  <2>2. PICK t \in Stamps : IsNextStamp(t) /\ stamp'[s] = t
    BY <1>7 DEF SendInsert, TypeOK
  <2>3. base[s] # NoRow => base[s].at < t
    BY <2>2 DEF BaseOK, Visible, Table, Flushed, IsNextStamp, Drawn
  <2>4. QED
    BY <2>1, <2>2, <2>3 DEF BaseOK, call, Visible
<1>10. QED
  BY <1>2, <1>3, <1>4, <1>5, <1>6, <1>7, Kinds

(* The inserted row continues the row its session read. *)
LEMMA NewRowGrounded ==
  ASSUME TypeOK, NEW s \in Sessions, pc[s] = "flush", BaseOK(s)
  PROVE  Grounded(NewRow(s, stamp[s]), Visible(s))
<1> DEFINE r == NewRow(s, stamp[s])
<1>1. r.user = call(s).user /\ r.dir = call(s).dir /\ r.amount = call(s).amount
      /\ r.at = stamp[s]
  BY DEF NewRow
<1>2. r.bal = IF r.dir = "CREDIT" THEN BalanceOf(base[s]) + r.amount
                                  ELSE BalanceOf(base[s]) - r.amount
  BY <1>1 DEF NewRow, NewBalance
<1>3. CASE base[s] = NoRow
  BY <1>2, <1>3 DEF Grounded, BalanceOf
<1>4. CASE base[s] # NoRow
  <2>1. base[s] \in Visible(s) /\ base[s].user = r.user
    BY <1>1, <1>4 DEF BaseOK
  <2>2. base[s].at < r.at
    BY <1>1, <1>4 DEF BaseOK
  <2>3. QED
    BY <1>2, <1>4, <2>1, <2>2 DEF Grounded, BalanceOf
<1>5. QED
  BY <1>3, <1>4

(* Flushed rows stay grounded in what their session sees. *)
LEMMA PendingGroundedStep ==
  ASSUME TypeOK, NEW s \in Sessions, BaseOK(s), PendingGrounded(s), Act(s)
  PROVE  PendingGrounded(s)'
<1>1. CASE Abandon(s) \/ InsertConflict(s) \/ Commit(s)
  <2>1. pending'[s] = {}
    BY <1>1 DEF Abandon, InsertConflict, Commit, Rollback, EndTransaction, TypeOK
  <2>2. QED
    BY <2>1 DEF PendingGrounded
<1>2. ASSUME UNCHANGED <<committed, pending>> PROVE PendingGrounded(s)'
  BY <1>2 DEF PendingGrounded, Visible
<1>3. CASE Insert(s)
  <2> DEFINE x == NewRow(s, stamp[s])
  <2>1. Grounded(x, Visible(s))
    BY <1>3, NewRowGrounded DEF Insert
  <2>2. pending'[s] = pending[s] \cup {x} /\ Visible(s) \subseteq Visible(s)'
    BY <1>3 DEF Insert, Visible, TypeOK
  <2>3. \A r \in pending'[s] : Grounded(r, Visible(s))
    BY <2>1, <2>2 DEF PendingGrounded
  <2>4. \A r \in pending'[s] : Grounded(r, Visible(s)')
    BY <2>2, <2>3, GroundedMonotone
  <2>5. QED
    BY <2>4 DEF PendingGrounded, Grounded
<1>4. QED
  BY <1>1, <1>2, <1>3, Kinds DEF Begin, FindExisting, MissExisting, ReadLast, LockLast,
     SendInsert, Recover

(* Every committed balance continues an older committed one of its user. *)
THEOREM ChainGroundedHolds == Spec => []ChainGrounded
<1>1. Init => GroundInv
  BY DEF Init, GroundInv, ChainGrounded, BaseOK, PendingGrounded
<1>2. TypeOK /\ GroundInv /\ [Next]_vars => GroundInv'
  <2> SUFFICES ASSUME TypeOK, GroundInv, [Next]_vars PROVE GroundInv'
    OBVIOUS
  <2>0. committed \subseteq committed'
    BY CommittedGrows
  <2>1. CASE UNCHANGED vars
    BY <2>1 DEF vars, GroundInv, ChainGrounded, BaseOK, PendingGrounded, Grounded, call, Visible
  <2>2. ASSUME NEW s \in Sessions, Act(s) PROVE GroundInv'
    <3>1. ASSUME NEW t \in Sessions PROVE BaseOK(t)' /\ PendingGrounded(t)'
      <4>1. CASE t = s
        BY <2>2, <4>1, BaseOKStep, PendingGroundedStep DEF GroundInv
      <4>2. CASE t # s
        <5>1. Same(t) /\ Visible(t) \subseteq Visible(t)'
          BY <2>0, <2>2, <4>2, Frame DEF Same, Visible
        <5>2. BaseOK(t)'
          BY <5>1 DEF GroundInv, BaseOK, Same, call
        <5>3. \A r \in pending'[t] : Grounded(r, Visible(t)')
          BY <5>1, GroundedMonotone DEF GroundInv, PendingGrounded, Same
        <5>4. QED
          BY <5>2, <5>3 DEF PendingGrounded, Grounded
      <4>3. QED
        BY <4>1, <4>2
    <3>2. ChainGrounded'
      <4>1. \A r \in committed : Grounded(r, committed')
        BY <2>0, GroundedMonotone DEF GroundInv, ChainGrounded
      <4>2. CASE committed' = committed
        BY <4>1, <4>2 DEF ChainGrounded, Grounded
      <4>3. CASE Commit(s)
        <5>1. committed' = Visible(s)
          BY <4>3 DEF Commit, Visible
        <5>2. \A r \in pending[s] : Grounded(r, committed')
          BY <5>1 DEF GroundInv, PendingGrounded
        <5>3. QED
          BY <4>1, <4>3, <5>2 DEF Commit, ChainGrounded, Grounded
      <4>4. committed' = committed \/ Commit(s)
        BY <2>2, Kinds DEF Begin, Abandon, FindExisting, MissExisting, ReadLast, LockLast,
           SendInsert, Insert, InsertConflict, Recover
      <4>5. QED
        BY <4>2, <4>3, <4>4
    <3>3. QED
      BY <3>1, <3>2 DEF GroundInv
  <2>3. QED
    BY <2>1, <2>2 DEF Next, Act
<1>3. GroundInv => ChainGrounded
  BY DEF GroundInv
<1>4. QED
  BY <1>1, <1>2, <1>3, TypeCorrect, PTL DEF Spec
-----------------------------------------------------------------------------
(* Sums of amounts, as the Bank takes them: a fold over a finite set, defined
   by choosing the elements one after the other.  The sum does not depend on
   that order, which is shown by induction on the number of entries. *)

Some(s) == CHOOSE x \in s : TRUE

(* One round of the sum over s, the smaller sets being summed by g. *)
Round(g, s) == IF s = {} THEN 0 ELSE Some(s).amount + g[s \ {Some(s)}]

(* g sums each set of F. *)
Sums(g, F) == g = [s \in F |-> Round(g, s)]

SumOn(S) == CHOOSE g : Sums(g, SUBSET S)

(* The Bank's sum is the fold. *)
LEMMA AmountsIs == ASSUME NEW S PROVE AbstractBank!Amounts(S) = SumOn(S)[S]
BY DEF AbstractBank!Amounts, AbstractBank!MapThenSumSet, AbstractBank!MapThenFoldSet,
       SumOn, Sums, Round, Some

(* A set that is not empty has the element chosen from it. *)
LEMMA SomeIn == ASSUME NEW s, s # {} PROVE Some(s) \in s
BY DEF Some

(* The fold over a finite set exists: sums of sets of up to n elements give
   those of sets with one more. *)
LEMMA SumExists ==
  ASSUME NEW S, IsFiniteSet(S)
  PROVE  Sums(SumOn(S), SUBSET S)
<1> DEFINE T == {n \in Nat : \E g : Sums(g, UpTo(S, n))}
<1>1. 0 \in T
  <2>1. UpTo(S, 0) = {{}}
    BY UpToNone
  <2>2. Sums([s \in UpTo(S, 0) |-> 0], UpTo(S, 0))
    BY <2>1 DEF Sums, Round
  <2>3. QED
    BY <2>2
<1>2. ASSUME NEW n \in Nat, n \in T PROVE n + 1 \in T
  <2>1. PICK g : Sums(g, UpTo(S, n))
    BY <1>2
  <2> DEFINE h == [s \in UpTo(S, n+1) |-> Round(g, s)]
  <2>2. ASSUME NEW s \in UpTo(S, n+1) PROVE Round(h, s) = Round(g, s)
    <3>1. CASE s = {}
      BY <3>1 DEF Round
    <3>2. CASE s # {}
      <4> DEFINE r == s \ {Some(s)}
      <4>1. r \in UpTo(S, n) /\ r \in UpTo(S, n+1)
        BY <3>2, SomeIn, UpToLess
      <4>2. h[r] = Round(g, r) /\ g[r] = Round(g, r)
        BY <2>1, <4>1 DEF Sums
      <4>3. QED
        BY <3>2, <4>2 DEF Round
    <3>3. QED
      BY <3>1, <3>2
  <2>3. h = [s \in UpTo(S, n+1) |-> Round(h, s)]
    BY <2>2
  <2>4. Sums(h, UpTo(S, n+1))
    BY <2>3 DEF Sums
  <2>5. QED
    BY <2>4
<1>3. Cardinality(S) \in Nat
  BY FS_CardinalityType
<1> HIDE DEF T
<1>4a. Cardinality(S) \in T
  BY <1>1, <1>2, <1>3, Induction
<1>4. PICK g : Sums(g, UpTo(S, Cardinality(S)))
  BY <1>4a DEF T
<1>5. UpTo(S, Cardinality(S)) = SUBSET S
  BY UpToAll
<1>6. QED
  BY <1>4, <1>5 DEF SumOn

(* The fold over a set sums its subsets as their own folds do. *)
LEMMA SumAgrees ==
  ASSUME NEW S, IsFiniteSet(S), NEW s \in SUBSET S
  PROVE  AbstractBank!Amounts(s) = SumOn(S)[s]
<1> DEFINE T == {n \in Nat : \A r \in SUBSET s : Cardinality(r) <= n => SumOn(s)[r] = SumOn(S)[r]}
<1>0. IsFiniteSet(s) /\ Sums(SumOn(s), SUBSET s) /\ Sums(SumOn(S), SUBSET S)
  BY FS_Subset, SumExists
<1>1. 0 \in T
  <2>1. ASSUME NEW r \in SUBSET s, Cardinality(r) <= 0 PROVE r = {}
    BY <1>0, <2>1, FS_EmptySet, FS_Subset, FS_CardinalityType
  <2>2. \A r \in SUBSET s : r = {} => SumOn(s)[r] = SumOn(S)[r]
    BY <1>0 DEF Sums, Round
  <2>3. QED
    BY <2>1, <2>2
<1>2. ASSUME NEW n \in Nat, n \in T PROVE n + 1 \in T
  <2>1. ASSUME NEW r \in SUBSET s, Cardinality(r) <= n + 1 PROVE SumOn(s)[r] = SumOn(S)[r]
    <3>1. CASE r = {}
      BY <1>0, <3>1 DEF Sums, Round
    <3>2. CASE r # {}
      <4> DEFINE q == r \ {Some(r)}
      <4>1. Some(r) \in r
        BY <3>2, SomeIn
      <4>2. q \in SUBSET s /\ Cardinality(q) = Cardinality(r) - 1 /\ Cardinality(r) \in Nat
        BY <1>0, <4>1, Smaller
      <4>3. SumOn(s)[q] = SumOn(S)[q]
        BY <1>2, <2>1, <4>2
      <4>4. SumOn(s)[r] = Some(r).amount + SumOn(s)[q] /\ SumOn(S)[r] = Some(r).amount + SumOn(S)[q]
        BY <1>0, <3>2 DEF Sums, Round
      <4>5. QED
        BY <4>3, <4>4
    <3>3. QED
      BY <3>1, <3>2
  <2>2. QED
    BY <2>1
<1>3. Cardinality(s) \in Nat
  BY <1>0, FS_CardinalityType
<1> HIDE DEF T
<1>4. Cardinality(s) \in T
  BY <1>1, <1>2, <1>3, Induction
<1>5. QED
  BY <1>3, <1>4, AmountsIs DEF T

(* No entries sum to zero. *)
LEMMA AmountsEmpty == AbstractBank!Amounts({}) = 0
<1>1. Sums(SumOn({}), SUBSET {})
  BY FS_EmptySet, SumExists
<1>2. QED
  BY <1>1, AmountsIs DEF Sums, Round

(* The sum is the chosen entry's amount and the sum of the others. *)
LEMMA AmountsRound ==
  ASSUME NEW S, IsFiniteSet(S), S # {}
  PROVE  AbstractBank!Amounts(S) = Some(S).amount + AbstractBank!Amounts(S \ {Some(S)})
<1>1. Sums(SumOn(S), SUBSET S)
  BY SumExists
<1>2. S \ {Some(S)} \in SUBSET S /\ S \in SUBSET S
  OBVIOUS
<1>3. SumOn(S)[S] = Some(S).amount + SumOn(S)[S \ {Some(S)}]
  BY <1>1, <1>2 DEF Sums, Round
<1>4. QED
  BY <1>2, <1>3, SumAgrees

(* A sum of integers is one. *)
LEMMA AmountsInt ==
  ASSUME NEW S, IsFiniteSet(S), \A e \in S : e.amount \in Int
  PROVE  \A s \in SUBSET S : AbstractBank!Amounts(s) \in Int
<1> DEFINE T == {n \in Nat : \A s \in SUBSET S : Cardinality(s) = n => AbstractBank!Amounts(s) \in Int}
<1>1. 0 \in T
  BY AmountsEmpty, FS_EmptySet, FS_Subset
<1>2. ASSUME NEW n \in Nat, n \in T PROVE n + 1 \in T
  <2>1. ASSUME NEW s \in SUBSET S, Cardinality(s) = n + 1 PROVE AbstractBank!Amounts(s) \in Int
    <3>1. s # {} /\ IsFiniteSet(s)
      BY <2>1, FS_EmptySet, FS_Subset
    <3>2. Some(s) \in s /\ Some(s).amount \in Int
      BY <3>1, SomeIn
    <3>3. Cardinality(s \ {Some(s)}) = n /\ s \ {Some(s)} \in SUBSET S
      BY <2>1, <3>2, Smaller
    <3>4. AbstractBank!Amounts(s \ {Some(s)}) \in Int
      BY <1>2, <3>3
    <3>5. QED
      BY <3>1, <3>2, <3>4, AmountsRound
  <2>2. QED
    BY <2>1
<1> HIDE DEF T
<1>3. \A n \in Nat : n \in T
  BY <1>1, <1>2, Induction
<1>4. QED
  BY <1>3, FS_Subset, FS_CardinalityType DEF T

(* The sum is any entry's amount and the sum of the others: whichever entry
   is taken first. *)
LEMMA AmountsRemove ==
  ASSUME NEW S, IsFiniteSet(S), \A e \in S : e.amount \in Int, NEW x \in S
  PROVE  AbstractBank!Amounts(S) = x.amount + AbstractBank!Amounts(S \ {x})
<1> DEFINE T == {n \in Nat : \A s \in SUBSET S : Cardinality(s) = n =>
                    \A y \in s : AbstractBank!Amounts(s) = y.amount + AbstractBank!Amounts(s \ {y})}
<1>1. 0 \in T
  BY FS_EmptySet, FS_Subset
<1>2. ASSUME NEW n \in Nat, n \in T PROVE n + 1 \in T
  <2>1. ASSUME NEW s \in SUBSET S, Cardinality(s) = n + 1, NEW y \in s
        PROVE  AbstractBank!Amounts(s) = y.amount + AbstractBank!Amounts(s \ {y})
    <3> DEFINE c == Some(s)
    <3>1. IsFiniteSet(s) /\ c \in s
      BY FS_Subset, SomeIn
    <3>2. AbstractBank!Amounts(s) = c.amount + AbstractBank!Amounts(s \ {c})
      BY <3>1, AmountsRound
    <3>3. CASE y = c
      BY <3>2, <3>3
    <3>4. CASE y # c
      <4>1. /\ s \ {c} \in SUBSET S /\ Cardinality(s \ {c}) = n /\ y \in s \ {c}
            /\ s \ {y} \in SUBSET S /\ Cardinality(s \ {y}) = n /\ c \in s \ {y}
        <5>1. s \ {c} \in SUBSET S /\ Cardinality(s \ {c}) = n + 1 - 1
          BY <2>1, <3>1, Smaller
        <5>2. s \ {y} \in SUBSET S /\ Cardinality(s \ {y}) = n + 1 - 1
          BY <2>1, Smaller
        <5>3. n + 1 - 1 = n
          OBVIOUS
        <5>4. QED
          BY <3>1, <3>4, <5>1, <5>2, <5>3
      <4>2. /\ AbstractBank!Amounts(s \ {c}) = y.amount + AbstractBank!Amounts((s \ {c}) \ {y})
            /\ AbstractBank!Amounts(s \ {y}) = c.amount + AbstractBank!Amounts((s \ {y}) \ {c})
        BY <1>2, <4>1
      <4>3. (s \ {c}) \ {y} = (s \ {y}) \ {c} /\ (s \ {c}) \ {y} \in SUBSET S
        OBVIOUS
      <4>4. c.amount \in Int /\ y.amount \in Int /\ AbstractBank!Amounts((s \ {c}) \ {y}) \in Int
        BY <3>1, <4>3, AmountsInt
      <4> DEFINE rest == AbstractBank!Amounts((s \ {c}) \ {y})
      <4>5. AbstractBank!Amounts(s) = c.amount + (y.amount + rest) /\ AbstractBank!Amounts(s \ {y}) = c.amount + rest
        BY <3>2, <4>2, <4>3
      <4> HIDE DEF rest, c
      <4>6. QED
        BY <4>4, <4>5 DEF rest
    <3>5. QED
      BY <3>3, <3>4
  <2>2. QED
    BY <2>1
<1> HIDE DEF T
<1>3. Cardinality(S) \in Nat /\ Cardinality(S) \in T
  BY <1>1, <1>2, Induction, FS_CardinalityType
<1>4. QED
  BY <1>3 DEF T

(* An entry that is not among them adds its amount. *)
LEMMA AmountsAdd ==
  ASSUME NEW S, IsFiniteSet(S), \A e \in S : e.amount \in Int,
         NEW x, x.amount \in Int, x \notin S
  PROVE  AbstractBank!Amounts(S \cup {x}) = x.amount + AbstractBank!Amounts(S)
<1>1. IsFiniteSet(S \cup {x})
  BY FS_AddElement
<1>2. (S \cup {x}) \ {x} = S
  OBVIOUS
<1>3. QED
  BY <1>1, <1>2, AmountsRemove
-----------------------------------------------------------------------------
(* Exact balances.  A session that has read a user's newest row goes on seeing
   it as the newest until it inserts, unless another session commits rows of
   that user in between, which marks it as overtaken for that user.  So where
   the committed balance is exact, what a session that is not overtaken sees is
   exact too, and so is the table it commits. *)

RowsOf(S, u) == {r \in S : r.user = u}
Newest(r, R) == r \in R /\ \A q \in R : q.at <= r.at
SumOf(S, u) == AbstractBank!Balance(EntriesOf(S), u)

(* The newest row's running balance is what the user's entries sum to. *)
ExactIn(S, u) == \A r \in S : Newest(r, RowsOf(S, u)) => r.bal = SumOf(S, u)

(* No two rows bear one stamp, nor will the rows under way. *)
Apart ==
  /\ \A r, q \in Table : r.at = q.at => r = q
  /\ \A s \in Sessions : pc[s] = "flush" => \A r \in Table : r.at # stamp[s]
  /\ \A s, t \in Sessions :
       pc[s] = "flush" /\ pc[t] = "flush" /\ s # t => stamp[s] # stamp[t]

(* A call that no other session has overtaken has read the newest row there
   still is, or there is none, and its own row will be newer. *)
ReadsLast(s) ==
  pc[s] \in {"lock", "insert", "flush"} /\ call(s).user \notin overtaken[s] =>
    /\ IF base[s] = NoRow THEN RowsOf(Visible(s), call(s).user) = {}
                          ELSE Newest(base[s], RowsOf(Visible(s), call(s).user))
    /\ pc[s] = "flush" => \A r \in RowsOf(Visible(s), call(s).user) : r.at < stamp[s]

(* What a session sees of a user nobody has overtaken it for is exact where
   the committed table is. *)
Follows(s) ==
  \A u \in Users : u \notin overtaken[s] /\ ExactIn(committed, u) => ExactIn(Visible(s), u)

Finite == IsFiniteSet(committed) /\ \A s \in Sessions : IsFiniteSet(pending[s])

ExactInv ==
  /\ Finite /\ Apart
  /\ \A s \in Sessions : ReadsLast(s) /\ Follows(s)

(* Balances depend on the user's own rows only. *)
LEMMA ExactRows ==
  ASSUME NEW S, NEW R, NEW u, RowsOf(S, u) = RowsOf(R, u), ExactIn(S, u)
  PROVE  ExactIn(R, u)
<1>1. SumOf(S, u) = SumOf(R, u)
  <2> DEFINE Of(Q, d) == {e \in EntriesOf(Q) : e.user = u /\ e.dir = d}
  <2>1. ASSUME NEW d PROVE Of(S, d) = Of(R, d)
    <3>1. \A Q : Of(Q, d) = {e \in EntriesOf(RowsOf(Q, u)) : e.dir = d}
      BY DEF EntriesOf, RowsOf
    <3>2. QED
      BY <3>1
  <2>2. QED
    BY <2>1 DEF SumOf, AbstractBank!Balance, AbstractBank!Total
<1>2. QED
  BY <1>1 DEF ExactIn, Newest, RowsOf

(* Finitely many rows have finitely many entries. *)
LEMMA EntriesFinite == ASSUME NEW S, IsFiniteSet(S) PROVE IsFiniteSet(EntriesOf(S))
<1> DEFINE EntryOf(r) == [user |-> r.user, dir |-> r.dir, ref |-> r.ref, amount |-> r.amount]
           f == [r \in S |-> EntryOf(r)]
<1>1. f \in Surjection(S, EntriesOf(S))
  BY DEF Surjection, EntriesOf
<1>2. QED
  BY <1>1, FS_Surjection

(* A row under a new key adds its amount to its user's credits or debits. *)
LEMMA SumAdds ==
  ASSUME NEW S, S \subseteq Row, IsFiniteSet(S), NEW x \in Row, KeyOf(x) \notin Keys(S)
  PROVE  SumOf(S \cup {x}, x.user) =
           IF x.dir = "CREDIT" THEN SumOf(S, x.user) + x.amount
                               ELSE SumOf(S, x.user) - x.amount
<1> DEFINE e == [user |-> x.user, dir |-> x.dir, ref |-> x.ref, amount |-> x.amount]
           Of(Q, d) == {f \in EntriesOf(Q) : f.user = x.user /\ f.dir = d}
           T(Q, d) == AbstractBank!Total(EntriesOf(Q), x.user, d)
<1>1. EntriesOf(S \cup {x}) = EntriesOf(S) \cup {e}
  BY DEF EntriesOf
<1>2. e \notin EntriesOf(S)
  BY DEF EntriesOf, Keys, KeyOf
<1>3. \A f \in EntriesOf(S) : f.amount \in Int
  BY DEF EntriesOf, Row
<1>4. IsFiniteSet(EntriesOf(S))
  BY EntriesFinite
<1>5. ASSUME NEW d PROVE IsFiniteSet(Of(S, d)) /\ T(S, d) \in Int
  <2>1. Of(S, d) \in SUBSET EntriesOf(S)
    OBVIOUS
  <2>2. QED
    BY <1>3, <1>4, <2>1, FS_Subset, AmountsInt DEF AbstractBank!Total
<1>6. x.dir \in Directions /\ x.amount \in Int
  BY DEF Row
<1>7. T(S \cup {x}, x.dir) = x.amount + T(S, x.dir)
  <2>1. Of(S \cup {x}, x.dir) = Of(S, x.dir) \cup {e}
    BY <1>1
  <2>2. e \notin Of(S, x.dir) /\ e.amount = x.amount
    BY <1>2
  <2>3. AbstractBank!Amounts(Of(S, x.dir) \cup {e}) = e.amount + AbstractBank!Amounts(Of(S, x.dir))
    BY <1>3, <1>5, <1>6, <2>2, AmountsAdd
  <2>4. QED
    BY <2>1, <2>2, <2>3 DEF AbstractBank!Total
<1>8. ASSUME NEW d, d # x.dir PROVE T(S \cup {x}, d) = T(S, d)
  <2>1. Of(S \cup {x}, d) = Of(S, d)
    BY <1>1, <1>8
  <2>2. QED
    BY <2>1 DEF AbstractBank!Total
<1> HIDE DEF T, Of, e
<1>9. \A Q : SumOf(Q, x.user) = T(Q, "CREDIT") - T(Q, "DEBIT")
  BY DEF SumOf, AbstractBank!Balance, T
<1>13. T(S, "CREDIT") \in Int /\ T(S, "DEBIT") \in Int
  BY <1>5
<1>14. /\ SumOf(S, x.user) = T(S, "CREDIT") - T(S, "DEBIT")
      /\ SumOf(S \cup {x}, x.user) = T(S \cup {x}, "CREDIT") - T(S \cup {x}, "DEBIT")
  BY <1>9
<1>10. CASE x.dir = "CREDIT"
  <2>1. T(S \cup {x}, "DEBIT") = T(S, "DEBIT")
    BY <1>8, <1>10
  <2>2. QED
    BY <1>6, <1>7, <1>10, <1>13, <1>14, <2>1
<1>11. CASE x.dir = "DEBIT"
  <2>1. T(S \cup {x}, "CREDIT") = T(S, "CREDIT")
    BY <1>8, <1>11
  <2>2. QED
    BY <1>6, <1>7, <1>11, <1>13, <1>14, <2>1
<1>12. QED
  BY <1>6, <1>10, <1>11 DEF Directions

(* A user without rows has no entries and the balance zero. *)
LEMMA SumNone ==
  ASSUME NEW S, NEW u, RowsOf(S, u) = {}
  PROVE  SumOf(S, u) = 0
<1>1. \A d : {e \in EntriesOf(S) : e.user = u /\ e.dir = d} = {}
  BY DEF EntriesOf, RowsOf
<1>2. QED
  BY <1>1, AmountsEmpty DEF SumOf, AbstractBank!Balance, AbstractBank!Total

(* A user with rows has a newest one: stamps are bounded. *)
LEMMA LastIsNewest ==
  ASSUME NEW S, S \subseteq Row, NEW u
  PROVE  IF LastOf(S, u) = NoRow THEN RowsOf(S, u) = {}
                                 ELSE LastOf(S, u) \in S /\ Newest(LastOf(S, u), RowsOf(S, u))
<1>1. CASE RowsOf(S, u) = {}
  BY <1>1, LastOfUser DEF RowsOf
<1>2. CASE RowsOf(S, u) # {}
  <2> DEFINE ages == {MaxStamp - r.at : r \in RowsOf(S, u)}
  <2>1. \A r \in S : r.at \in Int /\ MaxStamp - r.at \in Nat
    BY StampAssumption DEF Row, Stamps
  <2>2. ages \in SUBSET Nat /\ ages # {}
    BY <1>2, <2>1 DEF RowsOf
  <2>3. PICK n \in ages : \A m \in ages : n <= m
    BY <2>2, LeastOf
  <2>4. PICK r \in RowsOf(S, u) : n = MaxStamp - r.at
    BY <2>3
  <2>5. \A q \in S : q.user = u => q.at <= r.at
    <3>1. \A q \in RowsOf(S, u) : MaxStamp - r.at <= MaxStamp - q.at
      BY <2>3, <2>4
    <3>2. QED
      BY <2>1, <2>4, <3>1, StampAssumption DEF RowsOf
  <2>6. IsLast(r, S, u) /\ r \in S
    BY <2>4, <2>5 DEF IsLast, RowsOf
  <2>7. LastOf(S, u) \in S /\ LastOf(S, u) # NoRow
    BY <2>6, NoRowAssumption DEF LastOf
  <2>8. QED
    BY <2>7, LastOfUser DEF Newest, RowsOf
<1>3. QED
  BY <1>1, <1>2

(* Where balances are exact, the balance read is the sum of the entries. *)
LEMMA ExactBalance ==
  ASSUME NEW S, S \subseteq Row, NEW u, ExactIn(S, u)
  PROVE  BalanceOf(LastOf(S, u)) = SumOf(S, u)
<1>1. CASE LastOf(S, u) = NoRow
  BY <1>1, LastIsNewest, SumNone DEF BalanceOf
<1>2. CASE LastOf(S, u) # NoRow
  BY <1>2, LastIsNewest DEF BalanceOf, ExactIn
<1>3. QED
  BY <1>1, <1>2

(* The balance get_balance answers is the newest row's. *)
LEMMA BalanceExactIn ==
  ASSUME NEW S, S \subseteq Row, NEW u, BalanceOf(LastOf(S, u)) = SumOf(S, u),
         \A r, q \in S : r.at = q.at => r = q
  PROVE  ExactIn(S, u)
<1>1. ASSUME NEW r \in S, Newest(r, RowsOf(S, u)) PROVE r.bal = SumOf(S, u)
  <2> DEFINE l == LastOf(S, u)
  <2>1. l # NoRow /\ l \in S /\ Newest(l, RowsOf(S, u))
    BY <1>1, LastIsNewest DEF Newest
  <2>2. r.at <= l.at /\ l.at <= r.at
    BY <1>1, <2>1 DEF Newest
  <2>3. r.at \in Int /\ l.at \in Int
    BY <2>1 DEF Row, Stamps
  <2>4. r.at = l.at
    BY <2>2, <2>3, Between
  <2>5. r = l
    BY <2>1, <2>4
  <2>6. QED
    BY <2>1, <2>5 DEF BalanceOf
<1>2. QED
  BY <1>1 DEF ExactIn

(* Every stamp drawn is a whole number. *)
LEMMA DrawnType == ASSUME TypeOK PROVE Drawn \subseteq Int
<1>1. Table \subseteq Row
  BY DEF TypeOK, Table, Flushed
<1>2. \A r \in Table : r.at \in Int
  BY <1>1 DEF Row, Stamps
<1>3. \A s \in Sessions : stamp[s] \in Int
  BY DEF TypeOK
<1>4. QED
  BY <1>2, <1>3 DEF Drawn

(* A session draws a stamp after every other. *)
LEMMA SentLater ==
  ASSUME TypeOK, NEW s \in Sessions, SendInsert(s)
  PROVE  /\ \A r \in Table : r.at < stamp'[s] /\ r.at # stamp'[s]
         /\ \A t \in Sessions : stamp[t] # stamp'[s]
<1>1. PICK t \in Stamps : IsNextStamp(t) /\ stamp'[s] = t
  BY DEF SendInsert, TypeOK
<1>2. \A d \in Drawn : d < t /\ d # t
  <2>1. t \in Int
    BY DEF Stamps
  <2>2. QED
    BY <1>1, <2>1, DrawnType DEF IsNextStamp
<1>3. QED
  BY <1>1, <1>2 DEF Drawn

(* No step makes two stamps alike. *)
LEMMA ApartStep ==
  ASSUME TypeOK, Apart, NEW s \in Sessions, Act(s)
  PROVE  Apart'
<1>0. \A t \in Sessions \ {s} : pc'[t] = pc[t] /\ stamp'[t] = stamp[t]
  BY Frame DEF Same
<1>1. ASSUME Table' \subseteq Table, pc'[s] # "flush" PROVE Apart'
  BY <1>0, <1>1 DEF Apart
<1>2. CASE Insert(s)
  <2>1. Table' \subseteq Table \cup {NewRow(s, stamp[s])} /\ NewRow(s, stamp[s]).at = stamp[s]
        /\ pc[s] = "flush"
    BY <1>2, InsertedTable DEF NewRow, Insert
  <2>2. pc'[s] # "flush"
    BY <1>2 DEF Insert, Advance, TypeOK
  <2> DEFINE x == NewRow(s, stamp[s])
  <2>3. \A r \in Table : r.at # x.at
    BY <2>1 DEF Apart
  <2>4. \A t \in Sessions : pc'[t] = "flush" => x.at # stamp'[t]
    BY <1>0, <2>1, <2>2 DEF Apart
  <2> HIDE DEF x
  <2>5. Table' \subseteq Table \cup {x}
    BY <2>1 DEF x
  <2>6. \A r, q \in Table' : r.at = q.at => r = q
    BY <2>3, <2>5 DEF Apart
  <2>7. \A t \in Sessions : pc'[t] = "flush" => \A r \in Table' : r.at # stamp'[t]
    BY <1>0, <2>2, <2>4, <2>5 DEF Apart
  <2>8. QED
    BY <1>0, <2>2, <2>6, <2>7 DEF Apart
<1>3. CASE SendInsert(s)
  <2>1. Table' = Table
    BY <1>3 DEF SendInsert, Table, Flushed
  <2>2. /\ \A r \in Table : r.at # stamp'[s]
        /\ \A t \in Sessions : stamp[t] # stamp'[s]
    BY <1>3, SentLater
  <2>3. QED
    BY <1>0, <2>1, <2>2 DEF Apart
<1>4. CASE \/ FindExisting(s) \/ Recover(s) \/ MissExisting(s)
           \/ ReadLast(s) \/ LockLast(s)
  <2>1. Table' = Table
    BY <1>4 DEF FindExisting, Recover, MissExisting, ReadLast, LockLast, Table, Flushed
  <2>2. pc'[s] # "flush"
    BY <1>4 DEF FindExisting, Recover, MissExisting, ReadLast, LockLast, Advance, Goto, TypeOK
  <2>3. QED
    BY <1>1, <2>1, <2>2
<1>5. CASE Abandon(s) \/ InsertConflict(s) \/ Commit(s)
  <2>1. RowsLeave(s)
    BY <1>5 DEF Abandon, InsertConflict, Commit, Rollback, EndTransaction, RowsLeave
  <2>2. pc'[s] # "flush"
    BY <1>5 DEF Abandon, InsertConflict, Commit, Finish, Goto, TypeOK
  <2>3. QED
    BY <1>1, <2>1, <2>2, LeavingTable
<1>6. ASSUME NEW p \in Programs[s], Begin(s, p) PROVE Apart'
  <2>1. Table' = Table
    BY <1>6 DEF Begin, Table, Flushed
  <2>2. pc'[s] # "flush"
    BY <1>6 DEF Begin, TypeOK
  <2>3. QED
    BY <1>1, <2>1, <2>2
<1>7. QED
  BY <1>2, <1>3, <1>4, <1>5, <1>6, Kinds

(* Only finitely many rows are ever flushed. *)
LEMMA FiniteStep ==
  ASSUME TypeOK, Finite, NEW s \in Sessions, Act(s)
  PROVE  Finite'
<1>0. \A t \in Sessions \ {s} : pending'[t] = pending[t]
  BY Frame DEF Same
<1>1. CASE UNCHANGED <<committed, pending>>
  BY <1>1 DEF Finite
<1>2. CASE Insert(s)
  <2>1. pending'[s] = pending[s] \cup {NewRow(s, stamp[s])} /\ committed' = committed
    BY <1>2 DEF Insert, TypeOK
  <2>2. IsFiniteSet(pending'[s])
    BY <2>1, FS_AddElement DEF Finite
  <2>3. QED
    BY <1>0, <2>1, <2>2 DEF Finite
<1>3. CASE Abandon(s) \/ InsertConflict(s) \/ Commit(s)
  <2>1. pending'[s] = {} /\ (committed' = committed \/ committed' = committed \cup pending[s])
    BY <1>3 DEF Abandon, InsertConflict, Commit, Rollback, EndTransaction, TypeOK
  <2>2. IsFiniteSet(committed')
    BY <2>1, FS_Union DEF Finite
  <2>3. IsFiniteSet({})
    BY FS_EmptySet
  <2>4. QED
    BY <1>0, <2>1, <2>2, <2>3 DEF Finite
<1>4. QED
  BY <1>1, <1>2, <1>3, Kinds DEF Begin, FindExisting, MissExisting, ReadLast, LockLast,
     SendInsert, Recover

(* What a session has read stays the newest row through its own steps. *)
LEMMA ReadsLastStep ==
  ASSUME TypeOK, NEW s \in Sessions, ReadsLast(s), Act(s)
  PROVE  ReadsLast(s)'
<1>1. ASSUME pc'[s] \notin {"lock", "insert", "flush"} PROVE ReadsLast(s)'
  BY <1>1 DEF ReadsLast
<1>2. ASSUME Finish(s) PROVE pc'[s] = "idle"
  BY <1>2 DEF Finish, TypeOK
<1>3. CASE Abandon(s) \/ Commit(s)
  BY <1>1, <1>2, <1>3 DEF Abandon, Commit
<1>4. CASE FindExisting(s) \/ Recover(s) \/ Insert(s)
  <2>1. pc'[s] \in {"check", "commit"}
    BY <1>4 DEF FindExisting, Recover, Insert, Advance, TypeOK
  <2>2. QED
    BY <1>1, <2>1
<1>5. CASE MissExisting(s) \/ InsertConflict(s)
  <2>1. pc'[s] \in {"read", "recover"}
    BY <1>5 DEF MissExisting, InsertConflict, Goto, TypeOK
  <2>2. QED
    BY <1>1, <2>1
<1>6. CASE ReadLast(s)
  <2>1. UNCHANGED <<prog, step, committed, pending>> /\ pc'[s] # "flush"
    BY <1>6 DEF ReadLast, Goto, TypeOK
  <2>2. base'[s] = LastOf(Visible(s), call(s).user)
    BY <1>6 DEF ReadLast, TypeOK
  <2>3. Visible(s)' = Visible(s) /\ call(s)' = call(s)
    BY <2>1 DEF Visible, call
  <2>4. IF base'[s] = NoRow THEN RowsOf(Visible(s), call(s).user) = {}
                            ELSE Newest(base'[s], RowsOf(Visible(s), call(s).user))
    BY <2>2, VisibleType, LastIsNewest
  <2>5. QED
    BY <2>1, <2>3, <2>4 DEF ReadsLast, RowsOf, Newest
<1>7. CASE LockLast(s)
  <2>1. UNCHANGED <<prog, step, committed, pending, base, overtaken>> /\ pc[s] = "lock"
        /\ pc'[s] = "insert"
    BY <1>7 DEF LockLast, Goto, TypeOK
  <2>2. Visible(s)' = Visible(s) /\ call(s)' = call(s) /\ base'[s] = base[s]
    BY <2>1 DEF Visible, call
  <2>3. QED
    BY <2>1, <2>2 DEF ReadsLast, RowsOf, Newest
<1>8. CASE SendInsert(s)
  <2>1. UNCHANGED <<prog, step, committed, pending, base, overtaken>> /\ pc[s] = "insert"
    BY <1>8 DEF SendInsert, Goto
  <2>2. Visible(s)' = Visible(s) /\ call(s)' = call(s) /\ base'[s] = base[s]
    BY <2>1 DEF Visible, call
  <2>3. \A r \in RowsOf(Visible(s), call(s).user) : r.at < stamp'[s]
    BY <1>8, SentLater DEF RowsOf, Visible, Table, Flushed
  <2>4. QED
    BY <2>1, <2>2, <2>3 DEF ReadsLast, RowsOf, Newest
<1>9. ASSUME NEW p \in Programs[s], Begin(s, p) PROVE ReadsLast(s)'
  <2>1. pc'[s] = "check"
    BY <1>9 DEF Begin, TypeOK
  <2>2. QED
    BY <1>1, <2>1
<1>10. QED
  BY <1>3, <1>4, <1>5, <1>6, <1>7, <1>8, <1>9, Kinds

(* The row a call inserts carries the exact balance of its user. *)
LEMMA InsertExact ==
  ASSUME TypeOK, Finite, NEW s \in Sessions, pc[s] = "flush", ReadsLast(s),
         call(s).user \notin overtaken[s], ExactIn(Visible(s), call(s).user),
         KeyOf(call(s)) \notin Keys(Table)
  PROVE  ExactIn(Visible(s) \cup {NewRow(s, stamp[s])}, call(s).user)
<1> DEFINE S == Visible(s)
           x == NewRow(s, stamp[s])
           T == S \cup {x}
           u == call(s).user
<1>0. stamp[s] \in Stamps
  BY DEF TypeOK
<1>1. S \subseteq Row /\ IsFiniteSet(S) /\ x \in Row
  BY <1>0, VisibleType, NewRowType, FS_Union DEF Finite, Visible
<1>2. KeyOf(x) \notin Keys(S)
  BY NewRowKey DEF Visible, Table, Flushed, Keys
<1>3. x.user = u /\ x.dir = call(s).dir /\ x.amount = call(s).amount
      /\ x.bal = NewBalance(s) /\ x.at = stamp[s]
  BY DEF NewRow
<1>4. BalanceOf(base[s]) = SumOf(S, u)
  <2>1. CASE base[s] = NoRow
    BY <2>1, SumNone DEF ReadsLast, BalanceOf
  <2>2. CASE base[s] # NoRow
    <3>1. Newest(base[s], RowsOf(S, u)) /\ base[s] \in S
      BY <2>2 DEF ReadsLast, Newest, RowsOf
    <3>2. QED
      BY <2>2, <3>1 DEF ExactIn, BalanceOf
  <2>3. QED
    BY <2>1, <2>2
<1>5. x.bal = SumOf(T, u)
  BY <1>1, <1>2, <1>3, <1>4, SumAdds DEF NewBalance
<1>6. \A r \in RowsOf(S, u) : r.at < x.at
  BY <1>3 DEF ReadsLast
<1> HIDE DEF x, S, u
<1>7. ASSUME NEW r \in T, Newest(r, RowsOf(T, u)) PROVE r = x
  <2>1. x \in RowsOf(T, u)
    BY <1>3 DEF RowsOf
  <2>2. x.at <= r.at /\ r.user = u
    BY <1>7, <2>1 DEF Newest, RowsOf
  <2>3. r.at \in Int /\ x.at \in Int
    BY <1>1 DEF Row, Stamps
  <2>4. ~(r.at < x.at)
    BY <2>2, <2>3
  <2>5. r \notin RowsOf(S, u)
    BY <1>6, <2>4
  <2>6. QED
    BY <2>2, <2>5 DEF RowsOf
<1>8. ExactIn(T, u)
  BY <1>5, <1>7 DEF ExactIn
<1>9. QED
  BY <1>8 DEF S, x, u

(* A session's own steps keep what it sees exact where the committed table
   is. *)
LEMMA FollowsStep ==
  ASSUME TypeOK, Finite, NEW s \in Sessions, ReadsLast(s), Follows(s), Act(s)
  PROVE  Follows(s)'
<1>1. ASSUME Visible(s)' = committed' PROVE Follows(s)'
  BY <1>1 DEF Follows
<1>2. CASE Abandon(s) \/ InsertConflict(s)
  <2>1. pending'[s] = {}
    BY <1>2 DEF Abandon, InsertConflict, Rollback, EndTransaction, TypeOK
  <2>2. QED
    BY <1>1, <2>1 DEF Visible
<1>3. CASE Commit(s)
  <2>1. pending'[s] = {}
    BY <1>3 DEF Commit, EndTransaction, TypeOK
  <2>2. QED
    BY <1>1, <2>1 DEF Visible
<1>4. CASE UNCHANGED <<committed, pending, overtaken>>
  <2>1. Visible(s)' = Visible(s)
    BY <1>4 DEF Visible
  <2>2. QED
    BY <1>4, <2>1 DEF Follows, ExactIn, SumOf, EntriesOf, RowsOf, Newest
<1>5. CASE Insert(s)
  <2> DEFINE x == NewRow(s, stamp[s])
  <2>1. /\ committed' = committed /\ overtaken' = overtaken
        /\ Visible(s)' = Visible(s) \cup {x}
    BY <1>5 DEF Insert, Visible, TypeOK
  <2>2. x.user = call(s).user
    BY DEF NewRow
  <2>3. ASSUME NEW u \in Users, u \notin overtaken[s], ExactIn(committed, u)
        PROVE  ExactIn(Visible(s) \cup {x}, u)
    <3>1. ExactIn(Visible(s), u)
      BY <2>3 DEF Follows
    <3>2. CASE u = call(s).user
      BY <1>5, <2>3, <3>1, <3>2, InsertExact DEF Insert
    <3>3. CASE u # call(s).user
      <4>1. RowsOf(Visible(s) \cup {x}, u) = RowsOf(Visible(s), u)
        BY <2>2, <3>3 DEF RowsOf
      <4>2. QED
        BY <3>1, <4>1, ExactRows
    <3>4. QED
      BY <3>2, <3>3
  <2> HIDE DEF x
  <2>4. QED
    BY <2>1, <2>3 DEF Follows
<1>6. QED
  BY <1>2, <1>3, <1>4, <1>5, Kinds DEF Begin, FindExisting, MissExisting, ReadLast, LockLast,
     SendInsert, Recover

(* A session's step moves its own rows, and only its commit reaches the
   committed table and marks others as overtaken. *)
LEMMA ActStore ==
  ASSUME TypeOK, NEW s \in Sessions, Act(s)
  PROVE  \/ /\ committed' = committed
            /\ \A t \in Sessions \ {s} : overtaken'[t] = overtaken[t]
         \/ Commit(s)
<1>1. CASE Abandon(s) \/ InsertConflict(s)
  BY <1>1 DEF Abandon, InsertConflict, Rollback, TypeOK
<1>2. QED
  BY <1>1, Kinds DEF Begin, FindExisting, MissExisting, ReadLast, LockLast,
     SendInsert, Insert, Recover

(* Another session's step leaves what a session has read alone, and what it
   sees exact, unless it marks the session as overtaken. *)
LEMMA OtherExactStep ==
  ASSUME TypeOK, NEW s \in Sessions, NEW t \in Sessions \ {s},
         ReadsLast(t), Follows(t), Act(s)
  PROVE  ReadsLast(t)' /\ Follows(t)'
<1>1. Same(t) /\ call(t)' = call(t)
  BY Frame DEF Same, call
<1>2. CASE committed' = committed /\ overtaken'[t] = overtaken[t]
  <2>1. Visible(t)' = Visible(t)
    BY <1>1, <1>2 DEF Same, Visible
  <2>2. ReadsLast(t)'
    BY <1>1, <1>2, <2>1 DEF Same, ReadsLast, RowsOf, Newest
  <2>3. Follows(t)'
    BY <1>2, <2>1 DEF Follows, ExactIn, SumOf, EntriesOf, RowsOf, Newest
  <2>4. QED
    BY <2>2, <2>3
<1>3. CASE Commit(s)
  <2>1. /\ Visible(t)' = Visible(t) \cup pending[s]
        /\ committed' = committed \cup pending[s]
        /\ pending'[t] = pending[t]
    BY <1>1, <1>3 DEF Same, Visible, Commit
  <2>2. overtaken'[t] = overtaken[t] \cup (Reading(t) \cap UsersOf(pending[s]))
    BY <1>3 DEF Commit, TypeOK
  <2>3. ASSUME NEW u, u \notin UsersOf(pending[s])
        PROVE  /\ RowsOf(Visible(t)', u) = RowsOf(Visible(t), u)
               /\ RowsOf(committed', u) = RowsOf(committed, u)
    BY <2>1, <2>3 DEF RowsOf, UsersOf
  <2>4. ReadsLast(t)'
    <3>1. SUFFICES ASSUME pc[t] \in {"lock", "insert", "flush"},
                          call(t).user \notin overtaken'[t]
                   PROVE  ReadsLast(t)'
      BY <1>1 DEF Same, ReadsLast
    <3>2. call(t).user \in Reading(t)
      BY <3>1 DEF Reading
    <3>3. call(t).user \notin UsersOf(pending[s]) /\ call(t).user \notin overtaken[t]
      BY <2>2, <3>1, <3>2
    <3>4. RowsOf(Visible(t)', call(t).user) = RowsOf(Visible(t), call(t).user)
      BY <2>3, <3>3
    <3>5. QED
      BY <1>1, <3>1, <3>3, <3>4 DEF Same, ReadsLast, RowsOf, Newest
  <2>5. ASSUME NEW u \in Users, u \notin overtaken'[t], ExactIn(committed', u)
        PROVE  ExactIn(Visible(t)', u)
    <3>1. CASE u \notin UsersOf(pending[s])
      <4>1. ExactIn(committed, u)
        BY <2>3, <2>5, <3>1, ExactRows
      <4>2. ExactIn(Visible(t), u)
        BY <2>2, <2>5, <4>1 DEF Follows
      <4>3. QED
        BY <2>3, <3>1, <4>2, ExactRows
    <3>2. CASE u \in UsersOf(pending[s])
      <4>1. u \notin Reading(t)
        BY <2>2, <2>5, <3>2
      <4>2. RowsOf(pending[t], u) = {}
        BY <4>1 DEF Reading, UsersOf, RowsOf
      <4>3. RowsOf(Visible(t)', u) = RowsOf(committed', u)
        BY <2>1, <4>2 DEF RowsOf, Visible
      <4>4. QED
        BY <2>5, <4>3, ExactRows
    <3>3. QED
      BY <3>1, <3>2
  <2>6. Follows(t)'
    BY <2>5 DEF Follows, ExactIn, SumOf, EntriesOf, RowsOf, Newest
  <2>7. QED
    BY <2>4, <2>6
<1>4. QED
  BY <1>2, <1>3, ActStore

(* Sessions that nobody overtakes see exact balances where the committed ones
   are. *)
LEMMA ExactInvHolds == Spec => []ExactInv
<1>1. Init => ExactInv
  <2> SUFFICES ASSUME Init PROVE ExactInv
    OBVIOUS
  <2>1. Finite
    BY FS_EmptySet DEF Init, Finite
  <2>2. Apart
    BY DEF Init, Apart, Table, Flushed
  <2>3. ASSUME NEW s \in Sessions PROVE ReadsLast(s) /\ Follows(s)
    BY DEF Init, Visible, ReadsLast, Follows
  <2>4. QED
    BY <2>1, <2>2, <2>3 DEF ExactInv
<1>2. TypeOK /\ ExactInv /\ [Next]_vars => ExactInv'
  <2> SUFFICES ASSUME TypeOK, ExactInv, [Next]_vars PROVE ExactInv'
    OBVIOUS
  <2>1. CASE UNCHANGED vars
    <3>1. ASSUME NEW s \in Sessions
          PROVE  Visible(s)' = Visible(s) /\ call(s)' = call(s)
      BY <2>1 DEF vars, Visible, call
    <3>2. ASSUME NEW s \in Sessions PROVE ReadsLast(s)' /\ Follows(s)'
      BY <2>1, <3>1 DEF vars, ExactInv, ReadsLast, Follows, ExactIn, SumOf, EntriesOf, RowsOf, Newest
    <3>3. Finite' /\ Apart'
      BY <2>1 DEF vars, ExactInv, Finite, Apart, Table, Flushed
    <3>4. QED
      BY <3>2, <3>3 DEF ExactInv
  <2>2. ASSUME NEW s \in Sessions, Act(s) PROVE ExactInv'
    <3>1. Finite' /\ Apart' /\ ReadsLast(s)' /\ Follows(s)'
      BY <2>2, FiniteStep, ApartStep, ReadsLastStep, FollowsStep DEF ExactInv
    <3>2. ASSUME NEW t \in Sessions \ {s} PROVE ReadsLast(t)' /\ Follows(t)'
      BY <2>2, OtherExactStep DEF ExactInv
    <3>3. QED
      BY <3>1, <3>2 DEF ExactInv
  <2>3. QED
    BY <2>1, <2>2 DEF Next, Act
<1>3. QED
  BY <1>1, <1>2, TypeCorrect, PTL DEF Spec

(* The balance get_balance answers is exact where the newest row's is. *)
LEMMA ExactIs ==
  ASSUME TypeOK, Apart, NEW u
  PROVE  Exact(u) <=> ExactIn(committed, u)
<1>1. committed \subseteq Row /\ \A r, q \in committed : r.at = q.at => r = q
  BY DEF TypeOK, Apart, Table
<1>2. QED
  BY <1>1, ExactBalance, BalanceExactIn DEF Exact, GetBalance, SumOf

(* Only an overtaken commit makes an exact balance wrong. *)
LEMMA ExactStep ==
  ASSUME TypeOK, TypeOK', ExactInv, ExactInv', [Next]_vars, NEW u \in Users, Exact(u)
  PROVE  Exact(u)' \/ CommitsOvertaken(u)
<1>1. ExactIn(committed, u)
  BY ExactIs DEF ExactInv
<1>2. ASSUME ExactIn(committed', u) PROVE Exact(u)'
  <2>1. committed' \subseteq Row
    BY DEF TypeOK
  <2>2. BalanceOf(LastOf(committed', u)) = SumOf(committed', u)
    BY <1>2, <2>1, ExactBalance
  <2>3. QED
    BY <2>2 DEF Exact, GetBalance, SumOf, EntriesOf, LastOf, IsLast
<1>3. CASE committed' = committed
  BY <1>1, <1>2, <1>3
<1>4. ASSUME NEW s \in Sessions, Commit(s), u \notin overtaken[s] PROVE Exact(u)'
  <2>1. committed' = Visible(s)
    BY <1>4 DEF Commit, Visible
  <2>2. ExactIn(Visible(s), u)
    BY <1>1, <1>4 DEF ExactInv, Follows
  <2>3. QED
    BY <1>2, <2>1, <2>2
<1>5. committed' = committed \/ \E s \in Sessions : Commit(s)
  BY ActStore DEF Next, Act, vars
<1>6. QED
  BY <1>3, <1>4, <1>5 DEF CommitsOvertaken

(* Whatever sessions serve a user: an exact balance goes wrong by the commit of
   an overtaken session only. *)
THEOREM SpoiltOnlyByOvertakenHolds == Spec => SpoiltOnlyByOvertaken
<1>1. TypeOK /\ TypeOK' /\ ExactInv /\ ExactInv' /\ [Next]_vars
      => [\A u \in Users : Exact(u) /\ ~Exact(u)' => CommitsOvertaken(u)]_vars
  BY ExactStep
<1>2. QED
  BY <1>1, TypeCorrect, ExactInvHolds, PTL DEF Spec, SpoiltOnlyByOvertaken
-----------------------------------------------------------------------------
(* The Bank's promise. *)

(* The entries behind unique rows are unique per reference and direction. *)
LEMMA EntriesOnce ==
  ASSUME AppliedOnce
  PROVE  AbstractBank!OncePerReference(EntriesOf(committed))
BY DEF AppliedOnce, Table, KeyOf, EntriesOf, AbstractBank!OncePerReference

(* An exact balance that is not negative means the user spent no more than was
   credited. *)
LEMMA EntriesBorne ==
  ASSUME NEW u \in Users, Exact(u), NoneNegative
  PROVE  AbstractBank!Balance(EntriesOf(committed), u) >= 0
<1>1. LastOf(committed, u) \in committed \cup {NoRow}
  BY LastOfType
<1>2. BalanceOf(LastOf(committed, u)) >= 0
  BY <1>1 DEF NoneNegative, Table, BalanceOf
<1>3. QED
  BY <1>2 DEF Exact, GetBalance

(* Whatever sessions serve a user: entries only grow, a reference counts once
   in each direction, and a user whose balance is exact is overdrawn by an
   overtaken commit only. *)
THEOREM BankUnlessOvertakenHolds == Spec => BankUnlessOvertaken
<1>1. TypeOK /\ TypeOK' /\ ExactInv /\ ExactInv' /\ AppliedOnce' /\ FindInv' /\ [Next]_vars
      => [/\ AbstractBank!Adds
          /\ \A u \in Users : Exact(u) => AbstractBank!Bears(u) \/ CommitsOvertaken(u)]_vars
  <2> SUFFICES ASSUME TypeOK, TypeOK', ExactInv, ExactInv', AppliedOnce', FindInv', [Next]_vars
               PROVE  /\ AbstractBank!Adds
                      /\ \A u \in Users : Exact(u) => AbstractBank!Bears(u) \/ CommitsOvertaken(u)
    OBVIOUS
  <2>1. EntriesOf(committed) \subseteq EntriesOf(committed)'
    BY CommittedGrows DEF EntriesOf
  <2>2. AbstractBank!OncePerReference(EntriesOf(committed))'
    BY EntriesOnce, PTL
  <2>3. ASSUME NEW u \in Users, Exact(u)' PROVE AbstractBank!Bears(u)
    <3>1. NoneNegative'
      BY DEF FindInv
    <3>2. (AbstractBank!Balance(EntriesOf(committed), u) >= 0)'
      BY <2>3, <3>1, EntriesBorne, PTL
    <3>3. QED
      BY <3>2 DEF AbstractBank!Bears
  <2>4. QED
    BY <2>1, <2>2, <2>3, ExactStep DEF AbstractBank!Adds
<1>2. QED
  BY <1>1, TypeCorrect, ExactInvHolds, AppliedOnceHolds, FindInvHolds, PTL
     DEF Spec, BankUnlessOvertaken
=============================================================================
