----------------------------- MODULE FleetProofs -----------------------------
(***************************************************************************)
(* Proofs about a node and the gateway it enrols with, for any keys,       *)
(* sessions, threshold and times.                                          *)
(*                                                                         *)
(* The invariant says what a session remembers of a row is still worth     *)
(* something when it writes: a row once seen stays, so a registration that *)
(* found one may answer without adding any; and what the command holds in  *)
(* its hands, an answer or a key, matches what it has put on disk.         *)
(***************************************************************************)
EXTENDS Fleet, TLAPS

Exists(k) == status[k] # "absent"

(* What the gateway has read, answered and is about to write. *)
RowInv ==
  /\ \A k \in answers : Exists(k)
  /\ \A s \in Sessions :
       /\ task[s].op \in {"write", "trip"} => task[s].status # "absent"
       /\ task[s].op = "register" /\ task[s].status # "absent"
            => \A k \in task[s].on : Exists(k)

(* What the command has made, sent and got. *)
CommandInv ==
  /\ config \in Keys => Exists(config) /\ config \notin unused
  /\ privateFile \notin unused
  /\ cli \in {"posted", "answered"} => publicFile = privateFile
  /\ cli = "answered" => Exists(privateFile)
  /\ config \in Keys /\ privateFile = config => publicFile = config

FleetInv == TypeOK /\ RowInv /\ CommandInv /\ HalfOpenHasFailure

Tasks == [op : {"idle", "register", "beat", "write", "trip", "probe"},
          on : SUBSET Keys, status : Status, age : 0..StaleAfter + 1]

LEMMA FleetStarts == Init => FleetInv
<1> SUFFICES ASSUME Init PROVE FleetInv
  OBVIOUS
<1> USE DEF Init, GatewayInit
<1>1. Idle \in Tasks
  BY ThresholdAssumption DEF Idle, Task, Tasks, Status
<1>2. TypeOK
  BY <1>1, ThresholdAssumption, FileAssumption
  DEF TypeOK, GatewayTypeOK, Tasks, Status, Never
<1>3. RowInv
  BY DEF RowInv, Idle, Task
<1>4. CommandInv /\ HalfOpenHasFailure
  BY FileAssumption DEF CommandInv, HalfOpenHasFailure
<1> QED
  BY <1>2, <1>3, <1>4 DEF FleetInv

-----------------------------------------------------------------------------
(* Types. *)

(* An age that grows stays within its bound. *)
LEMMA AgeBounded ==
  ASSUME NEW b \in Nat, NEW a \in Never..b
  PROVE  Older(a, b) \in Never..b /\ (a # Never => Older(a, b) # Never)
BY DEF Older, Never

LEMMA GatewayTypeStep ==
  ASSUME GatewayTypeOK, GatewayNext
  PROVE  GatewayTypeOK'
<1>0. /\ FailureThreshold \in Nat \ {0} /\ RecoveryTimeout \in Nat /\ StaleAfter \in Nat
      /\ task \in [Sessions -> Tasks]
  BY ThresholdAssumption DEF GatewayTypeOK, Tasks
<1>1. \A op \in {"idle", "register", "beat", "write", "trip", "probe"}, on \in SUBSET Keys,
        st \in Status : Task(op, on, st, 0) \in Tasks
  BY <1>0 DEF Task, Tasks
<1>2. Idle \in Tasks
  BY <1>1 DEF Idle, Status
<1>3. ASSUME NEW s \in Sessions, NEW k \in Keys, Call(s, k) PROVE GatewayTypeOK'
  <2>0. task[s] \in Tasks /\ status[k] \in Status
    BY <1>0 DEF GatewayTypeOK
  <2>1. CASE BeginRegister(s, k)
    <3>1. task' \in [Sessions -> Tasks]
      BY <1>0, <1>1, <2>0, <2>1 DEF BeginRegister
    <3> QED
      BY <3>1, <2>1 DEF BeginRegister, GatewayTypeOK, rows, memory, Tasks
  <2>2. CASE CommitRegister(s, k)
    <3>1. task' \in [Sessions -> Tasks]
      BY <1>0, <1>2, <2>2 DEF CommitRegister
    <3> QED
      BY <3>1, <2>2 DEF CommitRegister, GatewayTypeOK, memory, Tasks, Status
  <2>3. CASE CommitBeat(s, k)
    <3>1. task' \in [Sessions -> Tasks]
      BY <1>0, <1>2, <2>3 DEF CommitBeat
    <3>2. task[s].age \in Never..StaleAfter + 1
      BY <1>0, <2>0 DEF Tasks, Never
    <3>3. heard' \in [Keys -> Never..StaleAfter + 1]
      BY <2>3, <3>2 DEF CommitBeat, GatewayTypeOK
    <3>4. status' \in [Keys -> Status]
      BY <2>3 DEF CommitBeat, GatewayTypeOK, Status
    <3> QED
      BY <3>1, <3>3, <3>4, <2>3 DEF CommitBeat, GatewayTypeOK, memory, mail, Tasks
  <2>4. CASE RecordFailure(s, k)
    <3>1. task' \in [Sessions -> Tasks]
      BY <1>0, <1>1, <2>4 DEF RecordFailure, Status
    <3>2. failures' \in [Keys -> 0..FailureThreshold]
      BY <1>0, <2>4 DEF RecordFailure, GatewayTypeOK
    <3>3. failedAt' \in [Keys -> Never..RecoveryTimeout]
      BY <1>0, <2>4 DEF RecordFailure, GatewayTypeOK, Never
    <3> QED
      BY <3>1, <3>2, <3>3, <2>4 DEF RecordFailure, GatewayTypeOK, rows, mail, Tasks
  <2>5. CASE RecordSuccess(s, k)
    <3>1. task' \in [Sessions -> Tasks]
      BY <1>0, <1>1, <2>5 DEF RecordSuccess, Status
    <3>2. failures' \in [Keys -> 0..FailureThreshold] /\ failedAt' \in [Keys -> Never..RecoveryTimeout]
      BY <1>0, <2>5 DEF RecordSuccess, GatewayTypeOK, Never
    <3> QED
      BY <3>1, <3>2, <2>5 DEF RecordSuccess, GatewayTypeOK, rows, mail, Tasks
  <2>6. CASE CheckNodeHealth(s, k)
    <3>1. task' \in [Sessions -> Tasks]
      BY <1>0, <1>1, <2>6 DEF CheckNodeHealth, Status
    <3> QED
      BY <3>1, <2>6 DEF CheckNodeHealth, GatewayTypeOK, rows, memory, mail, Tasks
  <2>7. CASE ProbeDecided(s, k)
    <3>1. task' \in [Sessions -> Tasks]
      BY <1>0, <1>2, <2>7 DEF ProbeDecided
    <3> QED
      BY <3>1, <2>7 DEF ProbeDecided, GatewayTypeOK, rows, mail, Tasks
  <2> QED
    BY <1>3, <2>1, <2>2, <2>3, <2>4, <2>5, <2>6, <2>7 DEF Call
<1>4. ASSUME NEW s \in Sessions, Sweep(s) PROVE GatewayTypeOK'
  <2>1. task' \in [Sessions -> Tasks]
    BY <1>0, <1>1, <1>4 DEF Sweep, Status
  <2> QED
    BY <2>1, <1>4 DEF Sweep, GatewayTypeOK, rows, memory, mail, Tasks
<1>5. ASSUME NEW s \in Sessions, Trip(s) PROVE GatewayTypeOK'
  <2>1. task' \in [Sessions -> Tasks]
    BY <1>0, <1>5 DEF Trip, Tasks
  <2> QED
    BY <2>1, <1>5 DEF Trip, GatewayTypeOK, rows, mail, Tasks
<1>6. ASSUME NEW s \in Sessions, CommitWrite(s) PROVE GatewayTypeOK'
  <2>1. task' \in [Sessions -> Tasks]
    BY <1>0, <1>2, <1>6 DEF CommitWrite
  <2>2. task[s].status \in Status
    BY <1>0 DEF Tasks
  <2>3. status' \in [Keys -> Status]
    BY <1>6, <2>2 DEF CommitWrite, GatewayTypeOK
  <2> QED
    BY <2>1, <2>3, <1>6 DEF CommitWrite, GatewayTypeOK, memory, mail, Tasks
<1>7. ASSUME NEW s \in Sessions, Rollback(s) PROVE GatewayTypeOK'
  <2>1. task' \in [Sessions -> Tasks]
    BY <1>0, <1>2, <1>7 DEF Rollback
  <2> QED
    BY <2>1, <1>7 DEF Rollback, GatewayTypeOK, rows, memory, mail, Tasks
<1>8. CASE Restart
  <2>1. task' \in [Sessions -> Tasks]
    BY <1>0, <1>2, <1>8 DEF Restart
  <2>2. failures' \in [Keys -> 0..FailureThreshold] /\ failedAt' \in [Keys -> Never..RecoveryTimeout]
    BY <1>0, <1>8 DEF Restart, Never
  <2> QED
    BY <2>1, <2>2, <1>8 DEF Restart, GatewayTypeOK, rows, Tasks
<1>9. CASE Tick
  <2>1. \A k \in Keys : Older(heard[k], StaleAfter + 1) \in Never..StaleAfter + 1
                         /\ Older(failedAt[k], RecoveryTimeout) \in Never..RecoveryTimeout
    <3> SUFFICES ASSUME NEW k \in Keys
                 PROVE  /\ Older(heard[k], StaleAfter + 1) \in Never..StaleAfter + 1
                        /\ Older(failedAt[k], RecoveryTimeout) \in Never..RecoveryTimeout
      OBVIOUS
    <3>1. StaleAfter + 1 \in Nat /\ heard[k] \in Never..StaleAfter + 1
          /\ failedAt[k] \in Never..RecoveryTimeout
      BY <1>0 DEF GatewayTypeOK
    <3> QED
      BY <1>0, <3>1, AgeBounded
  <2>2. heard' \in [Keys -> Never..StaleAfter + 1] /\ failedAt' \in [Keys -> Never..RecoveryTimeout]
    BY <1>9, <2>1 DEF Tick
  <2>3. \A s \in Sessions : [task[s] EXCEPT !.age = Older(@, StaleAfter + 1)] \in Tasks
    <3> SUFFICES ASSUME NEW s \in Sessions
                 PROVE  [task[s] EXCEPT !.age = Older(@, StaleAfter + 1)] \in Tasks
      OBVIOUS
    <3>1. task[s] \in Tasks
      BY <1>0
    <3>2. Older(task[s].age, StaleAfter + 1) \in 0..StaleAfter + 1
      BY <1>0, <3>1 DEF Tasks, Older, Never
    <3> QED
      BY <3>1, <3>2 DEF Tasks
  <2>4. task' \in [Sessions -> Tasks]
    BY <1>0, <1>9, <2>3 DEF Tick
  <2> QED
    BY <2>2, <2>4, <1>9 DEF Tick, GatewayTypeOK, mail, Tasks
<1> QED
  BY <1>3, <1>4, <1>5, <1>6, <1>7, <1>8, <1>9 DEF GatewayNext

(* The command's own steps: a key for a file, a file for a file. *)
LEMMA TypeStep ==
  ASSUME TypeOK, [Next]_vars
  PROVE  TypeOK'
<1>1. CASE GatewayNext /\ UNCHANGED node
  <2>1. GatewayTypeOK'
    BY <1>1, GatewayTypeStep DEF TypeOK
  <2> QED
    BY <1>1, <2>1 DEF TypeOK, node
<1>2. ASSUME NEW k \in Keys, RunRegister(k) PROVE TypeOK'
  BY <1>2, FileAssumption DEF RunRegister, TypeOK, GatewayTypeOK, gatewayVars
<1>3. CASE Post
  BY <1>3 DEF Post, TypeOK, GatewayTypeOK, rows, memory
<1>4. CASE Answered
  BY <1>4 DEF Answered, TypeOK, GatewayTypeOK, rows, memory
<1>5. CASE SaveConfig
  BY <1>5 DEF SaveConfig, TypeOK, GatewayTypeOK, gatewayVars
<1>6. CASE GiveUp
  BY <1>6 DEF GiveUp, TypeOK, GatewayTypeOK, gatewayVars
<1>7. CASE TearConfig
  BY <1>7 DEF TearConfig, TypeOK, GatewayTypeOK, gatewayVars
<1>8. ASSUME NEW s \in Sessions, Heartbeat(s) PROVE TypeOK'
  <2>1. Task("beat", {config}, status[config], 0) \in Tasks
    BY <1>8, ThresholdAssumption DEF Heartbeat, TypeOK, GatewayTypeOK, Task, Tasks
  <2>2. task' \in [Sessions -> Tasks]
    BY <1>8, <2>1 DEF Heartbeat, BeginBeat, TypeOK, GatewayTypeOK, Tasks
  <2> QED
    BY <1>8, <2>2 DEF Heartbeat, BeginBeat, TypeOK, GatewayTypeOK, Tasks, rows, memory, mail, node
<1>9. CASE UNCHANGED vars
  BY <1>9 DEF vars, gatewayVars, node, TypeOK, GatewayTypeOK
<1> QED
  BY <1>1, <1>2, <1>3, <1>4, <1>5, <1>6, <1>7, <1>8, <1>9 DEF Next

-----------------------------------------------------------------------------
(* The breaker's memory. *)

LEMMA HalfOpenStep ==
  ASSUME GatewayTypeOK, HalfOpenHasFailure, GatewayNext
  PROVE  HalfOpenHasFailure'
<1> USE DEF HalfOpenHasFailure
<1>1. ASSUME NEW s \in Sessions, NEW k \in Keys, Call(s, k) PROVE HalfOpenHasFailure'
  <2>1. CASE BeginRegister(s, k) \/ CommitRegister(s, k) \/ CommitBeat(s, k)
             \/ CheckNodeHealth(s, k)
    BY <2>1 DEF BeginRegister, CommitRegister, CommitBeat, CheckNodeHealth, memory
  <2>2. CASE RecordFailure(s, k)
    BY <2>2 DEF RecordFailure, GatewayTypeOK, Never
  <2>3. CASE RecordSuccess(s, k)
    BY <2>3 DEF RecordSuccess, GatewayTypeOK
  <2>4. CASE ProbeDecided(s, k)
    BY <2>4, ThresholdAssumption DEF ProbeDecided, Never
  <2> QED
    BY <1>1, <2>1, <2>2, <2>3, <2>4 DEF Call
<1>2. ASSUME NEW s \in Sessions, Sweep(s) \/ Trip(s) \/ CommitWrite(s) \/ Rollback(s)
      PROVE  HalfOpenHasFailure'
  BY <1>2 DEF Sweep, Trip, CommitWrite, Rollback, memory
<1>3. CASE Restart
  BY <1>3 DEF Restart
<1>4. CASE Tick
  <2>1. \A k \in Keys : failedAt[k] # Never => Older(failedAt[k], RecoveryTimeout) # Never
    BY AgeBounded, ThresholdAssumption DEF GatewayTypeOK
  <2> QED
    BY <1>4, <2>1 DEF Tick, GatewayTypeOK
<1> QED
  BY <1>1, <1>2, <1>3, <1>4 DEF GatewayNext

-----------------------------------------------------------------------------
(* The rows. *)

(* A row once there stays, whatever a session writes. *)
LEMMA RowsStay ==
  ASSUME GatewayTypeOK, RowInv, GatewayNext, NEW k \in Keys, Exists(k)
  PROVE  Exists(k)'
<1> USE DEF Exists
<1>1. ASSUME NEW s \in Sessions, NEW c \in Keys, Call(s, c) PROVE Exists(k)'
  BY <1>1 DEF Call, BeginRegister, CommitRegister, CommitBeat, RecordFailure, RecordSuccess,
              CheckNodeHealth, ProbeDecided, rows, GatewayTypeOK
<1>2. ASSUME NEW s \in Sessions, Sweep(s) \/ Trip(s) \/ CommitWrite(s) \/ Rollback(s)
      PROVE  Exists(k)'
  BY <1>2 DEF Sweep, Trip, CommitWrite, Rollback, rows, RowInv
<1> QED
  BY <1>1, <1>2 DEF GatewayNext, Restart, Tick, rows

LEMMA RowStep ==
  ASSUME GatewayTypeOK, RowInv, GatewayNext
  PROVE  RowInv'
<1>0. \A k \in Keys : Exists(k) => Exists(k)'
  BY RowsStay
<1>1. \A k \in answers' : Exists(k)'
  <2>1. ASSUME NEW s \in Sessions, NEW k \in Keys, CommitRegister(s, k)
        PROVE  Exists(k)' /\ answers' = answers \cup {k}
    BY <2>1 DEF CommitRegister, RowInv, Exists, GatewayTypeOK
  <2>2. answers \subseteq Keys /\ \A k \in answers : Exists(k)
    BY DEF GatewayTypeOK, RowInv
  <2>3. answers' = answers \/ \E s \in Sessions, k \in Keys : CommitRegister(s, k)
    BY DEF GatewayNext, Call, BeginRegister, CommitBeat, RecordFailure, RecordSuccess,
           CheckNodeHealth, ProbeDecided, Sweep, Trip, CommitWrite, Rollback, Restart, Tick, mail
  <2> QED
    BY <1>0, <2>1, <2>2, <2>3
<1>2. ASSUME NEW s \in Sessions
      PROVE  /\ task'[s].op \in {"write", "trip"} => task'[s].status # "absent"
             /\ task'[s].op = "register" /\ task'[s].status # "absent"
                  => \A k \in task'[s].on : Exists(k)'
  <2> DEFINE Good(x) == /\ x.op \in {"write", "trip"} => x.status # "absent"
                        /\ x.op = "register" /\ x.status # "absent" => \A k \in x.on : Exists(k)'
  <2>0. Good(task[s])
    <3>1. task[s].on \subseteq Keys
      BY DEF GatewayTypeOK
    <3> QED
      BY <1>0, <3>1 DEF RowInv
  <2>1. Good(Idle)
    BY DEF Idle, Task
  <2>2. ASSUME NEW u \in Sessions, NEW k \in Keys, Call(u, k) PROVE Good(task'[s])
    <3>1. CASE BeginRegister(u, k)
      BY <1>0, <2>0, <3>1 DEF BeginRegister, Task, GatewayTypeOK, Exists, rows
    <3>2. CASE CommitRegister(u, k) \/ CommitBeat(u, k) \/ ProbeDecided(u, k)
      BY <2>0, <2>1, <3>2 DEF CommitRegister, CommitBeat, ProbeDecided, GatewayTypeOK
    <3>3. CASE RecordFailure(u, k) \/ RecordSuccess(u, k) \/ CheckNodeHealth(u, k)
      BY <2>0, <3>3 DEF RecordFailure, RecordSuccess, CheckNodeHealth, Task, GatewayTypeOK
    <3> QED
      BY <2>2, <3>1, <3>2, <3>3 DEF Call
  <2>3. ASSUME NEW u \in Sessions, Sweep(u) \/ Trip(u) \/ CommitWrite(u) \/ Rollback(u)
        PROVE  Good(task'[s])
    <3>1. CASE Trip(u)
      <4>1. task'[u].op = "write" /\ task'[u].status = task[u].status
        BY <3>1 DEF Trip, GatewayTypeOK
      <4>2. task[u].status # "absent"
        BY <3>1 DEF Trip, RowInv
      <4>3. s # u => task'[s] = task[s]
        BY <3>1 DEF Trip, GatewayTypeOK
      <4> QED
        BY <2>0, <4>1, <4>2, <4>3
    <3>2. CASE Sweep(u) \/ CommitWrite(u) \/ Rollback(u)
      BY <2>0, <2>1, <3>2 DEF Sweep, CommitWrite, Rollback, Task, GatewayTypeOK
    <3> QED
      BY <2>3, <3>1, <3>2
  <2>4. CASE Restart
    BY <2>1, <2>4 DEF Restart
  <2>5. CASE Tick
    BY <2>0, <2>5 DEF Tick, GatewayTypeOK
  <2> QED
    BY <2>2, <2>3, <2>4, <2>5 DEF GatewayNext
<1> QED
  BY <1>1, <1>2 DEF RowInv

-----------------------------------------------------------------------------
(* The command and its files. *)

LEMMA CommandStep ==
  ASSUME FleetInv, [Next]_vars
  PROVE  RowInv' /\ CommandInv' /\ HalfOpenHasFailure'
<1> USE DEF FleetInv
<1>0. GatewayTypeOK
  BY DEF TypeOK
<1>1. CASE GatewayNext /\ UNCHANGED node
  <2>1. RowInv' /\ HalfOpenHasFailure' /\ \A k \in Keys : Exists(k) => Exists(k)'
    BY <1>0, <1>1, RowStep, HalfOpenStep, RowsStay
  <2>2. cli = "answered" => privateFile \in Keys /\ Exists(privateFile)
    BY FileAssumption DEF CommandInv, TypeOK
  <2> QED
    BY <1>1, <2>1, <2>2 DEF CommandInv, node
<1>2. ASSUME NEW k \in Keys, RunRegister(k) PROVE RowInv' /\ CommandInv' /\ HalfOpenHasFailure'
  BY <1>2, FileAssumption
  DEF RunRegister, gatewayVars, RowInv, CommandInv, HalfOpenHasFailure, Exists, TypeOK
<1>3. CASE Post
  BY <1>3 DEF Post, rows, memory, RowInv, CommandInv, HalfOpenHasFailure, Exists
<1>4. CASE Answered
  BY <1>4 DEF Answered, rows, memory, RowInv, CommandInv, HalfOpenHasFailure, Exists
<1>5. CASE SaveConfig
  BY <1>5 DEF SaveConfig, gatewayVars, RowInv, CommandInv, HalfOpenHasFailure, Exists
<1>6. CASE GiveUp \/ TearConfig
  BY <1>6, FileAssumption
  DEF GiveUp, TearConfig, gatewayVars, RowInv, CommandInv, HalfOpenHasFailure, Exists
<1>7. ASSUME NEW s \in Sessions, Heartbeat(s) PROVE RowInv' /\ CommandInv' /\ HalfOpenHasFailure'
  BY <1>0, <1>7 DEF Heartbeat, BeginBeat, Task, GatewayTypeOK, rows, memory, mail, node,
     RowInv, CommandInv, HalfOpenHasFailure, Exists
<1>8. CASE UNCHANGED vars
  BY <1>8 DEF vars, gatewayVars, node, RowInv, CommandInv, HalfOpenHasFailure, Exists
<1> QED
  BY <1>1, <1>2, <1>3, <1>4, <1>5, <1>6, <1>7, <1>8 DEF Next

(* The invariant holds of every behaviour. *)
THEOREM FleetInvariant == Spec => []FleetInv
<1>1. Init => FleetInv
  BY FleetStarts
<1>2. FleetInv /\ [Next]_vars => FleetInv'
  BY TypeStep, CommandStep DEF FleetInv
<1> QED
  BY <1>1, <1>2, PTL DEF Spec

(* Rows, counters, sessions, messages and files are what they are declared
   to be; a command that is on its way has a private key. *)
THEOREM FleetTypes == Spec => []TypeOK
<1>1. FleetInv => TypeOK
  BY DEF FleetInv
<1> QED
  BY <1>1, FleetInvariant, PTL

(* A node that believes to be registered is: config.json names a committed
   row, and the private key it was written for has its public key beside it,
   however registrations, heartbeats, sweeps, crashes and late answers
   interleave. *)
THEOREM ConfigurationIsRegistered == Spec => []ConfigNamesRow
<1>1. FleetInv => ConfigNamesRow
  BY DEF FleetInv, CommandInv, ConfigNamesRow, Exists
<1> QED
  BY <1>1, FleetInvariant, PTL

(* A node on probation is one whose last failure the breaker remembers. *)
THEOREM ProbationHasReason == Spec => []HalfOpenHasFailure
<1>1. FleetInv => HalfOpenHasFailure
  BY DEF FleetInv
<1> QED
  BY <1>1, FleetInvariant, PTL
=============================================================================
