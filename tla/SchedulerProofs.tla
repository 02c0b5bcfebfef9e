--------------------------- MODULE SchedulerProofs --------------------------
(***************************************************************************)
(* The scheduler's safety properties for any number of jobs, nodes and     *)
(* sessions, whatever calls they make and however those overlap.           *)
(***************************************************************************)
EXTENDS Scheduler, TLAPS

(* What each call leaves of an existing row is a row. *)
LEMMA RowTypes ==
  ASSUME NEW r \in Row, NEW was \in Row, NEW n \in Nodes \cup {NoNode},
         NEW new \in Reports
  PROVE  /\ Reported(r, was, new) \in Row /\ Cancelled(r) \in Row
         /\ Requeued(r, was, n) \in Row /\ Buried(r, was) \in Row
         /\ TakenBack(r, was) \in Row
<1>1. Reported(r, was, new) \in Row
  <2> DEFINE again == IF new = "QUEUED" THEN was.retries + 1 ELSE r.retries
             ended == r.ended \/ new \in {"COMPLETED", "FAILED"}
             sent == r.sent \/ new = "DISPATCHED"
             result == r.result \/ new = "COMPLETED"
  <2>1. again \in Nat /\ ended \in BOOLEAN /\ sent \in BOOLEAN /\ result \in BOOLEAN
    BY DEF Row
  <2>2. Reported(r, was, new) = [r EXCEPT !.status = new, !.retries = again, !.sent = sent,
                                          !.ended = ended, !.result = result]
    BY DEF Reported
  <2> HIDE DEF again, ended, sent, result
  <2>3. QED
    BY <2>1, <2>2 DEF Row, Reports, Statuses
<1>2. Cancelled(r) \in Row
  BY DEF Cancelled, Row, Statuses
<1>3. Requeued(r, was, n) \in Row
  <2> DEFINE node == IF n \in {NoNode, was.node} THEN r.node ELSE n
             ended == r.ended \/ was.status # "FAILED"
  <2>1. node \in Nodes /\ was.retries + 1 \in Nat /\ ended \in BOOLEAN
    BY DEF Row
  <2>2. Requeued(r, was, n) = [r EXCEPT !.status = "QUEUED", !.retries = was.retries + 1,
                                        !.ended = ended, !.node = node]
    BY DEF Requeued
  <2> HIDE DEF node, ended
  <2>3. QED
    BY <2>1, <2>2 DEF Row, Statuses
<1>4. Buried(r, was) \in Row
  BY <1>2 DEF Buried
<1>5. TakenBack(r, was) \in Row
  BY DEF TakenBack, Row, Statuses
<1>6. QED
  BY <1>1, <1>2, <1>3, <1>4, <1>5

(* What each call does to the columns of an existing row. *)
LEMMA ReportedColumns ==
  ASSUME NEW r \in Row, NEW was \in Row, NEW new \in Reports
  PROVE  /\ Reported(r, was, new).status = new
         /\ Reported(r, was, new).node = r.node
         /\ Reported(r, was, new).retries = IF new = "QUEUED" THEN was.retries + 1 ELSE r.retries
         /\ Reported(r, was, new).sent = (r.sent \/ new = "DISPATCHED")
         /\ Reported(r, was, new).ended = (r.ended \/ new \in {"COMPLETED", "FAILED"})
         /\ Reported(r, was, new).result = (r.result \/ new = "COMPLETED")
BY DEF Reported, Row

(* A cancelled row fails and ends. *)
LEMMA CancelledColumns ==
  ASSUME NEW r \in Row
  PROVE  /\ Cancelled(r).status = "FAILED"
         /\ Cancelled(r).node = r.node
         /\ Cancelled(r).retries = r.retries
         /\ Cancelled(r).sent = r.sent
         /\ Cancelled(r).ended = TRUE
         /\ Cancelled(r).result = r.result
BY DEF Cancelled, Row

(* A requeued row counts one retry more than was loaded. *)
LEMMA RequeuedColumns ==
  ASSUME NEW r \in Row, NEW was \in Row, NEW n
  PROVE  /\ Requeued(r, was, n).status = "QUEUED"
         /\ Requeued(r, was, n).node = IF n \in {NoNode, was.node} THEN r.node ELSE n
         /\ Requeued(r, was, n).retries = was.retries + 1
         /\ Requeued(r, was, n).sent = r.sent
         /\ Requeued(r, was, n).result = r.result
BY DEF Requeued, Row

(* A row taken back from a tripped node waits again. *)
LEMMA TakenBackColumns ==
  ASSUME NEW r \in Row, NEW was \in Row
  PROVE  /\ TakenBack(r, was).status = IF was.status = "QUEUED" THEN r.status ELSE "QUEUED"
         /\ TakenBack(r, was).node = r.node
         /\ TakenBack(r, was).retries = r.retries
         /\ TakenBack(r, was).sent = (r.sent /\ ~was.sent)
         /\ TakenBack(r, was).ended = r.ended
         /\ TakenBack(r, was).result = r.result
BY DEF TakenBack, Row

(* Which row a commit writes, by the call it ends. *)
LEMMA WrittenBy ==
  ASSUME NEW s, NEW j, NEW r, op[s] \in Ops
  PROVE  /\ op[s] = "dispatch" => Written(s, j, r) = NewRow(pick[s])
         /\ op[s] \in Reports => Written(s, j, r) = Reported(r, seen[s][j], op[s])
         /\ op[s] = "cancel" => Written(s, j, r) = Cancelled(r)
         /\ op[s] = "retry" => Written(s, j, r) = Requeued(r, seen[s][j], pick[s])
         /\ op[s] = "bury" => Written(s, j, r) = Buried(r, seen[s][j])
         /\ op[s] = "redistribute" => Written(s, j, r) = TakenBack(r, seen[s][j])
BY DEF Written, Reports, Statuses, Ops

(* A commit writes rows. *)
LEMMA WrittenType ==
  ASSUME TypeOK, NEW s \in Sessions, phase[s] # "idle", NEW j \in on[s]
  PROVE  Written(s, j, jobs[j]) \in Row
<1>1. op[s] \in Ops \ {"none"} /\ j \in Jobs /\ pick[s] \in Nodes \cup {NoNode}
  BY DEF TypeOK
<1>2. CASE op[s] = "dispatch"
  <2>1. Written(s, j, jobs[j]) = NewRow(pick[s]) /\ pick[s] \in Nodes
    BY <1>1, <1>2, WrittenBy DEF TypeOK
  <2>2. QED
    BY <2>1 DEF NewRow, Row, Statuses
<1>3. CASE op[s] # "dispatch"
  <2>1. jobs[j] \in Row /\ seen[s][j] \in Row
    BY <1>1, <1>3 DEF TypeOK
  <2>2. "RUNNING" \in Reports
    BY DEF Reports, Statuses
  <2>3. op[s] \in Reports \/ op[s] \in {"cancel", "retry", "bury", "redistribute"}
    BY <1>1, <1>3 DEF Ops
  <2>4. CASE op[s] \in Reports
    <3>1. Reported(jobs[j], seen[s][j], op[s]) \in Row
      BY <1>1, <2>1, <2>4, RowTypes
    <3>2. QED
      BY <1>1, <2>4, <3>1, WrittenBy
  <2>5. CASE op[s] \in {"cancel", "retry", "bury", "redistribute"}
    <3>1. /\ Cancelled(jobs[j]) \in Row
          /\ Requeued(jobs[j], seen[s][j], pick[s]) \in Row
          /\ Buried(jobs[j], seen[s][j]) \in Row
          /\ TakenBack(jobs[j], seen[s][j]) \in Row
      BY <1>1, <2>1, <2>2, RowTypes
    <3>2. QED
      BY <1>1, <2>5, <3>1, WrittenBy
  <2>6. QED
    BY <2>3, <2>4, <2>5
<1>4. QED
  BY <1>2, <1>3

(* Loading rows keeps the session variables typed. *)
LEMMA OpenType ==
  ASSUME TypeOK, NEW s \in Sessions, NEW o \in Ops \ {"none", "dispatch"},
         NEW S \in SUBSET Jobs, \A j \in S : jobs[j] # NoJob,
         Open(s, o, S), UNCHANGED <<jobs, letters, pushed, lost, healthy>>,
         pick' \in [Sessions -> Nodes \cup {NoNode}],
         \A t \in Sessions \ {s} : pick'[t] = pick[t]
  PROVE  TypeOK'
<1>1. phase' \in [Sessions -> Phases] /\ op' \in [Sessions -> Ops]
      /\ on' \in [Sessions -> SUBSET Jobs]
  BY DEF TypeOK, Open, Phases
<1>2. seen' \in [Sessions -> [Jobs -> Row \cup {NoJob}]]
  <2>1. [j \in Jobs |-> IF j \in S THEN jobs[j] ELSE NoJob] \in [Jobs -> Row \cup {NoJob}]
    BY DEF TypeOK
  <2>2. QED
    BY <2>1 DEF TypeOK, Open
<1>3. \A t \in Sessions : op'[t] # "dispatch" =>
        \A j \in on'[t] : seen'[t][j] # NoJob /\ jobs'[j] # NoJob
  BY DEF TypeOK, Open
<1>4. \A t \in Sessions : op'[t] = "dispatch" => pick'[t] \in Nodes
  BY DEF TypeOK, Open
<1>5. \A t \in Sessions : op'[t] = "none" <=> phase'[t] = "idle"
  BY DEF TypeOK, Open
<1>6. QED
  BY <1>1, <1>2, <1>3, <1>4, <1>5 DEF TypeOK

(* Ending a call keeps the session variables typed. *)
LEMMA CloseType ==
  ASSUME TypeOK, NEW s \in Sessions, Close(s),
         jobs' \in [Jobs -> Row \cup {NoJob}],
         \A j \in Jobs : jobs[j] # NoJob => jobs'[j] # NoJob,
         letters' \subseteq Jobs, healthy' \subseteq Nodes
  PROVE  TypeOK'
<1>1. phase' \in [Sessions -> Phases] /\ op' \in [Sessions -> Ops]
      /\ on' \in [Sessions -> SUBSET Jobs]
  BY DEF TypeOK, Close, Phases, Ops
<1>2. seen' \in [Sessions -> [Jobs -> Row \cup {NoJob}]]
      /\ pick' \in [Sessions -> Nodes \cup {NoNode}]
  BY DEF TypeOK, Close
<1>3. \A t \in Sessions : op'[t] # "dispatch" =>
        \A j \in on'[t] : seen'[t][j] # NoJob /\ jobs'[j] # NoJob
  BY DEF TypeOK, Close
<1>4. \A t \in Sessions : op'[t] = "dispatch" => pick'[t] \in Nodes
  BY DEF TypeOK, Close
<1>5. \A t \in Sessions : op'[t] = "none" <=> phase'[t] = "idle"
  BY DEF TypeOK, Close
<1>6. pushed' \in [Nodes -> SUBSET Jobs] /\ lost' \subseteq Jobs
  BY DEF TypeOK, Close
<1>7. QED
  BY <1>1, <1>2, <1>3, <1>4, <1>5, <1>6 DEF TypeOK

(* Every variable keeps its type; a session writes rows it loaded or one it
   creates, on a node it picked. *)
THEOREM TypeCorrect == Spec => []TypeOK
<1>1. Init => TypeOK
  BY BoundAssumption DEF Init, TypeOK, Phases, Ops
<1>2. TypeOK /\ [Next]_vars => TypeOK'
  <2> SUFFICES ASSUME TypeOK, [Next]_vars PROVE TypeOK'
    OBVIOUS
  <2>1. CASE UNCHANGED vars
    BY <2>1 DEF vars, TypeOK
  <2>2. ASSUME NEW s \in Sessions, NEW j \in Jobs, NEW n \in Nodes, Dispatch(s, j, n)
        PROVE TypeOK'
    BY <2>2 DEF Dispatch, TypeOK, Phases, Ops
  <2>3. ASSUME NEW s \in Sessions, NEW j \in Jobs, NEW new \in Reports,
               LoadReport(s, j, new)
        PROVE TypeOK'
    <3>1. new \in Ops \ {"none", "dispatch"}
      BY DEF Ops, Reports, Statuses
    <3>2. Open(s, new, {j}) /\ jobs[j] # NoJob
          /\ UNCHANGED <<jobs, letters, pushed, lost, healthy, pick>>
      BY <2>3 DEF LoadReport
    <3>3. pick \in [Sessions -> Nodes \cup {NoNode}]
      BY DEF TypeOK
    <3>4. QED
      BY <3>1, <3>2, <3>3, OpenType
  <2>4. ASSUME NEW s \in Sessions, NEW j \in Jobs, LoadCancel(s, j)
        PROVE TypeOK'
    <3>1. "cancel" \in Ops \ {"none", "dispatch"}
      BY DEF Ops, Reports, Statuses
    <3>2. Open(s, "cancel", {j}) /\ jobs[j] # NoJob
          /\ UNCHANGED <<jobs, letters, pushed, lost, healthy, pick>>
      BY <2>4 DEF LoadCancel
    <3>3. pick \in [Sessions -> Nodes \cup {NoNode}]
      BY DEF TypeOK
    <3>4. QED
      BY <3>1, <3>2, <3>3, OpenType
  <2>5. ASSUME NEW s \in Sessions, NEW j \in Jobs, LoadRetry(s, j)
        PROVE TypeOK'
    <3> DEFINE o == IF ShouldRetry(jobs[j]) THEN "retry" ELSE "bury"
    <3>1. o \in Ops \ {"none", "dispatch"}
      BY DEF Ops, Reports, Statuses
    <3>2. Open(s, o, {j}) /\ jobs[j] # NoJob /\ pick' = pick
          /\ UNCHANGED <<jobs, letters, pushed, lost, healthy>>
      BY <2>5 DEF LoadRetry
    <3> HIDE DEF o
    <3>3. pick \in [Sessions -> Nodes \cup {NoNode}]
      BY DEF TypeOK
    <3>4. QED
      BY <3>1, <3>2, <3>3, OpenType
  <2>6. ASSUME NEW s \in Sessions, NEW n \in Nodes, LoadRedistribute(s, n)
        PROVE TypeOK'
    <3> DEFINE S == {j \in {i \in Jobs : jobs[i] # NoJob} :
                       jobs[j].node = n /\ jobs[j].status \in {"QUEUED", "DISPATCHED"}}
    <3>1. "redistribute" \in Ops \ {"none", "dispatch"}
      BY DEF Ops, Reports, Statuses
    <3>2. S \in SUBSET Jobs /\ \A j \in S : jobs[j] # NoJob
      OBVIOUS
    <3>3. Open(s, "redistribute", S) /\ pick' = [pick EXCEPT ![s] = n]
          /\ UNCHANGED <<jobs, letters, pushed, lost, healthy>>
      BY <2>6 DEF LoadRedistribute
    <3> HIDE DEF S
    <3>4. pick' \in [Sessions -> Nodes \cup {NoNode}]
          /\ \A t \in Sessions \ {s} : pick'[t] = pick[t]
      BY <3>3 DEF TypeOK
    <3>5. QED
      BY <3>1, <3>2, <3>3, <3>4, OpenType
  <2>7. ASSUME NEW s \in Sessions, Flush(s) PROVE TypeOK'
    <3>1. PICK n \in Nodes \cup {NoNode} :
             /\ pick' = [pick EXCEPT ![s] = n]
             /\ op[s] # "retry" => n = pick[s]
      BY <2>7 DEF Flush, BestNodes, TypeOK
    <3>2. QED
      BY <2>7, <3>1 DEF Flush, BestNodes, TypeOK, Phases
  <2>8. ASSUME NEW s \in Sessions, Push(s) PROVE TypeOK'
    <3>1. pushed' \in [Nodes -> SUBSET Jobs]
      BY <2>8 DEF Push, Pushes, TypeOK
    <3>2. QED
      BY <2>8, <3>1 DEF Push, TypeOK, Phases
  <2>9. ASSUME NEW s \in Sessions, PushLost(s) PROVE TypeOK'
    BY <2>9 DEF PushLost, TypeOK, Phases
  <2>10. ASSUME NEW s \in Sessions, Commit(s) PROVE TypeOK'
    <3>1. phase[s] # "idle"
      BY <2>10 DEF Commit
    <3>2. \A j \in on[s] : Written(s, j, jobs[j]) \in Row
      BY <3>1, WrittenType
    <3>3. jobs' \in [Jobs -> Row \cup {NoJob}]
      BY <2>10, <3>2 DEF Commit, TypeOK
    <3>4. \A j \in Jobs : jobs[j] # NoJob => jobs'[j] # NoJob
      BY <2>10, <3>2, NothingAssumption DEF Commit, TypeOK
    <3>5. letters' \subseteq Jobs /\ healthy' \subseteq Nodes
      BY <2>10 DEF Commit, TypeOK
    <3>6. QED
      BY <2>10, <3>3, <3>4, <3>5, CloseType DEF Commit
  <2>11. ASSUME NEW s \in Sessions, Rollback(s) PROVE TypeOK'
    BY <2>11, CloseType DEF Rollback, TypeOK
  <2>12. ASSUME NEW n \in Nodes, NodeUp(n) \/ NodeDown(n) PROVE TypeOK'
    BY <2>12 DEF NodeUp, NodeDown, TypeOK
  <2>13. QED
    BY <2>1, <2>2, <2>3, <2>4, <2>5, <2>6, <2>7, <2>8, <2>9, <2>10, <2>11, <2>12
    DEF Next, Begin, Proceed
<1>3. QED
  BY <1>1, <1>2, PTL DEF Spec

-----------------------------------------------------------------------------
(* What a session found when it loaded its rows. *)
LoadedOK(s) == \A j \in on[s] :
  /\ op[s] \in Reports => <<seen[s][j].status, op[s]>> \in ValidTransitions
  /\ op[s] \in {"cancel", "redistribute"} => seen[s][j].status \in {"QUEUED", "DISPATCHED"}
  /\ op[s] \in {"retry", "bury"} => seen[s][j].status # "COMPLETED"
  /\ op[s] = "retry" => seen[s][j].retries < MaxRetries
  /\ op[s] = "bury" => ~(seen[s][j].retries < MaxRetries)

SameCall(t) == op'[t] = op[t] /\ on'[t] = on[t] /\ seen'[t] = seen[t]
NoCall(t) == op'[t] = "none" /\ on'[t] = {}

(* A session keeps its call, ends it, or begins one. *)
LEMMA SessionSteps ==
  ASSUME TypeOK, [Next]_vars, NEW t \in Sessions
  PROVE  SameCall(t) \/ NoCall(t) \/ Begin(t)
<1>1. CASE UNCHANGED vars
  BY <1>1 DEF vars, SameCall
<1>2. ASSUME NEW s \in Sessions, Begin(s)
      PROVE s = t \/ SameCall(t)
  BY <1>2 DEF Begin, Dispatch, LoadReport, LoadCancel, LoadRetry, LoadRedistribute,
              Open, TypeOK, SameCall
<1>3. ASSUME NEW s \in Sessions, Commit(s) \/ Rollback(s)
      PROVE SameCall(t) \/ NoCall(t)
  BY <1>3 DEF Commit, Rollback, Close, TypeOK, SameCall, NoCall
<1>4. ASSUME NEW s \in Sessions, Flush(s) \/ Push(s) \/ PushLost(s)
      PROVE SameCall(t)
  BY <1>4 DEF Flush, Push, PushLost, SameCall
<1>5. ASSUME NEW n \in Nodes, NodeUp(n) \/ NodeDown(n)
      PROVE SameCall(t)
  BY <1>5 DEF NodeUp, NodeDown, SameCall
<1>6. QED
  BY <1>1, <1>2, <1>3, <1>4, <1>5 DEF Next, Proceed

(* The rows and the dead letters change only when a session commits. *)
LEMMA CommitsOnly ==
  ASSUME [Next]_vars
  PROVE  UNCHANGED <<jobs, letters>> \/ \E s \in Sessions : Commit(s)
BY DEF Next, Begin, Proceed, Dispatch, LoadReport, LoadCancel, LoadRetry,
       LoadRedistribute, Flush, Push, PushLost, Rollback, NodeUp, NodeDown, vars

(* What a call checked when it loaded its rows stays true of what it loaded. *)
LEMMA LoadedOKStep ==
  ASSUME TypeOK, [Next]_vars, NEW t \in Sessions, LoadedOK(t)
  PROVE  LoadedOK(t)'
<1>1. CASE SameCall(t)
  BY <1>1 DEF SameCall, LoadedOK
<1>2. CASE NoCall(t)
  BY <1>2 DEF NoCall, LoadedOK
<1>3. CASE \E j \in Jobs, n \in Nodes : Dispatch(t, j, n)
  <2>1. op'[t] = "dispatch"
    BY <1>3 DEF Dispatch, TypeOK
  <2>2. QED
    BY <2>1 DEF LoadedOK, Reports, Statuses
<1>4. ASSUME NEW j \in Jobs, NEW new \in Reports, LoadReport(t, j, new)
      PROVE LoadedOK(t)'
  <2>1. op'[t] = new /\ on'[t] = {j} /\ seen'[t][j] = jobs[j]
    BY <1>4 DEF LoadReport, Open, TypeOK
  <2>2. <<jobs[j].status, new>> \in ValidTransitions
    BY <1>4 DEF LoadReport
  <2>3. QED
    BY <2>1, <2>2 DEF LoadedOK, Reports, Statuses
<1>5. ASSUME NEW j \in Jobs, LoadCancel(t, j)
      PROVE LoadedOK(t)'
  <2>1. op'[t] = "cancel" /\ on'[t] = {j} /\ seen'[t][j] = jobs[j]
    BY <1>5 DEF LoadCancel, Open, TypeOK
  <2>2. QED
    BY <1>5, <2>1 DEF LoadedOK, LoadCancel, Reports, Statuses
<1>6. ASSUME NEW j \in Jobs, LoadRetry(t, j)
      PROVE LoadedOK(t)'
  <2>1. /\ op'[t] = IF ShouldRetry(jobs[j]) THEN "retry" ELSE "bury"
        /\ on'[t] = {j} /\ seen'[t][j] = jobs[j]
    BY <1>6 DEF LoadRetry, Open, TypeOK
  <2>2. jobs[j].status # "COMPLETED"
    BY <1>6 DEF LoadRetry
  <2>3. QED
    BY <2>1, <2>2 DEF LoadedOK, ShouldRetry, Reports, Statuses
<1>7. ASSUME NEW n \in Nodes, LoadRedistribute(t, n)
      PROVE LoadedOK(t)'
  <2>1. /\ op'[t] = "redistribute"
        /\ \A j \in on'[t] : /\ seen'[t][j] = jobs[j]
                             /\ jobs[j].status \in {"QUEUED", "DISPATCHED"}
    BY <1>7 DEF LoadRedistribute, Open, TypeOK
  <2>2. QED
    BY <2>1 DEF LoadedOK, Reports, Statuses
<1>8. QED
  BY <1>1, <1>2, <1>3, <1>4, <1>5, <1>6, <1>7, SessionSteps DEF Begin

(* The row a commit puts in place of an existing one, or creates. *)
LEMMA CommitRows ==
  ASSUME TypeOK, NEW s \in Sessions, Commit(s), NEW j \in Jobs
  PROVE  /\ j \notin on[s] => jobs'[j] = jobs[j]
         /\ j \in on[s] => jobs'[j] = Written(s, j, jobs[j]) /\ jobs'[j] \in Row
         /\ op[s] \in Ops \ {"none"}
         /\ j \in on[s] /\ op[s] # "dispatch" => jobs[j] \in Row /\ seen[s][j] \in Row
<1>1. phase[s] # "idle"
  BY DEF Commit
<1>2. jobs'[j] = IF j \in on[s] THEN Written(s, j, jobs[j]) ELSE jobs[j]
  BY DEF Commit
<1>3. j \in on[s] => Written(s, j, jobs[j]) \in Row
  BY <1>1, WrittenType
<1>4. op[s] \in Ops \ {"none"}
  BY <1>1 DEF TypeOK
<1>5. j \in on[s] /\ op[s] # "dispatch" => jobs[j] \in Row /\ seen[s][j] \in Row
  BY DEF TypeOK
<1>6. QED
  BY <1>2, <1>3, <1>4, <1>5

(* The same, by the call that commits, and the columns it leaves. *)
LEMMA CommitColumns ==
  ASSUME TypeOK, NEW s \in Sessions, Commit(s), NEW j \in Jobs, j \in on[s],
         op[s] # "dispatch"
  PROVE  /\ jobs[j] \in Row /\ seen[s][j] \in Row /\ jobs'[j] \in Row
         /\ op[s] \in Reports \cup {"cancel", "retry", "bury", "redistribute"}
         /\ op[s] \in Reports =>
              /\ jobs'[j].status = op[s]
              /\ jobs'[j].node = jobs[j].node
              /\ jobs'[j].retries = IF op[s] = "QUEUED" THEN seen[s][j].retries + 1
                                    ELSE jobs[j].retries
              /\ jobs'[j].sent = (jobs[j].sent \/ op[s] = "DISPATCHED")
              /\ jobs'[j].ended = (jobs[j].ended \/ op[s] \in {"COMPLETED", "FAILED"})
              /\ jobs'[j].result = (jobs[j].result \/ op[s] = "COMPLETED")
         /\ op[s] = "cancel" \/ (op[s] = "bury" /\ seen[s][j].status # "FAILED") =>
              /\ jobs'[j].status = "FAILED"
              /\ jobs'[j].node = jobs[j].node
              /\ jobs'[j].retries = jobs[j].retries
              /\ jobs'[j].sent = jobs[j].sent
              /\ jobs'[j].ended
              /\ jobs'[j].result = jobs[j].result
         /\ op[s] = "bury" /\ seen[s][j].status = "FAILED" => jobs'[j] = jobs[j]
         /\ op[s] = "retry" =>
              /\ jobs'[j].status = "QUEUED"
              /\ jobs'[j].node = IF pick[s] \in {NoNode, seen[s][j].node}
                                 THEN jobs[j].node ELSE pick[s]
              /\ jobs'[j].retries = seen[s][j].retries + 1
              /\ jobs'[j].sent = jobs[j].sent
              /\ jobs'[j].result = jobs[j].result
         /\ op[s] = "redistribute" =>
              /\ jobs'[j].status = IF seen[s][j].status = "QUEUED"
                                   THEN jobs[j].status ELSE "QUEUED"
              /\ jobs'[j].node = jobs[j].node
              /\ jobs'[j].retries = jobs[j].retries
              /\ jobs'[j].sent = (jobs[j].sent /\ ~seen[s][j].sent)
              /\ jobs'[j].ended = jobs[j].ended
              /\ jobs'[j].result = jobs[j].result
<1>1. jobs[j] \in Row /\ seen[s][j] \in Row /\ op[s] \in Ops \ {"none"}
      /\ jobs'[j] = Written(s, j, jobs[j]) /\ jobs'[j] \in Row
  BY CommitRows
<1>2. op[s] \in Reports \cup {"cancel", "retry", "bury", "redistribute"}
  BY <1>1 DEF Ops
<1>3. op[s] \in Reports => jobs'[j] = Reported(jobs[j], seen[s][j], op[s])
  BY <1>1, WrittenBy
<1>4. op[s] = "cancel" => jobs'[j] = Cancelled(jobs[j])
  BY <1>1, WrittenBy
<1>5. op[s] = "retry" => jobs'[j] = Requeued(jobs[j], seen[s][j], pick[s])
  BY <1>1, WrittenBy
<1>6. op[s] = "bury" =>
        jobs'[j] = IF seen[s][j].status = "FAILED" THEN jobs[j] ELSE Cancelled(jobs[j])
  BY <1>1, WrittenBy DEF Buried
<1>7. op[s] = "redistribute" => jobs'[j] = TakenBack(jobs[j], seen[s][j])
  BY <1>1, WrittenBy
<1>8. CASE op[s] \in Reports
  BY <1>1, <1>2, <1>3, <1>8, ReportedColumns DEF Reports, Statuses
<1>9. CASE op[s] \in {"cancel", "bury"}
  <2>1. op[s] \notin Reports /\ op[s] # "retry" /\ op[s] # "redistribute"
    BY <1>9 DEF Reports, Statuses
  <2>2. ASSUME jobs'[j] = Cancelled(jobs[j]), op[s] = "cancel" \/ seen[s][j].status # "FAILED"
        PROVE  /\ jobs'[j].status = "FAILED"
               /\ jobs'[j].node = jobs[j].node
               /\ jobs'[j].retries = jobs[j].retries
               /\ jobs'[j].sent = jobs[j].sent
               /\ jobs'[j].ended
               /\ jobs'[j].result = jobs[j].result
    BY <1>1, <2>2, CancelledColumns
  <2>3. CASE op[s] = "cancel"
    <3>1. op[s] # "bury" /\ jobs'[j] = Cancelled(jobs[j])
      BY <1>4, <2>3
    <3>2. QED
      BY <1>1, <1>2, <2>1, <2>2, <2>3, <3>1
  <2>4. CASE op[s] = "bury"
    <3>1. op[s] # "cancel"
      BY <2>4
    <3>2. CASE seen[s][j].status = "FAILED"
      <4>1. jobs'[j] = jobs[j]
        BY <1>6, <2>4, <3>2
      <4>2. QED
        BY <1>1, <1>2, <2>1, <2>4, <3>1, <3>2, <4>1
    <3>3. CASE seen[s][j].status # "FAILED"
      <4>1. jobs'[j] = Cancelled(jobs[j])
        BY <1>6, <2>4, <3>3
      <4>2. QED
        BY <1>1, <1>2, <2>1, <2>2, <2>4, <3>1, <3>3, <4>1
    <3>4. QED
      BY <3>2, <3>3
  <2> QED
    BY <1>9, <2>3, <2>4
<1>10. CASE op[s] = "retry"
  BY <1>1, <1>2, <1>5, <1>10, RequeuedColumns DEF Reports, Statuses
<1>11. CASE op[s] = "redistribute"
  BY <1>1, <1>2, <1>7, <1>11, TakenBackColumns DEF Reports, Statuses
<1>12. QED
  BY <1>2, <1>8, <1>9, <1>10, <1>11

(* However calls overlap, a finished job has its completed_at. *)
THEOREM EndedHasTimeHolds == Spec => []EndedHasTime
<1>1. Init => EndedHasTime
  BY DEF Init, EndedHasTime
<1>2. TypeOK /\ EndedHasTime /\ [Next]_vars => EndedHasTime'
  <2> SUFFICES ASSUME TypeOK, EndedHasTime, [Next]_vars PROVE EndedHasTime'
    OBVIOUS
  <2>1. CASE UNCHANGED <<jobs, letters>>
    BY <2>1 DEF EndedHasTime
  <2>2. ASSUME NEW s \in Sessions, Commit(s), NEW j \in Jobs, j \in on[s],
               jobs'[j].status \in {"COMPLETED", "FAILED"}
        PROVE jobs'[j].ended
    <3>1. op[s] \in Ops \ {"none"} /\ jobs'[j] = Written(s, j, jobs[j])
      BY <2>2, CommitRows
    <3>2. CASE op[s] = "dispatch"
      BY <2>2, <3>1, <3>2, WrittenBy DEF NewRow
    <3>3. CASE op[s] # "dispatch"
      <4>1. jobs[j] \in Row /\ seen[s][j] \in Row
            /\ (jobs[j].status \in {"COMPLETED", "FAILED"} => jobs[j].ended)
        BY <2>2, <3>3, CommitRows, NothingAssumption DEF EndedHasTime
      <4>2. CASE op[s] \in Reports
        BY <2>2, <3>3, <4>1, <4>2, CommitColumns
      <4>3. CASE op[s] \in {"cancel", "bury"}
        BY <2>2, <3>3, <4>1, <4>3, CommitColumns
      <4>4. CASE op[s] = "retry"
        BY <2>2, <3>3, <4>1, <4>4, CommitColumns
      <4>5. CASE op[s] = "redistribute"
        BY <2>2, <3>3, <4>1, <4>5, CommitColumns
      <4>6. QED
        BY <2>2, <3>3, <4>2, <4>3, <4>4, <4>5, CommitColumns
    <3>4. QED
      BY <3>2, <3>3
  <2>3. ASSUME NEW s \in Sessions, Commit(s) PROVE EndedHasTime'
    BY <2>2, <2>3, CommitRows DEF EndedHasTime
  <2>4. QED
    BY <2>1, <2>3, CommitsOnly
<1>3. QED
  BY <1>1, <1>2, TypeCorrect, PTL DEF Spec

-----------------------------------------------------------------------------
(* A session past its push has told its node, or Redis was down. *)
PushedOK(s) == phase[s] = "pushed" =>
  pick[s] \in Nodes /\ \A j \in on[s] : j \in lost \/ j \in pushed[pick[s]]

(* No push is ever taken back. *)
LEMMA QueueGrows ==
  ASSUME TypeOK, [Next]_vars
  PROVE  /\ lost \subseteq lost'
         /\ \A n \in Nodes : pushed[n] \subseteq pushed'[n]
<1>1. CASE UNCHANGED pushed /\ lost \subseteq lost'
  BY <1>1
<1>2. ASSUME NEW s \in Sessions, Push(s), NEW n \in Nodes
      PROVE pushed[n] \subseteq pushed'[n]
  BY <1>2 DEF Push, TypeOK
<1>3. ASSUME NEW s \in Sessions, Push(s) PROVE lost' = lost
  BY <1>3 DEF Push
<1>4. QED
  BY <1>1, <1>2, <1>3 DEF Next, Begin, Proceed, Dispatch, LoadReport, LoadCancel, LoadRetry,
     LoadRedistribute, Flush, PushLost, Commit, Rollback, Close, NodeUp, NodeDown, vars

(* A session that has pushed has done so for every job it writes. *)
LEMMA PushedOKStep ==
  ASSUME TypeOK, [Next]_vars, NEW t \in Sessions, PushedOK(t)
  PROVE  PushedOK(t)'
<1>1. CASE phase'[t] = phase[t] /\ on'[t] = on[t] /\ pick'[t] = pick[t]
  <2>1. on[t] \subseteq Jobs
    BY DEF TypeOK
  <2>2. QED
    BY <1>1, <2>1, QueueGrows DEF PushedOK
<1>2. CASE phase'[t] # "pushed"
  BY <1>2 DEF PushedOK
<1>3. CASE Push(t)
  <2>1. pick[t] \in Nodes /\ pick' = pick /\ on' = on /\ on[t] \subseteq Jobs
    BY <1>3 DEF Push, Pushes, TypeOK
  <2>2. on[t] \subseteq pushed'[pick[t]]
    BY <1>3, <2>1 DEF Push, TypeOK
  <2>3. QED
    BY <2>1, <2>2 DEF PushedOK
<1>4. CASE PushLost(t)
  BY <1>4 DEF PushLost, Pushes, PushedOK, TypeOK
<1>5. QED
  <2>1. ASSUME NEW s \in Sessions, Begin(s) PROVE PushedOK(t)'
    <3>1. s = t => phase'[t] # "pushed"
      BY <2>1 DEF Begin, Dispatch, LoadReport, LoadCancel, LoadRetry, LoadRedistribute,
                  Open, TypeOK
    <3>2. s # t => phase'[t] = phase[t] /\ on'[t] = on[t] /\ pick'[t] = pick[t]
      BY <2>1 DEF Begin, Dispatch, LoadReport, LoadCancel, LoadRetry, LoadRedistribute,
                  Open, TypeOK
    <3>3. QED
      BY <1>1, <1>2, <3>1, <3>2
  <2>2. ASSUME NEW s \in Sessions, Flush(s) PROVE PushedOK(t)'
    <3>1. s = t => phase'[t] # "pushed"
      BY <2>2 DEF Flush, BestNodes, TypeOK
    <3>2. s # t => phase'[t] = phase[t] /\ on'[t] = on[t] /\ pick'[t] = pick[t]
      BY <2>2 DEF Flush, BestNodes, TypeOK
    <3>3. QED
      BY <1>1, <1>2, <3>1, <3>2
  <2>3. ASSUME NEW s \in Sessions, Push(s) \/ PushLost(s) PROVE PushedOK(t)'
    <3>1. s # t => phase'[t] = phase[t] /\ on'[t] = on[t] /\ pick'[t] = pick[t]
      BY <2>3 DEF Push, PushLost, TypeOK
    <3>2. QED
      BY <1>1, <1>3, <1>4, <2>3, <3>1
  <2>4. ASSUME NEW s \in Sessions, Commit(s) \/ Rollback(s) PROVE PushedOK(t)'
    <3>1. s = t => phase'[t] # "pushed"
      BY <2>4 DEF Commit, Rollback, Close, TypeOK
    <3>2. s # t => phase'[t] = phase[t] /\ on'[t] = on[t] /\ pick'[t] = pick[t]
      BY <2>4 DEF Commit, Rollback, Close, TypeOK
    <3>3. QED
      BY <1>1, <1>2, <3>1, <3>2
  <2>5. ASSUME NEW n \in Nodes, NodeUp(n) \/ NodeDown(n) PROVE PushedOK(t)'
    BY <1>1, <2>5 DEF NodeUp, NodeDown
  <2>6. CASE UNCHANGED vars
    BY <1>1, <2>6 DEF vars
  <2>7. QED
    BY <2>1, <2>2, <2>3, <2>4, <2>5, <2>6 DEF Next, Proceed

AssignedInv == AssignedIsQueued /\ \A s \in Sessions : PushedOK(s)

(* However calls overlap, a job's node has been told of it unless Redis was
   down: dispatch and retry push before they commit the assignment. *)
THEOREM AssignedIsQueuedHolds == Spec => []AssignedIsQueued
<1>1. Init => AssignedInv
  BY DEF Init, AssignedInv, AssignedIsQueued, PushedOK
<1>2. TypeOK /\ TypeOK' /\ AssignedInv /\ [Next]_vars => AssignedInv'
  <2> SUFFICES ASSUME TypeOK, TypeOK', AssignedInv, [Next]_vars PROVE AssignedInv'
    OBVIOUS
  <2>1. \A s \in Sessions : PushedOK(s)'
    BY PushedOKStep DEF AssignedInv
  <2>2. CASE UNCHANGED <<jobs, letters>>
    <3>1. \A j \in Jobs : jobs[j] # NoJob => jobs[j].node \in Nodes
      BY DEF TypeOK, Row
    <3>2. QED
      BY <2>1, <2>2, <3>1, QueueGrows DEF AssignedInv, AssignedIsQueued
  <2>3. ASSUME NEW s \in Sessions, Commit(s), NEW j \in Jobs, jobs'[j] # NoJob, j \notin lost
        PROVE j \in pushed[jobs'[j].node]
    <3>1. CASE j \notin on[s]
      BY <2>3, <3>1, CommitRows DEF AssignedInv, AssignedIsQueued
    <3>2. CASE j \in on[s] /\ Pushes(s)
      <4>1. j \in pushed[pick[s]]
        BY <2>3, <3>2 DEF Commit, AssignedInv, PushedOK
      <4>2. CASE op[s] = "dispatch"
        BY <2>3, <3>2, <4>1, <4>2, CommitRows, WrittenBy DEF NewRow
      <4>3. CASE op[s] = "retry"
        <5>1. jobs'[j].node \in {pick[s], jobs[j].node} /\ jobs[j] # NoJob
          BY <2>3, <3>2, <4>3, CommitColumns, NothingAssumption
        <5>2. QED
          BY <2>3, <4>1, <5>1 DEF AssignedInv, AssignedIsQueued
      <4>4. QED
        BY <3>2, <4>2, <4>3 DEF Pushes
    <3>3. CASE j \in on[s] /\ ~Pushes(s)
      <4>1. op[s] # "dispatch"
        BY <3>3, NothingAssumption DEF Pushes, TypeOK
      <4>2. jobs'[j].node = jobs[j].node /\ jobs[j] # NoJob
        BY <2>3, <3>3, <4>1, CommitColumns, NothingAssumption DEF Pushes
      <4>3. QED
        BY <2>3, <4>2 DEF AssignedInv, AssignedIsQueued
    <3>4. QED
      BY <3>1, <3>2, <3>3
  <2>4. ASSUME NEW s \in Sessions, Commit(s) PROVE AssignedIsQueued'
    <3>1. UNCHANGED <<pushed, lost>>
      BY <2>4 DEF Commit, Close
    <3>2. QED
      BY <2>3, <2>4, <3>1 DEF AssignedIsQueued
  <2>5. QED
    BY <2>1, <2>2, <2>4, CommitsOnly DEF AssignedInv
<1>3. AssignedInv => AssignedIsQueued
  BY DEF AssignedInv
<1>4. QED
  BY <1>1, <1>2, <1>3, TypeCorrect, PTL DEF Spec

-----------------------------------------------------------------------------
(* A job being dispatched is nobody else's. *)
NewJobsOK(s) == op[s] = "dispatch" =>
  /\ \A j \in on[s] : jobs[j] = NoJob
  /\ \A t \in Sessions \ {s} : on[s] \cap on[t] = {}

(* What each session under way checked and owns. *)
CallsInv == \A s \in Sessions : LoadedOK(s) /\ NewJobsOK(s)

(* Another session's commit leaves a job being dispatched alone. *)
LEMMA CommitApart ==
  ASSUME TypeOK, CallsInv, NEW s \in Sessions, Commit(s),
         NEW t \in Sessions \ {s}, op[t] = "dispatch"
  PROVE  \A j \in on[t] : jobs'[j] = jobs[j]
<1>1. on[s] \cap on[t] = {} /\ on[t] \subseteq Jobs
  BY DEF CallsInv, NewJobsOK, TypeOK
<1>2. QED
  BY <1>1 DEF Commit

(* A job being dispatched stays its session's own. *)
LEMMA NewJobsOKStep ==
  ASSUME TypeOK, CallsInv, [Next]_vars, NEW t \in Sessions
  PROVE  NewJobsOK(t)'
<1>1. SUFFICES ASSUME op'[t] = "dispatch" PROVE NewJobsOK(t)'
  BY DEF NewJobsOK
<1>2. CASE \E j \in Jobs, n \in Nodes : Dispatch(t, j, n)
  <2>1. PICK j \in Jobs : Fresh(j) /\ on' = [on EXCEPT ![t] = {j}] /\ UNCHANGED jobs
    BY <1>2 DEF Dispatch
  <2>2. QED
    BY <2>1 DEF Fresh, NewJobsOK, TypeOK
<1>3. CASE SameCall(t)
  <2>1. op[t] = "dispatch" /\ on'[t] = on[t]
    BY <1>1, <1>3 DEF SameCall
  <2>2. \A j \in on[t] : jobs'[j] = NoJob
    <3>1. CASE UNCHANGED <<jobs, letters>>
      BY <2>1, <3>1 DEF CallsInv, NewJobsOK
    <3>2. ASSUME NEW s \in Sessions, Commit(s)
          PROVE \A j \in on[t] : jobs'[j] = NoJob
      <4>1. s # t
        BY <1>1, <3>2 DEF Commit, Close, TypeOK
      <4>2. QED
        BY <2>1, <3>2, <4>1, CommitApart DEF CallsInv, NewJobsOK
    <3>3. QED
      BY <3>1, <3>2, CommitsOnly
  <2>3. ASSUME NEW s \in Sessions \ {t} PROVE on[t] \cap on'[s] = {}
    <3>1. CASE SameCall(s)
      BY <2>1, <3>1 DEF SameCall, CallsInv, NewJobsOK
    <3>2. CASE NoCall(s)
      BY <3>2 DEF NoCall
    <3>3. CASE \E j \in Jobs, n \in Nodes : Dispatch(s, j, n)
      BY <3>3 DEF Dispatch, Fresh, TypeOK
    <3>4. ASSUME NEW o, NEW S, Open(s, o, S), \A j \in S : jobs[j] # NoJob
          PROVE on[t] \cap on'[s] = {}
      BY <2>1, <3>4 DEF Open, TypeOK, CallsInv, NewJobsOK
    <3>5. CASE \E j \in Jobs, new \in Reports : LoadReport(s, j, new)
      BY <3>4, <3>5 DEF LoadReport
    <3>6. CASE \E j \in Jobs : LoadCancel(s, j)
      BY <3>4, <3>6 DEF LoadCancel
    <3>7. CASE \E j \in Jobs : LoadRetry(s, j)
      BY <3>4, <3>7 DEF LoadRetry
    <3>8. CASE \E n \in Nodes : LoadRedistribute(s, n)
      BY <3>4, <3>8 DEF LoadRedistribute
    <3>9. QED
      BY <3>1, <3>2, <3>3, <3>5, <3>6, <3>7, <3>8, SessionSteps DEF Begin
  <2>4. QED
    BY <2>1, <2>2, <2>3 DEF NewJobsOK
<1>4. CASE NoCall(t)
  BY <1>1, <1>4 DEF NoCall
<1>5. CASE Begin(t) /\ ~(\E j \in Jobs, n \in Nodes : Dispatch(t, j, n))
  <2>1. op'[t] # "dispatch"
    BY <1>5 DEF Begin, LoadReport, LoadCancel, LoadRetry, LoadRedistribute, Open,
                Reports, Statuses, TypeOK
  <2>2. QED
    BY <1>1, <2>1
<1>6. QED
  BY <1>2, <1>3, <1>4, <1>5, SessionSteps

(* What the sessions checked and own stays so. *)
LEMMA CallsInvHolds == Spec => []CallsInv
<1>1. Init => CallsInv
  BY DEF Init, CallsInv, LoadedOK, NewJobsOK
<1>2. TypeOK /\ CallsInv /\ [Next]_vars => CallsInv'
  BY LoadedOKStep, NewJobsOKStep DEF CallsInv
<1>3. QED
  BY <1>1, <1>2, TypeCorrect, PTL DEF Spec

(* However calls overlap, only a requeue by report takes a job's retry_count
   past MAX_RETRIES. *)
THEOREM OnlyReportsExceedHolds == Spec => OnlyReportsExceed
<1>1. TypeOK /\ CallsInv /\ [Next]_vars =>
        [\A j \in Jobs : RetriesOf(j)' > RetriesOf(j) /\ RetriesOf(j)' > MaxRetries =>
           \E s \in Sessions : Commit(s) /\ j \in on[s] /\ op[s] = "QUEUED"]_vars
  <2> SUFFICES ASSUME TypeOK, CallsInv, [Next]_vars, NEW j \in Jobs,
                      RetriesOf(j)' > RetriesOf(j), RetriesOf(j)' > MaxRetries
               PROVE  \E s \in Sessions : Commit(s) /\ j \in on[s] /\ op[s] = "QUEUED"
    OBVIOUS
  <2>1. RetriesOf(j) \in Nat
    BY DEF RetriesOf, TypeOK, Row
  <2>2. jobs'[j] # jobs[j]
    <3>1. CASE jobs'[j] = jobs[j]
      <4>1. RetriesOf(j)' = RetriesOf(j)
        BY <3>1 DEF RetriesOf
      <4>2. QED
        BY <2>1, <4>1
    <3>2. QED
      BY <3>1
  <2>3. PICK s \in Sessions : Commit(s)
    BY <2>2, CommitsOnly
  <2>4. j \in on[s] /\ op[s] \in Ops \ {"none"}
        /\ jobs'[j] = Written(s, j, jobs[j]) /\ jobs'[j] \in Row
    BY <2>2, <2>3, CommitRows
  <2>5. jobs'[j].retries > MaxRetries
    BY <2>4, NothingAssumption DEF RetriesOf
  <2>6. CASE op[s] = "dispatch"
    <3>1. jobs'[j].retries = 0
      BY <2>4, <2>6, WrittenBy DEF NewRow
    <3>2. QED
      BY <2>5, <3>1, BoundAssumption
  <2>7. CASE op[s] = "retry"
    <3>1. jobs'[j].retries = seen[s][j].retries + 1 /\ seen[s][j].retries \in Nat
      BY <2>3, <2>4, <2>7, CommitColumns DEF Row
    <3>2. seen[s][j].retries < MaxRetries
      BY <2>4, <2>7 DEF CallsInv, LoadedOK
    <3>3. QED
      BY <2>5, <3>1, <3>2, BoundAssumption
  <2>8. CASE op[s] \notin {"dispatch", "retry", "QUEUED"}
    <3>1. jobs[j] \in Row /\ jobs'[j].retries = jobs[j].retries
      BY <2>3, <2>4, <2>8, CommitColumns DEF Ops
    <3>2. RetriesOf(j)' = RetriesOf(j)
      BY <2>4, <3>1, NothingAssumption DEF RetriesOf
    <3>3. QED
      BY <2>1, <3>2
  <2>9. QED
    BY <2>3, <2>4, <2>6, <2>7, <2>8
<1>2. QED
  BY <1>1, TypeCorrect, CallsInvHolds, PTL DEF Spec, OnlyReportsExceed

-----------------------------------------------------------------------------
(* What a commit does to an existing row its session knows: it moves it along
   VALID_TRANSITIONS, leaves its status, or requeues it. *)
RowMoved(j) ==
  /\ <<jobs[j].status, jobs'[j].status>> \in ValidTransitions
  /\ jobs[j].status # "FAILED"
  /\ jobs'[j].retries = jobs[j].retries
  /\ jobs'[j].result => jobs[j].result \/ jobs'[j].status = "COMPLETED"
  /\ jobs'[j].status = "RUNNING" /\ jobs[j].sent => jobs'[j].sent
  /\ jobs'[j].status = "DISPATCHED" => jobs'[j].sent

RowKept(j) ==
  /\ jobs'[j].status = jobs[j].status
  /\ jobs'[j].retries = jobs[j].retries
  /\ jobs'[j].result = jobs[j].result
  /\ jobs'[j].status \in {"QUEUED", "FAILED"}

RowRequeued(j) ==
  /\ jobs'[j].status = "QUEUED"
  /\ jobs'[j].retries = jobs[j].retries + 1
  /\ jobs'[j].result = jobs[j].result
  /\ \/ jobs[j].status \in {"DISPATCHED", "FAILED"}
     \/ (jobs[j].status # "COMPLETED" /\ jobs[j].retries < MaxRetries)

(* A commit moves, keeps or requeues each row its session knows; a bury needs
   a job out of retries. *)
LEMMA CommitMoves ==
  ASSUME TypeOK, CallsInv, NEW s \in Sessions, Commit(s),
         NEW j \in Jobs, j \in on[s], op[s] # "dispatch", seen[s][j] = jobs[j]
  PROVE  /\ jobs[j] \in Row /\ jobs'[j] \in Row
         /\ RowMoved(j) \/ RowKept(j) \/ RowRequeued(j)
         /\ op[s] = "bury" => /\ ~(jobs'[j].retries < MaxRetries)
                              /\ jobs'[j].status = "FAILED"
<1>1. LoadedOK(s)
  BY DEF CallsInv
<1>2. jobs[j] \in Row /\ jobs'[j] \in Row /\ jobs[j].status \in Statuses
      /\ op[s] \in Reports \cup {"cancel", "retry", "bury", "redistribute"}
  BY CommitColumns DEF Row
<1>5. CASE op[s] \in Reports
  <2>1. <<jobs[j].status, op[s]>> \in ValidTransitions /\ op[s] # "bury"
    BY <1>1, <1>5 DEF LoadedOK, Reports, Statuses
  <2>3. /\ jobs'[j].status = op[s]
        /\ jobs'[j].retries = IF op[s] = "QUEUED" THEN jobs[j].retries + 1 ELSE jobs[j].retries
        /\ jobs'[j].sent = (jobs[j].sent \/ op[s] = "DISPATCHED")
        /\ jobs'[j].result = (jobs[j].result \/ op[s] = "COMPLETED")
    BY <1>5, CommitColumns
  <2>4. CASE op[s] = "QUEUED"
    <3>1. jobs[j].status \in {"DISPATCHED", "FAILED"}
      BY <2>1, <2>4 DEF ValidTransitions
    <3>2. jobs'[j].result = jobs[j].result
      BY <1>2, <2>3, <2>4 DEF Row
    <3>3. RowRequeued(j)
      BY <2>3, <2>4, <3>1, <3>2 DEF RowRequeued
    <3>4. QED
      BY <1>2, <2>1, <3>3
  <2>5. CASE op[s] # "QUEUED"
    <3>1. jobs[j].status # "FAILED"
      BY <2>1, <2>5 DEF ValidTransitions
    <3>2. RowMoved(j)
      BY <2>1, <2>3, <2>5, <3>1 DEF RowMoved
    <3>3. QED
      BY <1>2, <2>1, <3>2
  <2>6. QED
    BY <2>4, <2>5
<1>6. CASE op[s] = "cancel"
  <2>1. jobs[j].status \in {"QUEUED", "DISPATCHED"} /\ jobs'[j].status = "FAILED"
    BY <1>1, <1>6, CommitColumns DEF LoadedOK
  <2>2. <<jobs[j].status, jobs'[j].status>> \in ValidTransitions
    BY <2>1 DEF ValidTransitions
  <2>3. RowMoved(j)
    BY <1>6, <2>1, <2>2, CommitColumns DEF RowMoved
  <2>4. QED
    BY <1>2, <1>6, <2>3
<1>7. CASE op[s] = "retry"
  <2>1. jobs[j].status # "COMPLETED" /\ jobs[j].retries < MaxRetries
    BY <1>1, <1>7 DEF LoadedOK
  <2>2. RowRequeued(j)
    BY <1>7, <2>1, CommitColumns DEF RowRequeued
  <2>3. QED
    BY <1>2, <1>7, <2>2
<1>8. CASE op[s] = "bury"
  <2>1. ~(jobs[j].retries < MaxRetries) /\ jobs[j].status # "COMPLETED"
    BY <1>1, <1>8 DEF LoadedOK
  <2>2. CASE jobs[j].status = "FAILED"
    <3>1. jobs'[j] = jobs[j]
      BY <1>8, <2>2, CommitColumns
    <3>2. RowKept(j)
      BY <2>2, <3>1 DEF RowKept
    <3>3. QED
      BY <1>2, <2>1, <2>2, <3>1, <3>2
  <2>3. CASE jobs[j].status # "FAILED"
    <3>1. /\ jobs'[j].status = "FAILED" /\ jobs'[j].retries = jobs[j].retries
          /\ jobs'[j].result = jobs[j].result
      BY <1>8, <2>3, CommitColumns
    <3>2. <<jobs[j].status, "FAILED">> \in ValidTransitions
      BY <1>2, <2>1, <2>3 DEF ValidTransitions, Statuses
    <3>3. RowMoved(j)
      BY <2>3, <3>1, <3>2 DEF RowMoved
    <3>4. QED
      BY <1>2, <2>1, <3>1, <3>3
  <2>4. QED
    BY <2>2, <2>3
<1>9. CASE op[s] = "redistribute"
  <2>0. jobs[j].status \in {"QUEUED", "DISPATCHED"}
    BY <1>1, <1>9 DEF LoadedOK
  <2>1. jobs'[j].status = "QUEUED"
        /\ jobs'[j].retries = jobs[j].retries /\ jobs'[j].result = jobs[j].result
    BY <1>9, <2>0, CommitColumns
  <2>2. CASE jobs[j].status = "QUEUED"
    <3>1. RowKept(j)
      BY <2>1, <2>2 DEF RowKept
    <3>2. QED
      BY <1>2, <1>9, <3>1
  <2>3. CASE jobs[j].status = "DISPATCHED"
    <3>1. <<jobs[j].status, jobs'[j].status>> \in ValidTransitions
      BY <2>1, <2>3 DEF ValidTransitions
    <3>2. RowMoved(j)
      BY <2>1, <2>3, <3>1 DEF RowMoved
    <3>3. QED
      BY <1>2, <1>9, <3>2
  <2>4. QED
    BY <2>0, <2>2, <2>3
<1>10. QED
  BY <1>2, <1>5, <1>6, <1>7, <1>8, <1>9

(* A job's row changes by a commit: of a session that creates it, that writes
   a stale row, or that knows the row. *)
LEMMA RowChanges ==
  ASSUME TypeOK, CallsInv, NEW s \in Sessions, Commit(s), NEW j \in Jobs, ~WritesStale(j)
  PROVE  \/ (jobs'[j] = jobs[j] /\ j \notin on[s])
         \/ /\ jobs[j] = NoJob /\ jobs'[j] = NewRow(pick[s]) /\ jobs'[j] # NoJob
            /\ j \in on[s] /\ op[s] = "dispatch"
         \/ /\ j \in on[s] /\ op[s] # "dispatch" /\ seen[s][j] = jobs[j]
            /\ jobs[j] # NoJob /\ jobs'[j] # NoJob
            /\ RowMoved(j) \/ RowKept(j) \/ RowRequeued(j)
<1>1. CASE j \notin on[s]
  BY <1>1, CommitRows
<1>2. CASE j \in on[s] /\ op[s] = "dispatch"
  BY <1>2, CommitRows, WrittenBy, NothingAssumption DEF CallsInv, NewJobsOK
<1>3. CASE j \in on[s] /\ op[s] # "dispatch"
  <2>1. seen[s][j] = jobs[j]
    BY <1>3 DEF WritesStale
  <2>2. QED
    BY <1>3, <2>1, CommitMoves, NothingAssumption
<1>4. QED
  BY <1>1, <1>2, <1>3

(* The columns of a job come apart only by a commit on a stale row. *)
THEOREM SpoiltOnlyByStaleRowsHolds == Spec => SpoiltOnlyByStaleRows
<1>1. TypeOK /\ CallsInv /\ [Next]_vars =>
        [\A j \in Jobs : ColumnsAgree(j) /\ ~ColumnsAgree(j)' => WritesStale(j)]_vars
  <2> SUFFICES ASSUME TypeOK, CallsInv, [Next]_vars, NEW j \in Jobs,
                      ColumnsAgree(j), ~WritesStale(j)
               PROVE  ColumnsAgree(j)'
    OBVIOUS
  <2>1. CASE jobs'[j] = jobs[j]
    BY <2>1 DEF ColumnsAgree
  <2>2. ASSUME NEW s \in Sessions, Commit(s)
        PROVE ColumnsAgree(j)'
    <3>1. CASE jobs'[j] = NewRow(pick[s])
      BY <3>1 DEF NewRow, ColumnsAgree
    <3>2. CASE jobs[j] # NoJob /\ RowMoved(j)
      <4>1. jobs'[j].status = "RUNNING" => jobs[j].status = "DISPATCHED"
        BY <3>2 DEF RowMoved, ValidTransitions
      <4>2. jobs[j].status # "COMPLETED"
        BY <3>2 DEF RowMoved, ValidTransitions
      <4>3. QED
        BY <3>2, <4>1, <4>2 DEF RowMoved, ColumnsAgree
    <3>3. CASE jobs[j] # NoJob /\ RowKept(j)
      BY <3>3 DEF RowKept, ColumnsAgree
    <3>4. CASE jobs[j] # NoJob /\ RowRequeued(j)
      <4>1. jobs[j].status # "COMPLETED"
        BY <3>4 DEF RowRequeued
      <4>2. QED
        BY <3>4, <4>1 DEF RowRequeued, ColumnsAgree
    <3>5. QED
      BY <2>1, <2>2, <3>1, <3>2, <3>3, <3>4, RowChanges
  <2>3. QED
    BY <2>1, <2>2, CommitsOnly
<1>2. QED
  BY <1>1, TypeCorrect, CallsInvHolds, PTL DEF Spec, SpoiltOnlyByStaleRows

(* Every step of every job is one of the life JobMachine draws, unless the
   row its session decided on was overwritten in between. *)
THEOREM LegalUnlessStaleHolds == Spec => LegalUnlessStale
<1>1. TypeOK /\ CallsInv /\ [Next]_vars =>
        [letters \subseteq letters' /\
         \A j \in Jobs : WritesStale(j) \/ Machine!Lives(j)]_vars
  <2> SUFFICES ASSUME TypeOK, CallsInv, [Next]_vars
               PROVE  letters \subseteq letters' /\
                      \A j \in Jobs : WritesStale(j) \/ Machine!Lives(j)
    OBVIOUS
  <2>1. CASE UNCHANGED <<jobs, letters>>
    BY <2>1 DEF Machine!Lives, Machine!Stays, Machine!GivenUp, RetriesOf
  <2>2. ASSUME NEW s \in Sessions, Commit(s)
        PROVE letters \subseteq letters'
    BY <2>2 DEF Commit
  <2>3. ASSUME NEW s \in Sessions, Commit(s), NEW j \in Jobs, ~WritesStale(j)
        PROVE Machine!Lives(j)
    <3>1. CASE jobs'[j] = jobs[j] /\ j \notin on[s]
      <4>1. j \in letters' => j \in letters
        BY <2>3, <3>1 DEF Commit
      <4>2. QED
        BY <3>1, <4>1 DEF Machine!Lives, Machine!Stays, Machine!GivenUp, RetriesOf
    <3>2. CASE jobs[j] = NoJob /\ jobs'[j] = NewRow(pick[s]) /\ jobs'[j] # NoJob
               /\ op[s] = "dispatch"
      <4>1. letters' = letters
        BY <2>3, <3>2 DEF Commit
      <4>2. Machine!Created(j)
        BY <3>2 DEF NewRow, Machine!Created, RetriesOf
      <4>3. QED
        BY <4>1, <4>2 DEF Machine!Lives, Machine!GivenUp
    <3>3. CASE /\ j \in on[s] /\ op[s] # "dispatch" /\ seen[s][j] = jobs[j]
               /\ jobs[j] # NoJob /\ jobs'[j] # NoJob
               /\ RowMoved(j) \/ RowKept(j) \/ RowRequeued(j)
      <4>1. /\ jobs[j] \in Row /\ jobs'[j] \in Row
            /\ op[s] = "bury" => /\ ~(jobs'[j].retries < MaxRetries)
                                 /\ jobs'[j].status = "FAILED"
        BY <2>3, <3>3, CommitMoves
      <4>2. /\ jobs[j].retries \in Nat /\ jobs'[j].retries \in Nat
            /\ jobs[j].status \in Statuses
        BY <4>1 DEF Row
      <4>3. j \in letters' \ letters => op[s] = "bury"
        BY <2>3 DEF Commit
      <4>4. Machine!GivenUp(j)
        BY <3>3, <4>1, <4>2, <4>3, BoundAssumption DEF Machine!GivenUp, RetriesOf
      <4>5. CASE RowMoved(j)
        <5>1. Machine!Moved(j)
          BY <3>3, <4>5 DEF RowMoved, ValidTransitions, Machine!Moved,
                            Machine!Transitions, RetriesOf
        <5>2. QED
          BY <4>4, <5>1 DEF Machine!Lives
      <4>6. CASE RowKept(j)
        BY <3>3, <4>4, <4>6 DEF RowKept, Machine!Lives, Machine!Stays, RetriesOf
      <4>7. CASE RowRequeued(j)
        <5>1. CASE jobs[j].status \in {"DISPATCHED", "FAILED"}
          BY <3>3, <4>4, <4>7, <5>1 DEF RowRequeued, Machine!Lives, Machine!Requeued, RetriesOf
        <5>2. CASE jobs[j].status \in {"QUEUED", "RUNNING"} /\ jobs[j].retries < MaxRetries
          <6>1. jobs[j].retries + 1 <= MaxRetries
            BY <4>2, <5>2, BoundAssumption
          <6>2. Machine!Retried(j)
            BY <3>3, <4>7, <5>2, <6>1
            DEF RowRequeued, Machine!Retried, Machine!Unfinished, RetriesOf
          <6>3. QED
            BY <4>4, <6>2 DEF Machine!Lives
        <5>3. QED
          BY <4>2, <4>7, <5>1, <5>2 DEF RowRequeued, Statuses
      <4>8. QED
        BY <3>3, <4>5, <4>6, <4>7
    <3>4. QED
      BY <2>3, <3>1, <3>2, <3>3, RowChanges
  <2>4. QED
    BY <2>1, <2>2, <2>3, CommitsOnly
<1>2. QED
  BY <1>1, TypeCorrect, CallsInvHolds, PTL DEF Spec, LegalUnlessStale
=============================================================================
