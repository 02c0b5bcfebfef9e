-------------------------- MODULE RelayConnection ---------------------------
(***************************************************************************)
(* One edge node and the gateway: RelayClient.run with its WorkerExecutor  *)
(* (edgekit/relay/client.py, edgekit/workers/executor.py) on one side, the *)
(* WebSocket handlers, their heartbeat tasks and ConnectionManager         *)
(* (core/relay/server.py, manager.py) on the other.  ConnectionManager     *)
(* keeps one entry per node and nodes share nothing else, so one node      *)
(* stands for all.                                                         *)
(*                                                                         *)
(* A connection can be cut at any time; each side notices by itself, and   *)
(* the client may be back before the server has noticed.  An await is      *)
(* where steps of other tasks come in between.  The 90 second pong window  *)
(* is long against a message's way and handling, but not against jobs: the *)
(* client awaits them in the loop that answers pings, and the window may   *)
(* run out on a ping with more than JobsInWindow of them before it.        *)
(***************************************************************************)
EXTENDS Naturals, Sequences

CONSTANTS
  Conns,        \* connections; one can be used again when all is over with it
  Jobs,         \* jobs whoever calls send_to_node may assign
  JobsInWindow, \* as many jobs in a row end within the pong window
  MaxBacklog,   \* bound: messages under way when another job is assigned
  NoConn,
  NoJob

ASSUME NothingAssumption == NoConn \notin Conns /\ NoJob \notin Jobs
ASSUME WindowAssumption == JobsInWindow \in Nat
ASSUME BoundAssumption == MaxBacklog \in Nat \ {0}

VARIABLES
  link,       \* per connection: up, cut by the network, closed by the server
  handler,    \* per connection: relay_websocket: none, open, ending (in its finally)
  beat,       \* per connection: _heartbeat_loop: off, sleep, wait, expired
  pong,       \* per connection: the event last_pong
  late,       \* per connection: more jobs before its ping than JobsInWindow
  registry,   \* ConnectionManager's entry for the node
  down,       \* per connection: messages on their way to the node
  up,         \* per connection: messages on their way to the gateway
  ws,         \* the client's connection, NoConn while it backs off
  stage,      \* what the client is in: receiving, acked (a job), running (it)
  job         \* the job it acked or runs

client == <<ws, stage, job>>
vars == <<link, handler, beat, pong, late, registry, down, up, ws, stage, job>>

JobMsg(kind, j) == [kind |-> kind, job |-> j]
Ping == JobMsg("ping", NoJob)
Pong == JobMsg("pong", NoJob)
DownMsgs == {Ping} \cup {JobMsg("assign", j) : j \in Jobs}
UpMsgs == {Pong} \cup {JobMsg(k, j) : k \in {"ack", "running", "final"}, j \in Jobs}

TypeOK ==
  /\ link \in [Conns -> {"up", "cut", "closed"}]
  /\ handler \in [Conns -> {"none", "open", "ending"}]
  /\ beat \in [Conns -> {"off", "sleep", "wait", "expired"}]
  /\ pong \in [Conns -> BOOLEAN]
  /\ late \in [Conns -> BOOLEAN]
  /\ registry \in Conns \cup {NoConn}
  /\ down \in [Conns -> Seq(DownMsgs)]
  /\ up \in [Conns -> Seq(UpMsgs)]
  /\ ws \in Conns \cup {NoConn}
  /\ stage \in {"receiving", "acked", "running"}
  /\ job \in Jobs \cup {NoJob}
  /\ \A c \in Conns : beat[c] \in {"sleep", "wait"} => handler[c] = "open"
  /\ stage = "receiving" <=> job = NoJob
  /\ ws = NoConn => job = NoJob

-----------------------------------------------------------------------------
(* The network. *)

(* A frame sent on c: it goes on its way while the link is up. *)
Sent(c, chan, m) ==
  chan' = IF link[c] = "up" THEN [chan EXCEPT ![c] = Append(@, m)] ELSE chan

(* The link drops.  What was on its way to the node is of no use any more
   (answering it fails); of what was on its way to the gateway a first part
   may have arrived. *)
Cut(c) ==
  /\ link[c] = "up"
  /\ link' = [link EXCEPT ![c] = "cut"]
  /\ down' = [down EXCEPT ![c] = <<>>]
  /\ \E n \in 0..Len(up[c]) : up' = [up EXCEPT ![c] = SubSeq(@, 1, n)]
  /\ UNCHANGED <<handler, beat, pong, late, registry, client>>

-----------------------------------------------------------------------------
(* The gateway. *)

(* The client connects (or backs off again: no step); relay_websocket accepts
   and enters the connection into the manager, in place of any other. *)
Connect(c) ==
  /\ ws = NoConn
  /\ handler[c] = "none"
  /\ ws' = c
  /\ link' = [link EXCEPT ![c] = "up"]
  /\ handler' = [handler EXCEPT ![c] = "open"]
  /\ beat' = [beat EXCEPT ![c] = "sleep"]
  /\ pong' = [pong EXCEPT ![c] = FALSE]
  /\ late' = [late EXCEPT ![c] = FALSE]
  /\ registry' = c
  /\ down' = [down EXCEPT ![c] = <<>>]
  /\ up' = [up EXCEPT ![c] = <<>>]
  /\ UNCHANGED <<stage, job>>

(* send_to_node: the manager's connection gets the assignment. *)
Assign(j) ==
  /\ registry # NoConn
  /\ Len(down[registry]) + Len(up[registry]) < MaxBacklog
  /\ Sent(registry, down, JobMsg("assign", j))
  /\ UNCHANGED <<link, handler, beat, pong, late, registry, up, client>>

(* The jobs the node ends before it comes to a ping sent now on c. *)
Before(c) == Len(down[c]) + IF ws = c /\ stage # "receiving" THEN 1 ELSE 0

(* A variant: the loop pings again without waiting for the pong. *)
PingAnyway(c) ==
  /\ beat[c] \in {"sleep", "wait"} /\ link[c] = "up"
  /\ Sent(c, down, Ping)
  /\ beat' = [beat EXCEPT ![c] = "wait"]
  /\ pong' = [pong EXCEPT ![c] = FALSE]
  /\ late' = [late EXCEPT ![c] = Before(c) > JobsInWindow]
  /\ UNCHANGED <<link, handler, registry, up, client>>

(* 30 s have passed: ping and clear the event.  The small frame is taken to
   be written out without suspending the task in between. *)
SendPing(c) ==
  /\ beat[c] = "sleep" /\ link[c] = "up"
  /\ Sent(c, down, Ping)
  /\ beat' = [beat EXCEPT ![c] = "wait"]
  /\ pong' = [pong EXCEPT ![c] = FALSE]
  /\ late' = [late EXCEPT ![c] = Before(c) > JobsInWindow]
  /\ UNCHANGED <<link, handler, registry, up, client>>

(* The send fails on a dead connection: the loop returns. *)
PingFails(c) ==
  /\ beat[c] = "sleep" /\ link[c] # "up"
  /\ beat' = [beat EXCEPT ![c] = "off"]
  /\ UNCHANGED <<link, handler, pong, late, registry, down, up, client>>

(* last_pong.wait() returns; the loop sleeps again. *)
PongSeen(c) ==
  /\ beat[c] = "wait" /\ pong[c]
  /\ beat' = [beat EXCEPT ![c] = "sleep"]
  /\ late' = [late EXCEPT ![c] = FALSE]
  /\ UNCHANGED <<link, handler, pong, registry, down, up, client>>

Carries(s, m) == \E i \in 1..Len(s) : s[i] = m

(* Nothing on its way can still set the event in time: no pong is, and the
   node has nothing left to answer or too many jobs to end first. *)
NoAnswerComing(c) ==
  /\ ~Carries(up[c], Pong)
  /\ down[c] = <<>> \/ late[c]

(* 90 s without a pong: close with 4002. *)
PongTimeout(c) ==
  /\ beat[c] = "wait" /\ ~pong[c]
  /\ NoAnswerComing(c)
  /\ beat' = [beat EXCEPT ![c] = "expired"]
  /\ link' = [link EXCEPT ![c] = IF @ = "up" THEN "closed" ELSE @]
  /\ down' = [down EXCEPT ![c] = <<>>]
  /\ UNCHANGED <<handler, pong, late, registry, up, client>>

(* A variant: the pong is logged like any other message. *)
ReceiveAndLog(c) ==
  /\ handler[c] = "open" /\ up[c] # <<>>
  /\ up' = [up EXCEPT ![c] = Tail(@)]
  /\ UNCHANGED <<link, handler, beat, pong, late, registry, down, client>>

(* receive_json: a pong sets the event, anything else is only logged. *)
Receive(c) ==
  /\ handler[c] = "open" /\ up[c] # <<>>
  /\ up' = [up EXCEPT ![c] = Tail(@)]
  /\ pong' = [pong EXCEPT ![c] = @ \/ Head(up[c]) = Pong]
  /\ UNCHANGED <<link, handler, beat, late, registry, down, client>>

(* A variant: a dead connection is left for the heartbeat to find. *)
DisconnectedOnTimeout(c) ==
  /\ handler[c] = "open" /\ link[c] # "up" /\ up[c] = <<>>
  /\ beat[c] = "expired"
  /\ handler' = [handler EXCEPT ![c] = "ending"]
  /\ UNCHANGED <<link, beat, pong, late, registry, down, up, client>>

(* A variant: the heartbeat task is left running. *)
DisconnectedNotCancelled(c) ==
  /\ handler[c] = "open" /\ link[c] # "up" /\ up[c] = <<>>
  /\ handler' = [handler EXCEPT ![c] = "ending"]
  /\ UNCHANGED <<link, beat, pong, late, registry, down, up, client>>

(* WebSocketDisconnect: into the finally, which cancels the heartbeat task
   and awaits it. *)
Disconnected(c) ==
  /\ handler[c] = "open" /\ link[c] # "up" /\ up[c] = <<>>
  /\ handler' = [handler EXCEPT ![c] = "ending"]
  /\ beat' = [beat EXCEPT ![c] = IF @ = "expired" THEN @ ELSE "off"]
  /\ UNCHANGED <<link, pong, late, registry, down, up, client>>

(* A variant: the handler ends without telling the manager. *)
LeaveSilently(c) ==
  /\ handler[c] = "ending"
  /\ handler' = [handler EXCEPT ![c] = "none"]
  /\ UNCHANGED <<link, beat, pong, late, registry, down, up, client>>

(* relay_manager.disconnect(node_id), whichever connection is entered.  With
   the handler its heartbeat task and event are gone. *)
Leave(c) ==
  /\ handler[c] = "ending"
  /\ handler' = [handler EXCEPT ![c] = "none"]
  /\ registry' = NoConn
  /\ beat' = [beat EXCEPT ![c] = "off"]
  /\ pong' = [pong EXCEPT ![c] = FALSE]
  /\ late' = [late EXCEPT ![c] = FALSE]
  /\ UNCHANGED <<link, down, up, client>>

-----------------------------------------------------------------------------
(* The node. *)

Incoming == /\ ws # NoConn
            /\ stage = "receiving"
            /\ link[ws] = "up" /\ down[ws] # <<>>

(* heartbeat_ping: answered from the receive loop. *)
AnswerPing ==
  /\ Incoming /\ Head(down[ws]) = Ping
  /\ down' = [down EXCEPT ![ws] = Tail(@)]
  /\ Sent(ws, up, Pong)
  /\ UNCHANGED <<link, handler, beat, pong, late, registry, client>>

(* A variant: the callback becomes a task and the loop goes on receiving. *)
AckAndGoOn ==
  /\ ws # NoConn /\ link[ws] = "up" /\ down[ws] # <<>> /\ Head(down[ws]) # Ping
  /\ down' = [down EXCEPT ![ws] = Tail(@)]
  /\ Sent(ws, up, JobMsg("ack", Head(down[ws]).job))
  /\ stage' = "acked" /\ job' = Head(down[ws]).job
  /\ UNCHANGED <<link, handler, beat, pong, late, registry, ws>>

(* job_assign: acknowledged, then the callback is awaited in the loop. *)
AckJob ==
  /\ Incoming /\ Head(down[ws]) # Ping
  /\ down' = [down EXCEPT ![ws] = Tail(@)]
  /\ Sent(ws, up, JobMsg("ack", Head(down[ws]).job))
  /\ stage' = "acked" /\ job' = Head(down[ws]).job
  /\ UNCHANGED <<link, handler, beat, pong, late, registry, ws>>

(* handle_job: RUNNING is reported, the plugin started.  _send_status
   swallows the error of a dead connection. *)
StartJob ==
  /\ stage = "acked"
  /\ Sent(ws, up, JobMsg("running", job))
  /\ stage' = "running"
  /\ UNCHANGED <<link, handler, beat, pong, late, registry, down, ws, job>>

(* A variant: the outcome is sent again and again until it gets through. *)
FinishWhenSent ==
  /\ stage \in {"acked", "running"}
  /\ \/ link[ws] # "up" /\ UNCHANGED vars
     \/ /\ link[ws] = "up"
        /\ Sent(ws, up, JobMsg("final", job))
        /\ stage' = "receiving" /\ job' = NoJob
        /\ UNCHANGED <<link, handler, beat, pong, late, registry, down, ws>>

(* handle_job reports the outcome: of the plugin, its time limit or its
   exception; for an unknown job type without starting anything. *)
FinishJob ==
  /\ stage \in {"acked", "running"}
  /\ Sent(ws, up, JobMsg("final", job))
  /\ stage' = "receiving" /\ job' = NoJob
  /\ UNCHANGED <<link, handler, beat, pong, late, registry, down, ws>>

(* The receive loop ends with the connection; the client backs off. *)
Lost ==
  /\ ws # NoConn /\ stage = "receiving" /\ link[ws] # "up"
  /\ ws' = NoConn
  /\ UNCHANGED <<link, handler, beat, pong, late, registry, down, up, stage, job>>

Init ==
  /\ link = [c \in Conns |-> "cut"]
  /\ handler = [c \in Conns |-> "none"]
  /\ beat = [c \in Conns |-> "off"]
  /\ pong = [c \in Conns |-> FALSE]
  /\ late = [c \in Conns |-> FALSE]
  /\ registry = NoConn
  /\ down = [c \in Conns |-> <<>>]
  /\ up = [c \in Conns |-> <<>>]
  /\ ws = NoConn
  /\ stage = "receiving"
  /\ job = NoJob

Gateway(c) == \/ SendPing(c) \/ PingFails(c) \/ PongSeen(c)
              \/ PongTimeout(c) \/ Receive(c) \/ Disconnected(c) \/ Leave(c)

Node == AnswerPing \/ AckJob \/ StartJob \/ FinishJob \/ Lost

Next == \/ \E c \in Conns : Connect(c) \/ Cut(c) \/ Gateway(c)
        \/ \E j \in Jobs : Assign(j)
        \/ Node

Spec == Init /\ [][Next]_vars

(* asyncio runs every task that can go on: the handlers, the heartbeat tasks
   (whose timers end), and the client, whose jobs have a time limit and which
   keeps trying to connect.  Nothing is assumed of cuts or assignments. *)
FairSpec ==
  /\ Spec
  /\ \A c \in Conns : WF_vars(Receive(c)) /\ WF_vars(Disconnected(c)) /\ WF_vars(Leave(c))
  /\ \A c \in Conns : WF_vars(SendPing(c)) /\ WF_vars(PongSeen(c))
                      /\ WF_vars(PongTimeout(c)) /\ WF_vars(PingFails(c))
  /\ WF_vars(AnswerPing) /\ WF_vars(AckJob) /\ WF_vars(StartJob) /\ WF_vars(FinishJob)
  /\ WF_vars(Lost) /\ WF_vars(\E c \in Conns : Connect(c))
-----------------------------------------------------------------------------
(* Properties. *)

(* The manager never hands out a connection whose handler is gone. *)
RegisteredIsServed == registry # NoConn => handler[registry] # "none"

(* A connection carries one heartbeat at a time: a ping on its way, its pong
   on its way, or the event set. *)
OneAt(s, m) == \A i, k \in 1..Len(s) : s[i] = m /\ s[k] = m => i = k
OnePingOut == \A c \in Conns :
  /\ OneAt(down[c], Ping) /\ OneAt(up[c], Pong)
  /\ ~(Carries(down[c], Ping) /\ Carries(up[c], Pong))
  /\ Carries(down[c], Ping) \/ Carries(up[c], Pong) => beat[c] = "wait" /\ ~pong[c]

(* The server closes a connection for want of a pong only when the network
   had cut it, or when more jobs were before the ping than end within the
   window: never one whose node comes to answer in time. *)
OnlyDeadTimeOut == \A c \in Conns :
  beat[c] = "expired" /\ handler[c] # "none" =>
    link[c] = "cut" \/ late[c]

(* The node runs one job at a time and the gateway hears of it in order:
   acknowledged, perhaps running, its outcome, and only then of another;
   whatever pongs come in between. *)
Follows(m, n) ==
  \/ n.kind = "ack" /\ m.kind = "final"
  \/ n.kind = "running" /\ m = JobMsg("ack", n.job)
  \/ n.kind = "final" /\ m.kind \in {"ack", "running"} /\ m.job = n.job
PongsOnly(s, i, k) == \A n \in i..k : s[n] = Pong
InOrder(s) == \A i, k \in 1..Len(s) :
  i < k /\ s[i] # Pong /\ s[k] # Pong /\ PongsOnly(s, i + 1, k - 1) => Follows(s[i], s[k])
ReportsInOrder == \A c \in Conns : InOrder(up[c])

(* A dead connection's handler ends, heartbeat and all. *)
DeadHandlersEnd == \A c \in Conns : link[c] # "up" ~> handler[c] = "none"

(* A node whose connection is dead gets a live one, the job it is busy with
   notwithstanding. *)
BackOnline == (ws # NoConn /\ link[ws] # "up") ~> (ws # NoConn /\ link[ws] = "up")

(* A node that stays connected is one the manager finds. *)
Reachable == \A c \in Conns :
  (ws = c /\ link[c] = "up") ~> (registry = c \/ link[c] # "up")
=============================================================================
