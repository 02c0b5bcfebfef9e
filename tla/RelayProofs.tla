---------------------------- MODULE RelayProofs ----------------------------
(***************************************************************************)
(* Proofs about one node's connections to the gateway, for any number of   *)
(* them, of jobs and of messages under way.                                *)
(*                                                                         *)
(* The invariant follows the two channels: they are empty where nobody is  *)
(* left to read them, a heartbeat that waits has its ping or its pong on   *)
(* the way, and the last report sent is the one the node's stage calls     *)
(* for.  Of a channel only three facts matter, stated first: which         *)
(* messages it carries, how often, and in which order.                     *)
(***************************************************************************)
EXTENDS RelayConnection, Integers, TLAPS

-----------------------------------------------------------------------------
(* Channels: a message appended, the first taken, the end cut off. *)

(* What an appended message adds. *)
LEMMA AppendedMessage ==
    ASSUME NEW S, NEW s \in Seq(S), NEW x \in S, NEW m
    PROVE  /\ Carries(Append(s, x), m) <=> Carries(s, m) \/ x = m
           /\ OneAt(s, m) /\ (x = m => ~Carries(s, m)) => OneAt(Append(s, x), m)
<1> DEFINE t == Append(s, x)
<1>1. /\ Len(s) \in Nat /\ Len(t) = Len(s) + 1
      /\ t[Len(s) + 1] = x /\ \A k \in 1..Len(s) : t[k] = s[k]
  OBVIOUS
<1> HIDE DEF t
<1>2. Carries(t, m) <=> Carries(s, m) \/ x = m
  <2>1. ASSUME Carries(t, m) PROVE Carries(s, m) \/ x = m
    BY <1>1, <2>1 DEF Carries
  <2>2. ASSUME Carries(s, m) PROVE Carries(t, m)
    BY <1>1, <2>2 DEF Carries
  <2>3. ASSUME x = m PROVE Carries(t, m)
    <3>1. Len(s) + 1 \in 1..Len(t)
      BY <1>1
    <3> QED
      BY <1>1, <2>3, <3>1 DEF Carries
  <2> QED
    BY <2>1, <2>2, <2>3
<1>3. ASSUME OneAt(s, m), x = m => ~Carries(s, m) PROVE OneAt(t, m)
  <2> SUFFICES ASSUME NEW i \in 1..Len(t), NEW k \in 1..Len(t), t[i] = m, t[k] = m
               PROVE  i = k
    BY DEF OneAt
  <2>1. CASE x = m
    BY <1>1, <1>3, <2>1 DEF Carries
  <2>2. CASE x # m
    BY <1>1, <1>3, <2>2 DEF OneAt
  <2> QED
    BY <2>1, <2>2
<1> QED
  BY <1>2, <1>3 DEF t

(* What is left once the first message is taken. *)
LEMMA TakenMessage ==
    ASSUME NEW S, NEW s \in Seq(S), s # <<>>, NEW m
    PROVE  /\ Carries(s, m) <=> Head(s) = m \/ Carries(Tail(s), m)
           /\ OneAt(s, m) => OneAt(Tail(s), m)
           /\ OneAt(s, m) /\ Head(s) = m => ~Carries(Tail(s), m)
<1> DEFINE t == Tail(s)
<1>1. /\ Len(s) \in Nat /\ Len(s) # 0 /\ Len(t) = Len(s) - 1
      /\ Head(s) = s[1] /\ \A k \in 1..Len(t) : t[k] = s[k + 1]
  OBVIOUS
<1> HIDE DEF t
<1>2. ASSUME Carries(s, m), Head(s) # m PROVE Carries(t, m)
  <2>1. PICK i \in 1..Len(s) : s[i] = m
    BY <1>2 DEF Carries
  <2>2. i - 1 \in 1..Len(t) /\ (i - 1) + 1 = i
    BY <1>1, <1>2, <2>1
  <2>3. t[i - 1] = m
    BY <1>1, <2>1, <2>2
  <2> QED
    BY <2>2, <2>3 DEF Carries
<1>3. ASSUME Carries(t, m) PROVE Carries(s, m)
  <2>1. PICK i \in 1..Len(t) : t[i] = m
    BY <1>3 DEF Carries
  <2>2. i + 1 \in 1..Len(s)
    BY <1>1
  <2> QED
    BY <1>1, <2>1, <2>2 DEF Carries
<1>4. ASSUME Head(s) = m PROVE Carries(s, m)
  BY <1>1, <1>4 DEF Carries
<1>5. ASSUME OneAt(s, m) PROVE OneAt(t, m)
  <2> SUFFICES ASSUME NEW i \in 1..Len(t), NEW k \in 1..Len(t), t[i] = m, t[k] = m
               PROVE  i = k
    BY DEF OneAt
  <2>1. i + 1 \in 1..Len(s) /\ k + 1 \in 1..Len(s)
    BY <1>1
  <2>2. s[i + 1] = m /\ s[k + 1] = m
    BY <1>1
  <2> QED
    BY <1>5, <2>1, <2>2 DEF OneAt
<1>6. ASSUME OneAt(s, m), Head(s) = m PROVE ~Carries(t, m)
  <2> SUFFICES ASSUME NEW i \in 1..Len(t), t[i] = m PROVE FALSE
    BY DEF Carries
  <2>1. i + 1 \in 1..Len(s) /\ 1 \in 1..Len(s)
    BY <1>1
  <2>2. s[i + 1] = m /\ s[1] = m
    BY <1>1, <1>6
  <2>3. i + 1 = 1
    BY <1>6, <2>1, <2>2 DEF OneAt
  <2> QED
    BY <2>3
<1> QED
  BY <1>2, <1>3, <1>4, <1>5, <1>6 DEF t

(* What a cut leaves: no message that was not there. *)
LEMMA CutOff ==
    ASSUME NEW S, NEW s \in Seq(S), NEW n \in 0..Len(s), NEW m
    PROVE  /\ Carries(SubSeq(s, 1, n), m) => Carries(s, m)
           /\ OneAt(s, m) => OneAt(SubSeq(s, 1, n), m)
           /\ InOrder(s) => InOrder(SubSeq(s, 1, n))
<1> DEFINE t == SubSeq(s, 1, n)
<1>1. /\ Len(s) \in Nat /\ Len(t) = n /\ \A k \in 1..Len(t) : t[k] = s[k]
  OBVIOUS
<1> HIDE DEF t
<1>2. Carries(t, m) => Carries(s, m)
  BY <1>1 DEF Carries
<1>3. OneAt(s, m) => OneAt(t, m)
  BY <1>1 DEF OneAt
<1>4. InOrder(s) => InOrder(t)
  <2> SUFFICES ASSUME InOrder(s), NEW i \in 1..Len(t), NEW k \in 1..Len(t),
                      i < k, t[i] # Pong, t[k] # Pong, PongsOnly(t, i + 1, k - 1)
               PROVE  Follows(t[i], t[k])
    BY DEF InOrder
  <2>1. i \in 1..Len(s) /\ k \in 1..Len(s) /\ t[i] = s[i] /\ t[k] = s[k]
    BY <1>1
  <2>2. PongsOnly(s, i + 1, k - 1)
    BY <1>1 DEF PongsOnly
  <2> QED
    BY <2>1, <2>2 DEF InOrder
<1> QED
  BY <1>2, <1>3, <1>4 DEF t

(* The last report of a channel, if it has one. *)
LastReport(s, k) == s[k] # Pong /\ PongsOnly(s, k + 1, Len(s))

(* Taking the first message changes neither the order nor the last report. *)
LEMMA TakenInOrder ==
    ASSUME NEW S, NEW s \in Seq(S), s # <<>>
    PROVE  /\ InOrder(s) => InOrder(Tail(s))
           /\ \A k \in 1..Len(Tail(s)) : LastReport(Tail(s), k) =>
                k + 1 \in 1..Len(s) /\ LastReport(s, k + 1) /\ s[k + 1] = Tail(s)[k]
<1> DEFINE t == Tail(s)
<1>1. /\ Len(s) \in Nat /\ Len(s) # 0 /\ Len(t) = Len(s) - 1
      /\ \A k \in 1..Len(t) : t[k] = s[k + 1]
  OBVIOUS
<1> HIDE DEF t
<1>2. ASSUME NEW i \in Nat, NEW k \in Nat, k <= Len(t), i >= 1, PongsOnly(t, i, k)
      PROVE  PongsOnly(s, i + 1, k + 1)
  <2> SUFFICES ASSUME NEW n \in (i + 1)..(k + 1) PROVE s[n] = Pong
    BY DEF PongsOnly
  <2>1. n - 1 \in i..k /\ n - 1 \in 1..Len(t)
    BY <1>1, <1>2
  <2>2. t[n - 1] = s[(n - 1) + 1]
    BY <1>1, <2>1
  <2>3. (n - 1) + 1 = n
    OBVIOUS
  <2> QED
    BY <1>2, <2>1, <2>2, <2>3 DEF PongsOnly
<1>3. InOrder(s) => InOrder(t)
  <2> SUFFICES ASSUME InOrder(s), NEW i \in 1..Len(t), NEW k \in 1..Len(t),
                      i < k, t[i] # Pong, t[k] # Pong, PongsOnly(t, i + 1, k - 1)
               PROVE  Follows(t[i], t[k])
    BY DEF InOrder
  <2>1. /\ i + 1 \in 1..Len(s) /\ k + 1 \in 1..Len(s) /\ i + 1 < k + 1
        /\ t[i] = s[i + 1] /\ t[k] = s[k + 1]
    BY <1>1
  <2>2. i + 1 \in Nat /\ k - 1 \in Nat /\ k - 1 <= Len(t) /\ i + 1 >= 1
    BY <1>1
  <2>3. PongsOnly(s, (i + 1) + 1, (k - 1) + 1)
    BY <1>2, <2>2
  <2>4. (k - 1) + 1 = (k + 1) - 1
    OBVIOUS
  <2>5. PongsOnly(s, (i + 1) + 1, (k + 1) - 1)
    BY <2>3, <2>4
  <2> QED
    BY <2>1, <2>5 DEF InOrder
<1>4. ASSUME NEW k \in 1..Len(t), LastReport(t, k)
      PROVE  k + 1 \in 1..Len(s) /\ LastReport(s, k + 1) /\ s[k + 1] = t[k]
  <2>1. k + 1 \in 1..Len(s) /\ s[k + 1] = t[k]
    BY <1>1
  <2>2. PongsOnly(s, (k + 1) + 1, Len(t) + 1)
    <3>1. PongsOnly(t, k + 1, Len(t))
      BY <1>4 DEF LastReport
    <3>2. k + 1 \in Nat /\ Len(t) \in Nat /\ k + 1 >= 1 /\ Len(t) <= Len(t)
      BY <1>1
    <3> QED
      BY <1>2, <3>1, <3>2
  <2>3. Len(t) + 1 = Len(s)
    BY <1>1
  <2> QED
    BY <1>4, <2>1, <2>2, <2>3 DEF LastReport
<1> QED
  BY <1>3, <1>4 DEF t

(* A pong comes after any report; a report after the one it follows. *)
LEMMA AppendedInOrder ==
    ASSUME NEW S, NEW s \in Seq(S), NEW x \in S, InOrder(s),
           x # Pong => \A k \in 1..Len(s) : LastReport(s, k) => Follows(s[k], x)
    PROVE  /\ InOrder(Append(s, x))
           /\ \A k \in 1..Len(Append(s, x)) : LastReport(Append(s, x), k) =>
                IF x = Pong THEN /\ k \in 1..Len(s) /\ LastReport(s, k)
                                 /\ Append(s, x)[k] = s[k]
                            ELSE Append(s, x)[k] = x
<1> DEFINE t == Append(s, x)
<1>1. /\ Len(s) \in Nat /\ Len(t) = Len(s) + 1
      /\ t[Len(s) + 1] = x /\ \A k \in 1..Len(s) : t[k] = s[k]
  OBVIOUS
<1> HIDE DEF t
<1>2. InOrder(t)
  <2> SUFFICES ASSUME NEW i \in 1..Len(t), NEW k \in 1..Len(t),
                      i < k, t[i] # Pong, t[k] # Pong, PongsOnly(t, i + 1, k - 1)
               PROVE  Follows(t[i], t[k])
    BY DEF InOrder
  <2>1. i \in 1..Len(s) /\ t[i] = s[i]
    BY <1>1
  <2>2. PongsOnly(s, i + 1, k - 1)
    BY <1>1 DEF PongsOnly
  <2>3. CASE k = Len(s) + 1
    <3>1. t[k] = x /\ k - 1 = Len(s)
      BY <1>1, <2>3
    <3>2. LastReport(s, i)
      BY <2>1, <2>2, <3>1 DEF LastReport
    <3> QED
      BY <2>1, <3>1, <3>2
  <2>4. CASE k # Len(s) + 1
    <3>1. k \in 1..Len(s) /\ t[k] = s[k]
      BY <1>1, <2>4
    <3> QED
      BY <2>1, <2>2, <3>1 DEF InOrder
  <2> QED
    BY <2>3, <2>4
<1>3. ASSUME NEW k \in 1..Len(t), LastReport(t, k)
      PROVE  IF x = Pong THEN k \in 1..Len(s) /\ LastReport(s, k) /\ t[k] = s[k]
                         ELSE t[k] = x
  <2>1. t[k] # Pong /\ PongsOnly(t, k + 1, Len(t))
    BY <1>3 DEF LastReport
  <2>2. CASE x = Pong
    <3>1. k \in 1..Len(s) /\ t[k] = s[k]
      BY <1>1, <2>1, <2>2
    <3>2. PongsOnly(s, k + 1, Len(s))
      BY <1>1, <2>1 DEF PongsOnly
    <3> QED
      BY <2>1, <2>2, <3>1, <3>2 DEF LastReport
  <2>3. CASE x # Pong
    <3>1. k # Len(s) + 1 => Len(s) + 1 \in (k + 1)..Len(t)
      BY <1>1
    <3>2. k = Len(s) + 1
      BY <1>1, <2>1, <2>3, <3>1 DEF PongsOnly
    <3> QED
      BY <1>1, <2>3, <3>2
  <2> QED
    BY <2>2, <2>3
<1> QED
  BY <1>2, <1>3 DEF t
-----------------------------------------------------------------------------
(* The invariant. *)

(* Nothing is left for a node whose link is down; a handler that is ending
   or gone has no link and nothing left to read. *)
Quiet(c) ==
  /\ link[c] # "up" => down[c] = <<>>
  /\ handler[c] # "open" => link[c] # "up" /\ up[c] = <<>>

(* OnePingOut, of one connection. *)
OneBeat(c) ==
  /\ OneAt(down[c], Ping) /\ OneAt(up[c], Pong)
  /\ ~(Carries(down[c], Ping) /\ Carries(up[c], Pong))
  /\ Carries(down[c], Ping) \/ Carries(up[c], Pong) => beat[c] = "wait" /\ ~pong[c]

(* On a live link the answer a heartbeat waits for is under way. *)
Answered(c) ==
  beat[c] = "wait" /\ ~pong[c] /\ link[c] = "up"
    => Carries(down[c], Ping) \/ Carries(up[c], Pong)

(* The heartbeat that ran out of time closed its link, and had waited for a
   cut one or too long a queue. *)
OnlyCut(c) == handler[c] # "none" =>
  /\ link[c] = "closed" => beat[c] = "expired"
  /\ beat[c] = "expired" => link[c] = "cut" \/ late[c]

(* The last report sent on the node's connection is the one its stage says. *)
FitsStage(m) ==
  /\ stage = "receiving" => m.kind = "final"
  /\ stage = "acked" => m = JobMsg("ack", job)
  /\ stage = "running" => m = JobMsg("running", job)
Trail == ws # NoConn => (link[ws] = "up" =>
           \A k \in 1..Len(up[ws]) : LastReport(up[ws], k) => FitsStage(up[ws][k]))

ConnInv(c) == Quiet(c) /\ OneBeat(c) /\ Answered(c) /\ OnlyCut(c)
HeartbeatInv == \A c \in Conns : ConnInv(c)
RelayInv == TypeOK /\ RegisteredIsServed /\ HeartbeatInv /\ ReportsInOrder /\ Trail

-----------------------------------------------------------------------------
(* Types. *)

(* Which messages there are and that they differ. *)
LEMMA Messages ==
    /\ Ping \in DownMsgs /\ Pong \in UpMsgs
    /\ \A j \in Jobs : /\ JobMsg("assign", j) \in DownMsgs \ {Ping}
                       /\ \A k \in {"ack", "running", "final"} :
                            JobMsg(k, j) \in UpMsgs \ {Pong}
    /\ \A m \in DownMsgs : m # Ping => m.job \in Jobs
    /\ \A k, j : JobMsg(k, j).kind = k /\ JobMsg(k, j).job = j
<1>1. \A k, j : JobMsg(k, j).kind = k /\ JobMsg(k, j).job = j
  BY DEF JobMsg
<1>2. Ping \in DownMsgs /\ Pong \in UpMsgs
  BY DEF DownMsgs, UpMsgs
<1>3. ASSUME NEW j \in Jobs
      PROVE  /\ JobMsg("assign", j) \in DownMsgs \ {Ping}
             /\ \A k \in {"ack", "running", "final"} : JobMsg(k, j) \in UpMsgs \ {Pong}
  <2>1. JobMsg("assign", j) \in DownMsgs
    BY DEF DownMsgs
  <2>2. \A k \in {"ack", "running", "final"} : JobMsg(k, j) \in UpMsgs
    BY DEF UpMsgs
  <2>3. Ping.job = NoJob /\ Pong.job = NoJob
    BY <1>1 DEF Ping, Pong
  <2>4. \A k : JobMsg(k, j) # Ping /\ JobMsg(k, j) # Pong
    BY <1>1, <2>3, NothingAssumption
  <2> QED
    BY <2>1, <2>2, <2>4
<1>4. \A m \in DownMsgs : m # Ping => m.job \in Jobs
  BY <1>1 DEF DownMsgs
<1> QED
  BY <1>1, <1>2, <1>3, <1>4

(* A channel that a message is put on, or its first taken from. *)
LEMMA ChannelTypes ==
    ASSUME NEW S, NEW chan \in [Conns -> Seq(S)], NEW c \in Conns
    PROVE  /\ \A m \in S : [chan EXCEPT ![c] = Append(@, m)] \in [Conns -> Seq(S)]
           /\ chan[c] # <<>> => /\ Head(chan[c]) \in S
                                /\ [chan EXCEPT ![c] = Tail(@)] \in [Conns -> Seq(S)]
           /\ [chan EXCEPT ![c] = <<>>] \in [Conns -> Seq(S)]
           /\ \A n \in 0..Len(chan[c]) :
                [chan EXCEPT ![c] = SubSeq(@, 1, n)] \in [Conns -> Seq(S)]
<1>1. chan[c] \in Seq(S)
  OBVIOUS
<1>2. \A m \in S : Append(chan[c], m) \in Seq(S)
  BY <1>1
<1>3. chan[c] # <<>> => Head(chan[c]) \in S /\ Tail(chan[c]) \in Seq(S)
  BY <1>1
<1>4. <<>> \in Seq(S)
  OBVIOUS
<1>5. ASSUME NEW n \in 0..Len(chan[c]) PROVE SubSeq(chan[c], 1, n) \in Seq(S)
  <2>1. \A k \in 1..n : chan[c][k] \in S
    BY <1>1
  <2> QED
    BY <1>1, <2>1
<1> QED
  BY <1>2, <1>3, <1>4, <1>5

LEMMA TypeInit == Init => TypeOK
<1> SUFFICES ASSUME Init PROVE TypeOK
  OBVIOUS
<1>1. down \in [Conns -> Seq(DownMsgs)] /\ up \in [Conns -> Seq(UpMsgs)]
  BY DEF Init
<1> QED
  BY <1>1, NothingAssumption DEF Init, TypeOK

LEMMA TypeStep == TypeOK /\ [Next]_vars => TypeOK'
<1> SUFFICES ASSUME TypeOK, [Next]_vars PROVE TypeOK'
  OBVIOUS
<1> USE DEF TypeOK
<1>1. ASSUME NEW c \in Conns, Connect(c) PROVE TypeOK'
  BY <1>1, ChannelTypes DEF Connect
<1>2. ASSUME NEW c \in Conns, Cut(c) PROVE TypeOK'
  <2>1. PICK n \in 0..Len(up[c]) : up' = [up EXCEPT ![c] = SubSeq(@, 1, n)]
    BY <1>2 DEF Cut
  <2>2. up' \in [Conns -> Seq(UpMsgs)]
    BY <2>1, ChannelTypes
  <2>3. down' \in [Conns -> Seq(DownMsgs)]
    BY <1>2, ChannelTypes DEF Cut
  <2> QED
    BY <1>2, <2>2, <2>3 DEF Cut, client
<1>3. ASSUME NEW c \in Conns, SendPing(c) PROVE TypeOK'
  <2>1. down' \in [Conns -> Seq(DownMsgs)]
    BY <1>3, ChannelTypes, Messages DEF SendPing, Sent
  <2>2. late' \in [Conns -> BOOLEAN]
    <3>1. (Before(c) > JobsInWindow) \in BOOLEAN
      OBVIOUS
    <3> QED
      BY <1>3, <3>1 DEF SendPing
  <2> QED
    BY <1>3, <2>1, <2>2 DEF SendPing, client
<1>4. ASSUME NEW c \in Conns, PingFails(c) PROVE TypeOK'
  BY <1>4 DEF PingFails, client
<1>5. ASSUME NEW c \in Conns, PongSeen(c) PROVE TypeOK'
  BY <1>5 DEF PongSeen, client
<1>6. ASSUME NEW c \in Conns, PongTimeout(c) PROVE TypeOK'
  <2>1. down' \in [Conns -> Seq(DownMsgs)]
    BY <1>6, ChannelTypes DEF PongTimeout
  <2> QED
    BY <1>6, <2>1 DEF PongTimeout, client
<1>7. ASSUME NEW c \in Conns, Receive(c) PROVE TypeOK'
  <2>1. up' \in [Conns -> Seq(UpMsgs)]
    BY <1>7, ChannelTypes DEF Receive
  <2>2. pong' \in [Conns -> BOOLEAN]
    BY <1>7 DEF Receive
  <2> QED
    BY <1>7, <2>1, <2>2 DEF Receive, client
<1>8. ASSUME NEW c \in Conns, Disconnected(c) PROVE TypeOK'
  BY <1>8 DEF Disconnected, client
<1>9. ASSUME NEW c \in Conns, Leave(c) PROVE TypeOK'
  BY <1>9 DEF Leave, client
<1>10. ASSUME NEW j \in Jobs, Assign(j) PROVE TypeOK'
  <2>1. registry \in Conns /\ JobMsg("assign", j) \in DownMsgs
    BY <1>10, Messages DEF Assign
  <2>2. down' \in [Conns -> Seq(DownMsgs)]
    BY <1>10, <2>1, ChannelTypes DEF Assign, Sent
  <2> QED
    BY <1>10, <2>2 DEF Assign, client
<1>11. ASSUME AnswerPing PROVE TypeOK'
  <2>1. ws \in Conns /\ down[ws] # <<>>
    BY <1>11 DEF AnswerPing, Incoming
  <2>2. down' \in [Conns -> Seq(DownMsgs)]
    BY <1>11, <2>1, ChannelTypes DEF AnswerPing
  <2>3. up' \in [Conns -> Seq(UpMsgs)]
    BY <1>11, <2>1, ChannelTypes, Messages DEF AnswerPing, Sent
  <2> QED
    BY <1>11, <2>2, <2>3 DEF AnswerPing, client
<1>12. ASSUME AckJob PROVE TypeOK'
  <2>1. ws \in Conns /\ down[ws] # <<>> /\ Head(down[ws]) # Ping
    BY <1>12 DEF AckJob, Incoming
  <2>2. Head(down[ws]).job \in Jobs
    BY <2>1, ChannelTypes, Messages
  <2>3. down' \in [Conns -> Seq(DownMsgs)]
    BY <1>12, <2>1, ChannelTypes DEF AckJob
  <2>4. up' \in [Conns -> Seq(UpMsgs)]
    BY <1>12, <2>1, <2>2, ChannelTypes, Messages DEF AckJob, Sent
  <2> QED
    BY <1>12, <2>1, <2>2, <2>3, <2>4, NothingAssumption DEF AckJob
<1>13. ASSUME StartJob PROVE TypeOK'
  <2>1. job \in Jobs /\ ws \in Conns
    BY <1>13 DEF StartJob
  <2>2. up' \in [Conns -> Seq(UpMsgs)]
    BY <1>13, <2>1, ChannelTypes, Messages DEF StartJob, Sent
  <2> QED
    BY <1>13, <2>1, <2>2, NothingAssumption DEF StartJob
<1>14. ASSUME FinishJob PROVE TypeOK'
  <2>1. job \in Jobs /\ ws \in Conns
    BY <1>14 DEF FinishJob
  <2>2. up' \in [Conns -> Seq(UpMsgs)]
    BY <1>14, <2>1, ChannelTypes, Messages DEF FinishJob, Sent
  <2> QED
    BY <1>14, <2>1, <2>2 DEF FinishJob
<1>15. ASSUME Lost PROVE TypeOK'
  BY <1>15 DEF Lost
<1>16. ASSUME UNCHANGED vars PROVE TypeOK'
  BY <1>16 DEF vars, client
<1> QED
  BY <1>1, <1>2, <1>3, <1>4, <1>5, <1>6, <1>7, <1>8, <1>9, <1>10, <1>11, <1>12,
     <1>13, <1>14, <1>15, <1>16 DEF Next, Gateway, Node

(* The manager's entry is put in by a handler and taken out by whichever     *)
(* ends first, so an entry there is has its handler.                         *)
LEMMA RegisteredStep ==
    TypeOK /\ RegisteredIsServed /\ [Next]_vars => RegisteredIsServed'
<1> SUFFICES ASSUME TypeOK, RegisteredIsServed, [Next]_vars PROVE RegisteredIsServed'
  OBVIOUS
<1> USE DEF RegisteredIsServed
<1>1. ASSUME NEW c \in Conns, Connect(c) PROVE RegisteredIsServed'
  BY <1>1 DEF Connect, TypeOK
<1>2. ASSUME NEW c \in Conns, Disconnected(c) PROVE RegisteredIsServed'
  BY <1>2 DEF Disconnected, TypeOK
<1>3. ASSUME NEW c \in Conns, Leave(c) PROVE RegisteredIsServed'
  BY <1>3 DEF Leave
<1>4. ASSUME NEW c \in Conns,
             Cut(c) \/ SendPing(c) \/ PingFails(c) \/ PongSeen(c) \/ PongTimeout(c) \/ Receive(c)
      PROVE  RegisteredIsServed'
  BY <1>4 DEF Cut, SendPing, PingFails, PongSeen, PongTimeout, Receive
<1>5. ASSUME NEW j \in Jobs, Assign(j) PROVE RegisteredIsServed'
  BY <1>5 DEF Assign
<1>6. ASSUME Node PROVE RegisteredIsServed'
  BY <1>6 DEF Node, AnswerPing, AckJob, StartJob, FinishJob, Lost
<1>7. ASSUME UNCHANGED vars PROVE RegisteredIsServed'
  BY <1>7 DEF vars
<1> QED
  BY <1>1, <1>2, <1>3, <1>4, <1>5, <1>6, <1>7 DEF Next, Gateway

-----------------------------------------------------------------------------
(* The heartbeat. *)

(* An empty channel carries nothing. *)
LEMMA EmptyChannel == \A m : ~Carries(<<>>, m) /\ OneAt(<<>>, m)
BY DEF Carries, OneAt

(* A step of other connections. *)
Steady(c) ==
  /\ link'[c] = link[c] /\ handler'[c] = handler[c]
  /\ beat'[c] = beat[c] /\ pong'[c] = pong[c] /\ late'[c] = late[c]
  /\ down'[c] = down[c] /\ up'[c] = up[c]

LEMMA SteadyConn == ASSUME NEW c \in Conns, ConnInv(c), Steady(c) PROVE ConnInv(c)'
BY DEF Steady, ConnInv, Quiet, OneBeat, Answered, OnlyCut

LEMMA HeartbeatInit == Init => HeartbeatInv
<1> SUFFICES ASSUME Init, NEW c \in Conns PROVE ConnInv(c)
  BY DEF HeartbeatInv
<1>1. /\ link[c] = "cut" /\ handler[c] = "none" /\ beat[c] = "off"
      /\ down[c] = <<>> /\ up[c] = <<>>
  BY DEF Init
<1> QED
  BY <1>1, EmptyChannel DEF ConnInv, Quiet, OneBeat, Answered, OnlyCut

(* What the network and the gateway do with a connection. *)
LEMMA GatewayConnStep ==
    ASSUME TypeOK, NEW c \in Conns, ConnInv(c), Connect(c) \/ Cut(c) \/ Gateway(c)
    PROVE  ConnInv(c)'
<1> USE DEF ConnInv, Quiet, OneBeat, Answered, OnlyCut
<1>1. /\ down[c] \in Seq(DownMsgs) /\ up[c] \in Seq(UpMsgs)
      /\ link \in [Conns -> {"up", "cut", "closed"}]
      /\ pong \in [Conns -> BOOLEAN] /\ late \in [Conns -> BOOLEAN]
      /\ handler \in [Conns -> {"none", "open", "ending"}]
      /\ beat \in [Conns -> {"off", "sleep", "wait", "expired"}]
      /\ down \in [Conns -> Seq(DownMsgs)] /\ up \in [Conns -> Seq(UpMsgs)]
      /\ beat[c] \in {"sleep", "wait"} => handler[c] = "open"
  BY DEF TypeOK
<1>2. CASE Connect(c)
  BY <1>1, <1>2, EmptyChannel DEF Connect
<1>3. CASE Cut(c)
  <2>1. PICK n \in 0..Len(up[c]) : up' = [up EXCEPT ![c] = SubSeq(@, 1, n)]
    BY <1>3 DEF Cut
  <2>2. up'[c] = SubSeq(up[c], 1, n)
    BY <1>1, <2>1
  <2>3. OneAt(up'[c], Pong) /\ (Carries(up'[c], Pong) => Carries(up[c], Pong))
    BY <1>1, <2>2, CutOff
  <2>4. up[c] = <<>> => up'[c] = <<>>
    BY <2>2
  <2>5. /\ down'[c] = <<>> /\ link'[c] = "cut" /\ handler' = handler
        /\ beat' = beat /\ pong' = pong /\ late' = late
    BY <1>1, <1>3 DEF Cut
  <2>6. ~Carries(down'[c], Ping) /\ OneAt(down'[c], Ping)
    BY <2>5, EmptyChannel
  <2> QED
    BY <2>3, <2>4, <2>5, <2>6
<1>4. CASE SendPing(c)
  <2>1. /\ beat[c] = "sleep" /\ link[c] = "up" /\ down'[c] = Append(down[c], Ping)
        /\ beat'[c] = "wait" /\ pong'[c] = FALSE
        /\ link' = link /\ handler' = handler /\ up' = up
    BY <1>1, <1>4 DEF SendPing, Sent
  <2>2. ~Carries(down[c], Ping) /\ ~Carries(up[c], Pong)
    BY <2>1
  <2>3. Carries(down'[c], Ping) /\ OneAt(down'[c], Ping)
    BY <1>1, <2>1, <2>2, AppendedMessage, Messages
  <2> QED
    BY <2>1, <2>2, <2>3, <1>1
<1>5. CASE PingFails(c)
  BY <1>1, <1>5 DEF PingFails
<1>6. CASE PongSeen(c)
  BY <1>1, <1>6 DEF PongSeen
<1>7. CASE PongTimeout(c)
  <2>1. /\ beat[c] = "wait" /\ ~pong[c] /\ handler[c] = "open"
        /\ ~Carries(up[c], Pong)
        /\ down[c] = <<>> \/ late[c]
        /\ beat'[c] = "expired" /\ down'[c] = <<>>
        /\ link'[c] = IF link[c] = "up" THEN "closed" ELSE link[c]
        /\ handler' = handler /\ pong' = pong /\ late' = late /\ up' = up
    BY <1>1, <1>7 DEF PongTimeout, NoAnswerComing
  <2>2. link[c] = "cut" \/ late[c]
    BY <1>1, <2>1, EmptyChannel
  <2>3. link'[c] # "up" /\ (link[c] = "cut" => link'[c] = "cut")
    BY <2>1
  <2> QED
    BY <1>1, <2>1, <2>2, <2>3, EmptyChannel
<1>8. CASE Receive(c)
  <2>1. /\ handler[c] = "open" /\ up[c] # <<>> /\ up'[c] = Tail(up[c])
        /\ pong'[c] = (pong[c] \/ Head(up[c]) = Pong)
        /\ link' = link /\ handler' = handler /\ beat' = beat
        /\ late' = late /\ down' = down
    BY <1>1, <1>8 DEF Receive
  <2>2. /\ Carries(up[c], Pong) <=> Head(up[c]) = Pong \/ Carries(up'[c], Pong)
        /\ OneAt(up'[c], Pong)
        /\ Head(up[c]) = Pong => ~Carries(up'[c], Pong)
    <3>1. up[c] \in Seq(UpMsgs) /\ up[c] # <<>> /\ OneAt(up[c], Pong)
      BY <1>1, <2>1
    <3> HIDE DEF ConnInv, Quiet, OneBeat, Answered, OnlyCut
    <3>2. /\ Carries(up[c], Pong) <=> Head(up[c]) = Pong \/ Carries(Tail(up[c]), Pong)
          /\ OneAt(Tail(up[c]), Pong)
          /\ Head(up[c]) = Pong => ~Carries(Tail(up[c]), Pong)
      BY <3>1, TakenMessage
    <3> QED
      BY <2>1, <3>2
  <2>3. Quiet(c)' /\ OnlyCut(c)'
    BY <2>1
  <2>4. OneBeat(c)'
    BY <2>1, <2>2
  <2>5. Answered(c)'
    BY <2>1, <2>2
  <2> QED
    BY <2>3, <2>4, <2>5 DEF ConnInv
<1>9. CASE Disconnected(c)
  <2>1. /\ link[c] # "up" /\ up[c] = <<>> /\ handler[c] = "open" /\ handler'[c] = "ending"
        /\ beat'[c] = IF beat[c] = "expired" THEN "expired" ELSE "off"
        /\ link' = link /\ pong' = pong /\ late' = late /\ down' = down /\ up' = up
    BY <1>1, <1>9 DEF Disconnected
  <2> QED
    BY <2>1, EmptyChannel
<1>10. CASE Leave(c)
  <2>1. /\ handler[c] = "ending" /\ handler'[c] = "none"
        /\ beat'[c] = "off" /\ pong'[c] = FALSE
        /\ link' = link /\ down' = down /\ up' = up
    BY <1>1, <1>10 DEF Leave
  <2>2. link[c] # "up" /\ down[c] = <<>> /\ up[c] = <<>>
    BY <2>1
  <2> QED
    BY <2>1, <2>2, EmptyChannel
<1> QED
  BY <1>2, <1>3, <1>4, <1>5, <1>6, <1>7, <1>8, <1>9, <1>10 DEF Gateway

(* A report put on the way up: no heartbeat. *)
LEMMA ReportConnStep ==
    ASSUME TypeOK, NEW c \in Conns, ConnInv(c), NEW m \in UpMsgs \ {Pong},
           up'[c] = (IF link[c] = "up" THEN Append(up[c], m) ELSE up[c]),
           link' = link, handler' = handler, beat' = beat, pong' = pong, late' = late,
           \/ down'[c] = down[c]
           \/ down[c] # <<>> /\ Head(down[c]) # Ping /\ down'[c] = Tail(down[c])
    PROVE  ConnInv(c)'
<1>1. down[c] \in Seq(DownMsgs) /\ up[c] \in Seq(UpMsgs)
  BY DEF TypeOK
<1>2. (Carries(up'[c], Pong) <=> Carries(up[c], Pong)) /\ OneAt(up'[c], Pong)
  <2>1. OneAt(up[c], Pong)
    BY DEF ConnInv, OneBeat
  <2>2. (Carries(Append(up[c], m), Pong) <=> Carries(up[c], Pong))
        /\ OneAt(Append(up[c], m), Pong)
    BY <1>1, <2>1, AppendedMessage
  <2> QED
    BY <2>1, <2>2
<1>3. (Carries(down'[c], Ping) <=> Carries(down[c], Ping)) /\ OneAt(down'[c], Ping)
  <2>1. OneAt(down[c], Ping)
    BY DEF ConnInv, OneBeat
  <2> QED
    BY <1>1, <2>1, TakenMessage
<1>4. link[c] # "up" => down'[c] = <<>> /\ up'[c] = up[c]
  BY DEF ConnInv, Quiet
<1> QED
  BY <1>2, <1>3, <1>4 DEF ConnInv, Quiet, OneBeat, Answered, OnlyCut

LEMMA HeartbeatStep == TypeOK /\ HeartbeatInv /\ [Next]_vars => HeartbeatInv'
<1> SUFFICES ASSUME TypeOK, HeartbeatInv, [Next]_vars, NEW d \in Conns
             PROVE  ConnInv(d)'
  BY DEF HeartbeatInv
<1>1. ConnInv(d)
  BY DEF HeartbeatInv
<1>2. /\ link \in [Conns -> {"up", "cut", "closed"}]
      /\ pong \in [Conns -> BOOLEAN] /\ late \in [Conns -> BOOLEAN]
      /\ handler \in [Conns -> {"none", "open", "ending"}]
      /\ beat \in [Conns -> {"off", "sleep", "wait", "expired"}]
      /\ down \in [Conns -> Seq(DownMsgs)] /\ up \in [Conns -> Seq(UpMsgs)]
      /\ registry \in Conns \cup {NoConn} /\ ws \in Conns \cup {NoConn}
      /\ stage = "receiving" <=> job = NoJob
      /\ ws = NoConn => job = NoJob
      /\ job \in Jobs \cup {NoJob}
  BY DEF TypeOK
<1>3. ASSUME Steady(d) PROVE ConnInv(d)'
  BY <1>1, <1>3, SteadyConn
<1>4. ASSUME NEW c \in Conns, Connect(c) \/ Cut(c) \/ Gateway(c), c # d PROVE Steady(d)
  BY <1>2, <1>4 DEF Connect, Cut, Gateway, SendPing, PingFails, PongSeen, PongTimeout,
                    Receive, Disconnected, Leave, Sent, Steady
<1>5. ASSUME NEW j \in Jobs, Assign(j) PROVE ConnInv(d)'
  <2>1. /\ link' = link /\ handler' = handler /\ beat' = beat /\ pong' = pong
        /\ late' = late /\ up' = up
        /\ registry \in Conns
    BY <1>2, <1>5 DEF Assign
  <2>2. CASE registry # d \/ link[d] # "up"
    <3>1. down'[d] = down[d]
      BY <1>2, <1>5, <2>2 DEF Assign, Sent
    <3> QED
      BY <1>3, <2>1, <3>1 DEF Steady
  <2>3. CASE registry = d /\ link[d] = "up"
    <3>1. down'[d] = Append(down[d], JobMsg("assign", j))
      BY <1>2, <1>5, <2>3 DEF Assign, Sent
    <3>2. (Carries(down'[d], Ping) <=> Carries(down[d], Ping)) /\ OneAt(down'[d], Ping)
      <4>1. JobMsg("assign", j) \in DownMsgs /\ JobMsg("assign", j) # Ping
        BY Messages
      <4>2. down[d] \in Seq(DownMsgs) /\ OneAt(down[d], Ping)
        BY <1>1, <1>2 DEF ConnInv, OneBeat
      <4> QED
        BY <3>1, <4>1, <4>2, AppendedMessage
    <3> QED
      BY <1>1, <2>1, <2>3, <3>2 DEF ConnInv, Quiet, OneBeat, Answered, OnlyCut
  <2> QED
    BY <2>2, <2>3
<1>6. ASSUME AnswerPing PROVE ConnInv(d)'
  <2>1. /\ link' = link /\ handler' = handler /\ beat' = beat /\ pong' = pong
        /\ late' = late /\ ws \in Conns /\ link[ws] = "up" /\ down[ws] # <<>> /\ Head(down[ws]) = Ping
        /\ down' = [down EXCEPT ![ws] = Tail(@)] /\ up' = [up EXCEPT ![ws] = Append(@, Pong)]
    BY <1>2, <1>6 DEF AnswerPing, Incoming, Sent
  <2>2. CASE ws # d
    BY <1>2, <1>3, <2>1, <2>2 DEF Steady
  <2>3. CASE ws = d
    <3>1. down'[d] = Tail(down[d]) /\ up'[d] = Append(up[d], Pong)
      BY <1>2, <2>1, <2>3
    <3>2. down[d] \in Seq(DownMsgs) /\ up[d] \in Seq(UpMsgs) /\ Pong \in UpMsgs
      BY <1>2, Messages
    <3>3. Carries(down[d], Ping) /\ OneAt(down'[d], Ping) /\ ~Carries(down'[d], Ping)
      BY <1>1, <2>1, <2>3, <3>1, <3>2, TakenMessage DEF ConnInv, OneBeat
    <3>4. ~Carries(up[d], Pong) /\ OneAt(up[d], Pong)
      BY <1>1, <3>3 DEF ConnInv, OneBeat
    <3>5. Carries(up'[d], Pong) /\ OneAt(up'[d], Pong)
      BY <3>1, <3>2, <3>4, AppendedMessage
    <3>6. beat[d] = "wait" /\ ~pong[d]
      BY <1>1, <3>3 DEF ConnInv, OneBeat
    <3> QED
      BY <1>1, <2>1, <2>3, <3>3, <3>5, <3>6 DEF ConnInv, Quiet, OneBeat, Answered, OnlyCut
  <2> QED
    BY <2>2, <2>3
<1>7. ASSUME AckJob PROVE ConnInv(d)'
  <2>1. /\ link' = link /\ handler' = handler /\ beat' = beat /\ pong' = pong
        /\ late' = late /\ ws \in Conns /\ down[ws] # <<>> /\ Head(down[ws]) # Ping
        /\ down' = [down EXCEPT ![ws] = Tail(@)]
        /\ Sent(ws, up, JobMsg("ack", Head(down[ws]).job))
    BY <1>2, <1>7 DEF AckJob, Incoming
  <2>2. CASE ws # d
    BY <1>2, <1>3, <2>1, <2>2 DEF Steady, Sent
  <2>3. CASE ws = d
    <3>1. Head(down[d]).job \in Jobs
      BY <1>2, <2>1, <2>3, ChannelTypes, Messages
    <3>2. JobMsg("ack", Head(down[d]).job) \in UpMsgs \ {Pong}
      BY <3>1, Messages
    <3> DEFINE m == JobMsg("ack", Head(down[d]).job)
    <3>3. up'[d] = IF link[d] = "up" THEN Append(up[d], m) ELSE up[d]
      BY <1>2, <2>1, <2>3 DEF Sent
    <3>4. down'[d] = Tail(down[d])
      BY <1>2, <2>1, <2>3
    <3> HIDE DEF m
    <3>5. m \in UpMsgs \ {Pong}
      BY <3>2 DEF m
    <3> QED
      BY <1>1, <2>1, <2>3, <3>3, <3>4, <3>5, ReportConnStep
  <2> QED
    BY <2>2, <2>3
<1>8. ASSUME StartJob \/ FinishJob PROVE ConnInv(d)'
  <2>1. /\ link' = link /\ handler' = handler /\ beat' = beat /\ pong' = pong
        /\ late' = late /\ down' = down
        /\ ws \in Conns /\ job \in Jobs
        /\ \E k \in {"running", "final"} : Sent(ws, up, JobMsg(k, job))
    BY <1>2, <1>8 DEF StartJob, FinishJob
  <2>2. PICK k \in {"running", "final"} : Sent(ws, up, JobMsg(k, job))
    BY <2>1
  <2>3. CASE ws # d
    BY <1>2, <1>3, <2>1, <2>2, <2>3 DEF Steady, Sent
  <2>4. CASE ws = d
    <3> DEFINE m == JobMsg(k, job)
    <3>1. m \in UpMsgs \ {Pong}
      BY <2>1, Messages
    <3>2. up'[d] = IF link[d] = "up" THEN Append(up[d], m) ELSE up[d]
      BY <1>2, <2>2, <2>4 DEF Sent
    <3> HIDE DEF m
    <3> QED
      BY <1>1, <2>1, <3>1, <3>2, ReportConnStep
  <2> QED
    BY <2>3, <2>4
<1>9. ASSUME Lost PROVE Steady(d)
  BY <1>9 DEF Lost, Steady
<1>10. ASSUME UNCHANGED vars PROVE Steady(d)
  BY <1>10 DEF vars, Steady
<1>11. ASSUME NEW c \in Conns, Connect(c) \/ Cut(c) \/ Gateway(c) PROVE ConnInv(d)'
  BY <1>1, <1>3, <1>4, <1>11, GatewayConnStep
<1> QED
  BY <1>3, <1>5, <1>6, <1>7, <1>8, <1>9, <1>10, <1>11 DEF Next, Node

-----------------------------------------------------------------------------
(* The order of the reports. *)

LEMMA OrderInit == Init => ReportsInOrder /\ Trail
BY DEF Init, ReportsInOrder, InOrder, Trail

(* A step that sends nothing and brings no link up. *)
LEMMA NothingSent ==
    ASSUME TypeOK, ReportsInOrder, Trail, up' = up, UNCHANGED client,
           \A c \in Conns : link'[c] = "up" => link[c] = "up"
    PROVE  ReportsInOrder' /\ Trail'
<1>1. ReportsInOrder'
  BY DEF ReportsInOrder
<1>2. Trail'
  BY DEF Trail, FitsStage, client, TypeOK
<1> QED
  BY <1>1, <1>2

(* A report that follows whichever the stage allows before it, and that the
   next stage names. *)
LEMMA ReportSent ==
    ASSUME TypeOK, ReportsInOrder, Trail, ws \in Conns, NEW x \in UpMsgs \ {Pong},
           Sent(ws, up, x), link' = link, ws' = ws,
           \A m \in UpMsgs : FitsStage(m) => Follows(m, x),
           FitsStage(x)'
    PROVE  ReportsInOrder' /\ Trail'
<1>1. up \in [Conns -> Seq(UpMsgs)] /\ up[ws] \in Seq(UpMsgs) /\ InOrder(up[ws])
  BY DEF TypeOK, ReportsInOrder
<1>2. CASE link[ws] = "up"
  <2>1. up' = [up EXCEPT ![ws] = Append(@, x)] /\ up'[ws] = Append(up[ws], x)
    BY <1>1, <1>2 DEF Sent
  <2>2. ASSUME NEW k \in 1..Len(up[ws]), LastReport(up[ws], k)
        PROVE  Follows(up[ws][k], x)
    <3>1. up[ws][k] \in UpMsgs
      BY <1>1
    <3>2. FitsStage(up[ws][k])
      BY <1>2, <2>2, NothingAssumption DEF Trail
    <3> QED
      BY <3>1, <3>2
  <2>3. /\ InOrder(Append(up[ws], x))
        /\ \A k \in 1..Len(Append(up[ws], x)) :
             LastReport(Append(up[ws], x), k) => Append(up[ws], x)[k] = x
    BY <1>1, <2>2, AppendedInOrder
  <2>4. ReportsInOrder'
    BY <1>1, <2>1, <2>3 DEF ReportsInOrder
  <2>5. Trail'
    BY <2>1, <2>3 DEF Trail
  <2> QED
    BY <2>4, <2>5
<1>3. CASE link[ws] # "up"
  <2>1. up' = up
    BY <1>3 DEF Sent
  <2> QED
    BY <1>3, <2>1 DEF ReportsInOrder, Trail
<1> QED
  BY <1>2, <1>3

LEMMA OrderStep ==
    TypeOK /\ ReportsInOrder /\ Trail /\ [Next]_vars => ReportsInOrder' /\ Trail'
<1> SUFFICES ASSUME TypeOK, ReportsInOrder, Trail, [Next]_vars
             PROVE  ReportsInOrder' /\ Trail'
  OBVIOUS
<1>1. /\ up \in [Conns -> Seq(UpMsgs)] /\ down \in [Conns -> Seq(DownMsgs)]
      /\ link \in [Conns -> {"up", "cut", "closed"}]
      /\ ws \in Conns \cup {NoConn} /\ job \in Jobs \cup {NoJob}
      /\ stage \in {"receiving", "acked", "running"}
      /\ stage = "receiving" <=> job = NoJob
      /\ ws = NoConn => job = NoJob
  BY DEF TypeOK
<1>2. ASSUME NEW c \in Conns, Connect(c) PROVE ReportsInOrder' /\ Trail'
  <2>1. up' = [up EXCEPT ![c] = <<>>] /\ ws' = c
    BY <1>2 DEF Connect
  <2>2. ReportsInOrder'
    BY <1>1, <2>1 DEF ReportsInOrder, InOrder
  <2>3. up'[c] = <<>>
    BY <1>1, <2>1
  <2>4. Trail'
    BY <2>1, <2>3 DEF Trail
  <2> QED
    BY <2>2, <2>4
<1>3. ASSUME NEW c \in Conns, Cut(c) PROVE ReportsInOrder' /\ Trail'
  <2>1. PICK n \in 0..Len(up[c]) : up' = [up EXCEPT ![c] = SubSeq(@, 1, n)]
    BY <1>3 DEF Cut
  <2>2. InOrder(SubSeq(up[c], 1, n))
    BY <1>1, CutOff DEF ReportsInOrder
  <2>3. ReportsInOrder'
    BY <1>1, <2>1, <2>2 DEF ReportsInOrder
  <2>4. UNCHANGED client /\ link' = [link EXCEPT ![c] = "cut"]
    BY <1>3 DEF Cut
  <2>5. ws \in Conns /\ link'[ws] = "up" => ws # c /\ link[ws] = "up" /\ up'[ws] = up[ws]
    BY <1>1, <2>1, <2>4
  <2>6. Trail'
    BY <1>1, <2>4, <2>5 DEF Trail, FitsStage, client
  <2> QED
    BY <2>3, <2>6
<1>4. ASSUME NEW c \in Conns, Receive(c) PROVE ReportsInOrder' /\ Trail'
  <2>1. /\ up[c] # <<>> /\ up' = [up EXCEPT ![c] = Tail(@)] /\ up'[c] = Tail(up[c])
        /\ link' = link /\ UNCHANGED client
    BY <1>1, <1>4 DEF Receive
  <2>2. up[c] \in Seq(UpMsgs) /\ InOrder(up[c])
    BY <1>1 DEF ReportsInOrder
  <2>3. /\ InOrder(Tail(up[c]))
        /\ \A k \in 1..Len(Tail(up[c])) : LastReport(Tail(up[c]), k) =>
             k + 1 \in 1..Len(up[c]) /\ LastReport(up[c], k + 1)
             /\ up[c][k + 1] = Tail(up[c])[k]
    BY <2>1, <2>2, TakenInOrder
  <2>4. ReportsInOrder'
    BY <1>1, <2>1, <2>3 DEF ReportsInOrder
  <2>5. CASE ws = c
    <3>1. ASSUME link[c] = "up", NEW k \in 1..Len(up'[c]), LastReport(up'[c], k)
          PROVE  FitsStage(up'[c][k])
      <4>1. k + 1 \in 1..Len(up[c]) /\ LastReport(up[c], k + 1) /\ up[c][k + 1] = up'[c][k]
        BY <2>1, <2>3, <3>1
      <4>2. FitsStage(up[c][k + 1])
        BY <2>5, <3>1, <4>1, NothingAssumption DEF Trail
      <4> QED
        BY <4>1, <4>2
    <3>2. ws' = c /\ stage' = stage /\ job' = job
      BY <2>1, <2>5 DEF client
    <3>3. ASSUME link'[c] = "up", NEW k \in 1..Len(up'[c]), LastReport(up'[c], k)
          PROVE  FitsStage(up[c][k])'
      BY <2>1, <3>1, <3>2, <3>3 DEF FitsStage
    <3> QED
      BY <2>4, <3>2, <3>3 DEF Trail
  <2>6. CASE ws # c
    <3>1. ws \in Conns => up'[ws] = up[ws]
      BY <1>1, <2>1, <2>6
    <3> QED
      BY <1>1, <2>1, <2>4, <3>1 DEF Trail, FitsStage, client
  <2> QED
    BY <2>4, <2>5, <2>6
<1>5. ASSUME NEW c \in Conns, PongTimeout(c) PROVE ReportsInOrder' /\ Trail'
  <2>1. \A d \in Conns : link'[d] = "up" => link[d] = "up"
    BY <1>1, <1>5 DEF PongTimeout
  <2>2. up' = up /\ UNCHANGED client
    BY <1>5 DEF PongTimeout
  <2> QED
    BY <2>1, <2>2, NothingSent
<1>6. ASSUME NEW c \in Conns,
             SendPing(c) \/ PingFails(c) \/ PongSeen(c) \/ Disconnected(c) \/ Leave(c)
      PROVE  ReportsInOrder' /\ Trail'
  <2>1. link' = link /\ up' = up /\ UNCHANGED client
    BY <1>6 DEF SendPing, PingFails, PongSeen, Disconnected, Leave
  <2> QED
    BY <2>1, NothingSent
<1>7. ASSUME NEW j \in Jobs, Assign(j) PROVE ReportsInOrder' /\ Trail'
  <2>1. link' = link /\ up' = up /\ UNCHANGED client
    BY <1>7 DEF Assign
  <2> QED
    BY <2>1, NothingSent
<1>8. ASSUME AnswerPing PROVE ReportsInOrder' /\ Trail'
  <2>1. /\ link' = link /\ UNCHANGED client /\ ws \in Conns
        /\ up' = [up EXCEPT ![ws] = Append(@, Pong)] /\ up'[ws] = Append(up[ws], Pong)
    BY <1>1, <1>8 DEF AnswerPing, Incoming, Sent
  <2>2. up[ws] \in Seq(UpMsgs) /\ InOrder(up[ws]) /\ Pong \in UpMsgs
    BY <1>1, <2>1, Messages DEF ReportsInOrder
  <2>3. /\ InOrder(Append(up[ws], Pong))
        /\ \A k \in 1..Len(Append(up[ws], Pong)) : LastReport(Append(up[ws], Pong), k) =>
             k \in 1..Len(up[ws]) /\ LastReport(up[ws], k) /\ Append(up[ws], Pong)[k] = up[ws][k]
    BY <2>2, AppendedInOrder
  <2>4. ReportsInOrder'
    BY <1>1, <2>1, <2>3 DEF ReportsInOrder
  <2>5. Trail'
    BY <2>1, <2>3, NothingAssumption DEF Trail, FitsStage, client
  <2> QED
    BY <2>4, <2>5
<1>9. ASSUME AckJob PROVE ReportsInOrder' /\ Trail'
  <2>1. /\ link' = link /\ ws' = ws /\ ws \in Conns /\ stage = "receiving"
        /\ down[ws] # <<>> /\ Head(down[ws]) # Ping
        /\ Sent(ws, up, JobMsg("ack", Head(down[ws]).job))
        /\ stage' = "acked" /\ job' = Head(down[ws]).job
    BY <1>1, <1>9 DEF AckJob, Incoming
  <2>2. Head(down[ws]).job \in Jobs
    BY <1>1, <2>1, ChannelTypes, Messages
  <2>3. PICK j \in Jobs : j = Head(down[ws]).job
    BY <2>2
  <2>4. JobMsg("ack", j) \in UpMsgs \ {Pong} /\ JobMsg("ack", j).kind = "ack"
    BY Messages
  <2>5. PICK x \in UpMsgs \ {Pong} : x = JobMsg("ack", j)
    BY <2>4
  <2>6. \A m \in UpMsgs : FitsStage(m) => Follows(m, x)
    BY <2>1, <2>4, <2>5 DEF FitsStage, Follows
  <2>7. FitsStage(x)'
    BY <2>1, <2>3, <2>5 DEF FitsStage
  <2>8. Sent(ws, up, x)
    BY <2>1, <2>3, <2>5
  <2> QED
    BY <2>1, <2>6, <2>7, <2>8, ReportSent
<1>10. ASSUME StartJob PROVE ReportsInOrder' /\ Trail'
  <2>1. /\ link' = link /\ ws' = ws /\ ws \in Conns /\ job \in Jobs
        /\ stage = "acked" /\ stage' = "running" /\ job' = job
        /\ Sent(ws, up, JobMsg("running", job))
    BY <1>1, <1>10 DEF StartJob
  <2>2. /\ JobMsg("running", job) \in UpMsgs \ {Pong}
        /\ JobMsg("running", job).kind = "running" /\ JobMsg("running", job).job = job
    BY <2>1, Messages
  <2>3. \A m \in UpMsgs : FitsStage(m) => Follows(m, JobMsg("running", job))
    BY <2>1, <2>2 DEF FitsStage, Follows
  <2>4. PICK x \in UpMsgs \ {Pong} : x = JobMsg("running", job)
    BY <2>2
  <2>5. FitsStage(x)'
    BY <2>1, <2>4 DEF FitsStage
  <2> QED
    BY <2>1, <2>3, <2>4, <2>5, ReportSent
<1>11. ASSUME FinishJob PROVE ReportsInOrder' /\ Trail'
  <2>1. /\ link' = link /\ ws' = ws /\ ws \in Conns /\ job \in Jobs
        /\ stage \in {"acked", "running"} /\ stage' = "receiving"
        /\ Sent(ws, up, JobMsg("final", job))
    BY <1>1, <1>11 DEF FinishJob
  <2>2. /\ JobMsg("final", job) \in UpMsgs \ {Pong}
        /\ JobMsg("final", job).kind = "final" /\ JobMsg("final", job).job = job
    BY <2>1, Messages
  <2>3. \A m \in UpMsgs : FitsStage(m) => Follows(m, JobMsg("final", job))
    BY <2>1, <2>2, Messages DEF FitsStage, Follows
  <2>4. PICK x \in UpMsgs \ {Pong} : x = JobMsg("final", job)
    BY <2>2
  <2>5. FitsStage(x)'
    BY <2>1, <2>2, <2>4 DEF FitsStage
  <2> QED
    BY <2>1, <2>3, <2>4, <2>5, ReportSent
<1>12. ASSUME Lost PROVE ReportsInOrder' /\ Trail'
  <2>1. up' = up /\ ws' = NoConn
    BY <1>12 DEF Lost
  <2> QED
    BY <2>1 DEF ReportsInOrder, Trail
<1>13. ASSUME UNCHANGED vars PROVE ReportsInOrder' /\ Trail'
  BY <1>13, NothingSent DEF vars, client
<1> QED
  BY <1>2, <1>3, <1>4, <1>5, <1>6, <1>7, <1>8, <1>9, <1>10, <1>11, <1>12, <1>13
  DEF Next, Gateway, Node

-----------------------------------------------------------------------------
(* The theorems. *)

LEMMA RelayInvariant == Spec => []RelayInv
<1>1. Init => RelayInv
  <2>1. Init => RegisteredIsServed
    BY DEF Init, RegisteredIsServed
  <2> QED
    BY <2>1, TypeInit, HeartbeatInit, OrderInit DEF RelayInv
<1>2. RelayInv /\ [Next]_vars => RelayInv'
  BY TypeStep, RegisteredStep, HeartbeatStep, OrderStep DEF RelayInv
<1> QED
  BY <1>1, <1>2, PTL DEF Spec

(* The two sides and the channels between them keep their types; only a     *)
(* handler that is open has a heartbeat task that pings.                    *)
THEOREM TypeCorrect == Spec => []TypeOK
BY RelayInvariant, PTL DEF RelayInv

(* However connections overlap, the connection ConnectionManager hands out  *)
(* still has its relay_websocket handler.                                   *)
THEOREM RegisteredIsServedHolds == Spec => []RegisteredIsServed
BY RelayInvariant, PTL DEF RelayInv

(* _heartbeat_loop has at most one ping or pong on its way, whatever is cut *)
(* and however many messages are.                                           *)
THEOREM OnePingOutHolds == Spec => []OnePingOut
<1>1. RelayInv => OnePingOut
  BY DEF RelayInv, HeartbeatInv, ConnInv, OneBeat, OnePingOut
<1> QED
  BY <1>1, RelayInvariant, PTL

(* _heartbeat_loop closes a connection the network has not cut only if its  *)
(* ping was behind more jobs than end within the pong window.               *)
THEOREM OnlyDeadTimeOutHolds == Spec => []OnlyDeadTimeOut
<1>1. RelayInv => OnlyDeadTimeOut
  BY DEF RelayInv, HeartbeatInv, ConnInv, OnlyCut, OnlyDeadTimeOut
<1> QED
  BY <1>1, RelayInvariant, PTL

(* The reports handle_job sends travel job by job and in the order of its    *)
(* stages, whatever was cut off behind them.                                *)
THEOREM ReportsInOrderHolds == Spec => []ReportsInOrder
BY RelayInvariant, PTL DEF RelayInv
=============================================================================
