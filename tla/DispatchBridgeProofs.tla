------------------------- MODULE DispatchBridgeProofs -------------------------
(***************************************************************************)
(* Theorems about DispatchBridge, for every value of its constants.        *)
(***************************************************************************)
EXTENDS DispatchBridge, FiniteSetTheorems, SequenceTheorems, TLAPS

-----------------------------------------------------------------------------
(* The memories of the bridge *)

\* No element occurs twice in a sequence.
Distinct(s) == \A i, j \in 1 .. Len(s) : s[i] = s[j] => i = j

LEMMA Appended ==
  ASSUME NEW S, NEW s \in Seq(S), NEW e \in S
  PROVE  /\ Append(s, e) \in Seq(S)
         /\ Append(s, e) # <<>>
         /\ Len(Append(s, e)) = Len(s) + 1
         /\ ToSet(Append(s, e)) = ToSet(s) \cup {e}
         /\ s # <<>> => Head(Append(s, e)) = Head(s)
         /\ s = <<>> => Head(Append(s, e)) = e
         /\ e \notin ToSet(s) /\ Distinct(s) => Distinct(Append(s, e))
<1> DEFINE t == Append(s, e)
<1>1. /\ t \in Seq(S) /\ Len(t) = Len(s) + 1 /\ Len(s) \in Nat
      /\ \A i \in 1 .. Len(s) : t[i] = s[i]
      /\ t[Len(s) + 1] = e
  BY AppendProperties
<1>2. DOMAIN s = 1 .. Len(s) /\ DOMAIN t = 1 .. Len(t)
  BY <1>1, LenProperties
<1>3. t # <<>>
  BY <1>1
<1>4. ToSet(t) = ToSet(s) \cup {e}
  BY <1>1, <1>2 DEF ToSet
<1>5. s # <<>> => Head(t) = Head(s)
  BY <1>1, EmptySeq
<1>6. s = <<>> => Head(t) = e
  BY <1>1, EmptySeq
<1>7. ASSUME e \notin ToSet(s), Distinct(s) PROVE Distinct(t)
  <2>1. SUFFICES ASSUME NEW i \in 1 .. Len(s) + 1, NEW j \in 1 .. Len(s) + 1, t[i] = t[j] PROVE i = j
    BY <1>1 DEF Distinct
  <2>2. \A k \in 1 .. Len(s) : s[k] # e
    BY <1>2, <1>7 DEF ToSet
  <2>3. CASE i \in 1 .. Len(s) /\ j \in 1 .. Len(s)
    BY <1>1, <1>7, <2>1, <2>3 DEF Distinct
  <2>4. CASE i = Len(s) + 1 \/ j = Len(s) + 1
    BY <1>1, <2>1, <2>2, <2>4
  <2> QED
    BY <1>1, <2>3, <2>4
<1> QED
  BY <1>1, <1>3, <1>4, <1>5, <1>6, <1>7

LEMMA Shifted ==
  ASSUME NEW S, NEW s \in Seq(S), s # <<>>
  PROVE  /\ Head(s) \in S
         /\ Tail(s) \in Seq(S)
         /\ Len(s) \in Nat \ {0}
         /\ Len(Tail(s)) = Len(s) - 1
         /\ ToSet(s) = {Head(s)} \cup ToSet(Tail(s))
         /\ Distinct(s) => Distinct(Tail(s)) /\ Head(s) \notin ToSet(Tail(s))
<1> DEFINE t == Tail(s)
<1>1. /\ Head(s) \in S /\ t \in Seq(S) /\ Len(t) = Len(s) - 1
      /\ \A i \in 1 .. Len(t) : t[i] = s[i + 1]
  BY HeadTailProperties
<1>2. Len(s) \in Nat \ {0} /\ Head(s) = s[1]
  BY EmptySeq
<1>3. DOMAIN s = 1 .. Len(s) /\ DOMAIN t = 1 .. Len(t)
  BY <1>1, LenProperties
<1>4. ToSet(s) = {Head(s)} \cup ToSet(t)
  <2>1. ASSUME NEW i \in 1 .. Len(s) PROVE s[i] \in {Head(s)} \cup ToSet(t)
    <3>1. CASE i = 1
      BY <1>2, <3>1
    <3>2. CASE i # 1
      <4>1. i - 1 \in 1 .. Len(t) /\ t[i - 1] = s[i]
        BY <1>1, <1>2, <3>2
      <4> QED
        BY <4>1, <1>3 DEF ToSet
    <3> QED
      BY <3>1, <3>2
  <2>2. ASSUME NEW i \in 1 .. Len(t) PROVE t[i] \in ToSet(s)
    <3>1. i + 1 \in 1 .. Len(s) /\ t[i] = s[i + 1]
      BY <1>1, <1>2
    <3> QED
      BY <3>1, <1>3 DEF ToSet
  <2>3. Head(s) \in ToSet(s)
    BY <1>2, <1>3 DEF ToSet
  <2> QED
    BY <2>1, <2>2, <2>3, <1>3 DEF ToSet
<1>5. ASSUME Distinct(s) PROVE Distinct(t) /\ Head(s) \notin ToSet(t)
  <2>1. Distinct(t)
    <3>1. SUFFICES ASSUME NEW i \in 1 .. Len(t), NEW j \in 1 .. Len(t), t[i] = t[j] PROVE i = j
      BY DEF Distinct
    <3>2. i + 1 \in 1 .. Len(s) /\ j + 1 \in 1 .. Len(s) /\ s[i + 1] = s[j + 1]
      BY <1>1, <1>2, <3>1
    <3>3. i + 1 = j + 1
      BY <3>2, <1>5 DEF Distinct
    <3> QED
      BY <3>3
  <2>2. ASSUME NEW i \in 1 .. Len(t) PROVE t[i] # Head(s)
    <3>1. i + 1 \in 1 .. Len(s) /\ 1 \in 1 .. Len(s) /\ i + 1 # 1 /\ t[i] = s[i + 1]
      BY <1>1, <1>2
    <3> QED
      BY <3>1, <1>2, <1>5 DEF Distinct
  <2> QED
    BY <2>1, <2>2, <1>3 DEF ToSet
<1> QED
  BY <1>1, <1>2, <1>4, <1>5

\* A sequence without repetitions has as many elements as it is long.
LEMMA DistinctCounts ==
  ASSUME NEW S, NEW s \in Seq(S), Distinct(s)
  PROVE  Cardinality(ToSet(s)) = Len(s)
<1>1. Len(s) \in Nat /\ DOMAIN s = 1 .. Len(s) /\ s \in [1 .. Len(s) -> S]
  BY LenProperties
<1>2. s \in [1 .. Len(s) -> ToSet(s)]
  BY <1>1 DEF ToSet
<1>3. s \in Bijection(1 .. Len(s), ToSet(s))
  <2>1. s \in Injection(1 .. Len(s), ToSet(s))
    BY <1>2 DEF Injection, IsInjective, Distinct
  <2>2. s \in Surjection(1 .. Len(s), ToSet(s))
    BY <1>1, <1>2 DEF Surjection, ToSet
  <2> QED
    BY <2>1, <2>2 DEF Bijection
<1>4. IsFiniteSet(1 .. Len(s)) /\ Cardinality(1 .. Len(s)) = Len(s)
  BY <1>1, FS_Interval
<1> QED
  BY <1>3, <1>4, FS_Bijection DEF ExistsBijection

\* A memory of ids keeps its limit, and forgets only what is old.
LEMMA Remembered ==
  ASSUME NEW S, NEW ids \in Seq(S), Len(ids) <= MaxTracked, NEW m \in S
  PROVE  /\ Remember(ids, m) \in Seq(S)
         /\ Len(Remember(ids, m)) <= MaxTracked
         /\ m \in ToSet(Remember(ids, m))
         /\ ToSet(Remember(ids, m)) \subseteq ToSet(ids) \cup {m}
<1>0. Len(ids) \in Nat /\ MaxTracked \in Nat \ {0}
  BY LenProperties, BridgeAssumption
<1>1. CASE m \in ToSet(ids)
  BY <1>1 DEF Remember
<1>2. CASE m \notin ToSet(ids) /\ Len(ids) < MaxTracked
  BY <1>0, <1>2, Appended DEF Remember
<1>3. CASE m \notin ToSet(ids) /\ ~ Len(ids) < MaxTracked
  <2>1. ids # <<>>
    BY <1>0, <1>3, EmptySeq
  <2> DEFINE t == Tail(ids)
  <2>2. t \in Seq(S) /\ Len(t) = Len(ids) - 1 /\ ToSet(t) \subseteq ToSet(ids)
    BY <2>1, Shifted
  <2>4. Remember(ids, m) = Append(t, m)
    BY <1>3 DEF Remember
  <2> HIDE DEF t
  <2>3. /\ Append(t, m) \in Seq(S)
        /\ Len(Append(t, m)) = Len(t) + 1
        /\ ToSet(Append(t, m)) = ToSet(t) \cup {m}
    BY <2>2, Appended
  <2> QED
    BY <1>0, <1>3, <2>2, <2>3, <2>4
<1> QED
  BY <1>1, <1>2, <1>3

\* What is put into the replay queue; only a queue that is full loses its head.
LEMMA Queued ==
  ASSUME NEW m \in Msg, replay \in Seq(Msg), Len(replay) <= MaxReplay, QueueForReplay(m)
  PROVE  \/ /\ m \in replayIds \cup ToSet(replayed)
            /\ UNCHANGED <<replay, replayIds>>
         \/ /\ m \notin replayIds
            /\ replay' = Append(replay, m) /\ replayIds' = replayIds \cup {m}
            /\ Len(replay) < MaxReplay
         \/ /\ m \notin replayIds \cup ToSet(replayed)
            /\ replay # <<>> /\ Len(replay) = MaxReplay
            /\ replay' = Append(Tail(replay), m)
            /\ replayIds' = (replayIds \cup {m}) \ {Head(replay)}
<1>0. Len(replay) \in Nat /\ MaxReplay \in Nat \ {0}
  BY LenProperties, BridgeAssumption
<1> DEFINE q == Append(replay, m)
<1>1. Len(q) = Len(replay) + 1
  BY Appended
<1>2. CASE m \in replayIds \cup ToSet(replayed)
  BY <1>2 DEF QueueForReplay
<1>3. CASE m \notin replayIds \cup ToSet(replayed) /\ ~ Overfull(q)
  BY <1>0, <1>1, <1>3 DEF QueueForReplay, Overfull
<1>4. CASE m \notin replayIds \cup ToSet(replayed) /\ Overfull(q)
  <2>1. Len(replay) = MaxReplay /\ replay # <<>>
    BY <1>0, <1>1, <1>4, EmptySeq DEF Overfull
  <2>2. Head(q) = Head(replay)
    BY <2>1, Appended
  <2>3. Tail(q) = Append(Tail(replay), m)
    <3>1. q \in Seq(Msg) /\ q # <<>>
      BY Appended
    <3>2. /\ Tail(q) \in Seq(Msg) /\ Len(Tail(q)) = Len(q) - 1
          /\ \A i \in 1 .. Len(Tail(q)) : Tail(q)[i] = q[i + 1]
      BY <3>1, HeadTailProperties
    <3>3. /\ Tail(replay) \in Seq(Msg) /\ Len(Tail(replay)) = Len(replay) - 1
          /\ \A i \in 1 .. Len(Tail(replay)) : Tail(replay)[i] = replay[i + 1]
      BY <2>1, HeadTailProperties
    <3>4. /\ \A i \in 1 .. Len(replay) : q[i] = replay[i]
          /\ q[Len(replay) + 1] = m
      BY AppendProperties
    <3>5. LET t == Append(Tail(replay), m)
          IN  /\ t \in Seq(Msg) /\ Len(t) = Len(Tail(replay)) + 1
              /\ \A i \in 1 .. Len(Tail(replay)) : t[i] = Tail(replay)[i]
              /\ t[Len(Tail(replay)) + 1] = m
      BY <3>3, AppendProperties
    <3>6. Len(Tail(q)) = Len(Append(Tail(replay), m))
      BY <1>0, <1>1, <3>2, <3>3, <3>5
    <3>7. ASSUME NEW i \in 1 .. Len(Tail(q)) PROVE Tail(q)[i] = Append(Tail(replay), m)[i]
      <4>1. Tail(q)[i] = q[i + 1] /\ i \in 1 .. Len(replay)
        BY <1>0, <1>1, <3>2
      <4>2. CASE i = Len(replay)
        BY <1>0, <3>3, <3>4, <3>5, <4>1, <4>2
      <4>3. CASE i # Len(replay)
        <5>1. i + 1 \in 1 .. Len(replay) /\ i \in 1 .. Len(Tail(replay))
          <6>1. \A n \in Nat : \A k \in 1 .. n : k # n => k + 1 \in 1 .. n /\ k \in 1 .. (n - 1)
            OBVIOUS
          <6>2. i + 1 \in 1 .. Len(replay) /\ i \in 1 .. (Len(replay) - 1)
            BY <1>0, <4>1, <4>3, <6>1
          <6> QED
            BY <3>3, <6>2
        <5>2. q[i + 1] = replay[i + 1] /\ Tail(replay)[i] = replay[i + 1]
          BY <3>3, <3>4, <5>1
        <5> QED
          BY <3>5, <4>1, <5>1, <5>2
      <4> QED
        BY <4>2, <4>3
    <3> QED
      BY <3>2, <3>5, <3>6, <3>7, SeqEqual
  <2> QED
    BY <1>4, <2>1, <2>2, <2>3 DEF QueueForReplay
<1> QED
  BY <1>2, <1>3, <1>4

-----------------------------------------------------------------------------
(* The theorems about the queue, for the queue of the bridge *)

QueueTheorems == INSTANCE DispatchQueueProofs

LEMMA SameRow ==
  /\ QueueTheorems!NoRow = Queue!NoRow
  /\ QueueTheorems!Row = Queue!Row
  /\ QueueTheorems!Answer = Queue!Answer
  /\ QueueTheorems!ProducerState = Queue!ProducerState
BY DEF QueueTheorems!NoRow, Queue!NoRow, QueueTheorems!Row, Queue!Row,
       QueueTheorems!Answer, Queue!Answer, QueueTheorems!RowStatus, Queue!RowStatus,
       QueueTheorems!ProducerState, Queue!ProducerState

LEMMA SameTypes == QueueTheorems!TypeOK <=> Queue!TypeOK
BY SameRow DEF QueueTheorems!TypeOK, Queue!TypeOK

LEMMA SameInit == QueueTheorems!Init <=> Queue!Init
BY SameRow DEF QueueTheorems!Init, Queue!Init

LEMMA SameClaimInv == QueueTheorems!ClaimInv <=> Queue!ClaimInv
BY DEF QueueTheorems!ClaimInv, Queue!ClaimInv,
       QueueTheorems!ClaimsAreCurrent, Queue!ClaimsAreCurrent,
       QueueTheorems!AnsweredClaimsAreOver, Queue!AnsweredClaimsAreOver,
       QueueTheorems!HoldsClaim, Queue!HoldsClaim,
       QueueTheorems!MarkedRowsExist, Queue!MarkedRowsExist,
       QueueTheorems!OneAnswerPerClaim, Queue!OneAnswerPerClaim,
       QueueTheorems!DeliveredIsLast, Queue!DeliveredIsLast,
       QueueTheorems!GivesUpAtLimit, Queue!GivesUpAtLimit

LEMMA SameProducerStep ==
  ASSUME NEW m
  PROVE  QueueTheorems!ProducerStep(m) <=> Queue!ProducerStep(m)
BY DEF QueueTheorems!ProducerStep, Queue!ProducerStep, QueueTheorems!Enqueue, Queue!Enqueue,
       QueueTheorems!EnqueueFails, Queue!EnqueueFails, QueueTheorems!SendOK, Queue!SendOK,
       QueueTheorems!SendFails, Queue!SendFails, QueueTheorems!MarkDelivered, Queue!MarkDelivered,
       QueueTheorems!ProducerStops, Queue!ProducerStops,
       QueueTheorems!ProduceAgain, Queue!ProduceAgain, QueueTheorems!Ended, Queue!Ended,
       QueueTheorems!Spend, Queue!Spend, QueueTheorems!Inserted, Queue!Inserted,
       QueueTheorems!NoRow, Queue!NoRow, QueueTheorems!MarkedDelivered, Queue!MarkedDelivered

LEMMA SameAckStep ==
  ASSUME NEW m
  PROVE  QueueTheorems!AckStep(m) <=> Queue!AckStep(m)
BY DEF QueueTheorems!AckStep, Queue!AckStep, QueueTheorems!Ack, Queue!Ack,
       QueueTheorems!HoldsClaim, Queue!HoldsClaim,
       QueueTheorems!MarkedDelivered, Queue!MarkedDelivered, QueueTheorems!Retried, Queue!Retried

LEMMA SameTimeStep ==
  ASSUME NEW m
  PROVE  QueueTheorems!TimeStep(m) <=> Queue!TimeStep(m)
BY DEF QueueTheorems!TimeStep, Queue!TimeStep, QueueTheorems!BackoffEnds, Queue!BackoffEnds,
       QueueTheorems!ClaimExpires, Queue!ClaimExpires, QueueTheorems!Spend, Queue!Spend

LEMMA SamePull == QueueTheorems!Pull <=> Queue!Pull
<1>1. QueueTheorems!Claimable = Queue!Claimable
  BY DEF QueueTheorems!Claimable, Queue!Claimable
<1>2. ASSUME NEW unlocked, NEW picked
      PROVE  QueueTheorems!PullFrom(unlocked, picked) <=> Queue!PullFrom(unlocked, picked)
  <2>1. QueueTheorems!ClaimRows(picked) <=> Queue!ClaimRows(picked)
    BY DEF QueueTheorems!ClaimRows, Queue!ClaimRows, QueueTheorems!Claimed, Queue!Claimed,
           QueueTheorems!NewToken, Queue!NewToken
  <2>2. QueueTheorems!FillsPull(picked, unlocked) <=> Queue!FillsPull(picked, unlocked)
    BY DEF QueueTheorems!FillsPull, Queue!FillsPull,
           QueueTheorems!Cardinality, Queue!Cardinality
  <2> QED
    BY <1>1, <2>1, <2>2 DEF QueueTheorems!PullFrom, Queue!PullFrom
<1> QED
  BY <1>1, <1>2 DEF QueueTheorems!Pull, Queue!Pull

LEMMA SameNext == QueueTheorems!Next <=> Queue!Next
BY SameProducerStep, SameAckStep, SameTimeStep, SamePull DEF QueueTheorems!Next, Queue!Next

LEMMA SameSpec == QueueTheorems!Spec <=> Queue!Spec
<1>1. [QueueTheorems!Next]_(QueueTheorems!qvars) <=> [Queue!Next]_(Queue!qvars)
  BY SameNext DEF QueueTheorems!qvars, Queue!qvars
<1> QED
  BY <1>1, SameInit, PTL DEF QueueTheorems!Spec, Queue!Spec

\* Every step of the queue keeps the types of its rows.
LEMMA QueueTypeStep == Queue!TypeOK /\ [Queue!Next]_qvars => Queue!TypeOK'
<1> SUFFICES ASSUME Queue!TypeOK, [Queue!Next]_qvars PROVE Queue!TypeOK'
  OBVIOUS
<1>1. QueueTheorems!TypeOK
  BY SameTypes
<1>2. [QueueTheorems!Next]_(QueueTheorems!qvars)
  BY SameNext DEF QueueTheorems!qvars, qvars
<1>3. QueueTheorems!TypeOK'
  BY <1>1, <1>2, QueueTheorems!TypeStep, BridgeAssumption
<1>4. QueueTheorems!TypeOK' <=> Queue!TypeOK'
  BY SameTypes, PTL
<1> QED
  BY <1>3, <1>4

-----------------------------------------------------------------------------
(* Types, and the claims that the poller has in hand *)

\* The claims in the hands of the poller were handed out.
Held(job) == job.token \in 1 .. tokens[job.msg]

JobsHeld ==
    /\ \A job \in poller.batch : Held(job)
    /\ poller.pc \in {"sending", "ack", "nack"} => Held(poller.job)

\* The part of the type invariant that is about the poller.
PollerTyped ==
    /\ poller \in [pc : {"idle", "next", "sending", "ack", "nack"},
                   batch : SUBSET Job, job : Job \cup {Null}]
    /\ poller.pc \in {"sending", "ack", "nack"} => poller.job \in Job

\* The poller acknowledges the job it has in hand.
PollerAcks ==
    /\ poller.pc \in {"ack", "nack"}
    /\ Queue!Ack(poller.job.msg, poller.job.token, Result)
    /\ poller' \in {PollNext(poller.batch), AfterRefusal}

\* What a step of the bridge does to the queue.
LEMMA QueueMoves ==
  ASSUME [Next]_vars
  PROVE  \/ UNCHANGED qvars
         \/ \E m \in Msg : Queue!ProducerStep(m) \/ Queue!TimeStep(m)
         \/ Queue!Pull
         \/ PollerAcks
<1>1. ASSUME NEW m \in Msg, SendOverSocket(m) \/ Handler(m) \/ QueueTime(m)
      PROVE  Queue!ProducerStep(m) \/ Queue!TimeStep(m)
  BY <1>1 DEF SendOverSocket, Handler, QueueTime, Queue!ProducerStep
<1>2. ASSUME NEW m \in Msg, SocketStep(m) \/ GatewayAccepts(m) PROVE UNCHANGED qvars
  BY <1>2 DEF SocketStep, Receive, TaskSent, TaskFails, GatewayAccepts
<1>3. ASSUME PollPull \/ PollPullLost PROVE Queue!Pull
  BY <1>3 DEF PollPull, PollPullLost, Queue!Pull
<1>4. ASSUME PollStep PROVE UNCHANGED qvars \/ PollerAcks
  BY <1>4 DEF PollStep, PollStart, PollSent, PollSendFails, PollAcked, PollAckRefused,
              PollAckLost, PollAckUnsent, PollerAcks
<1>5. ASSUME FlushStep \/ LinkDown \/ LinkUp \/ GatewayUp \/ GatewayDown \/ Crash
      PROVE  UNCHANGED qvars
  BY <1>5 DEF FlushStep, FlushStart, FlushSends, FlushShift, FlushFails,
              LinkDown, LinkUp, GatewayUp, GatewayDown, Crash
<1>6. ASSUME UNCHANGED vars PROVE UNCHANGED qvars
  BY <1>6 DEF vars
<1> QED
  BY <1>1, <1>2, <1>3, <1>4, <1>5, <1>6 DEF Next

\* A step of the bridge is a step of the queue, since the bridge acknowledges
\* only claims that were handed out to it.
LEMMA QueueStep ==
  ASSUME PollerTyped, JobsHeld, [Next]_vars
  PROVE  [Queue!Next]_qvars
<1>1. ASSUME PollerAcks PROVE Queue!Next
  <2>1. poller.job.msg \in Msg /\ poller.job.token \in 1 .. tokens[poller.job.msg]
    BY <1>1 DEF PollerAcks, PollerTyped, JobsHeld, Held, Job
  <2>2. Result \in {"ok", "error"}
    BY DEF Result
  <2>3. Queue!AckStep(poller.job.msg)
    BY <1>1, <2>1, <2>2 DEF PollerAcks, Queue!AckStep
  <2> QED
    BY <2>1, <2>3 DEF Queue!Next
<1> QED
  BY <1>1, QueueMoves DEF Queue!Next

LEMMA TokensGrow ==
  ASSUME Queue!TypeOK, [Queue!Next]_qvars, NEW m \in Msg
  PROVE  tokens[m] \in Nat /\ tokens'[m] \in Nat /\ tokens[m] <= tokens'[m]
<1>0. tokens \in [Msg -> Nat]
  BY DEF Queue!TypeOK
<1>1. ASSUME NEW n \in Msg, Queue!ProducerStep(n) \/ Queue!AckStep(n) \/ Queue!TimeStep(n)
      PROVE  tokens' = tokens
  <2>1. Queue!ProducerStep(n) => tokens' = tokens
    BY DEF Queue!ProducerStep, Queue!Enqueue, Queue!EnqueueFails, Queue!SendOK, Queue!SendFails,
           Queue!MarkDelivered, Queue!ProducerStops, Queue!ProduceAgain
  <2>2. Queue!AckStep(n) => tokens' = tokens
    BY DEF Queue!AckStep, Queue!Ack
  <2>3. Queue!TimeStep(n) => tokens' = tokens
    BY DEF Queue!TimeStep, Queue!BackoffEnds, Queue!ClaimExpires
  <2> QED
    BY <1>1, <2>1, <2>2, <2>3
<1>2. ASSUME Queue!Pull PROVE \A n \in Msg : tokens'[n] \in {tokens[n], tokens[n] + 1}
  BY <1>2 DEF Queue!Pull, Queue!PullFrom, Queue!ClaimRows
<1>3. ASSUME UNCHANGED qvars PROVE tokens' = tokens
  BY <1>3 DEF qvars
<1> QED
  BY <1>0, <1>1, <1>2, <1>3 DEF Queue!Next

\* What a step does to the poller.
LEMMA PollerMoves ==
  ASSUME [Next]_vars
  PROVE  \/ poller' = poller
         \/ PollPull
         \/ PollStart
         \/ PollSent
         \/ PollSendFails
         \/ /\ poller.pc \in {"ack", "nack"}
            /\ poller' \in {PollNext(poller.batch), AfterRefusal}
         \/ poller' = IdlePoller
<1>1. ASSUME NEW m \in Msg, SendOverSocket(m) \/ Handler(m) \/ QueueTime(m) \/ SocketStep(m) \/ GatewayAccepts(m)
      PROVE  poller' = poller
  BY <1>1 DEF SendOverSocket, Handler, QueueTime, memory, SocketStep, Receive, TaskSent, TaskFails, GatewayAccepts
<1>2. ASSUME PollPullLost PROVE poller' = poller
  BY <1>2 DEF PollPullLost, memory
<1>3. ASSUME PollAcked \/ PollAckRefused \/ PollAckLost \/ PollAckUnsent
      PROVE  /\ poller.pc \in {"ack", "nack"}
             /\ poller' \in {PollNext(poller.batch), AfterRefusal}
  BY <1>3 DEF PollAcked, PollAckRefused, PollAckLost, PollAckUnsent
<1>4. ASSUME FlushStep \/ LinkDown \/ LinkUp \/ GatewayUp \/ GatewayDown PROVE poller' = poller
  BY <1>4 DEF FlushStep, FlushStart, FlushSends, FlushShift, FlushFails,
              LinkDown, LinkUp, GatewayUp, GatewayDown, memory
<1>5. ASSUME Crash PROVE poller' = IdlePoller
  BY <1>5 DEF Crash
<1>6. ASSUME UNCHANGED vars PROVE poller' = poller
  BY <1>6 DEF vars, memory
<1> QED
  BY <1>1, <1>2, <1>3, <1>4, <1>5, <1>6 DEF Next, PollStep

LEMMA PollerTypedStep ==
  ASSUME Queue!TypeOK, PollerTyped, JobsHeld, [Next]_vars
  PROVE  PollerTyped' /\ JobsHeld'
<1> DEFINE grown == \A m \in Msg : tokens[m] \in Nat /\ tokens'[m] \in Nat /\ tokens[m] <= tokens'[m]
<1>1. grown
  BY QueueStep, TokensGrow
<1>2. ASSUME NEW job \in Job, Held(job) PROVE Held(job)'
  BY <1>1, <1>2 DEF Held, Job
<1> HIDE DEF grown
<1>3. poller.batch \subseteq Job /\ (\A job \in poller.batch : Held(job)')
  BY <1>2 DEF PollerTyped, JobsHeld
<1>4. poller.pc \in {"sending", "ack", "nack"} =>
        poller.job \in Job /\ poller.job.token \in 1 .. tokens'[poller.job.msg]
  BY <1>2 DEF PollerTyped, JobsHeld, Held
<1>5. CASE poller' = poller
  BY <1>3, <1>4, <1>5 DEF PollerTyped, JobsHeld, Held
<1>6. CASE PollPull
  <2>1. PICK picked \in SUBSET Msg : Queue!ClaimRows(picked) /\ poller' = PollNext(Jobs(picked))
    BY <1>6 DEF PollPull, Queue!PullFrom, Queue!Claimable
  <2>2. \A m \in picked : tokens[m] \in Nat /\ tokens'[m] = tokens[m] + 1
    BY <2>1 DEF Queue!ClaimRows, Queue!TypeOK
  <2>3. Jobs(picked) \in SUBSET Job /\ \A job \in Jobs(picked) : Held(job)'
    BY <2>2 DEF Jobs, Job, Held, Queue!NewToken
  <2> QED
    BY <2>1, <2>3 DEF PollNext, PollerTyped, JobsHeld
<1>7. CASE PollStart
  <2>1. PICK job \in poller.batch :
          poller' = [pc |-> IF Dup(job.msg) THEN "ack" ELSE "sending",
                     batch |-> poller.batch \ {job}, job |-> job]
    BY <1>7 DEF PollStart
  <2> QED
    BY <1>3, <2>1 DEF PollerTyped, JobsHeld
<1>8. CASE PollSent \/ PollSendFails
  BY <1>3, <1>4, <1>8 DEF PollSent, PollSendFails, PollerTyped, JobsHeld, Held
<1>9. CASE /\ poller.pc \in {"ack", "nack"}
           /\ poller' \in {PollNext(poller.batch), AfterRefusal}
  <2>1. CASE poller' = PollNext(poller.batch)
    BY <1>3, <2>1 DEF PollNext, PollerTyped, JobsHeld
  <2>2. CASE poller' = [poller EXCEPT !.pc = "nack"]
    BY <1>3, <1>4, <1>9, <2>2 DEF PollerTyped, JobsHeld, Held
  <2> QED
    BY <1>9, <2>1, <2>2 DEF AfterRefusal
<1>10. CASE poller' = IdlePoller
  BY <1>10 DEF IdlePoller, PollerTyped, JobsHeld
<1> QED
  BY <1>5, <1>6, <1>7, <1>8, <1>9, <1>10, PollerMoves

\* A flush that goes on has a message in hand.
FlushHasHead == flush.pc # "off" => flush.head \in Msg

\* The inductive form of the type invariant.
TypeInv == TypeOK /\ JobsHeld /\ FlushHasHead

\* What a step does to the memory of direct messages.
LEMMA DMMoves ==
  ASSUME TypeInv, [Next]_vars
  PROVE  \/ dms' = dms
         \/ dms' = <<>>
         \/ \E m \in DM : dms' = Remember(dms, m) /\ m \in got'
<1>1. ASSUME NEW m \in Msg, SendOverSocket(m) \/ Handler(m) \/ QueueTime(m) \/ Receive(m) \/ TaskFails(m) \/ GatewayAccepts(m)
      PROVE  dms' = dms
  BY <1>1 DEF SendOverSocket, Handler, QueueTime, memory, Receive, TaskFails, GatewayAccepts
<1>2. ASSUME NEW m, RememberDM(m), GatewayAnswers(m)
      PROVE  dms' = dms \/ \E n \in DM : dms' = Remember(dms, n) /\ n \in got'
  BY <1>2 DEF RememberDM, GatewayAnswers
<1>3. ASSUME PollPull \/ PollPullLost \/ PollStart \/ PollSendFails \/ PollAcked \/ PollAckRefused
             \/ PollAckLost \/ PollAckUnsent
      PROVE  dms' = dms
  BY <1>3 DEF PollPull, PollPullLost, memory, PollStart, PollSendFails, PollAcked, PollAckRefused,
              PollAckLost, PollAckUnsent
<1>4. ASSUME FlushStart \/ FlushShift \/ FlushFails \/ LinkDown \/ LinkUp \/ GatewayUp \/ GatewayDown
      PROVE  dms' = dms
  BY <1>4 DEF FlushStart, FlushShift, FlushFails, LinkDown, LinkUp, GatewayUp, GatewayDown, memory
<1>5. ASSUME UNCHANGED vars PROVE dms' = dms
  BY <1>5 DEF vars, memory
<1>6. ASSUME Crash PROVE dms' = <<>>
  BY <1>6 DEF Crash
<1> QED
  BY <1>1, <1>2, <1>3, <1>4, <1>5, <1>6
     DEF Next, SocketStep, TaskSent, PollStep, PollSent, FlushStep, FlushSends

\* What the gateway has accepted it has accepted for good.
LEMMA GotGrows ==
  ASSUME TypeInv, [Next]_vars
  PROVE  got \subseteq got' /\ got' \subseteq Msg
<1> USE DEF TypeInv, TypeOK
<1>1. ASSUME NEW m \in Msg, SendOverSocket(m) \/ Handler(m) \/ QueueTime(m) \/ Receive(m) \/ TaskFails(m)
      PROVE  got' = got
  BY <1>1 DEF SendOverSocket, Handler, QueueTime, Receive, TaskFails
<1>2. ASSUME NEW m \in Msg, GatewayAccepts(m) \/ TaskSent(m) PROVE got' = got \cup {m}
  BY <1>2 DEF GatewayAccepts, TaskSent, GatewayAnswers
<1>3. ASSUME PollPull \/ PollPullLost \/ PollStart \/ PollSendFails \/ PollAcked \/ PollAckRefused
             \/ PollAckLost \/ PollAckUnsent
      PROVE  got' = got
  BY <1>3 DEF PollPull, PollPullLost, PollStart, PollSendFails, PollAcked, PollAckRefused,
              PollAckLost, PollAckUnsent
<1>4. ASSUME FlushStart \/ FlushShift \/ FlushFails \/ LinkDown \/ LinkUp \/ GatewayUp \/ GatewayDown \/ Crash
      PROVE  got' = got
  BY <1>4 DEF FlushStart, FlushShift, FlushFails, LinkDown, LinkUp, GatewayUp, GatewayDown, Crash
<1>5. ASSUME PollSent PROVE poller.job.msg \in Msg /\ got' = got \cup {poller.job.msg}
  BY <1>5 DEF PollSent, GatewayAnswers, Job
<1>6. ASSUME FlushSends PROVE flush.head \in Msg /\ got' = got \cup {flush.head}
  BY <1>6 DEF FlushSends, GatewayAnswers, FlushHasHead
<1>7. ASSUME UNCHANGED vars PROVE got' = got
  BY <1>7 DEF vars
<1>8. got \subseteq Msg
  OBVIOUS
<1> QED
  BY <1>1, <1>2, <1>3, <1>4, <1>5, <1>6, <1>7, <1>8 DEF Next, SocketStep, PollStep, FlushStep

\* What a step does to the replay queue.
LEMMA ReplayMoves ==
  ASSUME [Next]_vars
  PROVE  \/ UNCHANGED <<replay, replayIds, replayed>>
         \/ \E m \in Msg : TaskFails(m)
         \/ FlushShift
         \/ Crash
<1>1. ASSUME NEW m \in Msg, SendOverSocket(m) \/ Handler(m) \/ QueueTime(m) \/ Receive(m) \/ TaskSent(m) \/ GatewayAccepts(m)
      PROVE  UNCHANGED <<replay, replayIds, replayed>>
  BY <1>1 DEF SendOverSocket, Handler, QueueTime, memory, Receive, TaskSent, GatewayAccepts
<1>2. ASSUME PollPull \/ PollPullLost \/ PollStep PROVE UNCHANGED <<replay, replayIds, replayed>>
  BY <1>2 DEF PollPull, PollPullLost, memory, PollStep, PollStart, PollSent, PollSendFails,
              PollAcked, PollAckRefused, PollAckLost, PollAckUnsent
<1>3. ASSUME FlushStart \/ FlushSends \/ FlushFails \/ LinkDown \/ LinkUp \/ GatewayUp \/ GatewayDown
      PROVE  UNCHANGED <<replay, replayIds, replayed>>
  BY <1>3 DEF FlushStart, FlushSends, FlushFails, LinkDown, LinkUp, GatewayUp, GatewayDown, memory
<1>4. ASSUME UNCHANGED vars PROVE UNCHANGED <<replay, replayIds, replayed>>
  BY <1>4 DEF vars, memory
<1> QED
  BY <1>1, <1>2, <1>3, <1>4 DEF Next, SocketStep, FlushStep

\* What a step does to the flush.
LEMMA FlushMoves ==
  ASSUME [Next]_vars
  PROVE  flush' = flush \/ FlushStart \/ FlushSends \/ FlushShift \/ flush' = IdleFlush
<1>1. ASSUME NEW m \in Msg, SendOverSocket(m) \/ Handler(m) \/ QueueTime(m) \/ SocketStep(m) \/ GatewayAccepts(m)
      PROVE  flush' = flush
  BY <1>1 DEF SendOverSocket, Handler, QueueTime, memory, SocketStep, Receive, TaskSent, TaskFails, GatewayAccepts
<1>2. ASSUME PollPull \/ PollPullLost \/ PollStep PROVE flush' = flush
  BY <1>2 DEF PollPull, PollPullLost, memory, PollStep, PollStart, PollSent, PollSendFails,
              PollAcked, PollAckRefused, PollAckLost, PollAckUnsent
<1>3. ASSUME LinkDown \/ LinkUp \/ GatewayUp \/ GatewayDown PROVE flush' = flush
  BY <1>3 DEF LinkDown, LinkUp, GatewayUp, GatewayDown, memory
<1>4. ASSUME UNCHANGED vars PROVE flush' = flush
  BY <1>4 DEF vars, memory
<1>5. ASSUME FlushFails \/ Crash PROVE flush' = IdleFlush
  BY <1>5 DEF FlushFails, Crash, FlushOff
<1> QED
  BY <1>1, <1>2, <1>3, <1>4, <1>5 DEF Next, FlushStep

\* What a step does to the tasks.
LEMMA TaskMoves ==
  ASSUME [Next]_vars
  PROVE  \/ tasks' = tasks
         \/ \E m \in Msg : Receive(m) \/ TaskSent(m) \/ TaskFails(m)
         \/ Crash
<1>1. ASSUME NEW m \in Msg, SendOverSocket(m) \/ Handler(m) \/ QueueTime(m) \/ GatewayAccepts(m)
      PROVE  tasks' = tasks
  BY <1>1 DEF SendOverSocket, Handler, QueueTime, memory, GatewayAccepts
<1>2. ASSUME PollPull \/ PollPullLost \/ PollStep PROVE tasks' = tasks
  BY <1>2 DEF PollPull, PollPullLost, memory, PollStep, PollStart, PollSent, PollSendFails,
              PollAcked, PollAckRefused, PollAckLost, PollAckUnsent
<1>3. ASSUME FlushStep \/ LinkDown \/ LinkUp \/ GatewayUp \/ GatewayDown PROVE tasks' = tasks
  BY <1>3 DEF FlushStep, FlushStart, FlushSends, FlushShift, FlushFails,
              LinkDown, LinkUp, GatewayUp, GatewayDown, memory
<1>4. ASSUME UNCHANGED vars PROVE tasks' = tasks
  BY <1>4 DEF vars, memory
<1> QED
  BY <1>1, <1>2, <1>3, <1>4 DEF Next, SocketStep

\* What a step does to the connections and the socket.
LEMMA WireMoves ==
  ASSUME [Next]_vars
  PROVE  /\ link' = link \/ link' \in BOOLEAN
         /\ gateway' = gateway \/ gateway' \in BOOLEAN
         /\ \/ wire' = wire
            \/ \E m \in Msg : wire' = wire \cup {m}
            \/ \E m \in Msg : Receive(m)
            \/ LinkDown
            \/ Crash
<1>1. ASSUME NEW m \in Msg, Handler(m) \/ QueueTime(m) \/ TaskSent(m) \/ TaskFails(m) \/ GatewayAccepts(m)
      PROVE  UNCHANGED <<link, gateway, wire>>
  BY <1>1 DEF Handler, QueueTime, TaskSent, TaskFails, GatewayAccepts
<1>2. ASSUME NEW m \in Msg, SendOverSocket(m) PROVE UNCHANGED <<link, gateway>> /\ wire' = wire \cup {m}
  BY <1>2 DEF SendOverSocket
<1>3. ASSUME NEW m \in Msg, Receive(m) PROVE UNCHANGED <<link, gateway>>
  BY <1>3 DEF Receive
<1>4. ASSUME PollPull \/ PollPullLost \/ PollStep PROVE UNCHANGED <<link, gateway, wire>>
  BY <1>4 DEF PollPull, PollPullLost, PollStep, PollStart, PollSent, PollSendFails,
              PollAcked, PollAckRefused, PollAckLost, PollAckUnsent
<1>5. ASSUME FlushStep PROVE UNCHANGED <<link, gateway, wire>>
  BY <1>5 DEF FlushStep, FlushStart, FlushSends, FlushShift, FlushFails
<1>6. ASSUME LinkUp \/ GatewayUp \/ GatewayDown
      PROVE  /\ link' = link \/ link' \in BOOLEAN
             /\ gateway' = gateway \/ gateway' \in BOOLEAN
             /\ wire' = wire
  BY <1>6 DEF LinkUp, GatewayUp, GatewayDown
<1>7. ASSUME LinkDown \/ Crash
      PROVE  link' = FALSE /\ (gateway' = gateway \/ gateway' \in BOOLEAN)
  BY <1>7 DEF LinkDown, Crash
<1>8. ASSUME UNCHANGED vars PROVE UNCHANGED <<link, gateway, wire>>
  BY <1>8 DEF vars
<1> QED
  BY <1>1, <1>2, <1>3, <1>4, <1>5, <1>6, <1>7, <1>8 DEF Next, SocketStep

\* The parts of the type invariant that are about the memories.
ReplayTyped ==
    /\ replay \in Seq(Msg) /\ Len(replay) <= MaxReplay
    /\ replayIds \subseteq Msg
    /\ replayed \in Seq(Msg) /\ Len(replayed) <= MaxTracked

DMsTyped == dms \in Seq(DM) /\ Len(dms) <= MaxTracked

FlushTyped == flush \in [pc : {"off", "sending", "sent"}, head : Msg \cup {Null}] /\ FlushHasHead

LEMMA TypeParts ==
  TypeInv <=> /\ Queue!TypeOK /\ PollerTyped /\ JobsHeld
              /\ link \in BOOLEAN /\ gateway \in BOOLEAN
              /\ wire \subseteq Msg /\ got \subseteq Msg /\ tasks \subseteq Msg
              /\ FlushTyped /\ ReplayTyped /\ DMsTyped
BY DEF TypeInv, TypeOK, PollerTyped, FlushTyped, ReplayTyped, DMsTyped

LEMMA EmptyMemories ==
  ASSUME NEW S
  PROVE  <<>> \in Seq(S) /\ Len(<<>>) = 0 /\ ToSet(<<>>) = {}
BY EmptySeq, LenProperties DEF ToSet

LEMMA DMsTypedStep ==
  ASSUME TypeInv, [Next]_vars
  PROVE  DMsTyped'
<1>1. DMsTyped
  BY TypeParts
<1>2. CASE dms' = dms
  BY <1>1, <1>2 DEF DMsTyped
<1>3. CASE dms' = <<>>
  BY <1>3, EmptyMemories, BridgeAssumption DEF DMsTyped
<1>4. ASSUME NEW m \in DM, dms' = Remember(dms, m) PROVE DMsTyped'
  BY <1>1, <1>4, Remembered DEF DMsTyped
<1> QED
  BY <1>2, <1>3, <1>4, DMMoves

LEMMA ReplayTypedStep ==
  ASSUME TypeInv, [Next]_vars
  PROVE  ReplayTyped'
<1>1. ReplayTyped /\ FlushTyped
  BY TypeParts
<1>0. Len(replay) \in Nat /\ MaxReplay \in Nat \ {0}
  BY <1>1, LenProperties, BridgeAssumption DEF ReplayTyped
<1>2. CASE UNCHANGED <<replay, replayIds, replayed>>
  BY <1>1, <1>2 DEF ReplayTyped
<1>3. ASSUME NEW m \in Msg, TaskFails(m) PROVE ReplayTyped'
  <2>1. QueueForReplay(m) /\ replayed' = replayed
    BY <1>3 DEF TaskFails
  <2>2. CASE UNCHANGED <<replay, replayIds>>
    BY <1>1, <2>1, <2>2 DEF ReplayTyped
  <2>3. CASE /\ replay' = Append(replay, m) /\ replayIds' = replayIds \cup {m}
             /\ Len(replay) < MaxReplay
    <3>1. replay' \in Seq(Msg) /\ Len(replay') = Len(replay) + 1
      BY <1>1, <2>3, Appended DEF ReplayTyped
    <3> QED
      BY <1>0, <1>1, <2>1, <2>3, <3>1 DEF ReplayTyped
  <2>4. CASE /\ replay # <<>> /\ Len(replay) = MaxReplay
             /\ replay' = Append(Tail(replay), m)
             /\ replayIds' = (replayIds \cup {m}) \ {Head(replay)}
    <3> DEFINE t == Tail(replay)
    <3>1. t \in Seq(Msg) /\ Len(t) = Len(replay) - 1
      BY <1>1, <2>4, Shifted DEF ReplayTyped
    <3>2. replay' = Append(t, m)
      BY <2>4
    <3> HIDE DEF t
    <3>3. replay' \in Seq(Msg) /\ Len(replay') = Len(t) + 1
      BY <3>1, <3>2, Appended
    <3> QED
      BY <1>0, <1>1, <2>1, <2>4, <3>1, <3>3 DEF ReplayTyped
  <2> QED
    BY <1>1, <2>1, <2>2, <2>3, <2>4, Queued DEF ReplayTyped
<1>4. CASE FlushShift
  <2>1. flush.head \in Msg
    BY <1>1, <1>4 DEF FlushShift, FlushTyped, FlushHasHead
  <2>2. replayed' \in Seq(Msg) /\ Len(replayed') <= MaxTracked
    BY <1>1, <1>4, <2>1, Remembered DEF FlushShift, ReplayTyped
  <2>3. replayIds' \subseteq Msg
    BY <1>1, <1>4 DEF FlushShift, Unqueued, ReplayTyped
  <2>4. replay' \in Seq(Msg) /\ Len(replay') <= MaxReplay
    <3>1. CASE replay = <<>>
      BY <1>1, <1>4, <3>1 DEF FlushShift, ReplayTyped
    <3>2. CASE replay # <<>>
      <4>1. replay' = Tail(replay)
        BY <1>4, <3>2 DEF FlushShift
      <4>2. Tail(replay) \in Seq(Msg) /\ Len(Tail(replay)) = Len(replay) - 1
        BY <1>1, <3>2, Shifted DEF ReplayTyped
      <4> QED
        BY <1>0, <1>1, <4>1, <4>2 DEF ReplayTyped
    <3> QED
      BY <3>1, <3>2
  <2> QED
    BY <2>2, <2>3, <2>4 DEF ReplayTyped
<1>5. CASE Crash
  BY <1>0, <1>5, EmptyMemories, BridgeAssumption DEF Crash, ReplayTyped
<1> QED
  BY <1>2, <1>3, <1>4, <1>5, ReplayMoves

\* The flush goes on with the head of the replay queue.
LEMMA FlushHeadTyped ==
  ASSUME NEW q \in Seq(Msg)
  PROVE  /\ FlushHead(q) \in [pc : {"off", "sending", "sent"}, head : Msg \cup {Null}]
         /\ FlushHead(q).pc # "off" => q # <<>> /\ FlushHead(q).head = Head(q) /\ FlushHead(q).head \in Msg
         /\ FlushHead(q).pc = "sent" => Dup(Head(q))
         /\ FlushHead(q).pc = "sending" => ~ Dup(Head(q))
<1>1. CASE q = <<>>
  BY <1>1 DEF FlushHead, IdleFlush
<1>2. CASE q # <<>>
  <2>1. Head(q) \in Msg
    BY <1>2, Shifted
  <2> QED
    BY <1>2, <2>1 DEF FlushHead
<1> QED
  BY <1>1, <1>2

LEMMA FlushTypedStep ==
  ASSUME TypeInv, [Next]_vars
  PROVE  FlushTyped'
<1>1. FlushTyped /\ ReplayTyped
  BY TypeParts
<1>2. CASE flush' = flush
  BY <1>1, <1>2 DEF FlushTyped, FlushHasHead
<1>3. CASE FlushStart
  BY <1>1, <1>3, FlushHeadTyped DEF FlushStart, ReplayTyped, FlushTyped, FlushHasHead
<1>4. CASE FlushSends
  BY <1>1, <1>4 DEF FlushSends, FlushTyped, FlushHasHead
<1>5. CASE FlushShift
  <2>1. replay' \in Seq(Msg)
    BY ReplayTypedStep DEF ReplayTyped
  <2>2. flush' = FlushHead(replay') /\ dms' = dms
    BY <1>5 DEF FlushShift
  <2> QED
    BY <2>1, <2>2, FlushHeadTyped DEF FlushTyped, FlushHasHead
<1>6. CASE flush' = IdleFlush
  BY <1>6 DEF IdleFlush, FlushTyped, FlushHasHead
<1> QED
  BY <1>2, <1>3, <1>4, <1>5, <1>6, FlushMoves

LEMMA SetsTypedStep ==
  ASSUME TypeInv, [Next]_vars
  PROVE  /\ link' \in BOOLEAN /\ gateway' \in BOOLEAN
         /\ wire' \subseteq Msg /\ tasks' \subseteq Msg
<1>1. /\ link \in BOOLEAN /\ gateway \in BOOLEAN
      /\ wire \subseteq Msg /\ tasks \subseteq Msg
  BY TypeParts
<1>2. \A m \in Msg : Receive(m) => wire' \subseteq wire /\ tasks' \subseteq tasks \cup {m}
  BY DEF Receive
<1>3. \A m \in Msg : TaskSent(m) \/ TaskFails(m) => tasks' \subseteq tasks
  BY DEF TaskSent, TaskFails
<1>4. Crash \/ LinkDown => wire' = {}
  BY DEF Crash, LinkDown
<1>5. Crash => tasks' = {}
  BY DEF Crash
<1> QED
  BY <1>1, <1>2, <1>3, <1>4, <1>5, WireMoves, TaskMoves

LEMMA TypeInvStep == TypeInv /\ [Next]_vars => TypeInv'
<1> SUFFICES ASSUME TypeInv, [Next]_vars PROVE TypeInv'
  OBVIOUS
<1>1. Queue!TypeOK /\ PollerTyped /\ JobsHeld
  BY TypeParts
<1>2. Queue!TypeOK'
  BY <1>1, QueueStep, QueueTypeStep
<1>3. PollerTyped' /\ JobsHeld'
  BY <1>1, PollerTypedStep
<1>4. got' \subseteq Msg
  BY GotGrows
<1>5. FlushTyped' /\ ReplayTyped' /\ DMsTyped'
  BY FlushTypedStep, ReplayTypedStep, DMsTypedStep
<1> QED
  BY <1>2, <1>3, <1>4, <1>5, SetsTypedStep
     DEF TypeInv, TypeOK, PollerTyped, FlushTyped, ReplayTyped, DMsTyped

LEMMA TypeInvInit == Init => TypeInv
<1> SUFFICES ASSUME Init PROVE TypeInv
  OBVIOUS
<1>1. Queue!TypeOK
  BY BridgeAssumption DEF Init, Queue!Init, Queue!TypeOK, Queue!NoRow, Queue!Row, Queue!RowStatus,
                          Queue!ProducerState
<1>2. PollerTyped /\ JobsHeld
  BY DEF Init, IdlePoller, PollerTyped, JobsHeld
<1>3. ReplayTyped /\ DMsTyped
  BY EmptyMemories, BridgeAssumption DEF Init, ReplayTyped, DMsTyped
<1>4. FlushTyped
  BY DEF Init, IdleFlush, FlushTyped, FlushHasHead
<1>5. /\ link \in BOOLEAN /\ gateway \in BOOLEAN
      /\ wire \subseteq Msg /\ got \subseteq Msg /\ tasks \subseteq Msg
  BY DEF Init
<1> QED
  BY <1>1, <1>2, <1>3, <1>4, <1>5, TypeParts

\* The memory of the bridge keeps its types and its limits, with whatever else
\* the two paths, the gateway and the socket do: the replay queue and the two
\* memories of delivered ids never grow beyond their limits.
THEOREM MemoryIsBounded == Spec => []TypeOK
<1>1. TypeInv => TypeOK
  BY DEF TypeInv
<1> QED
  BY <1>1, TypeInvInit, TypeInvStep, PTL DEF Spec

\* The bridge keeps to the protocol of the queue: whatever it does, loses or
\* repeats, with restarts in between, is what the endpoints allow a bridge to do.
THEOREM BridgeServesQueue == Spec => Queue!Spec
<1>1. Init => Queue!Init
  BY DEF Init
<1>2. TypeInv /\ [Next]_vars => [Queue!Next]_(Queue!qvars)
  BY QueueStep, TypeParts DEF qvars, Queue!qvars
<1> QED
  BY <1>1, <1>2, TypeInvInit, TypeInvStep, PTL DEF Spec, Queue!Spec

\* So what the queue guarantees against any bridge it guarantees against this
\* one: no acknowledgement takes effect twice, too late or against a delivery.
THEOREM BridgeClaimsAreSafe == Spec => []Queue!ClaimInv
<1>1. QueueTheorems!Spec => []QueueTheorems!ClaimInv
  BY QueueTheorems!ClaimsAreSafe, BridgeAssumption
<1> QED
  BY <1>1, BridgeServesQueue, SameSpec, SameClaimInv, PTL

-----------------------------------------------------------------------------
(* Direct messages are not sent again *)

LEMMA KnownIsDup == TypeInv => \A m \in ToSet(dms) : Dup(m)
<1> SUFFICES ASSUME TypeInv, NEW m \in ToSet(dms) PROVE m \in DM
  BY DEF Dup
<1>1. dms \in Seq(DM)
  BY TypeParts DEF DMsTyped
<1> QED
  BY <1>1, LenProperties DEF ToSet

LEMMA NoNewSender ==
  ASSUME TypeInv, [Next]_vars, NEW m \in ToSet(dms)
  PROVE  Senders(m)' \subseteq Senders(m)
<1>0. Dup(m)
  BY KnownIsDup
<1>1. ASSUME m \in tasks' PROVE m \in tasks
  <2>1. \A n \in Msg : Receive(n) => m \in tasks
    BY <1>0, <1>1 DEF Receive
  <2>2. \A n \in Msg : TaskSent(n) \/ TaskFails(n) => m \in tasks
    BY <1>1 DEF TaskSent, TaskFails
  <2>3. Crash => m \in tasks
    BY <1>1 DEF Crash
  <2> QED
    BY <1>1, <2>1, <2>2, <2>3, TaskMoves
<1>2. ASSUME poller'.pc = "sending", poller'.job.msg = m
      PROVE  poller' = poller
  <2>1. PollerTyped
    BY TypeParts
  <2>2. ~ PollPull
    BY <1>2 DEF PollPull, PollNext
  <2>3. ~ PollStart
    BY <1>0, <1>2 DEF PollStart
  <2>4. ~ PollSent /\ ~ PollSendFails
    BY <1>2, <2>1 DEF PollSent, PollSendFails, PollerTyped
  <2>5. poller.pc \in {"ack", "nack"} => poller' \notin {PollNext(poller.batch), AfterRefusal}
    BY <1>2, <2>1 DEF PollerTyped, PollNext, AfterRefusal
  <2>6. poller' # IdlePoller
    BY <1>2 DEF IdlePoller
  <2> QED
    BY <2>2, <2>3, <2>4, <2>5, <2>6, PollerMoves
<1>3. ASSUME flush'.pc = "sending", flush'.head = m
      PROVE  flush' = flush
  <2>1. FlushTyped /\ replay \in Seq(Msg) /\ replay' \in Seq(Msg)
    BY TypeParts, ReplayTypedStep DEF ReplayTyped
  <2>2. ~ FlushStart
    BY <1>0, <1>3, <2>1, FlushHeadTyped DEF FlushStart
  <2>3. ~ FlushSends
    BY <1>3, <2>1 DEF FlushSends, FlushTyped
  <2>4. ~ FlushShift
    BY <1>0, <1>3, <2>1, FlushHeadTyped DEF FlushShift
  <2>5. flush' # IdleFlush
    BY <1>3 DEF IdleFlush
  <2> QED
    BY <2>2, <2>3, <2>4, <2>5, FlushMoves
<1> QED
  BY <1>1, <1>2, <1>3 DEF Senders

\* A direct message that arrives on both paths is sent once: while the bridge
\* remembers it as sent, neither the socket nor the poller nor the flush of the
\* replay queue begins another send of it.
THEOREM DMsAreSentOnce == Spec => SentDMsAreNotResent
<1>1. TypeInv /\ [Next]_vars =>
        [\A m \in ToSet(dms) \cap ToSet(dms') : Senders(m)' \subseteq Senders(m)]_vars
  BY NoNewSender
<1> QED
  BY <1>1, TypeInvInit, TypeInvStep, PTL DEF Spec, SentDMsAreNotResent

-----------------------------------------------------------------------------
(* What counts as delivered the gateway has accepted *)

\* What the bridge remembers as sent the gateway has accepted.
SentIsAccepted ==
    /\ ToSet(dms) \subseteq got /\ ToSet(replayed) \subseteq got
    /\ flush.pc = "sent" => flush.head \in got
    /\ poller.pc = "ack" => poller.job.msg \in got

LEMMA DMsAccepted ==
  ASSUME TypeInv, SentIsAccepted, [Next]_vars
  PROVE  ToSet(dms') \subseteq got'
<1>1. got \subseteq got' /\ ToSet(dms) \subseteq got
  BY GotGrows DEF SentIsAccepted
<1>2. dms \in Seq(DM) /\ Len(dms) <= MaxTracked
  BY TypeParts DEF DMsTyped
<1>3. \A m \in DM : ToSet(Remember(dms, m)) \subseteq ToSet(dms) \cup {m}
  BY <1>2, Remembered
<1>4. ToSet(<<>>) = {}
  BY EmptyMemories
<1> QED
  BY <1>1, <1>3, <1>4, DMMoves

LEMMA FlushAccepted ==
  ASSUME TypeInv, SentIsAccepted, [Next]_vars
  PROVE  flush'.pc = "sent" => flush'.head \in got'
<1>1. got \subseteq got' /\ ToSet(dms) \subseteq got
  BY GotGrows DEF SentIsAccepted
<1>2. FlushTyped /\ replay \in Seq(Msg) /\ replay' \in Seq(Msg)
  BY TypeParts, ReplayTypedStep DEF ReplayTyped
<1>3. \A q \in Seq(Msg) : FlushHead(q).pc = "sent" => FlushHead(q).head \in got
  <2>1. ASSUME NEW q \in Seq(Msg), FlushHead(q).pc = "sent" PROVE FlushHead(q).head \in got
    BY <1>1, <2>1, FlushHeadTyped DEF Dup
  <2> QED
    BY <2>1
<1>4. CASE flush' = flush
  BY <1>1, <1>4 DEF SentIsAccepted
<1>5. CASE FlushStart \/ FlushShift
  BY <1>1, <1>2, <1>3, <1>5 DEF FlushStart, FlushShift
<1>6. CASE FlushSends
  BY <1>2, <1>6 DEF FlushSends, GatewayAnswers, FlushTyped
<1>7. CASE flush' = IdleFlush
  BY <1>7 DEF IdleFlush
<1> QED
  BY <1>4, <1>5, <1>6, <1>7, FlushMoves

LEMMA ReplayedAccepted ==
  ASSUME TypeInv, SentIsAccepted, [Next]_vars
  PROVE  ToSet(replayed') \subseteq got'
<1>1. got \subseteq got' /\ ToSet(replayed) \subseteq got
  BY GotGrows DEF SentIsAccepted
<1>2. \A m \in Msg : TaskFails(m) => replayed' = replayed
  BY DEF TaskFails
<1>3. CASE FlushShift
  <2>1. flush.head \in got /\ flush.head \in Msg /\ replayed' = Remember(replayed, flush.head)
    BY <1>3, TypeParts DEF FlushShift, SentIsAccepted, FlushTyped, FlushHasHead
  <2>2. replayed \in Seq(Msg) /\ Len(replayed) <= MaxTracked
    BY TypeParts DEF ReplayTyped
  <2>3. ToSet(replayed') \subseteq ToSet(replayed) \cup {flush.head}
    BY <2>1, <2>2, Remembered
  <2> QED
    BY <1>1, <2>1, <2>3
<1>4. CASE Crash
  BY <1>4, EmptyMemories DEF Crash
<1> QED
  BY <1>1, <1>2, <1>3, <1>4, ReplayMoves

\* What a step does to a poller that comes to acknowledge a message as sent.
LEMMA PollerAccepted ==
  ASSUME TypeInv, SentIsAccepted, [Next]_vars
  PROVE  poller'.pc = "ack" => poller'.job.msg \in got'
<1> SUFFICES ASSUME poller'.pc = "ack" PROVE poller'.job.msg \in got'
  OBVIOUS
<1>1. got \subseteq got' /\ ToSet(dms) \subseteq got /\ PollerTyped
  BY GotGrows, TypeParts DEF SentIsAccepted
<1>2. CASE poller' = poller
  BY <1>1, <1>2 DEF SentIsAccepted
<1>3. CASE PollPull
  BY <1>3 DEF PollPull, PollNext
<1>4. CASE PollStart
  BY <1>1, <1>4 DEF PollStart, Dup
<1>5. CASE PollSent
  BY <1>1, <1>5 DEF PollSent, GatewayAnswers, PollerTyped
<1>6. ASSUME poller' = [poller EXCEPT !.pc = "nack"] PROVE FALSE
  BY <1>1, <1>6 DEF PollerTyped
<1>7. ASSUME poller' = PollNext(poller.batch) PROVE FALSE
  BY <1>7 DEF PollNext
<1>8. ASSUME poller' = IdlePoller PROVE FALSE
  BY <1>8 DEF IdlePoller
<1>9. PollSendFails => poller' = [poller EXCEPT !.pc = "nack"]
  BY DEF PollSendFails
<1>10. poller' = AfterRefusal => poller' \in {[poller EXCEPT !.pc = "nack"], PollNext(poller.batch)}
  BY DEF AfterRefusal
<1> QED
  BY <1>2, <1>3, <1>4, <1>5, <1>6, <1>7, <1>8, <1>9, <1>10, PollerMoves

LEMMA AcceptedStep == TypeInv /\ SentIsAccepted /\ [Next]_vars => SentIsAccepted'
BY DMsAccepted, FlushAccepted, ReplayedAccepted, PollerAccepted DEF SentIsAccepted

\* What a step of the bridge adds to the acknowledgements.
LEMMA AckedMoves ==
  ASSUME TypeInv, [Next]_vars
  PROVE  \/ acked' = acked
         \/ /\ poller.pc \in {"ack", "nack"}
            /\ acked' = acked \cup {[msg |-> poller.job.msg, token |-> poller.job.token, result |-> Result]}
<1>1. \A m \in Msg : Queue!ProducerStep(m) => acked' = acked
  BY DEF Queue!ProducerStep, Queue!Enqueue, Queue!EnqueueFails, Queue!SendOK, Queue!SendFails,
         Queue!MarkDelivered, Queue!ProducerStops, Queue!ProduceAgain
<1>2. \A m \in Msg : Queue!TimeStep(m) => acked' = acked
  BY DEF Queue!TimeStep, Queue!BackoffEnds, Queue!ClaimExpires
<1>3. Queue!Pull => acked' = acked
  BY DEF Queue!Pull, Queue!PullFrom, Queue!ClaimRows
<1>4. UNCHANGED qvars => acked' = acked
  BY DEF qvars
<1>5. PollerAcks => /\ poller.pc \in {"ack", "nack"}
                    /\ acked' = acked \cup {[msg |-> poller.job.msg, token |-> poller.job.token, result |-> Result]}
  BY DEF PollerAcks, Queue!Ack
<1> QED
  BY <1>1, <1>2, <1>3, <1>4, <1>5, QueueMoves

LEMMA AckedStep == TypeInv /\ SentIsAccepted /\ AckedIsAccepted /\ [Next]_vars => AckedIsAccepted'
<1> SUFFICES ASSUME TypeInv, SentIsAccepted, AckedIsAccepted, [Next]_vars,
                    NEW a \in acked', a.result = "ok"
             PROVE  a.msg \in got'
  BY DEF AckedIsAccepted
<1>1. got \subseteq got'
  BY GotGrows
<1>2. CASE a \in acked
  BY <1>1, <1>2 DEF AckedIsAccepted
<1>3. CASE a \notin acked
  <2>1. poller.pc \in {"ack", "nack"} /\ a = [msg |-> poller.job.msg, token |-> poller.job.token, result |-> Result]
    BY <1>3, AckedMoves
  <2>2. poller.pc = "ack"
    BY <2>1 DEF Result
  <2> QED
    BY <1>1, <2>1, <2>2 DEF SentIsAccepted
<1> QED
  BY <1>2, <1>3

-----------------------------------------------------------------------------
(* The replay queue *)

\* No message has to go into a full replay queue while a flush is under way.
\* (When one does, the flush removes a message that it has not sent.)
NoOverflowInFlush ==
    flush.pc # "off" /\ Len(replay) = MaxReplay => tasks \subseteq replayIds \cup ToSet(replayed)

\* What is queued for replay is queued once, and a flush sends the head.
ReplayInv ==
    /\ replayIds = ToSet(replay) /\ Distinct(replay)
    /\ flush.pc # "off" => replay # <<>> /\ flush.head = Head(replay)

LEMMA TaskFailsReplay ==
  ASSUME TypeInv, ReplayInv, NoOverflowInFlush, NEW m \in Msg, TaskFails(m)
  PROVE  ReplayInv'
<1>1. replay \in Seq(Msg) /\ Len(replay) <= MaxReplay
  BY TypeParts DEF ReplayTyped
<1>2. m \in tasks /\ QueueForReplay(m) /\ flush' = flush
  BY DEF TaskFails
<1>3. CASE UNCHANGED <<replay, replayIds>>
  BY <1>2, <1>3 DEF ReplayInv
<1>4. CASE /\ m \notin replayIds
           /\ replay' = Append(replay, m) /\ replayIds' = replayIds \cup {m}
  <2>1. /\ ToSet(replay') = ToSet(replay) \cup {m} /\ Distinct(replay')
        /\ replay' # <<>>
        /\ replay # <<>> => Head(replay') = Head(replay)
    BY <1>1, <1>4, Appended DEF ReplayInv
  <2> QED
    BY <1>2, <1>4, <2>1 DEF ReplayInv
<1>5. CASE /\ m \notin replayIds \cup ToSet(replayed)
           /\ replay # <<>> /\ Len(replay) = MaxReplay
           /\ replay' = Append(Tail(replay), m)
           /\ replayIds' = (replayIds \cup {m}) \ {Head(replay)}
  <2> DEFINE t == Tail(replay)
  <2>1. flush.pc = "off"
    BY <1>2, <1>5 DEF NoOverflowInFlush
  <2>2. /\ t \in Seq(Msg) /\ Distinct(t)
        /\ ToSet(replay) = {Head(replay)} \cup ToSet(t) /\ Head(replay) \notin ToSet(t)
    BY <1>1, <1>5, Shifted DEF ReplayInv
  <2>3. replay' = Append(t, m)
    BY <1>5
  <2> HIDE DEF t
  <2>4. m \notin ToSet(t) /\ m # Head(replay)
    BY <1>5, <2>2 DEF ReplayInv
  <2>5. ToSet(replay') = ToSet(t) \cup {m} /\ Distinct(replay')
    BY <2>2, <2>3, <2>4, Appended
  <2> QED
    BY <1>2, <1>5, <2>1, <2>2, <2>4, <2>5 DEF ReplayInv
<1> QED
  BY <1>1, <1>2, <1>3, <1>4, <1>5, Queued

\* The head of the queue is what the flush has sent.
LEMMA ShiftedHead ==
  ASSUME TypeInv, ReplayInv, FlushShift
  PROVE  /\ replay # <<>> /\ flush.head = Head(replay) /\ replay' = Tail(replay)
         /\ replay' \in Seq(Msg) /\ Distinct(replay')
         /\ ToSet(replay) = {flush.head} \cup ToSet(replay') /\ flush.head \notin ToSet(replay')
<1>1. replay # <<>> /\ flush.head = Head(replay) /\ replay' = Tail(replay)
  BY DEF FlushShift, ReplayInv
<1>2. replay \in Seq(Msg) /\ Distinct(replay)
  BY TypeParts DEF ReplayTyped, ReplayInv
<1> QED
  BY <1>1, <1>2, Shifted

LEMMA ReplayInvStep == TypeInv /\ ReplayInv /\ NoOverflowInFlush /\ [Next]_vars => ReplayInv'
<1> SUFFICES ASSUME TypeInv, ReplayInv, NoOverflowInFlush, [Next]_vars PROVE ReplayInv'
  OBVIOUS
<1>1. ASSUME NEW m \in Msg, TaskFails(m) PROVE ReplayInv'
  BY <1>1, TaskFailsReplay
<1>2. CASE FlushShift
  <2>1. /\ replay' \in Seq(Msg) /\ Distinct(replay')
        /\ ToSet(replay) = {flush.head} \cup ToSet(replay') /\ flush.head \notin ToSet(replay')
    BY <1>2, ShiftedHead
  <2>2. replayIds' = replayIds \ {flush.head} /\ flush' = FlushHead(replay')
    BY <1>2 DEF FlushShift, Unqueued
  <2>3. flush'.pc # "off" => replay' # <<>> /\ flush'.head = Head(replay')
    BY <2>1, <2>2, FlushHeadTyped
  <2>4. replayIds' = ToSet(replay')
    BY <2>1, <2>2 DEF ReplayInv
  <2> QED
    BY <2>1, <2>3, <2>4 DEF ReplayInv
<1>3. CASE Crash
  <2>1. replay' = <<>> /\ replayIds' = {} /\ flush'.pc = "off"
    BY <1>3 DEF Crash, IdleFlush
  <2>2. ToSet(replay') = {} /\ Len(replay') = 0
    BY <2>1, EmptyMemories
  <2>3. Distinct(replay')
    BY <2>2 DEF Distinct
  <2> QED
    BY <2>1, <2>2, <2>3 DEF ReplayInv
<1>4. CASE UNCHANGED <<replay, replayIds, replayed>> /\ ~ FlushShift
  <2>1. CASE flush' = flush
    BY <1>4, <2>1 DEF ReplayInv
  <2>2. CASE FlushStart
    <3>1. replay \in Seq(Msg)
      BY TypeParts DEF ReplayTyped
    <3>2. flush'.pc # "off" => replay # <<>> /\ flush'.head = Head(replay)
      BY <2>2, <3>1, FlushHeadTyped DEF FlushStart
    <3> QED
      BY <1>4, <3>2 DEF ReplayInv
  <2>3. CASE FlushSends
    <3>1. flush.pc # "off" /\ flush'.head = flush.head
      BY <2>3, TypeParts DEF FlushSends, FlushTyped
    <3> QED
      BY <1>4, <3>1 DEF ReplayInv
  <2>4. CASE flush' = IdleFlush
    BY <1>4, <2>4 DEF ReplayInv, IdleFlush
  <2> QED
    BY <1>4, <2>1, <2>2, <2>3, <2>4, FlushMoves
<1> QED
  BY <1>1, <1>2, <1>3, <1>4, ReplayMoves

LEMMA ReplayInvInit == Init => ReplayInv
<1> SUFFICES ASSUME Init PROVE ReplayInv
  OBVIOUS
<1>1. replay = <<>> /\ replayIds = {} /\ flush.pc = "off"
  BY DEF Init, IdleFlush
<1>2. ToSet(replay) = {} /\ Len(replay) = 0
  BY <1>1, EmptyMemories
<1> QED
  BY <1>1, <1>2 DEF ReplayInv, Distinct

\* The set of queued ids and the replay queue agree, so that no message is kept
\* out by an id that stayed behind, unless the queue overflows during a flush.
THEOREM MemoryStaysSound == Spec /\ []NoOverflowInFlush => []MemoryIsSound
<1>1. TypeInv /\ ReplayInv => MemoryIsSound
  <2> SUFFICES ASSUME TypeInv, ReplayInv PROVE MemoryIsSound
    OBVIOUS
  <2>1. replay \in Seq(Msg) /\ TypeOK
    BY TypeParts DEF ReplayTyped, TypeInv
  <2>2. Cardinality(ToSet(replay)) = Len(replay)
    BY <2>1, DistinctCounts DEF ReplayInv
  <2> QED
    BY <2>1, <2>2 DEF MemoryIsSound, ReplayIdsMatch, ReplayInv
<1> QED
  BY <1>1, TypeInvInit, TypeInvStep, ReplayInvInit, ReplayInvStep, PTL DEF Spec

LEMMA LeavesInOrder ==
  ASSUME TypeInv, ReplayInv, [Next]_vars, NEW m \in ToSet(replay) \ ToSet(replay')
  PROVE  \/ m \in ToSet(replayed')
         \/ m = Head(replay) /\ Len(replay) = MaxReplay /\ Len(replay') = MaxReplay
         \/ replay' = <<>> /\ ~ gateway'
<1>1. /\ replay \in Seq(Msg) /\ Len(replay) <= MaxReplay
      /\ replayed \in Seq(Msg) /\ Len(replayed) <= MaxTracked
  BY TypeParts DEF ReplayTyped
<1>2. ASSUME NEW n \in Msg, TaskFails(n)
      PROVE  m = Head(replay) /\ Len(replay) = MaxReplay /\ Len(replay') = MaxReplay
  <2>1. replay' # replay
    OBVIOUS
  <2>2. replay' # Append(replay, n)
    <3>1. replay' = Append(replay, n) => ToSet(replay') = ToSet(replay) \cup {n}
      BY <1>1, Appended
    <3> QED
      BY <3>1
  <2>3. replay # <<>> /\ Len(replay) = MaxReplay /\ replay' = Append(Tail(replay), n)
    BY <1>1, <1>2, <2>1, <2>2, Queued DEF TaskFails
  <2> DEFINE t == Tail(replay)
  <2>4. /\ t \in Seq(Msg) /\ Len(t) = Len(replay) - 1 /\ Len(replay) \in Nat \ {0}
        /\ ToSet(replay) = {Head(replay)} \cup ToSet(t)
    BY <1>1, <2>3, Shifted
  <2>5. replay' = Append(t, n)
    BY <2>3
  <2> HIDE DEF t
  <2>6. ToSet(replay') = ToSet(t) \cup {n} /\ Len(replay') = Len(t) + 1
    BY <2>4, <2>5, Appended
  <2> QED
    BY <2>3, <2>4, <2>6
<1>3. ASSUME FlushShift PROVE m \in ToSet(replayed')
  <2>1. m = flush.head /\ flush.head \in Msg
    BY <1>3, ShiftedHead, TypeParts DEF FlushTyped, FlushHasHead, FlushShift
  <2> QED
    BY <1>1, <1>3, <2>1, Remembered DEF FlushShift
<1>4. ASSUME Crash PROVE replay' = <<>> /\ ~ gateway'
  BY <1>4 DEF Crash
<1> QED
  BY <1>2, <1>3, <1>4, ReplayMoves

\* A message leaves the replay queue because it was sent, as the oldest of a
\* full queue, or with the process, unless the queue overflows during a flush:
\* the counterexample of the code is exactly such an overflow.
THEOREM ReplayInOrder == Spec /\ []NoOverflowInFlush => ReplayLeavesInOrder
<1>1. TypeInv /\ ReplayInv /\ [Next]_vars =>
        [\A m \in ToSet(replay) \ ToSet(replay') :
           \/ m \in ToSet(replayed')
           \/ m = Head(replay) /\ Len(replay) = MaxReplay /\ Len(replay') = MaxReplay
           \/ replay' = <<>> /\ ~ gateway']_vars
  BY LeavesInOrder
<1> QED
  BY <1>1, TypeInvInit, TypeInvStep, ReplayInvInit, ReplayInvStep, PTL DEF Spec, ReplayLeavesInOrder

-----------------------------------------------------------------------------
(* A message marked delivered is in hand *)

\* No message has to go into a full replay queue.
NoOverflow == Len(replay) = MaxReplay => tasks \subseteq replayIds \cup ToSet(replayed)

\* The bridge has not restarted and has not lost its socket.
Undisturbed == budget.crashes = MaxCrashes /\ budget.drops = MaxDrops

BudgetKept ==
    /\ budget \in [{"crashes", "drops", "faults"} -> Nat]
    /\ budget.crashes <= MaxCrashes /\ budget.drops <= MaxDrops

InHand(m) == m \in got \cup wire \cup tasks \cup ToSet(replay)

\* Whoever is about to mark a message as delivered has written it to the socket.
WrittenIsInHand ==
    Undisturbed => \A m \in Msg :
        producers[m] = "mark" \/ rows[m].status = "delivered" => InHand(m)

\* The inductive invariant of DeliveriesAreReal.
DeliveryInv ==
    /\ TypeInv /\ ReplayInv /\ SentIsAccepted /\ AckedIsAccepted
    /\ BudgetKept /\ WrittenIsInHand

LEMMA SpendBudget ==
  ASSUME BudgetKept, NEW kind \in {"crashes", "drops", "faults"}, Spend(kind)
  PROVE  /\ BudgetKept'
         /\ kind \in {"crashes", "drops"} => ~ Undisturbed'
         /\ Undisturbed' => Undisturbed
<1>1. /\ budget \in [{"crashes", "drops", "faults"} -> Nat]
      /\ budget[kind] > 0 /\ budget' = [budget EXCEPT ![kind] = @ - 1]
  BY DEF BudgetKept, Spend
<1>2. /\ budget' \in [{"crashes", "drops", "faults"} -> Nat]
      /\ budget'[kind] < budget[kind]
      /\ \A k \in {"crashes", "drops", "faults"} : budget'[k] <= budget[k]
  BY <1>1
<1>3. MaxCrashes \in Nat /\ MaxDrops \in Nat
  BY BridgeAssumption
<1> QED
  BY <1>1, <1>2, <1>3 DEF BudgetKept, Undisturbed

LEMMA BudgetStep ==
  ASSUME BudgetKept, [Next]_vars
  PROVE  /\ BudgetKept'
         /\ LinkDown \/ Crash => ~ Undisturbed'
         /\ Undisturbed' => Undisturbed
<1>1. ASSUME NEW m \in Msg, SendOverSocket(m) \/ Handler(m) \/ QueueTime(m) \/ SocketStep(m) \/ GatewayAccepts(m)
      PROVE  budget' = budget
  BY <1>1 DEF SendOverSocket, Handler, QueueTime, SocketStep, Receive, TaskSent, TaskFails, GatewayAccepts
<1>2. ASSUME PollPull \/ PollStart \/ PollSent \/ PollSendFails \/ PollAcked \/ PollAckRefused
      PROVE  budget' = budget
  BY <1>2 DEF PollPull, PollStart, PollSent, PollSendFails, PollAcked, PollAckRefused
<1>3. ASSUME FlushStep \/ LinkUp \/ GatewayUp \/ GatewayDown PROVE budget' = budget
  BY <1>3 DEF FlushStep, FlushStart, FlushSends, FlushShift, FlushFails, LinkUp, GatewayUp, GatewayDown
<1>4. ASSUME UNCHANGED vars PROVE budget' = budget
  BY <1>4 DEF vars
<1>5. ASSUME PollPullLost \/ PollAckLost \/ PollAckUnsent PROVE Spend("faults")
  BY <1>5 DEF PollPullLost, PollAckLost, PollAckUnsent
<1>6. LinkDown => Spend("drops")
  BY DEF LinkDown
<1>7. Crash => Spend("crashes")
  BY DEF Crash
<1>8. budget' = budget => BudgetKept' /\ (Undisturbed' => Undisturbed)
  BY DEF BudgetKept, Undisturbed
<1>9. LinkDown \/ Crash => BudgetKept' /\ ~ Undisturbed' /\ (Undisturbed' => Undisturbed)
  BY <1>6, <1>7, SpendBudget
<1>10. Spend("faults") => BudgetKept' /\ (Undisturbed' => Undisturbed)
  BY SpendBudget
<1> QED
  BY <1>1, <1>2, <1>3, <1>4, <1>5, <1>8, <1>9, <1>10 DEF Next, PollStep

\* What is in hand stays in hand, as long as nothing is lost.
LEMMA InHandStays ==
  ASSUME TypeInv, ReplayInv, SentIsAccepted, NoOverflow, [Next]_vars, ~ LinkDown, ~ Crash,
         NEW m \in Msg, InHand(m)
  PROVE  InHand(m)'
<1>1. got \subseteq got' /\ replay \in Seq(Msg) /\ Len(replay) <= MaxReplay
  BY GotGrows, TypeParts DEF ReplayTyped
<1>2. m \in got => InHand(m)'
  BY <1>1 DEF InHand
<1>3. ASSUME m \in wire PROVE InHand(m)'
  <2>1. ASSUME NEW n \in Msg, Receive(n) PROVE InHand(m)'
    <3>1. m # n => m \in wire'
      BY <1>3, <2>1 DEF Receive
    <3>2. m = n => m \in got \/ m \in tasks'
      BY <2>1 DEF Receive, Dup, SentIsAccepted
    <3> QED
      BY <1>1, <3>1, <3>2 DEF InHand
  <2> QED
    BY <1>3, <2>1, WireMoves DEF InHand
<1>4. ASSUME NEW n \in Msg, TaskFails(n)
      PROVE  /\ ToSet(replay) \subseteq ToSet(replay') /\ got' = got
             /\ n \in got \cup ToSet(replay')
  <2>1. n \in tasks /\ QueueForReplay(n) /\ got' = got
    BY <1>4 DEF TaskFails
  <2>2. CASE n \in replayIds \cup ToSet(replayed) /\ UNCHANGED <<replay, replayIds>>
    BY <2>1, <2>2 DEF ReplayInv, SentIsAccepted
  <2>3. CASE replay' = Append(replay, n)
    <3>1. ToSet(replay') = ToSet(replay) \cup {n}
      BY <1>1, <2>3, Appended
    <3> QED
      BY <2>1, <3>1
  <2>4. ~ (n \notin replayIds \cup ToSet(replayed) /\ Len(replay) = MaxReplay)
    BY <2>1 DEF NoOverflow
  <2> QED
    BY <1>1, <2>1, <2>2, <2>3, <2>4, Queued
<1>5. ASSUME m \in tasks PROVE InHand(m)'
  <2>1. ASSUME NEW n \in Msg, Receive(n) PROVE m \in tasks'
    BY <1>5, <2>1 DEF Receive
  <2>2. ASSUME NEW n \in Msg, TaskSent(n) PROVE m \in tasks' \cup got'
    BY <1>5, <2>2 DEF TaskSent, GatewayAnswers
  <2>3. ASSUME NEW n \in Msg, TaskFails(n) PROVE m \in tasks' \cup got' \cup ToSet(replay')
    <3>1. m # n => m \in tasks'
      BY <1>5, <2>3 DEF TaskFails
    <3> QED
      BY <2>3, <3>1, <1>1, <1>4
  <2> QED
    BY <1>5, <2>1, <2>2, <2>3, TaskMoves DEF InHand
<1>6. ASSUME m \in ToSet(replay) PROVE InHand(m)'
  <2>1. ASSUME FlushShift PROVE m \in got \cup ToSet(replay')
    <3>1. ToSet(replay) = {flush.head} \cup ToSet(replay')
      BY <2>1, ShiftedHead
    <3>2. flush.head \in got
      BY <2>1 DEF FlushShift, SentIsAccepted
    <3> QED
      BY <1>6, <3>1, <3>2
  <2>2. ASSUME NEW n \in Msg, TaskFails(n) PROVE m \in ToSet(replay')
    BY <1>4, <1>6, <2>2
  <2> QED
    BY <1>1, <1>6, <2>1, <2>2, ReplayMoves DEF InHand
<1> QED
  BY <1>2, <1>3, <1>5, <1>6 DEF InHand

\* A message counts as written because it was written, or as delivered because
\* it was acknowledged.
LEMMA NewlyWritten ==
  ASSUME TypeInv, [Next]_vars, NEW m \in Msg,
         producers'[m] = "mark" \/ rows'[m].status = "delivered"
  PROVE  \/ producers[m] = "mark" \/ rows[m].status = "delivered"
         \/ SendOverSocket(m)
         \/ poller.pc = "ack" /\ poller.job.msg = m
<1>1. rows \in [Msg -> Queue!Row] /\ producers \in [Msg -> Queue!ProducerState]
  BY TypeParts DEF Queue!TypeOK
<1> DEFINE before == producers[m] = "mark" \/ rows[m].status = "delivered"
<1>2. ASSUME NEW n \in Msg, Queue!Enqueue(n) \/ Queue!EnqueueFails(n) \/ Queue!SendFails(n)
                            \/ Queue!ProducerStops(n) \/ Queue!ProduceAgain(n)
      PROVE  before
  <2>1. Queue!Enqueue(n) => before
    BY <1>1 DEF Queue!Enqueue, Queue!Inserted, Queue!NoRow
  <2>2. Queue!EnqueueFails(n) \/ Queue!SendFails(n) \/ Queue!ProducerStops(n) \/ Queue!ProduceAgain(n) => before
    BY <1>1 DEF Queue!EnqueueFails, Queue!SendFails, Queue!ProducerStops, Queue!ProduceAgain
  <2> QED
    BY <1>2, <2>1, <2>2
<1>3. ASSUME NEW n \in Msg, Queue!MarkDelivered(n) PROVE before
  BY <1>1, <1>3 DEF Queue!MarkDelivered
<1>4. ASSUME NEW n \in Msg, SendOverSocket(n) PROVE before \/ SendOverSocket(m)
  <2>1. n # m => producers'[m] = producers[m] /\ rows' = rows
    BY <1>1, <1>4 DEF SendOverSocket, Queue!SendOK
  <2> QED
    BY <1>4, <2>1
<1>5. ASSUME NEW n \in Msg, QueueTime(n) PROVE before
  <2>1. producers' = producers /\ rows'[m].status = rows[m].status
    BY <1>1, <1>5 DEF QueueTime, Queue!TimeStep, Queue!BackoffEnds, Queue!ClaimExpires, Queue!Row
  <2> QED
    BY <2>1
<1>6. ASSUME Queue!Pull PROVE before
  <2>1. PICK picked : Queue!ClaimRows(picked)
    BY <1>6 DEF Queue!Pull, Queue!PullFrom
  <2>2. producers' = producers /\ rows'[m] \in {Queue!Claimed(rows[m], Queue!NewToken(m)), rows[m]}
    BY <2>1 DEF Queue!ClaimRows
  <2>3. Queue!Claimed(rows[m], Queue!NewToken(m)).status = "processing"
    BY <1>1 DEF Queue!Claimed, Queue!Row
  <2> QED
    BY <2>2, <2>3
<1>7. ASSUME PollerAcks PROVE before \/ (poller.pc = "ack" /\ poller.job.msg = m)
  <2>1. /\ producers' = producers
        /\ rows' = [rows EXCEPT ![poller.job.msg] =
                       IF Result = "ok" THEN Queue!MarkedDelivered(@) ELSE Queue!Retried(@)]
    BY <1>7 DEF PollerAcks, Queue!Ack
  <2>2. Queue!Retried(rows[m]).status # "delivered"
    BY <1>1 DEF Queue!Retried, Queue!Row
  <2>3. m # poller.job.msg => rows'[m] = rows[m]
    BY <1>1, <2>1
  <2>4. m = poller.job.msg /\ Result # "ok" => rows'[m] = Queue!Retried(rows[m])
    BY <1>1, <2>1
  <2> QED
    BY <2>1, <2>2, <2>3, <2>4 DEF Result
<1>8. UNCHANGED qvars => before
  BY DEF qvars
<1>9. \/ UNCHANGED qvars \/ Queue!Pull \/ PollerAcks
      \/ \E n \in Msg : SendOverSocket(n) \/ Handler(n) \/ QueueTime(n)
  <2>1. ASSUME NEW n \in Msg, SocketStep(n) \/ GatewayAccepts(n) PROVE UNCHANGED qvars
    BY <2>1 DEF SocketStep, Receive, TaskSent, TaskFails, GatewayAccepts
  <2>2. ASSUME PollPull \/ PollPullLost PROVE Queue!Pull
    BY <2>2 DEF PollPull, PollPullLost, Queue!Pull
  <2>3. ASSUME PollStep PROVE UNCHANGED qvars \/ PollerAcks
    BY <2>3 DEF PollStep, PollStart, PollSent, PollSendFails, PollAcked, PollAckRefused,
                PollAckLost, PollAckUnsent, PollerAcks
  <2>4. ASSUME FlushStep \/ LinkDown \/ LinkUp \/ GatewayUp \/ GatewayDown \/ Crash
        PROVE  UNCHANGED qvars
    BY <2>4 DEF FlushStep, FlushStart, FlushSends, FlushShift, FlushFails,
                LinkDown, LinkUp, GatewayUp, GatewayDown, Crash
  <2>5. ASSUME UNCHANGED vars PROVE UNCHANGED qvars
    BY <2>5 DEF vars
  <2> QED
    BY <2>1, <2>2, <2>3, <2>4, <2>5 DEF Next
<1> QED
  BY <1>2, <1>3, <1>4, <1>5, <1>6, <1>7, <1>8, <1>9 DEF Handler

LEMMA DeliveryStep == DeliveryInv /\ NoOverflow /\ [Next]_vars => DeliveryInv'
<1> SUFFICES ASSUME DeliveryInv, NoOverflow, [Next]_vars PROVE DeliveryInv'
  OBVIOUS
<1>1. /\ TypeInv /\ ReplayInv /\ SentIsAccepted /\ AckedIsAccepted
      /\ BudgetKept /\ WrittenIsInHand /\ NoOverflowInFlush
  BY DEF DeliveryInv, NoOverflow, NoOverflowInFlush
<1>2. TypeInv' /\ ReplayInv' /\ SentIsAccepted' /\ AckedIsAccepted' /\ BudgetKept'
  BY <1>1, TypeInvStep, ReplayInvStep, AcceptedStep, AckedStep, BudgetStep
<1>3. ASSUME Undisturbed', NEW m \in Msg, producers'[m] = "mark" \/ rows'[m].status = "delivered"
      PROVE  InHand(m)'
  <2>1. Undisturbed /\ ~ LinkDown /\ ~ Crash
    BY <1>1, <1>3, BudgetStep
  <2>2. CASE producers[m] = "mark" \/ rows[m].status = "delivered"
    <3>1. InHand(m)
      BY <1>1, <2>1, <2>2 DEF WrittenIsInHand
    <3> QED
      BY <1>1, <2>1, <3>1, InHandStays
  <2>3. CASE SendOverSocket(m)
    BY <2>3 DEF SendOverSocket, InHand
  <2>4. CASE poller.pc = "ack" /\ poller.job.msg = m
    <3>1. m \in got
      BY <1>1, <2>4 DEF SentIsAccepted
    <3> QED
      BY <1>1, <3>1, GotGrows DEF InHand
  <2> QED
    BY <1>1, <1>3, <2>2, <2>3, <2>4, NewlyWritten
<1> QED
  BY <1>2, <1>3 DEF DeliveryInv, WrittenIsInHand

LEMMA DeliveryInit == Init => DeliveryInv
<1> SUFFICES ASSUME Init PROVE DeliveryInv
  OBVIOUS
<1>1. TypeInv /\ ReplayInv
  BY TypeInvInit, ReplayInvInit
<1>2. ToSet(dms) = {} /\ ToSet(replayed) = {}
  BY EmptyMemories DEF Init
<1>3. SentIsAccepted
  BY <1>2 DEF Init, IdleFlush, IdlePoller, SentIsAccepted
<1>4. AckedIsAccepted
  BY DEF Init, Queue!Init, AckedIsAccepted
<1>5. BudgetKept
  BY BridgeAssumption DEF Init, BudgetKept
<1>6. \A m \in Msg : producers[m] # "mark" /\ rows[m].status # "delivered"
  BY DEF Init, Queue!Init, Queue!NoRow
<1> QED
  BY <1>1, <1>3, <1>4, <1>5, <1>6 DEF DeliveryInv, WrittenIsInHand

\* What the bridge acknowledges as delivered the gateway has accepted, whatever
\* restarts, is lost or overflows.
THEOREM AckedForReal == Spec => []AckedIsAccepted
<1>1. Init => TypeInv /\ SentIsAccepted /\ AckedIsAccepted
  BY DeliveryInit DEF DeliveryInv
<1>2. TypeInv /\ SentIsAccepted /\ AckedIsAccepted /\ [Next]_vars =>
         TypeInv' /\ SentIsAccepted' /\ AckedIsAccepted'
  BY TypeInvStep, AcceptedStep, AckedStep
<1> QED
  BY <1>1, <1>2, PTL DEF Spec

\* A message that counts as delivered has reached the gateway or is on its way
\* there, as long as the bridge and its socket stay up and the replay queue has
\* room for what fails.
THEOREM DeliveredForReal == Spec /\ []NoOverflow => []DeliveriesAreReal
<1>1. DeliveryInv => DeliveriesAreReal
  BY DEF DeliveryInv, DeliveriesAreReal, WrittenIsInHand, DeliveredIsInHand, Undisturbed, InHand
<1> QED
  BY <1>1, DeliveryInit, DeliveryStep, PTL DEF Spec

\* The replay queue has room for every message.
RoomForAll == IsFiniteSet(Msg) /\ Cardinality(Msg) <= MaxReplay

LEMMA RoomIsLeft == RoomForAll /\ TypeInv /\ ReplayInv => NoOverflow
<1> SUFFICES ASSUME RoomForAll, TypeInv, ReplayInv, Len(replay) = MaxReplay
             PROVE  tasks \subseteq replayIds
  BY DEF NoOverflow
<1>1. replay \in Seq(Msg) /\ tasks \subseteq Msg
  BY TypeParts DEF ReplayTyped
<1>2. Cardinality(ToSet(replay)) = MaxReplay /\ MaxReplay \in Nat
  BY <1>1, DistinctCounts, BridgeAssumption DEF ReplayInv
<1>3. ToSet(replay) \in SUBSET Msg
  BY <1>1, LenProperties DEF ToSet
<1>4. Cardinality(ToSet(replay)) <= Cardinality(Msg) /\ Cardinality(Msg) \in Nat
  BY <1>3, FS_Subset, FS_CardinalityType DEF RoomForAll
<1>5. Cardinality(Msg) = Cardinality(ToSet(replay))
  BY <1>2, <1>4 DEF RoomForAll
<1>6. Msg = ToSet(replay)
  BY <1>3, <1>5, FS_Subset DEF RoomForAll
<1> QED
  BY <1>1, <1>6 DEF ReplayInv

\* With a replay queue that is as long as there are messages, nothing has to be
\* assumed of what happens.
THEOREM RoomyBridgeIsSound == RoomForAll /\ Spec => [](MemoryIsSound /\ DeliveriesAreReal)
<1>1. RoomForAll /\ DeliveryInv => NoOverflow /\ NoOverflowInFlush
  BY RoomIsLeft DEF DeliveryInv, NoOverflow, NoOverflowInFlush
<1>2. CASE RoomForAll
  <2>1. DeliveryInv => NoOverflow /\ NoOverflowInFlush
    BY <1>1, <1>2
  <2>2. Spec => []NoOverflow /\ []NoOverflowInFlush
    BY <2>1, DeliveryInit, DeliveryStep, PTL DEF Spec
  <2> QED
    BY <2>2, MemoryStaysSound, DeliveredForReal, PTL
<1> QED
  BY <1>2

\* The queue as the bridge serves it keeps the safety of its promise: a message
\* is settled only after it was saved, and what is delivered stays delivered.
THEOREM BridgeKeepsPromise == Spec => Queue!Implements
<1>1. QueueTheorems!Spec => QueueTheorems!Implements
  BY QueueTheorems!QueueImplementsDelivery, BridgeAssumption
<1>2. QueueTheorems!Implements <=> Queue!Implements
  <2>1. QueueTheorems!Outcome = Queue!Outcome /\ QueueTheorems!Outcome' = Queue!Outcome'
    BY DEF QueueTheorems!Outcome, Queue!Outcome, QueueTheorems!Shown, Queue!Shown
  <2>2. QueueTheorems!Promise!Init <=> Queue!Promise!Init
    BY <2>1 DEF QueueTheorems!Promise!Init, Queue!Promise!Init
  <2>3. [QueueTheorems!Promise!Next]_(QueueTheorems!Outcome) <=> [Queue!Promise!Next]_(Queue!Outcome)
    BY <2>1 DEF QueueTheorems!Promise!Next, Queue!Promise!Next,
                QueueTheorems!Promise!Save, Queue!Promise!Save,
                QueueTheorems!Promise!Deliver, Queue!Promise!Deliver,
                QueueTheorems!Promise!GiveUp, Queue!Promise!GiveUp
  <2> QED
    BY <2>2, <2>3, PTL DEF QueueTheorems!Implements, Queue!Implements,
                           QueueTheorems!Promise!Spec, Queue!Promise!Spec
<1> QED
  BY <1>1, <1>2, BridgeServesQueue, SameSpec, PTL

=============================================================================
