---------------------------- MODULE DispatchBridge ----------------------------
(***************************************************************************)
(* The dispatch queue together with the bridge that serves it: messages    *)
(* reach the bridge over the socket and over the queue; it sends them to   *)
(* the OpenClaw gateway, and keeps those from the socket that it could not *)
(* send in a replay queue.  All state of the bridge is in memory.  One     *)
(* action is what the bridge does between two awaits.                      *)
(***************************************************************************)
EXTENDS Integers, FiniteSets, SequencesExt

CONSTANTS
    Msg, Repeated, MaxAttempts, PullLimit, MaxExpiries, MaxRepeats, Null,
    DM,           \* messages that are dm.message events
    MaxReplay,    \* DISPATCH_REPLAY_MAX_ITEMS
    MaxTracked,   \* size of the two memories of delivered ids
    MaxCrashes,   \* bound: restarts of the bridge
    MaxDrops,     \* bound: losses of the socket between server and bridge
    MaxFaults     \* bound: HTTP calls of the bridge that fail

ASSUME BridgeAssumption ==
    /\ Repeated \subseteq Msg /\ DM \subseteq Msg
    /\ MaxAttempts \in Nat \ {0} /\ PullLimit \in Nat \ {0}
    /\ MaxExpiries \in Nat /\ MaxRepeats \in Nat
    /\ Null \notin Nat \cup Msg
    /\ MaxReplay \in Nat \ {0} /\ MaxTracked \in Nat \ {0}
    /\ MaxCrashes \in Nat /\ MaxDrops \in Nat /\ MaxFaults \in Nat

VARIABLES
    rows, lastId, tokens, producers, acked, left,  \* see DispatchQueue
    link,       \* the socket between server and bridge is open
    wire,       \* messages written to the socket and not yet received
    gateway,    \* the bridge is connected to the gateway
    got,        \* messages that the gateway has accepted
    tasks,      \* messages of the socket that are being sent
    poller,     \* processDispatchQueue
    flush,      \* flushDispatchReplayQueue
    replay,     \* dispatchReplayQueue
    replayIds,  \* queuedDispatchReplayIDs
    replayed,   \* deliveredDispatchReplayIDs, the oldest first
    dms,        \* deliveredDMMessageIDs, the oldest first
    budget      \* what is left of the bounds

Queue == INSTANCE DispatchQueue

qvars == <<rows, lastId, tokens, producers, acked, left>>
memory == <<tasks, poller, flush, replay, replayIds, replayed, dms>>
vars == <<qvars, link, wire, gateway, got, memory, budget>>

IdlePoller == [pc |-> "idle", batch |-> {}, job |-> Null]
IdleFlush == [pc |-> "off", head |-> Null]

-----------------------------------------------------------------------------
(* Mutants *)

\* A message that is being sent counts as sent.
DupInFlight(m) == m \in DM /\ (m \in ToSet(dms) \/ m \in tasks)

\* Direct messages are not remembered.
NeverDup(m) == FALSE

\* The replay queue drops one item too early.
OverfullEarly(q) == Len(q) >= MaxReplay

\* A failed replay leaves isDispatchReplayFlushing set.
StuckFlush == [pc |-> "failed", head |-> Null]

\* A sent message keeps its id in the set of queued ids.
StillQueued(m) == replayIds

-----------------------------------------------------------------------------
(* Memories *)

\* rememberDeliveredDMMessageID and rememberDeliveredDispatchReplayID.
Remember(ids, m) ==
    IF m \in ToSet(ids) THEN ids
    ELSE IF Len(ids) < MaxTracked THEN Append(ids, m) ELSE Append(Tail(ids), m)

Unqueued(m) == replayIds \ {m}

\* hasDeliveredDMMessageID: only direct messages are checked.
Dup(m) == m \in DM /\ m \in ToSet(dms)

RememberDM(m) == dms' = IF m \in DM THEN Remember(dms, m) ELSE dms

Overfull(q) == Len(q) > MaxReplay

\* queueDispatchEventForReplay, with dropOldestDispatchReplayItem.
QueueForReplay(m) ==
    IF m \in replayIds \cup ToSet(replayed) THEN UNCHANGED <<replay, replayIds>>
    ELSE LET q == Append(replay, m) IN
         IF Overfull(q)
         THEN replay' = Tail(q) /\ replayIds' = (replayIds \cup {m}) \ {Head(q)}
         ELSE replay' = q /\ replayIds' = replayIds \cup {m}

Spend(kind) == budget[kind] > 0 /\ budget' = [budget EXCEPT ![kind] = @ - 1]

\* The gateway answers a request; without a connection sendRequest throws.
GatewayAnswers(m) == gateway /\ got' = got \cup {m}

-----------------------------------------------------------------------------
(* The handler's write to the socket *)

\* SendToOpenClaw returns once the message is written.
SendOverSocket(m) ==
    /\ link
    /\ Queue!SendOK(m)
    /\ wire' = wire \cup {m}
    /\ UNCHANGED <<link, gateway, got, memory, budget>>

\* Everything else the handlers do, and time, does not touch the bridge.
Handler(m) ==
    /\ \/ Queue!Enqueue(m) \/ Queue!EnqueueFails(m) \/ Queue!SendFails(m)
       \/ Queue!MarkDelivered(m) \/ Queue!ProducerStops(m) \/ Queue!ProduceAgain(m)
    /\ UNCHANGED <<link, wire, gateway, got, memory, budget>>

QueueTime(m) ==
    /\ Queue!TimeStep(m)
    /\ UNCHANGED <<link, wire, gateway, got, memory, budget>>

-----------------------------------------------------------------------------
(* Messages from the socket *)

\* dispatchInboundEvent of a socket event; a known direct message is skipped.
Receive(m) ==
    /\ m \in wire \ tasks
    /\ wire' = wire \ {m}
    /\ tasks' = IF Dup(m) THEN tasks ELSE tasks \cup {m}
    /\ UNCHANGED <<qvars, link, gateway, got, poller, flush, replay, replayIds, replayed, dms, budget>>

TaskSent(m) ==
    /\ m \in tasks
    /\ GatewayAnswers(m)
    /\ RememberDM(m)
    /\ tasks' = tasks \ {m}
    /\ UNCHANGED <<qvars, link, wire, gateway, poller, flush, replay, replayIds, replayed, budget>>

\* A message that could not be sent waits in the replay queue.
TaskFails(m) ==
    /\ m \in tasks
    /\ QueueForReplay(m)
    /\ tasks' = tasks \ {m}
    /\ UNCHANGED <<qvars, link, wire, gateway, got, poller, flush, replayed, dms, budget>>

-----------------------------------------------------------------------------
(* processDispatchQueue *)

PollNext(batch) == [pc |-> IF batch = {} THEN "idle" ELSE "next", batch |-> batch, job |-> Null]

Jobs(picked) == {[msg |-> m, token |-> Queue!NewToken(m)] : m \in picked}

PollPull ==
    /\ poller.pc = "idle"
    /\ \E unlocked \in SUBSET Queue!Claimable : \E picked \in SUBSET unlocked :
          /\ Queue!PullFrom(unlocked, picked)
          /\ poller' = PollNext(Jobs(picked))
    /\ UNCHANGED <<link, wire, gateway, got, tasks, flush, replay, replayIds, replayed, dms, budget>>

\* The answer is lost: the claims belong to nobody and have to get old.
PollPullLost ==
    /\ poller.pc = "idle"
    /\ Spend("faults")
    /\ Queue!Pull
    /\ UNCHANGED <<link, wire, gateway, got, memory>>

\* The next job of the batch; a known direct message counts as dispatched.
PollStart ==
    /\ poller.pc = "next"
    /\ \E job \in poller.batch :
          poller' = [pc |-> IF Dup(job.msg) THEN "ack" ELSE "sending",
                     batch |-> poller.batch \ {job}, job |-> job]
    /\ UNCHANGED <<qvars, link, wire, gateway, got, tasks, flush, replay, replayIds, replayed, dms, budget>>

PollSent ==
    /\ poller.pc = "sending"
    /\ GatewayAnswers(poller.job.msg)
    /\ RememberDM(poller.job.msg)
    /\ poller' = [poller EXCEPT !.pc = "ack"]
    /\ UNCHANGED <<qvars, link, wire, gateway, tasks, flush, replay, replayIds, replayed, budget>>

PollSendFails ==
    /\ poller.pc = "sending"
    /\ poller' = [poller EXCEPT !.pc = "nack"]
    /\ UNCHANGED <<qvars, link, wire, gateway, got, tasks, flush, replay, replayIds, replayed, dms, budget>>

\* The acknowledgement that the poller is about to send.
Result == IF poller.pc = "ack" THEN "ok" ELSE "error"

\* A positive acknowledgement that fails is followed by a negative one; whatever
\* becomes of that, the next job follows.
AfterRefusal ==
    IF poller.pc = "ack" THEN [poller EXCEPT !.pc = "nack"] ELSE PollNext(poller.batch)

PollAcked ==
    /\ poller.pc \in {"ack", "nack"}
    /\ Queue!Ack(poller.job.msg, poller.job.token, Result)
    /\ poller' = PollNext(poller.batch)
    /\ UNCHANGED <<link, wire, gateway, got, tasks, flush, replay, replayIds, replayed, dms, budget>>

PollAckRefused ==
    /\ poller.pc \in {"ack", "nack"}
    /\ Queue!Refused(poller.job.msg, poller.job.token)
    /\ poller' = AfterRefusal
    /\ UNCHANGED <<qvars, link, wire, gateway, got, tasks, flush, replay, replayIds, replayed, dms, budget>>

\* The answer is lost, and the retry is answered 409.
PollAckLost ==
    /\ poller.pc \in {"ack", "nack"}
    /\ Spend("faults")
    /\ Queue!Ack(poller.job.msg, poller.job.token, Result)
    /\ poller' = AfterRefusal
    /\ UNCHANGED <<link, wire, gateway, got, tasks, flush, replay, replayIds, replayed, dms>>

\* The call and its retries do not reach the server.
PollAckUnsent ==
    /\ poller.pc \in {"ack", "nack"}
    /\ Spend("faults")
    /\ poller' = AfterRefusal
    /\ UNCHANGED <<qvars, link, wire, gateway, got, tasks, flush, replay, replayIds, replayed, dms>>

-----------------------------------------------------------------------------
(* flushDispatchReplayQueue *)

\* The loop looks at the head of the queue and dispatches it.
FlushHead(q) ==
    IF q = <<>> THEN IdleFlush
    ELSE [pc |-> IF Dup(Head(q)) THEN "sent" ELSE "sending", head |-> Head(q)]

FlushStart ==
    /\ flush.pc = "off"
    /\ gateway
    /\ replay # <<>>
    /\ flush' = FlushHead(replay)
    /\ UNCHANGED <<qvars, link, wire, gateway, got, tasks, poller, replay, replayIds, replayed, dms, budget>>

FlushSends ==
    /\ flush.pc = "sending"
    /\ GatewayAnswers(flush.head)
    /\ RememberDM(flush.head)
    /\ flush' = [flush EXCEPT !.pc = "sent"]
    /\ UNCHANGED <<qvars, link, wire, gateway, tasks, poller, replay, replayIds, replayed, budget>>

\* After the await the loop removes the head of the queue as it is now.
FlushShift ==
    /\ flush.pc = "sent"
    /\ replay' = IF replay = <<>> THEN replay ELSE Tail(replay)
    /\ replayIds' = Unqueued(flush.head)
    /\ replayed' = Remember(replayed, flush.head)
    /\ flush' = FlushHead(replay')
    /\ UNCHANGED <<qvars, link, wire, gateway, got, tasks, poller, dms, budget>>

FlushOff == IdleFlush

\* A failed message stays at the head, and the loop ends.
FlushFails ==
    /\ flush.pc = "sending"
    /\ flush' = FlushOff
    /\ UNCHANGED <<qvars, link, wire, gateway, got, tasks, poller, replay, replayIds, replayed, dms, budget>>

-----------------------------------------------------------------------------
(* The connections and the process *)

\* Messages on the wire are lost with the socket.  (A write to a socket that is
\* dead but not yet closed succeeds too: it is a write just before the loss.)
LinkDown ==
    /\ link
    /\ Spend("drops")
    /\ link' = FALSE
    /\ wire' = {}
    /\ UNCHANGED <<qvars, gateway, got, memory>>

LinkUp ==
    /\ ~ link
    /\ link' = TRUE
    /\ UNCHANGED <<qvars, wire, gateway, got, memory, budget>>

GatewayUp ==
    /\ ~ gateway
    /\ gateway' = TRUE
    /\ UNCHANGED <<qvars, link, wire, got, memory, budget>>

GatewayDown ==
    /\ gateway
    /\ gateway' = FALSE
    /\ UNCHANGED <<qvars, link, wire, got, memory, budget>>

\* Who is sending message m to the gateway.
Senders(m) ==
    {s \in {"task", "poller", "flush"} :
        \/ s = "task" /\ m \in tasks
        \/ s = "poller" /\ poller.pc = "sending" /\ poller.job.msg = m
        \/ s = "flush" /\ flush.pc = "sending" /\ flush.head = m}

\* The gateway accepts a request whose answer will be lost or too late.
GatewayAccepts(m) ==
    /\ gateway
    /\ Senders(m) # {}
    /\ got' = got \cup {m}
    /\ UNCHANGED <<qvars, link, wire, gateway, memory, budget>>

\* The bridge restarts with empty memory and without connections.
Crash ==
    /\ Spend("crashes")
    /\ link' = FALSE /\ wire' = {} /\ gateway' = FALSE
    /\ tasks' = {} /\ poller' = IdlePoller /\ flush' = IdleFlush
    /\ replay' = <<>> /\ replayIds' = {} /\ replayed' = <<>> /\ dms' = <<>>
    /\ UNCHANGED <<qvars, got>>

-----------------------------------------------------------------------------
(* The specification *)

Init ==
    /\ Queue!Init
    /\ link = FALSE /\ wire = {} /\ gateway = FALSE /\ got = {}
    /\ tasks = {} /\ poller = IdlePoller /\ flush = IdleFlush
    /\ replay = <<>> /\ replayIds = {} /\ replayed = <<>> /\ dms = <<>>
    /\ budget = [crashes |-> MaxCrashes, drops |-> MaxDrops, faults |-> MaxFaults]

SocketStep(m) == Receive(m) \/ TaskSent(m) \/ TaskFails(m)

\* One step of the poll loop once it has pulled.
PollStep ==
    \/ PollStart \/ PollSent \/ PollSendFails
    \/ PollAcked \/ PollAckRefused \/ PollAckLost \/ PollAckUnsent

FlushStep == FlushStart \/ FlushSends \/ FlushShift \/ FlushFails

Next ==
    \/ \E m \in Msg : SendOverSocket(m) \/ Handler(m) \/ QueueTime(m)
    \/ \E m \in Msg : SocketStep(m) \/ GatewayAccepts(m)
    \/ PollPull \/ PollPullLost \/ PollStep \/ FlushStep
    \/ LinkDown \/ LinkUp \/ GatewayUp \/ GatewayDown \/ Crash

Spec == Init /\ [][Next]_vars

\* A poll that finds the claimable rows unlocked.
PollUnlocked ==
    /\ poller.pc = "idle"
    /\ \E picked \in SUBSET Queue!Claimable :
          /\ picked # {}
          /\ Queue!PullFrom(Queue!Claimable, picked)
          /\ poller' = PollNext(Jobs(picked))
    /\ UNCHANGED <<link, wire, gateway, got, tasks, flush, replay, replayIds, replayed, dms, budget>>

\* The 5-second loop polls and flushes for ever; every request of the bridge is
\* answered or times out; backoffs end and claims get old; the gateway is
\* reconnected, and answers now and then.
Fairness ==
    /\ \A m \in Msg : WF_vars(QueueTime(m)) /\ WF_vars(SocketStep(m))
    /\ WF_vars(PollStep)
    /\ SF_vars(PollUnlocked)
    /\ WF_vars(GatewayUp)
    /\ WF_vars(FlushStep)
    /\ SF_vars(FlushStart)
    /\ SF_vars(FlushSends)

FairSpec == Spec /\ Fairness

-----------------------------------------------------------------------------
(* Properties *)

Job == [msg : Msg, token : Nat]

\* The type invariant.
TypeOK ==
    /\ Queue!TypeOK
    /\ link \in BOOLEAN /\ gateway \in BOOLEAN
    /\ wire \subseteq Msg /\ got \subseteq Msg /\ tasks \subseteq Msg
    /\ poller \in [pc : {"idle", "next", "sending", "ack", "nack"},
                   batch : SUBSET Job, job : Job \cup {Null}]
    /\ poller.pc \in {"sending", "ack", "nack"} => poller.job \in Job
    /\ flush \in [pc : {"off", "sending", "sent"}, head : Msg \cup {Null}]
    /\ replay \in Seq(Msg) /\ Len(replay) <= MaxReplay
    /\ replayIds \subseteq Msg
    /\ replayed \in Seq(Msg) /\ Len(replayed) <= MaxTracked
    /\ dms \in Seq(DM) /\ Len(dms) <= MaxTracked

\* What the bridge has acknowledged as delivered the gateway has accepted.
AckedIsAccepted == \A a \in acked : a.result = "ok" => a.msg \in got

\* As long as the bridge and its socket stay up and the replay queue does not
\* overflow, a message marked delivered has reached the gateway, or is on its
\* way there and will be tried again.
DeliveredIsInHand ==
    budget.crashes = MaxCrashes /\ budget.drops = MaxDrops =>
    \A m \in Msg : rows[m].status = "delivered" =>
        m \in got \cup wire \cup tasks \cup ToSet(replay)

\* What an acknowledgement and a mark mean, over both paths and with what may fail on them.
DeliveriesAreReal == AckedIsAccepted /\ DeliveredIsInHand

\* The set of queued ids is the content of the replay queue, so that an id that
\* is no longer queued does not keep its message out.
ReplayIdsMatch == replayIds = ToSet(replay) /\ Cardinality(replayIds) = Len(replay)

\* What the bridge keeps in memory: the types and the limits, and the ids of the replay queue.
MemoryIsSound == TypeOK /\ ReplayIdsMatch

\* Once a direct message was sent and as long as it is remembered, no further
\* send of it begins.
SentDMsAreNotResent ==
    [][\A m \in ToSet(dms) \cap ToSet(dms') : Senders(m)' \subseteq Senders(m)]_vars

\* A message leaves the replay queue because the flush sent it, as the oldest of
\* an overfull queue, or with the process.
ReplayLeavesInOrder ==
    [][\A m \in ToSet(replay) \ ToSet(replay') :
          \/ m \in ToSet(replayed')
          \/ m = Head(replay) /\ Len(replay) = MaxReplay /\ Len(replay') = MaxReplay
          \/ replay' = <<>> /\ ~ gateway']_vars

\* The queue and the bridge together keep the promise of the queue.
KeepsPromise == Queue!KeepsPromise

\* A message in the replay queue does not wait there for ever.
ReplayDrains == \A m \in Msg : m \in ToSet(replay) ~> m \notin ToSet(replay)

=============================================================================
