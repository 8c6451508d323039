----------------------------- MODULE DispatchQueue -----------------------------
(***************************************************************************)
(* The table openclaw_dispatch_queue: handlers that save a message, write  *)
(* it to the bridge's socket and mark it delivered, and the two endpoints  *)
(* with which a bridge claims messages and acknowledges them.  Nothing is  *)
(* assumed of the bridge here: it may claim at any time and acknowledge    *)
(* any claim it was ever handed, late, twice or never.                     *)
(* Time is two facts about a row: its backoff is over, its claim is old.   *)
(***************************************************************************)
EXTENDS Integers, FiniteSets

CONSTANTS
    Msg,          \* messages, each with a dedupe_key of its own
    Repeated,     \* messages that a handler may enqueue again (issue kickoffs)
    MaxAttempts,  \* openClawDispatchMaxAttempts
    PullLimit,    \* the limit of a pull
    MaxExpiries,  \* bound: number of claims that get old
    MaxRepeats,   \* bound: number of handlers that enqueue a message again
    Null          \* SQL NULL

ASSUME QueueAssumption ==
    /\ Repeated \subseteq Msg
    /\ MaxAttempts \in Nat \ {0} /\ PullLimit \in Nat \ {0}
    /\ MaxExpiries \in Nat /\ MaxRepeats \in Nat
    /\ Null \notin Nat

VARIABLES
    rows,       \* the table, by message
    lastId,     \* the greatest identifier handed out
    tokens,     \* per message: number of claim tokens generated
    producers,  \* per message: the state of the handler that sends it
    acked,      \* history: the acknowledgements that were answered 200
    left        \* what is left of the bounds

qvars == <<rows, lastId, tokens, producers, acked, left>>

RowStatus == {"absent", "pending", "processing", "delivered", "failed"}

Row ==
    [id       : Nat,
     status   : RowStatus,
     attempts : Nat,
     due      : BOOLEAN,           \* available_at <= NOW()
     expired  : BOOLEAN,           \* claimed_at is older than the claim's TTL
     token    : Nat \cup {Null}]

\* What a bridge reports of a claim.
Answer == [msg : Msg, token : Nat, result : {"ok", "error"}]

NoRow == [id |-> 0, status |-> "absent", attempts |-> 0, due |-> FALSE,
          expired |-> FALSE, token |-> Null]

-----------------------------------------------------------------------------
(* Mutants: forms of the definitions below that a plausible bug would give   *)
(* them.                                                                     *)

\* The acknowledgement does not compare the token.
HoldsSomeClaim(m, tok) == rows[m].status = "processing"

\* ... or takes any token the row ever had, whatever its status.
HoldsToken(m, tok) == tok <= tokens[m] /\ rows[m].status # "absent"

\* Only pending rows are claimed.
ClaimablePending == {m \in Msg : rows[m].status = "pending" /\ rows[m].due}

\* A negative acknowledgement at the limit retries once more.
RetriedAlways(row) == [row EXCEPT !.status = "pending", !.due = FALSE, !.token = Null,
                                  !.expired = FALSE]

\* A row that waits for a retry gets a status that the table does not allow.
RetriedMisnamed(row) == [row EXCEPT !.status = "retry", !.due = FALSE, !.token = Null,
                                    !.expired = FALSE]

-----------------------------------------------------------------------------
(* Rows *)

\* The row that enqueueOpenClawDispatchEvent inserts.
Inserted(id) == [NoRow EXCEPT !.id = id, !.status = "pending", !.due = TRUE]

\* markOpenClawDispatchDeliveredByKey, and a positive acknowledgement.
MarkedDelivered(row) ==
    [row EXCEPT !.status = "delivered", !.token = Null, !.expired = FALSE]

\* A negative acknowledgement: wait for a backoff, or give up.
Retried(row) ==
    [row EXCEPT !.status = IF row.attempts >= MaxAttempts THEN "failed" ELSE "pending",
                !.due = @ /\ row.attempts >= MaxAttempts,
                !.token = Null, !.expired = FALSE]

Claimed(row, tok) ==
    [row EXCEPT !.status = "processing", !.attempts = @ + 1, !.expired = FALSE, !.token = tok]

\* claimOpenClawDispatchJobs' WHERE clause.
Claimable ==
    {m \in Msg : /\ rows[m].due
                 /\ \/ rows[m].status = "pending"
                    \/ rows[m].status = "processing" /\ rows[m].expired}

\* ackOpenClawDispatchJob's WHERE clause.
HoldsClaim(m, tok) == rows[m].status = "processing" /\ rows[m].token = tok

NewToken(m) == tokens[m] + 1

\* LIMIT: as many candidates as PullLimit allows.
FillsPull(picked, candidates) ==
    \/ picked = candidates /\ Cardinality(picked) <= PullLimit
    \/ Cardinality(picked) = PullLimit

Spend(kind) == left[kind] > 0 /\ left' = [left EXCEPT ![kind] = @ - 1]

-----------------------------------------------------------------------------
(* The handler that creates a message *)

\* After its transaction the handler enqueues the message; an INSERT that
\* conflicts does nothing and the handler will not mark the row.
Enqueue(m) ==
    /\ producers[m] = "new"
    /\ IF rows[m].status = "absent"
       THEN /\ rows' = [rows EXCEPT ![m] = Inserted(lastId + 1)]
            /\ lastId' = lastId + 1
            /\ producers' = [producers EXCEPT ![m] = "queued"]
       ELSE /\ producers' = [producers EXCEPT ![m] = "unqueued"]
            /\ UNCHANGED <<rows, lastId>>
    /\ UNCHANGED <<tokens, acked, left>>

\* The enqueue fails: the handler logs it and goes on.
EnqueueFails(m) ==
    /\ producers[m] = "new"
    /\ producers' = [producers EXCEPT ![m] = "unqueued"]
    /\ UNCHANGED <<rows, lastId, tokens, acked, left>>

\* SendToOpenClaw wrote the message to the socket.
SendOK(m) ==
    /\ producers[m] \in {"queued", "unqueued"}
    /\ producers' = [producers EXCEPT ![m] = IF @ = "queued" THEN "mark" ELSE "sent"]
    /\ UNCHANGED <<rows, lastId, tokens, acked, left>>

\* There is no connection, or the write failed.
SendFails(m) ==
    /\ producers[m] \in {"queued", "unqueued"}
    /\ producers' = [producers EXCEPT ![m] = "unsent"]
    /\ UNCHANGED <<rows, lastId, tokens, acked, left>>

\* After a successful write the handler marks the row it inserted.
MarkDelivered(m) ==
    /\ producers[m] = "mark"
    /\ rows' = [rows EXCEPT ![m] = MarkedDelivered(@)]
    /\ producers' = [producers EXCEPT ![m] = "marked"]
    /\ UNCHANGED <<lastId, tokens, acked, left>>

\* The handler stops, or marking fails and is logged.
ProducerStops(m) ==
    /\ producers[m] \in {"queued", "unqueued", "mark"}
    /\ producers' = [producers EXCEPT ![m] = "stopped"]
    /\ UNCHANGED <<rows, lastId, tokens, acked, left>>

Ended(m) == producers[m] \in {"sent", "unsent", "marked", "stopped"}

\* A patch of the issue sends the kickoff again, under the same key.
ProduceAgain(m) ==
    /\ m \in Repeated
    /\ Ended(m)
    /\ Spend("repeats")
    /\ producers' = [producers EXCEPT ![m] = "new"]
    /\ UNCHANGED <<rows, lastId, tokens, acked>>

-----------------------------------------------------------------------------
(* The endpoints of the bridge *)

\* Claiming the rows of `picked` for one pull.
ClaimRows(picked) ==
    /\ rows' = [m \in Msg |-> IF m \in picked THEN Claimed(rows[m], NewToken(m)) ELSE rows[m]]
    /\ tokens' = [m \in Msg |-> IF m \in picked THEN tokens[m] + 1 ELSE tokens[m]]
    /\ UNCHANGED <<lastId, producers, acked, left>>

\* PullDispatchQueue claims the oldest claimable rows; rows that another
\* transaction has locked are skipped.
PullFrom(unlocked, picked) ==
    /\ unlocked \subseteq Claimable
    /\ picked \subseteq unlocked
    /\ FillsPull(picked, unlocked)
    /\ \A m \in picked, n \in unlocked \ picked : rows[m].id < rows[n].id
    /\ ClaimRows(picked)

Pull == \E unlocked \in SUBSET Claimable : \E picked \in SUBSET unlocked : PullFrom(unlocked, picked)

\* AckDispatchQueue is answered 200 ...
Ack(m, tok, result) ==
    /\ HoldsClaim(m, tok)
    /\ rows' = [rows EXCEPT ![m] = IF result = "ok" THEN MarkedDelivered(@) ELSE Retried(@)]
    /\ acked' = acked \cup {[msg |-> m, token |-> tok, result |-> result]}
    /\ UNCHANGED <<lastId, tokens, producers, left>>

\* ... or 409, and then nothing changes.
Refused(m, tok) == ~ HoldsClaim(m, tok)

-----------------------------------------------------------------------------
(* Time *)

BackoffEnds(m) ==
    /\ rows[m].status = "pending" /\ ~ rows[m].due
    /\ rows' = [rows EXCEPT ![m].due = TRUE]
    /\ UNCHANGED <<lastId, tokens, producers, acked, left>>

ClaimExpires(m) ==
    /\ rows[m].status = "processing" /\ ~ rows[m].expired
    /\ Spend("expiries")
    /\ rows' = [rows EXCEPT ![m].expired = TRUE]
    /\ UNCHANGED <<lastId, tokens, producers, acked>>

-----------------------------------------------------------------------------
(* The specification *)

Init ==
    /\ rows = [m \in Msg |-> NoRow]
    /\ lastId = 0
    /\ tokens = [m \in Msg |-> 0]
    /\ producers = [m \in Msg |-> "new"]
    /\ acked = {}
    /\ left = [expiries |-> MaxExpiries, repeats |-> MaxRepeats]

ProducerStep(m) ==
    \/ Enqueue(m)
    \/ EnqueueFails(m)
    \/ SendOK(m)
    \/ SendFails(m)
    \/ MarkDelivered(m)
    \/ ProducerStops(m)
    \/ ProduceAgain(m)

AckStep(m) == \E tok \in 1 .. tokens[m], result \in {"ok", "error"} : Ack(m, tok, result)

TimeStep(m) == BackoffEnds(m) \/ ClaimExpires(m)

Next ==
    \/ \E m \in Msg : ProducerStep(m) \/ AckStep(m) \/ TimeStep(m)
    \/ Pull

Spec == Init /\ [][Next]_qvars

\* A bridge keeps pulling and finds rows unlocked again and again; a claim is
\* acknowledged in time or gets old (nobody need acknowledge an old one), and a
\* backoff ends.
Fairness ==
    /\ \A m \in Msg : WF_qvars((~ rows[m].expired /\ AckStep(m)) \/ TimeStep(m))
    /\ SF_qvars(\E picked \in SUBSET Claimable : picked # {} /\ PullFrom(Claimable, picked))

FairSpec == Spec /\ Fairness

-----------------------------------------------------------------------------
(* Properties *)

ProducerState == {"new", "queued", "unqueued", "mark", "sent", "unsent", "marked", "stopped"}

\* The type invariant.
TypeOK ==
    /\ rows \in [Msg -> Row]
    /\ lastId \in Nat
    /\ tokens \in [Msg -> Nat]
    /\ producers \in [Msg -> ProducerState]
    /\ acked \subseteq Answer
    /\ left \in [{"expiries", "repeats"} -> Nat]

\* Only a row in process has a claim, the claim is its latest, and every claim
\* counted as an attempt: an earlier holder can no longer settle it.
ClaimsAreCurrent ==
    \A m \in Msg :
        /\ rows[m].status = "processing" => rows[m].token = tokens[m] /\ rows[m].due
        /\ rows[m].status # "processing" => rows[m].token = Null /\ ~ rows[m].expired
        /\ rows[m].attempts = tokens[m]
        /\ rows[m].status = "absent" => tokens[m] = 0

\* A claim is answered 200 at most once, whichever way it went: a repeated or
\* contradicting acknowledgement is refused.
OneAnswerPerClaim ==
    \A a, b \in acked : a.msg = b.msg /\ a.token = b.token => a = b

\* A message acknowledged as delivered stays so and is never handed out again.
DeliveredIsLast ==
    \A a \in acked : a.result = "ok" =>
        rows[a.msg].status = "delivered" /\ a.token = tokens[a.msg]

\* A claim that was answered is over: it is not the one that a row in process has.
AnsweredClaimsAreOver ==
    \A a \in acked : a.token <= tokens[a.msg] /\ ~ HoldsClaim(a.msg, a.token)

\* A handler marks only a row that is there.
MarkedRowsExist ==
    \A m \in Msg : producers[m] \in {"queued", "mark"} => rows[m].status # "absent"

\* A message is given up only after MaxAttempts claims, and is not waiting for
\* a retry after that many: a bridge that always fails does not retry for ever.
GivesUpAtLimit ==
    \A m \in Msg :
        /\ rows[m].status = "failed" => rows[m].attempts >= MaxAttempts
        /\ rows[m].status = "pending" => rows[m].attempts < MaxAttempts

\* The inductive invariant: no acknowledgement takes effect twice, too late or
\* against a delivery, and the last failure is the one that gives up.
ClaimInv ==
    /\ ClaimsAreCurrent /\ AnsweredClaimsAreOver /\ MarkedRowsExist
    /\ OneAnswerPerClaim /\ DeliveredIsLast /\ GivesUpAtLimit

\* Once a row is delivered nothing about it changes.
DeliveredIsFinal ==
    [][\A m \in Msg : rows[m].status = "delivered" => rows'[m] = rows[m]]_qvars

\* What the table shows of a message.
Shown(status) ==
    IF status = "absent" THEN "none"
    ELSE IF status \in {"pending", "processing"} THEN "queued" ELSE status

Outcome == [m \in Msg |-> Shown(rows[m].status)]

Promise == INSTANCE Delivery WITH outcome <- Outcome

\* The queue implements the safety of the promise: a message is settled once it
\* was saved, and a delivered one is not queued or given up again.
Implements == Promise!Spec

\* The queue implements the promise: a saved message is settled in the end.
KeepsPromise == Promise!FairSpec

=============================================================================
