-------------------------- MODULE DispatchQueueProofs --------------------------
(***************************************************************************)
(* Proofs about DispatchQueue, for any messages, limits and bounds.        *)
(***************************************************************************)
EXTENDS DispatchQueue, TLAPS

USE QueueAssumption

LEMMA InsertedIsTyped == ASSUME NEW id \in Nat PROVE Inserted(id) \in Row
BY DEF Row, RowStatus, NoRow, Inserted

LEMMA RowIsTyped ==
    ASSUME NEW row \in Row, NEW tok \in Nat
    PROVE  /\ MarkedDelivered(row) \in Row
           /\ Retried(row) \in Row
           /\ Claimed(row, tok) \in Row
           /\ [row EXCEPT !.due = TRUE] \in Row
           /\ [row EXCEPT !.expired = TRUE] \in Row
<1>1. MarkedDelivered(row) \in Row
  BY DEF Row, RowStatus, MarkedDelivered
<1>2. Retried(row) \in Row
  BY DEF Row, RowStatus, Retried
<1>3. Claimed(row, tok) \in Row
  <2>1. row.attempts + 1 \in Nat
    BY DEF Row
  <2> DEFINE n == row.attempts + 1
  <2> HIDE DEF n
  <2>2. [row EXCEPT !.status = "processing", !.attempts = n, !.expired = FALSE, !.token = tok] \in Row
    BY <2>1 DEF Row, RowStatus, n
  <2> QED
    BY <2>2 DEF Claimed, n
<1>4. [row EXCEPT !.due = TRUE] \in Row
  BY DEF Row
<1>5. [row EXCEPT !.expired = TRUE] \in Row
  BY DEF Row
<1> QED
  BY <1>1, <1>2, <1>3, <1>4, <1>5

LEMMA SpendIsTyped ==
    ASSUME TypeOK, NEW kind \in {"expiries", "repeats"}, Spend(kind)
    PROVE  left' \in [{"expiries", "repeats"} -> Nat]
BY DEF TypeOK, Spend

\* The type invariant is inductive.
LEMMA TypeStep == TypeOK /\ [Next]_qvars => TypeOK'
<1> SUFFICES ASSUME TypeOK, [Next]_qvars PROVE TypeOK'
  OBVIOUS
<1> USE DEF TypeOK
<1>1. ASSUME NEW m \in Msg, Enqueue(m) PROVE TypeOK'
  <2>1. Inserted(lastId + 1) \in Row
    BY InsertedIsTyped
  <2> QED
    BY <1>1, <2>1 DEF Enqueue, ProducerState
<1>2. ASSUME NEW m \in Msg, EnqueueFails(m) \/ SendOK(m) \/ SendFails(m) \/ ProducerStops(m)
      PROVE TypeOK'
  BY <1>2 DEF EnqueueFails, SendOK, SendFails, ProducerStops, ProducerState
<1>3. ASSUME NEW m \in Msg, MarkDelivered(m) PROVE TypeOK'
  BY <1>3, RowIsTyped DEF MarkDelivered, ProducerState
<1>4. ASSUME NEW m \in Msg, ProduceAgain(m) PROVE TypeOK'
  BY <1>4, SpendIsTyped DEF ProduceAgain, ProducerState
<1>5. ASSUME NEW m \in Msg, AckStep(m) PROVE TypeOK'
  <2>1. PICK tok \in 1 .. tokens[m], result \in {"ok", "error"} : Ack(m, tok, result)
    BY <1>5 DEF AckStep
  <2>2. tok \in Nat
    OBVIOUS
  <2>3. rows' \in [Msg -> Row]
    BY <2>1, RowIsTyped DEF Ack
  <2>4. acked' \subseteq Answer
    BY <2>1, <2>2 DEF Ack, Answer
  <2> QED
    BY <2>1, <2>3, <2>4 DEF Ack
<1>6. ASSUME NEW m \in Msg, TimeStep(m) PROVE TypeOK'
  <2>1. CASE BackoffEnds(m)
    BY <2>1, RowIsTyped DEF BackoffEnds
  <2>2. CASE ClaimExpires(m)
    BY <2>2, RowIsTyped, SpendIsTyped DEF ClaimExpires
  <2> QED
    BY <1>6, <2>1, <2>2 DEF TimeStep
<1>7. ASSUME Pull PROVE TypeOK'
  <2>1. PICK picked \in SUBSET Msg : ClaimRows(picked)
    BY <1>7 DEF Pull, PullFrom, Claimable
  <2>2. \A m \in Msg : NewToken(m) \in Nat
    BY DEF NewToken
  <2>3. rows' \in [Msg -> Row]
    BY <2>1, <2>2, RowIsTyped DEF ClaimRows
  <2> QED
    BY <2>1, <2>3 DEF ClaimRows
<1>8. CASE UNCHANGED qvars
  BY <1>8 DEF qvars
<1> QED
  BY <1>1, <1>2, <1>3, <1>4, <1>5, <1>6, <1>7, <1>8 DEF Next, ProducerStep

\* The type invariant holds in every behaviour: a row has a status that the
\* table allows, and counters that are natural numbers.
THEOREM TypeCorrect == Spec => []TypeOK
<1>1. Init => TypeOK
  BY DEF Init, TypeOK, NoRow, Row, RowStatus, ProducerState, Answer
<1> QED
  BY <1>1, TypeStep, PTL DEF Spec

-----------------------------------------------------------------------------
(* Claims *)

IInv == TypeOK /\ ClaimInv

\* Actions that change neither rows, tokens nor acknowledgements.
LEMMA ClaimsKept ==
    ASSUME IInv, UNCHANGED <<rows, tokens, acked>>, MarkedRowsExist'
    PROVE  ClaimInv'
BY DEF IInv, ClaimInv, ClaimsAreCurrent, AnsweredClaimsAreOver, OneAnswerPerClaim,
       DeliveredIsLast, HoldsClaim, GivesUpAtLimit

\* A row that stays in its status without a new claim, with a timer that changes.
LEMMA TimerKeepsClaims ==
    ASSUME IInv, NEW m \in Msg, TimeStep(m)
    PROVE  ClaimInv'
<1>1. \A n \in Msg : /\ rows'[n].status = rows[n].status
                     /\ rows'[n].token = rows[n].token
                     /\ rows'[n].attempts = rows[n].attempts
  BY DEF TimeStep, BackoffEnds, ClaimExpires, IInv, TypeOK, Row
<1>2. tokens' = tokens /\ acked' = acked /\ producers' = producers
  BY DEF TimeStep, BackoffEnds, ClaimExpires
<1>3. ClaimsAreCurrent'
  BY <1>1, <1>2 DEF TimeStep, BackoffEnds, ClaimExpires, IInv, TypeOK, Row, ClaimInv,
     ClaimsAreCurrent
<1>4. AnsweredClaimsAreOver' /\ DeliveredIsLast'
  BY <1>1, <1>2 DEF IInv, TypeOK, Answer, ClaimInv, AnsweredClaimsAreOver, DeliveredIsLast,
     HoldsClaim
<1>5. GivesUpAtLimit'
  BY <1>1 DEF IInv, ClaimInv, GivesUpAtLimit
<1> QED
  BY <1>1, <1>2, <1>3, <1>4, <1>5 DEF IInv, ClaimInv, MarkedRowsExist, OneAnswerPerClaim

\* Enqueue inserts a row that was absent and has had no claim.
LEMMA EnqueueKeepsClaims ==
    ASSUME IInv, NEW m \in Msg, Enqueue(m)
    PROVE  ClaimInv'
<1>1. CASE rows[m].status = "absent"
  <2>1. /\ tokens' = tokens /\ acked' = acked
        /\ rows' = [rows EXCEPT ![m] = Inserted(lastId + 1)]
        /\ producers' = [producers EXCEPT ![m] = "queued"]
    BY <1>1 DEF Enqueue
  <2>2. ClaimsAreCurrent'
    BY <1>1, <2>1 DEF IInv, TypeOK, Row, ClaimInv, ClaimsAreCurrent, Inserted, NoRow
  <2>3. AnsweredClaimsAreOver' /\ DeliveredIsLast'
    BY <1>1, <2>1 DEF IInv, TypeOK, Answer, Row, ClaimInv, AnsweredClaimsAreOver,
       DeliveredIsLast, HoldsClaim, Inserted, NoRow
  <2>4. MarkedRowsExist'
    BY <2>1 DEF IInv, TypeOK, ClaimInv, MarkedRowsExist, Inserted, NoRow
  <2>5. GivesUpAtLimit'
    BY <2>1, QueueAssumption DEF IInv, TypeOK, Row, ClaimInv, GivesUpAtLimit, Inserted, NoRow
  <2> QED
    BY <2>1, <2>2, <2>3, <2>4, <2>5 DEF IInv, ClaimInv, OneAnswerPerClaim
<1>2. CASE rows[m].status # "absent"
  <2>1. UNCHANGED <<rows, tokens, acked>> /\ MarkedRowsExist'
    BY <1>2 DEF Enqueue, IInv, TypeOK, ClaimInv, MarkedRowsExist
  <2> QED
    BY <2>1, ClaimsKept
<1> QED
  BY <1>1, <1>2

\* Marking a row ends its claim, whoever holds it.
LEMMA MarkKeepsClaims ==
    ASSUME IInv, NEW m \in Msg, MarkDelivered(m)
    PROVE  ClaimInv'
<1>1. /\ tokens' = tokens /\ acked' = acked
      /\ rows' = [rows EXCEPT ![m] = MarkedDelivered(rows[m])]
      /\ producers' = [producers EXCEPT ![m] = "marked"]
  BY DEF MarkDelivered
<1>2. rows[m].status # "absent"
  BY DEF MarkDelivered, IInv, ClaimInv, MarkedRowsExist
<1>3. ClaimsAreCurrent'
  BY <1>1, <1>2 DEF IInv, TypeOK, Row, ClaimInv, ClaimsAreCurrent, MarkedDelivered
<1>4. AnsweredClaimsAreOver' /\ DeliveredIsLast'
  BY <1>1 DEF IInv, TypeOK, Answer, Row, ClaimInv, AnsweredClaimsAreOver, DeliveredIsLast,
     HoldsClaim, MarkedDelivered
<1>5. MarkedRowsExist'
  BY <1>1 DEF IInv, TypeOK, Row, ClaimInv, MarkedRowsExist, MarkedDelivered
<1>6. GivesUpAtLimit'
  BY <1>1 DEF IInv, TypeOK, Row, ClaimInv, GivesUpAtLimit, MarkedDelivered
<1> QED
  BY <1>1, <1>3, <1>4, <1>5, <1>6 DEF IInv, ClaimInv, OneAnswerPerClaim

LEMMA ClaimedFields ==
    ASSUME NEW row \in Row, NEW tok \in Nat
    PROVE  /\ Claimed(row, tok).status = "processing"
           /\ Claimed(row, tok).token = tok
           /\ Claimed(row, tok).attempts = row.attempts + 1
           /\ Claimed(row, tok).due = row.due
           /\ Claimed(row, tok).expired = FALSE
BY DEF Row, Claimed

\* A pull gives each row it claims a token that was never given before.
LEMMA PullKeepsClaims ==
    ASSUME IInv, Pull
    PROVE  ClaimInv'
<1>1. PICK picked \in SUBSET Claimable : ClaimRows(picked)
  BY DEF Pull, PullFrom
<1>2. \A m \in Msg : IF m \in picked
                     THEN /\ rows'[m] = Claimed(rows[m], tokens[m] + 1)
                          /\ tokens'[m] = tokens[m] + 1
                     ELSE rows'[m] = rows[m] /\ tokens'[m] = tokens[m]
  BY <1>1 DEF ClaimRows, NewToken
<1>3. acked' = acked /\ producers' = producers
  BY <1>1 DEF ClaimRows
<1>4. \A m \in picked : m \in Msg /\ rows[m].due /\ rows[m].status \in {"pending", "processing"}
  BY DEF Claimable
<1> DEFINE Taken(m) == /\ rows'[m].status = "processing" /\ rows'[m].token = tokens[m] + 1
                       /\ rows'[m].attempts = rows[m].attempts + 1 /\ rows'[m].due = TRUE
<1>t. \A m \in picked : Taken(m) /\ tokens'[m] = tokens[m] + 1
  <2> SUFFICES ASSUME NEW m \in picked PROVE Taken(m) /\ tokens'[m] = tokens[m] + 1
    OBVIOUS
  <2>1. rows[m] \in Row /\ tokens[m] + 1 \in Nat /\ rows[m].due = TRUE
    BY <1>4 DEF IInv, TypeOK, Row
  <2>2. rows'[m] = Claimed(rows[m], tokens[m] + 1) /\ tokens'[m] = tokens[m] + 1
    BY <1>2, <1>4
  <2> DEFINE new == Claimed(rows[m], tokens[m] + 1)
  <2>3. /\ new.status = "processing" /\ new.token = tokens[m] + 1
        /\ new.attempts = rows[m].attempts + 1 /\ new.due = rows[m].due
    BY <2>1, ClaimedFields
  <2> HIDE DEF new
  <2>4. rows'[m] = new
    BY <2>2 DEF new
  <2>5. rows'[m].due = TRUE
    BY <2>1, <2>3, <2>4, Zenon
  <2> QED
    BY <2>2, <2>3, <2>4, <2>5
<1>5. ClaimsAreCurrent'
  <2> SUFFICES ASSUME NEW m \in Msg
               PROVE /\ rows'[m].status = "processing" => rows'[m].token = tokens'[m] /\ rows'[m].due
                     /\ rows'[m].status # "processing" => rows'[m].token = Null /\ ~ rows'[m].expired
                     /\ rows'[m].attempts = tokens'[m]
                     /\ rows'[m].status = "absent" => tokens'[m] = 0
    BY DEF ClaimsAreCurrent
  <2>1. CASE m \in picked
    BY <1>t, <2>1 DEF IInv, ClaimInv, ClaimsAreCurrent
  <2>2. CASE m \notin picked
    BY <1>2, <2>2 DEF IInv, ClaimInv, ClaimsAreCurrent
  <2> QED
    BY <2>1, <2>2
<1>6. AnsweredClaimsAreOver'
  <2> SUFFICES ASSUME NEW a \in acked
               PROVE a.token <= tokens'[a.msg]
                     /\ ~ (rows'[a.msg].status = "processing" /\ rows'[a.msg].token = a.token)
    BY <1>3 DEF AnsweredClaimsAreOver, HoldsClaim
  <2>1. a.msg \in Msg /\ a.token \in Nat /\ tokens[a.msg] \in Nat
    BY DEF IInv, TypeOK, Answer
  <2>2. a.token <= tokens[a.msg]
        /\ ~ (rows[a.msg].status = "processing" /\ rows[a.msg].token = a.token)
    BY DEF IInv, ClaimInv, AnsweredClaimsAreOver, HoldsClaim
  <2>3. CASE a.msg \in picked
    <3>1. rows'[a.msg].token = tokens[a.msg] + 1
      BY <1>t, <2>3
    <3>2. tokens'[a.msg] = tokens[a.msg] + 1
      BY <1>2, <2>1, <2>3
    <3> QED
      BY <2>1, <2>2, <3>1, <3>2
  <2>4. CASE a.msg \notin picked
    BY <1>2, <2>1, <2>2, <2>4
  <2> QED
    BY <2>3, <2>4
<1>7. DeliveredIsLast'
  BY <1>2, <1>3, <1>4 DEF IInv, TypeOK, Answer, ClaimInv, DeliveredIsLast
<1>8. MarkedRowsExist'
  BY <1>2, <1>3 DEF IInv, TypeOK, Row, ClaimInv, MarkedRowsExist, Claimed
<1>9. GivesUpAtLimit'
  BY <1>2, <1>t DEF IInv, ClaimInv, GivesUpAtLimit
<1> QED
  BY <1>3, <1>5, <1>6, <1>7, <1>8, <1>9 DEF IInv, ClaimInv, OneAnswerPerClaim

\* An acknowledgement settles the claim of a row in process, which nobody has
\* answered before.
LEMMA AckKeepsClaims ==
    ASSUME IInv, NEW m \in Msg, AckStep(m)
    PROVE  ClaimInv'
<1>1. PICK tok \in 1 .. tokens[m], result \in {"ok", "error"} : Ack(m, tok, result)
  BY DEF AckStep
<1> DEFINE new == [msg |-> m, token |-> tok, result |-> result]
<1>2. /\ rows[m].status = "processing" /\ rows[m].token = tok /\ tok = tokens[m]
      /\ tokens' = tokens /\ producers' = producers /\ acked' = acked \cup {new}
  BY <1>1 DEF Ack, HoldsClaim, IInv, ClaimInv, ClaimsAreCurrent
<1>3. rows' = [rows EXCEPT ![m] = IF result = "ok" THEN MarkedDelivered(rows[m])
                                                  ELSE Retried(rows[m])]
  BY <1>1 DEF Ack
<1>4. \A n \in Msg : n # m => rows'[n] = rows[n]
  BY <1>3 DEF IInv, TypeOK
<1>5. /\ rows'[m].status \in {"pending", "failed", "delivered"}
      /\ rows'[m].token = Null /\ rows'[m].expired = FALSE
      /\ rows'[m].attempts = rows[m].attempts
      /\ result = "ok" => rows'[m].status = "delivered"
  BY <1>3 DEF IInv, TypeOK, Row, MarkedDelivered, Retried
<1>6. ClaimsAreCurrent'
  BY <1>2, <1>4, <1>5 DEF IInv, TypeOK, ClaimInv, ClaimsAreCurrent
<1>7. \A a \in acked : a.msg \in Msg /\ a.token \in Nat /\ (a.msg = m => a.token # tok)
  BY <1>2 DEF IInv, TypeOK, Answer, ClaimInv, AnsweredClaimsAreOver, HoldsClaim
<1>8. AnsweredClaimsAreOver'
  BY <1>2, <1>4, <1>5, <1>7 DEF IInv, TypeOK, ClaimInv, AnsweredClaimsAreOver, HoldsClaim
<1>9. OneAnswerPerClaim'
  BY <1>2, <1>7 DEF IInv, ClaimInv, OneAnswerPerClaim
<1>10. DeliveredIsLast'
  BY <1>2, <1>4, <1>5, <1>7 DEF IInv, ClaimInv, DeliveredIsLast
<1>11. MarkedRowsExist'
  BY <1>2, <1>4, <1>5 DEF IInv, ClaimInv, MarkedRowsExist
<1>12. GivesUpAtLimit'
  <2>1. /\ rows'[m].status = "failed" => rows'[m].attempts >= MaxAttempts
        /\ rows'[m].status = "pending" => rows'[m].attempts < MaxAttempts
    BY <1>3, QueueAssumption DEF IInv, TypeOK, Row, MarkedDelivered, Retried
  <2> QED
    BY <1>4, <2>1 DEF IInv, ClaimInv, GivesUpAtLimit
<1> QED
  BY <1>6, <1>8, <1>9, <1>10, <1>11, <1>12 DEF ClaimInv

LEMMA ClaimStep == IInv /\ [Next]_qvars => IInv'
<1> SUFFICES ASSUME IInv, [Next]_qvars PROVE ClaimInv'
  BY TypeStep DEF IInv
<1>1. ASSUME NEW m \in Msg,
             EnqueueFails(m) \/ SendOK(m) \/ SendFails(m) \/ ProducerStops(m) \/ ProduceAgain(m)
      PROVE ClaimInv'
  <2>1. UNCHANGED <<rows, tokens, acked>>
    BY <1>1 DEF EnqueueFails, SendOK, SendFails, ProducerStops, ProduceAgain
  <2>2. MarkedRowsExist'
    BY <1>1, <2>1 DEF EnqueueFails, SendOK, SendFails, ProducerStops, ProduceAgain,
       IInv, TypeOK, ClaimInv, MarkedRowsExist
  <2> QED
    BY <2>1, <2>2, ClaimsKept
<1>2. CASE UNCHANGED qvars
  BY <1>2, ClaimsKept DEF qvars, IInv, ClaimInv, MarkedRowsExist
<1> QED
  BY <1>1, <1>2, EnqueueKeepsClaims, MarkKeepsClaims, AckKeepsClaims, TimerKeepsClaims,
     PullKeepsClaims DEF Next, ProducerStep

LEMMA InitClaims == Init => IInv
BY DEF Init, IInv, TypeOK, ClaimInv, ClaimsAreCurrent, AnsweredClaimsAreOver, MarkedRowsExist,
       OneAnswerPerClaim, DeliveredIsLast, GivesUpAtLimit, NoRow, Row, RowStatus, ProducerState, Answer

\* No acknowledgement takes effect twice, too late or against a delivery: a
\* claim that was taken over, settled or marked by the handler is refused.
THEOREM ClaimsAreSafe == Spec => []ClaimInv
<1>1. IInv => ClaimInv
  BY DEF IInv
<1> QED
  BY <1>1, InitClaims, ClaimStep, PTL DEF Spec

-----------------------------------------------------------------------------
(* The promise *)

LEMMA DeliveredStep ==
    ASSUME IInv, [Next]_qvars, NEW m \in Msg, rows[m].status = "delivered"
    PROVE  rows'[m] = rows[m]
<1>1. ASSUME NEW n \in Msg, ProducerStep(n) PROVE rows'[m] = rows[m]
  <2>1. CASE MarkDelivered(n) /\ n = m
    <3>1. rows[m].token = Null /\ rows[m].expired = FALSE /\ rows[m] \in Row
      BY DEF IInv, TypeOK, Row, ClaimInv, ClaimsAreCurrent
    <3>2. MarkedDelivered(rows[m]) = rows[m]
      BY <3>1 DEF MarkedDelivered, Row
    <3> QED
      BY <2>1, <3>2 DEF MarkDelivered, IInv, TypeOK
  <2>2. CASE MarkDelivered(n) /\ n # m
    BY <2>2 DEF MarkDelivered, IInv, TypeOK
  <2>3. CASE Enqueue(n)
    BY <2>3 DEF Enqueue, IInv, TypeOK
  <2> QED
    BY <1>1, <2>1, <2>2, <2>3 DEF ProducerStep, EnqueueFails, SendOK, SendFails,
       ProducerStops, ProduceAgain
<1>2. ASSUME NEW n \in Msg, AckStep(n) PROVE rows'[m] = rows[m]
  BY <1>2 DEF AckStep, Ack, HoldsClaim, IInv, TypeOK
<1>3. ASSUME NEW n \in Msg, TimeStep(n) PROVE rows'[m] = rows[m]
  BY <1>3 DEF TimeStep, BackoffEnds, ClaimExpires, IInv, TypeOK
<1>4. ASSUME Pull PROVE rows'[m] = rows[m]
  BY <1>4 DEF Pull, PullFrom, ClaimRows, Claimable
<1> QED
  BY <1>1, <1>2, <1>3, <1>4 DEF Next, qvars

\* A delivered row is never changed again: neither a late acknowledgement nor a
\* pull nor a second enqueue brings the message back.
THEOREM DeliveredForEver == Spec => DeliveredIsFinal
<1>1. IInv /\ [Next]_qvars => [\A m \in Msg : rows[m].status = "delivered" => rows'[m] = rows[m]]_qvars
  BY DeliveredStep
<1> QED
  BY <1>1, InitClaims, ClaimStep, PTL DEF Spec, DeliveredIsFinal

\* What is shown changes at most for the message that a step is about.
LEMMA OneChange ==
    ASSUME NEW m \in Msg, \A n \in Msg : n # m => rows'[n].status = rows[n].status
    PROVE  Outcome' = [Outcome EXCEPT ![m] = Shown(rows'[m].status)]
BY DEF Outcome

LEMMA NoChange ==
    ASSUME \A n \in Msg : rows'[n].status = rows[n].status
    PROVE  UNCHANGED Outcome
BY DEF Outcome

LEMMA PromiseStep == IInv /\ [Next]_qvars => [Promise!Next]_Outcome
<1> SUFFICES ASSUME IInv, [Next]_qvars PROVE [Promise!Next]_Outcome
  OBVIOUS
<1> USE DEF IInv, TypeOK
<1>1. ASSUME NEW m \in Msg, Enqueue(m) PROVE [Promise!Next]_Outcome
  <2>1. CASE rows[m].status = "absent"
    <3>1. rows'[m].status = "pending" /\ \A n \in Msg : n # m => rows'[n].status = rows[n].status
      BY <1>1, <2>1 DEF Enqueue, Inserted, NoRow
    <3>2. Outcome[m] = "none" /\ Shown(rows'[m].status) = "queued"
      BY <2>1, <3>1 DEF Outcome, Shown
    <3>3. Promise!Save(m)
      BY <3>1, <3>2, OneChange DEF Promise!Save
    <3> QED
      BY <3>3 DEF Promise!Next
  <2>2. CASE rows[m].status # "absent"
    BY <1>1, <2>2, NoChange DEF Enqueue
  <2> QED
    BY <2>1, <2>2
<1>2. ASSUME NEW m \in Msg, MarkDelivered(m) PROVE [Promise!Next]_Outcome
  <2>1. rows'[m].status = "delivered" /\ \A n \in Msg : n # m => rows'[n].status = rows[n].status
    BY <1>2 DEF MarkDelivered, MarkedDelivered, Row
  <2>2. Outcome' = [Outcome EXCEPT ![m] = "delivered"]
    BY <2>1, OneChange DEF Shown
  <2>3. Outcome[m] \in {"queued", "failed", "delivered"}
    BY <1>2 DEF MarkDelivered, ClaimInv, MarkedRowsExist, Outcome, Shown, Row, RowStatus
  <2>4. CASE Outcome[m] = "delivered"
    BY <2>2, <2>4 DEF Outcome
  <2>5. CASE Outcome[m] # "delivered"
    BY <2>2, <2>3, <2>5 DEF Promise!Next, Promise!Deliver
  <2> QED
    BY <2>4, <2>5
<1>3. ASSUME NEW m \in Msg, AckStep(m) PROVE [Promise!Next]_Outcome
  <2>1. PICK tok \in 1 .. tokens[m], result \in {"ok", "error"} : Ack(m, tok, result)
    BY <1>3 DEF AckStep
  <2>2. /\ Outcome[m] = "queued"
        /\ \A n \in Msg : n # m => rows'[n].status = rows[n].status
        /\ rows'[m].status \in {"delivered", "pending", "failed"}
    BY <2>1 DEF Ack, HoldsClaim, Outcome, Shown, MarkedDelivered, Retried, Row
  <2>3. Outcome' = [Outcome EXCEPT ![m] = Shown(rows'[m].status)]
    BY <2>2, OneChange
  <2>4. CASE rows'[m].status = "delivered"
    BY <2>2, <2>3, <2>4 DEF Promise!Next, Promise!Deliver, Shown
  <2>5. CASE rows'[m].status = "failed"
    BY <2>2, <2>3, <2>5 DEF Promise!Next, Promise!GiveUp, Shown
  <2>6. CASE rows'[m].status = "pending"
    BY <2>2, <2>3, <2>6 DEF Shown, Outcome
  <2> QED
    BY <2>2, <2>4, <2>5, <2>6
<1>4. ASSUME NEW m \in Msg, TimeStep(m) PROVE [Promise!Next]_Outcome
  <2>1. \A n \in Msg : rows'[n].status = rows[n].status
    BY <1>4 DEF TimeStep, BackoffEnds, ClaimExpires, Row
  <2> QED
    BY <2>1, NoChange
<1>5. ASSUME Pull PROVE [Promise!Next]_Outcome
  <2>1. PICK picked \in SUBSET Claimable : ClaimRows(picked)
    BY <1>5 DEF Pull, PullFrom
  <2>2. \A m \in picked : rows[m].status \in {"pending", "processing"}
                         /\ rows'[m].status = "processing"
    BY <2>1 DEF Claimable, ClaimRows, NewToken, Row, Claimed
  <2>3. \A m \in Msg : m \notin picked => rows'[m] = rows[m]
    BY <2>1 DEF ClaimRows
  <2>4. \A m \in Msg : Shown(rows'[m].status) = Shown(rows[m].status)
    BY <2>2, <2>3 DEF Shown
  <2> QED
    BY <2>4 DEF Outcome
<1>6. ASSUME NEW m \in Msg,
             EnqueueFails(m) \/ SendOK(m) \/ SendFails(m) \/ ProducerStops(m) \/ ProduceAgain(m)
      PROVE [Promise!Next]_Outcome
  BY <1>6, NoChange DEF EnqueueFails, SendOK, SendFails, ProducerStops, ProduceAgain
<1>7. CASE UNCHANGED qvars
  BY <1>7, NoChange DEF qvars
<1> QED
  BY <1>1, <1>2, <1>3, <1>4, <1>5, <1>6, <1>7 DEF Next, ProducerStep

\* The queue implements the safety of the promise: every step of the table shows
\* as saving, delivering or giving up one message, or does not show.
THEOREM QueueImplementsDelivery == Spec => Implements
<1>1. Init => Promise!Init
  BY DEF Init, Promise!Init, Outcome, Shown, NoRow
<1> QED
  BY <1>1, InitClaims, ClaimStep, PromiseStep, PTL DEF Spec, Implements, Promise!Spec

=============================================================================
