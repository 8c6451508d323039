------------------------------ MODULE ExecApprovals ---------------------------
(***************************************************************************)
(* One request of an agent to run a command, which a person approves or    *)
(* denies.  The request comes by webhook, also more than once; Respond     *)
(* reads the row, posts the decision to the agent's callback, and only     *)
(* then writes it to the row if that is still pending, and tells browsers. *)
(***************************************************************************)
EXTENDS Naturals

CONSTANTS
    Responder,     \* calls of Respond that can be under way at once
    MaxResponds    \* calls of Respond in a behaviour

ASSUME RespondsAssumption == MaxResponds \in Nat

Decision == {"approve", "deny"}

VARIABLES
    approval,      \* the status of the row, or "none" without one
    hasCallback,   \* the request names a callback
    heard,         \* the decisions that the callback took
    told,          \* how often each decision was broadcast
    responder,     \* the local state of each call
    responds

execVars == <<approval, hasCallback, heard, told, responder, responds>>

NoRespond == [pc |-> "idle"]

ExecInit ==
    /\ approval = "none" /\ hasCallback \in BOOLEAN
    /\ heard = {} /\ told = [d \in Decision |-> 0]
    /\ responder = [c \in Responder |-> NoRespond]
    /\ responds = 0

-----------------------------------------------------------------------------
(* Mutants *)

\* The update does not ask whether the row is still pending.
AlwaysUndecided == TRUE

\* The row is written first, and the callback is posted afterwards.
AfterReadRecord == "record"

-----------------------------------------------------------------------------

Responding(c, pc) == responder[c].pc = pc /\ UNCHANGED <<hasCallback, responds>>

\* handleExecApprovalWebhook: the insert does nothing when the request is known.
Requested == approval' = IF approval = "none" THEN "pending" ELSE approval

RequestComes ==
    /\ Requested
    /\ UNCHANGED <<hasCallback, heard, told, responder, responds>>

\* What comes after the row was found pending.
AfterRead == IF hasCallback THEN "post" ELSE "record"

RespondRead(c) ==
    /\ responder[c] = NoRespond /\ responds < MaxResponds
    /\ approval = "pending"
    /\ \E d \in Decision : responder' = [responder EXCEPT ![c] = [pc |-> AfterRead, d |-> d]]
    /\ responds' = responds + 1
    /\ UNCHANGED <<approval, hasCallback, heard, told>>

\* postExecApprovalCallback: the agent answers, or the call fails, be it that the agent heard
\* the decision and the answer was lost.
PostCallback(c) ==
    /\ Responding(c, "post")
    /\ \/ /\ heard' = heard \cup {responder[c].d}
          /\ responder' \in {[responder EXCEPT ![c].pc = "record"], [responder EXCEPT ![c] = NoRespond]}
       \/ heard' = heard /\ responder' = [responder EXCEPT ![c] = NoRespond]
    /\ UNCHANGED <<approval, told>>

\* The status of a decision.
StatusOf(d) == IF d = "approve" THEN "approved" ELSE "denied"

\* The row is still pending when the decision is written.
Undecided == approval = "pending"

\* resolveExecApproval; if it wrote, the broadcast follows, unless the server stops before.
RecordDecision(c) ==
    /\ Responding(c, "record")
    /\ \/ /\ Undecided
          /\ approval' = StatusOf(responder[c].d)
          /\ told' \in {told, [told EXCEPT ![responder[c].d] = @ + 1]}
       \/ ~Undecided /\ UNCHANGED <<approval, told>>
    /\ responder' = [responder EXCEPT ![c] = NoRespond]
    /\ UNCHANGED heard

\* The request is cancelled, the database fails or the server stops.
RespondAborts(c) ==
    /\ responder[c] # NoRespond /\ responder' = [responder EXCEPT ![c] = NoRespond]
    /\ UNCHANGED <<approval, hasCallback, heard, told, responds>>

ExecNext ==
    \/ RequestComes
    \/ \E c \in Responder : RespondRead(c) \/ PostCallback(c) \/ RecordDecision(c) \/ RespondAborts(c)

ExecSpec == ExecInit /\ [][ExecNext]_execVars

-----------------------------------------------------------------------------
(* Properties *)

ExecTypeOK ==
    /\ approval \in {"none", "pending", "approved", "denied"} /\ hasCallback \in BOOLEAN
    /\ heard \subseteq Decision /\ told \in [Decision -> Nat]
    /\ responder \in [Responder -> {NoRespond} \cup [pc : {"post", "record"}, d : Decision]]
    /\ responds \in 0 .. MaxResponds

\* The row and the browsers agree: whatever two people answer at the same time, and however
\* often the webhook repeats the request, one decision is recorded and stands, and no other is
\* ever broadcast.
OneDecision == \A d \in Decision : told[d] <= IF approval = StatusOf(d) THEN 1 ELSE 0

\* A decision that is recorded reached the agent before.  The agent may also have heard the
\* other one: two calls may both post before either writes, and a call that posts and then
\* fails leaves the row to be decided again.
RecordedIsHeard == hasCallback => \A d \in Decision : approval = StatusOf(d) => d \in heard

\* The row, the browsers and the agent agree as far as the order of the three writes can make
\* them.
DecisionIsShared == OneDecision /\ RecordedIsHeard
=============================================================================
