------------------------------- MODULE IssueFlow ------------------------------
(***************************************************************************)
(* One issue under the requests that work on it at the same time: the      *)
(* flow of its template, the blockers raised on it, its approval, PATCH    *)
(* with what follows it (the automatic review request, the kickoff behind  *)
(* the gate on Ellie's context, the compliance review) and the imports     *)
(* from GitHub.  A handler reads and writes in several transactions, and   *)
(* each of them is one action.  Whether the owner of the issue is set or   *)
(* changes is a choice: nothing else here reads the owner.                 *)
(***************************************************************************)
EXTENDS IssueRow, Naturals, Sequences

CONSTANTS
    IssueClient,     \* requests that can be under way at once
    Flow,            \* the steps of the template, in their order
    MaxRequests      \* requests in a behaviour

\* The steps of a template are numbered from 1; 0 is a next or reject step that is not set.
FlowStep == [type : {"work", "review"}, actor : {"agent", "human"},
             next : 0 .. Len(Flow), reject : 0 .. Len(Flow)]

ASSUME FlowAssumption == Flow \in Seq(FlowStep) /\ Len(Flow) > 0

ASSUME MaxRequestsAssumption == MaxRequests \in Nat

VARIABLES
    issue,     \* the row: IssueRow's fields, and the flow step (0: no template)
    raised,    \* how many blockers were raised
    open,      \* the number of the blocker that is open, or 0
    gate,      \* ellie_context_gate_status
    warm,      \* the trigger of the gate has run to its end
    excused,   \* a kickoff met no gate: no pipeline steps, or the gate is switched off
    kicked,    \* a kickoff was dispatched
    reviewed,  \* a reviewer's approval was recorded
    accepted,  \* a project that requires a human took an approval through Approve
    archived,  \* the chat of the issue was archived
    req,       \* the local state of each request
    started    \* requests so far

issueVars == <<issue, raised, open, gate, warm, excused, kicked, reviewed, accepted, archived, req, started>>

Brief == [state : IssueState, work : Work]

\* What a PATCH changed: the row before it, and whether it named a status, named another
\* owner, and left the issue with an owner.
Patch == [was : Brief, asked : BOOLEAN, reowned : BOOLEAN, owned : BOOLEAN]

Idle == [pc |-> "idle"]

Request ==
    {Idle}
    \cup [pc : {"approve"}, target : Approval, human : BOOLEAN]
    \cup [pc : {"patch"}, was : Brief]
    \cup [pc : {"patched"}, patch : Patch, now : Brief]
    \cup [pc : {"kickoff", "gate", "warmed", "dispatch", "close", "reopen", "archive"}]
    \cup [pc : {"advance", "status"}, step : 1 .. Len(Flow)]
    \cup [pc : {"move"}, step : 1 .. Len(Flow), seen : 0 .. MaxRequests]
    \cup [pc : {"raised", "escalated", "resolved"}]

\* IssueFlow's own row: what IssueRow knows, and the step of the flow.
FlowRow == [state : IssueState, work : Work, approval : Approval, step : 0 .. Len(Flow)]

BriefOf(r) == [state |-> r.state, work |-> r.work]

IssueInit ==
    /\ \E s \in IssueState : LET r == Inserted(s) IN
        issue = [state |-> r.state, work |-> r.work, approval |-> r.approval, step |-> 0]
    /\ raised = 0 /\ open = 0 /\ gate = "none"
    /\ warm = FALSE /\ excused = FALSE /\ kicked = FALSE
    /\ reviewed = FALSE /\ accepted = FALSE /\ archived = FALSE
    /\ req = [c \in IssueClient |-> Idle]
    /\ started = 0

-----------------------------------------------------------------------------
(* Mutants *)

\* AdvanceFlow does not ask for open blockers.
Unblocked == TRUE

\* Every approval of a reviewed issue is final.
ApproveTargetAny(human) == IF issue.approval = "draft" THEN {} ELSE {"approved"}

\* The gate lets a kickoff pass whose check failed before.
GatePassesFailed == gate # "none"

-----------------------------------------------------------------------------
(* Requests *)

Begin(c) == req[c] = Idle /\ started < MaxRequests /\ started' = started + 1

At(c, pc) == req[c].pc = pc /\ UNCHANGED started

Go(c, r) == req' = [req EXCEPT ![c] = r]

End(c) == Go(c, Idle)

blockerVars == <<raised, open>>
gateVars == <<gate, warm, excused, kicked>>
pastVars == <<reviewed, accepted, archived>>

\* A request is cancelled, or its server stops, between two transactions.
Abandon(c) ==
    /\ req[c] # Idle /\ End(c)
    /\ UNCHANGED <<issue, blockerVars, gateVars, pastVars, started>>

\* UpdateIssueWorkTracking refuses what is asked for.
Refused(work, state) == Tracked(issue, work, state) = {} /\ UNCHANGED issue

\* It is the last transaction of a handler: done or refused, the request ends.
Track(c, work) ==
    /\ issue' \in Tracked(issue, work, Keep) \/ Refused(work, Keep)
    /\ End(c)

-----------------------------------------------------------------------------
(* Approval *)

\* resolveApproveTargetApprovalState, for a project that requires a human review or not.
ApproveTarget(human) ==
    IF ~human THEN {"approved"}
    ELSE CASE issue.approval = "ready_for_review" -> {"approved_by_reviewer"}
           [] issue.approval = "approved_by_reviewer" -> {"approved"}
           [] OTHER -> {}

ApproveRead(c) ==
    /\ Begin(c)
    /\ \E human \in BOOLEAN : \E t \in ApproveTarget(human) :
        Go(c, [pc |-> "approve", target |-> t, human |-> human])
    /\ UNCHANGED <<issue, blockerVars, gateVars, pastVars>>

ApproveWrite(c) ==
    /\ At(c, "approve")
    /\ \E r \in Transitioned(issue, req[c].target) :
        /\ issue' = r
        /\ reviewed' = (reviewed \/ r.approval = "approved_by_reviewer")
        /\ accepted' = (accepted \/ (req[c].human /\ r.approval = "approved"))
    /\ End(c)
    /\ UNCHANGED <<blockerVars, gateVars, archived>>

\* The endpoint that sets an approval state by name.
SetApproval(c) ==
    /\ Begin(c)
    /\ \E next \in Approval : \E r \in Transitioned(issue, next) :
        issue' = r /\ reviewed' = (reviewed \/ next = "approved_by_reviewer")
    /\ UNCHANGED <<blockerVars, gateVars, accepted, archived, req>>

\* A webhook or the importer brings the issue in again.
Import(c) ==
    /\ Begin(c)
    /\ \E s \in IssueState : issue' = Imported(issue, s)
    /\ UNCHANGED <<blockerVars, gateVars, pastVars, req>>

-----------------------------------------------------------------------------
(* PATCH *)

PatchRead(c) ==
    /\ Begin(c)
    /\ Go(c, [pc |-> "patch", was |-> BriefOf(issue)])
    /\ UNCHANGED <<issue, blockerVars, gateVars, pastVars>>

\* Whether shouldAutoReadyForReview holds of the row.
WantsReview(r) == r.work \in {"review", "done"} /\ r.approval \in {"draft", "needs_changes"}

\* shouldDispatchIssueKickoffAfterPatch: an open issue with an owner, whose owner changed
\* or whose asked-for status started it.
Kicks(p, now) ==
    /\ now.state = "open"
    /\ p.owned
    /\ p.reowned \/ (p.asked /\ p.was.work # now.work /\ now.work \in {"queued", "in_progress"})

\* What PatchIssue goes on with, given the row that it holds.
AfterPatch(p, now) ==
    IF Kicks(p, now) THEN [pc |-> "kickoff"]
    ELSE IF p.was.state # "closed" /\ now.state = "closed" THEN [pc |-> "close"]
    ELSE Idle

PatchWrite(c) ==
    /\ At(c, "patch")
    /\ \E w \in Work \cup {Keep}, s \in IssueState \cup {Keep}, reowned, owned \in BOOLEAN :
        LET p == [was |-> req[c].was, asked |-> w # Keep, reowned |-> reowned, owned |-> owned]
        IN  \/ /\ issue' \in Tracked(issue, w, s)
               /\ Go(c, IF WantsReview(issue')
                        THEN [pc |-> "patched", patch |-> p, now |-> BriefOf(issue')]
                        ELSE AfterPatch(p, BriefOf(issue')))
            \/ Refused(w, s) /\ End(c)
    /\ UNCHANGED <<blockerVars, gateVars, pastVars>>

\* maybeAutoReadyForReviewFromWorkStatus: the request goes on with the row as the transition
\* found it, or with its own when the transition fails.
PatchReady(c) ==
    /\ At(c, "patched")
    /\ \/ \E r \in Transitioned(issue, "ready_for_review") :
            issue' = r /\ Go(c, AfterPatch(req[c].patch, BriefOf(r)))
       \/ /\ Transitioned(issue, "ready_for_review") = {}
          /\ Go(c, AfterPatch(req[c].patch, req[c].now)) /\ UNCHANGED issue
    /\ UNCHANGED <<blockerVars, gateVars, pastVars>>

\* The context was warmed for this issue before, or the gate is switched off.
GatePasses == gate \in {"succeeded", "bypassed"}

Step(c, pc) == Go(c, [pc |-> pc])

\* dispatchIssueKickoffBestEffort up to the trigger: no target; no gate, as the project has
\* no pipeline steps or they fail to load; a gate that passed; one that the environment of
\* this server bypasses; or the trigger, also when the gate's status fails to load.
KickoffGate(c) ==
    /\ At(c, "kickoff")
    /\ \/ End(c) /\ UNCHANGED <<gate, excused>>
       \/ GatePasses /\ Step(c, "dispatch") /\ UNCHANGED <<gate, excused>>
       \/ gate' \in {gate, "bypassed"} /\ excused' = TRUE /\ Step(c, "dispatch")
       \/ Step(c, "gate") /\ UNCHANGED <<gate, excused>>
    /\ UNCHANGED <<issue, blockerVars, warm, kicked, pastVars>>

\* The trigger writes its comment, or fails and with it the gate and the kickoff.
WarmUp(c) ==
    /\ At(c, "gate")
    /\ \/ warm' = TRUE /\ Step(c, "warmed") /\ UNCHANGED gate
       \/ gate' \in {gate, "failed"} /\ End(c) /\ UNCHANGED warm
    /\ UNCHANGED <<issue, blockerVars, excused, kicked, pastVars>>

\* The gate keeps its success; an error of that write is only logged.
Warmed(c) ==
    /\ At(c, "warmed")
    /\ gate' \in {gate, "succeeded"}
    /\ Step(c, "dispatch")
    /\ UNCHANGED <<issue, blockerVars, warm, excused, kicked, pastVars>>

Kickoff(c) ==
    /\ At(c, "dispatch")
    /\ kicked' = TRUE
    /\ End(c)
    /\ UNCHANGED <<issue, blockerVars, gate, warm, excused, pastVars>>

\* ReviewIssueClose: a review that fails or blocks nothing is followed by the archive.
ReviewClose(c) ==
    /\ At(c, "close")
    /\ Step(c, "archive") \/ Step(c, "reopen")
    /\ UNCHANGED <<issue, blockerVars, gateVars, pastVars>>

\* A blocking review asks for the state "open"; the row it gets back decides on the archive.
Reopen(c) ==
    /\ At(c, "reopen")
    /\ \E r \in Tracked(issue, Keep, "open") :
        issue' = r /\ Go(c, IF r.state = "closed" THEN [pc |-> "archive"] ELSE Idle)
    /\ UNCHANGED <<blockerVars, gateVars, pastVars>>

Archive(c) ==
    /\ At(c, "archive")
    /\ archived' \in {archived, TRUE}
    /\ End(c)
    /\ UNCHANGED <<issue, blockerVars, gateVars, reviewed, accepted>>

-----------------------------------------------------------------------------
(* The flow *)

AssignFlow(c) ==
    /\ Begin(c)
    /\ issue' = [issue EXCEPT !.step = 1]
    /\ UNCHANGED <<blockerVars, gateVars, pastVars, req>>

AdvanceRead(c) ==
    /\ Begin(c)
    /\ issue.work # "on_hold" /\ issue.step # 0
    /\ Go(c, [pc |-> "advance", step |-> issue.step])
    /\ UNCHANGED <<issue, blockerVars, gateVars, pastVars>>

\* No blocker is open when AdvanceFlow asks.
NotBlocked == open = 0

AdvanceCheck(c) ==
    /\ At(c, "advance")
    /\ \/ NotBlocked /\ Go(c, [pc |-> "move", step |-> req[c].step, seen |-> raised])
       \/ ~NotBlocked /\ End(c)
    /\ UNCHANGED <<issue, blockerVars, gateVars, pastVars>>

\* The steps that a decision may lead to from step k.
Targets(k) ==
    {t \in {Flow[k].next} \cup (IF Flow[k].type = "review" THEN {Flow[k].reject} ELSE {}) : t # 0}

AdvanceWrite(c) ==
    /\ At(c, "move")
    /\ \/ \E t \in Targets(req[c].step) :
            issue' = [issue EXCEPT !.step = t] /\ Go(c, [pc |-> "status", step |-> t])
       \/ End(c) /\ UNCHANGED issue
    /\ UNCHANGED <<blockerVars, gateVars, pastVars>>

\* The status that goes with a step.
StepStatus(k) ==
    IF Flow[k].type = "review" THEN "review"
    ELSE IF Flow[k].actor = "human" THEN "on_hold" ELSE "in_progress"

AdvanceStatus(c) ==
    /\ At(c, "status")
    /\ Track(c, StepStatus(req[c].step))
    /\ UNCHANGED <<blockerVars, gateVars, pastVars>>

\* Create of the blocker store locks the issue and refuses a second open blocker.
RaiseBlocker(c) ==
    /\ Begin(c) /\ open = 0
    /\ raised' = raised + 1 /\ open' = raised + 1
    /\ Go(c, [pc |-> "raised"])
    /\ UNCHANGED <<issue, gateVars, pastVars>>

EscalateBlocker(c) ==
    /\ Begin(c) /\ open # 0
    /\ Go(c, [pc |-> "escalated"])
    /\ UNCHANGED <<issue, blockerVars, gateVars, pastVars>>

ResolveBlocker(c) ==
    /\ Begin(c) /\ open # 0
    /\ open' = 0
    /\ Go(c, [pc |-> "resolved"])
    /\ UNCHANGED <<issue, raised, gateVars, pastVars>>

\* The statuses that the second transaction of a blocker request may ask for.
BlockerStatus(pc) ==
    CASE pc = "raised" -> {"blocked"}
      [] pc = "escalated" -> {"on_hold"}
      [] pc = "resolved" -> Work

BlockerFollows(c) ==
    /\ req[c].pc \in {"raised", "escalated", "resolved"} /\ UNCHANGED started
    /\ \E w \in BlockerStatus(req[c].pc) : Track(c, w)
    /\ UNCHANGED <<blockerVars, gateVars, pastVars>>

-----------------------------------------------------------------------------

Approving(c) == ApproveRead(c) \/ ApproveWrite(c) \/ SetApproval(c) \/ Import(c)

Patching(c) ==
    \/ PatchRead(c) \/ PatchWrite(c) \/ PatchReady(c) \/ KickoffGate(c) \/ WarmUp(c)
    \/ Warmed(c) \/ Kickoff(c) \/ ReviewClose(c) \/ Reopen(c) \/ Archive(c)

Advancing(c) ==
    AssignFlow(c) \/ AdvanceRead(c) \/ AdvanceCheck(c) \/ AdvanceWrite(c) \/ AdvanceStatus(c)

Blocking(c) == RaiseBlocker(c) \/ EscalateBlocker(c) \/ ResolveBlocker(c) \/ BlockerFollows(c)

IssueNext ==
    \E c \in IssueClient : Approving(c) \/ Patching(c) \/ Advancing(c) \/ Blocking(c) \/ Abandon(c)

IssueSpec == IssueInit /\ [][IssueNext]_issueVars

-----------------------------------------------------------------------------
(* Properties *)

\* The columns of the row, and what each request carries from one transaction to the next.
IssueTypeOK ==
    /\ issue \in FlowRow
    /\ raised \in 0 .. MaxRequests /\ open \in {0, raised}
    /\ gate \in {"none", "failed", "succeeded", "bypassed"}
    /\ {warm, excused, kicked, reviewed, accepted, archived} \subseteq BOOLEAN
    /\ req \in [IssueClient -> Request]
    /\ started \in 0 .. MaxRequests /\ raised <= started

\* A closed issue has a terminal status and a done one is closed, whichever of the four
\* writers of the two columns wrote last and however their requests overlap.
StateMatchesWork == Agrees(issue)

\* Once an issue is approved only an import takes the approval back: it no longer matters
\* what the requests under way had read.
ApprovedIsFinal ==
    [][issue.approval = "approved" /\ issue'.approval # "approved" => \E c \in IssueClient : Import(c)]_issueVars

\* In a project that requires a human, Approve makes an issue approved only after some
\* reviewer approved it, although the handler decides on what it read before its transaction.
HumanFollowsReviewer == accepted => reviewed

\* The flow is never moved past a blocker that AdvanceFlow could have seen: one that is open
\* when the step is written was raised after the handler had asked for open blockers.  It
\* holds of a blocker whose second write, the status, failed too.
AdvanceStopsAtBlocker ==
    [][\A c \in IssueClient : AdvanceWrite(c) /\ issue'.step # issue.step /\ open # 0
                                => open > req[c].seen]_issueVars

\* A kickoff goes out only when the context was warmed, by the trigger of its own request or by
\* one whose success the gate keeps, unless the gate did not apply or is switched off.
KickoffIsWarm == kicked => warm \/ excused

\* A compliance review that blocks does not reopen the issue: UpdateIssueWorkTracking closes
\* every issue whose status is terminal.  It may even close one.
ReviewNeverReopens ==
    [][\A c \in IssueClient : Reopen(c) /\ issue'.state = "open" => issue' = issue]_issueVars

\* What no overlap of requests on an issue can do: let the state part from the work status, let
\* a person's approval stand without a reviewer's, or start an agent without its context.
IssueIsSound == StateMatchesWork /\ HumanFollowsReviewer /\ KickoffIsWarm
=============================================================================
