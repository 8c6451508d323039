------------------------------ MODULE IssueProofs -----------------------------
(***************************************************************************)
(* Proofs about IssueFlow and IssuePipeline, for any number of requests,   *)
(* any flow and any pipelines: what overlapping requests cannot do to the  *)
(* row of an issue, its approval, its flow, its kickoff and its pipeline.  *)
(***************************************************************************)
EXTENDS IssueFlow, IssuePipeline, TLAPS

-----------------------------------------------------------------------------
(* The row *)

\* The status and the state that UpdateIssueWorkTracking writes agree, also when those of the row
\* did not.
LEMMA StatusAgrees ==
    ASSUME NEW r, r.state \in IssueState, NEW work \in Work, NEW s \in IssueState \cup {Keep},
           NEW state, state = NextState(r, work, s),
           NEW last, last = IF state = "closed" /\ work \notin Terminal THEN "done" ELSE work
    PROVE  /\ state \in IssueState /\ last \in Work
           /\ state = "closed" => last \in Terminal
           /\ last = "done" => state = "closed"
BY DEF NextState, IssueState, Keep, Work, Terminal

LEMMA TrackedFlowRow ==
    ASSUME NEW r \in FlowRow, NEW w \in Work \cup {Keep}, NEW s \in IssueState \cup {Keep},
           NEW q \in Tracked(r, w, s)
    PROVE  q \in FlowRow /\ Agrees(q) /\ q.approval = r.approval /\ q.step = r.step
<1> DEFINE work == IF w = Keep THEN r.work ELSE w
           state == NextState(r, work, s)
           last == IF state = "closed" /\ work \notin Terminal THEN "done" ELSE work
<1>1. work \in Work /\ r.state \in IssueState
    BY DEF Work, Keep, FlowRow
<1>2. q = [r EXCEPT !.work = last, !.state = state]
    BY DEF Tracked
<1> HIDE DEF work
<1>3. /\ state \in IssueState /\ last \in Work
      /\ state = "closed" => last \in Terminal
      /\ last = "done" => state = "closed"
    BY <1>1, StatusAgrees
<1> HIDE DEF last, state
<1>4. q.work = last /\ q.state = state /\ q.approval = r.approval /\ q.step = r.step
    BY <1>2 DEF FlowRow
<1>5. q \in FlowRow
    BY <1>2, <1>3 DEF FlowRow
<1> QED BY <1>3, <1>4, <1>5 DEF Agrees

LEMMA TransitionedFlowRow ==
    ASSUME NEW r \in FlowRow, NEW next \in Approval, NEW q \in Transitioned(r, next)
    PROVE  /\ q \in FlowRow /\ q.approval = next /\ q.step = r.step
           /\ MayApprove(r.approval, next)
           /\ Agrees(r) => Agrees(q)
<1>1. MayApprove(r.approval, next)
    BY DEF Transitioned
<1>2. CASE q = [r EXCEPT !.approval = next]
    BY <1>1, <1>2 DEF FlowRow, Agrees
<1>3. ASSUME q = [r EXCEPT !.approval = next, !.state = "closed",
                           !.work = IF @ = "cancelled" THEN @ ELSE "done"]
      PROVE  q \in FlowRow /\ q.approval = next /\ q.step = r.step /\ Agrees(q)
    BY <1>3 DEF FlowRow, Agrees, Terminal, Work, IssueState
<1> QED BY <1>1, <1>2, <1>3 DEF Transitioned

LEMMA ImportedFlowRow ==
    ASSUME NEW r \in FlowRow, NEW s \in IssueState
    PROVE  /\ Imported(r, s) \in FlowRow /\ Agrees(Imported(r, s))
           /\ Imported(r, s).approval \in {"approved", "draft"}
BY DEF Imported, FlowRow, Agrees, IssueState, Work, Approval, Terminal

-----------------------------------------------------------------------------
(* The types of IssueFlow *)

LEMMA GoType ==
    ASSUME IssueTypeOK, NEW c \in IssueClient, NEW r \in Request, Go(c, r)
    PROVE  req' \in [IssueClient -> Request]
BY DEF IssueTypeOK, Go

LEMMA IssueTypeInit == IssueInit => IssueTypeOK
<1> SUFFICES ASSUME IssueInit PROVE IssueTypeOK
    OBVIOUS
<1>1. PICK s \in IssueState :
        issue = [state |-> Inserted(s).state, work |-> Inserted(s).work,
                 approval |-> Inserted(s).approval, step |-> 0]
    BY DEF IssueInit
<1>2. /\ Inserted(s).state \in IssueState /\ Inserted(s).work \in Work
      /\ Inserted(s).approval \in Approval
    BY DEF Inserted, IssueState, Work, Approval
<1>3. issue \in FlowRow
    BY <1>1, <1>2, FlowAssumption DEF FlowRow
<1>4. req \in [IssueClient -> Request]
    BY DEF IssueInit, Request
<1>5. 0 \in 0 .. MaxRequests
    BY MaxRequestsAssumption
<1>6. {warm, excused, kicked, reviewed, accepted, archived} \subseteq BOOLEAN
    BY DEF IssueInit
<1>7. /\ raised \in 0 .. MaxRequests /\ started \in 0 .. MaxRequests /\ raised <= started
      /\ open \in {0, raised}
    BY <1>5 DEF IssueInit
<1> QED BY <1>3, <1>4, <1>6, <1>7 DEF IssueInit, IssueTypeOK

\* The variables that are true or false.
Flags == {warm, excused, kicked, reviewed, accepted, archived}

\* What a step has to keep for the types.
LEMMA TypeParts ==
    ASSUME IssueTypeOK, issue' \in FlowRow, req' \in [IssueClient -> Request],
           Flags' \subseteq BOOLEAN, gate' \in {"none", "failed", "succeeded", "bypassed"},
           started' \in {started, started + 1}, started' <= MaxRequests,
           raised' = raised \/ (raised' = raised + 1 /\ started' = started + 1),
           open' \in {0, raised'} \/ (open' = open /\ raised' = raised)
    PROVE  IssueTypeOK'
<1>1. /\ raised' \in 0 .. MaxRequests /\ started' \in 0 .. MaxRequests /\ raised' <= started'
      /\ open' \in {0, raised'}
    BY MaxRequestsAssumption DEF IssueTypeOK
<1> QED BY <1>1 DEF IssueTypeOK, Flags

\* A step that starts a request or goes on with one.
LEMMA Counts ==
    ASSUME IssueTypeOK, NEW c \in IssueClient, Begin(c) \/ UNCHANGED started
    PROVE  started' \in {started, started + 1} /\ started' <= MaxRequests
BY MaxRequestsAssumption DEF IssueTypeOK, Begin

\* A step that leaves the blockers, the gate and the flags alone.
LEMMA TypeRow ==
    ASSUME IssueTypeOK, NEW c \in IssueClient, Begin(c) \/ UNCHANGED started,
           issue' \in FlowRow, req' \in [IssueClient -> Request],
           UNCHANGED <<blockerVars, gateVars, pastVars>>
    PROVE  IssueTypeOK'
<1>1. Flags' \subseteq BOOLEAN
    BY DEF IssueTypeOK, Flags, gateVars, pastVars
<1>2. gate' \in {"none", "failed", "succeeded", "bypassed"} /\ raised' = raised /\ open' = open
    BY DEF IssueTypeOK, gateVars, blockerVars
<1> QED BY <1>1, <1>2, Counts, TypeParts

LEMMA ApprovingType ==
    ASSUME IssueTypeOK, NEW c \in IssueClient, Approving(c)
    PROVE  IssueTypeOK'
<1>1. issue \in FlowRow
    BY DEF IssueTypeOK
<1>2. CASE ApproveRead(c)
    <2>1. PICK human \in BOOLEAN : \E t \in ApproveTarget(human) :
            Go(c, [pc |-> "approve", target |-> t, human |-> human])
        BY <1>2 DEF ApproveRead
    <2>2. PICK t \in ApproveTarget(human) : Go(c, [pc |-> "approve", target |-> t, human |-> human])
        BY <2>1
    <2>3. t \in Approval
        BY DEF ApproveTarget, Approval
    <2>4. [pc |-> "approve", target |-> t, human |-> human] \in Request
        BY <2>3 DEF Request
    <2>5. req' \in [IssueClient -> Request]
        BY <2>2, <2>4, GoType
    <2> QED BY <1>1, <1>2, <2>5, TypeRow DEF ApproveRead
<1>3. CASE ApproveWrite(c)
    <2>1. req[c].target \in Approval
        BY <1>3 DEF ApproveWrite, At, IssueTypeOK, Request, Idle
    <2>2. issue' \in FlowRow
        BY <1>1, <1>3, <2>1, TransitionedFlowRow DEF ApproveWrite
    <2>3. req' \in [IssueClient -> Request]
        BY <1>3, GoType DEF ApproveWrite, End, Request
    <2>4. Flags' \subseteq BOOLEAN
        <3>1. reviewed' \in BOOLEAN /\ accepted' \in BOOLEAN
            BY <1>3, Zenon DEF ApproveWrite
        <3> QED BY <1>3, <3>1 DEF ApproveWrite, IssueTypeOK, Flags, gateVars
    <2> QED BY <1>3, <2>2, <2>3, <2>4, Counts, TypeParts
            DEF ApproveWrite, At, IssueTypeOK, gateVars, blockerVars
<1>4. CASE SetApproval(c)
    <2>1. issue' \in FlowRow
        BY <1>1, <1>4, TransitionedFlowRow DEF SetApproval
    <2>2. Flags' \subseteq BOOLEAN
        <3>1. reviewed' \in BOOLEAN
            BY <1>4, Zenon DEF SetApproval
        <3> QED BY <1>4, <3>1 DEF SetApproval, IssueTypeOK, Flags, gateVars
    <2> QED BY <1>4, <2>1, <2>2, Counts, TypeParts
            DEF SetApproval, IssueTypeOK, gateVars, blockerVars
<1>5. CASE Import(c)
    <2>1. issue' \in FlowRow
        BY <1>1, <1>5, ImportedFlowRow DEF Import
    <2> QED BY <1>5, <2>1, TypeRow DEF Import, IssueTypeOK
<1> QED BY <1>2, <1>3, <1>4, <1>5 DEF Approving

LEMMA AfterPatchType ==
    ASSUME NEW p, NEW now
    PROVE  AfterPatch(p, now) \in Request
BY DEF AfterPatch, Request

LEMMA BriefType ==
    ASSUME NEW r \in FlowRow
    PROVE  BriefOf(r) \in Brief
BY DEF BriefOf, Brief, FlowRow

LEMMA GoesOnType ==
    ASSUME IssueTypeOK, NEW c \in IssueClient,
           NEW pc \in {"kickoff", "gate", "warmed", "dispatch", "close", "reopen", "archive"},
           Step(c, pc)
    PROVE  req' \in [IssueClient -> Request]
<1>1. [pc |-> pc] \in Request
    BY DEF Request
<1> QED BY <1>1, GoType DEF Step

LEMMA EndType ==
    ASSUME IssueTypeOK, NEW c \in IssueClient, End(c)
    PROVE  req' \in [IssueClient -> Request]
<1>1. Idle \in Request
    BY DEF Request
<1> QED BY <1>1, GoType DEF End

LEMMA PatchingType ==
    ASSUME IssueTypeOK, NEW c \in IssueClient, Patching(c)
    PROVE  IssueTypeOK'
<1>1. issue \in FlowRow /\ req[c] \in Request
    BY DEF IssueTypeOK
<1>2. CASE PatchRead(c)
    <2>1. [pc |-> "patch", was |-> BriefOf(issue)] \in Request
        BY <1>1, BriefType DEF Request
    <2>2. req' \in [IssueClient -> Request]
        BY <1>2, <2>1, GoType DEF PatchRead
    <2> QED BY <1>1, <1>2, <2>2, TypeRow DEF PatchRead
<1>3. CASE PatchWrite(c)
    <2>1. PICK w \in Work \cup {Keep}, s \in IssueState \cup {Keep}, reowned \in BOOLEAN, owned \in BOOLEAN :
            LET p == [was |-> req[c].was, asked |-> w # Keep, reowned |-> reowned, owned |-> owned]
            IN  \/ /\ issue' \in Tracked(issue, w, s)
                   /\ Go(c, IF WantsReview(issue')
                            THEN [pc |-> "patched", patch |-> p, now |-> BriefOf(issue')]
                            ELSE AfterPatch(p, BriefOf(issue')))
                \/ Refused(w, s) /\ End(c)
        BY <1>3 DEF PatchWrite
    <2> DEFINE p == [was |-> req[c].was, asked |-> w # Keep, reowned |-> reowned, owned |-> owned]
    <2>2. p \in Patch
        <3>1. req[c].pc = "patch"
            BY <1>3 DEF PatchWrite, At
        <3>2. req[c].was \in Brief
            BY <1>1, <3>1 DEF Request, Idle
        <3>3. (w # Keep) \in BOOLEAN
            OBVIOUS
        <3> QED BY <3>2, <3>3 DEF Patch
    <2>3. ASSUME issue' \in Tracked(issue, w, s),
                 Go(c, IF WantsReview(issue')
                       THEN [pc |-> "patched", patch |-> p, now |-> BriefOf(issue')]
                       ELSE AfterPatch(p, BriefOf(issue')))
          PROVE  issue' \in FlowRow /\ req' \in [IssueClient -> Request]
        <3>1. issue' \in FlowRow
            BY <1>1, <2>3, TrackedFlowRow
        <3>2. [pc |-> "patched", patch |-> p, now |-> BriefOf(issue')] \in Request
            <4>1. BriefOf(issue') \in Brief
                BY <3>1, BriefType
            <4> HIDE DEF p
            <4> QED BY <2>2, <4>1 DEF Request
        <3>3. AfterPatch(p, BriefOf(issue')) \in Request
            BY AfterPatchType
        <3> HIDE DEF p
        <3> QED BY <2>3, <3>1, <3>2, <3>3, GoType
    <2>4. issue' \in FlowRow /\ req' \in [IssueClient -> Request]
        BY <1>1, <2>1, <2>3, EndType DEF Refused
    <2>5. UNCHANGED <<started, blockerVars, gateVars, pastVars>>
        BY <1>3 DEF PatchWrite, At
    <2> QED BY <2>4, <2>5, TypeRow
<1>4. CASE PatchReady(c)
    <2>1. "ready_for_review" \in Approval
        BY DEF Approval
    <2>2. ASSUME NEW r \in Transitioned(issue, "ready_for_review"), issue' = r,
                 Go(c, AfterPatch(req[c].patch, BriefOf(r)))
          PROVE  issue' \in FlowRow /\ req' \in [IssueClient -> Request]
        BY <1>1, <2>1, <2>2, TransitionedFlowRow, AfterPatchType, GoType
    <2>3. ASSUME Go(c, AfterPatch(req[c].patch, req[c].now)), UNCHANGED issue
          PROVE  issue' \in FlowRow /\ req' \in [IssueClient -> Request]
        BY <1>1, <2>3, AfterPatchType, GoType
    <2>4. issue' \in FlowRow /\ req' \in [IssueClient -> Request]
        BY <1>1, <1>4, <2>2, <2>3, AfterPatchType, GoType DEF PatchReady
    <2>5. UNCHANGED <<started, blockerVars, gateVars, pastVars>>
        BY <1>4 DEF PatchReady, At
    <2> QED BY <2>4, <2>5, TypeRow
<1>5. CASE KickoffGate(c) \/ WarmUp(c) \/ Warmed(c) \/ Kickoff(c)
    <2>1. req' \in [IssueClient -> Request]
        BY <1>5, GoesOnType, EndType DEF KickoffGate, WarmUp, Warmed, Kickoff
    <2>2. /\ warm' \in {warm, TRUE} /\ excused' \in {excused, TRUE} /\ kicked' \in {kicked, TRUE}
          /\ UNCHANGED <<issue, raised, open, reviewed, accepted, archived, started>>
        BY <1>5 DEF KickoffGate, WarmUp, Warmed, Kickoff, At, pastVars, blockerVars
    <2>3. Flags' \subseteq BOOLEAN
        BY <2>2 DEF IssueTypeOK, Flags
    <2>4. gate' \in {"none", "failed", "succeeded", "bypassed"}
        BY <1>5 DEF KickoffGate, WarmUp, Warmed, Kickoff, IssueTypeOK
    <2> QED BY <1>1, <2>1, <2>2, <2>3, <2>4, Counts, TypeParts DEF IssueTypeOK
<1>6. CASE ReviewClose(c)
    <2>1. req' \in [IssueClient -> Request]
        BY <1>6, GoesOnType DEF ReviewClose
    <2> QED BY <1>1, <1>6, <2>1, TypeRow DEF ReviewClose, At
<1>7. CASE Reopen(c)
    <2>1. PICK r \in Tracked(issue, Keep, "open") :
            issue' = r /\ Go(c, IF r.state = "closed" THEN [pc |-> "archive"] ELSE Idle)
        BY <1>7 DEF Reopen
    <2>2. issue' \in FlowRow
        BY <1>1, <2>1, TrackedFlowRow DEF IssueState
    <2>3. [pc |-> "archive"] \in Request /\ Idle \in Request
        BY DEF Request
    <2>4. req' \in [IssueClient -> Request]
        BY <2>1, <2>3, GoType
    <2> QED BY <1>7, <2>2, <2>4, TypeRow DEF Reopen, At
<1>8. CASE Archive(c)
    <2>1. req' \in [IssueClient -> Request]
        BY <1>8, EndType DEF Archive
    <2>2. Flags' \subseteq BOOLEAN
        BY <1>8 DEF Archive, IssueTypeOK, Flags, gateVars
    <2> QED BY <1>1, <1>8, <2>1, <2>2, Counts, TypeParts DEF Archive, At, IssueTypeOK, gateVars, blockerVars
<1> QED BY <1>2, <1>3, <1>4, <1>5, <1>6, <1>7, <1>8 DEF Patching

LEMMA AdvancingType ==
    ASSUME IssueTypeOK, NEW c \in IssueClient, Advancing(c)
    PROVE  IssueTypeOK'
<1>1. issue \in FlowRow /\ req[c] \in Request
    BY DEF IssueTypeOK
<1>2. CASE AssignFlow(c)
    <2>1. issue' \in FlowRow
        BY <1>1, <1>2, FlowAssumption DEF AssignFlow, FlowRow
    <2> QED BY <1>2, <2>1, TypeRow DEF AssignFlow, IssueTypeOK
<1>3. CASE AdvanceRead(c)
    <2>1. issue.step \in 1 .. Len(Flow)
        BY <1>1, <1>3, FlowAssumption DEF AdvanceRead, FlowRow
    <2>2. [pc |-> "advance", step |-> issue.step] \in Request
        BY <2>1 DEF Request
    <2>3. req' \in [IssueClient -> Request]
        BY <1>3, <2>2, GoType DEF AdvanceRead
    <2> QED BY <1>1, <1>3, <2>3, TypeRow DEF AdvanceRead
<1>4. CASE AdvanceCheck(c)
    <2>1. req[c].pc = "advance"
        BY <1>4 DEF AdvanceCheck, At
    <2>2. req[c].step \in 1 .. Len(Flow)
        BY <1>1, <2>1 DEF Request, Idle
    <2>3. [pc |-> "move", step |-> req[c].step, seen |-> raised] \in Request
        BY <2>2 DEF Request, IssueTypeOK
    <2>4. req' \in [IssueClient -> Request]
        BY <1>4, <2>3, GoType, EndType DEF AdvanceCheck
    <2> QED BY <1>1, <1>4, <2>4, TypeRow DEF AdvanceCheck, At
<1>5. CASE AdvanceWrite(c)
    <2>1. req[c].pc = "move"
        BY <1>5 DEF AdvanceWrite, At
    <2>2. req[c].step \in 1 .. Len(Flow)
        BY <1>1, <2>1 DEF Request, Idle
    <2>3. ASSUME NEW t \in Targets(req[c].step), issue' = [issue EXCEPT !.step = t],
                 Go(c, [pc |-> "status", step |-> t])
          PROVE  issue' \in FlowRow /\ req' \in [IssueClient -> Request]
        <3>1. t \in 1 .. Len(Flow)
            <4>1. Flow[req[c].step] \in FlowStep
                BY <2>2, FlowAssumption
            <4> QED BY <4>1, FlowAssumption DEF Targets, FlowStep
        <3>2. [pc |-> "status", step |-> t] \in Request
            BY <3>1 DEF Request
        <3> QED BY <1>1, <2>3, <3>1, <3>2, GoType DEF FlowRow
    <2>4. issue' \in FlowRow /\ req' \in [IssueClient -> Request]
        BY <1>1, <1>5, <2>3, EndType DEF AdvanceWrite
    <2> QED BY <1>5, <2>4, TypeRow DEF AdvanceWrite, At
<1>6. CASE AdvanceStatus(c)
    <2>1. StepStatus(req[c].step) \in Work
        BY DEF StepStatus, Work
    <2>2. issue' \in FlowRow
        BY <1>1, <1>6, <2>1, TrackedFlowRow DEF AdvanceStatus, Track, Refused
    <2>3. req' \in [IssueClient -> Request]
        BY <1>6, EndType DEF AdvanceStatus, Track
    <2> QED BY <1>6, <2>2, <2>3, TypeRow DEF AdvanceStatus, At
<1> QED BY <1>2, <1>3, <1>4, <1>5, <1>6 DEF Advancing

LEMMA BlockerStatusType ==
    ASSUME NEW pc \in {"raised", "escalated", "resolved"}
    PROVE  BlockerStatus(pc) \subseteq Work
BY DEF BlockerStatus, Work

LEMMA BlockingType ==
    ASSUME IssueTypeOK, NEW c \in IssueClient, Blocking(c)
    PROVE  IssueTypeOK'
<1>1. issue \in FlowRow /\ req[c] \in Request
    BY DEF IssueTypeOK
<1>2. CASE RaiseBlocker(c)
    <2>1. [pc |-> "raised"] \in Request
        BY DEF Request
    <2>2. req' \in [IssueClient -> Request]
        BY <1>2, <2>1, GoType DEF RaiseBlocker
    <2>3. Flags' \subseteq BOOLEAN /\ gate' = gate
        BY <1>2 DEF RaiseBlocker, IssueTypeOK, Flags, gateVars, pastVars
    <2>4. started' = started + 1 /\ raised' = raised + 1 /\ open' = raised'
        BY <1>2 DEF RaiseBlocker, Begin
    <2> QED BY <1>1, <1>2, <2>2, <2>3, <2>4, Counts, TypeParts DEF RaiseBlocker, IssueTypeOK
<1>3. CASE EscalateBlocker(c)
    <2>1. [pc |-> "escalated"] \in Request
        BY DEF Request
    <2>2. req' \in [IssueClient -> Request]
        BY <1>3, <2>1, GoType DEF EscalateBlocker
    <2> QED BY <1>1, <1>3, <2>2, TypeRow DEF EscalateBlocker
<1>4. CASE ResolveBlocker(c)
    <2>1. [pc |-> "resolved"] \in Request
        BY DEF Request
    <2>2. req' \in [IssueClient -> Request]
        BY <1>4, <2>1, GoType DEF ResolveBlocker
    <2>3. Flags' \subseteq BOOLEAN /\ gate' = gate /\ raised' = raised /\ open' = 0
        BY <1>4 DEF ResolveBlocker, IssueTypeOK, Flags, gateVars, pastVars
    <2> QED BY <1>1, <1>4, <2>2, <2>3, Counts, TypeParts DEF ResolveBlocker, IssueTypeOK
<1>5. CASE BlockerFollows(c)
    <2>1. PICK w \in BlockerStatus(req[c].pc) : Track(c, w)
        BY <1>5 DEF BlockerFollows
    <2>2. w \in Work
        BY <1>5, <2>1, BlockerStatusType DEF BlockerFollows
    <2>3. issue' \in FlowRow
        BY <1>1, <2>1, <2>2, TrackedFlowRow DEF Track, Refused
    <2>4. req' \in [IssueClient -> Request]
        BY <2>1, EndType DEF Track
    <2> QED BY <1>5, <2>3, <2>4, TypeRow DEF BlockerFollows
<1> QED BY <1>2, <1>3, <1>4, <1>5 DEF Blocking

LEMMA IssueTypeStep == IssueTypeOK /\ [IssueNext]_issueVars => IssueTypeOK'
<1> SUFFICES ASSUME IssueTypeOK, [IssueNext]_issueVars PROVE IssueTypeOK'
    OBVIOUS
<1>1. ASSUME NEW c \in IssueClient, Abandon(c) PROVE IssueTypeOK'
    <2>1. req' \in [IssueClient -> Request]
        BY <1>1, EndType DEF Abandon
    <2> QED BY <1>1, <2>1, TypeRow DEF Abandon, IssueTypeOK
<1>2. CASE UNCHANGED issueVars
    BY <1>2 DEF issueVars, IssueTypeOK
<1> QED BY <1>1, <1>2, ApprovingType, PatchingType, AdvancingType, BlockingType DEF IssueNext

\* Every row that the transactions of the handlers write, whatever they read before, is one the
\* columns admit, and what a request carries on is what its next transaction expects.
THEOREM IssueTypes == IssueSpec => []IssueTypeOK
BY IssueTypeInit, IssueTypeStep, PTL DEF IssueSpec

-----------------------------------------------------------------------------
(* The row agrees, and the approval *)

\* What becomes of the requests when one of them goes on.
LEMMA ReqAfter ==
    ASSUME IssueTypeOK, NEW c \in IssueClient, NEW r, Go(c, r), NEW d \in IssueClient
    PROVE  req'[d] = IF d = c THEN r ELSE req[d]
BY DEF IssueTypeOK, Go

LEMMA AfterPatchPc ==
    ASSUME NEW p, NEW now
    PROVE  AfterPatch(p, now).pc \in {"kickoff", "close", "idle"}
BY DEF AfterPatch, Idle

\* A step that is not an approval's: it may only put a draft up for review, starts no approval and
\* keeps what was recorded of them.
QuietOnReview ==
    /\ issue'.approval \in {issue.approval, "ready_for_review"}
    /\ UNCHANGED <<reviewed, accepted>>
    /\ \A d \in IssueClient : req'[d] = req[d] \/ req'[d].pc # "approve"

\* The request c goes on as r, which is no approval, and the row keeps its approval.
LEMMA QuietGo ==
    ASSUME IssueTypeOK, NEW c \in IssueClient, NEW r, Go(c, r), r.pc # "approve",
           UNCHANGED <<reviewed, accepted>>,
           issue'.approval \in {issue.approval, "ready_for_review"}
    PROVE  QuietOnReview
BY ReqAfter DEF QuietOnReview

LEMMA QuietEnd ==
    ASSUME IssueTypeOK, NEW c \in IssueClient, End(c), UNCHANGED <<reviewed, accepted>>,
           issue'.approval \in {issue.approval, "ready_for_review"}
    PROVE  QuietOnReview
BY QuietGo DEF End, Idle

\* A write that UpdateIssueWorkTracking makes or refuses leaves an agreeing row, and its approval.
LEMMA TrackedKeeps ==
    ASSUME IssueTypeOK, NEW w \in Work \cup {Keep}, NEW s \in IssueState \cup {Keep},
           issue' \in Tracked(issue, w, s) \/ Refused(w, s)
    PROVE  issue'.approval = issue.approval /\ (Agrees(issue) => Agrees(issue'))
<1>1. CASE issue' \in Tracked(issue, w, s)
    BY <1>1, TrackedFlowRow DEF IssueTypeOK
<1>2. CASE Refused(w, s)
    BY <1>2 DEF Refused
<1> QED BY <1>1, <1>2

LEMMA PatchingQuiet ==
    ASSUME IssueTypeOK, NEW c \in IssueClient, Patching(c)
    PROVE  QuietOnReview /\ (Agrees(issue) => Agrees(issue'))
<1>1. issue \in FlowRow
    BY DEF IssueTypeOK
<1>2. CASE PatchRead(c)
    BY <1>2, QuietGo DEF PatchRead, pastVars
<1>3. CASE PatchWrite(c)
    <2>1. PICK w \in Work \cup {Keep}, s \in IssueState \cup {Keep} :
            \/ \E p, b :
               /\ issue' \in Tracked(issue, w, s)
               /\ Go(c, IF b THEN [pc |-> "patched", patch |-> p, now |-> BriefOf(issue')]
                        ELSE AfterPatch(p, BriefOf(issue')))
            \/ Refused(w, s) /\ End(c)
        BY <1>3 DEF PatchWrite
    <2>2. issue'.approval = issue.approval /\ (Agrees(issue) => Agrees(issue'))
        BY <2>1, TrackedKeeps
    <2>3. UNCHANGED <<reviewed, accepted>>
        BY <1>3 DEF PatchWrite, pastVars
    <2>4. QuietOnReview
        BY <2>1, <2>2, <2>3, QuietGo, QuietEnd, AfterPatchPc
    <2> QED BY <2>2, <2>4
<1>4. CASE PatchReady(c)
    <2>1. UNCHANGED <<reviewed, accepted>>
        BY <1>4 DEF PatchReady, pastVars
    <2>2. PICK p, now : Go(c, AfterPatch(p, now))
        BY <1>4 DEF PatchReady
    <2>3. "ready_for_review" \in Approval
        BY DEF Approval
    <2>4. /\ issue'.approval \in {issue.approval, "ready_for_review"}
          /\ Agrees(issue) => Agrees(issue')
        BY <1>1, <1>4, <2>3, TransitionedFlowRow DEF PatchReady
    <2> QED BY <2>1, <2>2, <2>4, QuietGo, AfterPatchPc
<1>5. CASE KickoffGate(c) \/ WarmUp(c) \/ Warmed(c) \/ Kickoff(c) \/ ReviewClose(c) \/ Archive(c)
    <2>1. UNCHANGED <<issue, reviewed, accepted>>
        BY <1>5 DEF KickoffGate, WarmUp, Warmed, Kickoff, ReviewClose, Archive, pastVars
    <2>2. End(c) \/ \E pc \in {"dispatch", "gate", "warmed", "archive", "reopen"} : Step(c, pc)
        BY <1>5 DEF KickoffGate, WarmUp, Warmed, Kickoff, ReviewClose, Archive
    <2>3. QuietOnReview
        BY <2>1, <2>2, QuietGo, QuietEnd DEF Step
    <2> QED BY <2>1, <2>3
<1>6. CASE Reopen(c)
    <2>1. PICK r \in Tracked(issue, Keep, "open") :
            issue' = r /\ Go(c, IF r.state = "closed" THEN [pc |-> "archive"] ELSE Idle)
        BY <1>6 DEF Reopen
    <2>2. issue'.approval = issue.approval /\ (Agrees(issue) => Agrees(issue'))
        BY <2>1, TrackedKeeps DEF IssueState
    <2>3. UNCHANGED <<reviewed, accepted>>
        BY <1>6 DEF Reopen, pastVars
    <2>4. QuietOnReview
        BY <2>1, <2>2, <2>3, QuietGo DEF Idle
    <2> QED BY <2>2, <2>4
<1> QED BY <1>2, <1>3, <1>4, <1>5, <1>6 DEF Patching

LEMMA AdvancingQuiet ==
    ASSUME IssueTypeOK, NEW c \in IssueClient, Advancing(c)
    PROVE  QuietOnReview /\ (Agrees(issue) => Agrees(issue'))
<1>1. issue \in FlowRow /\ UNCHANGED <<reviewed, accepted>>
    BY DEF IssueTypeOK, Advancing, AssignFlow, AdvanceRead, AdvanceCheck, AdvanceWrite,
           AdvanceStatus, pastVars
<1>2. CASE AssignFlow(c)
    <2>1. issue'.approval = issue.approval /\ issue'.state = issue.state /\ issue'.work = issue.work
        BY <1>1, <1>2 DEF AssignFlow, FlowRow
    <2> QED BY <1>1, <1>2, <2>1 DEF AssignFlow, QuietOnReview, Agrees
<1>3. CASE AdvanceRead(c)
    BY <1>1, <1>3, QuietGo DEF AdvanceRead
<1>4. CASE AdvanceCheck(c)
    BY <1>1, <1>4, QuietGo, QuietEnd DEF AdvanceCheck
<1>5. CASE AdvanceWrite(c)
    <2>1. issue'.approval = issue.approval /\ issue'.state = issue.state /\ issue'.work = issue.work
        BY <1>1, <1>5 DEF AdvanceWrite, FlowRow
    <2>2. End(c) \/ \E t : Go(c, [pc |-> "status", step |-> t])
        BY <1>5 DEF AdvanceWrite
    <2> QED BY <1>1, <2>1, <2>2, QuietGo, QuietEnd DEF Agrees
<1>6. CASE AdvanceStatus(c)
    <2>1. StepStatus(req[c].step) \in Work
        BY DEF StepStatus, Work
    <2>2. issue'.approval = issue.approval /\ (Agrees(issue) => Agrees(issue'))
        BY <1>6, <2>1, TrackedKeeps DEF AdvanceStatus, Track
    <2> QED BY <1>1, <1>6, <2>2, QuietEnd DEF AdvanceStatus, Track
<1> QED BY <1>2, <1>3, <1>4, <1>5, <1>6 DEF Advancing

LEMMA BlockingQuiet ==
    ASSUME IssueTypeOK, NEW c \in IssueClient, Blocking(c)
    PROVE  QuietOnReview /\ (Agrees(issue) => Agrees(issue'))
<1>1. UNCHANGED <<reviewed, accepted>>
    BY DEF Blocking, RaiseBlocker, EscalateBlocker, ResolveBlocker, BlockerFollows, pastVars
<1>2. CASE RaiseBlocker(c) \/ EscalateBlocker(c) \/ ResolveBlocker(c)
    <2>1. issue' = issue /\ \E pc \in {"raised", "escalated", "resolved"} : Go(c, [pc |-> pc])
        BY <1>2 DEF RaiseBlocker, EscalateBlocker, ResolveBlocker
    <2> QED BY <1>1, <2>1, QuietGo
<1>3. CASE BlockerFollows(c)
    <2>1. PICK w \in BlockerStatus(req[c].pc) : Track(c, w)
        BY <1>3 DEF BlockerFollows
    <2>2. w \in Work
        BY <1>3, <2>1, BlockerStatusType DEF BlockerFollows
    <2>3. issue'.approval = issue.approval /\ (Agrees(issue) => Agrees(issue'))
        BY <2>1, <2>2, TrackedKeeps DEF Track
    <2> QED BY <1>1, <2>1, <2>3, QuietEnd DEF Track
<1> QED BY <1>2, <1>3 DEF Blocking

\* A request whose approval makes the issue approved for a project that requires a human.
Finalises(q) == q.pc = "approve" /\ q.human /\ q.target = "approved"

\* A reviewer's approval is recorded whenever the row shows it, and whenever a request that read
\* it is about to make it final: the row may be another by the time that request writes.
ReviewInv ==
    /\ Agrees(issue)
    /\ accepted \/ issue.approval = "approved_by_reviewer" => reviewed
    /\ \A c \in IssueClient : Finalises(req[c]) => reviewed

LEMMA ReviewInit == IssueInit => ReviewInv
<1> SUFFICES ASSUME IssueInit PROVE ReviewInv
    OBVIOUS
<1>1. PICK s \in IssueState :
        issue = [state |-> Inserted(s).state, work |-> Inserted(s).work,
                 approval |-> Inserted(s).approval, step |-> 0]
    BY DEF IssueInit
<1>2. Agrees(issue) /\ issue.approval # "approved_by_reviewer"
    BY <1>1 DEF Inserted, Agrees, IssueState, Terminal
<1>3. ~accepted /\ \A c \in IssueClient : ~Finalises(req[c])
    BY DEF IssueInit, Finalises, Idle
<1> QED BY <1>2, <1>3 DEF ReviewInv

LEMMA ReviewQuiet ==
    ASSUME ReviewInv, QuietOnReview, Agrees(issue')
    PROVE  ReviewInv'
<1>1. \A c \in IssueClient : Finalises(req'[c]) => Finalises(req[c])
    BY Zenon DEF QuietOnReview, Finalises
<1> QED BY <1>1, Zenon DEF ReviewInv, QuietOnReview

LEMMA ApprovingReview ==
    ASSUME IssueTypeOK, ReviewInv, NEW c \in IssueClient, Approving(c)
    PROVE  ReviewInv'
<1>1. issue \in FlowRow /\ req[c] \in Request
    BY DEF IssueTypeOK
<1>2. CASE ApproveRead(c)
    <2>a. PICK human \in BOOLEAN : \E t \in ApproveTarget(human) :
            Go(c, [pc |-> "approve", target |-> t, human |-> human])
        BY <1>2 DEF ApproveRead
    <2>1. PICK t \in ApproveTarget(human) : Go(c, [pc |-> "approve", target |-> t, human |-> human])
        BY <2>a
    <2>2. human /\ t = "approved" => issue.approval = "approved_by_reviewer"
        BY DEF ApproveTarget
    <2>3. \A d \in IssueClient : Finalises(req'[d]) => Finalises(req[d]) \/ (human /\ t = "approved")
        BY <2>1, ReqAfter DEF Finalises
    <2>4. UNCHANGED <<issue, reviewed, accepted>>
        BY <1>2 DEF ApproveRead, pastVars
    <2> QED BY <2>2, <2>3, <2>4, Zenon DEF ReviewInv
<1>3. CASE ApproveWrite(c)
    <2>1. req[c].pc = "approve"
        BY <1>3 DEF ApproveWrite, At
    <2>2. req[c].target \in Approval /\ req[c].human \in BOOLEAN
        BY <1>1, <2>1 DEF Request, Idle
    <2>3. /\ Agrees(issue') /\ issue'.approval = req[c].target
          /\ reviewed' = (reviewed \/ issue'.approval = "approved_by_reviewer")
          /\ accepted' = (accepted \/ (req[c].human /\ issue'.approval = "approved"))
        <3>1. PICK r \in Transitioned(issue, req[c].target) :
                /\ issue' = r
                /\ reviewed' = (reviewed \/ r.approval = "approved_by_reviewer")
                /\ accepted' = (accepted \/ (req[c].human /\ r.approval = "approved"))
            BY <1>3, Zenon DEF ApproveWrite
        <3>2. Agrees(r) /\ r.approval = req[c].target
            BY <1>1, <2>2, TransitionedFlowRow DEF ReviewInv
        <3> QED BY <3>1, <3>2, Zenon
    <2>4. \A d \in IssueClient : Finalises(req'[d]) => Finalises(req[d])
        BY <1>3, ReqAfter DEF ApproveWrite, End, Idle, Finalises
    <2>5. req[c].human /\ issue'.approval = "approved" => reviewed
        BY <2>1, <2>3, Zenon DEF ReviewInv, Finalises
    <2> QED BY <2>3, <2>4, <2>5, Zenon DEF ReviewInv
<1>4. CASE SetApproval(c)
    <2>1. /\ Agrees(issue') /\ UNCHANGED <<accepted, req>>
          /\ reviewed' = (reviewed \/ issue'.approval = "approved_by_reviewer")
        <3>1. PICK next \in Approval : \E r \in Transitioned(issue, next) :
                issue' = r /\ reviewed' = (reviewed \/ next = "approved_by_reviewer")
            BY <1>4, Zenon DEF SetApproval
        <3>2. PICK r \in Transitioned(issue, next) :
                issue' = r /\ reviewed' = (reviewed \/ next = "approved_by_reviewer")
            BY <3>1
        <3>3. Agrees(r) /\ r.approval = next
            BY <1>1, TransitionedFlowRow, Zenon DEF ReviewInv
        <3> QED BY <1>4, <3>2, <3>3, Zenon DEF SetApproval
    <2> QED BY <2>1, Zenon DEF ReviewInv
<1>5. CASE Import(c)
    <2>1. Agrees(issue') /\ issue'.approval # "approved_by_reviewer"
        BY <1>1, <1>5, ImportedFlowRow DEF Import
    <2>2. UNCHANGED <<reviewed, accepted, req>>
        BY <1>5 DEF Import, pastVars
    <2> QED BY <2>1, <2>2, Zenon DEF ReviewInv
<1> QED BY <1>2, <1>3, <1>4, <1>5 DEF Approving

LEMMA ReviewStep == IssueTypeOK /\ ReviewInv /\ [IssueNext]_issueVars => ReviewInv'
<1> SUFFICES ASSUME IssueTypeOK, ReviewInv, [IssueNext]_issueVars PROVE ReviewInv'
    OBVIOUS
<1>1. Agrees(issue)
    BY DEF ReviewInv
<1>2. ASSUME NEW c \in IssueClient, Abandon(c) PROVE ReviewInv'
    <2>1. QuietOnReview
        BY <1>2, QuietEnd DEF Abandon, pastVars
    <2> QED BY <1>1, <1>2, <2>1, ReviewQuiet DEF Abandon
<1>3. CASE UNCHANGED issueVars
    BY <1>3 DEF issueVars, ReviewInv
<1>4. ASSUME NEW c \in IssueClient, Patching(c) \/ Advancing(c) \/ Blocking(c) PROVE ReviewInv'
    BY <1>1, <1>4, PatchingQuiet, AdvancingQuiet, BlockingQuiet, ReviewQuiet
<1> QED BY <1>2, <1>3, <1>4, ApprovingReview DEF IssueNext

LEMMA ReviewHolds == IssueSpec => [](IssueTypeOK /\ ReviewInv)
BY IssueTypeInit, IssueTypeStep, ReviewInit, ReviewStep, PTL DEF IssueSpec

\* However the requests on an issue overlap and wherever they stop, its state and its work status
\* agree after every transaction.
THEOREM StateMatches == IssueSpec => []StateMatchesWork
<1>1. ReviewInv => StateMatchesWork
    BY DEF ReviewInv, StateMatchesWork
<1> QED BY <1>1, ReviewHolds, PTL

\* A project that requires a human gets an approval from Approve only after a reviewer's, although
\* Approve chooses its target from a row it read before its transaction.
THEOREM HumanFollows == IssueSpec => []HumanFollowsReviewer
<1>1. ReviewInv => HumanFollowsReviewer
    BY DEF ReviewInv, HumanFollowsReviewer
<1> QED BY <1>1, ReviewHolds, PTL

-----------------------------------------------------------------------------
(* The kickoff *)

\* A step that is not part of a kickoff behind its gate.
AwayFromGate ==
    /\ UNCHANGED gateVars
    /\ \A d \in IssueClient : req'[d] = req[d] \/ req'[d].pc \notin {"warmed", "dispatch"}

LEMMA AwayGo ==
    ASSUME IssueTypeOK, NEW c \in IssueClient, NEW r, Go(c, r), r.pc \notin {"warmed", "dispatch"},
           UNCHANGED gateVars
    PROVE  AwayFromGate
BY ReqAfter DEF AwayFromGate

LEMMA AwayEnd ==
    ASSUME IssueTypeOK, NEW c \in IssueClient, End(c), UNCHANGED gateVars
    PROVE  AwayFromGate
BY AwayGo DEF End, Idle

LEMMA MostAreAway ==
    ASSUME IssueTypeOK, NEW c \in IssueClient,
           \/ Approving(c) \/ Advancing(c) \/ Blocking(c) \/ Abandon(c)
           \/ PatchRead(c) \/ PatchWrite(c) \/ PatchReady(c) \/ ReviewClose(c) \/ Reopen(c) \/ Archive(c)
    PROVE  AwayFromGate
<1>1. CASE Approving(c)
    <2>1. UNCHANGED gateVars
        BY <1>1 DEF Approving, ApproveRead, ApproveWrite, SetApproval, Import
    <2>2. CASE ApproveRead(c)
        <3>1. PICK t, human : Go(c, [pc |-> "approve", target |-> t, human |-> human])
            BY <2>2 DEF ApproveRead
        <3> QED BY <2>1, <3>1, AwayGo
    <2>3. CASE ApproveWrite(c)
        BY <2>1, <2>3, AwayEnd DEF ApproveWrite
    <2>4. CASE SetApproval(c) \/ Import(c)
        BY <2>1, <2>4 DEF SetApproval, Import, AwayFromGate
    <2> QED BY <1>1, <2>2, <2>3, <2>4 DEF Approving
<1>2. CASE Advancing(c)
    <2>1. UNCHANGED gateVars
        BY <1>2 DEF Advancing, AssignFlow, AdvanceRead, AdvanceCheck, AdvanceWrite, AdvanceStatus
    <2>2. CASE AssignFlow(c)
        BY <2>1, <2>2 DEF AssignFlow, AwayFromGate
    <2>3. CASE AdvanceRead(c) \/ AdvanceCheck(c)
        BY <2>1, <2>3, AwayGo, AwayEnd DEF AdvanceRead, AdvanceCheck
    <2>4. CASE AdvanceWrite(c) \/ AdvanceStatus(c)
        <3>1. End(c) \/ \E t : Go(c, [pc |-> "status", step |-> t])
            BY <2>4 DEF AdvanceWrite, AdvanceStatus, Track
        <3> QED BY <2>1, <3>1, AwayGo, AwayEnd
    <2> QED BY <1>2, <2>2, <2>3, <2>4 DEF Advancing
<1>3. CASE Blocking(c)
    <2>1. UNCHANGED gateVars
        BY <1>3 DEF Blocking, RaiseBlocker, EscalateBlocker, ResolveBlocker, BlockerFollows
    <2>2. End(c) \/ \E pc \in {"raised", "escalated", "resolved"} : Go(c, [pc |-> pc])
        BY <1>3 DEF Blocking, RaiseBlocker, EscalateBlocker, ResolveBlocker, BlockerFollows, Track
    <2> QED BY <2>1, <2>2, AwayGo, AwayEnd
<1>4. CASE Abandon(c)
    BY <1>4, AwayEnd DEF Abandon
<1>5. CASE PatchRead(c)
    BY <1>5, AwayGo DEF PatchRead
<1>6. CASE PatchWrite(c)
    <2>1. PICK p, b :
            \/ Go(c, IF b THEN [pc |-> "patched", patch |-> p, now |-> BriefOf(issue')]
                     ELSE AfterPatch(p, BriefOf(issue')))
            \/ End(c)
        BY <1>6 DEF PatchWrite
    <2>2. UNCHANGED gateVars
        BY <1>6 DEF PatchWrite
    <2> QED BY <2>1, <2>2, AwayGo, AwayEnd, AfterPatchPc
<1>7. CASE PatchReady(c)
    <2>1. PICK p, now : Go(c, AfterPatch(p, now))
        BY <1>7 DEF PatchReady
    <2> QED BY <1>7, <2>1, AwayGo, AfterPatchPc DEF PatchReady
<1>8. CASE ReviewClose(c) \/ Archive(c)
    <2>1. End(c) \/ \E pc \in {"archive", "reopen"} : Go(c, [pc |-> pc])
        BY <1>8 DEF ReviewClose, Archive, Step
    <2> QED BY <1>8, <2>1, AwayGo, AwayEnd DEF ReviewClose, Archive, gateVars
<1>9. CASE Reopen(c)
    <2>1. PICK b : Go(c, IF b THEN [pc |-> "archive"] ELSE Idle)
        BY <1>9 DEF Reopen
    <2> QED BY <1>9, <2>1, AwayGo DEF Reopen, Idle
<1> QED BY <1>1, <1>2, <1>3, <1>4, <1>5, <1>6, <1>7, <1>8, <1>9

\* What the gate shows and where a kickoff has got to have a reason: the trigger ran to its end for
\* this issue, or the gate did not apply.
WarmInv ==
    /\ kicked => warm \/ excused
    /\ gate = "succeeded" => warm
    /\ gate = "bypassed" => excused
    /\ \A c \in IssueClient : /\ req[c].pc = "warmed" => warm
                              /\ req[c].pc = "dispatch" => warm \/ excused

LEMMA WarmInit == IssueInit => WarmInv
BY DEF IssueInit, WarmInv, Idle

LEMMA WarmAway ==
    ASSUME WarmInv, AwayFromGate
    PROVE  WarmInv'
<1>1. \A c \in IssueClient : req'[c].pc \in {"warmed", "dispatch"} => req'[c] = req[c]
    BY DEF AwayFromGate
<1> QED BY <1>1, Zenon DEF WarmInv, AwayFromGate, gateVars

\* A kickoff's step, whose request goes on as r.
LEMMA WarmGo ==
    ASSUME IssueTypeOK, WarmInv, NEW c \in IssueClient, NEW r, Go(c, r),
           warm' = warm \/ warm' = TRUE, excused' = excused \/ excused' = TRUE,
           kicked' => warm' \/ excused', gate' = "succeeded" => warm', gate' = "bypassed" => excused',
           r.pc = "warmed" => warm', r.pc = "dispatch" => warm' \/ excused'
    PROVE  WarmInv'
<1>1. \A d \in IssueClient : req'[d] = IF d = c THEN r ELSE req[d]
    BY ReqAfter
<1>2. (warm => warm') /\ (excused => excused')
    OBVIOUS
<1>3. \A d \in IssueClient : /\ req'[d].pc = "warmed" => warm'
                             /\ req'[d].pc = "dispatch" => warm' \/ excused'
    BY <1>1, <1>2, Zenon DEF WarmInv
<1> QED BY <1>3, Zenon DEF WarmInv

LEMMA KickoffWarm ==
    ASSUME IssueTypeOK, WarmInv, NEW c \in IssueClient,
           KickoffGate(c) \/ WarmUp(c) \/ Warmed(c) \/ Kickoff(c)
    PROVE  WarmInv'
<1>1. CASE KickoffGate(c)
    <2>1. UNCHANGED <<warm, kicked>>
        BY <1>1 DEF KickoffGate
    <2>2. CASE UNCHANGED <<gate, excused>>
        <3>1. \/ Go(c, [pc |-> "dispatch"]) /\ GatePasses
              \/ Go(c, [pc |-> "dispatch"]) /\ excused' = TRUE
              \/ Go(c, Idle)
              \/ Go(c, [pc |-> "gate"])
            BY <1>1, Zenon DEF KickoffGate, Step, End
        <3>2. GatePasses => warm \/ excused
            BY Zenon DEF GatePasses, WarmInv
        <3>3. PICK r : Go(c, r) /\ r.pc # "warmed" /\ (r.pc = "dispatch" => warm' \/ excused')
            BY <2>1, <2>2, <3>1, <3>2 DEF Idle
        <3>4. (kicked' => warm' \/ excused') /\ (gate' = "succeeded" => warm')
              /\ (gate' = "bypassed" => excused')
            BY <2>1, <2>2 DEF WarmInv
        <3> QED BY <2>1, <2>2, <3>3, <3>4, WarmGo
    <2>3. CASE gate' \in {gate, "bypassed"} /\ excused' = TRUE /\ Step(c, "dispatch")
        <3>1. kicked' => warm' \/ excused'
            BY <2>3
        <3>2. gate' = "succeeded" => warm'
            BY <2>1, <2>3 DEF WarmInv
        <3> QED BY <2>1, <2>3, <3>1, <3>2, WarmGo DEF Step
    <2> QED BY <1>1, <2>2, <2>3 DEF KickoffGate
<1>2. CASE WarmUp(c)
    <2>1. \/ warm' = TRUE /\ Go(c, [pc |-> "warmed"]) /\ gate' = gate
          \/ gate' \in {gate, "failed"} /\ Go(c, Idle) /\ warm' = warm
        BY <1>2, Zenon DEF WarmUp, Step, End
    <2>2. UNCHANGED <<excused, kicked>>
        BY <1>2 DEF WarmUp
    <2>3. (kicked' => warm' \/ excused') /\ (gate' = "succeeded" => warm')
          /\ (gate' = "bypassed" => excused')
        BY <2>1, <2>2 DEF WarmInv
    <2> QED BY <2>1, <2>2, <2>3, WarmGo DEF Idle
<1>3. CASE Warmed(c)
    <2>1. warm
        BY <1>3, Zenon DEF Warmed, At, WarmInv
    <2>2. gate' \in {gate, "succeeded"} /\ Go(c, [pc |-> "dispatch"]) /\ UNCHANGED <<warm, excused, kicked>>
        BY <1>3 DEF Warmed, Step
    <2>3. warm' /\ (gate' = "bypassed" => excused')
        BY <2>1, <2>2 DEF WarmInv
    <2> QED BY <2>2, <2>3, WarmGo
<1>4. CASE Kickoff(c)
    <2>1. warm \/ excused
        BY <1>4, Zenon DEF Kickoff, At, WarmInv
    <2>2. Go(c, Idle) /\ UNCHANGED <<gate, warm, excused>>
        BY <1>4 DEF Kickoff, End
    <2>3. (kicked' => warm' \/ excused') /\ (gate' = "succeeded" => warm')
          /\ (gate' = "bypassed" => excused')
        BY <2>1, <2>2 DEF WarmInv
    <2> QED BY <2>2, <2>3, WarmGo DEF Idle
<1> QED BY <1>1, <1>2, <1>3, <1>4

LEMMA WarmStep == IssueTypeOK /\ WarmInv /\ [IssueNext]_issueVars => WarmInv'
<1> SUFFICES ASSUME IssueTypeOK, WarmInv, [IssueNext]_issueVars PROVE WarmInv'
    OBVIOUS
<1>1. CASE UNCHANGED issueVars
    BY <1>1 DEF issueVars, gateVars, WarmInv
<1>2. ASSUME NEW c \in IssueClient,
             Approving(c) \/ Patching(c) \/ Advancing(c) \/ Blocking(c) \/ Abandon(c)
      PROVE  WarmInv'
    BY <1>2, MostAreAway, WarmAway, KickoffWarm DEF Patching
<1> QED BY <1>1, <1>2 DEF IssueNext

\* No kickoff reaches an agent before the trigger has written the context of its issue, unless the
\* gate did not apply: whichever requests overlap, and whichever of the gate's writes are lost.
THEOREM KickoffWaits == IssueSpec => []KickoffIsWarm
<1>1. WarmInv => KickoffIsWarm
    BY DEF WarmInv, KickoffIsWarm
<1> QED BY <1>1, IssueTypeInit, IssueTypeStep, WarmInit, WarmStep, PTL DEF IssueSpec

\* What the run `backend` checks of the rows of one small issue holds for any number of requests
\* and every template.
THEOREM IssueSound == IssueSpec => []IssueIsSound
BY StateMatches, HumanFollows, KickoffWaits, PTL DEF IssueIsSound

-----------------------------------------------------------------------------
(* The flow and its blockers *)

\* A request that is about to move the flow asked for open blockers when there was none: one that
\* is open by now was raised later.
SeenInv ==
    \A c \in IssueClient :
        req[c].pc = "move" => req[c].seen <= raised /\ (open # 0 => open > req[c].seen)

LEMMA SeenInit == IssueInit => SeenInv
BY DEF IssueInit, SeenInv, Idle

\* Blockers are numbered in their order.
BlockersGrow ==
    \/ UNCHANGED <<raised, open>>
    \/ raised' = raised + 1 /\ open' = raised + 1
    \/ raised' = raised /\ open' = 0

LEMMA GoesElsewhere ==
    ASSUME IssueTypeOK, NEW c \in IssueClient, NEW r, Go(c, r), r.pc # "move"
    PROVE  \A d \in IssueClient : req'[d] = req[d] \/ req'[d].pc # "move"
BY ReqAfter

LEMMA MovesNowhere ==
    ASSUME IssueTypeOK, NEW c \in IssueClient,
           Approving(c) \/ Patching(c) \/ Advancing(c) \/ Blocking(c) \/ Abandon(c), ~AdvanceCheck(c)
    PROVE  \A d \in IssueClient : req'[d] = req[d] \/ req'[d].pc # "move"
<1>1. CASE Approving(c)
    <2>1. UNCHANGED req \/ End(c) \/ \E t, human : Go(c, [pc |-> "approve", target |-> t, human |-> human])
        BY <1>1 DEF Approving, ApproveRead, ApproveWrite, SetApproval, Import
    <2> QED BY <2>1, GoesElsewhere DEF End, Idle
<1>2. CASE Patching(c)
    <2>1. CASE PatchRead(c)
        BY <2>1, GoesElsewhere DEF PatchRead
    <2>2. CASE PatchWrite(c)
        <3>1. PICK p, b :
                \/ Go(c, IF b THEN [pc |-> "patched", patch |-> p, now |-> BriefOf(issue')]
                         ELSE AfterPatch(p, BriefOf(issue')))
                \/ End(c)
            BY <2>2 DEF PatchWrite
        <3> QED BY <3>1, GoesElsewhere, AfterPatchPc DEF End, Idle
    <2>3. CASE PatchReady(c)
        <3>1. PICK p, now : Go(c, AfterPatch(p, now))
            BY <2>3 DEF PatchReady
        <3> QED BY <3>1, GoesElsewhere, AfterPatchPc
    <2>4. CASE KickoffGate(c) \/ WarmUp(c) \/ Warmed(c) \/ Kickoff(c) \/ ReviewClose(c) \/ Archive(c)
        <3>1. End(c) \/ \E pc \in {"dispatch", "gate", "warmed", "archive", "reopen"} : Go(c, [pc |-> pc])
            BY <2>4 DEF KickoffGate, WarmUp, Warmed, Kickoff, ReviewClose, Archive, Step
        <3> QED BY <3>1, GoesElsewhere DEF End, Idle
    <2>5. CASE Reopen(c)
        <3>1. PICK b : Go(c, IF b THEN [pc |-> "archive"] ELSE Idle)
            BY <2>5 DEF Reopen
        <3> QED BY <3>1, GoesElsewhere DEF Idle
    <2> QED BY <1>2, <2>1, <2>2, <2>3, <2>4, <2>5 DEF Patching
<1>3. CASE Advancing(c)
    <2>1. \/ UNCHANGED req
          \/ End(c)
          \/ \E t : Go(c, [pc |-> "advance", step |-> t])
          \/ \E t : Go(c, [pc |-> "status", step |-> t])
        BY <1>3 DEF Advancing, AssignFlow, AdvanceRead, AdvanceWrite, AdvanceStatus, Track
    <2> QED BY <2>1, GoesElsewhere DEF End, Idle
<1>4. CASE Blocking(c)
    <2>1. End(c) \/ \E pc \in {"raised", "escalated", "resolved"} : Go(c, [pc |-> pc])
        BY <1>4 DEF Blocking, RaiseBlocker, EscalateBlocker, ResolveBlocker, BlockerFollows, Track
    <2> QED BY <2>1, GoesElsewhere DEF End, Idle
<1>5. CASE Abandon(c)
    BY <1>5, GoesElsewhere DEF Abandon, End, Idle
<1> QED BY <1>1, <1>2, <1>3, <1>4, <1>5

LEMMA SeenStep == IssueTypeOK /\ SeenInv /\ [IssueNext]_issueVars => SeenInv'
<1> SUFFICES ASSUME IssueTypeOK, SeenInv, [IssueNext]_issueVars PROVE SeenInv'
    OBVIOUS
<1>1. CASE UNCHANGED issueVars
    BY <1>1 DEF issueVars, SeenInv
<1>2. ASSUME NEW c \in IssueClient, AdvanceCheck(c) PROVE SeenInv'
    <2>1. CASE NotBlocked /\ Go(c, [pc |-> "move", step |-> req[c].step, seen |-> raised])
        BY <1>2, <2>1, ReqAfter DEF AdvanceCheck, NotBlocked, SeenInv, blockerVars, IssueTypeOK
    <2>2. CASE End(c)
        BY <1>2, <2>2, ReqAfter DEF AdvanceCheck, SeenInv, blockerVars, End, Idle
    <2> QED BY <1>2, <2>1, <2>2 DEF AdvanceCheck
<1>3. ASSUME NEW c \in IssueClient, ~AdvanceCheck(c),
             Approving(c) \/ Patching(c) \/ Advancing(c) \/ Blocking(c) \/ Abandon(c)
      PROVE  SeenInv'
    <2>1. \A d \in IssueClient : req'[d].pc = "move" => req'[d] = req[d]
        BY <1>3, MovesNowhere
    <2>2. BlockersGrow
        <3>1. Approving(c) => UNCHANGED blockerVars
            BY DEF Approving, ApproveRead, ApproveWrite, SetApproval, Import
        <3>2. Patching(c) => UNCHANGED blockerVars
            BY DEF Patching, PatchRead, PatchWrite, PatchReady, KickoffGate, WarmUp, Warmed, Kickoff,
                   ReviewClose, Reopen, Archive
        <3>3. Advancing(c) \/ Abandon(c) => UNCHANGED blockerVars
            BY DEF Advancing, AssignFlow, AdvanceRead, AdvanceCheck, AdvanceWrite, AdvanceStatus, Abandon
        <3>4. Blocking(c) => BlockersGrow
            BY DEF Blocking, RaiseBlocker, EscalateBlocker, ResolveBlocker, BlockerFollows, blockerVars,
                   BlockersGrow
        <3> QED BY <1>3, <3>1, <3>2, <3>3, <3>4 DEF blockerVars, BlockersGrow
    <2>3. raised \in Nat /\ \A d \in IssueClient : req[d].pc = "move" => req[d].seen \in Nat
        <3>1. \A d \in IssueClient : req[d] \in Request
            BY DEF IssueTypeOK
        <3> QED BY <3>1, MaxRequestsAssumption DEF Request, Idle, IssueTypeOK
    <2> QED BY <2>1, <2>2, <2>3 DEF SeenInv, BlockersGrow
<1> QED BY <1>1, <1>2, <1>3 DEF IssueNext

\* No request moves the flow past a blocker that was open when it asked, for any number of requests,
\* and however late its write is.
THEOREM AdvanceStops == IssueSpec => AdvanceStopsAtBlocker
<1>1. IssueTypeOK /\ SeenInv /\ [IssueNext]_issueVars =>
        [\A c \in IssueClient : AdvanceWrite(c) /\ issue'.step # issue.step /\ open # 0
                                    => open > req[c].seen]_issueVars
    BY DEF SeenInv, AdvanceWrite, At
<1> QED BY <1>1, IssueTypeInit, IssueTypeStep, SeenInit, SeenStep, PTL
        DEF IssueSpec, AdvanceStopsAtBlocker

-----------------------------------------------------------------------------
(* What is final *)

LEMMA ApprovalStays ==
    ASSUME IssueTypeOK, NEW c \in IssueClient, issue.approval = "approved",
           Approving(c) \/ Patching(c) \/ Advancing(c) \/ Blocking(c) \/ Abandon(c), ~Import(c)
    PROVE  issue'.approval = "approved"
<1>1. issue \in FlowRow /\ req[c] \in Request
    BY DEF IssueTypeOK
<1>2. CASE ApproveWrite(c)
    <2>1. req[c].pc = "approve"
        BY <1>2 DEF ApproveWrite, At
    <2>2. req[c].target \in Approval
        BY <1>1, <2>1 DEF Request, Idle
    <2>3. issue'.approval = req[c].target /\ MayApprove(issue.approval, req[c].target)
        BY <1>1, <1>2, <2>2, TransitionedFlowRow DEF ApproveWrite
    <2> QED BY <2>3 DEF MayApprove, ApprovalMoves
<1>3. CASE SetApproval(c)
    <2>1. PICK next \in Approval : \E r \in Transitioned(issue, next) : issue' = r
        BY <1>3 DEF SetApproval
    <2>2. issue'.approval = next /\ MayApprove(issue.approval, next)
        BY <1>1, <2>1, TransitionedFlowRow
    <2> QED BY <2>2 DEF MayApprove, ApprovalMoves
<1>4. CASE ApproveRead(c)
    BY <1>4 DEF ApproveRead
<1>5. CASE PatchReady(c)
    <2>1. "ready_for_review" \in Approval
        BY DEF Approval
    <2>2. ~MayApprove(issue.approval, "ready_for_review")
        BY DEF MayApprove, ApprovalMoves
    <2>3. Transitioned(issue, "ready_for_review") = {}
        BY <2>2 DEF Transitioned
    <2> QED BY <1>5, <2>3 DEF PatchReady
<1>6. ASSUME QuietOnReview, issue'.approval # "ready_for_review" PROVE issue'.approval = "approved"
    BY <1>6 DEF QuietOnReview
<1>7. CASE Patching(c) /\ ~PatchReady(c)
    <2>1. CASE PatchWrite(c)
        BY <2>1, TrackedKeeps DEF PatchWrite
    <2>2. CASE Reopen(c)
        BY <2>2, TrackedKeeps DEF Reopen, IssueState
    <2> QED BY <1>7, <2>1, <2>2 DEF Patching, PatchRead, KickoffGate, WarmUp, Warmed, Kickoff,
                                    ReviewClose, Archive
<1>8. CASE Advancing(c)
    <2>1. CASE AdvanceStatus(c)
        <3>1. StepStatus(req[c].step) \in Work
            BY DEF StepStatus, Work
        <3> QED BY <2>1, <3>1, TrackedKeeps DEF AdvanceStatus, Track
    <2>2. CASE AssignFlow(c) \/ AdvanceWrite(c)
        BY <1>1, <2>2 DEF AssignFlow, AdvanceWrite, FlowRow
    <2> QED BY <1>8, <2>1, <2>2 DEF Advancing, AdvanceRead, AdvanceCheck
<1>9. CASE Blocking(c)
    <2>1. CASE BlockerFollows(c)
        <3>1. PICK w \in BlockerStatus(req[c].pc) : Track(c, w)
            BY <2>1 DEF BlockerFollows
        <3>2. w \in Work
            BY <2>1, <3>1, BlockerStatusType DEF BlockerFollows
        <3> QED BY <3>1, <3>2, TrackedKeeps DEF Track
    <2> QED BY <1>9, <2>1 DEF Blocking, RaiseBlocker, EscalateBlocker, ResolveBlocker
<1>10. CASE Abandon(c)
    BY <1>10 DEF Abandon
<1> QED BY <1>2, <1>3, <1>4, <1>5, <1>7, <1>8, <1>9, <1>10 DEF Approving

\* Once a person approved an issue no request takes the approval back, also not one that read the
\* issue before; only GitHub's next import does.
THEOREM ApprovalIsFinal == IssueSpec => ApprovedIsFinal
<1>1. IssueTypeOK /\ [IssueNext]_issueVars =>
        [issue.approval = "approved" /\ issue'.approval # "approved" => \E c \in IssueClient : Import(c)]_issueVars
    BY ApprovalStays DEF IssueNext
<1> QED BY <1>1, IssueTypeInit, IssueTypeStep, PTL DEF IssueSpec, ApprovedIsFinal

\* The compliance review of a PATCH that closed an issue never opens it again: a request for the
\* state "open" is answered with the state that the terminal status demands.
THEOREM BlockedCloseStaysClosed == IssueSpec => ReviewNeverReopens
<1>1. ASSUME IssueTypeOK, ReviewInv, NEW c \in IssueClient, Reopen(c), issue'.state = "open"
      PROVE  issue' = issue
    <2>1. PICK r \in Tracked(issue, Keep, "open") : issue' = r
        BY <1>1 DEF Reopen
    <2>2. issue \in FlowRow /\ Agrees(issue)
        BY <1>1 DEF IssueTypeOK, ReviewInv
    <2> DEFINE state == NextState(issue, issue.work, "open")
               last == IF state = "closed" /\ issue.work \notin Terminal THEN "done" ELSE issue.work
    <2>3. issue' = [issue EXCEPT !.work = last, !.state = state]
        BY <2>1 DEF Tracked
    <2>4. state = "open"
        <3> HIDE DEF last, state
        <3> QED BY <1>1, <2>2, <2>3 DEF FlowRow
    <2>5. issue.work \notin Terminal /\ issue.state = "open"
        BY <2>2, <2>4 DEF NextState, Agrees, FlowRow, IssueState
    <2>6. last = issue.work
        <3> HIDE DEF state
        <3> QED BY <2>4
    <2> HIDE DEF last, state
    <2> QED BY <2>2, <2>3, <2>4, <2>5, <2>6 DEF FlowRow
<1>2. IssueTypeOK /\ ReviewInv /\ [IssueNext]_issueVars =>
        [\A c \in IssueClient : Reopen(c) /\ issue'.state = "open" => issue' = issue]_issueVars
    BY <1>1
<1> QED BY <1>2, ReviewHolds, PTL DEF IssueSpec, ReviewNeverReopens

-----------------------------------------------------------------------------
(* The types of IssuePipeline *)

LEMMA CallAfter ==
    ASSUME PipeTypeOK, NEW c \in PipeClient, NEW r, call' = [call EXCEPT ![c] = r],
           NEW d \in PipeClient
    PROVE  call'[d] = IF d = c THEN r ELSE call[d]
BY DEF PipeTypeOK

LEMMA CallType ==
    ASSUME PipeTypeOK, NEW c \in PipeClient, NEW r \in PipeCall, call' = [call EXCEPT ![c] = r]
    PROVE  call' \in [PipeClient -> PipeCall]
BY DEF PipeTypeOK

LEMMA StepsType ==
    ASSUME PipeTypeOK
    PROVE  /\ Len(pipeline) \in Nat /\ Len(pipeline) > 0
           /\ \A k \in Steps : /\ pipeline[k].type \in StepType
                               /\ StateAfter(k) \in 0 .. Len(pipeline)
                               /\ StatusAfter(k) \subseteq Work
<1>1. pipeline \in Seq([type : StepType, auto : BOOLEAN]) /\ Len(pipeline) > 0
    BY PipelineAssumption DEF PipeTypeOK
<1>2. Len(pipeline) \in Nat
    BY <1>1
<1>3. ASSUME NEW k \in Steps
      PROVE  /\ pipeline[k].type \in StepType /\ StateAfter(k) \in 0 .. Len(pipeline)
             /\ StatusAfter(k) \subseteq Work
    <2>1. pipeline[k].type \in StepType
        <3>1. pipeline[k] \in [type : StepType, auto : BOOLEAN]
            <4> DEFINE T == [type : StepType, auto : BOOLEAN]
            <4>1. pipeline \in Seq(T) /\ k \in 1 .. Len(pipeline)
                BY <1>1 DEF Steps
            <4> HIDE DEF T
            <4>2. pipeline[k] \in T
                BY <4>1
            <4> QED BY <4>2 DEF T
        <3> QED BY <3>1
    <2>2. StateAfter(k) \in 0 .. Len(pipeline)
        BY <1>2 DEF Steps, StateAfter, Advances
    <2>3. StatusAfter(k) \subseteq Work
        BY DEF StatusAfter, Work
    <2> QED BY <2>1, <2>2, <2>3
<1> QED BY <1>1, <1>2, <1>3

\* A request that has loaded a step, or has appended its entry.
LEMMA CallFields ==
    ASSUME PipeTypeOK, NEW c \in PipeClient
    PROVE  /\ call[c].pc \in {"loaded", "appended"} =>
                /\ call[c].step \in Steps /\ call[c].result \in {"completed", "rejected"}
                /\ call[c] = [pc |-> call[c].pc, step |-> call[c].step, result |-> call[c].result]
           /\ call[c].pc = "written" => call[c].work \in Work
<1>1. call[c] \in PipeCall
    BY DEF PipeTypeOK
<1> QED BY <1>1 DEF PipeCall, NoCall

LEMMA PipeRowType ==
    ASSUME PipeTypeOK, NEW w \in Work, pipeRow' \in Tracked(pipeRow, w, Keep)
    PROVE  pipeRow' \in PipeRow
<1> DEFINE state == NextState(pipeRow, w, Keep)
           last == IF state = "closed" /\ w \notin Terminal THEN "done" ELSE w
<1>1. pipeRow \in PipeRow /\ w # Keep
    BY DEF PipeTypeOK, Work, Keep
<1>2. pipeRow' = [pipeRow EXCEPT !.work = last, !.state = state]
    BY <1>1 DEF Tracked
<1>3. state \in IssueState /\ last \in Work
    BY <1>1, StatusAgrees DEF PipeRow
<1> HIDE DEF last, state
<1> QED BY <1>1, <1>2, <1>3 DEF PipeRow

LEMMA PipeTypeInit == PipeInit => PipeTypeOK
<1> SUFFICES ASSUME PipeInit PROVE PipeTypeOK
    OBVIOUS
<1>1. pipeRow \in PipeRow
    BY DEF PipeInit, Inserted, PipeRow, IssueState, Work, Approval
<1>2. pipeline \in Seq([type : StepType, auto : BOOLEAN])
    BY PipelineAssumption DEF PipeInit
<1>3. history \in Seq(Entry) /\ Len(history) <= MaxEntries
    BY MaxEntriesAssumption DEF PipeInit
<1>4. call \in [PipeClient -> PipeCall]
    BY DEF PipeInit, PipeCall
<1>5. pipeline \in Pipelines /\ current \in 0 .. Len(pipeline) /\ completed \in BOOLEAN
    <2>1. Len(pipeline) \in Nat
        BY <1>2
    <2>2. pipeline \in Pipelines /\ current = 0 /\ completed = FALSE
        BY DEF PipeInit
    <2>3. 0 \in 0 .. Len(pipeline)
        BY <2>1
    <2> QED BY <2>2, <2>3
<1> QED BY <1>1, <1>3, <1>4, <1>5 DEF PipeTypeOK

\* What appending its entry makes of a request.
LEMMA AppendMoves ==
    ASSUME PipeTypeOK, NEW c \in PipeClient, AppendHistory(c)
    PROVE  LET r == [pc |-> "appended", step |-> call[c].step, result |-> call[c].result]
           IN  call' = [call EXCEPT ![c] = r] /\ r \in PipeCall
<1>1. call[c] = [pc |-> "loaded", step |-> call[c].step, result |-> call[c].result]
      /\ call[c].step \in Steps /\ call[c].result \in {"completed", "rejected"}
    BY CallFields DEF AppendHistory
<1>2. call' = [call EXCEPT ![c] = [call[c] EXCEPT !.pc = "appended"]]
    BY DEF AppendHistory
<1>3. [call[c] EXCEPT !.pc = "appended"]
        = [pc |-> "appended", step |-> call[c].step, result |-> call[c].result]
    BY <1>1
<1> QED BY <1>1, <1>2, <1>3 DEF PipeCall

LEMMA PipeTypeStep == PipeTypeOK /\ [PipeNext]_pipeVars => PipeTypeOK'
<1> SUFFICES ASSUME PipeTypeOK, [PipeNext]_pipeVars PROVE PipeTypeOK'
    OBVIOUS
<1>1. ASSUME NEW c \in PipeClient, NEW result \in {"completed", "rejected"}, Load(c, result)
      PROVE  PipeTypeOK'
    <2> DEFINE r == [pc |-> "loaded", step |-> IF current = 0 THEN 1 ELSE current, result |-> result]
    <2>1. r \in PipeCall
        BY StepsType DEF PipeTypeOK, PipeCall, Steps
    <2>2. call' = [call EXCEPT ![c] = r]
        BY <1>1 DEF Load
    <2> HIDE DEF r
    <2>3. call' \in [PipeClient -> PipeCall]
        BY <2>1, <2>2, CallType
    <2> QED BY <1>1, <2>3 DEF Load, PipeTypeOK, PipeCall, Entry, Steps
<1>2. ASSUME NEW c \in PipeClient, AppendHistory(c) PROVE PipeTypeOK'
    <2> DEFINE r == [pc |-> "appended", step |-> call[c].step, result |-> call[c].result]
    <2>1. call' \in [PipeClient -> PipeCall]
        BY <1>2, AppendMoves, CallType
    <2>2. [step |-> call[c].step, result |-> call[c].result] \in Entry
        BY <1>2, CallFields DEF AppendHistory, Entry
    <2>3. history' \in Seq(Entry) /\ Len(history') <= MaxEntries
        BY <1>2, <2>2, MaxEntriesAssumption DEF AppendHistory, PipeTypeOK
    <2> QED BY <1>2, <2>1, <2>3 DEF AppendHistory, PipeTypeOK, PipeCall, Entry, Steps
<1>3. ASSUME NEW c \in PipeClient, CompleteWrite(c) PROVE PipeTypeOK'
    <2>1. call[c].step \in Steps
        BY <1>3, CallFields DEF CompleteWrite
    <2>2. current' \in 0 .. Len(pipeline) /\ completed' \in BOOLEAN
        BY <1>3, <2>1, StepsType DEF CompleteWrite
    <2>3. PICK r \in PipeCall : call' = [call EXCEPT ![c] = r]
        BY <1>3, <2>1, StepsType DEF CompleteWrite, PipeCall
    <2>4. call' \in [PipeClient -> PipeCall]
        BY <2>3, CallType
    <2> QED BY <1>3, <2>2, <2>4 DEF CompleteWrite, PipeTypeOK, PipeCall, Entry, Steps
<1>4. ASSUME NEW c \in PipeClient, RejectWrite(c) PROVE PipeTypeOK'
    <2>1. call[c].step \in Steps
        BY <1>4, CallFields DEF RejectWrite
    <2>2. current' \in 0 .. Len(pipeline) /\ completed' \in BOOLEAN
        <3>1. current' \in 1 .. (call[c].step - 1) /\ completed' = FALSE
            BY <1>4 DEF RejectWrite, Previous
        <3>2. Len(pipeline) \in Nat /\ call[c].step \in 1 .. Len(pipeline)
            BY <2>1, StepsType DEF Steps
        <3> HIDE DEF Steps
        <3>3. current' \in 0 .. Len(pipeline)
            BY <3>1, <3>2, SMT
        <3> QED BY <3>1, <3>3
    <2>3. [pc |-> "written", work |-> "in_progress"] \in PipeCall
        BY DEF PipeCall, Work
    <2>4. call' \in [PipeClient -> PipeCall]
        BY <1>4, <2>3, CallType DEF RejectWrite
    <2> QED BY <1>4, <2>2, <2>4 DEF RejectWrite, PipeTypeOK, PipeCall, Entry, Steps
<1>5. ASSUME NEW c \in PipeClient, WriteStatus(c) \/ DropCall(c) PROVE PipeTypeOK'
    <2>1. NoCall \in PipeCall
        BY DEF PipeCall
    <2>2. call' \in [PipeClient -> PipeCall]
        BY <1>5, <2>1, CallType DEF WriteStatus, DropCall
    <2>3. pipeRow' \in PipeRow
        BY <1>5, CallFields, PipeRowType DEF WriteStatus, DropCall, PipeTypeOK
    <2> QED BY <1>5, <2>2, <2>3 DEF WriteStatus, DropCall, PipeTypeOK, PipeCall, Entry, Steps
<1>6. CASE PatchStatus
    <2>1. pipeRow' \in PipeRow
        BY <1>6, PipeRowType DEF PatchStatus
    <2> QED BY <1>6, <2>1 DEF PatchStatus, PipeTypeOK, PipeCall, Entry, Steps
<1>7. CASE UNCHANGED pipeVars
    BY <1>7 DEF pipeVars, PipeTypeOK, PipeCall, Entry, Steps
<1> QED BY <1>1, <1>2, <1>3, <1>4, <1>5, <1>6, <1>7 DEF PipeNext, PipeStep

\* The current step, the history and what the requests carry stay those of the project's pipeline,
\* whichever of its four transactions each request got through.
THEOREM PipeTypes == PipeSpec => []PipeTypeOK
BY PipeTypeInit, PipeTypeStep, PTL DEF PipeSpec

-----------------------------------------------------------------------------
(* What the history says of the pipeline *)

\* Every step before k is on record as completed.
EarlierDone(k) == \A j \in 1 .. (k - 1) : Recorded(j)

\* Step k is not behind a human review that is not the last step.
Within(k) == \A h \in Steps : IsHuman(h) /\ h < Len(pipeline) => k <= h

\* A request that has its entry on record already did so for its own step.
CallOnRecord(c) ==
    call[c].pc \in {"loaded", "appended"} =>
        /\ EarlierDone(call[c].step) /\ Within(call[c].step)
        /\ call[c].pc = "appended" /\ call[c].result = "completed" => Recorded(call[c].step)

\* What every request may rely on when it derives the next state from the step it loaded: the
\* history only grows, so what was on record for that step is so still.
RecordInv ==
    /\ EarlierDone(current) /\ Within(current)
    /\ completed => Recorded(Len(pipeline)) /\ current = 0
    /\ \A i \in DOMAIN history : Within(history[i].step)
    /\ \A c \in PipeClient : CallOnRecord(c)

LEMMA RecordInit == PipeInit => RecordInv
<1> SUFFICES ASSUME PipeInit PROVE RecordInv
    OBVIOUS
<1>1. EarlierDone(current) /\ Within(current)
    BY DEF PipeInit, EarlierDone, Within, Steps
<1>2. \A c \in PipeClient : CallOnRecord(c)
    BY DEF PipeInit, NoCall, CallOnRecord
<1> QED BY <1>1, <1>2 DEF PipeInit, RecordInv

\* Within is about the pipeline alone, which never changes.
LEMMA WithinStays ==
    ASSUME UNCHANGED pipeline, NEW k
    PROVE  Within(k)' <=> Within(k)
BY DEF Within, Steps, IsHuman

\* A step that leaves the history alone, and the request c with what is on record.
LEMMA RecordGo ==
    ASSUME PipeTypeOK, RecordInv, NEW c \in PipeClient, NEW r, call' = [call EXCEPT ![c] = r],
           UNCHANGED <<pipeline, history>>,
           r.pc \in {"loaded", "appended"} =>
                EarlierDone(r.step) /\ Within(r.step) /\ r.pc = "loaded",
           EarlierDone(current'), Within(current'),
           completed' => Recorded(Len(pipeline)) /\ current' = 0
    PROVE  RecordInv'
<1>1. \A k : (Recorded(k)' <=> Recorded(k)) /\ (EarlierDone(k)' <=> EarlierDone(k))
    BY DEF Recorded, EarlierDone
<1>2. \A k : Within(k)' <=> Within(k)
    BY WithinStays
<1>3. ASSUME NEW d \in PipeClient PROVE CallOnRecord(d)'
    <2>1. call'[d] = IF d = c THEN r ELSE call[d]
        BY CallAfter
    <2>2. CASE d = c
        BY <1>1, <1>2, <2>1, <2>2 DEF CallOnRecord
    <2>3. CASE d # c
        BY <1>1, <1>2, <2>1, <2>3 DEF CallOnRecord, RecordInv
    <2> QED BY <2>2, <2>3
<1>4. EarlierDone(current)' /\ Within(current)'
    BY <1>1, <1>2 DEF EarlierDone, Recorded, Within, Steps, IsHuman
<1>5. (completed => Recorded(Len(pipeline)) /\ current = 0)'
    BY DEF Recorded
<1>6. (\A i \in DOMAIN history : Within(history[i].step))'
    BY <1>2 DEF RecordInv, Within, Steps, IsHuman
<1> QED BY <1>3, <1>4, <1>5, <1>6 DEF RecordInv

LEMMA RecordAppend ==
    ASSUME PipeTypeOK, RecordInv, NEW c \in PipeClient, AppendHistory(c)
    PROVE  RecordInv'
<1> DEFINE e == [step |-> call[c].step, result |-> call[c].result]
           r == [pc |-> "appended", step |-> call[c].step, result |-> call[c].result]
<1>1. call' = [call EXCEPT ![c] = r]
    BY AppendMoves
<1>2. call[c].pc = "loaded" /\ history' = Append(history, e) /\ UNCHANGED <<pipeline, current, completed>>
    BY DEF AppendHistory
<1>3. EarlierDone(call[c].step) /\ Within(call[c].step)
    BY <1>2 DEF RecordInv, CallOnRecord
<1>4. /\ DOMAIN history \subseteq DOMAIN history'
      /\ \A i \in DOMAIN history : history'[i] = history[i]
      /\ \A i \in DOMAIN history' : history'[i] = e \/ (i \in DOMAIN history /\ history'[i] = history[i])
      /\ Len(history') \in DOMAIN history' /\ history'[Len(history')] = e
    <2>1. history \in Seq(Entry) /\ e \in Entry
        BY <1>2, CallFields DEF PipeTypeOK, Entry
    <2> HIDE DEF e
    <2> QED BY <1>2, <2>1
<1>5. \A k : (Recorded(k) => Recorded(k)') /\ (EarlierDone(k) => EarlierDone(k)')
    BY <1>4 DEF Recorded, EarlierDone
<1>6. \A k : k = call[c].step /\ call[c].result = "completed" => Recorded(k)'
    <2>1. e.step = call[c].step /\ (call[c].result = "completed" => e = [step |-> call[c].step, result |-> "completed"])
        OBVIOUS
    <2> HIDE DEF e
    <2> QED BY <1>4, <2>1 DEF Recorded
<1>7. \A k : Within(k)' <=> Within(k)
    BY <1>2, WithinStays
<1>8. ASSUME NEW d \in PipeClient PROVE CallOnRecord(d)'
    <2>1. call'[d] = IF d = c THEN r ELSE call[d]
        BY <1>1, CallAfter
    <2>2. CASE d = c
        BY <1>3, <1>5, <1>6, <1>7, <2>1, <2>2 DEF CallOnRecord
    <2>3. CASE d # c
        BY <1>5, <1>7, <2>1, <2>3 DEF CallOnRecord, RecordInv
    <2> QED BY <2>2, <2>3
<1>9. (\A i \in DOMAIN history : Within(history[i].step))'
    <2>1. \A i \in DOMAIN history' : Within(history'[i].step)
        BY <1>3, <1>4 DEF RecordInv
    <2> QED BY <1>2, <2>1 DEF Within, Steps, IsHuman
<1>10. EarlierDone(current)' /\ Within(current)' /\ (completed => Recorded(Len(pipeline)) /\ current = 0)'
    <2>1. EarlierDone(current)'
        BY <1>2, <1>5 DEF RecordInv, EarlierDone
    <2>2. Within(current)'
        BY <1>2 DEF RecordInv, Within, Steps, IsHuman
    <2>3. (completed => Recorded(Len(pipeline)) /\ current = 0)'
        BY <1>2, <1>5 DEF RecordInv, Recorded
    <2> QED BY <2>1, <2>2, <2>3
<1> QED BY <1>8, <1>9, <1>10 DEF RecordInv

\* The numbers below a smaller number are among those below a larger one.
LEMMA BelowRange ==
    ASSUME NEW n \in Nat, NEW k \in 1 .. (n - 1)
    PROVE  1 .. (k - 1) \subseteq 1 .. (n - 1)
OBVIOUS

\* The state that follows on a completed step is one that the history bears out.
LEMMA AfterIsDone ==
    ASSUME PipeTypeOK, NEW k \in Steps, EarlierDone(k), Recorded(k), Within(k)
    PROVE  /\ EarlierDone(StateAfter(k)) /\ Within(StateAfter(k))
           /\ k = Len(pipeline) => StateAfter(k) = 0
<1>1. Len(pipeline) \in Nat /\ k \in 1 .. Len(pipeline)
    BY StepsType DEF Steps
<1>2. CASE Advances(k)
    <2>1. StateAfter(k) = k + 1 /\ k < Len(pipeline) /\ ~IsHuman(k)
        BY <1>2 DEF StateAfter, Advances
    <2>2. EarlierDone(k + 1)
        BY <1>1 DEF EarlierDone
    <2>3. ASSUME NEW h \in Steps, IsHuman(h), h < Len(pipeline) PROVE k + 1 <= h
        <3>1. k <= h /\ h # k
            BY <2>1, <2>3 DEF Within
        <3> QED BY <1>1, <3>1 DEF Steps
    <2> QED BY <1>1, <2>1, <2>2, <2>3 DEF Within
<1>3. CASE ~Advances(k) /\ k < Len(pipeline)
    BY <1>1, <1>3 DEF StateAfter
<1>4. CASE k = Len(pipeline)
    <2>1. StateAfter(k) = 0
        BY <1>1, <1>4 DEF StateAfter, Advances
    <2>2. EarlierDone(0) /\ Within(0)
        BY DEF EarlierDone, Within, Steps
    <2> QED BY <2>1, <2>2
<1> QED BY <1>1, <1>2, <1>3, <1>4

LEMMA RecordStep == PipeTypeOK /\ RecordInv /\ [PipeNext]_pipeVars => RecordInv'
<1> SUFFICES ASSUME PipeTypeOK, RecordInv, [PipeNext]_pipeVars PROVE RecordInv'
    OBVIOUS
<1>1. /\ EarlierDone(current) /\ Within(current)
      /\ completed => Recorded(Len(pipeline)) /\ current = 0
    BY DEF RecordInv
<1>2. ASSUME NEW c \in PipeClient, NEW result \in {"completed", "rejected"}, Load(c, result)
      PROVE  RecordInv'
    <2> DEFINE k == IF current = 0 THEN 1 ELSE current
    <2>1. call' = [call EXCEPT ![c] = [pc |-> "loaded", step |-> k, result |-> result]]
        BY <1>2 DEF Load
    <2>2. EarlierDone(k) /\ Within(k)
        <3>1. EarlierDone(1) /\ Within(1)
            BY StepsType DEF EarlierDone, Within, Steps
        <3> QED BY <1>1, <3>1
    <2>3. UNCHANGED <<pipeline, history, current, completed>>
        BY <1>2 DEF Load
    <2> HIDE DEF k
    <2> QED BY <1>1, <2>1, <2>2, <2>3, RecordGo
<1>3. ASSUME NEW c \in PipeClient, CompleteWrite(c) PROVE RecordInv'
    <2>1. call[c].step \in Steps /\ EarlierDone(call[c].step) /\ Recorded(call[c].step) /\ Within(call[c].step)
        BY <1>3, CallFields DEF CompleteWrite, RecordInv, CallOnRecord
    <2>2. /\ current' = StateAfter(call[c].step) /\ completed' = (call[c].step = Len(pipeline))
          /\ UNCHANGED <<pipeline, history>>
        BY <1>3 DEF CompleteWrite
    <2>3. PICK r : call' = [call EXCEPT ![c] = r] /\ r.pc \notin {"loaded", "appended"}
        <3>1. \/ call' = [call EXCEPT ![c] = NoCall]
              \/ \E w : call' = [call EXCEPT ![c] = [pc |-> "written", work |-> w]]
            BY <1>3 DEF CompleteWrite
        <3>2. NoCall.pc \notin {"loaded", "appended"}
            BY DEF NoCall
        <3> QED BY <3>1, <3>2
    <2>4. completed' => Recorded(Len(pipeline)) /\ current' = 0
        BY <2>1, <2>2, AfterIsDone
    <2>5. EarlierDone(current') /\ Within(current')
        BY <2>1, <2>2, AfterIsDone
    <2> QED BY <2>2, <2>3, <2>4, <2>5, RecordGo
<1>4. ASSUME NEW c \in PipeClient, RejectWrite(c) PROVE RecordInv'
    <2>1. call[c].step \in Steps /\ EarlierDone(call[c].step) /\ Within(call[c].step)
        BY <1>4, CallFields DEF RejectWrite, RecordInv, CallOnRecord
    <2>2. /\ current' \in 1 .. (call[c].step - 1) /\ completed' = FALSE /\ UNCHANGED <<pipeline, history>>
          /\ call' = [call EXCEPT ![c] = [pc |-> "written", work |-> "in_progress"]]
        BY <1>4 DEF RejectWrite, Previous
    <2>3. Len(pipeline) \in Nat /\ call[c].step \in Nat
        BY <2>1, StepsType DEF Steps
    <2>4. EarlierDone(current') /\ Within(current')
        <3>1. EarlierDone(current')
            <4>1. 1 .. (current' - 1) \subseteq 1 .. (call[c].step - 1)
                BY <2>2, <2>3, BelowRange
            <4> QED BY <2>1, <4>1 DEF EarlierDone
        <3>2. Within(current')
            <4>1. \A h \in Steps : call[c].step <= h => current' <= h
                BY <2>2, <2>3 DEF Steps
            <4> QED BY <2>1, <4>1 DEF Within
        <3> QED BY <3>1, <3>2
    <2> QED BY <2>2, <2>4, RecordGo
<1>5. ASSUME NEW c \in PipeClient, WriteStatus(c) \/ DropCall(c) PROVE RecordInv'
    <2>1. call' = [call EXCEPT ![c] = NoCall] /\ UNCHANGED <<pipeline, history, current, completed>>
        BY <1>5 DEF WriteStatus, DropCall
    <2>2. NoCall.pc \notin {"loaded", "appended"}
        BY DEF NoCall
    <2> QED BY <1>1, <2>1, <2>2, RecordGo
<1>6. CASE PatchStatus \/ UNCHANGED pipeVars
    <2>1. UNCHANGED <<pipeline, current, completed, history, call>>
        BY <1>6 DEF PatchStatus, pipeVars
    <2> QED BY <2>1 DEF RecordInv, CallOnRecord, EarlierDone, Within, Recorded, Steps, IsHuman
<1> QED BY <1>2, <1>3, <1>4, <1>5, <1>6, RecordAppend DEF PipeNext, PipeStep

\* However the requests on a pipeline overlap or break off, no step is skipped, a completed
\* pipeline has its last step on record, and nothing passes a human review that is not the last
\* step: for any pipelines and any number of requests.
THEOREM PipelineOnRecord == PipeSpec => []PipelineIsOnRecord
<1>1. PipeTypeOK /\ RecordInv => PipelineIsOnRecord
    <2> SUFFICES ASSUME PipeTypeOK, RecordInv PROVE PipelineIsOnRecord
        OBVIOUS
    <2>1. NoStepSkipped /\ CompletionIsEarned
        BY DEF RecordInv, NoStepSkipped, EarlierDone, CompletionIsEarned
    <2>2. HumanReviewHolds
        BY DEF RecordInv, Within, HumanReviewHolds
    <2> QED BY <2>1, <2>2 DEF PipelineIsOnRecord
<1> QED BY <1>1, PipeTypeInit, PipeTypeStep, RecordInit, RecordStep, PTL DEF PipeSpec
=============================================================================
