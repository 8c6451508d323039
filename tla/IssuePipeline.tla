----------------------------- MODULE IssuePipeline ----------------------------
(***************************************************************************)
(* The pipeline of an issue.  IssuePipelineProgressionService completes or *)
(* rejects the current step in four transactions: it loads the state,      *)
(* appends to the history, writes the state it derived from what it        *)
(* loaded, and moves the work status.  Nothing holds the issue in between, *)
(* so requests overlap, and one that fails leaves what it wrote.           *)
(***************************************************************************)
EXTENDS IssueRow, Naturals, Sequences

CONSTANTS
    PipeClient,    \* requests that can be under way at once
    Pipelines,     \* the pipelines a project may have, each the steps by step_number
    MaxEntries     \* entries of the history in a behaviour

StepType == {"agent_work", "agent_review", "human_review"}

ASSUME PipelineAssumption ==
    \A p \in Pipelines : p \in Seq([type : StepType, auto : BOOLEAN]) /\ Len(p) > 0

ASSUME MaxEntriesAssumption == MaxEntries \in Nat

VARIABLES
    pipeline,    \* the steps of the project
    pipeRow,     \* the issue's row
    current,     \* current_pipeline_step_id; 0: none
    completed,   \* pipeline_completed_at is set
    history,     \* issue_pipeline_history, oldest first: a step and its result
    call         \* the local state of each request

pipeVars == <<pipeline, pipeRow, current, completed, history, call>>

\* The numbers of the steps.
Steps == 1 .. Len(pipeline)

PipeRow == [state : IssueState, work : Work, approval : Approval]

Entry == [step : Steps, result : {"completed", "rejected"}]

NoCall == [pc |-> "idle"]

\* Between transactions a request knows the step it loaded, what it makes of it, and at the
\* last the status to write.
PipeCall ==
    {NoCall} \cup [pc : {"loaded", "appended"}, step : Steps, result : {"completed", "rejected"}]
             \cup [pc : {"written"}, work : Work]

PipeInit ==
    /\ pipeline \in Pipelines
    /\ pipeRow = Inserted("open")
    /\ current = 0 /\ completed = FALSE
    /\ history = <<>>
    /\ call = [c \in PipeClient |-> NoCall]

Recorded(k) == \E i \in DOMAIN history : history[i] = [step |-> k, result |-> "completed"]

IsHuman(k) == pipeline[k].type = "human_review"

-----------------------------------------------------------------------------
(* Mutants *)

\* An error of the history is ignored.
AppendBestEffort(c) ==
    /\ call[c].pc = "loaded" /\ Len(history) < MaxEntries
    /\ history' \in {history, Append(history, [step |-> call[c].step, result |-> call[c].result])}
    /\ call' = [call EXCEPT ![c].pc = "appended"]
    /\ UNCHANGED <<pipeline, pipeRow, current, completed>>

\* A human review advances like the others.
AdvancesAll(k) == k < Len(pipeline) /\ pipeline[k].auto

\* The last step stays the current one.
StateAfterStays(k) == IF k < Len(pipeline) /\ ~IsHuman(k) THEN k + 1 ELSE k

-----------------------------------------------------------------------------
(* Requests *)

\* loadCurrentStep; a completion starts implicitly at the first step.
Load(c, result) ==
    /\ call[c] = NoCall /\ Len(history) < MaxEntries
    /\ current = 0 => result = "completed"
    /\ result = "rejected" => \E j \in 1 .. (current - 1) : ~IsHuman(j)
    /\ call' = [call EXCEPT ![c] =
            [pc |-> "loaded", step |-> IF current = 0 THEN 1 ELSE current, result |-> result]]
    /\ UNCHANGED <<pipeline, pipeRow, current, completed, history>>

\* AppendIssuePipelineHistory
AppendHistory(c) ==
    /\ call[c].pc = "loaded" /\ Len(history) < MaxEntries
    /\ history' = Append(history, [step |-> call[c].step, result |-> call[c].result])
    /\ call' = [call EXCEPT ![c].pc = "appended"]
    /\ UNCHANGED <<pipeline, pipeRow, current, completed>>

\* A completed step makes way for the next one, unless a human reviews it or it does not
\* advance by itself.
Advances(k) == k < Len(pipeline) /\ ~IsHuman(k) /\ pipeline[k].auto

\* The current step after step k is completed: the next one, the same one, or none.
StateAfter(k) == IF Advances(k) THEN k + 1 ELSE IF k < Len(pipeline) THEN k ELSE 0

\* previousActionableStep: the last step before k that no human reviews.
Previous(k) == {j \in 1 .. (k - 1) : ~IsHuman(j) /\ \A i \in (j + 1) .. (k - 1) : IsHuman(i)}

\* The status to write after step k was completed; none for a step that waits for its agent.
StatusAfter(k) ==
    IF Advances(k) THEN {IF IsHuman(k + 1) THEN "review" ELSE "in_progress"}
    ELSE IF k = Len(pipeline) THEN {"done"}
    ELSE IF IsHuman(k) THEN {"review"} ELSE {}

CompleteWrite(c) ==
    /\ call[c].pc = "appended" /\ call[c].result = "completed"
    /\ LET k == call[c].step IN
        /\ current' = StateAfter(k)
        /\ completed' = (k = Len(pipeline))
        /\ \/ \E w \in StatusAfter(k) : call' = [call EXCEPT ![c] = [pc |-> "written", work |-> w]]
           \/ StatusAfter(k) = {} /\ call' = [call EXCEPT ![c] = NoCall]
    /\ UNCHANGED <<pipeline, pipeRow, history>>

RejectWrite(c) ==
    /\ call[c].pc = "appended" /\ call[c].result = "rejected"
    /\ current' \in Previous(call[c].step)
    /\ completed' = FALSE
    /\ call' = [call EXCEPT ![c] = [pc |-> "written", work |-> "in_progress"]]
    /\ UNCHANGED <<pipeline, pipeRow, history>>

\* updateIssueWorkStatus; a status that cannot follow is an error, and nothing is taken back.
WriteStatus(c) ==
    /\ call[c].pc = "written"
    /\ \/ pipeRow' \in Tracked(pipeRow, call[c].work, Keep)
       \/ Tracked(pipeRow, call[c].work, Keep) = {} /\ UNCHANGED pipeRow
    /\ call' = [call EXCEPT ![c] = NoCall]
    /\ UNCHANGED <<pipeline, current, completed, history>>

\* The request is cancelled or its server stops.
DropCall(c) ==
    /\ call[c] # NoCall
    /\ call' = [call EXCEPT ![c] = NoCall]
    /\ UNCHANGED <<pipeline, pipeRow, current, completed, history>>

\* Someone else writes the status: PATCH, or a handler of IssueFlow.
PatchStatus ==
    /\ \E w \in Work : pipeRow' \in Tracked(pipeRow, w, Keep)
    /\ UNCHANGED <<pipeline, current, completed, history, call>>

PipeStep(c) ==
    \/ \E result \in {"completed", "rejected"} : Load(c, result)
    \/ AppendHistory(c) \/ CompleteWrite(c) \/ RejectWrite(c) \/ WriteStatus(c) \/ DropCall(c)

PipeNext == PatchStatus \/ \E c \in PipeClient : PipeStep(c)

PipeSpec == PipeInit /\ [][PipeNext]_pipeVars

-----------------------------------------------------------------------------
(* Properties *)

\* The columns of the issue and of its history, and what a request carries.
PipeTypeOK ==
    /\ pipeline \in Pipelines /\ pipeRow \in PipeRow
    /\ current \in 0 .. Len(pipeline) /\ completed \in BOOLEAN
    /\ history \in Seq(Entry) /\ Len(history) <= MaxEntries
    /\ call \in [PipeClient -> PipeCall]

\* No step is skipped: however the requests overlap or break off, every step before the
\* current one has an entry that says it was completed.  It rests on the order of the two
\* writes of CompleteCurrentStep.
NoStepSkipped == \A k \in 1 .. (current - 1) : Recorded(k)

\* A completed pipeline has its last step on record as completed.
CompletionIsEarned == completed => Recorded(Len(pipeline)) /\ current = 0

\* A human review that is not the last step is the end of the way: completing it parks the
\* issue, and no other operation moves it forwards, so no step after it is ever current or
\* on record.
HumanReviewHolds ==
    \A h \in Steps : IsHuman(h) /\ h < Len(pipeline) =>
        current <= h /\ \A i \in DOMAIN history : history[i].step <= h

\* What the history says of the pipeline, although every request writes it in four parts.
PipelineIsOnRecord == NoStepSkipped /\ CompletionIsEarned /\ HumanReviewHolds
=============================================================================
