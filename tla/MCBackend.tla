------------------------------- MODULE MCBackend ------------------------------
(***************************************************************************)
(* The instances of the modules of the server that do not share state.  A  *)
(* behaviour is one of the part that `focus' names; the variables of the   *)
(* others keep their initial values, so that the state spaces add up.      *)
(***************************************************************************)
EXTENDS IssueFlow, IssuePipeline, Migration, EllieIngestion, Hub, ExecApprovals, RepoPublish,
        GitHubSync, Conversations, Dedup, ContextInjection, TLC

CONSTANTS p1, p2, r1, r2

VARIABLE focus

MCFlow == <<[type |-> "work", actor |-> "agent", next |-> 2, reject |-> 0],
            [type |-> "review", actor |-> "agent", next |-> 3, reject |-> 1],
            [type |-> "work", actor |-> "human", next |-> 0, reject |-> 0]>>

PS(type, auto) == [type |-> type, auto |-> auto]

MCPipelines ==
    {<<PS("agent_work", TRUE), PS("agent_review", TRUE), PS("human_review", TRUE), PS("agent_work", TRUE)>>,
     <<PS("agent_work", TRUE), PS("agent_work", FALSE), PS("human_review", TRUE)>>}

MCPhaseLists == {<<"once", "batched">>, <<"once", "ticked">>, <<"ticked", "stepped">>}

MCLastMessage == (r1 :> 1) @@ (r2 :> 2)

MCRoomOf == (1 :> 1) @@ (2 :> 1) @@ (3 :> 2)

MCSimilar == <<{1, 2}, {2, 3}, {4, 5}>>

vars == <<focus, issueVars, pipeVars, migVars, ingVars, hubVars, execVars, repoVars, syncVars,
          convVars, dedupVars, injVars>>

Init ==
    /\ focus \in {"issue", "pipeline", "migration", "ingestion", "hub", "exec", "repo", "sync",
                 "conversation", "dedup", "injection"}
    /\ IssueInit /\ PipeInit /\ MigInit /\ IngInit /\ HubInit
    /\ ExecInit /\ RepoInit /\ SyncInit
    /\ ConvInit /\ DedupInit /\ InjInit
    /\ issue.state = "open"
    /\ focus # "pipeline" => pipeline = CHOOSE p \in Pipelines : TRUE
    /\ focus # "migration" =>
        phases = (CHOOSE p \in PhaseLists : TRUE) /\ \A k \in MigPhase : pending[k] = NoWork
    /\ focus # "exec" => ~hasCallback
    /\ focus # "conversation" => chat = {}
    /\ focus # "dedup" => complete

OfIssue ==
    /\ focus = "issue"
    /\ UNCHANGED <<focus, pipeVars, migVars, ingVars, hubVars, execVars, repoVars, syncVars,
                   convVars, dedupVars, injVars>>

OfPipeline ==
    /\ focus = "pipeline"
    /\ UNCHANGED <<focus, issueVars, migVars, ingVars, hubVars, execVars, repoVars, syncVars,
                   convVars, dedupVars, injVars>>

\* Without phases of its own the runner is not started, which keeps the state space small.
OfMigration ==
    /\ focus = "migration"
    /\ (\A k \in MigPhase : IsWorkers(k)) => UNCHANGED runner
    /\ UNCHANGED <<focus, issueVars, pipeVars, ingVars, hubVars, execVars, repoVars, syncVars,
                   convVars, dedupVars, injVars>>

OfIngestion ==
    /\ focus = "ingestion"
    /\ UNCHANGED <<focus, issueVars, pipeVars, migVars, hubVars, execVars, repoVars, syncVars,
                   convVars, dedupVars, injVars>>

OfHub ==
    /\ focus = "hub"
    /\ UNCHANGED <<focus, issueVars, pipeVars, migVars, ingVars, execVars, repoVars, syncVars,
                   convVars, dedupVars, injVars>>

OfExec ==
    /\ focus = "exec"
    /\ UNCHANGED <<focus, issueVars, pipeVars, migVars, ingVars, hubVars, repoVars, syncVars,
                   convVars, dedupVars, injVars>>

OfRepo ==
    /\ focus = "repo"
    /\ UNCHANGED <<focus, issueVars, pipeVars, migVars, ingVars, hubVars, execVars, syncVars,
                   convVars, dedupVars, injVars>>

OfSync ==
    /\ focus = "sync"
    /\ UNCHANGED <<focus, issueVars, pipeVars, migVars, ingVars, hubVars, execVars, repoVars,
                   convVars, dedupVars, injVars>>

OfConversations ==
    /\ focus = "conversation"
    /\ UNCHANGED <<focus, issueVars, pipeVars, migVars, ingVars, hubVars, execVars, repoVars, syncVars,
                   dedupVars, injVars>>

OfDedup ==
    /\ focus = "dedup"
    /\ UNCHANGED <<focus, issueVars, pipeVars, migVars, ingVars, hubVars, execVars, repoVars, syncVars,
                   convVars, injVars>>

OfInjection ==
    /\ focus = "injection"
    /\ UNCHANGED <<focus, issueVars, pipeVars, migVars, ingVars, hubVars, execVars, repoVars, syncVars,
                   convVars, dedupVars>>

Next ==
    \/ OfIssue /\ IssueNext
    \/ OfPipeline /\ PipeNext
    \/ OfMigration /\ MigNext
    \/ OfIngestion /\ IngNext
    \/ OfHub /\ HubNext
    \/ OfExec /\ ExecNext
    \/ OfRepo /\ RepoNext
    \/ OfSync /\ SyncNext
    \/ OfConversations /\ ConvNext
    \/ OfDedup /\ DedupNext
    \/ OfInjection /\ InjNext

\* The background workers go on, and so do the hub and the pumps.
Fairness ==
    /\ WF_migVars(focus = "migration" /\ WorkerTick)
    /\ \A w \in Ingester : WF_ingVars(focus = "ingestion" /\ IngestStep(w))
    /\ WF_hubVars(focus = "hub" /\ Delivered)
    /\ \A c \in Browser :
        /\ WF_hubVars(focus = "hub" /\ Deliver(c)) /\ WF_hubVars(focus = "hub" /\ Unregister(c))
        /\ WF_hubVars(focus = "hub" /\ PumpStep(c))
    /\ \A w \in Segmenter : WF_convVars(focus = "conversation" /\ SegmentStep(w))
    /\ WF_convVars(focus = "conversation" /\ EmbedStep)
    /\ WF_convVars(focus = "conversation" /\ Backfill)
    /\ WF_dedupVars(focus = "dedup" /\ DedupStep)

Spec == Init /\ [][Next]_vars /\ Fairness

\* The type invariants of the parts.
TypesOK ==
    /\ IssueTypeOK /\ PipeTypeOK /\ MigTypeOK /\ IngTypeOK
    /\ HubTypeOK /\ ExecTypeOK /\ RepoTypeOK /\ SyncTypeOK
    /\ ConvTypeOK /\ DedupTypeOK /\ InjTypeOK
=============================================================================
