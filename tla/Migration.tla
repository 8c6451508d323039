------------------------------- MODULE Migration ------------------------------
(***************************************************************************)
(* The OpenClaw migration of one organisation: the rows of                 *)
(* migration_progress and everybody who writes them.  The runner of the    *)
(* command line goes through the phases and imports the history in         *)
(* batches, starting again where the row says it stopped; the pipeline     *)
(* worker of the server moves its phases on, tick by tick; the endpoints   *)
(* run, pause, resume and reset, and take batches from a remote runner.    *)
(* No writer of a status looks at the status it replaces.                  *)
(***************************************************************************)
EXTENDS Naturals, Sequences

CONSTANTS
    PhaseLists,   \* lists of phases, each the kinds in their order
    Batches,      \* batches of history events
    Units,        \* units of work that a phase of the worker has at most
    MaxRuns,      \* starts of the runner
    MaxCalls,     \* calls of the endpoints, and arrivals of work
    MaxFaults     \* failures and fruitless ticks of the worker, and restarts of its server

\* "once" and "batched" are the runner's own (agent_import, history_backfill).  The worker
\* takes the others too: after a tick it sets those of kind "ticked" to running again
\* (embeddings, memory extraction), and those of kind "stepped" it only advances.
PhaseKind == {"once", "batched", "ticked", "stepped"}

ASSUME PhasesAssumption == \A p \in PhaseLists : p \in Seq(PhaseKind) /\ Len(p) > 0

ASSUME BoundsAssumption == {Batches, Units, MaxRuns, MaxCalls, MaxFaults} \subseteq Nat

RowStatus == {"absent", "running", "paused", "completed", "failed"}

VARIABLES
    phases,      \* the phases of the organisation, by their kinds
    status,      \* per phase: the status of its row, "absent" without one
    processed,   \* per phase of kind "batched": processed_items, in batches
    imported,    \* the batches whose messages are in chat_messages
    pending,     \* per phase: work that the worker has yet to do, and what it can never do of it
    runner,      \* the runner of the command line
    worker,      \* the pipeline worker
    api,         \* the endpoint call that is under way
    disturbed,   \* a reset met a runner, or batches came in through the endpoint
    overrun,     \* batches that the runner imported since it was paused
    runs, calls, faults

migVars == <<phases, status, processed, imported, pending, runner, worker, api, disturbed, overrun,
             runs, calls, faults>>

MigPhase == 1 .. Len(phases)

rowVars == <<status, processed>>
budgets == <<runs, calls, faults>>

IsWorkers(k) == phases[k] \in {"ticked", "stepped"}

RunnerPC == {"idle", "load", "start", "resume", "work", "advance", "check", "finish"}

RunnerIdle == [pc |-> "idle", k |-> 1, at |-> 0]
WorkerIdle == [pc |-> "idle", k |-> 1]
ApiIdle == [pc |-> "idle", k |-> 1]

\* The work of a phase, and the part of it that no tick ever finishes: an entity with so many
\* more mentions than a synthesis takes sources that it is a candidate again at once, a memory
\* that is never classified, a text that is never embedded, a room whose extraction always
\* fails, and what a limited list does not reach behind them.
Backlog == {b \in [all : 0 .. Units, stuck : 0 .. Units] : b.stuck <= b.all}

NoWork == [all |-> 0, stuck |-> 0]

MigInit ==
    /\ phases \in PhaseLists
    /\ status = [k \in MigPhase |-> "absent"]
    /\ processed = [k \in MigPhase |-> 0]
    /\ imported = {}
    /\ pending \in [MigPhase -> Backlog] /\ \A k \in MigPhase : IsWorkers(k) \/ pending[k] = NoWork
    /\ runner = RunnerIdle /\ worker = WorkerIdle /\ api = ApiIdle
    /\ disturbed = FALSE /\ overrun = 0
    /\ runs = 0 /\ calls = 0 /\ faults = 0

-----------------------------------------------------------------------------
(* Mutants *)

\* The runner starts at the number of events, not at the number that was processed.
ResumeAtNext(k) == IF processed[k] >= Batches THEN Batches ELSE processed[k] + 1

\* The runner does not look for a pause after a batch.
NeverPaused(k) == FALSE

\* A phase whose work is done keeps running.
OutcomeOpen(k) == "running"

\* The count goes on from what was there.
StartedAgain(k) ==
    status' = [status EXCEPT ![k] = "running"] /\ processed' = [processed EXCEPT ![k] = @ + 1]

-----------------------------------------------------------------------------
(* MigrationProgressStore *)

\* StartPhase inserts the row or starts it over.
StartPhase(k) ==
    status' = [status EXCEPT ![k] = "running"] /\ processed' = [processed EXCEPT ![k] = 0]

\* SetStatus is unconditional; without a row it is an error.
SetStatus(k, s) ==
    status[k] # "absent" /\ status' = [status EXCEPT ![k] = s] /\ UNCHANGED processed

-----------------------------------------------------------------------------
(* The runner *)

RunnerAt(pc) == runner.pc = pc /\ UNCHANGED <<pending, worker, api, disturbed, budgets>>

RunnerGo(pc, k, at) == runner' = [pc |-> pc, k |-> k, at |-> at]

RunnerStops == runner' = RunnerIdle

\* The next phase, or the end of the run.
RunnerNext(k) == IF k = Len(phases) THEN RunnerStops ELSE RunnerGo("load", k + 1, 0)

RunnerStart ==
    /\ runner = RunnerIdle /\ runs < MaxRuns
    /\ runs' = runs + 1 /\ overrun' = 0
    /\ RunnerGo("load", 1, 0)
    /\ UNCHANGED <<rowVars, imported, pending, worker, api, disturbed, calls, faults>>

\* Where a run that finds a row goes on in the history.
ResumeAt(k) == IF processed[k] > Batches THEN Batches ELSE processed[k]

RunnerLoad ==
    /\ RunnerAt("load")
    /\ LET k == runner.k IN
        \/ status[k] = "absent" /\ RunnerGo("start", k, 0)
        \/ status[k] = "completed" /\ RunnerNext(k)
        \/ status[k] = "failed" /\ RunnerStops
        \/ status[k] \in {"running", "paused"} /\ RunnerGo("resume", k, ResumeAt(k))
    /\ UNCHANGED <<rowVars, imported, overrun>>

\* The row is started or set to running, also when it was paused or finished in between.
RunnerMark ==
    /\ runner.pc \in {"start", "resume"} /\ UNCHANGED <<pending, worker, api, disturbed, budgets>>
    /\ LET k == runner.k
           go == IF phases[k] = "batched" /\ runner.at >= Batches THEN "finish" ELSE "work"
       IN  \/ runner.pc = "start" /\ StartPhase(k) /\ RunnerGo(go, k, runner.at)
           \/ runner.pc = "resume" /\ SetStatus(k, "running") /\ RunnerGo(go, k, runner.at)
           \/ runner.pc = "resume" /\ status[k] = "absent" /\ RunnerStops /\ UNCHANGED rowVars
    /\ overrun' = 0
    /\ UNCHANGED imported

\* BackfillOpenClawHistory commits a batch; a message that is there already is left alone.
\* Every other phase the runner goes through once and takes for done, whatever is left.
RunnerWork ==
    /\ runner.pc = "work"
    /\ LET k == runner.k IN
        \/ /\ phases[k] = "batched"
           /\ imported' = imported \cup {runner.at + 1}
           /\ overrun' = IF status[k] = "paused" THEN overrun + 1 ELSE 0
           /\ RunnerGo("advance", k, runner.at)
           /\ UNCHANGED pending
        \/ /\ phases[k] # "batched"
           /\ \E left \in pending[k].stuck .. pending[k].all :
                pending' = [pending EXCEPT ![k].all = left]
           /\ RunnerGo("finish", k, 0)
           /\ UNCHANGED <<imported, overrun>>
    /\ UNCHANGED <<rowVars, worker, api, disturbed, budgets>>

\* The work of the phase fails, and the row says so if that can be written.
RunnerFails ==
    /\ RunnerAt("work")
    /\ SetStatus(runner.k, "failed") \/ UNCHANGED rowVars
    /\ RunnerStops
    /\ UNCHANGED <<imported, overrun>>

\* Advance counts the batch, on whatever row is there.
RunnerAdvance ==
    /\ RunnerAt("advance")
    /\ LET k == runner.k IN
        \/ /\ status[k] # "absent"
           /\ processed' = [processed EXCEPT ![k] = @ + 1]
           /\ RunnerGo("check", k, runner.at)
        \/ status[k] = "absent" /\ RunnerStops /\ UNCHANGED processed
    /\ UNCHANGED <<status, imported, overrun>>

PausedNow(k) == status[k] = "paused"

\* The look for a pause after each batch; a row that is gone is none.
RunnerCheck ==
    /\ RunnerAt("check")
    /\ LET k == runner.k IN
        \/ PausedNow(k) /\ RunnerStops
        \/ /\ ~PausedNow(k)
           /\ RunnerGo(IF runner.at + 1 >= Batches THEN "finish" ELSE "work", k, runner.at + 1)
    /\ UNCHANGED <<rowVars, imported, overrun>>

RunnerFinish ==
    /\ RunnerAt("finish")
    /\ \/ SetStatus(runner.k, "completed") /\ RunnerNext(runner.k)
       \/ status[runner.k] = "absent" /\ RunnerStops /\ UNCHANGED rowVars
    /\ UNCHANGED <<imported, overrun>>

RunnerDies ==
    /\ runner # RunnerIdle /\ RunnerStops
    /\ UNCHANGED <<rowVars, imported, pending, worker, api, disturbed, overrun, budgets>>

RunnerStep ==
    \/ RunnerStart \/ RunnerLoad \/ RunnerMark \/ RunnerWork \/ RunnerFails \/ RunnerAdvance
    \/ RunnerCheck \/ RunnerFinish \/ RunnerDies

-----------------------------------------------------------------------------
(* The pipeline worker *)

workerKeeps == <<imported, runner, api, disturbed, overrun, runs, calls>>

\* A tick reads one row after the other and takes the first phase that it finds running; an
\* earlier one may be running by then.
WorkerScan ==
    /\ worker.pc = "idle"
    /\ LET k == worker.k
           mine == IsWorkers(k) /\ status[k] = "running"
       IN  \/ mine /\ worker' = [worker EXCEPT !.pc = "work"]
           \/ ~mine /\ worker' = IF k = Len(phases) THEN WorkerIdle ELSE [worker EXCEPT !.k = @ + 1]
    /\ UNCHANGED <<rowVars, pending, workerKeeps, faults>>

\* The tick does a unit of the work, if one is left that can be done.  Some phases see at once
\* that it was the last, others in the next tick.
WorkerWorks ==
    /\ worker.pc = "work"
    /\ LET k == worker.k
           b == pending[k]
           left == IF b.all > b.stuck THEN b.all - 1 ELSE b.all
       IN  /\ pending' = [pending EXCEPT ![k].all = left]
           /\ \/ left = 0 /\ worker' = [worker EXCEPT !.pc = "done"]
              \/ b.all > 0 /\ worker' = [worker EXCEPT !.pc = "some"]
    /\ UNCHANGED <<rowVars, workerKeeps, faults>>

\* It finds the work not done and the rest of it as it was, or fails for a while (the bridge
\* is away) or for good.
WorkerFaults ==
    /\ worker.pc = "work" /\ faults < MaxFaults /\ faults' = faults + 1
    /\ \E pc \in {"some", "retry", "fail"} : worker' = [worker EXCEPT !.pc = pc]
    /\ UNCHANGED <<rowVars, pending, workerKeeps>>

\* The status that a tick leaves the phase in, if it sets one.
Outcome(k) ==
    CASE worker.pc = "done" -> "completed"
      [] worker.pc = "fail" -> "failed"
      [] worker.pc \in {"retry", "some"} -> "running"

WorkerWrites ==
    /\ worker.pc \in {"done", "fail", "retry", "some"}
    /\ LET k == worker.k IN
        \/ worker.pc = "some" /\ phases[k] = "stepped" /\ UNCHANGED rowVars
        \/ (worker.pc = "some" => phases[k] = "ticked") /\ SetStatus(k, Outcome(k))
        \/ status[k] = "absent" /\ UNCHANGED rowVars
    /\ worker' = WorkerIdle
    /\ UNCHANGED <<pending, workerKeeps, faults>>

WorkerRestarts ==
    /\ worker # WorkerIdle /\ faults < MaxFaults /\ faults' = faults + 1
    /\ worker' = WorkerIdle
    /\ UNCHANGED <<rowVars, pending, workerKeeps>>

WorkerStep == WorkerScan \/ WorkerWorks \/ WorkerFaults \/ WorkerWrites \/ WorkerRestarts

-----------------------------------------------------------------------------
(* The endpoints *)

\* A call that is one transaction, also in the middle of another; one of several calls of
\* more than one is under way at a time.
NewCall == calls < MaxCalls /\ calls' = calls + 1 /\ UNCHANGED <<runs, faults>>

LongCall == NewCall /\ api = ApiIdle

ApiAt(pc) == api.pc = pc /\ UNCHANGED budgets

ApiGo(pc, k) == api' = [pc |-> pc, k |-> k]

\* UpdateStatusByOrg
MoveAll(from, to) == status' = [k \in MigPhase |-> IF status[k] = from THEN to ELSE status[k]]

Pause ==
    /\ NewCall /\ MoveAll("running", "paused")
    /\ UNCHANGED <<processed, imported, pending, runner, worker, api, disturbed, overrun>>

Resume ==
    /\ NewCall /\ MoveAll("paused", "running") /\ overrun' = 0
    /\ UNCHANGED <<processed, imported, pending, runner, worker, api, disturbed>>

\* Run reads the row of a phase; it may start at a later phase, and stop at any error.
ApiRun ==
    /\ LongCall /\ \E k \in MigPhase : ApiGo("read", k)
    /\ UNCHANGED <<rowVars, imported, pending, runner, worker, disturbed, overrun>>

ApiNext(k) == IF k = Len(phases) THEN api' = ApiIdle ELSE ApiGo("read", k + 1)

ApiRead ==
    /\ ApiAt("read")
    /\ LET k == api.k IN
        \/ status[k] = "absent" /\ ApiGo("start", k)
        \/ status[k] = "paused" /\ (ApiGo("force", k) \/ ApiNext(k))
        \/ status[k] \in {"running", "completed"} /\ ApiNext(k)
        \/ status[k] = "failed" /\ api' = ApiIdle
    /\ UNCHANGED <<rowVars, imported, pending, runner, worker, disturbed, overrun>>

\* The call starts the phase, or sets a paused one to running.  A row that is gone by now is an
\* error, at which it stops: ApiAborts.
ApiWrite ==
    /\ api.pc \in {"start", "force"} /\ UNCHANGED budgets
    /\ LET k == api.k IN
        \/ api.pc = "start" /\ StartPhase(k) /\ ApiNext(k)
        \/ api.pc = "force" /\ SetStatus(k, "running") /\ ApiNext(k)
    /\ overrun' = 0
    /\ UNCHANGED <<imported, pending, runner, worker, disturbed>>

\* Messages, memories and mentions come in all the time; any of them may be past finishing.
WorkArrives ==
    /\ NewCall
    /\ \E k \in MigPhase, b \in Backlog :
        /\ IsWorkers(k) /\ b.all >= pending[k].all /\ b.stuck >= pending[k].stuck
        /\ pending' = [pending EXCEPT ![k] = b]
    /\ UNCHANGED <<rowVars, imported, runner, worker, api, disturbed, overrun>>

\* After a reset a phase may find any work.
WorkAnew ==
    /\ pending' \in [MigPhase -> Backlog]
    /\ \A k \in MigPhase : IsWorkers(k) \/ pending'[k] = NoWork

\* Reset deletes the rows and everything that was imported, in one transaction.
Reset ==
    /\ NewCall
    /\ status' = [k \in MigPhase |-> "absent"] /\ processed' = [k \in MigPhase |-> 0]
    /\ imported' = {}
    /\ disturbed' = (disturbed \/ runner # RunnerIdle)
    /\ WorkAnew
    /\ UNCHANGED <<runner, worker, api, overrun>>

\* ResetMemoryExtraction: first the memories and cursors, then the rows of the worker's phases.
ResetMemory ==
    /\ LongCall
    /\ WorkAnew
    /\ ApiGo("forget", 1)
    /\ UNCHANGED <<rowVars, imported, runner, worker, disturbed, overrun>>

ForgetRows ==
    /\ ApiAt("forget")
    /\ status' = [k \in MigPhase |-> IF IsWorkers(k) THEN "absent" ELSE status[k]]
    /\ processed' = [k \in MigPhase |-> IF IsWorkers(k) THEN 0 ELSE processed[k]]
    /\ api' = ApiIdle
    /\ UNCHANGED <<imported, pending, runner, worker, disturbed, overrun>>

\* ImportHistoryBatch: any batch, also one that came in before.
ImportBatch ==
    /\ LongCall
    /\ \E k \in MigPhase, b \in 1 .. Batches :
        phases[k] = "batched" /\ imported' = imported \cup {b} /\ ApiGo("count", k)
    /\ disturbed' = TRUE
    /\ UNCHANGED <<rowVars, pending, runner, worker, overrun>>

\* advanceMigrationProgress reads the row, starts it when there was none, sets it to running
\* when it was not, and counts.
CountBatch ==
    /\ api.pc \in {"count", "begin", "add"} /\ UNCHANGED budgets
    /\ LET k == api.k IN
        \/ api.pc = "count" /\ status[k] = "absent" /\ ApiGo("begin", k) /\ UNCHANGED rowVars
        \/ api.pc = "begin" /\ StartPhase(k) /\ ApiGo("add", k)
        \/ api.pc = "count" /\ SetStatus(k, "running") /\ ApiGo("add", k)
        \/ /\ api.pc = "add" /\ status[k] # "absent"
           /\ processed' = [processed EXCEPT ![k] = @ + 1] /\ api' = ApiIdle /\ UNCHANGED status
        \/ api.pc = "add" /\ status[k] = "absent" /\ api' = ApiIdle /\ UNCHANGED rowVars
    /\ overrun' = 0
    /\ UNCHANGED <<imported, pending, runner, worker, disturbed>>

ApiAborts ==
    /\ api # ApiIdle /\ api' = ApiIdle
    /\ UNCHANGED <<rowVars, imported, pending, runner, worker, disturbed, overrun, budgets>>

ApiStep ==
    \/ Pause \/ Resume \/ ApiRun \/ ApiRead \/ ApiWrite \/ Reset \/ ResetMemory \/ ForgetRows
    \/ ImportBatch \/ CountBatch \/ ApiAborts

MigNext == UNCHANGED phases /\ (RunnerStep \/ WorkerStep \/ ApiStep \/ WorkArrives)

\* The worker's loop ticks on as long as its server runs.
WorkerTick == UNCHANGED phases /\ (WorkerScan \/ WorkerWorks \/ WorkerWrites)

MigSpec == MigInit /\ [][MigNext]_migVars

-----------------------------------------------------------------------------
(* Properties *)

\* The rows and the local states of the four writers.
MigTypeOK ==
    /\ phases \in PhaseLists
    /\ status \in [MigPhase -> RowStatus]
    /\ processed \in [MigPhase -> Nat]
    /\ imported \subseteq 1 .. Batches
    /\ pending \in [MigPhase -> Backlog]
    /\ runner \in [pc : RunnerPC, k : MigPhase, at : 0 .. Batches]
    /\ worker \in [pc : {"idle", "work", "done", "some", "retry", "fail"}, k : MigPhase]
    /\ api \in [pc : {"idle", "read", "start", "force", "forget", "count", "begin", "add"}, k : MigPhase]
    /\ disturbed \in BOOLEAN /\ overrun \in Nat
    /\ runs \in 0 .. MaxRuns /\ calls \in 0 .. MaxCalls /\ faults \in 0 .. MaxFaults

\* Where the next run goes on nothing is missing: after a crash, a pause, or an endpoint that
\* started the phase over, all batches before the resume point are in the database.  It does
\* not hold of a row that counts for two: when batches come in through the endpoint as well,
\* or a reset and a new start happen under a run.
ResumePointIsImported ==
    ~disturbed => \A k \in MigPhase : phases[k] = "batched" => 1 .. processed[k] \subseteq imported

\* A phase that the runner completed has all its batches imported, although no write of the
\* status asks what it replaces.
CompletedIsImported ==
    ~disturbed => \A k \in MigPhase :
        phases[k] = "batched" /\ status[k] = "completed" => 1 .. Batches \subseteq imported

\* A pause that finds the runner in the history stops it after one batch: the one under way,
\* or the next if the runner has just looked.
PauseIsHeeded == overrun <= 1

\* A phase that runs for ever once it runs: no tick works it off, and nothing but a call or the
\* runner ends it.
Endless(k) == IsWorkers(k) /\ status[k] = "running" /\ pending[k].stuck > 0

\* A phase of the worker runs that can be worked off, and no endless one stands before it.
InProgress ==
    \E k \in MigPhase :
        IsWorkers(k) /\ status[k] = "running" /\ \A j \in 1 .. k : ~Endless(j)

\* A phase of the worker that runs is completed, failed, paused or deleted in the end, as the
\* faults are bounded and every other tick does some of the work.  It does not hold of a phase
\* with work that cannot be done: the code counts no attempts, so the phase runs for ever, and
\* so does every phase after it, as a tick takes the first phase that runs.
PhaseSettles == []<>~InProgress

\* The history is whole where the rows say so, and the runner stops when it is told to.
HistoryIsSound == ResumePointIsImported /\ CompletedIsImported /\ PauseIsHeeded
=============================================================================
