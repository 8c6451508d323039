------------------------------ MODULE AgentJobs ------------------------------
(***************************************************************************)
(* The agent-job scheduler: the tables agent_jobs and agent_job_runs, the  *)
(* polling workers that lease due jobs and post their payload as a chat    *)
(* message, and the HTTP handlers that create, edit, pause, resume, run    *)
(* and delete jobs.  One action is one database transaction together with  *)
(* the local code up to the next one; between two actions of a process     *)
(* any other process may act, the clock may advance, and the process may   *)
(* crash.  Time is counted in ticks of an arbitrary length.                *)
(***************************************************************************)
EXTENDS Integers, FiniteSets

CONSTANTS
    Job,           \* identifiers of jobs; an identifier is never reused
    Worker,        \* scheduler workers (one per server process)
    Client,        \* concurrent HTTP requests
    Request,       \* the kinds of request that clients make
    CreateInput,   \* the rows that POST /jobs may ask for
    PatchInput,    \* the column sets that PATCH /jobs/{id} may write
    Skew,          \* offset of each worker's clock
    RunTimeout,    \* AgentJobWorkerConfig.RunTimeout
    MaxPerPoll,    \* AgentJobWorkerConfig.MaxPerPoll
    MaxRunHistory, \* AgentJobWorkerConfig.MaxRunHistory
    RetryDelay,    \* defaultJobRetryDelay
    MaxTime,       \* bound: last tick of the clock
    MaxRequests,   \* bound: number of HTTP requests
    MaxCrashes,    \* bound: number of process crashes
    MaxFaults,     \* bound: number of failed database calls
    Timely,        \* TRUE: no worker is still running at its deadline
    Null           \* SQL NULL

RequestKinds == {"create", "patch", "delete", "run_now", "pause", "resume", "import"}
ScheduleKinds == {"interval", "cron", "once"}
JobStatus == {"active", "paused", "completed"}
RunStatus == {"running", "success", "error", "timeout"}

TimeOrNull == Nat \cup {Null}

JobRow ==
    [kind        : ScheduleKinds,
     every       : Nat \ {0},    \* interval_ms, period of cron_expr, or run_at
     valid       : BOOLEAN,      \* NormalizeScheduleSpec accepts the schedule
     room        : Nat \cup {Null},
     enabled     : BOOLEAN,
     status      : JobStatus \cup {"absent", "deleted"},
     next        : TimeOrNull,
     maxFailures : Nat \ {0},
     runCount    : Nat,
     errorCount  : Nat,
     consecutive : Nat]

RunRow == [job : Job, status : RunStatus, started : Nat]

NoRow(status) ==
    [kind |-> "interval", every |-> 1, valid |-> TRUE, room |-> Null,
     enabled |-> FALSE, status |-> status, next |-> Null, maxFailures |-> 1,
     runCount |-> 0, errorCount |-> 0, consecutive |-> 0]

ASSUME BoundsAssumption ==
    /\ RunTimeout \in Nat \ {0} /\ MaxPerPoll \in Nat \ {0}
    /\ MaxRunHistory \in Nat \ {0} /\ RetryDelay \in Nat \ {0}
    /\ MaxTime \in Nat /\ MaxRequests \in Nat
    /\ MaxCrashes \in Nat /\ MaxFaults \in Nat
    /\ Timely \in BOOLEAN

ASSUME InputAssumption ==
    /\ Request \subseteq RequestKinds
    /\ Skew \in [Worker -> Nat]
    /\ Null \notin Nat \cup Job
    /\ \A in \in CreateInput :
          in \in [kind : ScheduleKinds, every : Nat \ {0}, maxFailures : Nat \ {0}]
    /\ \A in \in PatchInput :
          /\ DOMAIN in \subseteq {"kind", "every", "valid", "enabled", "maxFailures"}
          /\ "kind" \in DOMAIN in => in["kind"] \in ScheduleKinds
          /\ "every" \in DOMAIN in => in["every"] \in Nat \ {0}
          /\ "valid" \in DOMAIN in => in["valid"] \in BOOLEAN
          /\ "enabled" \in DOMAIN in => in["enabled"] \in BOOLEAN
          /\ "maxFailures" \in DOMAIN in => in["maxFailures"] \in Nat \ {0}

VARIABLES
    now,       \* the wall clock
    jobs,      \* table agent_jobs
    runs,      \* table agent_job_runs: a function on the identifiers present
    lastRun,   \* the greatest run identifier handed out
    rooms,     \* number of rooms EnsureRoomForJob has created
    messages,  \* chat_messages posted for jobs: pairs <<job, run>>
    workers,   \* the local state of each worker
    clients,   \* the local state of each HTTP request
    budget,    \* how many requests, crashes and faults are left
    pruned     \* history variable: finished runs of a job deleted by pruning

vars == <<now, jobs, runs, lastRun, rooms, messages, workers, clients, budget, pruned>>

-----------------------------------------------------------------------------
(* Mutants: forms of the helpers below that a plausible bug would give them. *)

\* A one-shot job run exactly at run_at is not done (> for >=).
OncePassedStrict(row, last) == last # Null /\ last > row.every

\* CompleteRun does not look at the status of the run.
PresentRun(r) == r \in DOMAIN runs

\* The stale cutoff forgets to subtract the timeout, or subtracts it twice.
StaleAtOnce(t) == {r \in DOMAIN runs : runs[r].status = "running" /\ runs[r].started < t}

StaleTwice(t) ==
    {r \in DOMAIN runs : runs[r].status = "running" /\ runs[r].started < t - 2 * RunTimeout}

\* The job is paused one failure too late.
ChargeFailuresLate(row, n) ==
    [row EXCEPT !.runCount = @ + n, !.errorCount = @ + n, !.consecutive = @ + n,
                !.status = IF row.consecutive + n > row.maxFailures THEN "paused" ELSE @]

\* PickupDue leaves next_run_at as it is.
LeasedStillArmed(row) == row

\* The limit of a poll is off by one.
FillsPollLess(picked, candidates) ==
    \/ picked = candidates /\ Cardinality(picked) < MaxPerPoll
    \/ Cardinality(picked) = MaxPerPoll - 1

\* CompleteRun writes the status of the row as it was leased.
LeasedStatusRow(w) == [jobs[workers[w].job] EXCEPT !.status = workers[w].row.status]

\* A patch never computes next_run_at.
NeverRearms(op, row) == FALSE

\* The next job is started without being taken from the leased ones.
ReleasedWithoutJob(w) == [workers[w] EXCEPT !.job = Null]

-----------------------------------------------------------------------------
(* Schedules *)

\* A one-shot job that last ran at `last` has nothing left to run.
OncePassed(row, last) == last # Null /\ last >= row.every

\* ComputeNextRun for the schedule of a row, read at clock t, after a last
\* run at `last` (Null on the first computation).
ComputeNextRun(row, t, last) ==
    CASE row.kind = "interval" -> (IF last = Null THEN t ELSE last) + row.every
      [] row.kind = "cron" ->
            LET reference == IF last # Null /\ last > t THEN last ELSE t
            IN  ((reference \div row.every) + 1) * row.every
      [] row.kind = "once" -> IF OncePassed(row, last) THEN Null ELSE row.every

\* computeFailureNextRun: the schedule if it is usable, otherwise a retry
\* delay, and nothing for a one-shot job whose schedule is unusable.
ComputeFailureNextRun(row, t) ==
    IF row.valid THEN ComputeNextRun(row, t, t)
    ELSE IF row.kind = "once" THEN Null
    ELSE t + RetryDelay

-----------------------------------------------------------------------------
(* Queries *)

Exists(j) == jobs[j].status \in JobStatus

RunsOf(j) == {r \in DOMAIN runs : runs[r].job = j}
Running(j) == {r \in RunsOf(j) : runs[r].status = "running"}
Finished(j) == RunsOf(j) \ Running(j)

Clock(w) == now + Skew[w]

\* PickupDue's WHERE clause, at clock t.
Due(t) ==
    {j \in Job : /\ jobs[j].enabled
                 /\ jobs[j].status = "active"
                 /\ jobs[j].next # Null
                 /\ jobs[j].next <= t}

\* CleanupStaleRuns' WHERE clause, at clock t.
Stale(t) == {r \in DOMAIN runs : runs[r].status = "running" /\ runs[r].started < t - RunTimeout}

\* The run context of a worker (context.WithTimeout) has passed its deadline.
Expired(w) == Clock(w) >= workers[w].at + RunTimeout

\* The row of a run is there and still "running": CompleteRun's precondition.
StillRunning(r) == r \in DOMAIN runs /\ runs[r].status = "running"

\* The run summary of a job after n failed or timed-out runs.
ChargeFailures(row, n) ==
    [row EXCEPT !.runCount = @ + n, !.errorCount = @ + n, !.consecutive = @ + n,
                !.status = IF row.consecutive + n >= row.maxFailures THEN "paused" ELSE @]

\* ... and after a successful one.
CreditSuccess(row, completeJob) ==
    [row EXCEPT !.runCount = @ + 1, !.consecutive = 0,
                !.status = IF completeJob THEN "completed" ELSE @]

\* LIMIT: as many of the candidates as MaxPerPoll allows.
FillsPoll(picked, candidates) ==
    \/ picked = candidates /\ Cardinality(picked) <= MaxPerPoll
    \/ Cardinality(picked) = MaxPerPoll

\* The lease on a row: PickupDue clears next_run_at.
Leased(row) == [row EXCEPT !.next = Null]

IdleWorker == [pc |-> "idle", due |-> {}, job |-> Null, row |-> NoRow("absent"),
               at |-> 0, run |-> 0]
IdleClient == [pc |-> "idle", op |-> "none", job |-> Null, row |-> NoRow("absent"),
               next |-> Null]

\* A worker's state once the current job is done with: the next picked-up job,
\* or the end of the poll.
Released(w) ==
    IF workers[w].due = {} THEN IdleWorker
    ELSE [IdleWorker EXCEPT !.pc = "exec", !.due = workers[w].due]

DropJob(w) == workers' = [workers EXCEPT ![w] = Released(w)]

Spend(kind) ==
    /\ budget[kind] > 0
    /\ budget' = [budget EXCEPT ![kind] = @ - 1]

WithoutRuns(ids) == [r \in DOMAIN runs \ ids |-> runs[r]]

-----------------------------------------------------------------------------
(* The worker: RunOnce and executeJob *)

\* RunOnce reads the clock, and CleanupStaleRuns times out the running rows
\* that are too old, except those another transaction has locked; each job is
\* charged with its timed-out runs and paused at max_failures.
CleanupStaleRuns(w) ==
    /\ workers[w].pc = "idle"
    /\ \E stale \in SUBSET Stale(Clock(w)) :
          LET staleOf(j) == {r \in stale : runs[r].job = j} IN
          /\ runs' = [r \in DOMAIN runs |->
                        IF r \in stale THEN [runs[r] EXCEPT !.status = "timeout"] ELSE runs[r]]
          /\ jobs' = [j \in Job |->
                        IF staleOf(j) = {} THEN jobs[j]
                        ELSE ChargeFailures(jobs[j], Cardinality(staleOf(j)))]
    /\ workers' = [workers EXCEPT ![w].pc = "pickup", ![w].at = Clock(w)]
    /\ UNCHANGED <<now, lastRun, rooms, messages, clients, budget, pruned>>

\* PickupDue leases at most MaxPerPoll due jobs, the earliest first, by
\* clearing next_run_at; FOR UPDATE SKIP LOCKED passes over rows that another
\* transaction has locked.  The worker keeps the rows as they were returned.
PickupFrom(w, unlocked) ==
    /\ workers[w].pc = "pickup"
    /\ unlocked \subseteq Due(workers[w].at)
    /\ \E picked \in SUBSET unlocked :
          /\ FillsPoll(picked, unlocked)
          /\ \A j \in picked, k \in unlocked \ picked : jobs[j].next <= jobs[k].next
          /\ jobs' = [j \in Job |-> IF j \in picked THEN Leased(jobs[j]) ELSE jobs[j]]
          /\ workers' = [workers EXCEPT ![w] =
                            IF picked = {} THEN IdleWorker
                            ELSE [IdleWorker EXCEPT !.pc = "exec",
                                    !.due = {[id |-> j, row |-> Leased(jobs[j])] : j \in picked}]]
    /\ UNCHANGED <<now, runs, lastRun, rooms, messages, clients, budget, pruned>>

PickupDue(w) == \E unlocked \in SUBSET Due(workers[w].at) : PickupFrom(w, unlocked)

\* executeJob reads the clock, opens the run context and goes to
\* EnsureRoomForJob unless the leased row has a room.
ExecuteJob(w) ==
    /\ workers[w].pc = "exec"
    /\ \E item \in workers[w].due :
          workers' = [workers EXCEPT ![w] =
              [pc |-> IF item.row.room = Null THEN "ensure" ELSE "start",
               due |-> workers[w].due \ {item}, job |-> item.id, row |-> item.row,
               at |-> Clock(w), run |-> 0]]
    /\ UNCHANGED <<now, jobs, runs, lastRun, rooms, messages, clients, budget, pruned>>

\* EnsureRoomForJob locks the job row, and creates and stores a room only if
\* the row still has none.
EnsureRoomForJob(w) ==
    LET j == workers[w].job IN
    /\ workers[w].pc = "ensure"
    /\ Exists(j)
    /\ ~Expired(w)
    /\ IF jobs[j].room # Null THEN UNCHANGED <<jobs, rooms>>
       ELSE /\ rooms' = rooms + 1
            /\ jobs' = [jobs EXCEPT ![j].room = rooms + 1]
    /\ workers' = [workers EXCEPT ![w].pc = "start"]
    /\ UNCHANGED <<now, runs, lastRun, messages, clients, budget, pruned>>

InsertRun(j, at) ==
    /\ lastRun' = lastRun + 1
    /\ runs' = [r \in DOMAIN runs \cup {lastRun + 1} |->
                  IF r = lastRun + 1
                  THEN [job |-> j, status |-> "running", started |-> at] ELSE runs[r]]

\* StartRun inserts a running row for a job that still exists, whatever the
\* job's status is by now.
StartRun(w) ==
    LET j == workers[w].job IN
    /\ workers[w].pc = "start"
    /\ Exists(j)
    /\ ~Expired(w)
    /\ InsertRun(j, workers[w].at)
    /\ workers' = [workers EXCEPT ![w].run = lastRun + 1,
                      ![w].pc = IF workers[w].row.valid THEN "send" ELSE "fail"]
    /\ UNCHANGED <<now, jobs, rooms, messages, clients, budget, pruned>>

\* The INSERT of StartRun is committed, but the worker sees an error.
StartRunUnacknowledged(w) ==
    LET j == workers[w].job IN
    /\ workers[w].pc = "start"
    /\ Exists(j)
    /\ Spend("faults")
    /\ InsertRun(j, workers[w].at)
    /\ DropJob(w)
    /\ UNCHANGED <<now, jobs, rooms, messages, clients, pruned>>

\* CreateJobMessage inserts the chat message; the job row is not consulted.
CreateJobMessage(w) ==
    /\ workers[w].pc = "send"
    /\ ~Expired(w)
    /\ messages' = messages \cup {<<workers[w].job, workers[w].run>>}
    /\ workers' = [workers EXCEPT ![w].pc = "complete"]
    /\ UNCHANGED <<now, jobs, runs, lastRun, rooms, clients, budget, pruned>>

\* CreateJobMessage reports an error, at its deadline or for another reason;
\* the INSERT may have been committed nevertheless.
CreateJobMessageFails(w) ==
    /\ workers[w].pc = "send"
    /\ \/ Expired(w) /\ UNCHANGED budget
       \/ ~Expired(w) /\ Spend("faults")
    /\ messages' \in {messages, messages \cup {<<workers[w].job, workers[w].run>>}}
    /\ workers' = [workers EXCEPT ![w].pc = "fail"]
    /\ UNCHANGED <<now, jobs, runs, lastRun, rooms, clients, pruned>>

\* The row CompleteRun updates: read again under FOR UPDATE, not as leased.
LockedRow(w) == jobs[workers[w].job]

\* CompleteRun: in one transaction the run leaves "running", the summary of the
\* job is updated to `row`, and next_run_at is replaced by `next`.
CompleteRun(w, status, row, next) ==
    LET r == workers[w].run IN
    /\ ~Expired(w)
    /\ StillRunning(r)
    /\ runs' = [runs EXCEPT ![r].status = status]
    /\ jobs' = [jobs EXCEPT ![workers[w].job] = [row EXCEPT !.next = next]]
    /\ workers' = [workers EXCEPT ![w].pc = "prune"]
    /\ UNCHANGED <<now, lastRun, rooms, messages, clients, budget, pruned>>

\* A successful run; a one-shot job that has nothing left to run is completed.
CompleteSuccess(w) ==
    LET row == workers[w].row
        next == ComputeNextRun(row, workers[w].at, workers[w].at)
    IN  /\ workers[w].pc = "complete"
        /\ CompleteRun(w, "success",
                       CreditSuccess(LockedRow(w), row.kind = "once" /\ next = Null), next)

\* completeFailure: the next run is counted from the time of the failure.
CompleteFailure(w) ==
    /\ workers[w].pc = "fail"
    /\ CompleteRun(w, "error", ChargeFailures(LockedRow(w), 1),
                   ComputeFailureNextRun(workers[w].row, Clock(w)))

\* CompleteRun finds its run gone (ErrNotFound) or no longer running
\* (ErrConflict), and rolls back.
CompleteRefused(w) ==
    /\ workers[w].pc \in {"complete", "fail"}
    /\ ~StillRunning(workers[w].run)
    /\ DropJob(w)
    /\ UNCHANGED <<now, jobs, runs, lastRun, rooms, messages, clients, budget, pruned>>

\* A call of executeJob returns an error without effect: the job is gone, the
\* deadline has passed, or the database failed.  RunOnce goes on to the next job.
AbandonJob(w) ==
    /\ workers[w].pc \in {"ensure", "start", "complete", "fail"}
    /\ \/ /\ workers[w].pc \in {"ensure", "start"}
          /\ ~Exists(workers[w].job)
          /\ UNCHANGED budget
       \/ Expired(w) /\ UNCHANGED budget
       \/ ~Expired(w) /\ Spend("faults")
    /\ DropJob(w)
    /\ UNCHANGED <<now, jobs, runs, lastRun, rooms, messages, clients, pruned>>

\* PruneRunHistory keeps the MaxRunHistory most recently started runs of the
\* job, running or not; ties are broken by the random identifier.  An error of
\* the DELETE is ignored.
PruneRunHistory(w) ==
    LET j == workers[w].job IN
    /\ workers[w].pc = "prune"
    /\ \/ Expired(w) /\ UNCHANGED <<runs, pruned, budget>>
       \/ ~Expired(w) /\ Spend("faults") /\ UNCHANGED <<runs, pruned>>
       \/ /\ ~Expired(w)
          /\ UNCHANGED budget
          /\ \E old \in SUBSET RunsOf(j) :
                /\ \A r \in old, k \in RunsOf(j) \ old : runs[r].started <= runs[k].started
                /\ IF Cardinality(RunsOf(j)) <= MaxRunHistory THEN old = {}
                   ELSE Cardinality(RunsOf(j) \ old) = MaxRunHistory
                /\ runs' = WithoutRuns(old)
                /\ pruned' = [pruned EXCEPT ![j] = @ + Cardinality(old \cap Finished(j))]
    /\ DropJob(w)
    /\ UNCHANGED <<now, jobs, lastRun, rooms, messages, clients>>

\* The server process stops; what it had in memory is lost.
CrashWorker(w) ==
    /\ workers[w] # IdleWorker
    /\ Spend("crashes")
    /\ workers' = [workers EXCEPT ![w] = IdleWorker]
    /\ UNCHANGED <<now, jobs, runs, lastRun, rooms, messages, clients, pruned>>

-----------------------------------------------------------------------------
(* The HTTP handlers.  AgentJobStore.Update is two statements: it reads the  *)
(* row, merges the request into it in memory, and later writes every column  *)
(* except the run counters back.                                             *)

\* The row that POST /jobs at time t inserts for a request.
CreatedRow(in, t) ==
    LET row == [NoRow("active") EXCEPT !.kind = in.kind, !.every = in.every,
                  !.enabled = TRUE, !.maxFailures = in.maxFailures]
    IN  [row EXCEPT !.next = ComputeNextRun(row, t, Null)]

\* POST /jobs inserts an active, enabled job armed for its first run.
CreateJob(c, j) ==
    /\ "create" \in Request
    /\ clients[c].pc = "idle"
    /\ jobs[j].status = "absent"
    /\ Spend("requests")
    /\ \E in \in CreateInput : jobs' = [jobs EXCEPT ![j] = CreatedRow(in, now)]
    /\ UNCHANGED <<now, runs, lastRun, rooms, messages, workers, clients, pruned>>

\* DELETE /jobs/{id}; the foreign key of agent_job_runs cascades.
DeleteJob(c, j) ==
    /\ "delete" \in Request
    /\ clients[c].pc = "idle"
    /\ Exists(j)
    /\ Spend("requests")
    /\ jobs' = [jobs EXCEPT ![j] = NoRow("deleted")]
    /\ runs' = WithoutRuns(RunsOf(j))
    /\ pruned' = [pruned EXCEPT ![j] = 0]
    /\ UNCHANGED <<now, lastRun, rooms, messages, workers, clients>>

\* A request that calls Update has read the row of j and merged its input.
ReadForUpdate(c, op, j, merged) ==
    /\ op \in Request
    /\ clients[c].pc = "idle"
    /\ Exists(j)
    /\ Spend("requests")
    /\ clients' = [clients EXCEPT ![c] =
                     [IdleClient EXCEPT !.pc = "write", !.op = op, !.job = j, !.row = merged]]
    /\ UNCHANGED <<now, jobs, runs, lastRun, rooms, messages, workers, pruned>>

PatchInputOn(row, in) ==
    [f \in DOMAIN row |-> IF f \in DOMAIN in THEN in[f] ELSE row[f]]

Patch(c, j) == \E in \in PatchInput : ReadForUpdate(c, "patch", j, PatchInputOn(jobs[j], in))
RunNow(c, j) == ReadForUpdate(c, "run_now", j, [jobs[j] EXCEPT !.status = "active", !.next = now])
Pause(c, j) == ReadForUpdate(c, "pause", j, [jobs[j] EXCEPT !.status = "paused"])

\* ImportFromSyncMetadata rewrites a job it imported before, disabled and paused.
Import(c, j) ==
    ReadForUpdate(c, "import", j, [jobs[j] EXCEPT !.enabled = FALSE, !.status = "paused"])

\* ... and creates one it has not seen disabled, paused and unarmed.
ImportNew(c, j) ==
    /\ "import" \in Request
    /\ clients[c].pc = "idle"
    /\ jobs[j].status = "absent"
    /\ Spend("requests")
    /\ \E in \in CreateInput :
          jobs' = [jobs EXCEPT ![j] = [CreatedRow(in, now) EXCEPT
                     !.enabled = FALSE, !.status = "paused", !.next = Null]]
    /\ UNCHANGED <<now, runs, lastRun, rooms, messages, workers, clients, pruned>>

\* Resume first reads the job to check it and to compute the next run ...
Resume(c, j) ==
    /\ "resume" \in Request
    /\ clients[c].pc = "idle"
    /\ Exists(j)
    /\ ~(jobs[j].kind = "once" /\ jobs[j].status = "completed")
    /\ jobs[j].valid
    /\ Spend("requests")
    /\ clients' = [clients EXCEPT ![c] = [IdleClient EXCEPT !.pc = "resume", !.op = "resume",
                     !.job = j, !.next = ComputeNextRun(jobs[j], now, Null)]]
    /\ UNCHANGED <<now, jobs, runs, lastRun, rooms, messages, workers, pruned>>

\* ... and then calls Update, which reads it again.
ResumeRead(c) ==
    LET j == clients[c].job IN
    /\ clients[c].pc = "resume"
    /\ clients' = [clients EXCEPT ![c] =
          IF Exists(j)
          THEN [@ EXCEPT !.pc = "write",
                         !.row = [jobs[j] EXCEPT !.status = "active", !.next = clients[c].next]]
          ELSE IdleClient]
    /\ UNCHANGED <<now, jobs, runs, lastRun, rooms, messages, workers, budget, pruned>>

\* The columns that Update does not write stay as they are in the table.
KeepSummary(row, old) ==
    [row EXCEPT !.runCount = old.runCount, !.errorCount = old.errorCount,
                !.consecutive = old.consecutive]

\* A patch that leaves the job enabled and active computes next_run_at anew.
NeedsRearm(op, row) ==
    op = "patch" /\ row.enabled /\ row.status = "active" /\ row.valid

\* Update's UPDATE: the merged row replaces every column but the summary.
UpdateWrite(c) ==
    LET j == clients[c].job
        row == clients[c].row
    IN  /\ clients[c].pc = "write"
        /\ jobs' = IF Exists(j) THEN [jobs EXCEPT ![j] = KeepSummary(row, jobs[j])] ELSE jobs
        /\ clients' = [clients EXCEPT ![c] =
              IF Exists(j) /\ NeedsRearm(clients[c].op, row)
              THEN [@ EXCEPT !.pc = "rearm", !.next = ComputeNextRun(row, now, Null)]
              ELSE IdleClient]
        /\ UNCHANGED <<now, runs, lastRun, rooms, messages, workers, budget, pruned>>

\* Patch's second call of Update, which writes next_run_at: its read.
RearmRead(c) ==
    LET j == clients[c].job IN
    /\ clients[c].pc = "rearm"
    /\ clients' = [clients EXCEPT ![c] =
          IF Exists(j)
          THEN [@ EXCEPT !.pc = "write", !.op = "rearm",
                         !.row = [jobs[j] EXCEPT !.next = clients[c].next]]
          ELSE IdleClient]
    /\ UNCHANGED <<now, jobs, runs, lastRun, rooms, messages, workers, budget, pruned>>

\* The request is abandoned between two statements.
CrashClient(c) ==
    /\ clients[c] # IdleClient
    /\ Spend("crashes")
    /\ clients' = [clients EXCEPT ![c] = IdleClient]
    /\ UNCHANGED <<now, jobs, runs, lastRun, rooms, messages, workers, pruned>>

-----------------------------------------------------------------------------
(* The specification *)

\* A worker that has opened a run context and has not closed it.
Executing(w) == workers[w].pc \in {"ensure", "start", "send", "complete", "fail", "prune"}

\* One tick of the wall clock.  With Timely the time does not reach the
\* deadline of a job in progress (some database calls against RunTimeout).
Tick ==
    /\ now < MaxTime
    /\ now' = now + 1
    /\ Timely => \A w \in Worker : Executing(w) => Clock(w) + 1 < workers[w].at + RunTimeout
    /\ UNCHANGED <<jobs, runs, lastRun, rooms, messages, workers, clients, budget, pruned>>

Init ==
    /\ now = 0
    /\ jobs \in [Job -> {NoRow("absent")} \cup {CreatedRow(in, 0) : in \in CreateInput}]
    /\ runs = [r \in {} |-> NoRow("absent")]
    /\ lastRun = 0
    /\ rooms = 0
    /\ messages = {}
    /\ workers = [w \in Worker |-> IdleWorker]
    /\ clients = [c \in Client |-> IdleClient]
    /\ budget = [requests |-> MaxRequests, crashes |-> MaxCrashes, faults |-> MaxFaults]
    /\ pruned = [j \in Job |-> 0]

WorkerStep(w) ==
    \/ CleanupStaleRuns(w)
    \/ PickupDue(w)
    \/ ExecuteJob(w)
    \/ EnsureRoomForJob(w)
    \/ StartRun(w)
    \/ StartRunUnacknowledged(w)
    \/ CreateJobMessage(w)
    \/ CreateJobMessageFails(w)
    \/ CompleteSuccess(w)
    \/ CompleteFailure(w)
    \/ CompleteRefused(w)
    \/ AbandonJob(w)
    \/ PruneRunHistory(w)
    \/ CrashWorker(w)

NewRequest(c, j) ==
    \/ CreateJob(c, j)
    \/ DeleteJob(c, j)
    \/ Patch(c, j)
    \/ RunNow(c, j)
    \/ Pause(c, j)
    \/ Import(c, j)
    \/ ImportNew(c, j)
    \/ Resume(c, j)

ContinueRequest(c) == ResumeRead(c) \/ UpdateWrite(c) \/ RearmRead(c)

ClientStep(c) ==
    \/ \E j \in Job : NewRequest(c, j)
    \/ ContinueRequest(c)
    \/ CrashClient(c)

Next ==
    \/ Tick
    \/ \E w \in Worker : WorkerStep(w)
    \/ \E c \in Client : ClientStep(c)

Spec == Init /\ [][Next]_vars

\* What a worker does when nothing goes wrong: RunOnce is called again and again
\* and every call of a run returns.
WorkerProgress(w) ==
    \/ CleanupStaleRuns(w) \/ PickupDue(w) \/ ExecuteJob(w) \/ EnsureRoomForJob(w)
    \/ StartRun(w) \/ CreateJobMessage(w) \/ CreateJobMessageFails(w)
    \/ CompleteSuccess(w) \/ CompleteFailure(w) \/ CompleteRefused(w)
    \/ AbandonJob(w) \/ PruneRunHistory(w)

\* Row locks last as long as a statement, so that a poll finds every row
\* unlocked again and again.
CleanupUnlocked(w) ==
    /\ CleanupStaleRuns(w)
    /\ \A r \in Stale(Clock(w)) : runs'[r].status # "running"

Fairness ==
    /\ \A w \in Worker :
          /\ WF_vars(WorkerProgress(w))
          /\ SF_vars(PickupFrom(w, Due(workers[w].at)))
          /\ SF_vars(CleanupUnlocked(w))
    /\ \A c \in Client : WF_vars(ContinueRequest(c))

FairSpec == Spec /\ Fairness

-----------------------------------------------------------------------------
(* Properties *)

ClientState ==
    [pc : {"idle", "resume", "rearm", "write"},
     op : RequestKinds \cup {"none", "rearm"},
     job : Job \cup {Null}, row : JobRow, next : TimeOrNull]

WorkerState ==
    [pc : {"idle", "pickup", "exec", "ensure", "start", "send", "complete", "fail", "prune"},
     due : SUBSET [id : Job, row : JobRow],
     job : Job \cup {Null}, row : JobRow, at : Nat, run : Nat]

\* The type invariant; a worker past "exec" has a job, a client past "idle" too.
TypeOK ==
    /\ now \in Nat
    /\ jobs \in [Job -> JobRow]
    /\ DOMAIN runs \subseteq 1 .. lastRun
    /\ runs \in [DOMAIN runs -> RunRow]
    /\ lastRun \in Nat
    /\ rooms \in Nat
    /\ messages \subseteq Job \X Nat
    /\ workers \in [Worker -> WorkerState]
    /\ clients \in [Client -> ClientState]
    /\ budget \in [{"requests", "crashes", "faults"} -> Nat]
    /\ pruned \in [Job -> Nat]
    /\ \A w \in Worker : Executing(w) => workers[w].job \in Job
    /\ \A c \in Client : clients[c].pc # "idle" => clients[c].job \in Job

\* Worker w has leased job j and has neither completed nor dropped it.
Holds(w, j) ==
    \/ \E item \in workers[w].due : item.id = j
    \/ workers[w].job = j /\ workers[w].pc # "prune"

\* A leased job is leased to one worker, and has one run in progress: what
\* PickupDue and CompleteRun promise each other through next_run_at.
LeaseExclusive ==
    \A j \in Job :
        /\ \A v, w \in Worker : Holds(v, j) /\ Holds(w, j) => v = w
        /\ \A r, s \in Running(j) : r = s

\* Worker w has started a run of its job and not completed it.
InRun(w) == workers[w].pc \in {"send", "complete", "fail"}

\* No run of job j is running and no worker holds it.
Free(j) == Running(j) = {} /\ \A w \in Worker : ~ Holds(w, j)

\* A poll can lease job j now or, once it is created, later.
Claimable(j) ==
    \/ jobs[j].status = "absent"
    \/ jobs[j].status = "active" /\ jobs[j].next # Null

WorkersInStep == \A w \in Worker : Executing(w) \/ workers[w].job = Null

DueDistinct ==
    \A w \in Worker : \A a, b \in workers[w].due :
        a.id # workers[w].job /\ (a.id = b.id => a = b)

HeldOnce == \A v, w \in Worker : \A j \in Job : Holds(v, j) /\ Holds(w, j) => v = w

RunningOnce == \A j \in Job : \A r, s \in Running(j) : r = s

RunningIsHolders ==
    \A j \in Job : \A w \in Worker : \A r \in Running(j) :
        Holds(w, j) => workers[w].job = j /\ InRun(w) /\ r = workers[w].run

RunsMatch ==
    \A w \in Worker : InRun(w) =>
        /\ workers[w].run <= lastRun
        /\ workers[w].run \in DOMAIN runs => runs[workers[w].run].job = workers[w].job

ClaimableIsFree == \A j \in Job : Claimable(j) => Free(j)

ClientsOnlyPause ==
    \A c \in Client :
        /\ clients[c].pc \in {"idle", "write"}
        /\ clients[c].op \in {"none", "pause", "import"}
        /\ clients[c].pc = "write" => clients[c].row.status = "paused"

\* The inductive invariant behind LeaseExclusive, as long as no request writes
\* an active row back: next_run_at of an active job is set only while nobody
\* holds the job and no run of it is running; a running run of a held job is
\* the run its holder has started.
LeaseInv ==
    /\ WorkersInStep /\ DueDistinct
    /\ HeldOnce /\ RunningOnce /\ RunningIsHolders /\ RunsMatch
    /\ ClaimableIsFree /\ ClientsOnlyPause

\* run_count is the number of runs that have ended, the pruned ones included:
\* no run is counted twice (by the worker and by the stale cleanup) or missed.
RunAccounting ==
    \A j \in Job : Exists(j) =>
        /\ jobs[j].runCount = Cardinality(Finished(j)) + pruned[j]
        /\ jobs[j].consecutive <= jobs[j].errorCount
        /\ jobs[j].errorCount <= jobs[j].runCount

\* What GET /jobs/{id} and its list of runs show.
RunState ==
    [j \in Job |-> IF ~ Exists(j) THEN jobs[j].status
                   ELSE IF Running(j) = {} THEN "idle" ELSE "running"]

Reported == [j \in Job |-> [runs |-> jobs[j].runCount, errors |-> jobs[j].errorCount]]

Turns == INSTANCE JobRuns WITH state <- RunState, reported <- Reported

\* As long as no request re-arms a leased job, the runs of a job take turns, and each is
\* reported once, as a success or a failure: the history of a job never loses one in progress.
RunsTakeTurns == Turns!Spec

\* A job that has failed max_failures times in a row, by error or by stale
\* timeout, is not active.
FailingJobIsPaused ==
    \A j \in Job : jobs[j].status = "active" => jobs[j].consecutive < jobs[j].maxFailures

\* A one-shot job posts its message at most once.
OneShotPostsOnce ==
    \A m, n \in messages : m[1] = n[1] /\ jobs[m[1]].kind = "once" => m = n

\* The stale cleanup never times out a run that its worker can still complete.
CleanupSparesLiveRuns ==
    \A w \in Worker :
        LET r == workers[w].run IN
        /\ workers[w].pc \in {"send", "complete", "fail"}
        /\ ~Expired(w)
        /\ r \in DOMAIN runs
        => runs[r].status = "running"

\* What a job that fails, runs late or runs once keeps with several workers and the cleanup.
RunsAreSound == OneShotPostsOnce /\ CleanupSparesLiveRuns /\ FailingJobIsPaused

\* A run that has ended keeps its outcome: a worker that is late does not
\* overwrite the timeout the cleanup recorded, nor the cleanup its success.
EndedRunsAreFinal ==
    [][\A r \in DOMAIN runs \cap DOMAIN runs' :
          runs[r].status # "running" => runs'[r] = runs[r]]_vars

\* A paused job becomes active again only by a resume or a run request: not
\* because a run that was in progress when it was paused completes.
PauseSticks ==
    [][\A j \in Job : jobs[j].status = "paused" /\ jobs'[j].status = "active" =>
          \E c \in Client : /\ clients[c].job = j
                            /\ clients[c].pc = "write"
                            /\ clients[c].op \in {"resume", "run_now"}]_vars

Recurring(j) ==
    jobs[j].enabled /\ jobs[j].status = "active" /\ jobs[j].valid /\ jobs[j].kind # "once"

\* A job that nothing but the completion of its run, or a request, will arm.
Unarmed(j) == Recurring(j) /\ jobs[j].next = Null

\* A process has crashed or a call has failed.
Disturbed == budget.crashes < MaxCrashes \/ budget.faults < MaxFaults

\* As long as nothing crashes or fails, an active recurring job without a
\* next_run_at is leased to a worker, or a patch is about to arm it: no job is
\* forgotten.
NoJobForgotten ==
    \A j \in Job : Unarmed(j) /\ ~ Disturbed =>
        \/ \E w \in Worker : Holds(w, j)
        \/ \E c \in Client : /\ clients[c].job = j
                             /\ clients[c].pc \in {"rearm", "write"}
                             /\ clients[c].next # Null

\* A due job does not stay due: some worker leases it (or it is edited).
DueJobsAreLeased == \A j \in Job : j \in Due(now) ~> j \notin Due(now)

\* A leased recurring job is armed again (or is paused, edited or deleted) ...
LeasedJobsAreRearmed == \A j \in Job : Unarmed(j) ~> ~ Unarmed(j) \/ Disturbed

\* ... also if a process crashes or a call fails: a scheduled job goes on.
LeasesSurviveCrashes == \A j \in Job : Unarmed(j) ~> ~ Unarmed(j)

\* A run that its worker left running past the timeout is closed.
Overdue(j) == \E r \in Running(j) : runs[r].started + RunTimeout < now
StaleRunsAreClosed == \A j \in Job : Overdue(j) ~> ~Overdue(j)

\* The schedule goes on: whatever is due, leased or left behind is dealt with.
JobsGoOn == DueJobsAreLeased /\ LeasedJobsAreRearmed /\ StaleRunsAreClosed

=============================================================================
