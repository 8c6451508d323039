# Otter Camp: TLA+ specifications

Otter Camp is a Go server (`cmd/server`, `internal/`) with a React interface, a
PostgreSQL database and a TypeScript bridge (`bridge/openclaw-bridge.ts`) that
connects it to an OpenClaw gateway, where the agents run. This directory holds
TLA+ models of its stateful parts, the TLC configurations that check them on
small instances, and proofs, checked by TLAPS, that hold for every value of the
constants.

## 1. Inventory

All durable state is in PostgreSQL. The server starts its background workers in
`cmd/server/main.go:25-489`, each in a goroutine that ends when the process does
(`startWorkerWithRecovery`); several server processes may share a database, and
the workers say so (`FOR UPDATE SKIP LOCKED`). Browsers and the bridge talk to
the server over HTTP and over two WebSocket endpoints.

| Part | State | Operations | What is hard |
|---|---|---|---|
| **Agent-job scheduler** (`internal/scheduler`, `agent_job_store.go`, `api/jobs.go`) | tables `agent_jobs`, `agent_job_runs`; per-worker batch of leased jobs | poll, lease, run, complete, clean up stale runs, prune; create, patch, pause, resume, run, delete, import | several pollers; a lease that is only a cleared column; deadlines against a cleanup on another clock; crashes between transactions; HTTP edits that read and write in two statements |
| **OpenClaw dispatch queue** (`api/openclaw_dispatch_queue.go`, `api/openclaw_sync.go`, producers in `messages.go`, `project_chat.go`, `issues.go`, `admin_connections.go`; `bridge/openclaw-bridge.ts`) | table `openclaw_dispatch_queue`; in the bridge: a replay queue, sets of delivered ids, pending gateway calls | enqueue, send by socket, claim, acknowledge; socket receive, poll, replay, flush | two delivery paths for one message; claims that expire; lost acknowledgements; a bridge whose state is in memory; check-then-await races |
| **Bridge request/response** (`internal/ws/openclaw_handler.go`) | the current connection, pending requests with a reply channel | connect, replace, send, request, resolve, time out, fail on disconnect | a reply racing a timeout and a disconnect |
| **Browser hub** (`internal/ws/hub.go`, `handler.go`) | clients, their topics and send buffers | register, subscribe, broadcast, unregister | slow clients, a channel that two goroutines want closed |
| **GitHub sync jobs** (`github_sync_job_store.go`, `githubsync/`, the webhook of `github_integration.go`) | jobs with attempts, dead letters; in memory the deliveries seen | take in, enqueue, pick up, complete, fail, dead-letter, replay | retries against the attempt limit; a delivery remembered before it is processed |
| **Issue pipeline** (`project_issue_store.go`, `pipeline_step_store.go`, `api/issues.go`, `api/issue_pipeline_*.go`) | issues with state, work status, approval, flow step, blockers, context gate; pipeline step and history | patch, approve, advance, block, escalate, resolve, kick off, review, import; complete or reject a step | each handler reads and writes in several transactions, and several handlers write one row |
| **GitHub publishing** (`github_integration.go`, `project_repo_store.go`, `repo_clone_manager.go`) | a repository binding, a clone, a branch on GitHub | clone, find and resolve a conflict, publish, close issues | reads of the binding and of the clone that are old by the time of the push |
| **Command approvals** (`exec_approvals.go`, `exec_approvals_webhook.go`) | one row per request | request, respond | a callback that goes out before the row is written |
| **Task dispatch library** (`internal/dispatch`) | task statuses, priority queue, dependencies | transition, push/pop, webhook delivery | events emitted outside the lock |
| **Ellie memory** (`internal/memory`, `ellie_*_store.go`) | cursors, windows, extracted memories, reviewed pairs, the ledger of injections | ingest, reset, deduplicate, classify, retrieve, inject | cursors that move after what they cover, several runs on one room, decisions on memories that a reset deletes meanwhile |
| **Conversations** (`conversation_*_worker.go`, `conversation_token_store.go`, `migrations/075`) | per message its conversation, embedding and token count; totals of rooms and conversations | segment, embed, backfill; a trigger on every write | totals kept by increments, by a trigger that runs for writes of any purpose |
| **OpenClaw migration** (`internal/import`, `internal/migration`, `migration_progress_store.go`, `api/openclaw_migration_*.go`) | one progress row per phase | run, pause, resume, reset, backfill, import a batch | four writers of a row, none of which looks at what it replaces; restarts |
| Chat, agents, settings, GitHub integration, git server, feed, authentication, CLI, web | rows | create, read, update, delete; parse; render | mostly input/output |

What must hold, part by part:

* scheduler: a job is leased to one worker and has one run in progress; a run is
  counted once and its outcome is final; a pause stays; a one-shot job runs once;
  a due job is leased and armed again;
* dispatch queue: one acknowledgement settles one claim; a delivered message is
  not claimed again; what was queued is delivered or given up; the bridge does
  not drop what it has not sent;
* request/response: each request is answered once, by its own reply or an error;
* hub: no channel is closed twice or written after its close; a client that is
  kept has no gap in what it gets; one that is not kept is released;
* GitHub sync: attempts are bounded; a job has one consumer; a dead letter tells
  of the attempts that made it; what was answered as a duplicate was taken in;
* issues: state and work status agree; a human's approval follows a reviewer's;
  an agent starts with its context; a step does not move past a blocker that
  could be seen; the history tells how the pipeline came to where it is;
* publishing: commits are lost on either side only after a decision, but for what the
  clone manager discards; an issue is closed for commits that GitHub has had;
* command approvals: one decision is recorded, it stands, and the agent heard it;
* ingestion: no message is passed over; every message in time is ingested;
* conversations: a conversation has messages, all of its room; a message is in the
  totals once; every message comes to be counted, embedded and in a conversation;
* duplicates: what a deprecated memory says is in an active one; the phase ends;
* injections: a room hears of a memory once, and of memories not too often;
* migration: no batch that was counted is missing, a completed history is whole,
  a pause is heeded, a phase whose work can be done comes to an end.

`PROJECT.json` lists every component with its status, and every hazard found so
far at the line where it bites.

## 2. Plan

The order of work, most important behaviour first.

1. `AgentJobs`: the scheduler, which implements the abstract `JobRuns`. Done, with
   proofs, that of the refinement included.
2. `DispatchQueue`: the table, its producers and the acknowledgement protocol,
   which implements the abstract `Delivery`; `DispatchBridge` composes it with
   the bridge. Done, with proofs, that of the composition's refinement included.
3. `BridgeRequests`: request/response over a replaceable connection. Done, with
   proofs.
4. `IssueFlow` and `IssuePipeline`, both over `IssueRow` (the row of an issue and
   what the store lets become of it). Done, with proofs.
5. `Migration` and `EllieIngestion`. Done, with proofs.
6. `Hub` and `ExecApprovals`. Done, with proofs.
7. `RepoPublish` and `GitHubSync`. Done, with proofs.
8. `Conversations`, `Dedup` and `ContextInjection`. Done, with proofs.
9. Open: an abstract specification for the GitHub queue, as `JobRuns` and `Delivery`
   are for the two others; the configuration cut-over; the review commits of project
   content.

The modules of 4 to 8 share no state with each other. `MCBackend` puts an instance
of each in one run, `backend` (section 6), and is itself proved about.

Conventions: one action per transaction together with the local code up to the
next one; parameters are CONSTANTS with named assumptions; invariants are
conjunctions of named parts; no RECURSIVE operator in a module with proofs.
An MC module gives the inputs of one module, or of those of section 6 together;
there is one `.cfg` per question. A module has at its head the mutated forms of its
helpers, which show that every checked property can fail.

## 3. The agent-job scheduler

### 3.1 Correspondence with the code

`AgentJobs.tla` has the two tables (`jobs`, `runs`), the chat messages the
worker posts (`messages`), the number of rooms it creates, the clock, the local
state of each worker and of each HTTP request, and budgets that bound requests,
crashes and failed calls. A job's schedule is a period (or a run-at time) and a
flag saying that `NormalizeScheduleSpec` accepts it.

`JobRuns` is what the tables show of this to a reader: a job is absent, idle,
running or deleted, and reports how many of its runs ended and how many of them
failed. `RunState` and `Reported` read that from the tables, and `RunsTakeTurns`
says that the scheduler implements it.

| Action | Code |
|---|---|
| `CleanupStaleRuns` | `RunOnce` reads the clock; `AgentJobStore.CleanupStaleRuns` |
| `PickupDue` | `AgentJobStore.PickupDue`: the earliest due jobs, at most `MaxPerPoll`; rows locked by others are a nondeterministic choice (`SKIP LOCKED`) |
| `ExecuteJob` | start of `executeJob`: the job's clock and deadline; a batch is worked off one job at a time, in any order |
| `EnsureRoomForJob`, `StartRun`, `CreateJobMessage`, `CompleteSuccess`, `CompleteFailure`, `PruneRunHistory` | the transactions of `executeJob`, in its order; each is refused once the run context has expired |
| `StartRunUnacknowledged`, `CreateJobMessageFails`, `AbandonJob`, `CompleteRefused` | its error paths, the lost answer of a committed INSERT included |
| `CrashWorker`, `CrashClient` | the process stops between two transactions |
| `CreateJob`, `DeleteJob`, `Pause`, `RunNow`, `Import`, `ImportNew` | the handlers of `jobs.go` and the cron-job import |
| `Patch`, `Resume`, `ResumeRead`, `UpdateWrite`, `RearmRead` | the same for those that call `AgentJobStore.Update`, which reads the row and later writes every column but the counters |
| `Tick` | the wall clock |

### 3.2 Runs

| Run | Question | Instance |
|---|---|---|
| `workers` | Can two workers hold one job, a one-shot job post twice, the cleanup hit a live run, a failing job go on? Do the tables implement `JobRuns` (`RunsTakeTurns`)? | 2 workers, 1 job (cron or one-shot), 2 requests that never write an active row, 1 crash, 1 fault |
| `history` | Do outcomes, counters and pauses survive concurrent requests and clocks that differ by two ticks, the run timeout? | 2 workers, 1 job (interval or one-shot), 2 requests (pause, resume, delete) |
| `progress` | Is a due job leased and armed again and a run that a crash left behind closed (`JobsGoOn`), is an active job without a next run always somebody's? | 2 jobs for one slot per poll, 1 request (patch, run), 1 crash, `Timely`, `FairSpec` |
| `patch_lease`, `crash_forgets` | The two findings | as small as each allows |

The bounds are enough for the cases that matter: in three ticks a run can start,
become stale, be timed out by another worker and be completed late;
`MaxRunHistory = 1` makes pruning delete runs that are in progress; one slot per
poll makes jobs compete; two requests are needed for one to overwrite the other's
effect. Deadlock is left on: a worker can always poll.

`Timely` (no worker is still running at its deadline) is a restriction of the
run `progress`, not of the model, and its properties that a job is not forgotten
are about undisturbed behaviours: a run that misses its deadline, a crash and a
failed call leave a job unarmed, which is the finding `crash_forgets`.

### 3.3 Fairness

`FairSpec` assumes weak fairness of a worker's next step (`RunOnce` is called by
a ticker, `worker.go:60-69`, and every database call returns), strong fairness
of a poll that finds the rows unlocked (locks last for one transaction, and a
poll repeats for ever), and weak fairness of the rest of an HTTP request. The
clock and the crashes are not fair: liveness does not depend on them.

### 3.4 Findings

* `patch_lease`: `Update` reads a row and later writes every column of it back,
  `next_run_at` and `status` included, and `Patch` arms the job again, also while
  a worker holds it: a second worker runs it in parallel. (By the same write a
  patch can make a one-shot job active again that completed meanwhile, and undo
  an automatic pause.)
* `crash_forgets`: nothing but the completion of the very run arms a job again.
  A crash, a missed deadline or a failed `EnsureRoomForJob` or `StartRun` leaves
  it active and without a next run.

### 3.5 Proofs

`AgentJobsProofs.tla` proves, for all values of the constants,

* `TypeCorrect`: `Spec => []TypeOK`, one lemma per action;
* `RunOutcomesAreFinal`: `Spec => EndedRunsAreFinal`. Each action writes `runs`
  only at rows that are running, at new identifiers (which needs `DOMAIN runs
  \subseteq 1 .. lastRun` of `TypeOK`) or by deleting rows.
* `LeaseIsExclusive`: `LeaseSafe /\ Spec => []LeaseExclusive`. `LeaseExclusive` is
  not inductive: nothing in it stops a poll from leasing a job that is held.
  `LeaseInv` adds that an active job with a `next_run_at` is free
  (`ClaimableIsFree`), that a running run of a held job is its holder's
  (`RunningIsHolders`), that a worker's run belongs to its job (`RunsMatch`), that a
  worker's batch has no job twice (`DueDistinct`), and that a pending write is one
  of a paused row (`ClientsOnlyPause`). Nothing is assumed of clocks, deadlines,
  crashes or faults.
* `RunsAreAccounted`: `Spec => []RunAccounting`, with nothing assumed. `Bookkeeping`
  adds what the counters hang on: no two workers are in the same run
  (`RunsApart`), a run's job exists (`RunsHaveJobs`, the foreign key), nothing was
  pruned of a job that was never created, and an update writes only rows that were
  there when it read. The sets that are counted change by one run at a time,
  except in a cleanup, which counts the jobs of what it closes, and in a prune,
  which moves a set of runs from the table to `pruned`.
* `PausesStick`: `"patch" \notin Request /\ Spec => PauseSticks`. `NoPatching` says
  that a row to be written back as active comes from a resume or a run request.
  Without the hypothesis it is false: a patch read before a pause writes `active`
  back after it (the write of `patch_lease`).
* `CleanupIsFair`: `ClocksAgree /\ Spec => []CleanupSparesLiveRuns`. `LiveRuns`: a
  run that is no longer running although its worker is still in it has passed the
  worker's deadline. `ClocksAgree` lets two clocks differ by one tick; a cleanup
  by a clock that is further ahead closes a run in time, which is why the
  run `history` has two ticks.
* `RunsStaySound`: `LeaseSafe /\ ClocksAgree /\ Spec => []RunsAreSound`, the
  conjunction of `OneShotPostsOnce`, `CleanupSparesLiveRuns` and
  `FailingJobIsPaused`. The first is the long one. `OneShotInv` says that a one-shot
  row is armed for its `run_at` only and leased only after it, so that the
  completion clears `next_run_at`; and that once a message is posted the job cannot
  be leased again, and a worker that still holds it is the one that posted
  (`PostedIsOver`). `KindsAgree` ties the row that a worker read to the table.
* `RunsTakeTheirTurns`: `LeaseSafe /\ Spec => RunsTakeTurns`, every step of the
  scheduler being a step of `JobRuns` or a stutter. A run starts when the job is
  idle, which is the lease; a run's end adds one to what the job reports, which is
  the accounting. What remains is that a prune spares the run in progress, although
  `PruneRunHistory` looks at the rank of a run and not at its status. `OrderInv`
  says why: the next run of a job comes after all the runs it has (`ArmedLater`, and
  `LeasedLater` for one that a worker has taken), a run starts at the time its worker
  read (`StartedAt`), so that the run in progress is the only one at rank one
  (`RunningLast`), and `MaxRunHistory` is at least one.
* `JobsAreRememberedByAll`: `ClocksAgree /\ Timely /\ KindsFixed /\ Spec /\
  []HistoryReachesBack => []NoJobForgotten`, for any number of workers, by
  `MemoryInv`: a worker meets its deadline, its run is running as long as its job is
  there, and a request that will write `next_run_at` has a time for it. Each
  hypothesis excludes a way in which the code does forget a job: a cleanup by a clock
  that is far ahead closes the run; one that misses its deadline arms nothing; a patch
  of the kind of schedule between lease and completion makes the completion of a
  one-shot row clear the recurring one; and the prune of another worker, after a
  run request gave the job to two, can delete the run in progress, whose completion
  then finds no row. `HistoryReachesBack` excludes the last: when a worker is about
  to prune, fewer than `MaxRunHistory` other runs of the job started as late as the one
  in progress. (TLC finds the violation without it for two workers and a history of
  one run; the default is 100, `internal/config/config.go`.)
* `JobsAreRemembered`, with `OneWorker` in its place and no assumption on clocks, and
  `JobsAreRememberedTogether`, with `LeaseSafe` in its place: with the lease kept,
  `OrderInv` gives `HistoryReachesBack`, whatever the history's length.

Assumptions: `BoundsAssumption` and `InputAssumption`, which give the constants
their types; TLC evaluates them in every run. The hypotheses are those of the runs:
`workers` has `LeaseSafe` requests and equal clocks, `history` no patch, and
`progress` one worker, `Timely` and a patch that leaves the kind alone.
`HistoryReachesBack` is the one that no run has; it is trivially true of one worker
and a consequence under `LeaseSafe`.
`LeaseSafe` restricts the requests to create, delete, pause and import, those that
never write an active row; the finding `patch_lease` shows why.

### 3.6 Only model-checked

`JobsGoOn`: liveness under fairness is out of the prover's reach.

### 3.7 Not modelled

Reads without effect (`List`, `ListRuns`); the `failed` and `skipped` statuses of
the schema, which no code writes; deletion of a room or an agent; ties in
`next_run_at`, which the code breaks by identifier and the model leaves open;
row locks held across statements, and so database deadlocks, whose loser has no
effect; calendar arithmetic of cron expressions (a cron job fires at the
multiples of its period).

## 4. The dispatch queue and the bridge

### 4.1 Correspondence with the code

A handler that saves a message for an agent writes it to the table
`openclaw_dispatch_queue`, then to the bridge's socket, and marks the row
delivered if that write succeeded. The bridge receives messages from the socket,
and every five seconds claims rows over HTTP, sends them to the gateway and
acknowledges each claim. `Delivery` states what the table promises; `DispatchQueue`
is the table, its handlers and its endpoints, with nothing assumed of the bridge;
`DispatchBridge` adds the bridge and the socket.

| Definition | Code |
|---|---|
| `DispatchQueue`: `Enqueue`, `EnqueueFails`, `SendOK`, `SendFails`, `MarkDelivered`, `ProducerStops` | the producer sequence of `messages.go:297-325`, the same in `project_chat.go:322-337`, `issues.go` and `admin_connections.go` |
| `ProduceAgain` | a patch of an issue repeats the kickoff under the same key (`issues.go:2086`) |
| `Pull` | `claimOpenClawDispatchJobs`: the oldest claimable rows, those locked elsewhere skipped |
| `Ack`, `Refused` | `ackOpenClawDispatchJob`, answered 200 or 409 |
| `BackoffEnds`, `ClaimExpires` | time, as two facts about a row: `available_at <= NOW()`, and `claimed_at` older than the claim's TTL |
| `DispatchBridge`: `SendOverSocket` | `SendToOpenClaw`: the write to the socket, which the handler takes for the delivery |
| `Receive`, `TaskSent`, `TaskFails` | `dispatchInboundEvent` of a socket event; a failed one is queued for replay |
| `PollPull` ... `PollAckUnsent` | `processDispatchQueue`, one step between two awaits; `fetchWithRetry` may lose an answer, and its retry is answered 409 |
| `FlushStart` ... `FlushFails` | `flushDispatchReplayQueue` |
| `GatewayAccepts` | the gateway accepts a request whose answer is lost or late, the fallback of `sendMessageToSession` included |
| `LinkUp`, `LinkDown`, `GatewayUp`, `GatewayDown`, `Crash` | the two sockets and the process; all state of the bridge is in memory |

Claim tokens are numbered per message: the code makes them of a random number,
the clock and the identifier, so that they never repeat. The model lets the
handler of a repeated message wait until the bridge has finished with the
message's earlier copy from the socket. `DispatchBridge` uses the actions of
`DispatchQueue` itself (`Queue == INSTANCE DispatchQueue`), so that what is
proved of the queue is about the same definitions.

### 4.2 Runs

| Run | Question | Instance |
|---|---|---|
| `queue` | Can an acknowledgement settle a claim it does not own, twice or after a delivery? Does the table implement `Delivery`, and is every saved message settled? | 2 messages, one sent again by its handler, 1 per pull, 2 claims that get old, `FairSpec` |
| `bridge` | What do an acknowledgement and a mark mean, do the bridge's sets and its replay queue agree (`MemoryIsSound`), when is a direct message sent again? | 2 direct messages, memory of one id, 1 crash, 1 fault, 1 old claim |
| `bridge_live` | Does a fair bridge keep the promise, does the replay queue empty? | 1 message, 1 crash, 1 fault, 1 loss of the socket, more expiries than can be spent |
| `replay_overflow` | The finding | replay queue of one message |

Two attempts are enough for a retry and a give-up, and a second claim for a late
holder; a memory of one id and a replay queue of one or two messages are at
their limits after the second message. The second part of
`DeliveriesAreReal`, `DeliveredIsInHand`, is about behaviours without a restart and
without a loss of the socket; the run has both kinds.

### 4.3 Fairness

`DispatchQueue!FairSpec`: a claim is acknowledged in time or gets old; a backoff
ends; a bridge pulls again and again and now and then finds the rows unlocked.
The attempt limit counts acknowledged failures only, so a message whose claims
always get old is handed out for ever: that claims get old finitely often
(`MaxExpiries`) is an assumption of the liveness, not only a bound.
`DispatchBridge!FairSpec` replaces the assumption on the bridge by its code: the
loop of `runContinuous` polls and flushes for ever, every request ends
(`sendRequest` times out after 30 s, `fetchWithRetry` gives up), the gateway is
connected again and, of infinitely many requests, answers some.

### 4.4 Finding

* `replay_overflow`: the flush awaits the dispatch of the head of the replay
  queue and then shifts the head of that moment. If the queue overflowed in
  between, the flush removes a message that it never sent, and the id of that
  message stays in `queuedDispatchReplayIDs`, which keeps later copies out. The
  run `bridge` avoids it with a queue that does not overflow.

What the code does not promise: the write to the socket marks a row delivered
before the bridge has sent the message, so a restart of the bridge, or a loss of
the socket with messages on it, loses them: `DeliveredIsInHand` excludes both.

### 4.5 Proofs

`DispatchQueueProofs.tla` proves, for all messages and all values of the limits,

* `TypeCorrect`: `Spec => []TypeOK`;
* `ClaimsAreSafe`: `Spec => []ClaimInv`, which includes that a message is given up
  after the attempts it may have (`GivesUpAtLimit`). That an acknowledged delivery is final
  (`DeliveredIsLast`) and that a claim is answered once (`OneAnswerPerClaim`)
  are not inductive: a row in process might hold a token that was answered
  before. `ClaimsAreCurrent` (a row in process has the message's latest token,
  and no other row has one) and `AnsweredClaimsAreOver` exclude it;
* `DeliveredForEver`: `Spec => DeliveredIsFinal`;
* `QueueImplementsDelivery`: `Spec => Implements`, step by step: a claim is a
  stutter, a mark after a give-up is a late `Deliver`.

`DispatchBridgeProofs.tla` proves of the queue and the bridge together, for all
messages, limits and budgets,

* `BridgeServesQueue`: `Spec => Queue!Spec`. `DispatchQueue` assumes nothing of a
  bridge but that it acknowledges claims it was given. Each step of the composition
  is a step of the queue or leaves the queue alone; the one fact that needs an
  invariant is that the jobs in the poller's hands, and the one it is about to
  acknowledge, have tokens that were handed out (`JobsHeld`), through lost answers,
  restarts and refusals.
* `BridgeClaimsAreSafe` and `BridgeKeepsPromise`: hence `Queue!ClaimInv` and
  `Queue!Implements` hold of the composition, from the theorems about the queue.
* `MemoryIsBounded`: the sets, the list of direct messages, the replay queue and the
  poller keep their types and their limits.
* `DMsAreSentOnce`: `Spec => SentDMsAreNotResent`. Three paths start a send, a
  socket event, a claimed row and a flush, and each looks at the set first.
* `AckedForReal`: `Spec => []AckedIsAccepted`, the first part of `DeliveriesAreReal`,
  with nothing assumed. `SentIsAccepted` adds what the bridge's memory and its
  locals say of the gateway: an id that counts as sent, a job about to be
  acknowledged and a flush that has its answer were all accepted.
* `MemoryStaysSound` and `ReplayInOrder`: `Spec /\ []NoOverflowInFlush =>
  []MemoryIsSound` and `=> ReplayLeavesInOrder`. The invariant `ReplayInv`: a message
  is queued once, the set of ids is the content of the queue, and a flush sends its
  head. `NoOverflowInFlush` (no task has to go into a full queue while a flush is
  under way) is the negation of what happens in the finding `replay_overflow`: that
  counterexample is of the only kind there is.
* `DeliveredForReal`: `Spec /\ []NoOverflow => []DeliveriesAreReal`. What is marked,
  or about to be marked, by a handler that wrote to the socket is accepted, on the
  socket, in a task or in the replay queue, as long as no restart and no loss of
  the socket happened (`WrittenIsInHand`). `NoOverflow` is needed outside of a flush too:
  a full queue drops its oldest message.
* `RoomyBridgeIsSound`: `RoomForAll /\ Spec => [](MemoryIsSound /\ DeliveriesAreReal)`.
  With room in the replay queue for every message, as in the run `bridge`, both
  hypotheses follow: a full queue has all messages in it.

Assumptions: `QueueAssumption` and `BridgeAssumption`, the types of the constants.

### 4.6 Only model-checked, and not modelled

Only model-checked: the liveness properties `KeepsPromise` and `ReplayDrains`. Not modelled:
the lengths of backoffs, the byte limit of the replay queue, payloads that do not
parse, the broadcast to browsers after an acknowledgement, session and activity
synchronisation, and how the bridge runs the commands it receives.

## 5. Requests over the bridge's socket

### 5.1 Correspondence with the code

`OpenClawHandler` keeps one connection (`h.conn`, under `h.mu`) and a map from
request ids to channels (`h.requests`, under `h.requestMu`). `Request` waits for a
connection, registers a channel of capacity one, writes the request and waits for
the channel or the context; a lost connection gives it a second attempt. The
read pump of a connection resolves replies and, when the connection ends, clears
`h.conn` and fails what is pending. `BridgeRequests` has one action per critical
section or channel operation of `internal/ws/openclaw_handler.go`.

| Definition | Code |
|---|---|
| `Upgrade`, `Install` | `ServeHTTP`: the look at `h.conn` before the upgrade, and the one under the lock after it |
| `Break` | the connection is lost; any of the requests and replies on it are lost too |
| `PumpTakes`, `PumpGives` | `tryResolveRequest`: lookup and removal under the lock, then the send to the channel |
| `PumpClears`, `PumpSwaps`, `PumpFails`, `PumpCloses` | the deferred function of `readPump` and `failPendingRequests`, a step per lock |
| `SeesConnection`, `WaitExpires` | `waitForConnection` |
| `RegisterRequest`, `ReadConn`, `Write`, `WriteFails` | one pass of the loop of `Request`, with `SendToOpenClaw` |
| `Receive`, `ContextEnds`, `Remove` | its `select`, and `removeRequest` on every way out |

`requests[r]` is the attempt whose channel is registered; both attempts of a
call share the request id, so a reply to the first resolves the second.
`held[c]` are the channels that the read pump of `c` took from the map and has
not served yet: local variables of its goroutine.

### 5.2 Runs

| Run | Question | Instance |
|---|---|---|
| `requests` | Is one connection installed at a time, is a wake-up lost, a result dropped or a registration leaked, and does every request return? | 2 calls, 2 connections, each dialed again and again, `FairSpec` |
| `stale_failure` | The finding | 1 call, 2 connections |

Two connections are the least that can overlap (one is ending while its
successor is installed), and a third only repeats the second, since a
connection whose pump has ended is reused. Two calls show that a pump fails all
that is pending and that one call's end leaves the other's registration alone.

### 5.3 Fairness

Read pumps and callers are goroutines and run (`WF` of `ReadPumpStep`, `CallerStep`).
The bridge answers each request that reached it or the connection is lost:
heartbeats and read deadlines end a connection that is dead, and the bridge's
handlers of requests reply in their error branches too. `Break`, `Upgrade` and
`ContextEnds` have no fairness: connections need not fail or come, and contexts
need not end.

### 5.4 Finding

* `stale_failure`: `readPump` clears `h.conn`, releases the lock, and then fails
  all pending requests. A bridge that has already dialed again may be installed
  in between, and a request sent over the new connection is failed with
  `ErrOpenClawNotConnected` although its connection is open: the call is sent to
  the bridge twice, or fails after its second attempt. The properties of
  `requests` hold all the same: the failure is delivered once, to a registered
  attempt.

### 5.5 Proofs

`BridgeRequestsProofs.tla` proves for all sets of connections and calls, from
`ConnAssumption` alone,

* `TypeCorrect`: `Spec => []TypeOK`, with `RetriesOnce` (only a first attempt is
  followed by another), without which `attempt` could leave its type;
* `WaitersServed` and `ChannelsSound`: the invariants of the run. The second is the
  conjunction of `SingleConnection`, `ResultsKept` and `RegistrationsEnd`.
  `WaitersAreServed` speaks of the `select` only and is not inductive. `IInv`
  follows an attempt from its registration on: it is registered, held or served
  (`Awaited`), and once written and still registered, its connection is one whose
  pump has yet to fail it (`WrittenToLive`): `Request` registers before it reads
  `h.conn`. `Untouched` says that nobody has the channel of an attempt that is not
  registered yet, and `Holders` that a pump that is about to take the pending
  channels holds none;
* `FailsRightly`: `Spec /\ [][SwapsOwn]_vars => []FailsWithItsConnection`, which says what
  would repair the finding `stale_failure`. `SwapsOwn`: the ending pump takes only
  attempts that were written to its own connection. It is not enough that it spares those
  written to another one: an attempt that is registered and has not yet read
  `h.conn` is failed as well, then reads the successor, is written to it, and waits
  with the failure already in its channel.

### 5.6 Only model-checked, and not modelled

Only model-checked: `RequestsReturn`. Not modelled: authentication, pings,
payloads, the broadcast of events that are not replies, and whether the bridge
executed a request that it never answered.

## 6. The rest of the server: the run `backend`

### 6.1 One run for parts that share no state

Eleven parts of the server keep state of their own: issues and their flow,
pipelines, migration, ingestion, conversations, duplicate memories, injections, the
browser hub, command approvals, publishing, and the GitHub queue. (An issue has a
flow or a pipeline; both write its row by the rules of `IssueRow`, and in
`IssuePipeline` the writers of the flow are `PatchStatus`.) Their product would be
useless: it has the behaviours of the parts and nothing else. `MCBackend` chooses
with `focus` which part a behaviour is of; the variables of the others keep their
initial values, so that the state spaces add up. `TypesOK` is the conjunction of the
type invariants, and each other property is about one part. That this loses nothing
is proved: a behaviour of `MCBackend` is one of each part, mostly stuttering
(`WholeHasParts`), so that the theorems about the parts are theorems about it. Deadlock
is not checked in this run: parts with a budget of calls stop when it is used up.

### 6.2 Correspondence with the code

| Module | Actions | Code |
|---|---|---|
| `IssueRow` | `Tracked`, `Transitioned`, `Imported`, `Inserted` | the transactions of `project_issue_store.go` on one row, as sets of the rows they may leave; empty when refused |
| `IssueFlow` | `ApproveRead`, `ApproveWrite`, `SetApproval`, `Import` | `Approve`, the approval endpoint, webhook or importer |
| | `PatchRead` ... `Archive` | `PatchIssue` and what follows it: the automatic request for review, the kickoff behind the gate on Ellie's context, the compliance review of a close, the archive of the chat |
| | `AssignFlow`, `AdvanceRead` ... `AdvanceStatus` | `AdvanceFlow`: the issue, the open blocker, the step, the status, each its own transaction |
| | `RaiseBlocker`, `EscalateBlocker`, `ResolveBlocker`, `BlockerFollows` | the blocker endpoints and the status they write afterwards |
| `IssuePipeline` | `Load`, `AppendHistory`, `CompleteWrite`, `RejectWrite`, `WriteStatus` | `CompleteCurrentStep` and `RejectCurrentStep` |
| `Migration` | `RunnerStart` ... `RunnerDies` | `migration_runner.go`: load the row, mark it running, import a batch, count it, look for a pause |
| | `WorkerScan`, `WorkerWorks`, `WorkerFaults`, `WorkerWrites`, `WorkerRestarts` | one tick of `openclaw_pipeline_worker.go`: it reads one row after the other and works on the first phase that runs |
| | `Pause`, `Resume`, `ApiRun`, `ApiRead`, `ApiWrite`, `Reset`, `ResetMemory`, `ForgetRows`, `ImportBatch`, `CountBatch` | the endpoints |
| | `WorkArrives` | messages, memories and mentions that come in, and with them work for the phases |
| `EllieIngestion` | `ListRooms` ... `EndRun`, `RunAborts` | `RunOnce` of `ellie_ingestion_worker.go` |
| | `Arrive`, `ResetIngestion` | a message is committed, with a place in its room that need not be the last; the reset of the control plane |
| `Conversations` | `CountsInserted`, `CountsUpdated` | the trigger of `migrations/075`, which every action that writes messages includes |
| | `Write`, `WriteAgain`, `Wipe` | messages written live, by an injection or an import; an import of what is there; the migration's reset |
| | `Backfill`, `ListPending`, `CreateSegment`, `EmbedBatchNow`, `StoreEmbedding`, `EmbedOne` | the three workers, and the embedding of a single message by the injection worker |
| `Dedup` | `StartRun`, `Review`, `CreateMerged`, `Deprecate`, `Record`, `MoveCursor`, `EndDedupRun`, `RunFails` | `RunOnce` of the deduplication, one step per transaction |
| | `Add`, `Embed`, `ResetExtraction`, `ResetAll` | what happens to memories meanwhile |
| `ContextInjection` | `ListMessages`, `LookAt`, `EndPass`, `Search`, `CreateInjectionMessage`, `RecordInjection` | `RunOnce` of `ellie_context_injection_worker.go` |
| | `Say`, `InjectorFails`, `InjectorRestarts` | a message; a step that fails; a restart, which loses the cursor |
| `Hub` | `Register`, `Unregister`, `Broadcast`, `Deliver`, `Delivered` | the `select` of `Hub.Run`; a broadcast is one step per client |
| | `Subscribe`, `Disconnect`, `ReadFails`, `WriteMessage`, `WriterEnds` | the two pumps of a client |
| `ExecApprovals` | `Requested`, `RespondRead`, `PostCallback`, `RecordDecision`, `RespondAborts` | the webhook, and `Respond` in its three parts |
| `RepoPublish` | `CloneFetch`, `CloneCheckout`, `CloneMerge`, `CloneRecords` | `EnsureLocalClone`, a git command per step, the fallback of the checkout included |
| | `ResolveRead`, `ResolveFetch`, `ResolveCheckout`, `ResolveReset`, `ResolveWrite`, `UpdateSettings` | `ResolveProjectConflict`, the settings |
| | `PublishRead` ... `PublishAnnounce` | `PublishProject`, its preflight with the errors it swallows, the push, the binding, the linked issues |
| `GitHubSync` | `Receive`, `EnqueueEvent`, `HookFails`, `Expire`, `PollDrift`, `PushSync` | the producers: webhook, poller, pushes to the git server |
| | `PickupLocks`, `PickupCommits`, `MarkCompleted`, `RecordFailure`, `ConsumerDies`, `Replay` | the store's queue and its dead letters |

What stands for what: a commit is a model value, and a branch the set of commits it
reaches; a message is its place in the room; a batch its number; the work of a
migration phase a number of units, of which no tick ever finishes some (`stuck` of a
`Backlog`; what such work is, section 7 says), in one organisation, and what the
embedding worker does between two ticks is done by the tick; a memory that a window
produced is the window's messages; a message has one token; of similar memories there
is a fixed list of pairs, and what a model decides on a cluster is any decision that
is accepted. The reads at the start of a deduplication are one step, since none of
them locks anything and each later write is checked on its own. Failed calls of
segmentation and embedding are not actions: the workers list again what they did not
write. The injection worker is one process: every server starts one
(`cmd/server/main.go:218`), without a lock between them, and what two of them do to
one room is not covered. Ghost variables record what the code does not: `warm`,
`excused`, `kicked`, `reviewed` and `accepted` of an issue, `late` messages, commits
`lost`, `dropped` and `discarded`, heads `announced` and `miscounted`, deliveries
`botched` and `repeated`, rooms `importedTwice`, memories `wiped` of their successor,
steps `broken`, and in three modules (`upset`, `disturbed`, `raced`) the event after
which the code promises less.

### 6.3 What the run checks

| Property | What it says of the code |
|---|---|
| `IssueIsSound` | State and work status agree after every transaction of four writers; `Approve`, which decides on a stale row, gives no human's approval without a reviewer's; no kickoff without its context |
| `AdvanceStopsAtBlocker` | A step that is written under an open blocker had been checked before that blocker was raised |
| `PipelineIsOnRecord` | However completions overlap or fail, no step is skipped, a completed pipeline has its last step on record, and nothing passes a human review in the middle |
| `HistoryIsSound` | No batch before the resume point is missing, a completed history is whole, a pause is heeded after one more batch at the most |
| `PhaseSettles` | A running phase of the pipeline worker is completed, failed, paused or deleted in the end, if its work can be done and no phase that runs before it has work that cannot |
| `NothingPassedOver`, `EventuallyCovered` | What lies behind a cursor was in a window that succeeded, unless it came late; every message in time is covered, also while another room fails for ever |
| `ConversationsAreSound`, `EventuallyWorkedOff` | Whichever workers meet on a row, a conversation has messages, all of its room, and a message is in the totals once, unless imported again; every message comes to be counted, assigned and, refused batches aside, embedded |
| `NoFactIsLost`, `DedupCompletes` | Following `superseded_by` from a deprecated memory ends at an active one, unless a reset deleted what superseded it; the phase ends although clusters change under its cursor |
| `InjectionsAreSound` | More than the cooldown lies between two injections in a room, also after a restart; a room is shown a memory again only if a step broke in between |
| `HubIsSound`, `ClientsAreReleased` | No close of a closed channel and no send on one; no gap in what a kept client gets; a client that is not kept leaves the map and loses both pumps |
| `DecisionIsShared` | One decision is recorded, it stands, no other is broadcast, and the agent heard it |
| `PublishIsSound` | Commits disappear on either side only after somebody decided so, those aside that the clone manager discards when its checkout fails; an issue is closed for commits that GitHub has had, unless the clone was reset under the publish or the preflight could not count the commits and took them for none |
| `QueueIsSound` | A duplicate was taken in or its call failed; one consumer per job, replays aside; a dead letter has the attempts of its last death |

Bounds, and why they are enough for the cases that matter:

* Two concurrent requests, responders, runs, consumers or calls everywhere: the
  hazards are pairs of overlapping handlers. An issue, a responder and a publisher
  get three requests in all, so that a third can act on what two left behind. The
  proofs of section 6.5 do not have these bounds.
* The flow has a step of each kind (agent, review with a way back, human); the two
  pipelines have a human review in the middle and at the end, and a step that
  waits for its agent; four entries of history suffice for a repeated completion.
* The migration has three lists of two phases: the runner's two, one of the runner's
  and one of the worker's, two of the worker's (there the runner stays away, as it
  has had its say in the second list). Two batches (one to be counted, one to be left
  out), a backlog of one unit that can be done or cannot, two starts of the runner,
  two calls or arrivals of work, one fault.
* One room has two messages and the other, whose extraction may fail for ever, one;
  two overlapping runs, one upset.
* Three messages in two rooms, one of each origin: live from before counting,
  imported, injected; one is refused by the embedder; two segmenters; batches of
  one and two. Segments end where the room changes; one that ends in a long silence is
  made in the same way, and would add messages and no new case.
* Five memories with three similar pairs in two clusters, one pair of them with a
  merged memory; a run looks at two pairs and reviews one cluster, and one run is
  cut short or one reset comes.
* Four messages and one break are an injection that is not in the ledger, a restart
  or a failed step, and a second injection of the same memory after the cooldown.
* A buffer of one message and three broadcasts fill a buffer while the hub is in
  the middle of another broadcast. There is one browser, since the hub treats them
  one by one; `HubSound` is proved for any number.
* One commit on each side makes two branches that diverge, and three calls are a
  clone that finds the conflict, a resolution and a publish, in any overlap.
* One delivery with a project and one without, one polled head, one push; two
  attempts and one replay take a job through a second death.

### 6.4 Fairness

* The tick of the pipeline worker (`Start` loops over a ticker until the server
  stops). Failures and fruitless ticks are bounded by `MaxFaults`: a worker whose
  every tick fails settles nothing. Any other tick does some of the work that can be
  done; of a phase with work that cannot, `PhaseSettles` says nothing, nor of the
  phases after it.
* The steps of an ingestion run: the worker's loop, and calls that return. Rooms
  in `Flaky` fail as often as they like.
* The loops of segmentation, embedding and backfill, each of which lists again as long
  as something is left; the steps of a deduplication, which the tick of the pipeline
  worker starts again until the phase is complete.
* The hub's goroutine and both pumps of a client are goroutines that run; write
  and read deadlines end a connection that hangs. `Deliver` and `Unregister` are
  fair per client.

Registrations, broadcasts, requests and arrivals have no fairness.

### 6.5 Proofs

All for every value of the constants, from the named assumptions of the modules.

`IssueProofs.tla`:

* `IssueTypes`, `StateMatches`, `ApprovalIsFinal` and `BlockedCloseStaysClosed` follow
  from the rules of `IssueRow` and the type invariant, which includes what each
  request carries to its next transaction.
* `HumanFollows`: `ReviewInv` adds that a request about to write a human's final
  approval read an approval by a reviewer, so `reviewed` is already true; the
  stale row can be outdated, and the ghost cannot.
* `KickoffWaits`: `WarmInv` follows the gate: a request past it, or a gate whose
  status lets others pass, has a trigger that ran or an excuse.
* `AdvanceStops`: `SeenInv` says that a blocker that is open when a request is
  about to move the step has a later number than those that request could see.
* `IssueSound` is the conjunction.
* `PipeTypes` and `PipelineOnRecord`: `RecordInv` says that a request which loaded
  step `k` finds all steps before `k` on record, and one that has appended finds
  `k` as well. The history only grows, so a stale request stays right.

`BackendProofs.tla`:

* `ExecTypes` and `HubTypes`: the types, a client's buffer within its limit included.
* `DecisionShared`: `ExecInv` adds that a call about to record has posted
  (`HeardFirst`).
* `HubNeverPanics`: `ShutInv` ties the map to the channels: a client in the map, or
  still to be delivered to, has an open channel, and a client whose channel is
  closed is in neither.
* `HubSound`: `GapInv` says that what a client got, joined with what is in its
  buffer, has no gap (`Gapless`), and that a client in the map was offered nothing for the
  whole workspace since the last message it got, the broadcast under way aside
  (`UpToDate`).
* `BackendTypes` and `BackendIsSound`: `TypesOK`, and the safety properties that the
  run checks, of `MCBackend` as a whole. Each follows from the theorem about its
  part in one of these modules and from `WholeHasParts`: every step of the whole is a
  step of one part's specification and leaves the variables of all others alone.

`RepositoryProofs.tla`:

* `RepoTypesKept` and `PublishSound`: `RepoInv` adds that a call which will force has
  a decision for the clone behind it, and so has a binding that requires force
  (`DecisionKnown`), that a call which resets the clone
  for GitHub's side has that decision behind it from the fetch to the write, and that a
  publish past its preflight knows a head that the clone still has, unless a reset
  raced it, and whose commits GitHub has had if it goes on without a push, unless they
  could not be counted (`HeadKnown`).
* `SyncTypesKept` and `QueueSound`: a job that is due has attempts left
  (`DueHasAttempts`), a consumer that picks holds the row's lock (`PickingLocks`),
  one that works has the row in progress (`WorkInProgress`), and each is alone but
  for replays (`Alone`); a delivery in a server's memory has been handled, is being
  handled or was botched (`IntakeInv`).

`MemoryProofs.tla`:

* `IngestionTypes` and `NothingIsPassedOver`: `NothingPassedOver` speaks of the
  cursor only. `IngInv` says the same of each run: what lies behind the point it
  read from, or the last window that succeeded, is settled (`Placed`), and a
  message before one that is left on its list is on the list or settled
  (`NothingLeft`). The lemma
  `FirstIsPrefix` says that a limited list is a prefix: a message that is not
  listed comes after all that are.
* `MigrationTypes` and `HistorySound`: `MigInv` says where each of the four writers
  can be (`Places`), that rows and the runner's position never run ahead of what
  is imported, as long as nothing counts for two (`RowsAreTrue`, `RunnerIsTrue`),
  and how many batches a runner may still do after a pause (`PauseInv`).
* `DedupTypes` and `InjectionTypes`: the types of the two other modules.
* `ConversationTypes` and `ConversationsSound`: the conjunction with the types is
  inductive. `UpdateCounts` is the argument about the trigger, once for all its
  callers: the messages that an update adds to a conversation are disjoint from those
  counted in it before, if what is in a conversation stays there.
* `FactsAreKept`: `NoFactIsLost` is not inductive, since a run deprecates in favour of
  a memory it looked up earlier. `DedupInv` adds that the clusters of a run do not overlap
  (`ClustersApart`, from `ComponentsApart`: connected components are disjoint), that
  nothing of a cluster that is still to come is deprecated (`AheadIsIntact`), and
  that the successor in a pending decision is neither deprecated nor about to be
  (`DecisionIsSafe`). Then a chain of successors cannot come back.
* `InjectionsSound`: `InjInv` adds that a room found without a recent injection
  stays so until the worker writes (`StillCooled`), that what it picked is not in the
  ledger (`PickedIsFit`), and that every showing of a memory is in the ledger, in hand, or
  was broken off (`InjectionsAccounted`).

### 6.6 Only model-checked

The liveness properties `PhaseSettles`, `EventuallyCovered`, `ClientsAreReleased`,
`EventuallyWorkedOff` and `DedupCompletes`, which are out of the prover's reach. Every
safety property of every passing run is stated by a theorem.

## 7. Observations

What the models and the reading of the code showed beside the four findings. None
contradicts a checked property: where the code promises less, the property says so.

Defects that stop an operation altogether:

* `github_integration.go:1507`: the webhook takes the first result of
  `lookupProjectByRepo` (2243-2262: organisation, project) for the project. For a
  bound repository the job's foreign key is violated, every such webhook is
  answered 500, after its delivery was remembered, and its redelivery is answered
  as a duplicate. `github_integration_test.go:971` expects 202 and one job.
  `GitHubSync` has it in `EnqueueEvent`.
* `project_issue_store.go:540-567`: the INSERT of `CreateIssue` has 20 placeholders
  for 19 columns and arguments, and always fails. Issues come in by the other
  insertions.

Issues:

* A compliance review that blocks does not reopen the issue (proved:
  `BlockedCloseStaysClosed`), although `api/issues_test.go:602` expects it to; it
  may close an issue that is cancelled and open, as an import can leave one.
* A PATCH of a done issue to the state open is accepted and changes nothing.
* A step can be moved and its status refused; a retry moves it again. A blocker
  can be open on an issue that is not blocked, and the status that an escalation
  writes may land after the blocker was resolved.
* A human review that is not the last step is never passed; a completion that
  finds no current step restarts a completed pipeline; a status that is refused
  leaves step and history written.

Migration and ingestion:

* Two runners, batches sent again, or batches through the endpoint and a runner
  count twice; the next run then skips batches that nobody imported.
* A phase runs for ever if some of its work is never done, since the worker counts no
  attempts. An entity with 300 mentions or more is synthesised from 250 of them at the
  most (`ellie_entity_synthesis_worker.go:16`), so it has grown by a fifth over its
  synthesis at once (`ellie_entity_synthesis_store.go:13`, 126) and is a candidate in
  every tick, and the phase is complete only without a candidate
  (`openclaw_pipeline_worker.go:313`). The same holds of memories whose classification
  stays invalid, texts that the embedder refuses, and rooms whose extraction always
  fails. A tick takes the first phase that runs (154-190), so those after it do not
  move either, and a tick looks at the first 50 organisations (107-127): as many with
  such a phase starve the rest.
* Ticks of embeddings and memory extraction set the row to running and so undo a
  pause; the runner's final write replaces a pause by completed.
* With batches sent through the endpoint no one completes the runner's two rows.
* A message that arrives behind a cursor (imported history, a slow transaction) is
  never ingested; a reset under a run is overwritten by that run's cursor; and a
  run can move the cursor back, after which a message may come behind what a third
  run has read. Permanently failing rooms, as many as a run may list, starve the
  rest (the run `backend` has fewer).

Memory and conversations:

* `openclaw_history_backfill.go:258` inserts with `ON CONFLICT (id) DO NOTHING`, and the
  BEFORE INSERT trigger of `migrations/075` runs before the conflict is found: each
  message that is imported again adds its tokens to `rooms.total_tokens` again.
  `conversation_token_rollup_test.go` has no such case, and
  `openclaw_migration_import_history_test.go:70` expects a repeated import to change
  nothing (it does not look at totals). `TotalsAreTrue` leaves such rooms out.
* The embedder takes or refuses a batch as a whole, and the next run lists the same
  batch: a text that it refuses keeps all later messages without an embedding.
* Two segmenters (two servers) may cut a room at different places; then a
  conversation can contain a long silence.
* A memory from elsewhere that was deprecated in favour of one from a chat stays
  deprecated when a reset deletes the latter (`superseded_by` becomes NULL): what
  it said is in no active memory.
* The 2000 pairs of a deduplication are taken before those reviewed are left out:
  with as many pairs kept, the phase completes with pairs nobody reviewed. A stop
  between the merged memory and the deprecation leaves the merged memory as one
  more duplicate. Two servers that run the phase at once (not modelled) could
  deprecate what the other keeps.
* After a restart the injection worker starts at the first message there is, and
  the oldest messages get injections, as far as cooldown and ledger let them. A
  message at which a step failed is not looked at again. Nothing sets
  `last_compacted_at`, so the ledger never lets a memory be shown twice. Two servers
  (not modelled) could look at the same room before either has written, and inject in
  it twice within the cooldown.

Approvals, publishing, GitHub:

* Two responders can post contradictory decisions, and a callback that was
  accepted is posted again when the write after it failed.
* `UpdateSettings` erases an unresolved conflict and keeps the requirement to
  force; the push uses `--force` without a lease; a resolution in favour of GitHub
  resets to the commit of the conflict and drops what was committed in the clone
  since; a finished publish may clear a requirement that came after it; issues
  are closed with the head of the preflight while the push takes the head of its
  moment.
* A checkout that fails is retried as `checkout -B`, which sets the clone's branch to
  GitHub's (`repo_clone_manager.go:215-220`, `github_integration.go:1860-1864`): in the
  clone manager this drops commits that only the clone has, and nobody decided so. A
  preflight that cannot count the commits takes them for none
  (`github_integration.go:2016-2025`) and closes the linked issues with a head that
  nobody pushed; one that cannot read GitHub's branch takes it for a new one and skips
  the check for a fast-forward (1975-1985). `RepoPublish` has all three.
* A completed or dead job is not queued again by its event; a replay under way
  gives a job two consumers; a consumer that dies leaves its job in progress and
  blocks its project; two pickups at the same time can take two jobs of a project.
  At this commit nothing outside the tests consumes the queue, and nothing
  instantiates `RepoCloneManager`, whose conflicts the endpoints resolve.

## 8. Not modelled

Of the modules of section 6: in issues, owners and assignments (a free choice),
roles, labels, participants, sub-issue batches, the editing of templates; in the
migration, OpenClaw's files and their parsers; in the ingestion, what a window
extracts; in conversations, subjects, topics and sensitivity; in the deduplication,
distances and prompts; in the injection, ranking and wording; in the hub, a client
that changes its workspace; in publishing, OAuth and installation, the enabled flag,
`last_synced_*`, active branches and the sync mode; in the GitHub queue, the lengths
of backoffs and the health report.

Components left out altogether, with `PROJECT.json` giving the reason of each:

* reviews and content: commits of a git repository on disk, mostly file and git
  input and output;
* the in-process task dispatch library, which the server does not use;
* entity synthesis, taxonomy classification and retrieval of memories: prompts,
  parsing, ranking by distance; batch updates of rows that lack a value;
* state synchronisation, chat, agents, settings, authentication, feed: rows
  created, read, updated and deleted one at a time;
* the git server, command-line tools, user interface: wrappers and clients.

The last three groups have next to no interleaving of their own and are not
planned.
