--------------------------- MODULE AgentJobsProofs ---------------------------
(***************************************************************************)
(* Theorems about AgentJobs, for every value of its constants.             *)
(***************************************************************************)
EXTENDS AgentJobs, FiniteSetTheorems, TLAPS

-----------------------------------------------------------------------------
(* What the helpers on rows return *)

\* The product of two naturals is one (the solver's arithmetic is linear).
LEMMA ProductIsNat == \A m, n \in Nat : m * n \in Nat
  OBVIOUS

\* The next run of a well-formed schedule is a time or NULL.
LEMMA ComputeNextRunType ==
  ASSUME NEW row \in JobRow, NEW t \in Nat, NEW last \in TimeOrNull
  PROVE  ComputeNextRun(row, t, last) \in TimeOrNull
<1>1. CASE row.kind = "interval"
  BY <1>1 DEF ComputeNextRun, JobRow, TimeOrNull
<1>2. CASE row.kind = "cron"
  <2> DEFINE reference == IF last # Null /\ last > t THEN last ELSE t
  <2>1. reference \in Nat
    BY DEF TimeOrNull
  <2>2. row.every \in Nat \ {0}
    BY DEF JobRow
  <2>3. (reference \div row.every) + 1 \in Nat
    BY <2>1, <2>2
  <2>4. ((reference \div row.every) + 1) * row.every \in Nat
    BY <2>2, <2>3, ProductIsNat
  <2>5. ComputeNextRun(row, t, last) = ((reference \div row.every) + 1) * row.every
    BY <1>2 DEF ComputeNextRun
  <2> QED
    BY <2>4, <2>5 DEF TimeOrNull
<1>3. CASE row.kind = "once"
  BY <1>3 DEF ComputeNextRun, JobRow, TimeOrNull
<1> QED
  BY <1>1, <1>2, <1>3 DEF JobRow, ScheduleKinds

LEMMA ComputeFailureNextRunType ==
  ASSUME NEW row \in JobRow, NEW t \in Nat
  PROVE  ComputeFailureNextRun(row, t) \in TimeOrNull
<1>1. t \in TimeOrNull
  BY DEF TimeOrNull
<1>2. ComputeNextRun(row, t, t) \in TimeOrNull
  BY <1>1, ComputeNextRunType
<1>3. t + RetryDelay \in TimeOrNull
  BY BoundsAssumption DEF TimeOrNull
<1> QED
  BY <1>2, <1>3 DEF ComputeFailureNextRun, TimeOrNull

LEMMA NoRowType == NoRow("absent") \in JobRow /\ NoRow("deleted") \in JobRow
  BY DEF NoRow, JobRow, ScheduleKinds, JobStatus, TimeOrNull

LEMMA CreatedRowType ==
  ASSUME NEW in \in CreateInput, NEW t \in Nat
  PROVE  CreatedRow(in, t) \in JobRow /\ CreatedRow(in, t).status = "active"
<1> DEFINE row == [NoRow("active") EXCEPT !.kind = in.kind, !.every = in.every,
                     !.enabled = TRUE, !.maxFailures = in.maxFailures]
<1>1. in \in [kind : ScheduleKinds, every : Nat \ {0}, maxFailures : Nat \ {0}]
  BY InputAssumption
<1>2. row \in JobRow /\ row.status = "active"
  BY <1>1 DEF NoRow, JobRow, JobStatus, TimeOrNull
<1>3. ComputeNextRun(row, t, Null) \in TimeOrNull
  BY <1>2, ComputeNextRunType DEF TimeOrNull
<1>4. [row EXCEPT !.next = ComputeNextRun(row, t, Null)] \in JobRow
  BY <1>2, <1>3 DEF JobRow
<1> QED
  BY <1>2, <1>4 DEF CreatedRow, JobRow

\* Writing the run summary and the status of a row keeps it a row.
LEMMA SummaryType ==
  ASSUME NEW row \in JobRow, NEW r \in Nat, NEW e \in Nat, NEW c \in Nat,
         NEW status \in JobStatus \cup {"absent", "deleted"}
  PROVE  [row EXCEPT !.runCount = r, !.errorCount = e, !.consecutive = c,
                     !.status = status] \in JobRow
  BY DEF JobRow

LEMMA ChargeFailuresType ==
  ASSUME NEW row \in JobRow, NEW n \in Nat
  PROVE  ChargeFailures(row, n) \in JobRow
<1> DEFINE status == IF row.consecutive + n >= row.maxFailures THEN "paused" ELSE row.status
<1>1. /\ row.runCount + n \in Nat
      /\ row.errorCount + n \in Nat
      /\ row.consecutive + n \in Nat
      /\ status \in JobStatus \cup {"absent", "deleted"}
  BY DEF JobRow, JobStatus
<1>2. ChargeFailures(row, n) =
        [row EXCEPT !.runCount = row.runCount + n, !.errorCount = row.errorCount + n,
                    !.consecutive = row.consecutive + n, !.status = status]
  BY DEF ChargeFailures
<1> HIDE DEF status
<1>3. [row EXCEPT !.runCount = row.runCount + n, !.errorCount = row.errorCount + n,
                  !.consecutive = row.consecutive + n, !.status = status] \in JobRow
  BY <1>1, SummaryType
<1> QED
  BY <1>2, <1>3

LEMMA CreditSuccessType ==
  ASSUME NEW row \in JobRow, NEW completeJob \in BOOLEAN
  PROVE  CreditSuccess(row, completeJob) \in JobRow
<1> DEFINE status == IF completeJob THEN "completed" ELSE row.status
<1>1. row.runCount + 1 \in Nat /\ status \in JobStatus \cup {"absent", "deleted"}
  BY DEF JobRow, JobStatus
<1>2. CreditSuccess(row, completeJob) =
        [row EXCEPT !.runCount = row.runCount + 1, !.consecutive = 0, !.status = status]
  BY DEF CreditSuccess
<1> HIDE DEF status
<1>3. [row EXCEPT !.runCount = row.runCount + 1, !.consecutive = 0, !.status = status] \in JobRow
  BY <1>1 DEF JobRow
<1> QED
  BY <1>2, <1>3

LEMMA LeasedType == \A row \in JobRow : Leased(row) \in JobRow
  BY DEF Leased, JobRow, TimeOrNull

\* Writing one column of a row keeps it a row.
LEMMA FieldType ==
  ASSUME NEW row \in JobRow
  PROVE  /\ \A room \in Nat : [row EXCEPT !.room = room] \in JobRow
         /\ \A next \in TimeOrNull : [row EXCEPT !.next = next] \in JobRow
         /\ \A status \in JobStatus : [row EXCEPT !.status = status] \in JobRow
         /\ \A status \in JobStatus, next \in TimeOrNull :
                [row EXCEPT !.status = status, !.next = next] \in JobRow
  BY DEF JobRow

LEMMA PatchInputOnType ==
  ASSUME NEW row \in JobRow, NEW in \in PatchInput
  PROVE  PatchInputOn(row, in) \in JobRow
  BY InputAssumption DEF PatchInputOn, JobRow

LEMMA KeepSummaryType ==
  ASSUME NEW row \in JobRow, NEW old \in JobRow
  PROVE  KeepSummary(row, old) \in JobRow
  BY DEF KeepSummary, JobRow

-----------------------------------------------------------------------------
(* Type correctness *)

LEMMA IdleTypes == IdleWorker \in WorkerState /\ IdleClient \in ClientState
<1>1. NoRow("absent") \in JobRow
  BY NoRowType
<1>2. IdleWorker \in WorkerState
  BY <1>1 DEF IdleWorker, WorkerState
<1>3. IdleClient \in ClientState
  BY <1>1 DEF IdleClient, ClientState, TimeOrNull
<1> QED
  BY <1>2, <1>3

LEMMA ClockType == TypeOK => \A w \in Worker : Clock(w) \in Nat
  BY InputAssumption DEF TypeOK, Clock

\* A worker that drops its job is idle or has leased jobs left.
LEMMA ReleasedType ==
  ASSUME TypeOK, NEW w \in Worker
  PROVE  /\ Released(w) \in WorkerState
         /\ Released(w).pc \in {"idle", "exec"}
<1>1. workers[w] \in WorkerState
  BY DEF TypeOK
<1>2. CASE workers[w].due = {}
  BY <1>2, IdleTypes DEF Released, IdleWorker
<1>3. CASE workers[w].due # {}
  BY <1>1, <1>3, IdleTypes DEF Released, IdleWorker, WorkerState
<1> QED
  BY <1>2, <1>3

\* Updating one worker to a well-formed state keeps the workers well-formed.
LEMMA WorkerUpdateType ==
  ASSUME TypeOK, NEW w \in Worker, NEW next \in WorkerState,
         next.pc \in {"idle", "pickup", "exec"} \/ next.job \in Job,
         workers' = [workers EXCEPT ![w] = next]
  PROVE  /\ workers' \in [Worker -> WorkerState]
         /\ \A v \in Worker : Executing(v)' => workers'[v].job \in Job
<1>1. workers' \in [Worker -> WorkerState]
  BY DEF TypeOK
<1>2. \A v \in Worker : workers'[v] = IF v = w THEN next ELSE workers[v]
  BY DEF TypeOK
<1> QED
  BY <1>1, <1>2 DEF TypeOK, Executing

LEMMA DropJobType ==
  ASSUME TypeOK, NEW w \in Worker, DropJob(w)
  PROVE  /\ workers' \in [Worker -> WorkerState]
         /\ \A v \in Worker : Executing(v)' => workers'[v].job \in Job
<1>1. workers' = [workers EXCEPT ![w] = Released(w)]
  BY DEF DropJob
<1>2. Released(w) \in WorkerState /\ Released(w).pc \in {"idle", "exec"}
  BY ReleasedType
<1>3. workers' \in [Worker -> WorkerState]
  BY <1>1, <1>2 DEF TypeOK
<1> QED
  BY <1>1, <1>2, <1>3 DEF TypeOK, Executing

LEMMA InitTypeOK == Init => TypeOK
<1> SUFFICES ASSUME Init PROVE TypeOK
  OBVIOUS
<1>1. jobs \in [Job -> JobRow]
  <2>1. \A in \in CreateInput : CreatedRow(in, 0) \in JobRow
    BY CreatedRowType
  <2> QED
    BY <2>1, NoRowType DEF Init
<1>2. runs \in [DOMAIN runs -> RunRow] /\ DOMAIN runs \subseteq 1 .. lastRun
  BY DEF Init
<1>3. workers \in [Worker -> WorkerState] /\ clients \in [Client -> ClientState]
  BY IdleTypes DEF Init
<1>4. budget \in [{"requests", "crashes", "faults"} -> Nat] /\ pruned \in [Job -> Nat]
  BY BoundsAssumption DEF Init
<1>5. \A w \in Worker : Executing(w) => workers[w].job \in Job
  BY DEF Init, Executing, IdleWorker
<1>6. \A c \in Client : clients[c].pc # "idle" => clients[c].job \in Job
  BY DEF Init, IdleClient
<1> QED
  BY <1>1, <1>2, <1>3, <1>4, <1>5, <1>6 DEF Init, TypeOK

LEMMA SpendType ==
  ASSUME TypeOK, NEW kind \in {"requests", "crashes", "faults"}, Spend(kind)
  PROVE  budget' \in [{"requests", "crashes", "faults"} -> Nat]
  BY DEF TypeOK, Spend

LEMMA WithoutRunsType ==
  ASSUME TypeOK, NEW ids, runs' = WithoutRuns(ids), lastRun' = lastRun
  PROVE  DOMAIN runs' \subseteq 1 .. lastRun' /\ runs' \in [DOMAIN runs' -> RunRow]
  BY DEF TypeOK, WithoutRuns

LEMMA InsertRunType ==
  ASSUME TypeOK, NEW j \in Job, NEW at \in Nat, InsertRun(j, at)
  PROVE  /\ lastRun' \in Nat
         /\ DOMAIN runs' \subseteq 1 .. lastRun'
         /\ runs' \in [DOMAIN runs' -> RunRow]
  BY DEF TypeOK, InsertRun, RunRow, RunStatus

\* Every set of runs is finite.
LEMMA RunsFinite ==
  ASSUME TypeOK, NEW ids \in SUBSET DOMAIN runs
  PROVE  IsFiniteSet(ids) /\ Cardinality(ids) \in Nat
<1>1. IsFiniteSet(1 .. lastRun)
  <2>1. 1 \in Int /\ lastRun \in Int
    BY DEF TypeOK
  <2> QED
    BY <2>1, FS_Interval
<1>2. IsFiniteSet(ids)
  BY <1>1, FS_Subset DEF TypeOK
<1> QED
  BY <1>2, FS_CardinalityType

LEMMA CleanupType ==
  ASSUME TypeOK, NEW w \in Worker, CleanupStaleRuns(w)
  PROVE  TypeOK'
<1>1. PICK stale \in SUBSET Stale(Clock(w)) :
        LET staleOf(j) == {r \in stale : runs[r].job = j} IN
        /\ runs' = [r \in DOMAIN runs |->
                      IF r \in stale THEN [runs[r] EXCEPT !.status = "timeout"] ELSE runs[r]]
        /\ jobs' = [j \in Job |->
                      IF staleOf(j) = {} THEN jobs[j]
                      ELSE ChargeFailures(jobs[j], Cardinality(staleOf(j)))]
  BY DEF CleanupStaleRuns
<1> DEFINE staleOf(j) == {r \in stale : runs[r].job = j}
<1>2. \A j \in Job : Cardinality(staleOf(j)) \in Nat
  BY RunsFinite DEF Stale
<1>3. jobs' \in [Job -> JobRow]
  BY <1>1, <1>2, ChargeFailuresType DEF TypeOK
<1>4. /\ lastRun' = lastRun
      /\ DOMAIN runs' \subseteq 1 .. lastRun'
      /\ runs' \in [DOMAIN runs' -> RunRow]
  BY <1>1 DEF TypeOK, CleanupStaleRuns, RunRow, RunStatus
<1>5. /\ workers' \in [Worker -> WorkerState]
      /\ \A v \in Worker : Executing(v)' => workers'[v].job \in Job
  <2> DEFINE next == [workers[w] EXCEPT !.pc = "pickup", !.at = Clock(w)]
  <2>1. next \in WorkerState /\ next.pc = "pickup"
    BY ClockType DEF TypeOK, WorkerState
  <2>2. workers' = [workers EXCEPT ![w] = next]
    BY DEF CleanupStaleRuns
  <2> HIDE DEF next
  <2> QED
    BY <2>1, <2>2, WorkerUpdateType
<1> QED
  BY <1>3, <1>4, <1>5 DEF TypeOK, CleanupStaleRuns

LEMMA PickupType ==
  ASSUME TypeOK, NEW w \in Worker, PickupDue(w)
  PROVE  TypeOK'
<1>0. PICK unlocked \in SUBSET Due(workers[w].at) : PickupFrom(w, unlocked)
  BY DEF PickupDue
<1>1. PICK picked \in SUBSET unlocked :
        /\ jobs' = [j \in Job |-> IF j \in picked THEN Leased(jobs[j]) ELSE jobs[j]]
        /\ workers' = [workers EXCEPT ![w] =
                         IF picked = {} THEN IdleWorker
                         ELSE [IdleWorker EXCEPT !.pc = "exec",
                                 !.due = {[id |-> j, row |-> Leased(jobs[j])] : j \in picked}]]
  BY <1>0 DEF PickupFrom
<1>2. \A j \in Job : Leased(jobs[j]) \in JobRow
  BY LeasedType DEF TypeOK
<1>3. jobs' \in [Job -> JobRow]
  BY <1>1, <1>2 DEF TypeOK
<1> DEFINE due == {[id |-> j, row |-> Leased(jobs[j])] : j \in picked}
<1>4. due \in SUBSET [id : Job, row : JobRow]
  BY <1>2 DEF Due
<1>5. [IdleWorker EXCEPT !.pc = "exec", !.due = due] \in WorkerState
  BY <1>4, IdleTypes DEF WorkerState
<1>6. /\ workers' \in [Worker -> WorkerState]
      /\ \A v \in Worker : Executing(v)' => workers'[v].job \in Job
  BY <1>1, <1>5, IdleTypes DEF TypeOK, Executing, IdleWorker
<1> QED
  BY <1>0, <1>3, <1>6 DEF TypeOK, PickupFrom

LEMMA RunStepsType ==
  ASSUME TypeOK, NEW w \in Worker,
         \/ ExecuteJob(w) \/ EnsureRoomForJob(w) \/ StartRun(w) \/ StartRunUnacknowledged(w)
         \/ CreateJobMessage(w) \/ CreateJobMessageFails(w)
  PROVE  TypeOK'
<1> DEFINE GoodWorkers == /\ workers' \in [Worker -> WorkerState]
                          /\ \A v \in Worker : Executing(v)' => workers'[v].job \in Job
<1>0. /\ workers[w] \in WorkerState
      /\ Executing(w) => workers[w].job \in Job
      /\ Clock(w) \in Nat
  BY ClockType DEF TypeOK
<1>1. CASE ExecuteJob(w)
  <2>1. PICK item \in workers[w].due :
          workers' = [workers EXCEPT ![w] =
              [pc |-> IF item.row.room = Null THEN "ensure" ELSE "start",
               due |-> workers[w].due \ {item}, job |-> item.id, row |-> item.row,
               at |-> Clock(w), run |-> 0]]
    BY <1>1 DEF ExecuteJob
  <2>2. item \in [id : Job, row : JobRow]
    BY <1>0 DEF WorkerState
  <2>3. GoodWorkers
    BY <1>0, <2>1, <2>2 DEF TypeOK, WorkerState, Executing
  <2> QED
    BY <1>1, <2>3 DEF TypeOK, ExecuteJob
<1>2. CASE EnsureRoomForJob(w)
  <2>1. workers[w].job \in Job
    BY <1>0, <1>2 DEF EnsureRoomForJob, Executing
  <2>2. rooms' \in Nat /\ jobs' \in [Job -> JobRow]
    <3>1. rooms + 1 \in Nat
      BY DEF TypeOK
    <3>2. [jobs[workers[w].job] EXCEPT !.room = rooms + 1] \in JobRow
      BY <2>1, <3>1, FieldType DEF TypeOK
    <3> QED
      BY <1>2, <2>1, <3>1, <3>2 DEF TypeOK, EnsureRoomForJob
  <2>3. GoodWorkers
    BY <1>0, <1>2, <2>1 DEF TypeOK, EnsureRoomForJob, WorkerState, Executing
  <2> QED
    BY <1>2, <2>2, <2>3 DEF TypeOK, EnsureRoomForJob
<1>3. CASE StartRun(w)
  <2>1. workers[w].job \in Job /\ workers[w].at \in Nat
    BY <1>0, <1>3 DEF StartRun, Executing, WorkerState
  <2>2. /\ lastRun' \in Nat
        /\ DOMAIN runs' \subseteq 1 .. lastRun'
        /\ runs' \in [DOMAIN runs' -> RunRow]
    BY <1>3, <2>1, InsertRunType DEF StartRun
  <2>3. GoodWorkers
    BY <1>0, <1>3, <2>1 DEF TypeOK, StartRun, WorkerState, Executing
  <2> QED
    BY <1>3, <2>2, <2>3 DEF TypeOK, StartRun
<1>4. CASE StartRunUnacknowledged(w)
  <2>1. workers[w].job \in Job /\ workers[w].at \in Nat
    BY <1>0, <1>4 DEF StartRunUnacknowledged, Executing, WorkerState
  <2>2. /\ lastRun' \in Nat
        /\ DOMAIN runs' \subseteq 1 .. lastRun'
        /\ runs' \in [DOMAIN runs' -> RunRow]
    BY <1>4, <2>1, InsertRunType DEF StartRunUnacknowledged
  <2>3. GoodWorkers
    BY <1>4, DropJobType DEF StartRunUnacknowledged
  <2> QED
    BY <1>4, <2>2, <2>3, SpendType DEF TypeOK, StartRunUnacknowledged
<1>5. CASE CreateJobMessage(w)
  <2>1. workers[w].job \in Job /\ workers[w].run \in Nat
    BY <1>0, <1>5 DEF CreateJobMessage, Executing, WorkerState
  <2>2. GoodWorkers
    BY <1>0, <1>5, <2>1 DEF TypeOK, CreateJobMessage, WorkerState, Executing
  <2> QED
    BY <1>5, <2>1, <2>2 DEF TypeOK, CreateJobMessage
<1>6. CASE CreateJobMessageFails(w)
  <2>1. workers[w].job \in Job /\ workers[w].run \in Nat
    BY <1>0, <1>6 DEF CreateJobMessageFails, Executing, WorkerState
  <2>2. GoodWorkers
    BY <1>0, <1>6, <2>1 DEF TypeOK, CreateJobMessageFails, WorkerState, Executing
  <2>3. budget' \in [{"requests", "crashes", "faults"} -> Nat]
    BY <1>6, SpendType DEF TypeOK, CreateJobMessageFails
  <2> QED
    BY <1>6, <2>1, <2>2, <2>3 DEF TypeOK, CreateJobMessageFails
<1> QED
  BY <1>1, <1>2, <1>3, <1>4, <1>5, <1>6

LEMMA CompletionType ==
  ASSUME TypeOK, NEW w \in Worker, NEW status \in RunStatus, NEW row \in JobRow,
         NEW next \in TimeOrNull, workers[w].pc \in {"complete", "fail"},
         CompleteRun(w, status, row, next)
  PROVE  TypeOK'
<1>1. workers[w].job \in Job /\ workers[w] \in WorkerState
  BY DEF TypeOK, Executing
<1>2. jobs' \in [Job -> JobRow]
  BY <1>1, FieldType DEF TypeOK, CompleteRun
<1>3. /\ lastRun' = lastRun
      /\ DOMAIN runs' \subseteq 1 .. lastRun'
      /\ runs' \in [DOMAIN runs' -> RunRow]
  BY DEF TypeOK, CompleteRun, StillRunning, RunRow
<1>4. /\ workers' \in [Worker -> WorkerState]
      /\ \A v \in Worker : Executing(v)' => workers'[v].job \in Job
  <2> DEFINE after == [workers[w] EXCEPT !.pc = "prune"]
  <2>1. after \in WorkerState /\ after.job \in Job
    BY <1>1 DEF WorkerState
  <2>2. workers' = [workers EXCEPT ![w] = after]
    BY DEF CompleteRun
  <2> HIDE DEF after
  <2> QED
    BY <2>1, <2>2, WorkerUpdateType
<1> QED
  BY <1>2, <1>3, <1>4 DEF TypeOK, CompleteRun

LEMMA RunEndsType ==
  ASSUME TypeOK, NEW w \in Worker,
         \/ CompleteSuccess(w) \/ CompleteFailure(w) \/ CompleteRefused(w)
         \/ AbandonJob(w) \/ PruneRunHistory(w) \/ CrashWorker(w)
  PROVE  TypeOK'
<1> DEFINE j == workers[w].job
           row == workers[w].row
<1>0. /\ row \in JobRow
      /\ workers[w].at \in Nat /\ workers[w].at \in TimeOrNull
      /\ Executing(w) => j \in Job /\ LockedRow(w) \in JobRow
      /\ Clock(w) \in Nat
  BY ClockType DEF TypeOK, WorkerState, TimeOrNull, LockedRow
<1>1. CASE CompleteSuccess(w)
  <2> DEFINE next == ComputeNextRun(row, workers[w].at, workers[w].at)
             done == row.kind = "once" /\ next = Null
  <2>1. next \in TimeOrNull
    BY <1>0, ComputeNextRunType
  <2>2. workers[w].pc = "complete"
        /\ CompleteRun(w, "success", CreditSuccess(LockedRow(w), done), next)
    BY <1>1 DEF CompleteSuccess
  <2>3. LockedRow(w) \in JobRow /\ done \in BOOLEAN
    BY <1>0, <2>2 DEF Executing
  <2> HIDE DEF next, done
  <2>4. CreditSuccess(LockedRow(w), done) \in JobRow
    BY <2>3, CreditSuccessType
  <2>5. "success" \in RunStatus
    BY DEF RunStatus
  <2> QED
    BY <2>1, <2>2, <2>4, <2>5, CompletionType
<1>2. CASE CompleteFailure(w)
  <2> DEFINE next == ComputeFailureNextRun(row, Clock(w))
  <2>1. next \in TimeOrNull
    BY <1>0, ComputeFailureNextRunType
  <2>2. workers[w].pc = "fail"
        /\ CompleteRun(w, "error", ChargeFailures(LockedRow(w), 1), next)
    BY <1>2 DEF CompleteFailure
  <2> HIDE DEF next
  <2>3. ChargeFailures(LockedRow(w), 1) \in JobRow
    BY <1>0, <2>2, ChargeFailuresType DEF Executing
  <2>4. "error" \in RunStatus
    BY DEF RunStatus
  <2> QED
    BY <2>1, <2>2, <2>3, <2>4, CompletionType
<1>3. CASE CompleteRefused(w)
  BY <1>3, DropJobType DEF TypeOK, CompleteRefused
<1>4. CASE AbandonJob(w)
  <2>1. budget' \in [{"requests", "crashes", "faults"} -> Nat]
    BY <1>4, SpendType DEF TypeOK, AbandonJob
  <2> QED
    BY <1>4, <2>1, DropJobType DEF TypeOK, AbandonJob
<1>5. CASE PruneRunHistory(w)
  <2>1. j \in Job
    BY <1>0, <1>5 DEF PruneRunHistory, Executing
  <2>2. /\ DOMAIN runs' \subseteq 1 .. lastRun'
        /\ runs' \in [DOMAIN runs' -> RunRow]
        /\ pruned' \in [Job -> Nat]
    <3>1. CASE UNCHANGED <<runs, pruned>>
      BY <1>5, <3>1 DEF TypeOK, PruneRunHistory
    <3>2. CASE ~ UNCHANGED <<runs, pruned>>
      <4>1. PICK old \in SUBSET RunsOf(j) :
              /\ runs' = WithoutRuns(old)
              /\ pruned' = [pruned EXCEPT ![j] = @ + Cardinality(old \cap Finished(j))]
        BY <1>5, <3>2 DEF PruneRunHistory
      <4>2. Cardinality(old \cap Finished(j)) \in Nat
        BY RunsFinite DEF RunsOf, Finished
      <4>3. pruned' \in [Job -> Nat]
        BY <2>1, <4>1, <4>2 DEF TypeOK
      <4>4. lastRun' = lastRun
        BY <1>5 DEF PruneRunHistory
      <4> QED
        BY <4>1, <4>3, <4>4, WithoutRunsType
    <3> QED
      BY <3>1, <3>2
  <2> QED
    BY <1>5, <2>2, DropJobType, SpendType DEF TypeOK, PruneRunHistory
<1>6. CASE CrashWorker(w)
  <2>1. IdleWorker \in WorkerState /\ IdleWorker.pc = "idle"
    BY IdleTypes DEF IdleWorker
  <2>2. /\ workers' \in [Worker -> WorkerState]
        /\ \A v \in Worker : Executing(v)' => workers'[v].job \in Job
    BY <1>6, <2>1, WorkerUpdateType DEF CrashWorker
  <2> QED
    BY <1>6, <2>2, SpendType DEF TypeOK, CrashWorker
<1> QED
  BY <1>1, <1>2, <1>3, <1>4, <1>5, <1>6

\* Updating one request to a well-formed state keeps the requests well-formed.
LEMMA ClientUpdateType ==
  ASSUME TypeOK, NEW c \in Client, NEW next \in ClientState,
         next.pc = "idle" \/ next.job \in Job,
         clients' = [clients EXCEPT ![c] = next]
  PROVE  /\ clients' \in [Client -> ClientState]
         /\ \A d \in Client : clients'[d].pc # "idle" => clients'[d].job \in Job
  BY DEF TypeOK

LEMMA InsertAndDeleteType ==
  ASSUME TypeOK, NEW c \in Client, NEW j \in Job,
         CreateJob(c, j) \/ ImportNew(c, j) \/ DeleteJob(c, j)
  PROVE  TypeOK'
<1>1. CASE CreateJob(c, j)
  <2>1. \A in \in CreateInput : CreatedRow(in, now) \in JobRow
    BY CreatedRowType DEF TypeOK
  <2> QED
    BY <1>1, <2>1, SpendType DEF TypeOK, CreateJob, Executing
<1>2. CASE ImportNew(c, j)
  <2>1. \A in \in CreateInput : CreatedRow(in, now) \in JobRow
    BY CreatedRowType DEF TypeOK
  <2>2. \A row \in JobRow :
          [row EXCEPT !.enabled = FALSE, !.status = "paused", !.next = Null] \in JobRow
    BY DEF JobRow, JobStatus, TimeOrNull
  <2>3. PICK in \in CreateInput :
          jobs' = [jobs EXCEPT ![j] = [CreatedRow(in, now) EXCEPT
                     !.enabled = FALSE, !.status = "paused", !.next = Null]]
    BY <1>2 DEF ImportNew
  <2>4. jobs' \in [Job -> JobRow]
    BY <2>1, <2>2, <2>3 DEF TypeOK
  <2> QED
    BY <1>2, <2>4, SpendType DEF TypeOK, ImportNew, Executing
<1>3. CASE DeleteJob(c, j)
  <2>1. jobs' \in [Job -> JobRow] /\ pruned' \in [Job -> Nat]
    BY <1>3, NoRowType DEF TypeOK, DeleteJob
  <2>2. /\ DOMAIN runs' \subseteq 1 .. lastRun'
        /\ runs' \in [DOMAIN runs' -> RunRow]
    BY <1>3, WithoutRunsType DEF DeleteJob
  <2> QED
    BY <1>3, <2>1, <2>2, SpendType DEF TypeOK, DeleteJob, Executing
<1> QED
  BY <1>1, <1>2, <1>3

\* The request of a caller of Update holds a merged row.
LEMMA ReadForUpdateType ==
  ASSUME TypeOK, NEW c \in Client, NEW j \in Job, NEW op \in RequestKinds,
         NEW merged \in JobRow, ReadForUpdate(c, op, j, merged)
  PROVE  TypeOK'
<1> DEFINE next == [IdleClient EXCEPT !.pc = "write", !.op = op, !.job = j, !.row = merged]
<1>1. next \in ClientState /\ next.job \in Job
  BY IdleTypes DEF IdleClient, ClientState
<1>2. clients' = [clients EXCEPT ![c] = next]
  BY DEF ReadForUpdate
<1> HIDE DEF next
<1>3. /\ clients' \in [Client -> ClientState]
      /\ \A d \in Client : clients'[d].pc # "idle" => clients'[d].job \in Job
  BY <1>1, <1>2, ClientUpdateType
<1> QED
  BY <1>3, SpendType DEF TypeOK, ReadForUpdate, Executing

LEMMA UpdateRequestsType ==
  ASSUME TypeOK, NEW c \in Client, NEW j \in Job,
         Patch(c, j) \/ RunNow(c, j) \/ Pause(c, j) \/ Import(c, j)
  PROVE  TypeOK'
<1>0. jobs[j] \in JobRow /\ now \in TimeOrNull
  BY DEF TypeOK, TimeOrNull
<1>1. CASE Patch(c, j)
  <2>1. PICK in \in PatchInput : ReadForUpdate(c, "patch", j, PatchInputOn(jobs[j], in))
    BY <1>1 DEF Patch
  <2>2. PatchInputOn(jobs[j], in) \in JobRow
    BY <1>0, PatchInputOnType
  <2>3. "patch" \in RequestKinds
    BY DEF RequestKinds
  <2> QED
    BY <2>1, <2>2, <2>3, ReadForUpdateType
<1>2. CASE RunNow(c, j)
  <2>1. [jobs[j] EXCEPT !.status = "active", !.next = now] \in JobRow
    BY <1>0, FieldType DEF JobStatus
  <2>2. "run_now" \in RequestKinds
    BY DEF RequestKinds
  <2> QED
    BY <1>2, <2>1, <2>2, ReadForUpdateType DEF RunNow
<1>3. CASE Pause(c, j)
  <2>1. [jobs[j] EXCEPT !.status = "paused"] \in JobRow
    BY <1>0, FieldType DEF JobStatus
  <2>2. "pause" \in RequestKinds
    BY DEF RequestKinds
  <2> QED
    BY <1>3, <2>1, <2>2, ReadForUpdateType DEF Pause
<1>4. CASE Import(c, j)
  <2>1. [jobs[j] EXCEPT !.enabled = FALSE, !.status = "paused"] \in JobRow
    BY <1>0 DEF JobRow, JobStatus
  <2>2. "import" \in RequestKinds
    BY DEF RequestKinds
  <2> QED
    BY <1>4, <2>1, <2>2, ReadForUpdateType DEF Import
<1> QED
  BY <1>1, <1>2, <1>3, <1>4

LEMMA ContinueType ==
  ASSUME TypeOK, NEW c \in Client,
         \/ \E j \in Job : Resume(c, j)
         \/ ResumeRead(c) \/ UpdateWrite(c) \/ RearmRead(c) \/ CrashClient(c)
  PROVE  TypeOK'
<1> DEFINE j == clients[c].job
           row == clients[c].row
           GoodClients == /\ clients' \in [Client -> ClientState]
                          /\ \A d \in Client : clients'[d].pc # "idle" => clients'[d].job \in Job
<1>0. /\ clients[c] \in ClientState
      /\ row \in JobRow /\ clients[c].next \in TimeOrNull
      /\ clients[c].pc # "idle" => j \in Job /\ jobs[j] \in JobRow
      /\ now \in Nat /\ Null \in TimeOrNull
  BY DEF TypeOK, ClientState, TimeOrNull
<1>1. IdleClient \in ClientState /\ IdleClient.pc = "idle"
  BY IdleTypes DEF IdleClient
<1>2. ASSUME NEW i \in Job, Resume(c, i)
      PROVE  TypeOK'
  <2> DEFINE next == [IdleClient EXCEPT !.pc = "resume", !.op = "resume", !.job = i,
                        !.next = ComputeNextRun(jobs[i], now, Null)]
  <2>1. ComputeNextRun(jobs[i], now, Null) \in TimeOrNull
    BY <1>0, ComputeNextRunType DEF TypeOK
  <2>2. next \in ClientState /\ next.job \in Job
    BY <2>1, IdleTypes DEF IdleClient, ClientState, RequestKinds
  <2>3. clients' = [clients EXCEPT ![c] = next]
    BY <1>2 DEF Resume
  <2> HIDE DEF next
  <2>4. GoodClients
    BY <2>2, <2>3, ClientUpdateType
  <2> QED
    BY <1>2, <2>4, SpendType DEF TypeOK, Resume, Executing
<1>3. CASE ResumeRead(c)
  <2> DEFINE next == [clients[c] EXCEPT !.pc = "write",
                        !.row = [jobs[j] EXCEPT !.status = "active", !.next = clients[c].next]]
  <2>1. j \in Job /\ [jobs[j] EXCEPT !.status = "active", !.next = clients[c].next] \in JobRow
    BY <1>0, <1>3, FieldType DEF ResumeRead, JobStatus
  <2>2. next \in ClientState /\ next.job \in Job
    BY <1>0, <2>1 DEF ClientState
  <2>3. \/ clients' = [clients EXCEPT ![c] = next]
        \/ clients' = [clients EXCEPT ![c] = IdleClient]
    BY <1>3 DEF ResumeRead
  <2> HIDE DEF next
  <2>4. GoodClients
    BY <1>1, <2>2, <2>3, ClientUpdateType
  <2> QED
    BY <1>3, <2>4 DEF TypeOK, ResumeRead, Executing
<1>4. CASE UpdateWrite(c)
  <2> DEFINE next == [clients[c] EXCEPT !.pc = "rearm", !.next = ComputeNextRun(row, now, Null)]
  <2>1. j \in Job
    BY <1>0, <1>4 DEF UpdateWrite
  <2>2. KeepSummary(row, jobs[j]) \in JobRow
    BY <1>0, <2>1, KeepSummaryType DEF TypeOK
  <2>3. jobs' \in [Job -> JobRow]
    BY <1>4, <2>1, <2>2 DEF TypeOK, UpdateWrite
  <2>4. ComputeNextRun(row, now, Null) \in TimeOrNull
    BY <1>0, ComputeNextRunType
  <2>5. next \in ClientState /\ next.job \in Job
    BY <1>0, <2>1, <2>4 DEF ClientState
  <2>6. \/ clients' = [clients EXCEPT ![c] = next]
        \/ clients' = [clients EXCEPT ![c] = IdleClient]
    BY <1>4 DEF UpdateWrite
  <2> HIDE DEF next
  <2>7. GoodClients
    BY <1>1, <2>5, <2>6, ClientUpdateType
  <2> QED
    BY <1>4, <2>3, <2>7 DEF TypeOK, UpdateWrite, Executing
<1>5. CASE RearmRead(c)
  <2> DEFINE next == [clients[c] EXCEPT !.pc = "write", !.op = "rearm",
                        !.row = [jobs[j] EXCEPT !.next = clients[c].next]]
  <2>1. j \in Job /\ [jobs[j] EXCEPT !.next = clients[c].next] \in JobRow
    BY <1>0, <1>5, FieldType DEF RearmRead
  <2>2. next \in ClientState /\ next.job \in Job
    BY <1>0, <2>1 DEF ClientState
  <2>3. \/ clients' = [clients EXCEPT ![c] = next]
        \/ clients' = [clients EXCEPT ![c] = IdleClient]
    BY <1>5 DEF RearmRead
  <2> HIDE DEF next
  <2>4. GoodClients
    BY <1>1, <2>2, <2>3, ClientUpdateType
  <2> QED
    BY <1>5, <2>4 DEF TypeOK, RearmRead, Executing
<1>6. CASE CrashClient(c)
  <2>1. GoodClients
    BY <1>1, <1>6, ClientUpdateType DEF CrashClient
  <2> QED
    BY <1>6, <2>1, SpendType DEF TypeOK, CrashClient, Executing
<1> QED
  BY <1>2, <1>3, <1>4, <1>5, <1>6

\* Every step of the scheduler and of the handlers preserves the types.
LEMMA NextTypeOK == TypeOK /\ [Next]_vars => TypeOK'
<1> SUFFICES ASSUME TypeOK, [Next]_vars PROVE TypeOK'
  OBVIOUS
<1>1. CASE Tick
  BY <1>1 DEF TypeOK, Tick, Executing
<1>2. ASSUME NEW w \in Worker, WorkerStep(w) PROVE TypeOK'
  BY <1>2, CleanupType, PickupType, RunStepsType, RunEndsType DEF WorkerStep
<1>3. ASSUME NEW c \in Client, ClientStep(c) PROVE TypeOK'
  BY <1>3, InsertAndDeleteType, UpdateRequestsType, ContinueType
  DEF ClientStep, NewRequest, ContinueRequest
<1>4. CASE UNCHANGED vars
  BY <1>4 DEF TypeOK, vars, Executing
<1> QED
  BY <1>1, <1>2, <1>3, <1>4 DEF Next

\* Type correctness: every column, run and local state keeps its type, and a
\* worker or request in the middle of its work always has a job.
THEOREM TypeCorrect == Spec => []TypeOK
<1>1. Init => TypeOK
  BY InitTypeOK
<1>2. TypeOK /\ [Next]_vars => TypeOK'
  BY NextTypeOK
<1> QED
  BY <1>1, <1>2, PTL DEF Spec

-----------------------------------------------------------------------------
(* The outcome of a run *)

\* No run that has ended is changed by the step (it may be deleted).
KeepsEnded ==
  \A r \in DOMAIN runs \cap DOMAIN runs' : runs[r].status # "running" => runs'[r] = runs[r]

LEMMA InsertKeepsEnded ==
  ASSUME TypeOK, NEW j, NEW at, InsertRun(j, at)
  PROVE  KeepsEnded
<1>1. lastRun + 1 \notin DOMAIN runs
  BY DEF TypeOK
<1> QED
  BY <1>1 DEF InsertRun, KeepsEnded

LEMMA StepKeepsEnded == TypeOK /\ [Next]_vars => KeepsEnded
<1> SUFFICES ASSUME TypeOK, [Next]_vars PROVE KeepsEnded
  OBVIOUS
<1>1. CASE UNCHANGED runs
  BY <1>1 DEF KeepsEnded
<1>2. ASSUME NEW ids, runs' = WithoutRuns(ids) PROVE KeepsEnded
  BY <1>2 DEF KeepsEnded, WithoutRuns
<1>3. ASSUME NEW w \in Worker, WorkerStep(w) PROVE KeepsEnded
  <2>1. CASE CleanupStaleRuns(w)
    BY <2>1 DEF CleanupStaleRuns, Stale, KeepsEnded
  <2>2. CASE StartRun(w) \/ StartRunUnacknowledged(w)
    BY <2>2, InsertKeepsEnded DEF StartRun, StartRunUnacknowledged
  <2>3. CASE CompleteSuccess(w) \/ CompleteFailure(w)
    <3>1. PICK status : /\ StillRunning(workers[w].run)
                        /\ runs' = [runs EXCEPT ![workers[w].run].status = status]
      BY <2>3 DEF CompleteSuccess, CompleteFailure, CompleteRun
    <3> QED
      BY <3>1 DEF StillRunning, KeepsEnded
  <2>4. CASE PruneRunHistory(w)
    BY <1>1, <1>2, <2>4 DEF PruneRunHistory
  <2> QED
    BY <1>1, <1>3, <2>1, <2>2, <2>3, <2>4
    DEF WorkerStep, PickupDue, PickupFrom, ExecuteJob, EnsureRoomForJob, CreateJobMessage,
        CreateJobMessageFails, CompleteRefused, AbandonJob, CrashWorker
<1>4. ASSUME NEW c \in Client, ClientStep(c) PROVE KeepsEnded
  BY <1>1, <1>2, <1>4
  DEF ClientStep, NewRequest, ContinueRequest, CreateJob, DeleteJob, Patch, RunNow, Pause, Import,
      ImportNew, ReadForUpdate, Resume, ResumeRead, UpdateWrite, RearmRead, CrashClient
<1> QED
  BY <1>1, <1>3, <1>4 DEF Next, Tick, vars

\* The outcome of a run is written once: neither a worker that is late nor the
\* stale cleanup overwrites what the other has recorded.
THEOREM RunOutcomesAreFinal == Spec => EndedRunsAreFinal
<1>1. TypeOK /\ [Next]_vars => [KeepsEnded]_vars
  BY StepKeepsEnded
<1> QED
  BY <1>1, TypeCorrect, PTL DEF Spec, EndedRunsAreFinal, KeepsEnded

-----------------------------------------------------------------------------
(* The lease on a job is exclusive, as long as no request writes an active row *)
(* back over the row of a leased job.                                          *)


\* The requests that AgentJobStore.Update, called on a row read earlier, cannot
\* turn into a second lease: those that leave the job paused, and those that
\* insert or delete it.
LeaseSafe == Request \subseteq {"pause", "import", "create", "delete"}

\* A step in which no worker comes to hold a job it did not hold, and a worker
\* in a run stays in it or lets go of its job.
WorkersShrink ==
    /\ WorkersInStep' /\ DueDistinct'
    /\ \A v \in Worker, j \in Job : Holds(v, j)' => Holds(v, j)
    /\ \A v \in Worker, j \in Job : Holds(v, j)' /\ InRun(v) /\ workers[v].job = j =>
          workers'[v].job = j /\ InRun(v)' /\ workers'[v].run = workers[v].run
    /\ \A v \in Worker : InRun(v)' =>
          InRun(v) /\ workers'[v].job = workers[v].job /\ workers'[v].run = workers[v].run

\* A step in which no run is inserted and none becomes running.
RunsShrink ==
    /\ lastRun' = lastRun
    /\ \A r \in DOMAIN runs' :
          /\ r \in DOMAIN runs
          /\ runs'[r].job = runs[r].job
          /\ runs'[r].status = "running" => runs[r].status = "running"

LEMMA RunningShrinks ==
  ASSUME RunsShrink, NEW j
  PROVE  Running(j)' \subseteq Running(j)
  BY DEF RunsShrink, Running, RunsOf

\* A step that only shrinks keeps the invariant, provided a job becomes
\* claimable only when it is free.
LEMMA NothingNew ==
  ASSUME TypeOK, LeaseInv, WorkersShrink, RunsShrink, ClientsOnlyPause',
         \A j \in Job : Claimable(j)' => Claimable(j) \/ Free(j)'
  PROVE  LeaseInv'
<1>0. \A j \in Job : Running(j)' \subseteq Running(j)
  BY RunningShrinks
<1>1. WorkersInStep' /\ DueDistinct'
  BY DEF WorkersShrink
<1>2. HeldOnce'
  BY DEF LeaseInv, HeldOnce, WorkersShrink
<1>3. RunningOnce'
  BY <1>0 DEF LeaseInv, RunningOnce
<1>4. RunningIsHolders'
  BY <1>0 DEF LeaseInv, RunningIsHolders, WorkersShrink
<1>5. RunsMatch'
  BY DEF LeaseInv, RunsMatch, WorkersShrink, RunsShrink
<1>6. ClaimableIsFree'
  <2> SUFFICES ASSUME NEW j \in Job, Claimable(j)' PROVE Free(j)'
    BY DEF ClaimableIsFree
  <2>1. CASE Claimable(j)
    BY <1>0, <2>1 DEF LeaseInv, ClaimableIsFree, Free, WorkersShrink
  <2> QED
    BY <2>1
<1> QED
  BY <1>1, <1>2, <1>3, <1>4, <1>5, <1>6 DEF LeaseInv

\* Dropping the current job, and possibly all leased ones, shrinks.
LEMMA DropShrinks ==
  ASSUME TypeOK, LeaseInv, NEW w \in Worker, NEW next \in WorkerState,
         next.pc \in {"idle", "exec"}, next.job = Null, next.due \subseteq workers[w].due,
         workers' = [workers EXCEPT ![w] = next]
  PROVE  WorkersShrink
<1>1. \A v \in Worker : workers'[v] = IF v = w THEN next ELSE workers[v]
  BY DEF TypeOK
<1>2. Null \notin Job
  BY InputAssumption
<1>3. WorkersInStep'
  BY <1>1 DEF LeaseInv, WorkersInStep, Executing
<1>4. DueDistinct'
  <2>1. \A a \in next.due : a.id \in Job
    BY DEF WorkerState
  <2> QED
    BY <1>1, <1>2, <2>1 DEF LeaseInv, DueDistinct
<1>5. \A v \in Worker, j \in Job : Holds(v, j)' => Holds(v, j) /\ (v = w => ~ InRun(w) \/ workers[w].job # j)
  BY <1>1, <1>2 DEF Holds, LeaseInv, DueDistinct
<1>6. ~ InRun(w)'
  BY <1>1 DEF InRun
<1> QED
  BY <1>1, <1>3, <1>4, <1>5, <1>6 DEF WorkersShrink, InRun

\* Going on to the next statement with the same job and run shrinks.
LEMMA AdvanceShrinks ==
  ASSUME TypeOK, LeaseInv, NEW w \in Worker, NEW pc,
         \/ workers[w].pc = "idle" /\ pc = "pickup"
         \/ workers[w].pc = "ensure" /\ pc = "start"
         \/ workers[w].pc = "send" /\ pc \in {"complete", "fail"}
         \/ workers[w].pc \in {"complete", "fail"} /\ pc = "prune",
         \A v \in Worker \ {w} : workers'[v] = workers[v],
         workers'[w].pc = pc, workers'[w].job = workers[w].job,
         workers'[w].run = workers[w].run, workers'[w].due = workers[w].due
  PROVE  WorkersShrink
<1>1. WorkersInStep'
  BY DEF LeaseInv, WorkersInStep, Executing
<1>2. DueDistinct'
  BY DEF LeaseInv, DueDistinct
<1>3. \A v \in Worker, j \in Job : Holds(v, j)' => Holds(v, j)
  BY DEF Holds
<1>4. \A v \in Worker, j \in Job : Holds(v, j)' /\ InRun(v) /\ workers[v].job = j =>
          workers'[v].job = j /\ InRun(v)' /\ workers'[v].run = workers[v].run
  BY DEF Holds, InRun, LeaseInv, DueDistinct
<1>5. \A v \in Worker : InRun(v)' =>
          InRun(v) /\ workers'[v].job = workers[v].job /\ workers'[v].run = workers[v].run
  BY DEF InRun
<1> QED
  BY <1>1, <1>2, <1>3, <1>4, <1>5 DEF WorkersShrink

LEMMA DropJobShrinks ==
  ASSUME TypeOK, LeaseInv, NEW w \in Worker, DropJob(w)
  PROVE  WorkersShrink
<1>1. Released(w) \in WorkerState /\ Released(w).pc \in {"idle", "exec"}
  BY ReleasedType
<1>2. workers[w] \in WorkerState
  BY DEF TypeOK
<1>3. Released(w).job = Null /\ Released(w).due \subseteq workers[w].due
  BY <1>2 DEF Released, IdleWorker
<1> QED
  BY <1>1, <1>3, DropShrinks DEF DropJob

\* A step that changes neither the runs nor the requests leaves their part alone.
LEMMA SameRuns == UNCHANGED <<runs, lastRun>> => RunsShrink
  BY DEF RunsShrink

LEMMA SameClients == LeaseInv /\ UNCHANGED clients => ClientsOnlyPause'
  BY DEF LeaseInv, ClientsOnlyPause

LEMMA SameJobs == UNCHANGED jobs => \A j \in Job : Claimable(j)' => Claimable(j)
  BY DEF Claimable

LEMMA SameWorkers == TypeOK /\ LeaseInv /\ UNCHANGED workers => WorkersShrink
  BY DEF LeaseInv, WorkersShrink, WorkersInStep, Executing, DueDistinct, Holds, InRun

LEMMA CleanupLease ==
  ASSUME TypeOK, LeaseInv, NEW w \in Worker, CleanupStaleRuns(w)
  PROVE  LeaseInv'
<1>1. PICK stale \in SUBSET Stale(Clock(w)) :
        /\ runs' = [r \in DOMAIN runs |->
                      IF r \in stale THEN [runs[r] EXCEPT !.status = "timeout"] ELSE runs[r]]
        /\ jobs' = [j \in Job |->
                      IF {r \in stale : runs[r].job = j} = {} THEN jobs[j]
                      ELSE ChargeFailures(jobs[j], Cardinality({r \in stale : runs[r].job = j}))]
  BY DEF CleanupStaleRuns
<1>2. RunsShrink
  BY <1>1 DEF RunsShrink, CleanupStaleRuns, TypeOK, RunRow
<1>3. \A j \in Job : Claimable(j)' => Claimable(j)
  <2> SUFFICES ASSUME NEW j \in Job, Claimable(j)' PROVE Claimable(j)
    OBVIOUS
  <2>1. \A n : /\ ChargeFailures(jobs[j], n).next = jobs[j].next
               /\ ChargeFailures(jobs[j], n).status \in {jobs[j].status, "paused"}
    BY DEF ChargeFailures, TypeOK, JobRow
  <2> QED
    BY <1>1, <2>1 DEF Claimable
<1>4. WorkersShrink
  BY AdvanceShrinks DEF CleanupStaleRuns, TypeOK, WorkerState
<1>5. ClientsOnlyPause'
  BY SameClients DEF CleanupStaleRuns
<1> QED
  BY <1>2, <1>3, <1>4, <1>5, NothingNew

\* A poll leases claimable jobs only, which are free, and disarms them.
LEMMA PickupLease ==
  ASSUME TypeOK, LeaseInv, NEW w \in Worker, PickupDue(w)
  PROVE  LeaseInv'
<1>0. PICK unlocked \in SUBSET Due(workers[w].at) : PickupFrom(w, unlocked)
  BY DEF PickupDue
<1>1. PICK picked \in SUBSET unlocked :
        /\ jobs' = [j \in Job |-> IF j \in picked THEN Leased(jobs[j]) ELSE jobs[j]]
        /\ workers' = [workers EXCEPT ![w] =
                         IF picked = {} THEN IdleWorker
                         ELSE [IdleWorker EXCEPT !.pc = "exec",
                                 !.due = {[id |-> j, row |-> Leased(jobs[j])] : j \in picked}]]
  BY <1>0 DEF PickupFrom
<1> DEFINE due == {[id |-> j, row |-> Leased(jobs[j])] : j \in picked}
<1>2. \A j \in picked : j \in Job /\ Claimable(j) /\ Free(j) /\ ~ Claimable(j)'
  <2>1. \A j \in picked : j \in Job /\ jobs[j].status = "active" /\ jobs[j].next # Null
    BY DEF Due
  <2>2. \A j \in picked : jobs'[j].status = "active" /\ jobs'[j].next = Null
    BY <1>1, <2>1 DEF Leased, TypeOK, JobRow
  <2> QED
    BY <2>1, <2>2 DEF Claimable, LeaseInv, ClaimableIsFree
<1>3. /\ workers'[w].pc \in {"idle", "exec"} /\ workers'[w].job = Null
      /\ workers'[w].due \subseteq due
      /\ \A v \in Worker \ {w} : workers'[v] = workers[v]
  BY <1>1 DEF TypeOK, IdleWorker
<1>4. Null \notin Job
  BY InputAssumption
<1>5. \A j \in Job : Holds(w, j)' => j \in picked
  BY <1>3, <1>4 DEF Holds
<1>6. \A v \in Worker \ {w}, j \in Job : Holds(v, j)' <=> Holds(v, j)
  BY <1>3 DEF Holds
<1>7. UNCHANGED <<runs, lastRun, clients>>
  BY <1>0 DEF PickupFrom
<1>8. \A j : Running(j)' = Running(j)
  BY <1>7 DEF Running, RunsOf
<1>9. WorkersInStep' /\ DueDistinct'
  BY <1>2, <1>3, <1>4 DEF LeaseInv, WorkersInStep, Executing, DueDistinct
<1>10. HeldOnce'
  BY <1>2, <1>5, <1>6 DEF LeaseInv, HeldOnce, Free
<1>11. RunningOnce'
  BY <1>8 DEF LeaseInv, RunningOnce
<1>12. RunningIsHolders'
  BY <1>2, <1>3, <1>5, <1>6, <1>8 DEF LeaseInv, RunningIsHolders, Free, InRun
<1>13. RunsMatch'
  BY <1>3, <1>7 DEF LeaseInv, RunsMatch, InRun
<1>14. ClaimableIsFree'
  <2> SUFFICES ASSUME NEW j \in Job, Claimable(j)' PROVE Free(j)'
    BY DEF ClaimableIsFree
  <2>1. j \notin picked
    BY <1>2
  <2>2. Claimable(j)
    BY <1>1, <2>1 DEF Claimable
  <2> QED
    BY <1>5, <1>6, <1>8, <2>1, <2>2 DEF LeaseInv, ClaimableIsFree, Free
<1>15. ClientsOnlyPause'
  BY <1>7, SameClients
<1> QED
  BY <1>9, <1>10, <1>11, <1>12, <1>13, <1>14, <1>15 DEF LeaseInv

LEMMA ExecuteLease ==
  ASSUME TypeOK, LeaseInv, NEW w \in Worker, ExecuteJob(w)
  PROVE  LeaseInv'
<1>1. PICK item \in workers[w].due :
        workers' = [workers EXCEPT ![w] =
            [pc |-> IF item.row.room = Null THEN "ensure" ELSE "start",
             due |-> workers[w].due \ {item}, job |-> item.id, row |-> item.row,
             at |-> Clock(w), run |-> 0]]
  BY DEF ExecuteJob
<1>2. /\ workers'[w].pc \in {"ensure", "start"} /\ workers'[w].job = item.id
      /\ workers'[w].due = workers[w].due \ {item}
      /\ \A v \in Worker \ {w} : workers'[v] = workers[v]
  BY <1>1 DEF TypeOK
<1>3. workers[w].pc = "exec" /\ workers[w].job = Null
  BY DEF ExecuteJob, LeaseInv, WorkersInStep, Executing
<1>4. WorkersInStep' /\ DueDistinct'
  BY <1>2 DEF LeaseInv, WorkersInStep, DueDistinct, Executing
<1>5. \A v \in Worker, j \in Job : Holds(v, j)' => Holds(v, j)
  BY <1>2 DEF Holds
<1>6. WorkersShrink
  BY <1>2, <1>3, <1>4, <1>5 DEF WorkersShrink, InRun
<1>7. UNCHANGED <<runs, lastRun, clients, jobs>>
  BY DEF ExecuteJob
<1> QED
  BY <1>6, <1>7, SameRuns, SameClients, SameJobs, NothingNew

LEMMA EnsureRoomLease ==
  ASSUME TypeOK, LeaseInv, NEW w \in Worker, EnsureRoomForJob(w)
  PROVE  LeaseInv'
<1>1. WorkersShrink
  BY AdvanceShrinks DEF EnsureRoomForJob, TypeOK, WorkerState
<1>2. \A j \in Job : jobs'[j].status = jobs[j].status /\ jobs'[j].next = jobs[j].next
  BY DEF EnsureRoomForJob, TypeOK, JobRow
<1>3. \A j \in Job : Claimable(j)' => Claimable(j)
  BY <1>2 DEF Claimable
<1>4. UNCHANGED <<runs, lastRun, clients>>
  BY DEF EnsureRoomForJob
<1> QED
  BY <1>1, <1>3, <1>4, SameRuns, SameClients, NothingNew

LEMMA MessageLease ==
  ASSUME TypeOK, LeaseInv, NEW w \in Worker, CreateJobMessage(w) \/ CreateJobMessageFails(w)
  PROVE  LeaseInv'
<1>1. workers[w].pc = "send" /\ \E pc \in {"complete", "fail"} :
        workers' = [workers EXCEPT ![w].pc = pc]
  BY DEF CreateJobMessage, CreateJobMessageFails
<1>2. WorkersShrink
  BY <1>1, AdvanceShrinks DEF TypeOK, WorkerState
<1>3. UNCHANGED <<runs, lastRun, clients, jobs>>
  BY DEF CreateJobMessage, CreateJobMessageFails
<1> QED
  BY <1>2, <1>3, SameRuns, SameClients, SameJobs, NothingNew

\* What inserting a run of job j changes: only j gets one more running run.
LEMMA InsertedRun ==
  ASSUME TypeOK, NEW j \in Job, NEW at, InsertRun(j, at)
  PROVE  /\ \A i \in Job \ {j} : Running(i)' = Running(i)
         /\ Running(j)' = Running(j) \cup {lastRun + 1}
         /\ lastRun' = lastRun + 1 /\ lastRun + 1 \notin DOMAIN runs
         /\ \A r \in DOMAIN runs' : r # lastRun + 1 => r \in DOMAIN runs /\ runs'[r] = runs[r]
         /\ lastRun + 1 \in DOMAIN runs' /\ runs'[lastRun + 1].job = j
<1> DEFINE new == lastRun + 1
<1>1. new \notin DOMAIN runs /\ lastRun' = new
  BY DEF TypeOK, InsertRun
<1>2. /\ DOMAIN runs' = DOMAIN runs \cup {new}
      /\ \A r \in DOMAIN runs : runs'[r] = runs[r]
      /\ runs'[new].job = j /\ runs'[new].status = "running"
  BY <1>1 DEF InsertRun
<1> HIDE DEF new
<1>3. \A i : Running(i) = {r \in DOMAIN runs : runs[r].job = i /\ runs[r].status = "running"}
  BY DEF Running, RunsOf
<1>4. \A i : Running(i)' = {r \in DOMAIN runs' : runs'[r].job = i /\ runs'[r].status = "running"}
  BY DEF Running, RunsOf
<1>5. \A i \in Job \ {j} : Running(i)' = Running(i)
  BY <1>1, <1>2, <1>3, <1>4
<1>6. Running(j)' = Running(j) \cup {new}
  BY <1>1, <1>2, <1>3, <1>4
<1> QED
  BY <1>1, <1>2, <1>5, <1>6 DEF new

\* The holder of a job starts a run of it: no other run is running.  Afterwards
\* it is in that run, or has let go of the job.
LEMMA InsertLease ==
  ASSUME TypeOK, LeaseInv, NEW w \in Worker, workers[w].pc = "start",
         InsertRun(workers[w].job, workers[w].at), UNCHANGED <<jobs, clients>>,
         WorkersInStep', DueDistinct',
         \A v \in Worker \ {w} : workers'[v] = workers[v],
         \A i \in Job : Holds(w, i)' => Holds(w, i),
         \A i \in Job : i = workers[w].job /\ Holds(w, i)' => InRun(w)',
         InRun(w)' => workers'[w].run = lastRun + 1 /\ workers'[w].job = workers[w].job
  PROVE  LeaseInv'
<1>1. PICK j \in Job : j = workers[w].job
  BY DEF TypeOK, Executing
<1>2. \A v \in Worker, i \in Job : Holds(v, i)' => Holds(v, i)
  BY DEF Holds
<1>3. Holds(w, j) /\ Running(j) = {}
  BY <1>1 DEF Holds, LeaseInv, RunningIsHolders, InRun
<1>4. /\ \A i \in Job \ {j} : Running(i)' = Running(i)
      /\ Running(j)' = {lastRun + 1}
      /\ lastRun \in Nat
  BY <1>1, <1>3, InsertedRun DEF TypeOK
<1>5. HeldOnce'
  BY <1>2 DEF LeaseInv, HeldOnce
<1>6. RunningOnce'
  <2> SUFFICES ASSUME NEW i \in Job, NEW r \in Running(i)', NEW s \in Running(i)' PROVE r = s
    BY DEF RunningOnce
  <2>1. CASE i = j
    BY <1>4, <2>1
  <2>2. CASE i # j
    BY <1>4, <2>2 DEF LeaseInv, RunningOnce
  <2> QED
    BY <2>1, <2>2
<1>7. RunningIsHolders'
  <2> SUFFICES ASSUME NEW i \in Job, NEW v \in Worker, NEW r \in Running(i)', Holds(v, i)'
               PROVE  workers'[v].job = i /\ InRun(v)' /\ r = workers'[v].run
    BY DEF RunningIsHolders
  <2>1. CASE i = j
    <3>1. v = w
      BY <1>1, <1>2, <1>3, <2>1 DEF LeaseInv, HeldOnce
    <3> QED
      BY <1>1, <1>4, <2>1, <3>1
  <2>2. CASE i # j
    <3>1. workers[v].job = i /\ InRun(v) /\ r = workers[v].run
      BY <1>2, <1>4, <2>2 DEF LeaseInv, RunningIsHolders
    <3>2. v # w
      BY <1>1, <2>2, <3>1
    <3> QED
      BY <3>1, <3>2 DEF InRun
  <2> QED
    BY <2>1, <2>2
<1>8. RunsMatch'
  <2> SUFFICES ASSUME NEW v \in Worker, InRun(v)'
               PROVE  /\ workers'[v].run <= lastRun'
                      /\ workers'[v].run \in DOMAIN runs' =>
                           runs'[workers'[v].run].job = workers'[v].job
    BY DEF RunsMatch
  <2>1. CASE v = w
    BY <1>1, <1>4, <2>1, InsertedRun
  <2>2. CASE v # w
    <3>1. /\ workers'[v] = workers[v] /\ InRun(v)
          /\ workers[v].run \in Nat
      BY <2>2 DEF InRun, TypeOK, WorkerState
    <3>2. /\ workers[v].run <= lastRun
          /\ workers[v].run \in DOMAIN runs => runs[workers[v].run].job = workers[v].job
      BY <3>1 DEF LeaseInv, RunsMatch
    <3>3. workers[v].run # lastRun + 1
      BY <1>4, <3>1, <3>2
    <3> QED
      BY <1>1, <1>4, <3>1, <3>2, <3>3, InsertedRun
  <2> QED
    BY <2>1, <2>2
<1>9. ClaimableIsFree'
  <2> SUFFICES ASSUME NEW i \in Job, Claimable(i)' PROVE Free(i)'
    BY DEF ClaimableIsFree
  <2>1. Free(i)
    BY SameJobs DEF LeaseInv, ClaimableIsFree
  <2>2. i # j
    BY <1>3, <2>1 DEF Free
  <2> QED
    BY <1>2, <1>4, <2>1, <2>2 DEF Free
<1>10. ClientsOnlyPause'
  BY SameClients
<1> QED
  BY <1>5, <1>6, <1>7, <1>8, <1>9, <1>10 DEF LeaseInv

LEMMA StartRunLease ==
  ASSUME TypeOK, LeaseInv, NEW w \in Worker, StartRun(w) \/ StartRunUnacknowledged(w)
  PROVE  LeaseInv'
<1>1. CASE StartRun(w)
  <2>1. /\ workers[w].pc = "start"
        /\ workers'[w].pc \in {"send", "fail"} /\ workers'[w].run = lastRun + 1
        /\ workers'[w].job = workers[w].job /\ workers'[w].due = workers[w].due
        /\ \A v \in Worker \ {w} : workers'[v] = workers[v]
    BY <1>1 DEF StartRun, TypeOK, WorkerState
  <2>2. WorkersInStep' /\ DueDistinct' /\ InRun(w)'
    BY <2>1 DEF LeaseInv, WorkersInStep, DueDistinct, Executing, InRun
  <2>3. \A i \in Job : Holds(w, i)' => Holds(w, i)
    BY <2>1 DEF Holds
  <2>4. InsertRun(workers[w].job, workers[w].at) /\ UNCHANGED <<jobs, clients>>
    BY <1>1 DEF StartRun
  <2> QED
    BY <2>1, <2>2, <2>3, <2>4, InsertLease
<1>2. CASE StartRunUnacknowledged(w)
  <2>1. /\ workers[w].pc = "start" /\ workers[w].job \in Job
        /\ InsertRun(workers[w].job, workers[w].at) /\ UNCHANGED <<jobs, clients>>
    BY <1>2 DEF StartRunUnacknowledged, TypeOK, Executing
  <2>2. WorkersShrink
    BY <1>2, DropJobShrinks DEF StartRunUnacknowledged
  <2>3. /\ \A v \in Worker \ {w} : workers'[v] = workers[v]
        /\ workers'[w].job = Null /\ workers'[w].due = workers[w].due
        /\ workers'[w].pc \in {"idle", "exec"}
    BY <1>2 DEF StartRunUnacknowledged, DropJob, Released, IdleWorker, TypeOK
  <2>4. ~ InRun(w)' /\ \A i \in Job : i = workers[w].job => ~ Holds(w, i)'
    BY <2>1, <2>3, InputAssumption DEF Holds, InRun, LeaseInv, DueDistinct
  <2> QED
    BY <2>1, <2>2, <2>3, <2>4, InsertLease DEF WorkersShrink
<1> QED
  BY <1>1, <1>2

\* Completing the holder's run leaves the job free, so that arming it is safe.
LEMMA CompletionLease ==
  ASSUME TypeOK, LeaseInv, NEW w \in Worker, NEW status \in RunStatus \ {"running"},
         NEW row, NEW next, workers[w].pc \in {"complete", "fail"},
         CompleteRun(w, status, row, next)
  PROVE  LeaseInv'
<1>1. PICK j \in Job : j = workers[w].job
  BY DEF TypeOK, Executing
<1>2. PICK r \in DOMAIN runs : r = workers[w].run /\ runs[r].status = "running"
  BY DEF CompleteRun, StillRunning
<1>3. runs[r].job = j
  BY <1>1, <1>2 DEF LeaseInv, RunsMatch, InRun
<1>4. /\ DOMAIN runs' = DOMAIN runs /\ lastRun' = lastRun
      /\ runs'[r].status = status /\ runs'[r].job = j
      /\ \A s \in DOMAIN runs \ {r} : runs'[s] = runs[s]
  BY <1>2, <1>3 DEF CompleteRun, TypeOK, RunRow
<1>5. RunsShrink
  BY <1>2, <1>3, <1>4 DEF RunsShrink
<1>6. Running(j)' = {}
  <2>1. Running(j) \subseteq {r}
    BY <1>2, <1>3 DEF LeaseInv, RunningOnce, Running, RunsOf
  <2>2. Running(j)' \subseteq {r}
    BY <1>5, <2>1, RunningShrinks
  <2>3. r \notin Running(j)'
    BY <1>4 DEF Running
  <2> QED
    BY <2>2, <2>3
<1>7. /\ workers'[w].pc = "prune" /\ workers'[w].job = j
      /\ workers'[w].run = workers[w].run /\ workers'[w].due = workers[w].due
      /\ \A v \in Worker \ {w} : workers'[v] = workers[v]
  BY <1>1 DEF CompleteRun, TypeOK, WorkerState
<1>8. WorkersShrink
  BY <1>1, <1>7, AdvanceShrinks
<1>9. Holds(w, j)
  BY <1>1 DEF Holds
<1>10. \A v \in Worker : ~ Holds(v, j)'
  <2>1. ~ Holds(w, j)'
    BY <1>1, <1>7 DEF Holds, LeaseInv, DueDistinct
  <2>2. \A v \in Worker \ {w} : ~ Holds(v, j)
    BY <1>9 DEF LeaseInv, HeldOnce
  <2> QED
    BY <1>8, <2>1, <2>2 DEF WorkersShrink
<1>11. \A i \in Job : Claimable(i)' => Claimable(i) \/ Free(i)'
  <2> SUFFICES ASSUME NEW i \in Job, Claimable(i)' PROVE Claimable(i) \/ Free(i)'
    OBVIOUS
  <2>1. CASE i = j
    BY <1>6, <1>10, <2>1 DEF Free
  <2>2. CASE i # j
    BY <1>1, <2>2 DEF CompleteRun, TypeOK, Claimable
  <2> QED
    BY <2>1, <2>2
<1>12. ClientsOnlyPause'
  BY SameClients DEF CompleteRun
<1> QED
  BY <1>5, <1>8, <1>11, <1>12, NothingNew

LEMMA RunEndsLease ==
  ASSUME TypeOK, LeaseInv, NEW w \in Worker,
         \/ CompleteSuccess(w) \/ CompleteFailure(w) \/ CompleteRefused(w)
         \/ AbandonJob(w) \/ PruneRunHistory(w) \/ CrashWorker(w)
  PROVE  LeaseInv'
<1>1. CASE CompleteSuccess(w)
  <2>1. "success" \in RunStatus \ {"running"}
    BY DEF RunStatus
  <2> QED
    BY <1>1, <2>1, CompletionLease DEF CompleteSuccess
<1>2. CASE CompleteFailure(w)
  <2>1. "error" \in RunStatus \ {"running"}
    BY DEF RunStatus
  <2> QED
    BY <1>2, <2>1, CompletionLease DEF CompleteFailure
<1>3. CASE CompleteRefused(w) \/ AbandonJob(w)
  <2>1. DropJob(w) /\ UNCHANGED <<runs, lastRun, clients, jobs>>
    BY <1>3 DEF CompleteRefused, AbandonJob
  <2> QED
    BY <2>1, DropJobShrinks, SameRuns, SameClients, SameJobs, NothingNew
<1>4. CASE PruneRunHistory(w)
  <2>1. DropJob(w) /\ UNCHANGED <<lastRun, clients, jobs>>
    BY <1>4 DEF PruneRunHistory
  <2>2. runs' = runs \/ \E old : runs' = WithoutRuns(old)
    BY <1>4 DEF PruneRunHistory
  <2>3. RunsShrink
    BY <2>1, <2>2 DEF RunsShrink, WithoutRuns
  <2> QED
    BY <2>1, <2>3, DropJobShrinks, SameClients, SameJobs, NothingNew
<1>5. CASE CrashWorker(w)
  <2>1. IdleWorker \in WorkerState
    BY IdleTypes
  <2>2. /\ IdleWorker.pc = "idle" /\ IdleWorker.job = Null
        /\ IdleWorker.due \subseteq workers[w].due
    BY DEF IdleWorker
  <2>3. /\ workers' = [workers EXCEPT ![w] = IdleWorker]
        /\ UNCHANGED <<runs, lastRun, clients, jobs>>
    BY <1>5 DEF CrashWorker
  <2>4. WorkersShrink
    BY <2>1, <2>2, <2>3, DropShrinks
  <2> QED
    BY <2>3, <2>4, SameRuns, SameClients, SameJobs, NothingNew
<1> QED
  BY <1>1, <1>2, <1>3, <1>4, <1>5

\* The handlers: inserting, deleting and pausing leave nothing claimable that was
\* not claimable before.
LEMMA ClientLease ==
  ASSUME LeaseSafe, TypeOK, LeaseInv, NEW c \in Client, ClientStep(c)
  PROVE  LeaseInv'
<1>1. \A j \in Job : ~ Patch(c, j) /\ ~ RunNow(c, j) /\ ~ Resume(c, j)
  BY DEF LeaseSafe, Patch, RunNow, Resume, ReadForUpdate
<1>2. ~ ResumeRead(c) /\ ~ RearmRead(c)
  BY DEF LeaseInv, ClientsOnlyPause, ResumeRead, RearmRead
<1>3. ASSUME NEW j \in Job, CreateJob(c, j) \/ ImportNew(c, j) PROVE LeaseInv'
  <2>1. jobs[j].status = "absent" /\ UNCHANGED <<runs, lastRun, clients, workers>>
    BY <1>3 DEF CreateJob, ImportNew
  <2>2. \A i \in Job \ {j} : jobs'[i] = jobs[i]
    BY <1>3 DEF CreateJob, ImportNew, TypeOK
  <2>3. \A i \in Job : Claimable(i)' => Claimable(i)
    <3>1. Claimable(j)
      BY <2>1 DEF Claimable
    <3>2. \A i \in Job \ {j} : Claimable(i)' => Claimable(i)
      BY <2>2 DEF Claimable
    <3> QED
      BY <3>1, <3>2
  <2> QED
    BY <2>1, <2>3, SameRuns, SameWorkers, SameClients, NothingNew
<1>4. ASSUME NEW j \in Job, DeleteJob(c, j) PROVE LeaseInv'
  <2>1. UNCHANGED <<lastRun, clients, workers>> /\ runs' = WithoutRuns(RunsOf(j))
    BY <1>4 DEF DeleteJob
  <2>2. \A i \in Job : Claimable(i)' => Claimable(i)
    <3>1. NoRow("deleted").status = "deleted"
      BY DEF NoRow
    <3>2. \A i \in Job : jobs'[i] = IF i = j THEN NoRow("deleted") ELSE jobs[i]
      BY <1>4 DEF DeleteJob, TypeOK
    <3> QED
      BY <3>1, <3>2 DEF Claimable
  <2>3. RunsShrink
    BY <2>1 DEF RunsShrink, WithoutRuns
  <2> QED
    BY <2>1, <2>2, <2>3, SameWorkers, SameClients, NothingNew
<1>5. ASSUME NEW j \in Job, Pause(c, j) \/ Import(c, j) PROVE LeaseInv'
  <2>1. UNCHANGED <<runs, lastRun, jobs, workers>>
    BY <1>5 DEF Pause, Import, ReadForUpdate
  <2>2. PICK op \in {"pause", "import"}, row \in {r \in JobRow : r.status = "paused"} :
          clients' = [clients EXCEPT ![c] =
            [IdleClient EXCEPT !.pc = "write", !.op = op, !.job = j, !.row = row]]
    <3>1. \A row \in JobRow :
            /\ [row EXCEPT !.status = "paused"].status = "paused"
            /\ [row EXCEPT !.status = "paused"] \in JobRow
            /\ [row EXCEPT !.enabled = FALSE, !.status = "paused"].status = "paused"
            /\ [row EXCEPT !.enabled = FALSE, !.status = "paused"] \in JobRow
      BY DEF JobRow, JobStatus
    <3>2. jobs[j] \in JobRow
      BY DEF TypeOK
    <3> QED
      BY <1>5, <3>1, <3>2 DEF Pause, Import, ReadForUpdate
  <2>3. ClientsOnlyPause'
    BY <2>2 DEF LeaseInv, ClientsOnlyPause, TypeOK, IdleClient
  <2> QED
    BY <2>1, <2>3, SameRuns, SameWorkers, SameJobs, NothingNew
<1>6. CASE UpdateWrite(c)
  <2>1. UNCHANGED <<runs, lastRun, workers>>
    BY <1>6 DEF UpdateWrite
  <2>2. clients[c].row.status = "paused" /\ clients[c].row \in JobRow
    BY <1>6 DEF LeaseInv, ClientsOnlyPause, UpdateWrite, TypeOK, ClientState
  <2>3. ClientsOnlyPause'
    BY <1>6, <2>2 DEF LeaseInv, ClientsOnlyPause, UpdateWrite, NeedsRearm, TypeOK, IdleClient
  <2>4. \A i \in Job : Claimable(i)' => Claimable(i)
    <3>1. \A old : KeepSummary(clients[c].row, old).status = "paused"
      BY <2>2 DEF KeepSummary, JobRow
    <3> QED
      BY <1>6, <3>1 DEF UpdateWrite, Claimable, TypeOK
  <2> QED
    BY <2>1, <2>3, <2>4, SameRuns, SameWorkers, NothingNew
<1>7. CASE CrashClient(c)
  <2>1. UNCHANGED <<runs, lastRun, jobs, workers>>
    BY <1>7 DEF CrashClient
  <2>2. ClientsOnlyPause'
    BY <1>7 DEF LeaseInv, ClientsOnlyPause, CrashClient, TypeOK, IdleClient
  <2> QED
    BY <2>1, <2>2, SameRuns, SameWorkers, SameJobs, NothingNew
<1> QED
  BY <1>1, <1>2, <1>3, <1>4, <1>5, <1>6, <1>7 DEF ClientStep, NewRequest, ContinueRequest

LEMMA LeaseInit == Init => LeaseInv
<1> SUFFICES ASSUME Init PROVE LeaseInv
  OBVIOUS
<1>1. /\ \A w \in Worker : workers[w].pc = "idle" /\ workers[w].job = Null /\ workers[w].due = {}
      /\ \A c \in Client : clients[c].pc = "idle" /\ clients[c].op = "none"
      /\ \A j : Running(j) = {}
  BY DEF Init, IdleWorker, IdleClient, Running, RunsOf
<1>2. \A w \in Worker, j \in Job : ~ Holds(w, j)
  BY <1>1, InputAssumption DEF Holds
<1> QED
  BY <1>1, <1>2 DEF LeaseInv, WorkersInStep, DueDistinct, HeldOnce, RunningOnce, RunningIsHolders,
     RunsMatch, InRun, ClaimableIsFree, Free, ClientsOnlyPause

LEMMA LeaseStep ==
  ASSUME LeaseSafe, TypeOK, LeaseInv, [Next]_vars
  PROVE  LeaseInv'
<1>1. CASE UNCHANGED vars \/ Tick
  <2>1. UNCHANGED <<runs, lastRun, clients, jobs, workers>>
    BY <1>1 DEF vars, Tick
  <2> QED
    BY <2>1, SameRuns, SameWorkers, SameClients, SameJobs, NothingNew
<1>2. ASSUME NEW w \in Worker, WorkerStep(w) PROVE LeaseInv'
  BY <1>2, CleanupLease, PickupLease, ExecuteLease, EnsureRoomLease, StartRunLease,
     MessageLease, RunEndsLease DEF WorkerStep
<1>3. ASSUME NEW c \in Client, ClientStep(c) PROVE LeaseInv'
  BY <1>3, ClientLease
<1> QED
  BY <1>1, <1>2, <1>3 DEF Next

\* However many workers poll, crash and miss their deadlines, a job is leased to
\* one worker at a time and has one run in progress, while the requests that
\* are made pause, create, import or delete jobs.
THEOREM LeaseIsExclusive == LeaseSafe /\ Spec => []LeaseExclusive
<1>1. Init => TypeOK /\ LeaseInv
  BY InitTypeOK, LeaseInit
<1>2. LeaseSafe /\ TypeOK /\ LeaseInv /\ [Next]_vars => TypeOK' /\ LeaseInv'
  BY NextTypeOK, LeaseStep
<1>3. LeaseInv => LeaseExclusive
  BY DEF LeaseInv, HeldOnce, RunningOnce, LeaseExclusive
<1>4. CASE LeaseSafe
  <2>1. TypeOK /\ LeaseInv /\ [Next]_vars => TypeOK' /\ LeaseInv'
    BY <1>2, <1>4
  <2>2. Spec => []LeaseExclusive
    BY <1>1, <1>3, <2>1, PTL DEF Spec
  <2> QED
    BY <2>2
<1> QED
  BY <1>4

-----------------------------------------------------------------------------
(* The run counters *)

\* No two workers are in the same run.
RunsApart ==
    \A v, w \in Worker : InRun(v) /\ InRun(w) /\ workers[v].run = workers[w].run => v = w

\* The foreign key of agent_job_runs.
RunsHaveJobs == \A r \in DOMAIN runs : Exists(runs[r].job)

\* Runs are pruned only of jobs that were created.
NothingPrunedBefore == \A j \in Job : jobs[j].status = "absent" => pruned[j] = 0

\* An update writes the row of a job that existed when it was read.
WritesExistingRows == \A c \in Client : clients[c].pc = "write" => clients[c].row.status \in JobStatus

\* A worker that is between two jobs or two polls has no current job, and
\* between two polls no leased ones.
WorkersRest ==
    \A w \in Worker :
        /\ ~ Executing(w) => workers[w].job = Null
        /\ workers[w].pc \in {"idle", "pickup"} => workers[w].due = {}

\* What holds of runs, rows and local states whatever the requests do.
Bookkeeping ==
    /\ RunsMatch /\ RunsApart /\ RunsHaveJobs
    /\ NothingPrunedBefore /\ WritesExistingRows /\ WorkersRest

\* A step after which a worker is in a run only if it was in it before.
RunsGoOn ==
    \A v \in Worker : InRun(v)' =>
        /\ InRun(v)
        /\ workers'[v].job = workers[v].job /\ workers'[v].run = workers[v].run
        /\ workers'[v].at = workers[v].at

\* The steps of a worker other than StartRun: those that leave the runs alone,
\* and the others.
QuietStep(w) ==
    \/ PickupDue(w) \/ ExecuteJob(w) \/ EnsureRoomForJob(w) \/ CreateJobMessage(w)
    \/ CreateJobMessageFails(w) \/ CompleteRefused(w) \/ AbandonJob(w) \/ CrashWorker(w)

\* A worker other than w takes no part in a step of w.
OtherStep(w) ==
    \/ QuietStep(w) \/ CleanupStaleRuns(w) \/ StartRunUnacknowledged(w)
    \/ CompleteSuccess(w) \/ CompleteFailure(w) \/ PruneRunHistory(w)

LEMMA RunsGoOnMatch ==
  ASSUME RunsMatch, RunsApart, RunsGoOn, lastRun' = lastRun,
         \A r \in DOMAIN runs' : r \in DOMAIN runs /\ runs'[r].job = runs[r].job
  PROVE  RunsMatch' /\ RunsApart'
  BY DEF RunsMatch, RunsApart, RunsGoOn

\* A worker that drops its job is in no run.
LEMMA DropRests ==
  ASSUME TypeOK, WorkersRest, NEW w \in Worker, DropJob(w)
  PROVE  RunsGoOn /\ WorkersRest'
<1>1. workers' = [workers EXCEPT ![w] = Released(w)]
  BY DEF DropJob
<1>2. /\ Released(w).pc \in {"idle", "exec"} /\ Released(w).job = Null
      /\ Released(w).pc = "idle" => Released(w).due = {}
  BY DEF Released, IdleWorker
<1>3. \A v \in Worker : workers'[v] = IF v = w THEN Released(w) ELSE workers[v]
  BY <1>1 DEF TypeOK
<1> QED
  BY <1>2, <1>3 DEF RunsGoOn, InRun, WorkersRest, Executing

\* Inserting a run for worker w (which then is in it, or has dropped its job).
LEMMA InsertBooks ==
  ASSUME TypeOK, Bookkeeping, NEW w \in Worker, StartRun(w) \/ StartRunUnacknowledged(w)
  PROVE  RunsMatch' /\ RunsApart' /\ RunsHaveJobs' /\ WorkersRest'
<1> DEFINE new == lastRun + 1
<1>1. /\ InsertRun(workers[w].job, workers[w].at) /\ Exists(workers[w].job)
      /\ jobs' = jobs /\ workers[w].pc = "start"
  BY DEF StartRun, StartRunUnacknowledged
<1>2. /\ lastRun' = new /\ new \notin DOMAIN runs /\ lastRun \in Nat
      /\ DOMAIN runs' = DOMAIN runs \cup {new}
      /\ runs'[new].job = workers[w].job
      /\ \A r \in DOMAIN runs : runs'[r] = runs[r]
  BY <1>1 DEF InsertRun, TypeOK
<1>3. RunsHaveJobs'
  BY <1>1, <1>2 DEF Bookkeeping, RunsHaveJobs, Exists
<1>4. CASE StartRun(w)
  <2>1. \A v \in Worker : v # w => workers'[v] = workers[v]
    BY <1>4 DEF StartRun, TypeOK
  <2>2. /\ workers'[w].run = new /\ workers'[w].job = workers[w].job
        /\ workers'[w].pc \in {"send", "fail"} /\ workers'[w].due = workers[w].due
    BY <1>4 DEF StartRun, TypeOK, WorkerState
  <2>3. \A v \in Worker \ {w} : InRun(v) => workers[v].run < new
    BY <1>2 DEF Bookkeeping, RunsMatch, TypeOK, WorkerState
  <2>4. RunsMatch'
    <3> SUFFICES ASSUME NEW v \in Worker, InRun(v)'
                 PROVE  /\ workers'[v].run <= lastRun'
                        /\ workers'[v].run \in DOMAIN runs' => runs'[workers'[v].run].job = workers'[v].job
      BY DEF RunsMatch
    <3>1. CASE v = w
      BY <1>2, <2>2, <3>1
    <3>2. CASE v # w
      BY <1>2, <2>1, <2>3, <3>2 DEF Bookkeeping, RunsMatch, InRun, TypeOK, WorkerState
    <3> QED
      BY <3>1, <3>2
  <2>5. RunsApart'
    <3>1. \A v \in Worker : v # w /\ InRun(v)' => InRun(v) /\ workers'[v].run < new
      BY <2>1, <2>3 DEF InRun
    <3> QED
      BY <1>2, <2>1, <2>2, <3>1 DEF Bookkeeping, RunsApart, InRun
  <2>6. WorkersRest'
    BY <2>1, <2>2 DEF Bookkeeping, WorkersRest, Executing
  <2> QED
    BY <1>3, <2>4, <2>5, <2>6
<1>5. CASE StartRunUnacknowledged(w)
  <2>1. RunsGoOn /\ WorkersRest'
    BY <1>5, DropRests DEF StartRunUnacknowledged, Bookkeeping
  <2>2. RunsMatch' /\ RunsApart'
    BY <1>2, <2>1 DEF Bookkeeping, RunsMatch, RunsApart, RunsGoOn, TypeOK, WorkerState
  <2> QED
    BY <1>3, <2>1, <2>2
<1> QED
  BY <1>4, <1>5

\* A step of the clients or of time: the workers and the runs stay as they are.
LEMMA SameWorkersRest ==
  ASSUME Bookkeeping, UNCHANGED workers
  PROVE  RunsGoOn /\ WorkersRest'
  BY DEF Bookkeeping, RunsGoOn, InRun, WorkersRest, Executing

LEMMA SameRunsBooks ==
  ASSUME Bookkeeping, RunsGoOn, WorkersRest', UNCHANGED <<runs, lastRun, pruned>>,
         WritesExistingRows',
         \A j \in Job : (Exists(j) => Exists(j)') /\ (jobs'[j].status = "absent" => jobs[j].status = "absent"),
         TypeOK
  PROVE  Bookkeeping'
<1>1. RunsMatch' /\ RunsApart'
  BY RunsGoOnMatch DEF Bookkeeping
<1>2. RunsHaveJobs'
  BY DEF Bookkeeping, RunsHaveJobs, TypeOK, RunRow
<1>3. NothingPrunedBefore'
  BY DEF Bookkeeping, NothingPrunedBefore
<1> QED
  BY <1>1, <1>2, <1>3 DEF Bookkeeping

\* A poll leaves its worker idle, or with the rows it leased.
LEMMA PickedState ==
  ASSUME NEW w \in Worker, NEW unlocked, PickupFrom(w, unlocked)
  PROVE  \E due : workers' = [workers EXCEPT ![w] =
                                 IF due = {} THEN IdleWorker
                                 ELSE [IdleWorker EXCEPT !.pc = "exec", !.due = due]]
<1>1. PICK picked \in SUBSET unlocked :
        workers' = [workers EXCEPT ![w] =
                      IF picked = {} THEN IdleWorker
                      ELSE [IdleWorker EXCEPT !.pc = "exec",
                              !.due = {[id |-> j, row |-> Leased(jobs[j])] : j \in picked}]]
  BY DEF PickupFrom
<1> DEFINE due == {[id |-> j, row |-> Leased(jobs[j])] : j \in picked}
<1>2. picked = {} <=> due = {}
  OBVIOUS
<1> QED
  BY <1>1, <1>2

\* No step but StartRun puts a worker into a run.
LEMMA WorkerGoesOn ==
  ASSUME TypeOK, WorkersRest, NEW w \in Worker, OtherStep(w)
  PROVE  RunsGoOn /\ WorkersRest'
<1>0. workers[w] \in WorkerState
  BY DEF TypeOK
<1>1. CASE PickupDue(w)
  <2>0. PICK due : workers' = [workers EXCEPT ![w] =
                                 IF due = {} THEN IdleWorker
                                 ELSE [IdleWorker EXCEPT !.pc = "exec", !.due = due]]
    BY <1>1, PickedState DEF PickupDue
  <2> DEFINE next == IF due = {} THEN IdleWorker
                     ELSE [IdleWorker EXCEPT !.pc = "exec", !.due = due]
  <2>1. /\ workers' = [workers EXCEPT ![w] = next]
        /\ next.pc \in {"idle", "exec"} /\ next.job = Null
        /\ next.pc = "idle" => next.due = {}
    BY <2>0 DEF IdleWorker
  <2> HIDE DEF next
  <2>2. \A v \in Worker : workers'[v] = IF v = w THEN next ELSE workers[v]
    BY <2>1 DEF TypeOK
  <2> QED
    BY <2>1, <2>2 DEF RunsGoOn, InRun, WorkersRest, Executing
<1>2. CASE CompleteRefused(w) \/ AbandonJob(w) \/ StartRunUnacknowledged(w) \/ PruneRunHistory(w)
  BY <1>2, DropRests DEF CompleteRefused, AbandonJob, StartRunUnacknowledged, PruneRunHistory
<1>3. CASE CrashWorker(w)
  BY <1>3 DEF CrashWorker, IdleWorker, TypeOK, RunsGoOn, InRun, WorkersRest, Executing
<1>4. CASE ExecuteJob(w)
  <2>0. PICK item \in workers[w].due :
          workers' = [workers EXCEPT ![w] =
            [pc |-> IF item.row.room = Null THEN "ensure" ELSE "start",
             due |-> workers[w].due \ {item}, job |-> item.id, row |-> item.row,
             at |-> Clock(w), run |-> 0]]
    BY <1>4 DEF ExecuteJob
  <2> DEFINE next == [pc |-> IF item.row.room = Null THEN "ensure" ELSE "start",
                      due |-> workers[w].due \ {item}, job |-> item.id, row |-> item.row,
                      at |-> Clock(w), run |-> 0]
  <2>1. workers' = [workers EXCEPT ![w] = next] /\ next.pc \in {"ensure", "start"}
    BY <2>0
  <2> HIDE DEF next
  <2>2. \A v \in Worker : workers'[v] = IF v = w THEN next ELSE workers[v]
    BY <2>1 DEF TypeOK
  <2> QED
    BY <2>1, <2>2 DEF RunsGoOn, InRun, WorkersRest, Executing
<1>5. CASE \/ EnsureRoomForJob(w) \/ CreateJobMessage(w) \/ CreateJobMessageFails(w)
           \/ CompleteSuccess(w) \/ CompleteFailure(w)
  <2>1. PICK pc : /\ workers' = [workers EXCEPT ![w].pc = pc]
                  /\ \/ workers[w].pc = "ensure" /\ pc = "start"
                     \/ workers[w].pc = "send" /\ pc \in {"complete", "fail"}
                     \/ workers[w].pc \in {"complete", "fail"} /\ pc = "prune"
    BY <1>5 DEF EnsureRoomForJob, CreateJobMessage, CreateJobMessageFails, CompleteSuccess, CompleteFailure,
       CompleteRun
  <2>2. /\ \A v \in Worker : v # w => workers'[v] = workers[v]
        /\ workers'[w].pc = pc /\ workers'[w].job = workers[w].job
        /\ workers'[w].run = workers[w].run /\ workers'[w].at = workers[w].at
    BY <1>0, <2>1 DEF TypeOK, WorkerState
  <2> QED
    BY <2>1, <2>2 DEF RunsGoOn, InRun, WorkersRest, Executing
<1>6. CASE CleanupStaleRuns(w)
  <2>1. /\ \A v \in Worker : v # w => workers'[v] = workers[v]
        /\ workers[w].pc = "idle" /\ workers'[w].pc = "pickup"
        /\ workers'[w].due = workers[w].due /\ workers'[w].job = workers[w].job
    BY <1>0, <1>6 DEF CleanupStaleRuns, TypeOK, WorkerState
  <2> QED
    BY <2>1 DEF RunsGoOn, InRun, WorkersRest, Executing
<1> QED
  BY <1>1, <1>2, <1>3, <1>4, <1>5, <1>6 DEF OtherStep, QuietStep

\* The steps of a worker that do not touch the runs.
LEMMA QuietBooks ==
  ASSUME TypeOK, Bookkeeping, NEW w \in Worker, QuietStep(w)
  PROVE  Bookkeeping'
<1>1. UNCHANGED <<runs, lastRun, pruned, clients>>
  BY DEF QuietStep, PickupDue, PickupFrom, ExecuteJob, EnsureRoomForJob, CreateJobMessage, CreateJobMessageFails,
     CompleteRefused, AbandonJob, CrashWorker
<1>2. WritesExistingRows'
  BY <1>1 DEF Bookkeeping, WritesExistingRows
<1>3. \A j \in Job : jobs'[j].status = jobs[j].status
  <2>1. CASE PickupDue(w)
    <3>1. \A row \in JobRow : Leased(row).status = row.status
      BY DEF Leased, JobRow
    <3>2. \A j \in Job : jobs[j] \in JobRow /\ jobs'[j] \in {jobs[j], Leased(jobs[j])}
      BY <2>1 DEF PickupDue, PickupFrom, TypeOK
    <3> QED
      BY <3>1, <3>2
  <2>2. CASE EnsureRoomForJob(w)
    BY <2>2 DEF EnsureRoomForJob, TypeOK, JobRow
  <2> QED
    BY <2>1, <2>2 DEF QuietStep, ExecuteJob, CreateJobMessage, CreateJobMessageFails, CompleteRefused, AbandonJob,
       CrashWorker
<1>4. RunsGoOn /\ WorkersRest'
  BY WorkerGoesOn DEF OtherStep, Bookkeeping
<1> QED
  BY <1>1, <1>2, <1>3, <1>4, SameRunsBooks DEF Exists

\* Whatever becomes of the status of an existing row, it stays one.
LEMMA SummaryStatus ==
  ASSUME NEW row \in JobRow, row.status \in JobStatus, NEW n \in Nat
  PROVE  /\ ChargeFailures(row, n).status \in JobStatus
         /\ \A done \in BOOLEAN : CreditSuccess(row, done).status \in JobStatus
  BY DEF ChargeFailures, CreditSuccess, JobRow, JobStatus

\* A run that a worker has started and that is still there has an existing job.
LEMMA HeldRunExists ==
  ASSUME TypeOK, Bookkeeping, NEW w \in Worker, InRun(w), workers[w].run \in DOMAIN runs
  PROVE  /\ workers[w].job \in Job /\ Exists(workers[w].job)
         /\ runs[workers[w].run].job = workers[w].job
  BY DEF TypeOK, Bookkeeping, RunsMatch, RunsHaveJobs, InRun, Executing

\* The job row that the completion of a run writes.
ChargedWith(w, row, next) ==
    /\ row = ChargeFailures(jobs[workers[w].job], 1)
    /\ next = ComputeFailureNextRun(workers[w].row, Clock(w))
    /\ workers[w].pc = "fail"

\* The completion of a run that succeeded.
CreditedWith(w, row, next) ==
    /\ next = ComputeNextRun(workers[w].row, workers[w].at, workers[w].at)
    /\ row = CreditSuccess(jobs[workers[w].job], workers[w].row.kind = "once" /\ next = Null)
    /\ workers[w].pc = "complete"

\* The completion of a run, either way.
CompletedWith(w, row, next) ==
    /\ jobs' = [jobs EXCEPT ![workers[w].job] = [row EXCEPT !.next = next]]
    /\ ChargedWith(w, row, next) \/ CreditedWith(w, row, next)

\* The row of agent_job_runs when the run of worker w is completed.
CompletedRun(w) ==
    /\ workers[w].pc \in {"complete", "fail"} /\ InRun(w) /\ ~ Expired(w)
    /\ workers[w].job \in Job /\ Exists(workers[w].job)
    /\ StillRunning(workers[w].run) /\ runs[workers[w].run].job = workers[w].job
    /\ \E status \in {"success", "error"} : runs' = [runs EXCEPT ![workers[w].run].status = status]
    /\ workers' = [workers EXCEPT ![w].pc = "prune"]
    /\ UNCHANGED <<now, lastRun, rooms, messages, clients, budget, pruned>>

LEMMA CompletedRow ==
  ASSUME TypeOK, Bookkeeping, NEW w \in Worker, CompleteSuccess(w) \/ CompleteFailure(w)
  PROVE  CompletedRun(w) /\ \E row \in JobRow, next \in TimeOrNull : CompletedWith(w, row, next)
<1> DEFINE r == workers[w].run
           j == workers[w].job
           row == workers[w].row
<1>1. /\ workers[w].pc \in {"complete", "fail"} /\ InRun(w) /\ ~ Expired(w) /\ StillRunning(r)
      /\ workers' = [workers EXCEPT ![w].pc = "prune"]
      /\ UNCHANGED <<now, lastRun, rooms, messages, clients, budget, pruned>>
  BY DEF CompleteSuccess, CompleteFailure, CompleteRun, InRun
<1>2. j \in Job /\ Exists(j) /\ runs[r].job = j
  BY <1>1, HeldRunExists DEF StillRunning
<1>3. jobs[j] \in JobRow /\ row \in JobRow /\ workers[w].at \in Nat /\ Clock(w) \in Nat
  BY <1>2, ClockType DEF TypeOK, WorkerState
<1>4. CASE CompleteSuccess(w)
  <2> DEFINE next == ComputeNextRun(row, workers[w].at, workers[w].at)
             done == row.kind = "once" /\ next = Null
             credited == CreditSuccess(jobs[j], done)
  <2>1. /\ runs' = [runs EXCEPT ![r].status = "success"]
        /\ jobs' = [jobs EXCEPT ![j] = [credited EXCEPT !.next = next]]
        /\ workers[w].pc = "complete"
    BY <1>4 DEF CompleteSuccess, CompleteRun, LockedRow
  <2>2. next \in TimeOrNull
    BY <1>3, ComputeNextRunType DEF TimeOrNull
  <2>3. credited \in JobRow
    BY <1>3, CreditSuccessType
  <2>4. CompletedWith(w, credited, next)
    BY <2>1 DEF CompletedWith, CreditedWith
  <2> HIDE DEF next, credited
  <2> QED
    BY <1>1, <1>2, <2>1, <2>2, <2>3, <2>4 DEF CompletedRun
<1>5. CASE CompleteFailure(w)
  <2> DEFINE next == ComputeFailureNextRun(row, Clock(w))
             charged == ChargeFailures(jobs[j], 1)
  <2>1. /\ runs' = [runs EXCEPT ![r].status = "error"]
        /\ jobs' = [jobs EXCEPT ![j] = [charged EXCEPT !.next = next]]
        /\ workers[w].pc = "fail"
    BY <1>5 DEF CompleteFailure, CompleteRun, LockedRow
  <2>2. next \in TimeOrNull
    BY <1>3, ComputeFailureNextRunType
  <2>3. charged \in JobRow
    BY <1>3, ChargeFailuresType
  <2>4. CompletedWith(w, charged, next)
    BY <2>1 DEF CompletedWith, ChargedWith
  <2> HIDE DEF next, charged
  <2> QED
    BY <1>1, <1>2, <2>1, <2>2, <2>3, <2>4 DEF CompletedRun
<1> QED
  BY <1>4, <1>5

LEMMA CompletionBooks ==
  ASSUME TypeOK, Bookkeeping, NEW w \in Worker, CompleteSuccess(w) \/ CompleteFailure(w)
  PROVE  Bookkeeping'
<1> DEFINE r == workers[w].run
           j == workers[w].job
<1>1. /\ workers[w].pc \in {"complete", "fail"} /\ r \in DOMAIN runs /\ j \in Job /\ Exists(j)
      /\ workers' = [workers EXCEPT ![w].pc = "prune"]
      /\ UNCHANGED <<lastRun, pruned, clients>>
  BY CompletedRow DEF StillRunning, CompletedRun
<1>2. PICK status : runs' = [runs EXCEPT ![r].status = status]
  BY CompletedRow DEF CompletedRun
<1>3. PICK row \in JobRow, next \in TimeOrNull : CompletedWith(w, row, next)
  BY CompletedRow
<1>4. row.status \in JobStatus
  <2>1. jobs[j] \in JobRow /\ jobs[j].status \in JobStatus
    BY <1>1 DEF Exists, TypeOK
  <2>2. (workers[w].row.kind = "once" /\ next = Null) \in BOOLEAN
    OBVIOUS
  <2> QED
    BY <1>3, <2>1, <2>2, SummaryStatus DEF CompletedWith, ChargedWith, CreditedWith
<1>5. \A i \in Job : jobs'[i].status = IF i = j THEN row.status ELSE jobs[i].status
  BY <1>1, <1>3 DEF CompletedWith, TypeOK, JobRow
<1>6. \A q \in DOMAIN runs' : q \in DOMAIN runs /\ runs'[q].job = runs[q].job
  BY <1>1, <1>2 DEF TypeOK, RunRow
<1>7. RunsGoOn /\ WorkersRest'
  BY WorkerGoesOn DEF OtherStep, Bookkeeping
<1>8. RunsMatch' /\ RunsApart'
  BY <1>1, <1>6, <1>7, RunsGoOnMatch DEF Bookkeeping
<1>9. RunsHaveJobs'
  BY <1>4, <1>5, <1>6 DEF Bookkeeping, RunsHaveJobs, Exists, TypeOK, RunRow
<1>10. NothingPrunedBefore' /\ WritesExistingRows'
  BY <1>1, <1>4, <1>5 DEF Bookkeeping, NothingPrunedBefore, WritesExistingRows, JobStatus
<1> QED
  BY <1>7, <1>8, <1>9, <1>10 DEF Bookkeeping

\* A run is a run of a job.
LEMMA RunJobs == TypeOK => \A r \in DOMAIN runs : runs[r].job \in Job
  BY DEF TypeOK, RunRow

LEMMA CleanupBooks ==
  ASSUME TypeOK, Bookkeeping, NEW w \in Worker, CleanupStaleRuns(w)
  PROVE  Bookkeeping'
<1>1. PICK stale \in SUBSET Stale(Clock(w)) :
        /\ runs' = [r \in DOMAIN runs |->
                      IF r \in stale THEN [runs[r] EXCEPT !.status = "timeout"] ELSE runs[r]]
        /\ jobs' = [j \in Job |->
                      IF {r \in stale : runs[r].job = j} = {} THEN jobs[j]
                      ELSE ChargeFailures(jobs[j], Cardinality({r \in stale : runs[r].job = j}))]
  BY DEF CleanupStaleRuns
<1>2. UNCHANGED <<lastRun, pruned, clients>>
  BY DEF CleanupStaleRuns
<1>3. \A j \in Job : jobs'[j].status \in {jobs[j].status, "paused"}
                   /\ (jobs'[j].status # jobs[j].status => Exists(j))
  <2> SUFFICES ASSUME NEW j \in Job
               PROVE  jobs'[j].status \in {jobs[j].status, "paused"}
                      /\ (jobs'[j].status # jobs[j].status => Exists(j))
    OBVIOUS
  <2> DEFINE mine == {r \in stale : runs[r].job = j}
  <2>1. CASE mine = {}
    BY <1>1, <2>1
  <2>2. CASE mine # {}
    <3>1. Exists(j)
      BY <2>2 DEF Bookkeeping, RunsHaveJobs, Stale
    <3>2. \A n : ChargeFailures(jobs[j], n).status \in {jobs[j].status, "paused"}
      BY DEF ChargeFailures, TypeOK, JobRow
    <3> QED
      BY <1>1, <3>1, <3>2
  <2> QED
    BY <2>1, <2>2
<1>4. \A q \in DOMAIN runs' : q \in DOMAIN runs /\ runs'[q].job = runs[q].job
  BY <1>1 DEF TypeOK, RunRow
<1>5. RunsGoOn /\ WorkersRest'
  BY WorkerGoesOn DEF OtherStep, Bookkeeping
<1>6. RunsMatch' /\ RunsApart'
  BY <1>2, <1>4, <1>5, RunsGoOnMatch DEF Bookkeeping
<1>7. RunsHaveJobs'
  BY <1>3, <1>4 DEF Bookkeeping, RunsHaveJobs, Exists, TypeOK, RunRow, JobStatus
<1>8. NothingPrunedBefore' /\ WritesExistingRows'
  BY <1>2, <1>3 DEF Bookkeeping, NothingPrunedBefore, WritesExistingRows
<1> QED
  BY <1>5, <1>6, <1>7, <1>8 DEF Bookkeeping

\* Deleting runs keeps the rest.
LEMMA PruneBooks ==
  ASSUME TypeOK, Bookkeeping, NEW w \in Worker, PruneRunHistory(w)
  PROVE  Bookkeeping'
<1>1. RunsGoOn /\ WorkersRest'
  BY DropRests DEF PruneRunHistory, Bookkeeping
<1>2. UNCHANGED <<jobs, lastRun, clients>>
  BY DEF PruneRunHistory
<1>3. \A q \in DOMAIN runs' : q \in DOMAIN runs /\ runs'[q] = runs[q]
  BY DEF PruneRunHistory, WithoutRuns
<1>4. RunsMatch' /\ RunsApart'
  BY <1>1, <1>2, <1>3, RunsGoOnMatch DEF Bookkeeping
<1>5. RunsHaveJobs'
  BY <1>2, <1>3 DEF Bookkeeping, RunsHaveJobs, Exists
<1>6. NothingPrunedBefore'
  <2>1. workers[w].job \in Job
    BY DEF PruneRunHistory, TypeOK, Executing
  <2>2. CASE pruned' = pruned
    BY <1>2, <2>2 DEF Bookkeeping, NothingPrunedBefore
  <2>3. CASE pruned' # pruned
    <3>1. PICK old \in SUBSET RunsOf(workers[w].job) :
            pruned' = [pruned EXCEPT ![workers[w].job] = @ + Cardinality(old \cap Finished(workers[w].job))]
      BY <2>3 DEF PruneRunHistory
    <3>2. CASE old = {}
      <4>1. Cardinality(old \cap Finished(workers[w].job)) = 0
        BY <3>2, FS_EmptySet
      <4>2. \A j \in Job : pruned'[j] = pruned[j]
        BY <2>1, <3>1, <4>1 DEF TypeOK
      <4> QED
        BY <1>2, <4>2 DEF Bookkeeping, NothingPrunedBefore
    <3>3. CASE old # {}
      <4>1. Exists(workers[w].job)
        BY <3>3 DEF Bookkeeping, RunsHaveJobs, RunsOf
      <4>2. \A j \in Job : j # workers[w].job => pruned'[j] = pruned[j]
        BY <3>1 DEF TypeOK
      <4> QED
        BY <1>2, <4>1, <4>2 DEF Bookkeeping, NothingPrunedBefore, Exists, JobStatus
    <3> QED
      BY <3>2, <3>3
  <2> QED
    BY <2>2, <2>3
<1>7. WritesExistingRows'
  BY <1>2 DEF Bookkeeping, WritesExistingRows
<1> QED
  BY <1>1, <1>4, <1>5, <1>6, <1>7 DEF Bookkeeping

LEMMA ClientBooks ==
  ASSUME TypeOK, Bookkeeping, NEW c \in Client, ClientStep(c)
  PROVE  Bookkeeping'
<1>0. UNCHANGED <<workers, lastRun>>
  BY DEF ClientStep, NewRequest, ContinueRequest, CreateJob, DeleteJob, Patch, RunNow, Pause, Import,
     ImportNew, ReadForUpdate, Resume, ResumeRead, UpdateWrite, RearmRead, CrashClient
<1>1. RunsGoOn /\ WorkersRest'
  BY <1>0, SameWorkersRest
<1>2. ASSUME NEW j \in Job, DeleteJob(c, j) PROVE Bookkeeping'
  <2>1. \A i \in Job : /\ i # j => jobs'[i] = jobs[i] /\ pruned'[i] = pruned[i]
                       /\ i = j => jobs'[i].status = "deleted"
    BY <1>2 DEF DeleteJob, TypeOK, NoRow
  <2>2. \A q \in DOMAIN runs' : q \in DOMAIN runs /\ runs'[q] = runs[q] /\ runs[q].job # j
    BY <1>2 DEF DeleteJob, WithoutRuns, RunsOf
  <2>3. RunsMatch' /\ RunsApart'
    BY <1>0, <1>1, <2>2, RunsGoOnMatch DEF Bookkeeping
  <2>4. RunsHaveJobs'
    <3> SUFFICES ASSUME NEW q \in DOMAIN runs' PROVE jobs'[runs'[q].job].status \in JobStatus
      BY DEF RunsHaveJobs, Exists
    <3>1. q \in DOMAIN runs /\ runs'[q] = runs[q] /\ runs[q].job # j
      BY <2>2
    <3>2. runs[q].job \in Job
      BY <3>1, RunJobs
    <3>3. jobs'[runs[q].job] = jobs[runs[q].job]
      BY <2>1, <3>1, <3>2
    <3> QED
      BY <3>1, <3>3 DEF Bookkeeping, RunsHaveJobs, Exists
  <2>5. NothingPrunedBefore' /\ WritesExistingRows'
    BY <1>2, <2>1 DEF DeleteJob, Bookkeeping, NothingPrunedBefore, WritesExistingRows
  <2> QED
    BY <1>1, <2>3, <2>4, <2>5 DEF Bookkeeping
<1>3. ASSUME NEW j \in Job, CreateJob(c, j) \/ ImportNew(c, j) PROVE Bookkeeping'
  <2>1. UNCHANGED <<runs, lastRun, pruned, clients>>
    BY <1>3 DEF CreateJob, ImportNew
  <2>2. \A i \in Job : /\ i # j => jobs'[i] = jobs[i]
                       /\ i = j => jobs[i].status = "absent" /\ jobs'[i].status \in JobStatus
    <3>1. \A in \in CreateInput : CreatedRow(in, now) \in JobRow /\ CreatedRow(in, now).status = "active"
      BY CreatedRowType DEF TypeOK
    <3>2. \A row \in JobRow :
            [row EXCEPT !.enabled = FALSE, !.status = "paused", !.next = Null].status = "paused"
      BY DEF JobRow
    <3>3. jobs' = [jobs EXCEPT ![j] = jobs'[j]] /\ jobs'[j].status \in {"active", "paused"}
      <4>1. CASE CreateJob(c, j)
        <5>1. PICK in \in CreateInput : jobs' = [jobs EXCEPT ![j] = CreatedRow(in, now)]
          BY <4>1 DEF CreateJob
        <5> QED
          BY <3>1, <5>1 DEF TypeOK
      <4>2. CASE ImportNew(c, j)
        <5>1. PICK in \in CreateInput :
                jobs' = [jobs EXCEPT ![j] = [CreatedRow(in, now) EXCEPT
                           !.enabled = FALSE, !.status = "paused", !.next = Null]]
          BY <4>2 DEF ImportNew
        <5> QED
          BY <3>1, <3>2, <5>1 DEF TypeOK
      <4> QED
        BY <1>3, <4>1, <4>2
    <3> QED
      BY <1>3, <3>3 DEF CreateJob, ImportNew, TypeOK, JobStatus
  <2>3. WritesExistingRows'
    BY <2>1 DEF Bookkeeping, WritesExistingRows
  <2> QED
    <3>1. ASSUME NEW i \in Job
          PROVE  (Exists(i) => Exists(i)') /\ (jobs'[i].status = "absent" => jobs[i].status = "absent")
      <4>1. CASE i = j
        BY <2>2, <4>1 DEF Exists
      <4>2. CASE i # j
        BY <2>2, <4>2 DEF Exists
      <4> QED
        BY <4>1, <4>2
    <3> QED
      BY <1>1, <2>1, <2>3, <3>1, SameRunsBooks
<1>4. ASSUME NEW j \in Job, Patch(c, j) \/ RunNow(c, j) \/ Pause(c, j) \/ Import(c, j) \/ Resume(c, j)
      PROVE Bookkeeping'
  <2>1. UNCHANGED <<runs, lastRun, pruned, jobs>>
    BY <1>4 DEF Patch, RunNow, Pause, Import, ReadForUpdate, Resume
  <2>2. WritesExistingRows'
    <3>1. jobs[j] \in JobRow /\ (Exists(j) => jobs[j].status \in JobStatus)
      BY DEF TypeOK, Exists
    <3>2. \A in \in PatchInput : PatchInputOn(jobs[j], in).status = jobs[j].status
      BY <3>1, InputAssumption DEF PatchInputOn, JobRow
    <3>3. /\ [jobs[j] EXCEPT !.status = "active", !.next = now].status \in JobStatus
          /\ [jobs[j] EXCEPT !.status = "paused"].status \in JobStatus
          /\ [jobs[j] EXCEPT !.enabled = FALSE, !.status = "paused"].status \in JobStatus
      BY <3>1 DEF JobRow, JobStatus
    <3>4. ASSUME NEW op, NEW merged, merged.status \in JobStatus, ReadForUpdate(c, op, j, merged)
          PROVE  WritesExistingRows'
      BY <3>4 DEF ReadForUpdate, Bookkeeping, WritesExistingRows, TypeOK, IdleClient
    <3>5. CASE Patch(c, j)
      BY <3>1, <3>2, <3>4, <3>5 DEF Patch, ReadForUpdate
    <3>6. CASE RunNow(c, j) \/ Pause(c, j) \/ Import(c, j)
      BY <3>3, <3>4, <3>6 DEF RunNow, Pause, Import
    <3>7. CASE Resume(c, j)
      BY <3>7 DEF Resume, Bookkeeping, WritesExistingRows, TypeOK, IdleClient
    <3> QED
      BY <1>4, <3>5, <3>6, <3>7
  <2> QED
    BY <1>1, <2>1, <2>2, SameRunsBooks DEF Exists
<1>5. CASE UpdateWrite(c)
  <2>1. clients[c].row \in JobRow /\ clients[c].row.status \in JobStatus
    BY <1>5 DEF UpdateWrite, Bookkeeping, WritesExistingRows, TypeOK, ClientState
  <2>2. \A old : KeepSummary(clients[c].row, old).status \in JobStatus
    BY <2>1 DEF KeepSummary, JobRow
  <2>3. \A i \in Job : jobs'[i].status = jobs[i].status \/ (Exists(i) /\ jobs'[i].status \in JobStatus)
    <3>1. clients[c].job \in Job
      BY <1>5 DEF UpdateWrite, TypeOK
    <3>0. jobs' = IF Exists(clients[c].job)
                  THEN [jobs EXCEPT ![clients[c].job] = KeepSummary(clients[c].row, jobs[clients[c].job])]
                  ELSE jobs
      BY <1>5 DEF UpdateWrite
    <3>2. CASE Exists(clients[c].job)
      BY <2>2, <3>0, <3>1, <3>2 DEF TypeOK
    <3>3. CASE ~ Exists(clients[c].job)
      BY <3>0, <3>3
    <3> QED
      BY <3>2, <3>3
  <2>4. WritesExistingRows'
    BY <1>5 DEF UpdateWrite, Bookkeeping, WritesExistingRows, TypeOK, ClientState, IdleClient
  <2>5. UNCHANGED <<runs, lastRun, pruned>>
    BY <1>5 DEF UpdateWrite
  <2> QED
    BY <1>1, <2>3, <2>4, <2>5, SameRunsBooks DEF Exists, JobStatus
<1>6. CASE ResumeRead(c) \/ RearmRead(c) \/ CrashClient(c)
  <2>1. UNCHANGED <<runs, lastRun, pruned, jobs>>
    BY <1>6 DEF ResumeRead, RearmRead, CrashClient
  <2>2. WritesExistingRows'
    <3>1. \A old \in JobRow : \A next :
            /\ [old EXCEPT !.status = "active", !.next = next].status \in JobStatus
            /\ old.status \in JobStatus => [old EXCEPT !.next = next].status \in JobStatus
      BY DEF JobRow, JobStatus
    <3>2. clients[c].pc # "idle" => clients[c].job \in Job /\ jobs[clients[c].job] \in JobRow
      BY DEF TypeOK
    <3>3. \A d \in Client \ {c} : clients'[d] = clients[d]
      BY <1>6 DEF ResumeRead, RearmRead, CrashClient, TypeOK
    <3>4. clients'[c].pc = "write" => clients'[c].row.status \in JobStatus
      <4>1. IdleClient.pc = "idle"
        BY DEF IdleClient
      <4>2. clients[c] \in ClientState
        BY DEF TypeOK
      <4>3. CASE ResumeRead(c)
        <5> DEFINE row == [jobs[clients[c].job] EXCEPT !.status = "active", !.next = clients[c].next]
        <5>1. clients' = [clients EXCEPT ![c] =
                IF Exists(clients[c].job) THEN [@ EXCEPT !.pc = "write", !.row = row] ELSE IdleClient]
          BY <4>3 DEF ResumeRead
        <5>2. row.status \in JobStatus
          BY <3>1, <3>2, <4>3 DEF ResumeRead
        <5> HIDE DEF row
        <5> QED
          BY <4>1, <4>2, <5>1, <5>2 DEF TypeOK, ClientState
      <4>4. CASE RearmRead(c)
        BY <3>1, <3>2, <4>1, <4>2, <4>4 DEF RearmRead, TypeOK, ClientState, Exists
      <4>5. CASE CrashClient(c)
        BY <4>1, <4>5 DEF CrashClient, TypeOK
      <4> QED
        BY <1>6, <4>3, <4>4, <4>5
    <3> QED
      BY <3>3, <3>4 DEF Bookkeeping, WritesExistingRows
  <2> QED
    BY <1>1, <2>1, <2>2, SameRunsBooks DEF Exists
<1> QED
  BY <1>2, <1>3, <1>4, <1>5, <1>6 DEF ClientStep, NewRequest, ContinueRequest

LEMMA BooksInit == Init => Bookkeeping
<1> SUFFICES ASSUME Init PROVE Bookkeeping
  OBVIOUS
<1>1. DOMAIN runs = {} /\ \A j \in Job : pruned[j] = 0
  BY DEF Init
<1>2. /\ \A w \in Worker : workers[w].pc = "idle" /\ workers[w].due = {} /\ workers[w].job = Null
      /\ \A c \in Client : clients[c].pc = "idle"
  BY DEF Init, IdleWorker, IdleClient
<1> QED
  BY <1>1, <1>2 DEF Bookkeeping, RunsMatch, RunsApart, RunsHaveJobs, NothingPrunedBefore, WritesExistingRows,
     WorkersRest, InRun

LEMMA BooksStep == TypeOK /\ Bookkeeping /\ [Next]_vars => Bookkeeping'
<1> SUFFICES ASSUME TypeOK, Bookkeeping, [Next]_vars PROVE Bookkeeping'
  OBVIOUS
<1>1. CASE Tick \/ UNCHANGED vars
  <2>1. UNCHANGED <<workers, runs, lastRun, pruned, jobs, clients>>
    BY <1>1 DEF Tick, vars
  <2>2. WritesExistingRows'
    BY <2>1 DEF Bookkeeping, WritesExistingRows
  <2> QED
    BY <2>1, <2>2, SameWorkersRest, SameRunsBooks DEF Exists
<1>2. ASSUME NEW w \in Worker, StartRun(w) \/ StartRunUnacknowledged(w) PROVE Bookkeeping'
  <2>1. UNCHANGED <<jobs, clients, pruned>>
    BY <1>2 DEF StartRun, StartRunUnacknowledged
  <2> QED
    BY <1>2, <2>1, InsertBooks DEF Bookkeeping, NothingPrunedBefore, WritesExistingRows
<1>3. ASSUME NEW w \in Worker, WorkerStep(w) PROVE Bookkeeping'
  BY <1>2, <1>3, QuietBooks, CompletionBooks, CleanupBooks, PruneBooks DEF WorkerStep, QuietStep
<1>4. ASSUME NEW c \in Client, ClientStep(c) PROVE Bookkeeping'
  BY <1>4, ClientBooks
<1> QED
  BY <1>1, <1>3, <1>4 DEF Next

-----------------------------------------------------------------------------
(* The counters of a job count its runs *)

\* RunAccounting for one job.
Accounted(j) ==
    Exists(j) =>
        /\ jobs[j].runCount = Cardinality(Finished(j)) + pruned[j]
        /\ jobs[j].consecutive <= jobs[j].errorCount
        /\ jobs[j].errorCount <= jobs[j].runCount

\* A step that leaves the run counters of job j as they are.
SummaryKept(j) ==
    /\ jobs'[j].runCount = jobs[j].runCount
    /\ jobs'[j].errorCount = jobs[j].errorCount
    /\ jobs'[j].consecutive = jobs[j].consecutive
    /\ Exists(j)' => Exists(j)

LEMMA SummaryKeptAccounted ==
  ASSUME NEW j \in Job, Accounted(j), SummaryKept(j), Finished(j)' = Finished(j), pruned'[j] = pruned[j]
  PROVE  Accounted(j)'
<1> SUFFICES ASSUME Exists(j)' PROVE Accounted(j)'
  BY DEF Accounted
<1>1. Cardinality(Finished(j))' = Cardinality(Finished(j))
  OBVIOUS
<1> QED
  BY <1>1 DEF Accounted, SummaryKept

\* A run that is inserted is running: nothing is added to the finished ones.
LEMMA InsertFinished ==
  ASSUME TypeOK, NEW i \in Job, NEW at, InsertRun(i, at), NEW j \in Job
  PROVE  Finished(j)' = Finished(j)
<1>1. lastRun + 1 \notin DOMAIN runs
  BY DEF TypeOK
<1> QED
  BY <1>1 DEF InsertRun, Finished, RunsOf, Running

\* The finished runs of a job once some of its running ones have ended.
LEMMA EndedFinished ==
  ASSUME TypeOK, NEW j \in Job, NEW ended \in SUBSET Running(j), Finished(j)' = Finished(j) \cup ended
  PROVE  Cardinality(Finished(j))' = Cardinality(Finished(j)) + Cardinality(ended)
         /\ Cardinality(ended) \in Nat
<1>1. /\ Finished(j) \in SUBSET DOMAIN runs /\ ended \in SUBSET DOMAIN runs
      /\ Finished(j) \cap ended = {}
  BY DEF Finished, Running, RunsOf
<1>2. /\ IsFiniteSet(Finished(j)) /\ IsFiniteSet(ended)
      /\ Cardinality(Finished(j)) \in Nat /\ Cardinality(ended) \in Nat
  BY <1>1, RunsFinite
<1>3. Cardinality(Finished(j) \cup ended)
        = Cardinality(Finished(j)) + Cardinality(ended) - Cardinality(Finished(j) \cap ended)
  BY <1>2, FS_Union
<1>4. Cardinality(Finished(j) \cap ended) = 0
  BY <1>1, FS_EmptySet
<1> QED
  BY <1>2, <1>3, <1>4

\* What the summary of a row says after runs have ended.
LEMMA SummaryCounts ==
  ASSUME NEW row \in JobRow, NEW n \in Nat
  PROVE  /\ ChargeFailures(row, n).runCount = row.runCount + n
         /\ ChargeFailures(row, n).errorCount = row.errorCount + n
         /\ ChargeFailures(row, n).consecutive = row.consecutive + n
         /\ \A done : /\ CreditSuccess(row, done).runCount = row.runCount + 1
                      /\ CreditSuccess(row, done).errorCount = row.errorCount
                      /\ CreditSuccess(row, done).consecutive = 0
  BY DEF ChargeFailures, CreditSuccess, JobRow

LEMMA EndedAccounted ==
  ASSUME TypeOK, NEW j \in Job, Accounted(j), NEW ended \in SUBSET Running(j),
         Finished(j)' = Finished(j) \cup ended, pruned'[j] = pruned[j], Exists(j),
         jobs'[j].runCount = jobs[j].runCount + Cardinality(ended),
         \/ /\ jobs'[j].errorCount = jobs[j].errorCount + Cardinality(ended)
            /\ jobs'[j].consecutive = jobs[j].consecutive + Cardinality(ended)
         \/ jobs'[j].errorCount = jobs[j].errorCount /\ jobs'[j].consecutive = 0
  PROVE  Accounted(j)'
<1>1. /\ Cardinality(Finished(j))' = Cardinality(Finished(j)) + Cardinality(ended)
      /\ Cardinality(ended) \in Nat
  BY EndedFinished
<1>2. /\ jobs[j].runCount \in Nat /\ jobs[j].errorCount \in Nat /\ jobs[j].consecutive \in Nat
      /\ pruned[j] \in Nat /\ Cardinality(Finished(j)) \in Nat
  BY RunsFinite DEF TypeOK, JobRow, Finished, RunsOf
<1>3. /\ jobs[j].runCount = Cardinality(Finished(j)) + pruned[j]
      /\ jobs[j].consecutive <= jobs[j].errorCount
      /\ jobs[j].errorCount <= jobs[j].runCount
  BY DEF Accounted
<1>4. jobs'[j].runCount = Cardinality(Finished(j))' + pruned'[j]
  BY <1>1, <1>2, <1>3
<1>5. jobs'[j].consecutive <= jobs'[j].errorCount /\ jobs'[j].errorCount <= jobs'[j].runCount
  BY <1>1, <1>2, <1>3
<1> QED
  BY <1>4, <1>5 DEF Accounted

LEMMA CleanupAccounting ==
  ASSUME TypeOK, Bookkeeping, RunAccounting, NEW w \in Worker, CleanupStaleRuns(w), NEW j \in Job
  PROVE  Accounted(j)'
<1>1. PICK stale \in SUBSET Stale(Clock(w)) :
        /\ runs' = [r \in DOMAIN runs |->
                      IF r \in stale THEN [runs[r] EXCEPT !.status = "timeout"] ELSE runs[r]]
        /\ jobs' = [i \in Job |->
                      IF {r \in stale : runs[r].job = i} = {} THEN jobs[i]
                      ELSE ChargeFailures(jobs[i], Cardinality({r \in stale : runs[r].job = i}))]
  BY DEF CleanupStaleRuns
<1> DEFINE mine == {r \in stale : runs[r].job = j}
<1>2. Accounted(j) /\ pruned'[j] = pruned[j]
  BY DEF RunAccounting, Accounted, CleanupStaleRuns
<1>3. mine \in SUBSET Running(j)
  BY DEF Stale, Running, RunsOf
<1>4. Finished(j)' = Finished(j) \cup mine
  <2>1. /\ DOMAIN runs' = DOMAIN runs /\ stale \subseteq DOMAIN runs
        /\ \A r \in DOMAIN runs : runs'[r].job = runs[r].job
        /\ \A r \in DOMAIN runs : runs'[r].status = IF r \in stale THEN "timeout" ELSE runs[r].status
    BY <1>1 DEF TypeOK, RunRow, Stale
  <2> QED
    BY <2>1 DEF Finished, Running, RunsOf
<1>5. jobs'[j] = IF mine = {} THEN jobs[j] ELSE ChargeFailures(jobs[j], Cardinality(mine))
  BY <1>1
<1>6. CASE mine = {}
  BY <1>2, <1>4, <1>5, <1>6, SummaryKeptAccounted DEF SummaryKept, Exists
<1>7. CASE mine # {}
  <2>1. Exists(j)
    BY <1>3, <1>7 DEF Bookkeeping, RunsHaveJobs, Running, RunsOf
  <2>2. Cardinality(mine) \in Nat /\ jobs[j] \in JobRow
    BY <1>3, RunsFinite DEF Running, RunsOf, TypeOK
  <2> HIDE DEF mine
  <2>3. /\ jobs'[j].runCount = jobs[j].runCount + Cardinality(mine)
        /\ jobs'[j].errorCount = jobs[j].errorCount + Cardinality(mine)
        /\ jobs'[j].consecutive = jobs[j].consecutive + Cardinality(mine)
    BY <1>5, <1>7, <2>2, SummaryCounts
  <2> QED
    BY <1>2, <1>3, <1>4, <2>1, <2>3, EndedAccounted
<1> QED
  BY <1>6, <1>7

LEMMA CompletionAccounting ==
  ASSUME TypeOK, Bookkeeping, RunAccounting, NEW w \in Worker, CompleteSuccess(w) \/ CompleteFailure(w),
         NEW i \in Job
  PROVE  Accounted(i)'
<1> DEFINE r == workers[w].run
           j == workers[w].job
<1>1. /\ j \in Job /\ Exists(j) /\ r \in Running(j)
      /\ pruned' = pruned
  BY CompletedRow DEF StillRunning, CompletedRun, Running, RunsOf
<1>2. PICK status \in {"success", "error"} : runs' = [runs EXCEPT ![r].status = status]
  BY CompletedRow DEF CompletedRun
<1>3. PICK row \in JobRow, next \in TimeOrNull : CompletedWith(w, row, next)
  BY CompletedRow
<1>4. /\ DOMAIN runs' = DOMAIN runs /\ r \in DOMAIN runs
      /\ \A q \in DOMAIN runs : runs'[q].job = runs[q].job
      /\ \A q \in DOMAIN runs : runs'[q].status = IF q = r THEN status ELSE runs[q].status
  BY <1>1, <1>2 DEF TypeOK, RunRow, Running, RunsOf
<1>5. Accounted(i) /\ pruned'[i] = pruned[i]
  BY <1>1 DEF RunAccounting, Accounted
<1>6. CASE i # j
  <2>1. Finished(i)' = Finished(i)
    BY <1>1, <1>4, <1>6 DEF Finished, Running, RunsOf
  <2>2. jobs'[i] = jobs[i]
    BY <1>1, <1>3, <1>6 DEF CompletedWith, TypeOK
  <2> QED
    BY <1>5, <2>1, <2>2, SummaryKeptAccounted DEF SummaryKept, Exists
<1>7. CASE i = j
  <2>1. Finished(i)' = Finished(i) \cup {r}
    BY <1>1, <1>2, <1>4, <1>7 DEF Finished, Running, RunsOf
  <2>2. jobs[j] \in JobRow
    BY <1>1 DEF TypeOK
  <2>3. /\ jobs'[j].runCount = row.runCount
        /\ jobs'[j].errorCount = row.errorCount
        /\ jobs'[j].consecutive = row.consecutive
    BY <1>1, <1>3 DEF CompletedWith, TypeOK, JobRow
  <2>4. /\ row.runCount = jobs[j].runCount + 1
        /\ \/ row.errorCount = jobs[j].errorCount + 1 /\ row.consecutive = jobs[j].consecutive + 1
           \/ row.errorCount = jobs[j].errorCount /\ row.consecutive = 0
    BY <1>3, <2>2, SummaryCounts DEF CompletedWith, ChargedWith, CreditedWith
  <2>5. Cardinality({r}) = 1
    BY FS_Singleton
  <2>6. {r} \in SUBSET Running(j)
    BY <1>1
  <2> QED
    BY <1>1, <1>5, <1>7, <2>1, <2>3, <2>4, <2>5, <2>6, EndedAccounted
<1> QED
  BY <1>6, <1>7

\* Deleting runs of other jobs leaves the finished runs of j; deleting runs of
\* j takes the deleted ones off.
LEMMA PruneAccounting ==
  ASSUME TypeOK, Bookkeeping, RunAccounting, NEW w \in Worker, PruneRunHistory(w), NEW i \in Job
  PROVE  Accounted(i)'
<1> DEFINE j == workers[w].job
<1>1. /\ Accounted(i) /\ jobs' = jobs /\ j \in Job
  BY DEF RunAccounting, Accounted, PruneRunHistory, TypeOK, Executing
<1>2. CASE UNCHANGED <<runs, pruned>>
  BY <1>1, <1>2, SummaryKeptAccounted DEF SummaryKept, Exists, Finished, Running, RunsOf
<1>3. CASE ~ UNCHANGED <<runs, pruned>>
  <2>1. PICK old \in SUBSET RunsOf(j) :
          /\ runs' = WithoutRuns(old)
          /\ pruned' = [pruned EXCEPT ![j] = @ + Cardinality(old \cap Finished(j))]
    BY <1>3 DEF PruneRunHistory
  <2>2. /\ DOMAIN runs' = DOMAIN runs \ old
        /\ \A r \in DOMAIN runs' : runs'[r] = runs[r]
    BY <2>1 DEF WithoutRuns
  <2>3. CASE i # j
    <3>1. Finished(i)' = Finished(i)
      BY <2>1, <2>2, <2>3 DEF Finished, Running, RunsOf
    <3>2. pruned'[i] = pruned[i]
      BY <1>1, <2>1, <2>3 DEF TypeOK
    <3> QED
      BY <1>1, <3>1, <3>2, SummaryKeptAccounted DEF SummaryKept, Exists
  <2>4. CASE i = j
    <3>1. Finished(i)' = Finished(i) \ old
      BY <2>2, <2>4 DEF Finished, Running, RunsOf
    <3>2. /\ IsFiniteSet(Finished(j)) /\ Cardinality(Finished(j)) \in Nat
          /\ Cardinality(old \cap Finished(j)) \in Nat
          /\ IsFiniteSet(old)
      BY RunsFinite DEF Finished, RunsOf
    <3>3. Cardinality(Finished(j) \ old) = Cardinality(Finished(j)) - Cardinality(Finished(j) \cap old)
      BY <3>2, FS_Difference
    <3>4. Finished(j) \cap old = old \cap Finished(j)
      OBVIOUS
    <3>5. pruned'[j] = pruned[j] + Cardinality(old \cap Finished(j)) /\ pruned[j] \in Nat
      BY <1>1, <2>1 DEF TypeOK
    <3>6. Cardinality(Finished(i))' + pruned'[i] = Cardinality(Finished(i)) + pruned[i]
      <4>1. Cardinality(Finished(i))' = Cardinality(Finished(i)) - Cardinality(old \cap Finished(i))
        BY <2>4, <3>1, <3>3, <3>4
      <4>2. pruned'[i] = pruned[i] + Cardinality(old \cap Finished(i))
        BY <2>4, <3>5
      <4>3. /\ Cardinality(Finished(i)) \in Nat /\ Cardinality(old \cap Finished(i)) \in Nat
            /\ pruned[i] \in Nat
        BY <2>4, <3>2, <3>5
      <4> QED
        BY <4>1, <4>2, <4>3
    <3> QED
      BY <1>1, <3>6 DEF Accounted, Exists
  <2> QED
    BY <2>3, <2>4
<1> QED
  BY <1>2, <1>3

LEMMA ClientAccounting ==
  ASSUME TypeOK, Bookkeeping, RunAccounting, NEW c \in Client, ClientStep(c), NEW i \in Job
  PROVE  Accounted(i)'
<1>0. Accounted(i)
  BY DEF RunAccounting, Accounted
<1>1. ASSUME NEW j \in Job, DeleteJob(c, j) PROVE Accounted(i)'
  <2>1. CASE i = j
    BY <1>1, <2>1 DEF DeleteJob, TypeOK, NoRow, JobStatus, Accounted, Exists
  <2>2. CASE i # j
    <3>1. jobs'[i] = jobs[i] /\ pruned'[i] = pruned[i]
      BY <1>1, <2>2 DEF DeleteJob, TypeOK
    <3>2. Finished(i)' = Finished(i)
      BY <1>1, <2>2 DEF DeleteJob, WithoutRuns, Finished, Running, RunsOf
    <3> QED
      BY <1>0, <3>1, <3>2, SummaryKeptAccounted DEF SummaryKept, Exists
  <2> QED
    BY <2>1, <2>2
<1>2. ASSUME UNCHANGED <<runs, pruned>>, SummaryKept(i) PROVE Accounted(i)'
  BY <1>0, <1>2, SummaryKeptAccounted DEF Finished, Running, RunsOf
<1>3. ASSUME NEW j \in Job, CreateJob(c, j) \/ ImportNew(c, j) PROVE Accounted(i)'
  <2>1. UNCHANGED <<runs, pruned>> /\ jobs[j].status = "absent"
    BY <1>3 DEF CreateJob, ImportNew
  <2>2. PICK row \in JobRow : /\ jobs' = [jobs EXCEPT ![j] = row]
                              /\ row.runCount = 0 /\ row.errorCount = 0 /\ row.consecutive = 0
    <3>1. PICK in \in CreateInput : \/ jobs' = [jobs EXCEPT ![j] = CreatedRow(in, now)]
                                    \/ jobs' = [jobs EXCEPT ![j] = [CreatedRow(in, now) EXCEPT
                                         !.enabled = FALSE, !.status = "paused", !.next = Null]]
      BY <1>3 DEF CreateJob, ImportNew
    <3> DEFINE created == CreatedRow(in, now)
               imported == [created EXCEPT !.enabled = FALSE, !.status = "paused", !.next = Null]
    <3>2. created \in JobRow
      BY CreatedRowType DEF TypeOK
    <3>3. created.runCount = 0 /\ created.errorCount = 0 /\ created.consecutive = 0
      BY DEF CreatedRow, NoRow
    <3> HIDE DEF created
    <3>4. /\ imported \in JobRow
          /\ imported.runCount = 0 /\ imported.errorCount = 0 /\ imported.consecutive = 0
      BY <3>2, <3>3 DEF JobRow, JobStatus, TimeOrNull
    <3>5. \E row \in {created, imported} : jobs' = [jobs EXCEPT ![j] = row]
      BY <3>1 DEF created
    <3> QED
      BY <3>2, <3>3, <3>4, <3>5
  <2>3. CASE i = j
    <3>1. jobs'[i] = row
      BY <2>2, <2>3 DEF TypeOK
    <3>2. Finished(i)' = {}
      BY <2>1, <2>3 DEF Bookkeeping, RunsHaveJobs, Exists, JobStatus, Finished, RunsOf
    <3>3. pruned'[i] = 0 /\ Cardinality(Finished(i))' = 0
      BY <2>1, <2>3, <3>2, FS_EmptySet DEF Bookkeeping, NothingPrunedBefore
    <3> QED
      BY <2>2, <3>1, <3>3 DEF Accounted
  <2>4. CASE i # j
    <3>1. jobs'[i] = jobs[i]
      BY <2>2, <2>4 DEF TypeOK
    <3> QED
      BY <1>2, <2>1, <3>1 DEF SummaryKept, Exists
  <2> QED
    BY <2>3, <2>4
<1>4. ASSUME NEW j \in Job, Patch(c, j) \/ RunNow(c, j) \/ Pause(c, j) \/ Import(c, j) \/ Resume(c, j)
      PROVE Accounted(i)'
  <2>1. UNCHANGED <<runs, pruned, jobs>>
    BY <1>4 DEF Patch, RunNow, Pause, Import, ReadForUpdate, Resume
  <2> QED
    BY <1>2, <2>1 DEF SummaryKept, Exists
<1>5. CASE ResumeRead(c) \/ RearmRead(c) \/ CrashClient(c)
  <2>1. UNCHANGED <<runs, pruned, jobs>>
    BY <1>5 DEF ResumeRead, RearmRead, CrashClient
  <2> QED
    BY <1>2, <2>1 DEF SummaryKept, Exists
<1>6. CASE UpdateWrite(c)
  <2>1. /\ UNCHANGED <<runs, pruned>>
        /\ jobs' = IF Exists(clients[c].job)
                  THEN [jobs EXCEPT ![clients[c].job] = KeepSummary(clients[c].row, jobs[clients[c].job])]
                  ELSE jobs
    BY <1>6 DEF UpdateWrite
  <2>2. \A row, old \in JobRow : LET kept == KeepSummary(row, old)
                                 IN  /\ kept.runCount = old.runCount /\ kept.errorCount = old.errorCount
                                     /\ kept.consecutive = old.consecutive
    BY DEF KeepSummary, JobRow
  <2>3. clients[c].job \in Job /\ clients[c].row \in JobRow /\ jobs[i] \in JobRow
    BY <1>6 DEF UpdateWrite, TypeOK, ClientState
  <2>4. SummaryKept(i)
    <3>1. CASE Exists(clients[c].job) /\ i = clients[c].job
      <4>1. jobs'[i] = KeepSummary(clients[c].row, jobs[i])
        BY <2>1, <2>3, <3>1 DEF TypeOK
      <4> QED
        BY <2>2, <2>3, <3>1, <4>1 DEF SummaryKept
    <3>2. CASE ~ (Exists(clients[c].job) /\ i = clients[c].job)
      <4>1. jobs'[i] = jobs[i]
        BY <2>1, <2>3, <3>2 DEF TypeOK
      <4> QED
        BY <4>1 DEF SummaryKept, Exists
    <3> QED
      BY <3>1, <3>2
  <2> QED
    BY <1>2, <2>1, <2>4
<1> QED
  BY <1>1, <1>3, <1>4, <1>5, <1>6 DEF ClientStep, NewRequest, ContinueRequest

LEMMA AccountingStep == TypeOK /\ Bookkeeping /\ RunAccounting /\ [Next]_vars => RunAccounting'
<1> SUFFICES ASSUME TypeOK, Bookkeeping, RunAccounting, [Next]_vars, NEW j \in Job PROVE Accounted(j)'
  BY DEF RunAccounting, Accounted
<1>0. Accounted(j)
  BY DEF RunAccounting, Accounted
<1>1. ASSUME UNCHANGED <<runs, pruned>>, SummaryKept(j) PROVE Accounted(j)'
  BY <1>0, <1>1, SummaryKeptAccounted DEF Finished, Running, RunsOf
<1>2. CASE Tick \/ UNCHANGED vars
  <2>1. UNCHANGED <<runs, pruned, jobs>>
    BY <1>2 DEF Tick, vars
  <2> QED
    BY <1>1, <2>1 DEF SummaryKept, Exists
<1>3. ASSUME NEW w \in Worker, WorkerStep(w) PROVE Accounted(j)'
  <2>1. CASE StartRun(w) \/ StartRunUnacknowledged(w)
    <3>1. InsertRun(workers[w].job, workers[w].at) /\ workers[w].job \in Job /\ UNCHANGED <<jobs, pruned>>
      BY <2>1 DEF StartRun, StartRunUnacknowledged, TypeOK, Executing
    <3>2. Finished(j)' = Finished(j)
      BY <3>1, InsertFinished
    <3> QED
      BY <1>0, <3>1, <3>2, SummaryKeptAccounted DEF SummaryKept, Exists
  <2>2. CASE PickupDue(w)
    <3>1. UNCHANGED <<runs, pruned>> /\ jobs'[j] \in {jobs[j], Leased(jobs[j])} /\ jobs[j] \in JobRow
      BY <2>2 DEF PickupDue, PickupFrom, TypeOK
    <3> QED
      BY <1>1, <3>1 DEF SummaryKept, Exists, Leased, JobRow
  <2>3. CASE EnsureRoomForJob(w)
    BY <1>1, <2>3 DEF EnsureRoomForJob, SummaryKept, Exists, TypeOK, JobRow
  <2>4. CASE \/ ExecuteJob(w) \/ CreateJobMessage(w) \/ CreateJobMessageFails(w) \/ CompleteRefused(w)
             \/ AbandonJob(w) \/ CrashWorker(w)
    <3>1. UNCHANGED <<runs, pruned, jobs>>
      BY <2>4 DEF ExecuteJob, CreateJobMessage, CreateJobMessageFails, CompleteRefused, AbandonJob, CrashWorker
    <3> QED
      BY <1>1, <3>1 DEF SummaryKept, Exists
  <2>5. CASE CompleteSuccess(w) \/ CompleteFailure(w)
    BY <2>5, CompletionAccounting
  <2> QED
    BY <1>3, <2>1, <2>2, <2>3, <2>4, <2>5, CleanupAccounting, PruneAccounting DEF WorkerStep
<1>4. ASSUME NEW c \in Client, ClientStep(c) PROVE Accounted(j)'
  BY <1>4, ClientAccounting
<1> QED
  BY <1>2, <1>3, <1>4 DEF Next

LEMMA AccountingInit == Init => RunAccounting
<1> SUFFICES ASSUME Init, NEW j \in Job, Exists(j) PROVE Accounted(j)
  BY DEF RunAccounting, Accounted
<1>1. Finished(j) = {} /\ pruned[j] = 0
  BY DEF Init, Finished, RunsOf
<1>2. jobs[j].runCount = 0 /\ jobs[j].errorCount = 0 /\ jobs[j].consecutive = 0
  <2>1. \A in \in CreateInput : LET row == CreatedRow(in, 0)
                               IN  row.runCount = 0 /\ row.errorCount = 0 /\ row.consecutive = 0
    BY DEF CreatedRow, NoRow
  <2>2. LET row == NoRow("absent") IN row.runCount = 0 /\ row.errorCount = 0 /\ row.consecutive = 0
    BY DEF NoRow
  <2>3. jobs[j] \in {NoRow("absent")} \cup {CreatedRow(in, 0) : in \in CreateInput}
    BY DEF Init
  <2> QED
    BY <2>1, <2>2, <2>3
<1> QED
  BY <1>1, <1>2, FS_EmptySet DEF Accounted

\* The counters of a job, updated in a statement of their own after each run,
\* count exactly the runs that ended, those that were pruned since included:
\* whatever crashes, fails, is patched or is swept up by a cleanup.
THEOREM RunsAreAccounted == Spec => []RunAccounting
<1>1. Init => TypeOK /\ Bookkeeping /\ RunAccounting
  BY InitTypeOK, BooksInit, AccountingInit
<1>2. TypeOK /\ Bookkeeping /\ RunAccounting /\ [Next]_vars => (TypeOK /\ Bookkeeping /\ RunAccounting)'
  BY NextTypeOK, BooksStep, AccountingStep
<1> QED
  BY <1>1, <1>2, PTL DEF Spec

-----------------------------------------------------------------------------
(* What a process has read of a job was created, and keeps its kind *)

\* No patch changes the kind of a schedule.  (One that does so between the
\* lease and the completion lets the run of a once job clear a recurring one.)
KindsFixed == "patch" \in Request => \A in \in PatchInput : "kind" \notin DOMAIN in

\* The job was created; it may have been deleted since.
Present(j) == jobs[j].status # "absent"

\* Whatever a process has read of a job, the job was created.
MemoryIsPresent ==
    /\ \A w \in Worker : Executing(w) => Present(workers[w].job)
    /\ \A w \in Worker : \A item \in workers[w].due : Present(item.id)
    /\ \A c \in Client : clients[c].pc # "idle" => Present(clients[c].job)

\* What was read of a job has the kind that the job has now.
SameKind(row, j) == Exists(j) => row.kind = jobs[j].kind

\* The rows in the memory of the processes have the kind of schedule of the table.
KindsAgree ==
    /\ \A w \in Worker : Executing(w) => SameKind(workers[w].row, workers[w].job)
    /\ \A w \in Worker : \A item \in workers[w].due : SameKind(item.row, item.id)
    /\ \A c \in Client : clients[c].pc = "write" => SameKind(clients[c].row, clients[c].job)

\* A step in which no job comes back and none changes its kind of schedule.
TableKept ==
    \A j \in Job : Present(j) => /\ Present(j)'
                                 /\ Exists(j)' => Exists(j) /\ jobs'[j].kind = jobs[j].kind

\* A step in which no worker reads a row.
RowsKept ==
    \A v \in Worker :
        /\ workers'[v].due \subseteq workers[v].due
        /\ Executing(v)' => /\ Executing(v)
                            /\ workers'[v].job = workers[v].job
                            /\ workers'[v].row = workers[v].row
                            /\ workers'[v].at = workers[v].at

LEMMA DropKeepsRows ==
  ASSUME TypeOK, NEW w \in Worker, DropJob(w)
  PROVE  RowsKept
<1>1. workers' = [workers EXCEPT ![w] = Released(w)]
  BY DEF DropJob
<1>2. Released(w).pc \in {"idle", "exec"} /\ Released(w).due \subseteq workers[w].due
  BY DEF Released, IdleWorker
<1>3. \A v \in Worker : workers'[v] = IF v = w THEN Released(w) ELSE workers[v]
  BY <1>1 DEF TypeOK
<1> QED
  BY <1>2, <1>3 DEF RowsKept, Executing

LEMMA WorkerKeepsRows ==
  ASSUME TypeOK, NEW w \in Worker, WorkerStep(w), ~ PickupDue(w), ~ ExecuteJob(w)
  PROVE  RowsKept
<1>0. workers[w] \in WorkerState
  BY DEF TypeOK
<1>1. CASE CompleteRefused(w) \/ AbandonJob(w) \/ StartRunUnacknowledged(w) \/ PruneRunHistory(w)
  BY <1>1, DropKeepsRows DEF CompleteRefused, AbandonJob, StartRunUnacknowledged, PruneRunHistory
<1>2. CASE CrashWorker(w)
  BY <1>2 DEF CrashWorker, IdleWorker, TypeOK, RowsKept, Executing
<1>3. CASE StartRun(w)
  <2>1. /\ \A v \in Worker : v # w => workers'[v] = workers[v]
        /\ Executing(w)
        /\ workers'[w].job = workers[w].job /\ workers'[w].row = workers[w].row
        /\ workers'[w].at = workers[w].at /\ workers'[w].due = workers[w].due
    BY <1>0, <1>3 DEF StartRun, TypeOK, WorkerState, Executing
  <2> QED
    BY <2>1 DEF RowsKept, Executing
<1>4. CASE \/ EnsureRoomForJob(w) \/ CreateJobMessage(w) \/ CreateJobMessageFails(w)
           \/ CompleteSuccess(w) \/ CompleteFailure(w)
  <2>1. Executing(w) /\ \E pc : workers' = [workers EXCEPT ![w].pc = pc]
    BY <1>4 DEF EnsureRoomForJob, CreateJobMessage, CreateJobMessageFails, CompleteSuccess, CompleteFailure,
       CompleteRun, Executing
  <2>2. /\ \A v \in Worker : v # w => workers'[v] = workers[v]
        /\ workers'[w].job = workers[w].job /\ workers'[w].row = workers[w].row
        /\ workers'[w].at = workers[w].at /\ workers'[w].due = workers[w].due
    BY <1>0, <2>1 DEF TypeOK, WorkerState
  <2> QED
    BY <2>1, <2>2 DEF RowsKept, Executing
<1>5. CASE CleanupStaleRuns(w)
  <2>1. /\ \A v \in Worker : v # w => workers'[v] = workers[v]
        /\ workers'[w].pc = "pickup" /\ workers'[w].due = workers[w].due
    BY <1>0, <1>5 DEF CleanupStaleRuns, TypeOK, WorkerState
  <2> QED
    BY <2>1 DEF RowsKept, Executing
<1> QED
  BY <1>1, <1>2, <1>3, <1>4, <1>5 DEF WorkerStep

\* What a worker may do to the table: never to the columns of a schedule.
ScheduleKept(old, new) ==
    /\ new.kind = old.kind /\ new.every = old.every /\ new.valid = old.valid
    /\ new.enabled = old.enabled /\ new.maxFailures = old.maxFailures
    /\ new.status \in {old.status, "paused", "completed"}

LEMMA CleanupTable ==
  ASSUME TypeOK, Bookkeeping, NEW w \in Worker, CleanupStaleRuns(w), NEW j \in Job
  PROVE  /\ ScheduleKept(jobs[j], jobs'[j]) /\ jobs'[j].next = jobs[j].next
         /\ jobs'[j].status \in {jobs[j].status, "paused"}
         /\ jobs'[j].status # jobs[j].status => Exists(j)
<1>1. PICK stale \in SUBSET Stale(Clock(w)) :
        jobs' = [i \in Job |->
                   IF {r \in stale : runs[r].job = i} = {} THEN jobs[i]
                   ELSE ChargeFailures(jobs[i], Cardinality({r \in stale : runs[r].job = i}))]
  BY DEF CleanupStaleRuns
<1>2. \A n : LET charged == ChargeFailures(jobs[j], n)
             IN  /\ charged.status \in {jobs[j].status, "paused"}
                 /\ charged.next = jobs[j].next /\ charged.every = jobs[j].every
                 /\ charged.kind = jobs[j].kind /\ charged.valid = jobs[j].valid
                 /\ charged.enabled = jobs[j].enabled /\ charged.maxFailures = jobs[j].maxFailures
  BY DEF ChargeFailures, JobRow, TypeOK
<1>3. jobs'[j] # jobs[j] => Exists(j)
  BY <1>1 DEF Bookkeeping, RunsHaveJobs, Stale
<1>4. jobs'[j] = jobs[j] \/ \E n : jobs'[j] = ChargeFailures(jobs[j], n)
  BY <1>1
<1> QED
  BY <1>2, <1>3, <1>4 DEF ScheduleKept

LEMMA CompletedFields ==
  ASSUME NEW row \in JobRow, NEW done \in BOOLEAN
  PROVE  /\ ScheduleKept(row, ChargeFailures(row, 1))
         /\ ScheduleKept(row, CreditSuccess(row, done))
         /\ CreditSuccess(row, done).status = IF done THEN "completed" ELSE row.status
  BY DEF ChargeFailures, CreditSuccess, JobRow, ScheduleKept

LEMMA CompletionTable ==
  ASSUME TypeOK, Bookkeeping, NEW w \in Worker, CompleteSuccess(w) \/ CompleteFailure(w), NEW i \in Job
  PROVE  /\ i # workers[w].job => jobs'[i] = jobs[i]
         /\ ScheduleKept(jobs[i], jobs'[i])
         /\ jobs'[i].status # jobs[i].status => Exists(i)
<1> DEFINE j == workers[w].job
<1>1. j \in Job /\ Exists(j) /\ jobs[j] \in JobRow
  BY CompletedRow DEF CompletedRun, TypeOK
<1>2. PICK row \in JobRow, next \in TimeOrNull : CompletedWith(w, row, next)
  BY CompletedRow
<1>3. /\ i # j => jobs'[i] = jobs[i]
      /\ jobs'[j] = [row EXCEPT !.next = next]
  BY <1>1, <1>2 DEF CompletedWith, TypeOK
<1>4. ScheduleKept(jobs[j], row)
  <2>1. CASE ChargedWith(w, row, next)
    BY <1>1, <2>1, CompletedFields DEF ChargedWith
  <2>2. CASE CreditedWith(w, row, next)
    <3> DEFINE done == workers[w].row.kind = "once" /\ next = Null
    <3>1. row = CreditSuccess(jobs[j], done) /\ done \in BOOLEAN
      BY <2>2 DEF CreditedWith
    <3> HIDE DEF done
    <3> QED
      BY <1>1, <3>1, CompletedFields
  <2> QED
    BY <1>2, <2>1, <2>2 DEF CompletedWith
<1>5. ScheduleKept(jobs[j], jobs'[j])
  BY <1>3, <1>4 DEF ScheduleKept, JobRow
<1>6. i # j => ScheduleKept(jobs[i], jobs'[i])
  BY <1>3 DEF ScheduleKept
<1> QED
  BY <1>1, <1>3, <1>5, <1>6

LEMMA WorkerTable ==
  ASSUME TypeOK, Bookkeeping, NEW w \in Worker, WorkerStep(w), NEW j \in Job
  PROVE  /\ ScheduleKept(jobs[j], jobs'[j])
         /\ jobs'[j].status # jobs[j].status => Exists(j)
<1>1. CASE CleanupStaleRuns(w)
  BY <1>1, CleanupTable
<1>2. CASE CompleteSuccess(w) \/ CompleteFailure(w)
  BY <1>2, CompletionTable
<1>3. CASE PickupDue(w)
  <2>1. jobs[j] \in JobRow /\ jobs'[j] \in {jobs[j], Leased(jobs[j])}
    BY <1>3 DEF PickupDue, PickupFrom, TypeOK
  <2> QED
    BY <2>1 DEF ScheduleKept, Leased, JobRow
<1>4. CASE EnsureRoomForJob(w)
  BY <1>4 DEF EnsureRoomForJob, TypeOK, JobRow, ScheduleKept
<1>5. CASE jobs' = jobs
  BY <1>5 DEF ScheduleKept
<1> QED
  BY <1>1, <1>2, <1>3, <1>4, <1>5 DEF WorkerStep, ExecuteJob, StartRun, StartRunUnacknowledged,
     CreateJobMessage, CreateJobMessageFails, CompleteRefused, AbandonJob, PruneRunHistory, CrashWorker

\* UPDATE agent_jobs SET ...: every column but the summary comes from the row
\* in memory.
LEMMA WriteFields ==
  ASSUME TypeOK, NEW c \in Client, UpdateWrite(c)
  PROVE  /\ clients[c].job \in Job /\ clients[c].row \in JobRow /\ clients[c].pc = "write"
         /\ \A j \in Job : j # clients[c].job \/ ~ Exists(j) => jobs'[j] = jobs[j]
         /\ Exists(clients[c].job) =>
               LET new == jobs'[clients[c].job]
                   row == clients[c].row
               IN  /\ new.kind = row.kind /\ new.every = row.every /\ new.valid = row.valid
                   /\ new.enabled = row.enabled /\ new.status = row.status /\ new.next = row.next
                   /\ new.consecutive = jobs[clients[c].job].consecutive
                   /\ new.maxFailures = row.maxFailures
<1>1. clients[c].job \in Job /\ clients[c].row \in JobRow /\ clients[c].pc = "write"
  BY DEF UpdateWrite, TypeOK, ClientState
<1>2. jobs' = IF Exists(clients[c].job)
              THEN [jobs EXCEPT ![clients[c].job] = KeepSummary(clients[c].row, jobs[clients[c].job])]
              ELSE jobs
  BY DEF UpdateWrite
<1>3. \A j \in Job : j # clients[c].job \/ ~ Exists(j) => jobs'[j] = jobs[j]
  BY <1>1, <1>2 DEF TypeOK
<1>4. ASSUME Exists(clients[c].job)
      PROVE  jobs'[clients[c].job] = KeepSummary(clients[c].row, jobs[clients[c].job])
  BY <1>1, <1>2, <1>4 DEF TypeOK
<1>5. LET new == KeepSummary(clients[c].row, jobs[clients[c].job])
          row == clients[c].row
      IN  /\ new.kind = row.kind /\ new.every = row.every /\ new.valid = row.valid
          /\ new.enabled = row.enabled /\ new.status = row.status /\ new.next = row.next
          /\ new.consecutive = jobs[clients[c].job].consecutive
          /\ new.maxFailures = row.maxFailures
  BY <1>1 DEF KeepSummary, JobRow
<1> QED
  BY <1>1, <1>3, <1>4, <1>5

\* The other requests insert a row, delete one or leave the table alone.
LEMMA RequestTable ==
  ASSUME TypeOK, NEW c \in Client, ClientStep(c), ~ UpdateWrite(c), NEW i \in Job
  PROVE  \/ jobs'[i] = jobs[i]
         \/ jobs[i].status = "absent" /\ \E in \in CreateInput : jobs'[i] = CreatedRow(in, now)
         \/ jobs[i].status = "absent" /\ \E in \in CreateInput :
               jobs'[i] = [CreatedRow(in, now) EXCEPT !.enabled = FALSE, !.status = "paused", !.next = Null]
         \/ Exists(i) /\ jobs'[i] = NoRow("deleted")
<1>1. ASSUME NEW j \in Job, NewRequest(c, j)
      PROVE  \/ jobs' = jobs
             \/ jobs[j].status = "absent" /\ \E in \in CreateInput : jobs' = [jobs EXCEPT ![j] = CreatedRow(in, now)]
             \/ jobs[j].status = "absent" /\ \E in \in CreateInput :
                   jobs' = [jobs EXCEPT ![j] = [CreatedRow(in, now) EXCEPT
                              !.enabled = FALSE, !.status = "paused", !.next = Null]]
             \/ Exists(j) /\ jobs' = [jobs EXCEPT ![j] = NoRow("deleted")]
  BY <1>1 DEF NewRequest, CreateJob, DeleteJob, Patch, RunNow, Pause, Import, ImportNew, ReadForUpdate, Resume
<1>2. CASE \E j \in Job : NewRequest(c, j)
  BY <1>1, <1>2 DEF TypeOK
<1>3. CASE ResumeRead(c) \/ RearmRead(c) \/ CrashClient(c)
  BY <1>3 DEF ResumeRead, RearmRead, CrashClient
<1> QED
  BY <1>2, <1>3 DEF ClientStep, ContinueRequest

LEMMA TableStep ==
  ASSUME TypeOK, Bookkeeping, MemoryIsPresent, KindsAgree, [Next]_vars
  PROVE  TableKept
<1>1. ASSUME NEW w \in Worker, WorkerStep(w) PROVE TableKept
  BY <1>1, WorkerTable DEF ScheduleKept, TableKept, Present, Exists
<1>2. ASSUME NEW c \in Client, ClientStep(c) PROVE TableKept
  <2>1. CASE UpdateWrite(c)
    <3> DEFINE j == clients[c].job
    <3>1. \A i \in Job : i # j \/ ~ Exists(i) => jobs'[i] = jobs[i]
      BY <2>1, WriteFields
    <3>2. ASSUME Exists(j)
          PROVE  jobs'[j].kind = jobs[j].kind /\ jobs'[j].status \in JobStatus
      <4>1. clients[c].row.kind = jobs[j].kind /\ clients[c].row.status \in JobStatus
        BY <2>1, <3>2, WriteFields DEF KindsAgree, SameKind, Bookkeeping, WritesExistingRows
      <4> QED
        BY <2>1, <3>2, <4>1, WriteFields
    <3> SUFFICES ASSUME NEW i \in Job, Present(i)
                 PROVE  Present(i)' /\ (Exists(i)' => Exists(i) /\ jobs'[i].kind = jobs[i].kind)
      BY DEF TableKept
    <3>3. CASE i = j /\ Exists(j)
      <4>1. jobs'[i].kind = jobs[i].kind /\ jobs'[i].status \in JobStatus
        BY <3>2, <3>3
      <4> QED
        BY <3>3, <4>1 DEF Present, JobStatus
    <3>4. CASE ~ (i = j /\ Exists(j))
      <4>1. jobs'[i] = jobs[i]
        BY <3>1, <3>4
      <4> QED
        BY <4>1 DEF Present, Exists
    <3> QED
      BY <3>3, <3>4
  <2>2. CASE ~ UpdateWrite(c)
    <3>1. NoRow("deleted").status = "deleted"
      BY DEF NoRow
    <3> QED
      BY <1>2, <2>2, <3>1, RequestTable DEF TableKept, Present, Exists, JobStatus
  <2> QED
    BY <2>1, <2>2
<1>3. CASE Tick \/ UNCHANGED vars
  BY <1>3 DEF Tick, vars, TableKept, Present, Exists
<1> QED
  BY <1>1, <1>2, <1>3 DEF Next

\* What is in the memory of worker w agrees with the table.
HoldsPresent(w) ==
    /\ Executing(w) => Present(workers[w].job) /\ SameKind(workers[w].row, workers[w].job)
    /\ \A item \in workers[w].due : Present(item.id) /\ SameKind(item.row, item.id)

\* What a request has read agrees with the table.
ReadsPresent(c) ==
    /\ clients[c].pc # "idle" => Present(clients[c].job)
    /\ clients[c].pc = "write" => SameKind(clients[c].row, clients[c].job)

LEMMA MemoryParts ==
  (MemoryIsPresent /\ KindsAgree) <=> ((\A w \in Worker : HoldsPresent(w)) /\ \A c \in Client : ReadsPresent(c))
  BY DEF MemoryIsPresent, KindsAgree, HoldsPresent, ReadsPresent

LEMMA RowsKeptPresent ==
  ASSUME TypeOK, TableKept, RowsKept, NEW w \in Worker, HoldsPresent(w)
  PROVE  HoldsPresent(w)'
<1>1. \A item \in workers[w].due : item.id \in Job
  BY DEF TypeOK, WorkerState
<1>2. Executing(w) => workers[w].job \in Job
  BY DEF TypeOK
<1>3. Executing(w)' => /\ Present(workers[w].job)'
                       /\ Exists(workers[w].job)' => workers'[w].row.kind = jobs'[workers'[w].job].kind
  <2> SUFFICES ASSUME Executing(w)'
               PROVE  /\ Present(workers[w].job)'
                      /\ Exists(workers[w].job)' => workers'[w].row.kind = jobs'[workers'[w].job].kind
    OBVIOUS
  <2>1. /\ Executing(w) /\ workers'[w].job = workers[w].job /\ workers'[w].row = workers[w].row
    BY DEF RowsKept
  <2>2. Present(workers[w].job) /\ SameKind(workers[w].row, workers[w].job)
    BY <2>1 DEF HoldsPresent
  <2> QED
    BY <1>2, <2>1, <2>2 DEF TableKept, SameKind, Present, Exists
<1>4. \A item \in workers'[w].due : /\ jobs'[item.id].status # "absent"
                                    /\ jobs'[item.id].status \in JobStatus => item.row.kind = jobs'[item.id].kind
  <2> SUFFICES ASSUME NEW item \in workers'[w].due
               PROVE  /\ jobs'[item.id].status # "absent"
                      /\ jobs'[item.id].status \in JobStatus => item.row.kind = jobs'[item.id].kind
    OBVIOUS
  <2>1. item \in workers[w].due /\ item.id \in Job
    BY <1>1 DEF RowsKept
  <2>2. Present(item.id) /\ SameKind(item.row, item.id)
    BY <2>1 DEF HoldsPresent
  <2> QED
    BY <2>1, <2>2 DEF TableKept, SameKind, Present, Exists
<1> QED
  BY <1>3, <1>4 DEF HoldsPresent, Present, SameKind, Exists

\* A poll reads the rows it leases.
LEMMA PickupPresent ==
  ASSUME TypeOK, TableKept, NEW w \in Worker, PickupDue(w), NEW v \in Worker, HoldsPresent(v)
  PROVE  HoldsPresent(v)'
<1>1. PICK picked \in SUBSET Due(workers[w].at) :
        workers' = [workers EXCEPT ![w] =
                      IF picked = {} THEN IdleWorker
                      ELSE [IdleWorker EXCEPT !.pc = "exec",
                              !.due = {[id |-> j, row |-> Leased(jobs[j])] : j \in picked}]]
  BY DEF PickupDue, PickupFrom
<1> DEFINE items == {[id |-> j, row |-> Leased(jobs[j])] : j \in picked}
           next == IF picked = {} THEN IdleWorker ELSE [IdleWorker EXCEPT !.pc = "exec", !.due = items]
<1>2. next.pc \in {"idle", "exec"} /\ next.due \subseteq items
  BY DEF IdleWorker
<1>3. \A item \in items : /\ jobs'[item.id].status # "absent"
                          /\ jobs'[item.id].status \in JobStatus => item.row.kind = jobs'[item.id].kind
  <2> SUFFICES ASSUME NEW j \in picked
               PROVE  /\ jobs'[j].status # "absent"
                      /\ jobs'[j].status \in JobStatus => Leased(jobs[j]).kind = jobs'[j].kind
    OBVIOUS
  <2>1. j \in Job /\ Present(j) /\ Exists(j) /\ jobs[j] \in JobRow
    BY DEF Due, Present, Exists, JobStatus, TypeOK
  <2>2. Leased(jobs[j]).kind = jobs[j].kind
    BY <2>1 DEF Leased, JobRow
  <2> QED
    BY <2>1, <2>2 DEF TableKept, Present, Exists
<1> HIDE DEF next, items
<1>4. workers'[v] = IF v = w THEN next ELSE workers[v]
  BY <1>1 DEF TypeOK, next, items
<1>5. CASE v = w
  BY <1>2, <1>3, <1>4, <1>5 DEF HoldsPresent, Executing, Present, SameKind, Exists
<1>6. CASE v # w
  <2>1. workers'[v] = workers[v]
    BY <1>4, <1>6
  <2>2. \A item \in workers[v].due : item.id \in Job
    BY DEF TypeOK, WorkerState
  <2>3. Executing(v) => workers[v].job \in Job
    BY DEF TypeOK
  <2> QED
    BY <2>1, <2>2, <2>3 DEF HoldsPresent, TableKept, SameKind, Present, Exists, Executing
<1> QED
  BY <1>5, <1>6

LEMMA ExecutePresent ==
  ASSUME TypeOK, NEW w \in Worker, ExecuteJob(w), NEW v \in Worker, HoldsPresent(v)
  PROVE  HoldsPresent(v)'
<1>1. PICK item \in workers[w].due :
        workers' = [workers EXCEPT ![w] =
          [pc |-> IF item.row.room = Null THEN "ensure" ELSE "start",
           due |-> workers[w].due \ {item}, job |-> item.id, row |-> item.row,
           at |-> Clock(w), run |-> 0]]
  BY DEF ExecuteJob
<1> DEFINE next == [pc |-> IF item.row.room = Null THEN "ensure" ELSE "start",
                    due |-> workers[w].due \ {item}, job |-> item.id, row |-> item.row,
                    at |-> Clock(w), run |-> 0]
<1>2. next.job = item.id /\ next.row = item.row /\ next.due \subseteq workers[w].due
  OBVIOUS
<1>3. workers'[v] = IF v = w THEN next ELSE workers[v]
  BY <1>1 DEF TypeOK
<1> HIDE DEF next
<1>4. jobs' = jobs
  BY DEF ExecuteJob
<1> QED
  BY <1>2, <1>3, <1>4 DEF HoldsPresent, Executing, Present, SameKind, Exists

LEMMA OtherClientsPresent ==
  ASSUME TypeOK, TableKept, NEW d \in Client, ReadsPresent(d), clients'[d] = clients[d]
  PROVE  ReadsPresent(d)'
<1>1. clients[d].pc # "idle" => clients[d].job \in Job
  BY DEF TypeOK
<1> QED
  BY <1>1 DEF ReadsPresent, TableKept, SameKind, Present, Exists

LEMMA OneClient ==
  ASSUME TypeOK, NEW c \in Client, ClientStep(c), NEW d \in Client, d # c
  PROVE  clients'[d] = clients[d]
  BY DEF ClientStep, NewRequest, ContinueRequest, CreateJob, DeleteJob, Patch, RunNow, Pause, Import,
     ImportNew, ReadForUpdate, Resume, ResumeRead, UpdateWrite, RearmRead, CrashClient, TypeOK

\* Update merges the input into the row it has just read.
LEMMA ClientPresent ==
  ASSUME KindsFixed, TypeOK, TableKept, NEW c \in Client, ClientStep(c), ReadsPresent(c)
  PROVE  ReadsPresent(c)'
<1>2. ASSUME clients'[c].pc = "idle" PROVE ReadsPresent(c)'
  BY <1>2 DEF ReadsPresent
<1>3. IdleClient.pc = "idle"
  BY DEF IdleClient
<1>4. ASSUME NEW op, NEW j \in Job, NEW merged, ReadForUpdate(c, op, j, merged), merged.kind = jobs[j].kind
      PROVE  ReadsPresent(c)'
  <2>1. clients'[c].job = j /\ clients'[c].row = merged /\ jobs' = jobs /\ Exists(j)
    BY <1>4 DEF ReadForUpdate, TypeOK, IdleClient
  <2> QED
    BY <1>4, <2>1 DEF ReadsPresent, Present, SameKind, Exists, JobStatus
<1>5. ASSUME NEW j \in Job, NewRequest(c, j) PROVE ReadsPresent(c)'
  <2>1. jobs[j] \in JobRow
    BY DEF TypeOK
  <2>2. CASE Patch(c, j)
    <3>1. PICK in \in PatchInput : ReadForUpdate(c, "patch", j, PatchInputOn(jobs[j], in))
      BY <2>2 DEF Patch
    <3>2. "kind" \notin DOMAIN in
      BY <3>1 DEF KindsFixed, ReadForUpdate
    <3>3. PatchInputOn(jobs[j], in).kind = jobs[j].kind
      BY <2>1, <3>2 DEF PatchInputOn, JobRow
    <3> QED
      BY <1>4, <3>1, <3>3
  <2>3. CASE RunNow(c, j) \/ Pause(c, j) \/ Import(c, j)
    <3>1. /\ [jobs[j] EXCEPT !.status = "active", !.next = now].kind = jobs[j].kind
          /\ [jobs[j] EXCEPT !.status = "paused"].kind = jobs[j].kind
          /\ [jobs[j] EXCEPT !.enabled = FALSE, !.status = "paused"].kind = jobs[j].kind
      BY <2>1 DEF JobRow
    <3> QED
      BY <1>4, <2>3, <3>1 DEF RunNow, Pause, Import
  <2>4. CASE Resume(c, j)
    <3>1. clients'[c].pc = "resume" /\ clients'[c].job = j /\ jobs' = jobs /\ Exists(j)
      BY <2>4 DEF Resume, TypeOK, IdleClient
    <3> QED
      BY <3>1 DEF ReadsPresent, Present, Exists, JobStatus
  <2>5. CASE CreateJob(c, j) \/ DeleteJob(c, j) \/ ImportNew(c, j)
    BY <1>2, <2>5 DEF CreateJob, DeleteJob, ImportNew
  <2> QED
    BY <1>5, <2>2, <2>3, <2>4, <2>5 DEF NewRequest
<1>6. CASE CrashClient(c)
  BY <1>2, <1>3, <1>6 DEF CrashClient, TypeOK
<1>7. CASE ResumeRead(c) \/ RearmRead(c)
  <2> DEFINE j == clients[c].job
  <2>0. clients[c].pc # "idle" /\ j \in Job /\ jobs[j] \in JobRow /\ jobs' = jobs /\ clients[c] \in ClientState
    BY <1>7 DEF ResumeRead, RearmRead, TypeOK
  <2>1. PICK row, op : /\ clients' = [clients EXCEPT ![c] =
                           IF Exists(j) THEN [@ EXCEPT !.pc = "write", !.op = op, !.row = row] ELSE IdleClient]
                       /\ row.kind = jobs[j].kind
    <3> DEFINE resumed == [jobs[j] EXCEPT !.status = "active", !.next = clients[c].next]
               rearmed == [jobs[j] EXCEPT !.next = clients[c].next]
    <3>1. resumed.kind = jobs[j].kind /\ rearmed.kind = jobs[j].kind
      BY <2>0 DEF JobRow
    <3>2. CASE ResumeRead(c)
      <4>1. clients' = [clients EXCEPT ![c] =
              IF Exists(j) THEN [@ EXCEPT !.pc = "write", !.row = resumed] ELSE IdleClient]
        BY <3>2 DEF ResumeRead
      <4> HIDE DEF resumed
      <4>2. [clients[c] EXCEPT !.pc = "write", !.row = resumed]
              = [clients[c] EXCEPT !.pc = "write", !.op = clients[c].op, !.row = resumed]
        BY <2>0 DEF ClientState
      <4> QED
        BY <3>1, <4>1, <4>2
    <3>3. CASE RearmRead(c)
      <4>1. clients' = [clients EXCEPT ![c] =
              IF Exists(j) THEN [@ EXCEPT !.pc = "write", !.op = "rearm", !.row = rearmed] ELSE IdleClient]
        BY <3>3 DEF RearmRead
      <4> HIDE DEF rearmed
      <4> QED
        BY <3>1, <4>1
    <3> QED
      BY <1>7, <3>2, <3>3
  <2>2. row.kind = jobs[j].kind
    BY <2>1
  <2>3. CASE Exists(j)
    <3>1. clients'[c].job = j /\ clients'[c].row = row
      BY <2>0, <2>1, <2>3 DEF TypeOK, ClientState
    <3>2. Present(j)
      BY <2>0 DEF ReadsPresent
    <3> QED
      BY <2>0, <2>2, <3>1, <3>2 DEF ReadsPresent, Present, SameKind, Exists
  <2>4. CASE ~ Exists(j)
    BY <1>2, <1>3, <2>1, <2>4 DEF TypeOK
  <2> QED
    BY <2>3, <2>4
<1>8. CASE UpdateWrite(c)
  <2> DEFINE j == clients[c].job
  <2>1. \E next : clients' = [clients EXCEPT ![c] =
                                IF Exists(j) /\ NeedsRearm(clients[c].op, clients[c].row)
                                THEN [@ EXCEPT !.pc = "rearm", !.next = next] ELSE IdleClient]
    BY <1>8 DEF UpdateWrite
  <2>2. clients[c] \in ClientState /\ clients[c].pc = "write" /\ j \in Job
    BY <1>8 DEF UpdateWrite, TypeOK
  <2>3. clients'[c].pc = "idle" \/ (clients'[c].pc = "rearm" /\ clients'[c].job = j)
    BY <1>3, <2>1, <2>2 DEF TypeOK, ClientState
  <2>4. Present(j)
    BY <2>2 DEF ReadsPresent
  <2> QED
    BY <2>2, <2>3, <2>4 DEF ReadsPresent, TableKept, Present
<1> QED
  BY <1>5, <1>6, <1>7, <1>8 DEF ClientStep, ContinueRequest

LEMMA WorkerLeavesClients ==
  ASSUME NEW w \in Worker, WorkerStep(w)
  PROVE  UNCHANGED clients
  BY DEF WorkerStep, CleanupStaleRuns, PickupDue, PickupFrom, ExecuteJob, EnsureRoomForJob, StartRun,
     StartRunUnacknowledged, CreateJobMessage, CreateJobMessageFails, CompleteSuccess, CompleteFailure,
     CompleteRun, CompleteRefused, AbandonJob, PruneRunHistory, CrashWorker

LEMMA MemoryStep ==
  ASSUME KindsFixed, TypeOK, Bookkeeping, MemoryIsPresent, KindsAgree, [Next]_vars
  PROVE  MemoryIsPresent' /\ KindsAgree' /\ TableKept
<1>0. TableKept
  BY TableStep
<1>1. (\A w \in Worker : HoldsPresent(w)) /\ \A c \in Client : ReadsPresent(c)
  BY MemoryParts
<1>2. ASSUME UNCHANGED clients, NEW c \in Client PROVE ReadsPresent(c)'
  <2>1. clients'[c] = clients[c] /\ ReadsPresent(c) /\ (clients[c].pc # "idle" => clients[c].job \in Job)
    BY <1>1, <1>2 DEF TypeOK
  <2> QED
    BY <1>0, <2>1 DEF ReadsPresent, TableKept, SameKind, Present, Exists
<1>3. ASSUME UNCHANGED workers PROVE RowsKept
  BY <1>3 DEF RowsKept, Executing
<1>4. ASSUME NEW w \in Worker, WorkerStep(w)
      PROVE  (\A v \in Worker : HoldsPresent(v)') /\ UNCHANGED clients
  <2>1. UNCHANGED clients
    BY <1>4, WorkerLeavesClients
  <2>2. CASE PickupDue(w)
    BY <1>0, <1>1, <2>1, <2>2, PickupPresent
  <2>3. CASE ExecuteJob(w)
    BY <1>1, <2>1, <2>3, ExecutePresent
  <2>4. CASE ~ PickupDue(w) /\ ~ ExecuteJob(w)
    BY <1>0, <1>1, <1>4, <2>1, <2>4, WorkerKeepsRows, RowsKeptPresent
  <2> QED
    BY <2>2, <2>3, <2>4
<1>5. ASSUME NEW c \in Client, ClientStep(c)
      PROVE  (\A v \in Worker : HoldsPresent(v)') /\ \A d \in Client : ReadsPresent(d)'
  <2>1. UNCHANGED workers
    BY <1>5 DEF ClientStep, NewRequest, ContinueRequest, CreateJob, DeleteJob, Patch, RunNow, Pause, Import,
       ImportNew, ReadForUpdate, Resume, ResumeRead, UpdateWrite, RearmRead, CrashClient
  <2> QED
    BY <1>0, <1>1, <1>3, <1>5, <2>1, RowsKeptPresent, ClientPresent, OneClient, OtherClientsPresent
<1>6. ASSUME Tick \/ UNCHANGED vars
      PROVE  (\A v \in Worker : HoldsPresent(v)') /\ UNCHANGED clients
  <2>1. UNCHANGED <<workers, clients>>
    BY <1>6 DEF Tick, vars
  <2> QED
    BY <1>0, <1>1, <1>3, <2>1, RowsKeptPresent
<1>7. (\A v \in Worker : HoldsPresent(v)') /\ \A c \in Client : ReadsPresent(c)'
  BY <1>2, <1>4, <1>5, <1>6 DEF Next
<1>8. MemoryIsPresent' /\ KindsAgree'
  BY <1>7 DEF MemoryIsPresent, KindsAgree, HoldsPresent, ReadsPresent
<1> QED
  BY <1>0, <1>8

LEMMA MemoryInit == Init => MemoryIsPresent /\ KindsAgree
  BY DEF Init, MemoryIsPresent, KindsAgree, IdleWorker, IdleClient, Executing

-----------------------------------------------------------------------------
(* A pause sticks *)

\* While no request is a patch, a row that is written back as active comes from
\* a resume or a run request.
NoPatching ==
    \A c \in Client :
        /\ clients[c].op \notin {"patch", "rearm"} /\ clients[c].pc # "rearm"
        /\ clients[c].pc = "resume" => clients[c].op = "resume"
        /\ clients[c].pc = "write" =>
              clients[c].op \in {"resume", "run_now"} \/ clients[c].row.status = "paused"

\* NoPatching for one request.
NoPatchingOf(client) ==
    /\ client.op \notin {"patch", "rearm"} /\ client.pc # "rearm"
    /\ client.pc = "resume" => client.op = "resume"
    /\ client.pc = "write" => client.op \in {"resume", "run_now"} \/ client.row.status = "paused"

LEMMA ReadNoPatching ==
  ASSUME TypeOK, NEW c \in Client, NEW j \in Job, NEW op, NEW merged, ReadForUpdate(c, op, j, merged),
         op \notin {"patch", "rearm"}, op \in {"resume", "run_now"} \/ merged.status = "paused"
  PROVE  NoPatchingOf(clients'[c])
<1>1. clients'[c] = [IdleClient EXCEPT !.pc = "write", !.op = op, !.job = j, !.row = merged]
  BY DEF ReadForUpdate, TypeOK
<1> QED
  BY <1>1 DEF NoPatchingOf, IdleClient

LEMMA NoPatchingStep ==
  ASSUME "patch" \notin Request, TypeOK, NoPatching, [Next]_vars
  PROVE  NoPatching'
<1>1. \A c \in Client : NoPatchingOf(clients[c])
  BY DEF NoPatching, NoPatchingOf
<1>2. NoPatchingOf(IdleClient)
  BY DEF NoPatchingOf, IdleClient
<1>3. ASSUME NEW c \in Client, ClientStep(c) PROVE NoPatchingOf(clients'[c])
  <2>1. ASSUME NEW j \in Job, NewRequest(c, j) PROVE NoPatchingOf(clients'[c])
    <3>1. jobs[j] \in JobRow
      BY DEF TypeOK
    <3>2. CASE RunNow(c, j)
      BY <3>2, ReadNoPatching DEF RunNow
    <3>3. CASE Pause(c, j)
      <4> DEFINE merged == [jobs[j] EXCEPT !.status = "paused"]
      <4>1. merged.status = "paused"
        BY <3>1 DEF JobRow
      <4>2. ReadForUpdate(c, "pause", j, merged)
        BY <3>3 DEF Pause
      <4> HIDE DEF merged
      <4> QED
        BY <4>1, <4>2, ReadNoPatching
    <3>4. CASE Import(c, j)
      <4> DEFINE merged == [jobs[j] EXCEPT !.enabled = FALSE, !.status = "paused"]
      <4>1. merged.status = "paused"
        BY <3>1 DEF JobRow
      <4>2. ReadForUpdate(c, "import", j, merged)
        BY <3>4 DEF Import
      <4> HIDE DEF merged
      <4> QED
        BY <4>1, <4>2, ReadNoPatching
    <3>5. CASE Resume(c, j)
      <4>1. \E next : clients'[c] = [IdleClient EXCEPT !.pc = "resume", !.op = "resume", !.job = j, !.next = next]
        BY <3>5 DEF Resume, TypeOK
      <4> QED
        BY <4>1 DEF NoPatchingOf, IdleClient
    <3>6. CASE CreateJob(c, j) \/ DeleteJob(c, j) \/ ImportNew(c, j)
      BY <1>1, <3>6 DEF CreateJob, DeleteJob, ImportNew
    <3>7. ~ Patch(c, j)
      BY DEF Patch, ReadForUpdate
    <3> QED
      BY <2>1, <3>2, <3>3, <3>4, <3>5, <3>6, <3>7 DEF NewRequest
  <2>2. CASE ResumeRead(c)
    <3>1. clients[c].op = "resume" /\ clients[c] \in ClientState
      BY <1>1, <2>2 DEF ResumeRead, NoPatchingOf, TypeOK
    <3>2. clients'[c] = IdleClient \/ \E row : clients'[c] = [clients[c] EXCEPT !.pc = "write", !.row = row]
      BY <2>2 DEF ResumeRead, TypeOK
    <3> QED
      BY <1>2, <3>1, <3>2 DEF NoPatchingOf, ClientState
  <2>3. CASE UpdateWrite(c)
    <3>1. ~ NeedsRearm(clients[c].op, clients[c].row)
      BY <1>1 DEF NeedsRearm, NoPatchingOf
    <3>2. clients'[c] = IdleClient
      BY <2>3, <3>1 DEF UpdateWrite, TypeOK
    <3> QED
      BY <1>2, <3>2
  <2>4. ~ RearmRead(c)
    BY <1>1 DEF RearmRead, NoPatchingOf
  <2>5. CASE CrashClient(c)
    BY <1>2, <2>5 DEF CrashClient, TypeOK
  <2> QED
    BY <1>3, <2>1, <2>2, <2>3, <2>4, <2>5 DEF ClientStep, ContinueRequest
<1>4. CASE UNCHANGED clients
  BY <1>4 DEF NoPatching
<1>5. ASSUME NEW c \in Client, ClientStep(c) PROVE NoPatching'
  BY <1>1, <1>3, <1>5, OneClient DEF NoPatching, NoPatchingOf
<1>6. ASSUME NEW w \in Worker, WorkerStep(w) PROVE UNCHANGED clients
  BY <1>6, WorkerLeavesClients
<1> QED
  BY <1>4, <1>5, <1>6 DEF Next, Tick, vars

\* No step makes a paused job active, but one that a resume or a run request takes.
PauseKept ==
    \A j \in Job : jobs[j].status = "paused" /\ jobs'[j].status = "active" =>
        \E c \in Client : /\ clients[c].job = j
                          /\ clients[c].pc = "write"
                          /\ clients[c].op \in {"resume", "run_now"}

LEMMA PauseStep ==
  ASSUME TypeOK, Bookkeeping, NoPatching, [Next]_vars
  PROVE  PauseKept
<1> SUFFICES ASSUME NEW j \in Job, jobs[j].status = "paused", jobs'[j].status = "active"
             PROVE  \E c \in Client : /\ clients[c].job = j
                                      /\ clients[c].pc = "write"
                                      /\ clients[c].op \in {"resume", "run_now"}
  BY DEF PauseKept
<1>1. ASSUME NEW w \in Worker, WorkerStep(w) PROVE FALSE
  BY <1>1, WorkerTable DEF ScheduleKept
<1>2. ~ (Tick \/ UNCHANGED vars)
  BY DEF Tick, vars
<1>3. ASSUME NEW c \in Client, ClientStep(c), ~ UpdateWrite(c) PROVE FALSE
  <2>1. NoRow("deleted").status = "deleted"
    BY DEF NoRow
  <2>2. jobs'[j] = jobs[j] \/ jobs[j].status = "absent" \/ jobs'[j] = NoRow("deleted")
    BY <1>3, RequestTable
  <2> QED
    BY <2>1, <2>2
<1>4. PICK c \in Client : UpdateWrite(c)
  BY <1>1, <1>2, <1>3 DEF Next
<1>5. clients[c].job = j /\ clients[c].pc = "write" /\ clients[c].row.status = "active"
  BY <1>4, WriteFields
<1> QED
  BY <1>5 DEF NoPatching

\* A paused job is made active again only by a resume or a run request: neither
\* the completion of a run that was under way when it was paused nor the
\* cleanup does.  (A patch may: it writes back the status it read.)
THEOREM PausesStick == "patch" \notin Request /\ Spec => PauseSticks
<1>1. Init => TypeOK /\ Bookkeeping /\ NoPatching
  BY InitTypeOK, BooksInit DEF Init, NoPatching, IdleClient
<1>2. CASE "patch" \notin Request
  <2>1. TypeOK /\ Bookkeeping /\ NoPatching /\ [Next]_vars => (TypeOK /\ Bookkeeping /\ NoPatching)'
    BY <1>2, NextTypeOK, BooksStep, NoPatchingStep
  <2>2. TypeOK /\ Bookkeeping /\ NoPatching /\ [Next]_vars => PauseKept
    BY PauseStep
  <2> QED
    BY <1>1, <2>1, <2>2, PTL DEF Spec, PauseSticks, PauseKept
<1> QED
  BY <1>2

-----------------------------------------------------------------------------
(* The stale cleanup and the runs that are still in time *)

\* The clocks of two servers differ by less than what a run that is not stale
\* for one of them may be overdue for the other.
ClocksAgree == \A v, w \in Worker : Skew[v] <= Skew[w] + 1

\* LiveRuns for one worker.
LiveRun(w) ==
    InRun(w) /\ workers[w].run \in DOMAIN runs =>
        /\ runs[workers[w].run].started = workers[w].at
        /\ runs[workers[w].run].status # "running" => Expired(w)

\* A run a worker is in was started at the time it has noted, and is out of
\* "running" only once its deadline has passed.
LiveRuns == \A w \in Worker : LiveRun(w)

LEMMA TimePasses ==
  ASSUME TypeOK, [Next]_vars
  PROVE  now' \in Nat /\ now' >= now
<1>1. CASE now' = now
  BY <1>1 DEF TypeOK
<1>2. CASE Tick
  BY <1>2 DEF Tick, TypeOK
<1>3. ASSUME NEW w \in Worker, WorkerStep(w) PROVE now' = now
  <2>1. CASE CompleteSuccess(w) \/ CompleteFailure(w)
    BY <2>1 DEF CompleteSuccess, CompleteFailure, CompleteRun
  <2>2. CASE CleanupStaleRuns(w) \/ PickupDue(w) \/ PruneRunHistory(w)
    BY <2>2 DEF CleanupStaleRuns, PickupDue, PickupFrom, PruneRunHistory
  <2>3. CASE \/ ExecuteJob(w) \/ EnsureRoomForJob(w) \/ StartRun(w) \/ StartRunUnacknowledged(w)
             \/ CreateJobMessage(w) \/ CreateJobMessageFails(w) \/ CompleteRefused(w) \/ AbandonJob(w)
             \/ CrashWorker(w)
    BY <2>3 DEF ExecuteJob, EnsureRoomForJob, StartRun, StartRunUnacknowledged, CreateJobMessage,
       CreateJobMessageFails, CompleteRefused, AbandonJob, CrashWorker
  <2> QED
    BY <1>3, <2>1, <2>2, <2>3 DEF WorkerStep
<1>4. ASSUME NEW c \in Client, ClientStep(c) PROVE now' = now
  <2>1. CASE ContinueRequest(c) \/ CrashClient(c)
    BY <2>1 DEF ContinueRequest, ResumeRead, UpdateWrite, RearmRead, CrashClient
  <2>2. ASSUME NEW j \in Job, NewRequest(c, j) PROVE now' = now
    BY <2>2 DEF NewRequest, CreateJob, DeleteJob, Patch, RunNow, Pause, Import, ImportNew, ReadForUpdate,
       Resume
  <2> QED
    BY <1>4, <2>1, <2>2 DEF ClientStep
<1> QED
  BY <1>1, <1>2, <1>3, <1>4 DEF Next, vars

LEMMA ExpiredStays ==
  ASSUME TypeOK, [Next]_vars, NEW w \in Worker, Expired(w), workers'[w].at = workers[w].at
  PROVE  Expired(w)'
<1>1. now \in Nat /\ now' \in Nat /\ now' >= now /\ Skew[w] \in Nat /\ workers[w].at \in Nat
      /\ RunTimeout \in Nat
  BY TimePasses, BoundsAssumption, InputAssumption DEF TypeOK, WorkerState
<1> QED
  BY <1>1 DEF Expired, Clock

\* A step in which the worker's run stays as it is, or goes.
LEMMA LiveRunKept ==
  ASSUME TypeOK, [Next]_vars, NEW w \in Worker, LiveRun(w), RunsGoOn,
         InRun(w) /\ workers[w].run \in DOMAIN runs' => /\ workers[w].run \in DOMAIN runs
                                                        /\ runs'[workers[w].run] = runs[workers[w].run]
  PROVE  LiveRun(w)'
<1> SUFFICES ASSUME InRun(w)', workers'[w].run \in DOMAIN runs'
             PROVE  /\ runs'[workers'[w].run].started = workers'[w].at
                    /\ runs'[workers'[w].run].status # "running" => Expired(w)'
  BY DEF LiveRun
<1>1. InRun(w) /\ workers'[w].run = workers[w].run /\ workers'[w].at = workers[w].at
  BY DEF RunsGoOn
<1> QED
  BY <1>1, ExpiredStays DEF LiveRun

LEMMA CleanupLive ==
  ASSUME ClocksAgree, TypeOK, Bookkeeping, [Next]_vars, NEW w \in Worker, CleanupStaleRuns(w),
         NEW v \in Worker, LiveRun(v)
  PROVE  LiveRun(v)'
<1> DEFINE r == workers[v].run
<1>1. PICK stale \in SUBSET Stale(Clock(w)) :
        runs' = [q \in DOMAIN runs |->
                   IF q \in stale THEN [runs[q] EXCEPT !.status = "timeout"] ELSE runs[q]]
  BY DEF CleanupStaleRuns
<1>2. RunsGoOn
  BY WorkerGoesOn DEF OtherStep, Bookkeeping
<1>3. CASE InRun(v) /\ r \in stale
  <2>1. r \in DOMAIN runs /\ runs[r] \in RunRow /\ runs[r].started < Clock(w) - RunTimeout
    BY <1>3 DEF Stale, TypeOK
  <2>2. runs[r].started = workers[v].at
    BY <1>3, <2>1 DEF LiveRun
  <2>3. /\ now \in Nat /\ Skew[w] \in Nat /\ Skew[v] \in Nat /\ Skew[w] <= Skew[v] + 1
        /\ workers[v].at \in Nat /\ RunTimeout \in Nat
    BY BoundsAssumption, InputAssumption DEF ClocksAgree, TypeOK, WorkerState
  <2>4. Expired(v)
    BY <2>1, <2>2, <2>3 DEF Expired, Clock
  <2>5. runs'[r].started = runs[r].started
    BY <1>1, <2>1 DEF RunRow
  <2> SUFFICES ASSUME InRun(v)', workers'[v].run \in DOMAIN runs'
               PROVE  runs'[workers'[v].run].started = workers'[v].at /\ Expired(v)'
    BY DEF LiveRun
  <2>6. workers'[v].run = r /\ workers'[v].at = workers[v].at
    BY <1>2 DEF RunsGoOn
  <2> QED
    BY <2>2, <2>4, <2>5, <2>6, ExpiredStays
<1>4. CASE ~ (InRun(v) /\ r \in stale)
  BY <1>1, <1>2, <1>4, LiveRunKept
<1> QED
  BY <1>3, <1>4

\* No other worker completes the run of v: no two workers are in the same run.
LEMMA CompletionLive ==
  ASSUME TypeOK, Bookkeeping, [Next]_vars, NEW w \in Worker, CompleteSuccess(w) \/ CompleteFailure(w),
         NEW v \in Worker, LiveRun(v)
  PROVE  LiveRun(v)'
<1>1. /\ workers' = [workers EXCEPT ![w].pc = "prune"] /\ InRun(w)
      /\ \E status : runs' = [runs EXCEPT ![workers[w].run].status = status]
  BY CompletedRow DEF CompletedRun
<1>2. RunsGoOn
  BY WorkerGoesOn DEF OtherStep, Bookkeeping
<1>3. CASE v = w
  BY <1>1, <1>3 DEF LiveRun, InRun, TypeOK, WorkerState
<1>4. CASE v # w
  <2>1. InRun(v) => workers[v].run # workers[w].run
    BY <1>1, <1>4 DEF Bookkeeping, RunsApart
  <2> QED
    BY <1>1, <1>2, <2>1, LiveRunKept DEF TypeOK
<1> QED
  BY <1>3, <1>4

LEMMA StartLive ==
  ASSUME TypeOK, Bookkeeping, [Next]_vars, NEW w \in Worker, StartRun(w) \/ StartRunUnacknowledged(w),
         NEW v \in Worker, LiveRun(v)
  PROVE  LiveRun(v)'
<1>1. InsertRun(workers[w].job, workers[w].at)
  BY DEF StartRun, StartRunUnacknowledged
<1>2. /\ DOMAIN runs' = DOMAIN runs \cup {lastRun + 1} /\ lastRun + 1 \notin DOMAIN runs
      /\ \A r \in DOMAIN runs : runs'[r] = runs[r]
      /\ runs'[lastRun + 1].status = "running" /\ runs'[lastRun + 1].started = workers[w].at
  BY <1>1 DEF InsertRun, TypeOK
<1>3. InRun(v) => workers[v].run # lastRun + 1
  BY DEF Bookkeeping, RunsMatch, TypeOK, WorkerState
<1>4. CASE StartRunUnacknowledged(w)
  <2>1. RunsGoOn
    BY <1>4, WorkerGoesOn DEF OtherStep, Bookkeeping
  <2> QED
    BY <1>2, <1>3, <2>1, LiveRunKept
<1>5. CASE StartRun(w) /\ v = w
  <2>1. workers'[w].run = lastRun + 1 /\ workers'[w].at = workers[w].at
    BY <1>5 DEF StartRun, TypeOK, WorkerState
  <2> QED
    BY <1>2, <1>5, <2>1 DEF LiveRun
<1>6. CASE StartRun(w) /\ v # w
  <2>1. workers'[v] = workers[v]
    BY <1>6 DEF StartRun, TypeOK
  <2>2. InRun(v)' => InRun(v)
    BY <2>1 DEF InRun
  <2> SUFFICES ASSUME InRun(v)', workers'[v].run \in DOMAIN runs'
               PROVE  /\ runs'[workers'[v].run].started = workers'[v].at
                      /\ runs'[workers'[v].run].status # "running" => Expired(v)'
    BY DEF LiveRun
  <2> QED
    BY <1>2, <1>3, <2>1, <2>2, ExpiredStays DEF LiveRun
<1> QED
  BY <1>4, <1>5, <1>6

LEMMA LiveStep ==
  ASSUME ClocksAgree, TypeOK, Bookkeeping, LiveRuns, [Next]_vars
  PROVE  LiveRuns'
<1> SUFFICES ASSUME NEW v \in Worker PROVE LiveRun(v)'
  BY DEF LiveRuns
<1>0. LiveRun(v)
  BY DEF LiveRuns
<1>1. ASSUME NEW w \in Worker, WorkerStep(w) PROVE LiveRun(v)'
  <2>1. CASE CleanupStaleRuns(w)
    BY <1>0, <2>1, CleanupLive
  <2>2. CASE CompleteSuccess(w) \/ CompleteFailure(w)
    BY <1>0, <2>2, CompletionLive
  <2>3. CASE StartRun(w) \/ StartRunUnacknowledged(w)
    BY <1>0, <2>3, StartLive
  <2>4. CASE QuietStep(w)
    <3>1. RunsGoOn
      BY <2>4, WorkerGoesOn DEF OtherStep, Bookkeeping
    <3>2. runs' = runs
      BY <2>4 DEF QuietStep, PickupDue, PickupFrom, ExecuteJob, EnsureRoomForJob, CreateJobMessage,
         CreateJobMessageFails, CompleteRefused, AbandonJob, CrashWorker
    <3> QED
      BY <1>0, <3>1, <3>2, LiveRunKept
  <2>5. CASE PruneRunHistory(w)
    <3>1. RunsGoOn
      BY <2>5, WorkerGoesOn DEF OtherStep, Bookkeeping
    <3>2. \A q \in DOMAIN runs' : q \in DOMAIN runs /\ runs'[q] = runs[q]
      BY <2>5 DEF PruneRunHistory, WithoutRuns
    <3> QED
      BY <1>0, <3>1, <3>2, LiveRunKept
  <2> QED
    BY <1>1, <2>1, <2>2, <2>3, <2>4, <2>5 DEF WorkerStep, QuietStep
<1>2. ASSUME UNCHANGED workers, \A q \in DOMAIN runs' : q \in DOMAIN runs /\ runs'[q] = runs[q]
      PROVE  LiveRun(v)'
  BY <1>0, <1>2, SameWorkersRest, LiveRunKept
<1>3. ASSUME NEW c \in Client, ClientStep(c) PROVE LiveRun(v)'
  <2>1. UNCHANGED workers
    BY <1>3 DEF ClientStep, NewRequest, ContinueRequest, CreateJob, DeleteJob, Patch, RunNow, Pause, Import,
       ImportNew, ReadForUpdate, Resume, ResumeRead, UpdateWrite, RearmRead, CrashClient
  <2>2. runs' = runs \/ \E ids : runs' = WithoutRuns(ids)
    BY <1>3 DEF ClientStep, NewRequest, ContinueRequest, CreateJob, DeleteJob, Patch, RunNow, Pause, Import,
       ImportNew, ReadForUpdate, Resume, ResumeRead, UpdateWrite, RearmRead, CrashClient
  <2>3. \A q \in DOMAIN runs' : q \in DOMAIN runs /\ runs'[q] = runs[q]
    BY <2>2 DEF WithoutRuns
  <2> QED
    BY <1>2, <2>1, <2>3
<1>4. CASE Tick \/ UNCHANGED vars
  BY <1>2, <1>4 DEF Tick, vars
<1> QED
  BY <1>1, <1>3, <1>4 DEF Next

LEMMA LiveSpares == LiveRuns => CleanupSparesLiveRuns
  BY DEF LiveRuns, LiveRun, CleanupSparesLiveRuns, InRun

\* The cleanup of one server does not time out a run that another one can still
\* complete, provided their clocks differ by no more than one tick.
THEOREM CleanupIsFair == ClocksAgree /\ Spec => []CleanupSparesLiveRuns
<1>1. Init => TypeOK /\ Bookkeeping /\ LiveRuns
  <2>1. Init => \A w \in Worker : ~ InRun(w)
    BY DEF Init, InRun, IdleWorker
  <2> QED
    BY <2>1, InitTypeOK, BooksInit DEF LiveRuns, LiveRun
<1>2. CASE ClocksAgree
  <2>1. TypeOK /\ Bookkeeping /\ LiveRuns /\ [Next]_vars => (TypeOK /\ Bookkeeping /\ LiveRuns)'
    BY <1>2, NextTypeOK, BooksStep, LiveStep
  <2> QED
    BY <1>1, <2>1, LiveSpares, PTL DEF Spec
<1> QED
  BY <1>2

-----------------------------------------------------------------------------
(* A job that keeps failing is paused *)

LEMMA ChargedIsPaused ==
  ASSUME NEW row \in JobRow, NEW n \in Nat
  PROVE  LET charged == ChargeFailures(row, n)
         IN  charged.status = "active" => charged.consecutive < charged.maxFailures
  BY DEF ChargeFailures, JobRow

LEMMA CreditedIsBelow ==
  ASSUME NEW row \in JobRow, NEW done
  PROVE  LET credited == CreditSuccess(row, done) IN credited.consecutive < credited.maxFailures
  BY DEF CreditSuccess, JobRow

LEMMA CreatedIsBelow ==
  ASSUME NEW in \in CreateInput
  PROVE  LET created == CreatedRow(in, now) IN created.consecutive < created.maxFailures
<1>1. in.maxFailures \in Nat \ {0}
  BY InputAssumption
<1> QED
  BY <1>1 DEF CreatedRow, NoRow

LEMMA FailingStep ==
  ASSUME LeaseSafe, TypeOK, Bookkeeping, LeaseInv, FailingJobIsPaused, [Next]_vars
  PROVE  FailingJobIsPaused'
<1> SUFFICES ASSUME NEW j \in Job, jobs'[j].status = "active"
             PROVE  jobs'[j].consecutive < jobs'[j].maxFailures
  BY DEF FailingJobIsPaused
<1>0. jobs[j] \in JobRow
  BY DEF TypeOK
<1>1. CASE jobs'[j] = jobs[j]
  BY <1>1 DEF FailingJobIsPaused
<1>2. ASSUME NEW w \in Worker, WorkerStep(w) PROVE jobs'[j].consecutive < jobs'[j].maxFailures
  <2>1. CASE CleanupStaleRuns(w)
    <3>1. PICK stale \in SUBSET Stale(Clock(w)) :
            jobs' = [i \in Job |->
                       IF {r \in stale : runs[r].job = i} = {} THEN jobs[i]
                       ELSE ChargeFailures(jobs[i], Cardinality({r \in stale : runs[r].job = i}))]
      BY <2>1 DEF CleanupStaleRuns
    <3>2. {r \in stale : runs[r].job = j} \in SUBSET DOMAIN runs
      BY DEF Stale
    <3>3. Cardinality({r \in stale : runs[r].job = j}) \in Nat
      BY <3>2, RunsFinite
    <3>4. jobs'[j] = jobs[j] \/ \E n \in Nat : jobs'[j] = ChargeFailures(jobs[j], n)
      BY <3>1, <3>3
    <3> QED
      BY <1>0, <1>1, <3>4, ChargedIsPaused
  <2>2. CASE CompleteSuccess(w) \/ CompleteFailure(w)
    <3>1. workers[w].job \in Job
      BY <2>2, CompletedRow DEF CompletedRun
    <3>2. PICK row \in JobRow, next \in TimeOrNull : CompletedWith(w, row, next)
      BY <2>2, CompletedRow
    <3>3. CASE workers[w].job # j
      BY <1>1, <2>2, <3>3, CompletionTable
    <3>4. CASE workers[w].job = j
      <4>1. /\ jobs'[j].status = row.status /\ jobs'[j].consecutive = row.consecutive
            /\ jobs'[j].maxFailures = row.maxFailures
        BY <1>0, <3>1, <3>2, <3>4 DEF CompletedWith, TypeOK, JobRow
      <4>2. row.status = "active" => row.consecutive < row.maxFailures
        BY <1>0, <3>2, <3>4, ChargedIsPaused, CreditedIsBelow DEF CompletedWith, ChargedWith, CreditedWith
      <4> QED
        BY <4>1, <4>2
    <3> QED
      BY <3>3, <3>4
  <2>3. CASE PickupDue(w)
    <3>1. jobs'[j] \in {jobs[j], Leased(jobs[j])}
      BY <2>3 DEF PickupDue, PickupFrom
    <3>2. LET row == Leased(jobs[j]) IN /\ row.status = jobs[j].status /\ row.consecutive = jobs[j].consecutive
                                        /\ row.maxFailures = jobs[j].maxFailures
      BY <1>0 DEF Leased, JobRow
    <3> QED
      BY <3>1, <3>2 DEF FailingJobIsPaused
  <2>4. CASE EnsureRoomForJob(w)
    <3>1. /\ jobs'[j].status = jobs[j].status /\ jobs'[j].consecutive = jobs[j].consecutive
          /\ jobs'[j].maxFailures = jobs[j].maxFailures
      BY <1>0, <2>4 DEF EnsureRoomForJob, TypeOK, JobRow
    <3> QED
      BY <3>1 DEF FailingJobIsPaused
  <2>5. CASE jobs' = jobs
    BY <1>1, <2>5
  <2> QED
    BY <1>2, <2>1, <2>2, <2>3, <2>4, <2>5 DEF WorkerStep, ExecuteJob, StartRun, StartRunUnacknowledged,
       CreateJobMessage, CreateJobMessageFails, CompleteRefused, AbandonJob, PruneRunHistory, CrashWorker
<1>3. ASSUME NEW c \in Client, ClientStep(c) PROVE jobs'[j].consecutive < jobs'[j].maxFailures
  <2>1. CASE UpdateWrite(c)
    <3>1. clients[c].row.status = "paused"
      BY <2>1, WriteFields DEF LeaseInv, ClientsOnlyPause
    <3> QED
      BY <1>1, <2>1, <3>1, WriteFields
  <2>2. CASE ~ UpdateWrite(c)
    <3>1. NoRow("deleted").status = "deleted"
      BY DEF NoRow
    <3>2. \A in \in CreateInput :
            [CreatedRow(in, now) EXCEPT !.enabled = FALSE, !.status = "paused", !.next = Null].status = "paused"
      BY CreatedRowType DEF TypeOK, JobRow
    <3>3. jobs'[j] = jobs[j] \/ \E in \in CreateInput : jobs'[j] = CreatedRow(in, now)
      BY <1>3, <2>2, <3>1, <3>2, RequestTable
    <3> QED
      BY <1>1, <3>3, CreatedIsBelow
  <2> QED
    BY <2>1, <2>2
<1>4. CASE Tick \/ UNCHANGED vars
  BY <1>1, <1>4 DEF Tick, vars
<1> QED
  BY <1>2, <1>3, <1>4 DEF Next

LEMMA FailingInit == Init => FailingJobIsPaused
<1> SUFFICES ASSUME Init, NEW j \in Job, jobs[j].status = "active"
             PROVE  jobs[j].consecutive < jobs[j].maxFailures
  BY DEF FailingJobIsPaused
<1>1. now = 0 /\ jobs[j] \in {NoRow("absent")} \cup {CreatedRow(in, 0) : in \in CreateInput}
  BY DEF Init
<1>2. NoRow("absent").status # "active"
  BY DEF NoRow
<1> QED
  BY <1>1, <1>2, CreatedIsBelow

-----------------------------------------------------------------------------
(* A one-shot job posts once *)

\* A one-shot row that is armed is armed for its run_at.
ArmedOnce(row) == row.kind = "once" /\ row.next # Null => row.next = row.every

\* A once job is armed for its time, and for no other.
OneShotRows ==
    /\ \A j \in Job : ArmedOnce(jobs[j])
    /\ \A c \in Client : clients[c].pc = "write" => ArmedOnce(clients[c].row)

\* A worker has a one-shot job only once its run_at has passed on its clock.
PastRunAtOf(w) ==
    /\ workers[w].pc = "pickup" \/ Executing(w) => workers[w].at <= Clock(w)
    /\ \A item \in workers[w].due : item.row.kind = "once" => item.row.every <= Clock(w)
    /\ Executing(w) /\ workers[w].row.kind = "once" => workers[w].row.every <= workers[w].at

\* A worker executes a once job after its time.
PastRunAt == \A w \in Worker : PastRunAtOf(w)

\* The schedule of a one-shot job that has run has nothing left.
LEMMA OneShotIsDone ==
  ASSUME TypeOK, KindsAgree, PastRunAt, Bookkeeping,
         NEW w \in Worker, CompleteSuccess(w) \/ CompleteFailure(w), jobs[workers[w].job].kind = "once"
  PROVE  jobs'[workers[w].job].next = Null
<1> DEFINE j == workers[w].job
           row == workers[w].row
<1>1. j \in Job /\ Exists(j) /\ Executing(w) /\ jobs[j] \in JobRow
  BY CompletedRow DEF CompletedRun, Executing, TypeOK
<1>2. PICK new \in JobRow, next \in TimeOrNull : CompletedWith(w, new, next)
  BY CompletedRow
<1>3. row.kind = "once" /\ row.every <= workers[w].at /\ workers[w].at <= Clock(w)
  BY <1>1 DEF KindsAgree, SameKind, PastRunAt, PastRunAtOf
<1>4. workers[w].at \in Nat /\ Clock(w) \in Nat /\ row.every \in Nat /\ Null \notin Nat
  BY ClockType, InputAssumption DEF TypeOK, WorkerState, JobRow
<1>5. /\ ComputeNextRun(row, workers[w].at, workers[w].at) = Null
      /\ ComputeNextRun(row, Clock(w), Clock(w)) = Null
  BY <1>3, <1>4 DEF ComputeNextRun, OncePassed
<1>6. next = Null
  BY <1>2, <1>3, <1>5 DEF CompletedWith, ChargedWith, CreditedWith, ComputeFailureNextRun
<1>7. jobs'[j].next = next
  BY <1>1, <1>2 DEF CompletedWith, TypeOK, JobRow
<1> QED
  BY <1>6, <1>7

\* next_run_at of a job is set by the completion of its run only.
LEMMA WorkerNext ==
  ASSUME TypeOK, Bookkeeping, NEW w \in Worker, WorkerStep(w), NEW j \in Job
  PROVE  \/ jobs'[j].next \in {jobs[j].next, Null}
         \/ j = workers[w].job /\ (CompleteSuccess(w) \/ CompleteFailure(w))
<1>1. CASE CleanupStaleRuns(w)
  BY <1>1, CleanupTable
<1>2. CASE CompleteSuccess(w) \/ CompleteFailure(w)
  BY <1>2, CompletionTable
<1>3. CASE PickupDue(w)
  <2>1. jobs[j] \in JobRow /\ jobs'[j] \in {jobs[j], Leased(jobs[j])}
    BY <1>3 DEF PickupDue, PickupFrom, TypeOK
  <2> QED
    BY <2>1 DEF Leased, JobRow
<1>4. CASE EnsureRoomForJob(w)
  BY <1>4 DEF EnsureRoomForJob, TypeOK, JobRow
<1>5. CASE jobs' = jobs
  BY <1>5
<1> QED
  BY <1>1, <1>2, <1>3, <1>4, <1>5 DEF WorkerStep, ExecuteJob, StartRun, StartRunUnacknowledged,
     CreateJobMessage, CreateJobMessageFails, CompleteRefused, AbandonJob, PruneRunHistory, CrashWorker

LEMMA CreatedArmed ==
  ASSUME NEW in \in CreateInput, NEW t \in Nat
  PROVE  ArmedOnce(CreatedRow(in, t))
<1> DEFINE row == [NoRow("active") EXCEPT !.kind = in.kind, !.every = in.every,
                     !.enabled = TRUE, !.maxFailures = in.maxFailures]
           created == [row EXCEPT !.next = ComputeNextRun(row, t, Null)]
<1>1. in \in [kind : ScheduleKinds, every : Nat \ {0}, maxFailures : Nat \ {0}]
  BY InputAssumption
<1>2. row \in JobRow
  BY <1>1 DEF NoRow, JobRow, JobStatus, TimeOrNull
<1>3. row.kind = "once" => ComputeNextRun(row, t, Null) = row.every
  BY DEF ComputeNextRun, OncePassed
<1> HIDE DEF row
<1>4. created.kind = row.kind /\ created.every = row.every /\ created.next = ComputeNextRun(row, t, Null)
  BY <1>2 DEF JobRow
<1>5. CreatedRow(in, t) = created
  BY DEF CreatedRow, row
<1> HIDE DEF created
<1> QED
  BY <1>3, <1>4, <1>5 DEF ArmedOnce

LEMMA OneShotRowsStep ==
  ASSUME LeaseSafe, TypeOK, Bookkeeping, LeaseInv, KindsAgree, OneShotRows, PastRunAt, [Next]_vars
  PROVE  OneShotRows'
<1>1. ASSUME NEW w \in Worker, WorkerStep(w) PROVE OneShotRows'
  <2>1. UNCHANGED clients
    BY <1>1, WorkerLeavesClients
  <2>2. ASSUME NEW j \in Job PROVE ArmedOnce(jobs'[j])
    <3>1. jobs'[j].kind = jobs[j].kind /\ jobs'[j].every = jobs[j].every
      BY <1>1, WorkerTable DEF ScheduleKept
    <3>2. ArmedOnce(jobs[j])
      BY DEF OneShotRows
    <3>3. CASE jobs'[j].next \in {jobs[j].next, Null}
      BY <3>1, <3>2, <3>3 DEF ArmedOnce
    <3>4. CASE j = workers[w].job /\ (CompleteSuccess(w) \/ CompleteFailure(w))
      BY <3>1, <3>4, OneShotIsDone DEF ArmedOnce
    <3> QED
      BY <1>1, <3>3, <3>4, WorkerNext
  <2> QED
    BY <2>1, <2>2 DEF OneShotRows
<1>2. ASSUME NEW c \in Client, ClientStep(c) PROVE OneShotRows'
  <2>1. ASSUME NEW j \in Job PROVE ArmedOnce(jobs'[j])
    <3>1. ArmedOnce(jobs[j])
      BY DEF OneShotRows
    <3>2. CASE UpdateWrite(c)
      <4>1. ArmedOnce(clients[c].row)
        BY <3>2, WriteFields DEF OneShotRows
      <4> QED
        BY <3>1, <3>2, <4>1, WriteFields DEF ArmedOnce
    <3>3. CASE ~ UpdateWrite(c)
      <4>1. ArmedOnce(NoRow("deleted"))
        BY DEF ArmedOnce, NoRow
      <4>2. \A in \in CreateInput :
              /\ ArmedOnce(CreatedRow(in, now))
              /\ ArmedOnce([CreatedRow(in, now) EXCEPT !.enabled = FALSE, !.status = "paused", !.next = Null])
        BY CreatedArmed, CreatedRowType DEF ArmedOnce, TypeOK, JobRow
      <4> QED
        BY <1>2, <3>1, <3>3, <4>1, <4>2, RequestTable
    <3> QED
      BY <3>2, <3>3
  <2>2. clients'[c].pc = "write" => ArmedOnce(clients'[c].row)
    <3>1. IdleClient.pc = "idle"
      BY DEF IdleClient
    <3>2. CASE UpdateWrite(c) \/ CrashClient(c)
      <4>1. ~ NeedsRearm(clients[c].op, clients[c].row)
        BY DEF LeaseInv, ClientsOnlyPause, NeedsRearm
      <4>2. clients'[c] = IdleClient
        BY <3>2, <4>1 DEF UpdateWrite, CrashClient, TypeOK
      <4> QED
        BY <3>1, <4>2
    <3>3. ~ ResumeRead(c) /\ ~ RearmRead(c)
      BY DEF LeaseInv, ClientsOnlyPause, ResumeRead, RearmRead
    <3>4. ASSUME NEW j \in Job, NewRequest(c, j) PROVE clients'[c].pc = "write" => ArmedOnce(clients'[c].row)
      <4>1. jobs[j] \in JobRow /\ ArmedOnce(jobs[j])
        BY DEF TypeOK, OneShotRows
      <4>2. CASE Pause(c, j)
        <5>1. clients'[c].row = [jobs[j] EXCEPT !.status = "paused"]
          BY <4>2 DEF Pause, ReadForUpdate, TypeOK, IdleClient
        <5> QED
          BY <4>1, <5>1 DEF ArmedOnce, JobRow
      <4>3. CASE Import(c, j)
        <5>1. clients'[c].row = [jobs[j] EXCEPT !.enabled = FALSE, !.status = "paused"]
          BY <4>3 DEF Import, ReadForUpdate, TypeOK, IdleClient
        <5> QED
          BY <4>1, <5>1 DEF ArmedOnce, JobRow
      <4>4. CASE CreateJob(c, j) \/ DeleteJob(c, j) \/ ImportNew(c, j)
        BY <4>4 DEF CreateJob, DeleteJob, ImportNew, OneShotRows
      <4>5. ~ Patch(c, j) /\ ~ RunNow(c, j) /\ ~ Resume(c, j)
        BY DEF LeaseSafe, Patch, RunNow, Resume, ReadForUpdate
      <4> QED
        BY <3>4, <4>2, <4>3, <4>4, <4>5 DEF NewRequest
    <3> QED
      BY <1>2, <3>2, <3>3, <3>4 DEF ClientStep, ContinueRequest
  <2> QED
    BY <1>2, <2>1, <2>2, OneClient DEF OneShotRows
<1>3. CASE Tick \/ UNCHANGED vars
  BY <1>3 DEF Tick, vars, OneShotRows
<1> QED
  BY <1>1, <1>2, <1>3 DEF Next

LEMMA ClockPasses ==
  ASSUME TypeOK, [Next]_vars, NEW w \in Worker
  PROVE  Clock(w) \in Nat /\ Clock(w)' \in Nat /\ Clock(w) <= Clock(w)'
<1>1. now \in Nat /\ now' \in Nat /\ now' >= now /\ Skew[w] \in Nat
  BY TimePasses, InputAssumption DEF TypeOK
<1> QED
  BY <1>1 DEF Clock

\* A poll begins with the clock read by the cleanup.
LEMMA PollBegins ==
  ASSUME TypeOK, NEW w \in Worker, WorkerStep(w), ~ CleanupStaleRuns(w)
  PROVE  workers'[w].pc # "pickup"
<1>1. IdleWorker.pc # "pickup" /\ Released(w).pc # "pickup"
  BY DEF IdleWorker, Released
<1>2. workers[w] \in WorkerState
  BY DEF TypeOK
<1>3. CASE CompleteRefused(w) \/ AbandonJob(w) \/ StartRunUnacknowledged(w) \/ PruneRunHistory(w)
  BY <1>1, <1>3 DEF CompleteRefused, AbandonJob, StartRunUnacknowledged, PruneRunHistory, DropJob, TypeOK
<1>4. CASE CrashWorker(w)
  BY <1>1, <1>4 DEF CrashWorker, TypeOK
<1>5. CASE StartRun(w)
  BY <1>2, <1>5 DEF StartRun, TypeOK, WorkerState
<1>6. CASE \/ EnsureRoomForJob(w) \/ CreateJobMessage(w) \/ CreateJobMessageFails(w)
           \/ CompleteSuccess(w) \/ CompleteFailure(w)
  BY <1>2, <1>6 DEF EnsureRoomForJob, CreateJobMessage, CreateJobMessageFails, CompleteSuccess,
     CompleteFailure, CompleteRun, TypeOK, WorkerState
<1>7. CASE PickupDue(w)
  <2>1. PICK due : workers' = [workers EXCEPT ![w] =
                                 IF due = {} THEN IdleWorker
                                 ELSE [IdleWorker EXCEPT !.pc = "exec", !.due = due]]
    BY <1>7, PickedState DEF PickupDue
  <2>2. [IdleWorker EXCEPT !.pc = "exec", !.due = due].pc = "exec"
    BY DEF IdleWorker
  <2> QED
    BY <1>1, <2>1, <2>2 DEF TypeOK
<1>8. CASE ExecuteJob(w)
  BY <1>8 DEF ExecuteJob, TypeOK
<1> QED
  BY <1>3, <1>4, <1>5, <1>6, <1>7, <1>8 DEF WorkerStep

LEMMA OneWorkerMoves ==
  ASSUME TypeOK, NEW w \in Worker, WorkerStep(w), NEW v \in Worker, v # w
  PROVE  workers'[v] = workers[v]
  BY DEF WorkerStep, CleanupStaleRuns, PickupDue, PickupFrom, ExecuteJob,
     EnsureRoomForJob, StartRun, StartRunUnacknowledged, CreateJobMessage, CreateJobMessageFails,
     CompleteSuccess, CompleteFailure, CompleteRun, CompleteRefused, AbandonJob, PruneRunHistory, CrashWorker,
     DropJob, TypeOK

LEMMA PastRunAtKept ==
  ASSUME TypeOK, [Next]_vars, RowsKept, NEW w \in Worker, PastRunAtOf(w),
         workers'[w].pc = "pickup" => workers'[w].at <= Clock(w)'
  PROVE  PastRunAtOf(w)'
<1>1. Clock(w) \in Nat /\ Clock(w)' \in Nat /\ Clock(w) <= Clock(w)'
  BY ClockPasses
<1>2. \A item \in workers'[w].due : item.row.kind = "once" => item.row.every <= Clock(w)'
  <2> SUFFICES ASSUME NEW item \in workers'[w].due, item.row.kind = "once" PROVE item.row.every <= Clock(w)'
    OBVIOUS
  <2>1. item \in workers[w].due
    BY DEF RowsKept
  <2>2. item.row.every \in Nat /\ item.row.every <= Clock(w)
    BY <2>1 DEF PastRunAtOf, TypeOK, WorkerState, JobRow
  <2> QED
    BY <1>1, <2>2
<1>3. Executing(w)' => /\ workers'[w].at <= Clock(w)'
                       /\ workers'[w].row.kind = "once" => workers'[w].row.every <= workers'[w].at
  <2> SUFFICES ASSUME Executing(w)'
               PROVE  /\ workers'[w].at <= Clock(w)'
                      /\ workers'[w].row.kind = "once" => workers'[w].row.every <= workers'[w].at
    OBVIOUS
  <2>1. Executing(w) /\ workers'[w].at = workers[w].at /\ workers'[w].row = workers[w].row
    BY DEF RowsKept
  <2>2. workers[w].at \in Nat
    BY DEF TypeOK, WorkerState
  <2> QED
    BY <1>1, <2>1, <2>2 DEF PastRunAtOf
<1> QED
  BY <1>2, <1>3 DEF PastRunAtOf

LEMMA PickupPastRunAt ==
  ASSUME TypeOK, OneShotRows, NEW w \in Worker, PickupDue(w), PastRunAtOf(w)
  PROVE  PastRunAtOf(w)'
<1>1. PICK picked \in SUBSET Due(workers[w].at) :
        workers' = [workers EXCEPT ![w] =
                      IF picked = {} THEN IdleWorker
                      ELSE [IdleWorker EXCEPT !.pc = "exec",
                              !.due = {[id |-> j, row |-> Leased(jobs[j])] : j \in picked}]]
  BY DEF PickupDue, PickupFrom
<1> DEFINE items == {[id |-> j, row |-> Leased(jobs[j])] : j \in picked}
           next == IF picked = {} THEN IdleWorker ELSE [IdleWorker EXCEPT !.pc = "exec", !.due = items]
<1>2. next.pc \in {"idle", "exec"} /\ next.due \subseteq items
  BY DEF IdleWorker
<1>3. now' = now /\ Clock(w)' = Clock(w) /\ workers[w].at <= Clock(w) /\ workers[w].at \in Nat /\ Clock(w) \in Nat
  BY ClockType DEF PickupDue, PickupFrom, Clock, PastRunAtOf, TypeOK, WorkerState
<1>4. \A item \in items : item.row.kind = "once" => item.row.every <= Clock(w)
  <2> SUFFICES ASSUME NEW j \in picked, Leased(jobs[j]).kind = "once" PROVE Leased(jobs[j]).every <= Clock(w)
    OBVIOUS
  <2>1. jobs[j] \in JobRow /\ jobs[j].next # Null /\ jobs[j].next <= workers[w].at /\ j \in Job
    BY DEF Due, TypeOK
  <2>2. Leased(jobs[j]).kind = jobs[j].kind /\ Leased(jobs[j]).every = jobs[j].every
    BY <2>1 DEF Leased, JobRow
  <2>3. jobs[j].next = jobs[j].every /\ jobs[j].every \in Nat
    BY <2>1, <2>2 DEF OneShotRows, ArmedOnce, JobRow
  <2> QED
    BY <1>3, <2>1, <2>2, <2>3
<1>5. workers'[w] = next
  BY <1>1 DEF TypeOK
<1> HIDE DEF next, items
<1> QED
  BY <1>2, <1>3, <1>4, <1>5 DEF PastRunAtOf, Executing

LEMMA ExecutePastRunAt ==
  ASSUME TypeOK, NEW w \in Worker, ExecuteJob(w), PastRunAtOf(w)
  PROVE  PastRunAtOf(w)'
<1>1. PICK item \in workers[w].due :
        workers' = [workers EXCEPT ![w] =
          [pc |-> IF item.row.room = Null THEN "ensure" ELSE "start",
           due |-> workers[w].due \ {item}, job |-> item.id, row |-> item.row,
           at |-> Clock(w), run |-> 0]]
  BY DEF ExecuteJob
<1>2. /\ workers'[w].pc # "pickup" /\ workers'[w].row = item.row /\ workers'[w].at = Clock(w)
      /\ workers'[w].due \subseteq workers[w].due
  BY <1>1 DEF TypeOK
<1>3. Clock(w)' = Clock(w) /\ Clock(w) \in Nat
  BY ClockType DEF ExecuteJob, Clock
<1> QED
  BY <1>2, <1>3 DEF PastRunAtOf, Executing

LEMMA PastRunAtStep ==
  ASSUME TypeOK, OneShotRows, PastRunAt, [Next]_vars
  PROVE  PastRunAt'
<1> SUFFICES ASSUME NEW v \in Worker PROVE PastRunAtOf(v)'
  BY DEF PastRunAt
<1>0. PastRunAtOf(v)
  BY DEF PastRunAt
<1>1. ASSUME workers'[v] = workers[v] PROVE PastRunAtOf(v)'
  <2>1. Clock(v) \in Nat /\ Clock(v)' \in Nat /\ Clock(v) <= Clock(v)' /\ workers[v].at \in Nat
    BY ClockPasses DEF TypeOK, WorkerState
  <2>2. \A item \in workers[v].due : item.row.every \in Nat
    BY DEF TypeOK, WorkerState, JobRow
  <2> QED
    BY <1>0, <1>1, <2>1, <2>2 DEF PastRunAtOf, Executing
<1>2. ASSUME WorkerStep(v) PROVE PastRunAtOf(v)'
  <2>1. CASE PickupDue(v)
    BY <1>0, <2>1, PickupPastRunAt
  <2>2. CASE ExecuteJob(v)
    BY <1>0, <2>2, ExecutePastRunAt
  <2>3. CASE ~ PickupDue(v) /\ ~ ExecuteJob(v)
    <3>1. RowsKept
      BY <1>2, <2>3, WorkerKeepsRows
    <3>2. CASE CleanupStaleRuns(v)
      <4>1. workers'[v].at = Clock(v) /\ Clock(v)' = Clock(v) /\ Clock(v) \in Nat
        BY <3>2, ClockType DEF CleanupStaleRuns, TypeOK, WorkerState, Clock
      <4> QED
        BY <1>0, <3>1, <4>1, PastRunAtKept
    <3>3. CASE ~ CleanupStaleRuns(v)
      BY <1>0, <1>2, <3>1, <3>3, PollBegins, PastRunAtKept
    <3> QED
      BY <3>2, <3>3
  <2> QED
    BY <2>1, <2>2, <2>3
<1>3. ASSUME NEW w \in Worker, WorkerStep(w) PROVE PastRunAtOf(v)'
  BY <1>1, <1>2, <1>3, OneWorkerMoves
<1>4. ASSUME NEW c \in Client, ClientStep(c) PROVE PastRunAtOf(v)'
  <2>1. UNCHANGED workers
    BY <1>4 DEF ClientStep, NewRequest, ContinueRequest, CreateJob, DeleteJob, Patch, RunNow, Pause, Import,
       ImportNew, ReadForUpdate, Resume, ResumeRead, UpdateWrite, RearmRead, CrashClient
  <2> QED
    BY <1>1, <2>1
<1>5. CASE Tick \/ UNCHANGED vars
  BY <1>1, <1>5 DEF Tick, vars
<1> QED
  BY <1>3, <1>4, <1>5 DEF Next

-----------------------------------------------------------------------------

\* Once the message of a one-shot job is posted, the job cannot be leased
\* again, and a worker that still holds it has posted that message.
PostedIsOver ==
    /\ \A m \in messages : Present(m[1])
    /\ \A m \in messages : jobs[m[1]].kind = "once" =>
          /\ ~ Claimable(m[1])
          /\ \A w \in Worker : Holds(w, m[1]) =>
                /\ workers[w].job = m[1] /\ workers[w].pc \in {"complete", "fail"}
                /\ workers[w].run = m[2]

\* What a step leaves a worker of a job it held or did not hold.
LEMMA HoldsNew ==
  ASSUME TypeOK, Bookkeeping, NEW w \in Worker, WorkerStep(w), NEW j \in Job, Holds(w, j)', ~ Holds(w, j)
  PROVE  j \in Due(workers[w].at)
<1>0. Null \notin Job
  BY InputAssumption
<1>1. CASE PickupDue(w)
  <2>1. PICK picked \in SUBSET Due(workers[w].at) :
          workers' = [workers EXCEPT ![w] =
                        IF picked = {} THEN IdleWorker
                        ELSE [IdleWorker EXCEPT !.pc = "exec",
                                !.due = {[id |-> i, row |-> Leased(jobs[i])] : i \in picked}]]
    BY <1>1 DEF PickupDue, PickupFrom
  <2> DEFINE items == {[id |-> i, row |-> Leased(jobs[i])] : i \in picked}
             next == IF picked = {} THEN IdleWorker ELSE [IdleWorker EXCEPT !.pc = "exec", !.due = items]
  <2>2. next.job = Null /\ next.due \subseteq items
    BY DEF IdleWorker
  <2>3. workers'[w] = next
    BY <2>1 DEF TypeOK
  <2>4. \A item \in items : item.id \in Due(workers[w].at)
    OBVIOUS
  <2> HIDE DEF next, items
  <2> QED
    BY <1>0, <2>2, <2>3, <2>4 DEF Holds
<1>2. CASE ExecuteJob(w)
  <2>1. PICK item \in workers[w].due :
          workers' = [workers EXCEPT ![w] =
            [pc |-> IF item.row.room = Null THEN "ensure" ELSE "start",
             due |-> workers[w].due \ {item}, job |-> item.id, row |-> item.row,
             at |-> Clock(w), run |-> 0]]
    BY <1>2 DEF ExecuteJob
  <2>2. workers'[w].job = item.id /\ workers'[w].due \subseteq workers[w].due
    BY <2>1 DEF TypeOK
  <2> QED
    BY <2>2 DEF Holds
<1>3. CASE ~ PickupDue(w) /\ ~ ExecuteJob(w)
  <2>1. RowsKept /\ WorkersRest'
    <3>1. CASE StartRun(w)
      BY <1>3, <3>1, InsertBooks, WorkerKeepsRows
    <3>2. CASE ~ StartRun(w)
      <4>1. OtherStep(w)
        BY <3>2 DEF WorkerStep, OtherStep, QuietStep
      <4> QED
        BY <1>3, <4>1, WorkerKeepsRows, WorkerGoesOn DEF Bookkeeping
    <3> QED
      BY <3>1, <3>2
  <2>2. ~ \E item \in workers'[w].due : item.id = j
    BY <2>1 DEF RowsKept, Holds
  <2>3. workers'[w].job = j /\ workers'[w].pc # "prune"
    BY <2>2 DEF Holds
  <2>4. Executing(w)'
    BY <1>0, <2>1, <2>3 DEF WorkersRest
  <2>5. Executing(w) /\ workers[w].job = j
    BY <2>1, <2>3, <2>4 DEF RowsKept
  <2>6. workers[w].pc = "prune"
    BY <2>5 DEF Holds
  <2>7. PruneRunHistory(w) \/ CrashWorker(w)
    BY <2>6 DEF WorkerStep, CleanupStaleRuns, PickupDue, PickupFrom, ExecuteJob, EnsureRoomForJob, StartRun,
       StartRunUnacknowledged, CreateJobMessage, CreateJobMessageFails, CompleteSuccess, CompleteFailure,
       CompleteRefused, AbandonJob
  <2>8. workers'[w].job = Null
    <3>1. Released(w).job = Null /\ IdleWorker.job = Null
      BY DEF Released, IdleWorker
    <3>2. workers'[w] \in {Released(w), IdleWorker}
      <4>1. CASE PruneRunHistory(w)
        BY <4>1 DEF PruneRunHistory, DropJob, TypeOK
      <4>2. CASE CrashWorker(w)
        BY <4>2 DEF CrashWorker, TypeOK
      <4> QED
        BY <2>7, <4>1, <4>2
    <3> QED
      BY <3>1, <3>2
  <2> QED
    BY <1>0, <2>3, <2>8
<1> QED
  BY <1>1, <1>2, <1>3

\* A worker that has its message posted, or failed to, lets the job go next.
LEMMA HoldsEnds ==
  ASSUME TypeOK, DueDistinct, NEW w \in Worker, WorkerStep(w), NEW j \in Job,
         workers[w].job = j, workers[w].pc \in {"complete", "fail"}
  PROVE  ~ Holds(w, j)'
<1>0. Null \notin Job /\ workers[w] \in WorkerState
  BY InputAssumption DEF TypeOK
<1>1. \A item \in workers[w].due : item.id # j
  BY DEF DueDistinct
<1>2. CASE CompleteSuccess(w) \/ CompleteFailure(w)
  <2>1. workers'[w].pc = "prune" /\ workers'[w].due = workers[w].due
    BY <1>0, <1>2 DEF CompleteSuccess, CompleteFailure, CompleteRun, TypeOK, WorkerState
  <2> QED
    BY <1>1, <2>1 DEF Holds
<1>3. CASE CompleteRefused(w) \/ AbandonJob(w) \/ CrashWorker(w)
  <2>1. workers'[w].job = Null /\ workers'[w].due \subseteq workers[w].due
    <3>1. /\ Released(w).job = Null /\ Released(w).due \subseteq workers[w].due
          /\ IdleWorker.job = Null /\ IdleWorker.due = {}
      BY DEF Released, IdleWorker
    <3>2. workers'[w] \in {Released(w), IdleWorker}
      <4>1. CASE CompleteRefused(w) \/ AbandonJob(w)
        BY <4>1 DEF CompleteRefused, AbandonJob, DropJob, TypeOK
      <4>2. CASE CrashWorker(w)
        BY <4>2 DEF CrashWorker, TypeOK
      <4> QED
        BY <1>3, <4>1, <4>2
    <3> QED
      BY <3>1, <3>2
  <2> QED
    BY <1>0, <1>1, <2>1 DEF Holds
<1> QED
  BY <1>2, <1>3 DEF WorkerStep, CleanupStaleRuns, PickupDue, PickupFrom, ExecuteJob, EnsureRoomForJob, StartRun,
     StartRunUnacknowledged, CreateJobMessage, CreateJobMessageFails, PruneRunHistory

\* A one-shot job that has been created and is not claimable stays so.
LEMMA OverStays ==
  ASSUME LeaseSafe, TypeOK, Bookkeeping, LeaseInv, KindsAgree, PastRunAt, TableKept, [Next]_vars,
         NEW j \in Job, Present(j), jobs'[j].kind = "once", jobs[j].kind = "once" => ~ Claimable(j)
  PROVE  jobs[j].kind = "once" /\ ~ Claimable(j)'
<1>0. Present(j)'
  BY DEF TableKept
<1>1. ASSUME NEW w \in Worker, WorkerStep(w) PROVE jobs[j].kind = "once" /\ ~ Claimable(j)'
  <2>1. ScheduleKept(jobs[j], jobs'[j])
    BY <1>1, WorkerTable
  <2>2. jobs[j].kind = "once" /\ ~ Claimable(j)
    BY <2>1 DEF ScheduleKept
  <2>3. jobs'[j].next = Null \/ jobs'[j].next = jobs[j].next
    <3>1. CASE j = workers[w].job /\ (CompleteSuccess(w) \/ CompleteFailure(w))
      BY <2>2, <3>1, OneShotIsDone
    <3> QED
      BY <1>1, <3>1, WorkerNext
  <2> QED
    BY <1>0, <2>1, <2>2, <2>3 DEF ScheduleKept, Claimable, Present
<1>2. ASSUME jobs'[j] = jobs[j] PROVE jobs[j].kind = "once" /\ ~ Claimable(j)'
  BY <1>2 DEF Claimable
<1>3. ASSUME NEW c \in Client, ClientStep(c) PROVE jobs[j].kind = "once" /\ ~ Claimable(j)'
  <2>1. CASE UpdateWrite(c) /\ j = clients[c].job /\ Exists(j)
    <3>1. clients[c].row.status = "paused" /\ clients[c].row.kind = jobs[j].kind
      BY <2>1, WriteFields DEF LeaseInv, ClientsOnlyPause, KindsAgree, SameKind
    <3>2. jobs'[j].status = "paused" /\ jobs'[j].kind = jobs[j].kind
      BY <2>1, <3>1, WriteFields
    <3> QED
      BY <3>2 DEF Claimable
  <2>2. CASE UpdateWrite(c) /\ ~ (j = clients[c].job /\ Exists(j))
    BY <1>2, <2>2, WriteFields
  <2>3. CASE ~ UpdateWrite(c)
    <3>1. NoRow("deleted").kind = "interval"
      BY DEF NoRow
    <3>2. jobs'[j] = jobs[j] \/ jobs'[j] = NoRow("deleted")
      BY <1>3, <2>3, RequestTable DEF Present
    <3> QED
      BY <1>2, <3>1, <3>2
  <2> QED
    BY <2>1, <2>2, <2>3
<1>4. CASE Tick \/ UNCHANGED vars
  BY <1>2, <1>4 DEF Tick, vars
<1> QED
  BY <1>1, <1>3, <1>4 DEF Next

\* The inductive invariant of OneShotPostsOnce.
OneShotInv == OneShotRows /\ PastRunAt /\ PostedIsOver /\ OneShotPostsOnce

\* The message that a worker posts is the first one of a one-shot job.
LEMMA PostingFirst ==
  ASSUME TypeOK, LeaseInv, PostedIsOver, NEW w \in Worker, workers[w].pc = "send",
         jobs[workers[w].job].kind = "once"
  PROVE  /\ workers[w].job \in Job /\ Present(workers[w].job) /\ ~ Claimable(workers[w].job)
         /\ \A m \in messages : m[1] # workers[w].job
<1>1. workers[w].job \in Job /\ Holds(w, workers[w].job)
  BY DEF TypeOK, Executing, Holds
<1>2. ~ Claimable(workers[w].job)
  BY <1>1 DEF LeaseInv, ClaimableIsFree, Free
<1> QED
  BY <1>1, <1>2 DEF PostedIsOver, Claimable, Present

\* A step keeps what is known of a message that was posted before.
LEMMA OldMessage ==
  ASSUME LeaseSafe, TypeOK, Bookkeeping, LeaseInv, KindsAgree, PastRunAt, TableKept, PostedIsOver, [Next]_vars,
         NEW m \in messages, jobs'[m[1]].kind = "once"
  PROVE  /\ jobs[m[1]].kind = "once" /\ ~ Claimable(m[1])'
         /\ \A w \in Worker : Holds(w, m[1])' => /\ workers'[w].job = m[1]
                                                 /\ workers'[w].pc \in {"complete", "fail"}
                                                 /\ workers'[w].run = m[2]
<1> DEFINE j == m[1]
<1>1. j \in Job /\ Present(j)
  BY DEF TypeOK, PostedIsOver
<1>2. jobs[j].kind = "once" => ~ Claimable(j)
  BY DEF PostedIsOver
<1>3. jobs[j].kind = "once" /\ ~ Claimable(j)'
  BY <1>1, <1>2, OverStays
<1>4. ASSUME NEW v \in Worker, Holds(v, j)'
      PROVE  workers'[v].job = j /\ workers'[v].pc \in {"complete", "fail"} /\ workers'[v].run = m[2]
  <2>1. Holds(v, j) => /\ workers[v].job = j /\ workers[v].pc \in {"complete", "fail"}
                       /\ workers[v].run = m[2]
    BY <1>3 DEF PostedIsOver
  <2>2. CASE workers'[v] = workers[v]
    BY <1>4, <2>1, <2>2 DEF Holds
  <2>3. CASE WorkerStep(v)
    <3>1. ~ Holds(v, j)
      BY <1>1, <1>4, <2>1, <2>3, HoldsEnds DEF LeaseInv
    <3>2. j \in Due(workers[v].at)
      BY <1>1, <1>4, <2>3, <3>1, HoldsNew
    <3> QED
      BY <1>2, <1>3, <3>2 DEF Due, Claimable
  <2>4. WorkerStep(v) \/ workers'[v] = workers[v]
    <3>1. ASSUME NEW c \in Client, ClientStep(c) PROVE UNCHANGED workers
      BY <3>1 DEF ClientStep, NewRequest, ContinueRequest, CreateJob, DeleteJob, Patch, RunNow, Pause, Import,
         ImportNew, ReadForUpdate, Resume, ResumeRead, UpdateWrite, RearmRead, CrashClient
    <3> QED
      BY <3>1, OneWorkerMoves DEF Next, Tick, vars
  <2> QED
    BY <2>2, <2>3, <2>4
<1> QED
  BY <1>3, <1>4

LEMMA PostedStep ==
  ASSUME LeaseSafe, TypeOK, Bookkeeping, LeaseInv, KindsAgree, TableKept, OneShotInv, [Next]_vars
  PROVE  PostedIsOver' /\ OneShotPostsOnce'
<1>0. PostedIsOver /\ PastRunAt /\ OneShotPostsOnce
  BY DEF OneShotInv
<1>1. CASE messages' = messages
  <2>1. \A m \in messages : m[1] \in Job /\ Present(m[1])
    BY <1>0 DEF TypeOK, PostedIsOver
  <2>2. \A m \in messages' : Present(m[1])'
    BY <1>1, <2>1 DEF TableKept
  <2>3. PostedIsOver'
    BY <1>0, <1>1, <2>2, OldMessage DEF PostedIsOver, Present
  <2>4. OneShotPostsOnce'
    BY <1>0, <1>1, OldMessage DEF OneShotPostsOnce
  <2> QED
    BY <2>3, <2>4
<1>2. ASSUME NEW w \in Worker, CreateJobMessage(w) \/ CreateJobMessageFails(w), messages' # messages
      PROVE  PostedIsOver' /\ OneShotPostsOnce'
  <2> DEFINE j == workers[w].job
             new == <<j, workers[w].run>>
  <2>1. /\ messages' = messages \cup {new} /\ workers[w].pc = "send" /\ jobs' = jobs
        /\ \E pc \in {"complete", "fail"} : workers' = [workers EXCEPT ![w].pc = pc]
    BY <1>2 DEF CreateJobMessage, CreateJobMessageFails
  <2>2. /\ \A v \in Worker : v # w => workers'[v] = workers[v]
        /\ workers'[w].pc \in {"complete", "fail"} /\ workers'[w].job = j
        /\ workers'[w].run = workers[w].run
    BY <2>1 DEF TypeOK, WorkerState
  <2>3. j \in Job /\ Holds(w, j) /\ Present(j)
    <3>1. j \in Job /\ Holds(w, j)
      BY <2>1 DEF TypeOK, Executing, Holds
    <3>2. ~ Claimable(j)
      BY <3>1 DEF LeaseInv, ClaimableIsFree, Free
    <3> QED
      BY <3>1, <3>2 DEF Claimable, Present
  <2>4. ASSUME jobs[j].kind = "once"
        PROVE  /\ ~ Claimable(j)' /\ \A m \in messages : m[1] # j
               /\ \A v \in Worker : Holds(v, j)' => v = w
    <3>1. ~ Claimable(j) /\ \A m \in messages : m[1] # j
      BY <1>0, <2>1, <2>4, PostingFirst
    <3>2. jobs'[j] = jobs[j]
      BY <2>1
    <3>3. ~ (jobs'[j].status = "absent" \/ (jobs'[j].status = "active" /\ jobs'[j].next # Null))
      BY <3>1, <3>2 DEF Claimable
    <3>4. \A v \in Worker : Holds(v, j) => v = w
      BY <2>3 DEF LeaseInv, HeldOnce
    <3>5. \A v \in Worker : Holds(v, j)' => v = w
      <4> SUFFICES ASSUME NEW v \in Worker, v # w, Holds(v, j)' PROVE FALSE
        OBVIOUS
      <4>1. workers'[v] = workers[v]
        BY <2>2
      <4>2. (\E item \in workers'[v].due : item.id = workers'[w].job)
            \/ (workers'[v].job = workers'[w].job /\ workers'[v].pc # "prune")
        BY DEF Holds
      <4> QED
        BY <2>2, <3>4, <4>1, <4>2 DEF Holds
    <3> QED
      BY <2>2, <3>1, <3>3, <3>5 DEF Claimable
  <2>5. \A m \in messages : Present(m[1])'
    BY <1>0, <2>1 DEF PostedIsOver, Present
  <2>6. \A m \in messages' : Present(m[1])'
    BY <2>1, <2>3, <2>5 DEF Present
  <2>7. PostedIsOver'
    <3> SUFFICES ASSUME NEW m \in messages', jobs'[m[1]].kind = "once"
                 PROVE  /\ ~ Claimable(m[1])'
                        /\ \A v \in Worker : Holds(v, m[1])' =>
                              /\ workers'[v].job = m[1] /\ workers'[v].pc \in {"complete", "fail"}
                              /\ workers'[v].run = m[2]
      BY <2>6 DEF PostedIsOver, Present
    <3>1. CASE m \in messages
      BY <1>0, <3>1, OldMessage
    <3>2. CASE m = new
      <4>1. m[1] = j /\ m[2] = workers[w].run
        BY <3>2
      <4>2. jobs[j].kind = "once"
        BY <2>1, <4>1
      <4>3. ~ Claimable(m[1])'
        BY <2>2, <2>4, <4>1, <4>2 DEF Claimable
      <4>4. \A v \in Worker : Holds(v, m[1])' => v = w
        BY <2>2, <2>4, <4>1, <4>2 DEF Holds
      <4> QED
        BY <2>2, <4>1, <4>3, <4>4
    <3> QED
      BY <2>1, <3>1, <3>2
  <2>8. OneShotPostsOnce'
    <3> SUFFICES ASSUME NEW m \in messages', NEW n \in messages', m[1] = n[1], jobs'[m[1]].kind = "once"
                 PROVE  m = n
      BY DEF OneShotPostsOnce
    <3>1. CASE m \in messages /\ n \in messages
      BY <1>0, <2>1, <3>1 DEF OneShotPostsOnce
    <3>2. CASE ~ (m \in messages /\ n \in messages)
      BY <2>1, <2>4, <3>2
    <3> QED
      BY <3>1, <3>2
  <2> QED
    BY <2>7, <2>8
<1>3. messages' = messages \/ \E w \in Worker : CreateJobMessage(w) \/ CreateJobMessageFails(w)
  <2>1. ASSUME NEW w \in Worker, WorkerStep(w), ~ CreateJobMessage(w), ~ CreateJobMessageFails(w)
        PROVE  messages' = messages
    BY <2>1 DEF WorkerStep, CleanupStaleRuns, PickupDue, PickupFrom, ExecuteJob, EnsureRoomForJob, StartRun,
       StartRunUnacknowledged, CompleteSuccess, CompleteFailure, CompleteRun, CompleteRefused, AbandonJob,
       PruneRunHistory, CrashWorker
  <2>2. ASSUME NEW c \in Client, ClientStep(c) PROVE messages' = messages
    BY <2>2 DEF ClientStep, NewRequest, ContinueRequest, CreateJob, DeleteJob, Patch, RunNow, Pause, Import,
       ImportNew, ReadForUpdate, Resume, ResumeRead, UpdateWrite, RearmRead, CrashClient
  <2>3. CASE Tick \/ UNCHANGED vars
    BY <2>3 DEF Tick, vars
  <2> QED
    BY <2>1, <2>2, <2>3 DEF Next
<1> QED
  BY <1>1, <1>2, <1>3

LEMMA OneShotInit == Init => OneShotInv
<1> SUFFICES ASSUME Init PROVE OneShotInv
  OBVIOUS
<1>1. messages = {}
  BY DEF Init
<1>2. \A w \in Worker : workers[w].pc = "idle" /\ workers[w].due = {}
  BY DEF Init, IdleWorker
<1>3. \A c \in Client : clients[c].pc = "idle"
  BY DEF Init, IdleClient
<1>4. \A j \in Job : ArmedOnce(jobs[j])
  <2>1. ArmedOnce(NoRow("absent"))
    BY DEF ArmedOnce, NoRow
  <2> QED
    BY <2>1, CreatedArmed DEF Init
<1> QED
  BY <1>1, <1>2, <1>3, <1>4 DEF OneShotInv, OneShotRows, PastRunAt, PastRunAtOf, PostedIsOver, OneShotPostsOnce,
     Executing

\* The inductive invariant of RunsAreSound.
SoundInv ==
    /\ Bookkeeping /\ LeaseInv /\ MemoryIsPresent /\ KindsAgree
    /\ LiveRuns /\ FailingJobIsPaused /\ OneShotInv

\* The runs of the scheduler are sound: leases exclude each other, a job that
\* keeps failing is paused, a once job posts one message, and a cleanup spares
\* the runs of live workers.
THEOREM RunsStaySound == LeaseSafe /\ ClocksAgree /\ Spec => []RunsAreSound
<1>1. Init => TypeOK /\ SoundInv
  <2>1. Init => LiveRuns
    <3>1. Init => \A w \in Worker : ~ InRun(w)
      BY DEF Init, InRun, IdleWorker
    <3> QED
      BY <3>1 DEF LiveRuns, LiveRun
  <2> QED
    BY <2>1, InitTypeOK, BooksInit, LeaseInit, MemoryInit, FailingInit, OneShotInit DEF SoundInv
<1>2. ASSUME LeaseSafe, ClocksAgree, TypeOK, SoundInv, [Next]_vars PROVE (TypeOK /\ SoundInv)'
  <2>0. KindsFixed
    BY <1>2 DEF LeaseSafe, KindsFixed
  <2>1. TypeOK' /\ Bookkeeping' /\ LeaseInv'
    BY <1>2, NextTypeOK, BooksStep, LeaseStep DEF SoundInv
  <2>2. MemoryIsPresent' /\ KindsAgree' /\ TableKept
    BY <1>2, <2>0, MemoryStep DEF SoundInv
  <2>3. LiveRuns' /\ FailingJobIsPaused'
    BY <1>2, LiveStep, FailingStep DEF SoundInv
  <2>4. OneShotInv'
    BY <1>2, <2>2, OneShotRowsStep, PastRunAtStep, PostedStep DEF SoundInv, OneShotInv
  <2> QED
    BY <2>1, <2>2, <2>3, <2>4 DEF SoundInv
<1>3. SoundInv => RunsAreSound
  BY LiveSpares DEF SoundInv, OneShotInv, RunsAreSound
<1>4. CASE LeaseSafe /\ ClocksAgree
  <2>1. TypeOK /\ SoundInv /\ [Next]_vars => (TypeOK /\ SoundInv)'
    BY <1>2, <1>4
  <2> QED
    BY <1>1, <1>3, <2>1, PTL DEF Spec
<1> QED
  BY <1>4

-----------------------------------------------------------------------------
(* No recurring job is forgotten by workers that nothing disturbs          *)

\* One server polls.
OneWorker == \A v, w \in Worker : v = w

\* A worker that is about to prune the runs of a job in which another is in a run
\* finds fewer than MaxRunHistory runs that started as late as that one.
HistoryReachesBack ==
    \A v, w \in Worker :
        LET r == workers[v].run IN
        /\ v # w /\ InRun(v) /\ r \in DOMAIN runs
        /\ workers[w].pc = "prune" /\ workers[w].job = workers[v].job
        => Cardinality({k \in RunsOf(workers[v].job) \ {r} : runs[k].started >= runs[r].started})
               < MaxRunHistory

\* Crashes and faults only use up their budgets.
BudgetKept == budget.crashes <= MaxCrashes /\ budget.faults <= MaxFaults

\* No worker is past the deadline of its run.
InTime == \A w \in Worker : Executing(w) => ~ Expired(w)

\* The run of a worker goes on as long as its job is there.
RunsAlive == \A w \in Worker : InRun(w) /\ Exists(workers[w].job) => StillRunning(workers[w].run)

\* A request that sets next_run_at has a time to set it to.
WritesArmOf(c) ==
    /\ clients[c].pc \in {"resume", "rearm"} => clients[c].next # Null
    /\ clients[c].pc = "write" => \/ clients[c].op = "patch"
                                  \/ clients[c].row.status = "paused"
                                  \/ clients[c].row.next # Null

\* WritesArmOf for every request.
WritesArm == \A c \in Client : WritesArmOf(c)

\* The first run of a schedule is never without a time.
LEMMA FirstRunArmed ==
  ASSUME NEW row \in JobRow, NEW t \in Nat
  PROVE  ComputeNextRun(row, t, Null) # Null
<1>1. CASE row.kind = "interval"
  <2>1. ComputeNextRun(row, t, Null) = t + row.every /\ t + row.every \in Nat
    BY <1>1 DEF ComputeNextRun, JobRow
  <2> QED
    BY <2>1, InputAssumption
<1>2. CASE row.kind = "cron"
  <2>1. ComputeNextRun(row, t, Null) = ((t \div row.every) + 1) * row.every
    BY <1>2 DEF ComputeNextRun
  <2>2. t \div row.every \in Nat /\ row.every \in Nat
    BY DEF JobRow
  <2>3. \A a, b \in Nat : (a + 1) * b \in Nat
    OBVIOUS
  <2> QED
    BY <2>1, <2>2, <2>3, InputAssumption
<1>3. CASE row.kind = "once"
  <2>1. ComputeNextRun(row, t, Null) = row.every
    BY <1>3 DEF ComputeNextRun, OncePassed
  <2> QED
    BY <2>1, InputAssumption DEF JobRow
<1> QED
  BY <1>1, <1>2, <1>3 DEF JobRow, ScheduleKinds

\* The next run of a recurring schedule is never without a time.
LEMMA NextRunArmed ==
  ASSUME NEW row \in JobRow, row.kind # "once", NEW t \in Nat
  PROVE  ComputeNextRun(row, t, t) # Null /\ ComputeFailureNextRun(row, t) # Null
<1>0. RetryDelay \in Nat /\ t + RetryDelay \in Nat
  BY BoundsAssumption
<1>1. ComputeNextRun(row, t, t) # Null
  <2>1. CASE row.kind = "interval"
    <3>1. ComputeNextRun(row, t, t) = t + row.every /\ t + row.every \in Nat
      BY <2>1, InputAssumption DEF ComputeNextRun, JobRow
    <3> QED
      BY <3>1, InputAssumption
  <2>2. CASE row.kind = "cron"
    <3>1. ComputeNextRun(row, t, t) = ((t \div row.every) + 1) * row.every
      BY <2>2 DEF ComputeNextRun
    <3>2. t \div row.every \in Nat /\ row.every \in Nat
      BY DEF JobRow
    <3>3. \A a, b \in Nat : (a + 1) * b \in Nat
      OBVIOUS
    <3> QED
      BY <3>1, <3>2, <3>3, InputAssumption
  <2> QED
    BY <2>1, <2>2 DEF JobRow, ScheduleKinds
<1> QED
  BY <1>0, <1>1, InputAssumption DEF ComputeFailureNextRun

\* The completion of a run arms a job that recurs.
LEMMA CompletionArms ==
  ASSUME TypeOK, Bookkeeping, KindsAgree, NEW w \in Worker, CompleteSuccess(w) \/ CompleteFailure(w),
         jobs[workers[w].job].kind # "once"
  PROVE  jobs'[workers[w].job].next # Null
<1> DEFINE j == workers[w].job
           row == workers[w].row
<1>1. j \in Job /\ Exists(j) /\ Executing(w) /\ jobs[j] \in JobRow /\ row \in JobRow
  BY CompletedRow DEF CompletedRun, Executing, TypeOK, WorkerState
<1>2. PICK new \in JobRow, next \in TimeOrNull : CompletedWith(w, new, next)
  BY CompletedRow
<1>3. row.kind # "once"
  BY <1>1 DEF KindsAgree, SameKind
<1>4. workers[w].at \in Nat /\ Clock(w) \in Nat
  BY ClockType DEF TypeOK, WorkerState
<1>5. next # Null
  BY <1>1, <1>2, <1>3, <1>4, NextRunArmed DEF CompletedWith, ChargedWith, CreditedWith
<1>6. jobs'[j].next = next
  BY <1>1, <1>2 DEF CompletedWith, TypeOK, JobRow
<1> QED
  BY <1>5, <1>6

\* A worker lets a job go by completing or giving up its run, or by a failure.
LEMMA HoldsLost ==
  ASSUME TypeOK, WorkersRest, NEW w \in Worker, WorkerStep(w), NEW j \in Job, Holds(w, j), ~ Holds(w, j)'
  PROVE  \/ workers[w].job = j /\ \/ CompleteSuccess(w) \/ CompleteFailure(w)
                                  \/ CompleteRefused(w) \/ AbandonJob(w)
         \/ StartRunUnacknowledged(w) \/ CrashWorker(w)
<1>0. Null \notin Job /\ workers[w] \in WorkerState
  BY InputAssumption DEF TypeOK
<1>1. ~ CleanupStaleRuns(w)
  <2> SUFFICES ASSUME CleanupStaleRuns(w) PROVE FALSE
    OBVIOUS
  <2>1. workers'[w].pc = "pickup" /\ workers'[w].due = workers[w].due /\ workers'[w].job = workers[w].job
    BY <1>0 DEF CleanupStaleRuns, TypeOK, WorkerState
  <2> QED
    BY <2>1 DEF Holds
<1>2. ~ PickupDue(w)
  BY <1>0 DEF PickupDue, PickupFrom, WorkersRest, Executing, Holds
<1>3. ~ ExecuteJob(w)
  <2> SUFFICES ASSUME ExecuteJob(w) PROVE FALSE
    OBVIOUS
  <2>1. PICK item \in workers[w].due :
          workers' = [workers EXCEPT ![w] =
            [pc |-> IF item.row.room = Null THEN "ensure" ELSE "start",
             due |-> workers[w].due \ {item}, job |-> item.id, row |-> item.row,
             at |-> Clock(w), run |-> 0]]
    BY DEF ExecuteJob
  <2>2. /\ workers'[w].job = item.id /\ workers'[w].due = workers[w].due \ {item}
        /\ workers'[w].pc # "prune"
    BY <2>1 DEF TypeOK
  <2>3. workers[w].job # j
    BY <1>0 DEF ExecuteJob, WorkersRest, Executing
  <2> QED
    BY <2>2, <2>3 DEF Holds
<1>4. ~ (EnsureRoomForJob(w) \/ StartRun(w) \/ CreateJobMessage(w) \/ CreateJobMessageFails(w))
  <2> SUFFICES ASSUME EnsureRoomForJob(w) \/ StartRun(w) \/ CreateJobMessage(w) \/ CreateJobMessageFails(w)
               PROVE  FALSE
    OBVIOUS
  <2>1. workers'[w].pc # "prune" /\ workers'[w].due = workers[w].due /\ workers'[w].job = workers[w].job
    <3>1. CASE StartRun(w)
      BY <1>0, <3>1 DEF StartRun, TypeOK, WorkerState
    <3>2. CASE EnsureRoomForJob(w) \/ CreateJobMessage(w) \/ CreateJobMessageFails(w)
      BY <1>0, <3>2 DEF EnsureRoomForJob, CreateJobMessage, CreateJobMessageFails, TypeOK, WorkerState
    <3> QED
      BY <3>1, <3>2
  <2>2. workers[w].pc # "prune"
    BY DEF EnsureRoomForJob, StartRun, CreateJobMessage, CreateJobMessageFails
  <2> QED
    BY <2>1, <2>2 DEF Holds
<1>5. CompleteSuccess(w) \/ CompleteFailure(w) => workers[w].job = j
  <2> SUFFICES ASSUME CompleteSuccess(w) \/ CompleteFailure(w) PROVE workers[w].job = j
    OBVIOUS
  <2>1. workers'[w].due = workers[w].due
    BY <1>0 DEF CompleteSuccess, CompleteFailure, CompleteRun, TypeOK, WorkerState
  <2> QED
    BY <2>1 DEF Holds
<1>6. DropJob(w) => workers[w].job = j /\ workers[w].pc # "prune"
  <2> SUFFICES ASSUME DropJob(w) PROVE workers[w].job = j /\ workers[w].pc # "prune"
    OBVIOUS
  <2>1. workers'[w] = Released(w) /\ Released(w).due = workers[w].due
    BY DEF DropJob, TypeOK, Released, IdleWorker
  <2> QED
    BY <2>1 DEF Holds
<1>7. ~ PruneRunHistory(w)
  BY <1>6 DEF PruneRunHistory
<1>8. CompleteRefused(w) \/ AbandonJob(w) => workers[w].job = j
  BY <1>6 DEF CompleteRefused, AbandonJob
<1> QED
  BY <1>1, <1>2, <1>3, <1>4, <1>5, <1>7, <1>8 DEF WorkerStep

LEMMA BudgetStep ==
  ASSUME TypeOK, BudgetKept, [Next]_vars
  PROVE  /\ BudgetKept'
         /\ ~ Disturbed' => ~ Disturbed /\ ~ Spend("crashes") /\ ~ Spend("faults")
<1>0. MaxCrashes \in Nat /\ MaxFaults \in Nat
  BY BoundsAssumption
<1>1. UNCHANGED budget \/ Spend("requests") \/ Spend("crashes") \/ Spend("faults")
  <2>1. ASSUME NEW w \in Worker, WorkerStep(w)
        PROVE  UNCHANGED budget \/ Spend("crashes") \/ Spend("faults")
    BY <2>1 DEF WorkerStep, CleanupStaleRuns, PickupDue, PickupFrom, ExecuteJob, EnsureRoomForJob, StartRun,
       StartRunUnacknowledged, CreateJobMessage, CreateJobMessageFails, CompleteSuccess, CompleteFailure,
       CompleteRun, CompleteRefused, AbandonJob, PruneRunHistory, CrashWorker
  <2>2. ASSUME NEW c \in Client, ClientStep(c)
        PROVE  UNCHANGED budget \/ Spend("requests") \/ Spend("crashes")
    BY <2>2 DEF ClientStep, NewRequest, ContinueRequest, CreateJob, DeleteJob, Patch, RunNow, Pause, Import,
       ImportNew, ReadForUpdate, Resume, ResumeRead, UpdateWrite, RearmRead, CrashClient
  <2> QED
    BY <2>1, <2>2 DEF Next, Tick, vars
<1>2. ASSUME NEW kind \in {"requests", "crashes", "faults"}, Spend(kind)
      PROVE  /\ budget[kind] \in Nat /\ budget'[kind] = budget[kind] - 1
             /\ \A k \in {"requests", "crashes", "faults"} : k # kind => budget'[k] = budget[k]
  BY <1>2 DEF Spend, TypeOK
<1>3. budget.requests \in Nat /\ budget.crashes \in Nat /\ budget.faults \in Nat
  BY DEF TypeOK
<1>4. CASE UNCHANGED budget
  BY <1>0, <1>2, <1>3, <1>4 DEF BudgetKept, Disturbed
<1>5. CASE Spend("requests")
  BY <1>0, <1>2, <1>3, <1>5 DEF BudgetKept, Disturbed
<1>6. CASE Spend("crashes")
  BY <1>0, <1>2, <1>3, <1>6 DEF BudgetKept, Disturbed
<1>7. CASE Spend("faults")
  BY <1>0, <1>2, <1>3, <1>7 DEF BudgetKept, Disturbed
<1> QED
  BY <1>1, <1>4, <1>5, <1>6, <1>7

LEMMA InTimeStep ==
  ASSUME Timely, TypeOK, InTime, [Next]_vars
  PROVE  InTime'
<1>0. Null \notin Nat /\ RunTimeout \in Nat \ {0}
  BY BoundsAssumption, InputAssumption
<1>1. ASSUME RowsKept, now' = now PROVE InTime'
  BY <1>1 DEF InTime, RowsKept, Expired, Clock
<1>2. ASSUME NEW w \in Worker, WorkerStep(w) PROVE InTime'
  <2>0. now' = now
    BY <1>2 DEF WorkerStep, CleanupStaleRuns, PickupDue, PickupFrom, ExecuteJob, EnsureRoomForJob, StartRun,
       StartRunUnacknowledged, CreateJobMessage, CreateJobMessageFails, CompleteSuccess, CompleteFailure,
       CompleteRun, CompleteRefused, AbandonJob, PruneRunHistory, CrashWorker
  <2>1. CASE PickupDue(w)
    <3>1. PICK due : workers' = [workers EXCEPT ![w] =
                                   IF due = {} THEN IdleWorker
                                   ELSE [IdleWorker EXCEPT !.pc = "exec", !.due = due]]
      BY <2>1, PickedState DEF PickupDue
    <3>2. [IdleWorker EXCEPT !.pc = "exec", !.due = due].pc = "exec" /\ IdleWorker.pc = "idle"
      BY DEF IdleWorker
    <3>3. \A v \in Worker : v # w => workers'[v] = workers[v]
      BY <3>1 DEF TypeOK
    <3>4. workers'[w].pc \in {"idle", "exec"}
      BY <3>1, <3>2 DEF TypeOK
    <3> QED
      BY <2>0, <3>3, <3>4 DEF InTime, Executing, Expired, Clock
  <2>2. CASE ExecuteJob(w)
    <3>1. workers'[w].at = Clock(w) /\ \A v \in Worker : v # w => workers'[v] = workers[v]
      BY <2>2 DEF ExecuteJob, TypeOK
    <3>2. Clock(w)' = Clock(w) /\ Clock(w) \in Nat
      BY <2>0, ClockType DEF Clock
    <3>3. ~ (Clock(w)' >= workers'[w].at + RunTimeout)
      BY <1>0, <3>1, <3>2
    <3> QED
      BY <2>0, <3>1, <3>3 DEF InTime, Executing, Expired, Clock
  <2>3. CASE ~ PickupDue(w) /\ ~ ExecuteJob(w)
    BY <1>1, <1>2, <2>0, <2>3, WorkerKeepsRows
  <2> QED
    BY <2>1, <2>2, <2>3
<1>3. CASE Tick
  <2>1. workers' = workers /\ now' = now + 1 /\ now \in Nat
    BY <1>3 DEF Tick, TypeOK
  <2> SUFFICES ASSUME NEW w \in Worker, Executing(w)' PROVE ~ Expired(w)'
    BY DEF InTime
  <2>2. Executing(w) /\ Clock(w) + 1 < workers[w].at + RunTimeout
    BY <1>3, <2>1 DEF Tick, Executing
  <2>3. Clock(w)' = Clock(w) + 1 /\ Clock(w) \in Nat /\ workers[w].at \in Nat
    <3>1. Skew[w] \in Nat /\ workers[w].at \in Nat
      BY InputAssumption DEF TypeOK, WorkerState
    <3> QED
      BY <2>1, <3>1 DEF Clock
  <2> QED
    BY <1>0, <2>1, <2>2, <2>3 DEF Expired
<1>4. ASSUME NEW c \in Client, ClientStep(c) PROVE InTime'
  <2>1. UNCHANGED <<workers, now>>
    BY <1>4 DEF ClientStep, NewRequest, ContinueRequest, CreateJob, DeleteJob, Patch, RunNow, Pause, Import,
       ImportNew, ReadForUpdate, Resume, ResumeRead, UpdateWrite, RearmRead, CrashClient
  <2> QED
    BY <2>1 DEF InTime, Executing, Expired, Clock
<1>5. CASE UNCHANGED vars
  BY <1>5 DEF vars, InTime, Executing, Expired, Clock
<1> QED
  BY <1>2, <1>3, <1>4, <1>5 DEF Next

\* A worker does not prune the run that another is in.
LEMMA PruneSpares ==
  ASSUME TypeOK, Bookkeeping, HistoryReachesBack, NEW v \in Worker, NEW w \in Worker, v # w,
         InRun(v), workers[v].run \in DOMAIN runs, PruneRunHistory(w)
  PROVE  workers[v].run \in DOMAIN runs'
<1> DEFINE r == workers[v].run
           j == workers[w].job
           later == {k \in RunsOf(workers[v].job) \ {r} : runs[k].started >= runs[r].started}
<1>1. CASE runs' = runs
  BY <1>1
<1>2. CASE runs' # runs
  <2>1. PICK old \in SUBSET RunsOf(j) :
          /\ \A s \in old, k \in RunsOf(j) \ old : runs[s].started <= runs[k].started
          /\ IF Cardinality(RunsOf(j)) <= MaxRunHistory THEN old = {}
             ELSE Cardinality(RunsOf(j) \ old) = MaxRunHistory
          /\ runs' = WithoutRuns(old)
    BY <1>2 DEF PruneRunHistory
  <2> SUFFICES ASSUME r \in old PROVE FALSE
    BY <2>1 DEF WithoutRuns
  <2>2. workers[w].pc = "prune" /\ workers[v].job = j
    BY DEF PruneRunHistory, RunsOf, Bookkeeping, RunsMatch
  <2>3. Cardinality(RunsOf(j) \ old) = MaxRunHistory
    BY <2>1
  <2>4. RunsOf(j) \ old \in SUBSET later
    <3> SUFFICES ASSUME NEW k \in RunsOf(j) \ old PROVE k \in later
      OBVIOUS
    <3>1. runs[r].started <= runs[k].started /\ runs[r].started \in Nat /\ runs[k].started \in Nat
      BY <2>1 DEF RunsOf, TypeOK, RunRow
    <3> QED
      BY <2>2, <3>1
  <2>5. later \in SUBSET DOMAIN runs
    BY DEF RunsOf
  <2>6. IsFiniteSet(later) /\ Cardinality(later) \in Nat
    BY <2>5, RunsFinite
  <2>7. Cardinality(RunsOf(j) \ old) <= Cardinality(later)
    BY <2>4, <2>6, FS_Subset
  <2>8. Cardinality(later) < MaxRunHistory
    BY <2>2 DEF HistoryReachesBack
  <2> HIDE DEF later
  <2> QED
    BY <2>3, <2>6, <2>7, <2>8, BoundsAssumption
<1> QED
  BY <1>1, <1>2

\* A run goes on for as long as its worker and its job do.
LEMMA RunsStay ==
  ASSUME HistoryReachesBack, TypeOK, Bookkeeping, MemoryIsPresent, TableKept, RunsAlive, [Next]_vars,
         NEW v \in Worker, InRun(v)', Exists(workers[v].job)'
  PROVE  workers'[v].run \in DOMAIN runs'
<1>1. ASSUME InRun(v), workers'[v].job = workers[v].job, workers'[v].run = workers[v].run
      PROVE  workers[v].run \in DOMAIN runs
  <2>1. workers[v].job \in Job /\ Present(workers[v].job)
    BY <1>1 DEF InRun, Executing, TypeOK, MemoryIsPresent
  <2>2. jobs'[workers[v].job].status \in JobStatus
    BY <1>1 DEF Exists
  <2>3. Exists(workers[v].job)
    BY <2>1, <2>2 DEF TableKept, Exists
  <2> QED
    BY <1>1, <2>3 DEF RunsAlive, StillRunning
<1>2. ASSUME NEW w \in Worker, WorkerStep(w) PROVE workers'[v].run \in DOMAIN runs'
  <2>1. CASE StartRun(w) /\ v = w
    <3>1. workers'[v].run = lastRun + 1
      BY <2>1 DEF StartRun, TypeOK, WorkerState
    <3> QED
      BY <2>1, <3>1 DEF StartRun, InsertRun
  <2>2. CASE StartRun(w) /\ v # w
    <3>1. workers'[v] = workers[v] /\ DOMAIN runs \subseteq DOMAIN runs'
      BY <2>2 DEF StartRun, InsertRun, TypeOK
    <3> QED
      BY <1>1, <3>1 DEF InRun
  <2>3. CASE ~ StartRun(w)
    <3>1. OtherStep(w)
      BY <1>2, <2>3 DEF WorkerStep, OtherStep, QuietStep
    <3>2. InRun(v) /\ workers'[v].job = workers[v].job /\ workers'[v].run = workers[v].run
      BY <3>1, WorkerGoesOn DEF Bookkeeping, RunsGoOn
    <3>3. CASE PruneRunHistory(w)
      <4>1. v # w
        BY <3>2, <3>3 DEF PruneRunHistory, InRun
      <4> QED
        BY <1>1, <3>2, <3>3, <4>1, PruneSpares
    <3>4. CASE CompleteSuccess(w) \/ CompleteFailure(w)
      <4>1. DOMAIN runs' = DOMAIN runs
        BY <3>4 DEF CompleteSuccess, CompleteFailure, CompleteRun
      <4> QED
        BY <1>1, <3>2, <4>1
    <3>5. CASE ~ (PruneRunHistory(w) \/ CompleteSuccess(w) \/ CompleteFailure(w))
      <4>1. CASE CleanupStaleRuns(w)
        BY <1>1, <3>2, <4>1 DEF CleanupStaleRuns
      <4>2. CASE StartRunUnacknowledged(w)
        BY <1>1, <3>2, <4>2 DEF StartRunUnacknowledged, InsertRun
      <4>3. CASE QuietStep(w)
        <5>1. runs' = runs
          BY <4>3 DEF QuietStep, PickupDue, PickupFrom, ExecuteJob, EnsureRoomForJob, CreateJobMessage,
             CreateJobMessageFails, CompleteRefused, AbandonJob, CrashWorker
        <5> QED
          BY <1>1, <3>2, <5>1
      <4> QED
        BY <3>1, <3>5, <4>1, <4>2, <4>3 DEF OtherStep
    <3> QED
      BY <3>3, <3>4, <3>5
  <2> QED
    BY <2>1, <2>2, <2>3
<1>3. ASSUME NEW c \in Client, ClientStep(c) PROVE workers'[v].run \in DOMAIN runs'
  <2>1. UNCHANGED workers
    BY <1>3 DEF ClientStep, NewRequest, ContinueRequest, CreateJob, DeleteJob, Patch, RunNow, Pause, Import,
       ImportNew, ReadForUpdate, Resume, ResumeRead, UpdateWrite, RearmRead, CrashClient
  <2>2. InRun(v) /\ workers[v].run \in DOMAIN runs
    BY <1>1, <2>1 DEF InRun
  <2>3. runs' = runs \/ \E j \in Job : DeleteJob(c, j)
    BY <1>3 DEF ClientStep, NewRequest, ContinueRequest, CreateJob, Patch, RunNow, Pause, Import,
       ImportNew, ReadForUpdate, Resume, ResumeRead, UpdateWrite, RearmRead, CrashClient
  <2>4. ASSUME NEW j \in Job, DeleteJob(c, j) PROVE workers'[v].run \in DOMAIN runs'
    <3>1. jobs'[j].status = "deleted" /\ runs' = WithoutRuns(RunsOf(j))
      BY <2>4 DEF DeleteJob, NoRow, TypeOK
    <3>2. workers[v].job # j
      BY <2>1, <3>1 DEF Exists, JobStatus
    <3>3. workers[v].run \notin RunsOf(j)
      BY <2>2, <3>2 DEF RunsOf, Bookkeeping, RunsMatch
    <3> QED
      BY <2>1, <2>2, <3>1, <3>3 DEF WithoutRuns
  <2> QED
    BY <2>1, <2>2, <2>3, <2>4
<1>4. CASE Tick \/ UNCHANGED vars
  <2>1. UNCHANGED <<workers, runs>>
    BY <1>4 DEF Tick, vars
  <2> QED
    BY <1>1, <2>1 DEF InRun
<1> QED
  BY <1>2, <1>3, <1>4 DEF Next

\* A run is timed out only after the deadline that its worker meets.
LEMMA RunsAliveStep ==
  ASSUME HistoryReachesBack, TypeOK, Bookkeeping, MemoryIsPresent, TableKept, RunsAlive, [Next]_vars,
         LiveRuns', InTime'
  PROVE  RunsAlive'
<1> SUFFICES ASSUME NEW v \in Worker, InRun(v)', Exists(workers[v].job)' PROVE StillRunning(workers[v].run)'
  BY DEF RunsAlive
<1>1. workers'[v].run \in DOMAIN runs'
  BY RunsStay
<1>2. ~ Expired(v)'
  BY DEF InTime, InRun, Executing
<1> QED
  BY <1>1, <1>2 DEF LiveRuns, LiveRun, StillRunning

\* What UPDATE leaves of a request.
LEMMA WriteGoesOn ==
  ASSUME TypeOK, NEW c \in Client, UpdateWrite(c)
  PROVE  IF Exists(clients[c].job) /\ NeedsRearm(clients[c].op, clients[c].row)
         THEN /\ clients'[c].pc = "rearm" /\ clients'[c].job = clients[c].job
              /\ clients'[c].next # Null
         ELSE clients'[c].pc = "idle"
<1> DEFINE next == ComputeNextRun(clients[c].row, now, Null)
<1>1. clients[c] \in ClientState /\ clients[c].row \in JobRow /\ now \in Nat
  BY DEF TypeOK, ClientState
<1>2. next # Null
  BY <1>1, FirstRunArmed
<1>3. clients' = [clients EXCEPT ![c] =
        IF Exists(clients[c].job) /\ NeedsRearm(clients[c].op, clients[c].row)
        THEN [@ EXCEPT !.pc = "rearm", !.next = next] ELSE IdleClient]
  BY DEF UpdateWrite
<1>4. IdleClient.pc = "idle"
  BY DEF IdleClient
<1> HIDE DEF next
<1> QED
  BY <1>1, <1>2, <1>3, <1>4 DEF TypeOK, ClientState

\* What the read of Update's second call leaves of it.
LEMMA RereadGoesOn ==
  ASSUME TypeOK, NEW c \in Client, ResumeRead(c) \/ RearmRead(c)
  PROVE  /\ clients[c].pc \in {"resume", "rearm"} /\ UNCHANGED <<jobs, workers, budget>>
         /\ IF Exists(clients[c].job)
            THEN /\ clients'[c].pc = "write" /\ clients'[c].job = clients[c].job
                 /\ clients'[c].next = clients[c].next /\ clients'[c].row.next = clients[c].next
            ELSE clients'[c].pc = "idle"
<1> DEFINE j == clients[c].job
           resumed == [jobs[j] EXCEPT !.status = "active", !.next = clients[c].next]
           rearmed == [jobs[j] EXCEPT !.next = clients[c].next]
<1>1. clients[c] \in ClientState /\ j \in Job /\ jobs[j] \in JobRow
  BY DEF ResumeRead, RearmRead, TypeOK
<1>2. resumed.next = clients[c].next /\ rearmed.next = clients[c].next
  BY <1>1 DEF JobRow
<1>3. IdleClient.pc = "idle"
  BY DEF IdleClient
<1>4. clients[c].pc \in {"resume", "rearm"} /\ UNCHANGED <<jobs, workers, budget>>
  BY DEF ResumeRead, RearmRead
<1>5. CASE ResumeRead(c)
  <2>1. clients' = [clients EXCEPT ![c] =
          IF Exists(j) THEN [@ EXCEPT !.pc = "write", !.row = resumed] ELSE IdleClient]
    BY <1>5 DEF ResumeRead
  <2> HIDE DEF resumed, rearmed
  <2> QED
    BY <1>1, <1>2, <1>3, <1>4, <2>1 DEF TypeOK, ClientState
<1>6. CASE RearmRead(c)
  <2>1. clients' = [clients EXCEPT ![c] =
          IF Exists(j) THEN [@ EXCEPT !.pc = "write", !.op = "rearm", !.row = rearmed] ELSE IdleClient]
    BY <1>6 DEF RearmRead
  <2> HIDE DEF resumed, rearmed
  <2> QED
    BY <1>1, <1>2, <1>3, <1>4, <2>1 DEF TypeOK, ClientState
<1> QED
  BY <1>5, <1>6

LEMMA WritesArmStep ==
  ASSUME TypeOK, WritesArm, [Next]_vars
  PROVE  WritesArm'
<1>1. ASSUME NEW c \in Client, clients'[c] = clients[c] PROVE WritesArmOf(c)'
  BY <1>1 DEF WritesArm, WritesArmOf
<1>2. ASSUME NEW c \in Client, clients'[c].pc = "idle" PROVE WritesArmOf(c)'
  BY <1>2 DEF WritesArmOf
<1>3. ASSUME NEW c \in Client, ClientStep(c) PROVE WritesArmOf(c)'
  <2>1. CASE UpdateWrite(c)
    BY <2>1, WriteGoesOn DEF WritesArmOf
  <2>2. CASE ResumeRead(c) \/ RearmRead(c)
    BY <2>2, RereadGoesOn DEF WritesArm, WritesArmOf
  <2>3. CASE CrashClient(c)
    <3>1. clients'[c].pc = "idle"
      BY <2>3 DEF CrashClient, IdleClient, TypeOK
    <3> QED
      BY <1>2, <3>1
  <2>4. ASSUME NEW j \in Job, NewRequest(c, j) PROVE WritesArmOf(c)'
    <3>1. jobs[j] \in JobRow /\ now \in Nat /\ Null \notin Nat
      BY InputAssumption DEF TypeOK
    <3>2. CASE CreateJob(c, j) \/ DeleteJob(c, j) \/ ImportNew(c, j)
      BY <1>1, <3>2 DEF CreateJob, DeleteJob, ImportNew
    <3>3. ASSUME NEW op, NEW merged, ReadForUpdate(c, op, j, merged)
          PROVE  clients'[c].pc = "write" /\ clients'[c].op = op /\ clients'[c].row = merged
      BY <3>3 DEF ReadForUpdate, TypeOK, IdleClient
    <3>4. CASE Patch(c, j)
      <4>1. clients'[c].pc = "write" /\ clients'[c].op = "patch"
        BY <3>3, <3>4 DEF Patch
      <4> QED
        BY <4>1 DEF WritesArmOf
    <3>5. CASE RunNow(c, j)
      <4> DEFINE merged == [jobs[j] EXCEPT !.status = "active", !.next = now]
      <4>1. merged.next # Null
        BY <3>1 DEF JobRow
      <4>2. ReadForUpdate(c, "run_now", j, merged)
        BY <3>5 DEF RunNow
      <4> HIDE DEF merged
      <4>3. clients'[c].pc = "write" /\ clients'[c].row = merged
        BY <3>3, <4>2
      <4> QED
        BY <4>1, <4>3 DEF WritesArmOf
    <3>6. CASE Pause(c, j) \/ Import(c, j)
      <4>1. /\ [jobs[j] EXCEPT !.status = "paused"].status = "paused"
            /\ [jobs[j] EXCEPT !.enabled = FALSE, !.status = "paused"].status = "paused"
        BY <3>1 DEF JobRow
      <4>2. clients'[c].pc = "write" /\ clients'[c].row.status = "paused"
        BY <3>3, <3>6, <4>1 DEF Pause, Import
      <4> QED
        BY <4>2 DEF WritesArmOf
    <3>7. CASE Resume(c, j)
      <4>1. clients'[c].pc = "resume" /\ clients'[c].next = ComputeNextRun(jobs[j], now, Null)
        BY <3>7 DEF Resume, TypeOK, IdleClient
      <4>2. ComputeNextRun(jobs[j], now, Null) # Null
        BY <3>1, FirstRunArmed
      <4> QED
        BY <4>1, <4>2 DEF WritesArmOf
    <3> QED
      BY <2>4, <3>2, <3>4, <3>5, <3>6, <3>7 DEF NewRequest
  <2> QED
    BY <1>3, <2>1, <2>2, <2>3, <2>4 DEF ClientStep, ContinueRequest
<1>4. ASSUME UNCHANGED clients PROVE WritesArm'
  BY <1>1, <1>4 DEF WritesArm
<1>5. CASE \E c \in Client : ClientStep(c)
  BY <1>1, <1>3, <1>5, OneClient DEF WritesArm
<1> QED
  BY <1>4, <1>5, WorkerLeavesClients DEF Next, Tick, vars

-----------------------------------------------------------------------------
(* What the memory of a process holds is not forgotten *)

\* Some process still has to see to job j.
Remembered(j) ==
    \/ \E w \in Worker : Holds(w, j)
    \/ \E c \in Client : /\ clients[c].job = j
                         /\ clients[c].pc \in {"rearm", "write"}
                         /\ clients[c].next # Null

\* A poll that takes a job's next_run_at holds the job.
LEMMA PickupHolds ==
  ASSUME TypeOK, NEW w \in Worker, PickupDue(w), NEW j \in Job, jobs'[j].next # jobs[j].next
  PROVE  Holds(w, j)'
<1>1. PICK picked \in SUBSET Due(workers[w].at) :
        /\ jobs' = [i \in Job |-> IF i \in picked THEN Leased(jobs[i]) ELSE jobs[i]]
        /\ workers' = [workers EXCEPT ![w] =
                      IF picked = {} THEN IdleWorker
                      ELSE [IdleWorker EXCEPT !.pc = "exec",
                              !.due = {[id |-> i, row |-> Leased(jobs[i])] : i \in picked}]]
  BY DEF PickupDue, PickupFrom
<1> DEFINE items == {[id |-> i, row |-> Leased(jobs[i])] : i \in picked}
           next == [IdleWorker EXCEPT !.pc = "exec", !.due = items]
<1>2. j \in picked
  BY <1>1
<1>3. \E item \in items : item.id = j
  <2>1. [id |-> j, row |-> Leased(jobs[j])] \in items
    BY <1>2
  <2> QED
    BY <2>1
<1>4. next.due = items
  BY DEF IdleWorker
<1>5. workers'[w] = next
  BY <1>1, <1>2 DEF TypeOK
<1> HIDE DEF next, items
<1> QED
  BY <1>3, <1>4, <1>5 DEF Holds

LEMMA WorkerRemembers ==
  ASSUME TypeOK, Bookkeeping, KindsAgree, InTime, RunsAlive, NoJobForgotten,
         ~ Disturbed, ~ Spend("crashes"), ~ Spend("faults"),
         NEW w \in Worker, WorkerStep(w), NEW j \in Job, Unarmed(j)'
  PROVE  Remembered(j)'
<1>1. Recurring(j) /\ Exists(j)
  <2>1. ScheduleKept(jobs[j], jobs'[j])
    BY WorkerTable
  <2> QED
    BY <2>1 DEF ScheduleKept, Unarmed, Recurring, Exists, JobStatus
<1>2. jobs'[j].next = Null
  BY DEF Unarmed
<1>3. ~ (j = workers[w].job /\ (CompleteSuccess(w) \/ CompleteFailure(w)))
  BY <1>1, <1>2, CompletionArms DEF Recurring
<1>4. CASE jobs[j].next # Null
  <2>1. jobs'[j].next # jobs[j].next
    BY <1>2, <1>4
  <2>2. PickupDue(w)
    <3>1. CASE CleanupStaleRuns(w)
      BY <2>1, <3>1, CleanupTable
    <3>2. CASE CompleteSuccess(w) \/ CompleteFailure(w)
      BY <1>3, <2>1, <3>2, CompletionTable
    <3>3. CASE EnsureRoomForJob(w)
      <4>1. jobs'[j].next = jobs[j].next
        BY <3>3 DEF EnsureRoomForJob, TypeOK, JobRow
      <4> QED
        BY <2>1, <4>1
    <3>4. jobs' # jobs
      BY <2>1
    <3> QED
      BY <3>1, <3>2, <3>3, <3>4 DEF WorkerStep, ExecuteJob, StartRun, StartRunUnacknowledged,
         CreateJobMessage, CreateJobMessageFails, CompleteRefused, AbandonJob, PruneRunHistory, CrashWorker
  <2> QED
    BY <2>1, <2>2, PickupHolds DEF Remembered
<1>5. CASE jobs[j].next = Null
  <2>1. Remembered(j)
    BY <1>1, <1>5 DEF Unarmed, NoJobForgotten, Remembered
  <2>2. UNCHANGED clients
    BY WorkerLeavesClients
  <2>3. CASE \E v \in Worker : Holds(v, j)
    <3>1. PICK v \in Worker : Holds(v, j)
      BY <2>3
    <3>2. CASE v # w
      BY <3>1, <3>2, OneWorkerMoves DEF Holds, Remembered
    <3>3. ASSUME v = w, ~ Holds(w, j)' PROVE FALSE
      <4>1. workers[w].job = j /\ (CompleteRefused(w) \/ AbandonJob(w))
        BY <1>3, <3>1, <3>3, HoldsLost DEF Bookkeeping, StartRunUnacknowledged, CrashWorker
      <4>2. ~ CompleteRefused(w)
        BY <1>1, <4>1 DEF CompleteRefused, RunsAlive, InRun
      <4>3. ~ AbandonJob(w)
        BY <1>1, <4>1 DEF AbandonJob, InTime, Executing
      <4> QED
        BY <4>1, <4>2, <4>3
    <3> QED
      BY <3>2, <3>3 DEF Remembered
  <2>4. CASE ~ \E v \in Worker : Holds(v, j)
    BY <2>1, <2>2, <2>4 DEF Remembered
  <2> QED
    BY <2>3, <2>4
<1> QED
  BY <1>4, <1>5

LEMMA CreatedIsArmed ==
  ASSUME NEW in \in CreateInput, NEW t \in Nat
  PROVE  CreatedRow(in, t).next # Null
<1> DEFINE row == [NoRow("active") EXCEPT !.kind = in.kind, !.every = in.every,
                     !.enabled = TRUE, !.maxFailures = in.maxFailures]
<1>1. in \in [kind : ScheduleKinds, every : Nat \ {0}, maxFailures : Nat \ {0}]
  BY InputAssumption
<1>2. row \in JobRow
  BY <1>1 DEF NoRow, JobRow, JobStatus, TimeOrNull
<1>3. CreatedRow(in, t) = [row EXCEPT !.next = ComputeNextRun(row, t, Null)]
  BY DEF CreatedRow
<1> HIDE DEF row
<1>4. CreatedRow(in, t).next = ComputeNextRun(row, t, Null)
  BY <1>2, <1>3 DEF JobRow
<1> QED
  BY <1>2, <1>4, FirstRunArmed

LEMMA RequestRemembers ==
  ASSUME TypeOK, WritesArm, NoJobForgotten, ~ Disturbed, ~ Spend("crashes"),
         NEW c \in Client, ClientStep(c), NEW j \in Job, Unarmed(j)'
  PROVE  Remembered(j)'
<1>0. UNCHANGED workers
  BY DEF ClientStep, NewRequest, ContinueRequest, CreateJob, DeleteJob, Patch, RunNow, Pause, Import,
     ImportNew, ReadForUpdate, Resume, ResumeRead, UpdateWrite, RearmRead, CrashClient
<1>1. ASSUME jobs'[j] = jobs[j],
             clients[c].job = j /\ clients[c].pc \in {"rearm", "write"} /\ clients[c].next # Null
               => /\ clients'[c].job = j /\ clients'[c].pc \in {"rearm", "write"}
                  /\ clients'[c].next # Null
      PROVE  Remembered(j)'
  <2>1. Unarmed(j)
    BY <1>1 DEF Unarmed, Recurring
  <2>2. CASE \E w \in Worker : Holds(w, j)
    <3>1. \E w \in Worker : Holds(w, j)'
      BY <1>0, <2>2 DEF Holds
    <3> QED
      BY <3>1 DEF Remembered
  <2>3. CASE ~ \E w \in Worker : Holds(w, j)
    <3>1. PICK d \in Client : /\ clients[d].job = j
                              /\ clients[d].pc \in {"rearm", "write"}
                              /\ clients[d].next # Null
      BY <2>1, <2>3 DEF NoJobForgotten
    <3>2. /\ clients'[d].job = j /\ clients'[d].pc \in {"rearm", "write"}
          /\ clients'[d].next # Null
      BY <1>1, <3>1, OneClient
    <3> QED
      BY <3>2 DEF Remembered
  <2> QED
    BY <2>2, <2>3
<1>2. CASE UpdateWrite(c)
  <2>1. CASE j = clients[c].job /\ Exists(j)
    <3>1. /\ clients[c].pc = "write" /\ jobs'[j].enabled = clients[c].row.enabled
          /\ jobs'[j].valid = clients[c].row.valid /\ jobs'[j].status = clients[c].row.status
          /\ jobs'[j].next = clients[c].row.next
      BY <1>2, <2>1, WriteFields
    <3>2. clients[c].op = "patch"
      BY <3>1 DEF Unarmed, Recurring, WritesArm, WritesArmOf
    <3>3. NeedsRearm(clients[c].op, clients[c].row)
      BY <3>1, <3>2 DEF Unarmed, Recurring, NeedsRearm
    <3> QED
      BY <1>2, <2>1, <3>3, WriteGoesOn DEF Remembered
  <2>2. CASE j = clients[c].job /\ ~ Exists(j)
    <3>1. jobs'[j] = jobs[j]
      BY <1>2, <2>2, WriteFields
    <3> QED
      BY <2>2, <3>1 DEF Unarmed, Recurring, Exists, JobStatus
  <2>3. CASE j # clients[c].job
    BY <1>1, <1>2, <2>3, WriteFields
  <2> QED
    BY <2>1, <2>2, <2>3
<1>3. CASE ResumeRead(c) \/ RearmRead(c)
  <2>1. Unarmed(j) /\ jobs'[j] = jobs[j]
    BY <1>3, RereadGoesOn DEF Unarmed, Recurring
  <2>2. Exists(j)
    BY <2>1 DEF Unarmed, Recurring, Exists, JobStatus
  <2> QED
    BY <1>1, <1>3, <2>1, <2>2, RereadGoesOn
<1>4. ~ CrashClient(c)
  BY DEF CrashClient
<1>5. CASE \E i \in Job : NewRequest(c, i)
  <2>1. clients[c].pc = "idle" /\ ~ UpdateWrite(c)
    BY <1>5 DEF NewRequest, CreateJob, DeleteJob, Patch, RunNow, Pause, Import, ImportNew, ReadForUpdate, Resume,
       UpdateWrite
  <2>2. \A in \in CreateInput :
          /\ CreatedRow(in, now).next # Null
          /\ [CreatedRow(in, now) EXCEPT !.enabled = FALSE, !.status = "paused", !.next = Null].status = "paused"
    <3> SUFFICES ASSUME NEW in \in CreateInput
                 PROVE  /\ CreatedRow(in, now).next # Null
                        /\ [CreatedRow(in, now) EXCEPT !.enabled = FALSE, !.status = "paused",
                              !.next = Null].status = "paused"
      OBVIOUS
    <3>1. CreatedRow(in, now) \in JobRow /\ now \in Nat
      BY CreatedRowType DEF TypeOK
    <3>2. CreatedRow(in, now).next # Null
      BY <3>1, CreatedIsArmed
    <3>3. [CreatedRow(in, now) EXCEPT !.enabled = FALSE, !.status = "paused", !.next = Null].status = "paused"
      BY <3>1 DEF JobRow
    <3> QED
      BY <3>2, <3>3
  <2>3. NoRow("deleted").status = "deleted"
    BY DEF NoRow
  <2>4. jobs'[j] = jobs[j]
    BY <2>1, <2>2, <2>3, RequestTable DEF Unarmed, Recurring
  <2> QED
    BY <1>1, <2>1, <2>4
<1> QED
  BY <1>2, <1>3, <1>4, <1>5 DEF ClientStep, ContinueRequest

\* The inductive invariant of NoJobForgotten.
MemoryInv ==
    /\ Bookkeeping /\ MemoryIsPresent /\ KindsAgree /\ LiveRuns
    /\ BudgetKept /\ InTime /\ RunsAlive /\ WritesArm /\ NoJobForgotten

LEMMA RemembersInit == Init => TypeOK /\ MemoryInv
<1> SUFFICES ASSUME Init PROVE TypeOK /\ MemoryInv
  OBVIOUS
<1>1. TypeOK /\ Bookkeeping /\ MemoryIsPresent /\ KindsAgree
  BY InitTypeOK, BooksInit, MemoryInit
<1>2. BudgetKept
  BY BoundsAssumption DEF Init, BudgetKept
<1>3. InTime /\ RunsAlive /\ LiveRuns
  BY DEF Init, IdleWorker, InTime, RunsAlive, LiveRuns, LiveRun, Executing, InRun
<1>4. WritesArm
  BY DEF Init, IdleClient, WritesArm, WritesArmOf
<1>5. NoJobForgotten
  <2> SUFFICES ASSUME NEW j \in Job, Unarmed(j) PROVE FALSE
    BY DEF NoJobForgotten
  <2>1. NoRow("absent").status = "absent"
    BY DEF NoRow
  <2>2. PICK in \in CreateInput : jobs[j] = CreatedRow(in, 0)
    BY <2>1 DEF Init, Unarmed, Recurring
  <2>3. CreatedRow(in, 0).next # Null
    BY CreatedIsArmed
  <2> QED
    BY <2>2, <2>3 DEF Unarmed
<1> QED
  BY <1>1, <1>2, <1>3, <1>4, <1>5 DEF MemoryInv

LEMMA RemembersStep ==
  ASSUME ClocksAgree, Timely, KindsFixed, HistoryReachesBack, TypeOK, MemoryInv, [Next]_vars
  PROVE  (TypeOK /\ MemoryInv)'
<1>1. TypeOK' /\ Bookkeeping'
  BY NextTypeOK, BooksStep DEF MemoryInv
<1>2. MemoryIsPresent' /\ KindsAgree' /\ TableKept
  BY MemoryStep DEF MemoryInv
<1>3. BudgetKept' /\ (~ Disturbed' => ~ Disturbed /\ ~ Spend("crashes") /\ ~ Spend("faults"))
  BY BudgetStep DEF MemoryInv
<1>4. InTime' /\ LiveRuns' /\ WritesArm'
  BY InTimeStep, LiveStep, WritesArmStep DEF MemoryInv
<1>5. RunsAlive'
  BY <1>2, <1>4, RunsAliveStep DEF MemoryInv
<1>6. ASSUME NEW j \in Job, Unarmed(j)', ~ Disturbed' PROVE Remembered(j)'
  <2>1. ASSUME NEW w \in Worker, WorkerStep(w) PROVE Remembered(j)'
    BY <1>3, <1>6, <2>1, WorkerRemembers DEF MemoryInv
  <2>2. ASSUME NEW c \in Client, ClientStep(c) PROVE Remembered(j)'
    BY <1>3, <1>6, <2>2, RequestRemembers DEF MemoryInv
  <2>3. CASE Tick \/ UNCHANGED vars
    <3>1. UNCHANGED <<jobs, workers, clients, budget>>
      BY <2>3 DEF Tick, vars
    <3>2. Unarmed(j)
      BY <1>6, <3>1 DEF Unarmed, Recurring
    <3>3. Remembered(j)
      BY <1>3, <1>6, <3>2 DEF MemoryInv, NoJobForgotten, Remembered
    <3> QED
      BY <3>1, <3>3 DEF Remembered, Holds
  <2> QED
    BY <2>1, <2>2, <2>3 DEF Next
<1>7. NoJobForgotten'
  BY <1>6 DEF NoJobForgotten, Remembered
<1> QED
  BY <1>1, <1>2, <1>3, <1>4, <1>5, <1>7 DEF MemoryInv

\* However many workers there are: as long as they meet their deadlines, no patch changes the
\* kind of a schedule and the history that one worker keeps reaches back to the runs the
\* others are in, an active recurring job is armed, or is in the hands of a process
\* that will arm it, or was lost with a crash or a failed statement.
THEOREM JobsAreRememberedByAll ==
    ClocksAgree /\ Timely /\ KindsFixed /\ Spec /\ []HistoryReachesBack => []NoJobForgotten
<1>1. MemoryInv => NoJobForgotten
  BY DEF MemoryInv
<1>2. CASE ClocksAgree /\ Timely /\ KindsFixed
  <2>1. HistoryReachesBack /\ TypeOK /\ MemoryInv /\ [Next]_vars => (TypeOK /\ MemoryInv)'
    BY <1>2, RemembersStep
  <2> QED
    BY <1>1, <2>1, RemembersInit, PTL DEF Spec
<1> QED
  BY <1>2

\* With one worker there is no other that could prune its run.
THEOREM JobsAreRemembered == OneWorker /\ Timely /\ KindsFixed /\ Spec => []NoJobForgotten
<1>1. OneWorker => ClocksAgree /\ HistoryReachesBack
  <2>1. \A w \in Worker : Skew[w] \in Nat
    BY InputAssumption
  <2>2. OneWorker => ClocksAgree
    BY <2>1 DEF OneWorker, ClocksAgree
  <2> QED
    BY <2>2 DEF OneWorker, HistoryReachesBack
<1>2. CASE OneWorker /\ Timely /\ KindsFixed
  <2>1. TypeOK /\ MemoryInv /\ [Next]_vars => (TypeOK /\ MemoryInv)'
    BY <1>1, <1>2, RemembersStep
  <2>2. MemoryInv => NoJobForgotten
    BY DEF MemoryInv
  <2> QED
    BY <2>1, <2>2, RemembersInit, PTL DEF Spec
<1> QED
  BY <1>2

-----------------------------------------------------------------------------
(* The runs of a job start one after the other *)

\* The next slot of a cron schedule is after now.
LEMMA NextSlot ==
  ASSUME NEW t \in Nat, NEW e \in Nat \ {0}
  PROVE  t < ((t \div e) + 1) * e
<1> DEFINE q == t \div e
<1>1. q \in Int /\ t % e \in 0 .. e - 1 /\ t = (e * q) + (t % e)
  OBVIOUS
<1>2. (q + 1) * e = e * q + e
  BY <1>1
<1> QED
  BY <1>1, <1>2

\* A job that has run is not due again at the time of that run.
LEMMA NextRunIsLater ==
  ASSUME NEW row \in JobRow, NEW t \in Nat
  PROVE  /\ ComputeNextRun(row, t, t) = Null \/ t < ComputeNextRun(row, t, t)
         /\ ComputeFailureNextRun(row, t) = Null \/ t < ComputeFailureNextRun(row, t)
<1>0. t # Null
  BY InputAssumption
<1>1. ComputeNextRun(row, t, t) = Null \/ t < ComputeNextRun(row, t, t)
  <2>1. CASE row.kind = "interval"
    <3>1. ComputeNextRun(row, t, t) = t + row.every
      BY <1>0, <2>1 DEF ComputeNextRun
    <3> QED
      BY <3>1 DEF JobRow
  <2>2. CASE row.kind = "cron"
    <3>1. ComputeNextRun(row, t, t) = ((t \div row.every) + 1) * row.every
      BY <2>2 DEF ComputeNextRun
    <3> QED
      BY <3>1, NextSlot DEF JobRow
  <2>3. CASE row.kind = "once"
    BY <1>0, <2>3 DEF ComputeNextRun, OncePassed, JobRow
  <2> QED
    BY <2>1, <2>2, <2>3 DEF JobRow, ScheduleKinds
<1>2. t < t + RetryDelay
  BY BoundsAssumption
<1> QED
  BY <1>1, <1>2 DEF ComputeFailureNextRun

\* Every run of job j started before time t.
Before(j, t) == \A r \in RunsOf(j) : runs[r].started < t

\* An active job is armed for a time after all its runs,
ArmedLaterOf(j) == jobs[j].status = "active" /\ jobs[j].next # Null => Before(j, jobs[j].next)
ArmedLater == \A j \in Job : ArmedLaterOf(j)

\* a leased one has none at its worker's time,
LeasedLaterOf(w) ==
    /\ workers[w].pc = "pickup" \/ Executing(w) => workers[w].at <= Clock(w)
    /\ \A item \in workers[w].due : Before(item.id, Clock(w))
    /\ workers[w].pc \in {"ensure", "start"} => Before(workers[w].job, workers[w].at)
LeasedLater == \A w \in Worker : LeasedLaterOf(w)

\* a worker's run started when the worker says,
StartedAtOf(w) ==
    InRun(w) /\ workers[w].run \in DOMAIN runs => runs[workers[w].run].started = workers[w].at
StartedAt == \A w \in Worker : StartedAtOf(w)

\* and the run in progress is the last to have started.
RunningLast ==
    \A j \in Job : \A r \in Running(j) : \A k \in RunsOf(j) \ {r} : runs[k].started < runs[r].started

OrderInv == ArmedLater /\ LeasedLater /\ StartedAt /\ RunningLast

\* A step in which no run is inserted, becomes running or moves.
RunsKeep ==
    \A r \in DOMAIN runs' :
        /\ r \in DOMAIN runs
        /\ runs'[r].job = runs[r].job
        /\ runs'[r].started = runs[r].started
        /\ runs'[r].status = "running" => runs[r].status = "running"

LEMMA KeepBefore ==
  ASSUME RunsKeep, NEW j, NEW t, Before(j, t)
  PROVE  \A r \in RunsOf(j)' : runs'[r].started < t
  BY DEF RunsKeep, Before, RunsOf

LEMMA KeepRunningLast ==
  ASSUME RunsKeep, RunningLast
  PROVE  RunningLast'
<1>1. \A j : RunsOf(j)' \subseteq RunsOf(j) /\ Running(j)' \subseteq Running(j)
  BY DEF RunsKeep, RunsOf, Running
<1>2. \A j : \A r \in RunsOf(j)' : runs'[r].started = runs[r].started
  BY DEF RunsKeep, RunsOf
<1>3. \A j : Running(j)' \subseteq RunsOf(j)'
  BY DEF Running
<1> QED
  BY <1>1, <1>2, <1>3 DEF RunningLast

LEMMA KeepStartedAt ==
  ASSUME RunsKeep, RunsGoOn, NEW w \in Worker, StartedAtOf(w)
  PROVE  StartedAtOf(w)'
  BY DEF RunsKeep, RunsGoOn, StartedAtOf

LEMMA KeepArmed ==
  ASSUME RunsKeep, NEW j \in Job, ArmedLaterOf(j),
         jobs'[j].status = "active" => jobs[j].status = "active",
         jobs'[j].next \in {jobs[j].next, Null}
  PROVE  ArmedLaterOf(j)'
<1> SUFFICES ASSUME jobs'[j].status = "active", jobs'[j].next # Null PROVE Before(j, jobs[j].next)'
  BY DEF ArmedLaterOf
<1>1. PICK t : t = jobs[j].next /\ t = jobs'[j].next
  OBVIOUS
<1>2. Before(j, t)
  BY <1>1 DEF ArmedLaterOf
<1>3. \A r \in RunsOf(j)' : runs'[r].started < t
  BY <1>2, KeepBefore
<1> QED
  BY <1>1, <1>3 DEF Before

\* Time only passes: what was before a worker's clock stays before it.
LEMMA KeepBeforeClock ==
  ASSUME TypeOK, [Next]_vars, RunsKeep, NEW w \in Worker, NEW j, Before(j, Clock(w))
  PROVE  Before(j, Clock(w))'
<1>1. Clock(w) \in Nat /\ Clock(w)' \in Nat /\ Clock(w) <= Clock(w)'
  BY ClockPasses
<1>2. \A r \in RunsOf(j)' : r \in DOMAIN runs /\ runs'[r].started = runs[r].started /\ runs[r].started \in Nat
  BY DEF RunsKeep, RunsOf, TypeOK, RunRow
<1>3. \A r \in RunsOf(j)' : runs'[r].started < Clock(w)
  BY KeepBefore
<1> QED
  BY <1>1, <1>2, <1>3 DEF Before

\* A step that leaves worker w with no more than it holds and knows of a job.
LEMMA KeepLeased ==
  ASSUME TypeOK, [Next]_vars, RunsKeep, NEW w \in Worker, LeasedLaterOf(w),
         workers'[w].due \subseteq workers[w].due,
         Executing(w)' => Executing(w) /\ workers'[w].job = workers[w].job /\ workers'[w].at = workers[w].at,
         workers'[w].pc = "pickup" => workers'[w].at <= Clock(w)',
         workers'[w].pc \in {"ensure", "start"} => workers[w].pc \in {"ensure", "start"}
  PROVE  LeasedLaterOf(w)'
<1>1. Clock(w) \in Nat /\ Clock(w)' \in Nat /\ Clock(w) <= Clock(w)' /\ workers[w].at \in Nat
  BY ClockPasses DEF TypeOK, WorkerState
<1>2. workers'[w].pc = "pickup" \/ Executing(w)' => workers'[w].at <= Clock(w)'
  BY <1>1 DEF LeasedLaterOf
<1>3. \A item \in workers'[w].due : Before(item.id, Clock(w))'
  BY KeepBeforeClock DEF LeasedLaterOf
<1>4. workers'[w].pc \in {"ensure", "start"} => Before(workers[w].job, workers[w].at)'
  <2> SUFFICES ASSUME workers'[w].pc \in {"ensure", "start"} PROVE Before(workers[w].job, workers[w].at)'
    OBVIOUS
  <2>1. PICK j, t : /\ j = workers[w].job /\ j = workers'[w].job
                    /\ t = workers[w].at /\ t = workers'[w].at
    BY DEF Executing
  <2>2. Before(j, t)
    BY <2>1 DEF LeasedLaterOf
  <2>3. \A r \in RunsOf(j)' : runs'[r].started < t
    BY <2>2, KeepBefore
  <2> QED
    BY <2>1, <2>3 DEF Before
<1> QED
  BY <1>2, <1>3, <1>4 DEF LeasedLaterOf

\* A worker comes to start a run only by taking up a leased job.
LEMMA RunBegins ==
  ASSUME TypeOK, NEW w \in Worker, WorkerStep(w), ~ ExecuteJob(w), workers'[w].pc \in {"ensure", "start"}
  PROVE  workers[w].pc \in {"ensure", "start"}
<1>1. IdleWorker.pc = "idle" /\ Released(w).pc \in {"idle", "exec"}
  BY DEF IdleWorker, Released
<1>2. workers[w] \in WorkerState
  BY DEF TypeOK
<1>3. ~ (CompleteRefused(w) \/ AbandonJob(w) \/ StartRunUnacknowledged(w) \/ PruneRunHistory(w))
  BY <1>1 DEF CompleteRefused, AbandonJob, StartRunUnacknowledged, PruneRunHistory, DropJob, TypeOK
<1>4. ~ CrashWorker(w)
  BY <1>1 DEF CrashWorker, TypeOK
<1>5. ~ StartRun(w)
  BY <1>2 DEF StartRun, TypeOK, WorkerState
<1>6. ~ (CreateJobMessage(w) \/ CreateJobMessageFails(w) \/ CompleteSuccess(w) \/ CompleteFailure(w)
         \/ CleanupStaleRuns(w))
  BY <1>2 DEF CreateJobMessage, CreateJobMessageFails, CompleteSuccess, CompleteFailure, CompleteRun,
     CleanupStaleRuns, TypeOK, WorkerState
<1>7. ~ PickupDue(w)
  <2> SUFFICES ASSUME PickupDue(w) PROVE FALSE
    OBVIOUS
  <2>1. PICK due : workers' = [workers EXCEPT ![w] =
                                 IF due = {} THEN IdleWorker
                                 ELSE [IdleWorker EXCEPT !.pc = "exec", !.due = due]]
    BY PickedState DEF PickupDue
  <2>2. [IdleWorker EXCEPT !.pc = "exec", !.due = due].pc = "exec"
    BY DEF IdleWorker
  <2> QED
    BY <1>1, <2>1, <2>2 DEF TypeOK
<1>8. EnsureRoomForJob(w)
  BY <1>3, <1>4, <1>5, <1>6, <1>7 DEF WorkerStep
<1> QED
  BY <1>8 DEF EnsureRoomForJob

\* Only StartRun inserts a run.
LEMMA OtherKeeps ==
  ASSUME TypeOK, Bookkeeping, NEW w \in Worker, OtherStep(w), ~ StartRunUnacknowledged(w)
  PROVE  RunsKeep
<1>1. CASE QuietStep(w)
  <2>1. runs' = runs
    BY <1>1 DEF QuietStep, PickupDue, PickupFrom, ExecuteJob, EnsureRoomForJob, CreateJobMessage,
       CreateJobMessageFails, CompleteRefused, AbandonJob, CrashWorker
  <2> QED
    BY <2>1 DEF RunsKeep
<1>2. CASE CleanupStaleRuns(w)
  BY <1>2 DEF CleanupStaleRuns, RunsKeep, TypeOK, RunRow
<1>3. CASE CompleteSuccess(w) \/ CompleteFailure(w)
  <2>1. PICK status \in {"success", "error"} : runs' = [runs EXCEPT ![workers[w].run].status = status]
    BY <1>3, CompletedRow DEF CompletedRun
  <2> QED
    BY <2>1 DEF RunsKeep, TypeOK, RunRow
<1>4. CASE PruneRunHistory(w)
  BY <1>4 DEF PruneRunHistory, WithoutRuns, RunsKeep
<1> QED
  BY <1>1, <1>2, <1>3, <1>4 DEF OtherStep

\* A poll leases jobs whose runs started before its clock.
LEMMA PickupOrder ==
  ASSUME TypeOK, ArmedLater, NEW w \in Worker, PickupDue(w), LeasedLaterOf(w)
  PROVE  LeasedLaterOf(w)'
<1>0. PICK unlocked \in SUBSET Due(workers[w].at) : PickupFrom(w, unlocked)
  BY DEF PickupDue
<1>1. PICK picked \in SUBSET unlocked :
        workers' = [workers EXCEPT ![w] =
                      IF picked = {} THEN IdleWorker
                      ELSE [IdleWorker EXCEPT !.pc = "exec",
                              !.due = {[id |-> j, row |-> Leased(jobs[j])] : j \in picked}]]
  BY <1>0 DEF PickupFrom
<1>2. /\ workers'[w].pc \in {"idle", "exec"}
      /\ \A item \in workers'[w].due : item.id \in picked
  BY <1>1 DEF TypeOK, IdleWorker
<1>3. UNCHANGED <<now, runs>> /\ workers[w].pc = "pickup"
  BY <1>0 DEF PickupFrom
<1>4. workers[w].at <= Clock(w) /\ workers[w].at \in Nat /\ Clock(w) \in Nat
  BY <1>3, ClockType DEF LeasedLaterOf, TypeOK, WorkerState
<1>5. \A j \in picked : Before(j, Clock(w))
  <2> SUFFICES ASSUME NEW j \in picked, NEW r \in RunsOf(j) PROVE runs[r].started < Clock(w)
    BY DEF Before
  <2>1. /\ j \in Job /\ jobs[j].status = "active" /\ jobs[j].next # Null
        /\ jobs[j].next <= workers[w].at /\ jobs[j].next \in Nat
    BY DEF Due, TypeOK, JobRow, TimeOrNull
  <2>2. runs[r].started < jobs[j].next
    BY <2>1 DEF ArmedLater, ArmedLaterOf, Before
  <2>3. runs[r].started \in Nat
    BY DEF RunsOf, TypeOK, RunRow
  <2> QED
    BY <1>4, <2>1, <2>2, <2>3
<1>6. \A item \in workers'[w].due : Before(item.id, Clock(w))'
  BY <1>2, <1>3, <1>5 DEF Before, RunsOf, Clock
<1> QED
  BY <1>2, <1>6 DEF LeasedLaterOf, Executing

\* The run of the job that is taken up will be its last.
LEMMA ExecuteOrder ==
  ASSUME TypeOK, NEW w \in Worker, ExecuteJob(w), LeasedLaterOf(w)
  PROVE  LeasedLaterOf(w)'
<1>1. PICK item \in workers[w].due :
        workers' = [workers EXCEPT ![w] =
          [pc |-> IF item.row.room = Null THEN "ensure" ELSE "start",
           due |-> workers[w].due \ {item}, job |-> item.id, row |-> item.row,
           at |-> Clock(w), run |-> 0]]
  BY DEF ExecuteJob
<1>2. /\ workers'[w].pc # "pickup" /\ workers'[w].job = item.id /\ workers'[w].at = Clock(w)
      /\ workers'[w].due \subseteq workers[w].due
  BY <1>1 DEF TypeOK
<1>3. Clock(w)' = Clock(w) /\ Clock(w) \in Nat /\ runs' = runs
  BY ClockType DEF ExecuteJob, Clock
<1>4. \A i \in workers[w].due : Before(i.id, Clock(w))
  BY DEF LeasedLaterOf
<1>5. \A i \in workers[w].due : Before(i.id, Clock(w))'
  BY <1>3, <1>4 DEF Before, RunsOf
<1>6. Before(workers[w].job, workers[w].at)'
  BY <1>2, <1>3, <1>4 DEF Before, RunsOf
<1> QED
  BY <1>2, <1>3, <1>5, <1>6 DEF LeasedLaterOf

\* A job whose run has ended is armed for a time after the run.
LEMMA CompletionOrder ==
  ASSUME TypeOK, Bookkeeping, OrderInv, NEW w \in Worker, CompleteSuccess(w) \/ CompleteFailure(w)
  PROVE  ArmedLaterOf(workers[w].job)'
<1> DEFINE r == workers[w].run
<1>0. PICK j \in Job : j = workers[w].job
  BY CompletedRow DEF CompletedRun
<1>1. /\ InRun(w) /\ Exists(j) /\ r \in DOMAIN runs /\ r \in Running(j)
      /\ workers' = [workers EXCEPT ![w].pc = "prune"]
  BY <1>0, CompletedRow DEF CompletedRun, StillRunning, Running, RunsOf
<1>2. PICK status \in {"success", "error"} : runs' = [runs EXCEPT ![r].status = status]
  BY CompletedRow DEF CompletedRun
<1>3. PICK row \in JobRow, next \in TimeOrNull : CompletedWith(w, row, next)
  BY CompletedRow
<1>4. workers[w].at \in Nat /\ Clock(w) \in Nat /\ workers[w].at <= Clock(w) /\ workers[w].row \in JobRow
  BY <1>1, ClockType DEF OrderInv, LeasedLater, LeasedLaterOf, InRun, Executing, TypeOK, WorkerState
<1>5. next # Null => next \in Nat /\ workers[w].at < next
  <2>1. next \in {Null, ComputeNextRun(workers[w].row, workers[w].at, workers[w].at),
                  ComputeFailureNextRun(workers[w].row, Clock(w))}
    BY <1>3 DEF CompletedWith, ChargedWith, CreditedWith
  <2>2. next # Null => next \in Nat
    BY DEF TimeOrNull
  <2>3. \A t \in Nat : /\ \/ ComputeNextRun(workers[w].row, t, t) = Null
                          \/ t < ComputeNextRun(workers[w].row, t, t)
                       /\ \/ ComputeFailureNextRun(workers[w].row, t) = Null
                          \/ t < ComputeFailureNextRun(workers[w].row, t)
    BY <1>4, NextRunIsLater
  <2>4. CASE next = ComputeNextRun(workers[w].row, workers[w].at, workers[w].at)
    BY <1>4, <2>2, <2>3, <2>4
  <2>5. CASE next = ComputeFailureNextRun(workers[w].row, Clock(w))
    BY <1>4, <2>2, <2>3, <2>5
  <2> QED
    BY <2>1, <2>4, <2>5
<1>6. \A k \in RunsOf(j) : runs[k].started \in Nat /\ runs[k].started <= workers[w].at
  <2>1. runs[r].started = workers[w].at
    BY <1>1 DEF OrderInv, StartedAt, StartedAtOf
  <2>2. \A k \in RunsOf(j) \ {r} : runs[k].started < runs[r].started
    BY <1>1 DEF OrderInv, RunningLast
  <2>3. \A k \in RunsOf(j) : runs[k].started \in Nat
    BY DEF RunsOf, TypeOK, RunRow
  <2> QED
    BY <1>4, <2>1, <2>2, <2>3
<1>7. \A k \in RunsOf(j)' : k \in RunsOf(j) /\ runs'[k].started = runs[k].started
  BY <1>1, <1>2 DEF RunsOf, TypeOK, RunRow
<1>8. jobs'[j].next = next
  BY <1>0, <1>3 DEF CompletedWith, TypeOK, JobRow
<1>9. workers'[w].job = j
  BY <1>0, <1>1 DEF TypeOK, WorkerState
<1>10. next # Null => \A k \in RunsOf(j)' : runs'[k].started < next
  BY <1>4, <1>5, <1>6, <1>7
<1>11. ArmedLaterOf(j)'
  BY <1>8, <1>10 DEF ArmedLaterOf, Before
<1> QED
  BY <1>9, <1>11

\* What INSERT INTO agent_job_runs leaves of the runs.
LEMMA InsertedStart ==
  ASSUME TypeOK, NEW j \in Job, NEW at, InsertRun(j, at)
  PROVE  /\ \A i \in Job \ {j} : RunsOf(i)' = RunsOf(i)
         /\ RunsOf(j)' = RunsOf(j) \cup {lastRun + 1}
         /\ \A r \in DOMAIN runs : r # lastRun + 1 /\ runs'[r] = runs[r]
         /\ runs'[lastRun + 1].started = at
<1> DEFINE new == lastRun + 1
<1>1. \A r \in DOMAIN runs : r # new
  BY DEF TypeOK
<1>2. /\ DOMAIN runs' = DOMAIN runs \cup {new}
      /\ \A r \in DOMAIN runs : runs'[r] = runs[r]
      /\ runs'[new].job = j /\ runs'[new].started = at
  BY <1>1 DEF InsertRun
<1> HIDE DEF new
<1>3. \A i : /\ RunsOf(i) = {r \in DOMAIN runs : runs[r].job = i}
             /\ RunsOf(i)' = {r \in DOMAIN runs' : runs'[r].job = i}
  BY DEF RunsOf
<1>4. \A i \in Job \ {j} : RunsOf(i)' = RunsOf(i)
  BY <1>1, <1>2, <1>3
<1>5. RunsOf(j)' = RunsOf(j) \cup {new}
  BY <1>1, <1>2, <1>3
<1> QED
  BY <1>1, <1>2, <1>4, <1>5 DEF new

\* The holder of a job starts its last run: nobody else has leased the job, and
\* it is not armed.
LEMMA StartOrder ==
  ASSUME TypeOK, LeaseInv, Bookkeeping, OrderInv, [Next]_vars, NEW w \in Worker,
         StartRun(w) \/ StartRunUnacknowledged(w)
  PROVE  OrderInv'
<1> DEFINE new == lastRun + 1
<1>0. PICK j \in Job : j = workers[w].job /\ workers[w].pc = "start"
  BY DEF StartRun, StartRunUnacknowledged, TypeOK, Executing
<1>1. InsertRun(j, workers[w].at) /\ UNCHANGED <<jobs, now>>
  BY <1>0 DEF StartRun, StartRunUnacknowledged
<1>2. /\ \A i \in Job \ {j} : RunsOf(i)' = RunsOf(i)
      /\ RunsOf(j)' = RunsOf(j) \cup {new}
      /\ \A r \in DOMAIN runs : r # new /\ runs'[r] = runs[r]
      /\ runs'[new].started = workers[w].at
      /\ \A i \in Job \ {j} : Running(i)' = Running(i)
      /\ Running(j)' = Running(j) \cup {new}
  BY <1>1, InsertedStart, InsertedRun
<1>3. Holds(w, j) /\ Running(j) = {} /\ Before(j, workers[w].at)
  BY <1>0 DEF Holds, LeaseInv, RunningIsHolders, InRun, OrderInv, LeasedLater, LeasedLaterOf
<1>4. \A i \in Job : \A t : i # j /\ Before(i, t) => \A r \in RunsOf(i)' : runs'[r].started < t
  BY <1>2 DEF Before, RunsOf
<1> HIDE DEF new
<1>5. ArmedLater'
  <2> SUFFICES ASSUME NEW i \in Job, jobs'[i].status = "active", jobs'[i].next # Null
               PROVE  Before(i, jobs[i].next)'
    BY DEF ArmedLater, ArmedLaterOf
  <2>1. Claimable(i) /\ Before(i, jobs[i].next) /\ jobs'[i].next = jobs[i].next
    BY <1>1 DEF Claimable, OrderInv, ArmedLater, ArmedLaterOf
  <2>2. i # j
    BY <1>3, <2>1 DEF LeaseInv, ClaimableIsFree, Free
  <2>3. \A r \in RunsOf(i)' : runs'[r].started < jobs[i].next
    BY <1>4, <2>1, <2>2
  <2> QED
    BY <2>1, <2>3 DEF Before
<1>6. ASSUME NEW v \in Worker PROVE LeasedLaterOf(v)'
  <2>0. LeasedLaterOf(v) /\ Clock(v)' = Clock(v)
    BY <1>1 DEF OrderInv, LeasedLater, Clock
  <2>1. workers'[v].due \subseteq workers[v].due
    BY <1>0, OneWorkerMoves, WorkerKeepsRows DEF WorkerStep, RowsKept, PickupDue, PickupFrom, ExecuteJob
  <2>2. \A item \in workers[v].due : item.id \in Job /\ item.id # j
    BY <1>0, <1>3 DEF Holds, LeaseInv, HeldOnce, DueDistinct, TypeOK, WorkerState
  <2>3. \A item \in workers'[v].due : Before(item.id, Clock(v))'
    <3> SUFFICES ASSUME NEW item \in workers'[v].due PROVE Before(item.id, Clock(v))'
      OBVIOUS
    <3>1. item.id \in Job /\ item.id # j /\ Before(item.id, Clock(v))
      BY <2>0, <2>1, <2>2 DEF LeasedLaterOf
    <3>2. \A r \in RunsOf(item.id)' : runs'[r].started < Clock(v)
      BY <1>4, <3>1
    <3> QED
      BY <2>0, <3>2 DEF Before
  <2>4. CASE v = w
    <3>1. workers'[w].pc \notin {"pickup", "ensure", "start"} /\ (Executing(w)' => workers'[w].at = workers[w].at)
      <4>1. Released(w).pc \in {"idle", "exec"}
        BY DEF Released, IdleWorker
      <4>2. CASE StartRunUnacknowledged(w)
        BY <4>1, <4>2 DEF StartRunUnacknowledged, DropJob, TypeOK, Executing
      <4>3. CASE StartRun(w)
        BY <4>3 DEF StartRun, TypeOK, WorkerState
      <4> QED
        BY <4>2, <4>3
    <3>2. workers[w].at <= Clock(w)
      BY <1>0, <2>0, <2>4 DEF LeasedLaterOf, Executing
    <3> QED
      BY <2>0, <2>3, <2>4, <3>1, <3>2 DEF LeasedLaterOf
  <2>5. CASE v # w
    <3>1. workers'[v] = workers[v]
      BY <2>5, OneWorkerMoves DEF WorkerStep
    <3>2. workers'[v].pc \in {"ensure", "start"} => Before(workers[v].job, workers[v].at)'
      <4> SUFFICES ASSUME workers'[v].pc \in {"ensure", "start"} PROVE Before(workers[v].job, workers[v].at)'
        OBVIOUS
      <4>1. PICK i \in Job : i = workers[v].job
        BY <3>1 DEF TypeOK, Executing
      <4>2. i # j
        BY <1>3, <2>5, <3>1, <4>1 DEF Holds, LeaseInv, HeldOnce
      <4>3. Before(i, workers[v].at)
        BY <2>0, <3>1, <4>1 DEF LeasedLaterOf
      <4>4. \A r \in RunsOf(i)' : runs'[r].started < workers[v].at
        BY <1>4, <4>2, <4>3
      <4> QED
        BY <3>1, <4>1, <4>4 DEF Before
    <3> QED
      BY <2>0, <2>3, <3>1, <3>2 DEF LeasedLaterOf, Executing
  <2> QED
    BY <2>4, <2>5
<1>7. ASSUME NEW v \in Worker PROVE StartedAtOf(v)'
  <2> SUFFICES ASSUME InRun(v)', workers'[v].run \in DOMAIN runs'
               PROVE  runs'[workers'[v].run].started = workers'[v].at
    BY DEF StartedAtOf
  <2>1. CASE v = w
    <3>1. StartRun(w)
      <4>1. Released(w).pc \in {"idle", "exec"}
        BY DEF Released, IdleWorker
      <4> QED
        BY <2>1, <4>1 DEF StartRunUnacknowledged, DropJob, InRun, TypeOK
    <3>2. workers'[w].run = new /\ workers'[w].at = workers[w].at
      BY <3>1 DEF StartRun, TypeOK, WorkerState, new
    <3> QED
      BY <1>2, <2>1, <3>2
  <2>2. CASE v # w
    <3>1. workers'[v] = workers[v] /\ InRun(v)
      BY <2>2, OneWorkerMoves DEF WorkerStep, InRun
    <3>2. workers[v].run # new
      BY <3>1 DEF Bookkeeping, RunsMatch, TypeOK, WorkerState, new
    <3>3. workers[v].run \in DOMAIN runs
      BY <1>1, <3>1, <3>2 DEF InsertRun, new
    <3> QED
      BY <1>2, <3>1, <3>3 DEF OrderInv, StartedAt, StartedAtOf
  <2> QED
    BY <2>1, <2>2
<1>8. RunningLast'
  <2> SUFFICES ASSUME NEW i \in Job, NEW r \in Running(i)', NEW k \in RunsOf(i)' \ {r}
               PROVE  runs'[k].started < runs'[r].started
    BY DEF RunningLast
  <2>1. CASE i = j
    <3>1. r = new /\ k \in RunsOf(j)
      BY <1>2, <1>3, <2>1
    <3> QED
      BY <1>2, <1>3, <3>1 DEF Before, RunsOf
  <2>2. CASE i # j
    BY <1>2, <2>2 DEF OrderInv, RunningLast, RunsOf, Running
  <2> QED
    BY <2>1, <2>2
<1> QED
  BY <1>5, <1>6, <1>7, <1>8 DEF OrderInv, LeasedLater, StartedAt

\* The other steps of a worker.
LEMMA OtherOrder ==
  ASSUME TypeOK, Bookkeeping, OrderInv, [Next]_vars, NEW w \in Worker, WorkerStep(w),
         ~ StartRun(w), ~ StartRunUnacknowledged(w)
  PROVE  OrderInv'
<1>1. OtherStep(w)
  BY DEF WorkerStep, OtherStep, QuietStep
<1>2. RunsKeep /\ RunsGoOn
  BY <1>1, OtherKeeps, WorkerGoesOn DEF Bookkeeping
<1>3. ASSUME NEW j \in Job PROVE ArmedLaterOf(j)'
  <2>1. CASE j = workers[w].job /\ (CompleteSuccess(w) \/ CompleteFailure(w))
    <3>1. workers'[w].job = workers[w].job
      <4>1. workers' = [workers EXCEPT ![w].pc = "prune"]
        BY <2>1, CompletedRow DEF CompletedRun
      <4> QED
        BY <4>1 DEF TypeOK, WorkerState
    <3>2. ArmedLaterOf(workers[w].job)'
      BY <2>1, CompletionOrder
    <3> QED
      BY <2>1, <3>1, <3>2 DEF ArmedLaterOf, Before, RunsOf
  <2>2. CASE ~ (j = workers[w].job /\ (CompleteSuccess(w) \/ CompleteFailure(w)))
    <3>1. jobs'[j].next \in {jobs[j].next, Null}
      BY <2>2, WorkerNext
    <3>2. jobs'[j].status = "active" => jobs[j].status = "active"
      BY WorkerTable DEF ScheduleKept
    <3> QED
      BY <1>2, <3>1, <3>2, KeepArmed DEF OrderInv, ArmedLater
  <2> QED
    BY <2>1, <2>2
<1>4. ASSUME NEW v \in Worker PROVE LeasedLaterOf(v)'
  <2>0. LeasedLaterOf(v)
    BY DEF OrderInv, LeasedLater
  <2>1. CASE v # w
    <3>1. workers'[v] = workers[v]
      BY <2>1, OneWorkerMoves
    <3>2. Clock(v) \in Nat /\ Clock(v)' \in Nat /\ Clock(v) <= Clock(v)' /\ workers[v].at \in Nat
      BY ClockPasses DEF TypeOK, WorkerState
    <3>3. workers'[v].pc = "pickup" => workers'[v].at <= Clock(v)'
      BY <2>0, <3>1, <3>2 DEF LeasedLaterOf
    <3> QED
      BY <1>2, <2>0, <3>1, <3>3, KeepLeased DEF Executing
  <2>2. CASE v = w /\ PickupDue(w)
    BY <2>0, <2>2, PickupOrder DEF OrderInv
  <2>3. CASE v = w /\ ExecuteJob(w)
    BY <2>0, <2>3, ExecuteOrder
  <2>4. CASE v = w /\ ~ PickupDue(w) /\ ~ ExecuteJob(w)
    <3>1. RowsKept
      BY <2>4, WorkerKeepsRows
    <3>2. workers'[w].pc \in {"ensure", "start"} => workers[w].pc \in {"ensure", "start"}
      BY <2>4, RunBegins
    <3>3. workers'[w].pc = "pickup" => workers'[w].at <= Clock(w)'
      <4>1. CASE CleanupStaleRuns(w)
        BY <4>1, ClockType DEF CleanupStaleRuns, TypeOK, WorkerState, Clock
      <4>2. CASE ~ CleanupStaleRuns(w)
        BY <4>2, PollBegins
      <4> QED
        BY <4>1, <4>2
    <3> QED
      BY <1>2, <2>0, <2>4, <3>1, <3>2, <3>3, KeepLeased DEF RowsKept
  <2> QED
    BY <2>1, <2>2, <2>3, <2>4
<1>5. \A v \in Worker : StartedAtOf(v)'
  BY <1>2, KeepStartedAt DEF OrderInv, StartedAt
<1>6. RunningLast'
  BY <1>2, KeepRunningLast DEF OrderInv
<1> QED
  BY <1>3, <1>4, <1>5, <1>6 DEF OrderInv, ArmedLater, LeasedLater, StartedAt

\* Requests leave the runs alone, or delete them with their job; a job that is
\* armed by one is new.
LEMMA ClientOrder ==
  ASSUME TypeOK, LeaseInv, Bookkeeping, OrderInv, [Next]_vars, NEW c \in Client, ClientStep(c)
  PROVE  OrderInv'
<1>1. UNCHANGED workers
  BY DEF ClientStep, NewRequest, ContinueRequest, CreateJob, DeleteJob, Patch, RunNow, Pause, Import,
     ImportNew, ReadForUpdate, Resume, ResumeRead, UpdateWrite, RearmRead, CrashClient
<1>2. runs' = runs \/ \E j \in Job : DeleteJob(c, j)
  BY DEF ClientStep, NewRequest, ContinueRequest, CreateJob, Patch, RunNow, Pause, Import,
     ImportNew, ReadForUpdate, Resume, ResumeRead, UpdateWrite, RearmRead, CrashClient
<1>3. RunsKeep
  BY <1>2 DEF DeleteJob, WithoutRuns, RunsKeep
<1>4. RunsGoOn
  BY <1>1 DEF RunsGoOn, InRun
<1>5. ASSUME NEW j \in Job PROVE ArmedLaterOf(j)'
  <2>1. ASSUME jobs'[j] = jobs[j] PROVE ArmedLaterOf(j)'
    BY <1>3, <2>1, KeepArmed DEF OrderInv, ArmedLater
  <2>2. CASE UpdateWrite(c)
    <3>1. clients[c].row.status = "paused"
      BY <2>2, WriteFields DEF LeaseInv, ClientsOnlyPause
    <3>2. jobs'[j] = jobs[j] \/ jobs'[j].status = "paused"
      BY <2>2, <3>1, WriteFields
    <3> QED
      BY <2>1, <3>2 DEF ArmedLaterOf
  <2>3. CASE ~ UpdateWrite(c)
    <3>1. CASE jobs[j].status = "absent"
      <4>1. RunsOf(j) = {}
        BY <3>1 DEF Bookkeeping, RunsHaveJobs, RunsOf, Exists, JobStatus
      <4>2. RunsOf(j)' = {}
        BY <1>3, <4>1 DEF RunsKeep, RunsOf
      <4> QED
        BY <4>2 DEF ArmedLaterOf, Before
    <3>2. CASE jobs'[j] = NoRow("deleted")
      BY <3>2 DEF ArmedLaterOf, NoRow
    <3> QED
      BY <2>1, <2>3, <3>1, <3>2, RequestTable
  <2> QED
    BY <2>2, <2>3
<1>6. ASSUME NEW v \in Worker PROVE LeasedLaterOf(v)'
  <2>1. LeasedLaterOf(v)
    BY DEF OrderInv, LeasedLater
  <2>2. Clock(v) \in Nat /\ Clock(v)' \in Nat /\ Clock(v) <= Clock(v)' /\ workers[v].at \in Nat
    BY ClockPasses DEF TypeOK, WorkerState
  <2>3. workers'[v].pc = "pickup" => workers'[v].at <= Clock(v)'
    BY <1>1, <2>1, <2>2 DEF LeasedLaterOf
  <2> QED
    BY <1>1, <1>3, <2>1, <2>3, KeepLeased DEF Executing
<1>7. \A v \in Worker : StartedAtOf(v)'
  BY <1>3, <1>4, KeepStartedAt DEF OrderInv, StartedAt
<1>8. RunningLast'
  BY <1>3, KeepRunningLast DEF OrderInv
<1> QED
  BY <1>5, <1>6, <1>7, <1>8 DEF OrderInv, ArmedLater, LeasedLater, StartedAt

LEMMA OrderStep ==
  ASSUME TypeOK, LeaseInv, Bookkeeping, OrderInv, [Next]_vars
  PROVE  OrderInv'
<1>1. ASSUME NEW w \in Worker, WorkerStep(w) PROVE OrderInv'
  BY <1>1, StartOrder, OtherOrder
<1>2. ASSUME NEW c \in Client, ClientStep(c) PROVE OrderInv'
  BY <1>2, ClientOrder
<1>3. CASE Tick \/ UNCHANGED vars
  <2>1. UNCHANGED <<jobs, runs, workers>>
    BY <1>3 DEF Tick, vars
  <2>2. RunsKeep /\ RunsGoOn
    BY <2>1 DEF RunsKeep, RunsGoOn, InRun
  <2>3. \A j \in Job : ArmedLaterOf(j)'
    BY <2>1 DEF OrderInv, ArmedLater, ArmedLaterOf, Before, RunsOf
  <2>4. ASSUME NEW v \in Worker PROVE LeasedLaterOf(v)'
    <3>1. LeasedLaterOf(v)
      BY DEF OrderInv, LeasedLater
    <3>2. Clock(v) \in Nat /\ Clock(v)' \in Nat /\ Clock(v) <= Clock(v)' /\ workers[v].at \in Nat
      BY ClockPasses DEF TypeOK, WorkerState
    <3>3. workers'[v].pc = "pickup" => workers'[v].at <= Clock(v)'
      BY <2>1, <3>1, <3>2 DEF LeasedLaterOf
    <3> QED
      BY <2>1, <2>2, <3>1, <3>3, KeepLeased DEF Executing
  <2>5. \A v \in Worker : StartedAtOf(v)'
    BY <2>2, KeepStartedAt DEF OrderInv, StartedAt
  <2>6. RunningLast'
    BY <2>2, KeepRunningLast DEF OrderInv
  <2> QED
    BY <2>3, <2>4, <2>5, <2>6 DEF OrderInv, ArmedLater, LeasedLater, StartedAt
<1> QED
  BY <1>1, <1>2, <1>3 DEF Next

LEMMA OrderInit == Init => OrderInv
<1> SUFFICES ASSUME Init PROVE OrderInv
  OBVIOUS
<1>1. DOMAIN runs = {} /\ \A w \in Worker : workers[w].pc = "idle" /\ workers[w].due = {}
  BY DEF Init, IdleWorker
<1> QED
  BY <1>1 DEF OrderInv, ArmedLater, ArmedLaterOf, LeasedLater, LeasedLaterOf, StartedAt, StartedAtOf,
     RunningLast, Before, RunsOf, Running, InRun, Executing

-----------------------------------------------------------------------------
(* The runs of a job take turns *)

\* Job j shows after a step what it showed before.
ShowsSame(j) == RunState'[j] = RunState[j] /\ Reported'[j] = Reported[j]

LEMMA Shown ==
  /\ RunState = [j \in Job |-> RunState[j]] /\ RunState' = [j \in Job |-> RunState'[j]]
  /\ Reported = [j \in Job |-> Reported[j]] /\ Reported' = [j \in Job |-> Reported'[j]]
  /\ \A j \in Job :
        /\ RunState[j] = IF ~ Exists(j) THEN jobs[j].status ELSE IF Running(j) = {} THEN "idle" ELSE "running"
        /\ RunState'[j] = IF ~ Exists(j)' THEN jobs'[j].status
                          ELSE IF Running(j)' = {} THEN "idle" ELSE "running"
        /\ Reported[j] = [runs |-> jobs[j].runCount, errors |-> jobs[j].errorCount]
        /\ Reported'[j] = [runs |-> jobs'[j].runCount, errors |-> jobs'[j].errorCount]
  BY DEF RunState, Reported

LEMMA SameShown ==
  ASSUME NEW j \in Job,
         jobs'[j].status = jobs[j].status \/ (jobs[j].status \in JobStatus /\ jobs'[j].status \in JobStatus),
         jobs'[j].runCount = jobs[j].runCount, jobs'[j].errorCount = jobs[j].errorCount,
         Running(j)' = {} <=> Running(j) = {}
  PROVE  ShowsSame(j)
<1>1. Exists(j)' <=> Exists(j)
  BY DEF Exists
<1>2. ~ Exists(j) => jobs'[j].status = jobs[j].status
  BY DEF Exists
<1> QED
  BY <1>1, <1>2, Shown DEF ShowsSame

LEMMA AllSame ==
  ASSUME \A j \in Job : ShowsSame(j)
  PROVE  UNCHANGED Turns!vars
<1>1. RunState' = RunState
  BY Shown DEF ShowsSame
<1>2. Reported' = Reported
  BY Shown DEF ShowsSame
<1> QED
  BY <1>1, <1>2 DEF Turns!vars

LEMMA OneChanges ==
  ASSUME NEW j \in Job, \A i \in Job \ {j} : ShowsSame(i)
  PROVE  /\ RunState' = [RunState EXCEPT ![j] = RunState'[j]]
         /\ Reported' = [Reported EXCEPT ![j] = Reported'[j]]
<1>1. RunState' = [RunState EXCEPT ![j] = RunState'[j]]
  BY Shown DEF ShowsSame
<1>2. Reported' = [Reported EXCEPT ![j] = Reported'[j]]
  BY Shown DEF ShowsSame
<1> QED
  BY <1>1, <1>2

LEMMA QuietTurns ==
  ASSUME TypeOK, NEW w \in Worker, QuietStep(w)
  PROVE  UNCHANGED Turns!vars
<1>1. runs' = runs
  BY DEF QuietStep, PickupDue, PickupFrom, ExecuteJob, EnsureRoomForJob, CreateJobMessage, CreateJobMessageFails,
     CompleteRefused, AbandonJob, CrashWorker
<1>2. ASSUME NEW j \in Job PROVE ShowsSame(j)
  <2>1. /\ jobs'[j].status = jobs[j].status
        /\ jobs'[j].runCount = jobs[j].runCount /\ jobs'[j].errorCount = jobs[j].errorCount
    <3>1. CASE PickupDue(w)
      <4>1. jobs[j] \in JobRow /\ jobs'[j] \in {jobs[j], Leased(jobs[j])}
        BY <3>1 DEF PickupDue, PickupFrom, TypeOK
      <4> QED
        BY <4>1 DEF Leased, JobRow
    <3>2. CASE EnsureRoomForJob(w)
      BY <3>2 DEF EnsureRoomForJob, TypeOK, JobRow
    <3> QED
      BY <3>1, <3>2 DEF QuietStep, ExecuteJob, CreateJobMessage, CreateJobMessageFails, CompleteRefused, AbandonJob,
         CrashWorker
  <2>2. Running(j)' = Running(j)
    BY <1>1 DEF Running, RunsOf
  <2> QED
    BY <2>1, <2>2, SameShown
<1> QED
  BY <1>2, AllSame

\* The job of the run that a worker starts has none.
LEMMA StartTurns ==
  ASSUME TypeOK, LeaseInv, NEW w \in Worker, StartRun(w) \/ StartRunUnacknowledged(w)
  PROVE  Turns!Next
<1>1. PICK j \in Job : j = workers[w].job
  BY DEF StartRun, StartRunUnacknowledged, TypeOK, Executing
<1>2. /\ InsertRun(j, workers[w].at) /\ jobs' = jobs /\ Exists(j) /\ workers[w].pc = "start"
  BY <1>1 DEF StartRun, StartRunUnacknowledged
<1>3. Running(j) = {}
  BY <1>1, <1>2 DEF Holds, LeaseInv, RunningIsHolders, InRun
<1>4. Running(j)' # {} /\ \A i \in Job \ {j} : Running(i)' = Running(i)
  BY <1>2, InsertedRun
<1>5. \A i \in Job \ {j} : ShowsSame(i)
  BY <1>2, <1>4, SameShown
<1>6. Exists(j)'
  BY <1>2 DEF Exists
<1>7. RunState[j] = "idle" /\ RunState'[j] = "running" /\ Reported'[j] = Reported[j]
  BY <1>2, <1>3, <1>4, <1>6, Shown
<1>8. RunState' = [RunState EXCEPT ![j] = "running"]
  BY <1>5, <1>7, OneChanges
<1>9. Reported' = Reported
  BY <1>5, <1>7, Shown DEF ShowsSame
<1>10. Turns!Begin(j)
  BY <1>7, <1>8, <1>9 DEF Turns!Begin
<1> QED
  BY <1>10 DEF Turns!Next

\* The end of a run leaves its job without one.
LEMMA EndTurns ==
  ASSUME TypeOK, LeaseInv, Bookkeeping, NEW w \in Worker, CompleteSuccess(w) \/ CompleteFailure(w)
  PROVE  Turns!Next
<1> DEFINE r == workers[w].run
<1>0. PICK j \in Job : j = workers[w].job
  BY CompletedRow DEF CompletedRun
<1>1. Exists(j) /\ r \in DOMAIN runs /\ r \in Running(j) /\ runs[r].job = j
  BY <1>0, CompletedRow DEF CompletedRun, StillRunning, Running, RunsOf
<1>2. PICK status \in {"success", "error"} : runs' = [runs EXCEPT ![r].status = status]
  BY CompletedRow DEF CompletedRun
<1>3. PICK row \in JobRow, next \in TimeOrNull : CompletedWith(w, row, next)
  BY CompletedRow
<1>4. /\ DOMAIN runs' = DOMAIN runs /\ runs'[r].status = status
      /\ \A q \in DOMAIN runs : runs'[q].job = runs[q].job
      /\ \A q \in DOMAIN runs \ {r} : runs'[q] = runs[q]
  BY <1>1, <1>2 DEF TypeOK, RunRow
<1>5. Running(j)' = {}
  <2>1. Running(j) = {r}
    BY <1>1 DEF LeaseInv, RunningOnce
  <2> QED
    BY <1>4, <2>1 DEF Running, RunsOf
<1>6. \A i \in Job \ {j} : ShowsSame(i)
  <2> SUFFICES ASSUME NEW i \in Job \ {j} PROVE ShowsSame(i)
    OBVIOUS
  <2>1. Running(i)' = Running(i)
    BY <1>1, <1>4 DEF Running, RunsOf
  <2>2. jobs'[i] = jobs[i]
    BY <1>0, <1>3 DEF CompletedWith, TypeOK
  <2> QED
    BY <2>1, <2>2, SameShown
<1>7. /\ jobs[j] \in JobRow /\ jobs'[j].status = row.status
      /\ jobs'[j].runCount = row.runCount /\ jobs'[j].errorCount = row.errorCount
  BY <1>0, <1>3 DEF CompletedWith, TypeOK, JobRow
<1>8. Exists(j)'
  BY <1>0, <1>1, CompletionTable DEF ScheduleKept, Exists, JobStatus
<1>9. RunState[j] = "running" /\ RunState'[j] = "idle"
  BY <1>1, <1>5, <1>8, Shown
<1>10. /\ Reported[j] = [runs |-> jobs[j].runCount, errors |-> jobs[j].errorCount]
       /\ Reported'[j] = [runs |-> row.runCount, errors |-> row.errorCount]
  BY <1>7, Shown
<1>11. CASE CreditedWith(w, row, next)
  <2>1. row.runCount = jobs[j].runCount + 1 /\ row.errorCount = jobs[j].errorCount
    BY <1>0, <1>7, <1>11, SummaryCounts DEF CreditedWith
  <2>2. Reported'[j] = [Reported[j] EXCEPT !.runs = @ + 1]
    BY <1>10, <2>1
  <2>3. Reported' = [Reported EXCEPT ![j].runs = @ + 1]
    BY <1>6, <2>2, OneChanges
  <2>4. RunState' = [RunState EXCEPT ![j] = "idle"]
    BY <1>6, <1>9, OneChanges
  <2>5. Turns!Succeed(j)
    BY <1>9, <2>3, <2>4 DEF Turns!Succeed
  <2> QED
    BY <2>5 DEF Turns!Next
<1>12. CASE ChargedWith(w, row, next)
  <2>1. row.runCount = jobs[j].runCount + 1 /\ row.errorCount = jobs[j].errorCount + 1
    BY <1>0, <1>7, <1>12, SummaryCounts DEF ChargedWith
  <2>2. Reported'[j] = [runs |-> Reported[j].runs + 1, errors |-> Reported[j].errors + 1]
    BY <1>10, <2>1
  <2>3. Turns!Fail({j})
    BY <1>6, <1>9, <2>2, Shown DEF Turns!Fail, ShowsSame
  <2> QED
    BY <2>3 DEF Turns!Next
<1> QED
  BY <1>3, <1>11, <1>12 DEF CompletedWith

\* The cleanup ends the run of every job it finds a stale one of: there is one.
LEMMA CleanupTurns ==
  ASSUME TypeOK, LeaseInv, Bookkeeping, NEW w \in Worker, CleanupStaleRuns(w)
  PROVE  Turns!Next
<1>1. PICK stale \in SUBSET Stale(Clock(w)) :
        /\ runs' = [r \in DOMAIN runs |->
                      IF r \in stale THEN [runs[r] EXCEPT !.status = "timeout"] ELSE runs[r]]
        /\ jobs' = [i \in Job |->
                      IF {r \in stale : runs[r].job = i} = {} THEN jobs[i]
                      ELSE ChargeFailures(jobs[i], Cardinality({r \in stale : runs[r].job = i}))]
  BY DEF CleanupStaleRuns
<1> DEFINE staleOf(j) == {r \in stale : runs[r].job = j}
           failed == {j \in Job : staleOf(j) # {}}
<1>2. /\ DOMAIN runs' = DOMAIN runs
      /\ \A r \in DOMAIN runs : runs'[r].job = runs[r].job
      /\ \A r \in DOMAIN runs : runs'[r].status = IF r \in stale THEN "timeout" ELSE runs[r].status
  BY <1>1 DEF TypeOK, RunRow
<1>3. \A j \in Job : staleOf(j) \subseteq Running(j) /\ Running(j)' = Running(j) \ staleOf(j)
  BY <1>2 DEF Stale, Running, RunsOf
<1>4. ASSUME NEW j \in failed
      PROVE  /\ RunState[j] = "running" /\ RunState'[j] = "idle"
             /\ Reported'[j] = [runs |-> Reported[j].runs + 1, errors |-> Reported[j].errors + 1]
  <2>1. PICK r \in Running(j) : staleOf(j) = {r} /\ Running(j) = {r}
    BY <1>3 DEF LeaseInv, RunningOnce
  <2>2. Exists(j) /\ jobs[j] \in JobRow
    BY <2>1 DEF Bookkeeping, RunsHaveJobs, Running, RunsOf, TypeOK
  <2>3. Cardinality(staleOf(j)) = 1
    BY <2>1, FS_Singleton
  <2>4. jobs'[j] = ChargeFailures(jobs[j], 1)
    BY <1>1, <2>3
  <2>5. /\ jobs'[j].runCount = jobs[j].runCount + 1 /\ jobs'[j].errorCount = jobs[j].errorCount + 1
        /\ Exists(j)'
    BY <2>2, <2>4, SummaryCounts, SummaryStatus DEF Exists
  <2>6. Running(j)' = {}
    BY <1>3, <2>1
  <2>7. j \in Job
    OBVIOUS
  <2> HIDE DEF staleOf, failed
  <2>8. RunState[j] = "running" /\ RunState'[j] = "idle"
    BY <2>1, <2>2, <2>5, <2>6, <2>7, Shown
  <2>9. /\ Reported[j] = [runs |-> jobs[j].runCount, errors |-> jobs[j].errorCount]
        /\ Reported'[j] = [runs |-> jobs[j].runCount + 1, errors |-> jobs[j].errorCount + 1]
    BY <2>5, <2>7, Shown
  <2> QED
    BY <2>8, <2>9
<1>5. ASSUME NEW j \in Job \ failed PROVE ShowsSame(j)
  <2>1. jobs'[j] = jobs[j] /\ Running(j)' = Running(j)
    BY <1>1, <1>3
  <2> QED
    BY <2>1, SameShown
<1>6. failed \in SUBSET Job
  OBVIOUS
<1> HIDE DEF failed
<1>7. Turns!Fail(failed)
  BY <1>4, <1>5, <1>6, Shown DEF Turns!Fail, ShowsSame
<1> QED
  BY <1>6, <1>7 DEF Turns!Next

\* Pruning leaves the run in progress, which is the last to have started.
LEMMA PruneTurns ==
  ASSUME TypeOK, OrderInv, NEW w \in Worker, PruneRunHistory(w)
  PROVE  UNCHANGED Turns!vars
<1>1. jobs' = jobs
  BY DEF PruneRunHistory
<1>2. CASE runs' = runs
  <2>1. \A j \in Job : Running(j)' = Running(j)
    BY <1>2 DEF Running, RunsOf
  <2> QED
    BY <1>1, <2>1, SameShown, AllSame
<1>3. CASE runs' # runs
  <2>0. PICK j \in Job : j = workers[w].job
    BY DEF PruneRunHistory, TypeOK, Executing
  <2>1. PICK old \in SUBSET RunsOf(j) :
          /\ \A s \in old, k \in RunsOf(j) \ old : runs[s].started <= runs[k].started
          /\ IF Cardinality(RunsOf(j)) <= MaxRunHistory THEN old = {}
             ELSE Cardinality(RunsOf(j) \ old) = MaxRunHistory
          /\ runs' = WithoutRuns(old)
    BY <1>3, <2>0 DEF PruneRunHistory
  <2>2. \A r \in Running(j) : r \notin old
    <3> SUFFICES ASSUME NEW r \in Running(j), r \in old PROVE FALSE
      OBVIOUS
    <3>1. Cardinality(RunsOf(j) \ old) = MaxRunHistory
      BY <2>1
    <3>2. RunsOf(j) \ old # {}
      BY <3>1, FS_EmptySet, BoundsAssumption
    <3>3. PICK k \in RunsOf(j) : k \notin old
      BY <3>2
    <3>4. runs[r].started <= runs[k].started /\ runs[r].started \in Nat /\ runs[k].started \in Nat
      BY <2>1, <3>3 DEF Running, RunsOf, TypeOK, RunRow
    <3>5. runs[k].started < runs[r].started
      BY <3>3 DEF OrderInv, RunningLast
    <3> QED
      BY <3>4, <3>5
  <2>3. \A i \in Job : Running(i)' = Running(i)
    BY <2>1, <2>2 DEF WithoutRuns, Running, RunsOf
  <2> QED
    BY <1>1, <2>3, SameShown, AllSame
<1> QED
  BY <1>2, <1>3

\* A request creates a job without runs, deletes one with its runs, or leaves
\* the runs of its job and their summary alone.
LEMMA ClientTurns ==
  ASSUME TypeOK, Bookkeeping, NEW c \in Client, ClientStep(c)
  PROVE  Turns!Next \/ UNCHANGED Turns!vars
<1>1. ASSUME NEW j \in Job, CreateJob(c, j) \/ ImportNew(c, j) PROVE Turns!Next
  <2>1. jobs[j].status = "absent" /\ runs' = runs
    BY <1>1 DEF CreateJob, ImportNew
  <2> DEFINE paused(row) == [row EXCEPT !.enabled = FALSE, !.status = "paused", !.next = Null]
  <2>0. PICK in \in CreateInput : \E row \in {CreatedRow(in, now), paused(CreatedRow(in, now))} :
                                     jobs' = [jobs EXCEPT ![j] = row]
    BY <1>1 DEF CreateJob, ImportNew
  <2>2. PICK row \in {CreatedRow(in, now), paused(CreatedRow(in, now))} :
                 jobs' = [jobs EXCEPT ![j] = row]
    BY <2>0
  <2>3. row.status \in JobStatus /\ row.runCount = 0 /\ row.errorCount = 0
    BY <2>2 DEF CreatedRow, NoRow, JobStatus
  <2>4. \A i \in Job : Running(i)' = Running(i)
    BY <2>1 DEF Running, RunsOf
  <2>5. Running(j) = {}
    BY <2>1 DEF Bookkeeping, RunsHaveJobs, Running, RunsOf, Exists, JobStatus
  <2>6. jobs'[j] = row /\ \A i \in Job \ {j} : jobs'[i] = jobs[i]
    BY <2>2 DEF TypeOK
  <2>7. \A i \in Job \ {j} : ShowsSame(i)
    BY <2>4, <2>6, SameShown
  <2>8. ~ Exists(j) /\ Exists(j)'
    BY <2>1, <2>3, <2>6 DEF Exists, JobStatus
  <2>9. RunState[j] = "absent" /\ RunState'[j] = "idle" /\ Reported'[j] = [runs |-> 0, errors |-> 0]
    BY <2>1, <2>3, <2>4, <2>5, <2>6, <2>8, Shown
  <2>10. Turns!Create(j)
    BY <2>7, <2>9, OneChanges DEF Turns!Create, Turns!NoRuns
  <2> QED
    BY <2>10 DEF Turns!Next
<1>2. ASSUME NEW j \in Job, DeleteJob(c, j) PROVE Turns!Next
  <2>1. /\ Exists(j) /\ runs' = WithoutRuns(RunsOf(j))
        /\ jobs'[j] = NoRow("deleted") /\ \A i \in Job \ {j} : jobs'[i] = jobs[i]
    BY <1>2 DEF DeleteJob, TypeOK
  <2>2. \A i \in Job \ {j} : Running(i)' = Running(i)
    BY <2>1 DEF WithoutRuns, Running, RunsOf
  <2>3. \A i \in Job \ {j} : ShowsSame(i)
    BY <2>1, <2>2, SameShown
  <2>4. /\ jobs'[j].status = "deleted" /\ jobs'[j].runCount = 0 /\ jobs'[j].errorCount = 0
        /\ ~ Exists(j)'
    BY <2>1 DEF NoRow, Exists, JobStatus
  <2>5. /\ RunState[j] \in {"idle", "running"} /\ RunState'[j] = "deleted"
        /\ Reported'[j] = [runs |-> 0, errors |-> 0]
    BY <2>1, <2>4, Shown
  <2>6. Turns!Delete(j)
    BY <2>3, <2>5, OneChanges DEF Turns!Delete, Turns!NoRuns
  <2> QED
    BY <2>6 DEF Turns!Next
<1>3. CASE UpdateWrite(c)
  <2>1. runs' = runs
    BY <1>3 DEF UpdateWrite
  <2>2. ASSUME NEW j \in Job PROVE ShowsSame(j)
    <3>1. Running(j)' = Running(j)
      BY <2>1 DEF Running, RunsOf
    <3>2. CASE jobs'[j] = jobs[j]
      BY <3>1, <3>2, SameShown
    <3>3. CASE jobs'[j] # jobs[j]
      <4>1. j = clients[c].job /\ Exists(j) /\ clients[c].row \in JobRow /\ clients[c].row.status \in JobStatus
        BY <1>3, <3>3, WriteFields DEF Bookkeeping, WritesExistingRows
      <4>2. jobs'[j] = KeepSummary(clients[c].row, jobs[j])
        BY <1>3, <4>1 DEF UpdateWrite, TypeOK
      <4>3. /\ jobs'[j].status = clients[c].row.status
            /\ jobs'[j].runCount = jobs[j].runCount /\ jobs'[j].errorCount = jobs[j].errorCount
        BY <4>1, <4>2 DEF KeepSummary, JobRow
      <4> QED
        BY <3>1, <4>1, <4>3, SameShown DEF Exists
    <3> QED
      BY <3>2, <3>3
  <2> QED
    BY <2>2, AllSame
<1>4. ASSUME jobs' = jobs, runs' = runs PROVE UNCHANGED Turns!vars
  <2>1. \A j \in Job : Running(j)' = Running(j)
    BY <1>4 DEF Running, RunsOf
  <2> QED
    BY <1>4, <2>1, SameShown, AllSame
<1>5. ASSUME NEW j \in Job, Patch(c, j) \/ RunNow(c, j) \/ Pause(c, j) \/ Import(c, j) \/ Resume(c, j)
      PROVE  UNCHANGED Turns!vars
  BY <1>4, <1>5 DEF Patch, RunNow, Pause, Import, Resume, ReadForUpdate
<1>6. CASE ResumeRead(c) \/ RearmRead(c) \/ CrashClient(c)
  BY <1>4, <1>6 DEF ResumeRead, RearmRead, CrashClient
<1>7. ASSUME NEW j \in Job, NewRequest(c, j) PROVE Turns!Next \/ UNCHANGED Turns!vars
  BY <1>1, <1>2, <1>5, <1>7 DEF NewRequest
<1> QED
  BY <1>3, <1>6, <1>7 DEF ClientStep, ContinueRequest

LEMMA TurnsStep ==
  ASSUME TypeOK, LeaseInv, Bookkeeping, OrderInv, [Next]_vars
  PROVE  [Turns!Next]_(Turns!vars)
<1>1. ASSUME NEW w \in Worker, WorkerStep(w) PROVE Turns!Next \/ UNCHANGED Turns!vars
  <2>1. \/ QuietStep(w) \/ CleanupStaleRuns(w) \/ StartRun(w) \/ StartRunUnacknowledged(w)
        \/ CompleteSuccess(w) \/ CompleteFailure(w) \/ PruneRunHistory(w)
    BY <1>1 DEF WorkerStep, QuietStep
  <2> QED
    BY <2>1, QuietTurns, CleanupTurns, StartTurns, EndTurns, PruneTurns
<1>2. ASSUME NEW c \in Client, ClientStep(c) PROVE Turns!Next \/ UNCHANGED Turns!vars
  BY <1>2, ClientTurns
<1>3. CASE Tick \/ UNCHANGED vars
  <2>1. jobs' = jobs /\ \A j \in Job : Running(j)' = Running(j)
    BY <1>3 DEF Tick, vars, Running, RunsOf
  <2> QED
    BY <2>1, SameShown, AllSame
<1> QED
  BY <1>1, <1>2, <1>3 DEF Next

LEMMA TurnsInit == Init => Turns!Init
<1> SUFFICES ASSUME Init PROVE Turns!Init
  OBVIOUS
<1>1. \A j \in Job : Running(j) = {}
  BY DEF Init, Running, RunsOf
<1>2. ASSUME NEW j \in Job
      PROVE  /\ jobs[j].status \in {"absent", "active"}
             /\ jobs[j].runCount = 0 /\ jobs[j].errorCount = 0
  <2>1. jobs[j] = NoRow("absent") \/ \E in \in CreateInput : jobs[j] = CreatedRow(in, 0)
    BY DEF Init
  <2>2. CASE jobs[j] = NoRow("absent")
    BY <2>2 DEF NoRow
  <2>3. ASSUME NEW in \in CreateInput, jobs[j] = CreatedRow(in, 0)
        PROVE  jobs[j].status = "active" /\ jobs[j].runCount = 0 /\ jobs[j].errorCount = 0
    BY <2>3 DEF CreatedRow, NoRow
  <2> QED
    BY <2>1, <2>2, <2>3
<1>3. \A j \in Job : RunState[j] \in {"absent", "idle"} /\ Reported[j] = [runs |-> 0, errors |-> 0]
  BY <1>1, <1>2, Shown DEF Exists, JobStatus
<1>4. RunState \in [Job -> {"absent", "idle"}]
  BY <1>3, Shown
<1>5. Reported = [j \in Job |-> [runs |-> 0, errors |-> 0]]
  BY <1>3, Shown
<1> QED
  BY <1>4, <1>5 DEF Turns!Init, Turns!NoRuns

\* However many workers poll, crash, lose answers and miss their deadlines, the runs
\* of a job take turns and each is reported once, as a success or as a failure, while
\* the requests that are made pause, create, import or delete jobs.  In particular
\* the pruning of the history, which does not look at the status of a run, never
\* removes the one in progress: it is the last that started, and at least one is kept.
THEOREM RunsTakeTheirTurns == LeaseSafe /\ Spec => RunsTakeTurns
<1> DEFINE Inv == TypeOK /\ LeaseInv /\ Bookkeeping /\ OrderInv
<1>1. Init => Inv /\ Turns!Init
  BY InitTypeOK, LeaseInit, BooksInit, OrderInit, TurnsInit
<1>2. LeaseSafe /\ Inv /\ [Next]_vars => Inv' /\ [Turns!Next]_(Turns!vars)
  BY NextTypeOK, LeaseStep, BooksStep, OrderStep, TurnsStep
<1>3. CASE LeaseSafe
  <2>1. Inv /\ [Next]_vars => Inv' /\ [Turns!Next]_(Turns!vars)
    BY <1>2, <1>3
  <2> HIDE DEF Inv
  <2>2. Spec => Turns!Spec
    BY <1>1, <2>1, PTL DEF Spec, Turns!Spec
  <2> QED
    BY <2>2 DEF RunsTakeTurns
<1> QED
  BY <1>3

\* A run that its worker can still complete is the last of its job: pruning spares it.
LEMMA HistorySuffices == TypeOK /\ MemoryInv /\ OrderInv => HistoryReachesBack
<1> SUFFICES ASSUME TypeOK, MemoryInv, OrderInv, NEW v \in Worker, NEW w \in Worker, NEW r,
                    r = workers[v].run, InRun(v), r \in DOMAIN runs
             PROVE  Cardinality({k \in RunsOf(workers[v].job) \ {r} : runs[k].started >= runs[r].started})
                      < MaxRunHistory
  BY DEF HistoryReachesBack
<1>1. PICK j \in Job : j = workers[v].job
  BY DEF InRun, Executing, TypeOK
<1>2. r \in Running(j)
  <2>1. ~ Expired(v)
    BY DEF MemoryInv, InTime, InRun, Executing
  <2>2. runs[r].status = "running" /\ runs[r].job = j
    BY <1>1, <2>1 DEF MemoryInv, LiveRuns, LiveRun, Bookkeeping, RunsMatch
  <2> QED
    BY <2>2 DEF Running, RunsOf
<1>3. \A k \in RunsOf(j) \ {r} : ~ (runs[k].started >= runs[r].started)
  <2>1. \A k \in RunsOf(j) : runs[k].started \in Nat
    BY DEF RunsOf, TypeOK, RunRow
  <2> QED
    BY <1>2, <2>1 DEF OrderInv, RunningLast, Running
<1>4. {k \in RunsOf(j) \ {r} : runs[k].started >= runs[r].started} = {}
  BY <1>3
<1>5. Cardinality({}) = 0 /\ MaxRunHistory \in Nat \ {0}
  BY FS_EmptySet, BoundsAssumption
<1> QED
  BY <1>1, <1>4, <1>5

\* While the requests that are made pause, create, import or delete jobs, workers that meet their
\* deadlines forget no job, however many they are and however short the history is.
THEOREM JobsAreRememberedTogether ==
    LeaseSafe /\ ClocksAgree /\ Timely /\ Spec => []NoJobForgotten
<1> DEFINE Inv == TypeOK /\ LeaseInv /\ OrderInv /\ MemoryInv
<1>1. Init => Inv
  BY LeaseInit, OrderInit, RemembersInit
<1>2. LeaseSafe => KindsFixed
  BY DEF LeaseSafe, KindsFixed
<1>3. CASE LeaseSafe /\ ClocksAgree /\ Timely
  <2>1. ASSUME Inv, [Next]_vars PROVE Inv'
    <3>1. HistoryReachesBack
      BY <2>1, HistorySuffices
    <3>2. (TypeOK /\ MemoryInv)'
      BY <1>2, <1>3, <2>1, <3>1, RemembersStep
    <3>3. LeaseInv'
      BY <1>3, <2>1, LeaseStep
    <3>4. OrderInv'
      BY <2>1, OrderStep DEF MemoryInv
    <3> QED
      BY <3>2, <3>3, <3>4
  <2>2. Inv => NoJobForgotten
    BY DEF MemoryInv
  <2> QED
    BY <1>1, <2>1, <2>2, PTL DEF Spec
<1> QED
  BY <1>3

=============================================================================
