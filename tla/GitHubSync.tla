------------------------------- MODULE GitHubSync -----------------------------
(***************************************************************************)
(* The queue of synchronisation jobs with GitHub, and what fills it: the   *)
(* webhook, the poller that finds a branch to have moved, and pushes to    *)
(* the server's own repositories.  A job is picked up, completed, or fails *)
(* and is tried again until it becomes a dead letter, which a person may   *)
(* replay.  The server starts no consumer of the queue: the consumers here *)
(* follow the calls of the store that its tests make.                      *)
(***************************************************************************)
EXTENDS Naturals, FiniteSets

CONSTANTS
    WebServer,      \* servers that take webhooks
    Hook,           \* webhook calls that can be under way at once
    Bound,          \* deliveries for a repository that a project is bound to
    Unbound,        \* deliveries for other repositories of an installation
    PolledHead,     \* heads of a bound project's branch that the poller finds
    Push,           \* pushes to that project here, and requests for a synchronisation
    Consumer,       \* consumers of the queue
    MaxAttempts,    \* max_attempts of a job
    MaxArrivals,    \* calls of the webhook, pushes and first polls of a head in a behaviour
    MaxReplays      \* replays of dead letters in a behaviour

ASSUME SyncAssumption ==
    /\ Bound \cap Unbound = {} /\ Unbound \cap (PolledHead \cup Push) = {}
    /\ MaxAttempts \in Nat \ {0} /\ MaxArrivals \in Nat /\ MaxReplays \in Nat

Delivery == Bound \cup Unbound

\* The rows: one per delivery and per head, by source_event_id, and one for every push, which
\* has none.
Job == Unbound \cup PolledHead \cup Push

VARIABLES
    jobs,        \* per job: its status, "none" without a row, and attempt_count
    letters,     \* per job: the attempt_count of its dead letter, 0 without one
    seen,        \* per server: the deliveries that its memory holds
    hook,        \* the local state of each webhook call
    botched,     \* deliveries of which a call failed
    repeated,    \* deliveries that were answered as duplicates
    consumer,    \* the local state of each consumer
    doubled,     \* jobs that were replayed while a consumer had them
    arrivals, replays

syncVars == <<jobs, letters, seen, hook, botched, repeated, consumer, doubled,
              arrivals, replays>>

JobStatus == {"none", "queued", "retrying", "in_progress", "completed", "dead_letter"}

NoHook == [pc |-> "idle"]
NoJob == [pc |-> "idle"]

SyncInit ==
    /\ jobs = [j \in Job |-> [status |-> "none", attempts |-> 0]]
    /\ letters = [j \in Job |-> 0]
    /\ seen = [s \in WebServer |-> {}]
    /\ hook = [h \in Hook |-> NoHook] /\ botched = {} /\ repeated = {}
    /\ consumer = [k \in Consumer |-> NoJob] /\ doubled = {}
    /\ arrivals = 0 /\ replays = 0

-----------------------------------------------------------------------------
(* Mutants *)

\* A job gets one attempt more than it may have.
ExhaustedLate(j) == jobs[j].attempts > MaxAttempts

\* A pickup does not lock the job that it reads.
NoneLocked(j) == FALSE

\* The first dead letter of a job stays as it is.
LetterKept(j) == IF letters[j] = 0 THEN jobs[j].attempts ELSE letters[j]

\* An error on the way is only logged, and the delivery is answered as accepted.
Accepts(h) == botched

-----------------------------------------------------------------------------
(* The webhook *)

queueVars == <<letters, consumer, doubled, replays>>

HookEnds(h) == hook' = [hook EXCEPT ![h] = NoHook]

Arrival == arrivals < MaxArrivals /\ arrivals' = arrivals + 1

\* MarkIfNew: a delivery that this server remembers is answered as a duplicate.
Receive(h, s, d) ==
    /\ hook[h] = NoHook /\ Arrival
    /\ \/ /\ d \in seen[s]
          /\ repeated' = repeated \cup {d} /\ UNCHANGED <<seen, hook>>
       \/ /\ d \notin seen[s]
          /\ seen' = [seen EXCEPT ![s] = @ \cup {d}]
          /\ hook' = [hook EXCEPT ![h] = [pc |-> "event", d |-> d]]
          /\ UNCHANGED repeated
    /\ UNCHANGED <<jobs, botched, queueVars>>

\* A pickup has locked the row.
Locked(j) == \E k \in Consumer : consumer[k].pc = "picking" /\ consumer[k].job = j

\* There is no row of this source yet.
Unknown(j) == jobs[j].status = "none"

\* Enqueue inserts the job, or refreshes the payload of one that is there, whatever its status.
Enqueue(j) ==
    /\ ~Locked(j)
    /\ jobs' = IF Unknown(j) THEN [jobs EXCEPT ![j].status = "queued"] ELSE jobs

\* The delivery is answered with an error, or not at all.
Refuses(h) == botched \cup {hook[h].d}

\* For a bound repository the insert fails: GitHubWebhook takes the first result of
\* lookupProjectByRepo, the organisation, for the project, which no foreign key allows.  For
\* another one the project is NULL, and with the job the delivery is done.
EnqueueEvent(h) ==
    /\ hook[h].pc = "event" /\ HookEnds(h)
    /\ \/ hook[h].d \in Bound /\ botched' = Refuses(h) /\ UNCHANGED jobs
       \/ hook[h].d \in Unbound /\ Enqueue(hook[h].d) /\ UNCHANGED botched
    /\ UNCHANGED <<queueVars, seen, repeated, arrivals>>

\* A statement fails, or the call is cancelled.
HookFails(h) ==
    /\ hook[h] # NoHook /\ HookEnds(h)
    /\ botched' = Refuses(h)
    /\ UNCHANGED <<jobs, queueVars, seen, repeated, arrivals>>

\* The replay window of a delivery ends.
Expire(s, d) ==
    /\ d \in seen[s] /\ seen' = [seen EXCEPT ![s] = @ \ {d}]
    /\ UNCHANGED <<jobs, hook, botched, repeated, arrivals, queueVars>>

-----------------------------------------------------------------------------
(* The queue *)

hookVars == <<seen, hook, botched, repeated, arrivals>>

\* RepoDriftPoller.RunOnce, as long as the head is not the one synchronised last.
PollDrift(h) ==
    /\ Enqueue(h)
    /\ IF Unknown(h) THEN Arrival ELSE UNCHANGED arrivals
    /\ UNCHANGED <<queueVars, seen, hook, botched, repeated>>

\* enqueueGitHubSync after a push to the git server, and ManualRepoSync.
PushSync(p) ==
    /\ Unknown(p) /\ Enqueue(p) /\ Arrival
    /\ UNCHANGED <<queueVars, seen, hook, botched, repeated>>

\* The project of the job has one in progress.
ProjectBusy(j) == j \notin Unbound /\ \E i \in Job \ Unbound : jobs[i].status = "in_progress"

\* The statement of PickupNext finds a job that is due and whose project is not busy, and locks
\* it; locked jobs are skipped.
PickupLocks(k) ==
    /\ consumer[k] = NoJob
    /\ \E j \in Job :
        /\ jobs[j].status \in {"queued", "retrying"} /\ ~Locked(j) /\ ~ProjectBusy(j)
        /\ consumer' = [consumer EXCEPT ![k] = [pc |-> "picking", job |-> j]]
    /\ UNCHANGED <<jobs, letters, doubled, replays, hookVars>>

\* It commits.
PickupCommits(k) ==
    /\ consumer[k].pc = "picking"
    /\ jobs' = [jobs EXCEPT ![consumer[k].job] =
                    [status |-> "in_progress", attempts |-> @.attempts + 1]]
    /\ consumer' = [consumer EXCEPT ![k].pc = "working"]
    /\ UNCHANGED <<letters, doubled, replays, hookVars>>

Works(k) == consumer[k].pc = "working" /\ ~Locked(consumer[k].job)

MarkCompleted(k) ==
    /\ Works(k)
    /\ jobs' = [jobs EXCEPT ![consumer[k].job].status = "completed"]
    /\ consumer' = [consumer EXCEPT ![k] = NoJob]
    /\ UNCHANGED <<letters, doubled, replays, hookVars>>

\* The job has had its attempts.
Exhausted(j) == jobs[j].attempts >= MaxAttempts

\* The dead letter of a job takes its attempts, also when there is one already.
Letter(j) == jobs[j].attempts

\* RecordFailure, of an error that may be tried again or not.
RecordFailure(k) ==
    /\ Works(k)
    /\ LET j == consumer[k].job IN
        \/ /\ ~Exhausted(j)
           /\ jobs' = [jobs EXCEPT ![j].status = "retrying"] /\ UNCHANGED letters
        \/ /\ jobs' = [jobs EXCEPT ![j].status = "dead_letter"]
           /\ letters' = [letters EXCEPT ![j] = Letter(j)]
    /\ consumer' = [consumer EXCEPT ![k] = NoJob]
    /\ UNCHANGED <<doubled, replays, hookVars>>

\* A consumer stops before its pickup commits, or while it works; nothing takes the job back.
ConsumerDies(k) ==
    /\ consumer[k] # NoJob /\ consumer' = [consumer EXCEPT ![k] = NoJob]
    /\ UNCHANGED <<jobs, letters, doubled, replays, hookVars>>

\* ReplayDeadLetter does not ask what the job is doing: its letter stays after a replay.
Replay(j) ==
    /\ letters[j] # 0 /\ ~Locked(j)
    /\ replays < MaxReplays /\ replays' = replays + 1
    /\ jobs' = [jobs EXCEPT ![j] = [status |-> "queued", attempts |-> 0]]
    /\ doubled' = IF \E k \in Consumer : consumer[k].pc = "working" /\ consumer[k].job = j
                  THEN doubled \cup {j} ELSE doubled
    /\ UNCHANGED <<letters, consumer, hookVars>>

-----------------------------------------------------------------------------

Webhook ==
    \/ \E h \in Hook, s \in WebServer, d \in Delivery : Receive(h, s, d)
    \/ \E h \in Hook : EnqueueEvent(h) \/ HookFails(h)
    \/ \E s \in WebServer, d \in Delivery : Expire(s, d)

Producing == (\E h \in PolledHead : PollDrift(h)) \/ \E p \in Push : PushSync(p)

Consuming(k) ==
    \/ PickupLocks(k) \/ PickupCommits(k) \/ MarkCompleted(k) \/ RecordFailure(k)
    \/ ConsumerDies(k)

SyncNext ==
    \/ Webhook \/ Producing
    \/ \E k \in Consumer : Consuming(k)
    \/ \E j \in Job : Replay(j)

SyncSpec == SyncInit /\ [][SyncNext]_syncVars

-----------------------------------------------------------------------------
(* Properties *)

\* The rows; no job has more attempts than it may.
SyncTypeOK ==
    /\ jobs \in [Job -> [status : JobStatus, attempts : 0 .. MaxAttempts]]
    /\ letters \in [Job -> 0 .. MaxAttempts]
    /\ seen \in [WebServer -> SUBSET Delivery]
    /\ {botched, repeated} \subseteq SUBSET Delivery
    /\ hook \in [Hook -> {NoHook} \cup [pc : {"event"}, d : Delivery]]
    /\ consumer \in [Consumer -> {NoJob} \cup [pc : {"picking", "working"}, job : Job]]
    /\ doubled \subseteq Job
    /\ arrivals \in 0 .. MaxArrivals /\ replays \in 0 .. MaxReplays

\* A delivery that was answered as a duplicate has its job, or is being taken in, or a call for
\* it failed.  That exception is the hazard: the memory of a server holds the delivery from
\* before it is processed, and turns away the redelivery that follows a failure.
DuplicateIsTakenIn ==
    \A d \in repeated :
        \/ d \in Unbound /\ jobs[d].status # "none"
        \/ d \in botched
        \/ \E h \in Hook : hook[h] # NoHook /\ hook[h].d = d

\* One consumer has a job at a time, however pickups race, unless somebody replayed its dead
\* letter while it ran.
OneConsumer ==
    \A j \in Job \ doubled : \A k, l \in Consumer :
        consumer[k] # NoJob /\ consumer[l] # NoJob /\ consumer[k].job = j /\ consumer[l].job = j => k = l

\* The dead letter of a job tells of the attempts that made it one, also the second time.
DeadLetterIsCurrent == \A j \in Job : jobs[j].status = "dead_letter" => letters[j] = jobs[j].attempts

\* What the queue and its intake keep under races, redeliveries, crashes and replays.
QueueIsSound == DuplicateIsTakenIn /\ OneConsumer /\ DeadLetterIsCurrent
=============================================================================
