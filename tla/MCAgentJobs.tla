----------------------------- MODULE MCAgentJobs -----------------------------
(***************************************************************************)
(* Small instances of AgentJobs for TLC.                                   *)
(***************************************************************************)
EXTENDS AgentJobs, TLC

CONSTANTS j1, j2, w1, w2, c1, c2

IntervalJob == [kind |-> "interval", every |-> 1, maxFailures |-> 2]
CronJob == [kind |-> "cron", every |-> 2, maxFailures |-> 1]
OneShotJob == [kind |-> "once", every |-> 1, maxFailures |-> 2]

MixedInput == {IntervalJob, OneShotJob}
CronInput == {CronJob, OneShotJob}
IntervalInput == {IntervalJob}
AllInput == {IntervalJob, CronJob, OneShotJob}

NoPatch == {}
RenamePatch == {[f \in {} |-> f]}
FieldPatch == {[valid |-> FALSE], [valid |-> TRUE], [enabled |-> FALSE]}

NoSkew == [w \in Worker |-> 0]
TwoAhead == [w \in Worker |-> IF w = w1 THEN 2 ELSE 0]

WorkerOnly == {}
LeaseSafeRequests == {"pause", "delete", "create", "import"}
RunRequests == {"pause", "resume", "delete"}
EditRequests == {"patch", "run_now"}
PatchOnly == {"patch"}

=============================================================================
