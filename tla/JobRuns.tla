-------------------------------- MODULE JobRuns --------------------------------
(***************************************************************************)
(* What the scheduler promises about the runs of a job: they take turns,   *)
(* each is reported once, as a success or as a failure, unless the job is  *)
(* deleted first.                                                          *)
(***************************************************************************)
EXTENDS Naturals

CONSTANTS Job

VARIABLES
    state,    \* per job: "absent", "idle", "running" or "deleted"
    reported  \* per job: the numbers of runs and of failed runs it shows

vars == <<state, reported>>

NoRuns == [runs |-> 0, errors |-> 0]

Init ==
    /\ state \in [Job -> {"absent", "idle"}]
    /\ reported = [j \in Job |-> NoRuns]

Create(j) ==
    /\ state[j] = "absent"
    /\ state' = [state EXCEPT ![j] = "idle"]
    /\ reported' = [reported EXCEPT ![j] = NoRuns]

Begin(j) ==
    /\ state[j] = "idle"
    /\ state' = [state EXCEPT ![j] = "running"]
    /\ UNCHANGED reported

Succeed(j) ==
    /\ state[j] = "running"
    /\ state' = [state EXCEPT ![j] = "idle"]
    /\ reported' = [reported EXCEPT ![j].runs = @ + 1]

\* Runs of several jobs may be found to have failed at once.
Fail(S) ==
    /\ \A j \in S : state[j] = "running"
    /\ state' = [j \in Job |-> IF j \in S THEN "idle" ELSE state[j]]
    /\ reported' = [j \in Job |-> IF j \in S
                                  THEN [runs |-> reported[j].runs + 1, errors |-> reported[j].errors + 1]
                                  ELSE reported[j]]

Delete(j) ==
    /\ state[j] \in {"idle", "running"}
    /\ state' = [state EXCEPT ![j] = "deleted"]
    /\ reported' = [reported EXCEPT ![j] = NoRuns]

Next ==
    \/ \E j \in Job : Create(j) \/ Begin(j) \/ Succeed(j) \/ Delete(j)
    \/ \E S \in SUBSET Job : Fail(S)

Spec == Init /\ [][Next]_vars

=============================================================================
