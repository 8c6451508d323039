------------------------------- MODULE IssueRow -------------------------------
(***************************************************************************)
(* The row of an issue and the rules of ProjectIssueStore about it: which  *)
(* moves of the work status and of the approval state it takes, and what   *)
(* each of its transactions makes of a row.  An operation that the store   *)
(* may refuse is the set of the rows it can leave: empty when refused.     *)
(***************************************************************************)

Work == {"queued", "in_progress", "blocked", "on_hold", "review", "done", "cancelled"}

Terminal == {"done", "cancelled"}

Approval == {"draft", "ready_for_review", "needs_changes", "approved_by_reviewer", "approved"}

IssueState == {"open", "closed"}

\* A field that a request does not mention.
Keep == "keep"

WorkMoves ==
    [queued      |-> {"in_progress", "blocked", "on_hold", "cancelled", "done"},
     in_progress |-> {"review", "blocked", "on_hold", "cancelled", "done"},
     blocked     |-> {"in_progress", "on_hold", "cancelled"},
     on_hold     |-> {"in_progress", "blocked", "cancelled"},
     review      |-> {"in_progress", "on_hold", "done", "cancelled"},
     done        |-> {"queued"},
     cancelled   |-> {"queued"}]

MayMove(from, to) == to = from \/ to \in WorkMoves[from]

ApprovalMoves ==
    [draft                |-> {"ready_for_review"},
     ready_for_review     |-> {"needs_changes", "approved_by_reviewer", "approved"},
     needs_changes        |-> {"ready_for_review"},
     approved_by_reviewer |-> {"approved", "needs_changes"},
     approved             |-> {}]

MayApprove(from, to) == to = from \/ to \in ApprovalMoves[from]

-----------------------------------------------------------------------------
(* Mutants *)

\* A terminal work status leaves the state as the request wants it.
StateAsAsked(r, work, state) == IF state = Keep THEN r.state ELSE state

-----------------------------------------------------------------------------
(* The transactions *)

\* The state that goes with a new work status.
NextState(r, work, state) ==
    IF work \in Terminal THEN "closed" ELSE IF state = Keep THEN r.state ELSE state

\* UpdateIssueWorkTracking: a closed issue gets a terminal status, and a terminal status
\* closes the issue whatever state was asked for.
Tracked(r, w, s) ==
    LET work  == IF w = Keep THEN r.work ELSE w
        state == NextState(r, work, s)
        last  == IF state = "closed" /\ work \notin Terminal THEN "done" ELSE work
    IN  IF MayMove(r.work, work) /\ (last # work => MayMove(r.work, "done"))
        THEN {[r EXCEPT !.work = last, !.state = state]}
        ELSE {}

\* TransitionApprovalState: the approval closes the issue.
Transitioned(r, next) ==
    IF ~MayApprove(r.approval, next) THEN {}
    ELSE IF next = r.approval \/ next # "approved" THEN {[r EXCEPT !.approval = next]}
    ELSE {[r EXCEPT !.approval = next, !.state = "closed",
                    !.work = IF @ = "cancelled" THEN @ ELSE "done"]}

\* UpsertIssueFromGitHub on a row it knows: an issue that was cancelled here and is open
\* there becomes open and stays cancelled.
Imported(r, state) ==
    [r EXCEPT !.state = state,
              !.approval = IF state = "closed" THEN "approved" ELSE "draft",
              !.work = IF state = "closed" THEN "done" ELSE IF @ = "done" THEN "queued" ELSE @]

\* UpsertIssueFromGitHub on an issue it has not seen.
Inserted(state) ==
    [state |-> state,
     approval |-> IF state = "closed" THEN "approved" ELSE "draft",
     work |-> IF state = "closed" THEN "done" ELSE "queued"]

\* What the status says about the state: a closed issue has ended, a done one is closed.
Agrees(r) ==
    /\ r.state = "closed" => r.work \in Terminal
    /\ r.work = "done" => r.state = "closed"
=============================================================================
