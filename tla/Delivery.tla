------------------------------- MODULE Delivery -------------------------------
(***************************************************************************)
(* What the dispatch queue promises about a message that was saved in it:  *)
(* it is settled in the end, as delivered or as given up, and a delivery   *)
(* is never taken back.                                                    *)
(***************************************************************************)
CONSTANTS Msg

VARIABLES outcome  \* per message: "none", "queued", "delivered" or "failed"

Init == outcome = [m \in Msg |-> "none"]

Save(m) == outcome[m] = "none" /\ outcome' = [outcome EXCEPT ![m] = "queued"]

\* A message that was given up may still turn out to have been sent.
Deliver(m) ==
    outcome[m] \in {"queued", "failed"} /\ outcome' = [outcome EXCEPT ![m] = "delivered"]

GiveUp(m) == outcome[m] = "queued" /\ outcome' = [outcome EXCEPT ![m] = "failed"]

Next == \E m \in Msg : Save(m) \/ Deliver(m) \/ GiveUp(m)

Settle(m) == outcome[m] = "queued" /\ (Deliver(m) \/ GiveUp(m))

Spec == Init /\ [][Next]_outcome

FairSpec == Spec /\ \A m \in Msg : WF_outcome(Settle(m))

=============================================================================
