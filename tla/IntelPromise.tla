----------------------------- MODULE IntelPromise ------------------------------
(***************************************************************************)
(* What the intelligence daemon promises of each run: it is accepted once, *)
(* it ends once, as a report, a failure or a cancellation, and a run that  *)
(* was asked to stop before it ended never yields a report.                *)
(***************************************************************************)
CONSTANT Requests

VARIABLE standing      \* of each run: new, open, stopping, reported, failed, cancelled

Become(r, from, to) ==
    /\ standing[r] \in from
    /\ standing' = [standing EXCEPT ![r] = to]

Init == standing = [r \in Requests |-> "new"]

Accept(r) == Become(r, {"new"}, "open")

AskToStop(r) == Become(r, {"open"}, "stopping")

Report(r) == Become(r, {"open"}, "reported")

Fail(r) == Become(r, {"open", "stopping"}, "failed")

Stop(r) == Become(r, {"open", "stopping"}, "cancelled")

Next == \E r \in Requests : Accept(r) \/ AskToStop(r) \/ Report(r) \/ Fail(r) \/ Stop(r)

Spec == Init /\ [][Next]_standing
=============================================================================
