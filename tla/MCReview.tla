------------------------------ MODULE MCReview ------------------------------
(* Small instances of Review: one issue of each kind, or the two that matter. *)
EXTENDS Review, TLC

MCKinds == <<"serious", "unevaluated", "low">>
MCSerious == <<"serious", "low">>

(* Bounds. Issues that need the gate's attention are raised in behaviours
   without a re-check, where two requests may overlap; when both are there the
   two do different things, and what follows the freeze is not looked at.
   Re-checks, which may overlap too, rebuild the low finding, beside one
   request; two of them carry what was waved through or left alone, beside
   decisions only. *)
Low == {i \in Issues : Kind(i) = "low"}
InPlay == raised \cup {f.issue : f \in Rows}
Open(steps) == Cardinality({q \in Requests : request[q].op \in steps})
Apart == \A steps \in {{"review"}, {"approval", "reviewers", "sign"}, FinalizeSteps} : Open(steps) <= 1
Gating ==
    /\ rechecks.asked = 0
    /\ InPlay \cap Low = {}
    /\ Cardinality(InPlay) > 1 => Apart /\ ~Frozen
Waving ==
    /\ \A f \in Rows : f.status # "confirmed"
    /\ \A q \in Requests : request[q].op \in {"none", "review"}
    /\ \A q \in Requests : request[q].op = "review" => request[q].status # "confirmed"
Rechecking ==
    /\ InPlay \subseteq Low
    /\ Cardinality({q \in Requests : request[q] # Idle}) <= 1
    /\ rechecks.asked > 1 => Waving
ReviewBound == Gating \/ Rechecking

Symmetry == Permutations(People) \cup Permutations(Requests) \cup Permutations(Workers)
=============================================================================
