----------------------------- MODULE MCOMSStore -----------------------------
(* A small instance of OMSStore: two publishers race on one order of quantity 2,
   which takes two reports before it can be filled. *)
EXTENDS OMSStore, TLC

CONSTANTS o1, w1, w2, r1, r2, r3, r4, f1, f2

MCOrders == {o1}
MCQuantity == [o \in MCOrders |-> 2]
MCPublishers == {w1, w2}
MCReportIDs == {r1, r2, r3, r4}
MCFillIDs == {f1, f2}
MCTypes == {"PLANNED", "SUBMISSION_PENDING", "PARTIAL_FILL", "FILL"}
Symmetry == Permutations(MCPublishers) \cup Permutations(MCReportIDs) \cup Permutations(MCFillIDs)

\* Bounds on the instance: from the first export on, and while commits fail, one publisher is
\* at work; around an export there are three reports and no failing commit, and another bundle
\* is read only of a store that has restored a report its order had not applied.
Idle(w) == held[w] = NoPublication /\ outcome[w] = "none"
Reading == \E o \in Orders : stage[o] # "none"
Kept == \E o \in Orders : exported.current[o] # Absent
Unused(r) == /\ reports[r] = NoReport /\ exported.reports[r] = NoReport
             /\ \A w \in Publishers : held[w].id # r
Alone(w) == Reading \/ Kept \/ failBeforeCommit => \A v \in Publishers \ {w} : Idle(v)
Small == /\ \E w \in Publishers : Alone(w)
         /\ Reading \/ Kept => ~failBeforeCommit /\ \E r \in ReportIDs : Unused(r)
         /\ Reading /\ Kept => unapplied # {}

SmallNext == /\ StoreStep \/ \E w \in Publishers : Alone(w) /\ PublisherStep(w)
             /\ Small'
SmallSpec == Init /\ [][SmallNext]_vars
=============================================================================
