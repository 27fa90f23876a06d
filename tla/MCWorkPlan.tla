----------------------------- MODULE MCWorkPlan -----------------------------
(* Small instances of WorkPlan.                                             *)
EXTENDS WorkPlan, TLC

CONSTANTS c1, c2, d1, d2, p1, p2, t1, w1, e1, b1, here, there

Ready == [isActive |-> TRUE, recommendation |-> "UPDATE", exception |-> None, basis |-> b1, context |-> here]
\* A device with an accepted exception, and one that may be retired or moved to
\* another site.
ExceptedFact == {[Ready EXCEPT !.exception = e1]}
RacingFacts == {Ready, [Ready EXCEPT !.isActive = FALSE], [Ready EXCEPT !.context = there]}

\* The race starts with two devices that could be planned.
RaceInit == Init /\ technical = [d \in Devices |-> Ready]
RaceSpec == RaceInit /\ [][Next]_vars

ClientSymmetry == Permutations(Clients)
RaceSymmetry == Permutations(Clients) \cup Permutations(Plans) \cup Permutations(Devices)
=============================================================================
