--------------------------- MODULE PlanLifecycle ---------------------------
(***************************************************************************)
(* What firmware work planning promises, without clients, transactions,    *)
(* versions or history: a device is held by at most one open plan, a plan  *)
(* moves one legal step at a time, and the window of scheduled work is the *)
(* dated proposal.  WorkPlan implements this specification.                *)
(***************************************************************************)
CONSTANTS Devices, Plans, Dates, Windows, None, States, OpenStates, Legal(_, _)

VARIABLES
  stage,     \* [Plans -> States or None]
  holder,    \* [Devices -> the open plan that holds the device, or None]
  proposal,  \* [Plans -> [date, window]]
  booking    \* [Plans -> [date, window]], both None until scheduled

abstract == <<stage, holder, proposal, booking>>

Slot == [date: Dates \cup {None}, window: Windows \cup {None}]
NoSlot == [date |-> None, window |-> None]

Open(p, D, slot) ==
  /\ stage[p] = None
  /\ D # {} /\ \A d \in D : holder[d] = None
  /\ stage' = [stage EXCEPT ![p] = "PROPOSED"]
  /\ holder' = [d \in Devices |-> IF d \in D THEN p ELSE holder[d]]
  /\ proposal' = [proposal EXCEPT ![p] = slot]
  /\ booking' = [booking EXCEPT ![p] = NoSlot]

Propose(p, slot) ==
  /\ stage[p] \in {"PROPOSED", "AWAITING_CUSTOMER", "APPROVED"}
  /\ proposal' = [proposal EXCEPT ![p] = slot]
  /\ UNCHANGED <<stage, holder, booking>>

\* Closing a plan releases its devices.
Step(p, to) ==
  /\ stage[p] # None /\ Legal(stage[p], to) /\ to # "SCHEDULED"
  /\ stage' = [stage EXCEPT ![p] = to]
  /\ holder' = [d \in Devices |->
                  IF holder[d] = p /\ to \notin OpenStates THEN None ELSE holder[d]]
  /\ booking' = IF to \in {"PROPOSED", "APPROVED"}
                THEN [booking EXCEPT ![p] = NoSlot] ELSE booking
  /\ UNCHANGED proposal

\* A dated proposal can only be confirmed; without one a date is chosen, unless
\* the customer was asked to approve a proposal.
Book(p, slot) ==
  /\ stage[p] # None /\ Legal(stage[p], "SCHEDULED") /\ slot.date # None
  /\ proposal[p].date # None => slot = proposal[p]
  /\ stage[p] = "AWAITING_CUSTOMER" => proposal[p].date # None
  /\ stage' = [stage EXCEPT ![p] = "SCHEDULED"]
  /\ booking' = [booking EXCEPT ![p] = slot]
  /\ UNCHANGED <<holder, proposal>>

AbstractInit ==
  /\ stage \in [Plans -> States \cup {None}]
  /\ holder \in [Devices -> Plans \cup {None}]
  /\ \A d \in Devices : holder[d] # None => stage[holder[d]] \in OpenStates
  /\ proposal = [p \in Plans |-> NoSlot]
  /\ booking \in [Plans -> Slot]

AbstractNext == \E p \in Plans :
  \/ \E D \in SUBSET Devices, slot \in Slot : Open(p, D, slot)
  \/ \E slot \in Slot : Propose(p, slot) \/ Book(p, slot)
  \/ \E to \in States : Step(p, to)

AbstractSpec == AbstractInit /\ [][AbstractNext]_abstract
=============================================================================
