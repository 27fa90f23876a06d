--------------------------- MODULE WorkPlanProofs ---------------------------
(* Proofs about WorkPlan, for every set of clients, devices and plans.      *)
EXTENDS WorkPlan, TLAPS

-----------------------------------------------------------------------------
(* Lemmas about the operators the writes are built from.                   *)

\* The row a transition writes is a row, if its version is within the bound.
LEMMA MovedIsRow ==
  ASSUME NEW row \in Row, NEW at \in Clocks,
         NEW t \in [kind: {"transition"}, id: Plans, read: Row, to: States,
                    date: OptDate, window: OptWindow],
         Moved(row, t, at).updatedAt <= MaxTime
  PROVE  Moved(row, t, at) \in Row
<1>1. (row.stamps \ Cleared(t.to)) \cup Stamped(t.read.state, t.to) \in SUBSET Stamps
  BY DEF Row, Cleared, Stamped, Stamps
<1>2. NextUpdatedAt(at, t.read) \in Nat
  BY WorkPlanAssumption DEF NextUpdatedAt, Row
<1>3. NextUpdatedAt(at, t.read) <= MaxTime
  BY DEF Moved, Row
<1>4. NextUpdatedAt(at, t.read) \in 0..MaxTime
  BY <1>2, <1>3, WorkPlanAssumption
<1>5. t.to \in States /\ t.date \in OptDate /\ t.window \in OptWindow
  OBVIOUS
<1>6. None \in OptDate /\ None \in OptWindow
  BY DEF OptDate, OptWindow
<1> QED
  BY <1>1, <1>4, <1>5, <1>6 DEF Moved, Row

\* So is the row an amendment writes.
LEMMA AmendedIsRow ==
  ASSUME NEW row \in Row, NEW at \in Clocks,
         NEW t \in [kind: {"amend"}, id: Plans, read: Row,
                    fields: SUBSET {"proposedFor", "proposedWindow"},
                    date: OptDate, window: OptWindow],
         Amended(row, t, at).updatedAt <= MaxTime
  PROVE  Amended(row, t, at) \in Row
<1>1. NextUpdatedAt(at, t.read) \in Nat
  BY WorkPlanAssumption DEF NextUpdatedAt, Row
<1>2. NextUpdatedAt(at, t.read) <= MaxTime
  BY DEF Amended, Row
<1>3. NextUpdatedAt(at, t.read) \in 0..MaxTime
  BY <1>1, <1>2, WorkPlanAssumption
<1>4. t.date \in OptDate /\ t.window \in OptWindow
  OBVIOUS
<1> QED
  BY <1>3, <1>4 DEF Amended, Row

\* What is shown for an input is a preview.
LEMMA PreviewIsPreview ==
  ASSUME TypeOK, NEW input \in Inputs
  PROVE  Previewed(input) \in Previews /\ Previewed(input).input = input
<1>1. ASSUME NEW d \in Devices, NEW override \in BOOLEAN
      PROVE  Line(d, override) \in PreviewLines
  <2>1. technical[d] \in Facts
    BY WorkPlanAssumption DEF TypeOK
  <2>2. ActivePlansOf(d) # {} => (CHOOSE p \in ActivePlansOf(d) : TRUE) \in Plans
    BY DEF ActivePlansOf
  <2>3. Disposition(d, override) \in {"INACTIVE_DEVICE", "ALREADY_PLANNED", "NO_ACTION",
                                     "ACTIVE_EXCEPTION", "REVIEW_REQUIRED", "INCLUDED"}
    BY DEF Disposition
  <2>4. (technical[d].exception # None /\ override) \in BOOLEAN
    OBVIOUS
  <2> HIDE DEF Disposition
  <2> QED
    BY <2>1, <2>2, <2>3, <2>4 DEF Line, PreviewLines, Facts
<1>2. \A d \in input.devices : Line(d, d \in input.overrides) \in PreviewLines
  <2>1. \A d : (d \in input.overrides) \in BOOLEAN
    OBVIOUS
  <2>2. input.devices \subseteq Devices
    BY DEF Inputs
  <2> QED
    BY <1>1, <2>1, <2>2
<1>3. [d \in input.devices |-> Line(d, d \in input.overrides)] \in [input.devices -> PreviewLines]
  BY <1>2
<1> QED
  BY <1>3 DEF Previewed, Previews

-----------------------------------------------------------------------------
(* Type correctness.                                                       *)

\* A plan on the screen, or in a transaction, is a plan of the database.
LEMMA InFlightTypes ==
  ASSUME TypeOK, InFlight, NEW c \in Clients
  PROVE  /\ Viewing(c, "plan") => /\ view[c] \in [kind: {"plan"}, id: Plans, row: Row]
                                  /\ plan[view[c].id] \in Row
         /\ Viewing(c, "preview") => view[c] \in [kind: {"preview"}, preview: Previews]
         /\ InTx(c, "transition") => tx[c] \in [kind: {"transition"}, id: Plans, read: Row,
                                      to: States, date: OptDate, window: OptWindow]
         /\ InTx(c, "amend") => tx[c] \in [kind: {"amend"}, id: Plans, read: Row,
                                 fields: SUBSET {"proposedFor", "proposedWindow"},
                                 date: OptDate, window: OptWindow]
         /\ InTx(c, "create") => tx[c] \in [kind: {"create"}, preview: Previews,
                                  committed: SUBSET [reads: SUBSET Devices,
                                                     writes: SUBSET Devices]]
         /\ Writing(c) => plan[tx[c].id] \in Row
<1>1. view[c] \in Views \cup {None} /\ tx[c] \in Transactions \cup {None}
  BY DEF TypeOK
<1>2. Viewing(c, "plan") => view[c] \in [kind: {"plan"}, id: Plans, row: Row]
  BY <1>1 DEF Views, Viewing
<1>3. Viewing(c, "preview") => view[c] \in [kind: {"preview"}, preview: Previews]
  BY <1>1 DEF Views, Viewing
<1>4. InTx(c, "transition") => tx[c] \in [kind: {"transition"}, id: Plans, read: Row,
                                to: States, date: OptDate, window: OptWindow]
  BY <1>1 DEF Transactions, InTx
<1>5. InTx(c, "amend") => tx[c] \in [kind: {"amend"}, id: Plans, read: Row,
                           fields: SUBSET {"proposedFor", "proposedWindow"},
                           date: OptDate, window: OptWindow]
  BY <1>1 DEF Transactions, InTx
<1>6. InTx(c, "create") => tx[c] \in [kind: {"create"}, preview: Previews,
                            committed: SUBSET [reads: SUBSET Devices, writes: SUBSET Devices]]
  BY <1>1 DEF Transactions, InTx
<1>7. Viewing(c, "plan") => plan[view[c].id] \in Row
  BY <1>2 DEF InFlight, ReadsAreEarlier, Earlier, Exists, TypeOK
<1>8. Writing(c) => plan[tx[c].id] \in Row
  BY <1>7 DEF InFlight, ReadsAreEarlier
<1> QED
  BY <1>2, <1>3, <1>4, <1>5, <1>6, <1>7, <1>8

LEMMA InitTypeOK == Init => TypeOK
<1> SUFFICES ASSUME Init PROVE TypeOK
  OBVIOUS
<1>1. LegacyRows \subseteq Row
  <2>1. ASSUME NEW state \in States, NEW date \in OptDate, NEW stamps \in SUBSET Stamps
        PROVE  LegacyRow(state, date, stamps) \in Row
    BY WorkPlanAssumption DEF LegacyRow, Row, OptDate, OptWindow
  <2>2. {} \subseteq Stamps /\ {"scheduled"} \subseteq Stamps /\ {"completed"} \subseteq Stamps
    BY DEF Stamps
  <2>3. "PROPOSED" \in States /\ "SCHEDULED" \in States /\ "DONE" \in States
    BY DEF States
  <2>4. None \in OptDate /\ Dates \subseteq OptDate
    BY DEF OptDate
  <2> QED
    BY <2>1, <2>2, <2>3, <2>4 DEF LegacyRows
<1>2. plan \in [Plans -> Row \cup {None}]
  BY <1>1 DEF Init
<1>3. NoTargets \in UNION {[D -> Snapshots] : D \in SUBSET Devices}
  <2>1. NoTargets \in [{} -> Snapshots]
    BY DEF NoTargets
  <2> QED
    BY <2>1
<1>4. ASSUME NEW d \in Devices
      PROVE  [e \in {d} |-> LegacySnapshot] \in UNION {[D -> Snapshots] : D \in SUBSET Devices}
  <2>1. LegacySnapshot \in Snapshots
    BY DEF LegacySnapshot, Snapshots
  <2>2. [e \in {d} |-> LegacySnapshot] \in [{d} -> Snapshots]
    BY <2>1
  <2>3. {d} \in SUBSET Devices
    OBVIOUS
  <2> QED
    BY <2>2, <2>3
<1>5. target \in [Plans -> UNION {[D -> Snapshots] : D \in SUBSET Devices}]
  <2> DEFINE T == UNION {[D -> Snapshots] : D \in SUBSET Devices}
  <2>1. PICK device \in [LegacyPlans -> Devices] :
          target = [p \in Plans |-> IF Exists(p) THEN [d \in {device[p]} |-> LegacySnapshot]
                                    ELSE NoTargets]
    BY DEF Init
  <2>2. NoTargets \in T /\ \A p \in LegacyPlans : [d \in {device[p]} |-> LegacySnapshot] \in T
    BY <1>3, <1>4
  <2>3. \A p \in Plans : Exists(p) => p \in LegacyPlans
    BY DEF Init, Exists
  <2> HIDE DEF T
  <2> QED
    BY <2>1, <2>2, <2>3 DEF T
<1>6. event \in [Plans -> Seq(Events)]
  <2>1. ASSUME NEW p \in Plans, Exists(p) PROVE plan[p].state \in States
    BY <1>2, <2>1 DEF Exists, Row
  <2>2. \A p \in Plans : Exists(p) => <<[from |-> None, to |-> plan[p].state]>> \in Seq(Events)
    BY <2>1 DEF Events
  <2>3. <<>> \in Seq(Events)
    OBVIOUS
  <2> QED
    BY <2>2, <2>3 DEF Init
<1>7. technical \in [Devices -> Technical] /\ changes \in 0..MaxChanges
  BY WorkPlanAssumption DEF Init
<1>8. view \in [Clients -> Views \cup {None}] /\ tx \in [Clients -> Transactions \cup {None}]
  BY DEF Init
<1> QED
  BY <1>2, <1>5, <1>6, <1>7, <1>8 DEF TypeOK

LEMMA NextTypeOK == TypeOK /\ InFlight /\ [Next]_vars => TypeOK'
<1> SUFFICES ASSUME TypeOK, InFlight, [Next]_vars PROVE TypeOK'
  OBVIOUS
<1> USE DEF TypeOK
<1>1. ASSUME NEW c \in Clients, NEW p \in Plans, LoadPlan(c, p) PROVE TypeOK'
  <2>1. [kind |-> "plan", id |-> p, row |-> plan[p]] \in Views
    BY <1>1 DEF LoadPlan, Exists, Views
  <2> QED
    BY <1>1, <2>1 DEF LoadPlan
<1>2. ASSUME NEW c \in Clients, NEW input \in Inputs, Preview(c, input) PROVE TypeOK'
  <2>1. [kind |-> "preview", preview |-> Previewed(input)] \in Views
    BY PreviewIsPreview DEF Views
  <2> QED
    BY <1>2, <2>1 DEF Preview
<1>3. ASSUME NEW c \in Clients, NEW to \in States, NEW date \in OptDate,
             NEW window \in OptWindow, BeginTransition(c, to, date, window)
      PROVE TypeOK'
  <2> DEFINE row == plan[view[c].id]
             t == [kind |-> "transition", id |-> view[c].id, read |-> row, to |-> to,
                   date |-> IF to = "SCHEDULED" THEN ConfirmedFor(row, date) ELSE None,
                   window |-> IF to = "SCHEDULED" THEN ConfirmedWindow(row, window) ELSE None]
  <2>1. view[c].id \in Plans /\ row \in Row
    BY <1>3, InFlightTypes DEF BeginTransition
  <2>2. ConfirmedFor(row, date) \in OptDate /\ ConfirmedWindow(row, window) \in OptWindow
    BY <2>1 DEF ConfirmedFor, ConfirmedWindow, Row
  <2>3. t \in Transactions
    BY <2>1, <2>2 DEF Transactions, OptDate, OptWindow
  <2>4. tx' = [tx EXCEPT ![c] = t]
    BY <1>3 DEF BeginTransition
  <2> HIDE DEF t
  <2> QED
    BY <1>3, <2>3, <2>4 DEF BeginTransition
<1>4. ASSUME NEW c \in Clients, NEW fields \in SUBSET {"proposedFor", "proposedWindow"},
             NEW date \in OptDate, NEW window \in OptWindow,
             BeginAmend(c, fields, date, window)
      PROVE TypeOK'
  <2>1. view[c].id \in Plans /\ plan[view[c].id] \in Row
    BY <1>4, InFlightTypes DEF BeginAmend
  <2>2. [kind |-> "amend", id |-> view[c].id, read |-> plan[view[c].id],
         fields |-> fields, date |-> date, window |-> window] \in Transactions
    BY <2>1 DEF Transactions
  <2> QED
    BY <1>4, <2>2 DEF BeginAmend
<1>5. ASSUME NEW c \in Clients, Writing(c), NEW row \in Row, NEW to \in States,
             Write(c, row, to)
      PROVE TypeOK'
  <2>1. tx[c].id \in Plans /\ tx[c].read \in Row
    BY <1>5, InFlightTypes DEF Writing
  <2>2. [from |-> tx[c].read.state, to |-> to] \in Events
    BY <2>1 DEF Events, Row
  <2>3. Append(event[tx[c].id], [from |-> tx[c].read.state, to |-> to]) \in Seq(Events)
    BY <2>1, <2>2
  <2> QED
    BY <1>5, <2>1, <2>3 DEF Write
<1>6. ASSUME NEW c \in Clients, NEW at \in Clocks, CommitTransition(c, at) PROVE TypeOK'
  <2>1. Moved(plan[tx[c].id], tx[c], at) \in Row
    BY <1>6, MovedIsRow, InFlightTypes DEF CommitTransition, Write, Writing
  <2>2. tx[c].to \in States
    BY <1>6, InFlightTypes DEF CommitTransition
  <2> QED
    BY <1>5, <1>6, <2>1, <2>2 DEF CommitTransition, Writing
<1>7. ASSUME NEW c \in Clients, NEW at \in Clocks, CommitAmend(c, at) PROVE TypeOK'
  <2>1. Amended(plan[tx[c].id], tx[c], at) \in Row
    BY <1>7, AmendedIsRow, InFlightTypes DEF CommitAmend, Write, Writing
  <2>2. tx[c].read.state \in States
    BY <1>7, InFlightTypes DEF CommitAmend, Row
  <2> QED
    BY <1>5, <1>7, <2>1, <2>2 DEF CommitAmend, Writing
<1>8. ASSUME NEW c \in Clients, BeginCreate(c) PROVE TypeOK'
  <2> DEFINE preview == Previewed(view[c].preview.input)
             t == [kind |-> "create", preview |-> preview, committed |-> {}]
  <2>1. view[c].preview.input \in Inputs
    BY <1>8, InFlightTypes DEF BeginCreate, Previews
  <2>2. t \in Transactions
    <3>1. preview \in Previews
      BY <2>1, PreviewIsPreview
    <3> HIDE DEF preview
    <3> QED
      BY <3>1 DEF Transactions
  <2>3. tx' = [tx EXCEPT ![c] = t]
    BY <1>8 DEF BeginCreate
  <2> HIDE DEF t
  <2> QED
    BY <1>8, <2>2, <2>3 DEF BeginCreate
<1>9. ASSUME NEW c \in Clients, NEW p \in Plans, NEW at \in Clocks, CommitCreate(c, p, at)
      PROVE TypeOK'
  <2> DEFINE shown == tx[c].preview
             edge == [reads |-> shown.input.devices, writes |-> Included(shown)]
             Edges == [reads: SUBSET Devices, writes: SUBSET Devices]
  <2>1. shown \in Previews
    BY <1>9, InFlightTypes DEF CommitCreate
  <2>2. /\ shown.input \in Inputs
        /\ shown.line \in [shown.input.devices -> PreviewLines]
        /\ Included(shown) \subseteq shown.input.devices
        /\ shown.input.devices \subseteq Devices
    BY <2>1 DEF Previews, Included, Inputs
  <2>3. NewRow(shown.input, at) \in Row
    <3>1. shown.input.proposedFor \in OptDate /\ shown.input.proposedWindow \in OptWindow
      BY <2>2 DEF Inputs
    <3>2. None \in OptDate /\ None \in OptWindow /\ at \in 0..MaxTime /\ "PROPOSED" \in States
      BY WorkPlanAssumption DEF OptDate, OptWindow, States
    <3> QED
      BY <3>1, <3>2 DEF NewRow, Row
  <2>4. [d \in Included(shown) |-> Snapshot(shown.line[d])] \in [Included(shown) -> Snapshots]
    <3>1. \A d \in Included(shown) : shown.line[d] \in PreviewLines
      BY <2>2
    <3>2. \A line \in PreviewLines : Snapshot(line) \in Snapshots
      BY DEF Snapshot, Snapshots, PreviewLines
    <3> QED
      BY <3>1, <3>2
  <2>5. <<[from |-> None, to |-> "PROPOSED"]>> \in Seq(Events)
    BY DEF Events, States
  <2>6. edge \in Edges
    BY <2>2
  <2>7. ASSUME NEW k \in Clients, InTx(k, "create")
        PROVE  [tx[k] EXCEPT !.committed = @ \cup {edge}] \in Transactions
    <3>1. tx[k] \in [kind: {"create"}, preview: Previews, committed: SUBSET Edges]
      BY <2>7, InFlightTypes
    <3> HIDE DEF edge, Edges
    <3> QED
      BY <3>1, <2>6 DEF Transactions, Edges
  <2>8. tx' = [k \in Clients |->
                IF k = c THEN None
                ELSE IF InTx(k, "create")
                  THEN [tx[k] EXCEPT !.committed = @ \cup {edge}] ELSE tx[k]]
    BY <1>9 DEF CommitCreate
  <2>9. tx' \in [Clients -> Transactions \cup {None}]
    <3> HIDE DEF edge
    <3> QED
      BY <2>7, <2>8
  <2>10. plan' \in [Plans -> Row \cup {None}] /\ event' \in [Plans -> Seq(Events)]
    BY <1>9, <2>3, <2>5 DEF CommitCreate
  <2>11. target' \in [Plans -> UNION {[D -> Snapshots] : D \in SUBSET Devices}]
    <3>1. Included(shown) \in SUBSET Devices
      BY <2>2
    <3>2. [d \in Included(shown) |-> Snapshot(shown.line[d])]
            \in UNION {[D -> Snapshots] : D \in SUBSET Devices}
      BY <2>4, <3>1
    <3> QED
      BY <1>9, <3>2 DEF CommitCreate
  <2> QED
    BY <1>9, <2>9, <2>10, <2>11 DEF CommitCreate
<1>10. ASSUME NEW c \in Clients, Abort(c) PROVE TypeOK'
  BY <1>10 DEF Abort
<1>11. ASSUME NEW d \in Devices, ChangeFacts(d) PROVE TypeOK'
  BY <1>11, WorkPlanAssumption DEF ChangeFacts
<1>12. CASE UNCHANGED vars
  BY <1>12 DEF vars
<1> QED
  BY <1>1, <1>2, <1>3, <1>4, <1>6, <1>7, <1>8, <1>9, <1>10, <1>11, <1>12
  DEF Next, Read, Transition, Amend, Create

-----------------------------------------------------------------------------
(* The conditional update.                                                 *)

\* A write that passes its predicate was computed from the current row, and its
\* version is higher.
LEMMA WriteIsCurrent ==
  ASSUME TypeOK, InFlight, NEW c \in Clients, Writing(c), Current(tx[c].id, tx[c].read)
  PROVE  /\ tx[c].id \in Plans /\ tx[c].read \in Row
         /\ tx[c].read = plan[tx[c].id]
         /\ Exists(tx[c].id)
         /\ \A at \in Clocks : NextUpdatedAt(at, tx[c].read) > tx[c].read.updatedAt
<1>1. tx[c].id \in Plans /\ tx[c].read \in Row
  BY InFlightTypes DEF Writing
<1>2. Earlier(tx[c].read, tx[c].id)
  BY DEF InFlight, ReadsAreEarlier
<1>3. tx[c].read = plan[tx[c].id]
  BY <1>2 DEF Earlier, Current
<1>4. \A at \in Clocks : NextUpdatedAt(at, tx[c].read) > tx[c].read.updatedAt
  BY <1>1, WorkPlanAssumption DEF NextUpdatedAt, Row
<1> QED
  BY <1>1, <1>2, <1>3, <1>4 DEF Earlier

\* How a step may change a plan: one writer, from the row it read, upward, along
\* a transition or an amendment.
WrittenBy(c, p) ==
  /\ Writing(c) /\ tx[c].id = p /\ tx[c].read = plan[p] /\ tx' = [tx EXCEPT ![c] = None]
  /\ plan'[p] # None /\ plan'[p].updatedAt > plan[p].updatedAt
  /\ \/ /\ InTx(c, "transition") /\ plan'[p].state = tx[c].to
        /\ \E at \in Clocks : plan'[p] = Moved(plan[p], tx[c], at)
     \/ /\ InTx(c, "amend") /\ plan'[p].state = plan[p].state
        /\ \E at \in Clocks : plan'[p] = Amended(plan[p], tx[c], at)

LEMMA PlanStep ==
  ASSUME TypeOK, InFlight, [Next]_vars, NEW p \in Plans, Exists(p)
  PROVE  /\ target'[p] = target[p] /\ Exists(p)'
         /\ plan'[p] # plan[p] => \E c \in Clients : WrittenBy(c, p)
<1> DEFINE Goal == /\ target'[p] = target[p] /\ plan'[p] # None
                   /\ plan'[p] # plan[p] => \E c \in Clients : WrittenBy(c, p)
<1>1. ASSUME NEW c \in Clients, NEW at \in Clocks, CommitTransition(c, at) PROVE Goal
  <2> DEFINE row == Moved(plan[tx[c].id], tx[c], at)
  <2>1. Writing(c) /\ Current(tx[c].id, tx[c].read)
    BY <1>1 DEF CommitTransition, Writing, Write
  <2>2. row \in Row
    BY <1>1, <2>1, MovedIsRow, InFlightTypes DEF CommitTransition, Write
  <2>3. row.state = tx[c].to /\ row.updatedAt > tx[c].read.updatedAt
    BY <2>1, WriteIsCurrent DEF Moved, Row
  <2>4. plan' = [plan EXCEPT ![tx[c].id] = row] /\ tx' = [tx EXCEPT ![c] = None]
        /\ target' = target
    BY <1>1 DEF CommitTransition, Write
  <2>a. tx[c].id = p => row = Moved(plan[p], tx[c], at)
    OBVIOUS
  <2> HIDE DEF row
  <2>5. CASE tx[c].id = p
    <3>1. plan'[p] = row /\ row # None
      BY <2>2, <2>4, <2>5, NoneAssumption DEF TypeOK
    <3>2. WrittenBy(c, p)
      BY <1>1, <2>a, <2>1, <2>3, <2>4, <2>5, <3>1, WriteIsCurrent
      DEF WrittenBy, CommitTransition
    <3> QED
      BY <2>4, <3>1, <3>2
  <2>6. CASE tx[c].id # p
    BY <2>4, <2>6 DEF TypeOK, Exists
  <2> QED
    BY <2>5, <2>6
<1>2. ASSUME NEW c \in Clients, NEW at \in Clocks, CommitAmend(c, at) PROVE Goal
  <2> DEFINE row == Amended(plan[tx[c].id], tx[c], at)
  <2>1. Writing(c) /\ Current(tx[c].id, tx[c].read)
    BY <1>2 DEF CommitAmend, Writing, Write
  <2>2. row \in Row
    BY <1>2, <2>1, AmendedIsRow, InFlightTypes DEF CommitAmend, Write
  <2>3. row.state = plan[tx[c].id].state /\ row.updatedAt > tx[c].read.updatedAt
    BY <2>1, WriteIsCurrent DEF Amended, Row
  <2>4. plan' = [plan EXCEPT ![tx[c].id] = row] /\ tx' = [tx EXCEPT ![c] = None]
        /\ target' = target
    BY <1>2 DEF CommitAmend, Write
  <2>a. tx[c].id = p => row = Amended(plan[p], tx[c], at)
    OBVIOUS
  <2> HIDE DEF row
  <2>5. CASE tx[c].id = p
    <3>1. plan'[p] = row /\ row # None
      BY <2>2, <2>4, <2>5, NoneAssumption DEF TypeOK
    <3>2. WrittenBy(c, p)
      BY <1>2, <2>a, <2>1, <2>3, <2>4, <2>5, <3>1, WriteIsCurrent
      DEF WrittenBy, CommitAmend
    <3> QED
      BY <2>4, <3>1, <3>2
  <2>6. CASE tx[c].id # p
    BY <2>4, <2>6 DEF TypeOK, Exists
  <2> QED
    BY <2>5, <2>6
<1>3. ASSUME NEW c \in Clients, NEW q \in Plans, NEW at \in Clocks, CommitCreate(c, q, at)
      PROVE  Goal
  BY <1>3 DEF CommitCreate, TypeOK, Exists
<1>4. ASSUME plan' = plan, target' = target PROVE Goal
  BY <1>4 DEF Exists
<1>5. Goal
  <2> HIDE DEF Goal
  <2>1. ASSUME Read PROVE Goal
    BY <1>4, <2>1 DEF Read, LoadPlan, Preview
  <2>2. ASSUME Transition PROVE Goal
    BY <1>1, <1>4, <2>2 DEF Transition, BeginTransition
  <2>3. ASSUME Amend PROVE Goal
    BY <1>2, <1>4, <2>3 DEF Amend, BeginAmend
  <2>4. ASSUME Create PROVE Goal
    BY <1>3, <1>4, <2>4 DEF Create, BeginCreate
  <2>5. ASSUME NEW c \in Clients, Abort(c) PROVE Goal
    BY <1>4, <2>5 DEF Abort
  <2>6. ASSUME NEW d \in Devices, ChangeFacts(d) PROVE Goal
    BY <1>4, <2>6 DEF ChangeFacts
  <2>7. ASSUME UNCHANGED vars PROVE Goal
    BY <1>4, <2>7 DEF vars
  <2> QED
    BY <2>1, <2>2, <2>3, <2>4, <2>5, <2>6, <2>7 DEF Next
<1>6. plan'[p] # None
  BY <1>5
<1>7. Exists(p)'
  BY <1>6 DEF Exists
<1> QED
  BY <1>5, <1>7

-----------------------------------------------------------------------------
(* The inductive invariant.                                                *)

\* An old read stays an old read.
LEMMA EarlierPersists ==
  ASSUME TypeOK, InFlight, [Next]_vars, NEW p \in Plans, NEW old \in Row, Earlier(old, p)
  PROVE  Earlier(old, p)'
<1>1. CASE plan'[p] = plan[p]
  BY <1>1 DEF Earlier, Exists
<1>2. CASE plan'[p] # plan[p]
  <2>1. plan'[p].updatedAt > plan[p].updatedAt /\ plan'[p] # None
    BY <1>2, PlanStep DEF Earlier, WrittenBy
  <2>2. plan'[p].updatedAt \in Nat /\ plan[p].updatedAt \in Nat /\ old.updatedAt \in Nat
    BY <2>1, NextTypeOK, WorkPlanAssumption DEF Earlier, Exists, TypeOK, Row
  <2> QED
    BY <2>1, <2>2 DEF Earlier, Exists
<1> QED
  BY <1>1, <1>2

\* The possible fates of a client's screen and transaction in one step.
SameScreen(k) == view'[k] = view[k]
Loaded(k) == /\ tx[k] = None /\ tx'[k] = None /\ plan' = plan
             /\ \/ \E p \in Plans : /\ Exists(p)
                                    /\ view'[k] = [kind |-> "plan", id |-> p, row |-> plan[p]]
                \/ \E input \in Inputs :
                     view'[k] = [kind |-> "preview", preview |-> Previewed(input)]

LEMMA ScreenStep ==
  ASSUME TypeOK, InFlight, [Next]_vars, NEW k \in Clients
  PROVE  SameScreen(k) \/ Loaded(k)
<1> DEFINE Goal == SameScreen(k) \/ Loaded(k)
<1> USE DEF TypeOK
<1>1. ASSUME NEW c \in Clients, NEW p \in Plans, LoadPlan(c, p) PROVE Goal
  BY <1>1 DEF LoadPlan, SameScreen, Loaded
<1>2. ASSUME NEW c \in Clients, NEW input \in Inputs, Preview(c, input) PROVE Goal
  BY <1>2 DEF Preview, SameScreen, Loaded
<1>3. ASSUME view' = view PROVE Goal
  BY <1>3 DEF SameScreen
<1> HIDE DEF Goal
<1>4. ASSUME Transition PROVE Goal
  BY <1>3, <1>4 DEF Transition, BeginTransition, CommitTransition, Write
<1>5. ASSUME Amend PROVE Goal
  BY <1>3, <1>5 DEF Amend, BeginAmend, CommitAmend, Write
<1>6. ASSUME Create PROVE Goal
  BY <1>3, <1>6 DEF Create, BeginCreate, CommitCreate
<1>7. ASSUME NEW c \in Clients, Abort(c) PROVE Goal
  BY <1>3, <1>7 DEF Abort
<1>8. ASSUME NEW d \in Devices, ChangeFacts(d) PROVE Goal
  BY <1>3, <1>8 DEF ChangeFacts
<1>9. ASSUME UNCHANGED vars PROVE Goal
  BY <1>3, <1>9 DEF vars
<1> QED
  BY <1>1, <1>2, <1>4, <1>5, <1>6, <1>7, <1>8, <1>9 DEF Next, Read, Goal

SameTx(k) == tx'[k] = tx[k] \/ tx'[k] = None
Started(k) == plan' = plan /\ view' = view /\ target' = target /\ tx[k] = None
BegunTransition(k) ==
  /\ Started(k) /\ Viewing(k, "plan") /\ Current(view[k].id, view[k].row)
  /\ \E to \in States, date \in OptDate, window \in OptWindow :
       LET row == plan[view[k].id] IN
       /\ CanTransition(row.state, to)
       /\ to = "SCHEDULED" => MaySchedule(row, date, window)
       /\ tx'[k] = [kind |-> "transition", id |-> view[k].id, read |-> row, to |-> to,
             date |-> IF to = "SCHEDULED" THEN ConfirmedFor(row, date) ELSE None,
             window |-> IF to = "SCHEDULED" THEN ConfirmedWindow(row, window) ELSE None]
BegunAmend(k) ==
  /\ Started(k) /\ Viewing(k, "plan") /\ Current(view[k].id, view[k].row)
  /\ plan[view[k].id].state \in Amendable
  /\ \E fields \in SUBSET {"proposedFor", "proposedWindow"}, date \in OptDate,
        window \in OptWindow :
       tx'[k] = [kind |-> "amend", id |-> view[k].id, read |-> plan[view[k].id],
                 fields |-> fields, date |-> date, window |-> window]
BegunCreate(k) ==
  /\ Started(k) /\ Viewing(k, "preview") /\ Token(tx'[k].preview) = Token(view[k].preview)
  /\ Included(tx'[k].preview) # {}
  /\ \E input \in Inputs :
       tx'[k] = [kind |-> "create", preview |-> Previewed(input), committed |-> {}]
Overlapped(k) ==
  /\ InTx(k, "create") /\ view' = view
  /\ \E c \in Clients, p \in Plans, at \in Clocks :
       /\ CommitCreate(c, p, at)
       /\ tx'[k] = [tx[k] EXCEPT !.committed = @ \cup
             {[reads |-> tx[c].preview.input.devices, writes |-> Included(tx[c].preview)]}]

LEMMA TxStep ==
  ASSUME TypeOK, InFlight, [Next]_vars, NEW k \in Clients
  PROVE  SameTx(k) \/ BegunTransition(k) \/ BegunAmend(k) \/ BegunCreate(k) \/ Overlapped(k)
<1> DEFINE Goal == SameTx(k) \/ BegunTransition(k) \/ BegunAmend(k) \/ BegunCreate(k)
                   \/ Overlapped(k)
<1> USE DEF TypeOK
<1>1. ASSUME NEW c \in Clients, NEW to \in States, NEW date \in OptDate,
             NEW window \in OptWindow, BeginTransition(c, to, date, window)
      PROVE  Goal
  <2>1. CASE c = k
    BY <1>1, <2>1 DEF BeginTransition, BegunTransition, Started
  <2>2. CASE c # k
    BY <1>1, <2>2 DEF BeginTransition, SameTx
  <2> QED
    BY <2>1, <2>2
<1>2. ASSUME NEW c \in Clients, NEW fields \in SUBSET {"proposedFor", "proposedWindow"},
             NEW date \in OptDate, NEW window \in OptWindow,
             BeginAmend(c, fields, date, window)
      PROVE  Goal
  <2>1. CASE c = k
    BY <1>2, <2>1 DEF BeginAmend, BegunAmend, Started
  <2>2. CASE c # k
    BY <1>2, <2>2 DEF BeginAmend, SameTx
  <2> QED
    BY <2>1, <2>2
<1>3. ASSUME NEW c \in Clients, BeginCreate(c) PROVE Goal
  <2>1. view[c].preview \in Previews
    BY <1>3, InFlightTypes DEF BeginCreate
  <2>2. view[c].preview.input \in Inputs
    BY <2>1 DEF Previews
  <2>3. CASE c = k
    BY <1>3, <2>2, <2>3 DEF BeginCreate, BegunCreate, Started
  <2>4. CASE c # k
    BY <1>3, <2>4 DEF BeginCreate, SameTx
  <2> QED
    BY <2>3, <2>4
<1>4. ASSUME NEW c \in Clients, NEW p \in Plans, NEW at \in Clocks, CommitCreate(c, p, at)
      PROVE  Goal
  <2> DEFINE edge == [reads |-> tx[c].preview.input.devices, writes |-> Included(tx[c].preview)]
  <2>1. tx' = [j \in Clients |->
                IF j = c THEN None
                ELSE IF InTx(j, "create")
                  THEN [tx[j] EXCEPT !.committed = @ \cup {edge}] ELSE tx[j]]
    BY <1>4 DEF CommitCreate
  <2>2. CASE k # c /\ InTx(k, "create")
    BY <1>4, <2>1, <2>2 DEF Overlapped, CommitCreate
  <2>3. CASE k = c \/ ~InTx(k, "create")
    BY <2>1, <2>3 DEF SameTx
  <2> QED
    BY <2>2, <2>3
<1>5. ASSUME NEW c \in Clients, tx' = [tx EXCEPT ![c] = None] PROVE Goal
  BY <1>5 DEF SameTx
<1>6. ASSUME tx' = tx PROVE Goal
  BY <1>6 DEF SameTx
<1> HIDE DEF Goal
<1>7. ASSUME Read PROVE Goal
  BY <1>6, <1>7 DEF Read, LoadPlan, Preview
<1>8. ASSUME Transition PROVE Goal
  BY <1>1, <1>5, <1>8 DEF Transition, CommitTransition, Write
<1>9. ASSUME Amend PROVE Goal
  BY <1>2, <1>5, <1>9 DEF Amend, CommitAmend, Write
<1>10. ASSUME Create PROVE Goal
  BY <1>3, <1>4, <1>10 DEF Create
<1>11. ASSUME NEW c \in Clients, Abort(c) PROVE Goal
  BY <1>5, <1>11 DEF Abort
<1>12. ASSUME NEW d \in Devices, ChangeFacts(d) PROVE Goal
  BY <1>6, <1>12 DEF ChangeFacts
<1>13. ASSUME UNCHANGED vars PROVE Goal
  BY <1>6, <1>13 DEF vars
<1>14. Goal
  BY <1>7, <1>8, <1>9, <1>10, <1>11, <1>12, <1>13 DEF Next
<1> QED
  BY <1>14 DEF Goal

LEMMA NextReadsAreEarlier == TypeOK /\ InFlight /\ [Next]_vars => ReadsAreEarlier'
<1> SUFFICES ASSUME TypeOK, InFlight, [Next]_vars, NEW k \in Clients
    PROVE  /\ Viewing(k, "plan")' => Earlier(view[k].row, view[k].id)'
           /\ Writing(k)' => /\ Viewing(k, "plan")' /\ view'[k].id = tx'[k].id
                             /\ view'[k].row = tx'[k].read
  BY DEF ReadsAreEarlier, Viewing
<1>1. ASSUME Viewing(k, "plan")' PROVE Earlier(view[k].row, view[k].id)'
  <2>1. CASE SameScreen(k)
    <3>1. Viewing(k, "plan")
      BY <1>1, <2>1 DEF SameScreen, Viewing
    <3>2. view[k].row \in Row /\ view[k].id \in Plans
      BY <3>1, InFlightTypes
    <3>3. Earlier(view[k].row, view[k].id)
      BY <3>1 DEF InFlight, ReadsAreEarlier
    <3>4. \A old \in Row, p \in Plans : Earlier(old, p) => Earlier(old, p)'
      BY EarlierPersists
    <3> QED
      BY <2>1, <3>2, <3>3, <3>4 DEF SameScreen, Earlier, Exists
  <2>2. CASE Loaded(k)
    <3>0. ASSUME NEW input \in Inputs,
                 view'[k] = [kind |-> "preview", preview |-> Previewed(input)]
          PROVE  FALSE
      <4>1. view'[k].kind = "preview"
        BY <3>0
      <4> QED
        BY <1>1, <4>1 DEF Viewing
    <3>1. PICK p \in Plans :
            Exists(p) /\ view'[k] = [kind |-> "plan", id |-> p, row |-> plan[p]]
      BY <2>2, <3>0 DEF Loaded
    <3>2. plan[p].updatedAt \in Nat
      BY <3>1, WorkPlanAssumption DEF Exists, TypeOK, Row
    <3> QED
      BY <2>2, <3>1, <3>2 DEF Loaded, Earlier, Exists
  <2> QED
    BY <2>1, <2>2, ScreenStep
<1>2. ASSUME Writing(k)'
      PROVE  Viewing(k, "plan")' /\ view'[k].id = tx'[k].id /\ view'[k].row = tx'[k].read
  <2>1. CASE SameTx(k)
    <3>1. Writing(k) /\ tx'[k] = tx[k] /\ tx[k] # None
      BY <1>2, <2>1 DEF SameTx, Writing, InTx
    <3>2. SameScreen(k)
      BY <3>1, ScreenStep DEF Loaded
    <3> QED
      BY <3>1, <3>2 DEF InFlight, ReadsAreEarlier, SameScreen, Viewing
  <2>2. CASE BegunTransition(k) \/ BegunAmend(k)
    <3>1. /\ Viewing(k, "plan") /\ view' = view
          /\ Current(view[k].id, view[k].row)
          /\ tx'[k].id = view[k].id /\ tx'[k].read = plan[view[k].id]
      <4>1. CASE BegunTransition(k)
        BY <4>1 DEF BegunTransition, Started
      <4>2. CASE BegunAmend(k)
        BY <4>2 DEF BegunAmend, Started
      <4> QED
        BY <2>2, <4>1, <4>2
    <3>2. view[k].row = plan[view[k].id]
      BY <3>1 DEF InFlight, ReadsAreEarlier, Earlier, Current
    <3> QED
      BY <3>1, <3>2 DEF Viewing
  <2>3. CASE BegunCreate(k)
    BY <1>2, <2>3 DEF BegunCreate, Writing, InTx
  <2>4. CASE Overlapped(k)
    <3>1. tx'[k].kind = "create"
      BY <2>4, InFlightTypes DEF Overlapped, InTx
    <3> QED
      BY <1>2, <3>1 DEF Writing, InTx
  <2> QED
    BY <2>1, <2>2, <2>3, <2>4, TxStep
<1> QED
  BY <1>1, <1>2

LEMMA NextWritesAreChecked == TypeOK /\ InFlight /\ [Next]_vars => WritesAreChecked'
<1> DEFINE Checked(t) ==
      /\ t.kind = "transition" =>
           /\ CanTransition(t.read.state, t.to)
           /\ t.to = "SCHEDULED" =>
                /\ t.date # None
                /\ t.read.proposedFor # None => /\ t.date = t.read.proposedFor
                                                /\ t.window = t.read.proposedWindow
                /\ t.read.state = "AWAITING_CUSTOMER" => t.read.proposedFor # None
      /\ t.kind = "amend" => t.read.state \in Amendable
<1> SUFFICES ASSUME TypeOK, InFlight, [Next]_vars, NEW k \in Clients, tx'[k] # None
    PROVE  Checked(tx'[k])
  BY DEF WritesAreChecked, InTx
<1>1. CASE SameTx(k)
  BY <1>1 DEF SameTx, InFlight, WritesAreChecked, InTx
<1>2. CASE BegunTransition(k)
  <2>1. PICK to \in States, date \in OptDate, window \in OptWindow :
          LET row == plan[view[k].id] IN
          /\ CanTransition(row.state, to)
          /\ to = "SCHEDULED" => MaySchedule(row, date, window)
          /\ tx'[k] = [kind |-> "transition", id |-> view[k].id, read |-> row, to |-> to,
                date |-> IF to = "SCHEDULED" THEN ConfirmedFor(row, date) ELSE None,
                window |-> IF to = "SCHEDULED" THEN ConfirmedWindow(row, window) ELSE None]
    BY <1>2 DEF BegunTransition
  <2> QED
    BY <2>1 DEF MaySchedule
<1>3. CASE BegunAmend(k)
  BY <1>3 DEF BegunAmend
<1>4. CASE BegunCreate(k)
  BY <1>4 DEF BegunCreate
<1>5. CASE Overlapped(k)
  <2>1. tx'[k].kind = "create"
    BY <1>5, InFlightTypes DEF Overlapped, InTx
  <2> QED
    BY <2>1
<1> QED
  BY <1>1, <1>2, <1>3, <1>4, <1>5, TxStep

\* An operator with a transaction under way looks at nothing else.
LEMMA NextCreationsAreSeen == TypeOK /\ InFlight /\ [Next]_vars => CreationsAreSeen'
<1> SUFFICES ASSUME TypeOK, InFlight, [Next]_vars, NEW k \in Clients, InTx(k, "create")'
             PROVE  /\ view'[k] # None /\ view'[k].kind = "preview" 
                    /\ Token(view'[k].preview) = Token(tx'[k].preview)
                    /\ Included(tx'[k].preview) # {}
  BY DEF CreationsAreSeen, Viewing, Included, Token
<1>1. CASE InTx(k, "create") /\ (SameTx(k) \/ Overlapped(k))
  <2>1. /\ Viewing(k, "preview") /\ Token(view[k].preview) = Token(tx[k].preview)
        /\ Included(tx[k].preview) # {}
    BY <1>1 DEF InFlight, CreationsAreSeen
  <2>2. tx[k] # None
    BY <1>1 DEF InTx
  <2>3. view'[k] = view[k]
    BY <2>2, ScreenStep DEF SameScreen, Loaded
  <2>4. tx'[k].preview = tx[k].preview
    <3>1. CASE SameTx(k)
      BY <3>1 DEF SameTx, InTx
    <3>2. CASE Overlapped(k)
      BY <1>1, <3>2, InFlightTypes DEF Overlapped
    <3> QED
      BY <1>1, <3>1, <3>2
  <2> QED
    BY <2>1, <2>3, <2>4 DEF Viewing
<1>2. CASE BegunCreate(k)
  BY <1>2 DEF BegunCreate, Started, Viewing
<1>3. CASE BegunTransition(k)
  BY <1>3 DEF BegunTransition, InTx
<1>4. CASE BegunAmend(k)
  BY <1>4 DEF BegunAmend, InTx
<1>5. CASE SameTx(k) /\ ~InTx(k, "create")
  BY <1>5 DEF SameTx, InTx
<1> QED
  BY <1>1, <1>2, <1>3, <1>4, <1>5, TxStep DEF Overlapped

\* Only creation makes a plan active.
LEMMA OnlyCreationActivates ==
  ASSUME TypeOK, InFlight, [Next]_vars, NEW p \in Plans, Exists(p), Active(p)'
  PROVE  Active(p) /\ target'[p] = target[p]
<1>1. CASE plan'[p] = plan[p]
  BY <1>1, PlanStep DEF Active, Exists
<1>2. CASE plan'[p] # plan[p]
  <2>1. PICK c \in Clients : WrittenBy(c, p)
    BY <1>2, PlanStep
  <2>2. CanTransition(plan[p].state, plan'[p].state) \/ plan[p].state \in Amendable
    BY <2>1 DEF WrittenBy, InFlight, WritesAreChecked
  <2>3. plan[p].state \in ActiveStates
    BY <2>2 DEF CanTransition, Amendable, ActiveStates, States
  <2> QED
    BY <2>3, PlanStep DEF Active
<1> QED
  BY <1>1, <1>2

\* What creation adds: one plan over the devices its transaction included.
LEMMA CreateStep ==
  ASSUME TypeOK, InFlight, NEW c \in Clients, NEW p \in Plans, NEW at \in Clocks,
         CommitCreate(c, p, at)
  PROVE  /\ InTx(c, "create") /\ ~Exists(p) /\ Serializable(c)
         /\ DOMAIN target'[p] = Included(tx[c].preview)
         /\ \A q \in Plans \ {p} : plan'[q] = plan[q] /\ target'[q] = target[q]
  BY DEF CommitCreate, TypeOK

\* A plan that appears was created.
LEMMA AppearsByCreation ==
  ASSUME TypeOK, InFlight, [Next]_vars, NEW p \in Plans, ~Exists(p), Exists(p)'
  PROVE  \E c \in Clients, at \in Clocks : CommitCreate(c, p, at)
<1> DEFINE Goal == \E c \in Clients, at \in Clocks : CommitCreate(c, p, at)
<1>1. ASSUME NEW c \in Clients, Writing(c), NEW row, NEW to, Write(c, row, to) PROVE FALSE
  <2>1. tx[c].id # p
    BY <1>1, WriteIsCurrent DEF Write
  <2>2. plan'[p] = plan[p]
    BY <1>1, <2>1 DEF Write, TypeOK
  <2> QED
    BY <2>2 DEF Exists
<1>2. ASSUME NEW c \in Clients, NEW q \in Plans, NEW at \in Clocks, CommitCreate(c, q, at)
      PROVE  Goal
  BY <1>2, CreateStep DEF Exists
<1>3. ASSUME plan' = plan PROVE FALSE
  BY <1>3 DEF Exists
<1> HIDE DEF Goal
<1>4. ASSUME Read PROVE Goal
  BY <1>3, <1>4 DEF Read, LoadPlan, Preview
<1>5. ASSUME Transition PROVE Goal
  BY <1>1, <1>3, <1>5 DEF Transition, BeginTransition, CommitTransition, Writing
<1>6. ASSUME Amend PROVE Goal
  BY <1>1, <1>3, <1>6 DEF Amend, BeginAmend, CommitAmend, Writing
<1>7. ASSUME Create PROVE Goal
  BY <1>2, <1>3, <1>7 DEF Create, BeginCreate
<1>8. ASSUME NEW c \in Clients, Abort(c) PROVE Goal
  BY <1>3, <1>8 DEF Abort
<1>9. ASSUME NEW d \in Devices, ChangeFacts(d) PROVE Goal
  BY <1>3, <1>9 DEF ChangeFacts
<1>10. ASSUME UNCHANGED vars PROVE Goal
  BY <1>3, <1>10 DEF vars
<1>11. Goal
  BY <1>4, <1>5, <1>6, <1>7, <1>8, <1>9, <1>10 DEF Next
<1> QED
  BY <1>11 DEF Goal

LEMMA NextOverlapsAreRecorded == TypeOK /\ InFlight /\ [Next]_vars => OverlapsAreRecorded'
<1> SUFFICES ASSUME TypeOK, InFlight, [Next]_vars, NEW k \in Clients, InTx(k, "create")'
             PROVE  /\ \A other \in tx'[k].committed : other.writes \subseteq other.reads
                    /\ \A d \in Included(tx'[k].preview), p \in Plans :
                         Active(p)' /\ d \in DOMAIN target'[p] =>
                           \E other \in tx'[k].committed : d \in other.writes
  BY DEF OverlapsAreRecorded, Included
<1> DEFINE edge(c) == [reads |-> tx[c].preview.input.devices, writes |-> Included(tx[c].preview)]
<1>1. ASSUME NEW c \in Clients, NEW p \in Plans, NEW at \in Clocks, CommitCreate(c, p, at),
             InTx(k, "create")
      PROVE  tx'[k] = [tx[k] EXCEPT !.committed = @ \cup {edge(c)}]
  <2>1. tx' = [j \in Clients |->
                IF j = c THEN None
                ELSE IF InTx(j, "create")
                  THEN [tx[j] EXCEPT !.committed = @ \cup {edge(c)}] ELSE tx[j]]
    BY <1>1 DEF CommitCreate
  <2>2. k # c
    BY <2>1 DEF InTx
  <2> QED
    BY <1>1, <2>1, <2>2
<1>2. CASE InTx(k, "create") /\ (SameTx(k) \/ Overlapped(k))
  <2>1. tx[k] \in [kind: {"create"}, preview: Previews,
                   committed: SUBSET [reads: SUBSET Devices, writes: SUBSET Devices]]
    BY <1>2, InFlightTypes
  <2>2. /\ tx'[k].preview = tx[k].preview
        /\ \/ tx'[k].committed = tx[k].committed
           \/ \E c \in Clients : tx'[k].committed = tx[k].committed \cup {edge(c)}
    <3>1. CASE SameTx(k)
      BY <3>1 DEF SameTx, InTx
    <3>2. CASE Overlapped(k)
      BY <2>1, <3>2 DEF Overlapped
    <3> QED
      BY <1>2, <3>1, <3>2
  <2>3. /\ \A other \in tx[k].committed : other.writes \subseteq other.reads
        /\ \A d \in Included(tx[k].preview), p \in Plans : Active(p) /\ d \in DOMAIN target[p] =>
             \E other \in tx[k].committed : d \in other.writes
    BY <1>2 DEF InFlight, OverlapsAreRecorded
  <2>4. \A c \in Clients : edge(c).writes \subseteq edge(c).reads
    BY DEF Included
  <2>5. \A other \in tx'[k].committed : other.writes \subseteq other.reads
    BY <2>2, <2>3, <2>4
  <2>6. ASSUME NEW d \in Included(tx'[k].preview), NEW p \in Plans, Active(p)',
               d \in DOMAIN target'[p]
        PROVE  \E other \in tx'[k].committed : d \in other.writes
    <3>1. CASE Exists(p)
      <4>1. Active(p) /\ d \in DOMAIN target[p] /\ d \in Included(tx[k].preview)
        BY <2>2, <2>6, <3>1, OnlyCreationActivates
      <4> QED
        BY <2>2, <2>3, <4>1
    <3>2. CASE ~Exists(p)
      <4>1. PICK c \in Clients, at \in Clocks : CommitCreate(c, p, at)
        BY <2>6, <3>2, AppearsByCreation DEF Active
      <4>2. d \in edge(c).writes
        BY <2>6, <4>1, CreateStep
      <4>3. tx'[k] = [tx[k] EXCEPT !.committed = @ \cup {edge(c)}]
        BY <1>1, <1>2, <4>1
      <4>4. edge(c) \in tx'[k].committed
        BY <2>1, <4>3
      <4> QED
        BY <4>2, <4>4
    <3> QED
      BY <3>1, <3>2
  <2> QED
    BY <2>5, <2>6
<1>3. CASE BegunCreate(k)
  <2>1. PICK input \in Inputs :
          tx'[k] = [kind |-> "create", preview |-> Previewed(input), committed |-> {}]
    BY <1>3 DEF BegunCreate
  <2>2. tx'[k].committed = {} /\ tx'[k].preview = Previewed(input)
    BY <2>1
  <2>3. ASSUME NEW d \in Included(Previewed(input)), NEW p \in Plans, Active(p),
               d \in DOMAIN target[p]
        PROVE  FALSE
    <3>1. ActivePlansOf(d) # {}
      BY <2>3 DEF ActivePlansOf
    <3>2. d \in input.devices /\ Line(d, d \in input.overrides).disposition = "INCLUDED"
      BY <2>3 DEF Included, Previewed
    <3>3. Disposition(d, d \in input.overrides) = "INCLUDED"
      BY <3>2 DEF Line
    <3> QED
      BY <3>1, <3>3 DEF Disposition
  <2>4. \A p \in Plans : Active(p)' => Active(p) /\ target'[p] = target[p]
    BY <1>3 DEF BegunCreate, Started, Active, Exists
  <2> QED
    BY <2>2, <2>3, <2>4
<1>4. CASE BegunTransition(k) \/ BegunAmend(k)
  <2>1. CASE BegunTransition(k)
    BY <2>1 DEF BegunTransition, InTx
  <2>2. CASE BegunAmend(k)
    BY <2>2 DEF BegunAmend, InTx
  <2> QED
    BY <1>4, <2>1, <2>2
<1>5. CASE SameTx(k) /\ ~InTx(k, "create")
  BY <1>5 DEF SameTx, InTx
<1> QED
  BY <1>2, <1>3, <1>4, <1>5, TxStep DEF Overlapped

-----------------------------------------------------------------------------
(* Theorems.                                                               *)

LEMMA InitInFlight == Init => InFlight
  BY DEF Init, InFlight, ReadsAreEarlier, WritesAreChecked, CreationsAreSeen, OverlapsAreRecorded,
         Writing, Viewing, InTx

\* Every reachable state is well typed, and whatever is on a screen or in a
\* transaction is an earlier, checked read of the database (the inductive
\* invariant the other theorems rest on).
THEOREM TypeCorrect == Spec => [](TypeOK /\ InFlight)
<1>1. Init => TypeOK /\ InFlight
  BY InitTypeOK, InitInFlight
<1>2. TypeOK /\ InFlight /\ [Next]_vars => (TypeOK /\ InFlight)'
  BY NextTypeOK, NextReadsAreEarlier, NextWritesAreChecked, NextCreationsAreSeen, NextOverlapsAreRecorded
  DEF InFlight
<1> QED
  BY <1>1, <1>2, PTL DEF Spec

\* However many operators create plans concurrently, and whatever the selections,
\* a device is in at most one active plan.
THEOREM DevicesArePlannedOnce == Spec => []OneActivePlanPerDevice
<1>1. Init => OneActivePlanPerDevice
  <2> SUFFICES ASSUME Init, NEW p \in Plans, NEW q \in Plans, p # q, Active(p), Active(q)
               PROVE  DOMAIN target[p] \cap DOMAIN target[q] = {}
    BY DEF OneActivePlanPerDevice
  <2>1. p \in LegacyPlans /\ q \in LegacyPlans
    BY DEF Init, Active, Exists
  <2>2. PICK device \in [LegacyPlans -> Devices] :
          /\ \A a, b \in LegacyPlans : a # b => device[a] # device[b]
          /\ target = [a \in Plans |-> IF Exists(a) THEN [d \in {device[a]} |-> LegacySnapshot]
                                      ELSE NoTargets]
    BY DEF Init
  <2>3. DOMAIN target[p] = {device[p]} /\ DOMAIN target[q] = {device[q]}
    BY <2>2 DEF Active
  <2> QED
    BY <2>1, <2>2, <2>3
<1>2. TypeOK /\ InFlight /\ OneActivePlanPerDevice /\ [Next]_vars => OneActivePlanPerDevice'
  <2> SUFFICES ASSUME TypeOK, InFlight, OneActivePlanPerDevice, [Next]_vars,
                      NEW p \in Plans, NEW q \in Plans, p # q, Active(p)', Active(q)'
               PROVE  DOMAIN target'[p] \cap DOMAIN target'[q] = {}
    BY DEF OneActivePlanPerDevice
  <2>1. ASSUME NEW a \in Plans, NEW b \in Plans, a # b, ~Exists(a), Active(a)', Active(b)'
        PROVE  DOMAIN target'[a] \cap DOMAIN target'[b] = {}
    <3>1. PICK c \in Clients, at \in Clocks : CommitCreate(c, a, at)
      BY <2>1, AppearsByCreation DEF Active
    <3>2. /\ InTx(c, "create") /\ Serializable(c)
          /\ DOMAIN target'[a] = Included(tx[c].preview)
          /\ plan'[b] = plan[b] /\ target'[b] = target[b]
      BY <2>1, <3>1, CreateStep
    <3>3. Active(b)
      BY <2>1, <3>2 DEF Active, Exists
    <3>4. ASSUME NEW d \in Included(tx[c].preview), d \in DOMAIN target[b] PROVE FALSE
      <4>1. PICK other \in tx[c].committed : d \in other.writes /\ d \in other.reads
        BY <3>2, <3>3, <3>4 DEF InFlight, OverlapsAreRecorded
      <4>2. d \in tx[c].preview.input.devices
        BY <3>4 DEF Included
      <4> QED
        BY <3>2, <3>4, <4>1, <4>2 DEF Serializable
    <3> QED
      BY <3>2, <3>4
  <2>2. CASE Exists(p) /\ Exists(q)
    BY <2>2, OnlyCreationActivates DEF OneActivePlanPerDevice
  <2> QED
    BY <2>1, <2>2
<1> QED
  BY <1>1, <1>2, TypeCorrect, PTL DEF Spec

\* No lost update: whoever changes a plan was looking at exactly the row it
\* replaces.
THEOREM WritersSawTheRow == Spec => NoBlindWrite
<1>1. TypeOK /\ InFlight /\ [Next]_vars =>
        [\A p \in Plans : Exists(p) /\ plan'[p] # plan[p] =>
           \E c \in Clients : /\ tx[c] # None /\ tx'[c] = None
                             /\ Viewing(c, "plan") /\ view[c].id = p
                             /\ view[c].row = plan[p]]_vars
  <2> SUFFICES ASSUME TypeOK, InFlight, [Next]_vars, NEW p \in Plans, Exists(p),
                      plan'[p] # plan[p]
               PROVE  \E c \in Clients : /\ tx[c] # None /\ tx'[c] = None
                                        /\ Viewing(c, "plan") /\ view[c].id = p
                                        /\ view[c].row = plan[p]
    OBVIOUS
  <2>1. PICK c \in Clients : WrittenBy(c, p)
    BY PlanStep
  <2> QED
    BY <2>1 DEF WrittenBy, Writing, InTx, InFlight, ReadsAreEarlier, TypeOK
<1> QED
  BY <1>1, TypeCorrect, PTL DEF Spec, NoBlindWrite

\* Finished plans are immutable, versions strictly increase, targets are frozen.
THEOREM PlansMoveForward == Spec => PlansOnlyMoveForward
<1>1. TypeOK /\ InFlight /\ [Next]_vars =>
        [\A p \in Plans : Exists(p) =>
           /\ plan[p].state \notin ActiveStates => plan'[p] = plan[p]
           /\ plan'[p] # plan[p] => plan'[p].updatedAt > plan[p].updatedAt
           /\ target'[p] = target[p]]_vars
  <2> SUFFICES ASSUME TypeOK, InFlight, [Next]_vars, NEW p \in Plans, Exists(p)
               PROVE  /\ plan[p].state \notin ActiveStates => plan'[p] = plan[p]
                      /\ plan'[p] # plan[p] => plan'[p].updatedAt > plan[p].updatedAt
                      /\ target'[p] = target[p]
    OBVIOUS
  <2>1. ASSUME plan'[p] # plan[p]
        PROVE  plan[p].state \in ActiveStates /\ plan'[p].updatedAt > plan[p].updatedAt
    <3>1. PICK c \in Clients : WrittenBy(c, p)
      BY <2>1, PlanStep
    <3>2. CanTransition(plan[p].state, tx[c].to) \/ plan[p].state \in Amendable
      BY <3>1 DEF WrittenBy, InFlight, WritesAreChecked
    <3> QED
      BY <3>1, <3>2 DEF WrittenBy, CanTransition, Amendable, ActiveStates, States
  <2> QED
    BY <2>1, PlanStep
<1> QED
  BY <1>1, TypeCorrect, PTL DEF Spec, PlansOnlyMoveForward

\* The part of WorkKeepsToTheProposal that is about one row.
Keeps(row) ==
  /\ row.state \in {"SCHEDULED", "IN_PROGRESS"} => row.scheduledFor # None
  /\ row.state \in {"SCHEDULED", "IN_PROGRESS", "DONE"} /\ row.proposedFor # None =>
       row.scheduledFor = row.proposedFor /\ row.window = row.proposedWindow
  /\ row.state \in Amendable => row.scheduledFor = None /\ row.window = None

\* A transition, computed from the row it read, keeps scheduled work to the proposal.
LEMMA MovedKeeps ==
  ASSUME TypeOK, InFlight, NEW c \in Clients, NEW at \in Clocks, InTx(c, "transition"),
         NEW row \in Row, row = tx[c].read, Keeps(row)
  PROVE  Keeps(Moved(row, tx[c], at))
<1> DEFINE t == tx[c]
           new == Moved(row, t, at)
<1>1. /\ new.state = t.to /\ new.proposedFor = row.proposedFor
      /\ new.proposedWindow = row.proposedWindow
      /\ new.scheduledFor = IF t.to = "SCHEDULED" THEN t.date
                            ELSE IF t.to \in {"PROPOSED", "APPROVED"} THEN None
                            ELSE row.scheduledFor
      /\ new.window = IF t.to = "SCHEDULED" THEN t.window
                      ELSE IF t.to \in {"PROPOSED", "APPROVED"} THEN None ELSE row.window
  BY DEF Moved, Row
<1>2. /\ CanTransition(row.state, t.to)
      /\ t.to = "SCHEDULED" =>
           /\ t.date # None
           /\ row.proposedFor # None => /\ t.date = row.proposedFor
                                        /\ t.window = row.proposedWindow
  BY DEF InFlight, WritesAreChecked
<1>3. /\ t.to = "IN_PROGRESS" => row.state = "SCHEDULED"
      /\ t.to = "DONE" => row.state = "IN_PROGRESS"
      /\ t.to = "AWAITING_CUSTOMER" => row.state = "PROPOSED"
  BY <1>2 DEF CanTransition
<1> HIDE DEF new, t
<1> QED
  BY <1>1, <1>2, <1>3 DEF Keeps, Amendable, new, t

\* Work is only ever booked, started and finished in the window that was proposed,
\* when the proposal has a date; and nothing is booked before it is scheduled.
THEOREM WorkKeeps == Spec => []WorkKeepsToTheProposal
<1> DEFINE Inv == \A p \in Plans : Exists(p) => Keeps(plan[p])
<1>1. Init => Inv
  <2> SUFFICES ASSUME Init, NEW p \in Plans, Exists(p) PROVE Keeps(plan[p])
    OBVIOUS
  <2>1. plan[p] \in LegacyRows
    BY DEF Init, Exists
  <2>2. \A t \in Dates : t # None
    BY WorkPlanAssumption
  <2>3. ASSUME NEW state, NEW date, NEW stamps
        PROVE  LET r == LegacyRow(state, date, stamps)
               IN /\ r.state = state /\ r.scheduledFor = date /\ r.window = None
                  /\ r.proposedFor = None
    BY DEF LegacyRow
  <2> QED
    BY <2>1, <2>2, <2>3 DEF LegacyRows, Keeps, Amendable
<1>2. TypeOK /\ InFlight /\ Inv /\ [Next]_vars => Inv'
  <2> SUFFICES ASSUME TypeOK, InFlight, Inv, [Next]_vars, NEW p \in Plans, Exists(p)'
               PROVE  Keeps(plan'[p])
    BY DEF Keeps
  <2>1. CASE ~Exists(p)
    <3>1. PICK c \in Clients, at \in Clocks : CommitCreate(c, p, at)
      BY <2>1, AppearsByCreation
    <3>2. plan'[p] = NewRow(tx[c].preview.input, at)
      BY <3>1 DEF CommitCreate, TypeOK
    <3> QED
      BY <3>2 DEF NewRow, Keeps
  <2>2. CASE Exists(p) /\ plan'[p] = plan[p]
    BY <2>2
  <2>3. CASE Exists(p) /\ plan'[p] # plan[p]
    <3>1. PICK c \in Clients : WrittenBy(c, p)
      BY <2>3, PlanStep
    <3>2. plan[p] \in Row /\ tx[c].read = plan[p] /\ Keeps(plan[p])
      BY <2>3, <3>1 DEF WrittenBy, Exists, TypeOK
    <3>3. CASE InTx(c, "transition")
      <4>1. PICK at \in Clocks : plan'[p] = Moved(plan[p], tx[c], at)
        BY <3>1, <3>3 DEF WrittenBy, InTx
      <4> QED
        BY <3>2, <3>3, <4>1, MovedKeeps
    <3>4. CASE InTx(c, "amend")
      <4>1. PICK at \in Clocks : plan'[p] = Amended(plan[p], tx[c], at)
        BY <3>1, <3>4 DEF WrittenBy, InTx
      <4>2. /\ plan'[p].state = plan[p].state /\ plan'[p].scheduledFor = plan[p].scheduledFor
            /\ plan'[p].window = plan[p].window
        BY <3>2, <4>1 DEF Amended, Row
      <4>3. plan[p].state \in Amendable
        BY <3>2, <3>4 DEF InFlight, WritesAreChecked
      <4> QED
        BY <3>2, <4>2, <4>3 DEF Keeps, Amendable
    <3> QED
      BY <3>1, <3>3, <3>4 DEF WrittenBy
  <2> QED
    BY <2>1, <2>2, <2>3
<1>3. Inv => WorkKeepsToTheProposal
  BY DEF WorkKeepsToTheProposal, Keeps
<1> QED
  BY <1>1, <1>2, <1>3, TypeCorrect, PTL DEF Spec

\* Previews with one token agree in everything but the context of their devices.
LEMMA SameToken ==
  ASSUME NEW a \in Previews, NEW b \in Previews, Token(a) = Token(b)
  PROVE  /\ a.input = b.input /\ Included(a) = Included(b)
         /\ \A d \in a.input.devices : Covered(Snapshot(a.line[d])) = Covered(Snapshot(b.line[d]))
<1>1. a.input = b.input
  BY DEF Token
<1>2. ASSUME NEW d \in a.input.devices
      PROVE  /\ a.line[d] \in PreviewLines /\ b.line[d] \in PreviewLines
             /\ [a.line[d] EXCEPT !.context = None] = [b.line[d] EXCEPT !.context = None]
  <2>1. a.line[d] \in PreviewLines /\ b.line[d] \in PreviewLines
    BY <1>1, <1>2 DEF Previews
  <2>2. Token(a).line[d] = Token(b).line[d]
    OBVIOUS
  <2>3. /\ Token(a).line[d] = [a.line[d] EXCEPT !.context = None]
        /\ Token(b).line[d] = [b.line[d] EXCEPT !.context = None]
    BY <1>1 DEF Token
  <2> QED
    BY <2>1, <2>2, <2>3
<1>3. ASSUME NEW x \in PreviewLines, NEW y \in PreviewLines,
             [x EXCEPT !.context = None] = [y EXCEPT !.context = None]
      PROVE  x.disposition = y.disposition /\ Covered(Snapshot(x)) = Covered(Snapshot(y))
  <2>1. /\ x.disposition = y.disposition /\ x.basis = y.basis /\ x.recommendation = y.recommendation
        /\ x.exception = y.exception /\ x.override = y.override
    BY <1>3 DEF PreviewLines
  <2> QED
    BY <2>1 DEF Covered, Snapshot
<1>4. Included(a) = Included(b)
  BY <1>1, <1>2, <1>3 DEF Included
<1> QED
  BY <1>1, <1>2, <1>3, <1>4

\* Whatever moved or changed since the preview, what is saved is what its author
\* saw in all that the token covers: the preview that is rebuilt at creation has
\* the token of the one on the screen, and the plan and its targets are made of it.
THEOREM CreationsAreAsPreviewed == Spec => CreatedAsPreviewed
<1>1. TypeOK /\ InFlight /\ [Next]_vars =>
        [\A p \in Plans : ~Exists(p) /\ plan'[p] # None =>
           \E c \in Clients :
             /\ Viewing(c, "preview") /\ tx'[c] = None
             /\ LET seen == view[c].preview IN
                /\ DOMAIN target'[p] = Included(seen)
                /\ \A d \in Included(seen) : Covered(target'[p][d]) = Covered(Snapshot(seen.line[d]))
                /\ plan'[p].proposedFor = seen.input.proposedFor
                /\ plan'[p].proposedWindow = seen.input.proposedWindow]_vars
  <2> SUFFICES ASSUME TypeOK, InFlight, [Next]_vars, NEW p \in Plans, ~Exists(p), plan'[p] # None
               PROVE  \E c \in Clients :
                        /\ Viewing(c, "preview") /\ tx'[c] = None
                        /\ LET seen == view[c].preview IN
                           /\ DOMAIN target'[p] = Included(seen)
                           /\ \A d \in Included(seen) :
                                Covered(target'[p][d]) = Covered(Snapshot(seen.line[d]))
                           /\ plan'[p].proposedFor = seen.input.proposedFor
                           /\ plan'[p].proposedWindow = seen.input.proposedWindow
    OBVIOUS
  <2>1. PICK c \in Clients, at \in Clocks : CommitCreate(c, p, at)
    BY AppearsByCreation DEF Exists
  <2> DEFINE saved == tx[c].preview
             seen == view[c].preview
  <2>2. Viewing(c, "preview") /\ Token(seen) = Token(saved)
    BY <2>1 DEF CommitCreate, InFlight, CreationsAreSeen
  <2>3. seen \in Previews /\ saved \in Previews
    BY <2>1, <2>2, InFlightTypes DEF CommitCreate
  <2>4. /\ plan'[p] = NewRow(saved.input, at)
        /\ target'[p] = [d \in Included(saved) |-> Snapshot(saved.line[d])]
        /\ tx'[c] = None
    BY <2>1 DEF CommitCreate, TypeOK
  <2>5. plan'[p].proposedFor = saved.input.proposedFor /\ plan'[p].proposedWindow = saved.input.proposedWindow
    BY <2>4 DEF NewRow
  <2> HIDE DEF saved, seen
  <2>6. /\ seen.input = saved.input /\ Included(seen) = Included(saved)
        /\ \A d \in seen.input.devices : Covered(Snapshot(seen.line[d])) = Covered(Snapshot(saved.line[d]))
    BY <2>2, <2>3, SameToken
  <2>7. Included(seen) \subseteq seen.input.devices
    BY DEF Included
  <2>8. \A d \in Included(seen) : target'[p][d] = Snapshot(saved.line[d])
    BY <2>4, <2>6
  <2>9. /\ DOMAIN target'[p] = Included(seen)
        /\ \A d \in Included(seen) : Covered(target'[p][d]) = Covered(Snapshot(seen.line[d]))
    BY <2>4, <2>6, <2>7, <2>8
  <2>10. plan'[p].proposedFor = seen.input.proposedFor /\ plan'[p].proposedWindow = seen.input.proposedWindow
    BY <2>5, <2>6
  <2> QED
    BY <2>2, <2>4, <2>9, <2>10 DEF seen
<1> QED
  BY <1>1, TypeCorrect, PTL DEF Spec, CreatedAsPreviewed

\* The history of a plan grows with the plan, by the state it comes to.
LEMMA EventStep ==
  ASSUME TypeOK, InFlight, [Next]_vars, NEW p \in Plans, Exists(p)
  PROVE  \/ plan'[p] = plan[p] /\ event'[p] = event[p]
         \/ /\ plan'[p] # plan[p]
            /\ event'[p] = Append(event[p], [from |-> plan[p].state, to |-> plan'[p].state])
<1> DEFINE Goal == \/ plan'[p] = plan[p] /\ event'[p] = event[p]
                   \/ /\ plan'[p] # plan[p]
                      /\ event'[p] = Append(event[p], [from |-> plan[p].state, to |-> plan'[p].state])
<1>1. ASSUME NEW c \in Clients, Writing(c), NEW row \in Row, NEW to, Write(c, row, to), row.state = to,
             row.updatedAt > tx[c].read.updatedAt
      PROVE  Goal
  <2>1. tx[c].read = plan[tx[c].id] /\ tx[c].id \in Plans /\ tx[c].read \in Row
    BY <1>1, WriteIsCurrent DEF Write
  <2>2. /\ plan' = [plan EXCEPT ![tx[c].id] = row]
        /\ event' = [event EXCEPT ![tx[c].id] = Append(@, [from |-> tx[c].read.state, to |-> to])]
    BY <1>1 DEF Write
  <2>3. row # tx[c].read
    BY <1>1, <2>1, WorkPlanAssumption DEF Row
  <2>4. CASE tx[c].id = p
    BY <1>1, <2>1, <2>2, <2>3, <2>4 DEF TypeOK
  <2>5. CASE tx[c].id # p
    BY <2>1, <2>2, <2>5 DEF TypeOK
  <2> QED
    BY <2>4, <2>5
<1>2. ASSUME NEW c \in Clients, NEW at \in Clocks, CommitTransition(c, at) PROVE Goal
  <2> DEFINE row == Moved(plan[tx[c].id], tx[c], at)
  <2>1. Writing(c) /\ Current(tx[c].id, tx[c].read) /\ Write(c, row, tx[c].to)
    BY <1>2 DEF CommitTransition, Writing, Write
  <2>2. row \in Row
    BY <1>2, <2>1, MovedIsRow, InFlightTypes DEF CommitTransition, Write
  <2>3. row.state = tx[c].to /\ row.updatedAt > tx[c].read.updatedAt
    BY <2>1, WriteIsCurrent DEF Moved, Row
  <2> HIDE DEF row, Goal
  <2> QED
    BY <1>1, <2>1, <2>2, <2>3
<1>3. ASSUME NEW c \in Clients, NEW at \in Clocks, CommitAmend(c, at) PROVE Goal
  <2> DEFINE row == Amended(plan[tx[c].id], tx[c], at)
  <2>1. Writing(c) /\ Current(tx[c].id, tx[c].read) /\ Write(c, row, tx[c].read.state)
    BY <1>3 DEF CommitAmend, Writing, Write
  <2>2. row \in Row
    BY <1>3, <2>1, AmendedIsRow, InFlightTypes DEF CommitAmend, Write
  <2>3. row.state = tx[c].read.state /\ row.updatedAt > tx[c].read.updatedAt
    BY <2>1, WriteIsCurrent DEF Amended, Row
  <2> HIDE DEF row, Goal
  <2> QED
    BY <1>1, <2>1, <2>2, <2>3
<1>4. ASSUME NEW c \in Clients, NEW q \in Plans, NEW at \in Clocks, CommitCreate(c, q, at) PROVE Goal
  BY <1>4 DEF CommitCreate, TypeOK, Exists
<1>5. ASSUME UNCHANGED <<plan, event>> PROVE Goal
  BY <1>5
<1>6. Goal
  <2> HIDE DEF Goal
  <2>1. ASSUME Read PROVE Goal
    BY <1>5, <2>1 DEF Read, LoadPlan, Preview
  <2>2. ASSUME Transition PROVE Goal
    BY <1>2, <1>5, <2>2 DEF Transition, BeginTransition
  <2>3. ASSUME Amend PROVE Goal
    BY <1>3, <1>5, <2>3 DEF Amend, BeginAmend
  <2>4. ASSUME Create PROVE Goal
    BY <1>4, <1>5, <2>4 DEF Create, BeginCreate
  <2>5. ASSUME NEW c \in Clients, Abort(c) PROVE Goal
    BY <1>5, <2>5 DEF Abort
  <2>6. ASSUME NEW d \in Devices, ChangeFacts(d) PROVE Goal
    BY <1>5, <2>6 DEF ChangeFacts
  <2>7. ASSUME UNCHANGED vars PROVE Goal
    BY <1>5, <2>7 DEF vars
  <2> QED
    BY <2>1, <2>2, <2>3, <2>4, <2>5, <2>6, <2>7 DEF Next
<1> QED
  BY <1>6

\* An event ends the standing of an approval, begins it, or leaves it alone.
LEMMA StandsAfter ==
  ASSUME NEW history \in Seq(Events), NEW e \in Events
  PROVE  Stands(Append(history, e)) <=> Approves(e) \/ (Stands(history) /\ ~Revokes(e))
<1> DEFINE n == Len(history)
           after == Append(history, e)
<1>1. /\ n \in Nat /\ DOMAIN history = 1..n /\ DOMAIN after = 1..(n + 1)
      /\ after[n + 1] = e /\ \A i \in 1..n : after[i] = history[i]
  OBVIOUS
<1>2. ~(Approves(e) /\ Revokes(e))
  BY DEF Approves, Revokes
<1> HIDE DEF after, n
<1>3. ASSUME Approves(e) PROVE Stands(after)
  <2>1. n + 1 \in DOMAIN after /\ Approves(after[n + 1])
    BY <1>1, <1>3
  <2>2. \A j \in DOMAIN after : Revokes(after[j]) => j < n + 1
    BY <1>1, <1>2, <1>3
  <2> QED
    BY <2>1, <2>2, Zenon DEF Stands
<1>4. ASSUME Stands(history), ~Revokes(e) PROVE Stands(after)
  <2>1. PICK i \in 1..n : /\ Approves(history[i])
                         /\ \A j \in 1..n : Revokes(history[j]) => j < i
    BY <1>1, <1>4 DEF Stands
  <2>2. i \in DOMAIN after /\ Approves(after[i])
    BY <1>1, <2>1
  <2>3. \A j \in DOMAIN after : Revokes(after[j]) => j < i
    BY <1>1, <1>4, <2>1
  <2> QED
    BY <2>2, <2>3, Zenon DEF Stands
<1>5. ASSUME Stands(after), ~Approves(e) PROVE Stands(history) /\ ~Revokes(e)
  <2>1. PICK i \in DOMAIN after : /\ Approves(after[i])
                                  /\ \A j \in DOMAIN after : Revokes(after[j]) => j < i
    BY <1>5 DEF Stands
  <2>2. i \in 1..n
    BY <1>1, <1>5, <2>1
  <2>3. Approves(history[i]) /\ \A j \in 1..n : Revokes(history[j]) => j < i
    BY <1>1, <2>1, <2>2
  <2>4. ~Revokes(e)
    BY <1>1, <2>1, <2>2
  <2> QED
    BY <1>1, <2>2, <2>3, <2>4 DEF Stands
<1> QED
  BY <1>3, <1>4, <1>5 DEF after

\* What the approval of a row is worth: ApprovalIsOnRecord, and that a plan is
\* APPROVED only with an approval.
Recorded(row, history) ==
  /\ "approved" \in row.stamps <=> Stands(history)
  /\ row.state = "APPROVED" => "approved" \in row.stamps
  /\ row.state \in {"SCHEDULED", "IN_PROGRESS", "DONE"} /\ ~row.legacy => "approved" \in row.stamps

LEMMA MovedIsRecorded ==
  ASSUME NEW row \in Row, NEW history \in Seq(Events), NEW at \in Clocks, NEW c \in Clients,
         TypeOK, InFlight, InTx(c, "transition"), tx[c].read = row, Recorded(row, history)
  PROVE  Recorded(Moved(row, tx[c], at), Append(history, [from |-> row.state, to |-> tx[c].to]))
<1> DEFINE t == tx[c]
           new == Moved(row, t, at)
           e == [from |-> row.state, to |-> t.to]
<1>1. t.to \in States /\ CanTransition(row.state, t.to) /\ t.read.state = row.state
  BY InFlightTypes DEF InFlight, WritesAreChecked
<1>2. e \in Events /\ e.from = row.state /\ e.to = t.to
  BY <1>1 DEF Events, Row
<1>3. Stands(Append(history, e)) <=> Approves(e) \/ (Stands(history) /\ ~Revokes(e))
  BY <1>2, StandsAfter
<1>4. /\ new.state = t.to /\ new.legacy = row.legacy
      /\ new.stamps = (row.stamps \ Cleared(t.to)) \cup Stamped(row.state, t.to)
  BY <1>1 DEF Moved, Row
<1> HIDE DEF new, e, t
<1>5. Approves(e) => "approved" \in new.stamps
  BY <1>2, <1>4 DEF Approves, Stamped
<1>6. Revokes(e) => "approved" \notin new.stamps
  BY <1>2, <1>4 DEF Revokes, Stamped, Cleared
<1>7. ~Approves(e) /\ ~Revokes(e) => ("approved" \in new.stamps <=> "approved" \in row.stamps)
  BY <1>1, <1>2, <1>4 DEF Approves, Revokes, Stamped, Cleared, CanTransition
<1>8. ~(Approves(e) /\ Revokes(e))
  BY DEF Approves, Revokes
<1>9. /\ t.to = "SCHEDULED" => row.state \in {"AWAITING_CUSTOMER", "APPROVED"}
      /\ t.to = "IN_PROGRESS" => row.state = "SCHEDULED"
      /\ t.to = "DONE" => row.state = "IN_PROGRESS"
      /\ t.to = "APPROVED" => row.state # "APPROVED"
  BY <1>1 DEF CanTransition
<1>10. /\ new.state = "APPROVED" => Approves(e)
       /\ new.state \in {"SCHEDULED", "IN_PROGRESS", "DONE"} => ~Revokes(e)
  BY <1>2, <1>4, <1>9 DEF Approves, Revokes
<1>11. /\ new.state = "SCHEDULED" /\ ~Approves(e) => row.state = "APPROVED"
  BY <1>2, <1>4, <1>9 DEF Approves
<1> QED
  BY <1>3, <1>4, <1>5, <1>6, <1>7, <1>8, <1>9, <1>10, <1>11 DEF Recorded, new, e, t

LEMMA NextRecorded ==
  ASSUME TypeOK, InFlight, [Next]_vars, \A q \in Plans : Exists(q) => Recorded(plan[q], event[q]),
         NEW p \in Plans, Exists(p)'
  PROVE  Recorded(plan'[p], event'[p])
<1>1. CASE ~Exists(p)
  <2>1. PICK c \in Clients, at \in Clocks : CommitCreate(c, p, at)
    BY <1>1, AppearsByCreation
  <2>2. plan'[p] = NewRow(tx[c].preview.input, at) /\ event'[p] = <<[from |-> None, to |-> "PROPOSED"]>>
    BY <2>1 DEF CommitCreate, TypeOK
  <2>3. plan'[p].state = "PROPOSED" /\ plan'[p].stamps = {}
    BY <2>2 DEF NewRow
  <2>4. ~Stands(event'[p])
    BY <2>2 DEF Stands, Approves
  <2> QED
    BY <2>3, <2>4 DEF Recorded
<1>2. CASE Exists(p) /\ plan'[p] = plan[p]
  BY <1>2, EventStep
<1>3. CASE Exists(p) /\ plan'[p] # plan[p]
  <2>1. PICK c \in Clients : WrittenBy(c, p)
    BY <1>3, PlanStep
  <2>2. event'[p] = Append(event[p], [from |-> plan[p].state, to |-> plan'[p].state])
    BY <1>3, EventStep
  <2>3. plan[p] \in Row /\ event[p] \in Seq(Events) /\ Recorded(plan[p], event[p]) /\ tx[c].read = plan[p]
    BY <1>3, <2>1 DEF TypeOK, Exists, WrittenBy
  <2>4. CASE InTx(c, "transition")
    <3>1. PICK at \in Clocks : plan'[p] = Moved(plan[p], tx[c], at) /\ plan'[p].state = tx[c].to
      BY <2>1, <2>4 DEF WrittenBy, InTx
    <3> QED
      BY <2>2, <2>3, <2>4, <3>1, MovedIsRecorded
  <2>5. CASE InTx(c, "amend")
    <3>1. PICK at \in Clocks : plan'[p] = Amended(plan[p], tx[c], at)
      BY <2>1, <2>5 DEF WrittenBy, InTx
    <3>2. /\ plan'[p].state = plan[p].state /\ plan'[p].stamps = plan[p].stamps
          /\ plan'[p].legacy = plan[p].legacy
      BY <2>3, <3>1 DEF Amended, Row
    <3>3. plan[p].state \in Amendable
      BY <2>3, <2>5 DEF InFlight, WritesAreChecked
    <3> DEFINE e == [from |-> plan[p].state, to |-> plan[p].state]
    <3>4. e \in Events /\ ~Approves(e) /\ ~Revokes(e)
      BY <2>3, <3>3 DEF Events, Approves, Revokes, Amendable, Row
    <3>5. Stands(Append(event[p], e)) <=> Stands(event[p])
      BY <2>3, <3>4, StandsAfter
    <3> QED
      BY <2>2, <2>3, <3>2, <3>5 DEF Recorded
  <2> QED
    BY <2>1, <2>4, <2>5 DEF WrittenBy
<1> QED
  BY <1>1, <1>2, <1>3

\* However often a plan goes back and forth, approvedAt is set exactly when its
\* history holds an approval that no return to PROPOSED has revoked, and work is
\* not scheduled, started or finished without it.
THEOREM ApprovalStands == Spec => []ApprovalIsOnRecord
<1> DEFINE Inv == \A p \in Plans : Exists(p) => Recorded(plan[p], event[p])
<1>1. Init => Inv
  <2> SUFFICES ASSUME Init, NEW p \in Plans, Exists(p) PROVE Recorded(plan[p], event[p])
    OBVIOUS
  <2>1. plan[p] \in LegacyRows
    BY DEF Init, Exists
  <2>3. /\ plan[p].legacy = TRUE /\ "approved" \notin plan[p].stamps
        /\ plan[p].state \in {"PROPOSED", "SCHEDULED", "DONE"}
    <3>1. PICK state, date, stamps : /\ plan[p] = LegacyRow(state, date, stamps)
                                     /\ state \in {"PROPOSED", "SCHEDULED", "DONE"}
                                     /\ stamps \in {{}, {"scheduled"}, {"completed"}}
      BY <2>1 DEF LegacyRows
    <3>2. "approved" \notin stamps
      BY <3>1
    <3>3. plan[p].state = state /\ plan[p].stamps = stamps
      BY <3>1 DEF LegacyRow
    <3>4. plan[p].legacy = TRUE
      BY <3>1 DEF LegacyRow
    <3> QED
      BY <3>1, <3>2, <3>3, <3>4
  <2>4. event[p] = <<[from |-> None, to |-> plan[p].state]>>
    BY DEF Init
  <2>5. ~Stands(event[p])
    <3>1. ~Approves([from |-> None, to |-> plan[p].state])
      BY <2>3, NoneAssumption DEF Approves, States
    <3>2. \A i \in DOMAIN event[p] : event[p][i] = [from |-> None, to |-> plan[p].state]
      BY <2>4
    <3> QED
      BY <3>1, <3>2, Zenon DEF Stands
  <2> QED
    BY <2>3, <2>5 DEF Recorded
<1>2. TypeOK /\ InFlight /\ Inv /\ [Next]_vars => Inv'
  <2> SUFFICES ASSUME TypeOK, InFlight, Inv, [Next]_vars, NEW p \in Plans, Exists(p)'
               PROVE  Recorded(plan'[p], event'[p])
    BY DEF Recorded
  <2> QED
    BY NextRecorded
<1>3. Inv => ApprovalIsOnRecord
  BY DEF ApprovalIsOnRecord, Recorded
<1> QED
  BY <1>1, <1>2, <1>3, TypeCorrect, PTL DEF Spec

-----------------------------------------------------------------------------
(* The refinement: each step is a step of PlanLifecycle, or a stutter.      *)

\* A device that no two active plans hold has one holder.
LEMMA HolderOf ==
  ASSUME OneActivePlanPerDevice, NEW p \in Plans, NEW d \in DOMAIN target[p], Active(p)
  PROVE  ActivePlansOf(d) = {p}
  BY DEF OneActivePlanPerDevice, ActivePlansOf

HeldByOne ==
  \A d \in Devices :
    /\ \A p \in Plans : Active(p) /\ d \in DOMAIN target[p] => Holder[d] = p
    /\ Holder[d] # None => /\ Holder[d] \in Plans /\ Active(Holder[d])
                          /\ d \in DOMAIN target[Holder[d]]

LEMMA DevicesAreHeldByOne == OneActivePlanPerDevice => HeldByOne
<1> SUFFICES ASSUME OneActivePlanPerDevice, NEW d \in Devices
             PROVE  /\ \A p \in Plans : Active(p) /\ d \in DOMAIN target[p] => Holder[d] = p
                    /\ Holder[d] # None => /\ Holder[d] \in Plans /\ Active(Holder[d])
                                          /\ d \in DOMAIN target[Holder[d]]
  BY DEF HeldByOne
<1>1. Holder[d] = IF ActivePlansOf(d) = {} THEN None ELSE CHOOSE p \in ActivePlansOf(d) : TRUE
  BY DEF Holder
<1>2. ASSUME NEW p \in Plans, Active(p), d \in DOMAIN target[p] PROVE Holder[d] = p
  <2>1. ActivePlansOf(d) = {p}
    BY <1>2, HolderOf
  <2>2. (CHOOSE q \in {p} : TRUE) = p
    OBVIOUS
  <2> QED
    BY <1>1, <2>1, <2>2
<1>3. ASSUME ActivePlansOf(d) # {} PROVE Holder[d] \in ActivePlansOf(d)
  <2>1. PICK p : p \in ActivePlansOf(d)
    BY <1>3
  <2>2. p \in Plans /\ Active(p) /\ d \in DOMAIN target[p]
    BY <2>1 DEF ActivePlansOf
  <2> QED
    BY <1>2, <2>1, <2>2
<1> QED
  BY <1>1, <1>2, <1>3 DEF ActivePlansOf

\* A plan that is written on stays or leaves; the other plans hold what they held.
LEMMA HolderAfterWrite ==
  ASSUME TypeOK, HeldByOne, HeldByOne', NEW p \in Plans, NEW row \in Row, Active(p),
         plan' = [plan EXCEPT ![p] = row], target' = target
  PROVE  Holder' = [d \in Devices |-> IF Holder[d] = p /\ row.state \notin ActiveStates THEN None
                                     ELSE Holder[d]]
<1>1. /\ Active(p)' <=> row.state \in ActiveStates
      /\ \A q \in Plans : q # p => (Active(q)' <=> Active(q))
  BY NoneAssumption DEF Active, Exists, TypeOK
<1>2. None \notin Plans
  BY WorkPlanAssumption
<1>3. ASSUME NEW d \in Devices
      PROVE  Holder'[d] = IF Holder[d] = p /\ row.state \notin ActiveStates THEN None ELSE Holder[d]
  <2>1. CASE Holder[d] = p /\ row.state \notin ActiveStates
    BY <1>1, <1>2, <2>1, Zenon DEF HeldByOne
  <2>2. CASE Holder[d] = p /\ row.state \in ActiveStates
    BY <1>1, <1>2, <2>2 DEF HeldByOne
  <2>3. CASE Holder[d] # p /\ Holder[d] # None
    BY <1>1, <1>2, <2>3 DEF HeldByOne
  <2>4. CASE Holder[d] = None
    BY <1>1, <1>2, <2>4 DEF HeldByOne
  <2> QED
    BY <2>1, <2>2, <2>3, <2>4, <1>2
<1>4. Holder' = [d \in Devices |-> Holder'[d]]
  BY DEF Holder
<1> QED
  BY <1>3, <1>4

\* What a write shows of a plan.
LEMMA SeenAfterWrite ==
  ASSUME TypeOK, NEW p \in Plans, NEW row \in Row, plan' = [plan EXCEPT ![p] = row]
  PROVE  /\ Stage' = [Stage EXCEPT ![p] = row.state]
         /\ Proposal' = [Proposal EXCEPT ![p] = Slot(row.proposedFor, row.proposedWindow)]
         /\ Booking' = [Booking EXCEPT ![p] = Slot(row.scheduledFor, row.window)]
<1>1. /\ plan'[p] = row /\ row # None
      /\ \A q \in Plans : q # p => plan'[q] = plan[q]
  BY NoneAssumption DEF TypeOK
<1>2. /\ Exists(p)' /\ \A q \in Plans : q # p => (Exists(q)' <=> Exists(q))
  BY <1>1 DEF Exists
<1>3. Stage' = [Stage EXCEPT ![p] = row.state]
  <2>1. Stage' = [q \in Plans |-> IF plan'[q] # None THEN plan'[q].state ELSE None]
    BY DEF Stage, Exists
  <2>2. Stage = [q \in Plans |-> IF plan[q] # None THEN plan[q].state ELSE None]
    BY DEF Stage, Exists
  <2> QED
    BY <1>1, <2>1, <2>2
<1>4. Proposal' = [Proposal EXCEPT ![p] = Slot(row.proposedFor, row.proposedWindow)]
  <2>1. Proposal' = [q \in Plans |-> IF plan'[q] # None THEN Slot(plan'[q].proposedFor, plan'[q].proposedWindow) ELSE Slot(None, None)]
    BY DEF Proposal, Exists
  <2>2. Proposal = [q \in Plans |-> IF plan[q] # None THEN Slot(plan[q].proposedFor, plan[q].proposedWindow) ELSE Slot(None, None)]
    BY DEF Proposal, Exists
  <2> QED
    BY <1>1, <2>1, <2>2
<1>5. Booking' = [Booking EXCEPT ![p] = Slot(row.scheduledFor, row.window)]
  <2>1. Booking' = [q \in Plans |-> IF plan'[q] # None THEN Slot(plan'[q].scheduledFor, plan'[q].window) ELSE Slot(None, None)]
    BY DEF Booking, Exists
  <2>2. Booking = [q \in Plans |-> IF plan[q] # None THEN Slot(plan[q].scheduledFor, plan[q].window) ELSE Slot(None, None)]
    BY DEF Booking, Exists
  <2> QED
    BY <1>1, <2>1, <2>2
<1> QED
  BY <1>3, <1>4, <1>5

\* The steps that touch the tables.
LEMMA StepsOnTables ==
  ASSUME [Next]_vars
  PROVE  \/ UNCHANGED <<plan, target>>
         \/ \E c \in Clients, at \in Clocks : CommitTransition(c, at) \/ CommitAmend(c, at)
         \/ \E c \in Clients, p \in Plans, at \in Clocks : CommitCreate(c, p, at)
<1> DEFINE Goal == \/ UNCHANGED <<plan, target>>
                   \/ \E c \in Clients, at \in Clocks : CommitTransition(c, at) \/ CommitAmend(c, at)
                   \/ \E c \in Clients, p \in Plans, at \in Clocks : CommitCreate(c, p, at)
<1>1. ASSUME UNCHANGED <<plan, target>> PROVE Goal
  BY <1>1
<1>2. ASSUME NEW c \in Clients, NEW at \in Clocks, CommitTransition(c, at) \/ CommitAmend(c, at) PROVE Goal
  BY <1>2
<1>3. ASSUME NEW c \in Clients, NEW p \in Plans, NEW at \in Clocks, CommitCreate(c, p, at) PROVE Goal
  BY <1>3
<1>4. Goal
  <2> HIDE DEF Goal
  <2>1. ASSUME Read PROVE Goal
    BY <1>1, <2>1 DEF Read, LoadPlan, Preview
  <2>2. ASSUME Transition PROVE Goal
    BY <1>1, <1>2, <2>2 DEF Transition, BeginTransition
  <2>3. ASSUME Amend PROVE Goal
    BY <1>1, <1>2, <2>3 DEF Amend, BeginAmend
  <2>4. ASSUME Create PROVE Goal
    BY <1>1, <1>3, <2>4 DEF Create, BeginCreate
  <2>5. ASSUME NEW c \in Clients, Abort(c) PROVE Goal
    BY <1>1, <2>5 DEF Abort
  <2>6. ASSUME NEW d \in Devices, ChangeFacts(d) PROVE Goal
    BY <1>1, <2>6 DEF ChangeFacts
  <2>7. ASSUME UNCHANGED vars PROVE Goal
    BY <1>1, <2>7 DEF vars
  <2> QED
    BY <2>1, <2>2, <2>3, <2>4, <2>5, <2>6, <2>7 DEF Next
<1> QED
  BY <1>4

LEMMA SlotsAreSlots ==
  ASSUME NEW date \in OptDate, NEW window \in OptWindow
  PROVE  Slot(date, window) \in Lifecycle!Slot
  BY DEF Slot, OptDate, OptWindow, Lifecycle!Slot

\* A transition is a step of the life cycle, or books the window.
LEMMA TransitionIsStep ==
  ASSUME TypeOK, InFlight, HeldByOne, HeldByOne', NEW c \in Clients, NEW at \in Clocks,
         CommitTransition(c, at)
  PROVE  Lifecycle!AbstractNext
<1> DEFINE t == tx[c]
           p == t.id
           row == plan[p]
           new == Moved(row, t, at)
           slot == Slot(t.date, t.window)
<1>1. Writing(c) /\ Current(p, t.read) /\ Write(c, new, t.to) /\ InTx(c, "transition")
  BY DEF CommitTransition, Writing, Write
<1>2. p \in Plans /\ row \in Row /\ t.read = row /\ Exists(p)
  BY <1>1, WriteIsCurrent
<1>3. t.to \in States /\ t.date \in OptDate /\ t.window \in OptWindow
  BY <1>1, InFlightTypes
<1>4. new \in Row
  BY <1>1, <1>2, MovedIsRow, InFlightTypes DEF Write
<1>5. plan' = [plan EXCEPT ![p] = new] /\ target' = target
  BY <1>1 DEF Write
<1>6. /\ new.state = t.to /\ new.proposedFor = row.proposedFor /\ new.proposedWindow = row.proposedWindow
      /\ new.scheduledFor = IF t.to = "SCHEDULED" THEN t.date
                            ELSE IF t.to \in {"PROPOSED", "APPROVED"} THEN None ELSE row.scheduledFor
      /\ new.window = IF t.to = "SCHEDULED" THEN t.window
                      ELSE IF t.to \in {"PROPOSED", "APPROVED"} THEN None ELSE row.window
  BY <1>2 DEF Moved, Row
<1>7. /\ CanTransition(row.state, t.to)
      /\ t.to = "SCHEDULED" =>
           /\ t.date # None
           /\ row.proposedFor # None => t.date = row.proposedFor /\ t.window = row.proposedWindow
           /\ row.state = "AWAITING_CUSTOMER" => row.proposedFor # None
  BY <1>1, <1>2 DEF InFlight, WritesAreChecked
<1>8. Active(p)
  BY <1>2, <1>7 DEF Active, CanTransition, ActiveStates, States
<1>9. /\ Stage[p] = row.state /\ Stage[p] # None
      /\ Proposal[p] = Slot(row.proposedFor, row.proposedWindow)
      /\ Booking[p] = Slot(row.scheduledFor, row.window)
  <2>1. row.state # None
    BY <1>2, NoneAssumption DEF Row
  <2> QED
    BY <1>2, <2>1 DEF Stage, Proposal, Booking
<1> HIDE DEF new, row, p, t
<1>10. /\ Stage' = [Stage EXCEPT ![p] = new.state]
       /\ Proposal' = [Proposal EXCEPT ![p] = Slot(new.proposedFor, new.proposedWindow)]
       /\ Booking' = [Booking EXCEPT ![p] = Slot(new.scheduledFor, new.window)]
  BY <1>2, <1>4, <1>5, SeenAfterWrite
<1>11. Holder' = [d \in Devices |-> IF Holder[d] = p /\ new.state \notin ActiveStates THEN None ELSE Holder[d]]
  BY <1>2, <1>4, <1>5, <1>8, HolderAfterWrite
<1>12. Proposal' = Proposal
  BY <1>6, <1>9, <1>10 DEF Proposal
<1>13. CASE t.to = "SCHEDULED"
  <2>1. Holder' = Holder
    BY <1>6, <1>11, <1>13 DEF ActiveStates, States, Holder
  <2>2. Lifecycle!Book(p, slot)
    <3>1. slot.date = t.date /\ Proposal[p].date = row.proposedFor
      BY <1>9 DEF Slot
    <3>2. Proposal[p].date # None => slot = Proposal[p]
      BY <1>7, <1>9, <1>13, <3>1
    <3>3. Stage' = [Stage EXCEPT ![p] = "SCHEDULED"] /\ Booking' = [Booking EXCEPT ![p] = slot]
      BY <1>6, <1>10, <1>13
    <3> QED
      BY <1>7, <1>9, <1>12, <1>13, <2>1, <3>1, <3>2, <3>3 DEF Lifecycle!Book
  <2>3. slot \in Lifecycle!Slot
    BY <1>3, SlotsAreSlots
  <2> QED
    BY <1>2, <2>2, <2>3 DEF Lifecycle!AbstractNext
<1>14. CASE t.to # "SCHEDULED"
  <2>1. Booking' = IF t.to \in {"PROPOSED", "APPROVED"} THEN [Booking EXCEPT ![p] = Lifecycle!NoSlot] ELSE Booking
    BY <1>6, <1>9, <1>10, <1>14 DEF Slot, Lifecycle!NoSlot, Booking
  <2>2. Lifecycle!Step(p, t.to)
    BY <1>6, <1>7, <1>9, <1>10, <1>11, <1>12, <1>14, <2>1 DEF Lifecycle!Step
  <2> QED
    BY <1>2, <1>3, <2>2 DEF Lifecycle!AbstractNext
<1> QED
  BY <1>13, <1>14

\* An amendment proposes another window.
LEMMA AmendmentIsProposal ==
  ASSUME TypeOK, InFlight, HeldByOne, HeldByOne', NEW c \in Clients, NEW at \in Clocks,
         CommitAmend(c, at)
  PROVE  Lifecycle!AbstractNext
<1> DEFINE t == tx[c]
           p == t.id
           row == plan[p]
           new == Amended(row, t, at)
           slot == Slot(new.proposedFor, new.proposedWindow)
<1>1. Writing(c) /\ Current(p, t.read) /\ Write(c, new, t.read.state) /\ InTx(c, "amend")
  BY DEF CommitAmend, Writing, Write
<1>2. p \in Plans /\ row \in Row /\ t.read = row /\ Exists(p)
  BY <1>1, WriteIsCurrent
<1>3. new \in Row
  BY <1>1, <1>2, AmendedIsRow, InFlightTypes DEF Write
<1>4. plan' = [plan EXCEPT ![p] = new] /\ target' = target
  BY <1>1 DEF Write
<1>5. new.state = row.state /\ new.scheduledFor = row.scheduledFor /\ new.window = row.window
  BY <1>2 DEF Amended, Row
<1>6. row.state \in Amendable
  BY <1>1, <1>2 DEF InFlight, WritesAreChecked
<1>7. Active(p)
  BY <1>2, <1>6 DEF Active, Amendable, ActiveStates, States
<1>8. Stage[p] = row.state /\ Booking[p] = Slot(row.scheduledFor, row.window)
  BY <1>2 DEF Stage, Booking
<1>9. new.proposedFor \in OptDate /\ new.proposedWindow \in OptWindow
  BY <1>3 DEF Row
<1> HIDE DEF new, row, p, t
<1>10. /\ Stage' = [Stage EXCEPT ![p] = new.state]
       /\ Proposal' = [Proposal EXCEPT ![p] = slot]
       /\ Booking' = [Booking EXCEPT ![p] = Slot(new.scheduledFor, new.window)]
  BY <1>2, <1>3, <1>4, SeenAfterWrite
<1>11. Holder' = [d \in Devices |-> IF Holder[d] = p /\ new.state \notin ActiveStates THEN None ELSE Holder[d]]
  BY <1>2, <1>3, <1>4, <1>7, HolderAfterWrite
<1>12. Stage' = Stage /\ Booking' = Booking
  BY <1>5, <1>8, <1>10 DEF Stage, Booking
<1>13. Holder' = Holder
  BY <1>5, <1>6, <1>11 DEF Amendable, ActiveStates, States, Holder
<1>14. Lifecycle!Propose(p, slot)
  BY <1>6, <1>8, <1>10, <1>12, <1>13 DEF Lifecycle!Propose, Amendable
<1>15. slot \in Lifecycle!Slot
  BY <1>9, SlotsAreSlots
<1> QED
  BY <1>2, <1>14, <1>15 DEF Lifecycle!AbstractNext

\* A creation opens a plan over devices that nobody holds.
LEMMA CreationIsOpening ==
  ASSUME TypeOK, InFlight, HeldByOne, HeldByOne', NEW c \in Clients, NEW p \in Plans, NEW at \in Clocks,
         CommitCreate(c, p, at)
  PROVE  Lifecycle!AbstractNext
<1> DEFINE shown == tx[c].preview
           input == shown.input
           D == Included(shown)
           slot == Slot(input.proposedFor, input.proposedWindow)
           new == NewRow(input, at)
<1>1. /\ InTx(c, "create") /\ ~Exists(p) /\ Serializable(c)
      /\ DOMAIN target'[p] = D
      /\ \A q \in Plans \ {p} : plan'[q] = plan[q] /\ target'[q] = target[q]
  BY CreateStep
<1>2. plan' = [plan EXCEPT ![p] = new]
  BY DEF CommitCreate
<1>3. shown \in Previews
  BY <1>1, InFlightTypes
<1>4. input \in Inputs
  BY <1>3 DEF Previews
<1>5. input.proposedFor \in OptDate /\ input.proposedWindow \in OptWindow /\ D \subseteq Devices
  BY <1>4 DEF Inputs, Included
<1>6. new \in Row
  <2>1. at \in 0..MaxTime /\ "PROPOSED" \in States /\ None \in OptDate /\ None \in OptWindow /\ {} \subseteq Stamps
    BY WorkPlanAssumption DEF States, OptDate, OptWindow
  <2> HIDE DEF input
  <2> QED
    BY <1>5, <2>1 DEF NewRow, Row
<1>7. /\ new.state = "PROPOSED" /\ new.proposedFor = input.proposedFor
      /\ new.proposedWindow = input.proposedWindow /\ new.scheduledFor = None /\ new.window = None
  BY DEF NewRow
<1>8. D # {}
  BY <1>1 DEF InFlight, CreationsAreSeen
<1>9. ASSUME NEW d \in D, NEW q \in Plans, Active(q), d \in DOMAIN target[q] PROVE FALSE
  <2>1. PICK other \in tx[c].committed : d \in other.writes /\ d \in other.reads
    BY <1>1, <1>9 DEF InFlight, OverlapsAreRecorded
  <2>2. d \in tx[c].preview.input.devices
    BY <1>9 DEF Included
  <2> QED
    BY <1>1, <1>9, <2>1, <2>2 DEF Serializable
<1> HIDE DEF new, D, input, shown
<1>10. \A d \in D : Holder[d] = None
  BY <1>5, <1>9 DEF HeldByOne
<1>11. /\ Stage' = [Stage EXCEPT ![p] = "PROPOSED"]
       /\ Proposal' = [Proposal EXCEPT ![p] = slot]
       /\ Booking' = [Booking EXCEPT ![p] = Slot(None, None)]
  <2>1. /\ Stage' = [Stage EXCEPT ![p] = new.state]
        /\ Proposal' = [Proposal EXCEPT ![p] = Slot(new.proposedFor, new.proposedWindow)]
        /\ Booking' = [Booking EXCEPT ![p] = Slot(new.scheduledFor, new.window)]
    BY <1>2, <1>6, SeenAfterWrite
  <2>2. Slot(new.proposedFor, new.proposedWindow) = slot /\ Slot(new.scheduledFor, new.window) = Slot(None, None)
    BY <1>7
  <2> QED
    BY <1>7, <2>1, <2>2
<1>12. Stage[p] = None
  BY <1>1 DEF Stage
<1>13. /\ Active(p)' /\ ~Active(p)
       /\ \A q \in Plans : q # p => (Active(q)' <=> Active(q)) /\ target'[q] = target[q]
  <2>1. plan'[p] = new /\ plan'[p] # None
    BY <1>2, <1>6, NoneAssumption DEF TypeOK
  <2> QED
    BY <1>1, <1>7, <2>1 DEF Active, Exists, ActiveStates, States
<1>14. ASSUME NEW d \in Devices PROVE Holder'[d] = IF d \in D THEN p ELSE Holder[d]
  <2>1. CASE d \in D
    BY <1>1, <1>13, <2>1 DEF HeldByOne
  <2>2. CASE d \notin D /\ Holder[d] # None
    BY <1>13, <2>2 DEF HeldByOne
  <2>3. CASE d \notin D /\ Holder[d] = None
    <3>1. None \notin Plans
      BY WorkPlanAssumption
    <3> QED
      BY <1>1, <1>13, <2>3, <3>1 DEF HeldByOne
  <2> QED
    BY <2>1, <2>2, <2>3
<1>15. Holder' = [d \in Devices |-> IF d \in D THEN p ELSE Holder[d]]
  <2>1. Holder' = [d \in Devices |-> Holder'[d]]
    BY DEF Holder
  <2> QED
    BY <1>14, <2>1
<1>16. Lifecycle!Open(p, D, slot)
  BY <1>8, <1>10, <1>11, <1>12, <1>15 DEF Lifecycle!Open, Lifecycle!NoSlot, Slot
<1>17. slot \in Lifecycle!Slot
  BY <1>5, SlotsAreSlots
<1> QED
  BY <1>5, <1>16, <1>17 DEF Lifecycle!AbstractNext

LEMMA StepsImplement ==
  TypeOK /\ InFlight /\ HeldByOne /\ HeldByOne' /\ [Next]_vars => [Lifecycle!AbstractNext]_(Lifecycle!abstract)
<1> SUFFICES ASSUME TypeOK, InFlight, HeldByOne, HeldByOne', [Next]_vars
             PROVE  [Lifecycle!AbstractNext]_(Lifecycle!abstract)
  OBVIOUS
<1>1. CASE UNCHANGED <<plan, target>>
  <2>1. Stage' = Stage /\ Proposal' = Proposal /\ Booking' = Booking
    BY <1>1 DEF Stage, Proposal, Booking, Exists
  <2>2. \A p : Active(p)' <=> Active(p)
    BY <1>1 DEF Active, Exists
  <2>3. Holder' = Holder
    <3>1. \A d \in Devices : Holder'[d] = Holder[d]
      BY <1>1, <2>2 DEF HeldByOne
    <3> QED
      BY <3>1 DEF Holder
  <2> QED
    BY <2>1, <2>3 DEF Lifecycle!abstract
<1>2. CASE \E c \in Clients, at \in Clocks : CommitTransition(c, at) \/ CommitAmend(c, at)
  BY <1>2, TransitionIsStep, AmendmentIsProposal
<1>3. CASE \E c \in Clients, p \in Plans, at \in Clocks : CommitCreate(c, p, at)
  BY <1>3, CreationIsOpening
<1> QED
  BY <1>1, <1>2, <1>3, StepsOnTables

LEMMA InitImplements == Init /\ TypeOK /\ HeldByOne => Lifecycle!AbstractInit
<1> SUFFICES ASSUME Init, TypeOK, HeldByOne PROVE Lifecycle!AbstractInit
  OBVIOUS
<1>1. Stage \in [Plans -> States \cup {None}]
  BY DEF Stage, TypeOK, Exists, Row
<1>2. Holder \in [Devices -> Plans \cup {None}]
  <2>1. \A d \in Devices : Holder[d] \in Plans \cup {None}
    BY DEF HeldByOne
  <2>2. Holder = [d \in Devices |-> Holder[d]]
    BY DEF Holder
  <2> QED
    BY <2>1, <2>2
<1>3. ASSUME NEW d \in Devices, Holder[d] # None PROVE Stage[Holder[d]] \in ActiveStates
  BY <1>3 DEF HeldByOne, Stage, Active
<1>4. Proposal = [p \in Plans |-> Lifecycle!NoSlot]
  <2>1. ASSUME NEW p \in Plans, Exists(p) PROVE plan[p].proposedFor = None /\ plan[p].proposedWindow = None
    <3>1. plan[p] \in LegacyRows
      BY <2>1 DEF Init, Exists
    <3>2. PICK state, date, stamps : plan[p] = LegacyRow(state, date, stamps)
      BY <3>1 DEF LegacyRows
    <3> QED
      BY <3>2 DEF LegacyRow
  <2> QED
    BY <2>1 DEF Proposal, Slot, Lifecycle!NoSlot
<1>5. Booking \in [Plans -> Lifecycle!Slot]
  <2>1. ASSUME NEW p \in Plans, Exists(p) PROVE plan[p].scheduledFor \in OptDate /\ plan[p].window \in OptWindow
    BY <2>1 DEF TypeOK, Exists, Row
  <2>2. None \in OptDate /\ None \in OptWindow
    BY DEF OptDate, OptWindow
  <2> QED
    BY <2>1, <2>2, SlotsAreSlots DEF Booking
<1> QED
  BY <1>1, <1>2, <1>3, <1>4, <1>5 DEF Lifecycle!AbstractInit

\* Transactions, screens, versions and history can be forgotten: for any number of
\* operators, devices and plans, every write of work planning is one legal step of
\* a plan that holds its devices alone, and everything else is invisible.
THEOREM WorkPlanRefines == Spec => ImplementsLifecycle
<1>1. Spec => [](TypeOK /\ InFlight)
  BY TypeCorrect
<1>2. Spec => []HeldByOne
  BY DevicesArePlannedOnce, DevicesAreHeldByOne, PTL
<1> QED
  BY <1>1, <1>2, InitImplements, StepsImplement, PTL
     DEF Spec, ImplementsLifecycle, Lifecycle!AbstractSpec
=============================================================================
