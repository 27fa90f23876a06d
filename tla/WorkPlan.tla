------------------------------ MODULE WorkPlan ------------------------------
(***************************************************************************)
(* Firmware work plans: src/lib/firmware-work-plan-store.ts and            *)
(* src/lib/firmware-work-planning.ts.                                      *)
(*                                                                         *)
(* Several operators ("clients") work on the same tables.  Every write     *)
(* carries what its operator last read (expectedState, expectedUpdatedAt,  *)
(* or a preview token), so the module keeps, per operator, the read that   *)
(* the next write is based on (view) and the database transaction in       *)
(* flight (tx).  The statements of a transaction are steps of their own    *)
(* where another transaction can commit between them.                      *)
(***************************************************************************)
EXTENDS Integers, Sequences, FiniteSets

CONSTANTS
  Clients,        \* operators, i.e. concurrent API sessions
  Devices,
  Plans,          \* identifiers createFirmwareWorkPlan may allocate
  LegacyPlans,    \* plans the migration of the lifecycle records may insert
  Dates, Windows, \* maintenance dates and window references
  Exceptions,     \* accepted firmware exceptions
  Bases,          \* fingerprints of everything else the token covers
  Contexts,       \* what a target keeps of a device and the token does not cover
  Technical,      \* the facts about a device the environment may produce
  Clocks,         \* readings the clocks of the web processes may give (milliseconds)
  MaxTime,        \* bound on updatedAt
  MaxChanges,     \* bound on changes of the facts
  None            \* SQL NULL, no row, nothing on the screen, nothing in flight

OptDate   == Dates \cup {None}
OptWindow == Windows \cup {None}
Recommendations == {"UPDATE", "NO_ACTION", "REVIEW"}

\* One device as buildFirmwareWorkPlanPreview sees it.  "UPDATE" stands for the
\* three updating recommendations with a resolved, compatible target; basis for
\* the observed firmware, policy and target fingerprints; context for what is
\* shown and saved of the device beside them: its customer, site and model, the
\* scope and track of the policy, the texts of the target and of the exception.
Facts == [isActive: BOOLEAN, recommendation: Recommendations,
          exception: Exceptions \cup {None}, basis: Bases, context: Contexts]

ASSUME WorkPlanAssumption ==
  /\ LegacyPlans \subseteq Plans
  /\ Technical \subseteq Facts /\ Technical # {}
  /\ MaxTime \in Nat /\ MaxChanges \in Nat /\ Clocks \subseteq 0..MaxTime
  /\ None \notin Dates \cup Windows \cup Plans \cup Contexts

-----------------------------------------------------------------------------
(* The state machine of a plan.                                            *)

States == {"PROPOSED", "AWAITING_CUSTOMER", "APPROVED", "SCHEDULED",
           "IN_PROGRESS", "DONE", "CANCELLED"}
ActiveStates == States \ {"DONE", "CANCELLED"}
Amendable == {"PROPOSED", "AWAITING_CUSTOMER", "APPROVED"}

CanTransition(from, to) ==
  to \in CASE from = "PROPOSED"          -> {"AWAITING_CUSTOMER", "APPROVED", "CANCELLED"}
           [] from = "AWAITING_CUSTOMER" -> {"PROPOSED", "APPROVED", "SCHEDULED", "CANCELLED"}
           [] from = "APPROVED"          -> {"PROPOSED", "SCHEDULED", "CANCELLED"}
           [] from = "SCHEDULED"         -> {"APPROVED", "IN_PROGRESS", "CANCELLED"}
           [] from = "IN_PROGRESS"       -> {"DONE", "CANCELLED"}
           [] OTHER                      -> {}

\* The nullable timestamps of a row that are set (approvedAt, scheduledAt, ...).
Stamps == {"approved", "scheduled", "started", "completed", "cancelled"}

\* What FirmwareWorkPlanTarget keeps of one included device; migrated targets
\* recorded none of it.
Snapshots == [basis: Bases \cup {None}, context: Contexts \cup {None},
              recommendation: Recommendations \cup {None},
              exception: Exceptions \cup {None}, override: BOOLEAN]
LegacySnapshot == [basis |-> None, context |-> None, recommendation |-> None,
                   exception |-> None, override |-> FALSE]

Row == [state: States, proposedFor: OptDate, proposedWindow: OptWindow,
        scheduledFor: OptDate, window: OptWindow, stamps: SUBSET Stamps,
        updatedAt: 0..MaxTime, legacy: BOOLEAN]

Events == [from: States \cup {None}, to: States]

-----------------------------------------------------------------------------
VARIABLES
  plan,       \* [Plans -> Row or None]: FirmwareWorkPlan
  target,     \* per plan, a function from its devices to Snapshots: FirmwareWorkPlanTarget
  event,      \* [Plans -> Seq(Events)]: FirmwareWorkPlanEvent, in order of commit
  technical,  \* [Devices -> Technical]: device row and resolved compliance
  changes,    \* how often the facts have changed (bounded by MaxChanges)
  view,       \* per client: the plan or preview on the screen
  tx          \* per client: the transaction between its reads and its commit

vars == <<plan, target, event, technical, changes, view, tx>>

Exists(p) == plan[p] # None
Active(p) == Exists(p) /\ plan[p].state \in ActiveStates

\* Rows the lifecycle migration inserts: DONE, SCHEDULED (plannedFor was set) or
\* PROPOSED, without approval and without a proposal.
LegacyRow(state, date, stamps) ==
  [state |-> state, proposedFor |-> None, proposedWindow |-> None,
   scheduledFor |-> date, window |-> None, stamps |-> stamps,
   updatedAt |-> 0, legacy |-> TRUE]

LegacyRows == {LegacyRow("PROPOSED", None, {})}
              \cup {LegacyRow("SCHEDULED", t, {"scheduled"}) : t \in Dates}
              \cup {LegacyRow("DONE", t, {"completed"}) : t \in OptDate}

NoTargets == [d \in {} |-> LegacySnapshot]

\* The migration finds any of the records; a record, hence a migrated plan, is
\* unique per device.
Init ==
  /\ \E row \in [LegacyPlans -> LegacyRows \cup {None}] :
       plan = [p \in Plans |-> IF p \in LegacyPlans THEN row[p] ELSE None]
  /\ \E device \in [LegacyPlans -> Devices] :
       /\ \A p, q \in LegacyPlans : p # q => device[p] # device[q]
       /\ target = [p \in Plans |-> IF Exists(p) THEN [d \in {device[p]} |-> LegacySnapshot]
                                    ELSE NoTargets]
  /\ event = [p \in Plans |->
       IF Exists(p) THEN <<[from |-> None, to |-> plan[p].state]>> ELSE <<>>]
  /\ technical \in [Devices -> Technical]
  /\ changes = 0
  /\ view = [c \in Clients |-> None]
  /\ tx = [c \in Clients |-> None]

-----------------------------------------------------------------------------
(* Reads.                                                                  *)

\* GET of a plan: the screen now shows the row with its state and updatedAt.
LoadPlan(c, p) ==
  /\ tx[c] = None /\ Exists(p)
  /\ view' = [view EXCEPT ![c] = [kind |-> "plan", id |-> p, row |-> plan[p]]]
  /\ UNCHANGED <<plan, target, event, technical, changes, tx>>

\* What buildFirmwareWorkPlanPreview decides for device d.
ActivePlansOf(d) == {p \in Plans : Active(p) /\ d \in DOMAIN target[p]}

\* Mutant: forgets the devices already planned.
DispositionUnplanned(d, override) ==
  IF ~technical[d].isActive THEN "INACTIVE_DEVICE"
  ELSE IF technical[d].recommendation = "UPDATE" THEN "INCLUDED" ELSE "REVIEW_REQUIRED"

Disposition(d, override) ==
  LET f == technical[d] IN
  IF ~f.isActive                          THEN "INACTIVE_DEVICE"
  ELSE IF ActivePlansOf(d) # {}           THEN "ALREADY_PLANNED"
  ELSE IF f.recommendation = "NO_ACTION"  THEN "NO_ACTION"
  ELSE IF f.exception # None /\ ~override THEN "ACTIVE_EXCEPTION"
  ELSE IF f.recommendation = "REVIEW"     THEN "REVIEW_REQUIRED"
  ELSE "INCLUDED"

Inputs == {i \in [devices: (SUBSET Devices) \ {{}}, overrides: SUBSET Devices,
                  proposedFor: OptDate, proposedWindow: OptWindow] :
             i.overrides \subseteq i.devices}

\* One device of a preview.
Line(d, override) ==
  [disposition |-> Disposition(d, override),
   activePlan  |-> IF ActivePlansOf(d) = {} THEN None ELSE CHOOSE p \in ActivePlansOf(d) : TRUE,
   exception   |-> technical[d].exception,
   override    |-> technical[d].exception # None /\ override,
   recommendation |-> technical[d].recommendation,
   basis       |-> technical[d].basis,
   context     |-> technical[d].context]

Previewed(input) ==
  [input |-> input, line |-> [d \in input.devices |-> Line(d, d \in input.overrides)]]

\* What is hashed: all of a preview but the context of its devices.  The hash is
\* taken to be injective, so the token is the hashed value.
Token(preview) ==
  [input |-> preview.input,
   line |-> [d \in preview.input.devices |-> [preview.line[d] EXCEPT !.context = None]]]

Included(preview) == {d \in preview.input.devices : preview.line[d].disposition = "INCLUDED"}

\* previewFirmwareWorkPlan: one RepeatableRead snapshot.
Preview(c, input) ==
  /\ tx[c] = None
  /\ view' = [view EXCEPT ![c] = [kind |-> "preview", preview |-> Previewed(input)]]
  /\ UNCHANGED <<plan, target, event, technical, changes, tx>>

-----------------------------------------------------------------------------
(* Transactions.  Begin* is the transaction's read and its checks, Commit*  *)
(* its writes; a check that fails, or an abort, leaves no trace.            *)

Viewing(c, kind) == view[c] # None /\ view[c].kind = kind
InTx(c, kind)    == tx[c] # None /\ tx[c].kind = kind

\* Mutants: no conditional update; one that compares the state only.
CurrentAlways(p, row) == TRUE
CurrentState(p, row)  == plan[p].state = row.state

\* The row still has the state and updatedAt the client read.
Current(p, row) == /\ plan[p].state = row.state
                   /\ plan[p].updatedAt = row.updatedAt

\* What scheduling with the supplied date and window (None: not supplied)
\* confirms, and when it may.
ConfirmedFor(row, date)      == IF date # None THEN date ELSE row.proposedFor
ConfirmedWindow(row, window) == IF window # None THEN window ELSE row.proposedWindow

\* Mutant: customer approval may schedule without a proposed date.
MayScheduleUndated(row, date, window) ==
  /\ ConfirmedFor(row, date) # None
  /\ row.proposedFor # None => /\ row.proposedFor = ConfirmedFor(row, date)
                              /\ row.proposedWindow = ConfirmedWindow(row, window)

MaySchedule(row, date, window) ==
  /\ ConfirmedFor(row, date) # None
  /\ row.proposedFor # None =>
       /\ row.proposedFor = ConfirmedFor(row, date)
       /\ row.proposedWindow = ConfirmedWindow(row, window)
  /\ row.state = "AWAITING_CUSTOMER" => row.proposedFor # None

BeginTransition(c, to, date, window) ==
  /\ tx[c] = None /\ Viewing(c, "plan")
  /\ LET p == view[c].id
         row == plan[p]
     IN /\ Current(p, view[c].row)
        /\ CanTransition(row.state, to)
        /\ IF to = "SCHEDULED" THEN MaySchedule(row, date, window)
                              ELSE date = None /\ window = None
        /\ tx' = [tx EXCEPT ![c] =
              [kind |-> "transition", id |-> p, read |-> row, to |-> to,
               date |-> IF to = "SCHEDULED" THEN ConfirmedFor(row, date) ELSE None,
               window |-> IF to = "SCHEDULED" THEN ConfirmedWindow(row, window) ELSE None]]
  /\ UNCHANGED <<plan, target, event, technical, changes, view>>

\* Mutant: two writes in one millisecond share their version.
NextUpdatedAtSameMs(at, row) == IF at > row.updatedAt THEN at ELSE row.updatedAt

\* "Advance even for same-ms writes": at is the clock of the process that
\* serves the request, which need not agree with the other processes' clocks.
NextUpdatedAt(at, row) == IF at > row.updatedAt THEN at ELSE row.updatedAt + 1

\* The timestamps a transition clears and sets.
Cleared(to) == CASE to = "PROPOSED" -> {"approved", "scheduled"}
                 [] to = "APPROVED" -> {"scheduled"}
                 [] OTHER           -> {}

\* Mutant: customer approval that schedules directly does not record the approval.
StampedUnapproved(from, to) ==
  CASE to = "APPROVED"  -> {"approved"}
    [] to = "SCHEDULED" -> {"scheduled"}
    [] OTHER            -> {}

Stamped(from, to) ==
  CASE to = "APPROVED"    -> {"approved"}
    [] to = "SCHEDULED"   -> IF from = "AWAITING_CUSTOMER" THEN {"approved", "scheduled"}
                                                         ELSE {"scheduled"}
    [] to = "IN_PROGRESS" -> {"started"}
    [] to = "DONE"        -> {"completed"}
    [] to = "CANCELLED"   -> {"cancelled"}
    [] OTHER              -> {}

\* The row after the update of transitionFirmwareWorkPlan: going back to PROPOSED
\* or APPROVED also clears the booked window.
Moved(row, t, at) ==
  [row EXCEPT !.state = t.to,
     !.updatedAt = NextUpdatedAt(at, t.read),
     !.scheduledFor = IF t.to = "SCHEDULED" THEN t.date
                      ELSE IF t.to \in {"PROPOSED", "APPROVED"} THEN None ELSE @,
     !.window = IF t.to = "SCHEDULED" THEN t.window
                ELSE IF t.to \in {"PROPOSED", "APPROVED"} THEN None ELSE @,
     !.stamps = (@ \ Cleared(t.to)) \cup Stamped(t.read.state, t.to)]

\* The write both operations end with: the conditional update, the history
\* event and the end of the transaction.
Write(c, row, to) ==
  /\ Current(tx[c].id, tx[c].read)
  /\ row.updatedAt <= MaxTime
  /\ plan' = [plan EXCEPT ![tx[c].id] = row]
  /\ event' = [event EXCEPT ![tx[c].id] = Append(@, [from |-> tx[c].read.state, to |-> to])]
  /\ tx' = [tx EXCEPT ![c] = None]
  /\ UNCHANGED <<target, technical, changes, view>>

CommitTransition(c, at) ==
  /\ InTx(c, "transition")
  /\ Write(c, Moved(plan[tx[c].id], tx[c], at), tx[c].to)

\* amendFirmwareWorkPlanProposal: fields are the columns the request supplies.
BeginAmend(c, fields, date, window) ==
  /\ tx[c] = None /\ Viewing(c, "plan")
  /\ Current(view[c].id, view[c].row)
  /\ plan[view[c].id].state \in Amendable
  /\ "proposedFor" \notin fields => date = None
  /\ "proposedWindow" \notin fields => window = None
  /\ tx' = [tx EXCEPT ![c] =
        [kind |-> "amend", id |-> view[c].id, read |-> plan[view[c].id],
         fields |-> fields, date |-> date, window |-> window]]
  /\ UNCHANGED <<plan, target, event, technical, changes, view>>

\* Mutant: the two columns of the proposal are swapped.
AmendedSwapped(row, t, at) ==
  [row EXCEPT !.proposedFor = IF "proposedFor" \in t.fields THEN t.window ELSE @,
              !.proposedWindow = IF "proposedWindow" \in t.fields THEN t.date ELSE @,
              !.updatedAt = NextUpdatedAt(at, t.read)]

Amended(row, t, at) ==
  [row EXCEPT !.proposedFor = IF "proposedFor" \in t.fields THEN t.date ELSE @,
              !.proposedWindow = IF "proposedWindow" \in t.fields THEN t.window ELSE @,
              !.updatedAt = NextUpdatedAt(at, t.read)]

CommitAmend(c, at) ==
  /\ InTx(c, "amend")
  /\ Write(c, Amended(plan[tx[c].id], tx[c], at), tx[c].read.state)

\* Mutant: the preview is rebuilt but not compared with the token.
BeginCreateUnchecked(c) ==
  /\ tx[c] = None /\ Viewing(c, "preview")
  /\ Included(Previewed(view[c].preview.input)) # {}
  /\ tx' = [tx EXCEPT ![c] = [kind |-> "create", committed |-> {},
                             preview |-> Previewed(view[c].preview.input)]]
  /\ UNCHANGED <<plan, target, event, technical, changes, view>>

\* createFirmwareWorkPlan reads its snapshot, rebuilds the preview and compares
\* the tokens; what it goes on with is the preview it has rebuilt.  committed
\* collects what overlapping creations read and wrote.
BeginCreate(c) ==
  /\ tx[c] = None /\ Viewing(c, "preview")
  /\ LET preview == Previewed(view[c].preview.input)
     IN /\ Token(preview) = Token(view[c].preview)
        /\ Included(preview) # {}
        /\ tx' = [tx EXCEPT ![c] = [kind |-> "create", preview |-> preview, committed |-> {}]]
  /\ UNCHANGED <<plan, target, event, technical, changes, view>>

\* Mutant: creation at a weaker isolation level.
SnapshotIsolation(c) == TRUE

\* External: PostgreSQL aborts a Serializable transaction when an overlapping
\* one that committed has read what it writes and written what it reads.
Serializable(c) ==
  \A other \in tx[c].committed :
    \/ other.writes \cap tx[c].preview.input.devices = {}
    \/ other.reads \cap Included(tx[c].preview) = {}

NewRow(input, at) ==
  [state |-> "PROPOSED", proposedFor |-> input.proposedFor,
   proposedWindow |-> input.proposedWindow, scheduledFor |-> None, window |-> None,
   stamps |-> {}, updatedAt |-> at, legacy |-> FALSE]

Snapshot(line) == [basis |-> line.basis, context |-> line.context,
                   recommendation |-> line.recommendation,
                   exception |-> line.exception, override |-> line.override]

CommitCreate(c, p, at) ==
  /\ InTx(c, "create") /\ ~Exists(p) /\ Serializable(c)
  /\ LET preview == tx[c].preview
         edge == [reads |-> preview.input.devices, writes |-> Included(preview)]
     IN /\ plan' = [plan EXCEPT ![p] = NewRow(preview.input, at)]
        /\ target' = [target EXCEPT ![p] = [d \in Included(preview) |-> Snapshot(preview.line[d])]]
        /\ event' = [event EXCEPT ![p] = <<[from |-> None, to |-> "PROPOSED"]>>]
        /\ tx' = [k \in Clients |->
             IF k = c THEN None
             ELSE IF InTx(k, "create")
               THEN [tx[k] EXCEPT !.committed = @ \cup {edge}] ELSE tx[k]]
  /\ UNCHANGED <<technical, changes, view>>

\* A 409, a serialization failure, an expired transaction or a lost connection.
Abort(c) ==
  /\ tx[c] # None
  /\ tx' = [tx EXCEPT ![c] = None]
  /\ UNCHANGED <<plan, target, event, technical, changes, view>>

\* External: synchronization, policy editing and exceptions change the facts.
ChangeFacts(d) ==
  /\ changes < MaxChanges
  /\ \E f \in Technical \ {technical[d]} : technical' = [technical EXCEPT ![d] = f]
  /\ changes' = changes + 1
  /\ UNCHANGED <<plan, target, event, view, tx>>

-----------------------------------------------------------------------------
Read == \E c \in Clients :
  \/ \E p \in Plans : LoadPlan(c, p)
  \/ \E input \in Inputs : Preview(c, input)

Transition == \E c \in Clients :
  \/ \E to \in States, date \in OptDate, window \in OptWindow :
       BeginTransition(c, to, date, window)
  \/ \E at \in Clocks : CommitTransition(c, at)

Amend == \E c \in Clients :
  \/ \E fields \in (SUBSET {"proposedFor", "proposedWindow"}) \ {{}},
        date \in OptDate, window \in OptWindow : BeginAmend(c, fields, date, window)
  \/ \E at \in Clocks : CommitAmend(c, at)

Create == \E c \in Clients :
  \/ BeginCreate(c)
  \/ \E p \in Plans, at \in Clocks : CommitCreate(c, p, at)

Next == \/ Read \/ Transition \/ Amend \/ Create
        \/ \E c \in Clients : Abort(c)
        \/ \E d \in Devices : ChangeFacts(d)

Spec == Init /\ [][Next]_vars

-----------------------------------------------------------------------------
(* Types of the screens and of the transactions in flight.                 *)

PreviewLines == [disposition: {"INACTIVE_DEVICE", "ALREADY_PLANNED", "NO_ACTION",
                             "ACTIVE_EXCEPTION", "REVIEW_REQUIRED", "INCLUDED"},
               activePlan: Plans \cup {None}, exception: Exceptions \cup {None},
               override: BOOLEAN, recommendation: Recommendations, basis: Bases,
               context: Contexts]

Previews == UNION {[input: {i}, line: [i.devices -> PreviewLines]] : i \in Inputs}

Views == [kind: {"plan"}, id: Plans, row: Row] \cup [kind: {"preview"}, preview: Previews]

Transactions ==
  [kind: {"transition"}, id: Plans, read: Row, to: States, date: OptDate, window: OptWindow]
  \cup [kind: {"amend"}, id: Plans, read: Row,
        fields: SUBSET {"proposedFor", "proposedWindow"}, date: OptDate, window: OptWindow]
  \cup [kind: {"create"}, preview: Previews,
        committed: SUBSET [reads: SUBSET Devices, writes: SUBSET Devices]]

\* NULL is none of the states, rows, screens and transactions.
ASSUME NoneAssumption == None \notin States /\ None \notin Row \cup Views \cup Transactions

TypeOK ==
  /\ plan \in [Plans -> Row \cup {None}]
  /\ target \in [Plans -> UNION {[D -> Snapshots] : D \in SUBSET Devices}]
  /\ event \in [Plans -> Seq(Events)]
  /\ technical \in [Devices -> Technical]
  /\ changes \in 0..MaxChanges
  /\ view \in [Clients -> Views \cup {None}]
  /\ tx \in [Clients -> Transactions \cup {None}]

-----------------------------------------------------------------------------
(* Safety.                                                                 *)

\* A device is in at most one active plan, although no constraint of the
\* schema says so: only the serializable creation and its ALREADY_PLANNED
\* disposition keep two operators from planning the same device.
OneActivePlanPerDevice ==
  \A p, q \in Plans :
    p # q /\ Active(p) /\ Active(q) => DOMAIN target[p] \cap DOMAIN target[q] = {}

\* The events of a plan are one unbroken path: each starts where the one before
\* ended, is an amendment or a legal transition, and the last one ends in the
\* state of the row; so no two writers' events can be built on the same read.
HistoryIsAPath ==
  \A p \in Plans : Exists(p) =>
    LET e == event[p] IN
    /\ Len(e) >= 1 /\ e[1].from = None
    /\ \A i \in 2..Len(e) :
         /\ e[i].from = e[i - 1].to
         /\ \/ e[i].from = e[i].to /\ e[i].to \in Amendable
            \/ CanTransition(e[i].from, e[i].to)
    /\ e[Len(e)].to = plan[p].state

\* From SCHEDULED on, the window of the work is exactly the stored proposal when
\* the proposal has a date, whatever amendments raced the confirmation; before
\* SCHEDULED no window is booked ("Scheduling must confirm the exact proposed
\* maintenance window").
WorkKeepsToTheProposal ==
  \A p \in Plans : Exists(p) =>
    LET row == plan[p] IN
    /\ row.state \in {"SCHEDULED", "IN_PROGRESS"} => row.scheduledFor # None
    /\ row.state \in {"SCHEDULED", "IN_PROGRESS", "DONE"} /\ row.proposedFor # None =>
         row.scheduledFor = row.proposedFor /\ row.window = row.proposedWindow
    /\ row.state \in Amendable => row.scheduledFor = None /\ row.window = None

\* approvedAt is set exactly when the history holds an approval that no return to
\* PROPOSED has revoked, and work that did not come from the migration is never
\* scheduled, started or finished without it.
Approves(e) == \/ e.to = "APPROVED" /\ e.from # "APPROVED"
               \/ e.to = "SCHEDULED" /\ e.from = "AWAITING_CUSTOMER"
Revokes(e)  == e.to = "PROPOSED" /\ e.from # "PROPOSED"
Stands(history) ==
  \E i \in DOMAIN history : /\ Approves(history[i])
                            /\ \A j \in DOMAIN history : Revokes(history[j]) => j < i

ApprovalIsOnRecord ==
  \A p \in Plans : Exists(p) =>
    /\ "approved" \in plan[p].stamps <=> Stands(event[p])
    /\ plan[p].state \in {"SCHEDULED", "IN_PROGRESS", "DONE"} /\ ~plan[p].legacy
         => "approved" \in plan[p].stamps

-----------------------------------------------------------------------------
(* What makes the invariants inductive.                                    *)

\* An old read of plan p: its version is not above the row's, and equal versions
\* mean equal rows.
Earlier(old, p) ==
  /\ Exists(p)
  /\ old.updatedAt <= plan[p].updatedAt
  /\ old.updatedAt = plan[p].updatedAt => old = plan[p]

Writing(c) == InTx(c, "transition") \/ InTx(c, "amend")

ReadsAreEarlier ==
  \A c \in Clients :
    /\ Viewing(c, "plan") => Earlier(view[c].row, view[c].id)
    /\ Writing(c) => /\ Viewing(c, "plan") /\ view[c].id = tx[c].id
                     /\ view[c].row = tx[c].read

\* A transaction in flight passed its checks on the row it read.
WritesAreChecked ==
  \A c \in Clients :
    /\ InTx(c, "transition") =>
         /\ CanTransition(tx[c].read.state, tx[c].to)
         /\ tx[c].to = "SCHEDULED" =>
              /\ tx[c].date # None
              /\ tx[c].read.proposedFor # None =>
                   /\ tx[c].date = tx[c].read.proposedFor
                   /\ tx[c].window = tx[c].read.proposedWindow
              /\ tx[c].read.state = "AWAITING_CUSTOMER" => tx[c].read.proposedFor # None
    /\ InTx(c, "amend") => tx[c].read.state \in Amendable

\* A creation in flight agrees with what its operator has on the screen in all
\* that the token covers.
CreationsAreSeen ==
  \A c \in Clients : InTx(c, "create") =>
    /\ Viewing(c, "preview") /\ Token(view[c].preview) = Token(tx[c].preview)
    /\ Included(tx[c].preview) # {}

\* A device about to be planned is in no active plan but those the database has
\* recorded as overlapping.
OverlapsAreRecorded ==
  \A c \in Clients : InTx(c, "create") =>
    /\ \A other \in tx[c].committed : other.writes \subseteq other.reads
    /\ \A d \in Included(tx[c].preview), p \in Plans :
         Active(p) /\ d \in DOMAIN target[p] =>
           \E other \in tx[c].committed : d \in other.writes

InFlight == ReadsAreEarlier /\ WritesAreChecked /\ CreationsAreSeen /\ OverlapsAreRecorded

-----------------------------------------------------------------------------
(* What a step may never do.                                               *)

\* A plan is only written from the row its writer was looking at: the pair
\* (state, updatedAt) identifies the whole row, even when clocks disagree and
\* several writes fall into one millisecond (no lost update, no ABA).
NoBlindWrite ==
  [][\A p \in Plans : Exists(p) /\ plan'[p] # plan[p] =>
       \E c \in Clients : /\ tx[c] # None /\ tx'[c] = None
                         /\ Viewing(c, "plan") /\ view[c].id = p
                         /\ view[c].row = plan[p]]_vars

\* A finished or cancelled plan never changes again, the version of a plan only
\* grows, and its targets are the immutable snapshot taken at creation.
PlansOnlyMoveForward ==
  [][\A p \in Plans : Exists(p) =>
       /\ plan[p].state \notin ActiveStates => plan'[p] = plan[p]
       /\ plan'[p] # plan[p] => plan'[p].updatedAt > plan[p].updatedAt
       /\ target'[p] = target[p]]_vars

\* What a snapshot shares with the token.
Covered(snapshot) == [snapshot EXCEPT !.context = None]

\* What is created has what its author saw in the preview and the token covers:
\* the same devices with the same recommendation, basis and acknowledged
\* exception, and the same proposal, whatever changed in between.  It does not
\* promise the customer, site, model and texts: those are saved as the creation
\* reads them and are not compared with what was shown.
CreatedAsPreviewed ==
  [][\A p \in Plans : ~Exists(p) /\ plan'[p] # None =>
       \E c \in Clients :
         /\ Viewing(c, "preview") /\ tx'[c] = None
         /\ LET seen == view[c].preview IN
            /\ DOMAIN target'[p] = Included(seen)
            /\ \A d \in Included(seen) : Covered(target'[p][d]) = Covered(Snapshot(seen.line[d]))
            /\ plan'[p].proposedFor = seen.input.proposedFor
            /\ plan'[p].proposedWindow = seen.input.proposedWindow]_vars

-----------------------------------------------------------------------------
(* What planning promises: PlanLifecycle.                                  *)

Slot(date, window) == [date |-> date, window |-> window]

\* The refinement mapping: transactions and screens disappear.
Stage == [p \in Plans |-> IF Exists(p) THEN plan[p].state ELSE None]
Holder == [d \in Devices |-> IF ActivePlansOf(d) = {} THEN None ELSE CHOOSE p \in ActivePlansOf(d) : TRUE]
Proposal == [p \in Plans |-> IF Exists(p) THEN Slot(plan[p].proposedFor, plan[p].proposedWindow)
                             ELSE Slot(None, None)]
Booking == [p \in Plans |-> IF Exists(p) THEN Slot(plan[p].scheduledFor, plan[p].window)
                            ELSE Slot(None, None)]

Lifecycle == INSTANCE PlanLifecycle WITH
  Legal <- CanTransition, OpenStates <- ActiveStates,
  stage <- Stage, holder <- Holder, proposal <- Proposal, booking <- Booking

\* WorkPlan implements the abstract life cycle: every write of every client is
\* one legal abstract step, and everything else is a stutter.
ImplementsLifecycle == Lifecycle!AbstractSpec
=============================================================================
