---------------------------- MODULE StagedBatch ----------------------------
(* One staged import batch under review, and its publication.  Engineers    *)
(* preview and apply corrections (importer-v2-workspace-store.ts and        *)
(* -identity.ts), the workspace recomputes statuses and applies the active  *)
(* rules (-maintenance.ts, -effective-overlay.ts), and requests publish     *)
(* what is resolved (importer-v2-publication*.ts).                          *)
(*                                                                          *)
(* A handler reads and writes in separate statements: each is a step.  Only *)
(* the publication runs in a serializable transaction; it opens on a        *)
(* snapshot and commits unless a row it writes was written since.           *)
EXTENDS Naturals, Sequences, FiniteSets, Functions

CONSTANTS
  Rows,        \* the rows of the batch
  Values,      \* what a correction can set a field to
  Issue,       \* the finding of the evaluator on each row
  Identity,    \* the review of the device each row is about
  Ambiguous,   \* the rows that may repeat more than one earlier row
  RuleSets,    \* the revisions of the rule book: the decision it makes on each row
  Selections,  \* what engineers select: rows, filtered by primary status or not
  Corrections, \* what engineers do to a selection
  Workers,     \* handlers that work on the batch at a time
  Keys,        \* idempotency keys of publications
  Requests,    \* publication requests at a time
  MaxRevision, \* bound on the corrections of a row
  Losses,      \* TRUE when processes die between two statements
  None

Decision == [act : {"SET"}, value : Values] \cup [act : {"EXCLUDE", "MATCH", "VERIFY"}, value : {None}]
Statuses == {"VALID", "WARNING", "NEEDS_REVIEW", "RECHECK_REQUIRED", "EXCLUDED"}
BatchState == [status : {"RECONCILING", "PARTIALLY_PUBLISHED", "PUBLISHED"},
               published : 0 .. Cardinality(Rows)]

ASSUME BatchAssumption ==
  /\ IsFiniteSet(Rows) /\ None \notin Keys /\ None \notin BatchState
  /\ \A r \in Rows : Issue[r] \in {"none", "warning", "error"}
  /\ \A r \in Rows : /\ Identity[r] \in {"settled", "suggested", "ambiguous", "invalid"}
                     /\ Identity[r] \in {"ambiguous", "invalid"} => r \in Ambiguous
  /\ \A set \in RuleSets, r \in Rows : set[r] \in Decision \cup {None}
  /\ Corrections \subseteq Decision
  /\ Selections \subseteq [rows : SUBSET Rows, status : Statuses \cup {"ANY"}]
  /\ MaxRevision \in Nat /\ Losses \in BOOLEAN

VARIABLES
  batch,     \* ImporterV2WorkspaceBatch: status, published count; None once deleted
  row,       \* ImporterV2WorkspaceRow
  decisions, \* the ImporterV2WorkspaceDecisions of each row, oldest first
  rules,     \* the active revision of the rule book
  work,      \* what each handler is doing
  screen,    \* the QA behind each idempotency key: fingerprint, mode, what it showed
  request,   \* the publication requests
  attempt,   \* ImporterV2PublicationAttempt: what each key published, of some rows
  answer     \* the last answer to the requests of each key

vars == <<batch, row, decisions, rules, work, screen, request, attempt, answer>>
staged == <<row, decisions>>
publishing == <<screen, request, attempt, answer>>

Act == {"SET", "EXCLUDE", "MATCH", "VERIFY"}
Inclusion == {"INCLUDED", "EXCLUDED"}
RowState == [inclusion : Inclusion, status : Statuses, recheck : BOOLEAN,
             revision : Nat, attempt : Keys \cup {None}]
Recorded == [act : Act, value : Values \cup {None},
             by : {"ENGINEER", "RULE"}, onto : Nat]
By == {"ENGINEER", "RULE", None}
Outcome == [value : Values \cup {None}, set : By, match : By, excluded : By]
\* What a handler holds of some of the rows, and what it knows at each stage.
Seen(V) == UNION {[S -> V] : S \in SUBSET Rows}
Correction == [act : Act, value : Values \cup {None}]
Work ==
  [stage : {"previewed", "checked"}, sel : Selections, by : Correction, shown : Seen(Nat)]
  \cup [stage : {"confirmed"}, by : Correction, shown : Seen(Nat), seen : Seen(Statuses)]
  \cup [stage : {"planned", "agreed"}, sel : Selections, by : Correction, shown : Seen(Nat),
         seen : Seen(Statuses)]
  \cup [stage : {"matched"}, sel : Selections]
  \cup [stage : {"written"}, rows : SUBSET Rows]
  \cup [stage : {"overlaid"}, seen : Seen(Statuses)]
  \cup [stage : {"reread"}, rows : SUBSET Rows, pending : BOOLEAN]
  \cup [stage : {"rechecking"}, checked : BOOLEAN,
         seen : Seen([revision : Nat, status : Statuses, inclusion : Inclusion])]
  \cup [stage : {"guided", "deleting"}]
  \cup [stage : {"clearing", "creating"}, only : BOOLEAN,
         gone : [Rows -> SUBSET (Act \X (Values \cup {None}))],
         fresh : [Rows -> SUBSET (Act \X (Values \cup {None}))]]

\* NULL is nothing a handler holds, and no one who decides.
ASSUME NoneAssumption == None \notin Work /\ None \notin {"ENGINEER", "RULE"}
-----------------------------------------------------------------------------
(* What the decisions make of a row.                                        *)

Made(r, act) == {i \in DOMAIN decisions[r] : decisions[r][i].act = act}
Latest(S) == CHOOSE i \in S : \A j \in S : j <= i

Dismissed(r) == Made(r, "EXCLUDE") # {}
IsExcluded(r) == row[r].inclusion = "EXCLUDED" \/ Dismissed(r)

\* importerV2WorkspaceIssueState: an exclusion resolves every finding, and the
\* verification of what a device was seen running the warning about it.
Active(r, severity) ==
  /\ Issue[r] = severity /\ ~IsExcluded(r) /\ Made(r, "SET") = {}
  /\ severity = "warning" => Made(r, "VERIFY") = {}

\* The latest decision on a field and on the identity counts.
SaidBy(r, act) == IF Made(r, act) = {} THEN None ELSE decisions[r][Latest(Made(r, act))].by
ExcludedBy(r) ==
  IF \E i \in Made(r, "EXCLUDE") : decisions[r][i].by = "ENGINEER" THEN "ENGINEER"
  ELSE IF Dismissed(r) THEN "RULE" ELSE None

\* importerV2WorkspaceIdentityReview: no decision settles an invalid identity.
Unmatched == {r \in Rows : Identity[r] # "settled"}
UnmatchedStill(r) ==
  Identity[r] = "invalid" \/ (r \in Unmatched /\ SaidBy(r, "MATCH") = None)

OutcomeOf(r) ==
  [value |-> IF Made(r, "SET") = {} THEN None ELSE decisions[r][Latest(Made(r, "SET"))].value,
   set |-> SaidBy(r, "SET"), match |-> SaidBy(r, "MATCH"), excluded |-> ExcludedBy(r)]

\* The primary status, by priority.
StatusOf(r, excluded, unmatched, recheck) ==
  IF excluded THEN "EXCLUDED"
  ELSE IF Active(r, "error") \/ unmatched THEN "NEEDS_REVIEW"
  ELSE IF Active(r, "warning") THEN "WARNING"
  ELSE IF recheck THEN "RECHECK_REQUIRED" ELSE "VALID"

\* recomputeImporterV2WorkspaceRows, the effective overlay, and the identity
\* decision: the last two show a pending recheck, know no exclusion but the one
\* in the row, and do not ask what the row repeats.
Recomputed(r) == StatusOf(r, IsExcluded(r), UnmatchedStill(r) \/ r \in Ambiguous, FALSE)
Overlaid(r) == StatusOf(r, row[r].inclusion = "EXCLUDED", UnmatchedStill(r), row[r].recheck)
Matched(r) == StatusOf(r, row[r].inclusion = "EXCLUDED", Identity[r] = "invalid", row[r].recheck)
-----------------------------------------------------------------------------
TypeOK ==
  /\ batch \in BatchState \cup {None}
  /\ row \in [Rows -> RowState]
  /\ decisions \in [Rows -> Seq(Recorded)]
  /\ rules \in RuleSets
  /\ work \in [Workers -> Work \cup {None}]
  /\ attempt \in [Keys -> Seen(Outcome)]
  /\ answer \in [Keys -> {"published", "stale", "failed", None}]

\* Ingestion stages the rows with the status of their evaluation.
Init ==
  /\ batch = [status |-> "RECONCILING", published |-> 0]
  /\ decisions = [r \in Rows |-> <<>>]
  /\ row = [r \in Rows |->
       [inclusion |-> "INCLUDED", recheck |-> FALSE, revision |-> 0, attempt |-> None,
        status |-> IF Issue[r] = "error" \/ r \in Unmatched THEN "NEEDS_REVIEW"
                   ELSE IF Issue[r] = "warning" THEN "WARNING" ELSE "VALID"]]
  /\ rules \in RuleSets
  /\ work = [w \in Workers |-> None]
  /\ screen = [k \in Keys |-> None] /\ request = [q \in Requests |-> None]
  /\ attempt = [k \in Keys |-> <<>>] /\ answer = [k \in Keys |-> None]

At(w, stage) == work[w] # None /\ work[w].stage = stage
Goes(w, next) == work' = [work EXCEPT ![w] = next]
Ends(w) == Goes(w, None)

\* PostgreSQL fails the open publications that write a row written meanwhile.
Wrote(S) ==
  request' = [q \in Requests |->
    IF request[q] # None /\ request[q].stage = "open" /\ request[q].rows \cap S # {}
    THEN [request[q] EXCEPT !.doomed = TRUE] ELSE request[q]]
\* Every publication writes the batch row.
WroteBatch ==
  request' = [q \in Requests |->
    IF request[q] # None /\ request[q].stage = "open"
    THEN [request[q] EXCEPT !.doomed = TRUE] ELSE request[q]]
-----------------------------------------------------------------------------
(* Corrections.                                                             *)

Selected(sel) == {r \in sel.rows : sel.status \in {"ANY", row[r].status}}
Revisions(S) == [r \in S |-> row[r].revision]

\* A match is the decision of one row; it has an endpoint of its own.
Preview(w) ==
  /\ work[w] = None /\ batch # None
  /\ \E sel \in Selections, c \in Corrections :
       /\ c.act # "VERIFY" /\ Selected(sel) # {}
       /\ \A r \in Selected(sel) : row[r].revision < MaxRevision
       /\ c.act = "MATCH" => Cardinality(sel.rows) = 1 /\ sel.status = "ANY" /\ sel.rows \subseteq Unmatched
       /\ Goes(w, [stage |-> "previewed", sel |-> sel, by |-> c, shown |-> Revisions(Selected(sel))])
  /\ UNCHANGED <<batch, staged, rules, publishing>>

\* The scope token holds the selection, the action and every row's revision.
TokenHolds(w) == Revisions(Selected(work[w].sel)) = work[w].shown

Apply(w) ==
  /\ At(w, "previewed") /\ batch # None
  /\ IF ~TokenHolds(w) THEN Ends(w)
     ELSE Goes(w, IF work[w].by.act # "MATCH" THEN [work[w] EXCEPT !.stage = "checked"]
                  ELSE [stage |-> "confirmed", by |-> work[w].by, shown |-> work[w].shown,
                        seen |-> [r \in DOMAIN work[w].shown |-> Matched(r)]])
  /\ UNCHANGED <<batch, staged, rules, publishing>>

Decide(w) ==
  decisions' = [r \in Rows |->
    IF r \in DOMAIN work[w].shown
    THEN Append(decisions[r], [act |-> work[w].by.act, value |-> work[w].by.value,
                               by |-> "ENGINEER", onto |-> work[w].shown[r]])
    ELSE decisions[r]]

\* A mutant of Corrected: the revision stays.
CorrectedInPlace(old, act) ==
  IF act = "EXCLUDE" THEN [old EXCEPT !.inclusion = "EXCLUDED", !.status = "EXCLUDED", !.recheck = FALSE]
  ELSE [old EXCEPT !.status = "RECHECK_REQUIRED", !.recheck = TRUE]

\* What the transaction of a correction leaves of a row it names.
Corrected(old, act) ==
  [(IF act = "EXCLUDE"
    THEN [old EXCEPT !.inclusion = "EXCLUDED", !.status = "EXCLUDED", !.recheck = FALSE]
    ELSE [old EXCEPT !.status = "RECHECK_REQUIRED", !.recheck = TRUE]) EXCEPT !.revision = @ + 1]

\* The rows are updated by id: neither their revision nor their publication is
\* looked at again.
Write(w) ==
  /\ At(w, "checked") /\ batch # None
  /\ Decide(w)
  /\ row' = [r \in Rows |-> IF r \in DOMAIN work[w].shown THEN Corrected(row[r], work[w].by.act) ELSE row[r]]
  /\ Wrote(DOMAIN work[w].shown)
  /\ Goes(w, [stage |-> "written", rows |-> DOMAIN work[w].shown])
  /\ UNCHANGED <<batch, rules, screen, attempt, answer>>

Revised(old, status) == [old EXCEPT !.revision = @ + 1, !.status = status]

\* The identity endpoint writes the status it computed when it checked.
Confirm(w) ==
  /\ At(w, "confirmed") /\ batch # None
  /\ Decide(w)
  /\ row' = [r \in Rows |->
       IF r \in DOMAIN work[w].shown THEN Revised(row[r], work[w].seen[r]) ELSE row[r]]
  /\ Wrote(DOMAIN work[w].shown)
  /\ Ends(w)
  /\ UNCHANGED <<batch, rules, screen, attempt, answer>>

OverlayRead(w) ==
  /\ At(w, "written") /\ batch # None
  /\ Goes(w, [stage |-> "overlaid", seen |-> [r \in work[w].rows |-> Overlaid(r)]])
  /\ UNCHANGED <<batch, staged, rules, publishing>>

OverlayWrite(w) ==
  /\ At(w, "overlaid") /\ batch # None
  /\ row' = [r \in Rows |->
       IF r \in DOMAIN work[w].seen THEN [row[r] EXCEPT !.status = work[w].seen[r]] ELSE row[r]]
  /\ Wrote(DOMAIN work[w].seen)
  /\ Goes(w, [stage |-> "reread", rows |-> DOMAIN work[w].seen, pending |-> TRUE])
  /\ UNCHANGED <<batch, decisions, rules, screen, attempt, answer>>
-----------------------------------------------------------------------------
(* Bulk verification: of the selected rows, the single suggested identities, *)
(* and then the observed firmware.  Each part is planned on rows that were   *)
(* read; its transaction looks at their revisions again, and writes after.   *)

Plannable(sel, act) ==
  {r \in Selected(sel) :
     row[r].attempt = None
       /\ IF act = "MATCH" THEN Identity[r] = "suggested" /\ UnmatchedStill(r)
          ELSE row[r].inclusion = "INCLUDED" /\ Issue[r] = "warning" /\ Made(r, "VERIFY") = {}}
Plan(w, sel, act) ==
  /\ \A r \in Plannable(sel, act) : row[r].revision < MaxRevision
  /\ Goes(w, [stage |-> "planned", sel |-> sel, by |-> [act |-> act, value |-> None],
              shown |-> Revisions(Plannable(sel, act)), seen |-> [r \in Plannable(sel, act) |-> Matched(r)]])
  /\ UNCHANGED <<batch, staged, rules, publishing>>

StartVerify(w) ==
  /\ work[w] = None /\ batch # None /\ \E c \in Corrections : c.act = "VERIFY"
  /\ \E sel \in Selections : Selected(sel) # {} /\ Plan(w, sel, "MATCH")
PlanFirmware(w) == At(w, "matched") /\ batch # None /\ Plan(w, work[w].sel, "VERIFY")

StillPlanned(w) ==
  \A r \in DOMAIN work[w].shown : row[r].attempt = None /\ row[r].revision = work[w].shown[r]
Agree(w) ==
  /\ At(w, "planned") /\ batch # None
  /\ IF StillPlanned(w) THEN Goes(w, [work[w] EXCEPT !.stage = "agreed"]) ELSE Ends(w)
  /\ UNCHANGED <<batch, staged, rules, publishing>>
WriteVerify(w) ==
  /\ At(w, "agreed") /\ batch # None
  /\ Decide(w)
  /\ row' = [r \in Rows |->
       IF r \notin DOMAIN work[w].shown THEN row[r]
       ELSE Revised(row[r], IF work[w].by.act = "MATCH" THEN work[w].seen[r] ELSE row[r].status)]
  /\ Wrote(DOMAIN work[w].shown)
  /\ Goes(w, IF work[w].by.act = "MATCH" THEN [stage |-> "matched", sel |-> work[w].sel]
              ELSE [stage |-> "reread", rows |-> Rows, pending |-> FALSE])
  /\ UNCHANGED <<batch, rules, screen, attempt, answer>>
-----------------------------------------------------------------------------
(* Rechecks and automation.                                                 *)

\* The recheck endpoint.
StartRecheck(w) ==
  /\ work[w] = None /\ batch # None
  /\ Goes(w, [stage |-> "reread", rows |-> Rows, pending |-> TRUE])
  /\ UNCHANGED <<batch, staged, rules, publishing>>

Reread(w) ==
  /\ At(w, "reread") /\ batch # None
  /\ LET S == {r \in work[w].rows : work[w].pending => row[r].recheck}
     IN Goes(w, [stage |-> "rechecking", checked |-> FALSE,
                 seen |-> [r \in S |-> [revision |-> row[r].revision, status |-> Recomputed(r),
                                        inclusion |-> IF IsExcluded(r) THEN "EXCLUDED" ELSE "INCLUDED"]]])
  /\ UNCHANGED <<batch, staged, rules, publishing>>

\* A mutant of Unrevised: rows are updated by id alone.
UnrevisedAlways(w, r) == TRUE

\* updateMany where id and reviewRevision.
Unrevised(w, r) == row[r].revision = work[w].seen[r].revision

Recheck(w, r) ==
  /\ At(w, "rechecking") /\ batch # None
  /\ r \in DOMAIN work[w].seen
  /\ LET rest == Restrict(work[w].seen, DOMAIN work[w].seen \ {r})
     IN IF Unrevised(w, r)
        THEN /\ row' = [row EXCEPT ![r].inclusion = work[w].seen[r].inclusion,
                                   ![r].status = work[w].seen[r].status, ![r].recheck = FALSE]
             /\ Wrote({r})
             /\ Goes(w, [work[w] EXCEPT !.seen = rest, !.checked = TRUE])
        ELSE /\ Goes(w, [work[w] EXCEPT !.seen = rest])
             /\ UNCHANGED <<row, request>>
  /\ UNCHANGED <<batch, decisions, rules, screen, attempt, answer>>

EndRecheck(w) ==
  /\ At(w, "rechecking") /\ DOMAIN work[w].seen = {}
  /\ IF work[w].checked THEN WroteBatch ELSE UNCHANGED request
  /\ Ends(w)
  /\ UNCHANGED <<batch, staged, rules, screen, attempt, answer>>

\* The rule editor, or another batch, activates another revision.
ChangeRules ==
  /\ rules' \in RuleSets \ {rules}
  /\ UNCHANGED <<batch, staged, work, publishing>>

\* A guided rule of this batch does so, and goes on to apply the rules to it.
GuideRule(w) ==
  /\ work[w] = None /\ batch # None
  /\ rules' \in RuleSets \ {rules}
  /\ Goes(w, [stage |-> "guided"])
  /\ UNCHANGED <<batch, staged, publishing>>

Signature(d) == <<d.act, d.value>>
Signatures(r) == {Signature(decisions[r][i]) : i \in DOMAIN decisions[r]}
ByRule(r) == {Signature(decisions[r][i]) : i \in {j \in DOMAIN decisions[r] : decisions[r][j].by = "RULE"}}
Proposed(r) == IF rules[r] = None THEN {} ELSE {Signature(rules[r])}

\* What the rules no longer say, and what the row does not have yet, once the
\* former is gone.
StartAutomation(w) ==
  /\ work[w] = None \/ At(w, "guided")
  /\ batch # None
  /\ Goes(w, [stage |-> "clearing", only |-> work[w] # None,
              gone |-> [r \in Rows |-> ByRule(r) \ Proposed(r)],
              fresh |-> [r \in Rows |-> Proposed(r) \ Signatures(r)]])
  /\ UNCHANGED <<batch, staged, rules, publishing>>

\* The decisions of a history that stay when those of rules that say gone are
\* deleted, in their order.
Staying(history, gone) ==
  {i \in DOMAIN history : ~(history[i].by = "RULE" /\ Signature(history[i]) \in gone)}
Place(kept, i) == Cardinality({j \in kept : j <= i})
Without(history, gone) ==
  LET kept == Staying(history, gone)
  IN [n \in 1 .. Cardinality(kept) |-> history[CHOOSE i \in kept : Place(kept, i) = n]]

ClearRules(w) ==
  /\ At(w, "clearing") /\ batch # None
  /\ decisions' = [r \in Rows |->
       IF work[w].gone[r] = {} THEN decisions[r] ELSE Without(decisions[r], work[w].gone[r])]
  /\ Goes(w, [work[w] EXCEPT !.stage = "creating"])
  /\ UNCHANGED <<batch, row, rules, publishing>>

\* Neither the deletion nor the creation touches the rows.
CreateRules(w) ==
  /\ At(w, "creating") /\ batch # None
  /\ decisions' = [r \in Rows |->
       IF work[w].fresh[r] = {} THEN decisions[r]
       ELSE LET s == CHOOSE s \in work[w].fresh[r] : TRUE
            IN Append(decisions[r], [act |-> s[1], value |-> s[2], by |-> "RULE", onto |-> 0])]
  /\ Goes(w, [stage |-> "reread", pending |-> FALSE,
              rows |-> IF ~work[w].only THEN Rows
                       ELSE {r \in Rows : work[w].fresh[r] # {} \/ work[w].gone[r] # {}}])
  /\ UNCHANGED <<batch, row, rules, publishing>>
-----------------------------------------------------------------------------
(* Publication.                                                             *)

Fingerprint ==
  [status |-> batch.status,
   rows |-> [r \in Rows |-> <<row[r].inclusion, row[r].revision, row[r].attempt>>]]

Pending(r) == row[r].inclusion = "INCLUDED" /\ row[r].attempt = None

\* A mutant of Blocked: a row need not wait for its recheck.
BlockedByFindings(r) == Active(r, "error") \/ UnmatchedStill(r) \/ r \in Ambiguous

Blocked(r) == row[r].recheck \/ Active(r, "error") \/ UnmatchedStill(r) \/ r \in Ambiguous

Candidates(mode) ==
  {r \in Rows : /\ Pending(r) /\ ~Blocked(r)
                /\ mode = "VALID_ONLY" => row[r].status = "VALID"}

Eligible(mode) ==
  IF mode = "ALL_RESOLVED" /\ \E r \in Rows : Pending(r) /\ Blocked(r) THEN {} ELSE Candidates(mode)

\* The QA page with a fresh key, or the automation of a sync (auto), whose key is
\* the fingerprint.  Of the candidates all, or those chosen, are to be published.
Review(k) ==
  /\ screen[k] = None /\ batch # None
  /\ \E mode \in {"ALL_RESOLVED", "VALID_ONLY"}, auto \in BOOLEAN :
     \E chosen \in {None} \cup ((SUBSET Candidates(mode)) \ {{}}) :
       /\ auto => /\ mode = "VALID_ONLY" /\ chosen # None
                  /\ \A j \in Keys : (screen[j] # None /\ screen[j].auto) => screen[j].print # Fingerprint
       /\ screen' = [screen EXCEPT ![k] =
            [print |-> Fingerprint, mode |-> mode, auto |-> auto, chosen |-> chosen,
             showed |-> [r \in Rows |-> OutcomeOf(r)]]]
  /\ UNCHANGED <<batch, staged, rules, work, request, attempt, answer>>

Answers(k, what) == answer' = [answer EXCEPT ![k] = what]
Chosen(k) == screen[k].chosen # None => screen[k].chosen \subseteq Candidates(screen[k].mode)

\* A request, or a retry of it, arrives.  The endpoint compares the
\* fingerprint before it looks for the key; the automation does not.
Post(q, k) ==
  /\ request[q] = None /\ screen[k] # None /\ batch # None
  /\ IF ~screen[k].auto /\ ~(screen[k].print = Fingerprint /\ Chosen(k))
     THEN Answers(k, "stale") /\ UNCHANGED request
     ELSE /\ request' = [request EXCEPT ![q] = [stage |-> "posted", key |-> k]]
          /\ UNCHANGED answer
  /\ UNCHANGED <<batch, staged, rules, work, screen, attempt>>

\* A mutant of Fresh: the transaction trusts the endpoint.
FreshAlways(k) == TRUE

\* The transaction rebuilds the QA.
Fresh(k) == screen[k].print = Fingerprint

\* A mutant of Remaining: the rows that are blocked do not count.
RemainingUnblocked(S) == {r \in Rows : Pending(r) /\ ~Blocked(r)} \ S

\* The included rows that are unpublished once S is published.
Remaining(S) == {r \in Rows : Pending(r)} \ S

\* The key is in the database: its attempt committed.
Used(k) == DOMAIN attempt[k] # {}

\* What the transaction reads and what it will write.
Snapshot(k) ==
  LET S == IF screen[k].chosen = None THEN Eligible(screen[k].mode) ELSE screen[k].chosen
  IN [stage |-> "open", key |-> k, doomed |-> FALSE, rows |-> S,
      writes |-> [r \in S |-> OutcomeOf(r)],
      status |-> IF Remaining(S) = {} THEN "PUBLISHED" ELSE "PARTIALLY_PUBLISHED",
      published |-> Cardinality({r \in Rows : /\ row[r].inclusion = "INCLUDED"
                                              /\ r \in S \/ row[r].attempt # None})]

Open(q) ==
  /\ request[q] # None /\ request[q].stage = "posted"
  /\ LET k == request[q].key
         Ended(what) == Answers(k, what) /\ request' = [request EXCEPT ![q] = None]
     IN IF batch = None THEN Ended("failed")
        ELSE IF Used(k) THEN Ended("published")
        ELSE IF ~Fresh(k) THEN Ended("stale")
        ELSE IF Eligible(screen[k].mode) = {} \/ ~Chosen(k) THEN Ended("failed")
        ELSE request' = [request EXCEPT ![q] = Snapshot(k)] /\ UNCHANGED answer
  /\ UNCHANGED <<batch, staged, rules, work, screen, attempt>>

\* A mutant of MayCommit: read committed instead of serializable.
MayCommitDoomed(q) == ~Used(request[q].key)

MayCommit(q) == ~Used(request[q].key) /\ ~request[q].doomed

Commit(q) ==
  /\ request[q] # None /\ request[q].stage = "open" /\ MayCommit(q)
  /\ LET t == request[q]
     IN /\ row' = [r \in Rows |-> IF r \in t.rows THEN [row[r] EXCEPT !.attempt = t.key] ELSE row[r]]
        /\ batch' = [status |-> t.status, published |-> t.published]
        /\ attempt' = [attempt EXCEPT ![t.key] = t.writes]
        /\ Answers(t.key, "published")
        /\ request' = [p \in Requests |->
             IF p = q THEN None
             ELSE IF request[p] # None /\ request[p].stage = "open" THEN [request[p] EXCEPT !.doomed = TRUE]
             ELSE request[p]]
  /\ UNCHANGED <<decisions, rules, work, screen>>

\* Any statement may fail.  A unique violation looks for the key once more.
Rollback(q) ==
  /\ request[q] # None /\ request[q].stage = "open"
  /\ \E what \in {"failed", "published"} :
       /\ what = "published" => Used(request[q].key)
       /\ Answers(request[q].key, what)
  /\ request' = [request EXCEPT ![q] = None]
  /\ UNCHANGED <<batch, staged, rules, work, screen, attempt>>
-----------------------------------------------------------------------------
(* Removal of a batch.                                                      *)

StartDelete(w) ==
  /\ work[w] = None /\ batch # None
  /\ batch.published = 0 /\ \A k \in Keys : ~Used(k)
  /\ Goes(w, [stage |-> "deleting"])
  /\ UNCHANGED <<batch, staged, rules, publishing>>

\* A mutant of Restricts: the attempts would go with their batch.
RestrictsNothing == FALSE

\* The foreign key of the attempts is ON DELETE RESTRICT.
Restricts == \E k \in Keys : Used(k)

Delete(w) ==
  /\ At(w, "deleting")
  /\ IF batch = None \/ Restricts THEN UNCHANGED <<batch, request>>
     ELSE batch' = None /\ WroteBatch
  /\ Ends(w)
  /\ UNCHANGED <<staged, rules, screen, attempt, answer>>

\* A handler whose batch is gone fails; with Losses its process may die.
Abort(w) ==
  /\ work[w] # None /\ (Losses \/ batch = None)
  /\ Ends(w)
  /\ UNCHANGED <<batch, staged, rules, publishing>>
-----------------------------------------------------------------------------
Correct(w) == Preview(w) \/ Apply(w) \/ Write(w) \/ Confirm(w) \/ OverlayRead(w) \/ OverlayWrite(w)
Verify(w) == StartVerify(w) \/ PlanFirmware(w) \/ Agree(w) \/ WriteVerify(w)
Maintain(w) ==
  \/ StartRecheck(w) \/ Reread(w) \/ (\E r \in Rows : Recheck(w, r)) \/ EndRecheck(w)
  \/ GuideRule(w) \/ StartAutomation(w) \/ ClearRules(w) \/ CreateRules(w)
Remove(w) == StartDelete(w) \/ Delete(w) \/ Abort(w)

Next ==
  \/ \E w \in Workers : Correct(w) \/ Verify(w) \/ Maintain(w) \/ Remove(w)
  \/ ChangeRules
  \/ \E k \in Keys : Review(k) \/ \E q \in Requests : Post(q, k)
  \/ \E q \in Requests : Open(q) \/ Commit(q) \/ Rollback(q)

Spec == Init /\ [][Next]_vars
-----------------------------------------------------------------------------
\* A row is published by one attempt at most, the one it names: retries,
\* duplicate requests and partial publications never write a device twice.
PublishedOnce ==
  \A r \in DOMAIN row, k \in DOMAIN attempt : r \in DOMAIN attempt[k] <=> row[r].attempt = k

\* Two outcomes differ in nothing but what rules say in one of them.
RulesApart(shown, written) ==
  /\ "RULE" \notin {shown.set, written.set} => shown.value = written.value /\ shown.set = written.set
  /\ "RULE" \notin {shown.match, written.match} => shown.match = written.match
  /\ "RULE" \notin {shown.excluded, written.excluded} => shown.excluded = written.excluded

\* What a publication wrote of a row is what the QA it was requested from
\* showed, but for the decisions of rules: the fingerprint of the QA pins those
\* of engineers, whatever the automation decides in between.  What rules decide
\* raises no revision, and docs/importer-v2-publication.md:7 claims more.
PublishedAsShown ==
  \A k \in DOMAIN attempt : \A r \in DOMAIN attempt[k] :
    RulesApart(screen[k].showed[r], attempt[k][r])

\* A row is published once, by one key, and with the decisions of engineers that
\* the preview showed which was confirmed.
RowsArePublishedAsShown == PublishedOnce /\ PublishedAsShown

\* A row that an engineer excluded is never published, whatever rules say and
\* whichever handler still holds an earlier state of the row.  An exclusion by
\* a rule is recorded before the row is excluded, and keeps the row out only
\* from then on: docs/importer-v2-publication.md:17 claims more.
ExcludedStaysOut ==
  \A k \in DOMAIN attempt : \A r \in DOMAIN attempt[k] : attempt[k][r].excluded # "ENGINEER"

\* Each correction was previewed on the revision it was applied to: no two of
\* a row build on the same one.
CorrectionsBuildOnEachOther ==
  \A r \in DOMAIN row : \A i, j \in DOMAIN decisions[r] :
    (i # j /\ decisions[r][i].by = "ENGINEER" /\ decisions[r][j].by = "ENGINEER")
      => decisions[r][i].onto # decisions[r][j].onto

\* A batch that is PUBLISHED has no included row left to publish, whatever was
\* corrected, excluded or published meanwhile.
PublishedIsComplete ==
  (batch # None /\ batch.status = "PUBLISHED") => \A r \in Rows : ~Pending(r)

\* The history of publications keeps its batch.
HistoryKeepsItsBatch == batch = None => \A k \in DOMAIN attempt : ~Used(k)

\* When no handler is at work, a row that waits for no recheck has the status
\* and the inclusion its decisions give it.  A row that may repeat several is
\* in review once it is recomputed; until then it has the status it was staged
\* or confirmed with, and Blocked keeps it from being published.
StatusIsCurrent ==
  (\A w \in DOMAIN work : work[w] = None) =>
    \A r \in DOMAIN row : ~row[r].recheck =>
      /\ \/ row[r].status = Recomputed(r)
         \/ r \in Ambiguous /\ row[r].status = StatusOf(r, IsExcluded(r), UnmatchedStill(r), FALSE)
      /\ IsExcluded(r) => row[r].inclusion = "EXCLUDED"

\* One handler at a time, none of which dies: corrections of a row build on each
\* other, and a stored status is the one its findings and decisions call for,
\* whatever rules are activated and whatever is published meanwhile.
TurnsAddUp ==
  (~Losses /\ \A v, w \in DOMAIN work : v = w) => CorrectionsBuildOnEachOther /\ StatusIsCurrent

\* A request whose key was published is never told that its QA is stale.
RetriesAreAnswered == \A k \in Keys : answer[k] = "stale" => ~Used(k)

\* A publication commits what its rows are worth when it commits, not what
\* they were worth when it began: included, checked, with the decisions that
\* engineers made by then, and resolved unless a rule spoke or fell silent in
\* between.  And it never revises an earlier one.
CommitIsCurrent ==
  \A k \in DOMAIN attempt : attempt'[k] # attempt[k] =>
    /\ ~Used(k)
    /\ \A r \in DOMAIN attempt'[k] :
         /\ RulesApart(attempt'[k][r], OutcomeOf(r))
         /\ Pending(r) /\ ~row[r].recheck /\ r \notin Ambiguous
         /\ attempt'[k][r] = OutcomeOf(r) => Recomputed(r) # "NEEDS_REVIEW"

PublicationsAreCurrent == [][CommitIsCurrent]_vars
=============================================================================
