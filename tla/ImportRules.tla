---------------------------- MODULE ImportRules ----------------------------
(* The rule book and the remembered mappings of one import source, and the  *)
(* ways engineers change them: the guided rule (importer-v2-rule-wizard-    *)
(* store.ts), the scoped rule and the exact mapping of the workspace        *)
(* (-workspace-store.ts), the management of rules (-automation-admin-       *)
(* store.ts), all written by -rule-store.ts.                                *)
EXTENDS RuleEngine

CONSTANTS
  Engineers,
  Rows,           \* the staged rows of the batch
  Values,         \* their values, which never change
  Guided,         \* inputs of the guided rule
  Scoped,         \* scoped rules of the workspace
  Asks, Managers, \* bound: which rules each engineer asks for, and who manages them
  RuleId,         \* of a guided or scoped rule, the place of its id in the order
  MappingKeys, Targets,
  MaxRevisions, MaxEdits, MaxVersions   \* bounds of the model

\* A request is of one kind, and what is managed is no request.
ASSUME RulesAssumption == Guided \cap Scoped = {} /\ None \notin Guided \cup Scoped

\* The fields of a source and of a row have the names the engine knows.
ASSUME InputsAssumption ==
  /\ DOMAIN Context \subseteq Dimensions
  /\ \A t \in Texts : IsText(NormalOf(t))
  /\ \A row \in Rows : IsStaged(Values[row])
  /\ \A ask \in Guided : /\ ask.field \in Fields /\ ask.value \in Texts
                         /\ ask.scope \in {"profile"} \cup (Dimensions \cap Fields)
  /\ \A ask \in Scoped : ask.field \in Fields /\ ask.value \in Texts /\ IsScope(ask.scopes)
  /\ \A ask \in Guided \cup Scoped : RuleId[ask] \in Int /\ IsList(ask.actions)

VARIABLES
  book,       \* the revisions of the rule book; none before the book exists
  active,     \* the active revision
  attached,   \* the batch points to the book
  rows,       \* per row, whether it is included and how often it was reviewed
  memory,     \* per mapping key, the versions of its mapping
  desk        \* what each engineer is at

rulesVars == <<book, active, attached, rows, memory, desk>>
bookVars == <<book, active, attached>>

NoScreen == [edits |-> <<>>, base |-> 0, rule |-> None, hit |-> {}, clash |-> {}]
AtRest == [at |-> "idle", ask |-> None, about |-> None, shown |-> NoScreen, next |-> {}, latest |-> 0]

RulesInit ==
  /\ book = <<>> /\ active = 0 /\ attached = FALSE
  /\ rows = [r \in Rows |-> [included |-> TRUE, edits |-> 0]]
  /\ memory = [k \in MappingKeys |-> <<>>]
  /\ desk = [e \in Engineers |-> AtRest]

Included == {r \in Rows : rows[r].included}
-----------------------------------------------------------------------------
(* The rule a request asks for.                                             *)

\* A scope by customer, vendor or model takes the value of the row at hand,
\* and falls away when the row has none.
GuidedScope(ask, values, written) ==
  LET own == IF ask.scope = "profile" \/ NormalOf(values[ask.scope]) = None THEN {} ELSE {ask.scope}
      dims == DOMAIN Context \cup own \cup (IF written = {} THEN {} ELSE {"sourceFields"})
  IN [d \in dims |-> IF d \in DOMAIN Context THEN {Context[d]}
                     ELSE IF d = "sourceFields" THEN written ELSE {NormalOf(values[d])}]

\* The id is made of the request alone, not of the row the scope was taken from.
GuidedRule(ask, row) ==
  [id |-> RuleId[ask], version |-> 1, priority |-> 100, status |-> "ACTIVE",
   scope |-> GuidedScope(ask, Values[row], UNION {ActionFields(ask.actions[i]) : i \in DOMAIN ask.actions}),
   when |-> [all |-> TRUE, items |-> {[field |-> ask.field, operator |-> ask.operator,
                                       value |-> NormalOf(ask.value), exactCase |-> FALSE]}],
   actions |-> ask.actions]

\* The id of a saved scoped rule is made of its preview, so of the revision it
\* was previewed on.
ScopedRule(ask) ==
  [id |-> 100 * active + RuleId[ask], version |-> 1, priority |-> 100, status |-> "ACTIVE",
   scope |-> ask.scopes,
   when |-> [all |-> TRUE, items |-> {[field |-> ask.field, operator |-> "NORMALIZED_EXACT",
                                       value |-> ask.value, exactCase |-> FALSE]}],
   actions |-> ask.actions]

\* What a preview shows, and what its token stands for.
Shown(results, rule, hit, seen) ==
  [edits |-> [r \in seen |-> rows[r].edits], base |-> active, rule |-> rule, hit |-> hit,
   clash |-> UNION {results[r].conflicts : r \in hit}]
Hit(results, rule) == {r \in DOMAIN results : TouchedBy(results[r], rule)}

\* The token of a guided rule stands for all rows, that of a scoped rule for the
\* rows it touches.
PreviewOf(results, rule, hit, kind) == Shown(results, rule, hit, IF kind = "guided" THEN Included ELSE hit)
PreviewFrom(results, rule, kind) == PreviewOf(results, rule, Hit(results, rule), kind)
Preview(base, rule, kind) ==
  PreviewFrom([r \in Included |-> Evaluated(Candidate(base, rule), Values[r])], rule, kind)

GuidedPreview(ask, row, base) == Preview(base, GuidedRule(ask, row), "guided")
ScopedPreview(ask) == Preview(book[active], ScopedRule(ask), "scoped")
-----------------------------------------------------------------------------
(* Guided rules.                                                            *)

\* The book of the source is made when it is first needed, with an empty revision.
EnsureBook ==
  /\ attached' = TRUE
  /\ IF book = <<>> THEN book' = <<{}>> /\ active' = 1 ELSE UNCHANGED <<book, active>>

\* The row at hand only matters to a scope taken from it.
ShowGuided(e, ask, row) ==
  /\ desk[e].at = "idle"
  /\ ValidRule(GuidedRule(ask, row))
  /\ EnsureBook
  /\ desk' = [desk EXCEPT ![e] = [AtRest EXCEPT !.at = "shown", !.ask = ask, !.about = IF ask.scope = "profile" THEN None ELSE row, !.shown =
       [GuidedPreview(ask, row, IF book = <<>> THEN {} ELSE book[active]) EXCEPT !.base = active']]]
  /\ UNCHANGED <<rows, memory>>

\* Everything is read again and must be what was shown.
UnchangedRows(shown, now) == now.edits = shown.edits
Unchanged(shown, now) == now = shown
Usable(now) == now.hit # {} /\ now.clash = {}

Checked(d, now) ==
  IF Unchanged(d.shown, now) /\ Usable(now)
  THEN [d EXCEPT !.at = "based", !.next = Candidate(book[active], now.rule)] ELSE AtRest

CheckGuided(e) ==
  /\ desk[e].at = "shown" /\ desk[e].ask \in Guided
  /\ desk' = [desk EXCEPT ![e] = Checked(@, GuidedPreview(@.ask, @.about, book[active]))]
  /\ UNCHANGED <<bookVars, rows, memory>>
-----------------------------------------------------------------------------
(* Scoped rules, and the management of rules.                               *)

ShowThe(e, ask, shown) ==
  /\ shown.hit # {}
  /\ desk' = [desk EXCEPT ![e] = [AtRest EXCEPT !.at = "shown", !.ask = ask, !.shown = shown]]

ShowScoped(e, ask) ==
  /\ desk[e].at = "idle" /\ attached
  /\ ShowThe(e, ask, ScopedPreview(ask))
  /\ UNCHANGED <<bookVars, rows, memory>>

CheckScoped(e) ==
  /\ desk[e].at = "shown" /\ desk[e].ask \in Scoped
  /\ desk' = [desk EXCEPT ![e] = IF Unchanged(desk[e].shown, ScopedPreview(desk[e].ask))
                                 THEN [desk[e] EXCEPT !.at = "resolved"] ELSE AtRest]
  /\ UNCHANGED <<bookVars, rows, memory>>

\* The rule book is read once more before the rule is written.
BaseScoped(e) ==
  /\ desk[e].at = "resolved"
  /\ desk' = [desk EXCEPT ![e] =
       IF active = desk[e].shown.base
       THEN [desk[e] EXCEPT !.at = "based", !.next = Candidate(book[active], desk[e].shown.rule)] ELSE AtRest]
  /\ UNCHANGED <<bookVars, rows, memory>>

\* A rule is enabled, disabled or removed, on the revision read now.
Managed(rule, to) == [rule EXCEPT !.status = IF to = "ENABLE" THEN "ACTIVE" ELSE "DISABLED"]
Manage(e, to) ==
  /\ desk[e].at = "idle" /\ book # <<>>
  /\ \E rule \in book[active] :
       desk' = [desk EXCEPT ![e] = [AtRest EXCEPT !.at = "based", !.next =
         (book[active] \ {rule}) \cup (IF to = "REMOVE" THEN {} ELSE {Managed(rule, to)})]]
  /\ UNCHANGED <<bookVars, rows, memory>>

\* A rule set is replaced as a whole: the next version is counted, then written
\* if nobody has taken it.
CountRevisions(e) ==
  /\ desk[e].at = "based"
  /\ desk' = [desk EXCEPT ![e].at = "counted", ![e].latest = Len(book)]
  /\ UNCHANGED <<bookVars, rows, memory>>

IsFree(versions, latest) == Len(versions) = latest

SaveRevision(e) ==
  LET d == desk[e]
  IN /\ d.at = "counted" /\ Len(book) < MaxRevisions
     /\ IF IsFree(book, d.latest)
        THEN /\ book' = Append(book, d.next) /\ active' = d.latest + 1
             /\ desk' = [desk EXCEPT ![e] = IF d.ask \in Scoped THEN [d EXCEPT !.at = "saved"] ELSE AtRest]
        ELSE /\ desk' = [desk EXCEPT ![e] = AtRest]
             /\ UNCHANGED <<book, active>>
     /\ UNCHANGED <<attached, rows, memory>>

\* The decision of a scoped rule reviews the rows it was resolved to.
Decide(e) ==
  /\ desk[e].at = "saved"
  /\ rows' = [r \in Rows |-> IF r \in desk[e].shown.hit THEN [rows[r] EXCEPT !.edits = @ + 1] ELSE rows[r]]
  /\ desk' = [desk EXCEPT ![e] = AtRest]
  /\ UNCHANGED <<bookVars, memory>>

\* Meanwhile rows are reviewed and left out.
EditRow(r) ==
  /\ rows[r].included /\ \A s \in Rows : rows[s].edits < MaxEdits
  /\ \E in \in BOOLEAN : rows' = [rows EXCEPT ![r] = [included |-> in, edits |-> @.edits + 1]]
  /\ UNCHANGED <<bookVars, memory, desk>>
-----------------------------------------------------------------------------
(* Remembered mappings: a new version retires the one before it.            *)

Latest(k) == IF memory[k] = <<>> THEN [target |-> None, isActive |-> FALSE] ELSE memory[k][Len(memory[k])]

\* The latest version is read; forgetting needs one that is active.
Recall(e, k, target) ==
  /\ desk[e].at = "idle"
  /\ target = None => Latest(k).isActive
  /\ desk' = [desk EXCEPT ![e] = [AtRest EXCEPT !.at = "recalled", !.ask = k, !.about = target,
                                              !.latest = Len(memory[k])]]
  /\ UNCHANGED <<bookVars, rows, memory>>

RetiredNever(versions, latest) == versions
Retired(versions, latest) ==
  [i \in DOMAIN versions |-> IF i = latest THEN [versions[i] EXCEPT !.isActive = FALSE] ELSE versions[i]]

SaveMapping(e) ==
  LET d == desk[e]
      k == d.ask
      target == IF d.about = None THEN memory[k][d.latest].target ELSE d.about
  IN /\ d.at = "recalled" /\ Len(memory[k]) < MaxVersions
     /\ memory' = IF IsFree(memory[k], d.latest)
                  THEN [memory EXCEPT ![k] = Append(Retired(memory[k], d.latest),
                                                    [target |-> target, isActive |-> d.about # None])]
                  ELSE memory
     /\ desk' = [desk EXCEPT ![e] = AtRest]
     /\ UNCHANGED <<bookVars, rows>>

\* An engineer closes the preview, or a process dies.
Leave(e) ==
  /\ desk[e].at # "idle"
  /\ desk' = [desk EXCEPT ![e] = AtRest]
  /\ UNCHANGED <<bookVars, rows, memory>>

RulesNext ==
  \/ \E e \in Engineers :
       \/ \E ask \in Guided \cap Asks[e], row \in Rows : ShowGuided(e, ask, row)
       \/ \E ask \in Scoped \cap Asks[e] : ShowScoped(e, ask)
       \/ \E to \in {"ENABLE", "DISABLE", "REMOVE"} : e \in Managers /\ Manage(e, to)
       \/ \E k \in MappingKeys, target \in Targets \cup {None} : Recall(e, k, target)
       \/ CheckGuided(e) \/ CheckScoped(e) \/ BaseScoped(e) \/ CountRevisions(e)
       \/ SaveRevision(e) \/ Decide(e) \/ SaveMapping(e) \/ Leave(e)
  \/ \E r \in Rows : EditRow(r)

RulesSpec == RulesInit /\ [][RulesNext]_rulesVars
-----------------------------------------------------------------------------
(* Properties.                                                              *)

AllMatching(rules, values) ==
  {r \in rules : r.status = "ACTIVE" /\ ScopeMatches(r, values) /\ WhenMatches(r.when, values)}
Outranks(r, s) ==
  \/ r.priority > s.priority
  \/ r.priority = s.priority /\ Specificity(r) > Specificity(s)
Wishes(rules, slot) ==
  UNION {{Signature(r.actions[i]) : i \in {j \in DOMAIN r.actions : slot \in Slots(r.actions[j])}} : r \in rules}
Best(rules, slot) ==
  {r \in rules : /\ Wishes({r}, slot) # {}
                 /\ ~\E s \in rules : Wishes({s}, slot) # {} /\ Outranks(s, r)}
Disputed(rules, slot) == \E v, w \in Wishes(Best(rules, slot), slot) : v # w
Wins(e, r, i) == \E c \in e.winners : c.rule = r /\ c.index = i

\* What is reported, and which actions win, found without the index.
SelectedByRank(rules, values) ==
  LET e == Evaluated(rules, values)
      matching == AllMatching(rules, values)
  IN /\ \A slot \in Fields \cup {"row:inclusion", "row:device-match"} :
          slot \in e.conflicts <=> Disputed(matching, slot)
     /\ \A r \in rules : \A i \in DOMAIN r.actions :
          Wins(e, r, i) <=> /\ r \in matching
                            /\ \A slot \in Slots(r.actions[i]) :
                                 r \in Best(matching, slot) /\ ~Disputed(matching, slot)

\* A field that no action won.
KeptAsStaged(rules, values) ==
  LET e == Evaluated(rules, values)
  IN \A f \in Fields : (\A c \in e.winners : f \notin Slots(c.action)) => e.row.values[f] = values[f]

SelectsByRank == book' # book => \A row \in Rows : SelectedByRank(book'[active'], Values[row])
KeepsAsStaged == book' # book => \A row \in Rows : KeptAsStaged(book'[active'], Values[row])

ActivatesAsShown ==
  \A e \in Engineers :
    LET shown == desk[e].shown
    IN (desk[e].at = "counted" /\ desk[e].ask \in Guided \cup Scoped /\ Len(book') > Len(book)
        /\ desk'[e] # desk[e])
       => /\ book'[active'] = {r \in book[shown.base] : r.id # shown.rule.id} \cup {shown.rule}
          /\ desk[e].ask \in Guided => shown.hit # {} /\ shown.clash = {}

\* Under every rule set that becomes active, the actions that are applied to a
\* row are those that no matching rule of the set outranks on any of the slots
\* they write, found without the index, when the best rules of each of these
\* slots want the same.  Where they do not, the slot is reported; and a field
\* nothing won stays as staged.  (chooseSlotWinners, candidateIndexes)
\* A guided or scoped rule becomes active on exactly the rule set it was shown
\* on; a guided one was shown to touch a row and to contest no other rule.
\* (applyImporterV2GuidedRule, persistReusableDecision)
RulesDecide == [][SelectsByRank /\ KeepsAsStaged /\ ActivatesAsShown]_rulesVars

\* Of the versions of a remembered mapping only the latest can be active, whoever
\* remembers and forgets at the same time.  (rememberImporterV2ExactMapping,
\* deactivateImporterV2ExactMapping)
MemoryHasOneVoice ==
  \A k \in MappingKeys : \A i \in DOMAIN memory[k] : memory[k][i].isActive => i = Len(memory[k])
=============================================================================
