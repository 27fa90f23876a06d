------------------------ MODULE FirmwareGovernance ------------------------
(* What is wanted of the firmware of devices, and what is thought of it:    *)
(* desired policies, evidence of compatibility, accepted exceptions and the *)
(* assumptions a work plan froze, over a catalog and an inventory that      *)
(* change under them.  The state of a device is never stored: every reader  *)
(* computes it anew from these tables.                                      *)
(*                                                                          *)
(* A write that first reads outside its transaction, or that confirms a     *)
(* preview, is two steps, with an engineer's task in between.               *)
EXTENDS FirmwareDecisions

CONSTANTS
  ReleaseIds,    \* releases: numbers
  Devices,       \* devices: numbers
  Models,        \* a function: the model of an id
  TrainRows,     \* trains of the catalog: [id, vendor, platform, state, preferred, minimum]
  Engineers,     \* who works on policies, overrides and exceptions
  Standings,     \* [state, eligibility] that a release may be given
  Platforms,     \* selections of platforms for a model
  RuleForms,     \* rules an engineer may enter
  SaveForms,     \* desired configurations an engineer may enter
  ExceptionForms,\* exceptions an engineer may enter: rows whose other columns are empty
  Outcomes,      \* what a lifecycle decision may say
  Sites,         \* where a device may be moved
  Targets,       \* the release of a bulk change
  Quarter,       \* the time to the next review
  MaxTime, MaxOverrides, MaxExceptions, MaxPlans, MaxChanges, \* bounds
  FirstCatalog, FirstDevices, FirstPolicies, FirstRules

VARIABLES
  now,           \* the clock; two writes of policies never share an instant
  catalog,       \* the release of an id
  devices,
  policies,      \* rows of FirmwarePolicy, the inactive ones too
  rules,         \* active rows of FirmwareCompatibilityRule
  overrides,     \* rows of FirmwareCompatibilityOverride, the inactive ones too
  exceptions,    \* rows of FirmwareException
  records,       \* the lifecycle record of a device, or None
  plans,         \* what work plans in progress froze of their devices
  desk,          \* the task an engineer is in the middle of, or Nothing
  changes        \* counts the changes of catalog, inventory and evidence

governanceVars == <<now, catalog, devices, policies, rules, overrides, exceptions, records, plans, desk, changes>>

Nothing == [task |-> "none"]

\* The rows of the tables, by the columns the decisions read.
IsDevice(device) ==
  /\ device = [model |-> device.model, customer |-> device.customer, site |-> device.site,
               release |-> device.release, version |-> device.version]
  /\ device.model \in DOMAIN Models

PolicyColumns ==
  {"id", "active", "track", "default", "legacy", "mode", "platform", "minimum", "target", "maximum", "train",
   "minimumInclusive", "maximumInclusive", "from", "version", "model", "family", "customer", "site", "device"}

\* Whoever writes a policy of a model, without a narrower scope, writes it on
\* the default track (firmware-policy-store.ts: there are two writers).
IsPolicy(p) ==
  /\ DOMAIN p = PolicyColumns
  /\ p.from \in Nat /\ p.version \in Nat /\ p.model \in DOMAIN Models \cup {None}
  /\ p.model # None => p.family = None
  /\ p.model # None /\ p.customer = None /\ p.site = None /\ p.device = None =>
       p.default /\ p.track = "default" /\ ~p.legacy

\* Rows are numbered one after another.
AreNumbered(S) == (\A p \in S : p.id \in 1 .. Cardinality(S)) /\ \A p, q \in S : p.id = q.id => p = q

\* The columns of an exception, entered or not.
ExceptionColumns ==
  {"id", "scope", "scopeId", "duration", "decided", "expires", "superseded", "snapshots", "shown"}

\* What a release may become.
Standing(i) ==
  {FirstCatalog[i]} \cup {[FirstCatalog[i] EXCEPT !.state = s.state, !.eligibility = s.eligibility] : s \in Standings}

\* Releases, models, versions and instants are numbers, NULL is no number and no
\* outcome, and the tables at the start hold rows under their own ids.
GovernanceConstants ==
  /\ ReleaseIds \subseteq Nat /\ IsFiniteSet(ReleaseIds) /\ None \notin Nat \cup {"RESOLVED"} /\ MaxTime \in Nat
  /\ DOMAIN Models \subseteq Nat /\ IsFiniteSet(DOMAIN Models) /\ \A m \in DOMAIN Models : Models[m].id = m
  /\ FirstCatalog = [i \in ReleaseIds |-> FirstCatalog[i]]
  /\ \A i \in ReleaseIds : \A r \in Standing(i) : r # None /\ r.id = i
  /\ FirstDevices = [d \in Devices |-> FirstDevices[d]] /\ \A d \in Devices : IsDevice(FirstDevices[d])
  /\ IsFiniteSet(FirstPolicies) /\ \A p \in FirstPolicies : IsPolicy(p)
  /\ AreNumbered(FirstPolicies)
  /\ \A form \in ExceptionForms :
       ExceptionColumns \subseteq DOMAIN form /\ \E i \in DOMAIN ScopeOrder : ScopeOrder[i] = form.scope

ASSUME GovernanceAssumption == GovernanceConstants

GovernanceInit ==
  /\ now = 1 /\ catalog = FirstCatalog /\ devices = FirstDevices
  /\ policies = FirstPolicies /\ rules = FirstRules
  /\ overrides = {} /\ exceptions = {} /\ records = [d \in Devices |-> None] /\ plans = {}
  /\ desk = [e \in Engineers |-> Nothing] /\ changes = 0
-----------------------------------------------------------------------------
(* The facts of a device: resolveFirmwareComplianceBatch.                   *)

Catalog == {catalog[i] : i \in ReleaseIds}
ReleaseOf(id) == IF id \in ReleaseIds THEN catalog[id] ELSE None
ModelOf(d) == Models[devices[d].model]
Context(d) == [id |-> d, customer |-> devices[d].customer, site |-> devices[d].site,
               model |-> devices[d].model, family |-> ModelOf(d).family]

CompatibilityWith(model, r) == Compatibility(model, r, rules, overrides, now)

\* The linked release, or the one the observed version names.
CurrentRelease(d) ==
  IF devices[d].release # None THEN ReleaseOf(devices[d].release)
  ELSE ObservedRelease(ModelOf(d), devices[d].version, Catalog)

\* catalogDefaultPolicyForModel: the platform of the model, unless it has
\* several and prefers none.
CatalogPlatform(model) ==
  IF model.preferred \in model.platforms THEN model.preferred
  ELSE IF Cardinality(model.platforms) = 1 THEN Only(model.platforms) ELSE None

CatalogCandidates(model) ==
  {[id |-> t.id, state |-> t.state, minimum |-> t.minimum, preferred |-> ReleaseOf(t.preferred),
    compatibility |-> IF t.preferred = None THEN "UNKNOWN" ELSE CompatibilityWith(model, ReleaseOf(t.preferred)).status] :
     t \in {u \in TrainRows : u.vendor = model.vendor /\ u.platform = CatalogPlatform(model)}}

\* The policy a train stands for, numbered apart from the rows.
PolicyOfTrain(t, model) ==
  [id |-> -t.id, active |-> TRUE, track |-> "catalog", default |-> TRUE, legacy |-> FALSE,
   mode |-> IF t.minimum = None THEN "EXACT" ELSE "MINIMUM", platform |-> CatalogPlatform(model),
   minimum |-> t.minimum, target |-> t.preferred.id, maximum |-> None, train |-> t.id,
   minimumInclusive |-> TRUE, maximumInclusive |-> TRUE, from |-> 0, version |-> 1,
   model |-> IF model.family = None THEN model.id ELSE None, family |-> model.family,
   customer |-> None, site |-> None, device |-> None]

\* The policy of the train that answers, or why no train does.
PolicyOfAnswer(answer, preferred, model) ==
  CASE answer.train # None -> Resolved(PolicyOfTrain(answer.train, model), 0)
    [] answer.train = None /\ preferred = {} -> Unresolved("CATALOG_PREFERRED_TRAIN_UNRESOLVED")
    [] OTHER -> Unresolved(IF \A t \in preferred : t.preferred = None THEN "CATALOG_PREFERRED_RELEASE_UNRESOLVED"
                           ELSE IF answer.status = "NO_COMPATIBLE_TRAIN" THEN "NO_COMPATIBLE_CATALOG_TRAIN"
                           ELSE "CATALOG_COMPATIBILITY_UNRESOLVED")

CatalogDefault(model, current) ==
  LET Among(candidates) ==
        PolicyOfAnswer(TrainForDevice(candidates, IF current = None THEN None ELSE current.train),
                       {t \in candidates : t.state = "PREFERRED"}, model)
  IN IF CatalogPlatform(model) = None THEN Unresolved("CATALOG_PLATFORM_UNRESOLVED")
     ELSE Among(CatalogCandidates(model))

\* The catalog answers where no policy applies, not where policies conflict.
EffectivePolicy(d) ==
  LET Or(scoped) == IF scoped.reason = "NO_POLICY" THEN CatalogDefault(ModelOf(d), CurrentRelease(d)) ELSE scoped
  IN Or(PolicyAt(policies, Context(d), now))

PreferredRelease(p) ==
  IF p = None THEN None
  ELSE IF p.mode = "LATEST_APPROVED_IN_TRAIN" THEN LatestApproved(Catalog, p.train, p.platform)
  ELSE ReleaseOf(p.target)

ImageOf(d, preferred) ==
  IF preferred = None THEN [release |-> None, status |-> None]
  ELSE CompatibleImage(ModelOf(d), preferred, Catalog, rules, overrides, now)

FactsUnder(d, current, policy, preferred) ==
  LET Bound(field) == IF policy.policy = None THEN None ELSE ReleaseOf(policy.policy[field])
  IN [current |-> current, observed |-> devices[d].version # None, policy |-> policy, preferred |-> preferred,
      minimum |-> Bound("minimum"), maximum |-> Bound("maximum"),
      compatibility |-> IF current = None THEN None ELSE CompatibilityWith(ModelOf(d), current).status,
      image |-> ImageOf(d, preferred)]

Facts(d) ==
  LET Under(policy) == FactsUnder(d, CurrentRelease(d), policy, PreferredRelease(policy.policy))
  IN Under(EffectivePolicy(d))

Accepted(d) == SelectedException(exceptions, Context(d), Facts(d), now)
-----------------------------------------------------------------------------
(* Desired policies.                                                        *)

\* modelBaselineWhere
IsBaseline(p, m) == p.model = m /\ p.family = None /\ p.customer = None /\ p.site = None /\ p.device = None

\* A mutant of InForce: the newest row, even one that is not in force yet.
InForceEarly(m) ==
  LET S == {p \in policies : IsBaseline(p, m) /\ p.active /\ p.default}
  IN IF S = {} THEN None ELSE CHOOSE p \in S : \A q \in S \ {p} : Newer(p, q)

\* loadCurrentPolicies, getActiveModelDesiredPolicy
InForce(m) ==
  LET S == {p \in policies : IsBaseline(p, m) /\ p.active /\ p.from <= now /\ p.default}
  IN IF S = {} THEN None ELSE CHOOSE p \in S : \A q \in S \ {p} : Newer(p, q)

\* previewLogicalTargetCompatibilityForModels: only a known incompatibility
\* stands in the way of a wish.
CanApply(models, r) ==
  \A m \in models : CompatibleImage(Models[m], r, Catalog, rules, overrides, now).status # "INCOMPATIBLE"

\* previewTrainCompatibilityForModels: a release of each logical version.
TrainCanApply(models, train) ==
  LET eligible == {r \in Catalog : r.train = train /\ IsEligible(r)}
      Status(m, r) == CompatibleImage(Models[m], r, Catalog, rules, overrides, now).status
  IN \A m \in models : \E r \in eligible : Status(m, r) # "INCOMPATIBLE"

BaselineRow(m, fields) ==
  Over(fields,
       [id |-> Cardinality(policies) + 1, active |-> TRUE, track |-> "default", default |-> TRUE, legacy |-> FALSE,
        from |-> now, version |-> 1, mode |-> "EXACT", platform |-> None,
        minimum |-> None, maximum |-> None, train |-> None, target |-> None,
        minimumInclusive |-> TRUE, maximumInclusive |-> TRUE,
        model |-> m, family |-> None, customer |-> None, site |-> None, device |-> None])

\* The clock moves on with every write of policies; MaxTime bounds them.
Stamp == now < MaxTime /\ now' = now + 1
Take(e, task) == desk[e] = Nothing /\ desk' = [desk EXCEPT ![e] = task]
Leave(e) == desk' = [desk EXCEPT ![e] = Nothing]

\* bulkSetModelDesiredFirmwarePolicies, up to its transaction.
BeginSet(e, models, id) ==
  LET r == catalog[id]
      changed == {m \in models : InForce(m) = None \/ InForce(m).mode # "EXACT" \/ InForce(m).target # id}
  IN /\ IsEligible(r) /\ \A m \in models : Models[m].vendor = r.vendor
     /\ CanApply(models, r) /\ changed # {} /\ now < MaxTime
     /\ Take(e, [task |-> "set", release |-> r, models |-> changed,
                 version |-> [m \in changed |-> IF InForce(m) = None THEN 1 ELSE InForce(m).version + 1]])
     /\ UNCHANGED <<now, catalog, devices, policies, rules, overrides, exceptions, records, plans, changes>>

\* A mutant of RowOfSet: the new row is not of the default track.
RowOfSetAside(w, m) ==
  BaselineRow(m, [mode |-> "EXACT", track |-> "default", platform |-> w.release.platform, default |-> FALSE,
                  target |-> w.release.id, version |-> w.version[m]])

RowOfSet(w, m) ==
  BaselineRow(m, [mode |-> "EXACT", track |-> "default", platform |-> w.release.platform,
                  target |-> w.release.id, version |-> w.version[m]])

\* Its transaction: one row for each changed model, numbered one after another.
CommitSet(e) ==
  LET w == desk[e]
      Place(m) == Cardinality({n \in w.models : n <= m})
  IN /\ w.task = "set" /\ Stamp /\ Leave(e)
     /\ policies' = policies \cup {[RowOfSet(w, m) EXCEPT !.id = Cardinality(policies) + Place(m)] : m \in w.models}
     /\ UNCHANGED <<catalog, devices, rules, overrides, exceptions, records, plans, changes>>

\* bulkClearModelDesiredFirmwarePolicies: what is cleared is decided before
\* the transaction, which archives every row of these models, later ones too.
BeginClear(e, models) ==
  LET changed == {m \in models : InForce(m) # None} IN
  /\ changed # {} /\ now < MaxTime
  /\ Take(e, [task |-> "clear", models |-> changed])
  /\ UNCHANGED <<now, catalog, devices, policies, rules, overrides, exceptions, records, plans, changes>>

CommitClear(e) ==
  /\ desk[e].task = "clear" /\ Stamp /\ Leave(e)
  /\ policies' = {IF \E m \in desk[e].models : IsBaseline(p, m) THEN [p EXCEPT !.active = FALSE] ELSE p : p \in policies}
  /\ UNCHANGED <<catalog, devices, rules, overrides, exceptions, records, plans, changes>>

\* saveModelDesiredFirmwareConfiguration: what the form becomes.
Configuration(m, form) ==
  LET current == InForce(m)
      moving == form.mode = "LATEST_APPROVED_IN_TRAIN"
      bounded == form.mode \in {"MINIMUM", "RANGE"}
  IN BaselineRow(m,
       [mode |-> form.mode, track |-> IF current = None THEN "default" ELSE current.track,
        platform |-> IF moving THEN (CHOOSE t \in TrainRows : t.id = form.train).platform ELSE catalog[form.target].platform,
        target |-> IF moving THEN None ELSE form.target, train |-> IF moving THEN form.train ELSE None,
        minimum |-> IF bounded THEN form.minimum ELSE None,
        maximum |-> IF form.mode = "RANGE" THEN form.maximum ELSE None, version |-> 0])

\* assertPolicyReferences
ReferencesAreGood(m, p) ==
  LET named == {ReleaseOf(id) : id \in {p.minimum, p.target, p.maximum} \ {None}}
      train == {t \in TrainRows : t.id = p.train}
      Ordered(low, high) ==
        low # None /\ high # None => CompareVersions(catalog[low].version, catalog[high].version) \in {"LESS", "EQUAL"}
  IN /\ \A r \in named : /\ IsEligible(r) /\ r.vendor = Models[m].vendor /\ r.platform = p.platform
                         /\ CanApply({m}, r)
     /\ \A t \in train : t.vendor = Models[m].vendor /\ t.platform = p.platform /\ TrainCanApply({m}, t.id)
     /\ Ordered(p.minimum, p.target) /\ Ordered(p.target, p.maximum) /\ Ordered(p.minimum, p.maximum)

\* policyVersionScope: the version goes on from every row of the track, in
\* force or not.
NextVersion(p) ==
  1 + Greatest({0} \cup {q.version : q \in {o \in policies : /\ o.track = p.track /\ o.model = p.model /\ o.family = p.family
                                                             /\ o.customer = p.customer /\ o.site = p.site /\ o.device = p.device}})

\* saveModelDesiredFirmwareConfiguration and appendFirmwarePolicyVersion, up
\* to the transaction: the policy is in force from the instant of the request.
BeginSave(e, m, form) ==
  LET p == Configuration(m, form) IN
  /\ IsValidPolicy(p) /\ ReferencesAreGood(m, p) /\ Stamp
  /\ Take(e, [task |-> "save", policy |-> [p EXCEPT !.version = NextVersion(p)]])
  /\ UNCHANGED <<catalog, devices, policies, rules, overrides, exceptions, records, plans, changes>>

CommitSave(e) ==
  /\ desk[e].task = "save" /\ Stamp /\ Leave(e)
  /\ policies' = policies \cup {[desk[e].policy EXCEPT !.id = Cardinality(policies) + 1]}
  /\ UNCHANGED <<catalog, devices, rules, overrides, exceptions, records, plans, changes>>
-----------------------------------------------------------------------------
(* Evidence of compatibility.                                               *)

Of(m, id) == {o \in overrides : o.model = m /\ o.release = id}
ActiveOf(m, id) == {o \in Of(m, id) : o.active}
Archived(S) == {[o EXCEPT !.active = FALSE] : o \in S}

\* setFirmwareCompatibilityOverride, its reads: the version follows the active
\* override, not the archived ones.
BeginOverride(e, m, id, decision) ==
  /\ Models[m].vendor = catalog[id].vendor /\ Cardinality(overrides) < MaxOverrides
  /\ Take(e, [task |-> "override", model |-> m, release |-> id, decision |-> decision,
              version |-> 1 + Greatest({0} \cup {o.version : o \in ActiveOf(m, id)})])
  /\ UNCHANGED <<now, catalog, devices, policies, rules, overrides, exceptions, records, plans, changes>>

\* A mutant of IsFreeVersion: without the unique index.
IsFreeVersionNot(w) == TRUE

\* FwCompatOverride_model_release_version_key
IsFreeVersion(w) == \A o \in Of(w.model, w.release) : o.version # w.version

\* Its transaction archives what it sees: a concurrent one that has not
\* committed when this one looks is not archived, and only the index stops it.
CommitOverride(e) ==
  LET w == desk[e]
      new == [id |-> Cardinality(overrides) + 1, model |-> w.model, release |-> w.release,
              decision |-> w.decision, version |-> w.version, active |-> TRUE]
  IN /\ w.task = "override" /\ Leave(e)
     /\ \E seen \in {ActiveOf(w.model, w.release), {o \in ActiveOf(w.model, w.release) : o.version < w.version}} :
          overrides' = IF IsFreeVersion(w)
                       THEN (overrides \ seen) \cup Archived(seen) \cup {new}
                       ELSE overrides
     /\ UNCHANGED <<now, catalog, devices, policies, rules, exceptions, records, plans, changes>>

\* clearFirmwareCompatibilityOverride
ClearOverride(m, id) ==
  /\ ActiveOf(m, id) # {}
  /\ overrides' = (overrides \ ActiveOf(m, id)) \cup Archived(ActiveOf(m, id))
  /\ UNCHANGED <<now, catalog, devices, policies, rules, exceptions, records, plans, desk, changes>>

Change == changes < MaxChanges /\ changes' = changes + 1

BroadRule(m, platform, decision) ==
  [id |-> <<m, platform>>, active |-> TRUE, vendor |-> Models[m].vendor, model |-> m, family |-> None,
   platform |-> platform, train |-> None, logical |-> None, release |-> None, image |-> None,
   decision |-> decision, source |-> "CONFIGURED_RULE", validFrom |-> None, validUntil |-> None]

\* syncModelSupportedPlatforms: the selection replaces the broad rules of the
\* model by an allow-list over every platform known by then.
SyncPlatforms(m, supported) ==
  LET broad == {r \in rules : r.model = m /\ r.source = "CONFIGURED_RULE" /\ IsBroad(r)}
      known == {r.platform : r \in {q \in Catalog : q.vendor = Models[m].vendor}} \cup {r.platform : r \in broad} \cup supported
      list == {BroadRule(m, p, IF p \in supported THEN "ALLOW" ELSE "DENY") : p \in known}
  IN /\ Change
     /\ rules' = (rules \ broad) \cup (IF supported = {} THEN {} ELSE list)
     /\ UNCHANGED <<now, catalog, devices, policies, overrides, exceptions, records, plans, desk>>

\* parseRuleInput and validateRuleReferences
RuleIsGood(rule) ==
  /\ (rule.model = None) # (rule.family = None)
  /\ rule.validFrom # None /\ rule.validUntil # None => rule.validFrom < rule.validUntil
  /\ rule.model # None => Models[rule.model].vendor = rule.vendor
  /\ \A t \in TrainRows : t.id = rule.train => t.vendor = rule.vendor /\ t.platform = rule.platform
  /\ rule.release # None => RuleMatches(rule, catalog[rule.release])

\* createFirmwareCompatibilityRule, updateFirmwareCompatibilityRule
WriteRule(rule) ==
  /\ Change /\ RuleIsGood(rule) /\ rule \notin rules
  /\ rules' = {r \in rules : r.id # rule.id} \cup {rule}
  /\ UNCHANGED <<now, catalog, devices, policies, overrides, exceptions, records, plans, desk>>
-----------------------------------------------------------------------------
(* Exceptions.                                                              *)

\* scopeWhere
InScope(form) == {d \in Devices : ScopeMatches(form, Context(d))}

\* parseExceptionInput: a date that is entered must be ahead; the next review
\* is a quarter from now.
HasGoodDate(form) ==
  form.duration \in {"CUSTOM_DATE", "UNTIL_EOL"} => form.expires # None /\ form.expires > now

Expiry(form) ==
  CASE form.duration = "NEXT_REVIEW" -> now + Quarter
    [] form.duration \in {"CUSTOM_DATE", "UNTIL_EOL"} -> form.expires
    [] OTHER -> None

Snapshots(form) == [d \in InScope(form) |-> PolicyFingerprint(Facts(d))]

CandidateException(form) ==
  [form EXCEPT !.id = 0, !.decided = now, !.expires = Expiry(form), !.superseded = None, !.snapshots = Snapshots(form)]

\* buildPreview: what a new exception would cover, were it the only one.
Affected(form) ==
  {d \in InScope(form) : SelectedException({CandidateException(form)}, Context(d), Facts(d), now) # None}

\* A mutant of ExceptionToken: it names the devices, not their policies.
ExceptionTokenOfDevices(form) == <<form, InScope(form), Affected(form)>>

\* The default date of a review is left out: it moves with the clock.
ExceptionToken(form) == <<form, Snapshots(form), Affected(form)>>

\* previewFirmwareException
PreviewException(e, form) ==
  /\ HasGoodDate(form) /\ Cardinality(exceptions) < MaxExceptions
  /\ Take(e, [task |-> "exception", form |-> form, token |-> ExceptionToken(form), shown |-> Snapshots(form)])
  /\ UNCHANGED <<now, catalog, devices, policies, rules, overrides, exceptions, records, plans, changes>>

\* createFirmwareException: refused when the preview is no longer true.  What
\* was shown is remembered for the properties.
CreateException(e) ==
  LET w == desk[e]
      row == [CandidateException(w.form) EXCEPT !.id = Cardinality(exceptions) + 1, !.shown = w.shown]
  IN /\ w.task = "exception" /\ Leave(e)
     /\ exceptions' = IF HasGoodDate(w.form) /\ w.token = ExceptionToken(w.form)
                      THEN exceptions \cup {row} ELSE exceptions
     /\ UNCHANGED <<now, catalog, devices, policies, rules, overrides, records, plans, changes>>

\* supersedeFirmwareException: ending twice keeps the first instant.
Supersede(x) ==
  /\ x \in exceptions /\ x.superseded = None
  /\ exceptions' = (exceptions \ {x}) \cup {[x EXCEPT !.superseded = now]}
  /\ UNCHANGED <<now, catalog, devices, policies, rules, overrides, records, plans, desk, changes>>
-----------------------------------------------------------------------------
(* The lifecycle record of a device, which preceded work plans.             *)

\* setFirmwareLifecycleDecision, up to its transaction: the target is that of
\* the model's policy, whatever the device's own policy says.
BeginDecision(e, d, state) ==
  /\ InForce(devices[d].model) # None /\ InForce(devices[d].model).target # None
  /\ Take(e, [task |-> "decide", device |-> d, state |-> state, target |-> InForce(devices[d].model).target])
  /\ UNCHANGED <<now, catalog, devices, policies, rules, overrides, exceptions, records, plans, changes>>

\* Its transaction: the completion is kept while the record stays done.
CommitDecision(e) ==
  LET w == desk[e]
      current == records[w.device]
      kept == current # None /\ current.state = "DONE"
      completed == IF w.state # "DONE" THEN None ELSE IF kept THEN current.completed ELSE now
  IN /\ w.task = "decide" /\ Leave(e)
     /\ records' = [records EXCEPT ![w.device] = [state |-> w.state, target |-> w.target, completed |-> completed]]
     /\ UNCHANGED <<now, catalog, devices, policies, rules, overrides, exceptions, plans, changes>>
-----------------------------------------------------------------------------
(* What a work plan assumes of a device, and what has become of it.         *)

Observed(d) ==
  LET current == CurrentRelease(d)
  IN <<IF current = None THEN None ELSE current.id, devices[d].release, devices[d].version>>

\* Without a policy there is no fingerprint: here, the empty one.
PlanFingerprint(f) == IF f.policy.policy = None THEN <<>> ELSE PolicyFingerprint(f)
Preferred(f) == IF f.preferred = None THEN None ELSE f.preferred.id

\* buildFirmwareWorkPlanPreview: there is something to do, one image to do it
\* with, and an exception only if the engineer overrides it.
MayPlan(f, x, acknowledged) ==
  /\ Compliance(f).recommendation \in {"UPDATE_REQUIRED", "UPDATE_RECOMMENDED", "PLATFORM_MIGRATION"}
  /\ f.image.status = "RESOLVED" /\ (x # None <=> acknowledged)

FrozenTarget(d, f, x) ==
  [device |-> d, model |-> devices[d].model, observed |-> Observed(d), policy |-> PlanFingerprint(f),
   preferred |-> Preferred(f), target |-> f.image.release.id, acknowledged |-> IF x = None THEN None ELSE x.id]

\* createFirmwareWorkPlan: one target.
FreezeTarget(d, acknowledged) ==
  /\ Cardinality(plans) < MaxPlans /\ \A p \in plans : p.device # d
  /\ MayPlan(Facts(d), Accepted(d), acknowledged)
  /\ plans' = plans \cup {FrozenTarget(d, Facts(d), Accepted(d))}
  /\ UNCHANGED <<now, catalog, devices, policies, rules, overrides, exceptions, records, desk, changes>>

\* The model as resolveFirmwareWorkPlanLiveTargets loads it: without platforms.
LiveModel(d) == [ModelOf(d) EXCEPT !.platforms = {}]

\* resolveFirmwareWorkPlanStaleness over the live context
StaleReasons(p) ==
  LET f == Facts(p.device)
      target == catalog[p.target]
      x == Accepted(p.device)
      If(condition, reason) == IF condition THEN {reason} ELSE {}
  IN If(p.policy # PlanFingerprint(f), "POLICY_CHANGED")
     \cup If(p.preferred # Preferred(f), "PREFERRED_TARGET_CHANGED")
     \cup If(~target.active, "TARGET_UNRESOLVED")
     \cup If(IsBarred(target), "TARGET_BLOCKED_OR_WITHDRAWN")
     \cup If(p.model # devices[p.device].model, "DEVICE_MODEL_CHANGED")
     \cup If(p.observed # Observed(p.device), "OBSERVED_FIRMWARE_CHANGED")
     \cup If(CompatibilityWith(LiveModel(p.device), target).status # "COMPATIBLE", "COMPATIBILITY_CHANGED")
     \cup If(x # None /\ x.id # p.acknowledged, "ACTIVE_EXCEPTION_ADDED")
-----------------------------------------------------------------------------
(* The world around.                                                        *)

Tick ==
  /\ now < MaxTime /\ now' = now + 1
  /\ UNCHANGED <<catalog, devices, policies, rules, overrides, exceptions, records, plans, desk, changes>>

\* The catalog changes a release: FirmwareCatalog has the conditions.
Decide(id, s) ==
  /\ Change /\ [state |-> catalog[id].state, eligibility |-> catalog[id].eligibility] # s
  /\ catalog' = [catalog EXCEPT ![id] = [catalog[id] EXCEPT !.state = s.state, !.eligibility = s.eligibility]]
  /\ UNCHANGED <<now, devices, policies, rules, overrides, exceptions, records, plans, desk>>

\* A publication or an engineer changes a device: other firmware, another
\* model, another site.
ChangeDevice(d, device) ==
  /\ Change /\ device # devices[d]
  /\ devices' = [devices EXCEPT ![d] = device]
  /\ UNCHANGED <<now, catalog, policies, rules, overrides, exceptions, records, plans, desk>>

ChangedDevice(device) ==
  {[device EXCEPT !.site = s] : s \in Sites} \cup {[device EXCEPT !.model = m] : m \in DOMAIN Models}
  \cup {[device EXCEPT !.release = id, !.version = catalog[id].version] : id \in ReleaseIds}
  \cup {[device EXCEPT !.release = None, !.version = catalog[id].version] : id \in ReleaseIds}

GovernanceNext ==
  \/ \E e \in Engineers, models \in (SUBSET DOMAIN Models) \ {{}}, id \in Targets : BeginSet(e, models, id)
  \/ \E e \in Engineers, models \in (SUBSET DOMAIN Models) \ {{}} : Targets # {} /\ BeginClear(e, models)
  \/ \E e \in Engineers, m \in DOMAIN Models, form \in SaveForms : BeginSave(e, m, form)
  \/ \E e \in Engineers : \/ CommitSet(e) \/ CommitClear(e) \/ CommitSave(e)
                          \/ CommitOverride(e) \/ CreateException(e) \/ CommitDecision(e)
  \/ \E e \in Engineers, m \in DOMAIN Models, id \in ReleaseIds, decision \in {"ALLOW", "DENY"} : BeginOverride(e, m, id, decision)
  \/ \E m \in DOMAIN Models, id \in ReleaseIds : ClearOverride(m, id)
  \/ \E m \in DOMAIN Models, supported \in Platforms : SyncPlatforms(m, supported)
  \/ \E rule \in RuleForms : WriteRule(rule)
  \/ \E e \in Engineers, form \in ExceptionForms : PreviewException(e, form)
  \/ \E x \in exceptions : Supersede(x)
  \/ \E e \in Engineers, d \in Devices, state \in Outcomes : BeginDecision(e, d, state)
  \/ \E d \in Devices, acknowledged \in BOOLEAN : FreezeTarget(d, acknowledged)
  \/ \E id \in ReleaseIds, s \in Standings : Decide(id, s)
  \/ \E d \in Devices : \E device \in ChangedDevice(devices[d]) : ChangeDevice(d, device)
  \/ Tick

GovernanceSpec == GovernanceInit /\ [][GovernanceNext]_governanceVars
-----------------------------------------------------------------------------
(* What must hold.                                                          *)

\* No policy but those of its model applies to a device.
IsPlain(d) == \A p \in policies : p.active /\ p.from <= now => ScopeRank(p, Context(d)) \in {0, 2}

\* Whatever happens to catalog, policies and evidence, a device is only told to
\* update to an active, allowed image that its model is known to run, and only
\* told to rest on firmware that is not barred and that its model runs.
DevicesAreToldRight ==
  \A d \in Devices :
    LET f == Facts(d)
        r == Compliance(f).recommendation
    IN /\ r \in {"UPDATE_REQUIRED", "UPDATE_RECOMMENDED", "PLATFORM_MIGRATION"} =>
            /\ f.image.release # None /\ f.image.release.active /\ ~IsBarred(f.image.release)
            /\ f.image.release.eligibility \in {"ALLOWED", "PREFERRED"}
            /\ CompatibilityWith(ModelOf(d), f.image.release).status = "COMPATIBLE"
            /\ \A o \in ActiveOf(devices[d].model, f.image.release.id) : o.decision = "ALLOW"
       /\ r = "NO_ACTION" => f.current # None /\ ~IsBarred(f.current) /\ f.compatibility = "COMPATIBLE"

\* A model has at most one standing decision on a release, whoever decides at the
\* same time.
OneOverridePerRelease ==
  \A o, q \in overrides : o.active /\ q.active /\ o.model = q.model /\ o.release = q.release => o = q

\* While a plan is reported as fresh, its target is what the device would be
\* offered today: not barred, compatible, and under no exception that was not
\* acknowledged when it was planned.
FreshTargetsAreSafe ==
  \A p \in plans :
    StaleReasons(p) = {} =>
      /\ catalog[p.target].active /\ ~IsBarred(catalog[p.target])
      /\ Facts(p.device).image.release = catalog[p.target]
      /\ Accepted(p.device) # None => Accepted(p.device).id = p.acknowledged

\* What devices are told and what plans keep is earned by the evidence of today,
\* of which there is one word for a model and a release (the compliance of a
\* device, the overrides of the compatibility store, the live drift of plans).
RecommendationsAreEarned == DevicesAreToldRight /\ OneOverridePerRelease /\ FreshTargetsAreSafe

\* The policy that the pages of a model show, chosen by the database, is the one
\* that its plain devices are judged by, chosen by the resolver.
StoreAndResolverAgree ==
  \A d \in Devices :
    IsPlain(d) => PolicyAt(policies, Context(d), now).policy = InForce(devices[d].model)

\* The next policy that is announced for a device really is another one, and no
\* other takes its place before; when none is announced, none comes.
TimelineIsSound ==
  \A d \in Devices :
    LET At(t) == PolicyAt(policies, Context(d), t).policy
        next == NextPolicy(policies, Context(d), now)
    IN /\ \A n \in next : n.policy \notin {None, At(now)}
       /\ \A t \in now .. MaxTime : (\A n \in next : t < n.from) => At(t) \in {None, At(now)}

\* Whoever asks for the policy of a device, now or ahead, is given the same
\* answer: the pages of models, the resolver and its announcements.
PoliciesAreNamedAsResolved == StoreAndResolverAgree /\ TimelineIsSound

\* Right after a bulk change, a device of a changed model with no narrower policy
\* is held to exactly the release of the change, unless an announced policy
\* comes into force in that very moment.
HeldToTheSet(e, d) ==
  /\ desk[e].task = "set" /\ desk'[e] = Nothing
  /\ devices[d].model \in desk[e].models /\ IsPlain(d)
  /\ \A q \in policies : q.active => q.from \notin {now, now'}
  => \E p \in policies' :
       p = PolicyAt(policies', Context(d), now').policy /\ p.mode = "EXACT" /\ p.target = desk[e].release.id

\* A bulk change takes effect, although other engineers set, cleared and saved
\* policies between its reads and its transaction.
SetTakesEffect == [][\A e \in Engineers, d \in Devices : HeldToTheSet(e, d)]_governanceVars

\* An exception until the policy changes covers a device only under the policy
\* that the engineer was shown for it before accepting.
CoveredAsShown ==
  \A d \in Devices :
    LET x == Accepted(d) IN
    x # None /\ x.duration = "POLICY_CHANGE" =>
      d \in DOMAIN x.shown /\ x.shown[d] = PolicyFingerprint(Facts(d))

\* What the comment on the drift detection promises of every plan: a target that
\* is frozen from the facts of a device has not drifted from them yet.
FreshPlansAreNotStale ==
  \A d \in Devices, acknowledged \in BOOLEAN :
    MayPlan(Facts(d), Accepted(d), acknowledged) => StaleReasons(FrozenTarget(d, Facts(d), Accepted(d))) = {}
=============================================================================
