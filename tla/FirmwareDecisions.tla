------------------------- MODULE FirmwareDecisions -------------------------
(* The pure decisions on firmware: how versions compare, which policy is in *)
(* force, what a model can run, which train the catalog proposes, whether a *)
(* device complies, and which exception covers it.                          *)
(*                                                                          *)
(* A version is the outcome of its parser: a grammar, the numbers, the      *)
(* letters (image code or Cisco train) and the variant.  Identifiers are    *)
(* numbers where the code sorts by them.                                    *)
EXTENDS Integers, Sequences, FiniteSets, Tables

Least(S) == CHOOSE n \in S : \A m \in S : n <= m
Greatest(S) == CHOOSE n \in S : \A m \in S : m <= n
Only(S) == CHOOSE x \in S : TRUE
-----------------------------------------------------------------------------
(* firmware-versioning.ts                                                   *)

Part(parts, i) == IF i <= Len(parts) THEN parts[i] ELSE 0

\* The shorter version is padded with zeros.
CompareNumbers(left, right) ==
  LET D == {i \in 1 .. (Len(left) + Len(right)) : Part(left, i) # Part(right, i)}
  IN IF D = {} THEN "EQUAL"
     ELSE IF Part(left, Least(D)) < Part(right, Least(D)) THEN "LESS" ELSE "GREATER"

\* The base release: no variant, and no image code.
LogicalVersion(v) ==
  [v EXCEPT !.variant = None,
            !.letters = IF v.grammar = "image" THEN "" ELSE v.letters,
            !.grammar = IF v.grammar = "image" THEN "dotted" ELSE v.grammar]

CompareVersions(left, right) ==
  LET order == CompareNumbers(left.parts, right.parts)
  IN IF left = right THEN "EQUAL"
     ELSE IF left.grammar # right.grammar \/ left.grammar = "opaque" THEN "NOT_COMPARABLE"
     ELSE IF left.grammar = "cisco" /\ left.letters # right.letters THEN "NOT_COMPARABLE"
     ELSE IF order = "EQUAL" /\ left.variant # right.variant THEN "NOT_COMPARABLE"
     ELSE order
-----------------------------------------------------------------------------
(* firmware-catalog-defaults.ts, firmware-releases.ts                       *)

Decisions == {"NEEDS_REVIEW", "ALLOWED", "BLOCKED", "WITHDRAWN"}

\* releaseDecisionFromCatalogSemantics
DecisionOf(r) ==
  IF r.state \in {"BLOCKED", "WITHDRAWN"} THEN r.state
  ELSE IF r.state = "VERIFIED" /\ r.eligibility \in {"ALLOWED", "PREFERRED"} THEN "ALLOWED"
  ELSE IF r.state = "VERIFIED" /\ r.eligibility = "DISALLOWED" THEN "BLOCKED"
  ELSE "NEEDS_REVIEW"

\* catalogSemanticsFromReleaseDecision
SemanticsOf(decision) ==
  CASE decision = "ALLOWED" -> [state |-> "VERIFIED", eligibility |-> "ALLOWED"]
    [] decision = "NEEDS_REVIEW" -> [state |-> "OBSERVED", eligibility |-> "NOT_EVALUATED"]
    [] OTHER -> [state |-> decision, eligibility |-> "DISALLOWED"]

IsBarred(r) == r.state \in {"BLOCKED", "WITHDRAWN"}

\* A mutant of IsEligible: archiving or blocking a release does not withdraw it
\* from the policies.
IsEligibleOnce(r) == r.eligibility \in {"ALLOWED", "PREFERRED", "DISALLOWED"}

\* isFirmwarePolicyEligible
IsEligible(r) == r.active /\ ~IsBarred(r) /\ r.eligibility \in {"ALLOWED", "PREFERRED"}

\* isEquivalentFirmwareRelease: the preferred release opts in.
IsEquivalent(current, preferred) ==
  /\ ~IsBarred(current)
  /\ current.vendor = preferred.vendor /\ current.platform = preferred.platform
  /\ \/ current.id = preferred.id
     \/ /\ current.logical = preferred.logical
        /\ \/ current.variant = preferred.variant
           \/ preferred.equivalence = "ANY_VERIFIED_VARIANT" /\ current.state = "VERIFIED"
           \/ preferred.equivalence = "ANY_NON_BLOCKED_VARIANT"

\* resolveObservedFirmwareRelease: a version names a release when it is the
\* only one of the vendor, on the platforms of the model when it has any.
ObservedRelease(model, version, releases) ==
  LET S == {r \in releases : /\ r.vendor = model.vendor /\ r.version = version
                             /\ model.platforms = {} \/ r.platform \in model.platforms}
  IN IF version # None /\ Cardinality(S) = 1 THEN Only(S) ELSE None
-----------------------------------------------------------------------------
(* firmware-policies.ts                                                     *)

SubjectRank(p, d) ==
  IF p.model # None THEN IF p.model = d.model THEN 2 ELSE -1
  ELSE IF p.family # None THEN IF p.family = d.family THEN 1 ELSE -1 ELSE 0

\* explicitScope: DEVICE 5, SITE 4, CUSTOMER 3, MODEL 2, FAMILY 1; 0 when the
\* policy does not apply.
ScopeRank(p, d) ==
  IF p.legacy \/ SubjectRank(p, d) < 0 THEN 0
  ELSE IF p.device # None THEN IF p.device = d.id THEN 5 ELSE 0
  ELSE IF p.site # None THEN IF p.site = d.site THEN 4 ELSE 0
  ELSE IF p.customer # None THEN IF p.customer = d.customer THEN 3 ELSE 0
  ELSE IF p.model # None THEN 2 ELSE IF p.family # None THEN 1 ELSE 0

\* A mutant of Newer: the version decides before the date.
NewerByVersion(p, q) ==
  \/ p.version > q.version
  \/ p.version = q.version /\ p.from > q.from
  \/ p.version = q.version /\ p.from = q.from /\ p.id > q.id

Newer(p, q) ==
  \/ p.from > q.from
  \/ p.from = q.from /\ p.version > q.version
  \/ p.from = q.from /\ p.version = q.version /\ p.id > q.id

LatestVersionPerTrack(S) ==
  {p \in S : \A q \in S \ {p} : q.track = p.track => Newer(p, q)}

Resolved(p, rank) == [policy |-> p, reason |-> None, rank |-> rank]
Unresolved(reason) == [policy |-> None, reason |-> reason, rank |-> 0]

NarrowestScope(S, d) == {p \in S : \A q \in S : ScopeRank(q, d) <= ScopeRank(p, d)}
NarrowestSubject(S, d) == {p \in S : \A q \in S : SubjectRank(q, d) <= SubjectRank(p, d)}

\* Of the latest versions, the one of the default track, or the only one.
DefaultOf(latest, defaults, d) ==
  CASE latest = {} -> Unresolved("NO_POLICY")
    [] Cardinality(defaults) > 1 -> Unresolved("AMBIGUOUS_DEFAULT_TRACK")
    [] defaults = {} /\ Cardinality(latest) > 1 -> Unresolved("NO_DEFAULT_TRACK")
    [] OTHER -> LET p == Only(IF defaults = {} THEN latest ELSE defaults) IN Resolved(p, ScopeRank(p, d))

\* resolveFirmwarePolicyAt: the narrowest scope decides, alone.
PolicyAt(S, d, t) ==
  LET applicable == {p \in S : p.active /\ p.from <= t /\ ScopeRank(p, d) > 0}
      Among(latest) == DefaultOf(latest, {p \in latest : p.default}, d)
  IN Among(LatestVersionPerTrack(NarrowestSubject(NarrowestScope(applicable, d), d)))

\* resolveFirmwarePolicyTimeline: the announcement of the first date that
\* brings another policy, if there is one.
NextPolicy(S, d, t) ==
  LET At(u) == PolicyAt(S, d, u).policy
      future == {u \in {p.from : p \in {q \in S : q.active /\ q.from > t}} : At(u) \notin {None, At(t)}}
  IN {[from |-> u, policy |-> At(u)] : u \in {v \in future : \A w \in future : v <= w}}

\* validateFirmwarePolicyCandidate
IsValidPolicy(p) ==
  /\ Cardinality({x \in {"customer", "site", "device"} : p[x] # None}) <= 1
  /\ p.model = None \/ p.family = None
  /\ p.device # None \/ p.model # None \/ p.family # None
  /\ ~p.legacy /\ p.platform # None
  /\ p.mode \in {"EXACT", "MINIMUM", "RANGE"} => p.target # None
  /\ p.mode = "MINIMUM" => p.minimum # None
  /\ p.mode = "RANGE" => p.minimum # None \/ p.maximum # None
  /\ p.mode = "LATEST_APPROVED_IN_TRAIN" => p.train # None

\* resolveLatestApprovedInTrain.  Of versions that compare equal the code keeps
\* the first row of an unordered query: here, that of least id.
LatestOf(S) ==
  LET latest == {r \in S : \A q \in S : CompareVersions(q.logical, r.logical) # "GREATER"}
      OfLeastId(T) == CHOOSE r \in T : \A q \in T : r.id <= q.id
  IN IF \/ S = {}
        \/ \E q, r \in S : q.vendor # r.vendor \/ CompareVersions(q.logical, r.logical) = "NOT_COMPARABLE"
     THEN None ELSE OfLeastId(latest)

LatestApproved(releases, train, platform) ==
  LatestOf({r \in releases : r.train = train /\ r.platform = platform /\ IsEligible(r)})
-----------------------------------------------------------------------------
(* firmware-compatibility.ts                                                *)

RuleIsActive(rule, t) ==
  /\ rule.active
  /\ rule.validFrom # None => rule.validFrom <= t
  /\ rule.validUntil # None => t < rule.validUntil

IsBroad(rule) == rule.train = None /\ rule.logical = None /\ rule.release = None /\ rule.image = None

RuleMatches(rule, r) ==
  /\ rule.vendor = r.vendor /\ rule.platform = r.platform
  /\ rule.train \in {None, r.train} /\ rule.logical \in {None, r.logical}
  /\ rule.release \in {None, r.id} /\ rule.image \in {None, r.image}

TargetSpecificity(rule) ==
  1 + (IF rule.train # None THEN 10 ELSE 0) + (IF rule.logical # None THEN 20 ELSE 0)
    + (IF rule.image # None THEN 30 ELSE 0) + (IF rule.release # None THEN 40 ELSE 0)

\* The version decides, then the time of the creation, which ids stand for.
NewestOverride(S) ==
  CHOOSE o \in S : \A q \in S : q.version < o.version \/ (q.version = o.version /\ q.id <= o.id)

\* A mutant of Compatibility: an older override may answer, and a rule for
\* the family may widen what was selected for the model.
CompatibilityBySubject(model, r, rules, overrides, t) ==
  IF \E rule \in rules : RuleIsActive(rule, t) /\ RuleMatches(rule, r) /\ rule.decision = "ALLOW"
  THEN [status |-> "COMPATIBLE", kind |-> "FAMILY_RULE"]
  ELSE IF r.platform \in model.platforms THEN [status |-> "COMPATIBLE", kind |-> "PLATFORM_INHERITANCE"]
  ELSE [status |-> "UNKNOWN", kind |-> "NO_EVIDENCE"]

Verdict(allow, kind) == [status |-> IF allow THEN "COMPATIBLE" ELSE "INCOMPATIBLE", kind |-> kind]

\* The most specific rules decide, and one denial among them is enough.
SpecificVerdict(S, kind) ==
  Verdict(\A rule \in S : \/ rule.decision = "ALLOW"
                         \/ \E other \in S : TargetSpecificity(other) > TargetSpecificity(rule), kind)

\* The answer of the active rules for a model and its family, without override.
RuleVerdict(model, r, active) ==
  LET matching == {rule \in active : RuleMatches(rule, r)}
      OfModel(S) == {rule \in S : rule.model = model.id}
      selects == \E rule \in OfModel(active) :
                   IsBroad(rule) /\ rule.source = "CONFIGURED_RULE" /\ rule.decision = "ALLOW"
  IN IF OfModel(matching) # {} THEN SpecificVerdict(OfModel(matching), "MODEL_RULE")
     ELSE IF selects THEN Verdict(FALSE, "MODEL_RULE")
     ELSE IF matching # {} THEN SpecificVerdict(matching, "FAMILY_RULE")
     ELSE IF r.platform \in model.platforms THEN Verdict(TRUE, "PLATFORM_INHERITANCE")
     ELSE [status |-> "UNKNOWN", kind |-> "NO_EVIDENCE"]

\* evaluateFirmwareCompatibility
Compatibility(model, r, rules, overrides, t) ==
  LET chosen == {o \in overrides : o.active /\ o.model = model.id /\ o.release = r.id}
      concerns == {rule \in rules : /\ RuleIsActive(rule, t)
                                    /\ \/ rule.model = model.id
                                       \/ model.family # None /\ rule.family = model.family}
  IN IF model.vendor # r.vendor THEN Verdict(FALSE, "VENDOR_MISMATCH")
     ELSE IF chosen # {} THEN Verdict(NewestOverride(chosen).decision = "ALLOW", "MANUAL_OVERRIDE")
     ELSE RuleVerdict(model, r, concerns)

\* resolveCompatibleFirmwareImage: one compatible image of the logical target.
CompatibleImage(model, target, releases, rules, overrides, t) ==
  LET candidates == {r \in releases : /\ r.active /\ r.vendor = target.vendor
                                      /\ r.platform = target.platform /\ r.logical = target.logical
                                      /\ target.train \in {None, r.train}}
      Answer(good, unknown) ==
        [release |-> IF Cardinality(good) = 1 THEN Only(good) ELSE None,
         status |-> CASE Cardinality(good) = 1 -> "RESOLVED"
                      [] Cardinality(good) > 1 -> "AMBIGUOUS"
                      [] OTHER -> IF unknown # {} THEN "UNKNOWN" ELSE "INCOMPATIBLE"]
      Those(status) == {r \in candidates : Compatibility(model, r, rules, overrides, t).status = status}
  IN Answer(Those("COMPATIBLE"), Those("UNKNOWN"))
-----------------------------------------------------------------------------
(* Trains as catalog defaults: a candidate has its preferred release, which *)
(* may be None, and what the model is compatible with of it.                *)

\* deniedByDecision
IsUsable(r) == r # None /\ DecisionOf(r) = "ALLOWED" /\ r.active

\* evaluateReleaseAgainstTrain
PositionInTrain(r, preferred, minimum) ==
  IF DecisionOf(r) \in {"BLOCKED", "WITHDRAWN"} THEN "NOT_ALLOWED"
  ELSE IF ~IsUsable(r) \/ ~IsUsable(preferred) THEN "REVIEW_REQUIRED"
  ELSE IF r.id = preferred.id THEN "PREFERRED"
  ELSE IF minimum = None THEN "OUTSIDE_ACCEPTABLE"
  ELSE IF ~IsUsable(minimum) THEN "REVIEW_REQUIRED"
  ELSE CASE CompareVersions(r.version, minimum.version) = "NOT_COMPARABLE" -> "NOT_COMPARABLE"
         [] CompareVersions(r.version, minimum.version) = "LESS" -> "BELOW_MINIMUM"
         [] OTHER -> "ACCEPTABLE"

NoTrain(status) == [status |-> status, train |-> None]
ThatTrain(train) == [status |-> "RESOLVED", train |-> train]

\* resolveCatalogTrainForModel; of accepted trains that compare equal the
\* first is kept.
NewestAccepted(accepted) ==
  LET Versus(t, u) == CompareVersions(t.preferred.logical, u.preferred.logical)
      newest == {t \in accepted : \A u \in accepted : Versus(u, t) # "GREATER"}
      OfLeastId(S) == CHOOSE t \in S : \A u \in S : t.id <= u.id
  IN IF accepted = {} THEN NoTrain("NO_COMPATIBLE_TRAIN")
     ELSE IF \E t, u \in accepted : Versus(t, u) = "NOT_COMPARABLE" THEN NoTrain("REVIEW_REQUIRED")
     ELSE ThatTrain(OfLeastId(newest))

TrainForModel(trains) ==
  LET preferred == {t \in trains : t.state = "PREFERRED"}
      Answer(t) ==
        CASE ~IsUsable(t.preferred) \/ t.compatibility = "UNKNOWN" -> NoTrain("REVIEW_REQUIRED")
          [] IsUsable(t.preferred) /\ t.compatibility = "COMPATIBLE" -> ThatTrain(t)
          [] OTHER -> NewestAccepted({u \in trains : /\ u.state = "ACCEPTED" /\ u.compatibility = "COMPATIBLE"
                                                     /\ IsUsable(u.preferred)})
  IN IF preferred = {} THEN NoTrain("REVIEW_REQUIRED") ELSE Answer(Only(preferred))

\* resolveCatalogTrainForDevice: a device stays on its accepted train.
TrainForDevice(trains, current) ==
  LET kept == {t \in trains : t.id = current /\ IsUsable(t.preferred) /\ t.compatibility = "COMPATIBLE"}
  IN IF kept # {} THEN ThatTrain(Only(kept)) ELSE TrainForModel(trains)
-----------------------------------------------------------------------------
(* firmware-compliance.ts.  The facts: the current release or None, whether *)
(* a version was observed at all, the policy, its preferred, minimum and    *)
(* maximum releases, the compatibility of the current release, and the      *)
(* image that the preferred one resolves to.                                *)

Order(c, r) ==
  IF r = None THEN None
  ELSE IF c.vendor # r.vendor \/ c.platform # r.platform THEN "NOT_COMPARABLE"
  ELSE IF IsEquivalent(c, r) THEN "EQUAL" ELSE CompareVersions(c.logical, r.logical)

Relation(toMinimum, toPreferred, toMaximum) ==
  IF toMinimum = "LESS" THEN "BELOW_MINIMUM"
  ELSE IF toMaximum = "GREATER" THEN "ABOVE_MAXIMUM"
  ELSE IF toPreferred = "EQUAL" THEN "AT_PREFERRED"
  ELSE IF toMinimum = "EQUAL" THEN "AT_MINIMUM"
  ELSE CASE toPreferred = "LESS" -> "BELOW_PREFERRED"
         [] toPreferred = "GREATER" -> "ABOVE_PREFERRED"
         [] OTHER -> "NOT_COMPARABLE"

\* Where the device stands within its policy, once both are comparable.
PositionInPolicy(f, p, toMinimum, toPreferred, toMaximum, relation) ==
  LET Is(compliance, recommendation) ==
        [compliance |-> compliance, relation |-> relation, recommendation |-> recommendation]
      preferred == [compliance |-> "PREFERRED", relation |-> "AT_PREFERRED", recommendation |-> "NO_ACTION"]
      pinned == p.mode \in {"EXACT", "LATEST_APPROVED_IN_TRAIN"}
  IN IF ~pinned /\ (toMinimum = "LESS" \/ (toMinimum = "EQUAL" /\ ~p.minimumInclusive))
     THEN Is("BELOW_MINIMUM", "UPDATE_REQUIRED")
     ELSE IF ~pinned /\ (toMaximum = "GREATER" \/ (toMaximum = "EQUAL" /\ ~p.maximumInclusive))
     THEN Is("OUTSIDE_RANGE", "REVIEW_REQUIRED")
     ELSE IF IsEquivalent(f.current, f.preferred) THEN preferred
     ELSE IF toPreferred = "EQUAL" THEN Is("NOT_COMPARABLE", "REVIEW_REQUIRED")
     ELSE IF pinned
     THEN Is("OUTSIDE_RANGE", IF toPreferred = "LESS" THEN "UPDATE_REQUIRED" ELSE "REVIEW_REQUIRED")
     ELSE Is("ACCEPTED", IF toPreferred = "LESS" THEN "UPDATE_RECOMMENDED" ELSE "NO_ACTION")

Blind(compliance) ==
  [compliance |-> compliance, relation |-> "NOT_COMPARABLE", recommendation |-> "REVIEW_REQUIRED"]

\* Compliance once there is a policy and a current release to judge by it.
ComplianceWithin(f, p, toMinimum, toPreferred, toMaximum, relation) ==
  LET Review(compliance) ==
        [compliance |-> compliance, relation |-> relation, recommendation |-> "REVIEW_REQUIRED"]
      ineligible == \E r \in {f.preferred, f.minimum, f.maximum, f.image.release} : r # None /\ ~IsEligible(r)
  IN IF ineligible THEN Review("TARGET_UNRESOLVED")
     ELSE IF f.image.status # "RESOLVED" \/ f.compatibility # "COMPATIBLE" THEN Review("COMPATIBILITY_UNRESOLVED")
     ELSE IF ~IsEquivalent(f.image.release, f.preferred) THEN Review("TARGET_UNRESOLVED")
     ELSE IF f.current.vendor # f.preferred.vendor THEN Blind("NOT_COMPARABLE")
     ELSE IF f.current.platform # f.preferred.platform
     THEN [compliance |-> "OUTSIDE_RANGE", relation |-> "NOT_COMPARABLE", recommendation |-> "PLATFORM_MIGRATION"]
     ELSE IF (p.minimum # None /\ f.minimum = None) \/ (p.maximum # None /\ f.maximum = None)
     THEN Review("TARGET_UNRESOLVED")
     ELSE IF "NOT_COMPARABLE" \in {toPreferred, toMinimum, toMaximum} THEN Review("NOT_COMPARABLE")
     ELSE PositionInPolicy(f, p, toMinimum, toPreferred, toMaximum, relation)

\* resolveFirmwareCompliance: the first obstacle decides.
Compliance(f) ==
  LET Within(toMinimum, toPreferred, toMaximum) ==
        ComplianceWithin(f, f.policy.policy, toMinimum, toPreferred, toMaximum,
                         Relation(toMinimum, toPreferred, toMaximum))
  IN IF f.current # None /\ IsBarred(f.current) THEN Blind("BLOCKED_RELEASE")
     ELSE IF f.compatibility = "INCOMPATIBLE" THEN Blind("INCOMPATIBLE")
     ELSE IF f.current = None THEN Blind(IF f.observed THEN "NOT_COMPARABLE" ELSE "UNKNOWN_FIRMWARE")
     ELSE IF f.policy.policy = None THEN Blind("NO_POLICY")
     ELSE IF f.preferred = None THEN Blind("TARGET_UNRESOLVED")
     ELSE Within(Order(f.current, f.minimum), Order(f.current, f.preferred), Order(f.current, f.maximum))

\* firmware-state.ts
TechnicalState(result) ==
  CASE result.compliance = "NO_POLICY" -> "NO_POLICY"
    [] result.compliance = "UNKNOWN_FIRMWARE" -> "UNKNOWN"
    [] OTHER -> IF result.recommendation = "NO_ACTION" THEN "CURRENT" ELSE "ACTION_REQUIRED"

\* policyFingerprint
PolicyFingerprint(f) ==
  LET p == f.policy.policy
      Id(r) == IF r = None THEN None ELSE r.id
  IN IF p = None THEN <<None, None, Id(f.preferred), Id(f.image.release)>>
     ELSE <<p.id, <<p.version, p.mode, p.minimum, p.maximum, p.minimumInclusive, p.maximumInclusive,
                    p.platform, p.track>>, Id(f.preferred), Id(f.image.release)>>
-----------------------------------------------------------------------------
(* firmware-exceptions.ts                                                   *)

ScopeOrder == <<"device", "site", "customer", "model", "family">>

\* exceptionScopeMatches
ScopeMatches(e, d) ==
  LET id == IF e.scope = "device" THEN d.id ELSE d[e.scope] IN id # None /\ id = e.scopeId

\* A mutant of ExceptionStatus: a policy may change under an exception.
ExceptionStatusIgnoringPolicy(e, d, f, t) ==
  IF e.superseded # None /\ e.superseded <= t THEN "SUPERSEDED"
  ELSE IF e.expires # None /\ e.expires <= t THEN "EXPIRED" ELSE "ACTIVE"

\* exceptionStatus
ExceptionStatus(e, d, f, t) ==
  IF e.superseded # None /\ e.superseded <= t THEN "SUPERSEDED"
  ELSE IF e.decided > t THEN "NOT_YET_ACTIVE"
  ELSE IF e.expires # None /\ e.expires <= t THEN "EXPIRED"
  ELSE IF /\ e.duration = "POLICY_CHANGE"
          /\ d.id \notin DOMAIN e.snapshots \/ e.snapshots[d.id] # PolicyFingerprint(f)
  THEN "POLICY_CHANGED" ELSE "ACTIVE"

\* exceptionSubjectMatches
TargetMatches(e, f, target) ==
  CASE e.subject \in {"ALL_MAINTENANCE", "TEMPORARY_HOLD"} -> TRUE
       [] e.subject = "RELEASE" -> target # None /\ target.id = e.release
       [] e.subject = "TRAIN" -> target # None /\ target.train = e.train
       [] e.subject = "PLATFORM_MIGRATION" ->
            /\ Compliance(f).recommendation = "PLATFORM_MIGRATION"
            /\ f.current.platform = e.from /\ target.platform = e.to
       [] e.subject = "RANGE" ->
            /\ target # None /\ target.vendor = e.vendor /\ target.platform = e.platform
            /\ CompareVersions(target.version, e.minimum) \in {"GREATER", "EQUAL"}
            /\ CompareVersions(target.version, e.maximum) \in {"LESS", "EQUAL"}

SubjectMatches(e, f) ==
  TargetMatches(e, f, IF f.image.release # None THEN f.image.release ELSE f.preferred)

\* resolveFirmwareExceptions: the narrowest scope, then the newest decision.
FirstApplicable(applicable) ==
  LET Width(e) == CHOOSE i \in DOMAIN ScopeOrder : ScopeOrder[i] = e.scope
      Before(e, o) == \/ Width(e) < Width(o)
                      \/ Width(e) = Width(o) /\ e.decided > o.decided
                      \/ Width(e) = Width(o) /\ e.decided = o.decided /\ e.id <= o.id
  IN IF applicable = {} THEN None ELSE CHOOSE e \in applicable : \A o \in applicable : Before(e, o)

SelectedException(exceptions, d, f, t) ==
  IF Compliance(f).recommendation = "NO_ACTION" THEN None
  ELSE FirstApplicable({e \in exceptions : /\ ScopeMatches(e, d) /\ SubjectMatches(e, f)
                                           /\ ExceptionStatus(e, d, f, t) = "ACTIVE"})
=============================================================================
