------------------------ MODULE ImportStagingProofs ------------------------
(* What holds of the rows an import stages, of the rule book and of the     *)
(* remembered mappings, however many engineers work at once: a row is VALID *)
(* only if nothing about it is open, and its fields belong to one another;  *)
(* a rule becomes active on exactly the rule set it was shown on; active    *)
(* rules act on a row by rank, and leave the rest of it alone; and only the *)
(* latest version of a mapping is active.                                   *)
EXTENDS ImportEvaluation, ImportRules, FiniteSetTheorems, WellFoundedInduction, TLAPS

(* The reading of the firmware columns.                                     *)

\* The interpreter names no running version only where it warned of a conflict,
\* or met a boot image, or nothing readable.
LEMMA UnreadIsWarned ==
  ASSUME NEW e, NEW rules, Interpret(e, rules).running = None
  PROVE  Interpret(e, rules).pattern \in {"UNKNOWN", "BOOT"}
         \/ "FIRMWARE_EVIDENCE_CONFLICT" \in Interpret(e, rules).warnings
<1> DEFINE x == Facts(e)
           p == Pattern(x)
<1>1. /\ Interpret(e, rules).running = RunningVersion(x, p)
      /\ Interpret(e, rules).pattern = p
      /\ VersionWarnings(e, x, p) \subseteq Interpret(e, rules).warnings
  BY DEF Interpret
<1>2. CASE p = "CONFLICT"
  <2>1. "FIRMWARE_EVIDENCE_CONFLICT" \in VersionWarnings(e, x, p)
    BY <1>2 DEF VersionWarnings
  <2> QED BY <2>1, <1>1
<1>3. x.softwareKind \in {"CODE", "CODE16"} => x.software # None
  BY DEF Facts, VersionKind
<1>4. p = "BOOT_CODE" => x.software # None
  BY <1>3 DEF Pattern, CodesDiffer
<1>5. p = "SAME" \/ p = "SOFTWARE_ONLY" => x.software # None
  BY DEF Pattern
<1>6. p = "FIRMWARE_ONLY" => x.firmware # None
  BY DEF Pattern
<1>7. p \in {"BOOT", "BOOT_CODE", "UNKNOWN", "SOFTWARE_ONLY", "FIRMWARE_ONLY", "SAME", "CONFLICT"}
  BY DEF Pattern
<1>8. RunningVersion(x, p) = None
  BY <1>1
<1> HIDE DEF x, p
<1>9. p \notin {"BOOT_CODE", "SAME", "SOFTWARE_ONLY", "FIRMWARE_ONLY"}
  BY <1>4, <1>5, <1>6, <1>8 DEF RunningVersion
<1> QED BY <1>1, <1>2, <1>7, <1>9

\* What the status of a row rests on is among its warnings.
LEMMA IncompatibleIsWarned ==
  ASSUME NEW e, NEW rules, Interpret(e, rules).status = "INCOMPATIBLE"
  PROVE  "PLATFORM_INCOMPATIBLE" \in Interpret(e, rules).warnings
  BY DEF Interpret

LEMMA ObservedIsInterpreted ==
  ASSUME NEW e, NEW rules
  PROVE  \E seen, known : InterpretObserved(e, rules) = Interpret(seen, known)
  BY DEF InterpretObserved

LEMMA ReadingOfARow ==
  ASSUME NEW e, NEW rules, NEW r, r = InterpretObserved(e, rules)
  PROVE  /\ r.running = None => r.pattern \in {"UNKNOWN", "BOOT"} \/ "FIRMWARE_EVIDENCE_CONFLICT" \in r.warnings
         /\ r.status = "INCOMPATIBLE" => "PLATFORM_INCOMPATIBLE" \in r.warnings
<1>1. PICK seen, known : r = Interpret(seen, known)
  BY ObservedIsInterpreted
<1> QED BY <1>1, UnreadIsWarned, IncompatibleIsWarned
-----------------------------------------------------------------------------
(* The status.                                                              *)

\* An issue an engineer need not answer, that the reading raises.
LEMMA ReadingIssues ==
  ASSUME NEW resolutions, NEW reading
  PROVE  /\ reading.running = None =>
              Issue("currentFirmware", "WARNING", "OPTIONAL_FIELD_UNRESOLVED") \in IssuesOf(resolutions, reading)
         /\ reading.platform = None =>
              Issue("softwarePlatform", "WARNING", "OPTIONAL_FIELD_UNRESOLVED") \in IssuesOf(resolutions, reading)
<1> DEFINE unread == {Issue("currentFirmware", "WARNING", "OPTIONAL_FIELD_UNRESOLVED") : x \in {r \in {reading} : r.running = None}}
           unplaced == {Issue("softwarePlatform", "WARNING", "OPTIONAL_FIELD_UNRESOLVED") : x \in {r \in {reading} : r.platform = None}}
           fields == UNION {{i \in FieldIssues(f, resolutions[f]) :
                        i.code = "REQUIRED_FIELD_UNRESOLVED" => resolutions[f].target = None} : f \in Resolvable}
<1>0. IssuesOf(resolutions, reading) = fields \cup unread \cup unplaced
  BY Zenon DEF IssuesOf
<1>1. unread \subseteq IssuesOf(resolutions, reading) /\ unplaced \subseteq IssuesOf(resolutions, reading)
  <2> HIDE DEF unread, unplaced, fields
  <2> QED BY <1>0
<1>2. reading.running = None => Issue("currentFirmware", "WARNING", "OPTIONAL_FIELD_UNRESOLVED") \in unread
  OBVIOUS
<1>3. reading.platform = None => Issue("softwarePlatform", "WARNING", "OPTIONAL_FIELD_UNRESOLVED") \in unplaced
  OBVIOUS
<1> HIDE DEF unread, unplaced
<1> QED BY <1>1, <1>2, <1>3

\* A row is VALID when nothing blocks it and nothing it warns of is left.
LEMMA ValidIsClear ==
  ASSUME NEW prepared, NEW issues, NEW reading,
         Primary(Statuses(prepared, issues, reading)) = "VALID"
  PROVE  /\ ~NeedsReview(issues, reading)
         /\ \/ reading.warnings = {} /\ \A i \in issues : i.severity # "WARNING"
            \/ /\ Preserved(prepared.row, reading) # None
               /\ \A i \in issues : i.severity = "WARNING" => i.field = "currentFirmware"
<1>1. /\ "EXCLUDED" \notin Statuses(prepared, issues, reading)
      /\ "NEEDS_REVIEW" \notin Statuses(prepared, issues, reading)
      /\ "WARNING" \notin Statuses(prepared, issues, reading)
  BY DEF Primary
<1>2. ~prepared.excluded
  BY <1>1 DEF Statuses
<1> QED BY <1>1, <1>2 DEF Statuses

LEMMA EvaluatedFields ==
  ASSUME NEW row, NEW s, s = EvaluatedRow(row)
  PROVE  /\ s.row = row
         /\ s.resolutions = WithModel(Resolutions(Prepared(row).values), row.member)
         /\ s.reading = InterpretObserved(s.evidence, PlatformRules)
         /\ s.status = Primary(Statuses(Prepared(row), IssuesOf(s.resolutions, s.reading), s.reading))
         /\ s.errors = {i.field : i \in {x \in IssuesOf(s.resolutions, s.reading) : x.severity = "ERROR"}}
  BY DEF EvaluatedRow

\* What must hold of a row staged as VALID.
Trusted(s) ==
  /\ s.errors = {}
  /\ IF s.reading.running # None
     THEN VerificationOf(s.evidence, s.reading) \in {"VERIFY", "ALREADY_TRUSTED"}
     ELSE /\ s.row.known # None /\ s.reading.platform # None
          /\ s.reading.pattern \in {"UNKNOWN", "BOOT"}
          /\ s.reading.status # "INCOMPATIBLE"

LEMMA ValidIsTrusted ==
  ASSUME NEW row, NEW s, s = EvaluatedRow(row), s.status = "VALID"
  PROVE  Trusted(s)
<1> DEFINE prepared == Prepared(row)
           issues == IssuesOf(s.resolutions, s.reading)
           r == s.reading
<1>1. /\ s.row = row
      /\ r = InterpretObserved(s.evidence, PlatformRules)
      /\ s.status = Primary(Statuses(prepared, issues, r))
      /\ s.errors = {i.field : i \in {x \in issues : x.severity = "ERROR"}}
  <2>1. s.row = row /\ r = InterpretObserved(s.evidence, PlatformRules)
    BY EvaluatedFields
  <2>2. s.status = Primary(Statuses(prepared, issues, r))
    BY DEF EvaluatedRow
  <2>3. s.errors = {i.field : i \in {x \in issues : x.severity = "ERROR"}}
    BY EvaluatedFields
  <2> QED BY <2>1, <2>2, <2>3
<1>2. prepared.row = row
  BY DEF Prepared
<1> HIDE DEF prepared, issues, r
<1>3. /\ ~NeedsReview(issues, r)
      /\ \/ r.warnings = {} /\ \A i \in issues : i.severity # "WARNING"
         \/ /\ Preserved(prepared.row, r) # None
            /\ \A i \in issues : i.severity = "WARNING" => i.field = "currentFirmware"
  BY <1>1, ValidIsClear
<1>4. s.errors = {} /\ r.warnings \subseteq NonBlocking
  BY <1>1, <1>3 DEF NeedsReview
<1>5. /\ r.running = None => r.pattern \in {"UNKNOWN", "BOOT"} \/ "FIRMWARE_EVIDENCE_CONFLICT" \in r.warnings
      /\ r.status = "INCOMPATIBLE" => "PLATFORM_INCOMPATIBLE" \in r.warnings
  BY <1>1, ReadingOfARow
<1>6. r.status # "INCOMPATIBLE"
  BY <1>4, <1>5 DEF NonBlocking
<1>7. /\ r.running = None => \E i \in issues : i.severity = "WARNING" /\ i.field = "currentFirmware"
      /\ r.platform = None => \E i \in issues : i.severity = "WARNING" /\ i.field = "softwarePlatform"
  BY ReadingIssues DEF Issue, issues, r
<1>8. r.platform # None
  BY <1>3, <1>7
<1>9. CASE r.running # None
  <2>1. Preserved(prepared.row, r) = None
    BY <1>9 DEF Preserved
  <2>2. r.warnings = {}
    BY <2>1, <1>3
  <2>3. VerificationOf(s.evidence, r) \in {"VERIFY", "ALREADY_TRUSTED"}
    BY <2>2, <1>6, <1>8, <1>9 DEF VerificationOf
  <2> QED BY <2>3, <1>4, <1>9 DEF Trusted, r
<1>10. CASE r.running = None
  <2>1. row.known # None
    BY <1>1, <1>2, <1>3, <1>7, <1>10 DEF Preserved
  <2>2. r.pattern \in {"UNKNOWN", "BOOT"}
    BY <1>4, <1>5, <1>10 DEF NonBlocking
  <2> QED BY <2>1, <2>2, <1>1, <1>4, <1>6, <1>8, <1>10 DEF Trusted, r
<1> QED BY <1>9, <1>10

\* THEOREM: What is staged as VALID needs no engineer.
THEOREM ValidRowsAreTrusted == EvaluationSpec => []TrustIsEarned
<1>1. EvaluationInit => TrustIsEarned
  BY DEF EvaluationInit, TrustIsEarned
<1>2. TrustIsEarned /\ [EvaluationNext]_evaluationVars => TrustIsEarned'
  <2> SUFFICES ASSUME TrustIsEarned, [EvaluationNext]_evaluationVars, staged' # None, staged'.status = "VALID"
               PROVE  Trusted(staged')
    BY DEF TrustIsEarned, Trusted
  <2>1. CASE staged' = staged
    BY <2>1 DEF TrustIsEarned, Trusted
  <2>2. ASSUME NEW row \in Sheets, StageRow(row) PROVE Trusted(staged')
    <3>1. staged' = EvaluatedRow(row)
      BY <2>2 DEF StageRow
    <3> QED BY <3>1, ValidIsTrusted
  <2> QED BY <2>1, <2>2 DEF EvaluationNext, UploadAnother, SwitchRecord, Remember, Support, evaluationVars
<1> QED BY <1>1, <1>2, PTL DEF EvaluationSpec
-----------------------------------------------------------------------------
(* The decisions on the fields of a row.                                    *)

\* What is found in the catalog for a site is a site, and when its customer is
\* known, a site of that customer.
LEMMA SitesOfTheirCustomer ==
  ASSUME NEW text, NEW customer, NEW unit,
         ResolveField("site", text, customer, unit).source = "EXACT_CATALOG_MATCH"
  PROVE  \E r \in Records : /\ r.field = "site" /\ r.id = IdOf(ResolveField("site", text, customer, unit))
                            /\ customer \in {None, r.customer}
<1> DEFINE named == {x \in Active : x.field = "site" /\ x.label = text}
           found == InContext("site", named, customer, unit)
           targets == FromCatalog("site", text, customer, unit)
           decision == ResolveField("site", text, customer, unit)
<1>1. targets # {} /\ decision = OneOf("EXACT_CATALOG_MATCH", targets)
  BY DEF ResolveField, OneOf, Resolution, AmbiguousDecision
<1>2. decision = Resolution("EXACT_CATALOG_MATCH", CHOOSE t \in targets : TRUE)
  BY <1>1 DEF OneOf, AmbiguousDecision
<1>3. PICK t \in targets : decision.target = t
  BY <1>1, <1>2 DEF Resolution
<1>4. PICK r \in found : t = CanonicalValue(r.id, r.label)
  BY <1>3 DEF FromCatalog
<1>5. found \subseteq named
  BY DEF InContext
<1>6. r \in Records /\ r.field = "site"
  BY <1>4, <1>5 DEF Active
<1>7. IdOf(decision) = r.id
  BY <1>3, <1>4, <1>6, EvaluationAssumption DEF IdOf, CanonicalValue
<1>8. customer \in {None, r.customer}
  <2>1. CASE customer = None
    BY <2>1
  <2>2. CASE customer # None
    <3>1. ~\A x \in named : x.customer = None
      BY <1>4, <1>5, <1>6, EvaluationAssumption DEF EvaluationAssumption
    <3>2. found \subseteq {x \in named : x.customer = customer}
      BY <2>2, <3>1 DEF InContext
    <3> QED BY <3>2, <1>4
  <2> QED BY <2>1, <2>2
<1> QED BY <1>6, <1>7, <1>8

\* Laying the relations of the model over a decision either takes them or
\* reports the field.
LEMMA RelationsAreTaken ==
  ASSUME NEW resolution, NEW target, target # None,
         ~Related(resolution, target).ambiguous
  PROVE  IdOf(Related(resolution, target)) = target.id
  BY DEF Related, Resolution, AmbiguousDecision, IdOf

LEMMA AmbiguityIsAnError ==
  ASSUME NEW resolutions, NEW reading, NEW f \in Resolvable, resolutions[f].ambiguous
  PROVE  \E i \in IssuesOf(resolutions, reading) : i.severity = "ERROR"
<1> DEFINE i == Issue(f, "ERROR", "AMBIGUOUS_DECISION")
<1>1. i \in FieldIssues(f, resolutions[f])
  BY DEF FieldIssues
<1>2. i.code # "REQUIRED_FIELD_UNRESOLVED" /\ i.severity = "ERROR"
  BY DEF Issue
<1>3. i \in IssuesOf(resolutions, reading)
  <2> HIDE DEF i
  <2> QED BY <1>1, <1>2 DEF IssuesOf
<1> QED BY <1>2, <1>3

LEMMA RowHangsTogether ==
  ASSUME NEW row, NEW s, s = EvaluatedRow(row)
  PROVE  /\ s.resolutions["site"].source = "EXACT_CATALOG_MATCH" =>
              IdOf(s.resolutions["customer"]) \in {None} \cup {r.customer : r \in Site(s.resolutions["site"])}
         /\ s.errors = {} =>
              \A f \in DOMAIN RelationOf(s.resolutions, s.row.member) :
                RelationOf(s.resolutions, s.row.member)[f] # None =>
                  IdOf(s.resolutions[f]) = RelationOf(s.resolutions, s.row.member)[f].id
<1> DEFINE values == Prepared(row).values
           first == Resolutions(values)
           customer == ResolveField("customer", values["customer"], None, None)
           unit == ResolveField("businessUnit", values["businessUnit"], IdOf(customer), None)
           relation == RelationOf(first, row.member)
<1>1. s.row = row /\ s.resolutions = WithModel(first, row.member)
  BY EvaluatedFields
<1>2. DOMAIN relation = {"vendor", "deviceType", "productFamily"}
  BY DEF RelationOf
<1>3. /\ s.resolutions["customer"] = first["customer"]
      /\ s.resolutions["site"] = first["site"]
      /\ s.resolutions["model"] = first["model"]
  BY <1>1, <1>2 DEF WithModel, Resolvable
<1>4. /\ first["customer"] = customer
      /\ first["site"] = ResolveField("site", values["site"], IdOf(customer), IdOf(unit))
  BY DEF Resolutions, Resolvable
<1> HIDE DEF values, first, customer, unit
<1>5. ASSUME s.resolutions["site"].source = "EXACT_CATALOG_MATCH"
      PROVE  IdOf(s.resolutions["customer"]) \in {None} \cup {r.customer : r \in Site(s.resolutions["site"])}
  <2>1. PICK r \in Records : /\ r.field = "site" /\ r.id = IdOf(s.resolutions["site"])
                             /\ IdOf(customer) \in {None, r.customer}
    BY <1>3, <1>4, <1>5, SitesOfTheirCustomer
  <2>2. r \in Site(s.resolutions["site"])
    BY <2>1 DEF Site
  <2> QED BY <2>1, <2>2, <1>3, <1>4
<1>6. RelationOf(s.resolutions, s.row.member) = relation
  BY <1>1, <1>3 DEF RelationOf
<1>7. ASSUME s.errors = {}, NEW f \in DOMAIN relation, relation[f] # None
      PROVE  IdOf(s.resolutions[f]) = relation[f].id
  <2>1. f \in Resolvable
    BY <1>2 DEF Resolvable
  <2>2. s.resolutions[f] = Related(first[f], relation[f])
    BY <1>1, <2>1 DEF WithModel
  <2>3. ~s.resolutions[f].ambiguous
    <3>1. SUFFICES ASSUME s.resolutions[f].ambiguous PROVE FALSE
      OBVIOUS
    <3>2. PICK i \in IssuesOf(s.resolutions, s.reading) : i.severity = "ERROR"
      BY <2>1, <3>1, AmbiguityIsAnError
    <3>3. s.errors = {x.field : x \in {y \in IssuesOf(s.resolutions, s.reading) : y.severity = "ERROR"}}
      BY EvaluatedFields
    <3> QED BY <1>7, <3>2, <3>3
  <2> HIDE DEF relation
  <2> QED BY <1>7, <2>2, <2>3, RelationsAreTaken
<1> HIDE DEF relation
<1> QED BY <1>5, <1>6, <1>7

\* THEOREM: The site found for a row is one of its customer, and in a row without
\* errors vendor, type and family are those of its model.
THEOREM RowsAlwaysHangTogether == EvaluationSpec => []RowsHangTogether
<1>1. EvaluationInit => RowsHangTogether
  BY DEF EvaluationInit, RowsHangTogether
<1>2. RowsHangTogether /\ [EvaluationNext]_evaluationVars => RowsHangTogether'
  <2> SUFFICES ASSUME RowsHangTogether, [EvaluationNext]_evaluationVars PROVE RowsHangTogether'
    OBVIOUS
  <2>1. CASE staged' = None
    BY <2>1 DEF RowsHangTogether
  <2>2. CASE UNCHANGED evaluationVars
    BY <2>2 DEF RowsHangTogether, evaluationVars, RelationOf, Active, Site
  <2>3. ASSUME NEW row \in Sheets, StageRow(row) PROVE RowsHangTogether'
    <3>1. staged' = EvaluatedRow(row) /\ inactive' = inactive
      BY <2>3 DEF StageRow
    <3>2. \A resolutions, member : RelationOf(resolutions, member)' = RelationOf(resolutions, member)
      BY <3>1 DEF RelationOf, Active
    <3> QED BY <3>1, <3>2, RowHangsTogether DEF RowsHangTogether, Site
  <2> QED BY <2>1, <2>2, <2>3 DEF EvaluationNext, UploadAnother, SwitchRecord, Remember, Support
<1> QED BY <1>1, <1>2, PTL DEF EvaluationSpec
-----------------------------------------------------------------------------
(* Which rules match a row: the index misses none.                          *)

LEMMA OneOfOne ==
  ASSUME NEW S, IsFiniteSet(S), Cardinality(S) = 1
  PROVE  \E x : S = {x}
  BY FS_Singleton

\* Texts that are compared as equal have one key.
LEMMA EqualTextsShareTheirKey ==
  ASSUME NEW c, NEW values, IsStaged(values), c.field \in Fields, c.value \in Texts,
         c.operator \in {"EXACT", "NORMALIZED_EXACT"}, ConditionMatches(c, values)
  PROVE  Key(values[c.field]) = Key(c.value)
<1> DEFINE t == values[c.field]
           u == c.value
<1>1. Compared(c, t) = Compared(c, u) /\ Compared(c, t) # None /\ Compared(c, u) # None
  BY DEF ConditionMatches
<1>2. t = None \/ t \in Texts
  BY DEF IsStaged, IsText
<1> SUFFICES Key(t) = Key(u)
  BY DEF t, u
<1> HIDE DEF t, u
<1>3. CASE c.operator = "EXACT"
  <2>1. /\ Compared(c, t) = IF t = None \/ c.exactCase THEN t ELSE Lower[t]
        /\ Compared(c, u) = IF u = None \/ c.exactCase THEN u ELSE Lower[u]
    BY <1>3 DEF Compared
  <2>2. u \in Texts /\ u # None
    BY TextsAssumption DEF u, TextsAssumption
  <2>3. t \in Texts /\ t # None
    BY <1>1, <1>2, <2>1, TextsAssumption DEF TextsAssumption
  <2>4. t = u \/ Lower[t] = Lower[u]
    BY <1>1, <2>1, <2>2, <2>3
  <2> QED BY <2>2, <2>3, <2>4, TextsAssumption DEF TextsAssumption
<1>4. CASE c.operator = "NORMALIZED_EXACT"
  <2>1. /\ Compared(c, t) = IF NormalOf(t) = None \/ c.exactCase THEN NormalOf(t) ELSE Lower[NormalOf(t)]
        /\ Compared(c, u) = IF NormalOf(u) = None \/ c.exactCase THEN NormalOf(u) ELSE Lower[NormalOf(u)]
    BY <1>4 DEF Compared
  <2>2. Lower[NormalOf(t)] = Lower[NormalOf(u)]
    BY <1>1, <2>1
  <2>3. NormalOf(t) # None /\ NormalOf(u) # None
    BY <1>1, <2>1
  <2>4. NormalOf(t) = Normal[t] /\ NormalOf(u) = Normal[u]
    BY <2>3 DEF NormalOf
  <2> QED BY <2>2, <2>3, <2>4 DEF Key
<1> QED BY <1>3, <1>4

\* A dimension comes first among those that may anchor a rule.
LEMMA FirstAnchor ==
  ASSUME NEW r, Anchors(r) # {}
  PROVE  \E i \in Anchors(r) : \A j \in Anchors(r) : i <= j
<1>1. Anchors(r) \subseteq 1..10
  BY DEF Anchors, ScopeOrder
<1> DEFINE A == Anchors(r)
<1>2. A # {} /\ A \subseteq 1..10
  BY <1>1
<1> HIDE DEF A
<1> SUFFICES \E i \in A : \A j \in A : i <= j
  BY DEF A
<1>3. SUFFICES ASSUME \A i \in A : \E j \in A : j < i PROVE FALSE
  BY <1>2
<1>4. 1 \notin A /\ 2 \notin A /\ 3 \notin A
  BY <1>2, <1>3
<1>5. 4 \notin A /\ 5 \notin A /\ 6 \notin A /\ 7 \notin A
  BY <1>2, <1>3, <1>4
<1>6. 8 \notin A /\ 9 \notin A /\ 10 \notin A
  BY <1>2, <1>3, <1>4, <1>5
<1>7. \A i \in 1..10 : i \in {1, 2, 3, 4, 5, 6, 7, 8, 9, 10}
  OBVIOUS
<1> QED BY <1>2, <1>4, <1>5, <1>6, <1>7

LEMMA AnchoredByScope ==
  ASSUME NEW r, NEW values, IsRule(r), Anchors(r) # {}, ScopeMatches(r, values)
  PROVE  RuleAnchor(r) \in RowAnchors(values)
<1> DEFINE least == CHOOSE i \in Anchors(r) : \A j \in Anchors(r) : i <= j
           d == ScopeOrder[least]
           t == CHOOSE t \in r.scope[d] : TRUE
<1>1. least \in Anchors(r)
  BY FirstAnchor
<1>2. RuleAnchor(r) = <<"scope", d, Key(t)>>
  BY DEF RuleAnchor
<1> HIDE DEF least
<1>3. d \in Dimensions /\ d \in DOMAIN r.scope /\ Cardinality(r.scope[d]) = 1
  BY <1>1 DEF Anchors, Dimensions
<1> HIDE DEF d
<1>4. PICK x : r.scope[d] = {x}
  BY <1>3, OneOfOne DEF IsRule, IsScope
<1>5. t = x
  BY <1>4
<1>6. Key(Placed(values, d)) = Key(x)
  <2>1. r.scope[d] = {} \/ Key(Placed(values, d)) \in {Key(y) : y \in r.scope[d]} \ {None}
    BY <1>3 DEF ScopeMatches
  <2> QED BY <1>4, <2>1
<1>7. d \in Fields \cup DOMAIN Context
  <2>1. "sourceFields" \notin Dimensions
    BY DEF Dimensions, ScopeOrder
  <2> QED BY <1>3, <2>1 DEF IsRule, IsScope
<1>8. <<"scope", d, Key(Placed(values, d))>> \in RowAnchors(values)
  BY <1>3, <1>7 DEF RowAnchors
<1> QED BY <1>2, <1>5, <1>6, <1>8

LEMMA AnchoredByCondition ==
  ASSUME NEW r, NEW values, IsRule(r), IsStaged(values),
         Anchors(r) = {}, ConditionAnchors(r.when) # {}, WhenMatches(r.when, values)
  PROVE  RuleAnchor(r) \in RowAnchors(values)
<1> DEFINE c == CHOOSE c \in ConditionAnchors(r.when) : TRUE
<1>1. c \in ConditionAnchors(r.when)
  OBVIOUS
<1>2. RuleAnchor(r) = <<"field", c.field, Key(c.value)>>
  BY DEF RuleAnchor
<1> HIDE DEF c
<1>3. /\ c \in r.when.items
      /\ r.when.all \/ Cardinality(r.when.items) = 1
      /\ c.operator \in {"EXACT", "NORMALIZED_EXACT"}
  BY <1>1 DEF ConditionAnchors
<1>4. ConditionMatches(c, values)
  <2>1. CASE r.when.all
    BY <1>3, <2>1 DEF WhenMatches
  <2>2. CASE ~r.when.all
    <3>1. PICK x : r.when.items = {x}
      BY <1>3, <2>2, OneOfOne DEF IsRule, IsScope
    <3> QED BY <1>3, <2>2, <3>1 DEF WhenMatches
  <2> QED BY <2>1, <2>2
<1>5. c.field \in Fields /\ c.value \in Texts
  BY <1>3 DEF IsRule, IsScope
<1>6. Key(values[c.field]) = Key(c.value)
  BY <1>3, <1>4, <1>5, EqualTextsShareTheirKey
<1> QED BY <1>2, <1>5, <1>6 DEF RowAnchors

LEMMA IndexMissesNothing ==
  ASSUME NEW rules, NEW values, \A r \in rules : IsRule(r), IsStaged(values)
  PROVE  Matched(rules, values) = AllMatching(rules, values)
<1>1. SUFFICES ASSUME NEW r \in rules, r.status = "ACTIVE", ScopeMatches(r, values), WhenMatches(r.when, values)
               PROVE  RuleAnchor(r) \in RowAnchors(values)
  BY DEF Matched, AllMatching
<1>2. CASE Anchors(r) = {} /\ ConditionAnchors(r.when) = {}
  BY <1>2 DEF RuleAnchor, RowAnchors
<1> QED BY <1>1, <1>2, AnchoredByScope, AnchoredByCondition
-----------------------------------------------------------------------------
(* The choice among the rules that match.                                   *)

Contender(r, i) == [rule |-> r, action |-> r.actions[i], index |-> i, specificity |-> Specificity(r)]

LEMMA ContendersOfARule ==
  ASSUME NEW rules, NEW values
  PROVE  \A c : c \in Contenders(rules, values) <=>
           \E r \in Matched(rules, values) : \E i \in DOMAIN r.actions : c = Contender(r, i)
<1> DEFINE of(r) == {Contender(r, i) : i \in DOMAIN r.actions}
<1>1. Contenders(rules, values) = UNION {of(r) : r \in Matched(rules, values)}
  BY DEF Contenders, Contender
<1>2. \A r, c : c \in of(r) <=> \E i \in DOMAIN r.actions : c = Contender(r, i)
  OBVIOUS
<1> HIDE DEF of
<1>3. \A c : c \in Contenders(rules, values) <=> \E r \in Matched(rules, values) : c \in of(r)
  BY <1>1
<1> QED BY <1>2, <1>3

LEMMA WishesOfARule ==
  ASSUME NEW rules, NEW slot, NEW v
  PROVE  v \in Wishes(rules, slot) <=>
           \E r \in rules : \E i \in DOMAIN r.actions : slot \in Slots(r.actions[i]) /\ v = Signature(r.actions[i])
<1> DEFINE at(r) == {j \in DOMAIN r.actions : slot \in Slots(r.actions[j])}
           of(r) == {Signature(r.actions[i]) : i \in at(r)}
<1>1. Wishes(rules, slot) = UNION {of(r) : r \in rules}
  BY DEF Wishes
<1>2. \A r : v \in of(r) <=> \E i \in DOMAIN r.actions : slot \in Slots(r.actions[i]) /\ v = Signature(r.actions[i])
  OBVIOUS
<1> HIDE DEF of
<1>3. v \in Wishes(rules, slot) <=> \E r \in rules : v \in of(r)
  BY <1>1
<1> QED BY <1>2, <1>3

\* A rule speaks for a slot when one of its actions writes it.
Speaks(r, slot) == \E i \in DOMAIN r.actions : slot \in Slots(r.actions[i])

LEMMA SpeakersHaveWishes ==
  ASSUME NEW r, NEW slot
  PROVE  Wishes({r}, slot) # {} <=> Speaks(r, slot)
<1>1. \A v : v \in Wishes({r}, slot) <=>
        \E i \in DOMAIN r.actions : slot \in Slots(r.actions[i]) /\ v = Signature(r.actions[i])
  BY WishesOfARule
<1> QED BY <1>1 DEF Speaks

LEMMA BestSpeakers ==
  ASSUME NEW rules, NEW slot, NEW r
  PROVE  r \in Best(rules, slot) <=> /\ r \in rules /\ Speaks(r, slot)
                                     /\ \A s \in rules : Speaks(s, slot) => ~Outranks(s, r)
  BY SpeakersHaveWishes DEF Best

\* The highest tier of a slot are the actions of the best rules.
LEMMA TierIsBest ==
  ASSUME NEW rules, NEW values, NEW all, all = Matched(rules, values),
         NEW slot, NEW r \in all, NEW i \in DOMAIN r.actions, slot \in Slots(r.actions[i])
  PROVE  Contender(r, i) \in Tier(slot, Contenders(rules, values)) <=> r \in Best(all, slot)
<1> DEFINE cs == Contenders(rules, values)
           c == Contender(r, i)
<1>1. c \in cs
  BY ContendersOfARule
<1>2. \A s, j : Above(Contender(s, j), c) <=> Outranks(s, r)
  BY DEF Above, Outranks, Contender
<1>3. \A s, j : Contender(s, j).action = s.actions[j] /\ c.action = r.actions[i]
  BY DEF Contender
<1>4. \A d : (d \in cs /\ slot \in Slots(d.action)) <=>
             \E s \in all : \E j \in DOMAIN s.actions : d = Contender(s, j) /\ slot \in Slots(s.actions[j])
  BY <1>3, ContendersOfARule
<1> HIDE DEF cs, c
<1>5. c \in Tier(slot, cs) <=> \A d : (d \in cs /\ slot \in Slots(d.action)) => ~Above(d, c)
  BY <1>1, <1>3 DEF Tier
<1>6. c \in Tier(slot, cs) <=>
        \A s \in all : \A j \in DOMAIN s.actions : slot \in Slots(s.actions[j]) => ~Above(Contender(s, j), c)
  BY <1>4, <1>5
<1>7. c \in Tier(slot, cs) <=> \A s \in all : Speaks(s, slot) => ~Outranks(s, r)
  BY <1>2, <1>6 DEF Speaks
<1>8. r \in Best(all, slot) <=> \A s \in all : Speaks(s, slot) => ~Outranks(s, r)
  BY BestSpeakers DEF Speaks
<1> QED BY <1>7, <1>8 DEF c, cs

LEMMA TierMembers ==
  ASSUME NEW rules, NEW values, NEW all, all = Matched(rules, values), NEW slot, NEW d
  PROVE  d \in Tier(slot, Contenders(rules, values)) <=>
           \E r \in Best(all, slot) : \E i \in DOMAIN r.actions : d = Contender(r, i) /\ slot \in Slots(r.actions[i])
<1>1. \A r \in Best(all, slot) : r \in all
  BY DEF Best
<1>2. ASSUME d \in Tier(slot, Contenders(rules, values))
      PROVE  \E r \in Best(all, slot) : \E i \in DOMAIN r.actions : d = Contender(r, i) /\ slot \in Slots(r.actions[i])
  <2>1. d \in Contenders(rules, values) /\ slot \in Slots(d.action)
    BY <1>2 DEF Tier
  <2>2. PICK r \in all : \E i \in DOMAIN r.actions : d = Contender(r, i)
    BY <2>1, ContendersOfARule
  <2>3. PICK i \in DOMAIN r.actions : d = Contender(r, i)
    BY <2>2
  <2>4. slot \in Slots(r.actions[i])
    BY <2>1, <2>3 DEF Contender
  <2>5. r \in Best(all, slot)
    BY <1>2, <2>3, <2>4, TierIsBest
  <2> QED BY <2>3, <2>4, <2>5
<1>3. ASSUME NEW r \in Best(all, slot), NEW i \in DOMAIN r.actions, d = Contender(r, i), slot \in Slots(r.actions[i])
      PROVE  d \in Tier(slot, Contenders(rules, values))
  BY <1>1, <1>3, TierIsBest
<1> QED BY <1>2, <1>3

\* The highest tier agrees unless the slot is disputed.
LEMMA AgreedUnlessDisputed ==
  ASSUME NEW rules, NEW values, NEW all, all = Matched(rules, values), NEW slot
  PROVE  Agree(Tier(slot, Contenders(rules, values))) <=> ~Disputed(all, slot)
<1> DEFINE T == Tier(slot, Contenders(rules, values))
<1>1. \A v : v \in Wishes(Best(all, slot), slot) <=> \E d \in T : v = Signature(d.action)
  <2>1. TAKE v
  <2>2. v \in Wishes(Best(all, slot), slot) <=>
          \E r \in Best(all, slot) : \E i \in DOMAIN r.actions : slot \in Slots(r.actions[i]) /\ v = Signature(r.actions[i])
    BY WishesOfARule
  <2>3. \A r, i : Contender(r, i).action = r.actions[i]
    BY DEF Contender
  <2>4. \A d : d \in T <=>
          \E r \in Best(all, slot) : \E i \in DOMAIN r.actions : d = Contender(r, i) /\ slot \in Slots(r.actions[i])
    BY TierMembers
  <2> HIDE DEF T
  <2> QED BY <2>2, <2>3, <2>4
<1> HIDE DEF T
<1>2. Disputed(all, slot) <=> \E c, d \in T : Signature(c.action) # Signature(d.action)
  BY <1>1 DEF Disputed
<1>3. Agree(T) <=> \A c, d \in T : Signature(c.action) = Signature(d.action)
  BY DEF Agree
<1> QED BY <1>2, <1>3 DEF T

LEMMA SelectionIsByRank ==
  ASSUME NEW rules, NEW values, \A r \in rules : IsRule(r), IsStaged(values)
  PROVE  SelectedByRank(rules, values)
<1> DEFINE all == AllMatching(rules, values)
           cs == Contenders(rules, values)
           e == Evaluated(rules, values)
<1>1. all = Matched(rules, values) /\ all \subseteq rules
  BY IndexMissesNothing DEF AllMatching
<1>2. e.conflicts = Conflicts(cs) /\ e.winners = Winners(cs)
  BY DEF Evaluated, DecidedBy, Decided
<1>3. \A slot : Agree(Tier(slot, cs)) <=> ~Disputed(all, slot)
  BY <1>1, AgreedUnlessDisputed
<1>4. ASSUME NEW slot PROVE slot \in e.conflicts <=> Disputed(all, slot)
  <2>1. slot \in e.conflicts => Disputed(all, slot)
    BY <1>2, <1>3 DEF Conflicts
  <2>2. ASSUME Disputed(all, slot) PROVE slot \in e.conflicts
    <3>1. PICK c, d \in Tier(slot, cs) : Signature(c.action) # Signature(d.action)
      BY <1>3, <2>2 DEF Agree
    <3>2. c \in cs /\ slot \in Slots(c.action)
      BY <3>1 DEF Tier
    <3>3. slot \in UNION {Slots(x.action) : x \in cs}
      BY <3>2
    <3> QED BY <1>2, <1>3, <2>2, <3>3 DEF Conflicts
  <2> QED BY <2>1, <2>2
<1>5. ASSUME NEW r \in rules, NEW i \in DOMAIN r.actions
      PROVE  Wins(e, r, i) <=> /\ r \in all
                               /\ \A slot \in Slots(r.actions[i]) : r \in Best(all, slot) /\ ~Disputed(all, slot)
  <2> DEFINE c == Contender(r, i)
  <2>1. c.rule = r /\ c.index = i /\ c.action = r.actions[i]
    BY DEF Contender
  <2>2. \A s, j : Contender(s, j).rule = s /\ Contender(s, j).index = j
    BY DEF Contender
  <2>3. \A x \in cs : x.rule = r /\ x.index = i => x = c
    BY <2>2, ContendersOfARule
  <2>4. c \in cs <=> r \in all
    BY <1>1, <2>1, <2>2, ContendersOfARule
  <2>5. \A x : x \in e.winners <=>
          x \in cs /\ \A slot \in Slots(x.action) : x \in Tier(slot, cs) /\ Agree(Tier(slot, cs))
    BY <1>2 DEF Winners
  <2>6. r \in all => \A slot \in Slots(r.actions[i]) : c \in Tier(slot, cs) <=> r \in Best(all, slot)
    BY <1>1, TierIsBest
  <2> HIDE DEF c, e, cs, all
  <2>7. Wins(e, r, i) <=> c \in e.winners
    BY <2>1, <2>3, <2>5 DEF Wins
  <2> QED BY <1>3, <2>1, <2>4, <2>5, <2>6, <2>7
<1> HIDE DEF e, all
<1>6. SelectedByRank(rules, values) <=>
        /\ \A slot \in Fields \cup {"row:inclusion", "row:device-match"} :
             slot \in e.conflicts <=> Disputed(all, slot)
        /\ \A r \in rules : \A i \in DOMAIN r.actions :
             Wins(e, r, i) <=> /\ r \in all
                               /\ \A slot \in Slots(r.actions[i]) :
                                    r \in Best(all, slot) /\ ~Disputed(all, slot)
  BY DEF SelectedByRank, e, all
<1> QED BY <1>4, <1>5, <1>6
-----------------------------------------------------------------------------
(* Induction: a set of naturals has a least member.                         *)

LEMMA LessIsWellFounded == IsWellFoundedOn({p \in Nat \X Nat : p[1] < p[2]}, Nat)
  BY NatLessThanWellFounded DEF OpToRel

LEMMA LeastNatural ==
  ASSUME NEW T, T \subseteq Nat, T # {}
  PROVE  \E n \in T : \A m \in T : n <= m
<1> DEFINE R == {p \in Nat \X Nat : p[1] < p[2]}
<1>1. IsWellFoundedOn(R, Nat)
  BY LessIsWellFounded
<1>2. \A m, n \in Nat : m < n => <<m, n>> \in R
  OBVIOUS
<1> HIDE DEF R
<1>3. PICK n \in T : \A m \in T : <<m, n>> \notin R
  BY <1>1, WFMin
<1>4. \A m \in T : ~(m < n)
  BY <1>2, <1>3
<1> QED BY <1>4

-----------------------------------------------------------------------------
(* The order in which the winners are applied.                              *)

\* A strict order of a finite set that leaves no two members level.
IsOrdered(cs) ==
  /\ IsFiniteSet(cs)
  /\ \A c \in cs : ~Before(c, c)
  /\ \A c, d \in cs : c = d \/ Before(c, d) \/ Before(d, c)
  /\ \A b, c, d \in cs : Before(b, c) /\ Before(c, d) => Before(b, d)

Below(cs, c) == {d \in cs : Before(d, c)}

LEMMA RankedOnce ==
  ASSUME NEW cs, IsOrdered(cs), NEW c \in cs, NEW d \in cs, Before(c, d)
  PROVE  Cardinality(Below(cs, c)) < Cardinality(Below(cs, d))
<1>1. Below(cs, c) \subseteq Below(cs, d) /\ c \in Below(cs, d) /\ c \notin Below(cs, c)
  BY DEF IsOrdered, Below
<1>2. IsFiniteSet(Below(cs, d)) /\ IsFiniteSet(Below(cs, c))
  BY FS_Subset DEF IsOrdered, Below
<1>3. Cardinality(Below(cs, c)) <= Cardinality(Below(cs, d))
  BY <1>1, <1>2, FS_Subset
<1>4. Cardinality(Below(cs, c)) # Cardinality(Below(cs, d))
  BY <1>1, <1>2, FS_Subset
<1>5. Cardinality(Below(cs, c)) \in Nat /\ Cardinality(Below(cs, d)) \in Nat
  BY <1>2, FS_CardinalityType
<1> QED BY <1>3, <1>4, <1>5

\* Every place up to the number of members is taken by one of them.
LEMMA EveryRankIsTaken ==
  ASSUME NEW cs, IsOrdered(cs), NEW n \in 1..Cardinality(cs)
  PROVE  \E c \in cs : Cardinality(Below(cs, c)) = n - 1
<1> DEFINE k == Cardinality(cs)
           ranks == 0..(k - 1)
           rank == [c \in cs |-> Cardinality(Below(cs, c))]
<1>1. IsFiniteSet(cs) /\ k \in Nat
  BY FS_CardinalityType DEF IsOrdered
<1>2. \A c \in cs : Cardinality(Below(cs, c)) \in ranks
  <2>1. TAKE c \in cs
  <2>2. Below(cs, c) \in SUBSET cs /\ c \notin Below(cs, c)
    BY DEF Below, IsOrdered
  <2>3. IsFiniteSet(Below(cs, c)) /\ Cardinality(Below(cs, c)) <= k /\ Cardinality(Below(cs, c)) # k
    BY <1>1, <2>2, FS_Subset
  <2>4. Cardinality(Below(cs, c)) \in Nat
    BY <2>3, FS_CardinalityType
  <2> QED BY <1>1, <2>3, <2>4
<1>3. \A c, d \in cs : rank[c] = rank[d] => c = d
  <2>1. TAKE c, d \in cs
  <2>2. Before(c, d) => Cardinality(Below(cs, c)) < Cardinality(Below(cs, d))
    BY RankedOnce
  <2>3. Before(d, c) => Cardinality(Below(cs, d)) < Cardinality(Below(cs, c))
    BY RankedOnce
  <2>4. Cardinality(Below(cs, c)) \in Int /\ Cardinality(Below(cs, d)) \in Int
    BY <1>2
  <2> QED BY <2>2, <2>3, <2>4 DEF IsOrdered
<1>4. IsFiniteSet(ranks) /\ Cardinality(ranks) = k
  <2>1. 0 \in Int /\ k - 1 \in Int
    BY <1>1
  <2>2. IsFiniteSet(ranks) /\ Cardinality(ranks) = IF 0 > k - 1 THEN 0 ELSE (k - 1) - 0 + 1
    BY <2>1, FS_Interval
  <2> QED BY <1>1, <2>2
<1>5. rank \in [cs -> ranks]
  BY <1>2
<1>6. n - 1 \in ranks
  BY <1>1
<1> HIDE DEF rank, ranks, k
<1>7. rank \in Injection(cs, ranks)
  BY <1>3, <1>5 DEF Injection, IsInjective
<1>8. rank \in Surjection(cs, ranks)
  BY <1>4, <1>7, FS_Injection DEF k
<1>9. PICK c \in cs : rank[c] = n - 1
  BY <1>6, <1>8 DEF Surjection
<1> QED BY <1>9 DEF rank

LEMMA RankedMembers ==
  ASSUME NEW cs, IsOrdered(cs)
  PROVE  /\ Cardinality(cs) \in Nat
         /\ DOMAIN Ranked(cs) = 1..Cardinality(cs) /\ Len(Ranked(cs)) = Cardinality(cs)
         /\ \A n \in 1..Cardinality(cs) : Ranked(cs)[n] \in cs
<1>1. Cardinality(cs) \in Nat
  BY FS_CardinalityType DEF IsOrdered
<1>2. \A n \in 1..Cardinality(cs) : Ranked(cs)[n] = CHOOSE c \in cs : Cardinality(Below(cs, c)) = n - 1
  BY DEF Ranked, Below
<1>3. \A n \in 1..Cardinality(cs) : Ranked(cs)[n] \in cs
  <2>1. TAKE n \in 1..Cardinality(cs)
  <2>2. \E c \in cs : Cardinality(Below(cs, c)) = n - 1
    BY EveryRankIsTaken
  <2> QED BY <1>2, <2>2
<1>4. DOMAIN Ranked(cs) = 1..Cardinality(cs)
  BY DEF Ranked
<1>5. Len(Ranked(cs)) = Cardinality(cs)
  BY <1>1, <1>3, <1>4
<1> QED BY <1>1, <1>3, <1>4, <1>5
-----------------------------------------------------------------------------
(* The row a rule set makes of a row.                                       *)

StepOf(values, order, n, before) == IF n = 0 THEN Staged(values) ELSE Applied(before, order[n].action)
IsRun(run, values, order, k) == run = [n \in 0..k |-> StepOf(values, order, n, run[n - 1])]

LEMMA RunsExist ==
  ASSUME NEW values, NEW order, NEW k \in Nat
  PROVE  \E run : IsRun(run, values, order, k)
<1> DEFINE T == {n \in 0..k : ~\E run : IsRun(run, values, order, n)}
<1>1. SUFFICES ASSUME T # {} PROVE FALSE
  OBVIOUS
<1>2. PICK n \in T : \A m \in T : n <= m
  <2>1. T \subseteq Nat
    OBVIOUS
  <2> HIDE DEF T
  <2> QED BY <1>1, <2>1, LeastNatural
<1>3. n \in Nat /\ n <= k /\ ~\E run : IsRun(run, values, order, n)
  OBVIOUS
<1>4. CASE n = 0
  <2> DEFINE run == [i \in 0..0 |-> Staged(values)]
  <2>1. run = [i \in 0..0 |-> StepOf(values, order, i, run[i - 1])]
    BY DEF StepOf
  <2> QED BY <1>3, <1>4, <2>1 DEF IsRun
<1>5. CASE n # 0
  <2>1. n - 1 \in 0..k /\ n - 1 \notin T
    BY <1>2, <1>3, <1>5
  <2>2. PICK run : IsRun(run, values, order, n - 1)
    BY <2>1
  <2> DEFINE next == [i \in 0..n |-> IF i < n THEN run[i] ELSE StepOf(values, order, n, run[n - 1])]
  <2>3. \A i \in 0..(n - 1) : run[i] = StepOf(values, order, i, run[i - 1])
    BY <2>2 DEF IsRun
  <2>4. ASSUME NEW i \in 0..n PROVE next[i] = StepOf(values, order, i, next[i - 1])
    <3>1. CASE i = 0
      <4>1. next[i] = run[0] /\ run[0] = StepOf(values, order, 0, run[0 - 1])
        BY <1>3, <1>5, <2>3, <3>1
      <4> QED BY <3>1, <4>1 DEF StepOf
    <3>2. CASE i # 0
      <4>1. i - 1 \in 0..n /\ i - 1 < n /\ next[i - 1] = run[i - 1]
        BY <1>3, <3>2
      <4>2. CASE i < n
        BY <1>3, <2>3, <4>1, <4>2
      <4>3. CASE i = n
        BY <1>3, <4>1, <4>3
      <4> QED BY <1>3, <4>2, <4>3
    <3> QED BY <3>1, <3>2
  <2>5. IsRun(next, values, order, n)
    <3>1. next = [i \in 0..n |-> next[i]]
      OBVIOUS
    <3> HIDE DEF next
    <3> QED BY <2>4, <3>1 DEF IsRun
  <2> QED BY <1>3, <2>5
<1> QED BY <1>4, <1>5

\* No action touches a field that it does not write.
LEMMA OneActionKeeps ==
  ASSUME NEW s, "values" \in DOMAIN s, DOMAIN s.values = Fields,
         NEW a, NEW f \in Fields, f \notin Slots(a)
  PROVE  /\ "values" \in DOMAIN Applied(s, a) /\ DOMAIN Applied(s, a).values = Fields
         /\ Applied(s, a).values[f] = s.values[f]
<1> DEFINE t == Applied(s, a)
           Kept(u) == "values" \in DOMAIN u /\ DOMAIN u.values = Fields /\ u.values[f] = s.values[f]
<1> SUFFICES Kept(t)
  OBVIOUS
<1>1. ASSUME NEW g, NEW v, NEW mapped, NEW ignored, g # f PROVE Kept(Written(s, g, v, mapped, ignored))
  <2>1. Written(s, g, v, mapped, ignored).values = [s.values EXCEPT ![g] = v]
    BY DEF Written
  <2>2. "values" \in DOMAIN Written(s, g, v, mapped, ignored)
    BY DEF Written
  <2> QED BY <1>1, <2>1, <2>2
<1>a. \A g, v, mapped, ignored : g # f => Kept(Written(s, g, v, mapped, ignored))
  BY <1>1
<1> HIDE DEF t, Kept
<1>2. CASE a.type \in {"MAP_VALUE", "SET_FIELD"}
  <2>1. t = Written(s, a.field, a.value[1], a.type = "MAP_VALUE", FALSE) /\ a.field # f
    BY <1>2 DEF Applied, Slots, t
  <2> QED BY <1>a, <2>1, Zenon
<1>3. CASE a.type \in {"CLEAR_FIELD", "IGNORE_FIELD"}
  <2>1. t = Written(s, a.field, None, FALSE, a.type = "IGNORE_FIELD") /\ a.field # f
    BY <1>3 DEF Applied, Slots, t
  <2> QED BY <1>a, <2>1, Zenon
<1>4. CASE a.type = "TRANSFORM_VALUE"
  <2>1. a.field # f /\ \E v : t = Written(s, a.field, v, FALSE, FALSE)
    BY <1>4 DEF Applied, Slots, t
  <2> QED BY <1>a, <2>1, Zenon
<1>5. CASE a.type = "SPLIT_HIERARCHY"
  <2> DEFINE parts == IF s.values[a.field] = None THEN <<>> ELSE Parts[s.values[a.field]]
             At(g) == CHOOSE i \in DOMAIN a.value : a.value[i] = g
             split == [g \in Fields |-> IF g \notin Slots(a) THEN s.values[g]
                                        ELSE IF At(g) \in DOMAIN parts THEN parts[At(g)] ELSE None]
  <2>1. t = [s EXCEPT !.values = split, !.mapped = @ \ Slots(a), !.ignored = @ \ Slots(a)]
    BY <1>5 DEF Applied, t
  <2>2. DOMAIN split = Fields /\ split[f] = s.values[f]
    OBVIOUS
  <2> HIDE DEF split
  <2> QED BY <2>1, <2>2 DEF Kept
<1>6. CASE a.type = "EXCLUDE_ROW"
  BY <1>6 DEF Applied, t, Kept
<1>7. CASE a.type \notin {"MAP_VALUE", "SET_FIELD", "CLEAR_FIELD", "IGNORE_FIELD", "TRANSFORM_VALUE",
                         "SPLIT_HIERARCHY", "EXCLUDE_ROW"}
  <2>1. t = [s EXCEPT !.device = a.value[1]]
    BY <1>7 DEF Applied, t
  <2> QED BY <2>1 DEF Kept
<1> QED BY <1>2, <1>3, <1>4, <1>5, <1>6, <1>7

\* Nor does any number of them, one after the other.
LEMMA ActionsKeep ==
  ASSUME NEW values, DOMAIN values = Fields, NEW order, Len(order) \in Nat,
         NEW f \in Fields, \A n \in 1..Len(order) : f \notin Slots(order[n].action)
  PROVE  RowAfter(order, values).values[f] = values[f]
<1> DEFINE k == Len(order)
           run == CHOOSE r : r = [n \in 0..k |-> IF n = 0 THEN Staged(values) ELSE Applied(r[n - 1], order[n].action)]
           Keeps(s) == "values" \in DOMAIN s /\ DOMAIN s.values = Fields /\ s.values[f] = values[f]
           T == {n \in 0..k : ~Keeps(run[n])}
<1>1. RowAfter(order, values) = run[k]
  BY DEF RowAfter
<1>2. run = [n \in 0..k |-> IF n = 0 THEN Staged(values) ELSE Applied(run[n - 1], order[n].action)]
  <2>1. \E r : r = [n \in 0..k |-> IF n = 0 THEN Staged(values) ELSE Applied(r[n - 1], order[n].action)]
    <3>1. \E r : IsRun(r, values, order, k)
      BY RunsExist
    <3> QED BY <3>1, Zenon DEF IsRun, StepOf
  <2> QED BY <2>1
<1> HIDE DEF run
<1>3. SUFFICES ASSUME T # {} PROVE FALSE
  BY <1>1
<1>4. PICK n \in T : \A m \in T : n <= m
  <2>1. T \subseteq Nat
    OBVIOUS
  <2> HIDE DEF T
  <2> QED BY <1>3, <2>1, LeastNatural
<1>5. CASE n = 0
  <2>1. run[n] = Staged(values)
    BY <1>2, <1>5
  <2>2. Keeps(Staged(values))
    BY DEF Staged
  <2> HIDE DEF Keeps
  <2> QED BY <2>1, <2>2
<1>6. CASE n # 0
  <2>1. n - 1 \in 0..k /\ n \in 1..k /\ n - 1 \notin T
    BY <1>4, <1>6
  <2>2. run[n] = Applied(run[n - 1], order[n].action)
    BY <1>2, <1>6
  <2>3. Keeps(run[n - 1])
    BY <2>1
  <2>4. f \notin Slots(order[n].action)
    BY <2>1
  <2>5. Keeps(run[n])
    BY <2>2, <2>3, <2>4, OneActionKeeps
  <2> HIDE DEF Keeps
  <2> QED BY <2>5
<1> QED BY <1>5, <1>6

\* Rules of one book have ids of their own.
AreRules(rules) ==
  /\ IsFiniteSet(rules)
  /\ \A r \in rules : IsRule(r)
  /\ \A r, s \in rules : r.id = s.id => r = s

LEMMA SpecificityIsANumber ==
  ASSUME NEW r, IsRule(r)
  PROVE  Specificity(r) \in Int
<1> DEFINE bound == {d \in DOMAIN r.scope : r.scope[d] # {}}
           pairs == {p \in bound \X (1..20) : p[2] > Cardinality(r.scope[p[1]])}
<1>1. Cardinality(r.when.items) \in Nat
  BY FS_CardinalityType DEF IsRule
<1>2. IsFiniteSet(bound)
  <2>1. DOMAIN r.scope \subseteq {"profile", "provider", "adapter", "customer", "businessUnit", "site",
                                  "vendor", "model", "productFamily", "deviceType", "sourceFields"}
    BY DEF IsRule, IsScope, Dimensions, ScopeOrder
  <2>2. IsFiniteSet({"profile", "provider", "adapter", "customer", "businessUnit", "site",
                     "vendor", "model", "productFamily", "deviceType", "sourceFields"})
    <3> DEFINE a == {"profile"} \cup {"provider"} \cup {"adapter"} \cup {"customer"}
               b == {"businessUnit"} \cup {"site"} \cup {"vendor"} \cup {"model"}
               c == {"productFamily"} \cup {"deviceType"} \cup {"sourceFields"}
    <3>1. IsFiniteSet(a) /\ IsFiniteSet(b) /\ IsFiniteSet(c)
      BY FS_Singleton, FS_Union
    <3>2. IsFiniteSet((a \cup b) \cup c)
      BY <3>1, FS_Union
    <3>3. {"profile", "provider", "adapter", "customer", "businessUnit", "site",
           "vendor", "model", "productFamily", "deviceType", "sourceFields"} = (a \cup b) \cup c
      OBVIOUS
    <3> QED BY <3>2, <3>3
  <2> QED BY <2>1, <2>2, FS_Subset
<1>3. IsFiniteSet(1..20)
  <2>1. 1 \in Int /\ 20 \in Int
    OBVIOUS
  <2> QED BY <2>1, FS_Interval
<1> HIDE DEF bound
<1>4. IsFiniteSet(bound \X (1..20)) /\ pairs \in SUBSET (bound \X (1..20))
  BY <1>2, <1>3, FS_Product
<1> HIDE DEF pairs
<1>5. IsFiniteSet(pairs)
  BY <1>4, FS_Subset
<1>6. Cardinality(bound) \in Nat /\ Cardinality(pairs) \in Nat
  BY <1>2, <1>5, FS_CardinalityType
<1>7. Nodes(r.when) \in Nat
  BY <1>1 DEF Nodes
<1>8. Specificity(r) = 100 * Cardinality(bound) + Nodes(r.when) + Cardinality(pairs)
  BY DEF Specificity, bound, pairs
<1> QED BY <1>6, <1>7, <1>8

LEMMA ContendersAreFinite ==
  ASSUME NEW rules, NEW values, AreRules(rules)
  PROVE  IsFiniteSet(Contenders(rules, values))
<1> DEFINE M == Matched(rules, values)
           of == [r \in M |-> {Contender(r, i) : i \in DOMAIN r.actions}]
           family == {of[r] : r \in M}
<1>1. M \in SUBSET rules
  BY DEF Matched
<1>2. IsFiniteSet(M)
  BY <1>1, FS_Subset DEF AreRules
<1> HIDE DEF M
<1>3. ASSUME NEW r \in M PROVE IsFiniteSet(of[r])
  <2> DEFINE D == DOMAIN r.actions
             f == [i \in D |-> Contender(r, i)]
             T == {Contender(r, i) : i \in D}
  <2>1. IsFiniteSet(D)
    BY <1>1 DEF AreRules, IsRule, IsList
  <2> HIDE DEF D
  <2>2. f \in Surjection(D, T)
    BY DEF Surjection
  <2> HIDE DEF f, T
  <2>3. IsFiniteSet(T)
    BY <2>1, <2>2, FS_Surjection
  <2> QED BY <2>3 DEF T, D
<1>4. of \in Surjection(M, family)
  BY DEF Surjection
<1>5. Contenders(rules, values) = UNION family
  BY DEF Contenders, Contender, M
<1>6. \A T \in family : IsFiniteSet(T)
  BY <1>3
<1> HIDE DEF of, family
<1>7. IsFiniteSet(family)
  BY <1>2, <1>4, FS_Surjection
<1> QED BY <1>5, <1>6, <1>7, FS_UNION

\* Of two actions of the rules of one book one comes before the other.
LEMMA ContendersAreOrdered ==
  ASSUME NEW rules, NEW values, AreRules(rules)
  PROVE  IsOrdered(Contenders(rules, values))
<1> DEFINE cs == Contenders(rules, values)
<1>1. IsFiniteSet(cs)
  BY ContendersAreFinite
<1>2. \A c \in cs : \E r \in rules : \E i \in DOMAIN r.actions : c = Contender(r, i)
  BY ContendersOfARule DEF Matched
<1>3. \A c \in cs : /\ c.rule \in rules /\ c = Contender(c.rule, c.index)
                    /\ c.rule.priority \in Int /\ c.specificity \in Int /\ c.rule.id \in Int /\ c.index \in Int
  <2>1. TAKE c \in cs
  <2>2. PICK r \in rules : \E i \in DOMAIN r.actions : c = Contender(r, i)
    BY <1>2
  <2>3. PICK i \in DOMAIN r.actions : c = Contender(r, i)
    BY <2>2
  <2>4. c.rule = r /\ c.index = i /\ c.specificity = Specificity(r)
    BY <2>3 DEF Contender
  <2>5. IsRule(r)
    BY DEF AreRules
  <2>6. r.priority \in Int /\ r.id \in Int /\ i \in Int
    BY <2>5 DEF IsRule, IsList
  <2> QED BY <2>3, <2>4, <2>5, <2>6, SpecificityIsANumber
<1> HIDE DEF cs
<1>4. \A c \in cs : ~Before(c, c)
  BY <1>3 DEF Before, Above
<1>5. \A c, d \in cs : c = d \/ Before(c, d) \/ Before(d, c)
  <2>1. TAKE c, d \in cs
  <2>2. ASSUME ~Before(c, d), ~Before(d, c) PROVE c.rule.id = d.rule.id /\ c.index = d.index
    BY <1>3, <2>2 DEF Before, Above
  <2>3. ASSUME c.rule.id = d.rule.id, c.index = d.index PROVE c = d
    <3>1. c.rule = d.rule
      BY <1>3, <2>3 DEF AreRules
    <3> QED BY <1>3, <2>3, <3>1
  <2> QED BY <2>2, <2>3
<1>6. \A b, c, d \in cs : Before(b, c) /\ Before(c, d) => Before(b, d)
  BY <1>3 DEF Before, Above
<1> QED BY <1>1, <1>4, <1>5, <1>6 DEF IsOrdered, cs

LEMMA OrderOfFewer ==
  ASSUME NEW cs, IsOrdered(cs), NEW ds, ds \subseteq cs
  PROVE  IsOrdered(ds)
<1>1. IsFiniteSet(ds)
  BY FS_Subset DEF IsOrdered
<1> QED BY <1>1 DEF IsOrdered

\* What no action won is what was staged.
LEMMA RestIsKept ==
  ASSUME NEW rules, NEW values, AreRules(rules), IsStaged(values)
  PROVE  KeptAsStaged(rules, values)
<1> DEFINE e == Evaluated(rules, values)
           cs == Contenders(rules, values)
           ws == Winners(cs)
           first == Leaders(ws)
<1>1. e.winners = ws /\ e.row = RowAfter(Ranked(first), values)
  BY DEF Evaluated, DecidedBy, Decided
<1>2. first \subseteq ws /\ ws \subseteq cs
  BY DEF Winners, Leaders
<1> HIDE DEF first, ws
<1>3. IsOrdered(first)
  BY <1>2, ContendersAreOrdered, OrderOfFewer
<1>4. /\ Len(Ranked(first)) \in Nat
      /\ \A n \in 1..Len(Ranked(first)) : Ranked(first)[n] \in ws
  BY <1>2, <1>3, RankedMembers
<1>5. DOMAIN values = Fields
  BY DEF IsStaged
<1>6. ASSUME NEW f \in Fields, \A c \in ws : f \notin Slots(c.action)
      PROVE  e.row.values[f] = values[f]
  <2>1. \A n \in 1..Len(Ranked(first)) : f \notin Slots(Ranked(first)[n].action)
    BY <1>4, <1>6
  <2>2. RowAfter(Ranked(first), values).values[f] = values[f]
    BY <1>4, <1>5, <2>1, ActionsKeep
  <2> QED BY <1>1, <2>2
<1> HIDE DEF e
<1> QED BY <1>1, <1>6 DEF KeptAsStaged, e

-----------------------------------------------------------------------------
(* The rule book.                                                           *)

\* Its last revision is the active one, so that a number of
\* revisions names the revision that was read; and whoever is at a guided or a
\* scoped rule has a book.
BookIsInOrder ==
  /\ \E S : book \in Seq(S)
  /\ active = Len(book)
  /\ attached => Len(book) > 0

IsRow(d) == d = [at |-> d.at, ask |-> d.ask, about |-> d.about, shown |-> d.shown,
                 next |-> d.next, latest |-> d.latest]
DeskRows == desk = [e \in Engineers |-> desk[e]] /\ \A e \in Engineers : IsRow(desk[e])

\* What an engineer is about to write is the revision shown with the rule shown.
RestsOnShown(d, revisions) ==
  /\ d.ask \in Guided \cup Scoped /\ d.at \notin {"idle", "recalled"} => Len(revisions) > 0
  /\ d.at = "resolved" => d.ask \in Scoped
  /\ d.at \in {"based", "counted"} /\ d.ask \in Guided \cup Scoped =>
       /\ d.shown.base \in 1..Len(revisions)
       /\ d.next = Candidate(revisions[d.shown.base], d.shown.rule)
       /\ d.ask \in Guided => Usable(d.shown)
  /\ d.at = "recalled" =>
       /\ d.ask \in MappingKeys /\ d.about \in Targets \cup {None} /\ d.latest \in Nat
       /\ d.about = None => d.latest > 0

\* A mapping is only forgotten when it is remembered.
MappingVersion == [target : Targets \cup {None}, isActive : BOOLEAN]
MemoryIsInOrder == memory \in [MappingKeys -> Seq(MappingVersion)] /\ MemoryHasOneVoice

RulesInv ==
  /\ BookIsInOrder
  /\ MemoryIsInOrder
  /\ DeskRows
  /\ \A e \in Engineers : RestsOnShown(desk[e], book)
-----------------------------------------------------------------------------
(* Rows of the desk.                                                        *)

LEMMA RestIsARow == IsRow(AtRest) /\ AtRest.at = "idle" /\ AtRest.ask = None
  BY DEF IsRow, AtRest

LEMMA Restful == \A revisions : RestsOnShown(AtRest, revisions)
  BY RestIsARow DEF RestsOnShown

LEMMA MovedRow ==
  ASSUME NEW d, IsRow(d), NEW v
  PROVE  [d EXCEPT !.at = v] = [at |-> v, ask |-> d.ask, about |-> d.about, shown |-> d.shown,
                                next |-> d.next, latest |-> d.latest]
  BY DEF IsRow

LEMMA CountedRow ==
  ASSUME NEW d, IsRow(d), NEW v, NEW n
  PROVE  [d EXCEPT !.at = v, !.latest = n] =
           [at |-> v, ask |-> d.ask, about |-> d.about, shown |-> d.shown, next |-> d.next, latest |-> n]
<1> DEFINE c == [d EXCEPT !.at = v]
<1>1. [d EXCEPT !.at = v, !.latest = n] = [c EXCEPT !.latest = n]
  OBVIOUS
<1>2. c = [at |-> v, ask |-> d.ask, about |-> d.about, shown |-> d.shown, next |-> d.next, latest |-> d.latest]
  BY MovedRow
<1> HIDE DEF c
<1> QED
  BY <1>1, <1>2

LEMMA BasedRow ==
  ASSUME NEW d, IsRow(d), NEW v, NEW n
  PROVE  [d EXCEPT !.at = v, !.next = n] =
           [at |-> v, ask |-> d.ask, about |-> d.about, shown |-> d.shown, next |-> n, latest |-> d.latest]
<1> DEFINE c == [d EXCEPT !.at = v]
<1>1. [d EXCEPT !.at = v, !.next = n] = [c EXCEPT !.next = n]
  OBVIOUS
<1>2. c = [at |-> v, ask |-> d.ask, about |-> d.about, shown |-> d.shown, next |-> d.next, latest |-> d.latest]
  BY MovedRow
<1> HIDE DEF c
<1> QED
  BY <1>1, <1>2

\* A row of somebody who was at rest.
LEMMA AskedRow ==
  ASSUME NEW v, NEW a
  PROVE  [AtRest EXCEPT !.at = v, !.ask = a] =
           [at |-> v, ask |-> a, about |-> None, shown |-> NoScreen, next |-> {}, latest |-> 0]
<1> DEFINE c == [AtRest EXCEPT !.at = v]
<1>1. [AtRest EXCEPT !.at = v, !.ask = a] = [c EXCEPT !.ask = a]
  OBVIOUS
<1>2. c = [at |-> v, ask |-> None, about |-> None, shown |-> NoScreen, next |-> {}, latest |-> 0]
  BY DEF AtRest
<1> HIDE DEF c
<1> QED
  BY <1>1, <1>2

LEMMA ScopedScreen ==
  ASSUME NEW v, NEW a, NEW w
  PROVE  [AtRest EXCEPT !.at = v, !.ask = a, !.shown = w] =
           [at |-> v, ask |-> a, about |-> None, shown |-> w, next |-> {}, latest |-> 0]
<1> DEFINE c == [AtRest EXCEPT !.at = v, !.ask = a]
<1>1. [AtRest EXCEPT !.at = v, !.ask = a, !.shown = w] = [c EXCEPT !.shown = w]
  OBVIOUS
<1>2. c = [at |-> v, ask |-> a, about |-> None, shown |-> NoScreen, next |-> {}, latest |-> 0]
  BY AskedRow
<1> HIDE DEF c
<1> QED
  BY <1>1, <1>2

LEMMA RecalledRow ==
  ASSUME NEW v, NEW a, NEW b, NEW n
  PROVE  [AtRest EXCEPT !.at = v, !.ask = a, !.about = b, !.latest = n] =
           [at |-> v, ask |-> a, about |-> b, shown |-> NoScreen, next |-> {}, latest |-> n]
<1> DEFINE c == [AtRest EXCEPT !.at = v, !.ask = a]
           f == [c EXCEPT !.about = b]
<1>1. [AtRest EXCEPT !.at = v, !.ask = a, !.about = b, !.latest = n] = [f EXCEPT !.latest = n]
  OBVIOUS
<1>2. c = [at |-> v, ask |-> a, about |-> None, shown |-> NoScreen, next |-> {}, latest |-> 0]
  BY AskedRow
<1> HIDE DEF c
<1>3. f = [at |-> v, ask |-> a, about |-> b, shown |-> NoScreen, next |-> {}, latest |-> 0]
  BY <1>2
<1> HIDE DEF f
<1> QED
  BY <1>1, <1>3

LEMMA ManagedRow ==
  ASSUME NEW v, NEW n
  PROVE  [AtRest EXCEPT !.at = v, !.next = n] =
           [at |-> v, ask |-> None, about |-> None, shown |-> NoScreen, next |-> n, latest |-> 0]
<1> DEFINE c == [AtRest EXCEPT !.at = v]
<1>1. [AtRest EXCEPT !.at = v, !.next = n] = [c EXCEPT !.next = n]
  OBVIOUS
<1>2. c = [at |-> v, ask |-> None, about |-> None, shown |-> NoScreen, next |-> {}, latest |-> 0]
  BY DEF AtRest
<1> HIDE DEF c
<1> QED
  BY <1>1, <1>2

\* One engineer at a time changes what is on the desk.
LEMMA OnOneDesk ==
  ASSUME DeskRows, NEW e \in Engineers, NEW d, IsRow(d), desk' = [desk EXCEPT ![e] = d]
  PROVE  /\ DeskRows'
         /\ desk'[e] = d
         /\ \A other \in Engineers : other # e => desk'[other] = desk[other]
  BY DEF DeskRows

\* A book that stays, or grows at its end, keeps every revision.
LEMMA StillRests ==
  ASSUME NEW d, NEW revisions, NEW later, RestsOnShown(d, revisions),
         Len(revisions) \in Nat, Len(later) \in Nat, Len(revisions) <= Len(later),
         \A i \in 1..Len(revisions) : later[i] = revisions[i]
  PROVE  RestsOnShown(d, later)
  BY DEF RestsOnShown

\* A preview names the revision it was made on.
LEMMA PreviewNamesItsBase ==
  /\ \A ask, row, base : GuidedPreview(ask, row, base).base = active
  /\ \A ask : ScopedPreview(ask).base = active
  BY DEF GuidedPreview, ScopedPreview, Preview, PreviewFrom, PreviewOf, Shown
-----------------------------------------------------------------------------
(* The rule book, action by action.                                         *)

\* What every step but a written revision does: the book stays, or is made.
BookStays == UNCHANGED bookVars
BookIsMade == book = <<>> /\ book' = <<{}>> /\ active' = 1

LEMMA BookKeeps ==
  ASSUME RulesInv, BookStays
  PROVE  BookIsInOrder' /\ \A d : RestsOnShown(d, book) => RestsOnShown(d, book')
  BY DEF RulesInv, BookIsInOrder, BookStays, bookVars

LEMMA MemoryStays == RulesInv /\ UNCHANGED memory => MemoryIsInOrder'
  BY DEF RulesInv, MemoryIsInOrder, MemoryHasOneVoice

\* One engineer comes to a row that rests on what was shown; the others stay.
LEMMA OneMoves ==
  ASSUME RulesInv, BookIsInOrder', MemoryIsInOrder', NEW e \in Engineers, NEW d, IsRow(d), RestsOnShown(d, book'),
         desk' = [desk EXCEPT ![e] = d],
         \A r : RestsOnShown(r, book) => RestsOnShown(r, book')
  PROVE  RulesInv'
<1>1. /\ DeskRows'
      /\ desk'[e] = d
      /\ \A other \in Engineers : other # e => desk'[other] = desk[other]
  BY OnOneDesk DEF RulesInv
<1>2. ASSUME NEW other \in Engineers PROVE RestsOnShown(desk'[other], book')
  BY <1>1, Zenon DEF RulesInv
<1> QED
  BY <1>1, <1>2, Zenon DEF RulesInv

LEMMA EnsuredBook ==
  ASSUME RulesInv, EnsureBook
  PROVE  /\ BookIsInOrder'
         /\ Len(book') > 0
         /\ \A d : RestsOnShown(d, book) => RestsOnShown(d, book')
<1>1. CASE book = <<>>
  <2>1. book' = <<{}>> /\ active' = 1 /\ attached' = TRUE
    BY <1>1 DEF EnsureBook
  <2>2. book' \in Seq({{}}) /\ Len(book') = 1
    BY <2>1
  <2>3. \A d : RestsOnShown(d, book) => RestsOnShown(d, book')
    BY <1>1, <2>2 DEF RestsOnShown
  <2>4. \E S : book' \in Seq(S)
    BY <2>2
  <2>5. BookIsInOrder'
    BY <2>1, <2>2, <2>4 DEF BookIsInOrder
  <2> QED
    BY <2>2, <2>3, <2>5
<1>2. CASE book # <<>>
  <2>1. book' = book /\ active' = active /\ attached' = TRUE
    BY <1>2 DEF EnsureBook
  <2>2. PICK S : book \in Seq(S)
    BY DEF RulesInv, BookIsInOrder
  <2>3. Len(book) > 0
    BY <1>2, <2>2
  <2> QED
    BY <2>1, <2>2, <2>3 DEF RulesInv, BookIsInOrder
<1> QED
  BY <1>1, <1>2

LEMMA GuidedIsShown ==
  ASSUME RulesInv, NEW e \in Engineers, NEW ask \in Guided, NEW row, ShowGuided(e, ask, row)
  PROVE  RulesInv'
<1>m. MemoryIsInOrder'
  BY MemoryStays DEF ShowGuided
<1>1. PICK w, b : /\ EnsureBook
                  /\ desk' = [desk EXCEPT ![e] = [AtRest EXCEPT !.at = "shown", !.ask = ask, !.about = b, !.shown = w]]
  BY DEF ShowGuided
<1> DEFINE c == [AtRest EXCEPT !.at = "shown", !.ask = ask]
           f == [c EXCEPT !.about = b]
           d == [f EXCEPT !.shown = w]
<1>2. /\ BookIsInOrder'
      /\ Len(book') > 0
      /\ \A r : RestsOnShown(r, book) => RestsOnShown(r, book')
  BY <1>1, EnsuredBook
<1>3. desk' = [desk EXCEPT ![e] = d]
  BY <1>1
<1>4. c = [at |-> "shown", ask |-> ask, about |-> None, shown |-> NoScreen, next |-> {}, latest |-> 0]
  BY AskedRow
<1> HIDE DEF c
<1>5. f = [at |-> "shown", ask |-> ask, about |-> b, shown |-> NoScreen, next |-> {}, latest |-> 0]
  BY <1>4
<1> HIDE DEF f
<1>6. d = [at |-> "shown", ask |-> ask, about |-> b, shown |-> w, next |-> {}, latest |-> 0]
  BY <1>5
<1> HIDE DEF d
<1>7. IsRow(d) /\ RestsOnShown(d, book')
  BY <1>2, <1>6 DEF IsRow, RestsOnShown
<1> QED
  BY <1>2, <1>3, <1>7, OneMoves, <1>m

LEMMA GuidedIsChecked ==
  ASSUME RulesInv, NEW e \in Engineers, CheckGuided(e)
  PROVE  RulesInv'
<1>m. MemoryIsInOrder'
  BY MemoryStays DEF CheckGuided
<1> DEFINE o == desk[e]
           now == GuidedPreview(o.ask, o.about, book[active])
           d == Checked(o, now)
<1>1. /\ o.at = "shown" /\ o.ask \in Guided /\ BookStays
      /\ desk' = [desk EXCEPT ![e] = d]
  BY DEF CheckGuided, BookStays
<1>2. BookIsInOrder' /\ \A r : RestsOnShown(r, book) => RestsOnShown(r, book')
  BY <1>1, BookKeeps
<1>3. IsRow(o) /\ RestsOnShown(o, book) /\ active = Len(book) /\ Len(book) \in Nat /\ Len(book) > 0
  BY <1>1 DEF RulesInv, DeskRows, BookIsInOrder, RestsOnShown
<1>4. now.base = active
  BY PreviewNamesItsBase
<1> HIDE DEF o, now
<1>5. IsRow(d) /\ RestsOnShown(d, book')
  <2>1. CASE Unchanged(o.shown, now) /\ Usable(now)
    <3>1. d = [o EXCEPT !.at = "based", !.next = Candidate(book[active], now.rule)]
      BY <2>1 DEF Checked
    <3>2. d = [at |-> "based", ask |-> o.ask, about |-> o.about, shown |-> o.shown,
               next |-> Candidate(book[active], now.rule), latest |-> o.latest]
      BY <1>3, <3>1, BasedRow
    <3>3. now = o.shown
      BY <2>1 DEF Unchanged
    <3> HIDE DEF d
    <3>4. /\ d.at = "based" /\ d.ask = o.ask /\ d.shown = o.shown
          /\ d.next = Candidate(book[active], now.rule) /\ IsRow(d)
      BY <3>2 DEF IsRow
    <3>5. book' = book
      BY <1>1 DEF BookStays, bookVars
    <3> QED
      BY <1>1, <1>3, <1>4, <2>1, <3>3, <3>4, <3>5 DEF RestsOnShown
  <2>2. CASE ~(Unchanged(o.shown, now) /\ Usable(now))
    <3>1. d = AtRest
      BY <2>2 DEF Checked
    <3> QED
      BY <3>1, Restful, RestIsARow
  <2> QED
    BY <2>1, <2>2
<1> QED
  BY <1>1, <1>2, <1>5, OneMoves, <1>m

LEMMA ScopedIsShown ==
  ASSUME RulesInv, NEW e \in Engineers, NEW ask \in Scoped, ShowScoped(e, ask)
  PROVE  RulesInv'
<1>m. MemoryIsInOrder'
  BY MemoryStays DEF ShowScoped
<1> DEFINE w == ScopedPreview(ask)
           d == [AtRest EXCEPT !.at = "shown", !.ask = ask, !.shown = w]
<1>1. BookStays /\ attached /\ desk' = [desk EXCEPT ![e] = d]
  BY DEF ShowScoped, ShowThe, BookStays
<1>2. BookIsInOrder' /\ \A r : RestsOnShown(r, book) => RestsOnShown(r, book')
  BY <1>1, BookKeeps
<1>3. Len(book) > 0 /\ book' = book
  BY <1>1 DEF RulesInv, BookIsInOrder, BookStays, bookVars
<1> HIDE DEF w
<1>4. d = [at |-> "shown", ask |-> ask, about |-> None, shown |-> w, next |-> {}, latest |-> 0]
  BY ScopedScreen, Zenon DEF d
<1> HIDE DEF d
<1>5. IsRow(d) /\ RestsOnShown(d, book')
  BY <1>3, <1>4 DEF IsRow, RestsOnShown
<1> QED
  BY <1>1, <1>2, <1>5, OneMoves, <1>m

LEMMA ScopedIsChecked ==
  ASSUME RulesInv, NEW e \in Engineers, CheckScoped(e)
  PROVE  RulesInv'
<1>m. MemoryIsInOrder'
  BY MemoryStays DEF CheckScoped
<1> DEFINE o == desk[e]
           m == [o EXCEPT !.at = "resolved"]
           d == IF Unchanged(o.shown, ScopedPreview(o.ask)) THEN m ELSE AtRest
<1>1. /\ o.at = "shown" /\ o.ask \in Scoped /\ BookStays
      /\ desk' = [desk EXCEPT ![e] = d]
  BY DEF CheckScoped, BookStays
<1>2. BookIsInOrder' /\ \A r : RestsOnShown(r, book) => RestsOnShown(r, book')
  BY <1>1, BookKeeps
<1>3. IsRow(o) /\ RestsOnShown(o, book) /\ book' = book
  BY <1>1 DEF RulesInv, DeskRows, BookStays, bookVars
<1> HIDE DEF o
<1>4. m = [at |-> "resolved", ask |-> o.ask, about |-> o.about, shown |-> o.shown,
           next |-> o.next, latest |-> o.latest]
  BY <1>3, MovedRow
<1> HIDE DEF m
<1>5. IsRow(m) /\ m.at = "resolved" /\ m.ask = o.ask
  BY <1>4 DEF IsRow
<1>6. RestsOnShown(m, book')
  BY <1>1, <1>3, <1>5 DEF RestsOnShown
<1>7. d = m \/ d = AtRest
  BY Zenon
<1> HIDE DEF d
<1>8. IsRow(d) /\ RestsOnShown(d, book')
  BY <1>5, <1>6, <1>7, Restful, RestIsARow, Zenon
<1> QED
  BY <1>1, <1>2, <1>8, OneMoves, <1>m

LEMMA ScopedIsBased ==
  ASSUME RulesInv, NEW e \in Engineers, BaseScoped(e)
  PROVE  RulesInv'
<1>m. MemoryIsInOrder'
  BY MemoryStays DEF BaseScoped
<1> DEFINE o == desk[e]
           n == Candidate(book[active], o.shown.rule)
           m == [o EXCEPT !.at = "based", !.next = n]
           d == IF active = o.shown.base THEN m ELSE AtRest
<1>1. /\ o.at = "resolved" /\ BookStays
      /\ desk' = [desk EXCEPT ![e] = d]
  BY DEF BaseScoped, BookStays
<1>2. BookIsInOrder' /\ \A r : RestsOnShown(r, book) => RestsOnShown(r, book')
  BY <1>1, BookKeeps
<1>3. /\ IsRow(o) /\ RestsOnShown(o, book) /\ book' = book
      /\ active = Len(book) /\ Len(book) \in Nat
  BY <1>1 DEF RulesInv, DeskRows, BookStays, bookVars, BookIsInOrder
<1> HIDE DEF o
<1>4. m = [at |-> "based", ask |-> o.ask, about |-> o.about, shown |-> o.shown,
           next |-> n, latest |-> o.latest]
  BY <1>3, BasedRow
<1>5. o.ask \in Scoped /\ o.ask \notin Guided /\ Len(book) > 0
  BY <1>1, <1>3, RulesAssumption DEF RestsOnShown
<1>6. active = o.shown.base => n = Candidate(book[o.shown.base], o.shown.rule)
  OBVIOUS
<1> HIDE DEF m, n
<1>7. IsRow(m) /\ m.at = "based" /\ m.ask = o.ask /\ m.next = n /\ m.shown = o.shown
  BY <1>4 DEF IsRow
<1>8. active = o.shown.base => RestsOnShown(m, book')
  BY <1>3, <1>5, <1>6, <1>7 DEF RestsOnShown
<1>9. d = AtRest \/ (d = m /\ active = o.shown.base)
  BY Zenon
<1> HIDE DEF d
<1>10. IsRow(d) /\ RestsOnShown(d, book')
  BY <1>7, <1>8, <1>9, Restful, RestIsARow, Zenon
<1> QED
  BY <1>1, <1>2, <1>10, OneMoves, <1>m

LEMMA RulesAreManaged ==
  ASSUME RulesInv, NEW e \in Engineers, NEW to, Manage(e, to)
  PROVE  RulesInv'
<1>m. MemoryIsInOrder'
  BY MemoryStays DEF Manage
<1>1. PICK n : BookStays /\ desk' = [desk EXCEPT ![e] = [AtRest EXCEPT !.at = "based", !.next = n]]
  BY DEF Manage, BookStays
<1> DEFINE d == [AtRest EXCEPT !.at = "based", !.next = n]
<1>2. BookIsInOrder' /\ \A r : RestsOnShown(r, book) => RestsOnShown(r, book')
  BY <1>1, BookKeeps
<1>3. d = [at |-> "based", ask |-> None, about |-> None, shown |-> NoScreen, next |-> n, latest |-> 0]
  BY ManagedRow, Zenon DEF d
<1>4. desk' = [desk EXCEPT ![e] = d]
  BY <1>1
<1> HIDE DEF d
<1>5. IsRow(d) /\ RestsOnShown(d, book')
  BY <1>3, RulesAssumption DEF IsRow, RestsOnShown
<1> QED
  BY <1>2, <1>4, <1>5, OneMoves, <1>m

LEMMA RevisionsAreCounted ==
  ASSUME RulesInv, NEW e \in Engineers, CountRevisions(e)
  PROVE  RulesInv'
<1>m. MemoryIsInOrder'
  BY MemoryStays DEF CountRevisions
<1> DEFINE o == desk[e]
           d == [o EXCEPT !.at = "counted", !.latest = Len(book)]
<1>1. o.at = "based" /\ BookStays /\ DeskRows
  BY DEF CountRevisions, BookStays, RulesInv
<1>2. BookIsInOrder' /\ \A r : RestsOnShown(r, book) => RestsOnShown(r, book')
  BY <1>1, BookKeeps
<1>3. IsRow(o) /\ RestsOnShown(o, book) /\ book' = book
  BY <1>1 DEF RulesInv, DeskRows, BookStays, bookVars
<1>4. desk' = [desk EXCEPT ![e] = d]
  BY DEF CountRevisions
<1> HIDE DEF o
<1>5. d = [at |-> "counted", ask |-> o.ask, about |-> o.about, shown |-> o.shown,
           next |-> o.next, latest |-> Len(book)]
  BY <1>3, CountedRow
<1> HIDE DEF d
<1>6. IsRow(d) /\ d.at = "counted" /\ d.ask = o.ask /\ d.next = o.next /\ d.shown = o.shown
  BY <1>5 DEF IsRow
<1>7. RestsOnShown(d, book')
  BY <1>1, <1>3, <1>6 DEF RestsOnShown
<1> QED
  BY <1>2, <1>4, <1>6, <1>7, OneMoves, <1>m

LEMMA RevisionIsSaved ==
  ASSUME RulesInv, NEW e \in Engineers, SaveRevision(e)
  PROVE  RulesInv'
<1>m. MemoryIsInOrder'
  BY MemoryStays DEF SaveRevision
<1> DEFINE o == desk[e]
           m == [o EXCEPT !.at = "saved"]
           d == IF o.ask \in Scoped THEN m ELSE AtRest
<1>1. IsRow(o) /\ RestsOnShown(o, book) /\ active = Len(book) /\ Len(book) \in Nat
  BY DEF RulesInv, DeskRows, BookIsInOrder
<1>2. CASE IsFree(book, o.latest)
  <2>1. /\ book' = Append(book, o.next) /\ active' = o.latest + 1 /\ attached' = attached
        /\ desk' = [desk EXCEPT ![e] = d] /\ o.at = "counted"
    BY <1>2 DEF SaveRevision
  <2>2. PICK S : book \in Seq(S)
    BY DEF RulesInv, BookIsInOrder
  <2>3. book \in Seq(S \cup {o.next}) /\ o.next \in S \cup {o.next}
    BY <2>2
  <2>4. /\ book' \in Seq(S \cup {o.next}) /\ Len(book') = Len(book) + 1
        /\ \A i \in 1..Len(book) : book'[i] = book[i]
    BY <2>1, <2>3
  <2>5. BookIsInOrder'
    BY <1>1, <1>2, <2>1, <2>4 DEF BookIsInOrder, IsFree
  <2>6. \A r : RestsOnShown(r, book) => RestsOnShown(r, book')
    <3>1. Len(book') \in Nat /\ Len(book) <= Len(book')
      BY <1>1, <2>4
    <3> QED
      BY <1>1, <2>4, <3>1, StillRests
  <2> HIDE DEF o
  <2>7. m = [at |-> "saved", ask |-> o.ask, about |-> o.about, shown |-> o.shown,
             next |-> o.next, latest |-> o.latest]
    BY <1>1, MovedRow
  <2> HIDE DEF m
  <2>8. IsRow(m) /\ m.at = "saved" /\ m.ask = o.ask
    BY <2>7 DEF IsRow
  <2>9. RestsOnShown(m, book')
    BY <1>1, <2>1, <2>4, <2>8 DEF RestsOnShown
  <2>10. d = m \/ d = AtRest
    BY Zenon
  <2> HIDE DEF d
  <2>11. IsRow(d) /\ RestsOnShown(d, book')
    BY <2>8, <2>9, <2>10, Restful, RestIsARow, Zenon
  <2> QED
    BY <2>1, <2>5, <2>6, <2>11, OneMoves, <1>m
<1>3. CASE ~IsFree(book, o.latest)
  <2>1. BookStays /\ desk' = [desk EXCEPT ![e] = AtRest]
    BY <1>3 DEF SaveRevision, BookStays, bookVars
  <2> QED
    BY <2>1, BookKeeps, Restful, RestIsARow, OneMoves, <1>m
<1> QED
  BY <1>2, <1>3

\* What only lets somebody go, or does not concern the desk.
LEMMA RestIsQuiet ==
  ASSUME RulesInv, BookStays, MemoryIsInOrder',
         \/ UNCHANGED desk
         \/ \E e \in Engineers : desk' = [desk EXCEPT ![e] = AtRest]
  PROVE  RulesInv'
<1>1. BookIsInOrder' /\ \A r : RestsOnShown(r, book) => RestsOnShown(r, book')
  BY BookKeeps
<1>2. CASE UNCHANGED desk
  BY <1>1, <1>2 DEF RulesInv, DeskRows
<1>3. CASE \E e \in Engineers : desk' = [desk EXCEPT ![e] = AtRest]
  BY <1>1, <1>3, Restful, RestIsARow, OneMoves
<1> QED
  BY <1>2, <1>3

LEMMA MappingIsRecalled ==
  ASSUME RulesInv, NEW e \in Engineers, NEW k \in MappingKeys, NEW target \in Targets \cup {None}, Recall(e, k, target)
  PROVE  RulesInv'
<1>m. MemoryIsInOrder'
  BY MemoryStays DEF Recall
<1> DEFINE n == Len(memory[k])
           d == [AtRest EXCEPT !.at = "recalled", !.ask = k, !.about = target, !.latest = n]
<1>1. BookStays /\ desk' = [desk EXCEPT ![e] = d]
  BY DEF Recall, BookStays
<1>2. BookIsInOrder' /\ book' = book /\ \A r : RestsOnShown(r, book) => RestsOnShown(r, book')
  BY <1>1, BookKeeps DEF BookStays, bookVars
<1>v. n \in Nat /\ (target = None => n > 0)
  <2>1. memory[k] \in Seq(MappingVersion)
    BY DEF RulesInv, MemoryIsInOrder
  <2>2. ASSUME target = None, memory[k] = <<>> PROVE FALSE
    <3>1. [target |-> None, isActive |-> FALSE].isActive
      BY <2>2 DEF Recall, Latest
    <3> QED
      BY <3>1
  <2> QED
    BY <2>1, <2>2
<1> HIDE DEF n
<1>3. d = [at |-> "recalled", ask |-> k, about |-> target, shown |-> NoScreen, next |-> {}, latest |-> n]
  BY RecalledRow, Zenon DEF d
<1> HIDE DEF d
<1>4. IsRow(d) /\ RestsOnShown(d, book')
  BY <1>2, <1>3, <1>v DEF IsRow, RestsOnShown
<1> QED
  BY <1>1, <1>2, <1>4, OneMoves, <1>m

\* A version is added at the end, and the one before it is retired: nobody adds
\* one but after the version that was read.
LEMMA RetiredIsSilent ==
  ASSUME NEW versions \in Seq(MappingVersion), NEW v \in MappingVersion,
         \A i \in DOMAIN versions : versions[i].isActive => i = Len(versions)
  PROVE  LET after == Append(Retired(versions, Len(versions)), v)
         IN /\ after \in Seq(MappingVersion)
            /\ \A i \in DOMAIN after : after[i].isActive => i = Len(after)
<1> DEFINE n == Len(versions)
           retired == Retired(versions, n)
           after == Append(retired, v)
<1>1. n \in Nat /\ DOMAIN versions = 1..n /\ \A i \in 1..n : versions[i] \in MappingVersion
  OBVIOUS
<1>2. ASSUME NEW i \in 1..n PROVE retired[i] \in MappingVersion /\ retired[i].isActive = FALSE
  <2>1. retired[i] = IF i = n THEN [versions[i] EXCEPT !.isActive = FALSE] ELSE versions[i]
    BY <1>1 DEF Retired
  <2>2. ASSUME NEW b \in BOOLEAN
        PROVE  [versions[i] EXCEPT !.isActive = b] \in MappingVersion /\ [versions[i] EXCEPT !.isActive = b].isActive = b
    BY <1>1 DEF MappingVersion
  <2>3. /\ [versions[i] EXCEPT !.isActive = FALSE] \in MappingVersion
        /\ [versions[i] EXCEPT !.isActive = FALSE].isActive = FALSE
    BY <2>2, Zenon
  <2>4. versions[i] \in MappingVersion /\ (i # n => versions[i].isActive = FALSE)
    BY <1>1 DEF MappingVersion
  <2> QED
    BY <2>1, <2>3, <2>4, Zenon
<1>3. retired \in [1..n -> MappingVersion]
  BY <1>1, <1>2 DEF Retired
<1>4. retired \in Seq(MappingVersion) /\ Len(retired) = n
  BY <1>1, <1>3
<1> HIDE DEF retired, n
<1>5. /\ after \in Seq(MappingVersion) /\ Len(after) = n + 1 /\ DOMAIN after = 1..(n + 1)
      /\ \A i \in 1..n : after[i] = retired[i]
  BY <1>1, <1>4
<1>6. \A i \in DOMAIN after : after[i].isActive => i = Len(after)
  <2>1. ASSUME NEW i \in 1..n PROVE after[i].isActive = FALSE
    BY <1>2, <1>5, Zenon
  <2>2. ASSUME NEW i \in 1..(n + 1) PROVE i \in 1..n \/ i = n + 1
    BY <1>1
  <2> QED
    BY <1>5, <2>1, <2>2, Zenon
<1> QED
  BY <1>5, <1>6 DEF n, retired

LEMMA MappingIsSaved ==
  ASSUME RulesInv, NEW e \in Engineers, SaveMapping(e)
  PROVE  MemoryIsInOrder'
<1> DEFINE d == desk[e]
           k == d.ask
           target == IF d.about = None THEN memory[k][d.latest].target ELSE d.about
           v == [target |-> target, isActive |-> d.about # None]
<1>1. /\ d.at = "recalled"
      /\ memory' = IF IsFree(memory[k], d.latest)
                   THEN [memory EXCEPT ![k] = Append(Retired(memory[k], d.latest), v)] ELSE memory
  BY DEF SaveMapping
<1>2. /\ k \in MappingKeys /\ d.about \in Targets \cup {None} /\ d.latest \in Nat
      /\ d.about = None => d.latest > 0
      /\ memory \in [MappingKeys -> Seq(MappingVersion)] /\ MemoryHasOneVoice
  BY <1>1 DEF RulesInv, RestsOnShown, MemoryIsInOrder
<1> HIDE DEF d, k
<1>3. CASE ~IsFree(memory[k], d.latest)
  BY <1>1, <1>2, <1>3 DEF MemoryIsInOrder, MemoryHasOneVoice
<1>4. CASE IsFree(memory[k], d.latest)
  <2>1. memory[k] \in Seq(MappingVersion) /\ Len(memory[k]) = d.latest
    BY <1>2, <1>4 DEF IsFree
  <2>2. v \in MappingVersion
    <3>1. target \in Targets \cup {None}
      <4>1. CASE d.about = None
        <5>1. memory[k][d.latest] \in MappingVersion
          BY <1>2, <2>1, <4>1
        <5> QED
          BY <4>1, <5>1 DEF MappingVersion
      <4>2. CASE d.about # None
        BY <1>2, <4>2
      <4> QED
        BY <4>1, <4>2
    <3> QED
      BY <3>1 DEF MappingVersion
  <2>3. \A i \in DOMAIN memory[k] : memory[k][i].isActive => i = Len(memory[k])
    BY <1>2 DEF MemoryHasOneVoice
  <2> DEFINE after == Append(Retired(memory[k], Len(memory[k])), v)
  <2>4. memory' = [memory EXCEPT ![k] = after]
    BY <1>1, <1>4, <2>1
  <2> HIDE DEF v
  <2>5. after \in Seq(MappingVersion) /\ \A i \in DOMAIN after : after[i].isActive => i = Len(after)
    BY <2>1, <2>2, <2>3, RetiredIsSilent
  <2> HIDE DEF after
  <2> QED
    BY <1>2, <2>4, <2>5 DEF MemoryIsInOrder, MemoryHasOneVoice
<1> QED
  BY <1>3, <1>4
-----------------------------------------------------------------------------
(* Every step.                                                              *)

LEMMA RulesInvInit == RulesInit => RulesInv
<1> SUFFICES ASSUME RulesInit PROVE RulesInv
  OBVIOUS
<1>1. book \in Seq({{}}) /\ Len(book) = 0 /\ active = 0 /\ attached = FALSE
  BY DEF RulesInit
<1>2. BookIsInOrder
  BY <1>1 DEF BookIsInOrder
<1>3. DeskRows /\ \A e \in Engineers : desk[e] = AtRest
  BY RestIsARow DEF RulesInit, DeskRows
<1>4. MemoryIsInOrder
  BY DEF RulesInit, MemoryIsInOrder, MemoryHasOneVoice
<1> QED
  BY <1>2, <1>3, <1>4, Restful DEF RulesInv

LEMMA RulesInvStep == RulesInv /\ [RulesNext]_rulesVars => RulesInv'
<1> SUFFICES ASSUME RulesInv, [RulesNext]_rulesVars PROVE RulesInv'
  OBVIOUS
<1>1. ASSUME NEW e \in Engineers, NEW ask \in Guided, NEW row \in Rows, ShowGuided(e, ask, row) PROVE RulesInv'
  BY <1>1, GuidedIsShown
<1>2. ASSUME NEW e \in Engineers, NEW ask \in Scoped, ShowScoped(e, ask) PROVE RulesInv'
  BY <1>2, ScopedIsShown
<1>3. ASSUME NEW e \in Engineers, NEW to, Manage(e, to) PROVE RulesInv'
  BY <1>3, RulesAreManaged
<1>4. ASSUME NEW e \in Engineers, NEW k \in MappingKeys, NEW target \in Targets \cup {None}, Recall(e, k, target) PROVE RulesInv'
  BY <1>4, MappingIsRecalled
<1>5. ASSUME NEW e \in Engineers, CheckGuided(e) PROVE RulesInv'
  BY <1>5, GuidedIsChecked
<1>6. ASSUME NEW e \in Engineers, CheckScoped(e) PROVE RulesInv'
  BY <1>6, ScopedIsChecked
<1>7. ASSUME NEW e \in Engineers, BaseScoped(e) PROVE RulesInv'
  BY <1>7, ScopedIsBased
<1>8. ASSUME NEW e \in Engineers, CountRevisions(e) PROVE RulesInv'
  BY <1>8, RevisionsAreCounted
<1>9. ASSUME NEW e \in Engineers, SaveRevision(e) PROVE RulesInv'
  BY <1>9, RevisionIsSaved
<1>10. ASSUME NEW e \in Engineers, Decide(e) PROVE RulesInv'
  BY <1>10, RestIsQuiet, MemoryStays DEF Decide, BookStays
<1>11. ASSUME NEW e \in Engineers, SaveMapping(e) PROVE RulesInv'
  BY <1>11, RestIsQuiet, MappingIsSaved DEF SaveMapping, BookStays
<1>12. ASSUME NEW e \in Engineers, Leave(e) PROVE RulesInv'
  BY <1>12, RestIsQuiet, MemoryStays DEF Leave, BookStays
<1>13. ASSUME NEW r \in Rows, EditRow(r) PROVE RulesInv'
  BY <1>13, RestIsQuiet, MemoryStays DEF EditRow, BookStays
<1>14. CASE UNCHANGED rulesVars
  BY <1>14, RestIsQuiet, MemoryStays DEF rulesVars, BookStays, bookVars
<1> QED
  BY <1>1, <1>2, <1>3, <1>4, <1>5, <1>6, <1>7, <1>8, <1>9, <1>10, <1>11, <1>12, <1>13, <1>14, Zenon
     DEF RulesNext

\* The step that writes a rule is that of the engineer who counted revisions.
LEMMA OnlySavedRulesAreAdded ==
  ASSUME RulesInv, RulesNext, NEW e \in Engineers, desk[e].at = "counted",
         Len(book') > Len(book), desk'[e] # desk[e]
  PROVE  SaveRevision(e)
<1> USE DEF RulesInv
<1>1. ASSUME NEW x \in Engineers, NEW ask, NEW row, ShowGuided(x, ask, row) PROVE FALSE
  <2>1. PICK d : desk' = [desk EXCEPT ![x] = d] /\ desk[x].at = "idle"
    BY <1>1 DEF ShowGuided
  <2> QED
    BY <2>1 DEF DeskRows
<1>2. ASSUME NEW x \in Engineers, SaveRevision(x) PROVE x = e
  <2>1. PICK d : desk' = [desk EXCEPT ![x] = d]
    BY <1>2 DEF SaveRevision
  <2> QED
    BY <2>1 DEF DeskRows
<1>3. ASSUME BookStays PROVE FALSE
  BY <1>3 DEF BookStays, bookVars, BookIsInOrder
<1>4. ASSUME NEW x \in Engineers,
             \/ \E ask : ShowScoped(x, ask)
             \/ \E to : Manage(x, to)
             \/ \E k, target : Recall(x, k, target)
             \/ CheckGuided(x) \/ CheckScoped(x) \/ BaseScoped(x) \/ CountRevisions(x)
             \/ Decide(x) \/ SaveMapping(x) \/ Leave(x)
      PROVE  BookStays
  BY <1>4 DEF ShowScoped, Manage, Recall, CheckGuided, CheckScoped, BaseScoped, CountRevisions, Decide,
              SaveMapping, Leave, BookStays
<1>5. ASSUME NEW r \in Rows, EditRow(r) PROVE BookStays
  BY <1>5 DEF EditRow, BookStays
<1> QED
  BY <1>1, <1>2, <1>3, <1>4, <1>5, Zenon DEF RulesNext

LEMMA RuleIsWrittenAsShown == RulesInv /\ [RulesNext]_rulesVars => ActivatesAsShown
<1> SUFFICES ASSUME RulesInv, [RulesNext]_rulesVars, NEW e \in Engineers,
                    desk[e].at = "counted", desk[e].ask \in Guided \cup Scoped,
                    Len(book') > Len(book), desk'[e] # desk[e]
             PROVE  /\ book'[active'] = Candidate(book[desk[e].shown.base], desk[e].shown.rule)
                    /\ desk[e].ask \in Guided => desk[e].shown.hit # {} /\ desk[e].shown.clash = {}
  BY Zenon DEF ActivatesAsShown, Candidate
<1> DEFINE o == desk[e]
<1>1. SaveRevision(e)
  BY OnlySavedRulesAreAdded DEF rulesVars
<1>2. RestsOnShown(o, book) /\ Len(book) \in Nat
  BY DEF RulesInv, BookIsInOrder
<1>3. IsFree(book, o.latest)
  BY <1>1, <1>2 DEF SaveRevision
<1>4. book' = Append(book, o.next) /\ active' = Len(book) + 1
  BY <1>1, <1>3 DEF SaveRevision, IsFree
<1>5. PICK S : book \in Seq(S)
  BY DEF RulesInv, BookIsInOrder
<1>6. book \in Seq(S \cup {o.next}) /\ o.next \in S \cup {o.next}
  BY <1>5
<1>7. book'[active'] = o.next
  BY <1>4, <1>6
<1> QED
  BY <1>2, <1>7 DEF RestsOnShown, Usable

-----------------------------------------------------------------------------
(* What becomes active is made of rules, and decides by rank.               *)

\* Every revision is made of rules the index can look at, and so is what an
\* engineer is about to write.
RowIsOfRules(d) ==
  /\ AreRules(d.next)
  /\ d.at \in {"shown", "resolved"} => IsRule(d.shown.rule)
BookIsOfRules ==
  /\ \A n \in 1..Len(book) : AreRules(book[n])
  /\ \A e \in Engineers : RowIsOfRules(desk[e])

LEMMA NoRules == AreRules({})
  BY FS_EmptySet DEF AreRules

LEMMA RestIsOfRules == RowIsOfRules(AtRest)
  BY NoRules DEF RowIsOfRules, AtRest

LEMMA CandidatesAreRules ==
  ASSUME NEW rules, NEW rule, AreRules(rules), IsRule(rule)
  PROVE  AreRules(Candidate(rules, rule))
<1> DEFINE others == {r \in rules : r.id # rule.id}
<1>1. IsFiniteSet(others)
  BY FS_Subset DEF AreRules
<1> HIDE DEF others
<1>2. IsFiniteSet(others \cup {rule})
  BY <1>1, FS_AddElement
<1> QED BY <1>2 DEF AreRules, Candidate, others

LEMMA PreviewsShowTheirRule ==
  /\ \A ask, row, base : GuidedPreview(ask, row, base).rule = GuidedRule(ask, row)
  /\ \A ask, row, base, n : [GuidedPreview(ask, row, base) EXCEPT !.base = n].rule = GuidedRule(ask, row)
  /\ \A ask : ScopedPreview(ask).rule = ScopedRule(ask)
  BY DEF GuidedPreview, ScopedPreview, Preview, PreviewFrom, PreviewOf, Shown

LEMMA GuidedRulesAreRules ==
  ASSUME NEW ask \in Guided, NEW row, ValidRule(GuidedRule(ask, row))
  PROVE  IsRule(GuidedRule(ask, row))
<1> DEFINE r == GuidedRule(ask, row)
           c == [field |-> ask.field, operator |-> ask.operator, value |-> NormalOf(ask.value), exactCase |-> FALSE]
           written == UNION {ActionFields(ask.actions[i]) : i \in DOMAIN ask.actions}
           scope == GuidedScope(ask, Values[row], written)
<1>1. /\ r.scope = scope /\ r.when = [all |-> TRUE, items |-> {c}]
      /\ r.id = RuleId[ask] /\ r.priority = 100 /\ r.actions = ask.actions
      /\ {"id", "priority", "scope", "when", "actions"} \subseteq DOMAIN r
  BY DEF GuidedRule
<1> HIDE DEF r, written
<1>2. NormalOf(ask.value) # None
  <2>1. c \in r.when.items
    BY <1>1
  <2>2. NormalOf(NormalOf(ask.value)) # None
    BY <2>1 DEF ValidRule, r
  <2> QED BY <2>2 DEF NormalOf
<1>3. c.field \in Fields /\ c.value \in Texts
  BY <1>2, InputsAssumption DEF InputsAssumption, IsText
<1>4. IsScope(scope)
  <2> DEFINE own == IF ask.scope = "profile" \/ NormalOf(Values[row][ask.scope]) = None THEN {} ELSE {ask.scope}
             dims == DOMAIN Context \cup own \cup (IF written = {} THEN {} ELSE {"sourceFields"})
  <2>1. own \subseteq Dimensions \cap Fields /\ DOMAIN Context \subseteq Dimensions
    BY InputsAssumption DEF InputsAssumption
  <2>2. scope = [d \in dims |-> IF d \in DOMAIN Context THEN {Context[d]}
                                ELSE IF d = "sourceFields" THEN written ELSE {NormalOf(Values[row][d])}]
    BY DEF GuidedScope
  <2> HIDE DEF own
  <2>3. DOMAIN scope \subseteq (Dimensions \cap (Fields \cup DOMAIN Context)) \cup {"sourceFields"}
    BY <2>1, <2>2
  <2>4. "sourceFields" \notin Dimensions
    BY DEF Dimensions, ScopeOrder
  <2>5. ASSUME NEW d \in Dimensions \cap DOMAIN scope PROVE IsFiniteSet(scope[d])
    <3>1. \E x : scope[d] = {x}
      BY <2>2, <2>4, <2>5
    <3> QED BY <3>1, FS_Singleton
  <2> QED BY <2>3, <2>5 DEF IsScope
<1>5. IsFiniteSet({c})
  BY FS_Singleton
<1> HIDE DEF c, scope
<1>6. r.when.items = {c}
  BY <1>1
<1>7. RuleId[ask] \in Int /\ IsList(ask.actions)
  BY InputsAssumption DEF InputsAssumption
<1> QED BY <1>1, <1>3, <1>4, <1>5, <1>6, <1>7 DEF IsRule, r

LEMMA ScopedRulesAreRules ==
  ASSUME NEW ask \in Scoped, active \in Int
  PROVE  IsRule(ScopedRule(ask))
<1> DEFINE r == ScopedRule(ask)
           c == [field |-> ask.field, operator |-> "NORMALIZED_EXACT", value |-> ask.value, exactCase |-> FALSE]
<1>1. /\ r.scope = ask.scopes /\ r.when = [all |-> TRUE, items |-> {c}]
      /\ r.id = 100 * active + RuleId[ask] /\ r.priority = 100 /\ r.actions = ask.actions
      /\ {"id", "priority", "scope", "when", "actions"} \subseteq DOMAIN r
  BY DEF ScopedRule
<1>2. c.field \in Fields /\ c.value \in Texts /\ IsScope(ask.scopes)
  BY InputsAssumption DEF InputsAssumption
<1>3. IsFiniteSet({c})
  BY FS_Singleton
<1> HIDE DEF c, r
<1>4. r.when.items = {c}
  BY <1>1
<1>5. RuleId[ask] \in Int /\ IsList(ask.actions)
  BY InputsAssumption DEF InputsAssumption
<1> QED BY <1>1, <1>2, <1>3, <1>4, <1>5 DEF IsRule, r

LEMMA ManagedRulesAreRules ==
  ASSUME NEW rules, NEW rule \in rules, AreRules(rules), NEW to
  PROVE  AreRules((rules \ {rule}) \cup (IF to = "REMOVE" THEN {} ELSE {Managed(rule, to)}))
<1> DEFINE m == Managed(rule, to)
<1>1. IsRule(rule)
  BY DEF AreRules
<1>2. /\ DOMAIN m = DOMAIN rule /\ m.id = rule.id /\ m.priority = rule.priority
      /\ m.scope = rule.scope /\ m.when = rule.when /\ m.actions = rule.actions
  BY <1>1 DEF Managed, IsRule
<1> HIDE DEF m
<1>3. IsRule(m)
  BY <1>1, <1>2 DEF IsRule
<1> DEFINE others == rules \ {rule}
<1>4. AreRules(others) /\ \A r \in others : r.id # rule.id
  <2>1. IsFiniteSet(others)
    BY FS_RemoveElement DEF AreRules
  <2> QED BY <2>1 DEF AreRules
<1> HIDE DEF others
<1>5. IsFiniteSet(others \cup {m})
  BY <1>4, FS_AddElement DEF AreRules
<1>6. AreRules(others \cup {m})
  BY <1>2, <1>3, <1>4, <1>5 DEF AreRules
<1>7. others \cup {} = others
  OBVIOUS
<1>8. AreRules(others \cup (IF to = "REMOVE" THEN {} ELSE {m}))
  <2>1. CASE to = "REMOVE"
    BY <1>4, <1>7, <2>1
  <2>2. CASE to # "REMOVE"
    BY <1>6, <2>2
  <2> QED BY <2>1, <2>2
<1> QED BY <1>8 DEF m, others

\* One engineer comes to a row of rules, and the book stays or is made of rules.
LEMMA OneMovesAmongRules ==
  ASSUME DeskRows, BookIsOfRules, \A n \in 1..Len(book') : AreRules(book'[n]),
         NEW e \in Engineers, NEW d, RowIsOfRules(d), desk' = [desk EXCEPT ![e] = d]
  PROVE  BookIsOfRules'
<1>1. \A other \in Engineers : desk'[other] = d \/ desk'[other] = desk[other]
  BY DEF DeskRows
<1>2. \A other \in Engineers : RowIsOfRules(desk'[other])
  BY <1>1, Zenon DEF BookIsOfRules
<1> QED BY <1>2 DEF BookIsOfRules

LEMMA BookStaysOfRules ==
  ASSUME BookIsOfRules, BookStays
  PROVE  \A n \in 1..Len(book') : AreRules(book'[n])
  BY DEF BookIsOfRules, BookStays, bookVars

LEMMA BookOfRulesStep ==
  ASSUME RulesInv, BookIsOfRules, [RulesNext]_rulesVars
  PROVE  BookIsOfRules'
<1> USE DEF RulesInv
<1>a. active = Len(book) /\ Len(book) \in Nat
  BY DEF BookIsInOrder
<1>b. Len(book) > 0 => AreRules(book[active])
  BY <1>a DEF BookIsOfRules
<1>c. \A e \in Engineers : RowIsOfRules(desk[e]) /\ IsRow(desk[e]) /\ RestsOnShown(desk[e], book)
  BY DEF BookIsOfRules, DeskRows
<1>1. ASSUME NEW e \in Engineers, NEW ask \in Guided, NEW row \in Rows, ShowGuided(e, ask, row) PROVE BookIsOfRules'
  <2> DEFINE w == [GuidedPreview(ask, row, IF book = <<>> THEN {} ELSE book[active]) EXCEPT !.base = active']
             b == IF ask.scope = "profile" THEN None ELSE row
             c == [AtRest EXCEPT !.at = "shown", !.ask = ask]
             f == [c EXCEPT !.about = b]
             d == [f EXCEPT !.shown = w]
  <2>1. desk' = [desk EXCEPT ![e] = d] /\ EnsureBook /\ ValidRule(GuidedRule(ask, row))
    BY <1>1 DEF ShowGuided
  <2>2. IsRule(w.rule)
    BY <2>1, GuidedRulesAreRules, PreviewsShowTheirRule
  <2> HIDE DEF w, b
  <2>3. c = [at |-> "shown", ask |-> ask, about |-> None, shown |-> NoScreen, next |-> {}, latest |-> 0]
    BY AskedRow
  <2> HIDE DEF c
  <2>4. f = [at |-> "shown", ask |-> ask, about |-> b, shown |-> NoScreen, next |-> {}, latest |-> 0]
    BY <2>3
  <2> HIDE DEF f
  <2>5. d = [at |-> "shown", ask |-> ask, about |-> b, shown |-> w, next |-> {}, latest |-> 0]
    BY <2>4
  <2> HIDE DEF d
  <2>6. RowIsOfRules(d)
    BY <2>2, <2>5, NoRules DEF RowIsOfRules
  <2>7. \A n \in 1..Len(book') : AreRules(book'[n])
    BY <2>1, NoRules DEF EnsureBook, BookIsOfRules
  <2> QED BY <2>1, <2>6, <2>7, OneMovesAmongRules
<1>2. ASSUME NEW e \in Engineers, NEW ask \in Scoped, ShowScoped(e, ask) PROVE BookIsOfRules'
  <2> DEFINE w == ScopedPreview(ask)
             d == [AtRest EXCEPT !.at = "shown", !.ask = ask, !.shown = w]
  <2>1. desk' = [desk EXCEPT ![e] = d] /\ BookStays
    BY <1>2 DEF ShowScoped, ShowThe, BookStays
  <2>2. IsRule(w.rule)
    BY <1>a, ScopedRulesAreRules, PreviewsShowTheirRule
  <2> HIDE DEF w
  <2>3. d = [at |-> "shown", ask |-> ask, about |-> None, shown |-> w, next |-> {}, latest |-> 0]
    BY ScopedScreen, Zenon DEF d
  <2> HIDE DEF d
  <2>4. RowIsOfRules(d)
    BY <2>2, <2>3, NoRules DEF RowIsOfRules
  <2> QED BY <2>1, <2>4, OneMovesAmongRules, BookStaysOfRules
<1>3. ASSUME NEW e \in Engineers, NEW to, Manage(e, to) PROVE BookIsOfRules'
  <2>1. PICK rule \in book[active] :
          desk' = [desk EXCEPT ![e] = [AtRest EXCEPT !.at = "based", !.next =
                     (book[active] \ {rule}) \cup (IF to = "REMOVE" THEN {} ELSE {Managed(rule, to)})]]
    BY <1>3 DEF Manage
  <2> DEFINE n == (book[active] \ {rule}) \cup (IF to = "REMOVE" THEN {} ELSE {Managed(rule, to)})
             d == [AtRest EXCEPT !.at = "based", !.next = n]
  <2>2. BookStays /\ Len(book) > 0
    BY <1>3, <1>a DEF Manage, BookStays, BookIsInOrder
  <2>3. AreRules(n)
    BY <1>b, <2>2, ManagedRulesAreRules
  <2>4. desk' = [desk EXCEPT ![e] = d]
    BY <2>1
  <2> HIDE DEF n
  <2>5. d = [at |-> "based", ask |-> None, about |-> None, shown |-> NoScreen, next |-> n, latest |-> 0]
    BY ManagedRow, Zenon DEF d
  <2> HIDE DEF d
  <2>6. RowIsOfRules(d)
    BY <2>3, <2>5 DEF RowIsOfRules
  <2> QED BY <2>2, <2>4, <2>6, OneMovesAmongRules, BookStaysOfRules
<1>4. ASSUME NEW e \in Engineers, NEW k \in MappingKeys, NEW target \in Targets \cup {None}, Recall(e, k, target)
      PROVE  BookIsOfRules'
  <2> DEFINE n == Len(memory[k])
             d == [AtRest EXCEPT !.at = "recalled", !.ask = k, !.about = target, !.latest = n]
  <2>1. desk' = [desk EXCEPT ![e] = d] /\ BookStays
    BY <1>4 DEF Recall, BookStays
  <2> HIDE DEF n
  <2>2. d = [at |-> "recalled", ask |-> k, about |-> target, shown |-> NoScreen, next |-> {}, latest |-> n]
    BY RecalledRow, Zenon DEF d
  <2> HIDE DEF d
  <2>3. RowIsOfRules(d)
    BY <2>2, NoRules DEF RowIsOfRules
  <2> QED BY <2>1, <2>3, OneMovesAmongRules, BookStaysOfRules
<1>5. ASSUME NEW e \in Engineers, CheckGuided(e) PROVE BookIsOfRules'
  <2> DEFINE o == desk[e]
             now == GuidedPreview(o.ask, o.about, book[active])
             d == Checked(o, now)
  <2>1. o.at = "shown" /\ o.ask \in Guided /\ BookStays /\ desk' = [desk EXCEPT ![e] = d]
    BY <1>5 DEF CheckGuided, BookStays
  <2>2. RowIsOfRules(o) /\ IsRow(o) /\ Len(book) > 0
    BY <1>c, <2>1 DEF RestsOnShown
  <2> HIDE DEF o, now
  <2>3. CASE now = o.shown /\ Usable(now)
    <3> DEFINE n == Candidate(book[active], now.rule)
    <3>1. d = [o EXCEPT !.at = "based", !.next = n]
      BY <2>3 DEF Checked, Unchanged
    <3>2. AreRules(n)
      BY <1>b, <2>1, <2>2, <2>3, CandidatesAreRules DEF RowIsOfRules
    <3> HIDE DEF n
    <3>3. d = [at |-> "based", ask |-> o.ask, about |-> o.about, shown |-> o.shown, next |-> n, latest |-> o.latest]
      BY <2>2, <3>1, BasedRow
    <3> HIDE DEF d
    <3>4. RowIsOfRules(d)
      BY <3>2, <3>3 DEF RowIsOfRules
    <3> QED BY <2>1, <3>4, OneMovesAmongRules, BookStaysOfRules
  <2>4. CASE ~(now = o.shown /\ Usable(now))
    <3>1. d = AtRest
      BY <2>4 DEF Checked, Unchanged
    <3> HIDE DEF d
    <3> QED BY <2>1, <3>1, RestIsOfRules, OneMovesAmongRules, BookStaysOfRules
  <2> QED BY <2>3, <2>4
<1>6. ASSUME NEW e \in Engineers, CheckScoped(e) PROVE BookIsOfRules'
  <2> DEFINE o == desk[e]
             m == [o EXCEPT !.at = "resolved"]
             d == IF Unchanged(o.shown, ScopedPreview(o.ask)) THEN m ELSE AtRest
  <2>1. o.at = "shown" /\ BookStays /\ desk' = [desk EXCEPT ![e] = d]
    BY <1>6 DEF CheckScoped, BookStays
  <2>2. RowIsOfRules(o) /\ IsRow(o)
    BY <1>c
  <2> HIDE DEF o
  <2>3. m = [at |-> "resolved", ask |-> o.ask, about |-> o.about, shown |-> o.shown, next |-> o.next, latest |-> o.latest]
    BY <2>2, MovedRow
  <2> HIDE DEF m
  <2>4. RowIsOfRules(m)
    BY <2>1, <2>2, <2>3 DEF RowIsOfRules
  <2>5. d = m \/ d = AtRest
    BY Zenon
  <2> HIDE DEF d
  <2>6. RowIsOfRules(d)
    BY <2>4, <2>5, RestIsOfRules, Zenon
  <2> QED BY <2>1, <2>6, OneMovesAmongRules, BookStaysOfRules
<1>7. ASSUME NEW e \in Engineers, BaseScoped(e) PROVE BookIsOfRules'
  <2> DEFINE o == desk[e]
             n == Candidate(book[active], o.shown.rule)
             m == [o EXCEPT !.at = "based", !.next = n]
             d == IF active = o.shown.base THEN m ELSE AtRest
  <2>1. o.at = "resolved" /\ BookStays /\ desk' = [desk EXCEPT ![e] = d]
    BY <1>7 DEF BaseScoped, BookStays
  <2>2. RowIsOfRules(o) /\ IsRow(o) /\ Len(book) > 0
    BY <1>c, <2>1 DEF RestsOnShown
  <2> HIDE DEF o
  <2>3. AreRules(n)
    BY <1>b, <2>1, <2>2, CandidatesAreRules DEF RowIsOfRules
  <2> HIDE DEF n
  <2>4. m = [at |-> "based", ask |-> o.ask, about |-> o.about, shown |-> o.shown, next |-> n, latest |-> o.latest]
    BY <2>2, BasedRow
  <2> HIDE DEF m
  <2>5. RowIsOfRules(m)
    BY <2>3, <2>4 DEF RowIsOfRules
  <2>6. d = m \/ d = AtRest
    BY Zenon
  <2> HIDE DEF d
  <2>7. RowIsOfRules(d)
    BY <2>5, <2>6, RestIsOfRules, Zenon
  <2> QED BY <2>1, <2>7, OneMovesAmongRules, BookStaysOfRules
<1>8. ASSUME NEW e \in Engineers, CountRevisions(e) PROVE BookIsOfRules'
  <2> DEFINE o == desk[e]
             d == [o EXCEPT !.at = "counted", !.latest = Len(book)]
  <2>1. BookStays /\ desk' = [desk EXCEPT ![e] = d]
    BY <1>8 DEF CountRevisions, BookStays, DeskRows
  <2>2. RowIsOfRules(o) /\ IsRow(o)
    BY <1>c
  <2> HIDE DEF o
  <2>3. d = [at |-> "counted", ask |-> o.ask, about |-> o.about, shown |-> o.shown, next |-> o.next, latest |-> Len(book)]
    BY <2>2, CountedRow
  <2> HIDE DEF d
  <2>4. RowIsOfRules(d)
    BY <2>2, <2>3 DEF RowIsOfRules
  <2> QED BY <2>1, <2>4, OneMovesAmongRules, BookStaysOfRules
<1>9. ASSUME NEW e \in Engineers, SaveRevision(e) PROVE BookIsOfRules'
  <2> DEFINE o == desk[e]
             m == [o EXCEPT !.at = "saved"]
             d == IF o.ask \in Scoped THEN m ELSE AtRest
  <2>1. RowIsOfRules(o) /\ IsRow(o)
    BY <1>c
  <2>2. CASE ~IsFree(book, o.latest)
    BY <1>9, <2>2, RestIsOfRules, OneMovesAmongRules, BookStaysOfRules DEF SaveRevision, BookStays, bookVars
  <2>3. CASE IsFree(book, o.latest)
    <3>1. book' = Append(book, o.next) /\ desk' = [desk EXCEPT ![e] = d]
      BY <1>9, <2>3 DEF SaveRevision
    <3>2. PICK S : book \in Seq(S)
      BY DEF BookIsInOrder
    <3>3. book \in Seq(S \cup {o.next}) /\ o.next \in S \cup {o.next}
      BY <3>2
    <3>4. /\ Len(book') = Len(book) + 1 /\ book'[Len(book) + 1] = o.next
          /\ \A i \in 1..Len(book) : book'[i] = book[i]
      BY <3>1, <3>3
    <3> HIDE DEF o
    <3>5. \A n \in 1..Len(book') : AreRules(book'[n])
      <4>1. TAKE n \in 1..Len(book')
      <4>2. n \in 1..Len(book) \/ n = Len(book) + 1
        BY <1>a, <3>4
      <4> QED BY <2>1, <3>4, <4>2 DEF BookIsOfRules, RowIsOfRules
    <3>6. m = [at |-> "saved", ask |-> o.ask, about |-> o.about, shown |-> o.shown, next |-> o.next, latest |-> o.latest]
      BY <2>1, MovedRow
    <3> HIDE DEF m
    <3>7. RowIsOfRules(m)
      BY <2>1, <3>6 DEF RowIsOfRules
    <3>8. d = m \/ d = AtRest
      BY Zenon
    <3> HIDE DEF d
    <3>9. RowIsOfRules(d)
      BY <3>7, <3>8, RestIsOfRules, Zenon
    <3> QED BY <3>1, <3>5, <3>9, OneMovesAmongRules
  <2> QED BY <2>2, <2>3
<1>10. ASSUME NEW e \in Engineers, Decide(e) \/ SaveMapping(e) \/ Leave(e) PROVE BookIsOfRules'
  <2>1. desk' = [desk EXCEPT ![e] = AtRest] /\ BookStays
    BY <1>10 DEF Decide, SaveMapping, Leave, BookStays
  <2> QED BY <2>1, RestIsOfRules, OneMovesAmongRules, BookStaysOfRules
<1>11. CASE (\E r \in Rows : EditRow(r)) \/ UNCHANGED rulesVars
  <2>1. UNCHANGED desk /\ BookStays
    BY <1>11 DEF EditRow, rulesVars, BookStays, bookVars
  <2> QED BY <2>1, BookStaysOfRules DEF BookIsOfRules
<1> QED
  BY <1>1, <1>2, <1>3, <1>4, <1>5, <1>6, <1>7, <1>8, <1>9, <1>10, <1>11, Zenon DEF RulesNext

\* What becomes active is the last revision.
LEMMA LastIsActive ==
  ASSUME RulesInv, [RulesNext]_rulesVars, book' # book
  PROVE  active' \in 1..Len(book')
<1> USE DEF RulesInv
<1>1. RulesInv'
  BY RulesInvStep
<1>2. active' = Len(book') /\ Len(book') \in Nat
  BY <1>1 DEF BookIsInOrder
<1>3. ASSUME Len(book') = 0 PROVE FALSE
  <2>1. book' = <<>>
    BY <1>1, <1>3 DEF BookIsInOrder
  <2>2. PICK S : book \in Seq(S)
    BY DEF BookIsInOrder
  <2>3. \A n : Append(book, n) # <<>>
    <3>1. TAKE n
    <3>2. book \in Seq(S \cup {n}) /\ n \in S \cup {n}
      BY <2>2
    <3>3. Len(Append(book, n)) = Len(book) + 1 /\ Len(book) \in Nat
      BY <3>2
    <3> QED BY <3>3
  <2>4. \A e, ask, row : ~ShowGuided(e, ask, row)
    BY <1>2, <2>1 DEF ShowGuided, EnsureBook
  <2>5. \A e : ~SaveRevision(e)
    BY <2>1, <2>3 DEF SaveRevision
  <2>6. ~BookStays
    BY DEF BookStays, bookVars
  <2> QED
    BY <2>4, <2>5, <2>6, Zenon
       DEF RulesNext, rulesVars, BookStays, bookVars, ShowScoped, Manage, Recall, CheckGuided, CheckScoped, BaseScoped,
           CountRevisions, Decide, SaveMapping, Leave, EditRow
<1> QED BY <1>2, <1>3

LEMMA ActiveRulesDecide ==
  ASSUME RulesInv, BookIsOfRules, [RulesNext]_rulesVars
  PROVE  SelectsByRank /\ KeepsAsStaged
<1> SUFFICES ASSUME book' # book, NEW row \in Rows
             PROVE  SelectedByRank(book'[active'], Values[row]) /\ KeptAsStaged(book'[active'], Values[row])
  BY DEF SelectsByRank, KeepsAsStaged
<1>1. active' \in 1..Len(book')
  BY LastIsActive
<1>2. BookIsOfRules'
  BY BookOfRulesStep
<1>3. AreRules(book'[active'])
  BY <1>1, <1>2 DEF BookIsOfRules
<1>4. IsStaged(Values[row])
  BY InputsAssumption DEF InputsAssumption
<1>5. \A r \in book'[active'] : IsRule(r)
  BY <1>3 DEF AreRules
<1> QED BY <1>3, <1>4, <1>5, SelectionIsByRank, RestIsKept

\* Under every rule set that becomes active, whoever writes rules meanwhile, the
\* actions applied to a row are those that no matching rule outranks on any of
\* the slots they write, and that are not disputed there; a field that no action
\* won stays as staged; and a guided or a scoped rule becomes active on exactly
\* the rule set it was shown on, a guided one shown to touch a row and to contest
\* no other rule.  (chooseSlotWinners, candidateIndexes,
\* applyImporterV2GuidedRule, persistReusableDecision)
THEOREM RulesAlwaysDecide == RulesSpec => RulesDecide
<1>1. RulesInit => RulesInv /\ BookIsOfRules
  <2>1. ASSUME RulesInit PROVE BookIsOfRules
    BY <2>1, RestIsOfRules DEF RulesInit, BookIsOfRules
  <2> QED BY <2>1, RulesInvInit
<1>2. (RulesInv /\ BookIsOfRules) /\ [RulesNext]_rulesVars => (RulesInv /\ BookIsOfRules)'
  BY RulesInvStep, BookOfRulesStep
<1>3. RulesSpec => [](RulesInv /\ BookIsOfRules)
  BY <1>1, <1>2, PTL DEF RulesSpec
<1>4. (RulesInv /\ BookIsOfRules) /\ [RulesNext]_rulesVars => SelectsByRank /\ KeepsAsStaged /\ ActivatesAsShown
  BY RuleIsWrittenAsShown, ActiveRulesDecide
<1> QED
  BY <1>3, <1>4, PTL DEF RulesSpec, RulesDecide

\* Of the versions of a remembered mapping only the latest can be active, whoever
\* remembers and forgets at the same time.  (rememberImporterV2ExactMapping,
\* deactivateImporterV2ExactMapping)
THEOREM MemoryStands == RulesSpec => []MemoryHasOneVoice
<1>1. RulesInv => MemoryHasOneVoice
  BY DEF RulesInv, MemoryIsInOrder
<1> QED
  BY <1>1, RulesInvInit, RulesInvStep, PTL DEF RulesSpec
=============================================================================
