-------------------------- MODULE ImportEvaluation --------------------------
(* From a row of a source to a staged row (importer-v2-ingestion-store.ts,  *)
(* importer-v2-hierarchy.ts, importer-v2-profile-preview.ts,                *)
(* importer-v2-evaluator.ts, importer-v2-firmware-evaluation.ts).  The row  *)
(* is uploaded, and evaluated against the catalog that stands when it is    *)
(* staged.  Texts stand for their match keys.                               *)
EXTENDS ImportEvidence

CONSTANTS
  Sheets,      \* rows a source may hold
  Records,     \* catalog records: [field, id, label, customer, unit, relation]
  Volatile,    \* bound: ids of records an administrator switches on and off
  Aliases,     \* mappings the source profile brings: [field, input, id, label]
  Mappings,    \* mappings an engineer may have remembered
  Supports,    \* configured platform rules: [model, vendor, platforms]
  Joined,      \* the name several segments make
  Template,    \* hierarchy template: set of [min, max, assign], max may be None
  TypeRules    \* device-type rules: [type, action]

\* A site is always of a customer, the column is never empty; and no record is
\* shown as nothing.
ASSUME EvaluationAssumption ==
  \A r \in Records : /\ r.field = "site" => r.customer # None
                    /\ [id |-> r.id, label |-> r.label] # None

VARIABLES
  inactive,    \* ids of the records that are switched off
  remembered,  \* active mappings
  supported,   \* platform rules configured
  staged       \* the staged row of the last upload, or None

evaluationVars == <<inactive, remembered, supported, staged>>

Required == {"customer", "site", "vendor", "model", "deviceType"}
Noted == {"productFamily", "softwarePlatform", "currentFirmware"}
Resolvable == {"customer", "businessUnit", "site", "vendor", "productFamily", "model", "deviceType"}
CanonicalValue(id, label) == [id |-> id, label |-> label]
-----------------------------------------------------------------------------
(* Preparation of a row.                                                    *)

Width(v) == IF v.max = None THEN 1000 ELSE v.max - v.min
Variants(n) == {v \in Template : v.min <= n /\ (v.max = None \/ n <= v.max)}
Narrowest(n) ==
  {v \in Variants(n) : \A w \in Variants(n) : Width(v) < Width(w) \/ (Width(v) = Width(w) /\ v.min >= w.min)}

\* An assignment takes one segment, or a segment and all that follow it.
Taken(segments, assigned) ==
  IF assigned.from > Len(segments) THEN None
  ELSE IF assigned.rest /\ assigned.from < Len(segments) THEN Joined[SubSeq(segments, assigned.from, Len(segments))]
  ELSE segments[assigned.from]

Parsed(segments) ==
  LET n == Len(segments)
      conforms == n > 0 /\ "" \notin {segments[i] : i \in 1..n} /\ Cardinality(Narrowest(n)) = 1
      variant == CHOOSE v \in Narrowest(n) : TRUE
  IN [f \in {"customer", "businessUnit", "site"} |->
        IF conforms /\ f \in DOMAIN variant.assign THEN Taken(segments, variant.assign[f]) ELSE None]

TypeAction(type) ==
  LET actions == {r.action : r \in {x \in TypeRules : x.type = type}}
  IN IF Cardinality(actions) > 1 THEN "REVIEW"
     ELSE IF actions # {} THEN CHOOSE a \in actions : TRUE
     ELSE IF type \in {None, "unknown", "generic", "other"} THEN "REVIEW" ELSE "INCLUDE"

\* Columns of their own for unit or site are taken as they are.
Prepared(row) ==
  LET parsed == Parsed(row.organization)
      values == [f \in Resolvable |->
        CASE f = "customer" -> IF row.direct THEN row.organization[1] ELSE parsed[f]
          [] f = "site" -> IF row.direct THEN row.organization[2] ELSE parsed[f]
          [] f = "businessUnit" -> IF row.direct THEN None ELSE parsed[f]
          [] f = "productFamily" -> None
          [] OTHER -> row[f]]
  IN [row |-> row, values |-> values, excluded |-> TypeAction(row.deviceType) = "EXCLUDE"]
-----------------------------------------------------------------------------
(* The evaluation of one field: the first layer that offers something.      *)

Active == {r \in Records : r.id \notin inactive}

\* A mutant of InContext: names are looked up among all customers.
InContextAnywhere(field, found, customer, unit) == found
InContext(field, found, customer, unit) ==
  LET ofCustomer == IF customer = None \/ \A r \in found : r.customer = None THEN found
                    ELSE {r \in found : r.customer = customer}
  IN CASE field = "businessUnit" -> ofCustomer
       [] field = "site" ->
            IF customer = None \/ unit = None \/ \A r \in ofCustomer : r.unit = None THEN ofCustomer
            ELSE {r \in ofCustomer : r.unit = unit}
       [] OTHER -> found

FromMemory(field, text) ==
  {CanonicalValue(m.id, m.label) : m \in {x \in remembered \cup Aliases : x.field = field /\ x.input = text}}
FromCatalog(field, text, customer, unit) ==
  {CanonicalValue(r.id, r.label) : r \in InContext(field, {x \in Active : x.field = field /\ x.label = text}, customer, unit)}

Resolution(source, target) == [source |-> source, target |-> target, ambiguous |-> FALSE]
AmbiguousDecision == [source |-> "UNRESOLVED", target |-> None, ambiguous |-> TRUE]
OneOf(source, targets) ==
  IF Cardinality(targets) > 1 THEN AmbiguousDecision ELSE Resolution(source, CHOOSE t \in targets : TRUE)

ResolveField(field, text, customer, unit) ==
  IF text = None THEN Resolution("UNRESOLVED", None)
  ELSE IF FromMemory(field, text) # {} THEN OneOf("REMEMBERED_EXACT_MAPPING", FromMemory(field, text))
  ELSE IF FromCatalog(field, text, customer, unit) # {}
  THEN OneOf("EXACT_CATALOG_MATCH", FromCatalog(field, text, customer, unit))
  ELSE Resolution("UNRESOLVED", CanonicalValue(None, text))

IdOf(resolution) == IF resolution.target = None THEN None ELSE resolution.target.id

Resolutions(values) ==
  LET customer == ResolveField("customer", values["customer"], None, None)
      unit == ResolveField("businessUnit", values["businessUnit"], IdOf(customer), None)
  IN [f \in Resolvable |->
        CASE f = "customer" -> customer
          [] f = "businessUnit" -> unit
          [] OTHER -> ResolveField(f, values[f], IdOf(customer), IdOf(unit))]

\* What the model of a row says of its vendor, family and type.
RelationOf(resolutions, stackMember) ==
  LET named == {r \in Active : r.field = "model" /\ r.id = IdOf(resolutions["model"]) /\ r.id # None}
  IN [f \in {"vendor", "deviceType", "productFamily"} |->
        IF named = {} \/ (f = "deviceType" /\ stackMember) THEN None
        ELSE (CHOOSE r \in named : TRUE).relation[f]]

Related(resolution, target) ==
  LET decided == IdOf(resolution) # None /\ resolution.source # "UNRESOLVED"
  IN IF target = None \/ (decided /\ IdOf(resolution) = target.id) THEN resolution
     ELSE IF decided /\ resolution.target.label # target.label THEN AmbiguousDecision
     ELSE Resolution("CANONICAL_RELATION", target)

WithModel(resolutions, stackMember) ==
  LET relation == RelationOf(resolutions, stackMember)
  IN [f \in Resolvable |->
        IF f \in DOMAIN relation THEN Related(resolutions[f], relation[f]) ELSE resolutions[f]]

Issue(field, severity, code) == [field |-> field, severity |-> severity, code |-> code]
FieldIssues(field, resolution) ==
  IF resolution.ambiguous THEN {Issue(field, "ERROR", "AMBIGUOUS_DECISION")}
  ELSE IF resolution.source # "UNRESOLVED" THEN {}
  ELSE IF field \in Required THEN {Issue(field, "ERROR", "REQUIRED_FIELD_UNRESOLVED")}
  ELSE IF field \in Noted THEN {Issue(field, "WARNING", "OPTIONAL_FIELD_UNRESOLVED")} ELSE {}
-----------------------------------------------------------------------------
(* The firmware of the row, and its status.                                 *)

Label(resolution, text) == IF resolution.target # None THEN resolution.target.label ELSE text
FirmwareEvidence(prepared, resolutions) ==
  [provider |-> prepared.row.provider, platform |-> prepared.row.platform,
   vendor |-> Label(resolutions["vendor"], prepared.values["vendor"]),
   model |-> Label(resolutions["model"], prepared.values["model"]),
   family |-> Label(resolutions["productFamily"], None),
   type |-> Label(resolutions["deviceType"], prepared.values["deviceType"]),
   firmware |-> prepared.row.firmware, software |-> prepared.row.software]

\* A required value nobody knows is a proposal to create it, not an error.
IssuesOf(resolutions, reading) ==
  (UNION {{i \in FieldIssues(f, resolutions[f]) :
             i.code = "REQUIRED_FIELD_UNRESOLVED" => resolutions[f].target = None} : f \in Resolvable})
  \cup {Issue("currentFirmware", "WARNING", "OPTIONAL_FIELD_UNRESOLVED") : x \in {r \in {reading} : r.running = None}}
  \cup {Issue("softwarePlatform", "WARNING", "OPTIONAL_FIELD_UNRESOLVED") : x \in {r \in {reading} : r.platform = None}}

NonBlocking == {"BOOT_FIRMWARE_IGNORED", "PLACEHOLDER_FIRMWARE_IGNORED", "UNKNOWN_RUNNING_FIRMWARE"}

\* A mutant of NeedsReview: what the interpreter warns of never blocks.
NeedsReviewOfErrors(issues, reading) == \E i \in issues : i.severity = "ERROR"
NeedsReview(issues, reading) ==
  (\E i \in issues : i.severity = "ERROR") \/ reading.warnings \ NonBlocking # {}

\* The observed firmware of the device is kept when the source names none.
Preserved(row, reading) == IF reading.running = None THEN row.known ELSE None

Statuses(prepared, issues, reading) ==
  LET row == prepared.row
      kept == Preserved(row, reading) # None
      active == {i \in issues : kept => i.field # "currentFirmware"}
      warned == reading.warnings # {} \/ \E i \in issues : i.severity = "WARNING"
      cleared == kept /\ ~\E i \in active : i.severity = "WARNING"
  IN IF prepared.excluded THEN {"EXCLUDED"}
     ELSE {s \in {"NEEDS_REVIEW"} : NeedsReview(issues, reading) \/ row.doubtful}
          \cup {s \in {"WARNING"} : warned /\ ~cleared}

Primary(statuses) ==
  IF "EXCLUDED" \in statuses THEN "EXCLUDED"
  ELSE IF "NEEDS_REVIEW" \in statuses THEN "NEEDS_REVIEW"
  ELSE IF "WARNING" \in statuses THEN "WARNING" ELSE "VALID"

PlatformRules == {r \in supported : \E m \in Active : m.field = "model" /\ m.label = r.model}

EvaluatedRow(row) ==
  LET prepared == Prepared(row)
      resolutions == WithModel(Resolutions(prepared.values), row.member)
      evidence == FirmwareEvidence(prepared, resolutions)
      reading == InterpretObserved(evidence, PlatformRules)
      issues == IssuesOf(resolutions, reading)
  IN [row |-> row, resolutions |-> resolutions, evidence |-> evidence, reading |-> reading,
      status |-> Primary(Statuses(prepared, issues, reading)), errors |-> {i.field : i \in {x \in issues : x.severity = "ERROR"}}]
-----------------------------------------------------------------------------
EvaluationInit == inactive = {} /\ remembered = {} /\ supported = {} /\ staged = None

StageRow(row) == staged' = EvaluatedRow(row) /\ UNCHANGED <<inactive, remembered, supported>>
UploadAnother == staged # None /\ staged' = None /\ UNCHANGED <<inactive, remembered, supported>>

SwitchRecord(id) ==
  /\ inactive' = IF id \in inactive THEN inactive \ {id} ELSE inactive \cup {id}
  /\ UNCHANGED <<remembered, supported, staged>>
Remember(mapping) ==
  /\ remembered' = {m \in remembered : m.field # mapping.field \/ m.input # mapping.input} \cup {mapping}
  /\ UNCHANGED <<inactive, supported, staged>>
Support(rule) ==
  /\ supported' = {r \in supported : r.model # rule.model} \cup {rule}
  /\ UNCHANGED <<inactive, remembered, staged>>

\* Only the catalog that stands at an upload tells on its row: administrators
\* act between two uploads.
EvaluationNext ==
  \/ /\ staged = None
     /\ \/ \E row \in Sheets : StageRow(row)
        \/ \E id \in Volatile : SwitchRecord(id)
        \/ \E m \in Mappings : Remember(m)
        \/ \E r \in Supports : Support(r)
  \/ UploadAnother

EvaluationSpec == EvaluationInit /\ [][EvaluationNext]_evaluationVars
-----------------------------------------------------------------------------
\* What is staged as VALID needs no engineer: its running version can be
\* verified at one click, or the source names none and the device keeps its own.
TrustIsEarned ==
  (staged # None /\ staged.status = "VALID") =>
    /\ staged.errors = {}
    /\ IF staged.reading.running # None
       THEN VerificationOf(staged.evidence, staged.reading) \in {"VERIFY", "ALREADY_TRUSTED"}
       ELSE /\ staged.row.known # None /\ staged.reading.platform # None
            /\ staged.reading.pattern \in {"UNKNOWN", "BOOT"}
            /\ staged.reading.status # "INCOMPATIBLE"

\* The site found for a row is one of its customer, and in a row without errors
\* vendor, type and family are those of its model.
Site(resolution) == {r \in Records : r.field = "site" /\ r.id = IdOf(resolution)}
RowsHangTogether ==
  staged # None =>
    /\ staged.resolutions["site"].source = "EXACT_CATALOG_MATCH" =>
         IdOf(staged.resolutions["customer"]) \in {None} \cup {s.customer : s \in Site(staged.resolutions["site"])}
    /\ staged.errors = {} =>
         LET relation == RelationOf(staged.resolutions, staged.row.member)
         IN \A f \in DOMAIN relation : relation[f] # None => IdOf(staged.resolutions[f]) = relation[f].id
=============================================================================
