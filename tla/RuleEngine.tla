----------------------------- MODULE RuleEngine -----------------------------
(* The rule engine of the importer (importer-v2-rule-matcher.ts,            *)
(* -rule-compiler.ts, -rule-engine.ts, -rule-preview.ts): which rules match *)
(* a staged row, which of their actions win, what they make of the row.     *)
EXTENDS Integers, Sequences, FiniteSets, Tables

CONSTANTS
  Texts,      \* texts of sources and of rules
  Normal,     \* a text in NFKC without spare spaces; None when nothing is left
  Lower,      \* a text in lower case
  Fits,       \* per pattern operator, the pairs of a text and a pattern it fits
  Changed,    \* per transform, what it makes of a text
  Parts,      \* the parts of a text at a delimiter, empty ones as None
  Fields,     \* the fields of a row
  Context     \* profile, provider and adapter of the source
-----------------------------------------------------------------------------
(* Matching.                                                                *)

NormalOf(t) == IF t = None THEN None ELSE Normal[t]
Key(t) == IF NormalOf(t) = None THEN None ELSE Lower[Normal[t]]

\* Texts that differ in their case alone have one key.
ASSUME TextsAssumption ==
  /\ None \notin Texts
  /\ \A t, u \in Texts : Lower[t] = Lower[u] => Key(t) = Key(u)

Compared(c, t) ==
  LET seen == IF c.operator = "EXACT" THEN t ELSE NormalOf(t)
  IN IF seen = None \/ c.exactCase THEN seen ELSE Lower[seen]

ConditionMatches(c, values) ==
  LET actual == Compared(c, values[c.field])
      expected == Compared(c, c.value)
  IN /\ None \notin {actual, expected}
     /\ IF c.operator \in {"EXACT", "NORMALIZED_EXACT"} THEN actual = expected
        ELSE <<actual, expected>> \in Fits[c.operator]

\* A rule asks for all or for one of its conditions.
WhenMatches(when, values) ==
  IF when.all THEN \A c \in when.items : ConditionMatches(c, values)
  ELSE \E c \in when.items : ConditionMatches(c, values)

Nodes(when) == Cardinality(when.items) + (IF Cardinality(when.items) = 1 THEN 0 ELSE 1)

\* The dimensions of a scope, in the order in which they may anchor a rule.
ScopeOrder == <<"profile", "provider", "adapter", "customer", "businessUnit", "site",
                "vendor", "model", "productFamily", "deviceType">>
Dimensions == {ScopeOrder[i] : i \in DOMAIN ScopeOrder}
Placed(values, d) == IF d \in DOMAIN Context THEN Context[d] ELSE values[d]

ActionFields(a) ==
  CASE a.type \in {"EXCLUDE_ROW", "MATCH_DEVICE"} -> {}
    [] a.type = "SPLIT_HIERARCHY" -> {a.field} \cup {a.value[i] : i \in DOMAIN a.value}
    [] OTHER -> {a.field}

\* A dimension without values is open.  Source fields bind what a rule writes.
ScopeMatches(rule, values) ==
  /\ \A d \in Dimensions \cap DOMAIN rule.scope :
       \/ rule.scope[d] = {}
       \/ Key(Placed(values, d)) \in {Key(t) : t \in rule.scope[d]} \ {None}
  /\ \/ "sourceFields" \notin DOMAIN rule.scope
     \/ \E i \in DOMAIN rule.actions : ActionFields(rule.actions[i]) \cap rule.scope["sourceFields"] # {}

\* Each dimension counts for 100, and for up to 20 more the fewer values it has.
Specificity(rule) ==
  LET bound == {d \in DOMAIN rule.scope : rule.scope[d] # {}}
  IN 100 * Cardinality(bound) + Nodes(rule.when)
     + Cardinality({p \in bound \X (1..20) : p[2] > Cardinality(rule.scope[p[1]])})
-----------------------------------------------------------------------------
(* The index: a row looks only at the rules anchored at a key of its own.   *)

Anchors(rule) == {i \in DOMAIN ScopeOrder :
  /\ ScopeOrder[i] \in DOMAIN rule.scope
  /\ Cardinality(rule.scope[ScopeOrder[i]]) = 1
  /\ \A t \in rule.scope[ScopeOrder[i]] : Key(t) # None}

\* A condition of a group that asks for all of them is one every match meets.
ConditionAnchors(when) ==
  {c \in when.items : /\ when.all \/ Cardinality(when.items) = 1
                      /\ c.operator \in {"EXACT", "NORMALIZED_EXACT"} /\ Key(c.value) # None}

RuleAnchor(rule) ==
  IF Anchors(rule) # {} THEN
    LET d == ScopeOrder[CHOOSE i \in Anchors(rule) : \A j \in Anchors(rule) : i <= j]
    IN <<"scope", d, Key(CHOOSE t \in rule.scope[d] : TRUE)>>
  ELSE IF ConditionAnchors(rule.when) # {} THEN
    LET c == CHOOSE c \in ConditionAnchors(rule.when) : TRUE IN <<"field", c.field, Key(c.value)>>
  ELSE <<>>

RowAnchors(values) == {<<"scope", d, Key(Placed(values, d))>> : d \in Dimensions \cap (Fields \cup DOMAIN Context)}
                      \cup {<<"field", f, Key(values[f])>> : f \in Fields} \cup {<<>>}

Matched(rules, values) ==
  {r \in rules : /\ r.status = "ACTIVE" /\ RuleAnchor(r) \in RowAnchors(values)
                 /\ ScopeMatches(r, values) /\ WhenMatches(r.when, values)}
-----------------------------------------------------------------------------
(* Choice: per slot, the actions of the highest tier, if they agree.        *)

\* What an action writes.  The value of an action is a sequence of texts: the
\* label of a mapping, a value, a reason, a device, a transform, split targets.
Slots(a) ==
  CASE a.type = "EXCLUDE_ROW" -> {"row:inclusion"}
    [] a.type = "MATCH_DEVICE" -> {"row:device-match"}
    [] a.type = "SPLIT_HIERARCHY" -> {a.value[i] : i \in DOMAIN a.value}
    [] OTHER -> {a.field}

\* What makes two actions the same one.
Signature(a) ==
  CASE a.type \in {"MAP_VALUE", "EXCLUDE_ROW"} -> [a EXCEPT !.value = <<Key(a.value[1])>>]
    [] a.type = "SET_FIELD" -> [a EXCEPT !.value = <<NormalOf(a.value[1])>>]
    [] OTHER -> a

Contenders(rules, values) ==
  UNION {{[rule |-> r, action |-> r.actions[i], index |-> i, specificity |-> Specificity(r)] :
            i \in DOMAIN r.actions} : r \in Matched(rules, values)}

Above(c, d) ==
  \/ c.rule.priority > d.rule.priority
  \/ c.rule.priority = d.rule.priority /\ c.specificity > d.specificity

\* Rules are numbered in the order of their ids.
Before(c, d) ==
  \/ Above(c, d)
  \/ /\ ~Above(d, c)
     /\ c.rule.id < d.rule.id \/ (c.rule.id = d.rule.id /\ c.index < d.index)

TierOfPriority(slot, cs) ==
  LET inSlot == {c \in cs : slot \in Slots(c.action)}
  IN {c \in inSlot : \A d \in inSlot : c.rule.priority >= d.rule.priority}
Tier(slot, cs) ==
  LET inSlot == {c \in cs : slot \in Slots(c.action)}
  IN {c \in inSlot : \A d \in inSlot : ~Above(d, c)}
Agree(cs) == \A c, d \in cs : Signature(c.action) = Signature(d.action)

Conflicts(cs) == {s \in UNION {Slots(c.action) : c \in cs} : ~Agree(Tier(s, cs))}

\* An action of several slots wins all of them or nothing.
Winners(cs) == {c \in cs : \A s \in Slots(c.action) : c \in Tier(s, cs) /\ Agree(Tier(s, cs))}

\* What a rule set must be made of to be evaluated at all.
ValidRule(rule) ==
  /\ rule.actions # <<>> /\ rule.when.items # {}
  /\ \A c \in rule.when.items : NormalOf(c.value) # None
  /\ \A i, j \in DOMAIN rule.actions :
       i # j => Slots(rule.actions[i]) \cap Slots(rule.actions[j]) = {}
  /\ \A i \in DOMAIN rule.actions : LET a == rule.actions[i] IN
       /\ a.type \in {"EXCLUDE_ROW", "MATCH_DEVICE", "SPLIT_HIERARCHY"} \/ a.field # "currentFirmware"
       /\ a.type = "SPLIT_HIERARCHY" => Len(a.value) >= 2 /\ Cardinality(Slots(a)) = Len(a.value)
       /\ a.type = "MAP_VALUE" => NormalOf(a.value[1]) # None
-----------------------------------------------------------------------------
(* The row a rule set makes of a row.                                       *)

\* Winners that do the same thing do it once, the first of them in its name.
Leaders(ws) ==
  {c \in ws : \A d \in ws : Signature(d.action) = Signature(c.action) => ~Before(d, c)}
Ranked(cs) == [n \in 1..Cardinality(cs) |-> CHOOSE c \in cs : Cardinality({d \in cs : Before(d, c)}) = n - 1]

Written(s, f, t, mapped, ignored) ==
  [s EXCEPT !.values[f] = t, !.mapped = IF mapped THEN @ \cup {f} ELSE @ \ {f},
            !.ignored = IF ignored THEN @ \cup {f} ELSE @ \ {f}]

Applied(s, a) ==
  CASE a.type \in {"MAP_VALUE", "SET_FIELD"} -> Written(s, a.field, a.value[1], a.type = "MAP_VALUE", FALSE)
    [] a.type \in {"CLEAR_FIELD", "IGNORE_FIELD"} -> Written(s, a.field, None, FALSE, a.type = "IGNORE_FIELD")
    [] a.type = "TRANSFORM_VALUE" ->
         Written(s, a.field, IF s.values[a.field] = None THEN None ELSE Changed[a.value[1]][s.values[a.field]],
                 FALSE, FALSE)
    [] a.type = "SPLIT_HIERARCHY" ->
         LET parts == IF s.values[a.field] = None THEN <<>> ELSE Parts[s.values[a.field]]
             At(f) == CHOOSE i \in DOMAIN a.value : a.value[i] = f
         IN [s EXCEPT !.values = [f \in Fields |-> IF f \notin Slots(a) THEN s.values[f]
                                     ELSE IF At(f) \in DOMAIN parts THEN parts[At(f)] ELSE None],
                      !.mapped = @ \ Slots(a), !.ignored = @ \ Slots(a)]
    [] a.type = "EXCLUDE_ROW" -> [s EXCEPT !.excluded = TRUE]
    [] OTHER -> [s EXCEPT !.device = a.value[1]]

Staged(values) == [values |-> values, mapped |-> {}, ignored |-> {}, excluded |-> FALSE, device |-> None]

RowAfter(order, values) ==
  LET After[n \in 0..Len(order)] ==
        IF n = 0 THEN Staged(values) ELSE Applied(After[n - 1], order[n].action)
  IN After[Len(order)]

\* The rules at odds over some slot.
Contested(cs, slots) == {c.rule.id : c \in UNION {Tier(s, cs) : s \in slots}}

Decided(cs, ws, slots, values) ==
  [row |-> RowAfter(Ranked(Leaders(ws)), values), winners |-> ws, conflicts |-> slots,
   contested |-> Contested(cs, slots)]
DecidedBy(cs, values) == Decided(cs, Winners(cs), Conflicts(cs), values)
Evaluated(rules, values) == DecidedBy(Contenders(rules, values), values)

\* A row some rule touched is reviewed; an excluded one is out.
StatusesAfter(base, e) ==
  IF e.row.excluded THEN {"EXCLUDED"}
  ELSE IF e.winners # {} \/ e.conflicts # {} THEN (base \ {"VALID"}) \cup {"NEEDS_REVIEW"}
  ELSE base

\* What rules and rows are made of: every dimension of a scope but its source
\* fields is of the source or of the row.
IsText(t) == t = None \/ t \in Texts
IsList(list) == DOMAIN list \subseteq Nat /\ IsFiniteSet(DOMAIN list)
IsScope(scope) ==
  /\ DOMAIN scope \subseteq (Dimensions \cap (Fields \cup DOMAIN Context)) \cup {"sourceFields"}
  /\ \A d \in Dimensions \cap DOMAIN scope : IsFiniteSet(scope[d])
IsRule(r) ==
  /\ {"id", "priority", "scope", "when", "actions"} \subseteq DOMAIN r
  /\ r.id \in Int /\ r.priority \in Int
  /\ IsScope(r.scope)
  /\ IsFiniteSet(r.when.items)
  /\ \A c \in r.when.items : c.field \in Fields /\ c.value \in Texts
  /\ IsList(r.actions)
IsStaged(values) == DOMAIN values = Fields /\ \A f \in Fields : IsText(values[f])

\* A candidate is previewed in the place of the rule it replaces; it touches the
\* rows where it wins or contests a slot.
Candidate(rules, rule) == {r \in rules : r.id # rule.id} \cup {rule}
TouchedBy(e, rule) == rule.id \in {c.rule.id : c \in e.winners} \cup e.contested
=============================================================================
