--------------------------- MODULE ImportIdentity ---------------------------
(* How the importer recognises a device: the identifiers of a row, the      *)
(* canonical devices they may name, the confidence in each, the decision on *)
(* a row, and the comparison with what the source sent before               *)
(* (importer-v2-identity.ts, -identity-store.ts, -workspace-identity-       *)
(* state.ts, -repeat-diff.ts).                                              *)
EXTENDS ImportCatalog, Sequences, FiniteSetsExt

CONSTANTS
  Normal,    \* per identity field, the normal form of a text, or None
  Hardware   \* per model, its vendor and model as they are compared

IdFields == {"sourceId", "serialNumber", "macAddress"}
FirmwareFields == {"currentFirmware"}

Normalized(ids) == [f \in IdFields |-> IF ids[f] = None THEN None ELSE Normal[f][ids[f]]]
HasIdentity(ids) == \E f \in IdFields : ids[f] # None

\* A correction makes the effective value the durable one, an ignored or cleared
\* field has none, and otherwise the source's own value stays the alias.
Durable(raw, effective, fix) ==
  [f \in IdFields |-> CASE fix[f] = "ignored" -> None
                        [] fix[f] = "set" -> effective[f]
                        [] OTHER -> IF raw[f] # None THEN raw[f] ELSE effective[f]]
-----------------------------------------------------------------------------
(* Candidates.  A crosswalk maps <<provider, device>> to normal             *)
(* identifiers; it may outlive its device.                                  *)

Owners(crosswalk, f, value) ==
  {p[2] : p \in {q \in DOMAIN crosswalk : value # None /\ crosswalk[q][f] = value}}
SourceOwners(crosswalk, provider, value) ==
  {p[2] : p \in {q \in DOMAIN crosswalk : q[1] = provider /\ value # None /\ crosswalk[q].sourceId = value}}
SerialOf(devices, d) ==
  IF d \notin DOMAIN devices \/ devices[d].serialNumber = None THEN None
  ELSE Normal.serialNumber[devices[d].serialNumber]
SerialBearers(devices, value) == {d \in DOMAIN devices : value # None /\ SerialOf(devices, d) = value}

\* A source id this provider used before decides alone.
\* A mutant of Named: every identifier counts.
NamedByAll(own, aliases) == own \cup aliases
Named(own, aliases) == IF own # {} THEN own ELSE aliases
CandidateDevices(ids, provider, crosswalk, devices) ==
  Named(SourceOwners(crosswalk, provider, ids.sourceId),
        Owners(crosswalk, "serialNumber", ids.serialNumber)
          \cup Owners(crosswalk, "macAddress", ids.macAddress)
          \cup SerialBearers(devices, ids.serialNumber))

EntriesOf(crosswalk, d) == {q \in DOMAIN crosswalk : q[2] = d}
Shares(a, b, fields) == \E f \in fields : a[f] # None /\ a[f] = b[f]

\* Where the agreement with a device comes from.
MatchScope(ids, provider, crosswalk, d) ==
  IF <<provider, d>> \in DOMAIN crosswalk /\ Shares(ids, crosswalk[<<provider, d>>], IdFields)
  THEN "SAME_PROVIDER"
  ELSE IF \E q \in EntriesOf(crosswalk, d) :
            q[1] # provider /\ Shares(ids, crosswalk[q], {"serialNumber", "macAddress"})
  THEN "CROSS_PROVIDER" ELSE "CANONICAL"

\* Everything known of a device's serial number and MAC address.
EvidenceOf(f, crosswalk, devices, d) ==
  ({crosswalk[q][f] : q \in EntriesOf(crosswalk, d)}
     \cup (IF f = "serialNumber" THEN {SerialOf(devices, d)} ELSE {})) \ {None}

\* The identifiers a row is compared with: those of this provider, or else what
\* any provider or the inventory confirms; source ids never cross providers.
CandidateIds(ids, provider, crosswalk, devices, d) ==
  IF MatchScope(ids, provider, crosswalk, d) = "SAME_PROVIDER" THEN crosswalk[<<provider, d>>]
  ELSE [f \in IdFields |-> IF f # "sourceId" /\ ids[f] \in EvidenceOf(f, crosswalk, devices, d) THEN ids[f] ELSE None]

Agreeing(ids, known) == {f \in IdFields : ids[f] # None /\ ids[f] = known[f]}
Disagreeing(ids, known) == {f \in IdFields : ids[f] # None /\ known[f] # None /\ ids[f] # known[f]}

\* Other evidence on the device contradicts the row.
Contradicted(ids, provider, crosswalk, devices, d) ==
  /\ d \notin SourceOwners(crosswalk, provider, ids.sourceId)
  /\ \E f \in {"serialNumber", "macAddress"} :
       ids[f] # None /\ EvidenceOf(f, crosswalk, devices, d) \ {ids[f]} # {}

SameHardware(a, b) == a # None /\ b # None /\ Hardware[a] = Hardware[b]

\* A source id of this provider is trusted even when other identifiers changed;
\* anything else must not be contradicted.
Confidence(scope, agree, disagree, contradicted, hardware) ==
  IF scope = "SAME_PROVIDER" /\ "sourceId" \in agree THEN "HIGH"
  ELSE IF contradicted \/ disagree # {} THEN "LOW"
  ELSE IF Cardinality(agree) >= 2 \/ scope = "SAME_PROVIDER" \/ ("serialNumber" \in agree /\ hardware) THEN "HIGH"
  ELSE "MEDIUM"

CandidateWith(d, scope, known, ids, contradicted, hardware) ==
  [device |-> d, agree |-> Agreeing(ids, known),
   conflict |-> contradicted \/ Disagreeing(ids, known) # {},
   confidence |-> Confidence(scope, Agreeing(ids, known), Disagreeing(ids, known), contradicted, hardware)]
Candidate(ids, model, provider, crosswalk, devices, d) ==
  CandidateWith(d, MatchScope(ids, provider, crosswalk, d), CandidateIds(ids, provider, crosswalk, devices, d), ids,
                Contradicted(ids, provider, crosswalk, devices, d),
                d \in DOMAIN devices /\ SameHardware(model, devices[d].model))
Candidates(ids, model, provider, crosswalk, devices) ==
  {c \in {Candidate(ids, model, provider, crosswalk, devices, d) :
            d \in CandidateDevices(ids, provider, crosswalk, devices)} : c.agree # {}}

\* The verdict on a row: one trusted device is taken without a question, a
\* contradiction or a second device never is.
Ambiguous(cs) ==
  \/ Cardinality(cs) > 1
  \/ \E c \in cs : c.conflict /\ "sourceId" \notin c.agree
KindOf(ids, cs) ==
  IF ~HasIdentity(ids) THEN "INVALID"
  ELSE IF cs = {} THEN "NEW"
  ELSE IF Ambiguous(cs) THEN "AMBIGUOUS" ELSE "MATCH_SUGGESTED"
Verdict(kind, cs) ==
  [kind |-> kind, candidates |-> cs,
   asks |-> kind = "AMBIGUOUS" \/ (kind = "MATCH_SUGGESTED" /\ \E c \in cs : c.confidence # "HIGH")]
VerdictOn(ids, cs) == Verdict(KindOf(ids, cs), IF HasIdentity(ids) THEN cs ELSE {})
Resolve(ids, model, provider, crosswalk, devices) ==
  VerdictOn(ids, Candidates(ids, model, provider, crosswalk, devices))
-----------------------------------------------------------------------------
(* The decision on a row: the last explicit one while it applies, else the  *)
(* one the verdict allows without a question.                               *)

\* Fields that were ignored since no longer speak for a candidate.
Speaking(verdict, ignored) == {c \in verdict.candidates : c.agree \ ignored # {}}
KindNow(verdict, left) ==
  IF verdict.kind = "AMBIGUOUS" /\ Cardinality(verdict.candidates) > 1 /\ Cardinality(left) = 1
  THEN "MATCH_SUGGESTED" ELSE verdict.kind

StillApplies(decision, kind, left) ==
  /\ decision # None
  /\ CASE decision.kind = "CREATE_NEW" -> kind = "NEW"
       [] decision.kind = "MANUAL_OVERRIDE" -> TRUE
       [] decision.kind = "CONFIRM_MATCH" -> {c.device : c \in left} = {decision.device}
       [] OTHER -> decision.device \in {c.device : c \in left}

NewDevice == [settled |-> TRUE, device |-> None]
Match(d) == [settled |-> TRUE, device |-> d]
Undecided == [settled |-> FALSE, device |-> None]

Reviewed(decision, kind, left) ==
  IF StillApplies(decision, kind, left)
  THEN IF decision.kind = "CREATE_NEW" THEN NewDevice ELSE Match(decision.device)
  ELSE IF kind = "NEW" THEN NewDevice
  ELSE IF kind = "MATCH_SUGGESTED" /\ \E c \in left : left = {c} /\ c.confidence = "HIGH"
  THEN Match((CHOOSE c \in left : TRUE).device) ELSE Undecided
Review(verdict, ignored, decision) ==
  Reviewed(decision, KindNow(verdict, Speaking(verdict, ignored)), Speaking(verdict, ignored))
-----------------------------------------------------------------------------
(* Comparison with the last snapshot of the source: a function from row     *)
(* numbers to [device, ids, values].                                        *)

SourceKey(ids) ==
  IF ids.sourceId # None THEN <<ids.sourceId>>
  ELSE IF ids.serialNumber # None /\ ids.macAddress # None THEN <<ids.serialNumber, ids.macAddress>>
  ELSE <<>>

\* The rows of the snapshot that may be this one.
SameKey(ids, snapshot) == {n \in DOMAIN snapshot : SourceKey(ids) # <<>> /\ SourceKey(snapshot[n].ids) = SourceKey(ids)}
Overlapping(ids, snapshot) == {n \in DOMAIN snapshot : Shares(ids, snapshot[n].ids, IdFields)}
OfDevice(device, snapshot) == {n \in DOMAIN snapshot : device # None /\ snapshot[n].device = device}
FirstFound(a, b, c) == IF a # {} THEN a ELSE IF b # {} THEN b ELSE c

\* A member of a stack is looked up even when it is no device.
Previous(ids, verdict, member, snapshot) ==
  FirstFound(IF verdict.kind # "NEW" \/ member THEN SameKey(ids, snapshot) ELSE {},
             IF member THEN Overlapping(ids, snapshot) ELSE {},
             IF verdict.kind # "NEW" /\ Cardinality(verdict.candidates) = 1
             THEN OfDevice((CHOOSE c \in verdict.candidates : TRUE).device, snapshot) ELSE {})

Changes(before, after) == {f \in DOMAIN after : after[f] # (IF f \in DOMAIN before THEN before[f] ELSE None)}

\* The source may overwrite a value that is blank, or that it gave itself.
MayReplace(f, canonical, before) ==
  \/ f \in FirmwareFields
  \/ canonical # None /\ f \in DOMAIN canonical /\ canonical[f] \in {None, before[f]}

NoDiff == [known |-> FALSE, ambiguous |-> FALSE, allowed |-> {}, changed |-> {}]
DiffWith(previous, values, canonical) ==
  [known |-> TRUE, ambiguous |-> FALSE, changed |-> Changes(previous.values, values),
   allowed |-> {f \in Changes(previous.values, values) : MayReplace(f, canonical, previous.values)}]
DiffAgainst(found, values, canonical, snapshot) ==
  IF found = {} THEN NoDiff
  ELSE IF Cardinality(found) > 1 THEN [NoDiff EXCEPT !.ambiguous = TRUE]
  ELSE DiffWith(snapshot[CHOOSE n \in found : TRUE], values, canonical)
Diff(ids, values, verdict, member, snapshot, canonical) ==
  IF verdict.kind \in {"AMBIGUOUS", "INVALID"} THEN [NoDiff EXCEPT !.ambiguous = TRUE]
  ELSE DiffAgainst(Previous(ids, verdict, member, snapshot), values, canonical, snapshot)
=============================================================================
