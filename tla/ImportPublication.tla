-------------------------- MODULE ImportPublication --------------------------
(* What an import does to the inventory: exports are staged into batches,   *)
(* engineers correct rows and decide on their identity, and publication     *)
(* writes catalog, devices, crosswalk, stack members and the snapshot the   *)
(* next import is compared with (importer-v2-ingestion-store.ts,            *)
(* -publication-store.ts, -publication.ts, -workspace-identity-repair.ts,   *)
(* -stack-topology.ts), while devices and catalog are edited by hand.       *)
EXTENDS ImportIdentity

CONSTANTS
  Exports,      \* per export, its provider, its adapter and its rows
  Known,        \* the catalog at the start: a function from keys to isActive
  Switched,     \* bound: the catalog records somebody may switch on and off
  Fixes,        \* bound: [field, value] of the corrections of a row
  HandValues,   \* bound: [field, value] of the edits of a device by hand
  HandMade,     \* bound: devices made by hand
  MaxBatches, MaxFixes, MaxHands, MaxDevices

\* A device has a number and a correction a name, NULL has neither; an export lists
\* its rows.
ASSUME PublicationAssumption ==
  /\ None \notin Nat /\ None # "ignored"
  /\ \A x \in DOMAIN Exports : Len(Exports[x].rows) \in Nat /\ DOMAIN Exports[x].rows = 1..Len(Exports[x].rows)
  /\ Known = [k \in DOMAIN Known |-> Known[k]]

VARIABLES
  catalog,      \* per record of the catalog, whether it is active
  devices,      \* the devices of the inventory
  crosswalk,    \* per provider and device, the normal identifiers
  topology,     \* per stack, its members by position
  batches,      \* the batches in the order of staging
  snapshots,    \* the snapshots in the order of publication
  counts        \* of devices ever made, corrections and edits by hand

publicationVars == <<catalog, devices, crosswalk, topology, batches, snapshots, counts>>
-----------------------------------------------------------------------------
(* The catalog.                                                             *)

\* The fields evaluation could give a record of the catalog; the others are
\* proposals, which a publisher approves unless the record has appeared since.
Resolved(cat, values) == {f \in Filled(values) : IsActive(cat, KeyOf(f, values))}
Proposals(cat, row) ==
  {KeyOf(f, row.values) : f \in {g \in Filled(row.values) \ row.resolved :
     g # "currentFirmware" /\ ~IsActive(cat, KeyOf(g, row.values))}}

\* A chosen record must still be active, a proposal takes the record of that name
\* or makes one; a model of that name that is inactive is in the way.
CatalogRefuses(cat, row, fields) ==
  \/ \E f \in RequiredFields \cap fields : row.values[f] = None
  \/ \E f \in row.resolved \cap fields : ~IsActive(cat, KeyOf(f, row.values))
  \/ "model" \in fields \ row.resolved /\ KeyOf("model", row.values) \in DOMAIN cat
       /\ ~cat[KeyOf("model", row.values)]
Wanted(row, fields) ==
  {f \in Filled(row.values) \cap fields : f = "currentFirmware" => row.values.softwarePlatform # None}
WithRecords(cat, row, fields) == LaidOver(cat, [k \in {KeyOf(f, row.values) : f \in Wanted(row, fields)} |-> TRUE])
-----------------------------------------------------------------------------
(* Stacks: an export names the members of a stack after it.                 *)

Context(values) == [f \in {"customer", "businessUnit", "site"} |-> values[f]]
IsMember(r) == r.position # None
SameStack(a, b) == a.base = b.base /\ Context(a.values) = Context(b.values)
ParentsOf(rows, n) == {p \in DOMAIN rows : ~IsMember(rows[p]) /\ SameStack(rows[p], rows[n])}
MembersOf(rows, n) == {m \in DOMAIN rows : IsMember(rows[m]) /\ SameStack(rows[m], rows[n])}
IsStack(rows, n) ==
  /\ ~IsMember(rows[n]) /\ ParentsOf(rows, n) = {n} /\ rows[n].looksLikeStack
  /\ MembersOf(rows, n) # {}
  /\ \A a, b \in MembersOf(rows, n) : rows[a].position = rows[b].position => a = b
StackOf(rows, n) == IF IsMember(rows[n]) THEN {p \in ParentsOf(rows, n) : IsStack(rows, p)} ELSE {}
Role(rows, n) == IF StackOf(rows, n) # {} THEN "STACK_MEMBER" ELSE IF IsStack(rows, n) THEN "STACK" ELSE "DEVICE"
-----------------------------------------------------------------------------
(* Staging.                                                                 *)

SourceOf(x) == <<Exports[x].provider, Exports[x].adapter>>
SnapshotsOf(source, fingerprints) ==
  {i \in DOMAIN snapshots : snapshots[i].source = source /\ snapshots[i].fingerprint \in fingerprints}
LatestRows(found) == IF found = {} THEN <<>> ELSE snapshots[Max(found)].rows

\* The fields of a device that an import may change.
DeviceFields == {"customer", "site", "model", "deviceName", "serialNumber", "notes", "currentFirmware"}
Canonical(d) == [f \in DeviceFields |-> IF f = "site" THEN devices[d].site[3] ELSE devices[d][f]]
CanonicalOf(verdict) ==
  LET ds == {c.device : c \in verdict.candidates} \cap DOMAIN devices
  IN IF verdict.kind = "MATCH_SUGGESTED" /\ ds # {} THEN Canonical(CHOOSE d \in ds : TRUE) ELSE None
Compared(row) == [f \in DeviceFields |-> IF f = "serialNumber" THEN row.ids.serialNumber ELSE row.values[f]]

\* One row as it is staged, and as it is published when nobody touches it.
StagedRow(row, role, verdict, snapshot) ==
  LET diff == Diff(Normalized(row.ids), Compared(row), verdict, role = "STACK_MEMBER", snapshot, CanonicalOf(verdict))
  IN [ids |-> row.ids, values |-> row.values, fix |-> [f \in IdFields |-> None], cleared |-> FALSE, role |-> role,
      resolved |-> Resolved(catalog, row.values), verdict |-> verdict, diff |-> diff, repeat |-> diff.ambiguous,
      decision |-> None, included |-> TRUE, needs |-> FALSE, published |-> FALSE]
Staged(x, n) ==
  LET row == Exports[x].rows[n]
  IN StagedRow(row, Role(Exports[x].rows, n),
               Resolve(Normalized(row.ids), row.values.model, Exports[x].provider, crosswalk, devices),
               LatestRows({i \in DOMAIN snapshots : snapshots[i].source = SourceOf(x)}))

\* The fingerprint of a batch covers the export and the catalog.
StageExport(x) ==
  /\ Len(batches) < MaxBatches
  /\ batches' = Append(batches, [export |-> x, fingerprint |-> <<x, catalog>>,
                                 rows |-> [n \in DOMAIN Exports[x].rows |-> Staged(x, n)]])
  /\ UNCHANGED <<catalog, devices, crosswalk, topology, snapshots, counts>>
-----------------------------------------------------------------------------
(* Review.                                                                  *)

Open(b, n) == b \in DOMAIN batches /\ n \in DOMAIN batches[b].rows /\ ~batches[b].rows[n].published
Edited(b, n, row) ==
  /\ batches' = [batches EXCEPT ![b] = [batches[b] EXCEPT !.rows = [batches[b].rows EXCEPT ![n] = row]]]
  /\ UNCHANGED <<catalog, devices, crosswalk, topology, snapshots>>

\* A corrected field needs a re-evaluation; an identifier is set or ignored.
CorrectedRow(row, fix) ==
  IF fix.field \in IdFields
  THEN [row EXCEPT !.ids[fix.field] = fix.value, !.needs = TRUE,
                   !.fix[fix.field] = IF fix.value = None THEN "ignored" ELSE "set"]
  ELSE [row EXCEPT !.values[fix.field] = fix.value, !.needs = TRUE,
                   !.cleared = IF fix.field = "currentFirmware" THEN fix.value = None ELSE @]
Correct(b, n, fix) ==
  /\ Open(b, n) /\ counts.fixes < MaxFixes
  /\ Edited(b, n, CorrectedRow(batches[b].rows[n], fix))
  /\ counts' = [counts EXCEPT !.fixes = @ + 1]

\* Rows whose identifiers were corrected are resolved again; their comparison is
\* not reused.
RepairedRow(row, verdict) ==
  [row EXCEPT !.verdict = verdict, !.diff = NoDiff,
              !.repeat = CASE verdict.kind = "AMBIGUOUS" -> TRUE
                           [] verdict.kind \in {"MATCH_SUGGESTED", "NEW"} -> FALSE
                           [] OTHER -> @]
Repair(b, n) ==
  LET row == batches[b].rows[n]
      verdict == Resolve(Normalized(row.ids), row.values.model, Exports[batches[b].export].provider, crosswalk, devices)
  IN /\ Open(b, n) /\ row.included
     /\ \E f \in IdFields : row.fix[f] # None
     /\ Edited(b, n, RepairedRow(row, verdict))
     /\ UNCHANGED counts

\* Another pipeline may recheck a row before its identity is repaired.
Recheck(b, n) ==
  /\ Open(b, n) /\ batches[b].rows[n].needs
  /\ Edited(b, n, [batches[b].rows[n] EXCEPT !.needs = FALSE])
  /\ UNCHANGED counts

Ignored(row) == {f \in IdFields : row.fix[f] = "ignored"}
ReviewOf(row) == Review(row.verdict, Ignored(row), row.decision)
KindOfRow(row) == KindNow(row.verdict, Speaking(row.verdict, Ignored(row)))

Decisions(row) ==
  LET left == {c.device : c \in Speaking(row.verdict, Ignored(row))}
  IN {[kind |-> "CREATE_NEW", device |-> None]}
     \cup [kind : {"CHOOSE_CANDIDATE"} \cup (IF Cardinality(left) = 1 THEN {"CONFIRM_MATCH"} ELSE {}), device : left]
     \cup [kind : {"MANUAL_OVERRIDE"}, device : DOMAIN devices]
Decide(b, n, decision) ==
  /\ Open(b, n) /\ counts.fixes < MaxFixes
  /\ Edited(b, n, [batches[b].rows[n] EXCEPT !.decision = decision])
  /\ counts' = [counts EXCEPT !.fixes = @ + 1]

Exclude(b, n) ==
  /\ Open(b, n) /\ counts.fixes < MaxFixes
  /\ Edited(b, n, [batches[b].rows[n] EXCEPT !.included = ~@])
  /\ counts' = [counts EXCEPT !.fixes = @ + 1]
-----------------------------------------------------------------------------
(* Publication.  s is the inventory as the transaction sees it.             *)

ExportRows(batch) == Exports[batch.export].rows
MembersIn(batch, n) ==
  IF batch.rows[n].role = "STACK" THEN MembersOf(ExportRows(batch), n) ELSE {}

Blocked(row) ==
  \/ row.needs
  \/ \E f \in RequiredFields : row.values[f] = None
BlockedDevice(row) ==
  \/ Blocked(row)
  \/ row.role = "STACK" /\ row.ids.sourceId = None
  \/ ~ReviewOf(row).settled \/ KindOfRow(row) = "INVALID"
  \/ row.repeat
Eligible(batch) ==
  {n \in DOMAIN batch.rows :
     /\ batch.rows[n].included /\ ~batch.rows[n].published /\ batch.rows[n].role # "STACK_MEMBER"
     /\ ~BlockedDevice(batch.rows[n])
     /\ \A m \in MembersIn(batch, n) : batch.rows[m].included => ~Blocked(batch.rows[m])}

\* What a row is remembered by: a stack only by the source id, since serial
\* number and MAC address are those of a member.
RawIds(batch, n) == ExportRows(batch)[n].ids
DurableIds(batch, n) == Normalized(Durable(RawIds(batch, n), batch.rows[n].ids, batch.rows[n].fix))
PublishedIds(batch, n) ==
  IF batch.rows[n].role = "STACK"
  THEN [f \in IdFields |-> IF f = "sourceId" THEN DurableIds(batch, n)[f] ELSE None]
  ELSE DurableIds(batch, n)

ClaimedBy(cw, provider, ids) ==
  SourceOwners(cw, provider, ids.sourceId) \cup Owners(cw, "serialNumber", ids.serialNumber)
    \cup Owners(cw, "macAddress", ids.macAddress)
\* A mutant of IdentityTaken: only whether there is an identity is asked.
IdentityMissing(cw, provider, ids, device) == ~HasIdentity(ids)
IdentityTaken(cw, provider, ids, device) == ~HasIdentity(ids) \/ ClaimedBy(cw, provider, ids) \ {device} # {}
NameTaken(devs, customer, name, device) ==
  \E d \in DOMAIN devs \ {device} : devs[d].customer = customer /\ devs[d].deviceName = name

\* A member must still be an open row of its stack, at the same place.
MemberRefused(s, batch, n, m) ==
  LET row == batch.rows[m]
  IN \/ ~row.included \/ row.published
     \/ Context(row.values) # Context(batch.rows[n].values)
     \/ row.values.deviceName = None
     \/ CatalogRefuses(s.catalog, row, CatalogFields \ {"customer", "businessUnit", "site"})

\* The fields of an existing device this row may write.
Allowed(row, diff) == IF diff.known \/ diff.ambiguous THEN diff.allowed ELSE {}
Renamed(row) == "deviceName" \in Allowed(row, row.diff)
CustomerAfter(devs, row, d) ==
  IF d = None \/ "customer" \in Allowed(row, row.diff) THEN row.values.customer ELSE devs[d].customer
NameAfter(devs, row, d) == IF d = None \/ Renamed(row) THEN row.values.deviceName ELSE devs[d].deviceName

RowRefused(s, batch, n) ==
  LET row == batch.rows[n]
      d == ReviewOf(row).device
  IN \/ IdentityTaken(s.crosswalk, Exports[batch.export].provider, PublishedIds(batch, n), d)
     \/ CatalogRefuses(s.catalog, row, CatalogFields)
     \/ row.values.deviceName = None
     \/ d # None /\ d \notin DOMAIN s.devices
     \/ NameTaken(s.devices, CustomerAfter(s.devices, row, d), NameAfter(s.devices, row, d), d)
     \/ \E m \in MembersIn(batch, n) : MemberRefused(s, batch, n, m)

\* A device as the row makes it, or changes it: running firmware whenever the
\* row has one or clears it, other fields only where the comparison allows.
Target(row) ==
  [f \in DeviceFields |->
     CASE f = "site" -> KeyOf("site", row.values)
       [] f = "serialNumber" -> IF row.role = "STACK" THEN None ELSE row.ids.serialNumber
       [] OTHER -> row.values[f]]
ReplacesFirmware(row) == row.values.currentFirmware # None \/ row.cleared
Writes(row, f) == IF f \in FirmwareFields THEN ReplacesFirmware(row) ELSE f \in Allowed(row, row.diff)
Updated(row, device) ==
  [f \in DeviceFields \cup {"audited"} |->
     CASE f = "audited" -> device.audited \/ (ReplacesFirmware(row) /\ row.values.currentFirmware # device.currentFirmware)
       [] Writes(row, f) -> Target(row)[f]
       [] OTHER -> device[f]]
Made(row) == [f \in DeviceFields \cup {"audited"} |-> IF f = "audited" THEN FALSE ELSE Target(row)[f]]
WrittenBy(row, devs, d) == IF d \in DOMAIN devs THEN Updated(row, devs[d]) ELSE Made(row)

\* The members named now are active at their places, all others are not.
MemberEvidence(batch, ms) ==
  [p \in {ExportRows(batch)[m].position : m \in ms} |->
     LET m == CHOOSE q \in ms : ExportRows(batch)[q].position = p
     IN [ids |-> Normalized(batch.rows[m].ids), isActive |-> TRUE]]
Retired(members) == [p \in DOMAIN members |-> [members[p] EXCEPT !.isActive = FALSE]]
TopologyAfter(s, batch, n, d) ==
  IF batch.rows[n].role # "STACK" THEN s.topology
  ELSE LaidOver([x \in {d} |-> LaidOver(MemberEvidence(batch, MembersIn(batch, n)),
                                IF d \in DOMAIN s.topology THEN Retired(s.topology[d]) ELSE <<>>)], s.topology)

CatalogAfter(cat, batch, n) ==
  LaidOver(WithRecords(cat, batch.rows[n], CatalogFields),
       [k \in UNION {DOMAIN WithRecords(<<>>, batch.rows[m], CatalogFields) : m \in MembersIn(batch, n)} |-> TRUE])
RowAfter(s, batch, n, d) ==
  [catalog |-> CatalogAfter(s.catalog, batch, n),
   devices |-> LaidOver([x \in {d} |-> WrittenBy(batch.rows[n], s.devices, d)], s.devices),
   crosswalk |-> LaidOver([q \in {<<Exports[batch.export].provider, d>>} |-> PublishedIds(batch, n)], s.crosswalk),
   topology |-> TopologyAfter(s, batch, n, d),
   born |-> IF d \in DOMAIN s.devices THEN s.born ELSE s.born + 1,
   done |-> LaidOver([m \in {n} \cup MembersIn(batch, n) |-> d], s.done)]
DeviceOf(row, s) == IF ReviewOf(row).device = None THEN s.born + 1 ELSE ReviewOf(row).device

\* Rows one after the other; one refusal refuses them all.  The outcome is a set:
\* the inventory that the transaction commits, if it commits one.
RowPublished(found, batch, n) ==
  {RowAfter(s, batch, n, DeviceOf(batch.rows[n], s)) : s \in {t \in found : ~RowRefused(t, batch, n)}}
RowByRow(s, batch, chosen) ==
  LET after[n \in 0..Len(ExportRows(batch))] ==
        IF n = 0 THEN {s}
        ELSE IF n \in chosen THEN RowPublished(after[n - 1], batch, n) ELSE after[n - 1]
  IN after[Len(ExportRows(batch))]

\* New devices whose records are all chosen are written together instead.
InBulk(batch, chosen) ==
  \A n \in chosen :
    /\ batch.rows[n].role = "DEVICE" /\ ReviewOf(batch.rows[n]).device = None
    /\ Filled(batch.rows[n].values) \subseteq batch.rows[n].resolved
\* A mutant of SharedInBatch: rows are only compared with the inventory.
SharedNothing(batch, chosen) == FALSE
SharedInBatch(batch, chosen) ==
  \E a, b \in chosen : a # b /\ Shares(PublishedIds(batch, a), PublishedIds(batch, b), IdFields)
SharedName(batch, chosen) ==
  \E a, b \in chosen : /\ a # b
                       /\ batch.rows[a].values.customer = batch.rows[b].values.customer
                       /\ batch.rows[a].values.deviceName = batch.rows[b].values.deviceName
BulkRefused(s, batch, chosen) ==
  \/ SharedInBatch(batch, chosen) \/ SharedName(batch, chosen)
  \/ \E n \in chosen :
       \/ batch.rows[n].values.deviceName = None
       \/ CatalogRefuses(s.catalog, batch.rows[n], CatalogFields)
       \/ NameTaken(s.devices, batch.rows[n].values.customer, batch.rows[n].values.deviceName, None)
       \/ IdentityTaken(s.crosswalk, Exports[batch.export].provider, PublishedIds(batch, n), None)
Rank(chosen, n) == Cardinality({m \in chosen : m <= n})
RowAt(chosen, i) == CHOOSE n \in chosen : Rank(chosen, n) = i
Numbers(s, count) == (s.born + 1)..(s.born + count)
BulkAfter(s, batch, chosen) ==
  [catalog |-> s.catalog, topology |-> s.topology, born |-> s.born + Cardinality(chosen),
   devices |-> LaidOver([d \in Numbers(s, Cardinality(chosen)) |-> Made(batch.rows[RowAt(chosen, d - s.born)])], s.devices),
   crosswalk |-> LaidOver([q \in {Exports[batch.export].provider} \X Numbers(s, Cardinality(chosen)) |->
                             PublishedIds(batch, RowAt(chosen, q[2] - s.born))], s.crosswalk),
   done |-> [n \in chosen |-> s.born + Rank(chosen, n)]]
Bulk(s, batch, chosen) == IF BulkRefused(s, batch, chosen) THEN {} ELSE {BulkAfter(s, batch, chosen)}

Inventory ==
  [catalog |-> catalog, devices |-> devices, crosswalk |-> crosswalk, topology |-> topology,
   born |-> counts.devices, done |-> <<>>]
Outcome(batch, chosen) ==
  IF InBulk(batch, chosen) THEN Bulk(Inventory, batch, chosen) ELSE RowByRow(Inventory, batch, chosen)

\* The snapshot of a publication goes on from the last one of the same
\* evaluation; rows left out are kept as evidence without a device.
SnapshotRow(ids, row, device) == [device |-> device, ids |-> ids, values |-> Compared(row)]
NewRows(batch, done) ==
  [n \in DOMAIN done |-> SnapshotRow(IF batch.rows[n].role = "STACK_MEMBER" THEN Normalized(batch.rows[n].ids)
                                     ELSE PublishedIds(batch, n), batch.rows[n], done[n])]
LeftOut(batch) ==
  [n \in {m \in DOMAIN batch.rows : ~batch.rows[m].included} |->
     SnapshotRow(Normalized(batch.rows[n].ids), batch.rows[n], None)]
SnapshotAfter(batch, done) ==
  [source |-> SourceOf(batch.export), fingerprint |-> batch.fingerprint,
   rows |-> LaidOver(LeftOut(batch), LaidOver(NewRows(batch, done),
              LatestRows(SnapshotsOf(SourceOf(batch.export), {batch.fingerprint}))))]
PublishedRows(batch, done) ==
  [batch EXCEPT !.rows = [n \in DOMAIN @ |-> IF n \in DOMAIN done THEN [@[n] EXCEPT !.published = TRUE] ELSE @[n]]]

Commit(b, s) ==
  /\ catalog' = s.catalog /\ devices' = s.devices /\ crosswalk' = s.crosswalk /\ topology' = s.topology
  /\ counts' = [counts EXCEPT !.devices = s.born]
  /\ batches' = [batches EXCEPT ![b] = PublishedRows(batches[b], s.done)]
  /\ snapshots' = Append(snapshots, SnapshotAfter(batches[b], s.done))

\* Everything that is resolved is published, or some rows of it, with or without
\* the approval of new records of the catalog.
Publish(b, chosen, approved) ==
  /\ chosen # {} /\ chosen \subseteq Eligible(batches[b])
  /\ approved \/ \A n \in chosen : \A m \in {n} \cup MembersIn(batches[b], n) : Proposals(catalog, batches[b].rows[m]) = {}
  /\ counts.devices + Cardinality(chosen) <= MaxDevices
  /\ \E s \in Outcome(batches[b], chosen) : Commit(b, s)
-----------------------------------------------------------------------------
(* Meanwhile, by hand.                                                      *)

ByHand(cat, devs) ==
  /\ counts.hands < MaxHands
  /\ catalog' = cat /\ devices' = devs
  /\ UNCHANGED <<crosswalk, topology, batches, snapshots>>
OneMore == [counts EXCEPT !.hands = @ + 1]

Switch(key) ==
  /\ key \in DOMAIN catalog
  /\ ByHand([catalog EXCEPT ![key] = ~@], devices)
  /\ counts' = OneMore

\* A site goes with its customer; names are unique within a customer.
CreateByHand(made) ==
  /\ counts.devices < MaxDevices
  /\ IsActive(catalog, made.site) /\ made.site[2].customer = made.customer
  /\ ~NameTaken(devices, made.customer, made.deviceName, None)
  /\ ByHand(catalog, LaidOver([d \in {counts.devices + 1} |-> made], devices))
  /\ counts' = [OneMore EXCEPT !.devices = @ + 1]
EditByHand(d, fix) ==
  /\ fix.field = "deviceName" => ~NameTaken(devices, devices[d].customer, fix.value, d)
  /\ ByHand(catalog, [devices EXCEPT ![d] = [devices[d] EXCEPT ![fix.field] = fix.value]])
  /\ counts' = OneMore
\* What was remembered of the device stays.
DeleteByHand(d) ==
  /\ ~devices[d].audited
  /\ ByHand(catalog, [x \in DOMAIN devices \ {d} |-> devices[x]])
  /\ counts' = OneMore
-----------------------------------------------------------------------------
PublicationInit ==
  /\ catalog = Known /\ devices = <<>> /\ crosswalk = <<>> /\ topology = <<>>
  /\ batches = <<>> /\ snapshots = <<>>
  /\ counts = [devices |-> 0, fixes |-> 0, hands |-> 0]

PublicationNext ==
  \/ \E x \in DOMAIN Exports : StageExport(x)
  \/ \E b \in DOMAIN batches : \E n \in DOMAIN batches[b].rows :
       \/ \E fix \in Fixes : Correct(b, n, fix)
       \/ \E decision \in Decisions(batches[b].rows[n]) : Decide(b, n, decision)
       \/ Repair(b, n) \/ Recheck(b, n) \/ Exclude(b, n)
  \/ \E b \in DOMAIN batches : \E chosen \in SUBSET Eligible(batches[b]), approved \in BOOLEAN : Publish(b, chosen, approved)
  \/ \E key \in Switched : Switch(key)
  \/ \E made \in HandMade : CreateByHand(made)
  \/ \E d \in DOMAIN devices : DeleteByHand(d) \/ \E fix \in HandValues : EditByHand(d, fix)

PublicationSpec == PublicationInit /\ [][PublicationNext]_publicationVars
-----------------------------------------------------------------------------
(* Properties.                                                              *)

\* Different devices are never remembered by the same serial number or MAC
\* address, nor by the same source id of one provider.
IdentifiersNameOneDevice ==
  \A p, q \in DOMAIN crosswalk :
    p[2] # q[2] =>
      ~Shares(crosswalk[p], crosswalk[q], IF p[1] = q[1] THEN IdFields ELSE {"serialNumber", "macAddress"})

\* The row n of export x is what the last snapshot of its source says of it.
LatestOf(x) == LatestRows({i \in DOMAIN snapshots : snapshots[i].source = SourceOf(x)})
IdsByRole(ids, role) == IF role = "STACK" THEN [f \in IdFields |-> IF f = "sourceId" THEN ids[f] ELSE None] ELSE ids
SaidBefore(row, role, kept) ==
  /\ kept.ids = IdsByRole(Normalized(row.ids), role) /\ kept.values = Compared(row)
  /\ kept.device # None /\ kept.ids.sourceId # None
Quiet(staged, provider, kept) ==
  IF staged.role = "STACK_MEMBER"
  THEN staged.verdict.kind = "NEW" => staged.diff.known /\ staged.diff.changed = {}
  ELSE <<provider, kept.device>> \in DOMAIN crosswalk /\ crosswalk[<<provider, kept.device>>].sourceId = kept.ids.sourceId
         => /\ ReviewOf(staged) = Match(kept.device)
            /\ ~staged.repeat /\ staged.diff.known /\ staged.diff.changed = {}

\* An export that says of a published row what it said before, staged again, is
\* matched to the same device without a question and changes nothing.
QuietAbout(x, staged) ==
  \A n \in DOMAIN staged, k \in DOMAIN LatestOf(x) :
    (/\ SaidBefore(Exports[x].rows[n], staged[n].role, LatestOf(x)[k])
     /\ SameKey(LatestOf(x)[k].ids, LatestOf(x)) = {k})
    => Quiet(staged[n], Exports[x].provider, LatestOf(x)[k])
StagesRepeatsQuietly ==
  Len(batches') > Len(batches) => QuietAbout(batches'[Len(batches')].export, batches'[Len(batches')].rows)
RepeatsAreQuiet == [][StagesRepeatsQuietly]_publicationVars

\* New devices written together are what they would be written one by one.
PublishesTheSameEitherWay ==
  Len(snapshots') > Len(snapshots) =>
    \A b \in DOMAIN batches : \A chosen \in (SUBSET Eligible(batches[b])) \ {{}} :
      InBulk(batches[b], chosen) => Bulk(Inventory, batches[b], chosen) = RowByRow(Inventory, batches[b], chosen)
BulkIsRowByRow == [][PublishesTheSameEitherWay]_publicationVars
=============================================================================
