-------------------------- MODULE InventoryDevices --------------------------
(* Devices and their models as administrators edit them one by one, the bulk *)
(* maintenance of devices, and the repair of their firmware links            *)
(* (device-store.ts, device-model-store.ts, model-family-store.ts,           *)
(* inventory-bulk-maintenance-store.ts, inventory-firmware-repair*.ts).      *)
(* An edit reads and checks, and writes in a later step; a bulk change and a *)
(* repair are shown first and applied in one serializable transaction.       *)
EXTENDS Integers, Sequences, FiniteSets, Tables

CONSTANTS
  Editors,      \* requests that edit one record
  Home,         \* per site, its customer
  Releases,     \* per release, [vendor, platform, version, image, train, trainFits, active]
  Vendors,
  AllDevices, FirstModels, FirstFamilies,   \* rows: of every device, and at the start
  Unborn,       \* the devices that do not exist at the start
  Edits,        \* patches of devices: records with some fields of a row
  ModelEdits,   \* per model, patches
  BulkChanges,  \* [operation, target] an administrator may ask for
  Selections,   \* sets of devices one asks it for
  MaxWrites     \* bound: writes of device rows

\* What bulk maintenance offers; and every device starts at a site of its customer.
Operations == {"ARCHIVE", "ACTIVATE", "SET_CUSTOMER", "SET_SITE", "SET_MODEL"}
ASSUME DevicesAssumption ==
  /\ \A change \in BulkChanges : change.operation \in Operations
  /\ \A d \in DOMAIN AllDevices \ Unborn :
       AllDevices[d].site # None => Home[AllDevices[d].site] = AllDevices[d].customer

VARIABLES
  devices,   \* per device, its row, with the stamp of its last write
  models,    \* per model, [vendor, family, platforms, active]
  families,  \* per family, its vendor
  support,   \* per model, the platforms its configured rules allow
  history,   \* devices with audit events
  edit,      \* per editor, what it is about to write, or None
  shown,     \* the bulk change or repair that was previewed, or None
  repairs,   \* audit events of repairs: [device, before, after, undone]
  clock      \* writes of device rows so far

deviceVars == <<devices, models, families, support, history, edit, shown, repairs, clock>>
modelVars == <<models, families, support>>

Owners == {Home[s] : s \in DOMAIN Home}
DeviceFields == {"customer", "site", "model", "release", "observed", "name", "active"}
Content(row) == [f \in DeviceFields |-> row[f]]
Stamped(row) == [f \in DeviceFields \cup {"stamp"} |-> IF f = "stamp" THEN clock + 1 ELSE row[f]]
Write(d, row) == With(devices, d, Stamped(row))
-----------------------------------------------------------------------------
(* Editing one device.                                                      *)

SiteBelongs(site, customer) == site # None => site \in DOMAIN Home /\ Home[site] = customer

\* The running release, of the vendor of the model and not denied to it.
ReleaseFits(release, m) ==
  release # None =>
    /\ Releases[release].vendor = models[m].vendor
    /\ support[m] # {} => Releases[release].platform \in support[m]
References(row) ==
  row.customer \in Owners /\ row.model \in DOMAIN models
    /\ SiteBelongs(row.site, row.customer) /\ ReleaseFits(row.release, row.model)
NameIsFree(d, row) == ~\E k \in DOMAIN devices \ {d} : devices[k].customer = row.customer /\ devices[k].name = row.name

\* The row written is the row read, patched.
\* A mutant of EditedRow: only the patch is written, over the row of the moment.
PatchedLate(e) == IF edit[e].id \in DOMAIN devices THEN Over(edit[e].patch, devices[edit[e].id]) ELSE edit[e].row
EditedRow(e) == edit[e].row

Intend(e, kind, id, patch, was, row) ==
  edit' = [edit EXCEPT ![e] = [kind |-> kind, id |-> id, patch |-> patch, was |-> was, row |-> row]]
Drop(e) == edit' = [edit EXCEPT ![e] = None]

BeginCreate(e, d, row) ==
  /\ edit[e] = None /\ d \notin DOMAIN devices /\ ~\E x \in Editors : edit[x] # None /\ edit[x].id = d
  /\ References(row) /\ NameIsFree(d, row)
  /\ Intend(e, "device", d, << >>, None, row)
  /\ UNCHANGED <<devices, modelVars, history, shown, repairs, clock>>
BeginEdit(e, d, patch) ==
  /\ edit[e] = None /\ d \in DOMAIN devices
  /\ LET row == Over(patch, Content(devices[d])) IN
       /\ References(row) /\ NameIsFree(d, row)
       /\ Intend(e, "device", d, patch, Content(devices[d]), row)
  /\ UNCHANGED <<devices, modelVars, history, shown, repairs, clock>>

FirmwareChanged(was, row) == IF was = None THEN row.release # None ELSE <<was.release, was.observed>> # <<row.release, row.observed>>
CommitDevice(e) ==
  /\ edit[e] # None /\ edit[e].kind = "device" /\ clock < MaxWrites
  /\ LET d == edit[e].id  row == EditedRow(e) IN
       IF NameIsFree(d, row) /\ row.model \in DOMAIN models /\ (edit[e].was # None => d \in DOMAIN devices)
       THEN /\ devices' = Write(d, row) /\ clock' = clock + 1
            /\ history' = IF FirmwareChanged(edit[e].was, row) THEN history \cup {d} ELSE history
       ELSE UNCHANGED <<devices, clock, history>>
  /\ Drop(e) /\ UNCHANGED <<modelVars, shown, repairs>>
DeleteDevice(d) ==
  /\ d \in DOMAIN devices /\ d \notin history
  /\ devices' = Without(devices, d)
  /\ UNCHANGED <<modelVars, history, edit, shown, repairs, clock>>
-----------------------------------------------------------------------------
(* Editing a model or a family.                                             *)

FamilyFits(row) == row.family # None => row.family \in DOMAIN families /\ families[row.family] = row.vendor
BeginModel(e, m, patch) ==
  /\ edit[e] = None
  /\ LET row == Over(patch, models[m]) IN
       row # models[m] /\ FamilyFits(row) /\ Intend(e, "model", m, patch, models[m], row)
  /\ UNCHANGED <<devices, modelVars, history, shown, repairs, clock>>
BeginNewModel(e, m, row) ==
  /\ edit[e] = None /\ FamilyFits(row) /\ Intend(e, "model", m, << >>, None, row)
  /\ UNCHANGED <<devices, modelVars, history, shown, repairs, clock>>
\* The row first, its configured rules in a later transaction.
CommitModel(e) ==
  /\ edit[e] # None /\ edit[e].kind = "model"
  /\ LET m == edit[e].id  row == edit[e].row IN
       IF (m \in DOMAIN models <=> edit[e].was # None) /\ (row.family # None => row.family \in DOMAIN families)
       THEN /\ models' = With(models, m, row)
            /\ support' = IF edit[e].was = None THEN With(support, m, {}) ELSE support
            /\ edit' = IF row.platforms = {} THEN [edit EXCEPT ![e] = None] ELSE [edit EXCEPT ![e].kind = "support"]
       ELSE Drop(e) /\ UNCHANGED <<models, support>>
  /\ UNCHANGED <<devices, families, history, shown, repairs, clock>>
SyncSupportedPlatforms(e) ==
  /\ edit[e] # None /\ edit[e].kind = "support"
  /\ support' = [m \in DOMAIN support |-> IF m = edit[e].id THEN edit[e].row.platforms ELSE support[m]]
  /\ Drop(e) /\ UNCHANGED <<devices, models, families, history, shown, repairs, clock>>
DeleteModel(m) ==
  /\ \A d \in DOMAIN devices : devices[d].model # m
  /\ models' = Without(models, m) /\ support' = Without(support, m)
  /\ UNCHANGED <<devices, families, history, edit, shown, repairs, clock>>

Members(f) == {m \in DOMAIN models : models[m].family = f}
BeginFamily(e, f, v) ==
  /\ edit[e] = None /\ families[f] # v /\ Members(f) = {}
  /\ Intend(e, "family", f, << >>, families[f], v)
  /\ UNCHANGED <<devices, modelVars, history, shown, repairs, clock>>
CommitFamily(e) ==
  /\ edit[e] # None /\ edit[e].kind = "family"
  /\ families' = [f \in DOMAIN families |-> IF f = edit[e].id THEN edit[e].row ELSE families[f]]
  /\ Drop(e) /\ UNCHANGED <<devices, models, support, history, shown, repairs, clock>>
CreateFamily(f, v) ==
  /\ f \notin DOMAIN families /\ families' = With(families, f, v)
  /\ UNCHANGED <<devices, models, support, history, edit, shown, repairs, clock>>
DeleteFamily(f) ==
  /\ Members(f) = {} /\ families' = Without(families, f)
  /\ UNCHANGED <<devices, models, support, history, edit, shown, repairs, clock>>
-----------------------------------------------------------------------------
(* Bulk maintenance.                                                        *)

\* What may be asked of the selected rows, judged on the rows of the moment.
NamesAreFree(rows, c) ==
  LET named == [d \in DOMAIN rows |-> rows[d].name] IN
  /\ \A d, k \in DOMAIN rows : d # k => named[d] # named[k]
  /\ ~\E k \in DOMAIN devices \ DOMAIN rows : devices[k].customer = c /\ \E d \in DOMAIN rows : named[d] = devices[k].name
BulkAllowed(rows, operation, target) ==
  CASE operation = "SET_CUSTOMER" -> target \in Owners /\ NamesAreFree(rows, target)
    [] operation = "SET_SITE" -> \A d \in DOMAIN rows : rows[d].customer = Home[target]
    [] operation = "SET_MODEL" ->
         /\ target \in DOMAIN models /\ models[target].active
         /\ \A d \in DOMAIN rows : rows[d].release # None =>
              /\ Releases[rows[d].release].vendor = models[target].vendor
              /\ Releases[rows[d].release].platform \in models[target].platforms
    [] OTHER -> TRUE

BulkRow(row, operation, target) ==
  CASE operation = "ARCHIVE" -> [row EXCEPT !.active = FALSE]
    [] operation = "ACTIVATE" -> [row EXCEPT !.active = TRUE]
    [] operation = "SET_CUSTOMER" -> IF row.customer = target THEN row ELSE [row EXCEPT !.customer = target, !.site = None]
    [] operation = "SET_SITE" -> [row EXCEPT !.site = target]
    [] operation = "SET_MODEL" -> [row EXCEPT !.model = target]

PreviewBulk(selected, change) ==
  LET rows == [d \in selected |-> devices[d]] IN
  /\ shown = None /\ BulkAllowed(rows, change.operation, change.target)
  /\ shown' = [kind |-> "bulk", operation |-> change.operation, target |-> change.target, rows |-> rows]
  /\ UNCHANGED <<devices, modelVars, history, edit, repairs, clock>>

\* The stamps of the selection and the fingerprint of the preview must hold.
\* A mutant of StillAsShown: what was shown is not compared again.
StillThere(p) == DOMAIN p.rows \subseteq DOMAIN devices
StillAsShown(p) == \A d \in DOMAIN p.rows : d \in DOMAIN devices /\ devices[d] = p.rows[d]

BulkChanged(p) == {d \in DOMAIN p.rows : Content(BulkRow(devices[d], p.operation, p.target)) # Content(devices[d])}
ApplyBulk ==
  /\ shown # None /\ shown.kind = "bulk" /\ clock < MaxWrites
  /\ StillAsShown(shown) /\ BulkAllowed([d \in DOMAIN shown.rows |-> devices[d]], shown.operation, shown.target)
  /\ LET changed == BulkChanged(shown) IN
       /\ devices' = [d \in DOMAIN devices |->
                        IF d \in changed THEN Stamped(BulkRow(devices[d], shown.operation, shown.target)) ELSE devices[d]]
       /\ history' = history \cup changed
  /\ clock' = clock + 1 /\ shown' = None
  /\ UNCHANGED <<modelVars, edit, repairs>>
DropPreview ==
  /\ shown # None /\ shown' = None
  /\ UNCHANGED <<devices, modelVars, history, edit, repairs, clock>>
-----------------------------------------------------------------------------
(* Repair of a firmware link.  The model's supported platforms and the       *)
(* version the device was seen with decide; nothing observed is rewritten.   *)

SameTrain(current, r) ==
  (current # None /\ Releases[current].train # None /\ Releases[r].train # None) => Releases[current].train = Releases[r].train
\* The image and variant are those of the linked release, and a train is active
\* and of the release's platform.
FitsModel(row, r) ==
  /\ row.release # None => Releases[r].image = Releases[row.release].image
  /\ Releases[r].train # None => Releases[r].trainFits
  /\ Releases[r].active /\ Releases[r].vendor = models[row.model].vendor
  /\ Releases[r].version = row.observed /\ Releases[r].platform \in models[row.model].platforms
Candidates(row) == {r \in DOMAIN Releases : FitsModel(row, r) /\ SameTrain(row.release, r)}

EvidenceConflicts(row) ==
  row.release # None /\ (Releases[row.release].vendor # models[row.model].vendor \/ Releases[row.release].version # row.observed)
Judged(row, found) ==
  CASE row.release \in found -> "CORRECT"
    [] row.release \notin found /\ Cardinality(found) = 1 -> "MATCHED"
    [] row.release \notin found /\ Cardinality(found) > 1 -> "AMBIGUOUS"
    [] OTHER -> "MISSING_TARGET"
Decision(row) ==
  IF row.observed = None THEN "NO_OBSERVATION"
  ELSE IF EvidenceConflicts(row) THEN "EVIDENCE_CONFLICT"
  ELSE IF models[row.model].platforms = {} THEN "UNSUPPORTED_MODEL"
  ELSE Judged(row, Candidates(row))

\* A mutant of ManualTargets: the linked version need not be the observed one.
ManualTargetsOfAnyEvidence(row) ==
  IF row.observed = None THEN {}
  ELSE {r \in DOMAIN Releases \ {row.release} : FitsModel(row, r) /\ SameTrain(row.release, r)}
ManualTargets(row) ==
  IF row.observed = None \/ EvidenceConflicts(row) THEN {}
  ELSE {r \in DOMAIN Releases \ {row.release} : FitsModel(row, r) /\ SameTrain(row.release, r)}

Repairable(row, target, manual) ==
  IF manual THEN target \in ManualTargets(row) ELSE Decision(row) = "MATCHED" /\ Candidates(row) = {target}

PreviewRepair(d, target, manual) ==
  /\ shown = None /\ Repairable(devices[d], target, manual)
  /\ shown' = [kind |-> "repair", device |-> d, old |-> devices[d].release, stamp |-> devices[d].stamp,
               target |-> target, manual |-> manual]
  /\ UNCHANGED <<devices, modelVars, history, edit, repairs, clock>>
ApplyRepair ==
  /\ shown # None /\ shown.kind = "repair" /\ clock < MaxWrites
  /\ shown.device \in DOMAIN devices
  /\ LET d == shown.device  row == devices[d] IN
       /\ row.release = shown.old /\ row.stamp = shown.stamp /\ Repairable(row, shown.target, shown.manual)
       /\ devices' = Write(d, [row EXCEPT !.release = shown.target])
       /\ repairs' = Append(repairs, [device |-> d, before |-> row, after |-> shown.target, stamp |-> clock + 1, undone |-> FALSE])
       /\ history' = history \cup {d}
  /\ clock' = clock + 1 /\ shown' = None
  /\ UNCHANGED <<modelVars, edit>>

\* Only while the row is exactly as the repair left it.
Untouched(repair) ==
  /\ repair.device \in DOMAIN devices
  /\ devices[repair.device].release = repair.after /\ devices[repair.device].stamp = repair.stamp
Rollback(i) ==
  /\ clock < MaxWrites /\ ~repairs[i].undone /\ Untouched(repairs[i])
  /\ devices' = Write(repairs[i].device, [devices[repairs[i].device] EXCEPT !.release = repairs[i].before.release])
  /\ repairs' = [repairs EXCEPT ![i].undone = TRUE]
  /\ clock' = clock + 1 /\ UNCHANGED <<modelVars, history, edit, shown>>
-----------------------------------------------------------------------------
DevicesInit ==
  /\ devices = [d \in DOMAIN AllDevices \ Unborn |-> [f \in DeviceFields \cup {"stamp"} |-> IF f = "stamp" THEN 0 ELSE AllDevices[d][f]]]
  /\ models = FirstModels /\ families = FirstFamilies /\ support = [m \in DOMAIN FirstModels |-> FirstModels[m].platforms]
  /\ history = {} /\ edit = [e \in Editors |-> None] /\ shown = None /\ repairs = << >> /\ clock = 0

EditDevices(e) ==
  \/ \E d \in DOMAIN AllDevices \ DOMAIN devices : BeginCreate(e, d, AllDevices[d])
  \/ \E d \in DOMAIN devices, patch \in Edits : BeginEdit(e, d, patch)
  \/ CommitDevice(e)
EditCatalog(e) ==
  \/ \E m \in DOMAIN models : \E patch \in ModelEdits[m] : BeginModel(e, m, patch)
  \/ \E m \in DOMAIN FirstModels \ DOMAIN models : BeginNewModel(e, m, FirstModels[m])
  \/ CommitModel(e)
  \/ SyncSupportedPlatforms(e)
  \/ \E f \in DOMAIN families, v \in Vendors : BeginFamily(e, f, v)
  \/ CommitFamily(e)
Maintain ==
  \/ \E selected \in {x \in Selections : x \subseteq DOMAIN devices}, change \in BulkChanges : PreviewBulk(selected, change)
  \/ ApplyBulk
  \/ DropPreview
Repair ==
  \/ \E d \in DOMAIN devices, r \in DOMAIN Releases, manual \in BOOLEAN : PreviewRepair(d, r, manual)
  \/ ApplyRepair
  \/ \E i \in DOMAIN repairs : Rollback(i)
Remove ==
  \/ \E d \in DOMAIN devices : DeleteDevice(d)
  \/ \E m \in DOMAIN models : DeleteModel(m)
  \/ \E f \in DOMAIN families : DeleteFamily(f)
Add == \E f \in DOMAIN FirstFamilies : CreateFamily(f, FirstFamilies[f])

DevicesNext == (\E e \in Editors : EditDevices(e) \/ EditCatalog(e)) \/ Maintain \/ Repair \/ Remove \/ Add

DevicesSpec == DevicesInit /\ [][DevicesNext]_deviceVars
-----------------------------------------------------------------------------
\* A device stands at a site of its own customer, whatever edits and bulk
\* changes cross (device-store.ts updateDevice, applyInventoryBulkMaintenance).
SitesStayWithTheirCustomer ==
  \A d \in DOMAIN devices : devices[d].site # None => Home[devices[d].site] = devices[d].customer

\* A bulk change is applied to the rows that were shown, a repair leaves
\* everything but the link, and its rollback restores the row it found.
Rewrites(d, row) == Content(devices'[d]) = Content(row)
ReviewedChange ==
  /\ (shown # None /\ shown' = None /\ clock' # clock) =>
       IF shown.kind = "bulk"
       THEN \A d \in DOMAIN devices :
              IF d \in DOMAIN shown.rows THEN Rewrites(d, BulkRow(shown.rows[d], shown.operation, shown.target))
              ELSE devices'[d] = devices[d]
       ELSE Rewrites(shown.device, [devices[shown.device] EXCEPT !.release = shown.target])
  /\ \A i \in DOMAIN repairs : (repairs'[i].undone /\ ~repairs[i].undone) => Rewrites(repairs[i].device, repairs[i].before)
ReviewedChangesAreExact == [][ReviewedChange]_deviceVars

\* The link that is repaired automatically is the only one an engineer could
\* choose, and a correct link is never repaired (resolveInventoryFirmwareLink,
\* manualInventoryFirmwareTargets).
RepairChoicesAgree ==
  \A d \in DOMAIN devices :
    LET row == devices[d]  found == Candidates(row)  offered == ManualTargets(row) IN
    IF Decision(row) = "MATCHED" THEN offered = found /\ Cardinality(offered) = 1
    ELSE Cardinality(offered) = 1 => row.release \in found
=============================================================================
