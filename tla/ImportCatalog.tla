---------------------------- MODULE ImportCatalog ----------------------------
(* The catalog an import resolves its values in: customers and their units   *)
(* and sites, vendors with their families, models and firmware releases. A   *)
(* record is known by its field, its parents and its normal name, and is     *)
(* active or not (importer-v2-evaluator.ts, importer-v2-publication-store.ts).*)
EXTENDS Integers, FiniteSets, Tables

CatalogFields == {"customer", "businessUnit", "site", "vendor", "deviceType", "productFamily", "model", "currentFirmware"}
RequiredFields == {"customer", "site", "vendor", "deviceType", "model"}
ParentFields == [f \in CatalogFields |->
  CASE f = "businessUnit" -> {"customer"}
    [] f = "site" -> {"customer", "businessUnit"}
    [] f \in {"productFamily", "model"} -> {"vendor"}
    [] f = "currentFirmware" -> {"vendor", "softwarePlatform"}
    [] OTHER -> {}]
KeyOf(f, values) == <<f, [p \in ParentFields[f] |-> values[p]], values[f]>>
Filled(values) == {f \in CatalogFields : values[f] # None}
IsActive(cat, key) == key \in DOMAIN cat /\ cat[key]
LaidOver(new, old) == [k \in DOMAIN new \cup DOMAIN old |-> IF k \in DOMAIN new THEN new[k] ELSE old[k]]
=============================================================================
