----------------------------- MODULE ImportCases -----------------------------
(* A small inventory to import into: two providers that know the same        *)
(* access point, a stack with a member, and an export that moves a device    *)
(* to another customer.                                                      *)
EXTENDS ImportCatalog

NormalForm == [f \in {"sourceId", "serialNumber", "macAddress"} |-> [t \in {"1", "2", "s1", "S1", "s2", "m1", "q1", "q2"} |-> IF t = "S1" THEN "s1" ELSE t]]
HardwareOf == [m \in {"AP", "SW"} |-> m]
Ids(source, serial, mac) == [sourceId |-> source, serialNumber |-> serial, macAddress |-> mac]
Says(customer, model, name, firmware) ==
  [customer |-> customer, businessUnit |-> None, site |-> "HQ", vendor |-> "HPE", deviceType |-> "AP",
   productFamily |-> None, model |-> model, currentFirmware |-> firmware, softwarePlatform |-> "AOS",
   deviceName |-> name, notes |-> None]
Line(ids, values) == [ids |-> ids, values |-> values, base |-> values.deviceName, position |-> None, looksLikeStack |-> FALSE]
AP(ids, customer, name, firmware) == Line(ids, Says(customer, "AP", name, firmware))
Stack(ids) == [Line(ids, Says("Acme", "SW", "stack", None)) EXCEPT !.looksLikeStack = TRUE]
Member(ids) == [Line(ids, Says("Acme", "SW", "stack 1", None)) EXCEPT !.base = "stack", !.position = 1]

TheExports ==
  [first |-> [provider |-> "auvik", adapter |-> "csv", rows |-> <<AP(Ids("1", "s1", None), "Acme", "ap", None),
                                                                  Stack(Ids("2", "s2", None)), Member(Ids("q2", "s2", None))>>],
   moved |-> [provider |-> "auvik", adapter |-> "csv", rows |-> <<AP(Ids("1", "s1", None), "Beta", "ap", "8.1")>>],
   other |-> [provider |-> "aruba", adapter |-> "xlsx", rows |-> <<AP(Ids("q1", "S1", "m1"), "Acme", "ap", None),
                                                                   AP(Ids("q2", "s2", None), "Acme", "ap2", None)>>]]
Keys(values) == {KeyOf(f, values) : f \in Filled(values) \ {"currentFirmware"}}
TheCatalog == [k \in Keys(Says("Acme", "AP", "ap", None)) \cup Keys(Says("Beta", "AP", "ap", None)) |-> TRUE]
TheModel == {KeyOf("model", Says("Acme", "AP", "ap", None))}
Fix(field, value) == [field |-> field, value |-> value]
TheFixes == {Fix("serialNumber", None), Fix("serialNumber", "s1"), Fix("deviceName", "ap")}
TheEdits == {Fix("deviceName", "ap2")}
TheHandMade == {[customer |-> "Acme", site |-> KeyOf("site", Says("Acme", "AP", "ap", None)), model |-> "AP",
                 deviceName |-> "ap", serialNumber |-> "s1", notes |-> None, currentFirmware |-> None, audited |-> FALSE]}
=============================================================================
