--------------------------- MODULE EvaluationCases ---------------------------
(* Rows of a controller export and a small catalog, for an instance of       *)
(* ImportEvaluation.                                                         *)
EXTENDS Integers, Sequences, Tables, TLC

Read(kind, release, family) == [kind |-> kind, release |-> release, family |-> family]
\* What the version patterns find: boot syntax, switch codes, classic IOS
\* trains, WLAN majors, Meraki families and dashboard slugs, or nothing.
Texts == {"0.1", "not set", "16.12(3r)", "17.9.4", "ios 15.2(7)E2", "WC.16.01.0010", "WC.16.11.0002",
          "8.10.0", "MR 32.2.4", "wireless-32-2-4", "31.1"}
TheReading == [t \in Texts |->
  CASE t \in {"0.1", "not set"} -> Read("PROSE", None, None)
    [] t = "16.12(3r)" -> Read("ROMMON", t, None)
    [] t = "ios 15.2(7)E2" -> Read("CLASSIC", "15.2(7)E2", None)
    [] t \in {"WC.16.01.0010", "WC.16.11.0002"} -> Read("CODE16", t, None)
    [] t = "8.10.0" -> Read("8", t, None)
    [] t = "MR 32.2.4" -> Read("PLAIN", "32.2.4", "Meraki MR")
    [] t = "wireless-32-2-4" -> Read("SLUG", "32.2.4", "Meraki MR")
    [] OTHER -> Read("PLAIN", t, None)]
Names == {"controller", "aruba", "cisco", "meraki", "ap-515", "c9300", "c9300-24", "mr46", "wireless ap", "switch", "unknown",
          "fortigate", "catalyst", "IOS-XE", "IOS", "AOS-10", "Meraki MR"}
TheWords == [t \in Texts \cup Names |->
  CASE t = "wireless ap" -> {"wireless"} [] t = "ios 15.2(7)E2" -> {"IOS"} [] t = "fortigate" -> {"FortiOS"}
    [] t = "meraki" -> {"cisco", "meraki"} [] t \in {"controller", "aruba", "cisco", "IOS-XE", "IOS"} -> {t} [] OTHER -> {}]
TheCanonical == [t \in Texts \cup Names |-> IF t = "fortigate" THEN "FortiOS" ELSE t]

Rec(field, id, label) == [field |-> field, id |-> id, label |-> label, customer |-> None, unit |-> None, relation |-> None]
Aim(id, label) == [id |-> id, label |-> label]
Of(record, customer, unit) == [record EXCEPT !.customer = customer, !.unit = unit]
Model(id, label, vendor, type, family) ==
  [Rec("model", id, label) EXCEPT !.relation = [vendor |-> vendor, deviceType |-> type, productFamily |-> family]]
TheRecords == {
  Rec("customer", "c1", "acme"), Rec("customer", "c2", "beta"), Of(Rec("businessUnit", "u1", "north"), "c1", None),
  Of(Rec("site", "s1", "hq"), "c1", "u1"), Of(Rec("site", "s2", "hq"), "c2", None), Of(Rec("site", "s3", "lab"), "c1", None),
  Rec("vendor", "v1", "cisco"), Rec("vendor", "v2", "aruba"), Rec("vendor", "v3", "meraki"),
  Rec("deviceType", "d1", "switch"), Rec("deviceType", "d2", "wireless ap"),
  Model("m1", "c9300", Aim("v1", "cisco"), Aim("d1", "switch"), Aim("f1", "catalyst")),
  Model("m2", "ap-515", Aim("v2", "aruba"), Aim("d2", "wireless ap"), None)}
Wavering == {"s2", "m1"}
\* A profile alias that reads a variant as its model; a vendor remembered
\* against the model, and one remembered by a retired id of the same name.
TheAliases == {[field |-> "model", input |-> "c9300-24", id |-> "m1", label |-> "c9300"]}
TheMappings == {[field |-> "vendor", input |-> "cisco", id |-> "v2", label |-> "aruba"],
                [field |-> "vendor", input |-> "cisco", id |-> "v9", label |-> "cisco"]}
TheSupports == {[model |-> "c9300", vendor |-> "cisco", platforms |-> {"IOS-XE"}],
                [model |-> "c9300", vendor |-> "cisco", platforms |-> {"IOS"}]}
Part(from, rest) == [from |-> from, rest |-> rest]
\* The template the importer ships, and the rule of one profile.
TheTemplate == {
  [min |-> 1, max |-> 1, assign |-> [customer |-> Part(1, FALSE)]],
  [min |-> 2, max |-> 2, assign |-> [customer |-> Part(1, FALSE), site |-> Part(2, FALSE)]],
  [min |-> 3, max |-> 3, assign |-> [customer |-> Part(1, FALSE), businessUnit |-> Part(2, FALSE), site |-> Part(3, FALSE)]],
  [min |-> 4, max |-> None, assign |-> [customer |-> Part(1, FALSE), businessUnit |-> Part(2, FALSE), site |-> Part(3, TRUE)]]}
TheTypeRules == {[type |-> "controller", action |-> "EXCLUDE"]}
NoValue == {"0.1"}
TheJoined == <<"hq", "east">> :> "hq - east"

Plain == [organization |-> <<"acme", "lab">>, direct |-> FALSE, vendor |-> "cisco", model |-> "c9300", deviceType |-> "switch",
          member |-> FALSE, platform |-> None, firmware |-> None, software |-> "17.9.4", known |-> None,
          provider |-> "controller", doubtful |-> FALSE]
Pairs(vendor) ==
  LET shown == CASE vendor = "cisco" -> {None, "0.1", "not set", "16.12(3r)", "17.9.4", "ios 15.2(7)E2"}
                 [] vendor = "aruba" -> {None, "WC.16.01.0010", "WC.16.11.0002", "8.10.0"}
                 [] OTHER -> {None, "MR 32.2.4", "wireless-32-2-4", "31.1"}
  IN shown \X shown
ModelOf == [v \in {"cisco", "aruba", "meraki"} |-> CASE v = "cisco" -> "c9300" [] v = "aruba" -> "ap-515" [] OTHER -> "mr46"]
FirmwareRows ==
  UNION {{[Plain EXCEPT !.vendor = v, !.model = ModelOf[v], !.deviceType = IF v = "cisco" THEN "switch" ELSE "wireless ap",
                        !.firmware = p[1], !.software = p[2], !.platform = named, !.known = k] :
            p \in Pairs(v), named \in {None, "IOS-XE", "AOS-10"}, k \in {None, "17.9.4"}} : v \in DOMAIN ModelOf}
PlaceRows ==
  {[Plain EXCEPT !.organization = o, !.vendor = v, !.model = m, !.platform = "IOS-XE"] :
     o \in {<<"beta", "hq">>, <<"acme", "north", "hq">>, <<"acme", "">>, <<"gamma", "north", "hq", "east">>, <<>>},
     v \in {"cisco", "aruba", None}, m \in {"c9300", "ap-515", "c9300-24"}}
OtherRows ==
  {[Plain EXCEPT !.organization = <<"acme", "hq">>, !.direct = TRUE], [Plain EXCEPT !.member = TRUE, !.deviceType = "unknown"],
   [Plain EXCEPT !.deviceType = "controller"], [Plain EXCEPT !.doubtful = TRUE], [Plain EXCEPT !.deviceType = "fortigate", !.model = "mr46"]}
TheSheets == FirmwareRows \cup PlaceRows \cup OtherRows
=============================================================================
