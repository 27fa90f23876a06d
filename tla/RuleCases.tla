------------------------------ MODULE RuleCases ------------------------------
(* Two engineers, two rows and four rules of an import, and one mapping.     *)
EXTENDS Integers, Sequences, Tables

CONSTANTS e1, e2, t1, t2

TheEngineers == {e1, e2}
TheRows == {t1, t2}
TheFields == {"vendor", "model", "customer"}
TheTexts == TheFields \cup {"HPE Aruba", "hpe aruba", "Aruba", "aruba", "HPE", "hpe", "AP-515", "ap-515",
                            " AP-515", "AP-635", "ap-635", "Acme", "acme", "excel", "auvik", "acme auvik"}
LowerCase == [t \in TheTexts |->
  CASE t = "HPE Aruba" -> "hpe aruba" [] t = "Aruba" -> "aruba" [] t = "HPE" -> "hpe"
    [] t = "AP-515" -> "ap-515" [] t = "AP-635" -> "ap-635" [] t = "Acme" -> "acme" [] OTHER -> t]
NormalForm == [t \in TheTexts |-> IF t = " AP-515" THEN "AP-515" ELSE t]
Patterns == [op \in {"CONTAINS", "PREFIX"} |->
  IF op = "CONTAINS" THEN {<<"hpe aruba", "aruba">>, <<"aruba", "aruba">>} ELSE {<<"hpe aruba", "hpe">>}]
TheContext == [profile |-> "acme auvik", provider |-> "auvik", adapter |-> "excel"]
RowValues == [r \in TheRows |->
  IF r = t1 THEN [vendor |-> "HPE Aruba", model |-> " AP-515", customer |-> "Acme"]
  ELSE [vendor |-> "HPE Aruba", model |-> "AP-635", customer |-> None]]

Act(type, field, value) == [type |-> type, field |-> field, value |-> value]
\* Map a vendor wherever it stands; for one customer; ignore it; clear a model.
VendorRule == [field |-> "vendor", operator |-> "CONTAINS", value |-> "Aruba", scope |-> "profile",
               actions |-> <<Act("MAP_VALUE", "vendor", <<"Aruba">>)>>]
CustomerRule == [field |-> "model", operator |-> "NORMALIZED_EXACT", value |-> "AP-515", scope |-> "customer",
                 actions |-> <<Act("MAP_VALUE", "vendor", <<"HPE">>), Act("MAP_VALUE", "customer", <<"Acme">>)>>]
IgnoreRule == [field |-> "vendor", operator |-> "PREFIX", value |-> "HPE", scope |-> "profile",
               actions |-> <<Act("IGNORE_FIELD", "vendor", <<>>)>>]
ModelRule == [field |-> "model", value |-> "AP-635", scopes |-> [sourceFields |-> {"model"}],
              actions |-> <<Act("CLEAR_FIELD", "model", <<>>)>>]
GuidedRules == {VendorRule, CustomerRule, IgnoreRule}
ScopedRules == {ModelRule}
RuleOrder == [a \in GuidedRules \cup ScopedRules |->
  CASE a = VendorRule -> 1 [] a = CustomerRule -> 2 [] a = IgnoreRule -> 3 [] OTHER -> 4]
AsksOf == [e \in TheEngineers |-> IF e = e1 THEN {VendorRule} ELSE {CustomerRule, IgnoreRule, ModelRule}]
OneManager == {e1}
NoTable == <<>>
OneKey == {"key"}
=============================================================================
