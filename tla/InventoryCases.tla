--------------------------- MODULE InventoryCases ---------------------------
(* A small inventory to administer.                                         *)
EXTENDS Tables

Parent(v) == [parent |-> v]
TheUnitEdits == {Parent(None), Parent("u1"), Parent("u2"), [source |-> "IMPORT"]}
TheSiteEdits == {[unit |-> "u1"], [unit |-> None], [contract |-> "k"]}

TheRequests == {"q1", "q2"}
TheContracts == {"k"}
TheCustomers == {"A", "B"}
TheUnits == {"u1", "u2"}
TheSites == {"s1"}
TheNames == {"n1", "n2"}
-----------------------------------------------------------------------------
Running(vendor, platform, version) ==
  [vendor |-> vendor, platform |-> platform, version |-> version, image |-> "a", train |-> None, trainFits |-> FALSE, active |-> TRUE]
TheReleases == [alias |-> Running("v1", "x", "8"), right |-> Running("v1", "p", "8"), other |-> Running("v1", "q", "8"),
                old |-> Running("v1", "p", "7"), foreign |-> Running("v2", "p", "8"),
                variant |-> [Running("v1", "p", "8") EXCEPT !.image = "b"],
                stray |-> [Running("v1", "p", "8") EXCEPT !.train = "t"]]
Row(name, site, model, release) ==
  [customer |-> "A", site |-> site, model |-> model, release |-> release, observed |-> "8", name |-> name, active |-> TRUE]
TheDevices == [d1 |-> Row("n1", "s", "m1", "alias"), d2 |-> [Row("n2", None, "m2", None) EXCEPT !.observed = None]]
Model(platforms) == [vendor |-> "v1", family |-> None, platforms |-> platforms, active |-> TRUE]
TheModels == [m1 |-> Model({"p"}), m2 |-> Model({"p", "q"})]
TheEdits == {[site |-> "s"], [release |-> "old"]}
TheModelEdits == [m1 |-> {[platforms |-> {"p", "x"}, family |-> "f"]}, m2 |-> {}]
Bulk(operation, target) == [operation |-> operation, target |-> target]
TheBulkChanges == {Bulk("ARCHIVE", None), Bulk("SET_CUSTOMER", "B"), Bulk("SET_SITE", "s"), Bulk("SET_MODEL", "m2")}

TheEditors == {"e1"}
TheHomes == [s |-> "A", t |-> "B"]
TheVendors == {"v1", "v2"}
TheFamilies == [f |-> "v1"]
TheUnborn == {"d2"}
TheSelections == {{"d1"}, {"d1", "d2"}}
=============================================================================
