----------------------------- MODULE MCFirmware -----------------------------
(* The firmware modules on small instances, in one run: a behaviour belongs *)
(* to one scenario, and only the state of its scenario moves.               *)
EXTENDS FirmwareCatalog, FirmwareGovernance, TLC

VARIABLE scenario
-----------------------------------------------------------------------------
(* The catalog: two editors, two trains and releases of two platforms.      *)

Dotted(n) == [grammar |-> "dotted", parts |-> <<n>>, letters |-> "", variant |-> None]
MCIdentity(platform, n) ==
  [vendor |-> "v", platform |-> platform, version |-> Dotted(n), logical |-> Dotted(n), variant |-> None, image |-> ""]
MCIdentities == {MCIdentity("p", 1), MCIdentity("q", 1)}
MCTrainNames == {[vendor |-> "v", platform |-> "p", name |-> "a"], [vendor |-> "v", platform |-> "q", name |-> "a"]}

MCRelease(id, n, train) ==
  MCIdentity("p", n) @@ [id |-> id, train |-> train, equivalence |-> "EXACT_ONLY", active |-> TRUE,
                         state |-> "VERIFIED", eligibility |-> "ALLOWED"]
MCFirstReleases == (1 :> MCRelease(1, 1, 1)) @@ (2 :> None)
MCFirstTrains ==
  (1 :> [vendor |-> "v", platform |-> "p", name |-> "b", state |-> "PREFERRED",
         preferred |-> None, minimum |-> None, active |-> TRUE])
  @@ (2 :> None)
-----------------------------------------------------------------------------
(* Governance: two releases of platform p and one of q, models that inherit *)
(* p, that have a rule for it and that may run both.                        *)

KnownReleases(train) == (1 :> MCRelease(1, 1, train)) @@ (2 :> MCRelease(2, 2, train))
Others == (3 :> [MCRelease(3, 3, None) EXCEPT !.platform = "q"])
MCModel(id, platforms) ==
  [id |-> id, vendor |-> "v", family |-> "f", platforms |-> platforms, preferred |-> None]
Device(model) == [model |-> model, customer |-> "c", site |-> "s", release |-> 1, version |-> Dotted(1)]
MCTrain == [id |-> 1, vendor |-> "v", platform |-> "p", state |-> "PREFERRED", preferred |-> 2, minimum |-> None]
Policy(id, from, m, target, version) ==
  [id |-> id, active |-> TRUE, track |-> "default", default |-> TRUE, legacy |-> FALSE, mode |-> "EXACT",
   platform |-> "p", minimum |-> None, target |-> target, maximum |-> None, train |-> None,
   minimumInclusive |-> TRUE, maximumInclusive |-> TRUE, from |-> from, version |-> version,
   model |-> m, family |-> None, customer |-> None, site |-> None, device |-> None]
Rule(id, m, family, decision) ==
  [id |-> id, active |-> TRUE, vendor |-> "v", model |-> m, family |-> family, platform |-> "p", train |-> None,
   logical |-> None, release |-> None, image |-> None, decision |-> decision, source |-> "CONFIGURED_RULE",
   validFrom |-> None, validUntil |-> None]
Form(mode, target, minimum, train) ==
  [mode |-> mode, target |-> target, minimum |-> minimum, maximum |-> None, train |-> train]
Exception(scope, id, duration, expires) ==
  [scope |-> scope, scopeId |-> id, subject |-> "ALL_MAINTENANCE", release |-> None, train |-> None,
   vendor |-> None, platform |-> None, minimum |-> None, maximum |-> None, duration |-> duration,
   expires |-> expires, id |-> None, decided |-> None, superseded |-> None, snapshots |-> None, shown |-> None]
Barred == [state |-> "BLOCKED", eligibility |-> "DISALLOWED"]
Unseen == [state |-> "OBSERVED", eligibility |-> "NOT_EVALUATED"]

MCKnownIds == {1, 2}
MCDevices == {1}
MCTrains == {MCTrain}
MCOneModel == (1 :> MCModel(1, {"p"}))
MCTwoModels == (1 :> MCModel(1, {"p"})) @@ (2 :> MCModel(2, {"p"}))
MCTrained == KnownReleases(1)
MCFirstDevices == (1 :> Device(1))
MCStatuses == {Barred, Unseen}
MCPlatforms == {{}, {"p"}, {"q"}}
MCSaveForms == {Form("MINIMUM", 2, 1, None), Form("LATEST_APPROVED_IN_TRAIN", None, None, 1)}
MCAnnounced == {Policy(1, 0, 1, 1, 1), Policy(2, 2, 1, 2, 2)}
MCWanted == {Policy(1, 0, 1, 2, 1)}
MCSoon == {Policy(1, 0, 1, 2, 1), Policy(2, 2, 1, 1, 2)}
MCRuleForms == {Rule(<<0, "a">>, None, "f", "DENY"), [Rule(<<0, "b">>, 1, None, "ALLOW") EXCEPT !.release = 2]}
MCFirstRules == {Rule(<<1, "p">>, 1, None, "ALLOW")}
MCExceptionForms == {Exception("site", "s", "POLICY_CHANGE", None), Exception("device", 1, "NEXT_REVIEW", None)}
MCLastingForms == {Exception("device", 1, "PERMANENT", None)}
MCNone == {}
MCOutcomes == {"DONE"}
MCSites == {"s", "t"}
MCTwo == {2}
MCOnly == {1}

\* Evidence: selections, rules and decisions of a model, releases that are barred.
V == INSTANCE FirmwareGovernance WITH
  Models <- MCOneModel, Standings <- MCStatuses, Platforms <- MCPlatforms, Outcomes <- {}, Targets <- {},
  RuleForms <- MCRuleForms, SaveForms <- {}, MaxTime <- 1, MaxOverrides <- 2, MaxChanges <- 2,
  FirstPolicies <- {}

\* Exceptions: of a site and of a device, while policies and devices change.
X == INSTANCE FirmwareGovernance WITH
  Models <- MCOneModel, Outcomes <- {}, Sites <- MCSites, Targets <- MCOnly,
  SaveForms <- {}, MaxTime <- 3, MaxExceptions <- 1, MaxChanges <- 1,
  ExceptionForms <- MCExceptionForms, FirstPolicies <- MCWanted

\* Plans in progress: the model has a rule for its platform, and another
\* policy is announced.
L == INSTANCE FirmwareGovernance WITH
  Standings <- MCStatuses, Platforms <- MCPlatforms, Outcomes <- {}, Targets <- {},
  SaveForms <- {}, MaxTime <- 2, Quarter <- 1, MaxExceptions <- 1, MaxPlans <- 1, MaxChanges <- 2,
  ExceptionForms <- MCLastingForms, FirstPolicies <- MCSoon, FirstRules <- MCFirstRules

ASSUME V!GovernanceConstants /\ X!GovernanceConstants /\ L!GovernanceConstants

\* Nothing moves in the catalog of the other scenarios, nor outside of it here.
NoCatalog == releases = <<>> /\ trains = <<>> /\ cited = {} /\ edit = <<>> /\ crossed = {} /\ writes = 0

\* Policies, with the constants of the run: two engineers, two models and a
\* policy that is announced.
InitAny ==
  \/ scenario = "catalog" /\ CatalogInit /\ GovernanceInit
  \/ scenario = "policies" /\ GovernanceInit /\ NoCatalog
  \/ scenario = "evidence" /\ V!GovernanceInit /\ NoCatalog
  \/ scenario = "exceptions" /\ X!GovernanceInit /\ NoCatalog
  \/ scenario = "plans" /\ L!GovernanceInit /\ NoCatalog

NextAny ==
  /\ UNCHANGED scenario
  /\ \/ scenario = "catalog" /\ CatalogNext /\ UNCHANGED governanceVars
     \/ scenario = "policies" /\ GovernanceNext /\ UNCHANGED catalogVars
     \/ scenario = "evidence" /\ V!GovernanceNext /\ UNCHANGED catalogVars
     \/ scenario = "exceptions" /\ X!GovernanceNext /\ UNCHANGED catalogVars
     \/ scenario = "plans" /\ L!GovernanceNext /\ UNCHANGED catalogVars

varsAny == <<scenario, catalogVars, governanceVars>>

SpecAny == InitAny /\ [][NextAny]_varsAny

Symmetry == Permutations(Editors) \cup Permutations(Engineers)
=============================================================================
