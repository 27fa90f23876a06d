----------------------------- MODULE MCInventory -----------------------------
(* Small instances of the modules on the inventory, in one run: a behaviour *)
(* belongs to one scenario, and what is not of its scenario rests.          *)
EXTENDS InventoryConnection, InventoryHierarchy, InventoryDevices, ImportRules, InventoryCases, RuleCases, TLC

CONSTANTS a1, a2, j1, g1, g2

VARIABLE scenario

\* Each key has one home region.
HomeOnly == {<<e1, g1>>, <<e2, g2>>}

\* A Classic Central connection, in a region that accepts every key.
Central == INSTANCE InventoryConnection WITH Identities <- {e1}, Works <- {e1} \X Grants

\* A connection of Meraki or Auvik, and processes that die.
Other == INSTANCE InventoryConnection WITH MaxRotations <- 0, Losses <- TRUE

connectionVars == vars
NoDevices ==
  /\ devices = << >> /\ models = << >> /\ families = << >> /\ support = << >> /\ history = {}
  /\ edit = << >> /\ shown = None /\ repairs = << >> /\ clock = 0
InitAny ==
  /\ Init /\ RulesInit /\ HierarchyInit
  /\ \/ scenario = "devices" /\ DevicesInit
     \/ scenario \in {"central", "other", "rules", "memory", "hierarchy"} /\ NoDevices
  /\ classic = (scenario = "central")

\* Rules and remembered mappings have nothing in common but the engineers.
AreRemembering == \A e \in Engineers : desk'[e].at \in {"idle", "recalled"}
AreMakingRules == \A e \in Engineers : desk'[e].at # "recalled"

NextAny ==
  /\ UNCHANGED scenario
  /\ \/ /\ scenario = "central" /\ Central!Next
        /\ UNCHANGED <<rulesVars, hierarchyVars, deviceVars>>
     \/ /\ scenario = "other" /\ Other!Next /\ ~crossed'
        /\ UNCHANGED <<rulesVars, hierarchyVars, deviceVars>>
     \/ /\ scenario = "rules" /\ RulesNext /\ AreMakingRules
        /\ UNCHANGED <<connectionVars, hierarchyVars, deviceVars>>
     \/ /\ scenario = "memory" /\ RulesNext /\ AreRemembering /\ UNCHANGED rows
        /\ UNCHANGED <<connectionVars, hierarchyVars, deviceVars>>
     \/ /\ scenario = "hierarchy" /\ HierarchyNext
        /\ UNCHANGED <<connectionVars, rulesVars, deviceVars>>
     \/ /\ scenario = "devices" /\ DevicesNext
        /\ UNCHANGED <<connectionVars, rulesVars, hierarchyVars>>

varsAny == <<scenario, connectionVars, rulesVars, hierarchyVars, deviceVars>>
SpecAny == InitAny /\ [][NextAny]_varsAny

\* Two administrators of a connection of Meraki or Auvik.
SpecOfCfg == (InitAny /\ scenario = "other")
  /\ [][Next /\ UNCHANGED <<scenario, rulesVars, hierarchyVars, deviceVars>>]_varsAny
=============================================================================
