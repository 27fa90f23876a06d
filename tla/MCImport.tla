------------------------------ MODULE MCImport ------------------------------
(* Small instances of the importer's modules, in one run: a behaviour       *)
(* belongs to one scenario, and what is not of its scenario rests.          *)
EXTENDS InventorySync, ImportPublication, ImportCases, ImportEvaluation, EvaluationCases, TLC

CONSTANTS h1, h2, h3, r1, r2, r3

HandlerSymmetry == Permutations(Handlers)
-----------------------------------------------------------------------------
VARIABLE scenario

InitAny ==
  /\ scenario \in {"sync", "publication", "evaluation"} /\ Init /\ losses
  /\ PublicationInit /\ EvaluationInit
NextAny ==
  /\ UNCHANGED scenario
  /\ \/ scenario = "sync" /\ Next /\ UNCHANGED <<publicationVars, evaluationVars>>
     \/ scenario = "publication" /\ PublicationNext /\ UNCHANGED <<vars, evaluationVars>>
     \/ scenario = "evaluation" /\ EvaluationNext /\ UNCHANGED <<vars, publicationVars>>

varsAny == <<vars, publicationVars, evaluationVars, scenario>>
SpecAny == InitAny /\ [][NextAny]_varsAny
=============================================================================
