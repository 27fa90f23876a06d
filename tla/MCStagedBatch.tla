--------------------------- MODULE MCStagedBatch ---------------------------
(* Small instances of StagedBatch: a behaviour belongs to one scenario.      *)
(* Their symmetric values are disjoint, so one symmetry serves them all.    *)
EXTENDS StagedBatch, TLC

CONSTANTS w1, w2, w3, r1, r2, r3, r4, r5, r6, v1, v2, k1, k2, k3, q1, q2, q3

AllRows == {r1, r2, r3, r4, r5, r6}

\* r1 and r4 have an error, r3 a warning, and the others none.  The devices of r3
\* to r6 are in review, and r5 and r6 may repeat several rows.
Findings == [r \in AllRows |-> CASE r \in {r1, r4} -> "error" [] r = r3 -> "warning" [] OTHER -> "none"]
Devices == [r \in AllRows |-> CASE r \in {r3, r4} -> "suggested" [] r = r5 -> "ambiguous"
                              [] r = r6 -> "invalid" [] OTHER -> "settled"]
SettledRows == [r \in AllRows |-> "settled"]
WarningFirst == [r \in Rows |-> IF r = r1 THEN "warning" ELSE "none"]

Set(v) == [act |-> "SET", value |-> v]
Exclude == [act |-> "EXCLUDE", value |-> None]
Match == [act |-> "MATCH", value |-> None]
Verification == [act |-> "VERIFY", value |-> None]

FirstRow == {[rows |-> {r1}, status |-> "ANY"]}
RowSelections == [rows : (SUBSET {r4, r5}) \ {{}}, status : {"ANY"}]
QuerySelections == RowSelections \cup [rows : {{r4, r5}}, status : {"VALID", "NEEDS_REVIEW"}]

\* Rule books: none; or one that sets the value of r4, excludes it, or proposes
\* a device for it.
NoRule == [r \in AllRows |-> None]
RuleFor(d) == [r \in AllRows |-> IF r = r4 THEN d ELSE None]
NoRules == {NoRule}
AnyRules == {NoRule, RuleFor(Set(v2)), RuleFor(Exclude), RuleFor(Match)}

NoCorrections == {}
Edits == {Set(v1)}
EditOrExclude == {Set(v1), Exclude}
EditMatchOrExclude == {Set(v1), Match, Exclude}
EditExcludeOrVerify == {Set(v1), Exclude, Verification}
EditMatchOrVerify == {Set(v1), Exclude, Match, Verification}

Symmetry ==
  Permutations({w2, w3}) \cup Permutations({k1, k2}) \cup Permutations({q1, q2})
-----------------------------------------------------------------------------
VARIABLE scenario

FirstTwo == {r1, r2}
NextTwo == {r2, r3}
LastTwo == {r4, r5}
ThirdRow == {[rows |-> {r3}, status |-> "ANY"]}
FourthOnly == {r4}
SixthOnly == {r6}
FourthRow == {[rows |-> {r4}, status |-> "ANY"]}
SixthRow == {[rows |-> {r6}, status |-> "ANY"]}

\* Two publications and an engineer.
Publication == INSTANCE StagedBatch WITH
  Rows <- FirstTwo, Selections <- FirstRow, Corrections <- EditOrExclude,
  Workers <- {w1}, Keys <- {k1, k2}, Requests <- {q1, q2}, Losses <- FALSE

\* Two engineers and a publication, with crashes.
Reviewed == INSTANCE StagedBatch WITH
  Rows <- NextTwo, Selections <- ThirdRow, Corrections <- EditExcludeOrVerify,
  Workers <- {w2, w3}, Keys <- {k3}, Requests <- {q3}, Losses <- TRUE

\* One engineer after another, with rules that change.
Serial == INSTANCE StagedBatch WITH
  Rows <- LastTwo, Values <- {v1, v2}, RuleSets <- AnyRules,
  Selections <- QuerySelections, Corrections <- EditMatchOrVerify, Workers <- {w1},
  Keys <- {}, Requests <- {}, MaxRevision <- 2, Losses <- FALSE

\* A publication, an engineer and the rules of the sync, which change.
Ruled == INSTANCE StagedBatch WITH
  Rows <- FourthOnly, Values <- {v1, v2}, RuleSets <- AnyRules,
  Selections <- FourthRow, Corrections <- EditMatchOrExclude, Workers <- {w1},
  Keys <- {k3}, Requests <- {q3}, MaxRevision <- 1, Losses <- FALSE

\* One engineer and a device that no decision settles.
Invalid == INSTANCE StagedBatch WITH
  Rows <- SixthOnly, Selections <- SixthRow, Corrections <- EditMatchOrVerify,
  Workers <- {w1}, Keys <- {k3}, Requests <- {q3}, MaxRevision <- 2, Losses <- FALSE

InitAny ==
  \/ scenario = "publication" /\ Publication!Init
  \/ scenario = "review" /\ Reviewed!Init
  \/ scenario = "serial" /\ Serial!Init
  \/ scenario = "rules" /\ Ruled!Init
  \/ scenario = "invalid" /\ Invalid!Init

NextAny ==
  /\ UNCHANGED scenario
  /\ \/ scenario = "publication" /\ Publication!Next
     \/ scenario = "review" /\ Reviewed!Next
     \/ scenario = "serial" /\ Serial!Next
     \/ scenario = "rules" /\ Ruled!Next
     \/ scenario = "invalid" /\ Invalid!Next

varsAny == <<vars, scenario>>
SpecAny == InitAny /\ [][NextAny]_varsAny

\* The constants of the configuration.
SpecOfCfg == (Init /\ scenario = "cfg") /\ [][Next /\ UNCHANGED scenario]_varsAny
=============================================================================
