----------------------- MODULE FirmwareCatalogProofs -----------------------
(* Proofs about FirmwareCatalog, for any number of releases, trains and     *)
(* editors; and that versions which can be compared are ordered.            *)
EXTENDS FirmwareCatalog, FiniteSetTheorems, WellFoundedInduction, TLAPS

-----------------------------------------------------------------------------
(* Versions.                                                                *)

\* A set of numbers has a least one.
LEMMA LeastExists ==
  ASSUME NEW S \in SUBSET Nat, S # {}
  PROVE  Least(S) \in S /\ \A m \in S : Least(S) <= m
<1> DEFINE R == OpToRel(<, Nat)
<1>1. IsWellFoundedOn(R, Nat)
  BY NatLessThanWellFounded
<1>2. \A x, y \in Nat : <<x, y>> \in R <=> x < y
  BY DEF OpToRel
<1> HIDE DEF R
<1>3. \E n \in S : \A m \in S : ~(<<m, n>> \in R)
  BY <1>1, WFMin
<1>4. PICK n \in S : \A m \in S : ~(<<m, n>> \in R)
  BY <1>3
<1>5. \A m \in S : n <= m
  <2> TAKE m \in S
  <2>1. m \in Nat /\ n \in Nat /\ ~(m < n)
    BY <1>2, <1>4
  <2> QED
    BY <2>1
<1> QED
  BY <1>5 DEF Least

\* left comes before right: they differ first where left is less.
Before(left, right) ==
  \E i \in Nat \ {0} : Part(left, i) < Part(right, i) /\ \A j \in 1 .. i - 1 : Part(left, j) = Part(right, j)

LEMMA PartType == ASSUME NEW s \in Seq(Nat), NEW i \in Nat \ {0} PROVE Part(s, i) \in Nat
BY DEF Part

LEMMA ComparedNumbers ==
  ASSUME NEW left \in Seq(Nat), NEW right \in Seq(Nat)
  PROVE  CompareNumbers(left, right) = "GREATER" <=> Before(right, left)
<1> DEFINE D == {i \in 1 .. (Len(left) + Len(right)) : Part(left, i) # Part(right, i)}
<1>1. \A i \in Nat \ {0} : Part(left, i) # Part(right, i) <=> i \in D
  BY DEF Part
<1>2. CompareNumbers(left, right) = IF D = {} THEN "EQUAL"
         ELSE IF Part(left, Least(D)) < Part(right, Least(D)) THEN "LESS" ELSE "GREATER"
  BY DEF CompareNumbers
<1>3. D \in SUBSET Nat /\ \A i \in D : i \in Nat \ {0}
  BY DEF Part
<1> HIDE DEF D
<1>4. CASE D = {}
  BY <1>1, <1>2, <1>4, PartType DEF Before
<1>5. CASE D # {}
  <2> DEFINE n == Least(D)
  <2>1. n \in D /\ \A m \in D : n <= m
    BY <1>3, <1>5, LeastExists
  <2> HIDE DEF n
  <2>a. n \in Nat \ {0} /\ Part(left, n) # Part(right, n)
    BY <1>1, <1>3, <2>1
  <2>b. ASSUME NEW j \in 1 .. n - 1 PROVE Part(left, j) = Part(right, j)
    <3>1. j \in Nat \ {0} /\ ~(n <= j)
      BY <2>a
    <3> QED
      BY <1>1, <2>1, <3>1
  <2>2. n \in Nat \ {0} /\ Part(left, n) # Part(right, n) /\ \A j \in 1 .. n - 1 : Part(left, j) = Part(right, j)
    BY <2>a, <2>b
  <2>3. Part(left, n) \in Nat /\ Part(right, n) \in Nat
    BY <2>2, PartType
  <2>4. CompareNumbers(left, right) = "GREATER" <=> Part(right, n) < Part(left, n)
    BY <1>2, <1>5, <2>2, <2>3 DEF n
  <2>5. ASSUME Part(right, n) < Part(left, n) PROVE Before(right, left)
    BY <2>2, <2>5 DEF Before
  <2>6. ASSUME Before(right, left) PROVE Part(right, n) < Part(left, n)
    <3>1. PICK i \in Nat \ {0} : Part(right, i) < Part(left, i) /\ \A j \in 1 .. i - 1 : Part(right, j) = Part(left, j)
      BY <2>6 DEF Before
    <3>2. Part(right, i) \in Nat /\ Part(left, i) \in Nat
      BY PartType
    <3>3. i = n
      BY <1>1, <2>1, <2>2, <3>1, <3>2
    <3> QED
      BY <3>1, <3>3
  <2> QED
    BY <2>4, <2>5, <2>6
<1> QED
  BY <1>4, <1>5

LEMMA BeforeTransitive ==
  ASSUME NEW a \in Seq(Nat), NEW b \in Seq(Nat), NEW c \in Seq(Nat), Before(a, b), Before(b, c)
  PROVE  Before(a, c)
<1>1. PICK i \in Nat \ {0} : Part(a, i) < Part(b, i) /\ \A n \in 1 .. i - 1 : Part(a, n) = Part(b, n)
  BY DEF Before
<1>2. PICK j \in Nat \ {0} : Part(b, j) < Part(c, j) /\ \A n \in 1 .. j - 1 : Part(b, n) = Part(c, n)
  BY DEF Before
<1>3. \A n \in Nat \ {0} : Part(a, n) \in Nat /\ Part(b, n) \in Nat /\ Part(c, n) \in Nat
  BY PartType
<1> DEFINE k == IF i <= j THEN i ELSE j
<1>4. k \in Nat \ {0} /\ k <= i /\ k <= j
  OBVIOUS
<1>5. \A n \in 1 .. k - 1 : Part(a, n) = Part(c, n)
  BY <1>1, <1>2, <1>4
<1>6. Part(a, k) < Part(c, k)
  <2>1. CASE i < j
    BY <1>1, <1>2, <1>3, <2>1
  <2>2. CASE i = j
    BY <1>1, <1>2, <1>3, <2>2
  <2>3. CASE j < i
    BY <1>1, <1>2, <1>3, <2>3
  <2> QED
    BY <2>1, <2>2, <2>3
<1> QED
  BY <1>4, <1>5, <1>6 DEF Before

\* Of versions with numbers, none is later than itself, and what is later than a
\* later one is later: the comparison never goes round in a circle.
LEMMA VersionsAreOrdered ==
  ASSUME NEW a, NEW b, NEW c,
         a.parts \in Seq(Nat), b.parts \in Seq(Nat), c.parts \in Seq(Nat)
  PROVE  /\ CompareVersions(a, a) # "GREATER"
         /\ CompareVersions(a, b) = "GREATER" /\ CompareVersions(b, c) = "GREATER"
              => CompareVersions(a, c) = "GREATER"
<1>1. CompareVersions(a, a) # "GREATER"
  BY DEF CompareVersions
<1>2. ASSUME CompareVersions(a, b) = "GREATER", CompareVersions(b, c) = "GREATER"
      PROVE  CompareVersions(a, c) = "GREATER"
  <2>1. \A x, y : CompareVersions(x, y) = "GREATER" <=>
          /\ x # y /\ CompareNumbers(x.parts, y.parts) = "GREATER"
          /\ x.grammar = y.grammar /\ x.grammar # "opaque"
          /\ x.grammar = "cisco" => x.letters = y.letters
    BY DEF CompareVersions
  <2>2. Before(b.parts, a.parts) /\ Before(c.parts, b.parts)
    BY <1>2, <2>1, ComparedNumbers
  <2>3. CompareNumbers(a.parts, c.parts) = "GREATER"
    BY <2>2, BeforeTransitive, ComparedNumbers
  <2>4. CompareNumbers(a.parts, a.parts) # "GREATER"
    BY DEF CompareNumbers
  <2>5. a # c
    BY <2>3, <2>4
  <2>6. a.grammar = c.grammar /\ a.grammar # "opaque" /\ (a.grammar = "cisco" => a.letters = c.letters)
    <3>1. a.grammar = b.grammar /\ a.grammar # "opaque" /\ (a.grammar = "cisco" => a.letters = b.letters)
      BY <1>2 DEF CompareVersions
    <3>2. b.grammar = c.grammar /\ (b.grammar = "cisco" => b.letters = c.letters)
      BY <1>2 DEF CompareVersions
    <3> QED
      BY <3>1, <3>2
  <2> QED
    BY <2>1, <2>3, <2>5, <2>6
<1> QED
  BY <1>1, <1>2

\* In a finite set that is ordered without circles something is on top.
LEMMA TopExists ==
  ASSUME NEW S, IsFiniteSet(S), S # {}, NEW R,
         \A x \in S : <<x, x>> \notin R,
         \A x, y, z \in S : <<x, y>> \in R /\ <<y, z>> \in R => <<x, z>> \in R
  PROVE  \E x \in S : \A y \in S : <<x, y>> \notin R
<1> DEFINE Beyond(x) == {y \in S : <<x, y>> \in R}
           Sizes == {Cardinality(Beyond(x)) : x \in S}
<1>1. \A x \in S : IsFiniteSet(Beyond(x)) /\ Cardinality(Beyond(x)) \in Nat
  <2> TAKE x \in S
  <2>1. Beyond(x) \subseteq S
    OBVIOUS
  <2> HIDE DEF Beyond
  <2> QED
    BY <2>1, FS_Subset, FS_CardinalityType
<1> HIDE DEF Beyond
<1>2. Sizes \in SUBSET Nat /\ Sizes # {}
  <2>1. PICK x \in S : TRUE
    OBVIOUS
  <2>2. Cardinality(Beyond(x)) \in Sizes
    OBVIOUS
  <2> QED
    BY <1>1, <2>2
<1> HIDE DEF Sizes
<1>3. Least(Sizes) \in Sizes /\ \A m \in Sizes : Least(Sizes) <= m
  BY <1>2, LeastExists
<1>4. PICK x \in S : Cardinality(Beyond(x)) = Least(Sizes)
  BY <1>3 DEF Sizes
<1>5. ASSUME NEW y \in S, <<x, y>> \in R PROVE FALSE
  <2>1. Beyond(y) \subseteq Beyond(x) /\ y \in Beyond(x) /\ y \notin Beyond(y)
    BY <1>5 DEF Beyond
  <2>2. Cardinality(Beyond(y)) \in Sizes
    BY DEF Sizes
  <2>3. Cardinality(Beyond(y)) < Cardinality(Beyond(x))
    BY <1>1, <2>1, FS_Subset
  <2> QED
    BY <1>1, <1>3, <1>4, <2>2, <2>3
<1> QED
  BY <1>5

-----------------------------------------------------------------------------
(* What the catalog proposes.                                               *)

\* A candidate whose release, if it has one, has a version with numbers.
IsCandidate(t) ==
  /\ t.id \in Nat
  /\ t.preferred # None => t.preferred.logical.parts \in Seq(Nat)

\* Of accepted trains that can be compared there is a newest, and it is one of
\* them.
LEMMA NewestIsAccepted ==
  ASSUME NEW accepted, IsFiniteSet(accepted),
         \A t \in accepted : IsCandidate(t) /\ IsUsable(t.preferred)
  PROVE  NewestAccepted(accepted).train = None \/ NewestAccepted(accepted).train \in accepted
<1> DEFINE Later(t, u) == CompareVersions(t.preferred.logical, u.preferred.logical) = "GREATER"
           newest == {t \in accepted : \A u \in accepted : ~Later(u, t)}
           first == CHOOSE t \in newest : \A u \in newest : t.id <= u.id
           R == {p \in accepted \X accepted : Later(p[2], p[1])}
<1>1. \/ NewestAccepted(accepted) = NoTrain("NO_COMPATIBLE_TRAIN")
      \/ NewestAccepted(accepted) = NoTrain("REVIEW_REQUIRED")
      \/ accepted # {} /\ NewestAccepted(accepted) = ThatTrain(first)
  BY DEF NewestAccepted
<1>2. \A t \in accepted : t.preferred.logical.parts \in Seq(Nat) /\ t.id \in Nat
  BY DEF IsCandidate, IsUsable
<1>3. /\ \A x \in accepted : ~Later(x, x)
      /\ \A x, y, z \in accepted : Later(y, x) /\ Later(z, y) => Later(z, x)
  BY <1>2, VersionsAreOrdered
<1> HIDE DEF Later
<1>4. \A x, y \in accepted : <<x, y>> \in R <=> Later(y, x)
  OBVIOUS
<1> HIDE DEF R
<1>5. ASSUME accepted # {} PROVE newest # {}
  <2>1. \E x \in accepted : \A y \in accepted : <<x, y>> \notin R
    BY <1>3, <1>4, <1>5, TopExists
  <2> QED
    BY <1>4, <2>1
<1>6. ASSUME accepted # {} PROVE first \in accepted
  <2> DEFINE ids == {t.id : t \in newest}
  <2>1. newest \subseteq accepted
    OBVIOUS
  <2> HIDE DEF newest
  <2>2. ids \in SUBSET Nat /\ ids # {}
    BY <1>2, <1>5, <1>6, <2>1
  <2>3. Least(ids) \in ids /\ \A m \in ids : Least(ids) <= m
    BY <2>2, LeastExists
  <2>4. \E t \in newest : \A u \in newest : t.id <= u.id
    BY <2>3
  <2> QED
    BY <2>1, <2>4
<1> HIDE DEF first
<1> QED
  BY <1>1, <1>6 DEF NoTrain, ThatTrain

\* Whatever the candidates, a train that is proposed is one of them, and its
\* release may be used.
LEMMA ProposedIsUsable ==
  ASSUME NEW candidates, IsFiniteSet(candidates), NEW current,
         \A t \in candidates : IsCandidate(t)
  PROVE  LET answer == TrainForDevice(candidates, current)
         IN answer.train # None => answer.train \in candidates /\ IsUsable(answer.train.preferred)
<1> DEFINE kept == {t \in candidates : t.id = current /\ IsUsable(t.preferred) /\ t.compatibility = "COMPATIBLE"}
           preferred == {t \in candidates : t.state = "PREFERRED"}
           accepted == {u \in candidates : u.state = "ACCEPTED" /\ u.compatibility = "COMPATIBLE"
                                           /\ IsUsable(u.preferred)}
           Good(answer) == answer.train # None => answer.train \in candidates /\ IsUsable(answer.train.preferred)
<1>1. \A S : S # {} => Only(S) \in S
  BY DEF Only
<1>2. Good(NewestAccepted(accepted))
  <2>1. accepted \in SUBSET candidates /\ \A t \in accepted : IsCandidate(t) /\ IsUsable(t.preferred)
    OBVIOUS
  <2> HIDE DEF accepted
  <2>2. IsFiniteSet(accepted)
    BY <2>1, FS_Subset
  <2> QED
    BY <2>1, <2>2, NewestIsAccepted
<1>3. \A status : Good(NoTrain(status))
  BY DEF NoTrain
<1>4. Good(TrainForModel(candidates))
  <2>1. CASE preferred = {}
    <3>1. TrainForModel(candidates) = NoTrain("REVIEW_REQUIRED")
      BY <2>1 DEF TrainForModel
    <3> QED
      BY <1>3, <3>1
  <2>2. CASE preferred # {}
    <3> DEFINE p == Only(preferred)
    <3>1. p \in candidates
      BY <1>1, <2>2
    <3>2. \/ TrainForModel(candidates) = NoTrain("REVIEW_REQUIRED")
          \/ TrainForModel(candidates) = ThatTrain(p) /\ IsUsable(p.preferred)
          \/ TrainForModel(candidates) = NewestAccepted(accepted)
      BY <2>2 DEF TrainForModel
    <3> HIDE DEF p
    <3>3. IsUsable(p.preferred) => Good(ThatTrain(p))
      BY <3>1 DEF ThatTrain
    <3> QED
      BY <1>2, <1>3, <3>2, <3>3
  <2> QED
    BY <2>1, <2>2
<1>5. CASE kept # {}
  <2>1. TrainForDevice(candidates, current) = ThatTrain(Only(kept))
    BY <1>5 DEF TrainForDevice
  <2>2. Only(kept) \in candidates /\ IsUsable(Only(kept).preferred)
    BY <1>1, <1>5
  <2> QED
    BY <2>1, <2>2 DEF ThatTrain
<1>6. CASE kept = {}
  <2>1. TrainForDevice(candidates, current) = TrainForModel(candidates)
    BY <1>6 DEF TrainForDevice
  <2> QED
    BY <1>4, <2>1
<1> QED
  BY <1>5, <1>6

-----------------------------------------------------------------------------
(* The catalog.                                                             *)

\* A release is where a train has its defaults, or both were written at one time.
IsAt(r, id, t, train) == r # None /\ (HomeOf(r) = Home(t, train) \/ <<t, id>> \in crossed)

\* What an open statement on a train will commit: its trigger has looked.
TrainsWillBeRight ==
  \A e \in Editors : OpenTrain(e) =>
    \A id \in Defaults(edit[e].to) : IsAt(releases[id], id, edit[e].train, edit[e].to)

\* What an open statement on a release will commit.
ReleasesWillBeRight ==
  \A e \in Editors : OpenRelease(e) =>
    \A t \in Live(trains) : edit[e].id \in Defaults(trains[t]) => IsAt(edit[e].to, edit[e].id, t, trains[t])

\* Of two open statements the second one has seen the first.
CrossingsAreKnown ==
  \A e, o \in Editors :
    OpenTrain(e) /\ OpenRelease(o) /\ edit[o].id \in Defaults(edit[e].to)
      => <<edit[e].train, edit[o].id>> \in crossed

Inv ==
  /\ CatalogTypeOK /\ OnePreferredTrain /\ DefaultsStayAtHome
  /\ TrainsWillBeRight /\ ReleasesWillBeRight /\ CrossingsAreKnown

LEMMA AtHome == DefaultsStayAtHome <=> \A t \in Live(trains) : \A id \in Defaults(trains[t]) : IsAt(releases[id], id, t, trains[t])
BY DEF DefaultsStayAtHome, IsAt

LEMMA AtHomeNext ==
  DefaultsStayAtHome' <=> \A t \in Live(trains') : \A id \in Defaults(trains'[t]) : IsAt(releases[id], id, t, trains[t])'
BY DEF DefaultsStayAtHome, IsAt

LEMMA InitInv == CatalogInit => Inv
<1> SUFFICES ASSUME CatalogInit PROVE Inv
  OBVIOUS
<1>1. releases = FirstReleases /\ trains = FirstTrains /\ \A e \in Editors : edit[e] = Idle
  BY DEF CatalogInit
<1>2. CatalogTypeOK
  BY <1>1, CatalogAssumption DEF CatalogInit, CatalogTypeOK
<1>3. OnePreferredTrain
  BY <1>1, CatalogAssumption DEF OnePreferredTrain, PreferredPeers, Live
<1>4. DefaultsStayAtHome
  BY <1>1, CatalogAssumption DEF DefaultsStayAtHome, Live
<1>5. \A e \in Editors : ~OpenTrain(e) /\ ~OpenRelease(e)
  BY <1>1 DEF OpenTrain, OpenRelease, Idle
<1> QED
  BY <1>2, <1>3, <1>4, <1>5 DEF Inv, TrainsWillBeRight, ReleasesWillBeRight, CrossingsAreKnown

\* What a patch makes of a release.
LEMMA PatchTypes ==
  ASSUME NEW s \in Statuses
  PROVE  /\ Patches(s).state \in {"VERIFIED", "OBSERVED", "BLOCKED", "WITHDRAWN"}
         /\ Patches(s).eligibility \in {"ALLOWED", "NOT_EVALUATED", "DISALLOWED"}
<1> DEFINE State == {"VERIFIED", "OBSERVED", "BLOCKED", "WITHDRAWN"}
           Eligibility == {"ALLOWED", "NOT_EVALUATED", "DISALLOWED"}
           m == IF s \in Decisions \ {"BLOCKED"} THEN SemanticsOf(s) ELSE LegacySemantics(s)
<1>1. m \in [state : State, eligibility : Eligibility]
  BY CatalogAssumption DEF Decisions, SemanticsOf, LegacySemantics
<1>2. Patches(s) = [m EXCEPT !.eligibility = IF m.state \in {"BLOCKED", "WITHDRAWN"} THEN "DISALLOWED" ELSE m.eligibility]
  BY DEF Patches
<1> HIDE DEF m
<1> QED
  BY <1>1, <1>2

\* A form gives a release another identity, train, decision or equivalence.
LEMMA ChangedRelease ==
  ASSUME NEW id, NEW old, IsRelease(id, old), NEW r \in Changed(old)
  PROVE  IsRelease(id, r)
<1>0. old \in Release /\ old.id = id /\ IdentityOf(old) \in Identities
  BY DEF IsRelease
<1>1. ASSUME NEW i \in Identities,
             r = [old EXCEPT !.vendor = i.vendor, !.platform = i.platform, !.version = i.version,
                             !.logical = i.logical, !.variant = i.variant, !.image = i.image]
      PROVE  IsRelease(id, r)
  <2>1. r \in Release
    BY <1>0, <1>1 DEF Release
  <2>2. r.id = id /\ IdentityOf(r) = IdentityOf(i)
    BY <1>0, <1>1 DEF IdentityOf, Release
  <2> QED
    BY <2>1, <2>2, CatalogAssumption DEF IsRelease
<1>2. ASSUME NEW t \in Trains \cup {None}, r = [old EXCEPT !.train = t] PROVE IsRelease(id, r)
  BY <1>0, <1>2 DEF IsRelease, IdentityOf, Release
<1>3. ASSUME NEW s \in Statuses,
             r = [old EXCEPT !.state = Patches(s).state, !.eligibility = Patches(s).eligibility]
      PROVE  IsRelease(id, r)
  BY <1>0, <1>3, PatchTypes DEF IsRelease, IdentityOf, Release
<1>4. ASSUME NEW q \in Equivalences, r = [old EXCEPT !.equivalence = q] PROVE IsRelease(id, r)
  BY <1>0, <1>4 DEF IsRelease, IdentityOf, Release
<1>5. ASSUME r = [old EXCEPT !.active = ~old.active] PROVE IsRelease(id, r)
  BY <1>0, <1>5 DEF IsRelease, IdentityOf, Release
<1>6. CASE \E i \in Identities :
             r = [old EXCEPT !.vendor = i.vendor, !.platform = i.platform, !.version = i.version,
                             !.logical = i.logical, !.variant = i.variant, !.image = i.image]
  BY <1>1, <1>6
<1>7. CASE \E s \in Statuses : r = [old EXCEPT !.state = Patches(s).state, !.eligibility = Patches(s).eligibility]
  BY <1>3, <1>7
<1> QED
  BY <1>2, <1>4, <1>5, <1>6, <1>7, Zenon DEF Changed

LEMMA ChangedTrainIsTrain ==
  ASSUME NEW old, IsTrain(old), NEW train \in ChangedTrain(old)
  PROVE  IsTrain(train)
<1> DEFINE a == old.vendor   b == old.platform   c == old.name   d == old.state
           e == old.preferred   f == old.minimum   g == old.active
<1>0. /\ old = [vendor |-> a, platform |-> b, name |-> c, state |-> d, preferred |-> e, minimum |-> f, active |-> g]
      /\ d \in {"PREFERRED", "ACCEPTED", "DEPRECATED"} /\ {e, f} \ {None} \subseteq Ids
  BY DEF IsTrain, Defaults
<1> HIDE DEF a, b, c, d, e, f, g
<1>1. ASSUME NEW s \in {"PREFERRED", "ACCEPTED", "DEPRECATED"}, train = [old EXCEPT !.state = s] PROVE IsTrain(train)
  BY <1>0, <1>1 DEF IsTrain, Defaults
<1>2. ASSUME NEW p \in Ids \cup {None}, NEW m \in Ids \cup {None}, train = [old EXCEPT !.preferred = p, !.minimum = m] PROVE IsTrain(train)
  BY <1>0, <1>2 DEF IsTrain, Defaults
<1>3. ASSUME NEW n, train = [old EXCEPT !.vendor = n.vendor, !.platform = n.platform, !.name = n.name]
      PROVE  IsTrain(train)
  BY <1>0, <1>3 DEF IsTrain, Defaults
<1>4. ASSUME NEW x, train = [old EXCEPT !.active = x] PROVE IsTrain(train)
  BY <1>0, <1>4 DEF IsTrain, Defaults
<1>5. CASE \E s \in {"PREFERRED", "ACCEPTED", "DEPRECATED"} : train = [old EXCEPT !.state = s]
  BY <1>1, <1>5
<1>6. CASE \E x \in (Ids \cup {None}) \X (Ids \cup {None}) : train = [old EXCEPT !.preferred = x[1], !.minimum = x[2]]
  BY <1>2, <1>6
<1>7. CASE \E n \in TrainNames : train = [old EXCEPT !.vendor = n.vendor, !.platform = n.platform, !.name = n.name]
  BY <1>3, <1>7
<1> QED
  BY <1>4, <1>5, <1>6, <1>7, Zenon DEF ChangedTrain

\* Who is where once an editor goes on.
LEMMA OthersStay ==
  ASSUME CatalogTypeOK, NEW e \in Editors, NEW w, EditGoes(e, w)
  PROVE  /\ edit' = [o \in Editors |-> IF o = e THEN w ELSE edit[o]]
         /\ \A o \in Editors \ {e} : (OpenTrain(o)' <=> OpenTrain(o)) /\ (OpenRelease(o)' <=> OpenRelease(o))
         /\ OpenTrain(e)' <=> w.kind = "train" /\ w.step = "open"
         /\ OpenRelease(e)' <=> w.kind = "release" /\ w.step = "open"
<1>1. edit' = [o \in Editors |-> IF o = e THEN w ELSE edit[o]]
  BY DEF EditGoes, CatalogTypeOK
<1> QED
  BY <1>1 DEF OpenTrain, OpenRelease

\* What an editor can be in the middle of.
LEMMA Busy ==
  ASSUME CatalogTypeOK, NEW e \in Editors
  PROVE  /\ edit[e].kind = "train" => IsTrainEdit(edit[e])
         /\ edit[e].kind = "release" => IsReleaseEdit(edit[e])
         /\ edit[e].step \in {"find", "demote"} => IsTrainEdit(edit[e])
<1>1. Idle.kind = "idle" /\ Idle.step = "idle"
  BY DEF Idle
<1>2. edit[e] = Idle \/ IsTrainEdit(edit[e]) \/ IsReleaseEdit(edit[e])
  BY DEF CatalogTypeOK, IsEdit
<1>3. /\ IsTrainEdit(edit[e]) => edit[e].kind = "train"
      /\ IsReleaseEdit(edit[e]) => edit[e].kind = "release" /\ edit[e].step \in {"write", "open"}
  BY DEF IsTrainEdit, IsReleaseEdit
<1> QED
  BY <1>1, <1>2, <1>3

\* Nothing of the catalog is written and no statement opens, but an editor goes on.
LEMMA EditStep ==
  ASSUME Inv, NEW e \in Editors, NEW w, w = Idle \/ IsEdit(w), w.step # "open", EditGoes(e, w),
         UNCHANGED <<releases, trains, crossed>>
  PROVE  Inv'
<1>1. /\ edit' = [o \in Editors |-> IF o = e THEN w ELSE edit[o]]
      /\ \A o \in Editors : OpenTrain(o)' => o # e /\ OpenTrain(o)
      /\ \A o \in Editors : OpenRelease(o)' => o # e /\ OpenRelease(o)
  BY OthersStay DEF Inv
<1>2. CatalogTypeOK'
  BY <1>1 DEF Inv, CatalogTypeOK, Live
<1>3. OnePreferredTrain' /\ DefaultsStayAtHome'
  BY DEF Inv, OnePreferredTrain, PreferredPeers, DefaultsStayAtHome, Live
<1>4. TrainsWillBeRight' /\ ReleasesWillBeRight'
  BY <1>1 DEF Inv, TrainsWillBeRight, ReleasesWillBeRight, IsAt, Live
<1>5. CrossingsAreKnown'
  BY <1>1 DEF Inv, CrossingsAreKnown
<1> QED
  BY <1>2, <1>3, <1>4, <1>5 DEF Inv

\* A release is written, or removed, and is right for the trains that name it, the
\* committed and the open ones.
LEMMA ReleaseStep ==
  ASSUME Inv, NEW e \in Editors, EditGoes(e, Idle), NEW id \in Ids, NEW r, r # None => IsRelease(id, r),
         releases' = [releases EXCEPT ![id] = r], UNCHANGED <<trains, crossed>>,
         \A t \in Live(trains) : id \in Defaults(trains[t]) => IsAt(r, id, t, trains[t]),
         \A o \in Editors : OpenTrain(o) /\ id \in Defaults(edit[o].to) => IsAt(r, id, edit[o].train, edit[o].to)
  PROVE  Inv'
<1>1. /\ edit' = [o \in Editors |-> IF o = e THEN Idle ELSE edit[o]]
      /\ \A o \in Editors : OpenTrain(o)' => o # e /\ OpenTrain(o)
      /\ \A o \in Editors : OpenRelease(o)' => o # e /\ OpenRelease(o)
  BY OthersStay DEF Inv, Idle
<1>2. releases' = [j \in Ids |-> IF j = id THEN r ELSE releases[j]]
  BY DEF Inv, CatalogTypeOK
<1>3. CatalogTypeOK'
  BY <1>1, <1>2 DEF Inv, CatalogTypeOK, Live
<1>4. OnePreferredTrain'
  BY DEF Inv, OnePreferredTrain, PreferredPeers, Live
<1>5. DefaultsStayAtHome'
  <2> SUFFICES ASSUME NEW t \in Live(trains), NEW d \in Defaults(trains[t])
               PROVE  IsAt(releases'[d], d, t, trains[t])
    BY AtHomeNext DEF Live, IsAt
  <2>1. d \in Ids /\ IsAt(releases[d], d, t, trains[t])
    BY AtHome DEF Inv, CatalogTypeOK, IsTrain
  <2> QED
    BY <1>2, <2>1
<1>6. TrainsWillBeRight'
  <2> SUFFICES ASSUME NEW o \in Editors, OpenTrain(o), edit'[o] = edit[o], NEW d \in Defaults(edit[o].to)
               PROVE  IsAt(releases'[d], d, edit[o].train, edit[o].to)
    BY <1>1 DEF TrainsWillBeRight, IsAt
  <2>1. IsTrainEdit(edit[o])
    BY Busy DEF Inv, OpenTrain
  <2>2. d \in Ids /\ IsAt(releases[d], d, edit[o].train, edit[o].to)
    BY <2>1 DEF Inv, TrainsWillBeRight, IsTrainEdit, IsTrain
  <2> QED
    BY <1>2, <2>2
<1>7. ReleasesWillBeRight'
  BY <1>1 DEF Inv, ReleasesWillBeRight, IsAt, Live
<1>8. CrossingsAreKnown'
  BY <1>1 DEF Inv, CrossingsAreKnown
<1> QED
  BY <1>3, <1>4, <1>5, <1>6, <1>7, <1>8 DEF Inv

\* An update of a release passes its trigger.
LEMMA ReleaseOpens ==
  ASSUME Inv, NEW e \in Editors, NEW w, EditGoes(e, w), IsReleaseEdit(w), w.step = "open", w.to # None,
         KeepsDefaults(w.id, w.to), UNCHANGED <<releases, trains>>,
         crossed' = crossed \cup {<<edit[o].train, w.id>> :
                                    o \in {o \in Editors : OpenTrain(o) /\ w.id \in Defaults(edit[o].to)}}
  PROVE  Inv'
<1>0. w.kind = "release" /\ w.id \in Ids /\ IsEdit(w)
  BY DEF IsReleaseEdit, IsEdit
<1>1. /\ edit' = [o \in Editors |-> IF o = e THEN w ELSE edit[o]]
      /\ \A o \in Editors : OpenTrain(o)' => o # e /\ OpenTrain(o)
      /\ \A o \in Editors : OpenRelease(o)' => o = e \/ OpenRelease(o)
  BY <1>0, OthersStay DEF Inv
<1>2. CatalogTypeOK'
  BY <1>0, <1>1 DEF Inv, CatalogTypeOK, Live
<1>3. OnePreferredTrain' /\ DefaultsStayAtHome'
  BY DEF Inv, OnePreferredTrain, PreferredPeers, DefaultsStayAtHome, Live
<1>4. TrainsWillBeRight'
  BY <1>1 DEF Inv, TrainsWillBeRight, IsAt
<1>5. ReleasesWillBeRight'
  BY <1>1 DEF Inv, ReleasesWillBeRight, IsAt, Live, KeepsDefaults
<1>6. CrossingsAreKnown'
  <2> SUFFICES ASSUME NEW x \in Editors, NEW o \in Editors, OpenTrain(x)', OpenRelease(o)',
                      edit'[o].id \in Defaults(edit'[x].to)
               PROVE  <<edit'[x].train, edit'[o].id>> \in crossed'
    BY DEF CrossingsAreKnown
  <2>1. x # e /\ OpenTrain(x) /\ edit'[x] = edit[x]
    BY <1>1
  <2>2. CASE o = e
    <3>1. edit'[o] = w
      BY <1>1, <2>2
    <3> QED
      BY <2>1, <3>1
  <2>3. CASE o # e
    <3>1. edit'[o] = edit[o] /\ OpenRelease(o)
      BY <1>1, <2>3
    <3> QED
      BY <2>1, <3>1 DEF Inv, CrossingsAreKnown
  <2> QED
    BY <2>2, <2>3
<1> QED
  BY <1>2, <1>3, <1>4, <1>5, <1>6 DEF Inv

\* A write of a train passes its trigger.
LEMMA TrainOpens ==
  ASSUME Inv, NEW e \in Editors, NEW w, EditGoes(e, w), IsTrainEdit(w), w.step = "open",
         DefaultsAtHome(w.train, w.to), UNCHANGED <<releases, trains>>,
         crossed' = crossed \cup {<<w.train, edit[o].id>> :
                                    o \in {o \in Editors : OpenRelease(o) /\ edit[o].id \in Defaults(w.to)}},
         ~OpenRelease(e)
  PROVE  Inv'
<1>0. w.kind = "train" /\ IsEdit(w)
  BY DEF IsTrainEdit, IsEdit
<1>1. /\ edit' = [o \in Editors |-> IF o = e THEN w ELSE edit[o]]
      /\ \A o \in Editors : OpenTrain(o)' => o = e \/ OpenTrain(o)
      /\ \A o \in Editors : OpenRelease(o)' => o # e /\ OpenRelease(o)
  BY <1>0, OthersStay DEF Inv
<1>2. CatalogTypeOK'
  BY <1>0, <1>1 DEF Inv, CatalogTypeOK, Live
<1>3. OnePreferredTrain' /\ DefaultsStayAtHome'
  BY DEF Inv, OnePreferredTrain, PreferredPeers, DefaultsStayAtHome, Live
<1>4. TrainsWillBeRight'
  BY <1>1 DEF Inv, TrainsWillBeRight, IsAt, DefaultsAtHome
<1>5. ReleasesWillBeRight'
  BY <1>1 DEF Inv, ReleasesWillBeRight, IsAt, Live
<1>6. CrossingsAreKnown'
  <2> SUFFICES ASSUME NEW x \in Editors, NEW o \in Editors, OpenTrain(x)', OpenRelease(o)',
                      edit'[o].id \in Defaults(edit'[x].to)
               PROVE  <<edit'[x].train, edit'[o].id>> \in crossed'
    BY DEF CrossingsAreKnown
  <2>1. o # e /\ OpenRelease(o) /\ edit'[o] = edit[o]
    BY <1>1
  <2>2. CASE x = e
    <3>1. edit'[x] = w
      BY <1>1, <2>2
    <3> QED
      BY <2>1, <3>1
  <2>3. CASE x # e
    <3>1. edit'[x] = edit[x] /\ OpenTrain(x)
      BY <1>1, <2>3
    <3> QED
      BY <2>1, <3>1 DEF Inv, CrossingsAreKnown
  <2> QED
    BY <2>2, <2>3
<1> QED
  BY <1>2, <1>3, <1>4, <1>5, <1>6 DEF Inv

\* An edit of a train that goes on still has what is to be written.
LEMMA TrainEditGoesOn ==
  ASSUME NEW w, IsTrainEdit(w), NEW peers, NEW step \in {"find", "demote", "write", "open"}
  PROVE  /\ IsTrainEdit([w EXCEPT !.peers = peers, !.step = step]) /\ IsTrainEdit([w EXCEPT !.step = step])
         /\ [w EXCEPT !.step = step].train = w.train /\ [w EXCEPT !.step = step].to = w.to
         /\ [w EXCEPT !.step = step].step = step /\ [w EXCEPT !.peers = peers, !.step = step].step = step
<1> DEFINE a == w.step   b == w.train   c == w.to   d == w.peers   f == w.new
<1>0. /\ w = [kind |-> "train", step |-> a, train |-> b, to |-> c, peers |-> d, new |-> f]
      /\ b \in Trains /\ IsTrain(c)
  BY DEF IsTrainEdit
<1> HIDE DEF a, b, c, d, f
<1> DEFINE mid == [w EXCEPT !.peers = peers]
<1>1. mid = [kind |-> "train", step |-> a, train |-> b, to |-> c, peers |-> peers, new |-> f]
  BY <1>0
<1>2. [w EXCEPT !.peers = peers, !.step = step] = [mid EXCEPT !.step = step]
  OBVIOUS
<1> HIDE DEF mid
<1>3. [mid EXCEPT !.step = step] = [kind |-> "train", step |-> step, train |-> b, to |-> c, peers |-> peers, new |-> f]
  BY <1>1
<1>4. [w EXCEPT !.step = step] = [kind |-> "train", step |-> step, train |-> b, to |-> c, peers |-> d, new |-> f]
  BY <1>0
<1> QED
  BY <1>0, <1>2, <1>3, <1>4 DEF IsTrainEdit

\* And so has one of a release.
LEMMA ReleaseEditOpens ==
  ASSUME NEW w, IsReleaseEdit(w), w.to # None
  PROVE  LET open == [w EXCEPT !.step = "open"]
         IN IsReleaseEdit(open) /\ open.step = "open" /\ open.id = w.id /\ open.to = w.to
<1> DEFINE a == w.step   b == w.id   c == w.to   f == w.new
<1>0. /\ w = [kind |-> "release", step |-> a, id |-> b, to |-> c, new |-> f]
      /\ b \in Ids /\ c # None /\ IsRelease(b, c)
  BY DEF IsReleaseEdit
<1> HIDE DEF a, b, c, f
<1>1. [w EXCEPT !.step = "open"] = [kind |-> "release", step |-> "open", id |-> b, to |-> c, new |-> f]
  BY <1>0
<1> QED
  BY <1>0, <1>1 DEF IsReleaseEdit

\* The defaults and the home of every train stay, and no train becomes a peer.
LEMMA DemoteKeeps ==
  ASSUME Inv, NEW e \in Editors, DemotePeers(e)
  PROVE  Inv'
<1> DEFINE w == edit[e]
           next == [w EXCEPT !.step = "write"]
<1>0. w.step = "demote" /\ EditGoes(e, next) /\ releases' = releases /\ crossed' = crossed
  BY DEF DemotePeers
<1>1. trains' = [t \in Trains |-> IF t \in w.peers /\ trains[t] # None
                                  THEN [trains[t] EXCEPT !.state = "ACCEPTED"] ELSE trains[t]]
  BY DEF DemotePeers
<1>2. IsTrainEdit(next)
  <2>1. IsTrainEdit(w)
    BY <1>0, Busy DEF Inv
  <2> QED
    BY <2>1, TrainEditGoesOn
<1>a. IsEdit(next) /\ next.step # "open" /\ next.kind = "train"
  BY <1>2, <1>0 DEF IsEdit, IsTrainEdit
<1> HIDE DEF next
<1>b. /\ edit' = [o \in Editors |-> IF o = e THEN next ELSE edit[o]]
      /\ \A o \in Editors : OpenTrain(o)' => o # e /\ OpenTrain(o)
      /\ \A o \in Editors : OpenRelease(o)' => o # e /\ OpenRelease(o)
  BY <1>0, <1>a, OthersStay DEF Inv
<1>3. ASSUME NEW t \in Trains, trains'[t] # None
      PROVE  /\ trains[t] # None /\ IsTrain(trains'[t])
             /\ trains'[t].state = "PREFERRED" => trains'[t] = trains[t]
             /\ Defaults(trains'[t]) = Defaults(trains[t]) /\ Home(t, trains'[t]) = Home(t, trains[t])
  <2>1. CASE trains'[t] = trains[t]
    BY <1>3, <2>1 DEF Inv, CatalogTypeOK, Live
  <2>2. CASE trains[t] # None /\ trains'[t] = [trains[t] EXCEPT !.state = "ACCEPTED"]
    <3>1. IsTrain(trains[t])
      BY <2>2 DEF Inv, CatalogTypeOK, Live
    <3> QED
      BY <2>2, <3>1 DEF IsTrain, Defaults, Home
  <2> QED
    BY <1>1, <2>1, <2>2
<1>c. \A t \in Live(trains') : t \in Live(trains) /\ t \in Trains
  BY <1>1, <1>3 DEF Live, Inv, CatalogTypeOK
<1>4. CatalogTypeOK'
  BY <1>0, <1>1, <1>a, <1>b, <1>3 DEF Inv, CatalogTypeOK, Live
<1>5. OnePreferredTrain'
  <2> SUFFICES ASSUME NEW t \in Live(trains'), trains'[t].state = "PREFERRED", trains'[t].active,
                      NEW o \in Live(trains') \ {t}, trains'[o].state = "PREFERRED", trains'[o].active,
                      trains'[o].vendor = trains'[t].vendor, trains'[o].platform = trains'[t].platform
               PROVE  FALSE
    BY DEF OnePreferredTrain, PreferredPeers
  <2>1. t \in Live(trains) /\ o \in Live(trains) /\ trains'[t] = trains[t] /\ trains'[o] = trains[o]
    BY <1>c, <1>3 DEF Live
  <2> QED
    BY <2>1 DEF Inv, OnePreferredTrain, PreferredPeers
<1>6. DefaultsStayAtHome'
  BY <1>0, <1>3, <1>c DEF Inv, DefaultsStayAtHome, Live
<1>7. TrainsWillBeRight'
  BY <1>0, <1>b DEF Inv, TrainsWillBeRight, IsAt
<1>8. ReleasesWillBeRight'
  <2> SUFFICES ASSUME NEW o \in Editors, OpenRelease(o), edit'[o] = edit[o], NEW t \in Live(trains'),
                      edit[o].id \in Defaults(trains'[t])
               PROVE  IsAt(edit[o].to, edit[o].id, t, trains'[t])
    BY <1>0, <1>b DEF ReleasesWillBeRight, IsAt
  <2>1. t \in Live(trains) /\ edit[o].id \in Defaults(trains[t]) /\ Home(t, trains'[t]) = Home(t, trains[t])
    BY <1>3, <1>c DEF Live
  <2>2. IsAt(edit[o].to, edit[o].id, t, trains[t])
    BY <2>1 DEF Inv, ReleasesWillBeRight
  <2> QED
    BY <2>1, <2>2 DEF IsAt
<1>9. CrossingsAreKnown'
  BY <1>0, <1>b DEF Inv, CrossingsAreKnown
<1> QED
  BY <1>4, <1>5, <1>6, <1>7, <1>8, <1>9 DEF Inv

LEMMA FindKeeps ==
  ASSUME Inv, NEW e \in Editors, FindPeers(e)
  PROVE  Inv'
<1>1. PICK peers : \E step \in {"demote", "write"} : EditGoes(e, [edit[e] EXCEPT !.peers = peers, !.step = step])
  BY DEF FindPeers
<1>2. IsTrainEdit(edit[e])
  BY Busy DEF FindPeers, Inv
<1>3. \A step \in {"demote", "write"} :
        LET w == [edit[e] EXCEPT !.peers = peers, !.step = step] IN IsEdit(w) /\ w.step # "open"
  BY <1>2, TrainEditGoesOn DEF IsEdit
<1> QED
  BY <1>1, <1>3, EditStep DEF FindPeers

\* An edit of a train begins.
LEMMA TrainBegins ==
  ASSUME Inv, NEW e \in Editors, NEW t \in Trains, NEW train, IsTrain(train), NEW promotes, NEW new,
         BeginTrain(e, t, train, promotes, new)
  PROVE  Inv'
<1> DEFINE w == [kind |-> "train", step |-> IF promotes THEN "find" ELSE "write",
                 train |-> t, to |-> train, peers |-> {}, new |-> new]
<1>1. IsEdit(w) /\ w.step # "open"
  BY DEF IsEdit, IsTrainEdit
<1>2. EditGoes(e, w) /\ UNCHANGED <<releases, trains, crossed>>
  BY DEF BeginTrain
<1> HIDE DEF w
<1> QED
  BY <1>1, <1>2, EditStep

\* An edit of a release begins.
LEMMA ReleaseBegins ==
  ASSUME Inv, NEW e \in Editors, NEW id \in Ids, NEW r, r # None => IsRelease(id, r), NEW new,
         BeginRelease(e, id, r, new)
  PROVE  Inv'
<1> DEFINE w == [kind |-> "release", step |-> "write", id |-> id, to |-> r, new |-> new]
<1>1. IsEdit(w) /\ w.step # "open"
  BY DEF IsEdit, IsReleaseEdit
<1>2. EditGoes(e, w) /\ UNCHANGED <<releases, trains, crossed>>
  BY DEF BeginRelease
<1> HIDE DEF w
<1> QED
  BY <1>1, <1>2, EditStep

LEMMA WriteReleaseKeeps ==
  ASSUME Inv, NEW e \in Editors, WriteRelease(e)
  PROVE  Inv'
<1> DEFINE w == edit[e]
           open == [w EXCEPT !.step = "open"]
<1>1. IsReleaseEdit(w) /\ w.id \in Ids /\ (w.to # None => IsRelease(w.id, w.to))
  BY Busy DEF WriteRelease, Inv, IsReleaseEdit
<1>2. \/ w.to # None /\ KeepsDefaults(w.id, w.to) /\ EditGoes(e, open) /\ UNCHANGED <<releases, trains>>
         /\ crossed' = crossed \cup {<<edit[o].train, w.id>> :
                                       o \in {o \in Editors : OpenTrain(o) /\ w.id \in Defaults(edit[o].to)}}
      \/ EditGoes(e, Idle) /\ UNCHANGED <<releases, trains, crossed>>
      \/ /\ EditGoes(e, Idle) /\ UNCHANGED <<trains, crossed>>
         /\ releases' = [releases EXCEPT ![w.id] = w.to]
         /\ \/ w.to = None /\ IsUnnamed(w.id) /\ ~IsHeldRelease(w.id)
            \/ releases[w.id] = None
  BY DEF WriteRelease, TakesKey
<1>3. CASE /\ w.to # None /\ KeepsDefaults(w.id, w.to) /\ EditGoes(e, open) /\ UNCHANGED <<releases, trains>>
           /\ crossed' = crossed \cup {<<edit[o].train, w.id>> :
                                         o \in {o \in Editors : OpenTrain(o) /\ w.id \in Defaults(edit[o].to)}}
  <2>1. IsReleaseEdit(open) /\ open.step = "open" /\ open.id = w.id /\ open.to = w.to
    BY <1>1, <1>3, ReleaseEditOpens
  <2> HIDE DEF open, w
  <2> QED
    BY <1>3, <2>1, ReleaseOpens
<1>4. CASE EditGoes(e, Idle) /\ UNCHANGED <<releases, trains, crossed>>
  <2>1. Idle.step # "open"
    BY DEF Idle
  <2> QED
    BY <1>4, <2>1, EditStep
<1>5. CASE /\ EditGoes(e, Idle) /\ UNCHANGED <<trains, crossed>>
           /\ releases' = [releases EXCEPT ![w.id] = w.to]
           /\ \/ w.to = None /\ IsUnnamed(w.id) /\ ~IsHeldRelease(w.id)
              \/ releases[w.id] = None
  <2>1. \A t \in Live(trains) : w.id \notin Defaults(trains[t])
    BY <1>5, AtHome DEF Inv, IsUnnamed, IsAt
  <2>2. \A o \in Editors : OpenTrain(o) => w.id \notin Defaults(edit[o].to)
    BY <1>5 DEF Inv, IsHeldRelease, TrainsWillBeRight, IsAt
  <2> HIDE DEF w
  <2> QED
    BY <1>1, <1>5, <2>1, <2>2, ReleaseStep
<1> QED
  BY <1>2, <1>3, <1>4, <1>5

LEMMA CommitReleaseKeeps ==
  ASSUME Inv, NEW e \in Editors, CommitRelease(e)
  PROVE  Inv'
<1> DEFINE w == edit[e]
<1>1. IsReleaseEdit(w) /\ w.id \in Ids /\ w.to # None /\ IsRelease(w.id, w.to) /\ OpenRelease(e)
  BY Busy DEF CommitRelease, OpenRelease, Inv, IsReleaseEdit
<1>2. /\ EditGoes(e, Idle) /\ UNCHANGED <<trains, crossed>>
      /\ releases' = releases \/ releases' = [releases EXCEPT ![w.id] = w.to]
  BY DEF CommitRelease
<1>3. CASE releases' = releases
  <2>1. Idle.step # "open"
    BY DEF Idle
  <2> QED
    BY <1>2, <1>3, <2>1, EditStep
<1>4. CASE releases' = [releases EXCEPT ![w.id] = w.to]
  <2>1. \A t \in Live(trains) : w.id \in Defaults(trains[t]) => IsAt(w.to, w.id, t, trains[t])
    BY <1>1 DEF Inv, ReleasesWillBeRight
  <2>2. \A o \in Editors : OpenTrain(o) /\ w.id \in Defaults(edit[o].to) => IsAt(w.to, w.id, edit[o].train, edit[o].to)
    BY <1>1 DEF Inv, CrossingsAreKnown, IsAt
  <2> HIDE DEF w
  <2> QED
    BY <1>1, <1>2, <1>4, <2>1, <2>2, ReleaseStep
<1> QED
  BY <1>2, <1>3, <1>4

LEMMA WriteTrainKeeps ==
  ASSUME Inv, NEW e \in Editors, WriteTrain(e)
  PROVE  Inv'
<1> DEFINE w == edit[e]
           open == [w EXCEPT !.step = "open"]
<1>1. IsTrainEdit(w) /\ ~OpenRelease(e)
  BY Busy DEF WriteTrain, OpenRelease, Inv
<1>2. /\ UNCHANGED <<releases, trains>>
      /\ \/ EditGoes(e, Idle) /\ crossed' = crossed
         \/ /\ EditGoes(e, open) /\ DefaultsAtHome(w.train, w.to)
            /\ crossed' = crossed \cup {<<w.train, edit[o].id>> :
                            o \in {o \in Editors : OpenRelease(o) /\ edit[o].id \in Defaults(w.to)}}
  BY DEF WriteTrain
<1>3. CASE EditGoes(e, Idle) /\ crossed' = crossed
  <2>1. Idle.step # "open"
    BY DEF Idle
  <2> QED
    BY <1>2, <1>3, <2>1, EditStep
<1>4. CASE /\ EditGoes(e, open) /\ DefaultsAtHome(w.train, w.to)
           /\ crossed' = crossed \cup {<<w.train, edit[o].id>> :
                           o \in {o \in Editors : OpenRelease(o) /\ edit[o].id \in Defaults(w.to)}}
  <2>1. IsTrainEdit(open) /\ open.train = w.train /\ open.to = w.to /\ open.step = "open"
    BY <1>1, TrainEditGoesOn
  <2> HIDE DEF open, w
  <2> QED
    BY <1>1, <1>2, <1>4, <2>1, TrainOpens
<1> QED
  BY <1>2, <1>3, <1>4

LEMMA CommitTrainKeeps ==
  ASSUME Inv, NEW e \in Editors, CommitTrain(e)
  PROVE  Inv'
<1> DEFINE w == edit[e]
<1>1. IsTrainEdit(w) /\ w.train \in Trains /\ IsTrain(w.to) /\ OpenTrain(e)
  BY Busy DEF CommitTrain, OpenTrain, Inv, IsTrainEdit
<1>2. EditGoes(e, Idle) /\ UNCHANGED <<releases, crossed>>
  BY DEF CommitTrain
<1>3. CASE trains' = trains
  <2>1. Idle.step # "open"
    BY DEF Idle
  <2> QED
    BY <1>2, <1>3, <2>1, EditStep
<1>4. CASE OnlyPreferred(w.train, w.to) /\ trains' = [trains EXCEPT ![w.train] = w.to]
  <2>1. trains' = [t \in Trains |-> IF t = w.train THEN w.to ELSE trains[t]]
    BY <1>4 DEF Inv, CatalogTypeOK
  <2>2. /\ edit' = [o \in Editors |-> IF o = e THEN Idle ELSE edit[o]]
        /\ \A o \in Editors : OpenTrain(o)' => o # e /\ OpenTrain(o)
        /\ \A o \in Editors : OpenRelease(o)' => o # e /\ OpenRelease(o)
    BY <1>2, OthersStay DEF Inv, Idle
  <2>a. \A id \in Defaults(w.to) : IsAt(releases[id], id, w.train, w.to)
    BY <1>1 DEF Inv, TrainsWillBeRight
  <2>b. \A o \in Editors : OpenRelease(o) /\ edit[o].id \in Defaults(w.to) =>
          edit[o].to # None /\ <<w.train, edit[o].id>> \in crossed
    BY <1>1, Busy DEF Inv, CrossingsAreKnown, OpenRelease, IsReleaseEdit
  <2> HIDE DEF w
  <2>3. CatalogTypeOK'
    BY <1>1, <1>2, <2>1, <2>2 DEF Inv, CatalogTypeOK, Live
  <2>4. OnePreferredTrain'
    <3> SUFFICES ASSUME NEW t \in Live(trains'), trains'[t].state = "PREFERRED", trains'[t].active,
                        NEW o \in Live(trains') \ {t}, trains'[o].state = "PREFERRED", trains'[o].active,
                        trains'[o].vendor = trains'[t].vendor, trains'[o].platform = trains'[t].platform
                 PROVE  FALSE
      BY DEF OnePreferredTrain, PreferredPeers
    <3>1. CASE t = w.train
      BY <1>4, <2>1, <3>1 DEF OnlyPreferred, PreferredPeers, Live, Inv, CatalogTypeOK
    <3>2. CASE o = w.train
      BY <1>4, <2>1, <3>2 DEF OnlyPreferred, PreferredPeers, Live, Inv, CatalogTypeOK
    <3>3. CASE t # w.train /\ o # w.train
      BY <2>1, <3>3 DEF Inv, OnePreferredTrain, PreferredPeers, Live, CatalogTypeOK
    <3> QED
      BY <3>1, <3>2, <3>3
  <2>5. DefaultsStayAtHome'
    <3> SUFFICES ASSUME NEW t \in Live(trains'), NEW d \in Defaults(trains'[t])
                 PROVE  IsAt(releases[d], d, t, trains'[t])
      BY <1>2, AtHomeNext DEF IsAt
    <3> QED
      BY <2>1, <2>a, AtHome DEF Inv, Live, CatalogTypeOK
  <2>6. TrainsWillBeRight'
    BY <1>2, <2>2 DEF Inv, TrainsWillBeRight, IsAt
  <2>7. ReleasesWillBeRight'
    <3> SUFFICES ASSUME NEW o \in Editors, OpenRelease(o), edit'[o] = edit[o], NEW t \in Live(trains'),
                        edit[o].id \in Defaults(trains'[t])
                 PROVE  IsAt(edit[o].to, edit[o].id, t, trains'[t])
      BY <1>2, <2>2 DEF ReleasesWillBeRight, IsAt
    <3>1. CASE t = w.train
      BY <1>1, <2>1, <2>b, <3>1 DEF IsAt
    <3>2. CASE t # w.train
      BY <2>1, <3>2 DEF Inv, ReleasesWillBeRight, Live, CatalogTypeOK
    <3> QED
      BY <3>1, <3>2
  <2>8. CrossingsAreKnown'
    BY <1>2, <2>2 DEF Inv, CrossingsAreKnown
  <2> QED
    BY <2>3, <2>4, <2>5, <2>6, <2>7, <2>8 DEF Inv
<1> QED
  BY <1>3, <1>4 DEF CommitTrain

LEMMA InvStep == Inv /\ [CatalogNext]_catalogVars => Inv'
<1> SUFFICES ASSUME Inv, [CatalogNext]_catalogVars PROVE Inv'
  OBVIOUS
<1>1. ASSUME NEW e \in Editors, NEW id \in Ids, NEW i \in Identities, NEW t \in Trains \cup {None},
             NEW s \in Statuses, CreateRelease(e, id, i, t, s)
      PROVE  Inv'
  <2> DEFINE r == [id |-> id, vendor |-> i.vendor, platform |-> i.platform,
            version |-> i.version, logical |-> i.logical, variant |-> i.variant,
            image |-> i.image, train |-> t, equivalence |-> "EXACT_ONLY", active |-> TRUE,
            state |-> Patches(s).state, eligibility |-> Patches(s).eligibility]
  <2>1. BeginRelease(e, id, r, TRUE)
    BY <1>1 DEF CreateRelease
  <2>2. IdentityOf(r) = IdentityOf(i)
    BY DEF IdentityOf
  <2>3. IsRelease(id, r)
    BY <2>2, CatalogAssumption, PatchTypes DEF IsRelease, Release
  <2> HIDE DEF r
  <2> QED
    BY <2>1, <2>3, ReleaseBegins
<1>2. ASSUME NEW e \in Editors, NEW id \in Live(releases), NEW r \in Changed(releases[id]), UpdateRelease(e, id, r)
      PROVE  Inv'
  <2>1. id \in Ids /\ IsRelease(id, releases[id])
    BY DEF Inv, CatalogTypeOK, Live
  <2>2. IsRelease(id, r)
    BY <2>1, ChangedRelease
  <2> QED
    BY <1>2, <2>1, <2>2, ReleaseBegins DEF UpdateRelease
<1>3. ASSUME NEW e \in Editors, NEW id \in Ids, DeleteRelease(e, id) PROVE Inv'
  BY <1>3, ReleaseBegins DEF DeleteRelease
<1>4. CASE (\E id \in Ids : Cite(id)) \/ UNCHANGED catalogVars
  <2>1. UNCHANGED <<releases, trains, edit, crossed>>
    BY <1>4 DEF Cite, catalogVars
  <2>2. CatalogTypeOK' /\ OnePreferredTrain' /\ DefaultsStayAtHome'
    BY <2>1 DEF Inv, CatalogTypeOK, Live, OnePreferredTrain, PreferredPeers, DefaultsStayAtHome
  <2>3. TrainsWillBeRight' /\ ReleasesWillBeRight' /\ CrossingsAreKnown'
    BY <2>1 DEF Inv, Live, TrainsWillBeRight, ReleasesWillBeRight, CrossingsAreKnown, OpenTrain, OpenRelease, IsAt
  <2> QED
    BY <2>2, <2>3 DEF Inv
<1>5. ASSUME NEW e \in Editors, NEW t \in Trains, NEW n \in TrainNames, NEW s \in {"PREFERRED", "ACCEPTED"},
             NEW a \in BOOLEAN, BeginCreate(e, t, n, s, a)
      PROVE  Inv'
  <2> DEFINE train == [vendor |-> n.vendor, platform |-> n.platform, name |-> n.name, state |-> s,
                       preferred |-> None, minimum |-> None, active |-> a]
  <2>1. IsTrain(train)
    BY DEF IsTrain, Defaults
  <2>2. BeginTrain(e, t, train, s = "PREFERRED", TRUE)
    BY <1>5 DEF BeginCreate
  <2> HIDE DEF train
  <2> QED
    BY <2>1, <2>2, TrainBegins
<1>6. ASSUME NEW e \in Editors, NEW t \in Live(trains), NEW train \in ChangedTrain(trains[t]), BeginUpdate(e, t, train)
      PROVE  Inv'
  <2>1. t \in Trains /\ IsTrain(trains[t])
    BY DEF Inv, CatalogTypeOK, Live
  <2>2. IsTrain(train)
    BY <2>1, ChangedTrainIsTrain
  <2>3. BeginTrain(e, t, train, train.state = "PREFERRED" /\ train.active, FALSE)
    BY <1>6 DEF BeginUpdate
  <2> QED
    BY <2>1, <2>2, <2>3, TrainBegins
<1>7. ASSUME NEW t \in Trains, DeleteTrain(t) PROVE Inv'
  <2>1. /\ trains' = [u \in Trains |-> IF u = t THEN None ELSE trains[u]]
        /\ UNCHANGED <<releases, edit, crossed>>
    BY <1>7 DEF DeleteTrain, Inv, CatalogTypeOK
  <2>2. CatalogTypeOK' /\ OnePreferredTrain' /\ DefaultsStayAtHome'
    BY <2>1 DEF Inv, CatalogTypeOK, Live, OnePreferredTrain, PreferredPeers, DefaultsStayAtHome
  <2>3. TrainsWillBeRight' /\ ReleasesWillBeRight' /\ CrossingsAreKnown'
    BY <2>1 DEF Inv, CatalogTypeOK, Live, TrainsWillBeRight, ReleasesWillBeRight, CrossingsAreKnown,
       OpenTrain, OpenRelease, IsAt
  <2> QED
    BY <2>2, <2>3 DEF Inv
<1>8. CASE \E e \in Editors : WriteRelease(e) \/ CommitRelease(e)
  BY <1>8, WriteReleaseKeeps, CommitReleaseKeeps
<1>9. CASE \E e \in Editors : FindPeers(e) \/ DemotePeers(e) \/ WriteTrain(e) \/ CommitTrain(e)
  BY <1>9, FindKeeps, DemoteKeeps, WriteTrainKeeps, CommitTrainKeeps
<1> QED
  BY <1>1, <1>2, <1>3, <1>4, <1>5, <1>6, <1>7, <1>8, <1>9 DEF CatalogNext

LEMMA Invariance == CatalogSpec => []Inv
BY InitInv, InvStep, PTL DEF CatalogSpec

\* Engineers who promote trains at the same time, each demoting the peers it has
\* found, never leave a platform with two trains to follow.
THEOREM OneTrainToFollow == CatalogSpec => []OnePreferredTrain
BY Invariance, PTL DEF Inv

\* The candidates of the catalog are trains of today, with versions.
LEMMA CandidatesAreSound ==
  ASSUME Inv, NEW vendor, NEW platform
  PROVE  /\ IsFiniteSet(CandidatesOf(vendor, platform))
         /\ \A t \in CandidatesOf(vendor, platform) : IsCandidate(t) /\ t.state # "DEPRECATED"
<1> DEFINE S == {u \in Live(trains) : /\ trains[u].active /\ trains[u].state # "DEPRECATED"
                                      /\ trains[u].vendor = vendor /\ trains[u].platform = platform}
<1>1. S \in SUBSET Trains
  BY DEF Inv, CatalogTypeOK, Live
<1>2. \A u \in S : u \in Live(trains) /\ trains[u].state # "DEPRECATED"
  OBVIOUS
<1>3. CandidatesOf(vendor, platform) = {Candidate(u) : u \in S}
  BY DEF CandidatesOf
<1> HIDE DEF S
<1>4. IsFiniteSet({Candidate(u) : u \in S})
  <2>1. IsFiniteSet(S)
    BY <1>1, CatalogAssumption, FS_Subset
  <2> DEFINE T == {Candidate(u) : u \in S}
             f == [u \in S |-> Candidate(u)]
  <2>2. f \in Surjection(S, T)
    BY DEF Surjection
  <2> HIDE DEF f, T
  <2>3. IsFiniteSet(T)
    BY <2>1, <2>2, FS_Surjection
  <2> QED
    BY <2>3 DEF T
<1>5. ASSUME NEW u \in S PROVE IsCandidate(Candidate(u)) /\ Candidate(u).state # "DEPRECATED"
  <2>1. u \in Nat /\ IsTrain(trains[u])
    BY <1>1, <1>2, CatalogAssumption DEF Inv, CatalogTypeOK
  <2>2. ASSUME trains[u].preferred # None PROVE releases[trains[u].preferred].logical.parts \in Seq(Nat)
    <3>1. trains[u].preferred \in Defaults(trains[u]) /\ trains[u].preferred \in Ids
      BY <2>1, <2>2 DEF IsTrain, Defaults
    <3>2. releases[trains[u].preferred] # None
      BY <1>2, <3>1 DEF Inv, DefaultsStayAtHome
    <3>3. IdentityOf(releases[trains[u].preferred]) \in Identities
      BY <3>1, <3>2 DEF Inv, CatalogTypeOK, Live, IsRelease
    <3>4. IdentityOf(releases[trains[u].preferred]).logical = releases[trains[u].preferred].logical
      BY DEF IdentityOf
    <3> QED
      BY <3>3, <3>4, CatalogAssumption
  <2> QED
    BY <1>2, <2>1, <2>2 DEF IsCandidate, Candidate
<1> QED
  BY <1>3, <1>4, <1>5

\* Trains and releases are changed in separate calls, in any order: a default of
\* a train exists, and is no release of this train only if both were being written
\* at one time; and the catalog never proposes one that was archived, barred or
\* left unreviewed since, although nothing clears it.
THEOREM DefaultsAreNeverStale == CatalogSpec => []DefaultsStayUsable
<1>1. Inv => DefaultsStayUsable
  <2> SUFFICES ASSUME Inv, NEW n \in TrainNames, NEW current \in Trains
               PROVE  LET answer == TrainForDevice(CandidatesOf(n.vendor, n.platform), current)
                      IN answer.train # None => IsUsable(answer.train.preferred) /\ answer.train.state # "DEPRECATED"
    BY DEF Inv, DefaultsStayUsable, ProposalsAreUsable
  <2> QED
    BY CandidatesAreSound, ProposedIsUsable
<1> QED
  BY Invariance, <1>1, PTL
=============================================================================
