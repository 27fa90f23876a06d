---------------------- MODULE FirmwareGovernanceProofs ----------------------
(* Proofs about FirmwareGovernance, for any number of devices, models,      *)
(* releases and engineers.  What is known of ordered finite sets comes from *)
(* the proofs about the catalog.                                            *)
EXTENDS FirmwareGovernance, FirmwareCatalogProofs

-----------------------------------------------------------------------------
(* What every step keeps.                                                   *)

CatalogSound ==
  catalog = [i \in ReleaseIds |-> catalog[i]] /\ \A i \in ReleaseIds : catalog[i] \in Standing(i)

DevicesSound == devices = [d \in Devices |-> devices[d]] /\ \A d \in Devices : IsDevice(devices[d])

PoliciesSound == IsFiniteSet(policies) /\ AreNumbered(policies) /\ \A p \in policies : IsPolicy(p)

OverrideColumns == {"id", "model", "release", "decision", "version", "active"}
IsOverride(o) ==
  /\ DOMAIN o = OverrideColumns
  /\ o.id \in Nat /\ o.version \in Nat \ {0}

\* Every version up to n was given to a decision on the release for the model.
VersionsUpTo(S, n, m, id) == \A v \in 1 .. n : \E o \in S : o.model = m /\ o.release = id /\ o.version = v

OverridesSound ==
  /\ IsFiniteSet(overrides)
  /\ \A o \in overrides : IsOverride(o) /\ VersionsUpTo(overrides, o.version, o.model, o.release)
  /\ OneOverridePerRelease

HasScope(x) == ExceptionColumns \subseteq DOMAIN x /\ \E i \in DOMAIN ScopeOrder : ScopeOrder[i] = x.scope

\* The policies that an exception stands on are those its engineer was shown.
ExceptionsSound ==
  /\ IsFiniteSet(exceptions)
  /\ \A x \in exceptions : HasScope(x) /\ x.id \in Nat /\ x.decided \in Nat /\ x.snapshots = x.shown

\* The fingerprint that a plan keeps names its target.
PlansSound ==
  \A p \in plans : p.device \in Devices /\ p.target \in ReleaseIds /\ p.policy # <<>> /\ p.policy[4] = p.target

IsTaskOver(S, w) ==
  /\ w.task = "set" => w.models \subseteq DOMAIN Models /\ w.version \in [w.models -> Nat]
  /\ w.task = "save" => IsPolicy(w.policy)
  /\ w.task = "override" => w.version \in Nat \ {0} /\ VersionsUpTo(S, w.version - 1, w.model, w.release)
  /\ w.task = "exception" => w.form \in ExceptionForms /\ w.token[2] = w.shown

IsTask(w) == IsTaskOver(overrides, w)

DeskSound == desk = [e \in Engineers |-> desk[e]] /\ \A e \in Engineers : IsTask(desk[e])

GovernanceInv ==
  /\ now \in Nat /\ CatalogSound /\ DevicesSound /\ PoliciesSound
  /\ OverridesSound /\ ExceptionsSound /\ PlansSound /\ DeskSound

-----------------------------------------------------------------------------
(* Ordered finite sets.                                                     *)

LEMMA GreatestExists ==
  ASSUME NEW S \in SUBSET Nat, IsFiniteSet(S), S # {}
  PROVE  Greatest(S) \in S /\ \A m \in S : m <= Greatest(S)
<1> DEFINE R == {p \in S \X S : p[1] < p[2]}
<1>1. \A x, y \in S : <<x, y>> \in R <=> x < y
  OBVIOUS
<1> HIDE DEF R
<1>2. /\ \A x \in S : <<x, x>> \notin R
      /\ \A x, y, z \in S : <<x, y>> \in R /\ <<y, z>> \in R => <<x, z>> \in R
  BY <1>1
<1>3. PICK x \in S : \A y \in S : <<x, y>> \notin R
  BY <1>2, TopExists
<1>4. \A m \in S : m \in Nat
  OBVIOUS
<1>5. \A m \in S : m <= x
  <2> TAKE m \in S
  <2>1. x \in Nat /\ m \in Nat /\ ~(x < m)
    BY <1>1, <1>3, <1>4
  <2> QED
    BY <2>1
<1> QED
  BY <1>5 DEF Greatest

\* What applies to each member of a finite set is a finite set.
LEMMA ImageIsFinite ==
  ASSUME NEW S, IsFiniteSet(S), NEW f
  PROVE  IsFiniteSet({f[x] : x \in S}) /\ Cardinality({f[x] : x \in S}) <= Cardinality(S)
<1> DEFINE T == {f[x] : x \in S}
           g == [x \in S |-> f[x]]
<1>1. g \in Surjection(S, T)
  BY DEF Surjection
<1> HIDE DEF g, T
<1>2. IsFiniteSet(T) /\ Cardinality(T) <= Cardinality(S)
  BY <1>1, FS_Surjection
<1> QED
  BY <1>2 DEF T

\* Of policies that are numbered there is a newest, and only one.
LEMMA NewestExists ==
  ASSUME NEW S, IsFiniteSet(S), S # {}, \A p \in S : IsPolicy(p) /\ p.id \in Int,
         \A p, q \in S : p.id = q.id => p = q
  PROVE  \E p \in S : \A q \in S : q # p => Newer(p, q) /\ ~Newer(q, p)
<1> DEFINE R == {p \in S \X S : Newer(p[2], p[1])}
<1>1. \A x, y \in S : <<x, y>> \in R <=> Newer(y, x)
  OBVIOUS
<1> HIDE DEF R
<1>2. \A p \in S : p.from \in Int /\ p.version \in Int /\ p.id \in Int
  BY DEF IsPolicy
<1>3. /\ \A x \in S : ~Newer(x, x)
      /\ \A x, y, z \in S : Newer(y, x) /\ Newer(z, y) => Newer(z, x)
      /\ \A x, y \in S : x # y => Newer(x, y) \/ Newer(y, x)
  BY <1>2 DEF Newer
<1>4. PICK p \in S : \A q \in S : <<p, q>> \notin R
  <2>1. /\ \A x \in S : <<x, x>> \notin R
        /\ \A x, y, z \in S : <<x, y>> \in R /\ <<y, z>> \in R => <<x, z>> \in R
    BY <1>1, <1>3
  <2> QED
    BY <2>1, TopExists
<1>5. \A q \in S : q # p => Newer(p, q) /\ ~Newer(q, p)
  BY <1>1, <1>3, <1>4
<1> QED
  BY <1>5

\* The first of the exceptions that apply is one of them.
LEMMA FirstApplies ==
  ASSUME NEW S, IsFiniteSet(S), S # {}, \A x \in S : HasScope(x) /\ x.id \in Nat /\ x.decided \in Nat
  PROVE  FirstApplicable(S) \in S
<1> DEFINE Width(e) == CHOOSE i \in DOMAIN ScopeOrder : ScopeOrder[i] = e.scope
           Precedes(e, o) == \/ Width(e) < Width(o)
                             \/ Width(e) = Width(o) /\ e.decided > o.decided
                             \/ Width(e) = Width(o) /\ e.decided = o.decided /\ e.id <= o.id
           R == {p \in S \X S : ~Precedes(p[1], p[2])}
<1>1. \A x \in S : Width(x) \in Int
  <2>1. DOMAIN ScopeOrder = 1 .. 5
    BY DEF ScopeOrder
  <2> QED
    BY <2>1 DEF HasScope
<1>2. \A x, y \in S : <<x, y>> \in R <=> ~Precedes(x, y)
  <2> HIDE DEF Precedes
  <2> QED
    OBVIOUS
<1>3. FirstApplicable(S) = CHOOSE e \in S : \A o \in S : Precedes(e, o)
  BY DEF FirstApplicable
<1> HIDE DEF R, Width
<1>4. /\ \A x \in S : Precedes(x, x)
      /\ \A x, y, z \in S : ~Precedes(x, y) /\ ~Precedes(y, z) => ~Precedes(x, z)
  BY <1>1
<1> HIDE DEF Precedes
<1>5. PICK e \in S : \A o \in S : <<e, o>> \notin R
  BY <1>2, <1>4, TopExists
<1>6. \A o \in S : Precedes(e, o)
  BY <1>2, <1>5
<1> QED
  BY <1>3, <1>6

-----------------------------------------------------------------------------
(* The policy of a plain device.                                            *)

\* The policies of a model in force at t, and the newest of a set.
InForceAt(S, m, t) == {p \in S : p.active /\ p.from <= t /\ IsBaseline(p, m)}
IsNewestOf(p, S) == p \in S /\ \A q \in S : q # p => Newer(p, q) /\ ~Newer(q, p)

LEMMA RankOfBaseline ==
  ASSUME NEW p, IsPolicy(p), NEW d, devices[d].model \in DOMAIN Models, None \notin DOMAIN Models
  PROVE  /\ ScopeRank(p, Context(d)) = 2 <=> IsBaseline(p, devices[d].model)
         /\ IsBaseline(p, devices[d].model) => SubjectRank(p, Context(d)) = 2 /\ p.default /\ p.track = "default"
<1>1. Context(d).model = devices[d].model
  BY DEF Context
<1>2. devices[d].model # None
  OBVIOUS
<1>3. IsBaseline(p, devices[d].model) => SubjectRank(p, Context(d)) = 2 /\ ~p.legacy /\ p.default /\ p.track = "default"
  BY <1>1, <1>2 DEF IsBaseline, IsPolicy, SubjectRank
<1>4. IsBaseline(p, devices[d].model) => ScopeRank(p, Context(d)) = 2
  BY <1>2, <1>3 DEF IsBaseline, ScopeRank
<1>5. ASSUME ScopeRank(p, Context(d)) = 2 PROVE IsBaseline(p, devices[d].model)
  <2>1. ~p.legacy /\ ~(SubjectRank(p, Context(d)) < 0)
    BY <1>5 DEF ScopeRank
  <2>2. p.device = None /\ p.site = None /\ p.customer = None /\ p.model # None
    BY <1>5, <2>1 DEF ScopeRank
  <2>3. p.model = devices[d].model
    BY <1>1, <2>1, <2>2 DEF SubjectRank
  <2> QED
    BY <2>2, <2>3 DEF IsBaseline, IsPolicy
<1> QED
  BY <1>3, <1>4, <1>5

\* Where only the policies of its model apply to a device, the resolver of
\* devices answers with the newest of them, or that there is none.
LEMMA PlainResolution ==
  ASSUME NEW S, IsFiniteSet(S), \A p \in S : IsPolicy(p) /\ p.id \in Int, \A p, q \in S : p.id = q.id => p = q,
         NEW d, devices[d].model \in DOMAIN Models, None \notin DOMAIN Models, NEW t,
         \A p \in S : p.active /\ p.from <= t => ScopeRank(p, Context(d)) \in {0, 2}
  PROVE  /\ InForceAt(S, devices[d].model, t) = {} => PolicyAt(S, Context(d), t).policy = None
         /\ InForceAt(S, devices[d].model, t) # {} =>
              IsNewestOf(PolicyAt(S, Context(d), t).policy, InForceAt(S, devices[d].model, t))
<1> DEFINE B == InForceAt(S, devices[d].model, t)
           applicable == {p \in S : p.active /\ p.from <= t /\ ScopeRank(p, Context(d)) > 0}
<1>1. applicable = B
  <2>1. \A p \in S : p.active /\ p.from <= t => (ScopeRank(p, Context(d)) > 0 <=> ScopeRank(p, Context(d)) = 2)
    OBVIOUS
  <2>2. \A p \in S : ScopeRank(p, Context(d)) = 2 <=> IsBaseline(p, devices[d].model)
    BY RankOfBaseline
  <2> QED
    BY <2>1, <2>2 DEF InForceAt
<1>2. \A p \in B : /\ p \in S /\ ScopeRank(p, Context(d)) = 2 /\ SubjectRank(p, Context(d)) = 2
                   /\ p.default /\ p.track = "default"
  BY RankOfBaseline DEF InForceAt
<1> DEFINE Among(latest) == DefaultOf(latest, {p \in latest : p.default}, Context(d))
<1>3. PolicyAt(S, Context(d), t)
        = Among(LatestVersionPerTrack(NarrowestSubject(NarrowestScope(applicable, Context(d)), Context(d))))
  BY DEF PolicyAt
<1> HIDE DEF B, applicable
<1>4. NarrowestScope(B, Context(d)) = B /\ NarrowestSubject(B, Context(d)) = B
  BY <1>2 DEF NarrowestScope, NarrowestSubject
<1>5. PolicyAt(S, Context(d), t) = Among(LatestVersionPerTrack(B))
  BY <1>1, <1>3, <1>4
<1>6. CASE B = {}
  <2>1. LatestVersionPerTrack(B) = {}
    BY <1>6 DEF LatestVersionPerTrack
  <2>2. PolicyAt(S, Context(d), t) = Unresolved("NO_POLICY")
    <3>1. PolicyAt(S, Context(d), t) = Among({})
      BY <1>5, <2>1
    <3>2. DefaultOf({}, {}, Context(d)) = Unresolved("NO_POLICY")
      BY FS_EmptySet DEF DefaultOf
    <3> QED
      BY <3>1, <3>2
  <2> QED
    BY <1>6, <2>2 DEF Unresolved, B
<1>7. CASE B # {}
  <2>1. IsFiniteSet(B)
    <3>1. B \subseteq S
      BY <1>2
    <3> QED
      BY <3>1, FS_Subset
  <2>2. PICK p \in B : \A q \in B : q # p => Newer(p, q) /\ ~Newer(q, p)
    BY <1>2, <1>7, <2>1, NewestExists
  <2>3. LatestVersionPerTrack(B) = {p}
    BY <1>2, <2>2 DEF LatestVersionPerTrack
  <2>4. {q \in {p} : q.default} = {p}
    BY <1>2, <2>2
  <2>5. Among({p}) = DefaultOf({p}, {p}, Context(d))
    BY <2>4
  <2>6. Cardinality({p}) = 1 /\ {p} # {} /\ Only({p}) = p
    BY FS_Singleton DEF Only
  <2>7. DefaultOf({p}, {p}, Context(d)) = Resolved(p, ScopeRank(p, Context(d)))
    BY <2>6 DEF DefaultOf
  <2>8. PolicyAt(S, Context(d), t).policy = p
    BY <1>5, <2>3, <2>5, <2>7 DEF Resolved
  <2> QED
    BY <1>7, <2>2, <2>8 DEF IsNewestOf, B
<1> QED
  BY <1>6, <1>7 DEF B

\* The database names the newest policy of a model, or none.
LEMMA InForceIsNewest ==
  ASSUME PoliciesSound, NEW m \in DOMAIN Models, None \notin DOMAIN Models
  PROVE  /\ InForceAt(policies, m, now) = {} => InForce(m) = None
         /\ InForceAt(policies, m, now) # {} => IsNewestOf(InForce(m), InForceAt(policies, m, now))
<1> DEFINE B == InForceAt(policies, m, now)
           S == {p \in policies : IsBaseline(p, m) /\ p.active /\ p.from <= now /\ p.default}
<1>1. B = S
  <2>1. \A p \in policies : IsBaseline(p, m) => p.default
    BY DEF PoliciesSound, IsPolicy, IsBaseline
  <2> QED
    BY <2>1 DEF InForceAt
<1>2. InForce(m) = IF S = {} THEN None ELSE CHOOSE p \in S : \A q \in S \ {p} : Newer(p, q)
  BY DEF InForce
<1>3. B \subseteq policies /\ IsFiniteSet(B)
  BY FS_Subset DEF InForceAt, PoliciesSound
<1> HIDE DEF B, S
<1>4. ASSUME B # {} PROVE IsNewestOf(InForce(m), B)
  <2>1. (\A p \in B : IsPolicy(p) /\ p.id \in Int) /\ \A p, q \in B : p.id = q.id => p = q
    <3>1. Cardinality(policies) \in Nat
      BY FS_CardinalityType DEF PoliciesSound
    <3> QED
      BY <1>3, <3>1 DEF PoliciesSound, AreNumbered
  <2>2. PICK p \in B : \A q \in B : q # p => Newer(p, q) /\ ~Newer(q, p)
    BY <1>3, <1>4, <2>1, NewestExists
  <2>3. InForce(m) \in B /\ \A q \in B \ {InForce(m)} : Newer(InForce(m), q)
    BY <1>1, <1>2, <1>4, <2>2
  <2>4. InForce(m) = p
    BY <2>2, <2>3
  <2> QED
    BY <2>2, <2>4 DEF IsNewestOf
<1> QED
  BY <1>1, <1>2, <1>4 DEF B

-----------------------------------------------------------------------------
(* The steps: policies.                                                     *)

\* A row under another id is the same policy.
RenumberedRow(p, id) ==
  LET q == [p EXCEPT !.id = id]
  IN IsPolicy(q) /\ q.id = id /\ \A c \in PolicyColumns \ {"id"} : q[c] = p[c]

LEMMA PolicyIsRenumbered == ASSUME NEW p, IsPolicy(p), NEW id PROVE RenumberedRow(p, id)
BY DEF RenumberedRow, IsPolicy, PolicyColumns

\* A row of a bulk change, as it is stored.
LEMMA SetRow ==
  ASSUME NEW w, NEW m \in DOMAIN Models, w.version[m] \in Nat, now \in Nat, NEW id
  PROVE  LET p == [RowOfSet(w, m) EXCEPT !.id = id]
         IN /\ IsPolicy(p) /\ p.id = id /\ p.active /\ p.from = now /\ p.mode = "EXACT"
            /\ p.target = w.release.id /\ p.model = m /\ p.family = None
            /\ p.customer = None /\ p.site = None /\ p.device = None
<1> DEFINE row == RowOfSet(w, m)
<1>1. DOMAIN row = PolicyColumns
  BY DEF RowOfSet, BaselineRow, Over, PolicyColumns
<1>2. /\ row.active /\ row.from = now /\ row.mode = "EXACT" /\ row.target = w.release.id
      /\ row.version = w.version[m] /\ row.default /\ row.track = "default" /\ ~row.legacy
      /\ row.model = m /\ row.family = None /\ row.customer = None /\ row.site = None /\ row.device = None
  BY DEF RowOfSet, BaselineRow, Over
<1> HIDE DEF row
<1>3. RenumberedRow(row, id)
  BY <1>1, <1>2, PolicyIsRenumbered DEF IsPolicy
<1> QED
  BY <1>2, <1>3 DEF RenumberedRow, PolicyColumns, row

LEMMA InForceIsPolicy ==
  ASSUME PoliciesSound, NEW m \in DOMAIN Models, None \notin DOMAIN Models, InForce(m) # None
  PROVE  InForce(m) \in policies /\ IsPolicy(InForce(m)) /\ InForce(m).track = "default"
<1>1. InForce(m) \in policies /\ IsBaseline(InForce(m), m)
  BY InForceIsNewest DEF IsNewestOf, InForceAt
<1> QED
  BY <1>1 DEF PoliciesSound, IsPolicy, IsBaseline

\* The row of a saved configuration, before it is stored.
LEMMA SavedRow ==
  ASSUME PoliciesSound, NEW m \in DOMAIN Models, None \notin DOMAIN Models, now \in Nat, NEW form,
         NEW v \in Nat
  PROVE  IsPolicy([Configuration(m, form) EXCEPT !.version = v])
<1> DEFINE track == IF InForce(m) = None THEN "default" ELSE InForce(m).track
<1>1. track = "default"
  BY InForceIsPolicy
<1> DEFINE p == Configuration(m, form)
<1>2. DOMAIN p = PolicyColumns
  BY DEF Configuration, BaselineRow, Over, PolicyColumns
<1>3. p.from = now /\ p.default /\ p.track = track /\ ~p.legacy /\ p.model = m /\ p.family = None
  BY DEF Configuration, BaselineRow, Over
<1> HIDE DEF p, track
<1>4. IsPolicy([p EXCEPT !.version = v])
  BY <1>1, <1>2, <1>3 DEF IsPolicy, PolicyColumns
<1> QED
  BY <1>4 DEF p

LEMMA NextVersionIsNumber == ASSUME PoliciesSound, NEW p PROVE NextVersion(p) \in Nat
<1> DEFINE T == {o \in policies : /\ o.track = p.track /\ o.model = p.model /\ o.family = p.family
                                   /\ o.customer = p.customer /\ o.site = p.site /\ o.device = p.device}
           f == [q \in T |-> q.version]
           V == {0} \cup {q.version : q \in T}
<1>1. T \subseteq policies /\ IsFiniteSet(T)
  BY FS_Subset DEF PoliciesSound
<1>2. NextVersion(p) = 1 + Greatest(V)
  BY DEF NextVersion
<1>3. V = {0} \cup {f[q] : q \in T}
  OBVIOUS
<1>4. V \in SUBSET Nat /\ V # {}
  BY <1>1 DEF PoliciesSound, IsPolicy
<1> HIDE DEF T, f, V
<1>5. IsFiniteSet({f[q] : q \in T})
  BY <1>1, ImageIsFinite
<1>6. IsFiniteSet(V)
  BY <1>3, <1>5, FS_Singleton, FS_Union
<1>7. Greatest(V) \in Nat
  BY <1>4, <1>6, GreatestExists
<1> QED
  BY <1>2, <1>7

Place(models, m) == Cardinality({n \in models : n <= m})

LEMMA PlacesAreDistinct ==
  ASSUME NEW models \in SUBSET Nat, IsFiniteSet(models)
  PROVE  /\ Cardinality(models) \in Nat
         /\ \A m \in models : Place(models, m) \in 1 .. Cardinality(models)
         /\ \A m, n \in models : Place(models, m) = Place(models, n) => m = n
<1> DEFINE Below(m) == {n \in models : n <= m}
<1>1. \A m \in models : m \in Nat
  OBVIOUS
<1>2. Cardinality(models) \in Nat
  BY FS_CardinalityType
<1>3. ASSUME NEW m \in models
      PROVE  /\ IsFiniteSet(Below(m)) /\ Cardinality(Below(m)) \in Nat
             /\ Cardinality(Below(m)) <= Cardinality(models) /\ Cardinality(Below(m)) # 0
  <2>1. Below(m) \subseteq models /\ m \in Below(m)
    BY <1>1
  <2> HIDE DEF Below
  <2> QED
    BY <2>1, FS_Subset, FS_CardinalityType, FS_EmptySet
<1>4. ASSUME NEW m \in models, NEW n \in models, m < n PROVE Cardinality(Below(m)) < Cardinality(Below(n))
  <2>1. Below(m) \subseteq Below(n) /\ n \in Below(n) /\ n \notin Below(m)
    <3>1. \A k \in models : k <= m => k <= n
      <4> SUFFICES ASSUME NEW k \in models, k <= m PROVE k <= n
        OBVIOUS
      <4>1. k \in Nat /\ m \in Nat /\ n \in Nat
        BY <1>1
      <4> QED
        BY <1>4, <4>1
    <3>2. n <= n /\ ~(n <= m)
      <4>1. m \in Nat /\ n \in Nat
        BY <1>1
      <4> QED
        BY <1>4, <4>1
    <3> QED
      BY <3>1, <3>2
  <2> HIDE DEF Below
  <2>2. Cardinality(Below(m)) <= Cardinality(Below(n)) /\ Cardinality(Below(m)) # Cardinality(Below(n))
    BY <1>3, <2>1, FS_Subset
  <2> QED
    BY <1>3, <2>2
<1>5. \A m \in models : Place(models, m) = Cardinality(Below(m))
  BY DEF Place
<1> HIDE DEF Below
<1>6. \A m, n \in models : m = n \/ m < n \/ n < m
  BY <1>1
<1>7. \A m \in models : Cardinality(Below(m)) \in 1 .. Cardinality(models)
  BY <1>2, <1>3
<1>8. \A m, n \in models : Cardinality(Below(m)) = Cardinality(Below(n)) => m = n
  BY <1>3, <1>4, <1>6
<1> QED
  BY <1>2, <1>5, <1>7, <1>8

\* The rows that a bulk change adds.
NewRows(w) == {[RowOfSet(w, m) EXCEPT !.id = Cardinality(policies) + Place(w.models, m)] : m \in w.models}

LEMMA RowsOfSet ==
  ASSUME PoliciesSound, now \in Nat, NEW w, w.models \subseteq DOMAIN Models, w.version \in [w.models -> Nat]
  PROVE  /\ \A p \in NewRows(w) :
              /\ IsPolicy(p) /\ p.active /\ p.from = now /\ p.mode = "EXACT" /\ p.target = w.release.id
              /\ p.model \in w.models /\ p.family = None /\ p.customer = None /\ p.site = None /\ p.device = None
              /\ p.id = Cardinality(policies) + Place(w.models, p.model)
         /\ \A m \in w.models : \E p \in NewRows(w) : p.model = m
         /\ \A p, q \in NewRows(w) : p.model = q.model => p = q
<1> DEFINE Row(m) == [RowOfSet(w, m) EXCEPT !.id = Cardinality(policies) + Place(w.models, m)]
<1>1. NewRows(w) = {Row(m) : m \in w.models}
  BY DEF NewRows
<1>2. ASSUME NEW m \in w.models
      PROVE  /\ IsPolicy(Row(m)) /\ Row(m).id = Cardinality(policies) + Place(w.models, m)
             /\ Row(m).active /\ Row(m).from = now /\ Row(m).mode = "EXACT"
             /\ Row(m).target = w.release.id /\ Row(m).model = m /\ Row(m).family = None
             /\ Row(m).customer = None /\ Row(m).site = None /\ Row(m).device = None
  <2>1. m \in DOMAIN Models /\ w.version[m] \in Nat
    OBVIOUS
  <2> QED
    BY <2>1, SetRow
<1> HIDE DEF Row
<1> QED
  BY <1>1, <1>2

LEMMA SetKeepsPolicies ==
  ASSUME PoliciesSound, DeskSound, now \in Nat, NEW e \in Engineers, CommitSet(e)
  PROVE  PoliciesSound' /\ policies' = policies \cup NewRows(desk[e])
<1> DEFINE w == desk[e]
           N == NewRows(w)
<1>1. w.task = "set" /\ policies' = policies \cup N
  BY DEF CommitSet, NewRows, Place
<1>2. w.models \subseteq DOMAIN Models /\ w.version \in [w.models -> Nat]
  BY <1>1 DEF DeskSound, IsTask, IsTaskOver
<1> HIDE DEF w
<1>3. w.models \in SUBSET Nat /\ IsFiniteSet(w.models)
  BY <1>2, GovernanceAssumption, FS_Subset DEF GovernanceConstants
<1>4. /\ \A p \in N : /\ IsPolicy(p) /\ p.model \in w.models
                        /\ p.id = Cardinality(policies) + Place(w.models, p.model)
      /\ \A m \in w.models : \E p \in N : p.model = m
      /\ \A p, q \in N : p.model = q.model => p = q
  BY <1>2, RowsOfSet
<1> HIDE DEF N
<1>5. Cardinality(policies) \in Nat
  BY FS_CardinalityType DEF PoliciesSound
<1>6. /\ Cardinality(w.models) \in Nat
      /\ \A m \in w.models : Place(w.models, m) \in 1 .. Cardinality(w.models)
      /\ \A m, n \in w.models : Place(w.models, m) = Place(w.models, n) => m = n
  BY <1>3, PlacesAreDistinct
<1>7. IsFiniteSet(N) /\ Cardinality(N) = Cardinality(w.models)
  <2> DEFINE f == [p \in N |-> p.model]
  <2>1. f \in Injection(N, w.models)
    BY <1>4 DEF Injection, IsInjective
  <2>2. f \in Surjection(N, w.models)
    BY <1>4 DEF Surjection
  <2> HIDE DEF f
  <2> QED
    BY <1>3, <2>1, <2>2, FS_Injection
<1>8. ASSUME NEW p \in policies, NEW q \in N PROVE p.id < q.id
  <2>1. p.id \in 1 .. Cardinality(policies)
    BY DEF PoliciesSound, AreNumbered
  <2>2. q.id = Cardinality(policies) + Place(w.models, q.model) /\ Place(w.models, q.model) \in 1 .. Cardinality(w.models)
    BY <1>4, <1>6
  <2> QED
    BY <1>5, <2>1, <2>2
<1>9. policies \cap N = {}
  <2> SUFFICES ASSUME NEW p \in policies, p \in N PROVE FALSE
    OBVIOUS
  <2>1. p.id < p.id /\ p.id \in 1 .. Cardinality(policies)
    BY <1>8 DEF PoliciesSound, AreNumbered
  <2> QED
    BY <2>1
<1>10. IsFiniteSet(policies') /\ Cardinality(policies') = Cardinality(policies) + Cardinality(w.models)
  <2>1. Cardinality(policies \cap N) = 0
    BY <1>9, FS_EmptySet
  <2>2. /\ IsFiniteSet(policies \cup N)
        /\ Cardinality(policies \cup N) = Cardinality(policies) + Cardinality(N) - Cardinality(policies \cap N)
    BY <1>7, FS_Union DEF PoliciesSound
  <2> QED
    BY <1>1, <1>5, <1>6, <1>7, <2>1, <2>2
<1>11. AreNumbered(policies')
  <2>1. ASSUME NEW p \in policies' PROVE p.id \in 1 .. Cardinality(policies')
    <3>1. CASE p \in policies
      <4>1. p.id \in 1 .. Cardinality(policies)
        BY <3>1 DEF PoliciesSound, AreNumbered
      <4> QED
        BY <1>5, <1>6, <1>10, <4>1
    <3>2. CASE p \in N
      <4>1. p.id = Cardinality(policies) + Place(w.models, p.model) /\ Place(w.models, p.model) \in 1 .. Cardinality(w.models)
        BY <1>4, <1>6, <3>2
      <4> QED
        BY <1>5, <1>6, <1>10, <4>1
    <3> QED
      BY <1>1, <3>1, <3>2
  <2>2. ASSUME NEW p \in policies', NEW q \in policies', p.id = q.id PROVE p = q
    <3>1. \A x \in policies, y \in N : x.id # y.id
      <4> TAKE x \in policies, y \in N
      <4>1. x.id < y.id /\ x.id \in 1 .. Cardinality(policies)
        BY <1>8 DEF PoliciesSound, AreNumbered
      <4> QED
        BY <4>1
    <3>2. CASE p \in policies /\ q \in policies
      BY <2>2, <3>2 DEF PoliciesSound, AreNumbered
    <3>3. CASE p \in N /\ q \in N
      <4>1. Place(w.models, p.model) = Place(w.models, q.model)
        <5>1. Place(w.models, p.model) \in 1 .. Cardinality(w.models) /\ Place(w.models, q.model) \in 1 .. Cardinality(w.models)
          BY <1>4, <1>6, <3>3
        <5>2. Cardinality(policies) + Place(w.models, p.model) = Cardinality(policies) + Place(w.models, q.model)
          BY <1>4, <2>2, <3>3
        <5> QED
          BY <1>5, <1>6, <5>1, <5>2
      <4> QED
        BY <1>4, <1>6, <3>3, <4>1
    <3> QED
      BY <1>1, <2>2, <3>1, <3>2, <3>3
  <2> QED
    BY <2>1, <2>2 DEF AreNumbered
<1>12. \A p \in policies' : IsPolicy(p)
  BY <1>1, <1>4 DEF PoliciesSound
<1>13. PoliciesSound'
  BY <1>10, <1>11, <1>12 DEF PoliciesSound, AreNumbered, IsPolicy
<1> QED
  BY <1>1, <1>13 DEF N, w

LEMMA SaveKeepsPolicies ==
  ASSUME PoliciesSound, DeskSound, NEW e \in Engineers, CommitSave(e)
  PROVE  PoliciesSound'
<1> DEFINE n == Cardinality(policies)
           q == [desk[e].policy EXCEPT !.id = n + 1]
<1>1. policies' = policies \cup {q} /\ IsPolicy(desk[e].policy)
  BY DEF CommitSave, DeskSound, IsTask, IsTaskOver
<1>2. IsPolicy(q) /\ q.id = n + 1
  BY <1>1, PolicyIsRenumbered DEF RenumberedRow
<1>3. n \in Nat
  BY FS_CardinalityType DEF PoliciesSound
<1> HIDE DEF q
<1>4. \A p \in policies : p.id \in 1 .. n /\ p.id # q.id
  BY <1>2, <1>3 DEF PoliciesSound, AreNumbered
<1>5. IsFiniteSet(policies') /\ Cardinality(policies') = n + 1
  BY <1>1, <1>4, FS_AddElement DEF PoliciesSound
<1> HIDE DEF n
<1>6. \A p \in policies' : p.id \in 1 .. n + 1
  BY <1>1, <1>2, <1>3, <1>4
<1>7. \A p, o \in policies' : p.id = o.id => p = o
  BY <1>1, <1>2, <1>4 DEF PoliciesSound, AreNumbered
<1>8. \A p \in policies' : IsPolicy(p)
  BY <1>1, <1>2 DEF PoliciesSound
<1> QED
  BY <1>5, <1>6, <1>7, <1>8 DEF PoliciesSound, AreNumbered, IsPolicy

\* Archiving keeps the number of rows and their ids.
LEMMA ClearKeepsPolicies ==
  ASSUME PoliciesSound, NEW e \in Engineers, CommitClear(e)
  PROVE  PoliciesSound'
<1> DEFINE f == [p \in policies |-> IF \E m \in desk[e].models : IsBaseline(p, m) THEN [p EXCEPT !.active = FALSE] ELSE p]
<1>1. policies' = {f[p] : p \in policies}
  BY DEF CommitClear
<1>2. ASSUME NEW p \in policies PROVE f[p].id = p.id /\ IsPolicy(f[p])
  <2>1. IsPolicy(p)
    BY DEF PoliciesSound
  <2>2. IsPolicy([p EXCEPT !.active = FALSE]) /\ [p EXCEPT !.active = FALSE].id = p.id
    BY <2>1 DEF IsPolicy, PolicyColumns
  <2> QED
    BY <2>1, <2>2
<1>3. f \in [policies -> policies']
  BY <1>1
<1> HIDE DEF f
<1>4. \A p, q \in policies : f[p] = f[q] => p = q
  BY <1>2 DEF PoliciesSound, AreNumbered
<1>5. f \in Surjection(policies, policies') /\ f \in Injection(policies, policies')
  BY <1>1, <1>3, <1>4 DEF Surjection, Injection, IsInjective
<1>6. IsFiniteSet(policies') /\ Cardinality(policies') = Cardinality(policies)
  BY <1>5, FS_Surjection DEF PoliciesSound
<1>7. \A p \in policies' : p.id \in 1 .. Cardinality(policies') /\ IsPolicy(p)
  BY <1>1, <1>2, <1>6 DEF PoliciesSound, AreNumbered
<1>8. ASSUME NEW p \in policies', NEW q \in policies', p.id = q.id PROVE p = q
  <2>1. PICK x \in policies, y \in policies : p = f[x] /\ q = f[y]
    BY <1>1
  <2>2. x.id = y.id
    BY <1>2, <1>8, <2>1
  <2> QED
    BY <2>1, <2>2 DEF PoliciesSound, AreNumbered
<1> QED
  BY <1>6, <1>7, <1>8 DEF PoliciesSound, AreNumbered, IsPolicy

-----------------------------------------------------------------------------
(* The steps: evidence.                                                     *)

LEMMA ArchivedRows ==
  ASSUME NEW S, IsFiniteSet(S), \A o \in S : IsOverride(o)
  PROVE  /\ IsFiniteSet(Archived(S))
         /\ \A q \in Archived(S) : IsOverride(q) /\ ~q.active
         /\ \A o \in S : \E q \in Archived(S) : q.model = o.model /\ q.release = o.release /\ q.version = o.version
         /\ \A q \in Archived(S) : \E o \in S : q.model = o.model /\ q.release = o.release /\ q.version = o.version
<1> DEFINE f == [o \in S |-> [o EXCEPT !.active = FALSE]]
<1>1. Archived(S) = {f[o] : o \in S}
  BY DEF Archived
<1>2. \A o \in S : /\ IsOverride(f[o]) /\ ~f[o].active
                   /\ f[o].model = o.model /\ f[o].release = o.release /\ f[o].version = o.version
  <2> SUFFICES ASSUME NEW o \in S
               PROVE  LET q == [o EXCEPT !.active = FALSE]
                      IN /\ IsOverride(q) /\ ~q.active
                         /\ q.model = o.model /\ q.release = o.release /\ q.version = o.version
    OBVIOUS
  <2>1. IsOverride(o)
    OBVIOUS
  <2> QED
    BY <2>1 DEF IsOverride, OverrideColumns
<1>3. IsFiniteSet({f[o] : o \in S})
  <2> HIDE DEF f
  <2> QED
    BY ImageIsFinite
<1> HIDE DEF f
<1> QED
  BY <1>1, <1>2, <1>3

\* Rows that are archived still hold their versions.
LEMMA ArchivingKeepsOverrides ==
  ASSUME OverridesSound, NEW seen \in SUBSET overrides
  PROVE  LET S == (overrides \ seen) \cup Archived(seen)
         IN /\ IsFiniteSet(S)
            /\ \A o \in S : IsOverride(o) /\ VersionsUpTo(S, o.version, o.model, o.release)
            /\ \A o \in S : o.active => o \in overrides \ seen
            /\ \A n, m, id : VersionsUpTo(overrides, n, m, id) => VersionsUpTo(S, n, m, id)
            /\ \A o \in S : \E q \in overrides : q.model = o.model /\ q.release = o.release /\ q.version = o.version
<1> DEFINE A == Archived(seen)
           S == (overrides \ seen) \cup A
<1>1. IsFiniteSet(seen) /\ IsFiniteSet(overrides \ seen) /\ \A o \in overrides : IsOverride(o)
  BY FS_Subset, FS_Difference DEF OverridesSound
<1>2. /\ IsFiniteSet(A)
      /\ \A q \in A : IsOverride(q) /\ ~q.active
      /\ \A o \in seen : \E q \in A : q.model = o.model /\ q.release = o.release /\ q.version = o.version
      /\ \A q \in A : \E o \in seen : q.model = o.model /\ q.release = o.release /\ q.version = o.version
  BY <1>1, ArchivedRows
<1> HIDE DEF A
<1>3. IsFiniteSet(S)
  BY <1>1, <1>2, FS_Union
<1>4. \A o \in overrides : \E q \in S : q.model = o.model /\ q.release = o.release /\ q.version = o.version
  BY <1>2
<1>5. \A o \in S : \E q \in overrides : q.model = o.model /\ q.release = o.release /\ q.version = o.version
  BY <1>2
<1>6. \A o \in S : IsOverride(o) /\ (o.active => o \in overrides \ seen)
  BY <1>1, <1>2
<1> HIDE DEF S
<1>7. ASSUME NEW n, NEW m, NEW id, VersionsUpTo(overrides, n, m, id) PROVE VersionsUpTo(S, n, m, id)
  BY <1>4, <1>7 DEF VersionsUpTo
<1>8. \A o \in S : VersionsUpTo(S, o.version, o.model, o.release)
  <2> TAKE o \in S
  <2>1. PICK q \in overrides : q.model = o.model /\ q.release = o.release /\ q.version = o.version
    BY <1>5
  <2>2. VersionsUpTo(overrides, q.version, q.model, q.release)
    BY DEF OverridesSound
  <2> QED
    BY <1>7, <2>1, <2>2
<1> QED
  BY <1>3, <1>5, <1>6, <1>7, <1>8 DEF S, A

\* What was numbered stays numbered.
VersionsAreKept == \A n, m, id : VersionsUpTo(overrides, n, m, id) => VersionsUpTo(overrides', n, m, id)

LEMMA ClearKeepsOverrides ==
  ASSUME OverridesSound, NEW m, NEW id, ClearOverride(m, id)
  PROVE  OverridesSound' /\ VersionsAreKept
<1> DEFINE seen == ActiveOf(m, id)
           S == (overrides \ seen) \cup Archived(seen)
<1>1. overrides' = S
  BY DEF ClearOverride
<1>2. seen \in SUBSET overrides
  BY DEF ActiveOf, Of
<1> HIDE DEF seen
<1>3. /\ IsFiniteSet(S)
      /\ \A o \in S : IsOverride(o) /\ VersionsUpTo(S, o.version, o.model, o.release)
      /\ \A o \in S : o.active => o \in overrides \ seen
      /\ \A n, k, r : VersionsUpTo(overrides, n, k, r) => VersionsUpTo(S, n, k, r)
  BY <1>2, ArchivingKeepsOverrides
<1> HIDE DEF S
<1>4. \A o, q \in S : o.active /\ q.active /\ o.model = q.model /\ o.release = q.release => o = q
  BY <1>3 DEF OverridesSound, OneOverridePerRelease
<1>5. OverridesSound'
  BY <1>1, <1>3, <1>4 DEF OverridesSound, OneOverridePerRelease, IsOverride, VersionsUpTo
<1> QED
  BY <1>1, <1>3, <1>5 DEF VersionsAreKept

\* A version that is free is beyond every other: what a decision may have failed
\* to see has a version of its own, which this one would be.
LEMMA FreeVersionIsNewest ==
  ASSUME OverridesSound, NEW w, w.version \in Nat \ {0}, IsFreeVersion(w),
         NEW o \in Of(w.model, w.release)
  PROVE  o.version < w.version
<1>1. o \in overrides /\ o.model = w.model /\ o.release = w.release
  BY DEF Of
<1>2. o.version \in Nat /\ VersionsUpTo(overrides, o.version, w.model, w.release)
  BY <1>1 DEF OverridesSound, IsOverride
<1>3. o.version # w.version
  BY DEF IsFreeVersion
<1>4. ASSUME w.version < o.version PROVE FALSE
  <2>1. w.version \in 1 .. o.version
    BY <1>2, <1>4
  <2>2. PICK q \in overrides : q.model = w.model /\ q.release = w.release /\ q.version = w.version
    BY <1>2, <2>1 DEF VersionsUpTo
  <2> QED
    BY <2>2 DEF IsFreeVersion, Of
<1> QED
  BY <1>2, <1>3, <1>4

LEMMA CommitKeepsOverrides ==
  ASSUME OverridesSound, DeskSound, NEW e \in Engineers, CommitOverride(e)
  PROVE  OverridesSound' /\ VersionsAreKept
<1> DEFINE w == desk[e]
           active == ActiveOf(w.model, w.release)
           S == (overrides \ active) \cup Archived(active)
           new == [id |-> Cardinality(overrides) + 1, model |-> w.model, release |-> w.release,
                   decision |-> w.decision, version |-> w.version, active |-> TRUE]
<1>1. w.version \in Nat \ {0} /\ VersionsUpTo(overrides, w.version - 1, w.model, w.release)
  BY DEF CommitOverride, DeskSound, IsTask, IsTaskOver
<1>2. CASE ~IsFreeVersion(w)
  <2>1. overrides' = overrides
    BY <1>2 DEF CommitOverride
  <2> QED
    BY <2>1 DEF OverridesSound, OneOverridePerRelease, IsOverride, VersionsUpTo, VersionsAreKept
<1>3. CASE IsFreeVersion(w)
  <2>1. {o \in active : o.version < w.version} = active
    BY <1>1, <1>3, FreeVersionIsNewest DEF ActiveOf
  <2>2. overrides' = S \cup {new}
    BY <1>3, <2>1 DEF CommitOverride
  <2>3. active \in SUBSET overrides
    BY DEF ActiveOf, Of
  <2>4. \A o \in overrides : o.model = w.model /\ o.release = w.release /\ o.active => o \in active
    BY DEF ActiveOf, Of
  <2>5. IsOverride(new) /\ new.model = w.model /\ new.release = w.release /\ new.version = w.version
    <3>1. Cardinality(overrides) \in Nat
      BY FS_CardinalityType DEF OverridesSound
    <3> QED
      BY <1>1, <3>1 DEF IsOverride, OverrideColumns
  <2> HIDE DEF w, active, new
  <2>6. /\ IsFiniteSet(S)
        /\ \A o \in S : IsOverride(o) /\ VersionsUpTo(S, o.version, o.model, o.release)
        /\ \A o \in S : o.active => o \in overrides \ active
        /\ \A n, k, r : VersionsUpTo(overrides, n, k, r) => VersionsUpTo(S, n, k, r)
    BY <2>3, ArchivingKeepsOverrides
  <2> HIDE DEF S
  <2>7. IsFiniteSet(overrides')
    BY <2>2, <2>6, FS_AddElement
  <2>8. \A n, k, r : VersionsUpTo(S, n, k, r) => VersionsUpTo(overrides', n, k, r)
    BY <2>2 DEF VersionsUpTo
  <2>9. VersionsUpTo(overrides', new.version, new.model, new.release)
    <3>1. VersionsUpTo(overrides', w.version - 1, w.model, w.release)
      BY <1>1, <2>6, <2>8
    <3>2. ASSUME NEW v \in 1 .. w.version
          PROVE  \E o \in overrides' : o.model = w.model /\ o.release = w.release /\ o.version = v
      <4>1. CASE v = w.version
        BY <2>2, <2>5, <4>1
      <4>2. CASE v # w.version
        <5>1. v \in 1 .. w.version - 1
          BY <1>1, <4>2
        <5> QED
          BY <3>1, <5>1 DEF VersionsUpTo
      <4> QED
        BY <4>1, <4>2
    <3> QED
      BY <2>5, <3>2 DEF VersionsUpTo
  <2>10. \A o \in overrides' : IsOverride(o) /\ VersionsUpTo(overrides', o.version, o.model, o.release)
    BY <2>2, <2>5, <2>6, <2>8, <2>9
  <2>11. \A o, q \in overrides' : o.active /\ q.active /\ o.model = q.model /\ o.release = q.release => o = q
    BY <2>2, <2>4, <2>5, <2>6 DEF OverridesSound, OneOverridePerRelease
  <2>12. OverridesSound'
    BY <2>7, <2>10, <2>11 DEF OverridesSound, OneOverridePerRelease, IsOverride, VersionsUpTo
  <2>13. VersionsAreKept
    BY <2>6, <2>8 DEF VersionsAreKept
  <2> QED
    BY <2>12, <2>13
<1> QED
  BY <1>2, <1>3

\* The version that follows the standing decision: every earlier one was given.
NextOverride(m, id) == 1 + Greatest({0} \cup {o.version : o \in ActiveOf(m, id)})

LEMMA NextOverrideVersion ==
  ASSUME OverridesSound, NEW m, NEW id
  PROVE  NextOverride(m, id) \in Nat \ {0} /\ VersionsUpTo(overrides, NextOverride(m, id) - 1, m, id)
<1> DEFINE A == ActiveOf(m, id)
           f == [o \in A |-> o.version]
           V == {0} \cup {o.version : o \in A}
<1>1. A \subseteq overrides /\ \A o \in A : o.model = m /\ o.release = id
  BY DEF ActiveOf, Of
<1>2. IsFiniteSet(A)
  BY <1>1, FS_Subset DEF OverridesSound
<1>3. V = {0} \cup {f[o] : o \in A}
  OBVIOUS
<1>4. V \in SUBSET Nat /\ V # {}
  BY <1>1 DEF OverridesSound, IsOverride
<1>5. \A v \in V : v = 0 \/ \E o \in A : o.version = v
  OBVIOUS
<1>11. NextOverride(m, id) = 1 + Greatest(V)
  BY DEF NextOverride
<1> HIDE DEF A, f, V
<1>6. IsFiniteSet({f[o] : o \in A})
  BY <1>2, ImageIsFinite
<1>7. IsFiniteSet(V)
  BY <1>3, <1>6, FS_Singleton, FS_Union
<1>8. Greatest(V) \in V /\ Greatest(V) \in Nat
  BY <1>4, <1>7, GreatestExists
<1>9. VersionsUpTo(overrides, Greatest(V), m, id)
  <2>1. CASE Greatest(V) = 0
    BY <2>1 DEF VersionsUpTo
  <2>2. CASE \E o \in A : o.version = Greatest(V)
    BY <1>1, <2>2 DEF OverridesSound
  <2> QED
    BY <1>5, <1>8, <2>1, <2>2
<1>10. NextOverride(m, id) \in Nat \ {0} /\ NextOverride(m, id) - 1 = Greatest(V)
  BY <1>8, <1>11
<1> QED
  BY <1>9, <1>10, Zenon

-----------------------------------------------------------------------------
(* The steps: exceptions, plans and the world around.                       *)

\* A row that stands on the policies of this moment.
ExceptionRow(form, id, shown) == [CandidateException(form) EXCEPT !.id = id, !.shown = shown]

LEMMA RowsHaveScopes ==
  ASSUME now \in Nat, NEW form \in ExceptionForms, NEW id \in Nat, NEW shown
  PROVE  /\ HasScope(ExceptionRow(form, id, shown)) /\ ExceptionRow(form, id, shown).id = id
         /\ ExceptionRow(form, id, shown).decided = now
         /\ ExceptionRow(form, id, shown).snapshots = Snapshots(form)
         /\ ExceptionRow(form, id, shown).shown = shown
<1>1. ExceptionColumns \subseteq DOMAIN form /\ \E i \in DOMAIN ScopeOrder : ScopeOrder[i] = form.scope
  BY GovernanceAssumption DEF GovernanceConstants
<1> DEFINE c == CandidateException(form)
<1>2. /\ DOMAIN c = DOMAIN form /\ c.scope = form.scope /\ c.decided = now
      /\ c.snapshots = Snapshots(form)
  BY <1>1 DEF CandidateException, ExceptionColumns
<1> HIDE DEF c
<1> DEFINE row == [c EXCEPT !.id = id, !.shown = shown]
<1>3. /\ DOMAIN row = DOMAIN form /\ row.scope = form.scope /\ row.decided = now
      /\ row.snapshots = Snapshots(form) /\ row.id = id /\ row.shown = shown
  BY <1>1, <1>2 DEF ExceptionColumns
<1>4. ExceptionRow(form, id, shown) = row
  BY DEF ExceptionRow, c
<1> HIDE DEF row
<1> QED
  BY <1>1, <1>3, <1>4 DEF HasScope

\* A preview is confirmed only while it is true: what it showed still holds.
LEMMA CreateKeepsExceptions ==
  ASSUME ExceptionsSound, DeskSound, now \in Nat, NEW e \in Engineers, CreateException(e)
  PROVE  ExceptionsSound'
<1> DEFINE w == desk[e]
           n == Cardinality(exceptions) + 1
           row == ExceptionRow(w.form, n, w.shown)
<1>1. w.form \in ExceptionForms /\ w.token[2] = w.shown
  BY DEF CreateException, DeskSound, IsTask, IsTaskOver
<1>2. CASE w.token = ExceptionToken(w.form) /\ exceptions' = exceptions \cup {row}
  <2>1. n \in Nat
    BY FS_CardinalityType DEF ExceptionsSound
  <2>2. Snapshots(w.form) = w.shown
    <3>1. ExceptionToken(w.form)[2] = Snapshots(w.form)
      BY DEF ExceptionToken
    <3> QED
      BY <1>1, <1>2, <3>1
  <2> HIDE DEF w, n
  <2>3. HasScope(row) /\ row.id = n /\ row.decided = now /\ row.snapshots = Snapshots(w.form) /\ row.shown = w.shown
    BY <1>1, <2>1, RowsHaveScopes
  <2> HIDE DEF row
  <2>4. IsFiniteSet(exceptions')
    BY <1>2, FS_AddElement DEF ExceptionsSound
  <2> QED
    BY <1>2, <2>1, <2>2, <2>3, <2>4 DEF ExceptionsSound, HasScope
<1>3. CASE exceptions' = exceptions
  BY <1>3 DEF ExceptionsSound, HasScope
<1> QED
  BY <1>2, <1>3 DEF CreateException, ExceptionRow

LEMMA EndingKeepsExceptions ==
  ASSUME ExceptionsSound, NEW x \in exceptions, Supersede(x)
  PROVE  ExceptionsSound'
<1> DEFINE y == [x EXCEPT !.superseded = now]
<1>1. exceptions' = (exceptions \ {x}) \cup {y}
  BY DEF Supersede
<1>2. HasScope(x) /\ x.id \in Nat /\ x.decided \in Nat /\ x.snapshots = x.shown
  BY DEF ExceptionsSound
<1>3. HasScope(y) /\ y.id \in Nat /\ y.decided \in Nat /\ y.snapshots = y.shown
  BY <1>2 DEF HasScope, ExceptionColumns
<1> HIDE DEF y
<1>4. IsFiniteSet(exceptions')
  BY <1>1, FS_Subset, FS_AddElement DEF ExceptionsSound
<1> QED
  BY <1>1, <1>3, <1>4 DEF ExceptionsSound, HasScope

-----------------------------------------------------------------------------
(* What devices are told.                                                   *)

\* Anything but a review takes a current release that is sound, a policy, and an
\* image that its model is known to run.
IsEarned(f) ==
  /\ f.current # None /\ ~IsBarred(f.current) /\ f.compatibility = "COMPATIBLE"
  /\ f.policy.policy # None /\ f.image.status = "RESOLVED"
  /\ f.image.release # None => IsEligible(f.image.release)

LEMMA AdviceIsEarned == ASSUME NEW f PROVE Compliance(f).recommendation # "REVIEW_REQUIRED" => IsEarned(f)
<1> SUFFICES ASSUME Compliance(f).recommendation # "REVIEW_REQUIRED" PROVE IsEarned(f)
  OBVIOUS
<1>1. \A c : Blind(c).recommendation = "REVIEW_REQUIRED"
  BY DEF Blind
<1> DEFINE Within(low, mid, high) == ComplianceWithin(f, f.policy.policy, low, mid, high, Relation(low, mid, high))
           W == Within(Order(f.current, f.minimum), Order(f.current, f.preferred), Order(f.current, f.maximum))
<1>2. /\ ~(f.current # None /\ IsBarred(f.current)) /\ f.compatibility # "INCOMPATIBLE" /\ f.current # None
      /\ f.policy.policy # None /\ f.preferred # None /\ Compliance(f) = W
  <2> HIDE DEF W
  <2>1. Compliance(f) = IF f.current # None /\ IsBarred(f.current) THEN Blind("BLOCKED_RELEASE")
          ELSE IF f.compatibility = "INCOMPATIBLE" THEN Blind("INCOMPATIBLE")
          ELSE IF f.current = None THEN Blind(IF f.observed THEN "NOT_COMPARABLE" ELSE "UNKNOWN_FIRMWARE")
          ELSE IF f.policy.policy = None THEN Blind("NO_POLICY")
          ELSE IF f.preferred = None THEN Blind("TARGET_UNRESOLVED")
          ELSE W
    BY DEF Compliance, W
  <2> QED
    BY <1>1, <2>1, Zenon
<1>3. ASSUME NEW low, NEW mid, NEW high, Within(low, mid, high).recommendation # "REVIEW_REQUIRED"
      PROVE  /\ f.image.status = "RESOLVED" /\ f.compatibility = "COMPATIBLE"
             /\ f.image.release # None => IsEligible(f.image.release)
  BY <1>3 DEF ComplianceWithin
<1> QED
  BY <1>2, <1>3 DEF IsEarned

\* An image that is resolved is a row of the catalog that the model is known to
\* run.
IsImageFor(r, model) == r \in Catalog /\ r.active /\ CompatibilityWith(model, r).status = "COMPATIBLE"

LEMMA CatalogIsFinite == CatalogSound => IsFiniteSet(Catalog) /\ \A r \in Catalog : r # None /\ r.id \in ReleaseIds /\ catalog[r.id] = r
<1> SUFFICES ASSUME CatalogSound PROVE IsFiniteSet(Catalog) /\ \A r \in Catalog : r # None /\ r.id \in ReleaseIds /\ catalog[r.id] = r
  OBVIOUS
<1>1. IsFiniteSet(ReleaseIds)
  BY GovernanceAssumption DEF GovernanceConstants
<1>2. IsFiniteSet(Catalog)
  BY <1>1, ImageIsFinite DEF Catalog
<1>3. \A i \in ReleaseIds : catalog[i] # None /\ catalog[i].id = i
  BY GovernanceAssumption DEF GovernanceConstants, CatalogSound
<1> QED
  BY <1>2, <1>3 DEF Catalog

LEMMA ResolvedImage ==
  ASSUME CatalogSound, NEW d, NEW preferred
  PROVE  /\ ImageOf(d, preferred).release # None => IsImageFor(ImageOf(d, preferred).release, ModelOf(d))
         /\ ImageOf(d, preferred).status = "RESOLVED" => ImageOf(d, preferred).release # None
<1>1. CASE preferred = None
  <2>1. ImageOf(d, preferred) = [release |-> None, status |-> None]
    BY <1>1 DEF ImageOf
  <2>2. None # "RESOLVED"
    BY GovernanceAssumption DEF GovernanceConstants
  <2>3. ImageOf(d, preferred).release = None /\ ImageOf(d, preferred).status = None
    BY <2>1
  <2> QED
    BY <2>2, <2>3
<1>2. CASE preferred # None
  <2> DEFINE candidates == {r \in Catalog : /\ r.active /\ r.vendor = preferred.vendor
                                            /\ r.platform = preferred.platform /\ r.logical = preferred.logical
                                            /\ preferred.train \in {None, r.train}}
             Those(status) == {r \in candidates : Compatibility(ModelOf(d), r, rules, overrides, now).status = status}
             good == Those("COMPATIBLE")
             image == ImageOf(d, preferred)
  <2>1. image = [release |-> IF Cardinality(good) = 1 THEN Only(good) ELSE None,
                 status |-> CASE Cardinality(good) = 1 -> "RESOLVED"
                              [] Cardinality(good) > 1 -> "AMBIGUOUS"
                              [] OTHER -> IF Those("UNKNOWN") # {} THEN "UNKNOWN" ELSE "INCOMPATIBLE"]
    BY <1>2 DEF ImageOf, CompatibleImage
  <2>2. \A r \in good : IsImageFor(r, ModelOf(d))
    BY DEF IsImageFor, CompatibilityWith
  <2>3. good \subseteq Catalog
    OBVIOUS
  <2> HIDE DEF good, image, Those
  <2>4. IsFiniteSet(good)
    BY <2>3, CatalogIsFinite, FS_Subset
  <2>5. Cardinality(good) = 1 => Only(good) \in good
    BY <2>4, FS_Singleton DEF Only
  <2>6. image.release # None => Cardinality(good) = 1 /\ image.release = Only(good)
    BY <2>1
  <2>7. image.status = "RESOLVED" => Cardinality(good) = 1
    <3> SUFFICES ASSUME Cardinality(good) # 1 PROVE image.status # "RESOLVED"
      OBVIOUS
    <3>1. image.status \in {"AMBIGUOUS", "UNKNOWN", "INCOMPATIBLE"}
      <4>1. CASE Cardinality(good) > 1
        BY <2>1, <4>1
      <4>2. CASE ~(Cardinality(good) > 1)
        BY <2>1, <4>2
      <4> QED
        BY <4>1, <4>2
    <3> QED
      BY <3>1
  <2>8. Only(good) \in good => Only(good) # None
    BY <2>3, CatalogIsFinite
  <2>9. Cardinality(good) = 1 => image.release = Only(good)
    BY <2>1
  <2>10. image.release # None => IsImageFor(image.release, ModelOf(d))
    BY <2>2, <2>5, <2>6
  <2>11. image.status = "RESOLVED" => image.release # None
    BY <2>5, <2>7, <2>8, <2>9
  <2> QED
    BY <2>10, <2>11 DEF image
<1> QED
  BY <1>1, <1>2

LEMMA ImageOfFacts ==
  ASSUME CatalogSound, NEW d
  PROVE  /\ Facts(d).image.release # None => IsImageFor(Facts(d).image.release, ModelOf(d))
         /\ Facts(d).image.status = "RESOLVED" => Facts(d).image.release # None
<1> DEFINE preferred == PreferredRelease(EffectivePolicy(d).policy)
<1>1. Facts(d).image = ImageOf(d, preferred)
  BY DEF Facts, FactsUnder
<1> HIDE DEF preferred
<1> QED
  BY <1>1, ResolvedImage

\* The one standing decision on the image of a compatible model allows it.
LEMMA ImageIsAllowed ==
  ASSUME DevicesSound, OverridesSound, NEW d \in Devices, NEW r,
         CompatibilityWith(ModelOf(d), r).status = "COMPATIBLE", NEW o \in ActiveOf(devices[d].model, r.id)
  PROVE  o.decision = "ALLOW"
<1>1. ModelOf(d).id = devices[d].model
  BY GovernanceAssumption DEF GovernanceConstants, ModelOf, DevicesSound, IsDevice
<1> DEFINE chosen == {q \in overrides : q.active /\ q.model = ModelOf(d).id /\ q.release = r.id}
<1>2. o \in overrides /\ o \in chosen /\ o.version \in Nat /\ o.id \in Nat
  BY <1>1 DEF ActiveOf, Of, OverridesSound, IsOverride
<1>3. chosen = {o}
  BY <1>2 DEF OverridesSound, OneOverridePerRelease
<1>4. NewestOverride({o}) = o
  BY <1>2 DEF NewestOverride
<1>5. ModelOf(d).vendor = r.vendor
  BY DEF CompatibilityWith, Compatibility, Verdict
<1>6. CompatibilityWith(ModelOf(d), r)
        = IF chosen # {} THEN Verdict(NewestOverride(chosen).decision = "ALLOW", "MANUAL_OVERRIDE")
          ELSE RuleVerdict(ModelOf(d), r, {rule \in rules : /\ RuleIsActive(rule, now)
                                              /\ \/ rule.model = ModelOf(d).id
                                                 \/ ModelOf(d).family # None /\ rule.family = ModelOf(d).family})
  BY <1>5 DEF CompatibilityWith, Compatibility
<1> HIDE DEF chosen
<1>7. CompatibilityWith(ModelOf(d), r) = Verdict(o.decision = "ALLOW", "MANUAL_OVERRIDE")
  BY <1>3, <1>4, <1>6
<1> QED
  BY <1>7 DEF Verdict

LEMMA ToldRight == ASSUME GovernanceInv PROVE DevicesAreToldRight
<1> SUFFICES ASSUME NEW d \in Devices
             PROVE  LET f == Facts(d)
                        r == Compliance(f).recommendation
                    IN /\ r \in {"UPDATE_REQUIRED", "UPDATE_RECOMMENDED", "PLATFORM_MIGRATION"} =>
                            /\ f.image.release # None /\ f.image.release.active /\ ~IsBarred(f.image.release)
                            /\ f.image.release.eligibility \in {"ALLOWED", "PREFERRED"}
                            /\ CompatibilityWith(ModelOf(d), f.image.release).status = "COMPATIBLE"
                            /\ \A o \in ActiveOf(devices[d].model, f.image.release.id) : o.decision = "ALLOW"
                       /\ r = "NO_ACTION" => f.current # None /\ ~IsBarred(f.current) /\ f.compatibility = "COMPATIBLE"
  BY DEF DevicesAreToldRight
<1> DEFINE f == Facts(d)
           image == f.image.release
<1>1. Compliance(f).recommendation # "REVIEW_REQUIRED" => IsEarned(f)
  BY AdviceIsEarned
<1>2. /\ image # None => IsImageFor(image, ModelOf(d))
      /\ f.image.status = "RESOLVED" => image # None
  BY ImageOfFacts DEF GovernanceInv
<1> HIDE DEF f
<1>3. ASSUME IsEarned(f)
      PROVE  /\ image # None /\ image.active /\ ~IsBarred(image) /\ image.eligibility \in {"ALLOWED", "PREFERRED"}
             /\ CompatibilityWith(ModelOf(d), image).status = "COMPATIBLE"
  BY <1>2, <1>3 DEF IsEarned, IsEligible, IsImageFor
<1>4. ASSUME IsEarned(f) PROVE \A o \in ActiveOf(devices[d].model, image.id) : o.decision = "ALLOW"
  BY <1>3, <1>4, ImageIsAllowed DEF GovernanceInv
<1>5. IsEarned(f) => f.current # None /\ ~IsBarred(f.current) /\ f.compatibility = "COMPATIBLE"
  BY DEF IsEarned
<1> DEFINE recommendation == Compliance(f).recommendation
<1> HIDE DEF image
<1>6. /\ recommendation \in {"UPDATE_REQUIRED", "UPDATE_RECOMMENDED", "PLATFORM_MIGRATION"} => IsEarned(f)
      /\ recommendation = "NO_ACTION" => IsEarned(f)
  BY <1>1
<1> QED
  BY <1>3, <1>4, <1>5, <1>6 DEF f, image

\* The fingerprint of a policy names the image.
LEMMA FingerprintNamesImage ==
  ASSUME NEW f, f.policy.policy # None
  PROVE  /\ PlanFingerprint(f) = PolicyFingerprint(f) /\ PlanFingerprint(f) # <<>>
         /\ PlanFingerprint(f)[4] = IF f.image.release = None THEN None ELSE f.image.release.id
BY DEF PlanFingerprint, PolicyFingerprint

LEMMA FreshTargets == ASSUME GovernanceInv PROVE FreshTargetsAreSafe
<1> SUFFICES ASSUME NEW p \in plans, StaleReasons(p) = {}
             PROVE  /\ catalog[p.target].active /\ ~IsBarred(catalog[p.target])
                    /\ Facts(p.device).image.release = catalog[p.target]
                    /\ Accepted(p.device) # None => Accepted(p.device).id = p.acknowledged
  BY DEF FreshTargetsAreSafe
<1> DEFINE f == Facts(p.device)
           image == f.image.release
           x == Accepted(p.device)
<1>1. /\ p.policy = PlanFingerprint(f) /\ catalog[p.target].active /\ ~IsBarred(catalog[p.target])
      /\ ~(x # None /\ x.id # p.acknowledged)
  <2> HIDE DEF f, x
  <2> QED
    BY DEF StaleReasons, f, x
<1>2. p.target \in ReleaseIds /\ p.target # None /\ p.policy # <<>> /\ p.policy[4] = p.target
  BY GovernanceAssumption DEF GovernanceInv, PlansSound, GovernanceConstants
<1>3. CatalogSound
  BY DEF GovernanceInv
<1>4. image # None => image \in Catalog
  BY <1>3, ImageOfFacts DEF IsImageFor
<1> HIDE DEF f, x
<1>5. f.policy.policy # None
  BY <1>1, <1>2 DEF PlanFingerprint
<1>6. image # None /\ image.id = p.target
  BY <1>1, <1>2, <1>5, FingerprintNamesImage
<1>7. image = catalog[p.target]
  BY <1>3, <1>4, <1>6, CatalogIsFinite
<1> QED
  BY <1>1, <1>7 DEF f, x

-----------------------------------------------------------------------------
(* Every step keeps what is kept.                                           *)

LEMMA FreezeKeepsPlans ==
  ASSUME CatalogSound, PlansSound, NEW d \in Devices, NEW acknowledged, FreezeTarget(d, acknowledged)
  PROVE  PlansSound'
<1> DEFINE f == Facts(d)
           p == FrozenTarget(d, f, Accepted(d))
<1>1. plans' = plans \cup {p} /\ MayPlan(f, Accepted(d), acknowledged)
  BY DEF FreezeTarget
<1>2. p.device = d /\ p.target = f.image.release.id /\ p.policy = PlanFingerprint(f)
  BY DEF FrozenTarget
<1>3. f.image.status = "RESOLVED" => f.image.release # None
  BY ImageOfFacts
<1>4. f.image.release # None => f.image.release \in Catalog
  BY ImageOfFacts DEF IsImageFor
<1> HIDE DEF f, p
<1>5. IsEarned(f) /\ f.image.status = "RESOLVED"
  BY <1>1, AdviceIsEarned DEF MayPlan
<1>6. f.image.release # None /\ f.image.release.id \in ReleaseIds
  BY <1>3, <1>4, <1>5, CatalogIsFinite
<1>7. PlanFingerprint(f) # <<>> /\ PlanFingerprint(f)[4] = f.image.release.id
  BY <1>5, <1>6, FingerprintNamesImage DEF IsEarned
<1> QED
  BY <1>1, <1>2, <1>6, <1>7 DEF PlansSound

\* A task that is taken up, or put down, leaves the other desks as they were.
LEMMA DesksGoOn ==
  ASSUME DeskSound, VersionsAreKept, NEW e \in Engineers, NEW w, desk' = [desk EXCEPT ![e] = w],
         IsTaskOver(overrides', w)
  PROVE  DeskSound'
<1>1. ASSUME NEW v, IsTaskOver(overrides, v) PROVE IsTaskOver(overrides', v)
  <2>1. v.task = "override" => VersionsUpTo(overrides', v.version - 1, v.model, v.release)
    BY <1>1 DEF IsTaskOver, VersionsAreKept
  <2> QED
    BY <1>1, <2>1 DEF IsTaskOver
<1>2. desk' = [o \in Engineers |-> desk'[o]]
  BY DEF DeskSound
<1>3. ASSUME NEW o \in Engineers PROVE IsTaskOver(overrides', desk'[o])
  <2>1. IsTaskOver(overrides, desk[o])
    BY DEF DeskSound, IsTask
  <2>2. desk'[o] = IF o = e THEN w ELSE desk[o]
    BY DEF DeskSound
  <2> QED
    BY <1>1, <2>1, <2>2
<1> QED
  BY <1>2, <1>3 DEF DeskSound, IsTask

LEMMA DesksStay ==
  ASSUME DeskSound, VersionsAreKept, UNCHANGED desk
  PROVE  DeskSound'
<1>1. ASSUME NEW v, IsTaskOver(overrides, v) PROVE IsTaskOver(overrides', v)
  <2>1. v.task = "override" => VersionsUpTo(overrides', v.version - 1, v.model, v.release)
    BY <1>1 DEF IsTaskOver, VersionsAreKept
  <2> QED
    BY <1>1, <2>1 DEF IsTaskOver
<1> QED
  BY <1>1 DEF DeskSound, IsTask

LEMMA PuttingDown ==
  ASSUME DeskSound, VersionsAreKept, NEW e \in Engineers, Leave(e)
  PROVE  DeskSound'
<1>1. IsTaskOver(overrides', Nothing)
  BY DEF IsTaskOver, Nothing
<1> QED
  BY <1>1, DesksGoOn DEF Leave

\* What an engineer takes up is sound.
LEMMA TakingUp ==
  ASSUME GovernanceInv, NEW e \in Engineers, NEW w, Take(e, w), IsTask(w), UNCHANGED overrides
  PROVE  DeskSound'
<1>1. VersionsAreKept
  BY DEF VersionsAreKept
<1> QED
  BY <1>1, DesksGoOn DEF Take, GovernanceInv, IsTask

LEMMA SetIsTakenUp ==
  ASSUME GovernanceInv, NEW e \in Engineers, NEW models \in SUBSET DOMAIN Models, NEW id, BeginSet(e, models, id)
  PROVE  DeskSound'
<1> DEFINE changed == {m \in models : InForce(m) = None \/ InForce(m).mode # "EXACT" \/ InForce(m).target # id}
           version == [m \in changed |-> IF InForce(m) = None THEN 1 ELSE InForce(m).version + 1]
           w == [task |-> "set", release |-> catalog[id], models |-> changed, version |-> version]
<1>1. Take(e, w) /\ UNCHANGED overrides
  BY DEF BeginSet
<1>2. \A m \in DOMAIN Models : InForce(m) # None => InForce(m).version \in Nat
  BY InForceIsPolicy, GovernanceAssumption DEF GovernanceInv, GovernanceConstants, IsPolicy
<1>3. changed \subseteq DOMAIN Models
  OBVIOUS
<1> HIDE DEF changed
<1>4. version \in [changed -> Nat]
  BY <1>2, <1>3
<1> HIDE DEF version
<1>5. IsTask(w)
  BY <1>3, <1>4 DEF IsTask, IsTaskOver
<1> HIDE DEF w
<1> QED
  BY <1>1, <1>5, TakingUp

LEMMA SaveIsTakenUp ==
  ASSUME GovernanceInv, NEW e \in Engineers, NEW m \in DOMAIN Models, NEW form, BeginSave(e, m, form)
  PROVE  DeskSound'
<1> DEFINE p == Configuration(m, form)
           q == [p EXCEPT !.version = NextVersion(p)]
           w == [task |-> "save", policy |-> q]
<1>1. Take(e, w) /\ UNCHANGED overrides
  BY DEF BeginSave
<1>2. NextVersion(p) \in Nat
  <2> HIDE DEF p
  <2> QED
    BY NextVersionIsNumber DEF GovernanceInv
<1>3. None \notin DOMAIN Models
  BY GovernanceAssumption DEF GovernanceConstants
<1>4. IsPolicy(q)
  BY <1>2, <1>3, SavedRow DEF GovernanceInv
<1> HIDE DEF q
<1>5. IsTask(w)
  BY <1>4 DEF IsTask, IsTaskOver
<1> HIDE DEF w
<1> QED
  BY <1>1, <1>5, TakingUp

LEMMA OtherTasksAreTakenUp ==
  ASSUME GovernanceInv, NEW e \in Engineers
  PROVE  /\ \A models : BeginClear(e, models) => DeskSound'
         /\ \A m, id, decision : BeginOverride(e, m, id, decision) => DeskSound'
         /\ \A form \in ExceptionForms : PreviewException(e, form) => DeskSound'
         /\ \A d, state : BeginDecision(e, d, state) => DeskSound'
<1>1. ASSUME NEW models, BeginClear(e, models) PROVE DeskSound'
  <2> DEFINE w == [task |-> "clear", models |-> {m \in models : InForce(m) # None}]
  <2>1. Take(e, w) /\ UNCHANGED overrides
    BY <1>1 DEF BeginClear
  <2>2. IsTask(w)
    BY DEF IsTask, IsTaskOver
  <2> HIDE DEF w
  <2> QED
    BY <2>1, <2>2, TakingUp
<1>2. ASSUME NEW m, NEW id, NEW decision, BeginOverride(e, m, id, decision) PROVE DeskSound'
  <2> DEFINE w == [task |-> "override", model |-> m, release |-> id, decision |-> decision, version |-> NextOverride(m, id)]
  <2>1. Take(e, w) /\ UNCHANGED overrides
    BY <1>2 DEF BeginOverride, NextOverride
  <2>2. NextOverride(m, id) \in Nat \ {0} /\ VersionsUpTo(overrides, NextOverride(m, id) - 1, m, id)
    BY NextOverrideVersion DEF GovernanceInv
  <2>3. IsTask(w)
    BY <2>2 DEF IsTask, IsTaskOver
  <2> HIDE DEF w
  <2> QED
    BY <2>1, <2>3, TakingUp
<1>3. ASSUME NEW form \in ExceptionForms, PreviewException(e, form) PROVE DeskSound'
  <2> DEFINE w == [task |-> "exception", form |-> form, token |-> ExceptionToken(form), shown |-> Snapshots(form)]
  <2>1. Take(e, w) /\ UNCHANGED overrides
    BY <1>3 DEF PreviewException
  <2>2. IsTask(w)
    BY DEF IsTask, IsTaskOver, ExceptionToken
  <2> HIDE DEF w
  <2> QED
    BY <2>1, <2>2, TakingUp
<1>4. ASSUME NEW d, NEW state, BeginDecision(e, d, state) PROVE DeskSound'
  <2> DEFINE w == [task |-> "decide", device |-> d, state |-> state, target |-> InForce(devices[d].model).target]
  <2>1. Take(e, w) /\ UNCHANGED overrides
    BY <1>4 DEF BeginDecision
  <2>2. IsTask(w)
    BY DEF IsTask, IsTaskOver
  <2> HIDE DEF w
  <2> QED
    BY <2>1, <2>2, TakingUp
<1> QED
  BY <1>1, <1>2, <1>3, <1>4

\* What an action leaves alone stays sound.
LEMMA WhatStaysIsSound ==
  ASSUME GovernanceInv
  PROVE  /\ UNCHANGED now => (now \in Nat)'
         /\ UNCHANGED catalog => CatalogSound'
         /\ UNCHANGED devices => DevicesSound'
         /\ UNCHANGED policies => PoliciesSound'
         /\ UNCHANGED overrides => OverridesSound' /\ VersionsAreKept
         /\ UNCHANGED exceptions => ExceptionsSound'
         /\ UNCHANGED plans => PlansSound'
<1>1. UNCHANGED now => (now \in Nat)'
  BY DEF GovernanceInv
<1>2. UNCHANGED catalog => CatalogSound'
  BY DEF GovernanceInv, CatalogSound
<1>3. UNCHANGED devices => DevicesSound'
  BY DEF GovernanceInv, DevicesSound
<1>4. UNCHANGED policies => PoliciesSound'
  BY DEF GovernanceInv, PoliciesSound
<1>5. UNCHANGED overrides => OverridesSound' /\ VersionsAreKept
  BY DEF GovernanceInv, OverridesSound, OneOverridePerRelease, VersionsAreKept
<1>6. UNCHANGED exceptions => ExceptionsSound'
  BY DEF GovernanceInv, ExceptionsSound
<1>7. UNCHANGED plans => PlansSound'
  BY DEF GovernanceInv, PlansSound
<1> QED
  BY <1>1, <1>2, <1>3, <1>4, <1>5, <1>6, <1>7

\* A release may be decided on again and again: its identity stays.
LEMMA DecideKeepsCatalog ==
  ASSUME CatalogSound, NEW id \in ReleaseIds, NEW s \in Standings, Decide(id, s)
  PROVE  CatalogSound'
<1> DEFINE r == [catalog[id] EXCEPT !.state = s.state, !.eligibility = s.eligibility]
<1>1. catalog' = [catalog EXCEPT ![id] = r]
  BY DEF Decide
<1>2. catalog[id] \in Standing(id)
  BY DEF CatalogSound
<1>3. r = [FirstCatalog[id] EXCEPT !.state = s.state, !.eligibility = s.eligibility]
  <2>1. CASE catalog[id] = FirstCatalog[id]
    BY <2>1
  <2>2. ASSUME NEW u \in Standings,
               catalog[id] = [FirstCatalog[id] EXCEPT !.state = u.state, !.eligibility = u.eligibility]
        PROVE  r = [FirstCatalog[id] EXCEPT !.state = s.state, !.eligibility = s.eligibility]
    BY <2>2
  <2> QED
    BY <1>2, <2>1, <2>2 DEF Standing
<1>4. r \in Standing(id)
  BY <1>3 DEF Standing
<1> HIDE DEF r
<1> QED
  BY <1>1, <1>4 DEF CatalogSound

LEMMA ChangeKeepsDevices ==
  ASSUME DevicesSound, NEW d \in Devices, NEW device \in ChangedDevice(devices[d]), ChangeDevice(d, device)
  PROVE  DevicesSound'
<1>1. devices' = [devices EXCEPT ![d] = device]
  BY DEF ChangeDevice
<1>2. IsDevice(devices[d])
  BY DEF DevicesSound
<1>3. IsDevice(device)
  BY <1>2 DEF ChangedDevice, IsDevice
<1> QED
  BY <1>1, <1>3 DEF DevicesSound

LEMMA GovernanceStarts == GovernanceInit => GovernanceInv
<1> SUFFICES ASSUME GovernanceInit PROVE GovernanceInv
  OBVIOUS
<1>1. CatalogSound
  BY GovernanceAssumption DEF GovernanceInit, GovernanceConstants, CatalogSound, Standing
<1>2. DevicesSound
  BY GovernanceAssumption DEF GovernanceInit, GovernanceConstants, DevicesSound
<1>3. PoliciesSound
  BY GovernanceAssumption DEF GovernanceInit, GovernanceConstants, PoliciesSound
<1>4. OverridesSound /\ ExceptionsSound /\ PlansSound
  BY FS_EmptySet DEF GovernanceInit, OverridesSound, OneOverridePerRelease, ExceptionsSound, PlansSound
<1>5. DeskSound
  BY DEF GovernanceInit, DeskSound, IsTask, IsTaskOver, Nothing
<1>6. now \in Nat
  BY DEF GovernanceInit
<1> QED
  BY <1>1, <1>2, <1>3, <1>4, <1>5, <1>6 DEF GovernanceInv

LEMMA GovernanceStep == GovernanceInv /\ [GovernanceNext]_governanceVars => GovernanceInv'
<1> SUFFICES ASSUME GovernanceInv, [GovernanceNext]_governanceVars PROVE GovernanceInv'
  OBVIOUS
<1> USE WhatStaysIsSound
<1>1. /\ now \in Nat /\ CatalogSound /\ DevicesSound /\ PoliciesSound
      /\ OverridesSound /\ ExceptionsSound /\ PlansSound /\ DeskSound
  BY DEF GovernanceInv
<1>2. CASE UNCHANGED governanceVars
  BY <1>1, <1>2, DesksStay DEF governanceVars, GovernanceInv
<1>3. ASSUME NEW e \in Engineers, NEW models \in SUBSET DOMAIN Models, NEW id, BeginSet(e, models, id)
      PROVE  GovernanceInv'
  <2>1. DeskSound'
    BY <1>3, SetIsTakenUp
  <2> QED
    BY <1>3, <2>1 DEF BeginSet, GovernanceInv
<1>4. ASSUME NEW e \in Engineers, NEW models, BeginClear(e, models) PROVE GovernanceInv'
  <2>1. DeskSound'
    BY <1>4, OtherTasksAreTakenUp
  <2> QED
    BY <1>4, <2>1 DEF BeginClear, GovernanceInv
<1>5. ASSUME NEW e \in Engineers, NEW m \in DOMAIN Models, NEW form, BeginSave(e, m, form) PROVE GovernanceInv'
  <2>1. DeskSound'
    BY <1>5, SaveIsTakenUp
  <2>2. now' \in Nat
    BY <1>1, <1>5 DEF BeginSave, Stamp
  <2> QED
    BY <1>5, <2>1, <2>2 DEF BeginSave, GovernanceInv
<1>6. ASSUME NEW e \in Engineers, CommitSet(e) PROVE GovernanceInv'
  <2>1. PoliciesSound'
    BY <1>1, <1>6, SetKeepsPolicies
  <2>2. now' \in Nat
    BY <1>1, <1>6 DEF CommitSet, Stamp
  <2>3. DeskSound'
    BY <1>1, <1>6, PuttingDown DEF CommitSet
  <2> QED
    BY <1>6, <2>1, <2>2, <2>3 DEF CommitSet, GovernanceInv
<1>7. ASSUME NEW e \in Engineers, CommitClear(e) PROVE GovernanceInv'
  <2>1. PoliciesSound'
    BY <1>1, <1>7, ClearKeepsPolicies
  <2>2. now' \in Nat
    BY <1>1, <1>7 DEF CommitClear, Stamp
  <2>3. DeskSound'
    BY <1>1, <1>7, PuttingDown DEF CommitClear
  <2> QED
    BY <1>7, <2>1, <2>2, <2>3 DEF CommitClear, GovernanceInv
<1>8. ASSUME NEW e \in Engineers, CommitSave(e) PROVE GovernanceInv'
  <2>1. PoliciesSound'
    BY <1>1, <1>8, SaveKeepsPolicies
  <2>2. now' \in Nat
    BY <1>1, <1>8 DEF CommitSave, Stamp
  <2>3. DeskSound'
    BY <1>1, <1>8, PuttingDown DEF CommitSave
  <2> QED
    BY <1>8, <2>1, <2>2, <2>3 DEF CommitSave, GovernanceInv
<1>9. ASSUME NEW e \in Engineers, CommitOverride(e) PROVE GovernanceInv'
  <2>1. OverridesSound' /\ VersionsAreKept
    BY <1>1, <1>9, CommitKeepsOverrides
  <2>2. DeskSound'
    BY <1>1, <1>9, <2>1, PuttingDown DEF CommitOverride
  <2> QED
    BY <1>9, <2>1, <2>2 DEF CommitOverride, GovernanceInv
<1>10. ASSUME NEW e \in Engineers, CreateException(e) PROVE GovernanceInv'
  <2>1. ExceptionsSound'
    BY <1>1, <1>10, CreateKeepsExceptions
  <2>2. DeskSound'
    BY <1>1, <1>10, PuttingDown DEF CreateException
  <2> QED
    BY <1>10, <2>1, <2>2 DEF CreateException, GovernanceInv
<1>11. ASSUME NEW e \in Engineers, CommitDecision(e) PROVE GovernanceInv'
  <2>1. DeskSound'
    BY <1>1, <1>11, PuttingDown DEF CommitDecision
  <2> QED
    BY <1>11, <2>1 DEF CommitDecision, GovernanceInv
<1>12. ASSUME NEW e \in Engineers, NEW m, NEW id, NEW decision, BeginOverride(e, m, id, decision) PROVE GovernanceInv'
  <2>1. DeskSound'
    BY <1>12, OtherTasksAreTakenUp
  <2> QED
    BY <1>12, <2>1 DEF BeginOverride, GovernanceInv
<1>13. ASSUME NEW m, NEW id, ClearOverride(m, id) PROVE GovernanceInv'
  <2>1. OverridesSound' /\ VersionsAreKept
    BY <1>1, <1>13, ClearKeepsOverrides
  <2>2. DeskSound'
    BY <1>1, <1>13, <2>1, DesksStay DEF ClearOverride
  <2> QED
    BY <1>13, <2>1, <2>2 DEF ClearOverride, GovernanceInv
<1>14. ASSUME NEW m, NEW supported, SyncPlatforms(m, supported) PROVE GovernanceInv'
  <2>1. DeskSound'
    BY <1>1, <1>14, DesksStay DEF SyncPlatforms
  <2> QED
    BY <1>14, <2>1 DEF SyncPlatforms, GovernanceInv
<1>15. ASSUME NEW rule, WriteRule(rule) PROVE GovernanceInv'
  <2>1. DeskSound'
    BY <1>1, <1>15, DesksStay DEF WriteRule
  <2> QED
    BY <1>15, <2>1 DEF WriteRule, GovernanceInv
<1>16. ASSUME NEW e \in Engineers, NEW form \in ExceptionForms, PreviewException(e, form) PROVE GovernanceInv'
  <2>1. DeskSound'
    BY <1>16, OtherTasksAreTakenUp
  <2> QED
    BY <1>16, <2>1 DEF PreviewException, GovernanceInv
<1>17. ASSUME NEW x \in exceptions, Supersede(x) PROVE GovernanceInv'
  <2>1. ExceptionsSound'
    BY <1>1, <1>17, EndingKeepsExceptions
  <2>2. DeskSound'
    BY <1>1, <1>17, DesksStay DEF Supersede
  <2> QED
    BY <1>17, <2>1, <2>2 DEF Supersede, GovernanceInv
<1>18. ASSUME NEW e \in Engineers, NEW d, NEW state, BeginDecision(e, d, state) PROVE GovernanceInv'
  <2>1. DeskSound'
    BY <1>18, OtherTasksAreTakenUp
  <2> QED
    BY <1>18, <2>1 DEF BeginDecision, GovernanceInv
<1>19. ASSUME NEW d \in Devices, NEW acknowledged, FreezeTarget(d, acknowledged) PROVE GovernanceInv'
  <2>1. PlansSound'
    BY <1>1, <1>19, FreezeKeepsPlans
  <2>2. DeskSound'
    BY <1>1, <1>19, DesksStay DEF FreezeTarget
  <2> QED
    BY <1>19, <2>1, <2>2 DEF FreezeTarget, GovernanceInv
<1>20. ASSUME NEW id \in ReleaseIds, NEW s \in Standings, Decide(id, s) PROVE GovernanceInv'
  <2>1. CatalogSound'
    BY <1>1, <1>20, DecideKeepsCatalog
  <2>2. DeskSound'
    BY <1>1, <1>20, DesksStay DEF Decide
  <2> QED
    BY <1>20, <2>1, <2>2 DEF Decide, GovernanceInv
<1>21. ASSUME NEW d \in Devices, NEW device \in ChangedDevice(devices[d]), ChangeDevice(d, device) PROVE GovernanceInv'
  <2>1. DevicesSound'
    BY <1>1, <1>21, ChangeKeepsDevices
  <2>2. DeskSound'
    BY <1>1, <1>21, DesksStay DEF ChangeDevice
  <2> QED
    BY <1>21, <2>1, <2>2 DEF ChangeDevice, GovernanceInv
<1>22. CASE Tick
  <2>1. now' \in Nat
    BY <1>1, <1>22 DEF Tick
  <2>2. DeskSound'
    BY <1>1, <1>22, DesksStay DEF Tick
  <2> QED
    BY <1>22, <2>1, <2>2 DEF Tick, GovernanceInv
<1> QED
  BY <1>2, <1>3, <1>4, <1>5, <1>6, <1>7, <1>8, <1>9, <1>10, <1>11, <1>12, <1>13, <1>14, <1>15,
     <1>16, <1>17, <1>18, <1>19, <1>20, <1>21, <1>22 DEF GovernanceNext

LEMMA GovernanceInvariance == GovernanceSpec => []GovernanceInv
<1>1. GovernanceInit => GovernanceInv
  BY GovernanceStarts
<1>2. GovernanceInv /\ [GovernanceNext]_governanceVars => GovernanceInv'
  BY GovernanceStep
<1> QED
  BY <1>1, <1>2, PTL DEF GovernanceSpec

\* Whatever happens to policies, catalog, evidence, devices and exceptions, and
\* whoever works on them at the same time, a device is told to update, or to
\* rest, only on the evidence of that moment, and a plan that is reported as
\* fresh keeps the image that its device would be offered (the compliance of a
\* device, the overrides of the compatibility store, the drift of plans).
THEOREM AdviceIsAlwaysEarned == GovernanceSpec => []RecommendationsAreEarned
<1>1. GovernanceInv => RecommendationsAreEarned
  BY ToldRight, FreshTargets DEF RecommendationsAreEarned, GovernanceInv, OverridesSound
<1> QED
  BY <1>1, GovernanceInvariance, PTL

-----------------------------------------------------------------------------
(* Who asks for a policy.                                                   *)

LEMMA RowsAreOrdered ==
  ASSUME PoliciesSound
  PROVE  (\A p \in policies : IsPolicy(p) /\ p.id \in Int) /\ \A p, q \in policies : p.id = q.id => p = q
<1>1. Cardinality(policies) \in Nat
  BY FS_CardinalityType DEF PoliciesSound
<1> QED
  BY <1>1 DEF PoliciesSound, AreNumbered

LEMMA StoreAgrees == ASSUME GovernanceInv PROVE StoreAndResolverAgree
<1> SUFFICES ASSUME NEW d \in Devices, IsPlain(d)
             PROVE  PolicyAt(policies, Context(d), now).policy = InForce(devices[d].model)
  BY DEF StoreAndResolverAgree
<1> DEFINE m == devices[d].model
           P == PolicyAt(policies, Context(d), now).policy
           B == InForceAt(policies, m, now)
<1>1. m \in DOMAIN Models /\ None \notin DOMAIN Models
  BY GovernanceAssumption DEF GovernanceInv, DevicesSound, IsDevice, GovernanceConstants
<1>2. (B = {} => P = None) /\ (B # {} => IsNewestOf(P, B))
  <2>1. IsFiniteSet(policies) /\ \A p \in policies : p.active /\ p.from <= now => ScopeRank(p, Context(d)) \in {0, 2}
    BY DEF GovernanceInv, PoliciesSound, IsPlain
  <2> QED
    BY <1>1, <2>1, RowsAreOrdered, PlainResolution DEF GovernanceInv
<1>3. (B = {} => InForce(m) = None) /\ (B # {} => IsNewestOf(InForce(m), B))
  BY <1>1, InForceIsNewest DEF GovernanceInv
<1> HIDE DEF m, P, B
<1>4. P = InForce(m)
  BY <1>2, <1>3 DEF IsNewestOf
<1> QED
  BY <1>4 DEF P, m

\* The policy of a device depends on the instant only through the rows that
\* are in force.
LEMMA SameRowsSamePolicy ==
  ASSUME NEW S, NEW c, NEW t, NEW u, \A p \in S : p.active => (p.from <= t <=> p.from <= u)
  PROVE  PolicyAt(S, c, t) = PolicyAt(S, c, u)
<1> DEFINE A(i) == {p \in S : p.active /\ p.from <= i /\ ScopeRank(p, c) > 0}
           Among(latest) == DefaultOf(latest, {p \in latest : p.default}, c)
<1>1. A(t) = A(u)
  OBVIOUS
<1>2. \A i : PolicyAt(S, c, i) = Among(LatestVersionPerTrack(NarrowestSubject(NarrowestScope(A(i), c), c)))
  BY DEF PolicyAt
<1> HIDE DEF A, Among
<1> QED
  BY <1>1, <1>2

\* The announcements that bring another policy, and the first of them.
FutureOf(c) ==
  {u \in {p.from : p \in {q \in policies : q.active /\ q.from > now}} :
     PolicyAt(policies, c, u).policy \notin {None, PolicyAt(policies, c, now).policy}}

LEMMA FutureIsFinite ==
  ASSUME PoliciesSound, NEW c
  PROVE  FutureOf(c) \in SUBSET Nat /\ IsFiniteSet(FutureOf(c))
<1> DEFINE R == {q \in policies : q.active /\ q.from > now}
           f == [p \in R |-> p.from]
<1>1. R \subseteq policies /\ IsFiniteSet(R)
  BY FS_Subset DEF PoliciesSound
<1>2. FutureOf(c) \subseteq {f[p] : p \in R}
  BY DEF FutureOf
<1>3. {f[p] : p \in R} \subseteq Nat
  BY <1>1 DEF PoliciesSound, IsPolicy
<1> HIDE DEF R, f
<1>4. IsFiniteSet({f[p] : p \in R})
  BY <1>1, ImageIsFinite
<1> QED
  BY <1>2, <1>3, <1>4, FS_Subset

\* Between two announcements the policy stays: what holds at t already holds
\* now, or since the last announcement before t.
LEMMA LastAnnouncement ==
  ASSUME PoliciesSound, now \in Nat, NEW c, NEW t \in Nat, now <= t,
         PolicyAt(policies, c, t).policy \notin {None, PolicyAt(policies, c, now).policy}
  PROVE  \E u \in FutureOf(c) : u <= t
<1> DEFINE R == {p \in policies : p.active /\ p.from > now /\ p.from <= t}
           f == [p \in R |-> p.from]
           F == {f[p] : p \in R}
<1>1. R \subseteq policies /\ IsFiniteSet(R)
  BY FS_Subset DEF PoliciesSound
<1>2. \A p \in policies : p.from \in Nat
  BY DEF PoliciesSound, IsPolicy
<1>3. \A p \in R : p.from \in F /\ p.from \in Nat
  BY <1>1, <1>2
<1>4. \A u \in F : \E p \in R : u = p.from
  OBVIOUS
<1>5. \A p \in policies : p.active /\ p.from > now /\ p.from <= t => p \in R
  OBVIOUS
<1>6. \A p \in R : p \in policies /\ p.active /\ p.from > now /\ p.from <= t
  OBVIOUS
<1>7. IsFiniteSet(F)
  <2> HIDE DEF R, f
  <2> QED
    BY <1>1, ImageIsFinite
<1> HIDE DEF R, F, f
<1>8. CASE F = {}
  <2>1. \A p \in policies : p.active => (p.from <= t <=> p.from <= now)
    BY <1>2, <1>3, <1>5, <1>8
  <2>2. PolicyAt(policies, c, t) = PolicyAt(policies, c, now)
    BY <2>1, SameRowsSamePolicy
  <2> QED
    BY <2>2
<1>9. CASE F # {}
  <2> DEFINE u == Greatest(F)
  <2>1. F \in SUBSET Nat
    BY <1>3, <1>4
  <2>2. u \in F /\ \A v \in F : v <= u
    BY <1>7, <1>9, <2>1, GreatestExists
  <2> HIDE DEF u
  <2>3. PICK r \in R : u = r.from
    BY <1>4, <2>2
  <2>4. r \in policies /\ r.active /\ u > now /\ u <= t /\ u \in Nat
    BY <1>2, <1>6, <2>3
  <2>5. \A p \in policies : p.active => (p.from <= t <=> p.from <= u)
    <3> SUFFICES ASSUME NEW p \in policies, p.active PROVE p.from <= t <=> p.from <= u
      OBVIOUS
    <3>1. p.from \in Nat
      BY <1>2
    <3>2. p.from > now /\ p.from <= t => p.from <= u
      BY <1>3, <1>5, <2>2
    <3> QED
      BY <2>4, <3>1, <3>2
  <2>6. PolicyAt(policies, c, t) = PolicyAt(policies, c, u)
    BY <2>5, SameRowsSamePolicy
  <2>7. u \in FutureOf(c)
    BY <2>3, <2>4, <2>6 DEF FutureOf
  <2> QED
    BY <2>4, <2>7
<1> QED
  BY <1>8, <1>9

LEMMA Timeline == ASSUME GovernanceInv PROVE TimelineIsSound
<1> SUFFICES ASSUME NEW d \in Devices
             PROVE  LET At(t) == PolicyAt(policies, Context(d), t).policy
                        next == NextPolicy(policies, Context(d), now)
                    IN /\ \A n \in next : n.policy \notin {None, At(now)}
                       /\ \A t \in now .. MaxTime : (\A n \in next : t < n.from) => At(t) \in {None, At(now)}
  BY DEF TimelineIsSound
<1> DEFINE c == Context(d)
           At(t) == PolicyAt(policies, c, t).policy
           future == FutureOf(c)
           next == NextPolicy(policies, c, now)
<1>1. next = {[from |-> u, policy |-> At(u)] : u \in {v \in future : \A w \in future : v <= w}}
  BY DEF NextPolicy, FutureOf
<1>2. \A u \in future : At(u) \notin {None, At(now)}
  BY DEF FutureOf
<1>3. PoliciesSound /\ now \in Nat /\ MaxTime \in Nat
  BY GovernanceAssumption DEF GovernanceInv, GovernanceConstants
<1> HIDE DEF c
<1>4. future \in SUBSET Nat /\ IsFiniteSet(future)
  BY <1>3, FutureIsFinite
<1>5. \A t \in Nat : now <= t /\ At(t) \notin {None, At(now)} => \E u \in future : u <= t
  BY <1>3, LastAnnouncement
<1> HIDE DEF At, future, next
<1>6. \A n \in next : n.policy \notin {None, At(now)}
  BY <1>1, <1>2
<1>7. ASSUME NEW t \in now .. MaxTime, \A n \in next : t < n.from PROVE At(t) \in {None, At(now)}
  <2> SUFFICES ASSUME At(t) \notin {None, At(now)} PROVE FALSE
    OBVIOUS
  <2>1. t \in Nat /\ now <= t
    BY <1>3
  <2>2. PICK u \in future : u <= t
    BY <1>5, <2>1
  <2>3. PICK v \in future : \A w \in future : v <= w
    BY <1>4, <2>2, LeastExists
  <2>4. [from |-> v, policy |-> At(v)] \in next
    BY <1>1, <2>3
  <2>5. t < v /\ v <= u /\ u <= t
    BY <1>7, <2>2, <2>3, <2>4
  <2>6. v \in Nat /\ u \in Nat
    BY <1>4
  <2> QED
    BY <2>1, <2>5, <2>6
<1> QED
  BY <1>6, <1>7 DEF next, At, c

\* Whoever asks for the policy of a plain device is given the same answer by the
\* database and by the resolver, and what is announced for any device is what
\* the resolver will answer then, with nothing in between (loadCurrentPolicies,
\* resolveFirmwarePolicyAt, resolveFirmwarePolicyTimeline).
THEOREM PoliciesAreAlwaysNamedAsResolved == GovernanceSpec => []PoliciesAreNamedAsResolved
<1>1. GovernanceInv => PoliciesAreNamedAsResolved
  BY StoreAgrees, Timeline DEF PoliciesAreNamedAsResolved
<1> QED
  BY <1>1, GovernanceInvariance, PTL

-----------------------------------------------------------------------------
(* What an exception covers.                                                *)

LEMMA ShownIsCovered == ASSUME GovernanceInv PROVE CoveredAsShown
<1> SUFFICES ASSUME NEW d \in Devices, Accepted(d) # None, Accepted(d).duration = "POLICY_CHANGE"
             PROVE  d \in DOMAIN Accepted(d).shown /\ Accepted(d).shown[d] = PolicyFingerprint(Facts(d))
  BY DEF CoveredAsShown
<1> DEFINE f == Facts(d)
           c == Context(d)
           x == Accepted(d)
           S == {e \in exceptions : /\ ScopeMatches(e, c) /\ SubjectMatches(e, f)
                                    /\ ExceptionStatus(e, c, f, now) = "ACTIVE"}
<1>1. c.id = d
  BY DEF Context
<1>2. x # None => x = FirstApplicable(S)
  BY DEF Accepted, SelectedException
<1>3. S = {} => FirstApplicable(S) = None
  BY DEF FirstApplicable
<1>4. /\ S \subseteq exceptions /\ IsFiniteSet(S)
      /\ \A e \in S : HasScope(e) /\ e.id \in Nat /\ e.decided \in Nat /\ e.snapshots = e.shown
  BY FS_Subset DEF GovernanceInv, ExceptionsSound
<1>5. \A e \in S : ExceptionStatus(e, c, f, now) = "ACTIVE"
  OBVIOUS
<1> HIDE DEF S, f, c
<1>6. FirstApplicable(S) \in S
  BY <1>2, <1>3, <1>4, FirstApplies
<1> HIDE DEF x
<1>7. x \in S /\ x.snapshots = x.shown /\ ExceptionStatus(x, c, f, now) = "ACTIVE" /\ x.duration = "POLICY_CHANGE"
  BY <1>2, <1>4, <1>5, <1>6 DEF x
<1>8. c.id \in DOMAIN x.snapshots /\ x.snapshots[c.id] = PolicyFingerprint(f)
  BY <1>7 DEF ExceptionStatus
<1> QED
  BY <1>1, <1>7, <1>8 DEF x, f

\* An engineer who accepts that a device stays as it is until its policy changes
\* never covers it under a policy that was not on the screen, whatever happened
\* between the preview and the confirmation (createFirmwareException).
THEOREM ExceptionsCoverWhatWasShown == GovernanceSpec => []CoveredAsShown
<1>1. GovernanceInv => CoveredAsShown
  BY ShownIsCovered
<1> QED
  BY <1>1, GovernanceInvariance, PTL

-----------------------------------------------------------------------------
(* What a bulk change brings about.                                         *)

\* Only its transaction ends the task of a bulk change.
LEMMA OnlyCommitEndsSet ==
  ASSUME DeskSound, [GovernanceNext]_governanceVars, NEW e \in Engineers,
         desk[e].task = "set", desk'[e] = Nothing
  PROVE  CommitSet(e)
<1>1. desk = [o \in Engineers |-> desk[o]] /\ desk[e] # Nothing /\ desk'[e] # desk[e]
  BY DEF DeskSound, Nothing
<1>2. ASSUME NEW o \in Engineers, NEW w, Take(o, w) PROVE FALSE
  <2>1. o # e
    BY <1>1, <1>2 DEF Take
  <2>2. desk'[e] = desk[e]
    BY <1>1, <1>2, <2>1 DEF Take
  <2> QED
    BY <1>1, <2>2
<1>3. ASSUME NEW o \in Engineers, Leave(o) PROVE o = e
  <2>1. o # e => desk'[e] = desk[e]
    BY <1>1, <1>3 DEF Leave
  <2> QED
    BY <1>1, <2>1
<1>4. UNCHANGED desk => FALSE
  BY <1>1
<1>5. CASE UNCHANGED governanceVars
  BY <1>4, <1>5 DEF governanceVars
<1>6. ASSUME NEW o \in Engineers, NEW models \in SUBSET DOMAIN Models, NEW id, BeginSet(o, models, id) PROVE FALSE
  BY <1>2, <1>6 DEF BeginSet
<1>7. ASSUME NEW o \in Engineers, NEW models, BeginClear(o, models) PROVE FALSE
  BY <1>2, <1>7 DEF BeginClear
<1>8. ASSUME NEW o \in Engineers, NEW m \in DOMAIN Models, NEW form, BeginSave(o, m, form) PROVE FALSE
  BY <1>2, <1>8 DEF BeginSave
<1>9. ASSUME NEW o \in Engineers, NEW m, NEW id, NEW decision, BeginOverride(o, m, id, decision) PROVE FALSE
  BY <1>2, <1>9 DEF BeginOverride
<1>10. ASSUME NEW o \in Engineers, NEW form \in ExceptionForms, PreviewException(o, form) PROVE FALSE
  BY <1>2, <1>10 DEF PreviewException
<1>11. ASSUME NEW o \in Engineers, NEW d, NEW state, BeginDecision(o, d, state) PROVE FALSE
  BY <1>2, <1>11 DEF BeginDecision
<1>12. ASSUME NEW o \in Engineers,
              CommitSet(o) \/ CommitClear(o) \/ CommitSave(o)
                \/ CommitOverride(o) \/ CreateException(o) \/ CommitDecision(o)
       PROVE  CommitSet(e)
  <2>1. Leave(o)
    BY <1>12 DEF CommitSet, CommitClear, CommitSave, CommitOverride, CreateException, CommitDecision
  <2>2. o = e
    BY <1>3, <2>1
  <2> QED
    BY <1>12, <2>2 DEF CommitClear, CommitSave, CommitOverride, CreateException, CommitDecision
<1>13. ASSUME \/ \E m \in DOMAIN Models, id \in ReleaseIds : ClearOverride(m, id)
              \/ \E m \in DOMAIN Models, supported \in Platforms : SyncPlatforms(m, supported)
              \/ \E rule \in RuleForms : WriteRule(rule)
              \/ \E x \in exceptions : Supersede(x)
              \/ \E d \in Devices, acknowledged \in BOOLEAN : FreezeTarget(d, acknowledged)
              \/ \E id \in ReleaseIds, s \in Standings : Decide(id, s)
              \/ \E d \in Devices : \E device \in ChangedDevice(devices[d]) : ChangeDevice(d, device)
              \/ Tick
       PROVE  FALSE
  BY <1>4, <1>13 DEF ClearOverride, SyncPlatforms, WriteRule, Supersede, FreezeTarget, Decide, ChangeDevice, Tick
<1> QED
  BY <1>5, <1>6, <1>7, <1>8, <1>9, <1>10, <1>11, <1>12, <1>13 DEF GovernanceNext

LEMMA SetHolds ==
  ASSUME GovernanceInv, NEW e \in Engineers, NEW d \in Devices, CommitSet(e),
         devices[d].model \in desk[e].models, IsPlain(d),
         \A q \in policies : q.active => q.from \notin {now, now'}
  PROVE  \E p \in policies' :
           p = PolicyAt(policies', Context(d), now').policy /\ p.mode = "EXACT" /\ p.target = desk[e].release.id
<1> DEFINE w == desk[e]
           m == devices[d].model
           N == NewRows(w)
           P == PolicyAt(policies', Context(d), now').policy
           B == InForceAt(policies', m, now')
<1>1. PoliciesSound /\ DeskSound /\ now \in Nat /\ now' = now + 1 /\ w.task = "set"
  BY DEF GovernanceInv, CommitSet, Stamp
<1>2. PoliciesSound' /\ policies' = policies \cup N
  BY <1>1, SetKeepsPolicies
<1>3. w.models \subseteq DOMAIN Models /\ w.version \in [w.models -> Nat]
  BY <1>1 DEF DeskSound, IsTask, IsTaskOver
<1>4. m \in DOMAIN Models /\ None \notin DOMAIN Models
  BY GovernanceAssumption DEF GovernanceInv, DevicesSound, IsDevice, GovernanceConstants
<1> HIDE DEF w
<1>5. /\ \A p \in N : /\ IsPolicy(p) /\ p.active /\ p.from = now /\ p.mode = "EXACT" /\ p.target = w.release.id
                       /\ p.model \in w.models /\ p.family = None
                       /\ p.customer = None /\ p.site = None /\ p.device = None
      /\ \A n \in w.models : \E p \in N : p.model = n
      /\ \A p, q \in N : p.model = q.model => p = q
  BY <1>1, <1>3, RowsOfSet
<1> HIDE DEF N
<1>6. \A p \in policies' : p.active /\ p.from <= now' => ScopeRank(p, Context(d)) \in {0, 2}
  <2>1. ASSUME NEW p \in policies, p.active, p.from <= now' PROVE ScopeRank(p, Context(d)) \in {0, 2}
    <3>1. p.from \in Nat /\ p.from # now /\ p.from # now'
      BY <1>1, <2>1 DEF PoliciesSound, IsPolicy
    <3>2. p.from <= now
      BY <1>1, <2>1, <3>1
    <3> QED
      BY <2>1, <3>2 DEF IsPlain
  <2>2. ASSUME NEW p \in N PROVE ScopeRank(p, Context(d)) \in {0, 2}
    <3>1. CASE p.model = m
      <4>1. IsBaseline(p, m)
        BY <1>5, <3>1 DEF IsBaseline
      <4>2. ScopeRank(p, Context(d)) = 2
        BY <1>4, <1>5, <4>1, RankOfBaseline
      <4> QED
        BY <4>2
    <3>2. CASE p.model # m
      <4>1. p.model # None /\ Context(d).model = m
        BY <1>3, <1>4, <1>5 DEF Context
      <4>2. SubjectRank(p, Context(d)) < 0
        BY <3>2, <4>1 DEF SubjectRank
      <4> QED
        BY <4>2 DEF ScopeRank
    <3> QED
      BY <3>1, <3>2
  <2> QED
    BY <1>2, <2>1, <2>2
<1>7. PICK r \in N : r.model = m
  BY <1>5 DEF w
<1>8. r \in B
  <2>1. IsBaseline(r, m)
    BY <1>5, <1>7 DEF IsBaseline
  <2>2. r.from <= now'
    BY <1>1, <1>5
  <2> QED
    BY <1>2, <1>5, <2>1, <2>2 DEF InForceAt
<1>9. /\ IsFiniteSet(policies') /\ \A p \in policies' : IsPolicy(p) /\ p.id \in Int
      /\ \A p, q \in policies' : p.id = q.id => p = q
  <2>1. Cardinality(policies') \in Nat
    BY <1>2, FS_CardinalityType DEF PoliciesSound
  <2> QED
    BY <1>2, <2>1 DEF PoliciesSound, AreNumbered, IsPolicy
<1>10. IsNewestOf(P, B)
  <2>1. B # {}
    BY <1>8
  <2> DEFINE S == policies'
             t == now'
  <2>2. /\ IsFiniteSet(S) /\ (\A p \in S : IsPolicy(p) /\ p.id \in Int)
        /\ (\A p, q \in S : p.id = q.id => p = q)
        /\ (\A p \in S : p.active /\ p.from <= t => ScopeRank(p, Context(d)) \in {0, 2})
        /\ InForceAt(S, m, t) # {}
    BY <1>6, <1>9, <2>1
  <2>3. IsNewestOf(PolicyAt(S, Context(d), t).policy, InForceAt(S, m, t))
    <3> HIDE DEF S, t
    <3> QED
      BY <1>4, <2>2, PlainResolution
  <2> QED
    BY <2>3
<1>11. \A p \in B : p \in policies' /\ p.active /\ p.from <= now' /\ p.model = m
  BY DEF InForceAt, IsBaseline
<1> HIDE DEF P, B
<1>12. P \in B /\ (P # r => Newer(P, r))
  BY <1>8, <1>10 DEF IsNewestOf
<1>13. P = r
  <2> SUFFICES ASSUME P # r PROVE FALSE
    OBVIOUS
  <2>1. P \notin N
    BY <1>5, <1>7, <1>11, <1>12
  <2>2. P \in policies /\ P.active /\ P.from <= now'
    BY <1>2, <1>11, <1>12, <2>1
  <2>3. P.from \in Nat /\ P.from # now /\ P.from # now'
    BY <1>1, <2>2 DEF PoliciesSound, IsPolicy
  <2>4. P.from < r.from
    BY <1>1, <1>5, <1>7, <2>2, <2>3
  <2>5. ~Newer(P, r)
    BY <1>1, <1>5, <1>7, <2>3, <2>4 DEF Newer
  <2> QED
    BY <1>12, <2>5
<1> QED
  BY <1>2, <1>5, <1>7, <1>13 DEF P, w

\* Whatever other engineers set, clear and save between the reads of a bulk
\* change and its transaction, and whichever rows it replaces, its release is what
\* the plain devices of its models are then held to
\* (bulkSetModelDesiredFirmwarePolicies).
THEOREM BulkChangesTakeEffect == GovernanceSpec => SetTakesEffect
<1>1. GovernanceInv /\ [GovernanceNext]_governanceVars
        => [\A e \in Engineers, d \in Devices : HeldToTheSet(e, d)]_governanceVars
  <2> SUFFICES ASSUME GovernanceInv, [GovernanceNext]_governanceVars, NEW e \in Engineers, NEW d \in Devices
               PROVE  HeldToTheSet(e, d)
    OBVIOUS
  <2>1. desk[e].task = "set" /\ desk'[e] = Nothing => CommitSet(e)
    BY OnlyCommitEndsSet DEF GovernanceInv
  <2> QED
    BY <2>1, SetHolds DEF HeldToTheSet
<1> QED
  BY <1>1, GovernanceInvariance, PTL DEF GovernanceSpec, SetTakesEffect

=============================================================================
