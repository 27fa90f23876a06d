----------------------- MODULE ImportPublicationProofs -----------------------
(* Proofs about ImportPublication, for any exports, catalogs and numbers of  *)
(* devices: identifiers name one device, what is written together is what    *)
(* would be written row by row, and repeats are quiet.                       *)
EXTENDS ImportPublication, FiniteSetTheorems, WellFoundedInduction, TLAPS

-----------------------------------------------------------------------------
(* Numbers.                                                                  *)

\* A set of numbers has a least one.
LEMMA LeastNumber ==
  ASSUME NEW S \in SUBSET Nat, S # {}
  PROVE  \E n \in S : \A m \in S : n <= m
<1> DEFINE R == OpToRel(<, Nat)
<1>1. IsWellFoundedOn(R, Nat)
  BY NatLessThanWellFounded
<1>2. \A x, y \in Nat : <<x, y>> \in R <=> x < y
  BY DEF OpToRel
<1> HIDE DEF R
<1>3. \E n \in S : \A m \in S : ~(<<m, n>> \in R)
  BY <1>1, WFMin
<1>4. PICK n \in S : \A m \in S : ~(<<m, n>> \in R)
  BY <1>3
<1>5. \A m \in S : n <= m
  <2> TAKE m \in S
  <2>1. m \in Nat /\ n \in Nat /\ ~(m < n)
    BY <1>2, <1>4
  <2> QED
    BY <2>1
<1> QED
  BY <1>4, <1>5
-----------------------------------------------------------------------------
(* What is remembered of devices.                                            *)

\* IdentifiersNameOneDevice, of any crosswalk.
NamesOne(cw) ==
  \A p, q \in DOMAIN cw :
    p[2] # q[2] => ~Shares(cw[p], cw[q], IF p[1] = q[1] THEN IdFields ELSE {"serialNumber", "macAddress"})

\* Whoever shares an identifier with the row is found by the conflict check.
LEMMA SharersAreFound ==
  ASSUME NEW cw, NEW provider, NEW ids, NEW q \in DOMAIN cw,
         Shares(ids, cw[q], IF q[1] = provider THEN IdFields ELSE {"serialNumber", "macAddress"})
  PROVE  q[2] \in ClaimedBy(cw, provider, ids)
<1>1. PICK f \in (IF q[1] = provider THEN IdFields ELSE {"serialNumber", "macAddress"}) :
        ids[f] # None /\ ids[f] = cw[q][f]
  BY DEF Shares
<1>2. CASE f = "sourceId"
  <2>1. q[1] = provider
    BY <1>1, <1>2
  <2> QED
    BY <1>1, <1>2, <2>1 DEF ClaimedBy, SourceOwners
<1>3. CASE f = "serialNumber"
  BY <1>1, <1>3 DEF ClaimedBy, Owners
<1>4. CASE f = "macAddress"
  BY <1>1, <1>4 DEF ClaimedBy, Owners
<1> QED
  BY <1>1, <1>2, <1>3, <1>4 DEF IdFields

LEMMA SharingIsMutual ==
  ASSUME NEW a, NEW b, NEW fields
  PROVE  Shares(a, b, fields) <=> Shares(b, a, fields)
  BY DEF Shares

\* Identifiers that are new entries of one provider, claimed by nobody else and
\* not shared among themselves, can be written.
LEMMA NewNamesAreOne ==
  ASSUME NEW cw, NamesOne(cw), NEW new, NEW provider,
         \A k \in DOMAIN new : k[1] = provider /\ ClaimedBy(cw, provider, new[k]) \subseteq {k[2]},
         \A k, l \in DOMAIN new : k[2] # l[2] => ~Shares(new[k], new[l], IdFields)
  PROVE  NamesOne(LaidOver(new, cw))
<1> DEFINE after == LaidOver(new, cw)
<1>1. /\ DOMAIN after = DOMAIN new \cup DOMAIN cw
      /\ \A k \in DOMAIN new : after[k] = new[k]
      /\ \A k \in DOMAIN cw \ DOMAIN new : after[k] = cw[k]
  BY DEF LaidOver
<1> HIDE DEF after
<1> SUFFICES ASSUME NEW p \in DOMAIN after, NEW q \in DOMAIN after, p[2] # q[2]
             PROVE  ~Shares(after[p], after[q], IF p[1] = q[1] THEN IdFields ELSE {"serialNumber", "macAddress"})
  BY DEF NamesOne, after
<1>2. CASE p \in DOMAIN new /\ q \in DOMAIN new
  BY <1>1, <1>2
<1>3. CASE p \in DOMAIN new /\ q \notin DOMAIN new
  <2>1. p[1] = provider /\ ClaimedBy(cw, provider, new[p]) \subseteq {p[2]} /\ q \in DOMAIN cw
    BY <1>1, <1>3
  <2>2. ~Shares(new[p], cw[q], IF q[1] = provider THEN IdFields ELSE {"serialNumber", "macAddress"})
    BY <2>1, SharersAreFound
  <2> QED
    BY <1>1, <1>3, <2>1, <2>2
<1>4. CASE p \notin DOMAIN new /\ q \in DOMAIN new
  <2>1. q[1] = provider /\ ClaimedBy(cw, provider, new[q]) \subseteq {q[2]} /\ p \in DOMAIN cw
    BY <1>1, <1>4
  <2>2. ~Shares(new[q], cw[p], IF p[1] = provider THEN IdFields ELSE {"serialNumber", "macAddress"})
    BY <2>1, SharersAreFound
  <2>3. ~Shares(cw[p], new[q], IF p[1] = provider THEN IdFields ELSE {"serialNumber", "macAddress"})
    BY <2>2, SharingIsMutual
  <2> QED
    BY <1>1, <1>4, <2>1, <2>3
<1>5. CASE p \notin DOMAIN new /\ q \notin DOMAIN new
  BY <1>1, <1>5 DEF NamesOne
<1> QED
  BY <1>2, <1>3, <1>4, <1>5
-----------------------------------------------------------------------------
(* One row after the other.                                                  *)

IsTable(f) == f = [x \in DOMAIN f |-> f[x]]

\* An inventory between two rows: devices have numbers that were given out, what
\* is remembered is of such numbers, and it names one device.
Sound(s) ==
  /\ s.born \in Nat
  /\ IsTable(s.catalog) /\ IsTable(s.devices) /\ IsTable(s.crosswalk)
  /\ DOMAIN s.devices \subseteq 1..s.born
  /\ \A p \in DOMAIN s.crosswalk : p[2] \in 1..s.born
  /\ NamesOne(s.crosswalk)

LEMMA ClaimantsAreRemembered ==
  ASSUME NEW cw, NEW provider, NEW ids
  PROVE  ClaimedBy(cw, provider, ids) \subseteq {q[2] : q \in DOMAIN cw}
  BY DEF ClaimedBy, SourceOwners, Owners

LEMMA LaidOverIsTable ==
  ASSUME NEW new, NEW old
  PROVE  IsTable(LaidOver(new, old))
  BY DEF IsTable, LaidOver

LEMMA RowStaysSound ==
  ASSUME NEW s, Sound(s), NEW batch, NEW n, ~RowRefused(s, batch, n)
  PROVE  Sound(RowAfter(s, batch, n, DeviceOf(batch.rows[n], s)))
<1> DEFINE d == DeviceOf(batch.rows[n], s)
           r == ReviewOf(batch.rows[n]).device
           provider == Exports[batch.export].provider
           ids == PublishedIds(batch, n)
           t == RowAfter(s, batch, n, d)
           new == [q \in {<<provider, d>>} |-> ids]
<1>1. /\ t.catalog = CatalogAfter(s.catalog, batch, n)
      /\ t.devices = LaidOver([x \in {d} |-> WrittenBy(batch.rows[n], s.devices, d)], s.devices)
      /\ t.crosswalk = LaidOver(new, s.crosswalk)
      /\ t.born = IF d \in DOMAIN s.devices THEN s.born ELSE s.born + 1
  BY DEF RowAfter
<1>2. d = (IF r = None THEN s.born + 1 ELSE r) /\ (r # None => r \in DOMAIN s.devices)
  BY DEF DeviceOf, RowRefused
<1>3. s.born \in Nat /\ t.born \in Nat /\ s.born <= t.born /\ d \in 1..t.born
  BY <1>1, <1>2 DEF Sound
<1>4. ClaimedBy(s.crosswalk, provider, ids) \subseteq {d}
  <2>1. ClaimedBy(s.crosswalk, provider, ids) \subseteq {r}
    BY DEF RowRefused, IdentityTaken
  <2>2. None \notin ClaimedBy(s.crosswalk, provider, ids)
    BY ClaimantsAreRemembered, PublicationAssumption DEF Sound
  <2> QED
    BY <1>2, <2>1, <2>2
<1> HIDE DEF d, r, provider, ids, t
<1>5. IsTable(t.catalog) /\ IsTable(t.devices) /\ IsTable(t.crosswalk)
  BY <1>1, LaidOverIsTable DEF CatalogAfter
<1>6. DOMAIN t.devices \subseteq 1..t.born
  <2>1. DOMAIN t.devices = {d} \cup DOMAIN s.devices
    BY <1>1 DEF LaidOver
  <2> QED
    BY <1>3, <2>1 DEF Sound
<1>7. \A p \in DOMAIN t.crosswalk : p[2] \in 1..t.born
  <2>1. DOMAIN t.crosswalk = {<<provider, d>>} \cup DOMAIN s.crosswalk
    BY <1>1 DEF LaidOver
  <2> QED
    BY <1>3, <2>1 DEF Sound
<1>8. NamesOne(t.crosswalk)
  <2>1. \A k \in DOMAIN new : k[1] = provider /\ ClaimedBy(s.crosswalk, provider, new[k]) \subseteq {k[2]}
    BY <1>4
  <2>2. \A k, l \in DOMAIN new : k[2] = l[2]
    OBVIOUS
  <2> HIDE DEF new
  <2> QED
    BY <1>1, <2>1, <2>2, NewNamesAreOne DEF Sound
<1> QED
  BY <1>3, <1>5, <1>6, <1>7, <1>8 DEF Sound, t, d

\* What the recursion of RowByRow computes.
Step(f, s, batch, chosen, n) ==
  IF n = 0 THEN {s} ELSE IF n \in chosen THEN RowPublished(f[n - 1], batch, n) ELSE f[n - 1]

LEMMA StepsExist ==
  ASSUME NEW s, NEW batch, NEW chosen, NEW k \in Nat
  PROVE  \E f : f = [n \in 0..k |-> Step(f, s, batch, chosen, n)]
<1> DEFINE Upto(f, j) == f = [n \in 0..j |-> Step(f, s, batch, chosen, n)]
           Bad == {j \in Nat : ~\E f : Upto(f, j)}
<1> SUFFICES ASSUME Bad # {} PROVE FALSE
  OBVIOUS
<1>1. PICK j \in Bad : \A m \in Bad : j <= m
  BY LeastNumber
<1>2. CASE j = 0
  <2> DEFINE f == [n \in 0..0 |-> {s}]
  <2>1. \A n \in 0..0 : Step(f, s, batch, chosen, n) = {s}
    BY DEF Step
  <2>2. Upto(f, 0)
    BY <2>1
  <2> QED
    BY <1>1, <1>2, <2>2
<1>3. CASE j # 0
  <2>1. j \in Nat /\ j - 1 \in Nat /\ j - 1 \notin Bad
    BY <1>1, <1>3
  <2>2. PICK f : Upto(f, j - 1)
    BY <2>1
  <2> DEFINE g == [n \in 0..j |-> IF n = j THEN Step(f, s, batch, chosen, j) ELSE f[n]]
  <2>3. ASSUME NEW n \in 0..j PROVE Step(g, s, batch, chosen, n) = g[n]
    <3>1. CASE n = 0
      <4>1. f[n] = Step(f, s, batch, chosen, n)
        BY <2>1, <2>2, <3>1
      <4> QED
        BY <1>3, <3>1, <4>1 DEF Step
    <3>2. CASE n # 0
      <4>1. n - 1 \in 0..j /\ n - 1 # j /\ g[n - 1] = f[n - 1]
        BY <2>1, <3>2
      <4>2. Step(g, s, batch, chosen, n) = Step(f, s, batch, chosen, n)
        BY <3>2, <4>1 DEF Step
      <4>3. n # j => f[n] = Step(f, s, batch, chosen, n)
        BY <2>1, <2>2
      <4> QED
        BY <4>2, <4>3
    <3> QED
      BY <3>1, <3>2
  <2>4. g = [n \in 0..j |-> g[n]]
    OBVIOUS
  <2> HIDE DEF g
  <2>5. Upto(g, j)
    BY <2>3, <2>4
  <2> QED
    BY <1>1, <2>5
<1> QED
  BY <1>2, <1>3

RunsAs(after, s, batch, chosen, k) ==
  /\ after[0] = {s}
  /\ \A n \in 1..k : after[n] = IF n \in chosen THEN RowPublished(after[n - 1], batch, n) ELSE after[n - 1]

LEMMA RowByRowUnfolds ==
  ASSUME NEW s, NEW batch, NEW chosen, NEW k \in Nat, k = Len(ExportRows(batch))
  PROVE  \E after : RunsAs(after, s, batch, chosen, k) /\ RowByRow(s, batch, chosen) = after[k]
<1> DEFINE after == CHOOSE f : f = [n \in 0..k |-> Step(f, s, batch, chosen, n)]
<1>1. RowByRow(s, batch, chosen) = after[k]
  BY DEF RowByRow, Step
<1>2. after = [n \in 0..k |-> Step(after, s, batch, chosen, n)]
  BY StepsExist
<1> HIDE DEF after
<1>3. \A n \in 0..k : after[n] = Step(after, s, batch, chosen, n)
  BY <1>2
<1>4. after[0] = {s}
  BY <1>3 DEF Step
<1>5. \A n \in 1..k : after[n] = IF n \in chosen THEN RowPublished(after[n - 1], batch, n) ELSE after[n - 1]
  BY <1>3 DEF Step
<1> QED
  BY <1>1, <1>4, <1>5 DEF RunsAs

LEMMA RowByRowStaysSound ==
  ASSUME NEW s, Sound(s), NEW batch, NEW chosen, Len(ExportRows(batch)) \in Nat,
         NEW t \in RowByRow(s, batch, chosen)
  PROVE  Sound(t)
<1> DEFINE k == Len(ExportRows(batch))
<1>1. PICK after : RunsAs(after, s, batch, chosen, k) /\ RowByRow(s, batch, chosen) = after[k]
  BY RowByRowUnfolds
<1> HIDE DEF k
<1> DEFINE Bad == {n \in 0..k : \E u \in after[n] : ~Sound(u)}
<1> SUFFICES ASSUME Bad # {} PROVE FALSE
  BY <1>1 DEF k
<1>2. Bad \subseteq Nat
  BY DEF k
<1> HIDE DEF Bad
<1>9. PICK n \in Bad : \A m \in Bad : n <= m
  BY <1>2, LeastNumber
<1> USE DEF Bad
<1>3. n # 0
  BY <1>1 DEF RunsAs
<1>4. n - 1 \in 0..k /\ n - 1 \notin Bad /\ n \in 1..k
  BY <1>9, <1>3 DEF k
<1>5. \A u \in after[n - 1] : Sound(u)
  BY <1>4
<1>6. PICK u \in after[n] : ~Sound(u)
  OBVIOUS
<1>7. n \in chosen /\ u \in RowPublished(after[n - 1], batch, n)
  BY <1>1, <1>4, <1>5, <1>6 DEF RunsAs
<1>8. PICK v \in after[n - 1] : ~RowRefused(v, batch, n) /\ u = RowAfter(v, batch, n, DeviceOf(batch.rows[n], v))
  BY <1>7 DEF RowPublished
<1> QED
  BY <1>5, <1>6, <1>8, RowStaysSound
-----------------------------------------------------------------------------
(* New devices together.                                                     *)

\* The chosen rows are numbered in their order.
LEMMA RowsAreRanked ==
  ASSUME NEW k \in Nat, NEW chosen \in SUBSET (1..k)
  PROVE  /\ Cardinality(chosen) \in Nat
         /\ \A n \in Nat : Rank(chosen, n) \in Nat
         /\ \A n \in chosen : Rank(chosen, n) \in 1..Cardinality(chosen) /\ RowAt(chosen, Rank(chosen, n)) = n
         /\ \A i \in 1..Cardinality(chosen) : RowAt(chosen, i) \in chosen /\ Rank(chosen, RowAt(chosen, i)) = i
<1> DEFINE Below(n) == {m \in chosen : m <= n}
<1>0. \A n \in chosen : n \in Int
  OBVIOUS
<1>1. IsFiniteSet(chosen)
  <2>1. IsFiniteSet(1..k)
    BY FS_Interval
  <2> QED
    BY <2>1, FS_Subset
<1>2. Cardinality(chosen) \in Nat
  BY <1>1, FS_CardinalityType
<1>3. ASSUME NEW n PROVE Rank(chosen, n) \in Nat /\ IsFiniteSet(Below(n)) /\ Rank(chosen, n) <= Cardinality(chosen)
  BY <1>1, FS_Subset, FS_CardinalityType DEF Rank
<1>4. ASSUME NEW m \in chosen, NEW n \in chosen, m < n PROVE Rank(chosen, m) < Rank(chosen, n)
  <2>1. Below(m) \subseteq Below(n)
    <3> SUFFICES ASSUME NEW p \in chosen, p <= m PROVE p <= n
      OBVIOUS
    <3>1. p \in Int /\ m \in Int /\ n \in Int
      BY <1>0
    <3> QED
      BY <1>4, <3>1
  <2>4. n \in Below(n) /\ n \notin Below(m)
    BY <1>0, <1>4
  <2>2. Rank(chosen, m) <= Rank(chosen, n) /\ Rank(chosen, m) # Rank(chosen, n)
    BY <1>3, <2>1, <2>4, FS_Subset DEF Rank
  <2>3. Rank(chosen, m) \in Nat /\ Rank(chosen, n) \in Nat
    BY <1>3
  <2> QED
    BY <2>2, <2>3
<1>5. ASSUME NEW n \in chosen PROVE Rank(chosen, n) \in 1..Cardinality(chosen)
  <2>1. n \in Below(n)
    BY <1>0
  <2>2. Rank(chosen, n) # 0
    BY <1>3, <2>1, FS_EmptySet DEF Rank
  <2>3. Rank(chosen, n) \in Nat /\ Rank(chosen, n) <= Cardinality(chosen)
    BY <1>3
  <2> QED
    BY <1>2, <2>2, <2>3
<1>6. \A m, n \in chosen : Rank(chosen, m) = Rank(chosen, n) => m = n
  <2> SUFFICES ASSUME NEW m \in chosen, NEW n \in chosen, m # n PROVE Rank(chosen, m) # Rank(chosen, n)
    OBVIOUS
  <2>1. m < n \/ n < m
    BY <1>0
  <2>2. Rank(chosen, m) < Rank(chosen, n) \/ Rank(chosen, n) < Rank(chosen, m)
    BY <1>4, <2>1
  <2>3. Rank(chosen, m) \in Nat /\ Rank(chosen, n) \in Nat
    BY <1>3
  <2> QED
    BY <2>2, <2>3
<1> DEFINE f == [n \in chosen |-> Rank(chosen, n)]
           T == 1..Cardinality(chosen)
<1>7. f \in Injection(chosen, T)
  <2>1. f \in [chosen -> T]
    BY <1>5
  <2>2. \A m, n \in chosen : f[m] = f[n] => m = n
    BY <1>6
  <2> QED
    BY <2>1, <2>2 DEF Injection, IsInjective
<1>8. IsFiniteSet(T) /\ Cardinality(T) = Cardinality(chosen)
  BY <1>2, FS_Interval
<1>9. f \in Surjection(chosen, T)
  BY <1>7, <1>8, FS_Injection
<1>10. \A i \in T : \E n \in chosen : Rank(chosen, n) = i
  BY <1>9 DEF Surjection
<1>11. \A n \in chosen : RowAt(chosen, Rank(chosen, n)) = n
  BY <1>6 DEF RowAt
<1>12. \A i \in T : RowAt(chosen, i) \in chosen /\ Rank(chosen, RowAt(chosen, i)) = i
  BY <1>10 DEF RowAt
<1> QED
  BY <1>2, <1>3, <1>5, <1>11, <1>12

LEMMA BulkStaysSound ==
  ASSUME NEW s, Sound(s), NEW batch, NEW k \in Nat, NEW chosen \in SUBSET (1..k),
         ~BulkRefused(s, batch, chosen)
  PROVE  Sound(BulkAfter(s, batch, chosen))
<1> DEFINE t == BulkAfter(s, batch, chosen)
           provider == Exports[batch.export].provider
           count == Cardinality(chosen)
           ids(n) == PublishedIds(batch, n)
           numbers == Numbers(s, count)
           new == [q \in {provider} \X numbers |-> ids(RowAt(chosen, q[2] - s.born))]
           made == [d \in numbers |-> Made(batch.rows[RowAt(chosen, d - s.born)])]
<1>1. /\ t.catalog = s.catalog
      /\ t.devices = LaidOver(made, s.devices)
      /\ t.crosswalk = LaidOver(new, s.crosswalk)
      /\ t.born = s.born + count
  BY DEF BulkAfter
<1>2. s.born \in Nat /\ count \in Nat /\ \A d \in numbers : d - s.born \in 1..count /\ d \in 1..t.born
  <2>1. s.born \in Nat /\ count \in Nat
    BY RowsAreRanked DEF Sound
  <2> HIDE DEF count
  <2> QED
    BY <1>1, <2>1 DEF Numbers
<1>3. \A n \in chosen : ClaimedBy(s.crosswalk, provider, ids(n)) = {}
  <2> TAKE n \in chosen
  <2>1. ClaimedBy(s.crosswalk, provider, ids(n)) \subseteq {None}
    BY DEF BulkRefused, IdentityTaken
  <2>2. None \notin ClaimedBy(s.crosswalk, provider, ids(n))
    BY ClaimantsAreRemembered, PublicationAssumption DEF Sound
  <2> QED
    BY <2>1, <2>2
<1>4. \A m, n \in chosen : m # n => ~Shares(ids(m), ids(n), IdFields)
  BY DEF BulkRefused, SharedInBatch
<1>5. \A i \in 1..count : RowAt(chosen, i) \in chosen /\ Rank(chosen, RowAt(chosen, i)) = i
  BY RowsAreRanked
<1>6. NamesOne(t.crosswalk)
  <2>1. \A q \in DOMAIN new : q[1] = provider /\ q[2] \in numbers /\ new[q] = ids(RowAt(chosen, q[2] - s.born))
    OBVIOUS
  <2> HIDE DEF new, ids
  <2>2. \A q \in DOMAIN new : ClaimedBy(s.crosswalk, provider, new[q]) \subseteq {q[2]}
    BY <1>2, <1>3, <1>5, <2>1
  <2>3. ASSUME NEW p \in DOMAIN new, NEW q \in DOMAIN new, p[2] # q[2] PROVE ~Shares(new[p], new[q], IdFields)
    <3>1. p[2] - s.born \in 1..count /\ q[2] - s.born \in 1..count /\ p[2] - s.born # q[2] - s.born
      BY <1>2, <2>1, <2>3
    <3>2. RowAt(chosen, p[2] - s.born) # RowAt(chosen, q[2] - s.born)
      BY <1>5, <3>1
    <3> QED
      BY <1>4, <1>5, <2>1, <3>1, <3>2
  <2> QED
    BY <1>1, <2>1, <2>2, <2>3, NewNamesAreOne DEF Sound
<1>7. IsTable(t.catalog) /\ IsTable(t.devices) /\ IsTable(t.crosswalk)
  BY <1>1, LaidOverIsTable DEF Sound
<1>8. DOMAIN t.devices \subseteq 1..t.born
  <2>1. DOMAIN t.devices = numbers \cup DOMAIN s.devices
    BY <1>1 DEF LaidOver
  <2>2. DOMAIN s.devices \subseteq 1..s.born
    BY DEF Sound
  <2>3. 1..s.born \subseteq 1..t.born
    <3> HIDE DEF t, count
    <3> QED
      BY <1>1, <1>2
  <2>4. numbers \subseteq 1..t.born
    BY <1>2
  <2> QED
    BY <2>1, <2>2, <2>3, <2>4
<1>9. \A p \in DOMAIN t.crosswalk : p[2] \in 1..t.born
  <2>1. DOMAIN t.crosswalk = ({provider} \X numbers) \cup DOMAIN s.crosswalk
    BY <1>1 DEF LaidOver
  <2> QED
    BY <1>1, <1>2, <2>1 DEF Sound
<1>10. t.born \in Nat
  BY <1>1, <1>2
<1> QED
  BY <1>6, <1>7, <1>8, <1>9, <1>10 DEF Sound
-----------------------------------------------------------------------------
(* The invariant.                                                            *)

IsBatch(batch) ==
  /\ batch = [export |-> batch.export, fingerprint |-> batch.fingerprint, rows |-> batch.rows]
  /\ batch.export \in DOMAIN Exports /\ DOMAIN batch.rows = DOMAIN Exports[batch.export].rows

BatchesAreOfExports ==
  /\ \E S : batches \in Seq(S)
  /\ \A b \in DOMAIN batches : IsBatch(batches[b])

CountsAreThree == counts = [devices |-> counts.devices, fixes |-> counts.fixes, hands |-> counts.hands]

Inv == Sound(Inventory) /\ CountsAreThree /\ BatchesAreOfExports

LEMMA InvInit == PublicationInit => Inv
<1> SUFFICES ASSUME PublicationInit PROVE Inv
  OBVIOUS
<1>1. IsTable(<<>>) /\ DOMAIN <<>> = {}
  BY DEF IsTable
<1>2. Sound(Inventory)
  BY <1>1, PublicationAssumption DEF Sound, Inventory, NamesOne, PublicationInit, IsTable
<1>3. BatchesAreOfExports
  <2>1. batches \in Seq({})
    BY DEF PublicationInit
  <2> QED
    BY <1>1, <2>1 DEF BatchesAreOfExports, PublicationInit
<1> QED
  BY <1>2, <1>3 DEF Inv, CountsAreThree, PublicationInit

\* A batch that is changed, or one more.
LEMMA OneBatchChanges ==
  ASSUME BatchesAreOfExports, NEW b \in DOMAIN batches, NEW batch, IsBatch(batch), batches' = [batches EXCEPT ![b] = batch]
  PROVE  BatchesAreOfExports'
<1>1. PICK S : batches \in Seq(S)
  BY DEF BatchesAreOfExports
<1>2. batches \in Seq(S \cup {batch})
  BY <1>1
<1>3. batches' \in Seq(S \cup {batch})
  BY <1>2
<1>4. ASSUME NEW c \in DOMAIN batches' PROVE IsBatch(batches'[c])
  <2>1. c \in DOMAIN batches /\ batches'[c] = IF c = b THEN batch ELSE batches[c]
    OBVIOUS
  <2> QED
    BY <2>1 DEF BatchesAreOfExports
<1>5. \A c \in DOMAIN batches' : IsBatch(batches[c]')
  BY <1>4 DEF IsBatch
<1> QED
  BY <1>3, <1>5 DEF BatchesAreOfExports

LEMMA OneMoreBatch ==
  ASSUME BatchesAreOfExports, NEW batch, IsBatch(batch), batches' = Append(batches, batch)
  PROVE  BatchesAreOfExports'
<1>1. PICK S : batches \in Seq(S)
  BY DEF BatchesAreOfExports
<1>2. batches \in Seq(S \cup {batch})
  BY <1>1
<1>3. batches' \in Seq(S \cup {batch})
  BY <1>2
<1>4. ASSUME NEW c \in DOMAIN batches' PROVE IsBatch(batches'[c])
  <2>1. (c \in DOMAIN batches /\ batches'[c] = batches[c]) \/ batches'[c] = batch
    BY <1>2
  <2> QED
    BY <2>1 DEF BatchesAreOfExports
<1>5. \A c \in DOMAIN batches' : IsBatch(batches[c]')
  BY <1>4 DEF IsBatch
<1> QED
  BY <1>3, <1>5 DEF BatchesAreOfExports

\* Staging and review change no inventory.
LEMMA InvStage ==
  ASSUME Inv, NEW x \in DOMAIN Exports, StageExport(x)
  PROVE  Inv'
<1> DEFINE batch == [export |-> x, fingerprint |-> <<x, catalog>>, rows |-> [n \in DOMAIN Exports[x].rows |-> Staged(x, n)]]
<1>1. batches' = Append(batches, batch) /\ UNCHANGED <<catalog, devices, crosswalk, topology, snapshots, counts>>
  BY DEF StageExport
<1>2. IsBatch(batch)
  BY DEF IsBatch
<1> HIDE DEF batch
<1>3. BatchesAreOfExports'
  BY <1>1, <1>2, OneMoreBatch DEF Inv
<1> QED
  BY <1>1, <1>3 DEF Inv, Sound, Inventory, CountsAreThree

LEMMA InvEdited ==
  ASSUME Inv, NEW b, NEW n, NEW row, Open(b, n), Edited(b, n, row),
         \/ UNCHANGED counts
         \/ counts' = [counts EXCEPT !.fixes = @ + 1]
  PROVE  Inv'
<1> DEFINE batch == [batches[b] EXCEPT !.rows = [batches[b].rows EXCEPT ![n] = row]]
<1>1. b \in DOMAIN batches /\ batches' = [batches EXCEPT ![b] = batch] /\ UNCHANGED <<catalog, devices, crosswalk, topology>>
  BY DEF Open, Edited
<1>2. IsBatch(batches[b])
  BY <1>1 DEF Inv, BatchesAreOfExports
<1>3. batch = [export |-> batches[b].export, fingerprint |-> batches[b].fingerprint,
               rows |-> [batches[b].rows EXCEPT ![n] = row]]
  BY <1>2 DEF IsBatch
<1>4. IsBatch(batch)
  BY <1>2, <1>3 DEF IsBatch
<1> HIDE DEF batch
<1>5. BatchesAreOfExports'
  BY <1>1, <1>4, OneBatchChanges DEF Inv
<1>6. counts'.devices = counts.devices /\ CountsAreThree'
  BY DEF Inv, CountsAreThree
<1> QED
  BY <1>1, <1>5, <1>6 DEF Inv, Sound, Inventory

LEMMA InvReview ==
  ASSUME Inv, NEW b, NEW n,
         \/ \E fix \in Fixes : Correct(b, n, fix)
         \/ \E decision \in Decisions(batches[b].rows[n]) : Decide(b, n, decision)
         \/ Repair(b, n) \/ Recheck(b, n) \/ Exclude(b, n)
  PROVE  Inv'
<1>1. ASSUME NEW fix, Correct(b, n, fix) PROVE Inv'
  BY <1>1, InvEdited DEF Correct
<1>2. ASSUME NEW decision, Decide(b, n, decision) PROVE Inv'
  BY <1>2, InvEdited DEF Decide
<1>3. ASSUME Repair(b, n) PROVE Inv'
  BY <1>3, InvEdited DEF Repair
<1>4. ASSUME Recheck(b, n) PROVE Inv'
  BY <1>4, InvEdited DEF Recheck
<1>5. ASSUME Exclude(b, n) PROVE Inv'
  BY <1>5, InvEdited DEF Exclude
<1> QED
  BY <1>1, <1>2, <1>3, <1>4, <1>5

\* A publication commits an inventory that its rows led to.
LEMMA OutcomeIsSound ==
  ASSUME Inv, NEW b \in DOMAIN batches, NEW chosen \in SUBSET Eligible(batches[b]), NEW s \in Outcome(batches[b], chosen)
  PROVE  Sound(s)
<1> DEFINE batch == batches[b]
           k == Len(ExportRows(batch))
<1>1. k \in Nat /\ DOMAIN batch.rows = 1..k
  BY PublicationAssumption DEF Inv, BatchesAreOfExports, IsBatch, ExportRows
<1>2. chosen \in SUBSET (1..k)
  BY <1>1 DEF Eligible
<1>3. Sound(Inventory)
  BY DEF Inv, Inventory
<1> HIDE DEF batch, k
<1>4. CASE InBulk(batch, chosen)
  <2>1. ~BulkRefused(Inventory, batch, chosen) /\ s = BulkAfter(Inventory, batch, chosen)
    BY <1>4 DEF Outcome, Bulk, batch
  <2> QED
    BY <1>1, <1>2, <1>3, <2>1, BulkStaysSound
<1>5. CASE ~InBulk(batch, chosen)
  <2>1. s \in RowByRow(Inventory, batch, chosen)
    BY <1>5 DEF Outcome, batch
  <2> QED
    BY <1>1, <1>3, <2>1, RowByRowStaysSound DEF k
<1> QED
  BY <1>4, <1>5

LEMMA InvPublish ==
  ASSUME Inv, NEW b \in DOMAIN batches, NEW chosen \in SUBSET Eligible(batches[b]), NEW approved, Publish(b, chosen, approved)
  PROVE  Inv'
<1>1. PICK s \in Outcome(batches[b], chosen) : Commit(b, s)
  BY DEF Publish
<1>2. Sound(s)
  BY <1>1, OutcomeIsSound
<1>3. /\ catalog' = s.catalog /\ devices' = s.devices /\ crosswalk' = s.crosswalk
      /\ counts' = [counts EXCEPT !.devices = s.born]
      /\ batches' = [batches EXCEPT ![b] = PublishedRows(batches[b], s.done)]
  BY <1>1 DEF Commit
<1>4. counts'.devices = s.born /\ CountsAreThree'
  BY <1>3 DEF Inv, CountsAreThree
<1>5. Sound(Inventory)'
  BY <1>2, <1>3, <1>4 DEF Sound, Inventory
<1>6. IsBatch(PublishedRows(batches[b], s.done))
  <2> DEFINE batch == batches[b]
             rows == [n \in DOMAIN batch.rows |->
                        IF n \in DOMAIN s.done THEN [batch.rows[n] EXCEPT !.published = TRUE] ELSE batch.rows[n]]
  <2>1. IsBatch(batch)
    BY DEF Inv, BatchesAreOfExports
  <2>2. PublishedRows(batch, s.done) = [batch EXCEPT !.rows = rows]
    BY DEF PublishedRows
  <2>3. DOMAIN rows = DOMAIN batch.rows
    OBVIOUS
  <2> HIDE DEF batch, rows
  <2>4. IsBatch([batch EXCEPT !.rows = rows])
    BY <2>1, <2>3 DEF IsBatch
  <2> QED
    BY <2>2, <2>4 DEF batch
<1>7. BatchesAreOfExports'
  BY <1>3, <1>6, OneBatchChanges DEF Inv
<1> QED
  BY <1>4, <1>5, <1>7 DEF Inv

\* Nothing that is done by hand touches what is remembered.
LEMMA InvByHand ==
  ASSUME Inv, NEW cat, NEW devs, ByHand(cat, devs), IsTable(cat), IsTable(devs),
         \/ DOMAIN devs \subseteq DOMAIN devices /\ counts' = OneMore
         \/ DOMAIN devs = DOMAIN devices \cup {counts.devices + 1} /\ counts' = [OneMore EXCEPT !.devices = @ + 1]
  PROVE  Inv'
<1>1. catalog' = cat /\ devices' = devs /\ UNCHANGED <<crosswalk, topology, batches, snapshots>>
  BY DEF ByHand
<1>2. /\ CountsAreThree'
      /\ \/ counts'.devices = counts.devices /\ DOMAIN devs \subseteq DOMAIN devices
         \/ counts'.devices = counts.devices + 1 /\ DOMAIN devs = DOMAIN devices \cup {counts.devices + 1}
  BY DEF Inv, CountsAreThree, OneMore
<1>3. BatchesAreOfExports'
  BY <1>1 DEF Inv, BatchesAreOfExports, IsBatch
<1>4. /\ counts.devices \in Nat /\ DOMAIN devices \subseteq 1..counts.devices
      /\ \A p \in DOMAIN crosswalk : p[2] \in 1..counts.devices
  BY DEF Inv, Sound, Inventory
<1>5. /\ counts'.devices \in Nat /\ DOMAIN devs \subseteq 1..counts'.devices
      /\ \A p \in DOMAIN crosswalk : p[2] \in 1..counts'.devices
  BY <1>2, <1>4
<1>6. Sound(Inventory)'
  BY <1>1, <1>5 DEF Inv, Sound, Inventory
<1> QED
  BY <1>2, <1>3, <1>6 DEF Inv

LEMMA InvHands ==
  ASSUME Inv,
         \/ \E key \in Switched : Switch(key)
         \/ \E made \in HandMade : CreateByHand(made)
         \/ \E d \in DOMAIN devices : DeleteByHand(d) \/ \E fix \in HandValues : EditByHand(d, fix)
  PROVE  Inv'
<1>1. IsTable(catalog) /\ IsTable(devices)
  BY DEF Inv, Sound, Inventory
<1>2. ASSUME NEW key, Switch(key) PROVE Inv'
  <2>1. IsTable([catalog EXCEPT ![key] = ~@])
    BY DEF IsTable
  <2> QED
    BY <1>1, <1>2, <2>1, InvByHand DEF Switch
<1>3. ASSUME NEW made, CreateByHand(made) PROVE Inv'
  <2> DEFINE new == [d \in {counts.devices + 1} |-> made]
  <2>1. DOMAIN LaidOver(new, devices) = DOMAIN devices \cup {counts.devices + 1}
    BY DEF LaidOver
  <2>2. ByHand(catalog, LaidOver(new, devices)) /\ counts' = [OneMore EXCEPT !.devices = @ + 1]
    BY <1>3 DEF CreateByHand
  <2> HIDE DEF new
  <2> QED
    BY <1>1, <2>1, <2>2, LaidOverIsTable, InvByHand
<1>4. ASSUME NEW d, NEW fix, EditByHand(d, fix) PROVE Inv'
  <2> DEFINE devs == [devices EXCEPT ![d] = [devices[d] EXCEPT ![fix.field] = fix.value]]
  <2>1. IsTable(devs) /\ DOMAIN devs = DOMAIN devices
    BY DEF IsTable
  <2>2. ByHand(catalog, devs) /\ counts' = OneMore
    BY <1>4 DEF EditByHand
  <2> HIDE DEF devs
  <2> QED
    BY <1>1, <2>1, <2>2, InvByHand
<1>5. ASSUME NEW d, DeleteByHand(d) PROVE Inv'
  <2> DEFINE devs == [x \in DOMAIN devices \ {d} |-> devices[x]]
  <2>1. IsTable(devs) /\ DOMAIN devs \subseteq DOMAIN devices
    BY DEF IsTable
  <2>2. ByHand(catalog, devs) /\ counts' = OneMore
    BY <1>5 DEF DeleteByHand
  <2> HIDE DEF devs
  <2> QED
    BY <1>1, <2>1, <2>2, InvByHand
<1> QED
  BY <1>2, <1>3, <1>4, <1>5

LEMMA InvStep == Inv /\ [PublicationNext]_publicationVars => Inv'
<1> SUFFICES ASSUME Inv, [PublicationNext]_publicationVars PROVE Inv'
  OBVIOUS
<1>1. CASE \E x \in DOMAIN Exports : StageExport(x)
  BY <1>1, InvStage
<1>2. CASE \E b \in DOMAIN batches : \E n \in DOMAIN batches[b].rows :
             \/ \E fix \in Fixes : Correct(b, n, fix)
             \/ \E decision \in Decisions(batches[b].rows[n]) : Decide(b, n, decision)
             \/ Repair(b, n) \/ Recheck(b, n) \/ Exclude(b, n)
  BY <1>2, InvReview
<1>3. CASE \E b \in DOMAIN batches : \E chosen \in SUBSET Eligible(batches[b]), approved \in BOOLEAN : Publish(b, chosen, approved)
  BY <1>3, InvPublish
<1>4. CASE \/ \E key \in Switched : Switch(key)
           \/ \E made \in HandMade : CreateByHand(made)
           \/ \E d \in DOMAIN devices : DeleteByHand(d) \/ \E fix \in HandValues : EditByHand(d, fix)
  BY <1>4, InvHands
<1>5. CASE UNCHANGED publicationVars
  BY <1>5 DEF Inv, Sound, Inventory, CountsAreThree, BatchesAreOfExports, IsBatch, publicationVars
<1> QED
  BY <1>1, <1>2, <1>3, <1>4, <1>5 DEF PublicationNext

\* Whatever exports are staged, corrected, decided, repaired and published, and
\* whatever is edited by hand meanwhile: different devices are never remembered by
\* the same serial number or MAC address, nor by the same source id of a provider.
THEOREM NamesStayUnique == PublicationSpec => []IdentifiersNameOneDevice
<1>1. Inv => IdentifiersNameOneDevice
  BY DEF Inv, Sound, Inventory, NamesOne, IdentifiersNameOneDevice
<1> QED
  BY <1>1, InvInit, InvStep, PTL DEF PublicationSpec
-----------------------------------------------------------------------------
(* Together or one by one.                                                   *)

\* Nothing of the inventory is in the way of row n; two rows are in each other's.
Fits(s, batch, n) ==
  LET row == batch.rows[n]
  IN /\ row.values.deviceName # None
     /\ ~CatalogRefuses(s.catalog, row, CatalogFields)
     /\ ~NameTaken(s.devices, row.values.customer, row.values.deviceName, None)
     /\ ~IdentityTaken(s.crosswalk, Exports[batch.export].provider, PublishedIds(batch, n), None)
Clash(batch, a, b) ==
  \/ Shares(PublishedIds(batch, a), PublishedIds(batch, b), IdFields)
  \/ /\ batch.rows[a].values.customer = batch.rows[b].values.customer
     /\ batch.rows[a].values.deviceName = batch.rows[b].values.deviceName
AllFit(s, batch, ns) ==
  (\A n \in ns : Fits(s, batch, n)) /\ (\A a, b \in ns : a # b => ~Clash(batch, a, b))

LEMMA BulkIsRefused ==
  ASSUME NEW s, NEW batch, NEW chosen
  PROVE  BulkRefused(s, batch, chosen) <=> ~AllFit(s, batch, chosen)
  BY DEF BulkRefused, SharedInBatch, SharedName, AllFit, Fits, Clash

LEMMA ClashIsMutual ==
  ASSUME NEW batch, NEW a, NEW b
  PROVE  Clash(batch, a, b) <=> Clash(batch, b, a)
  BY SharingIsMutual DEF Clash

\* The inventory after the chosen rows up to n.
UpTo(chosen, n) == {m \in chosen : m <= n}
NewDevices(s, batch, chosen, n) ==
  [d \in Numbers(s, Rank(chosen, n)) |-> Made(batch.rows[RowAt(chosen, d - s.born)])]
NewNames(s, batch, chosen, n) ==
  [q \in {Exports[batch.export].provider} \X Numbers(s, Rank(chosen, n)) |-> PublishedIds(batch, RowAt(chosen, q[2] - s.born))]
Partial(s, batch, chosen, n) ==
  [catalog |-> s.catalog, devices |-> LaidOver(NewDevices(s, batch, chosen, n), s.devices),
   crosswalk |-> LaidOver(NewNames(s, batch, chosen, n), s.crosswalk), topology |-> s.topology,
   born |-> s.born + Rank(chosen, n), done |-> [m \in UpTo(chosen, n) |-> s.born + Rank(chosen, m)]]

\* Who claims an identifier: the devices that are remembered by it.
LEMMA ClaimantsShare ==
  ASSUME NEW cw, NEW provider, NEW ids, NEW x \in ClaimedBy(cw, provider, ids)
  PROVE  \E q \in DOMAIN cw :
           /\ q[2] = x
           /\ Shares(ids, cw[q], IF q[1] = provider THEN IdFields ELSE {"serialNumber", "macAddress"})
<1>1. CASE x \in SourceOwners(cw, provider, ids.sourceId)
  BY <1>1 DEF SourceOwners, Shares, IdFields
<1>2. CASE x \in Owners(cw, "serialNumber", ids.serialNumber)
  BY <1>2 DEF Owners, Shares, IdFields
<1>3. CASE x \in Owners(cw, "macAddress", ids.macAddress)
  BY <1>3 DEF Owners, Shares, IdFields
<1> QED
  BY <1>1, <1>2, <1>3 DEF ClaimedBy

\* Beside what is remembered, new names of one provider are in the way of the rows
\* they share an identifier with.
LEMMA NewNamesClaim ==
  ASSUME NEW cw, NEW new, NEW provider, NEW ids, DOMAIN new \cap DOMAIN cw = {}, \A k \in DOMAIN new : k[1] = provider
  PROVE  ClaimedBy(LaidOver(new, cw), provider, ids) # {} <=>
           \/ ClaimedBy(cw, provider, ids) # {}
           \/ \E k \in DOMAIN new : Shares(new[k], ids, IdFields)
<1> DEFINE after == LaidOver(new, cw)
           By(w, q) == Shares(ids, w[q], IF q[1] = provider THEN IdFields ELSE {"serialNumber", "macAddress"})
<1>1. /\ DOMAIN after = DOMAIN new \cup DOMAIN cw
      /\ \A k \in DOMAIN new : after[k] = new[k]
      /\ \A k \in DOMAIN cw : after[k] = cw[k]
  BY DEF LaidOver
<1> HIDE DEF after
<1>2. ClaimedBy(after, provider, ids) # {} <=> \E q \in DOMAIN after : By(after, q)
  BY ClaimantsShare, SharersAreFound
<1>3. ClaimedBy(cw, provider, ids) # {} <=> \E q \in DOMAIN cw : By(cw, q)
  BY ClaimantsShare, SharersAreFound
<1>4. \A k \in DOMAIN new : By(after, k) <=> Shares(new[k], ids, IdFields)
  BY <1>1, SharingIsMutual
<1>5. \A k \in DOMAIN cw : By(after, k) <=> By(cw, k)
  BY <1>1
<1> HIDE DEF By
<1> QED
  BY <1>1, <1>2, <1>3, <1>4, <1>5 DEF after

\* Ranks go up by one with every chosen row.
LEMMA RanksGoUp ==
  ASSUME NEW k \in Nat, NEW chosen \in SUBSET (1..k), NEW n \in 1..k
  PROVE  /\ UpTo(chosen, n) = IF n \in chosen THEN UpTo(chosen, n - 1) \cup {n} ELSE UpTo(chosen, n - 1)
         /\ n \notin UpTo(chosen, n - 1)
         /\ Rank(chosen, n) = IF n \in chosen THEN Rank(chosen, n - 1) + 1 ELSE Rank(chosen, n - 1)
<1>1. UpTo(chosen, n) = IF n \in chosen THEN UpTo(chosen, n - 1) \cup {n} ELSE UpTo(chosen, n - 1)
  <2>1. \A m \in chosen : m <= n <=> m <= n - 1 \/ m = n
    OBVIOUS
  <2> QED
    BY <2>1 DEF UpTo
<1>2. n \notin UpTo(chosen, n - 1)
  BY DEF UpTo
<1>3. IsFiniteSet(UpTo(chosen, n - 1))
  <2>1. IsFiniteSet(1..k)
    BY FS_Interval
  <2> QED
    BY <2>1, FS_Subset DEF UpTo
<1>4. \A m : Rank(chosen, m) = Cardinality(UpTo(chosen, m))
  BY DEF Rank, UpTo
<1> QED
  BY <1>1, <1>2, <1>3, <1>4, FS_AddElement

LEMMA RanksAreMonotone ==
  ASSUME NEW k \in Nat, NEW chosen \in SUBSET (1..k), NEW m \in Nat, NEW n \in Nat, m <= n
  PROVE  Rank(chosen, m) \in Nat /\ Rank(chosen, n) \in Nat /\ Rank(chosen, m) <= Rank(chosen, n)
<1>1. UpTo(chosen, m) \subseteq UpTo(chosen, n)
  <2>1. \A i \in chosen : i <= m => i <= n
    OBVIOUS
  <2> QED
    BY <2>1 DEF UpTo
<1>2. IsFiniteSet(UpTo(chosen, n))
  <2>1. IsFiniteSet(1..k)
    BY FS_Interval
  <2> QED
    BY <2>1, FS_Subset DEF UpTo
<1>3. Cardinality(UpTo(chosen, m)) <= Cardinality(UpTo(chosen, n))
  BY <1>1, <1>2, FS_Subset
<1> QED
  BY <1>3, RowsAreRanked DEF Rank, UpTo

\* The numbers given out so far are those of the rows so far.
LEMMA NumbersAreOfRows ==
  ASSUME NEW s, s.born \in Nat, NEW k \in Nat, NEW chosen \in SUBSET (1..k), NEW n \in 0..k
  PROVE  /\ \A d \in Numbers(s, Rank(chosen, n)) : RowAt(chosen, d - s.born) \in UpTo(chosen, n)
         /\ \A a \in UpTo(chosen, n) : s.born + Rank(chosen, a) \in Numbers(s, Rank(chosen, n))
                                   /\ RowAt(chosen, Rank(chosen, a)) = a
<1>1. Cardinality(chosen) \in Nat /\ Rank(chosen, n) \in Nat /\ Rank(chosen, n) <= Cardinality(chosen)
  <2>1. chosen = UpTo(chosen, k)
    <3>1. \A j \in chosen : j <= k
      OBVIOUS
    <3> QED
      BY <3>1 DEF UpTo
  <2>2. Cardinality(chosen) = Rank(chosen, k)
    BY <2>1 DEF Rank, UpTo
  <2>3. n \in Nat /\ n <= k
    OBVIOUS
  <2>4. Rank(chosen, n) \in Nat /\ Rank(chosen, k) \in Nat /\ Rank(chosen, n) <= Rank(chosen, k)
    BY <2>3, RanksAreMonotone
  <2> QED
    BY <2>2, <2>4
<1>2. ASSUME NEW d \in Numbers(s, Rank(chosen, n)) PROVE RowAt(chosen, d - s.born) \in UpTo(chosen, n)
  <2> DEFINE i == d - s.born
             m == RowAt(chosen, i)
  <2>1. i \in 1..Rank(chosen, n)
    BY <1>1 DEF Numbers
  <2>2. m \in chosen /\ Rank(chosen, m) = i
    <3>1. i \in 1..Cardinality(chosen)
      BY <1>1, <2>1
    <3> HIDE DEF i
    <3> QED
      BY <3>1, RowsAreRanked
  <2> HIDE DEF i, m
  <2>3. CASE m <= n
    BY <2>2, <2>3 DEF UpTo, m, i
  <2>4. CASE ~(m <= n)
    <3>1. m \in Nat /\ n \in Nat
      BY <2>2
    <3>4. m \notin UpTo(chosen, n) /\ m \in UpTo(chosen, m) /\ UpTo(chosen, n) \subseteq UpTo(chosen, m)
      <4>1. \A j \in chosen : j <= n => j <= m
        BY <2>4, <3>1
      <4>2. m <= m /\ m \in chosen
        BY <2>2, <3>1
      <4> QED
        BY <2>4, <4>1, <4>2 DEF UpTo
    <3>5. IsFiniteSet(UpTo(chosen, m))
      <4>1. IsFiniteSet(1..k)
        BY FS_Interval
      <4> QED
        BY <4>1, FS_Subset DEF UpTo
    <3>6. Rank(chosen, n) # Rank(chosen, m) /\ Rank(chosen, n) <= Rank(chosen, m)
      BY <3>4, <3>5, FS_Subset DEF Rank, UpTo
    <3> QED
      BY <1>1, <2>1, <2>2, <3>6
  <2> QED
    BY <2>3, <2>4
<1>3. ASSUME NEW a \in UpTo(chosen, n)
      PROVE  s.born + Rank(chosen, a) \in Numbers(s, Rank(chosen, n)) /\ RowAt(chosen, Rank(chosen, a)) = a
  <2>1. a \in chosen /\ a \in Nat /\ a <= n
    BY DEF UpTo
  <2>2. Rank(chosen, a) \in 1..Cardinality(chosen) /\ RowAt(chosen, Rank(chosen, a)) = a
    BY <2>1, RowsAreRanked
  <2>3. Rank(chosen, a) <= Rank(chosen, n)
    <3>1. n \in Nat
      OBVIOUS
    <3> QED
      BY <2>1, <3>1, RanksAreMonotone
  <2> QED
    BY <1>1, <2>2, <2>3 DEF Numbers
<1> QED
  BY <1>2, <1>3

\* A row that makes a device of chosen records.
IsNew(batch, n) ==
  /\ batch.rows[n].role = "DEVICE" /\ ReviewOf(batch.rows[n]).device = None
  /\ Filled(batch.rows[n].values) \subseteq batch.rows[n].resolved

\* After the rows before it, a new row is refused for the inventory of the start,
\* or for one of these rows.
LEMMA NewRowRefused ==
  ASSUME NEW s, Sound(s), NEW batch, NEW k \in Nat, NEW chosen \in SUBSET (1..k), NEW i \in 0..k, NEW n, IsNew(batch, n)
  PROVE  RowRefused(Partial(s, batch, chosen, i), batch, n) <=>
           ~(Fits(s, batch, n) /\ \A a \in UpTo(chosen, i) : ~Clash(batch, a, n))
<1> DEFINE t == Partial(s, batch, chosen, i)
           row == batch.rows[n]
           provider == Exports[batch.export].provider
           ids == PublishedIds(batch, n)
           names == NewNames(s, batch, chosen, i)
           made == NewDevices(s, batch, chosen, i)
           Shared(a) == Shares(PublishedIds(batch, a), ids, IdFields)
           Namesake(a) == /\ batch.rows[a].values.customer = row.values.customer
                          /\ batch.rows[a].values.deviceName = row.values.deviceName
<1>1. /\ t.catalog = s.catalog /\ t.devices = LaidOver(made, s.devices)
      /\ t.crosswalk = LaidOver(names, s.crosswalk)
  BY DEF Partial
<1>2. MembersIn(batch, n) = {}
  BY DEF MembersIn, IsNew
<1> HIDE DEF t
<1>3. RowRefused(t, batch, n) <=>
        \/ IdentityTaken(t.crosswalk, provider, ids, None)
        \/ CatalogRefuses(t.catalog, row, CatalogFields)
        \/ row.values.deviceName = None
        \/ NameTaken(t.devices, row.values.customer, row.values.deviceName, None)
  BY <1>2 DEF RowRefused, IsNew, CustomerAfter, NameAfter
<1>4. /\ s.born \in Nat /\ None \notin Nat /\ DOMAIN s.devices \subseteq 1..s.born
      /\ \A p \in DOMAIN s.crosswalk : p[2] \in 1..s.born
  BY PublicationAssumption DEF Sound
<1>5. /\ \A d \in Numbers(s, Rank(chosen, i)) : RowAt(chosen, d - s.born) \in UpTo(chosen, i)
      /\ \A a \in UpTo(chosen, i) : s.born + Rank(chosen, a) \in Numbers(s, Rank(chosen, i))
                                /\ RowAt(chosen, Rank(chosen, a)) = a /\ (s.born + Rank(chosen, a)) - s.born = Rank(chosen, a)
  <2>1. \A a \in UpTo(chosen, i) : Rank(chosen, a) \in Nat
    <3>1. \A a \in UpTo(chosen, i) : a \in Nat
      BY DEF UpTo
    <3> QED
      BY <3>1, RowsAreRanked
  <2>2. \A a \in UpTo(chosen, i) : (s.born + Rank(chosen, a)) - s.born = Rank(chosen, a)
    BY <1>4, <2>1
  <2> QED
    BY <1>4, <2>2, NumbersAreOfRows
<1>6. Rank(chosen, i) \in Nat
  <2>1. i \in Nat
    OBVIOUS
  <2> QED
    BY <2>1, RowsAreRanked
<1>7. \A d \in Numbers(s, Rank(chosen, i)) : d \in Nat /\ d \notin 1..s.born
  BY <1>4, <1>6 DEF Numbers
<1>8. IdentityTaken(t.crosswalk, provider, ids, None) <=>
        IdentityTaken(s.crosswalk, provider, ids, None) \/ \E a \in UpTo(chosen, i) : Shared(a)
  <2>1. DOMAIN names = {provider} \X Numbers(s, Rank(chosen, i)) /\ DOMAIN t.crosswalk = DOMAIN names \cup DOMAIN s.crosswalk
    BY <1>1 DEF NewNames, LaidOver
  <2>2. \A q \in DOMAIN names : q[1] = provider /\ q[2] \in Numbers(s, Rank(chosen, i))
    BY <2>1
  <2>3. DOMAIN names \cap DOMAIN s.crosswalk = {}
    BY <1>4, <1>7, <2>2
  <2>4. None \notin ClaimedBy(t.crosswalk, provider, ids) /\ None \notin ClaimedBy(s.crosswalk, provider, ids)
    BY <1>4, <1>7, <2>1, <2>2, ClaimantsAreRemembered
  <2>5. (\E q \in DOMAIN names : Shares(names[q], ids, IdFields)) <=> \E a \in UpTo(chosen, i) : Shared(a)
    <3>1. ASSUME NEW q \in DOMAIN names, Shares(names[q], ids, IdFields) PROVE \E a \in UpTo(chosen, i) : Shared(a)
      <4>1. names[q] = PublishedIds(batch, RowAt(chosen, q[2] - s.born))
        BY <2>1 DEF NewNames
      <4> QED
        BY <1>5, <2>2, <3>1, <4>1
    <3>2. ASSUME NEW a \in UpTo(chosen, i), Shared(a) PROVE \E q \in DOMAIN names : Shares(names[q], ids, IdFields)
      <4> DEFINE q == <<provider, s.born + Rank(chosen, a)>>
      <4>1. q \in DOMAIN names /\ q[2] - s.born = Rank(chosen, a)
        BY <1>5, <2>1
      <4>2. names[q] = PublishedIds(batch, RowAt(chosen, q[2] - s.born))
        BY <2>1, <4>1 DEF NewNames
      <4> QED
        BY <1>5, <3>2, <4>1, <4>2
    <3> QED
      BY <3>1, <3>2
  <2> HIDE DEF names, ids, provider, Shared
  <2>6. ClaimedBy(t.crosswalk, provider, ids) # {} <=>
          ClaimedBy(s.crosswalk, provider, ids) # {} \/ \E q \in DOMAIN names : Shares(names[q], ids, IdFields)
    BY <1>1, <2>2, <2>3, NewNamesClaim
  <2>7. \A cw : IdentityTaken(cw, provider, ids, None) <=> ~HasIdentity(ids) \/ ClaimedBy(cw, provider, ids) \ {None} # {}
    BY DEF IdentityTaken
  <2> QED
    BY <2>4, <2>5, <2>6, <2>7
<1>9. NameTaken(t.devices, row.values.customer, row.values.deviceName, None) <=>
        NameTaken(s.devices, row.values.customer, row.values.deviceName, None) \/ \E a \in UpTo(chosen, i) : Namesake(a)
  <2>1. /\ DOMAIN made = Numbers(s, Rank(chosen, i)) /\ DOMAIN t.devices = DOMAIN made \cup DOMAIN s.devices
        /\ \A d \in DOMAIN made : t.devices[d] = made[d] /\ made[d] = Made(batch.rows[RowAt(chosen, d - s.born)])
        /\ \A d \in DOMAIN s.devices \ DOMAIN made : t.devices[d] = s.devices[d]
    BY <1>1 DEF NewDevices, LaidOver
  <2>2. \A d \in DOMAIN t.devices : d # None
    BY <1>4, <1>7, <2>1
  <2>3. DOMAIN made \cap DOMAIN s.devices = {} /\ None \notin DOMAIN s.devices
    BY <1>4, <1>7, <2>1
  <2>4. \A r : Made(r).customer = r.values.customer /\ Made(r).deviceName = r.values.deviceName
    BY DEF Made, Target, DeviceFields
  <2> DEFINE Bears(devs, d) == devs[d].customer = row.values.customer /\ devs[d].deviceName = row.values.deviceName
  <2>5. (\E d \in DOMAIN made : Bears(t.devices, d)) <=> \E a \in UpTo(chosen, i) : Namesake(a)
    <3>1. ASSUME NEW d \in DOMAIN made, Bears(t.devices, d) PROVE \E a \in UpTo(chosen, i) : Namesake(a)
      <4>1. Namesake(RowAt(chosen, d - s.born))
        BY <2>1, <2>4, <3>1
      <4> QED
        BY <1>5, <2>1, <4>1
    <3>2. ASSUME NEW a \in UpTo(chosen, i), Namesake(a) PROVE \E d \in DOMAIN made : Bears(t.devices, d)
      <4> DEFINE d == s.born + Rank(chosen, a)
      <4>1. d \in DOMAIN made /\ RowAt(chosen, d - s.born) = a
        BY <1>5, <2>1
      <4> HIDE DEF d, made
      <4>2. t.devices[d] = Made(batch.rows[a])
        BY <2>1, <4>1
      <4> QED
        BY <2>4, <3>2, <4>1, <4>2
    <3> QED
      BY <3>1, <3>2
  <2>6. NameTaken(t.devices, row.values.customer, row.values.deviceName, None) <=> \E d \in DOMAIN t.devices : Bears(t.devices, d)
    BY <2>2 DEF NameTaken
  <2>7. NameTaken(s.devices, row.values.customer, row.values.deviceName, None) <=> \E d \in DOMAIN s.devices : Bears(s.devices, d)
    BY <2>3 DEF NameTaken
  <2>8. \A d \in DOMAIN s.devices : Bears(t.devices, d) <=> Bears(s.devices, d)
    BY <2>1, <2>3
  <2> HIDE DEF Bears, made, Namesake
  <2> QED
    BY <2>1, <2>5, <2>6, <2>7, <2>8
<1>10. \A a : Clash(batch, a, n) <=> Shared(a) \/ Namesake(a)
  BY DEF Clash
<1>11. Fits(s, batch, n) <=>
         ~(\/ IdentityTaken(s.crosswalk, provider, ids, None)
           \/ CatalogRefuses(s.catalog, row, CatalogFields)
           \/ row.values.deviceName = None
           \/ NameTaken(s.devices, row.values.customer, row.values.deviceName, None))
  BY DEF Fits
<1> HIDE DEF row, provider, ids, Shared, Namesake, names, made
<1> QED
  BY <1>1, <1>3, <1>8, <1>9, <1>10, <1>11 DEF t

LEMMA NextNumber ==
  ASSUME NEW s, s.born \in Nat, NEW k \in Nat, NEW chosen \in SUBSET (1..k), NEW n \in chosen
  PROVE  /\ Rank(chosen, n) \in Nat /\ Rank(chosen, n - 1) \in Nat
         /\ s.born + Rank(chosen, n - 1) + 1 = s.born + Rank(chosen, n)
         /\ Numbers(s, Rank(chosen, n)) = Numbers(s, Rank(chosen, n - 1)) \cup {s.born + Rank(chosen, n)}
         /\ UpTo(chosen, n) = UpTo(chosen, n - 1) \cup {n} /\ n \notin UpTo(chosen, n - 1)
         /\ (s.born + Rank(chosen, n)) - s.born = Rank(chosen, n) /\ RowAt(chosen, Rank(chosen, n)) = n
<1>1. n \in 1..k /\ n \in Nat /\ n - 1 \in Nat
  OBVIOUS
<1>2. Rank(chosen, n) \in Nat /\ Rank(chosen, n - 1) \in Nat /\ RowAt(chosen, Rank(chosen, n)) = n
  BY <1>1, RowsAreRanked
<1>3. /\ Rank(chosen, n) = Rank(chosen, n - 1) + 1
      /\ UpTo(chosen, n) = UpTo(chosen, n - 1) \cup {n} /\ n \notin UpTo(chosen, n - 1)
  BY <1>1, RanksGoUp
<1>4. Numbers(s, Rank(chosen, n)) = Numbers(s, Rank(chosen, n - 1)) \cup {s.born + Rank(chosen, n)}
  BY <1>2, <1>3 DEF Numbers
<1> QED
  BY <1>2, <1>3, <1>4

\* A table over a table over a table.
LEMMA OneMoreOver ==
  ASSUME NEW one, NEW f, NEW g, NEW old,
         DOMAIN g = DOMAIN f \cup DOMAIN one, DOMAIN f \cap DOMAIN one = {},
         \A x \in DOMAIN f : g[x] = f[x], \A x \in DOMAIN one : g[x] = one[x]
  PROVE  LaidOver(one, LaidOver(f, old)) = LaidOver(g, old)
<1> DEFINE inner == LaidOver(f, old)
           all == DOMAIN g \cup DOMAIN old
<1>1. inner = [x \in DOMAIN f \cup DOMAIN old |-> IF x \in DOMAIN f THEN f[x] ELSE old[x]]
  BY DEF LaidOver
<1>2. LaidOver(g, old) = [x \in all |-> IF x \in DOMAIN g THEN g[x] ELSE old[x]]
  BY DEF LaidOver
<1>3. DOMAIN one \cup DOMAIN inner = all
  BY <1>1
<1>4. LaidOver(one, inner) = [x \in DOMAIN one \cup DOMAIN inner |-> IF x \in DOMAIN one THEN one[x] ELSE inner[x]]
  BY DEF LaidOver
<1> HIDE DEF inner, all
<1>5. LaidOver(one, inner) = [x \in all |-> IF x \in DOMAIN one THEN one[x] ELSE inner[x]]
  BY <1>3, <1>4
<1>6. \A x \in all : (IF x \in DOMAIN one THEN one[x] ELSE inner[x]) = (IF x \in DOMAIN g THEN g[x] ELSE old[x])
  BY <1>1 DEF all
<1> QED
  BY <1>2, <1>5, <1>6 DEF inner

\* A row of chosen records makes no record of the catalog.
LEMMA CatalogStays ==
  ASSUME NEW s, Sound(s), NEW batch, NEW n, IsNew(batch, n), ~CatalogRefuses(s.catalog, batch.rows[n], CatalogFields)
  PROVE  CatalogAfter(s.catalog, batch, n) = s.catalog
<1> DEFINE row == batch.rows[n]
           cat == s.catalog
           keys == {KeyOf(f, row.values) : f \in Wanted(row, CatalogFields)}
<1>1. IsTable(cat)
  BY DEF Sound
<1>2. \A f \in Wanted(row, CatalogFields) : KeyOf(f, row.values) \in DOMAIN cat
  BY DEF Wanted, IsNew, CatalogRefuses, IsActive, Filled
<1>3. keys \subseteq DOMAIN cat
  BY <1>2
<1>4. WithRecords(cat, row, CatalogFields) = LaidOver(cat, [x \in keys |-> TRUE])
  BY DEF WithRecords
<1> HIDE DEF keys, row, cat
<1>5. LaidOver(cat, [x \in keys |-> TRUE]) = cat
  BY <1>1, <1>3 DEF LaidOver, IsTable
<1>6. MembersIn(batch, n) = {}
  BY DEF MembersIn, IsNew
<1>7. CatalogAfter(cat, batch, n) = LaidOver(cat, [x \in {} |-> TRUE])
  BY <1>4, <1>5, <1>6 DEF CatalogAfter, row
<1>8. LaidOver(cat, [x \in {} |-> TRUE]) = cat
  BY <1>1 DEF LaidOver, IsTable
<1> QED
  BY <1>7, <1>8 DEF cat

\* A new row that fits goes on from the rows before it to the rows up to it.
LEMMA RowGoesOn ==
  ASSUME NEW s, Sound(s), NEW batch, NEW k \in Nat, NEW chosen \in SUBSET (1..k), NEW n \in chosen,
         IsNew(batch, n), Fits(s, batch, n)
  PROVE  LET t == Partial(s, batch, chosen, n - 1)
         IN RowAfter(t, batch, n, DeviceOf(batch.rows[n], t)) = Partial(s, batch, chosen, n)
<1> DEFINE t == Partial(s, batch, chosen, n - 1)
           u == Partial(s, batch, chosen, n)
           row == batch.rows[n]
           provider == Exports[batch.export].provider
           d == s.born + Rank(chosen, n)
<1>1. /\ t.catalog = s.catalog /\ t.topology = s.topology /\ t.born = s.born + Rank(chosen, n - 1)
      /\ t.devices = LaidOver(NewDevices(s, batch, chosen, n - 1), s.devices)
      /\ t.crosswalk = LaidOver(NewNames(s, batch, chosen, n - 1), s.crosswalk)
      /\ t.done = [m \in UpTo(chosen, n - 1) |-> s.born + Rank(chosen, m)]
  BY DEF Partial
<1>2. u = [catalog |-> s.catalog, devices |-> LaidOver(NewDevices(s, batch, chosen, n), s.devices),
           crosswalk |-> LaidOver(NewNames(s, batch, chosen, n), s.crosswalk), topology |-> s.topology,
           born |-> d, done |-> [m \in UpTo(chosen, n) |-> s.born + Rank(chosen, m)]]
  BY DEF Partial
<1>3. /\ s.born \in Nat /\ Rank(chosen, n) \in Nat /\ Rank(chosen, n - 1) \in Nat /\ d = t.born + 1
      /\ Numbers(s, Rank(chosen, n)) = Numbers(s, Rank(chosen, n - 1)) \cup {d}
      /\ UpTo(chosen, n) = UpTo(chosen, n - 1) \cup {n} /\ n \notin UpTo(chosen, n - 1)
      /\ d - s.born = Rank(chosen, n) /\ RowAt(chosen, Rank(chosen, n)) = n
  <2> HIDE DEF t
  <2>1. s.born \in Nat
    BY DEF Sound
  <2>2. /\ Rank(chosen, n) \in Nat /\ Rank(chosen, n - 1) \in Nat
        /\ s.born + Rank(chosen, n - 1) + 1 = s.born + Rank(chosen, n)
        /\ Numbers(s, Rank(chosen, n)) = Numbers(s, Rank(chosen, n - 1)) \cup {s.born + Rank(chosen, n)}
        /\ UpTo(chosen, n) = UpTo(chosen, n - 1) \cup {n} /\ n \notin UpTo(chosen, n - 1)
        /\ (s.born + Rank(chosen, n)) - s.born = Rank(chosen, n) /\ RowAt(chosen, Rank(chosen, n)) = n
    BY <2>1, NextNumber
  <2>3. d = t.born + 1
    BY <1>1, <2>2
  <2> QED
    BY <2>1, <2>2, <2>3
<1> HIDE DEF t, u
<1>4. DeviceOf(row, t) = d
  BY <1>3 DEF DeviceOf, IsNew
<1>5. d \notin Numbers(s, Rank(chosen, n - 1)) /\ d \notin DOMAIN s.devices
  <2>1. DOMAIN s.devices \subseteq 1..s.born
    BY DEF Sound
  <2>2. Rank(chosen, n) = Rank(chosen, n - 1) + 1
    BY <1>1, <1>3
  <2> QED
    BY <1>3, <2>1, <2>2 DEF Numbers
<1> HIDE DEF d
<1>6. d \notin DOMAIN t.devices
  BY <1>1, <1>5 DEF LaidOver, NewDevices
<1>7. LaidOver([x \in {d} |-> WrittenBy(row, t.devices, d)], t.devices) = LaidOver(NewDevices(s, batch, chosen, n), s.devices)
  <2> DEFINE f == NewDevices(s, batch, chosen, n - 1)
             g == NewDevices(s, batch, chosen, n)
  <2>1. WrittenBy(row, t.devices, d) = Made(row)
    BY <1>6 DEF WrittenBy
  <2>2. DOMAIN g = DOMAIN f \cup {d} /\ g[d] = Made(row)
    BY <1>3 DEF NewDevices
  <2>3. \A x \in DOMAIN f : x # d /\ g[x] = f[x]
    BY <1>3, <1>5 DEF NewDevices
  <2> DEFINE one == [x \in {d} |-> WrittenBy(row, t.devices, d)]
  <2>4. DOMAIN one = {d} /\ one[d] = Made(row)
    BY <2>1
  <2> HIDE DEF f, g, one
  <2>5. LaidOver(one, LaidOver(f, s.devices)) = LaidOver(g, s.devices)
    BY <2>2, <2>3, <2>4, OneMoreOver
  <2> QED
    BY <1>1, <2>5 DEF f, g, one
<1>8. LaidOver([q \in {<<provider, d>>} |-> PublishedIds(batch, n)], t.crosswalk) = LaidOver(NewNames(s, batch, chosen, n), s.crosswalk)
  <2> DEFINE f == NewNames(s, batch, chosen, n - 1)
             g == NewNames(s, batch, chosen, n)
             p == <<provider, d>>
  <2>1. p[2] = d
    OBVIOUS
  <2>2. DOMAIN g = DOMAIN f \cup {p}
    BY <1>3 DEF NewNames
  <2>3. g[p] = PublishedIds(batch, n)
    BY <1>3, <2>1 DEF NewNames
  <2>4. \A x \in DOMAIN f : x # p /\ g[x] = f[x]
    BY <1>3, <1>5, <2>1 DEF NewNames
  <2> DEFINE one == [q \in {p} |-> PublishedIds(batch, n)]
  <2>5. DOMAIN one = {p} /\ one[p] = PublishedIds(batch, n)
    OBVIOUS
  <2> HIDE DEF f, g, p, one
  <2>7. /\ DOMAIN g = DOMAIN f \cup DOMAIN one /\ DOMAIN f \cap DOMAIN one = {}
        /\ \A x \in DOMAIN f : g[x] = f[x]
        /\ \A x \in DOMAIN one : g[x] = one[x]
    BY <2>2, <2>3, <2>4, <2>5
  <2>6. LaidOver(one, LaidOver(f, s.crosswalk)) = LaidOver(g, s.crosswalk)
    BY <2>7, OneMoreOver
  <2> QED
    BY <1>1, <2>6 DEF f, g, p, one
<1>9. LaidOver([m \in {n} \cup MembersIn(batch, n) |-> d], t.done) = [m \in UpTo(chosen, n) |-> s.born + Rank(chosen, m)]
  <2> DEFINE f == [m \in UpTo(chosen, n - 1) |-> s.born + Rank(chosen, m)]
  <2>1. {n} \cup MembersIn(batch, n) = {n}
    BY DEF MembersIn, IsNew
  <2>2. DOMAIN f = UpTo(chosen, n - 1)
    OBVIOUS
  <2>3. LaidOver([m \in {n} |-> d], f) = [m \in {n} \cup UpTo(chosen, n - 1) |-> IF m \in {n} THEN d ELSE f[m]]
    BY DEF LaidOver
  <2>4. \A m \in UpTo(chosen, n) : (IF m \in {n} THEN d ELSE f[m]) = s.born + Rank(chosen, m)
    BY <1>3 DEF d
  <2>5. {n} \cup UpTo(chosen, n - 1) = UpTo(chosen, n)
    BY <1>3
  <2> HIDE DEF f
  <2>6. LaidOver([m \in {n} |-> d], f) = [m \in UpTo(chosen, n) |-> s.born + Rank(chosen, m)]
    BY <2>3, <2>4, <2>5
  <2> QED
    BY <1>1, <2>1, <2>6 DEF f
<1>10. CatalogAfter(t.catalog, batch, n) = s.catalog
  BY <1>1, CatalogStays DEF Fits
<1>11. TopologyAfter(t, batch, n, d) = s.topology
  BY <1>1 DEF TopologyAfter, IsNew
<1>12. RowAfter(t, batch, n, d) =
         [catalog |-> CatalogAfter(t.catalog, batch, n),
          devices |-> LaidOver([x \in {d} |-> WrittenBy(row, t.devices, d)], t.devices),
          crosswalk |-> LaidOver([q \in {<<provider, d>>} |-> PublishedIds(batch, n)], t.crosswalk),
          topology |-> TopologyAfter(t, batch, n, d),
          born |-> IF d \in DOMAIN t.devices THEN t.born ELSE t.born + 1,
          done |-> LaidOver([m \in {n} \cup MembersIn(batch, n) |-> d], t.done)]
  BY DEF RowAfter
<1>13. RowAfter(t, batch, n, d) = u
  BY <1>2, <1>3, <1>6, <1>7, <1>8, <1>9, <1>10, <1>11, <1>12
<1> QED
  BY <1>4, <1>13 DEF t, u, row

\* The fields of an inventory.
IsInventory(s) ==
  s = [catalog |-> s.catalog, devices |-> s.devices, crosswalk |-> s.crosswalk, topology |-> s.topology,
       born |-> s.born, done |-> s.done]

\* Before the first row nothing is new, after the last one everything is.
LEMMA RowsBegin ==
  ASSUME NEW s, Sound(s), IsInventory(s), IsTable(s.done), DOMAIN s.done = {}, NEW batch, NEW k \in Nat, NEW chosen \in SUBSET (1..k)
  PROVE  UpTo(chosen, 0) = {} /\ Partial(s, batch, chosen, 0) = s
<1> DEFINE t == Partial(s, batch, chosen, 0)
<1>1. UpTo(chosen, 0) = {}
  <2>1. \A m \in chosen : ~(m <= 0)
    OBVIOUS
  <2> QED
    BY <2>1 DEF UpTo
<1>2. Rank(chosen, 0) = 0
  BY <1>1, FS_EmptySet DEF Rank, UpTo
<1>3. s.born \in Nat /\ s.born + 0 = s.born /\ (s.born + 1)..s.born = {}
  BY DEF Sound
<1>4. Numbers(s, Rank(chosen, 0)) = {}
  BY <1>2, <1>3 DEF Numbers
<1>5. LaidOver(NewDevices(s, batch, chosen, 0), s.devices) = s.devices
  BY <1>4 DEF LaidOver, NewDevices, Sound, IsTable
<1>6. LaidOver(NewNames(s, batch, chosen, 0), s.crosswalk) = s.crosswalk
  <2>1. DOMAIN NewNames(s, batch, chosen, 0) = {}
    BY <1>4 DEF NewNames
  <2> QED
    BY <2>1 DEF LaidOver, Sound, IsTable
<1>7. [m \in UpTo(chosen, 0) |-> s.born + Rank(chosen, m)] = s.done
  BY <1>1 DEF IsTable
<1>8. t = [catalog |-> s.catalog, devices |-> s.devices, crosswalk |-> s.crosswalk, topology |-> s.topology,
           born |-> s.born, done |-> s.done]
  BY <1>2, <1>3, <1>5, <1>6, <1>7 DEF Partial
<1> QED
  BY <1>1, <1>8 DEF IsInventory

LEMMA RowsEnd ==
  ASSUME NEW s, Sound(s), NEW batch, NEW k \in Nat, NEW chosen \in SUBSET (1..k)
  PROVE  UpTo(chosen, k) = chosen /\ Partial(s, batch, chosen, k) = BulkAfter(s, batch, chosen)
<1>1. UpTo(chosen, k) = chosen
  <2>1. \A m \in chosen : m <= k
    OBVIOUS
  <2> QED
    BY <2>1 DEF UpTo
<1>2. Rank(chosen, k) = Cardinality(chosen)
  BY <1>1 DEF Rank, UpTo
<1>3. BulkAfter(s, batch, chosen) =
        [catalog |-> s.catalog, devices |-> LaidOver(NewDevices(s, batch, chosen, k), s.devices),
         crosswalk |-> LaidOver(NewNames(s, batch, chosen, k), s.crosswalk), topology |-> s.topology,
         born |-> s.born + Cardinality(chosen), done |-> [n \in chosen |-> s.born + Rank(chosen, n)]]
  BY <1>2 DEF BulkAfter, NewDevices, NewNames
<1>4. [n \in chosen |-> s.born + Rank(chosen, n)] = [m \in UpTo(chosen, k) |-> s.born + Rank(chosen, m)]
  BY <1>1
<1> QED
  BY <1>1, <1>2, <1>3, <1>4 DEF Partial

\* The recursion: after row n stands the inventory of the rows up to it, or nothing
\* when one of them was refused.
LEMMA BulkIsRows ==
  ASSUME NEW s, Sound(s), IsInventory(s), IsTable(s.done), DOMAIN s.done = {}, NEW batch, NEW k \in Nat,
         NEW chosen \in SUBSET (1..k), InBulk(batch, chosen), NEW after, RunsAs(after, s, batch, chosen, k)
  PROVE  after[k] = Bulk(s, batch, chosen)
<1> DEFINE At(n) == IF AllFit(s, batch, UpTo(chosen, n)) THEN {Partial(s, batch, chosen, n)} ELSE {}
<1> HIDE DEF At
<1>2. \A n \in chosen : IsNew(batch, n)
  BY DEF InBulk, IsNew
<1>3. after[0] = At(0)
  BY RowsBegin DEF AllFit, At, RunsAs
<1>4. ASSUME NEW n \in 1..k, n \notin chosen, after[n - 1] = At(n - 1) PROVE after[n] = At(n)
  <2>1. UpTo(chosen, n) = UpTo(chosen, n - 1) /\ Rank(chosen, n) = Rank(chosen, n - 1)
    <3>1. n \notin chosen
      BY <1>4
    <3>2. /\ UpTo(chosen, n) = IF n \in chosen THEN UpTo(chosen, n - 1) \cup {n} ELSE UpTo(chosen, n - 1)
          /\ Rank(chosen, n) = IF n \in chosen THEN Rank(chosen, n - 1) + 1 ELSE Rank(chosen, n - 1)
      BY RanksGoUp
    <3> QED
      BY <3>1, <3>2
  <2>2. Partial(s, batch, chosen, n) = Partial(s, batch, chosen, n - 1)
    BY <2>1 DEF Partial, NewDevices, NewNames, Numbers
  <2> QED
    BY <1>4, <2>1, <2>2 DEF At, RunsAs
<1>5. ASSUME NEW n \in chosen, after[n - 1] = At(n - 1) PROVE after[n] = At(n)
  <2> DEFINE t == Partial(s, batch, chosen, n - 1)
             before == UpTo(chosen, n - 1)
  <2>1. UpTo(chosen, n) = before \cup {n} /\ n \notin before
    BY RanksGoUp
  <2>2. after[n] = RowPublished(At(n - 1), batch, n)
    BY <1>5 DEF RunsAs
  <2>3. AllFit(s, batch, UpTo(chosen, n)) <=>
          AllFit(s, batch, before) /\ Fits(s, batch, n) /\ \A a \in before : ~Clash(batch, a, n)
    <3> HIDE DEF before
    <3> QED
      BY <2>1, ClashIsMutual DEF AllFit
  <2>4. RowRefused(t, batch, n) <=> ~(Fits(s, batch, n) /\ \A a \in before : ~Clash(batch, a, n))
    <3>2. n \in 1..k
      OBVIOUS
    <3>1. n - 1 \in 0..k
      BY <3>2
    <3> QED
      BY <1>2, <3>1, NewRowRefused
  <2>5. Fits(s, batch, n) => RowAfter(t, batch, n, DeviceOf(batch.rows[n], t)) = Partial(s, batch, chosen, n)
    BY <1>2, RowGoesOn
  <2> HIDE DEF t, before
  <2>6. RowPublished({t}, batch, n) = IF RowRefused(t, batch, n) THEN {} ELSE {RowAfter(t, batch, n, DeviceOf(batch.rows[n], t))}
    BY DEF RowPublished
  <2>7. RowPublished({}, batch, n) = {}
    BY DEF RowPublished
  <2>8. At(n - 1) = IF AllFit(s, batch, before) THEN {t} ELSE {}
    BY DEF t, before, At
  <2> QED
    BY <2>2, <2>3, <2>4, <2>5, <2>6, <2>7, <2>8 DEF At
<1> DEFINE Bad == {n \in 0..k : after[n] # At(n)}
<1>6. Bad = {}
  <2> SUFFICES ASSUME Bad # {} PROVE FALSE
    OBVIOUS
  <2>1. Bad \subseteq Nat
    OBVIOUS
  <2> HIDE DEF Bad
  <2>2. PICK n \in Bad : \A m \in Bad : n <= m
    BY <2>1, LeastNumber
  <2> HIDE DEF At
  <2>3. n # 0 /\ n \in 0..k /\ after[n] # At(n)
    BY <1>3, <2>2 DEF Bad
  <2>4. n \in 1..k /\ n - 1 \in 0..k /\ ~(n <= n - 1)
    BY <2>3
  <2>5. n - 1 \notin Bad
    BY <2>2, <2>4
  <2>6. after[n - 1] = At(n - 1)
    BY <2>4, <2>5 DEF Bad
  <2> QED
    BY <1>4, <1>5, <2>3, <2>4, <2>6
<1>7. after[k] = At(k)
  <2>1. k \in 0..k
    OBVIOUS
  <2> HIDE DEF At
  <2> QED
    BY <1>6, <2>1
<1>8. At(k) = Bulk(s, batch, chosen)
  BY RowsEnd, BulkIsRefused DEF Bulk, At
<1> QED
  BY <1>7, <1>8

LEMMA BulkIsOneByOne ==
  ASSUME NEW s, Sound(s), IsInventory(s), IsTable(s.done), DOMAIN s.done = {}, NEW batch, Len(ExportRows(batch)) \in Nat,
         NEW chosen, chosen \subseteq 1..Len(ExportRows(batch)), InBulk(batch, chosen)
  PROVE  Bulk(s, batch, chosen) = RowByRow(s, batch, chosen)
<1> DEFINE k == Len(ExportRows(batch))
<1>1. PICK after : RunsAs(after, s, batch, chosen, k) /\ RowByRow(s, batch, chosen) = after[k]
  BY RowByRowUnfolds
<1> HIDE DEF k
<1>2. k \in Nat /\ chosen \in SUBSET (1..k)
  BY DEF k
<1>3. after[k] = Bulk(s, batch, chosen)
  BY <1>1, <1>2, BulkIsRows
<1> QED
  BY <1>1, <1>3

\* New devices whose records are all chosen are the same devices, remembered by the
\* same identifiers, and refused for the same reasons, whether they are written
\* together or one by one: for any rows, any inventory and any choice of rows.
THEOREM EitherWayIsTheSame == PublicationSpec => BulkIsRowByRow
<1>1. Inv => PublishesTheSameEitherWay
  <2> SUFFICES ASSUME Inv, NEW b \in DOMAIN batches, NEW chosen \in SUBSET Eligible(batches[b]), InBulk(batches[b], chosen)
               PROVE  Bulk(Inventory, batches[b], chosen) = RowByRow(Inventory, batches[b], chosen)
    BY DEF PublishesTheSameEitherWay
  <2> DEFINE batch == batches[b]
             k == Len(ExportRows(batch))
  <2>1. k \in Nat /\ DOMAIN batch.rows = 1..k
    BY PublicationAssumption DEF Inv, BatchesAreOfExports, IsBatch, ExportRows
  <2>2. chosen \in SUBSET (1..k)
    BY <2>1 DEF Eligible
  <2>3. Sound(Inventory) /\ IsInventory(Inventory) /\ IsTable(Inventory.done) /\ DOMAIN Inventory.done = {}
    BY DEF Inv, Inventory, IsInventory, IsTable
  <2> QED
    BY <2>1, <2>2, <2>3, BulkIsOneByOne
<1> QED
  BY <1>1, InvInit, InvStep, PTL DEF PublicationSpec, BulkIsRowByRow
-----------------------------------------------------------------------------
(* Repeats.                                                                  *)

LEMMA OneIsOne ==
  ASSUME NEW x
  PROVE  Cardinality({x}) = 1 /\ (CHOOSE y \in {x} : TRUE) = x
<1>1. Cardinality({x}) = 1
  BY FS_Singleton
<1> QED
  BY <1>1

\* A row that is found again by its key, with the values it had, is known and
\* changes nothing.
LEMMA SameIsNoChange ==
  ASSUME NEW ids, NEW values, NEW verdict, NEW member \in BOOLEAN, NEW snapshot, NEW canonical, NEW k,
         verdict.kind \notin {"AMBIGUOUS", "INVALID"}, verdict.kind # "NEW" \/ member,
         SameKey(ids, snapshot) = {k}, snapshot[k].values = values
  PROVE  LET diff == Diff(ids, values, verdict, member, snapshot, canonical)
         IN diff.known /\ ~diff.ambiguous /\ diff.changed = {}
<1> DEFINE kept == snapshot[k]
<1>1. Previous(ids, verdict, member, snapshot) = {k}
  BY DEF Previous, FirstFound
<1>2. Diff(ids, values, verdict, member, snapshot, canonical) = DiffWith(kept, values, canonical)
  <2>1. Cardinality({k}) = 1 /\ (CHOOSE n \in {k} : TRUE) = k
    BY OneIsOne
  <2> QED
    BY <1>1, <2>1 DEF Diff, DiffAgainst
<1>3. Changes(kept.values, values) = {}
  BY DEF Changes
<1>4. DiffWith(kept, values, canonical).known /\ ~DiffWith(kept, values, canonical).ambiguous
  BY DEF DiffWith
<1>5. DiffWith(kept, values, canonical).changed = Changes(kept.values, values)
  BY DEF DiffWith
<1> QED
  BY <1>2, <1>3, <1>4, <1>5

\* The verdict is one trusted suggestion: device d, by its source id.
Trusts(verdict, d) ==
  \E c : /\ verdict = Verdict("MATCH_SUGGESTED", {c})
        /\ c.device = d /\ c.confidence = "HIGH" /\ "sourceId" \in c.agree

\* The device this provider's source id names is the only one it names, whatever
\* else is remembered, and it is trusted.
LEMMA SourceIdDecides ==
  ASSUME NEW cw, NamesOne(cw), NEW devs, NEW provider, NEW d, NEW ids, NEW model,
         <<provider, d>> \in DOMAIN cw, ids.sourceId # None, cw[<<provider, d>>].sourceId = ids.sourceId
  PROVE  Trusts(Resolve(ids, model, provider, cw, devs), d)
<1> DEFINE p == <<provider, d>>
           c == Candidate(ids, model, provider, cw, devs, d)
<1>1. SourceOwners(cw, provider, ids.sourceId) = {d}
  <2>1. d \in SourceOwners(cw, provider, ids.sourceId)
    BY DEF SourceOwners
  <2>2. ASSUME NEW q \in DOMAIN cw, q[1] = provider, cw[q].sourceId = ids.sourceId, q[2] # d PROVE FALSE
    <3>1. p \in DOMAIN cw /\ p[1] = q[1] /\ p[2] # q[2]
      BY <2>2
    <3>2. ~Shares(cw[p], cw[q], IdFields)
      BY <3>1 DEF NamesOne
    <3> QED
      BY <2>2, <3>2 DEF Shares, IdFields
  <2> QED
    BY <2>1, <2>2 DEF SourceOwners
<1>2. CandidateDevices(ids, provider, cw, devs) = {d}
  BY <1>1 DEF CandidateDevices, Named
<1>3. MatchScope(ids, provider, cw, d) = "SAME_PROVIDER"
  BY DEF MatchScope, Shares, IdFields
<1>4. "sourceId" \in Agreeing(ids, CandidateIds(ids, provider, cw, devs, d))
  BY <1>3 DEF CandidateIds, Agreeing, IdFields
<1>5. c.device = d /\ c.confidence = "HIGH" /\ "sourceId" \in c.agree
  BY <1>3, <1>4 DEF Candidate, CandidateWith, Confidence
<1> HIDE DEF c
<1>6. Candidates(ids, model, provider, cw, devs) = {c}
  BY <1>2, <1>5 DEF Candidates, c
<1>7. HasIdentity(ids)
  BY DEF HasIdentity, IdFields
<1>8. ~Ambiguous({c})
  <2>1. Cardinality({c}) = 1
    BY OneIsOne
  <2> QED
    BY <1>5, <2>1 DEF Ambiguous
<1>9. Resolve(ids, model, provider, cw, devs) = Verdict("MATCH_SUGGESTED", {c})
  BY <1>6, <1>7, <1>8 DEF Resolve, VerdictOn, KindOf
<1> QED
  BY <1>5, <1>9 DEF Trusts

\* A row staged with one trusted candidate is matched to it.
LEMMA TrustedIsMatched ==
  ASSUME NEW row, NEW role, NEW c, NEW snapshot, c.confidence = "HIGH", "sourceId" \in c.agree
  PROVE  ReviewOf(StagedRow(row, role, Verdict("MATCH_SUGGESTED", {c}), snapshot)) = Match(c.device)
<1> DEFINE verdict == Verdict("MATCH_SUGGESTED", {c})
           staged == StagedRow(row, role, verdict, snapshot)
<1>1. staged.verdict = verdict /\ staged.decision = None /\ staged.fix = [f \in IdFields |-> None]
  BY DEF StagedRow
<1> HIDE DEF staged
<1>2. Ignored(staged) = {}
  BY <1>1, PublicationAssumption DEF Ignored
<1>3. verdict.kind = "MATCH_SUGGESTED" /\ verdict.candidates = {c}
  BY DEF Verdict
<1> HIDE DEF verdict
<1>4. Speaking(verdict, {}) = {c}
  BY <1>3 DEF Speaking
<1>5. KindNow(verdict, {c}) = "MATCH_SUGGESTED"
  BY <1>3 DEF KindNow
<1>6. Reviewed(None, "MATCH_SUGGESTED", {c}) = Match(c.device)
  BY OneIsOne DEF Reviewed, StillApplies
<1>7. ReviewOf(staged) = Match(c.device)
  BY <1>1, <1>2, <1>4, <1>5, <1>6 DEF ReviewOf, Review
<1> QED
  BY <1>7 DEF staged, verdict

\* A row that says what the snapshot says of it is staged quietly.
LEMMA RepeatIsQuiet ==
  ASSUME NEW x, NEW n, NEW k, NEW snapshot, NamesOne(crosswalk),
         SaidBefore(Exports[x].rows[n], Role(Exports[x].rows, n), snapshot[k]),
         SameKey(snapshot[k].ids, snapshot) = {k}
  PROVE  Quiet(StagedRow(Exports[x].rows[n], Role(Exports[x].rows, n),
                         Resolve(Normalized(Exports[x].rows[n].ids), Exports[x].rows[n].values.model,
                                 Exports[x].provider, crosswalk, devices), snapshot),
               Exports[x].provider, snapshot[k])
<1> DEFINE row == Exports[x].rows[n]
           role == Role(Exports[x].rows, n)
           provider == Exports[x].provider
           ids == Normalized(row.ids)
           kept == snapshot[k]
           verdict == Resolve(ids, row.values.model, provider, crosswalk, devices)
           staged == StagedRow(row, role, verdict, snapshot)
<1> HIDE DEF row, role, provider, ids, kept, verdict, staged
<1>1. /\ kept.ids = IdsByRole(ids, role) /\ kept.values = Compared(row)
      /\ kept.device # None /\ kept.ids.sourceId # None
  BY DEF SaidBefore, row, role, ids, kept
<1>2. ids.sourceId = kept.ids.sourceId
  BY <1>1 DEF IdsByRole, IdFields
<1>3. SameKey(ids, snapshot) = {k}
  <2>1. SourceKey(ids) = SourceKey(kept.ids)
    BY <1>1, <1>2 DEF SourceKey
  <2>2. SameKey(kept.ids, snapshot) = {k}
    BY DEF kept
  <2> QED
    BY <2>1, <2>2 DEF SameKey
<1>4. /\ staged.role = role /\ staged.verdict = verdict /\ staged.repeat = staged.diff.ambiguous
      /\ staged.diff = Diff(ids, Compared(row), verdict, role = "STACK_MEMBER", snapshot, CanonicalOf(verdict))
  BY DEF StagedRow, staged, ids
<1>5. ASSUME verdict.kind \notin {"AMBIGUOUS", "INVALID"}, verdict.kind # "NEW" \/ role = "STACK_MEMBER"
      PROVE  staged.diff.known /\ ~staged.diff.ambiguous /\ staged.diff.changed = {}
  <2> DEFINE member == role = "STACK_MEMBER"
             canonical == CanonicalOf(verdict)
             values == Compared(row)
  <2>1. member \in BOOLEAN /\ snapshot[k].values = values
    BY <1>1 DEF kept
  <2>2. verdict.kind # "NEW" \/ member
    BY <1>5
  <2>3. staged.diff = Diff(ids, values, verdict, member, snapshot, canonical)
    BY <1>4
  <2> HIDE DEF member, canonical, values
  <2> DEFINE diff == Diff(ids, values, verdict, member, snapshot, canonical)
  <2>4. diff.known /\ ~diff.ambiguous /\ diff.changed = {}
    BY <1>3, <1>5, <2>1, <2>2, SameIsNoChange
  <2> QED
    BY <2>3, <2>4
<1>6. ASSUME role = "STACK_MEMBER" PROVE Quiet(staged, provider, kept)
  BY <1>4, <1>5, <1>6 DEF Quiet
<1>7. ASSUME role # "STACK_MEMBER" PROVE Quiet(staged, provider, kept)
  <2> SUFFICES ASSUME <<provider, kept.device>> \in DOMAIN crosswalk,
                      crosswalk[<<provider, kept.device>>].sourceId = kept.ids.sourceId
               PROVE  ReviewOf(staged) = Match(kept.device) /\ ~staged.repeat /\ staged.diff.known /\ staged.diff.changed = {}
    BY <1>4, <1>7 DEF Quiet
  <2>1. PICK c : /\ verdict = Verdict("MATCH_SUGGESTED", {c})
                 /\ c.device = kept.device /\ c.confidence = "HIGH" /\ "sourceId" \in c.agree
    <3>1. ids.sourceId # None /\ crosswalk[<<provider, kept.device>>].sourceId = ids.sourceId
      BY <1>1, <1>2
    <3> DEFINE model == row.values.model
               d == kept.device
    <3>2. verdict = Resolve(ids, model, provider, crosswalk, devices)
      BY DEF verdict
    <3>3. <<provider, d>> \in DOMAIN crosswalk /\ ids.sourceId # None /\ crosswalk[<<provider, d>>].sourceId = ids.sourceId
      BY <3>1
    <3> HIDE DEF model, d
    <3>4. Trusts(Resolve(ids, model, provider, crosswalk, devices), d)
      BY <3>3, SourceIdDecides
    <3> QED
      BY <3>2, <3>4 DEF d, Trusts
  <2>2. ReviewOf(staged) = Match(kept.device)
    BY <2>1, TrustedIsMatched DEF staged
  <2>3. verdict.kind = "MATCH_SUGGESTED"
    BY <2>1 DEF Verdict
  <2> QED
    BY <1>4, <1>5, <2>2, <2>3
<1>8. Quiet(staged, provider, kept)
  BY <1>6, <1>7
<1> QED
  BY <1>8 DEF staged, row, role, provider, ids, verdict, kept

\* Only staging adds a batch.
LEMMA OnlyStagingAdds ==
  ASSUME Inv, [PublicationNext]_publicationVars, Len(batches') > Len(batches)
  PROVE  \E x \in DOMAIN Exports : StageExport(x)
<1>1. PICK S : batches \in Seq(S)
  BY DEF Inv, BatchesAreOfExports
<1>2. Len(batches) \in Nat /\ batches' # batches
  BY <1>1
<1>3. ASSUME NEW b, NEW batch, batches' = [batches EXCEPT ![b] = batch] PROVE FALSE
  <2>1. batches' \in Seq(S \cup {batch}) /\ Len(batches') = Len(batches)
    BY <1>1, <1>3
  <2> QED
    BY <1>2, <2>1
<1>4. ASSUME NEW b, NEW n, NEW row, Edited(b, n, row) PROVE FALSE
  BY <1>3, <1>4 DEF Edited
<1>5. ASSUME NEW cat, NEW devs, ByHand(cat, devs) PROVE FALSE
  BY <1>2, <1>5 DEF ByHand
<1>6. ASSUME NEW b, NEW s, Commit(b, s) PROVE FALSE
  BY <1>3, <1>6 DEF Commit
<1>7. ~UNCHANGED publicationVars
  BY <1>2 DEF publicationVars
<1> QED
  BY <1>4, <1>5, <1>6, <1>7
     DEF PublicationNext, Correct, Decide, Repair, Recheck, Exclude, Publish, Switch, CreateByHand, DeleteByHand, EditByHand

\* An export that says of a published row what it said before, staged again, is
\* matched to the same device without a question and changes nothing: for any
\* exports, any catalog and whatever was edited by hand meanwhile.
THEOREM RepeatsStayQuiet == PublicationSpec => RepeatsAreQuiet
<1>1. Inv /\ [PublicationNext]_publicationVars => [StagesRepeatsQuietly]_publicationVars
  <2> SUFFICES ASSUME Inv, [PublicationNext]_publicationVars, Len(batches') > Len(batches)
               PROVE  QuietAbout(batches'[Len(batches')].export, batches'[Len(batches')].rows)
    BY DEF StagesRepeatsQuietly
  <2>1. PICK x \in DOMAIN Exports : StageExport(x)
    BY OnlyStagingAdds
  <2> DEFINE rows == Exports[x].rows
             staged == [n \in DOMAIN rows |-> Staged(x, n)]
             batch == [export |-> x, fingerprint |-> <<x, catalog>>, rows |-> staged]
  <2>2. batches' = Append(batches, batch)
    BY <2>1 DEF StageExport
  <2>3. batch.export = x /\ batch.rows = staged
    OBVIOUS
  <2>4. batches'[Len(batches')] = batch
    <3> HIDE DEF batch
    <3>1. PICK S : batches \in Seq(S)
      BY DEF Inv, BatchesAreOfExports
    <3>2. batches \in Seq(S \cup {batch})
      BY <3>1
    <3> QED
      BY <2>2, <3>2
  <2>5. NamesOne(crosswalk)
    BY DEF Inv, Sound, Inventory
  <2>6. QuietAbout(x, staged)
    <3> SUFFICES ASSUME NEW n \in DOMAIN staged, NEW k \in DOMAIN LatestOf(x),
                        SaidBefore(rows[n], staged[n].role, LatestOf(x)[k]),
                        SameKey(LatestOf(x)[k].ids, LatestOf(x)) = {k}
                 PROVE  Quiet(staged[n], Exports[x].provider, LatestOf(x)[k])
      BY DEF QuietAbout
    <3>1. staged[n] = StagedRow(rows[n], Role(rows, n),
                                Resolve(Normalized(rows[n].ids), rows[n].values.model, Exports[x].provider, crosswalk, devices),
                                LatestOf(x))
      BY DEF Staged, LatestOf
    <3>2. staged[n].role = Role(rows, n)
      BY <3>1 DEF StagedRow
    <3> HIDE DEF staged
    <3> QED
      BY <2>5, <3>1, <3>2, RepeatIsQuiet
  <2> HIDE DEF batch, staged
  <2> QED
    BY <2>3, <2>4, <2>6
<1> QED
  BY <1>1, InvInit, InvStep, PTL DEF PublicationSpec, RepeatsAreQuiet
=============================================================================
