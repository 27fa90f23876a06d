-------------------------- MODULE FirmwareCatalog --------------------------
(* The firmware catalog: its releases and its trains, as engineers create,  *)
(* change and delete them.  A train names the releases it proposes, and one *)
(* train of a platform is preferred.                                        *)
(*                                                                          *)
(* A change is not a transaction: its checks, the search for the preferred  *)
(* trains of the platform, their demotion and the write are separate        *)
(* statements, and other engineers work in between.  What holds across them *)
(* is up to the indexes, the foreign keys and two triggers.  A trigger      *)
(* reads what is committed (READ COMMITTED) and locks nothing, so the       *)
(* statements it belongs to are open for a while: WriteTrain and            *)
(* WriteRelease are a statement with its trigger, CommitTrain and           *)
(* CommitRelease its commit.                                                *)
EXTENDS FirmwareDecisions

CONSTANTS
  Ids,          \* releases: numbers
  Trains,       \* trains: numbers
  Identities,   \* [vendor, platform, version, logical, variant, image] of releases
  TrainNames,   \* [vendor, platform, name] of trains
  Equivalences, \* what counts as a release: "EXACT_ONLY", "ANY_VERIFIED_VARIANT", "ANY_NON_BLOCKED_VARIANT"
  Statuses,     \* what a patch makes of a release: see Patches
  Editors,      \* engineers who edit releases and trains
  MaxWrites,    \* bound: writes in a behaviour
  FirstReleases, FirstTrains \* the catalog at the start

VARIABLES
  releases,     \* the release of an id, or None
  trains,       \* the train of an id, or None
  cited,        \* releases that devices, policies or lifecycle records name
  edit,         \* what an editor is in the middle of
  crossed,      \* history: trains and releases whose statements were open at one time
  writes        \* counts the writes

catalogVars == <<releases, trains, cited, edit, crossed, writes>>

IdentityOf(r) == [vendor |-> r.vendor, platform |-> r.platform, version |-> r.version,
                  logical |-> r.logical, variant |-> r.variant, image |-> r.image]
Live(f) == {x \in DOMAIN f : f[x] # None}
Idle == [kind |-> "idle", step |-> "idle"]

\* Where the defaults of a train must be.
Home(t, train) == [train |-> t, vendor |-> train.vendor, platform |-> train.platform]
HomeOf(r) == [train |-> r.train, vendor |-> r.vendor, platform |-> r.platform]
Defaults(train) == {train.preferred, train.minimum} \ {None}

\* The records of the catalog, and of an editor who is in the middle of an edit.
Release ==
  [id : Ids, vendor : {i.vendor : i \in Identities}, platform : {i.platform : i \in Identities},
   version : {i.version : i \in Identities}, logical : {i.logical : i \in Identities},
   variant : {i.variant : i \in Identities}, image : {i.image : i \in Identities},
   train : Trains \cup {None}, equivalence : Equivalences \cup {"EXACT_ONLY"}, active : BOOLEAN,
   state : {"VERIFIED", "OBSERVED", "BLOCKED", "WITHDRAWN"},
   eligibility : {"ALLOWED", "NOT_EVALUATED", "DISALLOWED"}]
IsRelease(id, r) == r \in Release /\ r.id = id /\ IdentityOf(r) \in Identities
IsTrain(train) ==
  /\ train = [vendor |-> train.vendor, platform |-> train.platform, name |-> train.name,
              state |-> train.state, preferred |-> train.preferred,
              minimum |-> train.minimum, active |-> train.active]
  /\ train.state \in {"PREFERRED", "ACCEPTED", "DEPRECATED"} /\ Defaults(train) \subseteq Ids
IsTrainEdit(w) ==
  /\ w.kind = "train"
  /\ w = [kind |-> "train", step |-> w.step, train |-> w.train, to |-> w.to, peers |-> w.peers, new |-> w.new]
  /\ w.step \in {"find", "demote", "write", "open"} /\ w.train \in Trains /\ IsTrain(w.to)
IsReleaseEdit(w) ==
  /\ w.kind = "release"
  /\ w = [kind |-> "release", step |-> w.step, id |-> w.id, to |-> w.to, new |-> w.new]
  /\ w.step \in {"write", "open"} /\ w.id \in Ids
  /\ IF w.to = None THEN w.step = "write" ELSE IsRelease(w.id, w.to)
IsEdit(w) == IsTrainEdit(w) \/ IsReleaseEdit(w)

\* Releases and trains are numbered, a version is made of numbers, and the
\* catalog at the start is one that the triggers and the indexes accept.
ASSUME CatalogAssumption ==
  /\ Trains \subseteq Nat /\ IsFiniteSet(Trains) /\ None \notin Release
  /\ Statuses \subseteq Decisions \cup {"DEPRECATED", "RECOMMENDED", "APPROVED", "AVAILABLE", "TESTING"}
  /\ \A i \in Identities : i = IdentityOf(i) /\ i.logical.parts \in Seq(Nat)
  /\ FirstReleases = [id \in Ids |-> FirstReleases[id]] /\ FirstTrains = [t \in Trains |-> FirstTrains[t]]
  /\ \A id \in Live(FirstReleases) : IsRelease(id, FirstReleases[id])
  /\ \A t \in Live(FirstTrains) :
       /\ IsTrain(FirstTrains[t])
       /\ \A id \in Defaults(FirstTrains[t]) :
            id \in Live(FirstReleases) /\ HomeOf(FirstReleases[id]) = Home(t, FirstTrains[t])
       /\ \A o \in Live(FirstTrains) \ {t} :
            ~(/\ FirstTrains[t].state = "PREFERRED" /\ FirstTrains[t].active
              /\ FirstTrains[o].state = "PREFERRED" /\ FirstTrains[o].active
              /\ FirstTrains[o].vendor = FirstTrains[t].vendor
              /\ FirstTrains[o].platform = FirstTrains[t].platform)

CatalogInit ==
  /\ releases = FirstReleases /\ trains = FirstTrains
  /\ cited = {} /\ edit = [e \in Editors |-> Idle] /\ crossed = {} /\ writes = 0

\* A statement on a train, or on a release, that is not committed yet.
OpenTrain(o)   == edit[o].kind = "train" /\ edit[o].step = "open"
OpenRelease(o) == edit[o].kind = "release" /\ edit[o].step = "open"

\* The foreign keys of an open statement keep what it names from being deleted,
\* and a release from another key: its deletion, or a change of its vendor, its
\* platform or its version, waits for the trains that name it.
IsHeldRelease(id) == \E o \in Editors : OpenTrain(o) /\ id \in Defaults(edit[o].to)
IsHeldTrain(t)    == \E o \in Editors : OpenRelease(o) /\ edit[o].to.train = t

TakesKey(w) ==
  w.to = None \/ /\ releases[w.id] # None
                 /\ <<w.to.vendor, w.to.platform, w.to.version>> #
                      <<releases[w.id].vendor, releases[w.id].platform, releases[w.id].version>>

EditGoes(e, w) == edit' = [edit EXCEPT ![e] = w]
-----------------------------------------------------------------------------
(* Releases.                                                                *)

\* catalogSemanticsFromLegacyStatus
LegacySemantics(status) ==
  CASE status = "BLOCKED" -> [state |-> "BLOCKED", eligibility |-> "DISALLOWED"]
    [] status = "DEPRECATED" -> [state |-> "WITHDRAWN", eligibility |-> "DISALLOWED"]
    [] status \in {"RECOMMENDED", "APPROVED"} -> [state |-> "VERIFIED", eligibility |-> "ALLOWED"]
    [] status \in {"AVAILABLE", "TESTING"} -> [state |-> "VERIFIED", eligibility |-> "NOT_EVALUATED"]

\* A decision of today's form, or a status of the form before it; a barred
\* release is never selectable.
Patches(status) ==
  LET s == IF status \in Decisions \ {"BLOCKED"} THEN SemanticsOf(status) ELSE LegacySemantics(status)
  IN [s EXCEPT !.eligibility = IF s.state \in {"BLOCKED", "WITHDRAWN"} THEN "DISALLOWED" ELSE s.eligibility]

\* assertTrainAssignment
FitsItsTrain(r) ==
  r.train # None => trains[r.train] # None /\ HomeOf(r) = Home(r.train, trains[r.train])

\* assertUnique
IsNewRelease(id, r) ==
  \A o \in Live(releases) \ {id} :
    <<releases[o].vendor, releases[o].platform, releases[o].version>> # <<r.vendor, r.platform, r.version>>

\* A mutant of KeepsDefaults: a release that leaves its train is not asked.
KeepsDefaultsOfMembers(id, r) ==
  r.train # None => \A t \in Live(trains) : id \in Defaults(trains[t]) => HomeOf(r) = Home(t, trains[t])

\* FirmwareRelease_preserve_train_default_membership: a default stays at home.
KeepsDefaults(id, r) ==
  \A t \in Live(trains) : id \in Defaults(trains[t]) => HomeOf(r) = Home(t, trains[t])

BeginRelease(e, id, r, new) ==
  /\ edit[e] = Idle /\ writes < MaxWrites
  /\ EditGoes(e, [kind |-> "release", step |-> "write", id |-> id, to |-> r, new |-> new])
  /\ UNCHANGED <<releases, trains, cited, crossed, writes>>

\* createFirmwareRelease, its checks.
CreateRelease(e, id, identity, t, status) ==
  LET r == [id |-> id, vendor |-> identity.vendor, platform |-> identity.platform,
            version |-> identity.version, logical |-> identity.logical, variant |-> identity.variant,
            image |-> identity.image, train |-> t, equivalence |-> "EXACT_ONLY", active |-> TRUE,
            state |-> Patches(status).state, eligibility |-> Patches(status).eligibility]
  IN /\ releases[id] = None /\ \A o \in Editors : edit[o].kind = "release" => edit[o].id # id
     /\ FitsItsTrain(r) /\ IsNewRelease(id, r)
     /\ BeginRelease(e, id, r, TRUE)

\* What a form changes of a release: its identity (the logical version, the
\* variant and the image follow the version again), its train, its decision,
\* its equivalence or its archiving.
Changed(r) ==
  {[r EXCEPT !.vendor = i.vendor, !.platform = i.platform, !.version = i.version,
             !.logical = i.logical, !.variant = i.variant, !.image = i.image] : i \in Identities}
  \cup {[r EXCEPT !.train = t] : t \in Trains \cup {None}}
  \cup {[r EXCEPT !.state = Patches(s).state, !.eligibility = Patches(s).eligibility] : s \in Statuses}
  \cup {[r EXCEPT !.equivalence = q] : q \in Equivalences}
  \cup {[r EXCEPT !.active = ~r.active]}

\* updateFirmwareRelease, its checks: what it will write is the row it has read
\* with the form's fields.
UpdateRelease(e, id, r) ==
  /\ releases[id] # None /\ r # releases[id]
  /\ FitsItsTrain(r) /\ IsNewRelease(id, r)
  /\ BeginRelease(e, id, r, FALSE)

\* Nothing names the release: counted by the code, and again by the foreign keys.
IsUnnamed(id) == id \notin cited /\ \A t \in Live(trains) : id \notin Defaults(trains[t])

\* deleteFirmwareRelease, its checks: evidence stays.
DeleteRelease(e, id) ==
  /\ releases[id] # None /\ releases[id].state # "OBSERVED" /\ IsUnnamed(id)
  /\ BeginRelease(e, id, None, FALSE)

\* The statement, which waits for another one on the row.  An update passes its
\* trigger and stays open; an insert and a deletion have no trigger, and are done.
\* What the indexes or the keys refuse leaves no trace.
WriteRelease(e) ==
  LET w == edit[e]
      refused == \/ w.new # (releases[w.id] = None)
                 \/ w.to = None /\ ~IsUnnamed(w.id)
                 \/ w.to # None /\ w.to.train # None /\ trains[w.to.train] = None
                 \/ w.new /\ ~IsNewRelease(w.id, w.to)
                 \/ w.to # None /\ ~w.new /\ ~KeepsDefaults(w.id, w.to)
  IN /\ w.kind = "release" /\ w.step = "write" /\ writes < MaxWrites
     /\ \A o \in Editors : OpenRelease(o) => edit[o].id # w.id
     /\ TakesKey(w) => ~IsHeldRelease(w.id)
     /\ IF ~refused /\ w.to # None /\ ~w.new
          THEN /\ EditGoes(e, [w EXCEPT !.step = "open"])
               /\ crossed' = crossed \cup {<<edit[o].train, w.id>> :
                                  o \in {o \in Editors : OpenTrain(o) /\ w.id \in Defaults(edit[o].to)}}
               /\ UNCHANGED <<releases, writes>>
          ELSE /\ EditGoes(e, Idle)
               /\ releases' = IF refused THEN releases ELSE [releases EXCEPT ![w.id] = w.to]
               /\ writes' = IF refused THEN writes ELSE writes + 1
               /\ UNCHANGED crossed
     /\ UNCHANGED <<trains, cited>>

\* The update is committed, unless a unique index has refused it.
CommitRelease(e) ==
  LET w == edit[e]
      accepted == IsNewRelease(w.id, w.to)
  IN /\ OpenRelease(e) /\ writes < MaxWrites
     /\ EditGoes(e, Idle)
     /\ releases' = IF accepted THEN [releases EXCEPT ![w.id] = w.to] ELSE releases
     /\ writes' = IF accepted THEN writes + 1 ELSE writes
     /\ UNCHANGED <<trains, cited, crossed>>

\* A device, a policy or a lifecycle record names a release.
Cite(id) ==
  /\ releases[id] # None /\ id \notin cited
  /\ writes < MaxWrites /\ writes' = writes + 1
  /\ cited' = cited \cup {id}
  /\ UNCHANGED <<releases, trains, edit, crossed>>
-----------------------------------------------------------------------------
(* Trains.                                                                  *)

IsNewTrain(t, train) ==
  \A o \in Live(trains) \ {t} :
    <<trains[o].vendor, trains[o].platform, trains[o].name>> # <<train.vendor, train.platform, train.name>>

\* parseFirmwareTrainInput and assertReleaseDefaults: the defaults are allowed
\* releases of this train, in order.
DefaultsAreGood(t, train) ==
  /\ train.minimum # None => train.preferred # None
  /\ \A id \in Defaults(train) :
       /\ releases[id] # None
       /\ HomeOf(releases[id]).train = t /\ HomeOf(releases[id]).platform = train.platform
       /\ IsUsable(releases[id])
  /\ train.minimum # None =>
       CompareVersions(releases[train.minimum].version, releases[train.preferred].version) \in {"LESS", "EQUAL"}

\* The trains demotePreferredPeers finds.
PreferredPeers(t, train) ==
  {o \in Live(trains) \ {t} : /\ trains[o].state = "PREFERRED" /\ trains[o].active
                              /\ trains[o].vendor = train.vendor /\ trains[o].platform = train.platform}

\* A mutant of OnlyPreferred: without the partial index.
OnlyPreferredNot(t, train) == TRUE

\* FirmwareTrain_one_preferred_platform_idx
OnlyPreferred(t, train) == train.state = "PREFERRED" /\ train.active => PreferredPeers(t, train) = {}

\* FirmwareTrain_validate_release_defaults
DefaultsAtHome(t, train) ==
  \A id \in Defaults(train) : releases[id] # None /\ HomeOf(releases[id]) = Home(t, train)

\* An edit of a train begins, and looks for peers to demote or goes on to its write.
BeginTrain(e, t, train, promotes, new) ==
  /\ edit[e] = Idle /\ writes < MaxWrites
  /\ EditGoes(e, [kind |-> "train", step |-> IF promotes THEN "find" ELSE "write",
                  train |-> t, to |-> train, peers |-> {}, new |-> new])
  /\ UNCHANGED <<releases, trains, cited, crossed, writes>>

\* createFirmwareTrain, its checks: a train begins without defaults.  Peers are
\* demoted even by a train that is created archived.
BeginCreate(e, t, name, state, active) ==
  LET train == [vendor |-> name.vendor, platform |-> name.platform, name |-> name.name, state |-> state,
                preferred |-> None, minimum |-> None, active |-> active]
  IN /\ trains[t] = None /\ \A o \in Editors : edit[o].kind = "train" => edit[o].train # t
     /\ IsNewTrain(t, train)
     /\ BeginTrain(e, t, train, state = "PREFERRED", TRUE)

\* What a form changes of a train.
ChangedTrain(train) ==
  {[train EXCEPT !.state = s] : s \in {"PREFERRED", "ACCEPTED", "DEPRECATED"}}
  \cup {[train EXCEPT !.preferred = d[1], !.minimum = d[2]] : d \in (Ids \cup {None}) \X (Ids \cup {None})}
  \cup {[train EXCEPT !.vendor = n.vendor, !.platform = n.platform, !.name = n.name] : n \in TrainNames}
  \cup {[train EXCEPT !.active = ~train.active]}

\* updateFirmwareTrain, its checks.
BeginUpdate(e, t, train) ==
  /\ trains[t] # None /\ train # trains[t]
  /\ IsNewTrain(t, train) /\ DefaultsAreGood(t, train)
  /\ BeginTrain(e, t, train, train.state = "PREFERRED" /\ train.active, FALSE)

\* demotePreferredPeers, its query.
FindPeers(e) ==
  LET w == edit[e] IN
  /\ w.step = "find"
  /\ LET peers == PreferredPeers(IF w.new THEN None ELSE w.train, w.to)
     IN EditGoes(e, [w EXCEPT !.peers = peers, !.step = IF peers = {} THEN "write" ELSE "demote"])
  /\ UNCHANGED <<releases, trains, cited, crossed, writes>>

\* demotePreferredPeers, its statement: by id, whatever they are by now.  It waits
\* for an open statement on one of them, and has no trigger.
DemotePeers(e) ==
  LET w == edit[e] IN
  /\ w.step = "demote" /\ \A o \in Editors : OpenTrain(o) => edit[o].train \notin w.peers
  /\ trains' = [t \in Trains |-> IF t \in w.peers /\ trains[t] # None
                                 THEN [trains[t] EXCEPT !.state = "ACCEPTED"] ELSE trains[t]]
  /\ EditGoes(e, [w EXCEPT !.step = "write"])
  /\ UNCHANGED <<releases, cited, crossed, writes>>

\* The statement, which waits for another one on the row, with its trigger.  The
\* database may refuse it: the demotion stands all the same.
WriteTrain(e) ==
  LET w == edit[e]
      passes == (w.new <=> trains[w.train] = None) /\ DefaultsAtHome(w.train, w.to)
  IN /\ w.kind = "train" /\ w.step = "write" /\ writes < MaxWrites
     /\ \A o \in Editors : OpenTrain(o) => edit[o].train # w.train
     /\ EditGoes(e, IF passes THEN [w EXCEPT !.step = "open"] ELSE Idle)
     /\ crossed' = IF passes
                   THEN crossed \cup {<<w.train, edit[o].id>> :
                          o \in {o \in Editors : OpenRelease(o) /\ edit[o].id \in Defaults(w.to)}}
                   ELSE crossed
     /\ UNCHANGED <<releases, trains, cited, writes>>

\* The statement is committed, unless a unique index has refused it.  Its trigger
\* has passed by then, but its foreign keys still wait for a release that is
\* getting another key.
CommitTrain(e) ==
  LET w == edit[e]
      accepted == IsNewTrain(w.train, w.to) /\ OnlyPreferred(w.train, w.to)
  IN /\ OpenTrain(e) /\ writes < MaxWrites
     /\ \A o \in Editors : OpenRelease(o) /\ edit[o].id \in Defaults(w.to) => ~TakesKey(edit[o])
     /\ EditGoes(e, Idle)
     /\ trains' = IF accepted THEN [trains EXCEPT ![w.train] = w.to] ELSE trains
     /\ writes' = IF accepted THEN writes + 1 ELSE writes
     /\ UNCHANGED <<releases, cited, crossed>>

\* deleteFirmwareTrain: the foreign keys refuse it while a release is in the train.
DeleteTrain(t) ==
  /\ trains[t] # None /\ writes < MaxWrites
  /\ \A id \in Live(releases) : releases[id].train # t
  /\ ~IsHeldTrain(t) /\ \A o \in Editors : OpenTrain(o) => edit[o].train # t
  /\ trains' = [trains EXCEPT ![t] = None] /\ writes' = writes + 1
  /\ UNCHANGED <<releases, cited, edit, crossed>>

CatalogNext ==
  \/ \E e \in Editors, id \in Ids, i \in Identities, t \in Trains \cup {None}, s \in Statuses :
       CreateRelease(e, id, i, t, s)
  \/ \E e \in Editors, id \in Live(releases) : \E r \in Changed(releases[id]) : UpdateRelease(e, id, r)
  \/ \E e \in Editors, id \in Ids : DeleteRelease(e, id)
  \/ \E e \in Editors : WriteRelease(e) \/ CommitRelease(e)
  \/ \E id \in Ids : Cite(id)
  \/ \E e \in Editors, t \in Trains, n \in TrainNames, s \in {"PREFERRED", "ACCEPTED"}, a \in BOOLEAN :
       BeginCreate(e, t, n, s, a)
  \/ \E e \in Editors, t \in Live(trains) : \E train \in ChangedTrain(trains[t]) : BeginUpdate(e, t, train)
  \/ \E e \in Editors : FindPeers(e) \/ DemotePeers(e) \/ WriteTrain(e) \/ CommitTrain(e)
  \/ \E t \in Trains : DeleteTrain(t)

CatalogSpec == CatalogInit /\ [][CatalogNext]_catalogVars
-----------------------------------------------------------------------------
(* Types.  The catalog holds records under their own ids; every editor is   *)
(* idle or somewhere in its edit.                                           *)
CatalogTypeOK ==
  /\ releases = [id \in Ids |-> releases[id]] /\ trains = [t \in Trains |-> trains[t]]
  /\ edit = [e \in Editors |-> edit[e]]
  /\ \A id \in Live(releases) : IsRelease(id, releases[id])
  /\ \A t \in Live(trains) : IsTrain(trains[t])
  /\ \A e \in Editors : edit[e] # Idle => IsEdit(edit[e])

\* Whoever promotes trains at the same time, a platform never has two active
\* preferred trains: the catalog would propose two targets.
OnePreferredTrain ==
  \A t \in Live(trains) :
    trains[t].state = "PREFERRED" /\ trains[t].active => PreferredPeers(t, trains[t]) = {}

\* The releases a train proposes exist.  One that is not a release of the train
\* and of its platform is so because a write of the train and a write of the
\* release were open at one time, each past its trigger: no other order of
\* checks, changes, deletions and creations, by any engineers, leads there.
DefaultsStayAtHome ==
  \A t \in Live(trains) : \A id \in Defaults(trains[t]) :
    /\ releases[id] # None
    /\ HomeOf(releases[id]) = Home(t, trains[t]) \/ <<t, id>> \in crossed

\* The train of a model, as a candidate for its catalog default; every release
\* runs on the model here.
Candidate(t) ==
  [id |-> t, state |-> trains[t].state, compatibility |-> "COMPATIBLE",
   preferred |-> IF trains[t].preferred = None THEN None ELSE releases[trains[t].preferred]]
CandidatesOf(vendor, platform) ==
  {Candidate(t) : t \in {u \in Live(trains) : /\ trains[u].active /\ trains[u].state # "DEPRECATED"
                                              /\ trains[u].vendor = vendor /\ trains[u].platform = platform}}

\* Whatever became of the releases since a train was given its defaults, the
\* catalog only ever proposes a release that is active and allowed, and a
\* device stays on its train only while that train has one.
ProposalsAreUsable ==
  \A n \in TrainNames, current \in Trains :
    LET answer == TrainForDevice(CandidatesOf(n.vendor, n.platform), current)
    IN answer.train # None => IsUsable(answer.train.preferred) /\ answer.train.state # "DEPRECATED"

\* The catalog never keeps a default that is gone, keeps one outside its train
\* only after two writes that were open at one time, and never proposes one that
\* may not be used (firmware-train-store.ts, the catalog default).
DefaultsStayUsable == DefaultsStayAtHome /\ ProposalsAreUsable

\* What the catalog's documentation says of every release with a train.
MembersMatchTheirTrain == \A id \in Live(releases) : FitsItsTrain(releases[id])
=============================================================================
