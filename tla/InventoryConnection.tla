------------------------ MODULE InventoryConnection ------------------------
(* One inventory connection (meraki-, auvik- and aruba-classic-integration- *)
(* store.ts): its InventorySource row, its encrypted secret, and the        *)
(* requests that save it, test it and use it.  Connections do not share     *)
(* state, so one is enough.  Every read and every write of a request is a   *)
(* step of its own; a write is one database transaction.                    *)
(*                                                                          *)
(* Aruba Classic Central (classic) differs from Meraki and Auvik in two     *)
(* ways: its refresh token is single use and is rotated by the provider,    *)
(* and a connection needs a customer and a site before it can be enabled.   *)
EXTENDS Naturals, Tables

CONSTANTS
  Admins,        \* requests of administrators: save, test, discover
  Jobs,          \* inventory syncs, manual or scheduled
  Identities,    \* a region, environment or API gateway
  Grants,        \* an API client or key of the provider, with its credentials
  Works,         \* the <<identity, grant>> pairs the provider accepts
  MaxRotations,  \* bound on the refreshes of one grant
  Losses         \* TRUE when a process or an answer of the provider may be lost

ASSUME ConnectionAssumption ==
  /\ Works \subseteq Identities \X Grants
  /\ Losses \in BOOLEAN
  /\ MaxRotations \in Nat
  /\ None \notin BOOLEAN \cup Identities \cup Grants

VARIABLES
  source,     \* the InventorySource row, None before it is created
  secret,     \* the decrypted InventorySourceSecret, None before it is created
  request,    \* what each client has read and is about to do, None when idle
  live,       \* the generation of the refresh token the provider accepts
  verified,   \* the <<identity, grant>> pairs that ever passed a test
  classic,    \* the provider of the connection: TRUE for Aruba Classic Central
  crossed     \* TRUE once the requests of two administrators overlapped

vars == <<source, secret, request, live, verified, classic, crossed>>

Clients == Admins \cup Jobs
TestStatus == {"UNTESTED", "SUCCESS", "FAILED"}

\* scoped: a customer and at least one enabled site, tenant or organization.
Source == [identity : Identities, scoped : BOOLEAN, enabled : BOOLEAN, test : TestStatus]
Token == [grant : Grants, generation : 0 .. MaxRotations]
Secret == [client : Grants, token : Token]

Saving == [op : {"save"}, row : Source, resets : BOOLEAN, grant : Grants \cup {None}]
Loading == [op : {"test", "sync", "read"}, stage : {"load"}, identity : Identities]
Calling == [op : {"test", "sync", "read"},
            stage : {"call", "rotated", "list", "passed", "failed"},
            identity : Identities, client : Grants, token : Token, next : Token]

\* NULL is none of the rows and requests.
ASSUME NoneAssumption ==
  None \notin Source \cup Secret \cup Saving \cup Loading \cup Calling

TypeOK ==
  /\ source \in Source \cup {None}
  /\ secret \in Secret \cup {None}
  /\ request \in [Clients -> Saving \cup Loading \cup Calling \cup {None}]
  /\ live \in [Grants -> 0 .. MaxRotations]
  /\ verified \in SUBSET (Identities \X Grants)
  /\ classic \in BOOLEAN /\ crossed \in BOOLEAN

Init ==
  /\ source = None
  /\ secret = None
  /\ request = [c \in Clients |-> None]
  /\ live = [g \in Grants |-> 0]
  /\ verified = {}
  /\ classic \in BOOLEAN /\ crossed = FALSE

Idle(c) == request[c] = None
At(c, stage) == /\ request[c] # None
                /\ request[c].op # "save"
                /\ request[c].stage = stage
Continue(c, r) == request' = [request EXCEPT ![c] = r]
Finish(c) == Continue(c, None)
FreshToken(g) == [grant |-> g, generation |-> live[g]]

Holds(c, g) ==
  /\ ~Idle(c)
  /\ IF request[c].op = "save" THEN request[c].grant = g
     ELSE ~At(c, "load") /\ request[c].client = g

\* An administrator pastes newly issued credentials: nothing holds them yet.
Pasteable(g) ==
  /\ secret # None => secret.client # g
  /\ live[g] = 0
  /\ \A c \in Clients : ~Holds(c, g)
-----------------------------------------------------------------------------
(* Creating and saving a connection.                                        *)

Create(c, identity, g, scoped) ==
  /\ Idle(c) /\ source = None /\ Pasteable(g)
  /\ source' = [identity |-> identity, scoped |-> scoped, enabled |-> FALSE, test |-> "UNTESTED"]
  /\ secret' = [client |-> g, token |-> FreshToken(g)]
  /\ UNCHANGED <<request, live, verified>>

Or(given, default) == IF given = None THEN default ELSE given

\* Mutants of Changes (replaced credentials are no change) and of MaySave.
ChangesRegionOnly(existing, in) == in.identity \notin {None, existing.identity}
MaySaveUnscoped(existing, in) ==
  in.enabled = TRUE => /\ in.grant = None
                       /\ in.identity \in {None, existing.identity}
                       /\ existing.test = "SUCCESS"

\* changesIdentity: the saved test no longer speaks for the connection.
Changes(existing, in) ==
  \/ in.identity \notin {None, existing.identity}
  \/ in.grant # None

MaySave(existing, in) ==
  /\ classic /\ Or(in.enabled, existing.enabled) => Or(in.scoped, existing.scoped)
  /\ in.enabled = TRUE => ~Changes(existing, in) /\ existing.test = "SUCCESS"

\* A mutant of SavedRow: a region that was not given is written as it came.
SavedRowAsGiven(existing, in) ==
  [identity |-> in.identity, scoped |-> Or(in.scoped, existing.scoped), enabled |-> FALSE, test |-> "UNTESTED"]

SavedRow(existing, in) ==
  [identity |-> Or(in.identity, existing.identity),
   scoped   |-> Or(in.scoped, existing.scoped),
   enabled  |-> IF Changes(existing, in) THEN FALSE ELSE Or(in.enabled, existing.enabled),
   test     |-> "UNTESTED"]

BeginSave(c, in) ==
  /\ Idle(c) /\ source # None
  /\ in.grant # None => Pasteable(in.grant)
  /\ MaySave(source, in)
  /\ Continue(c, [op |-> "save", row |-> SavedRow(source, in),
                  resets |-> Changes(source, in), grant |-> in.grant])
  /\ UNCHANGED <<source, secret, live, verified>>

\* The metadata column, with the test status, is only written when it is reset.
CommitSave(c) ==
  LET r == request[c] IN
  /\ r # None /\ r.op = "save"
  /\ source' = IF r.resets THEN r.row ELSE [r.row EXCEPT !.test = source.test]
  /\ secret' = IF r.grant = None THEN secret
               ELSE [client |-> r.grant, token |-> FreshToken(r.grant)]
  /\ Finish(c)
  /\ UNCHANGED <<live, verified>>
-----------------------------------------------------------------------------
(* Reading the connection and then, in a second statement, its secret.      *)

MaySync == source.enabled /\ source.test = "SUCCESS" /\ source.scoped

Load(c, op) == Continue(c, [op |-> op, stage |-> "load", identity |-> source.identity])

BeginTest(c) ==
  /\ Idle(c) /\ source # None
  /\ Load(c, "test")
  /\ UNCHANGED <<source, secret, live, verified>>

BeginSync(c) ==
  /\ Idle(c) /\ source # None /\ MaySync
  /\ Load(c, "sync")
  /\ UNCHANGED <<source, secret, live, verified>>

\* Discovery of tenants, organizations, networks and sites, and diagnostics.
BeginRead(c) ==
  /\ Idle(c) /\ source # None
  /\ classic \/ source.test = "SUCCESS"
  /\ Load(c, "read")
  /\ UNCHANGED <<source, secret, live, verified>>

\* A Classic sync probes each site with the newest saved credentials.
Reload(c) ==
  /\ classic /\ At(c, "call") /\ request[c].op = "sync"
  /\ Load(c, "read")
  /\ UNCHANGED <<source, secret, live, verified>>

LoadSecret(c) ==
  /\ At(c, "load")
  /\ Continue(c, [op |-> request[c].op, stage |-> "call", identity |-> request[c].identity,
                  client |-> secret.client, token |-> secret.token, next |-> secret.token])
  /\ UNCHANGED <<source, secret, live, verified>>
-----------------------------------------------------------------------------
(* Calling the provider.                                                    *)

Accepted(c) == <<request[c].identity, request[c].client>> \in Works

\* A test of Meraki or Auvik: one authenticated call.
Verify(c) ==
  /\ ~classic /\ At(c, "call") /\ request[c].op = "test" /\ Accepted(c)
  /\ Continue(c, [request[c] EXCEPT !.stage = "passed"])
  /\ verified' = verified \cup {<<request[c].identity, request[c].client>>}
  /\ UNCHANGED <<source, secret, live>>

\* Classic: the provider exchanges the refresh token it last issued.  A test
\* always refreshes, a fetch does when its access token has expired.
Refresh(c) ==
  LET g == request[c].token.grant IN
  /\ classic /\ At(c, "call") /\ Accepted(c)
  /\ request[c].token = FreshToken(g) /\ live[g] < MaxRotations
  /\ live' = [live EXCEPT ![g] = @ + 1]
  /\ Continue(c, [request[c] EXCEPT !.stage = "rotated", !.next.generation = live[g] + 1])
  /\ UNCHANGED <<source, secret, verified>>

\* A mutant of Renewable: the rotated tokens are saved without a comparison.
RenewableAlways(c) == TRUE

\* persistClassicCentralRotatedTokens: under a lock on the source row, the
\* saved refresh token must still be the one that was exchanged.
Renewable(c) == secret.token = request[c].token

PersistRotation(c) ==
  /\ At(c, "rotated") /\ Renewable(c)
  /\ secret' = [secret EXCEPT !.token = request[c].next]
  /\ Continue(c, [request[c] EXCEPT !.token = request[c].next,
                                    !.stage = IF request[c].op = "test" THEN "list" ELSE "call"])
  /\ UNCHANGED <<source, live, verified>>

Ended(c) == IF request[c].op = "test" THEN [request[c] EXCEPT !.stage = "failed"] ELSE None

RefuseRotation(c) ==
  /\ At(c, "rotated") /\ ~Renewable(c)
  /\ Continue(c, Ended(c))
  /\ UNCHANGED <<source, secret, live, verified>>

\* A Classic test also reads the site list before it passes.
ListSites(c) ==
  /\ At(c, "list")
  /\ Continue(c, [request[c] EXCEPT !.stage = "passed"])
  /\ verified' = verified \cup {<<request[c].identity, request[c].client>>}
  /\ UNCHANGED <<source, secret, live>>

Fetched(c) ==
  /\ At(c, "call") /\ request[c].op # "test"
  /\ Finish(c)
  /\ UNCHANGED <<source, secret, live, verified>>

\* The provider refuses, redirects to another region, or does not answer; or
\* the write of a SUCCESS throws inside the try block.
CallFails(c) ==
  /\ At(c, "call") \/ At(c, "list") \/ At(c, "passed")
  /\ Continue(c, Ended(c))
  /\ UNCHANGED <<source, secret, live, verified>>

WriteVerdict(c) ==
  /\ At(c, "passed") \/ At(c, "failed")
  /\ source' = [source EXCEPT !.test = IF At(c, "passed") THEN "SUCCESS" ELSE "FAILED"]
  /\ Finish(c)
  /\ UNCHANGED <<secret, live, verified>>

\* The process dies, or a write it needs cannot reach the database.
Lose(c) ==
  /\ Losses /\ ~Idle(c)
  /\ Finish(c)
  /\ UNCHANGED <<source, secret, live, verified>>
-----------------------------------------------------------------------------
Inputs == [identity : Identities \cup {None}, scoped : BOOLEAN \cup {None},
           enabled : BOOLEAN \cup {None}, grant : Grants \cup {None}]

AdminStep(c) ==
  \/ \E i \in Identities, g \in Grants, scoped \in BOOLEAN : Create(c, i, g, scoped)
  \/ \E in \in Inputs : BeginSave(c, in)
  \/ CommitSave(c)
  \/ BeginTest(c)
  \/ BeginRead(c)

ProviderStep(c) ==
  \/ LoadSecret(c) \/ Reload(c) \/ Verify(c) \/ Refresh(c)
  \/ PersistRotation(c) \/ RefuseRotation(c) \/ ListSites(c)
  \/ Fetched(c) \/ CallFails(c) \/ WriteVerdict(c) \/ Lose(c)

Step ==
  \/ \E c \in Admins : AdminStep(c)
  \/ \E c \in Jobs : BeginSync(c)
  \/ \E c \in Clients : ProviderStep(c)

\* Two administrators are at work.
Crossing == \E c, d \in Admins : c # d /\ ~Idle(c) /\ ~Idle(d)

Next == Step /\ UNCHANGED classic /\ crossed' = (crossed \/ Crossing')

Spec == Init /\ [][Next]_vars
-----------------------------------------------------------------------------
\* Only verified credentials are enabled: an enabled connection has passed a
\* test with the very region and credentials it holds (ADR 0002, and the
\* refusals of updateMeraki/Auvik/ClassicCentral...Connection).
EnabledIsVerified ==
  source # None /\ source.enabled => <<source.identity, secret.client>> \in verified

\* As long as administrators take turns, whatever syncs and lost processes do, a
\* connection is only enabled with a region and credentials that passed a test
\* together.
EnabledIsVerifiedInTurn == ~crossed => EnabledIsVerified

\* A Classic connection that is enabled has a customer and a site, although
\* saves computed from different reads of the row overwrite each other.
EnabledIsScoped ==
  classic /\ source # None /\ source.enabled => source.scoped

\* The saved refresh token is the one the provider will accept, except while
\* the exchange of that very token is on its way to the database: concurrent
\* tests, syncs and credential changes never strand the connection on a token
\* that was spent, or on a token of another client.
StoredTokenIsLive ==
  secret # None =>
    \/ secret.token = FreshToken(secret.client)
    \/ \E c \in Clients : At(c, "rotated") /\ request[c].token = secret.token

\* A sync only presents credentials to the provider that passed a test there.
SyncsUseTestedCredentials ==
  \A c \in Clients : At(c, "call") /\ request[c].op = "sync" =>
    <<request[c].identity, request[c].client>> \in verified
=============================================================================
