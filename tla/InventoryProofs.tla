-------------------------- MODULE InventoryProofs --------------------------
(* Proofs about the inventory: about InventoryConnection, for any            *)
(* administrators, syncs, regions and credentials, and about                 *)
(* InventoryHierarchy and InventoryDevices, for any requests, customers,     *)
(* units, sites and devices.                                                 *)
EXTENDS InventoryConnection, InventoryHierarchy, InventoryDevices, FiniteSetTheorems, TLAPS

-----------------------------------------------------------------------------
(* Connections.                                                              *)

\* The client calls the provider, or is about to write what came of it.
Calls(c) == ~Idle(c) /\ request[c].op # "save" /\ request[c].stage # "load"
Saves(c) == ~Idle(c) /\ request[c].op = "save"

\* Nothing runs before the connection exists, and its secret exists with it.
Started ==
  /\ source = None <=> secret = None
  /\ source = None => \A c \in Clients : Idle(c)

\* A token belongs to the grant it is stored or carried with, and is not newer
\* than the last one that was issued.
Issued ==
  /\ secret # None => /\ secret.token.grant = secret.client
                      /\ secret.token.generation <= live[secret.client]
  /\ \A c \in Clients : Calls(c) =>
       /\ request[c].token.grant = request[c].client
       /\ request[c].next.grant = request[c].client
       /\ request[c].token.generation <= live[request[c].client]
  /\ \A c \in Clients : At(c, "rotated") =>
       /\ request[c].next.generation = request[c].token.generation + 1
       /\ request[c].next.generation <= live[request[c].client]

\* Credentials that are being pasted are not in use.
PastedAreNew ==
  \A c \in Clients : Saves(c) /\ request[c].grant # None =>
    /\ live[request[c].grant] = 0
    /\ secret.client # request[c].grant
    /\ \A d \in Clients \ {c} : ~Holds(d, request[c].grant)

Rotating(c) == At(c, "rotated") /\ request[c].next = FreshToken(request[c].client)

\* Between an exchange and its save, nobody else has the token that was issued.
OneExchange ==
  \A c \in Clients : Rotating(c) =>
    /\ secret.token # FreshToken(request[c].client)
    /\ \A d \in Clients : Calls(d) => request[d].token # FreshToken(request[c].client)
    /\ \A d \in Clients : Rotating(d) /\ request[d].client = request[c].client => d = c

\* The stored token is live, or the exchange of it is on its way to the database
\* with the live one.
LiveOrRotating ==
  secret # None =>
    \/ secret.token = FreshToken(secret.client)
    \/ \E c \in Clients : /\ At(c, "rotated") /\ request[c].token = secret.token
                          /\ request[c].next = FreshToken(secret.client)

Inv == TypeOK /\ Started /\ Issued /\ PastedAreNew /\ OneExchange

-----------------------------------------------------------------------------
(* Types.                                                                   *)

LEMMA Shapes ==
  ASSUME TypeOK, NEW c \in Clients
  PROVE  /\ Saves(c) => request[c] \in Saving
         /\ At(c, "load") => request[c] \in Loading
         /\ Calls(c) => request[c] \in Calling
         /\ \A stage : At(c, stage) /\ stage # "load" => Calls(c)
<1>1. ~Idle(c) => request[c] \in Saving \cup Loading \cup Calling
  BY DEF TypeOK, Idle
<1> QED
  BY <1>1 DEF Saves, Calls, At, Idle, Saving, Loading, Calling

\* The row a save computes is a row.
LEMMA SavedIsRow ==
  ASSUME NEW existing \in Source, NEW in \in Inputs
  PROVE  SavedRow(existing, in) \in Source
<1>1. Or(in.identity, existing.identity) \in Identities
  BY DEF Or, Inputs, Source
<1>2. Or(in.scoped, existing.scoped) \in BOOLEAN
  BY DEF Or, Inputs, Source
<1>3. Or(in.enabled, existing.enabled) \in BOOLEAN
  BY DEF Or, Inputs, Source
<1> HIDE DEF Or
<1> QED
  BY <1>1, <1>2, <1>3 DEF SavedRow, Source, TestStatus

\* The token the provider accepts next is a token.
LEMMA FreshIsToken ==
  ASSUME TypeOK, NEW g \in Grants
  PROVE  FreshToken(g) \in Token
  BY DEF TypeOK, FreshToken, Token

\* A connection keeps its provider.
LEMMA KindStep ==
  ASSUME classic \in BOOLEAN, crossed \in BOOLEAN, [Next]_vars
  PROVE  classic' = classic /\ classic' \in BOOLEAN /\ crossed' \in BOOLEAN
<1>1. CASE Next
  <2>1. classic' = classic /\ crossed' = (crossed \/ Crossing')
    BY <1>1 DEF Next
  <2>2. (crossed \/ Crossing') \in BOOLEAN
    OBVIOUS
  <2> QED BY <2>1, <2>2
<1>2. CASE UNCHANGED vars
  BY <1>2 DEF vars
<1> QED BY <1>1, <1>2

LEMMA TypeStep == TypeOK /\ Started /\ [Next]_vars => TypeOK'
<1> SUFFICES ASSUME TypeOK, Started, [Next]_vars PROVE TypeOK'
  OBVIOUS
<1>0. classic' \in BOOLEAN /\ crossed' \in BOOLEAN
  BY KindStep DEF TypeOK
<1> USE <1>0
<1>a. ASSUME NEW c \in Clients, NEW r \in Saving \cup Loading \cup Calling \cup {None}, Continue(c, r)
      PROVE  request' \in [Clients -> Saving \cup Loading \cup Calling \cup {None}]
  BY <1>a DEF TypeOK, Continue
<1>b. ASSUME NEW c \in Clients, Finish(c)
      PROVE  request' \in [Clients -> Saving \cup Loading \cup Calling \cup {None}]
  BY <1>a, <1>b DEF Finish
<1>c. ASSUME NEW c \in Clients, NEW op \in {"test", "sync", "read"}, source # None, Load(c, op)
      PROVE  request' \in [Clients -> Saving \cup Loading \cup Calling \cup {None}]
  <2>1. [op |-> op, stage |-> "load", identity |-> source.identity] \in Loading
    BY <1>c DEF TypeOK, Source, Loading
  <2> QED
    BY <1>a, <1>c, <2>1 DEF Load
<1>d. ASSUME NEW c \in Clients, Calls(c), NEW stage \in {"call", "rotated", "list", "passed", "failed"},
             Continue(c, [request[c] EXCEPT !.stage = stage])
      PROVE  request' \in [Clients -> Saving \cup Loading \cup Calling \cup {None}]
  <2>1. [request[c] EXCEPT !.stage = stage] \in Calling
    BY <1>d, Shapes DEF Calling
  <2> QED
    BY <1>a, <1>d, <2>1
<1>e. ASSUME NEW c \in Clients, Calls(c), Continue(c, Ended(c))
      PROVE  request' \in [Clients -> Saving \cup Loading \cup Calling \cup {None}]
  BY <1>b, <1>d, <1>e DEF Ended, Finish
<1>f. ASSUME NEW c \in Clients, At(c, "load") \/ Calls(c) PROVE source # None /\ secret # None
  BY <1>f DEF Started, At, Calls, Idle
<1>1. ASSUME NEW c \in Admins, NEW i \in Identities, NEW g \in Grants, NEW scoped \in BOOLEAN,
             Create(c, i, g, scoped)
      PROVE  TypeOK'
  BY <1>1, FreshIsToken DEF Create, TypeOK, Source, Secret, TestStatus
<1>2. ASSUME NEW c \in Admins, NEW in \in Inputs, BeginSave(c, in) PROVE TypeOK'
  <2>1. SavedRow(source, in) \in Source
    BY <1>2, SavedIsRow DEF BeginSave, TypeOK
  <2>2. in.grant \in Grants \cup {None} /\ Changes(source, in) \in BOOLEAN
    BY DEF Inputs, Changes
  <2>3. [op |-> "save", row |-> SavedRow(source, in), resets |-> Changes(source, in),
         grant |-> in.grant] \in Saving
    BY <2>1, <2>2 DEF Saving
  <2>4. c \in Clients
    BY DEF Clients
  <2> QED
    BY <1>2, <1>a, <2>3, <2>4 DEF BeginSave, TypeOK
<1>3. ASSUME NEW c \in Clients, CommitSave(c) PROVE TypeOK'
  <2>1. request[c] \in Saving /\ source # None
    BY <1>3, Shapes DEF CommitSave, Saves, Idle, Started
  <2>2. source' \in Source
    BY <1>3, <2>1 DEF CommitSave, TypeOK, Saving, Source
  <2>3. secret' \in Secret \cup {None}
    BY <1>3, <2>1, FreshIsToken DEF CommitSave, TypeOK, Saving, Secret
  <2> QED
    BY <1>3, <1>b, <2>2, <2>3 DEF CommitSave, TypeOK
<1>4. ASSUME NEW c \in Admins, BeginTest(c) PROVE TypeOK'
  BY <1>4, <1>c DEF BeginTest, TypeOK, Clients
<1>5. ASSUME NEW c \in Jobs, BeginSync(c) PROVE TypeOK'
  BY <1>5, <1>c DEF BeginSync, TypeOK, Clients
<1>6. ASSUME NEW c \in Admins, BeginRead(c) PROVE TypeOK'
  BY <1>6, <1>c DEF BeginRead, TypeOK, Clients
<1>7. ASSUME NEW c \in Clients, Reload(c) PROVE TypeOK'
  <2>1. source # None
    BY <1>7, <1>f, Shapes DEF Reload
  <2> QED
    BY <1>7, <1>c, <2>1 DEF Reload, TypeOK
<1>8. ASSUME NEW c \in Clients, LoadSecret(c) PROVE TypeOK'
  <2>1. secret \in Secret /\ request[c] \in Loading
    BY <1>8, <1>f, Shapes DEF LoadSecret, TypeOK
  <2>2. [op |-> request[c].op, stage |-> "call", identity |-> request[c].identity,
         client |-> secret.client, token |-> secret.token, next |-> secret.token] \in Calling
    BY <2>1 DEF Loading, Secret, Calling
  <2> QED
    BY <1>8, <1>a, <2>2 DEF LoadSecret, TypeOK
<1>9. ASSUME NEW c \in Clients, Verify(c) \/ ListSites(c) PROVE TypeOK'
  <2>1. Calls(c) /\ request[c] \in Calling
    BY <1>9, Shapes DEF Verify, ListSites
  <2>2. <<request[c].identity, request[c].client>> \in Identities \X Grants
    BY <2>1 DEF Calling
  <2>3. verified' \in SUBSET (Identities \X Grants)
    BY <1>9, <2>2 DEF Verify, ListSites, TypeOK
  <2> QED
    BY <1>9, <1>d, <2>1, <2>3 DEF Verify, ListSites, TypeOK
<1>10. ASSUME NEW c \in Clients, Refresh(c) PROVE TypeOK'
  <2>1. request[c] \in Calling
    BY <1>10, Shapes DEF Refresh
  <2> DEFINE g == request[c].token.grant
  <2>2. g \in Grants /\ live[g] \in 0 .. MaxRotations /\ live[g] + 1 \in 0 .. MaxRotations
    BY <1>10, <2>1, ConnectionAssumption DEF Refresh, TypeOK, Calling, Token
  <2>3. [request[c] EXCEPT !.stage = "rotated", !.next.generation = live[g] + 1] \in Calling
    BY <2>1, <2>2 DEF Calling, Token
  <2>4. live' \in [Grants -> 0 .. MaxRotations]
    BY <1>10, <2>2 DEF Refresh, TypeOK
  <2>5. Continue(c, [request[c] EXCEPT !.stage = "rotated", !.next.generation = live[g] + 1])
    BY <1>10 DEF Refresh
  <2> QED
    BY <1>10, <1>a, <2>3, <2>4, <2>5 DEF Refresh, TypeOK
<1>11. ASSUME NEW c \in Clients, PersistRotation(c) PROVE TypeOK'
  <2>1. request[c] \in Calling /\ secret \in Secret
    BY <1>11, <1>f, Shapes DEF PersistRotation, TypeOK
  <2>2. [secret EXCEPT !.token = request[c].next] \in Secret
    BY <2>1 DEF Secret, Calling
  <2>3. [request[c] EXCEPT !.token = request[c].next,
                           !.stage = IF request[c].op = "test" THEN "list" ELSE "call"] \in Calling
    BY <2>1 DEF Calling
  <2> QED
    BY <1>11, <1>a, <2>2, <2>3 DEF PersistRotation, TypeOK
<1>12. ASSUME NEW c \in Clients, RefuseRotation(c) \/ CallFails(c) PROVE TypeOK'
  <2>1. Calls(c)
    BY <1>12, Shapes DEF RefuseRotation, CallFails
  <2> QED
    BY <1>12, <1>e, <2>1 DEF RefuseRotation, CallFails, TypeOK
<1>13. ASSUME NEW c \in Clients, Fetched(c) \/ Lose(c) PROVE TypeOK'
  BY <1>13, <1>b DEF Fetched, Lose, TypeOK
<1>14. ASSUME NEW c \in Clients, WriteVerdict(c) PROVE TypeOK'
  <2>1. source \in Source
    BY <1>14, <1>f, Shapes DEF WriteVerdict, TypeOK
  <2>2. source' \in Source
    BY <1>14, <2>1 DEF WriteVerdict, Source, TestStatus
  <2> QED
    BY <1>14, <1>b, <2>2 DEF WriteVerdict, TypeOK
<1>15. CASE UNCHANGED vars
  BY <1>15 DEF vars, TypeOK
<1> QED
  BY <1>1, <1>2, <1>3, <1>4, <1>5, <1>6, <1>7, <1>8, <1>9, <1>10, <1>11, <1>12, <1>13, <1>14, <1>15
  DEF Next, Step, AdminStep, ProviderStep, Clients

-----------------------------------------------------------------------------
(* Steps that leave the secret and the tokens alone.                        *)

\* Client c goes on: if it still calls the provider, it does with what it had.
Quiet(c) ==
  /\ UNCHANGED <<secret, live>>
  /\ source # None /\ source' # None
  /\ \A d \in Clients \ {c} : request'[d] = request[d]
  /\ ~Saves(c)'
  /\ Calls(c)' => /\ Calls(c) /\ ~At(c, "rotated")'
                  /\ request'[c].client = request[c].client
                  /\ request'[c].token = request[c].token
                  /\ request'[c].next = request[c].next

LEMMA QuietStep ==
  ASSUME TypeOK, Started, NEW c \in Clients,
         \/ BeginTest(c) \/ BeginSync(c) \/ BeginRead(c) \/ Reload(c)
         \/ Verify(c) \/ ListSites(c) \/ Fetched(c) \/ CallFails(c)
         \/ RefuseRotation(c) \/ WriteVerdict(c) \/ Lose(c)
  PROVE  Quiet(c)
<1>1. ASSUME NEW r, Continue(c, r) PROVE request'[c] = r /\ \A d \in Clients \ {c} : request'[d] = request[d]
  BY <1>1 DEF Continue, TypeOK
<1>2. CASE BeginTest(c) \/ BeginSync(c) \/ BeginRead(c) \/ Reload(c)
  <2>1. PICK op \in {"test", "sync", "read"} : Load(c, op)
    BY <1>2 DEF BeginTest, BeginSync, BeginRead, Reload
  <2>2. /\ request'[c] = [op |-> op, stage |-> "load", identity |-> source.identity]
        /\ \A d \in Clients \ {c} : request'[d] = request[d]
    BY <1>1, <2>1 DEF Load
  <2>3. ~Saves(c)' /\ ~Calls(c)'
    BY <2>2 DEF Saves, Calls, Idle
  <2>4. source # None /\ UNCHANGED <<source, secret, live>>
    BY <1>2 DEF BeginTest, BeginSync, BeginRead, Reload, Started, At, Idle
  <2> QED
    BY <2>2, <2>3, <2>4 DEF Quiet
<1>3. CASE Verify(c) \/ ListSites(c) \/ CallFails(c) \/ RefuseRotation(c)
  <2>1. Calls(c) /\ request[c] \in Calling
    BY <1>3, Shapes DEF Verify, ListSites, CallFails, RefuseRotation
  <2>2. /\ \/ request'[c] = None
           \/ \E stage \in {"passed", "failed"} : request'[c] = [request[c] EXCEPT !.stage = stage]
        /\ \A d \in Clients \ {c} : request'[d] = request[d]
    BY <1>1, <1>3 DEF Verify, ListSites, CallFails, RefuseRotation, Ended
  <2>3. ~Saves(c)' /\ (Calls(c)' => /\ ~At(c, "rotated")'
                                    /\ request'[c].client = request[c].client
                                    /\ request'[c].token = request[c].token
                                    /\ request'[c].next = request[c].next)
    BY <2>1, <2>2 DEF Saves, Calls, Idle, At, Calling
  <2>4. source # None /\ UNCHANGED <<source, secret, live>>
    BY <1>3, <2>1 DEF Verify, ListSites, CallFails, RefuseRotation, Started, Calls
  <2> QED
    BY <2>1, <2>2, <2>3, <2>4 DEF Quiet
<1>4. CASE Fetched(c) \/ WriteVerdict(c) \/ Lose(c)
  <2>1. request'[c] = None /\ \A d \in Clients \ {c} : request'[d] = request[d]
    BY <1>1, <1>4 DEF Fetched, WriteVerdict, Lose, Finish
  <2>2. ~Idle(c)
    BY <1>4 DEF Fetched, WriteVerdict, Lose, At, Idle
  <2>3. source \in Source /\ source # None
    BY <2>2 DEF Started, TypeOK
  <2>4. source' \in Source
    BY <1>4, <2>3 DEF Fetched, WriteVerdict, Lose, Source, TestStatus
  <2>5. UNCHANGED <<secret, live>>
    BY <1>4 DEF Fetched, WriteVerdict, Lose
  <2> QED
    BY <2>1, <2>3, <2>4, <2>5, NoneAssumption DEF Quiet, Saves, Calls, Idle
<1> QED
  BY <1>2, <1>3, <1>4

LEMMA HoldsIs ==
  ASSUME NEW c \in Clients, NEW g
  PROVE  /\ Holds(c, g) <=> (Saves(c) /\ request[c].grant = g) \/ (Calls(c) /\ request[c].client = g)
         /\ Holds(c, g)' <=> (Saves(c)' /\ request'[c].grant = g) \/ (Calls(c)' /\ request'[c].client = g)
  BY DEF Holds, Saves, Calls, At, Idle

\* A client that is calling or saving finds the connection and its secret.
LEMMA BusyFinds ==
  ASSUME Started, NEW c \in Clients, ~Idle(c)
  PROVE  source # None /\ secret # None
  BY DEF Started

LEMMA Unsaid == \A c : At(c, "rotated") => Calls(c)
  BY DEF At, Calls, Idle

LEMMA QuietKeeps ==
  ASSUME Inv, NEW c \in Clients, Quiet(c)
  PROVE  Started' /\ Issued' /\ PastedAreNew' /\ OneExchange'
<1> USE DEF Quiet
<1>1. Started'
  BY DEF Inv, Started
<1>2. \A d \in Clients : /\ Calls(d)' => /\ Calls(d)
                                         /\ request'[d].client = request[d].client
                                         /\ request'[d].token = request[d].token
                                         /\ request'[d].next = request[d].next
                         /\ At(d, "rotated")' => At(d, "rotated") /\ Calls(d)'
                         /\ Saves(d)' => Saves(d) /\ request'[d] = request[d]
  BY DEF Calls, Saves, At, Idle
<1>3. Issued'
  BY <1>2 DEF Inv, Issued
<1>4. \A d \in Clients : \A g : Holds(d, g)' => Holds(d, g)
  BY <1>2, HoldsIs
<1>5. PastedAreNew'
  BY <1>2, <1>4 DEF Inv, PastedAreNew
<1>6. \A d \in Clients : Rotating(d)' => Rotating(d) /\ request'[d].client = request[d].client
  BY <1>2 DEF Rotating, FreshToken
<1>7. OneExchange'
  BY <1>2, <1>6 DEF Inv, OneExchange, FreshToken
<1> QED
  BY <1>1, <1>3, <1>5, <1>7

-----------------------------------------------------------------------------
(* Steps that change the secret or the tokens.                              *)

LEMMA CreateKeeps ==
  ASSUME Inv, NEW c \in Admins, NEW i \in Identities, NEW g \in Grants, NEW scoped \in BOOLEAN,
         Create(c, i, g, scoped)
  PROVE  Started' /\ Issued' /\ PastedAreNew' /\ OneExchange'
<1>1. \A d \in Clients : Idle(d) /\ Idle(d)'
  BY DEF Create, Inv, Started, Idle
<1>2. source' \in Source /\ secret' \in Secret
  BY FreshIsToken DEF Create, Inv, TypeOK, Source, Secret, TestStatus
<1>3. Started'
  BY <1>2, NoneAssumption DEF Started
<1>4. Issued'
  <2>1. secret' = [client |-> g, token |-> [grant |-> g, generation |-> 0]] /\ live'[g] = 0
    BY DEF Create, Pasteable, FreshToken
  <2> QED
    BY <1>1, <2>1 DEF Issued, Calls, At, Idle
<1> QED
  BY <1>1, <1>3, <1>4 DEF PastedAreNew, OneExchange, Rotating, Saves, At, Idle

LEMMA BeginSaveKeeps ==
  ASSUME Inv, NEW c \in Admins, NEW in \in Inputs, BeginSave(c, in)
  PROVE  Started' /\ Issued' /\ PastedAreNew' /\ OneExchange'
<1>1. /\ c \in Clients /\ Idle(c) /\ UNCHANGED <<source, secret, live>>
      /\ source # None /\ secret # None
      /\ request'[c].op = "save" /\ request'[c].grant = in.grant
      /\ \A d \in Clients \ {c} : request'[d] = request[d]
  BY DEF BeginSave, Continue, Inv, TypeOK, Clients, Started
<1>2. \A d \in Clients : /\ Calls(d)' => Calls(d) /\ request'[d] = request[d]
                         /\ At(d, "rotated")' => At(d, "rotated") /\ request'[d] = request[d]
  BY <1>1 DEF Calls, At, Idle
<1>3. Started' /\ Issued'
  BY <1>1, <1>2 DEF Inv, Started, Issued
<1>4. ASSUME NEW d \in Clients, Saves(d)', request'[d].grant # None,
             NEW e \in Clients \ {d}, Holds(e, request[d].grant)'
      PROVE  FALSE
  <2>1. CASE d = c
    <3>1. ~Holds(e, in.grant)
      BY <1>1, <1>4, <2>1 DEF BeginSave, Pasteable
    <3> QED
      BY <1>1, <1>4, <2>1, <3>1 DEF Holds, Idle, At
  <2>2. CASE d # c /\ e = c
    <3>1. Holds(d, request[d].grant)
      BY <1>1, <1>4, <2>2 DEF Holds, Saves, Idle
    <3>2. in.grant # None => ~Holds(d, in.grant)
      BY DEF BeginSave, Pasteable
    <3>3. in.grant = request[d].grant
      BY <1>1, <1>4, <2>2 DEF Holds, Idle
    <3> QED
      BY <1>1, <1>4, <2>2, <3>1, <3>2, <3>3
  <2>3. CASE d # c /\ e # c
    BY <1>1, <1>4, <2>3 DEF Inv, PastedAreNew, Saves, Holds, Idle, At
  <2> QED
    BY <2>1, <2>2, <2>3
<1>5. PastedAreNew'
  <2>1. ASSUME NEW d \in Clients, Saves(d)', request'[d].grant # None
        PROVE  live'[request'[d].grant] = 0 /\ secret'.client # request'[d].grant
    <3>1. CASE d = c
      BY <1>1, <2>1, <3>1 DEF BeginSave, Pasteable
    <3>2. CASE d # c
      BY <1>1, <2>1, <3>2 DEF Inv, PastedAreNew, Saves, Idle
    <3> QED
      BY <3>1, <3>2
  <2> QED
    BY <1>4, <2>1 DEF PastedAreNew
<1>6. OneExchange'
  BY <1>1, <1>2 DEF Inv, OneExchange, Rotating, FreshToken
<1> QED
  BY <1>3, <1>5, <1>6

LEMMA CommitSaveKeeps ==
  ASSUME Inv, NEW c \in Clients, CommitSave(c)
  PROVE  Started' /\ Issued' /\ PastedAreNew' /\ OneExchange'
<1> DEFINE g == request[c].grant
<1>1. /\ Saves(c) /\ request[c] \in Saving
      /\ source # None /\ secret # None /\ secret \in Secret
      /\ live' = live
      /\ request'[c] = None /\ \A d \in Clients \ {c} : request'[d] = request[d]
  BY Shapes DEF CommitSave, Finish, Continue, Inv, TypeOK, Started, Saves, Idle
<1>2. \A d \in Clients : /\ Calls(d)' => d # c /\ Calls(d) /\ request'[d] = request[d]
                         /\ At(d, "rotated")' => d # c /\ At(d, "rotated") /\ request'[d] = request[d]
                         /\ Saves(d)' => d # c /\ Saves(d) /\ request'[d] = request[d]
  BY <1>1 DEF Calls, At, Saves, Idle
<1>3. source' # None
  <2>1. source' \in Source
    BY <1>1 DEF CommitSave, Inv, TypeOK, Saving, Source
  <2> QED
    BY <2>1, NoneAssumption
<1>4. secret' \in Secret /\ secret' # None
  <2>1. secret' \in Secret
    BY <1>1, FreshIsToken DEF CommitSave, Inv, Saving, Secret
  <2> QED
    BY <2>1, NoneAssumption
<1>5. g # None => /\ secret'.client = g /\ secret'.token = [grant |-> g, generation |-> 0]
                  /\ live[g] = 0
                  /\ \A d \in Clients \ {c} : ~Holds(d, g)
  BY <1>1 DEF CommitSave, Inv, PastedAreNew, FreshToken
<1>6. g = None => secret' = secret
  BY DEF CommitSave
<1>7. Started'
  BY <1>3, <1>4 DEF Started
<1>8. Issued'
  BY <1>1, <1>2, <1>5, <1>6 DEF Inv, Issued
<1>9. ASSUME NEW d \in Clients, Saves(d)', request'[d].grant # None
      PROVE  /\ live'[request'[d].grant] = 0 /\ secret'.client # request'[d].grant
             /\ \A e \in Clients \ {d} : ~Holds(e, request[d].grant)'
  <2>1. d # c /\ Saves(d) /\ request'[d] = request[d]
    BY <1>2, <1>9
  <2>2. Holds(d, request[d].grant)
    BY <2>1, HoldsIs
  <2>3. \A e \in Clients \ {d} : ~Holds(e, request[d].grant)
    BY <1>9, <2>1 DEF Inv, PastedAreNew
  <2>4. \A e \in Clients \ {d} : ~Holds(e, request[d].grant)'
    BY <1>1, <2>1, <2>3 DEF Holds, Idle, At
  <2>5. secret'.client # request[d].grant
    BY <1>5, <1>6, <1>9, <2>1, <2>2 DEF Inv, PastedAreNew
  <2> QED
    BY <1>1, <1>9, <2>1, <2>4, <2>5 DEF Inv, PastedAreNew
<1>10. OneExchange'
  <2> SUFFICES ASSUME NEW d \in Clients, Rotating(d)'
               PROVE  /\ secret'.token # FreshToken(request[d].client)
                      /\ \A e \in Clients : Calls(e)' => request'[e].token # FreshToken(request[d].client)
                      /\ \A e \in Clients : Rotating(e)' /\ request'[e].client = request[d].client => e = d
    BY <1>1, <1>2 DEF OneExchange, Rotating, FreshToken
  <2>1. Rotating(d) /\ d # c /\ Calls(d)
    BY <1>1, <1>2, Unsaid DEF Rotating, FreshToken
  <2>2. secret'.token # FreshToken(request[d].client)
    <3>1. CASE g = None
      BY <1>6, <2>1, <3>1 DEF Inv, OneExchange
    <3>2. CASE g # None
      <4>1. Holds(d, request[d].client)
        BY <2>1, HoldsIs
      <4> QED
        BY <1>5, <2>1, <3>2, <4>1 DEF FreshToken
    <3> QED
      BY <3>1, <3>2
  <2>3. \A e \in Clients : Rotating(e)' => Rotating(e) /\ request'[e].client = request[e].client
    BY <1>1, <1>2 DEF Rotating, FreshToken
  <2> QED
    BY <1>2, <2>1, <2>2, <2>3 DEF Inv, OneExchange
<1> QED
  BY <1>7, <1>8, <1>9, <1>10 DEF PastedAreNew

LEMMA LoadSecretKeeps ==
  ASSUME Inv, NEW c \in Clients, LoadSecret(c)
  PROVE  Started' /\ Issued' /\ PastedAreNew' /\ OneExchange'
<1>1. /\ ~Calls(c) /\ ~Saves(c) /\ ~Idle(c) /\ source # None /\ secret # None
      /\ UNCHANGED <<source, secret, live>>
      /\ request'[c] = [op |-> request[c].op, stage |-> "call", identity |-> request[c].identity,
                        client |-> secret.client, token |-> secret.token, next |-> secret.token]
      /\ \A d \in Clients \ {c} : request'[d] = request[d]
  BY DEF LoadSecret, Continue, Inv, TypeOK, Started, At, Calls, Saves, Idle
<1>2. /\ \A d \in Clients : /\ Calls(d)' /\ d # c => Calls(d)
                            /\ At(d, "rotated")' => d # c /\ At(d, "rotated")
                            /\ Saves(d)' => d # c /\ Saves(d)
  BY <1>1 DEF Calls, At, Saves, Idle
<1>3. Started'
  BY <1>1 DEF Inv, Started
<1>4. Issued'
  BY <1>1, <1>2 DEF Inv, Issued
<1>5. PastedAreNew'
  <2> SUFFICES ASSUME NEW d \in Clients, Saves(d)', request'[d].grant # None
               PROVE  /\ live[request[d].grant] = 0 /\ secret.client # request[d].grant
                      /\ \A e \in Clients \ {d} : ~Holds(e, request[d].grant)'
    BY <1>1, <1>2 DEF PastedAreNew
  <2>1. d # c /\ Saves(d) /\ request'[d] = request[d]
    BY <1>1, <1>2
  <2>2. /\ live[request[d].grant] = 0 /\ secret.client # request[d].grant
        /\ \A e \in Clients \ {d} : ~Holds(e, request[d].grant)
    BY <2>1 DEF Inv, PastedAreNew
  <2>3. \A e \in Clients \ {c, d} : ~Holds(e, request[d].grant)'
    BY <1>1, <2>1, <2>2 DEF Holds, Idle, At
  <2>4. ~Holds(c, request[d].grant)'
    BY <1>1, <1>2, <2>1, <2>2, HoldsIs
  <2> QED
    BY <2>2, <2>3, <2>4
<1>6. OneExchange'
  <2>1. \A d \in Clients : Rotating(d)' => /\ Rotating(d) /\ d # c
                                           /\ request'[d].client = request[d].client
    BY <1>1, <1>2 DEF Rotating, FreshToken
  <2> QED
    BY <1>1, <1>2, <2>1 DEF Inv, OneExchange, FreshToken
<1> QED
  BY <1>3, <1>4, <1>5, <1>6

\* A client that has exchanged its token is still calling.
LEMMA RefreshCalls ==
  ASSUME Inv, NEW c \in Clients, Refresh(c)
  PROVE  Calls(c)'
<1> DEFINE g == request[c].token.grant
<1>1. request[c] \in Calling /\ g \in Grants /\ live[g] + 1 \in 0 .. MaxRotations
  <2>1. request[c] \in Calling
    BY Shapes DEF Refresh, Inv
  <2>2. live[g] < MaxRotations /\ live[g] \in 0 .. MaxRotations /\ g \in Grants
    BY <2>1 DEF Refresh, Inv, TypeOK, Calling, Token
  <2> QED
    BY <2>1, <2>2, ConnectionAssumption
<1>2. [request[c] EXCEPT !.stage = "rotated", !.next.generation = live[g] + 1] \in Calling
  BY <1>1 DEF Calling, Token
<1>3. request'[c] = [request[c] EXCEPT !.stage = "rotated", !.next.generation = live[g] + 1]
  BY DEF Refresh, Continue, Inv, TypeOK
<1>4. request'[c].op = request[c].op /\ request'[c].stage = "rotated"
  BY <1>1, <1>3 DEF Calling
<1> QED
  BY <1>1, <1>2, <1>3, <1>4, NoneAssumption DEF Calls, Idle, Calling

LEMMA RefreshKeeps ==
  ASSUME Inv, NEW c \in Clients, Refresh(c)
  PROVE  Started' /\ Issued' /\ PastedAreNew' /\ OneExchange'
<1> DEFINE g == request[c].client
<1>1. /\ Calls(c) /\ request[c] \in Calling /\ source # None /\ secret # None
      /\ At(c, "call") /\ g \in Grants
      /\ request[c].token.grant = g /\ request[c].next.grant = g
      /\ request[c].token = [grant |-> g, generation |-> live[g]]
  BY Shapes, BusyFinds DEF Refresh, Inv, Issued, Calls, Calling, FreshToken
<1>2. /\ UNCHANGED <<source, secret>> /\ live' = [live EXCEPT ![g] = @ + 1]
      /\ request'[c] = [request[c] EXCEPT !.stage = "rotated", !.next.generation = live[g] + 1]
      /\ \A d \in Clients \ {c} : request'[d] = request[d]
  BY <1>1 DEF Refresh, Continue, Inv, TypeOK
<1>3. /\ request'[c].client = g /\ request'[c].token = request[c].token
      /\ request'[c].next = [grant |-> g, generation |-> live[g] + 1]
      /\ request'[c].op = request[c].op /\ request'[c].stage = "rotated"
      /\ Calls(c)' /\ ~Saves(c)' /\ ~Saves(c)
  <2>1. request[c].next \in [grant : Grants, generation : 0 .. MaxRotations]
    BY <1>1 DEF Calling, Token
  <2>2. request'[c].next = [grant |-> g, generation |-> live[g] + 1]
    BY <1>1, <1>2, <2>1 DEF Calling
  <2>3. /\ request'[c].client = g /\ request'[c].token = request[c].token
        /\ request'[c].op = request[c].op /\ request'[c].stage = "rotated"
    BY <1>1, <1>2 DEF Calling
  <2>4. Calls(c)'
    BY RefreshCalls
  <2> QED
    BY <1>1, <2>2, <2>3, <2>4 DEF Calls, Saves, Idle, At
<1>4. \A d \in Clients : /\ Calls(d)' => Calls(d)
                         /\ d # c /\ At(d, "rotated")' => At(d, "rotated")
                         /\ Saves(d)' => d # c /\ Saves(d)
  BY <1>1, <1>2, <1>3 DEF Calls, At, Saves, Idle
<1>5. Started'
  BY <1>1, <1>2, <1>3 DEF Started
<1>6. \A k \in Grants : /\ live[k] \in Nat /\ live'[k] = IF k = g THEN live[k] + 1 ELSE live[k]
  BY <1>1, <1>2 DEF Inv, TypeOK
<1>7. \A d \in Clients : Calls(d) => request[d] \in Calling
  BY Shapes DEF Inv
<1>8. Issued'
  <2>1. secret'.token.grant = secret'.client /\ secret'.token.generation <= live'[secret'.client]
    BY <1>1, <1>2, <1>6 DEF Inv, Issued, TypeOK, Secret, Token
  <2>2. ASSUME NEW d \in Clients, Calls(d)'
        PROVE  /\ request'[d].token.grant = request'[d].client
               /\ request'[d].next.grant = request'[d].client
               /\ request'[d].token.generation <= live'[request'[d].client]
    <3>1. CASE d = c
      BY <1>1, <1>3, <1>6, <3>1
    <3>2. CASE d # c
      BY <1>2, <1>4, <1>6, <1>7, <2>2, <3>2 DEF Inv, Issued, Calling, Token
    <3> QED
      BY <3>1, <3>2
  <2>3. ASSUME NEW d \in Clients, At(d, "rotated")'
        PROVE  /\ request'[d].next.generation = request'[d].token.generation + 1
               /\ request'[d].next.generation <= live'[request'[d].client]
    <3>1. CASE d = c
      BY <1>1, <1>3, <1>6, <3>1
    <3>2. CASE d # c
      BY <1>2, <1>4, <1>6, <1>7, <2>3, <3>2, Unsaid DEF Inv, Issued, Calling, Token
    <3> QED
      BY <3>1, <3>2
  <2> QED
    BY <2>1, <2>2, <2>3 DEF Issued
<1>9. PastedAreNew'
  <2> SUFFICES ASSUME NEW d \in Clients, Saves(d)', request'[d].grant # None
               PROVE  /\ live'[request[d].grant] = 0 /\ secret.client # request[d].grant
                      /\ \A e \in Clients \ {d} : ~Holds(e, request[d].grant)'
    BY <1>2, <1>4 DEF PastedAreNew
  <2>1. d # c /\ Saves(d) /\ request'[d] = request[d]
    BY <1>2, <1>4
  <2>2. /\ live[request[d].grant] = 0 /\ secret.client # request[d].grant
        /\ \A e \in Clients \ {d} : ~Holds(e, request[d].grant)
    BY <2>1 DEF Inv, PastedAreNew
  <2>3. \A e \in Clients \ {c, d} : ~Holds(e, request[d].grant)'
    BY <1>2, <2>1, <2>2 DEF Holds, Idle, At
  <2>4. g # request[d].grant
    BY <1>1, <2>1, <2>2, HoldsIs
  <2>5. ~Holds(c, request[d].grant)'
    BY <1>3, <2>1, <2>4, HoldsIs
  <2>6. live'[request[d].grant] = live[request[d].grant]
    BY <1>2, <2>4 DEF Inv, TypeOK
  <2> QED
    BY <2>2, <2>3, <2>5, <2>6
<1>10. OneExchange'
  <2>1. ASSUME NEW d \in Clients, Rotating(d)', d # c
        PROVE  Rotating(d) /\ Calls(d) /\ request'[d] = request[d] /\ request[d].client # g
    <3>1. At(d, "rotated") /\ Calls(d) /\ request'[d] = request[d]
      BY <1>2, <1>4, <2>1, Unsaid DEF Rotating
    <3>2. request[d].next.generation = live'[request[d].client]
      BY <2>1, <3>1 DEF Rotating, FreshToken
    <3>3. request[d].client # g
      BY <1>1, <1>6, <1>7, <3>1, <3>2 DEF Inv, Issued, Calling, Token
    <3> QED
      BY <1>2, <2>1, <3>1, <3>3 DEF Rotating, FreshToken, Inv, TypeOK
  <2>2. ASSUME NEW d \in Clients, Rotating(d)'
        PROVE  secret'.token # FreshToken(request[d].client)'
    <3>1. CASE d = c
      <4>1. FreshToken(request[d].client)' = [grant |-> g, generation |-> live[g] + 1]
        BY <1>1, <1>3, <1>6, <3>1 DEF FreshToken
      <4>2. secret.token.grant = g => secret.token.generation <= live[g]
        BY <1>1 DEF Inv, Issued
      <4>3. secret.token.generation \in Nat /\ live[g] \in Nat
        BY <1>1, <1>6 DEF Inv, TypeOK, Secret, Token
      <4> QED
        BY <1>2, <4>1, <4>2, <4>3
    <3>2. CASE d # c
      BY <1>2, <2>1, <2>2, <3>2 DEF Inv, OneExchange, FreshToken, TypeOK
    <3> QED
      BY <3>1, <3>2
  <2>3. ASSUME NEW d \in Clients, Rotating(d)', NEW e \in Clients, Calls(e)'
        PROVE  request'[e].token # FreshToken(request[d].client)'
    <3>0. Calls(e) /\ request'[e].token = request[e].token
      BY <1>2, <1>3, <1>4, <2>3
    <3>1. CASE d = c
      BY <1>3, <1>6, <1>7, <3>0, <3>1, <1>1 DEF Inv, Issued, Calling, Token, FreshToken
    <3>2. CASE d # c
      BY <1>2, <2>1, <2>3, <3>0, <3>2 DEF Inv, OneExchange, FreshToken, TypeOK
    <3> QED
      BY <3>1, <3>2
  <2>4. ASSUME NEW d \in Clients, Rotating(d)', NEW e \in Clients, Rotating(e)',
               request'[e].client = request'[d].client
        PROVE  e = d
    <3>1. CASE d = c \/ e = c
      BY <1>3, <2>1, <2>4, <3>1
    <3>2. CASE d # c /\ e # c
      BY <2>1, <2>4, <3>2 DEF Inv, OneExchange
    <3> QED
      BY <3>1, <3>2
  <2> QED
    BY <2>2, <2>3, <2>4 DEF OneExchange
<1> QED
  BY <1>5, <1>8, <1>9, <1>10

LEMMA PersistKeeps ==
  ASSUME Inv, NEW c \in Clients, PersistRotation(c)
  PROVE  Started' /\ Issued' /\ PastedAreNew' /\ OneExchange'
<1> DEFINE g == request[c].client
<1>1. /\ At(c, "rotated") /\ Calls(c) /\ request[c] \in Calling /\ source # None
      /\ secret # None /\ secret \in Secret /\ g \in Grants
      /\ request[c].token.grant = g /\ request[c].next.grant = g
      /\ request[c].next.generation <= live[g]
      /\ secret.token = request[c].token /\ secret.client = g
  BY Shapes, BusyFinds DEF PersistRotation, Renewable, Inv, TypeOK, Issued, Calls, Calling
<1>2. /\ UNCHANGED <<source, live>>
      /\ secret' = [secret EXCEPT !.token = request[c].next]
      /\ request'[c] = [request[c] EXCEPT !.token = request[c].next,
                                          !.stage = IF request[c].op = "test" THEN "list" ELSE "call"]
      /\ \A d \in Clients \ {c} : request'[d] = request[d]
  BY DEF PersistRotation, Continue, Inv, TypeOK
<1>3. /\ request'[c].client = g /\ request'[c].token = request[c].next
      /\ request'[c].next = request[c].next
      /\ ~At(c, "rotated")' /\ ~Saves(c)' /\ ~Saves(c)
  BY <1>1, <1>2 DEF Calling, Calls, Saves, At, Idle
<1>4. \A d \in Clients : /\ Calls(d)' => Calls(d)
                         /\ At(d, "rotated")' => d # c /\ At(d, "rotated")
                         /\ Saves(d)' => d # c /\ Saves(d)
  BY <1>1, <1>2, <1>3 DEF Calls, At, Saves, Idle
<1>5. secret' \in Secret /\ secret'.client = g /\ secret'.token = request[c].next
  BY <1>1, <1>2 DEF Secret, Calling
<1>6. Started'
  BY <1>1, <1>2, <1>5, NoneAssumption DEF Started
<1>7. Issued'
  <2>1. secret'.token.grant = secret'.client /\ secret'.token.generation <= live'[secret'.client]
    BY <1>1, <1>2, <1>5
  <2>2. ASSUME NEW d \in Clients, Calls(d)'
        PROVE  /\ request'[d].token.grant = request'[d].client
               /\ request'[d].next.grant = request'[d].client
               /\ request'[d].token.generation <= live'[request'[d].client]
    BY <1>1, <1>2, <1>3, <1>4, <2>2 DEF Inv, Issued
  <2>3. ASSUME NEW d \in Clients, At(d, "rotated")'
        PROVE  /\ request'[d].next.generation = request'[d].token.generation + 1
               /\ request'[d].next.generation <= live'[request'[d].client]
    BY <1>2, <1>4, <2>3 DEF Inv, Issued
  <2> QED
    BY <2>1, <2>2, <2>3 DEF Issued
<1>8. PastedAreNew'
  <2> SUFFICES ASSUME NEW d \in Clients, Saves(d)', request'[d].grant # None
               PROVE  /\ live[request[d].grant] = 0 /\ g # request[d].grant
                      /\ \A e \in Clients \ {d} : ~Holds(e, request[d].grant)'
    BY <1>2, <1>4, <1>5 DEF PastedAreNew
  <2>1. d # c /\ Saves(d) /\ request'[d] = request[d]
    BY <1>2, <1>4
  <2>2. /\ live[request[d].grant] = 0 /\ g # request[d].grant
        /\ \A e \in Clients \ {d} : ~Holds(e, request[d].grant)
    BY <1>1, <2>1 DEF Inv, PastedAreNew
  <2>3. \A e \in Clients \ {c, d} : ~Holds(e, request[d].grant)'
    BY <1>2, <2>1, <2>2 DEF Holds, Idle, At
  <2>4. ~Holds(c, request[d].grant)'
    BY <1>3, <2>1, <2>2, HoldsIs
  <2> QED
    BY <2>2, <2>3, <2>4
<1>9. OneExchange'
  <2>1. ASSUME NEW d \in Clients, Rotating(d)'
        PROVE  Rotating(d) /\ d # c /\ request'[d] = request[d] /\ Calls(d)
    BY <1>2, <1>4, <2>1, Unsaid DEF Rotating, FreshToken
  <2>2. ASSUME NEW d \in Clients, Rotating(d)'
        PROVE  request[c].next # FreshToken(request[d].client)
    <3>1. CASE request[d].client = g /\ Rotating(c)
      BY <2>1, <2>2, <3>1 DEF Inv, OneExchange
    <3>2. CASE request[d].client = g /\ ~Rotating(c)
      BY <1>1, <3>2 DEF Rotating
    <3>3. CASE request[d].client # g
      BY <1>1, <3>3 DEF FreshToken
    <3> QED
      BY <3>1, <3>2, <3>3
  <2>3. ASSUME NEW d \in Clients, Rotating(d)', NEW e \in Clients, Calls(e)'
        PROVE  request'[e].token # FreshToken(request[d].client)
    <3>1. CASE e = c
      BY <1>3, <2>2, <2>3, <3>1
    <3>2. CASE e # c
      BY <1>2, <1>4, <2>1, <2>3, <3>2 DEF Inv, OneExchange
    <3> QED
      BY <3>1, <3>2
  <2>4. ASSUME NEW d \in Clients, Rotating(d)'
        PROVE  FreshToken(request[d].client)' = FreshToken(request[d].client)
    BY <1>2, <2>1, <2>4 DEF FreshToken
  <2>5. ASSUME NEW d \in Clients, Rotating(d)', NEW e \in Clients, Rotating(e)',
               request'[e].client = request'[d].client
        PROVE  e = d
    BY <2>1, <2>5 DEF Inv, OneExchange
  <2> QED
    BY <1>5, <2>2, <2>3, <2>4, <2>5 DEF OneExchange
<1> QED
  BY <1>6, <1>7, <1>8, <1>9

-----------------------------------------------------------------------------
(* The invariant.                                                           *)

LEMMA InitInv == Init => Inv
<1> SUFFICES ASSUME Init PROVE Inv
  OBVIOUS
<1>1. TypeOK
  <2>1. classic \in BOOLEAN /\ crossed \in BOOLEAN
    BY DEF Init
  <2> QED BY <2>1, ConnectionAssumption DEF Init, TypeOK
<1>2. \A c \in Clients : Idle(c)
  BY DEF Init, Idle
<1> QED
  BY <1>1, <1>2 DEF Init, Inv, Started, Issued, PastedAreNew, OneExchange, Rotating, Calls, Saves, At, Idle

LEMMA InvStep == Inv /\ [Next]_vars => Inv'
<1> SUFFICES ASSUME Inv, [Next]_vars PROVE Inv'
  OBVIOUS
<1> DEFINE Kept == Started' /\ Issued' /\ PastedAreNew' /\ OneExchange'
<1>1. TypeOK'
  BY TypeStep DEF Inv
<1>2. ASSUME NEW c \in Clients, Quiet(c) PROVE Kept
  BY <1>2, QuietKeeps
<1>3. ASSUME NEW c \in Admins, AdminStep(c) PROVE Kept
  <2>1. c \in Clients
    BY DEF Clients
  <2>2. CASE BeginTest(c) \/ BeginRead(c)
    BY <1>2, <2>1, <2>2, QuietStep DEF Inv
  <2>3. CASE CommitSave(c)
    BY <2>1, <2>3, CommitSaveKeeps
  <2>4. CASE \E in \in Inputs : BeginSave(c, in)
    BY <2>4, BeginSaveKeeps
  <2>5. CASE \E i \in Identities, g \in Grants, scoped \in BOOLEAN : Create(c, i, g, scoped)
    BY <2>5, CreateKeeps
  <2> QED
    BY <1>3, <2>2, <2>3, <2>4, <2>5 DEF AdminStep
<1>4. ASSUME NEW c \in Jobs, BeginSync(c) PROVE Kept
  BY <1>2, <1>4, QuietStep DEF Inv, Clients
<1>5. ASSUME NEW c \in Clients, ProviderStep(c) PROVE Kept
  <2>1. CASE LoadSecret(c)
    BY <2>1, LoadSecretKeeps
  <2>2. CASE Refresh(c)
    BY <2>2, RefreshKeeps
  <2>3. CASE PersistRotation(c)
    BY <2>3, PersistKeeps
  <2>4. CASE \/ Reload(c) \/ Verify(c) \/ RefuseRotation(c) \/ ListSites(c)
             \/ Fetched(c) \/ CallFails(c) \/ WriteVerdict(c) \/ Lose(c)
    BY <1>2, <2>4, QuietStep DEF Inv
  <2> QED
    BY <1>5, <2>1, <2>2, <2>3, <2>4 DEF ProviderStep
<1>6. ASSUME UNCHANGED vars PROVE Kept
  <2>1. /\ \A c \in Clients : /\ Calls(c)' = Calls(c) /\ Saves(c)' = Saves(c)
                              /\ At(c, "rotated")' = At(c, "rotated") /\ Rotating(c)' = Rotating(c)
        /\ \A c \in Clients : \A g : Holds(c, g)' = Holds(c, g) /\ FreshToken(g)' = FreshToken(g)
    BY <1>6 DEF vars, Calls, Saves, At, Idle, Rotating, FreshToken, Holds
  <2>2. Started' /\ Issued'
    BY <1>6, <2>1 DEF vars, Inv, Started, Issued, Idle
  <2>3. PastedAreNew'
    BY <1>6, <2>1 DEF vars, Inv, PastedAreNew
  <2>4. OneExchange'
    BY <1>6, <2>1 DEF vars, Inv, OneExchange, FreshToken
  <2> QED
    BY <2>2, <2>3, <2>4
<1>7. Kept
  BY <1>3, <1>4, <1>5, <1>6 DEF Next, Step
<1> QED
  BY <1>1, <1>7 DEF Inv

LEMMA Invariance == Spec => []Inv
<1> QED
  BY InitInv, InvStep, PTL DEF Spec

\* Every reachable state is well typed: what a request carries through the slow
\* calls to the provider is still a row, a token and a verdict of this connection.
THEOREM TypeCorrect == Spec => []TypeOK
<1>1. Inv => TypeOK
  BY DEF Inv
<1> QED
  BY <1>1, Invariance, PTL

-----------------------------------------------------------------------------
(* The stored token.                                                        *)

\* A quiet step ends an exchange only when its result cannot be saved any more.
LEMMA QuietSpares ==
  ASSUME TypeOK, ~Losses, NEW c \in Clients, At(c, "rotated"),
         \/ BeginTest(c) \/ BeginSync(c) \/ BeginRead(c) \/ Reload(c)
         \/ Verify(c) \/ ListSites(c) \/ Fetched(c) \/ CallFails(c)
         \/ RefuseRotation(c) \/ WriteVerdict(c) \/ Lose(c)
  PROVE  request[c].token # secret.token
  BY DEF BeginTest, BeginSync, BeginRead, Reload, Verify, ListSites, Fetched, CallFails,
         RefuseRotation, WriteVerdict, Lose, Renewable, At, Idle

LEMMA LiveStep ==
  ASSUME ~Losses, Inv, LiveOrRotating, [Next]_vars
  PROVE  LiveOrRotating'
<1> USE DEF Inv
<1> DEFINE Witness(c) == /\ At(c, "rotated") /\ request[c].token = secret.token
                         /\ request[c].next = FreshToken(secret.client)
<1>1. ASSUME NEW c \in Clients,
             \/ BeginTest(c) \/ BeginSync(c) \/ BeginRead(c) \/ Reload(c)
             \/ Verify(c) \/ ListSites(c) \/ Fetched(c) \/ CallFails(c)
             \/ RefuseRotation(c) \/ WriteVerdict(c) \/ Lose(c)
      PROVE  LiveOrRotating'
  <2>1. Quiet(c)
    BY <1>1, QuietStep
  <2>2. ~Witness(c)
    BY <1>1, QuietSpares
  <2>3. ASSUME NEW d \in Clients, Witness(d) PROVE Witness(d)'
    BY <2>1, <2>2, <2>3 DEF Quiet, At, Idle, FreshToken
  <2> QED
    BY <2>1, <2>3 DEF LiveOrRotating, Quiet, FreshToken
<1>2. ASSUME NEW c \in Admins, NEW i \in Identities, NEW g \in Grants, NEW scoped \in BOOLEAN,
             Create(c, i, g, scoped)
      PROVE  LiveOrRotating'
  BY <1>2 DEF Create, LiveOrRotating, FreshToken
<1>3. ASSUME NEW c \in Clients, NEW d \in Clients, Witness(d), request'[d] = request[d],
             UNCHANGED <<secret, live>>
      PROVE  LiveOrRotating'
  <2>1. Witness(d)'
    BY <1>3 DEF At, Idle, FreshToken
  <2> QED
    BY <2>1 DEF LiveOrRotating
<1>4. ASSUME NEW c \in Clients, ~At(c, "rotated"), UNCHANGED <<secret, live>>,
             \A d \in Clients \ {c} : request'[d] = request[d]
      PROVE  LiveOrRotating'
  <2>1. CASE \E d \in Clients : Witness(d)
    BY <1>3, <1>4, <2>1
  <2>2. CASE secret # None => secret.token = FreshToken(secret.client)
    BY <1>4, <2>2 DEF LiveOrRotating, FreshToken
  <2> QED
    BY <2>1, <2>2 DEF LiveOrRotating
<1>5. ASSUME NEW c \in Clients, NEW r, Continue(c, r)
      PROVE  request'[c] = r /\ \A d \in Clients \ {c} : request'[d] = request[d]
  BY <1>5 DEF Continue, TypeOK
<1>6. ASSUME NEW c \in Admins, NEW in \in Inputs, BeginSave(c, in) PROVE LiveOrRotating'
  <2>1. c \in Clients /\ ~At(c, "rotated")
    BY <1>6 DEF BeginSave, Clients, Idle, At
  <2> QED
    BY <1>4, <1>5, <1>6, <2>1 DEF BeginSave
<1>7. ASSUME NEW c \in Clients, CommitSave(c) PROVE LiveOrRotating'
  <2>1. ~At(c, "rotated") /\ live' = live /\ \A d \in Clients \ {c} : request'[d] = request[d]
    BY <1>5, <1>7 DEF CommitSave, Finish, At
  <2>2. CASE request[c].grant = None
    BY <1>4, <1>7, <2>1, <2>2 DEF CommitSave
  <2>3. CASE request[c].grant # None
    BY <1>7, <2>1, <2>3 DEF CommitSave, LiveOrRotating, FreshToken
  <2> QED
    BY <2>2, <2>3
<1>8. ASSUME NEW c \in Clients, LoadSecret(c) PROVE LiveOrRotating'
  <2>1. ~At(c, "rotated")
    BY <1>8 DEF LoadSecret, At
  <2> QED
    BY <1>4, <1>5, <1>8, <2>1 DEF LoadSecret
<1>9. ASSUME NEW c \in Clients, Refresh(c) PROVE LiveOrRotating'
  <2> DEFINE g == request[c].client
  <2>1. /\ At(c, "call") /\ Calls(c) /\ request[c] \in Calling /\ secret # None /\ g \in Grants
        /\ request[c].token = FreshToken(g) /\ request[c].token.grant = g
    BY <1>9, Shapes, BusyFinds DEF Refresh, Issued, Calls, Calling
  <2>2. /\ secret' = secret /\ live' = [live EXCEPT ![g] = @ + 1]
        /\ request'[c] = [request[c] EXCEPT !.stage = "rotated", !.next.generation = live[g] + 1]
        /\ \A d \in Clients \ {c} : request'[d] = request[d]
    BY <1>5, <1>9, <2>1 DEF Refresh
  <2>3. CASE secret.client = g /\ secret.token = FreshToken(g)
    <3>1. request[c].next \in [grant : Grants, generation : 0 .. MaxRotations] /\ request[c].next.grant = g
      BY <2>1 DEF Calling, Token, Issued
    <3>2. request'[c].next = [grant |-> g, generation |-> live[g] + 1]
      BY <2>1, <2>2, <3>1 DEF Calling
    <3>3. request'[c].token = secret.token /\ request'[c].op = request[c].op /\ request'[c].stage = "rotated"
      BY <2>1, <2>2, <2>3 DEF Calling
    <3>4. request'[c] # None
      <4>1. Calls(c)'
        BY <1>9, RefreshCalls
      <4> QED
        BY <4>1 DEF Calls, Idle
    <3>5. FreshToken(secret.client)' = [grant |-> g, generation |-> live[g] + 1]
      BY <2>1, <2>2, <2>3 DEF FreshToken, TypeOK
    <3>6. Witness(c)'
      BY <2>1, <2>2, <3>2, <3>3, <3>4, <3>5 DEF At
    <3> QED
      BY <3>6 DEF LiveOrRotating
  <2>4. CASE secret.client = g /\ secret.token # FreshToken(g)
    <3>1. PICK d \in Clients : Witness(d)
      BY <2>1, <2>4 DEF LiveOrRotating
    <3>2. Calls(d) /\ request[d].client = secret.client
      BY <2>1, <3>1, Unsaid DEF Issued
    <3>3. Rotating(d)
      BY <3>1, <3>2 DEF Rotating
    <3> QED
      BY <2>1, <2>4, <3>2, <3>3 DEF OneExchange
  <2>5. CASE secret.client # g
    <3>1. FreshToken(secret.client)' = FreshToken(secret.client)
      BY <2>1, <2>2, <2>5 DEF FreshToken, TypeOK, Secret
    <3>2. ASSUME NEW d \in Clients, Witness(d) PROVE Witness(d)'
      BY <2>1, <2>2, <3>1, <3>2 DEF At, Idle
    <3> QED
      BY <2>2, <3>1, <3>2 DEF LiveOrRotating
  <2> QED
    BY <2>3, <2>4, <2>5
<1>10. ASSUME NEW c \in Clients, PersistRotation(c) PROVE LiveOrRotating'
  <2> DEFINE g == request[c].client
  <2>1. /\ At(c, "rotated") /\ Calls(c) /\ request[c] \in Calling
        /\ secret # None /\ secret \in Secret
        /\ secret.token = request[c].token /\ secret.client = g
        /\ request[c].next.grant = g
        /\ request[c].next.generation = request[c].token.generation + 1
        /\ request[c].next.generation <= live[g]
    BY <1>10, Shapes, BusyFinds DEF PersistRotation, Renewable, TypeOK, Issued, Calls
  <2>2. secret.token # FreshToken(g)
    <3>1. secret.token.generation \in Nat /\ live[g] \in Nat
      BY <2>1 DEF TypeOK, Secret, Token, Calling
    <3> QED
      BY <2>1, <3>1 DEF FreshToken
  <2>3. PICK d \in Clients : Witness(d)
    BY <2>1, <2>2 DEF LiveOrRotating
  <2>4. request[d].next.generation = request[d].token.generation + 1
    BY <2>3 DEF Issued
  <2>5. request[c].next.generation = live[g]
    BY <2>1, <2>3, <2>4 DEF FreshToken
  <2>6. request[c].next = FreshToken(g)
    BY <2>1, <2>5 DEF FreshToken, Calling, Token
  <2>7. secret'.client = g /\ secret'.token = request[c].next /\ live' = live
    BY <1>10, <2>1 DEF PersistRotation, Secret
  <2> QED
    BY <2>6, <2>7 DEF LiveOrRotating, FreshToken
<1>11. CASE UNCHANGED vars
  <2>1. \A d \in Clients : Witness(d)' = Witness(d)
    BY <1>11 DEF vars, At, Idle, FreshToken
  <2> QED
    BY <1>11, <2>1 DEF vars, LiveOrRotating, FreshToken
<1>12. Admins \subseteq Clients /\ Jobs \subseteq Clients
  BY DEF Clients
<1> QED
  BY <1>1, <1>2, <1>6, <1>7, <1>8, <1>9, <1>10, <1>11, <1>12 DEF Next, Step, AdminStep, ProviderStep

\* Unless a process dies between an exchange and its save, the stored refresh token
\* is the one the provider accepts, or the exchange of it is on its way to the
\* database: no interleaving of tests, syncs, discoveries and changes of the
\* credentials strands the connection.
THEOREM TokenStaysLive ==
  ASSUME ~Losses
  PROVE  Spec => []StoredTokenIsLive
<1>1. Init => LiveOrRotating
  BY DEF Init, LiveOrRotating
<1>2. Inv /\ LiveOrRotating /\ [Next]_vars => LiveOrRotating'
  BY LiveStep
<1>3. LiveOrRotating => StoredTokenIsLive
  BY DEF LiveOrRotating, StoredTokenIsLive
<1> QED
  BY <1>1, <1>2, <1>3, Invariance, PTL DEF Spec

-----------------------------------------------------------------------------
(* The scope of a Classic connection.                                       *)

\* A row that is enabled is scoped, also the one a save is about to write.
ScopedRow(row) == classic /\ row.enabled => row.scoped
RowsAreScoped ==
  /\ source # None => ScopedRow(source)
  /\ \A c \in Clients : Saves(c) => ScopedRow(request[c].row)

LEMMA SavedIsScoped ==
  ASSUME NEW existing \in Source, NEW in \in Inputs, MaySave(existing, in)
  PROVE  ScopedRow(SavedRow(existing, in))
<1>1. CASE Changes(existing, in)
  BY <1>1 DEF SavedRow, ScopedRow
<1>2. CASE ~Changes(existing, in)
  BY <1>2 DEF SavedRow, ScopedRow, MaySave
<1> QED
  BY <1>1, <1>2

LEMMA ScopedStep == Inv /\ RowsAreScoped /\ [Next]_vars => RowsAreScoped'
<1> SUFFICES ASSUME Inv, RowsAreScoped, [Next]_vars PROVE RowsAreScoped'
  OBVIOUS
<1> USE DEF Inv
<1>0. classic' = classic
  BY KindStep DEF TypeOK
<1> USE <1>0 DEF ScopedRow
<1>1. ASSUME NEW c \in Clients, NEW r, Continue(c, r)
      PROVE  request'[c] = r /\ \A d \in Clients \ {c} : request'[d] = request[d]
  BY <1>1 DEF Continue, TypeOK
<1>2. ASSUME NEW c \in Clients, Quiet(c), source'.enabled = source.enabled,
             source'.scoped = source.scoped
      PROVE  RowsAreScoped'
  BY <1>2 DEF Quiet, RowsAreScoped, ScopedRow, Saves, Idle
<1>3. ASSUME NEW c \in Clients,
             \/ BeginTest(c) \/ BeginSync(c) \/ BeginRead(c) \/ Reload(c)
             \/ Verify(c) \/ ListSites(c) \/ Fetched(c) \/ CallFails(c)
             \/ RefuseRotation(c) \/ WriteVerdict(c) \/ Lose(c)
      PROVE  RowsAreScoped'
  <2>1. Quiet(c) /\ source \in Source
    BY <1>3, QuietStep DEF Quiet, TypeOK
  <2>2. source'.enabled = source.enabled /\ source'.scoped = source.scoped
    BY <1>3, <2>1 DEF BeginTest, BeginSync, BeginRead, Reload, Verify, ListSites, Fetched,
                      CallFails, RefuseRotation, WriteVerdict, Lose, Source
  <2> QED
    BY <1>2, <2>1, <2>2
<1>4. ASSUME NEW c \in Clients, LoadSecret(c) \/ Refresh(c) \/ PersistRotation(c)
      PROVE  RowsAreScoped'
  <2>1. source' = source /\ ~Saves(c)' /\ \A d \in Clients \ {c} : request'[d] = request[d]
    <3>1. CASE LoadSecret(c)
      BY <1>1, <3>1 DEF LoadSecret, At, Saves
    <3>2. CASE Refresh(c)
      <4>1. Calls(c)'
        BY <3>2, RefreshCalls
      <4> QED
        BY <1>1, <3>2, <4>1 DEF Refresh, Saves, Calls
    <3>3. CASE PersistRotation(c)
      <4>1. request[c] \in Calling
        BY <3>3, Shapes DEF PersistRotation
      <4>2. request'[c] = [request[c] EXCEPT !.token = request[c].next,
                                             !.stage = IF request[c].op = "test" THEN "list" ELSE "call"]
        BY <1>1, <3>3 DEF PersistRotation
      <4>3. request'[c].op # "save"
        BY <4>1, <4>2 DEF Calling
      <4> QED
        BY <1>1, <3>3, <4>3 DEF PersistRotation, Saves
    <3> QED
      BY <1>4, <3>1, <3>2, <3>3
  <2> QED
    BY <2>1 DEF RowsAreScoped, Saves, Idle
<1>5. ASSUME NEW c \in Clients, CommitSave(c) PROVE RowsAreScoped'
  <2>1. Saves(c) /\ request[c] \in Saving
    BY <1>5, Shapes DEF CommitSave, Saves, Idle
  <2>2. request'[c] = None /\ \A d \in Clients \ {c} : request'[d] = request[d]
    BY <1>1, <1>5 DEF CommitSave, Finish
  <2>3. source'.enabled = request[c].row.enabled /\ source'.scoped = request[c].row.scoped
    BY <1>5, <2>1 DEF CommitSave, Saving, Source
  <2> QED
    BY <2>1, <2>2, <2>3 DEF RowsAreScoped, ScopedRow, Saves, Idle
<1>6. ASSUME NEW c \in Admins, NEW in \in Inputs, BeginSave(c, in) PROVE RowsAreScoped'
  <2>1. ScopedRow(SavedRow(source, in))
    BY <1>6, SavedIsScoped DEF BeginSave, TypeOK
  <2>2. c \in Clients /\ source' = source /\ request'[c].row = SavedRow(source, in)
        /\ \A d \in Clients \ {c} : request'[d] = request[d]
    BY <1>1, <1>6 DEF BeginSave, Clients
  <2> QED
    BY <2>1, <2>2 DEF RowsAreScoped, Saves, Idle
<1>7. ASSUME NEW c \in Admins, NEW i \in Identities, NEW g \in Grants, NEW scoped \in BOOLEAN,
             Create(c, i, g, scoped)
      PROVE  RowsAreScoped'
  BY <1>7 DEF Create, RowsAreScoped, ScopedRow, Saves, Idle
<1>8. CASE UNCHANGED vars
  BY <1>8 DEF vars, RowsAreScoped, Saves, Idle
<1>9. Admins \subseteq Clients /\ Jobs \subseteq Clients
  BY DEF Clients
<1> QED
  BY <1>3, <1>4, <1>5, <1>6, <1>7, <1>8, <1>9 DEF Next, Step, AdminStep, ProviderStep

\* However saves overlap, a Classic Central connection is not enabled without a
\* customer and a site.
THEOREM EnabledStaysScoped == Spec => []EnabledIsScoped
<1>1. Init => RowsAreScoped
  BY DEF Init, RowsAreScoped, Saves, Idle
<1>2. RowsAreScoped => EnabledIsScoped
  BY DEF RowsAreScoped, ScopedRow, EnabledIsScoped
<1> QED
  BY <1>1, <1>2, ScopedStep, Invariance, PTL DEF Spec
-----------------------------------------------------------------------------
(* One administrator after another.                                         *)

\* The connection passed a test as it stands.
Tested == <<source.identity, secret.client>> \in verified

\* A save and a test under way are of the connection as it stands; and only tests
\* come to a verdict.
TurnOf(c) ==
  /\ Saves(c) =>
       /\ c \in Admins
       /\ request[c].resets => ~request[c].row.enabled /\ request[c].row.test = "UNTESTED"
       /\ ~request[c].resets => /\ request[c].row.identity = source.identity /\ request[c].grant = None
                                /\ request[c].row.enabled => Tested
  /\ ~Idle(c) /\ request[c].op = "test" =>
       /\ c \in Admins /\ request[c].identity = source.identity
       /\ request[c].stage # "load" => request[c].client = secret.client
       /\ request[c].stage = "passed" => Tested
  /\ ~Idle(c) /\ request[c].op \in {"sync", "read"} => request[c].stage \notin {"list", "passed", "failed"}

InTurn ==
  /\ source # None /\ (source.enabled \/ source.test = "SUCCESS") => Tested
  /\ \A c \in Clients : TurnOf(c)

\* What others do is of no account as long as the region and the credentials stay.
LEMMA TurnStays ==
  ASSUME NEW d, TurnOf(d), request'[d] = request[d], verified \subseteq verified',
         source'.identity = source.identity, secret'.client = secret.client
  PROVE  TurnOf(d)'
  BY DEF TurnOf, Tested, Saves, Idle

LEMMA OneTakesTheTurn ==
  ASSUME Inv, InTurn, NEW c \in Clients, \A d \in Clients \ {c} : request'[d] = request[d], TurnOf(c)',
         verified \subseteq verified', source'.identity = source.identity, secret'.client = secret.client,
         source' # None /\ (source'.enabled \/ source'.test = "SUCCESS") =>
           source # None /\ (source.enabled \/ source.test = "SUCCESS" \/ Tested)
  PROVE  InTurn'
<1>1. \A d \in Clients : TurnOf(d)'
  BY TurnStays DEF InTurn
<1>2. Tested => Tested'
  BY DEF Tested
<1> QED BY <1>1, <1>2 DEF InTurn

LEMMA LoadingIsATurn ==
  ASSUME NEW c, NEW op \in {"test", "sync", "read"}, op = "test" => c \in Admins,
         request'[c] = [op |-> op, stage |-> "load", identity |-> source.identity],
         source' = source
  PROVE  TurnOf(c)'
<1> DEFINE r == request'[c]
<1>1. r.op = op /\ r.stage = "load" /\ r.identity = source'.identity
  OBVIOUS
<1> HIDE DEF r
<1> QED BY <1>1 DEF TurnOf, Saves, Idle, r

\* A call that goes on keeps its client and its region.
LEMMA CallingIsATurn ==
  ASSUME NEW c, TurnOf(c), Calls(c),
         request'[c].op = request[c].op, request'[c].identity = request[c].identity,
         request'[c].client = request[c].client,
         request'[c].stage \in {"call", "rotated", "list", "passed", "failed"},
         request'[c].stage \in {"list", "passed", "failed"} => request[c].op = "test",
         request'[c].stage = "passed" => Tested',
         source'.identity = source.identity, secret'.client = secret.client
  PROVE  TurnOf(c)'
  BY DEF TurnOf, Saves, Idle, Calls

LEMMA RestIsATurn ==
  ASSUME NEW c, request'[c] = None
  PROVE  TurnOf(c)'
  BY DEF TurnOf, Saves, Idle

LEMMA TurnStep ==
  ASSUME Inv, InTurn, ~Crossing, [Next]_vars
  PROVE  InTurn'
<1> USE DEF Inv
<1>0. Admins \subseteq Clients /\ Jobs \subseteq Clients
  BY DEF Clients
<1>1. ASSUME NEW c \in Clients, NEW r, Continue(c, r)
      PROVE  request'[c] = r /\ \A d \in Clients \ {c} : request'[d] = request[d]
  BY <1>1 DEF Continue, TypeOK
<1>2. ASSUME NEW c \in Clients, UNCHANGED <<source, secret>>, verified \subseteq verified',
             \A d \in Clients \ {c} : request'[d] = request[d], TurnOf(c)'
      PROVE  InTurn'
  BY <1>2, OneTakesTheTurn
<1>3. ASSUME NEW c \in Clients, NEW op \in {"test", "sync", "read"}, op = "test" => c \in Admins, Load(c, op),
             UNCHANGED <<source, secret, live, verified>>
      PROVE  InTurn'
  <2>1. TurnOf(c)'
    BY <1>1, <1>3, LoadingIsATurn DEF Load
  <2> QED BY <1>1, <1>2, <1>3, <2>1 DEF Load
<1>4. ASSUME NEW c \in Admins, BeginTest(c) \/ BeginRead(c) PROVE InTurn'
  BY <1>0, <1>3, <1>4 DEF BeginTest, BeginRead
<1>5. ASSUME NEW c \in Clients, BeginSync(c) \/ Reload(c) PROVE InTurn'
  BY <1>3, <1>5 DEF BeginSync, Reload
<1>6. ASSUME NEW c \in Clients, LoadSecret(c) PROVE InTurn'
  <2> DEFINE r == [op |-> request[c].op, stage |-> "call", identity |-> request[c].identity,
                   client |-> secret.client, token |-> secret.token, next |-> secret.token]
  <2>1. Continue(c, r) /\ UNCHANGED <<source, secret, live, verified>> /\ At(c, "load") /\ request[c] \in Loading
    BY <1>6, Shapes DEF LoadSecret
  <2>2. request'[c] = r /\ \A d \in Clients \ {c} : request'[d] = request[d]
    BY <1>1, <2>1
  <2>3. /\ request'[c].op = request[c].op /\ request'[c].stage = "call"
        /\ request'[c].identity = request[c].identity /\ request'[c].client = secret.client
    BY <2>2
  <2>4. TurnOf(c) /\ ~Idle(c)
    BY <2>1 DEF InTurn, At, Idle
  <2>5. request[c].op # "save"
    BY <2>1 DEF At
  <2> HIDE DEF r
  <2>6. TurnOf(c)'
    BY <2>1, <2>3, <2>4, <2>5 DEF TurnOf, Saves, Idle
  <2> QED BY <1>2, <2>1, <2>2, <2>6
<1>7. ASSUME NEW c \in Clients, Verify(c) \/ ListSites(c) PROVE InTurn'
  <2>1. Calls(c) /\ request[c] \in Calling /\ TurnOf(c) /\ request[c].op = "test"
    <3>1. Calls(c) /\ request[c] \in Calling /\ TurnOf(c)
      BY <1>7, Shapes DEF Verify, ListSites, InTurn
    <3>2. ListSites(c) => request[c].op = "test"
      BY <3>1 DEF ListSites, At, TurnOf, Idle, Calling
    <3> QED BY <1>7, <3>1, <3>2 DEF Verify
  <2>2. /\ request'[c] = [request[c] EXCEPT !.stage = "passed"]
        /\ \A d \in Clients \ {c} : request'[d] = request[d]
        /\ verified' = verified \cup {<<request[c].identity, request[c].client>>}
        /\ UNCHANGED <<source, secret>>
    BY <1>1, <1>7 DEF Verify, ListSites
  <2>3. /\ request'[c].op = request[c].op /\ request'[c].identity = request[c].identity
        /\ request'[c].client = request[c].client /\ request'[c].stage = "passed"
    BY <2>1, <2>2 DEF Calling
  <2>4. Tested'
    BY <2>1, <2>2 DEF Tested, TurnOf, Calls
  <2>5. TurnOf(c)'
    BY <2>1, <2>2, <2>3, <2>4, CallingIsATurn
  <2> QED BY <1>2, <2>2, <2>5
<1>8. ASSUME NEW c \in Clients, Refresh(c) PROVE InTurn'
  <2>1. Calls(c) /\ request[c] \in Calling /\ TurnOf(c)
    BY <1>8, Shapes DEF Refresh, InTurn
  <2>2. /\ request'[c] = [request[c] EXCEPT !.stage = "rotated", !.next.generation = live[request[c].token.grant] + 1]
        /\ \A d \in Clients \ {c} : request'[d] = request[d]
        /\ UNCHANGED <<source, secret, verified>>
    BY <1>1, <1>8 DEF Refresh
  <2>3. /\ request'[c].op = request[c].op /\ request'[c].identity = request[c].identity
        /\ request'[c].client = request[c].client /\ request'[c].stage = "rotated"
    BY <2>1, <2>2 DEF Calling
  <2>4. TurnOf(c)'
    BY <2>1, <2>2, <2>3, CallingIsATurn
  <2> QED BY <1>2, <2>2, <2>4
<1>9. ASSUME NEW c \in Clients, PersistRotation(c) PROVE InTurn'
  <2>1. Calls(c) /\ request[c] \in Calling /\ TurnOf(c) /\ source # None /\ secret \in Secret
    <3>1. Calls(c) /\ request[c] \in Calling /\ TurnOf(c)
      BY <1>9, Shapes DEF PersistRotation, InTurn
    <3> QED BY <3>1 DEF Calls, Started, TypeOK
  <2>2. /\ request'[c] = [request[c] EXCEPT !.token = request[c].next,
                                            !.stage = IF request[c].op = "test" THEN "list" ELSE "call"]
        /\ \A d \in Clients \ {c} : request'[d] = request[d]
        /\ secret' = [secret EXCEPT !.token = request[c].next]
        /\ UNCHANGED <<source, verified>>
    BY <1>1, <1>9 DEF PersistRotation
  <2>3. /\ request'[c].op = request[c].op /\ request'[c].identity = request[c].identity
        /\ request'[c].client = request[c].client
        /\ request'[c].stage = IF request[c].op = "test" THEN "list" ELSE "call"
    BY <2>1, <2>2 DEF Calling
  <2>4. secret'.client = secret.client
    BY <2>1, <2>2 DEF Secret
  <2>5. TurnOf(c)'
    BY <2>1, <2>2, <2>3, <2>4, CallingIsATurn
  <2> QED BY <2>1, <2>2, <2>4, <2>5, OneTakesTheTurn
<1>10. ASSUME NEW c \in Clients, RefuseRotation(c) \/ CallFails(c) PROVE InTurn'
  <2>1. Calls(c) /\ request[c] \in Calling /\ TurnOf(c)
    BY <1>10, Shapes DEF RefuseRotation, CallFails, InTurn
  <2>2. /\ request'[c] = Ended(c)
        /\ \A d \in Clients \ {c} : request'[d] = request[d]
        /\ UNCHANGED <<source, secret, verified>>
    BY <1>1, <1>10 DEF RefuseRotation, CallFails
  <2>3. CASE request[c].op = "test"
    <3>1. /\ request'[c].op = request[c].op /\ request'[c].identity = request[c].identity
          /\ request'[c].client = request[c].client /\ request'[c].stage = "failed"
      BY <2>1, <2>2, <2>3 DEF Calling, Ended
    <3>2. TurnOf(c)'
      BY <2>1, <2>2, <2>3, <3>1, CallingIsATurn
    <3> QED BY <1>2, <2>2, <3>2
  <2>4. CASE request[c].op # "test"
    <3>1. TurnOf(c)'
      BY <2>2, <2>4, RestIsATurn DEF Ended
    <3> QED BY <1>2, <2>2, <3>1
  <2> QED BY <2>3, <2>4
<1>11. ASSUME NEW c \in Clients, Fetched(c) \/ Lose(c) PROVE InTurn'
  <2>1. request'[c] = None /\ (\A d \in Clients \ {c} : request'[d] = request[d]) /\ UNCHANGED <<source, secret, verified>>
    BY <1>1, <1>11 DEF Fetched, Lose, Finish
  <2> QED BY <1>2, <2>1, RestIsATurn
<1>12. ASSUME NEW c \in Clients, WriteVerdict(c) PROVE InTurn'
  <2>1. Calls(c) /\ TurnOf(c) /\ source \in Source
    <3>1. Calls(c) /\ TurnOf(c)
      BY <1>12, Shapes DEF WriteVerdict, InTurn
    <3> QED BY <3>1 DEF Calls, Started, TypeOK
  <2>2. /\ request'[c] = None /\ \A d \in Clients \ {c} : request'[d] = request[d]
        /\ source' = [source EXCEPT !.test = IF At(c, "passed") THEN "SUCCESS" ELSE "FAILED"]
        /\ UNCHANGED <<secret, verified>>
    BY <1>1, <1>12 DEF WriteVerdict, Finish
  <2>3. /\ source'.identity = source.identity /\ source'.enabled = source.enabled
        /\ source'.test = "SUCCESS" => At(c, "passed")
    BY <2>1, <2>2 DEF Source
  <2>4. At(c, "passed") => Tested
    <3>1. At(c, "passed") => request[c] \in Calling
      BY <2>1, Shapes
    <3> QED BY <2>1, <3>1 DEF At, TurnOf, Idle, Calling
  <2>5. source # None
    BY <2>1, NoneAssumption
  <2> QED BY <2>2, <2>3, <2>4, <2>5, RestIsATurn, OneTakesTheTurn
<1>13. ASSUME NEW c \in Admins, NEW in \in Inputs, BeginSave(c, in) PROVE InTurn'
  <2> DEFINE s == SavedRow(source, in)
             r == [op |-> "save", row |-> s, resets |-> Changes(source, in), grant |-> in.grant]
  <2>1. c \in Clients /\ source # None /\ MaySave(source, in) /\ UNCHANGED <<source, secret, verified>>
    BY <1>0, <1>13 DEF BeginSave
  <2>2. request'[c] = r /\ \A d \in Clients \ {c} : request'[d] = request[d]
    BY <1>1, <1>13, <2>1 DEF BeginSave
  <2>3. Changes(source, in) => ~s.enabled /\ s.test = "UNTESTED"
    BY DEF SavedRow
  <2>4. ~Changes(source, in) => s.identity = source.identity /\ in.grant = None
    BY DEF SavedRow, Changes, Or
  <2>5. ~Changes(source, in) /\ s.enabled => Tested
    <3>1. ASSUME ~Changes(source, in), s.enabled PROVE in.enabled = TRUE \/ source.enabled
      <4>1. in.enabled \in BOOLEAN \cup {None}
        BY DEF Inputs
      <4> QED BY <3>1, <4>1 DEF SavedRow, Or
    <3>2. in.enabled = TRUE => source.test = "SUCCESS"
      BY <2>1 DEF MaySave
    <3> QED BY <2>1, <3>1, <3>2 DEF InTurn
  <2>6. request'[c].op = "save" /\ request'[c].row = s /\ request'[c].resets = Changes(source, in)
        /\ request'[c].grant = in.grant
    BY <2>2
  <2>7. Tested => Tested'
    BY <2>1 DEF Tested
  <2> HIDE DEF r, s
  <2>8. TurnOf(c)'
    BY <2>1, <2>3, <2>4, <2>5, <2>6, <2>7 DEF TurnOf, Saves, Idle
  <2> QED BY <1>2, <2>1, <2>2, <2>8
<1>14. ASSUME NEW c \in Clients, CommitSave(c) PROVE InTurn'
  <2> DEFINE r == request[c]
  <2>1. Saves(c) /\ r \in Saving /\ TurnOf(c) /\ source \in Source /\ secret \in Secret
    <3>1. Saves(c) /\ request[c] \in Saving
      BY <1>14, Shapes DEF CommitSave, Saves, Idle
    <3> QED BY <3>1 DEF InTurn, Saves, Started, TypeOK
  <2>2. /\ request'[c] = None /\ \A d \in Clients \ {c} : request'[d] = request[d]
        /\ source' = IF r.resets THEN r.row ELSE [r.row EXCEPT !.test = source.test]
        /\ secret' = IF r.grant = None THEN secret ELSE [client |-> r.grant, token |-> FreshToken(r.grant)]
        /\ UNCHANGED verified
    BY <1>1, <1>14 DEF CommitSave, Finish
  <2>3. CASE r.resets
    <3>1. ~source'.enabled /\ source'.test # "SUCCESS"
      BY <2>1, <2>2, <2>3 DEF TurnOf
    <3>2. ASSUME NEW d \in Clients PROVE TurnOf(d)'
      <4>1. CASE d = c
        BY <2>2, <4>1, RestIsATurn
      <4>2. CASE d # c
        <5>1. request'[d] = request[d] /\ TurnOf(d) /\ (d \notin Admins \/ Idle(d))
          BY <2>1, <2>2, <4>2 DEF TurnOf, InTurn, Crossing, Saves
        <5> QED BY <5>1 DEF TurnOf, Saves, Idle
      <4> QED BY <4>1, <4>2
    <3> QED BY <3>1, <3>2 DEF InTurn
  <2>4. CASE ~r.resets
    <3>1. r.row.identity = source.identity /\ r.grant = None /\ (r.row.enabled => Tested)
      BY <2>1, <2>4 DEF TurnOf
    <3>2. /\ source'.identity = source.identity /\ source'.enabled = r.row.enabled
          /\ source'.test = source.test
      BY <2>1, <2>2, <2>4, <3>1 DEF Saving, Source
    <3>3. secret' = secret /\ source # None
      BY <2>1, <2>2, <3>1, NoneAssumption
    <3>4. TurnOf(c)'
      BY <2>2, RestIsATurn
    <3> HIDE DEF r
    <3> QED BY <2>2, <3>1, <3>2, <3>3, <3>4, OneTakesTheTurn
  <2> QED BY <2>1, <2>3, <2>4 DEF Saving
<1>15. ASSUME NEW c \in Admins, NEW i \in Identities, NEW g \in Grants, NEW scoped \in BOOLEAN,
              Create(c, i, g, scoped)
       PROVE  InTurn'
  <2>1. source = None /\ request' = request /\ source' = [identity |-> i, scoped |-> scoped, enabled |-> FALSE, test |-> "UNTESTED"]
    BY <1>15 DEF Create
  <2>2. \A d \in Clients : request'[d] = None
    BY <2>1 DEF Started, Idle
  <2>3. ~source'.enabled /\ source'.test # "SUCCESS"
    BY <2>1
  <2> QED BY <2>2, <2>3, RestIsATurn DEF InTurn
<1>16. CASE UNCHANGED vars
  BY <1>16 DEF vars, InTurn, TurnOf, Tested, Saves, Idle
<1> QED
  BY <1>0, <1>4, <1>5, <1>6, <1>7, <1>8, <1>9, <1>10, <1>11, <1>12, <1>13, <1>14, <1>15, <1>16
     DEF Next, Step, AdminStep, ProviderStep

\* While the requests of administrators never overlap, a connection is only enabled
\* with a region and credentials that passed a test together, whatever syncs run
\* and fail meanwhile.  (updateMeraki-, updateAuvik- and
\* updateClassicCentralConnection)
THEOREM TurnsVerify == Spec => []EnabledIsVerifiedInTurn
<1> DEFINE Turns == (Crossing => crossed) /\ (~crossed => InTurn)
<1>1. Init => Turns
  <2>1. ASSUME Init PROVE \A c \in Clients : Idle(c)
    BY <2>1 DEF Init, Idle
  <2>2. ASSUME Init PROVE InTurn
    BY <2>1, <2>2 DEF Init, InTurn, TurnOf, Saves, Idle
  <2>3. ASSUME Init PROVE ~Crossing
    BY <2>1, <2>3 DEF Crossing, Clients
  <2> QED BY <2>2, <2>3
<1>2. Inv /\ Turns /\ [Next]_vars => Turns'
  <2> SUFFICES ASSUME Inv, Turns, [Next]_vars PROVE Turns'
    OBVIOUS
  <2>1. (Crossing => crossed)' /\ (~crossed' => ~crossed)
    BY DEF Next, vars, Crossing, Idle, Inv, TypeOK
  <2>2. ~crossed' => InTurn'
    BY <2>1, TurnStep
  <2> QED BY <2>1, <2>2
<1>3. Turns => EnabledIsVerifiedInTurn
  BY DEF InTurn, EnabledIsVerifiedInTurn, EnabledIsVerified, Tested
<1> QED
  BY <1>1, <1>2, <1>3, Invariance, PTL DEF Spec
-----------------------------------------------------------------------------
(* Parents.  What ParentIsSound says of the units of today is said here of   *)
(* any table of units.                                                       *)

\* A set of units that has p and its parents, but not v.
Apart(table, c, p, v) ==
  \E S \in SUBSET Own(table, c) : p \in S /\ v \notin S /\ IsClosed(S, table, c)
Hangs(table, u, row) ==
  row.parent # None =>
    row.parent \in Own(table, row.customer) /\ Apart(table, row.customer, row.parent, u)
IsForest(table) == \A v \in DOMAIN table : Hangs(table, v, table[v])

\* A unit is no ancestor exactly when a closed set separates the two.
LEMMA AncestorsAreSeparated ==
  ASSUME NEW table, NEW c, NEW p \in Own(table, c), NEW v
  PROVE  v \notin Ancestors(table, c, p) <=> Apart(table, c, p, v)
<1>1. CASE v \in Own(table, c)
  BY <1>1 DEF Ancestors, Apart
<1>2. CASE v \notin Own(table, c)
  <2>1. IsClosed(Own(table, c), table, c)
    BY DEF IsClosed
  <2>2. Apart(table, c, p, v)
    BY <1>2, <2>1 DEF Apart
  <2> QED
    BY <1>2, <2>2 DEF Ancestors
<1> QED
  BY <1>1, <1>2

\* Moving or adding a unit of one customer leaves the units of another alone.
LEMMA OthersKeepTheirParents ==
  ASSUME NEW table, NEW u, NEW row, u \in DOMAIN table => table[u].customer = row.customer,
         NEW w, NEW other, other.customer # row.customer, Hangs(table, w, other)
  PROVE  Hangs(With(table, u, row), w, other)
<1> DEFINE new == With(table, u, row)  c == other.customer
<1>0. /\ DOMAIN new = DOMAIN table \cup {u} /\ new[u] = row
      /\ \A k \in DOMAIN table \ {u} : new[k] = table[k]
  BY DEF With
<1> HIDE DEF new
<1>1. Own(new, c) = Own(table, c) /\ u \notin Own(table, c)
  BY <1>0 DEF Own
<1>2. \A k \in Own(table, c) : new[k] = table[k]
  BY <1>0, <1>1 DEF Own
<1>3. ASSUME NEW S \in SUBSET Own(table, c), IsClosed(S, table, c)
      PROVE  IsClosed(S, new, c)
  BY <1>1, <1>2, <1>3 DEF IsClosed
<1>4. Hangs(new, w, other)
  BY <1>1, <1>3 DEF Hangs, Apart
<1> QED
  BY <1>4 DEF new

\* A unit that is hung under a unit it is no ancestor of leaves a forest: the
\* sets that separate a unit from its parents are joined to or cut by the one
\* that separates the moved unit from its new ones.
LEMMA MovingKeepsTheForest ==
  ASSUME NEW table, NEW u, NEW row, IsForest(table), Hangs(table, u, row),
         None \notin DOMAIN table, u # None,
         u \in DOMAIN table => table[u].customer = row.customer
  PROVE  IsForest(With(table, u, row))
<1> DEFINE new == With(table, u, row)  c == row.customer
<1>0. /\ DOMAIN new = DOMAIN table \cup {u} /\ new[u] = row
      /\ \A k \in DOMAIN table \ {u} : new[k] = table[k]
  BY DEF With
<1> HIDE DEF new
<1>1. /\ Own(new, c) = Own(table, c) \cup {u}
      /\ \A k \in Own(table, c) \ {u} : new[k] = table[k]
      /\ new[u] = row /\ u \in DOMAIN new /\ None \notin Own(new, c)
      /\ \A k \in DOMAIN new \ {u} : k \in DOMAIN table /\ new[k] = table[k]
  BY <1>0 DEF Own
<1>2. ASSUME NEW x \in Own(table, c), table[x].parent = u
      PROVE  u \in Own(table, c)
  BY <1>2 DEF IsForest, Hangs, Own
<1>3. ASSUME NEW S \in SUBSET Own(table, c), IsClosed(S, table, c), u \notin S
      PROVE  IsClosed(S, new, c)
  BY <1>1, <1>2, <1>3 DEF IsClosed
<1>4. ASSUME NEW v \in DOMAIN new, new[v].customer # c
      PROVE  Hangs(new, v, new[v])
  <2>1. v # u /\ v \in DOMAIN table /\ new[v] = table[v]
    BY <1>1, <1>4
  <2>2. Hangs(table, v, table[v]) /\ table[v].customer # row.customer
    BY <1>4, <2>1 DEF IsForest
  <2>3. Hangs(With(table, u, row), v, table[v])
    BY <2>2, OthersKeepTheirParents
  <2> QED
    BY <2>1, <2>3 DEF new
<1>5. Hangs(new, u, new[u])
  BY <1>1, <1>3 DEF Hangs, Apart
<1>6. ASSUME NEW v \in DOMAIN new, v # u, new[v].customer = c, new[v].parent # None
      PROVE  new[v].parent \in Own(new, c) /\ Apart(new, c, new[v].parent, v)
  <2> DEFINE p == table[v].parent
  <2>1. v \in Own(table, c) /\ new[v] = table[v] /\ p # None
    BY <1>1, <1>6 DEF Own
  <2>2. p \in Own(table, c) /\ Apart(table, c, p, v)
    BY <2>1 DEF IsForest, Hangs, Own
  <2>3. PICK S \in SUBSET Own(table, c) : p \in S /\ v \notin S /\ IsClosed(S, table, c)
    BY <2>2 DEF Apart
  <2> HIDE DEF p
  <2>4. ASSUME u \notin S PROVE Apart(new, c, p, v)
    BY <1>1, <1>3, <2>3, <2>4 DEF Apart
  <2>5. ASSUME u \in S, row.parent = None PROVE Apart(new, c, p, v)
    <3>1. IsClosed(S, new, c)
      BY <1>1, <2>3, <2>5 DEF IsClosed
    <3> QED
      BY <1>1, <2>3, <3>1 DEF Apart
  <2>6. ASSUME u \in S, row.parent # None PROVE Apart(new, c, p, v)
    <3>1. PICK R \in SUBSET Own(table, c) :
            row.parent \in R /\ u \notin R /\ IsClosed(R, table, c)
      BY <2>6 DEF Hangs, Apart
    <3>2. CASE v \in R
      <4>1. p \in R
        BY <2>2, <3>1, <3>2 DEF IsClosed, p
      <4>2. IsClosed(S \cap R, table, c)
        BY <2>3, <3>1 DEF IsClosed
      <4>3. IsClosed(S \cap R, new, c)
        BY <1>3, <2>3, <3>1, <4>2
      <4>4. S \cap R \in SUBSET Own(new, c) /\ p \in S \cap R /\ v \notin S \cap R
        BY <1>1, <2>3, <4>1
      <4> QED
        BY <4>3, <4>4 DEF Apart
    <3>3. CASE v \notin R
      <4>1. IsClosed(S \cup R, new, c)
        BY <1>1, <2>3, <2>6, <3>1 DEF IsClosed
      <4>2. S \cup R \in SUBSET Own(new, c) /\ p \in S \cup R /\ v \notin S \cup R
        BY <1>1, <2>3, <3>1, <3>3
      <4> QED
        BY <4>1, <4>2 DEF Apart
    <3> QED
      BY <3>2, <3>3
  <2>7. Apart(new, c, p, v)
    BY <2>4, <2>5, <2>6
  <2>8. p \in Own(new, c)
    BY <1>1, <2>2
  <2> QED
    BY <2>1, <2>7, <2>8 DEF p
<1>7. IsForest(new)
  BY <1>4, <1>5, <1>6 DEF IsForest, Hangs
<1> QED
  BY <1>7 DEF new
-----------------------------------------------------------------------------
(* The hierarchy of a customer.                                              *)

AsksForUnit(q) == ~Rests(q) /\ pending[q].kind = "unit"

UnitRows == DOMAIN units \subseteq Units /\ \A u \in DOMAIN units : "customer" \in DOMAIN units[u]

\* A request that is about to write a unit has the lock on its customer: what it
\* checked still holds, and no other request is about to write a unit there.
TakingTurns ==
  /\ pending = [q \in Requests |-> pending[q]]
  /\ \A q \in Requests : AsksForUnit(q) =>
       LET u == pending[q].id  row == pending[q].row IN
       /\ u \in Units /\ "customer" \in DOMAIN row
       /\ u \in DOMAIN units => units[u].customer = row.customer
       /\ Hangs(units, u, row)
       /\ \A r \in Requests \ {q} :
            AsksForUnit(r) => pending[r].id # u /\ pending[r].row.customer # row.customer

SitesBelong == \A s \in DOMAIN sites : UnitBelongs(sites[s].unit, sites[s].customer)

HierarchyInv == UnitRows /\ TakingTurns /\ IsForest(units) /\ SitesBelong

\* What the request checks of a parent is what the forest needs of it.
LEMMA ParentsHang ==
  ASSUME NEW u, NEW row
  PROVE  ParentIsSound(u, row) <=> Hangs(units, u, row)
<1>1. CASE row.parent = None
  BY <1>1 DEF ParentIsSound, Hangs
<1>2. CASE row.parent # None
  <2>1. row.parent \in Own(units, row.customer) <=>
          row.parent \in DOMAIN units /\ units[row.parent].customer = row.customer
    BY DEF Own
  <2>2. row.parent \in Own(units, row.customer) =>
          (u \notin Ancestors(units, row.customer, row.parent)
             <=> Apart(units, row.customer, row.parent, u))
    BY AncestorsAreSeparated
  <2> QED
    BY <1>2, <2>1, <2>2 DEF ParentIsSound, Hangs
<1> QED
  BY <1>1, <1>2

LEMMA ForestOfUnits ==
  ASSUME HierarchyInv
  PROVE  UnitsFormAForest
<1>1. \A u \in DOMAIN units : ParentIsSound(u, units[u])
  BY ParentsHang DEF HierarchyInv, IsForest
<1> QED
  BY <1>1 DEF UnitsFormAForest, ParentIsSound, HierarchyInv, SitesBelong

\* A request that writes, or is about to write something else, gives its turn back.
LEMMA TurnIsGivenBack ==
  ASSUME TakingTurns, UNCHANGED units, NEW q \in Requests, NEW x,
         pending' = [pending EXCEPT ![q] = x], x = None \/ x.kind # "unit"
  PROVE  TakingTurns'
<1>1. ~AsksForUnit(q)' /\ pending'[q] = x
  BY DEF TakingTurns, AsksForUnit, Rests
<1>2. \A r \in Requests \ {q} : pending'[r] = pending[r] /\ (AsksForUnit(r)' <=> AsksForUnit(r))
  BY DEF TakingTurns, AsksForUnit, Rests
<1>3. pending' = [r \in Requests |-> pending'[r]]
  BY DEF TakingTurns
<1>4. ASSUME NEW u, NEW row
      PROVE  Hangs(units, u, row)' <=> Hangs(units, u, row)
  BY DEF Hangs, Apart, Own, IsClosed
<1> QED
  BY <1>1, <1>2, <1>3, <1>4 DEF TakingTurns

LEMMA TurnIsTaken ==
  ASSUME HierarchyInv, NEW q \in Requests, NEW u \in Units, NEW was, NEW row,
         "customer" \in DOMAIN row, u \in DOMAIN units => units[u].customer = row.customer,
         \A r \in Requests : AsksForUnit(r) => pending[r].id # u,
         BeginUnit(q, u, was, row)
  PROVE  HierarchyInv'
<1> DEFINE x == [kind |-> "unit", id |-> u, was |-> was, row |-> row]
<1>1. pending' = [pending EXCEPT ![q] = x] /\ UNCHANGED <<units, sites>> /\ Hangs(units, u, row)
  BY ParentsHang DEF BeginUnit, Hold, ValidUnit
<1>2. \A r \in Requests : AsksForUnit(r) => pending[r].row.customer # row.customer
  BY DEF BeginUnit, Locked, AsksForUnit
<1>3. x.id = u /\ x.row = row
  OBVIOUS
<1> HIDE DEF x
<1>4. pending'[q] = x /\ pending' = [r \in Requests |-> pending'[r]]
  BY <1>1 DEF HierarchyInv, TakingTurns
<1>5. \A r \in Requests \ {q} : pending'[r] = pending[r] /\ (AsksForUnit(r)' <=> AsksForUnit(r))
  BY <1>1 DEF HierarchyInv, TakingTurns, AsksForUnit, Rests
<1>6. TakingTurns'
  BY <1>1, <1>2, <1>3, <1>4, <1>5 DEF HierarchyInv, TakingTurns
<1>7. UnitRows' /\ IsForest(units)' /\ SitesBelong'
  BY <1>1 DEF HierarchyInv, UnitRows, IsForest, SitesBelong, UnitBelongs
<1> QED
  BY <1>6, <1>7 DEF HierarchyInv

LEMMA BeginsOfUnits ==
  ASSUME HierarchyInv, NEW q \in Requests,
         \/ \E c \in DOMAIN customers, u \in Units, n \in Names : CreateUnit(q, c, u, n)
         \/ \E u \in DOMAIN units, patch \in UnitEdits : UpdateUnit(q, u, patch)
  PROVE  HierarchyInv'
<1>1. ASSUME NEW c, NEW u \in Units, NEW n, CreateUnit(q, c, u, n)
      PROVE  HierarchyInv'
  <2>1. "customer" \in DOMAIN NewUnit(c, n)
    BY DEF NewUnit
  <2>2. \A r \in Requests : AsksForUnit(r) => pending[r].id # u
    BY <1>1 DEF CreateUnit, Pending, AsksForUnit
  <2> QED
    BY <1>1, <2>1, <2>2, TurnIsTaken DEF CreateUnit
<1>2. ASSUME NEW u \in DOMAIN units, NEW patch \in UnitEdits, UpdateUnit(q, u, patch)
      PROVE  HierarchyInv'
  <2> DEFINE row == Over(patch, units[u])
  <2>1. u \in Units /\ "customer" \in DOMAIN row /\ row.customer = units[u].customer
    BY HierarchyAssumption DEF HierarchyInv, UnitRows, Over
  <2>2. BeginUnit(q, u, units[u], row)
    BY <1>2 DEF UpdateUnit
  <2>3. \A r \in Requests : AsksForUnit(r) => pending[r].id # u
    BY <2>1, <2>2 DEF BeginUnit, Locked, AsksForUnit, HierarchyInv, TakingTurns
  <2> HIDE DEF row
  <2> QED
    BY <2>1, <2>2, <2>3, TurnIsTaken
<1> QED
  BY <1>1, <1>2

\* The row is written under the lock it was checked under.
LEMMA UnitIsWritten ==
  ASSUME HierarchyInv, NEW q \in Requests, CommitUnit(q)
  PROVE  HierarchyInv'
<1> DEFINE u == pending[q].id  row == pending[q].row
<1>1. AsksForUnit(q) /\ pending' = [pending EXCEPT ![q] = None] /\ UNCHANGED sites
  BY DEF CommitUnit, AsksForUnit, Respond
<1>2. /\ u \in Units /\ "customer" \in DOMAIN row /\ Hangs(units, u, row)
      /\ u \in DOMAIN units => units[u].customer = row.customer
  BY <1>1 DEF HierarchyInv, TakingTurns
<1>3. CASE UNCHANGED units
  BY <1>1, <1>3, TurnIsGivenBack
     DEF HierarchyInv, UnitRows, IsForest, SitesBelong, UnitBelongs
<1>4. CASE units' = With(units, u, row)
  <2>1. /\ DOMAIN units' = DOMAIN units \cup {u} /\ units'[u] = row
        /\ \A k \in DOMAIN units \ {u} : units'[k] = units[k]
    BY <1>4 DEF With
  <2>2. u # None /\ None \notin DOMAIN units
    BY <1>2, HierarchyAssumption DEF HierarchyInv, UnitRows
  <2>3. IsForest(units)'
    <3>1. IsForest(With(units, u, row))
      BY <1>2, <2>2, MovingKeepsTheForest DEF HierarchyInv
    <3> QED
      BY <1>4, <3>1 DEF IsForest, Hangs, Apart, Own, IsClosed
  <2>4. UnitRows' /\ \A k \in DOMAIN units : k \in DOMAIN units' /\ units'[k].customer = units[k].customer
    BY <1>2, <2>1 DEF HierarchyInv, UnitRows
  <2>5. SitesBelong'
    BY <1>1, <2>4 DEF HierarchyInv, SitesBelong, UnitBelongs
  <2>6. /\ ~AsksForUnit(q)' /\ pending' = [r \in Requests |-> pending'[r]]
        /\ \A r \in Requests \ {q} : pending'[r] = pending[r] /\ (AsksForUnit(r)' <=> AsksForUnit(r))
    BY <1>1 DEF HierarchyInv, TakingTurns, AsksForUnit, Rests
  <2>7. ASSUME NEW r \in Requests \ {q}, AsksForUnit(r)
        PROVE  Hangs(units', pending[r].id, pending[r].row)
    <3>1. pending[r].row.customer # row.customer /\ Hangs(units, pending[r].id, pending[r].row)
      BY <1>1, <2>7 DEF HierarchyInv, TakingTurns
    <3>2. Hangs(With(units, u, row), pending[r].id, pending[r].row)
      BY <1>2, <3>1, OthersKeepTheirParents
    <3> QED
      BY <1>4, <3>2
  <2>8. ASSUME NEW r \in Requests \ {q}, AsksForUnit(r), pending[r].id \in DOMAIN units'
        PROVE  units'[pending[r].id].customer = pending[r].row.customer
    BY <1>1, <2>1, <2>8 DEF HierarchyInv, TakingTurns
  <2>9. TakingTurns'
    BY <2>6, <2>7, <2>8 DEF HierarchyInv, TakingTurns
  <2> QED
    BY <2>3, <2>4, <2>5, <2>9 DEF HierarchyInv
<1> QED
  BY <1>3, <1>4 DEF CommitUnit

LEMMA SitesOfRequests ==
  ASSUME HierarchyInv, NEW q \in Requests, ServeSites(q)
  PROVE  HierarchyInv'
<1>1. ASSUME NEW s, NEW was, NEW row, BeginSite(q, s, was, row)
      PROVE  HierarchyInv'
  BY <1>1, TurnIsGivenBack
     DEF BeginSite, Hold, HierarchyInv, UnitRows, IsForest, SitesBelong, UnitBelongs
<1>2. CASE CommitSite(q)
  <2>1. SitesBelong'
    BY <1>2 DEF CommitSite, ValidSite, With, HierarchyInv, SitesBelong, UnitBelongs
  <2> QED
    BY <1>2, <2>1, TurnIsGivenBack
       DEF CommitSite, Respond, HierarchyInv, UnitRows, IsForest
<1> QED
  BY <1>1, <1>2 DEF ServeSites, CreateSite, UpdateSite

LEMMA Administered ==
  ASSUME HierarchyInv, Administer
  PROVE  HierarchyInv'
<1>1. UNCHANGED <<units, pending>>
  BY DEF Administer, DeleteSite, CreateCustomer, UpdateCustomer, DeleteCustomer,
         CreateReferenceRecord, DeleteReferenceRecord
<1>2. SitesBelong'
  BY DEF Administer, DeleteSite, Without, CreateCustomer, UpdateCustomer, DeleteCustomer,
         CreateReferenceRecord, DeleteReferenceRecord, HierarchyInv, SitesBelong, UnitBelongs
<1> QED
  BY <1>1, <1>2 DEF HierarchyInv, UnitRows, IsForest, TakingTurns, AsksForUnit, Rests, Hangs, Apart, Own, IsClosed

LEMMA HierarchyStep ==
  ASSUME HierarchyInv, [HierarchyNext]_hierarchyVars
  PROVE  HierarchyInv'
<1>1. CASE UNCHANGED hierarchyVars
  BY <1>1 DEF hierarchyVars, HierarchyInv, UnitRows, IsForest, TakingTurns, SitesBelong, UnitBelongs,
              AsksForUnit, Rests, Hangs, Apart, Own, IsClosed
<1>2. ASSUME NEW q \in Requests, ServeUnits(q)
      PROVE  HierarchyInv'
  BY <1>2, BeginsOfUnits, UnitIsWritten DEF ServeUnits
<1> QED
  BY <1>1, <1>2, SitesOfRequests, Administered DEF HierarchyNext

\* Whatever requests create and move the units of a customer at the same time,
\* no unit ever comes to stand above itself, and parents and sites stay with
\* their customer (organization-unit-store.ts, the lock in validate).
THEOREM NoUnitAboveItself == HierarchySpec => []UnitsFormAForest
<1>1. HierarchyInit => HierarchyInv
  BY DEF HierarchyInit, HierarchyInv, UnitRows, IsForest, TakingTurns, SitesBelong, AsksForUnit, Rests
<1> QED
  BY <1>1, HierarchyStep, ForestOfUnits, PTL DEF HierarchySpec
-----------------------------------------------------------------------------
(* Devices.                                                                  *)

Settled(row) == row.site # None => Home[row.site] = row.customer
IsRow(row) == row = [f \in DeviceFields \cup {"stamp"} |-> row[f]]

\* The audit event of a repair: while the device has the stamp of the repair, it
\* differs from the row the repair found in its link alone.
Repaired(p, table, now) ==
  /\ p = [device |-> p.device, before |-> p.before, after |-> p.after, stamp |-> p.stamp, undone |-> p.undone]
  /\ p.stamp \in 0 .. now /\ IsRow(p.before)
  /\ (p.device \in DOMAIN table /\ table[p.device].stamp = p.stamp) =>
       \A f \in DeviceFields : table[p.device][f] = IF f = "release" THEN p.after ELSE p.before[f]

RowsAreSettled ==
  /\ clock \in Nat
  /\ \A d \in DOMAIN devices :
       IsRow(devices[d]) /\ devices[d].stamp \in 0 .. clock /\ Settled(devices[d])
RepairsAreKept == (\E S : repairs \in Seq(S)) /\ \A i \in DOMAIN repairs : Repaired(repairs[i], devices, clock)

\* What an editor is about to write was checked as a whole, and is written as a whole.
EditsAreSettled ==
  /\ edit = [e \in Editors |-> edit[e]]
  /\ \A e \in Editors : edit[e] # None =>
       /\ edit[e] = [kind |-> edit[e].kind, id |-> edit[e].id, patch |-> edit[e].patch,
                     was |-> edit[e].was, row |-> edit[e].row]
       /\ edit[e].kind = "device" => Settled(edit[e].row)
ShownIsOffered == (shown # None /\ shown.kind = "bulk") => shown.operation \in Operations

DevicesInv == RowsAreSettled /\ RepairsAreKept /\ EditsAreSettled /\ ShownIsOffered

LEMMA StampedRow ==
  ASSUME NEW row
  PROVE  /\ IsRow(Stamped(row)) /\ Stamped(row).stamp = clock + 1
         /\ \A f \in DeviceFields : Stamped(row)[f] = row[f]
         /\ Settled(row) => Settled(Stamped(row))
<1>1. \A f \in DeviceFields : f # "stamp"
  BY DEF DeviceFields
<1>2. /\ IsRow(Stamped(row)) /\ Stamped(row).stamp = clock + 1
      /\ \A f \in DeviceFields : Stamped(row)[f] = row[f]
  BY <1>1 DEF Stamped, IsRow
<1>3. Stamped(row).site = row.site /\ Stamped(row).customer = row.customer
  BY <1>2 DEF DeviceFields
<1> QED
  BY <1>2, <1>3 DEF Settled

\* A row that is written has a stamp no repair has.
Fresh(row) == IsRow(row) /\ row.stamp = clock + 1 /\ Settled(row)
LEMMA FreshRow ==
  ASSUME NEW row, Settled(row)
  PROVE  Fresh(Stamped(row))
  BY StampedRow DEF Fresh

LEMMA WritesKeepRows ==
  ASSUME RowsAreSettled, clock' = clock + 1,
         \A d \in DOMAIN devices' : (d \in DOMAIN devices /\ devices'[d] = devices[d]) \/ Fresh(devices'[d])
  PROVE  /\ RowsAreSettled'
         /\ \A p : Repaired(p, devices, clock) => Repaired(p, devices', clock')
<1>1. RowsAreSettled'
  BY DEF RowsAreSettled, Fresh, IsRow, Settled
<1>2. ASSUME NEW p, Repaired(p, devices, clock)
      PROVE  Repaired(p, devices', clock')
  <2>1. p.stamp \in 0 .. clock /\ p.stamp \in 0 .. clock'
    BY <1>2 DEF Repaired, RowsAreSettled
  <2>2. ASSUME p.device \in DOMAIN devices', devices'[p.device].stamp = p.stamp
        PROVE  p.device \in DOMAIN devices /\ devices'[p.device] = devices[p.device]
    BY <2>1, <2>2 DEF Fresh, RowsAreSettled
  <2> QED
    BY <1>2, <2>1, <2>2 DEF Repaired
<1> QED
  BY <1>1, <1>2

LEMMA OneRowIsWritten ==
  ASSUME RowsAreSettled, NEW d, NEW row, Settled(row), devices' = Write(d, row), clock' = clock + 1
  PROVE  /\ RowsAreSettled'
         /\ \A p : Repaired(p, devices, clock) => Repaired(p, devices', clock')
<1>1. /\ DOMAIN devices' = DOMAIN devices \cup {d} /\ devices'[d] = Stamped(row)
      /\ \A k \in DOMAIN devices \ {d} : devices'[k] = devices[k]
  BY DEF Write, With
<1>2. Fresh(Stamped(row))
  BY FreshRow
<1> QED
  BY <1>1, <1>2, WritesKeepRows

LEMMA DeletionsKeepRows ==
  ASSUME RowsAreSettled, NEW d, devices' = Without(devices, d), UNCHANGED clock
  PROVE  /\ RowsAreSettled'
         /\ \A p : Repaired(p, devices, clock) => Repaired(p, devices', clock')
<1>1. /\ DOMAIN devices' = DOMAIN devices \ {d}
      /\ \A k \in DOMAIN devices' : devices'[k] = devices[k]
  BY DEF Without
<1> QED
  BY <1>1 DEF RowsAreSettled, Repaired

LEMMA EditIsHeld ==
  ASSUME EditsAreSettled, NEW e \in Editors, NEW x, edit' = [edit EXCEPT ![e] = x],
         x # None => /\ x = [kind |-> x.kind, id |-> x.id, patch |-> x.patch, was |-> x.was, row |-> x.row]
                     /\ x.kind = "device" => Settled(x.row)
  PROVE  EditsAreSettled'
  BY DEF EditsAreSettled

LEMMA IntentIsHeld ==
  ASSUME EditsAreSettled, NEW e \in Editors, NEW kind, NEW id, NEW patch, NEW was, NEW row,
         Intend(e, kind, id, patch, was, row), kind = "device" => Settled(row)
  PROVE  EditsAreSettled'
<1> DEFINE x == [kind |-> kind, id |-> id, patch |-> patch, was |-> was, row |-> row]
<1>1. x.kind = kind /\ x.row = row
      /\ x = [kind |-> x.kind, id |-> x.id, patch |-> x.patch, was |-> x.was, row |-> x.row]
  OBVIOUS
<1>2. edit' = [edit EXCEPT ![e] = x]
  BY DEF Intend
<1> HIDE DEF x
<1> QED
  BY <1>1, <1>2, EditIsHeld

LEMMA EditIsDropped ==
  ASSUME EditsAreSettled, NEW e \in Editors, Drop(e)
  PROVE  EditsAreSettled'
  BY EditIsHeld DEF Drop

\* Nothing that is written or shown.
LEMMA RowsRest ==
  ASSUME DevicesInv, UNCHANGED <<devices, clock, repairs, shown>>
  PROVE  RowsAreSettled' /\ RepairsAreKept' /\ ShownIsOffered'
  BY DEF DevicesInv, RowsAreSettled, RepairsAreKept, ShownIsOffered

\* What a request checks of a row.
LEMMA ReferencesSettle ==
  ASSUME NEW row, References(row)
  PROVE  Settled(row)
  BY DEF References, SiteBelongs, Settled

LEMMA DeviceIsEdited ==
  ASSUME DevicesInv, NEW e \in Editors, EditDevices(e)
  PROVE  DevicesInv'
<1>1. ASSUME NEW d, NEW row, BeginCreate(e, d, row)
      PROVE  DevicesInv'
  <2>1. EditsAreSettled'
    BY <1>1, ReferencesSettle, IntentIsHeld DEF BeginCreate, DevicesInv
  <2> QED
    BY <1>1, <2>1, RowsRest DEF BeginCreate, DevicesInv
<1>2. ASSUME NEW d, NEW patch, BeginEdit(e, d, patch)
      PROVE  DevicesInv'
  <2> DEFINE row == Over(patch, Content(devices[d]))
  <2>1. References(row) /\ Intend(e, "device", d, patch, Content(devices[d]), row)
    BY <1>2 DEF BeginEdit
  <2> HIDE DEF row
  <2>2. EditsAreSettled'
    BY <2>1, ReferencesSettle, IntentIsHeld DEF DevicesInv
  <2> QED
    BY <1>2, <2>2, RowsRest DEF BeginEdit, DevicesInv
<1>3. CASE CommitDevice(e)
  <2>1. /\ EditsAreSettled' /\ UNCHANGED <<shown, repairs>>
        /\ edit[e] # None /\ edit[e].kind = "device"
    BY <1>3, EditIsDropped DEF CommitDevice, DevicesInv
  <2>2. Settled(EditedRow(e))
    BY <2>1 DEF EditedRow, DevicesInv, EditsAreSettled
  <2>3. CASE UNCHANGED <<devices, clock>>
    BY <2>1, <2>3, RowsRest DEF DevicesInv
  <2>4. CASE devices' = Write(edit[e].id, EditedRow(e)) /\ clock' = clock + 1
    BY <2>1, <2>2, <2>4, OneRowIsWritten DEF DevicesInv, RepairsAreKept, ShownIsOffered
  <2> QED
    BY <1>3, <2>3, <2>4 DEF CommitDevice
<1> QED
  BY <1>1, <1>2, <1>3 DEF EditDevices

LEMMA CatalogIsEdited ==
  ASSUME DevicesInv, NEW e \in Editors, EditCatalog(e)
  PROVE  DevicesInv'
<1>1. UNCHANGED <<devices, clock, repairs, shown>>
  BY DEF EditCatalog, BeginModel, BeginNewModel, CommitModel, SyncSupportedPlatforms, BeginFamily, CommitFamily
<1>2. ASSUME NEW kind, NEW id, NEW patch, NEW was, NEW row,
             Intend(e, kind, id, patch, was, row), kind # "device"
      PROVE  EditsAreSettled'
  BY <1>2, IntentIsHeld DEF DevicesInv
<1>3. ASSUME Drop(e)
      PROVE  EditsAreSettled'
  BY <1>3, EditIsDropped DEF DevicesInv
<1>4. ASSUME edit[e] # None, edit' = [edit EXCEPT ![e].kind = "support"]
      PROVE  EditsAreSettled'
  BY <1>4 DEF DevicesInv, EditsAreSettled
<1>5. ASSUME CommitModel(e)
      PROVE  EditsAreSettled'
  BY <1>5, <1>3, <1>4 DEF CommitModel, Drop
<1>6. EditsAreSettled'
  BY <1>2, <1>3, <1>5 DEF EditCatalog, BeginModel, BeginNewModel, SyncSupportedPlatforms, BeginFamily, CommitFamily
<1> QED
  BY <1>1, <1>6, RowsRest DEF DevicesInv

\* A bulk change keeps the devices at sites of their customers.
LEMMA BulkRowSettles ==
  ASSUME NEW operation \in Operations, NEW target, NEW rows, NEW d \in DOMAIN rows,
         BulkAllowed(rows, operation, target), IsRow(rows[d]), Settled(rows[d])
  PROVE  Settled(BulkRow(rows[d], operation, target))
<1>1. CASE operation \in {"ARCHIVE", "ACTIVATE", "SET_MODEL"}
  BY <1>1 DEF BulkRow, IsRow, Settled, DeviceFields
<1>2. CASE operation = "SET_CUSTOMER"
  BY <1>2 DEF BulkRow, IsRow, Settled, DeviceFields
<1>3. CASE operation = "SET_SITE"
  <2>1. rows[d].customer = Home[target]
    BY <1>3 DEF BulkAllowed
  <2> QED
    BY <1>3, <2>1 DEF BulkRow, IsRow, Settled, DeviceFields
<1> QED
  BY <1>1, <1>2, <1>3 DEF Operations

LEMMA PreviewsAndChanges ==
  ASSUME DevicesInv, Maintain
  PROVE  DevicesInv'
<1>1. ASSUME NEW selected, NEW change \in BulkChanges, PreviewBulk(selected, change)
      PROVE  DevicesInv'
  <2>1. UNCHANGED <<devices, clock, repairs, edit>> /\ ShownIsOffered'
    BY <1>1, DevicesAssumption DEF PreviewBulk, ShownIsOffered
  <2> QED
    BY <2>1 DEF DevicesInv, RowsAreSettled, RepairsAreKept, EditsAreSettled
<1>2. CASE DropPreview
  BY <1>2 DEF DropPreview, DevicesInv, RowsAreSettled, RepairsAreKept, EditsAreSettled, ShownIsOffered
<1>3. CASE ApplyBulk
  <2> DEFINE rows == [d \in DOMAIN shown.rows |-> devices[d]]
             new(d) == BulkRow(devices[d], shown.operation, shown.target)
  <2>1. /\ shown # None /\ shown.kind = "bulk" /\ shown' = None /\ clock' = clock + 1
        /\ UNCHANGED <<repairs, edit>> /\ BulkAllowed(rows, shown.operation, shown.target)
        /\ devices' = [d \in DOMAIN devices |-> IF d \in BulkChanged(shown) THEN Stamped(new(d)) ELSE devices[d]]
    BY <1>3 DEF ApplyBulk
  <2>2. ASSUME NEW d \in BulkChanged(shown), d \in DOMAIN devices
        PROVE  Fresh(Stamped(new(d)))
    <3>1. shown.operation \in Operations /\ IsRow(devices[d]) /\ Settled(devices[d])
      BY <2>1, <2>2 DEF DevicesInv, ShownIsOffered, RowsAreSettled
    <3>2. d \in DOMAIN rows /\ rows[d] = devices[d]
      BY DEF BulkChanged
    <3> HIDE DEF rows
    <3>3. Settled(new(d))
      BY <2>1, <3>1, <3>2, BulkRowSettles
    <3> QED
      BY <3>3, FreshRow
  <2>3. RowsAreSettled' /\ \A p : Repaired(p, devices, clock) => Repaired(p, devices', clock')
    BY <2>1, <2>2, WritesKeepRows DEF DevicesInv
  <2> QED
    BY <2>1, <2>3 DEF DevicesInv, RepairsAreKept, EditsAreSettled, ShownIsOffered
<1> QED
  BY <1>1, <1>2, <1>3 DEF Maintain

\* A repair writes the link alone.
LEMMA RelinkedRow ==
  ASSUME NEW row, IsRow(row), NEW r
  PROVE  /\ IsRow([row EXCEPT !.release = r])
         /\ Settled(row) => Settled([row EXCEPT !.release = r])
         /\ \A f \in DeviceFields : [row EXCEPT !.release = r][f] = IF f = "release" THEN r ELSE row[f]
  BY DEF IsRow, Settled, DeviceFields

LEMMA RepairIsApplied ==
  ASSUME DevicesInv, ApplyRepair
  PROVE  DevicesInv'
<1> DEFINE d == shown.device  row == devices[d]  linked == [row EXCEPT !.release = shown.target]
           p == [device |-> d, before |-> row, after |-> shown.target, stamp |-> clock + 1, undone |-> FALSE]
<1>1. /\ d \in DOMAIN devices /\ devices' = Write(d, linked) /\ clock' = clock + 1
      /\ repairs' = Append(repairs, p) /\ shown' = None /\ UNCHANGED edit
  BY DEF ApplyRepair
<1>2. IsRow(row) /\ Settled(row)
  BY <1>1 DEF DevicesInv, RowsAreSettled
<1> HIDE DEF row
<1>3. /\ Settled(linked)
      /\ \A f \in DeviceFields : linked[f] = IF f = "release" THEN shown.target ELSE row[f]
  BY <1>2, RelinkedRow
<1> HIDE DEF linked
<1>4. RowsAreSettled' /\ \A q : Repaired(q, devices, clock) => Repaired(q, devices', clock')
  BY <1>1, <1>3, OneRowIsWritten DEF DevicesInv
<1>5. Repaired(p, devices', clock')
  <2>1. devices'[d] = Stamped(linked)
    BY <1>1 DEF Write, With
  <2>2. \A f \in DeviceFields : devices'[d][f] = IF f = "release" THEN shown.target ELSE row[f]
    BY <1>3, <2>1, StampedRow
  <2>3. clock + 1 \in 0 .. clock'
    BY <1>1 DEF DevicesInv, RowsAreSettled
  <2>4. /\ p.device = d /\ p.before = row /\ p.after = shown.target /\ p.stamp = clock + 1
        /\ p = [device |-> p.device, before |-> p.before, after |-> p.after, stamp |-> p.stamp, undone |-> p.undone]
    OBVIOUS
  <2> HIDE DEF p, d
  <2> QED
    BY <1>2, <2>2, <2>3, <2>4 DEF Repaired
<1> HIDE DEF p, d
<1>6. RepairsAreKept'
  <2>1. PICK S : repairs \in Seq(S)
    BY DEF DevicesInv, RepairsAreKept
  <2>2. repairs \in Seq(S \cup {p})
    BY <2>1
  <2>3. /\ repairs' \in Seq(S \cup {p}) /\ repairs'[Len(repairs) + 1] = p
        /\ DOMAIN repairs' = 1 .. Len(repairs) + 1 /\ DOMAIN repairs = 1 .. Len(repairs) /\ Len(repairs) \in Nat
        /\ \A i \in DOMAIN repairs : repairs'[i] = repairs[i]
    BY <1>1, <2>2
  <2>4. ASSUME NEW i \in DOMAIN repairs'
        PROVE  Repaired(repairs'[i], devices', clock')
    <3>1. CASE i = Len(repairs) + 1
      BY <1>5, <2>3, <3>1
    <3>2. CASE i \in DOMAIN repairs
      BY <1>4, <2>3, <3>2 DEF DevicesInv, RepairsAreKept
    <3> QED
      BY <2>3, <2>4, <3>1, <3>2
  <2> QED
    BY <2>3, <2>4 DEF RepairsAreKept
<1> QED
  BY <1>1, <1>4, <1>6 DEF DevicesInv, EditsAreSettled, ShownIsOffered

LEMMA UndoneRepair ==
  ASSUME NEW q, NEW table, NEW now, NEW v, Repaired(q, table, now)
  PROVE  Repaired([q EXCEPT !.undone = v], table, now)
<1> DEFINE p == [q EXCEPT !.undone = v]
<1>1. PICK device, before, after, stamp, undone :
        q = [device |-> device, before |-> before, after |-> after, stamp |-> stamp, undone |-> undone]
  BY DEF Repaired
<1>2. p = [device |-> device, before |-> before, after |-> after, stamp |-> stamp, undone |-> v]
  BY <1>1
<1> HIDE DEF p
<1>3. Repaired(p, table, now)
  BY <1>1, <1>2 DEF Repaired
<1> QED
  BY <1>3 DEF p

LEMMA RepairIsRolledBack ==
  ASSUME DevicesInv, NEW i \in DOMAIN repairs, Rollback(i)
  PROVE  DevicesInv'
<1> DEFINE d == repairs[i].device  row == devices[d]  linked == [row EXCEPT !.release = repairs[i].before.release]
<1>1. /\ d \in DOMAIN devices /\ devices' = Write(d, linked) /\ clock' = clock + 1
      /\ repairs' = [repairs EXCEPT ![i].undone = TRUE] /\ UNCHANGED <<edit, shown>>
  BY DEF Rollback, Untouched
<1>2. IsRow(row) /\ Settled(row)
  BY <1>1 DEF DevicesInv, RowsAreSettled
<1> HIDE DEF row
<1>3. Settled(linked)
  BY <1>2, RelinkedRow
<1> HIDE DEF linked, d
<1>4. RowsAreSettled' /\ \A q : Repaired(q, devices, clock) => Repaired(q, devices', clock')
  BY <1>1, <1>3, OneRowIsWritten DEF DevicesInv
<1>5. PICK S : repairs \in Seq(S)
  BY DEF DevicesInv, RepairsAreKept
<1> DEFINE p == [repairs[i] EXCEPT !.undone = TRUE]
<1>6. /\ repairs' \in Seq(S \cup {p}) /\ DOMAIN repairs' = DOMAIN repairs
      /\ repairs'[i] = p /\ \A j \in DOMAIN repairs \ {i} : repairs'[j] = repairs[j]
  BY <1>1, <1>5
<1>7. Repaired(p, devices', clock')
  <2>1. Repaired(repairs[i], devices', clock')
    BY <1>4 DEF DevicesInv, RepairsAreKept
  <2> QED
    BY <2>1, UndoneRepair, Zenon
<1> HIDE DEF p
<1>8. RepairsAreKept'
  BY <1>4, <1>6, <1>7 DEF DevicesInv, RepairsAreKept
<1> QED
  BY <1>1, <1>4, <1>8 DEF DevicesInv, EditsAreSettled, ShownIsOffered

LEMMA RepairSteps ==
  ASSUME DevicesInv, Repair
  PROVE  DevicesInv'
<1>1. ASSUME NEW d, NEW r, NEW manual, PreviewRepair(d, r, manual)
      PROVE  DevicesInv'
  <2>1. UNCHANGED <<devices, clock, repairs, edit>> /\ ShownIsOffered'
    BY <1>1 DEF PreviewRepair, ShownIsOffered
  <2> QED
    BY <2>1 DEF DevicesInv, RowsAreSettled, RepairsAreKept, EditsAreSettled
<1> QED
  BY <1>1, RepairIsApplied, RepairIsRolledBack DEF Repair

LEMMA Removals ==
  ASSUME DevicesInv, Remove \/ Add
  PROVE  DevicesInv'
<1>1. ASSUME NEW d \in DOMAIN devices, DeleteDevice(d)
      PROVE  DevicesInv'
  <2>1. devices' = Without(devices, d) /\ UNCHANGED <<clock, repairs, edit, shown>>
    BY <1>1 DEF DeleteDevice
  <2>2. RowsAreSettled' /\ \A p : Repaired(p, devices, clock) => Repaired(p, devices', clock')
    BY <2>1, DeletionsKeepRows DEF DevicesInv
  <2> QED
    BY <2>1, <2>2 DEF DevicesInv, RepairsAreKept, EditsAreSettled, ShownIsOffered
<1>2. ASSUME UNCHANGED <<devices, clock, repairs, edit, shown>>
      PROVE  DevicesInv'
  BY <1>2 DEF DevicesInv, RowsAreSettled, RepairsAreKept, EditsAreSettled, ShownIsOffered
<1> QED
  BY <1>1, <1>2 DEF Remove, Add, DeleteModel, DeleteFamily, CreateFamily

LEMMA DevicesStep ==
  ASSUME DevicesInv, [DevicesNext]_deviceVars
  PROVE  DevicesInv'
<1>1. CASE UNCHANGED deviceVars
  BY <1>1 DEF deviceVars, DevicesInv, RowsAreSettled, RepairsAreKept, EditsAreSettled, ShownIsOffered
<1> QED
  BY <1>1, DeviceIsEdited, CatalogIsEdited, PreviewsAndChanges, RepairSteps, Removals DEF DevicesNext

LEMMA FirstDevices ==
  ASSUME DevicesInit
  PROVE  DevicesInv
<1>1. ASSUME NEW d \in DOMAIN devices
      PROVE  IsRow(devices[d]) /\ devices[d].stamp = 0 /\ Settled(devices[d])
  <2>1. /\ d \in DOMAIN AllDevices \ Unborn
        /\ devices[d] = [f \in DeviceFields \cup {"stamp"} |-> IF f = "stamp" THEN 0 ELSE AllDevices[d][f]]
    BY DEF DevicesInit
  <2>2. devices[d].site = AllDevices[d].site /\ devices[d].customer = AllDevices[d].customer
    BY <2>1 DEF DeviceFields
  <2> QED
    BY <2>1, <2>2, DevicesAssumption DEF IsRow, Settled
<1>2. repairs \in Seq({}) /\ DOMAIN repairs = {}
  BY DEF DevicesInit
<1>3. RepairsAreKept
  BY <1>2 DEF RepairsAreKept
<1>4. RowsAreSettled
  <2>1. clock = 0
    BY DEF DevicesInit
  <2> QED
    BY <1>1, <2>1 DEF RowsAreSettled
<1>5. EditsAreSettled /\ ShownIsOffered
  BY DEF DevicesInit, EditsAreSettled, ShownIsOffered
<1> QED
  BY <1>3, <1>4, <1>5 DEF DevicesInv

\* Whatever edits, bulk changes, repairs and rollbacks cross, a device stands at
\* a site of its customer: the row an edit writes is one that was checked as a
\* whole, and a bulk change is judged again when it is applied.
THEOREM DevicesStayAtHome == DevicesSpec => []SitesStayWithTheirCustomer
<1>1. DevicesInv => SitesStayWithTheirCustomer
  BY DEF DevicesInv, RowsAreSettled, Settled, SitesStayWithTheirCustomer
<1> QED
  BY <1>1, FirstDevices, DevicesStep, PTL DEF DevicesSpec
-----------------------------------------------------------------------------
(* What was shown is what is written.                                        *)

LEMMA RewrittenRow ==
  ASSUME NEW d, NEW row, devices'[d] = Stamped(row)
  PROVE  Rewrites(d, row)
  BY StampedRow DEF Rewrites, Content

LEMMA BulkIsExact ==
  ASSUME DevicesInv, ApplyBulk
  PROVE  ReviewedChange
<1> DEFINE new(d) == BulkRow(devices[d], shown.operation, shown.target)
<1>1. /\ shown # None /\ shown.kind = "bulk" /\ StillAsShown(shown) /\ UNCHANGED repairs
      /\ devices' = [d \in DOMAIN devices |-> IF d \in BulkChanged(shown) THEN Stamped(new(d)) ELSE devices[d]]
  BY DEF ApplyBulk
<1>2. ASSUME NEW d \in DOMAIN devices, d \in DOMAIN shown.rows
      PROVE  Rewrites(d, BulkRow(shown.rows[d], shown.operation, shown.target))
  <2>1. shown.rows[d] = devices[d]
    BY <1>1, <1>2 DEF StillAsShown
  <2>2. CASE d \in BulkChanged(shown)
    BY <1>1, <2>1, <2>2, RewrittenRow
  <2>3. CASE d \notin BulkChanged(shown)
    BY <1>1, <1>2, <2>1, <2>3 DEF BulkChanged, Rewrites
  <2> QED
    BY <2>2, <2>3
<1>3. \A d \in DOMAIN devices : d \notin DOMAIN shown.rows => devices'[d] = devices[d]
  BY <1>1 DEF BulkChanged
<1> QED
  BY <1>1, <1>2, <1>3 DEF ReviewedChange

LEMMA RepairIsExact ==
  ASSUME DevicesInv, ApplyRepair
  PROVE  ReviewedChange
<1> DEFINE d == shown.device  linked == [devices[d] EXCEPT !.release = shown.target]
<1>1. /\ shown.kind = "repair" /\ devices' = Write(d, linked)
  BY DEF ApplyRepair
<1>2. devices'[d] = Stamped(linked)
  BY <1>1 DEF Write, With
<1>3. Rewrites(d, linked)
  BY <1>2, RewrittenRow
<1>4. \A i \in DOMAIN repairs : repairs'[i] = repairs[i]
  <2>1. PICK S : repairs \in Seq(S)
    BY DEF DevicesInv, RepairsAreKept
  <2>2. PICK p : repairs' = Append(repairs, p)
    BY DEF ApplyRepair
  <2>3. repairs \in Seq(S \cup {p})
    BY <2>1
  <2> QED
    BY <2>2, <2>3
<1> QED
  BY <1>1, <1>3, <1>4 DEF ReviewedChange

LEMMA RollbackIsExact ==
  ASSUME DevicesInv, NEW i \in DOMAIN repairs, Rollback(i)
  PROVE  ReviewedChange
<1> DEFINE p == repairs[i]  d == p.device  linked == [devices[d] EXCEPT !.release = p.before.release]
<1>1. /\ Untouched(p) /\ devices' = Write(d, linked)
      /\ repairs' = [repairs EXCEPT ![i].undone = TRUE] /\ UNCHANGED shown
  BY DEF Rollback
<1>2. /\ Repaired(p, devices, clock) /\ IsRow(devices[d])
      /\ \A f \in DeviceFields : devices[d][f] = IF f = "release" THEN p.after ELSE p.before[f]
  BY <1>1 DEF Untouched, DevicesInv, RepairsAreKept, RowsAreSettled, Repaired
<1>3. \A f \in DeviceFields : linked[f] = p.before[f]
  BY <1>2, RelinkedRow
<1>4. devices'[d] = Stamped(linked)
  BY <1>1 DEF Write, With
<1> HIDE DEF linked
<1>5. Rewrites(d, p.before)
  BY <1>3, <1>4, RewrittenRow DEF Rewrites, Content
<1>6. \A j \in DOMAIN repairs \ {i} : repairs'[j] = repairs[j]
  BY <1>1 DEF DevicesInv, RepairsAreKept
<1> QED
  BY <1>1, <1>5, <1>6 DEF ReviewedChange

LEMMA OtherStepsReviewNothing ==
  ASSUME ~(shown # None /\ shown' = None /\ clock' # clock), UNCHANGED repairs
  PROVE  ReviewedChange
  BY DEF ReviewedChange

\* What an engineer confirms is what happens: a bulk change rewrites the rows
\* that were shown as they were shown and no other, a repair rewrites the link
\* alone, and its rollback restores the row the repair found, whatever was
\* edited in between (applyInventoryBulkMaintenance, applyCanonicalFirmwareRepairs,
\* rollbackCanonicalFirmwareRepair).
THEOREM ChangesAreAsShown == DevicesSpec => ReviewedChangesAreExact
<1>1. ASSUME DevicesInv, DevicesNext
      PROVE  ReviewedChange
  <2>1. ASSUME NEW e \in Editors, EditDevices(e) \/ EditCatalog(e)
        PROVE  ReviewedChange
    <3>1. UNCHANGED <<shown, repairs>>
      BY <2>1 DEF EditDevices, BeginCreate, BeginEdit, CommitDevice, EditCatalog, BeginModel, BeginNewModel,
                  CommitModel, SyncSupportedPlatforms, BeginFamily, CommitFamily
    <3> QED
      BY <3>1, OtherStepsReviewNothing
  <2>2. CASE Maintain
    <3>1. CASE ~ApplyBulk
      BY <2>2, <3>1, OtherStepsReviewNothing DEF Maintain, PreviewBulk, DropPreview
    <3> QED
      BY <1>1, <3>1, BulkIsExact
  <2>3. CASE Repair
    <3>1. ASSUME NEW d, NEW r, NEW manual, PreviewRepair(d, r, manual)
          PROVE  ReviewedChange
      BY <3>1, OtherStepsReviewNothing DEF PreviewRepair
    <3> QED
      BY <1>1, <2>3, <3>1, RepairIsExact, RollbackIsExact DEF Repair
  <2>4. CASE Remove \/ Add
    BY <2>4, OtherStepsReviewNothing DEF Remove, Add, DeleteDevice, DeleteModel, DeleteFamily, CreateFamily
  <2> QED
    BY <1>1, <2>1, <2>2, <2>3, <2>4 DEF DevicesNext
<1>2. ASSUME DevicesInv, [DevicesNext]_deviceVars
      PROVE  [ReviewedChange]_deviceVars
  BY <1>1, <1>2
<1> QED
  BY <1>2, FirstDevices, DevicesStep, PTL DEF DevicesSpec, ReviewedChangesAreExact
-----------------------------------------------------------------------------
(* The two ways to find the release a device should be linked to.            *)

\* For every row of every device, in every state of the catalog, the link that
\* is repaired automatically is the only one an engineer could choose by hand
\* (resolveInventoryFirmwareLink, manualInventoryFirmwareTargets).
THEOREM RepairsAgree == DevicesSpec => []RepairChoicesAgree
<1>1. RepairChoicesAgree
  <2> SUFFICES ASSUME NEW d \in DOMAIN devices
               PROVE  LET row == devices[d]  found == Candidates(row)  offered == ManualTargets(row) IN
                      IF Decision(row) = "MATCHED" THEN offered = found /\ Cardinality(offered) = 1
                      ELSE Cardinality(offered) = 1 => row.release \in found
    BY DEF RepairChoicesAgree
  <2> DEFINE row == devices[d]  found == Candidates(row)  offered == ManualTargets(row)
  <2>1. CASE row.observed = None \/ EvidenceConflicts(row) \/ models[row.model].platforms = {}
    <3>1. Decision(row) # "MATCHED"
      BY <2>1 DEF Decision
    <3>2. offered = {}
      BY <2>1 DEF ManualTargets, FitsModel
    <3> HIDE DEF row, offered
    <3>3. Cardinality(offered) # 1
      BY <3>2, FS_EmptySet
    <3> QED
      BY <3>1, <3>3 DEF row, offered
  <2>2. CASE ~(row.observed = None \/ EvidenceConflicts(row) \/ models[row.model].platforms = {})
    <3>1. Decision(row) = Judged(row, found)
      BY <2>2 DEF Decision
    <3>2. offered = found \ {row.release}
      BY <2>2 DEF ManualTargets, Candidates
    <3> HIDE DEF row, offered, found
    <3>3. Decision(row) = "MATCHED" <=> row.release \notin found /\ Cardinality(found) = 1
      BY <3>1 DEF Judged
    <3>4. row.release \notin found => offered = found
      BY <3>2
    <3>5. IF Decision(row) = "MATCHED" THEN offered = found /\ Cardinality(offered) = 1
          ELSE Cardinality(offered) = 1 => row.release \in found
      BY <3>3, <3>4
    <3> QED
      BY <3>5 DEF row, offered, found
  <2> QED
    BY <2>1, <2>2
<1> QED
  BY <1>1, PTL
=============================================================================
