------------------------- MODULE InventoryHierarchy -------------------------
(* Customers, their organizational units and their sites, as administrators *)
(* edit them (customer-store.ts, organization-unit-store.ts, site-store.ts, *)
(* reference-data-store.ts).  A request reads and checks in one step and    *)
(* writes in a later one; a change of a unit does both under a lock on its  *)
(* customer.                                                                *)
EXTENDS Tables

CONSTANTS
  Requests,   \* requests in progress
  Contracts, Customers, Units, Sites,   \* ids of the records
  Names,      \* normal forms of names
  UnitEdits, SiteEdits,   \* patches: records with some fields of a row
  Occupied    \* sites with devices or audit records of devices

\* A unit is not moved to another customer: updateOrganizationUnit refuses the
\* patch, and NULL is the id of no unit.
ASSUME HierarchyAssumption ==
  /\ None \notin Units
  /\ \A patch \in UnitEdits : "customer" \notin DOMAIN patch

VARIABLES
  contracts,  \* contract types that exist
  customers,  \* per customer, its contract type or None
  units,      \* per unit, [customer, parent, name, source]
  sites,      \* per site, [customer, unit, contract, name]
  audited,    \* records with audit events of their own
  pending     \* per request, what it is about to write, or None

hierarchyVars == <<contracts, customers, units, sites, audited, pending>>

NewUnit(c, name) == [customer |-> c, parent |-> None, name |-> name, source |-> "MANUAL"]
NewSite(c, name) == [customer |-> c, unit |-> None, contract |-> None, name |-> name]

Rests(q) == pending[q] = None
Pending(kind, id) == \E q \in Requests : ~Rests(q) /\ pending[q].kind = kind /\ pending[q].id = id
Hold(q, kind, id, was, row) == pending' = [pending EXCEPT ![q] = [kind |-> kind, id |-> id, was |-> was, row |-> row]]
Respond(q) == pending' = [pending EXCEPT ![q] = None]

\* SELECT ... FOR UPDATE on the customer, until the transaction ends.
\* A mutant of Locked: units change without the lock.
LockedNever(c) == FALSE
Locked(c) == \E q \in Requests : ~Rests(q) /\ pending[q].kind = "unit" /\ pending[q].row.customer = c
-----------------------------------------------------------------------------
(* Units.                                                                   *)

\* A unit and the parents of it, walked among the units of its customer: what
\* every set contains that has the unit, and with a unit its parent.
Own(table, c) == {v \in DOMAIN table : table[v].customer = c}
IsClosed(S, table, c) == \A v \in S : table[v].parent \in Own(table, c) => table[v].parent \in S
Ancestors(table, c, u) ==
  {v \in Own(table, c) : \A S \in SUBSET Own(table, c) :
     (u \in Own(table, c) => u \in S) /\ IsClosed(S, table, c) => v \in S}

ParentIsSound(u, row) ==
  row.parent # None =>
    /\ row.parent \in DOMAIN units /\ units[row.parent].customer = row.customer
    /\ u \notin Ancestors(units, row.customer, row.parent)

SiblingsDiffer(u, row) ==
  ~\E v \in DOMAIN units \ {u} :
     /\ units[v].customer = row.customer /\ units[v].parent = row.parent /\ units[v].name = row.name

ValidUnit(u, row) == row.customer \in DOMAIN customers /\ ParentIsSound(u, row) /\ SiblingsDiffer(u, row)
KeepsItsOwner(was, row) == was.source = "MANUAL" => row.source = "MANUAL"

BeginUnit(q, u, was, row) ==
  /\ Rests(q) /\ ~Locked(row.customer) /\ ValidUnit(u, row)
  /\ Hold(q, "unit", u, was, row) /\ UNCHANGED <<contracts, customers, units, sites, audited>>
CreateUnit(q, c, u, name) ==
  u \notin DOMAIN units /\ ~Pending("unit", u) /\ BeginUnit(q, u, None, NewUnit(c, name))
UpdateUnit(q, u, patch) ==
  /\ u \in DOMAIN units /\ KeepsItsOwner(units[u], Over(patch, units[u]))
  /\ BeginUnit(q, u, units[u], Over(patch, units[u]))

\* The row and its audit event, in the transaction that holds the lock.
CommitUnit(q) ==
  /\ ~Rests(q) /\ pending[q].kind = "unit"
  /\ LET u == pending[q].id  row == pending[q].row IN
       IF row.customer \in DOMAIN customers /\ SiblingsDiffer(u, row)  \* foreign key, unique index
       THEN units' = With(units, u, row) /\ audited' = audited \cup {u}
       ELSE UNCHANGED <<units, audited>>
  /\ Respond(q) /\ UNCHANGED <<contracts, customers, sites>>
-----------------------------------------------------------------------------
(* Sites.                                                                   *)

ContractExists(k) == k # None => k \in contracts
UnitBelongs(u, c) == u # None => u \in DOMAIN units /\ units[u].customer = c
SiteNameIsFree(s, row) ==
  ~\E t \in DOMAIN sites \ {s} :
     sites[t].customer = row.customer /\ sites[t].unit = row.unit /\ sites[t].name = row.name
ValidSite(s, row) ==
  /\ row.customer \in DOMAIN customers /\ ContractExists(row.contract)
  /\ UnitBelongs(row.unit, row.customer) /\ SiteNameIsFree(s, row)

BeginSite(q, s, was, row) ==
  /\ Rests(q) /\ ValidSite(s, row)
  /\ Hold(q, "site", s, was, row) /\ UNCHANGED <<contracts, customers, units, sites, audited>>
CreateSite(q, c, s, name) ==
  s \notin DOMAIN sites /\ ~Pending("site", s) /\ BeginSite(q, s, None, NewSite(c, name))
UpdateSite(q, s, patch) == s \in DOMAIN sites /\ BeginSite(q, s, sites[s], Over(patch, sites[s]))

\* The whole row as it was read and patched: what another request wrote in
\* between is lost.  Unique indexes and foreign keys are checked again.  A
\* site that leaves the unit it was read in is audited.
CommitSite(q) ==
  /\ ~Rests(q) /\ pending[q].kind = "site"
  /\ LET s == pending[q].id  row == pending[q].row  was == pending[q].was IN
       IF ValidSite(s, row) /\ (was # None => s \in DOMAIN sites)
       THEN /\ sites' = With(sites, s, row)
            /\ audited' = IF was # None /\ was.unit # row.unit THEN audited \cup {s} ELSE audited
       ELSE UNCHANGED <<sites, audited>>
  /\ Respond(q) /\ UNCHANGED <<contracts, customers, units>>

\* References are counted; a foreign key stops what came in between.
DeleteSite(s) ==
  /\ s \in DOMAIN sites /\ s \notin Occupied /\ s \notin audited
  /\ sites' = Without(sites, s) /\ UNCHANGED <<contracts, customers, units, audited, pending>>
-----------------------------------------------------------------------------
(* Customers and contract types.                                            *)

CreateCustomer(c, k) ==
  /\ c \notin DOMAIN customers /\ ContractExists(k)
  /\ customers' = With(customers, c, k) /\ UNCHANGED <<contracts, units, sites, audited, pending>>
UpdateCustomer(c, k) ==
  /\ c \in DOMAIN customers /\ customers[c] # k /\ ContractExists(k)
  /\ customers' = [customers EXCEPT ![c] = k] /\ UNCHANGED <<contracts, units, sites, audited, pending>>

CustomerRecords(c) == {u \in DOMAIN units : units[u].customer = c} \cup {s \in DOMAIN sites : sites[s].customer = c}
DeleteCustomer(c) ==
  /\ c \in DOMAIN customers /\ CustomerRecords(c) = {} /\ c \notin audited /\ ~Locked(c)
  /\ customers' = Without(customers, c) /\ UNCHANGED <<contracts, units, sites, audited, pending>>

CreateReferenceRecord(k) ==
  /\ k \notin contracts /\ contracts' = contracts \cup {k}
  /\ UNCHANGED <<customers, units, sites, audited, pending>>
DeleteReferenceRecord(k) ==
  /\ k \in contracts
  /\ \A c \in DOMAIN customers : customers[c] # k
  /\ \A s \in DOMAIN sites : sites[s].contract # k
  /\ contracts' = contracts \ {k} /\ UNCHANGED <<customers, units, sites, audited, pending>>
-----------------------------------------------------------------------------
HierarchyInit ==
  /\ contracts = Contracts /\ customers = [c \in Customers |-> None]
  /\ units = << >> /\ sites = << >> /\ audited = {}
  /\ pending = [q \in Requests |-> None]

ServeUnits(q) ==
  \/ \E c \in DOMAIN customers, u \in Units, n \in Names : CreateUnit(q, c, u, n)
  \/ \E u \in DOMAIN units, patch \in UnitEdits : UpdateUnit(q, u, patch)
  \/ CommitUnit(q)
ServeSites(q) ==
  \/ \E c \in DOMAIN customers, s \in Sites, n \in Names : CreateSite(q, c, s, n)
  \/ \E s \in DOMAIN sites, patch \in SiteEdits : UpdateSite(q, s, patch)
  \/ CommitSite(q)
Administer ==
  \/ \E s \in DOMAIN sites : DeleteSite(s)
  \/ \E c \in Customers, k \in Contracts \cup {None} : CreateCustomer(c, k) \/ UpdateCustomer(c, k)
  \/ \E c \in Customers : DeleteCustomer(c)
  \/ \E k \in Contracts : CreateReferenceRecord(k) \/ DeleteReferenceRecord(k)

HierarchyNext == (\E q \in Requests : ServeUnits(q) \/ ServeSites(q)) \/ Administer

HierarchySpec == HierarchyInit /\ [][HierarchyNext]_hierarchyVars
-----------------------------------------------------------------------------
\* The units of a customer form a forest, whatever requests move them at the
\* same time: no unit is among the parents of its parent, and parents and
\* sites stay with their customer (organization-unit-store.ts, validate).
UnitsFormAForest ==
  /\ \A u \in DOMAIN units :
       LET v == units[u].parent IN
       v # None => v \in DOMAIN units /\ units[v].customer = units[u].customer
                     /\ u \notin Ancestors(units, units[u].customer, v)
  /\ \A s \in DOMAIN sites : UnitBelongs(sites[s].unit, sites[s].customer)
=============================================================================
