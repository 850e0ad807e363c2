---------------------------- MODULE ControlPlane ----------------------------
(* The control plane's tables as src/core/provider_store.rs and              *)
(* src/core/customer_store.rs keep them: providers that belong to everybody  *)
(* or to one customer, never removed but marked as deleted, and the          *)
(* bootstrap of src/proxy/server.rs, which every proxy runs at each start    *)
(* and which offers the manifests on its disk to the table, one statement    *)
(* per manifest, while other proxies do the same and operators edit.         *)
(*                                                                           *)
(* The `enabled` column is left out: every insertion sets it and no function *)
(* of the stores clears it. Handlers and typed columns are one configuration *)
(* value.                                                                    *)
EXTENDS Naturals, FiniteSets

CONSTANTS
    Proxies,       \* proxies that start and stop against one database
    ProviderNames, \* names of providers
    Customers,     \* identifiers of customers
    Toml,          \* Toml[p] : the manifests of p's disk: a name to its configuration
    Internal,      \* names of manifests marked `internal`
    Misnamed,      \* names that the table's pattern refuses
    Edited,        \* configurations that operators write
    MaxRows        \* rows the table may come to hold

Shared == "shared"   \* customer_id IS NULL

ControlPlaneAssumption == Shared \notin Customers

VARIABLES
    rows,      \* the rows of ati_providers
    customers, \* customers[c] : "absent", "live" or "deleted"
    up,        \* the proxies that have started
    offers,    \* offers[p] : the names p has still to offer to the table
    was        \* history: the shared names that ever had a live row

controlVars == <<rows, customers, up, offers, was>>

(***************************************************************************)
(* Queries                                                                 *)
(***************************************************************************)
Live(owner, name) == {r \in rows : r.live /\ r.owner = owner /\ r.name = name}

\* A mutation: ORDER BY customer_id NULLS FIRST.
SharedFirst(c, name) ==
    IF Live(Shared, name) # {} THEN Live(Shared, name) ELSE Live(c, name)

\* `customer_id = $2 OR customer_id IS NULL ... ORDER BY customer_id NULLS LAST`
ResolveForCustomer(c, name) ==
    IF Live(c, name) # {} THEN Live(c, name) ELSE Live(Shared, name)

\* DISTINCT ON (name): of the rows a customer may see, no other of the name comes first.
ListVisible(c) ==
    LET seen == {r \in rows : r.live /\ r.owner \in {c, Shared}}
        before(r, s) == r.name = s.name /\ r.owner = c /\ s.owner # c
    IN  {s \in seen : ~\E r \in seen : before(r, s)}

\* The unique index over live rows, and the CHECK and foreign key of the table.
Accepts(owner, name) ==
    /\ name \notin Misnamed
    /\ owner # Shared => customers[owner] # "absent"
    /\ Live(owner, name) = {}

Row(owner, name, config, source) ==
    [id |-> Cardinality(rows) + 1, owner |-> owner, name |-> name, config |-> config,
     source |-> source, live |-> TRUE]

(***************************************************************************)
(* Operators                                                               *)
(***************************************************************************)
CreateCustomer(c) ==
    /\ customers[c] = "absent"          \* a deleted row keeps its primary key
    /\ customers' = [customers EXCEPT ![c] = "live"]
    /\ UNCHANGED <<rows, up, offers, was>>

DeleteCustomer(c) ==
    /\ customers[c] = "live"
    /\ customers' = [customers EXCEPT ![c] = "deleted"]
    /\ UNCHANGED <<rows, up, offers, was>>

CreateProvider(owner, name, config) ==
    /\ Cardinality(rows) < MaxRows
    /\ Accepts(owner, name)
    /\ rows' = rows \cup {Row(owner, name, config, "admin")}
    /\ was' = IF owner = Shared THEN was \cup {name} ELSE was
    /\ UNCHANGED <<customers, up, offers>>

\* deleted_at = NOW()
Deleted(r) ==
    [id |-> r.id, owner |-> r.owner, name |-> r.name, config |-> r.config, source |-> r.source,
     live |-> FALSE]

DeleteProvider(id) ==
    /\ \E r \in rows :
        /\ r.id = id /\ r.live
        /\ rows' = (rows \ {r}) \cup {Deleted(r)}
    /\ UNCHANGED <<customers, up, offers, was>>

(***************************************************************************)
(* The bootstrap of a starting proxy                                       *)
(***************************************************************************)
Start(p) ==
    /\ p \notin up
    /\ up' = up \cup {p}
    /\ offers' = [offers EXCEPT ![p] = (DOMAIN Toml[p]) \ Internal]
    /\ UNCHANGED <<rows, customers, was>>

Offered(p, name) == [offers EXCEPT ![p] = @ \ {name}]

\* A mutation: ON CONFLICT DO UPDATE.
BootstrapOverwrites(name, config) ==
    IF Accepts(Shared, name)
      THEN rows' = rows \cup {Row(Shared, name, config, "toml")} /\ was' = was \cup {name}
      ELSE /\ rows' = {IF r.live /\ r.owner = Shared /\ r.name = name
                         THEN [r EXCEPT !.config = config] ELSE r : r \in rows}
           /\ UNCHANGED was

\* INSERT ... ON CONFLICT (name) WHERE customer_id IS NULL AND deleted_at IS NULL
\* DO NOTHING.
BootstrapShared(name, config) ==
    IF Accepts(Shared, name)
      THEN rows' = rows \cup {Row(Shared, name, config, "toml")} /\ was' = was \cup {name}
      ELSE UNCHANGED <<rows, was>>

\* A failure of one provider is a warning and the loop goes on.
Bootstrap(p, name) ==
    /\ p \in up /\ name \in offers[p]
    /\ Cardinality(rows) < MaxRows
    /\ BootstrapShared(name, Toml[p][name])
    /\ offers' = Offered(p, name)
    /\ UNCHANGED <<customers, up>>

Stop(p) ==
    /\ p \in up
    /\ up' = up \ {p}
    /\ offers' = [offers EXCEPT ![p] = {}]
    /\ UNCHANGED <<rows, customers, was>>

ControlInit ==
    /\ rows = {} /\ was = {}
    /\ customers = [c \in Customers |-> "absent"]
    /\ up = {} /\ offers = [p \in Proxies |-> {}]

ControlNext ==
    \/ \E c \in Customers : CreateCustomer(c) \/ DeleteCustomer(c)
    \/ \E owner \in Customers \cup {Shared}, name \in ProviderNames, config \in Edited :
         CreateProvider(owner, name, config)
    \/ \E id \in 1..MaxRows : DeleteProvider(id)
    \/ \E p \in Proxies : Start(p) \/ Stop(p)
    \/ \E p \in Proxies : \E name \in ProviderNames : Bootstrap(p, name)

ControlSpec == ControlInit /\ [][ControlNext]_controlVars

(***************************************************************************)
(* Properties                                                              *)
(***************************************************************************)
ControlTypeOK ==
    /\ Cardinality(rows) <= MaxRows
    /\ \A r \in rows : r.id \in 1..MaxRows /\ r.name \in ProviderNames \ Misnamed
    /\ was \subseteq ProviderNames
    /\ customers \in [Customers -> {"absent", "live", "deleted"}]
    /\ offers \in [Proxies -> SUBSET ProviderNames]

\* Whatever the order in which proxies and operators write, a customer is
\* shown exactly the rows that a call would resolve for it, one per name:
\* two proxies that bootstrap one name at once leave one row.
OneViewPerCustomer ==
    \A c \in Customers, name \in ProviderNames :
        LET shown == {r \in ListVisible(c) : r.name = name} IN
        shown = ResolveForCustomer(c, name) /\ Cardinality(shown) <= 1

\* A proxy that has started offered every manifest a client may see, those
\* after one that the table refuses included.
StartedIsBootstrapped ==
    \A p \in up : offers[p] = {} => ((DOMAIN Toml[p]) \ Internal) \ Misnamed \subseteq was

\* What is shown is what resolves, and all of the manifests are among it.
TableIsWhole == OneViewPerCustomer /\ StartedIsBootstrapped

\* A restart never changes a row: what an operator wrote stays as it was
\* written until an operator deletes it.
EditsAreKept ==
    [][\A r \in rows : r \in rows' \/ Deleted(r) \in rows']_controlVars

\* What src/migrations/20260512000001_control_plane.sql says of the rows of
\* source `toml`, "created by the one-time bootstrap on first DB connect":
\* a shared provider whose row was deleted is not created by a later start.
DeletedStaysDeleted ==
    [][\A name \in was : Live(Shared, name) = {} =>
         ~\E r \in rows' : r.live /\ r.owner = Shared /\ r.name = name /\ r.source = "toml"]_controlVars
=============================================================================
