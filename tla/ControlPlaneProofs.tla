------------------------- MODULE ControlPlaneProofs -------------------------
(***************************************************************************)
(* Theorems about what the control plane's database keeps, and about the   *)
(* keyring of a proxy.                                                     *)
(* ControlPlane: for any number of proxies, customers and names, what a    *)
(* customer is shown is what a call resolves for it, one row per name, and *)
(* no start of a proxy changes what an operator wrote.                     *)
(* Envelope: for any number of processes, keys and rows, every process     *)
(* opens every row at every point of a rotation.                           *)
(* KeyringRotation: for any number of rotations at once and one bootstrap  *)
(* at a time, a signalled rotation is in force once the signal was         *)
(* handled, and no write makes the keyring unreadable.                     *)
(***************************************************************************)
EXTENDS ControlPlane, Envelope, KeyringRotation, FiniteSetTheorems, TLAPS

\* The unique indexes of the table.
Unique ==
    \A r, s \in rows : r.live /\ s.live /\ r.owner = s.owner /\ r.name = s.name => r = s

LEMMA UniqueInserted ==
    ASSUME Unique, NEW owner, NEW name, NEW config, NEW source, Accepts(owner, name),
           rows' = rows \cup {Row(owner, name, config, source)}
    PROVE  Unique' /\ rows \subseteq rows'
<1> DEFINE new == Row(owner, name, config, source)
<1>1. new.owner = owner /\ new.name = name
  BY DEF Row
<1>2. \A r \in rows : ~(r.live /\ r.owner = owner /\ r.name = name)
  BY DEF Accepts, Live
<1> HIDE DEF new
<1>3. \A r \in rows' : r \in rows \/ r = new
  BY DEF new
<1> QED
  BY <1>1, <1>2, <1>3 DEF Unique

LEMMA UniqueDeleted ==
    ASSUME Unique, NEW id, DeleteProvider(id)
    PROVE  Unique' /\ \A r \in rows : r \in rows' \/ Deleted(r) \in rows'
<1>1. PICK r \in rows : rows' = (rows \ {r}) \cup {Deleted(r)}
  BY DEF DeleteProvider
<1>2. ~Deleted(r).live
  BY DEF Deleted
<1> QED
  BY <1>1, <1>2 DEF Unique

\* A step keeps every row, or marks it as deleted.
Kept == \A r \in rows : r \in rows' \/ Deleted(r) \in rows'

LEMMA StepKeeps ==
    ASSUME Unique, [ControlNext]_controlVars PROVE Unique' /\ Kept
<1>1. ASSUME UNCHANGED rows PROVE Unique' /\ Kept
  BY <1>1 DEF Unique, Kept
<1>2. ASSUME NEW c \in Customers, CreateCustomer(c) \/ DeleteCustomer(c) PROVE Unique' /\ Kept
  BY <1>1, <1>2 DEF CreateCustomer, DeleteCustomer
<1>3. ASSUME NEW owner, NEW name, NEW config, CreateProvider(owner, name, config)
      PROVE  Unique' /\ Kept
  BY <1>3, UniqueInserted DEF CreateProvider, Kept
<1>4. ASSUME NEW id, DeleteProvider(id) PROVE Unique' /\ Kept
  BY <1>4, UniqueDeleted DEF Kept
<1>5. ASSUME NEW p \in Proxies, Start(p) \/ Stop(p) PROVE Unique' /\ Kept
  BY <1>1, <1>5 DEF Start, Stop
<1>6. ASSUME NEW p \in Proxies, NEW name \in ProviderNames, Bootstrap(p, name) PROVE Unique' /\ Kept
  <2>1. BootstrapShared(name, Toml[p][name])
    BY <1>6 DEF Bootstrap
  <2>2. CASE Accepts(Shared, name)
    BY <2>1, <2>2, UniqueInserted DEF BootstrapShared, Kept
  <2>3. CASE ~Accepts(Shared, name)
    BY <1>1, <2>1, <2>3 DEF BootstrapShared
  <2> QED
    BY <2>2, <2>3
<1>7. CASE UNCHANGED controlVars
  BY <1>1, <1>7 DEF controlVars
<1> QED
  BY <1>2, <1>3, <1>4, <1>5, <1>6, <1>7 DEF ControlNext

\* A customer's own row hides the shared one of its name, in a list and in a call.
LEMMA ViewsAgree ==
    ASSUME ControlPlaneAssumption, Unique PROVE OneViewPerCustomer
<1> SUFFICES ASSUME NEW c \in Customers, NEW name \in ProviderNames
             PROVE  /\ {r \in ListVisible(c) : r.name = name} = ResolveForCustomer(c, name)
                    /\ Cardinality({r \in ListVisible(c) : r.name = name}) <= 1
  BY DEF OneViewPerCustomer
<1>0. c # Shared
  BY DEF ControlPlaneAssumption
<1>1. {r \in ListVisible(c) : r.name = name} = ResolveForCustomer(c, name)
  BY <1>0 DEF ListVisible, ResolveForCustomer, Live
<1>2. \A r, s \in ResolveForCustomer(c, name) : r = s
  BY DEF ResolveForCustomer, Live, Unique
<1>3. ASSUME NEW S, \A r, s \in S : r = s
      PROVE  Cardinality(S) <= 1
  <2>1. CASE S = {}
    BY <2>1, FS_EmptySet
  <2>2. CASE S # {}
    <3>1. PICK r \in S : TRUE
      BY <2>2
    <3>2. S = {r}
      BY <1>3, <3>1
    <3> QED
      BY <3>2, FS_Singleton
  <2> QED
    BY <2>1, <2>2
<1> QED
  BY <1>1, <1>2, <1>3

\* A listing and a call agree for every customer, one row per name, in any order of
\* writes (resolve_for_customer and list_visible_to_customer of provider_store.rs).
THEOREM CustomersSeeWhatResolves ==
    ASSUME ControlPlaneAssumption PROVE ControlSpec => []OneViewPerCustomer
<1>1. ControlInit => Unique
  BY DEF ControlInit, Unique
<1>2. Unique /\ [ControlNext]_controlVars => Unique'
  BY StepKeeps
<1>3. Unique => OneViewPerCustomer
  BY ViewsAgree
<1> QED
  BY <1>1, <1>2, <1>3, PTL DEF ControlSpec

\* No step changes a row but for marking it as deleted (bootstrap_shared and
\* soft_delete of provider_store.rs).
THEOREM OperatorsKeepTheirEdits == ControlSpec => EditsAreKept
<1>1. ControlInit => Unique
  BY DEF ControlInit, Unique
<1>2. Unique /\ [ControlNext]_controlVars => Unique'
  BY StepKeeps
<1>3. Unique /\ [ControlNext]_controlVars => \A r \in rows : r \in rows' \/ Deleted(r) \in rows'
  BY StepKeeps DEF Kept
<1> QED
  BY <1>1, <1>2, <1>3, PTL DEF ControlSpec, EditsAreKept

-----------------------------------------------------------------------------
(* What a start has offered.                                                *)

\* The manifests of a proxy that the table takes and clients may see.
Due(p) == ((DOMAIN Toml[p]) \ Internal) \ Misnamed

\* What is due was offered or is still to be; a name is taken only by what once was.
OfferedInv ==
    /\ offers \in [Proxies -> SUBSET UNION {DOMAIN Toml[p] : p \in Proxies}]
    /\ \A r \in rows : r.live /\ r.owner = Shared => r.name \in was
    /\ \A p \in Proxies \cap up : Due(p) \subseteq was \cup offers[p]
    /\ up \subseteq Proxies

LEMMA RowIs ==
    ASSUME NEW owner, NEW name, NEW config, NEW source
    PROVE  Row(owner, name, config, source).owner = owner /\ Row(owner, name, config, source).name = name
  BY DEF Row

\* A statement for a manifest leaves its name among those that were, or it is misnamed.
LEMMA BootstrapRecords ==
    ASSUME OfferedInv, NEW name, NEW config, BootstrapShared(name, config)
    PROVE  /\ was \subseteq was'
           /\ \A r \in rows' : r.live /\ r.owner = Shared => r.name \in was'
           /\ name \in was' \cup Misnamed
<1>1. CASE Accepts(Shared, name)
  BY <1>1, RowIs DEF BootstrapShared, OfferedInv
<1>2. CASE ~Accepts(Shared, name)
  <2>1. name \in Misnamed \/ Live(Shared, name) # {}
    BY <1>2 DEF Accepts
  <2>2. UNCHANGED <<rows, was>>
    BY <1>2 DEF BootstrapShared
  <2> QED
    BY <2>1, <2>2 DEF OfferedInv, Live
<1> QED
  BY <1>1, <1>2

LEMMA OfferedStep == ASSUME OfferedInv, [ControlNext]_controlVars PROVE OfferedInv'
<1>1. ASSUME UNCHANGED <<rows, up, offers, was>> PROVE OfferedInv'
  BY <1>1 DEF OfferedInv
<1>2. ASSUME NEW c \in Customers, CreateCustomer(c) \/ DeleteCustomer(c) PROVE OfferedInv'
  BY <1>1, <1>2 DEF CreateCustomer, DeleteCustomer
<1>3. ASSUME NEW owner, NEW name, NEW config, CreateProvider(owner, name, config)
      PROVE  OfferedInv'
  <2>1. rows' = rows \cup {Row(owner, name, config, "admin")} /\ UNCHANGED <<up, offers>>
        /\ was \subseteq was' /\ (owner = Shared => name \in was')
    BY <1>3 DEF CreateProvider
  <2> QED
    BY <2>1, RowIs DEF OfferedInv
<1>4. ASSUME NEW id, DeleteProvider(id) PROVE OfferedInv'
  <2>1. PICK r \in rows : rows' = (rows \ {r}) \cup {Deleted(r)}
    BY <1>4 DEF DeleteProvider
  <2>2. ~Deleted(r).live /\ UNCHANGED <<up, offers, was>>
    BY <1>4 DEF Deleted, DeleteProvider
  <2> QED
    BY <2>1, <2>2 DEF OfferedInv
<1>5. ASSUME NEW p \in Proxies, Start(p) PROVE OfferedInv'
  <2>1. up' = up \cup {p} /\ offers' = [offers EXCEPT ![p] = (DOMAIN Toml[p]) \ Internal]
        /\ UNCHANGED <<rows, was>>
    BY <1>5 DEF Start
  <2>2. offers' \in [Proxies -> SUBSET UNION {DOMAIN Toml[q] : q \in Proxies}]
    BY <2>1 DEF OfferedInv
  <2>3. ASSUME NEW q \in Proxies \cap up' PROVE Due(q) \subseteq was' \cup offers'[q]
    BY <2>1 DEF OfferedInv, Due
  <2> QED
    BY <2>1, <2>2, <2>3 DEF OfferedInv
<1>6. ASSUME NEW p \in Proxies, Stop(p) PROVE OfferedInv'
  <2>1. up' = up \ {p} /\ offers' = [offers EXCEPT ![p] = {}] /\ UNCHANGED <<rows, was>>
    BY <1>6 DEF Stop
  <2> QED
    BY <2>1 DEF OfferedInv
<1>7. ASSUME NEW p \in Proxies, NEW name \in ProviderNames, Bootstrap(p, name) PROVE OfferedInv'
  <2>1. /\ BootstrapShared(name, Toml[p][name])
        /\ offers' = [offers EXCEPT ![p] = offers[p] \ {name}] /\ UNCHANGED up
    BY <1>7 DEF Bootstrap, Offered
  <2>2. /\ was \subseteq was' /\ name \in was' \cup Misnamed
        /\ \A r \in rows' : r.live /\ r.owner = Shared => r.name \in was'
    BY <2>1, BootstrapRecords
  <2>3. offers' \in [Proxies -> SUBSET UNION {DOMAIN Toml[q] : q \in Proxies}]
    BY <2>1 DEF OfferedInv
  <2>4. ASSUME NEW q \in Proxies \cap up' PROVE Due(q) \subseteq was' \cup offers'[q]
    <3>1. Due(q) \subseteq was \cup offers[q] /\ Due(q) \cap Misnamed = {}
      BY <2>1 DEF OfferedInv, Due
    <3>2. offers'[q] = IF q = p THEN offers[q] \ {name} ELSE offers[q]
      BY <2>1 DEF OfferedInv
    <3> QED
      BY <2>2, <3>1, <3>2
  <2> QED
    BY <2>1, <2>2, <2>3, <2>4 DEF OfferedInv
<1>8. CASE UNCHANGED controlVars
  BY <1>1, <1>8 DEF controlVars
<1> QED
  BY <1>2, <1>3, <1>4, <1>5, <1>6, <1>7, <1>8 DEF ControlNext

\* A proxy whose bootstrap has ended has offered every manifest that a client may see,
\* whatever the table refused on the way (bootstrap_providers of server.rs).
THEOREM StartsBootstrapAll == ControlSpec => []StartedIsBootstrapped
<1>1. ControlInit => OfferedInv
  BY DEF ControlInit, OfferedInv
<1>2. OfferedInv /\ [ControlNext]_controlVars => OfferedInv'
  BY OfferedStep
<1>3. OfferedInv => StartedIsBootstrapped
  BY DEF OfferedInv, StartedIsBootstrapped, Due
<1> QED
  BY <1>1, <1>2, <1>3, PTL DEF ControlSpec

\* The table of providers is whole for its readers: what a listing shows is what a call
\* resolves, and what bootstraps should have left in it is there (provider_store.rs).
THEOREM TheTableIsWhole ==
    ASSUME ControlPlaneAssumption PROVE ControlSpec => []TableIsWhole
<1>1. OneViewPerCustomer /\ StartedIsBootstrapped => TableIsWhole
  BY DEF TableIsWhole
<1> QED
  BY <1>1, CustomersSeeWhatResolves, StartsBootstrapAll, PTL

-----------------------------------------------------------------------------
(* The envelopes of secrets.                                                *)

\* The key that version v stands for, mistyped variables aside.
Val(e, v) ==
    IF e[v] \in MasterKeys THEN e[v] ELSE IF v = "m1" THEN e["bare"] ELSE None

\* The version a process that starts with e writes with.
Active(e) == IF e["active"] = None THEN "m1" ELSE e["active"]

\* What an operator leaves at any time: the bare key and m1 never differ, and there is
\* a key for the active version.
EnvInv(e) ==
    /\ e \in [{"active", "bare", "m1", "m2"} -> MasterKeys \cup KeyVersions \cup {None, NotAKey}]
    /\ e["active"] \in KeyVersions \cup {None}
    /\ e["bare"] \in MasterKeys \cup {None}
    /\ e["m1"] \in MasterKeys \cup {None, NotAKey}
    /\ e["m2"] \in MasterKeys \cup {None, NotAKey}
    /\ e["m1"] \in MasterKeys /\ e["bare"] # None => e["m1"] = e["bare"]
    /\ Val(e, Active(e)) # None
    /\ e["active"] = None => e["bare"] # None

\* Of a process: it holds the keys it needs for its own version, and no key of a version
\* that now stands for another one.
KekInv(k, e) ==
    /\ k.active \in DOMAIN k.keys
    /\ DOMAIN k.keys \subseteq KeyVersions
    /\ \A v \in DOMAIN k.keys : k.keys[v] # None /\ Val(e, v) \in {k.keys[v], None}
    /\ Val(e, k.active) # None
    /\ Active(e) \in DOMAIN k.keys
    /\ e["active"] = None => k.active = "m1"

\* Of a row: its version still stands for the key that wraps it.
RowInv(r, e, slot) ==
    /\ r.aad = slot /\ r.id \in KeyVersions
    /\ r.dek # None /\ Val(e, r.id) = r.dek
    /\ e["active"] = None => r.id = "m1"

\* Every process has the versions that rows carry and that processes write with.
EnvelopeInv ==
    /\ EnvInv(env)
    /\ DOMAIN kek = Pods /\ DOMAIN envelopes = Slots
    /\ \A p \in Running : KekInv(kek[p], env)
    /\ \A p, q \in Running : kek[p].active \in DOMAIN kek[q].keys
    /\ \A slot \in Slots : envelopes[slot] # None =>
         /\ RowInv(envelopes[slot], env, slot)
         /\ \A p \in Running : envelopes[slot].id \in DOMAIN kek[p].keys

LEMMA RowsOpen ==
    ASSUME EnvelopeAssumption, EnvelopeInv PROVE EveryRowOpens
<1>1. Refuses(env) => NotAKey \in {env["m1"], env["m2"]}
  BY DEF EnvelopeAssumption, EnvelopeInv, EnvInv, Refuses, LoadedKeys, Vars,
         Val, Active, KeyVersions
<1>2. ASSUME NEW p \in Running, NEW slot \in Slots, NEW at \in Slots, envelopes[slot] # None
      PROVE  (OpenRow(kek[p], envelopes[slot], at) = "plaintext") <=> (at = slot)
  <2>1. /\ KekInv(kek[p], env) /\ RowInv(envelopes[slot], env, slot)
        /\ envelopes[slot].id \in DOMAIN kek[p].keys
    BY <1>2 DEF EnvelopeInv
  <2>2. kek[p].keys[envelopes[slot].id] = envelopes[slot].dek /\ envelopes[slot].aad = slot
    BY <2>1 DEF KekInv, RowInv
  <2> QED
    BY <2>1, <2>2 DEF OpenRow, Unwrap
<1> QED
  BY <1>1, <1>2 DEF EveryRowOpens

\* What a process that starts gets.
LEMMA FromEnvOK ==
    ASSUME EnvelopeAssumption, NEW e, EnvInv(e), ~Refuses(e)
    PROVE  /\ KekInv(FromEnv(e), e) /\ FromEnv(e).active = Active(e)
           /\ \A v \in KeyVersions : Val(e, v) # None /\ (e["active"] = None => v = "m1")
                 => v \in DOMAIN FromEnv(e).keys
  BY DEF EnvelopeAssumption, EnvInv, Refuses, FromEnv, LoadedKeys, Vars,
         Val, Active, KekInv, KeyVersions

LEMMA InvInit == ASSUME EnvelopeAssumption, EnvelopeInit PROVE EnvelopeInv
<1>1. EnvInv(env) /\ ~Refuses(env) /\ env["active"] = None /\ Active(env) = "m1"
  BY DEF EnvelopeAssumption, EnvelopeInit, EnvInv, Refuses, Val, Active, KeyVersions
<1>2. KekInv(FromEnv(env), env) /\ FromEnv(env).active = "m1"
  BY <1>1, FromEnvOK
<1>3. \A p \in Pods : kek[p] = FromEnv(env)
  BY DEF EnvelopeInit
<1>4. "m1" \in DOMAIN FromEnv(env).keys
  BY <1>2 DEF KekInv
<1> QED
  BY <1>1, <1>2, <1>3, <1>4 DEF EnvelopeInit, EnvelopeInv, Running

LEMMA InvStart ==
    ASSUME EnvelopeAssumption, EnvelopeInv, NEW p \in Pods, StartProcess(p) PROVE EnvelopeInv'
<1> DEFINE new == FromEnv(env)
<1>1. env' = env /\ envelopes' = envelopes /\ DOMAIN kek' = Pods /\ \A q \in Pods \ {p} : kek'[q] = kek[q]
  BY DEF StartProcess, EnvelopeInv
<1>2. CASE Refuses(env)
  <2>1. kek'[p] = None
    BY <1>2 DEF StartProcess, EnvelopeInv
  <2>2. Running' \subseteq Running /\ \A q \in Running' : kek'[q] = kek[q]
    BY <1>1, <2>1 DEF Running
  <2> QED
    BY <1>1, <2>2 DEF EnvelopeInv
<1>3. CASE ~Refuses(env)
  <2>1. kek'[p] = new
    BY <1>3 DEF StartProcess, EnvelopeInv
  <2>2. /\ KekInv(new, env) /\ new.active = Active(env)
        /\ \A v \in KeyVersions : Val(env, v) # None /\ (env["active"] = None => v = "m1")
              => v \in DOMAIN new.keys
    BY <1>3, FromEnvOK DEF EnvelopeInv
  <2>3. \A q \in Running' : q # p => q \in Running /\ kek'[q] = kek[q]
    BY <1>1 DEF Running
  <2>4. \A q \in Running' : KekInv(kek'[q], env)
    BY <2>1, <2>2, <2>3 DEF EnvelopeInv
  <2>5. \A q \in Running' : kek'[q].active \in DOMAIN new.keys
    BY <2>2, <2>4 DEF KekInv
  <2>6. \A q \in Running' : new.active \in DOMAIN kek'[q].keys
    BY <2>2, <2>4 DEF KekInv
  <2>7. \A q, r \in Running' : kek'[q].active \in DOMAIN kek'[r].keys
    BY <2>1, <2>3, <2>5, <2>6 DEF EnvelopeInv
  <2>8. ASSUME NEW slot \in Slots, envelopes[slot] # None, NEW q \in Running'
        PROVE  envelopes[slot].id \in DOMAIN kek'[q].keys
    <3>1. RowInv(envelopes[slot], env, slot)
      BY <2>8 DEF EnvelopeInv
    <3>2. envelopes[slot].id \in DOMAIN new.keys
      BY <2>2, <3>1 DEF RowInv
    <3> QED
      BY <2>1, <2>3, <2>8, <3>2 DEF EnvelopeInv
  <2> QED
    BY <1>1, <2>4, <2>7, <2>8 DEF EnvelopeInv
<1> QED
  BY <1>2, <1>3

LEMMA InvWrite ==
    ASSUME EnvelopeInv, NEW p \in Pods, NEW slot \in Slots, WriteRow(p, slot) PROVE EnvelopeInv'
<1> DEFINE new == Seal(kek[p], slot)
<1>1. /\ env' = env /\ kek' = kek /\ Running' = Running /\ p \in Running
      /\ DOMAIN envelopes' = Slots /\ envelopes'[slot] = new
      /\ \A s \in Slots \ {slot} : envelopes'[s] = envelopes[s]
  BY DEF WriteRow, EnvelopeInv, Running
<1>2. KekInv(kek[p], env) /\ \A q \in Running : kek[p].active \in DOMAIN kek[q].keys
  BY <1>1 DEF EnvelopeInv
<1>3. new.aad = slot /\ new.id = kek[p].active /\ new.dek = kek[p].keys[kek[p].active]
  BY DEF Seal
<1>4. RowInv(new, env, slot) /\ \A q \in Running : new.id \in DOMAIN kek[q].keys
  <2> HIDE DEF new
  <2> QED
    BY <1>2, <1>3 DEF RowInv, KekInv
<1> QED
  BY <1>1, <1>4 DEF EnvelopeInv

LEMMA InvDrop ==
    ASSUME EnvelopeInv, NEW slot \in Slots, Drop(slot) PROVE EnvelopeInv'
  BY DEF Drop, EnvelopeInv, Running

\* A new environment under which all versions in use stand for what they did.
LEMMA InvEnv ==
    ASSUME EnvelopeInv, UNCHANGED <<kek, envelopes>>, EnvInv(env'),
           \A p \in Running : KekInv(kek[p], env'),
           \A slot \in Slots : envelopes[slot] # None => RowInv(envelopes[slot], env', slot)
    PROVE  EnvelopeInv'
  BY DEF EnvelopeInv, Running

\* An operator changes the environment once all processes have the one before.
LEMMA InvAdd ==
    ASSUME EnvelopeAssumption, EnvelopeInv, NEW v \in KeyVersions,
           NEW key \in MasterKeys \cup {NotAKey}, AddVersion(v, key)
    PROVE  EnvelopeInv'
<1>1. /\ env[v] = None /\ ((v = "m1" /\ env.bare # None) => key \in {env.bare, NotAKey})
      /\ UNCHANGED <<kek, envelopes>> /\ \A p \in Running : kek[p] = FromEnv(env)
      /\ env' = [env EXCEPT ![v] = key]
  BY DEF AddVersion, Change, RolledOut
<1>2. EnvInv(env)
  BY DEF EnvelopeInv
<1>3. \A w \in KeyVersions :
         \/ Val(env', w) = Val(env, w)
         \/ Val(env, w) = None /\ w = v /\ ~(v = "m1" /\ env.bare # None)
  BY <1>1, <1>2 DEF EnvelopeAssumption, EnvInv, Val, KeyVersions
<1>4. EnvInv(env') /\ env'["active"] = env["active"]
  BY <1>1, <1>2, <1>3 DEF EnvelopeAssumption, EnvInv, Val, KeyVersions, Active
<1>5. ASSUME NEW p \in Running
      PROVE  KekInv(kek[p], env')
  <2>1. KekInv(kek[p], env)
    BY DEF EnvelopeInv
  <2>2. kek[p].keys = LoadedKeys(env)
    BY <1>1 DEF FromEnv
  <2>3. v \in DOMAIN LoadedKeys(env) => v = "m1" /\ env.bare # None
    BY <1>1 DEF LoadedKeys, Vars
  <2> QED
    BY <2>1, <2>2, <2>3, <1>3, <1>4 DEF KekInv, Active
<1>6. ASSUME NEW slot \in Slots, envelopes[slot] # None
      PROVE  RowInv(envelopes[slot], env', slot)
  <2>1. RowInv(envelopes[slot], env, slot)
    BY <1>6 DEF EnvelopeInv
  <2> QED
    BY <2>1, <1>3, <1>4 DEF RowInv
<1> QED
  BY <1>1, <1>4, <1>5, <1>6, InvEnv

\* The variable of a mistyped key stood for no key.
LEMMA InvMistyped ==
    ASSUME EnvelopeAssumption, EnvelopeInv, NEW v \in KeyVersions, RemoveMistyped(v)
    PROVE  EnvelopeInv'
<1>1. env[v] = NotAKey /\ env' = [env EXCEPT ![v] = None] /\ UNCHANGED <<kek, envelopes>> /\ EnvInv(env)
  BY DEF RemoveMistyped, EnvelopeInv
<1>2. \A w \in KeyVersions : Val(env', w) = Val(env, w)
  BY <1>1 DEF EnvelopeAssumption, EnvInv, Val, KeyVersions
<1>3. EnvInv(env') /\ env'["active"] = env["active"]
  BY <1>1, <1>2 DEF EnvelopeAssumption, EnvInv, Val, KeyVersions, Active
<1>4. \A p \in Running : KekInv(kek[p], env')
  BY <1>2, <1>3 DEF EnvelopeInv, KekInv, Active
<1>5. \A slot \in Slots : envelopes[slot] # None => RowInv(envelopes[slot], env', slot)
  BY <1>2, <1>3 DEF EnvelopeInv, RowInv
<1> QED
  BY <1>1, <1>3, <1>4, <1>5, InvEnv

LEMMA InvActivate ==
    ASSUME EnvelopeAssumption, EnvelopeInv, NEW v \in KeyVersions, Activate(v)
    PROVE  EnvelopeInv'
<1>1. /\ v \in DOMAIN LoadedKeys(env) /\ NotAKey \notin {env["m1"], env["m2"]}
      /\ UNCHANGED <<kek, envelopes>> /\ \A p \in Running : kek[p] = FromEnv(env)
      /\ env' = [env EXCEPT !.active = v] /\ EnvInv(env)
  BY DEF Activate, Change, RolledOut, EnvelopeInv
<1>2. \A w \in KeyVersions : Val(env', w) = Val(env, w)
  BY <1>1 DEF EnvInv, Val, KeyVersions
<1>3. EnvInv(env') /\ env'["active"] = v /\ v # None
  BY <1>1, <1>2 DEF EnvelopeAssumption, EnvInv, Val, KeyVersions, Active,
         LoadedKeys, Vars
<1>4. \A p \in Running : KekInv(kek[p], env')
  BY <1>1, <1>2, <1>3 DEF EnvelopeInv, KekInv, Active, FromEnv
<1>5. \A slot \in Slots : envelopes[slot] # None => RowInv(envelopes[slot], env', slot)
  BY <1>2, <1>3 DEF EnvelopeInv, RowInv
<1> QED
  BY <1>1, <1>3, <1>4, <1>5, InvEnv

LEMMA InvDropBare ==
    ASSUME EnvelopeAssumption, EnvelopeInv, DropBare
    PROVE  EnvelopeInv'
<1>1. /\ env["m1"] = env.bare /\ env.active # None /\ UNCHANGED <<kek, envelopes>>
      /\ env' = [env EXCEPT !.bare = None] /\ EnvInv(env)
  BY DEF DropBare, Change, EnvelopeInv
<1>2. \A w \in KeyVersions : Val(env', w) = Val(env, w)
  BY <1>1 DEF EnvelopeAssumption, EnvInv, Val, KeyVersions
<1>3. EnvInv(env') /\ env'["active"] = env["active"]
  BY <1>1, <1>2 DEF EnvelopeAssumption, EnvInv, Val, KeyVersions, Active
<1>4. \A p \in Running : KekInv(kek[p], env')
  BY <1>2, <1>3 DEF EnvelopeInv, KekInv, Active
<1>5. \A slot \in Slots : envelopes[slot] # None => RowInv(envelopes[slot], env', slot)
  BY <1>2, <1>3 DEF EnvelopeInv, RowInv
<1> QED
  BY <1>1, <1>3, <1>4, <1>5, InvEnv

\* Nothing is in use of a version that goes.
LEMMA InvRetire ==
    ASSUME EnvelopeAssumption, EnvelopeInv, NEW v \in KeyVersions, Retire(v)
    PROVE  EnvelopeInv'
<1>1. /\ env[v] # None /\ v # env.active /\ env.active # None /\ (v = "m1" => env.bare = None)
      /\ \A slot \in Slots : envelopes[slot] # None => envelopes[slot].id # v
      /\ UNCHANGED <<kek, envelopes>> /\ \A p \in Running : kek[p] = FromEnv(env)
      /\ env' = [env EXCEPT ![v] = None] /\ EnvInv(env)
  BY DEF Retire, Change, RolledOut, EnvelopeInv
<1>2. /\ Val(env', v) = None /\ \A w \in KeyVersions \ {v} : Val(env', w) = Val(env, w)
  BY <1>1 DEF EnvelopeAssumption, EnvInv, Val, KeyVersions
<1>3. EnvInv(env') /\ env'["active"] = env["active"]
  BY <1>1, <1>2 DEF EnvelopeAssumption, EnvInv, Val, KeyVersions, Active
<1>4. \A p \in Running : KekInv(kek[p], env')
  <2>1. \A p \in Running : KekInv(kek[p], env) /\ kek[p].active # v
    BY <1>1 DEF EnvelopeInv, FromEnv
  <2> QED
    BY <2>1, <1>1, <1>2, <1>3 DEF KekInv, Active
<1>5. \A slot \in Slots : envelopes[slot] # None => RowInv(envelopes[slot], env', slot)
  BY <1>1, <1>2, <1>3 DEF EnvelopeInv, RowInv
<1> QED
  BY <1>1, <1>3, <1>4, <1>5, InvEnv

LEMMA InvNext ==
    ASSUME EnvelopeAssumption, EnvelopeInv, [EnvelopeNext]_envelopeVars PROVE EnvelopeInv'
<1>1. CASE UNCHANGED envelopeVars
  BY <1>1 DEF envelopeVars, EnvelopeInv, Running
<1> QED
  BY <1>1, InvStart, InvWrite, InvDrop, InvAdd, InvMistyped, InvActivate, InvRetire, InvDropBare
     DEF EnvelopeNext

\* Through any rotation of master keys every process that runs opens every row, in the
\* slot it was written for and in no other (LocalKek, seal and open of secrets.rs).
THEOREM RotationKeepsRows ==
    ASSUME EnvelopeAssumption PROVE EnvelopeSpec => []EveryRowOpens
<1>1. EnvelopeInit => EnvelopeInv
  BY InvInit
<1>2. EnvelopeInv /\ [EnvelopeNext]_envelopeVars => EnvelopeInv'
  BY InvNext
<1>3. EnvelopeInv => EveryRowOpens
  BY RowsOpen
<1> QED
  BY <1>1, <1>2, <1>3, PTL DEF EnvelopeSpec

-----------------------------------------------------------------------------
(* The keyring that a proxy takes its secrets from.                         *)

\* Bootstraps do not overlap.
OneBootstrap == \A a, b \in Bootstrappers : a = b

Steps == {"idle", "opened", "fetched", "drawn", "keyed", "pulled", "written", "found"}

\* What a command holds: its key is the one on disk, or one nothing was made with yet.
CommandOK(o) ==
    /\ op[o].at \in Steps
    /\ op[o].at \in {"fetched", "drawn", "keyed"} => o \in Bootstrappers
    /\ op[o].at = "drawn" => keyFile = Nil /\ op[o].key \in Keys /\ op[o].key # blob.key
                              /\ op[o].key <= drawn
    /\ op[o].at \in {"keyed", "opened", "pulled"} => keyFile # Nil /\ op[o].key = keyFile

FilesOK ==
    /\ drawn \in Nat
    /\ keyFile \in Keys \cup {Nil} /\ keyFile <= drawn
    /\ blob.key \in Keys \cup {Nil} /\ blob.key <= drawn
    /\ blob.key = Nil => SecretOf(blob.item) = Nil
    /\ blob = NoBlob <=> blob.key = Nil
    /\ DOMAIN op = Operators
    /\ \A o \in Operators : CommandOK(o)

\* The secret of a proxy that was told, and the key of one that is reading.
InForce ==
    /\ phase \in {"down", "stopped", "loading", "starting", "up", "reloading"}
    /\ hup => phase \in {"up", "reloading"}
    /\ Nil \notin held
    /\ blob.key = Nil => secret = Nil
    /\ told /\ ~hup /\ blob.key = keyFile =>
         /\ phase \in {"starting", "up"} => secret = SecretOf(blob.item)
         /\ phase \in {"loading", "reloading"} /\ keyFile # Nil => keyFile \in held

RotationInv == FilesOK /\ InForce

LEMMA RingStarts == ASSUME RotationAssumption, RingInit PROVE RotationInv
<1>1. Nil \notin Keys
  BY DEF Nil, Keys
<1>2. NoBlob.key = Nil /\ SecretOf(NoBlob.item) = Nil
  BY DEF NoBlob, SecretOf, Blank
<1>3. FilesOK
  BY <1>1, <1>2 DEF RotationAssumption, RingInit, FilesOK, CommandOK, IdleOp,
                    NoBlob, Nil, Keys, Steps
<1>4. InForce
  BY DEF RingInit, InForce, Nil
<1> QED
  BY <1>3, <1>4 DEF RotationInv

\* A step that leaves the files and the proxy alone, and in which a command goes on.
LEMMA RingCommand ==
    ASSUME RotationInv, UNCHANGED <<blob, keyFile, drawn>>, UNCHANGED <<proxyVars, told>>,
           NEW o \in Operators, DOMAIN op' = Operators,
           \A q \in Operators \ {o} : op'[q] = op[q],
           CommandOK(o)'
    PROVE  RotationInv'
<1>1. \A q \in Operators \ {o} : CommandOK(q)'
  BY DEF RotationInv, FilesOK, CommandOK
<1>2. FilesOK'
  BY <1>1 DEF RotationInv, FilesOK
<1>3. InForce'
  BY DEF RotationInv, InForce, proxyVars
<1> QED
  BY <1>2, <1>3 DEF RotationInv

LEMMA HeldKey ==
    ASSUME DOMAIN op = Operators, NEW o \in Operators, NEW stage, NEW key, NEW item, NEW p,
           op' = [op EXCEPT ![o] = [at |-> stage, key |-> key, item |-> item, pid |-> p]]
    PROVE  /\ DOMAIN op' = Operators /\ \A q \in Operators \ {o} : op'[q] = op[q]
           /\ op'[o].at = stage /\ op'[o].key = key
  OBVIOUS

LEMMA RingFetches ==
    ASSUME RotationInv, NEW o \in Operators, BootstrapFetch(o) \/ RotateFetch(o)
    PROVE  RotationInv'
<1>1. DOMAIN op = Operators /\ CommandOK(o)
  BY DEF RotationInv, FilesOK
<1>2. UNCHANGED <<blob, keyFile, drawn>> /\ UNCHANGED <<proxyVars, told>>
  BY DEF BootstrapFetch, RotateFetch, Fetch, ringFiles, proxyVars
<1>3. CASE BootstrapFetch(o)
  <2>1. o \in Bootstrappers /\ Holds(o, "fetched", op[o].key, vault, op[o].pid)
    BY <1>3 DEF BootstrapFetch, Fetch
  <2>2. /\ DOMAIN op' = Operators /\ \A q \in Operators \ {o} : op'[q] = op[q]
        /\ op'[o].at = "fetched"
    BY <1>1, <2>1, HeldKey DEF Holds
  <2>3. CommandOK(o)'
    BY <2>1, <2>2 DEF CommandOK, Steps
  <2> QED
    BY <1>2, <2>2, <2>3, RingCommand
<1>4. CASE RotateFetch(o)
  <2>1. op[o].at = "opened" /\ Holds(o, "pulled", op[o].key, vault, op[o].pid)
    BY <1>4 DEF RotateFetch, Fetch, At
  <2>2. /\ DOMAIN op' = Operators /\ \A q \in Operators \ {o} : op'[q] = op[q]
        /\ op'[o].at = "pulled" /\ op'[o].key = op[o].key
    BY <1>1, <2>1, HeldKey DEF Holds
  <2>3. CommandOK(o)'
    BY <1>1, <1>2, <2>1, <2>2 DEF CommandOK, Steps
  <2> QED
    BY <1>2, <2>2, <2>3, RingCommand
<1> QED
  BY <1>3, <1>4

\* The key a command takes is the one on disk.
LEMMA RingTakesKey ==
    ASSUME RotationInv, NEW o \in Operators, BootstrapReuse(o) \/ RotateBegin(o)
    PROVE  RotationInv'
<1>1. DOMAIN op = Operators /\ CommandOK(o)
  BY DEF RotationInv, FilesOK
<1>2. UNCHANGED <<blob, keyFile, drawn>> /\ UNCHANGED <<proxyVars, told>> /\ keyFile # Nil
  BY DEF BootstrapReuse, RotateBegin, ringFiles, proxyVars
<1>3. PICK stage \in {"keyed", "opened"} :
        TakesKey(o, stage, keyFile) /\ (stage = "keyed" => op[o].at = "fetched")
  BY DEF BootstrapReuse, RotateBegin, At
<1>4. /\ DOMAIN op' = Operators /\ \A q \in Operators \ {o} : op'[q] = op[q]
      /\ op'[o].at = stage /\ op'[o].key = keyFile
  BY <1>1, <1>3, HeldKey DEF TakesKey, Holds
<1>5. CommandOK(o)'
  BY <1>1, <1>2, <1>3, <1>4 DEF CommandOK, Steps
<1> QED
  BY <1>2, <1>4, <1>5, RingCommand

LEMMA RingDraw ==
    ASSUME RotationAssumption, OneBootstrap, RotationInv, NEW o \in Operators,
           BootstrapDraw(o)
    PROVE  RotationInv'
<1>1. DOMAIN op = Operators /\ CommandOK(o) /\ drawn \in Nat
  BY DEF RotationInv, FilesOK
<1>2. /\ op[o].at = "fetched" /\ keyFile = Nil /\ drawn < MaxKeys /\ drawn' = drawn + 1
      /\ TakesKey(o, "drawn", drawn + 1)
      /\ UNCHANGED <<blob, keyFile, held, hup, phase, secret, told>>
  BY DEF BootstrapDraw, At, proxyVars
<1>3. /\ DOMAIN op' = Operators /\ \A q \in Operators \ {o} : op'[q] = op[q]
      /\ op'[o].at = "drawn" /\ op'[o].key = drawn + 1
  BY <1>1, <1>2, HeldKey DEF TakesKey, Holds
<1>4. drawn + 1 \in Keys
  BY <1>1, <1>2 DEF Keys, RotationAssumption
<1>5. blob.key \in Nat /\ blob.key <= drawn /\ keyFile \in Nat /\ keyFile <= drawn
  BY DEF RotationInv, FilesOK, Keys, Nil
<1>6. CommandOK(o)'
  BY <1>1, <1>2, <1>3, <1>4, <1>5 DEF CommandOK, Steps
<1>7. ASSUME NEW q \in Operators \ {o} PROVE CommandOK(q)'
  <2>1. CommandOK(q) /\ op'[q] = op[q]
    BY <1>3 DEF RotationInv, FilesOK
  <2>2. op[q].at # "drawn"
    BY <1>1, <1>2, <2>1 DEF CommandOK, OneBootstrap
  <2> QED
    BY <1>2, <2>1, <2>2 DEF CommandOK
<1>8. FilesOK'
  BY <1>1, <1>2, <1>3, <1>5, <1>6, <1>7 DEF RotationInv, FilesOK
<1>9. InForce'
  BY <1>2 DEF RotationInv, InForce
<1> QED
  BY <1>8, <1>9 DEF RotationInv

LEMMA RingWriteKey ==
    ASSUME OneBootstrap, RotationInv, NEW o \in Operators, BootstrapWriteKey(o)
    PROVE  RotationInv'
<1>1. DOMAIN op = Operators /\ CommandOK(o) /\ drawn \in Nat
  BY DEF RotationInv, FilesOK
<1>2. /\ op[o].at = "drawn" /\ keyFile' = op[o].key
      /\ TakesKey(o, "keyed", op[o].key)
      /\ UNCHANGED <<blob, drawn, held, hup, phase, secret, told>>
  BY DEF BootstrapWriteKey, At, proxyVars, GoesTo, TakesKey
<1>3. /\ DOMAIN op' = Operators /\ \A q \in Operators \ {o} : op'[q] = op[q]
      /\ op'[o].at = "keyed" /\ op'[o].key = op[o].key
  BY <1>1, <1>2, HeldKey DEF TakesKey, Holds
<1>4. /\ o \in Bootstrappers /\ keyFile = Nil /\ op[o].key \in Keys /\ op[o].key # blob.key
      /\ op[o].key <= drawn
  BY <1>1, <1>2 DEF CommandOK
<1>5. keyFile' # Nil
  BY <1>2, <1>4 DEF Keys, Nil
<1>6. CommandOK(o)'
  BY <1>2, <1>3, <1>4, <1>5 DEF CommandOK, Steps
<1>7. ASSUME NEW q \in Operators \ {o} PROVE CommandOK(q)'
  <2>1. CommandOK(q) /\ op'[q] = op[q]
    BY <1>3 DEF RotationInv, FilesOK
  <2>2. op[q].at \notin {"drawn", "keyed", "opened", "pulled"}
    BY <1>4, <2>1 DEF CommandOK, OneBootstrap
  <2> QED
    BY <2>1, <2>2 DEF CommandOK
<1>8. FilesOK'
  BY <1>1, <1>2, <1>3, <1>4, <1>6, <1>7 DEF RotationInv, FilesOK
<1>9. InForce'
  <2>1. blob.key # keyFile'
    BY <1>2, <1>4
  <2> QED
    BY <1>2, <2>1 DEF RotationInv, InForce
<1> QED
  BY <1>8, <1>9 DEF RotationInv

\* keyring.enc is written with the key on disk.
LEMMA RingWrite ==
    ASSUME RotationAssumption, OneBootstrap, RotationInv, NEW o \in Operators,
           BootstrapWrite(o) \/ RotateWrite(o)
    PROVE  RotationInv' /\ blob'.key = keyFile'
<1>1. DOMAIN op = Operators /\ CommandOK(o) /\ drawn \in Nat
  BY DEF RotationInv, FilesOK
<1>2. /\ op[o].at \in {"keyed", "pulled"} /\ blob' = [key |-> op[o].key, item |-> op[o].item]
      /\ told' = FALSE
      /\ UNCHANGED <<keyFile, drawn, held, hup, phase, secret>>
  BY DEF BootstrapWrite, RotateWrite, At, proxyVars, WriteBlob, BlobOf
<1>3. /\ DOMAIN op' = Operators /\ \A q \in Operators \ {o} : op'[q] = op[q]
      /\ op'[o].at \in {"idle", "written"}
  <2>1. CASE BootstrapWrite(o)
    BY <1>1, <2>1 DEF BootstrapWrite, Finishes, IdleOp
  <2>2. CASE RotateWrite(o)
    BY <1>1, <2>2, HeldKey DEF RotateWrite, GoesTo, Holds
  <2> QED
    BY <2>1, <2>2
<1>4. keyFile # Nil /\ op[o].key = keyFile /\ keyFile \in Keys /\ keyFile <= drawn
  BY <1>1, <1>2 DEF CommandOK, RotationInv, FilesOK
<1>5. blob'.key = keyFile /\ blob' # NoBlob
  BY <1>2, <1>4 DEF NoBlob
<1>6. CommandOK(o)'
  BY <1>3 DEF CommandOK, Steps
<1>7. ASSUME NEW q \in Operators \ {o} PROVE CommandOK(q)'
  <2>1. CommandOK(q) /\ op'[q] = op[q]
    BY <1>3 DEF RotationInv, FilesOK
  <2>2. op[q].at # "drawn"
    BY <1>4, <2>1 DEF CommandOK
  <2> QED
    BY <1>2, <2>1, <2>2 DEF CommandOK
<1>8. FilesOK'
  BY <1>1, <1>2, <1>3, <1>4, <1>5, <1>6, <1>7 DEF RotationInv, FilesOK
<1>9. InForce'
  BY <1>2, <1>4, <1>5 DEF RotationInv, InForce
<1> QED
  BY <1>2, <1>5, <1>8, <1>9 DEF RotationInv

\* A command forgets what it holds, or holds the pid of the proxy.
LEMMA RingLeaves ==
    ASSUME RotationInv, NEW o \in Operators,
           UNCHANGED <<blob, keyFile, drawn>>, InForce',
           Finishes(o) \/ Holds(o, "found", op[o].key, op[o].item, pid)
    PROVE  RotationInv'
<1>1. DOMAIN op = Operators
  BY DEF RotationInv, FilesOK
<1>2. /\ DOMAIN op' = Operators /\ \A q \in Operators \ {o} : op'[q] = op[q]
      /\ op'[o].at \in {"idle", "found"}
  <2>1. CASE Finishes(o)
    BY <1>1, <2>1 DEF Finishes, IdleOp
  <2>2. CASE Holds(o, "found", op[o].key, op[o].item, pid)
    BY <1>1, <2>2, HeldKey DEF Holds
  <2> QED
    BY <2>1, <2>2
<1>3. CommandOK(o)'
  BY <1>2 DEF CommandOK, Steps
<1>4. \A q \in Operators \ {o} : CommandOK(q)'
  BY <1>2 DEF RotationInv, FilesOK, CommandOK
<1>5. FilesOK'
  BY <1>2, <1>3, <1>4 DEF RotationInv, FilesOK
<1> QED
  BY <1>5 DEF RotationInv

\* Only the proxy moves.
LEMMA RingProxyMoves ==
    ASSUME RotationInv, UNCHANGED <<blob, keyFile, drawn, op>>, InForce' PROVE RotationInv'
  BY DEF RotationInv, FilesOK, CommandOK

LEMMA SignalInForce ==
    ASSUME RotationInv, UNCHANGED <<blob, keyFile>>, Sighup PROVE InForce'
<1>1. CASE Installed
  BY <1>1 DEF Sighup, RotationInv, InForce, Installed
<1>2. CASE ~Installed
  BY <1>2 DEF Sighup, RotationInv, InForce, Installed
<1> QED
  BY <1>1, <1>2

LEMMA RingSignal ==
    ASSUME RotationInv, NEW o \in Operators, RotateSignal(o) PROVE RotationInv'
<1>1. UNCHANGED <<blob, keyFile, drawn>> /\ Finishes(o)
  BY DEF RotateSignal, ringFiles
<1>2. InForce'
  <2>1. CASE Sighup
    BY <1>1, <2>1, SignalInForce
  <2>2. CASE UNCHANGED <<hup, told, single, phase, held, secret>>
    BY <1>1, <2>2 DEF RotationInv, InForce
  <2> QED
    BY <2>1, <2>2 DEF RotateSignal
<1> QED
  BY <1>1, <1>2, RingLeaves

LEMMA RingFindOrStop ==
    ASSUME RotationInv, NEW o \in Operators,
           RotateFind(o) \/ Stops(o) PROVE RotationInv'
<1>1. UNCHANGED <<blob, keyFile, drawn, held, hup, phase, secret, told>>
  BY DEF RotateFind, Stops, ringFiles, proxyVars
<1>2. Finishes(o) \/ Holds(o, "found", op[o].key, op[o].item, pid)
  BY DEF RotateFind, Stops
<1>3. InForce'
  BY <1>1 DEF RotationInv, InForce
<1> QED
  BY <1>1, <1>2, <1>3, RingLeaves

\* What a load reads is there, and what it yields is the secret of the blob.
LEMMA ReadsKeyFile ==
    ASSUME RotationInv, ReadKeys, blob.key = keyFile,
           keyFile # Nil PROVE keyFile \in held'
<1>1. blob # NoBlob
  BY DEF RotationInv, FilesOK
<1> QED
  BY <1>1 DEF ReadKeys

LEMMA ReadsNoNil == ASSUME ReadKeys PROVE Nil \notin held'
  BY DEF ReadKeys

LEMMA LoadsKey ==
    ASSUME RotationInv, blob.key = keyFile, keyFile # Nil => keyFile \in held
    PROVE  /\ SecretOf(StartItem) = SecretOf(blob.item)
           /\ (blob.key # Nil => Opens)
<1>1. CASE keyFile = Nil
  <2>1. blob.key = Nil /\ SecretOf(blob.item) = Nil /\ Nil \notin held
    BY <1>1 DEF RotationInv, FilesOK, InForce
  <2>2. StartItem = Blank
    BY <2>1 DEF StartItem, Opens
  <2>3. SecretOf(Blank) = Nil
    BY DEF SecretOf, Blank
  <2> QED
    BY <2>1, <2>2, <2>3
<1>2. CASE keyFile # Nil
  BY <1>2 DEF StartItem, Opens
<1> QED
  BY <1>1, <1>2

LEMMA NoBlobNoSecret ==
    ASSUME RotationInv,
           blob.key = Nil PROVE ~Opens /\ SecretOf(StartItem) = Nil /\ secret = Nil
<1>1. ~Opens /\ secret = Nil
  BY DEF RotationInv, InForce, Opens
<1>2. SecretOf(Blank) = Nil
  BY DEF SecretOf, Blank
<1> QED
  BY <1>1, <1>2 DEF StartItem

LEMMA RingProxy ==
    ASSUME RotationInv, Proxy PROVE RotationInv'
<1>1. UNCHANGED <<blob, keyFile, drawn, op, told>>
  BY DEF Proxy, StartProxy, LoadKeyring, BeginServing, ReloadBegin, ReloadEnd,
         Crash, ringFiles
<1>2. CASE StartProxy
  <2>1. phase' = "loading" /\ hup' = hup /\ secret' = secret /\ phase \in {"down", "stopped"}
    BY <1>2 DEF StartProxy
  <2>2. ReadKeys
    BY <1>2 DEF StartProxy
  <2>3. InForce'
    BY <1>1, <2>1, <2>2, ReadsKeyFile, ReadsNoNil DEF RotationInv, InForce
  <2> QED
    BY <1>1, <2>3, RingProxyMoves
<1>3. CASE LoadKeyring
  <2>1. /\ phase = "loading" /\ held' = {} /\ hup' = hup
        /\ \/ phase' = "down" /\ secret' = secret
           \/ phase' = "starting" /\ secret' = SecretOf(StartItem)
    BY <1>3 DEF LoadKeyring
  <2>2. told /\ ~hup /\ blob.key = keyFile => SecretOf(StartItem) = SecretOf(blob.item)
    BY <2>1, LoadsKey DEF RotationInv, InForce
  <2>3. InForce'
    BY <1>1, <2>1, <2>2, NoBlobNoSecret DEF RotationInv, InForce
  <2> QED
    BY <1>1, <2>3, RingProxyMoves
<1>4. CASE BeginServing
  <2>1. InForce'
    BY <1>1, <1>4 DEF BeginServing, RotationInv, InForce
  <2> QED
    BY <1>1, <2>1, RingProxyMoves
<1>5. CASE ReloadBegin
  <2>1. phase' = "reloading" /\ hup' = FALSE /\ secret' = secret /\ ReadKeys
    BY <1>5 DEF ReloadBegin, Pending
  <2>2. InForce'
    BY <1>1, <2>1, ReadsKeyFile, ReadsNoNil DEF RotationInv, InForce
  <2> QED
    BY <1>1, <2>2, RingProxyMoves
<1>6. CASE ReloadEnd
  <2>1. /\ phase = "reloading" /\ phase' = "up" /\ held' = {} /\ secret' = Reloaded
        /\ hup' = (hup /\ TRUE)
    BY <1>6 DEF ReloadEnd, Pending
  <2>2. told /\ ~hup /\ blob.key = keyFile => Reloaded = SecretOf(blob.item)
    <3>1. ASSUME told, ~hup, blob.key = keyFile
          PROVE  Reloaded = SecretOf(blob.item)
      <4>1. blob.key # Nil => Opens
        BY <2>1, <3>1, LoadsKey DEF RotationInv, InForce
      <4>2. blob.key = Nil => secret = Nil /\ SecretOf(blob.item) = Nil
        BY DEF RotationInv, InForce, FilesOK
      <4> QED
        BY <4>1, <4>2 DEF Reloaded
    <3> QED
      BY <3>1
  <2>3. blob.key = Nil => Reloaded = Nil
    BY NoBlobNoSecret DEF Reloaded
  <2>4. hup' => hup
    BY <2>1
  <2>5. ~hup' => ~hup
    BY <1>6 DEF ReloadEnd, Pending, RotationInv, InForce
  <2>6. InForce'
    BY <1>1, <2>1, <2>2, <2>3, <2>4, <2>5 DEF RotationInv, InForce
  <2> QED
    BY <1>1, <2>6, RingProxyMoves
<1>7. CASE Crash
  <2>1. InForce'
    BY <1>1, <1>7 DEF Crash, RotationInv, InForce
  <2> QED
    BY <1>1, <2>1, RingProxyMoves
<1> QED
  BY <1>2, <1>3, <1>4, <1>5, <1>6, <1>7 DEF Proxy

LEMMA RingMoves ==
    ASSUME RotationAssumption, OneBootstrap, RotationInv, [RingNext]_ringVars
    PROVE  RotationInv' /\ (blob' # blob => blob'.key = keyFile')
<1>1. CASE EditItem
  <2>1. UNCHANGED <<blob, keyFile, drawn, op, held, hup, phase, secret, told>>
    BY <1>1 DEF EditItem, ringFiles, proxyVars
  <2>2. InForce'
    BY <2>1 DEF RotationInv, InForce
  <2> QED
    BY <2>1, <2>2, RingProxyMoves
<1>2. CASE OperatorSignals
  <2>1. UNCHANGED <<blob, keyFile, drawn, op>> /\ Sighup
    BY <1>2 DEF OperatorSignals, ringFiles
  <2> QED
    BY <2>1, SignalInForce, RingProxyMoves
<1>3. ASSUME NEW o \in Operators, Command(o) \/ Stops(o)
      PROVE  RotationInv' /\ (blob' # blob => blob'.key = keyFile')
  <2>1. CASE BootstrapWrite(o) \/ RotateWrite(o)
    BY <2>1, RingWrite
  <2>2. CASE BootstrapFetch(o) \/ RotateFetch(o)
    BY <2>2, RingFetches DEF BootstrapFetch, RotateFetch, Fetch, ringFiles
  <2>3. CASE BootstrapReuse(o) \/ RotateBegin(o)
    BY <2>3, RingTakesKey DEF BootstrapReuse, RotateBegin, ringFiles
  <2>4. CASE BootstrapDraw(o)
    BY <2>4, RingDraw DEF BootstrapDraw
  <2>5. CASE BootstrapWriteKey(o)
    BY <2>5, RingWriteKey DEF BootstrapWriteKey
  <2>6. CASE RotateFind(o) \/ Stops(o)
    BY <2>6, RingFindOrStop DEF RotateFind, Stops, ringFiles
  <2>7. CASE RotateSignal(o)
    BY <2>7, RingSignal DEF RotateSignal, ringFiles
  <2> QED
    BY <1>3, <2>1, <2>2, <2>3, <2>4, <2>5, <2>6, <2>7 DEF Command
<1>4. CASE Proxy
  <2>1. blob' = blob
    BY <1>4 DEF Proxy, StartProxy, LoadKeyring, BeginServing, ReloadBegin, ReloadEnd,
                Crash, ringFiles
  <2> QED
    BY <1>4, <2>1, RingProxy
<1>5. CASE UNCHANGED ringVars
  <2>1. UNCHANGED <<blob, keyFile, drawn, op, held, hup, phase, secret, told>>
    BY <1>5 DEF ringVars
  <2>2. InForce'
    BY <2>1 DEF RotationInv, InForce
  <2> QED
    BY <2>1, <2>2, RingProxyMoves
<1> QED
  BY <1>1, <1>2, <1>3, <1>4, <1>5 DEF RingNext

\* No interleaving of rotations, signals, reloads and restarts loses a rotation that
\* was signalled after it was written (rotate-keyring of edge.rs, the SIGHUP handler
\* of server.rs).
THEOREM RotationsArrive ==
    ASSUME RotationAssumption, OneBootstrap PROVE RingSpec => []UpToDate
<1>1. RingInit => RotationInv
  BY RingStarts
<1>2. RotationInv /\ [RingNext]_ringVars => RotationInv'
  BY RingMoves
<1>3. RotationInv => UpToDate
  BY DEF RotationInv, InForce, UpToDate
<1> QED
  BY <1>1, <1>2, <1>3, PTL DEF RingSpec

\* The session key on disk opens every keyring.enc that a command writes, although the
\* command read that key in an earlier step (atomic_write in edge.rs).
THEOREM WritesAreReadable ==
    ASSUME RotationAssumption, OneBootstrap PROVE RingSpec => WrittenIsReadable
<1>1. RingInit => RotationInv
  BY RingStarts
<1>2. RotationInv /\ [RingNext]_ringVars => RotationInv'
  BY RingMoves
<1>3. RotationInv /\ [RingNext]_ringVars => (blob' # blob => blob'.key = keyFile')
  BY RingMoves
<1> QED
  BY <1>1, <1>2, <1>3, PTL DEF RingSpec, WrittenIsReadable

-----------------------------------------------------------------------------
(* What a command writes is no older than what it replaces.                 *)

\* The item a command has fetched, and is about to write.
HasItem(o) == op[o].at \in {"fetched", "drawn", "keyed", "pulled"}

ItemsOK ==
    /\ vault \in Item /\ blob.item \in Item
    /\ DOMAIN op = Operators
    /\ \A o \in Operators : op[o].item \in Item /\ (op[o].at = "idle" => ~HasItem(o))
    /\ blob.item.version <= vault.version
    /\ \A o \in Operators : op[o].item.version <= vault.version

\* As long as commands follow each other, one at most is under way.
OneCommand ==
    single => /\ \A o, q \in Operators : op[o].at = "idle" \/ op[q].at = "idle" \/ o = q
              /\ \A o \in Operators : HasItem(o) => op[o].item.version >= blob.item.version

ItemInv == ItemsOK /\ OneCommand

LEMMA ItemNumbers ==
    ASSUME RotationAssumption
    PROVE  /\ \A i \in Item : i.version \in Nat /\ i.version # Nil
           /\ Blank \in Item /\ \A i \in Item : i.version >= Blank.version
  BY DEF RotationAssumption, Item, Versions, Nil, Blank

LEMMA ItemInit == ASSUME RotationAssumption, RingInit PROVE ItemInv
<1>1. vault \in Item /\ Blank \in Item
  BY DEF RotationAssumption, RingInit, Item, Versions, Blank
<1>2. blob.item \in {Blank, vault}
  BY DEF RingInit, NoBlob
<1>3. blob.item.version = 1 /\ vault.version = 1 /\ Blank.version = 1
  BY <1>2 DEF RingInit, Blank
<1>4. \A o \in Operators : op[o].at = "idle" /\ op[o].item = Blank
  BY DEF RingInit, IdleOp
<1>5. \A o \in Operators : ~HasItem(o)
  BY <1>4 DEF HasItem
<1>6. DOMAIN op = Operators
  BY DEF RingInit
<1>7. vault.version \in Nat
  BY <1>3
<1>8. ItemsOK
  BY <1>1, <1>2, <1>3, <1>4, <1>5, <1>6 DEF ItemsOK
<1>9. OneCommand
  BY <1>4, <1>5 DEF OneCommand
<1> QED
  BY <1>8, <1>9 DEF ItemInv

\* A command that moves without taking or writing an item.
LEMMA ItemMoves ==
    ASSUME RotationAssumption, ItemInv, NEW o \in Operators, UNCHANGED <<vault, blob>>,
           single' => single, DOMAIN op' = Operators,
           \A q \in Operators \ {o} : op'[q] = op[q],
           op[o].at # "idle" \/ op'[o].at = "idle"
             \/ (single' => \A q \in Operators \ {o} : op[q].at = "idle"),
           op'[o].item \in Item, op'[o].item.version <= vault.version,
           HasItem(o)' => op'[o].item.version >= blob.item.version
                          \/ (HasItem(o) /\ op'[o].item = op[o].item)
    PROVE  ItemInv'
<1>1. ItemsOK'
  <2>1. \A q \in Operators : op'[q].item \in Item /\ op'[q].item.version <= vault.version
    BY DEF ItemInv, ItemsOK
  <2>2. \A q \in Operators : op'[q].at = "idle" => ~HasItem(q)'
    BY DEF HasItem
  <2> QED
    BY <2>1, <2>2 DEF ItemInv, ItemsOK
<1>2. ASSUME single' PROVE /\ \A a, b \in Operators : op'[a].at = "idle" \/ op'[b].at = "idle" \/ a = b
                          /\ \A a \in Operators : HasItem(a)' => op'[a].item.version >= blob'.item.version
  <2>1. \A a, b \in Operators : op'[a].at = "idle" \/ op'[b].at = "idle" \/ a = b
    BY <1>2 DEF ItemInv, OneCommand
  <2>2. \A a \in Operators : HasItem(a)' => op'[a].item.version >= blob'.item.version
    BY <1>2 DEF ItemInv, OneCommand, HasItem
  <2> QED
    BY <2>1, <2>2
<1> QED
  BY <1>1, <1>2 DEF ItemInv, OneCommand

\* Only the proxy, or nothing that counts here, moves.
LEMMA ItemStays ==
    ASSUME ItemInv, UNCHANGED <<vault, blob, op, single>> PROVE ItemInv'
  BY DEF ItemInv, ItemsOK, OneCommand, HasItem

LEMMA HeldItem ==
    ASSUME DOMAIN op = Operators, NEW o \in Operators, NEW stage, NEW key, NEW item, NEW p,
           Holds(o, stage, key, item, p)
    PROVE  /\ DOMAIN op' = Operators /\ \A q \in Operators \ {o} : op'[q] = op[q]
           /\ op'[o].at = stage /\ op'[o].item = item
  BY DEF Holds

LEMMA EndsItem ==
    ASSUME DOMAIN op = Operators, NEW o \in Operators, Finishes(o)
    PROVE  /\ DOMAIN op' = Operators /\ \A q \in Operators \ {o} : op'[q] = op[q]
           /\ op'[o].at = "idle" /\ op'[o].item = Blank
  BY DEF Finishes, IdleOp

\* A command that ends holds nothing.
LEMMA ItemEnds ==
    ASSUME RotationAssumption, ItemInv, NEW o \in Operators, UNCHANGED <<vault, blob,
           single>>, Finishes(o)
    PROVE  ItemInv'
<1>1. DOMAIN op = Operators /\ vault \in Item
  BY DEF ItemInv, ItemsOK
<1>2. /\ DOMAIN op' = Operators /\ \A q \in Operators \ {o} : op'[q] = op[q]
      /\ op'[o].at = "idle" /\ op'[o].item = Blank
  BY <1>1, EndsItem
<1>3. Blank \in Item /\ Blank.version <= vault.version
  BY <1>1, ItemNumbers DEF Blank
<1> QED
  BY <1>2, <1>3, ItemMoves DEF HasItem

\* A fetch takes the vault's item, which no blob is newer than.
LEMMA ItemFetches ==
    ASSUME RotationAssumption, ItemInv, NEW o \in Operators,
           BootstrapFetch(o) \/ RotateFetch(o)
    PROVE  ItemInv'
<1>1. DOMAIN op = Operators /\ vault \in Item /\ blob.item.version <= vault.version
      /\ vault.version \in Nat /\ blob.item.version \in Nat
  BY ItemNumbers DEF ItemInv, ItemsOK
<1>2. PICK stage \in {"fetched", "pulled"} : Holds(o, stage, op[o].key, vault, op[o].pid)
  BY DEF BootstrapFetch, RotateFetch, Fetch
<1>3. /\ DOMAIN op' = Operators /\ \A q \in Operators \ {o} : op'[q] = op[q]
      /\ op'[o].item = vault
  BY <1>1, <1>2, HeldItem
<1>4. UNCHANGED <<vault, blob>>
  BY DEF BootstrapFetch, RotateFetch, Fetch, ringFiles
<1>5. \/ op[o].at # "idle" /\ single' = single
      \/ single' => single /\ \A q \in Operators \ {o} : op[q].at = "idle"
  BY DEF BootstrapFetch, RotateFetch, Fetch, Begins, At
<1> QED
  BY <1>1, <1>3, <1>4, <1>5, ItemMoves

\* A command goes on with the item it has, or with none.
LEMMA ItemGoesOn ==
    ASSUME RotationAssumption, ItemInv, NEW o \in Operators,
           \/ BootstrapReuse(o) \/ BootstrapDraw(o) \/ BootstrapWriteKey(o)
           \/ RotateBegin(o) \/ RotateFind(o)
    PROVE  ItemInv'
<1>1. DOMAIN op = Operators /\ op[o].item \in Item /\ op[o].item.version <= vault.version
  BY DEF ItemInv, ItemsOK
<1>2. UNCHANGED <<vault, blob>>
  BY DEF BootstrapReuse, BootstrapDraw, BootstrapWriteKey, RotateBegin,
         RotateFind, ringFiles
<1>3. CASE RotateFind(o) /\ Finishes(o)
  BY <1>2, <1>3, ItemEnds DEF RotateFind
<1>4. ASSUME NEW stage, NEW key, NEW p, Holds(o, stage, key, op[o].item, p),
             stage \in {"keyed", "drawn"} => HasItem(o), stage \in {"keyed", "drawn", "opened", "found"},
             \/ op[o].at # "idle" /\ single' = single
             \/ single' => single /\ \A q \in Operators \ {o} : op[q].at = "idle"
      PROVE  ItemInv'
  <2>1. /\ DOMAIN op' = Operators /\ \A q \in Operators \ {o} : op'[q] = op[q]
        /\ op'[o].at = stage /\ op'[o].item = op[o].item
    BY <1>1, <1>4, HeldItem
  <2>2. HasItem(o)' => HasItem(o) /\ op'[o].item = op[o].item
    BY <1>4, <2>1 DEF HasItem
  <2> QED
    BY <1>1, <1>2, <1>4, <2>1, <2>2, ItemMoves
<1>5. CASE BootstrapReuse(o) \/ BootstrapDraw(o) \/ BootstrapWriteKey(o)
  <2>1. op[o].at \in {"fetched", "drawn"} /\ single' = single
    BY <1>5 DEF BootstrapReuse, BootstrapDraw, BootstrapWriteKey, At
  <2>2. PICK stage \in {"keyed", "drawn"} : \E key : Holds(o, stage, key, op[o].item, op[o].pid)
    BY <1>5 DEF BootstrapReuse, BootstrapDraw, BootstrapWriteKey, TakesKey,
                GoesTo
  <2>3. PICK key : Holds(o, stage, key, op[o].item, op[o].pid)
    BY <2>2
  <2> QED
    BY <1>4, <2>1, <2>3 DEF HasItem
<1>6. CASE RotateBegin(o)
  <2>1. Holds(o, "opened", keyFile, op[o].item, op[o].pid)
        /\ (single' => single /\ \A q \in Operators \ {o} : op[q].at = "idle")
    BY <1>6 DEF RotateBegin, TakesKey, Begins, At
  <2> QED
    BY <1>4, <2>1
<1>7. CASE RotateFind(o) /\ ~Finishes(o)
  <2>1. op[o].at = "written" /\ single' = single /\ Holds(o, "found", op[o].key, op[o].item, pid)
    BY <1>7 DEF RotateFind, At
  <2> QED
    BY <1>4, <2>1
<1> QED
  BY <1>3, <1>5, <1>6, <1>7

\* The blob takes the item of the command, and no other command holds one.
LEMMA ItemWrites ==
    ASSUME RotationAssumption, ItemInv, NEW o \in Operators,
           BootstrapWrite(o) \/ RotateWrite(o)
    PROVE  ItemInv' /\ (single' => blob'.item.version >= blob.item.version)
<1>1. DOMAIN op = Operators /\ op[o].item \in Item /\ op[o].item.version <= vault.version
      /\ vault \in Item
  BY DEF ItemInv, ItemsOK
<1>2. HasItem(o) /\ blob'.item = op[o].item /\ vault' = vault /\ single' = single
      /\ op[o].at # "idle"
  BY DEF BootstrapWrite, RotateWrite, At, WriteBlob, BlobOf, HasItem
<1>3. /\ DOMAIN op' = Operators /\ \A q \in Operators \ {o} : op'[q] = op[q]
      /\ op'[o].at \in {"idle", "written"} /\ op'[o].item \in {Blank, op[o].item}
  <2>1. CASE BootstrapWrite(o)
    BY <1>1, <2>1, EndsItem DEF BootstrapWrite
  <2>2. CASE RotateWrite(o)
    BY <1>1, <2>2, HeldItem DEF RotateWrite, GoesTo
  <2> QED
    BY <2>1, <2>2
<1>4. op'[o].item \in Item /\ op'[o].item.version <= vault'.version
  BY <1>1, <1>2, <1>3, ItemNumbers DEF Blank
<1>5. ItemsOK'
  <2>1. \A q \in Operators : op'[q].item \in Item /\ op'[q].item.version <= vault'.version
    BY <1>2, <1>3, <1>4 DEF ItemInv, ItemsOK
  <2>2. \A q \in Operators : op'[q].at = "idle" => ~HasItem(q)'
    BY DEF HasItem
  <2> QED
    BY <1>1, <1>2, <1>3, <2>1, <2>2 DEF ItemsOK
<1>6. ASSUME single
      PROVE  /\ \A q \in Operators \ {o} : op'[q].at = "idle"
             /\ \A q \in Operators : ~HasItem(q)'
             /\ op[o].item.version >= blob.item.version
  <2>1. \A q \in Operators \ {o} : op[q].at = "idle"
    BY <1>2, <1>6 DEF ItemInv, OneCommand
  <2> QED
    BY <1>2, <1>3, <1>6, <2>1 DEF ItemInv, OneCommand, HasItem
<1>7. OneCommand'
  BY <1>2, <1>6 DEF OneCommand
<1> QED
  BY <1>2, <1>5, <1>6, <1>7 DEF ItemInv

LEMMA ItemStep ==
    ASSUME RotationAssumption, ItemInv, [RingNext]_ringVars
    PROVE  ItemInv' /\ (single' => blob'.item.version >= blob.item.version)
<1>0. blob' = blob => blob'.item.version >= blob.item.version
  BY ItemNumbers DEF ItemInv, ItemsOK
<1>1. CASE EditItem
  <2>1. vault.version \in Nat /\ vault'.version = vault.version + 1 /\ vault' \in Item
        /\ UNCHANGED <<blob, op, single>>
    <3>1. PICK signs \in BOOLEAN : vault' = [version |-> vault.version + 1, signs |-> signs]
      BY <1>1 DEF EditItem
    <3>2. vault.version \in Nat /\ vault.version < MaxVersion /\ MaxVersion \in Nat
      BY <1>1, ItemNumbers DEF EditItem, RotationAssumption, ItemInv, ItemsOK
    <3>3. vault.version + 1 \in Versions
      BY <3>2 DEF Versions
    <3> QED
      BY <1>1, <3>1, <3>2, <3>3 DEF EditItem, Item, ringFiles
  <2>2. blob.item.version \in Nat /\ \A o \in Operators : op[o].item.version \in Nat
    BY ItemNumbers DEF ItemInv, ItemsOK
  <2>3. ItemsOK'
    BY <2>1, <2>2 DEF ItemInv, ItemsOK, HasItem
  <2>4. OneCommand'
    BY <2>1 DEF ItemInv, OneCommand, HasItem
  <2> QED
    BY <1>0, <2>1, <2>3, <2>4 DEF ItemInv
<1>2. CASE OperatorSignals \/ Proxy
  <2>1. UNCHANGED <<vault, blob, op, single>>
    BY <1>2 DEF OperatorSignals, Sighup, Proxy, StartProxy, LoadKeyring, BeginServing,
                ReloadBegin, ReloadEnd, Crash, ringFiles
  <2> QED
    BY <1>0, <2>1, ItemStays
<1>3. ASSUME NEW o \in Operators, Command(o) \/ Stops(o)
      PROVE  ItemInv' /\ (single' => blob'.item.version >= blob.item.version)
  <2>1. CASE BootstrapWrite(o) \/ RotateWrite(o)
    BY <2>1, ItemWrites
  <2>2. CASE BootstrapFetch(o) \/ RotateFetch(o)
    BY <1>0, <2>2, ItemFetches DEF BootstrapFetch, RotateFetch, Fetch, ringFiles
  <2>3. CASE BootstrapReuse(o) \/ BootstrapDraw(o) \/ BootstrapWriteKey(o) \/ RotateBegin(o) \/ RotateFind(o)
    BY <1>0, <2>3, ItemGoesOn
       DEF BootstrapReuse, BootstrapDraw, BootstrapWriteKey, RotateBegin,
           RotateFind, ringFiles
  <2>4. CASE RotateSignal(o) \/ Stops(o)
    <3>1. UNCHANGED <<vault, blob, single>> /\ Finishes(o)
      BY <2>4 DEF RotateSignal, Stops, Sighup, ringFiles
    <3> QED
      BY <1>0, <3>1, ItemEnds
  <2> QED
    BY <1>3, <2>1, <2>2, <2>3, <2>4 DEF Command
<1>4. CASE UNCHANGED ringVars
  BY <1>0, <1>4, ItemStays DEF ringVars
<1> QED
  BY <1>1, <1>2, <1>3, <1>4 DEF RingNext

\* As long as commands follow each other, killed anywhere or not, keyring.enc never goes
\* back to an older item (rotate-keyring and bootstrap-keyring of edge.rs).
THEOREM RotationsGoForward == RotationAssumption => (RingSpec => NeverOlder)
<1> SUFFICES ASSUME RotationAssumption PROVE RingSpec => NeverOlder
  OBVIOUS
<1>1. RingInit => ItemInv
  BY ItemInit
<1>2. ItemInv /\ [RingNext]_ringVars => ItemInv' /\ (single' => blob'.item.version >= blob.item.version)
  BY ItemStep
<1> QED
  BY <1>1, <1>2, PTL DEF RingSpec, NeverOlder

\* A reload takes the secret away only if it read a keyring that opened and has none
\* (SigVerifyConfig::reload of sig_verify.rs keeps the old one on an error).
THEOREM FailedReloadsKeepTheSecret ==
    RotationAssumption => (RingSpec => SecretSurvivesFailedReload)
<1> SUFFICES ASSUME RotationAssumption PROVE RingSpec => SecretSurvivesFailedReload
  OBVIOUS
<1>1. RingInit => ItemInv
  BY ItemInit
<1>2. ItemInv /\ [RingNext]_ringVars => ItemInv'
  BY ItemStep
<1>3. ASSUME ItemInv, [RingNext]_ringVars, phase = "reloading", phase' = "up", secret # Nil, secret' = Nil
      PROVE  Opens /\ ~blob.item.signs
  <2>1. ReloadEnd
    BY <1>3 DEF RingNext, ringVars, EditItem, OperatorSignals, Installed,
                Sighup, Command, Stops, Proxy,
                BootstrapFetch, BootstrapReuse, BootstrapDraw,
                BootstrapWriteKey, BootstrapWrite,
                RotateBegin, RotateFetch, RotateWrite, RotateFind,
                RotateSignal, Fetch,
                StartProxy, LoadKeyring, BeginServing, ReloadBegin, Crash, proxyVars
  <2>2. secret' = IF Opens THEN SecretOf(blob.item) ELSE secret
    BY <2>1 DEF ReloadEnd, Reloaded
  <2>3. Opens /\ SecretOf(blob.item) = Nil
    BY <1>3, <2>2
  <2>4. blob.item.version # Nil
    BY <1>3, ItemNumbers DEF ItemInv, ItemsOK
  <2> QED
    BY <2>3, <2>4 DEF SecretOf
<1>4. ItemInv /\ [RingNext]_ringVars =>
        (phase = "reloading" /\ phase' = "up" /\ secret # Nil /\ secret' = Nil
           => Opens /\ ~blob.item.signs)
  BY <1>3
<1> QED
  BY <1>1, <1>2, <1>4, PTL DEF RingSpec, SecretSurvivesFailedReload

\* Neither a write nor a reload loses the secret: every keyring.enc that is written opens
\* with the session key beside it, and a reload that cannot open one keeps the secret it
\* has (atomic_write in edge.rs, SigVerifyConfig::reload of sig_verify.rs).
THEOREM SecretsAreKept ==
    ASSUME RotationAssumption, OneBootstrap PROVE RingSpec => NoSecretIsLost
<1>1. RotationAssumption => (RingSpec => SecretSurvivesFailedReload)
  BY FailedReloadsKeepTheSecret
<1>2. WrittenIsReadable /\ SecretSurvivesFailedReload => NoSecretIsLost
  BY DEF NoSecretIsLost
<1> QED
  BY <1>1, <1>2, WritesAreReadable
=============================================================================
