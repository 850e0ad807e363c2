------------------------------ MODULE Envelope ------------------------------
(* Envelope encryption as src/core/secrets.rs does it: a row's data key is   *)
(* wrapped by the master key that was active in the process that wrote it,   *)
(* and the row records that key's version. Processes read the master keys    *)
(* from their environment once, when they start; an operator changes the     *)
(* environment one variable at a time and rolls the processes over before    *)
(* the next change, as the module's documentation describes a rotation.      *)
(*                                                                           *)
(* A key is a model value, a variable that cannot be decoded to 32 bytes is  *)
(* NotAKey. Ciphers are ideal: a data key unwraps only under the key that    *)
(* wrapped it, and a ciphertext opens only with its data key and the         *)
(* associated data it was sealed with.                                       *)
EXTENDS Naturals, FiniteSets

CONSTANTS
    Pods,       \* processes that share the rows
    MasterKeys, \* 32-byte master keys
    NotAKey,    \* what is no such key
    Slots,      \* identities of rows: the associated data callers pass
    None

\* ATI_MASTER_KEY_<id>; the bare ATI_MASTER_KEY is "bare", and is loaded as m1.
KeyVersions == {"m1", "m2"}

EnvelopeAssumption ==
    /\ NotAKey \notin MasterKeys /\ None \notin MasterKeys \cup {NotAKey} \cup KeyVersions

VARIABLES
    env,      \* the environment processes start with: variables and `active`
    kek,      \* kek[p] : the key-encryption keys of a running process, or None
    envelopes \* envelopes[s] : the envelope in slot s, or None

envelopeVars == <<env, kek, envelopes>>

(***************************************************************************)
(* LocalKek::from_env_with                                                 *)
(***************************************************************************)
Vars(e) == {v \in KeyVersions : e[v] # None}

\* A mutation: the bare key is ignored once ATI_MASTER_KEY_ACTIVE is set.
WithoutBare(e) ==
    IF e.active = None /\ e.bare # None THEN [v \in {"m1"} |-> e.bare]
    ELSE [v \in Vars(e) |-> e[v]]

\* The bare key is version m1 unless m1 is set as well.
LoadedKeys(e) ==
    IF e.active = None /\ e.bare # None THEN [v \in {"m1"} |-> e.bare]
    ELSE [v \in Vars(e) \cup (IF e.bare # None THEN {"m1"} ELSE {}) |->
            IF e[v] # None THEN e[v] ELSE e.bare]

\* A process with a key that does not decode, or without the active one, ends.
Refuses(e) ==
    \/ e.active = None /\ e.bare \in {None, NotAKey}
    \/ /\ e.active # None
       /\ \/ e.active \notin DOMAIN LoadedKeys(e)
          \/ NotAKey \in {e.bare, e["m1"], e["m2"]}

FromEnv(e) ==
    [active |-> IF e.active = None THEN "m1" ELSE e.active, keys |-> LoadedKeys(e)]

(***************************************************************************)
(* seal and open                                                           *)
(***************************************************************************)
\* `dek` stands for the wrapped data key by the key that wraps it.
Seal(k, slot) == [dek |-> k.keys[k.active], id |-> k.active, aad |-> slot]

Unwrap(k, wrapped) ==
    IF wrapped.id \notin DOMAIN k.keys THEN "key version not found"
    ELSE IF k.keys[wrapped.id] # wrapped.dek THEN "unwrap failed" ELSE "data key"

OpenRow(k, wrapped, slot) ==
    IF Unwrap(k, wrapped) # "data key" THEN Unwrap(k, wrapped)
    ELSE IF wrapped.aad # slot THEN "open failed" ELSE "plaintext"

(***************************************************************************)
(* Operators and processes                                                 *)
(***************************************************************************)
Running == {p \in Pods : kek[p] # None}
RolledOut == \A p \in Running : kek[p] = FromEnv(env)

\* A roll-out restarts the processes in any order; one that finds a variable
\* it cannot decode ends, and the others go on with the keys they have.
StartProcess(p) ==
    /\ kek' = [kek EXCEPT ![p] = IF Refuses(env) THEN None ELSE FromEnv(env)]
    /\ UNCHANGED <<env, envelopes>>

WriteRow(p, slot) ==
    /\ kek[p] # None
    /\ envelopes' = [envelopes EXCEPT ![slot] = Seal(kek[p], slot)]
    /\ UNCHANGED <<env, kek>>

Drop(slot) ==
    /\ envelopes[slot] # None
    /\ envelopes' = [envelopes EXCEPT ![slot] = None]
    /\ UNCHANGED <<env, kek>>

Change(e) ==
    /\ Running = Pods /\ RolledOut
    /\ env' = e
    /\ UNCHANGED <<kek, envelopes>>

\* A key is added, rightly or mistyped, under a version that no variable names
\* yet. The version m1 of a deployment that began with the bare key can only
\* repeat that key.
AddVersion(v, key) ==
    /\ env[v] = None
    /\ (v = "m1" /\ env.bare # None) => key \in {env.bare, NotAKey}
    /\ Change([env EXCEPT ![v] = key])

RemoveMistyped(v) ==
    /\ env[v] = NotAKey
    /\ env' = [env EXCEPT ![v] = None]
    /\ UNCHANGED <<kek, envelopes>>

Activate(v) ==
    /\ v \in DOMAIN LoadedKeys(env)
    /\ NotAKey \notin {env["m1"], env["m2"]}
    /\ Change([env EXCEPT !.active = v])

\* The bare variable goes once m1 repeats it and versions are in use.
DropBare == env["m1"] = env.bare /\ env.active # None /\ Change([env EXCEPT !.bare = None])

\* A version is retired when no row carries it and no process writes with it.
Retire(v) ==
    /\ env[v] # None /\ v # env.active /\ env.active # None
    /\ (v = "m1" => env.bare = None)
    /\ \A slot \in Slots : envelopes[slot] # None => envelopes[slot].id # v
    /\ Change([env EXCEPT ![v] = None])

EnvelopeInit ==
    /\ env \in {[active |-> None, bare |-> key, m1 |-> None, m2 |-> None] : key \in MasterKeys}
    /\ kek = [p \in Pods |-> FromEnv(env)]
    /\ envelopes = [slot \in Slots |-> None]

EnvelopeNext ==
    \/ \E p \in Pods : StartProcess(p)
    \/ \E p \in Pods, slot \in Slots : WriteRow(p, slot)
    \/ \E slot \in Slots : Drop(slot)
    \/ \E v \in KeyVersions, key \in MasterKeys \cup {NotAKey} : AddVersion(v, key)
    \/ \E v \in KeyVersions : RemoveMistyped(v) \/ Activate(v) \/ Retire(v)
    \/ DropBare

EnvelopeSpec == EnvelopeInit /\ [][EnvelopeNext]_envelopeVars

(***************************************************************************)
(* Properties                                                              *)
(***************************************************************************)
EnvelopeTypeOK ==
    /\ env.active \in KeyVersions \cup {None}
    /\ \A slot \in Slots : envelopes[slot] # None => envelopes[slot].id \in KeyVersions

\* Through every step of a rotation, roll-outs that are half done included,
\* an environment is refused only for a mistyped variable, and every process
\* that runs opens every row, in the slot it was written for and in no other.
EveryRowOpens ==
    /\ Refuses(env) => NotAKey \in {env["m1"], env["m2"]}
    /\ \A p \in Running, slot, at \in Slots :
         envelopes[slot] # None =>
           (OpenRow(kek[p], envelopes[slot], at) = "plaintext") <=> (at = slot)
=============================================================================
