--------------------------- MODULE KeyringRotation ---------------------------
(***************************************************************************)
(* The keyring of an edge VM and how its signing secret reaches the proxy: *)
(* `ati edge bootstrap-keyring` and `rotate-keyring` (src/cli/edge.rs),    *)
(* the two session keys (src/core/keyring.rs, src/security/sealed_file.rs) *)
(* and the proxy's start and SIGHUP handler (src/proxy/server.rs,          *)
(* src/core/sig_verify.rs).                                                *)
(*                                                                         *)
(* The commands are processes: nothing locks the files, each system call   *)
(* is a step, and a command may die between any two (a killed process and  *)
(* a failed call leave the same files).  A secret is the version of the    *)
(* 1Password item it was fetched from; a ciphertext is the session key and *)
(* the item it was made from, and opens under that key alone.              *)
(***************************************************************************)
EXTENDS Integers

CONSTANTS
    Rotators, Bootstrappers,    \* processes that run `ati edge`
    Enforce,                    \* --sig-verify-mode enforce
    MaxVersion, MaxKeys, MaxPid \* bounds: edits of the item, session keys, starts

RotationAssumption ==
    /\ MaxVersion \in Nat \ {0} /\ MaxKeys \in Nat \ {0} /\ MaxPid \in Nat \ {0}
    /\ Enforce \in BOOLEAN

Operators == Rotators \cup Bootstrappers
Versions  == 1..MaxVersion
Keys      == 1..MaxKeys
Nil == 0                        \* no key, no secret, no process

\* The 1Password item; `signs` when it has the field of the signing secret.
Item  == [version : Versions, signs : BOOLEAN]
Blank == [version |-> 1, signs |-> FALSE]
Blob  == [key : Keys, item : Item]
NoBlob == [key |-> Nil, item |-> Blank]
SecretOf(item) == IF item.signs THEN item.version ELSE Nil

VARIABLES
    vault,   \* the item as 1Password has it
    blob,    \* keyring.enc
    keyFile, \* .keyring-key, the persistent session key
    sealed,  \* /run/ati/.key, the session key that is read once
    drawn,   \* session keys drawn so far (each is 256 random bits)
    op,      \* per operator: step of the command, key, item and pid it holds
    phase,   \* of the proxy
    pid,     \* of the proxy; it grows with each start
    held,    \* the session keys a load of the proxy has read
    hup,     \* a SIGHUP that the handler has not received
    secret,  \* SigVerifyConfig.secret
    told,    \* history: a SIGHUP was delivered after the last write of blob
    single   \* history: no command began while another was under way

ringFiles     == <<blob, keyFile, sealed, drawn>>
proxyVars == <<phase, pid, held, hup, secret>>
ringVars      == <<vault, blob, keyFile, sealed, drawn, op, phase, pid, held,
                   hup, secret, told, single>>

IdleOp == [at |-> "idle", key |-> Nil, item |-> Blank, pid |-> Nil]

\* A fresh VM; or one whose orchestrator left keyring.enc and its one-shot key.
RingInit ==
    /\ vault = [version |-> 1, signs |-> TRUE]
    /\ \/ blob = NoBlob /\ sealed = Nil /\ drawn = 0
       \/ blob = [key |-> 1, item |-> vault] /\ sealed = 1 /\ drawn = 1
    /\ keyFile = Nil
    /\ op = [o \in Operators |-> IdleOp]
    /\ phase = "down" /\ pid = Nil /\ held = {} /\ hup = FALSE
    /\ secret = Nil
    /\ told = FALSE /\ single = TRUE

EditItem ==
    /\ vault.version < MaxVersion
    /\ \E signs \in BOOLEAN :
         vault' = [version |-> vault.version + 1, signs |-> signs]
    /\ UNCHANGED <<ringFiles, proxyVars, op, told, single>>

-----------------------------------------------------------------------------
(* ati edge                                                                 *)

At(o, stage) == op[o].at = stage
Holds(o, stage, key, item, p) ==
    op' = [op EXCEPT ![o] = [at |-> stage, key |-> key, item |-> item, pid |-> p]]
GoesTo(o, stage) == Holds(o, stage, op[o].key, op[o].item, op[o].pid)
TakesKey(o, stage, key) == Holds(o, stage, key, op[o].item, op[o].pid)
\* A command that begins now is alone if no other is under way.
Begins(o) == single' = (single /\ \A p \in Operators \ {o} : At(p, "idle"))
Finishes(o) == op' = [op EXCEPT ![o] = IdleOp]

\* fetch_keyring_json
Fetch(o, from, to) ==
    /\ At(o, from)
    /\ Holds(o, to, op[o].key, vault, op[o].pid)
    /\ UNCHANGED <<vault, ringFiles, proxyVars, told>>

BootstrapFetch(o) ==
    /\ o \in Bootstrappers
    /\ Fetch(o, "idle", "fetched")
    /\ Begins(o)

\* load_or_generate_session_key: the file exists, and is read ...
BootstrapReuse(o) ==
    /\ At(o, "fetched") /\ keyFile # Nil
    /\ TakesKey(o, "keyed", keyFile)
    /\ UNCHANGED <<vault, ringFiles, proxyVars, told, single>>

\* ... or it does not, and a key is drawn and then written.
BootstrapDraw(o) ==
    /\ At(o, "fetched") /\ keyFile = Nil /\ drawn < MaxKeys
    /\ drawn' = drawn + 1
    /\ TakesKey(o, "drawn", drawn + 1)
    /\ UNCHANGED <<vault, blob, keyFile, sealed, proxyVars, told, single>>

BootstrapWriteKey(o) ==
    /\ At(o, "drawn")
    /\ keyFile' = op[o].key
    /\ GoesTo(o, "keyed")
    /\ UNCHANGED <<vault, blob, sealed, drawn, proxyVars, told, single>>

\* Mutant: the blob is encrypted with a key of its own.
BlobOfNewKey(o) == [key |-> MaxKeys, item |-> op[o].item]

BlobOf(o) == [key |-> op[o].key, item |-> op[o].item]

\* encrypt_keyring and atomic_write
WriteBlob(o) == blob' = BlobOf(o) /\ told' = FALSE /\ UNCHANGED single

BootstrapWrite(o) ==
    /\ At(o, "keyed")
    /\ WriteBlob(o)
    /\ Finishes(o)
    /\ UNCHANGED <<vault, keyFile, sealed, drawn, proxyVars>>

RotateBegin(o) ==
    /\ o \in Rotators /\ At(o, "idle")
    /\ blob # NoBlob /\ keyFile # Nil
    /\ TakesKey(o, "opened", keyFile)
    /\ Begins(o)
    /\ UNCHANGED <<vault, ringFiles, proxyVars, told>>

\* Mutant: a failed fetch is taken for an empty item.
FetchOrEmpty(o) ==
    /\ At(o, "opened")
    /\ GoesTo(o, "pulled")
    /\ UNCHANGED <<vault, ringFiles, proxyVars, told, single>>

RotateFetch(o) == Fetch(o, "opened", "pulled") /\ UNCHANGED single

RotateWrite(o) ==
    /\ At(o, "pulled")
    /\ WriteBlob(o)
    /\ GoesTo(o, "written")
    /\ UNCHANGED <<vault, keyFile, sealed, drawn, proxyVars>>

Runs == phase \notin {"down", "stopped"}

\* find_service_pid; with no MainPID the command ends with a warning.
RotateFind(o) ==
    /\ At(o, "written")
    /\ IF Runs
       THEN Holds(o, "found", op[o].key, op[o].item, pid)
       ELSE Finishes(o)
    /\ UNCHANGED <<vault, ringFiles, proxyVars, told, single>>

\* install_sighup_reload_handler has run.
Installed == phase \in {"up", "reloading"}

\* kill(2) to the process that runs.  Before the handler is installed the default
\* disposition ends the process, and systemd, which counts SIGHUP as a clean
\* exit, does not restart it.
Sighup ==
    IF Installed
    THEN hup' = TRUE /\ told' = TRUE /\ UNCHANGED <<phase, held, secret, single>>
    ELSE /\ phase' = "stopped" /\ held' = {} /\ secret' = Nil
         /\ UNCHANGED <<hup, told, single>>

\* send_sighup: to the process found, if it is the one that still runs.
RotateSignal(o) ==
    /\ At(o, "found")
    /\ Finishes(o)
    /\ IF op[o].pid = pid /\ Runs
       THEN Sighup
       ELSE UNCHANGED <<hup, told, single, phase, held, secret>>
    /\ UNCHANGED <<vault, ringFiles, pid>>

\* An operator signals the proxy once it serves.
OperatorSignals ==
    /\ Installed /\ Sighup
    /\ UNCHANGED <<vault, ringFiles, op, pid>>

\* --no-signal, an error of any call, or a killed command.
Stops(o) ==
    /\ ~At(o, "idle")
    /\ Finishes(o)
    /\ UNCHANGED <<vault, ringFiles, proxyVars, told, single>>

-----------------------------------------------------------------------------
(* The proxy                                                                *)

\* Keyring::load reads the one-shot key and removes its file, whether or not it
\* opens keyring.enc; load_local then reads the persistent key.  Without
\* keyring.enc neither is read, and the keyring is empty.
ReadKeys ==
    IF blob = NoBlob
    THEN held' = {} /\ UNCHANGED sealed
    ELSE held' = {sealed, keyFile} \ {Nil} /\ sealed' = Nil

Opens == blob.key \in held

\* What the load of a start yields; a failed one yields the empty keyring.
StartItem == IF Opens THEN blob.item ELSE Blank

\* systemd starts the unit, or an operator does.
StartProxy ==
    /\ phase \in {"down", "stopped"} /\ pid < MaxPid
    /\ phase' = "loading" /\ pid' = pid + 1
    /\ ReadKeys
    /\ UNCHANGED <<vault, blob, keyFile, drawn, op, hup, secret, told, single>>

\* The rest of the start: SigVerifyConfig::build, PassthroughRouter::build and
\* the gate of enforce mode.
LoadKeyring ==
    /\ phase = "loading"
    /\ held' = {}
    /\ IF Enforce /\ SecretOf(StartItem) = Nil
       THEN phase' = "down" /\ UNCHANGED secret
       ELSE /\ phase' = "starting"
            /\ secret' = SecretOf(StartItem)
    /\ UNCHANGED <<vault, ringFiles, op, pid, hup, told, single>>

\* install_sighup_reload_handler, and axum::serve.
BeginServing ==
    /\ phase = "starting"
    /\ phase' = "up"
    /\ UNCHANGED <<vault, ringFiles, op, pid, held, hup, secret, told, single>>

\* Mutant: the signal is consumed after the reload.
PendingAfterReload(stage) == hup /\ stage # "end"

\* What is left of the pending signal: recv consumes it before the files are read.
Pending(stage) == hup /\ stage # "begin"

\* sig.recv() and the first half of reload_keyring.
ReloadBegin ==
    /\ phase = "up" /\ hup
    /\ phase' = "reloading"
    /\ hup' = Pending("begin")
    /\ ReadKeys
    /\ UNCHANGED <<vault, blob, keyFile, drawn, op, pid, secret, told, single>>

\* Err keeps the secret that was loaded.
Reloaded == IF Opens THEN SecretOf(blob.item) ELSE secret

\* The second half, and SigVerifyConfig::reload.
ReloadEnd ==
    /\ phase = "reloading"
    /\ phase' = "up" /\ held' = {}
    /\ secret' = Reloaded
    /\ hup' = Pending("end")
    /\ UNCHANGED <<vault, ringFiles, op, pid, told, single>>

Crash ==
    /\ Runs
    /\ phase' = "down" /\ held' = {} /\ hup' = FALSE
    /\ secret' = Nil
    /\ UNCHANGED <<vault, ringFiles, op, pid, told, single>>

Command(o) ==
    \/ BootstrapFetch(o) \/ BootstrapReuse(o) \/ BootstrapDraw(o)
    \/ BootstrapWriteKey(o) \/ BootstrapWrite(o)
    \/ RotateBegin(o) \/ RotateFetch(o) \/ RotateWrite(o)
    \/ RotateFind(o) \/ RotateSignal(o)

Proxy == StartProxy \/ LoadKeyring \/ BeginServing \/ ReloadBegin \/ ReloadEnd \/ Crash

RingNext ==
    \/ EditItem \/ OperatorSignals
    \/ \E o \in Operators : Command(o) \/ Stops(o)
    \/ Proxy

RingSpec == RingInit /\ [][RingNext]_ringVars

\* The SIGHUP task of a running proxy is scheduled.
FairRingSpec == RingSpec /\ WF_ringVars(ReloadBegin) /\ WF_ringVars(ReloadEnd)

-----------------------------------------------------------------------------
(* Correctness                                                              *)

\* Values have their types; the keys a load holds, and a signal, belong to a
\* process that runs.
RingTypeOK ==
    /\ vault \in Item
    /\ blob \in Blob \cup {NoBlob}
    /\ keyFile \in Keys \cup {Nil} /\ sealed \in Keys \cup {Nil}
    /\ drawn \in 0..MaxKeys
    /\ op \in [Operators -> [at : {"idle", "opened", "fetched", "drawn", "keyed",
                                   "pulled", "written", "found"},
                             key : Keys \cup {Nil}, item : Item, pid : 0..MaxPid]]
    /\ phase \in {"down", "stopped", "loading", "starting", "up", "reloading"}
    /\ pid \in 0..MaxPid
    /\ held \subseteq Keys
    /\ hup \in BOOLEAN /\ told \in BOOLEAN /\ single \in BOOLEAN
    /\ secret \in Versions \cup {Nil}
    /\ held # {} => phase \in {"loading", "reloading"}
    /\ hup => phase \in {"up", "reloading"}
    /\ ~Runs => secret = Nil

\* A proxy that was signalled after the last write of keyring.enc, and has no
\* signal left to handle, verifies with the secret on disk: no interleaving of
\* commands, signals, reloads and restarts loses a rotation.
UpToDate ==
    phase = "up" /\ ~hup /\ told /\ blob.key = keyFile
        => secret = SecretOf(blob.item)

\* keyring.enc is only ever replaced by a blob that the session key on disk opens,
\* although the command read that key in an earlier step.
WrittenIsReadable == [][blob' # blob => blob'.key = keyFile']_ringVars

\* A reload removes the secret only when a keyring that opened has none; a failed
\* read never turns the proxy into one that refuses every request.
SecretSurvivesFailedReload ==
    [][phase = "reloading" /\ phase' = "up" /\ secret # Nil /\ secret' = Nil
         => Opens /\ ~blob.item.signs]_ringVars

\* No write makes the keyring unreadable, and no reload that fails loses the secret
\* that was loaded.
NoSecretIsLost == WrittenIsReadable /\ SecretSurvivesFailedReload

\* As long as commands follow each other, none replaces a keyring by an older one,
\* killed anywhere or not.  Of two that overlap the one that fetched first may
\* write last.
NeverOlder == [][single' => blob'.item.version >= blob.item.version]_ringVars

\* A serving proxy that was signalled after the last write comes to verify with the
\* item on disk, unless it goes down or the files change again.
Outdated == told /\ Installed /\ blob.key = keyFile /\ secret # SecretOf(blob.item)
RotationTakesEffect == []<>~Outdated

\* deploy/examples/vm/README.md:123: "The proxy hot-reloads the HMAC signing
\* secret without restarting": a signal does not stop a proxy that is starting.
SignalIsSurvived == [][~Installed /\ Runs => phase' # "stopped"]_ringVars
=============================================================================
