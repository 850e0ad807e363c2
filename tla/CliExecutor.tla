---------------------------- MODULE CliExecutor ----------------------------
(***************************************************************************)
(* The tools that are command lines (src/core/cli_executor.rs): a call     *)
(* writes its provider's credential to a file, swaps the output paths of   *)
(* its arguments for temporary ones, runs the subprocess under a timeout   *)
(* and collects what it wrote; the sandbox then writes that to the paths   *)
(* its caller meant (src/cli/cli_capture.rs).                              *)
(*                                                                         *)
(* Calls run on several threads and share a directory of credentials: with *)
(* an ephemeral keyring every file has a name of its own and is wiped when *)
(* the call ends, else all calls use one.  A write to a file may fail half *)
(* way, and a file may refuse to go.  A future may be dropped at its       *)
(* awaits.  A killed subprocess is gone at once.                           *)
(***************************************************************************)
EXTENDS Integers, FiniteSets, SequencesExt

CONSTANTS
    CliCalls,
    OutFlags,   \* cli_output_args
    Positional, \* cli_output_positional: rules [prefix, index]
    Commands,   \* argument lists: sequences of tokens
    Generated,  \* the provider has an auth_generator
    MaxBusy     \* times a spawn finds its text busy (10 in the code)

CliAssumption ==
    /\ \A args \in Commands : args \in Seq({args[i] : i \in DOMAIN args})
    /\ \A r \in Positional :
         r.index \in Nat /\ r.prefix \in Seq({r.prefix[i] : i \in DOMAIN r.prefix})

\* A token [kind, name, value] of the command line is a "flag", a flag with its value
\* "inline", or a "word".
Word(value) == [kind |-> "word", name |-> "", value |-> value]
Text(word) == IF word.kind = "flag" THEN word.name ELSE word.value
Temp == "temp"      \* make_temp_for: a path nothing else has

VARIABLES
    wipes,   \* keyring.ephemeral
    creds,   \* the credential files: path -> "empty", "part", "whole", or "left" by a failed removal
    run,     \* per call: its future
    process, \* per call: its subprocess [runs, saw], what it read as credential
    temps,   \* output files that no remove_file was called for: <<call, argument>>
    written  \* per call: the paths the sandbox wrote

cliVars == <<wipes, creds, run, process, temps, written>>

CliEnded == {"ok", "failed", "unwritten", "uncollected", "dropped"}

CliInit ==
    /\ wipes \in BOOLEAN
    /\ creds = <<>>
    /\ run = [c \in CliCalls |-> [at |-> "new"]]
    /\ process = [c \in CliCalls |-> [runs |-> FALSE, saw |-> "nothing"]]
    /\ temps = {} /\ written = [c \in CliCalls |-> {}]

-----------------------------------------------------------------------------
(* apply_output_captures                                                    *)

Capture(i, original) == [arg |-> i, original |-> original]

Swapped(word) ==
    IF word.kind = "inline" THEN [word EXCEPT !.value = Temp] ELSE Word(Temp)

\* Named flags, from the left: `--flag=value`, or `--flag value`, whose two tokens
\* are passed over together.
FlagStep(acc, args, i) ==
    LET t == args[i]
    IN  CASE acc.skip -> [acc EXCEPT !.skip = FALSE]
          [] ~acc.skip /\ t.kind = "inline" /\ t.name \in OutFlags ->
               [acc EXCEPT !.found = Append(@, Capture(i, t.value)), !.consumed = @ \cup {i}]
          [] ~acc.skip /\ t.kind = "flag" /\ t.name \in OutFlags /\ i < Len(args) ->
               [acc EXCEPT !.found = Append(@, Capture(i + 1, Text(args[i + 1]))),
                           !.consumed = @ \cup {i, i + 1}, !.skip = TRUE]
          [] OTHER -> acc

Flagged(args) ==
    LET Upto[i \in 0..Len(args)] ==
            IF i = 0 THEN [skip |-> FALSE, found |-> <<>>, consumed |-> {}]
            ELSE FlagStep(Upto[i - 1], args, i)
    IN  Upto[Len(args)]

RewrittenCommand(args, captured) ==
    [i \in DOMAIN args |-> IF \E k \in DOMAIN captured : captured[k].arg = i THEN Swapped(args[i])
                           ELSE args[i]]

\* Mutant: the slots that a flag has taken are looked at again.
WordsOfAll(args, consumed) ==
    SelectSeq([i \in DOMAIN args |-> i], LAMBDA i : args[i].kind = "word")

\* The positions that are neither flags nor taken.
WordsOf(args, consumed) ==
    LET Upto[i \in 0..Len(args)] ==
            IF i = 0 THEN <<>>
            ELSE IF args[i].kind = "word" /\ i \notin consumed THEN Append(Upto[i - 1], i)
            ELSE Upto[i - 1]
    IN  Upto[Len(args)]

\* Positional captures: of the rules whose prefix the words start with, and that
\* have a word to take, the one with the longest prefix.
Captures(args) ==
    LET flagged == Flagged(args)
        swapped     == RewrittenCommand(args, flagged.found)
        words   == WordsOf(swapped, flagged.consumed)
        values    == [k \in DOMAIN words |-> swapped[words[k]].value]
        fits    == {r \in Positional : /\ r.prefix # <<>> /\ Len(words) > Len(r.prefix) + r.index
                                       /\ IsPrefix(r.prefix, values)}
        best    == {r \in fits : \A q \in fits : Len(r.prefix) >= Len(q.prefix)}
        rule    == CHOOSE r \in best : TRUE
        i       == words[Len(rule.prefix) + rule.index + 1]
    IN  IF best = {} THEN flagged.found ELSE Append(flagged.found, Capture(i, swapped[i].value))

-----------------------------------------------------------------------------
(* execute_with_gen                                                         *)

\* Mutant: one path for all.
SharedPath(c) == "shared"

\* The random suffix of a file that will be wiped.
PathOf(c) == IF wipes THEN c ELSE "shared"

Goto(c, stage) == run' = [run EXCEPT ![c].at = stage]

\* open with create and truncate.  Without a key, a directory or the file the call ends.
Opens(c) ==
    /\ run[c].at = "new"
    /\ \E args \in Commands, stage \in {"write", "failed"} :
         /\ run' = [run EXCEPT ![c] = [at |-> stage, args |-> args, busy |-> 0,
                                      found |-> Captures(args), got |-> 0]]
         /\ creds' = IF stage = "failed" THEN creds
                     ELSE [p \in DOMAIN creds \cup {PathOf(c)} |->
                             IF p = PathOf(c) THEN "empty" ELSE creds[p]]
    /\ UNCHANGED <<wipes, process, temps, written>>

\* write_all and sync_all, by the thread that opened it.  The guard that wipes the file
\* is made after them: when one fails, what was written stays.
WritesCred(c) ==
    /\ run[c].at = "write"
    /\ \E now \in {"empty", "part", "whole"} :
         /\ creds' = [p \in DOMAIN creds \cup {PathOf(c)} |-> IF p = PathOf(c) THEN now ELSE creds[p]]
         /\ \/ now = "whole" /\ Goto(c, IF Generated THEN "generate" ELSE "spawn")
            \/ Goto(c, "unwritten")
    /\ UNCHANGED <<wipes, process, temps, written>>

\* CredentialFile::drop: zeros, then the removal, whose error is dropped.
Wipes(c) ==
    IF wipes /\ run[c].at # "collect"
    THEN \/ creds' = [p \in DOMAIN creds \ {c} |-> creds[p]]
         \/ creds' = [creds EXCEPT ![c] = "left"]
    ELSE UNCHANGED creds

\* The future returns: its files are dropped, its subprocess is killed.
Returns(c, how, kept) ==
    /\ Goto(c, how)
    /\ Wipes(c)
    /\ process' = [process EXCEPT ![c].runs = FALSE]
    /\ temps' = {t \in temps : t[1] = c => t \in kept}
    /\ UNCHANGED <<wipes, written>>

\* The generator (AuthGenCache) has a credential, or fails the call.
Generates(c) ==
    /\ run[c].at = "generate"
    /\ \/ Goto(c, "spawn") /\ UNCHANGED <<wipes, creds, process, temps, written>>
       \/ Returns(c, "failed", {})

\* spawn: it starts, the text is busy, or it cannot.
Spawns(c) ==
    /\ run[c].at = "spawn"
    /\ \/ /\ Goto(c, "run")
          /\ process' = [process EXCEPT ![c].runs = TRUE]
          /\ UNCHANGED <<wipes, creds, temps, written>>
       \/ /\ run[c].busy < MaxBusy
          /\ run' = [run EXCEPT ![c].busy = @ + 1]
          /\ UNCHANGED <<wipes, creds, process, temps, written>>
       \/ Returns(c, "failed", {})

\* Another status, an error of the wait or the timeout.
ProcessFails(c) ==
    /\ run[c].at = "run"
    /\ Returns(c, "failed", {})

\* The subprocess ends well.  Its credential is wiped and its outputs are collected.
ProcessExits(c) ==
    /\ run[c].at = "run"
    /\ Goto(c, IF run[c].found = <<>> THEN "ok" ELSE "collect")
    /\ Wipes(c)
    /\ process' = [process EXCEPT ![c].runs = FALSE]
    /\ UNCHANGED <<wipes, temps, written>>

\* collect_capture_results, one output: it is read and removed.  One that is missing,
\* too large or unreadable ends the loop.
Collects(c) ==
    /\ run[c].at = "collect"
    /\ LET i == run[c].got + 1
           t == <<c, run[c].found[i].arg>>
       IN  /\ temps' = temps \ {t}
           /\ \/ /\ t \in temps
                 /\ run' = [run EXCEPT ![c].got = i,
                               ![c].at = IF i = Len(run[c].found) THEN "ok" ELSE @]
              \/ Goto(c, "uncollected")
    /\ UNCHANGED <<wipes, creds, process, written>>

\* The sandbox goes away while the future waits.
Dropped(c) ==
    /\ run[c].at \in {"generate", "spawn", "run", "collect"}
    /\ Returns(c, "dropped", temps)

\* materialize_outputs: each output goes where its caller wanted it; a write may fail
\* and end it.
Writes(c) ==
    /\ run[c].at = "ok" /\ run[c].found # <<>>
    /\ \E n \in 0..Len(run[c].found) :
         written' = [written EXCEPT ![c] = {run[c].found[k].original : k \in 1..n}]
    /\ UNCHANGED <<wipes, creds, run, process, temps>>

(* The subprocess *)

ReadsCred(c) ==
    /\ process[c].runs
    /\ process' = [process EXCEPT ![c].saw =
                   IF PathOf(c) \in DOMAIN creds THEN creds[PathOf(c)] ELSE "missing"]
    /\ UNCHANGED <<wipes, creds, run, temps, written>>

WritesOutput(c) ==
    /\ process[c].runs
    /\ \E k \in DOMAIN run[c].found : temps' = temps \cup {<<c, run[c].found[k].arg>>}
    /\ UNCHANGED <<wipes, creds, run, process, written>>

-----------------------------------------------------------------------------
Step(c) ==
    \/ Opens(c) \/ WritesCred(c) \/ Generates(c) \/ Spawns(c) \/ ProcessFails(c) \/ ProcessExits(c)
    \/ Collects(c) \/ Dropped(c) \/ Writes(c) \/ ReadsCred(c) \/ WritesOutput(c)

CliNext == \E c \in CliCalls : Step(c)

CliSpec == CliInit /\ [][CliNext]_cliVars

-----------------------------------------------------------------------------
(* What is checked                                                          *)

CliTypeOK ==
    /\ wipes \in BOOLEAN
    /\ \A c \in CliCalls :
         /\ run[c].at \in {"new", "write", "generate", "spawn", "run", "collect"} \cup CliEnded
         /\ process[c].runs => run[c].at = "run"
         /\ process[c].saw \in {"nothing", "empty", "part", "whole", "left", "missing"}
    /\ \A t \in temps : t[1] \in CliCalls

\* With an ephemeral keyring no subprocess reads a credential that is half written,
\* wiped or another call's, however calls of one provider overlap.
CredentialsAreWhole == wipes => \A c \in CliCalls : process[c].saw \in {"nothing", "whole"}

\* A call that has ended leaves no subprocess, and no credential that is to be wiped but
\* one that could not be written or could not be removed; it leaves an output without trying
\* to remove it only if its future was dropped, or if it failed on the output before.
LeftForCause ==
    \A c \in CliCalls : run[c].at \in CliEnded =>
      /\ wipes /\ c \in DOMAIN creds => run[c].at = "unwritten" \/ creds[c] = "left"
      /\ ~process[c].runs
      /\ run[c].at # "dropped" =>
           \A t \in temps : t[1] = c =>
             /\ run[c].at = "uncollected"
             /\ \E k \in DOMAIN run[c].found : k > run[c].got + 1 /\ run[c].found[k].arg = t[2]

\* What the sandbox writes and what the answer names are paths its caller gave, each
\* taken from one place of the command line: no temporary path is captured as if the
\* caller had asked for it, by a rule for flags and one for positions together.
OutputsAreAsked ==
    \A c \in CliCalls : run[c].at # "new" =>
      LET captured == run[c].found
      IN  /\ \A k \in DOMAIN captured : captured[k].original = Text(run[c].args[captured[k].arg])
          /\ \A j, k \in DOMAIN captured : j # k => captured[j].arg # captured[k].arg
          /\ written[c] \subseteq {Text(run[c].args[i]) : i \in DOMAIN run[c].args}

\* A call writes what its caller asked for, and leaves nothing besides but for a cause.
OnlyWhatWasAsked == OutputsAreAsked /\ LeftForCause
=============================================================================
