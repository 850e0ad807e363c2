---------------------------- MODULE RateLimiter ----------------------------
(***************************************************************************)
(* The rate limiter of src/core/rate.rs: every `ati run`, and every call   *)
(* the proxy handles, reads rate-state.json, charges the call against each *)
(* matching pattern, and replaces the file through rate-state.json.tmp.    *)
(* Nothing locks either path, so several callers may be between any two of *)
(* those system calls.  A caller may also be killed there.                 *)
(*                                                                         *)
(* A file name refers to an inode, whose content is a state of the limiter *)
(* or bytes that serde_json rejects: none at all, or two texts overlaid.   *)
(***************************************************************************)
EXTENDS Integers, FiniteSets, Sequences, SequencesExt

CONSTANTS
    Clients,         \* processes, or proxy requests, that may run at once
    Subjects,        \* holders of a token with rate claims
    Tools, Patterns,
    Matches,         \* per tool, the patterns that match it (matches_wildcard)
    Limits,          \* per subject, a partial function Patterns -> [count, window]
    MaxNow, MaxCalls \* bounds of the model: the clock and the calls begun

RateLimiterAssumption ==
    /\ IsFiniteSet(Clients) /\ MaxNow \in Nat \ {0} /\ MaxCalls \in Nat
    /\ Matches \in [Tools -> SUBSET Patterns]
    /\ \A s \in Subjects : /\ DOMAIN Limits[s] \subseteq Patterns
                           /\ \A p \in DOMAIN Limits[s] :
                                Limits[s][p] \in [count : Nat, window : Nat \ {0}]

Inodes == 1..(Cardinality(Clients) + 2)     \* two names and one handle a caller
NoFile == 0
Idle   == [pc |-> "idle"]

Empty        == [kind |-> "empty"]
Garbage      == [kind |-> "garbage"]
Whole(calls) == [kind |-> "state", calls |-> calls]
IsState(content) == content.kind = "state"

VARIABLES
    now,
    file, tmp, \* the inode each name refers to, or NoFile
    disk,      \* inode contents
    caller,    \* the call each caller is in
    granted,   \* history: the calls let through
    charged,   \* history: per pattern, the timestamps ever recorded
    begun,     \* number of calls begun
    alone      \* history: no call began while another was under way

rateVars == <<now, file, tmp, disk, caller, granted, charged, begun, alone>>

NoCalls == [p \in Patterns |-> <<>>]

RateInit ==
    /\ now = 1 /\ begun = 0 /\ alone = TRUE
    /\ file = NoFile /\ tmp = NoFile
    /\ disk = [i \in Inodes |-> Empty]
    /\ caller = [c \in Clients |-> Idle]
    /\ granted = {}
    /\ charged = NoCalls

-----------------------------------------------------------------------------
(* check_and_record, between load_state and save_state                      *)

\* Mutant: nothing expires.
KeepAll(calls, at, window) == calls

\* now.saturating_sub(limit.window_secs)
Cutoff(at, window) == IF at < window THEN 0 ELSE at - window

\* calls.retain(|&ts| ts > cutoff)
Pruned(calls, at, window) ==
    LET Upto[i \in 0..Len(calls)] ==
            IF i = 0 THEN <<>>
            ELSE IF calls[i] > Cutoff(at, window) THEN Append(Upto[i - 1], calls[i])
            ELSE Upto[i - 1]
    IN  Upto[Len(calls)]

\* Mutant: one call too many.
OverLimitByOne(calls, limit) == Len(calls) > limit.count

OverLimit(calls, limit) == Len(calls) >= limit.count

\* The loop over config.limits, in any order of that HashMap: the first pattern that
\* is over its limit ends it, when any of those that are not may have been charged.
Charges(calls, s, t, at) ==
    LET matching == DOMAIN Limits[s] \cap Matches[t]
        over     == {p \in matching :
                       OverLimit(Pruned(calls[p], at, Limits[s][p].window), Limits[s][p])}
    IN  IF over = {} THEN {[pushed |-> matching, exceeded |-> {}]}
        ELSE {[pushed |-> P, exceeded |-> {p}] : P \in SUBSET (matching \ over), p \in over}

\* What the loop leaves of the calls that it read.
Recorded(calls, charge, s, at) ==
    [p \in Patterns |->
       IF p \in charge.pushed \cup charge.exceeded
       THEN LET kept == Pruned(calls[p], at, Limits[s][p].window)
            IN  IF p \in charge.pushed THEN Append(kept, at) ELSE kept
       ELSE calls[p]]

-----------------------------------------------------------------------------
(* One call, system call by system call                                     *)

\* load_state and the loop: a missing or unreadable file counts as no calls, and
\* an unreadable one is removed next.
Begin(c, s, t) ==
    /\ caller[c] = Idle
    /\ begun < MaxCalls
    /\ LET readable == file # NoFile /\ IsState(disk[file])
           calls == IF readable THEN disk[file].calls ELSE NoCalls
       IN  \E charge \in Charges(calls, s, t, now) :
             /\ caller' = [caller EXCEPT ![c] =
                  [pc |-> IF readable \/ file = NoFile THEN "open" ELSE "remove",
                   subject |-> s, tool |-> t, at |-> now, handle |-> NoFile,
                   calls |-> Recorded(calls, charge, s, now), exceeded |-> charge.exceeded]]
             /\ charged' = [p \in Patterns |->
                  IF p \in charge.pushed THEN Append(charged[p], now) ELSE charged[p]]
    /\ begun' = begun + 1
    /\ alone' = (alone /\ \A d \in Clients : caller[d] = Idle)
    /\ UNCHANGED <<now, file, tmp, disk, granted>>

Goto(c, pc) == caller' = [caller EXCEPT ![c].pc = pc]

\* remove_file(&path): whatever the name refers to by now.
Discard(c) ==
    /\ caller[c].pc = "remove"
    /\ file' = NoFile
    /\ Goto(c, "open")
    /\ UNCHANGED <<now, tmp, disk, granted, charged, begun, alone>>

Handles == {caller[c].handle : c \in {d \in Clients : caller[d] # Idle}}

Free == CHOOSE i \in Inodes : i \notin Handles \cup {file, tmp}

\* fs::write opens rate-state.json.tmp, truncating the one it finds ...
OpenTmp(c) ==
    LET i == IF tmp = NoFile THEN Free ELSE tmp
    IN  /\ tmp' = i
        /\ UNCHANGED file
        /\ disk' = [disk EXCEPT ![i] = Empty]
        /\ caller' = [caller EXCEPT ![c].pc = "write", ![c].handle = i]

Open(c) ==
    /\ caller[c].pc = "open"
    /\ OpenTmp(c)
    /\ UNCHANGED <<now, granted, charged, begun, alone>>

Size(calls) == FoldSet(LAMBDA p, n : n + Len(calls[p]), 0, Patterns)

\* ... and writes from its start: a longer text already there keeps its tail.
Write(c) ==
    /\ caller[c].pc = "write"
    /\ LET i == caller[c].handle
           longer == \/ disk[i] = Garbage
                     \/ IsState(disk[i]) /\ Size(disk[i].calls) > Size(caller[c].calls)
       IN  disk' = [disk EXCEPT ![i] = IF longer THEN Garbage
                                     ELSE Whole(caller[c].calls)]
    /\ caller' = [caller EXCEPT ![c].pc = "rename", ![c].handle = NoFile]
    /\ UNCHANGED <<now, file, tmp, granted, charged, begun, alone>>

TmpAfterRename == NoFile

\* The rename fails if another caller has renamed the temporary file away, and
\* the call is then refused; else the verdict of the loop is returned.
Rename(c) ==
    /\ caller[c].pc = "rename"
    /\ file' = IF tmp = NoFile THEN file ELSE tmp
    /\ tmp' = TmpAfterRename
    /\ granted' = IF tmp # NoFile /\ caller[c].exceeded = {}
                  THEN granted \cup {[call |-> begun, by |-> c, at |-> caller[c].at,
                         subject |-> caller[c].subject, tool |-> caller[c].tool]}
                  ELSE granted
    /\ caller' = [caller EXCEPT ![c] = Idle]
    /\ UNCHANGED <<now, disk, charged, begun, alone>>

Kill(c) ==
    /\ caller[c] # Idle
    /\ caller' = [caller EXCEPT ![c] = Idle]
    /\ UNCHANGED <<now, file, tmp, disk, granted, charged, begun, alone>>

Tick ==
    /\ now < MaxNow
    /\ now' = now + 1
    /\ UNCHANGED <<file, tmp, disk, caller, granted, charged, begun, alone>>

RateNext ==
    \/ \E c \in Clients :
         \/ \E s \in Subjects, t \in Tools : Begin(c, s, t)
         \/ Discard(c) \/ Open(c) \/ Write(c) \/ Rename(c) \/ Kill(c)
    \/ Tick

RateSpec == RateInit /\ [][RateNext]_rateVars

-----------------------------------------------------------------------------
\* Also: the two names never share an inode, and a handle is held while writing.
RateTypeOK ==
    /\ file = tmp => file = NoFile
    /\ \A c \in Clients : caller[c] # Idle =>
         (caller[c].handle # NoFile <=> caller[c].pc = "write")
    /\ now \in 1..MaxNow /\ begun \in 0..MaxCalls
    /\ {file, tmp} \subseteq Inodes \cup {NoFile}
    /\ \A i \in Inodes : IsState(disk[i]) => disk[i].calls \in [Patterns -> Seq(1..MaxNow)]
    /\ charged \in [Patterns -> Seq(1..MaxNow)]
    /\ \A g \in granted : g.subject \in Subjects /\ g.tool \in Tools

\* As long as calls follow each other, the calls a subject was let through on a
\* pattern's tools are no more than the pattern's limit in every window, whoever is
\* killed on the way.  Calls that overlap overwrite each other's records.
WithinLimit == alone =>
    \A s \in Subjects : \A p \in DOMAIN Limits[s] : \A end \in 1..MaxNow :
      Cardinality({g \in granted : /\ g.subject = s /\ p \in Matches[g.tool]
                                   /\ g.at \in (end - Limits[s][p].window + 1)..end})
        <= Limits[s][p].count

\* "Save state atomically ... prevents corruption from concurrent `ati run`
\* invocations" (rate.rs:140-141): the file, if there, holds a whole state.
FileIsWhole == file # NoFile => IsState(disk[file])

\* A call is refused for its rate only if its pattern really was charged up to the
\* limit within the window: lost, reset and late files never refuse a call.
RefusedForCause ==
    \A c \in Clients : caller[c] # Idle =>
      \A p \in caller[c].exceeded :
        LET limit == Limits[caller[c].subject][p]
        IN  Cardinality({i \in DOMAIN charged[p] :
                           charged[p][i] > caller[c].at - limit.window}) >= limit.count
=============================================================================
