--------------------------- MODULE GatewayProofs ---------------------------
(***************************************************************************)
(* What the proxy does with a request, for every set of slots, requests,   *)
(* tokens, keys, tools and secrets, and for every clock.  GatewayInv says,  *)
(* place by place, what is known of a request that has come so far; it is  *)
(* a conjunction over the slots, and a step moves one slot (Moves), or     *)
(* fills or empties one (Holds), or is one of the surroundings, which all  *)
(* leave the slots alone.  Each lemma ...Keeps is one action.              *)
(***************************************************************************)
EXTENDS Gateway, TLAPS

\* The types, and those of the variables that TypeOK leaves to KeyLease.
Typed ==
    /\ now \in 0..MaxNow
    /\ mode \in Modes /\ jwt \in JwtModes /\ secret \in Secrets \cup {None}
    /\ at \in [Slots -> Stages]
    /\ req \in [Slots -> Request]
    /\ stamp \in [Slots -> Int]
    /\ opened \in [Slots -> [secret : Secrets \cup {None}, time : Never..MaxNow]]
    /\ holder \in [Slots -> Tokens \cup Keys \cup {NoOne}]
    /\ ends \in [Slots -> Int]
    /\ charged \in [Slots -> BOOLEAN] /\ began \in [Slots -> Never..MaxNow]
    /\ status \in [Slots -> {None, "refused", "ok", "error"}]
    /\ schemas \in [Urls -> {None, "found", "failed"}]
    /\ life \in [Keys -> Nat \cup {NoExpiry}]

\* A slot holds one of its own requests, or none.
Own(s) ==
    /\ req[s] \in Requests[s] \cup {Blank}
    /\ at[s] \notin {"idle"} => req[s] \in Requests[s]

\* Of a request that was met: the signature was good if it had to be.
SignedWell(s) ==
    mode = "enforce" /\ req[s].route \notin Exempt =>
        /\ req[s].secret = opened[s].secret /\ opened[s].secret # None
        /\ opened[s].time - stamp[s] \in -Drift..Drift

\* Of a request that was admitted: its claims are those of its credential.
CallerKnown(s) ==
    \/ holder[s] # NoOne /\ holder[s] = req[s].who
    \/ holder[s] = NoOne /\ ~jwt /\ req[s].cred # "key"

InScope(s) == Needs(s) /\ holder[s] # NoOne => req[s].tool \in Grants[holder[s]]

IsLimited(s) ==
    /\ req[s].route = "call" /\ holder[s] \in Tokens
    /\ <<req[s].tool, req[s].alias>> \in Limits[holder[s]]

\* What is known of a request, by the place it has come to.
SlotInv(s) ==
    /\ Own(s)
    /\ at[s] \in {"idle", "sent"} => opened[s] = Unopened
    /\ at[s] \in {"idle", "sent", "lookup"} => holder[s] = NoOne
    /\ at[s] \notin {"running", "ending", "answered"} => began[s] = Never /\ ~charged[s]
    /\ at[s] \notin {"ending", "answered"} => status[s] = None
    /\ at[s] = "lookup" => req[s].cred = "key"
    /\ at[s] \in {"lookup", "admitted", "dialing"} => req[s].route # "raw"
    /\ at[s] = "running" => Started(s)
    /\ at[s] = "ending" => Started(s) /\ req[s].route = "call"
    /\ at[s] \in {"ending", "answered"} => status[s] # None
    /\ at[s] \in {"lookup", "admitted", "dialing"} \/ Started(s) => SignedWell(s)
    /\ at[s] \in {"admitted", "dialing"} \/ (Started(s) /\ req[s].route # "raw") => CallerKnown(s)
    /\ Started(s) => InScope(s)
    /\ Started(s) /\ Needs(s) /\ ends[s] # NoExpiry => began[s] <= ends[s]
    /\ holder[s] \in Tokens =>
         /\ ends[s] = Expiry[holder[s]]
         /\ opened[s].time <= Expiry[holder[s]] + Leeway
    /\ charged[s] => IsLimited(s) /\ InScope(s)
    /\ Started(s) /\ IsLimited(s) => charged[s]

GatewayInv == Typed /\ \A s \in Slots : SlotInv(s)

\* A slot that a step leaves alone.
Same(t) ==
    /\ at'[t] = at[t] /\ req'[t] = req[t] /\ stamp'[t] = stamp[t] /\ opened'[t] = opened[t]
    /\ holder'[t] = holder[t] /\ ends'[t] = ends[t] /\ charged'[t] = charged[t]
    /\ began'[t] = began[t] /\ status'[t] = status[t]

LEMMA SameKeeps ==
    ASSUME NEW t \in Slots, SlotInv(t), Same(t), mode' = mode, jwt' = jwt
    PROVE  SlotInv(t)'
  BY DEF SlotInv, Same, Own, SignedWell, CallerKnown, InScope, IsLimited, Started, Needs

LEMMA LeaseTypes ==
    ASSUME GatewayInv
    PROVE  /\ Lease!Forget => life' = life
           /\ \A k \in Keys : Lease!Grant(k) \/ Lease!Refuse(k) => life' = life
           /\ \A k \in Keys, l \in Lifetimes : Lease!Issue(k, l) => life' \in [Keys -> Nat \cup {NoExpiry}]
           /\ \A k \in Keys : Lease!End({k}) => life' = life
           /\ Lease!Tick => life' \in [Keys -> Nat \cup {NoExpiry}]
<1>1. life \in [Keys -> Nat \cup {NoExpiry}] /\ Lifetimes \subseteq Nat \cup {NoExpiry}
  BY GatewayAssumption DEF GatewayInv, Typed
<1> QED
  BY <1>1 DEF Lease!Forget, Lease!Grant, Lease!Refuse, Lease!Issue, Lease!End, Lease!Tick, NoExpiry

LEMMA SlotTypes ==
    ASSUME GatewayInv, NEW s \in Slots
    PROVE  /\ opened[s] \in [secret : Secrets \cup {None}, time : Never..MaxNow]
           /\ holder[s] \in Tokens \cup Keys \cup {NoOne} /\ ends[s] \in Int
           /\ charged[s] \in BOOLEAN /\ began[s] \in Never..MaxNow
           /\ status[s] \in {None, "refused", "ok", "error"}
           /\ schemas \in [Urls -> {None, "found", "failed"}]
  BY DEF GatewayInv, Typed

LEMMA NowTypes == ASSUME GatewayInv PROVE now \in 0..MaxNow /\ now \in Never..MaxNow /\ now \in Int
  BY GatewayAssumption DEF GatewayInv, Typed, Never

\* Of a step of one slot only that slot has to be looked at.
LEMMA OneSlot ==
    ASSUME GatewayInv, NEW s \in Slots, Typed', mode' = mode, jwt' = jwt,
           \A t \in Slots \ {s} : Same(t), SlotInv(s)'
    PROVE  GatewayInv'
<1>1. \A t \in Slots : SlotInv(t)'
  BY SameKeeps DEF GatewayInv
<1> QED
  BY <1>1 DEF GatewayInv

LEMMA HoldsKeeps ==
    ASSUME GatewayInv, NEW s \in Slots, NEW r \in Request, NEW t \in Int,
           NEW stage \in {"idle", "sent"}, r \in Requests[s] \/ (r = Blank /\ stage = "idle"),
           Holds(s, stage, r, t)
    PROVE  GatewayInv'
<1>1. Typed'
  <2>1. now' \in 0..MaxNow /\ mode' \in Modes /\ jwt' \in JwtModes /\ secret' \in Secrets \cup {None}
        /\ schemas' \in [Urls -> {None, "found", "failed"}]
    BY DEF GatewayInv, Typed, Holds, proxyVars
  <2>2. at' \in [Slots -> Stages] /\ req' \in [Slots -> Request] /\ stamp' \in [Slots -> Int]
    BY DEF GatewayInv, Typed, Holds, Stages
  <2>3. opened' \in [Slots -> [secret : Secrets \cup {None}, time : Never..MaxNow]]
    BY GatewayAssumption DEF GatewayInv, Typed, Holds, Unopened, Never
  <2>4. /\ holder' \in [Slots -> Tokens \cup Keys \cup {NoOne}]
        /\ ends' \in [Slots -> Int] /\ charged' \in [Slots -> BOOLEAN]
    BY DEF GatewayInv, Typed, Holds, NoExpiry
  <2>5. began' \in [Slots -> Never..MaxNow]
    BY GatewayAssumption DEF GatewayInv, Typed, Holds, Never
  <2>6. /\ status' \in [Slots -> {None, "refused", "ok", "error"}]
    BY DEF GatewayInv, Typed, Holds
  <2>7. life' \in [Keys -> Nat \cup {NoExpiry}]
    BY LeaseTypes DEF GatewayInv, Typed, Holds
  <2> QED
    BY <2>1, <2>2, <2>3, <2>4, <2>5, <2>6, <2>7 DEF Typed
<1>2. \A u \in Slots \ {s} : Same(u)
  BY DEF GatewayInv, Typed, Holds, Same
<1>3. /\ at'[s] = stage /\ req'[s] = r /\ opened'[s] = Unopened /\ holder'[s] = NoOne
      /\ ends'[s] = NoExpiry /\ charged'[s] = FALSE /\ began'[s] = Never
      /\ status'[s] = None
  BY DEF GatewayInv, Typed, Holds
<1>4. NoOne \notin Tokens
  BY GatewayAssumption
<1>5. SlotInv(s)'
  BY <1>3, <1>4 DEF SlotInv, Own, Started
<1> QED
  BY <1>1, <1>2, <1>5, OneSlot DEF Holds, proxyVars

\* What a step of slot s makes of it, once its request is there.
Moves(s, a, o, h, e, c, b, st) ==
    /\ at' = [at EXCEPT ![s] = a] /\ opened' = [opened EXCEPT ![s] = o]
    /\ holder' = [holder EXCEPT ![s] = h] /\ ends' = [ends EXCEPT ![s] = e]
    /\ charged' = [charged EXCEPT ![s] = c] /\ began' = [began EXCEPT ![s] = b]
    /\ status' = [status EXCEPT ![s] = st]
    /\ UNCHANGED <<now, mode, jwt, secret, req, stamp>>

\* A variable that a step leaves alone is one that it sets to what it was.
LEMMA Stays ==
    ASSUME GatewayInv, NEW s \in Slots
    PROVE  /\ opened = [opened EXCEPT ![s] = opened[s]]
           /\ holder = [holder EXCEPT ![s] = holder[s]] /\ ends = [ends EXCEPT ![s] = ends[s]]
           /\ charged = [charged EXCEPT ![s] = charged[s]]
           /\ began = [began EXCEPT ![s] = began[s]]
           /\ status = [status EXCEPT ![s] = status[s]]
  BY DEF GatewayInv, Typed

LEMMA MovesEffect ==
    ASSUME GatewayInv, NEW s \in Slots, NEW a, NEW o, NEW h, NEW e, NEW c, NEW b, NEW st,
           Moves(s, a, o, h, e, c, b, st)
    PROVE  /\ at'[s] = a /\ opened'[s] = o /\ holder'[s] = h /\ ends'[s] = e
           /\ charged'[s] = c /\ began'[s] = b /\ status'[s] = st
           /\ req'[s] = req[s] /\ stamp'[s] = stamp[s] /\ mode' = mode /\ jwt' = jwt
  BY DEF GatewayInv, Typed, Moves

LEMMA MovesKeeps ==
    ASSUME GatewayInv, NEW s \in Slots,
           NEW a \in Stages, NEW o \in [secret : Secrets \cup {None}, time : Never..MaxNow],
           NEW h \in Tokens \cup Keys \cup {NoOne}, NEW e \in Int, NEW c \in BOOLEAN,
           NEW b \in Never..MaxNow, NEW st \in {None, "refused", "ok", "error"},
           Moves(s, a, o, h, e, c, b, st),
           schemas' \in [Urls -> {None, "found", "failed"}], life' = life, SlotInv(s)'
    PROVE  GatewayInv'
<1>1. Typed'
  <2>1. /\ now' \in 0..MaxNow /\ mode' \in Modes /\ jwt' \in JwtModes
        /\ secret' \in Secrets \cup {None}
        /\ req' \in [Slots -> Request] /\ stamp' \in [Slots -> Int]
        /\ life' \in [Keys -> Nat \cup {NoExpiry}]
    BY DEF GatewayInv, Typed, Moves
  <2>2. at' \in [Slots -> Stages] /\ holder' \in [Slots -> Tokens \cup Keys \cup {NoOne}]
    BY DEF GatewayInv, Typed, Moves
  <2>3. opened' \in [Slots -> [secret : Secrets \cup {None}, time : Never..MaxNow]]
    BY DEF GatewayInv, Typed, Moves
  <2>4. ends' \in [Slots -> Int] /\ charged' \in [Slots -> BOOLEAN]
        /\ began' \in [Slots -> Never..MaxNow]
    BY DEF GatewayInv, Typed, Moves
  <2>5. /\ status' \in [Slots -> {None, "refused", "ok", "error"}]
    BY DEF GatewayInv, Typed, Moves
  <2> QED
    BY <2>1, <2>2, <2>3, <2>4, <2>5 DEF Typed
<1>2. \A t \in Slots \ {s} : Same(t)
  BY DEF GatewayInv, Typed, Moves, Same
<1> QED
  BY <1>1, <1>2, OneSlot DEF Moves

-----------------------------------------------------------------------------
(* The signature and the credential                                         *)

\* What `opened` comes to hold when the proxy meets the request.
OpenedAt(s) == IF req[s].route \in Exempt THEN opened[s] ELSE [secret |-> secret, time |-> now]

LEMMA MeetsOpens ==
    ASSUME GatewayInv, NEW s \in Slots, Meets(s)
    PROVE  /\ opened' = [opened EXCEPT ![s] = OpenedAt(s)]
           /\ OpenedAt(s) \in [secret : Secrets \cup {None}, time : Never..MaxNow]
           /\ OpenedAt(s).time <= now /\ charged' = charged /\ life' = life /\ schemas' = schemas
           /\ UNCHANGED <<now, mode, jwt, secret, req, stamp>>
<1>1. now \in 0..MaxNow /\ MaxNow \in Nat
  BY GatewayAssumption DEF GatewayInv, Typed
<1>2. opened[s] = Unopened
  BY DEF Meets, GatewayInv, SlotInv
<1>3. opened[s] \in [secret : Secrets \cup {None}, time : Never..MaxNow]
  BY DEF GatewayInv, Typed
<1>4. OpenedAt(s) \in [secret : Secrets \cup {None}, time : Never..MaxNow]
  BY <1>1, <1>3 DEF OpenedAt, Never, GatewayInv, Typed
<1>5. OpenedAt(s).time <= now
  BY <1>1, <1>2 DEF OpenedAt, Unopened, Never
<1>6. opened' = [opened EXCEPT ![s] = OpenedAt(s)]
  BY Stays DEF Meets, OpenedAt
<1> QED
  BY <1>4, <1>5, <1>6, LeaseTypes DEF Meets, proxyVars

LEMMA PassesSigned ==
    ASSUME GatewayInv, NEW s \in Slots, Passes(s), mode = "enforce", req[s].route \notin Exempt
    PROVE  /\ req[s].secret = OpenedAt(s).secret /\ OpenedAt(s).secret # None
           /\ OpenedAt(s).time - stamp[s] \in -Drift..Drift
<1>1. now \in Int /\ stamp[s] \in Int /\ Drift \in Nat
  BY GatewayAssumption DEF GatewayInv, Typed
<1>2. Valid(s)
  BY DEF Passes
<1>3. now - stamp[s] \in -Drift..Drift
  BY <1>1, <1>2 DEF Valid, InDrift, Abs
<1> QED
  BY <1>2, <1>3 DEF Valid, OpenedAt

\* A request that was met and carries no claims yet.
LEMMA MeetsKeeps ==
    ASSUME GatewayInv, NEW s \in Slots, Meets(s), NEW a \in Stages, NEW b \in Never..MaxNow,
           Moves(s, a, OpenedAt(s), holder[s], ends[s], charged[s], b, status[s]),
           SlotInv(s)'
    PROVE  GatewayInv'
<1>1. /\ OpenedAt(s) \in [secret : Secrets \cup {None}, time : Never..MaxNow]
      /\ life' = life /\ schemas' \in [Urls -> {None, "found", "failed"}]
  BY MeetsOpens, SlotTypes
<1>2. /\ holder[s] \in Tokens \cup Keys \cup {NoOne} /\ ends[s] \in Int
      /\ charged[s] \in BOOLEAN
      /\ status[s] \in {None, "refused", "ok", "error"}
  BY SlotTypes
<1> QED
  BY <1>1, <1>2, MovesKeeps

\* An answer that no tool was started for.
LEMMA UnstartedKeeps ==
    ASSUME GatewayInv, NEW s \in Slots, NEW st \in {"refused", "ok"}, NEW c \in BOOLEAN,
           NEW o \in [secret : Secrets \cup {None}, time : Never..MaxNow],
           Moves(s, "answered", o, holder[s], ends[s], c, began[s], st),
           schemas' \in [Urls -> {None, "found", "failed"}], life' = life,
           at[s] # "idle", began[s] = Never, holder[s] \in Tokens => o = opened[s],
           c => IsLimited(s) /\ InScope(s)
    PROVE  GatewayInv'
<1>1. Moves(s, "answered", o, holder[s], ends[s], c, began[s], st)
  OBVIOUS
<1>2. SlotInv(s)
  BY DEF GatewayInv
<1>3. /\ at'[s] = "answered" /\ opened'[s] = o /\ holder'[s] = holder[s] /\ ends'[s] = ends[s]
      /\ charged'[s] = c /\ began'[s] = began[s] /\ status'[s] = st
      /\ req'[s] = req[s] /\ stamp'[s] = stamp[s] /\ mode' = mode /\ jwt' = jwt
  BY <1>1, MovesEffect
<1>4. st # None
  BY DEF None
<1>5. SlotInv(s)'
  BY <1>2, <1>3, <1>4 DEF SlotInv, Own, Started, IsLimited, InScope, Needs
<1>6. "answered" \in Stages /\ st \in {None, "refused", "ok", "error"}
  BY DEF Stages
<1>7. /\ holder[s] \in Tokens \cup Keys \cup {NoOne} /\ ends[s] \in Int
      /\ began[s] \in Never..MaxNow
  BY SlotTypes
<1> QED
  BY <1>1, <1>5, <1>6, <1>7, MovesKeeps

LEMMA RefusesKeeps ==
    ASSUME GatewayInv, NEW s \in Slots, NEW c \in BOOLEAN,
           NEW o \in [secret : Secrets \cup {None}, time : Never..MaxNow],
           Moves(s, "answered", o, holder[s], ends[s], c, began[s], "refused"),
           schemas' = schemas, life' = life, at[s] # "idle", began[s] = Never,
           holder[s] \in Tokens => o = opened[s],
           c => IsLimited(s) /\ InScope(s)
    PROVE  GatewayInv'
<1>1. schemas' \in [Urls -> {None, "found", "failed"}]
  BY SlotTypes
<1> QED
  BY <1>1, UnstartedKeeps

LEMMA RefuseSignatureKeeps ==
    ASSUME GatewayInv, NEW s \in Slots, RefuseSignature(s) PROVE GatewayInv'
<1>1. Moves(s, "answered", OpenedAt(s), holder[s], ends[s], charged[s], began[s], "refused")
  BY MeetsOpens, Stays DEF RefuseSignature, Refuses, Answers, Goes, Moves
<1>2. Meets(s) /\ at[s] = "sent" /\ SlotInv(s)
  BY DEF RefuseSignature, Meets, GatewayInv
<1>3. began[s] = Never /\ ~charged[s] /\ holder[s] \notin Tokens
  BY <1>2, GatewayAssumption DEF SlotInv
<1> QED
  BY <1>1, <1>2, <1>3, RefusesKeeps, MeetsOpens, SlotTypes

LEMMA TakeRawKeeps == ASSUME GatewayInv, NEW s \in Slots, TakeRaw(s) PROVE GatewayInv'
<1>1. Moves(s, "running", OpenedAt(s), holder[s], ends[s], charged[s], now, status[s])
  BY MeetsOpens, Stays DEF TakeRaw, Goes, Moves
<1>2. /\ Meets(s) /\ at[s] = "sent" /\ Passes(s) /\ req[s].route = "raw" /\ SlotInv(s)
  BY DEF TakeRaw, Meets, GatewayInv
<1>3. /\ at'[s] = "running" /\ opened'[s] = OpenedAt(s) /\ holder'[s] = holder[s] /\ ends'[s] = ends[s]
      /\ charged'[s] = charged[s] /\ began'[s] = now /\ status'[s] = status[s]
      /\ req'[s] = req[s] /\ stamp'[s] = stamp[s] /\ mode' = mode /\ jwt' = jwt
  BY <1>1, MovesEffect
<1>4. SignedWell(s)'
  BY <1>2, <1>3, PassesSigned DEF SignedWell
<1>5. now # Never /\ NoOne \notin Tokens
  BY NowTypes, GatewayAssumption DEF Never
<1>6. SlotInv(s)'
  BY <1>2, <1>3, <1>4, <1>5 DEF SlotInv, Own, Started, InScope, Needs, IsLimited
<1>7. "running" \in Stages
  BY DEF Stages
<1> QED
  BY <1>1, <1>2, <1>6, <1>7, MeetsKeeps, NowTypes

LEMMA TakeKeyKeeps == ASSUME GatewayInv, NEW s \in Slots, TakeKey(s) PROVE GatewayInv'
<1>1. Moves(s, "lookup", OpenedAt(s), holder[s], ends[s], charged[s], began[s], status[s])
  BY MeetsOpens, Stays DEF TakeKey, Goes, Moves
<1>2. /\ Meets(s) /\ at[s] = "sent" /\ Passes(s) /\ SlotInv(s)
      /\ req[s].route # "raw" /\ req[s].cred = "key"
  BY DEF TakeKey, Meets, GatewayInv
<1>3. /\ at'[s] = "lookup" /\ opened'[s] = OpenedAt(s) /\ holder'[s] = holder[s] /\ ends'[s] = ends[s]
      /\ charged'[s] = charged[s] /\ began'[s] = began[s] /\ status'[s] = status[s]
      /\ req'[s] = req[s] /\ stamp'[s] = stamp[s] /\ mode' = mode /\ jwt' = jwt
  BY <1>1, MovesEffect
<1>4. SignedWell(s)'
  BY <1>2, <1>3, PassesSigned DEF SignedWell
<1>5. NoOne \notin Tokens
  BY GatewayAssumption
<1>6. SlotInv(s)'
  BY <1>2, <1>3, <1>4, <1>5 DEF SlotInv, Own, Started
<1>7. "lookup" \in Stages
  BY DEF Stages
<1>8. began[s] \in Never..MaxNow
  BY SlotTypes
<1> QED
  BY <1>1, <1>2, <1>6, <1>7, <1>8, MeetsKeeps

\* A request is admitted with the claims of its credential.
LEMMA AdmitsKeeps ==
    ASSUME GatewayInv, NEW s \in Slots, NEW w \in Tokens \cup Keys \cup {NoOne}, NEW e \in Int,
           NEW o \in [secret : Secrets \cup {None}, time : Never..MaxNow],
           Moves(s, "admitted", o, w, e, charged[s], began[s], status[s]),
           schemas' = schemas, life' = life, at[s] \in {"sent", "lookup"}, req[s].route # "raw",
           \/ w # NoOne /\ w = req[s].who
           \/ w = NoOne /\ ~jwt /\ req[s].cred # "key",
           w \in Tokens => e = Expiry[w] /\ o.time <= Expiry[w] + Leeway,
           mode = "enforce" /\ req[s].route \notin Exempt =>
               /\ req[s].secret = o.secret /\ o.secret # None
               /\ o.time - stamp[s] \in -Drift..Drift
    PROVE  GatewayInv'
<1>1. Moves(s, "admitted", o, w, e, charged[s], began[s], status[s])
  OBVIOUS
<1>2. SlotInv(s)
  BY DEF GatewayInv
<1>3. /\ at'[s] = "admitted" /\ opened'[s] = o /\ holder'[s] = w /\ ends'[s] = e
      /\ charged'[s] = charged[s] /\ began'[s] = began[s] /\ status'[s] = status[s]
      /\ req'[s] = req[s] /\ stamp'[s] = stamp[s] /\ mode' = mode /\ jwt' = jwt
  BY <1>1, MovesEffect
<1>4. SignedWell(s)' /\ CallerKnown(s)'
  BY <1>3 DEF SignedWell, CallerKnown
<1>5. SlotInv(s)'
  BY <1>2, <1>3, <1>4 DEF SlotInv, Own, Started
<1>6. "admitted" \in Stages
  BY DEF Stages
<1> QED
  BY <1>1, <1>5, <1>6, MovesKeeps, SlotTypes

LEMMA TakeUnauthenticatedKeeps ==
    ASSUME GatewayInv, NEW s \in Slots, TakeUnauthenticated(s) PROVE GatewayInv'
<1>1. Moves(s, "admitted", OpenedAt(s), NoOne, NoExpiry, charged[s], began[s], status[s])
  BY MeetsOpens, Stays DEF TakeUnauthenticated, Admits, Goes, Moves
<1>2. /\ Meets(s) /\ at[s] = "sent" /\ Passes(s) /\ ~jwt
      /\ req[s].route # "raw" /\ req[s].cred # "key"
  BY DEF TakeUnauthenticated, Meets
<1>3. NoOne \notin Tokens /\ NoExpiry \in Int
  BY GatewayAssumption DEF NoExpiry
<1> QED
  BY <1>1, <1>2, <1>3, AdmitsKeeps, MeetsOpens, PassesSigned

LEMMA TakeBearerKeeps == ASSUME GatewayInv, NEW s \in Slots, TakeBearer(s) PROVE GatewayInv'
<1>1. /\ Meets(s) /\ at[s] = "sent" /\ Passes(s) /\ SlotInv(s)
      /\ req[s].route # "raw" /\ req[s].cred # "key"
  BY DEF TakeBearer, Meets, GatewayInv
<1>2. CASE Validates(s)
  <2>1. Moves(s, "admitted", OpenedAt(s), req[s].who, Expiry[req[s].who], charged[s], began[s],
              status[s])
    BY <1>2, MeetsOpens, Stays DEF TakeBearer, Admits, Goes, Moves
  <2>2. req[s] \in Requests[s]
    BY <1>1 DEF SlotInv, Own
  <2>3. req[s].who \in Tokens
    BY <1>2, <2>2, GatewayAssumption DEF Validates
  <2>4. Expiry[req[s].who] \in Nat /\ req[s].who # NoOne /\ Leeway \in Nat
    BY <2>3, GatewayAssumption
  <2>5. /\ OpenedAt(s) \in [secret : Secrets \cup {None}, time : Never..MaxNow]
        /\ OpenedAt(s).time <= now /\ life' = life /\ schemas' = schemas
    BY <1>1, MeetsOpens
  <2>6. OpenedAt(s).time \in Int
    BY <2>5, GatewayAssumption DEF Never
  <2>7. OpenedAt(s).time <= Expiry[req[s].who] + Leeway
    BY <1>2, <2>4, <2>5, <2>6, NowTypes DEF Validates
  <2> QED
    BY <1>1, <2>1, <2>3, <2>4, <2>5, <2>7, AdmitsKeeps, PassesSigned
<1>3. CASE ~Validates(s)
  <2>1. Moves(s, "answered", OpenedAt(s), holder[s], ends[s], charged[s], began[s], "refused")
    BY <1>1, <1>3, MeetsOpens, Stays DEF TakeBearer, Refuses, Answers, Goes, Moves
  <2>2. began[s] = Never /\ ~charged[s] /\ holder[s] \notin Tokens
    BY <1>1, GatewayAssumption DEF SlotInv
  <2> QED
    BY <1>1, <2>1, <2>2, RefusesKeeps, MeetsOpens, SlotTypes
<1> QED
  BY <1>2, <1>3

LEMMA LookupEndsKeeps == ASSUME GatewayInv, NEW s \in Slots, LookupEnds(s) PROVE GatewayInv'
<1>1. at[s] = "lookup" /\ SlotInv(s) /\ schemas' = schemas
  BY DEF LookupEnds, GatewayInv, proxyVars
<1>2. /\ req[s].cred = "key" /\ req[s].route # "raw" /\ holder[s] = NoOne /\ began[s] = Never
      /\ ~charged[s] /\ req[s] \in Requests[s] /\ SignedWell(s)
  BY <1>1 DEF SlotInv, Own
<1>3. req[s].who \in Keys /\ req[s].who # NoOne /\ req[s].who \notin Tokens /\ NoOne \notin Tokens
  BY <1>2, GatewayAssumption
<1>4. life' = life
  BY <1>3, LeaseTypes DEF LookupEnds
<1>5. CASE Admits(s, req[s].who, ExpOf(req[s].who))
  <2>1. Moves(s, "admitted", opened[s], req[s].who, ExpOf(req[s].who), charged[s], began[s],
              status[s])
    BY <1>5, Stays DEF LookupEnds, Admits, Goes, Moves, proxyVars
  <2>2. life[req[s].who] \in Nat \cup {NoExpiry}
    BY <1>3 DEF GatewayInv, Typed
  <2>3. ExpOf(req[s].who) \in Int
    BY <2>2, NowTypes DEF ExpOf, NoExpiry
  <2>4. opened[s] \in [secret : Secrets \cup {None}, time : Never..MaxNow]
    BY SlotTypes
  <2> QED
    BY <1>1, <1>2, <1>3, <1>4, <2>1, <2>3, <2>4, AdmitsKeeps DEF SignedWell
<1>6. CASE Refuses(s) /\ UNCHANGED <<holder, ends, began>>
  <2>1. Moves(s, "answered", opened[s], holder[s], ends[s], charged[s], began[s], "refused")
    BY <1>6, Stays DEF LookupEnds, Refuses, Answers, Goes, Moves, proxyVars
  <2>2. charged[s] \in BOOLEAN /\ opened[s] \in [secret : Secrets \cup {None}, time : Never..MaxNow]
    BY SlotTypes
  <2> QED
    BY <1>1, <1>2, <1>4, <2>1, <2>2, RefusesKeeps
<1> QED
  BY <1>5, <1>6 DEF LookupEnds

-----------------------------------------------------------------------------
(* The handlers                                                             *)

LEMMA AdmittedKnown ==
    ASSUME GatewayInv, NEW s \in Slots, at[s] = "admitted"
    PROVE  /\ SlotInv(s) /\ SignedWell(s) /\ CallerKnown(s) /\ req[s].route # "raw"
           /\ began[s] = Never /\ ~charged[s] /\ status[s] = None
<1>1. SlotInv(s)
  BY DEF GatewayInv
<1> QED
  BY <1>1 DEF SlotInv

\* A tool is started: its caller is allowed to call it now, and a name that is
\* limited has been charged.
LEMMA StartsKeeps ==
    ASSUME GatewayInv, NEW s \in Slots, NEW c \in BOOLEAN, at[s] = "admitted",
           Moves(s, "running", opened[s], holder[s], ends[s], c, now, status[s]),
           schemas' = schemas, life' = life, Allowed(s), c <=> IsLimited(s)
    PROVE  GatewayInv'
<1>1. Moves(s, "running", opened[s], holder[s], ends[s], c, now, status[s])
  OBVIOUS
<1>2. /\ SlotInv(s) /\ SignedWell(s) /\ CallerKnown(s) /\ req[s].route # "raw"
      /\ began[s] = Never /\ ~charged[s] /\ status[s] = None
  BY AdmittedKnown
<1>3. /\ at'[s] = "running" /\ opened'[s] = opened[s] /\ holder'[s] = holder[s] /\ ends'[s] = ends[s]
      /\ charged'[s] = c /\ began'[s] = now /\ status'[s] = status[s]
      /\ req'[s] = req[s] /\ stamp'[s] = stamp[s] /\ mode' = mode /\ jwt' = jwt
  BY <1>1, MovesEffect
<1>4. now \in Never..MaxNow /\ now # Never /\ now \in Int /\ ends[s] \in Int
  BY NowTypes, SlotTypes DEF Never
<1>5. InScope(s)
  BY DEF InScope, Needs, Allowed, Scopes
<1>6. Needs(s) /\ ends[s] # NoExpiry => now <= ends[s]
  BY <1>4 DEF Needs, Allowed, Expired
<1>7. SignedWell(s)' /\ CallerKnown(s)' /\ InScope(s)' /\ (IsLimited(s)' <=> IsLimited(s))
  BY <1>2, <1>3, <1>5 DEF SignedWell, CallerKnown, InScope, Needs, IsLimited
<1>8. Needs(s)' <=> Needs(s)
  BY <1>3 DEF Needs
<1>9. SlotInv(s)'
  BY <1>2, <1>3, <1>4, <1>6, <1>7, <1>8 DEF SlotInv, Own, Started
<1>10. "running" \in Stages
  BY DEF Stages
<1>11. /\ opened[s] \in [secret : Secrets \cup {None}, time : Never..MaxNow]
       /\ holder[s] \in Tokens \cup Keys \cup {NoOne} /\ ends[s] \in Int
       /\ status[s] \in {None, "refused", "ok", "error"}
       /\ schemas' \in [Urls -> {None, "found", "failed"}]
  BY SlotTypes
<1> QED
  BY <1>1, <1>4, <1>9, <1>10, <1>11, MovesKeeps

\* A request that was admitted is refused, after it was charged or not.
LEMMA HandlerRefuses ==
    ASSUME GatewayInv, NEW s \in Slots, NEW c \in BOOLEAN, at[s] = "admitted",
           Moves(s, "answered", opened[s], holder[s], ends[s], c, began[s], "refused"),
           schemas' = schemas, life' = life, c => IsLimited(s) /\ InScope(s)
    PROVE  GatewayInv'
<1>1. opened[s] \in [secret : Secrets \cup {None}, time : Never..MaxNow]
  BY SlotTypes
<1> QED
  BY <1>1, AdmittedKnown, RefusesKeeps

LEMMA BadBodyKeeps == ASSUME GatewayInv, NEW s \in Slots, BadBody(s) PROVE GatewayInv'
<1>1. at[s] = "admitted" /\ life' = life /\ schemas' = schemas
  BY LeaseTypes DEF BadBody, HandlerOf, proxyVars
<1>2. Moves(s, "answered", opened[s], holder[s], ends[s], charged[s], began[s], "refused")
  BY Stays DEF BadBody, HandlerOf, Refuses, Answers, Goes, Moves, proxyVars
<1>3. charged[s] \in BOOLEAN /\ ~charged[s]
  BY <1>1, AdmittedKnown, SlotTypes
<1> QED
  BY <1>1, <1>2, <1>3, HandlerRefuses

LEMMA CallKeeps == ASSUME GatewayInv, NEW s \in Slots, Call(s) PROVE GatewayInv'
<1>1. /\ at[s] = "admitted" /\ life' = life /\ schemas' = schemas /\ req[s].route = "call"
      /\ UNCHANGED <<now, mode, jwt, secret, req, stamp, opened, holder, ends>>
  BY LeaseTypes DEF Call, HandlerOf, proxyVars
<1>2. PICK ok \in BOOLEAN :
         /\ charged' = [charged EXCEPT ![s] = Charges(s) /\ ok]
         /\ ok \/ Charges(s)
         /\ IF Known(s) /\ Allowed(s) /\ ok /\ Overrides(s)
            THEN Starts(s)
            ELSE Refuses(s) /\ UNCHANGED began
  BY DEF Call
<1> DEFINE c == Charges(s) /\ ok
<1>3. c \in BOOLEAN /\ charged' = [charged EXCEPT ![s] = c]
  BY <1>2
<1>4. Charges(s) => IsLimited(s) /\ InScope(s)
  <2>1. NoOne \notin Tokens
    BY GatewayAssumption
  <2> QED
    BY <1>1, <2>1 DEF Charges, Limited, IsLimited, InScope, Needs, Allowed, Scopes
<1>5. CASE Known(s) /\ Allowed(s) /\ ok /\ Overrides(s)
  <2>1. c <=> IsLimited(s)
    BY <1>1, <1>4, <1>5 DEF Charges, Limited, IsLimited
  <2> HIDE DEF c
  <2>2. Moves(s, "running", opened[s], holder[s], ends[s], c, now, status[s])
    BY <1>1, <1>2, <1>3, <1>5, Stays DEF Starts, Goes, Moves
  <2> QED
    BY <1>1, <1>3, <1>5, <2>1, <2>2, StartsKeeps
<1>6. CASE ~(Known(s) /\ Allowed(s) /\ ok /\ Overrides(s))
  <2>1. c => IsLimited(s) /\ InScope(s)
    BY <1>4
  <2> HIDE DEF c
  <2>2. Moves(s, "answered", opened[s], holder[s], ends[s], c, began[s], "refused")
    BY <1>1, <1>2, <1>3, <1>6, Stays DEF Refuses, Answers, Goes, Moves
  <2> QED
    BY <1>1, <1>3, <2>1, <2>2, HandlerRefuses
<1> QED
  BY <1>5, <1>6

LEMMA McpCallKeeps == ASSUME GatewayInv, NEW s \in Slots, McpCall(s) PROVE GatewayInv'
<1>1. /\ at[s] = "admitted" /\ life' = life /\ schemas' = schemas /\ req[s].route = "mcp"
      /\ UNCHANGED <<now, mode, jwt, secret, req, stamp, opened, holder, ends, charged>>
  BY LeaseTypes DEF McpCall, HandlerOf, proxyVars
<1>2. charged[s] \in BOOLEAN /\ ~charged[s] /\ ~IsLimited(s)
  BY <1>1, AdmittedKnown, SlotTypes DEF IsLimited
<1>3. CASE Known(s) /\ Allowed(s) /\ Overrides(s)
  <2>1. Moves(s, "running", opened[s], holder[s], ends[s], charged[s], now, status[s])
    BY <1>1, <1>3, Stays DEF McpCall, Starts, Goes, Moves
  <2> QED
    BY <1>1, <1>2, <1>3, <2>1, StartsKeeps
<1>4. CASE ~(Known(s) /\ Allowed(s) /\ Overrides(s))
  <2>1. Moves(s, "answered", opened[s], holder[s], ends[s], charged[s], began[s], "refused")
    BY <1>1, <1>4, Stays DEF McpCall, Refuses, Answers, Goes, Moves
  <2> QED
    BY <1>1, <1>2, <2>1, HandlerRefuses
<1> QED
  BY <1>3, <1>4

\* GET /tools/{name} answers, with or without a discovery.
LEMMA InfoAnswers ==
    ASSUME GatewayInv, NEW s \in Slots, at[s] \in {"admitted", "dialing"}, life' = life,
           schemas' \in [Urls -> {None, "found", "failed"}],
           Moves(s, "answered", opened[s], holder[s], ends[s], charged[s], began[s], "ok")
    PROVE  GatewayInv'
<1>1. began[s] = Never /\ ~charged[s]
  BY DEF GatewayInv, SlotInv
<1>2. charged[s] \in BOOLEAN /\ opened[s] \in [secret : Secrets \cup {None}, time : Never..MaxNow]
  BY SlotTypes
<1> QED
  BY <1>1, <1>2, UnstartedKeeps

LEMMA InfoKeeps == ASSUME GatewayInv, NEW s \in Slots, Info(s) PROVE GatewayInv'
<1>1. /\ at[s] = "admitted" /\ life' = life /\ schemas' = schemas
      /\ UNCHANGED <<now, mode, jwt, secret, req, stamp, opened, holder, ends, charged, began>>
  BY LeaseTypes DEF Info, proxyVars
<1>2. CASE Answers(s, "ok")
  <2>1. Moves(s, "answered", opened[s], holder[s], ends[s], charged[s], began[s], "ok")
    BY <1>1, <1>2, Stays DEF Answers, Goes, Moves
  <2> QED
    BY <1>1, <2>1, InfoAnswers, SlotTypes
<1>3. CASE Refuses(s)
  <2>1. Moves(s, "answered", opened[s], holder[s], ends[s], charged[s], began[s], "refused")
    BY <1>1, <1>3, Stays DEF Refuses, Answers, Goes, Moves
  <2>2. charged[s] \in BOOLEAN /\ ~charged[s]
    BY <1>1, AdmittedKnown, SlotTypes
  <2> QED
    BY <1>1, <2>1, <2>2, HandlerRefuses
<1> QED
  BY <1>2, <1>3 DEF Info

LEMMA InfoLazyKeeps == ASSUME GatewayInv, NEW s \in Slots, InfoLazy(s) PROVE GatewayInv'
<1>1. /\ at[s] = "admitted" /\ life' = life /\ schemas' = schemas
      /\ UNCHANGED <<now, mode, jwt, secret, req, stamp, opened, holder, ends, charged, began>>
  BY LeaseTypes DEF InfoLazy, proxyVars
<1>2. CASE Answers(s, "ok")
  <2>1. Moves(s, "answered", opened[s], holder[s], ends[s], charged[s], began[s], "ok")
    BY <1>1, <1>2, Stays DEF Answers, Goes, Moves
  <2> QED
    BY <1>1, <2>1, InfoAnswers, SlotTypes
<1>3. CASE Goes(s, "dialing") /\ UNCHANGED status
  <2>1. Moves(s, "dialing", opened[s], holder[s], ends[s], charged[s], began[s], status[s])
    BY <1>1, <1>3, Stays DEF Goes, Moves
  <2>2. /\ at'[s] = "dialing" /\ opened'[s] = opened[s] /\ holder'[s] = holder[s]
        /\ ends'[s] = ends[s] /\ charged'[s] = charged[s] /\ began'[s] = began[s]
        /\ status'[s] = status[s]
        /\ req'[s] = req[s] /\ stamp'[s] = stamp[s] /\ mode' = mode /\ jwt' = jwt
    BY <2>1, MovesEffect
  <2>3. SlotInv(s) /\ at[s] = "admitted"
    BY <1>1, AdmittedKnown
  <2>4. SlotInv(s)'
    BY <2>2, <2>3 DEF SlotInv, Own, Started, SignedWell, CallerKnown, InScope, Needs, IsLimited
  <2>5. "dialing" \in Stages
    BY DEF Stages
  <2>6. /\ opened[s] \in [secret : Secrets \cup {None}, time : Never..MaxNow]
        /\ holder[s] \in Tokens \cup Keys \cup {NoOne} /\ ends[s] \in Int
        /\ charged[s] \in BOOLEAN /\ began[s] \in Never..MaxNow
        /\ status[s] \in {None, "refused", "ok", "error"}
        /\ schemas' \in [Urls -> {None, "found", "failed"}]
    BY <1>1, SlotTypes
  <2> QED
    BY <1>1, <2>1, <2>4, <2>5, <2>6, MovesKeeps
<1> QED
  BY <1>2, <1>3 DEF InfoLazy

LEMMA DialEndsKeeps == ASSUME GatewayInv, NEW s \in Slots, DialEnds(s) PROVE GatewayInv'
<1>1. /\ at[s] = "dialing" /\ life' = life
      /\ UNCHANGED <<now, mode, jwt, secret, req, stamp, opened, holder, ends, charged, began>>
  BY LeaseTypes DEF DialEnds
<1>2. schemas' \in [Urls -> {None, "found", "failed"}]
  BY SlotTypes DEF DialEnds
<1>3. Moves(s, "answered", opened[s], holder[s], ends[s], charged[s], began[s], "ok")
  BY <1>1, Stays DEF DialEnds, Answers, Goes, Moves
<1> QED
  BY <1>1, <1>2, <1>3, InfoAnswers

\* The row of POST /call says what its answer says, and no other answer has one.
LEMMA RowAgrees ==
    ASSUME NEW s \in Slots, NEW kind \in Kinds(s)
    PROVE  /\ StatusOf(s, kind) \in {"ok", "error"}
           /\ req[s].route = "call" => RowOf(s, kind) = StatusOf(s, kind)
           /\ req[s].route # "call" => RowOf(s, kind) = None
<1>1. kind \in {"ok", "error", "empty", "unprocessed"}
  BY DEF Kinds
<1> QED
  BY <1>1 DEF StatusOf, RowOf

\* Where a request goes when its upstream is done.
LEMMA FinishIs ==
    ASSUME NEW s \in Slots, Finish(s)
    PROVE  \E st \in {"ok", "error"} :
             \/ req[s].route # "call" /\ Answers(s, st) /\ UNCHANGED logVars
             \/ req[s].route = "call" /\ Appends(s, st, st)
<1>1. PICK kind \in Kinds(s) :
         IF RowOf(s, kind) = None
         THEN Answers(s, StatusOf(s, kind)) /\ UNCHANGED logVars
         ELSE Appends(s, StatusOf(s, kind), RowOf(s, kind))
  BY DEF Finish
<1> DEFINE st == StatusOf(s, kind)
           rw == RowOf(s, kind)
<1>2. st \in {"ok", "error"} /\ (req[s].route = "call" => rw = st) /\ (req[s].route # "call" => rw = None)
  BY RowAgrees
<1>3. IF rw = None THEN Answers(s, st) /\ UNCHANGED logVars ELSE Appends(s, st, rw)
  BY <1>1
<1> HIDE DEF st, rw
<1> QED
  BY <1>2, <1>3 DEF None

LEMMA FinishMoves ==
    ASSUME NEW s \in Slots, Finish(s)
    PROVE  \E st \in {"ok", "error"} : \E a \in {"ending", "answered"} :
             /\ Goes(s, a) /\ status' = [status EXCEPT ![s] = st]
             /\ a = "ending" => req[s].route = "call"
<1>1. PICK st \in {"ok", "error"} :
             \/ req[s].route # "call" /\ Answers(s, st)
             \/ req[s].route = "call" /\ Appends(s, st, st)
  BY FinishIs
<1> QED
  BY <1>1 DEF Answers, Appends

LEMMA FinishKeeps == ASSUME GatewayInv, NEW s \in Slots, Finish(s) PROVE GatewayInv'
<1>1. /\ at[s] = "running" /\ life' = life /\ schemas' = schemas
      /\ UNCHANGED <<now, mode, jwt, secret, req, stamp, opened, holder, ends, charged, began>>
  BY LeaseTypes DEF Finish
<1>2. PICK st \in {"ok", "error"}, a \in {"ending", "answered"} :
         /\ Goes(s, a) /\ status' = [status EXCEPT ![s] = st]
         /\ a = "ending" => req[s].route = "call"
  BY FinishMoves
<1>5. Moves(s, a, opened[s], holder[s], ends[s], charged[s], began[s], st)
  BY <1>1, <1>2, Stays DEF Goes, Moves
<1>6. /\ at'[s] = a /\ opened'[s] = opened[s] /\ holder'[s] = holder[s]
      /\ ends'[s] = ends[s] /\ charged'[s] = charged[s] /\ began'[s] = began[s]
      /\ status'[s] = st
      /\ req'[s] = req[s] /\ stamp'[s] = stamp[s] /\ mode' = mode /\ jwt' = jwt
  BY <1>5, MovesEffect
<1>7. SlotInv(s) /\ Started(s)
  BY <1>1 DEF GatewayInv, SlotInv
<1>8. "ok" # None /\ "error" # None
  BY DEF None
<1>9. SlotInv(s)'
  BY <1>1, <1>2, <1>6, <1>7, <1>8
     DEF SlotInv, Own, Started, SignedWell, CallerKnown, InScope, Needs, IsLimited
<1>10. a \in Stages /\ st \in {None, "refused", "ok", "error"}
  BY DEF Stages
<1>11. /\ opened[s] \in [secret : Secrets \cup {None}, time : Never..MaxNow]
       /\ holder[s] \in Tokens \cup Keys \cup {NoOne} /\ ends[s] \in Int
       /\ charged[s] \in BOOLEAN /\ began[s] \in Never..MaxNow
       /\ schemas' \in [Urls -> {None, "found", "failed"}]
  BY <1>1, SlotTypes
<1> QED
  BY <1>1, <1>5, <1>9, <1>10, <1>11, MovesKeeps

LEMMA EndsRowKeeps == ASSUME GatewayInv, NEW s \in Slots, EndsRow(s) PROVE GatewayInv'
<1>1. /\ at[s] = "ending" /\ life' = life /\ schemas' = schemas
      /\ UNCHANGED <<now, mode, jwt, secret, req, stamp, opened, holder, ends, charged, began, status>>
  BY LeaseTypes DEF EndsRow
<1>5. Moves(s, "answered", opened[s], holder[s], ends[s], charged[s], began[s], status[s])
  BY <1>1, Stays DEF EndsRow, Goes, Moves
<1>6. /\ at'[s] = "answered" /\ opened'[s] = opened[s] /\ holder'[s] = holder[s]
      /\ ends'[s] = ends[s] /\ charged'[s] = charged[s] /\ began'[s] = began[s]
      /\ status'[s] = status[s]
      /\ req'[s] = req[s] /\ stamp'[s] = stamp[s] /\ mode' = mode /\ jwt' = jwt
  BY <1>5, MovesEffect
<1>7. SlotInv(s)
  BY DEF GatewayInv
<1>9. SlotInv(s)'
  BY <1>1, <1>6, <1>7
     DEF SlotInv, Own, Started, SignedWell, CallerKnown, InScope, Needs, IsLimited
<1>10. "answered" \in Stages
  BY DEF Stages
<1>11. /\ opened[s] \in [secret : Secrets \cup {None}, time : Never..MaxNow]
       /\ holder[s] \in Tokens \cup Keys \cup {NoOne} /\ ends[s] \in Int
       /\ charged[s] \in BOOLEAN /\ began[s] \in Never..MaxNow
       /\ status[s] \in {None, "refused", "ok", "error"}
       /\ schemas' \in [Urls -> {None, "found", "failed"}]
  BY <1>1, SlotTypes
<1> QED
  BY <1>1, <1>5, <1>9, <1>10, <1>11, MovesKeeps

-----------------------------------------------------------------------------
(* Surroundings                                                             *)

LEMMA AllSame ==
    ASSUME GatewayInv, Typed', UNCHANGED <<mode, jwt, at, req, stamp, opened, holder, ends, charged,
                                           began, status>>
    PROVE  GatewayInv'
<1>1. \A t \in Slots : Same(t)
  BY DEF Same
<1> QED
  BY <1>1, SameKeeps DEF GatewayInv

LEMMA SurroundingsKeep == ASSUME GatewayInv, Tick \/ Administer \/ Reload PROVE GatewayInv'
<1>1. CASE Tick
  <2>1. now' \in 0..MaxNow
    BY <1>1, NowTypes, GatewayAssumption DEF Tick
  <2>2. life' \in [Keys -> Nat \cup {NoExpiry}]
    BY <1>1, LeaseTypes DEF Tick
  <2> QED
    BY <1>1, <2>1, <2>2, AllSame DEF Tick, slotVars, proxyVars, GatewayInv, Typed
<1>2. CASE Administer
  <2>1. life' \in [Keys -> Nat \cup {NoExpiry}]
    BY <1>2, LeaseTypes DEF Administer, GatewayInv, Typed
  <2> QED
    BY <1>2, <2>1, AllSame DEF Administer, slotVars, proxyVars, GatewayInv, Typed
<1>3. CASE Reload
  <2>1. life' \in [Keys -> Nat \cup {NoExpiry}]
    BY <1>3, LeaseTypes DEF Reload, GatewayInv, Typed
  <2> QED
    BY <1>3, <2>1, AllSame DEF Reload, slotVars, GatewayInv, Typed
<1> QED
  BY <1>1, <1>2, <1>3

LEMMA SendKeeps ==
    ASSUME GatewayInv, NEW s \in Slots, NEW r \in Requests[s], Send(s, r) PROVE GatewayInv'
<1>1. r \in Request
  BY GatewayAssumption
<1>2. (IF r.secret = None THEN 0 ELSE now + r.skew) \in Int
  BY <1>1, NowTypes DEF Request
<1>3. Holds(s, "sent", r, IF r.secret = None THEN 0 ELSE now + r.skew)
  BY DEF Send
<1> QED
  BY <1>1, <1>2, <1>3, HoldsKeeps

LEMMA LeaveKeeps == ASSUME GatewayInv, NEW s \in Slots, Leave(s) PROVE GatewayInv'
<1>1. Blank \in Request
  BY DEF Blank, Request
<1> QED
  BY <1>1, HoldsKeeps DEF Leave

-----------------------------------------------------------------------------
(* The theorems                                                             *)

LEMMA InvInit == Init => GatewayInv
<1> SUFFICES ASSUME Init PROVE GatewayInv
  OBVIOUS
<1>1. Blank \in Request
  BY DEF Blank, Request
<1>2. Typed
  BY <1>1, GatewayAssumption
     DEF Init, Typed, Stages, Unopened, Never, NoExpiry, Lease!Init, Lease!NoExpiry
<1>3. NoOne \notin Tokens
  BY GatewayAssumption
<1>4. \A s \in Slots : SlotInv(s)
  BY <1>3 DEF Init, SlotInv, Own, Started
<1> QED
  BY <1>2, <1>4 DEF GatewayInv

LEMMA InvStep == GatewayInv /\ [Next]_vars => GatewayInv'
<1> SUFFICES ASSUME GatewayInv, [Next]_vars PROVE GatewayInv'
  OBVIOUS
<1>1. CASE UNCHANGED vars
  <2>1. Typed'
    BY <1>1 DEF vars, GatewayInv, Typed
  <2> QED
    BY <1>1, <2>1, AllSame DEF vars
<1>2. CASE Next
  <2>1. ASSUME NEW s \in Slots, Handle(s) PROVE GatewayInv'
    BY <2>1, BadBodyKeeps, CallKeeps, McpCallKeeps, InfoKeeps, InfoLazyKeeps DEF Handle
  <2> QED
    BY <1>2, <2>1, SurroundingsKeep, SendKeeps, LeaveKeeps, RefuseSignatureKeeps, TakeRawKeeps,
       TakeKeyKeeps, TakeUnauthenticatedKeeps, TakeBearerKeeps, LookupEndsKeeps, DialEndsKeeps,
       FinishKeeps, EndsRowKeeps DEF Next
<1> QED
  BY <1>1, <1>2

LEMMA InvHolds == Spec => []GatewayInv
  BY InvInit, InvStep, PTL DEF Spec

\* What starts was signed and its caller authenticated and allowed, whatever happens
\* to secrets, keys and the clock while it waits (sig_verify_middleware,
\* auth_middleware and the handlers of server.rs).
THEOREM StartsForCause == Spec => []RunsForCause
<1>1. GatewayInv => RunsForCause
  BY DEF GatewayInv, RunsForCause, SlotInv, SignedWell, CallerKnown, InScope
<1> QED
  BY <1>1, InvHolds, PTL

\* No tool with a scope starts after its caller's expiry, however slow the body
\* (ScopeConfig::is_expired is asked after the body was read).
THEOREM NothingStartsLate == Spec => []StartsInTime
<1>1. GatewayInv => StartsInTime
  BY DEF GatewayInv, StartsInTime, SlotInv
<1> QED
  BY <1>1, InvHolds, PTL

\* A budget is spent by calls that are limited and allowed, and by every such call that
\* starts (handle_call asks the limiter after the scopes and before the dispatch).
THEOREM BudgetsAreSpentForCause == Spec => []ChargedForCause
<1>1. GatewayInv => ChargedForCause
  <2> SUFFICES ASSUME GatewayInv, NEW s \in Slots
               PROVE  /\ charged[s] => /\ IsLimited(s)
                                       /\ Needs(s) => req[s].tool \in Grants[holder[s]]
                      /\ Started(s) /\ IsLimited(s) => charged[s]
    BY DEF ChargedForCause, IsLimited
  <2>1. NoOne \notin Tokens
    BY GatewayAssumption
  <2> QED
    BY <2>1 DEF GatewayInv, SlotInv, IsLimited, InScope
<1> QED
  BY <1>1, InvHolds, PTL

-----------------------------------------------------------------------------
(* The audit log                                                            *)

LogTyped ==
    /\ row \in [Slots -> {None, "ok", "error"}] /\ unended \subseteq Slots
    /\ remnant \in BOOLEAN /\ spoilt \in [Slots -> BOOLEAN]

HasRow(s) == at[s] \in {"ending", "answered"} /\ req[s].route = "call" /\ Started(s)

\* A row that is at the end of a line without an end may yet be lost, and then for cause.
RowInv(s) ==
    /\ row[s] # None => HasRow(s) /\ row[s] = status[s]
    /\ HasRow(s) /\ row[s] = None => spoilt[s]
    /\ s \in unended /\ row[s] # None => at[s] = "ending" \/ spoilt[s]

LogInv ==
    /\ LogTyped
    /\ \A s \in Slots : RowInv(s)
    /\ ~remnant => \A s \in unended : at[s] = "ending"

\* A step of a request that leaves the log alone and does not answer a call that started.
LEMMA LogKeeps ==
    ASSUME LogInv, NEW s \in Slots, UNCHANGED logVars, at[s] \notin {"ending", "answered"},
           \A t \in Slots \ {s} : /\ at'[t] = at[t] /\ req'[t] = req[t]
                                   /\ began'[t] = began[t] /\ status'[t] = status[t],
           ~HasRow(s)'
    PROVE  LogInv'
<1>1. row[s] = None
  BY DEF LogInv, RowInv, HasRow
<1>2. ASSUME NEW t \in Slots PROVE RowInv(t)'
  <2>1. CASE t = s
    BY <1>1, <2>1 DEF logVars, RowInv
  <2>2. CASE t # s
    BY <2>2 DEF LogInv, RowInv, HasRow, Started, logVars
  <2> QED
    BY <2>1, <2>2
<1>3. LogTyped'
  BY DEF LogInv, LogTyped, logVars
<1>4. ~remnant' => \A t \in unended' : at'[t] = "ending"
  BY DEF LogInv, LogTyped, logVars
<1> QED
  BY <1>2, <1>3, <1>4 DEF LogInv

\* So are all steps of a request up to its upstream's answer.
LEMMA RequestKeepsLog ==
    ASSUME GatewayInv, LogInv, NEW s \in Slots,
           \/ RefuseSignature(s) \/ TakeRaw(s) \/ TakeKey(s) \/ TakeUnauthenticated(s)
           \/ TakeBearer(s) \/ LookupEnds(s) \/ Handle(s) \/ DialEnds(s)
    PROVE  LogInv'
<1> DEFINE Turns(stage) == Goes(s, stage) /\ req' = req /\ UNCHANGED logVars
           Ends == Refuses(s) \/ Answers(s, "ok")
<1>1. at[s] \in {"sent", "lookup", "admitted", "dialing"}
  BY DEF RefuseSignature, TakeRaw, TakeKey, TakeUnauthenticated, TakeBearer, LookupEnds, Handle,
         DialEnds, Meets, BadBody, Call, McpCall, HandlerOf, Info, InfoLazy
<1>2. began[s] = Never /\ status[s] = None
  BY <1>1 DEF GatewayInv, SlotInv
<1>3. req' = req /\ UNCHANGED logVars
  BY DEF RefuseSignature, TakeRaw, TakeKey, TakeUnauthenticated, TakeBearer, LookupEnds, Handle,
         DialEnds, Meets, BadBody, Call, McpCall, HandlerOf, Info, InfoLazy, proxyVars
<1>4. \/ /\ \E stage \in {"lookup", "admitted", "dialing", "running"} : Goes(s, stage)
         /\ began' \in {began, [began EXCEPT ![s] = now]} /\ status' = status
      \/ Ends /\ began' = began
  <2>1. CASE RefuseSignature(s) \/ TakeRaw(s) \/ TakeKey(s)
    BY <2>1 DEF RefuseSignature, TakeRaw, TakeKey
  <2>2. CASE TakeUnauthenticated(s) \/ TakeBearer(s)
    BY <2>2 DEF TakeUnauthenticated, TakeBearer, Admits
  <2>3. CASE LookupEnds(s)
    BY <2>3 DEF LookupEnds, Admits
  <2>4. CASE BadBody(s) \/ McpCall(s)
    BY <2>4 DEF BadBody, McpCall, Starts
  <2>5. CASE Call(s)
    BY <2>5 DEF Call, Starts
  <2>6. CASE Info(s) \/ InfoLazy(s)
    BY <2>6 DEF Info, InfoLazy
  <2>7. CASE DialEnds(s)
    BY <2>7 DEF DialEnds
  <2> QED
    BY <2>1, <2>2, <2>3, <2>4, <2>5, <2>6, <2>7 DEF Handle
<1>5. \A t \in Slots \ {s} : /\ at'[t] = at[t] /\ req'[t] = req[t]
                              /\ began'[t] = began[t] /\ status'[t] = status[t]
  BY <1>3, <1>4 DEF GatewayInv, Typed, Goes, Refuses, Answers
<1>6. ~HasRow(s)'
  <2>1. CASE \E stage \in {"lookup", "admitted", "dialing", "running"} : Goes(s, stage)
    BY <2>1 DEF HasRow, Goes, GatewayInv, Typed
  <2>2. CASE began' = began
    BY <1>2, <2>2 DEF HasRow, Started
  <2> QED
    BY <1>4, <2>1, <2>2
<1> QED
  BY <1>1, <1>3, <1>5, <1>6, LogKeeps

LEMMA HoldsKeepsLog ==
    ASSUME GatewayInv, LogInv, NEW s \in Slots, NEW stage \in {"idle", "sent"}, NEW r, NEW t,
           at[s] # "ending", Holds(s, stage, r, t)
    PROVE  LogInv'
<1>1. /\ unended' = unended /\ remnant' = remnant /\ row' = [row EXCEPT ![s] = None]
      /\ spoilt' = [spoilt EXCEPT ![s] = FALSE]
  BY DEF Holds
<1>2. \A u \in Slots \ {s} : /\ at'[u] = at[u] /\ req'[u] = req[u]
                              /\ began'[u] = began[u] /\ status'[u] = status[u]
                              /\ row'[u] = row[u] /\ spoilt'[u] = spoilt[u]
  BY <1>1 DEF GatewayInv, Typed, LogInv, LogTyped, Holds
<1>3. at'[s] = stage /\ row'[s] = None
  BY <1>1 DEF GatewayInv, Typed, LogInv, LogTyped, Holds
<1>4. ASSUME NEW u \in Slots PROVE RowInv(u)'
  <2>1. CASE u = s
    BY <1>3, <2>1 DEF RowInv, HasRow
  <2>2. CASE u # s
    BY <1>1, <1>2, <2>2 DEF LogInv, RowInv, HasRow, Started
  <2> QED
    BY <2>1, <2>2
<1>5. LogTyped'
  BY <1>1 DEF LogInv, LogTyped
<1>6. ~remnant' => \A u \in unended' : at'[u] = "ending"
  BY <1>1, <1>2 DEF LogInv, LogTyped
<1> QED
  BY <1>4, <1>5, <1>6 DEF LogInv

\* A row that is put in the log is not read if the log had no end before it; and then its
\* line is that of a row under way, or what a failed write has left.
LEMMA AppendsKeepsLog ==
    ASSUME GatewayInv, LogInv, NEW s \in Slots, NEW st \in {"ok", "error"}, Appends(s, st, st),
           at[s] = "running", req[s].route = "call", req' = req, began' = began
    PROVE  LogInv'
<1> DEFINE beside == {t \in Slots : at[t] = "ending"}
<1>1. PICK put \in {"all", "part", "nothing"} :
          /\ Goes(s, IF put = "all" THEN "ending" ELSE "answered")
          /\ status' = [status EXCEPT ![s] = st]
          /\ row' = [t \in Slots |->
                        IF put # "nothing" /\ t \in unended THEN None
                        ELSE IF t = s /\ put = "all" /\ unended = {} THEN st
                        ELSE row[t]]
          /\ unended' = IF put = "nothing" THEN unended ELSE unended \cup {s}
          /\ remnant' = (remnant \/ put = "part")
          /\ spoilt' = [t \in Slots |->
                           \/ spoilt[t]
                           \/ t = s /\ (put # "all" \/ remnant)
                           \/ put # "nothing" /\ beside # {} /\ t \in beside \cup {s}]
  BY DEF Appends
<1>2. /\ Started(s) /\ Started(s)' /\ row[s] = None
      /\ at'[s] = IF put = "all" THEN "ending" ELSE "answered"
      /\ status'[s] = st /\ st # None
  BY <1>1 DEF GatewayInv, Typed, SlotInv, LogInv, RowInv, HasRow, Goes, Started, None
<1>3. \A u \in Slots \ {s} : at'[u] = at[u] /\ status'[u] = status[u]
  BY <1>1 DEF GatewayInv, Typed, Goes
<1>4. LogTyped'
  BY <1>1 DEF LogInv, LogTyped
<1>5. ASSUME NEW u \in Slots, u # s PROVE RowInv(u)'
  <2>1. HasRow(u)' <=> HasRow(u)
    BY <1>3, <1>5 DEF HasRow, Started
  <2>2. row'[u] = (IF put # "nothing" /\ u \in unended THEN None ELSE row[u]) /\ (spoilt[u] => spoilt'[u])
    BY <1>1, <1>5
  <2>3. CASE put # "nothing" /\ u \in unended
    <3>1. row'[u] = None
      BY <2>2, <2>3
    <3>2. ASSUME HasRow(u) PROVE spoilt'[u]
      <4>1. CASE spoilt[u] \/ row[u] = None
        BY <2>2, <3>2, <4>1 DEF LogInv, RowInv
      <4>2. CASE ~spoilt[u] /\ row[u] # None
        <5>1. at[u] = "ending"
          BY <2>3, <4>2 DEF LogInv, RowInv
        <5>2. u \in beside
          BY <5>1
        <5> QED
          BY <1>1, <2>3, <5>2
      <4> QED
        BY <4>1, <4>2
    <3> QED
      BY <2>1, <3>1, <3>2 DEF RowInv
  <2>4. CASE ~(put # "nothing" /\ u \in unended)
    <3>1. row'[u] = row[u] /\ (u \in unended' => u \in unended)
      BY <1>1, <1>5, <2>2, <2>4
    <3> QED
      BY <1>3, <1>5, <2>1, <2>2, <3>1 DEF LogInv, RowInv
  <2> QED
    BY <2>3, <2>4
<1>6. RowInv(s)'
  <2>1. HasRow(s)'
    BY <1>2 DEF HasRow
  <2>2. CASE put = "all" /\ unended = {}
    BY <1>1, <1>2, <2>1, <2>2 DEF RowInv
  <2>3. CASE ~(put = "all" /\ unended = {})
    <3>1. row'[s] = None
      BY <1>1, <1>2, <2>3
    <3>2. spoilt'[s]
      <4>1. CASE put # "all" \/ remnant
        BY <1>1, <4>1
      <4>2. CASE put = "all" /\ ~remnant
        <5>1. PICK u \in unended : at[u] = "ending"
          BY <2>3, <4>2 DEF LogInv
        <5>2. u \in beside
          BY <5>1 DEF LogInv, LogTyped
        <5> QED
          BY <1>1, <4>2, <5>2
      <4> QED
        BY <4>1, <4>2
    <3> QED
      BY <2>1, <3>1, <3>2 DEF RowInv
  <2> QED
    BY <2>2, <2>3
<1>7. ~remnant' => \A u \in unended' : at'[u] = "ending"
  BY <1>1, <1>2, <1>3 DEF LogInv, LogTyped
<1> QED
  BY <1>4, <1>5, <1>6, <1>7 DEF LogInv

LEMMA EndsRowKeepsLog ==
    ASSUME GatewayInv, LogInv, NEW s \in Slots, EndsRow(s)
    PROVE  LogInv'
<1>1. /\ at[s] = "ending" /\ at'[s] = "answered" /\ UNCHANGED <<req, began, status, row>>
      /\ \A u \in Slots \ {s} : at'[u] = at[u]
  BY DEF EndsRow, Goes, GatewayInv, Typed
<1>2. \/ unended' = {} /\ remnant' = FALSE /\ spoilt' = spoilt
      \/ remnant' = TRUE /\ spoilt' = [spoilt EXCEPT ![s] = TRUE] /\ unended' = unended
  BY DEF EndsRow
<1>3. LogTyped'
  BY <1>1, <1>2 DEF LogInv, LogTyped
<1>4. ASSUME NEW u \in Slots PROVE RowInv(u)'
  <2>1. (HasRow(u)' <=> HasRow(u)) /\ (spoilt[u] => spoilt'[u])
    BY <1>1, <1>2 DEF HasRow, Started, LogInv, LogTyped
  <2>2. u \in unended' => u \in unended /\ (u = s => spoilt'[s])
    BY <1>2 DEF LogInv, LogTyped
  <2> QED
    BY <1>1, <2>1, <2>2 DEF LogInv, RowInv
<1>5. ~remnant' => \A u \in unended' : at'[u] = "ending"
  BY <1>2
<1> QED
  BY <1>3, <1>4, <1>5 DEF LogInv

LEMMA NoStepKeepsLog ==
    ASSUME LogInv, UNCHANGED <<at, req, began, status, logVars>>
    PROVE  LogInv'
  BY DEF LogInv, LogTyped, RowInv, HasRow, Started, logVars

LEMMA LogStep == GatewayInv /\ LogInv /\ [Next]_vars => LogInv'
<1> SUFFICES ASSUME GatewayInv, LogInv, [Next]_vars PROVE LogInv'
  OBVIOUS
<1>1. CASE UNCHANGED vars
  BY <1>1, NoStepKeepsLog DEF vars, logVars
<1>2. CASE Tick \/ Administer \/ Reload
  BY <1>2, NoStepKeepsLog DEF Tick, Administer, Reload, slotVars, proxyVars
<1>3. ASSUME NEW s \in Slots, NEW r \in Requests[s], Send(s, r) PROVE LogInv'
  BY <1>3, HoldsKeepsLog DEF Send
<1>4. ASSUME NEW s \in Slots, Leave(s) PROVE LogInv'
  BY <1>4, HoldsKeepsLog DEF Leave
<1>5. ASSUME NEW s \in Slots, Finish(s) PROVE LogInv'
  <2>1. at[s] = "running" /\ req' = req /\ began' = began
    BY <1>5 DEF Finish
  <2>2. PICK st \in {"ok", "error"} :
             \/ req[s].route # "call" /\ Answers(s, st) /\ UNCHANGED logVars
             \/ req[s].route = "call" /\ Appends(s, st, st)
    BY <1>5, FinishIs
  <2>3. CASE req[s].route # "call" /\ Answers(s, st) /\ UNCHANGED logVars
    <3>1. \A t \in Slots \ {s} : at'[t] = at[t] /\ status'[t] = status[t]
      BY <2>3 DEF Answers, Goes, GatewayInv, Typed
    <3>2. ~HasRow(s)'
      BY <2>1, <2>3 DEF HasRow
    <3> QED
      BY <2>1, <2>3, <3>1, <3>2, LogKeeps
  <2> QED
    BY <2>1, <2>2, <2>3, AppendsKeepsLog
<1> QED
  BY <1>1, <1>2, <1>3, <1>4, <1>5, RequestKeepsLog, EndsRowKeepsLog DEF Next

LEMMA LogInit == Init => LogInv
<1> SUFFICES ASSUME Init PROVE LogInv
  OBVIOUS
<1>1. LogTyped
  BY DEF Init, LogTyped
<1> QED
  BY <1>1 DEF Init, LogInv, RowInv, HasRow

LEMMA LogHolds == Spec => []LogInv
  BY InvHolds, LogInit, LogStep, PTL DEF Spec

\* Values have their types in every reachable state of any instance.
THEOREM TypeCorrect == Spec => []TypeOK
<1>1. GatewayInv /\ LogInv => TypeOK
  BY DEF GatewayInv, Typed, LogInv, LogTyped, TypeOK, SlotInv, Own, Started
<1> QED
  BY <1>1, InvHolds, LogHolds, PTL

\* What can be read in the audit log agrees with the answers, and a call whose tool was
\* started is there unless a write failed or two rows met (write_proxy_audit and
\* audit::append, for any number of requests).
THEOREM AuditRowsAgree == Spec => []AuditAgrees
<1>1. LogInv => AuditAgrees
  BY DEF LogInv, AuditAgrees, RowInv, HasRow
<1> QED
  BY <1>1, LogHolds, PTL

-----------------------------------------------------------------------------
(* Schemas                                                                  *)

\* A slot that dials after a step dialed before it, or has found no entry.
DialsFresh ==
    \A t \in Slots : at'[t] = "dialing" =>
        req'[t] = req[t] /\ (at[t] = "dialing" \/ schemas[req[t].url] = None)

\* A step that moves one slot to another place than the dial leaves the rest alone.
LEMMA GoesElsewhere ==
    ASSUME GatewayInv, NEW s \in Slots, NEW stage, stage # "dialing", Goes(s, stage), req' = req
    PROVE  DialsFresh
  BY DEF GatewayInv, Typed, Goes, DialsFresh

LEMMA RequestDials ==
    ASSUME GatewayInv, NEW s \in Slots,
           \/ RefuseSignature(s) \/ TakeRaw(s) \/ TakeKey(s)
           \/ TakeUnauthenticated(s) \/ TakeBearer(s) \/ LookupEnds(s) \/ Handle(s)
           \/ Finish(s) \/ EndsRow(s)
    PROVE  DialsFresh /\ schemas' = schemas
<1> USE GoesElsewhere
<1>1. CASE RefuseSignature(s)
  BY <1>1 DEF RefuseSignature, Meets, Refuses, Answers, proxyVars
<1>2. CASE TakeRaw(s) \/ TakeKey(s)
  BY <1>2 DEF TakeRaw, TakeKey, Meets, proxyVars
<1>3. CASE TakeUnauthenticated(s) \/ TakeBearer(s)
  BY <1>3 DEF TakeUnauthenticated, TakeBearer, Meets, Admits, Refuses, Answers, proxyVars
<1>4. CASE LookupEnds(s)
  BY <1>4 DEF LookupEnds, Admits, Refuses, Answers, proxyVars
<1>5. CASE BadBody(s) \/ Info(s)
  BY <1>5 DEF BadBody, Info, HandlerOf, Refuses, Answers, proxyVars
<1>6. CASE Call(s) \/ McpCall(s)
  BY <1>6 DEF Call, McpCall, HandlerOf, Starts, Refuses, Answers, proxyVars
<1>7. CASE InfoLazy(s)
  <2>1. req' = req /\ schemas' = schemas
    BY <1>7 DEF InfoLazy, proxyVars
  <2>2. CASE Cached(req[s].url)
    BY <1>7, <2>1, <2>2 DEF InfoLazy, Answers
  <2>3. CASE schemas[req[s].url] = None
    <3>1. Goes(s, "dialing")
      BY <1>7, <2>3 DEF InfoLazy, Cached
    <3> QED
      BY <2>1, <2>3, <3>1 DEF GatewayInv, Typed, Goes, DialsFresh
  <2> QED
    BY <2>2, <2>3 DEF Cached
<1>8. CASE Finish(s)
  BY <1>8, FinishMoves DEF Finish
<1>9. CASE EndsRow(s)
  BY <1>9 DEF EndsRow
<1> QED
  BY <1>1, <1>2, <1>3, <1>4, <1>5, <1>6, <1>7, <1>8, <1>9 DEF Handle

\* Only a dial that ends sets an entry, and that of the URL it dialed.
LEMMA StepDials ==
    ASSUME GatewayInv, [Next]_vars
    PROVE  /\ DialsFresh
           /\ \A u \in Urls : schemas'[u] = schemas[u] \/ Dialing(u)
<1>1. CASE UNCHANGED vars
  BY <1>1 DEF vars, DialsFresh
<1>2. CASE Tick \/ Administer \/ Reload
  BY <1>2 DEF Tick, Administer, Reload, slotVars, proxyVars, DialsFresh
<1>3. ASSUME NEW s \in Slots, NEW stage \in {"idle", "sent"}, NEW r, NEW t, Holds(s, stage, r, t)
      PROVE  DialsFresh /\ schemas' = schemas
  <2>1. \A t_1 \in Slots : at'[t_1] = "dialing" => t_1 # s /\ at[t_1] = "dialing" /\ req'[t_1] = req[t_1]
    BY <1>3 DEF Holds, GatewayInv, Typed
  <2> QED
    BY <1>3, <2>1 DEF Holds, proxyVars, DialsFresh
<1>4. ASSUME NEW s \in Slots, DialEnds(s)
      PROVE  DialsFresh /\ \A u \in Urls : schemas'[u] = schemas[u] \/ Dialing(u)
  <2>1. DialsFresh
    BY <1>4, GoesElsewhere DEF DialEnds, Answers
  <2>2. \A u \in Urls : schemas'[u] = schemas[u] \/ u = req[s].url
    BY <1>4 DEF DialEnds, GatewayInv, Typed
  <2> QED
    BY <1>4, <2>1, <2>2 DEF DialEnds, Dialing
<1>5. ASSUME NEW s \in Slots, NEW r \in Requests[s], Send(s, r)
      PROVE  DialsFresh /\ schemas' = schemas
  BY <1>3, <1>5 DEF Send
<1>6. ASSUME NEW s \in Slots, Leave(s)
      PROVE  DialsFresh /\ schemas' = schemas
  BY <1>3, <1>6 DEF Leave
<1> QED
  BY <1>1, <1>2, <1>4, <1>5, <1>6, RequestDials DEF Next

\* Once a discovery of a URL has ended, well or badly, and no other is under way, the
\* URL is not dialed again and its entry stays (resolve_lazy_input_schema and
\* lazy_fetch_schemas of server.rs).
THEOREM SchemasSettle == Spec => SchemaSettles
<1>1. GatewayInv /\ [Next]_vars =>
          \A u \in Urls : schemas[u] # None /\ ~Dialing(u)
                             => schemas'[u] = schemas[u] /\ ~Dialing(u)'
  <2> SUFFICES ASSUME GatewayInv, [Next]_vars, NEW u \in Urls, schemas[u] # None, ~Dialing(u)
               PROVE  schemas'[u] = schemas[u] /\ ~Dialing(u)'
    OBVIOUS
  <2> QED
    BY StepDials DEF DialsFresh, Dialing
<1> QED
  BY <1>1, InvHolds, PTL DEF Spec, SchemaSettles
=============================================================================
