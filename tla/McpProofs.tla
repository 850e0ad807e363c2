----------------------------- MODULE McpProofs -----------------------------
(***************************************************************************)
(* Theorems about the clients of three kinds of upstream.                  *)
(*                                                                         *)
(* The conversations of McpClient, for any calls, discoveries, servers,    *)
(* caps and pages.  A job shares nothing with the others but the threads,  *)
(* so the invariant is one predicate of a job and its server (JobInv), and *)
(* a step that moves a job has to show it of the values it moves it to     *)
(* (OneMoves).  What the client may take for an answer is the heart of it: *)
(* of the results on their way none is ahead of the last request, and one  *)
(* under its id means that the request was answered (ResultsOf).           *)
(*                                                                         *)
(* RemoteSkills, for any bucket, requests and changes: what the caches     *)
(* have is what the bucket held at some moment (Holdings), a fall-back is  *)
(* begun when no index was found (IndexInv), and its listing is either     *)
(* loaded, asked for, or known to be without its file (AsksInv, LoadInv).  *)
(*                                                                         *)
(* HttpTools, for any calls, providers, lifetimes and limits: no call is   *)
(* given a token out of OAUTH2_CACHE that its server has ended, provided   *)
(* that the margin covers the time an exchange may take.                   *)
(***************************************************************************)
EXTENDS McpClient, RemoteSkills, HttpTools, SequenceTheorems, TLAPS

Stages == {"new", "init", "note", "work", "bye"} \cup Ended
Kinds == {"none", "note", "noise", "request", "result", "bare", "error"}
Messages == [kind : Kinds, id : Nat]
States == [at : Stages, id : Nat, waits : BOOLEAN, session : BOOLEAN, took : Messages,
           page : Nat, tools : Nat, good : BOOLEAN]
Servers == [pages : Nat \ {0}, noisy : BOOLEAN, owes : BOOLEAN, noise : Nat, runs : Nat,
            bare : BOOLEAN, strayed : SUBSET Nat]
Units == Seq(Seq(Messages))

Least(a, b) == IF a > b THEN b ELSE a

\* In these, s is the future of job j, ch its subprocess, v its server, w the units on
\* their way and cl how the server stopped.
TypesOf(j, s, ch, v, w, cl) ==
    /\ s \in States /\ v \in Servers /\ w \in Units
    /\ ch \in {"none", "runs", "exited", "reaped"}
    /\ cl \in {"no", "eof", "sse", "json", "refused"}

\* Where a job waits, and that nothing is left of one that ended.
ShapeOf(j, s, ch, v, w, cl) ==
    /\ j \in Stdio => cl \in {"no", "eof"}
    /\ j \in Stdio => ~s.session /\ (s.waits => s.at \in {"init", "work"})
    /\ j \notin Stdio => cl # "eof" /\ ch # "runs"
    /\ s.at \in {"init", "work"} => s.waits
    /\ s.at \in {"new"} \cup Ended => ~s.waits
    /\ v.owes => s.waits
    /\ s.at \in Ended => ch \in {"none", "reaped"}
    /\ s.at = "new" => w = <<>> /\ cl = "no"
    /\ s.good => s.at \in {"bye"} \cup Ended
    /\ s.at = "ok" => s.good

\* The ids and the pages go together, within the caps.
CountsOf(j, s, v, w) ==
    /\ s.at \in {"init", "note"} => s.id = 1
    /\ s.at \in {"init", "note", "work", "bye"} => s.id >= 1
    /\ s.at = "work" => s.id = s.page + 2
    /\ s.at \in {"new", "init", "note"} => s.page = 0 /\ s.tools = 0
    /\ s.at = "work" => s.page < MaxPages
    /\ s.page <= MaxPages /\ s.id <= MaxPages + 1 /\ s.tools <= MaxTools
    /\ v.noise <= MaxNoise
    /\ Len(w) <= v.noise + s.id /\ (v.owes => Len(w) < v.noise + s.id)

\* The result in hand is that of the last request that was answered, or what strayed there.
LastId(s) == IF s.at = "work" THEN s.id - 1 ELSE s.id
TookOf(s, v) ==
    s.at \in {"note", "work"} \/ s.good
    => s.took.kind \in Results /\ (s.took.id = LastId(s) \/ LastId(s) \in v.strayed)

\* No result is ahead of the last request, and one with its id means that the tool ran;
\* one without tools is known of.
ResultsOf(j, s, v, w) ==
    \A i \in DOMAIN w : \A k \in DOMAIN w[i] :
      /\ w[i][k].kind = "result" =>
           /\ w[i][k].id <= s.id
           /\ w[i][k].id = s.id /\ s.at = "work" /\ j \in Calls => v.runs = 1
      /\ w[i][k].kind = "bare" => v.bare

\* A JSON response is the server's answer, or one that strayed.
JsonOf(s, v, w, cl) ==
    cl = "json" => Len(w) = 1 /\ (Len(w[1]) = 1 => w[1][1].id = s.id \/ s.id \in v.strayed)

RunsOf(j, s, v, cl) ==
    j \in Calls =>
      /\ v.runs <= 1
      /\ s.at \in {"new", "init", "note"} => v.runs = 0
      /\ s.at = "work" /\ v.owes => v.runs = 0
      /\ s.at = "work" /\ ~v.owes /\ cl = "no" => v.runs = 1
      /\ s.good => v.runs = 1 \/ s.id \in v.strayed

\* What n pages hold of a listing, as far as the cap lets it in.
Paged(j, n) == Least(n * PageSize[j], MaxTools)

PagesOf(j, s, v) ==
    j \in Discoveries /\ ~v.bare =>
      /\ s.at = "work" => s.tools = s.page * PageSize[j] /\ s.page < v.pages
      /\ s.good => s.tools = Paged(j, Least(v.pages, MaxPages))

InvOf(j, s, ch, v, w, cl) ==
    /\ TypesOf(j, s, ch, v, w, cl) /\ ShapeOf(j, s, ch, v, w, cl)
    /\ CountsOf(j, s, v, w) /\ TookOf(s, v) /\ ResultsOf(j, s, v, w) /\ JsonOf(s, v, w, cl)
    /\ RunsOf(j, s, v, cl) /\ PagesOf(j, s, v)

JobInv(j) == InvOf(j, job[j], child[j], server[j], wire[j], closed[j])

Inv ==
    /\ DOMAIN job = Jobs /\ DOMAIN server = Jobs /\ DOMAIN wire = Jobs
    /\ child = [k \in Jobs |-> child[k]] /\ closed = [k \in Jobs |-> closed[k]]
    /\ \A j \in Jobs : JobInv(j)
    /\ serving \in BOOLEAN
    /\ registered \subseteq {d \in Discoveries : job[d].at = "ok"}

-----------------------------------------------------------------------------
(* One job moves.                                                           *)

Moved(j, s, ch, v, w, cl) ==
    /\ DOMAIN job' = Jobs /\ DOMAIN server' = Jobs /\ DOMAIN wire' = Jobs
    /\ child' = [k \in Jobs |-> child'[k]] /\ closed' = [k \in Jobs |-> closed'[k]]
    /\ job'[j] = s /\ child'[j] = ch /\ server'[j] = v /\ wire'[j] = w /\ closed'[j] = cl
    /\ \A k \in Jobs \ {j} :
         /\ job'[k] = job[k] /\ child'[k] = child[k] /\ server'[k] = server[k]
         /\ wire'[k] = wire[k] /\ closed'[k] = closed[k]
    /\ registered' = registered /\ serving' = serving

LEMMA OneMoves ==
    ASSUME Inv, NEW j \in Jobs, NEW s, NEW ch, NEW v, NEW w, NEW cl,
           job[j].at \notin Ended, Moved(j, s, ch, v, w, cl), InvOf(j, s, ch, v, w, cl)
    PROVE  Inv'
<1>1. JobInv(j)'
  BY DEF Moved, JobInv
<1>2. \A k \in Jobs \ {j} : JobInv(k)'
  BY DEF Moved, JobInv, Inv
<1>3. \A d \in registered : d # j
  BY DEF Inv, Ended
<1>4. registered' \subseteq {d \in Discoveries : job'[d].at = "ok"}
  BY <1>3 DEF Moved, Inv, Jobs
<1> QED
  BY <1>1, <1>2, <1>4 DEF Moved, Inv

\* A future that ends.
Final(s, how) == [s EXCEPT !.at = how, !.waits = FALSE]

LEMMA Ends ==
    ASSUME McpAssumption, Inv, NEW j \in Jobs, NEW how \in Ended, End(j, how),
           job[j].at \notin Ended, how = "ok" => job[j].good
    PROVE  Inv'
<1> DEFINE s == Final(job[j], how)
           ch == IF child[j] = "none" THEN "none" ELSE "reaped"
           v == [server[j] EXCEPT !.owes = FALSE]
<1>1. Moved(j, s, ch, v, <<>>, "no")
  BY DEF Inv, End, Moved, Final
<1>2. JobInv(j)
  BY DEF Inv
<1>3. InvOf(j, s, ch, v, <<>>, "no")
  <2>1. /\ s \in States /\ s.at = how /\ ~s.waits /\ s.id = job[j].id /\ s.took = job[j].took
        /\ s.page = job[j].page /\ s.tools = job[j].tools /\ s.good = job[j].good
        /\ s.session = job[j].session
    BY <1>2 DEF JobInv, InvOf, TypesOf, States, Final, Stages
  <2>2. /\ v \in Servers /\ ~v.owes /\ v.pages = server[j].pages /\ v.noise = server[j].noise
        /\ v.runs = server[j].runs /\ v.bare = server[j].bare /\ v.strayed = server[j].strayed
    BY <1>2 DEF JobInv, InvOf, TypesOf, Servers
  <2>3. <<>> \in Units /\ ch \in {"none", "reaped"}
    BY <1>2 DEF Units
  <2> HIDE DEF s, ch, v
  <2>4. TypesOf(j, s, ch, v, <<>>, "no") /\ ShapeOf(j, s, ch, v, <<>>, "no")
    BY <2>1, <2>2, <2>3, <1>2 DEF JobInv, InvOf, TypesOf, ShapeOf, Ended
  <2>5. CountsOf(j, s, v, <<>>)
    BY <2>1, <2>2, <1>2 DEF JobInv, InvOf, CountsOf, Ended, States, Servers
  <2>6. TookOf(s, v) /\ JsonOf(s, v, <<>>, "no") /\ ResultsOf(j, s, v, <<>>)
    BY <2>1, <2>2, <1>2 DEF JobInv, InvOf, TookOf, LastId, JsonOf, ResultsOf, Ended, ShapeOf
  <2>7. RunsOf(j, s, v, "no") /\ PagesOf(j, s, v)
    BY <2>1, <2>2, <1>2 DEF JobInv, InvOf, RunsOf, PagesOf, Ended
  <2> QED
    BY <2>4, <2>5, <2>6, <2>7 DEF InvOf
<1> HIDE DEF s, ch, v
<1> QED
  BY <1>1, <1>3, OneMoves

\* A future that goes on as `to`.
LEMMA GoesTo ==
    ASSUME Inv, NEW j \in Jobs, NEW to \in States, NEW others \in Units, GoesOn(j, to, others),
           job[j].at \notin Ended, to.at \in {"note", "work", "bye"}, to.at = "work" => to.waits,
           to.good => to.at = "bye", TookOf(to, [server[j] EXCEPT !.owes = to.waits]),
           j \in Stdio => ~to.session /\ (to.waits => to.at \in {"init", "work"}),
           CountsOf(j, to, [server[j] EXCEPT !.owes = to.waits], others),
           ResultsOf(j, to, [server[j] EXCEPT !.owes = to.waits], others),
           RunsOf(j, to, [server[j] EXCEPT !.owes = to.waits], "no"),
           PagesOf(j, to, [server[j] EXCEPT !.owes = to.waits])
    PROVE  Inv'
<1> DEFINE v == [server[j] EXCEPT !.owes = to.waits]
           w == IF j \in Stdio THEN others ELSE <<>>
           cl == IF j \in Stdio THEN closed[j] ELSE "no"
<1>1. Moved(j, to, child[j], v, w, cl)
  BY DEF Inv, GoesOn, Moved
<1>2. JobInv(j)
  BY DEF Inv
<1>3. InvOf(j, to, child[j], v, w, cl)
  <2>1. to.waits \in BOOLEAN
    BY DEF States
  <2>2. v \in Servers /\ v.owes = to.waits
    BY <1>2, <2>1 DEF JobInv, InvOf, TypesOf, Servers
  <2>3. w \in Units /\ Len(w) <= Len(others) /\ (w = others \/ w = <<>>)
    BY DEF Units
  <2>4. cl \in {"no", "eof"} /\ (j \notin Stdio => cl = "no")
    BY <1>2 DEF JobInv, InvOf, ShapeOf
  <2>5. CountsOf(j, to, v, others) /\ ResultsOf(j, to, v, others) /\ RunsOf(j, to, v, "no")
        /\ PagesOf(j, to, v) /\ TookOf(to, v)
    OBVIOUS
  <2> HIDE DEF v, w, cl
  <2>6. TypesOf(j, to, child[j], v, w, cl) /\ ShapeOf(j, to, child[j], v, w, cl)
    BY <1>2, <2>2, <2>3, <2>4 DEF JobInv, InvOf, TypesOf, ShapeOf, Ended
  <2>7. CountsOf(j, to, v, w)
    <3>1. v.noise \in Nat /\ to.id \in Nat /\ Len(w) \in Nat /\ Len(others) \in Nat
      BY <2>2, <2>3 DEF Servers, States, Units
    <3> QED
      BY <2>3, <2>5, <3>1 DEF CountsOf
  <2>8. JsonOf(to, v, w, cl) /\ ResultsOf(j, to, v, w)
    BY <2>3, <2>4, <2>5 DEF JsonOf, ResultsOf
  <2>9. RunsOf(j, to, v, cl)
    BY <2>4, <2>5 DEF RunsOf
  <2> QED
    BY <2>5, <2>6, <2>7, <2>8, <2>9 DEF InvOf
<1> HIDE DEF v, w, cl
<1> QED
  BY <1>1, <1>3, OneMoves

\* What a step leaves to be read.
RestOK(j, others) ==
    /\ others \in Units /\ Len(others) <= server[j].noise + job[j].id
    /\ \A i \in DOMAIN others : \A k \in DOMAIN others[i] :
         /\ others[i][k].kind = "result" => others[i][k].id <= job[j].id
         /\ others[i][k].kind = "bare" => server[j].bare

LEMMA NothingRests ==
    ASSUME Inv, NEW j \in Jobs PROVE RestOK(j, <<>>)
  BY DEF Inv, JobInv, InvOf, TypesOf, States, Servers, RestOK, Units

LEMMA MessageOf ==
    ASSUME NEW w \in Units, NEW i \in DOMAIN w, NEW k \in DOMAIN w[i]
    PROVE  w[i] \in Seq(Messages) /\ w[i][k] \in Messages
<1>1. w[i] \in Seq(Messages)
  BY DEF Units
<1> QED
  BY <1>1

\* The request after the one that was answered goes out.
LEMMA AsksNext ==
    ASSUME McpAssumption, Inv, NEW j \in Jobs, NEW to \in States, NEW others, Asks(j, to, others),
           RestOK(j, others), job[j].at \notin Ended, to.at = "work", ~to.good,
           to.took.kind \in Results, to.took.id = to.id \/ to.id \in server[j].strayed,
           j \in Stdio => ~to.session,
           to.id = job[j].id, to.id >= 1, to.id = to.page + 1, to.page < MaxPages,
           to.tools <= MaxTools, j \in Calls => server[j].runs = 0,
           j \in Discoveries /\ ~server[j].bare =>
             to.tools = to.page * PageSize[j] /\ to.page < server[j].pages
    PROVE  Inv'
<1>1. CASE child[j] = "exited"
  BY <1>1, Ends DEF Asks, Ended
<1>2. CASE child[j] # "exited"
  <2> DEFINE next == [to EXCEPT !.id = to.id + 1, !.waits = TRUE]
             v == [server[j] EXCEPT !.owes = next.waits]
  <2>1. GoesOn(j, next, others)
    BY <1>2 DEF Asks
  <2>a. to.id \in Nat /\ to.id + 1 \in Nat
    BY DEF States
  <2>2. /\ next \in States /\ next.at = "work" /\ next.waits /\ next.id = to.id + 1
        /\ next.took = to.took /\ next.session = to.session /\ next.good = to.good
        /\ next.page = to.page /\ next.tools = to.tools
    BY <2>a DEF States
  <2> HIDE DEF next
  <2>3. /\ v \in Servers /\ v.owes /\ v.pages = server[j].pages /\ v.noise = server[j].noise
        /\ v.runs = server[j].runs /\ server[j].noise <= MaxNoise
        /\ v.bare = server[j].bare /\ v.strayed = server[j].strayed
    <3>1. server[j] \in Servers /\ server[j].noise <= MaxNoise
      BY DEF Inv, JobInv, InvOf, TypesOf, CountsOf
    <3> QED
      BY <2>2, <3>1 DEF Servers
  <2>4. to.id \in Nat /\ to.page \in Nat /\ to.tools \in Nat /\ MaxPages \in Nat /\ MaxTools \in Nat
        /\ Len(others) \in Nat /\ v.noise \in Nat
    <3>1. MaxPages \in Nat /\ MaxTools \in Nat
      BY DEF McpAssumption
    <3>2. v.noise \in Nat
      BY <2>3 DEF Servers
    <3> QED
      BY <3>1, <3>2 DEF States, RestOK, Units
  <2>5. CountsOf(j, next, v, others)
    <3>1. Len(others) <= v.noise + to.id
      BY <2>3 DEF RestOK
    <3> HIDE DEF v
    <3>2. next.id = next.page + 2 /\ next.id <= MaxPages + 1 /\ next.page < MaxPages
          /\ next.page <= MaxPages
      BY <2>2, <2>4
    <3>3. Len(others) + 1 <= v.noise + next.id
      BY <2>2, <2>4, <3>1
    <3> QED
      BY <2>2, <2>3, <2>4, <3>2, <3>3 DEF CountsOf
  <2>6. TookOf(next, v)
    <3>1. LastId(next) = to.id
      BY <2>2, <2>4 DEF LastId
    <3> HIDE DEF v
    <3> QED
      BY <2>2, <2>3, <3>1 DEF TookOf
  <2>7. ResultsOf(j, next, v, others)
    <3>1. ASSUME NEW i \in DOMAIN others, NEW k \in DOMAIN others[i], others[i][k].kind = "result"
          PROVE  others[i][k].id <= to.id /\ others[i][k].id \in Nat
      <4>1. others[i][k] \in Messages
        BY MessageOf DEF RestOK
      <4> QED
        BY <3>1, <4>1 DEF RestOK, Messages
    <3>2. \A i \in DOMAIN others : \A k \in DOMAIN others[i] : others[i][k].kind = "bare" => v.bare
      BY <2>3 DEF RestOK
    <3> HIDE DEF v
    <3> QED
      BY <2>2, <2>4, <3>1, <3>2 DEF ResultsOf
  <2>8. RunsOf(j, next, v, "no") /\ PagesOf(j, next, v)
    <3> HIDE DEF v
    <3> QED
      BY <2>2, <2>3 DEF RunsOf, PagesOf
  <2> QED
    BY <2>1, <2>2, <2>5, <2>6, <2>7, <2>8, GoesTo DEF RestOK
<1> QED
  BY <1>1, <1>2

LEMMA WaitingGoesOn ==
    ASSUME Inv, NEW j \in Jobs, job[j].waits PROVE job[j].at \notin Ended \cup {"new"}
  BY DEF Inv, JobInv, InvOf, ShapeOf

LEMMA JobTypes ==
    ASSUME Inv, NEW j \in Jobs
    PROVE  /\ job[j] \in States /\ server[j] \in Servers /\ wire[j] \in Units
           /\ ShapeOf(j, job[j], child[j], server[j], wire[j], closed[j])
           /\ CountsOf(j, job[j], server[j], wire[j]) /\ TookOf(job[j], server[j])
           /\ ResultsOf(j, job[j], server[j], wire[j]) /\ JsonOf(job[j], server[j], wire[j], closed[j])
           /\ RunsOf(j, job[j], server[j], closed[j]) /\ PagesOf(j, job[j], server[j])
  BY DEF Inv, JobInv, InvOf, TypesOf

\* A server that owes nothing, or something, is what it was otherwise.
LEMMA OwesIs ==
    ASSUME Inv, NEW j \in Jobs, NEW b \in BOOLEAN
    PROVE  LET v == [server[j] EXCEPT !.owes = b]
           IN  /\ v \in Servers /\ v.owes = b /\ v.pages = server[j].pages
               /\ v.noise = server[j].noise /\ v.runs = server[j].runs
               /\ v.bare = server[j].bare /\ v.strayed = server[j].strayed
<1>1. server[j] \in Servers
  BY JobTypes
<1> QED
  BY <1>1 DEF Servers

\* A request failed.
LEMMA FailsKeeps ==
    ASSUME McpAssumption, Inv, NEW j \in Jobs, NEW others, job[j].waits, Fails(j, others),
           RestOK(j, others)
    PROVE  Inv'
<1>1. job[j].at \notin Ended
  BY WaitingGoesOn
<1>2. CASE ~(job[j].at = "work" /\ j \in Discoveries)
  BY <1>1, <1>2, Ends DEF Fails, Ended
<1>3. CASE job[j].at = "work" /\ j \in Discoveries
  <2> DEFINE to == [job[j] EXCEPT !.at = "bye", !.waits = FALSE]
             v == [server[j] EXCEPT !.owes = to.waits]
  <2>1. job[j] \in States
    BY JobTypes
  <2>2. /\ to \in States /\ to.at = "bye" /\ ~to.waits /\ to.id = job[j].id
        /\ to.session = job[j].session /\ to.good = job[j].good
        /\ to.page = job[j].page /\ to.tools = job[j].tools
    BY <2>1 DEF States, Stages
  <2>3. GoesOn(j, to, others)
    BY <1>3 DEF Fails
  <2> HIDE DEF to
  <2>4. to.waits \in BOOLEAN
    BY <2>2 DEF States
  <2>5. v \in Servers /\ ~v.owes /\ v.noise = server[j].noise /\ v.bare = server[j].bare
    BY <2>2, <2>4, OwesIs
  <2> HIDE DEF v
  <2>6. ~to.good /\ (j \in Stdio => ~to.session)
    BY <1>3, <2>2, JobTypes DEF ShapeOf, Ended
  <2>7. TookOf(to, v) /\ PagesOf(j, to, v)
    BY <2>2, <2>6 DEF TookOf, PagesOf
  <2>8. ResultsOf(j, to, v, others)
    BY <2>2, <2>5 DEF ResultsOf, RestOK
  <2>9. RunsOf(j, to, v, "no")
    BY <1>3, <2>2 DEF RunsOf, McpAssumption
  <2>10. CountsOf(j, to, v, others)
    <3>1. Len(others) <= v.noise + to.id
      BY <2>2, <2>5 DEF RestOK, Servers, States, Units
    <3> QED
      BY <1>3, <2>2, <2>5, <3>1, JobTypes DEF CountsOf
  <2> QED
    BY <1>1, <2>2, <2>3, <2>6, <2>7, <2>8, <2>9, <2>10, GoesTo DEF RestOK, v
<1> QED
  BY <1>2, <1>3

-----------------------------------------------------------------------------
(* A page more.                                                             *)

LEMMA PageAdds == ASSUME NEW n \in Nat, NEW p \in Nat PROVE (n + 1) * p = n * p + p /\ n * p \in Nat
  OBVIOUS

LEMMA PagesAdd ==
    ASSUME NEW n \in Nat, NEW q \in Nat, NEW p \in Nat, n <= q PROVE n * p <= q * p
<1>1. q - n \in Nat
  OBVIOUS
<1>2. (q - n) * p \in Nat
  BY <1>1
<1>3. q * p = n * p + (q - n) * p
  OBVIOUS
<1>4. n * p \in Nat /\ q * p \in Nat
  OBVIOUS
<1> QED
  BY <1>2, <1>3, <1>4

\* What the last page leaves in hand is what the pages hold, within the cap.
LEMMA LastPageEnds ==
    ASSUME McpAssumption, Inv, NEW j \in Discoveries, job[j].at = "work", LastPage(j), ~server[j].bare
    PROVE  Least(job[j].tools + PageSize[j], MaxTools)
             = Paged(j, Least(server[j].pages, MaxPages))
<1> DEFINE n == job[j].page
           p == PageSize[j]
           all == server[j].pages
<1>1. n \in Nat /\ p \in Nat \ {0} /\ all \in Nat \ {0} /\ MaxPages \in Nat \ {0} /\ MaxTools \in Nat \ {0}
  BY JobTypes DEF McpAssumption, States, Servers, Jobs
<1>2. job[j].tools = n * p /\ n < all /\ n < MaxPages
  BY JobTypes DEF PagesOf, CountsOf, Jobs
<1> HIDE DEF n, p, all
<1>3. n * p + p = (n + 1) * p /\ n * p \in Nat /\ (n + 1) * p \in Nat
  BY <1>1, PageAdds
<1>4. Least(all, MaxPages) \in Nat /\ n + 1 <= Least(all, MaxPages)
  BY <1>1, <1>2 DEF Least
<1>5. (n + 1) * p <= Least(all, MaxPages) * p /\ Least(all, MaxPages) * p \in Nat
  BY <1>1, <1>4, PagesAdd
<1>6. CASE n * p + p > MaxTools
  <2>1. Least(n * p + p, MaxTools) = MaxTools
    BY <1>6 DEF Least
  <2>2. Least(all, MaxPages) * p > MaxTools
    BY <1>1, <1>3, <1>5, <1>6
  <2> QED
    BY <1>2, <2>1, <2>2 DEF Least, Paged, n, p, all
<1>7. CASE n + 1 = MaxPages \/ n + 1 >= all
  <2>1. n \in Nat /\ all \in Nat /\ MaxPages \in Nat /\ n < all /\ n < MaxPages
    BY <1>1, <1>2
  <2>2. n + 1 = Least(all, MaxPages)
    BY <2>1, <1>7 DEF Least
  <2> QED
    BY <1>2, <1>3, <2>2 DEF Paged, n, p, all
<1> QED
  BY <1>2, <1>6, <1>7 DEF LastPage, n, p, all

-----------------------------------------------------------------------------
(* The answer comes.                                                        *)

\* What may be taken for the answer: a result has the id that was asked for and the tool
\* of a call ran for it, but for one that strayed; one without tools is known of.
MayTake(j, m) ==
    /\ m \in Messages
    /\ m.kind \in Results => m.id = job[j].id \/ job[j].id \in server[j].strayed
    /\ m.kind = "result" /\ job[j].at = "work" /\ j \in Calls =>
         server[j].runs = 1 \/ job[j].id \in server[j].strayed
    /\ m.kind = "bare" => server[j].bare

LEMMA TakeKeeps ==
    ASSUME McpAssumption, Inv, NEW j \in Jobs, NEW m, NEW others, job[j].waits,
           job[j].at \in {"init", "work"}, MayTake(j, m), RestOK(j, others), TakeResult(j, m, others)
    PROVE  Inv'
<1> DEFINE s == [job[j] EXCEPT !.took = m, !.waits = FALSE]
           lists == s.at = "work" /\ j \in Discoveries
           all == IF m.kind = "bare" THEN s.tools ELSE s.tools + PageSize[j]
           tools == IF all > MaxTools THEN MaxTools ELSE all
           more == [s EXCEPT !.page = @ + 1, !.tools = tools]
<1>1. CASE m.kind \notin (IF lists THEN Results ELSE {"result"})
  BY <1>1, FailsKeeps DEF TakeResult, Results
<1>2. CASE m.kind \in (IF lists THEN Results ELSE {"result"})
  <2>1. /\ job[j] \in States /\ job[j].id \in Nat /\ job[j].page \in Nat /\ job[j].tools \in Nat
        /\ server[j] \in Servers /\ job[j].at \notin Ended /\ ~job[j].good
        /\ j \in Stdio => ~job[j].session
        /\ server[j].runs \in Nat /\ server[j].pages \in Nat \ {0} /\ server[j].noise \in Nat
        /\ MaxPages \in Nat /\ MaxTools \in Nat
    BY JobTypes DEF Ended, ShapeOf, States, Servers, McpAssumption
  <2>2. /\ m \in Messages /\ m.kind \in Results
        /\ m.id = job[j].id \/ job[j].id \in server[j].strayed
    BY <1>2 DEF MayTake, Results
  <2>3. /\ s \in States /\ s.at = job[j].at /\ s.took = m /\ ~s.waits /\ s.id = job[j].id
        /\ s.page = job[j].page /\ s.tools = job[j].tools /\ s.good = job[j].good
        /\ s.session = job[j].session
    BY <2>1, <2>2 DEF States
  <2>4. others \in Units /\ Len(others) \in Nat /\ Len(others) <= server[j].noise + job[j].id
    BY DEF RestOK, Units
  <2>5. CASE job[j].at = "init"
    <3>1. CASE End(j, "err")
      BY <2>1, <3>1, Ends DEF Ended
    <3>2. ASSUME NEW has \in {FALSE, j \notin Stdio},
                 GoesOn(j, [s EXCEPT !.at = "note", !.session = has], others)
          PROVE  Inv'
      <4> DEFINE to == [s EXCEPT !.at = "note", !.session = has]
                 v == [server[j] EXCEPT !.owes = to.waits]
      <4>0. has \in BOOLEAN /\ (j \in Stdio => ~has)
        OBVIOUS
      <4> HIDE DEF s
      <4>1. /\ to \in States /\ to.at = "note" /\ to.took = m /\ ~to.waits /\ to.id = job[j].id
            /\ to.page = job[j].page /\ to.tools = job[j].tools /\ ~to.good
            /\ to.session = has
        BY <2>1, <2>3, <4>0 DEF States, Stages
      <4>2. GoesOn(j, to, others)
        BY <3>2
      <4> HIDE DEF to
      <4>3. to.waits \in BOOLEAN
        BY <4>1 DEF States
      <4>4. /\ v \in Servers /\ ~v.owes /\ v.noise = server[j].noise /\ v.runs = server[j].runs
            /\ v.bare = server[j].bare /\ v.strayed = server[j].strayed
        BY <4>1, <4>3, OwesIs
      <4> HIDE DEF v
      <4>5. TookOf(to, v) /\ PagesOf(j, to, v) /\ ResultsOf(j, to, v, others)
        BY <2>2, <4>1, <4>4 DEF TookOf, LastId, PagesOf, ResultsOf, RestOK
      <4>6. RunsOf(j, to, v, "no")
        BY <2>5, <4>1, <4>4, JobTypes DEF RunsOf
      <4>7. CountsOf(j, to, v, others)
        <5>1. Len(others) <= v.noise + to.id
          BY <2>1, <2>4, <4>1, <4>4
        <5> QED
          BY <2>5, <4>1, <4>4, <5>1, JobTypes DEF CountsOf
      <4> QED
        BY <2>1, <2>4, <4>0, <4>1, <4>2, <4>5, <4>6, <4>7, GoesTo DEF v
    <3>3. m.kind = "result" /\ ~lists
      BY <1>2, <2>3, <2>5
    <3> QED
      BY <1>2, <2>3, <2>5, <3>1, <3>2, <3>3 DEF TakeResult
  <2>6. CASE job[j].at = "work" /\ j \in Calls
    <3> DEFINE to == [s EXCEPT !.at = "bye", !.good = TRUE]
               v == [server[j] EXCEPT !.owes = to.waits]
    <3>a. m.kind = "result" /\ ~lists
      BY <1>2, <2>3, <2>6 DEF McpAssumption
    <3>0. GoesOn(j, to, others)
      BY <1>2, <2>3, <2>6, <3>a DEF TakeResult
    <3> HIDE DEF s
    <3>1. /\ to \in States /\ to.at = "bye" /\ to.took = m /\ ~to.waits /\ to.id = job[j].id
          /\ to.page = job[j].page /\ to.tools = job[j].tools /\ to.good
          /\ to.session = job[j].session
      BY <2>1, <2>3 DEF States, Stages
    <3> HIDE DEF to
    <3>3. to.waits \in BOOLEAN
      BY <3>1 DEF States
    <3>4. /\ v \in Servers /\ ~v.owes /\ v.noise = server[j].noise /\ v.runs = server[j].runs
          /\ v.bare = server[j].bare /\ v.strayed = server[j].strayed
      BY <3>1, <3>3, OwesIs
    <3> HIDE DEF v
    <3>5. TookOf(to, v) /\ PagesOf(j, to, v) /\ ResultsOf(j, to, v, others)
      BY <2>2, <2>6, <3>1, <3>4 DEF TookOf, LastId, PagesOf, ResultsOf, RestOK, McpAssumption
    <3>6. RunsOf(j, to, v, "no")
      BY <2>6, <3>a, <3>1, <3>4, JobTypes DEF RunsOf, MayTake
    <3>7. CountsOf(j, to, v, others)
      <4>1. Len(others) <= v.noise + to.id
        BY <2>1, <2>4, <3>1, <3>4
      <4> QED
        BY <2>6, <3>1, <3>4, <4>1, JobTypes DEF CountsOf
    <3> QED
      BY <2>1, <2>4, <3>0, <3>1, <3>5, <3>6, <3>7, GoesTo DEF v
  <2>7. CASE job[j].at = "work" /\ j \in Discoveries
    <3>1. j \notin Calls /\ PageSize[j] \in Nat \ {0} /\ job[j].page < MaxPages
      BY <2>7, JobTypes DEF McpAssumption, CountsOf
    <3>2. /\ m.kind # "bare" => tools = Least(job[j].tools + PageSize[j], MaxTools)
          /\ tools \in Nat /\ tools <= MaxTools
      BY <2>1, <2>3, <3>1 DEF Least
    <3>b. lists /\ s.at # "init" /\ m.kind \in Results
      BY <2>2, <2>3, <2>7
    <3>c. m.kind = "bare" => server[j].bare
      BY DEF MayTake
    <3>a. job[j].page + 1 \in Nat
      BY <2>1
    <3> HIDE DEF s, tools
    <3>3. /\ more \in States /\ more.at = job[j].at /\ more.took = m /\ ~more.waits
          /\ more.id = job[j].id /\ more.page = job[j].page + 1 /\ more.tools = tools
          /\ ~more.good /\ more.session = job[j].session
      BY <2>1, <2>3, <3>2, <3>a DEF States
    <3>4. CASE GoesOn(j, [more EXCEPT !.at = "bye", !.good = TRUE], others)
               /\ (m.kind = "bare" \/ LastPage(j))
      <4> DEFINE to == [more EXCEPT !.at = "bye", !.good = TRUE]
                 v == [server[j] EXCEPT !.owes = to.waits]
      <4>0. GoesOn(j, to, others)
        BY <3>4
      <4> HIDE DEF more
      <4>1. /\ to \in States /\ to.at = "bye" /\ to.took = m /\ ~to.waits /\ to.id = job[j].id
            /\ to.page = job[j].page + 1 /\ to.tools = tools /\ to.good
            /\ to.session = job[j].session
        BY <2>1, <3>3 DEF States, Stages
      <4> HIDE DEF to
      <4>3. to.waits \in BOOLEAN
        BY <4>1 DEF States
      <4>4. /\ v \in Servers /\ ~v.owes /\ v.noise = server[j].noise /\ v.pages = server[j].pages
            /\ v.bare = server[j].bare /\ v.strayed = server[j].strayed
        BY <4>1, <4>3, OwesIs
      <4> HIDE DEF v
      <4>5. TookOf(to, v) /\ RunsOf(j, to, v, "no") /\ ResultsOf(j, to, v, others)
        BY <2>2, <3>1, <4>1, <4>4 DEF TookOf, LastId, RunsOf, ResultsOf, RestOK
      <4>6. PagesOf(j, to, v)
        BY <2>7, <3>2, <3>c, <3>4, <4>1, <4>4, LastPageEnds DEF PagesOf
      <4>7. CountsOf(j, to, v, others)
        <5>1. Len(others) <= v.noise + to.id
          BY <2>1, <2>4, <4>1, <4>4
        <5>2. to.page <= MaxPages
          BY <2>1, <3>1, <4>1
        <5> QED
          BY <2>7, <3>2, <4>1, <4>4, <5>1, <5>2, JobTypes DEF CountsOf
      <4> QED
        BY <2>1, <2>4, <4>0, <4>1, <4>5, <4>6, <4>7, GoesTo DEF v
    <3>5. CASE Asks(j, more, others)
               /\ (IF m.kind = "bare" THEN s.page + 1 < MaxPages ELSE ~LastPage(j))
      <4>0. Asks(j, more, others)
        BY <3>5
      <4>5. job[j].page + 1 < MaxPages
        BY <2>1, <2>3, <3>1, <3>5 DEF LastPage
      <4> HIDE DEF more
      <4>1. m.kind # "bare" => /\ job[j].tools + PageSize[j] <= MaxTools
                               /\ job[j].page + 1 < server[j].pages
        BY <2>1, <3>1, <3>5 DEF LastPage
      <4>2. ~server[j].bare => more.tools = more.page * PageSize[j] /\ more.page < server[j].pages
        <5> SUFFICES ASSUME ~server[j].bare
                     PROVE  more.tools = more.page * PageSize[j] /\ more.page < server[j].pages
          OBVIOUS
        <5>a. m.kind # "bare"
          BY <3>c
        <5>1. tools = job[j].tools + PageSize[j]
          BY <2>1, <3>1, <3>2, <4>1, <5>a DEF Least
        <5>2. job[j].tools = job[j].page * PageSize[j]
          BY <2>7, JobTypes DEF PagesOf
        <5>3. (job[j].page + 1) * PageSize[j] = job[j].page * PageSize[j] + PageSize[j]
          BY <2>1, <3>1, PageAdds
        <5> QED
          BY <3>3, <4>1, <5>a, <5>1, <5>2, <5>3
      <4>3. more.id = more.page + 1 /\ more.id >= 1
        <5>1. job[j].id = job[j].page + 2
          BY <2>7, JobTypes DEF CountsOf
        <5> QED
          BY <2>1, <3>3, <5>1
      <4> QED
        BY <2>1, <2>2, <2>7, <3>1, <3>2, <3>3, <4>0, <4>2, <4>3, <4>5, AsksNext
    <3> QED
      BY <2>3, <2>7, <3>1, <3>b, <3>4, <3>5 DEF TakeResult, s, tools
  <2> QED
    BY <2>5, <2>6, <2>7 DEF Jobs
<1> QED
  BY <1>1, <1>2

\* What has come may be left to read.
LEMMA WireRests ==
    ASSUME Inv, NEW j \in Jobs PROVE RestOK(j, wire[j])
<1>1. /\ wire[j] \in Units /\ job[j] \in States /\ server[j] \in Servers
      /\ CountsOf(j, job[j], server[j], wire[j]) /\ ResultsOf(j, job[j], server[j], wire[j])
  BY JobTypes
<1>2. Len(wire[j]) \in Nat /\ job[j].id \in Nat /\ server[j].noise \in Nat
  BY <1>1 DEF Units, States, Servers
<1>3. Len(wire[j]) <= server[j].noise + job[j].id
  BY <1>1 DEF CountsOf
<1> QED
  BY <1>1, <1>3 DEF RestOK, ResultsOf

\* The first request after the handshake goes out.
LEMMA NoteAsks ==
    ASSUME McpAssumption, Inv, NEW j \in Jobs, NEW others, job[j].at = "note", RestOK(j, others),
           Asks(j, [job[j] EXCEPT !.at = "work"], others)
    PROVE  Inv'
<1> DEFINE to == [job[j] EXCEPT !.at = "work"]
<1>1. job[j] \in States /\ ~job[j].good /\ (j \in Stdio => ~job[j].session)
  BY JobTypes DEF ShapeOf, Ended
<1>2. /\ to \in States /\ to.at = "work" /\ ~to.good /\ to.took = job[j].took /\ to.id = job[j].id
      /\ to.page = job[j].page /\ to.tools = job[j].tools /\ to.session = job[j].session
  BY <1>1 DEF States, Stages
<1>3. Asks(j, to, others)
  OBVIOUS
<1> HIDE DEF to
<1>4. job[j].id = 1 /\ job[j].page = 0 /\ job[j].tools = 0
  BY JobTypes DEF CountsOf
<1>5. to.took.kind \in Results /\ (to.took.id = to.id \/ to.id \in server[j].strayed)
  BY <1>2, JobTypes DEF TookOf, LastId
<1>6. j \in Calls => server[j].runs = 0
  BY JobTypes DEF RunsOf
<1>7. j \in Discoveries => to.tools = to.page * PageSize[j] /\ to.page < server[j].pages
  <2>1. server[j].pages \in Nat \ {0}
    BY JobTypes DEF Servers
  <2>2. j \in Discoveries => PageSize[j] \in Nat
    BY DEF McpAssumption
  <2> QED
    BY <1>2, <1>4, <2>1, <2>2
<1>8. 0 < MaxPages /\ 0 <= MaxTools
  BY DEF McpAssumption
<1> QED
  BY <1>1, <1>2, <1>3, <1>4, <1>5, <1>6, <1>7, <1>8, AsksNext DEF Ended

\* What is left behind the first unit that came.
LEMMA TailRests ==
    ASSUME Inv, NEW j \in Jobs, wire[j] # <<>>
    PROVE  RestOK(j, Tail(wire[j])) /\ Len(Tail(wire[j])) = Len(wire[j]) - 1
           /\ ResultsOf(j, job[j], server[j], Tail(wire[j]))
<1> DEFINE w == wire[j]
           tail == Tail(wire[j])
<1>1. w \in Units /\ w # <<>> /\ job[j] \in States /\ server[j] \in Servers
  BY JobTypes
<1>2. tail \in Units /\ Len(tail) = Len(w) - 1 /\ DOMAIN tail = 1..Len(w) - 1
      /\ Len(w) \in Nat \ {0} /\ DOMAIN w = 1..Len(w)
  BY <1>1 DEF Units
<1>3. \A i \in DOMAIN tail : tail[i] = w[i + 1] /\ i + 1 \in DOMAIN w
  BY <1>1, <1>2 DEF Units
<1>4. CountsOf(j, job[j], server[j], w) /\ ResultsOf(j, job[j], server[j], w)
  BY JobTypes
<1> HIDE DEF w, tail
<1>5. Len(tail) <= server[j].noise + job[j].id
  <2>1. Len(w) <= server[j].noise + job[j].id
    BY <1>4 DEF CountsOf
  <2> QED
    BY <1>1, <1>2, <2>1 DEF States, Servers
<1>6. ResultsOf(j, job[j], server[j], tail)
  BY <1>3, <1>4 DEF ResultsOf
<1> QED
  BY <1>2, <1>5, <1>6 DEF RestOK, ResultsOf, w, tail

\* A message on its way with the id that was asked for, or in its stead, may be taken.
LEMMA OursMayBeTaken ==
    ASSUME Inv, NEW j \in Jobs, NEW i \in DOMAIN wire[j], NEW k \in DOMAIN wire[j][i],
           wire[j][i][k].id = job[j].id \/ job[j].id \in server[j].strayed
    PROVE  MayTake(j, wire[j][i][k])
<1>1. wire[j] \in Units /\ ResultsOf(j, job[j], server[j], wire[j])
  BY JobTypes
<1>2. wire[j][i][k] \in Messages
  BY <1>1, MessageOf
<1> QED
  BY <1>1, <1>2 DEF MayTake, ResultsOf

LEMMA ReadLineKeeps ==
    ASSUME McpAssumption, Inv, NEW j \in Jobs, ReadLine(j) PROVE Inv'
<1> DEFINE unit == Head(wire[j])
           tail == Tail(wire[j])
<1>1. j \in Stdio /\ job[j].waits /\ wire[j] # <<>>
  BY DEF ReadLine
<1>2. RestOK(j, tail)
  BY <1>1, TailRests
<1>3. CASE unit = Noise
  BY <1>1, <1>2, <1>3, FailsKeeps DEF ReadLine
<1>4. CASE unit # Noise /\ IsOurs(unit, job[j].id)
  <2>1. job[j].at \in {"init", "work"}
    BY <1>1, JobTypes DEF ShapeOf
  <2>2. 1 \in DOMAIN wire[j] /\ unit = wire[j][1] /\ 1 \in DOMAIN wire[j][1]
    <3>1. wire[j] \in Units
      BY JobTypes
    <3>2. 1 \in DOMAIN wire[j] /\ unit = wire[j][1] /\ unit \in Seq(Messages)
      BY <1>1, <3>1 DEF Units
    <3> QED
      BY <1>4, <3>2 DEF IsOurs
  <2>3. MayTake(j, unit[1])
    BY <1>4, <2>2, OursMayBeTaken DEF IsOurs
  <2>4. TakeResult(j, unit[1], tail)
    BY <1>4 DEF ReadLine
  <2> QED
    BY <1>1, <1>2, <2>1, <2>3, <2>4, TakeKeeps
<1>5. CASE unit # Noise /\ ~IsOurs(unit, job[j].id)
  <2>1. Moved(j, job[j], child[j], server[j], tail, closed[j])
    BY <1>5 DEF Inv, ReadLine, Moved
  <2>2. tail \in Units /\ Len(tail) = Len(wire[j]) - 1 /\ wire[j] \in Units
        /\ ResultsOf(j, job[j], server[j], tail)
    BY <1>1, TailRests, JobTypes DEF RestOK
  <2> HIDE DEF tail
  <2>3. InvOf(j, job[j], child[j], server[j], tail, closed[j])
    <3>1. InvOf(j, job[j], child[j], server[j], wire[j], closed[j])
      BY DEF Inv, JobInv
    <3>2. TypesOf(j, job[j], child[j], server[j], tail, closed[j])
      BY <2>2, <3>1 DEF InvOf, TypesOf
    <3>3. ShapeOf(j, job[j], child[j], server[j], tail, closed[j]) /\ JsonOf(job[j], server[j], tail, closed[j])
      BY <1>1, <3>1 DEF InvOf, ShapeOf, JsonOf, Ended
    <3>4. CountsOf(j, job[j], server[j], tail)
      <4>1. Len(tail) \in Nat /\ Len(wire[j]) \in Nat /\ server[j].noise \in Nat /\ job[j].id \in Nat
        BY <2>2, JobTypes DEF Units, States, Servers
      <4>2. Len(tail) <= Len(wire[j]) /\ Len(tail) < server[j].noise + job[j].id
        BY <2>2, <3>1, <4>1 DEF InvOf, CountsOf
      <4> QED
        BY <3>1, <4>1, <4>2 DEF InvOf, CountsOf
    <3> QED
      BY <2>2, <3>1, <3>2, <3>3, <3>4 DEF InvOf
  <2> QED
    BY <1>1, <2>1, <2>3, OneMoves, WaitingGoesOn
<1> QED
  BY <1>3, <1>4, <1>5

LEMMA ReadEofKeeps ==
    ASSUME McpAssumption, Inv, NEW j \in Jobs, ReadEof(j) PROVE Inv'
  BY FailsKeeps, NothingRests DEF ReadEof

LEMMA ReceiveKeeps ==
    ASSUME McpAssumption, Inv, NEW j \in Jobs, Receive(j) PROVE Inv'
<1>1. j \notin Stdio /\ job[j].waits /\ closed[j] \in {"sse", "json", "refused"}
  BY DEF Receive, Inv, JobInv, InvOf, TypesOf, ShapeOf
<1>2. job[j].at \in {"init", "note", "work", "bye"} /\ job[j].at \notin Ended
  BY <1>1, JobTypes, WaitingGoesOn DEF States, Stages, Ended
<1>3. RestOK(j, <<>>)
  BY NothingRests
<1>4. CASE job[j].at = "bye"
  <2>1. End(j, IF job[j].good THEN "ok" ELSE "err")
    BY <1>4 DEF Receive
  <2> QED
    BY <1>2, <2>1, Ends DEF Ended
<1>5. CASE job[j].at # "bye" /\ closed[j] = "refused"
  <2>1. Fails(j, <<>>)
    BY <1>5 DEF Receive
  <2> QED
    BY <1>1, <1>3, <2>1, FailsKeeps
<1>6. CASE job[j].at = "note" /\ closed[j] # "refused"
  <2>1. Asks(j, [job[j] EXCEPT !.at = "work"], <<>>)
    BY <1>6 DEF Receive
  <2> QED
    BY <1>1, <1>3, <1>6, <2>1, NoteAsks
<1>7. CASE job[j].at \in {"init", "work"} /\ closed[j] = "sse"
  <2>1. CASE InStream(wire[j], job[j].id) = {}
    <3>1. Fails(j, <<>>)
      BY <1>7, <2>1 DEF Receive
    <3> QED
      BY <1>1, <1>3, <3>1, FailsKeeps
  <2>2. CASE InStream(wire[j], job[j].id) # {}
    <3>1. PICK p \in InStream(wire[j], job[j].id) : TakeResult(j, At(wire[j], p), <<>>)
      BY <1>7, <2>2 DEF Receive
    <3>2. p[1] \in DOMAIN wire[j] /\ p[2] \in DOMAIN wire[j][p[1]] /\ At(wire[j], p).id = job[j].id
      BY DEF InStream, Places
    <3>3. MayTake(j, At(wire[j], p))
      BY <3>2, OursMayBeTaken DEF At
    <3> QED
      BY <1>1, <1>3, <1>7, <3>1, <3>3, TakeKeeps
  <2> QED
    BY <2>1, <2>2
<1>8. CASE job[j].at \in {"init", "work"} /\ closed[j] = "json"
  <2>1. CASE Len(wire[j]) # 1 \/ Len(wire[j][1]) # 1
    <3>1. Fails(j, <<>>)
      BY <1>8, <2>1 DEF Receive
    <3> QED
      BY <1>1, <1>3, <3>1, FailsKeeps
  <2>2. CASE ~(Len(wire[j]) # 1 \/ Len(wire[j][1]) # 1)
    <3>1. TakeResult(j, wire[j][1][1], <<>>)
      BY <1>8, <2>2 DEF Receive
    <3>2. 1 \in DOMAIN wire[j] /\ 1 \in DOMAIN wire[j][1]
      <4>1. wire[j] \in Units
        BY JobTypes
      <4>2. 1 \in DOMAIN wire[j] /\ wire[j][1] \in Seq(Messages)
        BY <2>2, <4>1 DEF Units
      <4> QED
        BY <2>2, <4>2
    <3>3. MayTake(j, wire[j][1][1])
      BY <1>8, <2>2, <3>2, JobTypes, OursMayBeTaken DEF JsonOf
    <3> QED
      BY <1>1, <1>3, <1>8, <3>1, <3>3, TakeKeeps
  <2> QED
    BY <2>1, <2>2
<1> QED
  BY <1>1, <1>2, <1>4, <1>5, <1>6, <1>7, <1>8

LEMMA RequestTimesOutKeeps ==
    ASSUME McpAssumption, Inv, NEW j \in Jobs, RequestTimesOut(j) PROVE Inv'
<1>1. job[j].waits /\ job[j].at \notin Ended
  BY WaitingGoesOn DEF RequestTimesOut
<1>2. CASE job[j].at = "bye"
  BY <1>1, <1>2, Ends DEF RequestTimesOut, Ended
<1>3. CASE job[j].at # "bye"
  BY <1>1, <1>3, FailsKeeps, NothingRests DEF RequestTimesOut
<1> QED
  BY <1>2, <1>3

LEMMA TimesOutKeeps ==
    ASSUME McpAssumption, Inv, NEW d \in Discoveries, TimesOut(d) PROVE Inv'
  BY Ends DEF TimesOut, Started, Ended, Jobs

LEMMA CancelKeeps ==
    ASSUME McpAssumption, Inv, NEW c \in Calls, Cancel(c) PROVE Inv'
  BY Ends DEF Cancel, Started, Ended, Jobs

LEMMA RegisterKeeps ==
    ASSUME Inv, Register PROVE Inv'
<1>1. \A j \in Jobs : JobInv(j)'
  BY DEF Inv, Register, JobInv
<1> QED
  BY <1>1 DEF Inv, Register

\* The same future waits for the answer to a notification or a DELETE.
LEMMA OnlyWaits ==
    ASSUME McpAssumption, Inv, NEW j \in Jobs \ Stdio, job[j].at \in {"note", "bye"},
           GoesOn(j, [job[j] EXCEPT !.waits = TRUE], <<>>)
    PROVE  Inv'
<1> DEFINE to == [job[j] EXCEPT !.waits = TRUE]
           v == [server[j] EXCEPT !.owes = to.waits]
<1>1. job[j] \in States /\ server[j] \in Servers
  BY JobTypes
<1>2. /\ to \in States /\ to.at = job[j].at /\ to.waits /\ to.took = job[j].took /\ to.id = job[j].id
      /\ to.page = job[j].page /\ to.tools = job[j].tools /\ to.good = job[j].good
  BY <1>1 DEF States
<1>3. GoesOn(j, to, <<>>)
  OBVIOUS
<1> HIDE DEF to
<1>4. to.waits \in BOOLEAN
  BY <1>2 DEF States
<1>5. /\ v \in Servers /\ v.owes /\ v.pages = server[j].pages /\ v.noise = server[j].noise
      /\ v.runs = server[j].runs /\ v.bare = server[j].bare /\ v.strayed = server[j].strayed
  BY <1>2, <1>4, OwesIs
<1> HIDE DEF v
<1>6. CountsOf(j, to, v, <<>>)
  <2>1. Len(<<>>) = 0 /\ 0 < v.noise + to.id
    BY <1>1, <1>2, <1>5, JobTypes DEF CountsOf, States, Servers
  <2>2. CountsOf(j, job[j], server[j], wire[j])
    BY JobTypes
  <2> QED
    BY <1>1, <1>2, <1>5, <2>1, <2>2 DEF CountsOf, States, Servers
<1>7. TookOf(to, v) /\ ResultsOf(j, to, v, <<>>)
  BY <1>2, <1>5, JobTypes DEF TookOf, LastId, ResultsOf
<1>8. RunsOf(j, to, v, "no") /\ PagesOf(j, to, v)
  <2>1. RunsOf(j, job[j], server[j], closed[j]) /\ PagesOf(j, job[j], server[j])
    BY JobTypes
  <2> QED
    BY <1>2, <1>5, <2>1 DEF RunsOf, PagesOf
<1>9. to.good => to.at = "bye"
  BY <1>2, JobTypes DEF ShapeOf, Ended
<1> QED
  <2>1. <<>> \in Units /\ job[j].at \notin Ended
    BY DEF Units, Ended
  <2>2. j \in Jobs /\ j \notin Stdio /\ to.at \in {"note", "work", "bye"} /\ to.at # "work"
    BY <1>2
  <2> QED
    BY <1>2, <1>3, <1>6, <1>7, <1>8, <1>9, <2>1, <2>2, GoesTo DEF v

LEMMA DisconnectKeeps ==
    ASSUME McpAssumption, Inv, NEW j \in Jobs, Disconnect(j) PROVE Inv'
<1>1. CASE job[j].session
  <2>1. j \notin Stdio
    BY <1>1, JobTypes DEF ShapeOf
  <2> QED
    BY <1>1, <2>1, OnlyWaits DEF Disconnect
<1>2. CASE ~job[j].session
  BY <1>2, Ends DEF Disconnect, Ended
<1> QED
  BY <1>1, <1>2

LEMMA NotifyKeeps ==
    ASSUME McpAssumption, Inv, NEW j \in Jobs, Notify(j) PROVE Inv'
<1>1. CASE j \in Stdio
  BY <1>1, WireRests, NoteAsks DEF Notify
<1>2. CASE j \notin Stdio
  BY <1>2, OnlyWaits DEF Notify
<1> QED
  BY <1>1, <1>2

LEMMA ConnectKeeps ==
    ASSUME McpAssumption, Inv, NEW j \in Jobs, Connect(j) PROVE Inv'
<1>1. CASE End(j, "err")
  BY <1>1, Ends DEF Connect, Ended
<1>2. CASE ~End(j, "err")
  <2> DEFINE s == [job[j] EXCEPT !.at = "init", !.id = 1, !.waits = TRUE]
             ch == IF j \in Stdio THEN "runs" ELSE "none"
             v == [server[j] EXCEPT !.owes = TRUE]
  <2>1. Moved(j, s, ch, v, wire[j], closed[j])
    BY <1>2 DEF Inv, Connect, Moved
  <2>2. job[j].at = "new" /\ job[j] \in States /\ wire[j] = <<>> /\ closed[j] = "no" /\ ~job[j].good
    BY JobTypes DEF Connect, ShapeOf, Ended
  <2>3. /\ s \in States /\ s.at = "init" /\ s.id = 1 /\ s.waits /\ ~s.good
        /\ s.page = job[j].page /\ s.tools = job[j].tools /\ s.session = job[j].session
    BY <2>2 DEF States, Stages
  <2>4. /\ v \in Servers /\ v.owes /\ v.pages = server[j].pages /\ v.noise = server[j].noise
        /\ v.runs = server[j].runs
    BY OwesIs
  <2>5. ch \in {"runs", "none"} /\ (j \notin Stdio => ch = "none")
    OBVIOUS
  <2> HIDE DEF s, ch, v
  <2>6. TypesOf(j, s, ch, v, <<>>, "no") /\ ShapeOf(j, s, ch, v, <<>>, "no")
    BY <2>3, <2>4, <2>5, JobTypes DEF TypesOf, ShapeOf, Ended, Units
  <2>7. CountsOf(j, s, v, <<>>)
    <3>1. 0 < v.noise + s.id /\ Len(<<>>) = 0 /\ 0 <= v.noise + s.id
      BY <2>3, <2>4 DEF Servers
    <3> QED
      BY <2>2, <2>3, <2>4, <3>1, JobTypes DEF CountsOf, McpAssumption
  <2>8. TookOf(s, v) /\ ResultsOf(j, s, v, <<>>) /\ JsonOf(s, v, <<>>, "no")
    BY <2>3 DEF TookOf, ResultsOf, JsonOf
  <2>9. RunsOf(j, s, v, "no") /\ PagesOf(j, s, v)
    BY <2>2, <2>3, <2>4, JobTypes DEF RunsOf, PagesOf
  <2>10. InvOf(j, s, ch, v, <<>>, "no")
    BY <2>6, <2>7, <2>8, <2>9 DEF InvOf
  <2> QED
    BY <2>1, <2>2, <2>10, OneMoves DEF Ended
<1> QED
  BY <1>1, <1>2

-----------------------------------------------------------------------------
(* The servers.                                                             *)

LEMMA Appended ==
    ASSUME NEW S, NEW w \in Seq(S), NEW u \in S
    PROVE  /\ Append(w, u) \in Seq(S) /\ Len(Append(w, u)) = Len(w) + 1 /\ Len(w) \in Nat
           /\ \A i \in DOMAIN Append(w, u) :
                Append(w, u)[i] = u \/ (i \in DOMAIN w /\ Append(w, u)[i] = w[i])
           /\ w = <<>> => Append(w, u) = <<u>>
<1>1. /\ Append(w, u) \in Seq(S) /\ Len(Append(w, u)) = Len(w) + 1 /\ Len(w) \in Nat
      /\ DOMAIN Append(w, u) = 1..Len(w) + 1 /\ DOMAIN w = 1..Len(w)
  OBVIOUS
<1>2. \A i \in DOMAIN Append(w, u) :
         Append(w, u)[i] = u \/ (i \in DOMAIN w /\ Append(w, u)[i] = w[i])
  BY <1>1
<1>3. w = <<>> => Append(w, u) = <<u>>
  OBVIOUS
<1> QED
  BY <1>1, <1>2, <1>3

LEMMA OneMore ==
    ASSUME NEW w \in Units, NEW unit \in Seq(Messages)
    PROVE  /\ Append(w, unit) \in Units /\ Len(Append(w, unit)) = Len(w) + 1 /\ Len(w) \in Nat
           /\ \A i \in DOMAIN Append(w, unit) :
                Append(w, unit)[i] = unit \/ (i \in DOMAIN w /\ Append(w, unit)[i] = w[i])
           /\ w = <<>> => Append(w, unit) = <<unit>>
<1>1. w \in Seq(Seq(Messages))
  BY DEF Units
<1> QED
  BY ONLY <1>1, unit \in Seq(Messages), Appended DEF Units

LEMMA OneUnit ==
    ASSUME NEW m \in Messages PROVE <<m>> \in Seq(Messages) /\ Len(<<m>>) = 1
  OBVIOUS

LEMMA ATale ==
    ASSUME NEW m \in Messages, NEW n \in Messages
    PROVE  <<m, n>> \in Seq(Messages) /\ Len(<<m, n>>) = 2
  OBVIOUS

\* A unit more keeps what is known of the results, if its own are.
LEMMA ResultsGrow ==
    ASSUME NEW j, NEW s, NEW v, NEW u, NEW w \in Units, NEW unit \in Seq(Messages),
           ResultsOf(j, s, v, w), v.runs = 1 => u.runs = 1, v.bare => u.bare,
           \A k \in DOMAIN unit : unit[k].kind = "result" =>
             unit[k].id <= s.id /\ (unit[k].id = s.id /\ s.at = "work" /\ j \in Calls => u.runs = 1),
           \A k \in DOMAIN unit : unit[k].kind = "bare" => u.bare
    PROVE  ResultsOf(j, s, u, Append(w, unit))
  BY OneMore DEF ResultsOf

\* What a server may answer with, whether under the id or astray.
LEMMA AnsweredKeeps ==
    ASSUME McpAssumption, Inv, NEW j \in Jobs, NEW unit \in Seq(Messages), NEW v \in Servers, NEW cl,
           server[j].owes, closed[j] = "no", job[j].at \in {"init", "work"},
           Moved(j, job[j], child[j], v, Append(wire[j], unit), cl),
           \A k \in DOMAIN unit : unit[k].kind = "result" => unit[k].id <= job[j].id,
           \A k \in DOMAIN unit : unit[k].kind = "result" /\ unit[k].id = job[j].id
                                  /\ job[j].at = "work" /\ j \in Calls => v.runs = 1,
           \A k \in DOMAIN unit : unit[k].kind = "bare" => v.bare,
           Len(unit) = 1 => unit[1].id = job[j].id \/ job[j].id \in v.strayed,
           cl \in {"no", "sse", "json"}, j \in Stdio => cl = "no", j \notin Stdio => cl # "no",
           cl = "json" => wire[j] = <<>>,
           ~v.owes, v.pages = server[j].pages, server[j].bare => v.bare,
           server[j].strayed \subseteq v.strayed, v.noise >= server[j].noise, v.noise <= MaxNoise,
           j \in Calls => v.runs <= 1 /\ (job[j].at = "init" => v.runs = 0)
                          /\ (job[j].at = "work" /\ cl = "no" => v.runs = 1)
    PROVE  Inv'
<1> DEFINE s == job[j]
           w == Append(wire[j], unit)
<1>2. /\ s \in States /\ server[j] \in Servers /\ wire[j] \in Units /\ s.id \in Nat
      /\ server[j].runs \in Nat /\ s.at \notin Ended
  BY JobTypes DEF States, Servers, Ended
<1>7. w \in Units /\ Len(w) = Len(wire[j]) + 1 /\ Len(wire[j]) \in Nat
      /\ (wire[j] = <<>> => w = <<unit>>)
  BY <1>2, OneMore
<1>8. RunsOf(j, s, server[j], closed[j])
  BY JobTypes
<1>10. ResultsOf(j, s, v, w)
  <2>1. ResultsOf(j, s, [server[j] EXCEPT !.runs = v.runs], wire[j])
    <3>1. \A i \in DOMAIN wire[j] : \A k \in DOMAIN wire[j][i] :
            wire[j][i][k].kind = "result" /\ wire[j][i][k].id = s.id /\ s.at = "work" /\ j \in Calls
              => FALSE
      <4>1. ResultsOf(j, s, server[j], wire[j])
        BY JobTypes
      <4> QED
        BY <1>8, <4>1 DEF ResultsOf, RunsOf
    <3>2. ResultsOf(j, s, server[j], wire[j])
      BY JobTypes
    <3>3. [server[j] EXCEPT !.runs = v.runs].bare = server[j].bare
      BY <1>2 DEF Servers
    <3> QED
      BY <3>1, <3>2, <3>3 DEF ResultsOf
  <2>2. [server[j] EXCEPT !.runs = v.runs].runs = v.runs /\ [server[j] EXCEPT !.runs = v.runs].bare = server[j].bare
    BY <1>2 DEF Servers
  <2> HIDE DEF s
  <2> QED
    BY <1>2, <2>1, <2>2, ResultsGrow DEF s
<1> HIDE DEF w
<1>11. TypesOf(j, s, child[j], v, w, cl) /\ ShapeOf(j, s, child[j], v, w, cl)
  <2>1. InvOf(j, s, child[j], server[j], wire[j], closed[j])
    BY DEF Inv, JobInv
  <2> QED
    BY <1>2, <1>7, <2>1 DEF InvOf, TypesOf, ShapeOf, Ended
<1>12. CountsOf(j, s, v, w)
  <2>1. CountsOf(j, s, server[j], wire[j])
    BY JobTypes
  <2>2. Len(w) <= v.noise + s.id
    BY <1>2, <1>7, <2>1 DEF CountsOf, Servers
  <2> QED
    BY <2>1, <2>2 DEF CountsOf
<1>13. TookOf(s, v) /\ PagesOf(j, s, v)
  BY <1>2, JobTypes DEF TookOf, PagesOf
<1>15. RunsOf(j, s, v, cl)
  BY <1>2, <1>8, JobTypes DEF RunsOf, ShapeOf, Ended
<1>14. JsonOf(s, v, w, cl)
  BY <1>7 DEF JsonOf
<1> QED
  BY <1>2, <1>10, <1>11, <1>12, <1>13, <1>14, <1>15, OneMoves DEF InvOf, w

LEMMA AnswerKeeps ==
    ASSUME McpAssumption, Inv, NEW j \in Jobs, AnswersRequest(j) PROVE Inv'
<1> DEFINE s == job[j]
           ran == IF j \in Calls /\ job[j].at = "work" THEN server[j].runs + 1 ELSE server[j].runs
           noise(kind) == IF kind = "bare" THEN server[j].noise + 1 ELSE server[j].noise
           after(kind) == [server[j] EXCEPT !.owes = FALSE, !.bare = @ \/ kind = "bare",
                                            !.noise = noise(kind), !.runs = ran]
           cl == closed'[j]
<1>1. PICK kind \in Results \cup {"error"} :
        /\ kind = "bare" => Chatters(j)
        /\ \E unit \in {<<Message(kind, job[j].id)>>,
                       <<Message("note", 0), Message(kind, job[j].id)>>} : Sends(j, unit)
        /\ server' = [server EXCEPT ![j].owes = FALSE, ![j].bare = @ \/ kind = "bare",
                          ![j].noise = IF kind = "bare" THEN @ + 1 ELSE @,
                          ![j].runs = IF j \in Calls /\ job[j].at = "work" THEN @ + 1 ELSE @]
  BY DEF AnswersRequest
<1>2. PICK unit \in {<<Message(kind, job[j].id)>>,
                    <<Message("note", 0), Message(kind, job[j].id)>>} : Sends(j, unit)
  BY <1>1
<1> DEFINE v == after(kind)
<1>3. /\ s \in States /\ server[j] \in Servers /\ s.id \in Nat
      /\ server[j].runs \in Nat /\ server[j].owes /\ closed[j] = "no" /\ s.at \in {"init", "work"}
      /\ server[j].noise \in Nat /\ server[j].noise <= MaxNoise /\ MaxNoise \in Nat
  BY JobTypes DEF AnswersRequest, States, Servers, CountsOf, McpAssumption
<1>4. /\ unit \in Seq(Messages)
      /\ \A k \in DOMAIN unit : unit[k].kind = "result" => unit[k].id = s.id
      /\ \A k \in DOMAIN unit : unit[k].kind = "bare" => kind = "bare"
      /\ Len(unit) = 1 => unit[1].id = s.id
  <2>1. Message(kind, job[j].id) \in Messages /\ Message("note", 0) \in Messages
    BY <1>3 DEF Message, Messages, Kinds, Results
  <2>2. CASE unit = <<Message(kind, job[j].id)>>
    BY <2>1, <2>2, OneUnit DEF Message
  <2>3. CASE unit = <<Message("note", 0), Message(kind, job[j].id)>>
    BY <2>1, <2>3, ATale DEF Message
  <2> QED
    BY <2>2, <2>3
<1>5. cl \in {"no", "sse", "json"} /\ (j \in Stdio => cl = "no") /\ (j \notin Stdio => cl # "no")
      /\ (cl = "json" => wire[j] = <<>>)
  BY <1>3 DEF AnswersRequest, Inv
<1>6. Moved(j, s, child[j], v, Append(wire[j], unit), cl)
  <2>1. closed' = [k \in Jobs |-> closed'[k]] /\ \A k \in Jobs \ {j} : closed'[k] = closed[k]
    BY DEF AnswersRequest, Inv
  <2>2. DOMAIN server' = Jobs /\ server'[j] = v /\ \A k \in Jobs \ {j} : server'[k] = server[k]
    BY <1>1 DEF Inv
  <2>3. DOMAIN wire' = Jobs /\ wire'[j] = Append(wire[j], unit) /\ \A k \in Jobs \ {j} : wire'[k] = wire[k]
    BY <1>2 DEF Sends, Inv
  <2> QED
    BY <2>1, <2>2, <2>3 DEF AnswersRequest, Inv, Moved
<1>7. ran \in Nat /\ noise(kind) \in Nat /\ noise(kind) >= server[j].noise /\ noise(kind) <= MaxNoise
  BY <1>1, <1>3 DEF Chatters
<1>8. j \in Calls => ran <= 1 /\ (s.at = "work" => ran = 1) /\ (s.at = "init" => ran = 0)
  BY <1>3, JobTypes DEF RunsOf
<1> HIDE DEF ran, noise, s
<1>9. /\ v \in Servers /\ ~v.owes /\ v.runs = ran /\ v.noise = noise(kind)
      /\ v.pages = server[j].pages /\ v.bare = (server[j].bare \/ kind = "bare")
      /\ v.strayed = server[j].strayed
  BY <1>3, <1>7 DEF Servers
<1> HIDE DEF v, cl
<1>10. /\ \A k \in DOMAIN unit : unit[k].kind = "result" => unit[k].id <= job[j].id
       /\ \A k \in DOMAIN unit : unit[k].kind = "result" /\ unit[k].id = job[j].id
                                  /\ job[j].at = "work" /\ j \in Calls => v.runs = 1
       /\ \A k \in DOMAIN unit : unit[k].kind = "bare" => v.bare
       /\ Len(unit) = 1 => unit[1].id = job[j].id \/ job[j].id \in v.strayed
  <2>1. \A k \in DOMAIN unit : unit[k].kind = "result" => unit[k].id <= job[j].id
    BY <1>3, <1>4, <1>8, <1>9 DEF s
  <2>2. \A k \in DOMAIN unit : unit[k].kind = "result" /\ unit[k].id = job[j].id
                               /\ job[j].at = "work" /\ j \in Calls => v.runs = 1
    BY <1>3, <1>4, <1>8, <1>9 DEF s
  <2>3. kind = "bare" => v.bare
    BY <1>3, <1>4, <1>8, <1>9 DEF s
  <2>4. \A k \in DOMAIN unit : unit[k].kind = "bare" => kind = "bare"
    BY <1>3, <1>4, <1>8, <1>9 DEF s
  <2>5. Len(unit) = 1 => unit[1].id = job[j].id \/ job[j].id \in v.strayed
    BY <1>3, <1>4, <1>8, <1>9 DEF s
  <2> QED
    BY <2>1, <2>2, <2>3, <2>4, <2>5
<1>11. /\ server[j].owes /\ closed[j] = "no" /\ job[j].at \in {"init", "work"}
       /\ server[j].bare => v.bare /\ server[j].strayed \subseteq v.strayed
       /\ v.noise >= server[j].noise /\ v.noise <= MaxNoise
       /\ j \in Calls => v.runs <= 1 /\ (job[j].at = "init" => v.runs = 0)
                          /\ (job[j].at = "work" /\ cl = "no" => v.runs = 1)
  BY <1>3, <1>7, <1>8, <1>9 DEF s
<1>12. Moved(j, job[j], child[j], v, Append(wire[j], unit), cl)
  BY <1>6 DEF s
<1> QED
  BY <1>4, <1>5, <1>9, <1>10, <1>11, <1>12, AnsweredKeeps

LEMMA StraysKeeps ==
    ASSUME McpAssumption, Inv, NEW j \in Jobs, Strays(j) PROVE Inv'
<1> DEFINE s == job[j]
           after(kind, ran) == [server[j] EXCEPT !.owes = FALSE, !.bare = @ \/ kind = "bare",
                                  !.noise = server[j].noise + 1, !.runs = server[j].runs + ran,
                                  !.strayed = @ \cup {job[j].id}]
<1>1. PICK kind \in Results, id \in 0..job[j].id - 1,
           ran \in IF j \in Calls /\ job[j].at = "work" THEN {0, 1} ELSE {0} :
        /\ Sends(j, <<Message(kind, id)>>)
        /\ server' = [server EXCEPT ![j].owes = FALSE, ![j].bare = @ \/ kind = "bare",
                          ![j].noise = @ + 1, ![j].runs = @ + ran,
                          ![j].strayed = @ \cup {job[j].id}]
  BY DEF Strays
<1> DEFINE unit == <<Message(kind, id)>>
           v == after(kind, ran)
<1>2. /\ s \in States /\ server[j] \in Servers /\ s.id \in Nat /\ j \notin Stdio
      /\ server[j].runs \in Nat /\ server[j].owes /\ closed[j] = "no" /\ s.at \in {"init", "work"}
      /\ server[j].noise \in Nat /\ server[j].noise < MaxNoise /\ MaxNoise \in Nat /\ wire[j] = <<>>
  BY JobTypes DEF Strays, Chatters, States, Servers, McpAssumption
<1>3. id \in Nat /\ id < s.id /\ ran \in Nat /\ ran <= 1
  BY <1>2
<1>4. /\ unit \in Seq(Messages) /\ DOMAIN unit = {1} /\ unit[1].kind = kind /\ unit[1].id = id
  <2>1. Message(kind, id) \in Messages
    BY <1>3 DEF Message, Messages, Kinds, Results
  <2> QED
    BY <2>1, OneUnit DEF Message
<1>5. Moved(j, s, child[j], v, Append(wire[j], unit), "json")
  <2>1. closed' = [k \in Jobs |-> closed'[k]] /\ \A k \in Jobs \ {j} : closed'[k] = closed[k]
        /\ closed'[j] = "json"
    BY DEF Strays, Inv
  <2>2. DOMAIN server' = Jobs /\ server'[j] = v /\ \A k \in Jobs \ {j} : server'[k] = server[k]
    BY <1>1 DEF Inv
  <2>3. DOMAIN wire' = Jobs /\ wire'[j] = Append(wire[j], unit) /\ \A k \in Jobs \ {j} : wire'[k] = wire[k]
    BY <1>1 DEF Sends, Inv
  <2> QED
    BY <2>1, <2>2, <2>3 DEF Strays, Inv, Moved
<1>6. server[j].runs + ran \in Nat /\ server[j].noise + 1 \in Nat
  BY <1>2, <1>3
<1>7. j \in Calls => server[j].runs + ran <= 1 /\ (s.at = "init" => server[j].runs + ran = 0)
  BY <1>2, <1>3, JobTypes DEF RunsOf
<1> HIDE DEF s
<1>8. /\ v \in Servers /\ ~v.owes /\ v.runs = server[j].runs + ran /\ v.noise = server[j].noise + 1
      /\ v.pages = server[j].pages /\ v.bare = (server[j].bare \/ kind = "bare")
      /\ v.strayed = server[j].strayed \cup {job[j].id}
  BY <1>2, <1>6 DEF Servers, s
<1> HIDE DEF v, unit
<1>9. v.noise >= server[j].noise /\ v.noise <= MaxNoise
  BY <1>2, <1>8
<1>10. /\ \A k \in DOMAIN unit : unit[k].kind = "result" => unit[k].id <= job[j].id
       /\ \A k \in DOMAIN unit : unit[k].kind = "result" /\ unit[k].id = job[j].id
                                  /\ job[j].at = "work" /\ j \in Calls => v.runs = 1
       /\ \A k \in DOMAIN unit : unit[k].kind = "bare" => v.bare
       /\ Len(unit) = 1 => unit[1].id = job[j].id \/ job[j].id \in v.strayed
  <2>1. \A k \in DOMAIN unit : unit[k].kind = "result" => unit[k].id <= job[j].id
    BY <1>2, <1>3, <1>4, <1>8 DEF s
  <2>2. \A k \in DOMAIN unit : unit[k].kind = "result" /\ unit[k].id = job[j].id
                               /\ job[j].at = "work" /\ j \in Calls => v.runs = 1
    BY <1>2, <1>3, <1>4, <1>8 DEF s
  <2>3. kind = "bare" => v.bare
    BY <1>2, <1>3, <1>4, <1>8 DEF s
  <2>4. \A k \in DOMAIN unit : unit[k].kind = "bare" => kind = "bare"
    BY <1>2, <1>3, <1>4, <1>8 DEF s
  <2>5. Len(unit) = 1 => unit[1].id = job[j].id \/ job[j].id \in v.strayed
    BY <1>2, <1>3, <1>4, <1>8 DEF s
  <2> QED
    BY <2>1, <2>2, <2>3, <2>4, <2>5
<1>11. /\ server[j].owes /\ closed[j] = "no" /\ job[j].at \in {"init", "work"}
       /\ server[j].bare => v.bare /\ server[j].strayed \subseteq v.strayed
       /\ j \in Calls => v.runs <= 1 /\ (job[j].at = "init" => v.runs = 0)
  BY <1>2, <1>7, <1>8 DEF s
<1>12. Moved(j, job[j], child[j], v, Append(wire[j], unit), "json")
  BY <1>5 DEF s
<1> QED
  BY <1>2, <1>4, <1>8, <1>9, <1>10, <1>11, <1>12, AnsweredKeeps

LEMMA RespondsKeeps ==
    ASSUME McpAssumption, Inv, NEW j \in Jobs, RespondsTo(j) PROVE Inv'
<1> DEFINE s == job[j]
           v == [server[j] EXCEPT !.owes = FALSE]
           cl == closed'[j]
<1>1. j \notin Stdio /\ server[j].owes /\ cl \in {"sse", "refused"}
  BY DEF RespondsTo, Inv
<1>2. Moved(j, s, child[j], v, wire[j], cl)
  BY DEF RespondsTo, Inv, Moved
<1>3. /\ v \in Servers /\ ~v.owes /\ v.runs = server[j].runs /\ v.noise = server[j].noise
      /\ v.pages = server[j].pages /\ v.bare = server[j].bare /\ v.strayed = server[j].strayed
  BY OwesIs
<1>4. s.waits /\ s.at \notin Ended
  BY <1>1, JobTypes, WaitingGoesOn DEF ShapeOf
<1>5. InvOf(j, s, child[j], server[j], wire[j], closed[j])
  BY DEF Inv, JobInv
<1> HIDE DEF s, v, cl
<1>6. TypesOf(j, s, child[j], v, wire[j], cl) /\ ShapeOf(j, s, child[j], v, wire[j], cl)
  BY <1>1, <1>3, <1>4, <1>5 DEF InvOf, TypesOf, ShapeOf, Ended
<1>7. CountsOf(j, s, v, wire[j]) /\ TookOf(s, v) /\ ResultsOf(j, s, v, wire[j]) /\ PagesOf(j, s, v)
  BY <1>3, <1>5 DEF InvOf, CountsOf, TookOf, ResultsOf, PagesOf
<1>8. RunsOf(j, s, v, cl) /\ JsonOf(s, v, wire[j], cl)
  BY <1>1, <1>3, <1>5 DEF InvOf, RunsOf, JsonOf
<1> QED
  BY <1>2, <1>4, <1>6, <1>7, <1>8, OneMoves DEF InvOf, s

LEMMA ExitsKeeps ==
    ASSUME McpAssumption, Inv, NEW j \in Jobs, Exits(j) PROVE Inv'
<1> DEFINE s == job[j]
           v == [server[j] EXCEPT !.owes = FALSE]
<1>1. child[j] = "runs" /\ s.at \notin Ended \cup {"new"}
  BY DEF Exits, Started
<1>2. Moved(j, s, "exited", v, wire[j], "eof")
  BY DEF Exits, Inv, Moved
<1>3. /\ v \in Servers /\ ~v.owes /\ v.runs = server[j].runs /\ v.noise = server[j].noise
      /\ v.pages = server[j].pages /\ v.bare = server[j].bare /\ v.strayed = server[j].strayed
  BY OwesIs
<1>5. InvOf(j, s, child[j], server[j], wire[j], closed[j])
  BY DEF Inv, JobInv
<1> HIDE DEF s, v
<1>6. TypesOf(j, s, "exited", v, wire[j], "eof") /\ ShapeOf(j, s, "exited", v, wire[j], "eof")
  BY <1>1, <1>3, <1>5 DEF InvOf, TypesOf, ShapeOf, Ended
<1>7. CountsOf(j, s, v, wire[j]) /\ TookOf(s, v) /\ ResultsOf(j, s, v, wire[j]) /\ PagesOf(j, s, v)
  BY <1>3, <1>5 DEF InvOf, CountsOf, TookOf, ResultsOf, PagesOf
<1>8. RunsOf(j, s, v, "eof") /\ JsonOf(s, v, wire[j], "eof")
  BY <1>3, <1>5 DEF InvOf, RunsOf, JsonOf
<1> QED
  BY <1>1, <1>2, <1>6, <1>7, <1>8, OneMoves DEF InvOf, s

LEMMA ChatterKeeps ==
    ASSUME McpAssumption, Inv, NEW j \in Jobs, Chatter(j) PROVE Inv'
<1> DEFINE s == job[j]
           v == [server[j] EXCEPT !.noise = server[j].noise + 1]
<1>2. /\ s \in States /\ server[j] \in Servers /\ wire[j] \in Units /\ s.id \in Nat
      /\ server[j].noise \in Nat /\ closed[j] = "no" /\ s.at \in {"init", "work"} /\ s.at \notin Ended
      /\ server[j].noise < MaxNoise /\ MaxNoise \in Nat
  BY JobTypes DEF Chatter, Chatters, States, Servers, Ended, McpAssumption
<1>3. RunsOf(j, s, server[j], closed[j])
  BY JobTypes
<1>4. PICK unit : /\ Sends(j, unit)
                  /\ \/ unit = <<Message("note", 0)>> \/ unit = Noise
                     \/ \E id \in ServerIds : unit = <<Message("request", id)>>
                     \/ \E id \in 1..job[j].id : /\ id = job[j].id => ~server[j].owes
                                                 /\ unit = <<Message("result", id)>>
  BY DEF Chatter
<1>5. PICK m \in Messages :
        /\ unit = <<m>>
        /\ m.kind = "result" => m.id <= s.id /\ (m.id = s.id => ~server[j].owes)
        /\ m.kind # "bare"
  <2>1. CASE unit = <<Message("note", 0)>>
    BY <2>1 DEF Message, Messages, Kinds
  <2>2. CASE unit = Noise
    BY <2>2 DEF Noise, Message, Messages, Kinds
  <2>3. CASE \E id \in ServerIds : unit = <<Message("request", id)>>
    <3>1. ServerIds \subseteq Nat
      BY DEF McpAssumption
    <3> QED
      BY <2>3, <3>1 DEF Message, Messages, Kinds
  <2>4. CASE \E id \in 1..job[j].id : /\ id = job[j].id => ~server[j].owes
                                      /\ unit = <<Message("result", id)>>
    BY <1>2, <2>4 DEF Message, Messages, Kinds
  <2> QED
    BY <1>4, <2>1, <2>2, <2>3, <2>4
<1> DEFINE w == Append(wire[j], unit)
<1>6. Moved(j, s, child[j], v, w, closed[j])
  BY <1>4 DEF Chatter, Sends, Inv, Moved
<1>7. /\ v \in Servers /\ v.owes = server[j].owes /\ v.runs = server[j].runs
      /\ v.noise = server[j].noise + 1 /\ v.pages = server[j].pages
      /\ v.bare = server[j].bare /\ v.strayed = server[j].strayed
  BY <1>2 DEF Servers
<1>8. unit \in Seq(Messages) /\ DOMAIN unit = {1} /\ unit[1] = m
  BY <1>5, OneUnit
<1>9. w \in Units /\ Len(w) = Len(wire[j]) + 1 /\ Len(wire[j]) \in Nat
  BY <1>2, <1>8, OneMore
<1>10. ResultsOf(j, s, v, w)
  <2>1. ResultsOf(j, s, server[j], wire[j])
    BY JobTypes
  <2>2. ~server[j].owes /\ s.at = "work" /\ j \in Calls => server[j].runs = 1
    BY <1>2, <1>3 DEF RunsOf
  <2> HIDE DEF v, s
  <2> QED
    BY <1>2, <1>5, <1>7, <1>8, <2>1, <2>2, ResultsGrow
<1>11. InvOf(j, s, child[j], server[j], wire[j], closed[j])
  BY DEF Inv, JobInv
<1> HIDE DEF s, v, w
<1>12. TypesOf(j, s, child[j], v, w, closed[j]) /\ ShapeOf(j, s, child[j], v, w, closed[j])
  BY <1>2, <1>7, <1>9, <1>11 DEF InvOf, TypesOf, ShapeOf, Ended
<1>13. CountsOf(j, s, v, w)
  <2>1. v.noise <= MaxNoise
    BY <1>2, <1>7
  <2>2. Len(w) <= v.noise + s.id /\ (v.owes => Len(w) < v.noise + s.id)
    BY <1>2, <1>7, <1>9, <1>11 DEF InvOf, CountsOf
  <2> QED
    BY <1>7, <1>11, <2>1, <2>2 DEF InvOf, CountsOf
<1>14. TookOf(s, v) /\ RunsOf(j, s, v, closed[j]) /\ PagesOf(j, s, v) /\ JsonOf(s, v, w, closed[j])
  BY <1>2, <1>7, <1>11 DEF InvOf, TookOf, RunsOf, PagesOf, JsonOf
<1> QED
  BY <1>2, <1>6, <1>10, <1>12, <1>13, <1>14, OneMoves DEF InvOf, s

-----------------------------------------------------------------------------
(* Every step, and what follows.                                            *)

LEMMA McpStarts == McpAssumption /\ McpInit => Inv
<1> SUFFICES ASSUME McpAssumption, McpInit PROVE Inv
  OBVIOUS
<1>1. \A j \in Jobs : JobInv(j)
  <2> TAKE j \in Jobs
  <2>1. PICK start \in Starts, pages \in [Discoveries -> 1..MaxPages + 1] :
          /\ job = [k \in Jobs |-> [at |-> IF k \in start.jobs THEN "new" ELSE "never", id |-> 0,
                                   waits |-> FALSE, session |-> FALSE,
                                   took |-> Message("none", 0),
                                   page |-> 0, tools |-> 0, good |-> FALSE]]
          /\ server = [k \in Jobs |-> [pages |-> IF k \in Discoveries THEN pages[k] ELSE 1,
                                      noisy |-> k \in start.noisy, owes |-> FALSE, noise |-> 0,
                                      runs |-> 0, bare |-> FALSE, strayed |-> {}]]
    BY DEF McpInit
  <2> DEFINE s == job[j]
             v == server[j]
  <2>2. /\ s.at \in {"new", "never"} /\ s.id = 0 /\ ~s.waits /\ ~s.session /\ s.page = 0 /\ s.tools = 0
        /\ ~s.good /\ s \in States
    BY <2>1 DEF States, Stages, Ended, Message, Messages, Kinds
  <2>3. v \in Servers /\ ~v.owes /\ v.noise = 0 /\ v.runs = 0
    <3>1. (IF j \in Discoveries THEN pages[j] ELSE 1) \in Nat \ {0}
      BY DEF McpAssumption
    <3> QED
      BY <2>1, <3>1 DEF Servers
  <2>4. child[j] = "none" /\ wire[j] = <<>> /\ closed[j] = "no" /\ <<>> \in Units
    BY DEF McpInit, Units
  <2> HIDE DEF s, v
  <2>5. TypesOf(j, s, "none", v, <<>>, "no") /\ ShapeOf(j, s, "none", v, <<>>, "no")
    BY <2>2, <2>3, <2>4 DEF TypesOf, ShapeOf, Ended
  <2>6. CountsOf(j, s, v, <<>>)
    <3>1. Len(<<>>) = 0
      OBVIOUS
    <3> QED
      BY <2>2, <2>3, <3>1 DEF CountsOf, McpAssumption
  <2>7. /\ TookOf(s, v) /\ ResultsOf(j, s, v, <<>>) /\ JsonOf(s, v, <<>>, "no") /\ RunsOf(j, s, v, "no")
        /\ PagesOf(j, s, v)
    BY <2>2, <2>3 DEF TookOf, ResultsOf, JsonOf, RunsOf, PagesOf
  <2> QED
    BY <2>4, <2>5, <2>6, <2>7 DEF InvOf, JobInv, s, v
<1> QED
  BY <1>1 DEF McpInit, Inv

LEMMA Keeps == McpAssumption /\ Inv /\ [McpNext]_mcpVars => Inv'
<1> SUFFICES ASSUME McpAssumption, Inv, [McpNext]_mcpVars PROVE Inv'
  OBVIOUS
<1>1. ASSUME NEW j \in Jobs, Works(j) PROVE Inv'
  BY <1>1, ConnectKeeps, NotifyKeeps, DisconnectKeeps, ReadLineKeeps, ReadEofKeeps, ReceiveKeeps,
     RequestTimesOutKeeps DEF Works
<1>2. ASSUME NEW j \in Jobs, Serve(j) PROVE Inv'
  BY <1>2, AnswerKeeps, StraysKeeps, RespondsKeeps, ChatterKeeps, ExitsKeeps DEF Serve
<1>3. CASE UNCHANGED mcpVars
  <2>1. \A j \in Jobs : JobInv(j)'
    BY <1>3 DEF mcpVars, Inv, JobInv
  <2> QED
    BY <1>3, <2>1 DEF mcpVars, Inv
<1> QED
  BY <1>1, <1>2, <1>3, TimesOutKeeps, CancelKeeps, RegisterKeeps DEF McpNext

LEMMA Always == ASSUME McpAssumption PROVE McpSpec => []Inv
  BY McpStarts, Keeps, PTL DEF McpSpec

\* Every variable of the conversations keeps its type; ids, pages, tools and what is on
\* its way keep the bounds of list_tools' loop, whatever the servers send.
THEOREM TypeCorrect == ASSUME McpAssumption PROVE McpSpec => []McpTypeOK
<1>1. Inv => McpTypeOK
  <2> SUFFICES ASSUME Inv PROVE McpTypeOK
    OBVIOUS
  <2>1. ASSUME NEW j \in Jobs
        PROVE  /\ job[j].at \in Stages
               /\ job[j].id \in 0..MaxPages + 1 /\ job[j].page \in 0..MaxPages
               /\ job[j].tools \in 0..MaxTools /\ server[j].noise \in 0..MaxNoise
               /\ job[j].waits \in BOOLEAN /\ job[j].session \in BOOLEAN /\ job[j].good \in BOOLEAN
               /\ server[j].owes \in BOOLEAN /\ Len(wire[j]) <= MaxNoise + MaxPages + 1
               /\ child[j] \in {"none", "runs", "exited", "reaped"}
               /\ closed[j] \in {"no", "eof", "sse", "json", "refused"}
    <3>1. job[j] \in States /\ server[j] \in Servers /\ wire[j] \in Units
          /\ CountsOf(j, job[j], server[j], wire[j])
      BY JobTypes
    <3>2. /\ job[j].id \in Nat /\ job[j].page \in Nat /\ job[j].tools \in Nat
          /\ server[j].noise \in Nat /\ Len(wire[j]) \in Nat
          /\ MaxPages \in Nat /\ MaxTools \in Nat /\ MaxNoise \in Nat
      BY <3>1 DEF States, Servers, Units, McpAssumption
    <3>3. /\ job[j].id \in 0..MaxPages + 1 /\ job[j].page \in 0..MaxPages
          /\ job[j].tools \in 0..MaxTools /\ server[j].noise \in 0..MaxNoise
          /\ Len(wire[j]) <= MaxNoise + MaxPages + 1
      BY <3>1, <3>2 DEF CountsOf
    <3>4. /\ child[j] \in {"none", "runs", "exited", "reaped"}
          /\ closed[j] \in {"no", "eof", "sse", "json", "refused"}
      BY DEF Inv, JobInv, InvOf, TypesOf
    <3> QED
      BY <3>1, <3>3, <3>4 DEF States, Servers
  <2>2. child \in [Jobs -> {"none", "runs", "exited", "reaped"}]
    <3>1. child = [j \in Jobs |-> child[j]]
      BY DEF Inv, JobInv, InvOf, TypesOf
    <3> QED
      BY <2>1, <3>1
  <2>3. closed \in [Jobs -> {"no", "eof", "sse", "json", "refused"}]
    BY <2>1 DEF Inv
  <2> QED
    BY <2>1, <2>2, <2>3 DEF McpTypeOK, Inv, Stages
<1> QED
  BY <1>1, Always, PTL

\* What send_request returns as a result is the server's result for that very request:
\* no notification, request of the server's own, repeated answer, batch or noise before
\* it is taken for it.  The one exception is stated: another's result that the server wrote
\* as the JSON body of the response to that request's own POST.
THEOREM AnswersAreOwn == ASSUME McpAssumption PROVE McpSpec => []OwnAnswer
<1>1. Inv => OwnAnswer
  <2> SUFFICES ASSUME Inv, NEW j \in Jobs,
                      \/ job[j].at \in {"note", "work"}
                      \/ job[j].at \in {"bye", "ok"} /\ job[j].good
               PROVE  /\ job[j].took.kind \in Results
                      /\ job[j].took.id = Answered(j) \/ Answered(j) \in server[j].strayed
    BY DEF OwnAnswer
  <2> QED
    BY JobTypes DEF TookOf, LastId, Answered
<1> QED
  BY <1>1, Always, PTL

\* execute_with_gen never has a tool run twice for a call, and the tool has run when it
\* returns the result, unless what came is another's.
THEOREM ToolsRunOnce == ASSUME McpAssumption PROVE McpSpec => []RunsOnce
<1>1. Inv => RunsOnce
  <2> SUFFICES ASSUME Inv, NEW c \in Calls
               PROVE  /\ server[c].runs <= 1
                      /\ job[c].at = "ok" => server[c].runs = 1 \/ job[c].id \in server[c].strayed
    BY DEF RunsOnce
  <2>1. c \in Jobs
    BY DEF Jobs
  <2>2. RunsOf(c, job[c], server[c], closed[c])
        /\ ShapeOf(c, job[c], child[c], server[c], wire[c], closed[c])
    BY <2>1, JobTypes
  <2> QED
    BY <2>2 DEF RunsOf, ShapeOf
<1> QED
  BY <1>1, Always, PTL

\* discover_all_mcp_tools registers every tool that the pages of a provider hold, as far
\* as its caps let them in, or none: whatever page failed or timeout came.  A server that sent
\* a result without tools, or another's, has said itself that there are no more.
THEOREM ListingsAreWhole == ASSUME McpAssumption PROVE McpSpec => []RegisteredAreWhole
<1>1. Inv => RegisteredAreWhole
  <2> SUFFICES ASSUME Inv, NEW d \in registered, ~server[d].bare
               PROVE  job[d].tools = WholeListing(d)
    BY DEF RegisteredAreWhole
  <2>1. d \in Discoveries /\ d \in Jobs /\ job[d].at = "ok"
    BY DEF Inv, Jobs
  <2>2. PagesOf(d, job[d], server[d]) /\ job[d].good
    BY <2>1, JobTypes DEF ShapeOf
  <2> QED
    BY <2>1, <2>2 DEF PagesOf, Paged, Least, WholeListing
<1> QED
  BY <1>1, Always, PTL

\* `impl Drop for StdioTransport`: whichever way a job ends, its subprocess is gone.
THEOREM SubprocessesAreReaped == ASSUME McpAssumption PROVE McpSpec => []NoOrphans
<1>1. Inv => NoOrphans
  BY JobTypes DEF NoOrphans, ShapeOf, McpAssumption, Jobs
<1> QED
  BY <1>1, Always, PTL

-----------------------------------------------------------------------------
(* The bucket of skills, and what its changes leave true of a request.      *)

\* What is still to do is the rest of the plan; a look at what the caller sees is a handler's.
Todos(r) ==
    CASE r.kind = "catalog"   -> {<<"catalog">>, <<>>}
      [] r.kind = "read"      -> {<<"bytes", "describe">>, <<"describe">>, <<>>}
      [] r.kind = "file"      -> {<<"bytes">>, <<>>}
      [] r.kind = "resources" -> {<<"catalog", "resources">>, <<"resources">>, <<"exists", "objects">>,
                                  <<"objects">>, <<>>}
Before(r) ==
    CASE r.kind = "read"      -> {<<"catalog", "visible", "bytes", "describe">>, <<"visible", "bytes", "describe">>}
      [] r.kind = "file"      -> {<<"catalog", "visible", "bytes">>, <<"visible", "bytes">>}
      [] r.kind = "resources" -> {<<"catalog", "visible", "catalog", "resources">>,
                                  <<"visible", "catalog", "resources">>}
TodoOK(r, t) == t \in Todos(r) \/ (r.by = "handler" /\ r.kind # "catalog" /\ t \in Before(r))
BytesDone(t) == t \in {<<"describe">>, <<>>}

Holdings ==
    /\ \A k \in Keys : <<k, bucket[k]>> \in held
    /\ \A h \in held : \E k \in Keys : h[1] = k /\ h = <<k, h[2]>> /\ ContentOK(k, h[2])
HistoryInv ==
    /\ req \in SkillRequests /\ via \in {"gcs", "proxy"} /\ changes \in 0..MaxChanges
    /\ BucketOK(bucket) /\ \A c \in Changes : c[1] \in Keys
    /\ Holdings
    /\ always \subseteq Catalogue(bucket) /\ Offered(bucket) \subseteq ever

BytesInv == \A k \in DOMAIN bytes : <<k, bytes[k]>> \in held /\ bytes[k] # Absent

\* The candidates before the one that is tried are no indexes.
IndexInv ==
    /\ phase \in 0..Loading
    /\ \A i \in DOMAIN Candidates : i < phase =>
           WasNoIndex(Candidates[i]) /\ (settled => bucket[Candidates[i]].is # "index")
    /\ phase # 0 => answer = NoAnswer /\ todo # <<>> /\ Head(todo) \in {"catalog", "describe"}
    /\ phase \in 1..Listing => DOMAIN asks # {}

AskFor(k) ==
    /\ asks[k] \in 0..(MaxAttempts - 1)
    /\ answer = NoAnswer /\ todo # <<>>
    /\ phase = 0 =>
           \/ Head(todo) = "bytes" /\ k = Wanted(req)
           \/ Head(todo) = "exists" /\ k = SkillMd(req.skill)
           \/ Head(todo) \in {"resources", "objects"} /\ k = Objects(req.skill)
    /\ phase \in 1..Len(Candidates) =>
           (via = "gcs" /\ k = Candidates[phase]) \/ (via = "proxy" /\ phase = 1 /\ k = Whole)
    /\ phase = Listing => k = Names
    /\ phase = Loading => \E s \in listed : k = SkillMd(s)
AsksInv == \A k \in DOMAIN asks : AskFor(k)

LoadInv ==
    phase = Loading =>
        /\ \A s \in listed : WasFolder(s)
        /\ settled => listed \subseteq ever /\ always \subseteq listed
        /\ \A s \in listed \ rest : SkillMd(s) \in DOMAIN asks \cup DOMAIN bytes \/ failure # Unknown
        /\ rest \subseteq listed
        /\ failure \in {Unknown, Unavailable, NotFound}
        /\ failure = NotFound => \E s \in listed : WasMissing(SkillMd(s))

CatalogInv ==
    catalog # Unknown /\ settled =>
        /\ always \subseteq catalog.skills /\ catalog.skills \subseteq ever
        /\ ~HasIndex(bucket) => \A s \in catalog.skills : WasReadable(s)

TodoInv ==
    answer = NoAnswer =>
        /\ TodoOK(req, todo)
        /\ todo # <<>> /\ Head(todo) = "visible" => catalog # Unknown
        /\ req.kind = "catalog" /\ todo = <<>> => catalog # Unknown
        /\ req.kind \in {"read", "file"} /\ BytesDone(todo) =>
               <<Wanted(req), found>> \in held /\ found # NotFound

\* A failed fall-back ends what there is to do.
FailureInv == phase # Loading /\ todo # <<>> => failure = Unknown

AnswerInv ==
    /\ answer = NoAnswer \/ answer.status \in {200, 400, 404, 502}
    /\ ServedIsOwn /\ CatalogueTrue /\ NotFoundForCause

RemoteInv ==
    /\ HistoryInv /\ BytesInv /\ IndexInv /\ AsksInv /\ LoadInv
    /\ FailureInv /\ CatalogInv /\ TodoInv /\ AnswerInv

-----------------------------------------------------------------------------
LEMMA Tuples ==
    /\ \A a : Head(<<a>>) = a /\ Tail(<<a>>) = <<>>
    /\ \A a, b : Head(<<a, b>>) = a /\ Tail(<<a, b>>) = <<b>>
    /\ \A a, b, c : Head(<<a, b, c>>) = a /\ Tail(<<a, b, c>>) = <<b, c>>
    /\ \A a, b, c, e : Head(<<a, b, c, e>>) = a /\ Tail(<<a, b, c, e>>) = <<b, c, e>>
    /\ \A a, b : <<a, b>> \o <<>> = <<a, b>>
    /\ \A a : <<>> \o <<a>> = <<a>>
    /\ \A a, b : <<>> \o <<a, b>> = <<a, b>>
    /\ \A a, b, c : <<a, b>> \o <<c>> = <<a, b, c>>
    /\ \A a, b, c, e : <<a, b>> \o <<c, e>> = <<a, b, c, e>>
    /\ \A a : <<a>> # <<>>
    /\ \A a, b : <<a, b>> # <<>>
    /\ \A a, b, c : <<a, b, c>> # <<>>
    /\ \A a, b, c, e : <<a, b, c, e>> # <<>>
<1>1. \A a : Head(<<a>>) = a /\ Tail(<<a>>) = <<>>
  OBVIOUS
<1>2. \A a, b : Head(<<a, b>>) = a /\ Tail(<<a, b>>) = <<b>>
  OBVIOUS
<1>3. \A a, b, c : Head(<<a, b, c>>) = a /\ Tail(<<a, b, c>>) = <<b, c>>
  OBVIOUS
<1>4. \A a, b, c, e : Head(<<a, b, c, e>>) = a /\ Tail(<<a, b, c, e>>) = <<b, c, e>>
  OBVIOUS
<1>5. \A a, b : <<a, b>> \o <<>> = <<a, b>>
  OBVIOUS
<1>6. \A a : <<>> \o <<a>> = <<a>>
  OBVIOUS
<1>7. \A a, b : <<>> \o <<a, b>> = <<a, b>>
  OBVIOUS
<1>8. ASSUME NEW a, NEW b, NEW c PROVE <<a, b>> \o <<c>> = <<a, b, c>>
  <2> DEFINE S == {a, b, c}
  <2>1. <<a, b>> \in Seq(S) /\ <<c>> \in Seq(S) /\ <<a, b, c>> \in Seq(S)
    OBVIOUS
  <2>2. /\ <<a, b>> \o <<c>> \in Seq(S) /\ Len(<<a, b>> \o <<c>>) = 3
        /\ \A i \in 1..3 : (<<a, b>> \o <<c>>)[i] = <<a, b, c>>[i]
    BY <2>1
  <2> QED
    BY <2>1, <2>2, SeqEqual
<1>9. ASSUME NEW a, NEW b, NEW c, NEW e PROVE <<a, b>> \o <<c, e>> = <<a, b, c, e>>
  <2> DEFINE S == {a, b, c, e}
  <2>1. <<a, b>> \in Seq(S) /\ <<c, e>> \in Seq(S) /\ <<a, b, c, e>> \in Seq(S)
    OBVIOUS
  <2>2. /\ <<a, b>> \o <<c, e>> \in Seq(S) /\ Len(<<a, b>> \o <<c, e>>) = 4
        /\ \A i \in 1..4 : (<<a, b>> \o <<c, e>>)[i] = <<a, b, c, e>>[i]
    BY <2>1
  <2> QED
    BY <2>1, <2>2, SeqEqual
<1>10. /\ \A a : <<a>> # <<>>
       /\ \A a, b : <<a, b>> # <<>>
       /\ \A a, b, c : <<a, b, c>> # <<>>
       /\ \A a, b, c, e : <<a, b, c, e>> # <<>>
  OBVIOUS
<1> QED
  BY <1>1, <1>2, <1>3, <1>4, <1>5, <1>6, <1>7, <1>8, <1>9, <1>10

\* The two halves of TodoOK, kind by kind.
LEMMA TodosAre ==
    ASSUME NEW r
    PROVE
        /\ r.kind = "catalog" => Todos(r) = {<<"catalog">>, <<>>}
        /\ r.kind = "read" => Todos(r) = {<<"bytes", "describe">>, <<"describe">>, <<>>}
               /\ Before(r) = {<<"catalog", "visible", "bytes", "describe">>, <<"visible", "bytes", "describe">>}
        /\ r.kind = "file" => Todos(r) = {<<"bytes">>, <<>>}
               /\ Before(r) = {<<"catalog", "visible", "bytes">>, <<"visible", "bytes">>}
        /\ r.kind = "resources" => Todos(r) = {<<"catalog", "resources">>, <<"resources">>, <<"exists", "objects">>, <<"objects">>, <<>>}
               /\ Before(r) = {<<"catalog", "visible", "catalog", "resources">>, <<"visible", "catalog", "resources">>}
  BY DEF Todos, Before

\* A request begins with its plan.
LEMMA PlanIsTodo ==
    ASSUME NEW r, RequestOK(r)
    PROVE  /\ TodoOK(r, Plan(r)) /\ Plan(r) # <<>> /\ Head(Plan(r)) # "visible"
           /\ r.kind \in {"read", "file"} => ~BytesDone(Plan(r))
<1>1. CASE r.kind = "catalog"
  <2>1. Plan(r) = <<"catalog">>
    BY <1>1, Tuples DEF Plan
  <2> QED
    BY <1>1, <2>1, TodosAre, Tuples DEF TodoOK
<1>2. CASE r.kind = "read"
  <2>1. CASE r.by = "handler"
    <3>1. Plan(r) = <<"catalog", "visible">> \o <<"bytes", "describe">>
      BY <1>2, <2>1 DEF Plan
    <3>2. Plan(r) = <<"catalog", "visible", "bytes", "describe">>
      BY <3>1, Tuples
    <3> QED
      BY <1>2, <2>1, <3>2, TodosAre, Tuples DEF TodoOK, BytesDone
  <2>2. CASE r.by # "handler"
    <3>1. Plan(r) = <<>> \o <<"bytes", "describe">>
      BY <1>2, <2>2 DEF Plan
    <3>2. Plan(r) = <<"bytes", "describe">>
      BY <3>1, Tuples
    <3> QED
      BY <1>2, <2>2, <3>2, TodosAre, Tuples DEF TodoOK, BytesDone
  <2> QED
    BY <2>1, <2>2
<1>3. CASE r.kind = "file"
  <2>1. CASE r.by = "handler"
    <3>1. Plan(r) = <<"catalog", "visible">> \o <<"bytes">>
      BY <1>3, <2>1 DEF Plan
    <3>2. Plan(r) = <<"catalog", "visible", "bytes">>
      BY <3>1, Tuples
    <3> QED
      BY <1>3, <2>1, <3>2, TodosAre, Tuples DEF TodoOK, BytesDone
  <2>2. CASE r.by # "handler"
    <3>1. Plan(r) = <<>> \o <<"bytes">>
      BY <1>3, <2>2 DEF Plan
    <3>2. Plan(r) = <<"bytes">>
      BY <3>1, Tuples
    <3> QED
      BY <1>3, <2>2, <3>2, TodosAre, Tuples DEF TodoOK, BytesDone
  <2> QED
    BY <2>1, <2>2
<1>4. CASE r.kind = "resources"
  <2>1. CASE r.by = "handler"
    <3>1. Plan(r) = <<"catalog", "visible">> \o <<"catalog", "resources">>
      BY <1>4, <2>1 DEF Plan
    <3>2. Plan(r) = <<"catalog", "visible", "catalog", "resources">>
      BY <3>1, Tuples
    <3> QED
      BY <1>4, <2>1, <3>2, TodosAre, Tuples DEF TodoOK, BytesDone
  <2>2. CASE r.by # "handler"
    <3>1. Plan(r) = <<>> \o <<"catalog", "resources">>
      BY <1>4, <2>2 DEF Plan
    <3>2. Plan(r) = <<"catalog", "resources">>
      BY <3>1, Tuples
    <3> QED
      BY <1>4, <2>2, <3>2, TodosAre, Tuples DEF TodoOK, BytesDone
  <2> QED
    BY <2>1, <2>2
<1> QED
  BY <1>1, <1>2, <1>3, <1>4 DEF RequestOK

\* What is left of it when its head is done.
LEMMA TodoStep ==
    ASSUME NEW r, RequestOK(r), NEW t, TodoOK(r, t), t # <<>>
    PROVE  /\ TodoOK(r, Tail(t))
           /\ Head(t) = "visible" => r.by = "handler" /\ r.kind # "catalog"
           /\ Head(t) \in {"resources", "exists", "objects"} => r.kind = "resources"
           /\ Head(t) = "resources" => TodoOK(r, <<"exists", "objects">> \o Tail(t))
           /\ Head(t) = "bytes" => r.kind \in {"read", "file"}
           /\ r.kind \in {"read", "file"} /\ BytesDone(Tail(t)) => Head(t) = "bytes" \/ BytesDone(t)
           /\ r.kind = "catalog" => Head(t) = "catalog"
           /\ Tail(t) # <<>> /\ Head(Tail(t)) = "visible" => Head(t) = "catalog"
           /\ Head(t) = "describe" => r.kind = "read" /\ BytesDone(t)
<1> DEFINE P == /\ TodoOK(r, Tail(t))
                /\ Head(t) = "visible" => r.by = "handler" /\ r.kind # "catalog"
                /\ Head(t) \in {"resources", "exists", "objects"} => r.kind = "resources"
                /\ Head(t) = "resources" => TodoOK(r, <<"exists", "objects">> \o Tail(t))
                /\ Head(t) = "bytes" => r.kind \in {"read", "file"}
                /\ r.kind \in {"read", "file"} /\ BytesDone(Tail(t)) => Head(t) = "bytes" \/ BytesDone(t)
                /\ r.kind = "catalog" => Head(t) = "catalog"
                /\ Tail(t) # <<>> /\ Head(Tail(t)) = "visible" => Head(t) = "catalog"
                /\ Head(t) = "describe" => r.kind = "read" /\ BytesDone(t)
<1>1. CASE r.kind = "catalog"
  <2>1. CASE t = <<"catalog">>
    <3>1. Head(t) = "catalog" /\ Tail(t) = <<>>
      BY <2>1, Tuples
    <3>2. TodoOK(r, Tail(t))
      BY <1>1, <2>1, <3>1, TodosAre DEF TodoOK
    <3> QED
      BY <1>1, <2>1, <3>1, <3>2, Tuples DEF BytesDone
  <2> QED
    BY <1>1, <2>1, TodosAre DEF TodoOK
<1>2. CASE r.kind = "read"
  <2>1. CASE t = <<"bytes", "describe">>
    <3>1. Head(t) = "bytes" /\ Tail(t) = <<"describe">> /\ Head(Tail(t)) = "describe"
      BY <2>1, Tuples
    <3>2. TodoOK(r, Tail(t))
      BY <1>2, <2>1, <3>1, TodosAre DEF TodoOK
    <3> QED
      BY <1>2, <2>1, <3>1, <3>2, Tuples DEF BytesDone
  <2>2. CASE t = <<"describe">>
    <3>1. Head(t) = "describe" /\ Tail(t) = <<>>
      BY <2>2, Tuples
    <3>2. TodoOK(r, Tail(t))
      BY <1>2, <2>2, <3>1, TodosAre DEF TodoOK
    <3> QED
      BY <1>2, <2>2, <3>1, <3>2, Tuples DEF BytesDone
  <2>3. CASE t = <<"catalog", "visible", "bytes", "describe">> /\ r.by = "handler"
    <3>1. Head(t) = "catalog" /\ Tail(t) = <<"visible", "bytes", "describe">> /\ Head(Tail(t)) = "visible"
      BY <2>3, Tuples
    <3>2. TodoOK(r, Tail(t))
      BY <1>2, <2>3, <3>1, TodosAre DEF TodoOK
    <3> QED
      BY <1>2, <2>3, <3>1, <3>2, Tuples DEF BytesDone
  <2>4. CASE t = <<"visible", "bytes", "describe">> /\ r.by = "handler"
    <3>1. Head(t) = "visible" /\ Tail(t) = <<"bytes", "describe">> /\ Head(Tail(t)) = "bytes"
      BY <2>4, Tuples
    <3>2. TodoOK(r, Tail(t))
      BY <1>2, <2>4, <3>1, TodosAre DEF TodoOK
    <3> QED
      BY <1>2, <2>4, <3>1, <3>2, Tuples DEF BytesDone
  <2> QED
    BY <1>2, <2>1, <2>2, <2>3, <2>4, TodosAre DEF TodoOK
<1>3. CASE r.kind = "file"
  <2>1. CASE t = <<"bytes">>
    <3>1. Head(t) = "bytes" /\ Tail(t) = <<>>
      BY <2>1, Tuples
    <3>2. TodoOK(r, Tail(t))
      BY <1>3, <2>1, <3>1, TodosAre DEF TodoOK
    <3> QED
      BY <1>3, <2>1, <3>1, <3>2, Tuples DEF BytesDone
  <2>2. CASE t = <<"catalog", "visible", "bytes">> /\ r.by = "handler"
    <3>1. Head(t) = "catalog" /\ Tail(t) = <<"visible", "bytes">> /\ Head(Tail(t)) = "visible"
      BY <2>2, Tuples
    <3>2. TodoOK(r, Tail(t))
      BY <1>3, <2>2, <3>1, TodosAre DEF TodoOK
    <3> QED
      BY <1>3, <2>2, <3>1, <3>2, Tuples DEF BytesDone
  <2>3. CASE t = <<"visible", "bytes">> /\ r.by = "handler"
    <3>1. Head(t) = "visible" /\ Tail(t) = <<"bytes">> /\ Head(Tail(t)) = "bytes"
      BY <2>3, Tuples
    <3>2. TodoOK(r, Tail(t))
      BY <1>3, <2>3, <3>1, TodosAre DEF TodoOK
    <3> QED
      BY <1>3, <2>3, <3>1, <3>2, Tuples DEF BytesDone
  <2> QED
    BY <1>3, <2>1, <2>2, <2>3, TodosAre DEF TodoOK
<1>4. CASE r.kind = "resources"
  <2>1. CASE t = <<"catalog", "resources">>
    <3>1. Head(t) = "catalog" /\ Tail(t) = <<"resources">> /\ Head(Tail(t)) = "resources"
      BY <2>1, Tuples
    <3>2. TodoOK(r, Tail(t))
      BY <1>4, <2>1, <3>1, TodosAre DEF TodoOK
    <3> QED
      BY <1>4, <2>1, <3>1, <3>2, Tuples DEF BytesDone
  <2>2. CASE t = <<"resources">>
    <3>1. Head(t) = "resources" /\ Tail(t) = <<>>
      BY <2>2, Tuples
    <3>2. <<"exists", "objects">> \o Tail(t) = <<"exists", "objects">>
      <4>1. <<"exists", "objects">> \o <<>> = <<"exists", "objects">>
        OBVIOUS
      <4> QED
        BY <3>1, <4>1, Zenon
    <3>3. TodoOK(r, <<"exists", "objects">> \o Tail(t)) /\ TodoOK(r, Tail(t))
      BY <1>4, <3>1, <3>2, TodosAre DEF TodoOK
    <3> QED
      BY <1>4, <2>2, <3>1, <3>3, Tuples DEF BytesDone
  <2>3. CASE t = <<"exists", "objects">>
    <3>1. Head(t) = "exists" /\ Tail(t) = <<"objects">> /\ Head(Tail(t)) = "objects"
      BY <2>3, Tuples
    <3>2. TodoOK(r, Tail(t))
      BY <1>4, <2>3, <3>1, TodosAre DEF TodoOK
    <3> QED
      BY <1>4, <2>3, <3>1, <3>2, Tuples DEF BytesDone
  <2>4. CASE t = <<"objects">>
    <3>1. Head(t) = "objects" /\ Tail(t) = <<>>
      BY <2>4, Tuples
    <3>2. TodoOK(r, Tail(t))
      BY <1>4, <2>4, <3>1, TodosAre DEF TodoOK
    <3> QED
      BY <1>4, <2>4, <3>1, <3>2, Tuples DEF BytesDone
  <2>5. CASE t = <<"catalog", "visible", "catalog", "resources">> /\ r.by = "handler"
    <3>1. Head(t) = "catalog" /\ Tail(t) = <<"visible", "catalog", "resources">> /\ Head(Tail(t)) = "visible"
      BY <2>5, Tuples
    <3>2. TodoOK(r, Tail(t))
      BY <1>4, <2>5, <3>1, TodosAre DEF TodoOK
    <3> QED
      BY <1>4, <2>5, <3>1, <3>2, Tuples DEF BytesDone
  <2>6. CASE t = <<"visible", "catalog", "resources">> /\ r.by = "handler"
    <3>1. Head(t) = "visible" /\ Tail(t) = <<"catalog", "resources">> /\ Head(Tail(t)) = "catalog"
      BY <2>6, Tuples
    <3>2. TodoOK(r, Tail(t))
      BY <1>4, <2>6, <3>1, TodosAre DEF TodoOK
    <3> QED
      BY <1>4, <2>6, <3>1, <3>2, Tuples DEF BytesDone
  <2> QED
    BY <1>4, <2>1, <2>2, <2>3, <2>4, <2>5, <2>6, TodosAre DEF TodoOK
<1> QED
  BY <1>1, <1>2, <1>3, <1>4 DEF RequestOK

-----------------------------------------------------------------------------
(* The bucket and what is read of it                                        *)

LEMMA ContentIs ==
    ASSUME NEW k, NEW c, ContentOK(k, c)
    PROVE  /\ c \notin {NotFound, Unavailable, Invalid, Unknown} /\ (c.is = "index" => k \in Indexes)
           /\ c \notin {Absent, EmptyFile} /\ k \notin Indexes => c.is = "file"
<1>1. c.is \in {"absent", "empty", "file", "index"} /\ (c.is = "index" => k \in Indexes)
  BY DEF ContentOK, Absent, EmptyFile
<1>2. /\ NotFound.is = "not found" /\ Unavailable.is = "unavailable"
      /\ Invalid.is = "invalid" /\ Unknown.is = "unknown"
  BY DEF NotFound, Unavailable, Invalid, Unknown
<1>3. c \notin {NotFound, Unavailable, Invalid, Unknown}
  BY <1>1, <1>2
<1> QED
  BY <1>1, <1>3 DEF ContentOK

LEMMA CandidatesAre ==
    /\ Len(Candidates) \in Nat \ {0} /\ DOMAIN Candidates = 1..Len(Candidates)
    /\ Listing = Len(Candidates) + 1 /\ Loading = Len(Candidates) + 2
    /\ \A s : SkillMd(s) \notin Indexes
    /\ Names \notin Indexes /\ Whole \notin Indexes /\ Names # Whole
    /\ \A s : Objects(s) \notin Indexes \cup {Names, Whole}
    /\ \A s : SkillMd(s) \notin {Names, Whole} /\ \A t : SkillMd(s) # Objects(t)
    /\ MaxAttempts \in Nat \ {0}
<1>1. Len(Candidates) \in Nat \ {0} /\ DOMAIN Candidates = 1..Len(Candidates)
  BY RemoteSkillsAssumption DEF RemoteSkillsAssumption
<1>2. \A s : SkillMd(s) \notin Indexes
  BY RemoteSkillsAssumption DEF RemoteSkillsAssumption, SkillMd
<1>3. /\ Names # Whole /\ \A s : Objects(s) \notin Indexes \cup {Names, Whole}
      /\ \A s : SkillMd(s) \notin {Names, Whole} /\ \A t : SkillMd(s) # Objects(t)
  <2>1. Names[2] # Whole[2]
    BY DEF Names, Whole
  <2>2. \A s : Len(Objects(s)) = 3 /\ Len(Names) = 2 /\ Len(Whole) = 2 /\ Len(SkillMd(s)) = 2
    BY DEF Names, Whole, Objects, SkillMd
  <2>3. \A k \in Indexes : Len(k) = 2
    BY RemoteSkillsAssumption DEF RemoteSkillsAssumption
  <2>4. \A s : SkillMd(s)[2] = "SKILL.md" /\ Names[2] = "prefixes" /\ Whole[2] = "catalog"
    BY DEF Names, Whole, SkillMd
  <2> QED
    BY <2>1, <2>2, <2>3, <2>4
<1>4. Names \notin Indexes /\ Whole \notin Indexes /\ MaxAttempts \in Nat \ {0}
  BY RemoteSkillsAssumption DEF RemoteSkillsAssumption
<1> QED
  BY <1>1, <1>2, <1>3, <1>4 DEF Listing, Loading

\* The first of the candidates that is an index is the catalogue.
LEMMA FirstIndexIs ==
    ASSUME NEW b, NEW p \in DOMAIN Candidates, b[Candidates[p]].is = "index",
           \A i \in DOMAIN Candidates : i < p => b[Candidates[i]].is # "index"
    PROVE  /\ HasIndex(b) /\ Offered(b) = b[Candidates[p]].skills
           /\ Catalogue(b) = b[Candidates[p]].skills
<1> DEFINE First(i) == /\ b[Candidates[i]].is = "index"
                       /\ \A j \in 1..(i - 1) : b[Candidates[j]].is # "index"
<1>1. HasIndex(b)
  BY DEF HasIndex, Indexes
<1>2. First(p)
  BY CandidatesAre
<1>3. \A i \in DOMAIN Candidates : First(i) => i = p
  <2> SUFFICES ASSUME NEW i \in DOMAIN Candidates, First(i), i # p PROVE FALSE
    OBVIOUS
  <2>1. i > p
    BY CandidatesAre
  <2>2. p \in 1..(i - 1)
    BY <2>1, CandidatesAre
  <2> QED
    BY <2>2
<1>4. (CHOOSE i \in DOMAIN Candidates : First(i)) = p
  <2> HIDE DEF First
  <2> QED
    BY <1>2, <1>3
<1>5. FirstIndex(b) = b[Candidates[p]]
  BY <1>4 DEF FirstIndex
<1> QED
  BY <1>1, <1>5 DEF Offered, Catalogue

LEMMA NoIndexIs ==
    ASSUME NEW b, \A i \in DOMAIN Candidates : b[Candidates[i]].is # "index"
    PROVE  ~HasIndex(b) /\ Offered(b) = FirstPage(b)
           /\ Catalogue(b) = {s \in FirstPage(b) : Readable(b, s)}
  BY DEF HasIndex, Indexes, Offered, Catalogue

LEMMA OfferedIs == ASSUME NEW b PROVE Catalogue(b) \subseteq Offered(b)
  BY DEF Offered, Catalogue

LEMMA PageIs ==
    ASSUME NEW b, NEW s \in FirstPage(b)
    PROVE  s # "" /\ \E k \in DOMAIN b : k[1] = s /\ b[k] # Absent
  BY DEF FirstPage, Folders, Present

\* What the bucket holds was held, and what was held fits its key.
LEMMA HeldIs ==
    ASSUME HistoryInv
    PROVE  /\ \A k \in Keys : <<k, bucket[k]>> \in held /\ ContentOK(k, bucket[k])
           /\ \A k, c : <<k, c>> \in held => k \in Keys /\ ContentOK(k, c)
           /\ Indexes \subseteq Keys /\ RequestOK(req)
<1>1. \A k, c : <<k, c>> \in held => k \in Keys /\ ContentOK(k, c)
  <2> SUFFICES ASSUME NEW k, NEW c, <<k, c>> \in held PROVE k \in Keys /\ ContentOK(k, c)
    OBVIOUS
  <2>1. <<k, c>>[1] = k /\ <<k, c>>[2] = c
    OBVIOUS
  <2> QED
    BY <2>1 DEF HistoryInv, Holdings
<1> QED
  BY <1>1, RemoteSkillsAssumption DEF HistoryInv, Holdings, BucketOK, Keys, RemoteSkillsAssumption

LEMMA WasIs ==
    ASSUME HistoryInv, NEW k \in Keys
    PROVE  /\ bucket[k].is # "index" => WasNoIndex(k)
           /\ bucket[k] = Absent => WasMissing(k)
           /\ bucket[k] # Absent /\ k[1] # "" => WasFolder(k[1])
<1>1. <<k, bucket[k]>> \in held /\ <<k, bucket[k]>>[1] = k /\ <<k, bucket[k]>>[2] = bucket[k]
  BY HeldIs
<1> QED
  BY <1>1 DEF WasNoIndex, WasMissing, WasFolder

LEMMA ReadableIs ==
    ASSUME HistoryInv, NEW s, NEW c, <<SkillMd(s), c>> \in held, c \notin {Absent, EmptyFile}
    PROVE  WasReadable(s)
<1>1. <<SkillMd(s), c>>[1] = SkillMd(s) /\ <<SkillMd(s), c>>[2] = c
  OBVIOUS
<1>2. c.is = "file"
  BY HeldIs, ContentIs, CandidatesAre
<1> QED
  BY <1>1, <1>2 DEF WasReadable

LEMMA CatalogueIsReadable ==
    ASSUME HistoryInv, ~HasIndex(bucket), NEW s \in Catalogue(bucket)
    PROVE  WasReadable(s)
<1>1. SkillMd(s) \in Keys /\ bucket[SkillMd(s)].is = "file"
  BY DEF Catalogue, Readable, Keys
<1>2. <<SkillMd(s), bucket[SkillMd(s)]>> \in held
  BY <1>1, HeldIs
<1>3. bucket[SkillMd(s)] \notin {Absent, EmptyFile}
  BY <1>1 DEF Absent, EmptyFile
<1> QED
  BY <1>2, <1>3, ReadableIs

\* A GET of a file fails, finds or is told that it is missing, or has what the bucket holds.
Got(k, result) ==
    \/ result = Unavailable
    \/ result = NotFound /\ WasMissing(k)' /\ (k \in Keys => bucket[k] = Absent)
    \/ result = NotFound /\ k \in refused' /\ (k \in Indexes => ~settled')
    \/ k \in Keys /\ result = bucket[k] /\ bucket[k] # Absent

-----------------------------------------------------------------------------
(* What the parts of the invariant rest on                                  *)

\* What goes on outside of a request: refusals add to what is said to be missing.
Quiet == Outside /\ refused \subseteq refused' /\ (settled' => settled)

LEMMA RestIsQuiet == Rest => Quiet
  BY DEF Rest, Quiet

LEMMA QuietKeeps ==
    ASSUME RemoteInv, Quiet
    PROVE  /\ HistoryInv'
           /\ bytes' = bytes => BytesInv'
           /\ catalog' = catalog => CatalogInv'
           /\ answer' = answer => AnswerInv'
           /\ \A k : (WasMissing(k) => WasMissing(k)') /\ (WasNoIndex(k) => WasNoIndex(k)')
           /\ \A s : (WasFolder(s) => WasFolder(s)') /\ (WasReadable(s) => WasReadable(s)')
           /\ Keys' = Keys
<1>1. UNCHANGED <<bucket, req, via, changes, held, always, ever>> /\ refused \subseteq refused' /\ (settled' => settled)
  BY DEF Quiet, Outside
<1>2. HistoryInv' /\ Keys' = Keys
  BY <1>1 DEF RemoteInv, HistoryInv, Holdings, Keys
<1>3. /\ \A k : (WasMissing(k) => WasMissing(k)') /\ (WasNoIndex(k) => WasNoIndex(k)')
      /\ \A s : (WasFolder(s) => WasFolder(s)') /\ (WasReadable(s) => WasReadable(s)')
  BY <1>1 DEF WasMissing, WasNoIndex, WasFolder, WasReadable, SaidMissing, Keys
<1>4. bytes' = bytes => BytesInv'
  BY <1>1 DEF RemoteInv, BytesInv
<1>5. catalog' = catalog => CatalogInv'
  BY <1>1, <1>3 DEF RemoteInv, CatalogInv
<1>6. ASSUME answer' = answer PROVE AnswerInv'
  <2>1. ServedIsOwn'
    BY <1>1, <1>6 DEF RemoteInv, AnswerInv, ServedIsOwn, Ok
  <2>2. CatalogueTrue'
    BY <1>1, <1>3, <1>6 DEF RemoteInv, AnswerInv, CatalogueTrue, Ok
  <2>3. NotFoundForCause'
    BY <1>1, <1>3, <1>6 DEF RemoteInv, AnswerInv, NotFoundForCause, SaidMissing, Keys
  <2> QED
    BY <1>6, <2>1, <2>2, <2>3 DEF RemoteInv, AnswerInv
<1> QED
  BY <1>2, <1>3, <1>4, <1>5, <1>6

LEMMA ReadNowIs ==
    ASSUME HistoryInv, NEW k, k \notin {Names, Whole, Objects(req.skill)}
    PROVE  RemoteInv /\ Quiet => Got(k, ReadNow(k))
<1> SUFFICES ASSUME RemoteInv, Quiet PROVE Got(k, ReadNow(k))
  OBVIOUS
<1>1. ReadNow(k) = IF k \in Keys /\ bucket[k] # Absent THEN bucket[k] ELSE NotFound
  BY DEF ReadNow, Present
<1>2. CASE k \in Keys /\ bucket[k] # Absent
  BY <1>1, <1>2 DEF Got
<1>3. CASE k \in Keys /\ bucket[k] = Absent
  BY <1>1, <1>3, WasIs, QuietKeeps DEF Got
<1>4. CASE k \notin Keys
  BY <1>1, <1>4, QuietKeeps DEF Got, WasMissing
<1> QED
  BY <1>2, <1>3, <1>4

\* Without a catalogue to look for and without a GET three parts hold of themselves.
LEMMA IdleKeeps ==
    ASSUME phase' = 0, DOMAIN asks' = {}
    PROVE  /\ IndexInv' /\ AsksInv' /\ LoadInv'
           /\ RemoteInv /\ failure' = failure /\ phase = 0 /\ todo # <<>> => FailureInv'
<1>1. 0 \in 0..Loading /\ 0 # Loading /\ 0 \notin 1..Listing
  BY CandidatesAre
<1>2. \A i \in DOMAIN Candidates : ~(i < 0)
  BY CandidatesAre
<1> QED
  BY <1>1, <1>2 DEF IndexInv, AsksInv, LoadInv, RemoteInv, FailureInv

\* Idle is idle.
LEMMA IdleIs ==
    ASSUME RemoteInv, Idle
    PROVE  phase = 0 /\ DOMAIN asks = {} /\ answer = NoAnswer
<1>1. DOMAIN NoAsks = {}
  BY DEF NoAsks
<1>2. asks = NoAsks /\ phase # Loading /\ answer = NoAnswer
  BY DEF Idle
<1>3. phase \notin 1..Listing /\ phase \in 0..Loading
  BY <1>1, <1>2 DEF RemoteInv, IndexInv
<1> QED
  BY <1>1, <1>2, <1>3, CandidatesAre

LEMMA SetIs ==
    ASSUME NEW f, NEW k, NEW v
    PROVE  /\ DOMAIN Set(f, k, v) = DOMAIN f \cup {k} /\ Set(f, k, v)[k] = v
           /\ \A j \in DOMAIN f : j # k => Set(f, k, v)[j] = f[j]
  BY DEF Set

\* A first GET.
LEMMA FirstAskIs ==
    ASSUME NEW k, DOMAIN asks = {}, Ask(k)
    PROVE  DOMAIN asks' = {k} /\ asks'[k] = 0
<1>1. asks' = Set(asks, k, 0)
  BY DEF Ask
<1>2. DOMAIN Set(asks, k, 0) = DOMAIN asks \cup {k} /\ Set(asks, k, 0)[k] = 0
  BY DEF Set
<1> QED
  BY <1>1, <1>2

LEMMA FailureKeeps ==
    ASSUME RemoteInv, failure' = failure, phase # Loading, todo # <<>>
    PROVE  FailureInv'
  BY DEF RemoteInv, FailureInv

NotFoundCause ==
    \/ WasMissing(Wanted(req)) \/ SaidMissing(Objects(req.skill))
    \/ /\ req.by = "handler"
       /\ settled => req.skill \notin Local \cup (Granted \cap always)
    \/ /\ \A k \in Indexes : WasNoIndex(k)
       /\ \E k \in Keys : WasFolder(k[1]) /\ WasMissing(SkillMd(k[1]))

LEMMA CauseKeeps ==
    ASSUME RemoteInv, Quiet, NotFoundCause
    PROVE  NotFoundCause'
<1>1. UNCHANGED <<req, always>> /\ refused \subseteq refused' /\ (settled' => settled)
  BY DEF Quiet, Outside
<1> QED
  BY <1>1, QuietKeeps DEF NotFoundCause, SaidMissing

LEMMA FailKeeps ==
    ASSUME RemoteInv, Quiet, NEW e \in {NotFound, Invalid, Unavailable}, Fail(e),
           e = NotFound => NotFoundCause'
    PROVE  AnswerInv' /\ TodoInv' /\ FailureInv'
<1>1. UNCHANGED <<bucket, req, via, changes, held, always, ever>> /\ (settled' => settled)
  BY DEF Quiet, Outside
<1>2. NotFound # Invalid /\ NotFound # Unavailable /\ Invalid # Unavailable
  BY DEF NotFound, Invalid, Unavailable
<1>3. answer' = [status |-> Status(e)] /\ Status(e) \in {404, 400, 502} /\ (Status(e) = 404 => e = NotFound)
  BY <1>2 DEF Fail, Status
<1>4. answer'.status = Status(e)
  BY <1>3
<1>5. answer' # NoAnswer
  <2>1. NoAnswer.status = 0
    BY DEF NoAnswer
  <2> QED
    BY <1>3, <1>4, <2>1
<1>6. ServedIsOwn' /\ CatalogueTrue'
  <2>1. answer'.status # 200
    BY <1>3, <1>4
  <2> QED
    BY <2>1 DEF ServedIsOwn, CatalogueTrue, Ok
<1>7. NotFoundForCause'
  BY <1>3, <1>4 DEF NotFoundForCause, NotFoundCause
<1>8. FailureInv'
  BY DEF FailureInv, Fail
<1> QED
  BY <1>3, <1>4, <1>5, <1>6, <1>7, <1>8 DEF AnswerInv, TodoInv

\* The head of what is to do is done, and it was not the bytes.
LEMMA TailKeeps ==
    ASSUME RemoteInv, Quiet, answer = NoAnswer, todo # <<>>, todo' = Tail(todo),
           answer' = answer, found' = found \/ req.kind \notin {"read", "file"},
           Head(todo) # "bytes", Head(todo) = "catalog" => catalog' # Unknown,
           catalog' = catalog \/ catalog' # Unknown
    PROVE  TodoInv'
<1>1. UNCHANGED <<req, held>>
  BY DEF Quiet, Outside
<1>2. RequestOK(req) /\ TodoOK(req, todo)
  BY HeldIs DEF RemoteInv, TodoInv
<1>3. TodoOK(req', todo')
  BY <1>1, <1>2, TodoStep
<1>4. todo' # <<>> /\ Head(todo') = "visible" => catalog' # Unknown
  BY <1>2, TodoStep
<1>5. req.kind = "catalog" /\ todo' = <<>> => catalog' # Unknown
  BY <1>2, TodoStep
<1>6. ASSUME req.kind \in {"read", "file"}, BytesDone(todo')
      PROVE  <<Wanted(req), found'>> \in held /\ found' # NotFound
  <2>1. BytesDone(todo)
    BY <1>2, <1>6, TodoStep
  <2> QED
    BY <1>6, <2>1 DEF RemoteInv, TodoInv
<1> QED
  BY <1>1, <1>3, <1>4, <1>5, <1>6 DEF TodoInv

-----------------------------------------------------------------------------
(* The steps of a request                                                   *)

LEMMA InitKeeps ==
    ASSUME RemoteInit
    PROVE  RemoteInv
<1>1. RequestOK(req) /\ BucketOK(bucket) /\ \A c \in Changes : c[1] \in Keys
  BY RemoteSkillsAssumption DEF RemoteInit, RemoteSkillsAssumption, Keys
<1>2. HistoryInv
  <2>1. Holdings
    <3>1. held = {<<k, bucket[k]>> : k \in Keys}
      BY DEF RemoteInit
    <3>2. \A k \in Keys : ContentOK(k, bucket[k])
      BY <1>1 DEF BucketOK, Keys
    <3> QED
      BY <3>1, <3>2 DEF Holdings
  <2>2. 0 \in 0..MaxChanges
    BY RemoteSkillsAssumption DEF RemoteSkillsAssumption
  <2> QED
    BY <1>1, <2>1, <2>2, OfferedIs DEF RemoteInit, HistoryInv
<1>3. DOMAIN asks = {} /\ DOMAIN bytes = {} /\ phase = 0 /\ answer = NoAnswer /\ catalog = Unknown
  BY DEF RemoteInit, NoAsks
<1>4. BytesInv /\ AsksInv /\ CatalogInv /\ FailureInv
  BY <1>3 DEF BytesInv, AsksInv, CatalogInv, FailureInv, RemoteInit
<1>5. IndexInv /\ LoadInv
  <2>1. 0 \in 0..Loading /\ 0 # Loading /\ 0 \notin 1..Listing /\ \A i \in DOMAIN Candidates : ~(i < 0)
    BY CandidatesAre
  <2> QED
    BY <1>3, <2>1 DEF IndexInv, LoadInv
<1>6. TodoInv
  BY <1>1, <1>3, PlanIsTodo DEF RemoteInit, TodoInv
<1>7. AnswerInv
  <2>1. answer.status = 0
    BY <1>3 DEF NoAnswer
  <2> QED
    BY <1>3, <2>1 DEF AnswerInv, ServedIsOwn, CatalogueTrue, NotFoundForCause, Ok
<1> QED
  BY <1>2, <1>4, <1>5, <1>6, <1>7 DEF RemoteInv

\* One GET is asked for, and no catalogue is being looked for.
LEMMA AskKeeps ==
    ASSUME RemoteInv, Quiet, Idle, todo # <<>>, NEW k, Ask(k),
           UNCHANGED <<todo, phase, failure, bytes, catalog, found, answer>>,
           \/ Head(todo) = "bytes" /\ k = Wanted(req)
           \/ Head(todo) = "exists" /\ k = SkillMd(req.skill)
           \/ Head(todo) \in {"resources", "objects"} /\ k = Objects(req.skill)
    PROVE  RemoteInv'
<1>1. phase = 0 /\ DOMAIN asks = {} /\ answer = NoAnswer
  BY IdleIs
<1>2. DOMAIN asks' = {k} /\ asks'[k] = 0
  BY <1>1, FirstAskIs
<1>3. UNCHANGED req
  BY DEF Quiet, Outside
<1>4. AsksInv'
  <2>1. 0 \in 0..(MaxAttempts - 1) /\ 0 \notin 1..Len(Candidates) /\ 0 # Listing /\ 0 # Loading
    BY CandidatesAre
  <2>2. AskFor(k)'
    BY <1>1, <1>2, <1>3, <2>1 DEF AskFor
  <2> QED
    BY <1>2, <2>2 DEF AsksInv
<1>5. IndexInv' /\ LoadInv'
  <2>1. 0 \in 0..Loading /\ 0 # Loading /\ 0 \notin 1..Listing /\ \A i \in DOMAIN Candidates : ~(i < 0)
    BY CandidatesAre
  <2> QED
    BY <1>1, <2>1 DEF IndexInv, LoadInv
<1>6. TodoInv'
  BY <1>3 DEF RemoteInv, TodoInv, Quiet, Outside
<1>7. FailureInv'
  BY <1>1, CandidatesAre, FailureKeeps
<1> QED
  BY <1>4, <1>5, <1>6, <1>7, QuietKeeps DEF RemoteInv

LEMMA AskCatalogKeeps ==
    ASSUME RemoteInv, AskCatalog
    PROVE  RemoteInv'
<1>1. /\ Idle /\ todo # <<>> /\ Head(todo) \in {"catalog", "describe"} /\ Quiet
      /\ UNCHANGED <<failure, bytes, catalog, found, answer>>
  BY RestIsQuiet DEF AskCatalog
<1>2. phase = 0 /\ DOMAIN asks = {} /\ answer = NoAnswer
  BY <1>1, IdleIs
<1>3. CASE catalog # Unknown
  <2>1. todo' = Tail(todo) /\ phase' = 0 /\ asks' = asks
    BY <1>2, <1>3 DEF AskCatalog
  <2>2. TodoInv'
    BY <1>1, <1>2, <1>3, <2>1, TailKeeps
  <2> QED
    BY <1>1, <1>2, <2>1, <2>2, IdleKeeps, QuietKeeps DEF RemoteInv
<1>4. CASE catalog = Unknown
  <2> DEFINE k == IF via = "proxy" THEN Whole ELSE Candidates[1]
  <2>1. todo' = todo /\ phase' = 1 /\ Ask(k)
    BY <1>4 DEF AskCatalog
  <2>2. DOMAIN asks' = {k} /\ asks'[k] = 0
    <3> HIDE DEF k
    <3> QED
      BY <1>2, <2>1, FirstAskIs
  <2>3. UNCHANGED <<req, via, held, bucket>> /\ via \in {"gcs", "proxy"}
    BY <1>1 DEF Quiet, Outside, RemoteInv, HistoryInv
  <2>4. /\ 1 \in 0..Loading /\ 1 # Loading /\ 1 # 0 /\ 1 # Listing /\ 0 \in 0..(MaxAttempts - 1)
        /\ \A i \in DOMAIN Candidates : ~(i < 1)
    BY CandidatesAre
  <2>5. AsksInv'
    <3> SUFFICES ASSUME NEW j \in DOMAIN asks' PROVE AskFor(j)'
      BY DEF AsksInv
    <3>1. j = k /\ asks'[j] = 0
      BY <2>2
    <3> QED
      BY <1>1, <1>2, <2>1, <2>3, <2>4, <3>1 DEF AskFor
  <2>6. IndexInv'
    BY <1>1, <1>2, <2>1, <2>2, <2>4 DEF IndexInv
  <2>7. LoadInv'
    BY <2>1, <2>4 DEF LoadInv
  <2>8. TodoInv'
    BY <1>1, <2>1, <2>3 DEF RemoteInv, TodoInv
  <2>9. FailureInv'
    BY <1>1, <1>2, CandidatesAre, FailureKeeps
  <2> QED
    BY <1>1, <2>5, <2>6, <2>7, <2>8, <2>9, QuietKeeps DEF RemoteInv
<1> QED
  BY <1>3, <1>4

LEMMA CheckVisibleKeeps ==
    ASSUME RemoteInv, CheckVisible
    PROVE  RemoteInv'
<1>1. /\ Idle /\ todo # <<>> /\ Head(todo) = "visible" /\ Quiet
      /\ UNCHANGED <<phase, asks, failure, bytes, catalog, found>>
  BY RestIsQuiet DEF CheckVisible, Does
<1>2. phase = 0 /\ DOMAIN asks = {} /\ answer = NoAnswer
  BY <1>1, IdleIs
<1>3. RequestOK(req) /\ TodoOK(req, todo) /\ catalog # Unknown
  BY <1>1, <1>2, HeldIs DEF RemoteInv, TodoInv
<1>4. CASE req.skill \in Visible
  <2>1. todo' = Tail(todo) /\ answer' = answer
    BY <1>4 DEF CheckVisible
  <2>2. TodoInv'
    BY <1>1, <1>2, <2>1, TailKeeps
  <2> QED
    BY <1>1, <1>2, <2>1, <2>2, IdleKeeps, QuietKeeps DEF RemoteInv
<1>5. CASE req.skill \notin Visible
  <2>1. Fail(NotFound)
    BY <1>5 DEF CheckVisible
  <2>2. req.by = "handler"
    BY <1>1, <1>3, TodoStep
  <2>3. settled => req.skill \notin Local \cup (Granted \cap always)
    BY <1>3, <1>5 DEF Visible, RemoteInv, CatalogInv
  <2>4. NotFoundCause
    BY <2>2, <2>3 DEF NotFoundCause
  <2>7. NotFoundCause'
    BY <1>1, <2>4, CauseKeeps
  <2>5. AnswerInv' /\ TodoInv' /\ FailureInv'
    BY <1>1, <2>1, <2>7, FailKeeps
  <2> QED
    BY <1>1, <1>2, <2>5, IdleKeeps, QuietKeeps DEF RemoteInv
<1> QED
  BY <1>4, <1>5

\* The bytes are there.
LEMMA FoundKeeps ==
    ASSUME RemoteInv, Quiet, answer = NoAnswer, todo # <<>>, todo' = Tail(todo), answer' = answer,
           catalog' = catalog, Head(todo) \in {"bytes", "exists"}, NEW k,
           Head(todo) = "bytes" => k = Wanted(req), <<k, found'>> \in held
    PROVE  TodoInv'
<1>1. CASE Head(todo) = "exists"
  <2>1. req.kind \notin {"read", "file"}
    BY <1>1, HeldIs, TodoStep DEF RemoteInv, TodoInv
  <2> QED
    BY <1>1, <2>1, TailKeeps
<1>2. CASE Head(todo) = "bytes"
  <2>1. RequestOK(req) /\ TodoOK(req, todo) /\ UNCHANGED <<req, held>>
    BY HeldIs DEF RemoteInv, TodoInv, Quiet, Outside
  <2>2. <<Wanted(req), found'>> \in held /\ found' # NotFound
    BY <1>2, HeldIs, ContentIs DEF RemoteInv
  <2>3. TodoOK(req', todo')
    BY <2>1, TodoStep
  <2>4. ~(todo' # <<>> /\ Head(todo') = "visible") /\ req.kind # "catalog"
    BY <1>2, <2>1, TodoStep
  <2> QED
    BY <2>1, <2>2, <2>3, <2>4 DEF TodoInv
<1> QED
  BY <1>1, <1>2

LEMMA AskBytesKeeps ==
    ASSUME RemoteInv, AskBytes
    PROVE  RemoteInv'
<1> DEFINE k == IF Head(todo) = "exists" THEN SkillMd(req.skill) ELSE Wanted(req)
<1>1. /\ Idle /\ todo # <<>> /\ Head(todo) \in {"bytes", "exists"} /\ Quiet
      /\ UNCHANGED <<phase, failure, bytes, catalog>>
  BY RestIsQuiet DEF AskBytes
<1>2. phase = 0 /\ DOMAIN asks = {} /\ answer = NoAnswer
  BY <1>1, IdleIs
<1>3. CASE Fail(Invalid) /\ UNCHANGED <<asks, found>>
  <2>1. Invalid # NotFound
    BY DEF Invalid, NotFound
  <2>2. AnswerInv' /\ TodoInv' /\ FailureInv'
    BY <1>1, <1>3, <2>1, FailKeeps
  <2> QED
    BY <1>1, <1>2, <1>3, <2>2, IdleKeeps, QuietKeeps DEF RemoteInv
<1>4. CASE Cached(k) /\ found' = bytes[CacheKey(k)] /\ todo' = Tail(todo) /\ UNCHANGED <<asks, answer>>
  <2>1. <<k, found'>> \in held
    BY <1>4 DEF RemoteInv, BytesInv, Cached, CacheKey
  <2>2. Head(todo) = "bytes" => k = Wanted(req)
    OBVIOUS
  <2> HIDE DEF k
  <2>3. TodoInv'
    BY <1>1, <1>2, <1>4, <2>1, <2>2, FoundKeeps
  <2> QED
    BY <1>1, <1>2, <1>4, <2>3, IdleKeeps, QuietKeeps DEF RemoteInv
<1>5. CASE Ask(k) /\ UNCHANGED <<todo, found, answer>>
  <2>1. \/ Head(todo) = "bytes" /\ k = Wanted(req)
        \/ Head(todo) = "exists" /\ k = SkillMd(req.skill)
    BY <1>1
  <2> HIDE DEF k
  <2> QED
    BY <1>1, <1>5, <2>1, AskKeeps
<1>6. \/ Fail(Invalid) /\ UNCHANGED <<asks, found>>
      \/ Cached(k) /\ found' = bytes[CacheKey(k)] /\ todo' = Tail(todo) /\ UNCHANGED <<asks, answer>>
      \/ Ask(k) /\ UNCHANGED <<todo, found, answer>>
  BY RestIsQuiet DEF AskBytes
<1> QED
  BY <1>3, <1>4, <1>5, <1>6

LEMMA ListResourcesKeeps ==
    ASSUME RemoteInv, ListResources
    PROVE  RemoteInv'
<1>1. /\ Idle /\ todo # <<>> /\ Head(todo) = "resources" /\ Quiet
      /\ UNCHANGED <<phase, failure, bytes, catalog, answer>>
  BY RestIsQuiet DEF ListResources, Does
<1>2. phase = 0 /\ DOMAIN asks = {} /\ answer = NoAnswer
  BY <1>1, IdleIs
<1>3. RequestOK(req) /\ TodoOK(req, todo) /\ req.kind = "resources"
  BY <1>1, <1>2, HeldIs, TodoStep DEF RemoteInv, TodoInv
<1>4. CASE via = "proxy"
  <2>1. Ask(Objects(req.skill)) /\ UNCHANGED <<todo, found>>
    BY <1>4 DEF ListResources
  <2> QED
    BY <1>1, <2>1, AskKeeps
<1>5. CASE todo' = Tail(todo) /\ UNCHANGED asks
  <2>1. TodoInv'
    BY <1>1, <1>2, <1>3, <1>5, TailKeeps
  <2> QED
    BY <1>1, <1>2, <1>5, <2>1, IdleKeeps, QuietKeeps DEF RemoteInv
<1>6. CASE todo' = <<"exists", "objects">> \o Tail(todo) /\ UNCHANGED <<asks, found>>
  <2>1. TodoOK(req, todo')
    BY <1>1, <1>3, <1>6, TodoStep
  <2>2. Head(todo') = "exists"
    <3>1. todo = <<"resources">>
      BY <1>1, <1>3, TodosAre, Tuples DEF TodoOK
    <3>2. Tail(todo) = <<>>
      BY <3>1, Tuples
    <3>3. <<"exists", "objects">> \o <<>> = <<"exists", "objects">>
      OBVIOUS
    <3>4. todo' = <<"exists", "objects">>
      BY <1>6, <3>2, <3>3, Zenon
    <3> QED
      BY <3>4, Tuples
  <2>3. Head(todo') # "visible"
    BY <2>2
  <2>4. UNCHANGED <<req, held>>
    BY <1>1 DEF Quiet, Outside
  <2>5. TodoInv'
    BY <1>1, <1>3, <2>1, <2>3, <2>4 DEF TodoInv
  <2> QED
    BY <1>1, <1>2, <1>6, <2>5, IdleKeeps, QuietKeeps DEF RemoteInv
<1> QED
  BY <1>4, <1>5, <1>6 DEF ListResources

LEMMA ListObjectsKeeps ==
    ASSUME RemoteInv, ListObjects
    PROVE  RemoteInv'
<1>1. /\ Idle /\ todo # <<>> /\ Head(todo) = "objects" /\ Quiet /\ Ask(Objects(req.skill))
      /\ UNCHANGED <<todo, phase, failure, bytes, catalog, found, answer>>
  BY RestIsQuiet DEF ListObjects, Does
<1> QED
  BY <1>1, AskKeeps

\* The catalogue fails: the request does, unless it was for a description alone.
LEMMA CatalogFailsKeeps ==
    ASSUME RemoteInv, Quiet, answer = NoAnswer, todo # <<>>, Head(todo) \in {"catalog", "describe"},
           NEW e \in {NotFound, Invalid, Unavailable}, CatalogFails(e), UNCHANGED <<catalog, found>>,
           e = NotFound => NotFoundCause'
    PROVE  AnswerInv' /\ TodoInv' /\ FailureInv'
<1>1. CASE Head(todo) = "describe"
  <2>1. todo' = Tail(todo) /\ answer' = answer
    BY <1>1 DEF CatalogFails
  <2>2. RequestOK(req) /\ TodoOK(req, todo)
    BY HeldIs DEF RemoteInv, TodoInv
  <2>3. todo = <<"describe">>
    BY <1>1, <2>2, TodoStep DEF BytesDone
  <2>4. todo' = <<>>
    BY <2>1, <2>3, Tuples
  <2>5. TodoInv'
    BY <1>1, <2>1, TailKeeps
  <2> QED
    BY <2>1, <2>4, <2>5, QuietKeeps DEF FailureInv
<1>2. CASE Head(todo) # "describe"
  <2>1. Fail(e)
    BY <1>2 DEF CatalogFails
  <2> QED
    BY <2>1, FailKeeps
<1> QED
  BY <1>1, <1>2

LEMMA LoadNextKeeps ==
    ASSUME RemoteInv, LoadNext
    PROVE  RemoteInv'
<1>1. PICK s \in rest : /\ rest' = rest \ {s}
                        /\ (Cached(SkillMd(s)) /\ asks' = asks) \/ Ask(SkillMd(s))
  BY RestIsQuiet DEF LoadNext
<1>2. /\ phase = Loading /\ Quiet
      /\ UNCHANGED <<todo, phase, listed, failure, bytes, catalog, found, answer>>
  BY RestIsQuiet DEF LoadNext
<1>3. UNCHANGED <<bucket, req, via, changes, held, always, ever>> /\ (settled' => settled)
  BY <1>2 DEF Quiet, Outside
<1>4. Loading \notin 0..Listing /\ Loading # 0 /\ Loading # Listing /\ 0 \in 0..(MaxAttempts - 1)
      /\ Loading \notin 1..Len(Candidates)
  BY CandidatesAre
<1>5. s \in listed /\ answer = NoAnswer /\ todo # <<>>
  BY <1>2, <1>4 DEF RemoteInv, LoadInv, IndexInv
<1>6. /\ DOMAIN asks \subseteq DOMAIN asks' /\ DOMAIN asks' \subseteq DOMAIN asks \cup {SkillMd(s)}
      /\ SkillMd(s) \in DOMAIN asks' \cup DOMAIN bytes
      /\ \A j \in DOMAIN asks' : asks'[j] = 0 \/ (j \in DOMAIN asks /\ asks'[j] = asks[j])
  <2>1. CASE Cached(SkillMd(s)) /\ asks' = asks
    BY <2>1 DEF Cached, CacheKey
  <2>2. CASE Ask(SkillMd(s))
    BY <2>2 DEF Ask, Set
  <2> QED
    BY <1>1, <2>1, <2>2
<1>7. AsksInv'
  <2> SUFFICES ASSUME NEW j \in DOMAIN asks' PROVE AskFor(j)'
    BY DEF AsksInv
  <2>1. asks'[j] \in 0..(MaxAttempts - 1)
    BY <1>4, <1>6 DEF RemoteInv, AsksInv, AskFor
  <2>2. \E z \in listed : j = SkillMd(z)
    BY <1>2, <1>5, <1>6 DEF RemoteInv, AsksInv, AskFor
  <2> QED
    BY <1>2, <1>3, <1>4, <1>5, <2>1, <2>2 DEF AskFor
<1>8. IndexInv'
  <2>1. IndexInv
    BY DEF RemoteInv
  <2> QED
    BY <1>2, <1>3, <1>4, <2>1, QuietKeeps DEF IndexInv
<1>9. LoadInv'
  <2>1. LoadInv
    BY DEF RemoteInv
  <2>2. \A z \in listed \ rest' : SkillMd(z) \in DOMAIN asks' \cup DOMAIN bytes \/ failure # Unknown
    BY <1>1, <1>2, <1>6, <2>1 DEF LoadInv
  <2> QED
    BY <1>1, <1>2, <1>3, <2>1, <2>2, QuietKeeps DEF LoadInv
<1>10. TodoInv' /\ FailureInv'
  BY <1>2, <1>3 DEF RemoteInv, TodoInv, FailureInv
<1> QED
  BY <1>2, <1>7, <1>8, <1>9, <1>10, QuietKeeps DEF RemoteInv

LEMMA LoadEndsKeeps ==
    ASSUME RemoteInv, LoadEnds
    PROVE  RemoteInv'
<1>1. /\ phase = Loading /\ rest = {} /\ asks = NoAsks /\ phase' = 0 /\ Loaded /\ Quiet
      /\ UNCHANGED <<asks, listed, rest, failure, bytes, found>>
  BY RestIsQuiet DEF LoadEnds
<1>2. Loading # 0 /\ \A i \in DOMAIN Candidates : i < Loading
  BY CandidatesAre
<1>3. /\ DOMAIN asks' = {} /\ answer = NoAnswer /\ todo # <<>> /\ Head(todo) \in {"catalog", "describe"}
  BY <1>1, <1>2 DEF RemoteInv, IndexInv, NoAsks
<1>4. IndexInv' /\ AsksInv' /\ LoadInv' /\ HistoryInv' /\ BytesInv'
  BY <1>1, <1>3, IdleKeeps, QuietKeeps
<1>5. ASSUME NEW e \in {NotFound, Invalid, Unavailable}, CatalogFails(e), UNCHANGED catalog,
             e = NotFound => failure = NotFound
      PROVE  RemoteInv'
  <2>1. ASSUME e = NotFound PROVE NotFoundCause'
    <3>1. PICK s \in listed : WasFolder(s) /\ WasMissing(SkillMd(s))
      BY <1>1, <1>5, <2>1 DEF RemoteInv, LoadInv
    <3>2. PICK h \in held : h[1][1] = s
      BY <3>1 DEF WasFolder
    <3>3. h[1] \in Keys
      BY <3>2 DEF RemoteInv, HistoryInv, Holdings
    <3>4. \A k \in Indexes : WasNoIndex(k)
      BY <1>1, <1>2 DEF RemoteInv, IndexInv, Indexes
    <3>5. NotFoundCause
      BY <3>1, <3>2, <3>3, <3>4 DEF NotFoundCause
    <3> QED
      BY <1>1, <3>5, CauseKeeps
  <2>2. AnswerInv' /\ TodoInv' /\ FailureInv'
    BY <1>1, <1>3, <1>5, <2>1, CatalogFailsKeeps
  <2> QED
    BY <1>1, <1>4, <1>5, <2>2, QuietKeeps DEF RemoteInv
<1>6. CASE failure # Unknown
  <2>1. CatalogFails(failure) /\ catalog' = catalog
    BY <1>1, <1>6 DEF Loaded
  <2>2. failure \in {NotFound, Unavailable}
    BY <1>1, <1>6 DEF RemoteInv, LoadInv
  <2> QED
    BY <1>5, <2>1, <2>2
<1>7. CASE failure = Unknown /\ CatalogFails(Invalid) /\ catalog' = catalog
  <2>1. Invalid # NotFound
    BY DEF Invalid, NotFound
  <2> QED
    BY <1>5, <1>7, <2>1
<1>8. CASE /\ failure = Unknown /\ ~\E s \in listed : bytes[CacheKey(SkillMd(s))] = EmptyFile
           /\ catalog' = Plain(listed) /\ todo' = Tail(todo) /\ UNCHANGED answer
  <2>1. catalog'.skills = listed /\ catalog' # Unknown
    <3>1. catalog' = [skills |-> listed, complete |-> {}, resources |-> NoAsks]
      BY <1>8 DEF Plain
    <3>2. DOMAIN Unknown = {"is"}
      BY DEF Unknown
    <3>3. "skills" \in DOMAIN catalog'
      BY <3>1
    <3> QED
      BY <3>1, <3>2, <3>3
  <2>2. \A s \in listed : WasReadable(s)
    <3> SUFFICES ASSUME NEW s \in listed PROVE WasReadable(s)
      OBVIOUS
    <3>1. SkillMd(s) \in DOMAIN bytes
      BY <1>1, <1>3, <1>8 DEF RemoteInv, LoadInv
    <3>2. <<SkillMd(s), bytes[SkillMd(s)]>> \in held /\ bytes[SkillMd(s)] \notin {Absent, EmptyFile}
      BY <1>8, <3>1 DEF RemoteInv, BytesInv, CacheKey
    <3> QED
      BY <3>2, ReadableIs DEF RemoteInv
  <2>3. CatalogInv'
    <3>1. UNCHANGED <<always, ever, bucket>> /\ (settled' => settled)
      BY <1>1 DEF Quiet, Outside
    <3>2. settled => always \subseteq listed /\ listed \subseteq ever
      BY <1>1 DEF RemoteInv, LoadInv
    <3>3. \A s \in listed : WasReadable(s)'
      BY <1>1, <2>2, QuietKeeps
    <3> QED
      BY <2>1, <3>1, <3>2, <3>3 DEF CatalogInv
  <2>4. TodoInv'
    BY <1>1, <1>3, <1>8, <2>1, TailKeeps
  <2>5. FailureInv'
    BY <1>1, <1>8 DEF FailureInv
  <2> QED
    BY <1>1, <1>4, <1>8, <2>3, <2>4, <2>5, QuietKeeps DEF RemoteInv
<1> QED
  BY <1>1, <1>6, <1>7, <1>8 DEF Loaded

LEMMA AnsweringKeeps ==
    ASSUME RemoteInv, Answer
    PROVE  RemoteInv'
<1> DEFINE body == IF req.kind # "catalog" THEN found
                   ELSE [is |-> "list", names |-> IF req.by = "handler" THEN Visible \cap catalog.skills
                                                  ELSE catalog.skills]
<1>1. /\ Idle /\ todo = <<>> /\ answer' = [status |-> 200, body |-> body] /\ Quiet
      /\ UNCHANGED <<todo, phase, asks, failure, bytes, catalog, found>>
  BY RestIsQuiet DEF Answer
<1>2. phase = 0 /\ DOMAIN asks = {} /\ answer = NoAnswer
  BY <1>1, IdleIs
<1>3. UNCHANGED <<bucket, req, held, always, ever>> /\ (settled' => settled)
  BY <1>1 DEF Quiet, Outside
<1>4. answer'.status = 200 /\ answer'.body = body /\ NoAnswer.status = 0
  BY <1>1 DEF NoAnswer
<1>5. ServedIsOwn'
  <2> SUFFICES ASSUME req.kind \in {"read", "file"}
               PROVE  answer'.body # NotFound /\ <<Wanted(req), answer'.body>> \in held
    BY <1>3 DEF ServedIsOwn, Ok
  <2>1. body = found
    OBVIOUS
  <2>2. <<Wanted(req), found>> \in held /\ found # NotFound
    BY <1>1, <1>2 DEF RemoteInv, TodoInv, BytesDone
  <2> QED
    BY <1>4, <2>1, <2>2
<1>6. CatalogueTrue'
  <2> SUFFICES ASSUME req.kind = "catalog", settled
               PROVE  /\ answer'.body.names \subseteq ever
                      /\ ~HasIndex(bucket) => \A s \in answer'.body.names : WasReadable(s)'
                      /\ (IF req.by = "handler" THEN always \cap (Local \cup Granted) ELSE always)
                             \subseteq answer'.body.names
    BY <1>3 DEF CatalogueTrue, Ok
  <2>1. catalog # Unknown
    BY <1>1, <1>2 DEF RemoteInv, TodoInv
  <2>2. /\ always \subseteq catalog.skills /\ catalog.skills \subseteq ever
        /\ ~HasIndex(bucket) => \A s \in catalog.skills : WasReadable(s)
    BY <2>1 DEF RemoteInv, CatalogInv
  <2>3. answer'.body.names = IF req.by = "handler" THEN Visible \cap catalog.skills ELSE catalog.skills
    BY <1>4
  <2> QED
    BY <1>1, <2>2, <2>3, QuietKeeps DEF Visible
<1>7. answer' # NoAnswer /\ answer'.status # 404
  BY <1>4
<1>8. AnswerInv' /\ TodoInv'
  BY <1>4, <1>5, <1>6, <1>7 DEF AnswerInv, TodoInv, NotFoundForCause
<1>9. FailureInv'
  BY <1>1 DEF FailureInv
<1> QED
  BY <1>1, <1>2, <1>8, <1>9, IdleKeeps, QuietKeeps DEF RemoteInv

-----------------------------------------------------------------------------
(* The results of GETs                                                      *)

\* What is known when a GET is answered.
LEMMA AskedIs ==
    ASSUME RemoteInv, NEW k \in DOMAIN asks
    PROVE  /\ answer = NoAnswer /\ todo # <<>> /\ AskFor(k) /\ phase \in 0..Loading
           /\ phase # 0 => Head(todo) \in {"catalog", "describe"}
           /\ phase = 0 => Head(todo) \notin {"catalog", "describe", "visible"}
           /\ RequestOK(req) /\ TodoOK(req, todo) /\ via \in {"gcs", "proxy"}
<1>1. AskFor(k)
  BY DEF RemoteInv, AsksInv
<1>2. answer = NoAnswer /\ todo # <<>>
  BY <1>1 DEF AskFor
<1>3. phase = 0 => Head(todo) \notin {"catalog", "describe", "visible"}
  BY <1>1 DEF AskFor
<1> QED
  BY <1>1, <1>2, <1>3, HeldIs DEF RemoteInv, IndexInv, TodoInv, HistoryInv

\* A result as a whole list.
ListOf(k, result) ==
    \/ result = Unavailable
    \/ k = Names /\ result = [is |-> "list", names |-> FirstPage(bucket)]
    \/ k = Whole /\ result = [is |-> "list", names |-> Catalogue(bucket)]
    \/ k = Objects(req.skill) /\ result.is = "list"

LEMMA TakeIndexKeeps ==
    ASSUME RemoteInv, Quiet, NEW k \in DOMAIN asks, phase \in 1..Len(Candidates), k = Candidates[phase],
           NEW result, Got(k, result), TakeIndex(result)
    PROVE  RemoteInv'
<1>1. /\ answer = NoAnswer /\ todo # <<>> /\ Head(todo) \in {"catalog", "describe"}
      /\ RequestOK(req) /\ TodoOK(req, todo) /\ phase # 0
  BY AskedIs, CandidatesAre
<1>2. UNCHANGED <<bucket, req, via, changes, held, always, ever>> /\ (settled' => settled)
  BY DEF Quiet, Outside
<1>3. UNCHANGED <<listed, rest, failure, bytes, found>>
  BY DEF TakeIndex
<1>4. phase \in DOMAIN Candidates /\ k \in Indexes /\ k \in Keys /\ DOMAIN NoAsks = {} /\ phase # Loading
  BY CandidatesAre, HeldIs DEF Indexes, NoAsks, RemoteInv
<1>5. /\ Unavailable.is = "unavailable" /\ NotFound.is = "not found" /\ Absent.is = "absent"
      /\ Unavailable # NotFound
  BY DEF Unavailable, NotFound, Absent
<1>6. CASE result.is = "index"
  <2>1. catalog' = FromIndex(result) /\ phase' = 0 /\ todo' = Tail(todo) /\ asks' = NoAsks /\ answer' = answer
    BY <1>5, <1>6 DEF TakeIndex
  <2>2. catalog'.skills = result.skills /\ catalog' # Unknown
    <3>1. catalog' = [skills |-> result.skills, complete |-> result.skills, resources |-> result.resources]
      BY <2>1 DEF FromIndex
    <3>2. DOMAIN Unknown = {"is"}
      BY DEF Unknown
    <3>3. "skills" \in DOMAIN catalog'
      BY <3>1
    <3> QED
      BY <3>1, <3>2, <3>3
  <2>3. bucket[k] = result
    BY <1>5, <1>6 DEF Got
  <2>4. ASSUME settled PROVE HasIndex(bucket) /\ Offered(bucket) = result.skills /\ Catalogue(bucket) = result.skills
    <3>1. \A i \in DOMAIN Candidates : i < phase => bucket[Candidates[i]].is # "index"
      BY <2>4 DEF RemoteInv, IndexInv
    <3> QED
      BY <1>4, <1>6, <2>3, <3>1, FirstIndexIs
  <2>5. CatalogInv'
    BY <1>2, <2>2, <2>4 DEF CatalogInv, RemoteInv, HistoryInv
  <2>6. TodoInv'
    BY <1>1, <1>3, <2>1, <2>2, TailKeeps
  <2>7. FailureInv'
    BY <1>1, <1>2, <1>3, <1>4, FailureKeeps
  <2> QED
    BY <1>3, <1>4, <2>1, <2>5, <2>6, <2>7, IdleKeeps, QuietKeeps DEF RemoteInv
<1>7. CASE result = Unavailable
  <2>1. CatalogFails(Unavailable) /\ phase' = 0 /\ asks' = NoAsks /\ catalog' = catalog
    BY <1>5, <1>7 DEF TakeIndex
  <2>2. AnswerInv' /\ TodoInv' /\ FailureInv'
    BY <1>1, <1>3, <1>5, <2>1, CatalogFailsKeeps
  <2> QED
    BY <1>3, <1>4, <2>1, <2>2, IdleKeeps, QuietKeeps DEF RemoteInv
<1>8. CASE result.is # "index" /\ result # Unavailable
  <2> DEFINE next == IF phase + 1 = Listing THEN Names ELSE Candidates[phase + 1]
  <2>1. phase' = phase + 1 /\ UNCHANGED <<catalog, todo, answer>>
    BY <1>8 DEF TakeIndex
  <2>2. asks' = Set(NoAsks, next, 0)
    BY <1>8, <2>1 DEF TakeIndex
  <2>3. DOMAIN asks' = {next} /\ asks'[next] = 0
    <3> HIDE DEF next
    <3> QED
      BY <1>4, <2>2 DEF Set
  <2>4. bucket[k].is # "index" \/ (k \in refused' /\ ~settled')
    BY <1>4, <1>5, <1>8 DEF Got
  <2>5. WasNoIndex(k)'
    <3>1. CASE bucket[k].is # "index"
      BY <1>4, <3>1, WasIs, QuietKeeps DEF RemoteInv
    <3>2. CASE k \in refused'
      BY <3>2 DEF WasNoIndex, SaidMissing
    <3> QED
      BY <2>4, <3>1, <3>2
  <2>6. /\ phase + 1 \in 1..Listing /\ phase + 1 # 0 /\ phase + 1 \in 0..Loading /\ phase + 1 # Loading
        /\ \A i \in DOMAIN Candidates : i < phase + 1 => i < phase \/ i = phase
        /\ 0 \in 0..(MaxAttempts - 1) /\ Listing \notin 1..Len(Candidates)
    BY CandidatesAre
  <2>7. IndexInv'
    <3>1. /\ phase' \in 0..Loading /\ phase' # 0
      BY <2>1, <2>6
    <3>2. \A i \in DOMAIN Candidates : i < phase' =>
             WasNoIndex(Candidates[i])' /\ (settled' => bucket'[Candidates[i]].is # "index")
      BY <1>2, <2>1, <2>4, <2>5, <2>6, QuietKeeps DEF RemoteInv, IndexInv
    <3> QED
      BY <1>1, <2>1, <2>3, <3>1, <3>2 DEF IndexInv
  <2>8. AsksInv'
    <3> SUFFICES ASSUME NEW j \in DOMAIN asks' PROVE AskFor(j)'
      BY DEF AsksInv
    <3>1. j = next /\ asks'[j] = 0
      BY <2>3
    <3>2. /\ phase + 1 = Listing => j = Names
          /\ phase + 1 # Listing => j = Candidates[phase + 1]
      BY <3>1
    <3>3. via = "gcs"
      <4>1. AskFor(k)
        BY AskedIs
      <4> QED
        BY <1>4, <4>1, CandidatesAre DEF AskFor
    <3> QED
      BY <1>1, <1>2, <2>1, <2>6, <3>1, <3>2, <3>3 DEF AskFor
  <2>9. LoadInv'
    BY <2>1, <2>6 DEF LoadInv
  <2>10. TodoInv' /\ FailureInv'
    BY <1>1, <1>2, <1>3, <1>4, <2>1, FailureKeeps DEF RemoteInv, TodoInv
  <2> QED
    BY <1>3, <2>1, <2>7, <2>8, <2>9, <2>10, QuietKeeps DEF RemoteInv
<1> QED
  BY <1>6, <1>7, <1>8

LEMMA TakeNamesKeeps ==
    ASSUME RemoteInv, Quiet, Names \in DOMAIN asks, phase = Listing,
           NEW result, ListOf(Names, result), TakeNames(result)
    PROVE  RemoteInv'
<1>1. /\ answer = NoAnswer /\ todo # <<>> /\ Head(todo) \in {"catalog", "describe"} /\ phase # 0 /\ phase # Loading
  BY AskedIs, CandidatesAre
<1>2. UNCHANGED <<bucket, req, via, changes, held, always, ever>> /\ (settled' => settled)
  BY DEF Quiet, Outside
<1>3. UNCHANGED <<failure, bytes, catalog, found>> /\ DOMAIN asks' = {}
  BY DEF TakeNames, NoAsks
<1>4. Unavailable # NotFound
  BY DEF Unavailable, NotFound
<1>5. CASE result = Unavailable
  <2>1. CatalogFails(Unavailable) /\ phase' = 0
    BY <1>5 DEF TakeNames
  <2>2. AnswerInv' /\ TodoInv' /\ FailureInv'
    BY <1>1, <1>3, <1>4, <2>1, CatalogFailsKeeps
  <2> QED
    BY <1>3, <2>1, <2>2, IdleKeeps, QuietKeeps DEF RemoteInv
<1>6. CASE result # Unavailable
  <2>1. listed' = result.names /\ rest' = result.names /\ phase' = Loading /\ UNCHANGED <<todo, answer>>
    BY <1>6 DEF TakeNames
  <2>2. result.names = FirstPage(bucket)
    BY <1>6, CandidatesAre DEF ListOf
  <2>3. \A s \in FirstPage(bucket) : WasFolder(s)
    <3> SUFFICES ASSUME NEW s \in FirstPage(bucket) PROVE WasFolder(s)
      OBVIOUS
    <3>1. s # "" /\ \E j \in Keys : j[1] = s /\ bucket[j] # Absent
      BY PageIs DEF Keys
    <3> QED
      BY <3>1, WasIs DEF RemoteInv
  <2>4. \A i \in DOMAIN Candidates : i < phase /\ i < Loading
    BY CandidatesAre
  <2>5. settled => FirstPage(bucket) \subseteq ever /\ always \subseteq FirstPage(bucket)
    <3>1. settled => Offered(bucket) = FirstPage(bucket) /\ Catalogue(bucket) = {s \in FirstPage(bucket) : Readable(bucket, s)}
      BY <2>4, NoIndexIs DEF RemoteInv, IndexInv
    <3> QED
      BY <3>1 DEF RemoteInv, HistoryInv
  <2>6. failure = Unknown
    BY <1>1 DEF RemoteInv, FailureInv
  <2>7. LoadInv'
    <3>1. \A s \in listed' : WasFolder(s)'
      BY <2>1, <2>2, <2>3, QuietKeeps
    <3>2. Unknown # NotFound
      BY DEF Unknown, NotFound
    <3> QED
      BY <1>2, <1>3, <2>1, <2>2, <2>5, <2>6, <3>1, <3>2 DEF LoadInv
  <2>8. IndexInv'
    <3>1. Loading \in 0..Loading /\ Loading \notin 1..Listing
      BY CandidatesAre
    <3> QED
      BY <1>1, <1>2, <2>1, <2>4, <3>1, QuietKeeps DEF RemoteInv, IndexInv
  <2>9. AsksInv' /\ FailureInv'
    BY <1>3, <2>1 DEF AsksInv, FailureInv
  <2>10. TodoInv'
    BY <1>2, <1>3, <2>1 DEF RemoteInv, TodoInv
  <2> QED
    BY <1>3, <2>1, <2>7, <2>8, <2>9, <2>10, QuietKeeps DEF RemoteInv
<1> QED
  BY <1>5, <1>6

LEMMA TakeWholeKeeps ==
    ASSUME RemoteInv, Quiet, Whole \in DOMAIN asks, phase \in 1..Len(Candidates),
           NEW result, ListOf(Whole, result), TakeWhole(result)
    PROVE  RemoteInv'
<1>1. /\ answer = NoAnswer /\ todo # <<>> /\ Head(todo) \in {"catalog", "describe"} /\ phase # 0 /\ phase # Loading
  BY AskedIs, CandidatesAre
<1>2. UNCHANGED <<bucket, req, via, changes, held, always, ever>> /\ (settled' => settled)
  BY DEF Quiet, Outside
<1>3. UNCHANGED <<failure, bytes, found>> /\ DOMAIN asks' = {} /\ phase' = 0
  BY DEF TakeWhole, NoAsks
<1>4. Unavailable # NotFound
  BY DEF Unavailable, NotFound
<1>5. CASE result = Unavailable
  <2>1. CatalogFails(Unavailable) /\ catalog' = catalog
    BY <1>5 DEF TakeWhole
  <2>2. AnswerInv' /\ TodoInv' /\ FailureInv'
    BY <1>1, <1>3, <1>4, <2>1, CatalogFailsKeeps
  <2> QED
    BY <1>3, <2>1, <2>2, IdleKeeps, QuietKeeps DEF RemoteInv
<1>6. CASE result # Unavailable
  <2>1. catalog' = Plain(result.names) /\ todo' = Tail(todo) /\ answer' = answer
    BY <1>6 DEF TakeWhole
  <2>2. result.names = Catalogue(bucket)
    BY <1>6, CandidatesAre DEF ListOf
  <2>3. catalog'.skills = Catalogue(bucket) /\ catalog' # Unknown
    <3>1. catalog' = [skills |-> result.names, complete |-> {}, resources |-> NoAsks]
      BY <2>1 DEF Plain
    <3>2. DOMAIN Unknown = {"is"}
      BY DEF Unknown
    <3>3. "skills" \in DOMAIN catalog'
      BY <3>1
    <3> QED
      BY <2>2, <3>1, <3>2, <3>3
  <2>4. ~HasIndex(bucket) => \A s \in Catalogue(bucket) : WasReadable(s)
    BY CatalogueIsReadable DEF RemoteInv
  <2>5. always \subseteq Catalogue(bucket) /\ Catalogue(bucket) \subseteq ever
    BY OfferedIs DEF RemoteInv, HistoryInv
  <2>6. CatalogInv'
    BY <1>2, <2>3, <2>4, <2>5, QuietKeeps DEF CatalogInv
  <2>7. TodoInv'
    BY <1>1, <1>3, <2>1, <2>3, TailKeeps
  <2>8. FailureInv'
    BY <1>1, <1>3, FailureKeeps
  <2> QED
    BY <1>3, <2>1, <2>6, <2>7, <2>8, IdleKeeps, QuietKeeps DEF RemoteInv
<1> QED
  BY <1>5, <1>6

LEMMA TakeLoadedKeeps ==
    ASSUME RemoteInv, Quiet, NEW k \in DOMAIN asks, phase = Loading,
           NEW result, Got(k, result), TakeLoaded(k, result)
    PROVE  RemoteInv'
<1>1. /\ answer = NoAnswer /\ todo # <<>> /\ Loading \notin 1..Listing /\ Loading # 0
      /\ Loading \notin 1..Len(Candidates) /\ Loading # Listing
  BY AskedIs, CandidatesAre
<1>2. UNCHANGED <<bucket, req, via, changes, held, always, ever>> /\ (settled' => settled)
  BY DEF Quiet, Outside
<1>3. UNCHANGED <<todo, phase, listed, rest, catalog, found, answer>>
  BY DEF TakeLoaded
<1>4. /\ DOMAIN asks' = DOMAIN asks \ {k}
      /\ \A j \in DOMAIN asks' : asks'[j] = asks[j]
  BY DEF TakeLoaded, Without
<1>5. PICK s \in listed : k = SkillMd(s)
  BY DEF RemoteInv, AsksInv, AskFor
<1>6. Unavailable # NotFound /\ Unknown \notin {Unavailable, NotFound}
  BY DEF Unavailable, NotFound, Unknown
<1>7. AsksInv'
  <2> SUFFICES ASSUME NEW j \in DOMAIN asks' PROVE AskFor(j)'
    BY DEF AsksInv
  <2>1. AskFor(j)
    BY <1>4 DEF RemoteInv, AsksInv
  <2> QED
    BY <1>1, <1>2, <1>3, <1>4, <2>1 DEF AskFor
<1>8. IndexInv'
  BY <1>1, <1>2, <1>3, QuietKeeps DEF RemoteInv, IndexInv
<1>9. TodoInv' /\ FailureInv'
  BY <1>2, <1>3 DEF RemoteInv, TodoInv, FailureInv
<1>10. LoadInv
  BY DEF RemoteInv
<1>11. CASE result \in {Unavailable, NotFound}
  <2>1. failure' = (IF failure = Unknown THEN result ELSE failure) /\ bytes' = bytes
    BY <1>11 DEF TakeLoaded, MapError
  <2>2. result = NotFound => WasMissing(k)'
    <3>1. k \in Keys => ContentOK(k, bucket[k])
      BY HeldIs DEF RemoteInv
    <3> QED
      BY <1>6, <3>1, ContentIs DEF Got, WasMissing, SaidMissing
  <2>3. failure' # Unknown /\ failure' \in {Unavailable, NotFound}
    BY <1>6, <1>10, <1>11, <2>1 DEF LoadInv
  <2>4. failure' = NotFound => \E z \in listed : WasMissing(SkillMd(z))'
    BY <1>5, <1>10, <2>1, <2>2, QuietKeeps DEF LoadInv
  <2>5. LoadInv'
    BY <1>2, <1>3, <1>10, <2>3, <2>4, QuietKeeps DEF LoadInv
  <2> QED
    BY <1>3, <1>7, <1>8, <1>9, <2>1, <2>5, QuietKeeps DEF RemoteInv
<1>12. CASE result \notin {Unavailable, NotFound}
  <2>1. bytes' = Set(bytes, k, result) /\ failure' = failure
    BY <1>12 DEF TakeLoaded, CacheKey
  <2>2. k \in Keys /\ result = bucket[k] /\ bucket[k] # Absent
    BY <1>12 DEF Got
  <2>3. /\ DOMAIN bytes' = DOMAIN bytes \cup {k} /\ bytes'[k] = result
        /\ \A j \in DOMAIN bytes : j # k => bytes'[j] = bytes[j]
    BY <2>1 DEF Set
  <2>4. BytesInv'
    <3>1. <<k, bucket[k]>> \in held
      BY <2>2, HeldIs DEF RemoteInv
    <3> QED
      BY <1>2, <2>2, <2>3, <3>1 DEF RemoteInv, BytesInv
  <2>5. \A z \in listed \ rest : SkillMd(z) \in DOMAIN asks' \cup DOMAIN bytes' \/ failure # Unknown
    BY <1>4, <1>10, <2>3 DEF LoadInv
  <2>6. LoadInv'
    BY <1>2, <1>3, <1>10, <2>1, <2>5, QuietKeeps DEF LoadInv
  <2> QED
    BY <1>3, <1>7, <1>8, <1>9, <2>4, <2>6, QuietKeeps DEF RemoteInv
<1> QED
  BY <1>11, <1>12

LEMMA TakeObjectsKeeps ==
    ASSUME RemoteInv, Quiet, Objects(req.skill) \in DOMAIN asks, phase = 0,
           NEW result, TakeObjects(result), result = NotFound => SaidMissing(Objects(req.skill))'
    PROVE  RemoteInv'
<1>1. /\ answer = NoAnswer /\ todo # <<>> /\ AskFor(Objects(req.skill)) /\ RequestOK(req) /\ TodoOK(req, todo)
      /\ Head(todo) \notin {"catalog", "describe", "visible"}
  BY AskedIs
<1>2. Wanted(req) # Objects(req.skill)
  <2>1. Len(Wanted(req)) = 2 /\ Len(Objects(req.skill)) = 3
    BY DEF Wanted, Objects, SkillMd
  <2> QED
    BY <2>1
<1>3. Head(todo) \in {"exists", "resources", "objects"}
  BY <1>1, <1>2 DEF AskFor
<1>4. req.kind = "resources"
  BY <1>1, <1>3, TodoStep
<1>5. UNCHANGED <<phase, failure, bytes, catalog>> /\ DOMAIN asks' = {}
  BY DEF TakeObjects, NoAsks
<1>6. CASE result \in {Unavailable, NotFound} /\ Fail(result) /\ found' = found
  <2>1. result = NotFound => NotFoundCause'
    BY DEF NotFoundCause, Quiet, Outside
  <2>2. AnswerInv' /\ TodoInv' /\ FailureInv'
    BY <1>6, <2>1, FailKeeps
  <2> QED
    BY <1>5, <2>2, IdleKeeps, QuietKeeps DEF RemoteInv
<1>7. CASE todo' = Tail(todo) /\ answer' = answer
  <2>1. TodoInv'
    BY <1>1, <1>3, <1>4, <1>5, <1>7, TailKeeps
  <2> QED
    BY <1>1, <1>5, <1>7, <2>1, IdleKeeps, QuietKeeps DEF RemoteInv
<1> QED
  BY <1>6, <1>7 DEF TakeObjects

LEMMA TakeBytesKeeps ==
    ASSUME RemoteInv, Quiet, NEW k \in DOMAIN asks, phase = 0, k # Objects(req.skill),
           NEW result, Got(k, result), TakeBytes(k, result)
    PROVE  RemoteInv'
<1>1. /\ answer = NoAnswer /\ todo # <<>> /\ AskFor(k) /\ RequestOK(req) /\ TodoOK(req, todo)
  BY AskedIs
<1>2. \/ Head(todo) = "bytes" /\ k = Wanted(req)
      \/ Head(todo) = "exists" /\ k = SkillMd(req.skill)
  BY <1>1 DEF AskFor
<1>3. k = Wanted(req)
  <2>1. CASE Head(todo) = "exists"
    <3>1. req.kind = "resources"
      BY <1>1, <2>1, TodoStep
    <3> QED
      BY <1>2, <2>1, <3>1 DEF Wanted
  <2> QED
    BY <1>2, <2>1
<1>4. UNCHANGED <<phase, failure, catalog>> /\ DOMAIN asks' = {}
  BY DEF TakeBytes, NoAsks
<1>5. CASE result \in {Unavailable, NotFound}
  <2>1. Fail(result) /\ bytes' = bytes /\ found' = found
    BY <1>5 DEF TakeBytes, MapError
  <2>2. ASSUME result = NotFound PROVE NotFoundCause'
    <3>1. k \in Keys => ContentOK(k, bucket[k])
      BY HeldIs DEF RemoteInv
    <3>2. Unavailable # NotFound
      BY DEF Unavailable, NotFound
    <3>3. WasMissing(k)'
      BY <2>2, <3>1, <3>2, ContentIs DEF Got, WasMissing, SaidMissing
    <3>4. Wanted(req)' = k
      BY <1>3 DEF Quiet, Outside
    <3> QED
      BY <3>3, <3>4 DEF NotFoundCause
  <2>3. AnswerInv' /\ TodoInv' /\ FailureInv'
    BY <1>5, <2>1, <2>2, FailKeeps
  <2> QED
    BY <1>4, <2>1, <2>3, IdleKeeps, QuietKeeps DEF RemoteInv
<1>6. CASE result \notin {Unavailable, NotFound}
  <2>1. bytes' = Set(bytes, k, result) /\ found' = result /\ todo' = Tail(todo) /\ answer' = answer
    BY <1>6 DEF TakeBytes, CacheKey
  <2>2. k \in Keys /\ result = bucket[k] /\ bucket[k] # Absent
    BY <1>6 DEF Got
  <2>3. <<k, result>> \in held
    BY <2>2, HeldIs DEF RemoteInv
  <2>4. /\ DOMAIN bytes' = DOMAIN bytes \cup {k} /\ bytes'[k] = result
        /\ \A j \in DOMAIN bytes : j # k => bytes'[j] = bytes[j]
    BY <2>1 DEF Set
  <2>5. BytesInv'
    <3>1. held' = held
      BY DEF Quiet, Outside
    <3> QED
      BY <2>2, <2>3, <2>4, <3>1 DEF RemoteInv, BytesInv
  <2>6. TodoInv'
    BY <1>1, <1>2, <1>3, <1>4, <2>1, <2>3, FoundKeeps
  <2> QED
    BY <1>1, <1>4, <2>1, <2>5, <2>6, IdleKeeps, QuietKeeps DEF RemoteInv
<1> QED
  BY <1>5, <1>6

\* What a GET may bring is taken where it was asked for.
LEMMA TakingKeeps ==
    ASSUME RemoteInv, Quiet, NEW k \in DOMAIN asks, NEW result, Take(k, result),
           k \notin {Names, Whole, Objects(req.skill)} => Got(k, result),
           k \in {Names, Whole, Objects(req.skill)} =>
               \/ ListOf(k, result)
               \/ k = Objects(req.skill) /\ result = NotFound /\ SaidMissing(k)'
    PROVE  RemoteInv'
<1>1. AskFor(k) /\ phase \in 0..Loading /\ via \in {"gcs", "proxy"} /\ RequestOK(req) /\ todo # <<>> /\ TodoOK(req, todo)
  BY AskedIs
<1>2. Names # Whole /\ Objects(req.skill) \notin {Names, Whole}
  BY CandidatesAre
<1>3. CASE phase = Loading
  <2>1. \E s \in listed : k = SkillMd(s)
    BY <1>1, <1>3 DEF AskFor
  <2>2. k \notin {Names, Whole, Objects(req.skill)}
    BY <2>1, CandidatesAre
  <2>3. TakeLoaded(k, result)
    BY <1>3 DEF Take
  <2> QED
    BY <1>3, <2>2, <2>3, TakeLoadedKeeps
<1>4. CASE phase = 0
  <2>1. phase # Loading
    BY <1>4, CandidatesAre
  <2>2. CASE k = Objects(req.skill)
    <3>1. TakeObjects(result)
      BY <1>4, <2>1, <2>2 DEF Take
    <3>2. result = NotFound => SaidMissing(Objects(req.skill))'
      <4>1. NotFound.is = "not found" /\ Unavailable.is = "unavailable"
        BY DEF NotFound, Unavailable
      <4>2. SaidMissing(k)' => SaidMissing(Objects(req.skill))'
        BY <2>2 DEF SaidMissing, Quiet, Outside
      <4>3. result = NotFound => ~ListOf(k, result)
        BY <2>2, <4>1, CandidatesAre DEF ListOf
      <4> QED
        BY <2>2, <4>2, <4>3
    <3> QED
      BY <1>4, <2>2, <3>1, <3>2, TakeObjectsKeeps
  <2>3. CASE k # Objects(req.skill)
    <3>1. TakeBytes(k, result)
      BY <1>4, <2>1, <2>3 DEF Take
    <3>2. k \notin {Names, Whole}
      <4>1. /\ Head(todo) = "bytes" => req.kind \in {"read", "file"}
            /\ Head(todo) = "exists" => req.kind = "resources"
        BY <1>1, TodoStep
      <4>2. k = Wanted(req) \/ k = SkillMd(req.skill)
        BY <1>1, <1>4, <2>3 DEF AskFor
      <4>3. req.skill # "" /\ req.sibling # ""
        BY <1>1, <1>4, <2>3, <4>1 DEF AskFor, RequestOK
      <4>4. Wanted(req)[1] # "" /\ SkillMd(req.skill)[1] # ""
        BY <4>3 DEF Wanted, SkillMd
      <4>5. Names[1] = "" /\ Whole[1] = ""
        BY DEF Names, Whole
      <4> QED
        BY <4>2, <4>4, <4>5
    <3> QED
      BY <1>4, <2>3, <3>1, <3>2, TakeBytesKeeps
  <2> QED
    BY <2>2, <2>3
<1>5. CASE phase = Listing
  <2>1. k = Names /\ phase # Loading /\ phase # 0
    BY <1>1, <1>5, CandidatesAre DEF AskFor
  <2>2. TakeNames(result)
    BY <1>2, <2>1 DEF Take
  <2> QED
    <3>1. ListOf(Names, result)
      BY <1>2, <2>1
    <3> QED
      BY <1>5, <2>1, <2>2, <3>1, TakeNamesKeeps
<1>6. CASE phase \in 1..Len(Candidates)
  <2>1. phase # Loading /\ phase # 0 /\ phase \in DOMAIN Candidates
    BY <1>6, CandidatesAre
  <2>2. CASE via = "proxy" /\ k = Whole
    <3>1. TakeWhole(result)
      BY <2>1, <2>2 DEF Take
    <3> QED
      BY <1>2, <1>6, <2>2, <3>1, TakeWholeKeeps
  <2>3. CASE k = Candidates[phase]
    <3>1. k \in Indexes
      BY <2>1, <2>3 DEF Indexes
    <3>2. k \notin {Names, Whole, Objects(req.skill)}
      BY <3>1, CandidatesAre
    <3>3. TakeIndex(result)
      BY <2>1, <3>2 DEF Take
    <3> QED
      BY <1>6, <2>3, <3>2, <3>3, TakeIndexKeeps
  <2> QED
    BY <1>1, <1>6, <2>2, <2>3 DEF AskFor
<1>7. phase = Loading \/ phase = 0 \/ phase = Listing \/ phase \in 1..Len(Candidates)
  BY <1>1, CandidatesAre
<1> QED
  BY <1>3, <1>4, <1>5, <1>6, <1>7

LEMMA GetKeeps ==
    ASSUME RemoteInv, NEW k \in DOMAIN asks, Get(k)
    PROVE  RemoteInv'
<1>1. Quiet /\ Take(k, ReadNow(k))
  BY RestIsQuiet DEF Get
<1>2. k \notin {Names, Whole, Objects(req.skill)} => Got(k, ReadNow(k))
  BY <1>1, ReadNowIs DEF RemoteInv
<1>3. k \in {Names, Whole, Objects(req.skill)} => ListOf(k, ReadNow(k))
  BY CandidatesAre DEF ListOf, ReadNow
<1> QED
  BY <1>1, <1>2, <1>3, TakingKeeps

LEMMA GetFailsKeeps ==
    ASSUME RemoteInv, NEW k \in DOMAIN asks, GetFails(k)
    PROVE  RemoteInv'
<1>1. Quiet /\ Take(k, Unavailable)
  BY RestIsQuiet DEF GetFails
<1> QED
  BY <1>1, TakingKeeps DEF Got, ListOf

LEMMA GetRefusedKeeps ==
    ASSUME RemoteInv, NEW k \in DOMAIN asks, GetRefused(k)
    PROVE  RemoteInv'
<1>1. /\ Outside /\ Take(k, Refusal(k)) /\ refused' = refused \cup {k}
      /\ settled' = (settled /\ k \notin Indexes)
  BY DEF GetRefused
<1>2. Quiet
  BY <1>1 DEF Quiet
<1>3. SaidMissing(k)' /\ WasMissing(k)'
  BY <1>1 DEF SaidMissing, WasMissing
<1>4. k \notin {Names, Whole, Objects(req.skill)} => Got(k, Refusal(k))
  <2>1. k \in Indexes => ~settled'
    BY <1>1
  <2>2. k \in refused'
    BY <1>1
  <2> QED
    BY <2>1, <2>2 DEF Got, Refusal
<1>5. k \in {Names, Whole, Objects(req.skill)} =>
          ListOf(k, Refusal(k)) \/ (k = Objects(req.skill) /\ Refusal(k) = NotFound /\ SaidMissing(k)')
  BY <1>3 DEF ListOf, Refusal
<1> QED
  BY <1>1, <1>2, <1>4, <1>5, TakingKeeps

LEMMA RetryKeeps ==
    ASSUME RemoteInv, NEW k \in DOMAIN asks, Retry(k)
    PROVE  RemoteInv'
<1>1. /\ Quiet /\ asks' = [asks EXCEPT ![k] = @ + 1]
      /\ UNCHANGED <<todo, phase, listed, rest, failure, bytes, catalog, found, answer>>
  BY RestIsQuiet DEF Retry, Again
<1>2. asks[k] + 1 # MaxAttempts
  BY RestIsQuiet DEF Retry, TransientFails
<1>3. UNCHANGED <<bucket, req, via, changes, held, always, ever>> /\ (settled' => settled)
  BY <1>1 DEF Quiet, Outside
<1>4. DOMAIN asks' = DOMAIN asks
  BY <1>1
<1>5. AsksInv'
  <2> SUFFICES ASSUME NEW j \in DOMAIN asks' PROVE AskFor(j)'
    BY DEF AsksInv
  <2>1. AskFor(j)
    BY <1>4 DEF RemoteInv, AsksInv
  <2>2. asks'[j] \in 0..(MaxAttempts - 1)
    <3>1. asks[j] \in 0..(MaxAttempts - 1)
      BY <2>1 DEF AskFor
    <3>2. CASE j = k
      BY <1>1, <1>2, <3>1, <3>2, CandidatesAre
    <3>3. CASE j # k
      BY <1>1, <1>4, <3>1, <3>3
    <3> QED
      BY <3>2, <3>3
  <2> QED
    BY <1>1, <1>3, <2>1, <2>2 DEF AskFor
<1>6. IndexInv'
  BY <1>1, <1>3, <1>4, QuietKeeps DEF RemoteInv, IndexInv
<1>7. LoadInv'
  BY <1>1, <1>3, <1>4, QuietKeeps DEF RemoteInv, LoadInv
<1>8. TodoInv' /\ FailureInv'
  BY <1>1, <1>3 DEF RemoteInv, TodoInv, FailureInv
<1> QED
  BY <1>1, <1>5, <1>6, <1>7, <1>8, QuietKeeps DEF RemoteInv

-----------------------------------------------------------------------------
(* Others change the bucket while a request runs.                           *)

LEMMA ChangeKeeps ==
    ASSUME RemoteInv, NEW c \in Changes, Change(c[1], c[2])
    PROVE  RemoteInv'
<1> DEFINE k == c[1]
<1>1. /\ answer = NoAnswer /\ changes < MaxChanges /\ bucket' = [bucket EXCEPT ![k] = c[2]]
      /\ changes' = changes + 1 /\ held' = held \cup {<<k, c[2]>>}
      /\ always' = always \cap Catalogue(bucket') /\ ever' = ever \cup Offered(bucket')
      /\ settled' = (settled /\ k \notin Indexes)
      /\ UNCHANGED <<req, via, todo, phase, asks, listed, rest, failure, authed, bytes, catalog, found, answer, refused>>
  BY DEF Change
<1>2. k \in Keys /\ ContentOK(k, c[2])
  BY RemoteSkillsAssumption DEF RemoteSkillsAssumption, RemoteInv, HistoryInv
<1> HIDE DEF k
<1>3. Keys' = Keys /\ bucket'[k] = c[2] /\ \A j \in Keys : j # k => bucket'[j] = bucket[j]
  BY <1>1, <1>2 DEF Keys
<1>4. held \subseteq held'
  BY <1>1
<1>5. /\ \A j : (WasMissing(j) => WasMissing(j)') /\ (WasNoIndex(j) => WasNoIndex(j)')
      /\ \A s : (WasFolder(s) => WasFolder(s)') /\ (WasReadable(s) => WasReadable(s)')
  BY <1>1, <1>3, <1>4 DEF WasMissing, WasNoIndex, WasFolder, WasReadable, SaidMissing
<1>6. always' \subseteq always /\ ever \subseteq ever' /\ (settled' => settled /\ k \notin Indexes)
  BY <1>1
<1>7. HistoryInv'
  <2>1. changes' \in 0..MaxChanges
    BY <1>1, RemoteSkillsAssumption DEF RemoteInv, HistoryInv, RemoteSkillsAssumption
  <2>2. BucketOK(bucket)' /\ \A d \in Changes : d[1] \in Keys'
    BY <1>2, <1>3 DEF RemoteInv, HistoryInv, BucketOK, Keys
  <2>3. Holdings'
    <3>1. \A j \in Keys' : <<j, bucket'[j]>> \in held'
      BY <1>1, <1>3 DEF RemoteInv, HistoryInv, Holdings
    <3>2. \A h \in held' : \E j \in Keys' : h[1] = j /\ h = <<j, h[2]>> /\ ContentOK(j, h[2])
      <4>1. <<k, c[2]>>[1] = k /\ <<k, c[2]>>[2] = c[2]
        OBVIOUS
      <4> QED
        BY <1>1, <1>2, <1>3, <4>1 DEF RemoteInv, HistoryInv, Holdings
    <3> QED
      BY <3>1, <3>2 DEF Holdings
  <2> QED
    BY <1>1, <2>1, <2>2, <2>3 DEF RemoteInv, HistoryInv
<1>8. BytesInv'
  BY <1>1, <1>4 DEF RemoteInv, BytesInv
<1>9. ASSUME settled', NEW i \in DOMAIN Candidates PROVE bucket'[Candidates[i]] = bucket[Candidates[i]]
  <2>1. Candidates[i] \in Keys /\ Candidates[i] # k
    BY <1>6, <1>9, HeldIs DEF RemoteInv, Indexes
  <2> QED
    BY <1>3, <2>1
<1>10. IndexInv'
  <2>1. \A i \in DOMAIN Candidates : i < phase =>
            WasNoIndex(Candidates[i])' /\ (settled' => bucket'[Candidates[i]].is # "index")
    BY <1>5, <1>6, <1>9 DEF RemoteInv, IndexInv
  <2> QED
    BY <1>1, <2>1 DEF RemoteInv, IndexInv
<1>11. AsksInv'
  <2> SUFFICES ASSUME NEW j \in DOMAIN asks' PROVE AskFor(j)'
    BY DEF AsksInv
  <2>1. AskFor(j)
    BY <1>1 DEF RemoteInv, AsksInv
  <2> QED
    BY <1>1, <2>1 DEF AskFor
<1>12. LoadInv'
  <2>1. LoadInv
    BY DEF RemoteInv
  <2> QED
    BY <1>1, <1>5, <1>6, <2>1 DEF LoadInv
<1>13. CatalogInv'
  <2>1. settled' => (HasIndex(bucket)' <=> HasIndex(bucket))
    <3>1. \A j \in Indexes : j \in Keys
      BY HeldIs DEF RemoteInv
    <3> QED
      BY <1>3, <1>6, <3>1 DEF HasIndex
  <2> QED
    BY <1>1, <1>5, <1>6, <2>1 DEF RemoteInv, CatalogInv
<1>14. TodoInv' /\ FailureInv'
  BY <1>1, <1>4 DEF RemoteInv, TodoInv, FailureInv
<1>15. AnswerInv'
  <2>1. answer' = NoAnswer /\ answer'.status = 0
    BY <1>1 DEF NoAnswer
  <2> QED
    BY <2>1 DEF AnswerInv, ServedIsOwn, CatalogueTrue, NotFoundForCause, Ok
<1> QED
  BY <1>7, <1>8, <1>10, <1>11, <1>12, <1>13, <1>14, <1>15 DEF RemoteInv

LEMMA NextKeeps ==
    ASSUME RemoteInv, [RemoteNext]_remoteVars
    PROVE  RemoteInv'
<1>1. CASE Steps
  <2>1. CASE \E k \in DOMAIN asks : Get(k) \/ GetFails(k) \/ GetRefused(k) \/ Retry(k)
    BY <2>1, GetKeeps, GetFailsKeeps, GetRefusedKeeps, RetryKeeps
  <2> QED
    BY <1>1, <2>1, AskCatalogKeeps, CheckVisibleKeeps, AskBytesKeeps, ListResourcesKeeps, ListObjectsKeeps,
       LoadNextKeeps, LoadEndsKeeps, AnsweringKeeps DEF Steps
<1>2. CASE \E c \in Changes : Change(c[1], c[2])
  BY <1>2, ChangeKeeps
<1>3. CASE UNCHANGED remoteVars
  <2>1. /\ UNCHANGED <<bucket, req, via, changes, held, always, ever>> /\ (settled' => settled)
        /\ UNCHANGED <<todo, phase, asks, listed, rest, failure, bytes, catalog, found, answer>>
    BY <1>3 DEF remoteVars
  <2>2. Quiet
    BY <1>3, <2>1 DEF Quiet, Outside, remoteVars
  <2>3. AsksInv'
    <3> SUFFICES ASSUME NEW j \in DOMAIN asks' PROVE AskFor(j)'
      BY DEF AsksInv
    <3>1. AskFor(j)
      BY <2>1 DEF RemoteInv, AsksInv
    <3> QED
      BY <2>1, <3>1 DEF AskFor
  <2>4. IndexInv' /\ LoadInv' /\ TodoInv' /\ FailureInv'
    BY <2>1, <2>2, QuietKeeps DEF RemoteInv, IndexInv, LoadInv, TodoInv, FailureInv
  <2> QED
    BY <2>1, <2>2, <2>3, <2>4, QuietKeeps DEF RemoteInv
<1> QED
  BY <1>1, <1>2, <1>3 DEF RemoteNext

LEMMA RemoteInvAlways == RemoteSpec => []RemoteInv
<1> QED
  BY InitKeeps, NextKeeps, PTL DEF RemoteSpec

\* A request of core/skillati.rs asks for no file more often than GCS_MAX_ATTEMPTS allows,
\* goes through its candidates in order, and ends with a status of its handler.
THEOREM RemoteTypeCorrect == RemoteSpec => []RemoteTypeOK
<1>1. ASSUME RemoteInv PROVE RemoteTypeOK
  <2>1. req \in SkillRequests /\ changes \in 0..MaxChanges /\ phase \in 0..Loading
    BY <1>1 DEF RemoteInv, HistoryInv, IndexInv
  <2>2. ASSUME NEW k \in DOMAIN asks PROVE asks[k] < MaxAttempts
    <3>1. asks[k] \in 0..(MaxAttempts - 1) /\ MaxAttempts \in Nat
      BY <1>1, <2>2, RemoteSkillsAssumption DEF RemoteInv, AsksInv, AskFor, RemoteSkillsAssumption
    <3> QED
      BY <3>1
  <2>3. answer.status \in {0, 200, 400, 404, 502}
    <3>1. NoAnswer.status = 0
      BY DEF NoAnswer
    <3> QED
      BY <1>1, <3>1 DEF RemoteInv, AnswerInv
  <2> QED
    BY <2>1, <2>2, <2>3 DEF RemoteTypeOK
<1> QED
  BY <1>1, RemoteInvAlways, PTL

\* Bytes are those of the file that was asked for, as the bucket held it at some moment of
\* the request, whatever is replaced meanwhile (read_path and read_bytes of skillati.rs).
THEOREM BytesAreTheFiles == RemoteSpec => []ServedIsOwn
<1>1. RemoteInv => ServedIsOwn
  BY DEF RemoteInv, AnswerInv
<1> QED
  BY <1>1, RemoteInvAlways, PTL

\* While indexes stand or none is there, a catalogue misses no skill that was there all
\* along, and shows none that was never listed or never readable, in any order in which the
\* readings of the fall-back end, fail and are retried (load_catalog_fallback).
THEOREM CataloguesAreTrue == RemoteSpec => []CatalogueTrue
<1>1. RemoteInv => CatalogueTrue
  BY DEF RemoteInv, AnswerInv
<1> QED
  BY <1>1, RemoteInvAlways, PTL

\* Nobody is told "not found" because GCS or the other proxy was out of reach, slow or broken:
\* it takes an absence, or a 404 that another gave for that very key (map_gcs_error,
\* access_token of gcs.rs, visible_skill_names_with_remote of server.rs).
THEOREM NotFoundsHaveCause == RemoteSpec => []NotFoundForCause
<1>1. RemoteInv => NotFoundForCause
  BY DEF RemoteInv, AnswerInv
<1> QED
  BY <1>1, RemoteInvAlways, PTL

-----------------------------------------------------------------------------
(* The tokens of OAUTH2_CACHE                                               *)

\* A token of the server: its end, and the end that a client may count on from when it
\* was given, which is the same where a lifetime was stated.
GivenTokens == {d \in [dies : Nat, counted : Nat, stated : BOOLEAN] :
                  d.stated => d.counted = d.dies}

\* What is known of a call k at time t, when d are the tokens given: an exchange is
\* never older than its limit, and a token that is under way was given since the
\* exchange began; a token that was taken out of the cache had not come to the end
\* that it was counted on.
Known(k, t, d) ==
    /\ k.at = "exchange" =>
         /\ k.asked \in ToolCalls
         /\ k.since \in Nat /\ k.since <= t /\ t <= k.since + ExchangeLimit
         /\ k.token # NoToken =>
              /\ k.token \in 1..Len(d) /\ k.life \in Nat
              /\ d[k.token].counted >= k.since + k.life
    /\ k.at = "sent" =>
         (k.cached => k.token \in 1..Len(d) /\ k.since < d[k.token].counted)

\* The expiry of a cache entry is at most one exchange later than the end its token
\* was counted on.
Trusted(e, d) ==
    e.token # NoToken =>
        /\ e.token \in 1..Len(d) /\ e.until \in Nat
        /\ e.until <= d[e.token].counted + ExchangeLimit

TokenInv ==
    /\ now \in Nat
    /\ tokens \in Seq(GivenTokens)
    /\ DOMAIN cache = HttpProviders
    /\ DOMAIN call = HttpCalls
    /\ \A p \in HttpProviders : Trusted(cache[p], tokens)
    /\ \A c \in HttpCalls : Known(call[c], now, tokens)

AskedOK == \A a \in ToolCalls : a.provider \in HttpProviders

LEMMA TokensInit == ASSUME HttpAssumption, HttpInit PROVE TokenInv
  BY DEF HttpInit, TokenInv, Trusted, Known, NotCalled, NoToken

\* A call goes to a state of which all is known, and nothing else moves.
LEMMA TokensMoves ==
    ASSUME TokenInv, UNCHANGED <<now, cache, tokens>>, NEW c \in HttpCalls,
           DOMAIN call' = HttpCalls,
           \A d \in HttpCalls \ {c} : call'[d] = call[d],
           Known(call'[c], now, tokens)
    PROVE  TokenInv'
<1>1. \A d \in HttpCalls : Known(call'[d], now, tokens)
  BY DEF TokenInv
<1> QED
  BY <1>1 DEF TokenInv

\* An end of a call that leaves the tokens alone.
LEMMA TokensEnds ==
    ASSUME TokenInv, UNCHANGED <<now, cache, tokens>>, NEW c \in HttpCalls, NEW how \in HttpEnded,
           TokenEnds(c, how)
    PROVE  TokenInv'
<1>1. call'[c] = [at |-> how] /\ DOMAIN call' = HttpCalls /\ \A d \in HttpCalls \ {c} : call'[d] = call[d]
  BY DEF TokenEnds, TokenInv
<1>2. call'[c].at \notin {"exchange", "sent"}
  <2>1. how \notin {"exchange", "sent"}
    BY Zenon DEF HttpEnded
  <2>2. call'[c] = [at |-> how]
    BY <1>1
  <2>3. ASSUME NEW k, k = [at |-> how]
        PROVE  k.at \notin {"exchange", "sent"}
    BY <2>1, <2>3
  <2> QED
    BY <2>2, <2>3
<1>3. Known(call'[c], now, tokens)
  BY <1>2 DEF Known
<1> QED
  BY <1>1, <1>3, TokensMoves

LEMMA TokensExecute ==
    ASSUME HttpAssumption, AskedOK, TokenInv, NEW c \in HttpCalls, Execute(c)
    PROVE  TokenInv'
<1>0. UNCHANGED <<now, cache, tokens>>
  BY DEF Execute
<1>1. PICK a \in ToolCalls :
        \/ TokenEnds(c, "failed")
        \/ call' = [call EXCEPT ![c] = [at |-> "exchange", asked |-> a, token |-> NoToken,
                                        life |-> 0, since |-> now]]
        \/ SendsCall(c, a, IF Auth[a.provider] = "oauth2" THEN cache[a.provider].token ELSE NoToken,
                     Auth[a.provider] = "oauth2")
           /\ (Auth[a.provider] = "oauth2" => Hit(a.provider))
  BY DEF Execute
<1>2. CASE TokenEnds(c, "failed")
  BY <1>0, <1>2, TokensEnds DEF HttpEnded
<1>3. CASE call' = [call EXCEPT ![c] = [at |-> "exchange", asked |-> a, token |-> NoToken,
                                        life |-> 0, since |-> now]]
  <2>1. Known(call'[c], now, tokens)
    BY <1>3, HttpAssumption DEF Known, TokenInv, HttpAssumption
  <2> QED
    BY <1>0, <1>3, <2>1, TokensMoves DEF TokenInv
<1>4. CASE SendsCall(c, a, IF Auth[a.provider] = "oauth2" THEN cache[a.provider].token ELSE NoToken,
                 Auth[a.provider] = "oauth2")
           /\ (Auth[a.provider] = "oauth2" => Hit(a.provider))
  <2>1. /\ call'[c].at = "sent" /\ call'[c].since = now
        /\ call'[c].cached = (Auth[a.provider] = "oauth2")
        /\ Auth[a.provider] = "oauth2" => call'[c].token = cache[a.provider].token
    BY <1>4 DEF SendsCall, TokenInv
  <2>2. DOMAIN call' = HttpCalls /\ \A d \in HttpCalls \ {c} : call'[d] = call[d]
    BY <1>4 DEF SendsCall, TokenInv
  <2>3. ASSUME Auth[a.provider] = "oauth2"
        PROVE  cache[a.provider].token \in 1..Len(tokens) /\ now < tokens[cache[a.provider].token].counted
    <3>1. a.provider \in HttpProviders
      BY DEF AskedOK
    <3>2. cache[a.provider].token # NoToken /\ now + Margin < cache[a.provider].until
      BY <1>4, <2>3 DEF Hit
    <3>3. Trusted(cache[a.provider], tokens)
      BY <3>1 DEF TokenInv
    <3> DEFINE e == cache[a.provider]
    <3>4. e.token \in 1..Len(tokens) /\ e.until \in Nat /\ e.until <= tokens[e.token].counted + ExchangeLimit
      BY <3>2, <3>3 DEF Trusted
    <3>5. tokens[e.token].counted \in Nat
      BY <3>4 DEF TokenInv, GivenTokens
    <3>6. now \in Nat /\ Margin \in Nat /\ ExchangeLimit \in Nat /\ ExchangeLimit <= Margin
      BY HttpAssumption DEF HttpAssumption, TokenInv
    <3>7. now + Margin < e.until
      BY <3>2
    <3> HIDE DEF e
    <3>8. now < tokens[e.token].counted
      BY <3>4, <3>5, <3>6, <3>7
    <3> QED
      BY <3>4, <3>8 DEF e
  <2>4. Known(call'[c], now, tokens)
    BY <2>1, <2>3 DEF Known
  <2> QED
    BY <1>0, <2>2, <2>4, TokensMoves
<1> QED
  BY <1>1, <1>2, <1>3, <1>4

\* A token more leaves what is known of the others.
LEMMA OneTokenMore ==
    ASSUME NEW S, NEW d \in Seq(S), NEW n \in S
    PROVE  /\ Append(d, n) \in Seq(S) /\ Len(Append(d, n)) = Len(d) + 1
           /\ \A i \in 1..Len(d) : Append(d, n)[i] = d[i]
           /\ Append(d, n)[Len(d) + 1] = n
           /\ Len(d) \in Nat
  OBVIOUS

LEMMA TokensGives ==
    ASSUME HttpAssumption, TokenInv, NEW c \in HttpCalls, Gives(c)
    PROVE  TokenInv'
<1>1. PICK life \in Lifetimes, stated \in BOOLEAN :
        /\ tokens' = Append(tokens, [dies |-> now + life, counted |-> now + LifeIn(life, stated),
                                     stated |-> stated])
        /\ call' = [call EXCEPT ![c] =
                [at |-> "exchange", asked |-> @.asked, token |-> Len(tokens) + 1,
                 life |-> LifeIn(life, stated), since |-> @.since]]
  BY DEF Gives
<1> DEFINE more == [dies |-> now + life, counted |-> now + LifeIn(life, stated), stated |-> stated]
<1>2. now' = now /\ cache' = cache /\ call[c].at = "exchange"
  BY DEF Gives
<1>3. /\ LifeIn(life, stated) \in Nat /\ now \in Nat /\ tokens \in Seq(GivenTokens)
      /\ now + LifeIn(life, stated) \in Nat /\ more.counted = now + LifeIn(life, stated)
      /\ more \in GivenTokens
  <2>1. life \in Nat /\ Presumed \in Nat /\ now \in Nat /\ tokens \in Seq(GivenTokens)
    BY HttpAssumption DEF HttpAssumption, TokenInv
  <2>2. LifeIn(life, stated) \in Nat /\ (stated => LifeIn(life, stated) = life)
    BY <2>1 DEF LifeIn
  <2>3. /\ more.dies = now + life /\ more.counted = now + LifeIn(life, stated)
        /\ more.stated = stated /\ more \in [dies : Nat, counted : Nat, stated : BOOLEAN]
    BY <2>1, <2>2
  <2>4. more.stated => more.counted = more.dies
    BY <2>2, <2>3
  <2>5. now + LifeIn(life, stated) \in Nat
    BY <2>1, <2>2
  <2> HIDE DEF more
  <2>6. more \in GivenTokens
    BY <2>3, <2>4 DEF GivenTokens
  <2> QED
    BY <2>1, <2>2, <2>3, <2>5, <2>6
<1> HIDE DEF more
<1>4. /\ tokens' \in Seq(GivenTokens) /\ Len(tokens') = Len(tokens) + 1 /\ Len(tokens) \in Nat
      /\ \A i \in 1..Len(tokens) : tokens'[i] = tokens[i]
      /\ tokens'[Len(tokens) + 1] = more
  BY <1>1, <1>3, OneTokenMore DEF more
<1>5. ASSUME NEW p \in HttpProviders
      PROVE  Trusted(cache'[p], tokens')
  <2>1. cache'[p] = cache[p] /\ Trusted(cache[p], tokens)
    BY <1>2 DEF TokenInv
  <2> DEFINE e == cache[p]
  <2>2. Trusted(e, tokens)
    BY <2>1
  <2> HIDE DEF e
  <2>3. Trusted(e, tokens')
    BY <2>2, <1>4 DEF Trusted
  <2> QED
    BY <2>1, <2>3 DEF e
<1>6. ASSUME NEW d \in HttpCalls \ {c}
      PROVE  Known(call'[d], now', tokens')
  <2>1. call'[d] = call[d] /\ Known(call[d], now, tokens)
    BY <1>1 DEF TokenInv
  <2> QED
    BY <2>1, <1>2, <1>4 DEF Known
<1>7. Known(call'[c], now', tokens')
  <2>1. /\ call'[c].at = "exchange" /\ call'[c].asked = call[c].asked
        /\ call'[c].token = Len(tokens) + 1 /\ call'[c].life = LifeIn(life, stated)
        /\ call'[c].since = call[c].since
    BY <1>1 DEF TokenInv
  <2>2. /\ call[c].asked \in ToolCalls /\ call[c].since \in Nat /\ call[c].since <= now
        /\ now <= call[c].since + ExchangeLimit
    BY <1>2 DEF TokenInv, Known
  <2> QED
    BY <2>1, <2>2, <1>2, <1>3, <1>4 DEF Known
<1> QED
  BY <1>1, <1>2, <1>3, <1>4, <1>5, <1>6, <1>7 DEF TokenInv

LEMMA TokensTakes ==
    ASSUME HttpAssumption, AskedOK, TokenInv, NEW c \in HttpCalls, TakesToken(c)
    PROVE  TokenInv'
<1> DEFINE e == call[c]
<1>1. /\ e.at = "exchange" /\ e.token # NoToken /\ now' = now /\ tokens' = tokens
      /\ cache' = Stored(e.asked.provider, e.token, now + e.life)
      /\ SendsCall(c, e.asked, e.token, FALSE)
  BY DEF TakesToken
<1>2. /\ e.asked \in ToolCalls /\ e.since \in Nat /\ e.since <= now /\ now <= e.since + ExchangeLimit
      /\ e.token \in 1..Len(tokens) /\ e.life \in Nat /\ tokens[e.token].counted >= e.since + e.life
  BY <1>1 DEF TokenInv, Known
<1>3. ExchangeLimit \in Nat /\ now \in Nat /\ tokens[e.token].counted \in Nat
  <2>1. tokens \in Seq(GivenTokens) /\ now \in Nat /\ ExchangeLimit \in Nat
    BY HttpAssumption DEF HttpAssumption, TokenInv
  <2> HIDE DEF e
  <2> QED
    BY <2>1, <1>2 DEF GivenTokens
<1> HIDE DEF e
<1>4. now + e.life \in Nat /\ now + e.life <= tokens[e.token].counted + ExchangeLimit
  <2>1. ASSUME NEW n \in Nat, NEW l \in Nat, NEW b \in Nat, NEW m \in Nat, NEW k \in Nat,
               n <= b + m, k >= b + l
        PROVE  n + l \in Nat /\ n + l <= k + m
    BY <2>1
  <2> QED
    BY <2>1, <1>2, <1>3
<1> USE DEF e
<1>5. DOMAIN cache' = HttpProviders /\ \A p \in HttpProviders : Trusted(cache'[p], tokens')
  <2>1. /\ DOMAIN cache' = DOMAIN cache
        /\ \A p \in HttpProviders : cache'[p] = cache[p]
                                    \/ cache'[p] = [token |-> e.token, until |-> now + e.life]
    BY <1>1 DEF Stored, TokenInv
  <2>2. Trusted([token |-> e.token, until |-> now + e.life], tokens)
    BY <1>2, <1>4 DEF Trusted
  <2> QED
    BY <2>1, <2>2, <1>1 DEF TokenInv
<1>6. call'[c].at = "sent" /\ call'[c].cached = FALSE
  BY <1>1 DEF SendsCall, TokenInv
<1>7. DOMAIN call' = HttpCalls /\ \A d \in HttpCalls \ {c} : call'[d] = call[d]
  BY <1>1 DEF SendsCall, TokenInv
<1>8. Known(call'[c], now', tokens')
  BY <1>6 DEF Known
<1> QED
  BY <1>1, <1>5, <1>7, <1>8 DEF TokenInv

LEMMA TokensTick ==
    ASSUME HttpAssumption, TokenInv, Tick
    PROVE  TokenInv'
<1>1. now' = now + 1 /\ UNCHANGED <<cache, tokens, call>> /\ \A c \in HttpCalls : ~Due(c)
  BY DEF Tick
<1>2. ASSUME NEW c \in HttpCalls
      PROVE  Known(call'[c], now', tokens')
  <2>1. Known(call[c], now, tokens) /\ ~Due(c) /\ now \in Nat
    BY <1>1 DEF TokenInv
  <2> QED
    BY <2>1, <1>1, HttpAssumption DEF Known, Due, HttpAssumption
<1> QED
  BY <1>1, <1>2 DEF TokenInv

LEMMA TokensNext ==
    ASSUME HttpAssumption, AskedOK, TokenInv, [HttpNext]_httpVars
    PROVE  TokenInv'
<1>1. CASE Tick
  BY <1>1, TokensTick
<1>2. ASSUME NEW c \in HttpCalls, Execute(c) PROVE TokenInv'
  BY <1>2, TokensExecute
<1>3. ASSUME NEW c \in HttpCalls, Gives(c) PROVE TokenInv'
  BY <1>3, TokensGives
<1>4. ASSUME NEW c \in HttpCalls, TakesToken(c) PROVE TokenInv'
  BY <1>4, TokensTakes
<1>5. ASSUME NEW c \in HttpCalls, ExchangeFails(c) PROVE TokenInv'
  BY <1>5, TokensEnds DEF ExchangeFails, HttpEnded
<1>6. ASSUME NEW c \in HttpCalls, CallTimesOut(c) PROVE TokenInv'
  BY <1>6, TokensEnds DEF CallTimesOut, HttpEnded
<1>7. ASSUME NEW c \in HttpCalls, Answers(c) PROVE TokenInv'
  BY <1>7, TokensEnds DEF Answers
<1>8. CASE UNCHANGED httpVars
  BY <1>8 DEF httpVars, TokenInv
<1> QED
  BY <1>1, <1>2, <1>3, <1>4, <1>5, <1>6, <1>7, <1>8 DEF HttpNext, CallSteps

\* A token out of the cache is alive when a call takes it, for any number of calls
\* that exchange credentials at once, in any order (get_oauth2_token of http.rs), or
\* its server stated no lifetime and it is younger than what the client counts on.
THEOREM CachedTokensLive ==
    ASSUME HttpAssumption, AskedOK
    PROVE  HttpSpec => []TokensAreAlive
<1>1. HttpInit => TokenInv
  BY TokensInit
<1>2. TokenInv /\ [HttpNext]_httpVars => TokenInv'
  BY TokensNext
<1>3. TokenInv => TokensAreAlive
  <2> SUFFICES ASSUME TokenInv, NEW c \in HttpCalls, call[c].at = "sent", call[c].cached
               PROVE  LET t == tokens[call[c].token]
                      IN  call[c].since < t.dies \/ (~t.stated /\ call[c].since < t.counted)
    BY DEF TokensAreAlive
  <2> DEFINE t == tokens[call[c].token]
  <2>1. call[c].token \in 1..Len(tokens) /\ call[c].since < t.counted
    BY DEF TokenInv, Known
  <2>2. t \in GivenTokens
    BY <2>1 DEF TokenInv
  <2>3. t.stated => t.counted = t.dies
    BY <2>2 DEF GivenTokens
  <2> QED
    BY <2>1, <2>3
<1> QED
  BY <1>1, <1>2, <1>3, PTL DEF HttpSpec
=============================================================================
