----------------------------- MODULE StoresProofs -----------------------------
(***************************************************************************)
(* Theorems about two of the stores that a request goes by.                *)
(*                                                                         *)
(* RateLimiter, for any callers, tokens, patterns, limits and bounds:      *)
(* RateTypeOK; a refusal has its cause, whoever overlaps; and the limits hold  *)
(* as long as calls follow each other.                                     *)
(*                                                                         *)
(* LocalSkills, for any directories, contents, manifests, requests and     *)
(* edits: SkillsTypeOK; the passes find the closure of what scopes lead    *)
(* to; a remote catalogue would show no more; texts are their own.         *)
(*                                                                         *)
(* The limiter keeps timestamps and forgets some.  What must survive is    *)
(* said with injections (Places): a record is Within the history if each   *)
(* of its timestamps has a place of its own in the history, and it Covers  *)
(* a set of calls if each call has a place of its own in the record.       *)
(***************************************************************************)
EXTENDS RateLimiter, LocalSkills, FiniteSetTheorems, FunctionTheorems, WellFoundedInduction, TLAPS

\* Every set of naturals that is not empty has a least member.
LEMMA LeastOf ==
    ASSUME NEW T \in SUBSET Nat, T # {}
    PROVE  \E m \in T : \A n \in T : m <= n
<1> DEFINE R == {p \in Nat \X Nat : p[1] < p[2]}
<1>1. IsWellFoundedOn(R, Nat)
  BY NatLessThanWellFounded DEF OpToRel
<1>2. \E m \in T : \A n \in T : ~(<<n, m>> \in R)
  <2> HIDE DEF R
  <2> QED
    BY <1>1, WFMin
<1>3. PICK m \in T : \A n \in T : ~(<<n, m>> \in R)
  BY <1>2
<1>4. ASSUME NEW n \in T PROVE m <= n
  <2>1. <<n, m>> \in R <=> n < m
    OBVIOUS
  <2> QED
    BY <1>3, <2>1
<1> QED
  BY <1>4

\* Induction on the naturals, for a set.
LEMMA AllNaturals ==
    ASSUME NEW S, 0 \in S, \A k \in Nat : k \in S => k + 1 \in S
    PROVE  \A k \in Nat : k \in S
<1> DEFINE T == {k \in Nat : k \notin S}
<1> SUFFICES ASSUME T # {} PROVE FALSE
  OBVIOUS
<1>1. PICK m \in T : \A n \in T : m <= n
  BY LeastOf
<1>2. m \in Nat /\ m # 0
  OBVIOUS
<1>3. m - 1 \in Nat /\ m - 1 \in S
  BY <1>1, <1>2
<1> QED
  BY <1>2, <1>3

\* f is defined on 0..n by recursion: from base, by g.
Recurses(f, X, base, n, g) ==
    /\ f \in [0..n -> X] /\ f[0] = base
    /\ \A i \in 1..n : f[i] = g[<<i, f[i - 1]>>]

\* A function that is defined by recursion on 0..n exists.
LEMMA Recursion ==
    ASSUME NEW X, NEW base \in X, NEW n \in Nat, NEW g \in [(1..n) \X X -> X]
    PROVE  \E f : Recurses(f, X, base, n, g)
<1> USE DEF Recurses
<1> DEFINE Upto(k) == \E f \in [0..k -> X] :
                        f[0] = base /\ \A i \in 1..k : f[i] = g[<<i, f[i - 1]>>]
           S == {k \in Nat : k <= n => Upto(k)}
<1>1. Upto(0)
  <2> WITNESS [i \in 0..0 |-> base] \in [0..0 -> X]
  <2> QED
    OBVIOUS
<1>2. ASSUME NEW k \in Nat, k + 1 <= n, Upto(k) PROVE Upto(k + 1)
  <2>1. PICK f \in [0..k -> X] : f[0] = base /\ \A i \in 1..k : f[i] = g[<<i, f[i - 1]>>]
    BY <1>2
  <2> DEFINE h == [i \in 0..(k + 1) |-> IF i = k + 1 THEN g[<<k + 1, f[k]>>] ELSE f[i]]
  <2>2. g[<<k + 1, f[k]>>] \in X
    <3>1. k + 1 \in 1..n /\ f[k] \in X
      BY <1>2
    <3> QED
      BY <3>1
  <2>3. h \in [0..(k + 1) -> X]
    BY <2>2
  <2>4. h[0] = base
    BY <2>1
  <2>5. ASSUME NEW i \in 1..(k + 1) PROVE h[i] = g[<<i, h[i - 1]>>]
    <3>1. h[i - 1] = f[i - 1]
      OBVIOUS
    <3>2. CASE i = k + 1
      <4>1. i - 1 = k /\ h[i] = g[<<k + 1, f[k]>>]
        BY <3>2
      <4> QED
        BY <3>1, <3>2, <4>1
    <3>3. CASE i # k + 1
      BY <2>1, <3>1, <3>3
    <3> QED
      BY <3>2, <3>3
  <2> QED
    BY <2>3, <2>4, <2>5
<1> HIDE DEF Upto
<1>3. 0 \in S /\ \A k \in Nat : k \in S => k + 1 \in S
  BY <1>1, <1>2
<1>4. n \in S
  <2> HIDE DEF S
  <2> QED
    BY <1>3, AllNaturals
<1> QED
  BY <1>4 DEF Upto

-----------------------------------------------------------------------------
(* Injections into the first naturals                                       *)

\* f gives each member of S a place of its own among the first n.
Places(f, S, n) == f \in [S -> 1..n] /\ \A x, y \in S : x # y => f[x] # f[y]

Extends(f, S, n, x) ==
    \E h : Places(h, S \cup {x}, n + 1) /\ h[x] = n + 1 /\ \A y \in S : h[y] = f[y]
Composes(f, g, S, n) == \E h : Places(h, S, n) /\ \A y \in S : h[y] = g[f[y]]
Restricts(f, S, n) == \E h : Places(h, S, n) /\ \A y \in S : h[y] = f[y]

LEMMA PlacesBound ==
    ASSUME NEW S, NEW n \in Nat, NEW f, Places(f, S, n)
    PROVE  IsFiniteSet(S) /\ Cardinality(S) <= n
<1>1. f \in Injection(S, 1..n)
  <2>1. f \in [S -> 1..n] /\ \A x, y \in S : f[x] = f[y] => x = y
    BY DEF Places
  <2> QED
    BY <2>1, Fun_IsInj
<1>2. IsFiniteSet(1..n) /\ Cardinality(1..n) = n
  BY FS_Interval
<1> QED
  BY <1>1, <1>2, FS_Injection

LEMMA PlacesMore ==
    ASSUME NEW S, NEW n \in Nat, NEW f, Places(f, S, n), NEW x, x \notin S
    PROVE  Extends(f, S, n, x)
<1> DEFINE h == [y \in S \cup {x} |-> IF y = x THEN n + 1 ELSE f[y]]
<1>1. h[x] = n + 1 /\ h = [y \in S \cup {x} |-> h[y]]
  OBVIOUS
<1>2. ASSUME NEW y \in S PROVE h[y] = f[y] /\ f[y] \in Nat /\ 1 <= f[y] /\ f[y] <= n
  <2>1. y # x
    OBVIOUS
  <2> QED
    BY <2>1 DEF Places
<1> HIDE DEF h
<1>3. \A y \in S \cup {x} : h[y] \in 1..(n + 1)
  BY <1>1, <1>2
<1>4. ASSUME NEW y \in S \cup {x}, NEW z \in S \cup {x}, y # z PROVE h[y] # h[z]
  <2>1. CASE y \in S /\ z \in S
    BY <1>2, <1>4, <2>1 DEF Places
  <2>2. CASE y = x /\ z \in S
    BY <1>1, <1>2, <2>2
  <2>3. CASE y \in S /\ z = x
    BY <1>1, <1>2, <2>3
  <2> QED
    BY <1>4, <2>1, <2>2, <2>3
<1>5. Places(h, S \cup {x}, n + 1)
  BY <1>1, <1>3, <1>4 DEF Places
<1> QED
  BY <1>1, <1>2, <1>5 DEF Extends

LEMMA PlacesThrough ==
    ASSUME NEW S, NEW n \in Nat, NEW m \in Nat, NEW f, Places(f, S, n), NEW g, Places(g, 1..n, m)
    PROVE  Composes(f, g, S, m)
<1> DEFINE h == [y \in S |-> g[f[y]]]
<1>1. ASSUME NEW y \in S PROVE f[y] \in 1..n /\ g[f[y]] \in 1..m
  BY DEF Places
<1>2. h \in [S -> 1..m] /\ \A y \in S : h[y] = g[f[y]]
  BY <1>1
<1> HIDE DEF h
<1>3. ASSUME NEW y \in S, NEW z \in S, y # z PROVE h[y] # h[z]
  <2>1. f[y] # f[z] /\ f[y] \in 1..n /\ f[z] \in 1..n
    BY <1>1, <1>3 DEF Places
  <2> QED
    BY <1>2, <2>1 DEF Places
<1>4. Places(h, S, m)
  BY <1>2, <1>3 DEF Places
<1> QED
  BY <1>2, <1>4 DEF Composes

LEMMA PlacesSome ==
    ASSUME NEW S, NEW T \in SUBSET S, NEW n \in Nat, NEW f, Places(f, S, n)
    PROVE  Restricts(f, T, n)
<1> DEFINE h == [y \in T |-> f[y]]
<1>1. h \in [T -> 1..n] /\ \A y \in T : h[y] = f[y]
  BY DEF Places
<1> HIDE DEF h
<1> QED
  BY <1>1 DEF Places, Restricts

LEMMA PlacesWider ==
    ASSUME NEW S, NEW n \in Nat, NEW f, Places(f, S, n)
    PROVE  Places(f, S, n + 1)
<1>1. 1..n \subseteq 1..(n + 1)
  OBVIOUS
<1>2. f \in [S -> 1..(n + 1)]
  BY <1>1 DEF Places
<1> QED
  BY <1>2 DEF Places

LEMMA AppendIs ==
    ASSUME NEW q \in Seq(Nat), NEW x \in Nat
    PROVE  /\ Append(q, x) \in Seq(Nat) /\ Len(Append(q, x)) = Len(q) + 1 /\ Len(q) \in Nat
           /\ \A j \in 1..Len(q) : Append(q, x)[j] = q[j]
           /\ Append(q, x)[Len(q) + 1] = x
           /\ 1..Len(Append(q, x)) = (1..Len(q)) \cup {Len(q) + 1} /\ Len(q) + 1 \notin 1..Len(q)
  OBVIOUS

-----------------------------------------------------------------------------
(* Pruned                                                                   *)

Late(calls, n, cut) == {i \in 1..n : calls[i] > cut}

\* kept is what is later than cut among the first n calls, each at a place of its own.
KeptAre(calls, n, cut, kept) ==
    /\ kept \in Seq(Nat)
    /\ \A j \in 1..Len(kept) : kept[j] > cut
    /\ \E h : /\ Places(h, Late(calls, n, cut), Len(kept))
              /\ \A i \in Late(calls, n, cut) : kept[h[i]] = calls[i]
    /\ \E h : /\ Places(h, 1..Len(kept), n)
              /\ \A j \in 1..Len(kept) : calls[h[j]] = kept[j]

LEMMA KeepsOne ==
    ASSUME NEW calls \in Seq(Nat), NEW n \in Nat, n + 1 <= Len(calls), NEW cut, NEW kept,
           KeptAre(calls, n, cut, kept), calls[n + 1] > cut
    PROVE  KeptAre(calls, n + 1, cut, Append(kept, calls[n + 1]))
<1> DEFINE x == calls[n + 1]
           more == Append(kept, x)
<1>1. x \in Nat /\ kept \in Seq(Nat) /\ x > cut
  BY DEF KeptAre
<1>2. /\ more \in Seq(Nat) /\ Len(more) = Len(kept) + 1 /\ Len(kept) \in Nat
      /\ \A j \in 1..Len(kept) : more[j] = kept[j]
      /\ more[Len(kept) + 1] = x
      /\ 1..Len(more) = (1..Len(kept)) \cup {Len(kept) + 1} /\ Len(kept) + 1 \notin 1..Len(kept)
  <2> HIDE DEF x
  <2> QED
    BY <1>1, AppendIs
<1> HIDE DEF more
<1>3. \A j \in 1..Len(more) : more[j] > cut
  BY <1>1, <1>2 DEF KeptAre
<1>4. Late(calls, n + 1, cut) = Late(calls, n, cut) \cup {n + 1} /\ n + 1 \notin Late(calls, n, cut)
  BY DEF Late
<1>5. \E h : /\ Places(h, Late(calls, n + 1, cut), Len(more))
             /\ \A i \in Late(calls, n + 1, cut) : more[h[i]] = calls[i]
  <2>1. PICK f : /\ Places(f, Late(calls, n, cut), Len(kept))
                 /\ \A i \in Late(calls, n, cut) : kept[f[i]] = calls[i]
    BY DEF KeptAre
  <2>2. PICK h : /\ Places(h, Late(calls, n, cut) \cup {n + 1}, Len(kept) + 1)
                 /\ h[n + 1] = Len(kept) + 1 /\ \A i \in Late(calls, n, cut) : h[i] = f[i]
    <3>1. Extends(f, Late(calls, n, cut), Len(kept), n + 1)
      BY <1>2, <1>4, <2>1, PlacesMore
    <3> QED
      BY <3>1 DEF Extends
  <2>3. \A i \in Late(calls, n, cut) : f[i] \in 1..Len(kept)
    BY <2>1 DEF Places
  <2>4. \A i \in Late(calls, n + 1, cut) : more[h[i]] = calls[i]
    BY <1>2, <1>4, <2>1, <2>2, <2>3
  <2> QED
    BY <1>2, <1>4, <2>2, <2>4
<1>6. \E h : /\ Places(h, 1..Len(more), n + 1)
             /\ \A j \in 1..Len(more) : calls[h[j]] = more[j]
  <2>1. PICK f : /\ Places(f, 1..Len(kept), n)
                 /\ \A j \in 1..Len(kept) : calls[f[j]] = kept[j]
    BY DEF KeptAre
  <2>2. PICK h : /\ Places(h, (1..Len(kept)) \cup {Len(kept) + 1}, n + 1)
                 /\ h[Len(kept) + 1] = n + 1 /\ \A j \in 1..Len(kept) : h[j] = f[j]
    <3>1. Extends(f, 1..Len(kept), n, Len(kept) + 1)
      BY <1>2, <2>1, PlacesMore
    <3> QED
      BY <3>1 DEF Extends
  <2>3. \A j \in 1..Len(more) : calls[h[j]] = more[j]
    BY <1>2, <2>1, <2>2
  <2> QED
    BY <1>2, <2>2, <2>3
<1> QED
  BY <1>2, <1>3, <1>5, <1>6 DEF KeptAre, more

LEMMA KeepsNone ==
    ASSUME NEW calls \in Seq(Nat), NEW n \in Nat, n + 1 <= Len(calls), NEW cut, NEW kept,
           KeptAre(calls, n, cut, kept), ~(calls[n + 1] > cut)
    PROVE  KeptAre(calls, n + 1, cut, kept)
<1>1. Late(calls, n + 1, cut) = Late(calls, n, cut)
  BY DEF Late
<1>2. \E h : Places(h, 1..Len(kept), n + 1) /\ \A j \in 1..Len(kept) : calls[h[j]] = kept[j]
  BY PlacesWider DEF KeptAre
<1> QED
  BY <1>1, <1>2 DEF KeptAre

LEMMA PrunedIs ==
    ASSUME NEW calls \in Seq(Nat), NEW at, NEW window
    PROVE  KeptAre(calls, Len(calls), Cutoff(at, window), Pruned(calls, at, window))
<1> DEFINE cut == Cutoff(at, window)
           Rec(f) == f = [i \in 0..Len(calls) |->
                            IF i = 0 THEN <<>>
                            ELSE IF calls[i] > Cutoff(at, window) THEN Append(f[i - 1], calls[i])
                            ELSE f[i - 1]]
           F == CHOOSE f : Rec(f)
           g == [p \in (1..Len(calls)) \X Seq(Nat) |->
                   IF calls[p[1]] > Cutoff(at, window) THEN Append(p[2], calls[p[1]]) ELSE p[2]]
<1>1. Len(calls) \in Nat /\ <<>> \in Seq(Nat) /\ \A i \in 1..Len(calls) : calls[i] \in Nat
  OBVIOUS
<1>2. g \in [(1..Len(calls)) \X Seq(Nat) -> Seq(Nat)]
  <2>1. ASSUME NEW p \in (1..Len(calls)) \X Seq(Nat) PROVE g[p] \in Seq(Nat)
    <3>1. p[1] \in 1..Len(calls) /\ p[2] \in Seq(Nat) /\ calls[p[1]] \in Nat
      OBVIOUS
    <3> QED
      BY <3>1
  <2> QED
    BY <2>1
<1>3. PICK h : Recurses(h, Seq(Nat), <<>>, Len(calls), g)
  <2> HIDE DEF g
  <2> QED
    BY <1>1, <1>2, Recursion
<1>4. Rec(h)
  <2>1. ASSUME NEW i \in 0..Len(calls)
        PROVE  h[i] = IF i = 0 THEN <<>>
                      ELSE IF calls[i] > Cutoff(at, window) THEN Append(h[i - 1], calls[i])
                      ELSE h[i - 1]
    <3>1. CASE i = 0
      BY <1>3, <3>1 DEF Recurses
    <3>2. CASE i # 0
      <4>1. i \in 1..Len(calls) /\ i - 1 \in 0..Len(calls)
        BY <1>1, <3>2
      <4>2. h[i] = g[<<i, h[i - 1]>>] /\ h[i - 1] \in Seq(Nat)
        BY <1>3, <4>1 DEF Recurses
      <4> QED
        BY <3>2, <4>1, <4>2
    <3> QED
      BY <3>1, <3>2
  <2>2. h = [i \in 0..Len(calls) |-> h[i]]
    BY <1>3 DEF Recurses
  <2> QED
    BY <2>1, <2>2
<1>5. Rec(F)
  BY <1>4
<1>6. Pruned(calls, at, window) = F[Len(calls)]
  BY DEF Pruned
<1> HIDE DEF F
<1> DEFINE S == {k \in Nat : k <= Len(calls) => KeptAre(calls, k, cut, F[k])}
<1>7. 0 \in S
  <2>1. F[0] = <<>> /\ Len(<<>>) = 0 /\ 1..0 = {} /\ <<>> \in Seq(Nat)
    BY <1>1, <1>5
  <2>2. Late(calls, 0, cut) = {}
    BY <2>1 DEF Late
  <2>3. Places(<<>>, {}, 0) /\ <<>> \in [{} -> {}]
    BY DEF Places
  <2>4. KeptAre(calls, 0, cut, <<>>)
    BY <2>1, <2>2, <2>3 DEF KeptAre
  <2> QED
    BY <2>1, <2>4
<1>8. ASSUME NEW k \in Nat, k \in S PROVE k + 1 \in S
  <2> SUFFICES ASSUME k + 1 <= Len(calls) PROVE KeptAre(calls, k + 1, cut, F[k + 1])
    OBVIOUS
  <2>1. k + 1 \in 0..Len(calls) /\ k + 1 # 0 /\ (k + 1) - 1 = k /\ KeptAre(calls, k, cut, F[k])
    BY <1>1, <1>8
  <2>2. F[k + 1] = IF calls[k + 1] > cut THEN Append(F[k], calls[k + 1]) ELSE F[k]
    BY <1>5, <2>1
  <2> HIDE DEF cut
  <2> QED
    BY <2>1, <2>2, KeepsOne, KeepsNone
<1>9. \A k \in Nat : k \in S
  <2> HIDE DEF S
  <2> QED
    BY <1>7, <1>8, AllNaturals
<1> QED
  BY <1>1, <1>6, <1>9

-----------------------------------------------------------------------------
(* What is recorded, and what it is compared with                           *)

\* Each timestamp of q is one of r.
Within(q, r) ==
    \E h : /\ Places(h, 1..Len(q), Len(r))
           /\ \A j \in 1..Len(q) : r[h[j]] = q[j]

\* q has a timestamp for each of these calls.
Covers(q, G) ==
    \E h : /\ Places(h, G, Len(q))
           /\ \A g \in G : q[h[g]] = g.at

LEMMA WithinTransitive ==
    ASSUME NEW q \in Seq(Nat), NEW r \in Seq(Nat), NEW s \in Seq(Nat), Within(q, r), Within(r, s)
    PROVE  Within(q, s)
<1>1. PICK f : Places(f, 1..Len(q), Len(r)) /\ \A j \in 1..Len(q) : r[f[j]] = q[j]
  BY DEF Within
<1>2. PICK g : Places(g, 1..Len(r), Len(s)) /\ \A j \in 1..Len(r) : s[g[j]] = r[j]
  BY DEF Within
<1>3. Len(r) \in Nat /\ Len(s) \in Nat
  OBVIOUS
<1>4. PICK h : Places(h, 1..Len(q), Len(s)) /\ \A j \in 1..Len(q) : h[j] = g[f[j]]
  <2>1. Composes(f, g, 1..Len(q), Len(s))
    BY <1>1, <1>2, <1>3, PlacesThrough
  <2> QED
    BY <2>1 DEF Composes
<1>5. \A j \in 1..Len(q) : f[j] \in 1..Len(r)
  BY <1>1 DEF Places
<1>6. \A j \in 1..Len(q) : s[h[j]] = q[j]
  BY <1>1, <1>2, <1>4, <1>5
<1> QED
  BY <1>4, <1>6 DEF Within

\* Both grow by the same timestamp.
LEMMA WithinAppend ==
    ASSUME NEW q \in Seq(Nat), NEW r \in Seq(Nat), NEW x \in Nat, Within(q, r)
    PROVE  Within(Append(q, x), Append(r, x))
<1>1. PICK f : Places(f, 1..Len(q), Len(r)) /\ \A j \in 1..Len(q) : r[f[j]] = q[j]
  BY DEF Within
<1> DEFINE m == Append(q, x)
           n == Append(r, x)
<1>2. /\ Len(m) = Len(q) + 1 /\ Len(q) \in Nat /\ \A j \in 1..Len(q) : m[j] = q[j]
      /\ m[Len(q) + 1] = x
      /\ 1..Len(m) = (1..Len(q)) \cup {Len(q) + 1} /\ Len(q) + 1 \notin 1..Len(q)
  BY AppendIs
<1>3. /\ Len(n) = Len(r) + 1 /\ Len(r) \in Nat /\ \A j \in 1..Len(r) : n[j] = r[j]
      /\ n[Len(r) + 1] = x
  BY AppendIs
<1> HIDE DEF m, n
<1>4. PICK h : /\ Places(h, (1..Len(q)) \cup {Len(q) + 1}, Len(r) + 1)
               /\ h[Len(q) + 1] = Len(r) + 1 /\ \A j \in 1..Len(q) : h[j] = f[j]
  <2>1. Extends(f, 1..Len(q), Len(r), Len(q) + 1)
    BY <1>1, <1>2, <1>3, PlacesMore
  <2> QED
    BY <2>1 DEF Extends
<1>5. \A j \in 1..Len(q) : f[j] \in 1..Len(r)
  BY <1>1 DEF Places
<1>6. \A j \in 1..Len(m) : n[h[j]] = m[j]
  <2>1. ASSUME NEW j \in 1..Len(q) PROVE n[h[j]] = m[j]
    <3>1. h[j] = f[j] /\ m[j] = q[j] /\ r[f[j]] = q[j] /\ f[j] \in 1..Len(r)
      BY <1>1, <1>2, <1>4, <1>5
    <3>2. n[f[j]] = r[f[j]]
      BY <1>3, <3>1
    <3> QED
      BY <3>1, <3>2
  <2>2. n[h[Len(q) + 1]] = m[Len(q) + 1]
    BY <1>2, <1>3, <1>4
  <2> QED
    BY <1>2, <2>1, <2>2
<1> QED
  BY <1>2, <1>3, <1>4, <1>6 DEF Within, m, n

\* The history alone grows.
LEMMA WithinMore ==
    ASSUME NEW q \in Seq(Nat), NEW r \in Seq(Nat), NEW x \in Nat, Within(q, r)
    PROVE  Within(q, Append(r, x))
<1>1. PICK f : Places(f, 1..Len(q), Len(r)) /\ \A j \in 1..Len(q) : r[f[j]] = q[j]
  BY DEF Within
<1> DEFINE n == Append(r, x)
<1>2. /\ Len(n) = Len(r) + 1 /\ Len(r) \in Nat /\ \A j \in 1..Len(r) : n[j] = r[j]
  BY AppendIs
<1> HIDE DEF n
<1>3. Places(f, 1..Len(q), Len(r) + 1) /\ \A j \in 1..Len(q) : f[j] \in 1..Len(r)
  BY <1>1, <1>2, PlacesWider DEF Places
<1>4. \A j \in 1..Len(q) : n[f[j]] = q[j]
  BY <1>1, <1>2, <1>3
<1> QED
  BY <1>2, <1>3, <1>4 DEF Within, n

LEMMA PrunedWithin ==
    ASSUME NEW q \in Seq(Nat), NEW at, NEW window
    PROVE  /\ Pruned(q, at, window) \in Seq(Nat) /\ Within(Pruned(q, at, window), q)
           /\ \A j \in 1..Len(Pruned(q, at, window)) : Pruned(q, at, window)[j] > Cutoff(at, window)
<1> DEFINE kept == Pruned(q, at, window)
<1>1. KeptAre(q, Len(q), Cutoff(at, window), kept)
  BY PrunedIs
<1> HIDE DEF kept
<1>2. kept \in Seq(Nat) /\ \A j \in 1..Len(kept) : kept[j] > Cutoff(at, window)
  BY <1>1 DEF KeptAre
<1>3. Within(kept, q)
  BY <1>1 DEF KeptAre, Within
<1> QED
  BY <1>2, <1>3 DEF kept

\* The calls of a window survive its pruning.
LEMMA PrunedCovers ==
    ASSUME NEW q \in Seq(Nat), NEW at, NEW window, NEW G, Covers(q, G),
           \A g \in G : g.at > Cutoff(at, window)
    PROVE  Covers(Pruned(q, at, window), G)
<1> DEFINE kept == Pruned(q, at, window)
           cut == Cutoff(at, window)
<1>1. KeptAre(q, Len(q), cut, kept)
  BY PrunedIs
<1> HIDE DEF kept, cut
<1>2. PICK f : Places(f, G, Len(q)) /\ \A g \in G : q[f[g]] = g.at
  BY DEF Covers
<1>3. PICK e : /\ Places(e, Late(q, Len(q), cut), Len(kept))
               /\ \A i \in Late(q, Len(q), cut) : kept[e[i]] = q[i]
  BY <1>1 DEF KeptAre
<1>4. ASSUME NEW g \in G PROVE f[g] \in Late(q, Len(q), cut)
  BY <1>2 DEF Places, Late, cut
<1> DEFINE h == [g \in G |-> e[f[g]]]
<1>5. h \in [G -> 1..Len(kept)] /\ \A g \in G : h[g] = e[f[g]]
  BY <1>3, <1>4 DEF Places
<1> HIDE DEF h
<1>6. ASSUME NEW g \in G, NEW k \in G, g # k PROVE h[g] # h[k]
  <2>1. f[g] # f[k]
    BY <1>2, <1>6 DEF Places
  <2> QED
    BY <1>3, <1>4, <1>5, <2>1 DEF Places
<1>7. \A g \in G : kept[h[g]] = g.at
  BY <1>2, <1>3, <1>4, <1>5
<1> QED
  BY <1>5, <1>6, <1>7 DEF Covers, Places, kept

\* So does a call more, at its own time.
LEMMA CoversAppend ==
    ASSUME NEW q \in Seq(Nat), NEW G, Covers(q, G), NEW g, g.at \in Nat
    PROVE  Covers(Append(q, g.at), G \cup {g})
<1> DEFINE m == Append(q, g.at)
<1>1. /\ Len(m) = Len(q) + 1 /\ Len(q) \in Nat /\ \A j \in 1..Len(q) : m[j] = q[j]
      /\ m[Len(q) + 1] = g.at
  BY AppendIs
<1> HIDE DEF m
<1>2. PICK f : Places(f, G, Len(q)) /\ \A k \in G : q[f[k]] = k.at
  BY DEF Covers
<1>3. \A k \in G : f[k] \in 1..Len(q)
  BY <1>2 DEF Places
<1>4. CASE g \in G
  <2>1. Places(f, G, Len(m)) /\ \A k \in G : m[f[k]] = k.at
    BY <1>1, <1>2, <1>3, PlacesWider
  <2> QED
    BY <1>4, <2>1 DEF Covers, m
<1>5. CASE g \notin G
  <2>1. PICK h : /\ Places(h, G \cup {g}, Len(q) + 1)
                 /\ h[g] = Len(q) + 1 /\ \A k \in G : h[k] = f[k]
    <3>1. Extends(f, G, Len(q), g)
      BY <1>1, <1>2, <1>5, PlacesMore
    <3> QED
      BY <3>1 DEF Extends
  <2>2. \A k \in G \cup {g} : m[h[k]] = k.at
    BY <1>1, <1>2, <1>3, <2>1
  <2> QED
    BY <1>1, <2>1, <2>2 DEF Covers, m
<1> QED
  BY <1>4, <1>5

LEMMA CoversSome ==
    ASSUME NEW q \in Seq(Nat), NEW G, Covers(q, G), NEW H \in SUBSET G
    PROVE  Covers(q, H)
<1>1. PICK f : Places(f, G, Len(q)) /\ \A k \in G : q[f[k]] = k.at
  BY DEF Covers
<1>2. PICK h : Places(h, H, Len(q)) /\ \A k \in H : h[k] = f[k]
  <2>1. Restricts(f, H, Len(q))
    BY <1>1, PlacesSome
  <2> QED
    BY <2>1 DEF Restricts
<1> QED
  BY <1>1, <1>2 DEF Covers

LEMMA CoversBound ==
    ASSUME NEW q \in Seq(Nat), NEW G, Covers(q, G)
    PROVE  IsFiniteSet(G) /\ Cardinality(G) <= Len(q)
  BY PlacesBound DEF Covers

-----------------------------------------------------------------------------
(* The loop over the limits                                                 *)

Times == 1..MaxNow

LEMMA TimesAreNat == ASSUME RateLimiterAssumption PROVE Seq(Times) \subseteq Seq(Nat)
  BY DEF Times, RateLimiterAssumption

LEMMA WithinTimes ==
    ASSUME RateLimiterAssumption, NEW q \in Seq(Nat), NEW r \in Seq(Times), Within(q, r)
    PROVE  q \in Seq(Times)
<1>1. PICK f : Places(f, 1..Len(q), Len(r)) /\ \A j \in 1..Len(q) : r[f[j]] = q[j]
  BY DEF Within
<1>2. ASSUME NEW j \in 1..Len(q) PROVE q[j] \in Times
  <2>1. f[j] \in 1..Len(r) /\ r[f[j]] = q[j]
    BY <1>1 DEF Places
  <2> QED
    BY <2>1
<1> QED
  BY <1>2

\* The records that a state of the limiter may hold.
RecordsOK(calls, history) ==
    /\ calls \in [Patterns -> Seq(Times)]
    /\ \A p \in Patterns : Within(calls[p], history[p])

\* A pattern was charged up to its limit.
Enough(q, at, limit) ==
    Cardinality({i \in DOMAIN q : q[i] > at - limit.window}) >= limit.count

MatchingOf(s, t) == DOMAIN Limits[s] \cap Matches[t]

LEMMA LimitIs ==
    ASSUME RateLimiterAssumption, NEW s \in Subjects, NEW p \in DOMAIN Limits[s]
    PROVE  /\ p \in Patterns /\ Limits[s][p].count \in Nat /\ Limits[s][p].window \in Nat
           /\ Limits[s][p].window > 0
  BY DEF RateLimiterAssumption

LEMMA ChargeIs ==
    ASSUME RateLimiterAssumption, NEW s \in Subjects, NEW t \in Tools, NEW calls, NEW at,
           NEW charge \in Charges(calls, s, t, at)
    PROVE  /\ charge.pushed \subseteq MatchingOf(s, t) /\ charge.exceeded \subseteq MatchingOf(s, t)
           /\ MatchingOf(s, t) \subseteq Patterns
           /\ charge.pushed \cap charge.exceeded = {}
           /\ charge.exceeded = {} => charge.pushed = MatchingOf(s, t)
           /\ \A p \in charge.exceeded :
                OverLimit(Pruned(calls[p], at, Limits[s][p].window), Limits[s][p])
           /\ \A p \in charge.pushed :
                ~OverLimit(Pruned(calls[p], at, Limits[s][p].window), Limits[s][p])
<1> DEFINE over == {p \in MatchingOf(s, t) :
                      OverLimit(Pruned(calls[p], at, Limits[s][p].window), Limits[s][p])}
<1>1. charge \in IF over = {} THEN {[pushed |-> MatchingOf(s, t), exceeded |-> {}]}
                 ELSE {[pushed |-> P, exceeded |-> {p}] : P \in SUBSET (MatchingOf(s, t) \ over), p \in over}
  BY DEF Charges, MatchingOf
<1>2. MatchingOf(s, t) \subseteq Patterns
  BY LimitIs DEF MatchingOf
<1>3. over \subseteq MatchingOf(s, t)
  OBVIOUS
<1>4. \A p \in MatchingOf(s, t) :
        p \in over <=> OverLimit(Pruned(calls[p], at, Limits[s][p].window), Limits[s][p])
  OBVIOUS
<1> HIDE DEF over
<1>5. CASE over = {}
  <2>1. charge = [pushed |-> MatchingOf(s, t), exceeded |-> {}]
    BY <1>1, <1>5
  <2> QED
    BY <1>2, <1>4, <1>5, <2>1
<1>6. CASE over # {}
  <2>1. PICK P \in SUBSET (MatchingOf(s, t) \ over), p \in over : charge = [pushed |-> P, exceeded |-> {p}]
    BY <1>1, <1>6
  <2> QED
    BY <1>2, <1>3, <1>4, <2>1
<1> QED
  BY <1>5, <1>6

LEMMA CutoffIs ==
    ASSUME NEW at \in Nat, NEW window \in Nat
    PROVE  Cutoff(at, window) \in Nat /\ Cutoff(at, window) >= at - window
           /\ \A x \in Nat : x > 0 /\ x > at - window => x > Cutoff(at, window)
  BY DEF Cutoff

LEMMA EnoughMore ==
    ASSUME NEW q \in Seq(Nat), NEW x \in Nat, NEW at \in Nat, NEW limit,
           limit.count \in Nat, limit.window \in Nat, Enough(q, at, limit)
    PROVE  Enough(Append(q, x), at, limit)
<1> DEFINE m == Append(q, x)
           S == {i \in DOMAIN q : q[i] > at - limit.window}
           T == {i \in DOMAIN m : m[i] > at - limit.window}
<1>1. /\ m \in Seq(Nat) /\ Len(m) = Len(q) + 1 /\ Len(q) \in Nat
      /\ \A j \in 1..Len(q) : m[j] = q[j]
  BY AppendIs
<1>2. DOMAIN q = 1..Len(q) /\ DOMAIN m = 1..(Len(q) + 1)
  BY <1>1
<1> HIDE DEF m
<1>3. IsFiniteSet(T)
  <2>1. IsFiniteSet(1..(Len(q) + 1))
    BY <1>1, FS_Interval
  <2> QED
    BY <1>2, <2>1, FS_Subset
<1>4. S \subseteq T
  BY <1>1, <1>2
<1> HIDE DEF S, T
<1>5. IsFiniteSet(S) /\ Cardinality(S) <= Cardinality(T)
  BY <1>3, <1>4, FS_Subset
<1>6. Cardinality(S) \in Nat /\ Cardinality(T) \in Nat
  BY <1>3, <1>5, FS_CardinalityType
<1>7. Cardinality(S) >= limit.count
  BY Zenon DEF Enough, S
<1>8. Cardinality(T) >= limit.count
  BY <1>5, <1>6, <1>7
<1> QED
  BY <1>8, Zenon DEF Enough, T, m

LEMMA OverIsEnough ==
    ASSUME NEW q \in Seq(Nat), NEW kept \in Seq(Nat), NEW at \in Nat, NEW limit,
           limit.count \in Nat, limit.window \in Nat, Within(kept, q), OverLimit(kept, limit),
           \A j \in 1..Len(kept) : kept[j] > Cutoff(at, limit.window)
    PROVE  Enough(q, at, limit)
<1> DEFINE T == {i \in DOMAIN q : q[i] > at - limit.window}
<1>1. PICK f : Places(f, 1..Len(kept), Len(q)) /\ \A j \in 1..Len(kept) : q[f[j]] = kept[j]
  BY DEF Within
<1>2. DOMAIN q = 1..Len(q) /\ Len(q) \in Nat /\ Len(kept) \in Nat
  OBVIOUS
<1>3. ASSUME NEW j \in 1..Len(kept) PROVE f[j] \in T
  <2>1. f[j] \in 1..Len(q) /\ q[f[j]] = kept[j] /\ kept[j] \in Nat
    BY <1>1 DEF Places
  <2> DEFINE cut == Cutoff(at, limit.window)
  <2>2. cut \in Nat /\ cut >= at - limit.window /\ kept[j] > cut
    BY CutoffIs
  <2> HIDE DEF cut
  <2>3. kept[j] > at - limit.window
    BY <2>1, <2>2
  <2> QED
    BY <1>2, <2>1, <2>3
<1>4. IsFiniteSet(T)
  <2>1. IsFiniteSet(1..Len(q))
    BY <1>2, FS_Interval
  <2> QED
    BY <1>2, <2>1, FS_Subset
<1> HIDE DEF T
<1>5. f \in [1..Len(kept) -> T]
  BY <1>1, <1>3 DEF Places
<1>6. \A x, y \in 1..Len(kept) : f[x] = f[y] => x = y
  BY <1>1 DEF Places
<1>7. f \in Injection(1..Len(kept), T)
  BY <1>5, <1>6, Fun_IsInj
<1>8. Cardinality(1..Len(kept)) <= Cardinality(T)
  BY <1>4, <1>7, FS_Injection
<1>9. Cardinality(1..Len(kept)) = Len(kept)
  <2> DEFINE n == Len(kept)
  <2>1. n \in Nat
    OBVIOUS
  <2> HIDE DEF n
  <2>2. Cardinality(1..n) = IF 1 > n THEN 0 ELSE n - 1 + 1
    BY <2>1, FS_Interval
  <2>3. Cardinality(1..n) = n
    BY <2>1, <2>2
  <2> QED
    BY <2>3 DEF n
<1>10. Cardinality(T) \in Nat
  BY <1>4, FS_CardinalityType
<1> QED
  BY <1>2, <1>8, <1>9, <1>10 DEF Enough, T, OverLimit

\* What the loop adds to the history.
More(history, charge, at) ==
    [p \in Patterns |-> IF p \in charge.pushed THEN Append(history[p], at) ELSE history[p]]

LEMMA RecordedOK ==
    ASSUME RateLimiterAssumption, NEW s \in Subjects, NEW t \in Tools, NEW at \in Times,
           NEW calls, NEW history \in [Patterns -> Seq(Times)], RecordsOK(calls, history),
           NEW charge \in Charges(calls, s, t, at)
    PROVE  /\ More(history, charge, at) \in [Patterns -> Seq(Times)]
           /\ RecordsOK(Recorded(calls, charge, s, at), More(history, charge, at))
           /\ \A p \in charge.exceeded : Enough(More(history, charge, at)[p], at, Limits[s][p])
<1> DEFINE more == More(history, charge, at)
           rec == Recorded(calls, charge, s, at)
<1>1. /\ charge.pushed \subseteq MatchingOf(s, t) /\ charge.exceeded \subseteq MatchingOf(s, t)
      /\ MatchingOf(s, t) \subseteq Patterns /\ MatchingOf(s, t) \subseteq DOMAIN Limits[s]
      /\ charge.pushed \cap charge.exceeded = {}
      /\ \A p \in charge.exceeded :
           OverLimit(Pruned(calls[p], at, Limits[s][p].window), Limits[s][p])
  BY ChargeIs DEF MatchingOf
<1>2. at \in Nat /\ at \in Times /\ Seq(Times) \subseteq Seq(Nat)
  BY TimesAreNat DEF Times
<1>3. \A p \in Patterns : more[p] = IF p \in charge.pushed THEN Append(history[p], at) ELSE history[p]
  BY DEF More
<1>4. more = [p \in Patterns |-> more[p]]
  BY DEF More
<1>5. \A p \in Patterns :
        rec[p] = IF p \in charge.pushed THEN Append(Pruned(calls[p], at, Limits[s][p].window), at)
                 ELSE IF p \in charge.exceeded THEN Pruned(calls[p], at, Limits[s][p].window)
                 ELSE calls[p]
  BY DEF Recorded
<1>6. rec = [p \in Patterns |-> rec[p]]
  BY DEF Recorded
<1> HIDE DEF more, rec
<1>7. ASSUME NEW p \in Patterns
      PROVE  more[p] \in Seq(Times) /\ rec[p] \in Seq(Times) /\ Within(rec[p], more[p])
  <2> DEFINE kept == Pruned(calls[p], at, Limits[s][p].window)
  <2>1. /\ calls[p] \in Seq(Nat) /\ history[p] \in Seq(Nat) /\ Within(calls[p], history[p])
        /\ calls[p] \in Seq(Times) /\ history[p] \in Seq(Times)
    BY <1>2 DEF RecordsOK
  <2>2. kept \in Seq(Nat) /\ Within(kept, calls[p])
    BY <2>1, PrunedWithin
  <2> HIDE DEF kept
  <2>3. kept \in Seq(Times) /\ Within(kept, history[p])
    BY <2>1, <2>2, WithinTimes, WithinTransitive
  <2>4. CASE p \in charge.pushed
    <3>1. more[p] = Append(history[p], at) /\ rec[p] = Append(kept, at)
      BY <1>3, <1>5, <2>4 DEF kept
    <3>2. Append(history[p], at) \in Seq(Times) /\ Append(kept, at) \in Seq(Times)
      BY <1>2, <2>1, <2>3
    <3>3. Within(Append(kept, at), Append(history[p], at))
      BY <1>2, <2>1, <2>2, <2>3, WithinAppend
    <3> QED
      BY <3>1, <3>2, <3>3
  <2>5. CASE p \notin charge.pushed /\ p \in charge.exceeded
    BY <1>3, <1>5, <2>1, <2>3, <2>5 DEF kept
  <2>6. CASE p \notin charge.pushed /\ p \notin charge.exceeded
    BY <1>3, <1>5, <2>1, <2>6
  <2> QED
    BY <2>4, <2>5, <2>6
<1>8. ASSUME NEW p \in charge.exceeded PROVE Enough(more[p], at, Limits[s][p])
  <2>1. p \in Patterns /\ p \in DOMAIN Limits[s] /\ p \notin charge.pushed
    BY <1>1
  <2>2. Limits[s][p].count \in Nat /\ Limits[s][p].window \in Nat
    BY <2>1, LimitIs
  <2> DEFINE limit == Limits[s][p]
             kept == Pruned(calls[p], at, limit.window)
  <2>3. calls[p] \in Seq(Nat) /\ history[p] \in Seq(Nat) /\ Within(calls[p], history[p])
    BY <1>2, <2>1 DEF RecordsOK
  <2>4. /\ kept \in Seq(Nat) /\ Within(kept, calls[p])
        /\ \A j \in 1..Len(kept) : kept[j] > Cutoff(at, limit.window)
    BY <2>3, PrunedWithin
  <2>5. OverLimit(kept, limit)
    BY <1>1
  <2> HIDE DEF limit, kept
  <2>6. Within(kept, history[p])
    BY <2>3, <2>4, WithinTransitive
  <2>7. Enough(history[p], at, limit)
    BY <1>2, <2>2, <2>3, <2>4, <2>5, <2>6, OverIsEnough DEF limit
  <2> QED
    BY <1>3, <2>1, <2>7 DEF limit
<1>9. more \in [Patterns -> Seq(Times)]
  BY <1>4, <1>7
<1>10. RecordsOK(rec, more)
  <2>1. rec \in [Patterns -> Seq(Times)]
    BY <1>6, <1>7
  <2> QED
    BY <1>7, <2>1 DEF RecordsOK
<1> QED
  BY <1>8, <1>9, <1>10 DEF more, rec

-----------------------------------------------------------------------------
(* What a file and a caller may hold, whoever overlaps                      *)

ContentOK(content, history) ==
    \/ content \in {Empty, Garbage}
    \/ \E calls : RecordsOK(calls, history) /\ content = Whole(calls)

Pcs == {"remove", "open", "write", "rename"}

CallOK(r, history, time) ==
    /\ r \in [pc : Pcs, subject : Subjects, tool : Tools, at : Times, handle : Inodes \cup {NoFile},
              calls : [Patterns -> Seq(Times)], exceeded : SUBSET Patterns]
    /\ r.at <= time
    /\ r.handle # NoFile <=> r.pc = "write"
    /\ RecordsOK(r.calls, history)
    /\ r.exceeded \subseteq MatchingOf(r.subject, r.tool)
    /\ \A p \in r.exceeded : Enough(history[p], r.at, Limits[r.subject][p])

NamesOK ==
    /\ file \in Inodes \cup {NoFile} /\ tmp \in Inodes \cup {NoFile}
    /\ file = tmp => file = NoFile

GrantOK(g) == g.subject \in Subjects /\ g.tool \in Tools

TypeInv ==
    /\ now \in Times /\ begun \in Nat /\ begun <= MaxCalls
    /\ NamesOK
    /\ DOMAIN disk = Inodes /\ \A i \in Inodes : ContentOK(disk[i], charged)
    /\ charged \in [Patterns -> Seq(Times)]
    /\ DOMAIN caller = Clients
    /\ \A c \in Clients : caller[c] = Idle \/ CallOK(caller[c], charged, now)
    /\ \A g \in granted : GrantOK(g)

LEMMA KindsDiffer ==
    /\ ~IsState(Empty) /\ ~IsState(Garbage)
    /\ \A calls : IsState(Whole(calls)) /\ Whole(calls).calls = calls
    /\ \A pc \in Pcs : Idle.pc # pc
    /\ NoFile \notin Inodes
  BY DEF Empty, Garbage, Whole, IsState, Idle, Pcs, NoFile, Inodes

\* What is held stays held when more is charged.
LEMMA HistoryGrows ==
    ASSUME RateLimiterAssumption, NEW history \in [Patterns -> Seq(Times)], NEW charge,
           NEW at \in Times
    PROVE  /\ \A calls : RecordsOK(calls, history) => RecordsOK(calls, More(history, charge, at))
           /\ \A content : ContentOK(content, history) => ContentOK(content, More(history, charge, at))
           /\ \A r : CallOK(r, history, at) => CallOK(r, More(history, charge, at), at)
<1> DEFINE more == More(history, charge, at)
<1>1. Seq(Times) \subseteq Seq(Nat) /\ at \in Nat
  BY TimesAreNat DEF Times
<1>2. \A p \in Patterns : more[p] = IF p \in charge.pushed THEN Append(history[p], at) ELSE history[p]
  BY DEF More
<1> HIDE DEF more
<1>3. ASSUME NEW calls, RecordsOK(calls, history) PROVE RecordsOK(calls, more)
  <2>1. ASSUME NEW p \in Patterns PROVE Within(calls[p], more[p])
    <3>1. calls[p] \in Seq(Nat) /\ history[p] \in Seq(Nat) /\ Within(calls[p], history[p])
      BY <1>1, <1>3 DEF RecordsOK
    <3>2. Within(calls[p], Append(history[p], at))
      BY <1>1, <3>1, WithinMore
    <3> QED
      BY <1>2, <3>1, <3>2
  <2> QED
    BY <1>3, <2>1 DEF RecordsOK
<1>4. ASSUME NEW content, ContentOK(content, history) PROVE ContentOK(content, more)
  BY <1>3, <1>4 DEF ContentOK
<1>5. ASSUME NEW r, CallOK(r, history, at) PROVE CallOK(r, more, at)
  <2>1. ASSUME NEW p \in r.exceeded PROVE Enough(more[p], r.at, Limits[r.subject][p])
    <3>1. /\ p \in Patterns /\ p \in DOMAIN Limits[r.subject] /\ r.subject \in Subjects
          /\ r.at \in Nat
      BY <1>5 DEF CallOK, MatchingOf, Times
    <3> DEFINE limit == Limits[r.subject][p]
    <3>2. limit.count \in Nat /\ limit.window \in Nat
      BY <3>1, LimitIs
    <3>3. Enough(history[p], r.at, limit)
      BY <1>5 DEF CallOK
    <3> HIDE DEF limit
    <3>4. history[p] \in Seq(Nat)
      BY <1>1, <3>1
    <3>5. Enough(Append(history[p], at), r.at, limit)
      BY <1>1, <3>1, <3>2, <3>3, <3>4, EnoughMore
    <3>6. Enough(more[p], r.at, limit)
      BY <1>2, <3>1, <3>3, <3>5
    <3> QED
      BY <3>6 DEF limit
  <2>2. RecordsOK(r.calls, more)
    BY <1>3, <1>5 DEF CallOK
  <2> QED
    BY <1>5, <2>1, <2>2 DEF CallOK
<1> QED
  BY <1>3, <1>4, <1>5 DEF more

\* There is an inode to spare: two names and one handle a caller.
LEMMA FreeIsFree ==
    ASSUME RateLimiterAssumption, tmp = NoFile
    PROVE  Free \in Inodes /\ Free # file
<1> DEFINE Busy == {c \in Clients : caller[c] # Idle}
           f == [c \in Busy |-> caller[c].handle]
           n == Cardinality(Clients)
           H == Handles
           T == H \cup {file}
<1>1. IsFiniteSet(Busy) /\ Cardinality(Busy) <= n /\ n \in Nat /\ Cardinality(Busy) \in Nat
  BY FS_Subset, FS_CardinalityType DEF RateLimiterAssumption
<1>2. f \in Surjection(Busy, H)
  <2>1. f \in [Busy -> H] /\ \A h \in H : \E c \in Busy : f[c] = h
    BY DEF Handles
  <2> HIDE DEF f, Busy, H
  <2> QED
    BY <2>1, Fun_IsSurj
<1> HIDE DEF f, Busy, H
<1>3. IsFiniteSet(H) /\ Cardinality(H) <= Cardinality(Busy)
  BY <1>1, <1>2, FS_Surjection
<1>4. IsFiniteSet(T) /\ Cardinality(T) <= n + 1 /\ Cardinality(T) \in Nat
  <2>1. IsFiniteSet(T) /\ Cardinality(T) = IF file \in H THEN Cardinality(H) ELSE Cardinality(H) + 1
    BY <1>3, FS_AddElement
  <2>2. Cardinality(H) \in Nat
    BY <1>3, FS_CardinalityType
  <2> QED
    BY <1>1, <1>3, <2>1, <2>2
<1> HIDE DEF T
<1>5. IsFiniteSet(Inodes) /\ Cardinality(Inodes) = n + 2
  <2>1. n + 2 \in Nat /\ 1 <= n + 2 /\ Inodes = 1..(n + 2)
    BY <1>1 DEF Inodes
  <2> HIDE DEF n
  <2>2. Cardinality(1..(n + 2)) = (n + 2) - 1 + 1 /\ IsFiniteSet(1..(n + 2))
    BY <2>1, FS_Interval
  <2> QED
    BY <2>1, <2>2
<1>6. ~(Inodes \subseteq T)
  <2> SUFFICES ASSUME Inodes \subseteq T PROVE FALSE
    OBVIOUS
  <2>1. Cardinality(Inodes) <= Cardinality(T)
    BY <1>4, FS_Subset
  <2> HIDE DEF n
  <2> QED
    BY <1>1, <1>4, <1>5, <2>1
<1>7. PICK i \in Inodes : i \notin T
  BY <1>6
<1>8. i \notin Handles \cup {file, tmp}
  <2>1. i # NoFile
    BY <1>7, KindsDiffer
  <2> QED
    BY <1>7, <2>1 DEF T, H
<1>9. Free \in Inodes /\ Free \notin Handles \cup {file, tmp}
  BY <1>7, <1>8 DEF Free
<1> QED
  BY <1>9

\* What begins: the record of the call, and what the history becomes.
Started(c, s, t, calls, charge) ==
    /\ caller' = [caller EXCEPT ![c] =
         [pc |-> IF (file # NoFile /\ IsState(disk[file])) \/ file = NoFile THEN "open" ELSE "remove",
          subject |-> s, tool |-> t, at |-> now, handle |-> NoFile,
          calls |-> Recorded(calls, charge, s, now), exceeded |-> charge.exceeded]]
    /\ charged' = More(charged, charge, now)
    /\ charge \in Charges(calls, s, t, now)
    /\ calls = IF file # NoFile /\ IsState(disk[file]) THEN disk[file].calls ELSE NoCalls

LEMMA BeginIs ==
    ASSUME NEW c \in Clients, NEW s, NEW t, Begin(c, s, t)
    PROVE  /\ \E calls, charge : Started(c, s, t, calls, charge)
           /\ begun < MaxCalls /\ begun' = begun + 1
           /\ alone' = (alone /\ \A d \in Clients : caller[d] = Idle)
           /\ UNCHANGED <<now, file, tmp, disk, granted>>
<1> DEFINE calls == IF file # NoFile /\ IsState(disk[file]) THEN disk[file].calls ELSE NoCalls
<1>1. PICK charge \in Charges(calls, s, t, now) :
        /\ caller' = [caller EXCEPT ![c] =
             [pc |-> IF (file # NoFile /\ IsState(disk[file])) \/ file = NoFile THEN "open" ELSE "remove",
              subject |-> s, tool |-> t, at |-> now, handle |-> NoFile,
              calls |-> Recorded(calls, charge, s, now), exceeded |-> charge.exceeded]]
        /\ charged' = More(charged, charge, now)
  BY DEF Begin, More
<1>2. Started(c, s, t, calls, charge)
  BY <1>1 DEF Started
<1> QED
  BY <1>2 DEF Begin

\* What load_state returns.
LEMMA LoadedOK ==
    ASSUME TypeInv
    PROVE  RecordsOK(IF file # NoFile /\ IsState(disk[file]) THEN disk[file].calls ELSE NoCalls, charged)
<1>1. CASE file # NoFile /\ IsState(disk[file])
  <2>1. file \in Inodes /\ ContentOK(disk[file], charged)
    BY <1>1 DEF TypeInv, NamesOK
  <2>2. PICK calls : RecordsOK(calls, charged) /\ disk[file] = Whole(calls)
    BY <1>1, <2>1, KindsDiffer DEF ContentOK
  <2> QED
    BY <1>1, <2>2, KindsDiffer
<1>2. CASE ~(file # NoFile /\ IsState(disk[file]))
  <2>1. NoCalls \in [Patterns -> Seq(Times)] /\ \A p \in Patterns : NoCalls[p] = <<>>
    BY DEF NoCalls
  <2>2. ASSUME NEW q \in Seq(Times) PROVE Within(<<>>, q)
    <3>1. Len(<<>>) = 0 /\ 1..0 = {} /\ <<>> \in [{} -> 1..Len(q)]
      OBVIOUS
    <3> QED
      BY <3>1 DEF Within, Places
  <2>3. \A p \in Patterns : Within(NoCalls[p], charged[p])
    BY <2>1, <2>2 DEF TypeInv
  <2> QED
    BY <1>2, <2>1, <2>3 DEF RecordsOK
<1> QED
  BY <1>1, <1>2

LEMMA TypeInit == ASSUME RateLimiterAssumption, RateInit PROVE TypeInv
<1>1. 1 \in Times /\ 0 <= MaxCalls
  BY DEF RateLimiterAssumption, Times
<1>2. NoCalls \in [Patterns -> Seq(Times)]
  BY DEF NoCalls
<1>3. NamesOK
  BY DEF RateInit, NamesOK
<1>4. \A i \in Inodes : ContentOK(disk[i], charged)
  BY DEF RateInit, ContentOK
<1> QED
  BY <1>1, <1>2, <1>3, <1>4 DEF RateInit, TypeInv

LEMMA TypeBegin ==
    ASSUME RateLimiterAssumption, TypeInv, NEW c \in Clients, NEW s \in Subjects, NEW t \in Tools,
           Begin(c, s, t)
    PROVE  TypeInv'
<1>1. PICK calls, charge : Started(c, s, t, calls, charge)
  BY BeginIs
<1>2. begun < MaxCalls /\ begun' = begun + 1 /\ UNCHANGED <<now, file, tmp, disk, granted>>
  BY BeginIs
<1>3. RecordsOK(calls, charged) /\ charge \in Charges(calls, s, t, now)
  BY <1>1, LoadedOK DEF Started
<1>4. charged \in [Patterns -> Seq(Times)] /\ now \in Times /\ now \in Nat
  BY DEF TypeInv, Times
<1> DEFINE rec == Recorded(calls, charge, s, now)
           r == caller'[c]
<1>5. /\ charged' \in [Patterns -> Seq(Times)]
      /\ RecordsOK(rec, charged')
      /\ \A p \in charge.exceeded : Enough(charged'[p], now, Limits[s][p])
  BY <1>1, <1>3, <1>4, RecordedOK DEF Started
<1>6. charge.exceeded \subseteq MatchingOf(s, t) /\ MatchingOf(s, t) \subseteq Patterns
  BY <1>3, ChargeIs
<1>7. /\ r = [pc |-> r.pc, subject |-> s, tool |-> t, at |-> now, handle |-> NoFile,
              calls |-> rec, exceeded |-> charge.exceeded]
      /\ r.pc \in {"open", "remove"}
      /\ DOMAIN caller' = Clients /\ \A d \in Clients \ {c} : caller'[d] = caller[d]
  BY <1>1 DEF Started, TypeInv
<1> HIDE DEF rec, r
<1>8. CallOK(r, charged', now)
  <2>1. r \in [pc : Pcs, subject : Subjects, tool : Tools, at : Times, handle : Inodes \cup {NoFile},
               calls : [Patterns -> Seq(Times)], exceeded : SUBSET Patterns]
    BY <1>4, <1>5, <1>6, <1>7 DEF RecordsOK, Pcs
  <2> QED
    BY <1>4, <1>5, <1>6, <1>7, <2>1 DEF CallOK
<1>9. \A d \in Clients : caller'[d] = Idle \/ CallOK(caller'[d], charged', now)
  <2>1. ASSUME NEW d \in Clients \ {c} PROVE caller'[d] = Idle \/ CallOK(caller'[d], charged', now)
    <3>1. caller[d] = Idle \/ CallOK(caller[d], charged, now)
      BY DEF TypeInv
    <3>2. CallOK(caller[d], charged, now) => CallOK(caller[d], charged', now)
      BY <1>1, <1>4, HistoryGrows DEF Started
    <3> QED
      BY <1>7, <3>1, <3>2
  <2> QED
    BY <1>8, <2>1 DEF r
<1>10. \A i \in Inodes : ContentOK(disk[i], charged')
  BY <1>1, <1>4, HistoryGrows DEF Started, TypeInv
<1>11. begun' \in Nat /\ begun' <= MaxCalls
  BY <1>2 DEF TypeInv, RateLimiterAssumption
<1> QED
  BY <1>2, <1>5, <1>7, <1>9, <1>10, <1>11 DEF TypeInv, NamesOK, GrantOK

\* A caller that goes on, under the same history.
LEMMA TypeCallers ==
    ASSUME TypeInv, NEW c \in Clients, UNCHANGED <<now, charged, begun>>,
           DOMAIN caller' = Clients, \A d \in Clients \ {c} : caller'[d] = caller[d],
           caller'[c] = Idle \/ CallOK(caller'[c], charged, now),
           NamesOK', DOMAIN disk' = Inodes, \A i \in Inodes : ContentOK(disk'[i], charged),
           \A g \in granted' : GrantOK(g)
    PROVE  TypeInv'
<1>1. \A d \in Clients : caller'[d] = Idle \/ CallOK(caller'[d], charged', now')
  BY DEF TypeInv
<1> QED
  BY <1>1 DEF TypeInv

LEMMA BusyIs ==
    ASSUME TypeInv, NEW c \in Clients, caller[c] # Idle
    PROVE  CallOK(caller[c], charged, now)
  BY DEF TypeInv

\* A step of a call, and nothing of the call but its position.
LEMMA CallGoesOn ==
    ASSUME TypeInv, NEW c \in Clients, caller[c] # Idle, NEW pc \in Pcs, NEW handle,
           handle \in Inodes \cup {NoFile}, handle # NoFile <=> pc = "write",
           caller' = [caller EXCEPT ![c].pc = pc, ![c].handle = handle]
    PROVE  /\ CallOK(caller'[c], charged, now) /\ DOMAIN caller' = Clients
           /\ \A d \in Clients \ {c} : caller'[d] = caller[d]
           /\ caller'[c] = [caller[c] EXCEPT !.pc = pc, !.handle = handle]
<1> DEFINE r == caller[c]
           q == caller'[c]
<1>1. CallOK(r, charged, now)
  BY BusyIs
<1>2. q = [r EXCEPT !.pc = pc, !.handle = handle] /\ DOMAIN caller' = Clients
      /\ \A d \in Clients \ {c} : caller'[d] = caller[d]
  BY DEF TypeInv
<1> HIDE DEF r, q
<1>3. r \in [pc : Pcs, subject : Subjects, tool : Tools, at : Times, handle : Inodes \cup {NoFile},
             calls : [Patterns -> Seq(Times)], exceeded : SUBSET Patterns]
  BY <1>1 DEF CallOK
<1>4. /\ q \in [pc : Pcs, subject : Subjects, tool : Tools, at : Times, handle : Inodes \cup {NoFile},
                calls : [Patterns -> Seq(Times)], exceeded : SUBSET Patterns]
      /\ q.pc = pc /\ q.handle = handle /\ q.subject = r.subject /\ q.tool = r.tool /\ q.at = r.at
      /\ q.calls = r.calls /\ q.exceeded = r.exceeded
  BY <1>2, <1>3
<1>5. CallOK(q, charged, now)
  BY <1>1, <1>4 DEF CallOK
<1> QED
  BY <1>2, <1>5 DEF r, q

LEMMA TypeDiscard ==
    ASSUME RateLimiterAssumption, TypeInv, NEW c \in Clients, Discard(c) PROVE TypeInv'
<1>1. caller[c] # Idle /\ caller[c].handle = NoFile
  <2>1. caller[c] # Idle
    BY KindsDiffer DEF Discard, Pcs
  <2> QED
    BY <2>1, BusyIs DEF Discard, CallOK
<1>2. CallOK(caller[c], charged, now)
  BY <1>1, BusyIs
<1> DEFINE r == caller[c]
           q == caller'[c]
<1>3. /\ r.handle = NoFile /\ q = [r EXCEPT !.pc = "open"]
      /\ DOMAIN caller' = Clients /\ \A d \in Clients \ {c} : caller'[d] = caller[d]
  BY <1>1 DEF Discard, Goto, TypeInv
<1>4. CallOK(r, charged, now)
  BY <1>2
<1> HIDE DEF r, q
<1>5. CallOK(q, charged, now)
  <2>1. /\ q \in [pc : Pcs, subject : Subjects, tool : Tools, at : Times, handle : Inodes \cup {NoFile},
                  calls : [Patterns -> Seq(Times)], exceeded : SUBSET Patterns]
        /\ q.pc = "open" /\ q.handle = r.handle /\ q.subject = r.subject /\ q.tool = r.tool
        /\ q.at = r.at /\ q.calls = r.calls /\ q.exceeded = r.exceeded
    BY <1>3, <1>4 DEF CallOK, Pcs
  <2> QED
    BY <1>3, <1>4, <2>1 DEF CallOK
<1>6. NamesOK'
  BY DEF Discard, TypeInv, NamesOK
<1> QED
  BY <1>3, <1>5, <1>6, TypeCallers DEF Discard, TypeInv, q

LEMMA TypeOpen ==
    ASSUME RateLimiterAssumption, TypeInv, NEW c \in Clients, Open(c) PROVE TypeInv'
<1> DEFINE i == IF tmp = NoFile THEN Free ELSE tmp
<1>1. /\ caller[c].pc = "open" /\ tmp' = i /\ file' = file
      /\ disk' = [disk EXCEPT ![i] = Empty]
      /\ caller' = [caller EXCEPT ![c].pc = "write", ![c].handle = i]
      /\ UNCHANGED <<now, granted, charged, begun, alone>>
  BY DEF Open, OpenTmp
<1>2. i \in Inodes /\ i # file /\ i # NoFile
  BY FreeIsFree, KindsDiffer DEF TypeInv, NamesOK
<1> HIDE DEF i
<1>3. caller[c] # Idle
  BY <1>1, KindsDiffer DEF Pcs
<1>4. /\ CallOK(caller'[c], charged, now) /\ DOMAIN caller' = Clients
      /\ \A d \in Clients \ {c} : caller'[d] = caller[d]
  <2>1. "write" \in Pcs
    BY DEF Pcs
  <2> QED
    BY <1>1, <1>2, <1>3, <2>1, CallGoesOn
<1>5. NamesOK'
  BY <1>1, <1>2 DEF TypeInv, NamesOK
<1>6. DOMAIN disk' = Inodes /\ \A j \in Inodes : ContentOK(disk'[j], charged)
  BY <1>1 DEF TypeInv, ContentOK
<1> QED
  BY <1>1, <1>4, <1>5, <1>6, TypeCallers DEF TypeInv

LEMMA WriteIs ==
    ASSUME NEW c, Write(c)
    PROVE  /\ caller[c].pc = "write"
           /\ \/ disk' = [disk EXCEPT ![caller[c].handle] = Garbage] /\ disk[caller[c].handle] # Empty
              \/ disk' = [disk EXCEPT ![caller[c].handle] = Whole(caller[c].calls)]
           /\ caller' = [caller EXCEPT ![c].pc = "rename", ![c].handle = NoFile]
           /\ UNCHANGED <<now, file, tmp, granted, charged, begun, alone>>
<1>1. disk[caller[c].handle] = Empty =>
        ~(disk[caller[c].handle] = Garbage \/ IsState(disk[caller[c].handle]))
  BY DEF Empty, Garbage, IsState
<1> QED
  BY <1>1 DEF Write

LEMMA TypeWrite ==
    ASSUME RateLimiterAssumption, TypeInv, NEW c \in Clients, Write(c) PROVE TypeInv'
<1>1. caller[c] # Idle /\ UNCHANGED <<now, file, tmp, granted, charged, begun, alone>>
  BY WriteIs, KindsDiffer DEF Pcs
<1>2. CallOK(caller[c], charged, now)
  BY <1>1, BusyIs
<1>3. /\ CallOK(caller'[c], charged, now) /\ DOMAIN caller' = Clients
      /\ \A d \in Clients \ {c} : caller'[d] = caller[d]
  <2>1. "rename" \in Pcs
    BY DEF Pcs
  <2> QED
    BY <1>1, <2>1, WriteIs, CallGoesOn
<1>4. DOMAIN disk' = Inodes /\ \A j \in Inodes : ContentOK(disk'[j], charged)
  <2>1. ContentOK(Garbage, charged) /\ ContentOK(Whole(caller[c].calls), charged)
    BY <1>2 DEF ContentOK, CallOK
  <2> QED
    BY <2>1, WriteIs DEF TypeInv
<1>5. NamesOK'
  BY <1>1 DEF TypeInv, NamesOK
<1> QED
  BY <1>1, <1>3, <1>4, <1>5, TypeCallers DEF TypeInv

LEMMA TypeRename ==
    ASSUME RateLimiterAssumption, TypeInv, NEW c \in Clients, Rename(c) PROVE TypeInv'
<1>1. caller[c] # Idle
  BY KindsDiffer DEF Rename, Pcs
<1>2. CallOK(caller[c], charged, now)
  BY <1>1, BusyIs
<1>3. \A g \in granted' : GrantOK(g)
  <2>1. ASSUME NEW g \in granted' PROVE GrantOK(g)
    <3>1. g \in granted \/ (g.subject = caller[c].subject /\ g.tool = caller[c].tool)
      BY DEF Rename
    <3> QED
      BY <1>2, <3>1 DEF TypeInv, GrantOK, CallOK
  <2> QED
    BY <2>1
<1>4. NamesOK'
  BY DEF Rename, TmpAfterRename, TypeInv, NamesOK
<1>5. /\ caller'[c] = Idle /\ DOMAIN caller' = Clients /\ \A d \in Clients \ {c} : caller'[d] = caller[d]
      /\ UNCHANGED <<now, disk, charged, begun>>
  BY DEF Rename, TypeInv
<1> QED
  BY <1>3, <1>4, <1>5, TypeCallers DEF TypeInv

LEMMA TypeKill ==
    ASSUME RateLimiterAssumption, TypeInv, NEW c \in Clients, Kill(c) PROVE TypeInv'
<1>1. /\ caller'[c] = Idle /\ DOMAIN caller' = Clients /\ \A d \in Clients \ {c} : caller'[d] = caller[d]
      /\ UNCHANGED <<now, file, tmp, disk, granted, charged, begun>>
  BY DEF Kill, TypeInv
<1>2. NamesOK'
  BY <1>1 DEF TypeInv, NamesOK
<1> QED
  BY <1>1, <1>2, TypeCallers DEF TypeInv

LEMMA TypeTick ==
    ASSUME RateLimiterAssumption, TypeInv, Tick PROVE TypeInv'
<1>1. now' \in Times /\ now \in Nat /\ now' = now + 1
  BY DEF TypeInv, Tick, Times, RateLimiterAssumption
<1>2. ASSUME NEW c \in Clients PROVE caller'[c] = Idle \/ CallOK(caller'[c], charged', now')
  <2>1. ASSUME CallOK(caller[c], charged, now) PROVE CallOK(caller[c], charged, now')
    <3>1. caller[c].at \in Nat
      BY <2>1 DEF CallOK, Times
    <3>2. caller[c].at <= now'
      BY <1>1, <2>1, <3>1 DEF CallOK
    <3> QED
      BY <2>1, <3>2 DEF CallOK
  <2> QED
    BY <2>1 DEF TypeInv, Tick
<1>3. NamesOK'
  BY DEF TypeInv, NamesOK, Tick
<1> QED
  BY <1>1, <1>2, <1>3 DEF TypeInv, Tick

LEMMA TypeStep == ASSUME RateLimiterAssumption, TypeInv, [RateNext]_rateVars PROVE TypeInv'
<1>1. CASE UNCHANGED rateVars
  <2>1. NamesOK'
    BY <1>1 DEF TypeInv, NamesOK, rateVars
  <2> QED
    BY <1>1, <2>1 DEF TypeInv, rateVars
<1>2. CASE Tick
  BY <1>2, TypeTick
<1>3. ASSUME NEW c \in Clients, NEW s \in Subjects, NEW t \in Tools, Begin(c, s, t) PROVE TypeInv'
  BY <1>3, TypeBegin
<1>4. ASSUME NEW c \in Clients, Discard(c) \/ Open(c) \/ Write(c) \/ Rename(c) \/ Kill(c)
      PROVE  TypeInv'
  BY <1>4, TypeDiscard, TypeOpen, TypeWrite, TypeRename, TypeKill
<1> QED
  BY <1>1, <1>2, <1>3, <1>4 DEF RateNext

LEMMA TypeMeans == ASSUME RateLimiterAssumption, TypeInv PROVE RateTypeOK /\ RefusedForCause
<1>1. \A c \in Clients : caller[c] # Idle => (caller[c].handle # NoFile <=> caller[c].pc = "write")
  BY BusyIs DEF CallOK
<1>2. ASSUME NEW i \in Inodes, IsState(disk[i]) PROVE disk[i].calls \in [Patterns -> Seq(1..MaxNow)]
  <2>1. PICK calls : RecordsOK(calls, charged) /\ disk[i] = Whole(calls)
    BY <1>2, KindsDiffer DEF TypeInv, ContentOK
  <2> QED
    BY <2>1, KindsDiffer DEF RecordsOK, Times
<1>3. RateTypeOK
  BY <1>1, <1>2 DEF RateTypeOK, TypeInv, NamesOK, GrantOK, Times, RateLimiterAssumption
<1>4. RefusedForCause
  BY BusyIs, Zenon DEF RefusedForCause, CallOK, Enough
<1> QED
  BY <1>3, <1>4

\* The two names of the state are never one file and a handle is held only while writing,
\* for any callers, limits and bounds; what a file holds is a state of the limiter's.
THEOREM RateTypeCorrect == RateLimiterAssumption => (RateSpec => []RateTypeOK)
<1> SUFFICES ASSUME RateLimiterAssumption PROVE RateSpec => []RateTypeOK
  OBVIOUS
<1>1. RateInit => TypeInv
  BY TypeInit
<1>2. TypeInv /\ [RateNext]_rateVars => TypeInv'
  BY TypeStep
<1>3. TypeInv => RateTypeOK
  BY TypeMeans
<1> QED
  BY <1>1, <1>2, <1>3, PTL DEF RateSpec

\* Nobody is refused for a rate that was not used up: however callers overlap, lose each
\* other's records, remove and overlay files or are killed, a call that check_and_record
\* finds over a limit finds its pattern charged that often in its window.
THEOREM RefusalsAreForCause == RateLimiterAssumption => (RateSpec => []RefusedForCause)
<1> SUFFICES ASSUME RateLimiterAssumption PROVE RateSpec => []RefusedForCause
  OBVIOUS
<1>1. RateInit => TypeInv
  BY TypeInit
<1>2. TypeInv /\ [RateNext]_rateVars => TypeInv'
  BY TypeStep
<1>3. TypeInv => RefusedForCause
  BY TypeMeans
<1> QED
  BY <1>1, <1>2, <1>3, PTL DEF RateSpec

-----------------------------------------------------------------------------
(* Calls that follow each other                                             *)

\* A pattern has one window, whoever's limit it is: rate.rs keeps one record per pattern,
\* and prunes it with the window of whoever calls.
OneWindow ==
    \A s, r \in Subjects : \A p \in DOMAIN Limits[s] \cap DOMAIN Limits[r] :
      Limits[s][p].window = Limits[r][p].window

\* The calls let through that still count on a pattern.
Recent(G, p, time) ==
    {g \in G : p \in MatchingOf(g.subject, g.tool) /\ g.at > time - Limits[g.subject][p].window}

AllCovered(calls, G, time) == \A p \in Patterns : Covers(calls[p], Recent(G, p, time))

Known(G) == \A g \in G : GrantOK(g) /\ g.at \in Times

LEMMA RecentShrinks ==
    ASSUME RateLimiterAssumption, NEW G, Known(G), NEW time \in Nat, NEW later \in Nat, time <= later,
           NEW p
    PROVE  Recent(G, p, later) \subseteq Recent(G, p, time)
<1> SUFFICES ASSUME NEW g \in Recent(G, p, later) PROVE g \in Recent(G, p, time)
  OBVIOUS
<1>1. /\ g \in G /\ p \in MatchingOf(g.subject, g.tool) /\ g.at > later - Limits[g.subject][p].window
      /\ g.subject \in Subjects /\ g.at \in Nat
  BY DEF Recent, Known, GrantOK, Times
<1> DEFINE w == Limits[g.subject][p].window
<1>2. w \in Nat
  BY <1>1, LimitIs DEF MatchingOf
<1> HIDE DEF w
<1>3. g.at > later - w
  BY <1>1 DEF w
<1>4. g.at > time - w
  BY <1>1, <1>2, <1>3
<1> QED
  BY <1>1, <1>4 DEF Recent, w

LEMMA CoveredLater ==
    ASSUME RateLimiterAssumption, NEW G, Known(G), NEW time \in Nat, NEW later \in Nat, time <= later,
           NEW calls \in [Patterns -> Seq(Times)], AllCovered(calls, G, time)
    PROVE  AllCovered(calls, G, later)
<1> SUFFICES ASSUME NEW p \in Patterns PROVE Covers(calls[p], Recent(G, p, later))
  BY DEF AllCovered
<1>1. Recent(G, p, later) \in SUBSET Recent(G, p, time)
  BY RecentShrinks
<1>2. calls[p] \in Seq(Nat) /\ Covers(calls[p], Recent(G, p, time))
  BY TimesAreNat DEF AllCovered
<1> QED
  BY <1>1, <1>2, CoversSome

Ours(exceeded, x) == IF exceeded = {} THEN {x} ELSE {}

\* What the loop records has a place for the calls that count, this one among them; and if
\* it lets the call through, fewer than the limit counted before.
LEMMA RecordedCovers ==
    ASSUME RateLimiterAssumption, OneWindow, NEW s \in Subjects, NEW t \in Tools, NEW at \in Times,
           NEW calls \in [Patterns -> Seq(Times)], NEW charge \in Charges(calls, s, t, at),
           NEW G, Known(G), AllCovered(calls, G, at),
           NEW x, x.at = at, x.subject = s, x.tool = t
    PROVE  /\ AllCovered(Recorded(calls, charge, s, at), G \cup Ours(charge.exceeded, x), at)
           /\ charge.exceeded = {} => \A p \in MatchingOf(s, t) :
                /\ IsFiniteSet(Recent(G, p, at))
                /\ Cardinality(Recent(G, p, at)) < Limits[s][p].count
<1> DEFINE rec == Recorded(calls, charge, s, at)
           all == G \cup Ours(charge.exceeded, x)
<1>1. /\ charge.pushed \subseteq MatchingOf(s, t) /\ charge.exceeded \subseteq MatchingOf(s, t)
      /\ MatchingOf(s, t) \subseteq Patterns /\ MatchingOf(s, t) \subseteq DOMAIN Limits[s]
      /\ charge.exceeded = {} => charge.pushed = MatchingOf(s, t)
      /\ \A p \in charge.pushed :
           ~OverLimit(Pruned(calls[p], at, Limits[s][p].window), Limits[s][p])
  BY ChargeIs DEF MatchingOf
<1>2. at \in Nat /\ at > 0 /\ Seq(Times) \subseteq Seq(Nat)
  BY TimesAreNat DEF Times
<1>3. \A p \in Patterns :
        rec[p] = IF p \in charge.pushed THEN Append(Pruned(calls[p], at, Limits[s][p].window), at)
                 ELSE IF p \in charge.exceeded THEN Pruned(calls[p], at, Limits[s][p].window)
                 ELSE calls[p]
  BY DEF Recorded
<1> HIDE DEF rec
<1>4. ASSUME NEW p \in MatchingOf(s, t)
      PROVE  /\ Pruned(calls[p], at, Limits[s][p].window) \in Seq(Nat)
             /\ Covers(Pruned(calls[p], at, Limits[s][p].window), Recent(G, p, at))
  <2> DEFINE w == Limits[s][p].window
             R == Recent(G, p, at)
  <2>1. p \in Patterns /\ p \in DOMAIN Limits[s] /\ w \in Nat
    BY <1>1, LimitIs
  <2>2. calls[p] \in Seq(Nat) /\ Covers(calls[p], R)
    BY <1>2, <2>1 DEF AllCovered
  <2>3. ASSUME NEW g \in R PROVE g.at > Cutoff(at, w)
    <3>1. /\ g \in G /\ p \in DOMAIN Limits[g.subject] /\ g.subject \in Subjects
          /\ g.at > at - Limits[g.subject][p].window /\ g.at \in Nat /\ g.at > 0
      BY DEF Recent, MatchingOf, Known, GrantOK, Times
    <3>2. Limits[g.subject][p].window = w
      BY <2>1, <3>1 DEF OneWindow
    <3>3. g.at > at - w
      BY <3>1, <3>2
    <3> HIDE DEF w
    <3> QED
      BY <1>2, <2>1, <3>1, <3>3, CutoffIs
  <2> HIDE DEF w, R
  <2>4. Covers(Pruned(calls[p], at, w), R)
    BY <2>2, <2>3, PrunedCovers
  <2>5. Pruned(calls[p], at, w) \in Seq(Nat)
    BY <2>2, PrunedWithin
  <2> QED
    BY <2>4, <2>5 DEF w, R
<1>5. ASSUME NEW p \in Patterns PROVE Covers(rec[p], Recent(all, p, at))
  <2> DEFINE kept == Pruned(calls[p], at, Limits[s][p].window)
             R == Recent(G, p, at)
  <2>1. Recent(all, p, at) \subseteq R \cup {x}
    BY DEF Recent, Ours
  <2>2. charge.exceeded # {} => Recent(all, p, at) = R
    BY DEF Recent, Ours
  <2>3. p \notin MatchingOf(s, t) => Recent(all, p, at) = R
    BY DEF Recent, Ours
  <2>4. calls[p] \in Seq(Nat) /\ Covers(calls[p], R)
    BY <1>2 DEF AllCovered
  <2>5. p \in MatchingOf(s, t) => kept \in Seq(Nat) /\ Covers(kept, R)
    BY <1>4
  <2> HIDE DEF kept, R, all
  <2>6. CASE p \in charge.pushed
    <3>1. kept \in Seq(Nat) /\ Covers(kept, R) /\ rec[p] = Append(kept, at)
      BY <1>1, <1>3, <2>5, <2>6 DEF kept
    <3>2. Covers(Append(kept, x.at), R \cup {x})
      BY <1>2, <3>1, CoversAppend
    <3>3. Append(kept, at) \in Seq(Nat)
      BY <1>2, <3>1
    <3> QED
      BY <2>1, <3>1, <3>2, <3>3, CoversSome
  <2>7. CASE p \notin charge.pushed /\ p \in charge.exceeded
    BY <1>1, <1>3, <2>2, <2>5, <2>7 DEF kept
  <2>8. CASE p \notin charge.pushed /\ p \notin charge.exceeded
    BY <1>1, <1>3, <2>2, <2>3, <2>4, <2>8
  <2> QED
    BY <2>6, <2>7, <2>8
<1>6. ASSUME charge.exceeded = {}, NEW p \in MatchingOf(s, t)
      PROVE  IsFiniteSet(Recent(G, p, at)) /\ Cardinality(Recent(G, p, at)) < Limits[s][p].count
  <2> DEFINE limit == Limits[s][p]
             kept == Pruned(calls[p], at, limit.window)
             R == Recent(G, p, at)
  <2>1. kept \in Seq(Nat) /\ Covers(kept, R) /\ ~OverLimit(kept, limit) /\ limit.count \in Nat
    BY <1>1, <1>4, <1>6, LimitIs
  <2> HIDE DEF limit, kept, R
  <2>2. IsFiniteSet(R) /\ Cardinality(R) <= Len(kept)
    BY <2>1, CoversBound
  <2>3. Cardinality(R) \in Nat /\ Len(kept) \in Nat
    BY <2>1, <2>2, FS_CardinalityType
  <2> QED
    BY <2>1, <2>2, <2>3 DEF OverLimit, R, limit
<1> QED
  BY <1>5, <1>6 DEF AllCovered, rec, all

Stored == IF file # NoFile /\ IsState(disk[file]) THEN disk[file].calls ELSE NoCalls

\* The call of a caller, as it is counted.
Grant(r, c, n) ==
    [call |-> n, by |-> c, at |-> r.at, subject |-> r.subject, tool |-> r.tool]

\* What the one call under way has, and what it counted.
CallFits(c, r) ==
    /\ r.pc # "remove"
    /\ r.pc = "write" => r.handle = tmp /\ disk[tmp] = Empty
    /\ r.pc = "rename" => tmp # NoFile /\ disk[tmp] = Whole(r.calls)
    /\ \A g \in granted : g.at <= r.at
    /\ AllCovered(r.calls, granted \cup Ours(r.exceeded, Grant(r, c, begun)), now)
    /\ r.exceeded = {} => \A p \in MatchingOf(r.subject, r.tool) :
         /\ IsFiniteSet(Recent(granted, p, r.at))
         /\ Cardinality(Recent(granted, p, r.at)) < Limits[r.subject][p].count

\* The calls that a window of a subject's limit counts.
Window(G, s, p, end) ==
    {g \in G : /\ g.subject = s /\ p \in Matches[g.tool]
               /\ g.at \in (end - Limits[s][p].window + 1)..end}

InLimits ==
    \A s \in Subjects : \A p \in DOMAIN Limits[s] : \A end \in Times :
      Cardinality(Window(granted, s, p, end)) <= Limits[s][p].count

InTurn ==
    /\ \A a, b \in Clients : caller[a] # Idle /\ caller[b] # Idle => a = b
    /\ FileIsWhole
    /\ IsFiniteSet(granted) /\ Known(granted) /\ \A g \in granted : g.at <= now
    /\ AllCovered(Stored, granted, now)
    /\ \A c \in Clients : caller[c] # Idle => CallFits(c, caller[c])
    /\ InLimits

AloneInv == alone => InTurn

\* A call more, of which fewer than the limit counted.
LEMMA WindowMore ==
    ASSUME RateLimiterAssumption, OneWindow, NEW G, IsFiniteSet(G), Known(G), NEW x, GrantOK(x),
           x.at \in Times, \A g \in G : g.at <= x.at,
           \A p \in MatchingOf(x.subject, x.tool) :
             /\ IsFiniteSet(Recent(G, p, x.at))
             /\ Cardinality(Recent(G, p, x.at)) < Limits[x.subject][p].count,
           NEW s \in Subjects, NEW p \in DOMAIN Limits[s], NEW end \in Times,
           Cardinality(Window(G, s, p, end)) <= Limits[s][p].count
    PROVE  Cardinality(Window(G \cup {x}, s, p, end)) <= Limits[s][p].count
<1> DEFINE w == Limits[s][p].window
           n == Limits[s][p].count
           V == Window(G, s, p, end)
           W == Window(G \cup {x}, s, p, end)
           R == Recent(G, p, x.at)
<1>1. w \in Nat /\ n \in Nat /\ end \in Nat /\ x.at \in Nat
  BY LimitIs DEF Times
<1>2. CASE x \notin W
  <2>1. W = V
    BY <1>2 DEF Window
  <2> QED
    BY <2>1
<1>3. CASE x \in W
  <2>1. x.subject = s /\ p \in Matches[x.tool] /\ x.at >= end - w + 1 /\ x.at <= end
    <3>1. x.at \in (end - w + 1)..end
      BY <1>3 DEF Window
    <3> HIDE DEF w
    <3>2. x.at >= end - w + 1 /\ x.at <= end
      BY <1>1, <3>1
    <3> QED
      BY <1>3, <3>2 DEF Window
  <2>2. p \in MatchingOf(x.subject, x.tool)
    BY <2>1 DEF MatchingOf
  <2>3. W \subseteq R \cup {x}
    <3> SUFFICES ASSUME NEW g \in W, g # x PROVE g \in R
      OBVIOUS
    <3>1. /\ g \in G /\ g.subject = s /\ p \in Matches[g.tool] /\ g.at \in (end - w + 1)..end
          /\ g.at \in Nat
      BY DEF Window, Known, Times
    <3> HIDE DEF w
    <3>2. g.at > x.at - w
      BY <1>1, <2>1, <3>1
    <3>3. p \in MatchingOf(g.subject, g.tool)
      BY <3>1 DEF MatchingOf
    <3> QED
      BY <3>1, <3>2, <3>3 DEF Recent, w
  <2>4. IsFiniteSet(R) /\ Cardinality(R) < n
    BY <2>1, <2>2
  <2> HIDE DEF W, R, n
  <2>5. IsFiniteSet(R \cup {x}) /\ Cardinality(R \cup {x}) <= Cardinality(R) + 1
    <3>1. /\ IsFiniteSet(R \cup {x})
          /\ Cardinality(R \cup {x}) = IF x \in R THEN Cardinality(R) ELSE Cardinality(R) + 1
      BY <2>4, FS_AddElement
    <3>2. Cardinality(R) \in Nat
      BY <2>4, FS_CardinalityType
    <3> QED
      BY <3>1, <3>2
  <2>6. IsFiniteSet(W) /\ Cardinality(W) <= Cardinality(R \cup {x})
    BY <2>3, <2>5, FS_Subset
  <2>7. Cardinality(W) \in Nat /\ Cardinality(R) \in Nat /\ Cardinality(R \cup {x}) \in Nat
    BY <2>4, <2>5, <2>6, FS_CardinalityType
  <2>8. Cardinality(W) <= n
    BY <1>1, <2>4, <2>5, <2>6, <2>7
  <2> QED
    BY <2>8 DEF W, n
<1> QED
  BY <1>2, <1>3

LEMMA NothingCovered ==
    ASSUME NEW calls \in [Patterns -> Seq(Times)], NEW time PROVE AllCovered(calls, {}, time)
<1>1. ASSUME NEW p \in Patterns PROVE Covers(calls[p], {})
  <2>1. <<>> \in [{} -> 1..Len(calls[p])]
    OBVIOUS
  <2> QED
    BY <2>1 DEF Covers, Places
<1>2. \A p \in Patterns : Recent({}, p, time) = {}
  BY DEF Recent
<1> QED
  BY <1>1, <1>2 DEF AllCovered

LEMMA InTurnInit == ASSUME RateLimiterAssumption, RateInit PROVE InTurn
<1>1. NoCalls \in [Patterns -> Seq(Times)] /\ Stored = NoCalls
  BY DEF NoCalls, Stored, RateInit
<1>2. AllCovered(Stored, granted, now)
  BY <1>1, NothingCovered DEF RateInit
<1>3. InLimits
  <2>1. ASSUME NEW s \in Subjects, NEW p \in DOMAIN Limits[s], NEW end
        PROVE  Cardinality(Window({}, s, p, end)) <= Limits[s][p].count
    <3>1. Window({}, s, p, end) = {} /\ Cardinality({}) = 0
      BY FS_EmptySet DEF Window
    <3> QED
      BY <3>1, LimitIs
  <2> QED
    BY <2>1 DEF InLimits, RateInit
<1>4. IsFiniteSet({})
  BY FS_EmptySet
<1> QED
  BY <1>2, <1>3, <1>4 DEF RateInit, InTurn, FileIsWhole, Known

\* What a whole file holds is what load_state returns.
LEMMA StoredIs ==
    ASSUME TypeInv
    PROVE  Stored \in [Patterns -> Seq(Times)]
  BY LoadedOK DEF Stored, RecordsOK

LEMMA InTurnBegin ==
    ASSUME RateLimiterAssumption, OneWindow, TypeInv, NEW c \in Clients, NEW s \in Subjects,
           NEW t \in Tools, Begin(c, s, t), InTurn, \A d \in Clients : caller[d] = Idle
    PROVE  InTurn'
<1>1. PICK calls, charge : Started(c, s, t, calls, charge)
  BY BeginIs
<1>2. begun' = begun + 1 /\ UNCHANGED <<now, file, tmp, disk, granted>>
  BY BeginIs
<1> DEFINE r == caller'[c]
           rec == Recorded(calls, charge, s, now)
           x == Grant(r, c, begun')
<1>3. /\ r = [pc |-> "open", subject |-> s, tool |-> t, at |-> now, handle |-> NoFile,
              calls |-> rec, exceeded |-> charge.exceeded]
      /\ DOMAIN caller' = Clients /\ \A d \in Clients \ {c} : caller'[d] = caller[d]
  BY <1>1 DEF Started, TypeInv, InTurn, FileIsWhole
<1>4. calls = Stored /\ charge \in Charges(calls, s, t, now)
  BY <1>1 DEF Started, Stored
<1>5. calls \in [Patterns -> Seq(Times)] /\ now \in Times /\ Known(granted)
      /\ AllCovered(calls, granted, now)
  BY <1>4, StoredIs DEF TypeInv, InTurn
<1>6. x.at = now /\ x.subject = s /\ x.tool = t
  BY <1>3 DEF Grant
<1> HIDE DEF rec, r, x
<1>7. /\ AllCovered(rec, granted \cup Ours(charge.exceeded, x), now)
      /\ charge.exceeded = {} => \A p \in MatchingOf(s, t) :
           /\ IsFiniteSet(Recent(granted, p, now))
           /\ Cardinality(Recent(granted, p, now)) < Limits[s][p].count
  BY <1>4, <1>5, <1>6, RecordedCovers DEF rec
<1>8. /\ r.pc = "open" /\ r.at = now /\ r.calls = rec /\ r.exceeded = charge.exceeded
      /\ r.subject = s /\ r.tool = t
  BY <1>3
<1>9. /\ r.pc # "remove" /\ r.pc # "write" /\ r.pc # "rename"
      /\ \A g \in granted : g.at <= r.at
      /\ AllCovered(r.calls, granted \cup Ours(r.exceeded, x), now)
      /\ r.exceeded = {} => \A p \in MatchingOf(r.subject, r.tool) :
           /\ IsFiniteSet(Recent(granted, p, r.at))
           /\ Cardinality(Recent(granted, p, r.at)) < Limits[r.subject][p].count
  BY <1>7, <1>8 DEF InTurn
<1>10. CallFits(c, caller[c])'
  BY <1>2, <1>9 DEF CallFits, x, r
<1>11. \A d \in Clients : caller'[d] # Idle => d = c
  BY <1>3
<1>12. \A d \in Clients : caller'[d] # Idle => CallFits(d, caller[d])'
  BY <1>10, <1>11
<1>13. AllCovered(Stored, granted, now)'
  BY <1>2 DEF InTurn, AllCovered, Stored
<1>14. InLimits' /\ FileIsWhole'
  BY <1>2 DEF InTurn, InLimits, FileIsWhole
<1> QED
  BY <1>2, <1>11, <1>12, <1>13, <1>14 DEF InTurn

\* A step of the one call under way, in which nothing is let through.
LEMMA InTurnCaller ==
    ASSUME RateLimiterAssumption, InTurn, NEW c \in Clients, caller[c] # Idle,
           UNCHANGED <<now, granted>>, \A d \in Clients \ {c} : caller'[d] = caller[d],
           FileIsWhole', AllCovered(Stored', granted, now),
           caller'[c] = Idle \/ CallFits(c, caller[c])'
    PROVE  InTurn'
<1>1. \A d \in Clients \ {c} : caller'[d] = Idle
  BY DEF InTurn
<1>2. \A d \in Clients : caller'[d] # Idle => d = c /\ CallFits(d, caller[d])'
  BY <1>1
<1>3. AllCovered(Stored, granted, now)'
  BY DEF AllCovered
<1>4. InLimits'
  BY DEF InTurn, InLimits
<1> QED
  BY <1>2, <1>3, <1>4 DEF InTurn

LEMMA InTurnOpen ==
    ASSUME RateLimiterAssumption, TypeInv, NEW c \in Clients, Open(c), InTurn PROVE InTurn'
<1> DEFINE i == IF tmp = NoFile THEN Free ELSE tmp
<1>1. /\ caller[c].pc = "open" /\ tmp' = i /\ file' = file
      /\ disk' = [disk EXCEPT ![i] = Empty]
      /\ caller' = [caller EXCEPT ![c].pc = "write", ![c].handle = i]
      /\ UNCHANGED <<now, granted, charged, begun, alone>>
  BY DEF Open, OpenTmp
<1>2. i \in Inodes /\ i # file /\ i # NoFile
  BY FreeIsFree, KindsDiffer DEF TypeInv, NamesOK
<1> HIDE DEF i
<1>3. caller[c] # Idle
  BY <1>1, KindsDiffer DEF Pcs
<1> DEFINE r == caller[c]
           q == caller'[c]
<1>4. CallOK(r, charged, now)
  BY <1>3, BusyIs
<1>5. q = [r EXCEPT !.pc = "write", !.handle = i] /\ \A d \in Clients \ {c} : caller'[d] = caller[d]
  BY <1>1 DEF TypeInv
<1>6. CallFits(c, r)
  BY <1>3 DEF InTurn
<1> HIDE DEF r, q
<1>7. /\ q.pc = "write" /\ q.handle = i /\ q.at = r.at /\ q.calls = r.calls /\ q.exceeded = r.exceeded
      /\ q.subject = r.subject /\ q.tool = r.tool
  BY <1>4, <1>5 DEF CallOK
<1>8. disk'[i] = Empty /\ (file # NoFile => disk'[file] = disk[file])
  BY <1>1, <1>2 DEF TypeInv, NamesOK
<1>9. Grant(q, c, begun) = Grant(r, c, begun)
  BY <1>7 DEF Grant
<1>10. /\ q.pc # "remove" /\ q.pc # "rename" /\ q.handle = tmp' /\ disk'[tmp'] = Empty
       /\ \A g \in granted : g.at <= q.at
       /\ AllCovered(q.calls, granted \cup Ours(q.exceeded, Grant(q, c, begun)), now)
       /\ q.exceeded = {} => \A p \in MatchingOf(q.subject, q.tool) :
            /\ IsFiniteSet(Recent(granted, p, q.at))
            /\ Cardinality(Recent(granted, p, q.at)) < Limits[q.subject][p].count
  BY <1>1, <1>6, <1>7, <1>8, <1>9 DEF CallFits
<1>11. CallFits(c, caller[c])'
  BY <1>1, <1>10 DEF CallFits, q
<1>12. Stored' = Stored /\ FileIsWhole'
  BY <1>1, <1>8 DEF Stored, FileIsWhole, InTurn
<1>13. AllCovered(Stored', granted, now)
  BY <1>12 DEF InTurn
<1> QED
  BY <1>1, <1>3, <1>5, <1>11, <1>12, <1>13, InTurnCaller

LEMMA InTurnWrite ==
    ASSUME RateLimiterAssumption, TypeInv, NEW c \in Clients, Write(c), InTurn PROVE InTurn'
<1> DEFINE r == caller[c]
           q == caller'[c]
           i == caller[c].handle
<1>1. r.pc = "write" /\ r # Idle /\ UNCHANGED <<now, file, tmp, granted, charged, begun, alone>>
  BY WriteIs, KindsDiffer DEF Pcs
<1>2. CallOK(r, charged, now) /\ CallFits(c, r)
  BY <1>1, BusyIs DEF InTurn
<1>3. i = tmp /\ disk[i] = Empty /\ i \in Inodes /\ i # NoFile /\ i # file
  BY <1>1, <1>2 DEF CallFits, CallOK, TypeInv, NamesOK
<1>4. disk' = [disk EXCEPT ![i] = Whole(r.calls)]
  BY <1>3, WriteIs
<1>5. q = [r EXCEPT !.pc = "rename", !.handle = NoFile] /\ \A d \in Clients \ {c} : caller'[d] = caller[d]
  <2>1. caller' = [caller EXCEPT ![c].pc = "rename", ![c].handle = NoFile] /\ DOMAIN caller = Clients
    BY WriteIs DEF TypeInv
  <2> QED
    BY <2>1
<1> HIDE DEF r, q, i
<1>6. /\ q.pc = "rename" /\ q.at = r.at /\ q.calls = r.calls /\ q.exceeded = r.exceeded
      /\ q.subject = r.subject /\ q.tool = r.tool
  BY <1>2, <1>5 DEF CallOK
<1>7. disk'[i] = Whole(q.calls) /\ (file # NoFile => disk'[file] = disk[file])
  BY <1>3, <1>4, <1>6 DEF TypeInv, NamesOK
<1>8. Grant(q, c, begun) = Grant(r, c, begun)
  BY <1>6 DEF Grant
<1>9. /\ q.pc # "remove" /\ q.pc # "write" /\ tmp # NoFile /\ disk'[tmp] = Whole(q.calls)
      /\ \A g \in granted : g.at <= q.at
      /\ AllCovered(q.calls, granted \cup Ours(q.exceeded, Grant(q, c, begun)), now)
      /\ q.exceeded = {} => \A p \in MatchingOf(q.subject, q.tool) :
           /\ IsFiniteSet(Recent(granted, p, q.at))
           /\ Cardinality(Recent(granted, p, q.at)) < Limits[q.subject][p].count
  BY <1>2, <1>3, <1>6, <1>7, <1>8 DEF CallFits
<1>10. CallFits(c, caller[c])'
  BY <1>1, <1>9 DEF CallFits, q
<1>11. Stored' = Stored /\ FileIsWhole'
  BY <1>1, <1>7 DEF Stored, FileIsWhole, InTurn
<1>12. AllCovered(Stored', granted, now)
  BY <1>11 DEF InTurn
<1> QED
  BY <1>1, <1>5, <1>10, <1>11, <1>12, InTurnCaller DEF r

LEMMA InTurnRename ==
    ASSUME RateLimiterAssumption, OneWindow, TypeInv, NEW c \in Clients, Rename(c), InTurn
    PROVE  InTurn'
<1> DEFINE r == caller[c]
           x == Grant(r, c, begun)
<1>1. r.pc = "rename" /\ r # Idle /\ UNCHANGED <<now, disk, charged, begun, alone>>
  BY KindsDiffer DEF Rename, Pcs
<1>2. CallOK(r, charged, now) /\ CallFits(c, r)
  BY <1>1, BusyIs DEF InTurn
<1>3. tmp # NoFile /\ disk[tmp] = Whole(r.calls) /\ file' = tmp
  BY <1>1, <1>2 DEF CallFits, Rename
<1>4. granted' = granted \cup Ours(r.exceeded, x)
  BY <1>3 DEF Rename, Ours, Grant
<1>5. \A d \in Clients : caller'[d] = Idle
  BY <1>1 DEF Rename, InTurn, TypeInv
<1>6. /\ x.at = r.at /\ x.subject = r.subject /\ x.tool = r.tool
      /\ r.at \in Times /\ r.at <= now /\ r.subject \in Subjects /\ r.tool \in Tools
  BY <1>2 DEF Grant, CallOK
<1> HIDE DEF r, x
<1>7. Stored' = r.calls /\ FileIsWhole'
  BY <1>1, <1>3, KindsDiffer DEF Stored, FileIsWhole
<1>8. AllCovered(Stored, granted, now)'
  <2>1. AllCovered(r.calls, granted', now)
    BY <1>2, <1>4 DEF CallFits, x
  <2> QED
    BY <1>1, <1>7, <2>1 DEF AllCovered
<1>9. IsFiniteSet(granted') /\ Known(granted') /\ \A g \in granted' : g.at <= now
  <2>1. IsFiniteSet(granted \cup {x})
    BY FS_AddElement DEF InTurn
  <2>2. GrantOK(x) /\ x.at \in Times /\ x.at <= now
    BY <1>6 DEF GrantOK
  <2> QED
    BY <1>4, <2>1, <2>2 DEF InTurn, Ours, Known
<1>10. InLimits'
  <2>1. CASE r.exceeded # {}
    BY <1>4, <2>1 DEF InTurn, InLimits, Ours
  <2>2. CASE r.exceeded = {}
    <3>1. granted' = granted \cup {x}
      BY <1>4, <2>2 DEF Ours
    <3>2. /\ \A g \in granted : g.at <= x.at
          /\ \A p \in MatchingOf(x.subject, x.tool) :
               /\ IsFiniteSet(Recent(granted, p, x.at))
               /\ Cardinality(Recent(granted, p, x.at)) < Limits[x.subject][p].count
      BY <1>2, <1>6, <2>2 DEF CallFits
    <3>3. GrantOK(x) /\ x.at \in Times /\ IsFiniteSet(granted) /\ Known(granted)
      BY <1>6 DEF GrantOK, InTurn
    <3>4. ASSUME NEW s \in Subjects, NEW p \in DOMAIN Limits[s], NEW end \in Times
          PROVE  Cardinality(Window(granted', s, p, end)) <= Limits[s][p].count
      <4>1. Cardinality(Window(granted, s, p, end)) <= Limits[s][p].count
        BY DEF InTurn, InLimits
      <4> QED
        BY <3>1, <3>2, <3>3, <4>1, WindowMore
    <3> QED
      BY <3>4 DEF InLimits
  <2> QED
    BY <2>1, <2>2
<1> QED
  BY <1>1, <1>5, <1>7, <1>8, <1>9, <1>10 DEF InTurn

LEMMA InTurnKill ==
    ASSUME RateLimiterAssumption, TypeInv, NEW c \in Clients, Kill(c), InTurn PROVE InTurn'
<1>1. /\ caller[c] # Idle /\ caller'[c] = Idle /\ \A d \in Clients \ {c} : caller'[d] = caller[d]
      /\ UNCHANGED <<now, file, tmp, disk, granted, charged, begun, alone>>
  BY DEF Kill, TypeInv
<1>2. Stored' = Stored /\ FileIsWhole'
  BY <1>1 DEF Stored, FileIsWhole, InTurn
<1>3. AllCovered(Stored', granted, now)
  BY <1>2 DEF InTurn
<1> QED
  BY <1>1, <1>2, <1>3, InTurnCaller

LEMMA InTurnTick ==
    ASSUME RateLimiterAssumption, TypeInv, Tick, InTurn PROVE InTurn'
<1>1. /\ now \in Nat /\ now' \in Nat /\ now <= now' /\ now' = now + 1
      /\ UNCHANGED <<file, tmp, disk, caller, granted, charged, begun, alone>>
  BY DEF TypeInv, Tick, Times
<1>2. Known(granted) /\ \A g \in granted : g.at \in Nat
  BY DEF InTurn, Known, Times
<1>3. AllCovered(Stored, granted, now')
  BY <1>1, <1>2, StoredIs, CoveredLater DEF InTurn
<1>4. ASSUME NEW c \in Clients, caller[c] # Idle PROVE CallFits(c, caller[c])'
  <2> DEFINE r == caller[c]
             all == granted \cup Ours(r.exceeded, Grant(r, c, begun))
  <2>1. CallOK(r, charged, now) /\ CallFits(c, r)
    BY <1>4, BusyIs DEF InTurn
  <2>2. Known(all)
    <3>1. GrantOK(Grant(r, c, begun)) /\ Grant(r, c, begun).at \in Times
      BY <2>1 DEF GrantOK, Grant, CallOK
    <3> QED
      BY <1>2, <3>1 DEF Known, Ours
  <2>3. r.calls \in [Patterns -> Seq(Times)] /\ AllCovered(r.calls, all, now)
    BY <2>1 DEF CallOK, CallFits
  <2>4. AllCovered(r.calls, all, now')
    <3> HIDE DEF r, all
    <3> QED
      BY <1>1, <2>2, <2>3, CoveredLater
  <2>5. r' = r /\ all' = all
    BY <1>1
  <2>6. AllCovered(r.calls, all, now)'
    BY <1>1, <2>4, <2>5 DEF AllCovered
  <2> QED
    BY <1>1, <2>1, <2>6 DEF CallFits
<1>5. AllCovered(Stored, granted, now)' /\ FileIsWhole'
  BY <1>1, <1>3 DEF AllCovered, Stored, FileIsWhole, InTurn
<1>6. InLimits'
  BY <1>1 DEF InTurn, InLimits
<1>7. \A g \in granted : g.at <= now'
  BY <1>1, <1>2 DEF InTurn
<1> QED
  BY <1>1, <1>4, <1>5, <1>6, <1>7 DEF InTurn

LEMMA AloneStep ==
    ASSUME RateLimiterAssumption, OneWindow, TypeInv, AloneInv, [RateNext]_rateVars PROVE AloneInv'
<1> SUFFICES ASSUME alone' PROVE InTurn'
  BY DEF AloneInv
<1>1. CASE UNCHANGED rateVars
  BY <1>1 DEF AloneInv, InTurn, FileIsWhole, AllCovered, Stored, InLimits, CallFits, rateVars
<1>2. CASE Tick
  <2>1. alone' = alone
    BY <1>2 DEF Tick
  <2> QED
    BY <1>2, <2>1, InTurnTick DEF AloneInv
<1>3. ASSUME NEW c \in Clients, NEW s \in Subjects, NEW t \in Tools, Begin(c, s, t) PROVE InTurn'
  <2>1. alone /\ \A d \in Clients : caller[d] = Idle
    BY <1>3 DEF Begin
  <2> QED
    BY <1>3, <2>1, InTurnBegin DEF AloneInv
<1>4. ASSUME NEW c \in Clients, Discard(c) PROVE InTurn'
  <2>1. alone' = alone /\ caller[c] # Idle /\ caller[c].pc = "remove"
    BY <1>4, KindsDiffer DEF Discard, Pcs
  <2> QED
    BY <2>1 DEF AloneInv, InTurn, CallFits
<1>5. ASSUME NEW c \in Clients, Open(c) \/ Write(c) \/ Rename(c) \/ Kill(c) PROVE InTurn'
  <2>1. alone' = alone
    BY <1>5 DEF Open, Write, Rename, Kill
  <2> QED
    BY <1>5, <2>1, InTurnOpen, InTurnWrite, InTurnRename, InTurnKill DEF AloneInv
<1> QED
  BY <1>1, <1>2, <1>3, <1>4, <1>5 DEF RateNext

LEMMA AloneMeans == ASSUME RateLimiterAssumption, AloneInv PROVE WithinLimit
<1> SUFFICES ASSUME alone, NEW s \in Subjects, NEW p \in DOMAIN Limits[s], NEW end \in 1..MaxNow
             PROVE  Cardinality(Window(granted, s, p, end)) <= Limits[s][p].count
  BY Zenon DEF WithinLimit, Window
<1> QED
  BY DEF AloneInv, InTurn, InLimits, Times

\* A limit is a limit, for calls that follow each other: whoever is killed between any two
\* of its system calls, and whatever it leaves in rate-state.json.tmp, no window of a
\* subject's limit has more calls let through than the limit's count.  The patterns that
\* tokens share must have one window.
THEOREM LimitsHold == RateLimiterAssumption /\ OneWindow => (RateSpec => []WithinLimit)
<1> SUFFICES ASSUME RateLimiterAssumption, OneWindow PROVE RateSpec => []WithinLimit
  OBVIOUS
<1>1. RateInit => TypeInv /\ AloneInv
  BY TypeInit, InTurnInit DEF AloneInv
<1>2. TypeInv /\ AloneInv /\ [RateNext]_rateVars => (TypeInv /\ AloneInv)'
  BY TypeStep, AloneStep
<1>3. AloneInv => WithinLimit
  BY AloneMeans
<1> QED
  BY <1>1, <1>2, <1>3, PTL DEF RateSpec

-----------------------------------------------------------------------------
(* LocalSkills: the skills of a machine, for any directories and manifests, *)
(* and any requests and changes to the files.  The passes of a resolution   *)
(* are loops; what holds while they run is ResolveInv.                      *)

\* What the loader makes of a directory.
Skills == {[c.meta EXCEPT !.dir = d] : c \in {x \in Contents : x.is = "skill"}, d \in DirSet}

\* What the loader returns is a sequence of skills, each with the directory that it was read from.
LEMMA LoadedIs ==
    ASSUME LocalSkillsAssumption, NEW d \in [DirSet -> Contents]
    PROVE  Load(d) \in Seq(Skills)
<1> DEFINE N == Len(Dirs)
           S == Seq(Skills)
           g == [p \in (1..N) \X S |->
                   IF d[Dirs[p[1]]].is = "skill"
                   THEN Append(p[2], [d[Dirs[p[1]]].meta EXCEPT !.dir = Dirs[p[1]]])
                   ELSE p[2]]
           F == [i \in 0..N |-> 0]
<1>1. N \in Nat /\ DOMAIN Dirs = 1..N /\ \A i \in 1..N : Dirs[i] \in DirSet
  BY DEF LocalSkillsAssumption
<1>2. g \in [(1..N) \X S -> S]
  <2> SUFFICES ASSUME NEW p \in (1..N) \X S PROVE g[p] \in S
    OBVIOUS
  <2>1. Dirs[p[1]] \in DirSet /\ d[Dirs[p[1]]] \in Contents /\ p[2] \in S
    BY <1>1
  <2>2. CASE d[Dirs[p[1]]].is = "skill"
    <3>1. [d[Dirs[p[1]]].meta EXCEPT !.dir = Dirs[p[1]]] \in Skills
      BY <2>1, <2>2 DEF Skills
    <3> QED
      BY <2>1, <2>2, <3>1
  <2> QED
    BY <2>1, <2>2
<1>3. <<>> \in S
  OBVIOUS
<1> HIDE DEF S
<1>4. PICK f : Recurses(f, S, <<>>, N, g)
  <2> HIDE DEF g
  <2> QED
    BY <1>1, <1>2, <1>3, Recursion
<1> DEFINE Body(h) == [i \in 0..N |->
            IF i = 0 THEN <<>>
            ELSE IF d[Dirs[i]].is = "skill" THEN Append(h[i - 1], [d[Dirs[i]].meta EXCEPT !.dir = Dirs[i]])
            ELSE h[i - 1]]
<1>5. f = Body(f)
  <2>1. f \in [0..N -> S] /\ f[0] = <<>>
    BY <1>4 DEF Recurses
  <2>2. ASSUME NEW i \in 1..N
        PROVE  f[i] = IF d[Dirs[i]].is = "skill"
                      THEN Append(f[i - 1], [d[Dirs[i]].meta EXCEPT !.dir = Dirs[i]])
                      ELSE f[i - 1]
    <3>1. f[i - 1] \in S
      BY <1>1, <2>1
    <3>2. f[i] = g[<<i, f[i - 1]>>]
      BY <1>4 DEF Recurses
    <3> QED
      BY <3>1, <3>2
  <2>3. ASSUME NEW i \in 0..N PROVE f[i] = Body(f)[i]
    <3>1. CASE i = 0
      BY <2>1, <3>1
    <3>2. CASE i # 0
      <4>1. i \in 1..N
        BY <1>1, <3>2
      <4> QED
        BY <2>2, <3>2, <4>1
    <3> QED
      BY <3>1, <3>2
  <2> QED
    BY <2>1, <2>3
<1>6. Loaded(d) = (CHOOSE h : h = Body(h))[N]
  BY DEF Loaded
<1>7. ASSUME NEW h, h = Body(h) PROVE h[N] \in S
  <2> DEFINE T == {k \in Nat : k <= N => h[k] \in S}
  <2>1. 0 \in T
    BY <1>1, <1>3, <1>7
  <2>2. ASSUME NEW k \in Nat, k \in T PROVE k + 1 \in T
    <3> SUFFICES ASSUME k + 1 <= N PROVE h[k + 1] \in S
      OBVIOUS
    <3>1. h[k] \in S /\ k + 1 \in 1..N /\ k + 1 \in 0..N /\ k + 1 # 0 /\ (k + 1) - 1 = k
      BY <1>1, <2>2
    <3>2. g[<<k + 1, h[k]>>] \in S
      <4> HIDE DEF g
      <4> QED
        BY <1>2, <3>1
    <3>3. Body(h)[k + 1] = g[<<k + 1, h[k]>>]
      BY <3>1
    <3> QED
      BY <1>7, <3>2, <3>3
  <2> HIDE DEF T
  <2>3. N \in T
    BY <1>1, <2>1, <2>2, AllNaturals
  <2> QED
    BY <1>1, <2>3 DEF T
<1>8. Loaded(d) \in S
  <2> HIDE DEF Body
  <2> QED
    BY <1>5, <1>6, <1>7
<1> QED
  BY <1>3, <1>8 DEF Load, S

-----------------------------------------------------------------------------
(* What the indexes and the scopes lead to are positions of the registry.   *)

IsRegistry == registry \in Seq(Skills)

\* The name of a skill is indexed at the last position that has it.
LEMMA NameIndexIs ==
    ASSUME IsRegistry, NEW n \in Names
    PROVE  /\ NameIndex(n) \in DOMAIN registry
           /\ registry[NameIndex(n)].name = n
<1> DEFINE N == Len(registry)
           T == {k \in 0..N : N - k \in DOMAIN registry /\ registry[N - k].name = n}
<1>1. N \in Nat /\ DOMAIN registry = 1..N
  BY DEF IsRegistry
<1>2. PICK j \in DOMAIN registry : registry[j].name = n
  BY DEF Names
<1>3. N - j \in T
  <2>1. N - (N - j) = j /\ N - j \in 0..N
    BY <1>1
  <2> QED
    BY <1>2, <2>1
<1>4. T \in SUBSET Nat
  BY <1>1
<1>5. PICK m \in T : \A k \in T : m <= k
  <2> HIDE DEF T
  <2> QED
    BY <1>3, <1>4, LeastOf
<1>6. ASSUME NEW i \in DOMAIN registry, registry[i].name = n PROVE i <= N - m
  <2>1. N - (N - i) = i /\ N - i \in 0..N
    BY <1>1
  <2>2. N - i \in T
    BY <1>6, <2>1
  <2>3. m <= N - i /\ m \in Nat /\ i \in Nat
    BY <1>1, <1>4, <1>5, <2>2
  <2> QED
    BY <1>1, <2>3
<1>7. N - m \in DOMAIN registry /\ registry[N - m].name = n
  BY <1>5
<1> HIDE DEF T
<1> QED
  BY <1>6, <1>7 DEF NameIndex

LEMMA ByNameIn ==
    ASSUME IsRegistry
    PROVE  \A n : ByName(n) \subseteq DOMAIN registry
BY NameIndexIs DEF ByName

LEMMA DependsIn ==
    ASSUME IsRegistry
    PROVE  \A i : DependsOn(i) \subseteq DOMAIN registry
BY ByNameIn DEF DependsOn

LEMMA LeadsIn ==
    ASSUME IsRegistry
    PROVE  /\ \A s : Direct(s) \subseteq DOMAIN registry
           /\ \A q : Through(q) \subseteq DOMAIN registry
           /\ \A q : Seeds(q) \subseteq DOMAIN registry
<1>1. \A t : ByTool(t) \subseteq DOMAIN registry
  BY DEF ByTool
<1>2. \A t : ByProviderOf(t) \subseteq DOMAIN registry
  BY DEF ByProviderOf, ByProvider, ByCategory
<1>3. ASSUME NEW s PROVE Direct(s) \subseteq DOMAIN registry
  <2>1. UNION {ByProviderOf(t) : t \in {u \in ManifestTools : u.name = s.on}} \subseteq
            DOMAIN registry
    BY <1>2
  <2> QED
    BY <1>1, <2>1, ByNameIn DEF Direct
<1>4. ASSUME NEW q PROVE Through(q) \subseteq DOMAIN registry
  BY <1>1, <1>2 DEF Through
<1> QED
  BY <1>3, <1>4 DEF Seeds

-----------------------------------------------------------------------------
(* Closure.  X holds what the seeds lead to if it contains them, and what    *)
(* each of its skills depends on; Reach is the least such set.              *)

Holds(X, seeds) == seeds \subseteq X /\ \A i \in X : DependsOn(i) \subseteq X
IsClosure(X, seeds) ==
    /\ X \subseteq DOMAIN registry /\ Holds(X, seeds)
    /\ \A Y \in SUBSET DOMAIN registry : Holds(Y, seeds) => X \subseteq Y

LEMMA OneClosure ==
    ASSUME NEW X, NEW Y, NEW seeds, IsClosure(X, seeds), IsClosure(Y, seeds)
    PROVE  X = Y
BY DEF IsClosure

\* A rising sequence of sets of positions has stopped rising when it is as long as the registry.
LEMMA ReachIs ==
    ASSUME IsRegistry, NEW seeds \in SUBSET DOMAIN registry
    PROVE  IsClosure(Reach(seeds), seeds)
<1> DEFINE N == Len(registry)
           S == SUBSET DOMAIN registry
           Grown(X) == X \cup UNION {DependsOn(i) : i \in X}
           g == [p \in (1..N) \X S |-> Grown(p[2])]
           Body(h) == [n \in 0..N |-> IF n = 0 THEN seeds ELSE Grown(h[n - 1])]
<1>1. N \in Nat /\ DOMAIN registry = 1..N
  BY DEF IsRegistry
<1>2. \A X \in S : Grown(X) \in S
  BY DependsIn
<1>3. g \in [(1..N) \X S -> S]
  BY <1>2
<1>4. PICK f : Recurses(f, S, seeds, N, g)
  <2> HIDE DEF g, S
  <2>1. seeds \in S
    BY DEF S
  <2> QED
    BY <1>1, <1>3, <2>1, Recursion
<1>5. f = Body(f)
  <2>1. f \in [0..N -> S] /\ f[0] = seeds
    BY <1>4 DEF Recurses
  <2>2. ASSUME NEW i \in 1..N PROVE f[i] = Grown(f[i - 1])
    <3>1. f[i - 1] \in S
      BY <1>1, <2>1
    <3>2. f[i] = g[<<i, f[i - 1]>>]
      BY <1>4 DEF Recurses
    <3> HIDE DEF S, Grown
    <3> QED
      BY <3>1, <3>2
  <2>3. ASSUME NEW i \in 0..N PROVE f[i] = Body(f)[i]
    <3> HIDE DEF S, Grown
    <3>1. CASE i = 0
      BY <2>1, <3>1
    <3>2. CASE i # 0
      <4>1. i \in 1..N
        BY <1>1, <3>2
      <4> QED
        BY <2>2, <3>2, <4>1
    <3> QED
      BY <3>1, <3>2
  <2> HIDE DEF Grown
  <2> QED
    BY <2>1, <2>3
<1>6. Reach(seeds) = (CHOOSE h : h = Body(h))[N]
  BY DEF Reach
<1>7. PICK h : h = Body(h) /\ Reach(seeds) = h[N]
  <2> HIDE DEF Body
  <2> QED
    BY <1>5, <1>6
<1>8. h[0] = seeds
  BY <1>1, <1>7
<1>9. ASSUME NEW k \in Nat, k + 1 <= N PROVE h[k + 1] = Grown(h[k])
  <2>1. k + 1 \in 0..N /\ k + 1 # 0 /\ (k + 1) - 1 = k
    BY <1>1, <1>9
  <2> HIDE DEF Grown
  <2> QED
    BY <1>7, <2>1
<1> DEFINE Stable(X) == \A i \in X : DependsOn(i) \subseteq X
           T == {k \in Nat : k <= N => /\ h[k] \in S /\ seeds \subseteq h[k]
                                       /\ \A Y \in S : Holds(Y, seeds) => h[k] \subseteq Y
                                       /\ Stable(h[k]) \/ k <= Cardinality(h[k])}
<1>10. IsFiniteSet(DOMAIN registry) /\ Cardinality(DOMAIN registry) = N
  BY <1>1, FS_Interval
<1>11. \A X \in S : IsFiniteSet(X) /\ Cardinality(X) \in Nat
  BY <1>10, FS_Subset, FS_CardinalityType
<1>12. 0 \in T
  BY <1>8, <1>11 DEF Holds
<1>13. ASSUME NEW k \in Nat, k \in T PROVE k + 1 \in T
  <2> SUFFICES ASSUME k + 1 <= N
               PROVE  /\ h[k + 1] \in S /\ seeds \subseteq h[k + 1]
                      /\ \A Y \in S : Holds(Y, seeds) => h[k + 1] \subseteq Y
                      /\ Stable(h[k + 1]) \/ k + 1 <= Cardinality(h[k + 1])
    OBVIOUS
  <2> DEFINE X == h[k]
  <2>1. h[k + 1] = Grown(X)
    BY <1>9
  <2>2. /\ X \in S /\ seeds \subseteq X
        /\ \A Y \in S : Holds(Y, seeds) => X \subseteq Y
        /\ Stable(X) \/ k <= Cardinality(X)
    BY <1>1, <1>13
  <2> HIDE DEF X, T
  <2>3. h[k + 1] \in S /\ seeds \subseteq h[k + 1]
    BY <1>2, <2>1, <2>2
  <2>4. ASSUME NEW Y \in S, Holds(Y, seeds) PROVE h[k + 1] \subseteq Y
    <3>1. X \subseteq Y
      BY <2>2, <2>4
    <3> QED
      BY <2>1, <2>4, <3>1 DEF Holds
  <2>5. CASE Stable(X)
    <3>1. h[k + 1] = X
      BY <2>1, <2>5
    <3> QED
      BY <2>3, <2>4, <2>5, <3>1
  <2>6. CASE ~Stable(X)
    <3>1. X \subseteq Grown(X) /\ X # Grown(X)
      BY <2>6
    <3>2. Grown(X) \in S
      BY <1>2, <2>2
    <3> HIDE DEF Grown, Stable, S
    <3>3. Cardinality(X) <= Cardinality(Grown(X)) /\ Cardinality(X) # Cardinality(Grown(X))
      BY <1>11, <3>1, <3>2, FS_Subset
    <3>4. k <= Cardinality(X)
      BY <2>2, <2>6
    <3>5. Cardinality(X) \in Nat /\ Cardinality(Grown(X)) \in Nat
      BY <1>11, <2>2, <3>2
    <3>6. k + 1 <= Cardinality(Grown(X))
      BY <3>3, <3>4, <3>5
    <3> QED
      BY <2>1, <2>3, <2>4, <3>6
  <2> QED
    BY <2>5, <2>6
<1>14. N \in T
  <2> HIDE DEF T
  <2> QED
    BY <1>1, <1>12, <1>13, AllNaturals
<1> DEFINE R == h[N]
<1>15. /\ R \in S /\ seeds \subseteq R
       /\ \A Y \in S : Holds(Y, seeds) => R \subseteq Y
       /\ Stable(R) \/ N <= Cardinality(R)
  BY <1>1, <1>14
<1> HIDE DEF T, R
<1>16. Stable(R)
  <2> SUFFICES ASSUME N <= Cardinality(R) PROVE Stable(R)
    BY <1>15
  <2>1. R = DOMAIN registry
    <3>1. Cardinality(R) <= N /\ Cardinality(R) \in Nat /\ (Cardinality(R) = N => R = DOMAIN registry)
      BY <1>10, <1>11, <1>15, FS_Subset
    <3> QED
      BY <1>1, <3>1
  <2> QED
    BY <2>1, DependsIn
<1> QED
  <2>1. Reach(seeds) = R
    BY <1>7 DEF R
  <2>2. IsClosure(R, seeds)
    BY <1>15, <1>16 DEF IsClosure, Holds
  <2> HIDE DEF R
  <2> QED
    BY <2>1, <2>2
-----------------------------------------------------------------------------
(* Each pass appends what it finds and does not yet have.                   *)

\* Indices has been added to what was resolved.
Added(indices) ==
    /\ Elements(resolved') = Elements(resolved) \cup indices
    /\ resolved' \in Seq(DOMAIN registry) /\ Distinct(resolved')
    /\ Len(resolved) <= Len(resolved')
    /\ \A i \in DOMAIN resolved : i \in DOMAIN resolved' /\ resolved'[i] = resolved[i]

LEMMA FoundIs ==
    ASSUME IsRegistry, NEW indices \in SUBSET DOMAIN registry, Found(indices),
           resolved \in Seq(DOMAIN registry), Distinct(resolved)
    PROVE  Added(indices)
<1> DEFINE D == indices \ Elements(resolved)
           m == Len(resolved)
<1>1. PICK q \in Orders(D) : resolved' = resolved \o q
  BY DEF Found
<1>2. PICK n \in Nat : q \in [1..n -> D]
  <2>1. Len(registry) \in Nat
    BY DEF IsRegistry
  <2>2. q \in UNION {[1..n -> D] : n \in 0..Len(registry)}
    BY <1>1 DEF Orders
  <2>3. \A n \in 0..Len(registry) : n \in Nat
    BY <2>1
  <2> HIDE DEF D
  <2> QED
    BY <2>2, <2>3
<1>3. resolved' = resolved \o q
  BY <1>1
<1>4. Elements(q) = D /\ Distinct(q)
  BY <1>1 DEF Orders
<1>5. q \in Seq(DOMAIN registry) /\ Len(q) = n
  <2>1. q \in [1..n -> DOMAIN registry]
    BY <1>2
  <2> HIDE DEF D
  <2> QED
    BY <2>1
<1>6. m \in Nat /\ DOMAIN resolved = 1..m
  OBVIOUS
<1> DEFINE r == resolved \o q
<1>7. /\ r \in Seq(DOMAIN registry) /\ Len(r) = m + n /\ DOMAIN r = 1..(m + n)
      /\ \A i \in 1..m : r[i] = resolved[i]
      /\ \A i \in 1..n : r[m + i] = q[i]
  <2> HIDE DEF D
  <2> QED
    BY <1>2, <1>5, <1>6
<1>8. DOMAIN q = 1..n
  BY <1>2
<1>9. ASSUME NEW k \in (m + 1)..(m + n) PROVE k - m \in 1..n /\ r[k] = q[k - m]
  <2>1. k - m \in 1..n /\ m + (k - m) = k
    BY <1>2, <1>6
  <2> HIDE DEF D, r
  <2> QED
    BY <1>7, <2>1
<1> HIDE DEF r, D, m
<1>10. Elements(r) = Elements(resolved) \cup D
  <2>1. \A x \in Elements(r) : x \in Elements(resolved) \cup D
    <3> SUFFICES ASSUME NEW k \in DOMAIN r PROVE r[k] \in Elements(resolved) \cup D
      BY DEF Elements
    <3>1. CASE k <= m
      BY <1>6, <1>7, <3>1 DEF Elements
    <3>2. CASE ~(k <= m)
      <4>1. k \in (m + 1)..(m + n)
        BY <1>2, <1>6, <1>7, <3>2
      <4> QED
        BY <1>2, <1>9, <4>1
    <3> QED
      BY <3>1, <3>2
  <2>2. \A x \in Elements(resolved) : x \in Elements(r)
    <3> SUFFICES ASSUME NEW k \in DOMAIN resolved PROVE resolved[k] \in Elements(r)
      BY DEF Elements
    <3>1. k \in DOMAIN r /\ r[k] = resolved[k]
      BY <1>2, <1>6, <1>7
    <3> QED
      BY <3>1 DEF Elements
  <2>3. \A x \in Elements(q) : x \in Elements(r)
    <3> SUFFICES ASSUME NEW k \in DOMAIN q PROVE q[k] \in Elements(r)
      BY DEF Elements
    <3>1. m + k \in DOMAIN r /\ r[m + k] = q[k]
      BY <1>2, <1>6, <1>7, <1>8
    <3> QED
      BY <3>1 DEF Elements
  <2> HIDE DEF D
  <2> QED
    BY <1>4, <2>1, <2>2, <2>3
<1>11. Distinct(r)
  <2>1. ASSUME NEW i \in DOMAIN r, NEW j \in DOMAIN r, r[i] = r[j], i <= m PROVE i = j
    <3>1. i \in DOMAIN resolved /\ r[i] = resolved[i]
      BY <1>6, <1>7, <2>1
    <3>2. CASE j <= m
      <4>1. j \in DOMAIN resolved /\ r[j] = resolved[j]
        BY <1>2, <1>6, <1>7, <3>2
      <4> QED
        BY <2>1, <3>1, <4>1 DEF Distinct
    <3>3. CASE ~(j <= m)
      <4>1. j \in (m + 1)..(m + n)
        BY <1>2, <1>6, <1>7, <3>3
      <4>2. r[j] \in D
        BY <1>2, <1>9, <4>1
      <4>3. r[i] \in Elements(resolved)
        BY <3>1 DEF Elements
      <4>4. \A x \in D : x \notin Elements(resolved)
        BY DEF D
      <4> QED
        BY <2>1, <4>2, <4>3, <4>4
    <3> QED
      BY <3>2, <3>3
  <2>2. ASSUME NEW i \in DOMAIN r, NEW j \in DOMAIN r, r[i] = r[j], ~(i <= m), ~(j <= m) PROVE i = j
    <3>1. i \in (m + 1)..(m + n) /\ j \in (m + 1)..(m + n)
      BY <1>2, <1>6, <1>7, <2>2
    <3>2. i - m \in DOMAIN q /\ j - m \in DOMAIN q /\ q[i - m] = q[j - m]
      BY <1>8, <1>9, <2>2, <3>1
    <3>3. i - m = j - m
      BY <1>4, <3>2 DEF Distinct
    <3> QED
      BY <1>2, <1>6, <3>1, <3>3
  <2> HIDE DEF D
  <2> QED
    BY <2>1, <2>2 DEF Distinct
<1>12. resolved' = r
  BY <1>3 DEF r
<1>13. \A i \in DOMAIN resolved : i \in DOMAIN r
  BY <1>2, <1>6, <1>7
<1>14. m <= Len(r)
  BY <1>2, <1>6, <1>7
<1> USE DEF m, D
<1> QED
  BY <1>6, <1>7, <1>10, <1>11, <1>12, <1>13, <1>14 DEF Added

-----------------------------------------------------------------------------
(* The invariant.                                                           *)

SkillsTypeInv ==
    /\ req \in Asked /\ dirs \in [DirSet -> Contents] /\ edits \in 0..MaxEdits
    /\ \A d \in DirSet : <<d, dirs[d]>> \in texts
    /\ IsRegistry
    /\ resolved \in Seq(DOMAIN registry) /\ Distinct(resolved)
    /\ next \in Nat \ {0}
    /\ pass \in {"begin", "scopes", "tools", "deps", "answer", "files", "end"}

\* What the scopes before position n lead to.
UpTo(n) == UNION {Direct(Subject[i]) : i \in {j \in DOMAIN Subject : j < n}}

ResolveInv ==
    /\ pass = "begin" => resolved = <<>> /\ next = 1
    /\ pass = "scopes" => next <= Len(Subject) + 1 /\ Elements(resolved) = UpTo(next)
    /\ pass = "tools" => next = 1 /\ Elements(resolved) = UpTo(Len(Subject) + 1)
    /\ pass = "deps" =>
         /\ next <= Len(resolved) + 1
         /\ Seeds(Subject) \subseteq Elements(resolved)
         /\ \A i \in DOMAIN resolved : i < next =>
                DependsOn(resolved[i]) \subseteq Elements(resolved)
         /\ \A Y \in SUBSET DOMAIN registry : Holds(Y, Seeds(Subject)) =>
                Elements(resolved) \subseteq Y
    /\ Resolved => IsClosure(Elements(resolved), Seeds(Subject))

ReadsTexts == req.kind \in {"detail", "bundle", "batch", "read"}
TheirText(n, text) ==
    \/ text = NoText
    \/ \E h \in texts : /\ h[1] = registry[NameIndex(n)].dir /\ h[2].is = "skill"
                        /\ text = Text(h[1], h[2].version)

AnswerInv ==
    /\ pass \in {"begin", "scopes", "tools", "deps", "answer"} => got = NoFiles
    /\ pass # "end" => answer = NoAnswer
    /\ \A n \in DOMAIN got : n \in VisibleNames \cap Names /\ TheirText(n, got[n])
    /\ answer.status \in {0, 200, 400, 404, 500}
    /\ answer.status = 200 /\ ReadsTexts => answer.names = DOMAIN got /\ answer.texts = got

SkillsInv == SkillsTypeInv /\ ResolveInv /\ AnswerInv

\* While the registry and the request stay, so does what they lead to.
LEMMA Stay ==
    ASSUME registry' = registry, req' = req
    PROVE  /\ Names' = Names /\ Subject' = Subject /\ ReadsTexts' = ReadsTexts
           /\ \A n : NameIndex(n)' = NameIndex(n)
           /\ \A i : DependsOn(i)' = DependsOn(i)
           /\ \A s : Direct(s)' = Direct(s)
           /\ \A q : Through(q)' = Through(q)
           /\ \A q : Seeds(q)' = Seeds(q)
           /\ \A n : UpTo(n)' = UpTo(n)
<1>1. Names' = Names
  BY DEF Names
<1>2. Subject' = Subject
  BY DEF Subject
<1>3. ReadsTexts' = ReadsTexts
  BY DEF ReadsTexts
<1>4. ASSUME NEW n PROVE NameIndex(n)' = NameIndex(n)
  BY DEF NameIndex
<1>5. ASSUME NEW n PROVE ByName(n)' = ByName(n)
  BY <1>1, <1>4 DEF ByName
<1>6. ASSUME NEW i PROVE DependsOn(i)' = DependsOn(i)
  BY <1>5 DEF DependsOn
<1>7. ASSUME NEW s PROVE Direct(s)' = Direct(s)
  BY <1>5 DEF Direct, ByTool, ByProviderOf, ByProvider, ByCategory
<1>8. ASSUME NEW q PROVE Through(q)' = Through(q)
  BY DEF Through, ByTool, ByProviderOf, ByProvider, ByCategory
<1>9. ASSUME NEW q PROVE Seeds(q)' = Seeds(q)
  BY <1>7, <1>8 DEF Seeds
<1>10. ASSUME NEW n PROVE UpTo(n)' = UpTo(n)
  BY <1>2, <1>7 DEF UpTo
<1> QED
  BY <1>1, <1>2, <1>3, <1>4, <1>6, <1>7, <1>8, <1>9, <1>10

LEMMA HoldsStays ==
    ASSUME registry' = registry, req' = req, NEW X, NEW seeds
    PROVE  Holds(X, seeds)' <=> Holds(X, seeds)
BY Stay DEF Holds

LEMMA ClosureStays ==
    ASSUME registry' = registry, req' = req, NEW X, NEW seeds, IsClosure(X, seeds)
    PROVE  IsClosure(X, seeds)'
BY HoldsStays DEF IsClosure

LEMMA SubjectIs ==
    ASSUME LocalSkillsAssumption, SkillsTypeInv
    PROVE  Len(Subject) \in Nat /\ DOMAIN Subject = 1..Len(Subject)
<1>1. Subject \in Seq(Elements(Subject))
  BY DEF LocalSkillsAssumption, SkillsTypeInv, Subject, IsSequence
<1> QED
  BY <1>1

LEMMA SeedsAre ==
    ASSUME LocalSkillsAssumption, SkillsTypeInv
    PROVE  Seeds(Subject) = UpTo(Len(Subject) + 1) \cup Through(Subject)
<1>1. {j \in DOMAIN Subject : j < Len(Subject) + 1} = DOMAIN Subject
  BY SubjectIs
<1> QED
  BY <1>1 DEF Seeds, UpTo

-----------------------------------------------------------------------------
(* Initially, and the loading of a command.                                 *)

LEMMA SkillsStart == ASSUME LocalSkillsAssumption, SkillsInit PROVE SkillsInv
<1>1. dirs \in [DirSet -> Contents] /\ req \in Asked /\ edits \in 0..MaxEdits
  BY DEF SkillsInit, LocalSkillsAssumption
<1>2. IsRegistry
  BY <1>1, LoadedIs DEF SkillsInit, IsRegistry
<1>3. SkillsTypeInv
  BY <1>1, <1>2 DEF SkillsInit, SkillsTypeInv, Distinct
<1>4. ResolveInv
  BY DEF SkillsInit, ResolveInv, Resolved
<1>5. AnswerInv
  BY DEF SkillsInit, AnswerInv, NoAnswer, NoFiles
<1> QED
  BY <1>3, <1>4, <1>5 DEF SkillsInv

LEMMA BeginKeeps == ASSUME LocalSkillsAssumption, SkillsInv, BeginRequest PROVE SkillsInv'
<1>1. pass = "begin" /\ resolved = <<>> /\ next = 1 /\ got = NoFiles /\ answer = NoAnswer
  BY DEF SkillsInv, ResolveInv, AnswerInv, BeginRequest
<1>2. UNCHANGED <<req, next, resolved, got, dirs, edits, texts>>
  BY DEF BeginRequest, Files
<1>3. \/ pass' = "end" /\ answer' = [status |-> 500]
      \/ pass' = "scopes" /\ answer' = NoAnswer
  BY <1>1 DEF BeginRequest
<1>4. IsRegistry'
  BY LoadedIs DEF BeginRequest, SkillsInv, SkillsTypeInv, IsRegistry
<1>5. SkillsTypeInv'
  BY <1>1, <1>2, <1>3, <1>4 DEF SkillsInv, SkillsTypeInv, Distinct
<1>6. ResolveInv'
  <2>1. UpTo(1)' = {} /\ Elements(<<>>) = {}
    <3>1. Len(Subject) \in Nat /\ DOMAIN Subject = 1..Len(Subject)
      BY SubjectIs DEF SkillsInv
    <3>2. Subject' = Subject
      BY <1>2 DEF Subject
    <3>3. {j \in DOMAIN Subject' : j < 1} = {}
      BY <3>1, <3>2
    <3> QED
      BY <3>3 DEF UpTo, Elements
  <2>2. next' <= Len(Subject') + 1
    <3>1. Len(Subject) \in Nat
      BY SubjectIs DEF SkillsInv
    <3>2. Subject' = Subject
      BY <1>2 DEF Subject
    <3> QED
      BY <1>1, <1>2, <3>1, <3>2
  <2>3. Elements(resolved') = UpTo(next)'
    <3>1. resolved' = <<>> /\ next' = 1
      BY <1>1, <1>2
    <3> QED
      BY <2>1, <3>1 DEF UpTo
  <2> QED
    BY <1>1, <1>2, <1>3, <2>2, <2>3 DEF ResolveInv, Resolved
<1>7. AnswerInv'
  BY <1>1, <1>2, <1>3 DEF AnswerInv, NoAnswer, NoFiles
<1> QED
  BY <1>5, <1>6, <1>7 DEF SkillsInv

-----------------------------------------------------------------------------
(* The passes.                                                              *)

LEMMA ScopePassKeeps == ASSUME LocalSkillsAssumption, SkillsInv, ScopePass PROVE SkillsInv'
<1>1. /\ pass = "scopes" /\ next <= Len(Subject) + 1 /\ Elements(resolved) = UpTo(next)
      /\ next \in Nat \ {0} /\ IsRegistry
      /\ resolved \in Seq(DOMAIN registry) /\ Distinct(resolved)
  BY DEF SkillsInv, SkillsTypeInv, ResolveInv, ScopePass
<1>2. UNCHANGED <<registry, req, todo, got, answer, dirs, edits, texts>>
  BY DEF ScopePass, Files
<1>3. Len(Subject) \in Nat /\ DOMAIN Subject = 1..Len(Subject)
  BY SubjectIs DEF SkillsInv
<1>4. Subject' = Subject /\ \A n : UpTo(n)' = UpTo(n)
  BY <1>2, Stay
<1>5. CASE next > Len(Subject)
  <2>1. pass' = "tools" /\ next' = 1 /\ resolved' = resolved /\ next = Len(Subject) + 1
    BY <1>1, <1>3, <1>5 DEF ScopePass
  <2>2. SkillsTypeInv'
    BY <1>1, <1>2, <2>1 DEF SkillsInv, SkillsTypeInv, IsRegistry
  <2>3. ResolveInv'
    BY <1>1, <1>4, <2>1 DEF ResolveInv, Resolved
  <2>4. AnswerInv'
    BY <1>1, <1>2, <2>1 DEF SkillsInv, AnswerInv, NoAnswer, NoFiles
  <2> QED
    BY <2>2, <2>3, <2>4 DEF SkillsInv
<1>6. CASE ~(next > Len(Subject))
  <2>1. /\ pass' = pass /\ next' = next + 1 /\ next \in DOMAIN Subject
        /\ Found(Direct(Subject[next]))
    BY <1>1, <1>3, <1>6 DEF ScopePass
  <2>2. Added(Direct(Subject[next]))
    BY <1>1, <2>1, FoundIs, LeadsIn
  <2>3. SkillsTypeInv'
    BY <1>1, <1>2, <2>1, <2>2 DEF SkillsInv, SkillsTypeInv, IsRegistry, Added
  <2>4. UpTo(next + 1) = UpTo(next) \cup Direct(Subject[next])
    <3>1. {j \in DOMAIN Subject : j < next + 1} = {j \in DOMAIN Subject : j < next} \cup {next}
      BY <1>1, <1>3, <2>1
    <3> QED
      BY <3>1 DEF UpTo
  <2>5. ResolveInv'
    BY <1>1, <1>3, <1>4, <2>1, <2>2, <2>4 DEF ResolveInv, Resolved, Added
  <2>6. AnswerInv'
    BY <1>1, <1>2, <2>1 DEF SkillsInv, AnswerInv, NoAnswer, NoFiles
  <2> QED
    BY <2>3, <2>5, <2>6 DEF SkillsInv
<1> QED
  BY <1>5, <1>6

LEMMA ToolsPassKeeps == ASSUME LocalSkillsAssumption, SkillsInv, ToolsPass PROVE SkillsInv'
<1>1. /\ pass = "tools" /\ next = 1 /\ Elements(resolved) = UpTo(Len(Subject) + 1)
      /\ IsRegistry /\ resolved \in Seq(DOMAIN registry) /\ Distinct(resolved)
  BY DEF SkillsInv, SkillsTypeInv, ResolveInv, ToolsPass
<1>2. UNCHANGED <<registry, req, next, todo, got, answer, dirs, edits, texts>> /\ pass' = "deps"
  BY DEF ToolsPass, Files
<1>3. Subject' = Subject /\ Seeds(Subject)' = Seeds(Subject)
  BY <1>2, Stay
<1>4. Added(Through(Subject))
  BY <1>1, FoundIs, LeadsIn DEF ToolsPass
<1>5. SkillsTypeInv'
  BY <1>1, <1>2, <1>4 DEF SkillsInv, SkillsTypeInv, IsRegistry, Added
<1>6. Elements(resolved') = Seeds(Subject)
  BY <1>1, <1>4, SeedsAre DEF SkillsInv, Added
<1>7. ResolveInv'
  <2>1. next' <= Len(resolved') + 1
    BY <1>1, <1>2, <1>4 DEF Added
  <2>2. \A i \in DOMAIN resolved' : ~(i < next')
    BY <1>1, <1>2, <1>4 DEF Added
  <2>3. \A Y \in SUBSET DOMAIN registry' : Holds(Y, Seeds(Subject))' =>
            Elements(resolved') \subseteq Y
    BY <1>3, <1>6 DEF Holds
  <2> QED
    BY <1>2, <1>3, <1>6, <2>1, <2>2, <2>3 DEF ResolveInv, Resolved
<1>8. AnswerInv'
  BY <1>1, <1>2 DEF SkillsInv, AnswerInv, NoAnswer, NoFiles
<1> QED
  BY <1>5, <1>7, <1>8 DEF SkillsInv

LEMMA DepsPassKeeps == ASSUME LocalSkillsAssumption, SkillsInv, DepsPass PROVE SkillsInv'
<1>1. /\ pass = "deps" /\ next \in Nat \ {0}
      /\ IsRegistry /\ resolved \in Seq(DOMAIN registry) /\ Distinct(resolved)
      /\ next <= Len(resolved) + 1
      /\ Seeds(Subject) \subseteq Elements(resolved)
      /\ \A i \in DOMAIN resolved : i < next =>
             DependsOn(resolved[i]) \subseteq Elements(resolved)
      /\ \A Y \in SUBSET DOMAIN registry : Holds(Y, Seeds(Subject)) =>
             Elements(resolved) \subseteq Y
  BY DEF SkillsInv, SkillsTypeInv, ResolveInv, DepsPass
<1>2. UNCHANGED <<registry, req, todo, got, answer, dirs, edits, texts>>
  BY DEF DepsPass, Files
<1>3. Subject' = Subject /\ Seeds(Subject)' = Seeds(Subject)
  BY <1>2, Stay
<1>4. Len(resolved) \in Nat /\ DOMAIN resolved = 1..Len(resolved)
  BY <1>1
<1>5. CASE next > Len(resolved)
  <2>1. pass' = "answer" /\ next' = next /\ resolved' = resolved
    BY <1>5 DEF DepsPass
  <2>2. SkillsTypeInv'
    BY <1>1, <1>2, <2>1 DEF SkillsInv, SkillsTypeInv, IsRegistry
  <2>3. \A i \in Elements(resolved) : DependsOn(i) \subseteq Elements(resolved)
    <3>1. \A i \in DOMAIN resolved : i < next
      BY <1>1, <1>4, <1>5
    <3> QED
      BY <1>1, <3>1 DEF Elements
  <2>4. Elements(resolved) \subseteq DOMAIN registry
    BY <1>1 DEF Elements
  <2>5. IsClosure(Elements(resolved), Seeds(Subject))
    BY <1>1, <2>3, <2>4 DEF IsClosure, Holds
  <2>6. IsClosure(Elements(resolved), Seeds(Subject))'
    <3>1. \A j : DependsOn(j)' = DependsOn(j)
      BY <1>2, Stay
    <3>2. Elements(resolved)' = Elements(resolved)
      BY <2>1 DEF Elements
    <3> QED
      BY <1>2, <1>3, <2>5, <3>1, <3>2 DEF IsClosure, Holds
  <2>7. ResolveInv'
    BY <2>1, <2>6 DEF ResolveInv
  <2>8. AnswerInv'
    BY <1>1, <1>2, <2>1 DEF SkillsInv, AnswerInv, NoAnswer, NoFiles
  <2> QED
    BY <2>2, <2>7, <2>8 DEF SkillsInv
<1>6. CASE ~(next > Len(resolved))
  <2> DEFINE i == resolved[next]
  <2>1. pass' = pass /\ next' = next + 1 /\ Found(DependsOn(i)) /\ next \in DOMAIN resolved
    BY <1>1, <1>4, <1>6 DEF DepsPass, Dependencies
  <2>2. Added(DependsOn(i))
    BY <1>1, <2>1, FoundIs, DependsIn
  <2>3. SkillsTypeInv'
    BY <1>1, <1>2, <2>1, <2>2 DEF SkillsInv, SkillsTypeInv, IsRegistry, Added
  <2>4. next' <= Len(resolved') + 1
    BY <1>1, <1>4, <1>6, <2>1, <2>2 DEF Added
  <2>5. Seeds(Subject)' \subseteq Elements(resolved')
    BY <1>1, <1>3, <2>2 DEF Added
  <2>6. ASSUME NEW j \in DOMAIN resolved', j < next'
        PROVE  DependsOn(resolved'[j]) \subseteq Elements(resolved')
    <3>1. j \in DOMAIN resolved /\ resolved'[j] = resolved[j]
      BY <1>1, <1>4, <2>1, <2>2, <2>6 DEF Added
    <3>2. CASE j = next
      BY <2>2, <3>1, <3>2 DEF Added
    <3>3. CASE j # next
      <4>1. j < next
        BY <1>1, <1>4, <2>1, <2>6, <3>1, <3>3
      <4> QED
        BY <1>1, <2>2, <3>1, <4>1 DEF Added
    <3> QED
      BY <3>2, <3>3
  <2>7. ASSUME NEW Y \in SUBSET DOMAIN registry, Holds(Y, Seeds(Subject))
        PROVE  Elements(resolved') \subseteq Y
    <3>1. Elements(resolved) \subseteq Y
      BY <1>1, <2>7
    <3>2. i \in Y
      BY <2>1, <3>1 DEF Elements
    <3>3. DependsOn(i) \subseteq Y
      BY <2>7, <3>2 DEF Holds
    <3> QED
      BY <2>2, <3>1, <3>3 DEF Added
  <2>8. ResolveInv'
    <3>1. \A j : DependsOn(j)' = DependsOn(j)
      BY <1>2, Stay
    <3>2. \A Y : Holds(Y, Seeds(Subject))' <=> Holds(Y, Seeds(Subject))
      BY <1>3, <3>1 DEF Holds
    <3> QED
      BY <1>1, <1>2, <1>3, <2>1, <2>4, <2>5, <2>6, <2>7, <3>1, <3>2 DEF ResolveInv, Resolved
  <2>9. AnswerInv'
    BY <1>1, <1>2, <2>1 DEF SkillsInv, AnswerInv, NoAnswer, NoFiles
  <2> QED
    BY <2>3, <2>8, <2>9 DEF SkillsInv
<1> QED
  BY <1>5, <1>6

-----------------------------------------------------------------------------
(* The answer.                                                              *)

\* What a request that goes on after the passes leaves alone keeps the first two parts.
LEMMA ResolvedKeeps ==
    ASSUME LocalSkillsAssumption, SkillsTypeInv, ResolveInv,
           pass \in {"answer", "files"}, pass' \in {"files", "end"},
           answer.status # 500,
           UNCHANGED <<registry, req, next, resolved, dirs, edits, texts>>
    PROVE  SkillsTypeInv' /\ ResolveInv'
<1>1. SkillsTypeInv'
  BY DEF SkillsTypeInv, IsRegistry
<1>2. IsClosure(Elements(resolved), Seeds(Subject))
  BY DEF ResolveInv, Resolved
<1>3. /\ Seeds(Subject)' = Seeds(Subject)
      /\ \A j : DependsOn(j)' = DependsOn(j)
  BY Stay
<1>4. Elements(resolved)' = Elements(resolved)
  BY DEF Elements
<1>5. IsClosure(Elements(resolved), Seeds(Subject))'
  BY <1>2, <1>3, <1>4 DEF IsClosure, Holds
<1>6. ResolveInv'
  BY <1>5 DEF ResolveInv
<1> QED
  BY <1>1, <1>6

LEMMA NamesStay ==
    ASSUME UNCHANGED <<registry, req, resolved>>
    PROVE  VisibleNames' = VisibleNames /\ Names' = Names
BY DEF VisibleNames, Names, NamesOf, Elements

LEMMA TextsStay ==
    ASSUME UNCHANGED <<registry, req, resolved>>, texts \subseteq texts',
           NEW n, NEW text, TheirText(n, text)
    PROVE  TheirText(n, text)'
<1>1. NameIndex(n)' = NameIndex(n)
  BY Stay
<1> QED
  BY <1>1 DEF TheirText

\* A handler or a command answers, or goes on to read.
LEMMA Responds ==
    ASSUME Respond
    PROVE  /\ pass = "answer"
           /\ UNCHANGED <<registry, req, next, resolved, got, dirs, edits, texts>>
           /\ \/ pass' = "files" /\ answer' = answer
              \/ pass' = "end" /\ answer'.status \in {400, 404}
              \/ pass' = "end" /\ answer'.status = 200 /\ ~ReadsTexts
<1> USE DEF Is, Same, Files, List, NotFound, Read, ReadsTexts
<1>1. CASE HandleList
  BY <1>1 DEF HandleList
<1>2. CASE ListSkills
  BY <1>2 DEF ListSkills
<1>3. CASE Search("proxy") \/ Search("command")
  BY <1>3 DEF Search
<1>4. CASE HandleDetail
  BY <1>4 DEF HandleDetail
<1>5. CASE ShowSkill
  BY <1>5 DEF ShowSkill
<1>6. CASE HandleBundle
  BY <1>6 DEF HandleBundle
<1>7. CASE HandleBatch
  BY <1>7 DEF HandleBatch
<1>8. CASE ReadSkill
  BY <1>8 DEF ReadSkill
<1>9. CASE HandleResolve
  BY <1>9 DEF HandleResolve
<1>10. CASE ResolveSkills
  BY <1>10 DEF ResolveSkills
<1> QED
  BY <1>1, <1>2, <1>3, <1>4, <1>5, <1>6, <1>7, <1>8, <1>9, <1>10 DEF Respond

LEMMA RespondKeeps == ASSUME LocalSkillsAssumption, SkillsInv, Respond PROVE SkillsInv'
<1>1. answer = NoAnswer /\ got = NoFiles
  BY Responds DEF SkillsInv, AnswerInv
<1>2. SkillsTypeInv' /\ ResolveInv'
  BY <1>1, Responds, ResolvedKeeps DEF SkillsInv, NoAnswer
<1>3. AnswerInv'
  <2>1. ReadsTexts' = ReadsTexts
    BY Responds DEF ReadsTexts
  <2> QED
    BY <1>1, <2>1, Responds DEF AnswerInv, NoAnswer, NoFiles
<1> QED
  BY <1>2, <1>3 DEF SkillsInv

LEMMA TextIsTheirs ==
    ASSUME LocalSkillsAssumption, SkillsTypeInv, NEW n \in Names
    PROVE  TheirText(n, TextOf(n))
<1> DEFINE d == registry[NameIndex(n)].dir
<1>1. d \in DirSet
  <2>1. registry[NameIndex(n)] \in Skills
    BY NameIndexIs DEF SkillsTypeInv, IsRegistry
  <2>2. PICK c \in {x \in Contents : x.is = "skill"}, e \in DirSet :
            registry[NameIndex(n)] = [c.meta EXCEPT !.dir = e]
    BY <2>1 DEF Skills
  <2>3. "dir" \in DOMAIN c.meta
    BY DEF LocalSkillsAssumption
  <2> QED
    BY <2>2, <2>3
<1>2. <<d, dirs[d]>> \in texts
  BY <1>1 DEF SkillsTypeInv
<1>3. CASE dirs[d].is = "skill"
  <2> DEFINE h == <<d, dirs[d]>>
  <2>1. h[1] = d /\ h[2] = dirs[d]
    OBVIOUS
  <2> HIDE DEF h
  <2>2. TextOf(n) = Text(h[1], h[2].version)
    BY <1>3, <2>1 DEF TextOf
  <2>3. h \in texts
    BY <1>2 DEF h
  <2> QED
    BY <1>3, <2>1, <2>2, <2>3 DEF TheirText
<1>4. CASE dirs[d].is # "skill"
  BY <1>4 DEF TextOf, TheirText
<1> QED
  BY <1>3, <1>4

LEMMA ReadFilesKeeps == ASSUME LocalSkillsAssumption, SkillsInv, ReadFiles PROVE SkillsInv'
<1>1. /\ pass = "files" /\ pass' = "files" /\ answer = NoAnswer /\ answer' = NoAnswer
      /\ UNCHANGED <<registry, req, next, resolved, dirs, edits, texts>>
  BY DEF SkillsInv, AnswerInv, ReadFiles, Files
<1>2. SkillsTypeInv' /\ ResolveInv'
  BY <1>1, ResolvedKeeps DEF SkillsInv, NoAnswer
<1>3. \A n \in DOMAIN got : n \in VisibleNames \cap Names /\ TheirText(n, got[n])
  BY DEF SkillsInv, AnswerInv
<1> DEFINE m == Head(todo)
<1> DEFINE Good == \A n \in DOMAIN got' : /\ n \in VisibleNames \cap Names
                                          /\ TheirText(n, got'[n])
<1>4. ASSUME m \in VisibleNames \cap Names PROVE Good
  <2>1. got' = [n \in DOMAIN got \cup {m} |-> IF n = m THEN TextOf(n) ELSE got[n]]
    BY <1>4 DEF ReadFiles
  <2>2. ASSUME NEW n \in DOMAIN got'
        PROVE  n \in VisibleNames \cap Names /\ TheirText(n, got'[n])
    <3>1. CASE n = m
      <4>1. got'[n] = TextOf(n)
        BY <2>1, <3>1
      <4> QED
        BY <1>4, <3>1, <4>1, TextIsTheirs DEF SkillsInv
    <3>2. CASE n # m
      <4>1. n \in DOMAIN got /\ got'[n] = got[n]
        BY <2>1, <2>2, <3>2
      <4> QED
        BY <1>3, <4>1
    <3> QED
      BY <3>1, <3>2
  <2> QED
    BY <2>2
<1>5. ASSUME ~(m \in VisibleNames \cap Names) PROVE Good
  BY <1>3, <1>5 DEF ReadFiles
<1>6. \A n \in DOMAIN got' : n \in VisibleNames \cap Names /\ TheirText(n, got'[n])
  BY <1>4, <1>5
<1>7. \A n \in DOMAIN got' : n \in VisibleNames' \cap Names' /\ TheirText(n, got[n])'
  BY <1>1, <1>6, NamesStay, TextsStay
<1>8. AnswerInv'
  BY <1>1, <1>7 DEF AnswerInv, NoAnswer
<1> QED
  BY <1>2, <1>8 DEF SkillsInv

LEMMA DeliverKeeps == ASSUME LocalSkillsAssumption, SkillsInv, Deliver PROVE SkillsInv'
<1>1. /\ pass = "files" /\ pass' = "end" /\ answer = NoAnswer
      /\ answer' = [status |-> 200, names |-> DOMAIN got, texts |-> got]
      /\ UNCHANGED <<registry, req, next, resolved, got, dirs, edits, texts>>
  BY DEF SkillsInv, AnswerInv, Deliver, Files
<1>2. SkillsTypeInv' /\ ResolveInv'
  BY <1>1, ResolvedKeeps DEF SkillsInv, NoAnswer
<1>3. \A n \in DOMAIN got : n \in VisibleNames \cap Names /\ TheirText(n, got[n])
  BY DEF SkillsInv, AnswerInv
<1>4. \A n \in DOMAIN got' : n \in VisibleNames' \cap Names' /\ TheirText(n, got[n])'
  BY <1>1, <1>3, NamesStay DEF TheirText, NameIndex
<1>5. AnswerInv'
  BY <1>1, <1>4 DEF AnswerInv
<1> QED
  BY <1>2, <1>5 DEF SkillsInv

\* A file changes, or nothing does: what was found and read stays.
LEMMA FoundKeeps ==
    ASSUME LocalSkillsAssumption, SkillsInv, SkillsTypeInv', texts \subseteq texts',
           UNCHANGED <<registry, req, pass, next, resolved, got, answer>>
    PROVE  SkillsInv'
<1>1. ResolveInv'
  <2>1. /\ Subject' = Subject /\ Seeds(Subject)' = Seeds(Subject)
        /\ (\A j : DependsOn(j)' = DependsOn(j)) /\ \A n : UpTo(n)' = UpTo(n)
    BY Stay
  <2>2. Elements(resolved)' = Elements(resolved) /\ Resolved' = Resolved
    BY DEF Elements, Resolved
  <2>3. \A Y : Holds(Y, Seeds(Subject))' <=> Holds(Y, Seeds(Subject))
    BY <2>1 DEF Holds
  <2>4. ResolveInv
    BY DEF SkillsInv
  <2>5. IsClosure(Elements(resolved), Seeds(Subject)) =>
            IsClosure(Elements(resolved), Seeds(Subject))'
    BY <2>1, <2>2 DEF IsClosure, Holds
  <2>6. (pass = "scopes" => next <= Len(Subject) + 1 /\ Elements(resolved) = UpTo(next))'
    BY <2>1, <2>2, <2>4 DEF ResolveInv
  <2>7. (pass = "tools" => next = 1 /\ Elements(resolved) = UpTo(Len(Subject) + 1))'
    BY <2>1, <2>2, <2>4 DEF ResolveInv
  <2>8. (pass = "deps" =>
         /\ next <= Len(resolved) + 1
         /\ Seeds(Subject) \subseteq Elements(resolved)
         /\ \A i \in DOMAIN resolved : i < next =>
                DependsOn(resolved[i]) \subseteq Elements(resolved)
         /\ \A Y \in SUBSET DOMAIN registry : Holds(Y, Seeds(Subject)) =>
                Elements(resolved) \subseteq Y)'
    BY <2>1, <2>2, <2>3, <2>4 DEF ResolveInv
  <2> QED
    BY <2>2, <2>4, <2>5, <2>6, <2>7, <2>8 DEF ResolveInv
<1>2. AnswerInv'
  <2>1. \A n \in DOMAIN got' : n \in VisibleNames' \cap Names' /\ TheirText(n, got[n])'
    BY NamesStay, TextsStay DEF SkillsInv, AnswerInv
  <2>2. ReadsTexts' = ReadsTexts
    BY DEF ReadsTexts
  <2> QED
    BY <2>1, <2>2 DEF SkillsInv, AnswerInv
<1> QED
  BY <1>1, <1>2 DEF SkillsInv

LEMMA EditKeeps ==
    ASSUME LocalSkillsAssumption, SkillsInv, NEW e \in Edits, Edit(e[1], e[2])
    PROVE  SkillsInv'
<1>1. e[1] \in DirSet /\ e[2] \in Contents
  BY DEF LocalSkillsAssumption, Contents
<1>2. /\ dirs' = [dirs EXCEPT ![e[1]] = e[2]] /\ texts' = texts \cup {<<e[1], e[2]>>}
      /\ edits < MaxEdits /\ edits' = edits + 1
      /\ UNCHANGED <<registry, req, pass, next, resolved, got, answer>>
  BY DEF Edit
<1>3. dirs' \in [DirSet -> Contents] /\ \A d \in DirSet : <<d, dirs'[d]>> \in texts'
  BY <1>1, <1>2 DEF SkillsInv, SkillsTypeInv
<1>4. edits' \in 0..MaxEdits
  BY <1>2 DEF SkillsInv, SkillsTypeInv, LocalSkillsAssumption
<1>5. SkillsTypeInv'
  BY <1>2, <1>3, <1>4 DEF SkillsInv, SkillsTypeInv, IsRegistry
<1> QED
  BY <1>2, <1>5, FoundKeeps

LEMMA SkillsStep ==
    ASSUME LocalSkillsAssumption, SkillsInv, [SkillsNext]_skillsVars
    PROVE  SkillsInv'
<1>1. CASE UNCHANGED skillsVars
  <2>1. SkillsTypeInv'
    BY <1>1 DEF skillsVars, SkillsInv, SkillsTypeInv, IsRegistry
  <2> QED
    BY <1>1, <2>1, FoundKeeps DEF skillsVars
<1>2. CASE \E e \in Edits : Edit(e[1], e[2])
  BY <1>2, EditKeeps
<1> QED
  BY <1>1, <1>2, BeginKeeps, ScopePassKeeps, ToolsPassKeeps, DepsPassKeeps, RespondKeeps,
     ReadFilesKeeps, DeliverKeeps DEF SkillsNext

-----------------------------------------------------------------------------
(* What the invariant means.                                                *)

LEMMA SkillsTypeMeans == ASSUME LocalSkillsAssumption, SkillsInv PROVE SkillsTypeOK
BY DEF SkillsInv, SkillsTypeInv, AnswerInv, SkillsTypeOK, Elements

LEMMA ClosureMeans == ASSUME LocalSkillsAssumption, SkillsInv PROVE ResolveIsClosure
<1> SUFFICES ASSUME Resolved
             PROVE  /\ Elements(resolved) = Reach(Seeds(Subject))
                    /\ Distinct(resolved)
  BY DEF ResolveIsClosure
<1>1. IsRegistry /\ resolved \in Seq(DOMAIN registry) /\ Distinct(resolved)
  BY DEF SkillsInv, SkillsTypeInv
<1>2. Elements(resolved) = Reach(Seeds(Subject))
  <2>1. IsClosure(Elements(resolved), Seeds(Subject))
    BY DEF SkillsInv, ResolveInv
  <2>2. IsClosure(Reach(Seeds(Subject)), Seeds(Subject))
    BY <1>1, LeadsIn, ReachIs
  <2> QED
    BY <2>1, <2>2, OneClosure
<1> QED
  BY <1>1, <1>2

LEMMA TextsMean == ASSUME LocalSkillsAssumption, SkillsInv PROVE TextsAreTheirs
<1> SUFFICES ASSUME answer.status = 200, ReadsTexts, NEW n \in answer.names
             PROVE  n \in VisibleTo(req.caller) /\ TheirText(n, answer.texts[n])
  BY DEF TextsAreTheirs, ReadsTexts, TheirText
<1>1. n \in VisibleNames \cap Names /\ TheirText(n, answer.texts[n])
  BY DEF SkillsInv, AnswerInv
<1>2. Subject = req.caller /\ req.kind # "resolve"
  BY DEF Subject, ReadsTexts
<1>3. Resolved
  <2>1. pass = "end"
    BY DEF SkillsInv, AnswerInv, NoAnswer
  <2> QED
    BY <2>1 DEF Resolved
<1>4. CASE IsWildcard(req.caller)
  BY <1>1, <1>4 DEF VisibleTo, Names, NamesOf
<1>5. CASE ~IsWildcard(req.caller)
  BY <1>1, <1>2, <1>3, <1>5, ClosureMeans DEF VisibleTo, VisibleNames, ResolveIsClosure
<1> QED
  BY <1>1, <1>4, <1>5

LEMMA RemoteMeans ==
    ASSUME LocalSkillsAssumption, OnePerName, SkillsInv
    PROVE  RemoteAgrees
<1> SUFFICES ASSUME Resolved, ~IsWildcard(Subject)
             PROVE  /\ VisibleRemote(Subject, registry) \subseteq
                           NamesOf(Elements(resolved))
                    /\ PublicScopes =>
                           NamesOf(Seeds(Subject))
                             \subseteq VisibleRemote(Subject, registry)
  BY DEF RemoteAgrees
<1> DEFINE tools == FilterToolsByScope(Subject)
           providers == {t.provider : t \in tools}
           categories == {t.category : t \in {u \in ManifestTools : u.provider \in providers}}
                           \ {NoCategory}
           Shown(j) == \/ IsWildcard(Subject)
                       \/ SkillScope(registry[j].name) \in Elements(Subject)
                       \/ registry[j].tools \cap {t.name : t \in tools} # {}
                       \/ registry[j].providers \cap providers # {}
                       \/ registry[j].categories \cap categories # {}
<1>1. VisibleRemote(Subject, registry) =
          {registry[i].name : i \in {j \in DOMAIN registry : Shown(j)}}
  BY DEF VisibleRemote
<1>2. Through(Subject) = UNION {ByTool(t.name) \cup ByProviderOf(t) : t \in tools}
  BY DEF Through
<1>3. tools \subseteq ManifestTools
  BY DEF FilterToolsByScope, PublicTools
<1>4. Seeds(Subject) \subseteq Elements(resolved)
  BY DEF SkillsInv, ResolveInv, IsClosure, Holds
<1>5. IsRegistry
  BY DEF SkillsInv, SkillsTypeInv
<1> HIDE DEF tools
<1>6. ASSUME NEW j \in DOMAIN registry, Shown(j)
      PROVE  registry[j].name \in NamesOf(Seeds(Subject))
  <2>1. CASE SkillScope(registry[j].name) \in Elements(Subject)
    <3> DEFINE n == registry[j].name
    <3>1. PICK k \in DOMAIN Subject : Subject[k] = SkillScope(n)
      BY <2>1 DEF Elements
    <3>2. n \in Names
      BY DEF Names
    <3> HIDE DEF n
    <3>3. NameIndex(n) \in Direct(Subject[k])
      BY <3>1, <3>2 DEF Direct, SkillScope, ByName
    <3>4. NameIndex(n) \in Seeds(Subject)
      BY <3>3 DEF Seeds
    <3>5. registry[NameIndex(n)].name = n
      BY <1>5, <3>2, NameIndexIs
    <3> QED
      BY <3>4, <3>5 DEF NamesOf, n
  <2>2. ASSUME j \in Through(Subject)
        PROVE  registry[j].name \in NamesOf(Seeds(Subject))
    BY <2>2 DEF Seeds, NamesOf
  <2>3. CASE registry[j].tools \cap {t.name : t \in tools} # {}
    <3>1. PICK t \in tools : t.name \in registry[j].tools
      BY <2>3
    <3>2. j \in ByTool(t.name)
      BY <3>1 DEF ByTool
    <3> QED
      BY <1>2, <2>2, <3>2
  <2>4. CASE registry[j].providers \cap providers # {}
    <3>1. PICK t \in tools : t.provider \in registry[j].providers
      BY <2>4
    <3>2. j \in ByProviderOf(t)
      BY <3>1 DEF ByProviderOf, ByProvider
    <3> QED
      BY <1>2, <2>2, <3>2
  <2>5. CASE registry[j].categories \cap categories # {}
    <3>1. PICK u \in ManifestTools : /\ u.provider \in providers /\ u.category # NoCategory
                             /\ u.category \in registry[j].categories
      BY <2>5
    <3>2. PICK t \in tools : t.provider = u.provider
      BY <3>1
    <3>3. t.category = u.category
      BY <1>3, <3>2 DEF OnePerName
    <3>4. j \in ByProviderOf(t)
      BY <3>1, <3>3 DEF ByProviderOf, ByCategory
    <3> QED
      BY <1>2, <2>2, <3>4
  <2> QED
    BY <1>6, <2>1, <2>3, <2>4, <2>5
<1>7. NamesOf(Seeds(Subject)) \subseteq NamesOf(Elements(resolved))
  BY <1>4 DEF NamesOf
<1>8. VisibleRemote(Subject, registry) \subseteq NamesOf(Elements(resolved))
  BY <1>1, <1>6, <1>7
<1>9. ASSUME NEW t \in tools, NEW j \in DOMAIN registry,
             j \in ByTool(t.name) \cup ByProviderOf(t)
      PROVE  Shown(j)
  <2>1. t \in ManifestTools /\ t.provider \in providers
    BY <1>3
  <2>2. CASE j \in ByTool(t.name)
    BY <2>2 DEF ByTool
  <2>3. CASE j \in ByProvider(t.provider)
    BY <2>1, <2>3 DEF ByProvider
  <2>4. CASE j \in ByCategory(t.category)
    <3>1. t.category \in categories /\ t.category \in registry[j].categories
      BY <2>1, <2>4 DEF ByCategory
    <3> QED
      BY <3>1
  <2> QED
    BY <1>9, <2>2, <2>3, <2>4 DEF ByProviderOf
<1>10. ASSUME PublicScopes, NEW j \in Seeds(Subject)
       PROVE  registry[j].name \in VisibleRemote(Subject, registry)
  <2>1. j \in DOMAIN registry
    BY <1>5, LeadsIn
  <2> SUFFICES Shown(j) \/ \E k \in DOMAIN registry : registry[k].name = registry[j].name /\ Shown(k)
    BY <1>1, <2>1
  <2>2. CASE j \in Through(Subject)
    BY <1>2, <1>9, <2>1, <2>2
  <2>3. ASSUME NEW k \in DOMAIN Subject, j \in Direct(Subject[k]) PROVE Shown(j)
    <3> DEFINE s == Subject[k]
    <3>1. s \in Elements(Subject)
      BY DEF Elements
    <3>2. CASE s.is = "skill"
      <4>1. j \in ByName(s.on)
        BY <2>3, <3>2 DEF Direct
      <4>2. registry[j].name = s.on
        BY <1>5, <4>1, NameIndexIs DEF ByName
      <4>3. s = SkillScope(s.on)
        BY <3>1, <3>2 DEF LocalSkillsAssumption, SkillsInv, SkillsTypeInv, Subject
      <4> QED
        BY <3>1, <4>2, <4>3
    <3>3. CASE s.is = "tool"
      <4>1. PICK t \in FilterToolsByScope(Subject) : t.name = s.on
        BY <1>10, <3>1, <3>3 DEF PublicScopes
      <4>2. t \in tools
        BY <4>1 DEF tools
      <4>3. \A u \in ManifestTools : u.name = s.on => u = t
        BY <4>1 DEF OnePerName, PublicTools, FilterToolsByScope
      <4>4. j \in ByTool(s.on) \cup ByProviderOf(t)
        BY <2>3, <3>3, <4>3 DEF Direct
      <4> QED
        BY <1>9, <2>1, <4>1, <4>2, <4>4
    <3> QED
      BY <2>3, <3>2, <3>3 DEF Direct
  <2> QED
    BY <1>10, <2>2, <2>3 DEF Seeds
<1> QED
  BY <1>8, <1>10 DEF NamesOf

\* For any directories, contents, requests and edits, the variables of LocalSkills have their types.
THEOREM SkillsTypeCorrect == LocalSkillsAssumption => (SkillsSpec => []SkillsTypeOK)
<1> SUFFICES ASSUME LocalSkillsAssumption PROVE SkillsSpec => []SkillsTypeOK
  OBVIOUS
<1>1. SkillsInit => SkillsInv
  BY SkillsStart
<1>2. SkillsInv /\ [SkillsNext]_skillsVars => SkillsInv'
  BY SkillsStep
<1>3. SkillsInv => SkillsTypeOK
  BY SkillsTypeMeans
<1> QED
  BY <1>1, <1>2, <1>3, PTL DEF SkillsSpec

\* The passes over scopes, tools and dependencies end with all that the scopes lead to, through any
\* chain or cycle of dependencies, and each skill once (resolve_skills in core/skill.rs).
THEOREM ResolvesTheClosure == LocalSkillsAssumption => (SkillsSpec => []ResolveIsClosure)
<1> SUFFICES ASSUME LocalSkillsAssumption PROVE SkillsSpec => []ResolveIsClosure
  OBVIOUS
<1>1. SkillsInit => SkillsInv
  BY SkillsStart
<1>2. SkillsInv /\ [SkillsNext]_skillsVars => SkillsInv'
  BY SkillsStep
<1>3. SkillsInv => ResolveIsClosure
  BY ClosureMeans
<1> QED
  BY <1>1, <1>2, <1>3, PTL DEF SkillsSpec

\* The same skills in a remote catalogue show a caller none that he does not see here (handlers of
\* /skillati in proxy/server.rs).
THEOREM RemoteShowsNoMore == LocalSkillsAssumption /\ OnePerName =>
    (SkillsSpec => []RemoteAgrees)
<1> SUFFICES ASSUME LocalSkillsAssumption, OnePerName
    PROVE  SkillsSpec => []RemoteAgrees
  OBVIOUS
<1>1. SkillsInit => SkillsInv
  BY SkillsStart
<1>2. SkillsInv /\ [SkillsNext]_skillsVars => SkillsInv'
  BY SkillsStep
<1>3. SkillsInv => RemoteAgrees
  BY RemoteMeans
<1> QED
  BY <1>1, <1>2, <1>3, PTL DEF SkillsSpec

\* What a caller's scopes resolve to is the closure of what they lead to, and no more is shown of the
\* same skills in a remote catalogue: the two resolutions of a request agree (core/skill.rs and the
\* handlers of /skillati in proxy/server.rs).
THEOREM ResolutionsAgree == LocalSkillsAssumption /\ OnePerName =>
    (SkillsSpec => []SkillsAgree)
<1>1. ResolveIsClosure /\ RemoteAgrees => SkillsAgree
  BY DEF SkillsAgree
<1> QED
  BY <1>1, ResolvesTheClosure, RemoteShowsNoMore, PTL

\* Every text served is one that the skill's own directory held since the registry was loaded, and
\* the caller's scopes lead to the skill, whatever is edited meanwhile.
THEOREM TextsAreFromTheirDirectories == LocalSkillsAssumption =>
    (SkillsSpec => []TextsAreTheirs)
<1> SUFFICES ASSUME LocalSkillsAssumption PROVE SkillsSpec => []TextsAreTheirs
  OBVIOUS
<1>1. SkillsInit => SkillsInv
  BY SkillsStart
<1>2. SkillsInv /\ [SkillsNext]_skillsVars => SkillsInv'
  BY SkillsStep
<1>3. SkillsInv => TextsAreTheirs
  BY TextsMean
<1> QED
  BY <1>1, <1>2, <1>3, PTL DEF SkillsSpec
=============================================================================
