------------------------- MODULE PassthroughProofs -------------------------
(***************************************************************************)
(* The routes, the bodies and the frames of a passthrough request, for     *)
(* every list of providers, every request and response and every window.   *)
(* Sum and NoPings are recursive functions: what they return is proved by  *)
(* induction, taken as the fact that a nonempty set of naturals has a      *)
(* least element.  A registry in the order of PassthroughRouter::build is  *)
(* proved to exist before anything is said of the route it finds.          *)
(*                                                                         *)
(* Three invariants do the rest: BodyInv (what has come out of a body and  *)
(* what is left are the whole of it, within its cap), AskInv (what the     *)
(* upstream was asked is what its route sends) and FrameInv (what an end   *)
(* said is what the other heard, what the pump holds and what is on its    *)
(* way, less the pings).                                                   *)
(*                                                                         *)
(* The calls of the CLI executor are in the second part: what they capture *)
(* is again two recursive functions of the command line.                   *)
(***************************************************************************)
EXTENDS Passthrough, CliExecutor, SequenceTheorems, FiniteSetTheorems, WellFoundedInduction, TLAPS

-----------------------------------------------------------------------------
(* Induction over the naturals, as a fact about sets.                       *)

LEMMA LeastOf ==
    ASSUME NEW T \in SUBSET Nat, T # {}
    PROVE  \E m \in T : \A n \in T : m <= n
<1> DEFINE R == {p \in Nat \X Nat : p[1] < p[2]}
<1>1. IsWellFoundedOn(R, Nat)
  BY NatLessThanWellFounded DEF OpToRel
<1>2. \E m \in T : \A n \in T : ~(<<n, m>> \in R)
  <2> HIDE DEF R
  <2> QED
    BY <1>1, WFMin
<1>3. PICK m \in T : \A n \in T : ~(<<n, m>> \in R)
  BY <1>2
<1>4. ASSUME NEW n \in T PROVE m <= n
  <2>1. <<n, m>> \in R <=> n < m
    OBVIOUS
  <2> QED
    BY <1>3, <2>1
<1> QED
  BY <1>4

LEMMA AllNaturals ==
    ASSUME NEW S, 0 \in S, \A k \in Nat : k \in S => k + 1 \in S
    PROVE  \A k \in Nat : k \in S
<1> DEFINE T == {k \in Nat : k \notin S}
<1> SUFFICES ASSUME T # {} PROVE FALSE
  OBVIOUS
<1>1. PICK m \in T : \A n \in T : m <= n
  BY LeastOf
<1>2. m \in Nat /\ m # 0
  OBVIOUS
<1>3. m - 1 \in Nat /\ m - 1 \in S
  BY <1>1, <1>2
<1> QED
  BY <1>2, <1>3

\* f is defined on 0..n by recursion: from base, by g.
Recurses(f, X, base, n, g) ==
    /\ f \in [0..n -> X] /\ f[0] = base
    /\ \A i \in 1..n : f[i] = g[<<i, f[i - 1]>>]

LEMMA Recursion ==
    ASSUME NEW X, NEW base \in X, NEW n \in Nat, NEW g \in [(1..n) \X X -> X]
    PROVE  \E f : Recurses(f, X, base, n, g)
<1> USE DEF Recurses
<1> DEFINE Upto(k) == \E f \in [0..k -> X] :
                        f[0] = base /\ \A i \in 1..k : f[i] = g[<<i, f[i - 1]>>]
           S == {k \in Nat : k <= n => Upto(k)}
<1>1. Upto(0)
  <2> WITNESS [i \in 0..0 |-> base] \in [0..0 -> X]
  <2> QED
    OBVIOUS
<1>2. ASSUME NEW k \in Nat, k + 1 <= n, Upto(k) PROVE Upto(k + 1)
  <2>1. PICK f \in [0..k -> X] : f[0] = base /\ \A i \in 1..k : f[i] = g[<<i, f[i - 1]>>]
    BY <1>2
  <2> DEFINE h == [i \in 0..(k + 1) |-> IF i = k + 1 THEN g[<<k + 1, f[k]>>] ELSE f[i]]
  <2>2. g[<<k + 1, f[k]>>] \in X
    <3>1. k + 1 \in 1..n /\ f[k] \in X
      BY <1>2
    <3> QED
      BY <3>1
  <2>3. h \in [0..(k + 1) -> X]
    BY <2>2
  <2>4. h[0] = base
    BY <2>1
  <2>5. ASSUME NEW i \in 1..(k + 1) PROVE h[i] = g[<<i, h[i - 1]>>]
    <3>1. h[i - 1] = f[i - 1]
      OBVIOUS
    <3>2. CASE i = k + 1
      <4>1. i - 1 = k /\ h[i] = g[<<k + 1, f[k]>>]
        BY <3>2
      <4> QED
        BY <3>1, <3>2, <4>1
    <3>3. CASE i # k + 1
      BY <2>1, <3>1, <3>3
    <3> QED
      BY <3>2, <3>3
  <2> QED
    BY <2>3, <2>4, <2>5
<1> HIDE DEF Upto
<1>3. 0 \in S /\ \A k \in Nat : k \in S => k + 1 \in S
  BY <1>1, <1>2
<1>4. n \in S
  <2> HIDE DEF S
  <2> QED
    BY <1>3, AllNaturals
<1> QED
  BY <1>4 DEF Upto

-----------------------------------------------------------------------------
(* Sum                                                                      *)

LEMMA SumIs ==
    ASSUME NEW s \in Seq(Nat)
    PROVE  \E f \in [0..Len(s) -> Nat] :
             /\ f[0] = 0 /\ Sum(s) = f[Len(s)]
             /\ \A i \in 1..Len(s) : f[i] = f[i - 1] + s[i]
<1> DEFINE Rec(f) == f = [n \in 0..Len(s) |-> IF n = 0 THEN 0 ELSE f[n - 1] + s[n]]
           F == CHOOSE f : Rec(f)
           g == [p \in (1..Len(s)) \X Nat |-> p[2] + s[p[1]]]
<1>1. Len(s) \in Nat /\ \A i \in 1..Len(s) : s[i] \in Nat
  OBVIOUS
<1>2. g \in [(1..Len(s)) \X Nat -> Nat]
  BY <1>1
<1>3. PICK f \in [0..Len(s) -> Nat] :
        f[0] = 0 /\ \A i \in 1..Len(s) : f[i] = g[<<i, f[i - 1]>>]
  <2> HIDE DEF g
  <2>1. 0 \in Nat /\ Len(s) \in Nat
    OBVIOUS
  <2>2. \E f : Recurses(f, Nat, 0, Len(s), g)
    BY <1>2, <2>1, Recursion
  <2> QED
    BY <2>2 DEF Recurses
<1>4. \A i \in 1..Len(s) : f[i] = f[i - 1] + s[i]
  <2>1. ASSUME NEW i \in 1..Len(s) PROVE f[i] = f[i - 1] + s[i]
    <3>1. i - 1 \in 0..Len(s)
      BY <1>1
    <3>2. f[i - 1] \in Nat /\ f[i] = g[<<i, f[i - 1]>>]
      BY <1>3, <3>1
    <3> QED
      BY <3>2
  <2> QED
    BY <2>1
<1>5. Rec(f)
  <2>1. ASSUME NEW n \in 0..Len(s) PROVE f[n] = IF n = 0 THEN 0 ELSE f[n - 1] + s[n]
    BY <1>1, <1>3, <1>4
  <2> QED
    BY <2>1
<1>6. Rec(F)
  BY <1>5
<1>7. Sum(s) = F[Len(s)]
  BY DEF Sum
<1> HIDE DEF F
<1>8. F[0] = 0 /\ \A i \in 1..Len(s) : F[i] = F[i - 1] + s[i]
  BY <1>1, <1>6
<1>9. \A k \in Nat : k \in {j \in Nat : j <= Len(s) => F[j] \in Nat}
  <2> DEFINE S == {j \in Nat : j <= Len(s) => F[j] \in Nat}
  <2>1. 0 \in S
    BY <1>8
  <2>2. ASSUME NEW k \in Nat, k \in S PROVE k + 1 \in S
    <3> SUFFICES ASSUME k + 1 <= Len(s) PROVE F[k + 1] \in Nat
      OBVIOUS
    <3>1. F[k + 1] = F[k] + s[k + 1] /\ s[k + 1] \in Nat /\ F[k] \in Nat
      BY <1>1, <1>8, <2>2
    <3> QED
      BY <3>1
  <2> HIDE DEF S
  <2>3. \A k \in Nat : k \in S
    BY <2>1, <2>2, AllNaturals
  <2> QED
    BY <2>3 DEF S
<1>10. F \in [0..Len(s) -> Nat]
  <2>1. \A j \in 0..Len(s) : F[j] \in Nat
    BY <1>1, <1>9
  <2>2. DOMAIN F = 0..Len(s) /\ F = [j \in 0..Len(s) |-> F[j]]
    BY <1>6
  <2> QED
    BY <2>1, <2>2
<1> QED
  BY <1>7, <1>8, <1>10

LEMMA SumAppends ==
    ASSUME NEW s \in Seq(Nat), NEW c \in Nat
    PROVE  Sum(s) \in Nat /\ Sum(<<>>) = 0 /\ Sum(Append(s, c)) = Sum(s) + c
<1> DEFINE t == Append(s, c)
<1>1. t \in Seq(Nat) /\ Len(t) = Len(s) + 1 /\ t[Len(s) + 1] = c
      /\ Len(s) \in Nat /\ \A i \in 1..Len(s) : t[i] = s[i] /\ s[i] \in Nat
  OBVIOUS
<1> HIDE DEF t
<1>2. PICK f \in [0..Len(s) -> Nat] :
        /\ f[0] = 0 /\ Sum(s) = f[Len(s)]
        /\ \A i \in 1..Len(s) : f[i] = f[i - 1] + s[i]
  BY SumIs
<1>3. PICK g \in [0..Len(t) -> Nat] :
        /\ g[0] = 0 /\ Sum(t) = g[Len(t)]
        /\ \A i \in 1..Len(t) : g[i] = g[i - 1] + t[i]
  BY <1>1, SumIs
<1> DEFINE S == {k \in Nat : k <= Len(s) => f[k] = g[k]}
<1>4. 0 \in S
  BY <1>2, <1>3
<1>5. ASSUME NEW k \in Nat, k \in S PROVE k + 1 \in S
  <2> SUFFICES ASSUME k + 1 <= Len(s) PROVE f[k + 1] = g[k + 1]
    OBVIOUS
  <2>1. f[k] = g[k] /\ t[k + 1] = s[k + 1]
    BY <1>1, <1>5
  <2>2. f[k + 1] = f[k] + s[k + 1]
    BY <1>1, <1>2
  <2>3. g[k + 1] = g[k] + t[k + 1]
    BY <1>1, <1>3
  <2> QED
    BY <2>1, <2>2, <2>3
<1>6. Len(s) \in S
  <2> HIDE DEF S
  <2> QED
    BY <1>1, <1>4, <1>5, AllNaturals
<1>7. Sum(t) = g[Len(s)] + c /\ g[Len(s)] = Sum(s)
  <2>1. Len(t) \in 1..Len(t) /\ Len(t) - 1 = Len(s)
    BY <1>1
  <2>2. g[Len(t)] = g[Len(s)] + t[Len(t)]
    BY <1>1, <1>3, <2>1
  <2>3. g[Len(s)] = Sum(s)
    BY <1>2, <1>6
  <2> QED
    BY <1>1, <1>3, <2>1, <2>2, <2>3
<1>8. Sum(<<>>) = 0
  <2>1. <<>> \in Seq(Nat) /\ Len(<<>>) = 0
    OBVIOUS
  <2> QED
    BY <2>1, SumIs
<1>9. Sum(s) \in Nat
  BY <1>1, <1>2
<1> QED
  BY <1>7, <1>8, <1>9 DEF t

-----------------------------------------------------------------------------
(* NoPings                                                                  *)

LEMMA NoPingsIs ==
    ASSUME NEW X, NEW s \in Seq(X)
    PROVE  \E f \in [0..Len(s) -> Seq(X)] :
             /\ f[0] = <<>> /\ NoPings(s) = f[Len(s)]
             /\ \A i \in 1..Len(s) : f[i] = IF s[i] = "ping" THEN f[i - 1]
                                             ELSE Append(f[i - 1], s[i])
<1> DEFINE Rec(f) == f = [n \in 0..Len(s) |-> IF n = 0 THEN <<>>
                                              ELSE IF s[n] = "ping" THEN f[n - 1]
                                              ELSE Append(f[n - 1], s[n])]
           F == CHOOSE f : Rec(f)
           g == [p \in (1..Len(s)) \X Seq(X) |->
                   IF s[p[1]] = "ping" THEN p[2] ELSE Append(p[2], s[p[1]])]
<1>1. Len(s) \in Nat /\ \A i \in 1..Len(s) : s[i] \in X
  OBVIOUS
<1>2. g \in [(1..Len(s)) \X Seq(X) -> Seq(X)]
  <2>1. ASSUME NEW p \in (1..Len(s)) \X Seq(X)
        PROVE  (IF s[p[1]] = "ping" THEN p[2] ELSE Append(p[2], s[p[1]])) \in Seq(X)
    <3>1. p[1] \in 1..Len(s) /\ p[2] \in Seq(X)
      OBVIOUS
    <3>2. s[p[1]] \in X
      BY <1>1, <3>1
    <3> QED
      BY <3>1, <3>2
  <2> QED
    BY <2>1
<1>3. PICK f \in [0..Len(s) -> Seq(X)] :
        f[0] = <<>> /\ \A i \in 1..Len(s) : f[i] = g[<<i, f[i - 1]>>]
  <2> HIDE DEF g
  <2>1. <<>> \in Seq(X) /\ Len(s) \in Nat
    OBVIOUS
  <2>2. \E f : Recurses(f, Seq(X), <<>>, Len(s), g)
    BY <1>2, <2>1, Recursion
  <2> QED
    BY <2>2 DEF Recurses
<1>4. ASSUME NEW i \in 1..Len(s)
      PROVE  f[i] = IF s[i] = "ping" THEN f[i - 1] ELSE Append(f[i - 1], s[i])
  <2>1. i - 1 \in 0..Len(s)
    BY <1>1
  <2>2. f[i - 1] \in Seq(X) /\ f[i] = g[<<i, f[i - 1]>>]
    BY <1>3, <2>1
  <2> QED
    BY <2>2
<1>5. Rec(f)
  <2>1. ASSUME NEW n \in 0..Len(s)
        PROVE  f[n] = IF n = 0 THEN <<>> ELSE IF s[n] = "ping" THEN f[n - 1]
                      ELSE Append(f[n - 1], s[n])
    <3>1. n = 0 \/ n \in 1..Len(s)
      BY <1>1
    <3> QED
      BY <1>3, <1>4, <3>1
  <2> QED
    BY <2>1
<1>6. Rec(F)
  BY <1>5
<1>7. NoPings(s) = F[Len(s)]
  BY DEF NoPings
<1> HIDE DEF F
<1>8. F[0] = <<>>
  BY <1>1, <1>6
<1>9. ASSUME NEW i \in 1..Len(s)
      PROVE  F[i] = IF s[i] = "ping" THEN F[i - 1] ELSE Append(F[i - 1], s[i])
  <2>1. i \in 0..Len(s) /\ i # 0
    BY <1>1
  <2> QED
    BY <1>6, <2>1
<1>10. \A k \in Nat : k \in {j \in Nat : j <= Len(s) => F[j] \in Seq(X)}
  <2> DEFINE S == {j \in Nat : j <= Len(s) => F[j] \in Seq(X)}
  <2>1. 0 \in S
    <3>1. <<>> \in Seq(X)
      OBVIOUS
    <3> QED
      BY <1>8, <3>1
  <2>2. ASSUME NEW k \in Nat, k \in S PROVE k + 1 \in S
    <3> SUFFICES ASSUME k + 1 <= Len(s) PROVE F[k + 1] \in Seq(X)
      OBVIOUS
    <3>1. k + 1 \in 1..Len(s) /\ s[k + 1] \in X /\ F[k] \in Seq(X)
      BY <1>1, <2>2
    <3>2. F[k + 1] = IF s[k + 1] = "ping" THEN F[k] ELSE Append(F[k], s[k + 1])
      <4>1. (k + 1) - 1 = k
        OBVIOUS
      <4> QED
        BY <1>9, <3>1, <4>1
    <3> QED
      BY <3>1, <3>2
  <2> HIDE DEF S
  <2>3. \A k \in Nat : k \in S
    BY <2>1, <2>2, AllNaturals
  <2> QED
    BY <2>3 DEF S
<1>11. F \in [0..Len(s) -> Seq(X)]
  <2>1. \A j \in 0..Len(s) : F[j] \in Seq(X)
    BY <1>1, <1>10
  <2>2. DOMAIN F = 0..Len(s) /\ F = [j \in 0..Len(s) |-> F[j]]
    BY <1>6
  <2> QED
    BY <2>1, <2>2
<1> QED
  BY <1>7, <1>8, <1>9, <1>11

Regrouped(s, t, u) == (s \o t) \o u = s \o (t \o u)

LEMMA Regroups ==
    ASSUME NEW X, NEW s \in Seq(X), NEW t \in Seq(X), NEW u \in Seq(X)
    PROVE  Regrouped(s, t, u)
  BY ConcatAssociative DEF Regrouped

AppendedAfter(s, t, c) == Append(s \o t, c) = s \o Append(t, c)

LEMMA AppendAfter ==
    ASSUME NEW X, NEW s \in Seq(X), NEW t \in Seq(X), NEW c \in X
    PROVE  AppendedAfter(s, t, c)
<1>1. <<c>> \in Seq(X) /\ s \o t \in Seq(X)
  OBVIOUS
<1>2. Append(s \o t, c) = (s \o t) \o <<c>> /\ Append(t, c) = t \o <<c>>
  BY <1>1, AppendIsConcat
<1>3. (s \o t) \o <<c>> = s \o (t \o <<c>>)
  BY <1>1, ConcatAssociative
<1> QED
  BY <1>2, <1>3 DEF AppendedAfter

LEMMA NoPingsEmpty == NoPings(<<>>) = <<>>
<1>1. <<>> \in Seq(Nat) /\ Len(<<>>) = 0
  OBVIOUS
<1>2. \E f \in [0..Len(<<>>) -> Seq(Nat)] : f[0] = <<>> /\ NoPings(<<>>) = f[Len(<<>>)]
  BY <1>1, NoPingsIs
<1> QED
  BY <1>1, <1>2

LEMMA NoPingsType ==
    ASSUME NEW X, NEW s \in Seq(X)
    PROVE  NoPings(s) \in Seq(X)
  BY NoPingsIs

LEMMA NoPingsAppends ==
    ASSUME NEW X, NEW s \in Seq(X), NEW c \in X
    PROVE  NoPings(Append(s, c)) = IF c = "ping" THEN NoPings(s) ELSE Append(NoPings(s), c)
<1> DEFINE t == Append(s, c)
<1>1. t \in Seq(X) /\ Len(t) = Len(s) + 1 /\ t[Len(s) + 1] = c
      /\ Len(s) \in Nat /\ \A i \in 1..Len(s) : t[i] = s[i]
  OBVIOUS
<1> HIDE DEF t
<1>2. PICK f \in [0..Len(s) -> Seq(X)] :
        /\ f[0] = <<>> /\ NoPings(s) = f[Len(s)]
        /\ \A i \in 1..Len(s) : f[i] = IF s[i] = "ping" THEN f[i - 1]
                                        ELSE Append(f[i - 1], s[i])
  BY NoPingsIs
<1>3. PICK g \in [0..Len(t) -> Seq(X)] :
        /\ g[0] = <<>> /\ NoPings(t) = g[Len(t)]
        /\ \A i \in 1..Len(t) : g[i] = IF t[i] = "ping" THEN g[i - 1]
                                        ELSE Append(g[i - 1], t[i])
  BY <1>1, NoPingsIs
<1> DEFINE S == {k \in Nat : k <= Len(s) => f[k] = g[k]}
<1>4. 0 \in S
  BY <1>2, <1>3
<1>5. ASSUME NEW k \in Nat, k \in S PROVE k + 1 \in S
  <2> SUFFICES ASSUME k + 1 <= Len(s) PROVE f[k + 1] = g[k + 1]
    OBVIOUS
  <2>1. f[k] = g[k] /\ t[k + 1] = s[k + 1] /\ (k + 1) - 1 = k
        /\ k + 1 \in 1..Len(s) /\ k + 1 \in 1..Len(t)
    BY <1>1, <1>5
  <2>2. f[k + 1] = IF s[k + 1] = "ping" THEN f[k] ELSE Append(f[k], s[k + 1])
    BY <1>2, <2>1
  <2>3. g[k + 1] = IF t[k + 1] = "ping" THEN g[k] ELSE Append(g[k], t[k + 1])
    BY <1>3, <2>1
  <2> QED
    BY <2>1, <2>2, <2>3
<1>6. Len(s) \in S
  <2> HIDE DEF S
  <2> QED
    BY <1>1, <1>4, <1>5, AllNaturals
<1>7. g[Len(s)] = NoPings(s)
  BY <1>2, <1>6
<1>8. Len(t) \in 1..Len(t) /\ Len(t) - 1 = Len(s) /\ t[Len(t)] = c
  BY <1>1
<1>9. g[Len(t)] = IF c = "ping" THEN g[Len(s)] ELSE Append(g[Len(s)], c)
  BY <1>3, <1>8
<1> QED
  BY <1>3, <1>7, <1>9 DEF t

LEMMA NoPingsTail ==
    ASSUME NEW X, NEW s \in Seq(X), s # <<>>
    PROVE  NoPings(s) = IF Head(s) = "ping" THEN NoPings(Tail(s))
                        ELSE <<Head(s)>> \o NoPings(Tail(s))
<1> DEFINE t == Tail(s)
           h == IF Head(s) = "ping" THEN <<>> ELSE <<Head(s)>>
<1>1. t \in Seq(X) /\ Len(t) + 1 = Len(s) /\ Head(s) = s[1]
      /\ Len(t) \in Nat /\ \A i \in 1..Len(t) : t[i] = s[i + 1]
  OBVIOUS
<1>2. h \in Seq(X) /\ s[1] \in X /\ \A i \in 1..Len(t) : t[i] \in X
  OBVIOUS
<1>3. h = IF s[1] = "ping" THEN <<>> ELSE <<s[1]>>
  BY <1>1
<1> HIDE DEF t, h
<1>4. PICK f \in [0..Len(s) -> Seq(X)] :
        /\ f[0] = <<>> /\ NoPings(s) = f[Len(s)]
        /\ \A i \in 1..Len(s) : f[i] = IF s[i] = "ping" THEN f[i - 1]
                                        ELSE Append(f[i - 1], s[i])
  BY NoPingsIs
<1>5. PICK g \in [0..Len(t) -> Seq(X)] :
        /\ g[0] = <<>> /\ NoPings(t) = g[Len(t)]
        /\ \A i \in 1..Len(t) : g[i] = IF t[i] = "ping" THEN g[i - 1]
                                        ELSE Append(g[i - 1], t[i])
  BY <1>1, NoPingsIs
<1> DEFINE S == {k \in Nat : k <= Len(t) => f[k + 1] = h \o g[k]}
<1>6. 0 \in S
  <2>1. 1 \in 1..Len(s) /\ 1 - 1 = 0 /\ 0 + 1 = 1
    BY <1>1
  <2>2. f[1] = IF s[1] = "ping" THEN <<>> ELSE Append(<<>>, s[1])
    BY <1>4, <2>1
  <2>3. f[1] = h
    BY <1>3, <2>2
  <2>4. h \o g[0] = h
    BY <1>2, <1>5
  <2> QED
    BY <2>1, <2>3, <2>4
<1>7. ASSUME NEW k \in Nat, k \in S PROVE k + 1 \in S
  <2> SUFFICES ASSUME k + 1 <= Len(t) PROVE f[k + 2] = h \o g[k + 1]
    OBVIOUS
  <2>1. f[k + 1] = h \o g[k] /\ t[k + 1] = s[k + 2] /\ (k + 1) - 1 = k /\ (k + 2) - 1 = k + 1
        /\ k + 1 \in 1..Len(t) /\ k + 2 \in 1..Len(s) /\ k \in 0..Len(t)
    BY <1>1, <1>7
  <2>2. f[k + 2] = IF s[k + 2] = "ping" THEN f[k + 1] ELSE Append(f[k + 1], s[k + 2])
    BY <1>4, <2>1
  <2>3. g[k + 1] = IF t[k + 1] = "ping" THEN g[k] ELSE Append(g[k], t[k + 1])
    BY <1>5, <2>1
  <2>4. g[k] \in Seq(X) /\ t[k + 1] \in X
    BY <1>2, <1>5, <2>1
  <2>5. Append(h \o g[k], t[k + 1]) = h \o Append(g[k], t[k + 1])
    <3>1. AppendedAfter(h, g[k], t[k + 1])
      BY <1>2, <2>4, AppendAfter
    <3> QED
      BY <3>1 DEF AppendedAfter
  <2> QED
    BY <2>1, <2>2, <2>3, <2>5
<1>8. Len(t) \in S
  <2> HIDE DEF S
  <2> QED
    BY <1>1, <1>6, <1>7, AllNaturals
<1>9. NoPings(s) = h \o NoPings(t)
  BY <1>1, <1>4, <1>5, <1>8
<1>10. NoPings(t) \in Seq(X)
  BY <1>1, NoPingsType
<1> QED
  BY <1>9, <1>10 DEF t, h

-----------------------------------------------------------------------------
(* The router: the routes can be sorted, and no hit comes before the first. *)

\* R orders 1..n: any two are related, and the relation is transitive.
Orders(R, n) ==
    /\ \A i, j \in 1..n : <<i, j>> \in R \/ <<j, i>> \in R
    /\ \A i, j, k \in 1..n : <<i, j>> \in R /\ <<j, k>> \in R => <<i, k>> \in R

Sorts(f, n, R) ==
    /\ f \in [1..n -> 1..n]
    /\ \A i, j \in 1..n : i < j => f[i] # f[j] /\ <<f[i], f[j]>> \in R

\* One more finds its place among those that are sorted.
LEMMA Inserted ==
    ASSUME NEW n \in Nat, NEW R, Orders(R, n), NEW k \in Nat, k + 1 <= n,
           NEW f, Sorts(f, k, R)
    PROVE  \E g : Sorts(g, k + 1, R)
<1> DEFINE U == {m \in 0..k : \A i \in 1..k : i > m => <<k + 1, f[i]>> \in R}
<1>1. k \in U
  OBVIOUS
<1>2. PICK p \in U : \A m \in U : p <= m
  <2>1. U \in SUBSET Nat /\ U # {}
    BY <1>1
  <2> HIDE DEF U
  <2> QED
    BY <2>1, LeastOf
<1>3. \A i \in 1..k : f[i] \in 1..k /\ f[i] \in 1..n
  BY DEF Sorts
<1>4. p \in 0..k /\ k + 1 \in 1..n
  OBVIOUS
<1>5. ASSUME NEW i \in 1..k, i > p PROVE <<k + 1, f[i]>> \in R
  BY <1>5
<1>6. ASSUME NEW i \in 1..k, i <= p PROVE <<f[i], k + 1>> \in R
  <2>1. p \in 1..k /\ p - 1 \in 0..k /\ p - 1 \notin U
    BY <1>2, <1>4, <1>6
  <2>2. PICK j \in 1..k : j > p - 1 /\ <<k + 1, f[j]>> \notin R
    BY <2>1
  <2>3. j = p
    <3>1. ~(j > p)
      BY <1>5, <2>2
    <3> QED
      BY <1>4, <2>2, <3>1
  <2>4. <<f[p], k + 1>> \in R
    <3>1. f[p] \in 1..n
      BY <1>3, <2>1
    <3>2. <<k + 1, f[p]>> \in R \/ <<f[p], k + 1>> \in R
      BY <1>4, <3>1 DEF Orders
    <3> QED
      BY <2>2, <2>3, <3>2
  <2>5. CASE i = p
    BY <2>4, <2>5
  <2>6. CASE i # p
    <3>1. <<f[i], f[p]>> \in R
      BY <1>6, <2>1, <2>6 DEF Sorts
    <3>2. f[i] \in 1..n /\ f[p] \in 1..n
      BY <1>3, <2>1
    <3> QED
      BY <1>4, <2>4, <3>1, <3>2 DEF Orders
  <2> QED
    BY <2>5, <2>6
<1> HIDE DEF U
<1> DEFINE g == [i \in 1..(k + 1) |-> IF i <= p THEN f[i] ELSE IF i = p + 1 THEN k + 1 ELSE f[i - 1]]
<1>7. g \in [1..(k + 1) -> 1..(k + 1)]
  <2>1. ASSUME NEW i \in 1..(k + 1) PROVE g[i] \in 1..(k + 1)
    <3>1. CASE i <= p
      <4>1. i \in 1..k /\ g[i] = f[i]
        BY <1>4, <3>1
      <4> QED
        BY <1>3, <4>1
    <3>2. CASE i = p + 1
      BY <3>2, <1>4
    <3>3. CASE i > p + 1
      <4>1. i - 1 \in 1..k /\ g[i] = f[i - 1]
        BY <1>4, <3>3
      <4> QED
        BY <1>3, <4>1
    <3> QED
      BY <1>4, <3>1, <3>2, <3>3
  <2> QED
    BY <2>1
<1>8. ASSUME NEW i \in 1..(k + 1), NEW j \in 1..(k + 1), i < j
      PROVE  g[i] # g[j] /\ <<g[i], g[j]>> \in R
  <2>1. CASE j <= p
    <3>1. i \in 1..k /\ j \in 1..k /\ g[i] = f[i] /\ g[j] = f[j]
      BY <1>4, <1>8, <2>1
    <3> QED
      BY <1>8, <3>1 DEF Sorts
  <2>2. CASE j = p + 1
    <3>1. i \in 1..k /\ i <= p /\ g[i] = f[i] /\ g[j] = k + 1
      BY <1>4, <1>8, <2>2
    <3> QED
      BY <1>3, <1>6, <3>1
  <2>3. CASE j > p + 1
    <3>1. j - 1 \in 1..k /\ j - 1 > p /\ g[j] = f[j - 1]
      BY <1>4, <2>3
    <3>2. CASE i <= p
      <4>1. i \in 1..k /\ i < j - 1 /\ g[i] = f[i]
        BY <1>4, <1>8, <2>3, <3>2
      <4> QED
        BY <3>1, <4>1 DEF Sorts
    <3>3. CASE i = p + 1
      <4>1. g[i] = k + 1
        BY <1>4, <3>3
      <4> QED
        BY <1>3, <1>5, <3>1, <4>1
    <3>4. CASE i > p + 1
      <4>1. i - 1 \in 1..k /\ i - 1 < j - 1 /\ g[i] = f[i - 1]
        BY <1>4, <1>8, <3>4
      <4> QED
        BY <3>1, <4>1 DEF Sorts
    <3> QED
      BY <1>4, <3>2, <3>3, <3>4
  <2> QED
    BY <1>4, <2>1, <2>2, <2>3
<1> HIDE DEF g
<1> QED
  BY <1>7, <1>8 DEF Sorts

LEMMA SortExists ==
    ASSUME NEW n \in Nat, NEW R, Orders(R, n)
    PROVE  \E f : Sorts(f, n, R)
<1> DEFINE S == {k \in Nat : k <= n => \E f : Sorts(f, k, R)}
<1>1. 0 \in S
  <2>1. Sorts([i \in 1..0 |-> 0], 0, R)
    BY DEF Sorts
  <2> QED
    BY <2>1
<1>2. ASSUME NEW k \in Nat, k \in S PROVE k + 1 \in S
  <2> SUFFICES ASSUME k + 1 <= n PROVE \E f : Sorts(f, k + 1, R)
    OBVIOUS
  <2>1. PICK f : Sorts(f, k, R)
    BY <1>2
  <2> QED
    BY <2>1, Inserted
<1>3. n \in S
  <2> HIDE DEF S
  <2> QED
    BY <1>1, <1>2, AllNaturals
<1> QED
  BY <1>3

\* A sort reaches every route.
Reaches(f, n, i) == \E k \in 1..n : f[k] = i

LEMMA SortIsOnto ==
    ASSUME NEW n \in Nat, NEW R, NEW f, Sorts(f, n, R), NEW i \in 1..n
    PROVE  Reaches(f, n, i)
<1> SUFFICES ASSUME \A k \in 1..n : f[k] # i PROVE FALSE
  BY DEF Reaches
<1> DEFINE T == (1..n) \ {i}
<1>1. f \in [1..n -> T]
  BY DEF Sorts
<1>2. IsFiniteSet(1..n) /\ Cardinality(1..n) = n
  BY FS_Interval
<1>3. IsFiniteSet(T) /\ Cardinality(T) = n - 1
  BY <1>2, FS_RemoveElement
<1>4. Cardinality(T) < Cardinality(1..n)
  BY <1>2, <1>3
<1> HIDE DEF T
<1>5. PICK x \in 1..n, y \in 1..n : x # y /\ f[x] = f[y]
  BY <1>1, <1>2, <1>3, <1>4, FS_PigeonHole
<1>6. x < y \/ y < x
  BY <1>5
<1> QED
  BY <1>5, <1>6 DEF Sorts

\* Where a sort_by that is stable puts the routes.
IsBefore(i, j) ==
    /\ NotAfter(Providers[i], Providers[j])
    /\ NotAfter(Providers[j], Providers[i]) => i <= j

Before == {p \in (DOMAIN Providers) \X (DOMAIN Providers) : IsBefore(p[1], p[2])}

LEMMA BeforeIs ==
    ASSUME NEW i \in DOMAIN Providers, NEW j \in DOMAIN Providers
    PROVE  <<i, j>> \in Before <=> IsBefore(i, j)
  BY DEF Before

LEMMA BeforeOrders ==
    ASSUME RoutesAssumption
    PROVE  Orders(Before, Len(Providers))
<1> DEFINE n == Len(Providers)
           rank(i) == IF Providers[i].host = NoHost THEN 1 ELSE 0
           len(i) == Len(Providers[i].prefix)
           below(i, j) == \/ rank(i) < rank(j)
                          \/ rank(i) = rank(j) /\ len(i) >= len(j)
<1>1. n \in Nat /\ DOMAIN Providers = 1..n /\ \A i \in 1..n : len(i) \in Nat /\ rank(i) \in {0, 1}
  BY DEF RoutesAssumption
<1>2. ASSUME NEW i \in 1..n, NEW j \in 1..n
      PROVE  <<i, j>> \in Before <=> below(i, j) /\ (below(j, i) => i <= j)
  <2>1. i \in DOMAIN Providers /\ j \in DOMAIN Providers
    BY <1>1
  <2>2. <<i, j>> \in Before <=> IsBefore(i, j)
    BY <2>1, BeforeIs
  <2>3. IsBefore(i, j) <=> below(i, j) /\ (below(j, i) => i <= j)
    BY DEF IsBefore, NotAfter
  <2> QED
    BY <2>2, <2>3
<1> HIDE DEF rank, len
<1>3. ASSUME NEW i \in 1..n, NEW j \in 1..n PROVE <<i, j>> \in Before \/ <<j, i>> \in Before
  BY <1>1, <1>2
<1>4. ASSUME NEW i \in 1..n, NEW j \in 1..n, NEW k \in 1..n,
             <<i, j>> \in Before, <<j, k>> \in Before
      PROVE  <<i, k>> \in Before
  <2>1. below(i, j) /\ (below(j, i) => i <= j) /\ below(j, k) /\ (below(k, j) => j <= k)
    BY <1>2, <1>4
  <2>2. below(i, k) /\ (below(k, i) => i <= k)
    BY <1>1, <2>1
  <2> QED
    BY <1>2, <2>2
<1> QED
  BY <1>3, <1>4 DEF Orders

LEMMA RouterIsSorted ==
    ASSUME RoutesAssumption
    PROVE  \E f : /\ Sorts(f, Len(Providers), Before)
                  /\ RouterBuilt = [i \in 1..Len(Providers) |-> Providers[f[i]]]
<1> DEFINE D == DOMAIN Providers
           before(i, j) == /\ NotAfter(Providers[i], Providers[j])
                           /\ NotAfter(Providers[j], Providers[i]) => i <= j
           order == CHOOSE f \in [D -> D] :
                      \A i, j \in D : i < j => f[i] # f[j] /\ before(f[i], f[j])
<1>1. D = 1..Len(Providers) /\ Len(Providers) \in Nat
  BY DEF RoutesAssumption
<1>2. \A i, j \in D : <<i, j>> \in Before <=> before(i, j)
  BY BeforeIs DEF IsBefore
<1>3. PICK f : Sorts(f, Len(Providers), Before)
  BY <1>1, BeforeOrders, SortExists
<1>4. f \in [D -> D] /\ \A i, j \in D : i < j => f[i] # f[j] /\ before(f[i], f[j])
  BY <1>1, <1>2, <1>3 DEF Sorts
<1>5. order \in [D -> D] /\ \A i, j \in D : i < j => order[i] # order[j] /\ before(order[i], order[j])
  BY <1>4
<1>6. RouterBuilt = [i \in D |-> Providers[order[i]]]
  BY DEF RouterBuilt
<1> HIDE DEF order
<1>7. Sorts(order, Len(Providers), Before)
  BY <1>1, <1>2, <1>5 DEF Sorts
<1> QED
  BY <1>1, <1>6, <1>7

\* The route that takes a request: one at most, and no route beats it.
LEMMA MatchIsBest ==
    ASSUME RoutesAssumption, NEW host, NEW path, NEW r \in Match(host, path)
    PROVE  /\ Match(host, path) = {r}
           /\ \E i \in DOMAIN Providers : r = Providers[i]
           /\ \A i \in DOMAIN Providers :
                Matches(Providers[i], host, path) => ~Beats(Providers[i], r)
<1> DEFINE n == Len(Providers)
           hits == {i \in DOMAIN RouterBuilt : Matches(RouterBuilt[i], host, path)}
<1>1. n \in Nat /\ DOMAIN Providers = 1..n
  BY DEF RoutesAssumption
<1>2. PICK f : Sorts(f, n, Before) /\ RouterBuilt = [i \in 1..n |-> Providers[f[i]]]
  BY RouterIsSorted
<1>3. Match(host, path) = {RouterBuilt[i] : i \in {j \in hits : \A k \in hits : j <= k}}
  BY DEF Match
<1>4. hits \subseteq 1..n
  BY <1>2
<1>5. PICK j \in hits : r = RouterBuilt[j] /\ \A k \in hits : j <= k
  BY <1>3
<1>6. Match(host, path) = {r}
  <2>1. ASSUME NEW j2 \in hits, \A k \in hits : j2 <= k PROVE j2 = j
    <3>1. j2 <= j /\ j <= j2 /\ j \in 1..n /\ j2 \in 1..n
      BY <1>4, <1>5, <2>1
    <3> QED
      BY <3>1
  <2> HIDE DEF hits
  <2> QED
    BY <1>3, <1>5, <2>1
<1>7. j \in 1..n /\ f[j] \in 1..n /\ r = Providers[f[j]]
  BY <1>2, <1>4, <1>5 DEF Sorts
<1>8. ASSUME NEW i \in DOMAIN Providers, Matches(Providers[i], host, path)
      PROVE  ~Beats(Providers[i], r)
  <2>1. PICK k \in 1..n : f[k] = i
    <3>1. i \in 1..n
      BY <1>1
    <3>2. Reaches(f, n, i)
      BY <1>1, <1>2, <3>1, SortIsOnto
    <3> QED
      BY <3>2 DEF Reaches
  <2>2. RouterBuilt[k] = Providers[i]
    BY <1>2, <2>1
  <2>3. k \in hits
    BY <1>2, <1>8, <2>2
  <2>4. j <= k
    BY <1>5, <2>3
  <2>5. Len(Providers[i].prefix) \in Nat /\ Len(r.prefix) \in Nat
    BY <1>1, <1>7 DEF RoutesAssumption
  <2>6. CASE j = k
    <3>1. r = Providers[i]
      BY <1>5, <2>2, <2>6
    <3> QED
      BY <2>5, <3>1 DEF Beats
  <2>7. CASE j < k
    <3>1. <<f[j], i>> \in Before
      BY <1>2, <1>7, <2>1, <2>7 DEF Sorts
    <3>2. NotAfter(r, Providers[i])
      BY <1>1, <1>7, <3>1, BeforeIs DEF IsBefore
    <3> QED
      BY <2>5, <3>2 DEF NotAfter, Beats
  <2> QED
    BY <1>7, <2>1, <2>4, <2>6, <2>7
<1> QED
  BY <1>1, <1>6, <1>7, <1>8

-----------------------------------------------------------------------------
(* Types                                                                    *)

Bodies == [left : Seq(Nat), out : Seq(Nat), end : {"open", "whole", "broken"}]
Frames == Sides["caller"] \cup Sides["upstream"]

HttpTyped ==
    /\ asked \in Exchanges
    /\ at \in {"match", "send", "reply", "dial", "pump", "close"} \cup Done
    /\ status \in {0, 101, 200, 400, 403, 404, 413, 502}
    /\ up \in Bodies /\ down \in Bodies
    /\ route = {} \/ route = Match(asked.host, asked.path)
    /\ at = "match" => route = {}

PumpTyped ==
    /\ said \in [Parties -> Seq(Frames)] /\ leg \in [Parties -> Seq(Frames)]
    /\ heard \in [Parties -> Seq(Frames)]
    /\ unread \in [Parties -> 0..LegRoom] /\ \A e \in Parties : Len(leg[e]) <= LegRoom
    /\ holds = {} \/ \E h \in [to : Parties, frame : Frames] : holds = {h}
    /\ gone \subseteq Parties

Typed == HttpTyped /\ PumpTyped

LEMMA OtherEnd ==
    ASSUME NEW e \in Parties
    PROVE  Other(e) \in Parties /\ Other(e) # e /\ Other(Other(e)) = e
  BY DEF Parties, Other

LEMMA BodyType ==
    ASSUME NEW chunks \in Seq(Nat)
    PROVE  /\ Body(chunks) \in Bodies /\ Body(chunks).left = chunks
           /\ Body(chunks).out = <<>> /\ Body(chunks).end = "open"
  BY DEF Body, Bodies

\* A chunk goes from what is left to what came out.
Moves(s, t) == Append(s, Head(t)) \o Tail(t) = s \o t

LEMMA HeadMoves ==
    ASSUME NEW X, NEW s \in Seq(X), NEW t \in Seq(X), t # <<>>
    PROVE  Moves(s, t)
<1> DEFINE h == <<Head(t)>>
           u == Tail(t)
<1>1. h \in Seq(X) /\ u \in Seq(X) /\ Head(t) \in X /\ h \o u = t
  OBVIOUS
<1>2. Append(s, Head(t)) = s \o h
  BY <1>1, AppendIsConcat
<1> HIDE DEF h, u
<1>3. Regrouped(s, h, u)
  BY <1>1, Regroups
<1> QED
  BY <1>1, <1>2, <1>3 DEF Moves, Regrouped, u

\* The whole of a body stays the same while chunk after chunk comes through, none
\* beyond the cap; and it ends as whole only when nothing is left.
CappedWell(b, max) ==
    /\ Capped(b, max) \in Bodies
    /\ Capped(b, max).out \o Capped(b, max).left = b.out \o b.left
    /\ max > 0 => Sum(Capped(b, max).out) <= max
    /\ Capped(b, max).end = "whole" => Capped(b, max).left = <<>> \/ b.end = "whole"

LEMMA CappedIs ==
    ASSUME NEW b \in Bodies, NEW max \in Nat, max > 0 => Sum(b.out) <= max
    PROVE  CappedWell(b, max)
<1> USE DEF CappedWell
<1>1. b.left \in Seq(Nat) /\ b.out \in Seq(Nat) /\ b.end \in {"open", "whole", "broken"}
  BY DEF Bodies
<1>2. CASE b.left = <<>>
  <2>1. Capped(b, max) = [left |-> b.left, out |-> b.out, end |-> "whole"]
    BY <1>2 DEF Capped, Bodies
  <2> QED
    BY <1>1, <1>2, <2>1 DEF Bodies
<1>3. CASE b.left # <<>> /\ max > 0 /\ Sum(b.out) + Head(b.left) > max
  <2>1. Capped(b, max) = [left |-> b.left, out |-> b.out, end |-> "broken"]
    BY <1>3 DEF Capped, Bodies
  <2> QED
    BY <1>1, <1>3, <2>1 DEF Bodies
<1>4. CASE b.left # <<>> /\ ~(max > 0 /\ Sum(b.out) + Head(b.left) > max)
  <2>1. Capped(b, max) = [left |-> Tail(b.left), out |-> Append(b.out, Head(b.left)), end |-> b.end]
    BY <1>4 DEF Capped, Bodies
  <2>2. Tail(b.left) \in Seq(Nat) /\ Head(b.left) \in Nat
    BY <1>1, <1>4
  <2>3. Append(b.out, Head(b.left)) \in Seq(Nat)
    BY <1>1, <2>2
  <2>4. Append(b.out, Head(b.left)) \o Tail(b.left) = b.out \o b.left
    <3>1. Moves(b.out, b.left)
      BY <1>1, <1>4, HeadMoves
    <3> QED
      BY <3>1 DEF Moves
  <2>5. Sum(Append(b.out, Head(b.left))) = Sum(b.out) + Head(b.left) /\ Sum(b.out) \in Nat
    BY <1>1, <2>2, SumAppends
  <2>6. max > 0 => Sum(Append(b.out, Head(b.left))) <= max
    BY <1>4, <2>2, <2>5
  <2>7. Capped(b, max) \in Bodies
    BY <1>1, <2>1, <2>2, <2>3 DEF Bodies
  <2> QED
    <3>1. /\ Capped(b, max).left = Tail(b.left) /\ Capped(b, max).end = b.end
          /\ Capped(b, max).out = Append(b.out, Head(b.left))
      BY <2>1
    <3> QED
      BY <2>4, <2>6, <2>7, <3>1
<1> QED
  BY <1>2, <1>3, <1>4

LEMMA BrokenIs ==
    ASSUME NEW b \in Bodies
    PROVE  /\ Broken(b) \in Bodies /\ Broken(b).left = b.left /\ Broken(b).out = b.out
           /\ Broken(b).end = "whole" => b.end = "whole"
           /\ Broken(b).end # "open"
  BY DEF Broken, Bodies

\* What a route says, of those that the start compiled.
LEMMA RouteIs ==
    ASSUME RoutesAssumption, HttpTyped, NEW r \in route
    PROVE  /\ route = {r} /\ route = Match(asked.host, asked.path)
           /\ r.maxRequest \in Nat /\ r.maxResponse \in Nat
<1>1. route = Match(asked.host, asked.path)
  BY DEF HttpTyped
<1>2. r \in Match(asked.host, asked.path)
  BY <1>1
<1>3. Match(asked.host, asked.path) = {r} /\ \E i \in DOMAIN Providers : r = Providers[i]
  BY <1>2, MatchIsBest
<1> QED
  BY <1>1, <1>3 DEF RoutesAssumption

LEMMA TypedInit == ASSUME PassthroughAssumption, PassInit PROVE Typed
<1>1. asked.body \in Seq(Nat) /\ <<>> \in Seq(Nat) /\ asked \in Exchanges
  BY DEF PassthroughAssumption, PassInit
<1>2. HttpTyped
  BY <1>1, BodyType DEF PassInit, HttpTyped
<1>3. PumpTyped
  <2>1. <<>> \in Seq(Frames) /\ Len(<<>>) = 0 /\ LegRoom \in Nat /\ 0 \in 0..LegRoom
    BY DEF PassthroughAssumption
  <2> QED
    BY <2>1 DEF PassInit, PumpTyped
<1> QED
  BY <1>2, <1>3 DEF Typed

\* What a step leaves alone.
LEMMA PumpKeeps == ASSUME PumpTyped, UNCHANGED frames PROVE PumpTyped'
  BY DEF PumpTyped, frames

LEMMA HttpKeeps ==
    ASSUME HttpTyped, UNCHANGED <<asked, route, status, bodies>>,
           at' \in {"dial", "pump", "close"} \cup Done
    PROVE  HttpTyped'
<1>1. up' = up /\ down' = down
  BY DEF bodies
<1>2. at' # "match"
  BY DEF Done
<1> QED
  BY <1>1, <1>2 DEF HttpTyped

\* What the upstream is asked, by the route r, and a body that is not sent.
AskOf(r) ==
    {[path |-> Sought(Rewritten(r, asked.path), Upgrades(r)), route |-> r.name,
      headers |-> Sent(r, Rewritten(r, asked.path), asked.headers, asked.listed, Upgrades(r))]}
Unsent == {[Body(<<>>) EXCEPT !.end = e] : e \in {"whole", "broken"}}

\* The ends of a dispatch.
LEMMA DispatchIs ==
    ASSUME Dispatch
    PROVE  /\ at = "match" /\ at' # "match" /\ UNCHANGED <<asked, down, frames>>
           /\ route' = Match(asked.host, asked.path)
           /\ \/ /\ at' = "ended" /\ status' \in {400, 403, 404, 413} /\ UNCHANGED <<seen, up>>
              \/ \E r \in route' :
                   /\ ~Denied(r, Rewritten(r, asked.path)) /\ seen' = AskOf(r)
                   /\ \/ at' = "dial" /\ status' = 101 /\ up' = up
                      \/ /\ at' = "send" /\ status' = status
                         /\ asked.bodied => up' = up
                         /\ ~asked.bodied => up' \in Unsent
<1>1. CASE route' = {}
  BY <1>1 DEF Dispatch, Refuse, bodies
<1>2. CASE route' # {}
  <2>1. PICK r \in route' :
          LET path == Rewritten(r, asked.path)
              tooBig == /\ r.maxRequest > 0 /\ asked.declared
                        /\ Sum(asked.body) > r.maxRequest
          IN  IF Denied(r, path) THEN Refuse(403)
              ELSE IF Upgrades(r) /\ ~asked.shaken THEN Refuse(400)
              ELSE IF Upgrades(r) THEN
                 /\ at' = "dial" /\ status' = 101 /\ seen' = AskOf(r)
                 /\ UNCHANGED <<asked, bodies, frames>>
              ELSE IF tooBig THEN Refuse(413)
              ELSE
                 /\ at' = "send" /\ seen' = AskOf(r)
                 /\ IF asked.bodied THEN UNCHANGED up
                    ELSE \E e \in Undone(asked.declared) : up' = [Body(<<>>) EXCEPT !.end = e]
                 /\ UNCHANGED <<asked, status, down, frames>>
    BY <1>2 DEF Dispatch, AskOf
  <2>2. at = "match" /\ route' = Match(asked.host, asked.path)
    BY DEF Dispatch
  <2>3. CASE Denied(r, Rewritten(r, asked.path))
    BY <2>1, <2>2, <2>3 DEF Refuse, bodies
  <2>4. CASE ~Denied(r, Rewritten(r, asked.path)) /\ Upgrades(r)
    <3>1. CASE asked.shaken
      BY <2>1, <2>2, <2>4, <3>1 DEF bodies
    <3>2. CASE ~asked.shaken
      BY <2>1, <2>2, <2>4, <3>2 DEF Refuse, bodies
    <3> QED
      BY <3>1, <3>2
  <2>5. CASE /\ ~Denied(r, Rewritten(r, asked.path)) /\ ~Upgrades(r)
             /\ r.maxRequest > 0 /\ asked.declared /\ Sum(asked.body) > r.maxRequest
    BY <2>1, <2>2, <2>5 DEF Refuse, bodies
  <2>6. CASE /\ ~Denied(r, Rewritten(r, asked.path)) /\ ~Upgrades(r)
             /\ ~(r.maxRequest > 0 /\ asked.declared /\ Sum(asked.body) > r.maxRequest)
    <3>1. /\ at' = "send" /\ seen' = AskOf(r)
          /\ IF asked.bodied THEN UNCHANGED up
             ELSE \E e \in Undone(asked.declared) : up' = [Body(<<>>) EXCEPT !.end = e]
          /\ UNCHANGED <<asked, status, down, frames>>
      BY <2>1, <2>6
    <3>2. Undone(asked.declared) \subseteq {"whole", "broken"}
      BY DEF Undone
    <3>3. ~asked.bodied => up' \in Unsent
      BY <3>1, <3>2 DEF Unsent
    <3> QED
      BY <2>2, <2>6, <3>1, <3>3
  <2> QED
    BY <2>3, <2>4, <2>5, <2>6
<1> QED
  BY <1>1, <1>2

LEMMA UnsentIs ==
    ASSUME NEW b \in Unsent
    PROVE  b \in Bodies /\ b.left = <<>> /\ b.out = <<>> /\ b.end # "open"
<1>1. <<>> \in Seq(Nat)
  OBVIOUS
<1> QED
  BY <1>1 DEF Unsent, Body, Bodies

\* Those of the actions that move a body: what becomes of it.
LEMMA PullUpIs ==
    ASSUME PullUp
    PROVE  /\ at \in {"send", "reply"} /\ up.end = "open"
           /\ UNCHANGED <<asked, route, seen, down, frames>>
           /\ \E r \in route : up' = Capped(up, r.maxRequest) \/ up' = Broken(up)
           /\ (at' = at /\ status' = status) \/ (at' = "ended" /\ status' = 502)
<1>1. PICK r \in route :
        LET b == Capped(up, r.maxRequest)
        IN  IF b.end = "broken" /\ at = "send" THEN SendFails
            ELSE up' = b /\ UNCHANGED <<asked, route, at, status, seen, down, frames>>
  BY DEF PullUp
<1>2. CASE Capped(up, r.maxRequest).end = "broken" /\ at = "send"
  BY <1>1, <1>2 DEF PullUp, SendFails
<1>3. CASE ~(Capped(up, r.maxRequest).end = "broken" /\ at = "send")
  BY <1>1, <1>3 DEF PullUp
<1> QED
  BY <1>2, <1>3

LEMMA PullDownIs ==
    ASSUME PullDown
    PROVE  /\ at = "reply" /\ at' \in {"reply", "ended"}
           /\ UNCHANGED <<asked, route, status, seen, frames>>
           /\ up' = up \/ up' = Broken(up)
           /\ \E r \in route : down' = Capped(down, r.maxResponse)
  BY DEF PullDown

\* Of neither body more has come through than the route's cap allows.
Caps ==
    \A r \in route : /\ r.maxRequest > 0 => Sum(up.out) <= r.maxRequest
                     /\ r.maxResponse > 0 => Sum(down.out) <= r.maxResponse

LEMMA TypedStep ==
    ASSUME RoutesAssumption, PassthroughAssumption, Typed, PassNext,
           Caps
    PROVE  Typed'
<1> USE DEF Typed
<1>1. CASE Dispatch
  <2>1. PumpTyped'
    BY <1>1, DispatchIs, PumpKeeps
  <2>2. up' \in Bodies
    <3>1. up' = up \/ up' \in Unsent
      BY <1>1, DispatchIs
    <3> QED
      BY <3>1, UnsentIs DEF HttpTyped
  <2>3. HttpTyped'
    BY <1>1, <2>2, DispatchIs DEF HttpTyped, Done
  <2> QED
    BY <2>1, <2>3
<1>2. CASE PullUp
  <2>1. PumpTyped'
    BY <1>2, PullUpIs, PumpKeeps
  <2>2. up' \in Bodies
    <3>1. PICK r \in route : up' = Capped(up, r.maxRequest) \/ up' = Broken(up)
      BY <1>2, PullUpIs
    <3>2. r.maxRequest \in Nat /\ up \in Bodies
      BY RouteIs DEF HttpTyped
    <3>3. CappedWell(up, r.maxRequest)
      <4>1. r.maxRequest > 0 => Sum(up.out) <= r.maxRequest
        BY DEF Caps
      <4> QED
        BY <3>2, <4>1, CappedIs
    <3> QED
      BY <3>1, <3>2, <3>3, BrokenIs DEF CappedWell
  <2>3. HttpTyped'
    BY <1>2, <2>2, PullUpIs DEF HttpTyped, Done
  <2> QED
    BY <2>1, <2>3
<1>3. CASE Responds
  <2>1. PumpTyped'
    BY <1>3, PumpKeeps DEF Responds
  <2>2. down' \in Bodies
    BY <1>3, BodyType DEF Responds, PassthroughAssumption
  <2>3. HttpTyped'
    BY <1>3, <2>2 DEF Responds, HttpTyped
  <2> QED
    BY <2>1, <2>3
<1>4. CASE PullDown
  <2>1. PumpTyped'
    BY <1>4, PullDownIs, PumpKeeps
  <2>2. up' \in Bodies /\ down' \in Bodies
    <3>1. PICK r \in route : down' = Capped(down, r.maxResponse)
      BY <1>4, PullDownIs
    <3>2. r.maxResponse \in Nat /\ up \in Bodies /\ down \in Bodies
      BY RouteIs DEF HttpTyped
    <3>3. CappedWell(down, r.maxResponse)
      <4>1. r.maxResponse > 0 => Sum(down.out) <= r.maxResponse
        BY DEF Caps
      <4> QED
        BY <3>2, <4>1, CappedIs
    <3>4. up' = up \/ up' = Broken(up)
      BY <1>4, PullDownIs
    <3> QED
      BY <3>1, <3>2, <3>3, <3>4, BrokenIs DEF CappedWell
  <2>3. HttpTyped'
    BY <1>4, <2>2, PullDownIs DEF HttpTyped, Done
  <2> QED
    BY <2>1, <2>3
<1>5. CASE Breaks \/ BreaksReply \/ CallerGoes
  <2>1. /\ at' \in Done /\ status' \in {status, 502} /\ UNCHANGED <<asked, route, seen, frames>>
        /\ up' = Broken(up) /\ down' \in {down, Broken(down)}
    BY <1>5 DEF Breaks, SendFails, BreaksReply, CallerGoes, Done
  <2>2. PumpTyped'
    BY <2>1, PumpKeeps
  <2>3. up' \in Bodies /\ down' \in Bodies
    BY <2>1, BrokenIs DEF HttpTyped
  <2>4. HttpTyped'
    BY <2>1, <2>3 DEF HttpTyped, Done
  <2> QED
    BY <2>2, <2>4
<1>6. CASE Dial
  <2>1. HttpTyped'
    BY <1>6, HttpKeeps DEF Dial, Done
  <2>2. PumpTyped'
    BY <1>6 DEF Dial, PumpTyped
  <2> QED
    BY <2>1, <2>2
<1>7. CASE \E e \in Parties : Takes(e)
  <2>1. PICK e \in Parties : Takes(e)
    BY <1>7
  <2>2. HttpTyped'
    BY <2>1, HttpKeeps DEF Takes, pumpOnly, bodies
  <2>3. /\ leg[e] \in Seq(Frames) /\ leg[e] # <<>> /\ leg' = [leg EXCEPT ![e] = Tail(leg[e])]
        /\ holds' = IF Head(leg[e]) = "ping" THEN {} ELSE {[to |-> Other(e), frame |-> Head(leg[e])]}
        /\ UNCHANGED <<said, heard, unread, gone>>
    BY <2>1 DEF Takes, pumpOnly, PumpTyped
  <2>4. Tail(leg[e]) \in Seq(Frames) /\ Head(leg[e]) \in Frames /\ Len(Tail(leg[e])) <= Len(leg[e])
        /\ Len(Tail(leg[e])) \in Nat /\ Len(leg[e]) \in Nat
    BY <2>3
  <2>5. leg' \in [Parties -> Seq(Frames)] /\ \A q \in Parties : Len(leg'[q]) <= LegRoom
    BY <2>3, <2>4 DEF PumpTyped, PassthroughAssumption
  <2>6. holds' = {} \/ \E h \in [to : Parties, frame : Frames] : holds' = {h}
    BY <2>3, <2>4, OtherEnd
  <2>7. PumpTyped'
    BY <2>3, <2>5, <2>6 DEF PumpTyped
  <2> QED
    BY <2>2, <2>7
<1>8. CASE \E e \in Parties : Misses(e)
  <2>1. HttpTyped'
    BY <1>8, HttpKeeps DEF Misses, pumpOnly, bodies
  <2>2. PumpTyped'
    BY <1>8 DEF Misses, pumpOnly, PumpTyped
  <2> QED
    BY <2>1, <2>2
<1>9. CASE Delivers
  <2>1. PICK h \in holds :
         /\ h.to \in gone \/ unread[h.to] < LegRoom
         /\ heard' = IF h.to \in gone THEN heard ELSE [heard EXCEPT ![h.to] = Append(@, h.frame)]
         /\ unread' = IF h.to \in gone THEN unread ELSE [unread EXCEPT ![h.to] = @ + 1]
         /\ at' = IF h.to \in gone \/ h.frame = "close" THEN "close" ELSE at
         /\ holds' = {}
    BY <1>9 DEF Delivers
  <2>2. at = "pump" /\ UNCHANGED <<asked, route, status, seen, bodies, said, leg, gone>>
    BY <1>9 DEF Delivers, pumpOnly
  <2>3. HttpTyped'
    BY <2>1, <2>2, HttpKeeps
  <2>4. h.to \in Parties /\ h.frame \in Frames
    BY DEF PumpTyped
  <2>5. heard' \in [Parties -> Seq(Frames)]
    <3>1. heard[h.to] \in Seq(Frames)
      BY <2>4 DEF PumpTyped
    <3>2. Append(heard[h.to], h.frame) \in Seq(Frames)
      BY <2>4, <3>1
    <3> QED
      BY <2>1, <3>2 DEF PumpTyped
  <2>6. unread' \in [Parties -> 0..LegRoom]
    <3>1. h.to \notin gone => unread[h.to] + 1 \in 0..LegRoom
      BY <2>1, <2>4 DEF PumpTyped, PassthroughAssumption
    <3> QED
      BY <2>1, <3>1 DEF PumpTyped
  <2>7. PumpTyped'
    BY <2>1, <2>2, <2>5, <2>6 DEF PumpTyped
  <2> QED
    BY <2>3, <2>7
<1>10. CASE Closes
  <2>1. UNCHANGED <<asked, route, status, seen, bodies, said, leg, heard, unread, holds>>
        /\ at' \in {"close", "ended"} /\ gone' \subseteq Parties
    BY <1>10 DEF Closes, pumpOnly, PumpTyped, Parties
  <2>2. HttpTyped'
    BY <2>1, HttpKeeps DEF Done
  <2>3. PumpTyped'
    BY <2>1 DEF PumpTyped
  <2> QED
    BY <2>2, <2>3
<1>11. CASE \E e \in Parties : Says(e)
  <2>1. PICK e \in Parties : Says(e)
    BY <1>11
  <2>2. PICK f \in Sides[e] : /\ said' = [said EXCEPT ![e] = Append(said[e], f)]
                              /\ leg' = [leg EXCEPT ![e] = Append(leg[e], f)]
    BY <2>1 DEF Says
  <2>3. at = "pump" /\ Len(leg[e]) < LegRoom
        /\ UNCHANGED <<asked, route, at, status, seen, bodies, heard, unread, holds, gone>>
    BY <2>1 DEF Says
  <2>4. HttpTyped'
    BY <2>3, HttpKeeps
  <2>5. f \in Frames /\ said[e] \in Seq(Frames) /\ leg[e] \in Seq(Frames)
    BY DEF Frames, Parties, PumpTyped
  <2>6. Append(said[e], f) \in Seq(Frames) /\ Append(leg[e], f) \in Seq(Frames)
        /\ Len(Append(leg[e], f)) = Len(leg[e]) + 1 /\ Len(leg[e]) \in Nat
    BY <2>5
  <2>7. \A q \in Parties : Len(leg'[q]) <= LegRoom
    BY <2>2, <2>3, <2>6 DEF PumpTyped, PassthroughAssumption
  <2>8. said' \in [Parties -> Seq(Frames)] /\ leg' \in [Parties -> Seq(Frames)]
    BY <2>2, <2>6 DEF PumpTyped
  <2>9. PumpTyped'
    BY <2>3, <2>7, <2>8 DEF PumpTyped
  <2> QED
    BY <2>4, <2>9
<1>12. CASE \E e \in Parties : Reads(e)
  <2>1. PICK e \in Parties : Reads(e)
    BY <1>12
  <2>2. unread[e] > 0 /\ unread' = [unread EXCEPT ![e] = unread[e] - 1]
        /\ UNCHANGED <<asked, route, status, seen, bodies, said, at, leg, heard, holds, gone>>
    BY <2>1 DEF Reads, pumpOnly
  <2>3. HttpTyped'
    BY <2>2 DEF HttpTyped, bodies
  <2>4. unread[e] - 1 \in 0..LegRoom
    BY <2>2 DEF PumpTyped, PassthroughAssumption
  <2>5. PumpTyped'
    BY <2>2, <2>4 DEF PumpTyped
  <2> QED
    BY <2>3, <2>5
<1>13. CASE \E e \in Parties : Leaves(e)
  <2>1. UNCHANGED <<asked, route, status, seen, bodies, said, at, leg, heard, unread, holds>>
        /\ gone' \subseteq Parties
    BY <1>13 DEF Leaves, pumpOnly, PumpTyped
  <2>2. HttpTyped'
    BY <2>1 DEF HttpTyped, bodies
  <2>3. PumpTyped'
    BY <2>1 DEF PumpTyped
  <2> QED
    BY <2>2, <2>3
<1> QED
  BY <1>1, <1>2, <1>3, <1>4, <1>5, <1>6, <1>7, <1>8, <1>9, <1>10, <1>11, <1>12, <1>13
     DEF PassNext, Http, Pump

-----------------------------------------------------------------------------
(* The bodies                                                               *)

\* What came out and what is left are the body that was sent, all along, unless the
\* method is to have none: then nothing comes out.
Flows ==
    /\ asked.bodied => up.out \o up.left = asked.body /\ (up.end = "whole" => up.left = <<>>)
    /\ ~asked.bodied => up.out = <<>> /\ (at \in {"send", "reply"} => up.end # "open")
    /\ down.out \o down.left \in Replies \cup {<<>>}
    /\ down.end = "whole" => down.left = <<>>
    /\ at = "match" => up.out = <<>> /\ down.out = <<>>

BodyInv == Typed /\ Flows /\ Caps

LEMMA EmptyIs ==
    /\ <<>> \in Seq(Nat) /\ Sum(<<>>) = 0 /\ <<>> \o <<>> = <<>>
    /\ \A s \in Seq(Nat) : <<>> \o s = s /\ s \o <<>> = s
<1>1. <<>> \in Seq(Nat) /\ 0 \in Nat
  OBVIOUS
<1>2. Sum(<<>>) = 0
  BY <1>1, SumAppends
<1> QED
  BY <1>1, <1>2

LEMMA BodyInit == ASSUME PassthroughAssumption, PassInit PROVE BodyInv
<1>1. Typed
  BY TypedInit
<1>2. asked.body \in Seq(Nat)
  BY DEF PassthroughAssumption, PassInit
<1>3. up.left = asked.body /\ up.out = <<>> /\ up.end = "open"
      /\ down.left = <<>> /\ down.out = <<>> /\ down.end = "open"
  BY <1>2, EmptyIs, BodyType DEF PassInit
<1>4. Flows
  <2>1. /\ up.out \o up.left = asked.body /\ down.out \o down.left = <<>>
        /\ at = "match"
    BY <1>2, <1>3, EmptyIs DEF PassInit
  <2> QED
    BY <1>3, <2>1 DEF Flows
<1>5. Caps
  BY DEF PassInit, Caps
<1> QED
  BY <1>1, <1>4, <1>5 DEF BodyInv

\* A step that leaves the bodies alone, or breaks them off.
LEMMA BodyKeeps ==
    ASSUME Typed, Flows, Caps, UNCHANGED <<asked, route>>, at' # "match" \/ at' = at,
           at' \in {"send", "reply"} => at \in {"send", "reply"},
           up' = up \/ up' = Broken(up), down' = down \/ down' = Broken(down)
    PROVE  Flows' /\ Caps'
<1>1. /\ up'.out = up.out /\ up'.left = up.left /\ (up'.end = "whole" => up.end = "whole")
      /\ (up.end # "open" => up'.end # "open")
      /\ down'.out = down.out /\ down'.left = down.left
      /\ (down'.end = "whole" => down.end = "whole")
  BY BrokenIs DEF Typed, HttpTyped
<1> QED
  BY <1>1 DEF Flows, Caps

LEMMA BodyStep ==
    ASSUME RoutesAssumption, PassthroughAssumption, BodyInv, [PassNext]_passVars
    PROVE  BodyInv'
<1> USE DEF BodyInv
<1>1. CASE UNCHANGED passVars
  <2>1. Typed'
    BY <1>1 DEF passVars, Typed, HttpTyped, PumpTyped
  <2>2. UNCHANGED <<asked, route, at, up, down>>
    BY <1>1 DEF passVars
  <2> QED
    BY <2>1, <2>2, BodyKeeps
<1> SUFFICES ASSUME PassNext PROVE Flows' /\ Caps'
  BY <1>1, TypedStep
<1> HIDE DEF BodyInv
<1>a. Typed /\ Flows /\ Caps
  BY DEF BodyInv
<1>b. up \in Bodies /\ down \in Bodies /\ HttpTyped
  BY <1>a DEF Typed, HttpTyped
<1>2. CASE Dispatch
  <2>1. /\ at = "match" /\ at' # "match" /\ asked' = asked /\ down' = down
        /\ up' = up \/ (~asked.bodied /\ up' \in Unsent)
        /\ at' \in {"send", "reply"} /\ ~asked.bodied => up' \in Unsent
    BY <1>2, DispatchIs
  <2>2. up.out = <<>> /\ down.out = <<>>
    BY <1>a, <2>1 DEF Flows
  <2>3. up'.out = <<>>
    BY <2>1, <2>2, UnsentIs
  <2>4. Flows'
    <3>1. asked.bodied => up' = up
      BY <2>1
    <3>2. at' \in {"send", "reply"} /\ ~asked.bodied => up'.end # "open"
      BY <2>1, UnsentIs
    <3> QED
      BY <1>a, <2>1, <2>2, <2>3, <3>1, <3>2 DEF Flows
  <2>5. Caps'
    <3>1. Sum(up'.out) = 0 /\ Sum(down'.out) = 0
      BY <1>a, <2>1, <2>3, EmptyIs DEF Flows
    <3>2. HttpTyped'
      BY <1>a, TypedStep DEF Typed
    <3>3. \A r \in route' : r.maxRequest \in Nat /\ r.maxResponse \in Nat
      <4>1. TAKE r \in route'
      <4>2. r \in Match(asked.host, asked.path)
        BY <1>2, DispatchIs
      <4> QED
        BY <4>2, MatchIsBest DEF RoutesAssumption
    <3> QED
      BY <3>1, <3>3 DEF Caps
  <2> QED
    BY <2>4, <2>5
<1>3. CASE PullUp
  <2>1. PICK r \in route : up' = Capped(up, r.maxRequest) \/ up' = Broken(up)
    BY <1>3, PullUpIs
  <2>2. /\ UNCHANGED <<asked, route, down>> /\ at # "match" /\ at' # "match" /\ up.end = "open"
        /\ at \in {"send", "reply"} /\ asked.bodied
    BY <1>3, <1>a, PullUpIs DEF frames, Flows
  <2>3. CASE up' = Broken(up)
    BY <1>a, <2>2, <2>3, BodyKeeps
  <2>4. CASE up' = Capped(up, r.maxRequest)
    <3>1. route = {r} /\ r.maxRequest \in Nat
      BY <1>b, RouteIs
    <3>2. CappedWell(up, r.maxRequest)
      <4>1. r.maxRequest > 0 => Sum(up.out) <= r.maxRequest
        BY <1>a DEF Caps
      <4> QED
        BY <1>b, <3>1, <4>1, CappedIs
    <3>3. /\ up'.out \o up'.left = up.out \o up.left
          /\ up'.end = "whole" => up'.left = <<>>
          /\ r.maxRequest > 0 => Sum(up'.out) <= r.maxRequest
      BY <2>2, <2>4, <3>2 DEF CappedWell
    <3>4. Flows'
      BY <1>a, <2>2, <3>3 DEF Flows
    <3>5. Caps'
      BY <1>a, <2>2, <3>1, <3>3 DEF Caps
    <3> QED
      BY <3>4, <3>5
  <2> QED
    BY <2>1, <2>3, <2>4
<1>4. CASE Responds
  <2>1. PICK reply \in Replies : down' = Body(reply)
    BY <1>4 DEF Responds
  <2>2. UNCHANGED <<asked, route, up>> /\ at = "send" /\ at' = "reply"
    BY <1>4 DEF Responds
  <2>3. reply \in Seq(Nat) /\ down'.left = reply /\ down'.out = <<>> /\ down'.end = "open"
    BY <2>1, BodyType DEF PassthroughAssumption
  <2>4. Flows'
    BY <1>a, <2>2, <2>3, EmptyIs DEF Flows
  <2>5. Caps'
    <3>1. \A r \in route : r.maxResponse \in Nat
      BY <1>b, RouteIs
    <3>2. Sum(down'.out) = 0
      BY <2>3, EmptyIs
    <3> QED
      BY <1>a, <2>2, <3>1, <3>2 DEF Caps
  <2> QED
    BY <2>4, <2>5
<1>5. CASE PullDown
  <2>1. PICK r \in route : down' = Capped(down, r.maxResponse)
    BY <1>5, PullDownIs
  <2>2. /\ UNCHANGED <<asked, route>> /\ at = "reply" /\ at' # "match"
        /\ up' = up \/ up' = Broken(up)
    BY <1>5, PullDownIs
  <2>3. route = {r} /\ r.maxResponse \in Nat
    BY <1>b, RouteIs
  <2>4. CappedWell(down, r.maxResponse)
    <3>1. r.maxResponse > 0 => Sum(down.out) <= r.maxResponse
      BY <1>a DEF Caps
    <3> QED
      BY <1>b, <2>3, <3>1, CappedIs
  <2>5. /\ down'.out \o down'.left = down.out \o down.left
        /\ down'.end = "whole" => down'.left = <<>> \/ down.end = "whole"
        /\ r.maxResponse > 0 => Sum(down'.out) <= r.maxResponse
    BY <2>1, <2>4 DEF CappedWell
  <2>6. /\ up'.out = up.out /\ up'.left = up.left
        /\ up'.end = "whole" => up.end = "whole"
        /\ up.end # "open" => up'.end # "open"
    BY <1>b, <2>2, BrokenIs
  <2>7. down'.end = "whole" => down'.left = <<>>
    <3>1. SUFFICES ASSUME down.end = "whole", down'.end = "whole" PROVE down'.left = <<>>
      BY <2>5
    <3>2. down.left = <<>>
      BY <1>a, <3>1 DEF Flows
    <3> QED
      BY <2>1, <3>2 DEF Capped
  <2>8. Flows'
    BY <1>a, <2>2, <2>5, <2>6, <2>7 DEF Flows
  <2>9. Caps'
    BY <1>a, <2>2, <2>3, <2>5, <2>6 DEF Caps
  <2> QED
    BY <2>8, <2>9
<1>6. CASE Breaks \/ BreaksReply \/ CallerGoes
  <2>1. /\ at' \notin {"match", "send", "reply"} /\ UNCHANGED <<asked, route>>
        /\ up' = Broken(up) /\ (down' = down \/ down' = Broken(down))
    BY <1>6 DEF Breaks, SendFails, BreaksReply, CallerGoes
  <2> QED
    BY <1>a, <2>1, BodyKeeps
<1>7. CASE Pump \/ \E e \in Parties : Says(e) \/ Reads(e) \/ Leaves(e)
  <2>1. UNCHANGED <<asked, route, up, down>> /\ (at' = at \/ at' \notin {"match", "send", "reply"})
    BY <1>7 DEF Pump, Dial, Takes, Misses, Delivers, Closes, Says, Reads, Leaves, pumpOnly, bodies
  <2> QED
    BY <1>a, <2>1, BodyKeeps
<1> QED
  BY <1>2, <1>3, <1>4, <1>5, <1>6, <1>7 DEF PassNext, Http

\* The start of a concatenation.
LEMMA PrefixOf ==
    ASSUME NEW X, NEW s \in Seq(X), NEW t \in Seq(X)
    PROVE  IsPrefix(s, s \o t)
<1>1. Len(s) \in Nat /\ Len(t) \in Nat /\ s \o t \in Seq(X) /\ Len(s \o t) = Len(s) + Len(t)
  OBVIOUS
<1>2. SubSeq(s \o t, 1, Len(s)) = SubSeq(s, 1, Len(s))
  <2>1. CASE s = <<>>
    BY <1>1, <2>1, SubSeqEmpty
  <2>2. CASE s # <<>>
    <3>1. 1 \in 1..Len(s) /\ Len(s) \in 1..Len(s)
      BY <1>1, <2>2
    <3> QED
      BY <3>1, SubSeqOfConcat1
  <2> QED
    BY <2>1, <2>2
<1> QED
  BY <1>1, <1>2 DEF IsPrefix

\* What arrives of a body is what was sent, within the cap, and passes for whole only
\* when it is (MaxBytesStream::poll_next, for any chunks, caps and order of events).
LEMMA BodiesFlow ==
    ASSUME RoutesAssumption, PassthroughAssumption, BodyInv
    PROVE  BodiesAreWhole
<1>1. up \in Bodies /\ down \in Bodies /\ asked \in Exchanges /\ Flows /\ Caps
  BY DEF BodyInv, Typed, HttpTyped
<1>2. up.out \in Seq(Nat) /\ up.left \in Seq(Nat) /\ down.out \in Seq(Nat) /\ down.left \in Seq(Nat)
  BY <1>1 DEF Bodies
<1> DEFINE all == IF asked.bodied THEN asked.body ELSE <<>>
<1>3. IsPrefix(up.out, all) /\ (up.end = "whole" => up.out = all)
  <2>1. CASE asked.bodied
    <3>1. all = up.out \o up.left /\ (up.end = "whole" => up.left = <<>>)
      BY <1>1, <2>1 DEF Flows
    <3>2. IsPrefix(up.out, up.out \o up.left)
      BY <1>2, PrefixOf
    <3>3. up.end = "whole" => up.out = up.out \o up.left
      BY <1>2, <3>1, EmptyIs
    <3> HIDE DEF all
    <3> QED
      BY <3>1, <3>2, <3>3
  <2>2. CASE ~asked.bodied
    <3>1. up.out = <<>> /\ all = <<>>
      BY <1>1, <2>2 DEF Flows
    <3>2. <<>> \o <<>> = <<>> /\ <<>> \in Seq(Nat)
      BY EmptyIs
    <3> HIDE DEF all
    <3> QED
      BY <3>1, <3>2, PrefixOf
  <2> QED
    BY <2>1, <2>2
<1>4. IsPrefix(down.out, down.out \o down.left)
  BY <1>2, PrefixOf
<1>5. down.end = "whole" => down.out = down.out \o down.left
  BY <1>1, <1>2, EmptyIs DEF Flows
<1>6. ASSUME NEW r \in route,
             NEW b \in {[is |-> up, all |-> IF asked.bodied THEN asked.body ELSE <<>>,
                         max |-> r.maxRequest],
                        [is |-> down, all |-> down.out \o down.left, max |-> r.maxResponse]}
      PROVE  /\ IsPrefix(b.is.out, b.all)
             /\ b.max > 0 => Sum(b.is.out) <= b.max
             /\ b.is.end = "whole" => b.is.out = b.all
  <2>1. CASE b = [is |-> up, all |-> IF asked.bodied THEN asked.body ELSE <<>>,
                  max |-> r.maxRequest]
    <3>1. b.is = up /\ b.all = all /\ b.max = r.maxRequest
      BY <2>1
    <3> QED
      BY <1>1, <1>3, <3>1 DEF Caps
  <2>2. CASE b = [is |-> down, all |-> down.out \o down.left, max |-> r.maxResponse]
    <3>1. b.is = down /\ b.all = down.out \o down.left /\ b.max = r.maxResponse
      BY <2>2
    <3> QED
      BY <1>1, <1>4, <1>5, <3>1 DEF Caps
  <2> QED
    BY <1>6, <2>1, <2>2
<1> QED
  BY <1>1, <1>6 DEF BodiesAreWhole, Flows

\* A body arrives as it was sent, within its cap, and counts as complete only when it is
\* (MaxBytesStream), for any bodies and caps.
THEOREM BodiesStayWhole == PassSpec => []BodiesAreWhole
<1>1. RoutesAssumption /\ PassthroughAssumption
  BY RoutesAssumption, PassthroughAssumption
<1>2. PassInit => BodyInv
  BY <1>1, BodyInit
<1>3. BodyInv /\ [PassNext]_passVars => BodyInv'
  BY <1>1, BodyStep
<1>4. BodyInv => BodiesAreWhole
  BY <1>1, BodiesFlow
<1> QED
  BY <1>2, <1>3, <1>4, PTL DEF PassSpec

-----------------------------------------------------------------------------
(* What the upstream is asked                                               *)

LEMMA AtMostOne ==
    ASSUME NEW S, \A x, y \in S : x = y
    PROVE  Cardinality(S) <= 1
<1>1. CASE S = {}
  BY <1>1, FS_EmptySet
<1>2. CASE S # {}
  <2>1. PICK x \in S : S = {x}
    BY <1>2
  <2> QED
    BY <2>1, FS_Singleton
<1> QED
  BY <1>1, <1>2

\* Whose headers are sent (filter_request_headers and what handle_passthrough adds).
LEMMA SentIs ==
    ASSUME NEW r, NEW path, NEW headers, NEW hopByHop, NEW socket \in BOOLEAN,
           NEW H, H = Sent(r, path, headers, hopByHop, socket)
    PROVE  /\ Header("authorization", "caller") \in H => Forwards(r, path)
           /\ Forwards(r, path) => \A h \in H : h.of # "key"
           /\ socket \/ "authorization" \notin r.extra =>
                Cardinality({h \in H : h.name = "authorization"}) <= 1
<1> DEFINE kept == Kept(r, path, headers, hopByHop)
           key == OwnKey(r, path)
           callers == IF socket THEN kept \ (key \cup r.extra) ELSE kept
           keys == IF socket THEN key \ r.extra ELSE key
<1>1. H = {Header(h, "caller") : h \in callers} \cup {Header(h, "key") : h \in keys}
          \cup {Header(h, "extra") : h \in r.extra}
  BY DEF Sent
<1>2. "authorization" \in kept => Forwards(r, path)
  BY DEF Kept, Internal
<1>3. Forwards(r, path) => keys = {}
  BY DEF OwnKey
<1>4. socket /\ "authorization" \in callers => "authorization" \notin r.extra
  OBVIOUS
<1>5. socket /\ "authorization" \in keys => "authorization" \notin r.extra
  OBVIOUS
<1>6. callers \subseteq kept
  OBVIOUS
<1> HIDE DEF kept, key, callers, keys
<1>7. ASSUME NEW h \in H
      PROVE  \/ h.of = "caller" /\ h.name \in callers /\ h = Header(h.name, "caller")
             \/ h.of = "key" /\ h.name \in keys /\ h = Header(h.name, "key")
             \/ h.of = "extra" /\ h.name \in r.extra /\ h = Header(h.name, "extra")
  BY <1>1, <1>7 DEF Header
<1>8. Header("authorization", "caller") \in H => Forwards(r, path)
  <2>1. SUFFICES ASSUME Header("authorization", "caller") \in H PROVE Forwards(r, path)
    OBVIOUS
  <2>2. Header("authorization", "caller").name = "authorization"
        /\ Header("authorization", "caller").of = "caller"
    BY DEF Header
  <2>3. "authorization" \in callers
    BY <1>7, <2>1, <2>2
  <2> QED
    BY <1>2, <1>6, <2>3
<1>9. Forwards(r, path) => \A h \in H : h.of # "key"
  BY <1>3, <1>7
<1>10. ASSUME socket \/ "authorization" \notin r.extra
       PROVE  Cardinality({h \in H : h.name = "authorization"}) <= 1
  <2> DEFINE S == {h \in H : h.name = "authorization"}
  <2>1. ASSUME NEW x \in S, NEW y \in S PROVE x = y
    <3>1. /\ \/ x.of = "caller" /\ "authorization" \in callers /\ x = Header("authorization", "caller")
             \/ x.of = "key" /\ "authorization" \in keys /\ x = Header("authorization", "key")
             \/ x.of = "extra" /\ "authorization" \in r.extra /\ x = Header("authorization", "extra")
          /\ \/ y.of = "caller" /\ "authorization" \in callers /\ y = Header("authorization", "caller")
             \/ y.of = "key" /\ "authorization" \in keys /\ y = Header("authorization", "key")
             \/ y.of = "extra" /\ "authorization" \in r.extra /\ y = Header("authorization", "extra")
      BY <1>7, <2>1
    <3>2. ~("authorization" \in callers /\ "authorization" \in keys)
      BY <1>2, <1>3, <1>6
    <3>3. "authorization" \in r.extra => "authorization" \notin callers /\ "authorization" \notin keys
      BY <1>4, <1>5, <1>10
    <3> QED
      BY <3>1, <3>2, <3>3
  <2> HIDE DEF S
  <2>2. Cardinality(S) <= 1
    BY <2>1, AtMostOne
  <2> QED
    BY <2>2 DEF S
<1> QED
  BY <1>8, <1>9, <1>10

AskInv ==
    /\ at = "match" => seen = {}
    /\ \A s \in seen : \A r \in route : s \in AskOf(r) /\ ~Denied(r, Rewritten(r, asked.path))

LEMMA AskStep ==
    ASSUME AskInv, [PassNext]_passVars
    PROVE  AskInv'
<1>1. CASE Dispatch
  <2>1. at' # "match" /\ asked' = asked /\ route' = Match(asked.host, asked.path) /\ seen = {}
    BY <1>1, DispatchIs DEF AskInv
  <2>2. CASE seen' = seen
    BY <2>1, <2>2 DEF AskInv
  <2>3. CASE seen' # seen
    <3>1. PICK r \in route' : ~Denied(r, Rewritten(r, asked.path)) /\ seen' = AskOf(r)
      BY <1>1, <2>3, DispatchIs
    <3>2. route' = {r}
      BY <2>1, <3>1, MatchIsBest, RoutesAssumption
    <3>3. AskOf(r)' = AskOf(r)
      BY <2>1 DEF AskOf, Upgrades
    <3>4. ASSUME NEW s \in seen', NEW q \in route'
          PROVE  s \in AskOf(q)' /\ ~Denied(q, Rewritten(q, asked.path))
      BY <3>1, <3>2, <3>3, <3>4
    <3> QED
      BY <2>1, <3>4 DEF AskInv
  <2> QED
    BY <2>2, <2>3
<1>2. CASE ~Dispatch
  <2>1. UNCHANGED <<asked, route, seen>> /\ (at' = at \/ at' # "match")
    <3>1. CASE PullUp
      BY <3>1, PullUpIs
    <3>2. CASE PullDown
      BY <3>2, PullDownIs
    <3>3. CASE Responds \/ Breaks \/ BreaksReply \/ CallerGoes
      BY <3>3 DEF Responds, Breaks, SendFails, BreaksReply, CallerGoes
    <3>4. CASE Pump \/ \E e \in Parties : Says(e) \/ Reads(e) \/ Leaves(e)
      BY <3>4 DEF Pump, Dial, Takes, Misses, Delivers, Closes, Says, Reads, Leaves, pumpOnly
    <3>5. CASE UNCHANGED passVars
      BY <3>5 DEF passVars
    <3> QED
      BY <1>2, <3>1, <3>2, <3>3, <3>4, <3>5 DEF PassNext, Http
  <2> QED
    BY <2>1 DEF AskInv, AskOf, Upgrades
<1> QED
  BY <1>1, <1>2

\* A URL changes a path only if it has dot segments or does not begin with a slash.
LEMMA SoughtIs ==
    ASSUME NEW path, NEW socket, Sought(path, socket) # path
    PROVE  ~IsPrefix(Root, path) \/ (~socket /\ Dotted(path))
  BY DEF Sought, Slashed, Resolved

\* An upstream is asked by its most specific route, with the credential of one side, and
\* on the open path that the route makes of the caller's, unless a URL makes another of it
\* (match_request, deny_globs, forward_auth), for any routes and requests.
THEOREM AskedIsConfigured == PassSpec => []AskedAsConfigured
<1>1. RoutesAssumption /\ PassthroughAssumption
  BY RoutesAssumption, PassthroughAssumption
<1>2. PassInit => BodyInv /\ AskInv
  BY <1>1, BodyInit DEF PassInit, AskInv
<1>3. BodyInv /\ AskInv /\ [PassNext]_passVars => BodyInv' /\ AskInv'
  BY <1>1, BodyStep, AskStep
<1>4. ASSUME BodyInv, AskInv PROVE AskedAsConfigured
  <2>1. ASSUME NEW s \in seen, NEW r \in route
        PROVE  LET judged == Rewritten(r, asked.path)
               IN  /\ \A i \in DOMAIN Providers :
                        Matches(Providers[i], asked.host, asked.path) => ~Beats(Providers[i], r)
                   /\ s.path # judged => ~IsPrefix(Root, judged) \/ (~Upgrades(r) /\ Dotted(judged))
                   /\ s.path = judged =>
                        /\ ~Denied(r, s.path)
                        /\ Header("authorization", "caller") \in s.headers => Forwards(r, s.path)
                        /\ Forwards(r, s.path) => \A h \in s.headers : h.of # "key"
                   /\ Upgrades(r) \/ "authorization" \notin r.extra =>
                        Cardinality({h \in s.headers : h.name = "authorization"}) <= 1
    <3> DEFINE judged == Rewritten(r, asked.path)
    <3>1. r \in Match(asked.host, asked.path)
      BY <1>1, <1>4, RouteIs DEF BodyInv, Typed
    <3>2. \A i \in DOMAIN Providers :
            Matches(Providers[i], asked.host, asked.path) => ~Beats(Providers[i], r)
      BY <1>1, <3>1, MatchIsBest
    <3>3. /\ ~Denied(r, judged) /\ s.path = Sought(judged, Upgrades(r))
          /\ s.headers = Sent(r, judged, asked.headers, asked.listed, Upgrades(r))
      BY <1>4 DEF AskInv, AskOf
    <3>4. Upgrades(r) \in BOOLEAN
      BY DEF Upgrades
    <3> HIDE DEF judged
    <3>5. s.path # judged => ~IsPrefix(Root, judged) \/ (~Upgrades(r) /\ Dotted(judged))
      BY <3>3, SoughtIs
    <3>6. /\ Header("authorization", "caller") \in s.headers => Forwards(r, judged)
          /\ Forwards(r, judged) => \A h \in s.headers : h.of # "key"
          /\ Upgrades(r) \/ "authorization" \notin r.extra =>
               Cardinality({h \in s.headers : h.name = "authorization"}) <= 1
      BY <3>3, <3>4, SentIs
    <3> USE DEF judged
    <3> QED
      BY <3>2, <3>3, <3>5, <3>6
  <2> QED
    BY <2>1 DEF AskedAsConfigured
<1> QED
  BY <1>2, <1>3, <1>4, PTL DEF PassSpec

-----------------------------------------------------------------------------
(* The frames                                                               *)

\* The frame of an end that the pump has taken and not yet sent.
Held(e) ==
    IF \E h \in holds : h.to = Other(e)
    THEN <<(CHOOSE h \in holds : h.to = Other(e)).frame>>
    ELSE <<>>

LEMMA HeldIs ==
    ASSUME PumpTyped, NEW e \in Parties
    PROVE  /\ Held(e) \in Seq(Frames)
           /\ holds = {} => Held(e) = <<>>
           /\ \A h \in holds : Held(e) = IF h.to = Other(e) THEN <<h.frame>> ELSE <<>>
<1>1. CASE holds = {}
  <2>1. Held(e) = <<>> /\ <<>> \in Seq(Frames)
    BY <1>1 DEF Held
  <2> QED
    BY <1>1, <2>1
<1>2. CASE holds # {}
  <2>1. PICK h \in [to : Parties, frame : Frames] : holds = {h}
    BY <1>2 DEF PumpTyped
  <2>2. Held(e) = IF h.to = Other(e) THEN <<h.frame>> ELSE <<>>
    BY <2>1 DEF Held
  <2>3. <<h.frame>> \in Seq(Frames) /\ <<>> \in Seq(Frames)
    BY <2>1
  <2> QED
    BY <2>1, <2>2, <2>3
<1> QED
  BY <1>1, <1>2

\* Until the pump ends, what was said is what was heard, is held or is on its way.
InStep(e) == (heard[Other(e)] \o Held(e)) \o NoPings(leg[e]) = NoPings(said[e])

Over == {"close"} \cup Done

FrameInv ==
    /\ \A h \in holds : h.frame # "ping"
    /\ at \notin Over => \A e \in Parties : InStep(e)
    /\ \A e \in Parties : IsPrefix(heard[Other(e)], NoPings(said[e]))

StartsWith(s, t) == IsPrefix(s, t)

LEMMA InStepStarts ==
    ASSUME NEW X, NEW s \in Seq(X), NEW t \in Seq(X), NEW u \in Seq(X)
    PROVE  StartsWith(s, (s \o t) \o u)
<1>1. t \o u \in Seq(X)
  OBVIOUS
<1>2. Regrouped(s, t, u)
  BY Regroups
<1>3. (s \o t) \o u = s \o (t \o u)
  BY <1>2 DEF Regrouped
<1>4. IsPrefix(s, s \o (t \o u))
  BY <1>1, PrefixOf
<1> QED
  BY <1>3, <1>4 DEF StartsWith

LEMMA PumpIs ==
    ASSUME PumpTyped, NEW e \in Parties
    PROVE  /\ Other(e) \in Parties /\ heard[Other(e)] \in Seq(Frames) /\ heard[e] \in Seq(Frames)
           /\ Held(e) \in Seq(Frames)
           /\ leg[e] \in Seq(Frames) /\ NoPings(leg[e]) \in Seq(Frames)
           /\ said[e] \in Seq(Frames) /\ NoPings(said[e]) \in Seq(Frames)
  BY OtherEnd, HeldIs, NoPingsType DEF PumpTyped

\* Conversations in step have been heard from their start.
LEMMA InStepIsHeard ==
    ASSUME PumpTyped, NEW e \in Parties, InStep(e)
    PROVE  IsPrefix(heard[Other(e)], NoPings(said[e]))
<1>1. StartsWith(heard[Other(e)], (heard[Other(e)] \o Held(e)) \o NoPings(leg[e]))
  BY PumpIs, InStepStarts
<1> QED
  BY <1>1 DEF StartsWith, InStep

AllInStep == \A e \in Parties : InStep(e)
AllHeard == \A e \in Parties : IsPrefix(heard[Other(e)], NoPings(said[e]))

LEMMA StillHeard == PumpTyped /\ AllInStep => AllHeard
  BY InStepIsHeard DEF AllInStep, AllHeard

LEMMA FrameInit == ASSUME PumpTyped, PassInit PROVE FrameInv
<1>1. ASSUME NEW e \in Parties PROVE InStep(e)
  <2>1. heard[Other(e)] = <<>> /\ said[e] = <<>> /\ leg[e] = <<>> /\ holds = {}
    BY OtherEnd DEF PassInit
  <2>2. Held(e) = <<>>
    BY <2>1 DEF Held
  <2> QED
    BY <2>1, <2>2, NoPingsEmpty, EmptyIs DEF InStep
<1> QED
  BY <1>1, InStepIsHeard DEF FrameInv, PassInit

LEMMA FrameStep ==
    ASSUME RoutesAssumption, Typed, Typed', FrameInv, [PassNext]_passVars
    PROVE  FrameInv'
<1>a. PumpTyped /\ PumpTyped'
  BY DEF Typed
<1>1. CASE \E e \in Parties : Takes(e)
  <2>1. PICK e \in Parties : Takes(e)
    BY <1>1
  <2>2. /\ at = "pump" /\ at' = at /\ UNCHANGED <<said, heard>> /\ holds = {} /\ leg[e] # <<>>
        /\ holds' = IF Head(leg[e]) = "ping" THEN {}
                    ELSE {[to |-> Other(e), frame |-> Head(leg[e])]}
        /\ leg' = [leg EXCEPT ![e] = Tail(leg[e])]
    BY <2>1 DEF Takes, pumpOnly
  <2>3. at \notin Over
    BY <2>2 DEF Over, Done
  <2>4. ASSUME NEW q \in Parties PROVE InStep(q)'
    <3>1. /\ InStep(q) /\ heard[Other(q)] \in Seq(Frames) /\ Held(q) = <<>>
          /\ leg[q] \in Seq(Frames) /\ NoPings(leg'[q]) \in Seq(Frames)
      <4>1. InStep(q)
        BY <2>3 DEF FrameInv
      <4>2. Held(q) = <<>>
        BY <1>a, <2>2, HeldIs
      <4>3. heard[Other(q)] \in Seq(Frames) /\ leg[q] \in Seq(Frames)
        BY <1>a, PumpIs
      <4>4. leg'[q] \in Seq(Frames) /\ NoPings(leg'[q]) \in Seq(Frames)
        BY <1>a, NoPingsType DEF PumpTyped
      <4> QED
        BY <4>1, <4>2, <4>3, <4>4
    <3>2. heard[Other(q)] \o <<>> = heard[Other(q)]
      BY <3>1, ConcatEmptySeq
    <3>3. heard[Other(q)] \o NoPings(leg[q]) = NoPings(said[q])
      BY <3>1, <3>2 DEF InStep
    <3>4. CASE q # e
      <4>1. leg'[q] = leg[q]
        BY <1>a, <2>2, <3>4 DEF PumpTyped
      <4>2. Held(q)' = <<>>
        <5>1. \A h \in holds' : h.to # Other(q)
          BY <2>2, <3>4, OtherEnd DEF Parties, Other
        <5> QED
          BY <5>1 DEF Held
      <4> QED
        BY <2>2, <3>2, <3>3, <4>1, <4>2 DEF InStep
    <3>5. CASE q = e
      <4>1. leg'[e] = Tail(leg[e])
        BY <1>a, <2>2 DEF PumpTyped
      <4>2. NoPings(leg[e]) = IF Head(leg[e]) = "ping" THEN NoPings(Tail(leg[e]))
                              ELSE <<Head(leg[e])>> \o NoPings(Tail(leg[e]))
        BY <2>2, <3>1, <3>5, NoPingsTail
      <4>3. CASE Head(leg[e]) = "ping"
        <5>1. Held(e)' = <<>>
          BY <2>2, <4>3 DEF Held
        <5> QED
          BY <2>2, <3>2, <3>3, <3>5, <4>1, <4>2, <4>3, <5>1 DEF InStep
      <4>4. CASE Head(leg[e]) # "ping"
        <5>1. Held(e)' = <<Head(leg[e])>>
          <6> DEFINE g == [to |-> Other(e), frame |-> Head(leg[e])]
          <6>1. holds' = {g} /\ g.to = Other(e) /\ g.frame = Head(leg[e])
            BY <2>2, <4>4
          <6>2. Other(e)' = Other(e)
            BY DEF Other
          <6> HIDE DEF g
          <6>3. (CHOOSE h \in holds' : h.to = Other(e)) = g
            BY <6>1
          <6>4. (CHOOSE h \in holds : h.to = Other(e))' = (CHOOSE h \in holds' : h.to = Other(e))
            BY <6>2
          <6> QED
            BY <6>1, <6>3, <6>4 DEF Held, Other
        <5>2. <<Head(leg[e])>> \in Seq(Frames) /\ NoPings(Tail(leg[e])) \in Seq(Frames)
          BY <2>2, <3>1, <3>5, <4>1
        <5>3. Regrouped(heard[Other(e)], <<Head(leg[e])>>, NoPings(Tail(leg[e])))
          BY <3>1, <3>5, <5>2, Regroups
        <5> QED
          BY <2>2, <3>3, <3>5, <4>1, <4>2, <4>4, <5>1, <5>3 DEF InStep, Regrouped
      <4> QED
        BY <4>3, <4>4
    <3> QED
      BY <3>4, <3>5
  <2>5. \A h \in holds' : h.frame # "ping"
    BY <2>2
  <2> QED
    BY <2>2, <2>4, <2>5 DEF FrameInv
<1>2. CASE Delivers
  <2>1. PICK h \in holds :
         /\ heard' = IF h.to \in gone THEN heard ELSE [heard EXCEPT ![h.to] = Append(@, h.frame)]
         /\ at' = IF h.to \in gone \/ h.frame = "close" THEN "close" ELSE at
         /\ holds' = {}
    BY <1>2 DEF Delivers
  <2>2. at = "pump" /\ UNCHANGED <<said, leg>>
    BY <1>2 DEF Delivers, pumpOnly
  <2>3. at \notin Over
    BY <2>2 DEF Over, Done
  <2>4. h.to \in Parties /\ h.frame \in Frames
    BY <1>a DEF PumpTyped
  <2>5. CASE h.to \in gone
    <3>1. heard' = heard /\ at' \in Over
      BY <2>1, <2>5 DEF Over
    <3> QED
      BY <2>1, <2>2, <3>1 DEF FrameInv
  <2>6. CASE h.to \notin gone
    <3>1. heard' = [heard EXCEPT ![h.to] = Append(heard[h.to], h.frame)]
      BY <2>1, <2>6
    <3>2. ASSUME NEW q \in Parties PROVE InStep(q)'
      <4>1. /\ InStep(q) /\ heard[Other(q)] \in Seq(Frames) /\ Other(q) \in Parties
            /\ NoPings(leg[q]) \in Seq(Frames)
            /\ Held(q) = IF h.to = Other(q) THEN <<h.frame>> ELSE <<>>
        BY <1>a, <2>3, HeldIs, PumpIs DEF FrameInv
      <4>2. Held(q)' = <<>>
        BY <2>1 DEF Held
      <4>3. heard'[Other(q)] = heard[Other(q)] \o Held(q) /\ heard'[Other(q)] \in Seq(Frames)
        <5>1. CASE h.to = Other(q)
          <6>1. heard'[Other(q)] = Append(heard[Other(q)], h.frame)
            BY <1>a, <3>1, <4>1, <5>1 DEF PumpTyped
          <6>2. Append(heard[Other(q)], h.frame) = heard[Other(q)] \o <<h.frame>>
            BY <2>4, <4>1, AppendIsConcat
          <6> QED
            BY <2>4, <4>1, <5>1, <6>1, <6>2
        <5>2. CASE h.to # Other(q)
          <6>1. heard'[Other(q)] = heard[Other(q)]
            BY <1>a, <3>1, <4>1, <5>2 DEF PumpTyped
          <6>2. heard[Other(q)] \o <<>> = heard[Other(q)]
            BY <4>1, ConcatEmptySeq
          <6> QED
            BY <4>1, <5>2, <6>1, <6>2
        <5> QED
          BY <5>1, <5>2
      <4>4. heard'[Other(q)] \o <<>> = heard'[Other(q)]
        BY <4>3, ConcatEmptySeq
      <4> QED
        BY <2>2, <4>1, <4>2, <4>3, <4>4 DEF InStep, Other
    <3>3. AllInStep'
      BY <3>2 DEF AllInStep
    <3>4. AllHeard'
      BY <1>a, <3>3, StillHeard, PTL
    <3> QED
      BY <2>1, <3>2, <3>4 DEF FrameInv, AllHeard
  <2> QED
    BY <2>5, <2>6
<1>3. CASE \E e \in Parties : Says(e)
  <2>1. PICK e \in Parties : Says(e)
    BY <1>3
  <2>2. PICK f \in Sides[e] : /\ said' = [said EXCEPT ![e] = Append(said[e], f)]
                              /\ leg' = [leg EXCEPT ![e] = Append(leg[e], f)]
    BY <2>1 DEF Says
  <2>3. at = "pump" /\ UNCHANGED <<at, heard, holds>>
    BY <2>1 DEF Says
  <2>4. at \notin Over /\ f \in Frames
    BY <2>3 DEF Over, Done, Frames, Parties
  <2>5. ASSUME NEW q \in Parties PROVE InStep(q)'
    <3>1. /\ InStep(q) /\ heard[Other(q)] \in Seq(Frames) /\ Held(q) \in Seq(Frames)
          /\ leg[q] \in Seq(Frames) /\ NoPings(leg[q]) \in Seq(Frames) /\ said[q] \in Seq(Frames)
      BY <1>a, <2>4, PumpIs DEF FrameInv
    <3>2. Held(q)' = Held(q)
      BY <2>3 DEF Held, Other
    <3>3. CASE q # e
      <4>1. leg'[q] = leg[q] /\ said'[q] = said[q]
        BY <1>a, <2>2, <3>3 DEF PumpTyped
      <4> QED
        BY <2>3, <3>1, <3>2, <4>1 DEF InStep, Other
    <3>4. CASE q = e
      <4>1. leg'[q] = Append(leg[q], f) /\ said'[q] = Append(said[q], f)
        BY <1>a, <2>2, <3>4 DEF PumpTyped
      <4>2. NoPings(leg'[q]) = IF f = "ping" THEN NoPings(leg[q]) ELSE Append(NoPings(leg[q]), f)
        BY <2>4, <3>1, <4>1, NoPingsAppends
      <4>3. NoPings(said'[q]) = IF f = "ping" THEN NoPings(said[q]) ELSE Append(NoPings(said[q]), f)
        BY <2>4, <3>1, <4>1, NoPingsAppends
      <4>4. heard[Other(q)] \o Held(q) \in Seq(Frames)
        BY <3>1
      <4>5. AppendedAfter(heard[Other(q)] \o Held(q), NoPings(leg[q]), f)
        BY <2>4, <3>1, <4>4, AppendAfter
      <4> QED
        BY <2>3, <3>1, <3>2, <4>2, <4>3, <4>5 DEF InStep, Other, AppendedAfter
    <3> QED
      BY <3>3, <3>4
  <2>6. AllInStep'
    BY <2>5 DEF AllInStep
  <2>7. AllHeard'
    BY <1>a, <2>6, StillHeard, PTL
  <2> QED
    BY <2>3, <2>5, <2>7 DEF FrameInv, AllHeard
<1>4. CASE ~(\E e \in Parties : Takes(e) \/ Says(e)) /\ ~Delivers
  <2>1. UNCHANGED <<said, leg, heard, holds>> /\ (at \in Over => at' \in Over)
    <3>1. CASE Dispatch
      BY <3>1, DispatchIs DEF frames, Over, Done
    <3>2. CASE PullUp
      BY <3>2, PullUpIs DEF frames, Over, Done
    <3>3. CASE PullDown
      BY <3>3, PullDownIs DEF frames, Over, Done
    <3>4. CASE Responds \/ Breaks \/ BreaksReply \/ CallerGoes
      BY <3>4 DEF Responds, Breaks, SendFails, BreaksReply, CallerGoes, frames, Over, Done
    <3>5. CASE Dial \/ Closes \/ \E e \in Parties : Misses(e) \/ Reads(e) \/ Leaves(e)
      BY <3>5 DEF Dial, Closes, Misses, Reads, Leaves, pumpOnly, Over, Done
    <3>6. CASE UNCHANGED passVars
      BY <3>6 DEF passVars
    <3> QED
      BY <1>4, <3>1, <3>2, <3>3, <3>4, <3>5, <3>6 DEF PassNext, Http, Pump
  <2>2. \A e \in Parties : InStep(e)' = InStep(e)
    BY <2>1 DEF InStep, Held, Other
  <2>3. \A e \in Parties : Other(e)' = Other(e)
    BY DEF Other
  <2> QED
    BY <2>1, <2>2, <2>3 DEF FrameInv
<1> QED
  BY <1>1, <1>2, <1>3, <1>4

\* Either end of a WebSocket hears the other's frames in their order, none twice and none
\* left out (pump_ws), for any window and any frames.
THEOREM FramesStayInOrder == PassSpec => []FramesInOrder
<1>1. RoutesAssumption /\ PassthroughAssumption
  BY RoutesAssumption, PassthroughAssumption
<1>2. PassInit => BodyInv /\ FrameInv
  BY <1>1, BodyInit, FrameInit DEF BodyInv, Typed
<1>3. BodyInv /\ FrameInv /\ [PassNext]_passVars => BodyInv' /\ FrameInv'
  BY <1>1, BodyStep, FrameStep DEF BodyInv
<1>4. ASSUME BodyInv, FrameInv PROVE FramesInOrder
  <2>1. ASSUME NEW e \in Parties
        PROVE  \E h \in {<<>>} \cup {<<f>> : f \in {g.frame : g \in {k \in holds : k.to = Other(e)}}} :
                 \/ heard[Other(e)] \o h \o NoPings(leg[e]) = NoPings(said[e])
                 \/ at \in {"close"} \cup Done /\ IsPrefix(heard[Other(e)], NoPings(said[e]))
    <3>1. Held(e) \in {<<>>} \cup {<<f>> : f \in {g.frame : g \in {k \in holds : k.to = Other(e)}}}
      BY DEF Held
    <3>2. CASE at \in Over
      BY <1>4, <3>1, <3>2 DEF Over, FrameInv
    <3>3. CASE at \notin Over
      BY <1>4, <3>1, <3>3 DEF InStep, FrameInv
    <3> QED
      BY <3>2, <3>3
  <2> QED
    BY <2>1 DEF FramesInOrder
<1> QED
  BY <1>2, <1>3, <1>4, PTL DEF PassSpec

\* The types, of every instance.
THEOREM TypeCorrect == PassSpec => []PassTypeOK
<1>1. RoutesAssumption /\ PassthroughAssumption
  BY RoutesAssumption, PassthroughAssumption
<1>2. PassInit => BodyInv
  BY <1>1, BodyInit
<1>3. BodyInv /\ [PassNext]_passVars => BodyInv'
  BY <1>1, BodyStep
<1>4. ASSUME BodyInv PROVE PassTypeOK
  <2>1. HttpTyped /\ PumpTyped
    BY <1>4 DEF BodyInv, Typed
  <2>2. Cardinality(route) <= 1
    <3>1. \A x, y \in route : x = y
      BY <1>1, <2>1, RouteIs
    <3> QED
      BY <3>1, AtMostOne
  <2>3. Cardinality(holds) <= 1
    <3>1. \A x, y \in holds : x = y
      BY <2>1 DEF PumpTyped
    <3> QED
      BY <3>1, AtMostOne
  <2> QED
    BY <2>1, <2>2, <2>3 DEF PassTypeOK, HttpTyped, PumpTyped, Bodies
<1> QED
  BY <1>2, <1>3, <1>4, PTL DEF PassSpec

-----------------------------------------------------------------------------
(* The calls of the CLI executor: the invariant is one predicate of a call  *)
(* (CallInv), which a step of the call has to show again (OneCallMoves); a  *)
(* call captures what its arguments say (CapturesAreGood).                  *)

Ats == {"new", "write", "generate", "spawn", "run", "collect"} \cup CliEnded

\* What apply_output_captures may return for these arguments: every capture is of one
\* argument as it was given, and no two are of the same.
Positions(args) == 1..Len(args)
CapturesOf(args) == {Capture(i, Text(args[i])) : i \in Positions(args)}
Apart(captured) == \A j, k \in DOMAIN captured : j # k => captured[j].arg # captured[k].arg
WellCaptured(args, captured) == captured \in Seq(CapturesOf(args)) /\ Apart(captured)

Begun == [at : Ats, args : Commands, busy : Nat, found : {Captures(a) : a \in Commands}, got : Nat]

\* A call that has begun knows its captures, and none is collected before its subprocess
\* has ended.
CallFits(s) ==
    /\ s \in [at : {"new"}] \cup Begun
    /\ s.at # "new" => s \in Begun /\ s.found = Captures(s.args)
    /\ s.at \in {"write", "generate", "spawn", "run"} => s.got = 0

\* An output of a call is one that its subprocess was asked for, and that the loop
\* has not come to.
OutputFits(s, arg) ==
    /\ s.at \in {"run", "collect", "uncollected", "dropped"}
    /\ s.at \in {"run", "collect"} =>
         \E k \in DOMAIN s.found : k > s.got /\ s.found[k].arg = arg
    /\ s.at = "uncollected" =>
         \E k \in DOMAIN s.found : k > s.got + 1 /\ s.found[k].arg = arg

\* The files that are wiped are there as long as a subprocess may need them, and longer
\* if they could not be written or removed.
CredFits(c, s, cr) ==
    /\ s.at \in {"generate", "spawn", "run"} => c \in DOMAIN cr /\ cr[c] = "whole"
    /\ s.at \in {"collect"} \cup (CliEnded \ {"unwritten"}) => (c \in DOMAIN cr => cr[c] = "left")

ChildFits(s, ch) ==
    /\ ch \in [runs : BOOLEAN, saw : {"nothing", "empty", "part", "whole", "left", "missing"}]
    /\ ch.runs => s.at = "run"

\* What is known of one call.
CallInv(c) ==
    /\ CallFits(run[c])
    /\ ChildFits(run[c], process[c])
    /\ wipes => CredFits(c, run[c], creds) /\ process[c].saw \in {"nothing", "whole"}
    /\ \A n \in Nat : <<c, n>> \in temps => OutputFits(run[c], n)
    /\ run[c].at = "new" => written[c] = {} /\ (wipes => c \notin DOMAIN creds)
    /\ run[c].at # "new" => written[c] \subseteq {Text(run[c].args[i]) : i \in DOMAIN run[c].args}

CliInv ==
    /\ wipes \in BOOLEAN
    /\ \A p \in DOMAIN creds : creds[p] \in {"empty", "part", "whole", "left"}
    /\ DOMAIN run = CliCalls /\ DOMAIN process = CliCalls /\ DOMAIN written = CliCalls
    /\ temps \subseteq CliCalls \X Nat
    /\ \A c \in CliCalls : CallInv(c)

-----------------------------------------------------------------------------
(* apply_output_captures                                                    *)

Listed(args) == args \in Seq({args[i] : i \in DOMAIN args})

Accs(args) ==
    [skip : BOOLEAN, found : Seq(CapturesOf(args)), consumed : SUBSET Positions(args)]

\* What holds of the loop over the flags when it has passed i arguments: it has taken
\* none after them, but for the value of the flag that it has just passed.
Passed(args, i, acc) ==
    /\ acc \in Accs(args)
    /\ acc.skip => i < Len(args)
    /\ \A j \in acc.consumed : j <= i \/ (acc.skip /\ j = i + 1)
    /\ \A k \in DOMAIN acc.found : acc.found[k].arg \in acc.consumed
    /\ Apart(acc.found)

LEMMA AppendsCapture ==
    ASSUME NEW args, Listed(args), NEW captured \in Seq(CapturesOf(args)), NEW i \in Positions(args),
           NEW o, o = Text(args[i])
    PROVE  /\ Append(captured, Capture(i, o)) \in Seq(CapturesOf(args))
           /\ Len(Append(captured, Capture(i, o))) = Len(captured) + 1
           /\ \A k \in 1..Len(captured) : Append(captured, Capture(i, o))[k] = captured[k]
           /\ Append(captured, Capture(i, o))[Len(captured) + 1] = Capture(i, o)
<1>1. Capture(i, o) \in CapturesOf(args)
  BY DEF CapturesOf
<1> HIDE DEF CapturesOf
<1> QED
  BY <1>1

\* A capture of an argument that none has taken keeps the captures apart.
LEMMA StaysApart ==
    ASSUME NEW args, Listed(args), NEW captured \in Seq(CapturesOf(args)), NEW i \in Positions(args),
           NEW o, o = Text(args[i]), Apart(captured),
           \A k \in DOMAIN captured : captured[k].arg # i
    PROVE  /\ Apart(Append(captured, Capture(i, o)))
           /\ \A k \in DOMAIN Append(captured, Capture(i, o)) :
                \/ k \in DOMAIN captured /\ Append(captured, Capture(i, o))[k].arg = captured[k].arg
                \/ k = Len(captured) + 1 /\ Append(captured, Capture(i, o))[k].arg = i
<1> DEFINE more == Append(captured, Capture(i, o))
<1>1. /\ more \in Seq(CapturesOf(args)) /\ Len(more) = Len(captured) + 1
      /\ \A k \in 1..Len(captured) : more[k] = captured[k]
      /\ more[Len(captured) + 1] = Capture(i, o)
  BY AppendsCapture
<1>2. DOMAIN captured = 1..Len(captured) /\ DOMAIN more = 1..(Len(captured) + 1) /\ Len(captured) \in Nat
  BY <1>1
<1>3. Capture(i, o).arg = i
  BY DEF Capture
<1> HIDE DEF more
<1>4. \A k \in DOMAIN more : \/ k \in DOMAIN captured /\ more[k].arg = captured[k].arg
                             \/ k = Len(captured) + 1 /\ more[k].arg = i
  BY <1>1, <1>2, <1>3
<1>5. Apart(more)
  BY <1>2, <1>4 DEF Apart
<1> QED
  BY <1>4, <1>5 DEF more

LEMMA StepPasses ==
    ASSUME NEW args, Listed(args), NEW i \in Positions(args), NEW acc, Passed(args, i - 1, acc)
    PROVE  Passed(args, i, FlagStep(acc, args, i))
<1>1. /\ acc \in Accs(args) /\ Len(args) \in Nat /\ i \in Nat
      /\ acc.consumed \subseteq Positions(args) /\ acc.found \in Seq(CapturesOf(args))
  BY DEF Passed, Accs, Listed, Positions
<1>2. CASE acc.skip
  <2> DEFINE r == FlagStep(acc, args, i)
  <2>1. r = [acc EXCEPT !.skip = FALSE]
    BY <1>2 DEF FlagStep
  <2> HIDE DEF r
  <2>2. r \in Accs(args) /\ ~r.skip /\ r.found = acc.found /\ r.consumed = acc.consumed
    BY <1>1, <2>1 DEF Accs
  <2>3. \A j \in acc.consumed : j <= i
    BY <1>1, <1>2 DEF Passed, Positions
  <2>4. Apart(r.found) /\ \A k \in DOMAIN r.found : r.found[k].arg \in r.consumed
    BY <2>2 DEF Passed
  <2> QED
    BY <2>2, <2>3, <2>4 DEF Passed, r
<1>3. CASE ~acc.skip /\ args[i].kind = "inline" /\ args[i].name \in OutFlags
  <2> DEFINE more == Append(acc.found, Capture(i, args[i].value))
             r == FlagStep(acc, args, i)
  <2>1. r = [acc EXCEPT !.found = more, !.consumed = @ \cup {i}]
    BY <1>3 DEF FlagStep
  <2>2. args[i].value = Text(args[i])
    BY <1>3 DEF Text
  <2>3. \A k \in DOMAIN acc.found : acc.found[k].arg # i
    BY <1>1, <1>3 DEF Passed
  <2>4. /\ more \in Seq(CapturesOf(args)) /\ Apart(more)
        /\ \A k \in DOMAIN more : more[k].arg \in acc.consumed \cup {i}
    BY <1>1, <2>2, <2>3, AppendsCapture, StaysApart DEF Passed
  <2> HIDE DEF more, r
  <2>5. r \in Accs(args) /\ ~r.skip /\ r.found = more /\ r.consumed = acc.consumed \cup {i}
    BY <1>1, <1>3, <2>1, <2>4 DEF Accs
  <2>6. \A j \in r.consumed : j <= i
    BY <1>1, <1>3, <2>5 DEF Passed, Positions
  <2> QED
    BY <1>3, <2>4, <2>5, <2>6 DEF Passed, r
<1>4. CASE ~acc.skip /\ args[i].kind = "flag" /\ args[i].name \in OutFlags /\ i < Len(args)
  <2> DEFINE o == Text(args[i + 1])
             more == Append(acc.found, Capture(i + 1, o))
             r == FlagStep(acc, args, i)
  <2>1. r = [acc EXCEPT !.found = more, !.consumed = @ \cup {i, i + 1}, !.skip = TRUE]
    BY <1>4 DEF FlagStep
  <2>2. i + 1 \in Positions(args)
    BY <1>1, <1>4 DEF Positions
  <2>3. \A k \in DOMAIN acc.found : acc.found[k].arg # i + 1
    BY <1>1, <1>4 DEF Passed
  <2>4. /\ more \in Seq(CapturesOf(args)) /\ Apart(more)
        /\ \A k \in DOMAIN more : more[k].arg \in acc.consumed \cup {i + 1}
    BY <1>1, <2>2, <2>3, AppendsCapture, StaysApart DEF Passed
  <2> HIDE DEF more, r
  <2>5. r \in Accs(args) /\ r.skip /\ r.found = more /\ r.consumed = acc.consumed \cup {i, i + 1}
    BY <1>1, <1>4, <2>1, <2>2, <2>4 DEF Accs
  <2>6. \A j \in r.consumed : j <= i \/ j = i + 1
    BY <1>1, <1>4, <2>5 DEF Passed, Positions
  <2> QED
    BY <1>4, <2>4, <2>5, <2>6 DEF Passed, r
<1>5. CASE FlagStep(acc, args, i) = acc /\ ~acc.skip
  BY <1>1, <1>5 DEF Passed, Positions
<1>6. \/ acc.skip
      \/ ~acc.skip /\ args[i].kind = "inline" /\ args[i].name \in OutFlags
      \/ ~acc.skip /\ args[i].kind = "flag" /\ args[i].name \in OutFlags /\ i < Len(args)
      \/ FlagStep(acc, args, i) = acc /\ ~acc.skip
  BY DEF FlagStep
<1> QED
  BY <1>2, <1>3, <1>4, <1>5, <1>6

LEMMA FlaggedPasses ==
    ASSUME NEW args, Listed(args)
    PROVE  Passed(args, Len(args), Flagged(args))
<1> DEFINE base == [skip |-> FALSE, found |-> <<>>, consumed |-> {}]
           Rec(f) == f = [i \in 0..Len(args) |-> IF i = 0 THEN base
                                                 ELSE FlagStep(f[i - 1], args, i)]
           F == CHOOSE f : Rec(f)
           X == {p \in (0..Len(args)) \X Accs(args) : Passed(args, p[1], p[2])}
           g == [p \in (1..Len(args)) \X X |->
                   IF p[2][1] = p[1] - 1 THEN <<p[1], FlagStep(p[2][2], args, p[1])>> ELSE <<0, base>>]
<1>1. Len(args) \in Nat /\ Positions(args) = 1..Len(args)
  BY DEF Listed, Positions
<1>2. Passed(args, 0, base) /\ base \in Accs(args) /\ <<0, base>> \in X
  <2>1. <<>> \in Seq(CapturesOf(args)) /\ DOMAIN <<>> = {}
    OBVIOUS
  <2>2. base \in Accs(args)
    BY <2>1 DEF Accs
  <2>3. Passed(args, 0, base)
    BY <2>1, <2>2 DEF Passed, Apart
  <2> QED
    <3> HIDE DEF base
    <3> QED
      BY <1>1, <2>2, <2>3
<1>3. g \in [(1..Len(args)) \X X -> X]
  <2>1. ASSUME NEW i \in 1..Len(args), NEW p \in X, p[1] = i - 1
        PROVE  <<i, FlagStep(p[2], args, i)>> \in X
    <3>1. Passed(args, i - 1, p[2]) /\ i \in Positions(args)
      BY <1>1, <2>1
    <3>2. Passed(args, i, FlagStep(p[2], args, i))
      BY <3>1, StepPasses
    <3>3. FlagStep(p[2], args, i) \in Accs(args)
      BY <3>2 DEF Passed
    <3> QED
      BY <1>1, <3>2, <3>3
  <2> HIDE DEF X, base
  <2>2. ASSUME NEW q \in (1..Len(args)) \X X
        PROVE  (IF q[2][1] = q[1] - 1 THEN <<q[1], FlagStep(q[2][2], args, q[1])>> ELSE <<0, base>>) \in X
    <3>1. q[1] \in 1..Len(args) /\ q[2] \in X
      OBVIOUS
    <3> QED
      BY <1>2, <2>1, <3>1
  <2> QED
    BY <2>2
<1>4. PICK h : Recurses(h, X, <<0, base>>, Len(args), g)
  <2> HIDE DEF X, g, base
  <2> QED
    BY <1>1, <1>2, <1>3, Recursion
<1>5. \A k \in Nat : k <= Len(args) => h[k][1] = k
  <2> DEFINE S == {k \in Nat : k <= Len(args) => h[k][1] = k}
  <2>1. 0 \in S
    BY <1>4 DEF Recurses
  <2>2. ASSUME NEW k \in Nat, k \in S PROVE k + 1 \in S
    <3> SUFFICES ASSUME k + 1 <= Len(args) PROVE h[k + 1][1] = k + 1
      OBVIOUS
    <3>1. /\ k + 1 \in 1..Len(args) /\ (k + 1) - 1 = k /\ k \in 0..Len(args) /\ h[k][1] = k
      BY <1>1, <2>2
    <3>2. h[k] \in X /\ h[k + 1] = g[<<k + 1, h[k]>>]
      BY <1>4, <3>1 DEF Recurses
    <3> HIDE DEF X
    <3>3. h[k + 1] = <<k + 1, FlagStep(h[k][2], args, k + 1)>>
      BY <3>1, <3>2
    <3> QED
      BY <3>3
  <2> HIDE DEF S
  <2>3. \A k \in Nat : k \in S
    BY <2>1, <2>2, AllNaturals
  <2> QED
    BY <2>3 DEF S
<1>6. ASSUME NEW i \in 1..Len(args) PROVE h[i][2] = FlagStep(h[i - 1][2], args, i)
  <2>1. i - 1 \in 0..Len(args) /\ i - 1 \in Nat /\ i - 1 <= Len(args) /\ i \in Nat
    BY <1>1
  <2>2. h[i - 1] \in X /\ h[i] = g[<<i, h[i - 1]>>] /\ h[i - 1][1] = i - 1
    BY <1>4, <1>5, <2>1 DEF Recurses
  <2> HIDE DEF X
  <2>3. h[i] = <<i, FlagStep(h[i - 1][2], args, i)>>
    BY <2>2
  <2> QED
    BY <2>3
<1>7. Rec([i \in 0..Len(args) |-> h[i][2]])
  <2> DEFINE f == [i \in 0..Len(args) |-> h[i][2]]
  <2>1. ASSUME NEW i \in 0..Len(args)
        PROVE  f[i] = IF i = 0 THEN base ELSE FlagStep(f[i - 1], args, i)
    <3>1. CASE i = 0
      <4>1. h[0] = <<0, base>>
        BY <1>4 DEF Recurses
      <4> QED
        BY <3>1, <4>1
    <3>2. CASE i # 0
      <4>1. i \in 1..Len(args) /\ i - 1 \in 0..Len(args)
        BY <1>1, <3>2
      <4>2. f[i - 1] = h[i - 1][2]
        BY <4>1
      <4> QED
        BY <1>6, <3>2, <4>1, <4>2
    <3> QED
      BY <3>1, <3>2
  <2> HIDE DEF base
  <2> QED
    BY <2>1
<1>8. Rec(F)
  BY <1>7
<1>9. Flagged(args) = F[Len(args)]
  BY DEF Flagged
<1> HIDE DEF F
<1> DEFINE S == {k \in Nat : k <= Len(args) => Passed(args, k, F[k])}
<1>10. 0 \in S
  BY <1>1, <1>2, <1>8
<1>11. ASSUME NEW k \in Nat, k \in S PROVE k + 1 \in S
  <2> SUFFICES ASSUME k + 1 <= Len(args) PROVE Passed(args, k + 1, F[k + 1])
    OBVIOUS
  <2>1. /\ k + 1 \in 0..Len(args) /\ k + 1 \in Positions(args) /\ k + 1 # 0 /\ (k + 1) - 1 = k
        /\ Passed(args, k, F[k])
    BY <1>1, <1>11
  <2>2. F[k + 1] = FlagStep(F[k], args, k + 1)
    <3> HIDE DEF base
    <3> QED
      BY <1>8, <2>1
  <2> QED
    BY <2>1, <2>2, StepPasses
<1>12. \A k \in Nat : k \in S
  <2> HIDE DEF S
  <2> QED
    BY <1>10, <1>11, AllNaturals
<1> QED
  BY <1>1, <1>9, <1>12

\* The positions that WordsOf may return.
Free(args, consumed) == {i \in Positions(args) : args[i].kind = "word" /\ i \notin consumed}

LEMMA WordsAreFree ==
    ASSUME NEW args, Listed(args), NEW consumed
    PROVE  WordsOf(args, consumed) \in Seq(Free(args, consumed))
<1> DEFINE X == Seq(Free(args, consumed))
           Rec(f) == f = [i \in 0..Len(args) |->
                            IF i = 0 THEN <<>>
                            ELSE IF args[i].kind = "word" /\ i \notin consumed THEN Append(f[i - 1], i)
                            ELSE f[i - 1]]
           F == CHOOSE f : Rec(f)
           g == [p \in (1..Len(args)) \X X |->
                   IF args[p[1]].kind = "word" /\ p[1] \notin consumed THEN Append(p[2], p[1])
                   ELSE p[2]]
<1>1. Len(args) \in Nat /\ Positions(args) = 1..Len(args) /\ <<>> \in X
  BY DEF Listed, Positions
<1>2. ASSUME NEW i \in 1..Len(args), NEW s \in X
      PROVE  (IF args[i].kind = "word" /\ i \notin consumed THEN Append(s, i) ELSE s) \in X
  <2>1. CASE args[i].kind = "word" /\ i \notin consumed
    <3>1. i \in Free(args, consumed)
      BY <1>1, <2>1 DEF Free
    <3> HIDE DEF Free
    <3> QED
      BY <2>1, <3>1
  <2> QED
    BY <2>1
<1> HIDE DEF X
<1>3. g \in [(1..Len(args)) \X X -> X]
  <2>1. ASSUME NEW p \in (1..Len(args)) \X X PROVE g[p] \in X
    <3>1. p[1] \in 1..Len(args) /\ p[2] \in X
      OBVIOUS
    <3> QED
      BY <1>2, <3>1
  <2> QED
    BY <2>1
<1>4. PICK h : Recurses(h, X, <<>>, Len(args), g)
  <2> HIDE DEF g
  <2> QED
    BY <1>1, <1>3, Recursion
<1>5. Rec(h)
  <2>1. ASSUME NEW i \in 0..Len(args)
        PROVE  h[i] = IF i = 0 THEN <<>>
                      ELSE IF args[i].kind = "word" /\ i \notin consumed THEN Append(h[i - 1], i)
                      ELSE h[i - 1]
    <3>1. CASE i = 0
      BY <1>4, <3>1 DEF Recurses
    <3>2. CASE i # 0
      <4>1. i \in 1..Len(args) /\ i - 1 \in 0..Len(args)
        BY <1>1, <3>2
      <4>2. h[i] = g[<<i, h[i - 1]>>] /\ h[i - 1] \in X
        BY <1>4, <4>1 DEF Recurses
      <4> QED
        BY <3>2, <4>1, <4>2
    <3> QED
      BY <3>1, <3>2
  <2>2. h = [i \in 0..Len(args) |-> h[i]]
    BY <1>4 DEF Recurses
  <2> QED
    BY <2>1, <2>2
<1>6. Rec(F)
  BY <1>5
<1>7. WordsOf(args, consumed) = F[Len(args)]
  BY DEF WordsOf
<1> HIDE DEF F
<1> DEFINE S == {k \in Nat : k <= Len(args) => F[k] \in X}
<1>8. 0 \in S
  BY <1>1, <1>6
<1>9. ASSUME NEW k \in Nat, k \in S PROVE k + 1 \in S
  <2> SUFFICES ASSUME k + 1 <= Len(args) PROVE F[k + 1] \in X
    OBVIOUS
  <2>1. k + 1 \in 0..Len(args) /\ k + 1 \in 1..Len(args) /\ k + 1 # 0 /\ (k + 1) - 1 = k /\ F[k] \in X
    BY <1>1, <1>9
  <2>2. F[k + 1] = IF args[k + 1].kind = "word" /\ k + 1 \notin consumed THEN Append(F[k], k + 1)
                   ELSE F[k]
    BY <1>6, <2>1
  <2> QED
    BY <1>2, <2>1, <2>2
<1>10. \A k \in Nat : k \in S
  <2> HIDE DEF S
  <2> QED
    BY <1>8, <1>9, AllNaturals
<1> QED
  BY <1>1, <1>7, <1>10 DEF X

LEMMA RewrittenListed ==
    ASSUME NEW args, Listed(args), NEW captured
    PROVE  /\ Listed(RewrittenCommand(args, captured)) /\ Positions(RewrittenCommand(args, captured)) = Positions(args)
           /\ \A i \in Positions(args) : (\A k \in DOMAIN captured : captured[k].arg # i) =>
                RewrittenCommand(args, captured)[i] = args[i]
<1> DEFINE swapped == RewrittenCommand(args, captured)
<1>1. Len(args) \in Nat /\ DOMAIN args = 1..Len(args)
  BY DEF Listed
<1>2. swapped = [i \in 1..Len(args) |-> swapped[i]]
  BY <1>1 DEF RewrittenCommand
<1>3. \A i \in Positions(args) : (\A k \in DOMAIN captured : captured[k].arg # i) => swapped[i] = args[i]
  BY <1>1 DEF RewrittenCommand, Positions
<1> HIDE DEF swapped
<1>4. swapped \in Seq({swapped[i] : i \in DOMAIN swapped}) /\ Len(swapped) = Len(args)
  <2>1. DOMAIN swapped = 1..Len(args)
    BY <1>2
  <2>2. swapped \in [1..Len(args) -> {swapped[i] : i \in DOMAIN swapped}]
    BY <1>2, <2>1
  <2>3. swapped \in Seq({swapped[i] : i \in DOMAIN swapped})
    BY <1>1, <2>2
  <2> QED
    BY <1>1, <2>1, <2>3
<1> QED
  BY <1>3, <1>4 DEF Listed, Positions, swapped

\* apply_output_captures takes each output from one place of the command line, as its
\* caller gave it.
LEMMA CapturesAreGood ==
    ASSUME CliAssumption, NEW args \in Commands
    PROVE  Listed(args) /\ WellCaptured(args, Captures(args))
<1> DEFINE flagged == Flagged(args)
           swapped     == RewrittenCommand(args, flagged.found)
           words   == WordsOf(swapped, flagged.consumed)
           spoken    == [k \in DOMAIN words |-> swapped[words[k]].value]
           fits    == {r \in Positional : /\ r.prefix # <<>> /\ Len(words) > Len(r.prefix) + r.index
                                          /\ IsPrefix(r.prefix, spoken)}
           best    == {r \in fits : \A q \in fits : Len(r.prefix) >= Len(q.prefix)}
           rule    == CHOOSE r \in best : TRUE
           i       == words[Len(rule.prefix) + rule.index + 1]
<1>1. Listed(args)
  BY DEF CliAssumption, Listed
<1>2. Captures(args) = IF best = {} THEN flagged.found
                       ELSE Append(flagged.found, Capture(i, swapped[i].value))
  BY DEF Captures
<1>3. best # {} => /\ rule \in Positional /\ Len(words) > Len(rule.prefix) + rule.index
  <2> HIDE DEF flagged, swapped, words, spoken
  <2>1. best # {} => rule \in best
    OBVIOUS
  <2>2. rule \in best => /\ rule \in Positional /\ Len(words) > Len(rule.prefix) + rule.index
    <3> HIDE DEF rule
    <3> QED
      OBVIOUS
  <2> QED
    BY <2>1, <2>2
<1> HIDE DEF best, rule, fits, spoken
<1>4. Passed(args, Len(args), flagged)
  BY <1>1, FlaggedPasses
<1> HIDE DEF flagged
<1>5. /\ WellCaptured(args, flagged.found) /\ \A k \in DOMAIN flagged.found : flagged.found[k].arg \in flagged.consumed
  BY <1>4 DEF Passed, WellCaptured, Accs
<1>6. CASE best # {}
  <2>1. /\ Listed(swapped) /\ Positions(swapped) = Positions(args)
        /\ \A j \in Positions(args) : (\A k \in DOMAIN flagged.found : flagged.found[k].arg # j) =>
             swapped[j] = args[j]
    BY <1>1, RewrittenListed
  <2> HIDE DEF swapped
  <2>2. words \in Seq(Free(swapped, flagged.consumed))
    BY <2>1, WordsAreFree
  <2> HIDE DEF words
  <2>3. rule.index \in Nat /\ Len(rule.prefix) \in Nat
    <3>1. rule.index \in Nat /\ rule.prefix \in Seq({rule.prefix[k] : k \in DOMAIN rule.prefix})
      BY <1>3, <1>6 DEF CliAssumption
    <3> QED
      BY <3>1
  <2>4. Len(rule.prefix) + rule.index + 1 \in 1..Len(words)
    <3>1. Len(words) \in Nat /\ Len(words) > Len(rule.prefix) + rule.index
      BY <1>3, <1>6, <2>2
    <3> QED
      BY <2>3, <3>1
  <2>5. i \in Free(swapped, flagged.consumed)
    <3> HIDE DEF Free
    <3> QED
      BY <2>2, <2>4
  <2> HIDE DEF i
  <2>6. i \in Positions(args) /\ swapped[i].kind = "word" /\ i \notin flagged.consumed
    BY <2>1, <2>5 DEF Free
  <2>7. \A k \in DOMAIN flagged.found : flagged.found[k].arg # i
    BY <1>5, <2>6
  <2>8. swapped[i] = args[i] /\ swapped[i].value = Text(args[i])
    BY <2>1, <2>6, <2>7 DEF Text
  <2>9. WellCaptured(args, Append(flagged.found, Capture(i, swapped[i].value)))
    BY <1>1, <1>5, <2>6, <2>7, <2>8, AppendsCapture, StaysApart DEF WellCaptured
  <2> QED
    BY <1>1, <1>2, <1>6, <2>9
<1> QED
  BY <1>1, <1>2, <1>5, <1>6

-----------------------------------------------------------------------------
(* The calls                                                                *)

\* What a step of call c shows of the rest: it moves the call to a state that fits, and
\* leaves the others' files alone.
CallMoves(c) ==
    /\ wipes' = wipes
    /\ \A p \in DOMAIN creds' : creds'[p] \in {"empty", "part", "whole", "left"}
    /\ wipes => \A p \in CliCalls \ {c} :
         /\ p \in DOMAIN creds' <=> p \in DOMAIN creds
         /\ p \in DOMAIN creds => creds'[p] = creds[p]
    /\ DOMAIN run' = CliCalls /\ \A d \in CliCalls \ {c} : run'[d] = run[d]
    /\ DOMAIN process' = CliCalls /\ \A d \in CliCalls \ {c} : process'[d] = process[d]
    /\ DOMAIN written' = CliCalls /\ \A d \in CliCalls \ {c} : written'[d] = written[d]
    /\ temps' \subseteq CliCalls \X Nat
    /\ \A d \in CliCalls \ {c} : \A n \in Nat : <<d, n>> \in temps' => <<d, n>> \in temps

LEMMA OneCallMoves ==
    ASSUME CliInv, NEW c \in CliCalls, CallMoves(c), CallInv(c)'
    PROVE  CliInv'
<1>1. ASSUME NEW d \in CliCalls \ {c} PROVE CallInv(d)'
  <2>1. /\ run'[d] = run[d] /\ process'[d] = process[d] /\ written'[d] = written[d] /\ wipes' = wipes
        /\ \A n \in Nat : <<d, n>> \in temps' => <<d, n>> \in temps
    BY DEF CallMoves
  <2>2. CallInv(d)
    BY DEF CliInv, CallInv
  <2>3. wipes => CredFits(d, run[d], creds')
    BY <2>2 DEF CallMoves, CallInv, CredFits
  <2>4. wipes => (d \in DOMAIN creds' <=> d \in DOMAIN creds)
    BY DEF CallMoves
  <2> QED
    BY <2>1, <2>2, <2>3, <2>4 DEF CallInv
<1>2. \A d \in CliCalls : CallInv(d)'
  BY <1>1
<1> QED
  BY <1>2 DEF CliInv, CallInv, CallMoves

\* What is known of a call that has begun.
LEMMA BegunIs ==
    ASSUME CliAssumption, CliInv, NEW c \in CliCalls, run[c].at # "new"
    PROVE  /\ run[c] \in Begun /\ run[c].args \in Commands /\ run[c].found = Captures(run[c].args)
           /\ WellCaptured(run[c].args, run[c].found) /\ Listed(run[c].args)
           /\ run[c].found \in Seq(CapturesOf(run[c].args))
           /\ \A k \in DOMAIN run[c].found :
                /\ run[c].found[k].arg \in Nat /\ run[c].found[k].arg \in DOMAIN run[c].args
                /\ run[c].found[k].original = Text(run[c].args[run[c].found[k].arg])
<1>1. run[c] \in Begun /\ run[c].args \in Commands /\ run[c].found = Captures(run[c].args)
  BY DEF CliInv, CallInv, CallFits, Begun
<1>2. WellCaptured(run[c].args, run[c].found) /\ Listed(run[c].args)
  BY <1>1, CapturesAreGood
<1> DEFINE args == run[c].args
           captured == run[c].found
<1> HIDE DEF args, captured
<1>3. captured \in Seq(CapturesOf(args)) /\ Listed(args)
  BY <1>2 DEF WellCaptured, args, captured
<1>4. ASSUME NEW k \in DOMAIN captured
      PROVE  /\ captured[k].arg \in Nat /\ captured[k].arg \in DOMAIN args
             /\ captured[k].original = Text(args[captured[k].arg])
  <2>1. captured[k] \in CapturesOf(args)
    <3> HIDE DEF CapturesOf
    <3> QED
      BY <1>3
  <2>2. PICK i \in Positions(args) : captured[k] = Capture(i, Text(args[i]))
    BY <2>1 DEF CapturesOf
  <2>3. captured[k].arg = i /\ captured[k].original = Text(args[i])
    BY <2>2 DEF Capture
  <2> QED
    BY <1>3, <2>3 DEF Positions, Listed
<1> QED
  BY <1>1, <1>2, <1>3, <1>4 DEF args, captured

LEMMA CliInitOK == ASSUME CliInit PROVE CliInv
  BY DEF CliInit, CliInv, CallInv, CallFits, ChildFits, CredFits, CliEnded

\* The call goes on, with its captures.
LEMMA GoesTo ==
    ASSUME CliAssumption, CliInv, NEW c \in CliCalls, run[c].at # "new", NEW goal \in Ats \ {"new"},
           Goto(c, goal),
           goal \in {"write", "generate", "spawn", "run"} => run[c].got = 0
    PROVE  /\ DOMAIN run' = CliCalls /\ \A d \in CliCalls \ {c} : run'[d] = run[d]
           /\ CallFits(run'[c]) /\ run'[c].at = goal /\ run'[c].args = run[c].args
           /\ run'[c].found = run[c].found /\ run'[c].got = run[c].got
<1>1. run[c] \in Begun /\ run[c].found = Captures(run[c].args) /\ DOMAIN run = CliCalls
  BY BegunIs DEF CliInv
<1>2. run' = [run EXCEPT ![c].at = goal]
  BY DEF Goto
<1>3. run'[c] = [run[c] EXCEPT !.at = goal] /\ DOMAIN run' = CliCalls /\ \A d \in CliCalls \ {c} : run'[d] = run[d]
  BY <1>1, <1>2
<1>4. /\ run'[c] \in Begun /\ run'[c].at = goal /\ run'[c].args = run[c].args
      /\ run'[c].found = run[c].found /\ run'[c].got = run[c].got
  BY <1>1, <1>3 DEF Begun
<1> QED
  BY <1>1, <1>3, <1>4 DEF CallFits

LEMMA WipedIs ==
    ASSUME CliInv, NEW c \in CliCalls, Wipes(c), run[c].at \in {"generate", "spawn", "run", "collect"}
    PROVE  /\ wipes => (c \in DOMAIN creds' => creds'[c] = "left")
           /\ \A p \in DOMAIN creds' : creds'[p] \in {"empty", "part", "whole", "left"}
           /\ \A p \in CliCalls \ {c} : /\ p \in DOMAIN creds' <=> p \in DOMAIN creds
                                        /\ p \in DOMAIN creds => creds'[p] = creds[p]
<1>1. CASE UNCHANGED creds
  <2> SUFFICES ASSUME wipes, c \in DOMAIN creds PROVE creds[c] = "left"
    BY <1>1 DEF CliInv
  <2>1. CASE run[c].at = "collect"
    BY <2>1 DEF CliInv, CallInv, CredFits
  <2>2. CASE run[c].at # "collect"
    BY <1>1, <2>2 DEF Wipes
  <2> QED
    BY <2>1, <2>2
<1>2. CASE creds' = [p \in DOMAIN creds \ {c} |-> creds[p]]
  BY <1>2 DEF CliInv
<1>3. CASE creds' = [creds EXCEPT ![c] = "left"]
  BY <1>3 DEF CliInv
<1> QED
  BY <1>1, <1>2, <1>3 DEF Wipes

\* The end of a call, with the outputs that are kept: all or none.
LEMMA ReturnsOK ==
    ASSUME CliAssumption, CliInv, NEW c \in CliCalls, NEW how \in CliEnded \ {"unwritten"}, NEW kept,
           run[c].at \in {"generate", "spawn", "run", "collect"},
           kept = {} \/ (kept = temps /\ how = "dropped"), Returns(c, how, kept)
    PROVE  CliInv'
<1>1. Goto(c, how) /\ Wipes(c) /\ process' = [process EXCEPT ![c].runs = FALSE]
      /\ temps' = {t \in temps : t[1] = c => t \in kept} /\ wipes' = wipes /\ written' = written
  BY DEF Returns
<1>2. how \in Ats \ {"new"} /\ how \notin {"write", "generate", "spawn", "run", "collect"}
  BY DEF Ats, CliEnded
<1>3. /\ DOMAIN run' = CliCalls /\ \A d \in CliCalls \ {c} : run'[d] = run[d]
      /\ CallFits(run'[c]) /\ run'[c].at = how /\ run'[c].args = run[c].args
  BY <1>1, <1>2, GoesTo
<1>4. /\ wipes => (c \in DOMAIN creds' => creds'[c] = "left")
      /\ \A p \in DOMAIN creds' : creds'[p] \in {"empty", "part", "whole", "left"}
      /\ \A p \in CliCalls \ {c} : /\ p \in DOMAIN creds' <=> p \in DOMAIN creds
                                   /\ p \in DOMAIN creds => creds'[p] = creds[p]
  BY <1>1, WipedIs
<1>5. /\ DOMAIN process' = CliCalls /\ \A d \in CliCalls \ {c} : process'[d] = process[d]
      /\ process'[c].saw = process[c].saw /\ ChildFits(run'[c], process'[c])
  <2>1. DOMAIN process = CliCalls /\ ChildFits(run[c], process[c])
    BY DEF CliInv, CallInv
  <2>2. process'[c] = [process[c] EXCEPT !.runs = FALSE]
    BY <1>1, <2>1
  <2> QED
    BY <1>1, <2>1, <2>2 DEF ChildFits
<1>6. \A n \in Nat : <<c, n>> \in temps' => how = "dropped"
  BY <1>1
<1>7. temps' \subseteq temps
  BY <1>1
<1>8. CallMoves(c)
  BY <1>1, <1>3, <1>4, <1>5, <1>7 DEF CallMoves, CliInv
<1>9. CallInv(c)'
  <2>1. \A n \in Nat : <<c, n>> \in temps' => OutputFits(run'[c], n)
    BY <1>3, <1>6 DEF OutputFits
  <2>2. wipes => CredFits(c, run'[c], creds') /\ process'[c].saw \in {"nothing", "whole"}
    BY <1>2, <1>3, <1>4, <1>5 DEF CredFits, CliInv, CallInv
  <2>3. written'[c] \subseteq {Text(run'[c].args[i]) : i \in DOMAIN run'[c].args}
    BY <1>1, <1>3 DEF CliInv, CallInv
  <2> QED
    BY <1>1, <1>2, <1>3, <1>5, <2>1, <2>2, <2>3 DEF CallInv
<1> QED
  BY <1>8, <1>9, OneCallMoves

\* A step of a call before its subprocess, with its credential.
LEMMA PreparesOK ==
    ASSUME CliAssumption, CliInv, NEW c \in CliCalls, run[c].at \in {"new", "write"},
           UNCHANGED <<wipes, process, temps, written>>,
           DOMAIN run' = CliCalls, \A d \in CliCalls \ {c} : run'[d] = run[d], CallFits(run'[c]),
           run'[c].at # "new", run'[c].at # "run", run[c].at = "write" => run'[c].args = run[c].args,
           NEW now \in {"empty", "part", "whole"},
           \/ creds' = creds /\ run[c].at = "new"
           \/ creds' = [p \in DOMAIN creds \cup {PathOf(c)} |-> IF p = PathOf(c) THEN now ELSE creds[p]],
           wipes => CredFits(c, run'[c], creds')
    PROVE  CliInv'
<1>1. CallInv(c) /\ DOMAIN process = CliCalls /\ DOMAIN written = CliCalls
  BY DEF CliInv
<1>2. CallMoves(c)
  <2>1. \A p \in DOMAIN creds' : creds'[p] \in {"empty", "part", "whole", "left"}
    BY DEF CliInv
  <2>2. ASSUME NEW p \in CliCalls \ {c}, wipes
        PROVE  (p \in DOMAIN creds' <=> p \in DOMAIN creds) /\ (p \in DOMAIN creds => creds'[p] = creds[p])
    BY <2>2 DEF PathOf
  <2> QED
    BY <1>1, <2>1, <2>2 DEF CallMoves, CliInv
<1>3. \A n \in Nat : <<c, n>> \notin temps
  BY <1>1 DEF CallInv, OutputFits
<1>4. ChildFits(run'[c], process[c])
  BY <1>1 DEF CallInv, ChildFits
<1>5. written[c] \subseteq {Text(run'[c].args[i]) : i \in DOMAIN run'[c].args}
  <2>1. CASE run[c].at = "new"
    BY <1>1, <2>1 DEF CallInv
  <2>2. CASE run[c].at = "write"
    BY <1>1, <2>2 DEF CallInv
  <2> QED
    BY <2>1, <2>2
<1>6. CallInv(c)'
  BY <1>1, <1>3, <1>4, <1>5 DEF CallInv
<1> QED
  BY <1>2, <1>6, OneCallMoves

LEMMA OpensOK ==
    ASSUME CliAssumption, CliInv, NEW c \in CliCalls, Opens(c) PROVE CliInv'
<1>1. run[c].at = "new" /\ CallInv(c) /\ DOMAIN run = CliCalls
  BY DEF Opens, CliInv
<1> DEFINE began(args, stage) ==
             [at |-> stage, args |-> args, busy |-> 0, found |-> Captures(args), got |-> 0]
           opened == [p \in DOMAIN creds \cup {PathOf(c)} |-> IF p = PathOf(c) THEN "empty" ELSE creds[p]]
<1>2. PICK args \in Commands, stage \in {"write", "failed"} :
        /\ run' = [run EXCEPT ![c] = began(args, stage)]
        /\ creds' = IF stage = "failed" THEN creds ELSE opened
  BY DEF Opens
<1>3. /\ DOMAIN run' = CliCalls /\ \A d \in CliCalls \ {c} : run'[d] = run[d]
      /\ run'[c] = began(args, stage)
  BY <1>1, <1>2
<1>4. CallFits(run'[c]) /\ run'[c].at = stage
  <2>1. stage \in Ats /\ 0 \in Nat
    BY DEF Ats, CliEnded
  <2> QED
    BY <1>3, <2>1 DEF CallFits, Begun
<1>5. UNCHANGED <<wipes, process, temps, written>>
  BY DEF Opens
<1>6. wipes => CredFits(c, run'[c], creds')
  <2>1. CASE stage = "write"
    BY <1>4, <2>1 DEF CredFits, CliEnded
  <2>2. CASE stage = "failed"
    BY <1>1, <1>2, <1>4, <2>2 DEF CredFits, CallInv
  <2> QED
    BY <2>1, <2>2
<1>7. "empty" \in {"empty", "part", "whole"} /\ (creds' = creds \/ creds' = opened)
  BY <1>2
<1> HIDE DEF began
<1> QED
  BY <1>1, <1>3, <1>4, <1>5, <1>6, <1>7, PreparesOK

LEMMA WritesCredOK ==
    ASSUME CliAssumption, CliInv, NEW c \in CliCalls, WritesCred(c) PROVE CliInv'
<1> DEFINE goal == IF Generated THEN "generate" ELSE "spawn"
           CredsWith(now) == [p \in DOMAIN creds \cup {PathOf(c)} |-> IF p = PathOf(c) THEN now ELSE creds[p]]
<1>1. run[c].at = "write" /\ CallInv(c) /\ run[c].got = 0
  BY DEF WritesCred, CliInv, CallInv, CallFits
<1>2. PICK now \in {"empty", "part", "whole"} :
        creds' = CredsWith(now) /\ ((now = "whole" /\ Goto(c, goal)) \/ Goto(c, "unwritten"))
  BY DEF WritesCred
<1>3. PICK stage \in {goal, "unwritten"} : Goto(c, stage) /\ (stage = goal => now = "whole")
  BY <1>2
<1>4. stage \in Ats \ {"new"} /\ stage \in {"generate", "spawn", "unwritten"}
  BY <1>3 DEF Ats, CliEnded
<1>5. /\ DOMAIN run' = CliCalls /\ \A d \in CliCalls \ {c} : run'[d] = run[d]
      /\ CallFits(run'[c]) /\ run'[c].at = stage /\ run'[c].args = run[c].args
  BY <1>1, <1>3, <1>4, GoesTo
<1>6. wipes => c \in DOMAIN creds' /\ creds'[c] = now
  BY <1>2 DEF PathOf
<1>7. wipes => CredFits(c, run'[c], creds')
  <2>1. stage # "unwritten" => stage = goal
    BY <1>3
  <2> HIDE DEF goal
  <2> QED
    BY <1>3, <1>4, <1>5, <1>6, <2>1 DEF CredFits, CliEnded
<1>8. UNCHANGED <<wipes, process, temps, written>>
  BY DEF WritesCred
<1> QED
  BY <1>1, <1>2, <1>4, <1>5, <1>7, <1>8, PreparesOK

\* A step of a call that waits, and moves nothing but itself and its subprocess.
LEMMA WaitsOK ==
    ASSUME CliAssumption, CliInv, NEW c \in CliCalls, UNCHANGED <<wipes, creds, temps, written>>,
           run[c].at \in {"generate", "spawn"},
           DOMAIN run' = CliCalls, \A d \in CliCalls \ {c} : run'[d] = run[d],
           CallFits(run'[c]), run'[c].at \in {"generate", "spawn", "run"},
           run'[c].args = run[c].args,
           DOMAIN process' = CliCalls, \A d \in CliCalls \ {c} : process'[d] = process[d],
           process'[c].saw = process[c].saw, ChildFits(run'[c], process'[c])
    PROVE  CliInv'
<1>1. CallInv(c)
  BY DEF CliInv
<1>2. CallMoves(c)
  BY DEF CallMoves, CliInv
<1>3. CallInv(c)'
  <2>1. \A n \in Nat : <<c, n>> \notin temps
    BY <1>1 DEF CallInv, OutputFits
  <2>2. wipes => CredFits(c, run'[c], creds) /\ process'[c].saw \in {"nothing", "whole"}
    BY <1>1 DEF CallInv, CredFits, CliEnded
  <2> QED
    BY <1>1, <2>1, <2>2 DEF CallInv
<1> QED
  BY <1>2, <1>3, OneCallMoves

LEMMA GeneratesOK ==
    ASSUME CliAssumption, CliInv, NEW c \in CliCalls, Generates(c) PROVE CliInv'
<1>1. run[c].at = "generate" /\ CallInv(c) /\ run[c].got = 0
  BY DEF Generates, CliInv, CallInv, CallFits
<1>2. CASE Goto(c, "spawn") /\ UNCHANGED <<wipes, creds, process, temps, written>>
  <2>1. "spawn" \in Ats \ {"new"}
    BY DEF Ats
  <2>2. /\ DOMAIN run' = CliCalls /\ \A d \in CliCalls \ {c} : run'[d] = run[d]
        /\ CallFits(run'[c]) /\ run'[c].at = "spawn" /\ run'[c].args = run[c].args
    BY <1>1, <1>2, <2>1, GoesTo
  <2>3. ChildFits(run'[c], process'[c]) /\ DOMAIN process = CliCalls
    BY <1>1, <1>2, <2>2 DEF CallInv, ChildFits, CliInv
  <2> QED
    BY <1>1, <1>2, <2>2, <2>3, WaitsOK
<1>3. CASE Returns(c, "failed", {})
  <2>1. "failed" \in CliEnded \ {"unwritten"}
    BY DEF CliEnded
  <2> QED
    BY <1>1, <1>3, <2>1, ReturnsOK
<1> QED
  BY <1>2, <1>3 DEF Generates

LEMMA SpawnsOK ==
    ASSUME CliAssumption, CliInv, NEW c \in CliCalls, Spawns(c) PROVE CliInv'
<1>1. run[c].at = "spawn" /\ CallInv(c) /\ run[c].got = 0 /\ DOMAIN process = CliCalls /\ DOMAIN run = CliCalls
      /\ run[c] \in Begun
  BY BegunIs DEF Spawns, CliInv, CallInv, CallFits
<1>2. CASE Goto(c, "run") /\ process' = [process EXCEPT ![c].runs = TRUE]
           /\ UNCHANGED <<wipes, creds, temps, written>>
  <2>1. "run" \in Ats \ {"new"}
    BY DEF Ats
  <2>2. /\ DOMAIN run' = CliCalls /\ \A d \in CliCalls \ {c} : run'[d] = run[d]
        /\ CallFits(run'[c]) /\ run'[c].at = "run" /\ run'[c].args = run[c].args
    BY <1>1, <1>2, <2>1, GoesTo
  <2>3. /\ DOMAIN process' = CliCalls /\ \A d \in CliCalls \ {c} : process'[d] = process[d]
        /\ process'[c] = [process[c] EXCEPT !.runs = TRUE]
    BY <1>1, <1>2
  <2>4. ChildFits(run'[c], process'[c]) /\ process'[c].saw = process[c].saw
    BY <1>1, <2>2, <2>3 DEF CallInv, ChildFits
  <2> QED
    BY <1>1, <1>2, <2>2, <2>3, <2>4, WaitsOK
<1>3. CASE run' = [run EXCEPT ![c].busy = @ + 1] /\ UNCHANGED <<wipes, creds, process, temps, written>>
  <2>1. /\ DOMAIN run' = CliCalls /\ \A d \in CliCalls \ {c} : run'[d] = run[d]
        /\ run'[c] = [run[c] EXCEPT !.busy = @ + 1]
    BY <1>1, <1>3
  <2>2. /\ run'[c] \in Begun /\ run'[c].at = "spawn" /\ run'[c].args = run[c].args
        /\ run'[c].found = run[c].found /\ run'[c].got = run[c].got
    BY <1>1, <2>1 DEF Begun
  <2>3. CallFits(run'[c])
    BY <1>1, <2>2 DEF CallInv, CallFits
  <2>4. ChildFits(run'[c], process'[c])
    BY <1>1, <1>3, <2>2 DEF CallInv, ChildFits
  <2> QED
    BY <1>1, <1>3, <2>1, <2>2, <2>3, <2>4, WaitsOK
<1>4. CASE Returns(c, "failed", {})
  <2>1. "failed" \in CliEnded \ {"unwritten"}
    BY DEF CliEnded
  <2> QED
    BY <1>1, <1>4, <2>1, ReturnsOK
<1> QED
  BY <1>2, <1>3, <1>4 DEF Spawns

LEMMA FailsOK ==
    ASSUME CliAssumption, CliInv, NEW c \in CliCalls, ProcessFails(c) PROVE CliInv'
<1>1. "failed" \in CliEnded \ {"unwritten"} /\ run[c].at = "run" /\ Returns(c, "failed", {})
  BY DEF CliEnded, ProcessFails
<1> QED
  BY <1>1, ReturnsOK

LEMMA DroppedOK ==
    ASSUME CliAssumption, CliInv, NEW c \in CliCalls, Dropped(c) PROVE CliInv'
<1>1. "dropped" \in CliEnded \ {"unwritten"} /\ run[c].at \in {"generate", "spawn", "run", "collect"} /\ Returns(c, "dropped", temps)
  BY DEF CliEnded, Dropped
<1> QED
  BY <1>1, ReturnsOK

LEMMA ExitsOK ==
    ASSUME CliAssumption, CliInv, NEW c \in CliCalls, ProcessExits(c) PROVE CliInv'
<1> DEFINE goal == IF run[c].found = <<>> THEN "ok" ELSE "collect"
<1>1. /\ run[c].at = "run" /\ CallInv(c) /\ run[c].got = 0 /\ DOMAIN process = CliCalls
      /\ Goto(c, goal) /\ Wipes(c) /\ process' = [process EXCEPT ![c].runs = FALSE]
      /\ wipes' = wipes /\ temps' = temps /\ written' = written
  BY DEF ProcessExits, CliInv, CallInv, CallFits
<1>2. goal \in Ats \ {"new"} /\ goal \in {"ok", "collect"}
  BY DEF Ats, CliEnded
<1>3. goal = "ok" => DOMAIN run[c].found = {}
  OBVIOUS
<1> HIDE DEF goal
<1>4. /\ DOMAIN run' = CliCalls /\ \A d \in CliCalls \ {c} : run'[d] = run[d]
      /\ CallFits(run'[c]) /\ run'[c].at = goal /\ run'[c].args = run[c].args
      /\ run'[c].found = run[c].found /\ run'[c].got = run[c].got
  BY <1>1, <1>2, GoesTo
<1>5. /\ wipes => (c \in DOMAIN creds' => creds'[c] = "left")
      /\ \A p \in DOMAIN creds' : creds'[p] \in {"empty", "part", "whole", "left"}
      /\ \A p \in CliCalls \ {c} : /\ p \in DOMAIN creds' <=> p \in DOMAIN creds
                                   /\ p \in DOMAIN creds => creds'[p] = creds[p]
  BY <1>1, WipedIs
<1>6. /\ DOMAIN process' = CliCalls /\ \A d \in CliCalls \ {c} : process'[d] = process[d]
      /\ process'[c].saw = process[c].saw /\ ChildFits(run'[c], process'[c])
  <2>1. process'[c] = [process[c] EXCEPT !.runs = FALSE]
    BY <1>1
  <2> QED
    BY <1>1, <2>1 DEF ChildFits, CallInv
<1>7. CallMoves(c)
  BY <1>1, <1>4, <1>5, <1>6 DEF CallMoves, CliInv
<1>8. CallInv(c)'
  <2>1. ASSUME NEW n \in Nat, <<c, n>> \in temps PROVE OutputFits(run'[c], n)
    <3>1. \E k \in DOMAIN run[c].found : k > run[c].got /\ run[c].found[k].arg = n
      BY <1>1, <2>1 DEF CallInv, OutputFits
    <3> QED
      BY <1>2, <1>3, <1>4, <3>1 DEF OutputFits
  <2>2. wipes => CredFits(c, run'[c], creds') /\ process'[c].saw \in {"nothing", "whole"}
    BY <1>1, <1>2, <1>4, <1>5, <1>6 DEF CallInv, CredFits, CliEnded
  <2> QED
    BY <1>1, <1>2, <1>4, <1>6, <2>1, <2>2 DEF CallInv
<1> QED
  BY <1>7, <1>8, OneCallMoves

LEMMA CollectsOK ==
    ASSUME CliAssumption, CliInv, NEW c \in CliCalls, Collects(c) PROVE CliInv'
<1> DEFINE i == run[c].got + 1
           t == <<c, run[c].found[i].arg>>
           captured == run[c].found
<1>1. /\ run[c].at = "collect" /\ CallInv(c) /\ DOMAIN run = CliCalls /\ temps' = temps \ {t}
      /\ wipes' = wipes /\ creds' = creds /\ process' = process /\ written' = written
      /\ temps \subseteq CliCalls \X Nat
  BY DEF Collects, CliInv
<1>2. /\ run[c] \in Begun /\ captured = Captures(run[c].args) /\ run[c].got \in Nat
      /\ captured \in Seq(CapturesOf(run[c].args)) /\ \A k \in DOMAIN captured : captured[k].arg \in Nat
  BY <1>1, BegunIs DEF Begun
<1>3. DOMAIN captured = 1..Len(captured) /\ Len(captured) \in Nat
  <2> HIDE DEF captured
  <2> QED
    BY <1>2
\* What was left before is of an output after the one that the loop is at.
<1>4. ASSUME NEW n \in Nat, <<c, n>> \in temps'
      PROVE  \E k \in DOMAIN captured : k > run[c].got + 1 /\ captured[k].arg = n
  <2>1. <<c, n>> \in temps /\ <<c, n>> # t
    BY <1>1, <1>4
  <2>2. PICK k \in DOMAIN captured : k > run[c].got /\ captured[k].arg = n
    BY <1>1, <2>1 DEF CallInv, OutputFits
  <2>3. k # i
    BY <2>1, <2>2
  <2>4. k \in Nat
    BY <1>3
  <2> QED
    BY <1>2, <2>2, <2>3, <2>4
<1> DEFINE next == run'[c]
<1>5. /\ DOMAIN run' = CliCalls /\ \A d \in CliCalls \ {c} : run'[d] = run[d]
      /\ CallFits(next) /\ next.args = run[c].args /\ next.found = captured
      /\ \/ next.at = "ok" /\ i = Len(captured)
         \/ next.at = "collect" /\ next.got = i
         \/ next.at = "uncollected" /\ next.got = run[c].got
  <2>1. CASE Goto(c, "uncollected")
    <3>1. "uncollected" \in Ats \ {"new"}
      BY DEF Ats, CliEnded
    <3> QED
      BY <1>1, <2>1, <3>1, GoesTo
  <2>2. CASE run' = [run EXCEPT ![c].got = i, ![c].at = IF i = Len(captured) THEN "ok" ELSE @]
    <3> DEFINE goal == IF i = Len(captured) THEN "ok" ELSE run[c].at
    <3>1. /\ DOMAIN run' = CliCalls /\ \A d \in CliCalls \ {c} : run'[d] = run[d]
          /\ next = [run[c] EXCEPT !.got = i, !.at = goal]
      BY <1>1, <2>2
    <3>2. goal \in Ats /\ goal \in {"ok", "collect"} /\ (goal = "ok" => i = Len(captured)) /\ i \in Nat
      BY <1>1, <1>2 DEF Ats, CliEnded
    <3> HIDE DEF goal, i
    <3>3. /\ next \in Begun /\ next.at = goal /\ next.args = run[c].args
          /\ next.found = captured /\ next.got = i
      BY <1>2, <3>1, <3>2 DEF Begun
    <3>4. CallFits(next)
      BY <1>2, <3>2, <3>3 DEF CallFits
    <3> QED
      BY <3>1, <3>2, <3>3, <3>4
  <2> QED
    BY <2>1, <2>2 DEF Collects
<1> HIDE DEF next
<1>6. CallMoves(c)
  <2>1. temps' \subseteq temps
    BY <1>1
  <2> QED
    BY <1>1, <1>5, <2>1 DEF CallMoves, CliInv
<1>7. CallInv(c)'
  <2>1. ASSUME NEW n \in Nat, <<c, n>> \in temps' PROVE OutputFits(next, n)
    <3>1. PICK k \in DOMAIN captured : k > run[c].got + 1 /\ captured[k].arg = n
      BY <1>4, <2>1
    <3>2. ~(i = Len(captured))
      BY <1>2, <1>3, <3>1
    <3> QED
      BY <1>5, <3>1, <3>2 DEF OutputFits
  <2>2. ChildFits(next, process[c])
    BY <1>1, <1>5 DEF CallInv, ChildFits
  <2>3. wipes => CredFits(c, next, creds) /\ process[c].saw \in {"nothing", "whole"}
    BY <1>1, <1>5 DEF CallInv, CredFits, CliEnded
  <2> QED
    BY <1>1, <1>5, <2>1, <2>2, <2>3 DEF CallInv, next
<1> QED
  BY <1>6, <1>7, OneCallMoves

LEMMA WritesOK ==
    ASSUME CliAssumption, CliInv, NEW c \in CliCalls, Writes(c) PROVE CliInv'
<1> DEFINE captured == run[c].found
           texts == {Text(run[c].args[i]) : i \in DOMAIN run[c].args}
<1>1. /\ run[c].at = "ok" /\ CallInv(c) /\ DOMAIN written = CliCalls
      /\ UNCHANGED <<wipes, creds, run, process, temps>>
  BY DEF Writes, CliInv
<1>2. PICK n \in 0..Len(captured) : written' = [written EXCEPT ![c] = {captured[k].original : k \in 1..n}]
  BY DEF Writes
<1>3. captured \in Seq(CapturesOf(run[c].args)) /\ \A k \in DOMAIN captured : captured[k].original \in texts
  BY <1>1, BegunIs
<1>4. \A k \in 1..n : k \in DOMAIN captured
  <2> HIDE DEF captured
  <2> QED
    BY <1>3
<1>5. /\ DOMAIN written' = CliCalls /\ \A d \in CliCalls \ {c} : written'[d] = written[d]
      /\ written'[c] \subseteq texts
  BY <1>1, <1>2, <1>3, <1>4
<1>6. CallMoves(c)
  BY <1>1, <1>5 DEF CallMoves, CliInv
<1>7. CallInv(c)'
  BY <1>1, <1>5 DEF CallInv
<1> QED
  BY <1>6, <1>7, OneCallMoves

LEMMA ReadsCredOK ==
    ASSUME CliAssumption, CliInv, NEW c \in CliCalls, ReadsCred(c) PROVE CliInv'
<1> DEFINE saw == IF PathOf(c) \in DOMAIN creds THEN creds[PathOf(c)] ELSE "missing"
<1>1. /\ process[c].runs /\ CallInv(c) /\ DOMAIN process = CliCalls
      /\ process' = [process EXCEPT ![c].saw = saw] /\ UNCHANGED <<wipes, creds, run, temps, written>>
  BY DEF ReadsCred, CliInv
<1>2. run[c].at = "run" /\ saw \in {"nothing", "empty", "part", "whole", "left", "missing"}
  BY <1>1 DEF CallInv, ChildFits, CliInv
<1>3. wipes => saw = "whole"
  BY <1>1, <1>2 DEF CallInv, CredFits, PathOf
<1> HIDE DEF saw
<1>4. /\ DOMAIN process' = CliCalls /\ \A d \in CliCalls \ {c} : process'[d] = process[d]
      /\ process'[c] = [process[c] EXCEPT !.saw = saw]
  BY <1>1
<1>5. ChildFits(run[c], process'[c]) /\ process'[c].saw = saw
  BY <1>1, <1>2, <1>4 DEF CallInv, ChildFits
<1>6. CallMoves(c)
  BY <1>1, <1>4 DEF CallMoves, CliInv
<1>7. CallInv(c)'
  BY <1>1, <1>3, <1>5 DEF CallInv
<1> QED
  BY <1>6, <1>7, OneCallMoves

LEMMA WritesOutputOK ==
    ASSUME CliAssumption, CliInv, NEW c \in CliCalls, WritesOutput(c) PROVE CliInv'
<1> DEFINE captured == run[c].found
<1>1. /\ process[c].runs /\ CallInv(c) /\ temps \subseteq CliCalls \X Nat
      /\ UNCHANGED <<wipes, creds, run, process, written>>
  BY DEF WritesOutput, CliInv
<1>2. PICK k \in DOMAIN captured : temps' = temps \cup {<<c, captured[k].arg>>}
  BY DEF WritesOutput
<1>3. run[c].at = "run" /\ run[c].got = 0
  BY <1>1 DEF CallInv, ChildFits, CallFits
<1>4. captured[k].arg \in Nat /\ k > 0
  <2>1. captured \in Seq(CapturesOf(run[c].args)) /\ captured[k].arg \in Nat
    BY <1>3, BegunIs
  <2> HIDE DEF captured
  <2> QED
    BY <2>1
<1>5. /\ temps' \subseteq CliCalls \X Nat
      /\ \A d \in CliCalls \ {c} : \A n \in Nat : <<d, n>> \in temps' => <<d, n>> \in temps
      /\ \A n \in Nat : <<c, n>> \in temps' => <<c, n>> \in temps \/ n = captured[k].arg
  BY <1>1, <1>2, <1>4
<1>6. CallMoves(c)
  BY <1>1, <1>5 DEF CallMoves, CliInv
<1>7. ASSUME NEW n \in Nat, <<c, n>> \in temps' PROVE OutputFits(run[c], n)
  <2>1. CASE <<c, n>> \in temps
    BY <1>1, <2>1 DEF CallInv
  <2>2. CASE n = captured[k].arg
    BY <1>2, <1>3, <1>4, <2>2 DEF OutputFits
  <2> QED
    BY <1>5, <1>7, <2>1, <2>2
<1>8. CallInv(c)'
  BY <1>1, <1>7 DEF CallInv
<1> QED
  BY <1>6, <1>8, OneCallMoves

-----------------------------------------------------------------------------
(* The theorems                                                             *)

LEMMA CliAlways == ASSUME CliAssumption PROVE CliSpec => []CliInv
<1>1. CliInit => CliInv
  BY CliInitOK
<1>2. ASSUME CliInv, CliNext PROVE CliInv'
  <2>1. PICK c \in CliCalls : Step(c)
    BY <1>2 DEF CliNext
  <2>2. \/ Opens(c) \/ WritesCred(c) \/ Generates(c) \/ Spawns(c)
        \/ ProcessFails(c) \/ ProcessExits(c)
        \/ Collects(c) \/ Dropped(c) \/ Writes(c) \/ ReadsCred(c)
        \/ WritesOutput(c)
    BY <2>1 DEF Step
  <2> QED
    BY <1>2, <2>2, OpensOK, WritesCredOK, GeneratesOK, SpawnsOK, FailsOK, ExitsOK, CollectsOK,
       DroppedOK, WritesOK, ReadsCredOK, WritesOutputOK
<1>3. ASSUME CliInv, UNCHANGED cliVars PROVE CliInv'
  BY <1>3 DEF cliVars, CliInv, CallInv, CallFits, ChildFits, CredFits, OutputFits
<1>4. CliInv /\ [CliNext]_cliVars => CliInv'
  BY <1>2, <1>3
<1> QED
  BY <1>1, <1>4, PTL DEF CliSpec

\* The calls of src/core/cli_executor.rs keep to their stages, and only one that waits
\* for a subprocess has one.
THEOREM CallsTypeCorrect == ASSUME CliAssumption PROVE CliSpec => []CliTypeOK
<1>1. CliInv => CliTypeOK
  BY DEF CliInv, CallInv, CallFits, Begun, Ats, ChildFits, CliTypeOK
<1> QED
  BY <1>1, CliAlways, PTL

\* materialize_credential_file and CredentialFile::drop: with an ephemeral keyring what a
\* subprocess reads is its call's credential, whole, however many calls of one provider
\* overlap, fail, time out or are dropped.
THEOREM SubprocessesReadWhole == ASSUME CliAssumption PROVE CliSpec => []CredentialsAreWhole
<1>1. CliInv => CredentialsAreWhole
  BY DEF CliInv, CallInv, CredentialsAreWhole
<1> QED
  BY <1>1, CliAlways, PTL

\* execute_with_gen: whichever way a call ends, its subprocess is gone and its credential is
\* wiped, but for one whose write failed before there was a guard to wipe it, or whose
\* removal failed; the outputs that it does not try to remove are those after the one that
\* failed, or those of a future that was dropped.
THEOREM CallsCleanUp == ASSUME CliAssumption PROVE CliSpec => []LeftForCause
<1>1. ASSUME CliInv, NEW c \in CliCalls, run[c].at \in CliEnded
      PROVE  /\ wipes /\ c \in DOMAIN creds => run[c].at = "unwritten" \/ creds[c] = "left"
             /\ ~process[c].runs
             /\ run[c].at # "dropped" =>
                  \A t \in temps : t[1] = c =>
                    /\ run[c].at = "uncollected"
                    /\ \E k \in DOMAIN run[c].found : k > run[c].got + 1 /\ run[c].found[k].arg = t[2]
  <2>1. CallInv(c) /\ temps \subseteq CliCalls \X Nat
    BY <1>1 DEF CliInv
  <2>2. wipes /\ c \in DOMAIN creds => run[c].at = "unwritten" \/ creds[c] = "left"
    BY <1>1, <2>1 DEF CallInv, CredFits
  <2>3. ~process[c].runs
    BY <1>1, <2>1 DEF CallInv, ChildFits, CliEnded
  <2>4. ASSUME NEW t \in temps, t[1] = c, run[c].at # "dropped"
        PROVE  /\ run[c].at = "uncollected"
               /\ \E k \in DOMAIN run[c].found : k > run[c].got + 1 /\ run[c].found[k].arg = t[2]
    <3>1. t = <<c, t[2]>> /\ t[2] \in Nat
      BY <2>1, <2>4
    <3>2. OutputFits(run[c], t[2])
      BY <2>1, <2>4, <3>1 DEF CallInv
    <3> QED
      BY <1>1, <2>4, <3>2 DEF OutputFits, CliEnded
  <2> QED
    BY <2>2, <2>3, <2>4
<1>2. CliInv => LeftForCause
  BY <1>1 DEF LeftForCause
<1> QED
  BY <1>2, CliAlways, PTL

\* apply_output_captures and materialize_outputs: every path that is captured or written
\* is one that the caller gave, taken from an argument of its own; a rule for flags and
\* one for positions that meet never capture a temporary path.
THEOREM OutputsAsGiven == ASSUME CliAssumption PROVE CliSpec => []OutputsAreAsked
<1>1. ASSUME CliAssumption, CliInv, NEW c \in CliCalls, run[c].at # "new"
      PROVE  LET captured == run[c].found
             IN  /\ \A k \in DOMAIN captured : captured[k].original = Text(run[c].args[captured[k].arg])
                 /\ \A j, k \in DOMAIN captured : j # k => captured[j].arg # captured[k].arg
                 /\ written[c] \subseteq {Text(run[c].args[i]) : i \in DOMAIN run[c].args}
  <2>1. written[c] \subseteq {Text(run[c].args[i]) : i \in DOMAIN run[c].args}
    BY <1>1 DEF CliInv, CallInv
  <2>2. Apart(run[c].found)
        /\ \A k \in DOMAIN run[c].found :
             run[c].found[k].original = Text(run[c].args[run[c].found[k].arg])
    BY <1>1, BegunIs DEF WellCaptured
  <2> QED
    BY <2>1, <2>2 DEF Apart
<1>2. CliAssumption => (CliInv => OutputsAreAsked)
  BY <1>1 DEF OutputsAreAsked
<1> QED
  BY <1>2, CliAlways, PTL

\* Whatever the calls of one provider do at once, each writes the outputs that its command
\* asked for, and leaves no credential, subprocess or temporary file behind but for those
\* with a cause (execute_with_gen).
THEOREM CallsDoWhatWasAsked == ASSUME CliAssumption PROVE CliSpec => []OnlyWhatWasAsked
<1>1. OutputsAreAsked /\ LeftForCause => OnlyWhatWasAsked
  BY DEF OnlyWhatWasAsked
<1> QED
  BY <1>1, OutputsAsGiven, CallsCleanUp, PTL
=============================================================================
