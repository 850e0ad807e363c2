---------------------------- MODULE AtiHomeProofs ----------------------------
(***************************************************************************)
(* Theorems about AtiHome, for any processes, commands, providers, skills, *)
(* repositories and shipments: what the commands leave in the directory    *)
(* can be loaded, except for the causes that BrokenForCause names.         *)
(*                                                                         *)
(* The disk is only as good as what is still going to be written to it, so *)
(* the invariant, HomeInv, is about the programs: every operation in one   *)
(* names paths there are and texts that fit them, a write follows its      *)
(* open, the manifest of an OpenAPI provider follows its spec, and the     *)
(* public key follows the private one of its pair.  A command starts with  *)
(* such a program (ProgramStands), and what an operation leaves to do is   *)
(* one that may be put before any other (Piece).  CrossInv: a file that no *)
(* two processes had open at once since it was opened is no mixture.       *)
(*                                                                         *)
(* The second half is about commands that do not overlap: what verifies    *)
(* was published or vouched for, and nothing is lost that no one asked to  *)
(* lose.  AloneInv says that the records on the disk are true (Sound) and  *)
(* that the program of the one command that runs can only change what the  *)
(* command names, looks before it leaps, and signs what its source         *)
(* published or what it found (Runs); KeysInv, that the credentials it is  *)
(* going to write hold every key but the one it was asked to remove.       *)
(***************************************************************************)
EXTENDS AtiHome, SequenceTheorems, FiniteSetTheorems, WellFoundedInduction, TLAPS

\* A sequence, of whatever it holds.
IsSeq(q) == q \in Seq({q[i] : i \in DOMAIN q})
FillsAt(op, path) == op.do = "fill" /\ op.at = path
Openapi(w) == w.is = "manifest" /\ w.handler = "openapi"

\* What may be written to a path.
TextFor(path, w) ==
    /\ w.is \notin {"none", "empty", "no hash"}
    /\ \A n \in Names : path = ManifestFile(n) => w.is \in {"manifest", "junk"}
    /\ \A n \in Names : path = SpecFile(n) => w = SpecText
    /\ \A s \in Skills : path = SkillToml(s) => w = Mixed \/ TomlOK(w)
    /\ \A s \in Skills : path = BundledProvider(s) => BundleOK(w)
    /\ path = Credentials => w.is = "keys"
    /\ path \in {PrivateKey, PublicKey} => w.is = "pem"

\* A file is not there, was truncated to be written, is a mixture, or holds what fits it.
DiskOK(d) ==
    /\ DOMAIN d = Paths
    /\ \A path \in Paths : d[path] \in {None, Empty, Mixed} \/ TextFor(path, d[path])

\* The operations that others carry along: they open and write nothing.
PlainOp(op) ==
    /\ op.do \in {"sign", "generate", "bundle", "skills"}
    /\ op.do \in {"sign", "generate", "bundle"} => op.at \in Skills
    /\ op.do = "sign" => SourceOK(op.with.url, op.with.pin)
    /\ op.do = "skills" => op.at \in Names
Plain(q) == IsSeq(q) /\ \A i \in DOMAIN q : PlainOp(q[i])

\* An operation names what there is, and writes what fits.
GoodOp(op) ==
    /\ op.do \in {"open", "fill"} => op.at \in Paths
    /\ op.do = "fill" => TextFor(op.at, op.with)
    /\ op.do = "unlink" => \E n \in Names : op.at \in {ManifestFile(n), CacheFile(n)}
    /\ op.do \in {"clear", "visit"} => \E n \in Names : op.at = CacheFile(n)
    /\ op.do = "mkdir" => \E s \in Skills : op.at = SkillDir(s)
    /\ op.do \in {"rmdir", "update", "copy", "clone"} => op.at \in Skills
    /\ op.do \in {"copy", "clone"} => op.with.url \in Urls /\ Plain(op.with.tail)
    /\ op.do = "clone" => op.with.pin \in 0..MaxVersion[op.with.url]
    /\ op.do = "load" => Plain(op.with.then)
    /\ op.do \in {"sign", "generate", "bundle", "skills"} => PlainOp(op)

\* Every open is followed by its write, and every write but the first operation follows an open.
Shaped(q) ==
    /\ IsSeq(q)
    /\ \A i \in DOMAIN q :
        /\ GoodOp(q[i])
        /\ q[i].do = "open" => i + 1 \in DOMAIN q /\ FillsAt(q[i + 1], q[i].at)
        /\ q[i].do = "fill" /\ i > 1 => q[i - 1].do = "open"

\* The manifest of an OpenAPI provider is written when its spec is there, or right after it.
SpecFirst(q, d) ==
    \A i \in DOMAIN q, n \in Names :
        FillsAt(q[i], ManifestFile(n)) /\ Openapi(q[i].with) =>
            d[SpecFile(n)] # None \/ (i > 2 /\ FillsAt(q[i - 2], SpecFile(n)))

\* The paths that no command removes.
Stays == {SpecFile(n) : n \in Names} \cup {PrivateKey, PublicKey}
\* The paths whose contents are judged.
Judged == Stays \cup {ManifestFile(n) : n \in Names} \cup {Credentials}
\* What is about to be written was opened, and no one has removed it.
Opened(q, d) ==
    q # <<>> /\ q[1].do = "fill" /\ q[1].at \in Stays => d[q[1].at] # None

\* The halves of a pair: the public one is written right after the private one, and is the same.
PublicLater(q) == \E i \in DOMAIN q : FillsAt(q[i], PublicKey)
PairFirst(q) ==
    \A i \in DOMAIN q :
        /\ FillsAt(q[i], PrivateKey) => i + 2 \in DOMAIN q /\ FillsAt(q[i + 2], PublicKey)
        /\ FillsAt(q[i], PublicKey) =>
            /\ i \in 1..4
            /\ i > 2 => FillsAt(q[i - 2], PrivateKey) /\ q[i - 2].with = q[i].with
\* A public half that is next belongs to the private half on the disk.
PairThen(q, d) ==
    \A i \in DOMAIN q : FillsAt(q[i], PublicKey) /\ i < 3 => d[PrivateKey] = q[i].with

Stands(q, d) == Shaped(q) /\ SpecFirst(q, d) /\ Opened(q, d) /\ PairFirst(q)

\* A file that is being written, or that a killed process was to write.
Unfinished(path) == Writing(path) \/ path \in torn

\* The inductive invariant.  An empty file is being written or was to be written by a killed
\* process; an OpenAPI manifest has a spec beside it, written or not; and as long as no two
\* commands overlapped, halves of the key that differ are going to be made equal.
HomeInv ==
    /\ DOMAIN prog = Procs /\ DOMAIN cmd = Procs /\ alone \in BOOLEAN /\ torn \subseteq Paths
    /\ DOMAIN head = Urls /\ \A u \in Urls : head[u] \in 1..MaxVersion[u]
    /\ DiskOK(disk)
    /\ \A path \in Paths : disk[path] = Empty => Unfinished(path)
    /\ \A p \in Procs : Stands(prog[p], disk) /\ (PublicLater(prog[p]) => cmd[p].do = "init")
    /\ \A n \in Names : Openapi(disk[ManifestFile(n)]) => disk[SpecFile(n)] # None
    /\ alone =>
        /\ \A p, q \in Busy : p = q
        /\ \A p \in Procs : PairThen(prog[p], disk)
        /\ \/ disk[PrivateKey] = disk[PublicKey]
           \/ PublicKey \in torn
           \/ \E p \in Procs : PublicLater(prog[p])

\* Two processes between the open and the write of a judged file have crossed, and so have those
\* who wrote one that is a mixture.
Apart(path) == \A p \in Procs : Writes(p, path) =>
    disk[path] \in {None, Empty} /\ \A o \in Procs : Writes(o, path) => o = p
CrossInv ==
    /\ crossed \subseteq Paths /\ (alone => crossed = {})
    /\ \A path \in Judged \ crossed : Apart(path) /\ disk[path] # Mixed

-----------------------------------------------------------------------------
(* Sequences                                                                *)

\* Every set of naturals that is not empty has a least member.
LEMMA LeastOf ==
    ASSUME NEW T \in SUBSET Nat, T # {}
    PROVE  \E m \in T : \A n \in T : m <= n
<1> DEFINE R == {p \in Nat \X Nat : p[1] < p[2]}
<1>1. IsWellFoundedOn(R, Nat)
  BY NatLessThanWellFounded DEF OpToRel
<1>2. \E m \in T : \A n \in T : ~(<<n, m>> \in R)
  <2> HIDE DEF R
  <2> QED
    BY <1>1, WFMin
<1>3. PICK m \in T : \A n \in T : ~(<<n, m>> \in R)
  BY <1>2
<1>4. ASSUME NEW n \in T PROVE m <= n
  <2>1. <<n, m>> \in R <=> n < m
    OBVIOUS
  <2> QED
    BY <1>3, <2>1
<1> QED
  BY <1>4

\* Induction on the naturals, for a set.
LEMMA AllNaturals ==
    ASSUME NEW S, 0 \in S, \A k \in Nat : k \in S => k + 1 \in S
    PROVE  \A k \in Nat : k \in S
<1> DEFINE T == {k \in Nat : k \notin S}
<1> SUFFICES ASSUME T # {} PROVE FALSE
  OBVIOUS
<1>1. PICK m \in T : \A n \in T : m <= n
  BY LeastOf
<1>2. m \in Nat /\ m # 0
  OBVIOUS
<1>3. m - 1 \in Nat /\ m - 1 \in S
  BY <1>1, <1>2
<1> QED
  BY <1>2, <1>3

\* f is defined on 0..n by recursion: from base, by g.
Recurses(f, X, base, n, g) ==
    /\ f \in [0..n -> X] /\ f[0] = base
    /\ \A i \in 1..n : f[i] = g[<<i, f[i - 1]>>]

\* A function that is defined by recursion on 0..n exists.
LEMMA Recursion ==
    ASSUME NEW X, NEW base \in X, NEW n \in Nat, NEW g \in [(1..n) \X X -> X]
    PROVE  \E f : Recurses(f, X, base, n, g)
<1> USE DEF Recurses
<1> DEFINE Upto(k) == \E f \in [0..k -> X] :
                        f[0] = base /\ \A i \in 1..k : f[i] = g[<<i, f[i - 1]>>]
           S == {k \in Nat : k <= n => Upto(k)}
<1>1. Upto(0)
  <2> WITNESS [i \in 0..0 |-> base] \in [0..0 -> X]
  <2> QED
    OBVIOUS
<1>2. ASSUME NEW k \in Nat, k + 1 <= n, Upto(k) PROVE Upto(k + 1)
  <2>1. PICK f \in [0..k -> X] : f[0] = base /\ \A i \in 1..k : f[i] = g[<<i, f[i - 1]>>]
    BY <1>2
  <2> DEFINE h == [i \in 0..(k + 1) |-> IF i = k + 1 THEN g[<<k + 1, f[k]>>] ELSE f[i]]
  <2>2. g[<<k + 1, f[k]>>] \in X
    <3>1. k + 1 \in 1..n /\ f[k] \in X
      BY <1>2
    <3> QED
      BY <3>1
  <2>3. h \in [0..(k + 1) -> X]
    BY <2>2
  <2>4. h[0] = base
    BY <2>1
  <2>5. ASSUME NEW i \in 1..(k + 1) PROVE h[i] = g[<<i, h[i - 1]>>]
    <3>1. h[i - 1] = f[i - 1]
      OBVIOUS
    <3>2. CASE i = k + 1
      <4>1. i - 1 = k /\ h[i] = g[<<k + 1, f[k]>>]
        BY <3>2
      <4> QED
        BY <3>1, <3>2, <4>1
    <3>3. CASE i # k + 1
      BY <2>1, <3>1, <3>3
    <3> QED
      BY <3>2, <3>3
  <2> QED
    BY <2>3, <2>4, <2>5
<1> HIDE DEF Upto
<1>3. 0 \in S /\ \A k \in Nat : k \in S => k + 1 \in S
  BY <1>1, <1>2
<1>4. n \in S
  <2> HIDE DEF S
  <2> QED
    BY <1>3, AllNaturals
<1> QED
  BY <1>4 DEF Upto

LEMMA SeqIs ==
    ASSUME NEW q, IsSeq(q)
    PROVE  Len(q) \in Nat /\ DOMAIN q = 1..Len(q) /\ (q = <<>> <=> Len(q) = 0)
  BY DEF IsSeq

LEMMA IsSeqIntro ==
    ASSUME NEW S, NEW q \in Seq(S)
    PROVE  IsSeq(q)
<1>1. \A i \in DOMAIN q : q[i] \in {q[j] : j \in DOMAIN q}
  OBVIOUS
<1>2. DOMAIN q = 1..Len(q) /\ Len(q) \in Nat
  OBVIOUS
<1> QED
  BY <1>1, <1>2 DEF IsSeq

LEMMA TailIs ==
    ASSUME NEW q, IsSeq(q), q # <<>>
    PROVE  /\ IsSeq(Tail(q)) /\ Len(Tail(q)) = Len(q) - 1 /\ Head(q) = q[1] /\ 1 \in DOMAIN q
           /\ \A i \in 1..(Len(q) - 1) : Tail(q)[i] = q[i + 1]
<1> DEFINE S == {q[i] : i \in DOMAIN q}
<1>1. q \in Seq(S)
  BY DEF IsSeq
<1> HIDE DEF S
<1>2. /\ Tail(q) \in Seq(S) /\ Len(Tail(q)) = Len(q) - 1 /\ Head(q) = q[1] /\ 1 \in DOMAIN q
      /\ \A i \in 1..(Len(q) - 1) : Tail(q)[i] = q[i + 1]
  BY <1>1
<1> QED
  BY <1>2, IsSeqIntro

LEMMA ConcatIs ==
    ASSUME NEW a, NEW b, IsSeq(a), IsSeq(b)
    PROVE  /\ IsSeq(a \o b) /\ Len(a \o b) = Len(a) + Len(b)
           /\ \A i \in 1..Len(a) : (a \o b)[i] = a[i]
           /\ \A i \in (Len(a) + 1)..(Len(a) + Len(b)) : (a \o b)[i] = b[i - Len(a)]
<1> DEFINE S == {a[i] : i \in DOMAIN a} \cup {b[i] : i \in DOMAIN b}
<1>1. a \in Seq(S) /\ b \in Seq(S)
  BY DEF IsSeq
<1> HIDE DEF S
<1>2. /\ a \o b \in Seq(S) /\ Len(a \o b) = Len(a) + Len(b)
      /\ \A i \in 1..Len(a) : (a \o b)[i] = a[i]
      /\ \A i \in (Len(a) + 1)..(Len(a) + Len(b)) : (a \o b)[i] = b[i - Len(a)]
  BY <1>1
<1> QED
  BY <1>2, IsSeqIntro

LEMMA SuffixIs ==
    ASSUME NEW q, IsSeq(q), NEW e \in DOMAIN q
    PROVE  /\ IsSeq(SubSeq(q, e + 1, Len(q))) /\ Len(SubSeq(q, e + 1, Len(q))) = Len(q) - e
           /\ \A i \in 1..(Len(q) - e) : SubSeq(q, e + 1, Len(q))[i] = q[i + e]
<1> DEFINE S == {q[i] : i \in DOMAIN q}
           t == SubSeq(q, e + 1, Len(q))
<1>1. q \in Seq(S)
  BY DEF IsSeq
<1> HIDE DEF S
<1>2. e \in 1..Len(q) /\ Len(q) \in Nat
  BY <1>1
<1>3. /\ t \in Seq(S)
      /\ Len(t) = IF e + 1 <= Len(q) THEN Len(q) - (e + 1) + 1 ELSE 0
      /\ \A i \in 1..(Len(q) - (e + 1) + 1) : t[i] = q[(e + 1) + i - 1]
  <2>1. e + 1 \in Int /\ Len(q) \in Int /\ \A i \in (e + 1)..Len(q) : q[i] \in S
    BY <1>1, <1>2
  <2> QED
    BY <2>1, SubSeqProperties
<1>4. Len(t) = Len(q) - e
  BY <1>2, <1>3
<1>5. \A i \in 1..(Len(q) - e) : (e + 1) + i - 1 = i + e /\ i \in 1..(Len(q) - (e + 1) + 1)
  BY <1>2
<1>6. \A i \in 1..(Len(q) - e) : t[i] = q[i + e]
  BY <1>3, <1>5
<1> QED
  BY <1>3, <1>4, <1>6, IsSeqIntro

LEMMA RestOf ==
    ASSUME NEW q, IsSeq(q), q # <<>>
    PROVE  /\ IsSeq(Tail(q)) /\ Len(q) \in Nat /\ DOMAIN q = 1..Len(q) /\ 1 \in DOMAIN q
           /\ Len(Tail(q)) = Len(q) - 1 /\ DOMAIN Tail(q) = 1..(Len(q) - 1)
           /\ \A i \in DOMAIN Tail(q) : i \in Nat /\ i >= 1 /\ i + 1 \in DOMAIN q /\ Tail(q)[i] = q[i + 1]
           /\ \A i \in DOMAIN q : i # 1 => i - 1 \in DOMAIN Tail(q) /\ Tail(q)[i - 1] = q[i]
<1> DEFINE t == Tail(q)
<1>1. Len(q) \in Nat /\ DOMAIN q = 1..Len(q) /\ 1 \in DOMAIN q
  BY SeqIs, TailIs
<1>2. IsSeq(t) /\ Len(t) = Len(q) - 1 /\ \A i \in 1..(Len(q) - 1) : t[i] = q[i + 1]
  BY TailIs
<1>3. DOMAIN t = 1..(Len(q) - 1)
  BY <1>2, SeqIs
<1> HIDE DEF t
<1>4. \A i \in DOMAIN t : i \in Nat /\ i >= 1 /\ i + 1 \in DOMAIN q /\ t[i] = q[i + 1]
  BY <1>1, <1>2, <1>3
<1>5. ASSUME NEW i \in DOMAIN q, i # 1 PROVE i - 1 \in DOMAIN t /\ t[i - 1] = q[i]
  <2>1. i - 1 \in DOMAIN t /\ (i - 1) + 1 = i
    BY <1>1, <1>3, <1>5
  <2> QED
    BY <1>4, <2>1
<1> QED
  BY <1>1, <1>2, <1>3, <1>4, <1>5 DEF t

LEMMA JoinedIs ==
    ASSUME NEW a, NEW b, IsSeq(a), IsSeq(b)
    PROVE  /\ DOMAIN a = 1..Len(a) /\ DOMAIN b = 1..Len(b) /\ Len(a) \in Nat /\ Len(b) \in Nat
           /\ IsSeq(a \o b) /\ DOMAIN (a \o b) = 1..(Len(a) + Len(b))
           /\ \A i \in DOMAIN a : i \in DOMAIN (a \o b) /\ (a \o b)[i] = a[i]
           /\ \A i \in DOMAIN b : Len(a) + i \in DOMAIN (a \o b) /\ (a \o b)[Len(a) + i] = b[i]
           /\ \A i \in DOMAIN (a \o b) : i \notin DOMAIN a => i - Len(a) \in DOMAIN b /\ (a \o b)[i] = b[i - Len(a)]
<1> DEFINE q == a \o b
<1>1. DOMAIN a = 1..Len(a) /\ DOMAIN b = 1..Len(b) /\ Len(a) \in Nat /\ Len(b) \in Nat
  BY SeqIs
<1>2. /\ IsSeq(q) /\ Len(q) = Len(a) + Len(b) /\ \A i \in 1..Len(a) : q[i] = a[i]
      /\ \A i \in (Len(a) + 1)..(Len(a) + Len(b)) : q[i] = b[i - Len(a)]
  BY ConcatIs
<1>3. DOMAIN q = 1..(Len(a) + Len(b))
  BY <1>2, SeqIs
<1> HIDE DEF q
<1>4. \A i \in DOMAIN a : i \in DOMAIN q /\ q[i] = a[i]
  BY <1>1, <1>2, <1>3
<1>5. ASSUME NEW i \in DOMAIN b PROVE Len(a) + i \in DOMAIN q /\ q[Len(a) + i] = b[i]
  <2>1. Len(a) + i \in (Len(a) + 1)..(Len(a) + Len(b)) /\ (Len(a) + i) - Len(a) = i /\ Len(a) + i \in DOMAIN q
    BY <1>1, <1>3
  <2> QED
    BY <1>2, <2>1
<1>6. ASSUME NEW i \in DOMAIN q, i \notin DOMAIN a PROVE i - Len(a) \in DOMAIN b /\ q[i] = b[i - Len(a)]
  <2>1. i \in (Len(a) + 1)..(Len(a) + Len(b)) /\ i - Len(a) \in DOMAIN b
    BY <1>1, <1>3, <1>6
  <2> QED
    BY <1>2, <2>1
<1> QED
  BY <1>1, <1>2, <1>3, <1>4, <1>5, <1>6 DEF q

\* What a sequence holds.
Holds(q) == {q[i] : i \in DOMAIN q}
LEMMA JoinedHas ==
    ASSUME NEW T, NEW a \in Seq(T), NEW b \in Seq(T)
    PROVE  a \o b \in Seq(T) /\ Holds(a) \subseteq Holds(a \o b) /\ Holds(b) \subseteq Holds(a \o b)
<1> DEFINE r == a \o b
<1>1. IsSeq(a) /\ IsSeq(b) /\ r \in Seq(T)
  BY IsSeqIntro
<1>2. /\ \A i \in DOMAIN a : i \in DOMAIN r /\ r[i] = a[i]
      /\ \A j \in DOMAIN b : Len(a) + j \in DOMAIN r /\ r[Len(a) + j] = b[j]
  BY <1>1, JoinedIs
<1> HIDE DEF r
<1>3. Holds(a) \subseteq Holds(r) /\ Holds(b) \subseteq Holds(r)
  BY <1>2 DEF Holds
<1> QED
  BY <1>1, <1>3 DEF r

LEMMA OneIs ==
    ASSUME NEW op
    PROVE  IsSeq(<<op>>) /\ Len(<<op>>) = 1 /\ DOMAIN <<op>> = {1} /\ <<op>>[1] = op
  BY DEF IsSeq

LEMMA NoneIs == IsSeq(<<>>) /\ Len(<<>>) = 0 /\ DOMAIN <<>> = {}
  BY DEF IsSeq

-----------------------------------------------------------------------------
(* Programs                                                                 *)

LEMMA PathsDiffer ==
    /\ \A n, m : /\ ManifestFile(n) # SpecFile(m) /\ ManifestFile(n) # CacheFile(m)
                 /\ ManifestFile(n) # SkillToml(m) /\ ManifestFile(n) # BundledProvider(m)
                 /\ SpecFile(n) # CacheFile(m) /\ ManifestFile(n) # SkillDir(m)
                 /\ SpecFile(n) # SkillDir(m)
    /\ \A n, m : (ManifestFile(n) = ManifestFile(m) => n = m) /\ (SpecFile(n) = SpecFile(m) => n = m)
    /\ \A n : ManifestFile(n) \notin TopFiles /\ SpecFile(n) \notin TopFiles
              /\ CacheFile(n) \notin TopFiles /\ SkillDir(n) \notin TopFiles
    /\ \A s, n : \A f \in FilesOf(s) : f # ManifestFile(n) /\ f # SpecFile(n) /\ f \notin TopFiles
    /\ Credentials \notin {Config, PrivateKey, PublicKey} /\ PrivateKey # PublicKey
    /\ Config \notin {PrivateKey, PublicKey}
  BY DEF ManifestFile, SpecFile, CacheFile, SkillToml, BundledProvider, SkillDir, SkillMd, FilesOf,
         TopFiles, Config, PrivateKey, PublicKey, Credentials

\* What a step leaves to do: whole writes, of no key and no manifest of a spec.
Harmless(op) ==
    /\ GoodOp(op)
    /\ op.do = "fill" => /\ op.at \notin {PrivateKey, PublicKey}
                         /\ \A n \in Names : op.at = ManifestFile(n) => ~Openapi(op.with)
Piece(q) ==
    /\ Shaped(q)
    /\ \A i \in DOMAIN q : Harmless(q[i])
    /\ q # <<>> => q[1].do # "fill"

\* A piece stands on any disk.
LEMMA PieceStands ==
    ASSUME NEW q, Piece(q), NEW d
    PROVE  Stands(q, d) /\ ~PublicLater(q) /\ PairThen(q, d)
  BY DEF Piece, Stands, SpecFirst, Opened, PairFirst, PublicLater, PairThen, Harmless, FillsAt

LEMMA PieceNone == Piece(<<>>)
  BY NoneIs DEF Piece, Shaped

LEMMA PieceOne ==
    ASSUME NEW op, GoodOp(op), op.do \notin {"open", "fill"}
    PROVE  Piece(<<op>>)
<1>1. \A i \in DOMAIN <<op>> : <<op>>[i] = op
  BY OneIs
<1> QED
  BY <1>1, OneIs DEF Piece, Shaped, Harmless

LEMMA PieceTwo ==
    ASSUME NEW a, NEW b, GoodOp(a), GoodOp(b), a.do \notin {"open", "fill"}, b.do \notin {"open", "fill"}
    PROVE  Piece(<<a, b>>) /\ <<a, b>> \in Seq({a, b})
<1>1. /\ <<a, b>> \in Seq({a, b}) /\ DOMAIN <<a, b>> = {1, 2} /\ <<a, b>>[1] = a
      /\ <<a, b>>[2] = b /\ <<a, b>> # <<>>
  OBVIOUS
<1>2. IsSeq(<<a, b>>)
  BY <1>1, IsSeqIntro
<1>3. Shaped(<<a, b>>)
  BY <1>1, <1>2 DEF Shaped
<1> QED
  BY <1>1, <1>3 DEF Piece, Harmless

\* One whole write is a piece.
LEMMA PieceWrite ==
    ASSUME NEW path \in Paths, NEW w, TextFor(path, w), path \notin {PrivateKey, PublicKey},
           \A n \in Names : path = ManifestFile(n) => ~Openapi(w)
    PROVE  Piece(Write(path, w))
<1> DEFINE a == Op("open", path, NoData)
           b == Op("fill", path, w)
<1>1. a.do = "open" /\ a.at = path /\ b.do = "fill" /\ b.at = path /\ b.with = w
  BY DEF Op
<1>2. Write(path, w) = <<a, b>>
  BY DEF Write
<1> HIDE DEF a, b
<1>3. GoodOp(a) /\ GoodOp(b)
  BY <1>1 DEF GoodOp
<1>4. /\ <<a, b>> \in Seq({a, b}) /\ DOMAIN <<a, b>> = {1, 2} /\ <<a, b>>[1] = a
      /\ <<a, b>>[2] = b /\ <<a, b>> # <<>>
  OBVIOUS
<1>5. IsSeq(<<a, b>>)
  BY <1>4, IsSeqIntro
<1>6. Shaped(<<a, b>>)
  BY <1>1, <1>3, <1>4, <1>5 DEF Shaped, FillsAt
<1>7. Harmless(a) /\ Harmless(b)
  BY <1>1, <1>3 DEF Harmless
<1> QED
  BY <1>1, <1>2, <1>4, <1>6, <1>7 DEF Piece

\* Programs one after the other, the second of which begins with no half of a write.
LEMMA ShapedConcat ==
    ASSUME NEW a, NEW b, Shaped(a), Shaped(b), b # <<>> => b[1].do # "fill"
    PROVE  Shaped(a \o b)
<1> DEFINE c == a \o b
<1>1. IsSeq(a) /\ IsSeq(b)
  BY DEF Shaped
<1>2. /\ Len(a) \in Nat /\ Len(b) \in Nat /\ DOMAIN a = 1..Len(a) /\ DOMAIN b = 1..Len(b)
      /\ (b = <<>> <=> Len(b) = 0)
  BY <1>1, SeqIs
<1>3. /\ IsSeq(c) /\ Len(c) = Len(a) + Len(b)
      /\ \A i \in 1..Len(a) : c[i] = a[i]
      /\ \A i \in (Len(a) + 1)..(Len(a) + Len(b)) : c[i] = b[i - Len(a)]
  BY <1>1, ConcatIs
<1>4. DOMAIN c = 1..(Len(a) + Len(b))
  BY <1>3, SeqIs
<1> HIDE DEF c
<1>5. ASSUME NEW i \in DOMAIN c
      PROVE  /\ GoodOp(c[i])
             /\ c[i].do = "open" => i + 1 \in DOMAIN c /\ FillsAt(c[i + 1], c[i].at)
             /\ c[i].do = "fill" /\ i > 1 => c[i - 1].do = "open"
  <2>1. CASE i \in 1..Len(a)
    <3>1. c[i] = a[i] /\ i \in DOMAIN a
      BY <1>2, <1>3, <2>1
    <3>2. a[i].do = "open" => i + 1 \in DOMAIN a /\ FillsAt(a[i + 1], a[i].at)
      BY <3>1 DEF Shaped
    <3>3. i + 1 \in DOMAIN a => i + 1 \in DOMAIN c /\ c[i + 1] = a[i + 1]
      BY <1>2, <1>3, <1>4
    <3>4. i > 1 => c[i - 1] = a[i - 1]
      BY <1>2, <1>3, <2>1
    <3> QED
      BY <3>1, <3>2, <3>3, <3>4 DEF Shaped
  <2>2. CASE i \in (Len(a) + 1)..(Len(a) + Len(b))
    <3> DEFINE j == i - Len(a)
    <3>1. j \in DOMAIN b /\ c[i] = b[j] /\ i \in Nat /\ j \in Nat /\ j >= 1
      BY <1>2, <1>3, <2>2
    <3>2. b[j].do = "open" => j + 1 \in DOMAIN b /\ FillsAt(b[j + 1], b[j].at)
      BY <3>1 DEF Shaped
    <3>3. j + 1 \in DOMAIN b => i + 1 \in DOMAIN c /\ c[i + 1] = b[j + 1]
      <4>1. ASSUME j + 1 \in DOMAIN b
            PROVE  i + 1 \in (Len(a) + 1)..(Len(a) + Len(b)) /\ (i + 1) - Len(a) = j + 1
        BY <1>2, <3>1, <4>1
      <4> QED
        BY <1>2, <1>3, <1>4, <4>1
    <3>4. j > 1 => c[i - 1] = b[j - 1]
      <4>1. ASSUME j > 1
            PROVE  i - 1 \in (Len(a) + 1)..(Len(a) + Len(b)) /\ (i - 1) - Len(a) = j - 1
        BY <1>2, <2>2, <4>1
      <4> QED
        BY <1>3, <4>1
    <3>5. j = 1 => b[j].do # "fill"
      <4>1. b # <<>>
        BY <1>2, <2>2
      <4> QED
        BY <4>1
    <3>6. b[j].do = "fill" => j > 1
      BY <3>1, <3>5
    <3>7. GoodOp(b[j]) /\ (b[j].do = "fill" /\ j > 1 => b[j - 1].do = "open")
      BY <3>1 DEF Shaped
    <3> HIDE DEF j
    <3> QED
      BY <3>1, <3>2, <3>3, <3>4, <3>6, <3>7
  <2> QED
    BY <1>2, <1>4, <2>1, <2>2
<1>6. Shaped(c)
  BY <1>3, <1>5 DEF Shaped
<1> QED
  BY <1>6 DEF c

LEMMA PieceConcat ==
    ASSUME NEW a, NEW b, Piece(a), Piece(b)
    PROVE  Piece(a \o b)
<1>1. Shaped(a) /\ Shaped(b) /\ IsSeq(a) /\ IsSeq(b)
  BY DEF Piece, Shaped
<1>2. Shaped(a \o b)
  BY <1>1, ShapedConcat DEF Piece
<1>3. /\ Len(a) \in Nat /\ Len(b) \in Nat /\ DOMAIN a = 1..Len(a) /\ DOMAIN b = 1..Len(b)
      /\ (b = <<>> <=> Len(b) = 0) /\ (a = <<>> <=> Len(a) = 0)
  BY <1>1, SeqIs
<1> DEFINE c == a \o b
<1>4. /\ IsSeq(c) /\ Len(c) = Len(a) + Len(b)
      /\ \A i \in 1..Len(a) : c[i] = a[i]
      /\ \A i \in (Len(a) + 1)..(Len(a) + Len(b)) : c[i] = b[i - Len(a)]
  BY <1>1, ConcatIs
<1>5. DOMAIN c = 1..(Len(a) + Len(b)) /\ (c = <<>> <=> Len(c) = 0)
  BY <1>4, SeqIs
<1> HIDE DEF c
<1>6. ASSUME NEW i \in DOMAIN c PROVE Harmless(c[i])
  <2>1. CASE i \in 1..Len(a)
    BY <1>3, <1>4, <2>1 DEF Piece
  <2>2. CASE i \in (Len(a) + 1)..(Len(a) + Len(b))
    <3>1. i - Len(a) \in DOMAIN b /\ c[i] = b[i - Len(a)]
      BY <1>3, <1>4, <2>2
    <3> QED
      BY <3>1 DEF Piece
  <2> QED
    BY <1>3, <1>5, <2>1, <2>2
<1>7. ASSUME c # <<>> PROVE c[1].do # "fill"
  <2>1. CASE a = <<>>
    <3>1. 1 \in (Len(a) + 1)..(Len(a) + Len(b)) /\ 1 - Len(a) = 1 /\ b # <<>>
      BY <1>3, <1>4, <1>5, <1>7, <2>1
    <3>2. c[1] = b[1]
      BY <1>4, <3>1
    <3> QED
      BY <3>1, <3>2 DEF Piece
  <2>2. CASE a # <<>>
    <3>1. 1 \in 1..Len(a)
      BY <1>3, <2>2
    <3> QED
      BY <1>4, <2>2, <3>1 DEF Piece
  <2> QED
    BY <2>1, <2>2
<1>8. Shaped(c)
  BY <1>2 DEF c
<1>9. Piece(c)
  BY <1>6, <1>7, <1>8 DEF Piece
<1> QED
  BY <1>9 DEF c

\* What other operations carry along is a piece.
LEMMA PiecePlain ==
    ASSUME NEW q, Plain(q)
    PROVE  Piece(q)
<1>1. IsSeq(q) /\ \A i \in DOMAIN q : PlainOp(q[i])
  BY DEF Plain
<1>2. ASSUME NEW op, PlainOp(op)
      PROVE  GoodOp(op) /\ Harmless(op) /\ op.do \notin {"open", "fill"}
  BY <1>2 DEF PlainOp, GoodOp, Harmless
<1>3. Shaped(q)
  BY <1>1, <1>2 DEF Shaped
<1>4. q # <<>> => 1 \in DOMAIN q
  BY <1>1, SeqIs
<1> QED
  BY <1>1, <1>2, <1>3, <1>4 DEF Piece

-----------------------------------------------------------------------------
(* What stands when a step has been taken                                   *)

\* What stays, stays.
Kept(d, e) == \A path \in Stays : d[path] # None => e[path] # None

\* What stands still does when what stays is still there.
LEMMA KeptStands ==
    ASSUME NEW q, NEW d, NEW e, Stands(q, d), Kept(d, e)
    PROVE  Stands(q, e)
  BY DEF Stands, SpecFirst, Opened, Kept, Stays

\* What comes after an operation that neither opens nor writes.
LEMMA CutStands ==
    ASSUME NEW q, NEW d, NEW t, NEW k \in DOMAIN q,
           Shaped(q), SpecFirst(q, d), ~PublicLater(q), PairFirst(q), q[k].do \notin {"open", "fill"},
           IsSeq(t), Len(t) = Len(q) - k, \A i \in 1..(Len(q) - k) : t[i] = q[i + k]
    PROVE  Stands(t, d) /\ ~PublicLater(t) /\ (t # <<>> => t[1].do # "fill")
<1>1. Len(q) \in Nat /\ DOMAIN q = 1..Len(q) /\ DOMAIN t = 1..Len(t) /\ (t = <<>> <=> Len(t) = 0)
  BY SeqIs DEF Shaped
<1>2. k \in Nat /\ k >= 1 /\ Len(t) \in Nat
  BY <1>1
<1>3. ASSUME NEW i \in DOMAIN t
      PROVE  /\ i \in Nat /\ i >= 1 /\ i + k \in DOMAIN q /\ t[i] = q[i + k]
             /\ i + 1 \in DOMAIN t <=> (i + k) + 1 \in DOMAIN q
             /\ i + 1 \in DOMAIN t => t[i + 1] = q[(i + k) + 1]
             /\ i > 1 => i - 1 \in DOMAIN t /\ t[i - 1] = q[(i + k) - 1]
             /\ i > 2 => i - 2 \in DOMAIN t /\ t[i - 2] = q[(i + k) - 2]
  <2>1. i \in 1..(Len(q) - k)
    BY <1>1
  <2>2. i + k \in DOMAIN q /\ t[i] = q[i + k] /\ i \in Nat /\ i >= 1
    BY <1>1, <1>2, <2>1
  <2>3. i + 1 \in DOMAIN t <=> (i + k) + 1 \in DOMAIN q
    BY <1>1, <1>2, <2>1
  <2>4. ASSUME i + 1 \in DOMAIN t PROVE t[i + 1] = q[(i + k) + 1]
    <3>1. i + 1 \in 1..(Len(q) - k) /\ (i + 1) + k = (i + k) + 1
      BY <1>1, <1>2, <2>1, <2>4
    <3> QED
      BY <3>1
  <2>5. ASSUME i > 1 PROVE i - 1 \in DOMAIN t /\ t[i - 1] = q[(i + k) - 1]
    <3>1. i - 1 \in 1..(Len(q) - k) /\ (i - 1) + k = (i + k) - 1
      BY <1>1, <1>2, <2>1, <2>5
    <3> QED
      BY <1>1, <3>1
  <2>6. ASSUME i > 2 PROVE i - 2 \in DOMAIN t /\ t[i - 2] = q[(i + k) - 2]
    <3>1. i - 2 \in 1..(Len(q) - k) /\ (i - 2) + k = (i + k) - 2
      BY <1>1, <1>2, <2>1, <2>6
    <3> QED
      BY <1>1, <3>1
  <2> QED
    BY <2>2, <2>3, <2>4, <2>5, <2>6
<1>4. t # <<>> => t[1].do # "fill"
  <2> SUFFICES ASSUME t # <<>>, t[1].do = "fill" PROVE FALSE
    OBVIOUS
  <2>1. 1 \in DOMAIN t
    BY <1>1, <1>2
  <2>2. 1 + k \in DOMAIN q /\ q[1 + k].do = "fill" /\ 1 + k > 1 /\ (1 + k) - 1 = k
    BY <1>2, <1>3, <2>1
  <2> QED
    BY <2>2 DEF Shaped
<1>5. Shaped(t)
  <2>1. ASSUME NEW i \in DOMAIN t
        PROVE  /\ GoodOp(t[i])
               /\ t[i].do = "open" => i + 1 \in DOMAIN t /\ FillsAt(t[i + 1], t[i].at)
               /\ t[i].do = "fill" /\ i > 1 => t[i - 1].do = "open"
    <3>1. i + k \in DOMAIN q /\ t[i] = q[i + k] /\ i + k > 1
      BY <1>2, <1>3
    <3> QED
      BY <1>3, <3>1 DEF Shaped
  <2> QED
    BY <2>1 DEF Shaped
<1>6. SpecFirst(t, d)
  <2> SUFFICES ASSUME NEW i \in DOMAIN t, NEW n \in Names,
                      FillsAt(t[i], ManifestFile(n)), Openapi(t[i].with), d[SpecFile(n)] = None
               PROVE  i > 2 /\ FillsAt(t[i - 2], SpecFile(n))
    BY DEF SpecFirst
  <2>1. i + k > 2 /\ FillsAt(q[(i + k) - 2], SpecFile(n))
    BY <1>3 DEF SpecFirst
  <2>2. i # 1
    <3>1. t[i].do = "fill" /\ t # <<>>
      BY <1>1, <1>2 DEF FillsAt
    <3> QED
      BY <1>4, <3>1
  <2>3. i # 2
    <3>1. i = 2 => (i + k) - 2 = k
      BY <1>2
    <3> QED
      BY <2>1, <3>1 DEF FillsAt
  <2>4. i > 2
    BY <1>3, <2>2, <2>3
  <2> QED
    BY <1>3, <2>1, <2>4
<1>7. ~PublicLater(t)
  BY <1>3 DEF PublicLater
<1>8. PairFirst(t)
  <2> SUFFICES ASSUME NEW i \in DOMAIN t PROVE ~FillsAt(t[i], PrivateKey)
    BY <1>7 DEF PairFirst, PublicLater
  <2> SUFFICES ASSUME FillsAt(q[i + k], PrivateKey) PROVE FALSE
    BY <1>3
  <2>1. i + k \in DOMAIN q
    BY <1>3
  <2> QED
    BY <2>1 DEF PairFirst, PublicLater
<1> QED
  BY <1>4, <1>5, <1>6, <1>7, <1>8 DEF Stands, Opened

\* What an operation leaves to do, before the rest of the program.
LEMMA ConcatStands ==
    ASSUME NEW a, NEW b, NEW d, Piece(a), Stands(b, d), ~PublicLater(b), b # <<>> => b[1].do # "fill"
    PROVE  Stands(a \o b, d) /\ ~PublicLater(a \o b) /\ (a \o b # <<>> => (a \o b)[1].do # "fill")
<1> DEFINE c == a \o b
<1>1. Shaped(a) /\ Shaped(b) /\ IsSeq(a) /\ IsSeq(b)
  BY DEF Piece, Shaped, Stands
<1>2. Shaped(c)
  BY <1>1, ShapedConcat
<1>3. /\ Len(a) \in Nat /\ Len(b) \in Nat /\ DOMAIN a = 1..Len(a) /\ DOMAIN b = 1..Len(b)
      /\ (b = <<>> <=> Len(b) = 0) /\ (a = <<>> <=> Len(a) = 0)
  BY <1>1, SeqIs
<1>4. /\ IsSeq(c) /\ Len(c) = Len(a) + Len(b)
      /\ \A i \in 1..Len(a) : c[i] = a[i]
      /\ \A i \in (Len(a) + 1)..(Len(a) + Len(b)) : c[i] = b[i - Len(a)]
  BY <1>1, ConcatIs
<1>5. DOMAIN c = 1..(Len(a) + Len(b)) /\ (c = <<>> <=> Len(c) = 0)
  BY <1>4, SeqIs
<1> HIDE DEF c
<1>6. ASSUME NEW i \in DOMAIN c
      PROVE  \/ i \in DOMAIN a /\ c[i] = a[i]
             \/ i - Len(a) \in DOMAIN b /\ c[i] = b[i - Len(a)]
                /\ (i - Len(a) > 2 => i > 2 /\ c[i - 2] = b[(i - Len(a)) - 2])
  <2>1. CASE i \in 1..Len(a)
    BY <1>3, <1>4, <2>1
  <2>2. CASE i \in (Len(a) + 1)..(Len(a) + Len(b))
    <3>1. i - Len(a) \in DOMAIN b /\ c[i] = b[i - Len(a)]
      BY <1>3, <1>4, <2>2
    <3>2. i - Len(a) > 2 => /\ i > 2 /\ i - 2 \in (Len(a) + 1)..(Len(a) + Len(b))
                            /\ (i - 2) - Len(a) = (i - Len(a)) - 2
      BY <1>3, <2>2
    <3> QED
      BY <1>4, <3>1, <3>2
  <2> QED
    BY <1>3, <1>5, <2>1, <2>2
<1>7. \A i \in DOMAIN a :
        /\ ~FillsAt(a[i], PublicKey) /\ ~FillsAt(a[i], PrivateKey)
        /\ \A n \in Names : ~(FillsAt(a[i], ManifestFile(n)) /\ Openapi(a[i].with))
  BY DEF Piece, Harmless, FillsAt
<1>8. \A i \in DOMAIN b : ~FillsAt(b[i], PrivateKey) /\ ~FillsAt(b[i], PublicKey)
  BY DEF Stands, PairFirst, PublicLater
<1>9. \A i \in DOMAIN c : ~FillsAt(c[i], PrivateKey) /\ ~FillsAt(c[i], PublicKey)
  <2> TAKE i \in DOMAIN c
  <2>1. CASE i \in DOMAIN a /\ c[i] = a[i]
    BY <1>7, <2>1
  <2>2. CASE i - Len(a) \in DOMAIN b /\ c[i] = b[i - Len(a)]
    BY <1>8, <2>2
  <2> QED
    BY <1>6, <2>1, <2>2
<1>10. SpecFirst(c, d)
  <2> SUFFICES ASSUME NEW i \in DOMAIN c, NEW n \in Names,
                      FillsAt(c[i], ManifestFile(n)), Openapi(c[i].with), d[SpecFile(n)] = None
               PROVE  i > 2 /\ FillsAt(c[i - 2], SpecFile(n))
    BY DEF SpecFirst
  <2>1. /\ i - Len(a) \in DOMAIN b /\ c[i] = b[i - Len(a)]
        /\ i - Len(a) > 2 => i > 2 /\ c[i - 2] = b[(i - Len(a)) - 2]
    BY <1>6, <1>7
  <2>2. SpecFirst(b, d)
    BY DEF Stands
  <2>3. i - Len(a) > 2 /\ FillsAt(b[(i - Len(a)) - 2], SpecFile(n))
    BY <2>1, <2>2 DEF SpecFirst
  <2> QED
    BY <2>1, <2>3
<1>11. c # <<>> => c[1].do # "fill"
  <2> SUFFICES ASSUME c # <<>> PROVE c[1].do # "fill"
    OBVIOUS
  <2>1. CASE a = <<>>
    <3>1. 1 \in (Len(a) + 1)..(Len(a) + Len(b)) /\ 1 - Len(a) = 1 /\ b # <<>>
      BY <1>3, <1>4, <1>5, <2>1
    <3> QED
      BY <1>4, <3>1
  <2>2. CASE a # <<>>
    <3>1. 1 \in 1..Len(a)
      BY <1>3, <2>2
    <3> QED
      BY <1>4, <2>2, <3>1 DEF Piece
  <2> QED
    BY <2>1, <2>2
<1>12. Shaped(c)
  BY <1>2 DEF c
<1>13. Stands(c, d)
  BY <1>9, <1>10, <1>11, <1>12 DEF Stands, Opened, PairFirst
<1>14. ~PublicLater(c)
  BY <1>9 DEF PublicLater
<1> QED
  BY <1>11, <1>13, <1>14 DEF c

\* A step that neither opens nor writes: what it adds comes before the rest.
LEMMA QuietNext ==
    ASSUME NEW q, NEW d, NEW e, NEW t, Stands(q, d), q # <<>>, q[1].do \notin {"open", "fill"},
           Piece(t), Kept(d, e)
    PROVE  /\ Stands(t \o Tail(q), e) /\ ~PublicLater(t \o Tail(q)) /\ ~PublicLater(q)
           /\ t \o Tail(q) # <<>> => (t \o Tail(q))[1].do # "fill"
<1>1. IsSeq(q) /\ Shaped(q) /\ SpecFirst(q, e) /\ PairFirst(q)
  <2>1. Stands(q, e)
    BY KeptStands
  <2> QED
    BY <2>1 DEF Stands, Shaped
<1>2. Len(q) \in Nat /\ DOMAIN q = 1..Len(q) /\ 1 \in DOMAIN q
  BY <1>1, SeqIs, TailIs
<1>3. ~PublicLater(q)
  <2> SUFFICES ASSUME NEW i \in DOMAIN q, FillsAt(q[i], PublicKey) PROVE FALSE
    BY DEF PublicLater
  <2>1. i \in 1..4 /\ (i > 2 => FillsAt(q[i - 2], PrivateKey))
    BY <1>1 DEF PairFirst
  <2>2. i # 1
    BY DEF FillsAt
  <2>3. i # 2
    <3>1. i = 2 => q[1].do = "open"
      BY <1>1 DEF Shaped, FillsAt
    <3> QED
      BY <3>1
  <2>4. i # 3
    <3>1. i = 3 => q[1].do = "fill"
      BY <2>1 DEF FillsAt
    <3> QED
      BY <3>1
  <2>5. i # 4
    <3>1. i = 4 => 2 \in DOMAIN q /\ q[2].do = "fill"
      BY <1>2, <2>1 DEF FillsAt
    <3>2. 2 \in DOMAIN q /\ q[2].do = "fill" => q[1].do = "open"
      BY <1>1 DEF Shaped
    <3> QED
      BY <3>1, <3>2
  <2> QED
    BY <2>1, <2>2, <2>3, <2>4, <2>5
<1>4. /\ IsSeq(Tail(q)) /\ Len(Tail(q)) = Len(q) - 1
      /\ \A i \in 1..(Len(q) - 1) : Tail(q)[i] = q[i + 1]
  BY <1>1, TailIs
<1>5. Stands(Tail(q), e) /\ ~PublicLater(Tail(q)) /\ (Tail(q) # <<>> => Tail(q)[1].do # "fill")
  BY <1>1, <1>2, <1>3, <1>4, CutStands
<1> QED
  BY <1>3, <1>5, ConcatStands

\* What a failure leaves.
LEMMA FailureNext ==
    ASSUME NEW q, NEW d, Stands(q, d), q # <<>>, q[1].do # "fill",
           q[1].do = "open" => q[1].at \notin {PrivateKey, PublicKey}
    PROVE  LET t == AfterFailure(Tail(q))
           IN  Stands(t, d) /\ ~PublicLater(t) /\ ~PublicLater(q) /\ (t # <<>> => t[1].do # "fill")
<1> DEFINE r == Tail(q)
           t == AfterFailure(r)
<1>1. IsSeq(q) /\ Shaped(q) /\ SpecFirst(q, d) /\ PairFirst(q)
  BY DEF Stands, Shaped
<1>2. Len(q) \in Nat /\ DOMAIN q = 1..Len(q) /\ 1 \in DOMAIN q
  BY <1>1, SeqIs, TailIs
<1>3. ~PublicLater(q)
  <2> SUFFICES ASSUME NEW i \in DOMAIN q, FillsAt(q[i], PublicKey) PROVE FALSE
    BY DEF PublicLater
  <2>1. i \in 1..4 /\ (i > 2 => FillsAt(q[i - 2], PrivateKey))
    BY <1>1 DEF PairFirst
  <2>2. i # 1
    BY DEF FillsAt
  <2>3. i # 2
    <3>1. i = 2 => q[1].do = "open"
      BY <1>1 DEF Shaped, FillsAt
    <3>2. q[1].do = "open" => FillsAt(q[2], q[1].at)
      BY <1>1, <1>2 DEF Shaped
    <3> QED
      BY <3>1, <3>2 DEF FillsAt
  <2>4. i # 3
    <3>1. i = 3 => q[1].do = "fill"
      BY <2>1 DEF FillsAt
    <3> QED
      BY <3>1
  <2>5. i # 4
    <3>1. i = 4 => 2 \in DOMAIN q /\ FillsAt(q[2], PrivateKey)
      BY <1>2, <2>1 DEF FillsAt
    <3>2. 2 \in DOMAIN q /\ q[2].do = "fill" => q[1].do = "open"
      BY <1>1 DEF Shaped
    <3>3. q[1].do = "open" => FillsAt(q[2], q[1].at)
      BY <1>1, <1>2 DEF Shaped
    <3> QED
      BY <3>1, <3>2, <3>3 DEF FillsAt
  <2> QED
    BY <2>1, <2>2, <2>3, <2>4, <2>5
<1>4. /\ IsSeq(r) /\ Len(r) = Len(q) - 1
      /\ \A i \in 1..(Len(q) - 1) : r[i] = q[i + 1]
  BY <1>1, TailIs
<1>5. DOMAIN r = 1..(Len(q) - 1)
  BY <1>4, SeqIs
<1> HIDE DEF r
<1>6. CASE \A i \in DOMAIN r : r[i].do # "end"
  <2>1. t = <<>>
    BY <1>6 DEF AfterFailure
  <2> HIDE DEF t
  <2>2. Stands(t, d) /\ ~PublicLater(t) /\ t = <<>>
    BY <2>1, PieceNone, PieceStands
  <2> QED
    BY <1>3, <2>2 DEF t, r
<1>7. CASE ~\A i \in DOMAIN r : r[i].do # "end"
  <2> DEFINE E == {i \in DOMAIN r : r[i].do = "end"}
             first == CHOOSE i \in DOMAIN r :
                        r[i].do = "end" /\ \A j \in 1..(i - 1) : r[j].do # "end"
  <2>1. \E m \in E : \A n \in E : m <= n
    <3>1. E \in SUBSET Nat /\ E # {}
      BY <1>2, <1>5, <1>7
    <3> HIDE DEF E
    <3> QED
      BY <3>1, LeastOf
  <2>2. PICK m \in E : \A n \in E : m <= n
    BY <2>1
  <2>3. m \in DOMAIN r /\ r[m].do = "end" /\ \A j \in 1..(m - 1) : r[j].do # "end"
    <3>1. \A j \in 1..(m - 1) : j \in DOMAIN r /\ ~(m <= j)
      BY <1>2, <1>5, <2>2
    <3> QED
      BY <2>2, <3>1
  <2>4. first \in DOMAIN r /\ r[first].do = "end"
    BY <2>3
  <2>5. t = SubSeq(r, first + 1, Len(r))
    BY <1>7 DEF AfterFailure
  <2> HIDE DEF t, first, E
  <2>6. /\ IsSeq(t) /\ Len(t) = Len(r) - first
        /\ \A i \in 1..(Len(r) - first) : t[i] = r[i + first]
    BY <1>4, <2>4, <2>5, SuffixIs
  <2> DEFINE k == first + 1
  <2>7. first \in 1..(Len(q) - 1) /\ k \in DOMAIN q /\ Len(r) - first = Len(q) - k
    BY <1>2, <1>4, <1>5, <2>4
  <2>8. q[k].do \notin {"open", "fill"}
    BY <1>4, <2>4, <2>7
  <2>9. ASSUME NEW i \in 1..(Len(q) - k) PROVE t[i] = q[i + k]
    <3>1. i \in 1..(Len(r) - first) /\ i + first \in 1..(Len(q) - 1) /\ (i + first) + 1 = i + k
      BY <1>2, <2>7, <2>9
    <3>2. t[i] = r[i + first] /\ r[i + first] = q[(i + first) + 1]
      BY <1>4, <2>6, <3>1
    <3> QED
      BY <3>1, <3>2
  <2>10. Len(t) = Len(q) - k
    BY <2>6, <2>7
  <2> HIDE DEF k
  <2>11. Stands(t, d) /\ ~PublicLater(t) /\ (t # <<>> => t[1].do # "fill")
    BY <1>1, <1>3, <2>6, <2>7, <2>8, <2>9, <2>10, CutStands
  <2> QED
    BY <1>3, <2>11 DEF t, r
<1> QED
  BY <1>6, <1>7

\* The rest of a program whose first operation opens a file, or writes it.
LEMMA RestIs ==
    ASSUME NEW q, Shaped(q), q # <<>>, q[1].do \in {"open", "fill"}
    PROVE  /\ Shaped(Tail(q)) /\ Len(q) \in Nat /\ DOMAIN q = 1..Len(q) /\ 1 \in DOMAIN q
           /\ DOMAIN Tail(q) = 1..(Len(q) - 1)
           /\ (Tail(q) # <<>> => 1 \in DOMAIN Tail(q))
           /\ \A i \in DOMAIN Tail(q) : i + 1 \in DOMAIN q /\ Tail(q)[i] = q[i + 1] /\ i \in Nat /\ i >= 1
           /\ \A i \in DOMAIN Tail(q) : i > 2 => Tail(q)[i - 2] = q[(i + 1) - 2]
           /\ \A i \in DOMAIN Tail(q) : i + 3 \in DOMAIN q => i + 2 \in DOMAIN Tail(q) /\ Tail(q)[i + 2] = q[i + 3]
<1> DEFINE t == Tail(q)
<1>1. IsSeq(q)
  BY DEF Shaped
<1>2. Len(q) \in Nat /\ DOMAIN q = 1..Len(q) /\ 1 \in DOMAIN q
  BY <1>1, SeqIs, TailIs
<1>3. /\ IsSeq(t) /\ Len(t) = Len(q) - 1
      /\ \A i \in 1..(Len(q) - 1) : t[i] = q[i + 1]
  BY <1>1, TailIs
<1>4. DOMAIN t = 1..(Len(q) - 1) /\ (t = <<>> <=> Len(t) = 0)
  BY <1>3, SeqIs
<1> HIDE DEF t
<1>5. \A i \in DOMAIN t : i + 1 \in DOMAIN q /\ t[i] = q[i + 1] /\ i \in Nat /\ i >= 1
  BY <1>2, <1>3, <1>4
<1>6. ASSUME NEW i \in DOMAIN t
      PROVE  /\ i > 1 => t[i - 1] = q[(i + 1) - 1]
             /\ i > 2 => t[i - 2] = q[(i + 1) - 2]
             /\ i + 2 \in DOMAIN q => i + 1 \in DOMAIN t /\ t[i + 1] = q[(i + 1) + 1]
             /\ i + 3 \in DOMAIN q => i + 2 \in DOMAIN t /\ t[i + 2] = q[i + 3]
  <2>1. i > 1 => i - 1 \in 1..(Len(q) - 1) /\ (i - 1) + 1 = (i + 1) - 1
    BY <1>2, <1>4
  <2>2. i > 2 => i - 2 \in 1..(Len(q) - 1) /\ (i - 2) + 1 = (i + 1) - 2
    BY <1>2, <1>4
  <2>3. i + 2 \in DOMAIN q => i + 1 \in 1..(Len(q) - 1) /\ (i + 1) + 1 = (i + 1) + 1
    BY <1>2, <1>4
  <2>4. i + 3 \in DOMAIN q => i + 2 \in 1..(Len(q) - 1) /\ (i + 2) + 1 = i + 3
    BY <1>2, <1>4
  <2>5. i > 1 => t[i - 1] = q[(i + 1) - 1]
    BY <1>3, <2>1
  <2>6. i > 2 => t[i - 2] = q[(i + 1) - 2]
    BY <1>3, <2>2
  <2>7. i + 2 \in DOMAIN q => i + 1 \in DOMAIN t /\ t[i + 1] = q[(i + 1) + 1]
    BY <1>3, <1>4, <2>3
  <2>8. i + 3 \in DOMAIN q => i + 2 \in DOMAIN t /\ t[i + 2] = q[i + 3]
    BY <1>3, <1>4, <2>4
  <2> QED
    BY <2>5, <2>6, <2>7, <2>8
<1>7. Shaped(t)
  <2>1. ASSUME NEW i \in DOMAIN t
        PROVE  /\ GoodOp(t[i])
               /\ t[i].do = "open" => i + 1 \in DOMAIN t /\ FillsAt(t[i + 1], t[i].at)
               /\ t[i].do = "fill" /\ i > 1 => t[i - 1].do = "open"
    <3>1. i + 1 \in DOMAIN q /\ t[i] = q[i + 1] /\ i \in Nat /\ i >= 1
      BY <1>5
    <3>2. GoodOp(q[i + 1])
      BY <3>1 DEF Shaped
    <3>3. q[i + 1].do = "open" => (i + 1) + 1 \in DOMAIN q /\ FillsAt(q[(i + 1) + 1], q[i + 1].at)
      BY <3>1 DEF Shaped
    <3>4. (i + 1) + 1 = i + 2 /\ i + 1 > 1
      BY <3>1
    <3>5. q[i + 1].do = "fill" => q[(i + 1) - 1].do = "open"
      BY <3>1, <3>4 DEF Shaped
    <3> QED
      BY <1>6, <3>1, <3>2, <3>3, <3>4, <3>5
  <2> QED
    BY <1>3, <2>1 DEF Shaped
<1>8. t # <<>> => 1 \in DOMAIN t
  BY <1>2, <1>3, <1>4
<1> QED
  BY <1>2, <1>4, <1>5, <1>6, <1>7, <1>8 DEF t

\* An open is taken: its write is next.
LEMMA OpenNext ==
    ASSUME NEW q, NEW d, NEW e, Stands(q, d), q # <<>>, q[1].do = "open", Kept(d, e),
           e[q[1].at] # None, \A path \in {PrivateKey} \ {q[1].at} : e[path] = d[path]
    PROVE  /\ Stands(Tail(q), e) /\ (PublicLater(q) <=> PublicLater(Tail(q)))
           /\ q[1].at \in {PrivateKey, PublicKey} => PublicLater(Tail(q))
           /\ PairThen(q, d) => PairThen(Tail(q), e)
<1> DEFINE t == Tail(q)
<1>1. Shaped(q) /\ SpecFirst(q, e) /\ PairFirst(q)
  <2>1. Stands(q, e)
    BY KeptStands
  <2> QED
    BY <2>1 DEF Stands
<1>2. /\ Shaped(t) /\ Len(q) \in Nat /\ DOMAIN q = 1..Len(q) /\ 1 \in DOMAIN q
      /\ DOMAIN t = 1..(Len(q) - 1) /\ (t # <<>> => 1 \in DOMAIN t)
      /\ \A i \in DOMAIN t : i + 1 \in DOMAIN q /\ t[i] = q[i + 1] /\ i \in Nat /\ i >= 1
      /\ \A i \in DOMAIN t : i > 2 => t[i - 2] = q[(i + 1) - 2]
      /\ \A i \in DOMAIN t : i + 3 \in DOMAIN q => i + 2 \in DOMAIN t /\ t[i + 2] = q[i + 3]
  BY <1>1, RestIs
<1> HIDE DEF t
<1>3. 2 \in DOMAIN q /\ FillsAt(q[2], q[1].at) /\ 1 \in DOMAIN t /\ t[1] = q[2] /\ t # <<>>
  <2>1. 1 + 1 \in DOMAIN q /\ FillsAt(q[1 + 1], q[1].at)
    BY <1>1, <1>2 DEF Shaped
  <2>2. 1 \in DOMAIN t
    BY <1>2, <2>1
  <2> QED
    BY <1>2, <2>1, <2>2
<1>4. SpecFirst(t, e)
  <2> SUFFICES ASSUME NEW i \in DOMAIN t, NEW n \in Names,
                      FillsAt(t[i], ManifestFile(n)), Openapi(t[i].with), e[SpecFile(n)] = None
               PROVE  i > 2 /\ FillsAt(t[i - 2], SpecFile(n))
    BY DEF SpecFirst
  <2>1. i + 1 > 2 /\ FillsAt(q[(i + 1) - 2], SpecFile(n))
    BY <1>1, <1>2 DEF SpecFirst
  <2>2. i # 2
    <3>1. i = 2 => (i + 1) - 2 = 1
      OBVIOUS
    <3> QED
      BY <2>1, <3>1 DEF FillsAt
  <2>3. i > 2
    BY <1>2, <2>1, <2>2
  <2> QED
    BY <1>2, <2>1, <2>3
<1>5. Opened(t, e)
  BY <1>3 DEF Opened, FillsAt
<1>6. PairFirst(t)
  <2> SUFFICES ASSUME NEW i \in DOMAIN t
               PROVE  /\ FillsAt(t[i], PrivateKey) => i + 2 \in DOMAIN t /\ FillsAt(t[i + 2], PublicKey)
                      /\ FillsAt(t[i], PublicKey) =>
                          /\ i \in 1..4
                          /\ i > 2 => FillsAt(t[i - 2], PrivateKey) /\ t[i - 2].with = t[i].with
    BY DEF PairFirst
  <2>1. i + 1 \in DOMAIN q /\ t[i] = q[i + 1] /\ i \in Nat /\ i >= 1
    BY <1>2
  <2>2. (i + 1) + 2 = i + 3
    BY <2>1
  <2>3. FillsAt(q[i + 1], PrivateKey) => (i + 1) + 2 \in DOMAIN q /\ FillsAt(q[(i + 1) + 2], PublicKey)
    BY <1>1, <2>1 DEF PairFirst
  <2>4. FillsAt(q[i + 1], PublicKey) =>
          /\ i + 1 \in 1..4
          /\ i + 1 > 2 => FillsAt(q[(i + 1) - 2], PrivateKey) /\ q[(i + 1) - 2].with = q[i + 1].with
    BY <1>1, <2>1 DEF PairFirst
  <2>5. i > 2 => i + 1 > 2
    BY <2>1
  <2>6. i + 1 \in 1..4 => i \in 1..4
    BY <2>1
  <2>7. FillsAt(t[i], PrivateKey) => i + 2 \in DOMAIN t /\ FillsAt(t[i + 2], PublicKey)
    BY <1>2, <2>1, <2>2, <2>3
  <2>8. FillsAt(t[i], PublicKey) /\ i > 2 => FillsAt(t[i - 2], PrivateKey) /\ t[i - 2].with = t[i].with
    BY <1>2, <2>1, <2>4, <2>5
  <2> QED
    BY <2>1, <2>4, <2>6, <2>7, <2>8
<1>7. PublicLater(q) <=> PublicLater(t)
  <2>1. ASSUME NEW i \in DOMAIN q, FillsAt(q[i], PublicKey)
        PROVE  PublicLater(t)
    <3>1. i # 1
      BY <2>1 DEF FillsAt
    <3>2. i - 1 \in DOMAIN t /\ (i - 1) + 1 = i
      BY <1>2, <3>1
    <3> QED
      BY <1>2, <2>1, <3>2 DEF PublicLater
  <2> QED
    BY <1>2, <2>1 DEF PublicLater
<1>8. q[1].at \in {PrivateKey, PublicKey} => PublicLater(t)
  <2>1. CASE q[1].at = PublicKey
    BY <1>3, <2>1 DEF PublicLater
  <2>2. CASE q[1].at = PrivateKey
    <3>1. 2 + 2 \in DOMAIN q /\ FillsAt(q[2 + 2], PublicKey)
      BY <1>1, <1>3, <2>2 DEF PairFirst
    <3> QED
      BY <1>7, <3>1 DEF PublicLater
  <2> QED
    BY <2>1, <2>2
<1>9. ASSUME PairThen(q, d) PROVE PairThen(t, e)
  <2> SUFFICES ASSUME NEW i \in DOMAIN t, FillsAt(t[i], PublicKey), i < 3
               PROVE  e[PrivateKey] = t[i].with
    BY DEF PairThen
  <2>1. i + 1 \in DOMAIN q /\ t[i] = q[i + 1] /\ i \in Nat /\ i >= 1
    BY <1>2
  <2>2. CASE i = 1
    <3>1. d[PrivateKey] = t[i].with
      BY <1>9, <2>1, <2>2 DEF PairThen
    <3>2. q[1].at = PublicKey
      BY <1>3, <2>2 DEF FillsAt
    <3> QED
      BY <3>1, <3>2, PathsDiffer
  <2>3. CASE i = 2
    <3>1. FillsAt(q[(i + 1) - 2], PrivateKey)
      BY <1>1, <2>1, <2>3 DEF PairFirst
    <3> QED
      BY <2>3, <3>1 DEF FillsAt
  <2> QED
    BY <2>1, <2>2, <2>3
<1> QED
  BY <1>2, <1>4, <1>5, <1>6, <1>7, <1>8, <1>9 DEF Stands, t

\* A write is taken: the spec, or the private half, is there for what comes after.
LEMMA FillNext ==
    ASSUME NEW q, NEW d, NEW e, Stands(q, d), q # <<>>, q[1].do = "fill", Kept(d, e),
           NEW whole, whole /\ d[q[1].at] # None => e[q[1].at] = q[1].with
    PROVE  /\ Stands(Tail(q), e) /\ (PublicLater(Tail(q)) => PublicLater(q))
           /\ (PublicLater(q) /\ q[1].at # PublicKey => PublicLater(Tail(q)))
           /\ whole => PairThen(Tail(q), e)
           /\ Tail(q) # <<>> => Tail(q)[1].do # "fill"
           /\ q[1].at = PrivateKey => PublicLater(Tail(q))
<1> DEFINE t == Tail(q)
<1>1. Shaped(q) /\ SpecFirst(q, e) /\ PairFirst(q) /\ Opened(q, d)
  <2>1. Stands(q, e)
    BY KeptStands
  <2> QED
    BY <2>1 DEF Stands
<1>2. /\ Shaped(t) /\ Len(q) \in Nat /\ DOMAIN q = 1..Len(q) /\ 1 \in DOMAIN q
      /\ DOMAIN t = 1..(Len(q) - 1) /\ (t # <<>> => 1 \in DOMAIN t)
      /\ \A i \in DOMAIN t : i + 1 \in DOMAIN q /\ t[i] = q[i + 1] /\ i \in Nat /\ i >= 1
      /\ \A i \in DOMAIN t : i > 2 => t[i - 2] = q[(i + 1) - 2]
      /\ \A i \in DOMAIN t : i + 3 \in DOMAIN q => i + 2 \in DOMAIN t /\ t[i + 2] = q[i + 3]
  BY <1>1, RestIs
<1> HIDE DEF t
<1>3. t # <<>> => t[1].do # "fill"
  <2> SUFFICES ASSUME t # <<>>, t[1].do = "fill" PROVE FALSE
    OBVIOUS
  <2>1. 2 \in DOMAIN q /\ q[2].do = "fill"
    <3>1. 1 \in DOMAIN t /\ 1 + 1 \in DOMAIN q /\ t[1] = q[1 + 1]
      BY <1>2
    <3> QED
      BY <3>1
  <2>2. q[2 - 1].do = "open"
    BY <1>1, <2>1 DEF Shaped
  <2> QED
    BY <2>2
<1>4. SpecFirst(t, e)
  <2> SUFFICES ASSUME NEW i \in DOMAIN t, NEW n \in Names,
                      FillsAt(t[i], ManifestFile(n)), Openapi(t[i].with), e[SpecFile(n)] = None
               PROVE  i > 2 /\ FillsAt(t[i - 2], SpecFile(n))
    BY DEF SpecFirst
  <2>1. i + 1 > 2 /\ FillsAt(q[(i + 1) - 2], SpecFile(n))
    BY <1>1, <1>2 DEF SpecFirst
  <2>2. i # 2
    <3>1. i = 2 => (i + 1) - 2 = 1
      OBVIOUS
    <3>2. i = 2 => q[1].at = SpecFile(n)
      BY <2>1, <3>1 DEF FillsAt
    <3>3. i = 2 => e[SpecFile(n)] # None
      BY <1>1, <3>2 DEF Opened, Kept, Stays
    <3> QED
      BY <3>3
  <2>3. i > 2
    BY <1>2, <2>1, <2>2
  <2> QED
    BY <1>2, <2>1, <2>3
<1>5. Opened(t, e)
  BY <1>3 DEF Opened
<1>6. PairFirst(t)
  <2> SUFFICES ASSUME NEW i \in DOMAIN t
               PROVE  /\ FillsAt(t[i], PrivateKey) => i + 2 \in DOMAIN t /\ FillsAt(t[i + 2], PublicKey)
                      /\ FillsAt(t[i], PublicKey) =>
                          /\ i \in 1..4
                          /\ i > 2 => FillsAt(t[i - 2], PrivateKey) /\ t[i - 2].with = t[i].with
    BY DEF PairFirst
  <2>1. i + 1 \in DOMAIN q /\ t[i] = q[i + 1] /\ i \in Nat /\ i >= 1
    BY <1>2
  <2>2. (i + 1) + 2 = i + 3
    BY <2>1
  <2>3. FillsAt(q[i + 1], PrivateKey) => (i + 1) + 2 \in DOMAIN q /\ FillsAt(q[(i + 1) + 2], PublicKey)
    BY <1>1, <2>1 DEF PairFirst
  <2>4. FillsAt(q[i + 1], PublicKey) =>
          /\ i + 1 \in 1..4
          /\ i + 1 > 2 => FillsAt(q[(i + 1) - 2], PrivateKey) /\ q[(i + 1) - 2].with = q[i + 1].with
    BY <1>1, <2>1 DEF PairFirst
  <2>5. i > 2 => i + 1 > 2
    BY <2>1
  <2>6. i + 1 \in 1..4 => i \in 1..4
    BY <2>1
  <2>7. FillsAt(t[i], PrivateKey) => i + 2 \in DOMAIN t /\ FillsAt(t[i + 2], PublicKey)
    BY <1>2, <2>1, <2>2, <2>3
  <2>8. FillsAt(t[i], PublicKey) /\ i > 2 => FillsAt(t[i - 2], PrivateKey) /\ t[i - 2].with = t[i].with
    BY <1>2, <2>1, <2>4, <2>5
  <2> QED
    BY <2>1, <2>4, <2>6, <2>7, <2>8
<1>7. PublicLater(t) => PublicLater(q)
  BY <1>2 DEF PublicLater
<1>8. ASSUME PublicLater(q), q[1].at # PublicKey PROVE PublicLater(t)
  <2>1. PICK i \in DOMAIN q : FillsAt(q[i], PublicKey)
    BY <1>8 DEF PublicLater
  <2>2. i # 1
    BY <1>8, <2>1 DEF FillsAt
  <2>3. i - 1 \in DOMAIN t /\ (i - 1) + 1 = i
    BY <1>2, <2>2
  <2> QED
    BY <1>2, <2>1, <2>3 DEF PublicLater
<1>9. ASSUME whole PROVE PairThen(t, e)
  <2> SUFFICES ASSUME NEW i \in DOMAIN t, FillsAt(t[i], PublicKey), i < 3
               PROVE  e[PrivateKey] = t[i].with
    BY DEF PairThen
  <2>1. i + 1 \in DOMAIN q /\ t[i] = q[i + 1] /\ i \in Nat /\ i >= 1
    BY <1>2
  <2>2. i # 1
    BY <1>3 DEF FillsAt
  <2>3. i = 2
    BY <2>1, <2>2
  <2>4. FillsAt(q[1], PrivateKey) /\ q[1].with = t[i].with
    <3>1. (i + 1) - 2 = 1 /\ i + 1 > 2
      BY <2>3
    <3> QED
      BY <1>1, <2>1, <3>1 DEF PairFirst
  <2>5. d[PrivateKey] # None
    BY <1>1, <2>4 DEF Opened, FillsAt, Stays
  <2> QED
    BY <1>9, <2>4, <2>5 DEF FillsAt
<1>10. ASSUME q[1].at = PrivateKey PROVE PublicLater(t)
  <2>1. 1 + 2 \in DOMAIN q /\ FillsAt(q[1 + 2], PublicKey)
    BY <1>1, <1>2, <1>10 DEF PairFirst, FillsAt
  <2> QED
    BY <1>8, <1>10, <2>1, PathsDiffer DEF PublicLater
<1> QED
  BY <1>2, <1>3, <1>4, <1>5, <1>6, <1>7, <1>8, <1>9, <1>10 DEF Stands, t

-----------------------------------------------------------------------------
(* The invariant, from one step of a program to the next                    *)

PairHolds ==
    \/ disk[PrivateKey] = disk[PublicKey]
    \/ PublicKey \in torn
    \/ \E p \in Procs : PublicLater(prog[p])

LEMMA PathsAre ==
    /\ \A n \in Names : ManifestFile(n) \in Paths /\ SpecFile(n) \in Paths /\ CacheFile(n) \in Paths
    /\ \A s \in Skills : SkillDir(s) \in Paths /\ FilesOf(s) \subseteq Paths
                         /\ SkillMd(s) \in Paths /\ SkillToml(s) \in Paths /\ BundledProvider(s) \in Paths
    /\ TopFiles \subseteq Paths /\ Stays \subseteq Paths
    /\ Config \in Paths /\ PrivateKey \in Paths /\ PublicKey \in Paths /\ Credentials \in Paths
    /\ PrivateKey \in Stays /\ PublicKey \in Stays
<1>1. ASSUME NEW s \in Skills, NEW f \in FilesOf(s) PROVE f \in Paths
  <2>1. f \in UNION {FilesOf(t) : t \in Skills}
    OBVIOUS
  <2> QED
    BY <2>1, Zenon DEF Paths
<1>2. /\ \A n \in Names : ManifestFile(n) \in Paths /\ SpecFile(n) \in Paths /\ CacheFile(n) \in Paths
      /\ \A s \in Skills : SkillDir(s) \in Paths
      /\ TopFiles \subseteq Paths
  <2>1. ASSUME NEW n \in Names PROVE ManifestFile(n) \in Paths
    <3>1. ManifestFile(n) \in {ManifestFile(m) : m \in Names}
      OBVIOUS
    <3> QED
      BY <3>1, Zenon DEF Paths
  <2>2. ASSUME NEW n \in Names PROVE SpecFile(n) \in Paths
    <3>1. SpecFile(n) \in {SpecFile(m) : m \in Names}
      OBVIOUS
    <3> QED
      BY <3>1, Zenon DEF Paths
  <2>3. ASSUME NEW n \in Names PROVE CacheFile(n) \in Paths
    <3>1. CacheFile(n) \in {CacheFile(m) : m \in Names}
      OBVIOUS
    <3> QED
      BY <3>1, Zenon DEF Paths
  <2>4. ASSUME NEW s \in Skills PROVE SkillDir(s) \in Paths
    <3>1. SkillDir(s) \in {SkillDir(t) : t \in Skills}
      OBVIOUS
    <3> QED
      BY <3>1, Zenon DEF Paths
  <2>5. TopFiles \subseteq Paths
    BY DEF Paths
  <2> QED
    BY <2>1, <2>2, <2>3, <2>4, <2>5
<1>3. \A s : SkillMd(s) \in FilesOf(s) /\ SkillToml(s) \in FilesOf(s) /\ BundledProvider(s) \in FilesOf(s)
  BY DEF FilesOf
<1>4. Config \in TopFiles /\ PrivateKey \in TopFiles /\ PublicKey \in TopFiles /\ Credentials \in TopFiles
  BY DEF TopFiles
<1> QED
  BY <1>1, <1>2, <1>3, <1>4 DEF Stays

\* The invariant after a step of one process, from what holds of that process and the disk.
LEMMA StepKeeps ==
    ASSUME HomeInv, NEW p \in Procs, prog[p] # <<>>,
           DOMAIN prog' = Procs, DOMAIN cmd' = Procs, head' = head, alone' = alone, torn' \subseteq torn,
           \A o \in Procs \ {p} : prog'[o] = prog[o] /\ cmd'[o] = cmd[o],
           PublicLater(prog'[p]) => PublicLater(prog[p]) /\ cmd'[p] = cmd[p],
           DiskOK(disk'), Kept(disk, disk'), Stands(prog'[p], disk'),
           \A path \in Paths : disk'[path] = Empty => Unfinished(path)',
           \A n \in Names : Openapi(disk'[ManifestFile(n)]) => disk'[SpecFile(n)] # None,
           alone => PairThen(prog'[p], disk') /\ PairHolds'
    PROVE  HomeInv'
<1>1. ASSUME NEW o \in Procs
      PROVE  Stands(prog'[o], disk') /\ (PublicLater(prog'[o]) => cmd'[o].do = "init")
  <2>1. CASE o = p
    BY <2>1 DEF HomeInv
  <2>2. CASE o # p
    <3>1. Stands(prog[o], disk) /\ (PublicLater(prog[o]) => cmd[o].do = "init")
      BY DEF HomeInv
    <3>2. Stands(prog[o], disk')
      BY <3>1, KeptStands
    <3> QED
      BY <2>2, <3>1, <3>2
  <2> QED
    BY <2>1, <2>2
<1>2. Busy' \subseteq Busy
  BY DEF Busy
<1>3. ASSUME alone' PROVE \A o, r \in Busy' : o = r
  <2>1. \A o, r \in Busy : o = r
    BY <1>3 DEF HomeInv
  <2> QED
    BY <1>2, <2>1
<1>4. ASSUME alone', NEW o \in Procs PROVE PairThen(prog'[o], disk')
  <2>1. CASE o = p
    BY <1>4, <2>1
  <2>2. CASE o # p
    <3>1. p \in Busy /\ \A r, s \in Busy : r = s
      BY <1>4 DEF HomeInv, Busy
    <3>2. prog'[o] = <<>>
      BY <2>2, <3>1 DEF Busy
    <3>3. DOMAIN prog'[o] = {}
      BY <3>2, NoneIs
    <3> QED
      BY <3>3 DEF PairThen
  <2> QED
    BY <2>1, <2>2
<1>5. torn' \subseteq Paths
  BY DEF HomeInv
<1>6. alone' => PairHolds'
  OBVIOUS
<1> QED
  BY <1>1, <1>3, <1>4, <1>5, <1>6 DEF HomeInv, PairHolds

\* What an operation that neither opens nor writes does to the disk.
QuietDisk(op, d, e) ==
    /\ DiskOK(e)
    /\ \A path \in Paths :
         e[path] = d[path] \/ (path \notin Stays /\ e[path] # Empty /\ ~Openapi(e[path]))
    /\ \A path \in Judged : e[path] \in {d[path], None}
    /\ op.do \in {"unlink", "clear"} => e[op.at] # Empty

\* A step of an operation that neither opens nor writes.
LEMMA TakeQuiet ==
    ASSUME HomeInv, NEW p \in Procs, prog[p] # <<>>, prog[p][1].do \notin {"open", "fill"},
           NEW results, Take(p, results),
           \A r \in results : Piece(r.then) /\ QuietDisk(prog[p][1], disk, r.disk)
    PROVE  HomeInv'
<1> DEFINE q == prog[p]
           op == q[1]
<1>1. Stands(q, disk) /\ IsSeq(q) /\ Head(q) = op /\ 1 \in DOMAIN q /\ GoodOp(op)
  <2>1. Stands(q, disk)
    BY DEF HomeInv
  <2>2. IsSeq(q)
    BY <2>1 DEF Stands, Shaped
  <2>3. Head(q) = op /\ 1 \in DOMAIN q
    BY <2>2, TailIs
  <2> QED
    BY <2>1, <2>2, <2>3 DEF Stands, Shaped
<1>2. PICK r \in results :
        /\ disk' = r.disk
        /\ prog' = [prog EXCEPT ![p] = IF r.fails THEN AfterFailure(Tail(@)) ELSE r.then \o Tail(@)]
        /\ torn' = IF Head(prog[p]).do \in {"fill", "unlink", "clear"}
                   THEN torn \ {Head(prog[p]).at} ELSE torn
  BY DEF Take
<1>3. Piece(r.then) /\ QuietDisk(op, disk, disk')
  BY <1>2
<1>4. /\ cmd' = [cmd EXCEPT ![p] = IF prog'[p] = <<>> THEN NoCommand ELSE @]
      /\ head' = head /\ alone' = alone
  BY DEF Take
<1>5. /\ DOMAIN prog' = Procs /\ DOMAIN cmd' = Procs
      /\ \A o \in Procs \ {p} : prog'[o] = prog[o] /\ cmd'[o] = cmd[o]
      /\ prog'[p] = IF r.fails THEN AfterFailure(Tail(q)) ELSE r.then \o Tail(q)
  BY <1>2, <1>4 DEF HomeInv
<1> HIDE DEF q
<1>6. Kept(disk, disk')
  BY <1>3, PathsAre DEF QuietDisk, Kept
<1>7. Stands(prog'[p], disk') /\ ~PublicLater(prog'[p]) /\ ~PublicLater(q)
  <2>1. CASE r.fails
    <3>1. /\ Stands(AfterFailure(Tail(q)), disk) /\ ~PublicLater(AfterFailure(Tail(q)))
          /\ ~PublicLater(q)
      BY <1>1, FailureNext DEF q
    <3>2. Stands(AfterFailure(Tail(q)), disk')
      BY <1>6, <3>1, KeptStands
    <3> QED
      BY <1>5, <2>1, <3>1, <3>2
  <2>2. CASE ~r.fails
    <3>1. Stands(r.then \o Tail(q), disk') /\ ~PublicLater(r.then \o Tail(q)) /\ ~PublicLater(q)
      BY <1>1, <1>3, <1>6, QuietNext DEF q
    <3> QED
      BY <1>5, <2>2, <3>1
  <2> QED
    BY <2>1, <2>2
<1>8. torn' \subseteq torn /\ (PublicKey \in torn => PublicKey \in torn')
  <2>1. op.do \in {"unlink", "clear"} => op.at # PublicKey
    BY <1>1, PathsDiffer DEF GoodOp, TopFiles
  <2> QED
    BY <1>1, <1>2, <2>1 DEF q
<1>9. ASSUME NEW path \in Paths, disk'[path] = Empty PROVE Unfinished(path)'
  <2>1. disk[path] = Empty
    BY <1>3, <1>9 DEF QuietDisk
  <2>2. Writing(path) \/ path \in torn
    BY <2>1 DEF HomeInv, Unfinished
  <2>3. CASE Writing(path)
    <3>1. PICK o \in Busy : Head(prog[o]).do = "fill" /\ Head(prog[o]).at = path
      BY <2>3 DEF Writing, Writes, Busy
    <3>2. o # p /\ o \in Procs
      BY <1>1, <3>1 DEF q, Busy
    <3>3. prog'[o] = prog[o]
      BY <1>5, <3>2
    <3>4. o \in Busy'
      BY <3>1, <3>3 DEF Busy
    <3> QED
      BY <3>1, <3>3, <3>4 DEF Unfinished, Writing, Writes, Busy
  <2>4. CASE path \in torn
    <3>1. op.do \in {"unlink", "clear"} => op.at # path
      BY <1>3, <1>9 DEF QuietDisk
    <3>2. path \in torn'
      BY <1>1, <1>2, <2>4, <3>1 DEF q
    <3> QED
      BY <3>2 DEF Unfinished
  <2> QED
    BY <2>2, <2>3, <2>4
<1>10. ASSUME NEW n \in Names, Openapi(disk'[ManifestFile(n)]) PROVE disk'[SpecFile(n)] # None
  <2>1. disk'[ManifestFile(n)] = disk[ManifestFile(n)]
    BY <1>3, <1>10, PathsAre DEF QuietDisk
  <2>2. disk[SpecFile(n)] # None
    BY <1>10, <2>1 DEF HomeInv
  <2> QED
    BY <1>6, <2>2 DEF Kept, Stays
<1>11. ASSUME alone PROVE PairThen(prog'[p], disk') /\ PairHolds'
  <2>1. PairThen(prog'[p], disk')
    BY <1>7 DEF PairThen, PublicLater
  <2>2. disk'[PrivateKey] = disk[PrivateKey] /\ disk'[PublicKey] = disk[PublicKey]
    BY <1>3, PathsAre DEF QuietDisk
  <2>3. PairHolds
    BY <1>11 DEF HomeInv, PairHolds
  <2>4. CASE \E o \in Procs : PublicLater(prog[o])
    <3>1. PICK o \in Procs : PublicLater(prog[o])
      BY <2>4
    <3>2. o # p
      BY <1>7, <3>1 DEF q
    <3>3. PublicLater(prog'[o])
      BY <1>5, <3>1, <3>2
    <3> QED
      BY <2>1, <3>3 DEF PairHolds
  <2> QED
    BY <1>8, <2>1, <2>2, <2>3, <2>4 DEF PairHolds
<1>12. DiskOK(disk')
  BY <1>3 DEF QuietDisk
<1> QED
  BY <1>4, <1>5, <1>6, <1>7, <1>8, <1>9, <1>10, <1>11, <1>12, StepKeeps

LEMMA OpenResult ==
    ASSUME NEW op, NEW d, op.do = "open"
    PROVE  FileResults(op, d) = {IF HasDirectory(d, op.at)
                                 THEN Go([d EXCEPT ![op.at] = Empty], <<>>) ELSE Fails(d)}
  BY DEF FileResults

LEMMA FillResult ==
    ASSUME NEW op, NEW d, op.do = "fill"
    PROVE  FileResults(op, d) =
             {Go(e, <<>>) : e \in Filled(d, op.at, op.with)}
  BY DEF FileResults

LEMMA TextsDiffer ==
    /\ None # Empty /\ SpecText # None /\ SpecText # Empty /\ ~Openapi(Empty) /\ ~Openapi(None)
    /\ ~Openapi(Dir) /\ Dir # None /\ Dir # Empty
    /\ Mixed # None /\ Mixed # Empty /\ Mixed # SpecText /\ ~Openapi(Mixed) /\ Mixed # Dir
    /\ \A path, w : TextFor(path, w) => w # None /\ w # Empty
<1>1. None.is = "none" /\ Empty.is = "empty" /\ Mixed.is = "mixed" /\ SpecText.is = "spec" /\ Dir.is = "dir"
  BY DEF None, Empty, Mixed, SpecText, Dir
<1> QED
  BY <1>1 DEF Openapi, TextFor

\* What a write leaves: the text, a mixture if there was one before, nothing if the file is gone.
LEMMA FilledIs ==
    ASSUME NEW d, NEW path \in DOMAIN d, NEW w, NEW e \in Filled(d, path, w)
    PROVE  /\ DOMAIN e = DOMAIN d /\ \A other \in DOMAIN d \ {path} : e[other] = d[other]
           /\ d[path] = None => e[path] = None
           /\ d[path] # None => e[path] \in {w, Mixed}
           /\ d[path] = Empty => e[path] = w
<1>1. None # Empty
  BY TextsDiffer
<1>2. CASE d[path] = None
  BY <1>1, <1>2 DEF Filled
<1>3. CASE d[path] \in {Empty, w} /\ d[path] # None
  BY <1>1, <1>3 DEF Filled
<1>4. CASE d[path] \notin {Empty, w} /\ d[path] # None
  <2>1. PICK left \in {w, Mixed} : e = [d EXCEPT ![path] = left]
    BY <1>4 DEF Filled
  <2> QED
    BY <1>4, <2>1
<1> QED
  BY <1>2, <1>3, <1>4

LEMMA NothingBefore ==
    ASSUME NEW q, IsSeq(q)
    PROVE  <<>> \o q = q
  BY DEF IsSeq

\* A step that opens a file, or fails for want of its directory.
LEMMA TakeOpen ==
    ASSUME HomeInv, NEW p \in Procs, prog[p] # <<>>, prog[p][1].do = "open",
           Take(p, FileResults(prog[p][1], disk))
    PROVE  HomeInv'
<1> DEFINE q == prog[p]
           op == q[1]
<1>1. Stands(q, disk) /\ IsSeq(q) /\ Head(q) = op /\ 1 \in DOMAIN q /\ GoodOp(op) /\ Shaped(q)
  <2>1. Stands(q, disk)
    BY DEF HomeInv
  <2>2. IsSeq(q) /\ Shaped(q)
    BY <2>1 DEF Stands, Shaped
  <2>3. Head(q) = op /\ 1 \in DOMAIN q
    BY <2>2, TailIs
  <2> QED
    BY <2>1, <2>2, <2>3 DEF Stands, Shaped
<1>2. PICK r \in FileResults(op, disk) :
        /\ disk' = r.disk
        /\ prog' = [prog EXCEPT ![p] = IF r.fails THEN AfterFailure(Tail(@)) ELSE r.then \o Tail(@)]
        /\ torn' = torn
  BY <1>1 DEF Take
<1>3. /\ cmd' = [cmd EXCEPT ![p] = IF prog'[p] = <<>> THEN NoCommand ELSE @]
      /\ head' = head /\ alone' = alone
  BY DEF Take
<1>4. /\ DOMAIN prog' = Procs /\ DOMAIN cmd' = Procs
      /\ \A o \in Procs \ {p} : prog'[o] = prog[o] /\ cmd'[o] = cmd[o]
      /\ prog'[p] = IF r.fails THEN AfterFailure(Tail(q)) ELSE r.then \o Tail(q)
      /\ prog'[p] # <<>> => cmd'[p] = cmd[p]
  BY <1>2, <1>3 DEF HomeInv
<1>5. op.at \in Paths /\ DOMAIN disk = Paths
  BY <1>1 DEF GoodOp, HomeInv, DiskOK
<1>6. r = IF HasDirectory(disk, op.at) THEN Go([disk EXCEPT ![op.at] = Empty], <<>>) ELSE Fails(disk)
  <2>1. FileResults(op, disk) = {IF HasDirectory(disk, op.at)
                                 THEN Go([disk EXCEPT ![op.at] = Empty], <<>>) ELSE Fails(disk)}
    BY OpenResult
  <2> QED
    BY <1>2, <2>1, Zenon
<1> HIDE DEF q
<1>7. CASE HasDirectory(disk, op.at)
  <2>1. r = Go([disk EXCEPT ![op.at] = Empty], <<>>)
    BY <1>6, <1>7
  <2>2. r.disk = [disk EXCEPT ![op.at] = Empty] /\ r.then = <<>> /\ r.fails = FALSE
    BY <2>1 DEF Go
  <2>3. /\ DOMAIN disk' = Paths /\ disk'[op.at] = Empty
        /\ \A path \in Paths \ {op.at} : disk'[path] = disk[path]
    BY <1>2, <1>5, <2>2
  <2>4. prog'[p] = Tail(q)
    <3>1. IsSeq(Tail(q))
      BY <1>1, TailIs DEF q
    <3> QED
      BY <1>4, <2>2, <3>1, NothingBefore
  <2>5. Kept(disk, disk') /\ disk'[op.at] # None
    BY <2>3, PathsAre, TextsDiffer DEF Kept
  <2>6. /\ Stands(Tail(q), disk') /\ (PublicLater(q) <=> PublicLater(Tail(q)))
        /\ op.at \in {PrivateKey, PublicKey} => PublicLater(Tail(q))
        /\ PairThen(q, disk) => PairThen(Tail(q), disk')
    BY <1>1, <2>3, <2>5, PathsAre, OpenNext DEF q
  <2>7. DiskOK(disk')
    BY <2>3 DEF HomeInv, DiskOK
  <2>8. FillsAt(Tail(q)[1], op.at) /\ Tail(q) # <<>> /\ Head(Tail(q)) = Tail(q)[1]
    <3>1. 1 + 1 \in DOMAIN q /\ FillsAt(q[1 + 1], op.at)
      BY <1>1 DEF Shaped, q
    <3>2. Len(q) \in Nat /\ DOMAIN q = 1..Len(q)
      BY <1>1, SeqIs
    <3>3. /\ IsSeq(Tail(q)) /\ Len(Tail(q)) = Len(q) - 1
          /\ \A i \in 1..(Len(q) - 1) : Tail(q)[i] = q[i + 1]
      BY <1>1, TailIs DEF q
    <3>4. Tail(q)[1] = q[1 + 1] /\ Len(Tail(q)) # 0
      BY <3>1, <3>2, <3>3
    <3>5. Tail(q) # <<>>
      BY <3>3, <3>4, SeqIs
    <3> QED
      BY <3>1, <3>3, <3>4, <3>5, TailIs
  <2>9. p \in Busy' /\ Head(prog'[p]).do = "fill" /\ Head(prog'[p]).at = op.at
    BY <2>4, <2>8 DEF FillsAt, Busy
  <2>10. ASSUME NEW path \in Paths, disk'[path] = Empty PROVE Unfinished(path)'
    <3>1. CASE path = op.at
      BY <2>9, <3>1 DEF Unfinished, Writing, Writes, Busy
    <3>2. CASE path # op.at
      <4>1. Writing(path) \/ path \in torn
        BY <2>3, <2>10, <3>2 DEF HomeInv, Unfinished
      <4>2. CASE Writing(path)
        <5>1. PICK o \in Busy : Head(prog[o]).do = "fill" /\ Head(prog[o]).at = path
          BY <4>2 DEF Writing, Writes, Busy
        <5>2. o # p /\ o \in Procs
          BY <1>1, <5>1 DEF q, Busy
        <5>3. prog'[o] = prog[o]
          BY <1>4, <5>2
        <5>4. o \in Busy'
          BY <5>1, <5>3 DEF Busy
        <5> QED
          BY <5>1, <5>3, <5>4 DEF Unfinished, Writing, Writes, Busy
      <4> QED
        BY <1>2, <4>1, <4>2 DEF Unfinished
    <3> QED
      BY <3>1, <3>2
  <2>11. ASSUME NEW n \in Names, Openapi(disk'[ManifestFile(n)]) PROVE disk'[SpecFile(n)] # None
    <3>1. disk'[ManifestFile(n)] = disk[ManifestFile(n)]
      BY <2>3, <2>11, PathsAre, TextsDiffer
    <3>2. disk[SpecFile(n)] # None
      BY <2>11, <3>1 DEF HomeInv
    <3> QED
      BY <2>5, <3>2 DEF Kept, Stays
  <2>12. ASSUME alone PROVE PairThen(prog'[p], disk') /\ PairHolds'
    <3>1. PairThen(prog'[p], disk')
      BY <2>4, <2>6, <2>12 DEF HomeInv, q
    <3>2. CASE op.at \in {PrivateKey, PublicKey}
      BY <2>4, <2>6, <3>1, <3>2 DEF PairHolds
    <3>3. CASE op.at \notin {PrivateKey, PublicKey}
      <4>1. disk'[PrivateKey] = disk[PrivateKey] /\ disk'[PublicKey] = disk[PublicKey]
        BY <2>3, <3>3, PathsAre
      <4>2. PairHolds
        BY <2>12 DEF HomeInv, PairHolds
      <4>3. ASSUME NEW o \in Procs, PublicLater(prog[o]) PROVE PublicLater(prog'[o])
        BY <1>4, <2>4, <2>6, <4>3 DEF q
      <4> QED
        BY <1>2, <3>1, <4>1, <4>2, <4>3 DEF PairHolds
    <3> QED
      BY <3>2, <3>3
  <2>13. PublicLater(prog'[p]) => PublicLater(prog[p]) /\ cmd'[p] = cmd[p]
    BY <1>4, <2>4, <2>6, <2>8 DEF q
  <2>14. Stands(prog'[p], disk')
    BY <2>4, <2>6
  <2> QED
    BY <1>2, <1>3, <1>4, <2>5, <2>7, <2>10, <2>11, <2>12, <2>13, <2>14, StepKeeps
<1>8. CASE ~HasDirectory(disk, op.at)
  <2>1. r = Fails(disk)
    BY <1>6, <1>8
  <2>2. r.disk = disk /\ r.fails = TRUE
    BY <2>1 DEF Fails
  <2>3. op.at \notin {PrivateKey, PublicKey}
    BY <1>8 DEF HasDirectory, PrivateKey, PublicKey
  <2>4. /\ Stands(AfterFailure(Tail(q)), disk) /\ ~PublicLater(AfterFailure(Tail(q))) /\ ~PublicLater(q)
    BY <1>1, <2>3, FailureNext DEF q
  <2>5. disk' = disk /\ prog'[p] = AfterFailure(Tail(q))
    BY <1>2, <1>4, <2>2
  <2>6. Kept(disk, disk') /\ DiskOK(disk') /\ Stands(prog'[p], disk') /\ ~PublicLater(prog'[p])
    BY <2>4, <2>5 DEF Kept, HomeInv
  <2>7. ASSUME NEW path \in Paths, disk'[path] = Empty PROVE Unfinished(path)'
    <3>1. Writing(path) \/ path \in torn
      BY <2>5, <2>7 DEF HomeInv, Unfinished
    <3>2. CASE Writing(path)
      <4>1. PICK o \in Busy : Head(prog[o]).do = "fill" /\ Head(prog[o]).at = path
        BY <3>2 DEF Writing, Writes, Busy
      <4>2. o # p /\ o \in Procs
        BY <1>1, <4>1 DEF q, Busy
      <4>3. prog'[o] = prog[o]
        BY <1>4, <4>2
      <4>4. o \in Busy'
        BY <4>1, <4>3 DEF Busy
      <4> QED
        BY <4>1, <4>3, <4>4 DEF Unfinished, Writing, Writes, Busy
    <3> QED
      BY <1>2, <3>1, <3>2 DEF Unfinished
  <2>8. \A n \in Names : Openapi(disk'[ManifestFile(n)]) => disk'[SpecFile(n)] # None
    BY <2>5 DEF HomeInv
  <2>9. ASSUME alone PROVE PairThen(prog'[p], disk') /\ PairHolds'
    <3>1. PairThen(prog'[p], disk')
      BY <2>6 DEF PairThen, PublicLater
    <3>2. PairHolds
      BY <2>9 DEF HomeInv, PairHolds
    <3>3. ASSUME NEW o \in Procs, PublicLater(prog[o]) PROVE PublicLater(prog'[o])
      <4>1. o # p
        BY <2>4, <3>3 DEF q
      <4> QED
        BY <1>4, <3>3, <4>1
    <3> QED
      BY <1>2, <2>5, <3>1, <3>2, <3>3 DEF PairHolds
  <2> QED
    BY <1>2, <1>3, <1>4, <2>6, <2>7, <2>8, <2>9, StepKeeps
<1> QED
  BY <1>7, <1>8

\* The public half stays next to the private one on the disk, when another file was written.
LEMMA RestThen ==
    ASSUME NEW q, Stands(q, disk), q # <<>>, q[1].do = "fill", q[1].at # PrivateKey,
           PairThen(q, disk), disk'[PrivateKey] = disk[PrivateKey]
    PROVE  PairThen(Tail(q), disk')
<1> DEFINE t == Tail(q)
<1>1. /\ \A i \in DOMAIN t : i + 1 \in DOMAIN q /\ t[i] = q[i + 1] /\ i \in Nat /\ i >= 1
      /\ Shaped(q) /\ PairFirst(q)
  BY RestIs DEF Stands
<1> HIDE DEF t
<1> SUFFICES ASSUME NEW i \in DOMAIN t, FillsAt(t[i], PublicKey), i < 3
             PROVE  disk'[PrivateKey] = t[i].with
  BY DEF PairThen, t
<1>2. FillsAt(q[i + 1], PublicKey) /\ i + 1 \in DOMAIN q /\ i \in Nat /\ i >= 1
  BY <1>1
<1>3. CASE i = 1
  BY <1>1, <1>2, <1>3 DEF PairThen
<1>4. CASE i = 2
  <2>1. i + 1 > 2 /\ (i + 1) - 2 = 1
    BY <1>4
  <2> QED
    BY <1>1, <1>2, <2>1 DEF PairFirst, FillsAt
<1> QED
  BY <1>2, <1>3, <1>4

\* A step that writes a file, unless the file is gone.
LEMMA TakeFill ==
    ASSUME HomeInv, CrossInv, NEW p \in Procs, prog[p] # <<>>, prog[p][1].do = "fill",
           Take(p, FileResults(prog[p][1], disk))
    PROVE  HomeInv'
<1> DEFINE q == prog[p]
           op == q[1]
<1>1. Stands(q, disk) /\ IsSeq(q) /\ Head(q) = op /\ 1 \in DOMAIN q /\ GoodOp(op) /\ Shaped(q)
  <2>1. Stands(q, disk)
    BY DEF HomeInv
  <2>2. IsSeq(q) /\ Shaped(q)
    BY <2>1 DEF Stands, Shaped
  <2>3. Head(q) = op /\ 1 \in DOMAIN q
    BY <2>2, TailIs
  <2> QED
    BY <2>1, <2>2, <2>3 DEF Stands, Shaped
<1>2. PICK r \in FileResults(op, disk) :
        /\ disk' = r.disk
        /\ prog' = [prog EXCEPT ![p] = IF r.fails THEN AfterFailure(Tail(@)) ELSE r.then \o Tail(@)]
        /\ torn' = torn \ {op.at}
  BY <1>1 DEF Take
<1>3. /\ cmd' = [cmd EXCEPT ![p] = IF prog'[p] = <<>> THEN NoCommand ELSE @]
      /\ head' = head /\ alone' = alone
  BY DEF Take
<1>4. /\ DOMAIN prog' = Procs /\ DOMAIN cmd' = Procs
      /\ \A o \in Procs \ {p} : prog'[o] = prog[o] /\ cmd'[o] = cmd[o]
      /\ prog'[p] = IF r.fails THEN AfterFailure(Tail(q)) ELSE r.then \o Tail(q)
      /\ prog'[p] # <<>> => cmd'[p] = cmd[p]
  BY <1>2, <1>3 DEF HomeInv
<1>5. op.at \in Paths /\ DOMAIN disk = Paths /\ TextFor(op.at, op.with)
  BY <1>1 DEF GoodOp, HomeInv, DiskOK
<1>6. PICK e \in Filled(disk, op.at, op.with) : r = Go(e, <<>>)
  <2>1. FileResults(op, disk) = {Go(e, <<>>) : e \in Filled(disk, op.at, op.with)}
    BY FillResult
  <2> QED
    BY <1>2, <2>1, Zenon
<1>7. r.disk = e /\ r.then = <<>> /\ r.fails = FALSE
  BY <1>6 DEF Go
<1>8. /\ DOMAIN disk' = Paths
      /\ \A path \in Paths \ {op.at} : disk'[path] = disk[path]
      /\ disk[op.at] # None => disk'[op.at] \in {op.with, Mixed}
      /\ disk[op.at] = None => disk'[op.at] = None
      /\ disk[op.at] = Empty => disk'[op.at] = op.with
  BY <1>2, <1>5, <1>6, <1>7, FilledIs
\* A process that runs alone writes what it opened.
<1>19. alone /\ op.at \in Stays /\ disk[op.at] # None => disk'[op.at] = op.with
  <2>1. Writes(p, op.at)
    BY <1>1 DEF Writes
  <2>2. alone /\ op.at \in Stays => disk[op.at] \in {None, Empty}
    BY <2>1 DEF CrossInv, Judged, Apart
  <2> QED
    BY <1>8, <2>2
<1> HIDE DEF q
<1>9. op.with # None /\ op.with # Empty
  BY <1>5, TextsDiffer
<1>10. prog'[p] = Tail(q)
  <2>1. IsSeq(Tail(q))
    BY <1>1, TailIs DEF q
  <2> QED
    BY <1>4, <1>7, <2>1, NothingBefore
<1>11. Kept(disk, disk')
  BY <1>8, <1>9, PathsAre, TextsDiffer DEF Kept
<1>12. /\ Stands(Tail(q), disk') /\ (PublicLater(Tail(q)) => PublicLater(q))
       /\ (PublicLater(q) /\ op.at # PublicKey => PublicLater(Tail(q)))
       /\ (alone => PairThen(Tail(q), disk'))
       /\ op.at = PrivateKey => PublicLater(Tail(q))
  <2>1. CASE alone /\ op.at \in Stays
    BY <1>1, <1>8, <1>11, <1>19, <2>1, FillNext DEF q
  <2>2. CASE ~(alone /\ op.at \in Stays)
    <3>1. /\ Stands(Tail(q), disk') /\ (PublicLater(Tail(q)) => PublicLater(q))
          /\ (PublicLater(q) /\ op.at # PublicKey => PublicLater(Tail(q)))
          /\ op.at = PrivateKey => PublicLater(Tail(q))
      BY <1>1, <1>11, FillNext DEF q
    <3>2. alone => PairThen(Tail(q), disk')
      <4> SUFFICES ASSUME alone PROVE PairThen(Tail(q), disk')
        OBVIOUS
      <4>1. PairThen(q, disk) /\ op.at # PrivateKey
        BY <2>2, PathsAre DEF HomeInv, q
      <4>2. disk'[PrivateKey] = disk[PrivateKey]
        BY <1>8, <4>1, PathsAre
      <4> QED
        BY <1>1, <4>1, <4>2, RestThen DEF q
    <3> QED
      BY <3>1, <3>2
  <2> QED
    BY <2>1, <2>2
<1>13. DiskOK(disk')
  <2>1. ASSUME NEW path \in Paths
        PROVE  disk'[path] \in {None, Empty, Mixed} \/ TextFor(path, disk'[path])
    <3>1. disk[path] \in {None, Empty, Mixed} \/ TextFor(path, disk[path])
      BY DEF HomeInv, DiskOK
    <3> QED
      BY <1>5, <1>8, <3>1
  <2> QED
    BY <1>8, <2>1 DEF DiskOK
<1>14. ASSUME NEW path \in Paths, disk'[path] = Empty PROVE Unfinished(path)'
  <2>1. path # op.at /\ disk[path] = Empty
    BY <1>8, <1>9, <1>14, TextsDiffer
  <2>2. Writing(path) \/ path \in torn
    BY <2>1 DEF HomeInv, Unfinished
  <2>3. CASE Writing(path)
    <3>1. PICK o \in Busy : Head(prog[o]).do = "fill" /\ Head(prog[o]).at = path
      BY <2>3 DEF Writing, Writes, Busy
    <3>2. o # p /\ o \in Procs
      BY <1>1, <2>1, <3>1 DEF q, Busy
    <3>3. prog'[o] = prog[o]
      BY <1>4, <3>2
    <3>4. o \in Busy'
      BY <3>1, <3>3 DEF Busy
    <3> QED
      BY <3>1, <3>3, <3>4 DEF Unfinished, Writing, Writes, Busy
  <2> QED
    BY <1>2, <2>1, <2>2, <2>3 DEF Unfinished
<1>15. ASSUME NEW n \in Names, Openapi(disk'[ManifestFile(n)]) PROVE disk'[SpecFile(n)] # None
  <2>1. CASE op.at = ManifestFile(n)
    <3>1. Openapi(op.with)
      BY <1>8, <1>15, <2>1, TextsDiffer
    <3>2. FillsAt(q[1], ManifestFile(n)) /\ Openapi(q[1].with)
      BY <2>1, <3>1 DEF FillsAt, q
    <3>3. SpecFirst(q, disk)
      BY <1>1 DEF Stands
    <3>4. disk[SpecFile(n)] # None
      BY <1>1, <3>2, <3>3 DEF SpecFirst
    <3> QED
      BY <1>11, <3>4 DEF Kept, Stays
  <2>2. CASE op.at # ManifestFile(n)
    <3>1. disk[SpecFile(n)] # None
      BY <1>8, <1>15, <2>2, PathsAre DEF HomeInv
    <3> QED
      BY <1>11, <3>1 DEF Kept, Stays
  <2> QED
    BY <2>1, <2>2
<1>16. ASSUME alone PROVE PairThen(prog'[p], disk') /\ PairHolds'
  <2>1. PairThen(prog'[p], disk')
    BY <1>10, <1>12, <1>16
  <2>2. CASE op.at = PrivateKey
    BY <1>10, <1>12, <2>1, <2>2 DEF PairHolds
  <2>3. CASE op.at = PublicKey
    <3>1. FillsAt(q[1], PublicKey)
      BY <2>3 DEF FillsAt, q
    <3>2. disk[PrivateKey] = op.with
      BY <1>1, <1>16, <3>1 DEF HomeInv, PairThen, q
    <3>3. disk[PublicKey] # None
      <4>1. Opened(q, disk)
        BY <1>1 DEF Stands
      <4> QED
        BY <2>3, <4>1, PathsAre DEF Opened, q
    <3>4. disk'[PublicKey] = op.with /\ disk'[PrivateKey] = op.with
      BY <1>8, <1>16, <1>19, <2>3, <3>2, <3>3, PathsAre, PathsDiffer
    <3> QED
      BY <2>1, <3>4 DEF PairHolds
  <2>4. CASE op.at \notin {PrivateKey, PublicKey}
    <3>1. disk'[PrivateKey] = disk[PrivateKey] /\ disk'[PublicKey] = disk[PublicKey]
      BY <1>8, <2>4, PathsAre
    <3>2. PairHolds
      BY <1>16 DEF HomeInv, PairHolds
    <3>3. ASSUME NEW o \in Procs, PublicLater(prog[o]) PROVE PublicLater(prog'[o])
      BY <1>4, <1>10, <1>12, <2>4, <3>3 DEF q
    <3>4. PublicKey \in torn => PublicKey \in torn'
      BY <1>2, <2>4
    <3> QED
      BY <2>1, <3>1, <3>2, <3>3, <3>4 DEF PairHolds
  <2> QED
    BY <2>2, <2>3, <2>4
<1>17. PublicLater(prog'[p]) => PublicLater(prog[p]) /\ cmd'[p] = cmd[p]
  <2>1. PublicLater(prog'[p]) => prog'[p] # <<>>
    BY NoneIs DEF PublicLater
  <2> QED
    BY <1>4, <1>10, <1>12, <2>1 DEF q
<1>18. Stands(prog'[p], disk')
  BY <1>10, <1>12
<1> QED
  BY <1>2, <1>3, <1>4, <1>11, <1>13, <1>14, <1>15, <1>16, <1>17, <1>18, StepKeeps

-----------------------------------------------------------------------------
(* What the operations that neither open nor write do                       *)

\* A sequence of pieces, one after the other, as the model builds it.
LEMMA JoinExists ==
    ASSUME NEW n \in Nat, NEW S, NEW h \in [1..n -> Seq(S)]
    PROVE  \E f : f = [i \in 0..n |-> IF i = 0 THEN <<>> ELSE f[i - 1] \o h[i]]
<1> DEFINE X == Seq(S)
           g == [x \in (1..n) \X X |-> x[2] \o h[x[1]]]
<1>1. g \in [(1..n) \X X -> X] /\ <<>> \in X
  OBVIOUS
<1>2. PICK f \in [0..n -> X] : f[0] = <<>> /\ \A i \in 1..n : f[i] = g[<<i, f[i - 1]>>]
  <2> HIDE DEF g, X
  <2>1. \E f : Recurses(f, X, <<>>, n, g)
    BY <1>1, Recursion
  <2> QED
    BY <2>1 DEF Recurses
<1>3. ASSUME NEW i \in 1..n PROVE f[i] = f[i - 1] \o h[i]
  <2>1. i - 1 \in 0..n
    OBVIOUS
  <2>2. f[i - 1] \in X /\ f[i] = g[<<i, f[i - 1]>>]
    BY <1>2, <2>1
  <2> QED
    BY <2>2
<1> HIDE DEF X, g
<1>4. ASSUME NEW i \in 0..n PROVE f[i] = IF i = 0 THEN <<>> ELSE f[i - 1] \o h[i]
  <2>1. i # 0 => i \in 1..n
    OBVIOUS
  <2> QED
    BY <1>2, <1>3, <2>1
<1>5. f = [i \in 0..n |-> IF i = 0 THEN <<>> ELSE f[i - 1] \o h[i]]
  BY <1>2, <1>4
<1> QED
  BY <1>5

\* F joins the first n of h one after the other.
Joins(F, h, n) == F = [i \in 0..n |-> IF i = 0 THEN <<>> ELSE F[i - 1] \o h[i]]

LEMMA JoinIs ==
    ASSUME NEW n \in Nat, NEW h, NEW F, Joins(F, h, n)
    PROVE  F[0] = <<>> /\ \A i \in 1..n : F[i] = F[i - 1] \o h[i]
  BY DEF Joins

\* Pieces joined one after the other are a piece.
LEMMA JoinPiece ==
    ASSUME NEW n \in Nat, NEW h, \A i \in 1..n : Piece(h[i]), NEW F, Joins(F, h, n)
    PROVE  Piece(F[n])
<1> DEFINE S == {j \in Nat : j <= n => Piece(F[j])}
<1>1. F[0] = <<>> /\ \A i \in 1..n : F[i] = F[i - 1] \o h[i]
  BY JoinIs
<1>2. 0 \in S
  BY <1>1, PieceNone
<1>3. ASSUME NEW k \in Nat, k \in S PROVE k + 1 \in S
  <2> SUFFICES ASSUME k + 1 <= n PROVE Piece(F[k + 1])
    OBVIOUS
  <2>1. k + 1 \in 1..n /\ (k + 1) - 1 = k /\ Piece(F[k])
    BY <1>3
  <2>2. F[k + 1] = F[k] \o h[k + 1] /\ Piece(h[k + 1])
    BY <1>1, <2>1
  <2> QED
    BY <2>1, <2>2, PieceConcat
<1>4. n \in S
  <2> HIDE DEF S
  <2> QED
    BY <1>2, <1>3, AllNaturals
<1> QED
  BY <1>4

\* So is what they hold: what is in the pieces, and all of it.
LEMMA JoinIn ==
    ASSUME NEW n \in Nat, NEW T, NEW h \in [1..n -> Seq(T)], NEW F, Joins(F, h, n)
    PROVE  F[n] \in Seq(T) /\ \A i \in 1..n : Holds(h[i]) \subseteq Holds(F[n])
<1>1. F[0] = <<>> /\ \A i \in 1..n : F[i] = F[i - 1] \o h[i]
  BY JoinIs
<1> DEFINE All(m) == \A i \in 1..m : Holds(h[i]) \subseteq Holds(F[m])
           S == {m \in Nat : m <= n => F[m] \in Seq(T) /\ All(m)}
<1>2. 0 \in S
  <2>1. F[0] \in Seq(T)
    BY <1>1
  <2> QED
    BY <2>1
<1>3. ASSUME NEW m \in Nat, m \in S PROVE m + 1 \in S
  <2> SUFFICES ASSUME m + 1 <= n PROVE F[m + 1] \in Seq(T) /\ All(m + 1)
    OBVIOUS
  <2>1. m + 1 \in 1..n /\ (m + 1) - 1 = m /\ m <= n
    OBVIOUS
  <2>2. F[m] \in Seq(T) /\ All(m)
    BY <1>3, <2>1
  <2>3. F[m + 1] = F[m] \o h[m + 1]
    BY <1>1, <2>1
  <2>4. h[m + 1] \in Seq(T)
    BY <2>1
  <2>5. F[m + 1] \in Seq(T) /\ Holds(F[m]) \subseteq Holds(F[m + 1]) /\ Holds(h[m + 1]) \subseteq Holds(F[m + 1])
    <3>1. LET both == F[m] \o h[m + 1]
          IN  both \in Seq(T) /\ Holds(F[m]) \subseteq Holds(both) /\ Holds(h[m + 1]) \subseteq Holds(both)
      BY <2>2, <2>4, JoinedHas
    <3> QED
      BY <2>3, <3>1
  <2>6. \A i \in 1..(m + 1) : i = m + 1 \/ i \in 1..m
    OBVIOUS
  <2>7. All(m + 1)
    BY <2>2, <2>5, <2>6
  <2> QED
    BY <2>5, <2>7
<1>4. n \in S
  <2> HIDE DEF S
  <2> QED
    BY <1>2, <1>3, AllNaturals
<1> QED
  BY <1>4

LEMMA WritesAre ==
    ASSUME NEW path, NEW w
    PROVE  Write(path, w) \in Seq({Op("open", path, NoData), Op("fill", path, w)})
  BY DEF Write

LEMMA FileWrite ==
    ASSUME NEW files, ShipmentOK(files), NEW s \in Skills, NEW f \in DOMAIN files
    PROVE  Piece(Write(<<f, s>>, files[f]))
<1>1. f \in {"md", "toml", "bundle"}
  BY DEF ShipmentOK
<1>2. <<f, s>> \in FilesOf(s)
  BY <1>1 DEF FilesOf, SkillMd, SkillToml, BundledProvider
<1>3. /\ <<f, s>> \in Paths /\ <<f, s>> \notin TopFiles
      /\ \A n : <<f, s>> # ManifestFile(n) /\ <<f, s>> # SpecFile(n)
  BY <1>2, PathsAre, PathsDiffer
<1>4. TextFor(<<f, s>>, files[f])
  <2>1. files[f].is \notin {"none", "empty", "no hash"}
    BY <1>1 DEF ShipmentOK, TomlOK, BundleOK
  <2>2. ASSUME NEW t \in Skills, <<f, s>> = SkillToml(t) PROVE TomlOK(files[f])
    <3>1. f = "toml"
      BY <2>2 DEF SkillToml
    <3> QED
      BY <3>1 DEF ShipmentOK
  <2>3. ASSUME NEW t \in Skills, <<f, s>> = BundledProvider(t) PROVE BundleOK(files[f])
    <3>1. f = "bundle"
      BY <2>3 DEF BundledProvider
    <3> QED
      BY <3>1 DEF ShipmentOK
  <2> QED
    BY <1>3, <2>1, <2>2, <2>3 DEF TextFor, TopFiles
<1> QED
  BY <1>3, <1>4, PieceWrite DEF TopFiles

LEMMA OrdersAre ==
    ASSUME NEW files, ShipmentOK(files), NEW order \in Orders(DOMAIN files)
    PROVE  /\ order \in Seq(DOMAIN files) /\ Len(order) \in Nat
           /\ \A i \in 1..Len(order) : order[i] \in DOMAIN files
<1>1. IsFiniteSet({"md", "toml", "bundle"})
  <2>1. IsFiniteSet({} \cup {"md"})
    BY FS_EmptySet, FS_AddElement
  <2>2. IsFiniteSet(({} \cup {"md"}) \cup {"toml"})
    BY <2>1, FS_AddElement
  <2>3. IsFiniteSet((({} \cup {"md"}) \cup {"toml"}) \cup {"bundle"})
    BY <2>2, FS_AddElement
  <2>4. (({} \cup {"md"}) \cup {"toml"}) \cup {"bundle"} = {"md", "toml", "bundle"}
    OBVIOUS
  <2> QED
    BY <2>3, <2>4
<1>2. Cardinality(DOMAIN files) \in Nat
  <2>1. DOMAIN files \in SUBSET {"md", "toml", "bundle"}
    BY DEF ShipmentOK
  <2> QED
    BY <1>1, <2>1, FS_Subset, FS_CardinalityType
<1>3. order \in [1..Cardinality(DOMAIN files) -> DOMAIN files]
  BY DEF Orders
<1>4. order \in Seq(DOMAIN files)
  <2>1. ASSUME NEW c \in Nat, NEW D, order \in [1..c -> D] PROVE order \in Seq(D)
    BY <2>1
  <2> QED
    BY <1>2, <1>3, <2>1
<1> QED
  BY <1>4

\* The operations that copy a file that a version ships.
CopyOps(files, s) ==
    {Op("open", <<f, s>>, NoData) : f \in DOMAIN files} \cup {Op("fill", <<f, s>>, files[f]) : f \in DOMAIN files}
CopyFile(files, s, f) == Write(<<f, s>>, files[f])
CopyFiles(files, s, order) == [i \in 1..Len(order) |-> CopyFile(files, s, order[i])]

LEMMA CopyFileIs ==
    ASSUME NEW files, NEW s, NEW f \in DOMAIN files
    PROVE  /\ CopyFile(files, s, f) \in Seq(CopyOps(files, s)) /\ Len(CopyFile(files, s, f)) = 2
           /\ CopyFile(files, s, f)[2] = Op("fill", <<f, s>>, files[f])
<1>1. Op("open", <<f, s>>, NoData) \in CopyOps(files, s) /\ Op("fill", <<f, s>>, files[f]) \in CopyOps(files, s)
  BY DEF CopyOps
<1> QED
  BY <1>1 DEF Write, CopyFile

\* A directory is made, and the files are copied one after the other.
LEMMA CopyDirIs ==
    ASSUME NEW files, ShipmentOK(files), NEW s, NEW order \in Orders(DOMAIN files)
    PROVE  /\ CopyFiles(files, s, order) \in [1..Len(order) -> Seq(CopyOps(files, s))]
           /\ \E F : /\ Joins(F, CopyFiles(files, s, order), Len(order))
                    /\ CopyDir(files, s, order) = <<Op("mkdir", SkillDir(s), NoData)>> \o F[Len(order)]
<1> DEFINE n == Len(order)
           h == CopyFiles(files, s, order)
           S == CopyOps(files, s)
           Rec(f) == f = [i \in 0..n |->
                            IF i = 0 THEN <<>> ELSE f[i - 1] \o Write(<<order[i], s>>, files[order[i]])]
           F == CHOOSE f : Rec(f)
           start == <<Op("mkdir", SkillDir(s), NoData)>>
<1>1. n \in Nat /\ \A i \in 1..n : order[i] \in DOMAIN files
  BY OrdersAre
<1>2. \A i \in 1..n : h[i] = Write(<<order[i], s>>, files[order[i]])
  BY DEF CopyFile, CopyFiles
<1>3. h \in [1..n -> Seq(S)]
  BY <1>1, CopyFileIs DEF CopyFiles
<1>4. PICK f : f = [i \in 0..n |-> IF i = 0 THEN <<>> ELSE f[i - 1] \o h[i]]
  <2> HIDE DEF h, n, S
  <2> QED
    BY <1>1, <1>3, JoinExists
<1>5. Rec(f)
  <2>1. \A i \in 0..n : i # 0 => i \in 1..n
    BY <1>1
  <2>2. [i \in 0..n |-> IF i = 0 THEN <<>> ELSE f[i - 1] \o h[i]]
        = [i \in 0..n |-> IF i = 0 THEN <<>> ELSE f[i - 1] \o Write(<<order[i], s>>, files[order[i]])]
    BY <1>2, <2>1
  <2> QED
    BY <1>4, <2>2
<1>6. Rec(F)
  BY <1>5
<1>7. CopyDir(files, s, order) = start \o IF n = 0 THEN <<>> ELSE F[n]
  BY DEF CopyDir
<1> HIDE DEF F
<1>8. F = [i \in 0..n |-> IF i = 0 THEN <<>> ELSE F[i - 1] \o h[i]]
  <2>1. \A i \in 0..n : i # 0 => i \in 1..n
    BY <1>1
  <2>2. [i \in 0..n |-> IF i = 0 THEN <<>> ELSE F[i - 1] \o h[i]]
        = [i \in 0..n |-> IF i = 0 THEN <<>> ELSE F[i - 1] \o Write(<<order[i], s>>, files[order[i]])]
    BY <1>2, <2>1
  <2> QED
    BY <1>6, <2>2
<1>9. F[0] = <<>>
  <2>1. 0 \in 0..n
    BY <1>1
  <2> HIDE DEF h
  <2> QED
    BY <1>8, <2>1
<1>10. CopyDir(files, s, order) = start \o F[n]
  BY <1>7, <1>9
<1>11. Joins(F, h, n)
  BY <1>8 DEF Joins
<1> QED
  BY <1>3, <1>10, <1>11

\* Every file that a version ships, copied in any order.
LEMMA CopyPiece ==
    ASSUME NEW files, ShipmentOK(files), NEW s \in Skills, NEW order \in Orders(DOMAIN files)
    PROVE  Piece(CopyDir(files, s, order))
<1> DEFINE n == Len(order)
           start == <<Op("mkdir", SkillDir(s), NoData)>>
<1>1. n \in Nat /\ \A i \in 1..n : order[i] \in DOMAIN files
  BY OrdersAre
<1>2. Piece(start)
  <2>1. GoodOp(Op("mkdir", SkillDir(s), NoData)) /\ Op("mkdir", SkillDir(s), NoData).do = "mkdir"
    BY DEF Op, GoodOp
  <2> QED
    BY <2>1, PieceOne
<1> DEFINE h == CopyFiles(files, s, order)
<1>3. PICK F : Joins(F, h, n) /\ CopyDir(files, s, order) = start \o F[n]
  BY CopyDirIs
<1>4. \A i \in 1..n : Piece(h[i])
  BY <1>1, FileWrite DEF CopyFile, CopyFiles
<1>5. Piece(F[n])
  <2> HIDE DEF n, h
  <2> QED
    BY <1>1, <1>3, <1>4, JoinPiece
<1> HIDE DEF start, n
<1> QED
  BY <1>2, <1>3, <1>5, PieceConcat

\* An operation of the given kind leaves pieces to do and the disk quiet.
Quietly(op, d, results) == \A r \in results : Piece(r.then) /\ QuietDisk(op, d, r.disk)

LEMMA GoIs ==
    ASSUME NEW d, NEW then
    PROVE  /\ Go(d, then).disk = d /\ Go(d, then).then = then
           /\ Fails(d).disk = d /\ Fails(d).then = <<>>
  BY DEF Go, Fails

LEMMA QuietSame ==
    ASSUME NEW op, NEW d, DiskOK(d), op.do \notin {"unlink", "clear"}
    PROVE  QuietDisk(op, d, d)
  BY DEF QuietDisk

LEMMA JudgedPaths == Judged \subseteq Paths /\ \A s : SkillDir(s) \notin Judged
<1>1. \A s, n : SkillDir(s) # ManifestFile(n) /\ SkillDir(s) # SpecFile(n)
  BY DEF SkillDir, ManifestFile, SpecFile
<1>2. \A s : SkillDir(s) \notin {PrivateKey, PublicKey, Credentials}
  BY DEF SkillDir, PrivateKey, PublicKey, Credentials
<1> QED
  BY <1>1, <1>2, PathsAre DEF Judged, Stays

LEMMA QuietWrites ==
    ASSUME NEW op, NEW d, DiskOK(d), NEW path \in Paths \ Stays, NEW w,
           w = None \/ (w = Dir /\ TextFor(path, Dir) /\ path \notin Judged),
           op.do \in {"unlink", "clear"} => op.at = path
    PROVE  QuietDisk(op, d, [d EXCEPT ![path] = w])
<1> DEFINE e == [d EXCEPT ![path] = w]
<1>1. DOMAIN d = Paths
  BY DEF DiskOK
<1>2. DOMAIN e = Paths /\ e[path] = w /\ \A o \in Paths \ {path} : e[o] = d[o]
  BY <1>1
<1> HIDE DEF e
<1>3. w # Empty /\ ~Openapi(w)
  BY TextsDiffer
<1>4. DiskOK(e)
  BY <1>2 DEF DiskOK
<1>5. ASSUME NEW other \in Judged PROVE e[other] \in {d[other], None}
  <2>1. other \in Paths
    BY JudgedPaths
  <2> QED
    BY <1>2, <2>1
<1>6. QuietDisk(op, d, e)
  BY <1>2, <1>3, <1>4, <1>5 DEF QuietDisk
<1> QED
  BY <1>6 DEF e

LEMMA NotStays ==
    /\ \A n \in Names : ManifestFile(n) \in Paths \ Stays /\ CacheFile(n) \in Paths \ Stays
    /\ \A s \in Skills : SkillDir(s) \in Paths \ Stays /\ FilesOf(s) \subseteq Paths \ Stays
<1>1. \A n : CacheFile(n) # PrivateKey /\ CacheFile(n) # PublicKey /\ ManifestFile(n) # PrivateKey
             /\ ManifestFile(n) # PublicKey /\ SkillDir(n) # PrivateKey /\ SkillDir(n) # PublicKey
  BY DEF CacheFile, PrivateKey, PublicKey, ManifestFile, SkillDir
<1>2. \A n, m : CacheFile(n) # SpecFile(m) /\ ManifestFile(n) # SpecFile(m) /\ SkillDir(n) # SpecFile(m)
  BY DEF CacheFile, SpecFile, ManifestFile, SkillDir
<1>3. \A s : \A f \in FilesOf(s) : f \notin Stays
  BY PathsDiffer DEF Stays, TopFiles
<1>4. \A n : CacheFile(n) \notin Stays /\ ManifestFile(n) \notin Stays /\ SkillDir(n) \notin Stays
  BY <1>1, <1>2 DEF Stays
<1> QED
  BY <1>3, <1>4, PathsAre

\* A look at each entry of the cache.
LEMMA VisitsPiece == Piece(Visits)
<1>1. Order \in Seq(Names)
  BY ProviderFilesAssumption DEF Names
<1>2. DOMAIN Order = 1..Len(Order) /\ Len(Order) \in Nat /\ \A i \in DOMAIN Order : Order[i] \in Names
  BY <1>1
<1> DEFINE V == {Op("visit", CacheFile(n), NoData) : n \in Names}
<1>3. \A i \in DOMAIN Order : Op("visit", CacheFile(Order[i]), NoData) \in V
  BY <1>2
<1> HIDE DEF V
<1>4. Visits \in [1..Len(Order) -> V]
  BY <1>2, <1>3 DEF Visits
<1>5. Visits \in Seq(V)
  <2>1. ASSUME NEW c \in Nat, NEW D, NEW v \in [1..c -> D] PROVE v \in Seq(D)
    OBVIOUS
  <2> QED
    BY <1>2, <1>4, <2>1
<1>6. IsSeq(Visits) /\ DOMAIN Visits = DOMAIN Order
  BY <1>5, IsSeqIntro DEF Visits
<1>7. ASSUME NEW i \in DOMAIN Visits
      PROVE  Harmless(Visits[i]) /\ Visits[i].do = "visit"
  <2>1. Visits[i] = Op("visit", CacheFile(Order[i]), NoData) /\ Order[i] \in Names
    BY <1>2, <1>6 DEF Visits
  <2>2. Visits[i].do = "visit" /\ Visits[i].at = CacheFile(Order[i])
    BY <2>1 DEF Op
  <2>3. GoodOp(Visits[i])
    BY <2>1, <2>2 DEF GoodOp
  <2> QED
    BY <2>2, <2>3 DEF Harmless
<1>8. Shaped(Visits)
  BY <1>6, <1>7 DEF Shaped, Harmless
<1>9. Visits # <<>> => 1 \in DOMAIN Visits
  BY <1>6, SeqIs
<1> QED
  BY <1>7, <1>8, <1>9 DEF Piece

\* The calls of file operations, an open and a write aside.
LEMMA FileQuiet ==
    ASSUME NEW op, NEW d, DiskOK(d), GoodOp(op), op.do \in FileOps \ {"open", "fill"}
    PROVE  Quietly(op, d, FileResults(op, d))
<1>1. CASE op.do = "new"
  <2>1. FileResults(op, d) = {IF Exists(d, op.at) THEN Fails(d) ELSE Go(d, <<>>)}
    BY <1>1 DEF FileResults
  <2> QED
    BY <1>1, <2>1, GoIs, PieceNone, QuietSame DEF Quietly
<1>2. CASE op.do = "present"
  <2>1. FileResults(op, d) = {IF Exists(d, op.at) THEN Go(d, <<>>) ELSE Fails(d)}
    BY <1>2 DEF FileResults
  <2> QED
    BY <1>2, <2>1, GoIs, PieceNone, QuietSame DEF Quietly
<1>3. CASE op.do = "unlink"
  <2>1. FileResults(op, d) = {IF Exists(d, op.at) THEN Go([d EXCEPT ![op.at] = None], <<>>) ELSE Fails(d)}
    BY <1>3 DEF FileResults
  <2>2. op.at \in Paths \ Stays
    BY <1>3, NotStays DEF GoodOp
  <2>3. QuietDisk(op, d, [d EXCEPT ![op.at] = None])
    BY <2>2, QuietWrites
  <2>4. ~Exists(d, op.at) => QuietDisk(op, d, d)
    BY TextsDiffer DEF Exists, QuietDisk
  <2> QED
    BY <2>1, <2>3, <2>4, GoIs, PieceNone DEF Quietly
<1>4. CASE op.do = "clear"
  <2>1. FileResults(op, d) = {Go([d EXCEPT ![op.at] = None], <<>>)}
    BY <1>4 DEF FileResults
  <2>2. op.at \in Paths \ Stays
    BY <1>4, NotStays DEF GoodOp
  <2>3. QuietDisk(op, d, [d EXCEPT ![op.at] = None])
    BY <2>2, QuietWrites
  <2> QED
    BY <2>1, <2>3, GoIs, PieceNone DEF Quietly
<1>5. CASE op.do = "fetch"
  <2>1. FileResults(op, d) = {Go(d, <<>>), Fails(d)}
    BY <1>5 DEF FileResults
  <2> QED
    BY <1>5, <2>1, GoIs, PieceNone, QuietSame DEF Quietly
<1>6. CASE op.do = "visit"
  <2>1. FileResults(op, d) = {Go(d, IF d[op.at].is = "cached" /\ IsExpired(d[op.at])
                                    THEN <<Clears(op.at)>> ELSE <<>>)}
    BY <1>6 DEF FileResults
  <2>2. Piece(<<Clears(op.at)>>)
    <3>1. Clears(op.at).do = "clear" /\ Clears(op.at).at = op.at
      BY DEF Clears, Op
    <3>2. GoodOp(Clears(op.at))
      BY <1>6, <3>1 DEF GoodOp
    <3> QED
      BY <3>1, <3>2, PieceOne
  <2> QED
    BY <1>6, <2>1, <2>2, GoIs, PieceNone, QuietSame DEF Quietly
<1>7. CASE op.do = "load"
  <2> DEFINE fails == <<Op("fail", op.at, NoData)>>
  <2>1. FileResults(op, d) = {IF ~RegistryLoads(d) THEN Fails(d)
                              ELSE Go(d, Visits \o IF op.at \in Providers(d) THEN op.with.then ELSE fails)}
    BY <1>7 DEF FileResults
  <2>2. Piece(fails)
    <3>1. Op("fail", op.at, NoData).do = "fail"
      BY DEF Op
    <3>2. GoodOp(Op("fail", op.at, NoData))
      BY <3>1 DEF GoodOp
    <3> QED
      BY <3>1, <3>2, PieceOne
  <2>3. Piece(op.with.then)
    BY <1>7, PiecePlain DEF GoodOp
  <2> HIDE DEF fails
  <2>4. Piece(Visits \o op.with.then) /\ Piece(Visits \o fails)
    BY <2>2, <2>3, VisitsPiece, PieceConcat
  <2> QED
    BY <1>7, <2>1, <2>4, GoIs, PieceNone, QuietSame DEF Quietly
<1>8. CASE op.do = "fail"
  <2>1. FileResults(op, d) = {Fails(d)}
    BY <1>8 DEF FileResults
  <2> QED
    BY <1>8, <2>1, GoIs, PieceNone, QuietSame DEF Quietly
<1> QED
  BY <1>1, <1>2, <1>3, <1>4, <1>5, <1>6, <1>7, <1>8 DEF FileOps

\* What is written at the top of the directory, and to manifests and to skills.
LEMMA TopWrite ==
    ASSUME NEW w, NEW path,
           \/ path = Config /\ w.is = "config"
           \/ path = Credentials /\ w.is = "keys"
    PROVE  Piece(Write(path, w))
<1>1. path \in TopFiles /\ path \in Paths /\ path \notin {PrivateKey, PublicKey}
  BY PathsAre, PathsDiffer DEF TopFiles
<1>2. \A n : path # ManifestFile(n) /\ path # SpecFile(n) /\ path # SkillToml(n) /\ path # BundledProvider(n)
  BY <1>1, PathsDiffer DEF FilesOf
<1>3. TextFor(path, w)
  BY <1>2, PathsDiffer DEF TextFor
<1> QED
  BY <1>1, <1>2, <1>3, PieceWrite

LEMMA ManifestWrite ==
    ASSUME NEW n \in Names, NEW w, w.is \in {"manifest", "junk"}, ~Openapi(w)
    PROVE  Piece(Write(ManifestFile(n), w))
<1>1. ManifestFile(n) \in Paths /\ ManifestFile(n) \notin TopFiles
  BY PathsAre, PathsDiffer
<1>2. TextFor(ManifestFile(n), w)
  BY <1>1, PathsDiffer DEF TextFor, TopFiles
<1> QED
  BY <1>1, <1>2, PieceWrite DEF TopFiles

LEMMA CacheWrite ==
    ASSUME NEW n \in Names, NEW w, w.is = "cached"
    PROVE  Piece(Write(CacheFile(n), w))
<1>1. CacheFile(n) \in Paths /\ CacheFile(n) \notin TopFiles
  BY PathsAre, PathsDiffer
<1>2. \A m : CacheFile(n) # ManifestFile(m) /\ CacheFile(n) # SpecFile(m) /\ CacheFile(n) # SkillToml(m)
             /\ CacheFile(n) # BundledProvider(m)
  BY DEF CacheFile, ManifestFile, SpecFile, SkillToml, BundledProvider
<1>3. TextFor(CacheFile(n), w)
  BY <1>1, <1>2 DEF TextFor, TopFiles
<1> QED
  BY <1>1, <1>2, <1>3, PieceWrite DEF TopFiles

LEMMA TomlWrite ==
    ASSUME NEW s \in Skills, NEW t, TomlOK(t) \/ t = Mixed
    PROVE  Piece(Write(SkillToml(s), t))
<1>1. SkillToml(s) \in Paths /\ SkillToml(s) \in FilesOf(s)
  BY PathsAre DEF FilesOf
<1>2. SkillToml(s) \notin TopFiles /\ \A n : SkillToml(s) # ManifestFile(n) /\ SkillToml(s) # SpecFile(n)
  BY <1>1, PathsDiffer
<1>3. \A r : SkillToml(s) # BundledProvider(r)
  BY DEF SkillToml, BundledProvider
<1>4. TextFor(SkillToml(s), t)
  <2>1. t.is \in {"toml", "mixed"}
    <3>1. Mixed.is = "mixed"
      BY DEF Mixed
    <3> QED
      BY <3>1 DEF TomlOK
  <2> QED
    BY <1>2, <1>3, <2>1 DEF TextFor, TopFiles
<1> QED
  BY <1>1, <1>2, <1>4, PieceWrite DEF TopFiles

LEMMA MdWrite ==
    ASSUME NEW s \in Skills, NEW w, w.is = "text"
    PROVE  Piece(Write(SkillMd(s), w)) /\ TextFor(SkillMd(s), w)
<1>1. SkillMd(s) \in Paths /\ SkillMd(s) \in FilesOf(s)
  BY PathsAre DEF FilesOf
<1>2. SkillMd(s) \notin TopFiles /\ \A n : SkillMd(s) # ManifestFile(n) /\ SkillMd(s) # SpecFile(n)
  BY <1>1, PathsDiffer
<1>3. \A r : SkillMd(s) # BundledProvider(r) /\ SkillMd(s) # SkillToml(r)
  BY DEF SkillToml, BundledProvider, SkillMd
<1>4. TextFor(SkillMd(s), w)
  BY <1>2, <1>3 DEF TextFor, TopFiles
<1> QED
  BY <1>1, <1>2, <1>4, PieceWrite DEF TopFiles

\* The calls of init and of the commands on keys.
LEMMA HomeQuiet ==
    ASSUME NEW op, NEW d, DiskOK(d), op.do \in HomeOps
    PROVE  Quietly(op, d, HomeResults(op, d))
<1>1. CASE op.do = "default"
  <2> DEFINE w == Write(Config, ConfigText("none", NoPair))
  <2>1. HomeResults(op, d) = {Go(d, IF Exists(d, Config) THEN <<>> ELSE w)}
    BY <1>1 DEF HomeResults
  <2>2. Piece(w)
    <3>1. ConfigText("none", NoPair).is = "config"
      BY DEF ConfigText
    <3> QED
      BY <3>1, TopWrite
  <2> HIDE DEF w
  <2> QED
    BY <1>1, <2>1, <2>2, GoIs, PieceNone, QuietSame DEF Quietly
<1>2. CASE op.do = "set key"
  <2> DEFINE w == Write(Credentials, Keys(LoadCredentials(d) \cup {op.with}))
  <2>1. HomeResults(op, d) = {IF CredentialsLoad(d) THEN Go(d, w) ELSE Fails(d)}
    BY <1>2 DEF HomeResults
  <2>2. Piece(w)
    <3>1. Keys(LoadCredentials(d) \cup {op.with}).is = "keys"
      BY DEF Keys
    <3> QED
      BY <3>1, TopWrite
  <2> HIDE DEF w
  <2>3. \A r \in HomeResults(op, d) : r = Go(d, w) \/ r = Fails(d)
    BY <2>1
  <2>4. QuietDisk(op, d, d)
    BY <1>2, QuietSame
  <2> QED
    BY <2>2, <2>3, <2>4, GoIs, PieceNone DEF Quietly
<1>3. CASE op.do = "remove key"
  <2> DEFINE w == Write(Credentials, Keys(LoadCredentials(d) \ {op.with}))
  <2>1. HomeResults(op, d) = {IF CredentialsLoad(d) /\ op.with \in LoadCredentials(d)
                              THEN Go(d, w) ELSE Fails(d)}
    BY <1>3 DEF HomeResults
  <2>2. Piece(w)
    <3>1. Keys(LoadCredentials(d) \ {op.with}).is = "keys"
      BY DEF Keys
    <3> QED
      BY <3>1, TopWrite
  <2> HIDE DEF w
  <2>3. \A r \in HomeResults(op, d) : r = Go(d, w) \/ r = Fails(d)
    BY <2>1
  <2>4. QuietDisk(op, d, d)
    BY <1>3, QuietSame
  <2> QED
    BY <2>2, <2>3, <2>4, GoIs, PieceNone DEF Quietly
<1> QED
  BY <1>1, <1>2, <1>3 DEF HomeOps

\* What is read of a skill.toml names a provider and a source that there are.
LEMMA ReadTomlOK ==
    ASSUME NEW d, DiskOK(d), NEW s \in Skills
    PROVE  TomlOK(ReadToml(d, s)) /\ ProviderOf(d, s) \in Names
<1>1. TomlOK(ReadToml(d, s))
  <2>1. CASE d[SkillToml(s)].is = "toml"
    <3>1. d[SkillToml(s)] # None /\ d[SkillToml(s)] # Empty /\ d[SkillToml(s)] # Mixed
      BY <2>1 DEF None, Empty, Mixed
    <3>2. TextFor(SkillToml(s), d[SkillToml(s)])
      BY <3>1, PathsAre DEF DiskOK
    <3> QED
      BY <2>1, <3>1, <3>2 DEF TextFor, ReadToml
  <2>2. CASE d[SkillToml(s)].is # "toml"
    BY <2>2 DEF ReadToml, Unsigned, Toml, TomlOK, SourceOK
  <2> QED
    BY <2>1, <2>2
<1>2. s \in Names
  BY AtiHomeAssumption DEF AtiHomeAssumption
<1> QED
  BY <1>1, <1>2 DEF ProviderOf, TomlOK

LEMMA BundlePiece ==
    ASSUME NEW d, DiskOK(d), NEW s \in Skills
    PROVE  Piece(Bundle(s, d).then) /\ Bundle(s, d).disk = d
<1> DEFINE b == d[BundledProvider(s)]
<1>1. b \in {None, Empty, Mixed} \/ TextFor(BundledProvider(s), b)
  BY PathsAre DEF DiskOK
<1>2. ASSUME b # None, b.is \notin {"empty", "mixed"}
      PROVE  Piece(Write(ManifestFile(b.name), b))
  <2>1. BundleOK(b)
    <3>1. Empty.is = "empty" /\ Mixed.is = "mixed"
      BY DEF Empty, Mixed
    <3> QED
      BY <1>1, <1>2, <3>1 DEF TextFor
  <2> QED
    BY <2>1, ManifestWrite DEF BundleOK, Openapi
<1> QED
  BY <1>2, GoIs, PieceNone DEF Bundle, Exists

LEMMA GeneratePiece ==
    ASSUME NEW d, DiskOK(d), NEW s \in Skills, NEW r \in Generate(s, d)
    PROVE  Piece(r.then) /\ r.disk = d
<1> DEFINE n == ProviderOf(d, s)
           gives(text) == IF LooksLikeManifest(text) THEN Go(d, Write(ManifestFile(n), text))
                          ELSE Go(d, Bundle(s, d).then)
<1>1. \/ r = Go(d, <<>>)
      \/ \E text \in OllamaAnswers(n) \cup ApiAnswers(n) : r = gives(text)
  BY DEF Generate
<1>2. CASE r = Go(d, <<>>)
  BY <1>2, GoIs, PieceNone
<1>3. CASE \E text \in OllamaAnswers(n) \cup ApiAnswers(n) : r = gives(text)
  <2>1. PICK text \in OllamaAnswers(n) \cup ApiAnswers(n) : r = gives(text)
    BY <1>3
  <2>2. n \in Names
    BY ReadTomlOK
  <2>3. CASE LooksLikeManifest(text)
    <3>1. text \in {Manifest(n, "http"), Junk(n), NoText}
      BY DEF OllamaAnswers, ApiAnswers
    <3>2. ~Openapi(text) /\ text.is \in {"manifest", "junk"}
      <4>1. /\ Manifest(n, "http").is = "manifest" /\ Manifest(n, "http").handler = "http"
            /\ Junk(n).is = "junk" /\ NoText.is = "no text"
        BY DEF Manifest, Junk, NoText
      <4>2. text # NoText
        BY <2>3, <4>1 DEF LooksLikeManifest
      <4> QED
        BY <3>1, <4>1, <4>2 DEF Openapi
    <3>3. Piece(Write(ManifestFile(n), text))
      BY <2>2, <3>2, ManifestWrite
    <3> QED
      BY <2>1, <2>3, <3>3, GoIs
  <2>4. CASE ~LooksLikeManifest(text)
    BY <2>1, <2>4, GoIs, BundlePiece
  <2> QED
    BY <2>3, <2>4
<1> QED
  BY <1>1, <1>2, <1>3

LEMMA CopiesQuiet ==
    ASSUME NEW op, NEW d, DiskOK(d), op.do \in {"copy", "clone"}, GoodOp(op),
           NEW version \in 1..MaxVersion[op.with.url]
    PROVE  Quietly(op, d, Copies(op, d, version))
<1> DEFINE files == Ships(op.with.url, version)
<1>1. op.at \in Skills /\ op.with.url \in Urls /\ Plain(op.with.tail)
  BY DEF GoodOp
<1>2. ShipmentOK(files)
  BY <1>1, AtiHomeAssumption DEF AtiHomeAssumption
<1>3. Copies(op, d, version) =
        {Go(d, CopyDir(files, op.at, o) \o op.with.tail) : o \in Orders(DOMAIN files)}
  BY DEF Copies
<1> HIDE DEF files
<1>4. ASSUME NEW o \in Orders(DOMAIN files)
      PROVE  Piece(CopyDir(files, op.at, o) \o op.with.tail)
  BY <1>1, <1>2, CopyPiece, PiecePlain, PieceConcat
<1>5. QuietDisk(op, d, d)
  BY QuietSame
<1> QED
  BY <1>3, <1>4, <1>5, GoIs DEF Quietly

LEMMA SignQuiet ==
    ASSUME NEW op, NEW d, DiskOK(d), op.do = "sign", GoodOp(op)
    PROVE  Quietly(op, d, Sign(op, d))
<1> DEFINE s == op.at
           signed == Toml(ReadToml(d, s).provider, Hash(d[SkillMd(s)]), op.with.url, op.with.pin)
<1>1. s \in Skills /\ SourceOK(op.with.url, op.with.pin)
  BY DEF GoodOp, PlainOp
<1>2. TomlOK(ReadToml(d, s))
  BY <1>1, ReadTomlOK
<1>3. /\ signed.is = "toml" /\ signed.provider = ReadToml(d, s).provider
      /\ signed.url = op.with.url /\ signed.pin = op.with.pin
  BY DEF Toml
<1>4. \A r \in Sign(op, d) : \E text \in {signed, Mixed} :
        r = Go(d, IF Exists(d, SkillMd(s)) THEN Write(SkillToml(s), text) ELSE <<>>)
  BY DEF Sign
<1> HIDE DEF signed
<1>5. TomlOK(signed)
  BY <1>1, <1>2, <1>3 DEF TomlOK
<1>6. \A text \in {signed, Mixed} : Piece(Write(SkillToml(s), text))
  BY <1>1, <1>5, TomlWrite
<1>7. QuietDisk(op, d, d)
  BY QuietSame
<1> SUFFICES ASSUME NEW r \in Sign(op, d) PROVE Piece(r.then) /\ QuietDisk(op, d, r.disk)
  BY DEF Quietly
<1>8. PICK text \in {signed, Mixed} :
        r = Go(d, IF Exists(d, SkillMd(s)) THEN Write(SkillToml(s), text) ELSE <<>>)
  BY <1>4
<1> QED
  BY <1>6, <1>7, <1>8, GoIs, PieceNone

\* The tails of an installation.
LEMMA FinishPlain ==
    ASSUME NEW s \in Skills, NEW url, NEW pin, SourceOK(url, pin)
    PROVE  Plain(Finish(s, url, pin))
<1> DEFINE a == Op("sign", s, [url |-> url, pin |-> pin])
           b == Op("generate", s, NoData)
<1>1. PlainOp(a) /\ PlainOp(b)
  BY DEF PlainOp, Op
<1>2. Finish(s, url, pin) = <<a, b>>
  BY DEF Finish
<1> HIDE DEF a, b
<1>3. <<a, b>> \in Seq({a, b}) /\ DOMAIN <<a, b>> = {1, 2} /\ <<a, b>>[1] = a /\ <<a, b>>[2] = b
  OBVIOUS
<1> QED
  BY <1>1, <1>2, <1>3, IsSeqIntro DEF Plain

LEMMA ClonePiece ==
    ASSUME NEW s \in Skills, NEW url \in Urls, NEW pin \in 0..MaxVersion[url], NEW tail, Plain(tail),
           NEW do \in {"clone", "copy"}
    PROVE  Piece(<<Op(do, s, [url |-> url, pin |-> pin, tail |-> tail])>>)
<1> DEFINE op == Op(do, s, [url |-> url, pin |-> pin, tail |-> tail])
<1>1. /\ op.do = do /\ op.at = s /\ op.with.url = url /\ op.with.pin = pin
      /\ op.with.tail = tail
  BY DEF Op
<1> HIDE DEF op
<1>2. GoodOp(op) /\ op.do \notin {"open", "fill"}
  BY <1>1 DEF GoodOp
<1>3. Piece(<<op>>)
  BY <1>2, PieceOne
<1> QED
  BY <1>3 DEF op

LEMMA InstallPiece ==
    ASSUME NEW s \in Skills, NEW url \in Urls, NEW pin \in 0..MaxVersion[url]
    PROVE  Piece(Install(s, url, pin))
<1>1. Plain(Finish(s, url, pin))
  BY FinishPlain DEF SourceOK
<1> QED
  BY <1>1, ClonePiece DEF Install

LEMMA VersionsAre ==
    ASSUME NEW url \in Urls
    PROVE  MaxVersion[url] \in Nat \ {0} /\ NoPin \in 0..MaxVersion[url]
  BY AtiHomeAssumption DEF AtiHomeAssumption, NoPin

LEMMA FromUrlPiece ==
    ASSUME NEW s \in Skills, NEW url \in Urls
    PROVE  /\ Piece(InstallFromUrl(s, url))
           /\ InstallFromUrl(s, url) \in
                Seq({Op("clone", s, [url |-> url, pin |-> NoPin, tail |-> <<Op("bundle", s, NoData)>>]), End})
<1> DEFINE b == Op("bundle", s, NoData)
           c == Op("clone", s, [url |-> url, pin |-> NoPin, tail |-> <<b>>])
<1>1. PlainOp(b)
  BY DEF PlainOp, Op
<1>2. Plain(<<b>>)
  <2> HIDE DEF b
  <2> QED
    BY <1>1, OneIs DEF Plain
<1>3. Harmless(c) /\ c.do \notin {"open", "fill"} /\ GoodOp(c)
  <2>1. /\ c.do = "clone" /\ c.at = s /\ c.with.url = url /\ c.with.pin = NoPin
        /\ c.with.tail = <<b>>
    BY DEF Op
  <2> HIDE DEF b, c
  <2>2. GoodOp(c)
    BY <1>2, <2>1, VersionsAre DEF GoodOp
  <2> QED
    BY <2>1, <2>2 DEF Harmless
<1>4. GoodOp(End) /\ End.do \notin {"open", "fill"}
  BY DEF End, Op, GoodOp
<1>5. InstallFromUrl(s, url) = <<c, End>>
  BY DEF InstallFromUrl
<1> HIDE DEF c
<1>6. InstallFromUrl(s, url) \in Seq({c, End}) /\ Piece(InstallFromUrl(s, url))
  BY <1>3, <1>4, <1>5, PieceTwo
<1> QED
  BY <1>6 DEF c

LEMMA UpdateQuiet ==
    ASSUME NEW op, NEW d, DiskOK(d), op.do = "update", GoodOp(op)
    PROVE  Quietly(op, d, {Reinstall(op, d)})
<1> DEFINE t == ReadToml(d, op.at)
           r == Op("rmdir", op.at, NoData)
           w == <<r>> \o Install(op.at, t.url, t.pin)
<1>1. op.at \in Skills
  BY DEF GoodOp
<1>2. TomlOK(t)
  BY <1>1, ReadTomlOK
<1>3. Piece(<<r>>)
  <2>1. r.do = "rmdir" /\ r.at = op.at
    BY DEF Op
  <2>2. GoodOp(r)
    BY <1>1, <2>1 DEF GoodOp
  <2> QED
    BY <2>1, <2>2, PieceOne
<1>4. t.url # NoUrl => Piece(w)
  <2>1. t.url # NoUrl => t.url \in Urls /\ t.pin \in 0..MaxVersion[t.url]
    BY <1>2 DEF TomlOK, SourceOK
  <2> HIDE DEF t, r
  <2> QED
    BY <1>1, <1>3, <2>1, InstallPiece, PieceConcat
<1>5. Reinstall(op, d) = Fails(d) \/ (t.url # NoUrl /\ Reinstall(op, d) = Go(d, w))
  BY DEF Reinstall
<1>6. QuietDisk(op, d, d)
  BY QuietSame
<1> HIDE DEF w, t
<1> QED
  BY <1>4, <1>5, <1>6, GoIs, PieceNone DEF Quietly

\* The skills that a manifest declares, installed one after the other.
CloneOps ==
    {End} \cup {Op("clone", x.skill, [url |-> x.url, pin |-> NoPin, tail |-> <<Op("bundle", x.skill, NoData)>>]) :
                  x \in [skill : Skills, url : Urls]}
LEMMA SkillsAre ==
    ASSUME NEW urls \in Seq([skill : Skills, url : Urls])
    PROVE  LET Each[i \in 0..Len(urls)] == IF i = 0 THEN <<>>
                   ELSE Each[i - 1] \o InstallFromUrl(urls[i].skill, urls[i].url)
           IN  \E h, F :
                 /\ h \in [1..Len(urls) -> Seq(CloneOps)] /\ \A i \in 1..Len(urls) : Piece(h[i])
                 /\ Joins(F, h, Len(urls)) /\ Each[Len(urls)] = F[Len(urls)]
<1> DEFINE n == Len(urls)
           h == [i \in 1..n |-> InstallFromUrl(urls[i].skill, urls[i].url)]
           S == CloneOps
           Rec(f) == f = [i \in 0..n |->
                            IF i = 0 THEN <<>>
                            ELSE f[i - 1] \o InstallFromUrl(urls[i].skill, urls[i].url)]
           F == CHOOSE f : Rec(f)
<1>1. n \in Nat /\ \A i \in 1..n : /\ urls[i] \in [skill : Skills, url : Urls]
                                   /\ urls[i].skill \in Skills /\ urls[i].url \in Urls
  <2>0. ASSUME NEW R, NEW u \in Seq(R) PROVE Len(u) \in Nat /\ \A i \in 1..Len(u) : u[i] \in R
    BY <2>0
  <2>1. n \in Nat /\ \A i \in 1..n : urls[i] \in [skill : Skills, url : Urls]
    BY <2>0
  <2>2. \A x \in [skill : Skills, url : Urls] : x.skill \in Skills /\ x.url \in Urls
    OBVIOUS
  <2> QED
    BY <2>1, <2>2
<1>2. \A i \in 1..n : Piece(h[i]) /\ h[i] = InstallFromUrl(urls[i].skill, urls[i].url)
  BY <1>1, FromUrlPiece
<1>3. h \in [1..n -> Seq(S)]
  <2>1. ASSUME NEW i \in 1..n PROVE h[i] \in Seq(S)
    <3> DEFINE c == Op("clone", urls[i].skill, [url |-> urls[i].url, pin |-> NoPin,
                                 tail |-> <<Op("bundle", urls[i].skill, NoData)>>])
    <3>1. h[i] \in Seq({c, End})
      BY <1>1, FromUrlPiece
    <3>2. {c, End} \subseteq S
      BY <1>1 DEF CloneOps
    <3> HIDE DEF c, S, h
    <3> QED
      BY <3>1, <3>2, SeqMonotonic
  <2> HIDE DEF S
  <2> QED
    BY <2>1
<1> HIDE DEF S
<1>4. PICK f : f = [i \in 0..n |-> IF i = 0 THEN <<>> ELSE f[i - 1] \o h[i]]
  <2> HIDE DEF h, n
  <2> QED
    BY <1>1, <1>3, JoinExists
<1>5. Rec(f)
  <2>1. \A i \in 0..n : i # 0 => i \in 1..n
    BY <1>1
  <2>2. [i \in 0..n |-> IF i = 0 THEN <<>> ELSE f[i - 1] \o h[i]]
        = [i \in 0..n |-> IF i = 0 THEN <<>>
                          ELSE f[i - 1] \o InstallFromUrl(urls[i].skill, urls[i].url)]
    BY <2>1
  <2> QED
    BY <1>4, <2>2
<1>6. Rec(F)
  BY <1>5
<1>7. F = [i \in 0..n |-> IF i = 0 THEN <<>> ELSE F[i - 1] \o h[i]]
  <2> HIDE DEF F
  <2>1. \A i \in 0..n : i # 0 => i \in 1..n
    BY <1>1
  <2>2. [i \in 0..n |-> IF i = 0 THEN <<>> ELSE F[i - 1] \o h[i]]
        = [i \in 0..n |-> IF i = 0 THEN <<>>
                          ELSE F[i - 1] \o InstallFromUrl(urls[i].skill, urls[i].url)]
    BY <2>1
  <2> QED
    BY <1>6, <2>2
<1>8. \A i \in 1..n : Piece(h[i])
  BY <1>2
<1>9. Joins(F, h, n)
  BY <1>7 DEF Joins
<1> QED
  BY <1>3, <1>8, <1>9 DEF S

LEMMA SkillsPiece ==
    ASSUME NEW urls \in Seq([skill : Skills, url : Urls])
    PROVE  LET Each[i \in 0..Len(urls)] == IF i = 0 THEN <<>>
                   ELSE Each[i - 1] \o InstallFromUrl(urls[i].skill, urls[i].url)
           IN  Piece(Each[Len(urls)])
<1> DEFINE n == Len(urls)
           E == CHOOSE f : f = [i \in 0..n |-> IF i = 0 THEN <<>>
                     ELSE f[i - 1] \o InstallFromUrl(urls[i].skill, urls[i].url)]
<1>1. n \in Nat
  OBVIOUS
<1>2. PICK h, F :
        /\ \A i \in 1..n : Piece(h[i])
        /\ Joins(F, h, n) /\ E[n] = F[n]
  BY SkillsAre
<1> HIDE DEF E
<1>3. Piece(F[n])
  <2> HIDE DEF n
  <2> QED
    BY <1>1, <1>2, JoinPiece
<1>4. Piece(E[n])
  BY <1>2, <1>3
<1> QED
  BY <1>4 DEF E

\* The calls of the commands on skills.
LEMMA SkillQuiet ==
    ASSUME NEW op, NEW d, NEW h, DiskOK(d), GoodOp(op), op.do \in SkillOps,
           \A u \in Urls : h[u] \in 1..MaxVersion[u]
    PROVE  Quietly(op, d, SkillResults(op, d, h))
<1>1. CASE op.do = "mkdir"
  <2>1. SkillResults(op, d, h) = {Go([d EXCEPT ![op.at] = Dir], <<>>)}
    BY <1>1 DEF SkillResults
  <2>2. PICK s \in Skills : op.at = SkillDir(s)
    BY <1>1 DEF GoodOp
  <2>3. TextFor(SkillDir(s), Dir)
    <3>1. SkillDir(s) \in Paths /\ SkillDir(s) \notin TopFiles /\ Dir.is = "dir"
      BY PathsAre, PathsDiffer DEF Dir
    <3>2. \A n : SkillDir(s) # ManifestFile(n) /\ SkillDir(s) # SpecFile(n) /\ SkillDir(s) # SkillToml(n)
                 /\ SkillDir(s) # BundledProvider(n)
      BY DEF SkillDir, ManifestFile, SpecFile, SkillToml, BundledProvider
    <3> QED
      BY <3>1, <3>2 DEF TextFor, TopFiles
  <2>4. QuietDisk(op, d, [d EXCEPT ![op.at] = Dir])
    BY <1>1, <2>2, <2>3, NotStays, JudgedPaths, QuietWrites
  <2> QED
    BY <2>1, <2>4, GoIs, PieceNone DEF Quietly
<1>2. CASE op.do = "copy"
  <2>1. SkillResults(op, d, h) = Copies(op, d, h[op.with.url])
    BY <1>2 DEF SkillResults
  <2>2. op.with.url \in Urls
    BY <1>2 DEF GoodOp
  <2> QED
    BY <1>2, <2>1, <2>2, CopiesQuiet
<1>3. CASE op.do = "clone"
  <2> DEFINE v == IF op.with.pin = NoPin THEN h[op.with.url] ELSE op.with.pin
  <2>1. SkillResults(op, d, h) = {Fails(d)} \cup IF op.with.pin > h[op.with.url] THEN {} ELSE Copies(op, d, v)
    BY <1>3 DEF SkillResults
  <2>2. op.with.url \in Urls /\ op.with.pin \in 0..MaxVersion[op.with.url]
    BY <1>3 DEF GoodOp
  <2>3. v \in 1..MaxVersion[op.with.url]
    BY <2>2, VersionsAre DEF NoPin
  <2> HIDE DEF v
  <2>4. Quietly(op, d, Copies(op, d, v))
    BY <1>3, <2>3, CopiesQuiet
  <2>5. QuietDisk(op, d, d)
    BY <1>3, QuietSame
  <2> QED
    BY <2>1, <2>4, <2>5, GoIs, PieceNone DEF Quietly
<1>4. CASE op.do = "sign"
  <2>1. SkillResults(op, d, h) = Sign(op, d)
    BY <1>4 DEF SkillResults
  <2> QED
    BY <1>4, <2>1, SignQuiet
<1>5. CASE op.do = "generate"
  <2>1. SkillResults(op, d, h) = Generate(op.at, d)
    BY <1>5 DEF SkillResults
  <2>2. op.at \in Skills
    BY <1>5 DEF GoodOp, PlainOp
  <2>3. QuietDisk(op, d, d)
    BY <1>5, QuietSame
  <2> QED
    BY <2>1, <2>2, <2>3, GeneratePiece DEF Quietly
<1>6. CASE op.do = "bundle"
  <2>1. SkillResults(op, d, h) = {Bundle(op.at, d)}
    BY <1>6 DEF SkillResults
  <2>2. op.at \in Skills
    BY <1>6 DEF GoodOp, PlainOp
  <2>3. QuietDisk(op, d, d)
    BY <1>6, QuietSame
  <2> QED
    BY <2>1, <2>2, <2>3, BundlePiece DEF Quietly
<1>7. CASE op.do = "rmdir"
  <2> DEFINE some == \E f \in FilesOf(op.at) : Exists(d, f)
  <2>1. SkillResults(op, d, h) =
          IF some
          THEN {Go([d EXCEPT ![f] = None], <<op>>) : f \in {g \in FilesOf(op.at) : Exists(d, g)}}
          ELSE {Go([d EXCEPT ![SkillDir(op.at)] = None], <<>>)}
    BY <1>7 DEF SkillResults
  <2>2. op.at \in Skills
    BY <1>7 DEF GoodOp
  <2>3. Piece(<<op>>)
    BY <1>7, PieceOne
  <2>4. ASSUME NEW f \in FilesOf(op.at) PROVE QuietDisk(op, d, [d EXCEPT ![f] = None])
    BY <1>7, <2>2, NotStays, QuietWrites
  <2>5. QuietDisk(op, d, [d EXCEPT ![SkillDir(op.at)] = None])
    BY <1>7, <2>2, NotStays, QuietWrites
  <2>6. ASSUME NEW r \in SkillResults(op, d, h)
        PROVE  \/ r = Go([d EXCEPT ![SkillDir(op.at)] = None], <<>>)
               \/ \E f \in FilesOf(op.at) : r = Go([d EXCEPT ![f] = None], <<op>>)
    BY <2>1
  <2>7. ASSUME NEW r \in SkillResults(op, d, h) PROVE Piece(r.then) /\ QuietDisk(op, d, r.disk)
    <3>1. CASE r = Go([d EXCEPT ![SkillDir(op.at)] = None], <<>>)
      BY <2>5, <3>1, GoIs, PieceNone
    <3>2. CASE \E f \in FilesOf(op.at) : r = Go([d EXCEPT ![f] = None], <<op>>)
      <4>1. PICK f \in FilesOf(op.at) : r = Go([d EXCEPT ![f] = None], <<op>>)
        BY <3>2
      <4>2. r.disk = [d EXCEPT ![f] = None] /\ r.then = <<op>>
        BY <4>1, GoIs
      <4> QED
        BY <2>3, <2>4, <4>2
    <3> QED
      BY <2>6, <3>1, <3>2
  <2> QED
    BY <2>7 DEF Quietly
<1>8. CASE op.do = "update"
  <2>1. SkillResults(op, d, h) = {Reinstall(op, d)}
    BY <1>8 DEF SkillResults
  <2> QED
    BY <1>8, <2>1, UpdateQuiet
<1>9. CASE op.do = "skills"
  <2> DEFINE urls == Catalog[op.at]
             E == CHOOSE f : f = [i \in 0..Len(urls) |-> IF i = 0 THEN <<>>
                     ELSE f[i - 1] \o InstallFromUrl(urls[i].skill, urls[i].url)]
  <2>1. SkillResults(op, d, h) = {Go(d, E[Len(urls)])}
    BY <1>9 DEF SkillResults
  <2>2. urls \in Seq([skill : Skills, url : Urls])
    BY <1>9, AtiHomeAssumption DEF AtiHomeAssumption, GoodOp, PlainOp
  <2>3. Piece(E[Len(urls)])
    BY <2>2, SkillsPiece
  <2>4. QuietDisk(op, d, d)
    BY <1>9, QuietSame
  <2> HIDE DEF E
  <2> QED
    BY <2>1, <2>3, <2>4, GoIs DEF Quietly
<1>10. CASE op.do = "end"
  <2>1. SkillResults(op, d, h) = {Go(d, <<>>)}
    BY <1>10 DEF SkillResults
  <2>2. QuietDisk(op, d, d)
    BY <1>10, QuietSame
  <2> QED
    BY <2>1, <2>2, GoIs, PieceNone DEF Quietly
<1> QED
  BY <1>1, <1>2, <1>3, <1>4, <1>5, <1>6, <1>7, <1>8, <1>9, <1>10 DEF SkillOps

-----------------------------------------------------------------------------
(* The steps of a program                                                   *)

LEMMA StepIs ==
    ASSUME HomeInv, NEW p \in Procs, prog[p] # <<>>
    PROVE  Head(prog[p]) = prog[p][1] /\ GoodOp(prog[p][1]) /\ DiskOK(disk)
<1>1. Stands(prog[p], disk) /\ DiskOK(disk)
  BY DEF HomeInv
<1>2. IsSeq(prog[p])
  BY <1>1 DEF Stands, Shaped
<1>3. Head(prog[p]) = prog[p][1] /\ 1 \in DOMAIN prog[p]
  BY <1>2, TailIs
<1> QED
  BY <1>1, <1>3 DEF Stands, Shaped

LEMMA FileStepKeeps ==
    ASSUME HomeInv, CrossInv, NEW p \in Procs, FileStep(p)
    PROVE  HomeInv'
<1> DEFINE op == prog[p][1]
<1>1. prog[p] # <<>> /\ Head(prog[p]).do \in FileOps /\ Take(p, FileResults(Head(prog[p]), disk))
  BY DEF FileStep, Next1
<1>2. Head(prog[p]) = op /\ GoodOp(op) /\ DiskOK(disk)
  BY <1>1, StepIs
<1>3. CASE op.do = "open"
  BY <1>1, <1>2, <1>3, TakeOpen
<1>4. CASE op.do = "fill"
  BY <1>1, <1>2, <1>4, TakeFill
<1>5. CASE op.do \notin {"open", "fill"}
  <2>1. Quietly(op, disk, FileResults(op, disk))
    BY <1>1, <1>2, <1>5, FileQuiet
  <2> QED
    BY <1>1, <1>2, <1>5, <2>1, TakeQuiet DEF Quietly
<1> QED
  BY <1>3, <1>4, <1>5

LEMMA SkillStepKeeps ==
    ASSUME HomeInv, NEW p \in Procs, SkillStep(p)
    PROVE  HomeInv'
<1> DEFINE op == prog[p][1]
<1>1. prog[p] # <<>> /\ Head(prog[p]).do \in SkillOps /\ Take(p, SkillResults(Head(prog[p]), disk, head))
  BY DEF SkillStep, Next1
<1>2. Head(prog[p]) = op /\ GoodOp(op) /\ DiskOK(disk)
  BY <1>1, StepIs
<1>3. op.do \notin {"open", "fill"}
  BY <1>1, <1>2 DEF SkillOps
<1>4. Quietly(op, disk, SkillResults(op, disk, head))
  <2>1. \A u \in Urls : head[u] \in 1..MaxVersion[u]
    BY DEF HomeInv
  <2> QED
    BY <1>1, <1>2, <2>1, SkillQuiet
<1> QED
  BY <1>1, <1>2, <1>3, <1>4, TakeQuiet DEF Quietly

LEMMA HomeStepKeeps ==
    ASSUME HomeInv, NEW p \in Procs, HomeStep(p)
    PROVE  HomeInv'
<1> DEFINE op == prog[p][1]
<1>1. prog[p] # <<>> /\ Head(prog[p]).do \in HomeOps /\ Take(p, HomeResults(Head(prog[p]), disk))
  BY DEF HomeStep, Next1
<1>2. Head(prog[p]) = op /\ GoodOp(op) /\ DiskOK(disk)
  BY <1>1, StepIs
<1>3. op.do \notin {"open", "fill"}
  BY <1>1, <1>2 DEF HomeOps
<1>4. Quietly(op, disk, HomeResults(op, disk))
  BY <1>1, <1>2, HomeQuiet
<1> QED
  BY <1>1, <1>2, <1>3, <1>4, TakeQuiet DEF Quietly

\* Who has crossed whom, after a step of one process.
LEMMA JudgedTexts ==
    /\ \A path \in Judged : \A w : TextFor(path, w) => w # Mixed
    /\ \A path \in Judged : \A d : HasDirectory(d, path)
<1>1. ASSUME NEW path \in Judged
      PROVE  path[1] \in {"manifests", "specs", "file"}
  <2>1. \A n : ManifestFile(n)[1] = "manifests" /\ SpecFile(n)[1] = "specs"
    BY DEF ManifestFile, SpecFile
  <2>2. PrivateKey[1] = "file" /\ PublicKey[1] = "file" /\ Credentials[1] = "file"
    BY DEF PrivateKey, PublicKey, Credentials
  <2> QED
    BY <2>1, <2>2 DEF Judged, Stays
<1>2. ASSUME NEW path \in Judged, NEW d PROVE HasDirectory(d, path)
  BY <1>1 DEF HasDirectory
<1>3. ASSUME NEW path \in Judged, NEW w, TextFor(path, w) PROVE w # Mixed
  <2>1. Mixed.is = "mixed" /\ SpecText.is = "spec"
    BY DEF Mixed, SpecText
  <2> QED
    BY <1>3, <2>1 DEF TextFor, Judged, Stays
<1> QED
  BY <1>2, <1>3

LEMMA CrossStep ==
    ASSUME HomeInv, CrossInv, NEW p \in Procs, prog[p] # <<>>, NEW op, op = Head(prog[p]),
           op.do = "open" => op.at \in Paths /\ (op.at \in Judged => disk'[op.at] = Empty),
           alone' = alone, \A o \in Procs \ {p} : prog'[o] = prog[o],
           prog'[p] # <<>> /\ Head(prog'[p]).do = "fill" => op.do = "open" /\ Head(prog'[p]).at = op.at,
           crossed' = IF op.do # "open" THEN crossed
                      ELSE IF \E q \in Procs \ {p} : Writes(q, op.at) THEN crossed \cup {op.at}
                      ELSE crossed \ {op.at},
           \A path \in Judged : \/ disk'[path] \in {disk[path], None}
                                \/ op.do \in {"open", "fill"} /\ op.at = path,
           \A path \in Judged : Writes(p, path) =>
             \/ disk[path] \notin {None, Empty}
             \/ disk'[path] \in {None, Empty} \/ TextFor(path, disk'[path])
    PROVE  CrossInv'
<1>1. ASSUME NEW o \in Procs \ {p}, NEW path PROVE Writes(o, path)' <=> Writes(o, path)
  BY <1>1 DEF Writes
<1>2. crossed' \subseteq Paths
  BY DEF CrossInv
<1>3. ASSUME alone' PROVE crossed' = {}
  <2>1. crossed = {}
    BY <1>3 DEF CrossInv
  <2>2. \A q \in Procs \ {p} : ~Writes(q, op.at)
    <3> SUFFICES ASSUME NEW q \in Procs \ {p}, Writes(q, op.at) PROVE FALSE
      OBVIOUS
    <3>1. p \in Busy /\ q \in Busy
      BY DEF Busy, Writes
    <3> QED
      BY <1>3, <3>1 DEF HomeInv
  <2> QED
    BY <2>1, <2>2
<1>4. ASSUME NEW path \in Judged \ crossed' PROVE Apart(path)' /\ disk'[path] # Mixed
  <2>1. CASE op.do = "open" /\ op.at = path
    <3>1. \A q \in Procs \ {p} : ~Writes(q, path)
      BY <1>4, <2>1
    <3>2. \A q \in Procs \ {p} : ~Writes(q, path)'
      BY <1>1, <3>1
    <3>3. disk'[path] = Empty
      BY <2>1
    <3> QED
      BY <3>2, <3>3, TextsDiffer DEF Apart
  <2>2. CASE ~(op.do = "open" /\ op.at = path)
    <3>1. path \notin crossed
      BY <1>4, <2>2
    <3>2. Apart(path) /\ disk[path] # Mixed
      BY <3>1 DEF CrossInv
    <3>3. ~Writes(p, path)'
      BY <2>2 DEF Writes
    <3>4. ~Writes(p, path) => disk'[path] \in {disk[path], None}
      BY <2>2 DEF Writes
    <3>5. Apart(path)'
      <4> SUFFICES ASSUME NEW o \in Procs, Writes(o, path)'
                   PROVE  disk'[path] \in {None, Empty} /\ \A r \in Procs : Writes(r, path)' => r = o
        BY DEF Apart
      <4>1. o # p /\ Writes(o, path)
        BY <1>1, <3>3
      <4>2. disk[path] \in {None, Empty} /\ \A r \in Procs : Writes(r, path) => r = o
        BY <3>2, <4>1 DEF Apart
      <4>3. ~Writes(p, path)
        BY <4>1, <4>2
      <4> QED
        BY <1>1, <3>3, <3>4, <4>2, <4>3
    <3>6. disk'[path] # Mixed
      <4>1. CASE Writes(p, path)
        <5>1. disk[path] \in {None, Empty}
          BY <3>2, <4>1 DEF Apart
        <5> QED
          BY <4>1, <5>1, JudgedTexts, TextsDiffer
      <4>2. CASE ~Writes(p, path)
        BY <3>2, <3>4, <4>2, TextsDiffer
      <4> QED
        BY <4>1, <4>2
    <3> QED
      BY <3>5, <3>6
  <2> QED
    BY <2>1, <2>2
<1> QED
  BY <1>2, <1>3, <1>4 DEF CrossInv

LEMMA FirstOf ==
    ASSUME NEW q, NEW d, Stands(q, d)
    PROVE  q # <<>> => Head(q) = q[1] /\ GoodOp(q[1]) /\ 1 \in DOMAIN q
<1>1. IsSeq(q)
  BY DEF Stands, Shaped
<1> QED
  BY <1>1, TailIs DEF Stands, Shaped

LEMMA QuietCross ==
    ASSUME HomeInv, CrossInv, NEW p \in Procs, prog[p] # <<>>, prog[p][1].do \notin {"open", "fill"},
           NEW results, Take(p, results), Quietly(prog[p][1], disk, results)
    PROVE  CrossInv'
<1> DEFINE q == prog[p]
           op == q[1]
<1>1. Stands(q, disk) /\ Head(q) = op
  BY FirstOf DEF HomeInv
<1>2. PICK r \in results :
        /\ disk' = r.disk
        /\ prog' = [prog EXCEPT ![p] = IF r.fails THEN AfterFailure(Tail(@)) ELSE r.then \o Tail(@)]
        /\ crossed' = crossed
  BY <1>1 DEF Take
<1>3. Piece(r.then) /\ QuietDisk(op, disk, disk') /\ alone' = alone
  BY <1>2 DEF Quietly, Take
<1>4. /\ \A o \in Procs \ {p} : prog'[o] = prog[o]
      /\ prog'[p] = IF r.fails THEN AfterFailure(Tail(q)) ELSE r.then \o Tail(q)
  BY <1>2 DEF HomeInv
<1> HIDE DEF q
<1>5. Kept(disk, disk')
  BY <1>3, PathsAre DEF QuietDisk, Kept
<1>6. prog'[p] # <<>> => Head(prog'[p]).do # "fill"
  <2>1. CASE r.fails
    <3>1. LET t == AfterFailure(Tail(q)) IN Stands(t, disk) /\ (t # <<>> => t[1].do # "fill")
      BY <1>1, FailureNext DEF q
    <3> QED
      BY <1>4, <2>1, <3>1, FirstOf
  <2>2. CASE ~r.fails
    <3>1. LET t == r.then \o Tail(q) IN Stands(t, disk') /\ (t # <<>> => t[1].do # "fill")
      BY <1>1, <1>3, <1>5, QuietNext DEF q
    <3> QED
      BY <1>4, <2>2, <3>1, FirstOf
  <2> QED
    BY <2>1, <2>2
<1>7. \A path \in Judged : disk'[path] \in {disk[path], None}
  BY <1>3 DEF QuietDisk
<1>8. \A path : ~Writes(p, path)
  BY <1>1 DEF Writes, q
<1> QED
  BY <1>1, <1>2, <1>3, <1>4, <1>6, <1>7, <1>8, CrossStep DEF q

LEMMA OpenCross ==
    ASSUME HomeInv, CrossInv, NEW p \in Procs, prog[p] # <<>>, prog[p][1].do = "open",
           Take(p, FileResults(prog[p][1], disk))
    PROVE  CrossInv'
<1> DEFINE q == prog[p]
           op == q[1]
<1>1. Stands(q, disk) /\ Head(q) = op /\ op.at \in Paths /\ 1 \in DOMAIN q /\ Shaped(q) /\ IsSeq(q)
  BY FirstOf DEF HomeInv, GoodOp, Stands, Shaped
<1>2. PICK r \in FileResults(op, disk) :
        /\ disk' = r.disk
        /\ prog' = [prog EXCEPT ![p] = IF r.fails THEN AfterFailure(Tail(@)) ELSE r.then \o Tail(@)]
        /\ crossed' = IF \E o \in Procs \ {p} : Writes(o, op.at) THEN crossed \cup {op.at}
                      ELSE crossed \ {op.at}
  BY <1>1 DEF Take
<1>3. /\ \A o \in Procs \ {p} : prog'[o] = prog[o]
      /\ prog'[p] = IF r.fails THEN AfterFailure(Tail(q)) ELSE r.then \o Tail(q)
      /\ alone' = alone /\ DOMAIN disk = Paths
  BY <1>2 DEF HomeInv, DiskOK, Take
<1>4. \/ HasDirectory(disk, op.at) /\ r = Go([disk EXCEPT ![op.at] = Empty], <<>>)
      \/ ~HasDirectory(disk, op.at) /\ r = Fails(disk)
  <2>1. FileResults(op, disk) = {IF HasDirectory(disk, op.at)
                                 THEN Go([disk EXCEPT ![op.at] = Empty], <<>>) ELSE Fails(disk)}
    BY OpenResult
  <2> QED
    BY <1>2, <2>1, Zenon
<1>5. CASE HasDirectory(disk, op.at)
  <2>1. r.then = <<>> /\ r.fails = FALSE /\ disk' = [disk EXCEPT ![op.at] = Empty]
    BY <1>2, <1>4, <1>5 DEF Go
  <2>2. prog'[p] = Tail(q)
    <3>1. IsSeq(Tail(q))
      BY <1>1, TailIs
    <3> QED
      BY <1>3, <2>1, <3>1, NothingBefore
  <2>3. Head(Tail(q)).at = op.at
    <3>1. Shaped(Tail(q)) /\ 1 + 1 \in DOMAIN q /\ FillsAt(q[1 + 1], op.at)
      BY <1>1, RestIs DEF Shaped
    <3>2. IsSeq(Tail(q)) /\ Len(Tail(q)) = Len(q) - 1 /\ \A i \in 1..(Len(q) - 1) : Tail(q)[i] = q[i + 1]
      BY <1>1, TailIs
    <3>3. Len(q) \in Nat /\ DOMAIN q = 1..Len(q)
      BY <1>1, SeqIs
    <3>4. Tail(q) # <<>> /\ Tail(q)[1] = q[1 + 1]
      <4>1. Len(Tail(q)) # 0 /\ 1 \in 1..(Len(q) - 1)
        BY <3>1, <3>2, <3>3
      <4> QED
        BY <3>2, <4>1, SeqIs
    <3>5. Head(Tail(q)) = Tail(q)[1]
      BY <3>2, <3>4, TailIs
    <3> QED
      BY <3>1, <3>4, <3>5 DEF FillsAt
  <2>4. disk'[op.at] = Empty /\ \A path \in Paths \ {op.at} : disk'[path] = disk[path]
    BY <1>1, <1>3, <2>1
  <2>5. \A path : ~Writes(p, path)
    BY <1>1 DEF Writes
  <2> HIDE DEF q
  <2>6. \A path \in Judged : disk'[path] \in {disk[path], None} \/ op.at = path
    BY <2>4, JudgedPaths
  <2>7. prog'[p] # <<>> /\ Head(prog'[p]).do = "fill" => Head(prog'[p]).at = op.at
    BY <2>2, <2>3
  <2>8. op.do = "open" /\ op = Head(prog[p])
    BY <1>1 DEF q
  <2> HIDE DEF op
  <2> QED
    BY <1>1, <1>2, <1>3, <2>4, <2>5, <2>6, <2>7, <2>8, CrossStep
<1>6. CASE ~HasDirectory(disk, op.at)
  <2>1. r.fails = TRUE /\ disk' = disk
    BY <1>2, <1>4, <1>6 DEF Fails
  <2>2. op.at \notin Judged
    BY <1>6, JudgedTexts
  <2>3. op.at \notin {PrivateKey, PublicKey}
    BY <2>2 DEF Judged, Stays
  <2> HIDE DEF q
  <2>4. LET t == AfterFailure(Tail(q)) IN Stands(t, disk) /\ (t # <<>> => t[1].do # "fill")
    BY <1>1, <2>3, FailureNext DEF q
  <2>5. prog'[p] # <<>> => Head(prog'[p]).do # "fill"
    BY <1>3, <2>1, <2>4, FirstOf
  <2>6. \A path : ~Writes(p, path)
    BY <1>1 DEF Writes, q
  <2> QED
    BY <1>1, <1>2, <1>3, <2>1, <2>2, <2>5, <2>6, CrossStep DEF q
<1> QED
  BY <1>5, <1>6

LEMMA FillCross ==
    ASSUME HomeInv, CrossInv, NEW p \in Procs, prog[p] # <<>>, prog[p][1].do = "fill",
           Take(p, FileResults(prog[p][1], disk))
    PROVE  CrossInv'
<1> DEFINE q == prog[p]
           op == q[1]
<1>1. /\ Stands(q, disk) /\ Head(q) = op /\ op.at \in Paths /\ TextFor(op.at, op.with)
      /\ 1 \in DOMAIN q /\ IsSeq(q) /\ Shaped(q)
  BY FirstOf DEF HomeInv, GoodOp, Stands, Shaped
<1>2. PICK r \in FileResults(op, disk) :
        /\ disk' = r.disk
        /\ prog' = [prog EXCEPT ![p] = IF r.fails THEN AfterFailure(Tail(@)) ELSE r.then \o Tail(@)]
        /\ crossed' = crossed
  BY <1>1 DEF Take
<1>3. PICK e \in Filled(disk, op.at, op.with) : r = Go(e, <<>>)
  <2>1. FileResults(op, disk) = {Go(e, <<>>) : e \in Filled(disk, op.at, op.with)}
    BY FillResult
  <2> QED
    BY <1>2, <2>1, Zenon
<1>4. r.disk = e /\ r.then = <<>> /\ r.fails = FALSE
  BY <1>3 DEF Go
<1>5. /\ \A o \in Procs \ {p} : prog'[o] = prog[o]
      /\ prog'[p] = IF r.fails THEN AfterFailure(Tail(q)) ELSE r.then \o Tail(q)
      /\ alone' = alone /\ DOMAIN disk = Paths
  BY <1>2 DEF HomeInv, DiskOK, Take
<1>6. /\ \A path \in Paths \ {op.at} : disk'[path] = disk[path]
      /\ disk[op.at] = None => disk'[op.at] = None
      /\ disk[op.at] = Empty => disk'[op.at] = op.with
  BY <1>1, <1>2, <1>3, <1>4, <1>5, FilledIs
<1>7. prog'[p] = Tail(q)
  <2>1. IsSeq(Tail(q))
    BY <1>1, TailIs
  <2> QED
    BY <1>4, <1>5, <2>1, NothingBefore
<1>8. \A path : Writes(p, path) => path = op.at
  BY <1>1 DEF Writes
<1> HIDE DEF q
<1>9. Tail(q) # <<>> => Head(Tail(q)).do # "fill"
  <2>1. Kept(disk, disk)
    BY DEF Kept
  <2>2. Stands(Tail(q), disk) /\ (Tail(q) # <<>> => Tail(q)[1].do # "fill")
    <3>1. FALSE /\ disk[q[1].at] # None => disk[q[1].at] = q[1].with
      OBVIOUS
    <3> QED
      BY <1>1, <2>1, <3>1, FillNext DEF q
  <2> QED
    BY <2>2, FirstOf
<1>10. ASSUME NEW path \in Judged
      PROVE  disk'[path] \in {disk[path], None} \/ (op.do \in {"open", "fill"} /\ op.at = path)
  BY <1>1, <1>6, JudgedPaths DEF q
<1>11. ASSUME NEW path \in Judged, Writes(p, path)
      PROVE  \/ disk[path] \notin {None, Empty}
             \/ disk'[path] \in {None, Empty} \/ TextFor(path, disk'[path])
  BY <1>1, <1>6, <1>8, <1>11
<1>12. op.do = "fill" /\ op = Head(prog[p])
  BY <1>1 DEF q
<1> HIDE DEF op
<1>13. ~(prog'[p] # <<>> /\ Head(prog'[p]).do = "fill")
  BY <1>7, <1>9
<1>14. op.do # "open" /\ crossed' = crossed
  BY <1>2, <1>12
<1>15. alone' = alone /\ \A o \in Procs \ {p} : prog'[o] = prog[o]
  BY <1>5
<1> QED
  BY <1>10, <1>11, <1>12, <1>13, <1>14, <1>15, CrossStep, Zenon

LEMMA StepsCross ==
    ASSUME HomeInv, CrossInv, NEW p \in Procs, FileStep(p) \/ SkillStep(p) \/ HomeStep(p)
    PROVE  CrossInv'
<1> DEFINE op == prog[p][1]
<1>1. prog[p] # <<>>
  BY DEF FileStep, SkillStep, HomeStep, Next1
<1>2. Head(prog[p]) = op /\ GoodOp(op) /\ DiskOK(disk)
  BY <1>1, StepIs
<1>3. CASE FileStep(p)
  <2>1. op.do \in FileOps /\ Take(p, FileResults(op, disk))
    BY <1>2, <1>3 DEF FileStep, Next1
  <2>2. CASE op.do = "open"
    BY <1>1, <2>1, <2>2, OpenCross
  <2>3. CASE op.do = "fill"
    BY <1>1, <2>1, <2>3, FillCross
  <2>4. CASE op.do \notin {"open", "fill"}
    <3>1. Quietly(op, disk, FileResults(op, disk))
      BY <1>2, <2>1, <2>4, FileQuiet
    <3> QED
      BY <1>1, <2>1, <2>4, <3>1, QuietCross
  <2> QED
    BY <2>2, <2>3, <2>4
<1>4. CASE SkillStep(p)
  <2>1. op.do \in SkillOps /\ Take(p, SkillResults(op, disk, head))
    BY <1>2, <1>4 DEF SkillStep, Next1
  <2>2. op.do \notin {"open", "fill"}
    BY <2>1 DEF SkillOps
  <2>3. Quietly(op, disk, SkillResults(op, disk, head))
    <3>1. \A u \in Urls : head[u] \in 1..MaxVersion[u]
      BY DEF HomeInv
    <3> QED
      BY <1>2, <2>1, <3>1, SkillQuiet
  <2> QED
    BY <1>1, <2>1, <2>2, <2>3, QuietCross
<1>5. CASE HomeStep(p)
  <2>1. op.do \in HomeOps /\ Take(p, HomeResults(op, disk))
    BY <1>2, <1>5 DEF HomeStep, Next1
  <2>2. op.do \notin {"open", "fill"}
    BY <2>1 DEF HomeOps
  <2>3. Quietly(op, disk, HomeResults(op, disk))
    BY <1>2, <2>1, HomeQuiet
  <2> QED
    BY <1>1, <2>1, <2>2, <2>3, QuietCross
<1> QED
  BY <1>3, <1>4, <1>5

-----------------------------------------------------------------------------
(* The programs that commands start with                                    *)

LEMMA PlainCalls ==
    ASSUME NEW path, NEW w, NEW do \in {"new", "present", "fetch", "default", "set key", "remove key"}
    PROVE  Piece(<<Op(do, path, w)>>) /\ GoodOp(Op(do, path, w)) /\ Op(do, path, w).do = do
<1> DEFINE op == Op(do, path, w)
<1>1. op.do = do
  BY DEF Op
<1> HIDE DEF op
<1>2. GoodOp(op)
  BY <1>1 DEF GoodOp
<1>3. Piece(<<op>>)
  BY <1>1, <1>2, PieceOne
<1> QED
  BY <1>1, <1>2, <1>3 DEF op

LEMMA UnlinkPiece ==
    ASSUME NEW n \in Names, NEW path \in {ManifestFile(n), CacheFile(n)}
    PROVE  Piece(<<Op("present", path, NoData), Op("unlink", path, NoData)>>)
<1> DEFINE a == Op("present", path, NoData)
           b == Op("unlink", path, NoData)
<1>1. GoodOp(a) /\ a.do = "present"
  BY PlainCalls
<1>2. b.do = "unlink" /\ b.at = path
  BY DEF Op
<1> HIDE DEF a, b
<1>3. GoodOp(b)
  BY <1>2 DEF GoodOp
<1>4. Piece(<<a, b>>)
  BY <1>1, <1>2, <1>3, PieceTwo
<1> QED
  BY <1>4 DEF a, b

LEMMA LoadPiece ==
    ASSUME NEW n, NEW then, Plain(then)
    PROVE  Piece(<<Op("load", n, [then |-> then])>>)
<1> DEFINE op == Op("load", n, [then |-> then])
<1>1. op.do = "load" /\ op.with.then = then
  BY DEF Op
<1> HIDE DEF op
<1>2. GoodOp(op)
  BY <1>1 DEF GoodOp
<1>3. Piece(<<op>>)
  BY <1>1, <1>2, PieceOne
<1> QED
  BY <1>3 DEF op

LEMMA AddPiece ==
    ASSUME NEW n \in Names, NEW args
    PROVE  Piece(AddMcp(n, args)) /\ Piece(AddCli(n, args))
<1> DEFINE new == <<Op("new", ManifestFile(n), NoData)>>
           W(handler) == Write(ManifestFile(n), Manifest(n, handler))
<1>1. Piece(new)
  BY PlainCalls
<1>2. \A handler \in {"mcp", "cli"} : Manifest(n, handler).is = "manifest" /\ ~Openapi(Manifest(n, handler))
  BY DEF Manifest, Openapi
<1>3. \A handler \in {"mcp", "cli"} : Piece(W(handler))
  BY <1>2, ManifestWrite
<1>4. AddMcp(n, args) = new \o W("mcp") \/ AddMcp(n, args) = <<>>
  BY DEF AddMcp
<1>5. AddCli(n, args) = new \o W("cli") \/ AddCli(n, args) = <<>>
  BY DEF AddCli
<1> HIDE DEF new, W
<1>6. Piece(W("mcp")) /\ Piece(W("cli"))
  BY <1>3
<1>7. Piece(new \o W("mcp")) /\ Piece(new \o W("cli"))
  BY <1>1, <1>6, PieceConcat
<1> QED
  BY <1>4, <1>5, <1>7, PieceNone

LEMMA LoadedPiece ==
    ASSUME NEW n \in Names, NEW args
    PROVE  /\ Piece(<<Op("fetch", SpecFile(n), NoData)>> \o Write(CacheFile(n), CachedProvider(n, Ttl)))
           /\ \A save : Piece(LoadMcp(n, args, save))
<1> DEFINE W == Write(CacheFile(n), CachedProvider(n, Ttl))
           fetch == <<Op("fetch", SpecFile(n), NoData)>>
<1>1. CachedProvider(n, Ttl).is = "cached"
  BY DEF CachedProvider
<1>2. Piece(W)
  BY <1>1, CacheWrite
<1>3. Piece(fetch)
  BY PlainCalls
<1>4. \A save : \/ LoadMcp(n, args, save) = <<>> \/ LoadMcp(n, args, save) = AddMcp(n, args)
                \/ LoadMcp(n, args, save) = W
  BY DEF LoadMcp
<1> HIDE DEF W, fetch
<1>5. Piece(fetch \o W)
  BY <1>2, <1>3, PieceConcat
<1>6. \A save : Piece(LoadMcp(n, args, save))
  BY <1>2, <1>4, AddPiece, PieceNone
<1> QED
  BY <1>5, <1>6 DEF W, fetch

LEMMA ImportDryPiece ==
    ASSUME NEW n
    PROVE  Piece(<<Op("fetch", SpecFile(n), NoData)>> \o <<>>)
  BY PlainCalls, PieceNone, PieceConcat

LEMMA InfoPiece ==
    ASSUME NEW n \in Names
    PROVE  Piece(ProviderInfo(n)) /\ Piece(InstallProviderSkills(n))
<1> DEFINE op == Op("skills", n, NoData)
<1>1. op.do = "skills" /\ op.at = n
  BY DEF Op
<1> HIDE DEF op
<1>2. PlainOp(op)
  BY <1>1 DEF PlainOp
<1>3. Plain(<<op>>) /\ Plain(<<>>)
  BY <1>2, OneIs, NoneIs DEF Plain
<1> QED
  BY <1>3, LoadPiece DEF ProviderInfo, InstallProviderSkills, op

\* The programs of the commands on skills.
LEMMA SkillProgramPiece ==
    ASSUME NEW c \in Commands, c.do \in SkillCommands
    PROVE  Piece(SkillProgram(c))
<1> DEFINE s == c.on
<1>1. s \in Skills /\ CommandOK(c)
  BY AtiHomeAssumption DEF AtiHomeAssumption, CommandOK
<1>2. CASE c.do = "skill install"
  <2>1. SkillProgram(c) = Install(s, c.with.url, c.with.pin)
    BY <1>2 DEF SkillProgram
  <2>2. c.with.url \in Urls /\ c.with.pin \in 0..MaxVersion[c.with.url]
    BY <1>1, <1>2 DEF CommandOK
  <2> QED
    BY <1>1, <2>1, <2>2, InstallPiece
<1>3. CASE c.do \in {"skill from git", "skill copy"}
  <2> DEFINE url == c.with.url
  <2>1. SkillProgram(c) = InstallFromGit(s, url) \/ SkillProgram(c) = InstallLocal(s, url)
    BY <1>3 DEF SkillProgram
  <2>2. url \in Urls
    BY <1>1, <1>3 DEF CommandOK
  <2>3. NoPin \in 0..MaxVersion[url]
    BY <2>2, VersionsAre
  <2>4. Plain(Finish(s, NoUrl, NoPin))
    BY <1>1, FinishPlain DEF SourceOK
  <2> HIDE DEF s, url
  <2>5. Piece(InstallFromGit(s, url))
    BY <1>1, <2>2, <2>3, <2>4, ClonePiece DEF InstallFromGit
  <2>6. Piece(InstallLocal(s, url))
    BY <1>1, <2>2, <2>3, <2>4, ClonePiece DEF InstallLocal
  <2> QED
    BY <2>1, <2>5, <2>6
<1>4. CASE c.do = "skill update"
  <2> DEFINE a == Op("present", SkillDir(s), NoData)
             b == Op("update", s, [force |-> c.with.force])
  <2>1. SkillProgram(c) = <<a, b>>
    BY <1>4 DEF SkillProgram, Update
  <2>2. GoodOp(a) /\ a.do = "present"
    BY PlainCalls
  <2>3. b.do = "update" /\ b.at = s
    BY DEF Op
  <2> HIDE DEF a, b
  <2>4. GoodOp(b)
    BY <1>1, <2>3 DEF GoodOp
  <2> QED
    BY <2>1, <2>2, <2>3, <2>4, PieceTwo
<1>5. CASE c.do = "skill diff"
  <2> DEFINE a == Op("present", SkillMd(s), NoData)
             b == Op("fetch", SkillMd(s), NoData)
  <2>1. SkillProgram(c) = <<a, b>>
    BY <1>5 DEF SkillProgram, Diff
  <2>2. GoodOp(a) /\ a.do = "present" /\ GoodOp(b) /\ b.do = "fetch"
    BY PlainCalls
  <2> HIDE DEF a, b
  <2> QED
    BY <2>1, <2>2, PieceTwo
<1>6. CASE c.do = "skill remove"
  <2> DEFINE a == Op("present", SkillDir(s), NoData)
             b == Op("rmdir", s, NoData)
  <2>1. SkillProgram(c) = <<a, b>>
    BY <1>6 DEF SkillProgram, RemoveSkill
  <2>2. GoodOp(a) /\ a.do = "present"
    BY PlainCalls
  <2>3. b.do = "rmdir" /\ b.at = s
    BY DEF Op
  <2> HIDE DEF a, b
  <2>4. GoodOp(b)
    BY <1>1, <2>3 DEF GoodOp
  <2> QED
    BY <2>1, <2>2, <2>3, <2>4, PieceTwo
<1>7. CASE c.do = "skill init"
  <2> DEFINE a == Op("new", SkillDir(s), NoData)
             b == Op("mkdir", SkillDir(s), NoData)
             W == Write(SkillMd(s), Text("scaffold", 0))
             V == IF c.with.bindings THEN Write(SkillToml(s), Unsigned("")) ELSE <<>>
  <2>1. SkillProgram(c) = <<a, b>> \o W \o V
    BY <1>7 DEF SkillProgram, InitSkill
  <2>2. GoodOp(a) /\ a.do = "new"
    BY PlainCalls
  <2>3. b.do = "mkdir" /\ b.at = SkillDir(s)
    BY DEF Op
  <2>4. Piece(W)
    <3>1. Text("scaffold", 0).is = "text"
      BY DEF Text
    <3> QED
      BY <1>1, <3>1, MdWrite
  <2>5. Piece(V)
    <3>1. TomlOK(Unsigned(""))
      BY DEF TomlOK, Unsigned, Toml, SourceOK
    <3>2. Piece(Write(SkillToml(s), Unsigned("")))
      BY <1>1, <3>1, TomlWrite
    <3> QED
      BY <3>2, PieceNone
  <2> HIDE DEF a, b, W, V
  <2>6. GoodOp(b)
    BY <1>1, <2>3 DEF GoodOp
  <2>7. Piece(<<a, b>>)
    BY <2>2, <2>3, <2>6, PieceTwo
  <2>8. Piece(<<a, b>> \o W)
    BY <2>4, <2>7, PieceConcat
  <2> QED
    BY <2>1, <2>5, <2>8, PieceConcat
<1> QED
  BY <1>2, <1>3, <1>4, <1>5, <1>6, <1>7 DEF SkillCommands

\* The programs of init and of the commands on keys.
LEMMA HomeProgramPiece ==
    ASSUME NEW c \in Commands, c.do \in HomeCommands, NEW id
    PROVE  \/ Piece(HomeProgram(c, id))
           \/ c.do = "init" /\ HomeProgram(c, id) = Write(PrivateKey, Pem(id)) \o Write(PublicKey, Pem(id))
                                                    \o Write(Config, ConfigText("ES256", NoPair))
<1>1. CASE c.do = "init"
  <2> DEFINE E == Write(PrivateKey, Pem(id)) \o Write(PublicKey, Pem(id))
                  \o Write(Config, ConfigText("ES256", NoPair))
             H == Write(Config, ConfigText("HS256", id))
             D == <<Op("default", Config, NoData)>>
  <2>1. HomeProgram(c, id) = InitDirectory(c.with.proxy, c.with.es256, id)
    BY <1>1 DEF HomeProgram
  <2>2. \A proxy, es256 : InitDirectory(proxy, es256, id) = IF proxy /\ es256 THEN E
                          ELSE IF proxy /\ ~es256 THEN H ELSE D
    BY DEF InitDirectory
  <2>3. Piece(H)
    <3>1. ConfigText("HS256", id).is = "config"
      BY DEF ConfigText
    <3> QED
      BY <3>1, TopWrite
  <2>4. Piece(D)
    BY PlainCalls
  <2> HIDE DEF E, H, D
  <2>5. HomeProgram(c, id) = E \/ HomeProgram(c, id) = H \/ HomeProgram(c, id) = D
    BY <2>1, <2>2
  <2>6. HomeProgram(c, id) = E \/ Piece(HomeProgram(c, id))
    BY <2>3, <2>4, <2>5
  <2> QED
    BY <1>1, <2>6 DEF E
<1>2. CASE c.do = "key set"
  <2>1. HomeProgram(c, id) = <<Op("set key", Credentials, c.on)>>
    BY <1>2 DEF HomeProgram, SetKey
  <2>2. Piece(<<Op("set key", Credentials, c.on)>>)
    BY PlainCalls
  <2> QED
    BY <2>1, <2>2
<1>3. CASE c.do = "key remove"
  <2>1. HomeProgram(c, id) = <<Op("remove key", Credentials, c.on)>>
    BY <1>3 DEF HomeProgram, RemoveKey
  <2>2. Piece(<<Op("remove key", Credentials, c.on)>>)
    BY PlainCalls
  <2> QED
    BY <2>1, <2>2
<1> QED
  BY <1>1, <1>2, <1>3 DEF HomeCommands

\* The programs of the commands on providers.
LEMMA ProviderProgramPiece ==
    ASSUME NEW c \in Commands, c.do \in ProviderCommands
    PROVE  \/ Piece(ProviderProgram(c))
           \/ c.on \in Names /\ ProviderProgram(c) =
                <<Op("fetch", SpecFile(c.on), NoData)>>
                \o (Write(SpecFile(c.on), SpecText) \o Write(ManifestFile(c.on), Manifest(c.on, "openapi")))
<1> DEFINE n == c.on
           fetch == <<Op("fetch", SpecFile(n), NoData)>>
           I == fetch \o (Write(SpecFile(n), SpecText) \o Write(ManifestFile(n), Manifest(n, "openapi")))
           C == fetch \o Write(CacheFile(n), CachedProvider(n, Ttl))
<1>1. c.do = "list" \/ n \in Names
  BY AtiHomeAssumption DEF AtiHomeAssumption, CommandOK
<1>2. CASE c.do \in {"add-mcp", "add-cli"}
  <2>1. ProviderProgram(c) \in {AddMcp(n, c.with), AddCli(n, c.with)}
    BY <1>2 DEF ProviderProgram
  <2> QED
    BY <1>1, <1>2, <2>1, AddPiece
<1>3. \A dry : ImportOpenapi(n, dry) = I \/ ImportOpenapi(n, dry) = fetch \o <<>>
  BY DEF ImportOpenapi
<1>4. CASE c.do = "import-openapi"
  <2>1. ProviderProgram(c) = ImportOpenapi(n, c.with.dryRun)
    BY <1>4 DEF ProviderProgram
  <2>2. Piece(fetch \o <<>>)
    BY ImportDryPiece
  <2>3. ProviderProgram(c) = I \/ ProviderProgram(c) = fetch \o <<>>
    BY <1>3, <2>1
  <2>4. ProviderProgram(c) = I \/ Piece(ProviderProgram(c))
    BY <2>2, <2>3
  <2> QED
    BY <1>1, <1>4, <2>4
<1>5. CASE c.do = "load openapi"
  <2>1. ProviderProgram(c) = LoadOpenapi(n, c.with.save)
    BY <1>5 DEF ProviderProgram
  <2>2. \A save : LoadOpenapi(n, save) = ImportOpenapi(n, FALSE) \/ LoadOpenapi(n, save) = C
    BY DEF LoadOpenapi
  <2>3. ImportOpenapi(n, FALSE) = I
    BY DEF ImportOpenapi
  <2>4. Piece(C)
    BY <1>1, <1>5, LoadedPiece
  <2>5. ProviderProgram(c) = I \/ ProviderProgram(c) = C
    BY <2>1, <2>2, <2>3
  <2>6. ProviderProgram(c) = I \/ Piece(ProviderProgram(c))
    BY <2>4, <2>5
  <2> QED
    BY <1>1, <1>5, <2>6
<1>6. CASE c.do = "load mcp"
  <2>1. ProviderProgram(c) = LoadMcp(n, c.with, c.with.save)
    BY <1>6 DEF ProviderProgram
  <2> QED
    BY <1>1, <1>6, <2>1, LoadedPiece
<1>7. CASE c.do \in {"unload", "remove"}
  <2>1. ProviderProgram(c) \in {Unload(n), RemoveProvider(n)}
    BY <1>7 DEF ProviderProgram
  <2>2. Piece(Unload(n)) /\ Piece(RemoveProvider(n))
    BY <1>1, <1>7, UnlinkPiece DEF Unload, RemoveProvider
  <2> QED
    BY <2>1, <2>2
<1>8. CASE c.do = "list"
  <2>1. ProviderProgram(c) = Visits
    BY <1>8 DEF ProviderProgram, ListProviders
  <2> QED
    BY <2>1, VisitsPiece
<1>9. CASE c.do \in {"info", "install-skills"}
  <2>1. ProviderProgram(c) \in {ProviderInfo(n), InstallProviderSkills(n)}
    BY <1>9 DEF ProviderProgram
  <2> QED
    BY <1>1, <1>9, <2>1, InfoPiece
<1> QED
  BY <1>2, <1>4, <1>5, <1>6, <1>7, <1>8, <1>9 DEF ProviderCommands

LEMMA TwoWrites ==
    ASSUME NEW a, NEW v, NEW b, NEW w
    PROVE  LET q == Write(a, v) \o Write(b, w)
           IN  /\ IsSeq(q) /\ Len(q) = 4
               /\ q[1] = Op("open", a, NoData) /\ q[2] = Op("fill", a, v)
               /\ q[3] = Op("open", b, NoData) /\ q[4] = Op("fill", b, w)
<1>1. ASSUME NEW path, NEW x
      PROVE  /\ IsSeq(Write(path, x)) /\ Len(Write(path, x)) = 2
             /\ Write(path, x)[1] = Op("open", path, NoData) /\ Write(path, x)[2] = Op("fill", path, x)
  <2>1. IsSeq(Write(path, x))
    BY WritesAre, IsSeqIntro
  <2> QED
    BY <2>1 DEF Write
<1> DEFINE s == Write(a, v)
           t == Write(b, w)
<1>2. /\ IsSeq(s) /\ Len(s) = 2 /\ s[1] = Op("open", a, NoData) /\ s[2] = Op("fill", a, v)
      /\ IsSeq(t) /\ Len(t) = 2 /\ t[1] = Op("open", b, NoData) /\ t[2] = Op("fill", b, w)
  BY <1>1
<1> HIDE DEF s, t
<1>3. /\ IsSeq(s \o t) /\ Len(s \o t) = 2 + 2
      /\ \A i \in 1..2 : (s \o t)[i] = s[i]
      /\ \A i \in (2 + 1)..(2 + 2) : (s \o t)[i] = t[i - 2]
  <2>1. /\ IsSeq(s \o t) /\ Len(s \o t) = Len(s) + Len(t)
        /\ \A i \in 1..Len(s) : (s \o t)[i] = s[i]
        /\ \A i \in (Len(s) + 1)..(Len(s) + Len(t)) : (s \o t)[i] = t[i - Len(s)]
    BY <1>2, ConcatIs
  <2> QED
    BY <1>2, <2>1
<1>4. (s \o t)[1] = s[1] /\ (s \o t)[2] = s[2] /\ (s \o t)[3] = t[1] /\ (s \o t)[4] = t[2]
  <2>1. 1 \in 1..2 /\ 2 \in 1..2 /\ 3 \in (2 + 1)..(2 + 2) /\ 4 \in (2 + 1)..(2 + 2)
        /\ 3 - 2 = 1 /\ 4 - 2 = 2
    OBVIOUS
  <2> QED
    BY <1>3, <2>1
<1> QED
  BY <1>2, <1>3, <1>4 DEF s, t

LEMMA KeyText ==
    ASSUME NEW path \in {PrivateKey, PublicKey}, NEW w, w.is = "pem"
    PROVE  TextFor(path, w) /\ path \in Paths
<1>1. path \in TopFiles /\ path # Credentials /\ path \in Paths
  BY PathsDiffer, PathsAre DEF TopFiles
<1>2. \A n : path # ManifestFile(n) /\ path # SpecFile(n)
  BY <1>1, PathsDiffer
<1>3. \A s : path # SkillToml(s) /\ path # BundledProvider(s)
  BY DEF PrivateKey, PublicKey, SkillToml, BundledProvider
<1> QED
  BY <1>1, <1>2, <1>3 DEF TextFor

\* import-openapi: the spec before the manifest.
LEMMA ImportStands ==
    ASSUME NEW n \in Names, NEW d
    PROVE  LET q == <<Op("fetch", SpecFile(n), NoData)>>
                    \o (Write(SpecFile(n), SpecText) \o Write(ManifestFile(n), Manifest(n, "openapi")))
           IN  Stands(q, d) /\ ~PublicLater(q) /\ q[1].do # "fill"
<1> DEFINE m == Manifest(n, "openapi")
           f == Op("fetch", SpecFile(n), NoData)
           t == Write(SpecFile(n), SpecText) \o Write(ManifestFile(n), m)
           q == <<f>> \o t
<1>1. /\ IsSeq(t) /\ Len(t) = 4
      /\ t[1] = Op("open", SpecFile(n), NoData) /\ t[2] = Op("fill", SpecFile(n), SpecText)
      /\ t[3] = Op("open", ManifestFile(n), NoData) /\ t[4] = Op("fill", ManifestFile(n), m)
  BY TwoWrites
<1>2. IsSeq(<<f>>) /\ Len(<<f>>) = 1 /\ <<f>>[1] = f
  BY OneIs
<1> HIDE DEF t, f, m
<1>3. /\ IsSeq(q) /\ Len(q) = 1 + 4
      /\ \A i \in 1..1 : q[i] = <<f>>[i]
      /\ \A i \in (1 + 1)..(1 + 4) : q[i] = t[i - 1]
  <2>1. /\ IsSeq(<<f>> \o t) /\ Len(<<f>> \o t) = Len(<<f>>) + Len(t)
        /\ \A i \in 1..Len(<<f>>) : (<<f>> \o t)[i] = <<f>>[i]
        /\ \A i \in (Len(<<f>>) + 1)..(Len(<<f>>) + Len(t)) : (<<f>> \o t)[i] = t[i - Len(<<f>>)]
    BY <1>1, <1>2, ConcatIs
  <2> QED
    BY <1>1, <1>2, <2>1
<1> HIDE DEF q
<1>4. /\ DOMAIN q = {1, 2, 3, 4, 5} /\ q # <<>>
      /\ q[1] = f /\ q[2] = t[1] /\ q[3] = t[2] /\ q[4] = t[3] /\ q[5] = t[4]
  <2>1. DOMAIN q = 1..5 /\ q # <<>>
    <3>1. Len(q) = 5
      BY <1>3
    <3>2. DOMAIN q = 1..Len(q) /\ (q = <<>> <=> Len(q) = 0)
      BY <1>3, SeqIs
    <3> QED
      BY <3>1, <3>2
  <2>2. 1 \in 1..1 /\ \A i \in {2, 3, 4, 5} : i \in (1 + 1)..(1 + 4)
    OBVIOUS
  <2> QED
    BY <1>2, <1>3, <2>1, <2>2
<1>5. /\ q[1].do = "fetch" /\ q[2].do = "open" /\ q[2].at = SpecFile(n)
      /\ q[3].do = "fill" /\ q[3].at = SpecFile(n) /\ q[3].with = SpecText
      /\ q[4].do = "open" /\ q[4].at = ManifestFile(n)
      /\ q[5].do = "fill" /\ q[5].at = ManifestFile(n) /\ q[5].with = m
  BY <1>1, <1>4 DEF Op, f
<1>6. TextFor(SpecFile(n), SpecText) /\ TextFor(ManifestFile(n), m)
  <2>1. SpecText.is = "spec" /\ m.is = "manifest"
    BY DEF SpecText, Manifest, m
  <2>2. \A s : SpecFile(n) # SkillToml(s) /\ SpecFile(n) # BundledProvider(s)
    BY DEF SpecFile, SkillToml, BundledProvider
  <2> QED
    BY <2>1, <2>2, PathsDiffer DEF TextFor, TopFiles
<1>7. \A i \in DOMAIN q : GoodOp(q[i])
  BY <1>4, <1>5, <1>6, PathsAre DEF GoodOp
<1>8. Shaped(q)
  BY <1>3, <1>4, <1>5, <1>7 DEF Shaped, FillsAt
<1>9. SpecFirst(q, d)
  <2> SUFFICES ASSUME NEW i \in DOMAIN q, NEW k \in Names, FillsAt(q[i], ManifestFile(k))
               PROVE  i > 2 /\ FillsAt(q[i - 2], SpecFile(k))
    BY DEF SpecFirst
  <2>1. i = 5
    BY <1>4, <1>5, PathsDiffer DEF FillsAt
  <2>2. k = n
    BY <1>5, <2>1, PathsDiffer DEF FillsAt
  <2> QED
    BY <1>5, <2>1, <2>2 DEF FillsAt
<1>10. \A i \in DOMAIN q : ~FillsAt(q[i], PrivateKey) /\ ~FillsAt(q[i], PublicKey)
  <2>1. \A k : /\ PrivateKey # SpecFile(k) /\ PublicKey # SpecFile(k)
               /\ PrivateKey # ManifestFile(k) /\ PublicKey # ManifestFile(k)
    BY PathsDiffer DEF TopFiles
  <2> QED
    BY <1>4, <1>5, <2>1 DEF FillsAt
<1>11. Stands(q, d) /\ ~PublicLater(q) /\ q[1].do # "fill"
  BY <1>4, <1>5, <1>8, <1>9, <1>10 DEF Stands, Opened, PairFirst, PublicLater
<1> QED
  BY <1>11 DEF q, t, f, m

\* init with ES256: the private half, the public half, the configuration.
LEMMA PairStands ==
    ASSUME NEW id, NEW d
    PROVE  LET q == Write(PrivateKey, Pem(id)) \o Write(PublicKey, Pem(id))
                    \o Write(Config, ConfigText("ES256", NoPair))
           IN  Stands(q, d) /\ PairThen(q, d) /\ q # <<>> /\ q[1].do # "fill"
<1> DEFINE w == Pem(id)
           c == ConfigText("ES256", NoPair)
           t == Write(PrivateKey, w) \o Write(PublicKey, w)
           s == Write(Config, c)
           q == t \o s
<1>1. /\ IsSeq(t) /\ Len(t) = 4
      /\ t[1] = Op("open", PrivateKey, NoData) /\ t[2] = Op("fill", PrivateKey, w)
      /\ t[3] = Op("open", PublicKey, NoData) /\ t[4] = Op("fill", PublicKey, w)
  BY TwoWrites
<1>2. /\ IsSeq(s) /\ Len(s) = 2
      /\ s[1] = Op("open", Config, NoData) /\ s[2] = Op("fill", Config, c)
  <2>1. IsSeq(s)
    BY WritesAre, IsSeqIntro
  <2> QED
    BY <2>1 DEF Write
<1>3. w.is = "pem" /\ c.is = "config"
  BY DEF Pem, ConfigText
<1> HIDE DEF t, s, w, c
<1>4. /\ IsSeq(q) /\ Len(q) = 4 + 2
      /\ \A i \in 1..4 : q[i] = t[i]
      /\ \A i \in (4 + 1)..(4 + 2) : q[i] = s[i - 4]
  <2>1. /\ IsSeq(t \o s) /\ Len(t \o s) = Len(t) + Len(s)
        /\ \A i \in 1..Len(t) : (t \o s)[i] = t[i]
        /\ \A i \in (Len(t) + 1)..(Len(t) + Len(s)) : (t \o s)[i] = s[i - Len(t)]
    BY <1>1, <1>2, ConcatIs
  <2> QED
    BY <1>1, <1>2, <2>1
<1> HIDE DEF q
<1>5. /\ DOMAIN q = {1, 2, 3, 4, 5, 6} /\ q # <<>>
      /\ q[1] = t[1] /\ q[2] = t[2] /\ q[3] = t[3] /\ q[4] = t[4] /\ q[5] = s[1] /\ q[6] = s[2]
  <2>1. DOMAIN q = 1..6 /\ q # <<>>
    BY <1>4, SeqIs
  <2>2. (\A i \in {1, 2, 3, 4} : i \in 1..4) /\ \A i \in {5, 6} : i \in (4 + 1)..(4 + 2)
    OBVIOUS
  <2> QED
    BY <1>4, <2>1, <2>2
<1>6. /\ q[1].do = "open" /\ q[1].at = PrivateKey
      /\ q[2].do = "fill" /\ q[2].at = PrivateKey /\ q[2].with = w
      /\ q[3].do = "open" /\ q[3].at = PublicKey
      /\ q[4].do = "fill" /\ q[4].at = PublicKey /\ q[4].with = w
      /\ q[5].do = "open" /\ q[5].at = Config
      /\ q[6].do = "fill" /\ q[6].at = Config /\ q[6].with = c
  BY <1>1, <1>2, <1>5 DEF Op
<1>7. TextFor(PrivateKey, w) /\ TextFor(PublicKey, w) /\ TextFor(Config, c)
  <2>1. \A n : Config # ManifestFile(n) /\ Config # SpecFile(n) /\ Config # SkillToml(n)
               /\ Config # BundledProvider(n)
    BY DEF Config, ManifestFile, SpecFile, SkillToml, BundledProvider
  <2>2. Config # Credentials /\ Config \notin {PrivateKey, PublicKey}
    BY PathsDiffer
  <2>3. TextFor(Config, c)
    BY <1>3, <2>1, <2>2 DEF TextFor
  <2> QED
    BY <1>3, <2>3, KeyText
<1>8. \A i \in DOMAIN q : GoodOp(q[i])
  BY <1>5, <1>6, <1>7, PathsAre DEF GoodOp
<1>9. Shaped(q)
  BY <1>4, <1>5, <1>6, <1>8 DEF Shaped, FillsAt
<1>10. SpecFirst(q, d)
  <2>1. \A n : ManifestFile(n) \notin {Config, PrivateKey, PublicKey}
    BY PathsDiffer DEF TopFiles
  <2> QED
    BY <1>5, <1>6, <2>1 DEF SpecFirst, FillsAt
<1>11. PrivateKey # PublicKey /\ Config \notin {PrivateKey, PublicKey}
  BY PathsDiffer
<1>12. (\A i \in DOMAIN q : FillsAt(q[i], PrivateKey) => i = 2)
       /\ \A i \in DOMAIN q : FillsAt(q[i], PublicKey) => i = 4
  BY <1>5, <1>6, <1>11 DEF FillsAt
<1>13. PairFirst(q)
  <2>1. FillsAt(q[4], PublicKey) /\ FillsAt(q[2], PrivateKey) /\ q[2].with = q[4].with
    BY <1>6 DEF FillsAt
  <2>2. 2 + 2 = 4 /\ 4 - 2 = 2 /\ 4 \in DOMAIN q
    BY <1>5
  <2> QED
    BY <1>12, <2>1, <2>2 DEF PairFirst
<1>14. Stands(q, d) /\ PairThen(q, d)
  BY <1>5, <1>6, <1>9, <1>10, <1>12, <1>13 DEF Stands, Opened, PairThen
<1> QED
  BY <1>5, <1>6, <1>14 DEF q, t, s, w, c

\* Whatever is started, its program stands.
LEMMA ProgramStands ==
    ASSUME NEW c \in Commands, NEW id, NEW d
    PROVE  LET q == ProgramOf(c, id)
           IN  Stands(q, d) /\ PairThen(q, d) /\ (PublicLater(q) => q # <<>> /\ c.do = "init")
               /\ (q # <<>> => Head(q).do # "fill")
<1> DEFINE q == ProgramOf(c, id)
<1>1. c.do \in ProviderCommands \cup SkillCommands \cup HomeCommands
  BY AtiHomeAssumption DEF AtiHomeAssumption, CommandOK
<1>2. CASE c.do \in SkillCommands
  <2>1. q = SkillProgram(c)
    BY <1>2 DEF ProgramOf
  <2>2. Piece(q)
    BY <1>2, <2>1, SkillProgramPiece
  <2>3. q # <<>> => q[1].do # "fill"
    BY <2>2 DEF Piece
  <2>4. Stands(q, d)
    BY <2>2, PieceStands
  <2> QED
    BY <2>2, <2>3, <2>4, PieceStands, FirstOf
<1>3. CASE c.do \in HomeCommands
  <2>1. q = HomeProgram(c, id)
    BY <1>3 DEF ProgramOf, SkillCommands, HomeCommands
  <2>2. \/ Piece(q)
        \/ c.do = "init" /\ q = Write(PrivateKey, Pem(id)) \o Write(PublicKey, Pem(id))
                                \o Write(Config, ConfigText("ES256", NoPair))
    BY <1>3, <2>1, HomeProgramPiece
  <2> HIDE DEF q
  <2>3. CASE Piece(q)
    <3>1. q # <<>> => q[1].do # "fill"
      BY <2>3 DEF Piece
    <3>2. Stands(q, d)
      BY <2>3, PieceStands
    <3> QED
      BY <2>3, <3>1, <3>2, PieceStands, FirstOf DEF q
  <2>4. CASE ~Piece(q)
    <3>1. Stands(q, d) /\ PairThen(q, d) /\ q # <<>> /\ q[1].do # "fill" /\ c.do = "init"
      BY <2>2, <2>4, PairStands
    <3> QED
      BY <3>1, FirstOf DEF q
  <2> QED
    BY <2>3, <2>4
<1>4. CASE c.do \in ProviderCommands
  <2>1. q = ProviderProgram(c)
    BY <1>4 DEF ProgramOf, SkillCommands, HomeCommands, ProviderCommands
  <2>2. \/ Piece(q)
        \/ c.on \in Names /\ q =
             <<Op("fetch", SpecFile(c.on), NoData)>>
             \o (Write(SpecFile(c.on), SpecText) \o Write(ManifestFile(c.on), Manifest(c.on, "openapi")))
    BY <1>4, <2>1, ProviderProgramPiece
  <2> HIDE DEF q
  <2>3. CASE Piece(q)
    <3>1. q # <<>> => q[1].do # "fill"
      BY <2>3 DEF Piece
    <3>2. Stands(q, d)
      BY <2>3, PieceStands
    <3> QED
      BY <2>3, <3>1, <3>2, PieceStands, FirstOf DEF q
  <2>4. CASE ~Piece(q)
    <3>1. Stands(q, d) /\ ~PublicLater(q) /\ q[1].do # "fill"
      BY <2>2, <2>4, ImportStands
    <3>2. PairThen(q, d)
      BY <3>1 DEF PairThen, PublicLater
    <3> QED
      BY <3>1, <3>2, FirstOf DEF q
  <2> QED
    BY <2>3, <2>4
<1> QED
  BY <1>1, <1>2, <1>3, <1>4

-----------------------------------------------------------------------------
(* The invariant, from one state to the next                                *)

LEMMA InitKeeps == Init => HomeInv
<1> SUFFICES ASSUME Init PROVE HomeInv
  OBVIOUS
<1> USE DEF Init
<1>1. \A path \in Paths : disk[path] = None
  OBVIOUS
<1>2. \A p \in Procs : prog[p] = <<>> /\ Stands(prog[p], disk) /\ PairThen(prog[p], disk) /\ ~PublicLater(prog[p])
  BY PieceNone, PieceStands
<1>3. DiskOK(disk)
  BY DEF DiskOK
<1>4. disk[PrivateKey] = disk[PublicKey]
  BY <1>1, PathsAre
<1>5. \A path \in Paths : disk[path] # Empty
  BY <1>1, TextsDiffer
<1>6. \A n \in Names : ~Openapi(disk[ManifestFile(n)])
  BY <1>1, PathsAre, TextsDiffer
<1>7. \A u \in Urls : head[u] \in 1..MaxVersion[u]
  BY VersionsAre
<1>8. Busy = {}
  BY DEF Busy
<1> QED
  BY <1>2, <1>3, <1>4, <1>5, <1>6, <1>7, <1>8 DEF HomeInv

\* A command starts with a program that stands; it is alone if no other is on its way.
LEMMA StartKeeps ==
    ASSUME HomeInv, NEW p \in Procs, NEW c \in Commands, Start(p, c)
    PROVE  HomeInv'
<1> DEFINE Q == ProgramOf(c, starts + 1)
<1>1. /\ prog[p] = <<>> /\ prog' = [prog EXCEPT ![p] = Q]
      /\ cmd' = [cmd EXCEPT ![p] = IF Q = <<>> THEN NoCommand ELSE c]
      /\ alone' = (alone /\ Busy = {}) /\ disk' = disk /\ head' = head /\ torn' = torn
  BY DEF Start
<1>2. Stands(Q, disk) /\ PairThen(Q, disk) /\ (PublicLater(Q) => Q # <<>> /\ c.do = "init")
  BY ProgramStands
<1> HIDE DEF Q
<1>3. /\ DOMAIN prog' = Procs /\ DOMAIN cmd' = Procs /\ prog'[p] = Q
      /\ \A o \in Procs \ {p} : prog'[o] = prog[o] /\ cmd'[o] = cmd[o]
      /\ (Q # <<>> => cmd'[p] = c)
  BY <1>1 DEF HomeInv
<1>4. ASSUME NEW o \in Procs
      PROVE  /\ Stands(prog'[o], disk') /\ (PublicLater(prog'[o]) => cmd'[o].do = "init")
             /\ alone' => PairThen(prog'[o], disk')
  <2>1. CASE o = p
    BY <1>1, <1>2, <1>3, <2>1
  <2>2. CASE o # p
    BY <1>1, <1>3, <2>2 DEF HomeInv
  <2> QED
    BY <2>1, <2>2
<1>5. ASSUME NEW path \in Paths, disk'[path] = Empty PROVE Unfinished(path)'
  <2>1. Unfinished(path)
    BY <1>1, <1>5 DEF HomeInv
  <2>2. CASE Writing(path)
    <3>1. PICK o \in Busy : Head(prog[o]).do = "fill" /\ Head(prog[o]).at = path
      BY <2>2 DEF Writing, Writes, Busy
    <3>2. o \in Procs \ {p} /\ prog'[o] = prog[o] /\ prog[o] # <<>>
      BY <1>1, <1>3, <3>1 DEF Busy
    <3> QED
      BY <3>1, <3>2 DEF Unfinished, Writing, Writes, Busy
  <2>3. CASE path \in torn
    BY <1>1, <2>3 DEF Unfinished
  <2> QED
    BY <2>1, <2>2, <2>3 DEF Unfinished
<1>6. ASSUME alone' PROVE \A o, r \in Busy' : o = r
  <2>1. Busy' \subseteq {p}
    BY <1>1, <1>3, <1>6 DEF Busy
  <2> QED
    BY <2>1
<1>7. ASSUME alone'
      PROVE  \/ disk'[PrivateKey] = disk'[PublicKey] \/ PublicKey \in torn'
             \/ \E o \in Procs : PublicLater(prog'[o])
  <2>1. \/ disk[PrivateKey] = disk[PublicKey] \/ PublicKey \in torn
        \/ \E o \in Procs : PublicLater(prog[o])
    BY <1>1, <1>7 DEF HomeInv
  <2>2. ~PublicLater(prog[p])
    BY <1>1, PieceNone, PieceStands
  <2>3. \A o \in Procs : PublicLater(prog[o]) => PublicLater(prog'[o])
    BY <1>3, <2>2
  <2> QED
    BY <1>1, <2>1, <2>3
<1>8. alone' \in BOOLEAN
  BY <1>1 DEF HomeInv
<1>9. /\ DOMAIN head' = Urls /\ \A u \in Urls : head'[u] \in 1..MaxVersion[u]
      /\ DiskOK(disk') /\ torn' \subseteq Paths
      /\ \A n \in Names : Openapi(disk'[ManifestFile(n)]) => disk'[SpecFile(n)] # None
  BY <1>1 DEF HomeInv
<1> QED
  BY <1>3, <1>4, <1>5, <1>6, <1>7, <1>8, <1>9 DEF HomeInv

\* A killed process is excused from what it was to write.
LEMMA KillKeeps ==
    ASSUME HomeInv, NEW p \in Procs, Kill(p)
    PROVE  HomeInv'
<1> DEFINE q == prog[p]
           T == {op.at : op \in {q[i] : i \in {j \in DOMAIN q : q[j].do = "fill"}}}
<1>1. /\ q # <<>> /\ torn' = torn \cup T
      /\ prog' = [prog EXCEPT ![p] = <<>>] /\ cmd' = [cmd EXCEPT ![p] = NoCommand]
      /\ alone' = alone /\ disk' = disk /\ head' = head
  BY DEF Kill
<1>2. Stands(q, disk)
  BY DEF HomeInv
<1>3. \A i \in DOMAIN q : q[i].do = "fill" => q[i].at \in T
  OBVIOUS
<1>4. T \subseteq Paths
  BY <1>2 DEF Stands, Shaped, GoodOp
<1> HIDE DEF T
<1>5. /\ DOMAIN prog' = Procs /\ DOMAIN cmd' = Procs /\ prog'[p] = <<>>
      /\ \A o \in Procs \ {p} : prog'[o] = prog[o] /\ cmd'[o] = cmd[o]
  BY <1>1 DEF HomeInv
<1>6. ASSUME NEW o \in Procs
      PROVE  /\ Stands(prog'[o], disk') /\ (PublicLater(prog'[o]) => cmd'[o].do = "init")
             /\ alone' => PairThen(prog'[o], disk')
  <2>1. CASE o = p
    BY <1>5, <2>1, PieceNone, PieceStands
  <2>2. CASE o # p
    BY <1>1, <1>5, <2>2 DEF HomeInv
  <2> QED
    BY <2>1, <2>2
<1>7. ASSUME NEW path \in Paths, disk'[path] = Empty PROVE Unfinished(path)'
  <2>1. Unfinished(path)
    BY <1>1, <1>7 DEF HomeInv
  <2>2. CASE Writing(path)
    <3>1. PICK o \in Busy : Head(prog[o]).do = "fill" /\ Head(prog[o]).at = path
      BY <2>2 DEF Writing, Writes, Busy
    <3>2. CASE o = p
      <4>1. Head(q) = q[1] /\ 1 \in DOMAIN q
        BY <1>1, <1>2, TailIs DEF Stands, Shaped
      <4> QED
        BY <1>1, <1>3, <3>1, <3>2, <4>1 DEF Unfinished
    <3>3. CASE o # p
      <4>1. o \in Procs \ {p} /\ prog'[o] = prog[o] /\ prog[o] # <<>>
        BY <1>5, <3>1, <3>3 DEF Busy
      <4> QED
        BY <3>1, <4>1 DEF Unfinished, Writing, Writes, Busy
    <3> QED
      BY <3>2, <3>3
  <2>3. CASE path \in torn
    BY <1>1, <2>3 DEF Unfinished
  <2> QED
    BY <2>1, <2>2, <2>3 DEF Unfinished
<1>8. Busy' \subseteq Busy
  BY <1>5 DEF Busy
<1>9. ASSUME alone'
      PROVE  \/ disk'[PrivateKey] = disk'[PublicKey] \/ PublicKey \in torn'
             \/ \E o \in Procs : PublicLater(prog'[o])
  <2>1. \/ disk[PrivateKey] = disk[PublicKey] \/ PublicKey \in torn
        \/ \E o \in Procs : PublicLater(prog[o])
    BY <1>1, <1>9 DEF HomeInv
  <2>2. PublicLater(prog[p]) => PublicKey \in torn'
    BY <1>1, <1>3 DEF PublicLater, FillsAt
  <2>3. \A o \in Procs \ {p} : PublicLater(prog[o]) => PublicLater(prog'[o])
    BY <1>5
  <2> QED
    BY <1>1, <2>1, <2>2, <2>3
<1>10. alone' => \A o, r \in Busy' : o = r
  BY <1>1, <1>8 DEF HomeInv
<1>11. /\ DOMAIN head' = Urls /\ \A u \in Urls : head'[u] \in 1..MaxVersion[u]
       /\ DiskOK(disk') /\ torn' \subseteq Paths /\ alone' \in BOOLEAN
       /\ \A n \in Names : Openapi(disk'[ManifestFile(n)]) => disk'[SpecFile(n)] # None
  BY <1>1, <1>4 DEF HomeInv
<1> QED
  BY <1>5, <1>6, <1>7, <1>9, <1>10, <1>11 DEF HomeInv

\* What time, the user and the repositories do: the programs stay as they are.
LEMMA OthersKeep ==
    ASSUME HomeInv, prog' = prog, cmd' = cmd, alone' = alone, torn' \subseteq torn,
           DOMAIN head' = Urls, \A u \in Urls : head'[u] \in 1..MaxVersion[u],
           DiskOK(disk'), Kept(disk, disk'),
           \A path \in Paths : disk'[path] = Empty => disk[path] = Empty /\ (path \in torn => path \in torn'),
           \A n \in Names : Openapi(disk'[ManifestFile(n)]) => Openapi(disk[ManifestFile(n)]),
           disk'[PrivateKey] = disk[PrivateKey], disk'[PublicKey] = disk[PublicKey],
           PublicKey \in torn => PublicKey \in torn'
    PROVE  HomeInv'
<1>1. ASSUME NEW p \in Procs
      PROVE  /\ Stands(prog'[p], disk') /\ (PublicLater(prog'[p]) => cmd'[p].do = "init")
             /\ alone' => PairThen(prog'[p], disk')
  <2>1. Stands(prog[p], disk')
    BY KeptStands DEF HomeInv
  <2> QED
    BY <2>1 DEF HomeInv, PairThen
<1>2. ASSUME NEW path \in Paths, disk'[path] = Empty PROVE Unfinished(path)'
  <2>1. Unfinished(path)
    BY <1>2 DEF HomeInv
  <2> QED
    BY <1>2, <2>1 DEF Unfinished, Writing, Writes, Busy
<1>3. Busy' = Busy
  BY DEF Busy
<1>4. \A n \in Names : Openapi(disk'[ManifestFile(n)]) => disk'[SpecFile(n)] # None
  <2>1. \A n \in Names : SpecFile(n) \in Stays
    BY DEF Stays
  <2> QED
    BY <2>1 DEF HomeInv, Kept
<1>5. alone' =>
        /\ \A o, r \in Busy' : o = r
        /\ \/ disk'[PrivateKey] = disk'[PublicKey] \/ PublicKey \in torn'
           \/ \E o \in Procs : PublicLater(prog'[o])
  BY <1>3 DEF HomeInv
<1>6. /\ DOMAIN prog' = Procs /\ DOMAIN cmd' = Procs /\ alone' \in BOOLEAN /\ torn' \subseteq Paths
  BY DEF HomeInv
<1> QED
  BY <1>1, <1>2, <1>4, <1>5, <1>6 DEF HomeInv

\* The entries of the cache grow old; nothing else does.
LEMMA TickKeeps ==
    ASSUME HomeInv, Tick
    PROVE  HomeInv'
<1>1. /\ DOMAIN disk' = Paths /\ UNCHANGED <<head, prog, cmd, starts, edits, alone, torn, crossed, vouched>>
      /\ \A path \in Paths :
           \/ disk'[path] = disk[path]
           \/ disk[path].is = "cached" /\ disk'[path].is = "cached"
  <2>1. disk' = [path \in Paths |-> IF path \in Cached /\ disk[path].left >= 0
                                    THEN Older(disk[path]) ELSE disk[path]]
        /\ UNCHANGED <<head, prog, cmd, starts, edits, alone, torn, crossed, vouched>>
    BY DEF Tick
  <2>2. \A c : Older(c).is = "cached"
    BY DEF Older, CachedProvider
  <2>3. \A path \in Paths : disk'[path] = disk[path] \/ (path \in Cached /\ disk'[path] = Older(disk[path]))
    BY <2>1
  <2> QED
    BY <2>1, <2>2, <2>3 DEF Cached
<1>2. DiskOK(disk)
  BY DEF HomeInv
<1>3. \A c : c.is = "cached" => c # None /\ c # Empty /\ c # Mixed /\ c # SpecText /\ ~Openapi(c) /\ ~TomlOK(c) /\ ~BundleOK(c)
  BY DEF None, Empty, Mixed, SpecText, Openapi, TomlOK, BundleOK
<1>4. ASSUME NEW path \in Paths, disk'[path] # disk[path]
      PROVE  TextFor(path, disk'[path]) /\ path \notin Stays /\ \A n \in Names : path # ManifestFile(n)
  <2>1. disk[path].is = "cached" /\ disk'[path].is = "cached"
    BY <1>1, <1>4
  <2>2. TextFor(path, disk[path])
    BY <1>2, <1>3, <2>1 DEF DiskOK
  <2>3. /\ \A n \in Names : path # ManifestFile(n) /\ path # SpecFile(n)
        /\ \A s \in Skills : path # SkillToml(s) /\ path # BundledProvider(s)
        /\ path \notin {Credentials, PrivateKey, PublicKey}
    BY <1>3, <2>1, <2>2 DEF TextFor
  <2>4. path \notin Stays
    BY <2>3 DEF Stays
  <2>5. TextFor(path, disk'[path])
    BY <2>1, <2>3 DEF TextFor
  <2> QED
    BY <2>3, <2>4, <2>5
<1>5. DiskOK(disk')
  BY <1>1, <1>2, <1>4 DEF DiskOK
<1>6. Kept(disk, disk') /\ disk'[PrivateKey] = disk[PrivateKey] /\ disk'[PublicKey] = disk[PublicKey]
  BY <1>4, PathsAre DEF Kept
<1>7. \A path \in Paths : disk'[path] = Empty => disk[path] = Empty
  BY <1>1, <1>3
<1>8. \A n \in Names : disk'[ManifestFile(n)] = disk[ManifestFile(n)]
  BY <1>4, PathsAre
<1>9. DOMAIN head = Urls /\ \A u \in Urls : head[u] \in 1..MaxVersion[u]
  BY DEF HomeInv
<1> QED
  BY <1>1, <1>5, <1>6, <1>7, <1>8, <1>9, OthersKeep

LEMMA EditKeeps ==
    ASSUME HomeInv, NEW s \in Skills, Edit(s)
    PROVE  HomeInv'
<1> DEFINE path == SkillMd(s)
           w == Text(ByHand, edits + 1)
<1>1. /\ disk' = [disk EXCEPT ![path] = w] /\ torn' = torn \ {path}
      /\ head' = head /\ prog' = prog /\ cmd' = cmd /\ alone' = alone
  BY DEF Edit
<1>2. w.is = "text"
  BY DEF Text
<1> HIDE DEF w
<1>3. TextFor(path, w)
  BY <1>2, MdWrite
<1>4. DiskOK(disk) /\ DOMAIN disk = Paths
  BY DEF HomeInv, DiskOK
<1>5. path \in Paths \ Stays /\ path \in FilesOf(s)
  BY NotStays DEF FilesOf
<1>6. path \notin TopFiles /\ \A n : path # ManifestFile(n) /\ path # SpecFile(n)
  BY <1>5, PathsDiffer
<1> HIDE DEF path
<1>7. /\ DOMAIN disk' = Paths /\ disk'[path] = w
      /\ \A other \in Paths \ {path} : disk'[other] = disk[other]
  BY <1>1, <1>4, <1>5
<1>8. DiskOK(disk')
  BY <1>3, <1>4, <1>7 DEF DiskOK
<1>9. Kept(disk, disk') /\ disk'[PrivateKey] = disk[PrivateKey] /\ disk'[PublicKey] = disk[PublicKey]
  BY <1>5, <1>7, PathsAre DEF Kept
<1>10. w # Empty
  BY <1>3, TextsDiffer
<1>11. \A other \in Paths : disk'[other] = Empty =>
         disk[other] = Empty /\ (other \in torn => other \in torn')
  BY <1>1, <1>7, <1>10
<1>12. \A n \in Names : disk'[ManifestFile(n)] = disk[ManifestFile(n)]
  BY <1>6, <1>7, PathsAre
<1>13. PublicKey \in torn => PublicKey \in torn'
  BY <1>1, <1>6 DEF TopFiles
<1>14. DOMAIN head' = Urls /\ \A u \in Urls : head'[u] \in 1..MaxVersion[u]
  BY <1>1 DEF HomeInv
<1>15. torn' \subseteq torn
  BY <1>1
<1> QED
  BY <1>1, <1>8, <1>9, <1>11, <1>12, <1>13, <1>14, <1>15, OthersKeep

LEMMA PublishKeeps ==
    ASSUME HomeInv, NEW u \in Urls, Publish(u)
    PROVE  HomeInv'
<1>1. /\ head[u] < MaxVersion[u] /\ head' = [head EXCEPT ![u] = head[u] + 1]
      /\ UNCHANGED <<disk, prog, cmd, alone, torn>>
  BY DEF Publish
<1>2. DOMAIN head = Urls /\ \A v \in Urls : head[v] \in 1..MaxVersion[v] /\ MaxVersion[v] \in Nat
  BY VersionsAre DEF HomeInv
<1>3. DOMAIN head' = Urls /\ \A v \in Urls : head'[v] \in 1..MaxVersion[v]
  <2>1. DOMAIN head' = Urls /\ head'[u] = head[u] + 1 /\ \A v \in Urls \ {u} : head'[v] = head[v]
    BY <1>1, <1>2
  <2>2. head'[u] \in 1..MaxVersion[u]
    BY <1>1, <1>2, <2>1
  <2> QED
    BY <1>2, <2>1, <2>2
<1>4. DiskOK(disk') /\ Kept(disk, disk')
  BY <1>1 DEF HomeInv, Kept
<1> QED
  BY <1>1, <1>3, <1>4, OthersKeep

LEMMA NextKeeps ==
    ASSUME HomeInv, CrossInv, [Next]_vars
    PROVE  HomeInv'
<1>1. CASE \E p \in Procs, c \in Commands : Start(p, c)
  BY <1>1, StartKeeps
<1>2. CASE \E p \in Procs : FileStep(p) \/ SkillStep(p) \/ HomeStep(p) \/ Kill(p)
  BY <1>2, FileStepKeeps, SkillStepKeeps, HomeStepKeeps, KillKeeps
<1>3. CASE Tick
  BY <1>3, TickKeeps
<1>4. CASE \E s \in Skills : Edit(s)
  BY <1>4, EditKeeps
<1>5. CASE \E u \in Urls : Publish(u)
  BY <1>5, PublishKeeps
<1>6. CASE UNCHANGED vars
  <2>1. UNCHANGED vars
    BY <1>6 DEF vars
  <2>2. /\ DiskOK(disk') /\ Kept(disk, disk') /\ DOMAIN head' = Urls
        /\ \A u \in Urls : head'[u] \in 1..MaxVersion[u]
    BY <2>1 DEF HomeInv, Kept, vars
  <2> QED
    BY <2>1, <2>2, OthersKeep DEF vars
<1> QED
  BY <1>1, <1>2, <1>3, <1>4, <1>5, <1>6 DEF Next

\* What is neither a step of a process nor a new one crosses nobody.
LEMMA OthersCross ==
    ASSUME CrossInv, crossed' = crossed, alone' => alone,
           \A p \in Procs : \A path : Writes(p, path)' => Writes(p, path),
           \A path \in Judged : disk'[path] = disk[path]
    PROVE  CrossInv'
<1>1. ASSUME NEW path \in Judged \ crossed PROVE Apart(path)' /\ disk'[path] # Mixed
  <2>1. Apart(path) /\ disk[path] # Mixed
    BY DEF CrossInv
  <2> QED
    BY <2>1 DEF Apart
<1> QED
  BY <1>1 DEF CrossInv

LEMMA NotCached ==
    ASSUME HomeInv, NEW path \in Judged
    PROVE  path \in Paths /\ disk[path].is # "cached"
<1>1. path \in Paths
  BY JudgedPaths
<1>2. disk[path] \in {None, Empty, Mixed} \/ TextFor(path, disk[path])
  BY <1>1 DEF HomeInv, DiskOK
<1>3. None.is = "none" /\ Empty.is = "empty" /\ Mixed.is = "mixed" /\ SpecText.is = "spec"
  BY DEF None, Empty, Mixed, SpecText
<1>4. TextFor(path, disk[path]) => disk[path].is # "cached"
  BY <1>3 DEF TextFor, Judged, Stays
<1> QED
  BY <1>1, <1>2, <1>3, <1>4

LEMMA NextCross ==
    ASSUME HomeInv, CrossInv, [Next]_vars
    PROVE  CrossInv'
<1>1. ASSUME NEW p \in Procs, NEW c \in Commands, Start(p, c) PROVE CrossInv'
  <2> DEFINE Q == ProgramOf(c, starts + 1)
  <2>1. /\ prog[p] = <<>> /\ prog' = [prog EXCEPT ![p] = Q]
        /\ alone' = (alone /\ Busy = {}) /\ disk' = disk /\ crossed' = crossed
    BY <1>1 DEF Start
  <2>2. Q # <<>> => Head(Q).do # "fill"
    BY ProgramStands
  <2> HIDE DEF Q
  <2>3. prog'[p] = Q /\ \A o \in Procs \ {p} : prog'[o] = prog[o]
    BY <2>1 DEF HomeInv
  <2>4. \A o \in Procs : \A path : Writes(o, path)' => Writes(o, path)
    BY <2>2, <2>3 DEF Writes
  <2> QED
    BY <2>1, <2>4, OthersCross
<1>2. CASE \E p \in Procs : FileStep(p) \/ SkillStep(p) \/ HomeStep(p)
  BY <1>2, StepsCross
<1>3. ASSUME NEW p \in Procs, Kill(p) PROVE CrossInv'
  <2>1. prog' = [prog EXCEPT ![p] = <<>>] /\ alone' = alone /\ disk' = disk /\ crossed' = crossed
    BY <1>3 DEF Kill
  <2>2. prog'[p] = <<>> /\ \A o \in Procs \ {p} : prog'[o] = prog[o]
    BY <2>1 DEF HomeInv
  <2>3. \A o \in Procs : \A path : Writes(o, path)' => Writes(o, path)
    BY <2>2 DEF Writes
  <2> QED
    BY <2>1, <2>3, OthersCross
<1>4. CASE Tick
  <2>1. /\ prog' = prog /\ alone' = alone /\ crossed' = crossed
        /\ \A path \in Paths : disk[path].is # "cached" => disk'[path] = disk[path]
    BY <1>4 DEF Tick, Cached
  <2>2. \A path \in Judged : disk'[path] = disk[path]
    BY <2>1, NotCached
  <2> QED
    BY <2>1, <2>2, OthersCross DEF Writes
<1>5. ASSUME NEW s \in Skills, Edit(s) PROVE CrossInv'
  <2>1. /\ prog' = prog /\ alone' = alone /\ crossed' = crossed
        /\ disk' = [disk EXCEPT ![SkillMd(s)] = Text(ByHand, edits + 1)]
    BY <1>5 DEF Edit
  <2>2. SkillMd(s) \notin Judged
    <3>1. \A f \in FilesOf(s) : \A n : f # ManifestFile(n) /\ f # SpecFile(n) /\ f \notin TopFiles
      BY PathsDiffer
    <3>2. SkillMd(s) \in FilesOf(s)
      BY DEF FilesOf
    <3> QED
      BY <3>1, <3>2 DEF Judged, Stays, TopFiles
  <2>3. \A path \in Judged : disk'[path] = disk[path]
    <3>1. DOMAIN disk = Paths
      BY DEF HomeInv, DiskOK
    <3> QED
      BY <2>1, <2>2, <3>1, JudgedPaths
  <2> QED
    BY <2>1, <2>3, OthersCross DEF Writes
<1>6. CASE (\E u \in Urls : Publish(u)) \/ UNCHANGED vars
  <2>1. prog' = prog /\ alone' = alone /\ crossed' = crossed /\ disk' = disk
    BY <1>6 DEF Publish, vars
  <2> QED
    BY <2>1, OthersCross DEF Writes
<1> QED
  BY <1>1, <1>2, <1>3, <1>4, <1>5, <1>6 DEF Next

LEMMA InitCross == Init => CrossInv
<1> SUFFICES ASSUME Init PROVE CrossInv
  OBVIOUS
<1>1. \A p \in Procs : \A path : ~Writes(p, path)
  BY DEF Init, Writes
<1>2. \A path \in Judged : disk[path] = None
  BY JudgedPaths DEF Init
<1>3. crossed = {}
  BY DEF Init
<1> QED
  BY <1>1, <1>2, <1>3, TextsDiffer DEF CrossInv, Apart

\* The invariant says why anything is broken.
LEMMA InvMeans ==
    ASSUME HomeInv, CrossInv
    PROVE  BrokenForCause
<1>1. ASSUME NEW path \in Judged
      PROVE  disk[path] = None \/ Excused(path) \/ TextFor(path, disk[path])
  <2>1. path \in Paths
    BY JudgedPaths
  <2>2. disk[path] = Empty => Excused(path)
    BY <2>1 DEF HomeInv, Unfinished, Excused
  <2>3. disk[path] = Mixed => Excused(path)
    BY DEF CrossInv, Excused
  <2> QED
    BY <2>1, <2>2, <2>3 DEF HomeInv, DiskOK
<1>2. ManifestsWhole
  <2> SUFFICES ASSUME NEW n \in Names, disk[ManifestFile(n)] # None
               PROVE  Parses(disk, n) \/ disk[ManifestFile(n)].is = "junk" \/ Excused(ManifestFile(n))
    BY DEF ManifestsWhole, Exists
  <2>1. Excused(ManifestFile(n)) \/ TextFor(ManifestFile(n), disk[ManifestFile(n)])
    BY <1>1 DEF Judged
  <2> QED
    BY <2>1 DEF TextFor, Parses
<1>3. SpecsWhole
  <2> SUFFICES ASSUME NEW n \in Names, Parses(disk, n), disk[ManifestFile(n)].handler = "openapi"
               PROVE  HasTools(disk, n) \/ Excused(SpecFile(n))
    BY DEF SpecsWhole
  <2>1. disk[SpecFile(n)] # None
    BY DEF HomeInv, Openapi, Parses
  <2>2. Excused(SpecFile(n)) \/ disk[SpecFile(n)] = SpecText
    BY <1>1, <2>1 DEF TextFor, Judged, Stays
  <2> QED
    BY <2>2 DEF HasTools, SpecLoads
<1>4. CredentialsWhole
  <2>1. disk[Credentials] = None \/ Excused(Credentials) \/ disk[Credentials].is = "keys"
    BY <1>1 DEF TextFor, Judged
  <2> QED
    BY <2>1 DEF CredentialsWhole, CredentialsLoad, Exists
<1>5. PairMatches
  <2>1. CASE ~alone
    BY <2>1 DEF PairMatches
  <2>2. CASE \E p \in Procs : PublicLater(prog[p])
    <3>1. PICK p \in Procs : PublicLater(prog[p])
      BY <2>2
    <3>2. prog[p] # <<>> /\ cmd[p].do = "init"
      BY <3>1, PieceNone, PieceStands DEF HomeInv
    <3> QED
      BY <3>2 DEF PairMatches, InitRuns, Busy
  <2>3. CASE disk[PrivateKey] = disk[PublicKey] \/ PublicKey \in torn
    BY <2>3 DEF PairMatches
  <2> QED
    BY <2>1, <2>2, <2>3 DEF HomeInv
<1> QED
  BY <1>2, <1>3, <1>4, <1>5 DEF BrokenForCause

-----------------------------------------------------------------------------
(* The theorems                                                             *)

\* What the commands leave can be loaded, whatever ran together with what, whatever was
\* killed and wherever: a manifest parses or is text taken unread from a language model, an
\* OpenAPI manifest has its spec, the credentials parse, and the halves of the signing key
\* belong together if no two commands overlapped, unless the file is being written or a
\* killed process was to write it (cli/provider.rs, cli/skills.rs, cli/init.rs, cli/keys.rs).
THEOREM BrokenOnlyForCause == Spec => []BrokenForCause
<1>1. Init => HomeInv /\ CrossInv
  BY InitKeeps, InitCross
<1>2. HomeInv /\ CrossInv /\ [Next]_vars => (HomeInv /\ CrossInv)'
  BY NextKeeps, NextCross
<1>3. HomeInv /\ CrossInv => BrokenForCause
  BY InvMeans
<1> QED
  BY <1>1, <1>2, <1>3, PTL DEF Spec

\* The part of the type invariant that no step takes from HomeInv.
CommandsAndCounts ==
    /\ DOMAIN cmd = Procs /\ \A p \in Procs : cmd[p] \in Commands \cup {NoCommand}
    /\ starts \in 0..MaxStarts /\ edits \in 0..MaxEdits

\* The disk has the paths it had, no repository is past its versions, and every process is
\* idle or runs a command that was asked for: the commands write nowhere else.
THEOREM TypeCorrect == Spec => []TypeOK
<1> USE DEF CommandsAndCounts
<1>1. Init => CommandsAndCounts
  BY AtiHomeAssumption DEF Init, AtiHomeAssumption
<1>2. CommandsAndCounts /\ [Next]_vars => CommandsAndCounts'
  <2> SUFFICES ASSUME CommandsAndCounts, [Next]_vars PROVE CommandsAndCounts'
    OBVIOUS
  <2>1. ASSUME NEW p \in Procs, NEW c \in Commands, Start(p, c) PROVE CommandsAndCounts'
    <3>1. /\ starts < (IF alone /\ Busy = {} THEN MaxStarts ELSE MaxTogether) /\ starts' = starts + 1
          /\ cmd' = [cmd EXCEPT ![p] = IF ProgramOf(c, starts + 1) = <<>> THEN NoCommand ELSE c]
          /\ edits' = edits
      BY <2>1 DEF Start
    <3>2. starts' \in 0..MaxStarts
      BY <3>1, AtiHomeAssumption DEF AtiHomeAssumption
    <3> QED
      BY <3>1, <3>2
  <2>2. ASSUME NEW p \in Procs, NEW results, Take(p, results) PROVE CommandsAndCounts'
    BY <2>2 DEF Take
  <2>3. CASE \E p \in Procs : FileStep(p) \/ SkillStep(p) \/ HomeStep(p)
    BY <2>2, <2>3 DEF FileStep, SkillStep, HomeStep
  <2>4. ASSUME NEW p \in Procs, Kill(p) PROVE CommandsAndCounts'
    BY <2>4 DEF Kill
  <2>5. CASE Tick
    BY <2>5 DEF Tick
  <2>6. ASSUME NEW s \in Skills, Edit(s) PROVE CommandsAndCounts'
    <3>1. edits < MaxEdits /\ edits' = edits + 1 /\ cmd' = cmd /\ starts' = starts
      BY <2>6 DEF Edit
    <3>2. MaxEdits \in Nat
      BY AtiHomeAssumption DEF AtiHomeAssumption
    <3> QED
      BY <3>1, <3>2
  <2>7. ASSUME NEW u \in Urls, Publish(u) PROVE CommandsAndCounts'
    BY <2>7 DEF Publish
  <2>8. CASE UNCHANGED vars
    BY <2>8 DEF vars
  <2> QED
    BY <2>1, <2>3, <2>4, <2>5, <2>6, <2>7, <2>8 DEF Next
<1>3. HomeInv /\ CrossInv /\ CommandsAndCounts => TypeOK
  BY DEF HomeInv, CrossInv, DiskOK, TypeOK
<1>4. HomeInv /\ CrossInv /\ [Next]_vars => (HomeInv /\ CrossInv)'
  BY NextKeeps, NextCross
<1> QED
  BY <1>1, <1>2, <1>3, <1>4, InitKeeps, InitCross, PTL DEF Spec

IsByHand(d, s) == d[SkillMd(s)].is = "text" /\ d[SkillMd(s)].from = ByHand
Living(c) == c.is = "cached" /\ c.left >= 0

\* What the repositories hold, and the signatures that are not of their text's installation.
World == [at |-> head, vouched |-> vouched]

\* A text that may be signed as one of a source: the source published it, at the pinned commit if
\* any, or an installation vouches for it.
Backed(text, url, pin, h) == TextIsOf(text, url, pin, h.at) \/ Signature(text, url, pin) \in h.vouched

\* A record of a source is of such a text, or a repository shipped the record itself.
Published(t, h) == t.url # NoUrl => Backed(t.hash, t.url, t.pin, h) \/ TomlIsShipped(t, h.at)

\* An edit that the command must not touch: an update may, if a signature was made of it.
Held(d, c, h) ==
    IsByHand(d, c.on) /\ (c.do = "skill update" => \A x \in h.vouched : x.text # d[SkillMd(c.on)])

\* The disk between two calls: a skill's files are in its directory, and its record is true.
Sound(d, h) ==
    /\ \A s \in Skills : \A f \in FilesOf(s) : Exists(d, f) => Exists(d, SkillDir(s))
    /\ \A s \in Skills : Published(ReadToml(d, s), h)
    /\ \A n \in Names : d[CacheFile(n)].is = "cached" => d[CacheFile(n)].left \in Int
    /\ \A s \in Skills : d[SkillMd(s)].is # "cached"
    /\ \A x \in h.vouched : x.text # NoHash

\* A command that may change a skill.
Changes(c, s) ==
    c.do = "install-skills" \/ (c.do \in SkillCommands \ {"skill diff"} /\ c.on = s)

\* A command that was asked to change the cached entry of a provider.
Recaches(c, n) == c.do \in {"unload", "load mcp", "load openapi"} /\ c.on = n

\* A command that was asked to change the credentials.
Rekeys(c) == c.do \in {"key set", "key remove"}

\* The operations that a command makes: it changes what it was asked to change.
Removes(op, c) ==
    /\ op.do \in {"open", "unlink"} =>
        \A n \in Names : op.at = CacheFile(n) => Recaches(c, n)
    /\ op.do = "open" => \A s \in Skills : op.at = SkillMd(s) => Changes(c, s)
    /\ op.do \in {"rmdir", "copy", "clone", "update"} => Changes(c, op.at)
    /\ op.do = "open" /\ op.at = Credentials => Rekeys(c)
Fills(op, h) ==
    op.do = "fill" =>
        /\ \A s \in Skills : /\ op.at = SkillToml(s) /\ op.with.is = "toml" => Published(op.with, h)
                             /\ op.at = SkillMd(s) => op.with.from # ByHand /\ op.with.is # "cached"
        /\ \A n \in Names : op.at = CacheFile(n) /\ op.with.is = "cached" => op.with.left \in Int
Ends(op, c) ==
    \/ op.with.tail = <<Op("bundle", op.at, NoData)>>
    \/ /\ c.do # "install-skills"
       /\ \/ op.with.tail = Finish(op.at, NoUrl, NoPin)
          \/ op.do = "clone" /\ op.with.tail = Finish(op.at, op.with.url, op.with.pin)
Carries(op, c) ==
    /\ op.do \in {"skills", "end"} => c.do = "install-skills"
    /\ op.do = "load" => \/ op.with.then = <<>>
                         \/ c.do = "install-skills" /\ op.with.then = <<Op("skills", op.at, NoData)>>
    /\ op.do \in {"copy", "clone"} => Ends(op, c)
    /\ op.do = "sign" => c.do # "install-skills"
    /\ op.do = "update" => c.do = "skill update" /\ op.at = c.on /\ op.with.force = c.with.force
    /\ op.do = "new" => /\ c.do \notin {"install-skills", "skill update"}
                        /\ c.do = "skill init" => op.at = SkillDir(c.on)
    /\ op.do \in {"set key", "remove key"} => Rekeys(c)
Belongs(op, c, h) == Removes(op, c) /\ Fills(op, h) /\ Carries(op, c)

\* The i-th operation signs a text that may be signed so: the one on the disk, or one that is
\* written before.
Signs(q, i, d, h) ==
    LET path == SkillMd(q[i].at)
        May(text) == Backed(text, q[i].with.url, q[i].with.pin, h)
    IN  /\ \A j \in 1..(i - 1) : q[j].do \in {"mkdir", "open", "fill"}
        /\ q[i].with.url # NoUrl =>
             /\ \A j \in 1..(i - 1) : FillsAt(q[j], path) => May(q[j].with)
             /\ \/ d[path] = None \/ May(d[path])
                \/ \E j \in 1..(i - 1) : FillsAt(q[j], path)

\* The commands that must not touch an edit, and what they look at first.
Guarded(c) == c.do = "skill init" \/ (c.do = "skill update" /\ c.with.force # TRUE)
Looks(op) == op.do \in {"new", "update"}

\* What a command that runs alone has still to do.
Runs(q, c, d, h) ==
    /\ \A i \in DOMAIN q :
        /\ Belongs(q[i], c, h)
        /\ q[i].do = "clear" => i = 1 /\ ~Living(d[q[i].at])
        /\ q[i].do = "new" => i = 1
        /\ q[i].do = "update" => \A j \in 1..(i - 1) : q[j].do = "present"
        /\ q[i].do = "sign" => Signs(q, i, d, h)
    /\ q # <<>> /\ q[1].do = "fill" => d[q[1].at] = Empty
    /\ q # <<>> /\ Guarded(c) => (\E i \in DOMAIN q : Looks(q[i])) \/ ~Held(d, c, h)

AloneInv ==
    alone => Sound(disk, World) /\ \A p \in Procs : Runs(prog[p], cmd[p], disk, World)

-----------------------------------------------------------------------------
(* Programs of a command that runs alone                                    *)

LEMMA PathsApart ==
    /\ \A m, n : (CacheFile(m) = CacheFile(n) => m = n) /\ (SkillMd(m) = SkillMd(n) => m = n)
                 /\ (SkillToml(m) = SkillToml(n) => m = n) /\ (SkillDir(m) = SkillDir(n) => m = n)
    /\ \A m, n : /\ SkillMd(m) # CacheFile(n) /\ SkillToml(m) # CacheFile(n) /\ SkillDir(m) # CacheFile(n)
                 /\ BundledProvider(m) # CacheFile(n) /\ ManifestFile(m) # CacheFile(n)
                 /\ SpecFile(m) # CacheFile(n)
    /\ \A m, n : /\ SkillToml(m) # SkillMd(n) /\ SkillDir(m) # SkillMd(n) /\ BundledProvider(m) # SkillMd(n)
                 /\ ManifestFile(m) # SkillMd(n) /\ SpecFile(m) # SkillMd(n)
                 /\ SkillDir(m) # SkillToml(n) /\ BundledProvider(m) # SkillToml(n)
                 /\ ManifestFile(m) # SkillToml(n) /\ SpecFile(m) # SkillToml(n)
    /\ \A path \in TopFiles : \A n :
         path # CacheFile(n) /\ path # SkillMd(n) /\ path # SkillToml(n) /\ path # SkillDir(n)
    /\ \A n : /\ Credentials # CacheFile(n) /\ Credentials # SkillMd(n) /\ Credentials # SkillToml(n)
              /\ Credentials # ManifestFile(n) /\ Credentials # SpecFile(n)
              /\ Credentials # BundledProvider(n)
  BY DEF CacheFile, SkillMd, SkillToml, SkillDir, BundledProvider, ManifestFile, SpecFile, TopFiles,
         Config, PrivateKey, PublicKey, Credentials

\* A process that has nothing left to do.
LEMMA RunsNone ==
    ASSUME NEW c, NEW d, NEW h
    PROVE  Runs(<<>>, c, d, h)
  BY NoneIs DEF Runs

\* What a call may leave to do before the rest: nothing that is to come first, but a clear.
Fair(q, c, d, h) ==
    /\ IsSeq(q)
    /\ \A i \in DOMAIN q :
        /\ Belongs(q[i], c, h)
        /\ q[i].do \notin {"new", "update"}
        /\ q[i].do = "clear" => i = 1 /\ ~Living(d[q[i].at])
        /\ q[i].do = "sign" => Signs(q, i, d, h)
    /\ q # <<>> => q[1].do # "fill"

\* The program after a call that neither makes a directory nor opens or writes a file.
LEMMA RunsAfter ==
    ASSUME NEW q, Shaped(q), q # <<>>, NEW c, NEW d, NEW h, Runs(q, c, d, h),
           q[1].do \notin {"mkdir", "open", "fill"},
           NEW e, NEW then, Fair(then, c, e, h), q[1].do = "present" => then = <<>>,
           Guarded(c) /\ (Looks(q[1]) \/ ~Held(d, c, h)) => ~Held(e, c, h)
    PROVE  Runs(then \o Tail(q), c, e, h)
<1> DEFINE t == Tail(q)
           r == then \o t
<1>1. IsSeq(q) /\ IsSeq(then)
  BY DEF Shaped, Fair
<1>2. /\ IsSeq(t) /\ Len(q) \in Nat /\ DOMAIN q = 1..Len(q) /\ 1 \in DOMAIN q
      /\ \A i \in DOMAIN t : i \in Nat /\ i >= 1 /\ i + 1 \in DOMAIN q /\ t[i] = q[i + 1]
      /\ \A i \in DOMAIN q : i # 1 => i - 1 \in DOMAIN t /\ t[i - 1] = q[i]
  BY <1>1, RestOf
<1> HIDE DEF t
<1>3. /\ DOMAIN then = 1..Len(then) /\ DOMAIN t = 1..Len(t) /\ Len(then) \in Nat /\ Len(t) \in Nat
      /\ IsSeq(r) /\ DOMAIN r = 1..(Len(then) + Len(t))
      /\ \A i \in DOMAIN then : i \in DOMAIN r /\ r[i] = then[i]
      /\ \A i \in DOMAIN t : Len(then) + i \in DOMAIN r /\ r[Len(then) + i] = t[i]
      /\ \A i \in DOMAIN r : i \notin DOMAIN then => i - Len(then) \in DOMAIN t /\ r[i] = t[i - Len(then)]
  BY <1>1, <1>2, JoinedIs
<1> HIDE DEF r
<1>4. \A i \in DOMAIN q : /\ Belongs(q[i], c, h)
                          /\ q[i].do = "clear" => i = 1
                          /\ q[i].do = "new" => i = 1
                          /\ q[i].do = "update" => \A j \in 1..(i - 1) : q[j].do = "present"
                          /\ q[i].do = "sign" => \A j \in 1..(i - 1) : q[j].do \in {"mkdir", "open", "fill"}
  BY DEF Runs, Signs
\* The rest has none of the operations that come first, an update behind a look aside.
<1>5. ASSUME NEW i \in DOMAIN t
      PROVE  /\ Belongs(t[i], c, h) /\ t[i].do \notin {"clear", "new", "sign"}
             /\ t[i].do = "update" => then = <<>> /\ \A j \in 1..(i - 1) : t[j].do = "present"
  <2>1. i + 1 \in DOMAIN q /\ t[i] = q[i + 1] /\ i + 1 # 1 /\ 1 \in 1..((i + 1) - 1) /\ i \in Nat /\ i >= 1
    BY <1>2
  <2>2. t[i].do \notin {"clear", "new", "sign"} /\ Belongs(t[i], c, h)
    BY <1>4, <2>1
  <2>3. ASSUME t[i].do = "update" PROVE then = <<>> /\ \A j \in 1..(i - 1) : t[j].do = "present"
    <3>1. \A j \in 1..((i + 1) - 1) : q[j].do = "present"
      BY <1>4, <2>1, <2>3
    <3>2. q[1].do = "present"
      BY <2>1, <3>1
    <3>3. ASSUME NEW j \in 1..(i - 1) PROVE t[j].do = "present"
      <4>1. j \in DOMAIN t /\ j + 1 \in 1..((i + 1) - 1)
        BY <1>3, <2>1
      <4> QED
        BY <1>2, <3>1, <4>1
    <3> QED
      BY <3>2, <3>3
  <2> QED
    BY <2>2, <2>3
<1>6. ASSUME NEW i \in DOMAIN r
      PROVE  /\ Belongs(r[i], c, h)
             /\ r[i].do = "clear" => i = 1 /\ ~Living(e[r[i].at])
             /\ r[i].do = "new" => i = 1
             /\ r[i].do = "update" => \A j \in 1..(i - 1) : r[j].do = "present"
             /\ r[i].do = "sign" => Signs(r, i, e, h)
  <2>1. CASE i \in DOMAIN then
    <3>1. r[i] = then[i]
      BY <1>3, <2>1
    <3>2. /\ Belongs(then[i], c, h) /\ then[i].do \notin {"new", "update"}
          /\ then[i].do = "clear" => i = 1 /\ ~Living(e[then[i].at])
          /\ then[i].do = "sign" => Signs(then, i, e, h)
      BY <2>1 DEF Fair
    <3>3. \A j \in 1..(i - 1) : r[j] = then[j]
      BY <1>3, <2>1
    <3>4. Signs(then, i, e, h) => Signs(r, i, e, h)
      BY <3>1, <3>3 DEF Signs
    <3> QED
      BY <3>1, <3>2, <3>4
  <2>2. CASE i \notin DOMAIN then
    <3>1. i - Len(then) \in DOMAIN t /\ r[i] = t[i - Len(then)]
      BY <1>3, <2>2
    <3>2. /\ Belongs(r[i], c, h) /\ r[i].do \notin {"clear", "new", "sign"}
          /\ r[i].do = "update" => then = <<>> /\ \A j \in 1..((i - Len(then)) - 1) : t[j].do = "present"
      BY <1>5, <3>1
    <3>3. ASSUME r[i].do = "update" PROVE \A j \in 1..(i - 1) : r[j].do = "present"
      <4>1. Len(then) = 0
        BY <3>2, <3>3, NoneIs
      <4>2. \A j \in 1..(i - 1) : t[j].do = "present"
        <5>1. i - Len(then) = i
          BY <1>3, <4>1
        <5> QED
          BY <3>2, <3>3, <5>1
      <4>3. ASSUME NEW j \in 1..(i - 1) PROVE r[j] = t[j]
        <5>1. j \in DOMAIN t /\ 0 + j = j
          BY <1>3, <3>1, <4>1
        <5> QED
          BY <1>3, <4>1, <5>1
      <4> QED
        BY <4>2, <4>3
    <3> QED
      BY <3>2, <3>3
  <2> QED
    BY <2>1, <2>2
<1>7. ASSUME r # <<>> PROVE r[1].do # "fill"
  <2>1. 1 \in DOMAIN r
    BY <1>3, <1>7, SeqIs
  <2>2. CASE 1 \in DOMAIN then
    BY <1>3, <2>2, NoneIs DEF Fair
  <2>3. CASE 1 \notin DOMAIN then
    <3>1. Len(then) = 0 /\ 1 \in DOMAIN t /\ r[1] = t[1]
      BY <1>3, <2>1, <2>3
    <3>2. 2 \in DOMAIN q /\ t[1] = q[2]
      BY <1>2, <3>1
    <3>3. q[2].do = "fill" => q[2 - 1].do = "open"
      BY <3>2 DEF Shaped
    <3> QED
      BY <3>1, <3>2, <3>3
  <2> QED
    BY <2>2, <2>3
<1>8. ASSUME r # <<>>, Guarded(c) PROVE (\E i \in DOMAIN r : Looks(r[i])) \/ ~Held(e, c, h)
  <2>1. (\E i \in DOMAIN q : Looks(q[i])) \/ ~Held(d, c, h)
    BY <1>8 DEF Runs
  <2>2. ASSUME NEW i \in DOMAIN q, Looks(q[i]), i # 1 PROVE \E j \in DOMAIN r : Looks(r[j])
    <3>1. i - 1 \in DOMAIN t /\ t[i - 1] = q[i]
      BY <1>2, <2>2
    <3>2. Len(then) + (i - 1) \in DOMAIN r /\ r[Len(then) + (i - 1)] = q[i]
      BY <1>3, <3>1
    <3> QED
      BY <2>2, <3>2
  <2> QED
    BY <1>8, <2>1, <2>2
<1> QED
  BY <1>6, <1>7, <1>8 DEF Runs, r, t

\* The program after a call that makes a directory, or opens or writes a file.
LEMMA RunsMove ==
    ASSUME NEW q, Shaped(q), q # <<>>, NEW c, NEW d, NEW h, Runs(q, c, d, h),
           NEW e, NEW path, q[1].at = path, \A s \in Skills : SkillMd(s) # path => e[SkillMd(s)] = d[SkillMd(s)],
           \/ q[1].do = "mkdir" /\ \A s : path # SkillMd(s)
           \/ q[1].do = "open" /\ e[path] = Empty
           \/ q[1].do = "fill" /\ e[path] = q[1].with,
           Guarded(c) => c.on \in Skills
    PROVE  Runs(Tail(q), c, e, h)
<1> DEFINE t == Tail(q)
<1>1. /\ IsSeq(t) /\ Len(q) \in Nat /\ DOMAIN q = 1..Len(q) /\ 1 \in DOMAIN q
      /\ DOMAIN t = 1..(Len(q) - 1)
      /\ \A i \in DOMAIN t : i \in Nat /\ i >= 1 /\ i + 1 \in DOMAIN q /\ t[i] = q[i + 1]
      /\ \A i \in DOMAIN q : i # 1 => i - 1 \in DOMAIN t /\ t[i - 1] = q[i]
  BY RestOf DEF Shaped
<1> HIDE DEF t
<1>2. \A i \in DOMAIN q : /\ Belongs(q[i], c, h) /\ GoodOp(q[i])
                          /\ q[i].do = "clear" => i = 1
                          /\ q[i].do = "new" => i = 1
                          /\ q[i].do = "update" => \A j \in 1..(i - 1) : q[j].do = "present"
                          /\ q[i].do = "sign" => Signs(q, i, d, h)
  BY DEF Runs, Shaped
<1>4. ASSUME NEW i \in DOMAIN t
      PROVE  /\ Belongs(t[i], c, h) /\ t[i].do \notin {"clear", "new", "update"}
             /\ t[i].do = "sign" => Signs(t, i, e, h)
  <2>1. /\ i + 1 \in DOMAIN q /\ t[i] = q[i + 1] /\ i + 1 # 1 /\ 1 \in 1..((i + 1) - 1)
        /\ i \in Nat /\ i >= 1
    BY <1>1
  <2>2. /\ Belongs(t[i], c, h) /\ t[i].do \notin {"clear", "new", "update"}
        /\ t[i].do = "sign" => Signs(q, i + 1, d, h) /\ GoodOp(q[i + 1])
    BY <1>2, <2>1
  <2>3. ASSUME t[i].do = "sign" PROVE Signs(t, i, e, h)
    <3> DEFINE s == t[i].at
               w == t[i].with
               May(text) == Backed(text, w.url, w.pin, h)
    <3>1. /\ \A j \in 1..i : q[j].do \in {"mkdir", "open", "fill"}
          /\ w.url # NoUrl =>
               /\ \A j \in 1..i : FillsAt(q[j], SkillMd(s)) => May(q[j].with)
               /\ \/ d[SkillMd(s)] = None \/ May(d[SkillMd(s)])
                  \/ \E j \in 1..i : FillsAt(q[j], SkillMd(s))
      <4>1. Signs(q, i + 1, d, h) /\ (i + 1) - 1 = i
        BY <2>1, <2>2, <2>3
      <4> QED
        BY <2>1, <4>1 DEF Signs
    <3>2. s \in Skills
      BY <2>1, <2>2, <2>3 DEF GoodOp, PlainOp
    <3> HIDE DEF s, w, May
    <3>3. \A j \in 1..(i - 1) : j + 1 \in 1..i /\ t[j] = q[j + 1]
      <4>1. \A j \in 1..(i - 1) : j \in DOMAIN t /\ j + 1 \in 1..i
        BY <1>1
      <4> QED
        BY <1>1, <4>1
    <3>4. \A j \in 1..(i - 1) : t[j].do \in {"mkdir", "open", "fill"}
      BY <3>1, <3>3
    <3>5. ASSUME w.url # NoUrl
          PROVE  /\ \A j \in 1..(i - 1) : FillsAt(t[j], SkillMd(s)) => May(t[j].with)
                 /\ \/ e[SkillMd(s)] = None \/ May(e[SkillMd(s)])
                    \/ \E j \in 1..(i - 1) : FillsAt(t[j], SkillMd(s))
      <4>1. /\ \A j \in 1..i : FillsAt(q[j], SkillMd(s)) => May(q[j].with)
            /\ \/ d[SkillMd(s)] = None \/ May(d[SkillMd(s)])
               \/ \E j \in 1..i : FillsAt(q[j], SkillMd(s))
        BY <3>1, <3>5
      <4>2. \A j \in 1..(i - 1) : FillsAt(t[j], SkillMd(s)) => May(t[j].with)
        BY <3>3, <4>1
      <4>3. CASE q[1].do = "fill" /\ path = SkillMd(s)
        <5>1. May(q[1].with)
          <6>1. 1 \in 1..i /\ FillsAt(q[1], SkillMd(s))
            BY <2>1, <4>3 DEF FillsAt
          <6> QED
            BY <4>1, <6>1
        <5> QED
          BY <4>1, <4>2, <4>3, <5>1
      <4>4. CASE q[1].do = "open" /\ path = SkillMd(s)
        <5>1. 2 \in DOMAIN q /\ FillsAt(q[2], SkillMd(s))
          <6>1. 1 + 1 \in DOMAIN q /\ FillsAt(q[1 + 1], q[1].at)
            BY <1>1, <4>4 DEF Shaped
          <6> QED
            BY <4>4, <6>1
        <5>2. 1 \in DOMAIN t /\ t[1] = q[2]
          <6>1. 1 \in DOMAIN t
            BY <1>1, <5>1
          <6>2. t[1] = q[1 + 1]
            BY <1>1, <6>1
          <6> QED
            BY <6>1, <6>2
        <5>3. i # 1
          BY <2>3, <5>1, <5>2 DEF FillsAt
        <5>4. 1 \in 1..(i - 1)
          BY <2>1, <5>3
        <5> QED
          BY <4>1, <4>2, <5>1, <5>2, <5>4
      <4>5. CASE path # SkillMd(s) \/ q[1].do = "mkdir"
        <5>1. path # SkillMd(s) /\ e[SkillMd(s)] = d[SkillMd(s)]
          BY <3>2, <4>5
        <5>2. ASSUME NEW j \in 1..i, FillsAt(q[j], SkillMd(s))
              PROVE  \E k \in 1..(i - 1) : FillsAt(t[k], SkillMd(s))
          <6>1. j # 1
            BY <5>1, <5>2 DEF FillsAt
          <6>2. j - 1 \in 1..(i - 1) /\ (j - 1) + 1 = j
            BY <2>1, <6>1
          <6>3. t[j - 1] = q[j]
            BY <3>3, <6>2
          <6> QED
            BY <5>2, <6>2, <6>3
        <5> QED
          BY <4>1, <4>2, <5>1, <5>2
      <4> QED
        BY <4>3, <4>4, <4>5
    <3> QED
      BY <3>4, <3>5 DEF Signs, s, w, May
  <2> QED
    BY <2>2, <2>3
<1>5. ASSUME t # <<>>, t[1].do = "fill" PROVE e[t[1].at] = Empty
  <2>1. 1 \in DOMAIN t
    BY <1>1, <1>5, SeqIs
  <2>2. 1 + 1 \in DOMAIN q /\ t[1] = q[1 + 1]
    BY <1>1, <2>1
  <2>3. 2 \in DOMAIN q /\ t[1] = q[2]
    BY <2>2
  <2>4. q[2].do = "fill" => q[2 - 1].do = "open"
    BY <2>3 DEF Shaped
  <2>5. q[1].do = "open"
    BY <1>5, <2>3, <2>4
  <2>6. FillsAt(q[1 + 1], q[1].at)
    BY <1>1, <2>5 DEF Shaped
  <2>7. t[1].at = path
    BY <2>3, <2>6 DEF FillsAt
  <2> QED
    BY <2>5, <2>7
<1>6. ASSUME t # <<>>, Guarded(c) PROVE (\E i \in DOMAIN t : Looks(t[i])) \/ ~Held(e, c, h)
  <2>1. (\E i \in DOMAIN q : Looks(q[i])) \/ ~Held(d, c, h)
    BY <1>6 DEF Runs
  <2>2. ASSUME NEW i \in DOMAIN q, Looks(q[i]) PROVE \E j \in DOMAIN t : Looks(t[j])
    <3>1. i # 1
      BY <2>2 DEF Looks
    <3> QED
      BY <1>1, <2>2, <3>1
  <2>3. ASSUME Held(e, c, h) PROVE Held(d, c, h)
    <3>1. c.on \in Skills /\ IsByHand(e, c.on)
      BY <1>6, <2>3 DEF Held
    <3>2. CASE path # SkillMd(c.on)
      BY <2>3, <3>1, <3>2 DEF IsByHand, Held
    <3>3. CASE path = SkillMd(c.on)
      <4>1. Fills(q[1], h)
        BY <1>1, <1>2 DEF Belongs
      <4>2. q[1].do = "fill" => e[SkillMd(c.on)].from # ByHand
        BY <3>1, <3>3, <4>1 DEF Fills
      <4>3. Empty.is # "text"
        BY DEF Empty
      <4> QED
        BY <3>1, <3>3, <4>2, <4>3 DEF IsByHand
    <3> QED
      BY <3>2, <3>3
  <2> QED
    BY <2>1, <2>2, <2>3
<1> QED
  BY <1>4, <1>5, <1>6 DEF Runs, t

\* One more signature leaves all this as it is.
LEMMA RunsGrow ==
    ASSUME NEW q, NEW c, NEW d, NEW g, NEW h, h.at = g.at, g.vouched \subseteq h.vouched, Runs(q, c, d, g)
    PROVE  Runs(q, c, d, h)
<1>1. \A text, url, pin : Backed(text, url, pin, g) => Backed(text, url, pin, h)
  BY DEF Backed
<1>2. \A t : Published(t, g) => Published(t, h)
  BY <1>1 DEF Published
<1>3. \A op : Belongs(op, c, g) => Belongs(op, c, h)
  BY <1>2 DEF Belongs, Fills
<1>4. \A i : Signs(q, i, d, g) => Signs(q, i, d, h)
  BY <1>1 DEF Signs
<1>5. ~Held(d, c, g) => ~Held(d, c, h)
  BY DEF Held
<1> QED
  BY <1>3, <1>4, <1>5 DEF Runs

\* A failure ends the program of every command but install-skills, which goes on with the next.
LEMMA RunsCut ==
    ASSUME NEW q, Shaped(q), q # <<>>, NEW c, NEW d, NEW h, Runs(q, c, d, h)
    PROVE  Runs(AfterFailure(Tail(q)), c, d, h)
<1> DEFINE t == Tail(q)
<1>1. /\ IsSeq(t) /\ Len(q) \in Nat /\ DOMAIN q = 1..Len(q) /\ 1 \in DOMAIN q
      /\ DOMAIN t = 1..(Len(q) - 1) /\ Len(t) = Len(q) - 1
      /\ \A i \in DOMAIN t : i \in Nat /\ i >= 1 /\ i + 1 \in DOMAIN q /\ t[i] = q[i + 1]
  BY RestOf DEF Shaped
<1>2. CASE \A i \in DOMAIN t : t[i].do # "end"
  <2>1. AfterFailure(t) = <<>>
    BY <1>2 DEF AfterFailure
  <2> QED
    BY <2>1, RunsNone
<1>3. CASE \E i \in DOMAIN t : t[i].do = "end"
  <2> DEFINE Ended(i) == i \in DOMAIN t /\ t[i].do = "end" /\ \A j \in 1..(i - 1) : t[j].do # "end"
             first == CHOOSE i \in DOMAIN t : t[i].do = "end" /\ \A j \in 1..(i - 1) : t[j].do # "end"
             z == SubSeq(t, first + 1, Len(t))
  <2>1. AfterFailure(t) = z
    BY <1>3 DEF AfterFailure
  <2>2. first \in DOMAIN t /\ t[first].do = "end"
    <3> DEFINE T == {i \in DOMAIN t : t[i].do = "end"}
    <3>1. T \in SUBSET Nat /\ T # {}
      BY <1>1, <1>3
    <3>2. PICK m \in T : \A n \in T : m <= n
      BY <3>1, LeastOf
    <3>3. m \in DOMAIN t /\ t[m].do = "end" /\ \A j \in 1..(m - 1) : t[j].do # "end"
      <4>1. ASSUME NEW j \in 1..(m - 1), t[j].do = "end" PROVE FALSE
        <5>1. j \in DOMAIN t /\ ~(m <= j)
          BY <1>1
        <5> QED
          BY <3>2, <4>1, <5>1
      <4> QED
        BY <4>1
    <3> QED
      BY <3>3
  <2>3. /\ IsSeq(z) /\ Len(z) = Len(t) - first
        /\ \A i \in 1..(Len(t) - first) : z[i] = t[i + first]
    BY <1>1, <2>2, SuffixIs
  <2> HIDE DEF first, z
  <2>4. DOMAIN z = 1..(Len(t) - first) /\ (z # <<>> => 1 \in DOMAIN z)
    <3>1. DOMAIN z = 1..Len(z) /\ Len(z) \in Nat /\ (z = <<>> <=> Len(z) = 0)
      BY <2>3, SeqIs
    <3> QED
      BY <2>3, <3>1
  <2>5. c.do = "install-skills"
    <3>1. first + 1 \in DOMAIN q /\ q[first + 1].do = "end"
      BY <1>1, <2>2
    <3> QED
      BY <3>1 DEF Runs, Belongs, Carries
  <2>6. ASSUME NEW i \in DOMAIN z
        PROVE  Belongs(z[i], c, h) /\ z[i].do \notin {"clear", "new", "update", "sign"}
    <3>1. i + first \in DOMAIN t /\ i \in Nat /\ i >= 1
      BY <1>1, <2>2, <2>4
    <3>2. /\ (i + first) + 1 \in DOMAIN q /\ z[i] = q[(i + first) + 1]
          /\ (i + first) + 1 # 1
      BY <1>1, <2>3, <2>4, <3>1
    <3>3. Belongs(z[i], c, h) /\ z[i].do # "clear"
      BY <3>2 DEF Runs
    <3> QED
      BY <2>5, <3>3 DEF Belongs, Carries
  <2>7. ASSUME z # <<>> PROVE z[1].do # "fill"
    <3>1. 1 \in DOMAIN z /\ z[1] = t[1 + first]
      BY <2>3, <2>4, <2>7
    <3>2. 1 + first \in DOMAIN t /\ first \in Nat /\ first >= 1
      BY <1>1, <2>2, <2>4, <3>1
    <3>3. /\ (1 + first) + 1 \in DOMAIN q /\ t[1 + first] = q[(1 + first) + 1]
          /\ first + 1 \in DOMAIN q /\ t[first] = q[first + 1]
      BY <1>1, <2>2, <3>2
    <3>4. q[(1 + first) + 1].do = "fill" => q[((1 + first) + 1) - 1].do = "open"
      <4>1. (1 + first) + 1 > 1
        BY <3>2
      <4> QED
        BY <3>3, <4>1 DEF Shaped
    <3>5. ((1 + first) + 1) - 1 = first + 1
      BY <3>2
    <3>6. q[first + 1].do = "end"
      BY <2>2, <3>3
    <3> QED
      BY <3>1, <3>3, <3>4, <3>5, <3>6
  <2>8. ~Guarded(c)
    BY <2>5 DEF Guarded
  <2> QED
    BY <2>1, <2>6, <2>7, <2>8 DEF Runs
<1> QED
  BY <1>2, <1>3 DEF t

-----------------------------------------------------------------------------
(* What the calls leave to do                                               *)

\* An operation that may stand anywhere in the program of a command that runs alone.
Simple(op, c, h) == Belongs(op, c, h) /\ op.do \notin {"new", "update", "clear", "sign"}
Easy(q, c, h) ==
    /\ IsSeq(q) /\ \A i \in DOMAIN q : Simple(q[i], c, h)
    /\ q # <<>> => q[1].do # "fill"

LEMMA EasyFair ==
    ASSUME NEW q, NEW c, NEW d, NEW h, Easy(q, c, h)
    PROVE  Fair(q, c, d, h)
  BY DEF Easy, Fair, Simple

LEMMA EasyNone ==
    ASSUME NEW c, NEW h
    PROVE  Easy(<<>>, c, h)
  BY NoneIs DEF Easy

LEMMA EasyOne ==
    ASSUME NEW op, NEW c, NEW h, Simple(op, c, h), op.do # "fill"
    PROVE  Easy(<<op>>, c, h)
<1>1. \A i \in DOMAIN <<op>> : <<op>>[i] = op
  BY OneIs
<1> QED
  BY <1>1, OneIs DEF Easy

LEMMA TwoIs ==
    ASSUME NEW a, NEW b
    PROVE  /\ IsSeq(<<a, b>>) /\ DOMAIN <<a, b>> = {1, 2} /\ <<a, b>>[1] = a /\ <<a, b>>[2] = b
           /\ <<a, b>> # <<>>
<1>1. /\ <<a, b>> \in Seq({a, b}) /\ DOMAIN <<a, b>> = {1, 2} /\ <<a, b>>[1] = a
      /\ <<a, b>>[2] = b /\ <<a, b>> # <<>>
  OBVIOUS
<1> QED
  BY <1>1, IsSeqIntro

LEMMA EasyTwo ==
    ASSUME NEW a, NEW b, NEW c, NEW h, Simple(a, c, h), Simple(b, c, h), a.do # "fill"
    PROVE  Easy(<<a, b>>, c, h)
  BY TwoIs DEF Easy

LEMMA EasyIn ==
    ASSUME NEW T, NEW q \in Seq(T), NEW c, NEW h, \A op \in T : Simple(op, c, h),
           q # <<>> => q[1].do # "fill"
    PROVE  Easy(q, c, h)
<1>1. IsSeq(q) /\ \A i \in DOMAIN q : q[i] \in T
  BY IsSeqIntro
<1> QED
  BY <1>1 DEF Easy

LEMMA EasyConcat ==
    ASSUME NEW a, NEW b, NEW c, NEW h, Easy(a, c, h), Easy(b, c, h)
    PROVE  Easy(a \o b, c, h)
<1> DEFINE q == a \o b
<1>1. /\ IsSeq(a) /\ IsSeq(b)
      /\ \A i \in DOMAIN a : Simple(a[i], c, h)
      /\ \A i \in DOMAIN b : Simple(b[i], c, h)
  BY DEF Easy
<1>2. /\ DOMAIN a = 1..Len(a) /\ DOMAIN b = 1..Len(b) /\ Len(a) \in Nat /\ Len(b) \in Nat
      /\ IsSeq(q) /\ DOMAIN q = 1..(Len(a) + Len(b))
      /\ \A i \in DOMAIN a : i \in DOMAIN q /\ q[i] = a[i]
      /\ \A i \in DOMAIN q : i \notin DOMAIN a => i - Len(a) \in DOMAIN b /\ q[i] = b[i - Len(a)]
  BY <1>1, JoinedIs
<1> HIDE DEF q
<1>3. \A i \in DOMAIN q : Simple(q[i], c, h)
  BY <1>1, <1>2
<1>4. ASSUME q # <<>> PROVE q[1].do # "fill"
  <2>1. 1 \in DOMAIN q
    BY <1>2, <1>4, SeqIs
  <2>2. CASE 1 \in DOMAIN a
    BY <1>2, <2>2, NoneIs DEF Easy
  <2>3. CASE 1 \notin DOMAIN a
    <3>1. 1 - Len(a) \in DOMAIN b /\ q[1] = b[1 - Len(a)]
      BY <1>2, <2>1, <2>3
    <3>2. Len(a) = 0
      BY <1>2, <2>3
    <3>3. 1 - Len(a) = 1
      BY <3>2
    <3> QED
      BY <3>1, <3>3, NoneIs DEF Easy
  <2> QED
    BY <2>2, <2>3
<1> QED
  BY <1>2, <1>3, <1>4 DEF Easy, q

\* A whole write.
LEMMA EasyWrite ==
    ASSUME NEW path, NEW w, NEW c, NEW h,
           Removes(Op("open", path, NoData), c), Fills(Op("fill", path, w), h)
    PROVE  Easy(Write(path, w), c, h)
<1> DEFINE a == Op("open", path, NoData)
           b == Op("fill", path, w)
<1>1. a.do = "open" /\ b.do = "fill"
  BY DEF Op
<1>2. Write(path, w) = <<a, b>>
  BY DEF Write
<1>3. Removes(a, c) /\ Fills(b, h)
  OBVIOUS
<1> HIDE DEF a, b
<1>4. Simple(a, c, h) /\ Simple(b, c, h)
  BY <1>1, <1>3 DEF Simple, Belongs, Removes, Fills, Carries
<1> QED
  BY <1>1, <1>2, <1>4, EasyTwo

\* Files that are neither of the cache nor a skill's text or record.
LEMMA EasyElsewhere ==
    ASSUME NEW path, NEW w, NEW c, NEW h,
           \/ path \in TopFiles \ {Credentials}
           \/ \E n : path \in {ManifestFile(n), SpecFile(n), BundledProvider(n)}
    PROVE  Easy(Write(path, w), c, h)
<1>1. /\ \A n : path # CacheFile(n) /\ path # SkillMd(n) /\ path # SkillToml(n)
      /\ path # Credentials
  <2>1. CASE path \in TopFiles \ {Credentials}
    BY <2>1, PathsApart
  <2>2. CASE \E n : path \in {ManifestFile(n), SpecFile(n), BundledProvider(n)}
    <3>1. PICK n : path \in {ManifestFile(n), SpecFile(n), BundledProvider(n)}
      BY <2>2
    <3> QED
      BY <3>1, PathsApart
  <2> QED
    BY <2>1, <2>2
<1>2. Removes(Op("open", path, NoData), c) /\ Fills(Op("fill", path, w), h)
  BY <1>1 DEF Op, Removes, Fills
<1> QED
  BY <1>2, EasyWrite

LEMMA EasyCredentials ==
    ASSUME NEW w, NEW c, NEW h, Rekeys(c)
    PROVE  Easy(Write(Credentials, w), c, h)
<1>1. Removes(Op("open", Credentials, NoData), c) /\ Fills(Op("fill", Credentials, w), h)
  BY PathsApart DEF Op, Removes, Fills
<1> QED
  BY <1>1, EasyWrite

\* The operations that neither change a skill nor carry anything.
LEMMA SimpleOps ==
    ASSUME NEW op, NEW c, NEW h,
           op.do \in {"mkdir", "visit", "fail", "bundle", "generate", "fetch", "present"}
    PROVE  Simple(op, c, h)
  BY DEF Simple, Belongs, Removes, Fills, Carries
LEMMA SimpleHomeOps ==
    ASSUME NEW op, NEW c, NEW h,
           op.do = "default" \/ ((op.do = "set key" \/ op.do = "remove key") /\ Rekeys(c))
    PROVE  Simple(op, c, h) /\ op.do # "fill"
  BY DEF Simple, Belongs, Removes, Fills, Carries
LEMMA EntryIs == \A n : CachedProvider(n, Ttl).left \in Int
  BY ProviderFilesAssumption DEF CachedProvider, ProviderFilesAssumption

\* A look at each entry of the cache.
LEMMA VisitsEasy ==
    ASSUME NEW c, NEW h
    PROVE  Easy(Visits, c, h)
<1>1. IsSeq(Visits) /\ (Visits # <<>> => Visits[1].do # "fill")
  BY VisitsPiece DEF Piece, Shaped
<1>2. ASSUME NEW i \in DOMAIN Visits PROVE Simple(Visits[i], c, h)
  <2>1. Visits[i] = Op("visit", CacheFile(Order[i]), NoData)
    BY DEF Visits
  <2>2. Visits[i].do = "visit"
    BY <2>1 DEF Op
  <2> QED
    BY <2>2, SimpleOps
<1> QED
  BY <1>1, <1>2 DEF Easy

\* A signature after the copies that it signs.
LEMMA FairSigned ==
    ASSUME NEW a, NEW c, NEW d, NEW h, NEW s, NEW url, NEW pin, Easy(a, c, h), a # <<>>,
           c.do # "install-skills",
           \A i \in DOMAIN a : a[i].do \in {"mkdir", "open", "fill"},
           url # NoUrl =>
             /\ \A i \in DOMAIN a : FillsAt(a[i], SkillMd(s)) => Backed(a[i].with, url, pin, h)
             /\ \/ d[SkillMd(s)] = None \/ Backed(d[SkillMd(s)], url, pin, h)
                \/ \E i \in DOMAIN a : FillsAt(a[i], SkillMd(s))
    PROVE  Fair(a \o Finish(s, url, pin), c, d, h)
<1> DEFINE x == Op("sign", s, [url |-> url, pin |-> pin])
           y == Op("generate", s, NoData)
           b == <<x, y>>
           q == a \o b
<1>1. Finish(s, url, pin) = b
  BY DEF Finish
<1>2. x.do = "sign" /\ x.at = s /\ x.with.url = url /\ x.with.pin = pin /\ y.do = "generate"
  BY DEF Op
<1> HIDE DEF x, y
<1>3. /\ b \in Seq({x, y}) /\ DOMAIN b = {1, 2} /\ b[1] = x /\ b[2] = y
  OBVIOUS
<1>4. IsSeq(a) /\ IsSeq(b) /\ \A i \in DOMAIN a : Simple(a[i], c, h)
  BY <1>3, IsSeqIntro DEF Easy
<1> HIDE DEF b
<1>5. /\ DOMAIN a = 1..Len(a) /\ Len(a) \in Nat
      /\ IsSeq(q) /\ DOMAIN q = 1..(Len(a) + Len(b))
      /\ \A i \in DOMAIN a : i \in DOMAIN q /\ q[i] = a[i]
      /\ \A i \in DOMAIN q : i \notin DOMAIN a => i - Len(a) \in DOMAIN b /\ q[i] = b[i - Len(a)]
  <2>1. /\ DOMAIN a = 1..Len(a) /\ DOMAIN b = 1..Len(b) /\ Len(a) \in Nat /\ Len(b) \in Nat
        /\ IsSeq(q) /\ DOMAIN q = 1..(Len(a) + Len(b))
        /\ \A i \in DOMAIN a : i \in DOMAIN q /\ q[i] = a[i]
        /\ \A i \in DOMAIN b : Len(a) + i \in DOMAIN q /\ q[Len(a) + i] = b[i]
        /\ \A i \in DOMAIN q : i \notin DOMAIN a => i - Len(a) \in DOMAIN b /\ q[i] = b[i - Len(a)]
    BY <1>4, JoinedIs
  <2> QED
    BY <2>1
<1> HIDE DEF q
<1>6. Belongs(x, c, h)
  BY <1>2 DEF Belongs, Removes, Fills, Carries
<1>7. Simple(y, c, h)
  BY <1>2, SimpleOps
<1>8. ASSUME NEW i \in DOMAIN q
      PROVE  /\ Belongs(q[i], c, h)
             /\ q[i].do \notin {"new", "update"}
             /\ q[i].do = "clear" => i = 1 /\ ~Living(d[q[i].at])
             /\ q[i].do = "sign" => Signs(q, i, d, h)
  <2>1. CASE i \in DOMAIN a
    BY <1>4, <1>5, <2>1 DEF Simple
  <2>2. CASE i \notin DOMAIN a
    <3>1. i - Len(a) \in {1, 2} /\ q[i] = b[i - Len(a)]
      BY <1>3, <1>5, <2>2
    <3>2. CASE i - Len(a) = 1
      <4>1. q[i] = x
        BY <1>3, <3>1, <3>2
      <4>2. i - 1 = Len(a)
        BY <1>5, <3>2
      <4>3. \A j \in 1..(i - 1) : j \in DOMAIN a /\ q[j] = a[j]
        BY <1>5, <4>2
      <4>4. \A j \in DOMAIN a : j \in 1..(i - 1) /\ q[j] = a[j]
        BY <1>5, <4>2
      <4>5. \A j \in 1..(i - 1) : q[j].do \in {"mkdir", "open", "fill"}
        BY <4>3
      <4>6. url # NoUrl =>
              /\ \A j \in 1..(i - 1) : FillsAt(q[j], SkillMd(s)) => Backed(q[j].with, url, pin, h)
              /\ \/ d[SkillMd(s)] = None \/ Backed(d[SkillMd(s)], url, pin, h)
                 \/ \E j \in 1..(i - 1) : FillsAt(q[j], SkillMd(s))
        <5>1. ASSUME url # NoUrl
              PROVE  \A j \in 1..(i - 1) : FillsAt(q[j], SkillMd(s)) => Backed(q[j].with, url, pin, h)
          BY <4>3, <5>1
        <5>2. ASSUME url # NoUrl, NEW k \in DOMAIN a, FillsAt(a[k], SkillMd(s))
              PROVE  \E j \in 1..(i - 1) : FillsAt(q[j], SkillMd(s))
          BY <4>4, <5>2
        <5> QED
          BY <5>1, <5>2
      <4>7. Signs(q, i, d, h)
        BY <1>2, <4>1, <4>5, <4>6 DEF Signs
      <4> QED
        BY <1>2, <1>6, <4>1, <4>7
    <3>3. CASE i - Len(a) = 2
      <4>1. q[i] = y
        BY <1>3, <3>1, <3>3
      <4> QED
        BY <1>7, <4>1 DEF Simple
    <3> QED
      BY <3>1, <3>2, <3>3
  <2> QED
    BY <2>1, <2>2
<1>9. q[1].do # "fill"
  <2>1. 1 \in DOMAIN a
    BY <1>4, <1>5, SeqIs
  <2> QED
    BY <1>5, <2>1 DEF Easy
<1>10. Fair(q, c, d, h)
  BY <1>5, <1>8, <1>9 DEF Fair
<1> QED
  BY <1>1, <1>10 DEF q

\* The copies of what a version ships.
CopyStart(files, s) == {Op("mkdir", SkillDir(s), NoData)} \cup CopyOps(files, s)

LEMMA CopyDirHolds ==
    ASSUME NEW files, ShipmentOK(files), NEW s \in Skills, NEW order \in Orders(DOMAIN files)
    PROVE  /\ CopyDir(files, s, order) \in Seq(CopyStart(files, s))
           /\ CopyDir(files, s, order) # <<>> /\ CopyDir(files, s, order)[1].do # "fill"
           /\ \A f \in DOMAIN files :
                \E i \in DOMAIN CopyDir(files, s, order) : FillsAt(CopyDir(files, s, order)[i], <<f, s>>)
<1> DEFINE n == Len(order)
           m == Op("mkdir", SkillDir(s), NoData)
           start == <<m>>
           T == CopyStart(files, s)
           h == CopyFiles(files, s, order)
           q == CopyDir(files, s, order)
<1>1. n \in Nat /\ \A i \in 1..n : order[i] \in DOMAIN files
  BY OrdersAre
<1>2. PICK F : Joins(F, h, n) /\ q = start \o F[n]
  BY CopyDirIs
<1>3. h \in [1..n -> Seq(CopyOps(files, s))]
  BY CopyDirIs
<1>4. \A i \in 1..n : h[i] = CopyFile(files, s, order[i])
  BY DEF CopyFiles
<1> HIDE DEF n, h, q
<1>5. F[n] \in Seq(CopyOps(files, s)) /\ \A i \in 1..n : Holds(h[i]) \subseteq Holds(F[n])
  BY <1>1, <1>2, <1>3, JoinIn
<1>6. F[n] \in Seq(T) /\ start \in Seq(T)
  <2>1. CopyOps(files, s) \subseteq T /\ m \in T
    BY DEF CopyStart
  <2> HIDE DEF T, m
  <2> QED
    BY <1>5, <2>1, SeqMonotonic
<1>7. LET both == start \o F[n]
      IN  both \in Seq(T) /\ Holds(start) \subseteq Holds(both) /\ Holds(F[n]) \subseteq Holds(both)
  <2> HIDE DEF T, start
  <2> QED
    BY <1>6, JoinedHas
<1>8. q \in Seq(T) /\ Holds(start) \subseteq Holds(q) /\ Holds(F[n]) \subseteq Holds(q)
  BY <1>2, <1>7
<1>9. q # <<>> /\ q[1] = m
  <2>1. IsSeq(start) /\ IsSeq(F[n]) /\ DOMAIN start = {1} /\ start[1] = m
    <3> HIDE DEF m
    <3> QED
      BY <1>6, OneIs, IsSeqIntro
  <2> HIDE DEF start
  <2>2. 1 \in DOMAIN (start \o F[n]) /\ (start \o F[n])[1] = start[1]
    BY <2>1, JoinedIs
  <2>3. 1 \in DOMAIN q /\ q[1] = m
    BY <1>2, <2>1, <2>2
  <2> QED
    BY <2>3, NoneIs
<1>10. m.do = "mkdir"
  BY DEF Op
<1>11. ASSUME NEW f \in DOMAIN files PROVE \E i \in DOMAIN q : FillsAt(q[i], <<f, s>>)
  <2>1. PICK i \in 1..n : order[i] = f
    <3>1. {order[i] : i \in DOMAIN order} = DOMAIN files /\ DOMAIN order = 1..n
      <4>1. {order[i] : i \in DOMAIN order} = DOMAIN files /\ order \in [1..Cardinality(DOMAIN files) -> DOMAIN files]
        BY DEF Orders
      <4>2. DOMAIN order = 1..n
        <5>1. IsSeq(order)
          BY OrdersAre, IsSeqIntro
        <5> QED
          BY <5>1, SeqIs DEF n
      <4> QED
        BY <4>1, <4>2
    <3> QED
      BY <3>1
  <2>2. h[i] = CopyFile(files, s, f) /\ Len(h[i]) = 2 /\ h[i][2] = Op("fill", <<f, s>>, files[f])
        /\ IsSeq(h[i])
    BY <1>4, <2>1, CopyFileIs, IsSeqIntro
  <2>3. 2 \in DOMAIN h[i]
    BY <2>2, SeqIs
  <2>4. Op("fill", <<f, s>>, files[f]) \in Holds(h[i])
    BY <2>2, <2>3 DEF Holds
  <2>5. Op("fill", <<f, s>>, files[f]) \in Holds(q)
    BY <1>5, <1>8, <2>1, <2>4
  <2>6. PICK j \in DOMAIN q : q[j] = Op("fill", <<f, s>>, files[f])
    BY <2>5 DEF Holds
  <2>7. FillsAt(Op("fill", <<f, s>>, files[f]), <<f, s>>)
    BY DEF FillsAt, Op
  <2> QED
    BY <2>6, <2>7
<1> QED
  BY <1>8, <1>9, <1>10, <1>11 DEF q

\* What a copy of the files does, in the program of a command that changes the skill.
LEMMA CopySimple ==
    ASSUME NEW url \in Urls, NEW c, NEW h, NEW v \in 1..MaxVersion[url], v \in 1..h.at[url],
           NEW s \in Skills, Changes(c, s), NEW op \in CopyStart(Ships(url, v), s)
    PROVE  /\ Simple(op, c, h) /\ op.do \in {"mkdir", "open", "fill"}
           /\ FillsAt(op, SkillMd(s)) => Shipped(url, v, "md", op.with)
           /\ op.do = "open" /\ op.at = SkillMd(s) => "md" \in DOMAIN Ships(url, v)
<1> DEFINE files == Ships(url, v)
<1>1. ShipmentOK(files)
  BY AtiHomeAssumption DEF AtiHomeAssumption
<1>2. DOMAIN files \subseteq {"md", "toml", "bundle"}
  BY <1>1 DEF ShipmentOK
<1>3. \A f \in DOMAIN files : Shipped(url, v, f, files[f])
  BY DEF Shipped
<1> HIDE DEF files
<1>4. CASE op = Op("mkdir", SkillDir(s), NoData)
  <2>1. op.do = "mkdir"
    BY <1>4 DEF Op
  <2> QED
    BY <2>1, SimpleOps DEF FillsAt
<1>5. ASSUME NEW f \in DOMAIN files
      PROVE  /\ \A n : <<f, s>> # CacheFile(n)
             /\ \A n : <<f, s>> = SkillMd(n) => f = "md" /\ n = s
             /\ \A n : <<f, s>> = SkillToml(n) => f = "toml" /\ n = s
             /\ <<f, s>> # Credentials
  BY <1>2, <1>5 DEF CacheFile, SkillMd, SkillToml, Credentials
<1>6. CASE \E f \in DOMAIN files : op = Op("open", <<f, s>>, NoData)
  <2>1. PICK f \in DOMAIN files : op = Op("open", <<f, s>>, NoData)
    BY <1>6
  <2>2. op.do = "open" /\ op.at = <<f, s>>
    BY <2>1 DEF Op
  <2>3. Removes(op, c)
    BY <1>5, <2>2 DEF Removes
  <2>4. op.at = SkillMd(s) => "md" \in DOMAIN files
    BY <1>5, <2>2
  <2> QED
    BY <2>2, <2>3, <2>4 DEF Simple, Belongs, Fills, Carries, FillsAt, files
<1>7. CASE \E f \in DOMAIN files : op = Op("fill", <<f, s>>, files[f])
  <2>1. PICK f \in DOMAIN files : op = Op("fill", <<f, s>>, files[f])
    BY <1>7
  <2>2. op.do = "fill" /\ op.at = <<f, s>> /\ op.with = files[f]
    BY <2>1 DEF Op
  <2>3. Fills(op, h)
    <3>1. ASSUME NEW t \in Skills, op.at = SkillToml(t) PROVE Published(op.with, h)
      <4>1. f = "toml"
        BY <1>5, <2>2, <3>1
      <4>2. Shipped(url, v, "toml", op.with)
        BY <1>3, <2>2, <4>1
      <4>3. TomlIsShipped(op.with, h.at)
        BY <4>2 DEF TomlIsShipped
      <4> QED
        BY <4>3 DEF Published
    <3>2. ASSUME NEW t \in Skills, op.at = SkillMd(t) PROVE op.with.from # ByHand /\ op.with.is # "cached"
      <4>1. f = "md"
        BY <1>5, <2>2, <3>2
      <4> QED
        BY <1>1, <2>2, <4>1 DEF ShipmentOK
    <3>3. \A n : op.at # CacheFile(n)
      BY <1>5, <2>2
    <3> QED
      BY <3>1, <3>2, <3>3 DEF Fills
  <2>4. FillsAt(op, SkillMd(s)) => Shipped(url, v, "md", op.with)
    BY <1>3, <1>5, <2>2 DEF FillsAt
  <2> QED
    BY <2>2, <2>3, <2>4 DEF Simple, Belongs, Removes, Carries
<1> QED
  BY <1>4, <1>6, <1>7 DEF CopyStart, CopyOps, files

\* What a clone and a copy leave to do: what they sign is of the source, or they vouch for it.
CopiesFrom(op, c, h, v) ==
    /\ op.do \in {"copy", "clone"} /\ GoodOp(op) /\ Belongs(op, c, h)
    /\ v \in 1..MaxVersion[op.with.url] /\ v \in 1..h.at[op.with.url]
    /\ op.do = "clone" /\ op.with.pin # NoPin => op.with.pin = v
LEMMA CopyFair ==
    ASSUME NEW op, NEW c, NEW d, NEW h, NEW v, CopiesFrom(op, c, h, v),
           NEW o \in Orders(DOMAIN Ships(op.with.url, v)),
           Adopted(op, d, CopyDir(Ships(op.with.url, v), op.at, o) \o op.with.tail) \subseteq h.vouched
    PROVE  Fair(CopyDir(Ships(op.with.url, v), op.at, o) \o op.with.tail, c, d, h)
<1> DEFINE s == op.at
           url == op.with.url
           files == Ships(url, v)
           T == CopyStart(files, s)
           a == CopyDir(files, s, o)
<1> USE DEF CopiesFrom
<1>1. s \in Skills /\ url \in Urls
  BY DEF GoodOp
<1>2. ShipmentOK(files)
  BY <1>1, AtiHomeAssumption DEF AtiHomeAssumption
<1>3. Changes(c, s) /\ Ends(op, c)
  BY DEF Belongs, Removes, Carries
<1>4. \A x \in T : /\ Simple(x, c, h) /\ x.do \in {"mkdir", "open", "fill"}
                   /\ FillsAt(x, SkillMd(s)) => Shipped(url, v, "md", x.with)
                   /\ x.do = "open" /\ x.at = SkillMd(s) => "md" \in DOMAIN files
  BY <1>1, <1>3, CopySimple
<1>5. /\ a \in Seq(T) /\ a # <<>> /\ a[1].do # "fill"
      /\ "md" \in DOMAIN files => \E i \in DOMAIN a : FillsAt(a[i], SkillMd(s))
  <2>1. /\ a \in Seq(T) /\ a # <<>> /\ a[1].do # "fill"
        /\ \A f \in DOMAIN files : \E i \in DOMAIN a : FillsAt(a[i], <<f, s>>)
    <3> HIDE DEF files
    <3> QED
      BY <1>1, <1>2, CopyDirHolds DEF files
  <2> QED
    BY <2>1 DEF SkillMd
<1> HIDE DEF T, a
<1>6. Easy(a, c, h)
  BY <1>4, <1>5, EasyIn
<1>7. \A i \in DOMAIN a : a[i] \in T
  BY <1>5
<1>8. \A i \in DOMAIN a : /\ a[i].do \in {"mkdir", "open", "fill"}
                          /\ FillsAt(a[i], SkillMd(s)) => Shipped(url, v, "md", a[i].with)
                          /\ a[i].do = "open" /\ a[i].at = SkillMd(s) => "md" \in DOMAIN files
  BY <1>4, <1>7
<1>9. CASE op.with.tail = <<Op("bundle", s, NoData)>>
  <2> DEFINE b == Op("bundle", s, NoData)
  <2>1. b.do = "bundle"
    BY DEF Op
  <2> HIDE DEF b
  <2>2. Easy(<<b>>, c, h)
    BY <2>1, SimpleOps, EasyOne
  <2>3. Fair(a \o <<b>>, c, d, h)
    BY <1>6, <2>2, EasyConcat, EasyFair
  <2> QED
    BY <1>9, <2>3 DEF a, b
<1>10. CASE c.do # "install-skills" /\ op.with.tail = Finish(s, NoUrl, NoPin)
  <2>1. Fair(a \o Finish(s, NoUrl, NoPin), c, d, h)
    BY <1>5, <1>6, <1>8, <1>10, FairSigned
  <2> QED
    BY <1>10, <2>1 DEF a
<1>11. CASE c.do # "install-skills" /\ op.do = "clone" /\ op.with.tail = Finish(s, url, op.with.pin)
  <2> DEFINE pin == op.with.pin
  <2>1. pin # NoPin => v = pin
    BY <1>11
  <2>2. Adopted(op, d, a \o op.with.tail) \subseteq h.vouched
    BY DEF a
  <2> HIDE DEF pin, s, url, files
  <2>3. \A i \in DOMAIN a : FillsAt(a[i], SkillMd(s)) => Backed(a[i].with, url, pin, h)
    <3>1. v \in 1..h.at[url]
      BY DEF url
    <3> QED
      BY <1>8, <2>1, <3>1 DEF Backed, TextIsOf
  <2>4. ASSUME "md" \notin DOMAIN files
        PROVE  d[SkillMd(s)] = None \/ Backed(d[SkillMd(s)], url, pin, h)
    <3> DEFINE x == Op("sign", s, [url |-> url, pin |-> pin])
               y == Op("generate", s, NoData)
               b == <<x, y>>
               q == a \o b
    <3>1. op.with.tail = b
      BY <1>11 DEF Finish, pin
    <3>2. x.do = "sign" /\ x.with.url = url /\ x.with.pin = pin /\ y.do = "generate"
      BY DEF Op
    <3> HIDE DEF x, y
    <3>3. b \in Seq({x, y}) /\ b[1] = x /\ IsSeq(b) /\ \A i \in DOMAIN b : b[i] \in {x, y}
      <4>1. b \in Seq({x, y}) /\ b[1] = x /\ DOMAIN b = {1, 2} /\ b[2] = y
        OBVIOUS
      <4> HIDE DEF b
      <4>2. IsSeq(b)
        BY <4>1, IsSeqIntro
      <4> QED
        BY <4>1, <4>2
    <3> HIDE DEF b
    <3>4. /\ \A i \in DOMAIN a : q[i] = a[i]
          /\ \A i \in DOMAIN q : i \notin DOMAIN a => i - Len(a) \in DOMAIN b /\ q[i] = b[i - Len(a)]
      <4>1. IsSeq(a) /\ IsSeq(b)
        BY <1>6, <3>3 DEF Easy
      <4>2. /\ DOMAIN a = 1..Len(a) /\ DOMAIN b = 1..Len(b) /\ Len(a) \in Nat /\ Len(b) \in Nat
            /\ IsSeq(q) /\ DOMAIN q = 1..(Len(a) + Len(b))
            /\ \A i \in DOMAIN a : i \in DOMAIN q /\ q[i] = a[i]
            /\ \A i \in DOMAIN b : Len(a) + i \in DOMAIN q /\ q[Len(a) + i] = b[i]
            /\ \A i \in DOMAIN q : i \notin DOMAIN a => i - Len(a) \in DOMAIN b /\ q[i] = b[i - Len(a)]
        BY <4>1, JoinedIs
      <4> QED
        BY <4>2
    <3> HIDE DEF q
    <3>5. \A i \in DOMAIN q : q[i].do = "open" => q[i].at # SkillMd(s)
      <4>1. ASSUME NEW i \in DOMAIN q, i \in DOMAIN a PROVE q[i].do = "open" => q[i].at # SkillMd(s)
        BY <1>8, <2>4, <3>4, <4>1
      <4>2. ASSUME NEW i \in DOMAIN q, i \notin DOMAIN a PROVE q[i].do # "open"
        BY <3>2, <3>3, <3>4, <4>2
      <4> QED
        BY <4>1, <4>2
    <3>6. ASSUME d[SkillMd(s)] # None PROVE Signature(d[SkillMd(s)], url, pin) \in h.vouched
      <4>1. Adopted(op, d, q) \subseteq h.vouched
        BY <2>2, <3>1 DEF q
      <4>2. op.with.tail[1] = x
        BY <3>1, <3>3
      <4>3. Adopted(op, d, q) = {Signature(d[SkillMd(s)], url, pin)}
        BY <3>2, <3>5, <3>6, <4>2 DEF Adopted, Exists, s
      <4> QED
        BY <4>1, <4>3
    <3> QED
      BY <3>6 DEF Backed
  <2>5. \/ d[SkillMd(s)] = None \/ Backed(d[SkillMd(s)], url, pin, h)
        \/ \E i \in DOMAIN a : FillsAt(a[i], SkillMd(s))
    BY <1>5, <2>4
  <2>6. Fair(a \o Finish(s, url, pin), c, d, h)
    BY <1>5, <1>6, <1>8, <1>11, <2>3, <2>5, FairSigned
  <2>7. op.with.tail = Finish(s, url, pin)
    BY <1>11 DEF pin
  <2>8. Fair(a \o op.with.tail, c, d, h)
    BY <2>6, <2>7
  <2> QED
    BY <2>8 DEF a, s, url, files
<1> QED
  BY <1>3, <1>9, <1>10, <1>11 DEF Ends

-----------------------------------------------------------------------------
(* What the calls do                                                        *)

\* The disk after a call: as it was, or different at one path.
Effect(op, d, e) ==
    \/ e = d
    \/ op.do = "mkdir" /\ e = [d EXCEPT ![op.at] = Dir]
    \/ op.do = "open" /\ HasDirectory(d, op.at) /\ e = [d EXCEPT ![op.at] = Empty]
    \/ op.do = "fill" /\ d[op.at] = Empty /\ e = [d EXCEPT ![op.at] = op.with]
    \/ op.do \in {"unlink", "clear"} /\ e = [d EXCEPT ![op.at] = None]
    \/ op.do = "rmdir" /\ \E f \in FilesOf(op.at) : e = [d EXCEPT ![f] = None]
    \/ /\ op.do = "rmdir" /\ \A f \in FilesOf(op.at) : ~Exists(d, f)
       /\ e = [d EXCEPT ![SkillDir(op.at)] = None]

\* What the next operation of a command that runs alone can rely on.
Ready(op, c, d, h) ==
    /\ GoodOp(op) /\ Belongs(op, c, h) /\ DiskOK(d) /\ Sound(d, h)
    /\ \A u \in Urls : h.at[u] \in 1..MaxVersion[u]
    /\ Guarded(c) => c.on \in Skills
    /\ op.do = "clear" => ~Living(d[op.at])
    /\ op.do = "fill" => d[op.at] = Empty
    /\ op.do = "sign" /\ op.with.url # NoUrl =>
        d[SkillMd(op.at)] = None \/ Backed(d[SkillMd(op.at)], op.with.url, op.with.pin, h)

\* A result of a call.
Moves(op) == op.do \in {"mkdir", "open", "fill"}
Right(op, c, d, h, r) ==
    /\ Effect(op, d, r.disk)
    /\ r.fails => r.disk = d
    /\ ~r.fails =>
        /\ Moves(op) \/ op.do = "present" => r.then = <<>>
        /\ op.do = "open" => r.disk = [d EXCEPT ![op.at] = Empty]
        /\ op.do = "fill" => r.disk = [d EXCEPT ![op.at] = op.with]
        /\ ~Moves(op) => Fair(r.then, c, r.disk, h)
        /\ Guarded(c) /\ Looks(op) => ~Held(d, c, h)

LEMMA FailsRight ==
    ASSUME NEW op, NEW c, NEW d, NEW h
    PROVE  Right(op, c, d, h, Fails(d))
  BY DEF Right, Effect, Fails

\* A call that changes nothing.
LEMMA GoRight ==
    ASSUME NEW op, NEW c, NEW d, NEW h, NEW then, ~Moves(op), ~Looks(op), op.do = "present" => then = <<>>,
           Fair(then, c, d, h)
    PROVE  Right(op, c, d, h, Go(d, then))
<1>1. Go(d, then).disk = d /\ Go(d, then).then = then /\ Go(d, then).fails = FALSE
  BY DEF Go
<1> QED
  BY <1>1 DEF Right, Effect, Moves

LEMMA NoneFair ==
    ASSUME NEW c, NEW d, NEW h
    PROVE  Fair(<<>>, c, d, h)
  BY EasyNone, EasyFair

\* A skill that is not there has no text.
LEMMA NewLooks ==
    ASSUME NEW op, NEW c, NEW d, NEW h, Ready(op, c, d, h), op.do = "new", ~Exists(d, op.at), Guarded(c)
    PROVE  ~Held(d, c, h)
<1>1. c.do = "skill init" /\ op.at = SkillDir(c.on) /\ c.on \in Skills
  BY DEF Ready, Belongs, Carries, Guarded
<1>2. SkillMd(c.on) \in FilesOf(c.on)
  BY DEF FilesOf
<1>3. ~Exists(d, SkillMd(c.on))
  BY <1>1, <1>2 DEF Ready, Sound
<1>4. None.is # "text"
  BY DEF None
<1> QED
  BY <1>3, <1>4 DEF IsByHand, Exists, Held

\* The calls of file operations.
LEMMA FileRight ==
    ASSUME NEW op, NEW c, NEW d, NEW h, Ready(op, c, d, h), op.do \in FileOps,
           NEW r \in FileResults(op, d)
    PROVE  Right(op, c, d, h, r)
<1>0. GoodOp(op) /\ DiskOK(d) /\ DOMAIN d = Paths
  BY DEF Ready, DiskOK
<1>1. CASE op.do = "new"
  <2>1. r = IF Exists(d, op.at) THEN Fails(d) ELSE Go(d, <<>>)
    BY <1>1 DEF FileResults
  <2>2. ASSUME ~Exists(d, op.at) PROVE Right(op, c, d, h, Go(d, <<>>))
    <3>1. /\ Go(d, <<>>).disk = d /\ Go(d, <<>>).then = <<>> /\ Go(d, <<>>).fails = FALSE
      BY DEF Go
    <3>2. Guarded(c) => ~Held(d, c, h)
      BY <1>1, <2>2, NewLooks
    <3> QED
      BY <1>1, <3>1, <3>2, NoneFair DEF Right, Effect, Moves
  <2> QED
    BY <2>1, <2>2, FailsRight
<1>2. CASE op.do = "present"
  <2>1. r = IF Exists(d, op.at) THEN Go(d, <<>>) ELSE Fails(d)
    BY <1>2 DEF FileResults
  <2>2. Right(op, c, d, h, Go(d, <<>>))
    BY <1>2, NoneFair, GoRight DEF Moves, Looks
  <2> QED
    BY <2>1, <2>2, FailsRight
<1>3. CASE op.do = "open"
  <2> DEFINE e == [d EXCEPT ![op.at] = Empty]
  <2>1. r = IF HasDirectory(d, op.at) THEN Go(e, <<>>) ELSE Fails(d)
    BY <1>3, OpenResult
  <2>2. Go(e, <<>>).disk = e /\ Go(e, <<>>).then = <<>> /\ Go(e, <<>>).fails = FALSE
    BY DEF Go
  <2>3. HasDirectory(d, op.at) => Effect(op, d, e)
    BY <1>3 DEF Effect
  <2>4. HasDirectory(d, op.at) => Right(op, c, d, h, Go(e, <<>>))
    BY <1>3, <2>2, <2>3 DEF Right, Moves, Looks
  <2> QED
    BY <2>1, <2>4, FailsRight
<1>4. CASE op.do = "fill"
  <2> DEFINE e == [d EXCEPT ![op.at] = op.with]
  <2>1. d[op.at] = Empty
    BY <1>4 DEF Ready
  <2>2. Filled(d, op.at, op.with) = {e}
    BY <2>1, TextsDiffer DEF Filled
  <2>3. r = Go(e, <<>>)
    BY <1>4, <2>2, FillResult
  <2>4. Go(e, <<>>).disk = e /\ Go(e, <<>>).then = <<>> /\ Go(e, <<>>).fails = FALSE
    BY DEF Go
  <2>5. Effect(op, d, e)
    BY <1>4, <2>1 DEF Effect
  <2> QED
    BY <1>4, <2>3, <2>4, <2>5 DEF Right, Moves, Looks
<1>5. CASE op.do \in {"unlink", "clear"}
  <2> DEFINE e == [d EXCEPT ![op.at] = None]
  <2>1. r = Go(e, <<>>) \/ r = Fails(d)
    BY <1>5 DEF FileResults
  <2>2. Go(e, <<>>).disk = e /\ Go(e, <<>>).then = <<>> /\ Go(e, <<>>).fails = FALSE
    BY DEF Go
  <2>3. Effect(op, d, e)
    BY <1>5 DEF Effect
  <2>4. Right(op, c, d, h, Go(e, <<>>))
    BY <1>5, <2>2, <2>3, NoneFair DEF Right, Moves, Looks
  <2> QED
    BY <2>1, <2>4, FailsRight
<1>6. CASE op.do = "fetch"
  <2>1. r = Go(d, <<>>) \/ r = Fails(d)
    BY <1>6 DEF FileResults
  <2>2. Right(op, c, d, h, Go(d, <<>>))
    BY <1>6, NoneFair, GoRight DEF Moves, Looks
  <2> QED
    BY <2>1, <2>2, FailsRight
<1>7. CASE op.do = "visit"
  <2> DEFINE x == Clears(op.at)
  <2>1. r = Go(d, IF d[op.at].is = "cached" /\ IsExpired(d[op.at]) THEN <<x>> ELSE <<>>)
    BY <1>7 DEF FileResults
  <2>2. x.do = "clear" /\ x.at = op.at
    BY DEF Clears, Op
  <2> HIDE DEF x
  <2>3. ASSUME d[op.at].is = "cached", IsExpired(d[op.at]) PROVE Fair(<<x>>, c, d, h)
    <3>1. PICK n \in Names : op.at = CacheFile(n)
      BY <1>0, <1>7 DEF GoodOp
    <3>2. d[op.at].left \in Int
      BY <2>3, <3>1 DEF Ready, Sound
    <3>3. ~Living(d[x.at])
      BY <2>2, <2>3, <3>2 DEF Living, IsExpired
    <3>4. Belongs(x, c, h)
      BY <2>2 DEF Belongs, Removes, Fills, Carries
    <3>5. \A i \in DOMAIN <<x>> : i = 1 /\ <<x>>[i] = x
      BY OneIs
    <3> QED
      BY <2>2, <3>3, <3>4, <3>5, OneIs DEF Fair
  <2>4. \A then : Fair(then, c, d, h) => Right(op, c, d, h, Go(d, then))
    BY <1>7, GoRight DEF Moves, Looks
  <2> QED
    BY <2>1, <2>3, <2>4, NoneFair
<1>8. CASE op.do = "load"
  <2> DEFINE x == Op("fail", op.at, NoData)
             y == Op("skills", op.at, NoData)
  <2>1. r = IF ~RegistryLoads(d) THEN Fails(d)
            ELSE Go(d, Visits \o IF op.at \in Providers(d) THEN op.with.then ELSE <<x>>)
    BY <1>8 DEF FileResults
  <2>2. x.do = "fail" /\ y.do = "skills"
    BY DEF Op
  <2>3. \/ op.with.then = <<>>
        \/ c.do = "install-skills" /\ op.with.then = <<y>>
    BY <1>8 DEF Ready, Belongs, Carries
  <2> HIDE DEF x, y
  <2>4. Easy(<<x>>, c, h)
    BY <2>2, SimpleOps, EasyOne
  <2>5. c.do = "install-skills" => Easy(<<y>>, c, h)
    <3>1. c.do = "install-skills" => Simple(y, c, h)
      BY <2>2 DEF Simple, Belongs, Removes, Fills, Carries
    <3> QED
      BY <2>2, <3>1, EasyOne
  <2>6. Easy(op.with.then, c, h)
    BY <2>3, <2>5, EasyNone
  <2>7. Easy(Visits \o <<x>>, c, h) /\ Easy(Visits \o op.with.then, c, h)
    BY <2>4, <2>6, VisitsEasy, EasyConcat
  <2>8. \A then : Easy(then, c, h) => Right(op, c, d, h, Go(d, then))
    BY <1>8, EasyFair, GoRight DEF Moves, Looks
  <2> QED
    BY <2>1, <2>7, <2>8, FailsRight
<1>9. CASE op.do = "fail"
  <2>1. r = Fails(d)
    BY <1>9 DEF FileResults
  <2> QED
    BY <2>1, FailsRight
<1> QED
  BY <1>1, <1>2, <1>3, <1>4, <1>5, <1>6, <1>7, <1>8, <1>9 DEF FileOps

\* The calls of init and of the commands on keys.
LEMMA HomeRight ==
    ASSUME NEW op, NEW c, NEW d, NEW h, Ready(op, c, d, h), op.do \in HomeOps,
           NEW r \in HomeResults(op, d)
    PROVE  Right(op, c, d, h, r)
<1>0. op.do # "default" => Rekeys(c)
  BY DEF Ready, Belongs, Carries, HomeOps
<1>1. \A path \in TopFiles \ {Credentials} : \A w : Right(op, c, d, h, Go(d, Write(path, w)))
  BY EasyElsewhere, EasyFair, GoRight DEF HomeOps, Moves, Looks
<1>2. Right(op, c, d, h, Go(d, <<>>))
  BY NoneFair, GoRight DEF HomeOps, Moves, Looks
<1>3. op.do # "default" => \A w : Right(op, c, d, h, Go(d, Write(Credentials, w)))
  <2>1. op.do # "default" => \A w : Fair(Write(Credentials, w), c, d, h)
    BY <1>0, EasyCredentials, EasyFair
  <2>2. ~Moves(op) /\ ~Looks(op) /\ op.do # "present"
    BY DEF HomeOps, Moves, Looks
  <2> QED
    BY <2>1, <2>2, GoRight
<1>4. CASE op.do = "default"
  <2>1. r = Go(d, IF Exists(d, Config) THEN <<>> ELSE Write(Config, ConfigText("none", NoPair)))
    BY <1>4 DEF HomeResults
  <2>2. Config \in TopFiles \ {Credentials}
    BY DEF TopFiles, Config, Credentials
  <2> QED
    BY <1>1, <1>2, <2>1, <2>2
<1>5. CASE op.do = "set key"
  <2>1. r = Fails(d) \/ r = Go(d, Write(Credentials, Keys(LoadCredentials(d) \cup {op.with})))
    BY <1>5 DEF HomeResults
  <2>2. op.do # "default"
    BY <1>5
  <2> QED
    BY <1>3, <2>1, <2>2, FailsRight
<1>6. CASE op.do = "remove key"
  <2>1. r = Fails(d) \/ r = Go(d, Write(Credentials, Keys(LoadCredentials(d) \ {op.with})))
    BY <1>6 DEF HomeResults
  <2>2. op.do # "default"
    BY <1>6
  <2> QED
    BY <1>3, <2>1, <2>2, FailsRight
<1> QED
  BY <1>4, <1>5, <1>6 DEF HomeOps

\* A manifest from a bundle, or from what a language model answers.
LEMMA BundleRight ==
    ASSUME NEW op, NEW c, NEW d, NEW h, ~Moves(op), ~Looks(op), op.do # "present", NEW s
    PROVE  /\ Right(op, c, d, h, Bundle(s, d)) /\ Right(op, c, d, h, Go(d, Bundle(s, d).then))
           /\ \A r \in Generate(s, d) : Right(op, c, d, h, r)
<1>1. \A n, w : Right(op, c, d, h, Go(d, Write(ManifestFile(n), w)))
  BY EasyElsewhere, EasyFair, GoRight
<1>2. Right(op, c, d, h, Go(d, <<>>))
  BY NoneFair, GoRight
<1>3. \/ Bundle(s, d) = Go(d, <<>>) \/ Bundle(s, d) = Fails(d)
      \/ \E n, w : Bundle(s, d) = Go(d, Write(ManifestFile(n), w))
  BY DEF Bundle
<1>4. /\ \A then : Go(d, then).then = then
      /\ Fails(d).then = <<>>
  BY DEF Go, Fails
<1>5. Right(op, c, d, h, Bundle(s, d)) /\ Right(op, c, d, h, Go(d, Bundle(s, d).then))
  BY <1>1, <1>2, <1>3, <1>4, FailsRight
<1>6. ASSUME NEW r \in Generate(s, d) PROVE Right(op, c, d, h, r)
  <2>1. \/ r = Go(d, <<>>)
        \/ \E n, w : r = Go(d, Write(ManifestFile(n), w))
        \/ r = Go(d, Bundle(s, d).then)
    BY DEF Generate
  <2> QED
    BY <1>1, <1>2, <1>5, <2>1
<1> QED
  BY <1>5, <1>6

\* A signature is of the text that is there.
LEMMA SignRight ==
    ASSUME NEW op, NEW c, NEW d, NEW h, Ready(op, c, d, h), op.do = "sign", NEW r \in Sign(op, d)
    PROVE  Right(op, c, d, h, r)
<1> DEFINE s == op.at
           t == Toml(ReadToml(d, s).provider, Hash(d[SkillMd(s)]), op.with.url, op.with.pin)
<1>1. PICK text \in {t, Mixed} : r = Go(d, IF Exists(d, SkillMd(s)) THEN Write(SkillToml(s), text) ELSE <<>>)
  BY DEF Sign
<1>2. t.url = op.with.url /\ t.pin = op.with.pin /\ t.hash = d[SkillMd(s)]
  BY DEF Toml, Hash
<1> HIDE DEF t
<1>3. Exists(d, SkillMd(s)) => Published(t, h)
  BY <1>2 DEF Ready, Published, Exists
<1> DEFINE a == Op("open", SkillToml(s), NoData)
           b == Op("fill", SkillToml(s), text)
<1>4. Removes(a, c)
  <2>1. a.do = "open" /\ a.at = SkillToml(s)
    BY DEF Op
  <2> QED
    BY <2>1, PathsApart DEF Removes
<1>5. Exists(d, SkillMd(s)) => Fills(b, h)
  <2>1. b.at = SkillToml(s) /\ b.with = text
    BY DEF Op
  <2>2. Mixed.is # "toml"
    BY DEF Mixed
  <2> QED
    BY <1>3, <2>1, <2>2, PathsApart DEF Fills
<1>6. Exists(d, SkillMd(s)) => Fair(Write(SkillToml(s), text), c, d, h)
  BY <1>4, <1>5, EasyWrite, EasyFair
<1>7. \A then : Fair(then, c, d, h) => Right(op, c, d, h, Go(d, then))
  BY GoRight DEF Moves, Looks
<1> QED
  BY <1>1, <1>6, <1>7, NoneFair

\* An update that is not forced goes on only from a text that the source published or that an
\* installation signed, or on the word of a repository's own skill.toml.
LEMMA UpdateRight ==
    ASSUME NEW op, NEW c, NEW d, NEW h, Ready(op, c, d, h), op.do = "update",
           Vouches(op, d, h.at, Reinstall(op, d)) \subseteq h.vouched
    PROVE  Right(op, c, d, h, Reinstall(op, d))
<1> DEFINE s == op.at
           t == ReadToml(d, s)
           a == Op("rmdir", s, NoData)
           b == Op("clone", s, [url |-> t.url, pin |-> t.pin, tail |-> Finish(s, t.url, t.pin)])
           halts == t.url = NoUrl \/ (Modified(d, s) /\ ~op.with.force)
           go == Go(d, <<a>> \o <<b>>)
<1>1. Reinstall(op, d) = IF halts THEN Fails(d) ELSE go
  BY DEF Reinstall, Install
<1>2. s \in Skills /\ c.do = "skill update" /\ c.on = s /\ op.with.force = c.with.force
  BY DEF Ready, GoodOp, Belongs, Carries
<1>3. Changes(c, s)
  BY DEF Ready, Belongs, Removes
<1>4. a.do = "rmdir" /\ a.at = s
  BY DEF Op
<1>5. b.do = "clone" /\ b.at = s /\ b.with.url = t.url /\ b.with.pin = t.pin
      /\ b.with.tail = Finish(s, t.url, t.pin)
  BY DEF Op
<1>6. Published(t, h) /\ TomlOK(t)
  BY <1>2, ReadTomlOK DEF Ready, Sound
<1> HIDE DEF a, b, t
<1>7. Simple(a, c, h)
  BY <1>3, <1>4 DEF Simple, Belongs, Removes, Fills, Carries
<1>8. Simple(b, c, h)
  <2>1. Ends(b, c)
    BY <1>2, <1>5 DEF Ends
  <2> QED
    BY <1>3, <1>5, <2>1 DEF Simple, Belongs, Removes, Fills, Carries
<1>9. Fair(<<a>> \o <<b>>, c, d, h)
  BY <1>4, <1>5, <1>7, <1>8, EasyOne, EasyConcat, EasyFair
<1>10. ASSUME Guarded(c), ~halts, Held(d, c, h) PROVE FALSE
  <2>1. ~Modified(d, s) /\ t.url # NoUrl
    BY <1>2, <1>10 DEF Guarded
  <2>2. /\ d[SkillMd(s)].is = "text" /\ d[SkillMd(s)].from = ByHand
        /\ \A x \in h.vouched : x.text # d[SkillMd(s)]
    BY <1>2, <1>10 DEF Held, IsByHand
  <2>3. Exists(d, SkillMd(s))
    BY <2>2 DEF Exists, None
  <2>4. t.hash \in {NoHash, d[SkillMd(s)]}
    BY <2>1, <2>3 DEF Modified, Hash, t
  <2>5. CASE TomlIsShipped(t, h.at)
    <3>1. go.fails = FALSE
      BY DEF Go
    <3>2. Vouches(op, d, h.at, Reinstall(op, d)) = Believed(op, d, h.at)
      BY <1>1, <1>10, <3>1 DEF Vouches
    <3>3. Signature(d[SkillMd(s)], t.url, t.pin) \in Believed(op, d, h.at)
      BY <2>5 DEF Believed, t
    <3>4. Signature(d[SkillMd(s)], t.url, t.pin).text = d[SkillMd(s)]
      BY DEF Signature
    <3> QED
      BY <2>2, <3>2, <3>3, <3>4
  <2>6. CASE TextIsOf(t.hash, t.url, t.pin, h.at)
    <3>1. t.url \in Urls
      BY <1>6, <2>1 DEF TomlOK, SourceOK
    <3>2. PICK v \in 1..h.at[t.url] : Shipped(t.url, v, "md", t.hash)
      BY <2>6 DEF TextIsOf
    <3>3. v \in 1..MaxVersion[t.url]
      BY <3>1, VersionsAre DEF Ready
    <3>4. ShipmentOK(Ships(t.url, v))
      BY <3>1, <3>3, AtiHomeAssumption DEF AtiHomeAssumption
    <3>5. t.hash.is = "text" /\ t.hash.from # ByHand
      BY <3>2, <3>4 DEF ShipmentOK, Shipped
    <3>6. NoHash.is = "no hash"
      BY DEF NoHash
    <3> QED
      BY <2>2, <2>4, <3>5, <3>6
  <2>7. CASE Signature(t.hash, t.url, t.pin) \in h.vouched
    <3>1. Signature(t.hash, t.url, t.pin).text = t.hash
      BY DEF Signature
    <3>2. t.hash # NoHash
      BY <2>7, <3>1 DEF Ready, Sound
    <3> QED
      BY <2>2, <2>4, <2>7, <3>1, <3>2
  <2> QED
    BY <1>6, <2>1, <2>5, <2>6, <2>7 DEF Published, Backed
<1>11. ~halts => Right(op, c, d, h, go)
  <2>1. go.disk = d /\ go.then = <<a>> \o <<b>> /\ go.fails = FALSE
    BY DEF Go
  <2> HIDE DEF go, halts
  <2> QED
    BY <1>9, <1>10, <2>1 DEF Right, Effect, Moves
<1> HIDE DEF halts, go
<1> QED
  BY <1>1, <1>11, FailsRight

\* The skills that a manifest declares: clones that neither sign nor generate.
LEMMA CatalogEasy ==
    ASSUME NEW c, NEW h, c.do = "install-skills", NEW urls \in Seq([skill : Skills, url : Urls])
    PROVE  LET Each[i \in 0..Len(urls)] == IF i = 0 THEN <<>>
                   ELSE Each[i - 1] \o InstallFromUrl(urls[i].skill, urls[i].url)
           IN  Easy(Each[Len(urls)], c, h)
<1> DEFINE n == Len(urls)
           E == CHOOSE f : f = [i \in 0..n |-> IF i = 0 THEN <<>>
                     ELSE f[i - 1] \o InstallFromUrl(urls[i].skill, urls[i].url)]
<1>1. n \in Nat
  OBVIOUS
<1>2. PICK g, F : g \in [1..n -> Seq(CloneOps)] /\ Joins(F, g, n) /\ E[n] = F[n]
  BY SkillsAre
<1>3. Piece(E[n])
  BY SkillsPiece
<1> HIDE DEF E, n
<1>4. F[n] \in Seq(CloneOps)
  BY <1>1, <1>2, JoinIn
<1>5. ASSUME NEW op \in CloneOps PROVE Simple(op, c, h)
  <2>1. CASE op = End
    <3>1. op.do = "end"
      BY <2>1 DEF End, Op
    <3> QED
      BY <3>1 DEF Simple, Belongs, Removes, Fills, Carries
  <2>2. CASE op # End
    <3>1. PICK x \in [skill : Skills, url : Urls] :
            op = Op("clone", x.skill, [url |-> x.url, pin |-> NoPin, tail |-> <<Op("bundle", x.skill, NoData)>>])
      BY <2>2 DEF CloneOps
    <3> DEFINE b == <<Op("bundle", x.skill, NoData)>>
    <3>2. op.do = "clone" /\ op.at = x.skill /\ op.with.tail = b
      BY <3>1 DEF Op
    <3>3. Ends(op, c)
      BY <3>2 DEF Ends
    <3> QED
      BY <3>2, <3>3 DEF Simple, Belongs, Removes, Fills, Carries, Changes
  <2> QED
    BY <2>1, <2>2
<1>6. Easy(E[n], c, h)
  BY <1>2, <1>3, <1>4, <1>5, EasyIn DEF Piece
<1> QED
  BY <1>6 DEF E, n

\* The calls of the commands on skills.
LEMMA SkillRight ==
    ASSUME NEW op, NEW c, NEW d, NEW h, Ready(op, c, d, h), op.do \in SkillOps,
           NEW r \in SkillResults(op, d, h.at), Vouches(op, d, h.at, r) \subseteq h.vouched
    PROVE  Right(op, c, d, h, r)
<1>0. GoodOp(op) /\ Belongs(op, c, h) /\ \A u \in Urls : h.at[u] \in 1..MaxVersion[u] /\ MaxVersion[u] \in Nat
  BY VersionsAre DEF Ready
<1>1. CASE op.do = "mkdir"
  <2> DEFINE e == [d EXCEPT ![op.at] = Dir]
  <2>1. r = Go(e, <<>>)
    BY <1>1 DEF SkillResults
  <2>2. Go(e, <<>>).disk = e /\ Go(e, <<>>).then = <<>> /\ Go(e, <<>>).fails = FALSE
    BY DEF Go
  <2>3. Effect(op, d, e)
    BY <1>1 DEF Effect
  <2> QED
    BY <1>1, <2>1, <2>2, <2>3 DEF Right, Moves, Looks
<1>2. ASSUME op.do \in {"copy", "clone"}, NEW v \in 1..MaxVersion[op.with.url], v \in 1..h.at[op.with.url],
             op.do = "clone" /\ op.with.pin # NoPin => op.with.pin = v, r \in Copies(op, d, v)
      PROVE  Right(op, c, d, h, r)
  <2> DEFINE files == Ships(op.with.url, v)
  <2>1. PICK o \in Orders(DOMAIN files) : r = Go(d, CopyDir(files, op.at, o) \o op.with.tail)
    BY <1>2 DEF Copies
  <2>2. Fair(CopyDir(files, op.at, o) \o op.with.tail, c, d, h)
    <3>1. CopiesFrom(op, c, h, v)
      BY <1>0, <1>2 DEF CopiesFrom
    <3>2. o \in Orders(DOMAIN Ships(op.with.url, v))
      BY <2>1
    <3>3. r.then = CopyDir(files, op.at, o) \o op.with.tail /\ r.fails = FALSE
      BY <2>1 DEF Go
    <3>4. Vouches(op, d, h.at, r) = Adopted(op, d, CopyDir(files, op.at, o) \o op.with.tail)
      BY <1>2, <3>3 DEF Vouches
    <3> QED
      BY <3>1, <3>2, <3>4, CopyFair
  <2> HIDE DEF files
  <2> QED
    BY <1>2, <2>1, <2>2, GoRight DEF Moves, Looks
<1>3. CASE op.do = "copy"
  <2>1. r \in Copies(op, d, h.at[op.with.url])
    BY <1>3 DEF SkillResults
  <2>2. op.with.url \in Urls
    BY <1>0, <1>3 DEF GoodOp
  <2>3. h.at[op.with.url] \in 1..MaxVersion[op.with.url] /\ h.at[op.with.url] \in 1..h.at[op.with.url]
    BY <1>0, <2>2
  <2> QED
    BY <1>2, <1>3, <2>1, <2>3
<1>4. CASE op.do = "clone"
  <2> DEFINE v == IF op.with.pin = NoPin THEN h.at[op.with.url] ELSE op.with.pin
  <2>1. r = Fails(d) \/ (~(op.with.pin > h.at[op.with.url]) /\ r \in Copies(op, d, v))
    BY <1>4 DEF SkillResults
  <2>2. op.with.url \in Urls /\ op.with.pin \in 0..MaxVersion[op.with.url]
    BY <1>0, <1>4 DEF GoodOp
  <2>3. ~(op.with.pin > h.at[op.with.url]) => v \in 1..MaxVersion[op.with.url] /\ v \in 1..h.at[op.with.url]
    BY <1>0, <2>2 DEF NoPin
  <2>4. op.with.pin # NoPin => op.with.pin = v
    OBVIOUS
  <2> HIDE DEF v
  <2> QED
    BY <1>2, <1>4, <2>1, <2>3, <2>4, FailsRight
<1>5. CASE op.do = "sign"
  <2>1. r \in Sign(op, d)
    BY <1>5 DEF SkillResults
  <2> QED
    BY <1>5, <2>1, SignRight
<1>6. CASE op.do = "generate"
  <2>1. r \in Generate(op.at, d)
    BY <1>6 DEF SkillResults
  <2> QED
    BY <1>6, <2>1, BundleRight DEF Moves, Looks
<1>7. CASE op.do = "bundle"
  <2>1. r = Bundle(op.at, d)
    BY <1>7 DEF SkillResults
  <2> QED
    BY <1>7, <2>1, BundleRight DEF Moves, Looks
<1>8. CASE op.do = "rmdir"
  <2> DEFINE some == \E f \in FilesOf(op.at) : Exists(d, f)
             X(f) == [d EXCEPT ![f] = None]
  <2>1. SkillResults(op, d, h.at) =
          IF some
          THEN {Go([d EXCEPT ![f] = None], <<op>>) : f \in {g \in FilesOf(op.at) : Exists(d, g)}}
          ELSE {Go([d EXCEPT ![SkillDir(op.at)] = None], <<>>)}
    BY <1>8 DEF SkillResults
  <2>2. \/ ~some /\ r = Go(X(SkillDir(op.at)), <<>>)
        \/ \E f \in FilesOf(op.at) : r = Go(X(f), <<op>>)
    BY <2>1
  <2>3. \A e, then : Go(e, then).disk = e /\ Go(e, then).then = then /\ Go(e, then).fails = FALSE
    BY DEF Go
  <2>4. \A f \in FilesOf(op.at) : Effect(op, d, X(f))
    BY <1>8 DEF Effect
  <2>5. ~some => Effect(op, d, X(SkillDir(op.at)))
    BY <1>8 DEF Effect
  <2>6. \A e : Fair(<<op>>, c, e, h)
    <3>1. Simple(op, c, h)
      BY <1>0, <1>8 DEF Simple
    <3> QED
      BY <1>8, <3>1, EasyOne, EasyFair
  <2>7. \A e, then : Effect(op, d, e) /\ Fair(then, c, e, h) => Right(op, c, d, h, Go(e, then))
    BY <1>8, <2>3 DEF Right, Moves, Looks
  <2> HIDE DEF some, X
  <2> QED
    BY <2>2, <2>4, <2>5, <2>6, <2>7, NoneFair
<1>9. CASE op.do = "update"
  <2>1. r = Reinstall(op, d)
    BY <1>9 DEF SkillResults
  <2> QED
    BY <1>9, <2>1, UpdateRight
<1>10. CASE op.do = "skills"
  <2> DEFINE urls == Catalog[op.at]
             E == CHOOSE f : f = [i \in 0..Len(urls) |-> IF i = 0 THEN <<>>
                     ELSE f[i - 1] \o InstallFromUrl(urls[i].skill, urls[i].url)]
  <2>1. r = Go(d, E[Len(urls)])
    BY <1>10 DEF SkillResults
  <2>2. urls \in Seq([skill : Skills, url : Urls])
    BY <1>0, <1>10, AtiHomeAssumption DEF AtiHomeAssumption, GoodOp, PlainOp
  <2>3. c.do = "install-skills"
    BY <1>0, <1>10 DEF Belongs, Carries
  <2>4. Easy(E[Len(urls)], c, h)
    BY <2>2, <2>3, CatalogEasy
  <2> HIDE DEF E, urls
  <2>5. Fair(E[Len(urls)], c, d, h)
    BY <2>4, EasyFair
  <2> QED
    BY <1>10, <2>1, <2>5, GoRight DEF Moves, Looks
<1>11. CASE op.do = "end"
  <2>1. r = Go(d, <<>>)
    BY <1>11 DEF SkillResults
  <2> QED
    BY <1>11, <2>1, NoneFair, GoRight DEF Moves, Looks
<1> QED
  BY <1>1, <1>3, <1>4, <1>5, <1>6, <1>7, <1>8, <1>9, <1>10, <1>11 DEF SkillOps

-----------------------------------------------------------------------------
(* The disk of commands that run alone                                      *)

\* An effect is at one path, which fits it.
At(path, w, op, d, e) ==
    /\ path \in Paths /\ e = [d EXCEPT ![path] = w]
    /\ \/ op.do = "mkdir" /\ w = Dir /\ path = op.at /\ \E s \in Skills : path = SkillDir(s)
       \/ op.do = "open" /\ w = Empty /\ path = op.at /\ HasDirectory(d, path)
       \/ op.do = "fill" /\ w = op.with /\ path = op.at /\ d[path] = Empty
       \/ /\ op.do \in {"unlink", "clear"} /\ w = None /\ path = op.at
          /\ \E n \in Names : path \in {ManifestFile(n), CacheFile(n)}
       \/ op.do = "rmdir" /\ w = None /\ op.at \in Skills /\ path \in FilesOf(op.at)
       \/ /\ op.do = "rmdir" /\ w = None /\ op.at \in Skills /\ path = SkillDir(op.at)
          /\ \A f \in FilesOf(op.at) : ~Exists(d, f)

LEMMA EffectAt ==
    ASSUME NEW op, GoodOp(op), NEW d, NEW e, Effect(op, d, e)
    PROVE  e = d \/ \E path, w : At(path, w, op, d, e)
<1>1. CASE op.do = "mkdir" /\ e = [d EXCEPT ![op.at] = Dir]
  <2>1. \E s \in Skills : op.at = SkillDir(s)
    BY <1>1 DEF GoodOp
  <2>2. At(op.at, Dir, op, d, e)
    BY <1>1, <2>1, PathsAre DEF At
  <2> QED
    BY <2>2
<1>2. CASE op.do = "open" /\ HasDirectory(d, op.at) /\ e = [d EXCEPT ![op.at] = Empty]
  <2>1. At(op.at, Empty, op, d, e)
    BY <1>2 DEF At, GoodOp
  <2> QED
    BY <2>1
<1>3. CASE op.do = "fill" /\ d[op.at] = Empty /\ e = [d EXCEPT ![op.at] = op.with]
  <2>1. At(op.at, op.with, op, d, e)
    BY <1>3 DEF At, GoodOp
  <2> QED
    BY <2>1
<1>4. CASE op.do \in {"unlink", "clear"} /\ e = [d EXCEPT ![op.at] = None]
  <2>1. \E n \in Names : op.at \in {ManifestFile(n), CacheFile(n)}
    BY <1>4 DEF GoodOp
  <2>2. At(op.at, None, op, d, e)
    BY <1>4, <2>1, PathsAre DEF At
  <2> QED
    BY <2>2
<1>5. CASE op.do = "rmdir" /\ \E f \in FilesOf(op.at) : e = [d EXCEPT ![f] = None]
  <2>1. PICK f \in FilesOf(op.at) : e = [d EXCEPT ![f] = None]
    BY <1>5
  <2>2. op.at \in Skills
    BY <1>5 DEF GoodOp
  <2>3. f \in Paths
    BY <2>2, PathsAre
  <2>4. At(f, None, op, d, e)
    BY <1>5, <2>1, <2>2, <2>3 DEF At
  <2> QED
    BY <2>4
<1>6. CASE /\ op.do = "rmdir" /\ \A f \in FilesOf(op.at) : ~Exists(d, f)
           /\ e = [d EXCEPT ![SkillDir(op.at)] = None]
  <2>1. op.at \in Skills
    BY <1>6 DEF GoodOp
  <2>2. At(SkillDir(op.at), None, op, d, e)
    BY <1>6, <2>1, PathsAre DEF At
  <2> QED
    BY <2>2
<1> QED
  BY <1>1, <1>2, <1>3, <1>4, <1>5, <1>6 DEF Effect

\* The files of two skills are apart, and so are a skill's files and its directory.
LEMMA SkillPaths ==
    /\ \A s, t : \A f \in FilesOf(s) : f # SkillDir(t) /\ f[1] \in {"md", "toml", "bundle"} /\ f[2] = s
    /\ \A s : SkillMd(s) \in FilesOf(s) /\ SkillToml(s) \in FilesOf(s) /\ SkillDir(s)[2] = s
    /\ \A s : \A f \in FilesOf(s) : \A n : f # ManifestFile(n) /\ f # CacheFile(n)
    /\ \A s, n : SkillDir(s) # ManifestFile(n) /\ SkillDir(s) # CacheFile(n)
  BY DEF FilesOf, SkillMd, SkillToml, BundledProvider, SkillDir, ManifestFile, CacheFile

LEMMA SoundStep ==
    ASSUME NEW op, NEW c, NEW d, NEW h, NEW e, GoodOp(op), Belongs(op, c, h), DiskOK(d), Sound(d, h),
           Effect(op, d, e)
    PROVE  Sound(e, h)
<1>1. CASE e = d
  BY <1>1
<1>2. ASSUME NEW path, NEW w, At(path, w, op, d, e) PROVE Sound(e, h)
  <2>1. /\ path \in Paths /\ e[path] = w /\ \A o \in Paths : o # path => e[o] = d[o]
    BY <1>2 DEF At, DiskOK
  <2>2. /\ \A s \in Skills : \A f \in FilesOf(s) : Exists(d, f) => Exists(d, SkillDir(s))
        /\ \A s \in Skills : Published(ReadToml(d, s), h)
        /\ \A n \in Names : d[CacheFile(n)].is = "cached" => d[CacheFile(n)].left \in Int
        /\ \A s \in Skills : d[SkillMd(s)].is # "cached"
        /\ \A x \in h.vouched : x.text # NoHash
    BY DEF Sound
  <2>3. op.do = "fill" => w # None
    BY <1>2, TextsDiffer DEF GoodOp, At
  <2>4. ASSUME NEW s \in Skills, NEW f \in FilesOf(s), Exists(e, f) PROVE Exists(e, SkillDir(s))
    <3>1. f \in Paths /\ SkillDir(s) \in Paths
      BY PathsAre
    <3>2. Exists(d, SkillDir(s))
      <4>1. CASE f # path
        <5>1. Exists(d, f)
          BY <2>1, <2>4, <3>1, <4>1 DEF Exists
        <5> QED
          BY <2>2, <5>1
      <4>2. CASE f = path
        <5>1. w # None
          BY <2>1, <2>4, <4>2 DEF Exists
        <5>2. ~(op.do = "mkdir")
          BY <1>2, <4>2, SkillPaths DEF At
        <5>3. CASE op.do = "open" /\ HasDirectory(d, path)
          BY <4>2, <5>3, SkillPaths DEF HasDirectory
        <5>4. CASE op.do = "fill" /\ d[path] = Empty
          <6>1. Exists(d, f)
            BY <4>2, <5>4, TextsDiffer DEF Exists
          <6> QED
            BY <2>2, <6>1
        <5> QED
          BY <1>2, <5>1, <5>2, <5>3, <5>4 DEF At
      <4> QED
        BY <4>1, <4>2
    <3>3. CASE SkillDir(s) # path
      BY <2>1, <3>1, <3>2, <3>3 DEF Exists
    <3>4. CASE SkillDir(s) = path
      <4>1. w # None
        <5>1. ~(op.do \in {"unlink", "clear"})
          BY <1>2, <3>4, SkillPaths DEF At
        <5>2. ~(op.do = "rmdir" /\ path \in FilesOf(op.at))
          BY <3>4, SkillPaths
        <5>3. ASSUME op.do = "rmdir", path = SkillDir(op.at), \A g \in FilesOf(op.at) : ~Exists(d, g)
              PROVE  FALSE
          <6>1. op.at = s
            BY <3>4, <5>3, SkillPaths
          <6>2. f # path
            BY <3>4, SkillPaths
          <6>3. Exists(d, f)
            BY <2>1, <2>4, <3>1, <6>2 DEF Exists
          <6> QED
            BY <5>3, <6>1, <6>3
        <5> QED
          BY <1>2, <2>3, <5>1, <5>2, <5>3, TextsDiffer DEF At
      <4> QED
        BY <2>1, <3>4, <4>1 DEF Exists
    <3> QED
      BY <3>3, <3>4
  <2>5. ASSUME NEW s \in Skills PROVE Published(ReadToml(e, s), h)
    <3>1. SkillToml(s) \in Paths
      BY PathsAre
    <3>2. CASE SkillToml(s) # path
      <4>1. ReadToml(e, s) = ReadToml(d, s)
        BY <2>1, <3>1, <3>2 DEF ReadToml
      <4> QED
        BY <2>2, <4>1
    <3>3. CASE SkillToml(s) = path
      <4>1. Published(Unsigned(""), h)
        BY DEF Published, Unsigned, Toml
      <4>2. (w.is = "toml" /\ ReadToml(e, s) = w) \/ ReadToml(e, s) = Unsigned("")
        BY <2>1, <3>3 DEF ReadToml
      <4>3. op.do = "fill" /\ w.is = "toml" => Published(w, h)
        BY <1>2, <3>3 DEF At, Belongs, Fills
      <4>4. op.do # "fill" => ReadToml(e, s) = Unsigned("")
        <5>1. Dir.is # "toml" /\ Empty.is # "toml" /\ None.is # "toml"
          BY DEF Dir, Empty, None
        <5>2. op.do # "fill" => w \in {Dir, Empty, None}
          BY <1>2 DEF At
        <5> QED
          BY <2>1, <3>3, <5>1, <5>2 DEF ReadToml
      <4> QED
        BY <4>1, <4>2, <4>3, <4>4
    <3> QED
      BY <3>2, <3>3
  <2>6. ASSUME NEW n \in Names, e[CacheFile(n)].is = "cached" PROVE e[CacheFile(n)].left \in Int
    <3>1. CacheFile(n) \in Paths
      BY PathsAre
    <3>2. CASE CacheFile(n) # path
      BY <2>1, <2>2, <2>6, <3>1, <3>2
    <3>3. CASE CacheFile(n) = path
      <4>1. w.is = "cached"
        BY <2>1, <2>6, <3>3
      <4>2. Dir.is # "cached" /\ Empty.is # "cached" /\ None.is # "cached"
        BY DEF Dir, Empty, None
      <4>3. op.do = "fill" /\ w = op.with /\ op.at = CacheFile(n)
        BY <1>2, <3>3, <4>1, <4>2 DEF At
      <4>4. w.left \in Int
        BY <4>1, <4>3 DEF Belongs, Fills
      <4> QED
        BY <2>1, <3>3, <4>4
    <3> QED
      BY <3>2, <3>3
  <2>7. ASSUME NEW s \in Skills PROVE e[SkillMd(s)].is # "cached"
    <3>1. SkillMd(s) \in Paths
      BY PathsAre
    <3>2. CASE SkillMd(s) # path
      BY <2>1, <2>2, <3>1, <3>2
    <3>3. CASE SkillMd(s) = path
      <4>1. Dir.is # "cached" /\ Empty.is # "cached" /\ None.is # "cached"
        BY DEF Dir, Empty, None
      <4>2. CASE op.do = "fill" /\ w = op.with /\ op.at = path
        BY <2>1, <3>3, <4>2 DEF Belongs, Fills
      <4>3. CASE w \in {Dir, Empty, None}
        BY <2>1, <3>3, <4>1, <4>3
      <4> QED
        BY <1>2, <4>2, <4>3 DEF At
    <3> QED
      BY <3>2, <3>3
  <2> QED
    BY <2>2, <2>4, <2>5, <2>6, <2>7 DEF Sound
<1> QED
  BY <1>1, <1>2, EffectAt

\* One more signature leaves the disk as sound as it was.
LEMMA SoundGrow ==
    ASSUME NEW d, NEW g, NEW h, h.at = g.at, g.vouched \subseteq h.vouched,
           \A x \in h.vouched : x.text # NoHash, Sound(d, g)
    PROVE  Sound(d, h)
<1>1. \A t : Published(t, g) => Published(t, h)
  BY DEF Published, Backed
<1> QED
  BY <1>1 DEF Sound

\* A signature is of a text.
LEMMA VouchedIs ==
    ASSUME NEW op, GoodOp(op), NEW d, DiskOK(d), NEW r, NEW at, NEW x \in Vouches(op, d, at, r)
    PROVE  x.text # NoHash
<1>1. \A text, url, pin : Signature(text, url, pin).text = text
  BY DEF Signature
<1>2. op.do \in {"copy", "clone", "update"} /\ \E url, pin : x = Signature(d[SkillMd(op.at)], url, pin)
  BY DEF Vouches, Adopted, Believed
<1>3. SkillMd(op.at) \in Paths
  BY <1>2, PathsAre DEF GoodOp
<1>4. NoHash.is = "no hash" /\ None.is = "none" /\ Empty.is = "empty" /\ Mixed.is = "mixed"
  BY DEF NoHash, None, Empty, Mixed
<1>5. d[SkillMd(op.at)] # NoHash
  BY <1>3, <1>4 DEF DiskOK, TextFor
<1> QED
  BY <1>1, <1>2, <1>5

\* The commands that must not touch an edit name a skill.
LEMMA GuardedIs ==
    ASSUME TypeOK, NEW p \in Procs, Guarded(cmd[p])
    PROVE  cmd[p].on \in Skills
<1>1. cmd[p] \in Commands \cup {NoCommand}
  BY DEF TypeOK
<1>2. cmd[p] # NoCommand
  <2>1. NoCommand.do = "nothing"
    BY DEF NoCommand
  <2>2. cmd[p].do = "skill init" \/ cmd[p].do = "skill update"
    BY DEF Guarded
  <2>3. cmd[p].do # "nothing"
    BY <2>2
  <2> QED
    BY <2>1, <2>3
<1>3. CommandOK(cmd[p]) /\ cmd[p].do \in SkillCommands
  BY <1>1, <1>2, AtiHomeAssumption DEF AtiHomeAssumption, Guarded, SkillCommands
<1> QED
  BY <1>3 DEF CommandOK

\* The next operation of a command that runs alone.
LEMMA ReadyIs ==
    ASSUME HomeInv, TypeOK, AloneInv, alone, NEW p \in Procs, prog[p] # <<>>,
           NEW h, h.at = head, vouched \subseteq h.vouched, \A x \in h.vouched : x.text # NoHash
    PROVE  /\ Ready(prog[p][1], cmd[p], disk, h) /\ Runs(prog[p], cmd[p], disk, h)
           /\ Shaped(prog[p]) /\ Head(prog[p]) = prog[p][1]
<1> DEFINE q == prog[p]
           op == q[1]
           c == cmd[p]
<1>1. Stands(q, disk) /\ DiskOK(disk) /\ \A u \in Urls : head[u] \in 1..MaxVersion[u]
  BY DEF HomeInv
<1>2. Shaped(q) /\ IsSeq(q)
  BY <1>1 DEF Stands, Shaped
<1>3. Head(q) = op /\ 1 \in DOMAIN q
  BY <1>2, TailIs, RestOf
<1>4. Sound(disk, h) /\ Runs(q, c, disk, h)
  <2>1. Sound(disk, World) /\ Runs(q, c, disk, World)
    BY DEF AloneInv
  <2>2. World.at = head /\ World.vouched = vouched
    BY DEF World
  <2> QED
    BY <2>1, <2>2, SoundGrow, RunsGrow
<1>5. GoodOp(op) /\ Belongs(op, c, h)
  BY <1>2, <1>3, <1>4 DEF Shaped, Runs
<1>6. Guarded(c) => c.on \in Skills
  BY GuardedIs
<1>7. /\ op.do = "clear" => ~Living(disk[op.at])
      /\ op.do = "fill" => disk[op.at] = Empty
  BY <1>3, <1>4, NoneIs DEF Runs
<1>8. ASSUME op.do = "sign", op.with.url # NoUrl
      PROVE  disk[SkillMd(op.at)] = None \/ Backed(disk[SkillMd(op.at)], op.with.url, op.with.pin, h)
  <2>1. Signs(q, 1, disk, h)
    BY <1>3, <1>4, <1>8 DEF Runs
  <2>2. \A j : j \notin 1..(1 - 1)
    OBVIOUS
  <2> QED
    BY <1>8, <2>1, <2>2 DEF Signs
<1>9. Ready(op, c, disk, h)
  <2> HIDE DEF op, c
  <2> QED
    BY <1>1, <1>4, <1>5, <1>6, <1>7, <1>8 DEF Ready
<1> QED
  BY <1>2, <1>3, <1>4, <1>9

\* The program after a call.
LEMMA RunsNext ==
    ASSUME NEW q, Shaped(q), q # <<>>, NEW c, NEW d, NEW h, Runs(q, c, d, h), Ready(q[1], c, d, h),
           NEW r, Right(q[1], c, d, h, r)
    PROVE  Runs(IF r.fails THEN AfterFailure(Tail(q)) ELSE r.then \o Tail(q), c, r.disk, h)
<1> DEFINE op == q[1]
           e == r.disk
<1>1. IsSeq(q) /\ IsSeq(Tail(q)) /\ GoodOp(op) /\ DOMAIN d = Paths
  <2>1. IsSeq(q)
    BY DEF Shaped
  <2> QED
    BY <2>1, TailIs DEF Ready, DiskOK
<1>2. CASE r.fails
  <2>1. e = d
    BY <1>2 DEF Right
  <2> QED
    BY <1>2, <2>1, RunsCut
<1>3. CASE ~r.fails /\ Moves(op)
  <2>1. r.then \o Tail(q) = Tail(q)
    BY <1>1, <1>3, NothingBefore DEF Right
  <2>2. \A s \in Skills : SkillMd(s) \in Paths
    BY PathsAre
  <2>3. \/ op.do = "mkdir" /\ (e = d \/ e = [d EXCEPT ![op.at] = Dir]) /\ \A s : op.at # SkillMd(s)
        \/ op.do = "open" /\ e = [d EXCEPT ![op.at] = Empty] /\ op.at \in Paths
        \/ op.do = "fill" /\ e = [d EXCEPT ![op.at] = op.with] /\ op.at \in Paths
    <3>1. CASE op.do = "mkdir"
      <4>1. e = d \/ e = [d EXCEPT ![op.at] = Dir]
        BY <3>1 DEF Right, Effect
      <4>2. \A s : op.at # SkillMd(s)
        BY <1>1, <3>1, PathsApart DEF GoodOp
      <4> QED
        BY <3>1, <4>1, <4>2
    <3>2. CASE op.do \in {"open", "fill"}
      BY <1>1, <1>3, <3>2 DEF Right, GoodOp
    <3> QED
      BY <1>3, <3>1, <3>2 DEF Moves
  <2>4. \A s \in Skills : SkillMd(s) # op.at => e[SkillMd(s)] = d[SkillMd(s)]
    BY <1>1, <2>2, <2>3
  <2>5. \/ op.do = "mkdir" /\ \A s : op.at # SkillMd(s)
        \/ op.do = "open" /\ e[op.at] = Empty
        \/ op.do = "fill" /\ e[op.at] = op.with
    BY <1>1, <2>3
  <2>6. Guarded(c) => c.on \in Skills
    BY DEF Ready
  <2> HIDE DEF e
  <2>7. Runs(Tail(q), c, e, h)
    BY <2>4, <2>5, <2>6, RunsMove
  <2> QED
    BY <1>3, <2>1, <2>7 DEF e
<1>4. CASE ~r.fails /\ ~Moves(op)
  <2>1. op.do \notin {"mkdir", "open", "fill"}
    BY <1>4 DEF Moves
  <2>2. Fair(r.then, c, e, h) /\ (op.do = "present" => r.then = <<>>)
    BY <1>4 DEF Right
  <2>3. ASSUME Guarded(c), Looks(op) \/ ~Held(d, c, h) PROVE ~Held(e, c, h)
    <3>1. ~Held(d, c, h)
      BY <1>4, <2>3 DEF Right
    <3>2. c.on \in Skills
      BY <2>3 DEF Ready
    <3>3. SkillMd(c.on) \in Paths /\ None.is # "text"
      BY <3>2, PathsAre DEF None
    <3>4. e = d \/ \E path : e = [d EXCEPT ![path] = None]
      BY <2>1 DEF Right, Effect
    <3> QED
      BY <1>1, <3>1, <3>3, <3>4 DEF IsByHand, Held
  <2> QED
    BY <1>4, <2>1, <2>2, <2>3, RunsAfter
<1> QED
  BY <1>2, <1>3, <1>4

\* What a step of a process that runs alone does, seen with the signatures that there are after it.
LEMMA TakeRight ==
    ASSUME HomeInv, TypeOK, AloneInv, alone, NEW p \in Procs, prog[p] # <<>>, NEW results, Take(p, results),
           NEW h, h = World',
           \A r \in results :
               /\ Ready(prog[p][1], cmd[p], disk, h)
               /\ h.at = head /\ Vouches(prog[p][1], disk, head, r) \subseteq h.vouched
               => Right(prog[p][1], cmd[p], disk, h, r)
    PROVE  \E r \in results :
             /\ disk' = r.disk
             /\ prog' = [prog EXCEPT ![p] = IF r.fails THEN AfterFailure(Tail(prog[p])) ELSE r.then \o Tail(prog[p])]
             /\ Ready(prog[p][1], cmd[p], disk, h) /\ Runs(prog[p], cmd[p], disk, h) /\ Shaped(prog[p])
             /\ Right(prog[p][1], cmd[p], disk, h, r)
<1> DEFINE q == prog[p]
           op == q[1]
           c == cmd[p]
<1>1. h.at = head /\ h.vouched = vouched'
  BY DEF World, Take
<1>2. Sound(disk, World) /\ Head(q) = op /\ GoodOp(op) /\ DiskOK(disk)
  <2>1. Sound(disk, World) /\ World.at = head /\ World.vouched = vouched
    BY DEF AloneInv, World
  <2>2. \A x \in World.vouched : x.text # NoHash
    BY <2>1 DEF Sound
  <2>3. Ready(op, c, disk, World) /\ Head(q) = op
    BY <2>1, <2>2, ReadyIs
  <2> HIDE DEF op, c, q
  <2> QED
    BY <2>1, <2>3 DEF Ready
<1>3. PICK r \in results :
        /\ disk' = r.disk
        /\ prog' = [prog EXCEPT ![p] = IF r.fails THEN AfterFailure(Tail(prog[p])) ELSE r.then \o Tail(prog[p])]
        /\ vouched' = vouched \cup Vouches(op, disk, head, r)
  BY <1>2 DEF Take
<1>4. Ready(op, c, disk, h) /\ Runs(q, c, disk, h) /\ Shaped(q)
  <2>1. \A x \in vouched : x.text # NoHash
    BY <1>2 DEF Sound, World
  <2>2. \A x \in Vouches(op, disk, head, r) : x.text # NoHash
    BY <1>2, VouchedIs
  <2>3. vouched \subseteq h.vouched /\ \A x \in h.vouched : x.text # NoHash
    BY <1>1, <1>3, <2>1, <2>2
  <2> QED
    BY <1>1, <2>3, ReadyIs
<1>5. Vouches(op, disk, head, r) \subseteq h.vouched
  BY <1>1, <1>3
<1>6. Right(op, c, disk, h, r)
  BY <1>1, <1>4, <1>5
<1> QED
  BY <1>3, <1>4, <1>6

\* A step of a process that runs alone.
LEMMA TakeAlone ==
    ASSUME HomeInv, TypeOK, AloneInv, NEW p \in Procs, prog[p] # <<>>, NEW results, Take(p, results),
           alone => \A h : \A r \in results :
                      /\ Ready(prog[p][1], cmd[p], disk, h)
                      /\ h.at = head /\ Vouches(prog[p][1], disk, head, r) \subseteq h.vouched
                      => Right(prog[p][1], cmd[p], disk, h, r)
    PROVE  AloneInv'
<1> DEFINE q == prog[p]
           op == q[1]
           c == cmd[p]
<1> SUFFICES ASSUME alone', NEW h, h = World'
             PROVE  Sound(disk', h) /\ \A o \in Procs : Runs(prog'[o], cmd'[o], disk', h)
  BY DEF AloneInv
<1>1. alone
  BY DEF Take
<1>3. PICK r \in results :
        /\ disk' = r.disk
        /\ prog' = [prog EXCEPT ![p] = IF r.fails THEN AfterFailure(Tail(prog[p])) ELSE r.then \o Tail(prog[p])]
        /\ Ready(op, c, disk, h) /\ Runs(q, c, disk, h) /\ Shaped(q) /\ Right(op, c, disk, h, r)
  BY <1>1, TakeRight
<1>4. cmd' = [cmd EXCEPT ![p] = IF prog'[p] = <<>> THEN NoCommand ELSE cmd[p]]
  BY DEF Take
<1>5. DOMAIN prog = Procs /\ DOMAIN cmd = Procs /\ \A o, s \in Busy : o = s
  BY <1>1 DEF HomeInv
<1>9. Sound(disk', h)
  <2>1. Sound(r.disk, h)
    <3> HIDE DEF op, c
    <3> QED
      BY <1>3, SoundStep DEF Right, Ready
  <2> QED
    BY <1>3, <2>1
<1>10. Runs(prog'[p], c, disk', h)
  <2> DEFINE z == IF r.fails THEN AfterFailure(Tail(q)) ELSE r.then \o Tail(q)
  <2>1. Runs(z, c, r.disk, h)
    BY <1>3, RunsNext
  <2>2. prog'[p] = z
    BY <1>3, <1>5
  <2> HIDE DEF z, c
  <2> QED
    BY <1>3, <2>1, <2>2
<1>11. ASSUME NEW o \in Procs PROVE Runs(prog'[o], cmd'[o], disk', h)
  <2>1. CASE o = p /\ prog'[p] = <<>>
    BY <2>1, RunsNone
  <2>2. CASE o = p /\ prog'[p] # <<>>
    BY <1>4, <1>5, <1>10, <2>2
  <2>3. CASE o # p
    <3>1. p \in Busy
      BY DEF Busy
    <3>2. prog[o] = <<>>
      BY <1>5, <2>3, <3>1 DEF Busy
    <3>3. prog'[o] = <<>>
      BY <1>3, <1>5, <2>3, <3>2
    <3> QED
      BY <3>3, RunsNone
  <2> QED
    BY <2>1, <2>2, <2>3
<1> QED
  BY <1>9, <1>11

-----------------------------------------------------------------------------
(* The programs of commands that start alone                                *)

\* A program that first looks for what it is going to make.
First(q, c, h) ==
    /\ IsSeq(q) /\ q # <<>> /\ q[1].do = "new"
    /\ \A i \in DOMAIN q : Belongs(q[i], c, h) /\ (Simple(q[i], c, h) \/ (i = 1 /\ q[1].do = "new"))

LEMMA FirstRuns ==
    ASSUME NEW q, NEW c, NEW d, NEW h, First(q, c, h)
    PROVE  Runs(q, c, d, h)
<1>1. 1 \in DOMAIN q
  BY RestOf DEF First
<1> QED
  BY <1>1 DEF First, Runs, Simple, Looks

LEMMA EasyRuns ==
    ASSUME NEW q, NEW c, NEW d, NEW h, Easy(q, c, h), ~Guarded(c)
    PROVE  Runs(q, c, d, h)
  BY DEF Easy, Runs, Simple

LEMMA FirstConcat ==
    ASSUME NEW a, NEW b, NEW c, NEW h, First(a, c, h), Easy(b, c, h)
    PROVE  First(a \o b, c, h)
<1> DEFINE q == a \o b
<1>1. /\ IsSeq(a) /\ IsSeq(b) /\ a # <<>> /\ a[1].do = "new"
      /\ \A i \in DOMAIN a : Belongs(a[i], c, h) /\ (Simple(a[i], c, h) \/ (i = 1 /\ a[1].do = "new"))
      /\ \A i \in DOMAIN b : Simple(b[i], c, h) /\ Belongs(b[i], c, h)
  BY DEF Easy, First, Simple
<1>2. 1 \in DOMAIN a
  BY <1>1, RestOf
<1>3. /\ IsSeq(q)
      /\ \A i \in DOMAIN a : i \in DOMAIN q /\ q[i] = a[i]
      /\ \A i \in DOMAIN q : i \notin DOMAIN a => i - Len(a) \in DOMAIN b /\ q[i] = b[i - Len(a)]
  <2>1. /\ DOMAIN a = 1..Len(a) /\ DOMAIN b = 1..Len(b) /\ Len(a) \in Nat /\ Len(b) \in Nat
        /\ IsSeq(q) /\ DOMAIN q = 1..(Len(a) + Len(b))
        /\ \A i \in DOMAIN a : i \in DOMAIN q /\ q[i] = a[i]
        /\ \A i \in DOMAIN b : Len(a) + i \in DOMAIN q /\ q[Len(a) + i] = b[i]
        /\ \A i \in DOMAIN q : i \notin DOMAIN a => i - Len(a) \in DOMAIN b /\ q[i] = b[i - Len(a)]
    BY <1>1, JoinedIs
  <2> QED
    BY <2>1
<1> HIDE DEF q
<1>4. 1 \in DOMAIN q /\ q[1] = a[1]
  BY <1>2, <1>3
<1>5. q # <<>>
  BY <1>4, NoneIs
<1>6. \A i \in DOMAIN q : Belongs(q[i], c, h) /\ (Simple(q[i], c, h) \/ (i = 1 /\ q[1].do = "new"))
  BY <1>1, <1>3, <1>4
<1> QED
  BY <1>1, <1>3, <1>4, <1>5, <1>6 DEF First, q

LEMMA NewFirst ==
    ASSUME NEW path, NEW c, NEW h, c.do \notin {"install-skills", "skill update"},
           c.do = "skill init" => path = SkillDir(c.on)
    PROVE  /\ First(<<Op("new", path, NoData)>>, c, h)
           /\ First(<<Op("new", path, NoData), Op("mkdir", path, NoData)>>, c, h)
<1> DEFINE a == Op("new", path, NoData)
           b == Op("mkdir", path, NoData)
<1>1. a.do = "new" /\ a.at = path /\ b.do = "mkdir"
  BY DEF Op
<1> HIDE DEF a, b
<1>2. Belongs(a, c, h) /\ Simple(b, c, h) /\ Belongs(b, c, h)
  BY <1>1 DEF Belongs, Simple, Removes, Fills, Carries
<1>3. First(<<a>>, c, h)
  <2>1. \A i \in DOMAIN <<a>> : i = 1 /\ <<a>>[i] = a
    BY OneIs
  <2> QED
    BY <1>1, <1>2, <2>1, OneIs DEF First
<1>4. First(<<a, b>>, c, h)
  <2>1. /\ IsSeq(<<a, b>>) /\ DOMAIN <<a, b>> = {1, 2} /\ <<a, b>>[1] = a /\ <<a, b>>[2] = b
        /\ <<a, b>> # <<>>
    BY TwoIs
  <2>2. ASSUME NEW i \in DOMAIN <<a, b>> PROVE (i = 1 /\ <<a, b>>[i] = a) \/ <<a, b>>[i] = b
    BY <2>1
  <2> QED
    BY <1>1, <1>2, <2>1, <2>2 DEF First
<1> QED
  BY <1>3, <1>4 DEF a, b

\* The programs of the commands on providers.
LEMMA AddFirst ==
    ASSUME NEW n, NEW args, NEW c, NEW d, NEW h, c.do \in ProviderCommands, c.do # "install-skills"
    PROVE  Runs(AddMcp(n, args), c, d, h) /\ Runs(AddCli(n, args), c, d, h)
<1> DEFINE new == <<Op("new", ManifestFile(n), NoData)>>
           W(handler) == Write(ManifestFile(n), Manifest(n, handler))
<1>1. First(new, c, h)
  <2>1. c.do # "skill update" /\ c.do # "skill init"
    BY DEF ProviderCommands
  <2> QED
    BY <2>1, NewFirst
<1>2. \A handler : Easy(W(handler), c, h)
  BY EasyElsewhere
<1>3. AddMcp(n, args) = new \o W("mcp") \/ AddMcp(n, args) = <<>>
  BY DEF AddMcp
<1>4. AddCli(n, args) = new \o W("cli") \/ AddCli(n, args) = <<>>
  BY DEF AddCli
<1> HIDE DEF new, W
<1>5. \A handler : Runs(new \o W(handler), c, d, h)
  BY <1>1, <1>2, FirstConcat, FirstRuns
<1> QED
  BY <1>3, <1>4, <1>5, RunsNone

LEMMA CacheEasy ==
    ASSUME NEW n, NEW c, NEW h, Recaches(c, n)
    PROVE  Easy(Write(CacheFile(n), CachedProvider(n, Ttl)), c, h)
<1> DEFINE a == Op("open", CacheFile(n), NoData)
           b == Op("fill", CacheFile(n), CachedProvider(n, Ttl))
<1>1. a.do = "open" /\ a.at = CacheFile(n) /\ b.at = CacheFile(n) /\ b.with = CachedProvider(n, Ttl)
  BY DEF Op
<1>2. CachedProvider(n, Ttl).left \in Int
  BY EntryIs
<1>3. Removes(a, c)
  BY <1>1, PathsApart DEF Removes
<1>4. Fills(b, h)
  BY <1>1, <1>2, PathsApart DEF Fills
<1> QED
  BY <1>3, <1>4, EasyWrite

LEMMA ProviderRuns ==
    ASSUME NEW c \in Commands, c.do \in ProviderCommands, NEW d, NEW h
    PROVE  Runs(ProviderProgram(c), c, d, h)
<1> DEFINE n == c.on
           fetch == <<Op("fetch", SpecFile(n), NoData)>>
           spec == Write(SpecFile(n), SpecText)
           Man == Write(ManifestFile(n), Manifest(n, "openapi"))
           W == Write(CacheFile(n), CachedProvider(n, Ttl))
<1>1. ~Guarded(c)
  BY DEF Guarded, ProviderCommands
<1>2. Easy(fetch, c, h)
  <2>1. Op("fetch", SpecFile(n), NoData).do = "fetch"
    BY DEF Op
  <2> QED
    BY <2>1, SimpleOps, EasyOne
<1>3. Easy(spec, c, h) /\ Easy(Man, c, h)
  BY EasyElsewhere
<1>4. c.do \in {"load mcp", "load openapi"} => Easy(W, c, h)
  <2>1. c.do \in {"load mcp", "load openapi"} => Recaches(c, n)
    BY DEF Recaches
  <2>2. Recaches(c, n) => Easy(W, c, h)
    BY CacheEasy
  <2> QED
    BY <2>1, <2>2
<1>5. CASE c.do \in {"add-mcp", "add-cli"}
  <2>1. ProviderProgram(c) \in {AddMcp(n, c.with), AddCli(n, c.with)}
    BY <1>5 DEF ProviderProgram
  <2> QED
    BY <1>5, <2>1, AddFirst
<1>6. CASE c.do \in {"import-openapi", "load openapi"}
  <2>1. \/ ProviderProgram(c) = fetch \o <<>>
        \/ ProviderProgram(c) = fetch \o (spec \o Man)
        \/ c.do = "load openapi" /\ ProviderProgram(c) = fetch \o W
    BY <1>6 DEF ProviderProgram, ImportOpenapi, LoadOpenapi
  <2> HIDE DEF fetch, spec, Man, W
  <2>2. Easy(ProviderProgram(c), c, h)
    BY <1>2, <1>3, <1>4, <2>1, EasyNone, EasyConcat
  <2> QED
    BY <1>1, <2>2, EasyRuns
<1>7. CASE c.do = "load mcp"
  <2>1. ProviderProgram(c) \in {<<>>, AddMcp(n, c.with), W}
    BY <1>7 DEF ProviderProgram, LoadMcp
  <2>2. Easy(W, c, h) /\ c.do # "install-skills"
    BY <1>4, <1>7
  <2> HIDE DEF W
  <2> QED
    BY <1>1, <2>1, <2>2, AddFirst, RunsNone, EasyRuns
<1>8. CASE c.do \in {"unload", "remove"}
  <2> DEFINE path == IF c.do = "unload" THEN CacheFile(n) ELSE ManifestFile(n)
             a == Op("present", path, NoData)
             b == Op("unlink", path, NoData)
  <2>1. ProviderProgram(c) = <<a, b>>
    BY <1>8 DEF ProviderProgram, Unload, RemoveProvider
  <2>2. a.do = "present" /\ b.do = "unlink" /\ b.at = path
    BY DEF Op
  <2>3. \A m \in Names : path = CacheFile(m) => c.do = "unload" /\ n = m
    BY <1>8, PathsApart
  <2>4. \A m \in Names : path = CacheFile(m) => Recaches(c, m)
    BY <2>3 DEF Recaches
  <2> HIDE DEF a, b, path
  <2>5. Simple(b, c, h)
    BY <2>2, <2>4 DEF Simple, Belongs, Removes, Fills, Carries
  <2>6. Easy(<<a, b>>, c, h)
    BY <2>2, <2>5, SimpleOps, EasyTwo
  <2> QED
    BY <1>1, <2>1, <2>6, EasyRuns
<1>9. CASE c.do = "list"
  <2>1. ProviderProgram(c) = Visits
    BY <1>9 DEF ProviderProgram, ListProviders
  <2> QED
    BY <1>1, <2>1, VisitsEasy, EasyRuns
<1>10. CASE c.do \in {"info", "install-skills"}
  <2> DEFINE then == IF c.do = "info" THEN <<>> ELSE <<Op("skills", n, NoData)>>
             op == Op("load", n, [then |-> then])
  <2>1. ProviderProgram(c) = <<op>>
    BY <1>10 DEF ProviderProgram, ProviderInfo, InstallProviderSkills
  <2>2. op.do = "load" /\ op.at = n /\ op.with.then = then
    BY DEF Op
  <2>3. \/ then = <<>>
        \/ c.do = "install-skills" /\ then = <<Op("skills", n, NoData)>>
    BY <1>10
  <2> HIDE DEF op, then
  <2>4. Simple(op, c, h)
    BY <2>2, <2>3 DEF Simple, Belongs, Removes, Fills, Carries
  <2>5. Easy(<<op>>, c, h)
    BY <2>2, <2>4, EasyOne
  <2> QED
    BY <1>1, <2>1, <2>5, EasyRuns
<1> QED
  BY <1>5, <1>6, <1>7, <1>8, <1>9, <1>10 DEF ProviderCommands

\* The programs of the commands on skills.
LEMMA CloneRuns ==
    ASSUME NEW c, NEW s, NEW url, NEW pin, NEW tail, NEW d, NEW h,
           NEW do \in {"clone", "copy"}, Changes(c, s), ~Guarded(c), c.do # "install-skills",
           tail = Finish(s, NoUrl, NoPin) \/ (do = "clone" /\ tail = Finish(s, url, pin))
    PROVE  Runs(<<Op(do, s, [url |-> url, pin |-> pin, tail |-> tail])>>, c, d, h)
<1> DEFINE op == Op(do, s, [url |-> url, pin |-> pin, tail |-> tail])
<1>1. /\ op.do = do /\ op.at = s /\ op.with.url = url /\ op.with.pin = pin
      /\ op.with.tail = tail
  BY DEF Op
<1> HIDE DEF op
<1>2. Ends(op, c)
  BY <1>1 DEF Ends
<1>3. Simple(op, c, h)
  BY <1>1, <1>2 DEF Simple, Belongs, Removes, Fills, Carries
<1>4. Easy(<<op>>, c, h)
  BY <1>1, <1>3, EasyOne
<1> QED
  BY <1>4, EasyRuns DEF op

LEMMA SkillRuns ==
    ASSUME NEW c \in Commands, c.do \in SkillCommands, NEW d, NEW h
    PROVE  Runs(SkillProgram(c), c, d, h)
<1> DEFINE s == c.on
<1>1. c.do # "skill diff" => Changes(c, s)
  BY DEF Changes
<1>2. CASE c.do = "skill install"
  <2>1. SkillProgram(c) = Install(s, c.with.url, c.with.pin)
    BY <1>2 DEF SkillProgram
  <2> QED
    BY <1>1, <1>2, <2>1, CloneRuns DEF Install, Guarded
<1>3. CASE c.do = "skill from git"
  <2>1. SkillProgram(c) = InstallFromGit(s, c.with.url)
    BY <1>3 DEF SkillProgram
  <2> QED
    BY <1>1, <1>3, <2>1, CloneRuns DEF InstallFromGit, Guarded
<1>4. CASE c.do = "skill copy"
  <2>1. SkillProgram(c) = InstallLocal(s, c.with.url)
    BY <1>4 DEF SkillProgram
  <2> QED
    BY <1>1, <1>4, <2>1, CloneRuns DEF InstallLocal, Guarded
<1>5. CASE c.do = "skill update"
  <2> DEFINE a == Op("present", SkillDir(s), NoData)
             b == Op("update", s, [force |-> c.with.force])
             q == <<a, b>>
  <2>1. SkillProgram(c) = q
    BY <1>5 DEF SkillProgram, Update
  <2>2. a.do = "present" /\ b.do = "update" /\ b.at = s /\ b.with.force = c.with.force
    BY DEF Op
  <2> HIDE DEF a, b
  <2>3. DOMAIN q = {1, 2} /\ q[1] = a /\ q[2] = b
    OBVIOUS
  <2> HIDE DEF q
  <2>4. Belongs(b, c, h) /\ Belongs(a, c, h)
    BY <1>1, <1>5, <2>2 DEF Belongs, Removes, Fills, Carries
  <2>5. \A j \in 1..(2 - 1) : j = 1
    OBVIOUS
  <2>6. ASSUME NEW i \in DOMAIN q
        PROVE  /\ Belongs(q[i], c, h) /\ q[i].do \notin {"clear", "new", "sign"}
               /\ q[i].do = "update" => \A j \in 1..(i - 1) : q[j].do = "present"
    <3>1. CASE i = 1
      BY <2>2, <2>3, <2>4, <3>1
    <3>2. CASE i = 2
      BY <2>2, <2>3, <2>4, <2>5, <3>2
    <3> QED
      BY <2>3, <3>1, <3>2
  <2>7. q[1].do # "fill" /\ \E i \in DOMAIN q : Looks(q[i])
    BY <2>2, <2>3 DEF Looks
  <2> QED
    BY <2>1, <2>6, <2>7 DEF Runs
<1>6. CASE c.do = "skill diff"
  <2> DEFINE a == Op("present", SkillMd(s), NoData)
             b == Op("fetch", SkillMd(s), NoData)
  <2>1. SkillProgram(c) = <<a, b>>
    BY <1>6 DEF SkillProgram, Diff
  <2>2. a.do = "present" /\ b.do = "fetch"
    BY DEF Op
  <2> HIDE DEF a, b
  <2>3. Easy(<<a, b>>, c, h)
    BY <2>2, SimpleOps, EasyTwo
  <2> QED
    BY <1>6, <2>1, <2>3, EasyRuns DEF Guarded
<1>7. CASE c.do = "skill remove"
  <2> DEFINE a == Op("present", SkillDir(s), NoData)
             b == Op("rmdir", s, NoData)
  <2>1. SkillProgram(c) = <<a, b>>
    BY <1>7 DEF SkillProgram, RemoveSkill
  <2>2. a.do = "present" /\ b.do = "rmdir" /\ b.at = s
    BY DEF Op
  <2> HIDE DEF a, b
  <2>3. Simple(b, c, h)
    BY <1>1, <1>7, <2>2 DEF Simple, Belongs, Removes, Fills, Carries
  <2>4. Easy(<<a, b>>, c, h)
    BY <2>2, <2>3, SimpleOps, EasyTwo
  <2> QED
    BY <1>7, <2>1, <2>4, EasyRuns DEF Guarded
<1>8. CASE c.do = "skill init"
  <2> DEFINE z == <<Op("new", SkillDir(s), NoData), Op("mkdir", SkillDir(s), NoData)>>
             w == Text("scaffold", 0)
             V == IF c.with.bindings THEN Write(SkillToml(s), Unsigned("")) ELSE <<>>
             a == Op("open", SkillMd(s), NoData)
             b == Op("fill", SkillMd(s), w)
             x == Op("open", SkillToml(s), NoData)
             y == Op("fill", SkillToml(s), Unsigned(""))
  <2>1. SkillProgram(c) = z \o Write(SkillMd(s), w) \o V
    BY <1>8 DEF SkillProgram, InitSkill
  <2>2. /\ a.do = "open" /\ a.at = SkillMd(s) /\ b.at = SkillMd(s) /\ b.with = w
        /\ x.do = "open" /\ x.at = SkillToml(s) /\ y.at = SkillToml(s) /\ y.with = Unsigned("")
    BY DEF Op
  <2>3. w.from = "scaffold" /\ w.is = "text"
    BY DEF Text
  <2>4. Published(Unsigned(""), h)
    BY DEF Published, Unsigned, Toml
  <2>5. "scaffold" # ByHand
    BY DEF ByHand
  <2>6. First(z, c, h)
    BY <1>8, NewFirst
  <2> HIDE DEF a, b, x, y, w, z
  <2>7. Removes(a, c) /\ Removes(x, c)
    BY <1>1, <1>8, <2>2, PathsApart DEF Removes
  <2>8. Fills(b, h)
    BY <2>2, <2>3, <2>5, PathsApart DEF Fills
  <2>9. Fills(y, h)
    BY <2>2, <2>4, PathsApart DEF Fills
  <2>10. Easy(Write(SkillMd(s), w), c, h)
    BY <2>7, <2>8, EasyWrite DEF a, b
  <2>11. Easy(V, c, h)
    BY <2>7, <2>9, EasyWrite, EasyNone DEF x, y
  <2> HIDE DEF V
  <2>12. First(z \o Write(SkillMd(s), w), c, h)
    BY <2>6, <2>10, FirstConcat
  <2>13. First((z \o Write(SkillMd(s), w)) \o V, c, h)
    BY <2>11, <2>12, FirstConcat
  <2> QED
    BY <2>1, <2>13, FirstRuns
<1> QED
  BY <1>2, <1>3, <1>4, <1>5, <1>6, <1>7, <1>8 DEF SkillCommands

\* Whatever is started.
LEMMA ProgramRuns ==
    ASSUME NEW c \in Commands, NEW id, NEW d, NEW h
    PROVE  Runs(ProgramOf(c, id), c, d, h)
<1>1. c.do \in ProviderCommands \cup SkillCommands \cup HomeCommands
  BY AtiHomeAssumption DEF AtiHomeAssumption, CommandOK
<1>2. CASE c.do \in SkillCommands
  BY <1>2, SkillRuns DEF ProgramOf
<1>3. CASE c.do \in HomeCommands
  <2>1. ProgramOf(c, id) = HomeProgram(c, id) /\ ~Guarded(c)
    BY <1>3 DEF ProgramOf, SkillCommands, HomeCommands, Guarded
  <2>2. \A path \in TopFiles \ {Credentials} : \A w : Easy(Write(path, w), c, h)
    BY EasyElsewhere
  <2>3. \A path \in {Config, PrivateKey, PublicKey} : path \in TopFiles \ {Credentials}
    BY DEF TopFiles, Config, PrivateKey, PublicKey, Credentials
  <2>4. ASSUME NEW op, op.do = "default" \/ ((op.do = "set key" \/ op.do = "remove key") /\ Rekeys(c))
        PROVE  Easy(<<op>>, c, h)
    BY <2>4, SimpleHomeOps, EasyOne
  <2> DEFINE A == Write(PrivateKey, Pem(id))
             B == Write(PublicKey, Pem(id))
             E == Write(Config, ConfigText("ES256", NoPair))
             H == Write(Config, ConfigText("HS256", id))
             D == <<Op("default", Config, NoData)>>
  <2>5. \/ HomeProgram(c, id) = A \o B \o E \/ HomeProgram(c, id) = H \/ HomeProgram(c, id) = D
        \/ Rekeys(c) /\ HomeProgram(c, id) = <<Op("set key", Credentials, c.on)>>
        \/ Rekeys(c) /\ HomeProgram(c, id) = <<Op("remove key", Credentials, c.on)>>
    <3>1. \A proxy, es256 : InitDirectory(proxy, es256, id) = IF proxy /\ es256 THEN A \o B \o E
                            ELSE IF proxy /\ ~es256 THEN H ELSE D
      BY DEF InitDirectory
    <3> HIDE DEF A, B, E, H, D
    <3>2. c.do = "init" => HomeProgram(c, id) = InitDirectory(c.with.proxy, c.with.es256, id)
      BY DEF HomeProgram
    <3>3. /\ c.do = "key set" => HomeProgram(c, id) = <<Op("set key", Credentials, c.on)>>
          /\ c.do = "key remove" => HomeProgram(c, id) = <<Op("remove key", Credentials, c.on)>>
      BY DEF HomeProgram, SetKey, RemoveKey
    <3> QED
      BY <1>3, <3>1, <3>2, <3>3 DEF HomeCommands, Rekeys
  <2>6. Easy(A, c, h) /\ Easy(B, c, h) /\ Easy(E, c, h) /\ Easy(H, c, h) /\ Easy(D, c, h)
    <3>1. Op("default", Config, NoData).do = "default"
      BY DEF Op
    <3>2. Easy(D, c, h)
      BY <2>4, <3>1
    <3> QED
      BY <2>2, <2>3, <3>2
  <2> HIDE DEF A, B, E, H, D
  <2>7. Easy(A \o B, c, h)
    BY <2>6, EasyConcat
  <2>8. Easy(A \o B \o E, c, h)
    BY <2>6, <2>7, EasyConcat
  <2>9. Rekeys(c) => /\ Easy(<<Op("set key", Credentials, c.on)>>, c, h)
                     /\ Easy(<<Op("remove key", Credentials, c.on)>>, c, h)
    <3>1. \A do : Op(do, Credentials, c.on).do = do
      BY DEF Op
    <3> QED
      BY <2>4, <3>1
  <2>10. Easy(HomeProgram(c, id), c, h)
    BY <2>5, <2>6, <2>8, <2>9
  <2> QED
    BY <2>1, <2>10, EasyRuns
<1>4. CASE c.do \in ProviderCommands
  BY <1>4, ProviderRuns DEF ProgramOf, SkillCommands, HomeCommands, ProviderCommands
<1> QED
  BY <1>1, <1>2, <1>3, <1>4

-----------------------------------------------------------------------------
(* The invariant of commands that run alone, from one state to the next     *)

LEMMA StepsAlone ==
    ASSUME HomeInv, TypeOK, AloneInv, NEW p \in Procs,
           FileStep(p) \/ SkillStep(p) \/ HomeStep(p)
    PROVE  AloneInv'
<1>1. CASE FileStep(p)
  <2>1. prog[p] # <<>> /\ Head(prog[p]).do \in FileOps /\ Take(p, FileResults(Head(prog[p]), disk))
    BY <1>1 DEF FileStep, Next1
  <2>2. Head(prog[p]) = prog[p][1]
    BY <2>1, StepIs
  <2>3. \A h : \A r \in FileResults(Head(prog[p]), disk) :
          /\ Ready(prog[p][1], cmd[p], disk, h)
          /\ h.at = head /\ Vouches(prog[p][1], disk, head, r) \subseteq h.vouched
          => Right(prog[p][1], cmd[p], disk, h, r)
    BY <2>1, <2>2, FileRight
  <2> QED
    BY <2>1, <2>3, TakeAlone
<1>2. CASE SkillStep(p)
  <2>1. prog[p] # <<>> /\ Head(prog[p]).do \in SkillOps /\ Take(p, SkillResults(Head(prog[p]), disk, head))
    BY <1>2 DEF SkillStep, Next1
  <2>2. Head(prog[p]) = prog[p][1]
    BY <2>1, StepIs
  <2>3. \A h : \A r \in SkillResults(Head(prog[p]), disk, head) :
          /\ Ready(prog[p][1], cmd[p], disk, h)
          /\ h.at = head /\ Vouches(prog[p][1], disk, head, r) \subseteq h.vouched
          => Right(prog[p][1], cmd[p], disk, h, r)
    BY <2>1, <2>2, SkillRight
  <2> QED
    BY <2>1, <2>3, TakeAlone
<1>3. CASE HomeStep(p)
  <2>1. prog[p] # <<>> /\ Head(prog[p]).do \in HomeOps /\ Take(p, HomeResults(Head(prog[p]), disk))
    BY <1>3 DEF HomeStep, Next1
  <2>2. Head(prog[p]) = prog[p][1]
    BY <2>1, StepIs
  <2>3. \A h : \A r \in HomeResults(Head(prog[p]), disk) :
          /\ Ready(prog[p][1], cmd[p], disk, h)
          /\ h.at = head /\ Vouches(prog[p][1], disk, head, r) \subseteq h.vouched
          => Right(prog[p][1], cmd[p], disk, h, r)
    BY <2>1, <2>2, HomeRight
  <2> QED
    BY <2>1, <2>3, TakeAlone
<1> QED
  BY <1>1, <1>2, <1>3

LEMMA StartAlone ==
    ASSUME HomeInv, AloneInv, NEW p \in Procs, NEW c \in Commands, Start(p, c)
    PROVE  AloneInv'
<1> SUFFICES ASSUME alone' PROVE Sound(disk', World') /\ \A o \in Procs : Runs(prog'[o], cmd'[o], disk', World')
  BY DEF AloneInv
<1> DEFINE Q == ProgramOf(c, starts + 1)
<1>1. /\ prog' = [prog EXCEPT ![p] = Q]
      /\ cmd' = [cmd EXCEPT ![p] = IF Q = <<>> THEN NoCommand ELSE c]
      /\ alone' = (alone /\ Busy = {}) /\ disk' = disk /\ World' = World
  BY DEF Start, World
<1>2. Runs(Q, c, disk, World)
  BY ProgramRuns
<1> HIDE DEF Q
<1>3. Sound(disk, World) /\ \A o \in Procs : Runs(prog[o], cmd[o], disk, World)
  BY <1>1 DEF AloneInv
<1>4. ASSUME NEW o \in Procs PROVE Runs(prog'[o], cmd'[o], disk', World')
  <2>1. CASE o # p
    BY <1>1, <1>3, <2>1 DEF HomeInv
  <2>2. CASE o = p /\ Q = <<>>
    BY <1>1, <2>2, RunsNone DEF HomeInv
  <2>3. CASE o = p /\ Q # <<>>
    BY <1>1, <1>2, <2>3 DEF HomeInv
  <2> QED
    BY <2>1, <2>2, <2>3
<1> QED
  BY <1>1, <1>3, <1>4

LEMMA KillAlone ==
    ASSUME HomeInv, AloneInv, NEW p \in Procs, Kill(p)
    PROVE  AloneInv'
<1>1. /\ prog' = [prog EXCEPT ![p] = <<>>] /\ cmd' = [cmd EXCEPT ![p] = NoCommand]
      /\ alone' = alone /\ disk' = disk /\ World' = World
  BY DEF Kill, World
<1>2. ASSUME alone, NEW o \in Procs PROVE Runs(prog'[o], cmd'[o], disk', World')
  <2>1. CASE o = p
    BY <1>1, <2>1, RunsNone DEF HomeInv
  <2>2. CASE o # p
    BY <1>1, <1>2, <2>2 DEF HomeInv, AloneInv
  <2> QED
    BY <2>1, <2>2
<1> QED
  BY <1>1, <1>2 DEF AloneInv

\* Time makes no entry of the cache live again, and touches nothing else.
LEMMA TickIs ==
    ASSUME HomeInv, Tick
    PROVE  /\ DOMAIN disk = Paths /\ DOMAIN disk' = Paths /\ UNCHANGED <<head, vouched, prog, cmd, alone>>
           /\ \A path \in Paths :
                \/ disk'[path] = disk[path]
                \/ /\ disk[path].is = "cached" /\ disk[path].left >= 0
                   /\ disk'[path].is = "cached" /\ disk'[path].left = disk[path].left - 1
<1>1. disk' = [path \in Paths |-> IF path \in Cached /\ disk[path].left >= 0
                                  THEN Older(disk[path]) ELSE disk[path]]
      /\ UNCHANGED <<head, vouched, prog, cmd, alone>>
  BY DEF Tick
<1>2. \A c : Older(c).is = "cached" /\ Older(c).left = c.left - 1
  BY DEF Older, CachedProvider
<1>3. \A path \in Paths :
        \/ disk'[path] = disk[path]
        \/ path \in Cached /\ disk[path].left >= 0 /\ disk'[path] = Older(disk[path])
  BY <1>1
<1> QED
  BY <1>1, <1>2, <1>3 DEF HomeInv, DiskOK, Cached

\* A program is indifferent to time.
LEMMA RunsOlder ==
    ASSUME NEW q, Shaped(q), NEW c, NEW d, NEW e, NEW h, Runs(q, c, d, h), Guarded(c) => c.on \in Skills,
           \A s \in Skills : d[SkillMd(s)].is # "cached",
           \A path \in Paths :
             \/ e[path] = d[path]
             \/ d[path].is = "cached" /\ Living(d[path]) /\ e[path].is = "cached"
    PROVE  Runs(q, c, e, h)
<1>1. \A i \in DOMAIN q : GoodOp(q[i])
  BY DEF Shaped
<1>2. ASSUME NEW i \in DOMAIN q
      PROVE  /\ Belongs(q[i], c, h)
             /\ q[i].do = "clear" => i = 1 /\ ~Living(e[q[i].at])
             /\ q[i].do = "new" => i = 1
             /\ q[i].do = "update" => \A j \in 1..(i - 1) : q[j].do = "present"
             /\ q[i].do = "sign" => Signs(q, i, e, h)
  <2>1. /\ Belongs(q[i], c, h)
        /\ q[i].do = "clear" => i = 1 /\ ~Living(d[q[i].at])
        /\ q[i].do = "new" => i = 1
        /\ q[i].do = "update" => \A j \in 1..(i - 1) : q[j].do = "present"
        /\ q[i].do = "sign" => Signs(q, i, d, h)
    BY DEF Runs
  <2>2. ASSUME q[i].do = "clear" PROVE ~Living(e[q[i].at])
    <3>1. q[i].at \in Paths
      BY <1>1, <2>2, PathsAre DEF GoodOp
    <3> QED
      BY <2>1, <2>2, <3>1
  <2>3. ASSUME q[i].do = "sign" PROVE Signs(q, i, e, h)
    <3>1. q[i].at \in Skills
      BY <1>1, <2>3 DEF GoodOp, PlainOp
    <3>2. SkillMd(q[i].at) \in Paths
      BY <3>1, PathsAre
    <3>3. e[SkillMd(q[i].at)] = d[SkillMd(q[i].at)]
      BY <3>1, <3>2
    <3> QED
      BY <2>1, <2>3, <3>3 DEF Signs
  <2> QED
    BY <2>1, <2>2, <2>3
<1>3. ASSUME q # <<>>, q[1].do = "fill" PROVE e[q[1].at] = Empty
  <2>1. 1 \in DOMAIN q
    BY <1>3, RestOf DEF Shaped
  <2>2. q[1].at \in Paths
    BY <1>1, <1>3, <2>1 DEF GoodOp
  <2>3. d[q[1].at] = Empty /\ Empty.is # "cached"
    BY <1>3 DEF Runs, Empty
  <2> QED
    BY <2>2, <2>3
<1>4. ASSUME q # <<>>, Guarded(c) PROVE (\E i \in DOMAIN q : Looks(q[i])) \/ ~Held(e, c, h)
  <2>1. (\E i \in DOMAIN q : Looks(q[i])) \/ ~Held(d, c, h)
    BY <1>4 DEF Runs
  <2>2. SkillMd(c.on) \in Paths
    BY <1>4, PathsAre
  <2>3. Held(e, c, h) => Held(d, c, h)
    <3>1. e[SkillMd(c.on)] = d[SkillMd(c.on)]
      BY <1>4, <2>2
    <3> QED
      BY <3>1 DEF Held, IsByHand
  <2> QED
    BY <2>1, <2>3
<1> QED
  BY <1>2, <1>3, <1>4 DEF Runs

LEMMA TickAlone ==
    ASSUME HomeInv, TypeOK, AloneInv, Tick
    PROVE  AloneInv'
<1> SUFFICES ASSUME alone' PROVE Sound(disk', World') /\ \A o \in Procs : Runs(prog'[o], cmd'[o], disk', World')
  BY DEF AloneInv
<1>1. /\ DOMAIN disk = Paths /\ DOMAIN disk' = Paths
      /\ World' = World /\ prog' = prog /\ cmd' = cmd /\ alone' = alone
      /\ \A path \in Paths :
           \/ disk'[path] = disk[path]
           \/ /\ disk[path].is = "cached" /\ disk[path].left >= 0
              /\ disk'[path].is = "cached" /\ disk'[path].left = disk[path].left - 1
  BY TickIs DEF World
<1>2. Sound(disk, World) /\ \A o \in Procs : Runs(prog[o], cmd[o], disk, World)
  BY <1>1 DEF AloneInv
<1>3. \A path \in Paths : /\ Exists(disk', path) <=> Exists(disk, path)
                          /\ disk[path].is # "cached" => disk'[path] = disk[path]
                          /\ disk[path].is = "cached" => disk'[path].is = "cached"
  BY <1>1 DEF Exists, None
<1>4. Sound(disk', World')
  <2>1. \A s \in Skills : \A f \in FilesOf(s) : Exists(disk', f) => Exists(disk', SkillDir(s))
    BY <1>2, <1>3, PathsAre DEF Sound
  <2>2. ASSUME NEW s \in Skills PROVE ReadToml(disk', s) = ReadToml(disk, s)
    <3>1. SkillToml(s) \in Paths
      BY PathsAre
    <3> QED
      BY <1>3, <3>1 DEF ReadToml
  <2>3. ASSUME NEW n \in Names, disk'[CacheFile(n)].is = "cached" PROVE disk'[CacheFile(n)].left \in Int
    <3>1. CacheFile(n) \in Paths
      BY PathsAre
    <3>2. disk[CacheFile(n)].is = "cached"
      BY <1>3, <2>3, <3>1
    <3>3. disk[CacheFile(n)].left \in Int
      BY <1>2, <3>2 DEF Sound
    <3> QED
      BY <1>1, <3>1, <3>3
  <2>4. ASSUME NEW s \in Skills PROVE disk'[SkillMd(s)].is # "cached"
    <3>1. SkillMd(s) \in Paths /\ disk[SkillMd(s)].is # "cached"
      BY <1>2, PathsAre DEF Sound
    <3> QED
      BY <1>3, <3>1
  <2> QED
    BY <1>1, <1>2, <2>1, <2>2, <2>3, <2>4 DEF Sound
<1>5. ASSUME NEW o \in Procs PROVE Runs(prog'[o], cmd'[o], disk', World')
  <2> DEFINE q == prog[o]
             c == cmd[o]
  <2>1. Shaped(q) /\ Runs(q, c, disk, World) /\ \A s \in Skills : disk[SkillMd(s)].is # "cached"
    BY <1>2 DEF HomeInv, Stands, Sound
  <2>2. Guarded(c) => c.on \in Skills
    BY GuardedIs
  <2>3. \A path \in Paths :
          \/ disk'[path] = disk[path]
          \/ disk[path].is = "cached" /\ Living(disk[path]) /\ disk'[path].is = "cached"
    BY <1>1 DEF Living
  <2> HIDE DEF q, c
  <2>4. Runs(q, c, disk', World)
    BY <2>1, <2>2, <2>3, RunsOlder
  <2> QED
    BY <1>1, <2>4 DEF q, c
<1> QED
  BY <1>4, <1>5

LEMMA EditAlone ==
    ASSUME HomeInv, AloneInv, NEW s \in Skills, Edit(s)
    PROVE  AloneInv'
<1> SUFFICES ASSUME alone' PROVE Sound(disk', World') /\ \A o \in Procs : Runs(prog'[o], cmd'[o], disk', World')
  BY DEF AloneInv
<1> DEFINE path == SkillMd(s)
           w == Text(ByHand, edits + 1)
<1>1. /\ Busy = {} /\ Exists(disk, SkillDir(s))
      /\ disk' = [disk EXCEPT ![path] = w]
      /\ World' = World /\ prog' = prog /\ cmd' = cmd /\ alone' = alone
  BY DEF Edit, World
<1>2. path \in Paths /\ path \in FilesOf(s) /\ DOMAIN disk = Paths /\ DiskOK(disk)
  BY PathsAre, SkillPaths DEF HomeInv, DiskOK
<1>3. /\ \A n \in Skills : path # SkillDir(n) /\ path # SkillToml(n)
      /\ \A n \in Names : path # CacheFile(n)
      /\ \A n \in Skills : path \in FilesOf(n) => n = s
  BY <1>2, SkillPaths, PathsApart
<1>12. w.is # "cached"
  BY DEF Text
<1> HIDE DEF path, w
<1>4. \A o \in Paths : o # path => disk'[o] = disk[o]
  BY <1>1, <1>2
<1>5. Sound(disk, World)
  BY <1>1 DEF AloneInv
<1>6. ASSUME NEW n \in Skills, NEW f \in FilesOf(n), Exists(disk', f) PROVE Exists(disk', SkillDir(n))
  <2>1. f \in Paths /\ SkillDir(n) \in Paths
    BY PathsAre
  <2>2. Exists(disk, SkillDir(n))
    <3>1. CASE f = path
      BY <1>1, <1>3, <3>1
    <3>2. CASE f # path
      BY <1>4, <1>5, <1>6, <2>1, <3>2 DEF Sound, Exists
    <3> QED
      BY <3>1, <3>2
  <2> QED
    BY <1>3, <1>4, <2>1, <2>2 DEF Exists
<1>7. \A n \in Skills : ReadToml(disk', n) = ReadToml(disk, n)
  <2>1. \A n \in Skills : disk'[SkillToml(n)] = disk[SkillToml(n)]
    BY <1>3, <1>4, PathsAre
  <2> QED
    BY <2>1 DEF ReadToml
<1>8. \A n \in Names : disk'[CacheFile(n)] = disk[CacheFile(n)]
  BY <1>3, <1>4, PathsAre
<1>11. \A n \in Skills : disk'[SkillMd(n)].is # "cached"
  <2>1. \A n \in Skills : SkillMd(n) \in Paths /\ disk[SkillMd(n)].is # "cached"
    BY <1>5, PathsAre DEF Sound
  <2> QED
    BY <1>1, <1>2, <1>4, <1>12, <2>1
<1>9. Sound(disk', World')
  BY <1>1, <1>5, <1>6, <1>7, <1>8, <1>11 DEF Sound
<1>10. \A o \in Procs : prog'[o] = <<>>
  BY <1>1 DEF Busy
<1> QED
  BY <1>9, <1>10, RunsNone

LEMMA PublishAlone ==
    ASSUME HomeInv, AloneInv, NEW u \in Urls, Publish(u)
    PROVE  AloneInv'
<1> SUFFICES ASSUME alone' PROVE Sound(disk', World') /\ \A o \in Procs : Runs(prog'[o], cmd'[o], disk', World')
  BY DEF AloneInv
<1>1. /\ Busy = {} /\ head' = [head EXCEPT ![u] = head[u] + 1]
      /\ disk' = disk /\ prog' = prog /\ alone' = alone /\ vouched' = vouched
  BY DEF Publish
<1>2. DOMAIN head = Urls /\ DiskOK(disk) /\ \A v \in Urls : head[v] \in Nat
  BY VersionsAre DEF HomeInv
<1>3. \A v \in Urls : 1..head[v] \subseteq 1..head'[v]
  BY <1>1, <1>2
<1>4. Sound(disk, World)
  BY <1>1 DEF AloneInv
<1>8. DOMAIN head' = Urls /\ World.at = head /\ World.vouched = vouched
      /\ World'.at = head' /\ World'.vouched = vouched
  BY <1>1, <1>2 DEF World
<1>5. ASSUME NEW s \in Skills PROVE Published(ReadToml(disk, s), World')
  <2> DEFINE t == ReadToml(disk, s)
  <2>1. TomlOK(t) /\ Published(t, World)
    BY <1>2, <1>4, ReadTomlOK DEF Sound
  <2>2. t.url # NoUrl => t.url \in Urls
    BY <2>1 DEF TomlOK, SourceOK
  <2> HIDE DEF t
  <2>3. t.url \in Urls /\ TextIsOf(t.hash, t.url, t.pin, head) => TextIsOf(t.hash, t.url, t.pin, head')
    BY <1>3 DEF TextIsOf
  <2>4. TomlIsShipped(t, head) => TomlIsShipped(t, head')
    BY <1>3 DEF TomlIsShipped
  <2>5. Published(t, World')
    BY <1>8, <2>1, <2>2, <2>3, <2>4 DEF Published, Backed
  <2> QED
    BY <2>5 DEF t
<1>6. Sound(disk', World')
  BY <1>1, <1>4, <1>5, <1>8 DEF Sound
<1>7. \A o \in Procs : prog'[o] = <<>>
  BY <1>1 DEF Busy
<1> QED
  BY <1>6, <1>7, RunsNone

LEMMA InitAlone == Init => AloneInv
<1> SUFFICES ASSUME Init PROVE AloneInv
  OBVIOUS
<1>1. \A path \in Paths : disk[path] = None
  BY DEF Init
<1>2. \A p \in Procs : prog[p] = <<>>
  BY DEF Init
<1>3. None.is # "toml" /\ None.is # "cached"
  BY DEF None
<1>4. \A s \in Skills : ReadToml(disk, s) = Unsigned("")
  BY <1>1, <1>3, PathsAre DEF ReadToml
<1>5. Published(Unsigned(""), World) /\ World.vouched = {}
  BY DEF Published, Unsigned, Toml, World, Init
<1>6. \A s \in Skills : \A f \in FilesOf(s) : ~Exists(disk, f)
  BY <1>1, PathsAre DEF Exists
<1>7. \A n \in Names : disk[CacheFile(n)].is # "cached"
  BY <1>1, <1>3, PathsAre
<1>9. \A s \in Skills : disk[SkillMd(s)].is # "cached"
  BY <1>1, <1>3, PathsAre
<1>8. Sound(disk, World)
  BY <1>4, <1>5, <1>6, <1>7, <1>9 DEF Sound
<1> QED
  BY <1>2, <1>8, RunsNone DEF AloneInv

LEMMA AloneNext ==
    ASSUME HomeInv, TypeOK, AloneInv, [Next]_vars
    PROVE  AloneInv'
<1>1. CASE \E p \in Procs, c \in Commands : Start(p, c)
  BY <1>1, StartAlone
<1>2. CASE \E p \in Procs : FileStep(p) \/ SkillStep(p) \/ HomeStep(p) \/ Kill(p)
  BY <1>2, StepsAlone, KillAlone
<1>3. CASE Tick
  BY <1>3, TickAlone
<1>4. CASE \E s \in Skills : Edit(s)
  BY <1>4, EditAlone
<1>5. CASE \E u \in Urls : Publish(u)
  BY <1>5, PublishAlone
<1>6. CASE UNCHANGED vars
  BY <1>6 DEF vars, AloneInv, World
<1> QED
  BY <1>1, <1>2, <1>3, <1>4, <1>5, <1>6 DEF Next

-----------------------------------------------------------------------------
(* The keys of a command that runs alone                                    *)

HasKey(d, k) == d[Credentials].is = "keys" /\ k \in d[Credentials].names
Drops(c, k) == c.do = "key remove" /\ c.on = k
\* What is going to be written holds every key but the one that is to go.
Retains(w, c, d) == \A k : HasKey(d, k) => k \in w.names \/ Drops(c, k)
KeyCall(q, c) == q = SetKey(c.on) \/ (c.do = "key remove" /\ q = RemoveKey(c.on))

\* What a command on the credentials has still to do.
Rewrites(q, c, d) == \E w : q = Write(Credentials, w) /\ Retains(w, c, d)
KeyShape(q, c, d) ==
    \/ q = <<>>
    \/ KeyCall(q, c)
    \/ Rewrites(q, c, d)
    \/ \E w : q = <<Op("fill", Credentials, w)>>
KeysInv == alone => \A p \in Procs : Rekeys(cmd[p]) => KeyShape(prog[p], cmd[p], disk)

LEMMA OneTail ==
    ASSUME NEW op
    PROVE  Tail(<<op>>) = <<>> /\ <<op>>[1] = op /\ <<op>> # <<>>
  OBVIOUS
LEMMA WriteIs ==
    ASSUME NEW path, NEW w
    PROVE  /\ Write(path, w) # <<>> /\ Write(path, w)[1] = Op("open", path, NoData)
           /\ Tail(Write(path, w)) = <<Op("fill", path, w)>> /\ IsSeq(Write(path, w))
<1>1. \A a, b : <<a, b>> # <<>> /\ <<a, b>>[1] = a /\ Tail(<<a, b>>) = <<b>> /\ IsSeq(<<a, b>>)
  <2>1. \A a, b : <<a, b>> # <<>> /\ <<a, b>>[1] = a /\ Tail(<<a, b>>) = <<b>>
    OBVIOUS
  <2> QED
    BY <2>1, TwoIs
<1> QED
  BY <1>1 DEF Write
LEMMA KeyCallIs ==
    ASSUME NEW q, NEW c, KeyCall(q, c)
    PROVE  /\ q # <<>> /\ Tail(q) = <<>> /\ q[1].with = c.on
           /\ q[1].do = "set key" \/ (q[1].do = "remove key" /\ c.do = "key remove")
<1>1. \A do : Op(do, Credentials, c.on).do = do /\ Op(do, Credentials, c.on).with = c.on
  BY DEF Op
<1>2. q = <<Op("set key", Credentials, c.on)>> \/ (c.do = "key remove" /\ q = <<Op("remove key", Credentials, c.on)>>)
  BY DEF KeyCall, SetKey, RemoveKey
<1>3. ASSUME NEW op, q = <<op>> PROVE q # <<>> /\ Tail(q) = <<>> /\ q[1] = op
  BY <1>3, OneTail
<1> QED
  BY <1>1, <1>2, <1>3

\* What is dropped after a failure leaves nothing behind.
LEMMA NothingCaught == AfterFailure(<<>>) = <<>>
  BY NoneIs DEF AfterFailure
LEMMA FillCaught ==
    ASSUME NEW w
    PROVE  AfterFailure(<<Op("fill", Credentials, w)>>) = <<>>
<1> DEFINE op == Op("fill", Credentials, w)
<1>1. op.do # "end"
  BY DEF Op
<1> HIDE DEF op
<1>2. \A i \in DOMAIN <<op>> : <<op>>[i] = op
  BY OneIs
<1>3. AfterFailure(<<op>>) = <<>>
  BY <1>1, <1>2 DEF AfterFailure
<1> QED
  BY <1>3 DEF op

\* The credentials that a command saves.
LEMMA HomeKeys ==
    ASSUME NEW q, NEW c, NEW d, KeyCall(q, c), NEW r \in HomeResults(q[1], d)
    PROVE  r.fails \/ Rewrites(r.then, c, r.disk)
<1> DEFINE op == q[1]
<1>0. op.with = c.on
  BY KeyCallIs
<1>1. op.do = "set key" \/ (op.do = "remove key" /\ c.do = "key remove")
  BY KeyCallIs
<1> HIDE DEF op
<1>2. \A k : HasKey(d, k) => k \in LoadCredentials(d)
  BY DEF HasKey, LoadCredentials, Exists, None
<1>3. Fails(d).fails /\ \A w : Go(d, w).then = w /\ Go(d, w).disk = d
  BY DEF Fails, Go
<1>4. \A names : Keys(names).names = names
  BY DEF Keys
<1>5. CASE op.do = "set key"
  <2> DEFINE w == Keys(LoadCredentials(d) \cup {op.with})
  <2>1. r = Fails(d) \/ r = Go(d, Write(Credentials, w))
    BY <1>5 DEF HomeResults, op
  <2>2. Retains(w, c, d)
    BY <1>2, <1>4 DEF Retains
  <2> HIDE DEF w
  <2> QED
    BY <1>3, <2>1, <2>2 DEF Rewrites
<1>6. CASE op.do = "remove key" /\ c.do = "key remove"
  <2> DEFINE w == Keys(LoadCredentials(d) \ {op.with})
  <2>1. r = Fails(d) \/ r = Go(d, Write(Credentials, w))
    BY <1>6 DEF HomeResults, op
  <2>2. Retains(w, c, d)
    <3>1. \A k : HasKey(d, k) => k \in w.names \/ k = c.on
      BY <1>0, <1>2, <1>4
    <3>2. Drops(c, c.on)
      BY <1>6 DEF Drops
    <3> QED
      BY <3>1, <3>2 DEF Retains
  <2> HIDE DEF w
  <2> QED
    BY <1>3, <2>1, <2>2 DEF Rewrites
<1> QED
  BY <1>1, <1>5, <1>6

\* A call leaves a command on the credentials with what it has still to do.
LEMMA ShapeNext ==
    ASSUME NEW q, NEW c, NEW d, NEW h, NEW r, q # <<>>, KeyShape(q, c, d), Right(q[1], c, d, h, r),
           KeyCall(q, c) => r.fails \/ Rewrites(r.then, c, r.disk)
    PROVE  KeyShape(IF r.fails THEN AfterFailure(Tail(q)) ELSE r.then \o Tail(q), c, r.disk)
<1> DEFINE z == IF r.fails THEN AfterFailure(Tail(q)) ELSE r.then \o Tail(q)
<1>1. ASSUME KeyCall(q, c) PROVE KeyShape(z, c, r.disk)
  <2>1. Tail(q) = <<>>
    BY <1>1, KeyCallIs
  <2>2. CASE r.fails
    <3>1. z = <<>>
      BY <2>1, <2>2, NothingCaught
    <3> QED
      BY <3>1 DEF KeyShape
  <2>3. CASE ~r.fails
    <3>1. PICK w : r.then = Write(Credentials, w) /\ Retains(w, c, r.disk)
      BY <1>1, <2>3 DEF Rewrites
    <3>2. \A a, b : <<a, b>> \o <<>> = <<a, b>>
      OBVIOUS
    <3>4. r.then \o <<>> = r.then
      BY <3>1, <3>2 DEF Write
    <3>3. z = r.then
      BY <2>1, <2>3, <3>4
    <3>5. Rewrites(z, c, r.disk)
      BY <2>3, <3>3, <1>1
    <3> QED
      BY <3>5 DEF KeyShape
  <2> QED
    BY <2>2, <2>3
<1>2. ASSUME NEW w, q = Write(Credentials, w) \/ q = <<Op("fill", Credentials, w)>>
      PROVE  KeyShape(z, c, r.disk)
  <2>1. \A do : Op(do, Credentials, NoData).do = do /\ Op(do, Credentials, w).do = do
    BY DEF Op
  <2>2. Moves(q[1]) /\ (Tail(q) = <<>> \/ Tail(q) = <<Op("fill", Credentials, w)>>)
    <3>1. CASE q = Write(Credentials, w)
      <4>1. q[1] = Op("open", Credentials, NoData) /\ Tail(q) = <<Op("fill", Credentials, w)>>
        BY <3>1, WriteIs
      <4> QED
        BY <2>1, <4>1 DEF Moves
    <3>2. CASE q = <<Op("fill", Credentials, w)>>
      <4>1. q[1] = Op("fill", Credentials, w) /\ Tail(q) = <<>>
        BY <3>2, OneTail
      <4> QED
        BY <2>1, <4>1 DEF Moves
    <3> QED
      BY <1>2, <3>1, <3>2
  <2>3. CASE r.fails
    <3>1. z = <<>>
      BY <2>2, <2>3, NothingCaught, FillCaught
    <3> QED
      BY <3>1 DEF KeyShape
  <2>4. CASE ~r.fails
    <3>1. r.then = <<>>
      BY <2>2, <2>4 DEF Right
    <3>2. z = <<>> \o Tail(q)
      BY <2>4, <3>1
    <3>3. <<>> \o <<>> = <<>> /\ \A op : <<>> \o <<op>> = <<op>>
      OBVIOUS
    <3>4. z = Tail(q)
      BY <2>2, <3>2, <3>3
    <3> HIDE DEF z
    <3> QED
      BY <2>2, <3>4 DEF KeyShape
  <2> QED
    BY <2>3, <2>4
<1> HIDE DEF z
<1>3. KeyCall(q, c) \/ \E w : q = Write(Credentials, w) \/ q = <<Op("fill", Credentials, w)>>
  BY DEF KeyShape, Rewrites
<1>4. KeyShape(z, c, r.disk)
  <2>1. CASE \E w : q = Write(Credentials, w) \/ q = <<Op("fill", Credentials, w)>>
    <3>1. PICK w : q = Write(Credentials, w) \/ q = <<Op("fill", Credentials, w)>>
      BY <2>1
    <3> QED
      BY <1>2, <3>1
  <2> QED
    BY <1>1, <1>3, <2>1
<1> QED
  BY <1>4 DEF z

LEMMA TakeKeys ==
    ASSUME HomeInv, TypeOK, AloneInv, KeysInv, NEW p \in Procs, prog[p] # <<>>, NEW results, Take(p, results),
           alone => \A h : \A r \in results :
                      /\ Ready(prog[p][1], cmd[p], disk, h)
                      /\ h.at = head /\ Vouches(prog[p][1], disk, head, r) \subseteq h.vouched
                      => Right(prog[p][1], cmd[p], disk, h, r),
           KeyCall(prog[p], cmd[p]) =>
               \A r \in results : r.fails \/ Rewrites(r.then, cmd[p], r.disk)
    PROVE  KeysInv'
<1> SUFFICES ASSUME alone', NEW o \in Procs, Rekeys(cmd'[o]), NEW h, h = World'
             PROVE  KeyShape(prog'[o], cmd'[o], disk')
  BY DEF KeysInv
<1> DEFINE q == prog[p]
           c == cmd[p]
<1>1. alone
  BY DEF Take
<1>2. PICK r \in results :
        /\ disk' = r.disk
        /\ prog' = [prog EXCEPT ![p] = IF r.fails THEN AfterFailure(Tail(prog[p])) ELSE r.then \o Tail(prog[p])]
        /\ Right(prog[p][1], cmd[p], disk, h, r)
  BY <1>1, TakeRight
<1>3. cmd' = [cmd EXCEPT ![p] = IF prog'[p] = <<>> THEN NoCommand ELSE cmd[p]]
  BY DEF Take
<1>4. DOMAIN prog = Procs /\ DOMAIN cmd = Procs /\ \A a, b \in Busy : a = b
  BY <1>1 DEF HomeInv
<1>5. CASE prog'[o] = <<>>
  BY <1>5 DEF KeyShape
<1>6. CASE o = p /\ prog'[o] # <<>>
  <2>1. cmd'[o] = c
    BY <1>3, <1>4, <1>6
  <2>2. Rekeys(c)
    BY <2>1
  <2>3. KeyShape(q, c, disk)
    BY <1>1, <2>2 DEF KeysInv
  <2>4. Right(q[1], c, disk, h, r) /\ (KeyCall(q, c) => r.fails \/ Rewrites(r.then, c, r.disk))
    BY <1>2
  <2> DEFINE z == IF r.fails THEN AfterFailure(Tail(q)) ELSE r.then \o Tail(q)
  <2>5. prog'[o] = z
    BY <1>2, <1>4, <1>6
  <2> HIDE DEF q, c
  <2>6. KeyShape(z, c, r.disk)
    BY <2>3, <2>4, ShapeNext DEF q
  <2> HIDE DEF z
  <2> QED
    BY <1>2, <2>1, <2>5, <2>6
<1>7. CASE o # p
  <2>1. p \in Busy
    BY DEF Busy
  <2>2. prog[o] = <<>>
    BY <1>4, <1>7, <2>1 DEF Busy
  <2>3. prog'[o] = <<>>
    BY <1>2, <1>4, <1>7, <2>2
  <2> QED
    BY <1>5, <2>3
<1> QED
  BY <1>5, <1>6, <1>7

LEMMA StepsKeys ==
    ASSUME HomeInv, TypeOK, AloneInv, KeysInv, NEW p \in Procs,
           FileStep(p) \/ SkillStep(p) \/ HomeStep(p)
    PROVE  KeysInv'
<1>0. ASSUME prog[p] # <<>>, KeyCall(prog[p], cmd[p])
      PROVE  Head(prog[p]).do \notin FileOps \cup SkillOps
  <2>1. Head(prog[p]) = prog[p][1]
    BY <1>0, StepIs
  <2> DEFINE do == prog[p][1].do
  <2>2. do = "set key" \/ do = "remove key"
    BY <1>0, KeyCallIs
  <2> HIDE DEF do
  <2>3. do \notin FileOps \cup SkillOps
    BY <2>2 DEF FileOps, SkillOps
  <2> QED
    BY <2>1, <2>3 DEF do
<1>1. CASE FileStep(p)
  <2>1. prog[p] # <<>> /\ Head(prog[p]).do \in FileOps /\ Take(p, FileResults(Head(prog[p]), disk))
    BY <1>1 DEF FileStep, Next1
  <2>2. Head(prog[p]) = prog[p][1]
    BY <2>1, StepIs
  <2>3. \A h : \A r \in FileResults(Head(prog[p]), disk) :
          /\ Ready(prog[p][1], cmd[p], disk, h)
          /\ h.at = head /\ Vouches(prog[p][1], disk, head, r) \subseteq h.vouched
          => Right(prog[p][1], cmd[p], disk, h, r)
    BY <2>1, <2>2, FileRight
  <2>4. ~KeyCall(prog[p], cmd[p])
    BY <1>0, <2>1
  <2> QED
    BY <2>1, <2>3, <2>4, TakeKeys
<1>2. CASE SkillStep(p)
  <2>1. prog[p] # <<>> /\ Head(prog[p]).do \in SkillOps /\ Take(p, SkillResults(Head(prog[p]), disk, head))
    BY <1>2 DEF SkillStep, Next1
  <2>2. Head(prog[p]) = prog[p][1]
    BY <2>1, StepIs
  <2>3. \A h : \A r \in SkillResults(Head(prog[p]), disk, head) :
          /\ Ready(prog[p][1], cmd[p], disk, h)
          /\ h.at = head /\ Vouches(prog[p][1], disk, head, r) \subseteq h.vouched
          => Right(prog[p][1], cmd[p], disk, h, r)
    BY <2>1, <2>2, SkillRight
  <2>4. ~KeyCall(prog[p], cmd[p])
    BY <1>0, <2>1
  <2> QED
    BY <2>1, <2>3, <2>4, TakeKeys
<1>3. CASE HomeStep(p)
  <2>1. prog[p] # <<>> /\ Head(prog[p]).do \in HomeOps /\ Take(p, HomeResults(Head(prog[p]), disk))
    BY <1>3 DEF HomeStep, Next1
  <2>2. Head(prog[p]) = prog[p][1]
    BY <2>1, StepIs
  <2>3. \A h : \A r \in HomeResults(Head(prog[p]), disk) :
          /\ Ready(prog[p][1], cmd[p], disk, h)
          /\ h.at = head /\ Vouches(prog[p][1], disk, head, r) \subseteq h.vouched
          => Right(prog[p][1], cmd[p], disk, h, r)
    BY <2>1, <2>2, HomeRight
  <2>4. KeyCall(prog[p], cmd[p]) =>
          \A r \in HomeResults(Head(prog[p]), disk) : r.fails \/ Rewrites(r.then, cmd[p], r.disk)
    BY <2>2, HomeKeys
  <2> QED
    BY <2>1, <2>3, <2>4, TakeKeys
<1> QED
  BY <1>1, <1>2, <1>3

LEMMA StartKeys ==
    ASSUME HomeInv, KeysInv, NEW p \in Procs, NEW c \in Commands, Start(p, c)
    PROVE  KeysInv'
<1> SUFFICES ASSUME alone', NEW o \in Procs, Rekeys(cmd'[o]) PROVE KeyShape(prog'[o], cmd'[o], disk')
  BY DEF KeysInv
<1> DEFINE Q == ProgramOf(c, starts + 1)
<1>1. /\ prog' = [prog EXCEPT ![p] = Q]
      /\ cmd' = [cmd EXCEPT ![p] = IF Q = <<>> THEN NoCommand ELSE c]
      /\ alone' = (alone /\ Busy = {}) /\ disk' = disk
  BY DEF Start
<1>2. ASSUME Rekeys(c) PROVE KeyCall(Q, c)
  <2>1. Q = HomeProgram(c, starts + 1)
    BY <1>2 DEF Rekeys, ProgramOf, SkillCommands, HomeCommands
  <2> HIDE DEF Q
  <2> QED
    BY <1>2, <2>1 DEF Rekeys, HomeProgram, KeyCall
<1> HIDE DEF Q
<1>3. DOMAIN prog = Procs /\ DOMAIN cmd = Procs
  BY DEF HomeInv
<1>4. CASE o # p
  <2>1. prog'[o] = prog[o] /\ cmd'[o] = cmd[o]
    BY <1>1, <1>3, <1>4
  <2> QED
    BY <1>1, <2>1 DEF KeysInv
<1>5. CASE o = p /\ Q = <<>>
  BY <1>1, <1>3, <1>5 DEF KeyShape
<1>6. CASE o = p /\ Q # <<>>
  <2>1. prog'[o] = Q /\ cmd'[o] = c
    BY <1>1, <1>3, <1>6
  <2> QED
    BY <1>2, <2>1 DEF KeyShape
<1> QED
  BY <1>4, <1>5, <1>6

LEMMA KillKeys ==
    ASSUME HomeInv, KeysInv, NEW p \in Procs, Kill(p)
    PROVE  KeysInv'
<1> SUFFICES ASSUME alone', NEW o \in Procs, Rekeys(cmd'[o]) PROVE KeyShape(prog'[o], cmd'[o], disk')
  BY DEF KeysInv
<1>1. /\ prog' = [prog EXCEPT ![p] = <<>>] /\ cmd' = [cmd EXCEPT ![p] = NoCommand]
      /\ alone' = alone /\ disk' = disk /\ DOMAIN prog = Procs /\ DOMAIN cmd = Procs
  BY DEF Kill, HomeInv
<1>2. CASE o = p
  BY <1>1, <1>2 DEF KeyShape
<1>3. CASE o # p
  <2>1. prog'[o] = prog[o] /\ cmd'[o] = cmd[o]
    BY <1>1, <1>3
  <2> QED
    BY <1>1, <2>1 DEF KeysInv
<1> QED
  BY <1>2, <1>3

\* Nothing else touches the credentials.
LEMMA ElseKeys ==
    ASSUME HomeInv, KeysInv, UNCHANGED <<prog, cmd, alone>>,
           \A o \in Procs : prog[o] # <<>> =>
               (disk'[Credentials] = disk[Credentials] \/ disk'[Credentials].is # "keys")
    PROVE  KeysInv'
<1> SUFFICES ASSUME alone', NEW o \in Procs, Rekeys(cmd'[o]) PROVE KeyShape(prog'[o], cmd'[o], disk')
  BY DEF KeysInv
<1>1. KeyShape(prog[o], cmd[o], disk) /\ prog' = prog /\ cmd' = cmd
  BY DEF KeysInv
<1>2. CASE prog[o] = <<>>
  BY <1>1, <1>2 DEF KeyShape
<1>3. CASE prog[o] # <<>>
  <2>1. \A k : HasKey(disk', k) => HasKey(disk, k)
    BY <1>3 DEF HasKey
  <2>2. \A w, c : Retains(w, c, disk) => Retains(w, c, disk')
    BY <2>1 DEF Retains
  <2> QED
    BY <1>1, <2>2 DEF KeyShape, Rewrites
<1> QED
  BY <1>2, <1>3

LEMMA InitKeys == Init => KeysInv
  BY DEF Init, KeysInv, KeyShape

LEMMA KeysNext ==
    ASSUME HomeInv, TypeOK, AloneInv, KeysInv, [Next]_vars
    PROVE  KeysInv'
<1>1. CASE \E p \in Procs, c \in Commands : Start(p, c)
  BY <1>1, StartKeys
<1>2. CASE \E p \in Procs : FileStep(p) \/ SkillStep(p) \/ HomeStep(p) \/ Kill(p)
  BY <1>2, StepsKeys, KillKeys
<1>3. CASE Tick
  <2>1. Credentials \in Paths
    BY PathsAre
  <2>2. UNCHANGED <<prog, cmd, alone>> /\ (disk'[Credentials] = disk[Credentials] \/ disk'[Credentials].is = "cached")
    BY <1>3, <2>1, TickIs
  <2> QED
    BY <2>2, ElseKeys
<1>4. CASE \E s \in Skills : Edit(s)
  <2>1. UNCHANGED <<prog, cmd, alone>> /\ Busy = {}
    BY <1>4 DEF Edit
  <2>2. \A o \in Procs : prog[o] = <<>>
    BY <2>1 DEF Busy
  <2> QED
    BY <2>1, <2>2, ElseKeys
<1>5. CASE \E u \in Urls : Publish(u)
  BY <1>5, ElseKeys DEF Publish
<1>6. CASE UNCHANGED vars
  BY <1>6, ElseKeys DEF vars
<1> QED
  BY <1>1, <1>2, <1>3, <1>4, <1>5, <1>6 DEF Next

-----------------------------------------------------------------------------
(* What a step of a command that runs alone leaves as it was                *)
Unlost ==
    alone' => /\ \A n \in Names : CachedKept(n)
              /\ \A s \in Skills : EditKept(s)
              /\ \A k \in KeyNames : KeyKept(k)

\* A guarded command that is past its look finds no edit.
LEMMA PastTheLook ==
    ASSUME NEW q, Shaped(q), q # <<>>, NEW c, NEW d, NEW h, Runs(q, c, d, h), Guarded(c),
           q[1].do \notin {"new", "update", "present"}
    PROVE  ~Held(d, c, h)
<1>1. \A i \in DOMAIN q : i \in Nat \ {0}
  BY DEF Shaped, IsSeq
<1>2. ASSUME NEW i \in DOMAIN q, Looks(q[i]) PROVE FALSE
  <2>1. /\ q[i].do = "new" => i = 1
        /\ q[i].do = "update" => \A j \in 1..(i - 1) : q[j].do = "present"
    BY DEF Runs
  <2>2. CASE q[i].do = "new"
    BY <2>1, <2>2
  <2>3. CASE q[i].do = "update"
    <3>1. i # 1
      BY <2>3
    <3>2. 1 \in 1..(i - 1)
      BY <1>1, <3>1
    <3> QED
      BY <2>1, <2>3, <3>2
  <2> QED
    BY <1>2, <2>2, <2>3 DEF Looks
<1> QED
  BY <1>2 DEF Runs

\* Who changes a skill was asked to, unless it is guarded.
LEMMA ChangesAsked ==
    ASSUME NEW p \in Busy, NEW s \in Skills, Changes(cmd[p], s)
    PROVE  \/ Guarded(cmd[p]) /\ cmd[p].on = s
           \/ Asked({"skill install", "skill from git", "skill copy", "skill remove"}, s)
           \/ \E o \in Busy : cmd[o].do = "install-skills"
           \/ \E o \in Busy : cmd[o].do = "skill update" /\ cmd[o].with.force
  BY DEF Changes, SkillCommands, Guarded, Asked

\* Nothing is lost if the disk is as it was, and so is the truncated file that is to get its keys.
LEMMA SameKeyKept ==
    ASSUME NEW k, HasKey(disk, k) => HasKey(disk', k),
           \A p \in Procs : Writes(p, Credentials) => prog'[p] = prog[p]
    PROVE  KeyKept(k)
  BY DEF KeyKept, Keeps, Writes, HasKey
LEMMA SameDiskUnlost ==
    ASSUME disk' = disk, \A p \in Procs : Writes(p, Credentials) => prog'[p] = prog[p]
    PROVE  Unlost
<1>1. \A k : KeyKept(k)
  BY SameKeyKept
<1> QED
  BY <1>1 DEF Unlost, CachedKept, EditKept

LEMMA StartUnlost ==
    ASSUME HomeInv, NEW p \in Procs, NEW c \in Commands, Start(p, c)
    PROVE  Unlost
<1>1. disk' = disk /\ prog[p] = <<>> /\ \A o \in Procs : o # p => prog'[o] = prog[o]
  BY DEF Start, HomeInv
<1>2. ~Writes(p, Credentials)
  BY <1>1 DEF Writes
<1> QED
  BY <1>1, <1>2, SameDiskUnlost

\* A kill between the truncation and the write loses the keys, and nothing else does.
LEMMA KillUnlost ==
    ASSUME HomeInv, NEW p \in Procs, Kill(p)
    PROVE  Unlost
<1>1. disk' = disk /\ prog'[p] = <<>> /\ \A o \in Procs : o # p => prog'[o] = prog[o]
  BY DEF Kill, HomeInv
<1>2. CASE Writes(p, Credentials)
  <2>1. KilledInWrite(Credentials)
    BY <1>1, <1>2 DEF KilledInWrite
  <2> QED
    BY <1>1, <2>1 DEF Unlost, CachedKept, EditKept, KeyKept
<1>3. CASE ~Writes(p, Credentials)
  BY <1>1, <1>3, SameDiskUnlost
<1> QED
  BY <1>2, <1>3

\* Only a command that is going to write the credentials again opens them.
LEMMA OpensToRewrite ==
    ASSUME NEW q, NEW c, NEW d, q # <<>>, q[1].do = "open", KeyShape(q, c, d)
    PROVE  Rewrites(q, c, d)
<1>1. ~KeyCall(q, c)
  BY KeyCallIs
<1>2. ASSUME NEW w, q = <<Op("fill", Credentials, w)>> PROVE FALSE
  <2>1. q[1] = Op("fill", Credentials, w)
    BY <1>2, OneTail
  <2> QED
    BY <2>1 DEF Op
<1> QED
  BY <1>1, <1>2 DEF KeyShape
LEMMA FillIs ==
    ASSUME NEW path, NEW w
    PROVE  /\ <<Op("fill", path, w)>> # <<>> /\ Head(<<Op("fill", path, w)>>).do = "fill"
           /\ Head(<<Op("fill", path, w)>>).at = path /\ Head(<<Op("fill", path, w)>>).with = w
<1>1. \A op : <<op>> # <<>> /\ Head(<<op>>) = op
  OBVIOUS
<1> QED
  BY <1>1 DEF Op

LEMMA EffectKeeps ==
    ASSUME HomeInv, TypeOK, AloneInv, alone, NEW p \in Procs, prog[p] # <<>>,
           Effect(prog[p][1], disk, disk'), KeysInv,
           prog[p][1].do = "open" /\ disk' # disk => prog'[p] = Tail(prog[p]),
           prog[p][1].do = "fill" => disk'[prog[p][1].at] = prog[p][1].with
    PROVE  Unlost
<1> DEFINE q == prog[p]
           op == q[1]
           c == cmd[p]
<1>0. World.at = head /\ World.vouched = vouched /\ \A x \in World.vouched : x.text # NoHash
  BY DEF World, AloneInv, Sound
<1>1. /\ Ready(op, c, disk, World) /\ Runs(q, c, disk, World) /\ Shaped(q) /\ p \in Busy /\ Head(q) = op
  BY <1>0, ReadyIs DEF Busy
<1>2. GoodOp(op) /\ Removes(op, c) /\ DOMAIN disk = Paths
  BY <1>1 DEF Ready, Belongs, DiskOK
<1>3. disk' = disk \/ \E path, w : At(path, w, op, disk, disk')
  BY <1>2, EffectAt
<1>6. q # <<>>
  OBVIOUS
<1>7. ASSUME NEW k \in KeyNames, HasKey(disk, k) => HasKey(disk', k) PROVE KeyKept(k)
  <2>1. CASE \E o \in Procs : Writes(o, Credentials)
    <3>1. PICK o \in Procs : Writes(o, Credentials)
      BY <2>1
    <3>2. \A o2 \in Procs : Writes(o2, Credentials) => o2 = p
      BY <1>1 DEF Writes, Busy, HomeInv
    <3>3. op.do = "fill" /\ op.at = Credentials
      BY <1>1, <3>1, <3>2 DEF Writes
    <3>4. disk'[Credentials] = op.with /\ op.with.is = "keys"
      BY <1>2, <3>3 DEF GoodOp, TextFor
    <3>5. (\E o2 \in Procs : Writes(o2, Credentials) /\ k \in Head(prog[o2]).with.names) => k \in op.with.names
      BY <1>1, <3>2
    <3> HIDE DEF op, c, q
    <3> QED
      BY <1>7, <3>4, <3>5 DEF KeyKept, Keeps, HasKey
  <2>2. CASE ~\E o \in Procs : Writes(o, Credentials)
    BY <1>7, <2>2, SameKeyKept
  <2> QED
    BY <2>1, <2>2
<1>4. CASE disk' = disk
  BY <1>4, <1>7 DEF Unlost, CachedKept, EditKept
<1>5. ASSUME NEW path, NEW w, At(path, w, op, disk, disk') PROVE Unlost
  <2>1. /\ path \in Paths /\ \A o \in Paths : o # path => disk'[o] = disk[o]
        /\ disk'[path] = w
    BY <1>2, <1>5 DEF At
  <2>2. ASSUME NEW n \in Names PROVE CachedKept(n)
    <3>1. CacheFile(n) \in Paths
      BY PathsAre
    <3>2. CASE path # CacheFile(n)
      BY <2>1, <3>1, <3>2 DEF CachedKept
    <3>3. CASE path = CacheFile(n)
      <4>1. CASE op.do \in {"mkdir", "rmdir"}
        BY <1>5, <3>3, <4>1, SkillPaths DEF At
      <4>2. CASE op.do \in {"open", "unlink"}
        <5>1. op.at = CacheFile(n)
          BY <1>5, <3>3, <4>2 DEF At
        <5>2. c.do \in {"unload", "load mcp", "load openapi"} /\ c.on = n
          BY <1>2, <4>2, <5>1 DEF Removes, Recaches
        <5> QED
          BY <1>1, <5>2 DEF CachedKept, Asked
      <4>3. CASE op.do = "fill"
        <5>1. disk[CacheFile(n)].is # "cached"
          BY <1>5, <3>3, <4>3 DEF At, Empty
        <5> QED
          BY <5>1 DEF CachedKept
      <4>4. CASE op.do = "clear"
        <5>1. ~Living(disk[CacheFile(n)])
          BY <1>1, <1>5, <3>3, <4>4 DEF At, Ready
        <5> QED
          BY <5>1 DEF CachedKept, Living
      <4> QED
        BY <1>5, <4>1, <4>2, <4>3, <4>4 DEF At
    <3> QED
      BY <3>2, <3>3
  <2>3. ASSUME NEW s \in Skills PROVE EditKept(s)
    <3>1. SkillMd(s) \in Paths
      BY PathsAre
    <3>2. CASE path # SkillMd(s)
      BY <2>1, <3>1, <3>2 DEF EditKept
    <3>3. CASE path = SkillMd(s)
      <4>1. CASE op.do = "mkdir" \/ path = SkillDir(op.at)
        BY <1>5, <3>3, <4>1, SkillPaths DEF At
      <4>2. CASE op.do = "fill"
        <5>1. disk[SkillMd(s)].is # "text"
          BY <1>5, <3>3, <4>2 DEF At, Empty
        <5> QED
          BY <5>1 DEF EditKept
      <4>3. CASE op.do \in {"unlink", "clear"}
        BY <1>5, <3>3, <4>3, SkillPaths DEF At
      <4>4. CASE op.do = "open" \/ (op.do = "rmdir" /\ path \in FilesOf(op.at))
        <5>1. Changes(c, s)
          <6>1. CASE op.do = "open"
            BY <1>2, <1>5, <3>3, <6>1 DEF At, Removes
          <6>2. CASE op.do = "rmdir" /\ path \in FilesOf(op.at)
            <7>1. op.at = s
              BY <3>3, <6>2, SkillPaths
            <7> QED
              BY <1>2, <6>2, <7>1 DEF Removes
          <6> QED
            BY <4>4, <6>1, <6>2
        <5>2. CASE Guarded(c) /\ c.on = s
          <6>1. ~Held(disk, c, World)
            BY <1>1, <4>4, <5>2, PastTheLook
          <6>2. CASE ~IsByHand(disk, s)
            BY <6>2 DEF EditKept, IsByHand
          <6>3. CASE c.do = "skill update" /\ \E x \in vouched : x.text = disk[SkillMd(s)]
            <7>1. Asked({"skill update"}, s)
              BY <1>1, <5>2, <6>3 DEF Asked
            <7> QED
              BY <6>3, <7>1 DEF EditKept
          <6> QED
            BY <1>0, <5>2, <6>1, <6>2, <6>3 DEF Held
        <5> QED
          BY <1>1, <5>1, <5>2, ChangesAsked DEF EditKept
      <4> QED
        BY <1>5, <4>1, <4>2, <4>3, <4>4 DEF At
    <3> QED
      BY <3>2, <3>3
  <2>4. ASSUME NEW k \in KeyNames PROVE KeyKept(k)
    <3>1. Credentials \in Paths
      BY PathsAre DEF Paths, TopFiles
    <3>2. CASE path # Credentials
      BY <1>7, <2>1, <3>1, <3>2 DEF HasKey
    <3>3. CASE path = Credentials
      <4>1. CASE op.do = "fill"
        <5>1. disk[Credentials].is # "keys"
          BY <1>5, <3>3, <4>1 DEF At, Empty
        <5> QED
          BY <1>7, <5>1 DEF HasKey
      <4>2. CASE op.do = "open"
        <5>1. w = Empty /\ op.at = Credentials
          BY <1>5, <3>3, <4>2 DEF At
        <5>2. Rekeys(c)
          BY <1>2, <4>2, <5>1 DEF Removes
        <5>3. KeyShape(q, c, disk)
          BY <5>2 DEF KeysInv
        <5> HIDE DEF op, c, q
        <5>4. CASE disk' # disk
          <6>1. PICK v : q = Write(Credentials, v) /\ Retains(v, c, disk)
            BY <1>6, <4>2, <5>3, OpensToRewrite DEF op, Rewrites
          <6>2. prog'[p] = <<Op("fill", Credentials, v)>>
            BY <4>2, <5>4, <6>1, WriteIs DEF op, q
          <6>3. /\ prog'[p] # <<>> /\ Head(prog'[p]).do = "fill"
                /\ Head(prog'[p]).at = Credentials /\ Head(prog'[p]).with = v
            BY <6>2, FillIs
          <6>4. CASE Drops(c, k)
            BY <1>1, <6>4 DEF KeyKept, Asked, Drops, c
          <6>5. CASE ~Drops(c, k)
            <7>1. HasKey(disk, k) => k \in v.names
              BY <6>1, <6>5 DEF Retains
            <7>2. \A o \in Procs : ~Writes(o, Credentials)
              BY <1>1, <4>2 DEF Writes, Busy, HomeInv, op, q
            <7>3. Keeps(k) => HasKey(disk, k)
              BY <7>2 DEF Keeps, HasKey
            <7>4. k \in v.names => Keeps(k)'
              BY <6>3 DEF Keeps, Writes
            <7> QED
              BY <7>1, <7>3, <7>4 DEF KeyKept
          <6> QED
            BY <6>4, <6>5
        <5>5. CASE disk' = disk
          BY <1>7, <5>5
        <5> QED
          BY <5>4, <5>5
      <4>3. /\ \A s : Credentials \notin FilesOf(s) /\ Credentials # SkillDir(s)
            /\ \A n : Credentials # ManifestFile(n) /\ Credentials # CacheFile(n)
        BY DEF Credentials, FilesOf, SkillMd, SkillToml, BundledProvider, SkillDir, ManifestFile, CacheFile
      <4> QED
        BY <1>5, <3>3, <4>1, <4>2, <4>3 DEF At
    <3> QED
      BY <3>2, <3>3
  <2> QED
    BY <2>2, <2>3, <2>4 DEF Unlost
<1> QED
  BY <1>3, <1>4, <1>5

LEMMA TakeUnlost ==
    ASSUME HomeInv, TypeOK, AloneInv, KeysInv, NEW p \in Procs, prog[p] # <<>>, NEW results, Take(p, results),
           alone => \A h : \A r \in results :
                      /\ Ready(prog[p][1], cmd[p], disk, h)
                      /\ h.at = head /\ Vouches(prog[p][1], disk, head, r) \subseteq h.vouched
                      => Right(prog[p][1], cmd[p], disk, h, r),
           prog[p][1].do = "fill" => \A r \in results : ~r.fails
    PROVE  Unlost
<1>1. alone' = alone
  BY DEF Take
<1>2. ASSUME alone, NEW h, h = World' PROVE Unlost
  <2>1. PICK r \in results :
          /\ disk' = r.disk
          /\ prog' = [prog EXCEPT ![p] = IF r.fails THEN AfterFailure(Tail(prog[p])) ELSE r.then \o Tail(prog[p])]
          /\ Right(prog[p][1], cmd[p], disk, h, r)
    BY <1>2, TakeRight
  <2>2. Right(prog[p][1], cmd[p], disk, h, r)
    BY <2>1
  <2>5. ASSUME prog[p][1].do = "fill" PROVE disk'[prog[p][1].at] = prog[p][1].with
    <3>1. r.disk = [disk EXCEPT ![prog[p][1].at] = prog[p][1].with]
      BY <2>2, <2>5 DEF Right
    <3>2. prog[p][1].at \in Paths /\ DOMAIN disk = Paths
      BY <2>5, StepIs DEF GoodOp, DiskOK
    <3> QED
      BY <2>1, <3>1, <3>2
  <2>3. Effect(prog[p][1], disk, disk')
    BY <2>1, <2>2 DEF Right
  <2>4. ASSUME prog[p][1].do = "open", disk' # disk PROVE prog'[p] = Tail(prog[p])
    <3>1. ~r.fails /\ r.then = <<>>
      BY <2>1, <2>2, <2>4 DEF Right, Moves
    <3>2. DOMAIN prog = Procs /\ IsSeq(prog[p])
      BY DEF HomeInv, Stands, Shaped
    <3>3. IsSeq(Tail(prog[p]))
      BY <3>2, TailIs
    <3>4. prog'[p] = <<>> \o Tail(prog[p])
      BY <2>1, <3>1, <3>2
    <3> QED
      BY <3>3, <3>4, NothingBefore
  <2> QED
    BY <1>2, <2>3, <2>4, <2>5, EffectKeeps
<1> QED
  BY <1>1, <1>2 DEF Unlost

LEMMA StepsUnlost ==
    ASSUME HomeInv, TypeOK, AloneInv, KeysInv, NEW p \in Procs,
           FileStep(p) \/ SkillStep(p) \/ HomeStep(p)
    PROVE  Unlost
<1>1. CASE FileStep(p)
  <2>1. prog[p] # <<>> /\ Head(prog[p]).do \in FileOps /\ Take(p, FileResults(Head(prog[p]), disk))
    BY <1>1 DEF FileStep, Next1
  <2>2. Head(prog[p]) = prog[p][1]
    BY <2>1, StepIs
  <2>3. \A h : \A r \in FileResults(Head(prog[p]), disk) :
          /\ Ready(prog[p][1], cmd[p], disk, h)
          /\ h.at = head /\ Vouches(prog[p][1], disk, head, r) \subseteq h.vouched
          => Right(prog[p][1], cmd[p], disk, h, r)
    BY <2>1, <2>2, FileRight
  <2>4. ASSUME prog[p][1].do = "fill", NEW r \in FileResults(Head(prog[p]), disk) PROVE ~r.fails
    <3>1. \E e : r = Go(e, <<>>)
      BY <2>2, <2>4 DEF FileResults
    <3> QED
      BY <3>1 DEF Go
  <2> QED
    BY <2>1, <2>3, <2>4, TakeUnlost
<1>2. CASE SkillStep(p)
  <2>1. prog[p] # <<>> /\ Head(prog[p]).do \in SkillOps /\ Take(p, SkillResults(Head(prog[p]), disk, head))
    BY <1>2 DEF SkillStep, Next1
  <2>2. Head(prog[p]) = prog[p][1]
    BY <2>1, StepIs
  <2>3. \A h : \A r \in SkillResults(Head(prog[p]), disk, head) :
          /\ Ready(prog[p][1], cmd[p], disk, h)
          /\ h.at = head /\ Vouches(prog[p][1], disk, head, r) \subseteq h.vouched
          => Right(prog[p][1], cmd[p], disk, h, r)
    BY <2>1, <2>2, SkillRight
  <2>4. prog[p][1].do # "fill"
    BY <2>1, <2>2 DEF SkillOps
  <2> QED
    BY <2>1, <2>3, <2>4, TakeUnlost
<1>3. CASE HomeStep(p)
  <2>1. prog[p] # <<>> /\ Head(prog[p]).do \in HomeOps /\ Take(p, HomeResults(Head(prog[p]), disk))
    BY <1>3 DEF HomeStep, Next1
  <2>2. Head(prog[p]) = prog[p][1]
    BY <2>1, StepIs
  <2>3. \A h : \A r \in HomeResults(Head(prog[p]), disk) :
          /\ Ready(prog[p][1], cmd[p], disk, h)
          /\ h.at = head /\ Vouches(prog[p][1], disk, head, r) \subseteq h.vouched
          => Right(prog[p][1], cmd[p], disk, h, r)
    BY <2>1, <2>2, HomeRight
  <2>4. prog[p][1].do # "fill"
    BY <2>1, <2>2 DEF HomeOps
  <2> QED
    BY <2>1, <2>3, <2>4, TakeUnlost
<1> QED
  BY <1>1, <1>2, <1>3

LEMMA TickUnlost ==
    ASSUME HomeInv, Tick
    PROVE  Unlost
<1>1. \A path \in Paths :
        \/ disk'[path] = disk[path]
        \/ disk[path].is = "cached" /\ disk'[path].is = "cached"
  BY TickIs
<1>6. prog' = prog
  BY TickIs
<1>2. /\ \A n \in Names : CacheFile(n) \in Paths
      /\ \A s \in Skills : SkillMd(s) \in Paths
      /\ Credentials \in Paths
  BY PathsAre
<1>3. ASSUME NEW n \in Names PROVE CachedKept(n)
  BY <1>1, <1>2 DEF CachedKept
<1>4. ASSUME NEW s \in Skills PROVE EditKept(s)
  BY <1>1, <1>2 DEF EditKept
<1>5. ASSUME NEW k \in KeyNames PROVE KeyKept(k)
  BY <1>1, <1>2, <1>6, SameKeyKept DEF HasKey
<1> QED
  BY <1>3, <1>4, <1>5 DEF Unlost

LEMMA EditUnlost ==
    ASSUME HomeInv, NEW s \in Skills, Edit(s)
    PROVE  Unlost
<1>1. disk' = [disk EXCEPT ![SkillMd(s)] = Text(ByHand, edits + 1)] /\ SkillMd(s) \in Paths /\ DOMAIN disk = Paths
  BY PathsAre DEF Edit, HomeInv, DiskOK
<1>7. prog' = prog
  BY DEF Edit
<1>2. \A path \in Paths : path # SkillMd(s) => disk'[path] = disk[path]
  BY <1>1
<1>3. disk'[SkillMd(s)].is = "text" /\ disk'[SkillMd(s)].from = ByHand
  BY <1>1 DEF Text
<1>4. ASSUME NEW n \in Names PROVE CachedKept(n)
  <2>1. CacheFile(n) \in Paths /\ CacheFile(n) # SkillMd(s)
    BY PathsAre, SkillPaths
  <2> QED
    BY <1>2, <2>1 DEF CachedKept
<1>5. ASSUME NEW t \in Skills PROVE EditKept(t)
  <2>1. SkillMd(t) \in Paths
    BY PathsAre
  <2> QED
    BY <1>2, <1>3, <2>1 DEF EditKept
<1>6. ASSUME NEW k \in KeyNames PROVE KeyKept(k)
  <2>1. Credentials \in Paths /\ Credentials # SkillMd(s)
    BY PathsAre DEF Credentials, SkillMd
  <2> QED
    BY <1>2, <1>7, <2>1, SameKeyKept DEF HasKey
<1> QED
  BY <1>4, <1>5, <1>6 DEF Unlost

LEMMA NextUnlost ==
    ASSUME HomeInv, TypeOK, AloneInv, KeysInv, [Next]_vars
    PROVE  Unlost
<1>1. CASE \E p \in Procs, c \in Commands : Start(p, c)
  BY <1>1, StartUnlost
<1>2. CASE \E p \in Procs : FileStep(p) \/ SkillStep(p) \/ HomeStep(p) \/ Kill(p)
  BY <1>2, StepsUnlost, KillUnlost
<1>3. CASE Tick
  BY <1>3, TickUnlost
<1>4. CASE \E s \in Skills : Edit(s)
  BY <1>4, EditUnlost
<1>5. CASE \E u \in Urls : Publish(u)
  BY <1>5, SameDiskUnlost DEF Publish
<1>6. CASE UNCHANGED vars
  BY <1>6, SameDiskUnlost DEF vars
<1> QED
  BY <1>1, <1>2, <1>3, <1>4, <1>5, <1>6 DEF Next

LEMMA AloneMeans ==
    ASSUME HomeInv, AloneInv
    PROVE  VerifiedIsPublished
<1> SUFFICES ASSUME alone, NEW s \in Skills, Verify(disk, s) = "verified", ReadToml(disk, s).url # NoUrl
             PROVE  \/ TextIsOf(disk[SkillMd(s)], ReadToml(disk, s).url, ReadToml(disk, s).pin, head)
                    \/ TomlIsShipped(ReadToml(disk, s), head)
                    \/ Signature(disk[SkillMd(s)], ReadToml(disk, s).url, ReadToml(disk, s).pin) \in vouched
  BY DEF VerifiedIsPublished
<1> DEFINE t == ReadToml(disk, s)
<1>1. t.hash = disk[SkillMd(s)]
  BY DEF Verify, Hash
<1>2. Published(t, World) /\ World.at = head /\ World.vouched = vouched
  BY DEF AloneInv, Sound, World
<1> HIDE DEF t
<1>3. Backed(t.hash, t.url, t.pin, World) \/ TomlIsShipped(t, World.at)
  BY <1>2 DEF Published, t
<1> QED
  BY <1>1, <1>2, <1>3 DEF Backed, t

(* If nothing overlapped, what `ati skill verify` calls VERIFIED with a source is the text that   *)
(* source published, at the pinned commit if one is recorded, whatever was installed, updated,    *)
(* removed, edited and killed before: for any number of commands, skills, repositories and        *)
(* versions, whatever these hold.  The two exceptions are the ones in which the code signs or     *)
(* believes without looking: a skill.toml that came from a repository as it is, and a text that   *)
(* an installation without a SKILL.md found in the directory (write_integrity_info, verify_skill, *)
(* update_skill, install_skill_from_url in cli/skills.rs).                                        *)
THEOREM VerifiedWasPublished == Spec => []VerifiedIsPublished
<1>1. Init => HomeInv /\ CrossInv /\ AloneInv
  BY InitKeeps, InitCross, InitAlone
<1>2. HomeInv /\ CrossInv /\ TypeOK /\ AloneInv /\ [Next]_vars => HomeInv' /\ CrossInv' /\ AloneInv'
  BY NextKeeps, NextCross, AloneNext
<1>3. HomeInv /\ AloneInv => VerifiedIsPublished
  BY AloneMeans
<1> QED
  BY <1>1, <1>2, <1>3, TypeCorrect, PTL DEF Spec

(* If nothing overlaps, nothing is lost that no one asked to lose, whatever the commands: a       *)
(* cached provider within its time to live, an edit made by hand that an unforced update or an    *)
(* init meets, unless a signature was made of it, and a key when another is set or removed,       *)
(* through the truncation of the credentials, unless the process that truncated them is killed    *)
(* before it writes them (list_providers, ManifestRegistry::load, update_skill, init_skill,       *)
(* set_key, remove_key, save_credentials).                                                        *)
THEOREM NothingIsLost == Spec => KeptUnlessAsked
<1>1. Init => HomeInv /\ CrossInv /\ AloneInv /\ KeysInv
  BY InitKeeps, InitCross, InitAlone, InitKeys
<1>2. HomeInv /\ CrossInv /\ TypeOK /\ AloneInv /\ KeysInv /\ [Next]_vars
        => HomeInv' /\ CrossInv' /\ AloneInv' /\ KeysInv'
  BY NextKeeps, NextCross, AloneNext, KeysNext
<1>3. HomeInv /\ TypeOK /\ AloneInv /\ KeysInv /\ [Next]_vars =>
        [alone' => /\ \A n \in Names : CachedKept(n)
                   /\ \A s \in Skills : EditKept(s)
                   /\ \A k \in KeyNames : KeyKept(k)]_vars
  BY NextUnlost DEF Unlost
<1> QED
  BY <1>1, <1>2, <1>3, TypeCorrect, PTL DEF Spec, KeptUnlessAsked
=============================================================================
