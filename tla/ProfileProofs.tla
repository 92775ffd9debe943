---------------------------- MODULE ProfileProofs ----------------------------
(***************************************************************************)
(* Theorems about the profile a JSFX is launched with, for any files, any  *)
(* references and any cache: what a completed cache covers is not scanned, *)
(* a completion keeps the rest of the file, and a reference leads to the   *)
(* same file in the profile as at home.                                    *)
(***************************************************************************)
EXTENDS Profile, PluginCacheProofs

-----------------------------------------------------------------------------
(* Sequences: induction on their length. *)

LEMMA SequenceInduct ==
  ASSUME NEW T, NEW S, <<>> \in S,
         \A s \in Seq(T), x \in T : s \in S => Append(s, x) \in S
  PROVE  Seq(T) \subseteq S
<1> DEFINE L == {n \in Nat : \A s \in Seq(T) : Len(s) = n => s \in S}
<1>1. 0 \in L
  <2>1. \A s \in Seq(T) : Len(s) = 0 => s = <<>>
    BY EmptySeq
  <2> QED BY <2>1
<1>2. ASSUME NEW n \in Nat, n \in L PROVE n + 1 \in L
  <2> SUFFICES ASSUME NEW s \in Seq(T), Len(s) = n + 1 PROVE s \in S
    OBVIOUS
  <2> DEFINE f == SubSeq(s, 1, n)
  <2>1. f \in Seq(T) /\ Len(f) = n /\ s[n + 1] \in T /\ s = Append(f, s[n + 1])
    OBVIOUS
  <2> HIDE DEF f
  <2> QED BY <1>2, <2>1
<1>3. Nat \subseteq L
  <2> HIDE DEF L
  <2> QED BY <1>1, <1>2, Induct
<1> QED BY <1>3, LenProperties

(* A sequence that is not empty is its front and its last. *)
LEMMA FrontAndLast ==
  ASSUME NEW T, NEW s \in Seq(T), s # <<>>
  PROVE  /\ Front(s) \in Seq(T) /\ Last(s) \in T /\ s = Append(Front(s), Last(s))
         /\ Len(Front(s)) = Len(s) - 1 /\ Len(s) \in Nat \ {0}
<1>1. PICK n \in Nat : Len(s) = n + 1
  <2>1. Len(s) \in Nat /\ Len(s) # 0
    BY EmptySeq
  <2> QED BY <2>1
<1> DEFINE f == SubSeq(s, 1, n)
<1>2. f \in Seq(T) /\ Len(f) = n /\ s[n + 1] \in T /\ s = Append(f, s[n + 1])
  BY <1>1
<1>3. Front(s) = f /\ Last(s) = s[n + 1]
  BY <1>1 DEF Front, Last
<1> QED BY <1>1, <1>2, <1>3

(* And the other way round. *)
LEMMA FrontOfAppend ==
  ASSUME NEW T, NEW s \in Seq(T), NEW x \in T
  PROVE  /\ Front(Append(s, x)) = s /\ Last(Append(s, x)) = x
         /\ Append(s, x) # <<>> /\ Append(s, x) \in Seq(T)
<1> DEFINE t == Append(s, x)
<1>1. t \in Seq(T) /\ Len(t) = Len(s) + 1 /\ t[Len(s) + 1] = x /\ Len(s) \in Nat
      /\ \A i \in 1..Len(s) : t[i] = s[i]
  OBVIOUS
<1> HIDE DEF t
<1>2. Len(SubSeq(t, 1, Len(t) - 1)) = Len(s) /\ SubSeq(t, 1, Len(t) - 1) \in Seq(T)
      /\ \A i \in 1..Len(s) : SubSeq(t, 1, Len(t) - 1)[i] = s[i]
  BY <1>1
<1>3. SubSeq(t, 1, Len(t) - 1) = s
  BY <1>2, SeqEqual
<1> QED BY <1>1, <1>3 DEF Front, Last, t

-----------------------------------------------------------------------------
(* The walk along a reference, name by name. *)

IsPath(path, dir, ref, m) ==
  path = [n \in 0..m |-> IF n = 0 THEN dir ELSE Descend(path[n - 1], ref[n])]

(* The recursive function of Normal exists, for every number of names. *)
LEMMA PathExists ==
  ASSUME NEW dir, NEW ref, NEW m \in Nat
  PROVE  \E path : IsPath(path, dir, ref, m)
<1> DEFINE S == {n \in Nat : \E path : IsPath(path, dir, ref, n)}
<1>1. 0 \in S
  <2> DEFINE path == [n \in 0..0 |-> dir]
  <2>1. path = [n \in 0..0 |-> IF n = 0 THEN dir ELSE Descend(path[n - 1], ref[n])]
    OBVIOUS
  <2>2. IsPath(path, dir, ref, 0)
    BY <2>1, Zenon DEF IsPath
  <2> QED BY <2>2
<1>2. ASSUME NEW n \in Nat, n \in S PROVE n + 1 \in S
  <2>1. PICK path : IsPath(path, dir, ref, n)
    BY <1>2
  <2> DEFINE last == Descend(path[n], ref[n + 1])
             more == [i \in 0..n + 1 |-> IF i = n + 1 THEN last ELSE path[i]]
  <2>2. ASSUME NEW i \in 0..n + 1
        PROVE  more[i] = IF i = 0 THEN dir ELSE Descend(more[i - 1], ref[i])
    <3>1. CASE i = n + 1
      <4>1. more[i] = last /\ more[i - 1] = path[n] /\ ref[i] = ref[n + 1] /\ i # 0
        <5> HIDE DEF last
        <5> QED BY <3>1
      <4> HIDE DEF more
      <4> QED BY <4>1
    <3>2. CASE i # n + 1
      <4>1. i \in 0..n /\ more[i] = path[i]
        <5> HIDE DEF last
        <5> QED BY <3>2
      <4>2. path[i] = IF i = 0 THEN dir ELSE Descend(path[i - 1], ref[i])
        <5>1. path = [k \in 0..n |-> IF k = 0 THEN dir ELSE Descend(path[k - 1], ref[k])]
          BY <2>1, Zenon DEF IsPath
        <5> QED BY <4>1, <5>1, Zenon
      <4>3. i # 0 => more[i - 1] = path[i - 1]
        <5> HIDE DEF last
        <5> QED BY <4>1
      <4> HIDE DEF more
      <4> QED BY <4>1, <4>2, <4>3, Zenon
    <3> QED BY <3>1, <3>2
  <2>3. more = [i \in 0..n + 1 |-> more[i]]
    <3> HIDE DEF last
    <3> QED OBVIOUS
  <2>4. more = [i \in 0..n + 1 |-> IF i = 0 THEN dir ELSE Descend(more[i - 1], ref[i])]
    <3> HIDE DEF more
    <3> QED BY <2>2, <2>3, Zenon
  <2>5. IsPath(more, dir, ref, n + 1)
    <3> HIDE DEF more
    <3> QED BY <2>4, Zenon DEF IsPath
  <2> HIDE DEF more
  <2> QED BY <2>5
<1>3. Nat \subseteq S
  <2> HIDE DEF S
  <2> QED BY <1>1, <1>2, Induct
<1> QED BY <1>3

Path(dir, ref) == CHOOSE path : IsPath(path, dir, ref, Len(ref))

(* Its equations. *)
LEMMA PathEquations ==
  ASSUME NEW dir, NEW ref \in Seq(Names)
  PROVE  /\ Normal(dir, ref) = Path(dir, ref)[Len(ref)]
         /\ Path(dir, ref)[0] = dir
         /\ \A n \in Nat : n < Len(ref) =>
              Path(dir, ref)[n + 1] = Descend(Path(dir, ref)[n], ref[n + 1])
<1> DEFINE path == Path(dir, ref)
<1>1. Len(ref) \in Nat
  OBVIOUS
<1>2. \E f : IsPath(f, dir, ref, Len(ref))
  BY <1>1, PathExists
<1>3. IsPath(path, dir, ref, Len(ref))
  BY <1>2, Zenon DEF Path
<1>4. Normal(dir, ref) = path[Len(ref)]
  BY Zenon DEF Normal, Path, IsPath
<1> HIDE DEF path
<1>5. path = [n \in 0..Len(ref) |-> IF n = 0 THEN dir ELSE Descend(path[n - 1], ref[n])]
  BY <1>3, Zenon DEF IsPath
<1>6. ASSUME NEW n \in 0..Len(ref)
      PROVE  path[n] = IF n = 0 THEN dir ELSE Descend(path[n - 1], ref[n])
  BY <1>5, Zenon
<1>7. path[0] = dir
  <2>1. 0 \in 0..Len(ref)
    BY <1>1
  <2> QED BY <1>6, <2>1, Zenon
<1>8. ASSUME NEW n \in Nat, n < Len(ref) PROVE path[n + 1] = Descend(path[n], ref[n + 1])
  <2>1. n + 1 \in 0..Len(ref) /\ n + 1 # 0 /\ (n + 1) - 1 = n
    BY <1>1, <1>8
  <2> QED BY <1>6, <2>1, Zenon
<1> QED BY <1>4, <1>7, <1>8 DEF path

(* Without a name the walk stays where it is. *)
LEMMA NormalEmpty == ASSUME NEW dir PROVE Normal(dir, <<>>) = dir
<1>1. <<>> \in Seq(Names) /\ Len(<<>>) = 0
  OBVIOUS
<1> QED BY <1>1, PathEquations

(* A name more is a step more. *)
LEMMA NormalAppend ==
  ASSUME NEW dir, NEW ref \in Seq(Names), NEW x \in Names
  PROVE  Normal(dir, Append(ref, x)) = Descend(Normal(dir, ref), x)
<1> DEFINE r == Append(ref, x)
           p == Path(dir, ref)
           q == Path(dir, r)
           S == {n \in Nat : n <= Len(ref) => p[n] = q[n]}
<1>1. r \in Seq(Names) /\ Len(r) = Len(ref) + 1 /\ r[Len(ref) + 1] = x /\ Len(ref) \in Nat
      /\ \A i \in 1..Len(ref) : r[i] = ref[i]
  OBVIOUS
<1> HIDE DEF r
<1>2. /\ Normal(dir, ref) = p[Len(ref)] /\ p[0] = dir
      /\ \A n \in Nat : n < Len(ref) => p[n + 1] = Descend(p[n], ref[n + 1])
  BY PathEquations
<1>3. /\ Normal(dir, r) = q[Len(r)] /\ q[0] = dir
      /\ \A n \in Nat : n < Len(r) => q[n + 1] = Descend(q[n], r[n + 1])
  BY <1>1, PathEquations
<1> HIDE DEF p, q
<1>4. 0 \in S
  BY <1>2, <1>3
<1>5. ASSUME NEW n \in Nat, n \in S PROVE n + 1 \in S
  <2> SUFFICES ASSUME n + 1 <= Len(ref) PROVE p[n + 1] = q[n + 1]
    OBVIOUS
  <2>1. n < Len(ref) /\ n < Len(r) /\ n + 1 \in 1..Len(ref) /\ p[n] = q[n]
    BY <1>1, <1>5
  <2> QED BY <1>1, <1>2, <1>3, <2>1
<1>6. Nat \subseteq S
  <2> HIDE DEF S
  <2> QED BY <1>4, <1>5, Induct
<1>7. p[Len(ref)] = q[Len(ref)]
  BY <1>1, <1>6
<1>8. q[Len(ref) + 1] = Descend(q[Len(ref)], r[Len(ref) + 1])
  BY <1>1, <1>3
<1> QED BY <1>1, <1>2, <1>3, <1>7, <1>8 DEF r

(* FrontAndLast for paths. *)
LEMMA PathFront ==
  ASSUME NEW s \in Seq(Names), s # <<>>
  PROVE  /\ Front(s) \in Seq(Names) /\ Last(s) \in Names /\ s = Append(Front(s), Last(s))
         /\ Len(Front(s)) = Len(s) - 1 /\ Len(s) \in Nat \ {0}
BY FrontAndLast, Zenon

(* A normal path is a path. *)
LEMMA NormalType ==
  ASSUME NEW dir \in Seq(Names), NEW ref \in Seq(Names)
  PROVE  Normal(dir, ref) \in Seq(Names)
<1> DEFINE S == {r \in Seq(Names) : Normal(dir, r) \in Seq(Names)}
<1>1. <<>> \in S
  BY NormalEmpty
<1>2. ASSUME NEW r \in Seq(Names), NEW x \in Names, r \in S PROVE Append(r, x) \in S
  <2>1. Normal(dir, Append(r, x)) = Descend(Normal(dir, r), x)
    BY NormalAppend
  <2>2. Normal(dir, r) \in Seq(Names)
    BY <1>2
  <2>3. Descend(Normal(dir, r), x) \in Seq(Names)
    BY <2>2, PathFront DEF Descend
  <2> QED BY <2>1, <2>3
<1>3. Seq(Names) \subseteq S
  <2> HIDE DEF S
  <2> QED BY <1>1, <1>2, SequenceInduct
<1> QED BY <1>3

(* Going up undoes a step down. *)
LEMMA DescendUp ==
  ASSUME NEW p \in Seq(Names), NEW x \in Names, x # ".."
  PROVE  Descend(p, x) = Append(p, x) /\ Descend(Append(p, x), "..") = p
BY FrontOfAppend DEF Descend

(* One name further along a path that leads from b. *)
LEMMA DescendFrom ==
  ASSUME NEW b \in Seq(Names), NEW e \in Seq(Names), NEW x \in Names
  PROVE  Normal(b, Descend(e, x)) = Descend(Normal(b, e), x)
<1>1. CASE x = ".." /\ e # <<>> /\ Last(e) # ".."
  <2>1. Front(e) \in Seq(Names) /\ Last(e) \in Names /\ e = Append(Front(e), Last(e))
    BY <1>1, PathFront
  <2>2. Normal(b, Front(e)) \in Seq(Names)
    BY <2>1, NormalType
  <2>3. Normal(b, e) = Descend(Normal(b, Front(e)), Last(e))
    BY <2>1, NormalAppend
  <2>4. Descend(Normal(b, e), "..") = Normal(b, Front(e))
    <3>1. Descend(Normal(b, Front(e)), Last(e)) = Append(Normal(b, Front(e)), Last(e))
          /\ Descend(Append(Normal(b, Front(e)), Last(e)), "..") = Normal(b, Front(e))
      BY <1>1, <2>1, <2>2, DescendUp, Zenon
    <3> QED BY <2>3, <3>1
  <2> QED BY <1>1, <2>4 DEF Descend
<1>2. CASE ~(x = ".." /\ e # <<>> /\ Last(e) # "..")
  <2>1. Descend(e, x) = Append(e, x)
    BY <1>2 DEF Descend
  <2> QED BY <2>1, NormalAppend
<1> QED BY <1>1, <1>2

(* References compose: that from b along dir and on along ref. *)
LEMMA NormalComposes ==
  ASSUME NEW b \in Seq(Names), NEW dir \in Seq(Names), NEW ref \in Seq(Names)
  PROVE  Normal(Normal(b, dir), ref) = Normal(b, Normal(dir, ref))
<1> DEFINE S == {r \in Seq(Names) : Normal(Normal(b, dir), r) = Normal(b, Normal(dir, r))}
<1>1. <<>> \in S
  BY NormalEmpty
<1>2. ASSUME NEW r \in Seq(Names), NEW x \in Names, r \in S PROVE Append(r, x) \in S
  <2>1. Normal(dir, r) \in Seq(Names)
    BY NormalType
  <2>2. Normal(Normal(b, dir), Append(r, x)) = Descend(Normal(Normal(b, dir), r), x)
    BY NormalAppend
  <2>3. Normal(b, Normal(dir, Append(r, x))) = Normal(b, Descend(Normal(dir, r), x))
    BY NormalAppend
  <2>4. Normal(b, Descend(Normal(dir, r), x)) = Descend(Normal(b, Normal(dir, r)), x)
    BY <2>1, DescendFrom
  <2>5. Normal(Normal(b, dir), r) = Normal(b, Normal(dir, r))
    BY <1>2
  <2>6. Append(r, x) \in Seq(Names)
    OBVIOUS
  <2> QED BY <2>2, <2>3, <2>4, <2>5, <2>6
<1>3. Seq(Names) \subseteq S
  <2> HIDE DEF S
  <2> QED BY <1>1, <1>2, SequenceInduct
<1> QED BY <1>3

(* A path goes up only where it begins. *)
UpFirst(path) == \A i, j \in DOMAIN path : (i <= j /\ path[j] = "..") => path[i] = ".."

(* A step keeps ".." at the beginning of a path. *)
LEMMA DescendUpFirst ==
  ASSUME NEW p \in Seq(Names), NEW x \in Names, UpFirst(p)
  PROVE  UpFirst(Descend(p, x))
<1>1. CASE x = ".." /\ p # <<>> /\ Last(p) # ".."
  <2>1. Front(p) \in Seq(Names) /\ Len(Front(p)) = Len(p) - 1
        /\ \A i \in 1..Len(p) - 1 : Front(p)[i] = p[i]
    BY <1>1, PathFront DEF Front
  <2>2. UpFirst(Front(p))
    BY <2>1 DEF UpFirst
  <2> QED BY <1>1, <2>2 DEF Descend
<1>2. CASE ~(x = ".." /\ p # <<>> /\ Last(p) # "..")
  <2> DEFINE q == Append(p, x)
  <2>1. Descend(p, x) = q
    BY <1>2 DEF Descend
  <2>2. /\ q \in Seq(Names) /\ Len(q) = Len(p) + 1 /\ Len(p) \in Nat
        /\ q[Len(p) + 1] = x /\ \A i \in 1..Len(p) : q[i] = p[i]
    OBVIOUS
  <2> HIDE DEF q
  <2>3. ASSUME NEW i \in DOMAIN q, NEW j \in DOMAIN q, i <= j, q[j] = ".." PROVE q[i] = ".."
    <3>1. i \in 1..Len(p) + 1 /\ j \in 1..Len(p) + 1 /\ DOMAIN p = 1..Len(p)
      BY <2>2
    <3>2. CASE j \in 1..Len(p)
      <4>1. i \in 1..Len(p)
        BY <2>2, <2>3, <3>1, <3>2
      <4> QED BY <2>2, <2>3, <3>1, <3>2, <4>1 DEF UpFirst
    <3>3. CASE i \in 1..Len(p) /\ j = Len(p) + 1
      <4>1. x = ".." /\ p # <<>>
        BY <2>2, <2>3, <3>3
      <4>2. p[Len(p)] = ".." /\ Len(p) \in 1..Len(p)
        BY <1>2, <2>2, <3>3, <4>1 DEF Last
      <4>3. i <= Len(p)
        BY <2>2, <3>3
      <4> QED BY <2>2, <3>1, <3>3, <4>2, <4>3 DEF UpFirst
    <3>4. CASE i = Len(p) + 1
      <4>1. i = j
        BY <2>2, <2>3, <3>1, <3>4
      <4> QED BY <2>3, <4>1
    <3> QED BY <2>2, <3>1, <3>2, <3>3, <3>4
  <2> QED BY <2>1, <2>3 DEF UpFirst
<1> QED BY <1>1, <1>2

(* So does a reference. *)
LEMMA NormalUpFirst ==
  ASSUME NEW dir \in Seq(Names), NEW ref \in Seq(Names), UpFirst(dir)
  PROVE  UpFirst(Normal(dir, ref))
<1> DEFINE S == {r \in Seq(Names) : UpFirst(Normal(dir, r))}
<1>1. <<>> \in S
  BY NormalEmpty
<1>2. ASSUME NEW r \in Seq(Names), NEW x \in Names, r \in S PROVE Append(r, x) \in S
  <2>1. Normal(dir, Append(r, x)) = Descend(Normal(dir, r), x)
    BY NormalAppend
  <2>2. Normal(dir, r) \in Seq(Names) /\ UpFirst(Normal(dir, r))
    BY <1>2, NormalType
  <2>3. UpFirst(Descend(Normal(dir, r), x))
    BY <2>2, DescendUpFirst
  <2> QED BY <2>1, <2>3
<1>3. Seq(Names) \subseteq S
  <2> HIDE DEF S
  <2> QED BY <1>1, <1>2, SequenceInduct
<1> QED BY <1>3

(* Append and concatenation of paths. *)
LEMMA AppendToConcat ==
  ASSUME NEW s \in Seq(Names), NEW r \in Seq(Names), NEW x \in Names
  PROVE  Append(s \o r, x) = s \o Append(r, x)
<1>1. <<x>> \in Seq(Names) /\ s \o r \in Seq(Names)
  OBVIOUS
<1>2. Append(r, x) = r \o <<x>> /\ Append(s \o r, x) = (s \o r) \o <<x>>
  BY <1>1, AppendIsConcat
<1> QED BY <1>1, <1>2, ConcatAssociative

(* Without a ".." the reference is appended. *)
Down(path) == \A i \in DOMAIN path : path[i] # ".."

LEMMA NormalDown ==
  ASSUME NEW dir \in Seq(Names), NEW ref \in Seq(Names), Down(ref)
  PROVE  Normal(dir, ref) = dir \o ref
<1> DEFINE S == {r \in Seq(Names) : Down(r) => Normal(dir, r) = dir \o r}
<1>1. <<>> \in S
  BY NormalEmpty
<1>2. ASSUME NEW r \in Seq(Names), NEW x \in Names, r \in S PROVE Append(r, x) \in S
  <2>1. Normal(dir, Append(r, x)) = Descend(Normal(dir, r), x)
    BY NormalAppend
  <2>2. Append(r, x) \in Seq(Names)
    OBVIOUS
  <2>3. Append(dir \o r, x) = dir \o Append(r, x)
    BY AppendToConcat
  <2> SUFFICES ASSUME Down(Append(r, x)) PROVE Normal(dir, Append(r, x)) = dir \o Append(r, x)
    BY <2>2
  <2>4. Down(r) /\ x # ".."
    <3>1. Len(r) \in Nat /\ DOMAIN r = 1..Len(r) /\ DOMAIN Append(r, x) = 1..Len(r) + 1
          /\ Append(r, x)[Len(r) + 1] = x /\ \A i \in 1..Len(r) : Append(r, x)[i] = r[i]
      OBVIOUS
    <3> QED BY <3>1 DEF Down
  <2>5. Normal(dir, r) = dir \o r
    BY <1>2, <2>4
  <2>6. Descend(Normal(dir, r), x) = Append(dir \o r, x)
    BY <2>4, <2>5 DEF Descend
  <2> QED BY <2>1, <2>3, <2>6
<1>3. Seq(Names) \subseteq S
  <2> HIDE DEF S
  <2> QED BY <1>1, <1>2, SequenceInduct
<1> QED BY <1>3

-----------------------------------------------------------------------------
(* Where a file is recorded: below the subject's directory, or below the   *)
(* one above.                                                              *)

IsRel(rel) ==
  /\ rel \in Seq(Names) /\ rel # <<>> /\ UpFirst(rel)
  /\ Last(rel) # ".." /\ ~TooHigh(rel)

Above(rel) ==
  /\ Tail(rel) \in Seq(Names) /\ Tail(rel) # <<>> /\ Down(Tail(rel))
  /\ rel = <<"..">> \o Tail(rel)

(* A place in a record is below the subject's directory, or goes up once   *)
(* and then down.                                                          *)
LEMMA RelForms ==
  ASSUME NEW rel, IsRel(rel)
  PROVE  Down(rel) \/ Above(rel)
<1>1. rel \in Seq(Names) /\ Len(rel) \in Nat \ {0} /\ UpFirst(rel) /\ rel[Len(rel)] # ".."
      /\ ~TooHigh(rel) /\ DOMAIN rel = 1..Len(rel)
  BY EmptySeq DEF IsRel, Last
<1>2. CASE rel[1] # ".."
  <2>1. \A i \in 1..Len(rel) : 1 <= i /\ 1 \in 1..Len(rel)
    BY <1>1
  <2> QED BY <1>1, <1>2, <2>1 DEF UpFirst, Down
<1>3. CASE rel[1] = ".."
  <2>1. Len(rel) > 1
    BY <1>1, <1>3
  <2>2. rel[2] # ".."
    BY <1>1, <1>3, <2>1 DEF TooHigh
  <2>3. /\ Tail(rel) \in Seq(Names) /\ Len(Tail(rel)) = Len(rel) - 1
        /\ \A i \in 1..Len(rel) - 1 : Tail(rel)[i] = rel[i + 1]
    BY <1>1, <2>1
  <2>4. \A i \in 1..Len(rel) - 1 : rel[i + 1] # ".."
    <3> SUFFICES ASSUME NEW i \in 1..Len(rel) - 1, rel[i + 1] = ".." PROVE FALSE
      OBVIOUS
    <3>1. 2 <= i + 1 /\ 2 \in 1..Len(rel) /\ i + 1 \in 1..Len(rel)
      BY <1>1, <2>1
    <3> QED BY <1>1, <2>2, <3>1 DEF UpFirst
  <2>5. Down(Tail(rel))
    BY <1>1, <2>3, <2>4 DEF Down
  <2>6. rel = <<"..">> \o Tail(rel)
    <3> DEFINE s == <<"..">> \o Tail(rel)
    <3>1. ".." \in Names
      BY WalkAssumption DEF WalkAssumption
    <3>2. s \in Seq(Names) /\ Len(s) = Len(rel) /\ \A i \in 1..Len(rel) : s[i] = rel[i]
      BY <1>1, <1>3, <2>1, <2>3, <3>1
    <3> HIDE DEF s
    <3>3. s = rel
      BY <1>1, <3>2, SeqEqual
    <3> QED BY <3>3 DEF s
  <2>7. Tail(rel) # <<>>
    <3>1. Len(Tail(rel)) # 0 /\ Len(<<>>) = 0
      BY <1>1, <2>1, <2>3
    <3> QED BY <3>1
  <2> QED BY <2>3, <2>5, <2>6, <2>7 DEF Above
<1> QED BY <1>2, <1>3

(* The directory of a place is the place of its directory. *)
LEMMA NormalFront ==
  ASSUME NEW b \in Seq(Names), NEW rel, IsRel(rel)
  PROVE  /\ Normal(b, rel) = Append(Normal(b, Front(rel)), Last(rel))
         /\ Front(Normal(b, rel)) = Normal(b, Front(rel))
<1>1. /\ Front(rel) \in Seq(Names) /\ Last(rel) \in Names /\ rel = Append(Front(rel), Last(rel))
      /\ Last(rel) # ".."
  BY PathFront DEF IsRel
<1> DEFINE p == Normal(b, Front(rel))
<1>2. p \in Seq(Names)
  BY <1>1, NormalType
<1>3. Normal(b, rel) = Descend(p, Last(rel))
  BY <1>1, NormalAppend
<1> HIDE DEF p
<1>4. Normal(b, rel) = Append(p, Last(rel))
  BY <1>1, <1>2, <1>3, DescendUp
<1>5. Front(Append(p, Last(rel))) = p
  BY <1>1, <1>2, FrontOfAppend
<1> QED BY <1>4, <1>5 DEF p

(* Where the installation puts the two kinds of places. *)
LEMMA PlaceBelow ==
  ASSUME NEW rel, IsRel(rel)
  PROVE  /\ Root \in Seq(Names) /\ <<"Effects">> \in Seq(Names)
         /\ Down(rel) => Normal(Root, rel) = Root \o rel
         /\ Above(rel) => Normal(Root, rel) = <<"Effects">> \o Tail(rel)
<1>1. {"..", "Effects", "ReaProof"} \subseteq Names
  BY WalkAssumption DEF WalkAssumption
<1>2. Root \in Seq(Names) /\ <<"Effects">> \in Seq(Names) /\ <<"..">> \in Seq(Names)
  BY <1>1 DEF Root
<1>3. CASE Down(rel)
  <2>1. Normal(Root, rel) = Root \o rel
    BY <1>2, <1>3, NormalDown DEF IsRel
  <2>2. rel # <<"..">> \o Tail(rel)
    <3>1. rel \in Seq(Names) /\ Len(rel) \in Nat \ {0} /\ rel[1] # ".."
      BY <1>3, EmptySeq DEF IsRel, Down
    <3> QED BY <1>1, <3>1
  <2> QED BY <1>2, <2>1, <2>2 DEF Above
<1>4. CASE ~Down(rel) /\ Above(rel)
  <2> DEFINE t == Tail(rel)
             up == <<"..">>
             top == <<"Effects">>
  <2>0. t \in Seq(Names) /\ Down(t) /\ up \in Seq(Names) /\ rel = up \o t /\ top \in Seq(Names)
    BY <1>2, <1>4 DEF Above
  <2>1. top # <<>> /\ Root = Append(top, "ReaProof") /\ up = Append(<<>>, "..")
        /\ <<>> \in Seq(Names)
    BY DEF Root
  <2> HIDE DEF t, up, top
  <2>2. Normal(up, t) = rel
    BY <2>0, NormalDown
  <2>3. Normal(Normal(Root, up), t) = Normal(Root, Normal(up, t))
    BY <1>2, <2>0, NormalComposes
  <2>4. Normal(Root, up) = top
    <3>1. Normal(Root, <<>>) = Root
      BY NormalEmpty
    <3>2. Normal(Root, Append(<<>>, "..")) = Descend(Normal(Root, <<>>), "..")
      BY <1>1, <2>1, NormalAppend
    <3>3. Descend(Append(top, "ReaProof"), "..") = top
      BY <1>1, <2>0, DescendUp
    <3> QED BY <2>1, <3>1, <3>2, <3>3
  <2>5. Normal(top, t) = top \o t
    BY <2>0, NormalDown
  <2>6. Normal(Root, rel) = top \o t
    BY <2>2, <2>3, <2>4, <2>5
  <2> QED BY <1>2, <1>4, <2>6 DEF top, t
<1> QED BY <1>2, <1>3, <1>4

(* The first two names of a path. *)
LEMMA FirstTwo ==
  ASSUME NEW s \in Seq(Names), Len(s) >= 2
  PROVE  SubSeq(s, 1, 2) = <<s[1], s[2]>>
<1> DEFINE t == SubSeq(s, 1, 2)
           u == <<s[1], s[2]>>
<1>1. t \in Seq(Names) /\ Len(t) = 2 /\ t[1] = s[1] /\ t[2] = s[2]
  OBVIOUS
<1>2. u \in Seq(Names) /\ Len(u) = 2 /\ u[1] = s[1] /\ u[2] = s[2]
  OBVIOUS
<1> HIDE DEF t, u
<1>3. \A i \in 1..Len(t) : t[i] = u[i]
  BY <1>1, <1>2
<1>4. t = u
  BY <1>1, <1>2, <1>3, SeqEqual
<1> QED BY <1>4 DEF t, u

(* Two places are one only for one record, but for namesakes. *)
LEMMA PlaceOnce ==
  ASSUME NEW r, NEW s, IsRel(r), IsRel(s), Normal(Root, r) = Normal(Root, s),
         ~IsPrefix(<<"..", Last(Root)>>, r), ~IsPrefix(<<"..", Last(Root)>>, s)
  PROVE  r = s
<1>1. Root \in Seq(Names) /\ <<"Effects">> \in Seq(Names) /\ r \in Seq(Names) /\ s \in Seq(Names)
  BY PlaceBelow DEF IsRel
<1>2. ASSUME NEW p, NEW q, IsRel(p), IsRel(q), Down(p), Above(q),
             Normal(Root, p) = Normal(Root, q)
      PROVE  IsPrefix(<<"..", Last(Root)>>, q)
  <2>1. Root \o p = <<"Effects">> \o Tail(q)
    BY <1>2, PlaceBelow
  <2>2. p \in Seq(Names) /\ Tail(q) \in Seq(Names) /\ Tail(q) # <<>> /\ q = <<"..">> \o Tail(q)
    BY <1>2 DEF IsRel, Above
  <2>3. (Root \o p)[2] = "ReaProof"
    BY <1>1, <2>2 DEF Root
  <2> DEFINE t == Tail(q)
  <2>4. Len(t) >= 1 /\ (<<"Effects">> \o t)[2] = t[1]
    <3> HIDE DEF t
    <3> QED BY <1>1, <2>2, EmptySeq DEF t
  <2>5. t[1] = "ReaProof"
    BY <2>1, <2>3, <2>4
  <2> HIDE DEF t
  <2>6. Len(q) >= 2 /\ q[1] = ".." /\ q[2] = "ReaProof" /\ q \in Seq(Names)
    <3>1. t \in Seq(Names) /\ q = <<"..">> \o t
      BY <2>2 DEF t
    <3>2. ".." \in Names
      BY WalkAssumption DEF WalkAssumption
    <3> QED BY <2>4, <2>5, <3>1, <3>2
  <2>7. SubSeq(q, 1, 2) = <<"..", "ReaProof">>
    BY <2>6, FirstTwo
  <2>8. Last(Root) = "ReaProof"
    BY DEF Root, Last
  <2>9. Len(<<"..", "ReaProof">>) = 2 /\ SubSeq(<<"..", "ReaProof">>, 1, 2) = <<"..", "ReaProof">>
    <3> DEFINE u == <<"..", "ReaProof">>
    <3>1. u \in Seq(Names) /\ Len(u) = 2 /\ u[1] = ".." /\ u[2] = "ReaProof"
      BY WalkAssumption DEF WalkAssumption
    <3> HIDE DEF u
    <3>2. SubSeq(u, 1, 2) = <<u[1], u[2]>>
      BY <3>1, FirstTwo
    <3> QED BY <3>1, <3>2 DEF u
  <2> QED BY <2>6, <2>7, <2>8, <2>9 DEF IsPrefix
<1>3. CASE Down(r) /\ Down(s)
  <2>1. Root \o r = Root \o s
    BY <1>3, PlaceBelow
  <2> QED BY <1>1, <2>1, ConcatSimplifications
<1>4. CASE Above(r) /\ Above(s)
  <2>1. <<"Effects">> \o Tail(r) = <<"Effects">> \o Tail(s)
    BY <1>4, PlaceBelow
  <2>2. Tail(r) = Tail(s)
    BY <1>1, <1>4, <2>1, ConcatSimplifications DEF Above
  <2> QED BY <1>4, <2>2 DEF Above
<1> QED BY <1>2, <1>3, <1>4, RelForms

-----------------------------------------------------------------------------
(* The walk.  Each file that is recorded is where its record says, seen    *)
(* from the subject's directory; each reference of a walked file is still  *)
(* on the stack, recorded, or something is missing.                        *)

Home == Front(Subject)
Frames == [file : DOMAIN tree, dir : Seq(Names), refs : Seq(Seq(Names) \ {<<>>})]
Records == [file : DOMAIN tree, rel : Seq(Names)]

InFrame(frame) ==
  LET all == tree[frame.file].refs
  IN /\ UpFirst(frame.dir) /\ Front(frame.file) = Normal(Home, frame.dir)
     /\ Len(frame.refs) <= Len(all)
     /\ \A q \in 1..Len(frame.refs) : frame.refs[q] = all[Len(all) - Len(frame.refs) + q]

IsStack(st) == st \in Seq(Frames) /\ \A m \in 1..Len(st) : InFrame(st[m])

IsRecord(copy) == IsRel(copy.rel) /\ copy.file = Normal(Home, copy.rel)

Pending(st, file, dir, n) ==
  \E m \in 1..Len(st) : /\ st[m].file = file /\ st[m].dir = dir
                        /\ n > Len(tree[file].refs) - Len(st[m].refs)

Recorded(ds, copy, ref) ==
  /\ ~Absolute(ref)
  /\ \E j \in 1..Len(ds) :
       ds[j] = [file |-> Target(copy.file, ref), rel |-> Normal(Front(copy.rel), ref)]

Handled(st, ds, ms, copy) ==
  \A n \in DOMAIN tree[copy.file].refs :
    \/ ms # {}
    \/ Recorded(ds, copy, tree[copy.file].refs[n])
    \/ Pending(st, copy.file, Front(copy.rel), n)

WalkType ==
  /\ IsTree(tree)
  /\ seen \subseteq DOMAIN tree /\ IsFiniteSet(seen) /\ Len(stack) <= Cardinality(seen)
  /\ deps \in Seq(Records)

WalkInv ==
  /\ WalkType
  /\ IsStack(stack)
  /\ \A i \in DOMAIN Copies : IsRecord(Copies[i])
  /\ \A j \in 1..Len(deps) :
       tree[deps[j].file].source => deps[j].file \in seen \/ Len(deps) >= MaxDeps
  /\ Subject \in seen
  /\ \A file \in seen : tree[file].readable =>
       \E i \in DOMAIN Copies : Copies[i].file = file /\ Handled(stack, deps, missing, Copies[i])

(* What IsTree says of a file. *)
LEMMA TreeIs ==
  ASSUME IsTree(tree), NEW file \in DOMAIN tree
  PROVE  /\ Subject \in DOMAIN tree
         /\ file \in Seq(Names) /\ file # <<>> /\ \A i \in 1..Len(file) : file[i] # ".."
         /\ tree[file].refs \in Seq(Seq(Names) \ {<<>>})
         /\ \A other \in DOMAIN tree : IsPrefix(file, other) => file = other
BY DEF IsTree

CopiesOf(ds) == <<[file |-> Subject, rel |-> <<Last(Subject)>>]>> \o ds

(* The copies are the subject, then the records in their order. *)
LEMMA CopiesAre ==
  ASSUME IsTree(tree), NEW ds \in Seq(Records)
  PROVE  /\ CopiesOf(ds) \in Seq(Records) /\ Len(CopiesOf(ds)) = Len(ds) + 1 /\ Len(ds) \in Nat
         /\ DOMAIN CopiesOf(ds) = 1..Len(ds) + 1
         /\ CopiesOf(ds)[1] = [file |-> Subject, rel |-> <<Last(Subject)>>]
         /\ \A j \in 1..Len(ds) : CopiesOf(ds)[j + 1] = ds[j]
<1> DEFINE first == [file |-> Subject, rel |-> <<Last(Subject)>>]
<1>1. Subject \in DOMAIN tree /\ Last(Subject) \in Names
  BY WalkAssumption, PathFront DEF IsTree, WalkAssumption
<1>2. first \in Records
  BY <1>1 DEF Records
<1> HIDE DEF first
<1>3. CopiesOf(ds) = <<first>> \o ds
  BY DEF CopiesOf, first
<1> QED BY <1>2, <1>3 DEF first

(* The directories above the subject are no files. *)
LEMMA NoDirectory ==
  ASSUME IsTree(tree), NEW n \in Nat, n < Len(Subject), SubSeq(Subject, 1, n) \in DOMAIN tree
  PROVE  FALSE
<1> DEFINE p == SubSeq(Subject, 1, n)
<1>1. Subject \in Seq(Names) /\ Subject \in DOMAIN tree
  BY TreeIs
<1>2. p \in Seq(Names) /\ Len(p) = n /\ \A i \in 1..n : p[i] = Subject[i]
  BY <1>1
<1> HIDE DEF p
<1>3. SubSeq(p, 1, Len(p)) = p
  BY <1>2, SubSeqFull
<1>4. SubSeq(Subject, 1, Len(p)) = p
  BY <1>2 DEF p
<1>5. IsPrefix(p, Subject)
  BY <1>2, <1>3, <1>4 DEF IsPrefix
<1>6. p = Subject
  BY <1>1, <1>5, TreeIs DEF p
<1> QED BY <1>2, <1>6

(* The subject is a file in its directory. *)
LEMMA HomeIs ==
  ASSUME IsTree(tree)
  PROVE  /\ Home \in Seq(Names) /\ Home = SubSeq(Subject, 1, Len(Subject) - 1)
         /\ Len(Home) = Len(Subject) - 1 /\ Len(Subject) \in Nat \ {0}
         /\ Last(Subject) \in Names /\ Last(Subject) # ".."
         /\ Subject = Append(Home, Last(Subject))
<1>1. Subject \in Seq(Names) /\ Subject # <<>> /\ \A i \in 1..Len(Subject) : Subject[i] # ".."
  BY TreeIs DEF IsTree
<1>2. Home \in Seq(Names) /\ Len(Home) = Len(Subject) - 1 /\ Len(Subject) \in Nat \ {0}
      /\ Last(Subject) \in Names /\ Subject = Append(Home, Last(Subject))
  BY <1>1, PathFront DEF Home
<1>3. Home = SubSeq(Subject, 1, Len(Subject) - 1) /\ Last(Subject) # ".."
  BY <1>1, <1>2 DEF Home, Front, Last
<1> QED BY <1>2, <1>3

(* A file that is found has a name of its own below where it was reached. *)
LEMMA FoundIsRel ==
  ASSUME IsTree(tree), NEW rel \in Seq(Names), UpFirst(rel), ~TooHigh(rel),
         Normal(Home, rel) \in DOMAIN tree
  PROVE  IsRel(rel)
<1>0. /\ Home \in Seq(Names) /\ Home = SubSeq(Subject, 1, Len(Subject) - 1)
      /\ Len(Home) = Len(Subject) - 1 /\ Len(Subject) \in Nat \ {0}
  BY HomeIs
<1>1. rel # <<>>
  <2> SUFFICES ASSUME rel = <<>> PROVE FALSE
    OBVIOUS
  <2>1. Normal(Home, rel) = Home
    BY NormalEmpty
  <2>2. Len(Subject) - 1 \in Nat /\ Len(Subject) - 1 < Len(Subject)
    BY <1>0
  <2> QED BY <1>0, <2>1, <2>2, NoDirectory
<1>2. Last(rel) # ".."
  <2> SUFFICES ASSUME Last(rel) = ".." PROVE FALSE
    OBVIOUS
  <2>1. Len(rel) \in Nat \ {0} /\ rel[Len(rel)] = ".." /\ DOMAIN rel = 1..Len(rel)
    BY <1>1, EmptySeq DEF Last
  <2>2. Len(rel) = 1
    <3> SUFFICES ASSUME Len(rel) > 1 PROVE FALSE
      BY <2>1
    <3>1. 1 <= Len(rel) /\ 2 <= Len(rel) /\ 1 \in DOMAIN rel /\ 2 \in DOMAIN rel
          /\ Len(rel) \in DOMAIN rel
      BY <2>1
    <3>2. rel[1] = ".." /\ rel[2] = ".."
      BY <2>1, <3>1 DEF UpFirst
    <3> QED BY <3>2 DEF TooHigh
  <2>3. Front(rel) = <<>> /\ rel = Append(Front(rel), "..") /\ Front(rel) \in Seq(Names)
        /\ ".." \in Names
    <3>1. /\ Front(rel) \in Seq(Names) /\ rel = Append(Front(rel), Last(rel))
          /\ Len(Front(rel)) = 0 /\ Last(rel) \in Names
      BY <1>1, <2>2, PathFront
    <3> QED BY <3>1, EmptySeq
  <2>4. Normal(Home, rel) = Descend(Home, "..")
    <3>1. Normal(Home, Append(Front(rel), "..")) = Descend(Normal(Home, Front(rel)), "..")
      BY <2>3, NormalAppend
    <3>2. Normal(Home, Front(rel)) = Home
      BY <2>3, NormalEmpty
    <3> QED BY <2>3, <3>1, <3>2
  <2>5. CASE Home # <<>> /\ Last(Home) # ".."
    <3>1. Normal(Home, rel) = Front(Home)
      BY <2>4, <2>5 DEF Descend
    <3>2. PICK n \in Nat : Len(Subject) = n + 2
      <4>1. Len(Subject) - 2 \in Nat /\ Len(Subject) = (Len(Subject) - 2) + 2
        BY <1>0, <2>5, EmptySeq
      <4> QED BY <4>1
    <3> DEFINE u == SubSeq(Home, 1, n)
               t == SubSeq(Subject, 1, n)
    <3>3. Front(Home) = u
      BY <1>0, <3>2 DEF Front
    <3>4. u = t
      <4>1. Subject \in Seq(Names)
        BY TreeIs DEF IsTree
      <4>2. \A i \in 1..n : Home[i] = Subject[i]
        BY <1>0, <3>2, <4>1
      <4>3. u \in Seq(Names) /\ Len(u) = n /\ \A i \in 1..n : u[i] = Home[i]
        BY <1>0, <3>2
      <4>4. t \in Seq(Names) /\ Len(t) = n /\ \A i \in 1..n : t[i] = Subject[i]
        BY <3>2, <4>1
      <4> HIDE DEF u, t
      <4>5. \A i \in 1..Len(u) : u[i] = t[i]
        BY <4>2, <4>3, <4>4
      <4> QED BY <4>3, <4>4, <4>5, SeqEqual
    <3>5. n < Len(Subject)
      BY <3>2
    <3> HIDE DEF u
    <3> QED BY <3>1, <3>3, <3>4, <3>5, NoDirectory
  <2>6. CASE ~(Home # <<>> /\ Last(Home) # "..")
    <3>1. Normal(Home, rel) = Append(Home, "..")
      BY <2>4, <2>6 DEF Descend
    <3>2. Append(Home, "..")[Len(Home) + 1] = ".." /\ Len(Append(Home, "..")) = Len(Home) + 1
          /\ Len(Home) + 1 \in 1..Len(Home) + 1
      BY <1>0, <2>3
    <3>3. Append(Home, "..") \in DOMAIN tree
      BY <3>1
    <3>4. \A i \in 1..Len(Append(Home, "..")) : Append(Home, "..")[i] # ".."
      BY <3>3, TreeIs
    <3> QED BY <3>2, <3>4
  <2> QED BY <2>5, <2>6
<1> QED BY <1>1, <1>2 DEF IsRel

-----------------------------------------------------------------------------
(* The steps of the walk *)

(* The call on top of the stack is a frame of the walk. *)
LEMMA TopIs ==
  ASSUME IsStack(stack), stack # <<>>
  PROVE  /\ Len(stack) \in Nat \ {0} /\ stack \in Seq(Frames)
         /\ Top = stack[Len(stack)] /\ Top \in Frames /\ InFrame(Top)
<1>1. Len(stack) \in Nat \ {0} /\ stack \in Seq(Frames)
  BY EmptySeq DEF IsStack
<1>2. Top = stack[Len(stack)]
  BY DEF Top, Last
<1>3. Len(stack) \in 1..Len(stack)
  BY <1>1
<1> QED BY <1>1, <1>2, <1>3 DEF IsStack

(* To take a reference off the top frame leaves a stack, and every other   *)
(* reference pending.                                                      *)
LEMMA RestIs ==
  ASSUME IsTree(tree), IsStack(stack), stack # <<>>, Top.refs # <<>>
  PROVE  /\ Ref \in Seq(Names) \ {<<>>}
         /\ IsStack(Rest) /\ Len(Rest) = Len(stack)
         /\ \A file \in DOMAIN tree : \A dir : \A n \in DOMAIN tree[file].refs :
              Pending(stack, file, dir, n) =>
                \/ Pending(Rest, file, dir, n)
                \/ file = Top.file /\ dir = Top.dir /\ tree[file].refs[n] = Ref
<1> DEFINE all == tree[Top.file].refs
           new == [Top EXCEPT !.refs = Tail(@)]
<1>1. /\ Len(stack) \in Nat \ {0} /\ stack \in Seq(Frames)
      /\ Top = stack[Len(stack)] /\ Top \in Frames /\ InFrame(Top)
  BY TopIs
<1>2. /\ Top.file \in DOMAIN tree /\ Top.dir \in Seq(Names)
      /\ Top.refs \in Seq(Seq(Names) \ {<<>>})
  BY <1>1 DEF Frames
<1>3. all \in Seq(Seq(Names) \ {<<>>}) /\ Len(all) \in Nat /\ DOMAIN all = 1..Len(all)
  BY <1>2, TreeIs
<1>4. /\ Len(Top.refs) \in Nat \ {0} /\ Len(Top.refs) <= Len(all)
      /\ \A q \in 1..Len(Top.refs) : Top.refs[q] = all[Len(all) - Len(Top.refs) + q]
  BY <1>1, <1>2, EmptySeq DEF InFrame
<1>5. Ref = Top.refs[1] /\ Ref \in Seq(Names) \ {<<>>}
  <2>1. Head(Top.refs) = Top.refs[1] /\ Top.refs[1] \in Seq(Names) \ {<<>>}
    BY <1>2, <1>4
  <2> QED BY <2>1 DEF Ref
<1> HIDE DEF all
<1>6. /\ Tail(Top.refs) \in Seq(Seq(Names) \ {<<>>}) /\ Len(Tail(Top.refs)) = Len(Top.refs) - 1
      /\ \A q \in 1..Len(Top.refs) - 1 : Tail(Top.refs)[q] = Top.refs[q + 1]
  BY <1>2, <1>4
<1>7. new.file = Top.file /\ new.dir = Top.dir /\ new.refs = Tail(Top.refs) /\ new \in Frames
  BY <1>1, <1>2, <1>6 DEF Frames
<1>8. /\ Rest = [stack EXCEPT ![Len(stack)] = new]
      /\ Rest \in Seq(Frames) /\ Len(Rest) = Len(stack) /\ Rest[Len(stack)] = new
      /\ \A m \in 1..Len(stack) : m # Len(stack) => Rest[m] = stack[m]
  <2>1. Rest = [stack EXCEPT ![Len(stack)] = new]
    BY <1>1, Zenon DEF Rest
  <2> HIDE DEF new
  <2> QED BY <1>1, <1>7, <2>1
<1> HIDE DEF new
<1>9. InFrame(new)
  <2>1. ASSUME NEW q \in 1..Len(Top.refs) - 1
        PROVE  new.refs[q] = all[Len(all) - Len(new.refs) + q]
    <3>1. q + 1 \in 1..Len(Top.refs)
      BY <1>4
    <3>2. Len(all) - Len(Top.refs) + (q + 1) = Len(all) - (Len(Top.refs) - 1) + q
      BY <1>3, <1>4
    <3> QED BY <1>4, <1>6, <1>7, <3>1, <3>2
  <2>2. Len(new.refs) = Len(Top.refs) - 1 /\ Len(new.refs) <= Len(all)
    BY <1>3, <1>4, <1>6, <1>7
  <2> QED BY <1>1, <1>7, <2>1, <2>2 DEF InFrame, all
<1>10. IsStack(Rest)
  <2>1. \A m \in 1..Len(Rest) : InFrame(Rest[m])
    BY <1>8, <1>9 DEF IsStack
  <2> QED BY <1>8, <2>1 DEF IsStack
<1>11. ASSUME NEW file \in DOMAIN tree, NEW dir, NEW n \in DOMAIN tree[file].refs,
              Pending(stack, file, dir, n), ~Pending(Rest, file, dir, n)
       PROVE  file = Top.file /\ dir = Top.dir /\ tree[file].refs[n] = Ref
  <2>1. PICK m \in 1..Len(stack) : /\ stack[m].file = file /\ stack[m].dir = dir
                                   /\ n > Len(tree[file].refs) - Len(stack[m].refs)
    BY <1>11 DEF Pending
  <2>2. m = Len(stack)
    <3> SUFFICES ASSUME m # Len(stack) PROVE FALSE
      OBVIOUS
    <3>1. Rest[m] = stack[m] /\ m \in 1..Len(Rest)
      BY <1>8
    <3> QED BY <1>11, <2>1, <3>1 DEF Pending
  <2>3. file = Top.file /\ dir = Top.dir /\ n > Len(all) - Len(Top.refs) /\ n \in 1..Len(all)
    BY <1>1, <1>3, <2>1, <2>2 DEF all
  <2>4. ~(n > Len(all) - (Len(Top.refs) - 1))
    <3>1. Rest[m] = new /\ m \in 1..Len(Rest) /\ Len(new.refs) = Len(Top.refs) - 1
      BY <1>6, <1>7, <1>8, <2>2
    <3> QED BY <1>7, <1>11, <2>3, <3>1 DEF Pending, all
  <2>5. n = Len(all) - Len(Top.refs) + 1
    <3>1. \A a, t, i \in Int : (i > a - t /\ ~(i > a - (t - 1))) => i = a - t + 1
      OBVIOUS
    <3>2. Len(all) \in Int /\ Len(Top.refs) \in Int /\ n \in Int
      BY <1>3, <1>4, <2>3
    <3> QED BY <2>3, <2>4, <3>1, <3>2
  <2>6. all[n] = Ref
    <3>1. 1 \in 1..Len(Top.refs)
      BY <1>4
    <3>2. Top.refs[1] = all[Len(all) - Len(Top.refs) + 1]
      BY <1>4, <3>1
    <3> QED BY <1>5, <2>5, <3>2
  <2> QED BY <2>3, <2>6 DEF all
<1> QED BY <1>5, <1>8, <1>10, <1>11

(* What a reference that is found leads to. *)
LEMMA FoundIs ==
  ASSUME IsTree(tree), IsStack(stack), stack # <<>>, Top.refs # <<>>, Found
  PROVE  LET file == Target(Top.file, Ref)
         IN /\ file \in DOMAIN tree /\ file = Normal(Home, Rel) /\ IsRel(Rel)
            /\ Front(Rel) \in Seq(Names) /\ UpFirst(Front(Rel))
            /\ Front(file) = Normal(Home, Front(Rel))
<1> DEFINE file == Target(Top.file, Ref)
<1>1. /\ Top.dir \in Seq(Names) /\ UpFirst(Top.dir)
      /\ Front(Top.file) = Normal(Home, Top.dir)
      /\ Ref \in Seq(Names) /\ Home \in Seq(Names)
  BY TopIs, RestIs, HomeIs DEF Frames, InFrame
<1>2. file \in DOMAIN tree /\ file = Normal(Front(Top.file), Ref) /\ ~TooHigh(Rel)
  BY DEF Found, Target
<1>3. Rel \in Seq(Names) /\ UpFirst(Rel)
  BY <1>1, NormalType, NormalUpFirst DEF Rel
<1>4. Normal(Normal(Home, Top.dir), Ref) = Normal(Home, Rel)
  BY <1>1, NormalComposes DEF Rel
<1>5. file = Normal(Home, Rel)
  BY <1>1, <1>2, <1>4
<1> HIDE DEF file
<1>6. IsRel(Rel)
  BY <1>2, <1>3, <1>5, FoundIsRel
<1>7. Front(file) = Normal(Home, Front(Rel))
  BY <1>1, <1>5, <1>6, NormalFront
<1>8. Front(Rel) \in Seq(Names) /\ UpFirst(Front(Rel))
  <2>1. /\ Front(Rel) \in Seq(Names) /\ Len(Front(Rel)) = Len(Rel) - 1 /\ Len(Rel) \in Nat \ {0}
    BY <1>3, <1>6, PathFront DEF IsRel
  <2>2. \A i \in 1..Len(Rel) - 1 : Front(Rel)[i] = Rel[i]
    BY <1>3, <2>1 DEF Front
  <2>3. DOMAIN Front(Rel) = 1..Len(Rel) - 1 /\ DOMAIN Front(Rel) \subseteq DOMAIN Rel
    BY <1>3, <2>1
  <2> QED BY <1>3, <2>1, <2>2, <2>3 DEF UpFirst
<1> QED BY <1>2, <1>5, <1>6, <1>7, <1>8 DEF file

(* The invariant of the walk holds at first: all references of the subject *)
(* are pending.                                                            *)
LEMMA WalkBegins ==
  ASSUME IsTree(tree), WalkInit
  PROVE  WalkInv
<1> DEFINE frame == Frame(Subject, <<>>)
           subject == [file |-> Subject, rel |-> <<Last(Subject)>>]
<1>1. /\ stack = <<frame>> /\ seen = {Subject} /\ deps = <<>> /\ missing = {}
  BY DEF WalkInit
<1>2. /\ Home \in Seq(Names) /\ Last(Subject) \in Names /\ Last(Subject) # ".."
      /\ Subject = Append(Home, Last(Subject)) /\ Subject \in DOMAIN tree
  BY HomeIs, TreeIs DEF IsTree
<1>3. /\ tree[Subject].refs \in Seq(Seq(Names) \ {<<>>}) /\ Len(tree[Subject].refs) \in Nat
  BY <1>2, TreeIs
<1>4. /\ frame.file = Subject /\ frame.dir = <<>> /\ frame.refs = tree[Subject].refs
      /\ frame \in Frames
  BY <1>2, <1>3 DEF Frame, Frames
<1> HIDE DEF frame
<1>5. InFrame(frame)
  <2>1. UpFirst(<<>>)
    BY DEF UpFirst
  <2>2. Normal(Home, <<>>) = Home
    BY NormalEmpty
  <2>3. Len(frame.refs) <= Len(tree[Subject].refs)
        /\ \A q \in 1..Len(frame.refs) :
             frame.refs[q] = tree[Subject].refs[Len(tree[Subject].refs) - Len(frame.refs) + q]
    BY <1>3, <1>4
  <2> QED BY <1>4, <2>1, <2>2, <2>3 DEF InFrame, Home
<1>6. IsStack(stack) /\ Len(stack) = 1 /\ stack[1] = frame
  BY <1>1, <1>4, <1>5 DEF IsStack
<1>7. IsFiniteSet(seen) /\ Cardinality(seen) = 1
  BY <1>1, FS_Singleton
<1>8. Copies = <<subject>> /\ Len(Copies) = 1 /\ DOMAIN Copies = {1} /\ Copies[1] = subject
  BY <1>1 DEF Copies
<1> HIDE DEF subject
<1>9. subject.file = Subject /\ subject.rel = <<Last(Subject)>>
  BY DEF subject
<1>10. <<Last(Subject)>> = Append(<<>>, Last(Subject)) /\ <<>> \in Seq(Names)
       /\ Len(<<Last(Subject)>>) = 1 /\ <<Last(Subject)>>[1] = Last(Subject)
       /\ <<Last(Subject)>> \in Seq(Names)
  BY <1>2
<1>11. IsRecord(subject)
  <2> DEFINE rel == <<Last(Subject)>>
  <2>1. rel = Append(<<>>, Last(Subject)) /\ Len(rel) = 1 /\ rel[1] # ".." /\ rel \in Seq(Names)
    BY <1>2, <1>10
  <2> HIDE DEF rel
  <2>2. Normal(Home, rel) = Descend(Home, Last(Subject))
    <3>1. Normal(Home, Append(<<>>, Last(Subject))) = Descend(Normal(Home, <<>>), Last(Subject))
      BY <1>2, <1>10, NormalAppend
    <3>2. Normal(Home, <<>>) = Home
      BY NormalEmpty
    <3> QED BY <2>1, <3>1, <3>2
  <2>3. Descend(Home, Last(Subject)) = Subject
    BY <1>2, DescendUp
  <2>4. DOMAIN rel = 1..1
    BY <2>1
  <2>5. UpFirst(rel) /\ ~TooHigh(rel) /\ Last(rel) # ".." /\ rel # <<>>
    BY <2>1, <2>4 DEF UpFirst, TooHigh, Last
  <2> QED BY <1>9, <2>1, <2>2, <2>3, <2>5 DEF IsRecord, IsRel, rel
<1>12. Front(subject.rel) = <<>>
  <2>1. Front(Append(<<>>, Last(Subject))) = <<>>
    BY <1>2, <1>10, FrontOfAppend
  <2>2. <<Last(Subject)>> = Append(<<>>, Last(Subject))
    BY <1>10
  <2> QED BY <1>9, <2>1, <2>2
<1>13. Handled(stack, deps, missing, subject)
  <2> SUFFICES ASSUME NEW n \in DOMAIN tree[Subject].refs
               PROVE  Pending(stack, Subject, <<>>, n)
    BY <1>9, <1>12 DEF Handled
  <2>1. n \in 1..Len(tree[Subject].refs)
    BY <1>3
  <2>2. n > Len(tree[Subject].refs) - Len(frame.refs)
    BY <1>3, <1>4, <2>1
  <2>3. 1 \in 1..Len(stack) /\ stack[1].file = Subject /\ stack[1].dir = <<>>
        /\ stack[1].refs = frame.refs
    BY <1>4, <1>6
  <2> QED BY <2>2, <2>3 DEF Pending
<1>14. deps \in Seq(Records) /\ Len(deps) = 0
  BY <1>1
<1>15. WalkType
  BY <1>1, <1>2, <1>6, <1>7, <1>14 DEF WalkType
<1>16. \A file \in seen : \E i \in DOMAIN Copies :
         Copies[i].file = file /\ Handled(stack, deps, missing, Copies[i])
  BY <1>1, <1>8, <1>9, <1>13
<1>17. \A i \in DOMAIN Copies : IsRecord(Copies[i])
  BY <1>8, <1>11
<1>18. \A j \in 1..Len(deps) :
         tree[deps[j].file].source => deps[j].file \in seen \/ Len(deps) >= MaxDeps
  BY <1>14
<1> QED BY <1>1, <1>6, <1>15, <1>16, <1>17, <1>18 DEF WalkInv

(* A reference that is missing ends all that is promised. *)
LEMMA MissKeeps ==
  ASSUME WalkInv, Miss, tree' = tree
  PROVE  WalkInv'
<1>1. /\ IsTree(tree) /\ IsStack(stack) /\ stack # <<>> /\ Top.refs # <<>>
      /\ stack' = Rest /\ missing' # {} /\ seen' = seen /\ deps' = deps
  BY DEF WalkInv, WalkType, Miss
<1>2. IsStack(stack)' /\ Len(stack') = Len(stack)
  BY <1>1, RestIs DEF IsStack, InFrame, Frames
<1>3. WalkType'
  BY <1>1, <1>2 DEF WalkInv, WalkType, Records, IsTree
<1>4. Copies' = Copies
  BY <1>1 DEF Copies
<1>5. \A i \in DOMAIN Copies' : IsRecord(Copies'[i])
  BY <1>4 DEF WalkInv
<1>6. \A i \in DOMAIN Copies' : Handled(stack, deps, missing, Copies[i])'
  BY <1>1 DEF Handled
<1>7. \A file \in seen' : tree'[file].readable => \E i \in DOMAIN Copies' : Copies'[i].file = file
  BY <1>1, <1>4 DEF WalkInv
<1> QED BY <1>1, <1>2, <1>3, <1>4, <1>5, <1>6, <1>7 DEF WalkInv

(* A call that returns has nothing pending. *)
LEMMA ReturnKeeps ==
  ASSUME WalkInv, Return, tree' = tree
  PROVE  WalkInv'
<1>1. /\ IsTree(tree) /\ IsStack(stack) /\ stack # <<>> /\ Top.refs = <<>>
      /\ stack' = Front(stack) /\ missing' = missing /\ seen' = seen /\ deps' = deps
  BY DEF WalkInv, WalkType, Return
<1>2. Len(stack) \in Nat \ {0} /\ stack \in Seq(Frames) /\ Top = stack[Len(stack)]
  BY <1>1, TopIs
<1>3. /\ Front(stack) \in Seq(Frames) /\ Len(Front(stack)) = Len(stack) - 1
      /\ \A m \in 1..Len(stack) - 1 : Front(stack)[m] = stack[m]
  BY <1>1, <1>2, FrontAndLast DEF Front
<1>4. IsStack(stack)' /\ Len(stack') = Len(stack) - 1
  <2>1. \A m \in 1..Len(Front(stack)) : InFrame(Front(stack)[m])
    BY <1>1, <1>2, <1>3 DEF IsStack
  <2> QED BY <1>1, <1>3, <2>1 DEF IsStack, InFrame, Frames
<1>5. WalkType'
  <2>1. Len(stack') <= Cardinality(seen')
    <3>1. Cardinality(seen) \in Nat /\ Len(stack) <= Cardinality(seen)
      BY FS_CardinalityType DEF WalkInv, WalkType
    <3> QED BY <1>1, <1>2, <1>4, <3>1
  <2> QED BY <1>1, <2>1 DEF WalkInv, WalkType, Records, IsTree
<1>6. Copies' = Copies
  BY <1>1 DEF Copies
<1>7. \A i \in DOMAIN Copies' : IsRecord(Copies'[i])
  BY <1>6 DEF WalkInv
<1>8. ASSUME NEW file \in DOMAIN tree, NEW dir, NEW n \in DOMAIN tree[file].refs,
             Pending(stack, file, dir, n)
      PROVE  Pending(stack', file, dir, n)
  <2>1. PICK m \in 1..Len(stack) : /\ stack[m].file = file /\ stack[m].dir = dir
                                   /\ n > Len(tree[file].refs) - Len(stack[m].refs)
    BY <1>8 DEF Pending
  <2>2. n \in 1..Len(tree[file].refs) /\ Len(tree[file].refs) \in Nat
    BY <1>1, TreeIs
  <2>3. m # Len(stack)
    <3> SUFFICES ASSUME m = Len(stack) PROVE FALSE
      OBVIOUS
    <3>1. Len(stack[m].refs) = 0
      BY <1>1, <1>2
    <3> QED BY <2>1, <2>2, <3>1
  <2>4. m \in 1..Len(stack) - 1
    BY <1>2, <2>3
  <2> QED BY <1>1, <1>3, <2>1, <2>4 DEF Pending
<1>9. ASSUME NEW copy, copy.file \in DOMAIN tree, Handled(stack, deps, missing, copy)
      PROVE  Handled(stack, deps, missing, copy)'
  <2>1. \A n \in DOMAIN tree[copy.file].refs :
          Pending(stack, copy.file, Front(copy.rel), n) =>
            Pending(stack', copy.file, Front(copy.rel), n)
    BY <1>8, <1>9
  <2> QED BY <1>1, <1>9, <2>1 DEF Handled, Recorded, Pending
<1>10. ASSUME NEW file \in seen', tree'[file].readable
       PROVE  \E i \in DOMAIN Copies' : Copies'[i].file = file /\ Handled(stack, deps, missing, Copies[i])'
  <2>1. PICK i \in DOMAIN Copies : Copies[i].file = file /\ Handled(stack, deps, missing, Copies[i])
    BY <1>1, <1>10 DEF WalkInv
  <2>2. file \in DOMAIN tree
    BY <1>1 DEF WalkInv, WalkType
  <2> QED BY <1>6, <1>9, <2>1, <2>2
<1> QED BY <1>1, <1>4, <1>5, <1>6, <1>7, <1>10 DEF WalkInv

(* A reference that is followed is recorded; a file that is entered has    *)
(* its references on the stack.                                            *)
LEMMA FollowKeeps ==
  ASSUME WalkInv, Follow, tree' = tree
  PROVE  WalkInv'
<1> DEFINE file == Target(Top.file, Ref)
           new == [file |-> file, rel |-> Rel]
           dir == Front(Rel)
           frame == Frame(file, dir)
           enters == tree[file].source /\ Enters(file)
<1>1. /\ IsTree(tree) /\ IsStack(stack) /\ stack # <<>> /\ Top.refs # <<>> /\ Found
      /\ deps \in Seq(Records) /\ seen \subseteq DOMAIN tree /\ IsFiniteSet(seen)
      /\ Len(stack) <= Cardinality(seen)
  BY DEF WalkInv, WalkType, Follow
<1>2. /\ deps' = Append(deps, new) /\ missing' = missing
      /\ seen' = (IF enters THEN seen \cup {file} ELSE seen)
      /\ stack' = (IF enters /\ tree[file].readable THEN Append(Rest, frame) ELSE Rest)
  BY Zenon DEF Follow, Dirname
<1>3. /\ file \in DOMAIN tree /\ file = Normal(Home, Rel) /\ IsRel(Rel)
      /\ dir \in Seq(Names) /\ UpFirst(dir) /\ Front(file) = Normal(Home, dir)
  BY <1>1, FoundIs
<1>4. enters => file \notin seen /\ Len(deps') < MaxDeps
  BY DEF Enters
<1>5. ~Absolute(Ref) /\ Rel = Normal(Top.dir, Ref)
  BY <1>1 DEF Found, Rel
<1>6. /\ Ref \in Seq(Names) \ {<<>>}
      /\ IsStack(Rest) /\ Len(Rest) = Len(stack) /\ Rest \in Seq(Frames)
      /\ \A f \in DOMAIN tree : \A d : \A n \in DOMAIN tree[f].refs :
           Pending(stack, f, d, n) =>
             Pending(Rest, f, d, n) \/ (f = Top.file /\ d = Top.dir /\ tree[f].refs[n] = Ref)
  <2>1. IsStack(Rest)
    BY <1>1, RestIs
  <2> QED BY <1>1, <2>1, RestIs DEF IsStack
<1>7. ~enters => (tree[file].source => file \in seen \/ Len(deps') >= MaxDeps)
  <2>1. Len(deps') \in Nat /\ MaxDeps \in Nat
    <3>1. new \in Records
      BY <1>3 DEF Records, IsRel
    <3> HIDE DEF new
    <3> QED BY <1>1, <1>2, <3>1, WalkAssumption DEF WalkAssumption
  <2> QED BY <2>1 DEF Enters
<1>8. tree[file].refs \in Seq(Seq(Names) \ {<<>>})
  BY <1>1, <1>3, TreeIs
<1>9. frame.file = file /\ frame.dir = dir /\ frame.refs = tree[file].refs /\ frame \in Frames
  BY <1>3, <1>8 DEF Frame, Frames
<1>10. new \in Records /\ new.file = file /\ new.rel = Rel /\ IsRecord(new)
  BY <1>3 DEF Records, IsRel, IsRecord
<1> HIDE DEF frame, new, dir, enters
<1>11. InFrame(frame)
  BY <1>3, <1>8, <1>9 DEF InFrame
<1>12. /\ stack' \in Seq(Frames) /\ Len(Rest) \in Nat
       /\ Len(stack') = (IF enters /\ tree[file].readable THEN Len(Rest) + 1 ELSE Len(Rest))
       /\ \A m \in 1..Len(Rest) : stack'[m] = Rest[m]
       /\ (enters /\ tree[file].readable) => stack'[Len(Rest) + 1] = frame
  BY <1>2, <1>6, <1>9
<1>13. IsStack(stack')
  <2> SUFFICES ASSUME NEW m \in 1..Len(stack') PROVE InFrame(stack'[m])
    BY <1>12 DEF IsStack
  <2>1. CASE m \in 1..Len(Rest)
    BY <1>6, <1>12, <2>1 DEF IsStack
  <2>2. CASE m \notin 1..Len(Rest)
    <3>1. enters /\ tree[file].readable /\ m = Len(Rest) + 1
      BY <1>12, <2>2
    <3> QED BY <1>11, <1>12, <3>1
  <2> QED BY <2>1, <2>2
<1>14. IsStack(stack)'
  BY <1>13 DEF IsStack, InFrame, Frames
<1>15. /\ deps' \in Seq(Records) /\ Len(deps') = Len(deps) + 1 /\ Len(deps) \in Nat
       /\ deps'[Len(deps) + 1] = new /\ \A j \in 1..Len(deps) : deps'[j] = deps[j]
  BY <1>1, <1>2, <1>10
<1>16. IsFiniteSet(seen') /\ Len(stack') <= Cardinality(seen')
  <2>0. Cardinality(seen) \in Nat
    BY <1>1, FS_CardinalityType
  <2>1. CASE enters
    <3>1. IsFiniteSet(seen \cup {file}) /\ Cardinality(seen \cup {file}) = Cardinality(seen) + 1
      BY <1>1, <1>4, <2>1, FS_AddElement, Zenon
    <3> QED BY <1>1, <1>2, <1>6, <1>12, <2>0, <2>1, <3>1
  <2>2. CASE ~enters
    BY <1>1, <1>2, <1>6, <1>12, <2>0, <2>2
  <2> QED BY <2>1, <2>2
<1>17. WalkType'
  <2>1. seen' \subseteq DOMAIN tree
    BY <1>1, <1>2, <1>3
  <2> QED BY <1>1, <1>15, <1>16, <2>1 DEF WalkType, Records, IsTree
<1>18. Copies = CopiesOf(deps) /\ Copies' = CopiesOf(deps')
  BY DEF Copies, CopiesOf
<1>19. /\ DOMAIN Copies = 1..Len(deps) + 1 /\ DOMAIN Copies' = 1..Len(deps) + 2
       /\ \A i \in DOMAIN Copies : i \in DOMAIN Copies' /\ Copies'[i] = Copies[i]
       /\ Copies'[Len(deps) + 2] = new
  <2>1. /\ DOMAIN Copies = 1..Len(deps) + 1 /\ DOMAIN Copies' = 1..Len(deps') + 1
        /\ Copies[1] = Copies'[1]
        /\ \A j \in 1..Len(deps) : Copies[j + 1] = deps[j]
        /\ \A j \in 1..Len(deps') : Copies'[j + 1] = deps'[j]
    BY <1>1, <1>15, <1>18, CopiesAre
  <2>2. DOMAIN Copies' = 1..Len(deps) + 2
    BY <1>15, <2>1
  <2>3. ASSUME NEW i \in 1..Len(deps) + 1 PROVE Copies'[i] = Copies[i]
    <3>1. CASE i = 1
      BY <2>1, <3>1
    <3>2. CASE i # 1
      <4>1. i - 1 \in 1..Len(deps) /\ i - 1 \in 1..Len(deps') /\ i = (i - 1) + 1
        BY <1>15, <3>2
      <4>2. Copies[(i - 1) + 1] = deps[i - 1] /\ Copies'[(i - 1) + 1] = deps'[i - 1]
        BY <2>1, <4>1
      <4>3. deps'[i - 1] = deps[i - 1]
        BY <1>15, <4>1
      <4>4. Copies[i] = deps[i - 1] /\ Copies'[i] = deps'[i - 1]
        BY <4>1, <4>2
      <4> QED BY <4>3, <4>4
    <3> QED BY <3>1, <3>2
  <2>4. Copies'[(Len(deps) + 1) + 1] = new
    <3>1. Len(deps) + 1 \in 1..Len(deps')
      BY <1>15
    <3> QED BY <1>15, <2>1, <3>1
  <2>5. (Len(deps) + 1) + 1 = Len(deps) + 2
    BY <1>15
  <2> QED BY <1>15, <2>1, <2>2, <2>3, <2>4, <2>5
<1>20. \A i \in DOMAIN Copies' : IsRecord(Copies'[i])
  <2> SUFFICES ASSUME NEW i \in DOMAIN Copies' PROVE IsRecord(Copies'[i])
    OBVIOUS
  <2>1. i \in DOMAIN Copies \/ i = Len(deps) + 2
    BY <1>15, <1>19
  <2> QED BY <1>10, <1>19, <2>1 DEF WalkInv
<1>21. ASSUME NEW j \in 1..Len(deps'), tree'[deps'[j].file].source
       PROVE  deps'[j].file \in seen' \/ Len(deps') >= MaxDeps
  <2>1. CASE j \in 1..Len(deps)
    <3>1. deps[j].file \in seen \/ Len(deps) >= MaxDeps
      BY <1>15, <1>21, <2>1 DEF WalkInv
    <3> QED BY <1>2, <1>15, <2>1, <3>1, WalkAssumption DEF WalkAssumption
  <2>2. CASE j \notin 1..Len(deps)
    <3>1. j = Len(deps) + 1
      BY <1>15, <2>2
    <3>2. deps'[j].file = file
      BY <1>10, <1>15, <3>1
    <3> QED BY <1>2, <1>7, <1>21, <3>2
  <2> QED BY <2>1, <2>2
<1>22. ASSUME NEW copy, copy.file \in DOMAIN tree, Handled(stack, deps, missing, copy)
       PROVE  Handled(stack', deps', missing', copy)
  <2> SUFFICES ASSUME NEW n \in DOMAIN tree[copy.file].refs
               PROVE  \/ missing # {}
                      \/ Recorded(deps', copy, tree[copy.file].refs[n])
                      \/ Pending(stack', copy.file, Front(copy.rel), n)
    BY <1>2 DEF Handled
  <2>1. CASE Recorded(deps, copy, tree[copy.file].refs[n])
    <3>1. 1..Len(deps) \subseteq 1..Len(deps')
      BY <1>15
    <3> QED BY <1>15, <2>1, <3>1 DEF Recorded
  <2>2. CASE Pending(Rest, copy.file, Front(copy.rel), n)
    <3>1. 1..Len(Rest) \subseteq 1..Len(stack')
      BY <1>12
    <3> QED BY <1>12, <2>2, <3>1 DEF Pending
  <2>3. CASE copy.file = Top.file /\ Front(copy.rel) = Top.dir /\ tree[copy.file].refs[n] = Ref
    <3>1. deps'[Len(deps) + 1] = [file |-> Target(copy.file, Ref), rel |-> Normal(Front(copy.rel), Ref)]
      BY <1>5, <1>15, <2>3 DEF new
    <3>2. Len(deps) + 1 \in 1..Len(deps')
      BY <1>15
    <3> QED BY <1>5, <2>3, <3>1, <3>2 DEF Recorded
  <2>4. \/ missing # {} \/ Recorded(deps, copy, tree[copy.file].refs[n])
        \/ Pending(stack, copy.file, Front(copy.rel), n)
    BY <1>22 DEF Handled
  <2> QED BY <1>6, <1>22, <2>1, <2>2, <2>3, <2>4
<1>23. ASSUME enters, tree[file].readable PROVE Handled(stack', deps', missing', new)
  <2> SUFFICES ASSUME NEW n \in DOMAIN tree[file].refs PROVE Pending(stack', file, dir, n)
    BY <1>10 DEF Handled, dir
  <2>1. n \in 1..Len(tree[file].refs) /\ Len(tree[file].refs) \in Nat
    BY <1>8
  <2>2. /\ Len(Rest) + 1 \in 1..Len(stack') /\ stack'[Len(Rest) + 1] = frame
    BY <1>12, <1>23
  <2>3. n > Len(tree[file].refs) - Len(frame.refs)
    BY <1>9, <2>1
  <2> QED BY <1>9, <2>2, <2>3 DEF Pending
<1>24. ASSUME NEW f \in seen', tree'[f].readable
       PROVE  \E i \in DOMAIN Copies' :
                Copies'[i].file = f /\ Handled(stack, deps, missing, Copies[i])'
  <2>1. \E i \in DOMAIN Copies' :
          Copies'[i].file = f /\ Handled(stack', deps', missing', Copies'[i])
    <3>1. CASE f \in seen
      <4>1. PICK i \in DOMAIN Copies :
              Copies[i].file = f /\ Handled(stack, deps, missing, Copies[i])
        BY <1>24, <3>1 DEF WalkInv
      <4>2. Handled(stack', deps', missing', Copies[i])
        BY <1>1, <1>22, <3>1, <4>1
      <4> QED BY <1>19, <4>1, <4>2
    <3>2. CASE f \notin seen
      <4>1. enters /\ f = file
        BY <1>2, <3>2
      <4>2. Len(deps) + 2 \in DOMAIN Copies'
        BY <1>15, <1>19
      <4> QED BY <1>10, <1>19, <1>23, <1>24, <4>1, <4>2
    <3> QED BY <3>1, <3>2
  <2> QED BY <2>1 DEF Handled, Recorded, Pending
<1>25. Subject \in seen'
  BY <1>2 DEF WalkInv
<1> QED BY <1>14, <1>17, <1>20, <1>21, <1>24, <1>25 DEF WalkInv

(* The walk's invariant is about the tree and the variables of the walk. *)
LEMMA WalkIsStill ==
  ASSUME WalkInv, UNCHANGED <<tree, walkVars>>
  PROVE  WalkInv'
<1>1. /\ tree' = tree /\ stack' = stack /\ seen' = seen /\ deps' = deps /\ missing' = missing
  BY DEF walkVars
<1>2. Copies' = Copies
  BY <1>1 DEF Copies
<1>3. WalkType'
  BY <1>1 DEF WalkInv, WalkType, IsTree, Records
<1>4. IsStack(stack)'
  <2>1. stack \in Seq(Frames) /\ \A m \in 1..Len(stack) : InFrame(stack[m])
    BY DEF WalkInv, IsStack
  <2>2. ASSUME NEW m \in 1..Len(stack) PROVE InFrame(stack[m])'
    <3>1. stack'[m] = stack[m] /\ InFrame(stack[m])
      BY <1>1, <2>1
    <3> QED BY <1>1, <3>1 DEF InFrame
  <2>3. stack' \in Seq(Frames)'
    BY <1>1, <2>1 DEF Frames
  <2> QED BY <1>1, <2>2, <2>3 DEF IsStack
<1>5. \A i \in DOMAIN Copies' : IsRecord(Copies'[i])
  BY <1>2 DEF WalkInv
<1>6. \A i \in DOMAIN Copies :
        Handled(stack, deps, missing, Copies[i]) => Handled(stack, deps, missing, Copies[i])'
  BY <1>1, <1>2 DEF Handled, Recorded, Pending
<1>7. \A file \in seen' : tree'[file].readable =>
        \E i \in DOMAIN Copies' : Copies'[i].file = file /\ Handled(stack, deps, missing, Copies[i])'
  BY <1>1, <1>2, <1>6 DEF WalkInv
<1> QED BY <1>1, <1>3, <1>4, <1>5, <1>7 DEF WalkInv

-----------------------------------------------------------------------------
(* The profile *)

(* A completed cache knows what was there, but for what is excepted. *)
Covered ==
  (completed # NoFile /\ warm # NoFile) =>
    \A d \in Dirs, k \in Keys :
      \/ completed[d][k] \notin Stamps \/ Twins(k) \/ Orphaned(k)
      \/ Knows(warm, k, completed[d][k])

(* What the phases have established. *)
InPhase ==
  /\ phase \in {"assemble", "launch", "launched"} => stack = <<>> /\ missing = {}
  /\ phase \in {"launch", "launched"} =>
       /\ seed \in Sources
       /\ \A i \in DOMAIN Copies : tree[Copies[i].file].readable
  /\ phase = "launched" => scanned = Scanned(seed)

Types ==
  /\ CacheTypeOK
  /\ phase \in {"idle", "walk", "assemble", "launch", "missing", "raised", "launched"}
  /\ user \in CacheFile /\ seed \in CacheFile
  /\ scanned \subseteq Dirs \X Keys

Inv == WalkInv /\ Types /\ Covered /\ InPhase

(* It holds at first. *)
LEMMA InvInit == Init => Inv
<1> SUFFICES ASSUME Init PROVE Inv
  OBVIOUS
<1>1. PICK world \in Worlds : tree = world.tree /\ warm = world.warm
                              /\ user = world.user /\ disk = world.disk
  BY DEF Init
<1>2. IsTree(tree) /\ warm \in CacheFile /\ user \in CacheFile /\ disk \in Disk
  BY <1>1, WorldAssumption DEF WorldAssumption
<1>3. WalkInv
  BY <1>2, WalkBegins DEF Init
<1>4. NoFile \in CacheFile
  BY DEF CacheFile
<1>5. Types
  BY <1>2, <1>4, CacheAssumption DEF Init, Types, CacheTypeOK, CacheAssumption
<1> QED BY <1>3, <1>5 DEF Inv, Covered, InPhase, Init

(* Its parts, one step each.  A completion covers what is there. *)
LEMMA CompleteCovers ==
  ASSUME Types, Complete
  PROVE  Covered'
<1>1. /\ warm' = Completed(warm) /\ completed' = disk /\ before' = warm
      /\ disk \in Disk /\ warm \in CacheFile
  BY DEF Complete, Types, CacheTypeOK
<1> SUFFICES ASSUME warm' # NoFile, NEW d \in Dirs, NEW k \in Keys,
                    disk[d][k] \in Stamps, ~Twins(k)', ~Orphaned(k)'
             PROVE  Knows(warm, k, completed[d][k])'
  BY <1>1 DEF Covered
<1>2. warm # NoFile
  BY <1>1 DEF Completed
<1>3. warm \in Seq(Line)
  BY <1>1, <1>2 DEF CacheFile
<1>4. \A e \in Dirs : disk[e][k] \in Stamps => disk[e][k] = disk[d][k]
  BY <1>1 DEF Twins
<1>5. ~Stray(warm, Len(warm), k)
  <2>1. DOMAIN warm = 1..Len(warm)
    BY <1>3
  <2> QED BY <1>1, <2>1 DEF Orphaned, Entries, Stray, SectionOf
<1>6. Knows(Completed(warm), k, disk[d][k])
  BY <1>1, <1>3, <1>4, <1>5, CompletedKnows
<1> QED BY <1>1, <1>6 DEF Knows, Entries, SectionOf

(* The steps keep the types. *)
LEMMA TypesKept == Types /\ [Next]_vars => Types'
<1> SUFFICES ASSUME Types, [Next]_vars PROVE Types'
  OBVIOUS
<1>1. CASE CompleteCache
  <2>1. /\ warm' = Completed(warm) /\ completed' = disk /\ before' = warm /\ disk' = disk
        /\ changes' = changes /\ phase' = phase /\ user' = user /\ seed' = seed
        /\ scanned' = scanned
    BY <1>1 DEF CompleteCache, Complete
  <2>2. Completed(warm) \in CacheFile
    BY CompletedType DEF Types, CacheTypeOK
  <2> QED BY <2>1, <2>2 DEF Types, CacheTypeOK
<1>2. CASE Change
  <2>1. /\ warm' = warm /\ completed' = completed /\ before' = before
        /\ changes < MaxChanges /\ changes' = changes + 1
        /\ phase' = phase /\ user' = user /\ seed' = seed /\ scanned' = scanned
    BY <1>2 DEF Change, ChangeDisk
  <2>2. PICK d \in Dirs, k \in Keys, stamp \in Stamps \cup {None} :
          disk' = [disk EXCEPT ![d][k] = stamp]
    BY <1>2 DEF Change, ChangeDisk
  <2>3. disk' \in Disk
    BY <2>2 DEF Types, CacheTypeOK, Disk
  <2>4. changes' \in 0..MaxChanges
    BY <2>1, CacheAssumption DEF Types, CacheTypeOK, CacheAssumption
  <2> QED BY <2>1, <2>3, <2>4 DEF Types, CacheTypeOK
<1>3. CASE StartWalk \/ Walk \/ EndWalk
  BY <1>3 DEF StartWalk, Walk, EndWalk, cacheVars, Types, CacheTypeOK
<1>4. CASE Assemble
  BY <1>4 DEF Assemble, cacheVars, Types, CacheTypeOK, Sources
<1>5. CASE Launch
  <2>1. Scanned(seed) \subseteq Dirs \X Keys
    BY DEF Scanned
  <2> QED BY <1>5, <2>1 DEF Launch, cacheVars, Types, CacheTypeOK
<1>6. CASE UNCHANGED vars
  BY <1>6 DEF vars, cacheVars, Types, CacheTypeOK
<1> QED BY <1>1, <1>2, <1>3, <1>4, <1>5, <1>6 DEF Next

(* Only Walk changes the walk. *)
LEMMA WalkKept == WalkInv /\ [Next]_vars => WalkInv'
<1> SUFFICES ASSUME WalkInv, [Next]_vars PROVE WalkInv'
  OBVIOUS
<1>1. CASE Walk
  BY <1>1, MissKeeps, FollowKeeps, ReturnKeeps DEF Walk
<1>2. CASE ~Walk
  <2>1. UNCHANGED <<tree, walkVars>>
    BY <1>2 DEF Next, CompleteCache, Change, StartWalk, EndWalk, Assemble, Launch, vars
  <2> QED BY <2>1, WalkIsStill
<1> QED BY <1>1, <1>2

(* Only CompleteCache changes the cache and what it was completed for. *)
LEMMA CoveredKept == Types /\ Covered /\ [Next]_vars => Covered'
<1> SUFFICES ASSUME Types, Covered, [Next]_vars PROVE Covered'
  OBVIOUS
<1>1. CASE CompleteCache
  BY <1>1, CompleteCovers DEF CompleteCache
<1>2. CASE ~CompleteCache
  <2>1. warm' = warm /\ completed' = completed /\ before' = before
    BY <1>2 DEF Next, Change, ChangeDisk, StartWalk, Walk, EndWalk, Assemble, Launch,
                vars, cacheVars
  <2>2. ASSUME NEW k PROVE (Twins(k)' <=> Twins(k)) /\ (Orphaned(k)' <=> Orphaned(k))
    BY <2>1 DEF Twins, Orphaned, Entries, SectionOf
  <2>3. ASSUME NEW d \in Dirs, NEW k \in Keys
        PROVE  Knows(warm, k, completed[d][k])' <=> Knows(warm, k, completed[d][k])
    BY <2>1 DEF Knows, Entries, SectionOf
  <2> SUFFICES ASSUME completed' # NoFile, warm' # NoFile, NEW d \in Dirs, NEW k \in Keys
               PROVE  \/ completed'[d][k] \notin Stamps \/ Twins(k)' \/ Orphaned(k)'
                      \/ Knows(warm, k, completed[d][k])'
    BY DEF Covered
  <2>4. \/ completed[d][k] \notin Stamps \/ Twins(k) \/ Orphaned(k)
        \/ Knows(warm, k, completed[d][k])
    BY <2>1 DEF Covered
  <2> QED BY <2>1, <2>2, <2>3, <2>4
<1> QED BY <1>1, <1>2

(* The phases establish what they say, and no later step takes it back. *)
LEMMA InPhaseKept == InPhase /\ [Next]_vars => InPhase'
<1> SUFFICES ASSUME InPhase, [Next]_vars PROVE InPhase'
  OBVIOUS
<1>1. CASE CompleteCache \/ StartWalk \/ Walk
  <2>1. phase' \in {"idle", "walk"}
    BY <1>1 DEF CompleteCache, StartWalk, Walk
  <2> QED BY <2>1 DEF InPhase
<1>2. CASE Change
  <2>1. /\ phase # "launched" /\ phase' = phase /\ tree' = tree /\ user' = user
        /\ seed' = seed /\ warm' = warm
        /\ stack' = stack /\ deps' = deps /\ missing' = missing
    BY <1>2 DEF Change, ChangeDisk, walkVars
  <2> QED BY <2>1 DEF InPhase, Sources, Copies
<1>3. CASE EndWalk
  <2>1. stack' = <<>> /\ missing' = missing /\ phase' \in {"assemble", "missing"}
        /\ (phase' = "assemble" => missing = {})
    BY <1>3 DEF EndWalk, Walked, walkVars
  <2> QED BY <2>1 DEF InPhase
<1>4. CASE Assemble
  <2>1. /\ phase = "assemble" /\ seed' \in Sources /\ phase' \in {"launch", "raised"}
        /\ phase' = "launch" => \A i \in DOMAIN Copies : tree[Copies[i].file].readable
        /\ tree' = tree /\ user' = user /\ warm' = warm
        /\ stack' = stack /\ deps' = deps /\ missing' = missing
    BY <1>4 DEF Assemble, walkVars, cacheVars
  <2> QED BY <2>1 DEF InPhase, Sources, Copies
<1>5. CASE Launch
  <2>1. /\ phase = "launch" /\ phase' = "launched" /\ scanned' = Scanned(seed)
        /\ tree' = tree /\ user' = user /\ warm' = warm /\ seed' = seed /\ disk' = disk
        /\ stack' = stack /\ deps' = deps /\ missing' = missing
    BY <1>5 DEF Launch, walkVars, cacheVars
  <2>2. Scanned(seed)' = Scanned(seed)
    BY <2>1 DEF Scanned, Knows, Entries, SectionOf
  <2> QED BY <2>1, <2>2 DEF InPhase, Sources, Copies
<1>6. CASE UNCHANGED vars
  <2>1. /\ phase' = phase /\ scanned' = scanned /\ tree' = tree /\ user' = user
        /\ warm' = warm /\ seed' = seed /\ disk' = disk
        /\ stack' = stack /\ deps' = deps /\ missing' = missing
    BY <1>6 DEF vars, walkVars, cacheVars
  <2>2. Scanned(seed)' = Scanned(seed)
    BY <2>1 DEF Scanned, Knows, Entries, SectionOf
  <2> QED BY <2>1, <2>2 DEF InPhase, Sources, Copies
<1> QED BY <1>1, <1>2, <1>3, <1>4, <1>5, <1>6 DEF Next

(* The inductive invariant holds in every state: the walk, the types, what *)
(* a completed cache covers and what each phase has established.           *)
THEOREM Invariance == Spec => []Inv
<1>1. Inv /\ [Next]_vars => Inv'
  BY TypesKept, WalkKept, CoveredKept, InPhaseKept DEF Inv
<1> QED BY InvInit, <1>1, PTL DEF Spec

-----------------------------------------------------------------------------
(* What follows from it *)

(* Every variable keeps to its type; the walk is never deeper than the     *)
(* files it has seen.                                                      *)
THEOREM TypeCorrect == Spec => []TypeOK
<1>1. Inv => TypeOK
  <2> SUFFICES ASSUME Inv PROVE TypeOK
    OBVIOUS
  <2>1. \A i \in DOMAIN deps : deps[i].file \in DOMAIN tree
    <3>1. deps \in Seq(Records)
      BY DEF Inv, WalkInv, WalkType
    <3>2. \A i \in DOMAIN deps : deps[i] \in Records
      BY <3>1
    <3> QED BY <3>2 DEF Records
  <2> QED BY <2>1 DEF Inv, WalkInv, WalkType, Types, TypeOK
<1> QED BY Invariance, <1>1, PTL

(* With a completed cache REAPER scans nothing that was there when it was  *)
(* completed and has not changed since.                                    *)
THEOREM KnownNotScanned == Spec => []KnownIsNotScanned
<1>1. Inv => KnownIsNotScanned
  <2> SUFFICES ASSUME Inv, phase = "launched", completed # NoFile, warm # NoFile,
                      NEW p \in scanned
               PROVE  \/ completed[p[1]][p[2]] # disk[p[1]][p[2]] \/ disk[p[1]][p[2]] = Broken
                      \/ Twins(p[2]) \/ Orphaned(p[2])
    BY DEF KnownIsNotScanned
  <2>1. scanned = Scanned(warm)
    BY DEF Inv, InPhase, Sources
  <2>2. /\ p[1] \in Dirs /\ p[2] \in Keys /\ disk[p[1]][p[2]] # None
        /\ ~Knows(warm, p[2], disk[p[1]][p[2]])
    BY <2>1 DEF Scanned
  <2>3. disk[p[1]][p[2]] \in Stamps \cup {None, Broken}
    BY <2>2 DEF Inv, Types, CacheTypeOK, Disk
  <2> QED BY <2>2, <2>3 DEF Inv, Covered
<1> QED BY Invariance, <1>1, PTL

(* Where a record's file is installed nothing else is, but for namesakes.  *)
LEMMA InstalledAlone ==
  ASSUME WalkInv, ~Namesake, NEW j \in DOMAIN Copies
  PROVE  /\ Place(Copies[j]) \in DOMAIN Installed
         /\ Installed[Place(Copies[j])] = Copies[j].file
<1> DEFINE place == Place(Copies[j])
           at == {i \in DOMAIN Copies : Place(Copies[i]) = place}
           i == Max(at)
<1>1. /\ DOMAIN Copies = 1..Len(deps) + 1 /\ Len(deps) \in Nat /\ IsTree(tree)
      /\ Copies[1].rel = <<Last(Subject)>> /\ \A m \in 1..Len(deps) : Copies[m + 1] = deps[m]
      /\ deps \in Seq(Records)
  <2>1. IsTree(tree) /\ deps \in Seq(Records)
    BY DEF WalkInv, WalkType
  <2>2. Copies = CopiesOf(deps)
    BY DEF Copies, CopiesOf
  <2> QED BY <2>1, <2>2, CopiesAre
<1>2. j \in at /\ at \subseteq 1..Len(deps) + 1
  BY <1>1
<1> HIDE DEF at, place
<1>3. i \in at /\ i \in DOMAIN Copies
  <2>1. \A x \in at : x \in Nat /\ x <= Len(deps) + 1
    BY <1>1, <1>2
  <2>2. Max(at) \in at
    BY <1>1, <1>2, <2>1, Largest
  <2> QED BY <1>1, <1>2, <2>2
<1>4. place \in DOMAIN Installed /\ Installed[place] = Copies[i].file
  BY Zenon DEF Installed, place, at
<1>5. \A m \in DOMAIN Copies : IsRel(Copies[m].rel) /\ Copies[m].file = Normal(Home, Copies[m].rel)
  BY DEF WalkInv, IsRecord
<1>6. ASSUME NEW m \in DOMAIN Copies PROVE ~IsPrefix(<<"..", Last(Root)>>, Copies[m].rel)
  <2>1. CASE m = 1
    <3>1. Len(Copies[m].rel) = 1
      BY <1>1, <2>1
    <3>2. Len(<<"..", Last(Root)>>) = 2
      OBVIOUS
    <3> QED BY <3>1, <3>2 DEF IsPrefix
  <2>2. CASE m # 1
    <3>1. m - 1 \in 1..Len(deps) /\ (m - 1) + 1 = m
      BY <1>1, <2>2
    <3>2. Copies[m] = deps[m - 1] /\ m - 1 \in DOMAIN deps
      BY <1>1, <3>1
    <3> QED BY <3>2 DEF Namesake
  <2> QED BY <2>1, <2>2
<1>7. Normal(Root, Copies[i].rel) = Normal(Root, Copies[j].rel)
  BY <1>3 DEF at, place, Place
<1>8. Copies[i].rel = Copies[j].rel
  BY <1>3, <1>5, <1>6, <1>7, PlaceOnce
<1> QED BY <1>3, <1>4, <1>5, <1>8 DEF place

(* A reference that is recorded leads to its copy.                         *)
LEMMA RecordedResolves ==
  ASSUME WalkInv, ~Namesake, NEW c \in DOMAIN Copies,
         NEW ref \in Seq(Names), Recorded(deps, Copies[c], ref)
  PROVE  LET place == Normal(Front(Place(Copies[c])), ref)
         IN place \in DOMAIN Installed /\ Installed[place] = Target(Copies[c].file, ref)
<1> DEFINE copy == Copies[c]
           rel == Normal(Front(copy.rel), ref)
<1>1. PICK j \in 1..Len(deps) : deps[j] = [file |-> Target(copy.file, ref), rel |-> rel]
  BY DEF Recorded
<1>2. j + 1 \in DOMAIN Copies /\ Copies[j + 1] = deps[j]
  <2>1. IsTree(tree) /\ deps \in Seq(Records)
    BY DEF WalkInv, WalkType
  <2>2. Copies = CopiesOf(deps)
    BY DEF Copies, CopiesOf
  <2>3. DOMAIN Copies = 1..Len(deps) + 1 /\ Len(deps) \in Nat
        /\ \A m \in 1..Len(deps) : Copies[m + 1] = deps[m]
    BY <2>1, <2>2, CopiesAre
  <2> QED BY <2>3
<1>3. Copies[j + 1].file = Target(copy.file, ref) /\ Copies[j + 1].rel = rel
  BY <1>1, <1>2
<1>4. IsRel(copy.rel) /\ Root \in Seq(Names) /\ Front(copy.rel) \in Seq(Names)
  <2>1. IsRel(copy.rel)
    BY DEF WalkInv, IsRecord
  <2> QED BY <2>1, PlaceBelow, PathFront DEF IsRel
<1>5. Normal(Front(Place(copy)), ref) = Place(Copies[j + 1])
  <2>1. Front(Place(copy)) = Normal(Root, Front(copy.rel))
    BY <1>4, NormalFront DEF Place
  <2>2. Normal(Normal(Root, Front(copy.rel)), ref) = Normal(Root, rel)
    BY <1>4, NormalComposes
  <2> QED BY <1>3, <2>1, <2>2 DEF Place
<1>6. /\ Place(Copies[j + 1]) \in DOMAIN Installed
      /\ Installed[Place(Copies[j + 1])] = Copies[j + 1].file
  BY <1>2, InstalledAlone
<1> QED BY <1>3, <1>5, <1>6

(* A subject that is launched finds in the profile the very files it finds *)
(* at home.                                                                *)
THEOREM ResolvesLikeAtHome == Spec => []ResolvesAlike
<1>1. Inv => ResolvesAlike
  <2> SUFFICES ASSUME Inv, phase = "launched", NEW i \in DOMAIN Copies,
                      ~(Len(deps) >= MaxDeps), tree[Copies[i].file].source,
                      ~Aliased(Copies[i].file), ~Namesake,
                      NEW n \in DOMAIN tree[Copies[i].file].refs
               PROVE  LET ref == tree[Copies[i].file].refs[n]
                          place == Normal(Front(Place(Copies[i])), ref)
                      IN place \in DOMAIN Installed
                         /\ Installed[place] = Target(Copies[i].file, ref)
    BY Zenon DEF ResolvesAlike
  <2> DEFINE file == Copies[i].file
             ref == tree[file].refs[n]
  <2>1. /\ WalkInv /\ IsTree(tree) /\ deps \in Seq(Records) /\ stack = <<>> /\ missing = {}
        /\ tree[file].readable
    BY DEF Inv, InPhase, WalkInv, WalkType
  <2>2. file \in seen /\ file \in DOMAIN tree
    <3>1. Copies = CopiesOf(deps)
      BY DEF Copies, CopiesOf
    <3>2. /\ DOMAIN Copies = 1..Len(deps) + 1 /\ Len(deps) \in Nat
          /\ Copies[1] = [file |-> Subject, rel |-> <<Last(Subject)>>]
          /\ \A m \in 1..Len(deps) : Copies[m + 1] = deps[m]
      BY <2>1, <3>1, CopiesAre
    <3>3. CASE i = 1
      BY <2>1, <3>2, <3>3 DEF WalkInv, WalkType
    <3>4. CASE i # 1
      <4>1. i - 1 \in 1..Len(deps) /\ (i - 1) + 1 = i
        BY <3>2, <3>4
      <4>2. Copies[i] = deps[i - 1]
        BY <3>2, <4>1
      <4>3. file \in seen
        BY <2>1, <4>1, <4>2 DEF WalkInv
      <4> QED BY <2>1, <4>3 DEF WalkInv, WalkType
    <3> QED BY <3>3, <3>4
  <2>3. ref \in Seq(Names)
    <3>1. tree[file].refs \in Seq(Seq(Names) \ {<<>>})
      BY <2>1, <2>2, TreeIs
    <3> QED BY <3>1
  <2>4. PICK c \in DOMAIN Copies :
          Copies[c].file = file /\ Handled(stack, deps, missing, Copies[c])
    BY <2>1, <2>2 DEF WalkInv
  <2>5. Recorded(deps, Copies[c], ref)
    <3>1. Recorded(deps, Copies[c], ref) \/ Pending(stack, file, Front(Copies[c].rel), n)
      BY <2>1, <2>4 DEF Handled
    <3>2. ~Pending(stack, file, Front(Copies[c].rel), n)
      BY <2>1 DEF Pending
    <3> QED BY <3>1, <3>2
  <2>6. Place(Copies[i]) = Place(Copies[c])
    BY <2>4, Zenon DEF Aliased
  <2> HIDE DEF ref
  <2>7. /\ Normal(Front(Place(Copies[c])), ref) \in DOMAIN Installed
        /\ Installed[Normal(Front(Place(Copies[c])), ref)] = Target(file, ref)
    BY <2>1, <2>3, <2>4, <2>5, RecordedResolves
  <2> QED BY <2>6, <2>7 DEF ref
<1> QED BY Invariance, <1>1, PTL

-----------------------------------------------------------------------------
(* The lines that a completion has to keep, line by line. *)

Keep(acc, line, keys) == IF line.name \in keys THEN acc ELSE Append(acc, line)

IsKept(kept, file, keys, m) ==
  kept = [n \in 0..m |-> IF n = 0 THEN <<>>
                         ELSE IF file[n].name \in keys THEN kept[n - 1]
                                                       ELSE Append(kept[n - 1], file[n])]

(* The recursive function of Kept exists, for every number of lines. *)
LEMMA KeptExists ==
  ASSUME NEW file, NEW keys, NEW m \in Nat
  PROVE  \E kept : IsKept(kept, file, keys, m)
<1> DEFINE S == {n \in Nat : \E kept : IsKept(kept, file, keys, n)}
<1>1. 0 \in S
  <2> DEFINE kept == [n \in 0..0 |-> <<>>]
  <2>1. kept = [n \in 0..0 |-> IF n = 0 THEN <<>>
                               ELSE IF file[n].name \in keys THEN kept[n - 1]
                                                             ELSE Append(kept[n - 1], file[n])]
    OBVIOUS
  <2>2. IsKept(kept, file, keys, 0)
    BY <2>1, Zenon DEF IsKept
  <2> QED BY <2>2
<1>2. ASSUME NEW n \in Nat, n \in S PROVE n + 1 \in S
  <2>1. PICK kept : IsKept(kept, file, keys, n)
    BY <1>2
  <2> DEFINE last == Keep(kept[n], file[n + 1], keys)
             more == [i \in 0..n + 1 |-> IF i = n + 1 THEN last ELSE kept[i]]
  <2>2. ASSUME NEW i \in 0..n + 1
        PROVE  more[i] = IF i = 0 THEN <<>> ELSE Keep(more[i - 1], file[i], keys)
    <3>1. CASE i = n + 1
      <4>1. more[i] = last /\ more[i - 1] = kept[n] /\ file[i] = file[n + 1] /\ i # 0
        <5> HIDE DEF last
        <5> QED BY <3>1
      <4> HIDE DEF more
      <4> QED BY <4>1
    <3>2. CASE i # n + 1
      <4>1. i \in 0..n /\ more[i] = kept[i]
        <5> HIDE DEF last
        <5> QED BY <3>2
      <4>2. kept[i] = IF i = 0 THEN <<>> ELSE Keep(kept[i - 1], file[i], keys)
        <5>1. kept = [k \in 0..n |-> IF k = 0 THEN <<>>
                                     ELSE IF file[k].name \in keys THEN kept[k - 1]
                                                   ELSE Append(kept[k - 1], file[k])]
          BY <2>1, Zenon DEF IsKept
        <5> QED BY <4>1, <5>1, Zenon DEF Keep
      <4>3. i # 0 => more[i - 1] = kept[i - 1]
        <5> HIDE DEF last
        <5> QED BY <4>1
      <4> HIDE DEF more
      <4> QED BY <4>1, <4>2, <4>3, Zenon
    <3> QED BY <3>1, <3>2
  <2>3. more = [i \in 0..n + 1 |-> more[i]]
    <3> HIDE DEF last
    <3> QED OBVIOUS
  <2>4. more = [i \in 0..n + 1 |-> IF i = 0 THEN <<>> ELSE Keep(more[i - 1], file[i], keys)]
    <3> HIDE DEF more
    <3> QED BY <2>2, <2>3, Zenon
  <2>5. IsKept(more, file, keys, n + 1)
    <3> HIDE DEF more
    <3> QED BY <2>4, Zenon DEF IsKept, Keep
  <2> HIDE DEF more
  <2> QED BY <2>5
<1>3. Nat \subseteq S
  <2> HIDE DEF S
  <2> QED BY <1>1, <1>2, Induct
<1> QED BY <1>3

KeptOf(file, keys) == CHOOSE kept : IsKept(kept, file, keys, Len(file))

(* Its equations. *)
LEMMA KeptEquations ==
  ASSUME NEW file \in Seq(Line), NEW keys
  PROVE  /\ Kept(file, keys) = KeptOf(file, keys)[Len(file)]
         /\ KeptOf(file, keys)[0] = <<>>
         /\ \A n \in Nat : n < Len(file) =>
              KeptOf(file, keys)[n + 1] = Keep(KeptOf(file, keys)[n], file[n + 1], keys)
<1> DEFINE kept == KeptOf(file, keys)
<1>1. Len(file) \in Nat
  OBVIOUS
<1>2. \E f : IsKept(f, file, keys, Len(file))
  BY <1>1, KeptExists
<1>3. IsKept(kept, file, keys, Len(file))
  BY <1>2, Zenon DEF KeptOf
<1>4. Kept(file, keys) = kept[Len(file)]
  BY Zenon DEF Kept, KeptOf, IsKept
<1> HIDE DEF kept
<1>5. kept = [n \in 0..Len(file) |-> IF n = 0 THEN <<>>
                                     ELSE IF file[n].name \in keys THEN kept[n - 1]
                                                   ELSE Append(kept[n - 1], file[n])]
  BY <1>3, Zenon DEF IsKept
<1>6. ASSUME NEW n \in 0..Len(file)
      PROVE  kept[n] = IF n = 0 THEN <<>> ELSE Keep(kept[n - 1], file[n], keys)
  BY <1>5, Zenon DEF Keep
<1>7. kept[0] = <<>>
  <2>1. 0 \in 0..Len(file)
    BY <1>1
  <2> QED BY <1>6, <2>1, Zenon
<1>8. ASSUME NEW n \in Nat, n < Len(file) PROVE kept[n + 1] = Keep(kept[n], file[n + 1], keys)
  <2>1. n + 1 \in 0..Len(file) /\ n + 1 # 0 /\ (n + 1) - 1 = n
    BY <1>1, <1>8
  <2> QED BY <1>6, <2>1, Zenon
<1> QED BY <1>4, <1>7, <1>8 DEF kept

(* Nothing is kept of nothing. *)
LEMMA KeptEmpty == ASSUME NEW keys PROVE Kept(<<>>, keys) = <<>>
<1>1. <<>> \in Seq(Line) /\ Len(<<>>) = 0
  OBVIOUS
<1> QED BY <1>1, KeptEquations

(* A line more is kept, or it is not. *)
LEMMA KeptAppend ==
  ASSUME NEW file \in Seq(Line), NEW line \in Line, NEW keys
  PROVE  Kept(Append(file, line), keys) = Keep(Kept(file, keys), line, keys)
<1> DEFINE r == Append(file, line)
           p == KeptOf(file, keys)
           q == KeptOf(r, keys)
           S == {n \in Nat : n <= Len(file) => p[n] = q[n]}
<1>1. r \in Seq(Line) /\ Len(r) = Len(file) + 1 /\ r[Len(file) + 1] = line /\ Len(file) \in Nat
      /\ \A i \in 1..Len(file) : r[i] = file[i]
  OBVIOUS
<1> HIDE DEF r
<1>2. /\ Kept(file, keys) = p[Len(file)] /\ p[0] = <<>>
      /\ \A n \in Nat : n < Len(file) => p[n + 1] = Keep(p[n], file[n + 1], keys)
  BY KeptEquations
<1>3. /\ Kept(r, keys) = q[Len(r)] /\ q[0] = <<>>
      /\ \A n \in Nat : n < Len(r) => q[n + 1] = Keep(q[n], r[n + 1], keys)
  BY <1>1, KeptEquations
<1> HIDE DEF p, q
<1>4. 0 \in S
  BY <1>2, <1>3
<1>5. ASSUME NEW n \in Nat, n \in S PROVE n + 1 \in S
  <2> SUFFICES ASSUME n + 1 <= Len(file) PROVE p[n + 1] = q[n + 1]
    OBVIOUS
  <2>1. n < Len(file) /\ n < Len(r) /\ n + 1 \in 1..Len(file) /\ p[n] = q[n]
    BY <1>1, <1>5
  <2> QED BY <1>1, <1>2, <1>3, <2>1
<1>6. Nat \subseteq S
  <2> HIDE DEF S
  <2> QED BY <1>4, <1>5, Induct
<1>7. p[Len(file)] = q[Len(file)]
  BY <1>1, <1>6
<1>8. q[Len(file) + 1] = Keep(q[Len(file)], r[Len(file) + 1], keys)
  BY <1>1, <1>3
<1> QED BY <1>1, <1>2, <1>3, <1>7, <1>8 DEF r

(* What is kept are lines. *)
LEMMA KeptType ==
  ASSUME NEW file \in Seq(Line), NEW keys
  PROVE  Kept(file, keys) \in Seq(Line)
<1> DEFINE S == {f \in Seq(Line) : Kept(f, keys) \in Seq(Line)}
<1>1. <<>> \in S
  <2>1. Kept(<<>>, keys) = <<>> /\ <<>> \in Seq(Line)
    BY KeptEmpty
  <2> QED BY <2>1
<1>2. ASSUME NEW f \in Seq(Line), NEW x \in Line, f \in S PROVE Append(f, x) \in S
  <2>1. Kept(Append(f, x), keys) = Keep(Kept(f, keys), x, keys) /\ Append(f, x) \in Seq(Line)
    BY KeptAppend
  <2>2. Kept(f, keys) \in Seq(Line)
    BY <1>2
  <2>3. Keep(Kept(f, keys), x, keys) \in Seq(Line)
    <3>1. Append(Kept(f, keys), x) \in Seq(Line)
      BY <2>2
    <3> QED BY <2>2, <3>1, Zenon DEF Keep
  <2> HIDE DEF S
  <2>4. Kept(Append(f, x), keys) \in Seq(Line)
    BY <2>1, <2>3
  <2> QED BY <2>1, <2>4 DEF S
<1>3. Seq(Line) \subseteq S
  <2> HIDE DEF S
  <2> QED BY <1>1, <1>2, SequenceInduct
<1> QED BY <1>3

(* Entries of the keys that are written do not count. *)
LEMMA KeptBefore ==
  ASSUME NEW o \in Seq(Line), NEW keys, NEW g \in Seq(Line), \A j \in 1..Len(g) : g[j].name \in keys
  PROVE  Kept(o \o g, keys) = Kept(o, keys)
<1> DEFINE S == {r \in Seq(Line) : (\A j \in 1..Len(r) : r[j].name \in keys) =>
                                     Kept(o \o r, keys) = Kept(o, keys)}
<1>1. <<>> \in S
  <2>1. o \o <<>> = o
    OBVIOUS
  <2> QED BY <2>1
<1>2. ASSUME NEW r \in Seq(Line), NEW x \in Line, r \in S PROVE Append(r, x) \in S
  <2> DEFINE t == Append(r, x)
  <2>1. t \in Seq(Line) /\ t[Len(r) + 1] = x /\ Len(t) = Len(r) + 1 /\ Len(r) \in Nat
        /\ \A i \in 1..Len(r) : t[i] = r[i]
    OBVIOUS
  <2>2. o \o t = Append(o \o r, x) /\ o \o r \in Seq(Line)
    <3>1. <<x>> \in Seq(Line) /\ t = r \o <<x>> /\ Append(o \o r, x) = (o \o r) \o <<x>>
          /\ o \o r \in Seq(Line)
      BY AppendIsConcat
    <3>2. (o \o r) \o <<x>> = o \o (r \o <<x>>)
      BY <3>1, ConcatAssociative
    <3> QED BY <3>1, <3>2
  <2> HIDE DEF t
  <2> SUFFICES ASSUME \A j \in 1..Len(t) : t[j].name \in keys
               PROVE  Kept(o \o t, keys) = Kept(o, keys)
    BY <2>1 DEF t
  <2>3. (\A j \in 1..Len(r) : r[j].name \in keys) /\ x.name \in keys
    BY <2>1
  <2>4. Kept(Append(o \o r, x), keys) = Keep(Kept(o \o r, keys), x, keys)
    BY <2>2, KeptAppend
  <2>5. Kept(o \o r, keys) = Kept(o, keys)
    BY <1>2, <2>3
  <2> QED BY <2>2, <2>3, <2>4, <2>5 DEF Keep
<1>3. Seq(Line) \subseteq S
  <2> HIDE DEF S
  <2> QED BY <1>1, <1>2, SequenceInduct
<1> QED BY <1>3

(* What is inserted are entries of the keys that are written. *)
LEMMA InsertsPass ==
  ASSUME NEW D, D \subseteq Keys, NEW P, P \subseteq D, NEW p \in [P -> Stamps],
         NEW o \in Seq(Line)
  PROVE  o \o Inserts(p) \in Seq(Line) /\ Kept(o \o Inserts(p), D) = Kept(o, D)
<1> DEFINE g == Inserts(p)
<1>1. g \in Seq(Line) /\ \A j \in 1..Len(g) : \E k \in P : g[j] = Entry(k, p[k])
  <2>1. P \subseteq Keys
    OBVIOUS
  <2> QED BY <2>1, InsertsEach, Zenon
<1> HIDE DEF g
<1>2. ASSUME NEW j \in 1..Len(g) PROVE g[j].name \in D
  <2>1. PICK k \in P : g[j] = Entry(k, p[k])
    BY <1>1
  <2> QED BY <2>1 DEF Entry
<1>3. Kept(o \o g, D) = Kept(o, D)
  BY <1>1, <1>2, KeptBefore
<1>4. o \o g \in Seq(Line)
  BY <1>1
<1> QED BY <1>3, <1>4 DEF g

(* One line of the rewriting keeps what it has to. *)
LEMMA StepKeeps ==
  ASSUME NEW file \in Seq(Line), NEW D, D \subseteq Keys, NEW u \in [D -> Stamps],
         NEW n \in Nat, n < Len(file), NEW a, LoopInv(file, u, n, a)
  PROVE  Kept(WriteLine(a, file[n + 1]).out, D) = Keep(Kept(a.out, D), file[n + 1], D)
<1> DEFINE line == file[n + 1]
           P == DOMAIN a.pending
           b == WriteLine(a, line)
<1>1. line \in Line /\ P \subseteq D /\ a.out \in Seq(Line) /\ a.pending \in [P -> Stamps]
      /\ \A k \in P : a.pending[k] = u[k]
  <2>1. DOMAIN u = D
    OBVIOUS
  <2> QED BY <2>1 DEF LoopInv, Good
<1>2. CASE line.section
  <2> DEFINE o == a.out \o (IF a.inside THEN Inserts(a.pending) ELSE <<>>)
  <2>1. b.out = o \o <<line>>
    BY <1>2 DEF WriteLine
  <2>2. o \in Seq(Line) /\ Kept(o, D) = Kept(a.out, D)
    <3>1. CASE a.inside
      BY <1>1, <3>1, InsertsPass
    <3>2. CASE ~a.inside
      <4>1. o = a.out
        BY <1>1, <3>2
      <4> HIDE DEF o
      <4> QED BY <1>1, <4>1
    <3> QED BY <3>1, <3>2
  <2> HIDE DEF o, line
  <2>3. b.out = Append(o, line)
    BY <1>1, <2>1, <2>2
  <2>4. Kept(b.out, D) = Keep(Kept(o, D), line, D)
    BY <1>1, <2>2, <2>3, KeptAppend
  <2> QED BY <2>2, <2>4 DEF line
<1>3. CASE ~line.section
  <2>1. CASE line.name \in P
    <3> DEFINE w == Entry(line.name, a.pending[line.name])
    <3>1. b.out = Append(a.out, w)
      BY <1>3, <2>1 DEF WriteLine
    <3>2. w \in Line /\ w.name = line.name
      <4>1. line.name \in Keys /\ a.pending[line.name] \in Stamps
        BY <1>1, <2>1
      <4> QED BY <4>1 DEF Entry, Line
    <3>3. line.name \in D
      BY <1>1, <2>1
    <3> HIDE DEF w, line
    <3>4. Kept(b.out, D) = Keep(Kept(a.out, D), w, D)
      BY <1>1, <3>1, <3>2, KeptAppend
    <3> QED BY <3>2, <3>3, <3>4 DEF Keep, line
  <2>2. CASE line.name \notin P
    <3>1. b.out = Append(a.out, line)
      BY <1>3, <2>2 DEF WriteLine
    <3> HIDE DEF line
    <3>2. Kept(b.out, D) = Keep(Kept(a.out, D), line, D)
      BY <1>1, <3>1, KeptAppend
    <3> QED BY <3>2 DEF line
  <2> QED BY <2>1, <2>2
<1> QED BY <1>1, <1>2, <1>3

(* After the last line what was kept of the output is what was kept of the *)
(* file.                                                                   *)
LEMMA LoopKeeps ==
  ASSUME NEW file \in Seq(Line), NEW D, D \subseteq Keys, NEW u \in [D -> Stamps]
  PROVE  Kept(Loop(file, u)[Len(file)].out, D) = Kept(file, D)
<1> DEFINE acc == Loop(file, u)
           kept == KeptOf(file, D)
           S == {n \in Nat : n <= Len(file) => Kept(acc[n].out, D) = kept[n]}
<1>1. Kept(file, D) = kept[Len(file)] /\ kept[0] = <<>> /\ Len(file) \in Nat
      /\ \A n \in Nat : n < Len(file) => kept[n + 1] = Keep(kept[n], file[n + 1], D)
  BY KeptEquations
<1> HIDE DEF kept
<1>2. 0 \in S
  <2>1. acc[0].out = <<>>
    <3>1. acc[0] = Begin(u)
      BY LoopEquations
    <3> QED BY <3>1 DEF Begin
  <2> QED BY <1>1, <2>1, KeptEmpty
<1>3. ASSUME NEW n \in Nat, n \in S PROVE n + 1 \in S
  <2> SUFFICES ASSUME n + 1 <= Len(file) PROVE Kept(acc[n + 1].out, D) = kept[n + 1]
    OBVIOUS
  <2>1. n < Len(file) /\ n <= Len(file) /\ Kept(acc[n].out, D) = kept[n]
    BY <1>1, <1>3
  <2>2. LoopInv(file, u, n, acc[n])
    BY <2>1, LoopInvariant
  <2>3. acc[n + 1] = WriteLine(acc[n], file[n + 1])
    BY <2>1, LoopEquations
  <2> HIDE DEF acc
  <2>4. Kept(WriteLine(acc[n], file[n + 1]).out, D) = Keep(Kept(acc[n].out, D), file[n + 1], D)
    BY <2>1, <2>2, StepKeeps, Zenon
  <2> QED BY <1>1, <2>1, <2>3, <2>4
<1>4. Nat \subseteq S
  <2> HIDE DEF S
  <2> QED BY <1>2, <1>3, Induct
<1> QED BY <1>1, <1>4

(* The rewriting keeps all, and adds a header at most. *)
LEMMA RewritingKeeps ==
  ASSUME NEW file \in Seq(Line), NEW D, D \subseteq Keys, NEW u \in [D -> Stamps]
  PROVE  \/ Kept(WriteEntries(file, u), D) = Kept(file, D)
         \/ Kept(WriteEntries(file, u), D) = Append(Kept(file, D), VstCache)
<1> DEFINE a == Loop(file, u)[Len(file)]
           o == a.out \o Header(a)
<1>1. LoopInv(file, u, Len(file), a)
  <2>1. Len(file) \in Nat /\ Len(file) <= Len(file)
    OBVIOUS
  <2> QED BY <2>1, LoopInvariant, Zenon
<1>2. Kept(a.out, D) = Kept(file, D)
  BY LoopKeeps
<1>3. WriteEntries(file, u) = o \o Inserts(a.pending)
  BY LoopEquations DEF Ending
<1> HIDE DEF a
<1>4. a.out \in Seq(Line) /\ DOMAIN a.pending \subseteq D
      /\ a.pending \in [DOMAIN a.pending -> Stamps]
  <2>1. DOMAIN u = D
    OBVIOUS
  <2> QED BY <1>1, <2>1 DEF LoopInv, Good
<1>5. o \in Seq(Line) /\ (Kept(o, D) = Kept(a.out, D) \/ Kept(o, D) = Append(Kept(a.out, D), VstCache))
  <2>1. CASE Header(a) = <<>>
    <3>1. o = a.out
      BY <1>4, <2>1
    <3> HIDE DEF o
    <3> QED BY <1>4, <3>1
  <2>2. CASE Header(a) = <<VstCache>>
    <3>1. VstCache \in Line /\ VstCache.name = "vstcache"
      BY DEF VstCache, Section, Line
    <3>2. o = Append(a.out, VstCache)
      BY <1>4, <2>2, <3>1
    <3>3. "vstcache" \notin D
      BY CacheAssumption DEF CacheAssumption
    <3> HIDE DEF o
    <3>4. Kept(o, D) = Keep(Kept(a.out, D), VstCache, D)
      BY <1>4, <3>1, <3>2, KeptAppend
    <3>5. o \in Seq(Line)
      BY <1>4, <3>1, <3>2
    <3> QED BY <3>1, <3>3, <3>4, <3>5, Zenon DEF Keep
  <2> QED BY <2>1, <2>2 DEF Header
<1> HIDE DEF o
<1>6. Kept(o \o Inserts(a.pending), D) = Kept(o, D)
  BY <1>4, <1>5, InsertsPass
<1> QED BY <1>2, <1>3, <1>5, <1>6

(* Twice and Split count lines of the whole file. *)
LEMMA TwiceIsTwo ==
  ASSUME NEW file \in Seq(Line), NEW k
  PROVE  /\ Twice(file, k) <=> Two(Places(file, Len(file), k))
         /\ Split(file) <=> SplitTo(file, Len(file))
<1>1. DOMAIN file = 1..Len(file)
  OBVIOUS
<1>2. Places(file, Len(file), k) =
        {i \in Entries(file) : file[i].name = k /\ SectionOf(file, i) = "vstcache"}
  BY <1>1 DEF Places, Entries
<1> QED BY <1>1, <1>2 DEF Twice, Two, Split, SplitTo

(* The same lines, or these and a header. *)
LEMMA PrefixOfSame ==
  ASSUME NEW f \in Seq(Line), NEW g, g = f \/ g = Append(f, VstCache)
  PROVE  IsPrefix(f, g) /\ \A i \in DOMAIN g : i > Len(f) => g[i] = VstCache
<1>1. VstCache \in Line
  BY DEF VstCache, Section, Line
<1>2. CASE g = f
  BY <1>2 DEF IsPrefix
<1>3. CASE g = Append(f, VstCache)
  <2>1. /\ g \in Seq(Line) /\ Len(f) \in Nat /\ Len(g) = Len(f) + 1 /\ g[Len(f) + 1] = VstCache
        /\ \A i \in 1..Len(f) : g[i] = f[i]
    BY <1>1, <1>3
  <2>2. \A i \in DOMAIN g : i > Len(f) => i = Len(f) + 1
    BY <2>1
  <2>3. SubSeq(f, 1, Len(f)) = SubSeq(g, 1, Len(f))
    <3> DEFINE s == SubSeq(f, 1, Len(f))
               t == SubSeq(g, 1, Len(f))
    <3>1. s \in Seq(Line) /\ Len(s) = Len(f) /\ \A i \in 1..Len(f) : s[i] = f[i]
      OBVIOUS
    <3>2. t \in Seq(Line) /\ Len(t) = Len(f) /\ \A i \in 1..Len(f) : t[i] = g[i]
      BY <2>1
    <3> HIDE DEF s, t
    <3>3. \A i \in 1..Len(s) : s[i] = t[i]
      BY <2>1, <3>1, <3>2
    <3> QED BY <3>1, <3>2, <3>3, SeqEqual
  <2> QED BY <2>1, <2>2, <2>3 DEF IsPrefix
<1> QED BY <1>2, <1>3

(* What RewriteKeepsRest says of a step. *)
RestKept ==
  LET stale == {k \in Keys : Differing(warm, k) # {}}
  IN /\ IsPrefix(Kept(warm, stale), Kept(warm', stale))
     /\ \A i \in DOMAIN Kept(warm', stale) :
          i > Len(Kept(warm, stale)) => Kept(warm', stale)[i] = VstCache
     /\ \A k \in Keys : Twice(warm', k) => Twice(warm, k) \/ Split(warm)

(* A completion that changes the cache keeps the rest of it. *)
LEMMA CompleteKeeps ==
  ASSUME Types, Complete, warm # warm', warm # NoFile
  PROVE  RestKept
<1> DEFINE D == {k \in Keys : Differing(warm, k) # {}}
           u == Upserts(warm)
<1>1. /\ warm \in Seq(Line) /\ disk \in Disk /\ warm' = WriteEntries(warm, u)
  BY DEF Types, CacheTypeOK, CacheFile, Complete, Completed
<1>2. D \subseteq Keys /\ u \in [D -> Stamps]
  BY <1>1, UpsertsAre
<1>3. Good(warm, u, Len(warm), warm', {})
  <2> HIDE DEF D, u
  <2> QED BY <1>1, <1>2, Rewritten
<1>4. Kept(warm', D) = Kept(warm, D) \/ Kept(warm', D) = Append(Kept(warm, D), VstCache)
  <2> HIDE DEF D, u
  <2> QED BY <1>1, <1>2, RewritingKeeps
<1>5. Kept(warm, D) \in Seq(Line)
  BY <1>1, KeptType
<1>6. IsPrefix(Kept(warm, D), Kept(warm', D))
      /\ \A i \in DOMAIN Kept(warm', D) : i > Len(Kept(warm, D)) => Kept(warm', D)[i] = VstCache
  <2> HIDE DEF D
  <2> QED BY <1>4, <1>5, PrefixOfSame
<1>7. ASSUME NEW k \in Keys, Twice(warm', k) PROVE Twice(warm, k) \/ Split(warm)
  <2>1. warm' \in Seq(Line) /\ Single(warm, Len(warm), warm')
    BY <1>3 DEF Good
  <2>2. Two(Places(warm', Len(warm'), k))
    BY <1>7, <2>1, TwiceIsTwo
  <2>3. Two(Places(warm, Len(warm), k)) \/ SplitTo(warm, Len(warm))
    BY <2>1, <2>2 DEF Single
  <2> QED BY <1>1, <2>3, TwiceIsTwo
<1> QED BY <1>6, <1>7 DEF RestKept

(* Completing a cache touches nothing but the entries of plug-ins that     *)
(* changed: all other lines keep their order, their section and what       *)
(* REAPER had recorded in them, and no key gets a second entry in          *)
(* [vstcache], unless that section was in two parts.                       *)
THEOREM RewritingKeepsRest == Spec => RewriteKeepsRest
<1>1. Inv /\ [Next]_vars =>
        [(warm # warm' /\ warm # NoFile) =>
           LET stale == {k \in Keys : Differing(warm, k) # {}}
           IN /\ IsPrefix(Kept(warm, stale), Kept(warm', stale))
              /\ \A i \in DOMAIN Kept(warm', stale) :
                   i > Len(Kept(warm, stale)) => Kept(warm', stale)[i] = VstCache
              /\ \A k \in Keys : Twice(warm', k) => Twice(warm, k) \/ Split(warm)]_vars
  <2> SUFFICES ASSUME Inv, [Next]_vars, warm # warm', warm # NoFile PROVE RestKept
    BY DEF RestKept
  <2>1. Complete
    BY DEF Next, CompleteCache, Change, ChangeDisk, StartWalk, Walk, EndWalk, Assemble, Launch,
           vars, cacheVars
  <2> QED BY <2>1, CompleteKeeps DEF Inv
<1> QED BY Invariance, <1>1, PTL DEF Spec, RewriteKeepsRest

=============================================================================
