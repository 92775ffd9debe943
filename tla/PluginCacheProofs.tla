--------------------------- MODULE PluginCacheProofs ---------------------------
(***************************************************************************)
(* What the completion of a scan cache does, for every cache file: it      *)
(* covers each plug-in whose stamp it was given, it carries each other     *)
(* entry over into its section, and no key gets a second entry.  The       *)
(* theorems about a profile are in ProfileProofs.                          *)
(*                                                                         *)
(* The recursive functions are taken apart by induction: Induct is shown   *)
(* from the well-foundedness of < on the naturals, a function of the       *)
(* lines exists by induction on their number, and its equations follow.    *)
(***************************************************************************)
EXTENDS PluginCache, WellFoundedInduction, SequenceTheorems, FiniteSetTheorems, TLAPS

-----------------------------------------------------------------------------
(* Induction over numbers: the least counterexample. *)

LEMMA Least == ASSUME NEW T, T \subseteq Nat, T # {} PROVE \E m \in T : \A k \in T : m <= k
<1>1. OpToRel(<, Nat) = {p \in Nat \X Nat : p[1] < p[2]}
  BY Zenon DEF OpToRel
<1>2. PICK m \in T : \A k \in T : <<k, m>> \notin OpToRel(<, Nat)
  BY NatLessThanWellFounded, WFMin
<1>3. ASSUME NEW k \in T, k < m PROVE FALSE
  <2>1. <<k, m>> \in {p \in Nat \X Nat : p[1] < p[2]}
    BY <1>3
  <2> QED BY <2>1, <1>1, <1>2
<1> QED BY <1>3

LEMMA Induct ==
  ASSUME NEW S, 0 \in S, \A n \in Nat : n \in S => n + 1 \in S
  PROVE  Nat \subseteq S
<1> DEFINE T == Nat \ S
<1> SUFFICES ASSUME T # {} PROVE FALSE
  OBVIOUS
<1>1. PICK m \in T : \A k \in T : m <= k
  <2>1. T \subseteq Nat
    OBVIOUS
  <2> QED BY <2>1, Least
<1>2. m - 1 \in Nat /\ m - 1 \in S
  BY <1>1
<1> QED BY <1>1, <1>2

(* What Max is. *)
LEMMA Largest ==
  ASSUME NEW n \in Nat, NEW S, S \subseteq 0..n, S # {}
  PROVE  Max(S) \in S /\ \A x \in S : x <= Max(S)
<1> DEFINE T == {n - x : x \in S}
<1>1. T \subseteq Nat
  <2>1. ASSUME NEW x \in S PROVE n - x \in Nat
    OBVIOUS
  <2> QED BY <2>1
<1>2. T # {}
  OBVIOUS
<1>3. PICK m \in T : \A k \in T : m <= k
  <2> HIDE DEF T
  <2> QED BY <1>1, <1>2, Least
<1>4. PICK x \in S : m = n - x
  OBVIOUS
<1>5. \A y \in S : x >= y
  BY <1>3, <1>4
<1>6. Max(S) \in S /\ \A y \in S : Max(S) >= y
  BY <1>5, Zenon DEF Max
<1> QED BY <1>6

(* A finite set of naturals has an upper bound. *)
LEMMA Bounded ==
  ASSUME NEW T \in SUBSET Nat, IsFiniteSet(T)
  PROVE  \E m \in Nat : T \subseteq 0..m
<1> DEFINE S == {n \in Nat : \A U \in SUBSET Nat :
                   IsFiniteSet(U) /\ Cardinality(U) = n => \E m \in Nat : U \subseteq 0..m}
<1>1. 0 \in S
  BY FS_EmptySet
<1>2. ASSUME NEW n \in Nat, n \in S PROVE n + 1 \in S
  <2> SUFFICES ASSUME NEW U \in SUBSET Nat, IsFiniteSet(U), Cardinality(U) = n + 1
               PROVE  \E m \in Nat : U \subseteq 0..m
    OBVIOUS
  <2>1. PICK x : x \in U
    BY FS_EmptySet
  <2>2. IsFiniteSet(U \ {x}) /\ Cardinality(U \ {x}) = n
    <3>1. IsFiniteSet(U \ {x}) /\ Cardinality(U \ {x}) = Cardinality(U) - 1
      BY <2>1, FS_RemoveElement, Zenon
    <3> QED BY <3>1
  <2>3. PICK m \in Nat : U \ {x} \subseteq 0..m
    BY <1>2, <2>2
  <2>4. m + x \in Nat /\ \A y \in U : y \in 0..m + x
    BY <2>1, <2>3
  <2>5. U \subseteq 0..m + x
    BY <2>4
  <2> QED BY <2>4, <2>5
<1>3. Nat \subseteq S
  <2> HIDE DEF S
  <2> QED BY <1>1, <1>2, Induct
<1>4. Cardinality(T) \in Nat
  BY FS_CardinalityType
<1> QED BY <1>3, <1>4

-----------------------------------------------------------------------------
(* Sections.  The section of a line is that of the last header above it.   *)

(* A header is in the section it opens. *)
LEMMA HeaderNames ==
  ASSUME NEW file, NEW i \in Nat \ {0}, file[i].section
  PROVE  SectionOf(file, i) = file[i].name
<1> DEFINE above == {j \in 1..i : file[j].section}
<1>1. above \subseteq 0..i /\ i \in above
  OBVIOUS
<1>2. Max(above) \in above /\ i <= Max(above)
  <2> HIDE DEF above
  <2> QED BY <1>1, Largest
<1>3. Max(above) = i
  BY <1>1, <1>2
<1> QED BY <1>1, <1>3, Zenon DEF SectionOf

(* The section of a line depends on the lines up to it alone. *)
LEMMA SameSection ==
  ASSUME NEW f, NEW g, NEW m \in Nat, NEW n \in Nat, m <= n,
         \A j \in 1..m : f[j] = g[j],
         \A j \in m + 1..n : ~g[j].section
  PROVE  SectionOf(g, n) = SectionOf(f, m)
<1> DEFINE above == {j \in 1..m : f[j].section}
<1>1. {j \in 1..n : g[j].section} = above
  OBVIOUS
<1>2. CASE above = {}
  BY <1>1, <1>2, Zenon DEF SectionOf
<1>3. CASE above # {}
  <2>1. Max(above) \in above
    <3>1. above \subseteq 0..m
      OBVIOUS
    <3> HIDE DEF above
    <3> QED BY <1>3, <3>1, Largest
  <2>2. f[Max(above)] = g[Max(above)]
    BY <2>1
  <2> QED BY <1>1, <1>3, <2>2, Zenon DEF SectionOf
<1> QED BY <1>2, <1>3

(* Before the first line there is no section. *)
LEMMA NoSection == ASSUME NEW file PROVE SectionOf(file, 0) = None
<1>1. {j \in 1..0 : file[j].section} = {}
  OBVIOUS
<1> QED BY <1>1, Zenon DEF SectionOf

(* Lines added below change nothing above, and entries stay in the section *)
(* they are added to.                                                      *)
LEMMA Grown ==
  ASSUME NEW o \in Seq(Line), NEW g \in Seq(Line)
  PROVE  /\ o \o g \in Seq(Line) /\ Len(o \o g) = Len(o) + Len(g)
         /\ \A i \in 1..Len(o) : (o \o g)[i] = o[i]
         /\ \A i \in 0..Len(o) : SectionOf(o \o g, i) = SectionOf(o, i)
         /\ \A j \in 1..Len(g) : (o \o g)[Len(o) + j] = g[j]
         /\ (\A j \in 1..Len(g) : ~g[j].section) =>
              \A j \in 0..Len(g) : SectionOf(o \o g, Len(o) + j) = SectionOf(o, Len(o))
<1> DEFINE s == o \o g
<1>1. s \in Seq(Line) /\ Len(s) = Len(o) + Len(g) /\ Len(o) \in Nat /\ Len(g) \in Nat
  BY ConcatProperties
<1>2. \A i \in 1..Len(o) : s[i] = o[i]
  OBVIOUS
<1>3. \A j \in 1..Len(g) : s[Len(o) + j] = g[j]
  OBVIOUS
<1> HIDE DEF s
<1>4. ASSUME NEW i \in 0..Len(o) PROVE SectionOf(s, i) = SectionOf(o, i)
  <2>1. \A j \in 1..i : o[j] = s[j]
    BY <1>1, <1>2
  <2>2. i \in Nat /\ \A j \in i + 1..i : ~s[j].section
    BY <1>1
  <2> QED BY <2>1, <2>2, SameSection
<1>5. ASSUME \A j \in 1..Len(g) : ~g[j].section, NEW j \in 0..Len(g)
      PROVE  SectionOf(s, Len(o) + j) = SectionOf(o, Len(o))
  <2>1. ASSUME NEW i \in Len(o) + 1..Len(o) + j PROVE ~s[i].section
    <3>1. i - Len(o) \in 1..Len(g) /\ i = Len(o) + (i - Len(o))
      BY <1>1
    <3> QED BY <1>3, <1>5, <3>1
  <2>2. \A i \in 1..Len(o) : o[i] = s[i]
    BY <1>2
  <2>3. Len(o) + j \in Nat /\ Len(o) <= Len(o) + j
    BY <1>1
  <2> QED BY <1>1, <2>1, <2>2, <2>3, SameSection, ZenonT(40)
<1> QED BY <1>1, <1>2, <1>3, <1>4, <1>5 DEF s

-----------------------------------------------------------------------------
(* The entries that are written, each of them once, in some order.         *)

(* What is inserted: one entry for each pending key, and nothing else. *)
LEMMA InsertsEach ==
  ASSUME NEW D, D \subseteq Keys, NEW p \in [D -> Stamps]
  PROVE  LET g == Inserts(p)
         IN /\ g \in Seq(Line)
            /\ \A j \in 1..Len(g) : \E k \in D : g[j] = Entry(k, p[k])
            /\ \A k \in D : \E j \in 1..Len(g) : g[j] = Entry(k, p[k])
            /\ \A i, j \in 1..Len(g) : g[i].name = g[j].name => i = j
<1> DEFINE S == {Entry(k, p[k]) : k \in DOMAIN p}
<1> DEFINE g == Inserts(p)
<1> DEFINE e == [k \in D |-> Entry(k, p[k])]
<1>0. DOMAIN p = D /\ \A k \in D : p[k] \in Stamps
  OBVIOUS
<1>1. IsFiniteSet(D)
  BY CacheAssumption, FS_Subset DEF CacheAssumption
<1>2. e \in Surjection(D, S)
  BY <1>0 DEF Surjection
<1>3. IsFiniteSet(S)
  <2> HIDE DEF e, S
  <2> QED BY <1>1, <1>2, FS_Surjection
<1>4. Cardinality(S) \in Nat /\ \E f : f \in Bijection(1..Cardinality(S), S)
  <2> HIDE DEF S
  <2> QED BY <1>3, FS_CardinalityType DEF ExistsBijection
<1>5. g \in [1..Cardinality(S) -> S] /\ IsInjective(g)
  <2>1. g = CHOOSE f \in [1..Cardinality(S) -> S] : IsInjective(f)
    BY Zenon DEF Inserts, SetToSeq
  <2>2. \E f \in [1..Cardinality(S) -> S] : IsInjective(f)
    <3> HIDE DEF S
    <3> QED BY <1>4 DEF Bijection, Injection
  <2> HIDE DEF S, g
  <2> QED BY <2>1, <2>2, Zenon
<1>6. g \in Surjection(1..Cardinality(S), S)
  <2>1. g \in Injection(1..Cardinality(S), S)
    BY <1>5, Zenon DEF Injection
  <2>2. Cardinality(1..Cardinality(S)) = Cardinality(S)
    <3> HIDE DEF S
    <3> QED BY <1>4, FS_Interval
  <2> HIDE DEF S, g
  <2> QED BY <1>3, <2>1, <2>2, FS_Injection
<1>7. S \subseteq Line
  <2>1. ASSUME NEW k \in D PROVE Entry(k, p[k]) \in Line
    BY <1>0 DEF Line, Entry
  <2> QED BY <1>0, <2>1
<1>8. Len(g) = Cardinality(S) /\ g \in Seq(Line)
  <2> HIDE DEF S, g
  <2> QED BY <1>4, <1>5, <1>7
<1>9. \A j \in 1..Len(g) : g[j] \in S
  <2> HIDE DEF S, g
  <2> QED BY <1>5, <1>8
<1>10. ASSUME NEW k \in D PROVE \E j \in 1..Len(g) : g[j] = Entry(k, p[k])
  <2>1. Entry(k, p[k]) \in S
    BY <1>0
  <2> HIDE DEF S, g
  <2> QED BY <1>6, <1>8, <2>1 DEF Surjection
<1>11. ASSUME NEW i \in 1..Len(g), NEW j \in 1..Len(g), g[i].name = g[j].name PROVE i = j
  <2>1. PICK k \in D : g[i] = Entry(k, p[k])
    BY <1>0, <1>9
  <2>2. PICK l \in D : g[j] = Entry(l, p[l])
    BY <1>0, <1>9
  <2>3. k = l
    BY <1>11, <2>1, <2>2 DEF Entry
  <2>4. DOMAIN g = 1..Len(g)
    <3> HIDE DEF S, g
    <3> QED BY <1>5, <1>8
  <2> HIDE DEF S, g
  <2> QED BY <1>5, <2>1, <2>2, <2>3, <2>4 DEF IsInjective
<1>12. \A j \in 1..Len(g) : \E k \in D : g[j] = Entry(k, p[k])
  BY <1>0, <1>9
<1> HIDE DEF g
<1>13. QED BY <1>8, <1>10, <1>11, <1>12 DEF g

-----------------------------------------------------------------------------
(* The loop of _write_entries: acc has what is known after n lines.        *)

Begin(upserts) == [out |-> <<>>, pending |-> upserts, inside |-> FALSE, seen |-> FALSE]

IsLoop(acc, file, upserts, m) ==
  acc = [n \in 0..m |-> IF n = 0 THEN Begin(upserts) ELSE WriteLine(acc[n - 1], file[n])]

(* The recursive function of _write_entries exists, for every number of    *)
(* lines.                                                                  *)
LEMMA LoopExists ==
  ASSUME NEW file, NEW upserts, NEW m \in Nat
  PROVE  \E acc : IsLoop(acc, file, upserts, m)
<1> DEFINE S == {n \in Nat : \E acc : IsLoop(acc, file, upserts, n)}
<1>1. 0 \in S
  <2>1. IsLoop([n \in 0..0 |-> Begin(upserts)], file, upserts, 0)
    <3> DEFINE acc == [n \in 0..0 |-> Begin(upserts)]
    <3>1. acc = [n \in 0..0 |-> IF n = 0 THEN Begin(upserts)
                                         ELSE WriteLine(acc[n - 1], file[n])]
      OBVIOUS
    <3> QED BY <3>1, Zenon DEF IsLoop
  <2> QED BY <2>1
<1>2. ASSUME NEW n \in Nat, n \in S PROVE n + 1 \in S
  <2>1. PICK acc : IsLoop(acc, file, upserts, n)
    BY <1>2
  <2> DEFINE last == WriteLine(acc[n], file[n + 1])
             more == [i \in 0..n + 1 |-> IF i = n + 1 THEN last ELSE acc[i]]
  <2>2. ASSUME NEW i \in 0..n + 1
        PROVE  more[i] = IF i = 0 THEN Begin(upserts) ELSE WriteLine(more[i - 1], file[i])
    <3>1. CASE i = n + 1
      <4>1. more[i] = last /\ more[i - 1] = acc[n] /\ file[i] = file[n + 1] /\ i # 0
        <5> HIDE DEF last
        <5> QED BY <3>1
      <4> HIDE DEF more
      <4> QED BY <4>1
    <3>2. CASE i # n + 1
      <4>1. i \in 0..n /\ more[i] = acc[i]
        <5> HIDE DEF last
        <5> QED BY <3>2
      <4>2. acc[i] = IF i = 0 THEN Begin(upserts) ELSE WriteLine(acc[i - 1], file[i])
        <5>1. acc = [k \in 0..n |-> IF k = 0 THEN Begin(upserts)
                                             ELSE WriteLine(acc[k - 1], file[k])]
          BY <2>1, Zenon DEF IsLoop
        <5> QED BY <4>1, <5>1, Zenon
      <4>3. i # 0 => more[i - 1] = acc[i - 1]
        <5> HIDE DEF last
        <5> QED BY <4>1
      <4> HIDE DEF more
      <4> QED BY <4>1, <4>2, <4>3, Zenon
    <3> QED BY <3>1, <3>2
  <2>3. more = [i \in 0..n + 1 |-> more[i]]
    <3> HIDE DEF last
    <3> QED OBVIOUS
  <2>4. more = [i \in 0..n + 1 |-> IF i = 0 THEN Begin(upserts)
                                            ELSE WriteLine(more[i - 1], file[i])]
    <3> HIDE DEF more
    <3> QED BY <2>2, <2>3, Zenon
  <2>5. IsLoop(more, file, upserts, n + 1)
    <3> HIDE DEF more
    <3> QED BY <2>4, Zenon DEF IsLoop
  <2> HIDE DEF more
  <2> QED BY <2>5
<1>3. Nat \subseteq S
  <2> HIDE DEF S
  <2> QED BY <1>1, <1>2, Induct
<1> QED BY <1>3

-----------------------------------------------------------------------------
(* The entries of k in [vstcache] among the first n lines.                 *)

Places(f, n, k) ==
  {i \in 1..n : ~f[i].section /\ f[i].name = k /\ SectionOf(f, i) = "vstcache"}
Two(S) == \E i, j \in S : i # j
SplitTo(f, n) == \E i, j \in 1..n : i # j /\ f[i] = VstCache /\ f[j] = VstCache

(* Headers and entries, and that no key is the name of a section. *)
LEMMA LineTypes ==
  ASSUME NEW line \in Line
  PROVE  /\ line.section \in BOOLEAN
         /\ ~line.section => line.name \in Keys /\ line.stamp \in Stamps
         /\ line.section => line.name \in {"vstcache", "xvst3_compat"}
         /\ line.section => line.name \notin Keys
         /\ line.section => (line = VstCache <=> line.name = "vstcache")
<1>1. CASE line \in {Section(name) : name \in {"vstcache", "xvst3_compat"}}
  <2>1. PICK name \in {"vstcache", "xvst3_compat"} : line = Section(name)
    BY <1>1
  <2>2. line.section /\ line.name = name /\ name \notin Keys
    BY <2>1, CacheAssumption DEF CacheAssumption, Section
  <2>3. line = VstCache <=> name = "vstcache"
    BY <2>1 DEF Section, VstCache
  <2> QED BY <2>2, <2>3
<1>2. CASE line \in [section : {FALSE}, name : Keys, stamp : Stamps, rich : BOOLEAN]
  BY <1>2
<1> QED BY <1>1, <1>2 DEF Line

(* k has a place more. *)
OneMore(line, section, k) == ~line.section /\ line.name = k /\ section = "vstcache"

Read(f, n) ==
  /\ SectionOf(f, n + 1) =
       (IF f[n + 1].section THEN f[n + 1].name ELSE SectionOf(f, n))
  /\ \A k : IF OneMore(f[n + 1], SectionOf(f, n), k)
            THEN Places(f, n + 1, k) = Places(f, n, k) \cup {n + 1}
            ELSE Places(f, n + 1, k) = Places(f, n, k)

(* What one more line of a file changes. *)
LEMMA NextLine ==
  ASSUME NEW f \in Seq(Line), NEW n \in Nat, n < Len(f)
  PROVE  Read(f, n)
<1>1. SectionOf(f, n + 1) = (IF f[n + 1].section THEN f[n + 1].name ELSE SectionOf(f, n))
  <2>1. CASE f[n + 1].section
    BY <2>1, HeaderNames
  <2>2. CASE ~f[n + 1].section
    <3>1. \A j \in n + 1..n + 1 : ~f[j].section
      BY <2>2
    <3>2. n + 1 \in Nat /\ n <= n + 1 /\ \A j \in 1..n : f[j] = f[j]
      OBVIOUS
    <3> QED BY <2>2, <3>1, <3>2, SameSection
  <2> QED BY <2>1, <2>2
<1>2. ASSUME NEW k
      PROVE  IF OneMore(f[n + 1], SectionOf(f, n), k)
             THEN Places(f, n + 1, k) = Places(f, n, k) \cup {n + 1}
             ELSE Places(f, n + 1, k) = Places(f, n, k)
  <2>1. 1..n + 1 = 1..n \cup {n + 1}
    OBVIOUS
  <2>2. n + 1 \in Places(f, n + 1, k) <=> OneMore(f[n + 1], SectionOf(f, n), k)
    BY <1>1, <2>1 DEF Places, OneMore
  <2>3. \A i \in 1..n : i \in Places(f, n + 1, k) <=> i \in Places(f, n, k)
    BY <2>1 DEF Places
  <2>4. Places(f, n + 1, k) \subseteq 1..n + 1 /\ Places(f, n, k) \subseteq 1..n
    BY DEF Places
  <2>5. CASE OneMore(f[n + 1], SectionOf(f, n), k)
    BY <2>1, <2>2, <2>3, <2>4, <2>5
  <2>6. CASE ~OneMore(f[n + 1], SectionOf(f, n), k)
    <3>1. Places(f, n + 1, k) \subseteq 1..n
      BY <2>1, <2>2, <2>4, <2>6
    <3>2. Places(f, n + 1, k) = Places(f, n, k)
      BY <2>3, <2>4, <3>1
    <3> QED BY <2>6, <3>2
  <2> QED BY <2>5, <2>6
<1> QED BY <1>1, <1>2 DEF Read

Added(o, line, s) ==
  /\ s \in Seq(Line) /\ Len(s) = Len(o) + 1 /\ Len(o) \in Nat
  /\ \A i \in 1..Len(o) : s[i] = o[i]
  /\ s[Len(o) + 1] = line
  /\ \A i \in 0..Len(o) : SectionOf(s, i) = SectionOf(o, i)
  /\ SectionOf(s, Len(s)) = (IF line.section THEN line.name ELSE SectionOf(o, Len(o)))
  /\ \A k : IF OneMore(line, SectionOf(o, Len(o)), k)
            THEN Places(s, Len(s), k) = Places(o, Len(o), k) \cup {Len(o) + 1}
            ELSE Places(s, Len(s), k) = Places(o, Len(o), k)

(* What one more line of the output changes. *)
LEMMA LineAdded ==
  ASSUME NEW o \in Seq(Line), NEW line \in Line
  PROVE  Added(o, line, Append(o, line))
<1> DEFINE s == Append(o, line)
<1>0. s = o \o <<line>> /\ <<line>> \in Seq(Line)
  OBVIOUS
<1>a. s[Len(o) + 1] = line /\ s \in Seq(Line) /\ Len(o) \in Nat /\ Len(s) = Len(o) + 1
  OBVIOUS
<1> HIDE DEF s
<1>1. PICK g : s = o \o g /\ g \in Seq(Line)
  BY <1>0
<1>2. /\ s \in Seq(Line) /\ Len(s) = Len(o) + 1 /\ Len(o) \in Nat
      /\ \A i \in 1..Len(o) : s[i] = o[i]
      /\ s[Len(o) + 1] = line
      /\ \A i \in 0..Len(o) : SectionOf(s, i) = SectionOf(o, i)
  <2>2. /\ \A i \in 1..Len(o) : (o \o g)[i] = o[i]
        /\ \A i \in 0..Len(o) : SectionOf(o \o g, i) = SectionOf(o, i)
    BY <1>1, Grown
  <2> QED BY <1>1, <1>a, <2>2
<1>3. \A k : Places(s, Len(o), k) = Places(o, Len(o), k)
  BY <1>2 DEF Places
<1>4. SectionOf(s, Len(o)) = SectionOf(o, Len(o))
  BY <1>2
<1>5. Len(o) < Len(s)
  BY <1>2
<1>6. Read(s, Len(o))
  BY <1>2, <1>5, NextLine
<1>7. SectionOf(s, Len(s)) = (IF line.section THEN line.name ELSE SectionOf(o, Len(o)))
  BY <1>2, <1>4, <1>6 DEF Read
<1>8. \A k : IF OneMore(line, SectionOf(o, Len(o)), k)
            THEN Places(s, Len(s), k) = Places(o, Len(o), k) \cup {Len(o) + 1}
            ELSE Places(s, Len(s), k) = Places(o, Len(o), k)
  BY <1>2, <1>3, <1>4, <1>6 DEF Read
<1> QED BY <1>2, <1>7, <1>8 DEF Added, s

(* What is known of the lines written so far, with P the keys that are     *)
(* still to be written.                                                    *)
Carried(file, keys, n, o) ==
  \A i \in 1..n : (~file[i].section /\ file[i].name \notin keys) =>
    \E j \in 1..Len(o) : o[j] = file[i] /\ SectionOf(o, j) = SectionOf(file, i)

Stray(file, n, k) ==
  \E i \in 1..n : ~file[i].section /\ file[i].name = k /\ SectionOf(file, i) # "vstcache"

Written(file, u, n, o, P) ==
  \A k \in DOMAIN u \ P :
    \/ \E j \in 1..Len(o) : o[j] = Entry(k, u[k]) /\ SectionOf(o, j) = "vstcache"
    \/ Stray(file, n, k)

Fresh(o, P) == \A k \in P, j \in 1..Len(o) : ~o[j].section => o[j].name # k

Single(file, n, o) ==
  \A k \in Keys : Two(Places(o, Len(o), k)) => Two(Places(file, n, k)) \/ SplitTo(file, n)

Good(file, u, n, o, P) ==
  /\ o \in Seq(Line) /\ P \subseteq DOMAIN u
  /\ Carried(file, DOMAIN u, n, o) /\ Written(file, u, n, o, P)
  /\ Fresh(o, P) /\ Single(file, n, o)

(* A header changes nothing of that, *)
LEMMA HeaderAdded ==
  ASSUME NEW file, NEW u, NEW n \in Nat, NEW o, NEW P, NEW line \in Line,
         Good(file, u, n, o, P), line.section
  PROVE  Good(file, u, n, Append(o, line), P)
<1> DEFINE s == Append(o, line)
<1> HIDE DEF s
<1>0. o \in Seq(Line) /\ Len(o) \in Nat
  BY DEF Good
<1>1. /\ s \in Seq(Line) /\ Len(s) = Len(o) + 1
      /\ \A i \in 1..Len(o) : s[i] = o[i] /\ SectionOf(s, i) = SectionOf(o, i)
      /\ s[Len(o) + 1] = line
      /\ \A k : Places(s, Len(s), k) = Places(o, Len(o), k)
  <2>1. Added(o, line, s)
    BY <1>0, LineAdded DEF s
  <2> QED BY <2>1, <1>0 DEF Added, OneMore
<1>2. 1..Len(o) \subseteq 1..Len(s)
  BY <1>0, <1>1
<1>3. Carried(file, DOMAIN u, n, s)
  BY <1>1, <1>2 DEF Good, Carried
<1>4. Written(file, u, n, s, P)
  BY <1>1, <1>2 DEF Good, Written
<1>5. Fresh(s, P)
  BY <1>0, <1>1 DEF Good, Fresh
<1>6. Single(file, n, s)
  BY <1>1 DEF Good, Single
<1> QED BY <1>1, <1>3, <1>4, <1>5, <1>6 DEF Good, s

(* nor does one read. *)
LEMMA HeaderRead ==
  ASSUME NEW file \in Seq(Line), NEW u,
         NEW n \in Nat, n < Len(file), NEW o, NEW P,
         Good(file, u, n, o, P), file[n + 1].section
  PROVE  Good(file, u, n + 1, o, P)
<1>1. 1..n + 1 = 1..n \cup {n + 1}
  OBVIOUS
<1>2. Carried(file, DOMAIN u, n + 1, o)
  BY <1>1 DEF Good, Carried
<1>3. \A k : Stray(file, n, k) => Stray(file, n + 1, k)
  BY <1>1 DEF Stray
<1>4. Written(file, u, n + 1, o, P)
  BY <1>3 DEF Good, Written
<1>5. \A k : Places(file, n + 1, k) = Places(file, n, k)
  BY NextLine DEF Read, OneMore
<1>6. SplitTo(file, n) => SplitTo(file, n + 1)
  BY <1>1 DEF SplitTo
<1>7. Single(file, n + 1, o)
  BY <1>5, <1>6 DEF Good, Single
<1> QED BY <1>2, <1>4, <1>7 DEF Good

(* An entry is read, and written with the mtime that is pending for its    *)
(* key, or as it was.                                                      *)
LEMMA EntryWritten ==
  ASSUME NEW file \in Seq(Line), NEW u, NEW n \in Nat, n < Len(file), NEW o, NEW P,
         NEW w \in Line,
         Good(file, u, n, o, P), ~file[n + 1].section, ~w.section,
         w.name = file[n + 1].name,
         w.name \in P => w = Entry(w.name, u[w.name]),
         w.name \notin P => w = file[n + 1],
         SectionOf(o, Len(o)) = SectionOf(file, n),
         SectionOf(file, n) = "vstcache" =>
           \A k \in Keys : Places(o, Len(o), k) # {} =>
                             Places(file, n, k) # {} \/ SplitTo(file, n)
  PROVE  Good(file, u, n + 1, Append(o, w), P \ {w.name})
<1> DEFINE s == Append(o, w)
           Q == P \ {w.name}
<1> HIDE DEF s
<1>0. o \in Seq(Line) /\ Len(o) \in Nat /\ P \subseteq DOMAIN u
  BY DEF Good
<1>1. Added(o, w, s)
  BY <1>0, LineAdded DEF s
<1>2. Read(file, n)
  BY NextLine
<1>3. /\ s \in Seq(Line) /\ Len(s) = Len(o) + 1 /\ s[Len(s)] = w
      /\ \A i \in 1..Len(o) : s[i] = o[i] /\ SectionOf(s, i) = SectionOf(o, i)
      /\ SectionOf(s, Len(s)) = SectionOf(file, n)
  BY <1>0, <1>1 DEF Added
<1>4. SectionOf(file, n + 1) = SectionOf(file, n)
  BY <1>2 DEF Read
<1>5. 1..n + 1 = 1..n \cup {n + 1} /\ 1..Len(s) = 1..Len(o) \cup {Len(s)}
  BY <1>0, <1>3
<1>6. Carried(file, DOMAIN u, n + 1, s)
  <2> SUFFICES ASSUME NEW i \in 1..n + 1, ~file[i].section, file[i].name \notin DOMAIN u
               PROVE  \E j \in 1..Len(s) : s[j] = file[i] /\ SectionOf(s, j) = SectionOf(file, i)
    BY DEF Carried
  <2>1. CASE i = n + 1
    BY <1>0, <1>3, <1>4, <1>5, <2>1
  <2>2. CASE i \in 1..n
    <3>1. PICK j \in 1..Len(o) : o[j] = file[i] /\ SectionOf(o, j) = SectionOf(file, i)
      BY <2>2 DEF Good, Carried
    <3> QED BY <1>3, <1>5, <3>1
  <2> QED BY <1>5, <2>1, <2>2
<1>7. Written(file, u, n + 1, s, Q)
  <2> SUFFICES ASSUME NEW k \in DOMAIN u \ Q
               PROVE  \/ \E j \in 1..Len(s) : s[j] = Entry(k, u[k]) /\ SectionOf(s, j) = "vstcache"
                      \/ Stray(file, n + 1, k)
    BY DEF Written
  <2>1. CASE k \in P
    <3>1. k = w.name /\ s[Len(s)] = Entry(k, u[k])
      BY <1>3, <2>1
    <3>2. CASE SectionOf(file, n) = "vstcache"
      BY <1>3, <1>5, <3>1, <3>2
    <3>3. CASE SectionOf(file, n) # "vstcache"
      BY <1>4, <1>5, <3>1, <3>3 DEF Stray
    <3> QED BY <3>2, <3>3
  <2>2. CASE k \notin P
    <3>1. CASE Stray(file, n, k)
      BY <1>5, <3>1 DEF Stray
    <3>2. CASE \E j \in 1..Len(o) : o[j] = Entry(k, u[k]) /\ SectionOf(o, j) = "vstcache"
      BY <1>3, <1>5, <3>2
    <3> QED BY <2>2, <3>1, <3>2 DEF Good, Written
  <2> QED BY <2>1, <2>2
<1>8. Fresh(s, Q)
  BY <1>3, <1>5 DEF Good, Fresh
<1>9. Single(file, n + 1, s)
  <2> SUFFICES ASSUME NEW k \in Keys, Two(Places(s, Len(s), k))
               PROVE  Two(Places(file, n + 1, k)) \/ SplitTo(file, n + 1)
    BY DEF Single
  <2>0. SplitTo(file, n) => SplitTo(file, n + 1)
    BY <1>5 DEF SplitTo
  <2>1. CASE OneMore(w, SectionOf(file, n), k)
    <3>1. OneMore(file[n + 1], SectionOf(file, n), k)
      BY <2>1 DEF OneMore
    <3>2. Places(s, Len(s), k) = Places(o, Len(o), k) \cup {Len(o) + 1}
      BY <1>1, <2>1 DEF Added
    <3>3. Places(file, n + 1, k) = Places(file, n, k) \cup {n + 1}
      BY <1>2, <3>1 DEF Read
    <3>4. Places(o, Len(o), k) # {}
      BY <3>2 DEF Two
    <3>5. CASE SplitTo(file, n)
      BY <2>0, <3>5
    <3>6. CASE Places(file, n, k) # {}
      <4>1. PICK x : x \in Places(file, n, k)
        BY <3>6
      <4>2. x # n + 1
        BY <4>1 DEF Places
      <4> QED BY <3>3, <4>1, <4>2 DEF Two
    <3> QED BY <2>1, <3>4, <3>5, <3>6 DEF OneMore
  <2>2. CASE ~OneMore(w, SectionOf(file, n), k)
    <3>1. ~OneMore(file[n + 1], SectionOf(file, n), k)
      BY <2>2 DEF OneMore
    <3>2. Places(s, Len(s), k) = Places(o, Len(o), k)
      BY <1>1, <2>2 DEF Added
    <3>3. Places(file, n + 1, k) = Places(file, n, k)
      BY <1>2, <3>1 DEF Read
    <3> QED BY <2>0, <3>2, <3>3 DEF Good, Single
  <2> QED BY <2>1, <2>2
<1> QED BY <1>0, <1>3, <1>6, <1>7, <1>8, <1>9 DEF Good, s

(* What is pending is written into the section the lines end in. *)
LEMMA Flushed ==
  ASSUME NEW file, NEW u, NEW n \in Nat, NEW o, NEW P, NEW p \in [P -> Stamps],
         DOMAIN u \subseteq Keys, \A k \in P : p[k] = u[k],
         Good(file, u, n, o, P), P = {} \/ SectionOf(o, Len(o)) = "vstcache"
  PROVE  /\ Good(file, u, n, o \o Inserts(p), {})
         /\ SectionOf(o \o Inserts(p), Len(o \o Inserts(p))) = SectionOf(o, Len(o))
<1> DEFINE g == Inserts(p)
           s == o \o g
<1>0. o \in Seq(Line) /\ Len(o) \in Nat /\ P \subseteq DOMAIN u /\ P \subseteq Keys
  BY DEF Good
<1>1. /\ g \in Seq(Line)
      /\ \A j \in 1..Len(g) : \E k \in P : g[j] = Entry(k, p[k])
      /\ \A k \in P : \E j \in 1..Len(g) : g[j] = Entry(k, p[k])
      /\ \A i, j \in 1..Len(g) : g[i].name = g[j].name => i = j
  BY <1>0, InsertsEach
<1> HIDE DEF g
<1>2. \A j \in 1..Len(g) : ~g[j].section /\ g[j].name \in P
  <2>1. ASSUME NEW j \in 1..Len(g) PROVE ~g[j].section /\ g[j].name \in P
    <3>1. PICK k \in P : g[j] = Entry(k, p[k])
      BY <1>1
    <3> QED BY <3>1 DEF Entry
  <2> QED BY <2>1
<1>3. /\ s \in Seq(Line) /\ Len(s) = Len(o) + Len(g) /\ Len(g) \in Nat
      /\ \A i \in 1..Len(o) : s[i] = o[i]
      /\ \A i \in 0..Len(o) : SectionOf(s, i) = SectionOf(o, i)
      /\ \A j \in 1..Len(g) : s[Len(o) + j] = g[j]
      /\ \A j \in 0..Len(g) : SectionOf(s, Len(o) + j) = SectionOf(o, Len(o))
  <2>1. Len(g) \in Nat /\ \A j \in 1..Len(g) : ~g[j].section
    BY <1>1, <1>2
  <2> QED BY <1>0, <1>1, <2>1, Grown, Zenon
<1> HIDE DEF s
<1>4. \A j \in 1..Len(g) : Len(o) + j \in 1..Len(s)
  BY <1>0, <1>3
<1>5. 1..Len(o) \subseteq 1..Len(s)
  BY <1>0, <1>3
<1>6. Carried(file, DOMAIN u, n, s)
  BY <1>3, <1>5 DEF Good, Carried
<1>7. Written(file, u, n, s, {})
  <2> SUFFICES ASSUME NEW k \in DOMAIN u
               PROVE  \/ \E j \in 1..Len(s) : s[j] = Entry(k, u[k]) /\ SectionOf(s, j) = "vstcache"
                      \/ Stray(file, n, k)
    BY DEF Written
  <2>1. CASE k \in P
    <3>1. PICK j \in 1..Len(g) : g[j] = Entry(k, u[k])
      BY <1>1, <2>1
    <3>2. SectionOf(s, Len(o) + j) = "vstcache" /\ s[Len(o) + j] = Entry(k, u[k])
      BY <1>3, <2>1, <3>1
    <3> QED BY <1>4, <3>2
  <2>2. CASE k \notin P
    <3>1. CASE \E j \in 1..Len(o) : o[j] = Entry(k, u[k]) /\ SectionOf(o, j) = "vstcache"
      BY <1>3, <1>5, <3>1
    <3> QED BY <2>2, <3>1 DEF Good, Written
  <2> QED BY <2>1, <2>2
<1>8. Single(file, n, s)
  <2> SUFFICES ASSUME NEW k \in Keys, NEW x \in Places(s, Len(s), k),
                      NEW y \in Places(s, Len(s), k), x # y
               PROVE  Two(Places(file, n, k)) \/ SplitTo(file, n)
    BY DEF Single, Two
  <2>1. x \in 1..Len(s) /\ y \in 1..Len(s) /\ ~s[x].section /\ ~s[y].section
        /\ s[x].name = k /\ s[y].name = k
    BY DEF Places
  <2>2. CASE k \in P
    <3>1. ASSUME NEW z \in 1..Len(s), ~s[z].section, s[z].name = k
          PROVE  z - Len(o) \in 1..Len(g) /\ g[z - Len(o)].name = k
      <4>1. z \notin 1..Len(o)
        BY <1>3, <2>2, <3>1 DEF Good, Fresh
      <4>2. z - Len(o) \in 1..Len(g) /\ z = Len(o) + (z - Len(o))
        BY <1>0, <1>3, <4>1
      <4> QED BY <1>3, <3>1, <4>2
    <3>2. x - Len(o) = y - Len(o)
      BY <1>1, <2>1, <3>1
    <3> QED BY <1>0, <2>1, <3>2
  <2>3. CASE k \notin P
    <3>1. ASSUME NEW z \in 1..Len(s), z \notin 1..Len(o) PROVE s[z].name # k
      <4>1. z - Len(o) \in 1..Len(g) /\ z = Len(o) + (z - Len(o))
        BY <1>0, <1>3, <3>1
      <4>2. s[z] = g[z - Len(o)]
        BY <1>3, <4>1
      <4> QED BY <1>2, <2>3, <4>1, <4>2
    <3>2. x \in 1..Len(o) /\ y \in 1..Len(o)
      BY <2>1, <3>1
    <3>3. x \in Places(o, Len(o), k) /\ y \in Places(o, Len(o), k)
      BY <1>0, <1>3, <3>2 DEF Places
    <3> QED BY <3>3 DEF Good, Single, Two
  <2> QED BY <2>2, <2>3
<1>9. Fresh(s, {})
  BY DEF Fresh
<1>10. SectionOf(s, Len(s)) = SectionOf(o, Len(o))
  BY <1>3
<1> QED BY <1>3, <1>6, <1>7, <1>8, <1>9, <1>10 DEF Good, s, g

LoopInv(file, u, n, a) ==
  /\ Good(file, u, n, a.out, DOMAIN a.pending)
  /\ a.pending \in [DOMAIN a.pending -> Stamps]
  /\ \A k \in DOMAIN a.pending : a.pending[k] = u[k]
  /\ a.inside \in BOOLEAN /\ a.seen \in BOOLEAN
  /\ a.inside <=> SectionOf(file, n) = "vstcache"
  /\ SectionOf(a.out, Len(a.out)) = SectionOf(file, n)
  /\ a.seen <=> \E i \in 1..n : file[i] = VstCache
  /\ a.inside => a.seen
  /\ (a.seen /\ ~a.inside) => DOMAIN a.pending = {}
  /\ \A k \in Keys : Places(a.out, Len(a.out), k) # {} =>
       \/ Places(file, n, k) # {} \/ SplitTo(file, n) \/ (a.seen /\ ~a.inside)

(* Before the first line. *)
LEMMA LoopBegins ==
  ASSUME NEW file, NEW D, D \subseteq Keys, NEW u \in [D -> Stamps]
  PROVE  LoopInv(file, u, 0, Begin(u))
<1> DEFINE a == Begin(u)
<1>1. a.out = <<>> /\ a.pending = u /\ a.inside = FALSE /\ a.seen = FALSE
  BY DEF Begin
<1> HIDE DEF a
<1>2. a.out \in Seq(Line) /\ Len(a.out) = 0 /\ 1..Len(a.out) = {} /\ 1..0 = {}
  BY <1>1
<1>3. Good(file, u, 0, a.out, DOMAIN a.pending)
  <2>1. Single(file, 0, a.out)
    BY <1>2 DEF Single, Two, Places
  <2>2. Fresh(a.out, DOMAIN a.pending)
    BY <1>2 DEF Fresh
  <2>3. Carried(file, DOMAIN u, 0, a.out) /\ Written(file, u, 0, a.out, DOMAIN a.pending)
    BY <1>1, <1>2 DEF Carried, Written
  <2> QED BY <1>1, <1>2, <2>1, <2>2, <2>3 DEF Good
<1>4. SectionOf(file, 0) = None /\ SectionOf(a.out, Len(a.out)) = None
  BY <1>2, NoSection
<1>5. None # "vstcache"
  BY CacheAssumption DEF CacheAssumption
<1>6. \A k \in Keys : Places(a.out, Len(a.out), k) = {}
  BY <1>2 DEF Places
<1>7. DOMAIN u = D
  OBVIOUS
<1>8. a.pending \in [DOMAIN a.pending -> Stamps] /\ \A k \in DOMAIN a.pending : a.pending[k] = u[k]
  BY <1>1, <1>7
<1> QED BY <1>1, <1>2, <1>3, <1>4, <1>5, <1>6, <1>8 DEF LoopInv, a

(* Each line keeps the invariant: a header flushes what is pending, a      *)
(* pending key is replaced in place, all else is copied.                   *)
LEMMA LoopStep ==
  ASSUME NEW file \in Seq(Line), NEW D, D \subseteq Keys, NEW u \in [D -> Stamps],
         NEW n \in Nat, n < Len(file), NEW a, LoopInv(file, u, n, a)
  PROVE  LoopInv(file, u, n + 1, WriteLine(a, file[n + 1]))
<1> DEFINE line == file[n + 1]
           P == DOMAIN a.pending
           b == WriteLine(a, line)
<1>0. /\ line \in Line /\ DOMAIN u = D /\ P \subseteq D
      /\ a.out \in Seq(Line) /\ Len(a.out) \in Nat /\ n + 1 \in Nat
  BY DEF LoopInv, Good
<1>1. Read(file, n)
  BY NextLine
<1>2. 1..n + 1 = 1..n \cup {n + 1}
  OBVIOUS
<1>3. SplitTo(file, n) => SplitTo(file, n + 1)
  BY <1>2 DEF SplitTo
<1>4. CASE line.section
  <2> DEFINE o == a.out \o (IF a.inside THEN Inserts(a.pending) ELSE <<>>)
             Q == IF a.inside THEN {} ELSE P
  <2>1. /\ b.out = o \o <<line>>
        /\ b.pending = IF a.inside THEN <<>> ELSE a.pending
        /\ b.inside = (line = VstCache)
        /\ b.seen = (a.seen \/ line = VstCache)
    BY <1>4 DEF WriteLine
  <2>2. Good(file, u, n, o, Q)
    <3>1. CASE a.inside
      <4>1. Good(file, u, n, a.out, P) /\ SectionOf(a.out, Len(a.out)) = "vstcache"
            /\ a.pending \in [P -> Stamps] /\ \A k \in P : a.pending[k] = u[k]
        BY <3>1 DEF LoopInv
      <4>2. Good(file, u, n, a.out \o Inserts(a.pending), {})
        <5> HIDE DEF P
        <5> QED BY <1>0, <4>1, Flushed
      <4> QED BY <3>1, <4>2
    <3>2. CASE ~a.inside
      <4>1. o = a.out
        BY <1>0, <3>2
      <4> HIDE DEF o
      <4> QED BY <3>2, <4>1 DEF LoopInv
    <3> QED BY <3>1, <3>2
  <2>3. DOMAIN b.pending = Q
    BY <2>1
  <2>4. o \in Seq(Line) /\ b.out = Append(o, line)
    <3>1. o \in Seq(Line)
      BY <2>2 DEF Good
    <3> HIDE DEF o, line
    <3> QED BY <1>0, <2>1, <3>1
  <2> HIDE DEF o
  <2>5. Good(file, u, n + 1, b.out, Q)
    <3>1. Good(file, u, n, Append(o, line), Q)
      <4> HIDE DEF line, Q
      <4> QED BY <1>0, <1>4, <2>2, HeaderAdded
    <3>2. Good(file, u, n + 1, Append(o, line), Q)
      <4> HIDE DEF Q
      <4> QED BY <1>0, <1>4, <3>1, HeaderRead
    <3> QED BY <2>4, <3>2
  <2>6. SectionOf(b.out, Len(b.out)) = line.name
        /\ \A k : Places(b.out, Len(b.out), k) = Places(o, Len(o), k)
    <3>1. Added(o, line, b.out)
      BY <1>0, <2>4, LineAdded
    <3> QED BY <1>4, <3>1 DEF Added, OneMore
  <2>7. SectionOf(file, n + 1) = line.name
    BY <1>1, <1>4 DEF Read
  <2>8. line = VstCache <=> line.name = "vstcache"
    BY <1>0, <1>4, LineTypes
  <2>9. b.pending \in [Q -> Stamps] /\ \A k \in Q : b.pending[k] = u[k]
    BY <2>1 DEF LoopInv
  <2>10. b.seen <=> \E i \in 1..n + 1 : file[i] = VstCache
    BY <1>2, <2>1 DEF LoopInv
  <2>11. (b.seen /\ ~b.inside) => Q = {}
    BY <2>1 DEF LoopInv
  <2>12. ASSUME NEW k \in Keys, Places(b.out, Len(b.out), k) # {}, ~(b.seen /\ ~b.inside)
         PROVE  Places(file, n + 1, k) # {} \/ SplitTo(file, n + 1)
    <3>1. CASE a.seen
      <4>1. PICK i \in 1..n : file[i] = VstCache
        BY <3>1 DEF LoopInv
      <4>2. line = VstCache
        BY <2>1, <2>12, <3>1
      <4>3. i \in 1..n + 1 /\ n + 1 \in 1..n + 1 /\ i # n + 1
        OBVIOUS
      <4> QED BY <4>1, <4>2, <4>3 DEF SplitTo
    <3>2. CASE ~a.seen
      <4>1. ~a.inside
        BY <3>2 DEF LoopInv
      <4>2. o = a.out
        BY <1>0, <4>1 DEF o
      <4>3. Places(file, n, k) # {} \/ SplitTo(file, n)
        BY <2>6, <2>12, <3>2, <4>2 DEF LoopInv
      <4>4. Places(file, n + 1, k) = Places(file, n, k)
        BY <1>1, <1>4 DEF Read, OneMore
      <4> QED BY <1>3, <4>3, <4>4
    <3> QED BY <3>1, <3>2
  <2>13. b.inside \in BOOLEAN /\ b.seen \in BOOLEAN /\ (b.inside => b.seen)
    BY <2>1 DEF LoopInv
  <2> HIDE DEF b, Q
  <2> QED BY <2>1, <2>3, <2>5, <2>6, <2>7, <2>8, <2>9, <2>10, <2>11, <2>12, <2>13 DEF LoopInv, b
<1>5. CASE ~line.section
  <2> DEFINE w == IF line.name \in P THEN Entry(line.name, a.pending[line.name]) ELSE line
             Q == P \ {line.name}
  <2>1. b.out = Append(a.out, w) /\ b.inside = a.inside /\ b.seen = a.seen
    BY <1>5 DEF WriteLine
  <2>2. DOMAIN b.pending = Q /\ b.pending \in [Q -> Stamps] /\ \A k \in Q : b.pending[k] = u[k]
    <3>1. a.pending \in [P -> Stamps] /\ \A k \in P : a.pending[k] = u[k]
      BY DEF LoopInv
    <3>2. CASE line.name \in P
      <4>1. b.pending = [k \in Q |-> a.pending[k]]
        BY <1>5, <3>2 DEF WriteLine, Restrict
      <4> HIDE DEF b
      <4> QED BY <3>1, <4>1
    <3>3. CASE line.name \notin P
      <4>1. b.pending = a.pending /\ Q = P
        BY <1>5, <3>3 DEF WriteLine
      <4> HIDE DEF b, Q
      <4> QED BY <3>1, <4>1
    <3> QED BY <3>2, <3>3
  <2>3. w \in Line /\ ~w.section /\ w.name = line.name
    BY <1>0, <1>5 DEF Entry, Line, LoopInv
  <2>4. (w.name \in P => w = Entry(w.name, u[w.name])) /\ (w.name \notin P => w = line)
    BY <1>5 DEF LoopInv, Entry
  <2> HIDE DEF w, b, Q
  <2>5. Good(file, u, n + 1, b.out, Q)
    <3>1. Good(file, u, n, a.out, P) /\ SectionOf(a.out, Len(a.out)) = SectionOf(file, n)
      BY DEF LoopInv
    <3>2. SectionOf(file, n) = "vstcache" =>
            \A k \in Keys : Places(a.out, Len(a.out), k) # {} =>
                              Places(file, n, k) # {} \/ SplitTo(file, n)
      BY DEF LoopInv
    <3>3. Good(file, u, n + 1, Append(a.out, w), P \ {w.name})
      <4> HIDE DEF P
      <4> QED BY <1>5, <2>3, <2>4, <3>1, <3>2, EntryWritten
    <3> QED BY <2>1, <2>3, <3>3 DEF Q
  <2>6. SectionOf(file, n + 1) = SectionOf(file, n)
    BY <1>1, <1>5 DEF Read
  <2>7. Added(a.out, w, b.out)
    BY <1>0, <2>1, <2>3, LineAdded
  <2>8. SectionOf(b.out, Len(b.out)) = SectionOf(a.out, Len(a.out))
    BY <2>3, <2>7 DEF Added
  <2>9. line # VstCache
    BY <1>5 DEF VstCache, Section
  <2>10. \A k \in Keys : Places(b.out, Len(b.out), k) # {} =>
           Places(file, n + 1, k) # {} \/ SplitTo(file, n + 1) \/ (b.seen /\ ~b.inside)
    <3> SUFFICES ASSUME NEW k \in Keys, Places(b.out, Len(b.out), k) # {}, ~(b.seen /\ ~b.inside)
                 PROVE  Places(file, n + 1, k) # {} \/ SplitTo(file, n + 1)
      OBVIOUS
    <3>1. CASE OneMore(line, SectionOf(file, n), k)
      <4>1. Places(file, n + 1, k) = Places(file, n, k) \cup {n + 1}
        BY <1>1, <3>1 DEF Read
      <4> QED BY <4>1
    <3>2. CASE ~OneMore(line, SectionOf(file, n), k)
      <4>1. ~OneMore(w, SectionOf(a.out, Len(a.out)), k)
        BY <1>5, <2>3, <3>2 DEF OneMore, LoopInv
      <4>2. Places(b.out, Len(b.out), k) = Places(a.out, Len(a.out), k)
        BY <2>7, <4>1 DEF Added
      <4>3. Places(file, n + 1, k) = Places(file, n, k)
        BY <1>1, <3>2 DEF Read
      <4> QED BY <1>3, <2>1, <4>2, <4>3 DEF LoopInv
    <3> QED BY <3>1, <3>2
  <2>11. b.seen <=> \E i \in 1..n + 1 : file[i] = VstCache
    BY <1>2, <2>1, <2>9 DEF LoopInv
  <2>12. (b.seen /\ ~b.inside) => Q = {}
    BY <2>1 DEF LoopInv, Q
  <2>13. /\ b.inside \in BOOLEAN /\ b.seen \in BOOLEAN /\ (b.inside => b.seen)
         /\ (b.inside <=> SectionOf(file, n + 1) = "vstcache")
         /\ SectionOf(b.out, Len(b.out)) = SectionOf(file, n + 1)
    BY <2>1, <2>6, <2>8 DEF LoopInv
  <2> QED BY <2>2, <2>5, <2>10, <2>11, <2>12, <2>13 DEF LoopInv, b
<1> QED BY <1>0, <1>4, <1>5, LineTypes

Loop(file, u) == CHOOSE acc : IsLoop(acc, file, u, Len(file))

Header(end) == IF DOMAIN end.pending # {} /\ ~end.seen THEN <<VstCache>> ELSE <<>>
Ending(end) == end.out \o Header(end) \o Inserts(end.pending)

(* The equations of the recursive function, and the end of the rewriting. *)
LEMMA LoopEquations ==
  ASSUME NEW file \in Seq(Line), NEW u
  PROVE  /\ WriteEntries(file, u) = Ending(Loop(file, u)[Len(file)])
         /\ Loop(file, u)[0] = Begin(u)
         /\ \A n \in Nat : n < Len(file) =>
              Loop(file, u)[n + 1] = WriteLine(Loop(file, u)[n], file[n + 1])
<1> DEFINE acc == Loop(file, u)
<1>1. Len(file) \in Nat
  OBVIOUS
<1>2. \E f : IsLoop(f, file, u, Len(file))
  BY <1>1, LoopExists
<1>3. IsLoop(acc, file, u, Len(file))
  BY <1>2, Zenon DEF Loop
<1>4. WriteEntries(file, u) = Ending(acc[Len(file)])
  BY Zenon DEF WriteEntries, Loop, IsLoop, Begin, Ending, Header
<1> HIDE DEF acc
<1>5. acc = [n \in 0..Len(file) |-> IF n = 0 THEN Begin(u) ELSE WriteLine(acc[n - 1], file[n])]
  BY <1>3, Zenon DEF IsLoop
<1>6. ASSUME NEW n \in 0..Len(file)
      PROVE  acc[n] = IF n = 0 THEN Begin(u) ELSE WriteLine(acc[n - 1], file[n])
  BY <1>5, Zenon
<1>7. acc[0] = Begin(u)
  <2>1. 0 \in 0..Len(file)
    BY <1>1
  <2> QED BY <1>6, <2>1, Zenon
<1>8. ASSUME NEW n \in Nat, n < Len(file) PROVE acc[n + 1] = WriteLine(acc[n], file[n + 1])
  <2>1. n + 1 \in 0..Len(file) /\ n + 1 # 0 /\ (n + 1) - 1 = n
    BY <1>1, <1>8
  <2> QED BY <1>6, <2>1, Zenon
<1> QED BY <1>4, <1>7, <1>8 DEF acc

(* So the invariant holds after every line. *)
LEMMA LoopInvariant ==
  ASSUME NEW file \in Seq(Line), NEW D, D \subseteq Keys, NEW u \in [D -> Stamps],
         NEW m \in Nat, m <= Len(file)
  PROVE  LoopInv(file, u, m, Loop(file, u)[m])
<1> DEFINE acc == Loop(file, u)
           S == {n \in Nat : n <= Len(file) => LoopInv(file, u, n, acc[n])}
<1>1. 0 \in S
  <2>1. LoopInv(file, u, 0, acc[0])
    BY LoopBegins, LoopEquations
  <2> QED BY <2>1
<1>2. ASSUME NEW n \in Nat, n \in S PROVE n + 1 \in S
  <2> SUFFICES ASSUME n + 1 <= Len(file) PROVE LoopInv(file, u, n + 1, acc[n + 1])
    OBVIOUS
  <2>1. n < Len(file) /\ LoopInv(file, u, n, acc[n])
    BY <1>2
  <2>2. acc[n + 1] = WriteLine(acc[n], file[n + 1])
    BY <2>1, LoopEquations
  <2> HIDE DEF acc
  <2> QED BY <2>1, <2>2, LoopStep
<1>3. Nat \subseteq S
  <2> HIDE DEF S
  <2> QED BY <1>1, <1>2, Induct
<1> QED BY <1>3

(* What a file is after the rewriting. *)
LEMMA Rewritten ==
  ASSUME NEW file \in Seq(Line), NEW D, D \subseteq Keys, NEW u \in [D -> Stamps]
  PROVE  Good(file, u, Len(file), WriteEntries(file, u), {})
<1> DEFINE n == Len(file)
           a == Loop(file, u)[n]
           P == DOMAIN a.pending
           o == a.out \o Header(a)
<1>0. Len(file) \in Nat
  OBVIOUS
<1>1. LoopInv(file, u, n, a) /\ n \in Nat
  <2>1. Len(file) <= Len(file)
    BY <1>0
  <2> QED BY <1>0, <2>1, LoopInvariant, Zenon
<1>2. WriteEntries(file, u) = o \o Inserts(a.pending)
  BY LoopEquations DEF Ending
<1>3. DOMAIN u \subseteq Keys
  OBVIOUS
<1> HIDE DEF a, n
<1>4. a.out \in Seq(Line) /\ a.pending \in [P -> Stamps] /\ \A k \in P : a.pending[k] = u[k]
  BY <1>1 DEF LoopInv, Good
<1>5. Good(file, u, n, o, P) /\ (P = {} \/ SectionOf(o, Len(o)) = "vstcache")
  <2>1. CASE Header(a) = <<>>
    <3>1. o = a.out
      BY <1>4, <2>1
    <3>2. P = {} \/ a.seen
      BY <2>1 DEF Header
    <3> HIDE DEF o
    <3> QED BY <1>1, <3>1, <3>2 DEF LoopInv
  <2>2. CASE Header(a) = <<VstCache>>
    <3>1. VstCache \in Line /\ VstCache.section /\ VstCache.name = "vstcache"
      BY DEF VstCache, Section, Line
    <3>2. o = Append(a.out, VstCache)
      BY <1>4, <2>2, <3>1
    <3>3. Added(a.out, VstCache, o)
      BY <1>4, <3>1, <3>2, LineAdded
    <3>4. Good(file, u, n, a.out, P)
      BY <1>1 DEF LoopInv
    <3> HIDE DEF o, P
    <3>5. Good(file, u, n, o, P)
      BY <1>1, <3>1, <3>2, <3>4, HeaderAdded
    <3> QED BY <3>1, <3>3, <3>5 DEF Added
  <2> QED BY <2>1, <2>2 DEF Header
<1> HIDE DEF o, P
<1>6. Good(file, u, n, o \o Inserts(a.pending), {})
  BY <1>1, <1>3, <1>4, <1>5, Flushed
<1> QED BY <1>2, <1>6 DEF n

-----------------------------------------------------------------------------
(* complete_cache *)

(* The entries to write: a stamp of the disk for each key that differs. *)
LEMMA UpsertsAre ==
  ASSUME disk \in Disk, NEW file
  PROVE  /\ Upserts(file) \in [DOMAIN Upserts(file) -> Stamps]
         /\ DOMAIN Upserts(file) = {k \in Keys : Differing(file, k) # {}}
         /\ \A k \in DOMAIN Upserts(file) :
              \E d \in Differing(file, k) : Upserts(file)[k] = disk[d][k]
<1>1. DOMAIN Upserts(file) = {k \in Keys : Differing(file, k) # {}}
  BY DEF Upserts
<1>2. ASSUME NEW k \in DOMAIN Upserts(file)
      PROVE  \E d \in Differing(file, k) : Upserts(file)[k] = disk[d][k]
  <2>1. Differing(file, k) \subseteq Dirs /\ Differing(file, k) # {} /\ k \in Keys
    BY <1>1, <1>2 DEF Differing
  <2>2. Max(Differing(file, k)) \in Differing(file, k)
    <3>1. IsFiniteSet(Differing(file, k)) /\ Differing(file, k) \subseteq Nat
      BY <2>1, CacheAssumption, FS_Subset DEF CacheAssumption
    <3>2. PICK n \in Nat : Differing(file, k) \subseteq 0..n
      BY <3>1, Bounded
    <3> QED BY <2>1, <3>2, Largest
  <2>3. Upserts(file)[k] = disk[Max(Differing(file, k))][k]
    BY <1>1, <2>1 DEF Upserts
  <2> QED BY <2>2, <2>3
<1>3. \A k \in DOMAIN Upserts(file) : Upserts(file)[k] \in Stamps
  BY <1>2 DEF Differing
<1>4. Upserts(file) = [k \in DOMAIN Upserts(file) |-> Upserts(file)[k]]
  BY DEF Upserts
<1> QED BY <1>1, <1>2, <1>3, <1>4

(* The completed file is a cache file. *)
LEMMA CompletedType ==
  ASSUME disk \in Disk, NEW file \in CacheFile
  PROVE  Completed(file) \in CacheFile
<1>1. CASE file = NoFile \/ DOMAIN Upserts(file) = {}
  BY <1>1 DEF Completed
<1>2. CASE ~(file = NoFile \/ DOMAIN Upserts(file) = {})
  <2>1. file \in Seq(Line)
    BY <1>2 DEF CacheFile
  <2>2. DOMAIN Upserts(file) \subseteq Keys
    BY UpsertsAre
  <2>3. Good(file, Upserts(file), Len(file), WriteEntries(file, Upserts(file)), {})
    BY <2>1, <2>2, UpsertsAre, Rewritten
  <2> QED BY <1>2, <2>3 DEF Completed, CacheFile, Good
<1> QED BY <1>1, <1>2

(* A file that is there is not NoFile. *)
LEMMA NoFileIsNone == ASSUME NEW file \in Seq(Line) PROVE file # NoFile
<1>1. SUFFICES ASSUME file = NoFile PROVE FALSE
  OBVIOUS
<1>2. Len(file) = 1 /\ file[1] = None
  BY <1>1 DEF NoFile
<1>3. None \in Line
  BY <1>2
<1> QED BY <1>3, CacheAssumption DEF CacheAssumption

(* The plug-in k has one mtime wherever it is, and its key has entries in  *)
(* [vstcache] only: then REAPER knows it after the completion.             *)
LEMMA CompletedKnows ==
  ASSUME disk \in Disk, NEW file \in Seq(Line), NEW d \in Dirs, NEW k \in Keys,
         disk[d][k] \in Stamps,
         \A e \in Dirs : disk[e][k] \in Stamps => disk[e][k] = disk[d][k],
         ~Stray(file, Len(file), k)
  PROVE  Knows(Completed(file), k, disk[d][k])
<1> DEFINE u == Upserts(file)
           new == WriteEntries(file, u)
<1>1. DOMAIN u = {q \in Keys : Differing(file, q) # {}} /\ u \in [DOMAIN u -> Stamps]
      /\ \A q \in DOMAIN u : \E e \in Differing(file, q) : u[q] = disk[e][q]
  BY UpsertsAre
<1>2. DOMAIN u \subseteq Keys
  BY <1>1
<1> HIDE DEF u
<1>3. Good(file, u, Len(file), new, {})
  BY <1>1, <1>2, Rewritten
<1>4. new \in Seq(Line) /\ new # NoFile /\ file # NoFile
  BY <1>3, NoFileIsNone DEF Good
<1>5. CASE k \in DOMAIN u
  <2>1. u[k] = disk[d][k]
    BY <1>1, <1>5 DEF Differing
  <2>2. PICK j \in 1..Len(new) : new[j] = Entry(k, u[k]) /\ SectionOf(new, j) = "vstcache"
    BY <1>3, <1>5 DEF Good, Written
  <2>3. Completed(file) = new
    BY <1>4, <1>5 DEF Completed, u
  <2>4. j \in Entries(new) /\ new[j].name = k /\ new[j].stamp = disk[d][k]
    BY <1>4, <2>1, <2>2 DEF Entry, Entries
  <2> QED BY <1>4, <2>2, <2>3, <2>4 DEF Knows
<1>6. CASE k \notin DOMAIN u
  <2> DEFINE at == {i \in Entries(file) : file[i].name = k}
  <2>1. Differing(file, k) = {}
    BY <1>1, <1>6
  <2>2. disk[d][k] = Existing(file, k)
    BY <2>1 DEF Differing
  <2>3. at # {}
    <3>1. CASE at = {}
      <4>1. Existing(file, k) = None
        BY <3>1, Zenon DEF Existing
      <4> QED BY <2>2, <4>1, CacheAssumption DEF CacheAssumption
    <3> QED BY <3>1
  <2>4. Existing(file, k) = file[Max(at)].stamp
    BY <2>3, Zenon DEF Existing
  <2>5. Max(at) \in at
    <3>1. at \subseteq 0..Len(file)
      BY DEF Entries
    <3>2. Len(file) \in Nat
      OBVIOUS
    <3> HIDE DEF at
    <3> QED BY <2>3, <3>1, <3>2, Largest
  <2>6. PICK i \in 1..Len(file) : ~file[i].section /\ file[i].name = k
                                  /\ file[i].stamp = disk[d][k]
    <3>1. Max(at) \in Entries(file) /\ file[Max(at)].name = k
      BY <2>5
    <3>2. Max(at) \in 1..Len(file) /\ ~file[Max(at)].section
      BY <3>1 DEF Entries
    <3> QED BY <2>2, <2>4, <3>1, <3>2
  <2>7. SectionOf(file, i) = "vstcache"
    BY <2>6 DEF Stray
  <2>8. Knows(file, k, disk[d][k])
    BY <1>4, <2>6, <2>7 DEF Knows, Entries
  <2>9. PICK j \in 1..Len(new) : new[j] = file[i] /\ SectionOf(new, j) = SectionOf(file, i)
    BY <1>3, <1>6, <2>6 DEF Good, Carried
  <2>10. Knows(new, k, disk[d][k])
    BY <1>4, <2>6, <2>7, <2>9 DEF Knows, Entries
  <2> QED BY <2>8, <2>10 DEF Completed, u
<1> QED BY <1>5, <1>6

=============================================================================
