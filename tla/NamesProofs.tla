----------------------------- MODULE NamesProofs -----------------------------
(* Proofs about the names of rooms: what the slugs are, and that the rename   *)
(* planner of the migration keeps its promises for every table.               *)
EXTENDS RoomTable, FiniteSetTheorems, WellFoundedInduction, TLAPS

Run  == STRING \ {"-", "DM"}
Slug == Seq(Run)

(* A set of numbers has a least one, and so there is induction over the       *)
(* numbers, for a set of them.                                                *)
LEMMA LeastNumber ==
  ASSUME NEW T \in SUBSET Nat, T # {}
  PROVE  \E x \in T : \A y \in T : x <= y
<1>1. PICK x \in T : \A y \in T : ~(<<y, x>> \in OpToRel(<, Nat))
  BY WFMin, NatLessThanWellFounded, Zenon
<1>2. \A y \in T : ~(y < x)
  BY <1>1 DEF OpToRel
<1> QED BY <1>2

LEMMA NatSets ==
  ASSUME NEW T \in SUBSET Nat, 0 \in T, \A n \in T : n + 1 \in T
  PROVE  T = Nat
<1> SUFFICES ASSUME Nat \ T # {} PROVE FALSE
  OBVIOUS
<1>1. PICK x \in Nat \ T : \A y \in Nat \ T : x <= y
  <2>1. Nat \ T \in SUBSET Nat
    OBVIOUS
  <2> QED BY <2>1, LeastNumber
<1> QED BY <1>1

-------------------------------------------------------------------------------
(* canonical_slug()                                                           *)
LEMMA SlugSteps ==
  ASSUME NEW text \in Seq(STRING)
  PROVE  \E s : /\ s = [i \in 0..Len(text) |->
                          IF i = 0 THEN <<>>
                          ELSE IF text[i] = "-" THEN s[i - 1]
                          ELSE Append(s[i - 1], Lower(text[i]))]
                /\ Canonical(text) = s[Len(text)]
<1> DEFINE Step(s, i) == IF i = 0 THEN <<>>
                         ELSE IF text[i] = "-" THEN s[i - 1]
                         ELSE Append(s[i - 1], Lower(text[i]))
           T == {n \in Nat : \E s : s = [i \in 0..n |-> Step(s, i)]}
<1>1. 0 \in T
  <2> DEFINE s == [i \in 0..0 |-> <<>>]
  <2>1. s = [i \in 0..0 |-> Step(s, i)]
    OBVIOUS
  <2> QED BY <2>1
<1>2. ASSUME NEW n \in T PROVE n + 1 \in T
  <2>0. n \in Nat
    OBVIOUS
  <2>1. PICK s : s = [i \in 0..n |-> Step(s, i)]
    OBVIOUS
  <2> HIDE DEF T
  <2> DEFINE t == [i \in 0..(n + 1) |-> IF i = n + 1 THEN Step(s, n + 1) ELSE s[i]]
  <2>2. \A i \in 0..n : i \in 0..(n + 1) /\ i # n + 1
    BY <2>0
  <2>3. \A i \in 0..n : t[i] = s[i]
    BY <2>2
  <2>4. \A i \in 0..n : s[i] = Step(s, i)
    <3> HIDE DEF Step
    <3> QED BY <2>1
  <2>5. \A i \in 0..(n + 1) : i # 0 => i - 1 \in 0..n
    BY <2>0
  <2>6. \A i \in 0..(n + 1) : Step(t, i) = Step(s, i)
    BY <2>3, <2>5
  <2>7. \A i \in 0..(n + 1) : t[i] = Step(t, i)
    <3> HIDE DEF Step
    <3>1. \A i \in 0..(n + 1) : i = n + 1 \/ i \in 0..n
      BY <2>0
    <3> QED BY <2>3, <2>4, <2>6, <3>1
  <2>8. t = [i \in 0..(n + 1) |-> Step(t, i)]
    <3> HIDE DEF Step
    <3> QED BY <2>7
  <2>9. n + 1 \in Nat
    BY <2>0
  <2> QED BY <2>8, <2>9, Zenon DEF T
<1>3. Len(text) \in T
  <2> HIDE DEF T
  <2>1. T \in SUBSET Nat
    BY DEF T
  <2>2. T = Nat
    BY <1>1, <1>2, <2>1, NatSets
  <2> QED BY <2>2
<1>4. \E t : t = [i \in 0..Len(text) |-> Step(t, i)]
  BY <1>3
<1> DEFINE c == CHOOSE t : t = [i \in 0..Len(text) |-> Step(t, i)]
<1>5. c = [i \in 0..Len(text) |-> Step(c, i)]
  BY <1>4
<1>6. Canonical(text) = c[Len(text)]
  BY DEF Canonical
<1> QED BY <1>5, <1>6

LEMMA Words == "dm" \in Run /\ "room" \in Run
<1>1. "dm" \in STRING /\ "room" \in STRING
  BY WordAssumption
<1>2. "dm" # "-" /\ "dm" # "DM" /\ "room" # "-" /\ "room" # "DM"
  OBVIOUS
<1> QED BY <1>1, <1>2 DEF Run

LEMMA Lowered == ASSUME NEW run \in STRING, run # "-" PROVE Lower(run) \in Run
<1>1. CASE run = "DM"
  BY <1>1, Words DEF Lower
<1>2. CASE run # "DM"
  <2>1. Lower(run) = run
    BY <1>2 DEF Lower
  <2> QED BY <1>2, <2>1 DEF Run
<1> QED BY <1>1, <1>2

(* A slug has no dashes and no capitals left.                                 *)
LEMMA SlugIsClean == ASSUME NEW text \in Seq(STRING) PROVE Canonical(text) \in Slug
<1>1. PICK s : /\ s = [i \in 0..Len(text) |->
                         IF i = 0 THEN <<>>
                         ELSE IF text[i] = "-" THEN s[i - 1]
                         ELSE Append(s[i - 1], Lower(text[i]))]
               /\ Canonical(text) = s[Len(text)]
  BY SlugSteps
<1>2. Len(text) \in Nat /\ \A i \in 1..Len(text) : text[i] \in STRING
  OBVIOUS
<1> DEFINE T == {n \in Nat : n <= Len(text) => s[n] \in Slug}
<1>3. 0 \in T
  BY <1>1, <1>2 DEF Slug
<1>4. ASSUME NEW n \in T, n + 1 <= Len(text) PROVE s[n + 1] \in Slug
  <2>1. n \in Nat /\ s[n] \in Slug
    BY <1>2, <1>4
  <2>2. n + 1 \in 1..Len(text) /\ n + 1 \in 0..Len(text) /\ n + 1 # 0 /\ (n + 1) - 1 = n
    BY <1>2, <1>4, <2>1
  <2>3. s[n + 1] = IF text[n + 1] = "-" THEN s[n] ELSE Append(s[n], Lower(text[n + 1]))
    BY <1>1, <2>2
  <2>4. text[n + 1] # "-" => Lower(text[n + 1]) \in Run
    BY <1>2, <2>2, Lowered
  <2>5. text[n + 1] # "-" => Append(s[n], Lower(text[n + 1])) \in Slug
    BY <2>1, <2>4 DEF Slug
  <2> QED BY <2>1, <2>3, <2>5
<1>5. \A n \in T : n + 1 \in T
  BY <1>4
<1>6. T = Nat
  <2> HIDE DEF T
  <2>1. T \in SUBSET Nat
    BY DEF T
  <2> QED BY <1>3, <1>5, <2>1, NatSets
<1>7. Len(text) \in T
  <2> HIDE DEF T
  <2> QED BY <1>2, <1>6
<1> QED BY <1>1, <1>2, <1>7

LEMMA SlugIsText == Slug \subseteq Seq(STRING)
BY DEF Slug, Run

(* It is its own slug.                                                        *)
LEMMA SlugOfSlug == ASSUME NEW slug \in Slug PROVE Canonical(slug) = slug
<1>0. slug \in Seq(STRING) /\ Len(slug) \in Nat /\ slug = [i \in 1..Len(slug) |-> slug[i]]
  BY SlugIsText DEF Slug
<1>1. PICK s : /\ s = [i \in 0..Len(slug) |->
                         IF i = 0 THEN <<>>
                         ELSE IF slug[i] = "-" THEN s[i - 1]
                         ELSE Append(s[i - 1], Lower(slug[i]))]
               /\ Canonical(slug) = s[Len(slug)]
  BY <1>0, SlugSteps
<1>2. \A i \in 1..Len(slug) : slug[i] \in Run
  BY DEF Slug
<1> DEFINE T == {n \in Nat : n <= Len(slug) => s[n] = [i \in 1..n |-> slug[i]]}
<1>3. 0 \in T
  BY <1>1, <1>0
<1>4. ASSUME NEW n \in T, n + 1 <= Len(slug) PROVE s[n + 1] = [i \in 1..(n + 1) |-> slug[i]]
  <2>1. n \in Nat /\ s[n] = [i \in 1..n |-> slug[i]]
    BY <1>0, <1>4
  <2>2. n + 1 \in 1..Len(slug) /\ n + 1 \in 0..Len(slug) /\ n + 1 # 0 /\ (n + 1) - 1 = n
    BY <1>0, <1>4, <2>1
  <2>3. s[n + 1] = IF slug[n + 1] = "-" THEN s[n] ELSE Append(s[n], Lower(slug[n + 1]))
    BY <1>1, <2>2
  <2>4. slug[n + 1] # "-" /\ Lower(slug[n + 1]) = slug[n + 1]
    BY <1>2, <2>2 DEF Lower, Run
  <2>5. s[n + 1] = Append([i \in 1..n |-> slug[i]], slug[n + 1])
    BY <2>1, <2>3, <2>4
  <2>6. \A i \in 1..n : slug[i] \in Run
    BY <1>2, <2>1, <2>2
  <2>7. [i \in 1..n |-> slug[i]] \in Seq(Run) /\ Len([i \in 1..n |-> slug[i]]) = n
    BY <2>1, <2>6
  <2> QED BY <2>1, <2>5, <2>7
<1>5. \A n \in T : n + 1 \in T
  BY <1>4
<1>6. T = Nat
  <2> HIDE DEF T
  <2>1. T \in SUBSET Nat
    BY DEF T
  <2> QED BY <1>3, <1>5, <2>1, NatSets
<1>7. Len(slug) \in T
  <2> HIDE DEF T
  <2> QED BY <1>0, <1>6
<1>8. s[Len(slug)] = [i \in 1..Len(slug) |-> slug[i]]
  BY <1>0, <1>7
<1> QED BY <1>0, <1>1, <1>8

-------------------------------------------------------------------------------
(* plan_room_name_dedup(): the base and its suffixes.                         *)
LEMMA Numerals ==
  ASSUME NEW n \in 0..MaxNumeral
  PROVE  ToString(n) \in Run /\ ToString(n) # "dm" /\ ToString(n) # "room"
BY NumeralAssumption DEF Run

LEMMA Bases ==
  ASSUME NEW slug \in Slug
  PROVE  /\ Base(slug) \in Slug /\ Base(slug) # <<>> /\ Len(Base(slug)) <= Len(slug) + 1
         /\ ~IsDigit(Base(slug)) /\ ~Reserved(Base(slug))
         /\ Base(slug)[1] = "dm" => Base(slug) = <<"dm">> /\ slug = <<"dm">>
<1>1. "room" \in Run /\ Len(slug) \in Nat /\ <<"room">> \in Seq(Run) /\ <<"room">> # <<>>
  BY Words DEF Slug
<1>2. CASE slug = <<>>
  <2>1. Base(slug) = <<"room">>
    BY <1>2 DEF Base
  <2>2. ~IsDigit(<<"room">>)
    BY Numerals DEF IsDigit
  <2> QED BY <1>1, <1>2, <2>1, <2>2 DEF Slug, Reserved
<1>3. CASE slug # <<>> /\ (IsDigit(slug) \/ Reserved(slug))
  <2>1. Base(slug) = <<"room">> \o slug
    BY <1>3 DEF Base
  <2>2. Len(slug) >= 1
    BY <1>1, <1>3 DEF Slug
  <2>3. /\ <<"room">> \o slug \in Seq(Run) /\ Len(<<"room">> \o slug) = Len(slug) + 1
        /\ (<<"room">> \o slug)[1] = "room"
    BY <1>1 DEF Slug
  <2>4. <<"room">> \o slug # <<>>
    BY <1>1, <2>3
  <2> QED BY <1>1, <2>1, <2>2, <2>3, <2>4 DEF Slug, Reserved, IsDigit
<1>4. CASE slug # <<>> /\ ~IsDigit(slug) /\ ~Reserved(slug)
  <2>1. Base(slug) = slug
    BY <1>4 DEF Base
  <2>2. ASSUME slug[1] = "dm" PROVE slug = <<"dm">>
    <3>1. ~(Len(slug) > 1)
      BY <1>4, <2>2 DEF Reserved
    <3>2. Len(slug) # 0
      BY <1>4 DEF Slug
    <3>3. Len(slug) = 1
      BY <1>1, <3>1, <3>2
    <3> QED BY <2>2, <3>3 DEF Slug
  <2> QED BY <1>1, <1>4, <2>1, <2>2
<1> QED BY <1>2, <1>3, <1>4

LEMMA SuffixedNames ==
  ASSUME NEW base \in Slug, base # <<>>, NEW n \in 1..MaxNumeral
  PROVE  /\ Suffixed(base, n) \in Slug
         /\ Suffixed(base, n)[1] = base[1]
         /\ n = 1 => Suffixed(base, n) = base
         /\ n # 1 => /\ Len(Suffixed(base, n)) = Len(base) + 1
                     /\ Suffixed(base, n)[Len(base) + 1] = ToString(n)
<1>1. Len(base) \in Nat /\ Len(base) >= 1 /\ n \in 0..MaxNumeral
  BY NumeralAssumption DEF Slug
<1>2. ToString(n) \in Run
  BY <1>1, Numerals
<1>3. /\ Append(base, ToString(n)) \in Seq(Run) /\ Len(Append(base, ToString(n))) = Len(base) + 1
      /\ Append(base, ToString(n))[1] = base[1]
      /\ Append(base, ToString(n))[Len(base) + 1] = ToString(n)
  BY <1>1, <1>2 DEF Slug
<1> QED BY <1>3 DEF Suffixed, Slug

LEMMA SuffixesDiffer ==
  ASSUME NEW base \in Slug, base # <<>>, NEW m \in 1..MaxNumeral, NEW n \in 1..MaxNumeral,
         Suffixed(base, m) = Suffixed(base, n)
  PROVE  m = n
<1>1. Len(base) \in Nat /\ m \in 0..MaxNumeral /\ n \in 0..MaxNumeral
  BY NumeralAssumption DEF Slug
<1>2. CASE m = 1 \/ n = 1
  BY <1>1, <1>2, SuffixedNames
<1>3. CASE m # 1 /\ n # 1
  <2>1. ToString(m) = ToString(n)
    BY <1>3, SuffixedNames
  <2> QED BY <1>1, <2>1, NumeralAssumption
<1> QED BY <1>2, <1>3

(* The first free suffix, found among one more than the names that are taken. *)
LEMMA FirstFreeIs ==
  ASSUME NEW base \in Slug, base # <<>>, NEW assigned, IsFiniteSet(assigned),
         Cardinality(assigned) < MaxNumeral
  PROVE  \E n \in 1..MaxNumeral :
           /\ FirstFree(base, assigned) = Suffixed(base, n)
           /\ Suffixed(base, n) \notin assigned
           /\ \A m \in 1..(n - 1) : Suffixed(base, m) \in assigned
<1> DEFINE c == Cardinality(assigned)
           f == [n \in 1..(c + 1) |-> Suffixed(base, n)]
           T == {n \in 1..(c + 1) : Suffixed(base, n) \notin assigned}
<1>1. MaxNumeral \in Nat /\ c \in Nat /\ c + 1 \in Nat /\ c + 1 <= MaxNumeral
  BY NumeralAssumption, FS_CardinalityType
<1>2. 1..(c + 1) \subseteq 1..MaxNumeral
  BY <1>1
<1>3. T # {}
  <2> SUFFICES ASSUME T = {} PROVE FALSE
    OBVIOUS
  <2>1. f \in [1..(c + 1) -> assigned]
    OBVIOUS
  <2>2. IsFiniteSet(1..(c + 1)) /\ Cardinality(1..(c + 1)) = c + 1
    BY <1>1, FS_Interval
  <2>3. Cardinality(assigned) < Cardinality(1..(c + 1))
    BY <1>1, <2>2
  <2>4. \E x, y \in 1..(c + 1) : x # y /\ f[x] = f[y]
    <3>1. \A S, U : IsFiniteSet(S) /\ IsFiniteSet(U) /\ Cardinality(U) < Cardinality(S)
                      => \A g \in [S -> U] : \E x, y \in S : x # y /\ g[x] = g[y]
      BY FS_PigeonHole
    <3>2. PICK D, g : D = 1..(c + 1) /\ g = f
      OBVIOUS
    <3>3. g \in [D -> assigned] /\ IsFiniteSet(D) /\ Cardinality(assigned) < Cardinality(D)
      BY <2>1, <2>2, <2>3, <3>2, Zenon
    <3>4. \E x, y \in D : x # y /\ g[x] = g[y]
      BY <3>1, <3>3
    <3> QED BY <3>2, <3>4, Zenon
  <2> QED BY <1>2, <2>4, SuffixesDiffer
<1>4. PICK n \in T : \A m \in T : n <= m
  <2>1. T \in SUBSET Nat
    BY <1>1
  <2> HIDE DEF T
  <2> QED BY <1>3, <2>1, LeastNumber
<1>5. /\ n \in 1..(c + 1) /\ Suffixed(base, n) \notin assigned
      /\ \A m \in 1..(n - 1) : Suffixed(base, m) \in assigned
  BY <1>1, <1>4
<1>6. PICK k \in 1..(c + 1) :
        /\ FirstFree(base, assigned) = Suffixed(base, k)
        /\ Suffixed(base, k) \notin assigned
        /\ \A m \in 1..(k - 1) : Suffixed(base, m) \in assigned
  BY <1>5, Zenon DEF FirstFree
<1> QED BY <1>2, <1>6

(* The names given to the rows before row i.                                  *)
Before(names, i) == {names[j] : j \in 1..(i - 1)}

NextName(texts, names, i) == FirstFree(Base(Canonical(texts[i])), Before(names, i))

LEMMA BeforeIsSmall ==
  ASSUME NEW names, NEW i \in 1..MaxNumeral
  PROVE  IsFiniteSet(Before(names, i)) /\ Cardinality(Before(names, i)) < MaxNumeral
<1>1. MaxNumeral \in Nat /\ i - 1 \in Nat /\ i - 1 < MaxNumeral
  BY NumeralAssumption
<1> DEFINE f == [j \in 1..(i - 1) |-> names[j]]
<1>2. f \in Surjection(1..(i - 1), Before(names, i))
  BY DEF Surjection, Before
<1>3. ExistsSurjection(1..(i - 1), Before(names, i))
  BY <1>2 DEF ExistsSurjection
<1>4. IsFiniteSet(Before(names, i)) /\ Cardinality(Before(names, i)) <= i - 1
  BY <1>1, <1>3, FS_NatSurjection, FS_SurjCardinalityBound
<1> QED BY <1>1, <1>4, FS_CardinalityType

LEMMA PlanSteps ==
  ASSUME NEW texts, Len(texts) \in Nat
  PROVE  \E p : /\ p = [i \in 0..Len(texts) |->
                          IF i = 0 THEN <<>>
                          ELSE Append(p[i - 1], FirstFree(Base(Canonical(texts[i])),
                                                          ToSet(p[i - 1])))]
                /\ Planned(texts) = p[Len(texts)]
<1> DEFINE Step(p, i) == IF i = 0 THEN <<>>
                         ELSE Append(p[i - 1], FirstFree(Base(Canonical(texts[i])),
                                                         ToSet(p[i - 1])))
           T == {n \in Nat : \E p : p = [i \in 0..n |-> Step(p, i)]}
<1>1. 0 \in T
  <2> DEFINE p == [i \in 0..0 |-> <<>>]
  <2>1. p = [i \in 0..0 |-> Step(p, i)]
    OBVIOUS
  <2> QED BY <2>1
<1>2. ASSUME NEW n \in T PROVE n + 1 \in T
  <2>0. n \in Nat
    OBVIOUS
  <2>1. PICK p : p = [i \in 0..n |-> Step(p, i)]
    OBVIOUS
  <2> HIDE DEF T
  <2> DEFINE q == [i \in 0..(n + 1) |-> IF i = n + 1 THEN Step(p, n + 1) ELSE p[i]]
  <2>2. \A i \in 0..n : i \in 0..(n + 1) /\ i # n + 1
    BY <2>0
  <2>3. \A i \in 0..n : q[i] = p[i]
    BY <2>2
  <2>4. \A i \in 0..n : p[i] = Step(p, i)
    <3> HIDE DEF Step
    <3> QED BY <2>1
  <2>5. \A i \in 0..(n + 1) : i # 0 => i - 1 \in 0..n
    BY <2>0
  <2>6. \A i \in 0..(n + 1) : Step(q, i) = Step(p, i)
    <3> HIDE DEF q
    <3> QED BY <2>3, <2>5
  <2>7. \A i \in 0..(n + 1) : q[i] = Step(q, i)
    <3> HIDE DEF Step
    <3>1. \A i \in 0..(n + 1) : i = n + 1 \/ i \in 0..n
      BY <2>0
    <3> QED BY <2>3, <2>4, <2>6, <3>1
  <2>8. q = [i \in 0..(n + 1) |-> Step(q, i)]
    <3> HIDE DEF Step
    <3> QED BY <2>7
  <2>9. n + 1 \in Nat
    BY <2>0
  <2> QED BY <2>8, <2>9, Zenon DEF T
<1>3. Len(texts) \in T
  <2> HIDE DEF T
  <2>1. T \in SUBSET Nat
    BY DEF T
  <2>2. T = Nat
    BY <1>1, <1>2, <2>1, NatSets
  <2> QED BY <2>2
<1>4. \E q : q = [i \in 0..Len(texts) |-> Step(q, i)]
  BY <1>3
<1> DEFINE c == CHOOSE q : q = [i \in 0..Len(texts) |-> Step(q, i)]
<1>5. c = [i \in 0..Len(texts) |-> Step(c, i)]
  BY <1>4
<1>6. Planned(texts) = c[Len(texts)]
  BY DEF Planned
<1> QED BY <1>5, <1>6

LEMMA Appended ==
  ASSUME NEW S, NEW s \in Seq(S), NEW x \in S
  PROVE  /\ Append(s, x) \in Seq(S) /\ Len(Append(s, x)) = Len(s) + 1
         /\ Append(s, x)[Len(s) + 1] = x
         /\ \A i \in 1..Len(s) : Append(s, x)[i] = s[i]
OBVIOUS

(* Each name is the first that the rows before it leave free.                 *)
LEMMA PlanIs ==
  ASSUME NEW texts \in Seq(Seq(STRING)), Len(texts) <= MaxNumeral
  PROVE  /\ Planned(texts) \in Seq(Slug) /\ Len(Planned(texts)) = Len(texts)
         /\ \A i \in 1..Len(texts) : Planned(texts)[i] = NextName(texts, Planned(texts), i)
<1>1. Len(texts) \in Nat /\ MaxNumeral \in Nat
  BY NumeralAssumption
<1>2. PICK p : /\ p = [i \in 0..Len(texts) |->
                         IF i = 0 THEN <<>>
                         ELSE Append(p[i - 1], FirstFree(Base(Canonical(texts[i])),
                                                         ToSet(p[i - 1])))]
               /\ Planned(texts) = p[Len(texts)]
  BY <1>1, PlanSteps
<1> DEFINE Good(n) == /\ p[n] \in Seq(Slug) /\ Len(p[n]) = n
                      /\ \A i \in 1..n : p[n][i] = NextName(texts, p[n], i)
           T == {n \in Nat : n <= Len(texts) => Good(n)}
<1>3. 0 \in T
  <2>1. p[0] = <<>>
    BY <1>1, <1>2
  <2>2. p[0] \in Seq(Slug) /\ Len(p[0]) = 0
    BY <2>1
  <2>3. \A i \in 1..0 : FALSE
    OBVIOUS
  <2> QED BY <2>2, <2>3
<1>4. ASSUME NEW n \in T, n + 1 <= Len(texts) PROVE Good(n + 1)
  <2>1. n \in Nat /\ Good(n)
    BY <1>1, <1>4
  <2>2. /\ n + 1 \in 1..Len(texts) /\ n + 1 \in 0..Len(texts) /\ n + 1 # 0 /\ (n + 1) - 1 = n
        /\ n + 1 \in 1..MaxNumeral
    BY <1>1, <1>4, <2>1
  <2> DEFINE given == p[n]
             name == FirstFree(Base(Canonical(texts[n + 1])), ToSet(given))
  <2> HIDE DEF T
  <2>3. p[n + 1] = Append(given, name)
    BY <1>2, <2>2
  <2>4. ToSet(given) = Before(given, n + 1)
    <3>1. DOMAIN given = 1..n
      BY <2>1
    <3> QED BY <2>2, <3>1 DEF ToSet, Before
  <2>5. name \in Slug
    <3>1. texts[n + 1] \in Seq(STRING)
      BY <2>2
    <3>2. Canonical(texts[n + 1]) \in Slug
      BY <3>1, SlugIsClean
    <3>3. Base(Canonical(texts[n + 1])) \in Slug /\ Base(Canonical(texts[n + 1])) # <<>>
      BY <3>2, Bases
    <3>4. IsFiniteSet(ToSet(given)) /\ Cardinality(ToSet(given)) < MaxNumeral
      BY <2>2, <2>4, BeforeIsSmall
    <3>5. PICK k \in 1..MaxNumeral : name = Suffixed(Base(Canonical(texts[n + 1])), k)
      BY <3>3, <3>4, FirstFreeIs
    <3> QED BY <3>3, <3>5, SuffixedNames
  <2>6. /\ Append(given, name) \in Seq(Slug) /\ Len(Append(given, name)) = n + 1
        /\ Append(given, name)[n + 1] = name
        /\ \A i \in 1..n : Append(given, name)[i] = given[i]
    <3>1. given \in Seq(Slug) /\ Len(given) = n
      BY <2>1
    <3>2. PICK g, x : g = given /\ x = name
      OBVIOUS
    <3>3. g \in Seq(Slug) /\ x \in Slug /\ Len(g) = n
      BY <2>5, <3>1, <3>2, Zenon
    <3>4. /\ Append(g, x) \in Seq(Slug) /\ Len(Append(g, x)) = n + 1
          /\ Append(g, x)[n + 1] = x
          /\ \A i \in 1..n : Append(g, x)[i] = g[i]
      BY <3>3, Appended
    <3> QED BY <3>2, <3>4, Zenon
  <2>7. \A i \in 1..(n + 1) : Before(Append(given, name), i) = Before(given, i)
    <3> HIDE DEF name, given
    <3>1. \A i \in 1..(n + 1) : \A j \in 1..(i - 1) : Append(given, name)[j] = given[j]
      BY <2>1, <2>6
    <3> QED BY <3>1 DEF Before
  <2>8. \A i \in 1..n : Append(given, name)[i] = NextName(texts, Append(given, name), i)
    <3>1. \A i \in 1..n : given[i] = NextName(texts, given, i)
      BY <2>1
    <3>2. \A i \in 1..n : NextName(texts, Append(given, name), i) = NextName(texts, given, i)
      <4> HIDE DEF name, given
      <4>1. \A i \in 1..n : i \in 1..(n + 1)
        BY <2>1
      <4> QED BY <2>7, <4>1 DEF NextName
    <3> HIDE DEF name, given
    <3> QED BY <2>6, <3>1, <3>2
  <2>9. Append(given, name)[n + 1] = NextName(texts, Append(given, name), n + 1)
    <3>1. n + 1 \in 1..(n + 1)
      BY <2>1
    <3>2. Before(Append(given, name), n + 1) = ToSet(given)
      BY <2>4, <2>7, <3>1
    <3> QED BY <2>6, <3>2 DEF NextName
  <2>10. \A i \in 1..(n + 1) : i = n + 1 \/ i \in 1..n
    BY <2>1
  <2> HIDE DEF name, given
  <2> QED BY <2>3, <2>6, <2>8, <2>9, <2>10
<1>5. \A n \in T : n + 1 \in T
  <2> HIDE DEF Good
  <2> QED BY <1>4
<1>6. Len(texts) \in T
  <2> HIDE DEF T
  <2>1. T \in SUBSET Nat
    BY DEF T
  <2>2. T = Nat
    BY <1>3, <1>5, <2>1, NatSets
  <2> QED BY <1>1, <2>2
<1>7. Good(Len(texts))
  <2> HIDE DEF Good
  <2> QED BY <1>1, <1>6
<1> QED BY <1>2, <1>7

(* And it is the only such plan.                                              *)
LEMMA PlanIsOnly ==
  ASSUME NEW texts \in Seq(Seq(STRING)), Len(texts) <= MaxNumeral,
         NEW names \in Seq(Slug), Len(names) = Len(texts),
         \A i \in 1..Len(texts) : names[i] = NextName(texts, names, i)
  PROVE  Planned(texts) = names
<1> DEFINE plan == Planned(texts)
<1>1. /\ plan \in Seq(Slug) /\ Len(plan) = Len(texts)
      /\ \A i \in 1..Len(texts) : plan[i] = NextName(texts, plan, i)
  BY PlanIs
<1>2. Len(texts) \in Nat
  OBVIOUS
<1> HIDE DEF plan
<1> DEFINE T == {n \in Nat : n <= Len(texts) => \A i \in 1..n : plan[i] = names[i]}
<1>3. 0 \in T
  OBVIOUS
<1>4. ASSUME NEW n \in T, n + 1 <= Len(texts)
      PROVE  \A i \in 1..(n + 1) : plan[i] = names[i]
  <2>1. n \in Nat /\ \A i \in 1..n : plan[i] = names[i]
    BY <1>2, <1>4
  <2>2. n + 1 \in 1..Len(texts) /\ (n + 1) - 1 = n
    BY <1>2, <1>4, <2>1
  <2>3. Before(plan, n + 1) = Before(names, n + 1)
    BY <2>1, <2>2 DEF Before
  <2>4. plan[n + 1] = names[n + 1]
    BY <1>1, <2>2, <2>3 DEF NextName
  <2>5. \A i \in 1..(n + 1) : i = n + 1 \/ i \in 1..n
    BY <2>1
  <2> QED BY <2>1, <2>4, <2>5
<1>5. ASSUME NEW n \in T
      PROVE  n + 1 \in T
  <2>1. n \in Nat /\ n + 1 \in Nat
    OBVIOUS
  <2>2. (n + 1 <= Len(texts)) => \A i \in 1..(n + 1) : plan[i] = names[i]
    <3> HIDE DEF T
    <3> QED BY <1>4
  <2> QED BY <2>1, <2>2
<1>6. Len(texts) \in T
  <2> HIDE DEF T
  <2>1. T \in SUBSET Nat
    BY DEF T
  <2>2. T = Nat
    BY <1>3, <1>5, <2>1, NatSets
  <2> QED BY <1>2, <2>2
<1>7. \A i \in 1..Len(texts) : plan[i] = names[i]
  BY <1>2, <1>6
<1>8. \A s, t \in Seq(Slug) :
        Len(s) = Len(t) /\ (\A i \in 1..Len(s) : s[i] = t[i]) => s = t
  OBVIOUS
<1>9. plan = names
  BY <1>1, <1>7, <1>8
<1> QED BY <1>9 DEF plan

-------------------------------------------------------------------------------
(* The name that row i is given: its base, and a suffix if that was taken.    *)
LEMMA NameIs ==
  ASSUME NEW texts \in Seq(Seq(STRING)), Len(texts) <= MaxNumeral, NEW i \in 1..Len(texts)
  PROVE  /\ Canonical(texts[i]) \in Slug
         /\ \E n \in 1..MaxNumeral :
              /\ Planned(texts)[i] = Suffixed(Base(Canonical(texts[i])), n)
              /\ Planned(texts)[i] \notin Before(Planned(texts), i)
              /\ \A m \in 1..(n - 1) :
                   Suffixed(Base(Canonical(texts[i])), m) \in Before(Planned(texts), i)
<1>1. texts[i] \in Seq(STRING) /\ i \in 1..MaxNumeral
  BY NumeralAssumption
<1>2. Canonical(texts[i]) \in Slug
  BY <1>1, SlugIsClean
<1>3. Base(Canonical(texts[i])) \in Slug /\ Base(Canonical(texts[i])) # <<>>
  BY <1>2, Bases
<1>4. Planned(texts)[i] = FirstFree(Base(Canonical(texts[i])), Before(Planned(texts), i))
  BY PlanIs DEF NextName
<1>5. /\ IsFiniteSet(Before(Planned(texts), i))
      /\ Cardinality(Before(Planned(texts), i)) < MaxNumeral
  BY <1>1, BeforeIsSmall
<1> QED BY <1>2, <1>3, <1>4, <1>5, FirstFreeIs

(* What the migration makes sure of for each row.                             *)
LEMMA NameIsSound ==
  ASSUME NEW slug \in Slug, NEW n \in 1..MaxNumeral, NEW name, name = Suffixed(Base(slug), n)
  PROVE  /\ name \in Slug /\ name # <<>> /\ ~IsDigit(name) /\ ~LikeDmName(name)
         /\ Len(name) <= Len(slug) + 2
         /\ name[1] = "dm" => slug = <<"dm">> /\ Base(slug) = <<"dm">>
<1> DEFINE base == Base(slug)
<1>1. /\ base \in Slug /\ base # <<>> /\ Len(base) <= Len(slug) + 1 /\ ~IsDigit(base)
      /\ ~Reserved(base) /\ (base[1] = "dm" => base = <<"dm">> /\ slug = <<"dm">>)
  BY Bases
<1> HIDE DEF base
<1>2. /\ Len(base) \in Nat /\ Len(base) >= 1 /\ Len(slug) \in Nat
  BY <1>1 DEF Slug
<1>3. /\ name \in Slug /\ name[1] = base[1] /\ (n = 1 => name = base)
      /\ n # 1 => Len(name) = Len(base) + 1
  BY <1>1, SuffixedNames DEF base
<1>4. Len(name) <= Len(slug) + 2 /\ Len(name) >= 1 /\ Len(name) \in {Len(base), Len(base) + 1}
  BY <1>1, <1>2, <1>3
<1>5. ~IsDigit(name)
  <2>1. CASE n = 1
    BY <1>1, <1>3, <2>1
  <2>2. CASE n # 1
    BY <1>2, <1>3, <2>2 DEF IsDigit
  <2> QED BY <2>1, <2>2
<1>6. name[1] = "dm" => base = <<"dm">> /\ slug = <<"dm">>
  BY <1>1, <1>3
<1>7. ~LikeDmName(name)
  <2> SUFFICES ASSUME LikeDmName(name) PROVE FALSE
    OBVIOUS
  <2>1. name[1] = "dm" /\ Len(name) = 3
    BY DEF LikeDmName
  <2>2. Len(base) = 1
    BY <1>6, <2>1
  <2> QED BY <1>4, <2>1, <2>2
<1>8. name # <<>>
  BY <1>4
<1> QED BY <1>3, <1>4, <1>5, <1>6, <1>7, <1>8 DEF base

LEMMA PlanIsInjective ==
  ASSUME NEW texts \in Seq(Seq(STRING)), Len(texts) <= MaxNumeral,
         NEW i \in 1..Len(texts), NEW j \in 1..Len(texts), Planned(texts)[i] = Planned(texts)[j]
  PROVE  i = j
<1>1. \A k, l \in 1..Len(texts) : k < l => Planned(texts)[k] # Planned(texts)[l]
  <2> SUFFICES ASSUME NEW k \in 1..Len(texts), NEW l \in 1..Len(texts), k < l
               PROVE  Planned(texts)[k] # Planned(texts)[l]
    OBVIOUS
  <2>1. Planned(texts)[k] \in Before(Planned(texts), l)
    BY DEF Before
  <2>2. Planned(texts)[l] \notin Before(Planned(texts), l)
    BY NameIs
  <2> QED BY <2>1, <2>2
<1>2. i \in Nat /\ j \in Nat
  OBVIOUS
<1> QED BY <1>1, <1>2

(* The first row to ask for a valid slug gets it.                             *)
LEMMA FirstGetsIt ==
  ASSUME NEW texts \in Seq(Seq(STRING)), Len(texts) <= MaxNumeral, NEW i \in 1..Len(texts),
         ValidGroupSlug(Canonical(texts[i])),
         \A j \in 1..(i - 1) : Planned(texts)[j] # Canonical(texts[i])
  PROVE  Planned(texts)[i] = Canonical(texts[i])
<1> DEFINE slug == Canonical(texts[i])
<1>1. PICK n \in 1..MaxNumeral :
        /\ slug \in Slug /\ Planned(texts)[i] = Suffixed(Base(slug), n)
        /\ \A m \in 1..(n - 1) : Suffixed(Base(slug), m) \in Before(Planned(texts), i)
  BY NameIs
<1>2. Base(slug) = slug
  BY DEF ValidGroupSlug, Base
<1>3. slug # <<>> /\ Suffixed(slug, 1) = slug
  BY DEF ValidGroupSlug, Suffixed
<1>4. slug \notin Before(Planned(texts), i)
  BY DEF Before
<1>5. ~(1 \in 1..(n - 1))
  BY <1>1, <1>2, <1>3, <1>4
<1>6. n = 1
  BY <1>5, NumeralAssumption
<1> QED BY <1>1, <1>2, <1>3, <1>6

(* A reserved name is given only to a second row that asked for dm.           *)
LEMMA ReservedOnlyTwice ==
  ASSUME NEW texts \in Seq(Seq(STRING)), Len(texts) <= MaxNumeral, NEW i \in 1..Len(texts),
         Reserved(Planned(texts)[i])
  PROVE  /\ Canonical(texts[i]) = <<"dm">>
         /\ \E j \in 1..Len(texts) : j # i /\ Canonical(texts[j]) = <<"dm">>
<1> DEFINE slug == Canonical(texts[i])
           plan == Planned(texts)
<1>1. PICK n \in 1..MaxNumeral :
        /\ slug \in Slug /\ plan[i] = Suffixed(Base(slug), n)
        /\ \A m \in 1..(n - 1) : Suffixed(Base(slug), m) \in Before(plan, i)
  BY NameIs
<1>2. plan[i][1] = "dm" /\ Len(plan[i]) > 1
  BY DEF Reserved
<1>3. slug = <<"dm">> /\ Base(slug) = <<"dm">>
  BY <1>1, <1>2, NameIsSound
<1>4. Suffixed(Base(slug), 1) = <<"dm">>
  BY <1>3 DEF Suffixed
<1>5. n # 1
  <2>1. n = 1 => plan[i] = <<"dm">>
    BY <1>1, <1>4, Zenon
  <2>2. plan[i] # <<"dm">>
    <3>1. Len(<<"dm">>) = 1 /\ ~(1 > 1)
      OBVIOUS
    <3> QED BY <1>2, <3>1, Zenon
  <2> QED BY <2>1, <2>2, Zenon
<1>6. 1 \in 1..(n - 1)
  BY <1>5, NumeralAssumption
<1>7. <<"dm">> \in Before(plan, i)
  BY <1>1, <1>4, <1>6
<1>8. PICK j \in 1..(i - 1) : plan[j] = <<"dm">>
  BY <1>7 DEF Before
<1>9. j \in 1..Len(texts) /\ j # i
  OBVIOUS
<1>10. PICK k \in 1..MaxNumeral :
         Canonical(texts[j]) \in Slug /\ plan[j] = Suffixed(Base(Canonical(texts[j])), k)
  BY <1>9, NameIs
<1>11. Canonical(texts[j]) = <<"dm">>
  <2>1. plan[j][1] = "dm"
    BY <1>8
  <2> HIDE DEF plan
  <2> QED BY <1>10, <2>1, NameIsSound
<1> QED BY <1>3, <1>9, <1>11

(* Planning again changes nothing.                                            *)
LEMMA PlanIsStable ==
  ASSUME NEW texts \in Seq(Seq(STRING)), Len(texts) <= MaxNumeral,
         \A i \in 1..Len(texts) : ~Reserved(Planned(texts)[i])
  PROVE  Planned(Planned(texts)) = Planned(texts)
<1> DEFINE plan == Planned(texts)
<1>1. plan \in Seq(Slug) /\ Len(plan) = Len(texts)
  BY PlanIs
<1>2. plan \in Seq(Seq(STRING)) /\ Len(plan) <= MaxNumeral
  <2> HIDE DEF plan
  <2>1. \A S, U : S \subseteq U /\ plan \in Seq(S) => plan \in Seq(U)
    OBVIOUS
  <2> QED BY <1>1, <2>1, SlugIsText
<1>3. ASSUME NEW i \in 1..Len(plan) PROVE plan[i] = NextName(plan, plan, i)
  <2>1. i \in 1..Len(texts) /\ i \in 1..MaxNumeral
    BY <1>1, <1>2, NumeralAssumption
  <2>2. plan[i] \in Slug /\ plan[i] # <<>> /\ ~IsDigit(plan[i]) /\ ~Reserved(plan[i])
    <3>1. PICK n \in 1..MaxNumeral :
            Canonical(texts[i]) \in Slug /\ plan[i] = Suffixed(Base(Canonical(texts[i])), n)
      BY <2>1, NameIs
    <3> HIDE DEF plan
    <3>2. plan[i] \in Slug /\ plan[i] # <<>> /\ ~IsDigit(plan[i])
      BY <3>1, NameIsSound
    <3>3. ~Reserved(plan[i])
      BY <2>1 DEF plan
    <3> QED BY <3>2, <3>3
  <2>3. Canonical(plan[i]) = plan[i]
    BY <2>2, SlugOfSlug
  <2>4. Base(plan[i]) = plan[i]
    BY <2>2 DEF Base
  <2>5. plan[i] \notin Before(plan, i)
    BY <2>1, NameIs
  <2> HIDE DEF plan
  <2>6. IsFiniteSet(Before(plan, i)) /\ Cardinality(Before(plan, i)) < MaxNumeral
    BY <2>1, BeforeIsSmall
  <2>7. PICK n \in 1..MaxNumeral :
          /\ FirstFree(plan[i], Before(plan, i)) = Suffixed(plan[i], n)
          /\ \A m \in 1..(n - 1) : Suffixed(plan[i], m) \in Before(plan, i)
    BY <2>2, <2>6, FirstFreeIs
  <2>8. Suffixed(plan[i], 1) = plan[i]
    BY DEF Suffixed
  <2>9. ~(1 \in 1..(n - 1))
    BY <2>5, <2>7, <2>8
  <2>10. n = 1
    BY <2>9, NumeralAssumption
  <2> QED BY <2>3, <2>4, <2>7, <2>8, <2>10 DEF NextName
<1> HIDE DEF plan
<1> QED BY <1>1, <1>2, <1>3, PlanIsOnly DEF plan

LEMMA TwoAtLeast ==
  ASSUME NEW S, IsFiniteSet(S), NEW x \in S, NEW y \in S, x # y
  PROVE  Cardinality(S) > 1
<1>1. IsFiniteSet({x}) /\ Cardinality({x}) = 1
  BY FS_Singleton
<1>2. IsFiniteSet({x} \cup {y}) /\ Cardinality({x} \cup {y}) = 2
  <2>1. PICK T : T = {x}
    OBVIOUS
  <2>2. IsFiniteSet(T) /\ Cardinality(T) = 1 /\ y \notin T
    BY <1>1, <2>1
  <2>3. IsFiniteSet(T \cup {y}) /\ Cardinality(T \cup {y}) = Cardinality(T) + 1
    BY <2>2, FS_AddElement
  <2> QED BY <2>1, <2>2, <2>3
<1>3. {x} \cup {y} \in SUBSET S
  OBVIOUS
<1>4. Cardinality({x} \cup {y}) <= Cardinality(S) /\ Cardinality(S) \in Nat
  BY <1>3, FS_Subset, FS_CardinalityType
<1> QED BY <1>2, <1>4

(* plan_room_name_dedup() keeps its promises for every table that it may      *)
(* meet: SoundPlan, of any texts, and of as many rows as there are numerals   *)
(* to tell them apart.                                                        *)
THEOREM PlannerIsSound ==
  \A texts \in Seq(Seq(STRING)) : Len(texts) <= MaxNumeral => SoundPlan(texts)
<1> SUFFICES ASSUME NEW texts \in Seq(Seq(STRING)), Len(texts) <= MaxNumeral
             PROVE  SoundPlan(texts)
  OBVIOUS
<1>1. PICK names : names = Planned(texts)
  OBVIOUS
<1>2. /\ names \in Seq(Slug) /\ Len(names) = Len(texts) /\ Len(texts) \in Nat
      /\ DOMAIN names = 1..Len(texts) /\ DOMAIN texts = 1..Len(texts)
  BY <1>1, PlanIs
<1>3. IsInjective(names)
  <2>1. \A i, j \in 1..Len(texts) : names[i] = names[j] => i = j
    BY <1>1, PlanIsInjective
  <2> QED BY <1>2, <2>1 DEF IsInjective
<1> DEFINE slug(i) == Canonical(texts[i])
           bare == {i \in DOMAIN texts : slug(i) = <<"dm">>}
<1>4. ASSUME NEW i \in DOMAIN names
      PROVE  /\ names[i] # <<>> /\ ~IsDigit(names[i]) /\ ~LikeDmName(names[i])
             /\ Len(names[i]) <= Len(slug(i)) + 2
  <2>1. PICK n \in 1..MaxNumeral : slug(i) \in Slug /\ names[i] = Suffixed(Base(slug(i)), n)
    BY <1>1, <1>2, NameIs
  <2> HIDE DEF slug
  <2> QED BY <2>1, NameIsSound
<1>5. ASSUME NEW i \in DOMAIN names, ValidGroupSlug(slug(i)),
             \A j \in 1..(i - 1) : names[j] # slug(i)
      PROVE  names[i] = slug(i)
  BY <1>1, <1>2, <1>5, FirstGetsIt
<1>6. ASSUME NEW i \in DOMAIN names, Reserved(names[i])
      PROVE  Cardinality(bare) > 1 /\ i \in bare
  <2>1. slug(i) = <<"dm">> /\ \E j \in 1..Len(texts) : j # i /\ slug(j) = <<"dm">>
    BY <1>1, <1>2, <1>6, ReservedOnlyTwice
  <2>2. IsFiniteSet(bare)
    <3>1. IsFiniteSet(DOMAIN texts)
      BY <1>2, FS_Interval
    <3>2. bare \in SUBSET DOMAIN texts
      OBVIOUS
    <3> HIDE DEF bare
    <3> QED BY <3>1, <3>2, FS_Subset
  <2>3. i \in bare
    BY <1>2, <2>1
  <2>4. PICK j \in bare : j # i
    BY <1>2, <2>1
  <2> HIDE DEF bare
  <2> QED BY <2>2, <2>3, <2>4, TwoAtLeast
<1>7. (\A i \in DOMAIN names : ~Reserved(names[i])) => Planned(names) = names
  BY <1>1, <1>2, PlanIsStable
<1>8. DOMAIN names = DOMAIN texts
  BY <1>2
<1> HIDE DEF slug, bare
<1>9. \A i \in DOMAIN names :
        /\ names[i] # <<>> /\ ~IsDigit(names[i]) /\ ~LikeDmName(names[i])
        /\ Len(names[i]) <= Len(slug(i)) + 2
        /\ ValidGroupSlug(slug(i)) /\ (\A j \in 1..(i - 1) : names[j] # slug(i))
             => names[i] = slug(i)
        /\ Reserved(names[i]) => Cardinality(bare) > 1 /\ i \in bare
  BY <1>4, <1>5, <1>6, Zenon
<1> QED BY <1>1, <1>3, <1>7, <1>8, <1>9, Zenon DEF SoundPlan, slug, bare

(* It is so of the tables that TLC enumerates.                                *)
LEMMA SmallPlansAreSound == PlanIsSound
<1> SUFFICES ASSUME NEW texts \in SeqOf(Texts, 3) PROVE SoundPlan(texts)
  BY DEF PlanIsSound
<1>1. PICK n \in 0..3 : texts \in [1..n -> Texts]
  BY DEF SeqOf
<1>2. texts \in Seq(Seq(STRING)) /\ Len(texts) = n
  <2>1. texts \in [1..n -> Seq(STRING)]
    BY <1>1, TextsAssumption
  <2> QED BY <2>1
<1>3. Len(texts) <= MaxNumeral
  BY <1>2, NumeralAssumption
<1> QED BY <1>2, <1>3, PlannerIsSound

-------------------------------------------------------------------------------
(* What RoomTable takes from the planner: no two old rooms were given one     *)
(* name, and none that of the pair's DM.                                      *)
LEMMA OldRoomsRenamed ==
  /\ NewNames \in Seq(Slug) /\ DOMAIN NewNames = DOMAIN Legacy
  /\ \A i, j \in DOMAIN Legacy :
       NewNames[i] # DmName(Low, High) /\ (NewNames[i] = NewNames[j] => i = j)
<1> DEFINE texts == [i \in DOMAIN Legacy |-> Legacy[i].text]
<1>1. DOMAIN Legacy = 1..Len(Legacy) /\ Len(Legacy) \in Nat
  BY LegacyAssumption
<1>2. texts \in Seq(Seq(STRING)) /\ Len(texts) = Len(Legacy) /\ NewNames = Planned(texts)
  <2>1. \A i \in DOMAIN Legacy : Legacy[i] \in [text : Texts, by : Account]
    <3>1. \A S : Legacy \in Seq(S) => \A i \in 1..Len(Legacy) : Legacy[i] \in S
      OBVIOUS
    <3> QED BY <1>1, <3>1, LegacyAssumption
  <2>2. \A i \in DOMAIN Legacy : Legacy[i].text \in Seq(STRING)
    BY <2>1, TextsAssumption
  <2>3. texts \in [1..Len(Legacy) -> Seq(STRING)]
    BY <1>1, <2>2
  <2>4. NewNames = Planned(texts)
    BY DEF NewNames
  <2> HIDE DEF texts
  <2> QED BY <1>1, <2>3, <2>4
<1> HIDE DEF texts
<1>3. Len(texts) <= MaxNumeral
  BY <1>2, LegacyAssumption
<1>4. NewNames \in Seq(Slug) /\ DOMAIN NewNames = DOMAIN Legacy
  BY <1>1, <1>2, <1>3, PlanIs
<1>5. \A i, j \in DOMAIN Legacy : NewNames[i] = NewNames[j] => i = j
  BY <1>1, <1>2, <1>3, PlanIsInjective
<1>6. LikeDmName(DmName(Low, High))
  BY DEF LikeDmName, DmName
<1>7. ASSUME NEW i \in DOMAIN Legacy PROVE ~LikeDmName(NewNames[i])
  <2>1. PICK n \in 1..MaxNumeral :
          /\ Canonical(texts[i]) \in Slug
          /\ NewNames[i] = Suffixed(Base(Canonical(texts[i])), n)
    BY <1>1, <1>2, <1>3, NameIs
  <2> QED BY <2>1, NameIsSound
<1> QED BY <1>4, <1>5, <1>6, <1>7

LEMMA DmNameIsText == DmName(Low, High) \in Seq(STRING)
<1>1. Low \in 0..MaxNumeral /\ High \in 0..MaxNumeral /\ Low < High
  BY AccountAssumption, NumeralAssumption
<1>2. ToString(Low) \in STRING /\ ToString(High) \in STRING /\ "dm" \in STRING
  BY <1>1, Numerals, WordAssumption DEF Run
<1>3. DmName(Low, High) = <<"dm", ToString(Low), ToString(High)>>
  BY <1>1 DEF DmName
<1> QED BY <1>2, <1>3
===============================================================================
