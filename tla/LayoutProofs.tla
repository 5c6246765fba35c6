---------------------------- MODULE LayoutProofs ----------------------------
(***************************************************************************)
(* Proofs about where the source generator puts things, the memory map and *)
(* the page tables, for any attributes, any mappings and any widths: what  *)
(* the lists of the map hold, that its check is enough, that the tables    *)
(* only grow and tile their regions, and what a walk of finished tables    *)
(* finds.                                                                  *)
(***************************************************************************)
EXTENDS SourceGenerator, NaturalsInduction, WellFoundedInduction, FiniteSetTheorems, TLAPS

LT == {ss \in Nat \X Nat : ss[1] < ss[2]}

(* A set of naturals that is not empty has a least element.                *)
LEMMA LeastNatural ==
  ASSUME NEW M \in SUBSET Nat, M # {}
  PROVE  \E x \in M : \A y \in M : x <= y
<1>1. OpToRel(<, Nat) = LT
  BY Zenon DEF OpToRel, LT
<1>2. PICK x \in M : \A y \in M : <<y, x>> \notin LT
  BY <1>1, NatLessThanWellFounded, WFMin
<1>3. ASSUME NEW y \in M PROVE x <= y
  <2>1. x \in Nat /\ y \in Nat
    OBVIOUS
  <2>2. y < x => <<y, x>> \in LT
    BY <2>1 DEF LT
  <2> QED
    BY <1>2, <2>1, <2>2
<1> QED
  BY <1>3

----------------------------------------------------------------------------
(* Lists that are put in order                                             *)

StrictOrder(I, before) ==
  /\ \A i \in I : <<i, i>> \notin before
  /\ \A i, j \in I : i # j => <<i, j>> \in before \/ <<j, i>> \in before
  /\ \A i, j, k \in I : <<i, j>> \in before /\ <<j, k>> \in before => <<i, k>> \in before

Below(I, before, i) == {j \in I : <<j, i>> \in before}

(* The further on, the more positions come before.                         *)
LEMMA BelowGrows ==
  ASSUME NEW I, IsFiniteSet(I), NEW before, StrictOrder(I, before),
         NEW i \in I, NEW j \in I, <<i, j>> \in before
  PROVE  /\ Cardinality(Below(I, before, i)) \in Nat /\ Cardinality(Below(I, before, j)) \in Nat
         /\ Cardinality(Below(I, before, i)) < Cardinality(Below(I, before, j))
<1> DEFINE A == Below(I, before, i)
           B == Below(I, before, j)
<1>1. A \subseteq I /\ B \subseteq I
  BY DEF Below
<1>2. A \subseteq B /\ i \in B /\ i \notin A
  BY DEF Below, StrictOrder
<1> HIDE DEF A, B
<1>3. IsFiniteSet(A) /\ IsFiniteSet(B)
  BY <1>1, FS_Subset
<1>4. Cardinality(A) \in Nat /\ Cardinality(B) \in Nat
  BY <1>3, FS_CardinalityType
<1>5. Cardinality(A) <= Cardinality(B) /\ (Cardinality(B) = Cardinality(A) => B = A)
  BY <1>2, <1>3, FS_Subset
<1>6. Cardinality(A) < Cardinality(B)
  BY <1>2, <1>4, <1>5
<1> QED
  BY <1>4, <1>6 DEF A, B

(* Two integers are in one order, in the other or equal.                   *)
LEMMA IntegersCompare ==
  ASSUME NEW a \in Int, NEW b \in Int
  PROVE  a < b \/ b < a \/ a = b
OBVIOUS

(* The number of positions before each of them numbers them from 0.        *)
LEMMA RanksAreNumbers ==
  ASSUME NEW I, IsFiniteSet(I), NEW before, StrictOrder(I, before)
  PROVE  LET rank == [i \in I |-> Cardinality(Below(I, before, i))]
         IN /\ Cardinality(I) \in Nat
            /\ rank \in [I -> 0..Cardinality(I) - 1]
            /\ \A i, j \in I : rank[i] < rank[j] <=> <<i, j>> \in before
            /\ \A i, j \in I : rank[i] = rank[j] => i = j
            /\ \A n \in 0..Cardinality(I) - 1 : \E i \in I : rank[i] = n
<1> DEFINE n == Cardinality(I)
           rank == [i \in I |-> Cardinality(Below(I, before, i))]
<1>1. n \in Nat
  BY FS_CardinalityType
<1>2. \A i \in I : rank[i] \in 0..n - 1
  <2> SUFFICES ASSUME NEW i \in I PROVE rank[i] \in 0..n - 1
    OBVIOUS
  <2> DEFINE A == Below(I, before, i)
  <2>1. A \subseteq I /\ i \notin A
    BY DEF Below, StrictOrder
  <2> HIDE DEF A
  <2>2. IsFiniteSet(A) /\ Cardinality(A) <= n /\ (n = Cardinality(A) => I = A)
    BY <2>1, FS_Subset
  <2>3. Cardinality(A) \in Nat
    BY <2>2, FS_CardinalityType
  <2>4. Cardinality(A) \in 0..n - 1
    BY <1>1, <2>1, <2>2, <2>3
  <2> QED
    BY <2>4 DEF A
<1>3. \A i, j \in I : <<i, j>> \in before => rank[i] < rank[j]
  BY BelowGrows
<1>4. \A i, j \in I : rank[i] < rank[j] <=> <<i, j>> \in before
  <2> SUFFICES ASSUME NEW i \in I, NEW j \in I, rank[i] < rank[j], <<i, j>> \notin before
               PROVE  FALSE
    BY <1>3
  <2>1. i = j \/ <<j, i>> \in before
    BY DEF StrictOrder
  <2>2. rank[i] \in Int /\ rank[j] \in Int
    BY <1>2
  <2>3. i = j \/ rank[j] < rank[i]
    BY <1>3, <2>1
  <2> HIDE DEF rank
  <2> QED
    BY <2>2, <2>3
<1>5. \A i, j \in I : rank[i] = rank[j] => i = j
  <2> SUFFICES ASSUME NEW i \in I, NEW j \in I, rank[i] = rank[j], i # j
               PROVE  FALSE
    OBVIOUS
  <2>1. rank[i] < rank[j] \/ rank[j] < rank[i]
    BY <1>3 DEF StrictOrder
  <2>2. rank[i] \in Int /\ rank[j] \in Int
    BY <1>2
  <2> HIDE DEF rank
  <2> QED
    BY <2>1, <2>2
<1>6. \A k \in 0..n - 1 : \E i \in I : rank[i] = k
  <2>1. rank \in [I -> 0..n - 1]
    BY <1>2
  <2>2. rank \in Injection(I, 0..n - 1)
    BY <1>5, <2>1 DEF Injection, IsInjective
  <2>3. IsFiniteSet(0..n - 1) /\ Cardinality(0..n - 1) = n
    <3>1. PICK m \in Int : m = n - 1
      BY <1>1
    <3>2. IsFiniteSet(0..m) /\ Cardinality(0..m) = IF 0 > m THEN 0 ELSE m - 0 + 1
      BY FS_Interval
    <3>3. (IF 0 > m THEN 0 ELSE m - 0 + 1) = n
      BY <1>1, <3>1
    <3> QED
      BY <3>1, <3>2, <3>3, Zenon
  <2>4. rank \in Surjection(I, 0..n - 1)
    BY <2>2, <2>3, FS_Injection
  <2> QED
    BY <2>4 DEF Surjection
<1>7. rank \in [I -> 0..n - 1]
  BY <1>2
<1> QED
  BY <1>1, <1>4, <1>5, <1>6, <1>7

(* The same facts under one name.                                          *)
RanksNumber(I, before, rank) ==
  /\ Cardinality(I) \in Nat
  /\ rank \in [I -> 0..Cardinality(I) - 1]
  /\ \A i, j \in I : rank[i] = rank[j] => i = j
  /\ \A n \in 0..Cardinality(I) - 1 : \E i \in I : rank[i] = n

LEMMA RankedByNumber ==
  ASSUME NEW I, IsFiniteSet(I), NEW before, StrictOrder(I, before)
  PROVE  RanksNumber(I, before, [i \in I |-> Cardinality(Below(I, before, i))])
BY RanksAreNumbers DEF RanksNumber

(* Every position of I is taken once, in the order asked for.              *)
Arranges(s, I, before, p) ==
  /\ p \in [1..Cardinality(I) -> I]
  /\ Arranged(s, I, before) = [n \in 1..Cardinality(I) |-> s[p[n]]]
  /\ \A i \in I : \E n \in 1..Cardinality(I) : p[n] = i
  /\ \A m, n \in 1..Cardinality(I) : m < n => <<p[m], p[n]>> \in before

LEMMA ArrangedFacts ==
  ASSUME NEW s, NEW I, IsFiniteSet(I), NEW before, StrictOrder(I, before)
  PROVE  /\ Cardinality(I) \in Nat
         /\ DOMAIN Arranged(s, I, before) = 1..Cardinality(I)
         /\ Len(Arranged(s, I, before)) = Cardinality(I)
         /\ \E p : Arranges(s, I, before, p)
<1> DEFINE n == Cardinality(I)
           rank == [i \in I |-> Cardinality(Below(I, before, i))]
           p == [k \in 1..n |-> CHOOSE i \in I : rank[i] = k - 1]
<1>1. /\ n \in Nat /\ rank \in [I -> 0..n - 1]
      /\ \A i, j \in I : rank[i] < rank[j] <=> <<i, j>> \in before
      /\ \A i, j \in I : rank[i] = rank[j] => i = j
      /\ \A k \in 0..n - 1 : \E i \in I : rank[i] = k
  BY RanksAreNumbers
<1>2. Arranged(s, I, before) = [k \in 1..n |-> s[CHOOSE i \in I : rank[i] = k - 1]]
  BY Zenon DEF Arranged, Below
<1> HIDE DEF rank, n
<1>3. \A k \in 1..n : p[k] \in I /\ rank[p[k]] = k - 1
  <2> SUFFICES ASSUME NEW k \in 1..n PROVE p[k] \in I /\ rank[p[k]] = k - 1
    OBVIOUS
  <2>1. k - 1 \in 0..n - 1
    BY <1>1
  <2> QED
    BY <1>1, <2>1
<1>4. \A i \in I : \E k \in 1..n : p[k] = i
  <2> SUFFICES ASSUME NEW i \in I PROVE \E k \in 1..n : p[k] = i
    OBVIOUS
  <2> DEFINE k == rank[i] + 1
  <2>1. rank[i] \in 0..n - 1
    BY <1>1
  <2>2. k \in 1..n /\ rank[i] = k - 1
    BY <1>1, <2>1
  <2> HIDE DEF k
  <2> QED
    BY <1>1, <1>3, <2>2
<1>5. \A k, l \in 1..n : k < l => <<p[k], p[l]>> \in before
  <2> SUFFICES ASSUME NEW k \in 1..n, NEW l \in 1..n, k < l PROVE <<p[k], p[l]>> \in before
    OBVIOUS
  <2>1. k - 1 < l - 1
    BY <1>1
  <2> QED
    BY <1>1, <1>3, <2>1
<1>6. Arranged(s, I, before) = [k \in 1..n |-> s[p[k]]]
  BY <1>2
<1>7. p \in [1..n -> I]
  BY <1>3
<1> HIDE DEF p
<1>8. Arranges(s, I, before, p)
  BY <1>4, <1>5, <1>6, <1>7 DEF Arranges, n
<1>9. DOMAIN Arranged(s, I, before) = 1..n /\ Len(Arranged(s, I, before)) = n
  BY <1>1, <1>6
<1> QED
  BY <1>1, <1>8, <1>9 DEF n

(* An arranged list holds what it was made of, and nothing else.           *)
LEMMA ArrangedElements ==
  ASSUME NEW s, NEW I, IsFiniteSet(I), NEW before, StrictOrder(I, before)
  PROVE  /\ {Arranged(s, I, before)[n] : n \in DOMAIN Arranged(s, I, before)} = {s[i] : i \in I}
         /\ Arranged(s, I, before) \in Seq({s[i] : i \in I})
<1>1. PICK p : Arranges(s, I, before, p)
  BY ArrangedFacts
<1>2. Cardinality(I) \in Nat /\ DOMAIN Arranged(s, I, before) = 1..Cardinality(I)
  BY ArrangedFacts
<1>3. /\ p \in [1..Cardinality(I) -> I]
      /\ Arranged(s, I, before) = [n \in 1..Cardinality(I) |-> s[p[n]]]
      /\ \A i \in I : \E n \in 1..Cardinality(I) : p[n] = i
  BY <1>1 DEF Arranges
<1> QED
  BY <1>2, <1>3

LEMMA ChosenOrder ==
  ASSUME NEW I \in SUBSET Int
  PROVE  StrictOrder(I, {p \in Pairs(I) : p[1] < p[2]})
<1> DEFINE R == {p \in Pairs(I) : p[1] < p[2]}
<1>1. \A i, j \in I : <<i, j>> \in R <=> i < j
  BY DEF Pairs
<1> HIDE DEF R
<1>2. \A i, j \in I : i # j => i < j \/ j < i
  OBVIOUS
<1>3. \A i, j, k \in I : i < j /\ j < k => i < k
  OBVIOUS
<1>4. StrictOrder(I, R)
  BY <1>1, <1>2, <1>3 DEF StrictOrder
<1> QED
  BY <1>4 DEF R

LEMMA ChosenElements ==
  ASSUME NEW s, NEW I \in SUBSET Int, IsFiniteSet(I)
  PROVE  /\ \A n \in DOMAIN Chosen(s, I) : \E i \in I : Chosen(s, I)[n] = s[i]
         /\ \A i \in I : \E n \in DOMAIN Chosen(s, I) : Chosen(s, I)[n] = s[i]
         /\ Chosen(s, I) \in Seq({s[i] : i \in I})
         /\ Cardinality(I) \in Nat /\ Len(Chosen(s, I)) = Cardinality(I)
         /\ DOMAIN Chosen(s, I) = 1..Cardinality(I)
<1> DEFINE R == {p \in Pairs(I) : p[1] < p[2]}
<1>1. StrictOrder(I, R) /\ Chosen(s, I) = Arranged(s, I, R)
  BY ChosenOrder DEF Chosen
<1> HIDE DEF R
<1>2. /\ {Arranged(s, I, R)[n] : n \in DOMAIN Arranged(s, I, R)} = {s[i] : i \in I}
      /\ Arranged(s, I, R) \in Seq({s[i] : i \in I})
  BY <1>1, ArrangedElements
<1>3. Cardinality(I) \in Nat /\ Len(Arranged(s, I, R)) = Cardinality(I)
      /\ DOMAIN Arranged(s, I, R) = 1..Cardinality(I)
  BY <1>1, ArrangedFacts
<1> DEFINE c == Chosen(s, I)
<1>4. {c[n] : n \in DOMAIN c} = {s[i] : i \in I}
  BY <1>1, <1>2
<1> HIDE DEF c
<1>5. /\ \A n \in DOMAIN c : \E i \in I : c[n] = s[i]
      /\ \A i \in I : \E n \in DOMAIN c : c[n] = s[i]
  BY <1>4
<1> QED
  BY <1>1, <1>2, <1>3, <1>5 DEF c

SortOrder(s, field) ==
  {p \in Pairs(DOMAIN s) : \/ s[p[1]][field] < s[p[2]][field]
                           \/ s[p[1]][field] = s[p[2]][field] /\ p[1] < p[2]}

LEMMA SortOrderIsStrict ==
  ASSUME NEW s, NEW field, DOMAIN s \in SUBSET Int, \A i \in DOMAIN s : s[i][field] \in Int
  PROVE  /\ StrictOrder(DOMAIN s, SortOrder(s, field))
         /\ SortedBy(s, field) = Arranged(s, DOMAIN s, SortOrder(s, field))
<1> DEFINE D == DOMAIN s
           key == [i \in D |-> s[i][field]]
           R == SortOrder(s, field)
<1>1. \A i, j \in D : <<i, j>> \in R <=> key[i] < key[j] \/ (key[i] = key[j] /\ i < j)
  <2> SUFFICES ASSUME NEW i \in D, NEW j \in D
               PROVE  <<i, j>> \in R <=> key[i] < key[j] \/ (key[i] = key[j] /\ i < j)
    OBVIOUS
  <2>1. <<i, j>> \in Pairs(D) /\ <<i, j>>[1] = i /\ <<i, j>>[2] = j
    BY DEF Pairs
  <2>2. key[i] = s[i][field] /\ key[j] = s[j][field]
    OBVIOUS
  <2>3. <<i, j>> \in R <=> \/ s[i][field] < s[j][field]
                           \/ s[i][field] = s[j][field] /\ i < j
    BY <2>1, Zenon DEF SortOrder
  <2> HIDE DEF R, key
  <2> QED
    BY <2>2, <2>3
<1>2. key \in [D -> Int] /\ D \in SUBSET Int
  OBVIOUS
<1>3. SortedBy(s, field) = Arranged(s, DOMAIN s, R)
  BY Zenon DEF SortedBy, SortOrder
<1> HIDE DEF D, key, R
<1>4. \A i \in D : <<i, i>> \notin R
  <2> SUFFICES ASSUME NEW i \in D PROVE <<i, i>> \notin R
    OBVIOUS
  <2>1. PICK a \in Int : a = key[i]
    BY <1>2
  <2> QED
    BY <1>1, <1>2, <2>1
<1>5. \A i, j \in D : i # j => <<i, j>> \in R \/ <<j, i>> \in R
  <2> SUFFICES ASSUME NEW i \in D, NEW j \in D, i # j PROVE <<i, j>> \in R \/ <<j, i>> \in R
    OBVIOUS
  <2>1. PICK a \in Int, b \in Int : a = key[i] /\ b = key[j]
    BY <1>2
  <2>2. /\ <<i, j>> \in R <=> a < b \/ (a = b /\ i < j)
        /\ <<j, i>> \in R <=> b < a \/ (b = a /\ j < i)
    BY <1>1, <2>1
  <2>3. i < j \/ j < i
    BY <1>2, IntegersCompare
  <2>4. a < b \/ b < a \/ a = b
    BY IntegersCompare
  <2> QED
    BY <2>2, <2>3, <2>4, Zenon
<1>6. \A i, j, k \in D : <<i, j>> \in R /\ <<j, k>> \in R => <<i, k>> \in R
  <2> SUFFICES ASSUME NEW i \in D, NEW j \in D, NEW k \in D, <<i, j>> \in R, <<j, k>> \in R
               PROVE  <<i, k>> \in R
    OBVIOUS
  <2>1. PICK a \in Int, b \in Int, c \in Int : a = key[i] /\ b = key[j] /\ c = key[k]
    BY <1>2
  <2> QED
    BY <1>1, <1>2, <2>1
<1>7. StrictOrder(D, R)
  BY <1>4, <1>5, <1>6 DEF StrictOrder
<1> QED
  BY <1>3, <1>7 DEF D, R

----------------------------------------------------------------------------
(* Flattened lists                                                         *)

(* FlattenSeq is a recursive function of the number of lists: that there   *)
(* is one is shown by the least number for which there were none.          *)
Flattens(seqs, n, f) ==
  f = [i \in 1..n |-> IF i = 1 THEN seqs[i] ELSE f[i - 1] \o seqs[i]]

LEMMA FlattensExists ==
  ASSUME NEW seqs, NEW n \in Nat
  PROVE  \E f : Flattens(seqs, n, f)
<1> DEFINE M == {k \in Nat : ~\E f : Flattens(seqs, k, f)}
<1> SUFFICES ASSUME M # {} PROVE FALSE
  OBVIOUS
<1>1. PICK k \in M : \A y \in M : k <= y
  BY LeastNatural
<1>2. k \in Nat /\ ~\E f : Flattens(seqs, k, f)
  OBVIOUS
<1>3. k # 0
  <2>1. Flattens(seqs, 0, [i \in 1..0 |-> 0])
    BY DEF Flattens
  <2> QED
    BY <1>2, <2>1
<1>4. k - 1 \in Nat /\ k - 1 \notin M
  BY <1>1, <1>2, <1>3
<1>5. PICK f : Flattens(seqs, k - 1, f)
  BY <1>4
<1> DEFINE g == [i \in 1..k |-> IF i < k THEN f[i]
                               ELSE IF i = 1 THEN seqs[i] ELSE f[i - 1] \o seqs[i]]
<1>6. g = [i \in 1..k |-> IF i = 1 THEN seqs[i] ELSE g[i - 1] \o seqs[i]]
  <2> SUFFICES ASSUME NEW i \in 1..k
               PROVE  g[i] = IF i = 1 THEN seqs[i] ELSE g[i - 1] \o seqs[i]
    OBVIOUS
  <2>1. i # 1 => i - 1 \in 1..k - 1 /\ g[i - 1] = f[i - 1]
    BY <1>2
  <2>2. CASE i < k
    <3>1. i \in 1..k - 1
      BY <1>2, <2>2
    <3>2. f[i] = IF i = 1 THEN seqs[i] ELSE f[i - 1] \o seqs[i]
      BY <1>5, <3>1, Zenon DEF Flattens
    <3>3. g[i] = f[i]
      BY <2>2
    <3> HIDE DEF g
    <3> QED
      BY <2>1, <3>2, <3>3
  <2>3. CASE ~(i < k)
    <3>1. g[i] = IF i = 1 THEN seqs[i] ELSE f[i - 1] \o seqs[i]
      BY <2>3
    <3> HIDE DEF g
    <3> QED
      BY <2>1, <3>1
  <2> QED
    BY <2>2, <2>3
<1> HIDE DEF g
<1>7. Flattens(seqs, k, g)
  BY <1>6 DEF Flattens
<1> QED
  BY <1>2, <1>7

(* Two lists, one behind the other.                                         *)
LEMMA JoinFacts ==
  ASSUME NEW S, NEW b \in Seq(S), NEW g \in Seq(S)
  PROVE  /\ Len(b) \in Nat /\ Len(g) \in Nat
         /\ b \o g \in Seq(S) /\ Len(b \o g) = Len(b) + Len(g)
         /\ \A i \in 1..Len(b) : (b \o g)[i] = b[i]
         /\ \A k \in 1..Len(g) : (b \o g)[Len(b) + k] = g[k]
OBVIOUS

(* The same with a name for each.                                          *)
Joins(b, g, h) ==
  /\ Len(b) \in Nat /\ Len(g) \in Nat /\ Len(h) = Len(b) + Len(g)
  /\ \A i \in 1..Len(b) : h[i] = b[i]
  /\ \A k \in 1..Len(g) : h[Len(b) + k] = g[k]

LEMMA JoinedLists ==
  ASSUME NEW S, NEW b \in Seq(S), NEW g \in Seq(S), NEW h, h = b \o g
  PROVE  Joins(b, g, h)
BY JoinFacts DEF Joins

(* What the recursion computes: list after list, joined to those before it.*)
FlattenedBy(seqs, S, f) ==
  /\ \A i \in 1..Len(seqs) : /\ f[i] \in Seq(S)
                             /\ f[i] = IF i = 1 THEN seqs[i] ELSE f[i - 1] \o seqs[i]
  /\ Len(seqs) # 0 => FlattenSeq(seqs) = f[Len(seqs)]
  /\ Len(seqs) = 0 => FlattenSeq(seqs) = <<>>

LEMMA FlattenParts ==
  ASSUME NEW S, NEW seqs, Len(seqs) \in Nat, seqs \in Seq(Seq(S))
  PROVE  \E f : FlattenedBy(seqs, S, f)
<1> DEFINE n == Len(seqs)
           f == CHOOSE f : f = [i \in 1..n |-> IF i = 1 THEN seqs[i] ELSE f[i - 1] \o seqs[i]]
<1>1. n = 0 => FlattenSeq(seqs) = <<>>
  BY DEF FlattenSeq
<1>2. n # 0 => FlattenSeq(seqs) = f[n]
  BY Zenon DEF FlattenSeq
<1>3. f = [i \in 1..n |-> IF i = 1 THEN seqs[i] ELSE f[i - 1] \o seqs[i]]
  <2>1. \E g : g = [i \in 1..n |-> IF i = 1 THEN seqs[i] ELSE g[i - 1] \o seqs[i]]
    BY FlattensExists, Zenon DEF Flattens
  <2> QED
    BY <2>1, Zenon
<1>4. n \in Nat /\ \A i \in 1..n : seqs[i] \in Seq(S)
  OBVIOUS
<1> HIDE DEF n, f
<1>5. \A i \in 1..n : f[i] = IF i = 1 THEN seqs[i] ELSE f[i - 1] \o seqs[i]
  BY <1>3
<1> DEFINE M == {i \in 1..n : f[i] \notin Seq(S)}
<1>6. M = {}
  <2> SUFFICES ASSUME M # {} PROVE FALSE
    OBVIOUS
  <2>1. M \in SUBSET Nat
    BY <1>4
  <2>2. PICK i \in M : \A y \in M : i <= y
    BY <2>1, LeastNatural
  <2>3. i \in 1..n /\ f[i] \notin Seq(S) /\ f[i] = IF i = 1 THEN seqs[i] ELSE f[i - 1] \o seqs[i]
    BY <1>5
  <2>4. i # 1 /\ i - 1 \in 1..n /\ i - 1 < i
    BY <1>4, <2>3
  <2>5. f[i - 1] \in Seq(S)
    <3>1. i - 1 \notin M
      BY <2>2, <2>4, <2>3
    <3> QED
      BY <2>4, <3>1
  <2>6. f[i - 1] \o seqs[i] \in Seq(S)
    BY <1>4, <2>3, <2>5
  <2> QED
    BY <2>3, <2>4, <2>6
<1>7. \A i \in 1..n : f[i] \in Seq(S)
  BY <1>6
<1> QED
  BY <1>1, <1>2, <1>5, <1>7, Zenon DEF FlattenedBy, n

(* What holds of the elements of every list holds of those of the whole.   *)
LEMMA FlattenType ==
  ASSUME NEW S, NEW seqs, Len(seqs) \in Nat, seqs \in Seq(Seq(S))
  PROVE  FlattenSeq(seqs) \in Seq(S)
<1>1. PICK f : FlattenedBy(seqs, S, f)
  BY FlattenParts
<1>2. Len(seqs) # 0 => Len(seqs) \in 1..Len(seqs)
  OBVIOUS
<1>3. <<>> \in Seq(S)
  OBVIOUS
<1> QED
  BY <1>1, <1>2, <1>3, Zenon DEF FlattenedBy

(* The lists lie one behind the other in the whole, in one piece each.     *)
RowsAt(seqs, flat, start) ==
  /\ Len(flat) \in Nat /\ DOMAIN flat = 1..Len(flat)
  /\ \A i \in 1..Len(seqs) : start[i] \in Nat /\ start[i] + Len(seqs[i]) <= Len(flat)
  /\ \A i \in 1..Len(seqs) : \A k \in 1..Len(seqs[i]) : flat[start[i] + k] = seqs[i][k]
  /\ \A i, j \in 1..Len(seqs) : i < j => start[i] + Len(seqs[i]) <= start[j]

LEMMA FlattenRows ==
  ASSUME NEW S, NEW seqs, Len(seqs) \in Nat, seqs \in Seq(Seq(S))
  PROVE  \E start : RowsAt(seqs, FlattenSeq(seqs), start)
<1> DEFINE n == Len(seqs)
<1>1. PICK f : FlattenedBy(seqs, S, f)
  BY FlattenParts
<1>2. n \in Nat /\ \A i \in 1..n : seqs[i] \in Seq(S)
  OBVIOUS
<1> HIDE DEF n
<1>3. \A i \in 1..n : /\ f[i] \in Seq(S) /\ Len(f[i]) \in Nat /\ Len(seqs[i]) \in Nat
                      /\ f[i] = IF i = 1 THEN seqs[i] ELSE f[i - 1] \o seqs[i]
  BY <1>1, <1>2 DEF FlattenedBy, n
<1> DEFINE start == [i \in 1..n |-> IF i = 1 THEN 0 ELSE Len(f[i - 1])]
<1>4. ASSUME NEW i \in 1..n
      PROVE  /\ start[i] \in Nat /\ Len(f[i]) = start[i] + Len(seqs[i])
             /\ \A k \in 1..Len(seqs[i]) : f[i][start[i] + k] = seqs[i][k]
             /\ \A k \in 1..start[i] : i # 1 /\ k \in 1..Len(f[i - 1]) /\ f[i][k] = f[i - 1][k]
  <2>1. CASE i = 1
    <3>1. start[i] = 0 /\ f[i] = seqs[i]
      BY <1>3, <2>1
    <3> HIDE DEF start
    <3> QED
      BY <1>3, <3>1
  <2>2. CASE i # 1
    <3>1. i - 1 \in 1..n /\ start[i] = Len(f[i - 1])
      BY <1>2, <2>2
    <3>2. /\ f[i - 1] \in Seq(S) /\ seqs[i] \in Seq(S) /\ f[i] = f[i - 1] \o seqs[i]
          /\ Len(f[i - 1]) \in Nat /\ Len(seqs[i]) \in Nat
      BY <1>2, <1>3, <2>2, <3>1
    <3>3. Joins(f[i - 1], seqs[i], f[i])
      BY <3>2, JoinedLists
    <3> HIDE DEF start
    <3> QED
      BY <2>2, <3>1, <3>3 DEF Joins
  <2> QED
    BY <2>1, <2>2
<1> HIDE DEF start
(* The lists that follow leave what is joined in its place.                *)
<1> DEFINE Kept(i, j) == Len(f[i]) <= Len(f[j]) /\ \A k \in 1..Len(f[i]) : f[j][k] = f[i][k]
<1>5. ASSUME NEW i \in 1..n PROVE \A j \in 1..n : i <= j => Kept(i, j)
  <2> DEFINE M == {j \in 1..n : i <= j /\ ~Kept(i, j)}
  <2> SUFFICES ASSUME M # {} PROVE FALSE
    OBVIOUS
  <2>1. M \in SUBSET Nat
    BY <1>2
  <2>2. PICK j \in M : \A y \in M : j <= y
    BY <2>1, LeastNatural
  <2>3. j \in 1..n /\ i <= j /\ ~Kept(i, j)
    OBVIOUS
  <2>4. j # i
    BY <1>3, <2>3
  <2>5. j - 1 \in 1..n /\ i <= j - 1 /\ j - 1 < j /\ j # 1
    BY <1>2, <2>3, <2>4
  <2>6. Kept(i, j - 1)
    <3>1. j - 1 \notin M
      BY <2>2, <2>3, <2>5
    <3> HIDE DEF Kept
    <3> QED
      BY <2>5, <3>1
  <2>7. f[j - 1] \in Seq(S) /\ seqs[j] \in Seq(S) /\ f[j] = f[j - 1] \o seqs[j]
    BY <1>2, <1>3, <2>3, <2>5
  <2>8. Len(f[j - 1]) <= Len(f[j]) /\ \A k \in 1..Len(f[j - 1]) : f[j][k] = f[j - 1][k]
    <3>1. PICK b, g, h : b = f[j - 1] /\ g = seqs[j] /\ h = f[j]
      OBVIOUS
    <3>2. Joins(b, g, h)
      BY <2>7, <3>1, JoinedLists
    <3>3. Len(b) <= Len(h) /\ \A k \in 1..Len(b) : h[k] = b[k]
      BY <3>2 DEF Joins
    <3> QED
      BY <3>1, <3>3, Zenon
  <2>9. Len(f[i]) \in Nat /\ Len(f[j - 1]) \in Nat /\ Len(f[j]) \in Nat
    BY <1>3, <2>3, <2>5
  <2> QED
    BY <2>3, <2>6, <2>8, <2>9
<1> DEFINE flat == FlattenSeq(seqs)
<1>6. CASE n = 0
  <2>1. /\ flat = <<>> /\ 1..n = {}
        /\ Len(<<>>) = 0 /\ DOMAIN <<>> = 1..0
    BY <1>1, <1>6 DEF FlattenedBy, n
  <2> HIDE DEF flat
  <2>2. RowsAt(seqs, flat, start)
    BY <2>1 DEF RowsAt, n
  <2> QED
    BY <2>2 DEF flat
<1>7. CASE n # 0
  <2>1. n \in 1..n /\ flat = f[n]
    BY <1>1, <1>2, <1>7 DEF FlattenedBy, n
  <2> HIDE DEF flat
  <2>2. flat \in Seq(S) /\ Len(flat) \in Nat /\ DOMAIN flat = 1..Len(flat)
    BY <1>3, <2>1
  <2>3. ASSUME NEW i \in 1..n PROVE Len(f[i]) <= Len(flat) /\ \A k \in 1..Len(f[i]) : flat[k] = f[i][k]
    BY <1>2, <1>5, <2>1
  <2>4. ASSUME NEW i \in 1..n, NEW k \in 1..Len(seqs[i])
        PROVE  flat[start[i] + k] = seqs[i][k]
    <3>1. PICK x : x = start[i] + k
      OBVIOUS
    <3>2. /\ start[i] \in Nat /\ Len(seqs[i]) \in Nat /\ Len(f[i]) = start[i] + Len(seqs[i])
          /\ f[i][x] = seqs[i][k]
      BY <1>3, <1>4, <3>1
    <3>3. x \in 1..Len(f[i])
      BY <3>1, <3>2
    <3> QED
      BY <2>3, <3>1, <3>2, <3>3
  <2>5. ASSUME NEW i \in 1..n, NEW j \in 1..n, i < j
        PROVE  start[i] + Len(seqs[i]) <= start[j]
    <3>1. j - 1 \in 1..n /\ i <= j - 1 /\ j # 1
      BY <1>2, <2>5
    <3>2. start[j] = Len(f[j - 1])
      BY <3>1 DEF start
    <3> QED
      BY <1>4, <1>5, <3>1, <3>2
  <2>6. ASSUME NEW i \in 1..n PROVE start[i] \in Nat /\ start[i] + Len(seqs[i]) <= Len(flat)
    BY <1>4, <2>3
  <2>7. RowsAt(seqs, flat, start)
    BY <2>2, <2>4, <2>5, <2>6, Zenon DEF RowsAt, n
  <2> QED
    BY <2>7 DEF flat
<1> QED
  BY <1>6, <1>7

(* Nothing of the lists is lost.                                           *)
LEMMA FlattenHolds ==
  ASSUME NEW S, NEW seqs, Len(seqs) \in Nat, seqs \in Seq(Seq(S)),
         NEW i \in 1..Len(seqs), NEW k \in 1..Len(seqs[i])
  PROVE  \E n \in DOMAIN FlattenSeq(seqs) : FlattenSeq(seqs)[n] = seqs[i][k]
<1>1. PICK start : RowsAt(seqs, FlattenSeq(seqs), start)
  BY FlattenRows
<1>2. Len(seqs[i]) \in Nat
  OBVIOUS
<1>3. PICK flat : flat = FlattenSeq(seqs)
  OBVIOUS
<1>4. /\ start[i] \in Nat /\ start[i] + Len(seqs[i]) <= Len(flat) /\ Len(flat) \in Nat
      /\ DOMAIN flat = 1..Len(flat) /\ flat[start[i] + k] = seqs[i][k]
  BY <1>1, <1>3 DEF RowsAt
<1>5. start[i] + k \in DOMAIN flat
  BY <1>2, <1>4
<1> QED
  BY <1>3, <1>4, <1>5

(* What is in two of the lists is twice in the whole.                      *)
LEMMA FlattenInjective ==
  ASSUME NEW S, NEW seqs, Len(seqs) \in Nat, seqs \in Seq(Seq(S)), IsInjective(FlattenSeq(seqs)),
         NEW i \in 1..Len(seqs), NEW k \in 1..Len(seqs[i]),
         NEW j \in 1..Len(seqs), NEW l \in 1..Len(seqs[j]), seqs[i][k] = seqs[j][l]
  PROVE  i = j
<1>1. PICK start : RowsAt(seqs, FlattenSeq(seqs), start)
  BY FlattenRows
<1>2. PICK m \in Nat, n \in Nat : m = Len(seqs[i]) /\ n = Len(seqs[j])
  OBVIOUS
<1>3. PICK flat : flat = FlattenSeq(seqs)
  OBVIOUS
<1>4. PICK a \in Nat, b \in Nat, c \in Nat :
        /\ c = Len(flat) /\ DOMAIN flat = 1..c
        /\ a + m <= c /\ flat[a + k] = seqs[i][k]
        /\ b + n <= c /\ flat[b + l] = seqs[j][l]
        /\ i < j => a + m <= b
        /\ j < i => b + n <= a
  BY <1>1, <1>2, <1>3 DEF RowsAt
<1>5. k \in 1..m /\ l \in 1..n /\ i \in Int /\ j \in Int
  BY <1>2
<1>6. a + k \in DOMAIN flat /\ b + l \in DOMAIN flat
  BY <1>4, <1>5
<1>7. a + k = b + l
  BY <1>3, <1>4, <1>6, Zenon DEF IsInjective
<1>8. ~(i < j) /\ ~(j < i)
  BY <1>4, <1>5, <1>7
<1> QED
  BY <1>5, <1>8

----------------------------------------------------------------------------
(* What a mapping that is accepted holds                                   *)

(* Its pages are mapped to pages.                                          *)
DestAligned(m) == \E k \in Int : Dest(m) = k * m.page_size
MappingTyped(m, stage) ==
  /\ m.translation_stage = stage /\ DestAligned(m)
  /\ Dest(m) \in Int /\ Source(m) \in Int \cup {None}
  /\ m.page_size \in Nat \ {0} /\ m.num_pages \in Int
  /\ m.alias \in BOOLEAN /\ (m.alias => Source(m) # None)
  /\ Source(m) # None => m.xwr \in 0..7
  /\ m.umode \in {0, 1, None} /\ m.valid \in {0, 1}
  /\ m.linker_script_section # None => m.linker_script_section \in Seq(STRING)

LEMMA PageSizeIsNumber ==
  ASSUME NEW size \in {2^(VpnBits * n) : n \in 1..4}
  PROVE  size \in Nat \ {0}
<1>1. PICK n \in 1..4 : size = 2^(VpnBits * n)
  OBVIOUS
<1>2. VpnBits * n \in 0..Xlen
  <2>1. VpnBits \in Nat /\ n \in {1, 2, 3, 4} /\ 5 * VpnBits + 2 <= Xlen /\ Xlen \in Nat
    BY WidthsAssumption
  <2> QED
    BY <2>1
<1> QED
  BY <1>1, <1>2, PowersAssumption

(* What is given is kept, what is not has its default, and the stage and   *)
(* the number of pages follow.                                             *)
CopiedFields == AddressTypes \cup {"xwr", "umode", "page_size", "alias", "valid",
                                   "linker_script_section"}
LEMMA NewMappingFields ==
  ASSUME NEW dict, DOMAIN dict \subseteq DOMAIN FieldDefaults
  PROVE  LET m == NewMapping(dict) IN
         /\ DOMAIN m = DOMAIN FieldDefaults
         /\ \A f \in CopiedFields : m[f] = IF f \in DOMAIN dict THEN dict[f] ELSE FieldDefaults[f]
         /\ "translation_stage" \in DOMAIN dict /\ dict.translation_stage # None =>
              m.translation_stage = dict.translation_stage
         /\ "num_pages_per_cpu" \in DOMAIN dict /\ dict.num_pages_per_cpu # None =>
              m.num_pages = dict.num_pages_per_cpu * MaxNumCpus
         /\ "num_pages_per_cpu" \notin DOMAIN dict =>
              m.num_pages = IF "num_pages" \in DOMAIN dict THEN dict.num_pages ELSE None
<1> DEFINE d == Fields(dict)
           e == [d EXCEPT
                   !.num_pages = IF d.num_pages_per_cpu = None THEN @
                                 ELSE d.num_pages_per_cpu * MaxNumCpus,
                   !.pma_memory_type =
                     IF d.alias /\ "pma_memory_type" \notin DOMAIN dict THEN None ELSE @]
           m == NewMapping(dict)
<1>1. /\ DOMAIN d = DOMAIN FieldDefaults
      /\ \A f \in DOMAIN FieldDefaults : d[f] = IF f \in DOMAIN dict THEN dict[f] ELSE FieldDefaults[f]
  BY DEF Fields, Override
<1>2. m = SetTranslationStage(e)
  BY Zenon DEF NewMapping
<1>3. DOMAIN FieldDefaults =
        {"va", "gpa", "pa", "spa", "xwr", "umode", "page_size", "num_pages", "num_pages_per_cpu",
         "alias", "pma_memory_type", "linker_script_section", "valid", "no_pte_allocation",
         "translation_stage", "alignment"}
  BY DEF FieldDefaults
<1>4. FieldDefaults.num_pages = None /\ FieldDefaults.num_pages_per_cpu = None
  BY DEF FieldDefaults
<1> HIDE DEF d
<1>5. /\ DOMAIN e = DOMAIN d
      /\ \A f \in CopiedFields \cup {"translation_stage"} : e[f] = d[f]
      /\ e.num_pages = IF d.num_pages_per_cpu = None THEN d.num_pages
                       ELSE d.num_pages_per_cpu * MaxNumCpus
  BY <1>1, <1>3 DEF CopiedFields, AddressTypes
<1> HIDE DEF e
<1>6. DOMAIN m = DOMAIN FieldDefaults /\ \A f \in CopiedFields \cup {"num_pages"} : m[f] = e[f]
  BY <1>1, <1>2, <1>3, <1>5 DEF SetTranslationStage, CopiedFields, AddressTypes
<1>7. e.translation_stage # None => m.translation_stage = e.translation_stage
  BY <1>2 DEF SetTranslationStage
<1> HIDE DEF m
<1>8. \A f \in CopiedFields : m[f] = IF f \in DOMAIN dict THEN dict[f] ELSE FieldDefaults[f]
  BY <1>1, <1>3, <1>5, <1>6 DEF CopiedFields, AddressTypes
<1>9. /\ m.num_pages = e.num_pages
      /\ d.num_pages = IF "num_pages" \in DOMAIN dict THEN dict.num_pages ELSE None
      /\ d.num_pages_per_cpu = IF "num_pages_per_cpu" \in DOMAIN dict
                               THEN dict.num_pages_per_cpu ELSE None
  BY <1>1, <1>3, <1>4, <1>6
<1>10. "translation_stage" \in DOMAIN dict => e.translation_stage = dict.translation_stage
  BY <1>1, <1>3, <1>5
<1> QED
  BY <1>5, <1>6, <1>7, <1>8, <1>9, <1>10 DEF m

LEMMA EnabledStagesKnown ==
  EnabledSet \subseteq Stage /\ None \notin EnabledSet
<1>1. Enabled = <<"s">> \/ Enabled = <<"hs", "vs", "g">>
  BY DEF Enabled, EnabledStages
<1>2. EnabledSet = {"s"} \/ EnabledSet = {"hs", "vs", "g"}
  BY <1>1 DEF EnabledSet
<1> QED
  BY <1>2, NoneAssumption DEF Stage

LEMMA AcceptedIsTyped ==
  ASSUME NEW dict, Accepted(dict), MaxNumCpus \in Int
  PROVE  LET m == NewMapping(dict) IN
         /\ m.translation_stage \in EnabledSet
         /\ MappingTyped(m, m.translation_stage)
<1> DEFINE m == NewMapping(dict)
           stage == m.translation_stage
<1>1. /\ DOMAIN dict \subseteq DOMAIN FieldDefaults
      /\ "page_size" \in DOMAIN dict /\ AllowedValues(dict)
      /\ ("num_pages" \in DOMAIN dict) # ("num_pages_per_cpu" \in DOMAIN dict)
      /\ SanityCheckFieldValues(m)
  BY DEF Accepted
<1>2. \A f \in CopiedFields : m[f] = IF f \in DOMAIN dict THEN dict[f] ELSE FieldDefaults[f]
  BY <1>1, NewMappingFields
<1>3. /\ "num_pages_per_cpu" \in DOMAIN dict /\ dict.num_pages_per_cpu # None =>
              m.num_pages = dict.num_pages_per_cpu * MaxNumCpus
      /\ "num_pages_per_cpu" \notin DOMAIN dict =>
              m.num_pages = IF "num_pages" \in DOMAIN dict THEN dict.num_pages ELSE None
  BY <1>1, NewMappingFields
<1> HIDE DEF m
<1>4. stage \in EnabledSet /\ stage \in Stage
  BY <1>1, EnabledStagesKnown DEF SanityCheckFieldValues
<1>5. TranslatesFrom[stage] \in AddressTypes /\ TranslatesTo[stage] \in AddressTypes
  BY <1>4 DEF Stage, TranslatesFrom, TranslatesTo, AddressTypes
<1>6. \A f \in DOMAIN Allowed : f \in DOMAIN dict => dict[f] \in Allowed[f]
  BY <1>1 DEF AllowedValues
<1>7. \A t \in AddressTypes : m[t] \in Int \cup {None}
  <2>1. \A t \in AddressTypes : /\ t \in CopiedFields /\ t \in DOMAIN Allowed
                                /\ Allowed[t] = Int /\ FieldDefaults[t] = None
    BY DEF AddressTypes, CopiedFields, Allowed, FieldDefaults
  <2> QED
    BY <1>2, <1>6, <2>1
<1>8. Dest(m) \in Int /\ Source(m) \in Int \cup {None}
  BY <1>1, <1>5, <1>7 DEF SanityCheckFieldValues, Dest, Source
<1>9. m.page_size \in Nat \ {0}
  <2>1. "page_size" \in CopiedFields /\ "page_size" \in DOMAIN Allowed
        /\ Allowed.page_size = {2^(VpnBits * n) : n \in 1..4}
    BY DEF CopiedFields, Allowed
  <2>2. m.page_size \in {2^(VpnBits * n) : n \in 1..4}
    BY <1>1, <1>2, <1>6, <2>1
  <2> QED
    BY <2>2, PageSizeIsNumber
<1>10. m.num_pages \in Int
  <2>1. /\ "num_pages" \in DOMAIN Allowed /\ Allowed.num_pages = Int
        /\ "num_pages_per_cpu" \in DOMAIN Allowed /\ Allowed.num_pages_per_cpu = Int
    BY DEF Allowed
  <2>2. CASE "num_pages" \in DOMAIN dict
    BY <1>1, <1>3, <1>6, <2>1, <2>2
  <2>3. CASE "num_pages_per_cpu" \in DOMAIN dict
    <3>1. dict.num_pages_per_cpu \in Int
      BY <1>6, <2>1, <2>3
    <3> QED
      BY <1>3, <2>3, <3>1, NoneAssumption
  <2> QED
    BY <1>1, <2>2, <2>3
<1>11. m.alias \in BOOLEAN /\ m.xwr \in 0..7 \cup {None} /\ m.umode \in {0, 1, None}
       /\ m.valid \in {0, 1}
  <2>1. /\ {"alias", "xwr", "umode", "valid"} \subseteq CopiedFields \cap DOMAIN Allowed
        /\ Allowed.alias = BOOLEAN /\ Allowed.xwr = 0..7
        /\ Allowed.umode = 0..1 /\ Allowed.valid = 0..1
        /\ FieldDefaults.alias = FALSE /\ FieldDefaults.xwr = None
        /\ FieldDefaults.umode = None /\ FieldDefaults.valid = 1
    BY DEF CopiedFields, Allowed, FieldDefaults
  <2>2. \A f \in {"alias", "xwr", "umode", "valid"} : m[f] = FieldDefaults[f] \/ m[f] \in Allowed[f]
    BY <1>2, <1>6, <2>1
  <2>3. m.alias \in BOOLEAN
    <3>1. FieldDefaults.alias \in BOOLEAN
      BY <2>1
    <3>2. m.alias = FieldDefaults.alias \/ m.alias \in Allowed.alias
      BY <2>2
    <3> QED
      BY <2>1, <3>1, <3>2, Zenon
  <2>4. /\ m.xwr = FieldDefaults.xwr \/ m.xwr \in Allowed.xwr
        /\ m.umode = FieldDefaults.umode \/ m.umode \in Allowed.umode
        /\ m.valid = FieldDefaults.valid \/ m.valid \in Allowed.valid
    BY <2>2, Zenon
  <2>5. m.xwr \in 0..7 \cup {None} /\ m.umode \in {0, 1, None} /\ m.valid \in {0, 1}
    BY <2>1, <2>4
  <2> QED
    BY <2>3, <2>5
<1>12. IF IsBareMapping(m) THEN ~m.alias ELSE m.xwr # None
  BY <1>1 DEF SanityCheckFieldValues
<1>13. Source(m) = None => IsBareMapping(m)
  BY <1>8, NoneAssumption DEF IsBareMapping
<1>14. m.linker_script_section # None => m.linker_script_section \in Seq(STRING)
  <2>1. /\ "linker_script_section" \in CopiedFields \cap DOMAIN Allowed
        /\ FieldDefaults.linker_script_section = None
        /\ Allowed.linker_script_section = Seq(STRING) \ {<<>>}
    BY DEF CopiedFields, Allowed, FieldDefaults
  <2> QED
    BY <1>2, <1>6, <2>1, Zenon
<1>16. DestAligned(m)
  <2>1. Dest(m) % m.page_size = 0
    BY <1>1 DEF SanityCheckFieldValues
  <2>2. PICK x \in Int, d \in Nat \ {0} : x = Dest(m) /\ d = m.page_size
    BY <1>8, <1>9
  <2>3. x % d = 0
    BY <2>1, <2>2
  <2>4. PICK k \in Int : x = k * d
    BY <2>3
  <2> QED
    BY <2>2, <2>4 DEF DestAligned
<1>15. MappingTyped(m, stage)
  BY <1>16, <1>8, <1>9, <1>10, <1>11, <1>12, <1>13, <1>14 DEF MappingTyped, IsBareMapping
<1> QED
  BY <1>4, <1>15 DEF m

----------------------------------------------------------------------------
(* The memory map is typed                                                 *)

(* The CPUs are counted: a mask with a primary CPU in it has a highest bit.*)
LEMMA HighestBit ==
  ASSUME NEW mask \in SUBSET Nat, IsFiniteSet(mask), mask # {}
  PROVE  \E c \in mask : \A d \in mask : d <= c
<1> DEFINE R == {p \in Pairs(mask) : p[1] < p[2]}
           n == Cardinality(mask)
<1>1. StrictOrder(mask, R)
  BY ChosenOrder
<1>2. \A i, j \in mask : <<i, j>> \in R <=> i < j
  BY DEF Pairs
<1> HIDE DEF R
<1>3. n \in Nat /\ n # 0
  BY FS_EmptySet, FS_CardinalityType
<1>4. PICK p : Arranges(mask, mask, R, p)
  BY <1>1, ArrangedFacts
<1>5. /\ p \in [1..n -> mask]
      /\ \A i \in mask : \E k \in 1..n : p[k] = i
      /\ \A k, l \in 1..n : k < l => <<p[k], p[l]>> \in R
  BY <1>4 DEF Arranges
<1> HIDE DEF n
<1>6. n \in 1..n /\ p[n] \in mask
  BY <1>3, <1>5
<1>7. \A d \in mask : d <= p[n]
  <2> SUFFICES ASSUME NEW d \in mask PROVE d <= p[n]
    OBVIOUS
  <2>1. PICK k \in 1..n : p[k] = d
    BY <1>5
  <2>2. k = n \/ k < n
    BY <1>3
  <2>3. p[k] = p[n] \/ p[k] < p[n]
    BY <1>2, <1>5, <1>6, <2>2
  <2>4. p[n] \in Nat /\ d \in Nat
    BY <1>6
  <2> QED
    BY <2>1, <2>3, <2>4
<1> QED
  BY <1>6, <1>7

(* The attributes of the diag have been merged and checked.                *)
Attributed == phase \notin {"attributes", "rejected"}
CpusCounted ==
  Attributed =>
    /\ diag_attributes.active_cpu_mask \in SUBSET Nat
    /\ IsFiniteSet(diag_attributes.active_cpu_mask)
    /\ diag_attributes.active_cpu_mask # {}

LEMMA CpusCountedMeans ==
  ASSUME CpusCounted, Attributed
  PROVE  MaxNumCpus \in Nat \ {0}
<1>1. \E c \in diag_attributes.active_cpu_mask : \A d \in diag_attributes.active_cpu_mask : d <= c
  BY HighestBit DEF CpusCounted
<1>2. (CHOOSE c \in diag_attributes.active_cpu_mask :
         \A d \in diag_attributes.active_cpu_mask : d <= c) \in Nat
  BY <1>1 DEF CpusCounted
<1> QED
  BY <1>2 DEF MaxNumCpus

LEMMA MergedMask ==
  ASSUME input \in Inputs, AttributesValid(MergedAttributes)
  PROVE  /\ MergedAttributes.active_cpu_mask \in SUBSET Nat
         /\ IsFiniteSet(MergedAttributes.active_cpu_mask)
         /\ MergedAttributes.active_cpu_mask # {}
<1> DEFINE Mask == "active_cpu_mask"
           b == Override(DefaultAttributes, input.diag)
           a == Override(b, input.overrides)
           M == MergedAttributes
<1>1. MaskFinite(DefaultAttributes) /\ MaskFinite(input.diag) /\ MaskFinite(input.overrides)
      /\ Mask \in DOMAIN DefaultAttributes
  BY MasksAssumption
<1>2. b[Mask] \in {DefaultAttributes[Mask]} \/ (Mask \in DOMAIN input.diag /\ b[Mask] = input.diag[Mask])
  BY <1>1 DEF Override
<1>3. Mask \in DOMAIN b /\ MaskFinite(b)
  BY <1>1, <1>2 DEF Override, MaskFinite
<1> HIDE DEF b
<1>4. a[Mask] = b[Mask] \/ (Mask \in DOMAIN input.overrides /\ a[Mask] = input.overrides[Mask])
  BY <1>3 DEF Override
<1>5. Mask \in DOMAIN a /\ MaskFinite(a)
  BY <1>1, <1>3, <1>4 DEF Override, MaskFinite
<1>6. M = IF a.primary_cpu_id # None \/ a.active_cpu_mask = {} THEN a
          ELSE [a EXCEPT !.primary_cpu_id = LowestCpu(a.active_cpu_mask)]
  BY DEF MergedAttributes, b
<1> HIDE DEF a
<1>7. M.active_cpu_mask = a.active_cpu_mask
  BY <1>5, <1>6
<1>8. M.active_cpu_mask # {}
  BY DEF AttributesValid
<1> QED
  BY <1>5, <1>7, <1>8 DEF MaskFinite

MappingList(s, stage) == \E S : s \in Seq(S) /\ \A m \in S : MappingTyped(m, stage)

LEMMA ShortLists ==
  /\ \A stage : MappingList(<<>>, stage)
  /\ \A m, stage : MappingTyped(m, stage) => MappingList(<<m>>, stage)
<1>1. ASSUME NEW s, NEW S, NEW stage, s \in Seq(S), \A m \in S : MappingTyped(m, stage)
      PROVE  MappingList(s, stage)
  BY <1>1 DEF MappingList
<1>2. ASSUME NEW stage PROVE MappingList(<<>>, stage)
  <2>1. PICK s, S : s = <<>> /\ S = {}
    OBVIOUS
  <2>2. s \in Seq(S) /\ \A m \in S : MappingTyped(m, stage)
    BY <2>1
  <2>3. MappingList(s, stage)
    BY <1>1, <2>2
  <2> QED
    BY <2>1, <2>3
<1>3. ASSUME NEW m, NEW stage, MappingTyped(m, stage) PROVE MappingList(<<m>>, stage)
  <2>1. PICK s, S : s = <<m>> /\ S = {m}
    OBVIOUS
  <2>2. s \in Seq(S) /\ \A n \in S : MappingTyped(n, stage)
    BY <1>3, <2>1
  <2>3. MappingList(s, stage)
    BY <1>1, <2>2
  <2> QED
    BY <2>1, <2>3
<1> QED
  BY <1>2, <1>3

LEMMA AppendMapping ==
  ASSUME NEW s, NEW stage, MappingList(s, stage), NEW m, MappingTyped(m, stage)
  PROVE  MappingList(Append(s, m), stage)
<1>1. PICK S : s \in Seq(S) /\ \A n \in S : MappingTyped(n, stage)
  BY DEF MappingList
<1>2. s \in Seq(S \cup {m}) /\ m \in S \cup {m}
  BY <1>1
<1>3. Append(s, m) \in Seq(S \cup {m})
  BY <1>2
<1> QED
  BY <1>1, <1>3 DEF MappingList

LEMMA JoinMappings ==
  ASSUME NEW s, NEW t, NEW stage, MappingList(s, stage), MappingList(t, stage)
  PROVE  MappingList(s \o t, stage)
<1>1. PICK S, T : /\ s \in Seq(S) /\ \A n \in S : MappingTyped(n, stage)
                  /\ t \in Seq(T) /\ \A n \in T : MappingTyped(n, stage)
  BY DEF MappingList
<1>2. s \in Seq(S \cup T) /\ t \in Seq(S \cup T)
  BY <1>1
<1>3. s \o t \in Seq(S \cup T)
  BY <1>2
<1> QED
  BY <1>1, <1>3 DEF MappingList

(* Sorting by an address keeps what is in the list.                        *)
LEMMA SortedMappings ==
  ASSUME NEW s, NEW stage \in Stage, MappingList(s, stage)
  PROVE  LET field == TranslatesTo[stage]
             t == SortedBy(s, field)
         IN /\ MappingList(t, stage)
            /\ {t[i] : i \in DOMAIN t} = {s[i] : i \in DOMAIN s}
            /\ t \in Seq({s[i] : i \in DOMAIN s})
<1> DEFINE field == TranslatesTo[stage]
           t == SortedBy(s, field)
<1>1. PICK S : s \in Seq(S) /\ \A m \in S : MappingTyped(m, stage)
  BY DEF MappingList
<1>2. DOMAIN s = 1..Len(s) /\ Len(s) \in Nat /\ \A i \in DOMAIN s : s[i] \in S
  BY <1>1
<1>3. IsFiniteSet(DOMAIN s) /\ DOMAIN s \in SUBSET Int
  BY <1>2, FS_Interval
<1>4. \A i \in DOMAIN s : s[i][field] \in Int
  BY <1>1, <1>2 DEF MappingTyped, Dest
<1>5. StrictOrder(DOMAIN s, SortOrder(s, field)) /\ t = Arranged(s, DOMAIN s, SortOrder(s, field))
  BY <1>3, <1>4, SortOrderIsStrict
<1> HIDE DEF t
<1>6. t \in Seq({s[i] : i \in DOMAIN s}) /\ {t[i] : i \in DOMAIN t} = {s[i] : i \in DOMAIN s}
  BY <1>3, <1>5, ArrangedElements
<1>7. \A m \in {s[i] : i \in DOMAIN s} : MappingTyped(m, stage)
  BY <1>1, <1>2
<1>8. MappingList(t, stage)
  BY <1>6, <1>7 DEF MappingList
<1> QED
  BY <1>6, <1>8 DEF t

(* In particular the sorted list has the mappings of the list.              *)
SameMappings(s, t) == {t[i] : i \in DOMAIN t} = {s[i] : i \in DOMAIN s}

LEMMA SortingKeeps ==
  ASSUME NEW s, NEW stage \in Stage, MappingList(s, stage)
  PROVE  SameMappings(s, SortedBy(s, TranslatesTo[stage]))
BY SortedMappings DEF SameMappings

MapTyped ==
  Attributed =>
    /\ memory_map = [stage \in EnabledSet |-> memory_map[stage]]
    /\ \A stage \in EnabledSet : MappingList(memory_map[stage], stage)

LEMMA PlacedSectionStage ==
  ASSUME NEW w, w.stage \in Stage
  PROVE  LET dict == PlacedSection(w)
         IN "translation_stage" \in DOMAIN dict /\ dict.translation_stage = w.stage
<1> DEFINE d == SizedSection(w)
           F == "translation_stage"
<1>1. F \notin SizeGiven(w)
  BY DEF SizeGiven, SizeFields
<1>2. F \in DOMAIN d /\ d[F] = w.stage
  BY <1>1 DEF SizedSection, Override
<1> HIDE DEF d
<1>3. TranslatesTo[w.stage] # F /\ TranslatesFrom[w.stage] # F
  BY DEF Stage, TranslatesTo, TranslatesFrom
<1> DEFINE e == IF w.stage = "g" /\ ~("no_pte_allocation" \in DOMAIN d /\ d.no_pte_allocation)
                THEN Override(d, [umode |-> 1]) ELSE d
<1>4. F \in DOMAIN e /\ e[F] = w.stage
  BY <1>2 DEF Override
<1> HIDE DEF e
<1>5. \E a, G : F \notin G /\ PlacedSection(w) = Override(e, [f \in G |-> a])
  <2> DEFINE G == {TranslatesTo[w.stage]} \cup
                  IF "no_pte_allocation" \in DOMAIN d /\ d.no_pte_allocation
                  THEN {} ELSE {TranslatesFrom[w.stage]}
             start == IF AreaStart(w) # None THEN AreaStart(w)
                      ELSE NextAvailable(w.stage, d.page_size)
             a == IF "alignment" \in DOMAIN d THEN AlignUp(start, d.alignment) ELSE start
  <2>1. F \notin G
    BY <1>3
  <2>2. PlacedSection(w) = Override(e, [f \in G |-> a])
    BY Zenon DEF PlacedSection, d, e
  <2> HIDE DEF G, a
  <2> QED
    BY <2>1, <2>2
<1>6. PICK a, G : F \notin G /\ PlacedSection(w) = Override(e, [f \in G |-> a])
  BY <1>5
<1> QED
  BY <1>4, <1>6 DEF Override

LEMMA StageOfNewMapping ==
  ASSUME NEW dict, Accepted(dict), "translation_stage" \in DOMAIN dict
  PROVE  NewMapping(dict).translation_stage = dict.translation_stage
<1>1. DOMAIN dict \subseteq DOMAIN FieldDefaults /\ AllowedValues(dict)
  BY DEF Accepted
<1>2. dict.translation_stage # None
  <2>1. "translation_stage" \in DOMAIN Allowed /\ Allowed.translation_stage = Stage
    BY DEF Allowed
  <2>2. dict.translation_stage \in Stage
    BY <1>1, <2>1 DEF AllowedValues
  <2> QED
    BY <2>2, NoneAssumption DEF Stage
<1> QED
  BY <1>1, <1>2, NewMappingFields

LEMMA EnabledFacts ==
  /\ Len(Enabled) \in Nat /\ DOMAIN Enabled = 1..Len(Enabled)
  /\ \A i \in DOMAIN Enabled : ValidModes(Enabled[i]) \subseteq DOMAIN Levels \cup {"bare"}
<1>1. Enabled = <<"s">> \/ Enabled = <<"hs", "vs", "g">>
  BY DEF Enabled, EnabledStages
<1>2. Len(Enabled) \in Nat /\ DOMAIN Enabled = 1..Len(Enabled)
  BY <1>1
<1>3. \A stage : ValidModes(stage) \subseteq DOMAIN Levels \cup {"bare"}
  BY DEF ValidModes, Levels
<1> QED
  BY <1>2, <1>3

LEMMA TranslatedStages ==
  \A stage : stage \in {Translated[i] : i \in DOMAIN Translated}
               <=> stage \in EnabledSet /\ Mode(stage) # "bare"
<1> DEFINE I == {i \in DOMAIN Enabled : Mode(Enabled[i]) # "bare"}
<1>1. IsFiniteSet(DOMAIN Enabled) /\ DOMAIN Enabled \in SUBSET Int
  BY EnabledFacts, FS_Interval
<1>2. IsFiniteSet(I) /\ I \in SUBSET Int
  BY <1>1, FS_Subset
<1>3. Translated = Chosen(Enabled, I)
  BY Zenon DEF Translated
<1> HIDE DEF I
<1>4. /\ \A n \in DOMAIN Translated : \E i \in I : Translated[n] = Enabled[i]
      /\ \A i \in I : \E n \in DOMAIN Translated : Translated[n] = Enabled[i]
  BY <1>2, <1>3, ChosenElements
<1> QED
  BY <1>4 DEF I, EnabledSet

(* A mapping of all the pages for the tables of a stage, to be read.       *)
TableSized(m) ==
  /\ m.page_size = SIZE_4K /\ m.num_pages = diag_attributes.max_num_pagetable_pages_per_stage
  /\ m.valid = 1 /\ m.xwr \in {1, 3}

(* The mappings of the page tables, each stage's own and those of another  *)
(* that it needs to read.                                                  *)
LEMMA OwnTables ==
  ASSUME PagetablesPlaceable, MaxNumCpus \in Int, NEW stage
  PROVE  \/ TablesOf(stage) = <<>> /\ stage \notin {Translated[i] : i \in DOMAIN Translated}
         \/ \E m : /\ TablesOf(stage) = <<m>> /\ MappingTyped(m, stage)
                   /\ stage \in EnabledSet /\ m.alias = FALSE /\ m.xwr \in 0..7
                   /\ DOMAIN m = DOMAIN FieldDefaults
                   /\ m.linker_script_section = TableSection(stage)
                   /\ m[TranslatesFrom[stage]] = m[TranslatesTo[stage]]
                   /\ TableSized(m)
<1> DEFINE own == {i \in DOMAIN Translated : Translated[i] = stage}
           i == CHOOSE i \in own : TRUE
           m == NewMapping(PagetableDict(i))
<1>1. CASE own = {}
  BY <1>1 DEF TablesOf
<1>2. CASE own # {}
  <2>1. i \in DOMAIN Translated /\ Translated[i] = stage
    BY <1>2
  <2>2. TablesOf(stage) = <<m>>
    BY <1>2, Zenon DEF TablesOf
  <2> DEFINE dict == PagetableDict(i)
  <2>3. Accepted(dict)
    BY <2>1 DEF PagetablesPlaceable
  <2> HIDE DEF i
  <2>4. DOMAIN dict \subseteq DOMAIN FieldDefaults
    BY <2>3 DEF Accepted
  <2>5. /\ "translation_stage" \in DOMAIN dict /\ "xwr" \in DOMAIN dict
        /\ "linker_script_section" \in DOMAIN dict
    BY DEF PagetableDict, Override
  <2>6. m.translation_stage = dict.translation_stage /\ m.translation_stage \in EnabledSet
    BY <2>3, <2>5, StageOfNewMapping, AcceptedIsTyped
  <2>7. /\ dict.translation_stage = stage /\ dict.xwr \in {1, 3}
        /\ dict.linker_script_section = TableSection(stage) /\ "alias" \notin DOMAIN dict
        /\ {TranslatesFrom[stage], TranslatesTo[stage]} \subseteq DOMAIN dict \cap AddressTypes
        /\ dict[TranslatesFrom[stage]] = dict[TranslatesTo[stage]]
    <3>1. stage \in Stage
      BY <2>1, TranslatedStages, EnabledStagesKnown
    <3>2. /\ dict.translation_stage = stage /\ dict.xwr \in {1, 3}
          /\ dict.linker_script_section = TableSection(stage) /\ "alias" \notin DOMAIN dict
      BY <2>1, <3>1 DEF PagetableDict, Override, Stage, TranslatesFrom, TranslatesTo
    <3>3. {TranslatesFrom[stage], TranslatesTo[stage]} \subseteq AddressTypes
      BY <3>1 DEF Stage, TranslatesFrom, TranslatesTo, AddressTypes
    <3> DEFINE F == {TranslatesFrom[stage], TranslatesTo[stage]}
    <3>4. F \subseteq DOMAIN dict /\ \A f \in F : dict[f] = RegionStart[i]
      BY <2>1, Zenon DEF PagetableDict, Override
    <3> QED
      BY <3>2, <3>3, <3>4, Zenon
  <2> HIDE DEF dict
  <2>8. /\ m.alias = FieldDefaults.alias /\ m.xwr = dict.xwr /\ DOMAIN m = DOMAIN FieldDefaults
        /\ m.linker_script_section = dict.linker_script_section
    BY <2>4, <2>5, <2>7, NewMappingFields DEF CopiedFields, dict
  <2>9. m.alias = FALSE /\ m.xwr \in 0..7
    BY <2>7, <2>8 DEF FieldDefaults
  <2>10. MappingTyped(m, stage)
    BY <2>3, <2>6, <2>7, AcceptedIsTyped DEF dict
  <2>11. m[TranslatesFrom[stage]] = m[TranslatesTo[stage]]
    <3>1. \A f \in AddressTypes : f \in DOMAIN dict => m[f] = dict[f]
      BY <2>4, NewMappingFields DEF CopiedFields, dict
    <3> QED
      BY <2>7, <3>1
  <2>12. TableSized(m)
    <3>1. /\ "page_size" \in DOMAIN dict /\ dict.page_size = SIZE_4K
          /\ "num_pages" \in DOMAIN dict /\ dict.num_pages = diag_attributes.max_num_pagetable_pages_per_stage
          /\ "valid" \notin DOMAIN dict /\ "num_pages_per_cpu" \notin DOMAIN dict
      <4>1. stage \in Stage
        BY <2>1, TranslatedStages, EnabledStagesKnown
      <4> QED
        BY <2>1, <4>1 DEF dict, PagetableDict, Override, Stage, TranslatesFrom, TranslatesTo
    <3>2. m.page_size = dict.page_size /\ m.valid = FieldDefaults.valid /\ m.num_pages = dict.num_pages
      BY <2>4, <3>1, NewMappingFields DEF CopiedFields, dict
    <3> QED
      BY <2>7, <2>8, <3>1, <3>2 DEF TableSized, FieldDefaults
  <2> QED
    BY <2>2, <2>6, <2>7, <2>8, <2>9, <2>10, <2>11, <2>12
<1> QED
  BY <1>1, <1>2

MapInv == input \in Inputs /\ CpusCounted /\ MapTyped

(* Only the steps of the map change the map and the attributes.            *)
LEMMA LaterSteps ==
  ASSUME TablesNext \/ SectionsNext \/ GenerateAssembly
  PROVE  /\ phase \in {"tables", "sections", "assembly"}
         /\ phase' \in {"tables", "sections", "assembly", "done", "rejected"}
         /\ UNCHANGED <<input, diag_attributes, memory_map>>
<1>1. CASE TablesNext
  BY <1>1 DEF TablesNext, SkipBareStage, BeginStage, WriteEntry, FinishStage, FinishTables,
              RejectTables, Reject, Advance, StageLeft, mapVars
<1>2. CASE SectionsNext \/ GenerateAssembly
  BY <1>2 DEF SectionsNext, CollectSection, FinishLinkerScript, RejectSections,
              GenerateAssembly, Reject, Advance
<1> QED
  BY <1>1, <1>2

LEMMA AttributesStay ==
  ASSUME [Next]_vars, Attributed
  PROVE  /\ UNCHANGED <<input, diag_attributes>> /\ EnabledSet' = EnabledSet
         /\ MaxNumCpus' = MaxNumCpus /\ \A stage : Mode(stage)' = Mode(stage)
<1>1. UNCHANGED <<input, diag_attributes>>
  <2>1. CASE MapNext
    BY <2>1 DEF MapNext, ProcessDiagAttributes, AddJumpstartSection, AddPagetableMappings,
                AddDiagMapping, CheckMemoryMap, Reject, Attributed
  <2> QED
    BY <2>1, LaterSteps DEF Next, vars, mapVars
<1> QED
  BY <1>1 DEF EnabledSet, Enabled, MaxNumCpus, Mode

(* The cases a proof about the map has to look at.                         *)
LEMMA MapSteps ==
  ASSUME [Next]_vars
  PROVE  \/ phase' = "rejected" /\ UNCHANGED <<input, diag_attributes, memory_map>>
         \/ UNCHANGED <<input, diag_attributes, memory_map>> /\ (Attributed <=> Attributed')
            /\ (phase \in {"attributes", "jumpstart", "diag"} => phase' = phase)
            /\ (phase \notin {"attributes", "jumpstart", "diag"} =>
                  phase' \notin {"attributes", "jumpstart", "diag"})
         \/ /\ phase = "attributes" /\ phase' = "jumpstart" /\ UNCHANGED input
            /\ AttributesValid(MergedAttributes) /\ diag_attributes' = MergedAttributes
            /\ memory_map' = [stage \in EnabledSet' |-> <<>>]
         \/ /\ phase = "jumpstart" /\ phase' = phase
            /\ \E w : /\ SectionAccepted(w)
                      /\ memory_map' = IF IsEmptySection(PlacedSection(w)) THEN memory_map
                                       ELSE [memory_map EXCEPT ![w.stage] =
                                               Append(@, NewMapping(PlacedSection(w)))]
         \/ /\ phase = "jumpstart" /\ phase' = "diag" /\ PagetablesPlaceable
            /\ memory_map' = [stage \in EnabledSet |-> memory_map[stage] \o TableMappings(stage)]
         \/ /\ phase = "diag" /\ phase' = phase
            /\ \E dict : /\ DiagMappable(dict)
                         /\ LET m == NewMapping(DiagDict(dict))
                            IN memory_map' = [memory_map EXCEPT ![m.translation_stage] =
                                                Append(@, m)]
         \/ /\ phase = "diag" /\ phase' = "tables"
            /\ SanityCheckMemoryMap(SortedMap) /\ memory_map' = SortedMap
<1>1. CASE UNCHANGED vars \/ (Ended /\ UNCHANGED vars)
  BY <1>1 DEF vars, mapVars, Attributed
<1>2. CASE TablesNext \/ SectionsNext \/ GenerateAssembly
  BY <1>2, LaterSteps DEF Attributed
<1>3. CASE ProcessDiagAttributes
  BY <1>3 DEF ProcessDiagAttributes, Reject, Advance
<1>4. CASE AddJumpstartSection
  <2>1. PICK w : \/ /\ SectionAccepted(w) /\ UNCHANGED phase
                    /\ \E dict \in {PlacedSection(w)} :
                         memory_map' = IF IsEmptySection(dict) THEN memory_map
                                       ELSE [memory_map EXCEPT ![w.stage] =
                                               Append(@, NewMapping(dict))]
                 \/ Reject
    BY <1>4, Zenon DEF AddJumpstartSection
  <2> QED
    BY <1>4, <2>1 DEF AddJumpstartSection, Reject
<1>5. CASE AddPagetableMappings
  BY <1>5 DEF AddPagetableMappings, Reject, Advance
<1>6. CASE AddDiagMapping
  <2>1. PICK dict : \/ /\ DiagMappable(dict) /\ UNCHANGED phase
                       /\ \E m \in {NewMapping(DiagDict(dict))} :
                            memory_map' = [memory_map EXCEPT ![m.translation_stage] = Append(@, m)]
                    \/ Reject
    BY <1>6, Zenon DEF AddDiagMapping
  <2> QED
    BY <1>6, <2>1 DEF AddDiagMapping, Reject
<1>7. CASE CheckMemoryMap
  BY <1>7 DEF CheckMemoryMap, Reject, Advance
<1> QED
  BY <1>1, <1>2, <1>3, <1>4, <1>5, <1>6, <1>7 DEF Next, MapNext

LEMMA InitMapInv == Init => MapInv
BY DEF Init, MapInit, MapInv, CpusCounted, MapTyped, Attributed

LEMMA TablesAreTyped ==
  ASSUME PagetablesPlaceable, MaxNumCpus \in Int, NEW stage \in EnabledSet
  PROVE  MappingList(TableMappings(stage), stage)
<1>1. MappingList(<<>>, stage)
  BY ShortLists
<1>2. ASSUME NEW m, NEW x, MappingTyped(m, x)
      PROVE  MappingList(<<m>>, x)
  BY <1>2, ShortLists
<1>3. MappingList(TablesOf(stage), stage)
  BY <1>1, <1>2, OwnTables
<1>4. CASE stage \notin {"g", "hs"}
  <2>1. TableMappings(stage) = TablesOf(stage) \o <<>>
    BY <1>4 DEF TableMappings
  <2> QED
    BY <1>1, <1>3, <2>1, JoinMappings
<1>5. CASE stage \in {"g", "hs"}
  <2>1. {"vs", "g"} \subseteq {Translated[i] : i \in DOMAIN Translated}
    <3>1. Enabled = <<"s">> \/ Enabled = <<"hs", "vs", "g">>
      BY DEF Enabled, EnabledStages
    <3>2. "g" \in EnabledSet
      BY <1>5, <3>1 DEF EnabledSet
    <3>3. {"vs", "g"} \subseteq ToSet(Translated)
      BY <3>2 DEF PagetablesPlaceable
    <3> QED
      BY <3>3 DEF ToSet
  <2>2. \A x \in {"vs", "g"} :
          \E m : /\ TablesOf(x) = <<m>> /\ MappingTyped(m, x) /\ m.alias = FALSE /\ m.xwr \in 0..7
                /\ DOMAIN m = DOMAIN FieldDefaults
    BY <2>1, OwnTables
  <2>3. PICK vs : /\ TablesOf("vs") = <<vs>> /\ MappingTyped(vs, "vs")
                  /\ vs.alias = FALSE /\ vs.xwr \in 0..7 /\ DOMAIN vs = DOMAIN FieldDefaults
    BY <2>2
  <2>4. PICK g : /\ TablesOf("g") = <<g>> /\ MappingTyped(g, "g")
                 /\ g.alias = FALSE /\ g.xwr \in 0..7 /\ DOMAIN g = DOMAIN FieldDefaults
    BY <2>2
  <2>5. vs.gpa \in Int /\ vs.va \in Int \cup {None} /\ g.spa \in Int /\ g.gpa \in Int \cup {None}
    BY <2>3, <2>4 DEF MappingTyped, Dest, Source, TranslatesFrom, TranslatesTo
  <2>6. DOMAIN vs = DOMAIN g /\ {"va", "pa", "gpa", "spa", "umode", "translation_stage",
          "alias", "xwr", "page_size", "num_pages", "valid", "linker_script_section"} \subseteq DOMAIN vs
    BY <2>3, <2>4 DEF FieldDefaults
  <2>7. MappingTyped(VsTablesInG(vs), "g")
    <3>1. PICK k \in Int : vs.gpa = k * vs.page_size
      BY <2>3 DEF MappingTyped, DestAligned, Dest, TranslatesTo
    <3>2. PICK n : n = VsTablesInG(vs)
      OBVIOUS
    <3>3. n.translation_stage = "g" /\ n.spa = vs.gpa /\ n.page_size = vs.page_size
      BY <2>6, <3>2 DEF VsTablesInG
    <3>4. Dest(n) = n.spa
      BY <3>3 DEF Dest, TranslatesTo
    <3>5. DestAligned(n)
      BY <3>1, <3>3, <3>4 DEF DestAligned
    <3> QED
      BY <2>3, <2>5, <2>6, <3>2, <3>5 DEF VsTablesInG, MappingTyped, Dest, Source, TranslatesFrom, TranslatesTo
  <2>8. MappingTyped(GTablesInHs(g), "hs")
    <3>1. PICK k \in Int : g.spa = k * g.page_size
      BY <2>4 DEF MappingTyped, DestAligned, Dest, TranslatesTo
    <3>2. PICK n : n = GTablesInHs(g)
      OBVIOUS
    <3>3. n.translation_stage = "hs" /\ n.pa = g.spa /\ n.page_size = g.page_size
      BY <2>6, <3>2 DEF GTablesInHs
    <3>4. Dest(n) = n.pa
      BY <3>3 DEF Dest, TranslatesTo
    <3>5. DestAligned(n)
      BY <3>1, <3>3, <3>4 DEF DestAligned
    <3> QED
      BY <2>4, <2>5, <2>6, <3>2, <3>5 DEF GTablesInHs, MappingTyped, Dest, Source, TranslatesFrom, TranslatesTo
  <2>9. MappingTyped(VsTablesInHs(vs), "hs")
    <3>1. PICK k \in Int : vs.gpa = k * vs.page_size
      BY <2>3 DEF MappingTyped, DestAligned, Dest, TranslatesTo
    <3>2. PICK n : n = VsTablesInHs(vs)
      OBVIOUS
    <3>3. n.translation_stage = "hs" /\ n.pa = vs.gpa /\ n.page_size = vs.page_size
      BY <2>6, <3>2 DEF VsTablesInHs
    <3>4. Dest(n) = n.pa
      BY <3>3 DEF Dest, TranslatesTo
    <3>5. DestAligned(n)
      BY <3>1, <3>3, <3>4 DEF DestAligned
    <3> QED
      BY <2>3, <2>5, <2>6, <3>2, <3>5 DEF VsTablesInHs, MappingTyped, Dest, Source, TranslatesFrom, TranslatesTo
  <2>10. CASE stage = "g"
    <3>1. TableMappings(stage) = TablesOf(stage) \o <<VsTablesInG(vs)>>
      BY <2>3, <2>10 DEF TableMappings
    <3> QED
      BY <1>2, <1>3, <2>7, <2>10, <3>1, JoinMappings
  <2>11. CASE stage = "hs"
    <3>1. TableMappings(stage) = TablesOf(stage) \o <<GTablesInHs(g), VsTablesInHs(vs)>>
      BY <2>3, <2>4, <2>11 DEF TableMappings
    <3>2. <<GTablesInHs(g), VsTablesInHs(vs)>> = <<GTablesInHs(g)>> \o <<VsTablesInHs(vs)>>
      OBVIOUS
    <3>3. MappingList(<<GTablesInHs(g)>> \o <<VsTablesInHs(vs)>>, "hs")
      BY <1>2, <2>8, <2>9, JoinMappings
    <3> QED
      BY <1>3, <2>11, <3>1, <3>2, <3>3, JoinMappings
  <2> QED
    BY <1>5, <2>10, <2>11
<1> QED
  BY <1>4, <1>5

LEMMA MapInvStep ==
  ASSUME MapInv, [Next]_vars
  PROVE  MapInv'
<1> USE DEF MapInv
<1>1. CASE phase' = "rejected" /\ UNCHANGED <<input, diag_attributes, memory_map>>
  BY <1>1 DEF CpusCounted, MapTyped, Attributed
<1>2. CASE UNCHANGED <<input, diag_attributes, memory_map>> /\ (Attributed <=> Attributed')
  BY <1>2 DEF CpusCounted, MapTyped, EnabledSet, Enabled
<1>3. CASE /\ phase = "attributes" /\ phase' = "jumpstart" /\ UNCHANGED input
           /\ AttributesValid(MergedAttributes) /\ diag_attributes' = MergedAttributes
           /\ memory_map' = [stage \in EnabledSet' |-> <<>>]
  <2>1. CpusCounted'
    BY <1>3, MergedMask DEF CpusCounted
  <2>2. \A stage : MappingList(<<>>, stage)
    BY ShortLists
  <2>3. MapTyped'
    <3>1. \A stage \in EnabledSet' : memory_map'[stage] = <<>>
      BY <1>3
    <3> QED
      BY <1>3, <2>2, <3>1 DEF MapTyped, MappingList, MappingTyped, DestAligned, Dest, Source
  <2> QED
    BY <1>3, <2>1, <2>3
<1>4. ASSUME phase \in {"jumpstart", "diag"}, phase' # "rejected",
             memory_map' = [stage \in EnabledSet |-> memory_map'[stage]],
             \A stage \in EnabledSet : MappingList(memory_map'[stage], stage)
      PROVE  MapInv'
  <2>1. Attributed /\ Attributed' /\ UNCHANGED <<input, diag_attributes>> /\ EnabledSet' = EnabledSet
    <3>1. Attributed
      BY <1>4 DEF Attributed
    <3>2. phase' # "attributes"
      BY <1>4, MapSteps DEF Attributed
    <3> QED
      BY <1>4, <3>1, <3>2, AttributesStay DEF Attributed
  <2>2. CpusCounted'
    BY <2>1 DEF CpusCounted
  <2>3. MapTyped'
    BY <1>4, <2>1 DEF MapTyped, MappingList, MappingTyped, Dest, Source
  <2> QED
    BY <2>1, <2>2, <2>3
<1>5. phase \in {"jumpstart", "diag"} =>
        /\ Attributed /\ MaxNumCpus \in Int
        /\ memory_map = [stage \in EnabledSet |-> memory_map[stage]]
        /\ \A stage \in EnabledSet : MappingList(memory_map[stage], stage)
  BY CpusCountedMeans DEF MapTyped, Attributed
<1>6. CASE /\ phase = "jumpstart" /\ phase' = phase
           /\ \E w : /\ SectionAccepted(w)
                     /\ memory_map' = IF IsEmptySection(PlacedSection(w)) THEN memory_map
                                      ELSE [memory_map EXCEPT ![w.stage] =
                                              Append(@, NewMapping(PlacedSection(w)))]
  <2>1. PICK w : /\ SectionAccepted(w)
                 /\ memory_map' = IF IsEmptySection(PlacedSection(w)) THEN memory_map
                                  ELSE [memory_map EXCEPT ![w.stage] =
                                          Append(@, NewMapping(PlacedSection(w)))]
    BY <1>6
  <2> DEFINE dict == PlacedSection(w)
             m == NewMapping(dict)
  <2>2. CASE IsEmptySection(dict) \/ w.stage \notin EnabledSet
    <3>1. memory_map' = memory_map
      BY <1>5, <1>6, <2>1, <2>2
    <3> QED
      BY <1>4, <1>5, <1>6, <3>1
  <2>3. CASE ~IsEmptySection(dict) /\ w.stage \in EnabledSet
    <3>1. Accepted(dict)
      BY <2>1, <2>3 DEF SectionAccepted
    <3>2. w.stage \in Stage
      BY <2>3, EnabledStagesKnown
    <3>3. "translation_stage" \in DOMAIN dict /\ dict.translation_stage = w.stage
      BY <3>2, PlacedSectionStage
    <3> HIDE DEF dict
    <3>4. MappingTyped(m, w.stage)
      BY <1>5, <1>6, <3>1, <3>3, StageOfNewMapping, AcceptedIsTyped
    <3> HIDE DEF m
    <3>5. memory_map' = [memory_map EXCEPT ![w.stage] = Append(@, m)]
      BY <2>1, <2>3 DEF m, dict
    <3>6. MappingList(Append(memory_map[w.stage], m), w.stage)
      BY <1>5, <1>6, <2>3, <3>4, AppendMapping
    <3>7. /\ memory_map' = [stage \in EnabledSet |-> memory_map'[stage]]
          /\ \A stage \in EnabledSet : memory_map'[stage] = IF stage = w.stage
               THEN Append(memory_map[w.stage], m) ELSE memory_map[stage]
      BY <1>5, <1>6, <3>5
    <3>8. \A stage \in EnabledSet : MappingList(memory_map'[stage], stage)
      BY <1>5, <1>6, <3>6, <3>7
    <3> QED
      BY <1>4, <1>6, <3>7, <3>8
  <2> QED
    BY <2>2, <2>3
<1>7. CASE /\ phase = "jumpstart" /\ phase' = "diag" /\ PagetablesPlaceable
           /\ memory_map' = [stage \in EnabledSet |-> memory_map[stage] \o TableMappings(stage)]
  <2>1. \A stage \in EnabledSet : MappingList(memory_map[stage] \o TableMappings(stage), stage)
    BY <1>5, <1>7, TablesAreTyped, JoinMappings
  <2> QED
    BY <1>4, <1>7, <2>1
<1>8. CASE /\ phase = "diag" /\ phase' = phase
           /\ \E dict : /\ DiagMappable(dict)
                        /\ LET m == NewMapping(DiagDict(dict))
                           IN memory_map' = [memory_map EXCEPT ![m.translation_stage] = Append(@, m)]
  <2>1. PICK dict : /\ DiagMappable(dict)
                    /\ LET m == NewMapping(DiagDict(dict))
                       IN memory_map' = [memory_map EXCEPT ![m.translation_stage] = Append(@, m)]
    BY <1>8
  <2> DEFINE d == DiagDict(dict)
             m == NewMapping(d)
             x == m.translation_stage
  <2>2. Accepted(d)
    BY <2>1 DEF DiagMappable
  <2>3. memory_map' = [memory_map EXCEPT ![x] = Append(@, m)]
    BY <2>1
  <2> HIDE DEF d
  <2>4. x \in EnabledSet /\ MappingTyped(m, x)
    BY <1>5, <1>8, <2>2, AcceptedIsTyped
  <2> HIDE DEF m, x
  <2>5. MappingList(Append(memory_map[x], m), x)
    BY <1>5, <1>8, <2>4, AppendMapping
  <2>6. /\ memory_map' = [stage \in EnabledSet |-> memory_map'[stage]]
        /\ \A stage \in EnabledSet : memory_map'[stage] = IF stage = x
             THEN Append(memory_map[x], m) ELSE memory_map[stage]
    BY <1>5, <1>8, <2>3
  <2>7. \A stage \in EnabledSet : MappingList(memory_map'[stage], stage)
    BY <1>5, <1>8, <2>5, <2>6
  <2> QED
    BY <1>4, <1>8, <2>6, <2>7
<1>9. CASE /\ phase = "diag" /\ phase' = "tables"
           /\ SanityCheckMemoryMap(SortedMap) /\ memory_map' = SortedMap
  <2>1. \A stage \in EnabledSet : MappingList(SortedBy(memory_map[stage], TranslatesTo[stage]), stage)
    BY <1>5, <1>9, SortedMappings, EnabledStagesKnown
  <2>2. memory_map' = [stage \in EnabledSet |-> SortedBy(memory_map[stage], TranslatesTo[stage])]
    BY <1>9 DEF SortedMap
  <2> QED
    BY <1>4, <1>9, <2>1, <2>2
<1> QED
  BY <1>1, <1>2, <1>3, <1>6, <1>7, <1>8, <1>9, MapSteps

----------------------------------------------------------------------------
(* The checked map                                                         *)

(* What sorting does: it puts every position q[k] of the list in its place *)
(* and keeps the order of equal items.                                     *)
Sorts(t, n, field, q) ==
  /\ q \in [1..n -> 1..n]
  /\ SortedBy(t, field) = [k \in 1..n |-> t[q[k]]]
  /\ \A i \in 1..n : \E k \in 1..n : q[k] = i
  /\ \A k, l \in 1..n : k < l =>
       t[q[k]][field] < t[q[l]][field] \/ (t[q[k]][field] = t[q[l]][field] /\ q[k] < q[l])

LEMMA SortedFacts ==
  ASSUME NEW t, NEW n \in Nat, DOMAIN t = 1..n, NEW field, \A k \in 1..n : t[k][field] \in Int
  PROVE  \E q : Sorts(t, n, field, q)
<1> DEFINE R == SortOrder(t, field)
<1>1. IsFiniteSet(1..n) /\ 1..n \in SUBSET Int /\ Cardinality(1..n) = n
  <2>1. IsFiniteSet(1..n) /\ Cardinality(1..n) = IF 1 > n THEN 0 ELSE n - 1 + 1
    BY FS_Interval
  <2> QED
    BY <2>1
<1>2. StrictOrder(1..n, R) /\ SortedBy(t, field) = Arranged(t, 1..n, R)
  BY <1>1, SortOrderIsStrict
<1> HIDE DEF R
<1>3. PICK q : Arranges(t, 1..n, R, q)
  BY <1>1, <1>2, ArrangedFacts
<1>4. /\ q \in [1..n -> 1..n] /\ SortedBy(t, field) = [k \in 1..n |-> t[q[k]]]
      /\ \A i \in 1..n : \E k \in 1..n : q[k] = i
      /\ \A k, l \in 1..n : k < l => <<q[k], q[l]>> \in R
  BY <1>1, <1>2, <1>3 DEF Arranges
<1>5. \A i, j : <<i, j>> \in R => t[i][field] < t[j][field] \/ (t[i][field] = t[j][field] /\ i < j)
  BY DEF R, SortOrder
<1> QED
  BY <1>4, <1>5 DEF Sorts

(* A list in the order of a field in which neighbours lie apart has no two *)
(* items that overlap, whatever their sizes: the proof does not need them  *)
(* to be positive.                                                         *)
LEMMA SortedNeighbours ==
  ASSUME NEW n \in Nat, NEW start \in [1..n -> Int], NEW size \in [1..n -> Int],
         \A k \in 1..n - 1 : start[k] + size[k] <= start[k + 1],
         \A k, l \in 1..n : k < l => start[k] <= start[l]
  PROVE  \A k, l \in 1..n : k < l => start[k] + size[k] <= start[l]
<1> SUFFICES ASSUME NEW k \in 1..n, NEW l \in 1..n, k < l PROVE start[k] + size[k] <= start[l]
  OBVIOUS
<1>1. k \in 1..n - 1 /\ k + 1 \in 1..n /\ (k + 1 = l \/ k + 1 < l)
  OBVIOUS
<1>2. start[k] \in Int /\ size[k] \in Int /\ start[k + 1] \in Int /\ start[l] \in Int
  BY <1>1
<1>3. start[k] + size[k] <= start[k + 1]
  BY <1>1, Zenon
<1>4. start[k + 1] <= start[l]
  <2>1. CASE k + 1 = l
    BY <1>2, <2>1
  <2>2. CASE k + 1 < l
    BY <1>1, <2>2, Zenon
  <2> QED
    BY <1>1, <2>1, <2>2
<1> QED
  BY <1>2, <1>3, <1>4

LEMMA SortedNeighboursApart ==
  ASSUME NEW t, NEW n \in Nat, DOMAIN t = 1..n, NEW field,
         \A k \in 1..n : t[k][field] \in Int /\ MappingSize(t[k]) \in Int,
         NoAddressOverlaps(field, t)
  PROVE  \A k, l \in 1..n : k # l => Apart(field, t[k], t[l])
<1> DEFINE u == SortedBy(t, field)
<1>1. PICK q : Sorts(t, n, field, q)
  BY SortedFacts
<1>2. /\ q \in [1..n -> 1..n] /\ u = [k \in 1..n |-> t[q[k]]]
      /\ \A i \in 1..n : \E k \in 1..n : q[k] = i
      /\ \A k, l \in 1..n : k < l =>
           t[q[k]][field] < t[q[l]][field] \/ (t[q[k]][field] = t[q[l]][field] /\ q[k] < q[l])
  BY <1>1 DEF Sorts
<1> HIDE DEF u
<1> DEFINE start == [k \in 1..n |-> t[q[k]][field]]
           size == [k \in 1..n |-> MappingSize(t[q[k]])]
<1>3. start \in [1..n -> Int] /\ size \in [1..n -> Int]
  BY <1>2
<1>4. \A k \in 1..n - 1 : start[k] + size[k] <= start[k + 1]
  <2>1. \A k \in 1..n - 1 : u[k][field] + MappingSize(u[k]) <= u[k + 1][field]
    <3>1. NeighboursApart(u, field)
      BY Zenon DEF NoAddressOverlaps, u
    <3>2. Len(u) = n
      BY <1>2
    <3> QED
      BY <3>1, <3>2 DEF NeighboursApart
  <2>2. \A k \in 1..n - 1 : k \in 1..n /\ k + 1 \in 1..n
    OBVIOUS
  <2> QED
    BY <1>2, <2>1, <2>2
<1>5. \A k, l \in 1..n : k < l => start[k] <= start[l]
  <2> SUFFICES ASSUME NEW k \in 1..n, NEW l \in 1..n, k < l PROVE start[k] <= start[l]
    OBVIOUS
  <2>1. start[k] < start[l] \/ start[k] = start[l]
    BY <1>2
  <2>2. start[k] \in Int /\ start[l] \in Int
    BY <1>3
  <2> HIDE DEF start
  <2> QED
    BY <2>1, <2>2
<1> HIDE DEF start, size
<1>6. \A k, l \in 1..n : k < l => start[k] + size[k] <= start[l]
  BY <1>3, <1>4, <1>5, SortedNeighbours
<1> SUFFICES ASSUME NEW i \in 1..n, NEW j \in 1..n, i # j PROVE Apart(field, t[i], t[j])
  OBVIOUS
<1>7. (\E k \in 1..n : q[k] = i) /\ (\E l \in 1..n : q[l] = j)
  BY <1>2, Zenon
<1>8. PICK k \in 1..n, l \in 1..n : q[k] = i /\ q[l] = j
  BY <1>7
<1>9. k < l \/ l < k
  BY <1>8
<1> QED
  BY <1>6, <1>8, <1>9 DEF Apart, start, size

(* The same for the mappings that were picked from a list to be checked.   *)
LEMMA ChosenApart ==
  ASSUME NEW s, NEW I \in SUBSET Int, IsFiniteSet(I), NEW field,
         \A i \in I : s[i][field] \in Int /\ MappingSize(s[i]) \in Int,
         NoAddressOverlaps(field, Chosen(s, I))
  PROVE  \A i, j \in I : i # j => Apart(field, s[i], s[j])
<1> DEFINE R == {p \in Pairs(I) : p[1] < p[2]}
           t == Chosen(s, I)
           n == Cardinality(I)
<1>1. StrictOrder(I, R) /\ t = Arranged(s, I, R)
  BY ChosenOrder DEF Chosen
<1>2. n \in Nat
  BY FS_CardinalityType
<1> HIDE DEF R
<1>3. PICK p : Arranges(s, I, R, p)
  BY <1>1, ArrangedFacts
<1>4. /\ p \in [1..n -> I] /\ t = [k \in 1..n |-> s[p[k]]]
      /\ \A i \in I : \E k \in 1..n : p[k] = i
  BY <1>1, <1>3 DEF Arranges
<1> HIDE DEF n, t
<1>5. DOMAIN t = 1..n /\ \A k \in 1..n : t[k] = s[p[k]] /\ p[k] \in I
  BY <1>4
<1>6. \A k \in 1..n : t[k][field] \in Int /\ MappingSize(t[k]) \in Int
  BY <1>5
<1>7. \A k, l \in 1..n : k # l => Apart(field, t[k], t[l])
  BY <1>2, <1>5, <1>6, SortedNeighboursApart DEF t
<1> SUFFICES ASSUME NEW i \in I, NEW j \in I, i # j PROVE Apart(field, s[i], s[j])
  OBVIOUS
<1>8. PICK k \in 1..n, l \in 1..n : p[k] = i /\ p[l] = j
  BY <1>4
<1> QED
  BY <1>5, <1>7, <1>8

(* What AcceptedMapSound says of one stage.                                *)
StageSound(s, stage) ==
  \A i, j \in DOMAIN s :
    /\ i # j /\ Source(s[i]) # None /\ Source(s[j]) # None => Apart(TranslatesFrom[stage], s[i], s[j])
    /\ i # j /\ ~s[i].alias /\ ~s[j].alias => Apart(TranslatesTo[stage], s[i], s[j])
    /\ s[i].alias => \E k \in DOMAIN s : ~s[k].alias /\ Within(s[i], s[k])

LEMMA ListFacts ==
  ASSUME NEW s, NEW stage, MappingList(s, stage)
  PROVE  /\ DOMAIN s \in SUBSET Int /\ IsFiniteSet(DOMAIN s)
         /\ Len(s) \in Nat /\ DOMAIN s = 1..Len(s)
         /\ \A i \in DOMAIN s : MappingTyped(s[i], stage) /\ MappingSize(s[i]) \in Int
<1>1. PICK S : s \in Seq(S) /\ \A m \in S : MappingTyped(m, stage)
  BY DEF MappingList
<1>2. DOMAIN s = 1..Len(s) /\ Len(s) \in Nat /\ \A i \in DOMAIN s : s[i] \in S
  BY <1>1
<1>3. IsFiniteSet(DOMAIN s)
  BY <1>2, FS_Interval
<1>4. \A m \in S : MappingSize(m) \in Int
  BY <1>1 DEF MappingTyped, MappingSize
<1> QED
  BY <1>1, <1>2, <1>3, <1>4

LEMMA CheckedIsSound ==
  ASSUME NEW map, SanityCheckMemoryMap(map),
         NEW stage \in EnabledSet, MappingList(map[stage], stage)
  PROVE  StageSound(map[stage], stage)
<1> DEFINE s == map[stage]
           D == DOMAIN s
           I == {i \in D : Source(s[i]) # None}
           J == {i \in D : ~s[i].alias}
           K == {i \in D : s[i].alias}
<1>1. /\ NoAddressOverlaps(TranslatesFrom[stage], Chosen(s, I))
      /\ NoAddressOverlaps(TranslatesTo[stage], Chosen(s, J))
      /\ \A m \in ToSet(Chosen(s, K)) : Source(m) # None =>
           \E n \in ToSet(Chosen(s, J)) : Within(m, n)
  BY Zenon DEF SanityCheckMemoryMap, WithSource, NonAliases, Aliases
<1>2. /\ D \in SUBSET Int /\ IsFiniteSet(D)
      /\ \A i \in D : MappingTyped(s[i], stage) /\ MappingSize(s[i]) \in Int
  BY ListFacts
<1> HIDE DEF s
<1>3. /\ I \in SUBSET Int /\ IsFiniteSet(I) /\ J \in SUBSET Int /\ IsFiniteSet(J)
      /\ K \in SUBSET Int /\ IsFiniteSet(K)
  BY <1>2, FS_Subset
<1>4. \A i \in I : s[i][TranslatesFrom[stage]] \in Int /\ MappingSize(s[i]) \in Int
  BY <1>2 DEF MappingTyped, Source
<1>5. \A i \in J : s[i][TranslatesTo[stage]] \in Int /\ MappingSize(s[i]) \in Int
  BY <1>2 DEF MappingTyped, Dest
<1>6. \A i, j \in I : i # j => Apart(TranslatesFrom[stage], s[i], s[j])
  <2> HIDE DEF I
  <2> QED
    BY <1>1, <1>3, <1>4, ChosenApart
<1>7. \A i, j \in J : i # j => Apart(TranslatesTo[stage], s[i], s[j])
  <2> HIDE DEF J
  <2> QED
    BY <1>1, <1>3, <1>5, ChosenApart
<1>8. \A i \in K : \E k \in J : Within(s[i], s[k])
  <2> SUFFICES ASSUME NEW i \in K PROVE \E k \in J : Within(s[i], s[k])
    OBVIOUS
  <2>1. Source(s[i]) # None
    BY <1>2 DEF MappingTyped
  <2> HIDE DEF J, K
  <2>2. \E n \in DOMAIN Chosen(s, K) : Chosen(s, K)[n] = s[i]
    BY <1>3, ChosenElements
  <2>3. s[i] \in ToSet(Chosen(s, K))
    BY <2>2 DEF ToSet
  <2>4. PICK n \in ToSet(Chosen(s, J)) : Within(s[i], n)
    BY <1>1, <2>1, <2>3
  <2>5. PICK l \in DOMAIN Chosen(s, J) : n = Chosen(s, J)[l]
    BY DEF ToSet
  <2>6. \E k \in J : n = s[k]
    BY <1>3, <2>5, ChosenElements
  <2> QED
    BY <2>4, <2>6
<1>9. StageSound(s, stage)
  BY <1>6, <1>7, <1>8 DEF StageSound
<1> QED
  BY <1>9 DEF s

LEMMA CheckedBefore ==
  ASSUME [Next]_vars, MapChecked', phase \notin {"attributes", "jumpstart", "diag"}
  PROVE  MapChecked
<1>1. ~MapNext
  BY DEF MapNext, ProcessDiagAttributes, AddJumpstartSection, AddPagetableMappings,
         AddDiagMapping, CheckMemoryMap
<1>2. CASE UNCHANGED vars
  BY <1>2 DEF vars, mapVars, MapChecked
<1> QED
  BY <1>1, <1>2, LaterSteps DEF Next, MapChecked

(* From the check on, the map of every run of the generator is sound:      *)
(* sanity_check_memory_map compares neighbours only, and that is enough for *)
(* every two mappings of a stage (public/functions.py:34).                 *)
THEOREM AcceptedMapIsSound == Spec => []AcceptedMapSound
<1> DEFINE Inv == MapInv /\ AcceptedMapSound
<1>1. Init => Inv
  BY InitMapInv DEF Init, MapInit, AcceptedMapSound, MapChecked
<1>2. Inv /\ [Next]_vars => Inv'
  <2> SUFFICES ASSUME MapInv, AcceptedMapSound, [Next]_vars PROVE AcceptedMapSound'
    BY MapInvStep
  <2>1. MapInv'
    BY MapInvStep
  <2>2. AcceptedMapSound <=>
          (MapChecked => \A stage \in EnabledSet : StageSound(memory_map[stage], stage))
    BY Zenon DEF AcceptedMapSound, StageSound
  <2>3. AcceptedMapSound' <=>
          (MapChecked' => \A stage \in EnabledSet' : StageSound(memory_map'[stage], stage))
    BY DEF AcceptedMapSound, StageSound, Apart, Within, Source, Dest, MappingSize
  <2> SUFFICES ASSUME MapChecked'
               PROVE  \A stage \in EnabledSet' : StageSound(memory_map'[stage], stage)
    BY <2>3
  <2>4. phase' \in {"tables", "sections", "assembly", "done"}
    BY DEF MapChecked
  <2>5. CASE /\ UNCHANGED <<input, diag_attributes, memory_map>>
             /\ phase \notin {"attributes", "jumpstart", "diag"}
    <3>1. phase \in {"tables", "sections", "assembly", "done"}
      BY <2>5, CheckedBefore DEF MapChecked
    <3> QED
      BY <2>2, <2>5, <3>1 DEF MapChecked, EnabledSet, Enabled
  <2>6. CASE phase = "diag" /\ phase' = "tables" /\ SanityCheckMemoryMap(SortedMap)
             /\ memory_map' = SortedMap
    <3>1. Attributed /\ Attributed'
      BY <2>6 DEF Attributed
    <3>2. EnabledSet' = EnabledSet
      BY <3>1, AttributesStay
    <3>3. \A stage \in EnabledSet : MappingList(memory_map'[stage], stage)
      BY <2>1, <3>1, <3>2 DEF MapInv, MapTyped, MappingList, MappingTyped, Dest, Source
    <3> QED
      BY <2>6, <3>2, <3>3, CheckedIsSound
  <2> QED
    BY <2>4, <2>5, <2>6, MapSteps DEF Attributed
<1> QED
  BY <1>1, <1>2, PTL DEF Spec

(* Comparing neighbours is enough, in a list of mappings that have a start *)
(* and no negative size: check_for_address_overlaps (public/functions.py:8)*)
(* misses no overlap in what it has sorted.                                *)
THEOREM NeighboursSuffice ==
  ASSUME NEW s, NEW field, NEW n \in Nat, DOMAIN s = 1..n, Len(s) = n,
         \A i \in 1..n : s[i][field] \in Int /\ MappingSize(s[i]) \in Nat,
         NeighboursApart(s, field)
  PROVE  \A i, j \in 1..n : i < j => s[i][field] + MappingSize(s[i]) <= s[j][field]
<1> SUFFICES ASSUME NEW i \in 1..n, NEW k \in 1..n, i < k,
                    ~(s[i][field] + MappingSize(s[i]) <= s[k][field])
             PROVE  FALSE
  OBVIOUS
<1> DEFINE end == s[i][field] + MappingSize(s[i])
           M == {j \in i + 1..n : ~(end <= s[j][field])}
<1>1. M \in SUBSET Nat /\ k \in M
  OBVIOUS
<1>2. PICK j \in M : \A y \in M : j <= y
  BY <1>1, LeastNatural
<1>3. j \in 1..n /\ j - 1 \in 1..n - 1 /\ j - 1 \in 1..n /\ j - 1 >= i /\ j - 1 + 1 = j
  <2>1. j \in i + 1..n
    OBVIOUS
  <2> QED
    BY <2>1
<1>4. s[j - 1][field] + MappingSize(s[j - 1]) <= s[j][field]
  <2>1. \A k0 \in 1..n - 1 : s[k0][field] + MappingSize(s[k0]) <= s[k0 + 1][field]
    BY DEF NeighboursApart
  <2>2. s[j - 1][field] + MappingSize(s[j - 1]) <= s[j - 1 + 1][field]
    BY <1>3, <2>1
  <2> QED
    BY <1>3, <2>2
<1>5. j - 1 # i => end <= s[j - 1][field]
  <2>1. j - 1 \notin M
    BY <1>2, <1>3
  <2>2. j - 1 # i => j - 1 \in i + 1..n
    BY <1>3
  <2> QED
    BY <2>1, <2>2
<1>6. ~(end <= s[j][field])
  BY <1>2
<1>7. s[j][field] \in Int
  BY <1>3
<1>8. s[j - 1][field] \in Int /\ MappingSize(s[j - 1]) \in Nat
  BY <1>3
<1>9. s[i][field] \in Int /\ MappingSize(s[i]) \in Nat
  OBVIOUS
<1>10. CASE j - 1 = i
  BY <1>4, <1>6, <1>10
<1>11. CASE j - 1 # i
  <2> DEFINE a == s[j - 1][field]
             b == MappingSize(s[j - 1])
             c == s[j][field]
  <2>1. a \in Int /\ b \in Nat /\ c \in Int /\ end \in Int
    BY <1>7, <1>8, <1>9
  <2>2. a + b <= c /\ end <= a /\ ~(end <= c)
    BY <1>4, <1>5, <1>6, <1>11
  <2> HIDE DEF a, b, c, end
  <2> QED
    BY <2>1, <2>2
<1> QED
  BY <1>10, <1>11

----------------------------------------------------------------------------
(* Entries and table pages are only ever added.                            *)

LEMMA AppendFacts ==
  ASSUME NEW S, NEW s \in Seq(S), NEW e
  PROVE  /\ Append(s, e) \in Seq(S \cup {e})
         /\ Len(s) \in Nat /\ DOMAIN s = 1..Len(s)
         /\ DOMAIN Append(s, e) = 1..Len(s) + 1 /\ Len(Append(s, e)) = Len(s) + 1
         /\ \A i \in 1..Len(s) : Append(s, e)[i] = s[i]
         /\ Append(s, e)[Len(s) + 1] = e
<1>1. s \in Seq(S \cup {e}) /\ e \in S \cup {e}
  OBVIOUS
<1> QED
  BY <1>1

TableShape(t) ==
  /\ t = [start |-> t.start, entries |-> t.entries, pages |-> t.pages, memory |-> t.memory]
  /\ \E S : t.pages \in Seq(S)
Shape ==
  /\ page_tables = [s \in DOMAIN page_tables |-> page_tables[s]]
  /\ \A s \in DOMAIN page_tables : TableShape(page_tables[s])

(* Nothing of t is lost in u.                                              *)
Grows(t, u) ==
  /\ u.start = t.start /\ u.entries = t.entries
  /\ \A i \in DOMAIN t.pages : i \in DOMAIN u.pages /\ u.pages[i] = t.pages[i]
  /\ \A a \in DOMAIN t.memory : a \in DOMAIN u.memory /\ u.memory[a] = t.memory[a]

(* What stays grows, and what grew twice grew.                             *)
LEMMA GrowsStaying ==
  ASSUME NEW t
  PROVE  Grows(t, t)
BY DEF Grows

LEMMA GrowsFurther ==
  ASSUME NEW t, NEW u, NEW v, Grows(t, u), Grows(u, v)
  PROVE  Grows(t, v)
BY DEF Grows

LEMMA WithTableGrows ==
  ASSUME NEW t, TableShape(t), NEW mode, NEW va, NEW level
  PROVE  /\ TableShape(WithTable(t, mode, va, level))
         /\ Grows(t, WithTable(t, mode, va, level))
         /\ WithTable(t, mode, va, level).memory = t.memory
<1> DEFINE range == TableRange(mode, level)
           page == [pa |-> t.start + CurrentSize(t), size |-> PagetableSize(mode, level),
                    va |-> (MaskVa(mode, va) \div range) * range, level |-> level]
           u == [t EXCEPT !.pages = Append(@, page)]
<1>1. CASE Tables(t, mode, va, level) # {}
  BY <1>1 DEF WithTable, Grows
<1>2. CASE Tables(t, mode, va, level) = {}
  <2>1. WithTable(t, mode, va, level) = u
    BY <1>2 DEF WithTable
  <2> HIDE DEF page
  <2>2. PICK S : t.pages \in Seq(S)
    BY DEF TableShape
  <2>3. u = [start |-> t.start, entries |-> t.entries, pages |-> Append(t.pages, page),
             memory |-> t.memory]
    <3>1. t = [start |-> t.start, entries |-> t.entries, pages |-> t.pages, memory |-> t.memory]
      BY DEF TableShape
    <3> DEFINE more == Append(t.pages, page)
    <3> HIDE DEF more
    <3>2. [t EXCEPT !.pages = more] =
            [start |-> t.start, entries |-> t.entries, pages |-> more, memory |-> t.memory]
      BY <3>1
    <3> QED
      BY <3>2, Zenon DEF more
  <2>4. Append(t.pages, page) \in Seq(S \cup {page})
    BY <2>2, AppendFacts
  <2>5. TableShape(u)
    BY <2>3, <2>4 DEF TableShape
  <2>6. Grows(t, u)
    BY <2>2, <2>3, AppendFacts DEF Grows
  <2> QED
    BY <2>1, <2>3, <2>5, <2>6
<1> QED
  BY <1>1, <1>2

LEMMA AllocatedGrows ==
  ASSUME NEW t, TableShape(t), NEW mode, NEW e, NEW level
  PROVE  /\ TableShape(Allocated(t, mode, e, level))
         /\ Grows(t, Allocated(t, mode, e, level))
         /\ Allocated(t, mode, e, level).memory = t.memory
<1> DEFINE here == WithTable(t, mode, e.src, level)
           next == WithTable(here, mode, e.src, level + 1)
<1>1. TableShape(here) /\ Grows(t, here) /\ here.memory = t.memory
  BY WithTableGrows
<1>2. TableShape(next) /\ Grows(here, next) /\ next.memory = here.memory
  BY <1>1, WithTableGrows
<1>3. Allocated(t, mode, e, level) = here \/ Allocated(t, mode, e, level) = next
  BY DEF Allocated
<1>4. Grows(t, next)
  BY <1>1, <1>2 DEF Grows
<1> QED
  BY <1>1, <1>2, <1>3, <1>4

LEMMA WriteGrows ==
  ASSUME NEW t, TableShape(t), NEW address, NEW pte, MayWrite(t, address, pte)
  PROVE  TableShape(Write(t, address, pte)) /\ Grows(t, Write(t, address, pte))
<1> DEFINE m == [a \in DOMAIN t.memory \cup {address} |->
                   IF a = address THEN pte ELSE t.memory[a]]
           u == [start |-> t.start, entries |-> t.entries, pages |-> t.pages, memory |-> m]
<1> HIDE DEF m
<1>1. Write(t, address, pte) = u
  BY DEF Write, TableShape, m
<1>2. \A a \in DOMAIN t.memory : a \in DOMAIN m /\ m[a] = t.memory[a]
  BY DEF MayWrite, m
<1> QED
  BY <1>1, <1>2 DEF TableShape, Grows

LEMMA WithBoundsGrows ==
  ASSUME NEW t, TableShape(t), NEW mode
  PROVE  TableShape(WithBounds(t, mode)) /\ Grows(t, WithBounds(t, mode))
<1> DEFINE m == [a \in DOMAIN t.memory \cup Bounds(t) |->
                   IF a \in DOMAIN t.memory THEN t.memory[a] ELSE ZeroPte(mode)]
           u == [start |-> t.start, entries |-> t.entries, pages |-> t.pages, memory |-> m]
<1> HIDE DEF m
<1>1. WithBounds(t, mode) = u
  BY DEF WithBounds, TableShape, m
<1>2. \A a \in DOMAIN t.memory : a \in DOMAIN m /\ m[a] = t.memory[a]
  BY DEF m
<1> QED
  BY <1>1, <1>2 DEF TableShape, Grows

(* What a step does to the tables: it leaves them, begins a stage or       *)
(* changes one stage's.                                                    *)
LEMMA TableSteps ==
  ASSUME [Next]_vars
  PROVE  \/ UNCHANGED page_tables
         \/ BeginStage
         \/ WriteEntry /\ EntryAllowed(page_tables[Building], Mode(Building),
                                       page_tables[Building].entries[at])
                       /\ page_tables' # page_tables
         \/ FinishStage /\ page_tables[Building].pages # <<>>
<1>1. CASE UNCHANGED vars
  BY <1>1 DEF vars, tableVars
<1>2. CASE MapNext /\ UNCHANGED <<tableVars, sections, assembly>>
  BY <1>2 DEF tableVars
<1>3. CASE TablesNext /\ UNCHANGED <<sections, assembly>>
  <2>1. CASE SkipBareStage
    BY <2>1 DEF SkipBareStage
  <2>2. CASE BeginStage
    BY <2>2
  <2>3. CASE WriteEntry
    BY <2>3 DEF WriteEntry, RejectTables, tableVars
  <2>4. CASE FinishStage
    BY <2>4 DEF FinishStage, RejectTables, tableVars
  <2>5. CASE FinishTables
    BY <2>5 DEF FinishTables, tableVars
  <2> QED
    BY <1>3, <2>1, <2>2, <2>3, <2>4, <2>5 DEF TablesNext
<1>4. CASE SectionsNext /\ UNCHANGED <<tableVars, assembly>>
  BY <1>4 DEF tableVars
<1>5. CASE GenerateAssembly /\ UNCHANGED <<tableVars, sections>>
  BY <1>5 DEF tableVars
<1>6. CASE Ended /\ UNCHANGED vars
  BY <1>6 DEF vars, tableVars
<1> QED
  BY <1>1, <1>2, <1>3, <1>4, <1>5, <1>6 DEF Next

(* An entry is written into the tables allocated for it.                   *)
LEMMA WriteStep ==
  ASSUME WriteEntry, page_tables' # page_tables
  PROVE  \E address, pte :
           LET mode == Mode(Building)
               e == page_tables[Building].entries[at]
               t == Allocated(page_tables[Building], mode, e, current_level)
           IN /\ Building \in DOMAIN page_tables
              /\ InRange(t, mode, e, current_level)
              /\ address = PteAddress(t, mode, e.src, current_level)
              /\ pte = EntryFor(t, mode, e, current_level) /\ MayWrite(t, address, pte)
              /\ page_tables' = [page_tables EXCEPT ![Building] = Write(t, address, pte)]
<1> DEFINE mode == Mode(Building)
           e == page_tables[Building].entries[at]
           t == Allocated(page_tables[Building], mode, e, current_level)
<1>1. EntryAllowed(page_tables[Building], mode, e)
  BY DEF WriteEntry, RejectTables, tableVars
<1>2. page_tables' = [page_tables EXCEPT ![Building] =
          Write(t, PteAddress(t, mode, e.src, current_level),
                EntryFor(t, mode, e, current_level))]
  BY DEF WriteEntry, RejectTables, tableVars
<1>3. /\ InRange(t, mode, e, current_level)
      /\ MayWrite(t, PteAddress(t, mode, e.src, current_level),
                  EntryFor(t, mode, e, current_level))
  BY <1>1 DEF EntryAllowed
<1>4. Building \in DOMAIN page_tables
  BY DEF WriteEntry
<1> QED
  BY <1>2, <1>3, <1>4

LEMMA ShapeStep ==
  ASSUME Shape, [Next]_vars
  PROVE  Shape' /\ \A s \in DOMAIN page_tables :
                     s \in DOMAIN page_tables' /\ Grows(page_tables[s], page_tables'[s])
<1> USE DEF Shape
<1>1. CASE UNCHANGED page_tables
  BY <1>1 DEF Grows
<1>2. CASE BeginStage
  <2> DEFINE t == [start |-> Dest(RegionOf(Building)), entries |-> Entries(Building),
                   pages |-> <<>>, memory |-> <<>>]
  <2>1. /\ page_tables' = [s \in DOMAIN page_tables \cup {Building} |->
                             IF s = Building THEN t ELSE page_tables[s]]
        /\ Building \notin DOMAIN page_tables
    BY <1>2 DEF BeginStage
  <2>2. TableShape(t)
    <3>1. <<>> \in Seq({})
      OBVIOUS
    <3> QED
      BY <3>1 DEF TableShape
  <2> HIDE DEF t
  <2> QED
    BY <2>1, <2>2 DEF Grows
<1>3. CASE WriteEntry /\ page_tables' # page_tables
  <2> DEFINE t == Allocated(page_tables[Building], Mode(Building),
                            page_tables[Building].entries[at], current_level)
  <2>1. PICK address, pte :
          /\ Building \in DOMAIN page_tables
          /\ MayWrite(t, address, pte)
          /\ page_tables' = [page_tables EXCEPT ![Building] = Write(t, address, pte)]
    BY <1>3, WriteStep
  <2>2. TableShape(t) /\ Grows(page_tables[Building], t)
    BY <2>1, AllocatedGrows
  <2> HIDE DEF t
  <2>3. TableShape(Write(t, address, pte)) /\ Grows(t, Write(t, address, pte))
    BY <2>1, <2>2, WriteGrows
  <2>4. Grows(page_tables[Building], Write(t, address, pte))
    BY <2>2, <2>3, GrowsFurther
  <2>5. \A s \in DOMAIN page_tables : Grows(page_tables[s], page_tables[s])
    BY GrowsStaying
  <2>6. PICK u : u = Write(t, address, pte)
    OBVIOUS
  <2>7. page_tables' = [page_tables EXCEPT ![Building] = u]
    BY <2>1, <2>6
  <2>8. TableShape(u) /\ Grows(page_tables[Building], u)
    BY <2>3, <2>4, <2>6
  <2> QED
    BY <2>1, <2>5, <2>7, <2>8
<1>4. CASE FinishStage /\ page_tables[Building].pages # <<>>
  <2> DEFINE u == WithBounds(page_tables[Building], Mode(Building))
  <2>1. /\ page_tables' = [page_tables EXCEPT ![Building] = u]
        /\ Building \in DOMAIN page_tables
    BY <1>4 DEF FinishStage, RejectTables
  <2>2. TableShape(u) /\ Grows(page_tables[Building], u)
    BY <2>1, WithBoundsGrows
  <2> HIDE DEF u
  <2> QED
    BY <2>1, <2>2 DEF Grows
<1> QED
  BY <1>1, <1>2, <1>3, <1>4, TableSteps

LEMMA InitShape == Init => Shape
<1>1. <<>> = [s \in DOMAIN <<>> |-> <<>>[s]] /\ DOMAIN <<>> = {}
  OBVIOUS
<1> QED
  BY <1>1 DEF Init, TablesInit, Shape

(* Whatever the mappings, an entry of a page table is never rewritten and  *)
(* a table page never moved (write_sparse_memory, page_tables.py:451).     *)
THEOREM EntriesAreFinal == Spec => PteNeverChanges
<1>1. Shape /\ [Next]_vars => [EntriesKept]_vars
  BY ShapeStep DEF EntriesKept, Grows
<1>2. Shape /\ [Next]_vars => Shape'
  BY ShapeStep
<1> QED
  BY <1>1, <1>2, InitShape, PTL DEF Spec, PteNeverChanges

----------------------------------------------------------------------------
(* Where the loop over the levels of a page is.                            *)

Entry == page_tables[Building].entries[at]

(* Attributes that have been processed are valid, and stay as they are     *)
(* while there are page tables; the loop never goes below the leaf.        *)
ModesValid ==
  Attributed => \A i \in DOMAIN Enabled : Mode(Enabled[i]) \in ValidModes(Enabled[i])
NoTablesYet == phase = "attributes" => DOMAIN page_tables = {}
ModesKnown == \A s \in DOMAIN page_tables : Mode(s) \in DOMAIN Levels
LevelRight ==
  /\ stage_id \in Nat \ {0} /\ current_level \in 0..3
  /\ phase \in {"attributes", "jumpstart", "diag"} => stage_id = 1
  /\ phase = "tables" => stage_id <= Len(Enabled) + 1
  /\ current_level # 0 /\ phase # "rejected" =>
       /\ StageLeft /\ Building \in DOMAIN page_tables
       /\ EntriesLeft
       /\ SizeSupported(Mode(Building), Entry)
       /\ current_level <= LeafLevel(Mode(Building), Entry)

LoopInv == Shape /\ ModesValid /\ NoTablesYet /\ ModesKnown /\ LevelRight

LEMMA InitLoopInv == Init => LoopInv
<1>1. Init => ModesValid /\ NoTablesYet /\ ModesKnown /\ LevelRight
  <2>1. DOMAIN <<>> = {}
    OBVIOUS
  <2> QED
    BY <2>1 DEF Init, MapInit, TablesInit, ModesValid, NoTablesYet, ModesKnown, LevelRight,
                Attributed
<1> QED
  BY <1>1, InitShape DEF LoopInv

LEMMA LeafLevelFacts ==
  ASSUME NEW mode \in DOMAIN Levels, NEW e, SizeSupported(mode, e)
  PROVE  LeafLevel(mode, e) \in 0..Levels[mode] - 1 /\ Levels[mode] \in {3, 4}
<1>1. Levels[mode] \in {3, 4}
  BY DEF Levels
<1>2. DOMAIN PageSizes(mode) = 0..Levels[mode] - 1
  BY DEF PageSizes
<1> QED
  BY <1>1, <1>2 DEF SizeSupported, LeafLevel

(* The steps before the tables leave everything about them alone.          *)
LEMMA MapStepLoopInv ==
  ASSUME LoopInv, MapNext, UNCHANGED tableVars
  PROVE  LoopInv'
<1> USE DEF LoopInv
<1>1. Shape'
  BY DEF Shape, tableVars
<1>2. CASE ProcessDiagAttributes
  <2>1. phase = "attributes" /\ phase' \in {"jumpstart", "rejected"}
    BY <1>2 DEF ProcessDiagAttributes, Reject, Advance
  <2>2. current_level = 0
    BY <2>1 DEF LevelRight, StageLeft
  <2>3. LevelRight' /\ NoTablesYet' /\ ModesKnown'
    BY <2>1, <2>2 DEF LevelRight, NoTablesYet, ModesKnown, tableVars
  <2>4. phase' = "jumpstart" => ModesValid'
    <3>1. phase' = "jumpstart" =>
            AttributesValid(MergedAttributes) /\ diag_attributes' = MergedAttributes
      BY <1>2 DEF ProcessDiagAttributes, Reject
    <3> QED
      BY <3>1 DEF AttributesValid, ModesValid, Enabled, Mode
  <2> QED
    BY <1>1, <2>1, <2>3, <2>4 DEF ModesValid, Attributed
<1>3. CASE AddJumpstartSection \/ AddPagetableMappings \/ AddDiagMapping \/ CheckMemoryMap
  <2>1. /\ phase \in {"jumpstart", "diag"}
        /\ phase' \in {"jumpstart", "diag", "tables", "rejected"}
        /\ diag_attributes' = diag_attributes
    BY <1>3 DEF AddJumpstartSection, AddPagetableMappings, AddDiagMapping, CheckMemoryMap,
                Reject, Advance
  <2>2. current_level = 0
    BY <2>1 DEF LevelRight, StageLeft
  <2>3. LevelRight' /\ NoTablesYet'
    <3>1. stage_id' = 1 /\ 1 <= Len(Enabled)' + 1
      BY <2>1, EnabledFacts DEF LevelRight, tableVars, Enabled
    <3> QED
      BY <2>1, <2>2, <3>1 DEF LevelRight, NoTablesYet, tableVars
  <2>4. ModesKnown' /\ ModesValid'
    BY <2>1 DEF ModesKnown, ModesValid, Attributed, Mode, Enabled, tableVars
  <2> QED
    BY <1>1, <2>3, <2>4
<1> QED
  BY <1>2, <1>3 DEF MapNext

LEMMA TablesStepLoopInv ==
  ASSUME LoopInv, TablesNext, UNCHANGED <<sections, assembly>>
  PROVE  LoopInv'
<1> USE DEF LoopInv
<1>1. /\ phase = "tables" /\ phase' \in {"tables", "sections", "rejected"}
      /\ diag_attributes' = diag_attributes
  BY DEF TablesNext, SkipBareStage, BeginStage, WriteEntry, FinishStage, FinishTables,
         RejectTables, Reject, Advance, StageLeft, mapVars
<1>2. Shape' /\ \A s \in DOMAIN page_tables :
                   s \in DOMAIN page_tables' /\ Grows(page_tables[s], page_tables'[s])
  BY ShapeStep DEF Next
<1>3. Shape' /\ ModesValid' /\ NoTablesYet'
  BY <1>1, <1>2 DEF ModesValid, NoTablesYet, Attributed, Mode, Enabled
<1>4. StageLeft => /\ Building \in {Enabled[i] : i \in DOMAIN Enabled}
                   /\ Mode(Building) # "bare" => Mode(Building) \in DOMAIN Levels
  BY <1>1, EnabledFacts DEF StageLeft, Building, LevelRight, ModesValid, Attributed
<1>5. CASE phase' = "rejected" /\ UNCHANGED tableVars
  BY <1>1, <1>3, <1>5 DEF ModesKnown, LevelRight, Mode, tableVars
<1>6. CASE SkipBareStage
  <2>1. current_level = 0
    BY <1>1, <1>6 DEF SkipBareStage, LevelRight, ModesKnown, Levels
  <2>2. stage_id' \in Nat \ {0} /\ stage_id' <= Len(Enabled)' + 1
    BY <1>1, <1>6, EnabledFacts DEF SkipBareStage, LevelRight, StageLeft, Enabled, mapVars
  <2> QED
    BY <1>1, <1>3, <1>6, <2>1, <2>2 DEF SkipBareStage, ModesKnown, LevelRight, Mode, mapVars
<1>7. CASE BeginStage
  <2>1. current_level = 0 /\ UNCHANGED <<stage_id, current_level>>
    BY <1>1, <1>7 DEF BeginStage, LevelRight
  <2>2. /\ DOMAIN page_tables' = DOMAIN page_tables \cup {Building}
        /\ Mode(Building) \in DOMAIN Levels
    BY <1>4, <1>7 DEF BeginStage
  <2>3. ModesKnown'
    BY <1>1, <2>2 DEF ModesKnown, Mode
  <2> QED
    BY <1>1, <1>3, <1>7, <2>1, <2>3 DEF LevelRight, BeginStage, Enabled, mapVars
<1>8. CASE WriteEntry /\ ~(phase' = "rejected" /\ UNCHANGED tableVars)
  <2> DEFINE mode == Mode(Building)
             e == Entry
  <2>1. /\ StageLeft /\ Building \in DOMAIN page_tables
        /\ EntryAllowed(page_tables[Building], mode, e)
        /\ EntriesLeft
        /\ IF current_level < LeafLevel(mode, e)
           THEN current_level' = current_level + 1 /\ at' = at
           ELSE current_level' = 0
        /\ UNCHANGED <<phase, stage_id, diag_attributes>>
    BY <1>8 DEF WriteEntry, RejectTables, Reject, Entry
  <2>2. \E u : page_tables' = [page_tables EXCEPT ![Building] = u]
    BY <1>8 DEF WriteEntry, RejectTables, Reject
  <2>3. page_tables'[Building].entries = page_tables[Building].entries
    BY <1>2, <2>1 DEF Grows
  <2>4. ModesKnown'
    BY <1>1, <2>2 DEF ModesKnown, Mode
  <2>5. SizeSupported(mode, e) /\ mode \in DOMAIN Levels
    BY <2>1 DEF EntryAllowed, ModesKnown
  <2>6. LeafLevel(mode, e) \in 0..Levels[mode] - 1 /\ Levels[mode] \in {3, 4}
    BY <2>5, LeafLevelFacts
  <2>7. Building' = Building /\ mode' = mode /\ StageLeft'
    BY <2>1 DEF Building, StageLeft, Mode, Enabled
  <2>8. current_level' # 0 => e' = e /\ at' = at /\ current_level' <= LeafLevel(mode, e)
    BY <2>1, <2>3, <2>6, <2>7 DEF Entry, LevelRight
  <2>9. /\ current_level' \in 0..3 /\ stage_id' \in Nat \ {0}
        /\ stage_id' <= Len(Enabled)' + 1
    BY <1>1, <2>1, <2>6 DEF LevelRight, Enabled
  <2>10. Building \in DOMAIN page_tables'
    BY <2>1, <2>2
  <2>11. current_level' # 0 => SizeSupported(mode, e)' /\ LeafLevel(mode, e)' = LeafLevel(mode, e)
    BY <2>5, <2>7, <2>8
  <2>12. current_level' # 0 => EntriesLeft'
    BY <2>1, <2>3, <2>7, <2>8 DEF EntriesLeft
  <2>13. Building' \in DOMAIN page_tables'
    BY <2>7, <2>10
  <2>14. current_level' # 0 => /\ SizeSupported(Mode(Building), Entry)'
                               /\ current_level' <= LeafLevel(Mode(Building), Entry)'
    BY <2>8, <2>11
  <2>15. LevelRight'
    BY <1>1, <2>1, <2>7, <2>9, <2>12, <2>13, <2>14 DEF LevelRight
  <2> QED
    BY <1>3, <2>4, <2>15
<1>9. CASE FinishStage /\ ~(phase' = "rejected" /\ UNCHANGED tableVars)
  <2>1. /\ current_level = 0 /\ current_level' = 0 /\ stage_id' = stage_id + 1
        /\ \E u : page_tables' = [page_tables EXCEPT ![Building] = u]
    <3>1. ~EntriesLeft
      BY <1>9 DEF FinishStage
    <3>2. current_level = 0
      BY <1>1, <3>1 DEF LevelRight
    <3> QED
      BY <1>9, <3>2 DEF FinishStage, RejectTables, Reject
  <2>2. stage_id' \in Nat \ {0} /\ stage_id' <= Len(Enabled)' + 1
    BY <1>1, <1>9, <2>1, EnabledFacts DEF FinishStage, LevelRight, StageLeft, Enabled
  <2> QED
    BY <1>1, <1>3, <1>9, <2>1, <2>2 DEF ModesKnown, LevelRight, Mode, FinishStage
<1>10. CASE FinishTables
  <2>1. current_level = 0
    BY <1>10 DEF FinishTables, LevelRight, StageLeft
  <2> QED
    BY <1>1, <1>3, <1>10, <2>1 DEF FinishTables, ModesKnown, LevelRight, Mode, Advance, tableVars
<1> QED
  BY <1>5, <1>6, <1>7, <1>8, <1>9, <1>10 DEF TablesNext

LEMMA OtherStepsLoopInv ==
  ASSUME LoopInv, SectionsNext \/ GenerateAssembly, UNCHANGED tableVars
  PROVE  LoopInv'
<1>1. /\ phase \in {"sections", "assembly"} /\ phase' \in {"sections", "assembly", "done", "rejected"}
      /\ diag_attributes' = diag_attributes
  BY DEF SectionsNext, CollectSection, FinishLinkerScript, RejectSections, GenerateAssembly,
         Reject, Advance
<1>2. current_level = 0
  BY <1>1 DEF LoopInv, LevelRight, StageLeft
<1> QED
  BY <1>1, <1>2 DEF LoopInv, Shape, ModesValid, NoTablesYet, ModesKnown, LevelRight,
                    Attributed, Mode, Enabled, tableVars

LEMMA LoopInvStep ==
  ASSUME LoopInv, [Next]_vars
  PROVE  LoopInv'
<1>1. CASE UNCHANGED vars
  BY <1>1 DEF vars, mapVars, tableVars, LoopInv, Shape, ModesValid, NoTablesYet, ModesKnown,
              LevelRight, Attributed, Mode, Enabled, Building, Entry, StageLeft, EntriesLeft,
              SizeSupported, LeafLevel, PageSizes
<1> QED
  BY <1>1, MapStepLoopInv, TablesStepLoopInv, OtherStepsLoopInv DEF Next

----------------------------------------------------------------------------
(* The region of the tables and the pages they map.                        *)

(* Some mapping of the list is the region for the tables of the stage.     *)
IsRegion(m, stage) ==
  LET names == m.linker_script_section
  IN names # None /\ Contains(names, TableSection(stage)[1])
HasRegion(s, stage) == \E i \in DOMAIN s : IsRegion(s[i], stage)
RegionInv ==
  phase = "diag" \/ MapChecked =>
    \A stage \in EnabledSet : Mode(stage) # "bare" => HasRegion(memory_map[stage], stage)

LEMMA RegionFacts ==
  ASSUME NEW stage, MappingList(memory_map[stage], stage), HasRegion(memory_map[stage], stage)
  PROVE  /\ Dest(RegionOf(stage)) \in Int /\ IsRegion(RegionOf(stage), stage)
         /\ \E i \in DOMAIN memory_map[stage] : RegionOf(stage) = memory_map[stage][i]
<1> DEFINE s == memory_map[stage]
           I == RegionsOf(stage)
<1>1. I = {i \in DOMAIN s : IsRegion(s[i], stage)}
  BY DEF RegionsOf, IsRegion
<1>2. DOMAIN s = 1..Len(s) /\ Len(s) \in Nat /\ \A i \in DOMAIN s : MappingTyped(s[i], stage)
  BY ListFacts
<1>3. I \in SUBSET Nat /\ I # {}
  BY <1>1, <1>2 DEF HasRegion
<1>4. \E i \in I : \A j \in I : i <= j
  BY <1>3, LeastNatural
<1>5. (CHOOSE i \in I : \A j \in I : i <= j) \in I
  BY <1>4
<1>6. RegionOf(stage) = s[CHOOSE i \in I : \A j \in I : i <= j]
  BY Zenon DEF RegionOf
<1>7. PICK i \in I : RegionOf(stage) = s[i]
  BY <1>5, <1>6
<1>8. i \in DOMAIN s /\ IsRegion(s[i], stage)
  BY <1>1
<1> QED
  BY <1>2, <1>7, <1>8 DEF MappingTyped

(* AddPagetableMappings puts the region in the map.                        *)
LEMMA RegionAdded ==
  ASSUME PagetablesPlaceable, MaxNumCpus \in Int, NEW stage \in EnabledSet, Mode(stage) # "bare",
         NEW s, MappingList(s, stage)
  PROVE  HasRegion(s \o TableMappings(stage), stage)
<1>1. PICK m : TablesOf(stage) = <<m>> /\ m.linker_script_section = TableSection(stage)
  BY OwnTables, TranslatedStages
<1>2. IsRegion(m, stage)
  <2>1. TableSection(stage) # None
    BY TableSectionAssumption, EnabledStagesKnown
  <2>2. Contains(TableSection(stage), TableSection(stage)[1])
    BY DEF Contains, TableSection
  <2> QED
    BY <1>1, <2>1, <2>2 DEF IsRegion
<1>3. PICK t : t = TableMappings(stage)
  OBVIOUS
<1>4. 1 \in DOMAIN t /\ t[1] = m
  <2>1. ASSUME NEW rest, t = <<m>> \o rest, Len(rest) \in Nat
        PROVE  1 \in DOMAIN t /\ t[1] = m
    BY <2>1
  <2>2. CASE stage = "g"
    <3>1. PICK rest : rest = <<VsTablesInG(TablesOf("vs")[1])>>
      OBVIOUS
    <3>2. t = <<m>> \o rest /\ Len(rest) \in Nat
      BY <1>1, <1>3, <2>2, <3>1 DEF TableMappings
    <3> QED
      BY <2>1, <3>2
  <2>3. CASE stage = "hs"
    <3>1. PICK rest : rest = <<GTablesInHs(TablesOf("g")[1]), VsTablesInHs(TablesOf("vs")[1])>>
      OBVIOUS
    <3>2. t = <<m>> \o rest /\ Len(rest) \in Nat
      BY <1>1, <1>3, <2>3, <3>1 DEF TableMappings
    <3> QED
      BY <2>1, <3>2
  <2>4. CASE stage \notin {"g", "hs"}
    <3>1. PICK rest : rest = <<>>
      OBVIOUS
    <3>2. t = <<m>> \o rest /\ Len(rest) \in Nat
      BY <1>1, <1>3, <2>4, <3>1 DEF TableMappings
    <3> QED
      BY <2>1, <3>2
  <2> QED
    BY <2>2, <2>3, <2>4
<1>5. MappingList(t, stage)
  BY <1>3, TablesAreTyped
<1>6. PICK S, T : s \in Seq(S) /\ t \in Seq(T)
  BY <1>5 DEF MappingList
<1>7. Len(s) + 1 \in DOMAIN (s \o t) /\ (s \o t)[Len(s) + 1] = t[1]
  <2>1. s \in Seq(S \cup T) /\ t \in Seq(S \cup T)
    BY <1>6
  <2>2. DOMAIN t = 1..Len(t) /\ Len(t) \in Nat /\ Len(s) \in Nat
    BY <2>1
  <2> QED
    BY <1>4, <2>1, <2>2
<1> QED
  BY <1>2, <1>3, <1>4, <1>7 DEF HasRegion

LEMMA RegionStep ==
  ASSUME MapInv, RegionInv, [Next]_vars
  PROVE  RegionInv'
<1> USE DEF RegionInv
<1> SUFFICES ASSUME phase' = "diag" \/ MapChecked', NEW stage \in EnabledSet', Mode(stage)' # "bare"
             PROVE  HasRegion(memory_map'[stage], stage)
  BY DEF HasRegion, IsRegion, TableSection
<1>1. CASE phase \in {"attributes", "rejected"}
  <2>1. ~MapChecked /\ (phase = "rejected" => phase' = phase)
    BY <1>1, LaterSteps DEF MapChecked, Next, MapNext, ProcessDiagAttributes, AddJumpstartSection,
       AddPagetableMappings, AddDiagMapping, CheckMemoryMap, vars, mapVars
  <2> QED
    BY <1>1, <2>1, MapSteps DEF MapChecked
<1>2. CASE phase \notin {"attributes", "rejected"}
  <2>1. /\ Attributed /\ EnabledSet' = EnabledSet /\ Mode(stage)' = Mode(stage)
        /\ MaxNumCpus \in Int
    BY <1>2, AttributesStay, CpusCountedMeans DEF Attributed, MapInv
  <2>2. /\ memory_map = [x \in EnabledSet |-> memory_map[x]]
        /\ MappingList(memory_map[stage], stage)
    BY <2>1 DEF MapInv, MapTyped
  <2>3. CASE phase = "jumpstart" /\ PagetablesPlaceable
             /\ memory_map' = [x \in EnabledSet |-> memory_map[x] \o TableMappings(x)]
    BY <2>1, <2>2, <2>3, RegionAdded
  <2>4. ASSUME phase = "diag" \/ MapChecked
        PROVE  HasRegion(memory_map[stage], stage)
    BY <2>1, <2>4
  <2>5. CASE UNCHANGED memory_map /\ ~(phase = "jumpstart" /\ phase' = "diag")
    <3>1. phase = "diag" \/ MapChecked
      BY <1>2, <2>5, CheckedBefore, MapSteps DEF MapChecked
    <3> QED
      BY <2>4, <2>5, <3>1
  <2>6. CASE phase = "diag" /\ \E m, x : memory_map' = [memory_map EXCEPT ![x] = Append(@, m)]
    <3>1. PICK m, x : memory_map' = [memory_map EXCEPT ![x] = Append(@, m)]
      BY <2>6
    <3>2. HasRegion(memory_map[stage], stage)
      BY <2>4, <2>6
    <3>3. PICK S : memory_map[stage] \in Seq(S)
      BY <2>2 DEF MappingList
    <3>4. memory_map'[stage] = memory_map[stage] \/ memory_map'[stage] = Append(memory_map[stage], m)
      BY <2>1, <2>2, <3>1
    <3> QED
      BY <3>2, <3>3, <3>4, AppendFacts DEF HasRegion
  <2>7. CASE phase = "diag" /\ memory_map' = SortedMap
    <3> DEFINE s == memory_map[stage]
               t == SortedBy(s, TranslatesTo[stage])
    <3>1. memory_map'[stage] = t /\ stage \in Stage
      BY <2>1, <2>7, EnabledStagesKnown DEF SortedMap
    <3>2. {t[i] : i \in DOMAIN t} = {s[i] : i \in DOMAIN s}
      <4>1. SameMappings(s, t)
        BY <2>2, <3>1, SortingKeeps
      <4> QED
        BY <4>1 DEF SameMappings
    <3>3. PICK i \in DOMAIN s : IsRegion(s[i], stage)
      BY <2>4, <2>7 DEF HasRegion
    <3> HIDE DEF s, t
    <3>4. \E j \in DOMAIN t : t[j] = s[i]
      BY <3>2
    <3> QED
      BY <3>1, <3>3, <3>4 DEF HasRegion
  <2>8. CASE phase = "jumpstart" /\ phase' = phase
    BY <2>8 DEF MapChecked
  <2> QED
    BY <1>2, <2>3, <2>5, <2>6, <2>7, <2>8, MapSteps DEF MapChecked, Attributed
<1> QED
  BY <1>1, <1>2

(* One page of a mapping, as the loop over the levels takes it.            *)
Page == [src : Int, dst : Int, page_size : Nat, xwr : 0..7, umode : {0, 1, None}, valid : 0..1]

(* A mapping of no pages, or of fewer, has no entry.                       *)
LEMMA EntriesAreTyped ==
  ASSUME NEW stage, MappingList(memory_map[stage], stage)
  PROVE  Entries(stage) \in Seq(Page)
<1> DEFINE map == memory_map[stage]
           part(m) == IF IsBareMapping(m) THEN <<>> ELSE PagesOfMapping(m)
           parts == [i \in DOMAIN map |-> part(map[i])]
<1>1. DOMAIN map = 1..Len(map) /\ Len(map) \in Nat /\ \A i \in DOMAIN map : MappingTyped(map[i], stage)
  BY ListFacts
<1>2. ASSUME NEW m, MappingTyped(m, stage) PROVE part(m) \in Seq(Page)
  <2>1. CASE IsBareMapping(m)
    BY <2>1
  <2>2. CASE ~IsBareMapping(m)
    <3>1. /\ Dest(m) \in Int /\ Source(m) \in Int /\ m.page_size \in Nat /\ m.num_pages \in Int
          /\ m.xwr \in 0..7 /\ m.umode \in {0, 1, None} /\ m.valid \in 0..1
      BY <1>2, <2>2, NoneAssumption DEF MappingTyped, IsBareMapping
    <3> DEFINE p == PagesOfMapping(m)
    <3>2. DOMAIN p = 1..m.num_pages
      BY DEF PagesOfMapping
    <3>3. \A n \in 1..m.num_pages : p[n] \in Page
      <4> SUFFICES ASSUME NEW n \in 1..m.num_pages PROVE p[n] \in Page
        OBVIOUS
      <4>1. n \in Int /\ n - 1 \in Int
        BY <3>1
      <4>2. (n - 1) * m.page_size \in Int
        BY <3>1, <4>1
      <4>3. p[n] = [src |-> Source(m) + (n - 1) * m.page_size,
                    dst |-> Dest(m) + (n - 1) * m.page_size,
                    page_size |-> m.page_size, xwr |-> m.xwr, umode |-> m.umode,
                    valid |-> m.valid]
        BY Zenon DEF PagesOfMapping
      <4>4. Source(m) + (n - 1) * m.page_size \in Int /\ Dest(m) + (n - 1) * m.page_size \in Int
        BY <3>1, <4>2
      <4> QED
        BY <3>1, <4>3, <4>4 DEF Page
    <3>4. \E k \in Nat : 1..m.num_pages = 1..k
      <4>1. CASE m.num_pages \in Nat
        BY <4>1
      <4>2. CASE m.num_pages \notin Nat
        <5>1. 1..m.num_pages = 1..0
          BY <3>1, <4>2
        <5> QED
          BY <5>1
      <4> QED
        BY <4>1, <4>2
    <3>5. PICK k \in Nat : 1..m.num_pages = 1..k
      BY <3>4
    <3>6. p = [n \in 1..m.num_pages |-> p[n]]
      BY DEF PagesOfMapping
    <3> HIDE DEF p
    <3>7. p \in [1..k -> Page]
      <4>1. p = [n \in 1..k |-> p[n]]
        BY <3>5, <3>6, Zenon
      <4>2. \A n \in 1..k : p[n] \in Page
        BY <3>3, <3>5, Zenon
      <4> QED
        BY <4>1, <4>2, Zenon
    <3>8. p \in Seq(Page)
      BY <3>7
    <3> QED
      BY <2>2, <3>8 DEF p
  <2> QED
    BY <2>1, <2>2
<1>3. Entries(stage) = FlattenSeq(parts)
  BY Zenon DEF Entries
<1> HIDE DEF part
<1>4. \A i \in 1..Len(map) : parts[i] \in Seq(Page)
  BY <1>1, <1>2
<1>5. DOMAIN parts = 1..Len(map) /\ parts = [i \in 1..Len(map) |-> parts[i]]
  BY <1>1
<1> HIDE DEF map, parts
<1>6. parts \in Seq(Seq(Page)) /\ Len(parts) \in Nat
  BY <1>1, <1>4, <1>5
<1> QED
  BY <1>3, <1>6, FlattenType

(* What BeginStage leaves: tables of a stage that is translated, with a    *)
(* place to start at and the pages to map.                                 *)
Begun(t) == t.start \in Int /\ t.entries \in Seq(Page)
BegunInv ==
  \A s \in DOMAIN page_tables : s \in EnabledSet /\ Mode(s) # "bare" /\ Begun(page_tables[s])

(* The attributes do not change once there are tables.                     *)
LEMMA AttributesFixed ==
  ASSUME LoopInv, [Next]_vars, DOMAIN page_tables # {}
  PROVE  diag_attributes' = diag_attributes /\ TableRegionSize' = TableRegionSize
<1>1. diag_attributes' = diag_attributes
  <2>1. Attributed \/ phase = "rejected"
    BY DEF LoopInv, NoTablesYet, Attributed
  <2> QED
    BY <2>1, AttributesStay, MapSteps
<1> QED
  BY <1>1 DEF TableRegionSize

LEMMA BegunStep ==
  ASSUME MapInv, RegionInv, LoopInv, BegunInv, [Next]_vars
  PROVE  BegunInv'
<1>1. \A s \in DOMAIN page_tables : s \in DOMAIN page_tables' /\ Grows(page_tables[s], page_tables'[s])
  BY ShapeStep DEF LoopInv
<1> SUFFICES ASSUME NEW s \in DOMAIN page_tables'
             PROVE  s \in EnabledSet' /\ Mode(s)' # "bare" /\ Begun(page_tables'[s])
  BY DEF BegunInv, Begun
<1>2. CASE s \in DOMAIN page_tables
  <2>1. diag_attributes' = diag_attributes
    BY <1>2, AttributesFixed
  <2>2. Grows(page_tables[s], page_tables'[s])
    BY <1>1, <1>2
  <2> QED
    BY <1>2, <2>1, <2>2 DEF BegunInv, Begun, Grows, EnabledSet, Enabled, Mode
<1>3. CASE s \notin DOMAIN page_tables
  <2>1. BeginStage
    <3>1. CASE WriteEntry /\ page_tables' # page_tables
      <4>1. PICK u : page_tables' = [page_tables EXCEPT ![Building] = u]
        BY <3>1, WriteStep
      <4> QED
        BY <1>3, <4>1
    <3>2. CASE FinishStage /\ page_tables[Building].pages # <<>>
      <4>1. PICK u : page_tables' = [page_tables EXCEPT ![Building] = u]
        BY <3>2 DEF FinishStage, RejectTables
      <4> QED
        BY <1>3, <4>1
    <3> QED
      BY <1>3, <3>1, <3>2, TableSteps
  <2> DEFINE t == [start |-> Dest(RegionOf(Building)), entries |-> Entries(Building),
                   pages |-> <<>>, memory |-> <<>>]
  <2>2. /\ page_tables' = [x \in DOMAIN page_tables \cup {Building} |->
                             IF x = Building THEN t ELSE page_tables[x]]
        /\ StageLeft /\ Mode(Building) # "bare" /\ diag_attributes' = diag_attributes
    BY <2>1 DEF BeginStage, mapVars
  <2>3. Building \in EnabledSet /\ phase = "tables"
    <3>1. stage_id \in 1..Len(Enabled)
      BY <2>2, EnabledFacts DEF StageLeft, LoopInv, LevelRight
    <3> QED
      BY <2>2, <3>1, EnabledFacts DEF Building, EnabledSet, StageLeft
  <2>4. MappingList(memory_map[Building], Building) /\ HasRegion(memory_map[Building], Building)
    BY <2>2, <2>3 DEF MapInv, MapTyped, RegionInv, Attributed, MapChecked
  <2>5. Begun(t)
    BY <2>4, RegionFacts, EntriesAreTyped DEF Begun
  <2> HIDE DEF t
  <2>6. s = Building /\ page_tables'[s] = t
    BY <1>3, <2>2
  <2> QED
    BY <2>2, <2>3, <2>5, <2>6 DEF EnabledSet, Enabled, Mode
<1> QED
  BY <1>2, <1>3

----------------------------------------------------------------------------
(* Arithmetic of one level                                                 *)

LEMMA DivFloor ==
  ASSUME NEW x \in Int, NEW r \in Nat \ {0}
  PROVE  /\ (x \div r) * r <= x /\ x < (x \div r) * r + r
         /\ (x \div r) * r \in Int /\ x \div r \in Int /\ x % r \in Nat
OBVIOUS

(* The bits of a VPN and the addresses it ranges over are never negative.  *)
LEMMA VpnFacts ==
  ASSUME NEW mode \in DOMAIN Levels, NEW level \in 0..Levels[mode] - 1, NEW va \in Int
  PROVE  /\ TableRange(mode, level) \in Nat \ {0}
         /\ PagetableSize(mode, level) \in Nat \ {0}
         /\ PteOffset(mode, va, level) \in Nat
         /\ MaskVa(mode, va) \in Int
<1> DEFINE depth == Levels[mode] - level
           extra == IF level = 0 /\ IsX4(mode) THEN 2 ELSE 0
           lsb == VpnBits * depth
<1>1. depth \in 1..4 /\ VpnBits \in Nat \ {0} /\ Xlen \in Nat /\ 5 * VpnBits + 2 <= Xlen
  BY WidthsAssumption DEF Levels
<1>2. lsb \in 0..4 * VpnBits
  BY <1>1
<1>3. extra \in 0..2
  OBVIOUS
<1>4. VpnLsb(mode, level) = lsb
  BY DEF VpnLsb
<1>5. VaVpnBits(mode, level) = <<lsb + VpnBits - 1 + extra, lsb>>
  BY <1>4 DEF VaVpnBits
<1> HIDE DEF lsb, extra, depth
<1>6. TableRange(mode, level) \in Nat \ {0}
  <2>1. VaVpnBits(mode, level)[1] + 1 = lsb + VpnBits + extra
    BY <1>1, <1>2, <1>3, <1>5
  <2>2. lsb + VpnBits + extra \in 0..Xlen
    BY <1>1, <1>2, <1>3
  <2> QED
    BY <2>1, <2>2, PowersAssumption DEF TableRange
<1>7. PagetableSize(mode, level) \in Nat \ {0}
  <2>1. SIZE_4K \in Nat \ {0}
    BY <1>1, PowersAssumption DEF SIZE_4K
  <2> QED
    BY <2>1 DEF PagetableSize
<1>8. PteOffset(mode, va, level) \in Nat
  <2>1. 2^lsb \in Nat \ {0}
    BY <1>1, <1>2, PowersAssumption
  <2>2. VpnBits + extra \in 0..Xlen
    BY <1>1, <1>3
  <2>3. 2^(VpnBits + extra) \in Nat \ {0}
    BY <2>2, PowersAssumption
  <2>4. /\ VaVpnBits(mode, level)[2] = lsb
        /\ VaVpnBits(mode, level)[1] - VaVpnBits(mode, level)[2] + 1 = VpnBits + extra
    BY <1>1, <1>2, <1>3, <1>5
  <2>5. PteOffset(mode, va, level) = (va \div 2^lsb) % 2^(VpnBits + extra)
    BY <2>4, Zenon DEF PteOffset, ExtractBits
  <2>6. va \div 2^lsb \in Int
    BY <2>1, DivFloor
  <2> QED
    BY <2>3, <2>5, <2>6, DivFloor
<1>9. MaskVa(mode, va) \in Int
  <2> DEFINE x4 == IF IsX4(mode) THEN 1 ELSE 0
  <2>1. Levels[mode] \in 3..4 /\ x4 \in 0..1
    BY DEF Levels
  <2>2. VpnBits * Levels[mode] \in 0..4 * VpnBits
    BY <1>1, <2>1
  <2>3. VaBits(mode) = VpnBits * Levels[mode] + VpnBits + x4
    BY <2>1 DEF VaBits, VpnLsb
  <2> HIDE DEF x4
  <2>4. VpnBits * Levels[mode] + VpnBits + x4 \in 0..Xlen
    BY <1>1, <2>1, <2>2
  <2>5. 2^VaBits(mode) \in Nat \ {0}
    BY <2>3, <2>4, PowersAssumption
  <2> QED
    BY <2>5, DivFloor DEF MaskVa
<1> QED
  BY <1>6, <1>7, <1>8, <1>9

(* Whatever the address, its page number fields fit those of an entry.     *)
LEMMA PteFits ==
  ASSUME NEW mode \in DOMAIN Levels, NEW valid \in 0..1, NEW xwr \in 0..7, NEW umode \in 0..1,
         NEW ad \in 0..1, NEW pa \in Int
  PROVE  PteOK(mode, Pte(mode, valid, xwr, umode, ad, pa))
<1> DEFINE pte == Pte(mode, valid, xwr, umode, ad, pa)
<1>1. /\ pte.valid = valid /\ pte.xwr = xwr /\ pte.umode = umode /\ pte.a = ad /\ pte.d = ad
      /\ pte.ppn = Ppns(mode, pa)
  BY DEF Pte
<1> HIDE DEF pte
<1>2. ASSUME NEW l \in 0..Levels[mode] - 1
      PROVE  LET field == PaPpnBits(mode, l) IN pte.ppn[l] \in 0..2^(field[1] - field[2] + 1) - 1
  <2> DEFINE lsb == VpnBits * (Levels[mode] - l)
             width == IF l = 0 THEN PaBits - lsb ELSE VpnBits
             field == PaPpnBits(mode, l)
  <2>1. /\ Levels[mode] - l \in 1..4 /\ VpnBits \in Nat \ {0} /\ PaBits \in Nat /\ Xlen \in Nat
        /\ 4 * VpnBits <= PaBits /\ PaBits <= Xlen
    BY WidthsAssumption DEF Levels
  <2>2. lsb \in 0..4 * VpnBits
    BY <2>1
  <2>3. field = <<IF l = 0 THEN PaBits - 1 ELSE lsb + VpnBits - 1, lsb>>
    BY DEF PaPpnBits, VpnLsb
  <2> HIDE DEF lsb, field
  <2>4. field[2] = lsb /\ field[1] - field[2] + 1 = width
    BY <2>1, <2>2, <2>3
  <2>5. lsb \in 0..Xlen /\ width \in 0..Xlen
    BY <2>1, <2>2
  <2> HIDE DEF width
  <2>6. 2^lsb \in Nat \ {0} /\ 2^width \in Nat \ {0}
    BY <2>5, PowersAssumption
  <2>7. pte.ppn[l] = (pa \div 2^lsb) % 2^width
    <3>1. pte.ppn[l] = ExtractBits(pa, field)
      BY <1>1 DEF Ppns, field
    <3> QED
      BY <2>4, <3>1, Zenon DEF ExtractBits
  <2>8. pa \div 2^lsb \in Int
    BY <2>6, DivFloor
  <2>9. pte.ppn[l] \in 0..2^width - 1
    BY <2>6, <2>7, <2>8
  <2> QED
    BY <2>4, <2>9 DEF field
<1>3. /\ pte.valid \in 0..1 /\ pte.xwr \in 0..7 /\ pte.umode \in 0..1
      /\ pte.a \in 0..1 /\ pte.d = pte.a
  BY <1>1
<1>4. PteOK(mode, pte)
  BY <1>2, <1>3, Zenon DEF PteOK
<1> QED
  BY <1>4 DEF pte

----------------------------------------------------------------------------
(* The tables of a stage tile its region.                                  *)

PagesTile(t) ==
  /\ \A i \in DOMAIN t.pages :
       /\ t.pages[i].pa \in Int /\ t.pages[i].size \in Nat \ {0}
       /\ t.start <= t.pages[i].pa
       /\ t.pages[i].pa = IF i = 1 THEN t.start
                          ELSE t.pages[i - 1].pa + t.pages[i - 1].size
  /\ \A i, j \in DOMAIN t.pages : i < j => t.pages[i].pa + t.pages[i].size <= t.pages[j].pa
PagesFit(t) == t.pages # <<>> => CurrentSize(t) <= TableRegionSize
MemoryInside(t) ==
  \A a \in DOMAIN t.memory : a \in Int /\ t.start <= a /\ a < t.start + CurrentSize(t)
PtesFit(t, mode) == \A a \in DOMAIN t.memory : PteOK(mode, t.memory[a])
Tiled(t, mode) == PagesTile(t) /\ PagesFit(t) /\ MemoryInside(t) /\ PtesFit(t, mode)
TileInv ==
  /\ at \in Nat \ {0}
  /\ \A s \in DOMAIN page_tables : Tiled(page_tables[s], Mode(s))

LEMMA SizeFacts ==
  ASSUME NEW t, TableShape(t), t.start \in Int, PagesTile(t)
  PROVE  /\ CurrentSize(t) \in Nat
         /\ t.pages # <<>> => CurrentSize(t) > 0
         /\ \A i \in DOMAIN t.pages : t.pages[i].pa + t.pages[i].size <= t.start + CurrentSize(t)
<1>1. CASE t.pages = <<>>
  BY <1>1 DEF CurrentSize
<1>2. CASE t.pages # <<>>
  <2> DEFINE n == Len(t.pages)
  <2>1. n \in Nat \ {0} /\ DOMAIN t.pages = 1..n
    BY <1>2 DEF TableShape
  <2> HIDE DEF n
  <2>2. /\ t.pages[n].pa \in Int /\ t.pages[n].size \in Nat \ {0} /\ t.start <= t.pages[n].pa
        /\ \A i \in 1..n : i < n => t.pages[i].pa + t.pages[i].size <= t.pages[n].pa
        /\ \A i \in 1..n : t.pages[i].pa \in Int /\ t.pages[i].size \in Nat
    <3>1. n \in DOMAIN t.pages
      BY <2>1
    <3> QED
      BY <2>1, <3>1 DEF PagesTile
  <2>3. CurrentSize(t) = t.pages[n].pa + t.pages[n].size - t.start
    BY <1>2 DEF CurrentSize, n
  <2>4. CurrentSize(t) \in Nat /\ CurrentSize(t) > 0
    BY <2>2, <2>3
  <2>5. ASSUME NEW i \in 1..n
        PROVE  t.pages[i].pa + t.pages[i].size <= t.start + CurrentSize(t)
    <3>1. t.start + CurrentSize(t) = t.pages[n].pa + t.pages[n].size
      BY <2>2, <2>3
    <3>2. i = n \/ i < n
      BY <2>1
    <3> QED
      BY <2>2, <3>1, <3>2
  <2> QED
    BY <2>1, <2>4, <2>5
<1> QED
  BY <1>1, <1>2

(* get_new_page keeps the tiling and returns a page that covers va.        *)
LEMMA WithTableTiles ==
  ASSUME NEW t, TableShape(t), t.start \in Int, PagesTile(t), PagesFit(t),
         NEW mode \in DOMAIN Levels, NEW level \in 0..Levels[mode] - 1, NEW va \in Int,
         RoomFor(t, mode, va, level)
  PROVE  LET u == WithTable(t, mode, va, level) IN
         /\ PagesTile(u) /\ PagesFit(u)
         /\ CurrentSize(t) <= CurrentSize(u)
         /\ Tables(u, mode, va, level) # {}
<1> DEFINE size == PagetableSize(mode, level)
           range == TableRange(mode, level)
           masked == MaskVa(mode, va)
           base == (masked \div range) * range
           pa == t.start + CurrentSize(t)
           page == [pa |-> pa, size |-> size, va |-> base, level |-> level]
           u == WithTable(t, mode, va, level)
<1>1. CurrentSize(t) \in Nat
  BY SizeFacts
<1>2. CASE Tables(t, mode, va, level) # {}
  BY <1>1, <1>2 DEF WithTable
<1>3. CASE Tables(t, mode, va, level) = {}
  <2>1. size \in Nat \ {0} /\ range \in Nat \ {0} /\ masked \in Int
    BY VpnFacts
  <2>2. base <= masked /\ masked < base + range
    BY <2>1, DivFloor
  <2>3. pa \in Int
    BY <1>1
  <2> HIDE DEF size, range, masked, base, pa
  <2>4. u = [t EXCEPT !.pages = Append(@, page)]
    BY <1>3 DEF WithTable, size, range, masked, base, pa
  <2>5. PICK S : t.pages \in Seq(S)
    BY DEF TableShape
  <2> DEFINE n == Len(t.pages)
  <2>6. /\ n \in Nat /\ DOMAIN t.pages = 1..n
        /\ DOMAIN u.pages = 1..n + 1 /\ Len(u.pages) = n + 1
        /\ \A i \in 1..n : u.pages[i] = t.pages[i]
        /\ u.pages[n + 1] = page
        /\ u.start = t.start
    <3>1. u = [start |-> t.start, entries |-> t.entries, pages |-> Append(t.pages, page),
               memory |-> t.memory]
      BY <2>4 DEF TableShape
    <3> QED
      BY <2>5, <3>1, AppendFacts
  <2> HIDE DEF n, page, u
  <2>7. page.pa = pa /\ page.size = size /\ page.va = base /\ page.level = level
    BY DEF page
  <2>8. u.pages # <<>>
    BY <2>6
  <2>9. CurrentSize(u) = CurrentSize(t) + size
    BY <1>1, <2>1, <2>6, <2>7, <2>8 DEF CurrentSize, pa
  <2>10. PagesTile(u)
    <3>1. \A i \in 1..n : t.pages[i].pa + t.pages[i].size <= pa
      BY <2>6, SizeFacts DEF pa
    <3>2. t.start <= pa
      BY <1>1 DEF pa
    <3>3. pa = IF n + 1 = 1 THEN t.start ELSE t.pages[n].pa + t.pages[n].size
      <4>1. CASE n = 0
        BY <2>5, <4>1 DEF pa, CurrentSize, n
      <4>2. CASE n # 0
        <5>1. CurrentSize(t) = t.pages[n].pa + t.pages[n].size - t.start
          BY <2>5, <4>2 DEF CurrentSize, n
        <5>2. t.pages[n].pa \in Int /\ t.pages[n].size \in Nat
          BY <2>6, <4>2 DEF PagesTile
        <5> QED
          BY <2>6, <4>2, <5>1, <5>2 DEF pa
      <4> QED
        BY <4>1, <4>2
    <3>4. ASSUME NEW i \in 1..n + 1
          PROVE  /\ u.pages[i].pa \in Int /\ u.pages[i].size \in Nat \ {0}
                 /\ u.start <= u.pages[i].pa
                 /\ u.pages[i].pa = IF i = 1 THEN u.start
                                    ELSE u.pages[i - 1].pa + u.pages[i - 1].size
      <4>1. CASE i = n + 1
        <5>1. i # 1 => n \in 1..n
          BY <2>6, <4>1
        <5> QED
          BY <2>1, <2>3, <2>6, <2>7, <3>2, <3>3, <4>1, <5>1
      <4>2. CASE i # n + 1
        <5>1. i \in 1..n /\ (i # 1 => i - 1 \in 1..n)
          BY <2>6, <4>2
        <5> QED
          BY <2>6, <5>1 DEF PagesTile
      <4> QED
        BY <4>1, <4>2
    <3>5. ASSUME NEW i \in 1..n + 1, NEW j \in 1..n + 1, i < j
          PROVE  u.pages[i].pa + u.pages[i].size <= u.pages[j].pa
      <4>1. i \in 1..n
        BY <2>6, <3>5
      <4>2. j = n + 1 \/ j \in 1..n
        BY <2>6
      <4> QED
        BY <2>6, <2>7, <3>1, <3>5, <4>1, <4>2 DEF PagesTile
    <3> QED
      BY <2>6, <3>4, <3>5 DEF PagesTile
  <2>11. PagesFit(u)
    BY <1>3, <2>9 DEF PagesFit, RoomFor, size
  <2>12. n + 1 \in Tables(u, mode, va, level)
    BY <2>1, <2>2, <2>6, <2>7 DEF Tables, Covers, TableRange, range, masked
  <2> QED
    BY <1>1, <2>1, <2>9, <2>10, <2>11, <2>12 DEF u
<1> QED
  BY <1>2, <1>3

LEMMA TablesGrow ==
  ASSUME NEW t, NEW u, Grows(t, u), NEW mode, NEW va, NEW level
  PROVE  Tables(t, mode, va, level) \subseteq Tables(u, mode, va, level)
BY DEF Grows, Tables

(* All the tables that one turn of the loop needs.                         *)
LEMMA AllocatedTiles ==
  ASSUME NEW t, TableShape(t), t.start \in Int, PagesTile(t), PagesFit(t),
         NEW mode \in DOMAIN Levels, NEW e, e.src \in Int, SizeSupported(mode, e),
         NEW level \in 0..LeafLevel(mode, e), Allocatable(t, mode, e, level)
  PROVE  LET u == Allocated(t, mode, e, level) IN
         /\ TableShape(u) /\ Grows(t, u)
         /\ PagesTile(u) /\ PagesFit(u)
         /\ CurrentSize(t) <= CurrentSize(u)
         /\ Tables(u, mode, e.src, level) # {}
         /\ level < LeafLevel(mode, e) => Tables(u, mode, e.src, level + 1) # {}
<1> DEFINE here == WithTable(t, mode, e.src, level)
           next == WithTable(here, mode, e.src, level + 1)
<1>1. LeafLevel(mode, e) \in 0..Levels[mode] - 1 /\ Levels[mode] \in {3, 4}
  BY LeafLevelFacts
<1>2. level \in 0..Levels[mode] - 1
  BY <1>1
<1>3. /\ PagesTile(here) /\ PagesFit(here) /\ CurrentSize(t) <= CurrentSize(here)
      /\ Tables(here, mode, e.src, level) # {}
  BY <1>2, WithTableTiles DEF Allocatable
<1>4. TableShape(here) /\ Grows(t, here) /\ here.start \in Int
  BY WithTableGrows DEF Grows
<1>5. CASE level < LeafLevel(mode, e)
  <2>1. level + 1 \in 0..Levels[mode] - 1 /\ RoomFor(here, mode, e.src, level + 1)
    BY <1>1, <1>5 DEF Allocatable
  <2>2. Allocated(t, mode, e, level) = next
    BY <1>5 DEF Allocated
  <2> HIDE DEF here
  <2>3. /\ PagesTile(next) /\ PagesFit(next) /\ CurrentSize(here) <= CurrentSize(next)
        /\ Tables(next, mode, e.src, level + 1) # {}
    BY <1>3, <1>4, <2>1, WithTableTiles
  <2>4. TableShape(next) /\ Grows(here, next) /\ next.start \in Int
    BY <1>4, WithTableGrows DEF Grows
  <2>5. Tables(next, mode, e.src, level) # {}
    BY <1>3, <2>4, TablesGrow
  <2>6. CurrentSize(t) \in Nat /\ CurrentSize(here) \in Nat /\ CurrentSize(next) \in Nat
    BY <1>3, <1>4, <2>3, <2>4, SizeFacts
  <2>7. CurrentSize(t) <= CurrentSize(next)
    BY <1>3, <2>3, <2>6
  <2> HIDE DEF next
  <2>8. Grows(t, next)
    BY <1>4, <2>4 DEF Grows
  <2> QED
    BY <2>2, <2>3, <2>4, <2>5, <2>7, <2>8
<1>6. CASE ~(level < LeafLevel(mode, e))
  BY <1>3, <1>4, <1>6 DEF Allocated
<1> QED
  BY <1>5, <1>6

LEMMA WriteTiles ==
  ASSUME LoopInv, TileInv, WriteEntry, page_tables' # page_tables,
         Begun(page_tables[Building])
  PROVE  Tiled(page_tables'[Building], Mode(Building))
<1> DEFINE mode == Mode(Building)
           old == page_tables[Building]
           e == old.entries[at]
           t == Allocated(old, mode, e, current_level)
<1> USE DEF LoopInv
<1>1. /\ StageLeft /\ Building \in DOMAIN page_tables
      /\ EntryAllowed(old, mode, e)
  BY DEF WriteEntry, RejectTables, tableVars
<1>2. PICK address, pte :
        /\ InRange(t, mode, e, current_level)
        /\ address = PteAddress(t, mode, e.src, current_level)
        /\ pte = EntryFor(t, mode, e, current_level)
        /\ page_tables' = [page_tables EXCEPT ![Building] = Write(t, address, pte)]
  BY WriteStep
<1>3. /\ mode \in DOMAIN Levels /\ SizeSupported(mode, e)
      /\ Allocatable(old, mode, e, current_level)
  BY <1>1 DEF ModesKnown, EntryAllowed
<1>4. LeafLevel(mode, e) \in 0..Levels[mode] - 1 /\ Levels[mode] \in {3, 4}
  BY <1>3, LeafLevelFacts
<1>5. current_level \in 0..LeafLevel(mode, e)
  <2>1. current_level \in Nat
    BY DEF LevelRight
  <2>2. current_level # 0 => current_level <= LeafLevel(mode, e)
    <3>1. phase # "rejected"
      BY <1>1 DEF StageLeft
    <3>2. Entry = e
      BY DEF Entry
    <3> QED
      BY <3>1, <3>2 DEF LevelRight
  <2>3. LeafLevel(mode, e) \in Nat
    BY <1>4
  <2> HIDE DEF mode, e
  <2> QED
    BY <2>1, <2>2, <2>3
<1>6. e \in Page /\ e.src \in Int /\ old.start \in Int
  <2>1. old.entries \in Seq(Page) /\ old.start \in Int
    BY DEF Begun
  <2>2. at \in 1..Len(old.entries)
    BY <2>1 DEF WriteEntry, EntriesLeft, TileInv
  <2>3. e \in Page
    BY <2>1, <2>2
  <2> HIDE DEF e, old
  <2> QED
    BY <2>1, <2>3 DEF Page
<1>7. /\ PagesTile(old) /\ PagesFit(old) /\ MemoryInside(old) /\ PtesFit(old, mode)
      /\ TableShape(old)
  BY <1>1 DEF TileInv, Tiled, Shape
<1> HIDE DEF old, e, mode
<1>8. /\ TableShape(t) /\ Grows(old, t) /\ PagesTile(t) /\ PagesFit(t)
      /\ CurrentSize(old) <= CurrentSize(t)
      /\ Tables(t, mode, e.src, current_level) # {}
      /\ current_level < LeafLevel(mode, e) => Tables(t, mode, e.src, current_level + 1) # {}
  BY <1>3, <1>5, <1>6, <1>7, AllocatedTiles
<1>9. t.memory = old.memory /\ t.start = old.start
  BY <1>7, <1>8, AllocatedGrows DEF Grows
<1> HIDE DEF t
<1>10. PICK i \in DOMAIN t.pages : Table(t, mode, e.src, current_level) = t.pages[i]
  BY <1>8 DEF Table, Tables
<1>11. address \in Int /\ t.start <= address /\ address < t.start + CurrentSize(t)
  <2> DEFINE offset == PteOffset(mode, e.src, current_level)
             size == CurrentSize(t)
  <2>1. offset \in Nat
    BY <1>3, <1>4, <1>5, <1>6, VpnFacts
  <2>2. address = t.pages[i].pa + offset /\ address < t.pages[i].pa + t.pages[i].size
    BY <1>2, <1>10 DEF PteAddress, InRange
  <2>3. /\ t.pages[i].pa \in Int /\ t.pages[i].size \in Nat /\ t.start <= t.pages[i].pa
        /\ t.pages[i].pa + t.pages[i].size <= t.start + size
        /\ t.start \in Int /\ size \in Nat
    BY <1>6, <1>8, <1>9, SizeFacts DEF PagesTile
  <2> HIDE DEF offset, size
  <2>4. address \in Int /\ t.start <= address /\ address < t.start + size
    BY <2>1, <2>2, <2>3
  <2> QED
    BY <2>4 DEF size
<1> DEFINE u == Write(t, address, pte)
<1>12. u.pages = t.pages /\ u.start = t.start /\ DOMAIN u.memory = DOMAIN t.memory \cup {address}
  BY <1>8 DEF Write, TableShape
<1>13. page_tables'[Building] = u
  BY <1>1, <1>2
<1> HIDE DEF u
<1>14. CurrentSize(u) = CurrentSize(t)
  BY <1>12 DEF CurrentSize
<1>15. PagesTile(u) /\ PagesFit(u)
  BY <1>8, <1>12, <1>14 DEF PagesTile, PagesFit
<1>16. MemoryInside(u)
  <2>1. CurrentSize(old) \in Nat /\ CurrentSize(t) \in Nat /\ t.start \in Int
    BY <1>6, <1>7, <1>8, <1>9, SizeFacts
  <2>2. ASSUME NEW a \in DOMAIN u.memory, a # address
        PROVE  a \in Int /\ u.start <= a /\ a < u.start + CurrentSize(u)
    <3>1. a \in Int /\ old.start <= a /\ a < old.start + CurrentSize(old)
      BY <1>7, <1>9, <1>12, <2>2 DEF MemoryInside
    <3> QED
      BY <1>8, <1>9, <1>12, <1>14, <2>1, <3>1
  <2> QED
    BY <1>11, <1>12, <1>14, <2>2 DEF MemoryInside
<1>17. PteOK(mode, pte)
  <2>1. CASE current_level < LeafLevel(mode, e)
    <3> DEFINE target == PointerAddress(t, mode, e.src, current_level)
    <3>1. PICK k \in DOMAIN t.pages : Table(t, mode, e.src, current_level + 1) = t.pages[k]
      BY <1>8, <2>1 DEF Table, Tables
    <3>2. target \in Int
      BY <1>3, <1>4, <1>5, <1>6, <1>8, <3>1, VpnFacts, SMTT(30) DEF PointerAddress, PagesTile
    <3>3. pte = Pte(mode, 1, 0, 0, 0, target)
      BY <1>2, <2>1 DEF EntryFor, PointerPte
    <3> HIDE DEF target
    <3> QED
      BY <1>3, <3>2, <3>3, PteFits
  <2>2. CASE ~(current_level < LeafLevel(mode, e))
    <3> DEFINE umode == IF e.umode = None THEN 0 ELSE e.umode
    <3>1. umode \in 0..1 /\ e.valid \in 0..1 /\ e.xwr \in 0..7 /\ e.dst \in Int
      BY <1>6 DEF Page
    <3>2. pte = Pte(mode, e.valid, e.xwr, umode, 1, e.dst)
      BY <1>2, <2>2 DEF EntryFor, LeafPte
    <3> HIDE DEF umode
    <3> QED
      BY <1>3, <3>1, <3>2, PteFits
  <2> QED
    BY <2>1, <2>2
<1>18. PtesFit(u, mode)
  <2>1. \A a \in DOMAIN u.memory : u.memory[a] = IF a = address THEN pte ELSE old.memory[a]
    BY <1>8, <1>9 DEF u, Write, TableShape
  <2> QED
    BY <1>7, <1>9, <1>12, <1>17, <2>1 DEF PtesFit
<1> QED
  BY <1>13, <1>15, <1>16, <1>18 DEF Tiled, mode

LEMMA BoundsTile ==
  ASSUME LoopInv, TileInv, FinishStage, page_tables[Building].pages # <<>>,
         Begun(page_tables[Building])
  PROVE  Tiled(page_tables'[Building], Mode(Building))
<1> DEFINE mode == Mode(Building)
           t == page_tables[Building]
           u == WithBounds(t, mode)
<1>1. /\ page_tables' = [page_tables EXCEPT ![Building] = u]
      /\ Building \in DOMAIN page_tables
  BY DEF FinishStage, RejectTables
<1>2. /\ TableShape(t) /\ PagesTile(t) /\ PagesFit(t) /\ MemoryInside(t) /\ t.start \in Int
      /\ PtesFit(t, mode) /\ mode \in DOMAIN Levels
  BY <1>1 DEF LoopInv, Shape, TileInv, Tiled, Begun, ModesKnown
<1>3. page_tables'[Building] = u
  BY <1>1 DEF LoopInv, Shape
<1>4. t.pages # <<>>
  OBVIOUS
<1> HIDE DEF t, mode
<1>5. u.pages = t.pages /\ u.start = t.start /\ DOMAIN u.memory = DOMAIN t.memory \cup Bounds(t)
  BY <1>2 DEF WithBounds, TableShape
<1>6. \A a \in DOMAIN u.memory : u.memory[a] = IF a \in DOMAIN t.memory THEN t.memory[a]
                                                ELSE ZeroPte(mode)
  BY <1>2 DEF WithBounds, TableShape
<1> HIDE DEF u
<1>7. CurrentSize(u) = CurrentSize(t)
  BY <1>5 DEF CurrentSize
<1>8. CurrentSize(t) \in Nat /\ CurrentSize(t) > 0
  BY <1>2, <1>4, SizeFacts
<1>9. PagesTile(u) /\ PagesFit(u)
  BY <1>2, <1>5, <1>7 DEF PagesTile, PagesFit
<1>10. MemoryInside(u)
  BY <1>2, <1>5, <1>7, <1>8 DEF MemoryInside, Bounds
<1>11. PteOK(mode, ZeroPte(mode))
  BY <1>2, PteFits DEF ZeroPte
<1>12. PtesFit(u, mode)
  BY <1>2, <1>6, <1>11 DEF PtesFit
<1> QED
  BY <1>3, <1>9, <1>10, <1>12 DEF Tiled, mode

LEMMA AtStep ==
  ASSUME at \in Nat \ {0}, [Next]_vars
  PROVE  at' \in Nat \ {0}
<1>1. at' \in {at, at + 1, 1}
  <2>1. CASE UNCHANGED vars
    BY <2>1 DEF vars, mapVars
  <2>2. CASE MapNext
    BY <2>2 DEF MapNext, ProcessDiagAttributes, AddJumpstartSection, AddPagetableMappings,
                AddDiagMapping, CheckMemoryMap, Reject, Advance
  <2>3. CASE TablesNext
    BY <2>3 DEF TablesNext, SkipBareStage, BeginStage, WriteEntry, FinishStage, FinishTables,
                RejectTables, Reject, Advance, mapVars
  <2>4. CASE SectionsNext \/ GenerateAssembly
    BY <2>4 DEF SectionsNext, CollectSection, FinishLinkerScript, RejectSections,
                GenerateAssembly, Reject, Advance
  <2> QED
    BY <2>1, <2>2, <2>3, <2>4 DEF Next
<1> QED
  BY <1>1

LEMMA TileInvStep ==
  ASSUME LoopInv, BegunInv, TileInv, [Next]_vars
  PROVE  TileInv'
<1>1. at' \in Nat \ {0}
  BY AtStep DEF TileInv
<1>2. \A s \in DOMAIN page_tables : s \in DOMAIN page_tables' /\ Grows(page_tables[s], page_tables'[s])
  BY ShapeStep DEF LoopInv
<1>3. SUFFICES ASSUME NEW s \in DOMAIN page_tables'
               PROVE  Tiled(page_tables[s], Mode(s))'
  BY <1>1 DEF TileInv
<1>4. ASSUME NEW t, Tiled(t, Mode(s)), t = page_tables'[s], s \in DOMAIN page_tables
      PROVE  Tiled(page_tables[s], Mode(s))'
  <2>1. TableRegionSize' = TableRegionSize /\ Mode(s)' = Mode(s)
    BY <1>4, AttributesFixed DEF Mode
  <2> QED
    BY <1>4, <2>1 DEF Tiled, PagesTile, PagesFit, MemoryInside, PtesFit, CurrentSize, PteOK
<1>5. ASSUME s \in DOMAIN page_tables, page_tables'[s] = page_tables[s]
      PROVE  Tiled(page_tables[s], Mode(s))'
  BY <1>4, <1>5 DEF TileInv
<1>6. CASE BeginStage
  <2> DEFINE t == [start |-> Dest(RegionOf(Building)), entries |-> Entries(Building),
                   pages |-> <<>>, memory |-> <<>>]
  <2>1. page_tables' = [x \in DOMAIN page_tables \cup {Building} |->
                          IF x = Building THEN t ELSE page_tables[x]]
        /\ Building \notin DOMAIN page_tables
    BY <1>6 DEF BeginStage
  <2>2. t.pages = <<>> /\ t.memory = <<>> /\ DOMAIN <<>> = {}
    OBVIOUS
  <2> HIDE DEF t
  <2>3. CASE s = Building
    <3>1. page_tables'[s] = t
      BY <2>1, <2>3
    <3> QED
      BY <2>2, <3>1 DEF Tiled, PagesTile, PagesFit, MemoryInside, PtesFit
  <2>4. CASE s # Building
    BY <1>5, <2>1, <2>4
  <2> QED
    BY <2>3, <2>4
<1>7. CASE WriteEntry /\ page_tables' # page_tables
  <2>1. PICK u : page_tables' = [page_tables EXCEPT ![Building] = u]
    BY <1>7, WriteStep
  <2>2. CASE s = Building
    <3>1. Building \in DOMAIN page_tables
      BY <1>7 DEF WriteEntry
    <3>2. Tiled(page_tables'[Building], Mode(Building))
      BY <1>7, <3>1, WriteTiles DEF BegunInv
    <3> QED
      BY <1>4, <2>2, <3>1, <3>2
  <2>3. CASE s # Building
    BY <1>5, <2>1, <2>3
  <2> QED
    BY <2>2, <2>3
<1>8. CASE FinishStage /\ page_tables[Building].pages # <<>>
  <2>1. PICK u : page_tables' = [page_tables EXCEPT ![Building] = u]
    BY <1>8 DEF FinishStage, RejectTables
  <2>2. CASE s = Building
    <3>1. Building \in DOMAIN page_tables
      BY <1>8 DEF FinishStage
    <3>2. Tiled(page_tables'[Building], Mode(Building))
      BY <1>8, <3>1, BoundsTile DEF BegunInv
    <3> QED
      BY <1>4, <2>2, <3>1, <3>2
  <2>3. CASE s # Building
    BY <1>5, <2>1, <2>3
  <2> QED
    BY <2>2, <2>3
<1> QED
  BY <1>5, <1>6, <1>7, <1>8, TableSteps

----------------------------------------------------------------------------
(* The theorems                                                            *)

PhaseKnown == phase \in Phases
TablesInv == MapInv /\ RegionInv /\ LoopInv /\ BegunInv /\ TileInv /\ PhaseKnown

LEMMA PhaseStep ==
  ASSUME PhaseKnown, [Next]_vars
  PROVE  PhaseKnown'
<1>1. CASE MapNext
  BY <1>1 DEF MapNext, ProcessDiagAttributes, AddJumpstartSection, AddPagetableMappings,
              AddDiagMapping, CheckMemoryMap, Reject, Advance, PhaseKnown, Phases
<1>2. CASE UNCHANGED vars
  BY <1>2 DEF vars, mapVars, PhaseKnown
<1> QED
  BY <1>1, <1>2, LaterSteps DEF Next, PhaseKnown, Phases

LEMMA TablesInvHolds == Spec => []TablesInv
<1>1. Init => RegionInv /\ BegunInv /\ TileInv /\ PhaseKnown
  <2>1. DOMAIN <<>> = {}
    OBVIOUS
  <2> QED
    BY <2>1 DEF Init, MapInit, TablesInit, RegionInv, BegunInv, TileInv, PhaseKnown, Phases,
                MapChecked
<1>2. TablesInv /\ [Next]_vars => TablesInv'
  BY MapInvStep, RegionStep, LoopInvStep, BegunStep, TileInvStep, PhaseStep DEF TablesInv
<1> QED
  BY <1>1, <1>2, InitMapInv, InitLoopInv, PTL DEF Spec, TablesInv

(* Whatever the generator is run on, every field has a value of its kind:  *)
(* in particular the addresses the tables start at are numbers, every      *)
(* entry fits the fields of a page table entry, and the loop is never      *)
(* below the last level (page_tables.py:330).                              *)
THEOREM TypesAreRight == Spec => []TypeOK
<1>1. TablesInv => TypeOK
  <2> SUFFICES ASSUME TablesInv PROVE TypeOK
    OBVIOUS
  <2>1. phase \in Phases /\ at \in Nat \ {0} /\ current_level \in 0..3
    BY DEF TablesInv, PhaseKnown, TileInv, LoopInv, LevelRight
  <2>2. phase = "tables" => stage_id \in 1..Len(Enabled) + 1
    BY EnabledFacts DEF TablesInv, LoopInv, LevelRight
  <2>3. ASSUME NEW s \in DOMAIN page_tables
        PROVE  /\ s \in EnabledSet /\ Mode(s) # "bare" /\ TableTyped(page_tables[s])
               /\ \A a \in DOMAIN page_tables[s].memory :
                    a \in Int /\ PteOK(Mode(s), page_tables[s].memory[a])
    <3>1. s \in EnabledSet /\ Mode(s) # "bare" /\ Begun(page_tables[s]) /\ Tiled(page_tables[s], Mode(s))
      BY DEF TablesInv, BegunInv, TileInv
    <3>2. TableTyped(page_tables[s])
      <4>1. PICK w : w = page_tables[s].entries
        OBVIOUS
      <4>2. w \in Seq(Page) /\ page_tables[s].start \in Int
        BY <3>1, <4>1 DEF Begun
      <4>3. Len(w) \in Nat /\ \A i \in 1..Len(w) : w[i] \in Page
        BY <4>2
      <4>4. \A i \in 1..Len(w) : w[i].src \in Int
        BY <4>3 DEF Page
      <4> QED
        BY <4>1, <4>2, <4>3, <4>4 DEF TableTyped
    <3> QED
      BY <3>1, <3>2 DEF Tiled, MemoryInside, PtesFit
  <2> QED
    BY <2>1, <2>2, <2>3, Zenon DEF TypeOK
<1> QED
  BY <1>1, TablesInvHolds, PTL

(* Whatever the mappings, get_new_page puts the tables of a stage one      *)
(* behind the other, within the region mapped for them, and no entry lies  *)
(* outside of the tables (page_tables.py:384).                             *)
THEOREM TablesAlwaysTile == Spec => []TablesTile
<1>1. TablesInv => TablesTile
  BY DEF TablesInv, TileInv, Tiled, TablesTile, Tile, PagesTile, PagesFit, MemoryInside
<1> QED
  BY <1>1, TablesInvHolds, PTL

----------------------------------------------------------------------------
(* Quotients, spans and indices                                            *)

(* A number is its quotient and its remainder, and no other pair of them.  *)
LEMMA QuotientRemainder ==
  ASSUME NEW q \in Int, NEW d \in Nat \ {0}, NEW r \in Int, 0 <= r, r < d, NEW x \in Int,
         x = q * d + r
  PROVE  x \div d = q /\ x % d = r
<1>1. PICK p \in Int, s \in Int : p = x \div d /\ s = x % d /\ 0 <= s /\ s < d /\ x = p * d + s
  OBVIOUS
<1>2. PICK k \in Int : k = p - q
  OBVIOUS
<1>3. k * d = r - s
  <2>1. (p - q) * d = p * d - q * d
    OBVIOUS
  <2> QED
    BY <1>1, <1>2, <2>1
<1>4. k = 0
  <2>1. CASE k >= 1
    <3>1. k * d >= d
      BY <2>1
    <3> QED
      BY <1>1, <1>3, <3>1
  <2>2. CASE k <= 0 - 1
    <3>1. k * d <= 0 - d
      BY <2>2
    <3> QED
      BY <1>1, <1>3, <3>1
  <2> QED
    BY <2>1, <2>2
<1>5. p = q /\ s = r
  BY <1>1, <1>2, <1>3, <1>4
<1> QED
  BY <1>1, <1>5

Splits(x, d, q, r) ==
  /\ q \in Int /\ r \in Int /\ 0 <= r /\ r < d /\ x = q * d + r
  /\ q = x \div d /\ r = x % d

LEMMA Splitting ==
  ASSUME NEW x \in Int, NEW d \in Nat \ {0}
  PROVE  \E q, r : Splits(x, d, q, r)
<1>1. PICK p \in Int, s \in Int : p = x \div d /\ s = x % d /\ 0 <= s /\ s < d /\ x = p * d + s
  OBVIOUS
<1>2. Splits(x, d, p, s)
  BY <1>1 DEF Splits
<1> QED
  BY <1>2

LEMMA SplitBy ==
  ASSUME NEW q \in Int, NEW d \in Nat \ {0}, NEW r \in Int, 0 <= r, r < d, NEW x \in Int,
         x = q * d + r
  PROVE  Splits(x, d, q, r)
BY QuotientRemainder DEF Splits

(* Dividing by a product is dividing twice.                                *)
LEMMA DivideTwice ==
  ASSUME NEW x \in Int, NEW a \in Nat \ {0}, NEW b \in Nat \ {0}, NEW c, c = a * b
  PROVE  /\ c \in Nat \ {0}
         /\ \E p, q, r, s, t : /\ Splits(x, a, p, r) /\ Splits(p, b, q, s)
                               /\ Splits(x, c, q, t) /\ Splits(t, a, s, r)
<1>1. PICK p, r : Splits(x, a, p, r)
  BY Splitting
<1>2. PICK q, s : Splits(p, b, q, s)
  BY <1>1, Splitting DEF Splits
<1>3. c \in Nat \ {0}
  OBVIOUS
<1>4. PICK t \in Int : t = s * a + r
  <2>1. s \in Int /\ r \in Int
    BY <1>1, <1>2 DEF Splits
  <2>2. s * a \in Int
    BY <2>1
  <2> QED
    BY <2>1, <2>2
<1>5. 0 <= t /\ t < c
  <2>1. s \in Int /\ 0 <= s /\ s < b /\ r \in Int /\ 0 <= r /\ r < a
    BY <1>1, <1>2 DEF Splits
  <2>2. 0 <= s * a
    BY <2>1
  <2>3. b - s >= 1 /\ (b - s) * a = b * a - s * a
    BY <2>1
  <2>4. (b - s) * a >= a
    BY <2>1, <2>3
  <2> QED
    BY <1>3, <1>4, <2>1, <2>2, <2>3, <2>4
<1>6. x = q * c + t
  <2>1. /\ p \in Int /\ q \in Int /\ s \in Int /\ r \in Int
        /\ x = p * a + r /\ p = q * b + s
    BY <1>1, <1>2 DEF Splits
  <2>2. (q * b + s) * a = (q * b) * a + s * a
    BY <2>1
  <2>3. (q * b) * a = q * (a * b)
    BY <2>1
  <2>4. p * a = q * c + s * a
    BY <2>1, <2>2, <2>3
  <2> QED
    BY <1>3, <1>4, <2>1, <2>4
<1>7. Splits(x, c, q, t)
  <2>1. q \in Int
    BY <1>2 DEF Splits
  <2> QED
    BY <1>3, <1>4, <1>5, <1>6, <2>1, SplitBy
<1>8. Splits(t, a, s, r)
  <2>1. s \in Int /\ r \in Int /\ 0 <= r /\ r < a
    BY <1>1, <1>2 DEF Splits
  <2> QED
    BY <1>4, <2>1, SplitBy
<1> QED
  BY <1>1, <1>2, <1>3, <1>7, <1>8

(* What one entry of a level spans, and the number of the one an address   *)
(* is in, counted from the start of all that the mode translates.          *)
Span(mode, level) == 2^VpnLsb(mode, level)
Index(mode, va, level) == (va % WalkBits(mode)) \div Span(mode, level)
LastLevel(mode) == Levels[mode] - 1

LEMMA PowerFacts ==
  /\ SIZE_4K \in Nat \ {0}
  /\ \A mode \in DOMAIN Levels :
       /\ Levels[mode] \in 3..4 /\ LastLevel(mode) \in 2..3
       /\ WalkBits(mode) \in Nat \ {0} /\ TableRange(mode, 0) = WalkBits(mode)
       /\ WalkBits(mode) = Span(mode, 0) * PagetableSize(mode, 0)
       /\ Span(mode, LastLevel(mode)) = SIZE_4K
       /\ \A l \in 0..LastLevel(mode) :
            /\ Span(mode, l) \in Nat \ {0} /\ PageSizes(mode)[l] = Span(mode, l)
            /\ PagetableSize(mode, l) \in Nat \ {0}
            /\ \A va : PteOffset(mode, va, l) = (va \div Span(mode, l)) % PagetableSize(mode, l)
            /\ \E n \in Nat \ {0} : WalkBits(mode) = Span(mode, l) * n
            /\ \E n \in Nat \ {0} : Span(mode, l) = SIZE_4K * n
       /\ \A l \in 1..LastLevel(mode) :
            /\ Span(mode, l - 1) = Span(mode, l) * SIZE_4K
            /\ TableRange(mode, l) = Span(mode, l - 1) /\ PagetableSize(mode, l) = SIZE_4K
<1>1. /\ VpnBits \in Nat \ {0} /\ Xlen \in Nat /\ 5 * VpnBits + 2 <= Xlen
  BY WidthsAssumption
<1>2. SIZE_4K \in Nat \ {0}
  BY <1>1, PowersAssumption DEF SIZE_4K
<1>3. SUFFICES ASSUME NEW mode \in DOMAIN Levels
      PROVE
       /\ Levels[mode] \in 3..4 /\ LastLevel(mode) \in 2..3
       /\ WalkBits(mode) \in Nat \ {0} /\ TableRange(mode, 0) = WalkBits(mode)
       /\ WalkBits(mode) = Span(mode, 0) * PagetableSize(mode, 0)
       /\ Span(mode, LastLevel(mode)) = SIZE_4K
       /\ \A l \in 0..LastLevel(mode) :
            /\ Span(mode, l) \in Nat \ {0} /\ PageSizes(mode)[l] = Span(mode, l)
            /\ PagetableSize(mode, l) \in Nat \ {0}
            /\ \A va : PteOffset(mode, va, l) = (va \div Span(mode, l)) % PagetableSize(mode, l)
            /\ \E n \in Nat \ {0} : WalkBits(mode) = Span(mode, l) * n
            /\ \E n \in Nat \ {0} : Span(mode, l) = SIZE_4K * n
       /\ \A l \in 1..LastLevel(mode) :
            /\ Span(mode, l - 1) = Span(mode, l) * SIZE_4K
            /\ TableRange(mode, l) = Span(mode, l - 1) /\ PagetableSize(mode, l) = SIZE_4K
  BY <1>2, Zenon
<1> DEFINE L == Levels[mode]
           lsb(l) == VpnBits * (L - l)
           extra(l) == IF l = 0 /\ IsX4(mode) THEN 2 ELSE 0
<1>4. L \in 3..4 /\ L - 1 \in 2..3 /\ LastLevel(mode) = L - 1
  BY DEF Levels, LastLevel
<1>5. \A l \in 0..L - 1 : /\ lsb(l) \in VpnBits..4 * VpnBits /\ extra(l) \in {0, 2}
                          /\ Span(mode, l) = 2^lsb(l)
                          /\ VaVpnBits(mode, l) = <<lsb(l) + VpnBits - 1 + extra(l), lsb(l)>>
                          /\ TableRange(mode, l) = 2^(VaVpnBits(mode, l)[1] + 1)
  <2> SUFFICES ASSUME NEW l \in 0..L - 1
               PROVE  /\ lsb(l) \in VpnBits..4 * VpnBits /\ extra(l) \in {0, 2}
                      /\ Span(mode, l) = 2^lsb(l)
                      /\ VaVpnBits(mode, l) = <<lsb(l) + VpnBits - 1 + extra(l), lsb(l)>>
                      /\ TableRange(mode, l) = 2^(VaVpnBits(mode, l)[1] + 1)
    OBVIOUS
  <2>1. L - l \in {1, 2, 3, 4}
    BY <1>4
  <2>2. lsb(l) \in VpnBits..4 * VpnBits
    BY <1>1, <2>1
  <2>3. Span(mode, l) = 2^lsb(l)
    BY DEF Span, VpnLsb
  <2>4. VaVpnBits(mode, l) = <<lsb(l) + VpnBits - 1 + extra(l), lsb(l)>>
    BY DEF VaVpnBits, VpnLsb
  <2>5. TableRange(mode, l) = 2^(VaVpnBits(mode, l)[1] + 1)
    BY DEF TableRange
  <2>6. extra(l) \in {0, 2}
    OBVIOUS
  <2> QED
    BY <2>2, <2>3, <2>4, <2>5, <2>6
<1>6. \A l \in 1..L - 1 : extra(l) = 0 /\ lsb(l - 1) = lsb(l) + VpnBits
  <2> SUFFICES ASSUME NEW l \in 1..L - 1
               PROVE  extra(l) = 0 /\ lsb(l - 1) = lsb(l) + VpnBits
    OBVIOUS
  <2>1. L - (l - 1) = (L - l) + 1 /\ L - l \in Int
    BY <1>4
  <2>2. VpnBits * ((L - l) + 1) = VpnBits * (L - l) + VpnBits
    BY <1>1, <2>1
  <2> QED
    BY <2>1, <2>2
<1>7. lsb(L - 1) = VpnBits
  <2>1. L - (L - 1) = 1
    BY <1>4
  <2> QED
    BY <1>1, <2>1
<1>8. \A l \in 0..L - 1 : PagetableSize(mode, l) = 2^(VpnBits + extra(l))
  <2> SUFFICES ASSUME NEW l \in 0..L - 1
               PROVE  PagetableSize(mode, l) = 2^(VpnBits + extra(l))
    OBVIOUS
  <2>1. CASE l = 0 /\ IsX4(mode)
    <3>1. extra(l) = 2 /\ PagetableSize(mode, l) = 4 * SIZE_4K
      BY <2>1 DEF PagetableSize
    <3>2. VpnBits \in 0..Xlen /\ 2 \in 0..Xlen /\ VpnBits + 2 <= Xlen
      BY <1>1
    <3>3. 2^(VpnBits + 2) = 2^VpnBits * 2^2
      BY <3>2, PowersAssumption
    <3>4. 2^(VpnBits + 2) = SIZE_4K * 4
      BY <3>3, PowersAssumption DEF SIZE_4K
    <3> QED
      BY <1>2, <3>1, <3>4
  <2>2. CASE ~(l = 0 /\ IsX4(mode))
    <3>1. extra(l) = 0 /\ PagetableSize(mode, l) = 1 * SIZE_4K
      BY <2>2 DEF PagetableSize
    <3> QED
      BY <1>1, <1>2, <3>1 DEF SIZE_4K
  <2> QED
    BY <2>1, <2>2
<1> HIDE DEF L, lsb, extra
<1>9. \A m, n \in 0..Xlen : m + n <= Xlen => 2^(m + n) = 2^m * 2^n
  BY PowersAssumption
<1>10. \A n \in 0..Xlen : 2^n \in Nat \ {0}
  BY PowersAssumption
<1>11. WalkBits(mode) = 2^(lsb(0) + (VpnBits + extra(0))) /\ lsb(0) + (VpnBits + extra(0)) <= Xlen
  <2>1. /\ 0 \in 0..L - 1 /\ lsb(0) \in Int /\ extra(0) \in Int
        /\ lsb(0) + (VpnBits + extra(0)) <= Xlen
    BY <1>1, <1>4, <1>5
  <2>2. VaVpnBits(mode, 0) = <<lsb(0) + VpnBits - 1 + extra(0), lsb(0)>>
    BY <1>5, <2>1
  <2>3. VaVpnBits(mode, 0)[1] + 1 = lsb(0) + (VpnBits + extra(0))
    BY <1>1, <2>1, <2>2
  <2> QED
    BY <2>1, <2>3 DEF WalkBits
<1>12. /\ WalkBits(mode) \in Nat \ {0} /\ TableRange(mode, 0) = WalkBits(mode)
       /\ WalkBits(mode) = Span(mode, 0) * PagetableSize(mode, 0)
  <2>1. /\ 0 \in 0..L - 1 /\ lsb(0) \in 0..Xlen /\ VpnBits + extra(0) \in 0..Xlen
        /\ lsb(0) + (VpnBits + extra(0)) \in 0..Xlen
    BY <1>1, <1>4, <1>5, <1>11
  <2>2. WalkBits(mode) = 2^lsb(0) * 2^(VpnBits + extra(0))
    BY <1>9, <1>11, <2>1
  <2>3. Span(mode, 0) = 2^lsb(0) /\ PagetableSize(mode, 0) = 2^(VpnBits + extra(0))
    BY <1>5, <1>8, <2>1
  <2>4. TableRange(mode, 0) = WalkBits(mode)
    BY <1>5, <2>1 DEF WalkBits
  <2> QED
    BY <1>10, <1>11, <2>1, <2>2, <2>3, <2>4
<1>13. Span(mode, L - 1) = SIZE_4K
  BY <1>4, <1>5, <1>7 DEF SIZE_4K
<1>14. ASSUME NEW l \in 0..L - 1
       PROVE  /\ Span(mode, l) \in Nat \ {0} /\ PageSizes(mode)[l] = Span(mode, l)
              /\ PagetableSize(mode, l) \in Nat \ {0}
              /\ \A va : PteOffset(mode, va, l) = (va \div Span(mode, l)) % PagetableSize(mode, l)
              /\ \E n \in Nat \ {0} : WalkBits(mode) = Span(mode, l) * n
              /\ \E n \in Nat \ {0} : Span(mode, l) = SIZE_4K * n
  <2>1. /\ lsb(l) \in VpnBits..4 * VpnBits /\ Span(mode, l) = 2^lsb(l)
        /\ extra(l) \in {0, 2} /\ extra(0) \in {0, 2} /\ lsb(0) \in VpnBits..4 * VpnBits
        /\ VaVpnBits(mode, l) = <<lsb(l) + VpnBits - 1 + extra(l), lsb(l)>>
    BY <1>4, <1>5
  <2>2. /\ lsb(l) \in 0..Xlen /\ VpnBits + extra(l) \in 0..Xlen /\ VpnBits \in 0..Xlen
        /\ lsb(l) - VpnBits \in 0..Xlen /\ VpnBits + (lsb(l) - VpnBits) = lsb(l)
    BY <1>1, <2>1
  <2>3. Span(mode, l) \in Nat \ {0} /\ PagetableSize(mode, l) \in Nat \ {0}
    BY <1>8, <1>10, <2>1, <2>2
  <2>4. PageSizes(mode)[l] = Span(mode, l)
    BY DEF PageSizes, Span, L
  <2>5. ASSUME NEW va
        PROVE  PteOffset(mode, va, l) = (va \div Span(mode, l)) % PagetableSize(mode, l)
    <3>1. /\ VaVpnBits(mode, l)[2] = lsb(l)
          /\ VaVpnBits(mode, l)[1] - VaVpnBits(mode, l)[2] + 1 = VpnBits + extra(l)
      BY <1>1, <2>1
    <3>2. PteOffset(mode, va, l) = (va \div 2^lsb(l)) % 2^(VpnBits + extra(l))
      BY <3>1, Zenon DEF PteOffset, ExtractBits
    <3> QED
      BY <1>8, <2>1, <3>2, Zenon
  <2>6. Span(mode, l) = SIZE_4K * 2^(lsb(l) - VpnBits) /\ 2^(lsb(l) - VpnBits) \in Nat \ {0}
    <3>1. lsb(l) = VpnBits + (lsb(l) - VpnBits) /\ VpnBits + (lsb(l) - VpnBits) <= Xlen
      BY <2>2
    <3>2. 2^(VpnBits + (lsb(l) - VpnBits)) = 2^VpnBits * 2^(lsb(l) - VpnBits)
      BY <1>9, <2>2, <3>1
    <3>3. Span(mode, l) = 2^(VpnBits + (lsb(l) - VpnBits))
      BY <2>1, <3>1, Zenon
    <3> QED
      BY <1>10, <2>2, <3>2, <3>3 DEF SIZE_4K
  <2>7. PICK e \in 0..Xlen : lsb(0) + (VpnBits + extra(0)) = lsb(l) + e
    <3>1. lsb(l) <= lsb(0)
      <4>1. L - l <= L /\ L - l \in Int /\ L - 0 = L /\ L \in Int
        BY <1>4
      <4>2. VpnBits * (L - l) <= VpnBits * L
        <5>1. PICK k \in Nat : L = (L - l) + k
          BY <4>1
        <5>2. VpnBits * ((L - l) + k) = VpnBits * (L - l) + VpnBits * k /\ VpnBits * k >= 0
          BY <1>1, <4>1, <5>1
        <5> QED
          BY <1>1, <4>1, <5>1, <5>2
      <4> QED
        BY <4>1, <4>2 DEF lsb
    <3>2. lsb(0) + (VpnBits + extra(0)) - lsb(l) \in 0..Xlen
      BY <1>1, <1>11, <2>1, <3>1
    <3> QED
      BY <1>1, <2>1, <3>2
  <2>8. WalkBits(mode) = Span(mode, l) * 2^e /\ 2^e \in Nat \ {0}
    <3>1. WalkBits(mode) = 2^(lsb(l) + e) /\ lsb(l) + e <= Xlen
      BY <1>11, <2>7
    <3>2. 2^(lsb(l) + e) = 2^lsb(l) * 2^e
      BY <1>9, <2>2, <3>1
    <3> QED
      BY <1>10, <2>1, <3>1, <3>2
  <2> QED
    BY <2>3, <2>4, <2>5, <2>6, <2>8
<1>15. ASSUME NEW l \in 1..L - 1
       PROVE  /\ Span(mode, l - 1) = Span(mode, l) * SIZE_4K
              /\ TableRange(mode, l) = Span(mode, l - 1) /\ PagetableSize(mode, l) = SIZE_4K
  <2>1. l \in 0..L - 1 /\ l - 1 \in 0..L - 1
    BY <1>4
  <2>2. /\ lsb(l) \in VpnBits..4 * VpnBits /\ Span(mode, l) = 2^lsb(l)
        /\ Span(mode, l - 1) = 2^lsb(l - 1) /\ lsb(l - 1) \in VpnBits..4 * VpnBits
        /\ VaVpnBits(mode, l) = <<lsb(l) + VpnBits - 1 + extra(l), lsb(l)>>
        /\ TableRange(mode, l) = 2^(VaVpnBits(mode, l)[1] + 1)
    BY <1>5, <2>1
  <2>3. extra(l) = 0 /\ lsb(l - 1) = lsb(l) + VpnBits
    BY <1>6
  <2>4. VaVpnBits(mode, l)[1] + 1 = lsb(l - 1)
    BY <1>1, <2>2, <2>3
  <2>5. PagetableSize(mode, l) = SIZE_4K
    <3>1. VpnBits + extra(l) = VpnBits
      BY <1>1, <2>3
    <3> QED
      BY <1>8, <2>1, <3>1 DEF SIZE_4K
  <2>6. Span(mode, l - 1) = Span(mode, l) * SIZE_4K
    <3>1. VpnBits \in 0..Xlen /\ lsb(l) \in 0..Xlen /\ lsb(l) + VpnBits <= Xlen
      BY <1>1, <2>2
    <3>2. 2^(lsb(l) + VpnBits) = 2^lsb(l) * 2^VpnBits
      BY <1>9, <3>1
    <3> QED
      BY <2>2, <2>3, <3>2, Zenon DEF SIZE_4K
  <2> QED
    BY <2>2, <2>4, <2>5, <2>6
<1>16. \A l : l \in 0..LastLevel(mode) <=> l \in 0..L - 1
  BY <1>4
<1>17. \A l : l \in 1..LastLevel(mode) <=> l \in 1..L - 1
  BY <1>4
<1>18. Levels[mode] \in 3..4 /\ LastLevel(mode) \in 2..3
  BY <1>4 DEF L
<1>19. Span(mode, LastLevel(mode)) = SIZE_4K
  BY <1>4, <1>13
<1> QED
  BY <1>12, <1>14, <1>15, <1>16, <1>17, <1>18, <1>19, Zenon

(* The index at one level extends that of the level above by the field of  *)
(* the address that selects the entry.                                     *)
LEMMA IndexFacts ==
  ASSUME NEW mode \in DOMAIN Levels, NEW va \in Int
  PROVE  /\ \A l \in 0..LastLevel(mode) :
              /\ Index(mode, va, l) \in Nat
              /\ PteOffset(mode, va, l) \in 0..PagetableSize(mode, l) - 1
         /\ Index(mode, va, 0) = PteOffset(mode, va, 0)
         /\ \A l \in 1..LastLevel(mode) :
              /\ PteOffset(mode, va, l) \in 0..SIZE_4K - 1
              /\ Index(mode, va, l) = Index(mode, va, l - 1) * SIZE_4K + PteOffset(mode, va, l)
<1>1. /\ SIZE_4K \in Nat \ {0} /\ LastLevel(mode) \in 2..3 /\ WalkBits(mode) \in Nat \ {0}
      /\ WalkBits(mode) = Span(mode, 0) * PagetableSize(mode, 0)
      /\ \A l \in 0..LastLevel(mode) :
            /\ Span(mode, l) \in Nat \ {0} /\ PagetableSize(mode, l) \in Nat \ {0}
            /\ PteOffset(mode, va, l) = (va \div Span(mode, l)) % PagetableSize(mode, l)
            /\ \E n \in Nat \ {0} : WalkBits(mode) = Span(mode, l) * n
      /\ \A l \in 1..LastLevel(mode) :
            /\ Span(mode, l - 1) = Span(mode, l) * SIZE_4K
            /\ PagetableSize(mode, l) = SIZE_4K
  BY PowerFacts
<1>2. ASSUME NEW l \in 0..LastLevel(mode)
      PROVE  /\ Index(mode, va, l) \in Nat
             /\ PteOffset(mode, va, l) \in 0..PagetableSize(mode, l) - 1
  <2>1. PICK n \in Nat \ {0} : WalkBits(mode) = Span(mode, l) * n
    BY <1>1
  <2>2. /\ Span(mode, l) \in Nat \ {0} /\ PagetableSize(mode, l) \in Nat \ {0}
        /\ PteOffset(mode, va, l) = (va \div Span(mode, l)) % PagetableSize(mode, l)
    BY <1>1
  <2>3. PICK p, q, r, s, t : /\ Splits(va, Span(mode, l), p, r) /\ Splits(p, n, q, s)
                             /\ Splits(va, WalkBits(mode), q, t) /\ Splits(t, Span(mode, l), s, r)
    BY <2>1, <2>2, DivideTwice
  <2>4. Index(mode, va, l) = s /\ s \in Int /\ 0 <= s
    BY <2>3 DEF Index, Splits
  <2>5. PICK u, v : Splits(p, PagetableSize(mode, l), u, v)
    BY <2>2, <2>3, Splitting DEF Splits
  <2>6. PteOffset(mode, va, l) = v /\ v \in Int /\ 0 <= v /\ v < PagetableSize(mode, l)
    BY <2>2, <2>3, <2>5 DEF Splits
  <2> QED
    BY <2>2, <2>4, <2>6
<1>3. Index(mode, va, 0) = PteOffset(mode, va, 0)
  <2>1. /\ Span(mode, 0) \in Nat \ {0} /\ PagetableSize(mode, 0) \in Nat \ {0}
        /\ PteOffset(mode, va, 0) = (va \div Span(mode, 0)) % PagetableSize(mode, 0)
    BY <1>1
  <2>2. PICK p, q, r, s, t : /\ Splits(va, Span(mode, 0), p, r)
                             /\ Splits(p, PagetableSize(mode, 0), q, s)
                             /\ Splits(va, WalkBits(mode), q, t) /\ Splits(t, Span(mode, 0), s, r)
    BY <1>1, <2>1, DivideTwice
  <2> QED
    BY <2>1, <2>2 DEF Index, Splits
<1>4. ASSUME NEW l \in 1..LastLevel(mode)
      PROVE  /\ PteOffset(mode, va, l) \in 0..SIZE_4K - 1
             /\ Index(mode, va, l) = Index(mode, va, l - 1) * SIZE_4K + PteOffset(mode, va, l)
  <2>1. l \in 0..LastLevel(mode) /\ l - 1 \in 0..LastLevel(mode)
    BY <1>1
  <2>2. /\ Span(mode, l) \in Nat \ {0} /\ Span(mode, l - 1) \in Nat \ {0}
        /\ Span(mode, l - 1) = Span(mode, l) * SIZE_4K /\ PagetableSize(mode, l) = SIZE_4K
        /\ PteOffset(mode, va, l) = (va \div Span(mode, l)) % SIZE_4K
    BY <1>1, <2>1
  <2>3. PICK n \in Nat \ {0} : WalkBits(mode) = Span(mode, l - 1) * n
    BY <1>1, <2>1
  <2>4. PICK p, q, r, s, t :
          /\ Splits(va, Span(mode, l - 1), p, r) /\ Splits(p, n, q, s)
          /\ Splits(va, WalkBits(mode), q, t) /\ Splits(t, Span(mode, l - 1), s, r)
    <3>1. Span(mode, l - 1) \in Nat \ {0} /\ WalkBits(mode) = Span(mode, l - 1) * n
      BY <2>2, <2>3
    <3> QED
      BY <3>1, DivideTwice, Zenon
  <2>5. PICK p2, q2, r2, s2, t2 :
          /\ Splits(va, Span(mode, l), p2, r2) /\ Splits(p2, SIZE_4K, q2, s2)
          /\ Splits(va, Span(mode, l - 1), q2, t2) /\ Splits(t2, Span(mode, l), s2, r2)
    BY <1>1, <2>2, DivideTwice
  <2>6. t \in Int
    BY <2>4 DEF Splits
  <2>7. PICK p3, q3, r3, s3, t3 :
          /\ Splits(t, Span(mode, l), p3, r3) /\ Splits(p3, SIZE_4K, q3, s3)
          /\ Splits(t, Span(mode, l - 1), q3, t3) /\ Splits(t3, Span(mode, l), s3, r3)
    <3>1. Span(mode, l) \in Nat \ {0} /\ Span(mode, l - 1) = Span(mode, l) * SIZE_4K
      BY <2>2
    <3>2. SIZE_4K \in Nat \ {0}
      BY <1>1
    <3> QED
      BY <2>6, <3>1, <3>2, DivideTwice, Zenon
  <2>8. q3 = s /\ t3 = r /\ r = t2
    BY <2>4, <2>5, <2>7, Zenon DEF Splits
  <2>9. s3 = s2
    BY <2>5, <2>7, <2>8, Zenon DEF Splits
  <2>10. PteOffset(mode, va, l) = s2
    BY <2>2, <2>5, Zenon DEF Splits
  <2>11. Index(mode, va, l) = p3 /\ Index(mode, va, l - 1) = s
    BY <2>4, <2>7, Zenon DEF Splits, Index
  <2>12. p3 = q3 * SIZE_4K + s3 /\ s3 \in Int /\ 0 <= s3 /\ s3 < SIZE_4K
    BY <2>7 DEF Splits
  <2> QED
    BY <1>1, <2>8, <2>9, <2>10, <2>11, <2>12
<1>5. 0 \in 0..LastLevel(mode)
  BY <1>1
<1> QED
  BY <1>2, <1>3, <1>4, Zenon

(* The mask is no wider than the addresses that a walk tells apart, and    *)
(* wide enough for one whose first field is no larger than the others.     *)
LEMMA MaskWidth ==
  ASSUME NEW mode \in DOMAIN Levels
  PROVE  \E B, c \in Nat \ {0} :
           /\ \A va : MaskVa(mode, va) = va % B
           /\ WalkBits(mode) = B * c /\ Span(mode, 0) * SIZE_4K <= B
<1> DEFINE L == Levels[mode]
           base == VpnBits * L + VpnBits
           B == 2^VaBits(mode)
<1>1. /\ VpnBits \in Nat \ {0} /\ Xlen \in Nat /\ 5 * VpnBits + 2 <= Xlen /\ L \in {3, 4}
  BY WidthsAssumption DEF Levels
<1>2. /\ base \in 0..Xlen /\ base + 2 \in 0..Xlen /\ base \in Nat
      /\ base + 1 \in 0..Xlen /\ base + 1 <= Xlen /\ base + 1 + 1 = base + 2 /\ 1 \in 0..Xlen
  BY <1>1
<1>3. VaBits(mode) = base + (IF IsX4(mode) THEN 1 ELSE 0)
  <2>1. L - 0 = L
    BY <1>1
  <2> QED
    BY <1>2, <2>1 DEF VaBits, VpnLsb
<1>4. WalkBits(mode) = 2^(base + (IF IsX4(mode) THEN 2 ELSE 0))
  <2>1. L - 0 = L
    BY <1>1
  <2>2. VaVpnBits(mode, 0)[1] = VpnBits * L + VpnBits - 1 + (IF IsX4(mode) THEN 2 ELSE 0)
    BY <2>1 DEF VaVpnBits, VpnLsb
  <2>3. VpnBits * L \in Int
    BY <1>1
  <2>4. VaVpnBits(mode, 0)[1] + 1 = base + (IF IsX4(mode) THEN 2 ELSE 0)
    BY <1>1, <2>2, <2>3
  <2> QED
    BY <2>4 DEF WalkBits
<1>5. 2^base = Span(mode, 0) * SIZE_4K
  <2>1. /\ L - 0 = L /\ VpnBits * L \in 0..Xlen /\ VpnBits \in 0..Xlen
        /\ VpnBits * L + VpnBits <= Xlen
    BY <1>1
  <2>2. 2^(VpnBits * L + VpnBits) = 2^(VpnBits * L) * 2^VpnBits
    BY <2>1, PowersAssumption
  <2>3. Span(mode, 0) = 2^(VpnBits * L)
    BY <2>1 DEF Span, VpnLsb
  <2> QED
    BY <2>2, <2>3, Zenon DEF SIZE_4K
<1> HIDE DEF base
<1>6. 2^1 \in Nat \ {0} /\ 2^base \in Nat \ {0} /\ 2^(base + 1) \in Nat \ {0}
  BY <1>2, PowersAssumption
<1>7. 2^(base + 1 + 1) = 2^(base + 1) * 2^1 /\ 2^(base + 1) = 2^base * 2^1
  <2>1. base + 1 + 1 <= Xlen
    BY <1>2
  <2>2. \A m, n \in 0..Xlen : m + n <= Xlen => 2^(m + n) = 2^m * 2^n
    BY PowersAssumption
  <2> QED
    BY <1>2, <2>1, <2>2, Zenon
<1>8. \A va : MaskVa(mode, va) = va % B
  BY DEF MaskVa
<1>9. CASE ~IsX4(mode)
  <2>1. B = 2^base /\ WalkBits(mode) = 2^base
    BY <1>2, <1>3, <1>4, <1>9
  <2> HIDE DEF B
  <2>2. WalkBits(mode) = B * 1 /\ 2^base <= B /\ B \in Nat \ {0}
    BY <1>6, <2>1
  <2> QED
    BY <1>5, <1>8, <2>2
<1>10. CASE IsX4(mode)
  <2>1. B = 2^(base + 1) /\ WalkBits(mode) = 2^(base + 2)
    BY <1>2, <1>3, <1>4, <1>10
  <2> HIDE DEF B
  <2>2. B \in Nat \ {0} /\ WalkBits(mode) = B * 2^1 /\ B = 2^base * 2^1
    BY <1>2, <1>6, <1>7, <2>1
  <2>3. 2^base * 2^1 >= 2^base
    BY <1>6
  <2> QED
    BY <1>5, <1>6, <1>8, <2>2, <2>3
<1> QED
  BY <1>9, <1>10

LEMMA MaskKeeps ==
  ASSUME NEW mode \in DOMAIN Levels, NEW va \in Int, Index(mode, va, 0) < SIZE_4K
  PROVE  MaskVa(mode, va) = va % WalkBits(mode)
<1>1. PICK B \in Nat \ {0}, c \in Nat \ {0} :
        /\ \A x : MaskVa(mode, x) = x % B
        /\ WalkBits(mode) = B * c /\ Span(mode, 0) * SIZE_4K <= B
  BY MaskWidth
<1>2. 0 \in 0..LastLevel(mode)
  BY PowerFacts
<1>3. Span(mode, 0) \in Nat \ {0} /\ SIZE_4K \in Nat \ {0}
  BY <1>2, PowerFacts
<1>4. PICK p, q, r, s, t : /\ Splits(va, B, p, r) /\ Splits(p, c, q, s)
                           /\ Splits(va, WalkBits(mode), q, t) /\ Splits(t, B, s, r)
  BY <1>1, DivideTwice
<1>5. t < B /\ 0 <= t /\ t \in Int
  <2>1. t \in Int /\ 0 <= t
    BY <1>4 DEF Splits
  <2>2. PICK i, j : Splits(t, Span(mode, 0), i, j)
    BY <1>3, <2>1, Splitting
  <2>3. Index(mode, va, 0) = i
    BY <1>4, <2>2 DEF Splits, Index
  <2>4. i \in Int /\ j \in Int /\ j < Span(mode, 0) /\ t = i * Span(mode, 0) + j /\ i <= SIZE_4K - 1
    BY <1>3, <2>2, <2>3 DEF Splits
  <2>5. PICK a \in Int, b \in Int : a = i * Span(mode, 0) /\ b = SIZE_4K * Span(mode, 0)
    BY <1>3, <2>4
  <2>6. (SIZE_4K - 1) * Span(mode, 0) = b - Span(mode, 0) /\ b = Span(mode, 0) * SIZE_4K
    BY <1>3, <2>5
  <2>7. a <= (SIZE_4K - 1) * Span(mode, 0)
    BY <1>3, <2>4, <2>5
  <2> QED
    BY <1>1, <1>3, <2>1, <2>4, <2>5, <2>6, <2>7
<1>6. t = 0 * B + t
  BY <1>1, <1>5
<1>7. t % B = t
  BY <1>1, <1>5, <1>6, QuotientRemainder
<1>8. MaskVa(mode, va) = r /\ r = t % B /\ t = va % WalkBits(mode)
  BY <1>1, <1>4, Zenon DEF Splits
<1> QED
  BY <1>7, <1>8

(* All the addresses are in the range of the root.                         *)
LEMMA RootBase ==
  ASSUME NEW mode \in DOMAIN Levels, NEW va \in Int
  PROVE  (MaskVa(mode, va) \div TableRange(mode, 0)) * TableRange(mode, 0) = 0
<1>1. PICK B \in Nat \ {0}, c \in Nat \ {0} :
        /\ \A x : MaskVa(mode, x) = x % B
        /\ WalkBits(mode) = B * c
  BY MaskWidth
<1>2. TableRange(mode, 0) = WalkBits(mode) /\ WalkBits(mode) \in Nat \ {0}
  BY PowerFacts
<1>3. PICK q, r : Splits(va, B, q, r)
  BY <1>1, Splitting
<1>4. MaskVa(mode, va) = r /\ r \in Int /\ 0 <= r /\ r < B
  BY <1>1, <1>3 DEF Splits
<1>5. B * c >= B
  BY <1>1
<1>6. r < WalkBits(mode) /\ r = 0 * WalkBits(mode) + r
  BY <1>1, <1>2, <1>4, <1>5
<1>7. r \div WalkBits(mode) = 0
  BY <1>2, <1>4, <1>6, QuotientRemainder
<1> QED
  BY <1>2, <1>4, <1>7

(* An address is in the page of an aligned source exactly when the two     *)
(* have the same index.                                                    *)
LEMMA InPage ==
  ASSUME NEW mode \in DOMAIN Levels, NEW l \in 0..LastLevel(mode),
         NEW va \in Int, NEW src \in Int
  PROVE  src % Span(mode, l) = 0 =>
         /\ (va - src) % WalkBits(mode) < Span(mode, l)
              <=> Index(mode, va, l) = Index(mode, src, l)
         /\ Index(mode, va, l) = Index(mode, src, l) =>
              (va - src) % WalkBits(mode) = va % Span(mode, l)
<1>0. SUFFICES ASSUME src % Span(mode, l) = 0
               PROVE  /\ (va - src) % WalkBits(mode) < Span(mode, l)
                           <=> Index(mode, va, l) = Index(mode, src, l)
                      /\ Index(mode, va, l) = Index(mode, src, l) =>
                           (va - src) % WalkBits(mode) = va % Span(mode, l)
  OBVIOUS
<1> DEFINE d == Span(mode, l)
           W == WalkBits(mode)
<1>1. d \in Nat \ {0} /\ W \in Nat \ {0}
  BY PowerFacts
<1>2. PICK n \in Nat \ {0} : W = d * n
  BY PowerFacts
<1> HIDE DEF d, W
<1>3. PICK p, q, r, s, t : /\ Splits(va, d, p, r) /\ Splits(p, n, q, s)
                           /\ Splits(va, W, q, t) /\ Splits(t, d, s, r)
  BY <1>1, <1>2, DivideTwice
<1>4. PICK p2, q2, r2, s2, t2 : /\ Splits(src, d, p2, r2) /\ Splits(p2, n, q2, s2)
                                /\ Splits(src, W, q2, t2) /\ Splits(t2, d, s2, r2)
  BY <1>1, <1>2, DivideTwice, Zenon
<1>5. r2 = 0
  BY <1>0, <1>4 DEF Splits, d
<1>6. Index(mode, va, l) = s /\ Index(mode, src, l) = s2 /\ r = va % d
  BY <1>3, <1>4, Zenon DEF Index, Splits, d, W
<1>7. /\ q \in Int /\ s \in Int /\ r \in Int /\ t \in Int /\ 0 <= r /\ r < d
      /\ va = q * W + t /\ t = s * d + r
  BY <1>3 DEF Splits
<1>8. /\ q2 \in Int /\ s2 \in Int /\ t2 \in Int /\ 0 <= s2 /\ s2 < n
      /\ src = q2 * W + t2 /\ t2 = s2 * d
  <2>1. /\ q2 \in Int /\ s2 \in Int /\ t2 \in Int /\ 0 <= s2 /\ s2 < n
        /\ src = q2 * W + t2 /\ t2 = s2 * d + r2
    BY <1>4 DEF Splits
  <2>2. PICK a \in Int : a = s2 * d
    BY <1>1, <2>1
  <2> QED
    BY <1>5, <2>1, <2>2
<1>9. PICK x \in Int : x = va - src
  OBVIOUS
<1>10. d <= W
  <2>1. d * n >= d
    BY <1>1, <1>2
  <2> QED
    BY <1>2, <2>1
<1>11. ASSUME s = s2
       PROVE  x % W = r
  <2>1. t = t2 + r
    BY <1>7, <1>8, <1>11
  <2>2. (q - q2) * W = q * W - q2 * W /\ q - q2 \in Int
    BY <1>1, <1>7, <1>8
  <2>3. PICK k \in Int : k = q - q2
    BY <2>2
  <2>4. x = k * W + r /\ r < W
    <3>1. q * W \in Int /\ q2 * W \in Int
      BY <1>1, <1>7, <1>8
    <3> QED
      BY <1>1, <1>7, <1>8, <1>9, <1>10, <2>1, <2>2, <2>3, <3>1
  <2> QED
    BY <1>1, <1>7, <2>4, QuotientRemainder
<1>12. ASSUME x % W < d
       PROVE  s = s2
  <2>1. PICK k, e : Splits(x, W, k, e)
    BY <1>1, <1>9, Splitting
  <2>2. k \in Int /\ e \in Int /\ 0 <= e /\ e < d /\ x = k * W + e
    BY <1>12, <2>1 DEF Splits
  <2>3. PICK u \in Int : u = t2 + e
    BY <1>8, <2>2
  <2>4. 0 <= u /\ u < W
    <3>1. 0 <= s2 * d
      BY <1>1, <1>8
    <3>2. (n - s2) * d = n * d - s2 * d /\ n - s2 >= 1
      BY <1>1, <1>8
    <3>3. (n - s2) * d >= d
      BY <1>1, <1>8, <3>2
    <3> QED
      BY <1>1, <1>2, <1>8, <2>2, <2>3, <3>1, <3>2, <3>3
  <2>5. (q2 + k) * W = q2 * W + k * W /\ q2 + k \in Int
    BY <1>1, <1>8, <2>2
  <2>6. PICK j \in Int : j = q2 + k
    BY <2>5
  <2>7. va = j * W + u
    <3>1. PICK a \in Int : a = q2 * W
      BY <1>1, <1>8
    <3>2. PICK b \in Int : b = k * W
      BY <1>1, <2>2
    <3>3. src = a + t2 /\ x = b + e /\ j * W = a + b
      BY <1>8, <2>2, <2>5, <2>6, <3>1, <3>2
    <3> QED
      BY <1>8, <1>9, <2>2, <2>3, <3>1, <3>2, <3>3
  <2>8. va % W = u
    BY <1>1, <2>4, <2>7, QuotientRemainder
  <2>9. t = u
    BY <1>3, <2>8 DEF Splits
  <2>10. u = s2 * d + e
    BY <1>8, <2>3
  <2>11. u \div d = s2
    BY <1>1, <1>8, <2>2, <2>10, QuotientRemainder
  <2>12. s = t \div d
    BY <1>3 DEF Splits
  <2> QED
    BY <2>9, <2>11, <2>12
<1>13. x % W < d <=> s = s2
  BY <1>1, <1>7, <1>11, <1>12
<1> QED
  BY <1>6, <1>9, <1>11, <1>13, Zenon DEF d, W

(* The pages of a mapping, in the addresses that the walk tells apart: va  *)
(* is in page n of num from src, of a size d, and so far into it.          *)
OnPage(src, d, num, W, va, n) ==
  LET from == src + (n - 1) * d IN
  /\ n \in 1..num /\ (va - from) % W < d
  /\ (n - 1) * d + ((va - from) % W) = (va - src) % W
LEMMA PageFound ==
  ASSUME NEW W \in Nat \ {0}, NEW d \in Nat \ {0}, NEW num \in Int, NEW src \in Int, NEW va \in Int
  PROVE  (va - src) % W < d * num =>
         \E n : OnPage(src, d, num, W, va, n)
<1>0. SUFFICES ASSUME (va - src) % W < d * num
               PROVE  \E n \in 1..num : LET from == src + (n - 1) * d IN
                        /\ (va - from) % W < d
                        /\ (n - 1) * d + ((va - from) % W) = (va - src) % W
  BY DEF OnPage
<1>1. PICK x \in Int : x = va - src
  OBVIOUS
<1>2. PICK k, D : Splits(x, W, k, D)
  BY <1>1, Splitting
<1>3. PICK i, r : Splits(D, d, i, r)
  BY <1>2, Splitting DEF Splits
<1>40. D = (va - src) % W
  BY <1>1, <1>2 DEF Splits
<1>4. /\ k \in Int /\ D \in Int /\ 0 <= D /\ D < W /\ x = k * W + D
      /\ i \in Int /\ r \in Int /\ 0 <= r /\ r < d /\ D = i * d + r
  BY <1>2, <1>3 DEF Splits
<1>8. PICK a \in Int : a = i * d /\ D = a + r
  BY <1>4
<1>5. 0 <= i
  <2> SUFFICES ASSUME i <= 0 - 1 PROVE FALSE
    BY <1>4
  <2>1. i * d <= 0 - d
    BY <1>4
  <2> QED
    BY <1>4, <1>8, <2>1
<1>6. i < num
  <2> SUFFICES ASSUME num <= i PROVE FALSE
    BY <1>4
  <2>1. D < d * num
    BY <1>0, <1>40
  <2>2. PICK b \in Int : b = num * d /\ b = d * num
    OBVIOUS
  <2>3. (i - num) * d = a - b /\ i - num >= 0
    BY <1>4, <1>8, <2>2
  <2>4. (i - num) * d >= 0
    BY <1>4, <2>3
  <2> QED
    BY <1>4, <1>8, <2>1, <2>2, <2>3, <2>4
<1>7. PICK n \in 1..num : n = i + 1
  BY <1>4, <1>5, <1>6
<1>9. (n - 1) * d = a
  BY <1>4, <1>7, <1>8
<1>10. PICK from \in Int : from = src + a
  BY <1>8
<1>11. (va - from) % W = r
  <2>1. a >= 0
    <3>1. i * d >= 0
      BY <1>4, <1>5
    <3> QED
      BY <1>8, <3>1
  <2>2. r < W
    BY <1>4, <1>8, <2>1
  <2>3. PICK y \in Int : y = va - from
    OBVIOUS
  <2>4. PICK b \in Int : b = k * W
    BY <1>4
  <2>5. y = k * W + r
    <3>1. x = b + D
      BY <1>4, <2>4
    <3>2. y = b + r
      BY <1>1, <1>4, <1>8, <1>10, <2>3, <2>4, <3>1
    <3> QED
      BY <2>4, <3>2
  <2>6. y % W = r
    BY <1>4, <2>2, <2>5, QuotientRemainder
  <2> QED
    BY <2>3, <2>6
<1>12. src + (n - 1) * d = from
  BY <1>9, <1>10
<1>13. (n - 1) * d + r = (va - src) % W
  BY <1>4, <1>8, <1>9, <1>40
<1>14. (va - from) % W < d /\ (n - 1) * d + ((va - from) % W) = (va - src) % W
  BY <1>4, <1>11, <1>13
<1> QED
  BY <1>12, <1>14

LEMMA PageInside ==
  ASSUME NEW W \in Nat \ {0}, NEW d \in Nat \ {0}, NEW num \in Int, NEW src \in Int, NEW va \in Int,
         NEW n \in 1..num
  PROVE  (va - (src + (n - 1) * d)) % W < d => (va - src) % W < d * num
<1>0. SUFFICES ASSUME (va - (src + (n - 1) * d)) % W < d PROVE (va - src) % W < d * num
  OBVIOUS
<1>1. PICK a \in Int : a = (n - 1) * d
  OBVIOUS
<1>2. a >= 0 /\ a + d <= d * num
  <2>1. (num - n) * d >= 0
    <3>1. num - n >= 0
      OBVIOUS
    <3> QED
      BY <3>1
  <2>2. (num - n) * d = num * d - n * d /\ (n - 1) * d = n * d - d
    OBVIOUS
  <2>3. (n - 1) * d >= 0
    <3>1. n - 1 >= 0
      OBVIOUS
    <3> QED
      BY <3>1
  <2>4. n * d \in Int /\ num * d \in Int /\ d * num = num * d
    OBVIOUS
  <2> QED
    BY <1>1, <2>1, <2>2, <2>3, <2>4
<1>3. PICK y \in Int : y = va - (src + a)
  BY <1>1
<1>4. PICK k, r : Splits(y, W, k, r)
  BY <1>3, Splitting
<1>5. /\ k \in Int /\ r \in Int /\ 0 <= r /\ r < d /\ y = k * W + r
  BY <1>0, <1>1, <1>3, <1>4 DEF Splits
<1>6. PICK x \in Int : x = va - src
  OBVIOUS
<1>7. PICK j, D : Splits(x, W, j, D)
  BY <1>6, Splitting
<1>8. /\ j \in Int /\ D \in Int /\ 0 <= D /\ D < W /\ x = j * W + D
  BY <1>7 DEF Splits
<1>9. D <= r + a
  <2> SUFFICES ASSUME D > r + a PROVE FALSE
    BY <1>1, <1>5, <1>8
  <2>1. PICK c \in Int : c = r + a
    BY <1>1, <1>5
  <2>2. PICK b \in Int : b = k * W
    BY <1>5
  <2>3. x = k * W + c /\ 0 <= c /\ c < W
    BY <1>1, <1>2, <1>3, <1>5, <1>6, <1>8, <2>1, <2>2
  <2>4. x % W = c
    BY <1>5, <2>1, <2>3, QuotientRemainder
  <2>5. x % W = D
    BY <1>7 DEF Splits
  <2> QED
    BY <2>1, <2>4, <2>5
<1>10. D < d * num
  BY <1>1, <1>2, <1>5, <1>8, <1>9
<1>11. (va - src) % W = D
  BY <1>6, <1>7 DEF Splits
<1> QED
  BY <1>10, <1>11

----------------------------------------------------------------------------
(* Page numbers in an entry                                                *)

(* An entry holds the page number fields of an address down to the page:   *)
(* put in place one by one they give back the address, without its offset  *)
(* in the page.                                                            *)
PlacedTo(mode, pa, l) ==
  IF l = 0 THEN 0 ELSE (pa \div Span(mode, l - 1)) * Span(mode, l - 1)

LEMMA PpnFields ==
  ASSUME NEW mode \in DOMAIN Levels, NEW l \in 0..LastLevel(mode)
  PROVE  /\ \A v : ExtractBits(v, PaPpnBits(mode, l)) =
                     (v \div Span(mode, l)) % (IF l = 0 THEN 2^(PaBits - VpnLsb(mode, 0)) ELSE SIZE_4K)
         /\ \A v, b : PlaceBits(v, b, PaPpnBits(mode, l)) =
                        v + (b - ExtractBits(v, PaPpnBits(mode, l))) * Span(mode, l)
         /\ 2^(PaBits - VpnLsb(mode, 0)) \in Nat \ {0}
         /\ 2^PaBits = Span(mode, 0) * 2^(PaBits - VpnLsb(mode, 0))
<1> DEFINE lsb == VpnLsb(mode, l)
           low == VpnLsb(mode, 0)
           field == PaPpnBits(mode, l)
<1>1. /\ VpnBits \in Nat \ {0} /\ Xlen \in Nat /\ PaBits \in Nat /\ PaBits <= Xlen
      /\ 4 * VpnBits <= PaBits /\ Levels[mode] \in {3, 4}
      /\ l \in 0..Levels[mode] - 1
  BY WidthsAssumption DEF Levels, LastLevel
<1>2. lsb \in 0..4 * VpnBits /\ low \in 0..4 * VpnBits
  <2>1. Levels[mode] - l \in {1, 2, 3, 4} /\ Levels[mode] - 0 \in {3, 4}
    BY <1>1
  <2> QED
    BY <1>1, <2>1 DEF VpnLsb
<1>3. field = <<IF l = 0 THEN PaBits - 1 ELSE lsb + VpnBits - 1, lsb>>
  BY DEF PaPpnBits
<1>4. Span(mode, l) = 2^lsb /\ Span(mode, 0) = 2^low
  BY DEF Span
<1>5. l = 0 => lsb = low
  OBVIOUS
<1> HIDE DEF lsb, low, field
<1>6. field[2] = lsb
  BY <1>3
<1>7. field[1] - field[2] + 1 = IF l = 0 THEN PaBits - low ELSE VpnBits
  BY <1>1, <1>2, <1>3, <1>5
<1>8. \A v : ExtractBits(v, field) = (v \div Span(mode, l)) % (IF l = 0 THEN 2^(PaBits - low) ELSE SIZE_4K)
  <2>1. ASSUME NEW v PROVE ExtractBits(v, field) = (v \div 2^lsb) % 2^(IF l = 0 THEN PaBits - low ELSE VpnBits)
    BY <1>6, <1>7, Zenon DEF ExtractBits
  <2>2. CASE l = 0
    BY <1>4, <2>1, <2>2
  <2>3. CASE l # 0
    BY <1>4, <2>1, <2>3 DEF SIZE_4K
  <2> QED
    BY <2>2, <2>3
<1>9. \A v, b : PlaceBits(v, b, field) = v + (b - ExtractBits(v, field)) * Span(mode, l)
  BY <1>4, <1>6, Zenon DEF PlaceBits
<1>10. PaBits - low \in 0..Xlen /\ low \in 0..Xlen /\ low + (PaBits - low) = PaBits
  BY <1>1, <1>2
<1>11. 2^(PaBits - low) \in Nat \ {0}
  BY <1>10, PowersAssumption
<1>12. 2^(low + (PaBits - low)) = 2^low * 2^(PaBits - low)
  BY <1>1, <1>10, PowersAssumption
<1>13. 2^PaBits = Span(mode, 0) * 2^(PaBits - low)
  BY <1>4, <1>10, <1>12, Zenon
<1> QED
  BY <1>8, <1>9, <1>11, <1>13, Zenon DEF field, low

LEMMA PlaceOne ==
  ASSUME NEW mode \in DOMAIN Levels, NEW l \in 1..Levels[mode], NEW pa \in Int, 0 <= pa, pa < 2^PaBits
  PROVE  PlaceBits(PlacedTo(mode, pa, l - 1), Ppns(mode, pa)[l - 1], PaPpnBits(mode, l - 1))
           = PlacedTo(mode, pa, l)
<1>1. /\ SIZE_4K \in Nat \ {0} /\ Levels[mode] \in 3..4 /\ LastLevel(mode) = Levels[mode] - 1
      /\ \A k \in 0..LastLevel(mode) : Span(mode, k) \in Nat \ {0}
      /\ \A k \in 1..LastLevel(mode) : Span(mode, k - 1) = Span(mode, k) * SIZE_4K
  BY PowerFacts DEF LastLevel
<1>2. l - 1 \in 0..LastLevel(mode) /\ l # 0 /\ l - 1 \in 0..Levels[mode] - 1
  BY <1>1
<1> DEFINE S == Span(mode, l - 1)
           field == PaPpnBits(mode, l - 1)
           value == PlacedTo(mode, pa, l - 1)
           bits == Ppns(mode, pa)[l - 1]
<1>3. bits = ExtractBits(pa, field)
  BY <1>2 DEF Ppns
<1>4. S \in Nat \ {0} /\ PlacedTo(mode, pa, l) = (pa \div S) * S
  BY <1>1, <1>2 DEF PlacedTo
<1>5. PlaceBits(value, bits, field) = value + (bits - ExtractBits(value, field)) * S
  BY <1>2, PpnFields
<1>6. CASE l = 1
  <2> DEFINE N == 2^(PaBits - VpnLsb(mode, 0))
  <2>1. N \in Nat \ {0} /\ 2^PaBits = S * N /\ \A v : ExtractBits(v, field) = (v \div S) % N
    BY <1>2, <1>6, PpnFields
  <2>2. value = 0
    BY <1>6 DEF PlacedTo
  <2> HIDE DEF N, S, field, value, bits
  <2>3. ExtractBits(0, field) = 0
    <3>1. 0 = 0 * S + 0 /\ 0 = 0 * N + 0
      BY <1>4, <2>1
    <3>2. 0 \div S = 0 /\ 0 % N = 0
      BY <1>4, <2>1, <3>1, QuotientRemainder
    <3> QED
      BY <2>1, <3>2, Zenon
  <2>4. PICK p, r : Splits(pa, S, p, r)
    BY <1>4, Splitting
  <2>5. p \in Int /\ r \in Int /\ 0 <= r /\ r < S /\ pa = p * S + r /\ p = pa \div S
    BY <2>4 DEF Splits
  <2>6. 0 <= p
    <3> SUFFICES ASSUME p <= 0 - 1 PROVE FALSE
      BY <2>5
    <3>1. PICK a \in Int : a = p * S
      BY <1>4, <2>5
    <3>2. p * S <= 0 - S
      BY <1>4, <2>5
    <3> QED
      BY <1>4, <2>5, <3>1, <3>2
  <2>7. p < N
    <3> SUFFICES ASSUME N <= p PROVE FALSE
      BY <2>1, <2>5
    <3>1. PICK a \in Int, b \in Int : a = p * S /\ b = N * S /\ b = S * N
      BY <1>4, <2>1, <2>5
    <3>2. (p - N) * S = a - b /\ p - N >= 0
      BY <1>4, <2>1, <2>5, <3>1
    <3>3. (p - N) * S >= 0
      BY <1>4, <2>1, <2>5, <3>2
    <3> QED
      BY <1>4, <2>1, <2>5, <3>1, <3>2, <3>3
  <2>8. p % N = p
    <3>1. p = 0 * N + p
      BY <2>1, <2>5
    <3> QED
      BY <2>1, <2>5, <2>6, <2>7, <3>1, QuotientRemainder
  <2>9. bits = p
    BY <1>3, <2>1, <2>5, <2>8
  <2>10. PlaceBits(value, bits, field) = 0 + (p - 0) * S
    BY <1>5, <2>2, <2>3, <2>9
  <2>11. 0 + (p - 0) * S = p * S
    BY <1>4, <2>5
  <2> QED
    BY <1>4, <2>5, <2>10, <2>11 DEF value, bits, field
<1>7. CASE l # 1
  <2> DEFINE S2 == Span(mode, l - 2)
  <2>1. l - 1 # 0 /\ l - 1 \in 1..LastLevel(mode) /\ l - 1 - 1 = l - 2 /\ l - 2 \in 0..LastLevel(mode)
    BY <1>1, <1>2, <1>7
  <2>2. S2 = S * SIZE_4K /\ S2 \in Nat \ {0}
    BY <1>1, <2>1
  <2>3. \A v : ExtractBits(v, field) = (v \div S) % SIZE_4K
    BY <1>2, <2>1, PpnFields
  <2>4. value = (pa \div S2) * S2
    BY <2>1 DEF PlacedTo
  <2> HIDE DEF S, S2, field, value, bits
  <2>5. PICK p, q, r, s, t : /\ Splits(pa, S, p, r) /\ Splits(p, SIZE_4K, q, s)
                             /\ Splits(pa, S2, q, t) /\ Splits(t, S, s, r)
    BY <1>1, <1>4, <2>2, DivideTwice
  <2>6. /\ p \in Int /\ q \in Int /\ s \in Int /\ p = q * SIZE_4K + s
        /\ p = pa \div S /\ q = pa \div S2 /\ s = p % SIZE_4K
    BY <2>5 DEF Splits
  <2>7. PICK x \in Int : x = q * SIZE_4K
    BY <1>1, <2>6
  <2>8. PICK v \in Int : v = value /\ v = x * S + 0
    <3>1. q * (S * SIZE_4K) = (q * SIZE_4K) * S
      BY <1>1, <1>4, <2>6
    <3>2. q * S2 \in Int
      BY <2>2, <2>6
    <3>3. value = q * S2
      BY <2>4, <2>6
    <3>4. value = x * S /\ value \in Int
      BY <2>2, <2>7, <3>1, <3>2, <3>3
    <3> QED
      BY <3>4
  <2>9. v \div S = x
    BY <1>4, <2>7, <2>8, QuotientRemainder
  <2>10. x % SIZE_4K = 0
    <3>1. x = q * SIZE_4K + 0
      BY <2>7
    <3> QED
      BY <1>1, <2>6, <2>7, <3>1, QuotientRemainder
  <2>11. ExtractBits(value, field) = 0
    BY <2>3, <2>8, <2>9, <2>10
  <2>12. bits = s
    BY <1>3, <2>3, <2>6
  <2>13. PlaceBits(value, bits, field) = x * S + (s - 0) * S
    <3>1. value = x * S
      BY <1>4, <2>7, <2>8
    <3> QED
      BY <1>5, <2>11, <2>12, <3>1
  <2>14. x * S + (s - 0) * S = p * S
    <3>1. p = x + s
      BY <2>6, <2>7
    <3>2. (x + s) * S = x * S + s * S /\ s - 0 = s
      BY <1>4, <2>6, <2>7
    <3> QED
      BY <3>1, <3>2
  <2> QED
    BY <1>4, <2>6, <2>13, <2>14 DEF value, bits, field
<1> QED
  BY <1>6, <1>7

LEMMA TargetOfPte ==
  ASSUME NEW mode \in DOMAIN Levels, NEW pte, NEW pa \in Int, 0 <= pa, pa < 2^PaBits,
         pte.ppn = Ppns(mode, pa)
  PROVE  PteTarget(mode, pte) = (pa \div SIZE_4K) * SIZE_4K
<1> DEFINE L == Levels[mode]
           Next1(f, l) == IF l = 0 THEN 0 ELSE PlaceBits(f[l - 1], pte.ppn[l - 1], PaPpnBits(mode, l - 1))
           Places(f) == f = [l \in 0..L |-> Next1(f, l)]
           g == [l \in 0..L |-> PlacedTo(mode, pa, l)]
           placed == CHOOSE f : Places(f)
<1>1. L \in 3..4
  BY PowerFacts
<1>2. \A f : \A l \in 1..L : f[l - 1] = PlacedTo(mode, pa, l - 1) => Next1(f, l) = PlacedTo(mode, pa, l)
  <2> SUFFICES ASSUME NEW f, NEW l \in 1..L, f[l - 1] = PlacedTo(mode, pa, l - 1)
               PROVE  Next1(f, l) = PlacedTo(mode, pa, l)
    OBVIOUS
  <2>1. l # 0
    BY <1>1
  <2>2. PlaceBits(PlacedTo(mode, pa, l - 1), Ppns(mode, pa)[l - 1], PaPpnBits(mode, l - 1))
           = PlacedTo(mode, pa, l)
    BY PlaceOne
  <2> QED
    BY <2>1, <2>2
<1>3. \A f : Next1(f, 0) = 0 /\ PlacedTo(mode, pa, 0) = 0
  BY DEF PlacedTo
<1>4. Places(g)
  <2>1. ASSUME NEW l \in 0..L PROVE PlacedTo(mode, pa, l) = Next1(g, l)
    <3>1. CASE l = 0
      BY <1>3, <3>1
    <3>2. CASE l # 0
      <4>1. l \in 1..L /\ l - 1 \in 0..L
        BY <1>1, <3>2
      <4>2. g[l - 1] = PlacedTo(mode, pa, l - 1)
        BY <4>1
      <4> QED
        BY <1>2, <4>1, <4>2
    <3> QED
      BY <3>1, <3>2
  <2> HIDE DEF Next1
  <2> QED
    BY <2>1, Zenon
<1> HIDE DEF g
<1>5. Places(placed)
  BY <1>4, Zenon
<1>6. PteTarget(mode, pte) = placed[L]
  BY Zenon DEF PteTarget
<1>7. \A l \in 0..L : placed[l] = Next1(placed, l)
  <2> HIDE DEF Next1, placed
  <2> QED
    BY <1>5
<1> HIDE DEF Next1, placed, Places
<1>8. placed[0] = PlacedTo(mode, pa, 0)
  <2>1. 0 \in 0..L
    BY <1>1
  <2> QED
    BY <1>3, <1>7, <2>1, Zenon
<1>9. \A l \in 1..L : placed[l - 1] = PlacedTo(mode, pa, l - 1) => placed[l] = PlacedTo(mode, pa, l)
  <2>1. \A l \in 1..L : l \in 0..L
    BY <1>1
  <2> QED
    BY <1>2, <1>7, <2>1, Zenon
<1>10. placed[1] = PlacedTo(mode, pa, 1)
  <2>1. 1 \in 1..L /\ 1 - 1 = 0
    BY <1>1
  <2> QED
    BY <1>8, <1>9, <2>1
<1>11. placed[2] = PlacedTo(mode, pa, 2)
  <2>1. 2 \in 1..L /\ 2 - 1 = 1
    BY <1>1
  <2> QED
    BY <1>9, <1>10, <2>1
<1>12. placed[3] = PlacedTo(mode, pa, 3)
  <2>1. 3 \in 1..L /\ 3 - 1 = 2
    BY <1>1
  <2> QED
    BY <1>9, <1>11, <2>1
<1>13. placed[L] = PlacedTo(mode, pa, L)
  <2>1. CASE L = 3
    BY <1>12, <2>1
  <2>2. CASE L = 4
    <3>1. 4 \in 1..L /\ 4 - 1 = 3
      BY <2>2
    <3> QED
      BY <1>9, <1>12, <2>2, <3>1
  <2> QED
    BY <1>1, <2>1, <2>2
<1>14. PlacedTo(mode, pa, L) = (pa \div SIZE_4K) * SIZE_4K
  <2>1. Span(mode, L - 1) = SIZE_4K /\ L # 0
    BY <1>1, PowerFacts DEF LastLevel
  <2> QED
    BY <2>1 DEF PlacedTo
<1> QED
  BY <1>6, <1>13, <1>14

----------------------------------------------------------------------------
(* Walks                                                                   *)

(* A walk, as the sequence of what it holds after each level: the address  *)
(* of a table, a leaf or a fault.                                          *)
Visited(from, memory, readable, mode, va, level) ==
  LET address == from.a + PteOffset(mode, va, level)
  IN IF from.kind # "table" THEN from
     ELSE IF address \notin readable THEN Fault
     ELSE IF ~Walkable(memory[address]) THEN Fault
     ELSE [kind |-> IF memory[address].xwr = 0 THEN "table" ELSE "leaf",
           a |-> PteTarget(mode, memory[address]), level |-> level,
           xwr |-> memory[address].xwr, umode |-> memory[address].umode]
Visiting(v, start, memory, readable, mode, va) ==
  v = [l \in 0..Levels[mode] |->
         IF l = 0 THEN [kind |-> "table", a |-> start]
         ELSE Visited(v[l - 1], memory, readable, mode, va, l - 1)]
LeafOf(v, mode) == IF v[Levels[mode]].kind = "leaf" THEN v[Levels[mode]] ELSE Fault

LEMMA VisitsExist ==
  ASSUME NEW mode \in DOMAIN Levels, NEW start, NEW memory, NEW readable, NEW va
  PROVE  \E v : Visiting(v, start, memory, readable, mode, va)
<1> DEFINE L == Levels[mode]
           first == [kind |-> "table", a |-> start]
           Then(from, l) == Visited(from, memory, readable, mode, va, l - 1)
           a1 == Then(first, 1)
           a2 == Then(a1, 2)
           a3 == Then(a2, 3)
           a4 == Then(a3, 4)
           g == [l \in 0..L |-> IF l = 0 THEN first ELSE IF l = 1 THEN a1 ELSE IF l = 2 THEN a2
                                ELSE IF l = 3 THEN a3 ELSE a4]
<1>1. L \in 3..4
  BY PowerFacts
<1> HIDE DEF Then
<1>2. g[0] = first /\ g[1] = a1 /\ g[2] = a2 /\ g[3] = a3 /\ (L = 4 => g[4] = a4)
  BY <1>1
<1>3. ASSUME NEW l \in 0..L
      PROVE  g[l] = IF l = 0 THEN first ELSE Then(g[l - 1], l)
  <2>0. l = 0 \/ l = 1 \/ l = 2 \/ l = 3 \/ (l = 4 /\ L = 4)
    BY <1>1
  <2> HIDE DEF g
  <2>1. CASE l = 0
    BY <1>2, <2>1
  <2>2. CASE l = 1
    BY <1>2, <2>2
  <2>3. CASE l = 2
    BY <1>2, <2>3
  <2>4. CASE l = 3
    BY <1>2, <2>4
  <2>5. CASE l = 4 /\ L = 4
    BY <1>2, <2>5
  <2> QED
    BY <2>0, <2>1, <2>2, <2>3, <2>4, <2>5
<1>4. g = [l \in 0..L |-> g[l]]
  OBVIOUS
<1> HIDE DEF g
<1>5. g = [l \in 0..L |-> IF l = 0 THEN first ELSE Then(g[l - 1], l)]
  BY <1>3, <1>4, Zenon
<1> QED
  BY <1>5 DEF Visiting, Then

LEMMA VisitsStep ==
  ASSUME NEW mode \in DOMAIN Levels, NEW start, NEW memory, NEW readable, NEW va, NEW v,
         Visiting(v, start, memory, readable, mode, va)
  PROVE  /\ v[0] = [kind |-> "table", a |-> start]
         /\ \A l \in 0..LastLevel(mode) : v[l + 1] = Visited(v[l], memory, readable, mode, va, l)
<1>1. Levels[mode] \in 3..4 /\ LastLevel(mode) = Levels[mode] - 1
  BY PowerFacts DEF LastLevel
<1>2. \A l \in 0..Levels[mode] :
        v[l] = IF l = 0 THEN [kind |-> "table", a |-> start]
               ELSE Visited(v[l - 1], memory, readable, mode, va, l - 1)
  BY DEF Visiting
<1>3. v[0] = [kind |-> "table", a |-> start]
  BY <1>1, <1>2
<1>4. ASSUME NEW l \in 0..LastLevel(mode)
      PROVE  v[l + 1] = Visited(v[l], memory, readable, mode, va, l)
  <2>1. l + 1 \in 0..Levels[mode] /\ l + 1 # 0 /\ l + 1 - 1 = l
    BY <1>1
  <2> QED
    BY <1>2, <2>1
<1> QED
  BY <1>3, <1>4

(* The two walks of the model, in these terms.                             *)
InTables(stage) == DOMAIN page_tables[stage].memory
LEMMA PlainWalk ==
  ASSUME NEW stage, Mode(stage) \in DOMAIN Levels, NEW va
  PROVE  \E v : /\ Visiting(v, page_tables[stage].start, page_tables[stage].memory,
                            InTables(stage), Mode(stage), va)
                /\ Walk(stage, va, LAMBDA a : TRUE) = LeafOf(v, Mode(stage))
<1> DEFINE mode == Mode(stage)
           memory == page_tables[stage].memory
           start == page_tables[stage].start
           Body(visit, l) ==
             IF l = 0 THEN [kind |-> "table", a |-> page_tables[stage].start]
             ELSE LET from == visit[l - 1]
                      address == from.a + PteOffset(mode, va, l - 1)
                  IN IF from.kind # "table" THEN from
                     ELSE IF ~TRUE \/ address \notin DOMAIN memory THEN Fault
                     ELSE IF ~Walkable(memory[address]) THEN Fault
                     ELSE [kind |-> IF memory[address].xwr = 0 THEN "table" ELSE "leaf",
                           a |-> PteTarget(mode, memory[address]), level |-> l - 1,
                           xwr |-> memory[address].xwr, umode |-> memory[address].umode]
           W(f) == f = [l \in 0..Levels[mode] |-> Body(f, l)]
           v == CHOOSE f : W(f)
<1>1. \A f, l : Body(f, l) = IF l = 0 THEN [kind |-> "table", a |-> start]
                             ELSE Visited(f[l - 1], memory, InTables(stage), mode, va, l - 1)
  BY DEF Visited, InTables
<1>2. PICK f : Visiting(f, start, memory, InTables(stage), mode, va)
  BY VisitsExist
<1>3. \A g : W(g) <=> Visiting(g, start, memory, InTables(stage), mode, va)
  <2> HIDE DEF Body
  <2> QED
    BY <1>1 DEF Visiting
<1>4. Walk(stage, va, LAMBDA a : TRUE) = LeafOf(v, mode)
  BY Zenon DEF Walk, LeafOf
<1> HIDE DEF W
<1>5. W(v)
  BY <1>2, <1>3, Zenon
<1> QED
  BY <1>3, <1>4, <1>5

(* What can be read by the walk of a guest's tables: what the next stage   *)
(* maps, if there is one.                                                  *)
ReadableBy(stage) ==
  {a \in InTables(stage) : NextStage[stage] = None \/ Walk("g", a, LAMBDA b : TRUE) # Fault}
LEMMA GuardedWalk ==
  ASSUME NEW stage, Mode(stage) \in DOMAIN Levels, NEW va
  PROVE  \E v : /\ Visiting(v, page_tables[stage].start, page_tables[stage].memory,
                            ReadableBy(stage), Mode(stage), va)
                /\ StageWalk(stage, va) = LeafOf(v, Mode(stage))
<1> DEFINE mode == Mode(stage)
           memory == page_tables[stage].memory
           start == page_tables[stage].start
           Readable(a) == NextStage[stage] = None \/ Walk("g", a, LAMBDA b : TRUE) # Fault
           Body(visit, l) ==
             IF l = 0 THEN [kind |-> "table", a |-> page_tables[stage].start]
             ELSE LET from == visit[l - 1]
                      address == from.a + PteOffset(mode, va, l - 1)
                  IN IF from.kind # "table" THEN from
                     ELSE IF ~Readable(address) \/ address \notin DOMAIN memory THEN Fault
                     ELSE IF ~Walkable(memory[address]) THEN Fault
                     ELSE [kind |-> IF memory[address].xwr = 0 THEN "table" ELSE "leaf",
                           a |-> PteTarget(mode, memory[address]), level |-> l - 1,
                           xwr |-> memory[address].xwr, umode |-> memory[address].umode]
           W(f) == f = [l \in 0..Levels[mode] |-> Body(f, l)]
           v == CHOOSE f : W(f)
<1>0. StageWalk(stage, va) = LeafOf(v, mode)
  BY Zenon DEF StageWalk, Walk, LeafOf
<1>1. \A f, l : Body(f, l) = IF l = 0 THEN [kind |-> "table", a |-> start]
                             ELSE Visited(f[l - 1], memory, ReadableBy(stage), mode, va, l - 1)
  <2>1. \A a : a \in ReadableBy(stage) <=> a \in DOMAIN memory /\ Readable(a)
    BY Zenon DEF ReadableBy, InTables
  <2> HIDE DEF Readable
  <2> QED
    BY <2>1 DEF Visited
<1>2. PICK f : Visiting(f, start, memory, ReadableBy(stage), mode, va)
  BY VisitsExist
<1>3. \A g : W(g) <=> Visiting(g, start, memory, ReadableBy(stage), mode, va)
  <2> HIDE DEF Body
  <2> QED
    BY <1>1 DEF Visiting
<1> HIDE DEF W
<1>5. W(v)
  BY <1>2, <1>3, Zenon
<1> QED
  BY <1>0, <1>3, <1>5

----------------------------------------------------------------------------
(* The tables on the way to a page                                         *)

(* The first address that the table of va covers: it tells the tables of a *)
(* level apart.                                                            *)
TableBase(mode, va, level) ==
  (MaskVa(mode, va) \div TableRange(mode, level)) * TableRange(mode, level)
PagesRight(t, mode) ==
  /\ \A i \in DOMAIN t.pages :
       /\ t.pages[i].level \in 0..LastLevel(mode)
       /\ t.pages[i].size = PagetableSize(mode, t.pages[i].level)
       /\ \E k \in Int : t.pages[i].va = k * TableRange(mode, t.pages[i].level)
  /\ \A i, j \in DOMAIN t.pages :
       t.pages[i].level = t.pages[j].level /\ t.pages[i].va = t.pages[j].va => i = j
  /\ 1 \in DOMAIN t.pages => t.pages[1].level = 0 /\ t.pages[1].va = 0

LEMMA CoversBase ==
  ASSUME NEW mode \in DOMAIN Levels, NEW level \in 0..LastLevel(mode), NEW va \in Int,
         NEW page, NEW k \in Int, page.va = k * TableRange(mode, level)
  PROVE  Covers(page, mode, MaskVa(mode, va), level)
           <=> page.level = level /\ page.va = TableBase(mode, va, level)
<1> DEFINE R == TableRange(mode, level)
           x == MaskVa(mode, va)
<1>1. R \in Nat \ {0} /\ x \in Int
  <2>1. level \in 0..Levels[mode] - 1
    BY DEF LastLevel
  <2> QED
    BY <2>1, VpnFacts
<1>2. Covers(page, mode, x, level) <=> page.level = level /\ page.va <= x /\ x < page.va + R
  BY DEF Covers
<1>3. TableBase(mode, va, level) = (x \div R) * R
  BY DEF TableBase
<1>4. page.va = k * R
  OBVIOUS
<1> HIDE DEF R, x
<1>5. PICK q, r : Splits(x, R, q, r)
  BY <1>1, Splitting
<1>6. q \in Int /\ r \in Int /\ 0 <= r /\ r < R /\ x = q * R + r /\ q = x \div R
  BY <1>5 DEF Splits
<1>7. PICK a \in Int : a = q * R
  BY <1>1, <1>6
<1>8. page.va = a => page.va <= x /\ x < page.va + R
  BY <1>1, <1>6, <1>7
<1>9. ASSUME page.va <= x, x < page.va + R PROVE page.va = a
  <2>1. PICK b \in Int : b = k * R
    BY <1>1
  <2>2. PICK s \in Int : s = x - b
    BY <1>1, <2>1
  <2>3. 0 <= s /\ s < R /\ x = k * R + s
    BY <1>1, <1>4, <1>9, <2>1, <2>2
  <2>4. q = k
    BY <1>1, <1>6, <2>3, QuotientRemainder
  <2> QED
    BY <1>4, <1>7, <2>4
<1>10. TableBase(mode, va, level) = a
  BY <1>3, <1>6, <1>7
<1> QED
  BY <1>2, <1>8, <1>9, <1>10 DEF x

(* So a table has one place, and keeps it.                                 *)
TableAt(t, mode, va, level, i) ==
  /\ i \in DOMAIN t.pages /\ Tables(t, mode, va, level) = {i}
  /\ Table(t, mode, va, level) = t.pages[i]
  /\ t.pages[i].level = level /\ t.pages[i].va = TableBase(mode, va, level)
  /\ t.pages[i].size = PagetableSize(mode, level)
LEMMA TableFacts ==
  ASSUME NEW mode \in DOMAIN Levels, NEW level \in 0..LastLevel(mode), NEW va \in Int,
         NEW t, PagesRight(t, mode)
  PROVE  /\ \A i \in DOMAIN t.pages :
              i \in Tables(t, mode, va, level)
                <=> t.pages[i].level = level /\ t.pages[i].va = TableBase(mode, va, level)
         /\ Tables(t, mode, va, level) # {} => \E i : TableAt(t, mode, va, level, i)
<1>1. ASSUME NEW i \in DOMAIN t.pages
      PROVE  i \in Tables(t, mode, va, level)
                <=> t.pages[i].level = level /\ t.pages[i].va = TableBase(mode, va, level)
  <2>1. i \in Tables(t, mode, va, level) <=> Covers(t.pages[i], mode, MaskVa(mode, va), level)
    BY DEF Tables
  <2>2. CASE t.pages[i].level = level
    <3>1. PICK k \in Int : t.pages[i].va = k * TableRange(mode, level)
      BY <2>2 DEF PagesRight
    <3>2. PICK page : page = t.pages[i]
      OBVIOUS
    <3>3. page.va = k * TableRange(mode, level)
      BY <3>1, <3>2
    <3>4. Covers(page, mode, MaskVa(mode, va), level)
            <=> page.level = level /\ page.va = TableBase(mode, va, level)
      BY <3>3, CoversBase
    <3> QED
      BY <2>1, <3>2, <3>4
  <2>3. CASE t.pages[i].level # level
    BY <2>1, <2>3 DEF Covers
  <2> QED
    BY <2>2, <2>3
<1>2. ASSUME Tables(t, mode, va, level) # {}
      PROVE  \E i : TableAt(t, mode, va, level, i)
  <2>1. Tables(t, mode, va, level) \subseteq DOMAIN t.pages
    BY DEF Tables
  <2>2. PICK i \in DOMAIN t.pages : i \in Tables(t, mode, va, level)
    BY <1>2, <2>1
  <2>3. t.pages[i].level = level /\ t.pages[i].va = TableBase(mode, va, level)
    BY <1>1, <2>2
  <2>4. \A j \in Tables(t, mode, va, level) : j = i
    <3> SUFFICES ASSUME NEW j \in Tables(t, mode, va, level) PROVE j = i
      OBVIOUS
    <3>1. j \in DOMAIN t.pages
      BY <2>1
    <3>2. t.pages[j].level = level /\ t.pages[j].va = TableBase(mode, va, level)
      BY <1>1, <3>1
    <3> QED
      BY <2>3, <3>1, <3>2 DEF PagesRight
  <2>5. Tables(t, mode, va, level) = {i}
    BY <2>2, <2>4
  <2>6. Table(t, mode, va, level) = t.pages[i]
    BY <2>5 DEF Table
  <2>7. t.pages[i].size = PagetableSize(mode, level)
    BY <2>3 DEF PagesRight
  <2>8. TableAt(t, mode, va, level, i)
    BY <2>3, <2>5, <2>6, <2>7 DEF TableAt
  <2> QED
    BY <2>8
<1> QED
  BY <1>1, <1>2

LEMMA TableStays ==
  ASSUME NEW mode \in DOMAIN Levels, NEW level \in 0..LastLevel(mode), NEW va \in Int,
         NEW t, PagesRight(t, mode), NEW u, PagesRight(u, mode), Grows(t, u),
         Tables(t, mode, va, level) # {}
  PROVE  /\ Tables(u, mode, va, level) # {}
         /\ Table(u, mode, va, level) = Table(t, mode, va, level)
<1>1. PICK i : TableAt(t, mode, va, level, i)
  BY TableFacts
<1>2. Tables(t, mode, va, level) \subseteq Tables(u, mode, va, level)
  BY TablesGrow
<1>3. i \in Tables(u, mode, va, level)
  BY <1>1, <1>2 DEF TableAt
<1>4. PICK j : TableAt(u, mode, va, level, j)
  BY <1>3, TableFacts
<1>5. i = j
  BY <1>3, <1>4 DEF TableAt
<1>6. u.pages[i] = t.pages[i]
  BY <1>1 DEF TableAt, Grows
<1> QED
  BY <1>1, <1>3, <1>4, <1>5, <1>6 DEF TableAt

(* What one turn of the loop leaves behind for a page, and keeps.          *)
Written(t, mode, e, level) ==
  /\ Tables(t, mode, e.src, level) # {}
  /\ level < LeafLevel(mode, e) => Tables(t, mode, e.src, level + 1) # {}
  /\ InRange(t, mode, e, level)
  /\ PteAddress(t, mode, e.src, level) \in DOMAIN t.memory
  /\ t.memory[PteAddress(t, mode, e.src, level)] = EntryFor(t, mode, e, level)

LEMMA WrittenStays ==
  ASSUME NEW mode \in DOMAIN Levels, NEW e, e.src \in Int, SizeSupported(mode, e),
         NEW level \in 0..LeafLevel(mode, e),
         NEW t, PagesRight(t, mode), NEW u, PagesRight(u, mode), Grows(t, u),
         Written(t, mode, e, level)
  PROVE  /\ Written(u, mode, e, level)
         /\ PteAddress(u, mode, e.src, level) = PteAddress(t, mode, e.src, level)
<1>1. /\ LeafLevel(mode, e) \in 0..LastLevel(mode) /\ LastLevel(mode) \in 2..3
  BY LeafLevelFacts, PowerFacts DEF LastLevel
<1>2. level \in 0..LastLevel(mode)
  BY <1>1
<1>3. /\ Tables(u, mode, e.src, level) # {}
      /\ Table(u, mode, e.src, level) = Table(t, mode, e.src, level)
  BY <1>2, TableStays DEF Written
<1>4. ASSUME level < LeafLevel(mode, e)
      PROVE  /\ Tables(u, mode, e.src, level + 1) # {}
             /\ Table(u, mode, e.src, level + 1) = Table(t, mode, e.src, level + 1)
  <2>1. level + 1 \in 0..LastLevel(mode)
    BY <1>1, <1>4
  <2> QED
    BY <1>4, <2>1, TableStays DEF Written
<1>5. PteAddress(u, mode, e.src, level) = PteAddress(t, mode, e.src, level)
  BY <1>3 DEF PteAddress
<1>6. level < LeafLevel(mode, e) =>
        PointerAddress(u, mode, e.src, level) = PointerAddress(t, mode, e.src, level)
  BY <1>4 DEF PointerAddress
<1>7. EntryFor(u, mode, e, level) = EntryFor(t, mode, e, level)
  BY <1>6 DEF EntryFor
<1>8. level = LeafLevel(mode, e) \/ level < LeafLevel(mode, e)
  BY <1>1
<1>9. InRange(u, mode, e, level)
  <2>1. InRange(t, mode, e, level)
    BY DEF Written
  <2>2. CASE level = LeafLevel(mode, e)
    BY <1>3, <1>5, <2>1, <2>2 DEF InRange
  <2>3. CASE level < LeafLevel(mode, e)
    BY <1>3, <1>4, <1>5, <1>6, <2>1, <2>3 DEF InRange
  <2> QED
    BY <1>8, <2>2, <2>3
<1>10. /\ PteAddress(t, mode, e.src, level) \in DOMAIN u.memory
       /\ u.memory[PteAddress(t, mode, e.src, level)] = EntryFor(t, mode, e, level)
  BY DEF Written, Grows
<1> QED
  BY <1>3, <1>4, <1>5, <1>7, <1>9, <1>10 DEF Written

(* Addresses with one index have one index, and one entry, at every level  *)
(* above.                                                                  *)
LEMMA Ancestors ==
  ASSUME NEW mode \in DOMAIN Levels, NEW va \in Int, NEW src \in Int
  PROVE  /\ Index(mode, va, 0) = Index(mode, src, 0) <=> PteOffset(mode, va, 0) = PteOffset(mode, src, 0)
         /\ \A l \in 1..LastLevel(mode) :
              Index(mode, va, l) = Index(mode, src, l)
                <=> /\ Index(mode, va, l - 1) = Index(mode, src, l - 1)
                    /\ PteOffset(mode, va, l) = PteOffset(mode, src, l)
<1>1. Index(mode, va, 0) = PteOffset(mode, va, 0) /\ Index(mode, src, 0) = PteOffset(mode, src, 0)
  BY IndexFacts
<1>2. ASSUME NEW l \in 1..LastLevel(mode)
      PROVE  Index(mode, va, l) = Index(mode, src, l)
                <=> /\ Index(mode, va, l - 1) = Index(mode, src, l - 1)
                    /\ PteOffset(mode, va, l) = PteOffset(mode, src, l)
  <2>1. l \in 0..LastLevel(mode) /\ l - 1 \in 0..LastLevel(mode) /\ SIZE_4K \in Nat \ {0}
    BY PowerFacts
  <2>2. PICK a \in Int, b \in Int, x \in Int, y \in Int :
          /\ a = Index(mode, va, l) /\ b = Index(mode, va, l - 1)
          /\ x = PteOffset(mode, va, l) /\ 0 <= x /\ x < SIZE_4K /\ a = b * SIZE_4K + x
    BY <2>1, IndexFacts
  <2>3. PICK c \in Int, d \in Int, z \in Int :
          /\ c = Index(mode, src, l) /\ d = Index(mode, src, l - 1)
          /\ z = PteOffset(mode, src, l) /\ 0 <= z /\ z < SIZE_4K /\ c = d * SIZE_4K + z
    BY <2>1, IndexFacts
  <2>4. a \div SIZE_4K = b /\ a % SIZE_4K = x
    <3>1. a = b * SIZE_4K + x /\ 0 <= x /\ x < SIZE_4K /\ SIZE_4K \in Nat \ {0}
      BY <2>1, <2>2
    <3> QED
      BY <3>1, QuotientRemainder
  <2>5. c \div SIZE_4K = d /\ c % SIZE_4K = z
    <3>1. c = d * SIZE_4K + z /\ 0 <= z /\ z < SIZE_4K /\ SIZE_4K \in Nat \ {0}
      BY <2>1, <2>3
    <3> QED
      BY <3>1, QuotientRemainder
  <2>6. a = c => b = d /\ x = z
    BY <2>4, <2>5
  <2>7. b = d /\ x = z => a = c
    BY <2>2, <2>3
  <2> QED
    BY <2>2, <2>3, <2>6, <2>7
<1> QED
  BY <1>1, <1>2

LEMMA SameAbove ==
  ASSUME NEW mode \in DOMAIN Levels, NEW va \in Int, NEW src \in Int,
         NEW leaf \in 0..LastLevel(mode), Index(mode, va, leaf) = Index(mode, src, leaf)
  PROVE  \A l \in 0..leaf : PteOffset(mode, va, l) = PteOffset(mode, src, l)
<1> DEFINE Same(l) == Index(mode, va, l) = Index(mode, src, l)
<1>1. LastLevel(mode) \in 2..3
  BY PowerFacts
<1>2. \A l \in 1..LastLevel(mode) : Same(l) => Same(l - 1) /\ PteOffset(mode, va, l) = PteOffset(mode, src, l)
  BY Ancestors, Zenon
<1>3. Same(0) => PteOffset(mode, va, 0) = PteOffset(mode, src, 0)
  BY Ancestors, Zenon
<1> HIDE DEF Same
<1>4. Same(1) => Same(0) /\ PteOffset(mode, va, 1) = PteOffset(mode, src, 1)
  BY <1>1, <1>2
<1>5. Same(2) => Same(1) /\ PteOffset(mode, va, 2) = PteOffset(mode, src, 2)
  BY <1>1, <1>2
<1>6. leaf = 3 /\ Same(3) => Same(2) /\ PteOffset(mode, va, 3) = PteOffset(mode, src, 3)
  BY <1>1, <1>2
<1>7. Same(leaf)
  BY DEF Same
<1>8. leaf \in {0, 1, 2, 3}
  BY <1>1
<1>9. \A l \in 0..leaf : l \in {0, 1, 2, 3} /\ l <= leaf
  BY <1>8
<1>10. CASE leaf = 0
  BY <1>3, <1>7, <1>9, <1>10
<1>11. CASE leaf = 1
  BY <1>3, <1>4, <1>7, <1>9, <1>11
<1>12. CASE leaf = 2
  BY <1>3, <1>4, <1>5, <1>7, <1>9, <1>12
<1>13. CASE leaf = 3
  BY <1>3, <1>4, <1>5, <1>6, <1>7, <1>9, <1>13
<1> QED
  BY <1>8, <1>10, <1>11, <1>12, <1>13

(* The tables of a stage when the last of its pages is in them.            *)
Holding(t, mode) ==
  /\ \A n \in DOMAIN t.entries :
       /\ t.entries[n].src \in Int /\ SizeSupported(mode, t.entries[n])
       /\ \A l \in 0..LeafLevel(mode, t.entries[n]) : Written(t, mode, t.entries[n], l)
Justified(t, mode) ==
  \A a \in DOMAIN t.memory :
    \/ t.memory[a] = ZeroPte(mode)
    \/ \E n \in DOMAIN t.entries : \E l \in 0..LeafLevel(mode, t.entries[n]) :
         a = PteAddress(t, mode, t.entries[n].src, l)
Addressable(t) == \A i \in DOMAIN t.pages : 0 <= t.pages[i].pa /\ t.pages[i].pa + t.pages[i].size <= 2^PaBits
Finished(t, mode) ==
  /\ TableShape(t) /\ t.start \in Int /\ PagesTile(t) /\ PagesRight(t, mode)
  /\ Holding(t, mode) /\ Justified(t, mode) /\ Addressable(t)

(* A table of one of its pages.                                            *)
TableOf(t, mode, e, level, i) ==
  /\ TableAt(t, mode, e.src, level, i)
  /\ level = 0 => t.pages[i].pa = t.start
  /\ level # 0 => t.pages[i].va = Index(mode, e.src, level - 1) * Span(mode, level - 1)
  /\ PteAddress(t, mode, e.src, level) = t.pages[i].pa + PteOffset(mode, e.src, level)
  /\ PteOffset(mode, e.src, level) \in 0..t.pages[i].size - 1
  /\ level < LeafLevel(mode, e) => PteOffset(mode, e.src, level) < SIZE_4K

LEMMA TablesOfPage ==
  ASSUME NEW mode \in DOMAIN Levels, NEW t, Finished(t, mode), NEW n \in DOMAIN t.entries,
         NEW level \in 0..LeafLevel(mode, t.entries[n])
  PROVE  /\ \E i : TableOf(t, mode, t.entries[n], level, i)
         /\ Table(t, mode, t.entries[n].src, level).pa % SIZE_4K = 0
<1> DEFINE e == t.entries[n]
           leaf == LeafLevel(mode, e)
<1>1. e.src \in Int /\ SizeSupported(mode, e) /\ \A l \in 0..leaf : Written(t, mode, e, l)
  BY DEF Finished, Holding
<1>2. leaf \in 0..LastLevel(mode) /\ LastLevel(mode) \in 2..3 /\ SIZE_4K \in Nat \ {0}
  BY <1>1, LeafLevelFacts, PowerFacts DEF LastLevel
<1> HIDE DEF e, leaf
<1>3. ASSUME NEW l \in 0..leaf
      PROVE  /\ \E i : TableAt(t, mode, e.src, l, i)
             /\ InRange(t, mode, e, l)
             /\ PteOffset(mode, e.src, l) \in 0..PagetableSize(mode, l) - 1
             /\ l \in 0..LastLevel(mode)
  <2>1. l \in 0..LastLevel(mode)
    BY <1>2
  <2>2. Written(t, mode, e, l) /\ PagesRight(t, mode)
    BY <1>1 DEF Finished
  <2>3. \E i : TableAt(t, mode, e.src, l, i)
    BY <1>1, <2>1, <2>2, TableFacts DEF Written
  <2> QED
    BY <1>1, <2>1, <2>2, <2>3, IndexFacts DEF Written
<1>4. ASSUME NEW l \in 0..leaf, l < leaf
      PROVE  PteOffset(mode, e.src, l) < SIZE_4K
  <2>1. l + 1 \in 0..leaf /\ l + 1 # 0 /\ l + 1 \in 1..LastLevel(mode) /\ l # leaf
    BY <1>2, <1>4
  <2>2. PICK j : TableAt(t, mode, e.src, l + 1, j)
    BY <1>3, <2>1
  <2>3. /\ t.pages[j].size = SIZE_4K /\ t.pages[j].pa \in Int
        /\ Table(t, mode, e.src, l + 1) = t.pages[j]
    BY <2>1, <2>2, PowerFacts DEF TableAt, Finished, PagesTile
  <2>4. PteOffset(mode, e.src, l) \in Int
    BY <1>3
  <2>5. PointerAddress(t, mode, e.src, l) < t.pages[j].pa + t.pages[j].size
    BY <1>3, <2>1, <2>3 DEF InRange, leaf
  <2> QED
    BY <1>2, <2>3, <2>4, <2>5 DEF PointerAddress
<1>5. level \in 0..leaf
  BY DEF leaf, e
<1>6. PICK i : TableAt(t, mode, e.src, level, i)
  BY <1>3, <1>5
<1>7. level \in 0..LastLevel(mode)
  BY <1>3, <1>5
<1>8. level = 0 => t.pages[i].pa = t.start
  <2> SUFFICES ASSUME level = 0 PROVE t.pages[i].pa = t.start
    OBVIOUS
  <2>1. t.pages[i].level = 0 /\ t.pages[i].va = 0 /\ i \in DOMAIN t.pages
    BY <1>1, <1>6, RootBase DEF TableAt, TableBase
  <2>2. 1 \in DOMAIN t.pages
    BY <2>1 DEF Finished, TableShape
  <2>3. i = 1
    BY <2>1, <2>2 DEF Finished, PagesRight
  <2> QED
    BY <2>2, <2>3 DEF Finished, PagesTile
<1>9. level # 0 => t.pages[i].va = Index(mode, e.src, level - 1) * Span(mode, level - 1)
  <2> SUFFICES ASSUME level # 0
               PROVE  t.pages[i].va = Index(mode, e.src, level - 1) * Span(mode, level - 1)
    OBVIOUS
  <2>1. 0 \in 0..leaf /\ 0 < leaf
    BY <1>2, <1>5
  <2>2. Index(mode, e.src, 0) < SIZE_4K
    BY <1>1, <1>4, <2>1, IndexFacts
  <2>3. MaskVa(mode, e.src) = e.src % WalkBits(mode)
    BY <1>1, <2>2, MaskKeeps
  <2>4. TableRange(mode, level) = Span(mode, level - 1)
    BY <1>7, PowerFacts
  <2> QED
    BY <1>6, <2>3, <2>4 DEF TableAt, TableBase, Index
<1>10. /\ PteAddress(t, mode, e.src, level) = t.pages[i].pa + PteOffset(mode, e.src, level)
       /\ PteOffset(mode, e.src, level) \in 0..t.pages[i].size - 1
  BY <1>3, <1>5, <1>6 DEF TableAt, PteAddress
<1>11. TableOf(t, mode, e, level, i)
  BY <1>4, <1>5, <1>6, <1>8, <1>9, <1>10 DEF TableOf, leaf
<1>12. Table(t, mode, e.src, level).pa % SIZE_4K = 0
  <2>1. /\ t.pages[i].pa % t.pages[i].size = 0 /\ t.pages[i].pa \in Int
        /\ Table(t, mode, e.src, level) = t.pages[i]
        /\ t.pages[i].size = PagetableSize(mode, level)
    BY <1>3, <1>5, <1>6 DEF TableAt, InRange, Finished, PagesTile
  <2>2. PICK c \in {1, 4} : PagetableSize(mode, level) = c * SIZE_4K
    BY <1>2 DEF PagetableSize
  <2>3. PICK p \in Int, size \in Nat \ {0} : p = t.pages[i].pa /\ size = c * SIZE_4K /\ p % size = 0
    BY <1>2, <2>1, <2>2
  <2>4. PICK k, r : Splits(p, size, k, r)
    BY <2>3, Splitting
  <2>5. k \in Int /\ p = k * size + 0
    BY <2>3, <2>4 DEF Splits
  <2>6. PICK x \in Int : x = k * c
    BY <2>5
  <2>7. p = x * SIZE_4K + 0
    <3>1. k * (c * SIZE_4K) = (k * c) * SIZE_4K
      BY <1>2, <2>5
    <3> QED
      BY <1>2, <2>3, <2>5, <2>6, <3>1
  <2>8. p % SIZE_4K = 0
    BY <1>2, <2>6, <2>7, QuotientRemainder
  <2> QED
    BY <2>1, <2>3, <2>8
<1> QED
  BY <1>11, <1>12 DEF e

----------------------------------------------------------------------------
(* What a walk of finished tables finds                                    *)

(* The tables have a root.                                                 *)
HasRoot(t) == 1 \in DOMAIN t.pages

(* What a walk reads on its way to a page.                                 *)
LEMMA PointerRead ==
  ASSUME NEW mode \in DOMAIN Levels, NEW t, Finished(t, mode), NEW n \in DOMAIN t.entries,
         NEW level \in 0..LeafLevel(mode, t.entries[n]), level < LeafLevel(mode, t.entries[n])
  PROVE  LET e == t.entries[n]
             pte == t.memory[PteAddress(t, mode, e.src, level)]
         IN /\ Walkable(pte) /\ pte.xwr = 0
            /\ PteTarget(mode, pte) = Table(t, mode, e.src, level + 1).pa
<1> DEFINE e == t.entries[n]
           pte == t.memory[PteAddress(t, mode, e.src, level)]
<1>1. level + 1 \in 0..LeafLevel(mode, e)
  <2>1. LeafLevel(mode, e) \in Int
    BY LeafLevelFacts DEF Finished, Holding
  <2> QED
    BY <2>1
<1>2. Written(t, mode, e, level)
  BY DEF Finished, Holding
<1>3. PICK i : TableOf(t, mode, e, level, i)
  BY TablesOfPage
<1>4. PICK j : TableOf(t, mode, e, level + 1, j)
  BY <1>1, TablesOfPage
<1>5. Table(t, mode, e.src, level + 1).pa % SIZE_4K = 0
  BY <1>1, TablesOfPage
<1> HIDE DEF e
<1>6. /\ SIZE_4K \in Nat \ {0} /\ t.pages[j].size \in Nat \ {0} /\ t.pages[j].pa \in Int
      /\ 0 <= t.pages[j].pa /\ t.pages[j].pa + t.pages[j].size <= 2^PaBits
      /\ Table(t, mode, e.src, level + 1) = t.pages[j]
  BY <1>4, PowerFacts DEF TableOf, TableAt, Finished, PagesTile, Addressable
<1>7. PteOffset(mode, e.src, level) \in Nat /\ PteOffset(mode, e.src, level) < SIZE_4K
  BY <1>3 DEF TableOf, e
<1>8. PICK pa \in Int : pa = PointerAddress(t, mode, e.src, level)
  BY <1>6, <1>7 DEF PointerAddress
<1>9. pa = t.pages[j].pa + PteOffset(mode, e.src, level)
  BY <1>6, <1>8 DEF PointerAddress
<1>10. pa < t.pages[j].pa + t.pages[j].size
  <2>1. InRange(t, mode, e, level) /\ level # LeafLevel(mode, e)
    BY <1>1, <1>2 DEF Written, e
  <2> QED
    BY <1>6, <1>8, <2>1 DEF InRange
<1>11. 0 <= pa /\ pa < 2^PaBits
  <2>1. 2^PaBits \in Int
    BY WidthsAssumption, PowersAssumption
  <2> QED
    BY <1>6, <1>7, <1>9, <1>10, <2>1
<1>12. pte = PointerPte(mode, pa)
  BY <1>2, <1>8 DEF Written, EntryFor, e
<1>13. /\ pte.valid = 1 /\ pte.xwr = 0 /\ pte.a = 0 /\ pte.d = 0 /\ pte.ppn = Ppns(mode, pa)
  BY <1>12 DEF PointerPte, Pte
<1> HIDE DEF pte
<1>14. PteTarget(mode, pte) = (pa \div SIZE_4K) * SIZE_4K
  BY <1>11, <1>13, TargetOfPte
<1>15. (pa \div SIZE_4K) * SIZE_4K = t.pages[j].pa
  <2>1. PICK p \in Int, x \in Int : p = t.pages[j].pa /\ x = PteOffset(mode, e.src, level)
    BY <1>6, <1>7
  <2>2. p % SIZE_4K = 0
    BY <1>5, <1>6, <2>1
  <2>3. PICK k, r : Splits(p, SIZE_4K, k, r)
    BY <1>6, Splitting
  <2>4. k \in Int /\ p = k * SIZE_4K
    <3>1. k \in Int /\ p = k * SIZE_4K + 0
      BY <2>2, <2>3 DEF Splits
    <3>2. k * SIZE_4K \in Int
      BY <1>6, <3>1
    <3> QED
      BY <3>1, <3>2
  <2>5. pa = k * SIZE_4K + x /\ 0 <= x /\ x < SIZE_4K
    BY <1>7, <1>9, <2>1, <2>4
  <2>6. pa \div SIZE_4K = k
    BY <1>6, <2>1, <2>4, <2>5, QuotientRemainder
  <2> QED
    BY <2>1, <2>4, <2>6
<1>16. Walkable(pte)
  BY <1>13 DEF Walkable
<1> QED
  BY <1>6, <1>13, <1>14, <1>15, <1>16 DEF pte, e

LEMMA LeafRead ==
  ASSUME NEW mode \in DOMAIN Levels, NEW t, Finished(t, mode), NEW n \in DOMAIN t.entries
  PROVE  LET e == t.entries[n]
             pte == t.memory[PteAddress(t, mode, e.src, LeafLevel(mode, e))]
         IN /\ Walkable(pte) <=> e.valid = 1 /\ e.xwr # 0
            /\ pte.xwr = e.xwr
            /\ e.dst \in Int /\ 0 <= e.dst /\ e.dst < 2^PaBits =>
                 PteTarget(mode, pte) = (e.dst \div SIZE_4K) * SIZE_4K
<1> DEFINE e == t.entries[n]
           leaf == LeafLevel(mode, e)
           pte == t.memory[PteAddress(t, mode, e.src, leaf)]
<1>1. leaf \in Nat /\ leaf \in 0..leaf /\ ~(leaf < leaf)
  <2>1. leaf \in Nat
    BY LeafLevelFacts DEF Finished, Holding
  <2> QED
    BY <2>1
<1>2. Written(t, mode, e, leaf)
  BY <1>1 DEF Finished, Holding
<1> HIDE DEF e
<1>3. pte = LeafPte(mode, e)
  BY <1>1, <1>2 DEF Written, EntryFor
<1>4. e.xwr \notin {2, 6}
  BY <1>2 DEF Written, InRange
<1>5. pte.valid = e.valid /\ pte.xwr = e.xwr /\ pte.a = 1 /\ pte.ppn = Ppns(mode, e.dst)
  BY <1>3 DEF LeafPte, Pte
<1> HIDE DEF pte
<1>6. Walkable(pte) <=> e.valid = 1 /\ e.xwr # 0
  BY <1>4, <1>5 DEF Walkable
<1>7. e.dst \in Int /\ 0 <= e.dst /\ e.dst < 2^PaBits =>
        PteTarget(mode, pte) = (e.dst \div SIZE_4K) * SIZE_4K
  BY <1>5, TargetOfPte
<1> QED
  BY <1>5, <1>6, <1>7 DEF pte, e

(* A walk for an address of a page finds it, where it may read the entries *)
(* on the way.                                                             *)
LeafAt(w, target, leaf) == w.kind = "leaf" /\ w.a = target /\ w.level = leaf
LEMMA WalkReaches ==
  ASSUME NEW mode \in DOMAIN Levels, NEW t, Finished(t, mode), NEW n \in DOMAIN t.entries,
         t.entries[n].valid = 1, t.entries[n].xwr # 0,
         t.entries[n].dst \in Int, 0 <= t.entries[n].dst, t.entries[n].dst < 2^PaBits,
         NEW va \in Int,
         LET leaf == LeafLevel(mode, t.entries[n])
         IN Index(mode, va, leaf) = Index(mode, t.entries[n].src, leaf),
         NEW readable,
         \A l \in 0..LeafLevel(mode, t.entries[n]) :
           PteAddress(t, mode, t.entries[n].src, l) \in readable,
         NEW v, Visiting(v, t.start, t.memory, readable, mode, va)
  PROVE  LeafAt(v[Levels[mode]], (t.entries[n].dst \div SIZE_4K) * SIZE_4K,
                LeafLevel(mode, t.entries[n]))
<1> DEFINE e == t.entries[n]
           leaf == LeafLevel(mode, e)
           target == (e.dst \div SIZE_4K) * SIZE_4K
           Reached(l) == v[l].kind = "table" /\ v[l].a = Table(t, mode, e.src, l).pa
           Arrived(l) == LeafAt(v[l], target, leaf)
<1>1. /\ leaf \in 0..LastLevel(mode) /\ LastLevel(mode) \in 2..3
      /\ Levels[mode] = LastLevel(mode) + 1 /\ e.src \in Int
  BY LeafLevelFacts, PowerFacts DEF LastLevel, Finished, Holding
<1>2. \A l \in 0..leaf : PteOffset(mode, va, l) = PteOffset(mode, e.src, l)
  BY <1>1, SameAbove
<1>3. /\ v[0] = [kind |-> "table", a |-> t.start]
      /\ \A l \in 0..LastLevel(mode) : v[l + 1] = Visited(v[l], t.memory, readable, mode, va, l)
  BY VisitsStep
<1>4. Reached(0)
  <2>1. 0 \in 0..leaf
    BY <1>1
  <2>2. PICK i : TableOf(t, mode, e, 0, i)
    BY <2>1, TablesOfPage
  <2> HIDE DEF e
  <2>3. Table(t, mode, e.src, 0).pa = t.start
    BY <2>2 DEF TableOf, TableAt
  <2> QED
    BY <1>3, <2>3
<1>5. ASSUME NEW l \in 0..leaf, Reached(l)
      PROVE  LET pte == t.memory[PteAddress(t, mode, e.src, l)] IN
             /\ v[l].a + PteOffset(mode, va, l) = PteAddress(t, mode, e.src, l)
             /\ Walkable(pte) =>
                  v[l + 1] = [kind |-> IF pte.xwr = 0 THEN "table" ELSE "leaf",
                              a |-> PteTarget(mode, pte), level |-> l,
                              xwr |-> pte.xwr, umode |-> pte.umode]
  <2>1. v[l].a + PteOffset(mode, va, l) = PteAddress(t, mode, e.src, l)
    BY <1>2, <1>5 DEF PteAddress
  <2>2. PteAddress(t, mode, e.src, l) \in readable
    OBVIOUS
  <2>3. l \in 0..LastLevel(mode)
    BY <1>1
  <2>4. v[l + 1] = Visited(v[l], t.memory, readable, mode, va, l)
    BY <1>3, <2>3
  <2> HIDE DEF e, leaf
  <2> QED
    BY <1>5, <2>1, <2>2, <2>4, Zenon DEF Visited
<1>6. ASSUME NEW l \in 0..leaf, Reached(l), l < leaf
      PROVE  Reached(l + 1)
  <2>1. LET pte == t.memory[PteAddress(t, mode, e.src, l)]
         IN /\ Walkable(pte) /\ pte.xwr = 0
            /\ PteTarget(mode, pte) = Table(t, mode, e.src, l + 1).pa
    BY <1>6, PointerRead
  <2> HIDE DEF e, leaf
  <2>2. PICK pte : pte = t.memory[PteAddress(t, mode, e.src, l)]
    OBVIOUS
  <2>3. Walkable(pte) /\ pte.xwr = 0 /\ PteTarget(mode, pte) = Table(t, mode, e.src, l + 1).pa
    BY <2>1, <2>2, Zenon
  <2>4. v[l + 1] = [kind |-> IF pte.xwr = 0 THEN "table" ELSE "leaf",
                    a |-> PteTarget(mode, pte), level |-> l,
                    xwr |-> pte.xwr, umode |-> pte.umode]
    BY <1>5, <1>6, <2>2, <2>3, Zenon
  <2> QED
    BY <2>3, <2>4
<1>7. ASSUME Reached(leaf)
      PROVE  Arrived(leaf + 1)
  <2>1. LET pte == t.memory[PteAddress(t, mode, e.src, leaf)]
        IN Walkable(pte) /\ pte.xwr # 0 /\ PteTarget(mode, pte) = target
    BY LeafRead
  <2>2. leaf \in 0..leaf
    BY <1>1
  <2> HIDE DEF e, leaf, target
  <2>3. PICK pte : pte = t.memory[PteAddress(t, mode, e.src, leaf)]
    OBVIOUS
  <2>4. Walkable(pte) /\ pte.xwr # 0 /\ PteTarget(mode, pte) = target
    BY <2>1, <2>3, Zenon
  <2>5. v[leaf + 1] = [kind |-> IF pte.xwr = 0 THEN "table" ELSE "leaf",
                       a |-> PteTarget(mode, pte), level |-> leaf,
                       xwr |-> pte.xwr, umode |-> pte.umode]
    BY <1>5, <1>7, <2>2, <2>3, <2>4, Zenon
  <2> QED
    BY <2>4, <2>5 DEF LeafAt
<1>8. ASSUME NEW l \in 0..LastLevel(mode), Arrived(l)
      PROVE  Arrived(l + 1)
  <2>1. v[l + 1] = Visited(v[l], t.memory, readable, mode, va, l)
    BY <1>3
  <2> HIDE DEF e, leaf, target
  <2> QED
    BY <1>8, <2>1 DEF Visited, LeafAt
<1> HIDE DEF e, leaf, target, Reached, Arrived
<1>9. Reached(leaf)
  <2>1. leaf >= 1 => Reached(1)
    BY <1>1, <1>4, <1>6
  <2>2. leaf >= 2 => Reached(2)
    BY <1>1, <1>6, <2>1
  <2>3. leaf >= 3 => Reached(3)
    BY <1>1, <1>6, <2>2
  <2>4. leaf \in {0, 1, 2, 3}
    BY <1>1
  <2> QED
    BY <1>4, <2>1, <2>2, <2>3, <2>4
<1>10. Arrived(Levels[mode])
  <2>1. Arrived(leaf + 1)
    BY <1>7, <1>9
  <2>2. leaf + 2 <= Levels[mode] => Arrived(leaf + 2)
    <3>1. leaf + 2 <= Levels[mode] => leaf + 1 \in 0..LastLevel(mode) /\ leaf + 1 + 1 = leaf + 2
      BY <1>1
    <3> QED
      BY <1>8, <2>1, <3>1
  <2>3. leaf + 3 <= Levels[mode] => Arrived(leaf + 3)
    <3>1. leaf + 3 <= Levels[mode] => /\ leaf + 2 \in 0..LastLevel(mode) /\ leaf + 2 + 1 = leaf + 3
                                      /\ leaf + 2 <= Levels[mode]
      BY <1>1
    <3> QED
      BY <1>8, <2>2, <3>1
  <2>4. leaf + 4 <= Levels[mode] => Arrived(leaf + 4)
    <3>1. leaf + 4 <= Levels[mode] => /\ leaf + 3 \in 0..LastLevel(mode) /\ leaf + 3 + 1 = leaf + 4
                                      /\ leaf + 3 <= Levels[mode]
      BY <1>1
    <3> QED
      BY <1>8, <2>3, <3>1
  <2>5. \E k \in 1..4 : Levels[mode] = leaf + k
    <3>1. Levels[mode] - leaf \in 1..4 /\ Levels[mode] = leaf + (Levels[mode] - leaf)
      BY <1>1
    <3> QED
      BY <3>1
  <2>6. PICK k \in {1, 2, 3, 4} : Levels[mode] = leaf + k
    BY <2>5
  <2>7. leaf + k <= Levels[mode]
    BY <1>1, <2>6
  <2> QED
    BY <2>1, <2>2, <2>3, <2>4, <2>6, <2>7
<1> QED
  BY <1>10 DEF Arrived, e, leaf, target

(* A walk finds nothing else.                                              *)
PageOf(t, mode, va, n) ==
  LET leaf == LeafLevel(mode, t.entries[n])
  IN /\ n \in DOMAIN t.entries
     /\ t.entries[n].valid = 1 /\ t.entries[n].xwr # 0
     /\ Index(mode, va, leaf) = Index(mode, t.entries[n].src, leaf)
TableReached(t, mode, va, level, w) ==
  \E i \in DOMAIN t.pages :
    /\ t.pages[i].level = level /\ w.a = t.pages[i].pa
    /\ level # 0 => t.pages[i].va = Index(mode, va, level - 1) * Span(mode, level - 1)
Reaching(t, mode, va, level, w) ==
  /\ w.kind \in {"table", "leaf", "fault"}
  /\ w.kind = "table" => TableReached(t, mode, va, level, w)
  /\ w.kind = "leaf" => \E n : PageOf(t, mode, va, n)

LEMMA InOnePage ==
  ASSUME NEW t, TableShape(t), t.start \in Int, PagesTile(t), NEW i \in DOMAIN t.pages, NEW j \in DOMAIN t.pages,
         NEW a \in 0..t.pages[i].size - 1, NEW b \in 0..t.pages[j].size - 1,
         t.pages[i].pa + a = t.pages[j].pa + b
  PROVE  i = j /\ a = b
<1>1. /\ t.pages[i].pa \in Int /\ t.pages[j].pa \in Int
      /\ t.pages[i].size \in Nat /\ t.pages[j].size \in Nat
      /\ i < j => t.pages[i].pa + t.pages[i].size <= t.pages[j].pa
      /\ j < i => t.pages[j].pa + t.pages[j].size <= t.pages[i].pa
  BY DEF PagesTile
<1>2. i \in Int /\ j \in Int
  BY DEF TableShape
<1>3. ~(i < j) /\ ~(j < i)
  BY <1>1
<1>4. i = j
  BY <1>2, <1>3
<1> QED
  BY <1>1, <1>4

LEMMA WalkStep ==
  ASSUME NEW mode \in DOMAIN Levels, NEW t, Finished(t, mode), NEW va \in Int,
         NEW l \in 0..LastLevel(mode), NEW readable \in SUBSET DOMAIN t.memory, NEW w,
         Reaching(t, mode, va, l, w)
  PROVE  Reaching(t, mode, va, l + 1, Visited(w, t.memory, readable, mode, va, l))
<1> DEFINE next == Visited(w, t.memory, readable, mode, va, l)
           address == w.a + PteOffset(mode, va, l)
           pte == t.memory[address]
<1>1. CASE w.kind # "table"
  <2>1. next = w
    BY <1>1 DEF Visited
  <2> QED
    BY <1>1, <2>1 DEF Reaching
<1>2. CASE w.kind = "table" /\ ~(address \in readable /\ Walkable(pte))
  <2>1. next = Fault
    BY <1>2 DEF Visited
  <2> QED
    BY <2>1 DEF Reaching, Fault
<1>3. CASE w.kind = "table" /\ address \in readable /\ Walkable(pte)
  <2>1. next = [kind |-> IF pte.xwr = 0 THEN "table" ELSE "leaf",
                a |-> PteTarget(mode, pte), level |-> l, xwr |-> pte.xwr, umode |-> pte.umode]
    BY <1>3, Zenon DEF Visited
  <2>2. PICK i \in DOMAIN t.pages :
          /\ t.pages[i].level = l /\ w.a = t.pages[i].pa
          /\ l # 0 => t.pages[i].va = Index(mode, va, l - 1) * Span(mode, l - 1)
    BY <1>3 DEF Reaching, TableReached
  <2>3. address \in DOMAIN t.memory
    BY <1>3
  <2>4. t.memory[address] # ZeroPte(mode)
    BY <1>3 DEF Walkable, ZeroPte, Pte
  <2>5. PICK n \in DOMAIN t.entries : \E k \in 0..LeafLevel(mode, t.entries[n]) :
          address = PteAddress(t, mode, t.entries[n].src, k)
    BY <2>3, <2>4 DEF Finished, Justified
  <2> DEFINE e == t.entries[n]
             leaf == LeafLevel(mode, e)
  <2>6. PICK k \in 0..leaf : address = PteAddress(t, mode, e.src, k)
    BY <2>5
  <2>7. PICK j : TableOf(t, mode, e, k, j)
    BY <2>6, TablesOfPage
  <2>8. e.src \in Int /\ leaf \in 0..LastLevel(mode) /\ LastLevel(mode) \in 2..3
    BY LeafLevelFacts, PowerFacts DEF Finished, Holding, LastLevel
  <2> HIDE DEF next, address, pte, e, leaf
  <2>9. i = j /\ PteOffset(mode, va, l) = PteOffset(mode, e.src, k)
    <3>1. PteOffset(mode, va, l) \in 0..t.pages[i].size - 1
      BY <2>2, IndexFacts DEF Finished, PagesRight
    <3>2. /\ PteOffset(mode, e.src, k) \in 0..t.pages[j].size - 1 /\ j \in DOMAIN t.pages
          /\ address = t.pages[j].pa + PteOffset(mode, e.src, k)
      BY <2>6, <2>7 DEF TableOf, TableAt
    <3>3. address = t.pages[i].pa + PteOffset(mode, va, l)
      BY <2>2 DEF address
    <3>4. TableShape(t) /\ t.start \in Int /\ PagesTile(t)
      BY DEF Finished
    <3> QED
      BY <3>1, <3>2, <3>3, <3>4, InOnePage
  <2>10. k = l
    BY <2>2, <2>7, <2>9 DEF TableOf, TableAt
  <2>11. Index(mode, va, l) = Index(mode, e.src, l)
    <3>1. CASE l = 0
      <4>1. PteOffset(mode, va, 0) = PteOffset(mode, e.src, 0)
        BY <2>9, <2>10, <3>1
      <4>2. Index(mode, va, 0) = Index(mode, e.src, 0)
        BY <2>8, <4>1, Ancestors, Zenon
      <4> QED
        BY <3>1, <4>2
    <3>2. CASE l # 0
      <4>1. l \in 1..LastLevel(mode) /\ l - 1 \in 0..LastLevel(mode)
        BY <2>8, <3>2
      <4>2. PICK x \in Int, y \in Int : x = Index(mode, va, l - 1) /\ y = Index(mode, e.src, l - 1)
        <5>1. PICK k1 \in 0..LastLevel(mode) : k1 = l - 1
          BY <4>1
        <5>2. Index(mode, va, k1) \in Nat /\ Index(mode, e.src, k1) \in Nat
          BY <2>8, IndexFacts
        <5> QED
          BY <5>1, <5>2
      <4>3. PICK s \in Nat \ {0} : s = Span(mode, l - 1)
        BY <4>1, PowerFacts
      <4>4. x * s = y * s
        BY <2>2, <2>7, <2>9, <2>10, <3>2, <4>2, <4>3 DEF TableOf
      <4>5. x = y
        <5>1. x * s = x * s + 0 /\ x * s \in Int
          BY <4>2, <4>3
        <5>2. (x * s) \div s = x
          BY <4>3, <5>1, QuotientRemainder
        <5>3. y * s = y * s + 0 /\ y * s \in Int
          BY <4>2, <4>3
        <5>4. (y * s) \div s = y
          BY <4>3, <5>3, QuotientRemainder
        <5> QED
          BY <4>4, <5>2, <5>4
      <4> QED
        BY <2>8, <2>9, <2>10, <4>1, <4>2, <4>5, Ancestors
    <3> QED
      BY <3>1, <3>2
  <2>12. CASE l < leaf
    <3>1. Walkable(pte) /\ pte.xwr = 0 /\ PteTarget(mode, pte) = Table(t, mode, e.src, l + 1).pa
      <4>1. l \in 0..LeafLevel(mode, t.entries[n]) /\ l < LeafLevel(mode, t.entries[n])
        BY <2>6, <2>10, <2>12 DEF e, leaf
      <4> QED
        BY <2>6, <2>10, <4>1, PointerRead DEF e, pte
    <3>2. l + 1 \in 0..leaf /\ l + 1 # 0 /\ l + 1 - 1 = l
      BY <2>8, <2>12
    <3>3. PICK m : TableOf(t, mode, e, l + 1, m)
      BY <3>2, TablesOfPage DEF e, leaf
    <3>4. next.kind = "table" /\ next.a = Table(t, mode, e.src, l + 1).pa
      BY <2>1, <3>1
    <3>5. TableReached(t, mode, va, l + 1, next)
      BY <2>11, <3>2, <3>3, <3>4 DEF TableReached, TableOf, TableAt
    <3> QED
      BY <3>4, <3>5 DEF Reaching, next
  <2>13. CASE l = leaf
    <3>1. e.valid = 1 /\ e.xwr # 0 /\ pte.xwr = e.xwr
      BY <1>3, <2>6, <2>10, <2>13, LeafRead DEF e, leaf, pte
    <3>2. PageOf(t, mode, va, n)
      BY <2>11, <2>13, <3>1 DEF PageOf, e, leaf
    <3>3. next.kind = "leaf"
      BY <2>1, <3>1
    <3> QED
      BY <3>2, <3>3 DEF Reaching, next
  <2>14. l < leaf \/ l = leaf
    BY <2>6, <2>8, <2>10
  <2> QED
    BY <2>12, <2>13, <2>14
<1> QED
  BY <1>1, <1>2, <1>3

LEMMA WalkFinds ==
  ASSUME NEW mode \in DOMAIN Levels, NEW t, Finished(t, mode), NEW va \in Int, HasRoot(t),
         NEW readable \in SUBSET DOMAIN t.memory,
         NEW v, Visiting(v, t.start, t.memory, readable, mode, va)
  PROVE  v[Levels[mode]].kind = "leaf" => \E n : PageOf(t, mode, va, n)
<1> DEFINE L == Levels[mode]
           R(l) == Reaching(t, mode, va, l, v[l])
<1>1. L \in 3..4 /\ LastLevel(mode) = L - 1
  BY PowerFacts DEF LastLevel
<1>0. /\ v[0] = [kind |-> "table", a |-> t.start]
      /\ \A l \in 0..LastLevel(mode) : v[l + 1] = Visited(v[l], t.memory, readable, mode, va, l)
  BY VisitsStep
<1>2. R(0)
  <2>1. v[0] = [kind |-> "table", a |-> t.start]
    BY <1>0
  <2>2. 1 \in DOMAIN t.pages /\ t.pages[1].level = 0 /\ t.pages[1].pa = t.start
    BY DEF HasRoot, Finished, PagesRight, PagesTile
  <2> QED
    BY <2>1, <2>2 DEF Reaching, TableReached
<1>3. ASSUME NEW l \in 0..L - 1, R(l) PROVE R(l + 1)
  <2>1. l \in 0..LastLevel(mode)
    BY <1>1
  <2>2. v[l + 1] = Visited(v[l], t.memory, readable, mode, va, l)
    BY <1>0, <2>1
  <2> QED
    BY <1>3, <2>1, <2>2, WalkStep
<1> HIDE DEF R
<1>4. R(1)
  BY <1>1, <1>2, <1>3
<1>5. R(2)
  BY <1>1, <1>3, <1>4
<1>6. R(3)
  BY <1>1, <1>3, <1>5
<1>7. L = 4 => R(4)
  BY <1>1, <1>3, <1>6
<1>8. R(L)
  BY <1>1, <1>6, <1>7
<1> QED
  BY <1>8 DEF R, Reaching
=============================================================================
