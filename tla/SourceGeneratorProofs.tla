------------------------ MODULE SourceGeneratorProofs ------------------------
(***************************************************************************)
(* Proofs about the linker script and the images of the page tables, about *)
(* what a walk of the tables finds of the map, and about the stacks,       *)
(* structs and save areas of the CPUs, for any attributes, any mappings    *)
(* and any widths: what LayoutProofs shows of the map and of the tables is *)
(* what they start from.                                                   *)
(***************************************************************************)
EXTENDS LayoutProofs

----------------------------------------------------------------------------
(* The sections of the linker script                                       *)

(* A list of names, whatever it holds.                                     *)
IsList(s) == Len(s) \in Nat /\ s = [k \in 1..Len(s) |-> s[k]]

LEMMA ListFrom ==
  ASSUME NEW S, NEW s \in Seq(S)
  PROVE  IsList(s)
BY DEF IsList

LEMMA ListIsSequence ==
  ASSUME NEW s, IsList(s)
  PROVE  s \in Seq({s[k] : k \in 1..Len(s)})
<1>1. PICK n \in Nat : n = Len(s) /\ s = [k \in 1..n |-> s[k]]
  BY DEF IsList
<1> DEFINE S == {s[k] : k \in 1..n}
<1>2. s \in [1..n -> S]
  BY <1>1
<1> HIDE DEF S
<1>3. s \in Seq(S)
  BY <1>1, <1>2
<1> QED
  BY <1>1, <1>3 DEF S

(* The names of the section of a mapping are those of the mapping, and     *)
(* perhaps that of main().                                                 *)
LEMMA NamesOfMapping ==
  ASSUME NEW m, IsList(m.linker_script_section)
  PROVE  /\ IsList(SectionNames(m))
         /\ \A x : Contains(m.linker_script_section, x) => Contains(SectionNames(m), x)
         /\ \A x : Contains(SectionNames(m), x) =>
                   x = ".text.startup" \/ Contains(m.linker_script_section, x)
<1> DEFINE names == m.linker_script_section
           T == {names[k] : k \in 1..Len(names)} \cup {".text.startup"}
           all == <<".text.startup">> \o names
<1>1. SectionNames(m) = all \/ SectionNames(m) = names
  BY DEF SectionNames
<1>2. names \in Seq(T) /\ <<".text.startup">> \in Seq(T)
  <2>1. names \in Seq({names[k] : k \in 1..Len(names)})
    BY ListIsSequence
  <2> QED
    BY <2>1
<1> HIDE DEF names, T
<1>3. /\ Len(names) \in Nat /\ all \in Seq(T) /\ Len(all) = 1 + Len(names)
      /\ all[1] = ".text.startup" /\ \A k \in 1..Len(names) : all[1 + k] = names[k]
  <2>1. Len(<<".text.startup">>) = 1 /\ <<".text.startup">>[1] = ".text.startup"
    OBVIOUS
  <2> QED
    BY <1>2, <2>1, JoinFacts
<1> HIDE DEF all
<1>4. IsList(SectionNames(m))
  BY <1>1, <1>2, <1>3, ListFrom DEF names
<1>5. ASSUME NEW x, Contains(names, x) PROVE Contains(all, x)
  <2>1. PICK k \in 1..Len(names) : names[k] = x
    BY <1>5 DEF Contains
  <2>2. 1 + k \in 1..Len(all)
    BY <1>3
  <2> QED
    BY <1>3, <2>1, <2>2 DEF Contains
<1>6. ASSUME NEW x, Contains(all, x) PROVE x = ".text.startup" \/ Contains(names, x)
  <2>1. PICK k \in 1..Len(all) : all[k] = x
    BY <1>6 DEF Contains
  <2>2. k = 1 \/ (k - 1 \in 1..Len(names) /\ 1 + (k - 1) = k)
    BY <1>3
  <2> QED
    BY <1>3, <2>1, <2>2 DEF Contains
<1> QED
  BY <1>1, <1>4, <1>5, <1>6 DEF names

SectionTyped(s) ==
  /\ s = [top |-> s.top, names |-> s.names, virt |-> s.virt, phys |-> s.phys, size |-> s.size,
          padded |-> s.padded]
  /\ s.phys \in Int /\ s.size \in Int /\ IsList(s.names)
SectionList(c) == \E S : c \in Seq(S) /\ \A s \in S : SectionTyped(s)

LEMMA SectionListFacts ==
  ASSUME NEW c, SectionList(c)
  PROVE  /\ Len(c) \in Nat /\ DOMAIN c = 1..Len(c)
         /\ \A i \in 1..Len(c) : /\ SectionTyped(c[i]) /\ c[i].phys \in Int /\ c[i].size \in Int
                                 /\ PhysEnd(c[i]) = c[i].phys + c[i].size
<1>1. PICK S : c \in Seq(S) /\ \A s \in S : SectionTyped(s)
  BY DEF SectionList
<1>2. Len(c) \in Nat /\ DOMAIN c = 1..Len(c) /\ \A i \in 1..Len(c) : c[i] \in S
  BY <1>1
<1> QED
  BY <1>1, <1>2 DEF SectionTyped, PhysEnd

(* Where the code of a section is linked to.                               *)
LinkedAt(m) == IF Source(m) = None THEN Dest(m) ELSE Source(m)

LEMMA SectionOfMapping ==
  ASSUME NEW m, Dest(m) \in Int, MappingSize(m) \in Int, IsList(m.linker_script_section)
  PROVE  LET s == LinkerScriptSection(m) IN
         /\ SectionTyped(s) /\ s.names = SectionNames(m) /\ s.top = m.linker_script_section[1]
         /\ s.phys = Dest(m) /\ s.size = MappingSize(m) /\ s.virt = LinkedAt(m)
BY NamesOfMapping DEF LinkerScriptSection, SectionTyped, LinkedAt

(* A guard is one 4K page behind its section.                              *)
LEMMA GuardFacts ==
  ASSUME NEW sec, PhysEnd(sec) \in Int, NEW n
  PROVE  LET g == LinkerScriptSection(NewMapping(GuardDict(sec, n))) IN
         /\ SectionTyped(g) /\ g.phys = PhysEnd(sec) /\ g.size = SIZE_4K
         /\ g.top = ".linker_guard_section_" \o ToString(n)
<1> DEFINE stage == Enabled[1]
           dict == GuardDict(sec, n)
           m == NewMapping(dict)
<1>1. stage \in Stage /\ stage # None
  <2>1. Enabled = <<"s">> \/ Enabled = <<"hs", "vs", "g">>
    BY DEF Enabled, EnabledStages
  <2>2. stage = "s" \/ stage = "hs"
    BY <2>1
  <2> QED
    BY <2>2, NoneAssumption DEF Stage
<1>2. PICK name : name = <<".linker_guard_section_" \o ToString(n)>>
  OBVIOUS
<1>3. TranslatesTo[stage] \in AddressTypes
  BY <1>1 DEF Stage, TranslatesTo, AddressTypes
<1>4. /\ DOMAIN dict = {"translation_stage", "num_pages", "page_size", "linker_script_section",
                        TranslatesTo[stage]}
      /\ dict.translation_stage = stage /\ dict.num_pages = 1 /\ dict.page_size = SIZE_4K
      /\ dict.linker_script_section = name /\ dict[TranslatesTo[stage]] = PhysEnd(sec)
  BY <1>2, <1>3 DEF GuardDict, Override, AddressTypes
<1> HIDE DEF dict, stage
<1>5. DOMAIN dict \subseteq DOMAIN FieldDefaults
  BY <1>3, <1>4 DEF FieldDefaults, AddressTypes
<1>6. "num_pages_per_cpu" \notin DOMAIN dict
  BY <1>3, <1>4 DEF AddressTypes
<1>7. /\ m.translation_stage = stage /\ m.num_pages = 1 /\ m.page_size = SIZE_4K
      /\ m.linker_script_section = name /\ m[TranslatesTo[stage]] = PhysEnd(sec)
  BY <1>1, <1>3, <1>4, <1>5, <1>6, NewMappingFields DEF CopiedFields
<1> HIDE DEF m
<1>8. SIZE_4K \in Nat \ {0}
  BY WidthsAssumption, PowersAssumption DEF SIZE_4K
<1>9. Dest(m) = PhysEnd(sec) /\ MappingSize(m) = SIZE_4K
  BY <1>7, <1>8 DEF Dest, MappingSize
<1>10. name[1] = ".linker_guard_section_" \o ToString(n) /\ IsList(name)
  BY <1>2 DEF IsList
<1>11. LET g == LinkerScriptSection(m) IN
       SectionTyped(g) /\ g.phys = PhysEnd(sec) /\ g.size = SIZE_4K /\ g.top = name[1]
  <2>1. Dest(m) \in Int /\ MappingSize(m) \in Int /\ IsList(m.linker_script_section)
    BY <1>7, <1>8, <1>9, <1>10
  <2>2. m.linker_script_section[1] = name[1]
    BY <1>7
  <2> QED
    BY <1>9, <2>1, <2>2, SectionOfMapping, Zenon
<1>12. m = NewMapping(GuardDict(sec, n))
  BY DEF m, dict
<1> QED
  BY <1>10, <1>11, <1>12, Zenon

(* Sorted by address.                                                      *)
LEMMA SortedSections ==
  ASSUME NEW c, SectionList(c)
  PROVE  LET n == Len(c) IN
         /\ \E q : Sorts(c, n, "phys", q)
         /\ SectionList(ByAddress(c)) /\ Len(ByAddress(c)) = n
         /\ \A k, l \in 1..n : k < l => ByAddress(c)[k].phys <= ByAddress(c)[l].phys
<1> DEFINE n == Len(c)
           b == ByAddress(c)
<1>1. PICK S : c \in Seq(S) /\ \A s \in S : SectionTyped(s)
  BY DEF SectionList
<1>2. /\ n \in Nat /\ DOMAIN c = 1..n
      /\ \A i \in 1..n : c[i] \in S /\ c[i].phys \in Int /\ c[i]["phys"] \in Int
  BY <1>1 DEF SectionTyped
<1> HIDE DEF n
<1>3. PICK q : Sorts(c, n, "phys", q)
  BY <1>2, SortedFacts
<1>4. /\ q \in [1..n -> 1..n] /\ b = [k \in 1..n |-> c[q[k]]]
      /\ \A k, l \in 1..n : k < l => c[q[k]].phys < c[q[l]].phys \/ c[q[k]].phys = c[q[l]].phys
  BY <1>3 DEF Sorts, ByAddress
<1> HIDE DEF b
<1>5. b \in [1..n -> S]
  BY <1>2, <1>4
<1>6. b \in Seq(S) /\ Len(b) = n
  BY <1>2, <1>5
<1>7. \A k, l \in 1..n : k < l => b[k].phys <= b[l].phys
  <2> SUFFICES ASSUME NEW k \in 1..n, NEW l \in 1..n, k < l PROVE b[k].phys <= b[l].phys
    OBVIOUS
  <2>1. b[k] = c[q[k]] /\ b[l] = c[q[l]] /\ q[k] \in 1..n /\ q[l] \in 1..n
    BY <1>4
  <2>2. b[k].phys < b[l].phys \/ b[k].phys = b[l].phys
    BY <1>4, <2>1
  <2>3. b[k].phys \in Int /\ b[l].phys \in Int
    BY <1>2, <2>1
  <2> QED
    BY <2>2, <2>3
<1> QED
  BY <1>1, <1>3, <1>6, <1>7 DEF SectionList, b, n

(* Every gap is followed by one guard.                                     *)
LEMMA GuardsOf ==
  ASSUME NEW b, SectionList(b)
  PROVE  LET F == FollowedByGap(b)
             g == GuardSections(b)
             c == Cardinality(F)
         IN /\ c \in Nat /\ DOMAIN g = 1..c /\ Len(g) = c /\ SectionList(g)
            /\ \A i \in F : \E k \in 1..c : g[k].phys = PhysEnd(b[i]) /\ g[k].size = SIZE_4K
            /\ \A k \in 1..c : /\ \E i \in F : g[k].phys = PhysEnd(b[i])
                               /\ g[k].top = ".linker_guard_section_" \o ToString(k - 1)
<1> DEFINE F == FollowedByGap(b)
           g == GuardSections(b)
           c == Cardinality(F)
           R == {p \in Pairs(F) : p[1] < p[2]}
           rank == [i \in F |-> Cardinality(Below(F, R, i))]
           at0(k) == CHOOSE i \in F : Cardinality({j \in F : j < i}) = k - 1
           guard(k) == LinkerScriptSection(NewMapping(GuardDict(b[at0(k)], k - 1)))
<1>1. Len(b) \in Nat /\ \A i \in 1..Len(b) : PhysEnd(b[i]) \in Int
  BY SectionListFacts
<1>2. F \subseteq 1..Len(b) - 1 /\ IsFiniteSet(1..Len(b) - 1)
  BY <1>1, FS_Interval DEF FollowedByGap
<1>3. IsFiniteSet(F) /\ F \in SUBSET Int /\ \A i \in F : PhysEnd(b[i]) \in Int
  BY <1>1, <1>2, FS_Subset
<1>4. g = [k \in 1..c |-> guard(k)]
  BY Zenon DEF GuardSections
<1> HIDE DEF F, g
<1>5. StrictOrder(F, R) /\ \A i, j \in F : <<i, j>> \in R <=> i < j
  <2>1. \A i, j \in F : <<i, j>> \in R <=> i < j
    BY DEF Pairs
  <2> QED
    BY <1>3, <2>1, ChosenOrder
<1>6. \A i \in F : rank[i] = Cardinality({j \in F : j < i})
  <2>1. \A i \in F : {j \in F : j < i} = Below(F, R, i)
    BY <1>5 DEF Below
  <2> QED
    BY <2>1
<1> HIDE DEF R
<1>7. /\ c \in Nat /\ rank \in [F -> 0..c - 1]
      /\ \A i, j \in F : rank[i] = rank[j] => i = j
      /\ \A k \in 0..c - 1 : \E i \in F : rank[i] = k
  <2>1. RanksNumber(F, R, rank)
    BY <1>3, <1>5, RankedByNumber
  <2> HIDE DEF rank
  <2> QED
    BY <2>1 DEF RanksNumber
<1> HIDE DEF c, rank
<1>8. \A k \in 1..c : at0(k) \in F /\ rank[at0(k)] = k - 1
  <2> SUFFICES ASSUME NEW k \in 1..c PROVE at0(k) \in F /\ rank[at0(k)] = k - 1
    OBVIOUS
  <2>1. k - 1 \in 0..c - 1
    BY <1>7
  <2>2. PICK i \in F : Cardinality({j \in F : j < i}) = k - 1
    BY <1>6, <1>7, <2>1
  <2>3. at0(k) \in F /\ Cardinality({j \in F : j < at0(k)}) = k - 1
    BY <2>2, Zenon
  <2> HIDE DEF at0
  <2> QED
    BY <1>6, <2>3
<1> HIDE DEF at0
<1>9. \A k \in 1..c : /\ SectionTyped(g[k]) /\ g[k].phys = PhysEnd(b[at0(k)]) /\ g[k].size = SIZE_4K
                      /\ g[k].top = ".linker_guard_section_" \o ToString(k - 1)
  <2> SUFFICES ASSUME NEW k \in 1..c
               PROVE  /\ SectionTyped(g[k]) /\ g[k].phys = PhysEnd(b[at0(k)]) /\ g[k].size = SIZE_4K
                      /\ g[k].top = ".linker_guard_section_" \o ToString(k - 1)
    OBVIOUS
  <2>1. g[k] = guard(k)
    BY <1>4
  <2>2. PhysEnd(b[at0(k)]) \in Int
    BY <1>3, <1>8
  <2> QED
    BY <2>1, <2>2, GuardFacts
<1>10. \A i \in F : \E k \in 1..c : at0(k) = i
  <2> SUFFICES ASSUME NEW i \in F PROVE \E k \in 1..c : at0(k) = i
    OBVIOUS
  <2>1. rank[i] \in 0..c - 1
    BY <1>7
  <2>2. rank[i] + 1 \in 1..c /\ rank[i] = rank[i] + 1 - 1
    BY <1>7, <2>1
  <2> QED
    BY <1>7, <1>8, <2>2
<1>11. DOMAIN g = 1..c /\ Len(g) = c
  BY <1>4, <1>7
<1>12. SectionList(g)
  <2> DEFINE S == {g[k] : k \in 1..c}
  <2>1. g = [k \in 1..c |-> g[k]]
    BY <1>4, <1>11
  <2>2. g \in [1..c -> S]
    BY <2>1
  <2>3. g \in Seq(S)
    BY <1>7, <2>2
  <2> QED
    BY <1>9, <2>3 DEF SectionList
<1>13. /\ \A i \in F : \E k \in 1..c : g[k].phys = PhysEnd(b[i]) /\ g[k].size = SIZE_4K
       /\ \A k \in 1..c : /\ \E i \in F : g[k].phys = PhysEnd(b[i])
                          /\ g[k].top = ".linker_guard_section_" \o ToString(k - 1)
  BY <1>8, <1>9, <1>10
<1> QED
  BY <1>7, <1>11, <1>12, <1>13 DEF F, g, c

(* The list with its guards: the sections, then the guards.                *)
GuardsAdded(b, n, c, e) ==
  /\ n \in Nat /\ c \in Nat /\ Len(e) = n + c /\ SectionList(e)
  /\ \A i \in 1..n : e[i] = b[i]
  /\ \A i \in FollowedByGap(b) : \E k \in 1..c :
       e[n + k].phys = PhysEnd(b[i]) /\ e[n + k].size = SIZE_4K
  /\ \A k \in 1..c : /\ \E i \in FollowedByGap(b) : e[n + k].phys = PhysEnd(b[i])
                     /\ e[n + k].top = ".linker_guard_section_" \o ToString(k - 1)

LEMMA GuardedFacts ==
  ASSUME NEW b, SectionList(b)
  PROVE  GuardsAdded(b, Len(b), Cardinality(FollowedByGap(b)), Guarded(b))
<1> DEFINE F == FollowedByGap(b)
           g == GuardSections(b)
           n == Len(b)
           c == Cardinality(FollowedByGap(b))
           e == Guarded(b)
<1>1. /\ c \in Nat /\ DOMAIN g = 1..c /\ Len(g) = c /\ SectionList(g)
      /\ \A i \in F : \E k \in 1..c : g[k].phys = PhysEnd(b[i]) /\ g[k].size = SIZE_4K
      /\ \A k \in 1..c : /\ \E i \in F : g[k].phys = PhysEnd(b[i])
                         /\ g[k].top = ".linker_guard_section_" \o ToString(k - 1)
  BY GuardsOf
<1>2. e = b \o g
  BY DEF Guarded
<1> HIDE DEF F, g, c, e
<1>3. PICK S, T : /\ b \in Seq(S) /\ \A x \in S : SectionTyped(x)
                  /\ g \in Seq(T) /\ \A x \in T : SectionTyped(x)
  BY <1>1 DEF SectionList
<1>4. b \in Seq(S \cup T) /\ g \in Seq(S \cup T)
  BY <1>3
<1>5. /\ n \in Nat /\ c \in Nat /\ e \in Seq(S \cup T) /\ Len(e) = n + c
      /\ \A i \in 1..n : e[i] = b[i]
      /\ \A k \in 1..c : e[n + k] = g[k]
  <2>1. Len(g) = c
    BY <1>1
  <2>2. /\ Len(b) \in Nat /\ e \in Seq(S \cup T) /\ Len(e) = Len(b) + Len(g)
        /\ \A i \in 1..Len(b) : e[i] = b[i]
        /\ \A k \in 1..Len(g) : e[Len(b) + k] = g[k]
    BY <1>2, <1>4, JoinFacts
  <2> QED
    BY <1>1, <2>1, <2>2, Zenon
<1> HIDE DEF n
<1>6. SectionList(e)
  BY <1>3, <1>5 DEF SectionList
<1>7. ASSUME NEW i \in F
      PROVE  \E k \in 1..c : e[n + k].phys = PhysEnd(b[i]) /\ e[n + k].size = SIZE_4K
  <2>1. PICK k \in 1..c : g[k].phys = PhysEnd(b[i]) /\ g[k].size = SIZE_4K
    BY <1>1
  <2>2. e[n + k] = g[k]
    BY <1>5
  <2> QED
    BY <2>1, <2>2
<1>8. ASSUME NEW k \in 1..c
      PROVE  /\ \E i \in F : e[n + k].phys = PhysEnd(b[i])
             /\ e[n + k].top = ".linker_guard_section_" \o ToString(k - 1)
  <2>1. PICK i \in F : g[k].phys = PhysEnd(b[i])
    BY <1>1
  <2>2. e[n + k] = g[k]
    BY <1>5
  <2>3. g[k].top = ".linker_guard_section_" \o ToString(k - 1)
    BY <1>1
  <2> QED
    BY <2>1, <2>2, <2>3
<1> QED
  <2>1. n \in Nat /\ c \in Nat /\ Len(e) = n + c /\ SectionList(e) /\ \A i \in 1..n : e[i] = b[i]
    BY <1>5, <1>6
  <2> QED
    BY <1>7, <1>8, <2>1, Zenon DEF F, n, c, e, GuardsAdded


(* A list whose neighbours lie apart and whose starts ascend lies apart.   *)
LEMMA PlacedApart ==
  ASSUME NEW s, SectionList(s), NEW N, N = Len(s),
         \A k, l \in 1..N : k < l => s[k].phys <= s[l].phys,
         \A k \in 1..N - 1 : PhysEnd(s[k]) <= s[k + 1].phys
  PROVE  \A i, j \in 1..N : i < j => PhysEnd(s[i]) <= s[j].phys
<1> DEFINE start == [k \in 1..N |-> s[k].phys]
           size == [k \in 1..N |-> s[k].size]
<1>1. N \in Nat
  BY SectionListFacts
<1>2. \A i \in 1..N : s[i].phys \in Int /\ s[i].size \in Int /\ PhysEnd(s[i]) = s[i].phys + s[i].size
  BY SectionListFacts
<1>3. start \in [1..N -> Int] /\ size \in [1..N -> Int]
  BY <1>2
<1>4. \A k \in 1..N - 1 : start[k] + size[k] <= start[k + 1]
  <2> SUFFICES ASSUME NEW k \in 1..N - 1 PROVE start[k] + size[k] <= start[k + 1]
    OBVIOUS
  <2>1. k \in 1..N /\ k + 1 \in 1..N
    BY <1>1
  <2>2. PhysEnd(s[k]) = s[k].phys + s[k].size /\ PhysEnd(s[k]) <= s[k + 1].phys
    BY <1>2, <2>1
  <2> QED
    BY <2>1, <2>2
<1>5. \A k, l \in 1..N : k < l => start[k] <= start[l]
  OBVIOUS
<1> HIDE DEF start, size
<1>6. \A k, l \in 1..N : k < l => start[k] + size[k] <= start[l]
  BY <1>1, <1>3, <1>4, <1>5, SortedNeighbours
<1> QED
  BY <1>2, <1>6 DEF start, size

(* The numbers of it: n sections in order and c guards, one at the end of  *)
(* each section with a gap behind it, sorted by p.  What follows a section *)
(* in the sorted list starts where the section ends.                       *)
Lined(n, c, P, E, p) ==
  /\ n \in Nat /\ c \in Nat
  /\ P \in [1..n + c -> Int] /\ E \in [1..n + c -> Int] /\ p \in [1..n + c -> 1..n + c]
  /\ \A k \in 1..n + c : \E j \in 1..n + c : p[j] = k
  /\ \A j, l \in 1..n + c : j < l => P[p[j]] < P[p[l]] \/ (P[p[j]] = P[p[l]] /\ p[j] < p[l])
  /\ \A j, l \in 1..n + c : j < l => E[p[j]] <= P[p[l]]
  /\ \A k, l \in 1..n : k < l => P[k] <= P[l]
  /\ \A k \in 1..n : P[k] <= E[k]
  /\ \A k \in 1..n - 1 : E[k] < P[k + 1] =>
       \E g \in 1..c : P[n + g] = E[k] /\ P[n + g] < E[n + g]
  /\ \A g \in 1..c : \E k \in 1..n - 1 : E[k] < P[k + 1] /\ P[n + g] = E[k]

LEMMA FollowedByNext ==
  ASSUME NEW n, NEW c, NEW P, NEW E, NEW p, Lined(n, c, P, E, p),
         NEW i \in 1..(n + c) - 1, p[i] <= n
  PROVE  E[p[i]] = P[p[i + 1]]
<1> DEFINE N == n + c
<1>1. /\ n \in Nat /\ c \in Nat /\ i \in 1..N - 1
       /\ P \in [1..N -> Int] /\ E \in [1..N -> Int] /\ p \in [1..N -> 1..N]
  BY Zenon DEF Lined
<1> USE <1>1
<1>2. \A k \in 1..N : \E j \in 1..N : p[j] = k
  BY DEF Lined
<1>3. \A j, l \in 1..N : j < l => P[p[j]] < P[p[l]] \/ (P[p[j]] = P[p[l]] /\ p[j] < p[l])
  BY DEF Lined
<1>4. \A j, l \in 1..N : j < l => E[p[j]] <= P[p[l]]
  BY DEF Lined
<1>5. \A k, l \in 1..n : k < l => P[k] <= P[l]
  BY DEF Lined
<1>6. PICK k \in 1..N : k = p[i]
  OBVIOUS
<1>7. PICK next \in 1..N : next = p[i + 1]
  OBVIOUS
<1>8. i \in 1..N /\ i + 1 \in 1..N /\ i < i + 1 /\ k \in 1..n
  BY <1>6
<1>9. PICK end \in Int : end = E[k]
  OBVIOUS
<1>10. PICK start \in Int : start = P[k]
  OBVIOUS
<1>11. PICK after \in Int : after = P[next]
  OBVIOUS
<1>12. start <= end
  BY <1>8, <1>9, <1>10 DEF Lined
<1>13. end <= after
  BY <1>4, <1>6, <1>7, <1>8, <1>9, <1>11
<1>14. ASSUME NEW j \in 1..N, i < j PROVE after <= P[p[j]]
  <2>1. CASE j = i + 1
    BY <1>7, <1>11, <2>1
  <2>2. CASE i + 1 < j
    <3>1. PICK there \in Int : there = P[p[j]]
      OBVIOUS
    <3>2. after < there \/ after = there
      BY <1>3, <1>7, <1>8, <1>11, <2>2, <3>1
    <3>3. after <= there
      BY <3>2
    <3> QED
      BY <3>1, <3>3, Zenon
  <2> QED
    BY <1>8, <1>14, <2>1, <2>2
<1>15. after <= end => E[p[i]] = P[p[i + 1]]
  <2>1. after <= end => end = after
    BY <1>13
  <2> QED
    BY <1>6, <1>7, <1>9, <1>11, <2>1, Zenon
<1>16. CASE k = n /\ next <= n
  <2>1. next \in 1..n /\ n \in 1..n /\ (next = n \/ next < n)
    BY <1>8, <1>16
  <2>2. CASE next < n
    <3>1. P[next] <= P[n]
      BY <1>5, <2>1, <2>2
    <3>2. after <= start
      BY <1>10, <1>11, <1>16, <3>1
    <3> QED
      BY <1>12, <1>15, <3>2
  <2>3. CASE next = n
    <3>1. after = start
      BY <1>10, <1>11, <1>16, <2>3
    <3> QED
      BY <1>12, <1>15, <3>1
  <2> QED
    BY <2>1, <2>2, <2>3
<1>17. CASE k = n /\ ~(next <= n)
  <2>1. PICK g \in 1..c : next = n + g
    <3>1. next - n \in 1..c /\ next = n + (next - n)
      BY <1>17
    <3> QED
      BY <3>1
  <2>2. PICK f \in 1..n - 1 : E[f] < P[f + 1] /\ P[n + g] = E[f]
    BY DEF Lined
  <2>3. f + 1 \in 1..n /\ f + 1 \in 1..N /\ f \in 1..N /\ (f + 1 = n \/ f + 1 < n)
    OBVIOUS
  <2>4. PICK second \in Int : second = P[f + 1]
    BY <2>3
  <2>5. second <= start
    <3>1. CASE f + 1 = n
      BY <1>10, <1>17, <2>4, <3>1
    <3>2. CASE f + 1 < n
      <4>1. n \in 1..n
        BY <2>3
      <4>2. P[f + 1] <= P[n]
        BY <1>5, <2>3, <3>2, <4>1
      <4> QED
        BY <1>10, <1>17, <2>4, <4>2
    <3> QED
      BY <2>3, <3>1, <3>2
  <2>6. after < second
    BY <1>11, <2>1, <2>2, <2>4
  <2> QED
    BY <1>12, <1>15, <2>5, <2>6
<1>18. CASE k # n
  <2>1. k \in 1..n - 1 /\ k + 1 \in 1..n /\ k + 1 \in 1..N /\ k < k + 1 /\ k \in 1..n
    BY <1>8, <1>18
  <2>2. PICK second \in Int : second = P[k + 1]
    BY <2>1
  <2>3. CASE end < second
    <3>1. PICK g \in 1..c : P[n + g] = E[k] /\ P[n + g] < E[n + g]
      BY <1>9, <2>1, <2>2, <2>3 DEF Lined
    <3>2. n + g \in 1..N /\ n + g # k
      BY <1>8
    <3>3. PICK j \in 1..N : p[j] = n + g
      BY <1>2, <3>2
    <3>4. PICK last \in Int : last = E[n + g]
      BY <3>2
    <3>5. ~(j < i)
      <4> SUFFICES ASSUME j < i PROVE FALSE
        OBVIOUS
      <4>1. last <= start
        BY <1>4, <1>6, <1>8, <1>10, <3>3, <3>4
      <4>2. end < last
        BY <1>9, <3>1, <3>4
      <4> QED
        BY <1>12, <4>1, <4>2
    <3>6. j # i
      BY <1>6, <3>2, <3>3
    <3>7. after <= P[n + g]
      BY <1>8, <1>14, <3>3, <3>5, <3>6
    <3>8. after <= end
      BY <1>9, <3>1, <3>7
    <3> QED
      BY <1>15, <3>8
  <2>4. CASE ~(end < second)
    <3>1. PICK j \in 1..N : p[j] = k + 1
      BY <1>2, <2>1
    <3>2. ~(j < i)
      <4> SUFFICES ASSUME j < i PROVE FALSE
        OBVIOUS
      <4>1. P[p[j]] < P[p[i]] \/ (P[p[j]] = P[p[i]] /\ p[j] < p[i])
        BY <1>3, <1>8
      <4>2. P[k + 1] < P[k] \/ (P[k + 1] = P[k] /\ k + 1 < k)
        BY <1>6, <3>1, <4>1, Zenon
      <4>3. second < start \/ (second = start /\ k + 1 < k)
        BY <1>10, <2>2, <4>2, Zenon
      <4>4. start <= second
        BY <1>5, <1>10, <2>1, <2>2
      <4> QED
        BY <4>4, <4>3
    <3>3. j # i
      BY <1>6, <2>1, <3>1
    <3>4. after <= P[k + 1]
      BY <1>8, <1>14, <3>1, <3>2, <3>3
    <3>5. after <= second
      BY <2>2, <3>4, Zenon
    <3>6. after <= end
      BY <2>4, <3>5
    <3> QED
      BY <1>15, <3>6
  <2> QED
    BY <2>3, <2>4
<1> QED
  BY <1>8, <1>16, <1>17, <1>18


Guards(s, i) == \E n \in 0..Len(s) : s[i].top = ".linker_guard_section_" \o ToString(n)

(* What is placed: every section that was collected, none over another,    *)
(* and behind each but the last another one or a guard.                    *)
PlacedFrom(c, s) ==
  /\ SectionList(s)
  /\ \A i \in 1..Len(c) : \E j \in 1..Len(s) : s[j] = c[i]
  /\ \A i, j \in 1..Len(s) : i < j => PhysEnd(s[i]) <= s[j].phys
  /\ (\A i \in 1..Len(c) : c[i].size >= 0) =>
       \A i \in 1..Len(s) - 1 : Guards(s, i) \/ PhysEnd(s[i]) = s[i + 1].phys

LEMMA PlacedSections ==
  ASSUME NEW c, SectionList(c), NEW s, s = ByAddress(Guarded(ByAddress(c))), SectionsPlaceable(s)
  PROVE  PlacedFrom(c, s)
<1>1. PICK n \in Nat : n = Len(c)
  BY SectionListFacts
<1>2. PICK b : b = ByAddress(c)
  OBVIOUS
<1>3. /\ \E q : Sorts(c, n, "phys", q)
      /\ SectionList(b) /\ Len(b) = n
      /\ \A k, l \in 1..n : k < l => b[k].phys <= b[l].phys
  BY <1>1, <1>2, SortedSections
<1>4. PICK e : e = Guarded(b)
  OBVIOUS
<1>5. PICK g : g = Cardinality(FollowedByGap(b))
  OBVIOUS
<1>6. /\ g \in Nat /\ Len(e) = n + g /\ SectionList(e)
      /\ \A i \in 1..n : e[i] = b[i]
      /\ \A i \in FollowedByGap(b) : \E k \in 1..g : e[n + k].phys = PhysEnd(b[i]) /\ e[n + k].size = SIZE_4K
      /\ \A k \in 1..g : /\ \E i \in FollowedByGap(b) : e[n + k].phys = PhysEnd(b[i])
                         /\ e[n + k].top = ".linker_guard_section_" \o ToString(k - 1)
  <2>1. SectionList(b) /\ Len(b) = n
    BY <1>3
  <2>2. GuardsAdded(b, n, g, e)
    BY <1>4, <1>5, <2>1, GuardedFacts
  <2> QED
    BY <2>2 DEF GuardsAdded
<1>7. PICK N \in Nat : N = n + g
  BY <1>6
<1>8. /\ \E p : Sorts(e, N, "phys", p)
      /\ SectionList(s) /\ Len(s) = N
      /\ \A k, l \in 1..N : k < l => s[k].phys <= s[l].phys
  BY <1>2, <1>4, <1>6, <1>7, SortedSections
<1>9. PICK q : Sorts(c, n, "phys", q)
  BY <1>3
<1>10. PICK p : Sorts(e, N, "phys", p)
  BY <1>8
<1>11. /\ q \in [1..n -> 1..n] /\ b = [k \in 1..n |-> c[q[k]]]
       /\ \A i \in 1..n : \E k \in 1..n : q[k] = i
  BY <1>2, <1>9 DEF Sorts, ByAddress
<1>12. /\ p \in [1..N -> 1..N] /\ s = [k \in 1..N |-> e[p[k]]]
       /\ \A i \in 1..N : \E k \in 1..N : p[k] = i
       /\ \A k, l \in 1..N : k < l =>
            e[p[k]].phys < e[p[l]].phys \/ (e[p[k]].phys = e[p[l]].phys /\ p[k] < p[l])
  BY <1>2, <1>4, <1>10 DEF Sorts, ByAddress
<1>13. 1..n \subseteq 1..N
  BY <1>6, <1>7
<1>14. \A k \in 1..N - 1 : PhysEnd(s[k]) <= s[k + 1].phys
  BY <1>8 DEF SectionsPlaceable
<1>15. \A i, j \in 1..N : i < j => PhysEnd(s[i]) <= s[j].phys
  BY <1>8, <1>14, PlacedApart
<1>16. \A i \in 1..n : \E j \in 1..N : s[j] = c[i]
  <2> SUFFICES ASSUME NEW i \in 1..n PROVE \E j \in 1..N : s[j] = c[i]
    OBVIOUS
  <2>1. PICK k \in 1..n : q[k] = i
    BY <1>11
  <2>2. k \in 1..N /\ e[k] = c[i]
    BY <1>6, <1>11, <1>13, <2>1
  <2>3. PICK j \in 1..N : p[j] = k
    BY <1>12, <2>2
  <2>4. s[j] = e[k]
    BY <1>12, <2>3
  <2> QED
    BY <2>2, <2>4
<1>17. ASSUME \A i \in 1..n : c[i].size >= 0, NEW i \in 1..N - 1
       PROVE  Guards(s, i) \/ PhysEnd(s[i]) = s[i + 1].phys
  <2> DEFINE P == [k \in 1..N |-> e[k].phys]
             E == [k \in 1..N |-> PhysEnd(e[k])]
  <2>1. \A k \in 1..N : e[k].phys \in Int /\ e[k].size \in Int /\ PhysEnd(e[k]) = e[k].phys + e[k].size
    <3>1. SectionList(e) /\ Len(e) = N
      BY <1>6, <1>7
    <3> QED
      BY <3>1, SectionListFacts
  <2>2. P \in [1..N -> Int] /\ E \in [1..N -> Int]
    BY <2>1
  <2>3. \A k \in 1..N : s[k] = e[p[k]] /\ p[k] \in 1..N /\ s[k].phys = P[p[k]] /\ PhysEnd(s[k]) = E[p[k]]
    BY <1>12
  <2>4. \A k \in 1..n : k \in 1..N /\ P[k] = b[k].phys /\ E[k] = PhysEnd(b[k]) /\ e[k] = b[k]
    BY <1>6, <1>13
  <2>5. \A k \in 1..n : P[k] <= E[k]
    <3> SUFFICES ASSUME NEW k \in 1..n PROVE P[k] <= E[k]
      OBVIOUS
    <3>1. e[k] = c[q[k]] /\ q[k] \in 1..n
      BY <1>11, <2>4
    <3>2. e[k].size >= 0
      BY <1>17, <3>1
    <3>3. k \in 1..N
      BY <1>13
    <3>4. e[k].phys <= PhysEnd(e[k])
      BY <2>1, <3>2, <3>3
    <3> QED
      BY <3>3, <3>4
  <2>6. \A k \in 1..g : n + k \in 1..N /\ P[n + k] = e[n + k].phys /\ E[n + k] = PhysEnd(e[n + k])
    <3> SUFFICES ASSUME NEW k \in 1..g
                 PROVE  n + k \in 1..N /\ P[n + k] = e[n + k].phys /\ E[n + k] = PhysEnd(e[n + k])
      OBVIOUS
    <3>1. n + k \in 1..N
      BY <1>6, <1>7
    <3> QED
      BY <3>1
  <2>7. \A k \in 1..n - 1 : k \in 1..n /\ k + 1 \in 1..n /\ (k \in FollowedByGap(b) <=> E[k] < P[k + 1])
    <3>1. FollowedByGap(b) = {k \in 1..n - 1 : PhysEnd(b[k]) < b[k + 1].phys}
      BY <1>3 DEF FollowedByGap
    <3>2. \A k \in 1..n - 1 : k \in 1..n /\ k + 1 \in 1..n
      OBVIOUS
    <3> QED
      BY <2>4, <3>1, <3>2
  <2>8. FollowedByGap(b) \subseteq 1..n - 1
    BY <1>3 DEF FollowedByGap
  <2> HIDE DEF P, E
  <2>9. \A k \in 1..n - 1 : E[k] < P[k + 1] =>
          \E f \in 1..g : P[n + f] = E[k] /\ P[n + f] < E[n + f]
    <3> SUFFICES ASSUME NEW k \in 1..n - 1, E[k] < P[k + 1]
                 PROVE  \E f \in 1..g : P[n + f] = E[k] /\ P[n + f] < E[n + f]
      OBVIOUS
    <3>1. PICK f \in 1..g : e[n + f].phys = PhysEnd(b[k]) /\ e[n + f].size = SIZE_4K
      BY <1>6, <2>7
    <3>2. P[n + f] = E[k]
      BY <2>4, <2>6, <2>7, <3>1
    <3>3. SIZE_4K \in Nat \ {0}
      BY WidthsAssumption, PowersAssumption DEF SIZE_4K
    <3>4. e[n + f].phys < PhysEnd(e[n + f])
      BY <2>1, <2>6, <3>1, <3>3
    <3> QED
      BY <2>6, <3>2, <3>4
  <2>10. \A f \in 1..g : \E k \in 1..n - 1 : E[k] < P[k + 1] /\ P[n + f] = E[k]
    <3> SUFFICES ASSUME NEW f \in 1..g PROVE \E k \in 1..n - 1 : E[k] < P[k + 1] /\ P[n + f] = E[k]
      OBVIOUS
    <3>1. PICK k \in FollowedByGap(b) : e[n + f].phys = PhysEnd(b[k])
      BY <1>6
    <3>2. k \in 1..n - 1 /\ E[k] < P[k + 1]
      BY <2>7, <2>8
    <3>3. P[n + f] = E[k]
      BY <2>4, <2>6, <2>7, <3>1, <3>2
    <3> QED
      BY <3>2, <3>3
  <2>11. Lined(n, g, P, E, p)
    <3>1. \A j, l \in 1..N : j < l => P[p[j]] < P[p[l]] \/ (P[p[j]] = P[p[l]] /\ p[j] < p[l])
      <4> SUFFICES ASSUME NEW j \in 1..N, NEW l \in 1..N, j < l
                   PROVE  P[p[j]] < P[p[l]] \/ (P[p[j]] = P[p[l]] /\ p[j] < p[l])
        OBVIOUS
      <4>1. e[p[j]].phys = P[p[j]] /\ e[p[l]].phys = P[p[l]]
        BY <2>3
      <4>2. e[p[j]].phys < e[p[l]].phys \/ (e[p[j]].phys = e[p[l]].phys /\ p[j] < p[l])
        BY <1>12
      <4> QED
        BY <4>1, <4>2, Zenon
    <3>2. \A j, l \in 1..N : j < l => E[p[j]] <= P[p[l]]
      BY <1>15, <2>3
    <3>3. \A k, l \in 1..n : k < l => P[k] <= P[l]
      BY <1>3, <2>4
    <3> QED
      BY <1>6, <1>7, <1>12, <2>2, <2>5, <2>9, <2>10, <3>1, <3>2, <3>3 DEF Lined
  <2>12. i \in 1..N /\ i + 1 \in 1..N /\ p[i] \in 1..N
    BY <1>12
  <2>13. CASE p[i] <= n
    <3>1. E[p[i]] = P[p[i + 1]]
      <4>1. i \in 1..(n + g) - 1
        BY <1>7
      <4>2. \A j \in 1..(n + g) - 1 : p[j] <= n => E[p[j]] = P[p[j + 1]]
        BY <2>11, FollowedByNext
      <4> QED
        BY <2>13, <4>1, <4>2
    <3> QED
      BY <2>3, <2>12, <3>1
  <2>14. CASE ~(p[i] <= n)
    <3>1. PICK f \in 1..g : p[i] = n + f
      <4>1. PICK k \in Int : k = p[i] /\ 1 <= k /\ k <= N
        BY <1>7, <2>12
      <4>2. k > n
        BY <1>6, <2>14, <4>1
      <4>3. k - n \in 1..g /\ k = n + (k - n)
        BY <1>6, <1>7, <4>1, <4>2
      <4> QED
        BY <4>1, <4>3
    <3>2. s[i].top = ".linker_guard_section_" \o ToString(f - 1)
      <4>1. s[i] = e[n + f]
        BY <2>3, <2>12, <3>1
      <4> QED
        BY <1>6, <4>1
    <3>3. f - 1 \in 0..Len(s)
      BY <1>6, <1>7, <1>8
    <3> QED
      BY <3>2, <3>3 DEF Guards
  <2> QED
    BY <2>13, <2>14
<1> QED
  BY <1>1, <1>8, <1>15, <1>16, <1>17 DEF PlacedFrom

----------------------------------------------------------------------------
(* The collection of the sections                                          *)

(* The mappings that name a section are mappings of the map.               *)
Named(m) ==
  /\ m.linker_script_section # None
  /\ \E s \in EnabledSet : \E k \in DOMAIN memory_map[s] : m = memory_map[s][k]

LEMMA LinkerWorkTyped ==
  ASSUME MapInv, MapChecked
  PROVE  /\ Len(LinkerWork) \in Nat /\ DOMAIN LinkerWork = 1..Len(LinkerWork)
         /\ \A i \in DOMAIN LinkerWork :
              /\ Dest(LinkerWork[i]) \in Int /\ MappingSize(LinkerWork[i]) \in Int
              /\ IsList(LinkerWork[i].linker_script_section)
              /\ Named(LinkerWork[i])
         /\ \A m : Named(m) => \E i \in DOMAIN LinkerWork : LinkerWork[i] = m
<1> DEFINE S == {m \in UNION {ToSet(memory_map[s]) : s \in EnabledSet} :
                   /\ Dest(m) \in Int /\ MappingSize(m) \in Int
                   /\ IsList(m.linker_script_section) /\ Named(m)}
           named(map) == {j \in DOMAIN map : map[j].linker_script_section # None}
           parts == [i \in DOMAIN Enabled |->
                       LET map == memory_map[Enabled[i]] IN Chosen(map, named(map))]
<1>1. LinkerWork = FlattenSeq(parts)
  BY Zenon DEF LinkerWork
<1>2. \A s \in EnabledSet : MappingList(memory_map[s], s)
  BY DEF MapInv, MapTyped, Attributed, MapChecked
<1>3. ASSUME NEW i \in DOMAIN Enabled PROVE parts[i] \in Seq(S)
  <2> DEFINE map == memory_map[Enabled[i]]
             I == named(map)
             C == Chosen(map, I)
  <2>1. Enabled[i] \in EnabledSet
    BY DEF EnabledSet
  <2>2. /\ DOMAIN map \in SUBSET Int /\ IsFiniteSet(DOMAIN map)
        /\ \A j \in DOMAIN map : MappingTyped(map[j], Enabled[i]) /\ MappingSize(map[j]) \in Int
    BY <1>2, <2>1, ListFacts
  <2>3. I \in SUBSET Int /\ IsFiniteSet(I)
    BY <2>2, FS_Subset
  <2>4. ASSUME NEW j \in I PROVE map[j] \in S
    <3>1. map[j] \in ToSet(map)
      BY DEF ToSet
    <3>2. map[j] \in UNION {ToSet(memory_map[s]) : s \in EnabledSet}
      BY <2>1, <3>1
    <3>3. map[j].linker_script_section # None /\ MappingTyped(map[j], Enabled[i])
      BY <2>2
    <3>4. map[j].linker_script_section \in Seq(STRING)
      BY <3>3 DEF MappingTyped
    <3>5. IsList(map[j].linker_script_section) /\ Named(map[j])
      BY <2>1, <3>3, <3>4, ListFrom DEF Named
    <3> QED
      BY <2>2, <3>2, <3>5 DEF MappingTyped
  <2>5. parts[i] = C
    OBVIOUS
  <2> HIDE DEF map, I, S, parts
  <2>6. C \in Seq({map[j] : j \in I})
    BY <2>3, ChosenElements
  <2>7. {map[j] : j \in I} \subseteq S
    BY <2>4
  <2> QED
    BY <2>5, <2>6, <2>7
<1>4. Len(Enabled) \in Nat /\ DOMAIN parts = 1..Len(Enabled)
  BY EnabledFacts
<1>5. parts = [i \in 1..Len(Enabled) |-> parts[i]] /\ DOMAIN Enabled = 1..Len(Enabled)
  BY EnabledFacts
<1> HIDE DEF parts
<1>6. parts \in Seq(Seq(S)) /\ Len(parts) \in Nat
  BY <1>3, <1>4, <1>5
<1>7. LinkerWork \in Seq(S)
  BY <1>1, <1>6, FlattenType
<1>8. \A m \in S : /\ Dest(m) \in Int /\ MappingSize(m) \in Int
                   /\ IsList(m.linker_script_section) /\ Named(m)
  OBVIOUS
<1> HIDE DEF S
<1>9. ASSUME NEW m, Named(m) PROVE \E i \in DOMAIN LinkerWork : LinkerWork[i] = m
  <2>1. PICK s \in EnabledSet : \E k \in DOMAIN memory_map[s] : m = memory_map[s][k]
    BY <1>9 DEF Named
  <2>2. PICK i \in DOMAIN Enabled : s = Enabled[i]
    BY DEF EnabledSet
  <2> DEFINE map == memory_map[Enabled[i]]
             I == named(map)
  <2>3. PICK k \in I : m = map[k]
    BY <1>9, <2>1, <2>2 DEF Named
  <2>4. I \in SUBSET Int /\ IsFiniteSet(I)
    BY <1>2, <2>2, ListFacts, FS_Subset
  <2>5. parts[i] = Chosen(map, I)
    BY DEF parts
  <2> HIDE DEF map, I
  <2>6. /\ DOMAIN Chosen(map, I) = 1..Len(Chosen(map, I))
        /\ \E n \in DOMAIN Chosen(map, I) : Chosen(map, I)[n] = map[k]
    BY <2>4, ChosenElements
  <2>7. PICK n \in 1..Len(parts[i]) : parts[i][n] = m
    BY <2>3, <2>5, <2>6, Zenon
  <2>8. i \in 1..Len(parts)
    BY <1>4, <1>5, <1>6
  <2>9. \E l \in DOMAIN FlattenSeq(parts) : FlattenSeq(parts)[l] = parts[i][n]
    BY <1>6, <2>8, FlattenHolds
  <2> QED
    BY <1>1, <2>7, <2>9
<1>10. Len(LinkerWork) \in Nat /\ DOMAIN LinkerWork = 1..Len(LinkerWork)
       /\ \A i \in DOMAIN LinkerWork : LinkerWork[i] \in S
  BY <1>7
<1> QED
  BY <1>8, <1>9, <1>10

LEMMA LinkerWorkStays ==
  ASSUME UNCHANGED <<diag_attributes, memory_map>>
  PROVE  /\ LinkerWork' = LinkerWork /\ MergedUpwards' = MergedUpwards /\ SizesSound' = SizesSound
<1>1. LinkerWork' = LinkerWork
  <2>1. Enabled' = Enabled
    BY DEF Enabled
  <2> QED
    BY <2>1, Zenon DEF LinkerWork
<1> QED
  BY <1>1 DEF MergedUpwards, SizesSound, SectionNames, Dest, MappingSize

(* A section only grows at its end when it is merged with one that does    *)
(* not start before it.                                                    *)
LEMMA MergedFacts ==
  ASSUME NEW a, SectionTyped(a), NEW b, SectionTyped(b)
  PROVE  LET u == Merged(a, b) IN
         /\ SectionTyped(u) /\ u.names = a.names /\ u.virt = a.virt
         /\ a.size >= 0 => u.size >= 0
         /\ a.phys <= b.phys =>
              /\ u.phys = a.phys
              /\ PhysEnd(a) <= PhysEnd(u) /\ PhysEnd(b) <= PhysEnd(u)
<1> DEFINE u == Merged(a, b)
           start == IF b.phys < a.phys THEN b.phys ELSE a.phys
           size == IF start + a.size < PhysEnd(b) THEN PhysEnd(b) - start ELSE a.size
<1>1. /\ a.phys \in Int /\ a.size \in Int /\ b.phys \in Int /\ b.size \in Int /\ IsList(a.names)
      /\ PhysEnd(a) = a.phys + a.size /\ PhysEnd(b) = b.phys + b.size
  BY DEF SectionTyped, PhysEnd
<1>2. u = [a EXCEPT !.phys = start, !.size = size]
  BY Zenon DEF Merged
<1>3. start \in Int /\ size \in Int
  BY <1>1
<1>4. a.size >= 0 => size >= 0
  BY <1>1
<1>5. a.phys <= b.phys =>
        start = a.phys /\ PhysEnd(a) <= start + size /\ PhysEnd(b) <= start + size
  BY <1>1
<1> HIDE DEF start, size
<1>6. u = [top |-> a.top, names |-> a.names, virt |-> a.virt, phys |-> start, size |-> size,
           padded |-> a.padded]
  BY <1>2 DEF SectionTyped
<1> HIDE DEF u
<1>7. /\ u.top = a.top /\ u.names = a.names /\ u.virt = a.virt /\ u.phys = start
      /\ u.size = size /\ u.padded = a.padded
  BY <1>6
<1>8. SectionTyped(u)
  BY <1>1, <1>3, <1>6, <1>7 DEF SectionTyped
<1>9. PhysEnd(u) = start + size
  BY <1>7 DEF PhysEnd
<1> QED
  BY <1>4, <1>5, <1>7, <1>8, <1>9 DEF u

(* The sections s that the first mappings of the list, those before the    *)
(* n-th, have been collected in: each has the names of one of them, of the *)
(* first that has them, and is linked where that is, and starts there if   *)
(* no mapping is merged downwards; the names of every one of them are      *)
(* those of some section.                                                  *)
FirstNamed(i) ==
  \A j \in DOMAIN LinkerWork :
    j < i => ToSet(SectionNames(LinkerWork[j])) # ToSet(SectionNames(LinkerWork[i]))
NamesIn(m, s) == \E k \in DOMAIN s : ToSet(SectionNames(m)) \subseteq ToSet(s[k].names)
Collected(s, n) ==
  /\ SectionList(s)
  /\ \A k \in DOMAIN s : \E i \in DOMAIN LinkerWork :
       /\ i < n /\ s[k].names = SectionNames(LinkerWork[i])
       /\ s[k].virt = LinkedAt(LinkerWork[i]) /\ FirstNamed(i)
       /\ MergedUpwards => s[k].phys = Dest(LinkerWork[i])
  /\ \A j \in DOMAIN LinkerWork : j < n => NamesIn(LinkerWork[j], s)
  /\ MergedUpwards =>
       \A j \in DOMAIN LinkerWork : j < n => \E k \in DOMAIN s : CoveredBy(LinkerWork[j], s[k])
  /\ SizesSound => \A k \in DOMAIN s : s[k].size >= 0

LEMMA CollectedStays ==
  ASSUME UNCHANGED <<diag_attributes, memory_map>>
  PROVE  Collected(sections, at)' <=> Collected(sections', at')
BY LinkerWorkStays DEF Collected, FirstNamed, NamesIn, LinkedAt, Source, SectionList, SectionTyped, SectionNames, CoveredBy, PhysEnd, Dest,
                       MappingSize

LEMMA EmptyCollection ==
  ASSUME MapInv, MapChecked
  PROVE  Collected(<<>>, 1)
<1>1. DOMAIN LinkerWork = 1..Len(LinkerWork) /\ Len(LinkerWork) \in Nat
  BY LinkerWorkTyped
<1>2. PICK s, S : s = <<>> /\ S = {}
  OBVIOUS
<1>3. s \in Seq(S) /\ DOMAIN s = {} /\ \A x \in S : SectionTyped(x)
  BY <1>2
<1>4. SectionList(s)
  BY <1>3 DEF SectionList
<1>5. \A j \in DOMAIN LinkerWork : ~(j < 1)
  BY <1>1
<1>6. Collected(s, 1)
  BY <1>3, <1>4, <1>5, Zenon DEF Collected
<1> QED
  BY <1>2, <1>6

(* A mapping that no section has the names of gets one of its own.         *)
Holders(s, new) == {k \in DOMAIN s : ToSet(new.names) \subseteq ToSet(s[k].names)}

LEMMA AppendCollected ==
  ASSUME MapInv, MapChecked, NEW s, NEW n \in Nat, Collected(s, n), n \in DOMAIN LinkerWork,
         NEW new, new = LinkerScriptSection(LinkerWork[n]), Holders(s, new) = {}
  PROVE  Collected(Append(s, new), n + 1)
<1> DEFINE m == LinkerWork[n]
           t == Append(s, new)
           l == Len(s)
<1>1. /\ DOMAIN LinkerWork = 1..Len(LinkerWork) /\ Len(LinkerWork) \in Nat
      /\ Dest(m) \in Int /\ MappingSize(m) \in Int /\ IsList(m.linker_script_section)
  BY LinkerWorkTyped
<1>2. /\ SectionTyped(new) /\ new.names = SectionNames(m) /\ new.phys = Dest(m)
      /\ new.size = MappingSize(m) /\ new.virt = LinkedAt(m)
  BY <1>1, SectionOfMapping
<1>3. SectionList(s) /\ l \in Nat /\ DOMAIN s = 1..l
  BY SectionListFacts DEF Collected
<1>4. PICK S : s \in Seq(S) /\ \A x \in S : SectionTyped(x)
  BY <1>3 DEF SectionList
<1>5. s \in Seq(S \cup {new}) /\ new \in S \cup {new}
  BY <1>4
<1>6. /\ t \in Seq(S \cup {new}) /\ Len(t) = l + 1 /\ DOMAIN t = 1..l + 1
      /\ t[l + 1] = new /\ \A k \in 1..l : t[k] = s[k]
  BY <1>5
<1> HIDE DEF t, l, m
<1>7. SectionList(t)
  BY <1>2, <1>4, <1>6 DEF SectionList
<1>8. \A k \in 1..l + 1 : k \in 1..l \/ k = l + 1
  BY <1>3
<1>9. \A i \in DOMAIN LinkerWork : (i < n => i < n + 1) /\ (i < n + 1 => i < n \/ i = n)
  BY <1>1
<1>10. l + 1 \in DOMAIN t /\ 1..l \subseteq DOMAIN t /\ n < n + 1
  BY <1>3, <1>6
<1>11. CoveredBy(m, new)
  BY <1>1, <1>2 DEF CoveredBy, PhysEnd
<1>17. FirstNamed(n)
  <2> SUFFICES ASSUME NEW j \in DOMAIN LinkerWork, j < n,
                      ToSet(SectionNames(LinkerWork[j])) = ToSet(SectionNames(m))
               PROVE  FALSE
    BY DEF FirstNamed, m
  <2>1. PICK k \in DOMAIN s : ToSet(SectionNames(LinkerWork[j])) \subseteq ToSet(s[k].names)
    BY Zenon DEF Collected, NamesIn
  <2>2. k \in Holders(s, new)
    BY <1>2, <2>1 DEF Holders
  <2> QED
    BY <2>2
<1>12. ASSUME NEW k \in DOMAIN t
       PROVE  \E i \in DOMAIN LinkerWork :
                /\ i < n + 1 /\ t[k].names = SectionNames(LinkerWork[i])
                /\ t[k].virt = LinkedAt(LinkerWork[i]) /\ FirstNamed(i)
                /\ MergedUpwards => t[k].phys = Dest(LinkerWork[i])
  <2>1. CASE k \in 1..l
    <3>1. PICK i \in DOMAIN LinkerWork :
            /\ i < n /\ s[k].names = SectionNames(LinkerWork[i])
            /\ s[k].virt = LinkedAt(LinkerWork[i]) /\ FirstNamed(i)
            /\ MergedUpwards => s[k].phys = Dest(LinkerWork[i])
      BY <1>3, <2>1, Zenon DEF Collected
    <3>2. i < n + 1
      BY <1>9, <3>1
    <3> QED
      BY <1>6, <2>1, <3>1, <3>2, Zenon
  <2>2. CASE k = l + 1
    BY <1>2, <1>6, <1>10, <1>17, <2>2, Zenon DEF m
  <2> QED
    BY <1>6, <1>8, <2>1, <2>2
<1>13. ASSUME MergedUpwards, NEW j \in DOMAIN LinkerWork, j < n + 1
       PROVE  \E k \in DOMAIN t : CoveredBy(LinkerWork[j], t[k])
  <2>1. CASE j < n
    <3>1. PICK k \in DOMAIN s : CoveredBy(LinkerWork[j], s[k])
      BY <1>13, <2>1, Zenon DEF Collected
    <3>2. k \in DOMAIN t /\ t[k] = s[k]
      BY <1>3, <1>6, <1>10
    <3> QED
      BY <3>1, <3>2, Zenon
  <2>2. CASE j = n
    BY <1>6, <1>10, <1>11, <2>2, Zenon DEF m
  <2> QED
    BY <1>9, <1>13, <2>1, <2>2
<1>14. ASSUME SizesSound, NEW k \in DOMAIN t
       PROVE  t[k].size >= 0
  <2>1. m \in ToSet(LinkerWork)
    BY DEF ToSet, m
  <2>2. MappingSize(m) >= 0
    BY <1>14, <2>1 DEF SizesSound
  <2>3. CASE k \in 1..l
    BY <1>3, <1>6, <1>14, <2>3 DEF Collected
  <2>4. CASE k = l + 1
    BY <1>2, <1>6, <2>2, <2>4
  <2> QED
    BY <1>6, <1>8, <2>3, <2>4
<1>15. ASSUME NEW j \in DOMAIN LinkerWork, j < n + 1
       PROVE  NamesIn(LinkerWork[j], t)
  <2>1. CASE j < n
    <3>1. PICK k \in DOMAIN s : ToSet(SectionNames(LinkerWork[j])) \subseteq ToSet(s[k].names)
      BY <2>1, Zenon DEF Collected, NamesIn
    <3>2. k \in DOMAIN t /\ t[k] = s[k]
      BY <1>3, <1>6, <1>10
    <3> QED
      BY <3>1, <3>2, Zenon DEF NamesIn
  <2>2. CASE j = n
    BY <1>2, <1>6, <1>10, <2>2, Zenon DEF m, NamesIn
  <2> QED
    BY <1>9, <1>15, <2>1, <2>2
<1>16. Collected(t, n + 1)
  BY <1>7, <1>12, <1>13, <1>14, <1>15, Zenon DEF Collected
<1> QED
  BY <1>16 DEF t

(* A mapping that some sections have the names of goes into them.          *)
MergedInto(s, new) ==
  [k \in DOMAIN s |-> IF k \in Holders(s, new) THEN Merged(s[k], new) ELSE s[k]]

LEMMA MergeCollected ==
  ASSUME MapInv, MapChecked, NEW s, NEW n \in Nat, Collected(s, n), n \in DOMAIN LinkerWork,
         NEW new, new = LinkerScriptSection(LinkerWork[n]),
         Holders(s, new) # {}
  PROVE  Collected(MergedInto(s, new), n + 1)
<1> DEFINE m == LinkerWork[n]
           l == Len(s)
<1>1. PICK W : W # {} /\ W = {k \in DOMAIN s : ToSet(new.names) \subseteq ToSet(s[k].names)}
  BY Zenon DEF Holders
<1>2. PICK t : t = [k \in DOMAIN s |-> IF k \in W THEN Merged(s[k], new) ELSE s[k]]
  OBVIOUS
<1>3. t = MergedInto(s, new)
  BY <1>1, <1>2, Zenon DEF Holders, MergedInto
<1> USE <1>1, <1>2
<1>4. /\ DOMAIN LinkerWork = 1..Len(LinkerWork) /\ Len(LinkerWork) \in Nat
      /\ Dest(m) \in Int /\ MappingSize(m) \in Int /\ IsList(m.linker_script_section)
  BY LinkerWorkTyped
<1>5. /\ SectionTyped(new) /\ new.names = SectionNames(m) /\ new.phys = Dest(m)
      /\ new.size = MappingSize(m) /\ new.virt = LinkedAt(m)
  BY <1>4, SectionOfMapping
<1>6. /\ SectionList(s) /\ l \in Nat /\ DOMAIN s = 1..l
      /\ \A k \in 1..l : SectionTyped(s[k])
  BY SectionListFacts DEF Collected
<1>7. \A i \in DOMAIN LinkerWork : (i < n => i < n + 1) /\ (i < n + 1 => i < n \/ i = n)
  BY <1>4
<1> HIDE DEF m, l
<1>8. ASSUME NEW k \in DOMAIN s
      PROVE  /\ SectionTyped(t[k]) /\ t[k].names = s[k].names /\ t[k].virt = s[k].virt
             /\ s[k].size >= 0 => t[k].size >= 0
             /\ MergedUpwards => t[k].phys = s[k].phys /\ PhysEnd(s[k]) <= PhysEnd(t[k])
             /\ MergedUpwards /\ k \in W => PhysEnd(new) <= PhysEnd(t[k]) /\ s[k].phys <= new.phys
  <2>1. SectionTyped(s[k]) /\ s[k].phys \in Int /\ s[k].size \in Int /\ PhysEnd(s[k]) \in Int
    BY <1>6 DEF SectionTyped, PhysEnd
  <2>2. CASE k \in W
    <3>1. t[k] = Merged(s[k], new)
      BY <2>2
    <3>2. ASSUME MergedUpwards PROVE s[k].phys <= new.phys
      <4>1. PICK i \in DOMAIN LinkerWork :
              i < n /\ s[k].names = SectionNames(LinkerWork[i]) /\ s[k].phys = Dest(LinkerWork[i])
        BY <3>2, Zenon DEF Collected
      <4>2. ToSet(SectionNames(m)) \subseteq ToSet(SectionNames(LinkerWork[i]))
        BY <1>5, <2>2, <4>1
      <4>3. Dest(LinkerWork[i]) <= Dest(m)
        BY <3>2, <4>1, <4>2, Zenon DEF MergedUpwards, m
      <4> QED
        BY <1>5, <4>1, <4>3
    <3> QED
      BY <1>5, <2>1, <3>1, <3>2, MergedFacts
  <2>3. CASE k \notin W
    BY <2>1, <2>3
  <2> QED
    BY <2>2, <2>3
<1>9. DOMAIN t = DOMAIN s /\ t = [k \in 1..l |-> t[k]]
  BY <1>6
<1>10. SectionList(t)
  <2> DEFINE S == {t[k] : k \in 1..l}
  <2>1. t \in [1..l -> S]
    BY <1>9
  <2>2. t \in Seq(S)
    BY <1>6, <2>1
  <2>3. \A x \in S : SectionTyped(x)
    BY <1>6, <1>8
  <2> QED
    BY <2>2, <2>3 DEF SectionList
<1>11. ASSUME NEW k \in DOMAIN t
      PROVE  \E i \in DOMAIN LinkerWork :
               /\ i < n + 1 /\ t[k].names = SectionNames(LinkerWork[i])
               /\ t[k].virt = LinkedAt(LinkerWork[i]) /\ FirstNamed(i)
               /\ MergedUpwards => t[k].phys = Dest(LinkerWork[i])
  <2>1. PICK i \in DOMAIN LinkerWork :
          /\ i < n /\ s[k].names = SectionNames(LinkerWork[i])
          /\ s[k].virt = LinkedAt(LinkerWork[i]) /\ FirstNamed(i)
          /\ MergedUpwards => s[k].phys = Dest(LinkerWork[i])
    BY <1>9, Zenon DEF Collected
  <2>2. i < n + 1
    BY <1>7, <2>1
  <2> QED
    BY <1>8, <1>9, <2>1, <2>2, Zenon
<1>12. ASSUME MergedUpwards, NEW j \in DOMAIN LinkerWork, j < n + 1
      PROVE  \E k \in DOMAIN t : CoveredBy(LinkerWork[j], t[k])
  <2>1. Dest(LinkerWork[j]) \in Int /\ MappingSize(LinkerWork[j]) \in Int
    BY LinkerWorkTyped
  <2>2. CASE j < n
    <3>1. PICK k \in DOMAIN s : CoveredBy(LinkerWork[j], s[k])
      BY <1>12, <2>2, Zenon DEF Collected
    <3>2. /\ t[k].names = s[k].names /\ t[k].phys = s[k].phys /\ PhysEnd(s[k]) <= PhysEnd(t[k])
          /\ PhysEnd(s[k]) \in Int /\ PhysEnd(t[k]) \in Int
      <4>1. SectionTyped(s[k]) /\ SectionTyped(t[k])
        BY <1>6, <1>8
      <4>2. PhysEnd(s[k]) \in Int /\ PhysEnd(t[k]) \in Int
        BY <4>1 DEF SectionTyped, PhysEnd
      <4> QED
        BY <1>8, <1>12, <4>2
    <3>3. CoveredBy(LinkerWork[j], t[k])
      BY <2>1, <3>1, <3>2 DEF CoveredBy
    <3> QED
      BY <1>9, <3>3
  <2>3. CASE j = n
    <3>1. PICK k \in W : TRUE
      OBVIOUS
    <3>2. /\ k \in DOMAIN s /\ t[k].names = s[k].names /\ t[k].phys = s[k].phys
          /\ PhysEnd(new) <= PhysEnd(t[k]) /\ s[k].phys <= new.phys
      BY <1>8, <1>12, <3>1
    <3>3. PhysEnd(new) = Dest(m) + MappingSize(m) /\ new.phys = Dest(m)
      BY <1>5 DEF PhysEnd
    <3>4. ToSet(SectionNames(m)) \subseteq ToSet(t[k].names)
      BY <1>5, <3>1, <3>2
    <3>5. CoveredBy(m, t[k])
      BY <3>2, <3>3, <3>4 DEF CoveredBy
    <3> QED
      BY <1>9, <2>3, <3>2, <3>5 DEF m
  <2> QED
    BY <1>7, <1>12, <2>2, <2>3
<1>13. SizesSound => \A k \in DOMAIN t : t[k].size >= 0
  BY <1>8, <1>9 DEF Collected
<1>14. ASSUME NEW j \in DOMAIN LinkerWork, j < n + 1
       PROVE  NamesIn(LinkerWork[j], t)
  <2>1. CASE j < n
    <3>1. PICK k \in DOMAIN s : ToSet(SectionNames(LinkerWork[j])) \subseteq ToSet(s[k].names)
      BY <2>1, Zenon DEF Collected, NamesIn
    <3> QED
      BY <1>8, <1>9, <3>1, Zenon DEF NamesIn
  <2>2. CASE j = n
    <3>1. PICK k \in DOMAIN s : ToSet(new.names) \subseteq ToSet(s[k].names)
      BY <1>1
    <3> QED
      BY <1>5, <1>8, <1>9, <2>2, <3>1, Zenon DEF NamesIn, m
  <2> QED
    BY <1>7, <1>14, <2>1, <2>2
<1>15. Collected(t, n + 1)
  BY <1>10, <1>11, <1>12, <1>13, <1>14, Zenon DEF Collected
<1> QED
  BY <1>3, <1>15

(* What the linker is given: no name twice, and the names of every mapping *)
(* in a section that is linked where the first mapping of those names is.  *)
Linked(s) ==
  /\ SectionList(s) /\ NamesUnique(s)
  /\ \A j \in DOMAIN LinkerWork : \E k \in DOMAIN s, i \in DOMAIN LinkerWork :
       /\ ToSet(SectionNames(LinkerWork[j])) \subseteq ToSet(s[k].names)
       /\ s[k].names = SectionNames(LinkerWork[i])
       /\ s[k].virt = LinkedAt(LinkerWork[i]) /\ FirstNamed(i)

LEMMA LinkedStays ==
  ASSUME NEW s, Linked(s), UNCHANGED <<diag_attributes, memory_map>>, sections' = s
  PROVE  Linked(sections)'
<1>1. LinkerWork' = LinkerWork
  BY LinkerWorkStays
<1>2. \A m : LinkedAt(m)' = LinkedAt(m) /\ SectionNames(m)' = SectionNames(m)
  BY DEF LinkedAt, Source, Dest, SectionNames
<1>4. \A i : FirstNamed(i)' <=> FirstNamed(i)
  BY <1>1, <1>2 DEF FirstNamed
<1>3. SectionList(sections)' /\ NamesUnique(sections)'
  BY DEF Linked, NamesUnique, SectionList, SectionTyped, IsList
<1> QED
  BY <1>1, <1>2, <1>3, <1>4 DEF Linked

SectionsInv ==
  /\ phase \in {"attributes", "jumpstart", "diag", "tables"} => sections = <<>>
  /\ phase = "sections" => Collected(sections, at)
  /\ phase \in {"assembly", "done"} => Linked(sections)
  /\ SectionsSound

LEMMA CollectStep ==
  ASSUME MapInv, at \in Nat \ {0}, SectionsInv, CollectSection
  PROVE  SectionsInv'
<1>1. phase = "sections" /\ MapChecked /\ Collected(sections, at)
  BY DEF CollectSection, MapChecked, SectionsInv
<1>2. CASE Reject
  BY <1>1, <1>2 DEF SectionsInv, SectionsSound, Reject
<1>3. CASE ~Reject
  <2>1. PICK new :
          /\ at <= Len(LinkerWork) /\ new = LinkerScriptSection(LinkerWork[at])
          /\ sections' = IF WithSubsections(new) = {} THEN Append(sections, new)
                         ELSE [i \in DOMAIN sections |->
                                 IF i \in WithSubsections(new) THEN Merged(sections[i], new)
                                 ELSE sections[i]]
          /\ at' = at + 1
          /\ UNCHANGED <<input, diag_attributes, phase, memory_map>>
    BY <1>3, Zenon DEF CollectSection, RejectSections
  <2>2. at \in DOMAIN LinkerWork
    BY <1>1, <2>1, LinkerWorkTyped
  <2>3. Collected(sections', at + 1)
    <3>1. CASE WithSubsections(new) = {}
      BY <1>1, <2>1, <2>2, <3>1, AppendCollected DEF WithSubsections, Holders
    <3>2. CASE WithSubsections(new) # {}
      <4>1. WithSubsections(new) = Holders(sections, new)
        BY Zenon DEF WithSubsections, Holders
      <4>2. sections' = MergedInto(sections, new)
        BY <2>1, <3>2, <4>1, Zenon DEF MergedInto
      <4> QED
        BY <1>1, <2>1, <2>2, <3>2, <4>1, <4>2, MergeCollected
    <3> QED
      BY <3>1, <3>2
  <2>4. Collected(sections, at)'
    BY <2>1, <2>3, CollectedStays
  <2> QED
    BY <1>1, <2>1, <2>4 DEF SectionsInv, SectionsSound
<1> QED
  BY <1>2, <1>3

LEMMA FinishStep ==
  ASSUME MapInv, at \in Nat \ {0}, SectionsInv, FinishLinkerScript
  PROVE  SectionsInv'
<1>1. phase = "sections" /\ MapChecked /\ Collected(sections, at) /\ at > Len(LinkerWork)
  BY DEF FinishLinkerScript, MapChecked, SectionsInv
<1>2. CASE Reject
  BY <1>1, <1>2 DEF SectionsInv, SectionsSound, Reject
<1>3. CASE ~Reject
  <2>1. PICK s : /\ s = ByAddress(Guarded(ByAddress(sections))) /\ SectionsPlaceable(s)
                 /\ NamesUnique(s) /\ sections' = s /\ Advance("assembly")
                 /\ UNCHANGED <<input, diag_attributes, memory_map>>
    BY <1>3, Zenon DEF FinishLinkerScript, RejectSections
  <2>2. SectionList(sections)
    BY <1>1 DEF Collected
  <2>3. PlacedFrom(sections, s)
    BY <2>1, <2>2, PlacedSections
  <2>4. Len(s) \in Nat /\ DOMAIN s = 1..Len(s) /\ DOMAIN sections = 1..Len(sections)
    BY <2>2, <2>3, SectionListFacts DEF PlacedFrom
  <2>5. SizesSound => \A i \in 1..Len(s) - 1 : Guards(s, i) \/ PhysEnd(s[i]) = s[i + 1].phys
    BY <1>1, <2>3, <2>4 DEF Collected, PlacedFrom
  <2>6. MergedUpwards => \A m \in ToSet(LinkerWork) : \E x \in ToSet(s) : CoveredBy(m, x)
    <3> SUFFICES ASSUME MergedUpwards, NEW m \in ToSet(LinkerWork)
                 PROVE  \E x \in ToSet(s) : CoveredBy(m, x)
      OBVIOUS
    <3>1. PICK j \in DOMAIN LinkerWork : m = LinkerWork[j]
      BY DEF ToSet
    <3>2. j < at
      BY <1>1, <3>1, LinkerWorkTyped
    <3>3. PICK k \in DOMAIN sections : CoveredBy(m, sections[k])
      BY <1>1, <3>1, <3>2, Zenon DEF Collected
    <3>4. PICK i \in 1..Len(s) : s[i] = sections[k]
      BY <2>3, <2>4 DEF PlacedFrom
    <3>5. s[i] \in ToSet(s)
      BY <2>4 DEF ToSet
    <3> QED
      BY <3>3, <3>4, <3>5
  <2>7. LinkerWork' = LinkerWork /\ MergedUpwards' = MergedUpwards /\ SizesSound' = SizesSound
    BY <2>1, LinkerWorkStays
  <2>8. SectionsSound'
    <3>1. \A i \in 1..Len(s) : Guards(s, i) <=> IsGuard(s[i])'
      BY <2>1 DEF Guards, IsGuard
    <3>2. \A i, j \in DOMAIN sections' : i < j => PhysEnd(sections[i])' <= sections'[j].phys
      BY <2>1, <2>3, <2>4 DEF PhysEnd, PlacedFrom
    <3>3. SizesSound' => \A i \in 1..Len(sections') - 1 :
            IsGuard(sections[i])' \/ PhysEnd(sections[i])' = sections'[i + 1].phys
      <4> SUFFICES ASSUME SizesSound, NEW i \in 1..Len(s) - 1
                   PROVE  IsGuard(s[i])' \/ PhysEnd(s[i]) = s[i + 1].phys
        BY <2>1, <2>7 DEF IsGuard, PhysEnd
      <4>1. i \in 1..Len(s)
        BY <2>4
      <4> QED
        BY <2>5, <3>1, <4>1
    <3>4. MergedUpwards' => \A m \in ToSet(LinkerWork)' : \E x \in ToSet(sections)' : CoveredBy(m, x)'
      <4>1. ToSet(LinkerWork)' = ToSet(LinkerWork) /\ ToSet(sections)' = ToSet(s)
        BY <2>1, <2>7 DEF ToSet
      <4>2. \A m, x : CoveredBy(m, x)' <=> CoveredBy(m, x)
        BY DEF CoveredBy, ToSet, SectionNames, PhysEnd, Dest, MappingSize
      <4> QED
        BY <2>6, <2>7, <4>1, <4>2, Zenon
    <3> QED
      BY <3>2, <3>3, <3>4, SMTT(30) DEF SectionsSound
  <2>9. Linked(s)
    <3>1. NamesUnique(s)
      BY <2>1
    <3>2. ASSUME NEW j \in DOMAIN LinkerWork
          PROVE  \E k \in DOMAIN s, i \in DOMAIN LinkerWork :
                   /\ ToSet(SectionNames(LinkerWork[j])) \subseteq ToSet(s[k].names)
                   /\ s[k].names = SectionNames(LinkerWork[i])
                   /\ s[k].virt = LinkedAt(LinkerWork[i]) /\ FirstNamed(i)
      <4>1. j < at
        BY <1>1, LinkerWorkTyped
      <4>2. PICK l \in DOMAIN sections : ToSet(SectionNames(LinkerWork[j])) \subseteq ToSet(sections[l].names)
        BY <1>1, <4>1, Zenon DEF Collected, NamesIn
      <4>3. PICK i \in DOMAIN LinkerWork : /\ sections[l].names = SectionNames(LinkerWork[i])
                                           /\ sections[l].virt = LinkedAt(LinkerWork[i])
                                           /\ FirstNamed(i)
        BY <1>1, Zenon DEF Collected
      <4>4. PICK k \in DOMAIN s : s[k] = sections[l]
        BY <2>3, <2>4 DEF PlacedFrom
      <4> QED
        BY <4>2, <4>3, <4>4, Zenon
    <3> QED
      BY <2>3, <3>1, <3>2, Zenon DEF Linked, PlacedFrom
  <2>10. Linked(sections)'
    BY <2>1, <2>9, LinkedStays
  <2> QED
    BY <2>1, <2>8, <2>10 DEF SectionsInv, Advance
<1> QED
  BY <1>2, <1>3

LEMMA SoundStays ==
  ASSUME SectionsSound, UNCHANGED <<diag_attributes, memory_map, sections>>,
         phase' \in {"assembly", "done"} => phase \in {"assembly", "done"}
  PROVE  SectionsSound'
<1> SUFFICES ASSUME phase' \in {"assembly", "done"} PROVE SectionsSound'
  BY DEF SectionsSound
<1>1. /\ \A i, j \in DOMAIN sections : i < j => PhysEnd(sections[i]) <= sections[j].phys
      /\ SizesSound => \A i \in 1..Len(sections) - 1 :
           IsGuard(sections[i]) \/ PhysEnd(sections[i]) = sections[i + 1].phys
      /\ MergedUpwards =>
           \A m \in ToSet(LinkerWork) : \E s \in ToSet(sections) : CoveredBy(m, s)
  BY DEF SectionsSound
<1>2. LinkerWork' = LinkerWork /\ MergedUpwards' = MergedUpwards /\ SizesSound' = SizesSound
  BY LinkerWorkStays
<1>3. \A s : IsGuard(s)' <=> IsGuard(s)
  BY DEF IsGuard
<1>4. \A m, s : CoveredBy(m, s)' <=> CoveredBy(m, s)
  BY DEF CoveredBy, SectionNames, PhysEnd, Dest, MappingSize
<1>5. \A s : PhysEnd(s)' = PhysEnd(s)
  BY DEF PhysEnd
<1>6. \A i, j \in DOMAIN sections' : i < j => PhysEnd(sections[i])' <= sections'[j].phys
  BY <1>1, <1>5
<1>7. SizesSound' => \A i \in 1..Len(sections') - 1 :
        IsGuard(sections[i])' \/ PhysEnd(sections[i])' = sections'[i + 1].phys
  BY <1>1, <1>2, <1>3, <1>5
<1>8. MergedUpwards' => \A m \in ToSet(LinkerWork)' : \E s \in ToSet(sections)' : CoveredBy(m, s)'
  BY <1>1, <1>2, <1>4 DEF ToSet
<1> QED
  BY <1>6, <1>7, <1>8 DEF SectionsSound

LEMMA SectionsInvStep ==
  ASSUME TablesInv, SectionsInv, [Next]_vars
  PROVE  SectionsInv'
<1>1. MapInv /\ at \in Nat \ {0}
  BY DEF TablesInv, TileInv
<1>2. CASE UNCHANGED vars
  <2>1. UNCHANGED <<phase, at, sections, diag_attributes, memory_map>>
    BY <1>2 DEF vars, mapVars
  <2>2. SectionsSound'
    BY <2>1, SoundStays DEF SectionsInv
  <2>3. Collected(sections, at)' <=> Collected(sections, at)
    BY <2>1, CollectedStays
  <2>4. Linked(sections) => Linked(sections)'
    BY <2>1, LinkedStays
  <2> QED
    BY <2>1, <2>2, <2>3, <2>4 DEF SectionsInv
<1>3. CASE MapNext /\ UNCHANGED sections
  <2>1. /\ phase \in {"attributes", "jumpstart", "diag"}
        /\ phase' \in {"attributes", "jumpstart", "diag", "tables", "rejected"}
    BY <1>3 DEF MapNext, ProcessDiagAttributes, AddJumpstartSection, AddPagetableMappings,
                AddDiagMapping, CheckMemoryMap, Reject, Advance
  <2> QED
    BY <1>3, <2>1 DEF SectionsInv, SectionsSound
<1>4. CASE TablesNext /\ UNCHANGED sections
  <2>1. /\ phase = "tables" /\ UNCHANGED <<diag_attributes, memory_map>>
        /\ phase' \in {"tables", "rejected"} \/ (phase' = "sections" /\ at' = 1)
    BY <1>4 DEF TablesNext, SkipBareStage, BeginStage, WriteEntry, FinishStage, FinishTables,
                RejectTables, Reject, Advance, StageLeft, mapVars
  <2>2. sections = <<>> /\ sections' = <<>>
    BY <1>4, <2>1 DEF SectionsInv
  <2>3. Collected(<<>>, 1)
    BY <1>1, <2>1, EmptyCollection DEF MapChecked
  <2>4. phase' = "sections" => Collected(sections, at)'
    BY <2>1, <2>2, <2>3, CollectedStays
  <2> QED
    BY <2>1, <2>2, <2>4 DEF SectionsInv, SectionsSound
<1>5. CASE SectionsNext
  BY <1>1, <1>5, CollectStep, FinishStep DEF SectionsNext
<1>6. CASE GenerateAssembly /\ UNCHANGED sections
  <2>1. /\ phase = "assembly" /\ phase' \in {"done", "rejected"}
        /\ UNCHANGED <<diag_attributes, memory_map, sections>>
    BY <1>6 DEF GenerateAssembly, Reject, Advance
  <2> QED
    BY <2>1, SoundStays, LinkedStays DEF SectionsInv
<1> QED
  BY <1>2, <1>3, <1>4, <1>5, <1>6 DEF Next

(* Whatever the mappings, the sections of the linker script do not lie one *)
(* over the other; if none has a negative size, each but the last has      *)
(* another one or a guard right behind it; and if none is merged into a    *)
(* section that starts after it, together they cover all that was mapped   *)
(* for a section (linker_script.py:122).                                   *)
THEOREM SectionsAreSound == Spec => []SectionsSound
<1>1. Init => SectionsInv
  BY DEF Init, MapInit, SectionsInit, SectionsInv, SectionsSound
<1>2. TablesInv /\ SectionsInv /\ [Next]_vars => SectionsInv'
  BY SectionsInvStep
<1>3. SectionsInv => SectionsSound
  BY DEF SectionsInv
<1> QED
  BY <1>1, <1>2, <1>3, TablesInvHolds, PTL DEF Spec

----------------------------------------------------------------------------
(* Which mappings are named like the page tables                           *)

(* No mapping of the diag, taken in the order they are added in, is named  *)
(* like the page tables of a stage.  Nothing in the generator checks it.   *)
DiagNamesNoTable ==
  diag_attributes.mappings # None =>
    \A n \in 1..Len(diag_attributes.mappings) : \A stage \in Stage :
      ~NamesSection(DiagWork[n], TableSection(stage)[1])

(* A mapping is named what its dict names.                                 *)
LEMMA RegionOfNew ==
  ASSUME NEW dict, DOMAIN dict \subseteq DOMAIN FieldDefaults, NEW stage,
         IsRegion(NewMapping(dict), stage)
  PROVE  NamesSection(dict, TableSection(stage)[1])
<1>1. NewMapping(dict).linker_script_section =
        IF "linker_script_section" \in DOMAIN dict THEN dict.linker_script_section ELSE None
  <2>1. FieldDefaults.linker_script_section = None
    BY DEF FieldDefaults
  <2> QED
    BY <2>1, NewMappingFields DEF CopiedFields
<1> QED
  BY <1>1, Zenon DEF IsRegion, NamesSection

(* Neither sizing nor placing a section of jumpstart names it.             *)
LEMMA PlacedNames ==
  ASSUME NEW w, w.stage \in Stage, NEW name, NamesSection(PlacedSection(w), name)
  PROVE  NamesSection(w.section.mapping, name)
<1> DEFINE lss == "linker_script_section"
           Same(d, e) == (lss \in DOMAIN d <=> lss \in DOMAIN e) /\ d[lss] = e[lss]
<1>1. ASSUME NEW d, NEW e, lss \notin DOMAIN e
      PROVE  (lss \in DOMAIN Override(d, e) => lss \in DOMAIN d /\ Override(d, e)[lss] = d[lss])
  BY <1>1 DEF Override
<1> DEFINE dict == w.section.mapping
           sized == [f \in SizeGiven(w) |-> diag_attributes[SizeAttribute(w, f)]]
           bare == [f \in DOMAIN dict \ {"xwr", "umode"} |-> dict[f]]
           flag == [no_pte_allocation |-> TRUE]
           staged == [translation_stage |-> w.stage]
           kept == IF Mode(w.stage) = "bare" THEN Override(bare, flag) ELSE dict
           all == SizedSection(w)
<1>2. /\ lss \notin DOMAIN sized /\ lss \notin DOMAIN flag /\ lss \notin DOMAIN staged
      /\ lss \in DOMAIN bare => lss \in DOMAIN dict /\ bare[lss] = dict[lss]
  BY DEF SizeGiven, SizeFields
<1>3. all = Override(Override(kept, staged), sized)
  BY Zenon DEF SizedSection
<1> HIDE DEF sized, bare, flag, staged
<1>4. lss \in DOMAIN kept => lss \in DOMAIN dict /\ kept[lss] = dict[lss]
  BY <1>1, <1>2
<1> HIDE DEF kept, dict, all
<1>5. lss \in DOMAIN all => lss \in DOMAIN dict /\ all[lss] = dict[lss]
  BY <1>1, <1>2, <1>3, <1>4
<1> DEFINE user == [umode |-> 1]
<1>6. PICK F, dest : /\ F \subseteq {TranslatesTo[w.stage], TranslatesFrom[w.stage]}
                     /\ \/ PlacedSection(w) = Override(Override(all, user), [f \in F |-> dest])
                        \/ PlacedSection(w) = Override(all, [f \in F |-> dest])
  <2> DEFINE start == IF AreaStart(w) # None THEN AreaStart(w)
                      ELSE NextAvailable(w.stage, all.page_size)
             dest == IF "alignment" \in DOMAIN all THEN AlignUp(start, all.alignment) ELSE start
             direct == "no_pte_allocation" \in DOMAIN all /\ all.no_pte_allocation
             F == {TranslatesTo[w.stage]} \cup IF direct THEN {} ELSE {TranslatesFrom[w.stage]}
  <2>1. PlacedSection(w) = Override(IF w.stage = "g" /\ ~direct THEN Override(all, user) ELSE all,
                                    [f \in F |-> dest])
    BY Zenon DEF PlacedSection, all
  <2>2. F \subseteq {TranslatesTo[w.stage], TranslatesFrom[w.stage]}
    OBVIOUS
  <2> HIDE DEF F, dest, direct
  <2> QED
    BY <2>1, <2>2
<1>7. lss \notin F
  BY <1>6 DEF Stage, TranslatesTo, TranslatesFrom
<1>8. lss \notin DOMAIN user /\ lss \notin DOMAIN [f \in F |-> dest]
  BY <1>7
<1> HIDE DEF user
<1>9. lss \in DOMAIN PlacedSection(w) => lss \in DOMAIN dict /\ PlacedSection(w)[lss] = dict[lss]
  BY <1>1, <1>5, <1>6, <1>8
<1> QED
  BY <1>9, Zenon DEF NamesSection, dict

(* Nor does an address name a mapping of the diag.                         *)
LEMMA AddressedNames ==
  ASSUME NEW dict, NEW name, NamesSection(DiagDict(dict), name)
  PROVE  NamesSection(dict, name)
<1>1. CASE ~HasNoAddresses(dict)
  BY <1>1 DEF DiagDict
<1>2. CASE HasNoAddresses(dict)
  <2> DEFINE stage == Enabled[1]
             d == AssignAddresses(dict)
  <2>1. PICK F, address : F \subseteq {TranslatesTo[stage], TranslatesFrom[stage]}
                          /\ d = Override(dict, [f \in F |-> address])
    BY Zenon DEF AssignAddresses
  <2>2. stage = "s" \/ stage = "hs"
    <3>1. Enabled = <<"s">> \/ Enabled = <<"hs", "vs", "g">>
      BY DEF Enabled, EnabledStages
    <3> QED
      BY <3>1
  <2>3. "linker_script_section" \notin F
    BY <2>1, <2>2 DEF TranslatesTo, TranslatesFrom
  <2> HIDE DEF d, stage
  <2>4. "linker_script_section" \in DOMAIN d =>
          "linker_script_section" \in DOMAIN dict
          /\ d.linker_script_section = dict.linker_script_section
    BY <2>1, <2>3 DEF Override
  <2>5. DiagDict(dict) = d
    BY <1>2 DEF DiagDict, d
  <2> QED
    BY <2>4, <2>5, Zenon DEF NamesSection
<1> QED
  BY <1>1, <1>2

(* The sections jumpstart is made of.                                      *)
JumpstartItems ==
  UNION {{JumpstartSections[Supported[i]][k] : k \in DOMAIN JumpstartSections[Supported[i]]} :
           i \in DOMAIN Supported}
LEMMA JumpstartWorkItems ==
  \A n \in 1..Len(JumpstartWork) :
    JumpstartWork[n].stage \in EnabledSet /\ JumpstartWork[n].section \in JumpstartItems
<1> DEFINE S == {w \in [stage : EnabledSet, mode : {Supported[i] : i \in DOMAIN Supported},
                        first : BOOLEAN, section : JumpstartItems] : TRUE}
           area(j) == JumpstartSections[PrivModes[j]]
           row(i, j) == [k \in DOMAIN area(j) |->
                           [stage |-> Enabled[i], mode |-> PrivModes[j], first |-> k = 1,
                            section |-> area(j)[k]]]
           rows(i) == [j \in DOMAIN PrivModes |-> row(i, j)]
           parts == [i \in DOMAIN Enabled |-> FlattenSeq(rows(i))]
<1>1. JumpstartWork = FlattenSeq(parts)
  BY Zenon DEF JumpstartWork
<1>2. /\ Len(PrivModes) \in Nat /\ DOMAIN PrivModes = 1..Len(PrivModes)
      /\ \A j \in DOMAIN PrivModes : \E i \in DOMAIN Supported : PrivModes[j] = Supported[i]
  <2> DEFINE I == {i \in DOMAIN Supported : Supported[i] \in input.priv_modes}
  <2>1. DOMAIN Supported = 1..3
    BY DEF Supported
  <2>2. I \in SUBSET Int /\ IsFiniteSet(I)
    <3>1. PICK n \in Nat : DOMAIN Supported = 1..n
      BY <2>1
    <3>2. IsFiniteSet(1..n)
      BY FS_Interval
    <3>3. I \in SUBSET (1..n)
      BY <3>1
    <3> HIDE DEF I
    <3>4. IsFiniteSet(I)
      BY <3>2, <3>3, FS_Subset
    <3> QED
      BY <3>3, <3>4
  <2>3. PrivModes = Chosen(Supported, I)
    BY Zenon DEF PrivModes
  <2>4. I \subseteq DOMAIN Supported
    OBVIOUS
  <2> HIDE DEF I
  <2>5. /\ Len(Chosen(Supported, I)) \in Nat
        /\ DOMAIN Chosen(Supported, I) = 1..Len(Chosen(Supported, I))
        /\ \A n \in DOMAIN Chosen(Supported, I) : \E i \in I : Chosen(Supported, I)[n] = Supported[i]
    BY <2>2, ChosenElements
  <2> QED
    BY <2>3, <2>4, <2>5
<1>3. ASSUME NEW i \in DOMAIN Enabled, NEW j \in DOMAIN PrivModes
      PROVE  row(i, j) \in Seq(S)
  <2>1. PICK m \in DOMAIN Supported : PrivModes[j] = Supported[m]
    BY <1>2
  <2>2. PICK a : a = JumpstartSections[Supported[m]]
    OBVIOUS
  <2>3. Len(a) \in Nat /\ DOMAIN a = 1..Len(a)
    BY <2>2, JumpstartAssumption
  <2>4. \A k \in DOMAIN a : a[k] \in JumpstartItems
    BY <2>2 DEF JumpstartItems
  <2>5. Enabled[i] \in EnabledSet
    BY DEF EnabledSet
  <2>6. row(i, j) = [k \in 1..Len(a) |-> [stage |-> Enabled[i], mode |-> PrivModes[j], first |-> k = 1,
                                          section |-> a[k]]]
    BY <2>1, <2>2, <2>3
  <2>7. ASSUME NEW k \in 1..Len(a)
        PROVE  [stage |-> Enabled[i], mode |-> PrivModes[j], first |-> k = 1, section |-> a[k]] \in S
    BY <2>1, <2>3, <2>4, <2>5, <2>7
  <2> HIDE DEF S, row
  <2> QED
    BY <2>3, <2>6, <2>7
<1>4. ASSUME NEW i \in DOMAIN Enabled PROVE parts[i] \in Seq(S)
  <2>1. rows(i) = [j \in 1..Len(PrivModes) |-> row(i, j)]
    BY <1>2
  <2>2. parts[i] = FlattenSeq(rows(i))
    OBVIOUS
  <2> HIDE DEF S, row, rows, parts
  <2>3. rows(i) \in Seq(Seq(S)) /\ Len(rows(i)) \in Nat
    BY <1>2, <1>3, <2>1
  <2> QED
    BY <2>2, <2>3, FlattenType
<1>5. parts = [i \in 1..Len(Enabled) |-> parts[i]] /\ Len(Enabled) \in Nat /\ DOMAIN Enabled = 1..Len(Enabled)
  BY EnabledFacts
<1> HIDE DEF S, parts
<1>6. parts \in Seq(Seq(S)) /\ Len(parts) \in Nat
  BY <1>4, <1>5
<1>7. JumpstartWork \in Seq(S)
  BY <1>1, <1>6, FlattenType
<1>8. \A n \in 1..Len(JumpstartWork) : JumpstartWork[n] \in S
  BY <1>7
<1> QED
  BY <1>8 DEF S


----------------------------------------------------------------------------
(* All mappings named like the tables of a stage are at one address        *)

(* A mapping of the tables of a stage, to where they are.                  *)
Holds(m, x) ==
  /\ m.linker_script_section = TableSection(x)
  /\ Source(m) = Dest(TablesOf(x)[1]) /\ Dest(m) = Dest(TablesOf(x)[1])
HoldingList(s) == \E S : s \in Seq(S) /\ \A m \in S : \E x \in Stage : Holds(m, x)

(* The lists they are put together from.                                   *)
LEMMA ShortHoldingLists ==
  /\ HoldingList(<<>>)
  /\ \A m, x : x \in Stage /\ Holds(m, x) => HoldingList(<<m>>)
<1>1. ASSUME NEW s, NEW S, s \in Seq(S), \A m \in S : \E x \in Stage : Holds(m, x)
      PROVE  HoldingList(s)
  BY <1>1 DEF HoldingList
<1>2. HoldingList(<<>>)
  <2>1. PICK s, S : s = <<>> /\ S = {}
    OBVIOUS
  <2>2. s \in Seq(S) /\ \A m \in S : \E x \in Stage : Holds(m, x)
    BY <2>1
  <2>3. HoldingList(s)
    BY <1>1, <2>2
  <2> QED
    BY <2>1, <2>3
<1>3. ASSUME NEW m, NEW x \in Stage, Holds(m, x) PROVE HoldingList(<<m>>)
  <2>1. PICK s, S : s = <<m>> /\ S = {m}
    OBVIOUS
  <2>2. s \in Seq(S) /\ \A n \in S : \E y \in Stage : Holds(n, y)
    BY <1>3, <2>1
  <2>3. HoldingList(s)
    BY <1>1, <2>2
  <2> QED
    BY <2>1, <2>3
<1> QED
  BY <1>2, <1>3

(* Joining two of them makes one.                                          *)
LEMMA JoinHolding ==
  ASSUME NEW s, NEW t, HoldingList(s), HoldingList(t)
  PROVE  HoldingList(s \o t)
<1>1. PICK S : s \in Seq(S) /\ \A m \in S : \E x \in Stage : Holds(m, x)
  BY DEF HoldingList
<1>2. PICK T : t \in Seq(T) /\ \A m \in T : \E x \in Stage : Holds(m, x)
  BY DEF HoldingList
<1>3. s \in Seq(S \cup T) /\ t \in Seq(S \cup T)
  BY <1>1, <1>2
<1>4. s \o t \in Seq(S \cup T)
  BY <1>3
<1>5. \A m \in S \cup T : \E x \in Stage : Holds(m, x)
  BY <1>1, <1>2
<1> QED
  BY <1>4, <1>5 DEF HoldingList

(* What add_pagetable_mappings adds: each stage's own tables and, moved    *)
(* into another stage, those of the guest.                                 *)
LEMMA TablesHold ==
  ASSUME PagetablesPlaceable, MaxNumCpus \in Int, NEW stage \in EnabledSet
  PROVE  HoldingList(TableMappings(stage))
<1>1. ASSUME NEW x \in Stage, NEW m, TablesOf(x) = <<m>>, MappingTyped(m, x),
             m.linker_script_section = TableSection(x), m[TranslatesFrom[x]] = m[TranslatesTo[x]]
      PROVE  Holds(m, x)
  <2>1. TablesOf(x)[1] = m
    BY <1>1
  <2> QED
    BY <1>1, <2>1 DEF Holds, Source, Dest, MappingTyped
<1>2. HoldingList(TablesOf(stage))
  <2>1. stage \in Stage
    BY EnabledStagesKnown
  <2>2. CASE TablesOf(stage) = <<>>
    BY <2>2, ShortHoldingLists
  <2>3. CASE TablesOf(stage) # <<>>
    <3>1. PICK m : /\ TablesOf(stage) = <<m>> /\ MappingTyped(m, stage)
                   /\ m.linker_script_section = TableSection(stage)
                   /\ m[TranslatesFrom[stage]] = m[TranslatesTo[stage]]
      BY <2>3, OwnTables
    <3>2. Holds(m, stage)
      BY <1>1, <2>1, <3>1
    <3> QED
      BY <2>1, <3>1, <3>2, ShortHoldingLists
  <2> QED
    BY <2>2, <2>3
<1>3. CASE stage \notin {"g", "hs"}
  <2>1. TableMappings(stage) = TablesOf(stage) \o <<>>
    BY <1>3 DEF TableMappings
  <2> QED
    BY <1>2, <2>1, ShortHoldingLists, JoinHolding
<1>4. CASE stage \in {"g", "hs"}
  <2>1. {"vs", "g"} \subseteq {Translated[i] : i \in DOMAIN Translated}
    <3>1. Enabled = <<"s">> \/ Enabled = <<"hs", "vs", "g">>
      BY DEF Enabled, EnabledStages
    <3>2. "g" \in EnabledSet
      BY <1>4, <3>1 DEF EnabledSet
    <3>3. {"vs", "g"} \subseteq ToSet(Translated)
      BY <3>2 DEF PagetablesPlaceable
    <3> QED
      BY <3>3 DEF ToSet
  <2>2. \A x \in {"vs", "g"} :
          \E m : /\ TablesOf(x) = <<m>> /\ MappingTyped(m, x) /\ DOMAIN m = DOMAIN FieldDefaults
                 /\ m.linker_script_section = TableSection(x)
                 /\ m[TranslatesFrom[x]] = m[TranslatesTo[x]]
    BY <2>1, OwnTables
  <2>3. PICK vs : /\ TablesOf("vs") = <<vs>> /\ MappingTyped(vs, "vs") /\ DOMAIN vs = DOMAIN FieldDefaults
                  /\ vs.linker_script_section = TableSection("vs")
                  /\ vs[TranslatesFrom["vs"]] = vs[TranslatesTo["vs"]]
    BY <2>2
  <2>4. PICK g : /\ TablesOf("g") = <<g>> /\ MappingTyped(g, "g") /\ DOMAIN g = DOMAIN FieldDefaults
                 /\ g.linker_script_section = TableSection("g")
                 /\ g[TranslatesFrom["g"]] = g[TranslatesTo["g"]]
    BY <2>2
  <2>5. {"vs", "g"} \subseteq Stage /\ TablesOf("vs")[1] = vs /\ TablesOf("g")[1] = g
    BY <2>3, <2>4 DEF Stage
  <2>6. Holds(vs, "vs") /\ Holds(g, "g")
    BY <1>1, <2>3, <2>4, <2>5
  <2>7. /\ vs.va = vs.gpa /\ g.gpa = g.spa
        /\ Dest(TablesOf("vs")[1]) = vs.gpa /\ Dest(TablesOf("g")[1]) = g.spa
    BY <2>3, <2>4, <2>5 DEF TranslatesFrom, TranslatesTo, MappingTyped, Dest
  <2>8. DOMAIN vs = DOMAIN g /\ {"va", "pa", "gpa", "spa", "umode", "translation_stage",
          "linker_script_section"} \subseteq DOMAIN vs
    BY <2>3, <2>4 DEF FieldDefaults
  <2>9. Holds(VsTablesInG(vs), "vs")
    BY <2>3, <2>7, <2>8 DEF Holds, VsTablesInG, Dest, Source, TranslatesFrom, TranslatesTo
  <2>10. Holds(GTablesInHs(g), "g")
    BY <2>4, <2>7, <2>8 DEF Holds, GTablesInHs, Dest, Source, TranslatesFrom, TranslatesTo
  <2>11. Holds(VsTablesInHs(vs), "vs")
    BY <2>3, <2>7, <2>8 DEF Holds, VsTablesInHs, Dest, Source, TranslatesFrom, TranslatesTo
  <2>12. CASE stage = "g"
    <3>1. TableMappings(stage) = TablesOf(stage) \o <<VsTablesInG(vs)>>
      BY <2>3, <2>12 DEF TableMappings
    <3>2. HoldingList(<<VsTablesInG(vs)>>)
      BY <2>5, <2>9, ShortHoldingLists
    <3> QED
      BY <1>2, <3>1, <3>2, JoinHolding
  <2>13. CASE stage = "hs"
    <3>1. TableMappings(stage) = TablesOf(stage) \o <<GTablesInHs(g), VsTablesInHs(vs)>>
      BY <2>3, <2>4, <2>13 DEF TableMappings
    <3>2. <<GTablesInHs(g), VsTablesInHs(vs)>> = <<GTablesInHs(g)>> \o <<VsTablesInHs(vs)>>
      OBVIOUS
    <3>3. HoldingList(<<GTablesInHs(g)>>) /\ HoldingList(<<VsTablesInHs(vs)>>)
      BY <2>5, <2>10, <2>11, ShortHoldingLists
    <3>4. HoldingList(<<GTablesInHs(g)>> \o <<VsTablesInHs(vs)>>)
      BY <3>3, JoinHolding
    <3> QED
      BY <1>2, <3>1, <3>2, <3>4, JoinHolding
  <2> QED
    BY <1>4, <2>12, <2>13
<1> QED
  BY <1>3, <1>4

(* One stage's tables are not named like another's.                        *)
LEMMA HoldsOne ==
  ASSUME NEW m, NEW x \in Stage, Holds(m, x), NEW t \in Stage, IsRegion(m, t)
  PROVE  x = t
<1>1. Contains(TableSection(x), TableSection(t)[1])
  BY DEF Holds, IsRegion
<1>2. TableSection(x)[1] = TableSection(t)[1]
  <2>1. PICK a, b : a = x \o "_stage.pagetables" /\ b = TableSection(t)[1]
    OBVIOUS
  <2>2. TableSection(x) = <<a>>
    BY <2>1, Zenon DEF TableSection
  <2>3. Contains(<<a>>, b)
    BY <1>1, <2>1, <2>2
  <2>4. a = b
    BY <2>3 DEF Contains
  <2>5. TableSection(x)[1] = a
    BY <2>2
  <2> QED
    BY <2>1, <2>4, <2>5
<1>3. TableSection(x) = TableSection(t)
  BY <1>2 DEF TableSection
<1> QED
  BY <1>3, TableSectionAssumption

(* Every mapping of every stage.                                           *)
Mapped == UNION {{memory_map[s][k] : k \in DOMAIN memory_map[s]} : s \in EnabledSet}
Unnamed(M, stage) == \A m \in M : ~IsRegion(m, stage)
Together(M, stage) == \E a : \A m \in M : IsRegion(m, stage) => Source(m) = a /\ Dest(m) = a
NamesInv ==
  /\ phase = "jumpstart" => \A stage \in Stage : Unnamed(Mapped, stage)
  /\ DiagNamesNoTable /\ (phase = "diag" \/ MapChecked) =>
       \A stage \in Stage : Together(Mapped, stage)

(* What a step from processed attributes on does not change.               *)
LEMMA MappedStays ==
  ASSUME MapInv, Attributed, [Next]_vars
  PROVE  /\ DiagNamesNoTable' <=> DiagNamesNoTable
         /\ EnabledSet' = EnabledSet /\ MaxNumCpus \in Int
         /\ memory_map = [s \in EnabledSet |-> memory_map[s]]
         /\ \A s \in EnabledSet : MappingList(memory_map[s], s)
<1>1. UNCHANGED diag_attributes /\ EnabledSet' = EnabledSet
  BY AttributesStay
<1>2. DiagNamesNoTable' <=> DiagNamesNoTable
  BY <1>1 DEF DiagNamesNoTable, DiagWork
<1> QED
  BY <1>1, <1>2, CpusCountedMeans DEF MapInv, MapTyped

(* Adding a mapping adds that one.                                         *)
LEMMA MappedGrows ==
  ASSUME EnabledSet' = EnabledSet, memory_map = [s \in EnabledSet |-> memory_map[s]],
         \A s \in EnabledSet : MappingList(memory_map[s], s),
         NEW x, NEW m, memory_map' = [memory_map EXCEPT ![x] = Append(@, m)]
  PROVE  Mapped' \subseteq Mapped \cup {m}
<1> SUFFICES ASSUME NEW s \in EnabledSet, NEW k \in DOMAIN memory_map'[s]
             PROVE  memory_map'[s][k] \in Mapped \cup {m}
  BY DEF Mapped
<1>1. PICK S : memory_map[s] \in Seq(S)
  BY DEF MappingList
<1>2. memory_map'[s] = memory_map[s] \/ memory_map'[s] = Append(memory_map[s], m)
  OBVIOUS
<1>3. CASE memory_map'[s] = memory_map[s]
  BY <1>3 DEF Mapped
<1>4. CASE memory_map'[s] = Append(memory_map[s], m)
  <2>1. PICK old : old = memory_map[s]
    OBVIOUS
  <2>2. /\ Len(old) \in Nat /\ DOMAIN old = 1..Len(old)
        /\ DOMAIN Append(old, m) = 1..Len(old) + 1 /\ Append(old, m)[Len(old) + 1] = m
        /\ \A i \in 1..Len(old) : Append(old, m)[i] = old[i]
    BY <1>1, <2>1, AppendFacts
  <2>3. k \in 1..Len(old) \/ k = Len(old) + 1
    BY <1>4, <2>1, <2>2
  <2>4. k \in DOMAIN old => old[k] \in Mapped
    BY <2>1 DEF Mapped
  <2> QED
    BY <1>4, <2>1, <2>2, <2>3, <2>4
<1> QED
  BY <1>2, <1>3, <1>4


(* The sections of jumpstart do not name page tables                       *)
(* (add_jumpstart_sections_to_mappings, generate_diag_sources.py:447).     *)
LEMMA JumpstartNames ==
  ASSUME MapInv, NamesInv, at \in Nat \ {0}, [Next]_vars, AddJumpstartSection, phase' # "rejected"
  PROVE  NamesInv'
<1>1. phase = "jumpstart" /\ Attributed
  BY DEF AddJumpstartSection, Attributed
<1>2. PICK w : /\ at <= Len(JumpstartWork) /\ w = JumpstartWork[at]
               /\ \/ /\ SectionAccepted(w) /\ UNCHANGED phase
                     /\ \E dict \in {PlacedSection(w)} :
                          memory_map' = IF IsEmptySection(dict) THEN memory_map
                                        ELSE [memory_map EXCEPT ![w.stage] =
                                                Append(@, NewMapping(dict))]
                  \/ Reject
  BY Zenon DEF AddJumpstartSection
<1>3. /\ SectionAccepted(w) /\ phase' = "jumpstart"
      /\ \/ memory_map' = memory_map
         \/ /\ Accepted(PlacedSection(w))
            /\ memory_map' = [memory_map EXCEPT ![w.stage] = Append(@, NewMapping(PlacedSection(w)))]
  <2>1. SectionAccepted(w) /\ UNCHANGED phase
    BY <1>2 DEF Reject
  <2>2. SectionAccepted(w) =>
          IsEmptySection(PlacedSection(w)) \/ Accepted(PlacedSection(w))
    BY DEF SectionAccepted
  <2> QED
    BY <1>1, <1>2, <2>1, <2>2 DEF Reject
<1>4. w.stage \in Stage /\ w.section \in JumpstartItems
  <2>1. at \in 1..Len(JumpstartWork)
    BY <1>2
  <2> QED
    BY <1>2, <2>1, JumpstartWorkItems, EnabledStagesKnown
<1>5. ASSUME NEW stage \in Stage PROVE Unnamed(Mapped', stage)
  <2>1. Unnamed(Mapped, stage)
    BY <1>1 DEF NamesInv
  <2>2. EnabledSet' = EnabledSet
    BY <1>1, MappedStays
  <2>3. CASE memory_map' = memory_map
    BY <2>1, <2>2, <2>3 DEF Mapped
  <2>4. CASE /\ Accepted(PlacedSection(w))
             /\ memory_map' = [memory_map EXCEPT ![w.stage] = Append(@, NewMapping(PlacedSection(w)))]
    <3> DEFINE dict == PlacedSection(w)
               m == NewMapping(dict)
    <3>1. Mapped' \subseteq Mapped \cup {m}
      BY <1>1, <2>4, MappedStays, MappedGrows
    <3>2. DOMAIN dict \subseteq DOMAIN FieldDefaults
      BY <2>4 DEF Accepted
    <3> HIDE DEF dict
    <3>3. IsRegion(m, stage) => NamesSection(dict, TableSection(stage)[1])
      BY <3>2, RegionOfNew
    <3>4. NamesSection(dict, TableSection(stage)[1]) =>
            NamesSection(w.section.mapping, TableSection(stage)[1])
      BY <1>4, PlacedNames DEF dict
    <3>5. ~NamesSection(w.section.mapping, TableSection(stage)[1])
      BY <1>4, JumpstartAssumption DEF JumpstartItems
    <3> QED
      BY <2>1, <3>1, <3>3, <3>4, <3>5 DEF Unnamed
  <2> QED
    BY <1>3, <2>3, <2>4
<1> QED
  BY <1>3, <1>5 DEF NamesInv, MapChecked

(* The mappings added for the tables of a stage are at the address of its  *)
(* region (add_pagetable_mappings, generate_diag_sources.py:331).          *)
LEMMA TablesNames ==
  ASSUME MapInv, NamesInv, [Next]_vars, AddPagetableMappings, phase' # "rejected"
  PROVE  NamesInv'
<1>1. /\ phase = "jumpstart" /\ Attributed /\ phase' = "diag" /\ PagetablesPlaceable
      /\ memory_map' = [stage \in EnabledSet |-> memory_map[stage] \o TableMappings(stage)]
  BY DEF AddPagetableMappings, Reject, Advance, Attributed
<1>2. /\ EnabledSet' = EnabledSet /\ MaxNumCpus \in Int
      /\ \A s \in EnabledSet : MappingList(memory_map[s], s)
  BY <1>1, MappedStays
<1>3. ASSUME NEW t \in Stage PROVE Together(Mapped', t)
  <2> DEFINE a == Dest(TablesOf(t)[1])
  <2> HIDE DEF a
  <2> SUFFICES ASSUME NEW s \in EnabledSet, NEW k \in DOMAIN memory_map'[s],
                      IsRegion(memory_map'[s][k], t)
               PROVE  Source(memory_map'[s][k]) = a /\ Dest(memory_map'[s][k]) = a
    BY <1>2 DEF Together, Mapped
  <2>1. PICK old, new : old = memory_map[s] /\ new = TableMappings(s)
    OBVIOUS
  <2>2. PICK S : old \in Seq(S)
    BY <1>2, <2>1 DEF MappingList
  <2>3. HoldingList(new)
    BY <1>1, <1>2, <2>1, TablesHold
  <2>4. PICK T : new \in Seq(T) /\ \A m \in T : \E x \in Stage : Holds(m, x)
    BY <2>3 DEF HoldingList
  <2>5. memory_map'[s] = old \o new
    BY <1>1, <2>1
  <2>6. old \in Seq(S \cup T) /\ new \in Seq(S \cup T)
    BY <2>2, <2>4
  <2>7. /\ Len(old) \in Nat /\ Len(new) \in Nat /\ DOMAIN (old \o new) = 1..Len(old) + Len(new)
        /\ \A i \in 1..Len(old) : (old \o new)[i] = old[i]
        /\ \A i \in 1..Len(new) : (old \o new)[Len(old) + i] = new[i]
    <3>1. old \o new \in Seq(S \cup T)
      BY <2>6
    <3> QED
      BY <2>6, <3>1, JoinFacts
  <2>8. CASE k \in 1..Len(old)
    <3>1. memory_map'[s][k] \in Mapped
      BY <2>1, <2>5, <2>7, <2>2, <2>8 DEF Mapped
    <3> QED
      BY <1>1, <3>1 DEF NamesInv, Unnamed
  <2>9. CASE k \notin 1..Len(old)
    <3>1. PICK i \in 1..Len(new) : k = Len(old) + i
      <4>1. k \in 1..Len(old) + Len(new)
        BY <2>5, <2>7
      <4>2. PICK a1 \in Nat, b1 \in Nat : a1 = Len(old) /\ b1 = Len(new)
        BY <2>7
      <4>3. k \in 1..a1 + b1 /\ k \notin 1..a1
        BY <2>9, <4>1, <4>2
      <4>4. k - a1 \in 1..b1 /\ k = a1 + (k - a1)
        BY <4>3
      <4> QED
        BY <4>2, <4>4
    <3>2. memory_map'[s][k] = new[i] /\ new[i] \in T
      BY <2>4, <2>5, <2>7, <3>1
    <3>3. PICK x \in Stage : Holds(new[i], x)
      BY <2>4, <3>2
    <3>4. x = t
      BY <3>2, <3>3, HoldsOne
    <3> QED
      BY <3>2, <3>3, <3>4 DEF Holds, a
  <2> QED
    BY <2>8, <2>9
<1> QED
  BY <1>1, <1>3 DEF NamesInv, MapChecked

(* A mapping of the diag comes after them, and does not name them unless   *)
(* its dict does.                                                          *)
LEMMA DiagNames ==
  ASSUME MapInv, NamesInv, at \in Nat \ {0}, [Next]_vars, AddDiagMapping, phase' # "rejected"
  PROVE  NamesInv'
<1>1. phase = "diag" /\ Attributed /\ DiagMappingLeft
  BY DEF AddDiagMapping, Attributed
<1>2. PICK dict : /\ dict = DiagWork[at]
                  /\ \/ /\ DiagMappable(dict) /\ UNCHANGED phase
                        /\ \E m \in {NewMapping(DiagDict(dict))} :
                             memory_map' = [memory_map EXCEPT ![m.translation_stage] = Append(@, m)]
                     \/ Reject
  BY Zenon DEF AddDiagMapping
<1> DEFINE m == NewMapping(DiagDict(dict))
<1>3. /\ DiagMappable(dict) /\ phase' = "diag"
      /\ memory_map' = [memory_map EXCEPT ![m.translation_stage] = Append(@, m)]
  BY <1>1, <1>2 DEF Reject
<1>4. DOMAIN DiagDict(dict) \subseteq DOMAIN FieldDefaults
  BY <1>3 DEF DiagMappable, Accepted
<1>5. Mapped' \subseteq Mapped \cup {m}
  <2> HIDE DEF m
  <2> QED
    BY <1>1, <1>3, MappedStays, MappedGrows
<1>6. DiagNamesNoTable' <=> DiagNamesNoTable
  BY <1>1, MappedStays
<1>7. ASSUME DiagNamesNoTable, NEW stage \in Stage PROVE Together(Mapped', stage)
  <2>1. PICK a : \A n \in Mapped : IsRegion(n, stage) => Source(n) = a /\ Dest(n) = a
    BY <1>1, <1>7 DEF NamesInv, Together
  <2>2. ~NamesSection(dict, TableSection(stage)[1])
    BY <1>1, <1>2, <1>7 DEF DiagNamesNoTable, DiagMappingLeft
  <2>3. ~IsRegion(m, stage)
    BY <1>4, <2>2, RegionOfNew, AddressedNames
  <2> HIDE DEF m
  <2> QED
    BY <1>5, <2>1, <2>3 DEF Together
<1> QED
  BY <1>3, <1>6, <1>7 DEF NamesInv, MapChecked

(* Sorting moves no mapping.                                               *)
LEMMA CheckedNames ==
  ASSUME MapInv, NamesInv, [Next]_vars, CheckMemoryMap, phase' # "rejected"
  PROVE  NamesInv'
<1>1. phase = "diag" /\ Attributed /\ phase' = "tables" /\ memory_map' = SortedMap
  BY DEF CheckMemoryMap, Reject, Advance, Attributed
<1>2. /\ EnabledSet' = EnabledSet /\ (DiagNamesNoTable' <=> DiagNamesNoTable)
      /\ \A s \in EnabledSet : MappingList(memory_map[s], s)
  BY <1>1, MappedStays
<1>3. ASSUME NEW s \in EnabledSet
      PROVE  SameMappings(memory_map[s], memory_map'[s])
  <2>1. memory_map'[s] = SortedBy(memory_map[s], TranslatesTo[s])
    BY <1>1 DEF SortedMap
  <2> QED
    BY <1>2, <2>1, SortingKeeps, EnabledStagesKnown
<1>4. Mapped' \subseteq Mapped
  BY <1>2, <1>3 DEF Mapped, SameMappings
<1> QED
  BY <1>1, <1>2, <1>4 DEF NamesInv, Together, MapChecked

(* Every other step leaves the map.                                        *)
LEMMA NamesStay ==
  ASSUME NamesInv, UNCHANGED <<diag_attributes, memory_map>>,
         phase' = "jumpstart" => phase = "jumpstart",
         phase' = "diag" \/ MapChecked' => phase = "diag" \/ MapChecked
  PROVE  NamesInv'
<1>1. /\ EnabledSet' = EnabledSet /\ (DiagNamesNoTable' <=> DiagNamesNoTable)
  BY DEF EnabledSet, Enabled, DiagNamesNoTable, DiagWork
<1>2. Mapped' = Mapped
  BY <1>1 DEF Mapped
<1> QED
  BY <1>1, <1>2 DEF NamesInv, Unnamed, Together

(* Until the tables are mapped nothing is named like them, and from then   *)
(* on all that is lies at one address.                                     *)
LEMMA NamesStep ==
  ASSUME MapInv, NamesInv, at \in Nat \ {0}, [Next]_vars
  PROVE  NamesInv'
<1>1. CASE phase' = "rejected"
  BY <1>1 DEF NamesInv, MapChecked
<1>2. CASE UNCHANGED vars
  BY <1>2, NamesStay DEF vars, mapVars, MapChecked
<1>3. CASE TablesNext \/ SectionsNext \/ GenerateAssembly
  BY <1>3, LaterSteps, NamesStay DEF MapChecked
<1>4. CASE ProcessDiagAttributes /\ phase' # "rejected"
  <2>1. phase' = "jumpstart" /\ memory_map' = [stage \in EnabledSet' |-> <<>>]
    BY <1>4 DEF ProcessDiagAttributes, Reject, Advance
  <2>2. Mapped' = {}
    BY <2>1 DEF Mapped
  <2> QED
    BY <2>1, <2>2 DEF NamesInv, Unnamed, MapChecked
<1> QED
  BY <1>1, <1>2, <1>3, <1>4, JumpstartNames, TablesNames, DiagNames, CheckedNames DEF Next, MapNext


----------------------------------------------------------------------------
(* Every stage that is finished has a root, in the alignment of its mode   *)

Complete(t) == HasRoot(t) /\ t.start \in DOMAIN t.memory
Rooted(t, s) == HasRoot(t) => t.start % PagetableSize(Mode(s), 0) = 0
Located(t, s) == t.start = Dest(RegionOf(s))
RootsInv ==
  /\ phase \in {"attributes", "jumpstart", "diag"} => DOMAIN page_tables = {}
  /\ phase \in {"sections", "assembly", "done"} => stage_id > Len(Enabled)
  /\ current_level # 0 /\ phase = "tables" => HasRoot(page_tables[Building])
  /\ phase # "rejected" =>
       \A i \in DOMAIN Enabled : i < stage_id /\ Enabled[i] \in DOMAIN page_tables =>
         Complete(page_tables[Enabled[i]])
  /\ \A s \in DOMAIN page_tables :
       Rooted(page_tables[s], s) /\ (MapChecked => Located(page_tables[s], s))

(* The first page to be allocated is the root, and starts the tables.      *)
LEMMA FirstPage ==
  ASSUME NEW t, TableShape(t), t.pages = <<>>, t.start \in Int, NEW mode, NEW e,
         NEW u, u = Allocated(t, mode, e, 0), Tables(u, mode, e.src, 0) # {}
  PROVE  /\ HasRoot(u) /\ Table(u, mode, e.src, 0).pa = t.start
         /\ Table(u, mode, e.src, 0).size = PagetableSize(mode, 0)
<1> DEFINE range == TableRange(mode, 0)
           page == [pa |-> t.start + CurrentSize(t), size |-> PagetableSize(mode, 0),
                    va |-> (MaskVa(mode, e.src) \div range) * range, level |-> 0]
           here == WithTable(t, mode, e.src, 0)
<1>1. here = [t EXCEPT !.pages = Append(@, page)]
  <2>1. Tables(t, mode, e.src, 0) = {}
    BY DEF Tables
  <2> QED
    BY <2>1 DEF WithTable
<1>2. page.pa = t.start /\ page.size = PagetableSize(mode, 0) /\ page.level = 0
  <2>1. CurrentSize(t) = 0
    BY DEF CurrentSize
  <2> QED
    BY <2>1
<1> HIDE DEF page, here
<1>3. TableShape(here)
  BY WithTableGrows DEF here
<1>4. here.pages = <<page>>
  <2>1. PICK p : p = page
    OBVIOUS
  <2>2. t = [start |-> t.start, entries |-> t.entries, pages |-> t.pages, memory |-> t.memory]
    BY DEF TableShape
  <2>3. here.pages = Append(<<>>, p)
    BY <1>1, <2>1, <2>2
  <2> QED
    BY <2>1, <2>3
<1>5. HasRoot(u) /\ u.pages[1] = page /\ \A i \in DOMAIN u.pages : i = 1 \/ u.pages[i].level = 1
  <2>1. here.pages \in Seq({page}) /\ Len(here.pages) = 1 /\ here.pages[1] = page
    <3>1. PICK p : p = page
      OBVIOUS
    <3>2. <<p>> \in Seq({p}) /\ Len(<<p>>) = 1 /\ <<p>>[1] = p
      OBVIOUS
    <3> QED
      BY <1>4, <3>1, <3>2
  <2>2. CASE u = here
    BY <2>1, <2>2 DEF HasRoot
  <2>3. CASE u # here
    <3> DEFINE range1 == TableRange(mode, 1)
               q == [pa |-> here.start + CurrentSize(here), size |-> PagetableSize(mode, 1),
                     va |-> (MaskVa(mode, e.src) \div range1) * range1, level |-> 1]
    <3>1. u = WithTable(here, mode, e.src, 1)
      BY <2>3 DEF Allocated, here
    <3>2. u = [here EXCEPT !.pages = Append(@, q)]
      BY <2>3, <3>1 DEF WithTable
    <3>3. q.level = 1
      OBVIOUS
    <3> HIDE DEF q
    <3>4. u.pages = Append(here.pages, q)
      <4>1. here = [start |-> here.start, entries |-> here.entries, pages |-> here.pages,
                    memory |-> here.memory]
        BY <1>3 DEF TableShape
      <4>2. "pages" \in DOMAIN here
        BY <4>1
      <4> QED
        BY <3>2, <4>2
    <3>5. /\ DOMAIN u.pages = 1..Len(here.pages) + 1
          /\ u.pages[Len(here.pages) + 1] = q /\ \A i \in 1..Len(here.pages) : u.pages[i] = here.pages[i]
      BY <2>1, <3>4, AppendFacts
    <3> QED
      BY <2>1, <3>3, <3>5 DEF HasRoot
  <2> QED
    BY <2>2, <2>3
<1>6. \A i \in Tables(u, mode, e.src, 0) : i = 1
  BY <1>5 DEF Tables, Covers
<1>7. Table(u, mode, e.src, 0) = page
  BY <1>5, <1>6 DEF Table
<1> QED
  BY <1>2, <1>5, <1>7


(* What WriteEntry writes, whether or not it changes what was there.       *)
LEMMA WriteTaken ==
  ASSUME WriteEntry, phase' # "rejected"
  PROVE  /\ StageLeft /\ Building \in DOMAIN page_tables /\ EntriesLeft
         /\ EntryAllowed(page_tables[Building], Mode(Building), Entry)
         /\ UNCHANGED <<input, diag_attributes, phase, memory_map, stage_id>>
         /\ \E address, pte :
              LET u == Allocated(page_tables[Building], Mode(Building), Entry, current_level)
              IN /\ InRange(u, Mode(Building), Entry, current_level)
                 /\ page_tables' = [page_tables EXCEPT ![Building] = Write(u, address, pte)]
<1>1. /\ StageLeft /\ Building \in DOMAIN page_tables /\ EntriesLeft
      /\ EntryAllowed(page_tables[Building], Mode(Building), Entry)
      /\ UNCHANGED <<input, diag_attributes, phase, memory_map, stage_id>>
  BY DEF WriteEntry, RejectTables, Reject, Entry
<1> DEFINE u == Allocated(page_tables[Building], Mode(Building), Entry, current_level)
<1>2. page_tables' = [page_tables EXCEPT ![Building] =
          Write(u, PteAddress(u, Mode(Building), Entry.src, current_level),
                EntryFor(u, Mode(Building), Entry, current_level))]
  BY DEF WriteEntry, RejectTables, Reject, Entry
<1>3. InRange(u, Mode(Building), Entry, current_level)
  BY <1>1 DEF EntryAllowed
<1> QED
  BY <1>1, <1>2, <1>3

(* A page that is written has a root, and a root that is new is aligned.   *)
LEMMA WriteRoots ==
  ASSUME LoopInv, BegunInv, TileInv, RootsInv, WriteEntry, phase' # "rejected"
  PROVE  /\ HasRoot(page_tables'[Building])
         /\ Rooted(page_tables'[Building], Building)
<1> DEFINE mode == Mode(Building)
           old == page_tables[Building]
           e == Entry
           u == Allocated(old, mode, e, current_level)
<1> USE DEF LoopInv
<1>1. PICK address, pte :
        /\ StageLeft /\ Building \in DOMAIN page_tables /\ EntriesLeft
        /\ EntryAllowed(old, mode, e) /\ InRange(u, mode, e, current_level)
        /\ page_tables' = [page_tables EXCEPT ![Building] = Write(u, address, pte)]
  BY WriteTaken
<1>2. /\ mode \in DOMAIN Levels /\ SizeSupported(mode, e)
      /\ Allocatable(old, mode, e, current_level)
  BY <1>1 DEF ModesKnown, EntryAllowed
<1>3. LeafLevel(mode, e) \in 0..Levels[mode] - 1 /\ Levels[mode] \in {3, 4}
  BY <1>2, LeafLevelFacts
<1>4. current_level \in 0..LeafLevel(mode, e)
  <2>1. current_level \in Nat
    BY DEF LevelRight
  <2>2. current_level # 0 => current_level <= LeafLevel(mode, e)
    BY <1>1 DEF LevelRight, StageLeft
  <2>3. LeafLevel(mode, e) \in Nat
    BY <1>3
  <2> HIDE DEF mode, e
  <2> QED
    BY <2>1, <2>2, <2>3
<1>5. e.src \in Int /\ old.start \in Int
  <2>1. old.entries \in Seq(Page) /\ old.start \in Int
    BY <1>1 DEF BegunInv, Begun
  <2>2. at \in 1..Len(old.entries)
    BY <1>1, <2>1 DEF EntriesLeft, TileInv
  <2>3. e \in Page
    BY <2>1, <2>2 DEF Entry
  <2> HIDE DEF e, old
  <2> QED
    BY <2>1, <2>3 DEF Page
<1>6. /\ PagesTile(old) /\ PagesFit(old) /\ TableShape(old) /\ Rooted(old, Building)
      /\ current_level # 0 => HasRoot(old)
  BY <1>1 DEF TileInv, Tiled, Shape, RootsInv, StageLeft
<1>7. page_tables'[Building] = Write(u, address, pte)
  BY <1>1
<1> HIDE DEF old, e, mode
<1>8. TableShape(u) /\ Grows(old, u) /\ Tables(u, mode, e.src, current_level) # {}
  BY <1>2, <1>4, <1>5, <1>6, AllocatedTiles
<1> HIDE DEF u
<1>9. page_tables'[Building].pages = u.pages /\ page_tables'[Building].start = u.start
      /\ u.start = old.start
  BY <1>7, <1>8 DEF Write, TableShape, Grows
<1>10. CASE HasRoot(old)
  <2>1. HasRoot(u)
    BY <1>8, <1>10 DEF Grows, HasRoot
  <2> QED
    BY <1>6, <1>9, <1>10, <2>1 DEF HasRoot, Rooted
<1>11. CASE ~HasRoot(old)
  <2>1. current_level = 0 /\ old.pages = <<>>
    <3>1. PICK S : old.pages \in Seq(S)
      BY <1>6 DEF TableShape
    <3>2. PICK p : p = old.pages
      OBVIOUS
    <3>3. 1 \notin DOMAIN p /\ p \in Seq(S)
      BY <1>11, <3>1, <3>2 DEF HasRoot
    <3>4. p = <<>>
      BY <3>3
    <3> QED
      BY <1>6, <1>11, <3>2, <3>4
  <2>2. /\ HasRoot(u) /\ Table(u, mode, e.src, 0).pa = old.start
        /\ Table(u, mode, e.src, 0).size = PagetableSize(mode, 0)
    BY <1>5, <1>6, <1>8, <2>1, FirstPage DEF u
  <2>3. Table(u, mode, e.src, 0).pa % Table(u, mode, e.src, 0).size = 0
    BY <1>1, <2>1 DEF InRange, u, mode, e, old
  <2> QED
    BY <1>9, <2>2, <2>3 DEF HasRoot, Rooted, mode
<1> QED
  BY <1>10, <1>11

(* What has to be shown of a step that builds tables: it changes neither   *)
(* the map nor the modes.                                                  *)
Sited(T) == \A s \in DOMAIN T : Rooted(T[s], s) /\ Located(T[s], s)
CompleteBelow(T, n) ==
  \A i \in DOMAIN Enabled : i < n /\ Enabled[i] \in DOMAIN T => Complete(T[Enabled[i]])

LEMMA RootsFrom ==
  ASSUME UNCHANGED <<diag_attributes, memory_map>>,
         phase' \in {"tables", "sections"}, phase' = "sections" => stage_id' > Len(Enabled),
         Sited(page_tables'), CompleteBelow(page_tables', stage_id'),
         current_level' # 0 => HasRoot(page_tables'[Building'])
  PROVE  RootsInv'
<1>1. Enabled' = Enabled /\ \A s : Mode(s)' = Mode(s)
  BY DEF Enabled, Mode
<1>2. \A s : RegionOf(s)' = RegionOf(s)
  BY DEF RegionOf, RegionsOf
<1>3. ASSUME NEW s \in DOMAIN page_tables'
      PROVE  /\ HasRoot(page_tables'[s]) => page_tables'[s].start % PagetableSize(Mode(s)', 0) = 0
             /\ page_tables'[s].start = Dest(RegionOf(s)')
  BY <1>1, <1>2 DEF Sited, Rooted, Located
<1>4. \A i \in DOMAIN Enabled' : i < stage_id' /\ Enabled'[i] \in DOMAIN page_tables' =>
        Complete(page_tables'[Enabled'[i]])
  BY <1>1 DEF CompleteBelow
<1>5. Len(Enabled)' = Len(Enabled)
  BY <1>1
<1> QED
  BY <1>3, <1>4, <1>5 DEF RootsInv, Rooted, Located, Complete, HasRoot

(* No stage is enabled twice.                                              *)
LEMMA EnabledOnce ==
  \A i, j \in DOMAIN Enabled : Enabled[i] = Enabled[j] => i = j
<1>1. Enabled = <<"s">> \/ Enabled = <<"hs", "vs", "g">>
  BY DEF Enabled, EnabledStages
<1>2. CASE Enabled = <<"s">>
  <2>1. DOMAIN Enabled = 1..1
    BY <1>2
  <2> QED
    BY <2>1
<1>3. CASE Enabled = <<"hs", "vs", "g">>
  <2>1. DOMAIN Enabled = {1, 2, 3} /\ Enabled[1] = "hs" /\ Enabled[2] = "vs" /\ Enabled[3] = "g"
    BY <1>3
  <2> QED
    BY <2>1
<1> QED
  BY <1>1, <1>2, <1>3

(* Every step of the loop that builds the tables.                          *)
LEMMA TablesRoots ==
  ASSUME LoopInv, BegunInv, TileInv, RootsInv, [Next]_vars, TablesNext, phase' # "rejected"
  PROVE  RootsInv'
<1> USE DEF LoopInv
<1>1. /\ phase = "tables" /\ phase' \in {"tables", "sections"} /\ MapChecked
      /\ UNCHANGED <<input, diag_attributes, memory_map>>
      /\ Enabled' = Enabled
  <2>1. phase = "tables" /\ phase' \in {"tables", "sections", "rejected"}
    BY DEF TablesNext, SkipBareStage, BeginStage, WriteEntry, FinishStage, FinishTables,
           RejectTables, Reject, Advance, StageLeft, mapVars
  <2> QED
    BY <2>1, LaterSteps DEF MapChecked, Enabled
<1>2. Sited(page_tables) /\ CompleteBelow(page_tables, stage_id)
  BY <1>1 DEF RootsInv, Sited, CompleteBelow
<1>3. /\ stage_id \in Nat \ {0} /\ Len(Enabled) \in Nat /\ DOMAIN Enabled = 1..Len(Enabled)
      /\ current_level # 0 => StageLeft /\ Building \in DOMAIN page_tables /\ EntriesLeft
      /\ StageLeft => Building = Enabled[stage_id] /\ stage_id \in DOMAIN Enabled
  BY <1>1, EnabledFacts DEF LevelRight, Building, StageLeft
<1>4. page_tables = [s \in DOMAIN page_tables |-> page_tables[s]]
  BY DEF Shape
<1>5. CASE SkipBareStage
  <2>1. /\ UNCHANGED <<page_tables, current_level, phase>> /\ stage_id' = stage_id + 1
        /\ StageLeft /\ Building \notin DOMAIN page_tables
    BY <1>5 DEF SkipBareStage, ModesKnown, Levels, mapVars
  <2>2. CompleteBelow(page_tables', stage_id')
    <3>1. \A i \in DOMAIN Enabled : i < stage_id + 1 => i < stage_id \/ i = stage_id
      BY <1>3
    <3> QED
      BY <1>2, <1>3, <2>1, <3>1 DEF CompleteBelow
  <2>3. current_level' = 0 /\ phase' = "tables"
    BY <1>1, <1>3, <2>1
  <2> QED
    BY <1>1, <1>2, <2>1, <2>2, <2>3, RootsFrom
<1>6. CASE BeginStage
  <2> DEFINE t == [start |-> Dest(RegionOf(Building)), entries |-> Entries(Building),
                   pages |-> <<>>, memory |-> <<>>]
  <2>1. /\ page_tables' = [s \in DOMAIN page_tables \cup {Building} |->
                             IF s = Building THEN t ELSE page_tables[s]]
        /\ Building \notin DOMAIN page_tables /\ StageLeft
        /\ UNCHANGED <<phase, stage_id, current_level>>
    BY <1>6 DEF BeginStage, mapVars
  <2>2. ~HasRoot(t) /\ t.start = Dest(RegionOf(Building))
    BY DEF HasRoot
  <2> HIDE DEF t
  <2>3. Sited(page_tables')
    BY <1>2, <2>1, <2>2 DEF Sited, Rooted, Located
  <2>4. CompleteBelow(page_tables', stage_id')
    <3>1. \A i \in DOMAIN Enabled : i < stage_id => Enabled[i] # Building
      BY <1>3, <2>1, EnabledOnce
    <3> QED
      BY <1>2, <2>1, <3>1 DEF CompleteBelow
  <2>5. current_level' = 0 /\ phase' = "tables"
    BY <1>1, <1>3, <2>1
  <2> QED
    BY <1>1, <2>3, <2>4, <2>5, RootsFrom
<1>7. CASE WriteEntry
  <2>1. PICK v : /\ StageLeft /\ Building \in DOMAIN page_tables
                 /\ UNCHANGED <<phase, stage_id>>
                 /\ page_tables' = [page_tables EXCEPT ![Building] = v]
    BY <1>7, WriteTaken
  <2>2. HasRoot(page_tables'[Building]) /\ Rooted(page_tables'[Building], Building)
    BY <1>7, WriteRoots
  <2>3. page_tables'[Building].start = page_tables[Building].start
    <3>1. Grows(page_tables[Building], page_tables'[Building])
      BY <2>1, ShapeStep
    <3> QED
      BY <3>1 DEF Grows
  <2>4. \A s \in DOMAIN page_tables : s # Building => page_tables'[s] = page_tables[s]
    BY <2>1
  <2>5. Sited(page_tables')
    BY <1>2, <2>1, <2>2, <2>3, <2>4 DEF Sited, Located
  <2>6. CompleteBelow(page_tables', stage_id')
    <3>1. \A i \in DOMAIN Enabled : i < stage_id => Enabled[i] # Building
      BY <1>3, <2>1, EnabledOnce
    <3> QED
      BY <1>2, <2>1, <2>4, <3>1 DEF CompleteBelow
  <2>7. Building' = Building /\ phase' = "tables"
    BY <1>1, <2>1 DEF Building
  <2> QED
    BY <1>1, <2>2, <2>5, <2>6, <2>7, RootsFrom
<1>8. CASE FinishStage
  <2> DEFINE t == page_tables[Building]
             v == WithBounds(t, Mode(Building))
  <2>1. /\ StageLeft /\ Building \in DOMAIN page_tables /\ ~EntriesLeft
        /\ t.pages # <<>> /\ page_tables' = [page_tables EXCEPT ![Building] = v]
        /\ stage_id' = stage_id + 1 /\ UNCHANGED <<phase, current_level>>
    BY <1>8 DEF FinishStage, RejectTables, Reject
  <2>2. TableShape(t)
    BY <2>1 DEF Shape
  <2>3. HasRoot(t)
    <3>1. PICK S, p : p \in Seq(S) /\ p = t.pages
      BY <2>2 DEF TableShape
    <3>2. p # <<>>
      BY <2>1, <3>1
    <3>3. 1 \in DOMAIN p
      BY <3>1, <3>2
    <3> QED
      BY <3>1, <3>3 DEF HasRoot
  <2> HIDE DEF t
  <2>4. v.pages = t.pages /\ v.start = t.start /\ DOMAIN v.memory = DOMAIN t.memory \cup Bounds(t)
    BY <2>2 DEF WithBounds, TableShape
  <2>5. Complete(v)
    BY <2>3, <2>4 DEF Complete, HasRoot, Bounds
  <2>6. Rooted(v, Building) /\ Located(v, Building)
    BY <1>2, <2>1, <2>3, <2>4 DEF Sited, Rooted, Located, HasRoot, t
  <2> HIDE DEF v
  <2>7. page_tables'[Building] = v /\ \A s \in DOMAIN page_tables : s # Building => page_tables'[s] = page_tables[s]
    BY <2>1
  <2>8. Sited(page_tables')
    BY <1>2, <2>1, <2>6, <2>7 DEF Sited
  <2>9. CompleteBelow(page_tables', stage_id')
    <3>1. \A i \in DOMAIN Enabled : i < stage_id + 1 => i < stage_id \/ i = stage_id
      BY <1>3
    <3>2. \A i \in DOMAIN Enabled : i < stage_id => Enabled[i] # Building
      BY <1>3, <2>1, EnabledOnce
    <3> QED
      BY <1>2, <1>3, <2>1, <2>5, <2>7, <3>1, <3>2 DEF CompleteBelow
  <2>10. current_level' = 0 /\ phase' = "tables"
    BY <1>1, <1>3, <2>1
  <2> QED
    BY <1>1, <2>8, <2>9, <2>10, RootsFrom
<1>9. CASE FinishTables
  <2>1. /\ UNCHANGED <<page_tables, stage_id, current_level>> /\ phase' = "sections"
        /\ stage_id > Len(Enabled)
    BY <1>9 DEF FinishTables, Advance, tableVars
  <2>2. current_level' = 0
    BY <1>3, <2>1 DEF StageLeft
  <2> QED
    BY <1>1, <1>2, <2>1, <2>2, RootsFrom
<1> QED
  BY <1>5, <1>6, <1>7, <1>8, <1>9 DEF TablesNext

(* Every step.                                                             *)
LEMMA RootsStep ==
  ASSUME LoopInv, BegunInv, TileInv, RootsInv, [Next]_vars
  PROVE  RootsInv'
<1>1. CASE UNCHANGED vars
  BY <1>1 DEF vars, mapVars, tableVars, RootsInv, Rooted, Located, Complete, HasRoot, Enabled, Mode,
              RegionOf, RegionsOf, Building, MapChecked
<1>2. CASE TablesNext /\ phase' # "rejected"
  BY <1>2, TablesRoots
<1>3. CASE phase' = "rejected" /\ ~UNCHANGED vars
  <2>1. UNCHANGED page_tables
    BY <1>3 DEF Next, MapNext, tableVars, TablesNext, SectionsNext, SkipBareStage, BeginStage, WriteEntry,
                FinishStage, FinishTables, RejectTables, Advance, StageLeft, mapVars
  <2>2. DOMAIN page_tables # {} => \A s : Mode(s)' = Mode(s)
    BY AttributesFixed DEF Mode
  <2> QED
    BY <1>3, <2>1, <2>2 DEF RootsInv, Rooted, HasRoot, MapChecked
<1>4. CASE MapNext /\ UNCHANGED tableVars /\ phase' # "rejected"
  <2>1. /\ phase \in {"attributes", "jumpstart", "diag"}
        /\ phase' \in {"jumpstart", "diag", "tables"}
    BY <1>4 DEF MapNext, ProcessDiagAttributes, AddJumpstartSection, AddPagetableMappings,
                AddDiagMapping, CheckMemoryMap, Reject, Advance
  <2>2. DOMAIN page_tables' = {} /\ current_level' = 0
    BY <1>4, <2>1 DEF RootsInv, LoopInv, LevelRight, StageLeft, tableVars
  <2> QED
    BY <2>1, <2>2 DEF RootsInv
<1>5. CASE (SectionsNext \/ GenerateAssembly) /\ UNCHANGED tableVars /\ phase' # "rejected"
  <2>1. /\ phase \in {"sections", "assembly"} /\ phase' \in {"sections", "assembly", "done"}
        /\ UNCHANGED <<input, diag_attributes, memory_map>>
    BY <1>5, LaterSteps DEF SectionsNext, CollectSection, FinishLinkerScript, RejectSections,
                            GenerateAssembly, Reject, Advance
  <2>2. /\ Enabled' = Enabled /\ \A s : Mode(s)' = Mode(s) /\ RegionOf(s)' = RegionOf(s)
    BY <2>1 DEF Enabled, Mode, RegionOf, RegionsOf
  <2>3. MapChecked /\ UNCHANGED <<page_tables, stage_id, current_level>>
    BY <1>5, <2>1 DEF MapChecked, tableVars
  <2> QED
    BY <2>1, <2>2, <2>3 DEF RootsInv, Rooted, Located, Complete, HasRoot
<1> QED
  BY <1>1, <1>2, <1>3, <1>4, <1>5 DEF Next


----------------------------------------------------------------------------
(* Where the linker puts the tables of a stage                             *)

(* A name is in one section of the linker script only, and a section       *)
(* starts where the first mapping of its names does.                       *)
LEMMA NameLinked ==
  ASSUME MapInv, MapChecked, Linked(sections), NEW names, NEW x, names = <<x>>,
         x # ".text.startup",
         NEW j \in DOMAIN LinkerWork, Contains(LinkerWork[j].linker_script_section, x)
  PROVE  \E i \in DOMAIN LinkerWork :
           /\ Contains(LinkerWork[i].linker_script_section, x) /\ FirstNamed(i)
           /\ SectionStart(names) = LinkedAt(LinkerWork[i]) * EntryBytes
<1>1. ToSet(names) = {x}
  BY DEF ToSet
<1>2. \A i \in DOMAIN LinkerWork : IsList(LinkerWork[i].linker_script_section)
  BY LinkerWorkTyped
<1>4. PICK k \in DOMAIN sections, i \in DOMAIN LinkerWork :
        /\ ToSet(SectionNames(LinkerWork[j])) \subseteq ToSet(sections[k].names)
        /\ sections[k].names = SectionNames(LinkerWork[i])
        /\ sections[k].virt = LinkedAt(LinkerWork[i]) /\ FirstNamed(i)
  BY DEF Linked
<1>5. \A n : IsList(n) => \A y : Contains(n, y) <=> y \in ToSet(n)
  BY DEF IsList, Contains, ToSet
<1>6. x \in ToSet(sections[k].names)
  <2>1. IsList(SectionNames(LinkerWork[j])) /\ Contains(SectionNames(LinkerWork[j]), x)
    BY <1>2, NamesOfMapping
  <2> QED
    BY <1>4, <1>5, <2>1
<1>7. Contains(LinkerWork[i].linker_script_section, x)
  <2>1. IsList(SectionNames(LinkerWork[i]))
    BY <1>2, NamesOfMapping
  <2>2. Contains(SectionNames(LinkerWork[i]), x)
    BY <1>4, <1>5, <1>6, <2>1
  <2> QED
    BY <1>2, <2>2, NamesOfMapping
<1>8. ASSUME NEW l \in DOMAIN sections, x \in ToSet(sections[l].names) PROVE l = k
  <2> DEFINE seqs == [n \in DOMAIN sections |-> sections[n].names]
             S == UNION {{sections[n].names[o] : o \in 1..Len(sections[n].names)} :
                           n \in DOMAIN sections}
  <2>1. DOMAIN sections = 1..Len(sections) /\ Len(sections) \in Nat
    BY SectionListFacts DEF Linked
  <2>2. \A n \in DOMAIN sections : IsList(sections[n].names)
    BY <2>1, SectionListFacts DEF Linked, SectionTyped
  <2>3. \A n \in DOMAIN sections : sections[n].names \in Seq(S)
    <3> SUFFICES ASSUME NEW n \in DOMAIN sections PROVE sections[n].names \in Seq(S)
      OBVIOUS
    <3>1. PICK p : p = sections[n].names
      OBVIOUS
    <3>2. Len(p) \in Nat /\ p = [o \in 1..Len(p) |-> p[o]] /\ \A o \in 1..Len(p) : p[o] \in S
      BY <2>2, <3>1 DEF IsList
    <3> HIDE DEF S
    <3> QED
      BY <3>1, <3>2
  <2>4. seqs = [n \in 1..Len(sections) |-> sections[n].names]
    BY <2>1
  <2>5. IsInjective(FlattenSeq(seqs))
    BY Zenon DEF Linked, NamesUnique
  <2>6. /\ DOMAIN seqs = 1..Len(sections) /\ \A n \in 1..Len(sections) : seqs[n] = sections[n].names
    BY <2>4
  <2> HIDE DEF S, seqs
  <2>7. seqs \in Seq(Seq(S)) /\ Len(seqs) = Len(sections)
    BY <2>1, <2>3, <2>4
  <2>8. PICK o \in 1..Len(seqs[l]), q \in 1..Len(seqs[k]) : seqs[l][o] = x /\ seqs[k][q] = x
    BY <1>5, <1>6, <1>8, <2>1, <2>2, <2>6 DEF Contains
  <2> QED
    BY <2>1, <2>5, <2>7, <2>8, FlattenInjective
<1>9. SectionStart(names) =
        sections[CHOOSE l \in DOMAIN sections : ToSet(names) \subseteq ToSet(sections[l].names)].virt
          * EntryBytes
  BY Zenon DEF SectionStart
<1>10. (CHOOSE l \in DOMAIN sections : ToSet(names) \subseteq ToSet(sections[l].names)) = k
  BY <1>1, <1>6, <1>8
<1> QED
  BY <1>4, <1>7, <1>9, <1>10

(* Mappings of page tables have their name alone or lie at one address.    *)
LEMMA TablesLinked ==
  ASSUME MapInv, MapChecked, Linked(sections), NEW t \in Stage, NEW a,
         NEW m, Named(m), IsRegion(m, t), \A n : Named(n) /\ IsRegion(n, t) => LinkedAt(n) = a
  PROVE  SectionStart(TableSection(t)) = a * EntryBytes
<1> DEFINE x == TableSection(t)[1]
<1>1. TableSection(t) = <<x>> /\ x # ".text.startup"
  <2>1. PICK b : TableSection(t) = <<b>>
    BY DEF TableSection
  <2> QED
    BY <2>1, TableSectionAssumption
<1>2. \A i \in DOMAIN LinkerWork :
        /\ Named(LinkerWork[i])
        /\ Contains(LinkerWork[i].linker_script_section, x) <=> IsRegion(LinkerWork[i], t)
  BY LinkerWorkTyped DEF Named, IsRegion
<1>3. PICK j \in DOMAIN LinkerWork : LinkerWork[j] = m
  BY LinkerWorkTyped
<1> HIDE DEF x
<1>4. PICK i \in DOMAIN LinkerWork :
        /\ Contains(LinkerWork[i].linker_script_section, x)
        /\ SectionStart(TableSection(t)) = LinkedAt(LinkerWork[i]) * EntryBytes
  BY <1>1, <1>2, <1>3, NameLinked
<1> QED
  BY <1>2, <1>4

(* The linker puts them where they are mapped.                             *)
LEMMA TablesPlaced ==
  ASSUME MapInv, RegionInv, NamesInv, DiagNamesNoTable, MapChecked, Linked(sections),
         NEW t \in EnabledSet, Mode(t) # "bare"
  PROVE  /\ SectionStart(TableSection(t)) = Dest(RegionOf(t)) * EntryBytes
         /\ Dest(RegionOf(t)) \in Int
<1>1. t \in Stage /\ Attributed
  BY EnabledStagesKnown DEF MapChecked, Attributed
<1>2. /\ Dest(RegionOf(t)) \in Int /\ IsRegion(RegionOf(t), t)
      /\ \E i \in DOMAIN memory_map[t] : RegionOf(t) = memory_map[t][i]
  <2>1. MappingList(memory_map[t], t) /\ HasRegion(memory_map[t], t)
    BY <1>1 DEF MapInv, MapTyped, RegionInv
  <2> QED
    BY <2>1, RegionFacts
<1> DEFINE r == RegionOf(t)
<1>3. Named(r)
  BY <1>2 DEF Named, IsRegion
<1>4. PICK a : \A m \in Mapped : IsRegion(m, t) => Source(m) = a /\ Dest(m) = a
  BY <1>1 DEF NamesInv, Together
<1>5. \A n : Named(n) => n \in Mapped
  BY DEF Named, Mapped
<1>6. Dest(r) = a
  BY <1>2, <1>3, <1>4, <1>5
<1>7. \A n : Named(n) /\ IsRegion(n, t) => LinkedAt(n) = a
  BY <1>4, <1>5 DEF LinkedAt
<1> HIDE DEF r
<1> QED
  BY <1>1, <1>2, <1>3, <1>6, <1>7, TablesLinked DEF r


----------------------------------------------------------------------------
(* Where each entry of an image lands                                      *)

(* One step of the landings, and a function that takes it everywhere.      *)
Lands(memory, base, g, a) ==
  LET below == {b \in DOMAIN memory : b < a}
  IN IF below = {} THEN base
     ELSE LET b == CHOOSE b \in below : \A c \in below : c <= b
              skip == IF a # b + 1 THEN a - (b + 1) ELSE 0
          IN g[b] + (1 + skip) * EntryBytes
Landings(memory, base, g) == g = [a \in DOMAIN memory |-> Lands(memory, base, g, a)]

(* Of the entries below an address one is the last.                        *)
LEMMA LastBelow ==
  ASSUME NEW D \in SUBSET Int, NEW start \in Int, \A a \in D : start <= a, start \in D,
         NEW a \in D, NEW B, \A b : b \in B <=> b \in D /\ b < a
  PROVE  \/ a = start /\ B = {}
         \/ B # {} /\ (CHOOSE b \in B : \A c \in B : c <= b) \in B
<1> DEFINE M == {a - b : b \in B}
<1>1. CASE B = {}
  <2>1. start \notin B
    BY <1>1
  <2>2. a \in Int /\ start <= a
    OBVIOUS
  <2>3. ~(start < a)
    BY <2>1
  <2>4. a = start
    BY <2>2, <2>3
  <2> QED
    BY <1>1, <2>4
<1>2. CASE B # {}
  <2>1. M \in SUBSET Nat /\ M # {}
    <3>1. ASSUME NEW b \in B PROVE a - b \in Nat
      <4>1. a \in Int /\ b \in Int /\ b < a
        OBVIOUS
      <4> QED
        BY <4>1
    <3> QED
      BY <1>2, <3>1
  <2>2. PICK n \in M : \A y \in M : n <= y
    BY <2>1, LeastNatural
  <2>3. PICK b \in B : n = a - b
    OBVIOUS
  <2>4. \A c \in B : c <= b
    <3> TAKE c \in B
    <3>1. a - c \in M
      OBVIOUS
    <3>2. n <= a - c
      BY <2>2, <3>1
    <3>3. a \in Int /\ b \in Int /\ c \in Int
      OBVIOUS
    <3> HIDE DEF M
    <3> QED
      BY <2>3, <3>2, <3>3
  <2>5. \E e \in B : \A c \in B : c <= e
    BY <2>4
  <2>6. (CHOOSE e \in B : \A c \in B : c <= e) \in B
    BY <2>5
  <2> QED
    BY <1>2, <2>6
<1> QED
  BY <1>1, <1>2

(* Wherever the entry before lands where it was built for, so does the     *)
(* next.                                                                   *)
LEMMA LandsRight ==
  ASSUME NEW memory, DOMAIN memory \in SUBSET Int, NEW start \in Int, start \in DOMAIN memory,
         \A a \in DOMAIN memory : start <= a, NEW g, NEW a \in DOMAIN memory,
         \A b \in DOMAIN memory : b < a => g[b] = b * EntryBytes
  PROVE  Lands(memory, start * EntryBytes, g, a) = a * EntryBytes
<1> DEFINE D == DOMAIN memory
           B == {b \in D : b < a}
           e == CHOOSE b \in B : \A c \in B : c <= b
<1>1. \/ a = start /\ B = {}
      \/ B # {} /\ e \in B
  <2>1. D \in SUBSET Int /\ start \in D /\ (\A d \in D : start <= d) /\ a \in D
    BY DEF D
  <2>2. \A b : b \in B <=> b \in D /\ b < a
    OBVIOUS
  <2> HIDE DEF D, B
  <2> QED
    BY <2>1, <2>2, LastBelow
<1>2. CASE a = start /\ B = {}
  BY <1>2 DEF Lands
<1>3. CASE B # {} /\ e \in B
  <2>1. Lands(memory, start * EntryBytes, g, a) =
          g[e] + (1 + (IF a # e + 1 THEN a - (e + 1) ELSE 0)) * EntryBytes
    BY <1>3, Zenon DEF Lands
  <2>2. e \in Int /\ e < a /\ g[e] = e * EntryBytes /\ a \in Int
    BY <1>3
  <2> HIDE DEF e
  <2>3. PICK c \in Int : c = e
    BY <2>2
  <2>4. c * 8 + (1 + (IF a # c + 1 THEN a - (c + 1) ELSE 0)) * 8 = a * 8
    BY <2>2, <2>3
  <2> QED
    BY <2>1, <2>2, <2>3, <2>4 DEF EntryBytes
<1> QED
  BY <1>1, <1>2, <1>3

(* That there is such a function, and that it takes every entry where it   *)
(* was built for.                                                          *)
LEMMA LandingsExist ==
  ASSUME NEW memory, DOMAIN memory \in SUBSET Int, NEW start \in Int, start \in DOMAIN memory,
         \A a \in DOMAIN memory : start <= a, NEW base, base = start * EntryBytes
  PROVE  \E g : Landings(memory, base, g)
<1> DEFINE g == [a \in DOMAIN memory |-> a * EntryBytes]
<1>1. \A b \in DOMAIN memory : g[b] = b * EntryBytes
  OBVIOUS
<1>2. g = [a \in DOMAIN memory |-> g[a]]
  OBVIOUS
<1> HIDE DEF g
<1>3. \A a \in DOMAIN memory : Lands(memory, base, g, a) = a * EntryBytes
  BY <1>1, LandsRight
<1>4. \A a \in DOMAIN memory : Lands(memory, base, g, a) = g[a]
  BY <1>1, <1>3
<1> QED
  BY <1>2, <1>4 DEF Landings

(* By the least address for which it did not.                              *)
LEMMA LandingsAreRight ==
  ASSUME NEW memory, DOMAIN memory \in SUBSET Int, NEW start \in Int, start \in DOMAIN memory,
         \A a \in DOMAIN memory : start <= a, NEW base, base = start * EntryBytes, NEW g, Landings(memory, base, g)
  PROVE  \A a \in DOMAIN memory : g[a] = a * EntryBytes
<1> DEFINE wrong == {a \in DOMAIN memory : g[a] # a * EntryBytes}
           M == {a - start : a \in wrong}
<1> SUFFICES ASSUME wrong # {} PROVE FALSE
  OBVIOUS
<1>1. M \in SUBSET Nat /\ M # {}
  OBVIOUS
<1>2. PICK n \in M : \A y \in M : n <= y
  BY <1>1, LeastNatural
<1>3. PICK a \in wrong : n = a - start
  OBVIOUS
<1>4. \A b \in DOMAIN memory : b < a => g[b] = b * EntryBytes
  <2> SUFFICES ASSUME NEW b \in wrong, b < a PROVE FALSE
    OBVIOUS
  <2>1. n <= b - start
    BY <1>2
  <2>2. a \in Int /\ b \in Int
    OBVIOUS
  <2> HIDE DEF wrong, M
  <2> QED
    BY <1>3, <2>1, <2>2
<1>5. g[a] = Lands(memory, base, g, a)
  BY DEF Landings
<1>6. a \in DOMAIN memory /\ g[a] # a * EntryBytes
  OBVIOUS
<1> HIDE DEF wrong
<1> QED
  BY <1>4, <1>5, <1>6, LandsRight

(* An image that starts where its tables do.                               *)
LEMMA ImageLands ==
  ASSUME NEW stage, DOMAIN page_tables[stage].memory \in SUBSET Int,
         NEW start \in Int, start \in DOMAIN page_tables[stage].memory,
         \A a \in DOMAIN page_tables[stage].memory : start <= a,
         SectionStart(TableSection(stage)) = start * EntryBytes
  PROVE  Image(stage) = {[address |-> a * EntryBytes, pte |-> page_tables[stage].memory[a]] :
                           a \in DOMAIN page_tables[stage].memory}
<1> DEFINE memory == page_tables[stage].memory
           base == SectionStart(TableSection(stage))
           g == CHOOSE g : g = [a \in DOMAIN memory |-> Lands(memory, base, g, a)]
<1>1. Image(stage) = {[address |-> g[a], pte |-> memory[a]] : a \in DOMAIN memory}
  BY Zenon DEF Image, Lands
<1>2. g = [a \in DOMAIN memory |-> Lands(memory, base, g, a)]
  <2>1. \E h : Landings(memory, base, h)
    BY LandingsExist
  <2>2. \E h : h = [a \in DOMAIN memory |-> Lands(memory, base, h, a)]
    BY <2>1, Zenon DEF Landings
  <2> QED
    BY <2>2, Zenon
<1>3. Landings(memory, base, g)
  BY <1>2, Zenon DEF Landings
<1> HIDE DEF g
<1>4. \A a \in DOMAIN memory : g[a] = a * EntryBytes
  BY <1>3, LandingsAreRight
<1> QED
  BY <1>1, <1>4


(* A multiple of a page is found again in what the register of a stage     *)
(* holds, which counts bytes.                                              *)
LEMMA PageNumber ==
  ASSUME NEW x \in Int, NEW r \in Nat \ {0}, NEW c \in {1, 4}, x % (c * r) = 0
  PROVE  ((x * 8) \div (r * 8)) * r = x
<1>1. c * r \in Nat \ {0}
  OBVIOUS
<1>2. PICK q \in Int : x = q * (c * r)
  <2>1. PICK p \in Nat \ {0} : p = c * r
    BY <1>1
  <2>2. x % p = 0
    BY <2>1
  <2>3. x = (x \div p) * p
    BY <2>2
  <2>4. PICK q \in Int : q = x \div p
    OBVIOUS
  <2> QED
    BY <2>1, <2>3, <2>4
<1>3. PICK k \in Int : x = k * r
  <2>1. q * (c * r) = (q * c) * r /\ q * c \in Int
    BY <1>2
  <2> QED
    BY <1>2, <2>1
<1>4. PICK b \in Nat \ {0} : b = r * 8
  OBVIOUS
<1>5. x * 8 = k * b
  BY <1>3, <1>4
<1>6. (k * b) \div b = k
  OBVIOUS
<1> QED
  BY <1>3, <1>4, <1>5, <1>6

(* What is put into the assembly file for a stage.                         *)
ImageOf(s, image, atp) ==
  /\ image = {[address |-> a * EntryBytes, pte |-> page_tables[s].memory[a]] :
                a \in DOMAIN page_tables[s].memory}
  /\ atp.ppn * SIZE_4K = page_tables[s].start
  /\ page_tables[s].start % PagetableSize(Mode(s), 0) = 0

(* When the assembly file is written, the tables of every stage are        *)
(* finished and linked where they are mapped.                              *)
LEMMA TablesEmitted ==
  ASSUME TablesInv, SectionsInv, NamesInv, RootsInv, DiagNamesNoTable, phase = "assembly",
         NEW s \in DOMAIN page_tables
  PROVE  s \in EnabledSet /\ ImageOf(s, Image(s), Atp(s))
<1> DEFINE t == page_tables[s]
<1>1. s \in EnabledSet /\ Mode(s) # "bare" /\ t.start \in Int /\ MapChecked
  BY DEF TablesInv, BegunInv, Begun, MapChecked
<1>2. Complete(t) /\ Rooted(t, s) /\ Located(t, s)
  <2>1. PICK i \in DOMAIN Enabled : s = Enabled[i]
    BY <1>1 DEF EnabledSet
  <2>2. i < stage_id
    <3>1. /\ i \in 1..Len(Enabled) /\ Len(Enabled) \in Nat /\ stage_id > Len(Enabled)
          /\ stage_id \in Nat
      BY EnabledFacts DEF RootsInv, TablesInv, LoopInv, LevelRight
    <3> QED
      BY <3>1
  <2> QED
    BY <1>1, <2>1, <2>2 DEF RootsInv
<1>3. /\ t.start \in DOMAIN t.memory /\ t.start % PagetableSize(Mode(s), 0) = 0
      /\ t.start = Dest(RegionOf(s))
  BY <1>2 DEF Complete, Rooted, Located
<1>4. SectionStart(TableSection(s)) = t.start * EntryBytes
  <2>1. Linked(sections)
    BY DEF SectionsInv
  <2> QED
    BY <1>1, <1>3, <2>1, TablesPlaced DEF TablesInv
<1>5. MemoryInside(t)
  BY DEF TablesInv, TileInv, Tiled
<1>6. Image(s) = {[address |-> a * EntryBytes, pte |-> t.memory[a]] : a \in DOMAIN t.memory}
  <2>1. DOMAIN t.memory \in SUBSET Int /\ \A a \in DOMAIN t.memory : t.start <= a
    BY <1>5 DEF MemoryInside
  <2> QED
    BY <1>1, <1>3, <1>4, <2>1, ImageLands
<1>7. Atp(s).ppn * SIZE_4K = t.start
  <2>1. PICK r \in Nat \ {0} : r = SIZE_4K
    BY WidthsAssumption, PowersAssumption DEF SIZE_4K
  <2>2. PICK c \in {1, 4} : PagetableSize(Mode(s), 0) = c * r
    BY <2>1 DEF PagetableSize
  <2>3. Atp(s).ppn = SectionStart(TableSection(s)) \div (SIZE_4K * EntryBytes)
    BY DEF Atp
  <2>4. PICK x \in Int : x = t.start
    BY <1>1
  <2>5. ((x * 8) \div (r * 8)) * r = x
    BY <1>3, <2>2, <2>4, PageNumber
  <2>6. Atp(s).ppn = (x * 8) \div (r * 8)
    BY <1>4, <2>1, <2>3, <2>4 DEF EntryBytes
  <2> QED
    BY <2>1, <2>4, <2>5, <2>6
<1> HIDE DEF t
<1> QED
  BY <1>1, <1>3, <1>6, <1>7 DEF ImageOf, t

EmittedInv == phase = "done" /\ DiagNamesNoTable => ImageMatches

(* The property in these terms.                                            *)
LEMMA ImageMatchesMeans ==
  ImageMatches <=>
    (phase = "done" =>
       \A s \in DOMAIN page_tables : ImageOf(s, assembly.images[s], assembly.atp[s]))
BY Zenon DEF ImageMatches, ImageOf

(* They are emitted once, and nothing is changed after that.               *)
LEMMA EmittedStep ==
  ASSUME TablesInv, SectionsInv, NamesInv, RootsInv, EmittedInv, [Next]_vars
  PROVE  EmittedInv'
<1> SUFFICES ASSUME phase' = "done", DiagNamesNoTable' PROVE ImageMatches'
  BY DEF EmittedInv
<1>1. CASE GenerateAssembly /\ UNCHANGED <<tableVars, sections>>
  <2>1. /\ phase = "assembly" /\ UNCHANGED <<page_tables, diag_attributes>>
        /\ assembly'.images = [s \in DOMAIN page_tables |-> Image(s)]
        /\ assembly'.atp = [s \in EnabledSet |-> Atp(s)]
    BY <1>1 DEF GenerateAssembly, Reject, Advance, tableVars
  <2>2. DiagNamesNoTable
    BY <2>1 DEF DiagNamesNoTable, DiagWork
  <2>3. \A s : Mode(s)' = Mode(s)
    BY <2>1 DEF Mode
  <2>4. \A s \in DOMAIN page_tables : ImageOf(s, assembly'.images[s], assembly'.atp[s])
    BY <2>1, <2>2, TablesEmitted
  <2>5. ImageMatches' <=>
          (\A s \in DOMAIN page_tables' : LET memory == page_tables'[s].memory IN
             /\ assembly'.images[s] =
                  {[address |-> a * EntryBytes, pte |-> memory[a]] : a \in DOMAIN memory}
             /\ assembly'.atp[s].ppn * SIZE_4K = page_tables'[s].start
             /\ page_tables'[s].start % PagetableSize(Mode(s)', 0) = 0)
    BY Zenon DEF ImageMatches
  <2> QED
    BY <2>1, <2>3, <2>4, <2>5 DEF ImageOf
<1>2. CASE UNCHANGED vars
  <2>1. phase = "done" /\ UNCHANGED <<page_tables, assembly, diag_attributes>>
    BY <1>2 DEF vars, mapVars, tableVars
  <2>2. DiagNamesNoTable
    BY <2>1 DEF DiagNamesNoTable, DiagWork
  <2>3. ImageMatches
    BY <2>1, <2>2 DEF EmittedInv
  <2> QED
    BY <1>2, <2>1, <2>3 DEF ImageMatches, Mode
<1>3. CASE MapNext \/ TablesNext \/ SectionsNext
  BY <1>3 DEF MapNext, ProcessDiagAttributes, AddJumpstartSection, AddPagetableMappings,
              AddDiagMapping, CheckMemoryMap, TablesNext, SkipBareStage, BeginStage, WriteEntry,
              FinishStage, FinishTables, RejectTables, SectionsNext, CollectSection,
              FinishLinkerScript, RejectSections, Reject, Advance, StageLeft, mapVars
<1> QED
  BY <1>1, <1>2, <1>3 DEF Next

(* The page tables of every stage are assembled to the addresses their     *)
(* entries were built for, in the alignment of its mode, and its register  *)
(* holds the page of the root (generate_page_tables,                       *)
(* generate_diag_sources.py:960) - if no mapping of the diag is named like *)
(* page tables, which nothing in the generator checks.                     *)
THEOREM ImagesMatch == Spec => [](DiagNamesNoTable => ImageMatches)
<1> DEFINE Inv == SectionsInv /\ NamesInv /\ RootsInv /\ EmittedInv
<1>1. Init => Inv
  <2>1. DOMAIN <<>> = {}
    OBVIOUS
  <2> QED
    BY <2>1 DEF Init, MapInit, TablesInit, SectionsInit, SectionsInv, SectionsSound, NamesInv,
                RootsInv, EmittedInv, MapChecked
<1>2. TablesInv /\ Inv /\ [Next]_vars => Inv'
  <2> SUFFICES ASSUME TablesInv, Inv, [Next]_vars PROVE Inv'
    OBVIOUS
  <2>1. SectionsInv'
    BY SectionsInvStep
  <2>2. NamesInv'
    BY NamesStep DEF TablesInv, TileInv
  <2>3. RootsInv'
    BY RootsStep DEF TablesInv
  <2>4. EmittedInv'
    BY EmittedStep
  <2> QED
    BY <2>1, <2>2, <2>3, <2>4
<1>3. Inv => (DiagNamesNoTable => ImageMatches)
  BY DEF EmittedInv, ImageMatches
<1> QED
  BY <1>1, <1>2, <1>3, TablesInvHolds, PTL DEF Spec

----------------------------------------------------------------------------
(* What the loop over the pages leaves                                     *)

(* What the loop leaves of the pages, as it goes.                          *)
LEMMA WithTableRight ==
  ASSUME NEW t, TableShape(t), NEW mode \in DOMAIN Levels, NEW level \in 0..LastLevel(mode),
         NEW va \in Int, PagesRight(t, mode), HasRoot(t) \/ level = 0
  PROVE  PagesRight(WithTable(t, mode, va, level), mode)
<1> DEFINE size == PagetableSize(mode, level)
           range == TableRange(mode, level)
           base == TableBase(mode, va, level)
           page == [pa |-> t.start + CurrentSize(t), size |-> size, va |-> base, level |-> level]
           u == WithTable(t, mode, va, level)
<1>1. CASE Tables(t, mode, va, level) # {}
  BY <1>1 DEF WithTable
<1>2. CASE Tables(t, mode, va, level) = {}
  <2>1. u = [t EXCEPT !.pages = Append(@, page)]
    BY <1>2 DEF WithTable, TableBase
  <2>2. \E k \in Int : base = k * range
    <3>1. range \in Nat \ {0} /\ MaskVa(mode, va) \in Int
      <4>1. level \in 0..Levels[mode] - 1
        BY DEF LastLevel
      <4> QED
        BY <4>1, VpnFacts
    <3>2. MaskVa(mode, va) \div range \in Int
      BY <3>1, DivFloor
    <3> QED
      BY <3>2 DEF TableBase
  <2>3. ~HasRoot(t) => base = 0
    BY RootBase DEF TableBase
  <2>4. page.size = size /\ page.va = base /\ page.level = level
    OBVIOUS
  <2> HIDE DEF size, range, base, page, u
  <2>5. PICK S : t.pages \in Seq(S)
    BY DEF TableShape
  <2> DEFINE n == Len(t.pages)
  <2>6. /\ n \in Nat /\ DOMAIN t.pages = 1..n
        /\ DOMAIN u.pages = 1..n + 1
        /\ \A i \in 1..n : u.pages[i] = t.pages[i]
        /\ u.pages[n + 1] = page
    <3>1. u = [start |-> t.start, entries |-> t.entries, pages |-> Append(t.pages, page),
               memory |-> t.memory]
      BY <2>1 DEF TableShape
    <3> QED
      BY <2>5, <3>1, AppendFacts
  <2> HIDE DEF n
  <2>7. \A i \in 1..n + 1 : i \in 1..n \/ i = n + 1
    BY <2>6
  <2>8. ASSUME NEW i \in 1..n
        PROVE  ~(t.pages[i].level = level /\ t.pages[i].va = base)
    BY <1>2, <2>6, TableFacts DEF base
  <2>9. ASSUME NEW i \in DOMAIN u.pages
        PROVE  /\ u.pages[i].level \in 0..LastLevel(mode)
               /\ u.pages[i].size = PagetableSize(mode, u.pages[i].level)
               /\ \E k \in Int : u.pages[i].va = k * TableRange(mode, u.pages[i].level)
    <3>1. CASE i \in 1..n
      BY <2>6, <3>1 DEF PagesRight
    <3>2. CASE i = n + 1
      BY <2>2, <2>4, <2>6, <3>2 DEF size, range
    <3> QED
      BY <2>6, <2>7, <3>1, <3>2
  <2>10. ASSUME NEW i \in DOMAIN u.pages, NEW j \in DOMAIN u.pages,
                u.pages[i].level = u.pages[j].level, u.pages[i].va = u.pages[j].va
         PROVE  i = j
    <3>1. CASE i \in 1..n /\ j \in 1..n
      BY <2>6, <2>10, <3>1 DEF PagesRight
    <3>2. CASE i = n + 1 /\ j \in 1..n
      BY <2>4, <2>6, <2>8, <2>10, <3>2
    <3>3. CASE j = n + 1 /\ i \in 1..n
      BY <2>4, <2>6, <2>8, <2>10, <3>3
    <3> QED
      BY <2>6, <2>7, <3>1, <3>2, <3>3
  <2>11. u.pages[1].level = 0 /\ u.pages[1].va = 0
    <3>1. CASE HasRoot(t)
      BY <2>6, <3>1 DEF HasRoot, PagesRight
    <3>2. CASE ~HasRoot(t)
      <4>1. n = 0
        BY <2>6, <3>2 DEF HasRoot
      <4> QED
        BY <2>3, <2>4, <2>6, <3>2, <4>1
    <3> QED
      BY <3>1, <3>2
  <2>12. PagesRight(u, mode)
    BY <2>9, <2>10, <2>11 DEF PagesRight
  <2> QED
    BY <2>12 DEF u
<1> QED
  BY <1>1, <1>2

LEMMA AllocatedRight ==
  ASSUME NEW t, TableShape(t), t.start \in Int, PagesTile(t), PagesFit(t),
         NEW mode \in DOMAIN Levels, NEW e, e.src \in Int, SizeSupported(mode, e),
         NEW level \in 0..LeafLevel(mode, e), Allocatable(t, mode, e, level),
         PagesRight(t, mode), HasRoot(t) \/ level = 0
  PROVE  PagesRight(Allocated(t, mode, e, level), mode)
<1> DEFINE here == WithTable(t, mode, e.src, level)
           next == WithTable(here, mode, e.src, level + 1)
<1>1. LeafLevel(mode, e) \in 0..LastLevel(mode) /\ LastLevel(mode) \in 2..3
  BY LeafLevelFacts, PowerFacts DEF LastLevel
<1>2. level \in 0..LastLevel(mode)
  BY <1>1
<1>3. PagesRight(here, mode) /\ TableShape(here)
  BY <1>2, WithTableRight, WithTableGrows
<1>4. HasRoot(here)
  <2>1. level \in 0..Levels[mode] - 1 /\ RoomFor(t, mode, e.src, level)
    BY <1>2 DEF LastLevel, Allocatable
  <2>2. Tables(here, mode, e.src, level) # {}
    BY <2>1, WithTableTiles
  <2> HIDE DEF here
  <2> QED
    BY <1>3, <2>2 DEF Tables, HasRoot, TableShape
<1>5. CASE level < LeafLevel(mode, e)
  <2>1. level + 1 \in 0..LastLevel(mode)
    BY <1>1, <1>5
  <2> HIDE DEF here
  <2>2. PagesRight(next, mode)
    BY <1>3, <1>4, <2>1, WithTableRight
  <2> QED
    BY <1>5, <2>2 DEF Allocated, here
<1>6. CASE ~(level < LeafLevel(mode, e))
  BY <1>3, <1>6 DEF Allocated
<1> QED
  BY <1>5, <1>6

(* Every entry is there for a page and a level of its walk.                *)
Accounted(t, mode) ==
  \A a \in DOMAIN t.memory :
    \/ t.memory[a] = ZeroPte(mode)
    \/ \E n \in DOMAIN t.entries : \E l \in 0..LeafLevel(mode, t.entries[n]) :
         /\ SizeSupported(mode, t.entries[n]) /\ Tables(t, mode, t.entries[n].src, l) # {}
         /\ a = PteAddress(t, mode, t.entries[n].src, l)
(* Up to a page and a level all entries are written.                       *)
Held(t, mode, n, level) ==
  \A i \in DOMAIN t.entries : i < n \/ (i = n /\ level # 0) =>
    /\ SizeSupported(mode, t.entries[i])
    /\ \A l \in 0..LeafLevel(mode, t.entries[i]) :
         i < n \/ l < level => Written(t, mode, t.entries[i], l)

LEMMA PlaceStays ==
  ASSUME NEW mode \in DOMAIN Levels, NEW e, e.src \in Int, SizeSupported(mode, e),
         NEW level \in 0..LeafLevel(mode, e),
         NEW t, PagesRight(t, mode), NEW u, PagesRight(u, mode), Grows(t, u),
         Tables(t, mode, e.src, level) # {}
  PROVE  /\ Tables(u, mode, e.src, level) # {}
         /\ PteAddress(u, mode, e.src, level) = PteAddress(t, mode, e.src, level)
<1>1. LeafLevel(mode, e) \in 0..LastLevel(mode) /\ LastLevel(mode) \in 2..3
  BY LeafLevelFacts, PowerFacts DEF LastLevel
<1>2. level \in 0..LastLevel(mode)
  BY <1>1
<1> QED
  BY <1>2, TableStays DEF PteAddress

(* What is there for a reason still is when more is.                       *)
LEMMA AccountedFurther ==
  ASSUME NEW mode \in DOMAIN Levels, NEW t, Begun(t), PagesRight(t, mode), Accounted(t, mode),
         NEW u, PagesRight(u, mode), Grows(t, u), NEW a \in DOMAIN t.memory
  PROVE  \/ u.memory[a] = ZeroPte(mode)
         \/ \E n \in DOMAIN u.entries : \E l \in 0..LeafLevel(mode, u.entries[n]) :
              /\ SizeSupported(mode, u.entries[n]) /\ Tables(u, mode, u.entries[n].src, l) # {}
              /\ a = PteAddress(u, mode, u.entries[n].src, l)
<1>1. u.memory[a] = t.memory[a] /\ u.entries = t.entries
  BY DEF Grows
<1>2. CASE t.memory[a] = ZeroPte(mode)
  BY <1>1, <1>2
<1>3. CASE t.memory[a] # ZeroPte(mode)
  <2>1. PICK n \in DOMAIN t.entries : \E l \in 0..LeafLevel(mode, t.entries[n]) :
              /\ SizeSupported(mode, t.entries[n]) /\ Tables(t, mode, t.entries[n].src, l) # {}
              /\ a = PteAddress(t, mode, t.entries[n].src, l)
    BY <1>3 DEF Accounted
  <2>2. PICK e : e = t.entries[n]
    OBVIOUS
  <2>3. PICK l \in 0..LeafLevel(mode, e) :
              /\ SizeSupported(mode, e) /\ Tables(t, mode, e.src, l) # {}
              /\ a = PteAddress(t, mode, e.src, l)
    BY <2>1, <2>2
  <2>4. e.src \in Int
    <3>1. e \in Page
      BY <2>2 DEF Begun
    <3> QED
      BY <3>1 DEF Page
  <2>5. Tables(u, mode, e.src, l) # {} /\ PteAddress(u, mode, e.src, l) = a
    BY <2>3, <2>4, PlaceStays
  <2> QED
    BY <1>1, <2>2, <2>3, <2>5
<1> QED
  BY <1>2, <1>3

LEMMA HeldFurther ==
  ASSUME NEW mode \in DOMAIN Levels, NEW t, Begun(t), PagesRight(t, mode),
         NEW u, PagesRight(u, mode), Grows(t, u), NEW n, NEW level, Held(t, mode, n, level)
  PROVE  Held(u, mode, n, level)
<1>1. u.entries = t.entries
  BY DEF Grows
<1>2. SUFFICES ASSUME NEW i \in DOMAIN t.entries, i < n \/ (i = n /\ level # 0)
               PROVE  /\ SizeSupported(mode, t.entries[i])
                      /\ \A l \in 0..LeafLevel(mode, t.entries[i]) :
                           i < n \/ l < level => Written(u, mode, t.entries[i], l)
  BY <1>1 DEF Held
<1>3. PICK e : e = t.entries[i]
  OBVIOUS
<1>4. /\ SizeSupported(mode, e)
      /\ \A l \in 0..LeafLevel(mode, e) : i < n \/ l < level => Written(t, mode, e, l)
  BY <1>2, <1>3 DEF Held
<1>5. e.src \in Int
  <2>1. e \in Page
    BY <1>3 DEF Begun
  <2> QED
    BY <2>1 DEF Page
<1>6. \A l \in 0..LeafLevel(mode, e) : Written(t, mode, e, l) => Written(u, mode, e, l)
  BY <1>4, <1>5, WrittenStays
<1> QED
  BY <1>3, <1>4, <1>6

(* One turn of the loop.                                                   *)
LEMMA TurnHolds ==
  ASSUME NEW t, TableShape(t), Begun(t), PagesTile(t), PagesFit(t),
         NEW mode \in DOMAIN Levels, NEW n \in DOMAIN t.entries, SizeSupported(mode, t.entries[n]),
         NEW level \in 0..LeafLevel(mode, t.entries[n]), Allocatable(t, mode, t.entries[n], level),
         PagesRight(t, mode), HasRoot(t) \/ level = 0, Accounted(t, mode), Held(t, mode, n, level),
         NEW u, u = Allocated(t, mode, t.entries[n], level), InRange(u, mode, t.entries[n], level),
         NEW address, address = PteAddress(u, mode, t.entries[n].src, level),
         NEW pte, pte = EntryFor(u, mode, t.entries[n], level), MayWrite(u, address, pte)
  PROVE  LET v == Write(u, address, pte) IN
         /\ PagesRight(v, mode) /\ Accounted(v, mode)
         /\ IF level < LeafLevel(mode, t.entries[n]) THEN Held(v, mode, n, level + 1)
            ELSE Held(v, mode, n + 1, 0)
<1> DEFINE e == t.entries[n]
           leaf == LeafLevel(mode, e)
           v == Write(u, address, pte)
<1>1. e.src \in Int /\ t.start \in Int /\ n \in Nat
  <2>1. e \in Page /\ n \in Nat
    BY DEF Begun
  <2> QED
    BY <2>1 DEF Page, Begun
<1>2. leaf \in 0..LastLevel(mode) /\ LastLevel(mode) \in 2..3
  BY LeafLevelFacts, PowerFacts DEF LastLevel
<1>3. level \in Nat /\ level <= leaf
  BY <1>2
<1> HIDE DEF leaf
<1>4. PagesRight(u, mode)
  <2>1. PagesRight(Allocated(t, mode, e, level), mode)
    BY <1>1, AllocatedRight
  <2> QED
    BY <2>1
<1>5. /\ TableShape(u) /\ Grows(t, u) /\ u.memory = t.memory
      /\ Tables(u, mode, e.src, level) # {}
      /\ level < leaf => Tables(u, mode, e.src, level + 1) # {}
  <2>1. /\ TableShape(Allocated(t, mode, e, level)) /\ Grows(t, Allocated(t, mode, e, level))
        /\ Tables(Allocated(t, mode, e, level), mode, e.src, level) # {}
        /\ level < leaf => Tables(Allocated(t, mode, e, level), mode, e.src, level + 1) # {}
    BY <1>1, AllocatedTiles DEF leaf
  <2>2. Allocated(t, mode, e, level).memory = t.memory
    BY AllocatedGrows
  <2> QED
    BY <2>1, <2>2
<1>6. /\ TableShape(v) /\ Grows(u, v)
  BY <1>5, WriteGrows
<1>7. /\ v.pages = u.pages /\ v.entries = t.entries
      /\ DOMAIN v.memory = DOMAIN t.memory \cup {address} /\ v.memory[address] = pte
  <2>1. u.entries = t.entries
    BY <1>5 DEF Grows
  <2> DEFINE m == [a \in DOMAIN u.memory \cup {address} |-> IF a = address THEN pte ELSE u.memory[a]]
  <2>2. DOMAIN m = DOMAIN u.memory \cup {address} /\ m[address] = pte
    OBVIOUS
  <2>3. v = [u EXCEPT !.memory = m]
    BY Zenon DEF Write
  <2> HIDE DEF m, v
  <2>4. v = [start |-> u.start, entries |-> u.entries, pages |-> u.pages, memory |-> m]
    BY <1>5, <2>3 DEF TableShape
  <2>5. v.pages = u.pages /\ v.entries = u.entries /\ v.memory = m
    BY <2>4
  <2>6. u.memory = t.memory
    BY <1>5
  <2>7. DOMAIN v.memory = DOMAIN t.memory \cup {address} /\ v.memory[address] = pte
    BY <2>2, <2>5, <2>6
  <2> QED
    BY <2>1, <2>5, <2>7
<1>9. Grows(t, v)
  BY <1>5, <1>6, GrowsFurther
<1> HIDE DEF e, v
<1>8. PagesRight(v, mode)
  <2>1. v.pages = u.pages
    BY <1>7
  <2> QED
    BY <1>4, <2>1, Zenon DEF PagesRight
<1>10. \A l : /\ Tables(v, mode, e.src, l) = Tables(u, mode, e.src, l)
              /\ Table(v, mode, e.src, l) = Table(u, mode, e.src, l)
  BY <1>7 DEF Tables, Table
<1>11. PteAddress(v, mode, e.src, level) = address
  BY <1>10 DEF PteAddress, e
<1>12. EntryFor(v, mode, e, level) = pte
  <2>1. PointerAddress(v, mode, e.src, level) = PointerAddress(u, mode, e.src, level)
    BY <1>10 DEF PointerAddress
  <2> QED
    BY <2>1 DEF EntryFor, e
<1>13. Written(v, mode, e, level)
  <2>1. InRange(v, mode, e, level)
    <3>1. InRange(u, mode, e, level)
      BY DEF e
    <3> QED
      BY <1>10, <3>1, Zenon DEF InRange, PteAddress, PointerAddress
  <2> QED
    BY <1>5, <1>7, <1>10, <1>11, <1>12, <2>1 DEF Written, leaf
<1>14. Accounted(v, mode)
  <2> SUFFICES ASSUME NEW a \in DOMAIN v.memory
      PROVE  \/ v.memory[a] = ZeroPte(mode)
             \/ \E i \in DOMAIN v.entries : \E l \in 0..LeafLevel(mode, v.entries[i]) :
                  /\ SizeSupported(mode, v.entries[i]) /\ Tables(v, mode, v.entries[i].src, l) # {}
                  /\ a = PteAddress(v, mode, v.entries[i].src, l)
    BY DEF Accounted
  <2>1. CASE a \in DOMAIN t.memory
    BY <1>8, <1>9, <2>1, AccountedFurther
  <2>2. CASE a = address
    BY <1>5, <1>7, <1>10, <1>11, <2>2 DEF e
  <2> QED
    BY <1>7, <2>1, <2>2
<1>15. Held(v, mode, n, level)
  BY <1>8, <1>9, HeldFurther
<1>16. ASSUME level < leaf PROVE Held(v, mode, n, level + 1)
  <2> SUFFICES ASSUME NEW i \in DOMAIN v.entries, i < n \/ i = n
               PROVE  /\ SizeSupported(mode, v.entries[i])
                      /\ \A l \in 0..LeafLevel(mode, v.entries[i]) :
                           i < n \/ l < level + 1 => Written(v, mode, v.entries[i], l)
    BY DEF Held
  <2>1. CASE i < n
    BY <1>15, <2>1 DEF Held
  <2>2. CASE i = n /\ ~(i < n)
    <3>1. v.entries[i] = e /\ SizeSupported(mode, e)
      BY <1>7, <2>2 DEF e
    <3>2. ASSUME NEW l \in 0..leaf, l < level + 1 PROVE Written(v, mode, e, l)
      <4>1. CASE l = level
        BY <1>13, <4>1
      <4>2. CASE l # level
        <5>1. l < level /\ level # 0 /\ l \in 0..LeafLevel(mode, e)
          BY <1>3, <3>2, <4>2 DEF leaf
        <5> QED
          BY <1>15, <2>2, <3>1, <5>1 DEF Held
      <4> QED
        BY <4>1, <4>2
    <3> QED
      BY <2>2, <3>1, <3>2 DEF leaf
  <2> QED
    BY <2>1, <2>2
<1>17. ASSUME ~(level < leaf) PROVE Held(v, mode, n + 1, 0)
  <2> SUFFICES ASSUME NEW i \in DOMAIN v.entries, i < n + 1
               PROVE  /\ SizeSupported(mode, v.entries[i])
                      /\ \A l \in 0..LeafLevel(mode, v.entries[i]) : Written(v, mode, v.entries[i], l)
    BY DEF Held
  <2>1. i < n \/ i = n
    <3>1. i \in Nat
      BY <1>7 DEF Begun
    <3> QED
      BY <1>1, <3>1
  <2>2. CASE i < n
    BY <1>15, <2>2 DEF Held
  <2>3. CASE i = n /\ ~(i < n)
    <3>1. v.entries[i] = e /\ SizeSupported(mode, e) /\ level = leaf
      BY <1>2, <1>3, <1>7, <1>17, <2>3 DEF e
    <3>2. ASSUME NEW l \in 0..leaf PROVE Written(v, mode, e, l)
      <4>1. CASE l = level
        BY <1>13, <4>1
      <4>2. CASE l # level
        <5>1. l < level /\ level # 0 /\ l \in 0..LeafLevel(mode, e)
          BY <1>3, <3>1, <3>2, <4>2 DEF leaf
        <5> QED
          BY <1>15, <2>3, <3>1, <5>1 DEF Held
      <4> QED
        BY <4>1, <4>2
    <3> QED
      BY <2>3, <3>1, <3>2 DEF leaf
  <2> QED
    BY <2>1, <2>2, <2>3
<1> QED
  BY <1>8, <1>14, <1>16, <1>17 DEF v, leaf, e

(* What holds of all tables as they are built.                             *)
Right(T) == \A s \in DOMAIN T : PagesRight(T[s], Mode(s)) /\ Accounted(T[s], Mode(s))
FromMap(T) == \A s \in DOMAIN T : T[s].entries = Entries(s)
HeldBelow(T, n) ==
  \A i \in DOMAIN Enabled : i < n /\ Enabled[i] \in DOMAIN T =>
    Held(T[Enabled[i]], Mode(Enabled[i]), Len(T[Enabled[i]].entries) + 1, 0)
Underway(T) ==
  IF Building \in DOMAIN T THEN Held(T[Building], Mode(Building), at, current_level) ELSE at = 1
WalkInv ==
  /\ Right(page_tables)
  /\ MapChecked => FromMap(page_tables) /\ HeldBelow(page_tables, stage_id)
  /\ StageLeft => Underway(page_tables)

(* What has to be shown of a step that builds tables.                      *)
LEMMA WalkFrom ==
  ASSUME UNCHANGED <<diag_attributes, memory_map>>,
         Right(page_tables'), FromMap(page_tables'), HeldBelow(page_tables', stage_id'),
         NEW b, b = Building', NEW n, n = at', NEW level, level = current_level',
         StageLeft' => IF b \in DOMAIN page_tables' THEN Held(page_tables'[b], Mode(b), n, level)
                       ELSE n = 1
  PROVE  WalkInv'
<1>1. Enabled' = Enabled /\ \A s : Mode(s)' = Mode(s)
  BY DEF Enabled, Mode
<1>2. \A s : Entries(s)' = Entries(s)
  BY DEF Entries
<1>3. Right(page_tables)'
  BY <1>1 DEF Right
<1>4. FromMap(page_tables)'
  BY <1>2 DEF FromMap
<1>5. HeldBelow(page_tables, stage_id)'
  BY <1>1 DEF HeldBelow
<1>6. StageLeft' => Underway(page_tables)'
  BY <1>1 DEF Underway
<1> QED
  BY <1>3, <1>4, <1>5, <1>6 DEF WalkInv

(* No page has been written before the first.                              *)
LEMMA NothingHeld ==
  ASSUME NEW t, NEW mode, Begun(t)
  PROVE  Held(t, mode, 1, 0)
<1>1. DOMAIN t.entries \in SUBSET (Nat \ {0})
  BY DEF Begun
<1> QED
  BY <1>1 DEF Held

(* Every step of the loop.                                                 *)
LEMMA WriteWalk ==
  ASSUME LoopInv, BegunInv, TileInv, RootsInv, WalkInv, WriteEntry, phase' # "rejected"
  PROVE  /\ PagesRight(page_tables'[Building], Mode(Building))
         /\ Accounted(page_tables'[Building], Mode(Building))
         /\ Held(page_tables'[Building], Mode(Building), at', current_level')
         /\ page_tables'[Building].entries = page_tables[Building].entries
<1> DEFINE mode == Mode(Building)
           old == page_tables[Building]
           e == Entry
           u == Allocated(old, mode, e, current_level)
           address == PteAddress(u, mode, e.src, current_level)
           pte == EntryFor(u, mode, e, current_level)
           v == Write(u, address, pte)
<1> USE DEF LoopInv
<1>1. /\ StageLeft /\ Building \in DOMAIN page_tables /\ EntriesLeft
      /\ EntryAllowed(old, mode, e)
  BY WriteTaken
<1>2. /\ mode \in DOMAIN Levels /\ SizeSupported(mode, e)
      /\ Allocatable(old, mode, e, current_level)
      /\ InRange(u, mode, e, current_level) /\ MayWrite(u, address, pte)
  BY <1>1 DEF ModesKnown, EntryAllowed
<1>3. /\ page_tables' = [page_tables EXCEPT ![Building] = v]
      /\ IF current_level < LeafLevel(mode, e)
         THEN current_level' = current_level + 1 /\ at' = at
         ELSE current_level' = 0 /\ at' = at + 1
  BY DEF WriteEntry, RejectTables, Reject, Entry
<1>4. LeafLevel(mode, e) \in 0..Levels[mode] - 1 /\ Levels[mode] \in {3, 4}
  BY <1>2, LeafLevelFacts
<1>5. current_level \in 0..LeafLevel(mode, e)
  <2>1. current_level \in Nat
    BY DEF LevelRight
  <2>2. current_level # 0 => current_level <= LeafLevel(mode, e)
    BY <1>1 DEF LevelRight, StageLeft
  <2>3. LeafLevel(mode, e) \in Nat
    BY <1>4
  <2> HIDE DEF mode, e
  <2> QED
    BY <2>1, <2>2, <2>3
<1>6. Begun(old) /\ at \in DOMAIN old.entries /\ e = old.entries[at]
  <2>1. old.entries \in Seq(Page) /\ Begun(old)
    BY <1>1 DEF BegunInv, Begun
  <2>2. at \in 1..Len(old.entries)
    BY <1>1, <2>1 DEF EntriesLeft, TileInv
  <2> QED
    BY <2>1, <2>2 DEF Entry
<1>7. /\ PagesTile(old) /\ PagesFit(old) /\ TableShape(old)
      /\ HasRoot(old) \/ current_level = 0
      /\ PagesRight(old, mode) /\ Accounted(old, mode) /\ Held(old, mode, at, current_level)
  BY <1>1 DEF TileInv, Tiled, Shape, RootsInv, StageLeft, WalkInv, Right, Underway
<1>8. page_tables'[Building] = v
  BY <1>1, <1>3
<1>9. v.entries = old.entries
  <2>1. TableShape(u) /\ Grows(old, u)
    BY <1>7, AllocatedGrows
  <2>2. Grows(u, v)
    BY <1>2, <2>1, WriteGrows
  <2> QED
    BY <2>1, <2>2 DEF Grows
<1> HIDE DEF old, mode
<1>10. SizeSupported(mode, old.entries[at]) /\ current_level \in 0..LeafLevel(mode, old.entries[at])
       /\ Allocatable(old, mode, old.entries[at], current_level)
       /\ u = Allocated(old, mode, old.entries[at], current_level)
       /\ InRange(u, mode, old.entries[at], current_level)
       /\ address = PteAddress(u, mode, old.entries[at].src, current_level)
       /\ pte = EntryFor(u, mode, old.entries[at], current_level)
  BY <1>2, <1>5, <1>6
<1> HIDE DEF u, address, pte
<1>11. /\ PagesRight(v, mode) /\ Accounted(v, mode)
       /\ IF current_level < LeafLevel(mode, e) THEN Held(v, mode, at, current_level + 1)
          ELSE Held(v, mode, at + 1, 0)
  <2> HIDE DEF e
  <2>1. LET w == Write(u, address, pte) IN
         /\ PagesRight(w, mode) /\ Accounted(w, mode)
         /\ IF current_level < LeafLevel(mode, old.entries[at]) THEN Held(w, mode, at, current_level + 1)
            ELSE Held(w, mode, at + 1, 0)
    BY <1>2, <1>6, <1>7, <1>10, TurnHolds
  <2> QED
    BY <1>6, <2>1
<1> HIDE DEF v, e
<1>12. Held(v, mode, at', current_level')
  BY <1>3, <1>11
<1> QED
  BY <1>8, <1>9, <1>11, <1>12 DEF mode, old

LEMMA FinishWalk ==
  ASSUME LoopInv, BegunInv, TileInv, WalkInv, FinishStage, phase' # "rejected"
  PROVE  /\ PagesRight(page_tables'[Building], Mode(Building))
         /\ Accounted(page_tables'[Building], Mode(Building))
         /\ Held(page_tables'[Building], Mode(Building), Len(page_tables'[Building].entries) + 1, 0)
         /\ page_tables'[Building].entries = page_tables[Building].entries
<1> DEFINE mode == Mode(Building)
           t == page_tables[Building]
           v == WithBounds(t, mode)
<1> USE DEF LoopInv
<1>1. /\ StageLeft /\ Building \in DOMAIN page_tables /\ ~EntriesLeft
      /\ page_tables' = [page_tables EXCEPT ![Building] = v]
  BY DEF FinishStage, RejectTables, Reject
<1>2. /\ TableShape(t) /\ Begun(t) /\ mode \in DOMAIN Levels
      /\ PagesRight(t, mode) /\ Accounted(t, mode) /\ Held(t, mode, at, current_level)
  BY <1>1 DEF Shape, BegunInv, ModesKnown, WalkInv, Right, Underway
<1>3. page_tables'[Building] = v
  BY <1>1
<1>4. current_level = 0
  BY <1>1 DEF LevelRight, StageLeft
<1>5. Len(t.entries) + 1 <= at /\ DOMAIN t.entries = 1..Len(t.entries) /\ Len(t.entries) \in Nat
      /\ at \in Nat
  BY <1>1, <1>2 DEF EntriesLeft, Begun, TileInv
<1> HIDE DEF t, mode
<1>6. Grows(t, v)
  BY <1>2, WithBoundsGrows
<1>7. /\ v.pages = t.pages /\ v.entries = t.entries /\ DOMAIN v.memory = DOMAIN t.memory \cup Bounds(t)
      /\ \A a \in DOMAIN v.memory : a \notin DOMAIN t.memory => v.memory[a] = ZeroPte(mode)
  <2> DEFINE m == [a \in DOMAIN t.memory \cup Bounds(t) |->
                    IF a \in DOMAIN t.memory THEN t.memory[a] ELSE ZeroPte(mode)]
  <2>1. /\ DOMAIN m = DOMAIN t.memory \cup Bounds(t)
        /\ \A a \in DOMAIN m : a \notin DOMAIN t.memory => m[a] = ZeroPte(mode)
    OBVIOUS
  <2>2. v = [t EXCEPT !.memory = m]
    BY Zenon DEF WithBounds
  <2> HIDE DEF m, v
  <2>3. v = [start |-> t.start, entries |-> t.entries, pages |-> t.pages, memory |-> m]
    BY <1>2, <2>2 DEF TableShape
  <2> QED
    BY <2>1, <2>3
<1> HIDE DEF v
<1>8. PagesRight(v, mode)
  <2>1. v.pages = t.pages
    BY <1>7
  <2> QED
    BY <1>2, <2>1, Zenon DEF PagesRight
<1>9. Accounted(v, mode)
  <2> SUFFICES ASSUME NEW a \in DOMAIN v.memory
      PROVE  \/ v.memory[a] = ZeroPte(mode)
             \/ \E i \in DOMAIN v.entries : \E l \in 0..LeafLevel(mode, v.entries[i]) :
                  /\ SizeSupported(mode, v.entries[i]) /\ Tables(v, mode, v.entries[i].src, l) # {}
                  /\ a = PteAddress(v, mode, v.entries[i].src, l)
    BY DEF Accounted
  <2>1. CASE a \in DOMAIN t.memory
    BY <1>2, <1>6, <1>8, <2>1, AccountedFurther
  <2>2. CASE a \notin DOMAIN t.memory
    BY <1>7, <2>2
  <2> QED
    BY <2>1, <2>2
<1>10. Held(v, mode, at, 0)
  BY <1>2, <1>4, <1>6, <1>8, HeldFurther
<1>11. Held(v, mode, Len(v.entries) + 1, 0)
  <2>1. \A i \in DOMAIN v.entries : i < Len(v.entries) + 1 /\ i < at
    BY <1>5, <1>7
  <2> QED
    BY <1>10, <2>1 DEF Held
<1> QED
  BY <1>3, <1>7, <1>8, <1>9, <1>11 DEF mode, t

LEMMA TablesWalk ==
  ASSUME LoopInv, BegunInv, BegunInv', TileInv, RootsInv, WalkInv, [Next]_vars, TablesNext,
         phase' # "rejected"
  PROVE  WalkInv'
<1> USE DEF LoopInv
<1>1. /\ phase = "tables" /\ phase' \in {"tables", "sections"} /\ MapChecked
      /\ UNCHANGED <<input, diag_attributes, memory_map>>
      /\ Enabled' = Enabled
  <2>1. phase = "tables" /\ phase' \in {"tables", "sections", "rejected"}
    BY DEF TablesNext, SkipBareStage, BeginStage, WriteEntry, FinishStage, FinishTables,
           RejectTables, Reject, Advance, StageLeft, mapVars
  <2> QED
    BY <2>1, LaterSteps DEF MapChecked, Enabled
<1>2. Right(page_tables) /\ FromMap(page_tables) /\ HeldBelow(page_tables, stage_id)
  BY <1>1 DEF WalkInv
<1>3. /\ stage_id \in Nat \ {0} /\ Len(Enabled) \in Nat /\ DOMAIN Enabled = 1..Len(Enabled)
      /\ current_level # 0 => StageLeft /\ Building \in DOMAIN page_tables /\ EntriesLeft
      /\ StageLeft => Building = Enabled[stage_id] /\ stage_id \in DOMAIN Enabled
  BY <1>1, EnabledFacts DEF LevelRight, Building, StageLeft
<1>4. page_tables = [s \in DOMAIN page_tables |-> page_tables[s]]
  BY DEF Shape
<1>5. \A b \in DOMAIN page_tables' : Held(page_tables'[b], Mode(b), 1, 0)
  <2> SUFFICES ASSUME NEW b \in DOMAIN page_tables' PROVE Held(page_tables'[b], Mode(b), 1, 0)
    OBVIOUS
  <2>1. Begun(page_tables'[b])
    BY DEF BegunInv, Begun
  <2> QED
    BY <2>1, NothingHeld
<1>6. CASE SkipBareStage
  <2>1. /\ UNCHANGED <<page_tables, current_level, phase, at>> /\ stage_id' = stage_id + 1
        /\ StageLeft /\ Building \notin DOMAIN page_tables
    BY <1>6 DEF SkipBareStage, ModesKnown, Levels, mapVars
  <2>2. HeldBelow(page_tables', stage_id')
    <3>1. \A i \in DOMAIN Enabled : i < stage_id + 1 => i < stage_id \/ i = stage_id
      BY <1>3
    <3> QED
      BY <1>2, <1>3, <2>1, <3>1 DEF HeldBelow
  <2>3. current_level' = 0 /\ at' = 1
    BY <1>3, <2>1 DEF WalkInv, Underway
  <2>4. Right(page_tables') /\ FromMap(page_tables')
    BY <1>2, <2>1
  <2>5. PICK b, n, level : b = Building' /\ n = at' /\ level = current_level'
    OBVIOUS
  <2>6. IF b \in DOMAIN page_tables' THEN Held(page_tables'[b], Mode(b), n, level) ELSE n = 1
    BY <1>5, <2>3, <2>5
  <2> QED
    BY <1>1, <2>2, <2>4, <2>5, <2>6, WalkFrom
<1>7. CASE BeginStage
  <2> DEFINE t == [start |-> Dest(RegionOf(Building)), entries |-> Entries(Building),
                   pages |-> <<>>, memory |-> <<>>]
  <2>1. /\ page_tables' = [s \in DOMAIN page_tables \cup {Building} |->
                             IF s = Building THEN t ELSE page_tables[s]]
        /\ Building \notin DOMAIN page_tables /\ StageLeft
        /\ UNCHANGED <<phase, at, stage_id, current_level>>
    BY <1>7 DEF BeginStage, mapVars
  <2>2. PagesRight(t, Mode(Building)) /\ Accounted(t, Mode(Building)) /\ t.entries = Entries(Building)
    BY DEF PagesRight, Accounted
  <2> HIDE DEF t
  <2>3. Right(page_tables') /\ FromMap(page_tables')
    BY <1>2, <2>1, <2>2 DEF Right, FromMap
  <2>4. HeldBelow(page_tables', stage_id')
    <3>1. \A i \in DOMAIN Enabled : i < stage_id => Enabled[i] # Building
      BY <1>3, <2>1, EnabledOnce
    <3> QED
      BY <1>2, <2>1, <3>1 DEF HeldBelow
  <2>5. current_level' = 0 /\ at' = 1
    BY <1>3, <2>1 DEF WalkInv, Underway
  <2>6. PICK b, n, level : b = Building' /\ n = at' /\ level = current_level'
    OBVIOUS
  <2>7. IF b \in DOMAIN page_tables' THEN Held(page_tables'[b], Mode(b), n, level) ELSE n = 1
    BY <1>5, <2>5, <2>6
  <2> QED
    BY <1>1, <2>3, <2>4, <2>6, <2>7, WalkFrom
<1>8. CASE WriteEntry
  <2>1. PICK v : /\ StageLeft /\ Building \in DOMAIN page_tables
                 /\ UNCHANGED <<phase, stage_id>>
                 /\ page_tables' = [page_tables EXCEPT ![Building] = v]
    BY <1>8, WriteTaken
  <2>2. /\ PagesRight(page_tables'[Building], Mode(Building))
        /\ Accounted(page_tables'[Building], Mode(Building))
        /\ Held(page_tables'[Building], Mode(Building), at', current_level')
        /\ page_tables'[Building].entries = page_tables[Building].entries
    BY <1>8, WriteWalk
  <2>3. \A s \in DOMAIN page_tables : s # Building => page_tables'[s] = page_tables[s]
    BY <2>1
  <2>4. Right(page_tables') /\ FromMap(page_tables')
    BY <1>2, <2>1, <2>2, <2>3 DEF Right, FromMap
  <2>5. HeldBelow(page_tables', stage_id')
    <3>1. \A i \in DOMAIN Enabled : i < stage_id => Enabled[i] # Building
      BY <1>3, <2>1, EnabledOnce
    <3> QED
      BY <1>2, <2>1, <2>3, <3>1 DEF HeldBelow
  <2>6. Building' = Building
    BY <1>1, <2>1 DEF Building
  <2>7. PICK b, n, level : b = Building' /\ n = at' /\ level = current_level'
    OBVIOUS
  <2>8. IF b \in DOMAIN page_tables' THEN Held(page_tables'[b], Mode(b), n, level) ELSE n = 1
    BY <2>1, <2>2, <2>6, <2>7
  <2> QED
    BY <1>1, <2>4, <2>5, <2>7, <2>8, WalkFrom
<1>9. CASE FinishStage
  <2>1. PICK v : /\ StageLeft /\ Building \in DOMAIN page_tables /\ ~EntriesLeft
                 /\ page_tables' = [page_tables EXCEPT ![Building] = v]
                 /\ stage_id' = stage_id + 1 /\ at' = 1 /\ UNCHANGED <<phase, current_level>>
    BY <1>9 DEF FinishStage, RejectTables, Reject
  <2>2. /\ PagesRight(page_tables'[Building], Mode(Building))
        /\ Accounted(page_tables'[Building], Mode(Building))
        /\ Held(page_tables'[Building], Mode(Building), Len(page_tables'[Building].entries) + 1, 0)
        /\ page_tables'[Building].entries = page_tables[Building].entries
    BY <1>9, FinishWalk
  <2>3. \A s \in DOMAIN page_tables : s # Building => page_tables'[s] = page_tables[s]
    BY <2>1
  <2>4. Right(page_tables') /\ FromMap(page_tables')
    BY <1>2, <2>1, <2>2, <2>3 DEF Right, FromMap
  <2>5. HeldBelow(page_tables', stage_id')
    <3>1. \A i \in DOMAIN Enabled : i < stage_id + 1 => i < stage_id \/ i = stage_id
      BY <1>3
    <3>2. \A i \in DOMAIN Enabled : i < stage_id => Enabled[i] # Building
      BY <1>3, <2>1, EnabledOnce
    <3> QED
      BY <1>2, <1>3, <2>1, <2>2, <2>3, <3>1, <3>2 DEF HeldBelow
  <2>6. current_level' = 0
    BY <1>3, <2>1
  <2>7. PICK b, n, level : b = Building' /\ n = at' /\ level = current_level'
    OBVIOUS
  <2>8. IF b \in DOMAIN page_tables' THEN Held(page_tables'[b], Mode(b), n, level) ELSE n = 1
    BY <1>5, <2>1, <2>6, <2>7
  <2> QED
    BY <1>1, <2>4, <2>5, <2>7, <2>8, WalkFrom
<1>10. CASE FinishTables
  <2>1. UNCHANGED <<page_tables, stage_id, current_level>> /\ phase' = "sections"
    BY <1>10 DEF FinishTables, Advance, tableVars
  <2>2. ~StageLeft' /\ Right(page_tables') /\ FromMap(page_tables') /\ HeldBelow(page_tables', stage_id')
    BY <1>2, <2>1 DEF StageLeft
  <2>3. PICK b, n, level : b = Building' /\ n = at' /\ level = current_level'
    OBVIOUS
  <2> QED
    BY <1>1, <2>2, <2>3, WalkFrom
<1> QED
  BY <1>6, <1>7, <1>8, <1>9, <1>10 DEF TablesNext

(* Every step.                                                             *)
LEMMA WalkInvStep ==
  ASSUME LoopInv, BegunInv, BegunInv', TileInv, RootsInv, WalkInv, [Next]_vars
  PROVE  WalkInv'
<1>1. CASE UNCHANGED vars
  <2>1. /\ \A s : Mode(s)' = Mode(s) /\ Entries(s)' = Entries(s)
        /\ UNCHANGED <<page_tables, Enabled, Building, at, current_level, stage_id, phase>>
        /\ StageLeft' = StageLeft
    BY <1>1 DEF vars, mapVars, tableVars, Enabled, Mode, Entries, Building, StageLeft
  <2>2. Right(page_tables)' /\ (MapChecked' => FromMap(page_tables)' /\ HeldBelow(page_tables, stage_id)')
    BY <2>1 DEF WalkInv, MapChecked, Right, FromMap, HeldBelow
  <2>3. StageLeft' => Underway(page_tables)'
    BY <2>1 DEF WalkInv, Underway
  <2> QED
    BY <2>2, <2>3 DEF WalkInv
<1>2. CASE TablesNext /\ phase' # "rejected"
  BY <1>2, TablesWalk
<1>3. CASE phase' = "rejected" /\ ~UNCHANGED vars
  <2>1. UNCHANGED page_tables
    BY <1>3 DEF Next, MapNext, tableVars, TablesNext, SectionsNext, SkipBareStage, BeginStage, WriteEntry,
                FinishStage, FinishTables, RejectTables, Advance, StageLeft, mapVars
  <2>2. DOMAIN page_tables # {} => \A s : Mode(s)' = Mode(s)
    BY AttributesFixed DEF Mode
  <2>3. Right(page_tables)'
    BY <2>1, <2>2 DEF WalkInv, Right
  <2> QED
    BY <1>3, <2>3 DEF WalkInv, MapChecked, StageLeft
<1>4. CASE MapNext /\ UNCHANGED tableVars /\ phase' # "rejected"
  <2>1. /\ phase \in {"attributes", "jumpstart", "diag"}
        /\ phase' \in {"jumpstart", "diag", "tables"} /\ (phase' = "tables" => at' = 1)
    BY <1>4 DEF MapNext, ProcessDiagAttributes, AddJumpstartSection, AddPagetableMappings,
                AddDiagMapping, CheckMemoryMap, Reject, Advance
  <2>2. DOMAIN page_tables' = {}
    BY <1>4, <2>1 DEF RootsInv, tableVars
  <2> QED
    BY <2>1, <2>2 DEF WalkInv, Right, FromMap, HeldBelow, Underway, StageLeft
<1>5. CASE (SectionsNext \/ GenerateAssembly) /\ UNCHANGED tableVars /\ phase' # "rejected"
  <2>1. /\ phase \in {"sections", "assembly"} /\ phase' \in {"sections", "assembly", "done"}
        /\ UNCHANGED <<input, diag_attributes, memory_map>>
    BY <1>5, LaterSteps DEF SectionsNext, CollectSection, FinishLinkerScript, RejectSections,
                            GenerateAssembly, Reject, Advance
  <2>2. /\ Enabled' = Enabled /\ \A s : Mode(s)' = Mode(s) /\ Entries(s)' = Entries(s)
    BY <2>1 DEF Enabled, Mode, Entries
  <2>3. MapChecked /\ ~StageLeft' /\ UNCHANGED <<page_tables, stage_id, current_level>>
    BY <1>5, <2>1 DEF MapChecked, tableVars, StageLeft
  <2> QED
    BY <2>1, <2>2, <2>3 DEF WalkInv, Right, FromMap, HeldBelow
<1> QED
  BY <1>1, <1>2, <1>3, <1>4, <1>5 DEF Next

LEMMA InitWalkInv == Init => WalkInv
<1>1. DOMAIN <<>> = {}
  OBVIOUS
<1> QED
  BY <1>1 DEF Init, MapInit, TablesInit, WalkInv, Right, MapChecked, StageLeft

----------------------------------------------------------------------------
(* The entries are the pages of the map, and the tables are in it          *)

(* A place of the map whose k-th page is e.                                *)
PlacedAt(map, e, i, k) ==
  /\ i \in DOMAIN map /\ ~IsBareMapping(map[i]) /\ k \in 1..map[i].num_pages
  /\ e = PagesOfMapping(map[i])[k]

(* The lists the entries of a stage are put together from.                 *)
PartsOf(stage, S, parts) ==
  LET map == memory_map[stage] IN
  /\ parts \in Seq(Seq(S)) /\ Len(parts) \in Nat
  /\ Entries(stage) = FlattenSeq(parts)
  /\ \A e, i, k : PlacedAt(map, e, i, k) =>
       i \in 1..Len(parts) /\ k \in 1..Len(parts[i]) /\ parts[i][k] = e
LEMMA MappingParts ==
  ASSUME NEW stage, MappingList(memory_map[stage], stage), NEW S,
         \A e, i, k : PlacedAt(memory_map[stage], e, i, k) => e \in S
  PROVE  \E parts : PartsOf(stage, S, parts)
<1> DEFINE map == memory_map[stage]
           part(m) == IF IsBareMapping(m) THEN <<>> ELSE PagesOfMapping(m)
           parts == [i \in DOMAIN map |-> part(map[i])]
<1>1. DOMAIN map = 1..Len(map) /\ Len(map) \in Nat /\ \A i \in DOMAIN map : MappingTyped(map[i], stage)
  BY ListFacts
<1>2. ASSUME NEW i \in DOMAIN map, ~IsBareMapping(map[i])
      PROVE  /\ PagesOfMapping(map[i]) \in Seq(S)
             /\ \A k \in 1..map[i].num_pages : k \in 1..Len(PagesOfMapping(map[i]))
  <2> DEFINE m == map[i]
             p == PagesOfMapping(m)
  <2>1. m.num_pages \in Int
    BY <1>1 DEF MappingTyped
  <2>2. \A k \in 1..m.num_pages : p[k] \in S
    BY <1>2 DEF PlacedAt
  <2>3. PICK k \in Nat : 1..m.num_pages = 1..k
    <3>1. CASE m.num_pages \in Nat
      BY <3>1
    <3>2. CASE m.num_pages \notin Nat
      <4>1. 1..m.num_pages = 1..0
        BY <2>1, <3>2
      <4> QED
        BY <4>1
    <3> QED
      BY <3>1, <3>2
  <2>4. p = [n \in 1..m.num_pages |-> p[n]]
    BY DEF PagesOfMapping
  <2> HIDE DEF p, m
  <2>5. p = [n \in 1..k |-> p[n]] /\ \A n \in 1..k : p[n] \in S
    BY <2>2, <2>3, <2>4, Zenon
  <2>6. p \in [1..k -> S]
    BY <2>5, Zenon
  <2>7. p \in Seq(S) /\ Len(p) = k
    BY <2>6
  <2> QED
    BY <2>3, <2>7 DEF p, m
<1>3. Entries(stage) = FlattenSeq(parts)
  BY Zenon DEF Entries
<1>4. ASSUME NEW i \in DOMAIN map
      PROVE  part(map[i]) \in Seq(S)
  <2>1. CASE IsBareMapping(map[i])
    BY <2>1
  <2>2. CASE ~IsBareMapping(map[i])
    BY <1>2, <2>2, Zenon
  <2> QED
    BY <2>1, <2>2
<1>5. \A i \in DOMAIN map : ~IsBareMapping(map[i]) => part(map[i]) = PagesOfMapping(map[i])
  OBVIOUS
<1> HIDE DEF part
<1>6. DOMAIN parts = 1..Len(map) /\ parts = [i \in 1..Len(map) |-> parts[i]]
      /\ \A i \in DOMAIN map : parts[i] = part(map[i])
  BY <1>1
<1> HIDE DEF map, parts
<1>7. parts \in Seq(Seq(S)) /\ Len(parts) = Len(map)
  BY <1>1, <1>4, <1>6
<1>8. ASSUME NEW e, NEW i, NEW k, PlacedAt(map, e, i, k)
      PROVE  i \in 1..Len(parts) /\ k \in 1..Len(parts[i]) /\ parts[i][k] = e
  <2>1. i \in DOMAIN map /\ ~IsBareMapping(map[i]) /\ k \in 1..map[i].num_pages
        /\ e = PagesOfMapping(map[i])[k]
    BY <1>8 DEF PlacedAt
  <2>2. parts[i] = PagesOfMapping(map[i])
    BY <1>5, <1>6, <2>1
  <2>3. k \in 1..Len(PagesOfMapping(map[i]))
    BY <1>2, <2>1 DEF map
  <2> QED
    BY <1>1, <1>7, <2>1, <2>2, <2>3
<1>9. PartsOf(stage, S, parts)
  BY <1>1, <1>3, <1>7, <1>8 DEF PartsOf, map
<1> QED
  BY <1>9

(* The entries are the pages of the mappings that are not bare.            *)
LEMMA EntriesArePages ==
  ASSUME NEW stage, MappingList(memory_map[stage], stage)
  PROVE  /\ \A e, i, k : PlacedAt(memory_map[stage], e, i, k) =>
              \E n \in DOMAIN Entries(stage) : Entries(stage)[n] = e
         /\ \A n \in DOMAIN Entries(stage) :
              \E i, k : PlacedAt(memory_map[stage], Entries(stage)[n], i, k)
<1> DEFINE S == UNION {{PagesOfMapping(memory_map[stage][i])[k] : k \in 1..memory_map[stage][i].num_pages} :
                       i \in DOMAIN memory_map[stage]}
           T == {e \in S : \E i, k : PlacedAt(memory_map[stage], e, i, k)}
<1>1. \A e, i, k : PlacedAt(memory_map[stage], e, i, k) => e \in T
  <2> SUFFICES ASSUME NEW e, NEW i, NEW k, PlacedAt(memory_map[stage], e, i, k)
               PROVE  e \in S
    OBVIOUS
  <2> QED
    BY DEF PlacedAt
<1>2. \A e \in T : \E i, k : PlacedAt(memory_map[stage], e, i, k)
  OBVIOUS
<1> HIDE DEF T
<1>3. PICK parts : PartsOf(stage, T, parts)
  BY <1>1, MappingParts, Zenon
<1>4. parts \in Seq(Seq(T)) /\ Len(parts) \in Nat /\ Entries(stage) = FlattenSeq(parts)
  BY <1>3, Zenon DEF PartsOf
<1>5. Entries(stage) \in Seq(T)
  BY <1>4, FlattenType
<1>6. \A n \in DOMAIN Entries(stage) : Entries(stage)[n] \in T
  BY <1>5
<1>7. ASSUME NEW e, NEW i, NEW k, PlacedAt(memory_map[stage], e, i, k)
      PROVE  \E n \in DOMAIN Entries(stage) : Entries(stage)[n] = e
  <2>1. i \in 1..Len(parts) /\ k \in 1..Len(parts[i]) /\ parts[i][k] = e
    BY <1>3, <1>7, Zenon DEF PartsOf
  <2>2. \E n \in DOMAIN FlattenSeq(parts) : FlattenSeq(parts)[n] = parts[i][k]
    BY <1>4, <2>1, FlattenHolds
  <2> QED
    BY <1>4, <2>1, <2>2
<1> QED
  BY <1>2, <1>6, <1>7

(* A mapping of all tables of a stage, that can be read through.           *)
MapsTables(m, stage) == IsRegion(m, stage) /\ TableSized(m) /\ Source(m) # None
Mappers(stage) == Readers(stage) \cup {stage}
HasTables(s, stage) == \E i \in DOMAIN s : MapsTables(s[i], stage)
ReadersInv ==
  phase = "diag" \/ MapChecked =>
    \A stage \in ToSet(Translated) : \A reader \in Mappers(stage) :
      HasTables(memory_map[reader], stage)

(* add_pagetable_mappings adds one to every stage that reads the tables.   *)
LEMMA ReadersTables ==
  ASSUME PagetablesPlaceable, MaxNumCpus \in Int, NEW stage \in ToSet(Translated),
         NEW reader \in Mappers(stage)
  PROVE  HasTables(TableMappings(reader), stage)
<1>1. \A x : x \in ToSet(Translated) <=> x \in EnabledSet /\ Mode(x) # "bare"
  BY TranslatedStages DEF ToSet
<1>2. EnabledSet = {"s"} \/ EnabledSet = {"hs", "vs", "g"}
  <2>1. Enabled = <<"s">> \/ Enabled = <<"hs", "vs", "g">>
    BY DEF Enabled, EnabledStages
  <2>2. CASE Enabled = <<"s">>
    <3>1. DOMAIN Enabled = 1..1 /\ Enabled[1] = "s"
      BY <2>2
    <3> QED
      BY <3>1 DEF EnabledSet
  <2>3. CASE Enabled = <<"hs", "vs", "g">>
    <3>1. DOMAIN Enabled = {1, 2, 3} /\ Enabled[1] = "hs" /\ Enabled[2] = "vs" /\ Enabled[3] = "g"
      BY <2>3
    <3> QED
      BY <3>1 DEF EnabledSet
  <2> QED
    BY <2>1, <2>2, <2>3
<1>3. stage \in ToSet(Translated) /\ reader \in ToSet(Translated) /\ reader \in EnabledSet
  BY <1>1 DEF Mappers, Readers
<1>4. \A x \in ToSet(Translated) :
        \E m : /\ TablesOf(x) = <<m>> /\ MappingTyped(m, x) /\ DOMAIN m = DOMAIN FieldDefaults
               /\ m.linker_script_section = TableSection(x) /\ TableSized(m)
               /\ m[TranslatesFrom[x]] = m[TranslatesTo[x]]
  <2> SUFFICES ASSUME NEW x \in ToSet(Translated)
               PROVE  \E m : /\ TablesOf(x) = <<m>> /\ MappingTyped(m, x) /\ DOMAIN m = DOMAIN FieldDefaults
                             /\ m.linker_script_section = TableSection(x) /\ TableSized(m)
                             /\ m[TranslatesFrom[x]] = m[TranslatesTo[x]]
    OBVIOUS
  <2>1. x \in {Translated[i] : i \in DOMAIN Translated}
    BY DEF ToSet
  <2> QED
    BY <2>1, OwnTables
<1>5. ASSUME NEW x \in ToSet(Translated), NEW m, m.linker_script_section = TableSection(x)
      PROVE  IsRegion(m, x)
  <2>1. TableSection(x) # None
    BY <1>1, TableSectionAssumption, EnabledStagesKnown
  <2>2. Contains(TableSection(x), TableSection(x)[1])
    BY DEF Contains, TableSection
  <2> QED
    BY <1>5, <2>1, <2>2 DEF IsRegion
<1>6. ASSUME NEW t, NEW k \in DOMAIN t, MapsTables(t[k], stage), t = TableMappings(reader)
      PROVE  HasTables(TableMappings(reader), stage)
  BY <1>6 DEF HasTables
<1>7. CASE stage = reader
  <2>1. PICK m : /\ TablesOf(stage) = <<m>> /\ MappingTyped(m, stage) /\ DOMAIN m = DOMAIN FieldDefaults
               /\ m.linker_script_section = TableSection(stage) /\ TableSized(m)
               /\ m[TranslatesFrom[stage]] = m[TranslatesTo[stage]]
    BY <1>3, <1>4
  <2>2. PICK t : t = TableMappings(reader)
    OBVIOUS
  <2>3. stage = "hs" \/ stage = "g" \/ stage \notin {"hs", "g"}
    OBVIOUS
  <2>4. 1 \in DOMAIN t /\ t[1] = m
    <3>1. CASE stage = "hs"
      <4>1. PICK rest : rest = <<GTablesInHs(TablesOf("g")[1]), VsTablesInHs(TablesOf("vs")[1])>>
        OBVIOUS
      <4>2. t = <<m>> \o rest /\ Len(rest) \in Nat
        BY <1>7, <2>1, <2>2, <3>1, <4>1 DEF TableMappings
      <4> QED
        BY <4>2
    <3>3. CASE stage = "g"
      <4>1. PICK rest : rest = <<VsTablesInG(TablesOf("vs")[1])>>
        OBVIOUS
      <4>2. t = <<m>> \o rest /\ Len(rest) \in Nat
        BY <1>7, <2>1, <2>2, <3>3, <4>1 DEF TableMappings
      <4> QED
        BY <4>2
    <3>2. CASE stage \notin {"hs", "g"}
      <4>1. PICK rest : rest = <<>>
        OBVIOUS
      <4>2. t = <<m>> \o rest /\ Len(rest) \in Nat
        BY <1>7, <2>1, <2>2, <3>2, <4>1 DEF TableMappings
      <4> QED
        BY <4>2
    <3> QED
      BY <2>3, <3>1, <3>2, <3>3
  <2>5. m.page_size \in Nat /\ Source(m) \in Int
    BY <2>1 DEF MappingTyped, Source, Dest
  <2>6. MapsTables(m, stage)
    BY <1>3, <1>5, <2>1, <2>5, NoneAssumption DEF MapsTables
  <2> QED
    BY <1>6, <2>2, <2>4, <2>6
<1>8. CASE stage # reader
  <2>1. (stage = "g" /\ reader = "hs") \/ (stage = "vs" /\ reader \in {"hs", "g"})
    BY <1>1, <1>2, <1>3, <1>8 DEF Mappers, Readers
  <2>2. {"vs", "g"} \subseteq ToSet(Translated) /\ "hs" \in EnabledSet
    BY <1>1, <1>2, <1>3, <2>1 DEF PagetablesPlaceable
  <2>3. PICK vs : /\ TablesOf("vs") = <<vs>> /\ MappingTyped(vs, "vs") /\ DOMAIN vs = DOMAIN FieldDefaults
                  /\ vs.linker_script_section = TableSection("vs") /\ TableSized(vs)
                  /\ vs[TranslatesFrom["vs"]] = vs[TranslatesTo["vs"]]
    BY <1>4, <2>2
  <2>4. PICK g : /\ TablesOf("g") = <<g>> /\ MappingTyped(g, "g") /\ DOMAIN g = DOMAIN FieldDefaults
                 /\ g.linker_script_section = TableSection("g") /\ TableSized(g)
                 /\ g[TranslatesFrom["g"]] = g[TranslatesTo["g"]]
    BY <1>4, <2>2
  <2>5. vs.gpa \in Int /\ vs.va = vs.gpa /\ g.spa \in Int /\ g.gpa = g.spa
    BY <2>3, <2>4 DEF MappingTyped, Dest, TranslatesFrom, TranslatesTo
  <2>6. DOMAIN vs = DOMAIN g /\ {"va", "pa", "gpa", "spa", "umode", "translation_stage",
          "xwr", "page_size", "num_pages", "valid", "linker_script_section"} \subseteq DOMAIN vs
    BY <2>3, <2>4 DEF FieldDefaults
  <2>7. PICK t : t = TableMappings(reader)
    OBVIOUS
  <2>8. PICK own : reader \in ToSet(Translated) /\ TablesOf(reader) = <<own>>
    BY <1>3, <1>4
  <2>9. CASE stage = "g" /\ reader = "hs"
    <3>1. t = <<own>> \o <<GTablesInHs(g), VsTablesInHs(vs)>>
      BY <2>3, <2>4, <2>7, <2>8, <2>9 DEF TableMappings
    <3>2. PICK m, n : m = GTablesInHs(g) /\ n = VsTablesInHs(vs)
      OBVIOUS
    <3>3. t = <<own>> \o <<m, n>>
      BY <3>1, <3>2
    <3>4. 2 \in DOMAIN t /\ t[2] = m
      BY <3>3
    <3>5. /\ m.translation_stage = "hs" /\ m.va = g.gpa /\ m.page_size = g.page_size
          /\ m.num_pages = g.num_pages /\ m.valid = g.valid /\ m.xwr = g.xwr
          /\ m.linker_script_section = g.linker_script_section
      BY <2>6, <3>2 DEF GTablesInHs
    <3>6. Source(m) = g.gpa /\ TableSized(m)
      BY <2>4, <3>5 DEF Source, TranslatesFrom, TableSized
    <3>7. MapsTables(m, stage)
      BY <1>3, <1>5, <2>4, <2>5, <2>9, <3>5, <3>6, NoneAssumption DEF MapsTables
    <3> QED
      BY <1>6, <2>7, <3>4, <3>7
  <2>10. CASE stage = "vs" /\ reader = "hs"
    <3>1. t = <<own>> \o <<GTablesInHs(g), VsTablesInHs(vs)>>
      BY <2>3, <2>4, <2>7, <2>8, <2>10 DEF TableMappings
    <3>2. PICK m, n : n = GTablesInHs(g) /\ m = VsTablesInHs(vs)
      OBVIOUS
    <3>3. t = <<own>> \o <<n, m>>
      BY <3>1, <3>2
    <3>4. 3 \in DOMAIN t /\ t[3] = m
      BY <3>3
    <3>5. /\ m.translation_stage = "hs" /\ m.va = vs.va /\ m.page_size = vs.page_size
          /\ m.num_pages = vs.num_pages /\ m.valid = vs.valid /\ m.xwr = vs.xwr
          /\ m.linker_script_section = vs.linker_script_section
      BY <2>6, <3>2 DEF VsTablesInHs
    <3>6. Source(m) = vs.gpa /\ TableSized(m)
      BY <2>3, <2>5, <3>5 DEF Source, TranslatesFrom, TableSized
    <3>7. MapsTables(m, stage)
      BY <1>3, <1>5, <2>3, <2>5, <2>10, <3>5, <3>6, NoneAssumption DEF MapsTables
    <3> QED
      BY <1>6, <2>7, <3>4, <3>7
  <2>11. CASE stage = "vs" /\ reader = "g"
    <3>1. t = <<own>> \o <<VsTablesInG(vs)>>
      BY <2>3, <2>7, <2>8, <2>11 DEF TableMappings
    <3>2. PICK m : m = VsTablesInG(vs)
      OBVIOUS
    <3>3. t = <<own>> \o <<m>>
      BY <3>1, <3>2
    <3>4. 2 \in DOMAIN t /\ t[2] = m
      BY <3>3
    <3>5. /\ m.translation_stage = "g" /\ m.gpa = vs.gpa /\ m.page_size = vs.page_size
          /\ m.num_pages = vs.num_pages /\ m.valid = vs.valid /\ m.xwr = vs.xwr
          /\ m.linker_script_section = vs.linker_script_section
      BY <2>6, <3>2 DEF VsTablesInG
    <3>6. Source(m) = vs.gpa /\ TableSized(m)
      BY <2>3, <3>5 DEF Source, TranslatesFrom, TableSized
    <3>7. MapsTables(m, stage)
      BY <1>3, <1>5, <2>3, <2>5, <2>11, <3>5, <3>6, NoneAssumption DEF MapsTables
    <3> QED
      BY <1>6, <2>7, <3>4, <3>7
  <2> QED
    BY <2>1, <2>9, <2>10, <2>11
<1> QED
  BY <1>7, <1>8

(* What follows other mappings is still there.                             *)
LEMMA TablesBehind ==
  ASSUME NEW stage, NEW x, NEW s, MappingList(s, x), NEW t, MappingList(t, x), HasTables(t, stage)
  PROVE  HasTables(s \o t, stage)
<1>1. PICK i \in DOMAIN t : MapsTables(t[i], stage)
  BY DEF HasTables
<1>2. PICK S, T : s \in Seq(S) /\ t \in Seq(T)
  BY DEF MappingList
<1>3. s \in Seq(S \cup T) /\ t \in Seq(S \cup T)
  BY <1>2
<1>4. DOMAIN t = 1..Len(t) /\ Len(t) \in Nat /\ Len(s) \in Nat
  BY <1>3
<1>5. Len(s) + i \in DOMAIN (s \o t) /\ (s \o t)[Len(s) + i] = t[i]
  BY <1>1, <1>3, <1>4
<1> QED
  BY <1>1, <1>5 DEF HasTables

LEMMA ReadersStep ==
  ASSUME MapInv, ReadersInv, [Next]_vars
  PROVE  ReadersInv'
<1> SUFFICES ASSUME phase' = "diag" \/ MapChecked', NEW stage \in ToSet(Translated)',
                    NEW reader \in Mappers(stage)'
             PROVE  HasTables(memory_map[reader], stage)'
  BY DEF ReadersInv
<1>1. CASE phase \in {"attributes", "rejected"}
  <2>1. ~MapChecked /\ (phase = "rejected" => phase' = phase)
    BY <1>1, LaterSteps DEF MapChecked, Next, MapNext, ProcessDiagAttributes, AddJumpstartSection,
       AddPagetableMappings, AddDiagMapping, CheckMemoryMap, vars, mapVars
  <2> QED
    BY <1>1, <2>1, MapSteps DEF MapChecked
<1>2. CASE phase \notin {"attributes", "rejected"}
  <2>1. /\ Attributed /\ EnabledSet' = EnabledSet /\ MaxNumCpus \in Int
        /\ UNCHANGED diag_attributes
    BY <1>2, AttributesStay, CpusCountedMeans DEF Attributed, MapInv
  <2>2. /\ ToSet(Translated)' = ToSet(Translated) /\ Mappers(stage)' = Mappers(stage)
        /\ \A s : HasTables(s, stage)' <=> HasTables(s, stage)
    <3>1. Translated' = Translated
      BY <2>1 DEF Translated, Enabled, Mode
    <3>2. \A m : TableSized(m)' <=> TableSized(m)
      BY <2>1 DEF TableSized
    <3>3. \A m : MapsTables(m, stage)' <=> MapsTables(m, stage)
      BY <3>2 DEF MapsTables
    <3> QED
      BY <3>1, <3>3 DEF Mappers, Readers, HasTables
  <2>3. stage \in ToSet(Translated) /\ reader \in Mappers(stage)
    BY <2>2
  <2>4. reader \in EnabledSet /\ reader \in Stage
    <3>1. reader \in ToSet(Translated)
      BY <2>3 DEF Mappers, Readers
    <3> QED
      BY <3>1, TranslatedStages, EnabledStagesKnown DEF ToSet
  <2>5. /\ memory_map = [x \in EnabledSet |-> memory_map[x]]
        /\ MappingList(memory_map[reader], reader)
    BY <2>1, <2>4 DEF MapInv, MapTyped
  <2>6. ASSUME HasTables(memory_map'[reader], stage)
        PROVE  HasTables(memory_map[reader], stage)'
    BY <2>2, <2>6
  <2>7. CASE phase = "jumpstart" /\ PagetablesPlaceable
             /\ memory_map' = [x \in EnabledSet |-> memory_map[x] \o TableMappings(x)]
    <3>1. HasTables(TableMappings(reader), stage) /\ MappingList(TableMappings(reader), reader)
      BY <2>1, <2>3, <2>4, <2>7, ReadersTables, TablesAreTyped
    <3>2. HasTables(memory_map[reader] \o TableMappings(reader), stage)
      BY <2>5, <3>1, TablesBehind
    <3> QED
      BY <2>4, <2>6, <2>7, <3>2
  <2>8. ASSUME phase = "diag" \/ MapChecked
        PROVE  HasTables(memory_map[reader], stage)
    BY <2>3, <2>8 DEF ReadersInv
  <2>9. CASE UNCHANGED memory_map /\ ~(phase = "jumpstart" /\ phase' = "diag")
    <3>1. phase = "diag" \/ MapChecked
      BY <1>2, <2>9, CheckedBefore, MapSteps DEF MapChecked
    <3> QED
      BY <2>6, <2>8, <2>9, <3>1
  <2>10. CASE phase = "diag" /\ \E m, x : memory_map' = [memory_map EXCEPT ![x] = Append(@, m)]
    <3>1. PICK m, x : memory_map' = [memory_map EXCEPT ![x] = Append(@, m)]
      BY <2>10
    <3>2. HasTables(memory_map[reader], stage)
      BY <2>8, <2>10
    <3>3. PICK S : memory_map[reader] \in Seq(S)
      BY <2>5 DEF MappingList
    <3>4. memory_map'[reader] = memory_map[reader] \/ memory_map'[reader] = Append(memory_map[reader], m)
      BY <2>4, <2>5, <3>1
    <3>5. HasTables(memory_map'[reader], stage)
      BY <3>2, <3>3, <3>4, AppendFacts DEF HasTables
    <3> QED
      BY <2>6, <3>5
  <2>11. CASE phase = "diag" /\ memory_map' = SortedMap
    <3> DEFINE s == memory_map[reader]
               t == SortedBy(s, TranslatesTo[reader])
    <3>1. memory_map'[reader] = t
      BY <2>1, <2>4, <2>11 DEF SortedMap
    <3>2. {t[i] : i \in DOMAIN t} = {s[i] : i \in DOMAIN s}
      <4>1. SameMappings(s, t)
        BY <2>4, <2>5, <3>1, SortingKeeps
      <4> QED
        BY <4>1 DEF SameMappings
    <3>3. PICK i \in DOMAIN s : MapsTables(s[i], stage)
      BY <2>8, <2>11 DEF HasTables
    <3> HIDE DEF s, t
    <3>4. \E j \in DOMAIN t : t[j] = s[i]
      BY <3>2
    <3>5. HasTables(t, stage)
      BY <3>3, <3>4 DEF HasTables
    <3> QED
      BY <2>6, <3>1, <3>5
  <2>12. CASE phase = "jumpstart" /\ phase' = phase
    BY <2>12 DEF MapChecked
  <2> QED
    BY <1>2, <2>7, <2>9, <2>10, <2>11, <2>12, MapSteps DEF MapChecked, Attributed
<1> QED
  BY <1>1, <1>2

(* No stage the loop has left is without its tables.                       *)
BuiltBelow(T, n) ==
  \A i \in DOMAIN Enabled : i < n => Mode(Enabled[i]) = "bare" \/ Enabled[i] \in DOMAIN T
BuiltInv == MapChecked => BuiltBelow(page_tables, stage_id)

LEMMA BuiltStep ==
  ASSUME LoopInv, BuiltInv, [Next]_vars
  PROVE  BuiltInv'
<1> SUFFICES ASSUME MapChecked' PROVE BuiltBelow(page_tables, stage_id)'
  BY DEF BuiltInv
<1>1. CASE phase \in {"attributes", "jumpstart", "diag"}
  <2>1. /\ stage_id = 1 /\ phase' \notin {"sections", "assembly", "done"}
        /\ (phase' = "tables" => UNCHANGED tableVars)
    BY <1>1 DEF LoopInv, LevelRight, Next, MapNext, ProcessDiagAttributes, AddJumpstartSection,
                AddPagetableMappings, AddDiagMapping, CheckMemoryMap, Reject, Advance, TablesNext,
                SkipBareStage, BeginStage, WriteEntry, FinishStage, FinishTables, StageLeft,
                SectionsNext, CollectSection, FinishLinkerScript, GenerateAssembly, Ended, vars, mapVars
  <2>2. stage_id' = 1
    BY <2>1 DEF MapChecked, tableVars
  <2>3. DOMAIN Enabled' \in SUBSET (Nat \ {0})
    <3>1. Enabled' = <<"s">> \/ Enabled' = <<"hs", "vs", "g">>
      BY DEF Enabled, EnabledStages
    <3>2. DOMAIN Enabled' = 1..1 \/ DOMAIN Enabled' = 1..3
      BY <3>1
    <3> QED
      BY <3>2
  <2> QED
    BY <2>2, <2>3 DEF BuiltBelow
<1>2. CASE phase \notin {"attributes", "jumpstart", "diag"}
  <2>1. /\ MapChecked /\ UNCHANGED diag_attributes
        /\ Enabled' = Enabled /\ \A s : Mode(s)' = Mode(s)
    <3>1. MapChecked
      BY <1>2, MapSteps, CheckedBefore DEF MapChecked
    <3>2. UNCHANGED diag_attributes
      BY <3>1, AttributesStay DEF MapChecked, Attributed
    <3> QED
      BY <3>1, <3>2 DEF Enabled, Mode
  <2>2. BuiltBelow(page_tables, stage_id)
    BY <2>1 DEF BuiltInv
  <2>3. stage_id \in Nat \ {0} /\ DOMAIN Enabled \in SUBSET Int
    BY EnabledFacts DEF LoopInv, LevelRight
  <2>4. DOMAIN page_tables \subseteq DOMAIN page_tables'
    BY ShapeStep DEF LoopInv
  <2>5. CASE UNCHANGED stage_id
    BY <2>1, <2>2, <2>4, <2>5 DEF BuiltBelow
  <2>6. CASE stage_id' = stage_id + 1 /\ (Mode(Building) = "bare" \/ Building \in DOMAIN page_tables)
    <3>1. \A i \in DOMAIN Enabled : i < stage_id + 1 => i < stage_id \/ i = stage_id
      BY <2>3
    <3> QED
      BY <2>1, <2>2, <2>4, <2>6, <3>1 DEF BuiltBelow, Building
  <2>7. \/ UNCHANGED stage_id
        \/ stage_id' = stage_id + 1 /\ (Mode(Building) = "bare" \/ Building \in DOMAIN page_tables)
    <3>1. CASE TablesNext
      BY <3>1 DEF TablesNext, SkipBareStage, BeginStage, WriteEntry, FinishStage, FinishTables,
                  RejectTables, tableVars
    <3> QED
      BY <3>1 DEF Next, vars, tableVars
  <2> QED
    BY <2>5, <2>6, <2>7
<1> QED
  BY <1>1, <1>2

(* The loop leaves every stage.                                            *)
LEMMA AllBuilt ==
  ASSUME phase = "done", LoopInv, RootsInv, BuiltInv
  PROVE  ToSet(Translated) \subseteq DOMAIN page_tables
<1> SUFFICES ASSUME NEW stage \in ToSet(Translated) PROVE stage \in DOMAIN page_tables
  OBVIOUS
<1>1. PICK i \in DOMAIN Enabled : Enabled[i] = stage /\ Mode(stage) # "bare"
  BY TranslatedStages DEF ToSet, EnabledSet
<1>2. i <= Len(Enabled) /\ stage_id > Len(Enabled) /\ BuiltBelow(page_tables, stage_id)
  BY EnabledFacts DEF RootsInv, BuiltInv, MapChecked
<1>3. i < stage_id
  BY <1>2, EnabledFacts DEF LoopInv, LevelRight
<1> QED
  BY <1>1, <1>2, <1>3 DEF BuiltBelow

(* With a guest its second stage is translated: what VS reads is mapped.   *)
GuestInv == (phase = "diag" \/ MapChecked) /\ "g" \in EnabledSet => "g" \in ToSet(Translated)

LEMMA GuestStep ==
  ASSUME MapInv, GuestInv, [Next]_vars
  PROVE  GuestInv'
<1> SUFFICES ASSUME phase' = "diag" \/ MapChecked', "g" \in EnabledSet'
             PROVE  "g" \in ToSet(Translated)'
  BY DEF GuestInv
<1>1. CASE phase \in {"attributes", "rejected"}
  <2>1. ~MapChecked /\ (phase = "rejected" => phase' = phase)
    BY <1>1, LaterSteps DEF MapChecked, Next, MapNext, ProcessDiagAttributes, AddJumpstartSection,
       AddPagetableMappings, AddDiagMapping, CheckMemoryMap, vars, mapVars
  <2> QED
    BY <1>1, <2>1, MapSteps DEF MapChecked
<1>2. CASE phase \notin {"attributes", "rejected"}
  <2>1. EnabledSet' = EnabledSet /\ UNCHANGED diag_attributes
    BY <1>2, AttributesStay DEF Attributed
  <2>2. Translated' = Translated
    BY <2>1 DEF Translated, Enabled, Mode
  <2>3. CASE PagetablesPlaceable
    BY <2>1, <2>2, <2>3 DEF PagetablesPlaceable
  <2>4. CASE phase = "diag" \/ MapChecked
    BY <2>1, <2>2, <2>4 DEF GuestInv
  <2>5. phase = "diag" \/ MapChecked \/ PagetablesPlaceable
    BY <1>2, CheckedBefore, MapSteps DEF MapChecked
  <2> QED
    BY <2>3, <2>4, <2>5
<1> QED
  BY <1>1, <1>2

----------------------------------------------------------------------------
(* The generator is done                                                   *)

(* No page of a mapping that is not bare is given an address that a        *)
(* physical address cannot hold.  Nothing in the generator checks it.      *)
DestinationsFit ==
  \A stage \in ToSet(Translated) : \A m \in MappingsOf(stage) :
    ~IsBareMapping(m) => 0 <= Dest(m) /\ Dest(m) + MappingSize(m) <= 2^PaBits

(* What is known once the generator is done.                               *)
MapsInv == ReadersInv /\ BuiltInv /\ GuestInv
Generated ==
  /\ phase = "done"
  /\ TablesInv /\ NamesInv /\ RootsInv /\ WalkInv /\ MapsInv
  /\ DiagNamesNoTable /\ DestinationsFit

(* A mapping of a stage, with a source.                                    *)
MappedFor(m, stage) ==
  /\ m \in MappingsOf(stage) /\ ~IsBareMapping(m) /\ MappingTyped(m, stage)
  /\ Source(m) \in Int /\ Dest(m) \in Int
PageAt(e, m, k) ==
  /\ e.src = Source(m) + (k - 1) * m.page_size /\ e.dst = Dest(m) + (k - 1) * m.page_size
  /\ e.page_size = m.page_size /\ e.xwr = m.xwr /\ e.valid = m.valid

LEMMA StageDone ==
  ASSUME Generated, NEW stage \in ToSet(Translated)
  PROVE  /\ stage \in DOMAIN page_tables /\ stage \in EnabledSet /\ stage \in Stage
         /\ Mode(stage) \in DOMAIN Levels
         /\ MappingList(memory_map[stage], stage)
         /\ page_tables[stage].entries = Entries(stage)
<1>1. stage \in EnabledSet /\ stage \in Stage
  BY TranslatedStages, EnabledStagesKnown DEF ToSet
<1>2. stage \in DOMAIN page_tables
  BY AllBuilt DEF Generated, TablesInv, MapsInv
<1>3. Mode(stage) \in DOMAIN Levels
  BY <1>2 DEF Generated, TablesInv, LoopInv, ModesKnown
<1>4. MappingList(memory_map[stage], stage)
  BY <1>1 DEF Generated, TablesInv, MapInv, MapTyped, Attributed
<1>5. page_tables[stage].entries = Entries(stage)
  BY <1>2 DEF Generated, WalkInv, MapChecked, FromMap
<1> QED
  BY <1>1, <1>2, <1>3, <1>4, <1>5

(* The entries of a stage are the pages of its mappings.                   *)
LEMMA EntriesDone ==
  ASSUME Generated, NEW stage \in ToSet(Translated)
  PROVE  LET es == page_tables[stage].entries IN
         /\ \A m, k : MappedFor(m, stage) /\ k \in 1..m.num_pages =>
              \E n \in DOMAIN es : PageAt(es[n], m, k)
         /\ \A n \in DOMAIN es : \E m, k :
              MappedFor(m, stage) /\ k \in 1..m.num_pages /\ PageAt(es[n], m, k)
<1> DEFINE map == memory_map[stage]
           es == page_tables[stage].entries
<1>1. /\ MappingList(map, stage) /\ es = Entries(stage)
  BY StageDone
<1>2. /\ DOMAIN map = 1..Len(map) /\ Len(map) \in Nat
      /\ \A i \in DOMAIN map : MappingTyped(map[i], stage)
  BY <1>1, ListFacts
<1>3. ASSUME NEW i \in DOMAIN map, ~IsBareMapping(map[i])
      PROVE  MappedFor(map[i], stage)
  <2>1. MappingTyped(map[i], stage) /\ map[i] \in MappingsOf(stage)
    BY <1>2 DEF MappingsOf, ToSet
  <2> HIDE DEF map
  <2> QED
    BY <1>3, <2>1, NoneAssumption DEF MappedFor, MappingTyped, IsBareMapping
<1>4. ASSUME NEW i, NEW k, NEW e, PlacedAt(map, e, i, k)
      PROVE  PageAt(e, map[i], k)
  <2>1. k \in 1..map[i].num_pages /\ e = PagesOfMapping(map[i])[k]
    BY <1>4 DEF PlacedAt
  <2> HIDE DEF map
  <2>2. e = [src |-> Source(map[i]) + (k - 1) * map[i].page_size,
             dst |-> Dest(map[i]) + (k - 1) * map[i].page_size,
             page_size |-> map[i].page_size, xwr |-> map[i].xwr, umode |-> map[i].umode,
             valid |-> map[i].valid]
    BY <2>1, Zenon DEF PagesOfMapping
  <2> QED
    BY <2>2 DEF PageAt
<1>5. ASSUME NEW m, NEW k, MappedFor(m, stage), k \in 1..m.num_pages
      PROVE  \E n \in DOMAIN es : PageAt(es[n], m, k)
  <2>1. PICK i \in DOMAIN map : map[i] = m
    BY <1>5 DEF MappedFor, MappingsOf, ToSet
  <2>2. PICK e : e = PagesOfMapping(map[i])[k]
    OBVIOUS
  <2>3. PlacedAt(map, e, i, k)
    BY <1>5, <2>1, <2>2 DEF PlacedAt, MappedFor
  <2>4. PICK n \in DOMAIN Entries(stage) : Entries(stage)[n] = e
    BY <1>1, <2>3, EntriesArePages
  <2>5. PageAt(e, m, k)
    BY <1>4, <2>1, <2>3
  <2> QED
    BY <1>1, <2>4, <2>5
<1>6. ASSUME NEW n \in DOMAIN es
      PROVE  \E m, k : MappedFor(m, stage) /\ k \in 1..m.num_pages /\ PageAt(es[n], m, k)
  <2>1. PICK i, k : PlacedAt(map, es[n], i, k)
    BY <1>1, EntriesArePages
  <2>2. MappedFor(map[i], stage) /\ k \in 1..map[i].num_pages
    BY <1>3, <2>1 DEF PlacedAt
  <2> QED
    BY <1>4, <2>1, <2>2
<1> QED
  BY <1>5, <1>6

(* Where the tables of a stage are, every mapping of them maps them.       *)
LEMMA RegionsDone ==
  ASSUME Generated, NEW stage \in ToSet(Translated), NEW reader \in Mappers(stage)
  PROVE  \E m : /\ reader \in ToSet(Translated) /\ MappedFor(m, reader)
                /\ Source(m) = page_tables[stage].start /\ Dest(m) = page_tables[stage].start
                /\ m.page_size = SIZE_4K /\ MappingSize(m) = TableRegionSize
                /\ m.valid = 1 /\ m.xwr \in {1, 3}
<1>1. reader \in ToSet(Translated)
  BY DEF Mappers, Readers
<1>2. HasTables(memory_map[reader], stage)
  BY DEF Generated, MapsInv, ReadersInv, MapChecked
<1>3. PICK i \in DOMAIN memory_map[reader] : MapsTables(memory_map[reader][i], stage)
  BY <1>2 DEF HasTables
<1>4. PICK m : m = memory_map[reader][i]
  OBVIOUS
<1>5. MappingTyped(m, reader) /\ m \in MappingsOf(reader)
  BY <1>1, <1>3, <1>4, StageDone, ListFacts DEF MappingsOf, ToSet
<1>6. MappedFor(m, reader)
  BY <1>3, <1>4, <1>5, NoneAssumption DEF MappedFor, MapsTables, MappingTyped, IsBareMapping
<1>7. PICK a : \A x \in Mapped : IsRegion(x, stage) => Source(x) = a /\ Dest(x) = a
  <2>1. stage \in Stage
    BY StageDone
  <2>2. Together(Mapped, stage)
    BY <2>1 DEF Generated, NamesInv, MapChecked
  <2> QED
    BY <2>2 DEF Together
<1>8. m \in Mapped
  BY <1>1, <1>3, <1>4, StageDone DEF Mapped
<1>9. Source(m) = a /\ Dest(m) = a
  BY <1>3, <1>4, <1>7, <1>8 DEF MapsTables
<1>10. page_tables[stage].start = a
  <2>1. Located(page_tables[stage], stage)
    BY StageDone DEF Generated, RootsInv, MapChecked
  <2>2. /\ IsRegion(RegionOf(stage), stage)
        /\ \E j \in DOMAIN memory_map[stage] : RegionOf(stage) = memory_map[stage][j]
    <3>1. stage \in EnabledSet /\ Mode(stage) # "bare"
      BY StageDone DEF Levels
    <3>2. HasRegion(memory_map[stage], stage)
      BY <3>1 DEF Generated, TablesInv, RegionInv, MapChecked
    <3> QED
      BY <3>2, StageDone, RegionFacts
  <2>3. RegionOf(stage) \in Mapped
    BY <2>2, StageDone DEF Mapped
  <2> QED
    BY <1>7, <2>1, <2>2, <2>3 DEF Located
<1>11. MappingSize(m) = TableRegionSize
  <2>1. m.page_size = SIZE_4K /\ m.num_pages = diag_attributes.max_num_pagetable_pages_per_stage
    BY <1>3, <1>4 DEF MapsTables, TableSized
  <2>2. m.num_pages \in Int /\ SIZE_4K \in Nat
    BY <1>5, PowerFacts DEF MappingTyped
  <2>3. m.page_size * m.num_pages = m.num_pages * m.page_size
    BY <2>1, <2>2
  <2> QED
    BY <2>1, <2>3 DEF MappingSize, TableRegionSize
<1> QED
  BY <1>1, <1>3, <1>4, <1>6, <1>9, <1>10, <1>11 DEF MapsTables, TableSized

(* The tables of a stage that is translated are finished.                  *)
LEMMA TablesDone ==
  ASSUME Generated, NEW stage \in ToSet(Translated)
  PROVE  /\ Finished(page_tables[stage], Mode(stage)) /\ HasRoot(page_tables[stage])
         /\ MemoryInside(page_tables[stage]) /\ PagesFit(page_tables[stage])
<1> DEFINE t == page_tables[stage]
           mode == Mode(stage)
<1>1. stage \in DOMAIN page_tables /\ mode \in DOMAIN Levels
  BY StageDone
<1>2. /\ TableShape(t) /\ Begun(t)
      /\ PagesTile(t) /\ PagesFit(t) /\ MemoryInside(t)
      /\ PagesRight(t, mode) /\ Accounted(t, mode)
  BY <1>1 DEF Generated, TablesInv, LoopInv, Shape, BegunInv, TileInv, Tiled, WalkInv, Right
<1>3. PICK i \in DOMAIN Enabled : Enabled[i] = stage /\ i < stage_id
  <2>1. PICK i \in DOMAIN Enabled : Enabled[i] = stage
    BY StageDone DEF EnabledSet
  <2>2. stage_id > Len(Enabled) /\ stage_id \in Nat
    BY DEF Generated, TablesInv, LoopInv, LevelRight, RootsInv
  <2> QED
    BY <2>1, <2>2, EnabledFacts
<1>4. HasRoot(t) /\ Held(t, mode, Len(t.entries) + 1, 0)
  BY <1>1, <1>3 DEF Generated, RootsInv, Complete, WalkInv, HeldBelow, MapChecked
<1> HIDE DEF t, mode
<1>5. t.entries \in Seq(Page) /\ t.start \in Int
  BY <1>2 DEF Begun
<1>6. Holding(t, mode)
  <2> SUFFICES ASSUME NEW n \in DOMAIN t.entries
               PROVE  /\ t.entries[n].src \in Int /\ SizeSupported(mode, t.entries[n])
                      /\ \A l \in 0..LeafLevel(mode, t.entries[n]) : Written(t, mode, t.entries[n], l)
    BY DEF Holding
  <2>1. t.entries[n] \in Page /\ n < Len(t.entries) + 1
    BY <1>5
  <2> QED
    BY <1>4, <2>1 DEF Held, Page
<1>7. Justified(t, mode)
  BY <1>2 DEF Accounted, Justified
<1>8. Addressable(t)
  <2>1. PICK m : /\ MappedFor(m, stage) /\ Dest(m) = t.start /\ MappingSize(m) = TableRegionSize
    BY RegionsDone DEF Mappers, t
  <2>2. 0 <= t.start /\ t.start + TableRegionSize <= 2^PaBits
    BY <2>1 DEF Generated, DestinationsFit, MappedFor
  <2>3. CurrentSize(t) \in Nat /\ CurrentSize(t) <= TableRegionSize
    <3>1. t.pages # <<>>
      BY <1>4 DEF HasRoot
    <3> QED
      BY <1>2, <1>5, <3>1, SizeFacts DEF PagesFit
  <2>4. TableRegionSize \in Int /\ 2^PaBits \in Int
    <3>1. MappingSize(m) \in Int
      BY <2>1 DEF MappedFor, MappingTyped, MappingSize
    <3> QED
      BY <2>1, <3>1, WidthsAssumption, PowersAssumption
  <2> SUFFICES ASSUME NEW k \in DOMAIN t.pages
               PROVE  0 <= t.pages[k].pa /\ t.pages[k].pa + t.pages[k].size <= 2^PaBits
    BY DEF Addressable
  <2>5. t.pages[k].pa + t.pages[k].size <= t.start + CurrentSize(t)
    BY <1>2, <1>5, SizeFacts
  <2>6. t.pages[k].pa \in Int /\ t.pages[k].size \in Nat /\ t.start <= t.pages[k].pa
    BY <1>2 DEF PagesTile
  <2> QED
    BY <1>5, <2>2, <2>3, <2>4, <2>5, <2>6
<1>9. Finished(t, mode)
  BY <1>2, <1>5, <1>6, <1>7, <1>8 DEF Finished
<1> QED
  BY <1>2, <1>4, <1>9 DEF t, mode

(* The offset that translate_stage adds is what the walk leaves of va.     *)
LEMMA OffsetIs ==
  ASSUME NEW mode \in DOMAIN Levels, NEW l \in 0..LastLevel(mode), NEW va \in Int
  PROVE  OffsetBelow(mode, l, va) = va % Span(mode, l)
<1>1. PICK n \in Int : n = VpnLsb(mode, l)
  <2>1. Levels[mode] \in Int /\ l \in Int
    BY PowerFacts
  <2> QED
    BY <2>1, WidthsAssumption DEF VpnLsb
<1>2. 2^0 = 1
  <2>1. 0 \in 0..Xlen /\ 0 + 0 <= Xlen /\ 0 + 0 = 0
    BY WidthsAssumption
  <2>2. 2^0 \in Nat \ {0} /\ 2^0 = 2^0 * 2^0
    BY <2>1, PowersAssumption
  <2>3. PICK x \in Nat \ {0} : x = 2^0
    BY <2>2
  <2>4. x = x * x
    BY <2>2, <2>3
  <2>5. x = 1
    BY <2>4
  <2> QED
    BY <2>3, <2>5
<1>3. PICK range : range = <<n - 1, 0>>
  OBVIOUS
<1>4. OffsetBelow(mode, l, va) = (va \div 2^range[2]) % 2^(range[1] - range[2] + 1)
  BY <1>1, <1>3 DEF OffsetBelow, ExtractBits
<1>5. range[2] = 0 /\ range[1] - range[2] + 1 = n
  BY <1>3
<1>6. va \div 1 = va
  OBVIOUS
<1>7. OffsetBelow(mode, l, va) = va % 2^n
  <2>1. OffsetBelow(mode, l, va) = (va \div 2^0) % 2^n
    BY <1>4, <1>5
  <2> QED
    BY <1>2, <1>6, <2>1
<1> QED
  BY <1>1, <1>7 DEF Span

(* The page of a stage that an address is in, and where it is mapped to.   *)
FoundAt(stage, va, n, l, target) ==
  LET mode == Mode(stage)
      e == page_tables[stage].entries[n]
  IN /\ n \in DOMAIN page_tables[stage].entries
     /\ l = LeafLevel(mode, e) /\ l \in 0..LastLevel(mode) /\ e.page_size = Span(mode, l)
     /\ e.valid = 1 /\ e.xwr # 0
     /\ e.dst \in Int /\ 0 <= e.dst /\ e.dst < 2^PaBits /\ (e.dst \div SIZE_4K) * SIZE_4K = e.dst
     /\ Index(mode, va, l) = Index(mode, e.src, l)
     /\ e.dst + (va % Span(mode, l)) = target

(* Where one mapping is aligned, as SourcesAligned asks of all of a stage. *)
SourceAligned(m) == \E q \in Int : Source(m) = q * m.page_size

(* The level of an entry, and its size.                                    *)
LEMMA EntryLevel ==
  ASSUME Generated, NEW stage \in ToSet(Translated), NEW n \in DOMAIN page_tables[stage].entries
  PROVE  LET e == page_tables[stage].entries[n]
             l == LeafLevel(Mode(stage), e)
         IN l \in 0..LastLevel(Mode(stage)) /\ e.page_size = Span(Mode(stage), l) /\ e.src \in Int
<1> DEFINE e == page_tables[stage].entries[n]
           mode == Mode(stage)
           l == LeafLevel(mode, e)
<1>1. mode \in DOMAIN Levels /\ SizeSupported(mode, e) /\ e.src \in Int
  BY StageDone, TablesDone DEF Finished, Holding
<1>2. l \in 0..LastLevel(mode)
  BY <1>1, LeafLevelFacts DEF LastLevel
<1>3. PageSizes(mode)[l] = e.page_size
  BY <1>1 DEF SizeSupported, LeafLevel
<1> HIDE DEF l, e, mode
<1>4. PageSizes(mode)[l] = Span(mode, l)
  BY <1>1, <1>2, PowerFacts
<1> QED
  BY <1>1, <1>2, <1>3, <1>4 DEF l, e, mode

(* Every page of a mapping has an entry that maps it.                      *)
LEMMA PageMet ==
  ASSUME Generated, NEW stage \in ToSet(Translated), NEW m, MappedFor(m, stage), SourceAligned(m),
         m.valid = 1, m.xwr # 0, NEW k \in 1..m.num_pages, NEW from \in Int,
         from = Source(m) + (k - 1) * m.page_size, NEW va \in Int
  PROVE  (va - from) % WalkBits(Mode(stage)) < m.page_size =>
           \E n, l : /\ FoundAt(stage, va, n, l, Dest(m) + ((k - 1) * m.page_size
                                                       + ((va - from) % WalkBits(Mode(stage)))))
                     /\ Span(Mode(stage), l) = m.page_size
<1> DEFINE mode == Mode(stage)
           W == WalkBits(mode)
<1>0. SUFFICES ASSUME (va - from) % W < m.page_size
               PROVE  \E n, l : /\ FoundAt(stage, va, n, l,
                                            Dest(m) + ((k - 1) * m.page_size + ((va - from) % W)))
                                /\ Span(mode, l) = m.page_size
  OBVIOUS
<1>1. mode \in DOMAIN Levels
  BY StageDone
<1>2. PICK n \in DOMAIN page_tables[stage].entries : PageAt(page_tables[stage].entries[n], m, k)
  BY EntriesDone
<1>3. PICK e : e = page_tables[stage].entries[n]
  OBVIOUS
<1>4. PICK l : l = LeafLevel(mode, e)
  OBVIOUS
<1>5. l \in 0..LastLevel(mode) /\ e.page_size = Span(mode, l) /\ e.src \in Int
  BY <1>3, <1>4, EntryLevel
<1>6. /\ m.num_pages \in Int /\ Dest(m) \in Int /\ Source(m) \in Int
      /\ m.page_size \in Nat \ {0} /\ DestAligned(m)
  BY DEF MappedFor, MappingTyped
<1>7. PICK d \in Nat \ {0} : d = m.page_size /\ d = Span(mode, l)
  BY <1>2, <1>3, <1>5, <1>6 DEF PageAt
<1>8. PICK p \in Int : p = (k - 1) * d
  BY <1>6
<1>9. PICK num \in Int : num = m.num_pages /\ k \in 1..num
  BY <1>6
<1>10. PICK z \in Nat \ {0} : d = SIZE_4K * z
  <2>1. \E z \in Nat \ {0} : Span(mode, l) = SIZE_4K * z
    BY <1>1, <1>5, PowerFacts, Zenon
  <2> QED
    BY <1>7, <2>1
<1>11. PICK f \in Nat \ {0} : f = SIZE_4K
  BY PowerFacts
<1>12. e.src = from /\ e.dst = Dest(m) + p /\ e.valid = 1 /\ e.xwr # 0
  BY <1>2, <1>3, <1>7, <1>8 DEF PageAt
<1>13. PICK x \in Int : x = e.dst
  BY <1>6, <1>12
<1>14. 0 <= Dest(m) /\ Dest(m) + num * d <= 2^PaBits
  <2>1. MappingSize(m) = d * num
    BY <1>7, <1>9 DEF MappingSize
  <2>2. d * num = num * d
    BY <1>9
  <2> QED
    BY <2>1, <2>2 DEF Generated, DestinationsFit, MappedFor
<1>15. 0 <= x /\ x < 2^PaBits
  <2>1. p >= 0
    BY <1>8, <1>9
  <2>2. num * d \in Int /\ (num - k) * d >= 0
    BY <1>9
  <2>3. (num - k) * d = num * d - p - d
    BY <1>8, <1>9
  <2>4. 2^PaBits \in Int
    BY WidthsAssumption, PowersAssumption
  <2> QED
    BY <1>6, <1>12, <1>13, <1>14, <2>1, <2>2, <2>3, <2>4
<1>16. (x \div SIZE_4K) * SIZE_4K = x
  <2>1. PICK q \in Int : Dest(m) = q * d
    BY <1>6, <1>7 DEF DestAligned
  <2>2. PICK c \in Int : c = q + (k - 1)
    BY <1>9, <2>1
  <2>3. x = c * d
    BY <1>8, <1>9, <1>12, <1>13, <2>1, <2>2
  <2>4. PICK y \in Int : y = c * z
    BY <1>10, <2>2
  <2>5. x = y * f + 0
    BY <1>10, <1>11, <2>2, <2>3, <2>4
  <2>6. x \div f = y
    BY <2>5, QuotientRemainder
  <2> QED
    BY <1>11, <2>5, <2>6
<1>17. /\ Index(mode, va, l) = Index(mode, from, l)
       /\ (va - from) % W = va % d
  <2>1. PICK q \in Int : Source(m) = q * d
    BY <1>7 DEF SourceAligned
  <2>2. PICK c \in Int : c = q + (k - 1)
    BY <1>9, <2>1
  <2>3. from = c * d + 0
    BY <1>7, <1>9, <2>1, <2>2
  <2>4. from % d = 0
    <3>1. c \in Int /\ d \in Nat \ {0} /\ 0 \in Int /\ 0 <= 0 /\ 0 < d /\ from \in Int
          /\ from = c * d + 0
      BY <2>2, <2>3
    <3> QED
      BY ONLY <3>1, QuotientRemainder
  <2>5. from % Span(mode, l) = 0
    BY <1>7, <2>4
  <2> HIDE DEF mode
  <2>6. (va - from) % WalkBits(mode) < Span(mode, l)
    BY <1>0, <1>7
  <2> QED
    BY <1>1, <1>5, <1>7, <2>5, <2>6, InPage
<1>18. PICK o \in Int : o = (va - from) % W /\ o = va % d
  <2>1. va % d \in Int
    OBVIOUS
  <2> QED
    BY <1>17, <2>1
<1>19. e.dst + (va % Span(mode, l)) = Dest(m) + ((k - 1) * m.page_size + ((va - from) % W))
  <2>1. va % Span(mode, l) = o
    BY <1>7, <1>18
  <2>2. (k - 1) * m.page_size = p
    BY <1>7, <1>8
  <2>3. (Dest(m) + p) + o = Dest(m) + (p + o)
    BY <1>6
  <2> QED
    BY <1>12, <1>18, <2>1, <2>2, <2>3
<1>20. FoundAt(stage, va, n, l, Dest(m) + ((k - 1) * m.page_size + ((va - from) % W)))
  BY <1>3, <1>4, <1>5, <1>12, <1>13, <1>15, <1>16, <1>17, <1>19 DEF FoundAt
<1> QED
  BY <1>7, <1>20

(* A walk that can read the entries on its way finds the page.             *)
LEMMA WalkTo ==
  ASSUME Generated, NEW stage \in ToSet(Translated), NEW va \in Int, NEW n, NEW l, NEW target,
         FoundAt(stage, va, n, l, target),
         NEW readable, \A a \in InTables(stage) : a \in readable,
         NEW v, Visiting(v, page_tables[stage].start, page_tables[stage].memory, readable, Mode(stage), va)
  PROVE  /\ LeafOf(v, Mode(stage)) # Fault
         /\ LeafOf(v, Mode(stage)).level = l
         /\ LeafOf(v, Mode(stage)).a + (va % Span(Mode(stage), l)) = target
<1> DEFINE t == page_tables[stage]
           mode == Mode(stage)
           e == t.entries[n]
<1>1. mode \in DOMAIN Levels /\ Finished(t, mode)
  BY StageDone, TablesDone
<1>2. /\ n \in DOMAIN t.entries /\ l = LeafLevel(mode, e)
      /\ e.valid = 1 /\ e.xwr # 0
      /\ e.dst \in Int /\ 0 <= e.dst /\ e.dst < 2^PaBits /\ (e.dst \div SIZE_4K) * SIZE_4K = e.dst
      /\ Index(mode, va, l) = Index(mode, e.src, l)
      /\ e.dst + (va % Span(mode, l)) = target
  BY DEF FoundAt
<1>3. \A k \in 0..LeafLevel(mode, e) : PteAddress(t, mode, e.src, k) \in readable
  <2>1. \A k \in 0..LeafLevel(mode, e) : Written(t, mode, e, k)
    BY <1>1, <1>2 DEF Finished, Holding
  <2> QED
    BY <2>1 DEF Written, InTables
<1>4. LET leaf == LeafLevel(mode, e) IN Index(mode, va, leaf) = Index(mode, e.src, leaf)
  BY <1>2
<1> HIDE DEF t, mode
<1>5. LeafAt(v[Levels[mode]], (e.dst \div SIZE_4K) * SIZE_4K, LeafLevel(mode, e))
  BY <1>1, <1>2, <1>3, <1>4, WalkReaches DEF t, mode
<1> HIDE DEF e
<1>6. PICK w : w = v[Levels[mode]]
  OBVIOUS
<1>7. w.kind = "leaf" /\ w.a = e.dst /\ w.level = l
  BY <1>2, <1>5, <1>6 DEF LeafAt
<1>8. LeafOf(v, mode) = w
  BY <1>6, <1>7 DEF LeafOf
<1>9. w # Fault
  BY <1>7 DEF Fault
<1> QED
  BY <1>2, <1>7, <1>8, <1>9 DEF mode

(* What the walks of both programs make of an address that is found.       *)
LEMMA WalksTo ==
  ASSUME Generated, NEW stage \in ToSet(Translated), NEW va \in Int, NEW n, NEW l, NEW target,
         FoundAt(stage, va, n, l, target)
  PROVE  /\ InTables(stage) \subseteq ReadableBy(stage) => TranslateStage(stage, va) = target
         /\ Span(Mode(stage), l) = SIZE_4K => TranslateInC(stage, va) = target
         /\ Walk(stage, va, LAMBDA a : TRUE) # Fault
<1> DEFINE mode == Mode(stage)
<1>1. mode \in DOMAIN Levels /\ l \in 0..LastLevel(mode)
  BY StageDone DEF FoundAt
<1>2. ASSUME InTables(stage) \subseteq ReadableBy(stage)
      PROVE  TranslateStage(stage, va) = target
  <2>1. PICK v : /\ Visiting(v, page_tables[stage].start, page_tables[stage].memory,
                             ReadableBy(stage), mode, va)
                 /\ StageWalk(stage, va) = LeafOf(v, mode)
    BY <1>1, GuardedWalk
  <2>2. PICK w : w = LeafOf(v, mode)
    OBVIOUS
  <2>3. \A a \in InTables(stage) : a \in ReadableBy(stage)
    BY <1>2
  <2>4. w # Fault /\ w.level = l /\ w.a + (va % Span(mode, l)) = target
    <3>1. PICK readable : readable = ReadableBy(stage)
      OBVIOUS
    <3>2. \A a \in InTables(stage) : a \in readable
      BY <2>3, <3>1
    <3>3. Visiting(v, page_tables[stage].start, page_tables[stage].memory, readable, Mode(stage), va)
      BY <2>1, <3>1
    <3>4. /\ LeafOf(v, Mode(stage)) # Fault
          /\ LeafOf(v, Mode(stage)).level = l
          /\ LeafOf(v, Mode(stage)).a + (va % Span(Mode(stage), l)) = target
      BY <3>2, <3>3, WalkTo
    <3> QED
      BY <2>2, <3>4
  <2>5. TranslateStage(stage, va) =
          IF w = Fault THEN None ELSE w.a + OffsetBelow(mode, w.level, va)
    BY <2>1, <2>2, Zenon DEF TranslateStage
  <2>6. OffsetBelow(mode, l, va) = va % Span(mode, l)
    BY <1>1, OffsetIs
  <2> HIDE DEF mode
  <2>7. TranslateStage(stage, va) = w.a + OffsetBelow(mode, l, va)
    BY <2>4, <2>5, Zenon
  <2> QED
    BY <2>4, <2>6, <2>7, Zenon
<1>3. PICK v : /\ Visiting(v, page_tables[stage].start, page_tables[stage].memory,
                           InTables(stage), mode, va)
               /\ Walk(stage, va, LAMBDA a : TRUE) = LeafOf(v, mode)
  BY <1>1, PlainWalk
<1>4. PICK w : w = LeafOf(v, mode)
  OBVIOUS
<1>5. w # Fault /\ w.a + (va % Span(mode, l)) = target
  BY <1>3, <1>4, WalkTo
<1>6. ASSUME Span(mode, l) = SIZE_4K
      PROVE  TranslateInC(stage, va) = target
  <2>1. TranslateInC(stage, va) = IF w = Fault THEN None ELSE w.a + (va % SIZE_4K)
    BY <1>3, <1>4, Zenon DEF TranslateInC
  <2>2. TranslateInC(stage, va) = w.a + (va % SIZE_4K)
    BY <1>5, <2>1, Zenon
  <2> QED
    BY <1>5, <1>6, <2>2, Zenon
<1> QED
  BY <1>2, <1>3, <1>4, <1>5, <1>6, Zenon

(* The word of a region that an address is.                                *)
WordAt(start, d, num, W, a, k, from, p, r) ==
  /\ k \in 1..num /\ from \in Int /\ p \in Int /\ r \in Int
  /\ p = (k - 1) * d /\ from = start + p /\ a = from + r
  /\ 0 <= r /\ r < d /\ r = (a - from) % W
LEMMA WordOfRegion ==
  ASSUME NEW start \in Int, NEW d \in Nat \ {0}, NEW num \in Int, NEW W \in Nat \ {0}, d <= W,
         NEW a \in Int, start <= a, a < start + d * num
  PROVE  \E k, from, p, r : WordAt(start, d, num, W, a, k, from, p, r)
<1>1. PICK x \in Int : x = a - start
  OBVIOUS
<1>2. PICK i, r : Splits(x, d, i, r)
  BY <1>1, Splitting
<1>3. i \in Int /\ r \in Int /\ 0 <= r /\ r < d /\ x = i * d + r
  BY <1>2 DEF Splits
<1>4. PICK p \in Int : p = i * d
  BY <1>3
<1>5. PICK s \in Int : s = d * num
  OBVIOUS
<1>6. 0 <= x /\ x < s
  BY <1>1, <1>5
<1>7. 0 <= i
  <2> SUFFICES ASSUME i <= 0 - 1 PROVE FALSE
    BY <1>3
  <2>1. i * d <= 0 - d
    BY <1>3
  <2> QED
    BY <1>3, <1>4, <1>6, <2>1
<1>8. i < num
  <2> SUFFICES ASSUME num <= i PROVE FALSE
    BY <1>3
  <2>1. (i - num) * d >= 0
    BY <1>3
  <2>2. (i - num) * d = p - s
    BY <1>3, <1>4, <1>5
  <2> QED
    BY <1>3, <1>4, <1>6, <2>1, <2>2
<1>9. PICK k \in 1..num : k - 1 = i
  <2>1. i + 1 \in 1..num /\ (i + 1) - 1 = i
    BY <1>3, <1>7, <1>8
  <2> QED
    BY <2>1
<1>10. PICK from \in Int : from = start + p
  OBVIOUS
<1>11. a = from + r /\ a - from = r
  BY <1>1, <1>3, <1>4, <1>10
<1>12. r % W = r
  <2>1. PICK y \in Int : y = r
    BY <1>3
  <2>2. y = 0 * W + r
    BY <1>3, <2>1
  <2>3. 0 \in Int /\ W \in Nat \ {0} /\ r \in Int /\ 0 <= r /\ r < W /\ y \in Int /\ y = 0 * W + r
    BY <1>3, <2>1, <2>2
  <2>4. y % W = r
    BY ONLY <2>3, QuotientRemainder
  <2> QED
    BY <2>1, <2>4
<1>13. r = (a - from) % W
  BY <1>11, <1>12
<1>14. p = (k - 1) * d
  BY <1>4, <1>9
<1> QED
  BY <1>3, <1>4, <1>9, <1>10, <1>11, <1>13, <1>14 DEF WordAt

(* The tables of a stage are mapped where they are for those who read them.*)
LEMMA TablesMet ==
  ASSUME Generated, NEW stage \in ToSet(Translated), NEW reader \in Readers(stage),
         NEW a \in InTables(stage)
  PROVE  a \in Int /\ \E n, l : FoundAt(reader, a, n, l, a)
<1> DEFINE t == page_tables[stage]
           W == WalkBits(Mode(reader))
<1>1. PICK m : /\ reader \in ToSet(Translated) /\ MappedFor(m, reader)
               /\ Source(m) = t.start /\ Dest(m) = t.start
               /\ m.page_size = SIZE_4K /\ MappingSize(m) = TableRegionSize
               /\ m.valid = 1 /\ m.xwr \in {1, 3}
  BY RegionsDone DEF Mappers
<1>2. /\ t.start \in Int /\ a \in Int /\ t.start <= a /\ a < t.start + CurrentSize(t)
      /\ CurrentSize(t) \in Nat /\ CurrentSize(t) <= TableRegionSize
  <2>1. /\ Finished(t, Mode(stage)) /\ HasRoot(t) /\ MemoryInside(t) /\ PagesFit(t)
    BY TablesDone
  <2>2. /\ t.start \in Int /\ TableShape(t) /\ PagesTile(t)
    BY <2>1 DEF Finished
  <2>3. t.pages # <<>>
    BY <2>1 DEF HasRoot
  <2> HIDE DEF t
  <2>4. CurrentSize(t) \in Nat
    BY <2>2, SizeFacts
  <2> QED
    BY <2>1, <2>2, <2>3, <2>4 DEF MemoryInside, PagesFit, InTables, t
<1>3. m.num_pages \in Int /\ DestAligned(m)
  BY <1>1 DEF MappedFor, MappingTyped
<1>4. Mode(reader) \in DOMAIN Levels
  BY <1>1, StageDone
<1>5. PICK d \in Nat \ {0} : d = SIZE_4K /\ d <= W /\ W \in Nat \ {0}
  <2>1. /\ SIZE_4K \in Nat \ {0} /\ W \in Nat \ {0} /\ 0 \in 0..LastLevel(Mode(reader))
    BY <1>4, PowerFacts
  <2> HIDE DEF W
  <2>2. PICK n \in Nat \ {0} : W = Span(Mode(reader), 0) * n
    BY <1>4, <2>1, PowerFacts DEF W
  <2>3. PICK z \in Nat \ {0} : Span(Mode(reader), 0) = SIZE_4K * z
    BY <1>4, <2>1, PowerFacts, Zenon
  <2>4. PICK d \in Nat \ {0} : d = SIZE_4K
    BY <2>1
  <2>5. PICK s \in Nat : s = d * z /\ s >= d
    <3>1. d * z \in Nat /\ d * z >= d
      OBVIOUS
    <3> QED
      BY <3>1
  <2>6. s * n >= s
    BY <2>5
  <2>7. W = s * n
    BY <2>2, <2>3, <2>4, <2>5
  <2> QED
    BY <2>1, <2>4, <2>5, <2>6, <2>7
<1>6. PICK num \in Int : num = m.num_pages
  BY <1>3
<1>7. TableRegionSize = d * num
  BY <1>1, <1>5, <1>6 DEF MappingSize
<1>8. PICK start \in Int : start = t.start
  BY <1>2
<1> HIDE DEF t, W
<1>9. a < start + d * num
  <2>1. PICK s \in Int : s = d * num
    OBVIOUS
  <2> QED
    BY <1>2, <1>7, <1>8, <2>1
<1>15. PICK w \in Nat \ {0} : w = W /\ d <= w
  BY <1>5
<1>16. PICK k, from, p, r : WordAt(start, d, num, w, a, k, from, p, r)
  <2>1. /\ start \in Int /\ d \in Nat \ {0} /\ num \in Int /\ w \in Nat \ {0} /\ d <= w
        /\ a \in Int /\ start <= a /\ a < start + d * num
    BY <1>2, <1>5, <1>8, <1>9, <1>15
  <2> QED
    BY ONLY <2>1, WordOfRegion
<1>10. /\ p = (k - 1) * d /\ from = start + p /\ a = from + r
       /\ 0 <= r /\ r < d /\ r = (a - from) % W
       /\ k \in 1..num /\ from \in Int /\ p \in Int /\ r \in Int
  BY <1>15, <1>16 DEF WordAt
<1>11. SourceAligned(m)
  BY <1>1, <1>3 DEF SourceAligned, DestAligned
<1>12. from = Source(m) + (k - 1) * m.page_size /\ (k - 1) * m.page_size = p
  BY <1>1, <1>5, <1>8, <1>10
<1>13. \E n, l : FoundAt(reader, a, n, l, Dest(m) + ((k - 1) * m.page_size + ((a - from) % W)))
  <2>1. (a - from) % WalkBits(Mode(reader)) < m.page_size
    BY <1>1, <1>5, <1>10 DEF W
  <2>2. m.xwr # 0 /\ k \in 1..m.num_pages
    BY <1>1, <1>6, <1>10
  <2> QED
    BY <1>1, <1>2, <1>11, <1>12, <2>1, <2>2, PageMet DEF W
<1>14. Dest(m) + ((k - 1) * m.page_size + ((a - from) % W)) = a
  <2>1. start + (p + r) = a
    BY <1>10
  <2> QED
    BY <1>1, <1>8, <1>10, <1>12, <2>1
<1> QED
  BY <1>2, <1>13, <1>14

(* Every entry of a stage can be read by the walk of it.                   *)
LEMMA EntriesReadable ==
  ASSUME Generated, NEW stage \in ToSet(Translated)
  PROVE  InTables(stage) \subseteq ReadableBy(stage)
<1>1. CASE NextStage[stage] = None
  BY <1>1 DEF ReadableBy
<1>2. CASE NextStage[stage] # None
  <2>1. stage = "vs"
    BY <1>2, StageDone DEF NextStage, Stage
  <2>2. "g" \in Readers(stage)
    <3>1. "g" \in EnabledSet
      <4>1. stage \in EnabledSet
        BY StageDone
      <4>2. Enabled = <<"s">> \/ Enabled = <<"hs", "vs", "g">>
        BY DEF Enabled, EnabledStages
      <4>3. CASE Enabled = <<"s">>
        <5>1. DOMAIN Enabled = 1..1 /\ Enabled[1] = "s"
          BY <4>3
        <5> QED
          BY <2>1, <4>1, <5>1 DEF EnabledSet
      <4>4. CASE Enabled = <<"hs", "vs", "g">>
        <5>1. 3 \in DOMAIN Enabled /\ Enabled[3] = "g"
          BY <4>4
        <5> QED
          BY <5>1 DEF EnabledSet
      <4> QED
        BY <4>2, <4>3, <4>4
    <3>2. "g" \in ToSet(Translated)
      BY <3>1 DEF Generated, MapsInv, GuestInv, MapChecked
    <3> QED
      BY <2>1, <3>2 DEF Readers
  <2>3. "g" \in ToSet(Translated)
    BY <2>2 DEF Readers
  <2>4. ASSUME NEW a \in InTables(stage)
        PROVE  Walk("g", a, LAMBDA b : TRUE) # Fault
    <3>1. PICK n, l : a \in Int /\ FoundAt("g", a, n, l, a)
      BY <2>2, TablesMet
    <3> QED
      BY <2>3, <3>1, WalksTo
  <2> QED
    BY <2>4, Zenon DEF ReadableBy
<1> QED
  BY <1>1, <1>2

LEMMA ReadableDone ==
  ASSUME Generated
  PROVE  TablesReadable
<1> SUFFICES ASSUME NEW stage \in ToSet(Translated), NEW reader \in Readers(stage),
                    NEW a \in DOMAIN page_tables[stage].memory
             PROVE  TranslateStage(reader, a) = a
  BY DEF TablesReadable
<1>1. reader \in ToSet(Translated)
  BY DEF Readers
<1>2. PICK n, l : a \in Int /\ FoundAt(reader, a, n, l, a)
  BY TablesMet DEF InTables
<1> QED
  BY <1>1, <1>2, EntriesReadable, WalksTo

LEMMA MappedHere ==
  ASSUME Generated, NEW stage \in ToSet(Translated)
  PROVE  \A m \in MappingsOf(stage) : ~IsBareMapping(m) => MappedFor(m, stage)
<1> SUFFICES ASSUME NEW m \in MappingsOf(stage), ~IsBareMapping(m)
             PROVE  MappedFor(m, stage)
  OBVIOUS
<1>1. MappingTyped(m, stage)
  BY StageDone, ListFacts DEF MappingsOf, ToSet
<1> QED
  BY <1>1, NoneAssumption DEF MappedFor, MappingTyped, IsBareMapping

LEMMA AlignedSource ==
  ASSUME NEW stage, SourcesAligned(stage), NEW m, MappedFor(m, stage)
  PROVE  SourceAligned(m)
<1>1. Source(m) \in Int /\ m.page_size \in Nat \ {0} /\ Source(m) % m.page_size = 0
  BY DEF MappedFor, SourcesAligned, MappingTyped
<1>2. PICK x \in Int, d \in Nat \ {0} : x = Source(m) /\ d = m.page_size
  BY <1>1
<1>3. PICK q, r : Splits(x, d, q, r)
  BY Splitting
<1>4. r = 0
  BY <1>1, <1>2, <1>3 DEF Splits
<1>5. q \in Int /\ x = q * d + r
  BY <1>3 DEF Splits
<1>6. x = q * d
  BY <1>4, <1>5
<1> QED
  BY <1>2, <1>5, <1>6 DEF SourceAligned

(* What Probes is made of.                                                 *)
EdgesOf(stage) ==
  UNION {{Source(m), Source(m) + MappingSize(m) - 1} :
           m \in {m \in MappingsOf(stage) : ~IsBareMapping(m)}}
ProbesFrom(edges, mode) ==
  {(edge + n * PageSizes(mode)[level]) % WalkBits(mode) :
     edge \in edges, n \in -1..1, level \in DOMAIN PageSizes(mode)}

LEMMA ProbesMadeOf ==
  ASSUME NEW stage
  PROVE  Probes(stage) = ProbesFrom(EdgesOf(stage), Mode(stage))
BY DEF Probes, ProbesFrom, EdgesOf

(* The addresses that are tried are numbers.                               *)
LEMMA ProbesInt ==
  ASSUME Generated, NEW stage \in ToSet(Translated), NEW va \in Probes(stage)
  PROVE  va \in Int
<1> DEFINE mode == Mode(stage)
<1>1. mode \in DOMAIN Levels
  BY StageDone
<1>2. PICK edge \in EdgesOf(stage), n \in -1..1, level \in DOMAIN PageSizes(mode) :
        va = (edge + n * PageSizes(mode)[level]) % WalkBits(mode)
  <2>1. va \in Probes(stage)
    OBVIOUS
  <2>2. va \in ProbesFrom(EdgesOf(stage), mode)
    BY <2>1, ProbesMadeOf
  <2> HIDE DEF mode
  <2> QED
    BY <2>2 DEF ProbesFrom
<1>3. edge \in Int
  <2>1. PICK m \in MappingsOf(stage) :
          ~IsBareMapping(m) /\ edge \in {Source(m), Source(m) + MappingSize(m) - 1}
    BY DEF EdgesOf
  <2>2. MappedFor(m, stage)
    BY <2>1, MappedHere
  <2>3. Source(m) \in Int /\ m.page_size \in Int /\ m.num_pages \in Int
    BY <2>2 DEF MappedFor, MappingTyped
  <2> QED
    BY <2>1, <2>3 DEF MappingSize
<1>4. PICK s \in Int : s = PageSizes(mode)[level]
  <2>1. level \in 0..LastLevel(mode)
    BY <1>2 DEF PageSizes, LastLevel
  <2> QED
    BY <1>1, <2>1, PowerFacts
<1>5. PICK w \in Nat \ {0} : w = WalkBits(mode)
  BY <1>1, PowerFacts
<1>6. n * s \in Int
  BY <1>2, <1>4
<1>7. PICK y \in Int : y = edge + n * s
  BY <1>3, <1>6
<1>8. va = y % w
  BY <1>2, <1>4, <1>5, <1>7
<1> QED
  BY <1>5, <1>7, <1>8

(* What the map says of an address is found.                               *)
LEMMA MappedIsFound ==
  ASSUME Generated, NEW stage \in ToSet(Translated), SourcesAligned(stage), NEW va \in Int,
         NEW m \in MappingsOf(stage)
  PROVE  Translates(m, Mode(stage), va) =>
           \E n, l : /\ FoundAt(stage, va, n, l, Dest(m) + ((va - Source(m)) % WalkBits(Mode(stage))))
                     /\ Span(Mode(stage), l) = m.page_size
<1> DEFINE mode == Mode(stage)
<1>0. SUFFICES ASSUME Translates(m, mode, va)
               PROVE  \E n, l : /\ FoundAt(stage, va, n, l, Dest(m) + ((va - Source(m)) % WalkBits(mode)))
                                /\ Span(mode, l) = m.page_size
  OBVIOUS
<1>1. /\ ~IsBareMapping(m) /\ m.valid = 1 /\ m.xwr # 0
      /\ (va - Source(m)) % WalkBits(mode) < MappingSize(m)
  BY <1>0 DEF Translates
<1>2. MappedFor(m, stage)
  BY <1>1, MappedHere
<1>3. SourceAligned(m)
  BY <1>2, AlignedSource
<1>4. PICK w \in Nat \ {0} : w = WalkBits(mode)
  BY StageDone, PowerFacts
<1>5. PICK d \in Nat \ {0}, num \in Int, src \in Int :
        d = m.page_size /\ num = m.num_pages /\ src = Source(m)
  BY <1>2 DEF MappedFor, MappingTyped
<1>6. (va - src) % w < d * num
  BY <1>1, <1>4, <1>5 DEF MappingSize
<1>7. PICK k \in 1..num : /\ (va - (src + (k - 1) * d)) % w < d
                          /\ (k - 1) * d + ((va - (src + (k - 1) * d)) % w) = (va - src) % w
  <2>1. /\ w \in Nat \ {0} /\ d \in Nat \ {0} /\ num \in Int /\ src \in Int /\ va \in Int
        /\ (va - src) % w < d * num
    BY <1>6
  <2>2. PICK k : OnPage(src, d, num, w, va, k)
    BY ONLY <2>1, PageFound
  <2> QED
    BY <2>2 DEF OnPage
<1>8. PICK from \in Int : from = src + (k - 1) * d
  OBVIOUS
<1>9. (va - from) % w < d /\ (k - 1) * d + ((va - from) % w) = (va - src) % w
  BY <1>7, <1>8
<1>10. PICK n, l : /\ FoundAt(stage, va, n, l, Dest(m) + ((k - 1) * m.page_size + ((va - from) % WalkBits(mode))))
                   /\ Span(mode, l) = m.page_size
  <2>1. /\ k \in 1..m.num_pages /\ from = Source(m) + (k - 1) * m.page_size
        /\ (va - from) % WalkBits(Mode(stage)) < m.page_size
    BY <1>4, <1>5, <1>8, <1>9
  <2> QED
    BY <1>1, <1>2, <1>3, <2>1, PageMet
<1>11. (k - 1) * m.page_size + ((va - from) % WalkBits(mode)) = (va - Source(m)) % WalkBits(mode)
  BY <1>4, <1>5, <1>9
<1> QED
  BY <1>10, <1>11

(* What a walk finds is in the map.                                        *)
LEMMA FoundIsMapped ==
  ASSUME Generated, NEW stage \in ToSet(Translated), SourcesAligned(stage), NEW va \in Int
  PROVE  TranslateStage(stage, va) # None =>
           \E m \in MappingsOf(stage) : Translates(m, Mode(stage), va)
<1> DEFINE t == page_tables[stage]
           mode == Mode(stage)
<1>0. SUFFICES ASSUME TranslateStage(stage, va) # None
               PROVE  \E m \in MappingsOf(stage) : Translates(m, mode, va)
  OBVIOUS
<1>1. mode \in DOMAIN Levels /\ Finished(t, mode) /\ HasRoot(t)
  BY StageDone, TablesDone
<1>2. PICK v : /\ Visiting(v, t.start, t.memory, ReadableBy(stage), mode, va)
               /\ StageWalk(stage, va) = LeafOf(v, mode)
  BY <1>1, GuardedWalk
<1>3. LeafOf(v, mode) # Fault
  BY <1>0, <1>2, Zenon DEF TranslateStage
<1>4. v[Levels[mode]].kind = "leaf"
  BY <1>3, Zenon DEF LeafOf
<1>5. PICK n : PageOf(t, mode, va, n)
  <2>1. ReadableBy(stage) \in SUBSET DOMAIN t.memory
    BY DEF ReadableBy, InTables
  <2> QED
    BY <1>1, <1>2, <1>4, <2>1, WalkFinds
<1>6. PICK e : e = t.entries[n]
  OBVIOUS
<1>7. PICK l : l = LeafLevel(mode, e)
  OBVIOUS
<1>8. /\ n \in DOMAIN t.entries /\ e.valid = 1 /\ e.xwr # 0
      /\ Index(mode, va, l) = Index(mode, e.src, l)
  BY <1>5, <1>6, <1>7 DEF PageOf
<1>9. l \in 0..LastLevel(mode) /\ e.page_size = Span(mode, l) /\ e.src \in Int
  BY <1>6, <1>7, <1>8, EntryLevel
<1>10. PICK m, k : MappedFor(m, stage) /\ k \in 1..m.num_pages /\ PageAt(e, m, k)
  BY <1>6, <1>8, EntriesDone
<1>11. SourceAligned(m)
  BY <1>10, AlignedSource
<1>12. PICK w \in Nat \ {0} : w = WalkBits(mode)
  BY <1>1, PowerFacts
<1>13. PICK d \in Nat \ {0}, num \in Int, src \in Int :
        d = m.page_size /\ num = m.num_pages /\ src = Source(m)
  BY <1>10 DEF MappedFor, MappingTyped
<1>14. /\ e.src = src + (k - 1) * d /\ Span(mode, l) = d /\ m.valid = 1 /\ m.xwr # 0
       /\ k \in 1..num
  BY <1>8, <1>9, <1>10, <1>13 DEF PageAt
<1>15. PICK from \in Int : from = src + (k - 1) * d /\ from = e.src
  BY <1>9, <1>14
<1>16. from % Span(mode, l) = 0
  <2>1. PICK q \in Int : src = q * d
    BY <1>11, <1>13 DEF SourceAligned
  <2>2. PICK c \in Int : c = q + (k - 1)
    BY <1>14, <2>1
  <2>3. from = c * d + 0
    BY <1>14, <1>15, <2>1, <2>2
  <2>4. from % d = 0
    <3>1. c \in Int /\ d \in Nat \ {0} /\ 0 \in Int /\ 0 <= 0 /\ 0 < d /\ from \in Int
          /\ from = c * d + 0
      BY <2>2, <2>3
    <3> QED
      BY ONLY <3>1, QuotientRemainder
  <2> QED
    BY <1>14, <2>4
<1>17. (va - from) % WalkBits(mode) < Span(mode, l)
  <2>1. Index(mode, va, l) = Index(mode, from, l)
    BY <1>8, <1>15
  <2> HIDE DEF mode
  <2> QED
    BY <1>1, <1>9, <1>16, <2>1, InPage
<1>18. (va - (src + (k - 1) * d)) % w < d
  BY <1>12, <1>14, <1>15, <1>17
<1>19. (va - src) % w < d * num
  <2>1. /\ w \in Nat \ {0} /\ d \in Nat \ {0} /\ num \in Int /\ src \in Int /\ va \in Int
        /\ k \in 1..num /\ (va - (src + (k - 1) * d)) % w < d
    BY <1>14, <1>18
  <2> QED
    BY ONLY <2>1, PageInside
<1>20. (va - Source(m)) % WalkBits(mode) < MappingSize(m)
  BY <1>12, <1>13, <1>19 DEF MappingSize
<1> QED
  BY <1>10, <1>14, <1>20 DEF Translates, MappedFor

LEMMA MapMatches ==
  ASSUME Generated
  PROVE  WalkMatchesMap
<1> SUFFICES ASSUME NEW stage \in ToSet(Translated), SourcesAligned(stage), NEW va \in Probes(stage)
             PROVE  LET mode == Mode(stage)
                        mapped == {m \in MappingsOf(stage) : Translates(m, mode, va)} IN
                    /\ mapped = {} => TranslateStage(stage, va) = None
                    /\ \A m \in mapped :
                         LET dest == Dest(m) + ((va - Source(m)) % WalkBits(mode)) IN
                         /\ TranslateStage(stage, va) = dest
                         /\ m.page_size = SIZE_4K => TranslateInC(stage, va) = dest
  BY DEF WalkMatchesMap
<1>1. va \in Int
  BY ProbesInt
<1>2. ASSUME TranslateStage(stage, va) # None
      PROVE  \E m \in MappingsOf(stage) : Translates(m, Mode(stage), va)
  BY <1>1, <1>2, FoundIsMapped
<1>3. ASSUME NEW m \in MappingsOf(stage), Translates(m, Mode(stage), va)
      PROVE  LET dest == Dest(m) + ((va - Source(m)) % WalkBits(Mode(stage))) IN
             /\ TranslateStage(stage, va) = dest
             /\ m.page_size = SIZE_4K => TranslateInC(stage, va) = dest
  <2>1. PICK dest : dest = Dest(m) + ((va - Source(m)) % WalkBits(Mode(stage)))
    OBVIOUS
  <2>2. PICK n, l : FoundAt(stage, va, n, l, dest) /\ Span(Mode(stage), l) = m.page_size
    BY <1>1, <1>3, <2>1, MappedIsFound
  <2>3. TranslateStage(stage, va) = dest /\ (m.page_size = SIZE_4K => TranslateInC(stage, va) = dest)
    BY <1>1, <2>2, EntriesReadable, WalksTo
  <2> QED
    BY <2>1, <2>3
<1> QED
  BY <1>2, <1>3, Zenon

(* The four invariants of the generator that the two walks rest on.        *)
WalksInv == NamesInv /\ RootsInv /\ WalkInv /\ MapsInv

LEMMA WalksInvHolds == Spec => [](TablesInv /\ WalksInv)
<1>1. Init => WalksInv
  <2>1. DOMAIN <<>> = {}
    OBVIOUS
  <2>2. ASSUME Init PROVE NamesInv /\ RootsInv /\ MapsInv
    BY <2>1, <2>2 DEF Init, MapInit, TablesInit, NamesInv, RootsInv, MapsInv, ReadersInv, BuiltInv,
                      GuestInv, MapChecked
  <2> QED
    BY <2>2, InitWalkInv DEF WalksInv
<1>2. TablesInv /\ WalksInv /\ [Next]_vars => WalksInv'
  <2> SUFFICES ASSUME TablesInv, WalksInv, [Next]_vars PROVE WalksInv'
    OBVIOUS
  <2>1. NamesInv'
    BY NamesStep DEF TablesInv, TileInv, WalksInv
  <2>2. RootsInv'
    BY RootsStep DEF TablesInv, WalksInv
  <2>3. BegunInv'
    BY BegunStep DEF TablesInv
  <2>4. WalkInv'
    BY <2>3, WalkInvStep DEF TablesInv, WalksInv
  <2>5. MapsInv'
    BY ReadersStep, BuiltStep, GuestStep DEF TablesInv, WalksInv, MapsInv
  <2> QED
    BY <2>1, <2>2, <2>4, <2>5 DEF WalksInv
<1> QED
  BY <1>1, <1>2, TablesInvHolds, PTL DEF Spec

(* When the generator is done, every entry of every page table is mapped   *)
(* to where it is for all that read it, in HS-mode also those of the       *)
(* guest, if no mapping of the diag is named like page tables and no       *)
(* destination is beyond the physical addresses: nothing in the generator  *)
(* checks either (add_pagetable_mappings, generate_diag_sources.py:331).   *)
THEOREM TablesAreReadable == Spec => [](DiagNamesNoTable /\ DestinationsFit => TablesReadable)
<1>1. TablesInv /\ WalksInv => (DiagNamesNoTable /\ DestinationsFit => TablesReadable)
  <2> SUFFICES ASSUME TablesInv, WalksInv, DiagNamesNoTable, DestinationsFit, phase = "done"
               PROVE  TablesReadable
    BY DEF TablesReadable
  <2> QED
    BY ReadableDone DEF Generated, WalksInv
<1> QED
  BY <1>1, WalksInvHolds, PTL

(* And the walks of the generator and of the diag both find what the map   *)
(* says of an address, for pages of every size in the first and of 4K in   *)
(* the second, and nothing where it says nothing: under the same two       *)
(* conditions, and of the stages whose sources are aligned                 *)
(* (translate_stage, page_tables.py:503; translate, tablewalk.smode.c:61). *)
THEOREM WalksMatchTheMap == Spec => [](DiagNamesNoTable /\ DestinationsFit => WalkMatchesMap)
<1>1. TablesInv /\ WalksInv => (DiagNamesNoTable /\ DestinationsFit => WalkMatchesMap)
  <2> SUFFICES ASSUME TablesInv, WalksInv, DiagNamesNoTable, DestinationsFit, phase = "done"
               PROVE  WalkMatchesMap
    BY DEF WalkMatchesMap
  <2> QED
    BY MapMatches DEF Generated, WalksInv
<1> QED
  BY <1>1, WalksInvHolds, PTL

----------------------------------------------------------------------------
(* Areas that follow each other                                            *)

LEMMA LeastIs ==
  ASSUME NEW P \in SUBSET Nat, NEW x \in P, \A y \in P : x <= y
  PROVE  Min(P) = x
<1>1. \E y \in P : \A z \in P : y <= z
  OBVIOUS
<1>2. Min(P) \in P /\ \A z \in P : Min(P) <= z
  BY <1>1, Zenon DEF Min
<1>3. PICK m \in P : m = Min(P)
  BY <1>2
<1>4. m <= x /\ x <= m /\ m \in Int /\ x \in Int
  BY <1>2, <1>3
<1> QED
  BY <1>3, <1>4

(* Starts is a recursive function of the number of areas.                  *)
StartsBy(base, sizes, n, f) ==
  f = [k \in 1..n |-> IF k = 1 THEN base ELSE f[k - 1] + sizes[k - 1]]

LEMMA StartsExist ==
  ASSUME NEW base, NEW sizes, NEW n \in Nat
  PROVE  \E f : StartsBy(base, sizes, n, f)
<1> DEFINE M == {k \in Nat : ~\E f : StartsBy(base, sizes, k, f)}
<1> SUFFICES ASSUME M # {} PROVE FALSE
  OBVIOUS
<1>1. PICK m \in M : \A y \in M : m <= y
  BY LeastNatural
<1>2. m \in Nat /\ ~\E f : StartsBy(base, sizes, m, f)
  OBVIOUS
<1>3. m # 0
  <2>1. StartsBy(base, sizes, 0, [k \in 1..0 |-> 0])
    BY DEF StartsBy
  <2> QED
    BY <1>2, <2>1
<1>4. m - 1 \in Nat /\ m - 1 \notin M
  BY <1>1, <1>2, <1>3
<1>5. PICK f : StartsBy(base, sizes, m - 1, f)
  BY <1>4
<1> DEFINE g == [k \in 1..m |-> IF k < m THEN f[k]
                                ELSE IF k = 1 THEN base ELSE f[k - 1] + sizes[k - 1]]
<1>6. g = [k \in 1..m |-> IF k = 1 THEN base ELSE g[k - 1] + sizes[k - 1]]
  <2> SUFFICES ASSUME NEW k \in 1..m
               PROVE  g[k] = IF k = 1 THEN base ELSE g[k - 1] + sizes[k - 1]
    OBVIOUS
  <2>1. k # 1 => k - 1 \in 1..m - 1 /\ g[k - 1] = f[k - 1]
    BY <1>2
  <2>2. CASE k < m
    <3>1. k \in 1..m - 1
      BY <1>2, <2>2
    <3>2. f[k] = IF k = 1 THEN base ELSE f[k - 1] + sizes[k - 1]
      BY <1>5, <3>1, Zenon DEF StartsBy
    <3>3. g[k] = f[k]
      BY <2>2
    <3> HIDE DEF g
    <3> QED
      BY <2>1, <3>2, <3>3
  <2>3. CASE ~(k < m)
    <3>1. g[k] = IF k = 1 THEN base ELSE f[k - 1] + sizes[k - 1]
      BY <2>3
    <3> HIDE DEF g
    <3> QED
      BY <2>1, <3>1
  <2> QED
    BY <2>2, <2>3
<1> HIDE DEF g
<1>7. StartsBy(base, sizes, m, g)
  BY <1>6 DEF StartsBy
<1> QED
  BY <1>2, <1>7

(* Each area starts where the one before it ends.                          *)
Follow(s, base, sizes, n) ==
  /\ s[1] = base /\ \A k \in 1..n + 1 : s[k] \in Int
  /\ \A k \in 1..n : s[k + 1] = s[k] + sizes[k]

LEMMA StartsFollow ==
  ASSUME NEW base \in Int, NEW n \in Nat, NEW sizes, Len(sizes) = n,
         \A k \in 1..n : sizes[k] \in Int
  PROVE  Follow(Starts(base, sizes), base, sizes, n)
<1>1. PICK N : N = n + 1 /\ N \in Nat
  OBVIOUS
<1> DEFINE s == CHOOSE s : s = [k \in 1..n + 1 |-> IF k = 1 THEN base ELSE s[k - 1] + sizes[k - 1]]
<1>2. Starts(base, sizes) = s
  BY Zenon DEF Starts
<1>3. s = [k \in 1..n + 1 |-> IF k = 1 THEN base ELSE s[k - 1] + sizes[k - 1]]
  <2>1. \E f : StartsBy(base, sizes, n + 1, f)
    BY <1>1, StartsExist
  <2>2. \E f : f = [k \in 1..n + 1 |-> IF k = 1 THEN base ELSE f[k - 1] + sizes[k - 1]]
    BY <2>1, Zenon DEF StartsBy
  <2> QED
    BY <2>2, Zenon
<1> HIDE DEF s
<1>4. \A k \in 1..n + 1 : s[k] = IF k = 1 THEN base ELSE s[k - 1] + sizes[k - 1]
  BY <1>3, Zenon
<1>5. s[1] = base
  BY <1>4
<1> DEFINE M == {k \in 1..n + 1 : s[k] \notin Int}
<1>6. M = {}
  <2> SUFFICES ASSUME M # {} PROVE FALSE
    OBVIOUS
  <2>1. M \in SUBSET Nat
    OBVIOUS
  <2>2. PICK k \in M : \A y \in M : k <= y
    BY <2>1, LeastNatural
  <2>3. k \in 1..n + 1 /\ s[k] \notin Int
    OBVIOUS
  <2>4. k # 1
    BY <1>5, <2>3
  <2>5. k - 1 \in 1..n /\ k - 1 \in 1..n + 1 /\ k - 1 < k
    BY <2>3, <2>4
  <2>6. s[k - 1] \in Int
    <3>1. k - 1 \notin M
      BY <2>2, <2>3, <2>5
    <3> QED
      BY <2>5, <3>1
  <2> QED
    BY <1>4, <2>3, <2>4, <2>5, <2>6
<1>7. \A k \in 1..n : s[k + 1] = s[k] + sizes[k]
  <2> SUFFICES ASSUME NEW k \in 1..n PROVE s[k + 1] = s[k] + sizes[k]
    OBVIOUS
  <2>1. k + 1 \in 1..n + 1 /\ k + 1 # 1 /\ (k + 1) - 1 = k
    OBVIOUS
  <2> QED
    BY <1>4, <2>1
<1>8. Follow(s, base, sizes, n)
  BY <1>5, <1>6, <1>7 DEF Follow
<1> QED
  BY <1>2, <1>8

(* No area starts before one that it follows.                              *)
LEMMA StartsGrow ==
  ASSUME NEW n \in Nat, NEW base, NEW sizes, NEW s, Follow(s, base, sizes, n),
         \A k \in 1..n : sizes[k] \in Nat, NEW k \in 1..n + 1
  PROVE  \A l \in 1..n + 1 : k <= l => s[k] <= s[l]
<1> DEFINE M == {l \in 1..n + 1 : k <= l /\ ~(s[k] <= s[l])}
<1> SUFFICES ASSUME M # {} PROVE FALSE
  OBVIOUS
<1>1. M \in SUBSET Nat
  OBVIOUS
<1>2. PICK l \in M : \A y \in M : l <= y
  BY <1>1, LeastNatural
<1>3. l \in 1..n + 1 /\ k <= l /\ ~(s[k] <= s[l])
  OBVIOUS
<1>4. s[k] \in Int /\ s[l] \in Int
  BY <1>3 DEF Follow
<1>5. l # k
  BY <1>3, <1>4
<1>6. l - 1 \in 1..n /\ l - 1 \in 1..n + 1 /\ k <= l - 1 /\ l - 1 < l
  BY <1>3, <1>5
<1>7. s[k] <= s[l - 1]
  <2>1. l - 1 \notin M
    BY <1>2, <1>3, <1>6
  <2> QED
    BY <1>6, <2>1
<1>8. s[l] = s[l - 1] + sizes[l - 1] /\ s[l - 1] \in Int /\ sizes[l - 1] \in Nat
  <2>1. (l - 1) + 1 = l
    BY <1>3
  <2> QED
    BY <1>6, <2>1 DEF Follow
<1> QED
  BY <1>3, <1>4, <1>7, <1>8

(* Areas of one size lie at its multiples.                                 *)
SameSize(sizes, p, L, z) == \A c \in 1..L : sizes[p + c] = z
Multiples(s, p, L, z) == \A c \in 0..L : s[p + c + 1] = s[p + 1] + c * z

LEMMA StartsInRun ==
  ASSUME NEW n \in Nat, NEW base, NEW sizes, NEW s, Follow(s, base, sizes, n),
         NEW p \in Nat, NEW L \in Nat, p + L <= n, NEW z \in Int,
         SameSize(sizes, p, L, z)
  PROVE  Multiples(s, p, L, z)
<1> DEFINE M == {c \in 0..L : s[p + c + 1] # s[p + 1] + c * z}
<1> SUFFICES ASSUME M # {} PROVE FALSE
  BY DEF Multiples
<1>1. M \in SUBSET Nat
  OBVIOUS
<1>2. PICK c \in M : \A y \in M : c <= y
  BY <1>1, LeastNatural
<1>3. c \in 0..L /\ s[p + c + 1] # s[p + 1] + c * z
  OBVIOUS
<1>4. s[p + 1] \in Int
  BY DEF Follow
<1>5. c # 0
  BY <1>3, <1>4
<1>6. c - 1 \in 0..L /\ c \in 1..L /\ c - 1 < c /\ p + c \in 1..n /\ p + (c - 1) + 1 = p + c
  BY <1>3, <1>5
<1>7. s[p + c] = s[p + 1] + (c - 1) * z
  <2>1. c - 1 \notin M
    BY <1>2, <1>3, <1>6
  <2> HIDE DEF M
  <2>2. s[p + (c - 1) + 1] = s[p + 1] + (c - 1) * z
    BY <1>6, <2>1 DEF M
  <2> QED
    BY <1>6, <2>2
<1>8. s[p + c + 1] = s[p + c] + z
  BY <1>6 DEF Follow, SameSize
<1>9. (c - 1) * z + z = c * z
  BY <1>3
<1>10. (c - 1) * z \in Int /\ c * z \in Int
  BY <1>3
<1> QED
  BY <1>3, <1>4, <1>7, <1>8, <1>9, <1>10

----------------------------------------------------------------------------
(* Lists of pieces of one length                                           *)

(* The k-th of L places of the i-th of n rows.                             *)
LEMMA RowIn ==
  ASSUME NEW n \in Nat, NEW L \in Nat, NEW i \in 1..n, NEW k \in 1..L
  PROVE  /\ n * L \in Nat /\ (i - 1) * L \in Nat
         /\ (i - 1) * L + k \in 1..n * L
         /\ (i - 1) * L + L = i * L /\ i * L <= n * L
<1>1. PICK a \in Nat, b \in Nat : a = i - 1 /\ b = n - i
  OBVIOUS
<1>2. PICK x \in Nat, y \in Nat : x = a * L /\ y = b * L
  OBVIOUS
<1>3. n * L = y + x + L /\ i * L = x + L
  <2>1. n = b + a + 1 /\ i = a + 1
    BY <1>1
  <2>2. (b + a + 1) * L = b * L + a * L + L /\ (a + 1) * L = a * L + L
    OBVIOUS
  <2> QED
    BY <1>2, <2>1, <2>2
<1>4. (i - 1) * L = x
  BY <1>1, <1>2
<1> QED
  BY <1>2, <1>3, <1>4

(* Every place is one of a row.                                            *)
LEMMA RowOf ==
  ASSUME NEW n \in Nat, NEW L \in Nat, NEW p \in 1..n * L
  PROVE  \E i \in 1..n, k \in 1..L : p = (i - 1) * L + k
<1> DEFINE M == {i \in 1..n : p <= i * L}
<1>1. n \in M
  <2>1. n # 0
    <3>1. 0 * L = 0
      OBVIOUS
    <3> QED
      BY <3>1
  <2>2. p <= n * L /\ n \in 1..n
    BY <2>1
  <2> QED
    BY <2>2
<1>2. M \in SUBSET Nat
  OBVIOUS
<1>3. PICK i \in M : \A y \in M : i <= y
  BY <1>1, <1>2, LeastNatural
<1>4. i \in 1..n /\ p <= i * L
  OBVIOUS
<1>5. PICK x \in Int : x = (i - 1) * L
  BY <1>4
<1>6. x < p
  <2>1. CASE i = 1
    BY <1>5, <2>1
  <2>2. CASE i # 1
    <3>1. i - 1 \in 1..n /\ i - 1 < i
      BY <1>4, <2>2
    <3>2. i - 1 \notin M
      BY <1>3, <1>4, <3>1
    <3> QED
      BY <1>5, <3>1, <3>2
  <2> QED
    BY <2>1, <2>2
<1>7. i * L = x + L
  BY <1>4, <1>5
<1>8. p - x \in 1..L /\ p = x + (p - x)
  <2>1. p \in Int
    <3>1. n * L \in Nat
      OBVIOUS
    <3> QED
      BY <3>1
  <2> QED
    BY <1>4, <1>5, <1>6, <1>7, <2>1
<1> QED
  BY <1>4, <1>5, <1>8

(* Every position of the whole is one of a piece.                          *)
Pieces(seqs, n, L, flat) ==
  /\ Len(flat) = n * L /\ DOMAIN flat = 1..n * L
  /\ \A i \in 1..n : \A k \in 1..L : flat[(i - 1) * L + k] = seqs[i][k]

LEMMA FlattenPieces ==
  ASSUME NEW S, NEW seqs \in Seq(Seq(S)), NEW n \in Nat, Len(seqs) = n, NEW L \in Nat,
         \A i \in 1..n : Len(seqs[i]) = L
  PROVE  Pieces(seqs, n, L, FlattenSeq(seqs))
<1>1. PICK f : FlattenedBy(seqs, S, f)
  BY FlattenParts
<1> DEFINE Joined(i) == /\ Len(f[i]) = i * L
                        /\ \A j \in 1..i : \A k \in 1..L : f[i][(j - 1) * L + k] = seqs[j][k]
           M == {i \in 1..n : ~Joined(i)}
<1>2. ASSUME NEW i \in 1..n PROVE f[i] \in Seq(S) /\ seqs[i] \in Seq(S)
  BY <1>1 DEF FlattenedBy
<1>3. M = {}
  <2> SUFFICES ASSUME M # {} PROVE FALSE
    OBVIOUS
  <2>1. M \in SUBSET Nat
    OBVIOUS
  <2>2. PICK i \in M : \A y \in M : i <= y
    BY <2>1, LeastNatural
  <2>3. i \in 1..n /\ ~Joined(i)
    OBVIOUS
  <2>4. CASE i = 1
    <3>1. f[1] = seqs[1] /\ Len(seqs[1]) = L
      BY <1>1, <2>3, <2>4 DEF FlattenedBy
    <3>2. \A j \in 1..1 : j = 1 /\ \A k \in 1..L : (j - 1) * L + k = k
      OBVIOUS
    <3>3. Joined(1)
      BY <3>1, <3>2
    <3> QED
      BY <2>3, <2>4, <3>3
  <2>5. CASE i # 1
    <3>1. i - 1 \in 1..n /\ i - 1 < i
      BY <2>3, <2>5
    <3>2. Joined(i - 1)
      <4>1. i - 1 \notin M
        BY <2>2, <2>3, <3>1
      <4> HIDE DEF Joined
      <4> QED
        BY <3>1, <4>1
    <3>3. f[i] = f[i - 1] \o seqs[i]
      BY <1>1, <2>3, <2>5 DEF FlattenedBy
    <3>4. Joins(f[i - 1], seqs[i], f[i])
      BY <1>2, <2>3, <3>1, <3>3, JoinedLists
    <3>5. PICK x \in Nat : x = (i - 1) * L /\ x + L = i * L
      <4>1. PICK a \in Nat : a = i - 1 /\ i = a + 1
        BY <2>3, <3>1
      <4>2. a * L \in Nat /\ a * L + L = (a + 1) * L
        OBVIOUS
      <4> QED
        BY <4>1, <4>2
    <3>6. Len(f[i]) = i * L
      BY <2>3, <3>2, <3>4, <3>5 DEF Joins
    <3>7. ASSUME NEW j \in 1..i, NEW k \in 1..L PROVE f[i][(j - 1) * L + k] = seqs[j][k]
      <4>1. CASE j = i
        BY <2>3, <3>2, <3>4, <3>5, <4>1 DEF Joins
      <4>2. CASE j # i
        <5>1. j \in 1..i - 1 /\ i - 1 \in Nat
          BY <2>3, <3>1, <4>2
        <5>2. (j - 1) * L + k \in 1..(i - 1) * L
          BY <5>1, RowIn
        <5>3. f[i - 1][(j - 1) * L + k] = seqs[j][k]
          BY <3>2, <5>1
        <5>4. (j - 1) * L + k \in 1..Len(f[i - 1])
          BY <3>2, <5>2
        <5> QED
          BY <3>4, <5>3, <5>4 DEF Joins
      <4> QED
        BY <4>1, <4>2
    <3>8. Joined(i)
      BY <3>6, <3>7
    <3> QED
      BY <2>3, <3>8
  <2> QED
    BY <2>4, <2>5
<1>4. \A i \in 1..n : Joined(i)
  BY <1>3
<1>5. FlattenSeq(seqs) \in Seq(S)
  BY FlattenType
<1>6. CASE n = 0
  <2>1. FlattenSeq(seqs) = <<>> /\ n * L = 0
    BY <1>1, <1>6 DEF FlattenedBy
  <2>2. Len(<<>>) = 0 /\ DOMAIN <<>> = 1..0 /\ 1..n = {}
    BY <1>6
  <2> QED
    BY <2>1, <2>2 DEF Pieces
<1>7. CASE n # 0
  <2>1. FlattenSeq(seqs) = f[n] /\ n \in 1..n
    BY <1>1, <1>7 DEF FlattenedBy
  <2>2. Joined(n)
    BY <1>4, <2>1
  <2>3. DOMAIN FlattenSeq(seqs) = 1..Len(FlattenSeq(seqs))
    BY <1>5
  <2> QED
    BY <2>1, <2>2, <2>3 DEF Pieces
<1> QED
  BY <1>6, <1>7

----------------------------------------------------------------------------
(* Blocks                                                                  *)

(* The blocks of a label are a piece of the list, those of a CPU lie at    *)
(* the same places of every piece.                                         *)
Rows(blocks, n, L, labels, cpus) ==
  /\ DOMAIN blocks = 1..n * L
  /\ \A i \in 1..n : \A k \in 1..L : /\ blocks[(i - 1) * L + k].label = labels[i]
                                     /\ blocks[(i - 1) * L + k].cpu = cpus[k]
  /\ \A i, j \in 1..n : labels[i] = labels[j] => i = j

RowOfLabel(blocks, label, i, L) ==
  \A p \in Labelled(blocks, label) : \E k \in 1..L : p = (i - 1) * L + k
FirstOf(cpus, k, L) == \A l \in 1..L : cpus[l] = cpus[k] => k <= l
FirstFound(blocks, label, i, L, cpus) ==
  /\ LabelStart(blocks, label) = blocks[(i - 1) * L + 1].start
  /\ \A k \in 1..L : FirstOf(cpus, k, L) =>
       BlockOf(blocks, label, cpus[k]) = blocks[(i - 1) * L + k]

LEMMA LabelFound ==
  ASSUME NEW n \in Nat, NEW L \in Nat \ {0}, NEW blocks, NEW labels, NEW cpus,
         Rows(blocks, n, L, labels, cpus), NEW i \in 1..n
  PROVE  RowOfLabel(blocks, labels[i], i, L) /\ FirstFound(blocks, labels[i], i, L, cpus)
<1> DEFINE P == Labelled(blocks, labels[i])
<1>1. \A k \in 1..L : (i - 1) * L + k \in 1..n * L
  BY RowIn
<1>2. P = {(i - 1) * L + k : k \in 1..L}
  <2>1. ASSUME NEW p \in P PROVE p \in {(i - 1) * L + k : k \in 1..L}
    <3>1. p \in 1..n * L /\ blocks[p].label = labels[i]
      BY DEF Labelled, Rows
    <3>2. PICK j \in 1..n, k \in 1..L : p = (j - 1) * L + k
      BY <3>1, RowOf
    <3>3. blocks[p].label = labels[j]
      BY <3>2 DEF Rows
    <3>4. j = i
      BY <3>1, <3>3 DEF Rows
    <3> QED
      BY <3>2, <3>4
  <2>2. ASSUME NEW k \in 1..L PROVE (i - 1) * L + k \in P
    <3>1. blocks[(i - 1) * L + k].label = labels[i]
      BY DEF Rows
    <3> QED
      BY <1>1, <3>1 DEF Labelled, Rows
  <2> HIDE DEF P
  <2> QED
    BY <2>1, <2>2
<1> HIDE DEF P
<1>3. PICK x \in Nat : x = (i - 1) * L
  BY RowIn
<1>4. P \in SUBSET Nat
  BY <1>2, <1>3
<1>5. Min(P) = (i - 1) * L + 1
  <2>1. x + 1 \in P /\ \A y \in P : x + 1 <= y
    BY <1>2, <1>3
  <2> QED
    BY <1>3, <1>4, <2>1, LeastIs
<1>6. ASSUME NEW k \in 1..L, \A l \in 1..L : cpus[l] = cpus[k] => k <= l
      PROVE  BlockOf(blocks, labels[i], cpus[k]) = blocks[(i - 1) * L + k]
  <2> DEFINE Q == {p \in P : blocks[p].cpu = cpus[k]}
  <2>1. x + k \in Q
    BY <1>2, <1>3 DEF Rows
  <2>2. ASSUME NEW p \in Q PROVE x + k <= p
    <3>1. PICK l \in 1..L : p = (i - 1) * L + l
      BY <1>2
    <3>2. cpus[l] = cpus[k]
      BY <3>1 DEF Rows
    <3> QED
      BY <1>3, <1>6, <3>1, <3>2
  <2>3. Q \in SUBSET Nat
    BY <1>4
  <2>4. BlockOf(blocks, labels[i], cpus[k]) = blocks[Min(Q)]
    BY Zenon DEF BlockOf, P
  <2> HIDE DEF Q
  <2>5. Min(Q) = x + k
    BY <2>1, <2>2, <2>3, LeastIs
  <2> QED
    BY <1>3, <2>4, <2>5
<1> QED
  BY <1>2, <1>5, <1>6 DEF LabelStart, P, RowOfLabel, FirstFound, FirstOf

(* Placing the blocks of a list leaves them as they are.                   *)
Block(label, cpu, size) == [label |-> label, cpu |-> cpu, size |-> size]
IsBlock(b) == b = Block(b.label, b.cpu, b.size) /\ b.size \in Nat
PlacedBy(b, blocks, base, n, s) ==
  /\ Follow(s, base, [k \in 1..n |-> blocks[k].size], n)
  /\ \A k \in 1..n : /\ b[k].label = blocks[k].label /\ b[k].cpu = blocks[k].cpu
                     /\ b[k].size = blocks[k].size /\ b[k].start = s[k]

LEMMA PlacedBlocks ==
  ASSUME NEW base \in Int, NEW n \in Nat, NEW blocks, DOMAIN blocks = 1..n,
         \A k \in 1..n : IsBlock(blocks[k]),
         NEW b, b = Placed(base, blocks)
  PROVE  /\ b = [k \in 1..n |-> b[k]]
         /\ \E s : PlacedBy(b, blocks, base, n, s)
<1> DEFINE sizes == [k \in 1..n |-> blocks[k].size]
           s == Starts(base, sizes)
<1>1. b = [k \in 1..n |-> Override(blocks[k], [start |-> s[k]])]
  BY DEF Placed
<1>2. \A k \in 1..n : sizes[k] \in Int
  BY DEF IsBlock
<1>3. Len(sizes) = n
  OBVIOUS
<1> HIDE DEF sizes
<1>4. Follow(s, base, sizes, n)
  BY <1>2, <1>3, StartsFollow
<1> HIDE DEF s
<1>5. ASSUME NEW k \in 1..n
      PROVE  /\ b[k].label = blocks[k].label /\ b[k].cpu = blocks[k].cpu
             /\ b[k].size = blocks[k].size /\ b[k].start = s[k]
  <2>1. b[k] = Override(blocks[k], [start |-> s[k]])
    BY <1>1
  <2>2. DOMAIN blocks[k] = {"label", "cpu", "size"}
    <3>1. PICK x, y, z : blocks[k] = [label |-> x, cpu |-> y, size |-> z]
      BY DEF IsBlock, Block
    <3> QED
      BY <3>1
  <2> QED
    BY <2>1, <2>2 DEF Override
<1>6. PlacedBy(b, blocks, base, n, s)
  BY <1>4, <1>5 DEF PlacedBy, sizes
<1> QED
  BY <1>1, <1>6

----------------------------------------------------------------------------
(* The fields of a struct                                                  *)

FieldTyped(f) == f.size \in {1, 2, 4, 8} /\ f.num_elements \in Nat

(* Aligning goes up, to a multiple.                                        *)
LEMMA AlignUpFacts ==
  ASSUME NEW a \in Nat, NEW z \in {1, 2, 4, 8}
  PROVE  AlignUp(a, z) \in Nat /\ a <= AlignUp(a, z) /\ AlignUp(a, z) % z = 0
<1>1. CASE z = 1
  BY <1>1 DEF AlignUp
<1>2. CASE z = 2
  BY <1>2 DEF AlignUp
<1>3. CASE z = 4
  BY <1>3 DEF AlignUp
<1>4. CASE z = 8
  BY <1>4 DEF AlignUp
<1> QED
  BY <1>1, <1>2, <1>3, <1>4

(* FieldEnds is a recursive function of the number of fields.              *)
EndsBy(fields, n, f) ==
  f = [k \in 0..n |-> IF k = 0 THEN 0
                      ELSE AlignUp(f[k - 1], fields[k].size) + fields[k].size * fields[k].num_elements]

LEMMA EndsExist ==
  ASSUME NEW fields, NEW n \in Nat
  PROVE  \E f : EndsBy(fields, n, f)
<1> DEFINE M == {k \in Nat : ~\E f : EndsBy(fields, k, f)}
<1> SUFFICES ASSUME M # {} PROVE FALSE
  OBVIOUS
<1>1. PICK m \in M : \A y \in M : m <= y
  BY LeastNatural
<1>2. m \in Nat /\ ~\E f : EndsBy(fields, m, f)
  OBVIOUS
<1>3. m # 0
  <2> DEFINE f == [k \in 0..0 |-> 0]
  <2>1. \A k \in 0..0 : k = 0
    OBVIOUS
  <2>2. f = [k \in 0..0 |-> IF k = 0 THEN 0
                            ELSE AlignUp(f[k - 1], fields[k].size)
                                   + fields[k].size * fields[k].num_elements]
    BY <2>1
  <2> HIDE DEF f
  <2>3. EndsBy(fields, 0, f)
    BY <2>2 DEF EndsBy
  <2> QED
    BY <1>2, <2>3
<1>4. m - 1 \in Nat /\ m - 1 \notin M
  BY <1>1, <1>2, <1>3
<1>5. PICK f : EndsBy(fields, m - 1, f)
  BY <1>4
<1> DEFINE Next_(h, k) == AlignUp(h[k - 1], fields[k].size) + fields[k].size * fields[k].num_elements
           g == [k \in 0..m |-> IF k < m THEN f[k] ELSE Next_(f, k)]
<1>6. \A k \in 0..m - 1 : g[k] = f[k]
  BY <1>2
<1>7. ASSUME NEW k \in 0..m PROVE g[k] = IF k = 0 THEN 0 ELSE Next_(g, k)
  <2>1. k # 0 => k - 1 \in 0..m - 1
    BY <1>2
  <2>2. CASE k < m
    <3>1. k \in 0..m - 1
      BY <1>2, <2>2
    <3>2. f[k] = IF k = 0 THEN 0 ELSE Next_(f, k)
      BY <1>5, <3>1, Zenon DEF EndsBy
    <3> HIDE DEF g
    <3> QED
      BY <1>6, <2>1, <3>1, <3>2
  <2>3. CASE ~(k < m)
    <3>1. g[k] = Next_(f, k) /\ k # 0
      BY <1>2, <1>3, <2>3
    <3> HIDE DEF g
    <3> QED
      BY <1>6, <2>1, <3>1
  <2> QED
    BY <2>2, <2>3
<1>8. g = [k \in 0..m |-> g[k]]
  OBVIOUS
<1> HIDE DEF g
<1>9. g = [k \in 0..m |-> IF k = 0 THEN 0 ELSE Next_(g, k)]
  BY <1>7, <1>8
<1>10. EndsBy(fields, m, g)
  BY <1>9 DEF EndsBy
<1> QED
  BY <1>2, <1>10

(* Every field starts at a multiple of its size behind those before it and *)
(* ends within the struct.                                                 *)
FieldsApart(fields) ==
  \A n \in DOMAIN fields :
    /\ FieldOffset(fields, n) % fields[n].size = 0
    /\ \A k \in 1..n - 1 : FieldEnds(fields)[k] <= FieldOffset(fields, n)
    /\ FieldEnds(fields)[n] <= StructSize(fields)

LEMMA FieldsRight ==
  ASSUME NEW fields \in Seq([size : {1, 2, 4, 8}, num_elements : Nat])
  PROVE  StructSize(fields) \in Nat /\ FieldsApart(fields)
<1> DEFINE n == Len(fields)
           e == FieldEnds(fields)
           at_(k) == AlignUp(e[k - 1], fields[k].size)
           width(k) == fields[k].size * fields[k].num_elements
<1>1. n \in Nat /\ DOMAIN fields = 1..n /\ \A k \in 1..n : FieldTyped(fields[k])
  <2>1. PICK S : S = [size : {1, 2, 4, 8}, num_elements : Nat]
    OBVIOUS
  <2>2. \A f \in S : FieldTyped(f)
    BY <2>1 DEF FieldTyped
  <2>3. fields \in Seq(S)
    BY <2>1
  <2> QED
    BY <2>2, <2>3
<1>2. e = [k \in 0..n |-> IF k = 0 THEN 0 ELSE at_(k) + width(k)]
  <2> DEFINE f == CHOOSE f : f = [k \in 0..n |-> IF k = 0 THEN 0
                      ELSE AlignUp(f[k - 1], fields[k].size) + fields[k].size * fields[k].num_elements]
  <2>1. e = f
    BY Zenon DEF FieldEnds
  <2>2. \E f_ : EndsBy(fields, n, f_)
    BY <1>1, EndsExist
  <2>3. f = [k \in 0..n |-> IF k = 0 THEN 0
               ELSE AlignUp(f[k - 1], fields[k].size) + fields[k].size * fields[k].num_elements]
    BY <2>2, Zenon DEF EndsBy
  <2> HIDE DEF f
  <2> QED
    BY <2>1, <2>3
<1> HIDE DEF n, e
<1>3. e[0] = 0 /\ \A k \in 1..n : e[k] = at_(k) + width(k)
  <2>1. 0 \in 0..n /\ \A k \in 1..n : k \in 0..n /\ k # 0
    BY <1>1
  <2> QED
    BY <1>2, <2>1, Zenon
<1> DEFINE Low(k) == e[k] \in Nat /\ \A l \in 0..k : e[l] <= e[k]
           M == {k \in 0..n : ~Low(k)}
<1>4. ASSUME NEW k \in 1..n, e[k - 1] \in Nat
      PROVE  /\ at_(k) \in Nat /\ width(k) \in Nat /\ e[k - 1] <= at_(k)
             /\ at_(k) % fields[k].size = 0 /\ e[k] = at_(k) + width(k) /\ e[k] \in Nat
  <2>1. FieldTyped(fields[k])
    BY <1>1
  <2>2. PICK z \in {1, 2, 4, 8}, m \in Nat : z = fields[k].size /\ m = fields[k].num_elements
    BY <2>1 DEF FieldTyped
  <2>3. AlignUp(e[k - 1], z) \in Nat /\ e[k - 1] <= AlignUp(e[k - 1], z) /\ AlignUp(e[k - 1], z) % z = 0
    BY <1>4, AlignUpFacts
  <2>4. z * m \in Nat
    OBVIOUS
  <2> QED
    <3>1. at_(k) = AlignUp(e[k - 1], z) /\ width(k) = z * m /\ e[k] = at_(k) + width(k)
      BY <1>3, <2>2
    <3> HIDE DEF at_, width
    <3> QED
      BY <2>2, <2>3, <2>4, <3>1
<1> HIDE DEF at_, width
<1>5. M = {}
  <2> SUFFICES ASSUME M # {} PROVE FALSE
    OBVIOUS
  <2>1. M \in SUBSET Nat
    BY <1>1
  <2>2. PICK k \in M : \A y \in M : k <= y
    BY <2>1, LeastNatural
  <2>3. k \in 0..n /\ ~Low(k)
    OBVIOUS
  <2>4. k # 0
    <3>1. \A l \in 0..0 : l = 0
      OBVIOUS
    <3>2. Low(0)
      BY <1>3, <3>1
    <3> QED
      BY <2>3, <3>2
  <2>5. k \in 1..n /\ k - 1 \in 0..n /\ k - 1 < k
    BY <1>1, <2>3, <2>4
  <2>6. Low(k - 1)
    <3>1. k - 1 \notin M
      BY <2>2, <2>5
    <3> HIDE DEF Low
    <3> QED
      BY <2>5, <3>1
  <2>7. e[k] \in Nat /\ e[k - 1] <= e[k] /\ e[k - 1] \in Nat
    BY <1>4, <2>5, <2>6
  <2>8. ASSUME NEW l \in 0..k PROVE e[l] <= e[k]
    <3>1. CASE l = k
      BY <2>7, <3>1
    <3>2. CASE l # k
      <4>1. l \in 0..k - 1
        BY <2>5, <3>2
      <4>2. e[l] <= e[k - 1]
        BY <2>6, <4>1
      <4>3. e[l] \in Nat
        <5>1. l \in 0..n /\ l < k
          BY <1>1, <2>5, <4>1
        <5>2. l \notin M
          <6>1. l \in Int /\ k \in Int
            BY <2>5, <5>1
          <6> HIDE DEF M
          <6> QED
            BY <2>2, <5>1, <6>1
        <5>3. Low(l)
          BY <5>1, <5>2
        <5> QED
          BY <5>3
      <4> QED
        BY <2>7, <4>2, <4>3
    <3> QED
      BY <3>1, <3>2
  <2> QED
    BY <2>3, <2>7, <2>8
<1>6. \A k \in 0..n : Low(k)
  BY <1>5
<1>7. StructSize(fields) \in Nat /\ e[n] <= StructSize(fields)
  <2>1. e[n] \in Nat
    BY <1>1, <1>6
  <2>2. StructSize(fields) = AlignUp(e[n], 8)
    BY DEF StructSize, n, e
  <2> QED
    BY <2>1, <2>2, AlignUpFacts
<1>8. ASSUME NEW k \in 1..n
      PROVE  /\ FieldOffset(fields, k) % fields[k].size = 0
             /\ \A l \in 1..k - 1 : e[l] <= FieldOffset(fields, k)
             /\ e[k] <= StructSize(fields)
  <2>1. FieldOffset(fields, k) = at_(k)
    BY DEF FieldOffset, e, at_
  <2>2. k - 1 \in 0..n /\ k \in 0..n
    BY <1>1
  <2>3. Low(k - 1) /\ e[k - 1] \in Nat
    BY <1>6, <2>2
  <2>4. at_(k) \in Nat /\ e[k - 1] <= at_(k) /\ at_(k) % fields[k].size = 0
    BY <1>4, <2>3
  <2>5. \A l \in 1..k - 1 : l \in 0..n /\ l \in 0..k - 1
    BY <1>1
  <2>6. \A l \in 1..k - 1 : e[l] \in Nat /\ e[l] <= e[k - 1]
    BY <1>6, <2>3, <2>5
  <2>7. e[k] \in Nat /\ e[n] \in Nat /\ e[k] <= e[n]
    <3>1. Low(n) /\ Low(k) /\ k \in 0..n
      BY <1>1, <1>6, <2>2
    <3> QED
      BY <3>1
  <2>8. FieldOffset(fields, k) % fields[k].size = 0
    BY <2>1, <2>4
  <2>9. ASSUME NEW l \in 1..k - 1 PROVE e[l] <= FieldOffset(fields, k)
    <3>1. PICK x \in Nat, y \in Nat, z \in Nat :
            x = e[l] /\ y = e[k - 1] /\ z = FieldOffset(fields, k) /\ x <= y /\ y <= z
      BY <2>1, <2>3, <2>4, <2>6
    <3> QED
      BY <3>1
  <2>10. e[k] <= StructSize(fields)
    BY <1>7, <2>7
  <2> QED
    BY <2>8, <2>9, <2>10
<1> QED
  BY <1>1, <1>7, <1>8 DEF FieldsApart, e

----------------------------------------------------------------------------
(* Where the linker puts the areas of the CPUs                             *)

AreaSections == {StackSection(StackTypes[i]) : i \in DOMAIN StackTypes} \cup {StructSection}
(* No mapping that names the section of an area names another as well.     *)
AreasUnshared ==
  \A m \in ToSet(LinkerWork) : \A names \in AreaSections :
    Contains(m.linker_script_section, names[1]) => m.linker_script_section = names

AreaAt(names, m) ==
  /\ m \in ToSet(LinkerWork) /\ LinkedAt(m) \in Int
  /\ m.page_size \in Nat \ {0} /\ m.num_pages \in Int
  /\ SectionStart(names) = LinkedAt(m) * EntryBytes

(* At the mapping that was found for them: the first of that name.         *)
LEMMA AreaLinked ==
  ASSUME MapInv, MapChecked, Linked(sections), AreasUnshared,
         NEW names \in AreaSections, NEW x, names = <<x>>, x # ".text.startup", IsMapped(names)
  PROVE  AreaAt(names, MappingOfSection(names))
<1> DEFINE W == LinkerWork
           I == {i \in DOMAIN W : W[i].linker_script_section = names}
<1>1. /\ Len(W) \in Nat /\ DOMAIN W = 1..Len(W)
      /\ \A i \in DOMAIN W : Named(W[i]) /\ W[i] \in ToSet(W)
  BY LinkerWorkTyped DEF ToSet
<1>2. PICK l \in DOMAIN W : W[l].linker_script_section = names
  BY DEF IsMapped, ToSet
<1>3. names[1] = x /\ Len(names) = 1
  OBVIOUS
<1>4. Contains(names, x)
  BY <1>3 DEF Contains
<1>5. PICK i \in DOMAIN W : /\ Contains(W[i].linker_script_section, x) /\ FirstNamed(i)
                            /\ SectionStart(names) = LinkedAt(W[i]) * EntryBytes
  <2>1. Contains(W[l].linker_script_section, x)
    BY <1>2, <1>4
  <2> QED
    BY <2>1, NameLinked
<1>6. W[i].linker_script_section = names
  BY <1>1, <1>3, <1>5 DEF AreasUnshared
<1>7. Min(I) = i
  <2>1. i \in I /\ I \in SUBSET Nat
    BY <1>1, <1>6
  <2>2. ASSUME NEW j \in I PROVE i <= j
    <3>1. j \in DOMAIN W /\ W[j].linker_script_section = names
      OBVIOUS
    <3>2. SectionNames(W[j]) = SectionNames(W[i])
      BY <1>6, <3>1 DEF SectionNames
    <3>3. ~(j < i)
      BY <1>5, <3>1, <3>2 DEF FirstNamed
    <3> QED
      BY <1>1, <3>1, <3>3
  <2> HIDE DEF I
  <2> QED
    BY <2>1, <2>2, LeastIs
<1>8. MappingOfSection(names) = W[i]
  BY <1>7, Zenon DEF MappingOfSection
<1>9. PICK s \in EnabledSet : \E k \in DOMAIN memory_map[s] : W[i] = memory_map[s][k]
  BY <1>1 DEF Named
<1>10. MappingTyped(W[i], s)
  <2>1. MappingList(memory_map[s], s)
    BY DEF MapInv, MapTyped, Attributed, MapChecked
  <2> QED
    BY <1>9, <2>1, ListFacts
<1>11. LinkedAt(W[i]) \in Int /\ W[i].page_size \in Nat \ {0} /\ W[i].num_pages \in Int
  BY <1>10 DEF MappingTyped, LinkedAt
<1> QED
  BY <1>1, <1>5, <1>8, <1>11 DEF AreaAt

----------------------------------------------------------------------------
(* The modes that have a stack or a save area                              *)

Distinct(s) ==
  /\ Len(s) \in Nat /\ s = [k \in 1..Len(s) |-> s[k]]
  /\ \A i, j \in 1..Len(s) : s[i] = s[j] => i = j

(* intersection() of list_utils.py keeps the order of its first list, and  *)
(* what has no duplicate gets none.                                        *)
LEMMA IntersectionFacts ==
  ASSUME NEW n \in Nat, NEW s, DOMAIN s = 1..n, \A i, j \in 1..n : s[i] = s[j] => i = j, NEW t
  PROVE  /\ Distinct(Intersection(s, t))
         /\ \A k \in 1..Len(Intersection(s, t)) : \E i \in 1..n : Intersection(s, t)[k] = s[i]
<1> DEFINE I == {i \in DOMAIN s : Contains(t, s[i])}
           R == {p \in Pairs(I) : p[1] < p[2]}
           c == Cardinality(I)
<1>1. I \in SUBSET Int /\ I \subseteq 1..n
  OBVIOUS
<1>2. IsFiniteSet(I)
  BY FS_Interval, FS_Subset
<1> HIDE DEF I
<1>3. StrictOrder(I, R)
  BY <1>1, ChosenOrder
<1>4. Intersection(s, t) = Arranged(s, I, R)
  BY Zenon DEF Intersection, Chosen, I
<1>5. \A i, j : <<i, j>> \in R => i < j
  OBVIOUS
<1> HIDE DEF R
<1>6. PICK p : Arranges(s, I, R, p)
  BY <1>2, <1>3, ArrangedFacts
<1>7. c \in Nat /\ Len(Arranged(s, I, R)) = c
  BY <1>2, <1>3, ArrangedFacts
<1> HIDE DEF c
<1>8. /\ p \in [1..c -> I] /\ Arranged(s, I, R) = [k \in 1..c |-> s[p[k]]]
      /\ \A k, l \in 1..c : k < l => p[k] < p[l]
  BY <1>5, <1>6 DEF Arranges, c
<1>9. PICK a : a = Arranged(s, I, R)
  OBVIOUS
<1>10. Len(a) = c /\ a = [k \in 1..c |-> s[p[k]]] /\ a = [k \in 1..c |-> a[k]]
  BY <1>7, <1>8, <1>9
<1>11. \A k \in 1..c : p[k] \in 1..n /\ a[k] = s[p[k]]
  BY <1>1, <1>8, <1>10
<1>12. ASSUME NEW k \in 1..c, NEW l \in 1..c, a[k] = a[l] PROVE k = l
  <2>1. p[k] = p[l] /\ p[k] \in Int
    BY <1>11, <1>12
  <2>2. ~(k < l) /\ ~(l < k)
    BY <1>8, <2>1
  <2> QED
    BY <1>7, <2>2
<1>13. Distinct(a)
  BY <1>7, <1>10, <1>12 DEF Distinct
<1> QED
  BY <1>4, <1>9, <1>10, <1>11, <1>13

(* mmode and smode, each once, if they are generated for.                  *)
LEMMA ContextModesFacts == Distinct(ContextModes)
<1>1. PICK s : s = <<"mmode", "smode">>
  OBVIOUS
<1>2. DOMAIN s = 1..2 /\ s[1] = "mmode" /\ s[2] = "smode"
  BY <1>1
<1>3. \A i, j \in 1..2 : s[i] = s[j] => i = j
  BY <1>2
<1>4. Distinct(Intersection(s, PrivModes))
  BY <1>2, <1>3, IntersectionFacts
<1> QED
  BY <1>1, <1>4 DEF ContextModes

(* umode, if it is generated for, and privileged.                          *)
LEMMA StackTypesFacts ==
  /\ Distinct(StackTypes)
  /\ \A i \in 1..Len(StackTypes) : StackTypes[i] \in {"umode", "privileged"}
<1>1. PICK s : s = <<"umode">>
  OBVIOUS
<1>2. DOMAIN s = 1..1 /\ s[1] = "umode"
  BY <1>1
<1>3. \A i, j \in 1..1 : s[i] = s[j] => i = j
  OBVIOUS
<1>4. PICK c : c = Intersection(s, PrivModes)
  OBVIOUS
<1>5. Distinct(c) /\ \A k \in 1..Len(c) : \E i \in 1..1 : c[k] = s[i]
  BY <1>2, <1>3, <1>4, IntersectionFacts
<1>6. PICK n \in Nat : n = Len(c)
  BY <1>5 DEF Distinct
<1>7. \A k \in 1..n : c[k] = "umode"
  BY <1>2, <1>5, <1>6
<1> DEFINE S == {"umode", "privileged"}
<1>8. c \in Seq(S)
  <2>1. c = [k \in 1..n |-> c[k]]
    BY <1>5, <1>6 DEF Distinct
  <2>2. \A k \in 1..n : c[k] \in S
    BY <1>7
  <2> HIDE DEF S
  <2> QED
    BY <2>1, <2>2
<1>9. PICK d, e : d = <<"privileged">> /\ e = c \o d
  OBVIOUS
<1>10. d \in Seq(S) /\ Len(d) = 1 /\ d[1] = "privileged"
  BY <1>9
<1> HIDE DEF S
<1>11. e \in Seq(S) /\ Joins(c, d, e)
  BY <1>8, <1>9, <1>10, JoinFacts, JoinedLists
<1>12. /\ Len(e) = n + 1 /\ e = [k \in 1..n + 1 |-> e[k]]
       /\ \A k \in 1..n : e[k] = "umode"
       /\ e[n + 1] = "privileged"
  <2>1. Len(e) = n + 1 /\ \A k \in 1..n : e[k] = c[k]
    BY <1>6, <1>10, <1>11 DEF Joins
  <2>2. e[n + 1] = d[1]
    BY <1>6, <1>10, <1>11 DEF Joins
  <2> QED
    BY <1>7, <1>10, <1>11, <2>1, <2>2
<1>13. \A k \in 1..n + 1 : k \in 1..n \/ k = n + 1
  OBVIOUS
<1>14. \A i, j \in 1..n : i = j
  <2>1. \A i, j \in 1..n : c[i] = c[j] => i = j
    BY <1>5, <1>6 DEF Distinct
  <2> QED
    BY <1>7, <2>1
<1>15. ASSUME NEW i \in 1..n + 1, NEW j \in 1..n + 1, e[i] = e[j] PROVE i = j
  <2>1. "umode" # "privileged"
    OBVIOUS
  <2>2. (i \in 1..n \/ i = n + 1) /\ (j \in 1..n \/ j = n + 1)
    BY <1>13
  <2>3. (i \in 1..n => e[i] = "umode") /\ (j \in 1..n => e[j] = "umode")
    BY <1>12
  <2>4. (i \in 1..n /\ j \in 1..n) \/ (i = n + 1 /\ j = n + 1)
    BY <1>12, <1>15, <2>1, <2>2, <2>3, Zenon
  <2> QED
    BY <1>14, <2>4
<1>16. e = StackTypes
  BY <1>1, <1>4, <1>9 DEF StackTypes
<1>17. Distinct(e) /\ \A i \in 1..Len(e) : e[i] \in {"umode", "privileged"}
  <2>1. PICK N \in Nat : N = n + 1 /\ N = Len(e)
    BY <1>12
  <2>2. e = [k \in 1..N |-> e[k]] /\ \A i, j \in 1..N : e[i] = e[j] => i = j
    BY <1>12, <1>15, <2>1
  <2>3. Distinct(e)
    BY <2>1, <2>2, Zenon DEF Distinct
  <2>4. ASSUME NEW i \in 1..Len(e) PROVE e[i] \in {"umode", "privileged"}
    <3>1. i \in 1..n \/ i = n + 1
      BY <1>13, <2>1
    <3> QED
      BY <1>12, <3>1
  <2> QED
    BY <2>3, <2>4
<1> QED
  BY <1>16, <1>17

----------------------------------------------------------------------------
(* The stacks                                                              *)

(* Sequences as functions, in a form the provers take.                     *)
LEMMA SequenceIsFunction ==
  ASSUME NEW S, NEW f \in Seq(S)
  PROVE  f = [p \in 1..Len(f) |-> f[p]]
OBVIOUS

LEMMA FunctionLength ==
  ASSUME NEW n \in Nat, NEW f, f = [p \in 1..n |-> f[p]]
  PROVE  Len(f) = n
OBVIOUS

(* A list of lists of one length is flattened into its pieces.             *)
HasLength(f, n) == f = [p \in 1..n |-> f[p]]

LEMMA FlattenGrid ==
  ASSUME NEW n \in Nat, NEW L \in Nat, NEW seqs, HasLength(seqs, n),
         \A i \in 1..n : HasLength(seqs[i], L), NEW flat, flat = FlattenSeq(seqs)
  PROVE  Pieces(seqs, n, L, flat) /\ HasLength(flat, n * L)
<1>1. seqs = [i \in 1..n |-> seqs[i]] /\ \A i \in 1..n : seqs[i] = [k \in 1..L |-> seqs[i][k]]
  BY DEF HasLength
<1> DEFINE T == {seqs[i][k] : i \in 1..n, k \in 1..L}
<1> HIDE DEF T
<1>2. PICK S : S = T
  OBVIOUS
<1>3. ASSUME NEW i \in 1..n PROVE seqs[i] \in Seq(S) /\ Len(seqs[i]) = L
  <2>1. \A k \in 1..L : seqs[i][k] \in S
    BY <1>2 DEF T
  <2>2. PICK g : g = seqs[i] /\ g = [k \in 1..L |-> g[k]] /\ \A k \in 1..L : g[k] \in S
    BY <1>1, <2>1
  <2>3. g \in Seq(S) /\ Len(g) = L
    BY <2>2
  <2> QED
    BY <2>2, <2>3
<1>4. seqs \in Seq(Seq(S)) /\ Len(seqs) = n
  BY <1>3, <1>1
<1>5. Pieces(seqs, n, L, FlattenSeq(seqs))
  BY <1>3, <1>4, FlattenPieces
<1>6. FlattenSeq(seqs) \in Seq(S)
  BY <1>4, FlattenType
<1>7. flat = [p \in 1..Len(flat) |-> flat[p]]
  <2>1. flat \in Seq(S)
    BY <1>6
  <2> QED
    BY <2>1, SequenceIsFunction, Zenon
<1> QED
  BY <1>5, <1>7 DEF Pieces, HasLength

(* Pages that divide evenly leave none over.                               *)
LEMMA ShareOfPages ==
  ASSUME NEW M \in Nat \ {0}, NEW ps \in Nat \ {0}, NEW np \in Int, ps * np >= 0
  PROVE  np % M = 0 =>
           LET z == (np \div M) * ps * 8 IN z \in Nat /\ M * z = ps * np * 8
<1> SUFFICES ASSUME np % M = 0
             PROVE  LET z == (np \div M) * ps * 8 IN z \in Nat /\ M * z = ps * np * 8
  OBVIOUS
<1>1. PICK q \in Int, r \in Int : q = np \div M /\ r = np % M /\ np = q * M + r
  OBVIOUS
<1>2. r = 0
  BY <1>1
<1>3. PICK t \in Int : t = q * ps
  OBVIOUS
<1>4. ps * np = t * M
  <2>1. np = q * M
    BY <1>1, <1>2
  <2>2. ps * (q * M) = (q * ps) * M
    OBVIOUS
  <2> QED
    BY <1>3, <2>1, <2>2
<1>5. t >= 0
  <2>1. t * M >= 0
    BY <1>4
  <2> QED
    BY <2>1
<1>6. (np \div M) * ps * 8 = t * 8
  BY <1>1, <1>3
<1>7. t * 8 \in Nat /\ M * (t * 8) = (t * M) * 8
  BY <1>5
<1> QED
  BY <1>4, <1>6, <1>7

(* One block for every CPU, one after the other.                           *)
RunOf(g, label, M, base, z) ==
  \A c \in 1..M : /\ g[c].label = label /\ g[c].cpu = c - 1 /\ g[c].size = z
                  /\ g[c].start = base + (c - 1) * z

(* Block c is that of CPU c - 1.                                           *)
LEMMA PerCpuBlocks ==
  ASSUME MaxNumCpus \in Nat \ {0}, NEW label, NEW z \in Nat
  PROVE  LET b == PerCpu(label, z) IN
         /\ DOMAIN b = 1..MaxNumCpus /\ b = [c \in 1..MaxNumCpus |-> b[c]]
         /\ \A c \in 1..MaxNumCpus : b[c] = Block(label, c - 1, z) /\ IsBlock(b[c])
<1>1. PICK b : b = PerCpu(label, z)
  OBVIOUS
<1>2. b = [c \in 1..MaxNumCpus |-> Block(label, c - 1, z)]
  BY <1>1 DEF PerCpu, Block
<1>3. \A c \in 1..MaxNumCpus : b[c] = Block(label, c - 1, z)
  BY <1>2
<1>4. \A c : IsBlock(Block(label, c, z))
  BY DEF IsBlock, Block
<1> QED
  BY <1>1, <1>2, <1>3, <1>4

(* Placed, they lie at the multiples of their size.                        *)
LEMMA PerCpuPlaced ==
  ASSUME NEW M \in Nat \ {0}, M = MaxNumCpus, NEW label, NEW z \in Nat, NEW base \in Int,
         NEW g, g = Placed(base, PerCpu(label, z))
  PROVE  g = [c \in 1..M |-> g[c]] /\ RunOf(g, label, M, base, z)
<1>1. PICK b : b = PerCpu(label, z) /\ g = Placed(base, b)
  OBVIOUS
<1>2. /\ DOMAIN b = 1..M
      /\ \A c \in 1..M : b[c] = Block(label, c - 1, z) /\ IsBlock(b[c])
  BY <1>1, PerCpuBlocks
<1>3. g = [c \in 1..M |-> g[c]] /\ \E s : PlacedBy(g, b, base, M, s)
  BY <1>1, <1>2, PlacedBlocks
<1>4. PICK s : PlacedBy(g, b, base, M, s)
  BY <1>3
<1>5. PICK sizes : sizes = [c \in 1..M |-> b[c].size]
  OBVIOUS
<1>6. \A c \in 1..M : b[c].label = label /\ b[c].cpu = c - 1 /\ b[c].size = z /\ sizes[c] = z
  BY <1>2, <1>5 DEF Block
<1>7. Follow(s, base, sizes, M)
  BY <1>4, <1>5 DEF PlacedBy
<1>8. \A c \in 0..M : s[c + 1] = s[1] + c * z
  <2>1. PICK p \in Nat : p = 0
    OBVIOUS
  <2>2. p + M <= M /\ M \in Nat /\ z \in Int /\ SameSize(sizes, p, M, z)
    BY <1>6, <2>1 DEF SameSize
  <2>3. Multiples(s, p, M, z)
    BY <1>7, <2>2, StartsInRun
  <2> QED
    BY <2>1, <2>3 DEF Multiples
<1>9. ASSUME NEW c \in 1..M
       PROVE  /\ g[c].label = label /\ g[c].cpu = c - 1 /\ g[c].size = z
              /\ g[c].start = base + (c - 1) * z
  <2>1. g[c].start = s[c] /\ g[c].label = label /\ g[c].cpu = c - 1 /\ g[c].size = z
    BY <1>4, <1>6 DEF PlacedBy
  <2>2. c - 1 \in 0..M /\ (c - 1) + 1 = c
    OBVIOUS
  <2>3. s[c] = s[1] + (c - 1) * z
    BY <1>8, <2>2
  <2>4. s[1] = base
    BY <1>7 DEF Follow
  <2> QED
    BY <2>1, <2>3, <2>4
<1> QED
  BY <1>3, <1>9 DEF RunOf

(* Where the areas of a section may lie: in the memory that was mapped.    *)
StacksRight(stacks) ==
  \A i \in DOMAIN StackTypes : LET type == StackTypes[i] IN
    /\ BlocksIn({stacks[n] : n \in Labelled(stacks, type)}, StackMapping(type))
    /\ \A cpu \in 0..MaxNumCpus - 1 :
         LabelStart(stacks, type) + cpu * StackBytesPerCpu(type) + StackBytesPerCpu(type) =
           BlockEnd(BlockOf(stacks, type, cpu))

LEMMA StackGroup ==
  ASSUME MapInv, MapChecked, Linked(sections), AreasUnshared, SizesSound, Emittable,
         MaxNumCpus \in Nat \ {0}, NEW i \in DOMAIN StackTypes
  PROVE  LET type == StackTypes[i]
             z == StackBytesPerCpu(type)
             base == SectionStart(StackSection(type))
         IN /\ z \in Nat /\ base \in Int
            /\ base = LinkedAt(StackMapping(type)) * 8
            /\ base + MaxNumCpus * z =
                 (LinkedAt(StackMapping(type)) + MappingSize(StackMapping(type))) * 8
<1> DEFINE type == StackTypes[i]
           names == StackSection(type)
           m == MappingOfSection(names)
<1>1. /\ IsMapped(names) /\ StackMapping(type) = m
      /\ m.num_pages % MaxNumCpus = 0
  BY DEF Emittable, StackMapping
<1>2. names \in AreaSections
  BY DEF AreaSections
<1>3. type \in {"umode", "privileged"}
  <2>1. i \in 1..Len(StackTypes)
    BY StackTypesFacts DEF Distinct
  <2> QED
    BY <2>1, StackTypesFacts
<1>4. names = <<".jumpstart.cpu.stack." \o type>>
  BY DEF StackSection
<1>5. names[1] # ".text.startup"
  BY <1>3, AreaSectionAssumption
<1>6. PICK x : x = ".jumpstart.cpu.stack." \o type /\ names = <<x>> /\ x = names[1]
  <2> HIDE DEF type, names
  <2>1. PICK x : x = ".jumpstart.cpu.stack." \o type
    OBVIOUS
  <2>2. <<x>>[1] = x
    OBVIOUS
  <2> QED
    BY <1>4, <2>1, <2>2
<1> HIDE DEF type, names, m
<1>7. AreaAt(names, m)
  BY <1>1, <1>2, <1>5, <1>6, AreaLinked DEF m
<1>8. MappingSize(m) >= 0
  BY <1>7 DEF AreaAt, SizesSound
<1>9. PICK ps \in Nat \ {0}, np \in Int, at_ \in Int, M \in Nat \ {0} :
        ps = m.page_size /\ np = m.num_pages /\ at_ = LinkedAt(m) /\ M = MaxNumCpus
  BY <1>7 DEF AreaAt
<1>10. PICK z : z = (np \div M) * ps * 8
  OBVIOUS
<1>11. z \in Nat /\ M * z = ps * np * 8
  <2>1. ps * np >= 0 /\ np % M = 0
    BY <1>1, <1>8, <1>9 DEF MappingSize
  <2> QED
    BY <1>10, <2>1, ShareOfPages
<1>12. StackBytesPerCpu(type) = z
  BY <1>1, <1>9, <1>10 DEF StackBytesPerCpu, EntryBytes
<1>13. SectionStart(names) = at_ * 8
  BY <1>7, <1>9 DEF AreaAt, EntryBytes
<1>14. MappingSize(m) = ps * np
  BY <1>9 DEF MappingSize
<1>15. at_ * 8 + M * z = (at_ + ps * np) * 8
  <2>1. PICK w \in Int : w = ps * np
    OBVIOUS
  <2>2. M * z = w * 8
    BY <1>11, <2>1
  <2> QED
    BY <2>1, <2>2
<1> QED
  BY <1>1, <1>9, <1>11, <1>12, <1>13, <1>14, <1>15 DEF type, names

(* The blocks of a type lie in its mapping, the last word of each behind   *)
(* it where the stack pointer of its CPU is put.                           *)
LEMMA StacksEmitted ==
  ASSUME MapInv, MapChecked, Linked(sections), AreasUnshared, SizesSound, Emittable,
         MaxNumCpus \in Nat \ {0}
  PROVE  StacksRight(StackBlocks)
<1>1. PICK M \in Nat \ {0}, n \in Nat : M = MaxNumCpus /\ n = Len(StackTypes)
  BY StackTypesFacts DEF Distinct
<1>2. DOMAIN StackTypes = 1..n /\ \A i, j \in 1..n : StackTypes[i] = StackTypes[j] => i = j
  <2>1. StackTypes = [k \in 1..n |-> StackTypes[k]]
    BY <1>1, StackTypesFacts DEF Distinct
  <2> QED
    BY <1>1, <2>1, StackTypesFacts DEF Distinct
<1> DEFINE Group(type) == Placed(SectionStart(StackSection(type)), PerCpu(type, StackBytesPerCpu(type)))
           base(i) == SectionStart(StackSection(StackTypes[i]))
           size(i) == StackBytesPerCpu(StackTypes[i])
           map(i) == StackMapping(StackTypes[i])
<1>3. PICK seqs : seqs = [i \in 1..n |-> Group(StackTypes[i])]
  OBVIOUS
<1>4. StackBlocks = FlattenSeq(seqs)
  BY <1>2, <1>3, Zenon DEF StackBlocks
<1>5. ASSUME NEW i \in 1..n
      PROVE  /\ size(i) \in Nat /\ base(i) \in Int
             /\ base(i) = LinkedAt(map(i)) * 8
             /\ base(i) + M * size(i) = (LinkedAt(map(i)) + MappingSize(map(i))) * 8
             /\ seqs[i] = [c \in 1..M |-> seqs[i][c]]
             /\ RunOf(seqs[i], StackTypes[i], M, base(i), size(i))
  <2>1. /\ size(i) \in Nat /\ base(i) \in Int
        /\ base(i) = LinkedAt(map(i)) * 8
        /\ base(i) + M * size(i) = (LinkedAt(map(i)) + MappingSize(map(i))) * 8
    BY <1>1, <1>2, StackGroup
  <2>2. seqs[i] = Placed(base(i), PerCpu(StackTypes[i], size(i)))
    BY <1>3
  <2> HIDE DEF size, base
  <2>3. /\ seqs[i] = [c \in 1..M |-> seqs[i][c]]
        /\ RunOf(seqs[i], StackTypes[i], M, base(i), size(i))
    <3>1. PICK z \in Nat, a \in Int : z = size(i) /\ a = base(i)
      BY <2>1
    <3>2. PICK g, type : g = seqs[i] /\ type = StackTypes[i]
      OBVIOUS
    <3>3. g = Placed(a, PerCpu(type, z))
      BY <2>2, <3>1, <3>2
    <3>4. g = [c \in 1..M |-> g[c]] /\ RunOf(g, type, M, a, z)
      BY <1>1, <3>3, PerCpuPlaced
    <3> QED
      BY <3>1, <3>2, <3>4
  <2> QED
    BY <2>1, <2>3
<1> HIDE DEF size, base, map
<1>6. PICK blocks : blocks = StackBlocks
  OBVIOUS
<1>7. Pieces(seqs, n, M, blocks)
  <2>1. HasLength(seqs, n) /\ M \in Nat
    BY <1>3 DEF HasLength
  <2>2. \A i \in 1..n : HasLength(seqs[i], M)
    BY <1>5 DEF HasLength
  <2> QED
    BY <1>4, <1>6, <2>1, <2>2, FlattenGrid
<1>8. PICK cpus : cpus = [c \in 1..M |-> c - 1]
  OBVIOUS
<1>9. Rows(blocks, n, M, StackTypes, cpus)
  <2>1. ASSUME NEW i \in 1..n, NEW k \in 1..M
        PROVE  /\ blocks[(i - 1) * M + k].label = StackTypes[i]
               /\ blocks[(i - 1) * M + k].cpu = cpus[k]
    <3>1. blocks[(i - 1) * M + k] = seqs[i][k]
      BY <1>7 DEF Pieces
    <3>2. seqs[i][k].label = StackTypes[i] /\ seqs[i][k].cpu = k - 1
      BY <1>5 DEF RunOf
    <3> QED
      BY <1>8, <3>1, <3>2
  <2>2. DOMAIN blocks = 1..n * M
    BY <1>7 DEF Pieces
  <2> QED
    BY <1>2, <2>1, <2>2 DEF Rows
<1>10. ASSUME NEW i \in 1..n, NEW b \in {blocks[p] : p \in Labelled(blocks, StackTypes[i])}
       PROVE  /\ LinkedAt(map(i)) * EntryBytes <= b.start
              /\ BlockEnd(b) <= (LinkedAt(map(i)) + MappingSize(map(i))) * EntryBytes
  <2>1. PICK c \in 1..M : b = blocks[(i - 1) * M + c]
    <3>1. RowOfLabel(blocks, StackTypes[i], i, M)
      BY <1>9, LabelFound
    <3>2. PICK p \in Labelled(blocks, StackTypes[i]) : b = blocks[p]
      OBVIOUS
    <3> QED
      BY <3>1, <3>2 DEF RowOfLabel
  <2>2. b = seqs[i][c]
    BY <1>7, <2>1 DEF Pieces
  <2>3. PICK z \in Nat, a \in Int : z = size(i) /\ a = base(i)
    BY <1>5
  <2>4. b.size = z /\ b.start = a + (c - 1) * z
    BY <1>5, <2>2, <2>3 DEF RunOf
  <2>5. PICK d \in Nat, e \in Nat : d = c - 1 /\ e = M - c
    OBVIOUS
  <2>6. M * z = e * z + d * z + z /\ d * z \in Nat /\ e * z \in Nat
    <3>1. M = e + d + 1
      BY <2>5
    <3>2. (e + d + 1) * z = e * z + d * z + z /\ d * z \in Nat /\ e * z \in Nat
      OBVIOUS
    <3> QED
      BY <3>1, <3>2
  <2>7. b.start = a + d * z /\ BlockEnd(b) = a + d * z + z
    BY <2>4, <2>5, <2>6 DEF BlockEnd
  <2>8. PICK v \in Int : v = a + M * z
    OBVIOUS
  <2>9. a <= b.start /\ BlockEnd(b) <= v
    BY <2>6, <2>7, <2>8
  <2> QED
    BY <1>5, <2>3, <2>8, <2>9 DEF EntryBytes
<1>11. ASSUME NEW i \in 1..n, NEW cpu \in 0..M - 1
       PROVE  LabelStart(blocks, StackTypes[i]) + cpu * size(i) + size(i) =
                BlockEnd(BlockOf(blocks, StackTypes[i], cpu))
  <2>1. PICK c \in 1..M : c = cpu + 1 /\ c - 1 = cpu
    OBVIOUS
  <2>2. cpus[c] = cpu /\ \A l \in 1..M : cpus[l] = cpus[c] => c <= l
    BY <1>8, <2>1
  <2>3. /\ BlockOf(blocks, StackTypes[i], cpu) = blocks[(i - 1) * M + c]
        /\ LabelStart(blocks, StackTypes[i]) = blocks[(i - 1) * M + 1].start
    <3>1. FirstFound(blocks, StackTypes[i], i, M, cpus)
      BY <1>9, LabelFound
    <3> QED
      BY <2>2, <3>1 DEF FirstFound, FirstOf
  <2>4. blocks[(i - 1) * M + c] = seqs[i][c] /\ blocks[(i - 1) * M + 1] = seqs[i][1]
    <3>1. 1 \in 1..M
      OBVIOUS
    <3> QED
      BY <1>7, <3>1 DEF Pieces
  <2>5. PICK z \in Nat, a \in Int : z = size(i) /\ a = base(i)
    BY <1>5
  <2>6. seqs[i][c].size = z /\ seqs[i][c].start = a + cpu * z /\ seqs[i][1].start = a
    <3>1. 1 \in 1..M /\ (1 - 1) * z = 0
      OBVIOUS
    <3>2. seqs[i][c].size = z /\ seqs[i][c].start = a + (c - 1) * z
      BY <1>5, <2>5 DEF RunOf
    <3>3. seqs[i][1].start = a + (1 - 1) * z
      BY <1>5, <2>5, <3>1 DEF RunOf
    <3> QED
      BY <2>1, <3>1, <3>2, <3>3
  <2> QED
    BY <2>3, <2>4, <2>5, <2>6 DEF BlockEnd
<1>12. ASSUME NEW i \in 1..n
       PROVE  BlocksIn({blocks[p] : p \in Labelled(blocks, StackTypes[i])}, map(i))
  BY <1>10, Zenon DEF BlocksIn, LinkedAt
<1> QED
  <2>1. ASSUME NEW i \in DOMAIN StackTypes
        PROVE  /\ BlocksIn({blocks[p] : p \in Labelled(blocks, StackTypes[i])},
                           StackMapping(StackTypes[i]))
               /\ \A cpu \in 0..MaxNumCpus - 1 :
                    LabelStart(blocks, StackTypes[i]) + cpu * StackBytesPerCpu(StackTypes[i])
                        + StackBytesPerCpu(StackTypes[i]) =
                      BlockEnd(BlockOf(blocks, StackTypes[i], cpu))
    BY <1>1, <1>2, <1>11, <1>12 DEF size, map
  <2> QED
    BY <1>6, <2>1, Zenon DEF StacksRight

----------------------------------------------------------------------------
(* The structs                                                             *)

(* Runs of M areas of one size start at M times where single areas of      *)
(* these sizes would.                                                      *)
RunStart(s, base, t, M, i) == s[(i - 1) * M + 1] = base + M * t[i]

LEMMA RunsStart ==
  ASSUME NEW n \in Nat, NEW M \in Nat \ {0}, NEW base \in Int, NEW N, N = n * M,
         NEW s, NEW sizes, Follow(s, base, sizes, N),
         NEW t, NEW zs, Follow(t, 0, zs, n),
         \A i \in 1..n : zs[i] \in Nat /\ SameSize(sizes, (i - 1) * M, M, zs[i])
  PROVE  \A i \in 1..n + 1 : RunStart(s, base, t, M, i)
<1> DEFINE B == {i \in 1..n + 1 : ~RunStart(s, base, t, M, i)}
<1> SUFFICES ASSUME B # {} PROVE FALSE
  OBVIOUS
<1>1. B \in SUBSET Nat
  OBVIOUS
<1>2. PICK i \in B : \A y \in B : i <= y
  BY <1>1, LeastNatural
<1>3. i \in 1..n + 1 /\ ~RunStart(s, base, t, M, i)
  OBVIOUS
<1>4. i # 1
  <2>1. RunStart(s, base, t, M, 1)
    <3>1. (1 - 1) * M + 1 = 1 /\ M * 0 = 0
      OBVIOUS
    <3> QED
      BY <3>1 DEF RunStart, Follow
  <2> QED
    BY <1>3, <2>1
<1>5. PICK j \in 1..n : j = i - 1 /\ j < i /\ j \in 1..n + 1 /\ i = j + 1
  BY <1>3, <1>4
<1>6. RunStart(s, base, t, M, j)
  <2>1. j \notin B
    <3>1. i \in Int /\ j \in Int
      BY <1>3, <1>5
    <3> HIDE DEF B
    <3> QED
      BY <1>2, <1>5, <3>1
  <2> QED
    BY <1>5, <2>1
<1>7. PICK p \in Nat : p = (j - 1) * M /\ p + M = (i - 1) * M /\ p + M <= N
  <2>1. PICK m \in Nat : m = M
    OBVIOUS
  <2>2. (j - 1) * m \in Nat /\ (j - 1) * m + m = j * m /\ j * m <= n * m
    <3>1. m \in 1..m
      BY <2>1
    <3> QED
      BY <3>1, RowIn
  <2> QED
    BY <1>5, <2>1, <2>2
<1>8. PICK z \in Nat : z = zs[j] /\ SameSize(sizes, p, M, z)
  BY <1>7
<1>9. Multiples(s, p, M, z)
  <2>1. N \in Nat /\ M \in Nat /\ z \in Int
    OBVIOUS
  <2> QED
    BY <1>7, <1>8, <2>1, StartsInRun
<1>10. s[p + M + 1] = s[p + 1] + M * z
  <2>1. M \in 0..M
    OBVIOUS
  <2> QED
    BY <1>9, <2>1 DEF Multiples
<1>11. t[i] = t[j] + z /\ t[j] \in Int
  BY <1>5, <1>8 DEF Follow
<1>12. s[p + 1] = base + M * t[j]
  BY <1>6, <1>7 DEF RunStart
<1>13. s[p + M + 1] = base + M * t[i]
  <2>1. PICK x \in Int : x = t[j]
    BY <1>11
  <2>2. M * (x + z) = M * x + M * z /\ M * x \in Int /\ M * z \in Int
    OBVIOUS
  <2> QED
    BY <1>10, <1>11, <1>12, <2>1, <2>2
<1> QED
  BY <1>3, <1>7, <1>13 DEF RunStart

(* Every struct of every CPU lies in the mapping, where the boot code      *)
(* looks for it.                                                           *)
StructsRight(structs) ==
  /\ BlocksIn(ToSet(structs), MappingOfSection(StructSection))
  /\ \A i \in DOMAIN input.c_structs : \A cpu \in 0..MaxNumCpus - 1 :
       LabelStart(structs, input.c_structs[i].name) + cpu * StructSizes[i] =
         BlockOf(structs, input.c_structs[i].name, cpu).start
FieldsRightOf(structs) == \A i \in DOMAIN structs : FieldsApart(structs[i].fields)

LEMMA StructsListed ==
  ASSUME MapInv
  PROVE  \E n \in Nat : /\ DOMAIN input.c_structs = 1..n /\ StructSizes = [i \in 1..n |-> StructSizes[i]]
                        /\ \A i \in 1..n : StructSizes[i] \in Nat
                        /\ \A i, j \in 1..n : input.c_structs[i].name = input.c_structs[j].name => i = j
                        /\ FieldsRightOf(input.c_structs)
<1>1. PICK structs : structs = input.c_structs
  OBVIOUS
<1>2. StructsTyped(structs)
  BY <1>1, StructsAssumption DEF MapInv
<1>3. PICK S : structs \in Seq(S)
  BY <1>2 DEF StructsTyped
<1>4. PICK n \in Nat : DOMAIN structs = 1..n
  BY <1>3
<1>5. ASSUME NEW i \in 1..n
      PROVE  StructSize(structs[i].fields) \in Nat /\ FieldsApart(structs[i].fields)
  <2>1. structs[i].fields \in Seq([size : {1, 2, 4, 8}, num_elements : Nat])
    BY <1>2, <1>4 DEF StructsTyped
  <2> QED
    BY <2>1, FieldsRight
<1>6. StructSizes = [i \in 1..n |-> StructSize(structs[i].fields)]
  BY <1>1, <1>4 DEF StructSizes
<1>7. \A i, j \in 1..n : structs[i].name = structs[j].name => i = j
  BY <1>2, <1>4, Zenon DEF StructsTyped
<1>8. \A i \in 1..n : StructSizes[i] \in Nat
  BY <1>5, <1>6
<1>9. StructSizes = [i \in 1..n |-> StructSizes[i]]
  BY <1>6
<1> QED
  BY <1>1, <1>4, <1>5, <1>7, <1>8, <1>9 DEF FieldsRightOf

(* The mapping of the structs, and what of it they take.                   *)
LEMMA StructsMapped ==
  ASSUME MapInv, MapChecked, Linked(sections), AreasUnshared, Emittable,
         NEW m, m = MappingOfSection(StructSection)
  PROVE  /\ LinkedAt(m) \in Int /\ MappingSize(m) \in Int
         /\ SectionStart(StructSection) = LinkedAt(m) * 8
         /\ StructsFit(m, StructSizes)
<1> DEFINE names == StructSection
<1>1. IsMapped(names) /\ StructsFit(m, StructSizes)
  BY DEF Emittable
<1>2. names \in AreaSections
  BY DEF AreaSections
<1>3. names[1] # ".text.startup"
  BY AreaSectionAssumption
<1>4. PICK x : names = <<x>> /\ x = names[1]
  BY DEF StructSection
<1> HIDE DEF names
<1>5. AreaAt(names, m)
  BY <1>1, <1>2, <1>3, <1>4, AreaLinked DEF names
<1>6. m.page_size * m.num_pages \in Int
  BY <1>5 DEF AreaAt
<1> QED
  BY <1>1, <1>5, <1>6 DEF AreaAt, EntryBytes, MappingSize, names

(* Blocks in rows, those of a row with one label and one size, placed one  *)
(* after the other.                                                        *)
Grid(flat, n, L, labels, cpus, zs) ==
  /\ DOMAIN flat = 1..n * L
  /\ \A i \in 1..n : \A k \in 1..L : flat[(i - 1) * L + k] = Block(labels[i], cpus[k], zs[i])
Laid(b, n, L, base, zs, s, sizes) ==
  /\ Follow(s, base, sizes, n * L)
  /\ \A i \in 1..n : SameSize(sizes, (i - 1) * L, L, zs[i])
  /\ \A p \in 1..n * L : b[p].size = sizes[p] /\ b[p].start = s[p] /\ sizes[p] \in Nat

LEMMA GridPlaced ==
  ASSUME NEW n \in Nat, NEW L \in Nat, NEW labels, NEW cpus, NEW zs, NEW base \in Int,
         \A i \in 1..n : zs[i] \in Nat, \A i, j \in 1..n : labels[i] = labels[j] => i = j,
         NEW flat, Grid(flat, n, L, labels, cpus, zs), NEW b, b = Placed(base, flat)
  PROVE  Rows(b, n, L, labels, cpus) /\ \E s, sizes : Laid(b, n, L, base, zs, s, sizes)
<1>1. PICK N \in Nat : N = n * L
  OBVIOUS
<1>2. ASSUME NEW i \in 1..n, NEW k \in 1..L
      PROVE  /\ flat[(i - 1) * L + k] = Block(labels[i], cpus[k], zs[i])
             /\ IsBlock(flat[(i - 1) * L + k])
  <2>1. flat[(i - 1) * L + k] = Block(labels[i], cpus[k], zs[i])
    BY DEF Grid
  <2>2. PICK z \in Nat : z = zs[i]
    OBVIOUS
  <2>3. \A l, c : IsBlock(Block(l, c, z))
    BY DEF IsBlock, Block
  <2> QED
    BY <2>1, <2>2, <2>3
<1>3. ASSUME NEW p \in 1..N PROVE IsBlock(flat[p])
  <2>1. PICK i \in 1..n, k \in 1..L : p = (i - 1) * L + k
    BY <1>1, RowOf
  <2> QED
    BY <1>2, <2>1
<1>4. b = [p \in 1..N |-> b[p]] /\ \E s : PlacedBy(b, flat, base, N, s)
  <2>1. DOMAIN flat = 1..N
    BY <1>1 DEF Grid
  <2> QED
    BY <1>3, <2>1, PlacedBlocks
<1>5. PICK s : PlacedBy(b, flat, base, N, s)
  BY <1>4
<1>6. PICK sizes : sizes = [p \in 1..N |-> flat[p].size]
  OBVIOUS
<1>7. Follow(s, base, sizes, N)
  BY <1>5, <1>6 DEF PlacedBy
<1>8. ASSUME NEW p \in 1..N
       PROVE  /\ b[p].label = flat[p].label /\ b[p].cpu = flat[p].cpu
              /\ b[p].size = sizes[p] /\ b[p].start = s[p] /\ sizes[p] \in Nat
  BY <1>3, <1>5, <1>6 DEF PlacedBy, IsBlock
<1>9. ASSUME NEW i \in 1..n, NEW k \in 1..L
       PROVE  /\ b[(i - 1) * L + k].label = labels[i] /\ b[(i - 1) * L + k].cpu = cpus[k]
              /\ sizes[(i - 1) * L + k] = zs[i]
  <2>1. PICK p \in 1..N : p = (i - 1) * L + k
    BY <1>1, RowIn
  <2>2. flat[p] = Block(labels[i], cpus[k], zs[i])
    BY <1>2, <2>1
  <2>3. flat[p].label = labels[i] /\ flat[p].cpu = cpus[k] /\ flat[p].size = zs[i]
    BY <2>2 DEF Block
  <2> QED
    BY <1>6, <1>8, <2>1, <2>3
<1>10. Rows(b, n, L, labels, cpus)
  <2>1. DOMAIN b = 1..n * L
    BY <1>1, <1>4
  <2> QED
    BY <1>9, <2>1 DEF Rows
<1>11. Laid(b, n, L, base, zs, s, sizes)
  <2>1. \A i \in 1..n : SameSize(sizes, (i - 1) * L, L, zs[i])
    BY <1>9 DEF SameSize
  <2> QED
    BY <1>1, <1>7, <1>8, <2>1 DEF Laid
<1> QED
  BY <1>10, <1>11

(* The blocks of every struct are a row, in the order of the CPUs.         *)
LEMMA StructsInRows ==
  ASSUME NEW n \in Nat, NEW M \in Nat \ {0}, M = MaxNumCpus, NEW labels, NEW zs,
         \A i \in 1..n : zs[i] \in Nat, NEW cpus, cpus = [c \in 1..M |-> c - 1],
         NEW seqs, seqs = [i \in 1..n |-> PerCpu(labels[i], zs[i])]
  PROVE  Grid(FlattenSeq(seqs), n, M, labels, cpus, zs)
<1>1. ASSUME NEW i \in 1..n
      PROVE  /\ seqs[i] = [k \in 1..M |-> seqs[i][k]]
             /\ \A k \in 1..M : seqs[i][k] = Block(labels[i], k - 1, zs[i])
  <2>1. PICK z \in Nat : z = zs[i]
    OBVIOUS
  <2>2. PICK g, name : g = seqs[i] /\ name = labels[i]
    OBVIOUS
  <2>3. g = PerCpu(name, z)
    BY <2>1, <2>2
  <2>4. g = [k \in 1..M |-> g[k]] /\ \A k \in 1..M : g[k] = Block(name, k - 1, z)
    BY <2>3, PerCpuBlocks
  <2> QED
    BY <2>1, <2>2, <2>4
<1>2. PICK flat : flat = FlattenSeq(seqs)
  OBVIOUS
<1>3. Pieces(seqs, n, M, flat)
  <2>1. HasLength(seqs, n) /\ M \in Nat
    BY DEF HasLength
  <2>2. \A i \in 1..n : HasLength(seqs[i], M)
    BY <1>1 DEF HasLength
  <2> QED
    BY <1>2, <2>1, <2>2, FlattenGrid
<1>4. ASSUME NEW i \in 1..n, NEW k \in 1..M
      PROVE  flat[(i - 1) * M + k] = Block(labels[i], cpus[k], zs[i])
  <2>1. flat[(i - 1) * M + k] = seqs[i][k]
    BY <1>3 DEF Pieces
  <2>2. seqs[i][k] = Block(labels[i], k - 1, zs[i])
    BY <1>1
  <2>3. cpus[k] = k - 1
    OBVIOUS
  <2> QED
    BY <2>1, <2>2, <2>3
<1> QED
  BY <1>2, <1>3, <1>4 DEF Grid, Pieces

(* Blocks of every CPU, laid one after the other from base, are where the  *)
(* CPU finds them and end before the limit they were checked against.      *)
FoundFor(b, label, cpu, k, z) == LabelStart(b, label) + (k - 1) * z = BlockOf(b, label, cpu).start

LEMMA GridFound ==
  ASSUME NEW n \in Nat, NEW L \in Nat \ {0}, NEW labels, NEW cpus, NEW zs, NEW base \in Int,
         \A i \in 1..n : zs[i] \in Nat, NEW b, Rows(b, n, L, labels, cpus),
         NEW s, NEW sizes, Laid(b, n, L, base, zs, s, sizes),
         NEW i \in 1..n, NEW k \in 1..L, FirstOf(cpus, k, L)
  PROVE  FoundFor(b, labels[i], cpus[k], k, zs[i])
<1>1. PICK N \in Nat, p \in Nat, z \in Nat : N = n * L /\ p = (i - 1) * L /\ z = zs[i] /\ p + L <= N
  <2>1. n * L \in Nat /\ (i - 1) * L \in Nat /\ (i - 1) * L + L = i * L /\ i * L <= n * L
    <3>1. L \in Nat /\ 1 \in 1..L
      OBVIOUS
    <3> QED
      BY <3>1, RowIn
  <2> QED
    BY <2>1
<1>2. FirstFound(b, labels[i], i, L, cpus)
  BY LabelFound
<1>3. LabelStart(b, labels[i]) = b[p + 1].start /\ BlockOf(b, labels[i], cpus[k]) = b[p + k]
  BY <1>1, <1>2 DEF FirstFound
<1>4. p + 1 \in 1..N /\ p + k \in 1..N
  BY <1>1
<1>5. b[p + 1].start = s[p + 1] /\ b[p + k].start = s[p + k]
  BY <1>1, <1>4 DEF Laid
<1>6. Multiples(s, p, L, z)
  <2>1. Follow(s, base, sizes, N) /\ SameSize(sizes, p, L, z) /\ L \in Nat /\ z \in Int
    BY <1>1 DEF Laid
  <2> QED
    BY <1>1, <2>1, StartsInRun
<1>7. s[p + k] = s[p + 1] + (k - 1) * z
  <2>1. PICK c \in 0..L : c = k - 1 /\ p + c + 1 = p + k
    OBVIOUS
  <2> QED
    BY <1>6, <2>1 DEF Multiples
<1> QED
  BY <1>1, <1>3, <1>5, <1>7 DEF FoundFor

AllIn(b, base, end) == \A x \in ToSet(b) : base <= x.start /\ BlockEnd(x) <= end

LEMMA GridInside ==
  ASSUME NEW n \in Nat, NEW L \in Nat \ {0}, NEW zs, NEW base \in Int,
         \A i \in 1..n : zs[i] \in Nat, zs = [i \in 1..n |-> zs[i]],
         NEW b, DOMAIN b = 1..n * L, NEW s, NEW sizes, Laid(b, n, L, base, zs, s, sizes)
  PROVE  \E end \in Int : end = base + L * Starts(0, zs)[n + 1] /\ AllIn(b, base, end)
<1>1. PICK N \in Nat : N = n * L
  OBVIOUS
<1>2. PICK t : t = Starts(0, zs)
  OBVIOUS
<1>3. Follow(t, 0, zs, n)
  <2>1. Len(zs) = n /\ \A i \in 1..n : zs[i] \in Int
    BY FunctionLength
  <2>2. 0 \in Int
    OBVIOUS
  <2> QED
    BY <1>2, <2>1, <2>2, StartsFollow
<1>4. /\ Follow(s, base, sizes, N) /\ \A p \in 1..N : sizes[p] \in Nat
      /\ \A p \in 1..N : b[p].size = sizes[p] /\ b[p].start = s[p]
      /\ \A i \in 1..n : zs[i] \in Nat /\ SameSize(sizes, (i - 1) * L, L, zs[i])
  BY <1>1 DEF Laid
<1>5. s[N + 1] = base + L * t[n + 1]
  <2>1. RunStart(s, base, t, L, n + 1)
    <3>1. \A i \in 1..n + 1 : RunStart(s, base, t, L, i)
      BY <1>1, <1>3, <1>4, RunsStart
    <3>2. n + 1 \in 1..n + 1
      OBVIOUS
    <3> QED
      BY <3>1, <3>2, Zenon
  <2>2. (n + 1) - 1 = n
    OBVIOUS
  <2> QED
    BY <1>1, <2>1, <2>2 DEF RunStart
<1>6. s[N + 1] \in Int
  BY <1>4 DEF Follow
<1>7. ASSUME NEW p \in 1..N PROVE base <= s[p] /\ s[p] + sizes[p] <= s[N + 1]
  <2>1. p \in 1..N + 1 /\ p + 1 \in 1..N + 1 /\ 1 \in 1..N + 1 /\ N + 1 \in 1..N + 1
    OBVIOUS
  <2>2. s[1] <= s[p]
    <3>1. \A l \in 1..N + 1 : 1 <= l => s[1] <= s[l]
      BY <1>4, <2>1, StartsGrow
    <3> QED
      BY <2>1, <3>1
  <2>3. s[p + 1] <= s[N + 1]
    <3>1. \A l \in 1..N + 1 : p + 1 <= l => s[p + 1] <= s[l]
      BY <1>4, <2>1, StartsGrow
    <3> QED
      BY <2>1, <3>1
  <2>4. s[1] = base /\ s[p + 1] = s[p] + sizes[p]
    BY <1>4 DEF Follow
  <2> QED
    BY <2>2, <2>3, <2>4
<1>8. ASSUME NEW x \in ToSet(b) PROVE base <= x.start /\ BlockEnd(x) <= s[N + 1]
  <2>1. PICK p \in 1..N : x = b[p]
    BY <1>1 DEF ToSet
  <2> QED
    BY <1>4, <1>7, <2>1 DEF BlockEnd
<1> QED
  BY <1>2, <1>5, <1>6, <1>8 DEF AllIn

(* The blocks of the structs are where tp points to.                       *)
LEMMA StructsEmitted ==
  ASSUME MapInv, MapChecked, Linked(sections), AreasUnshared, Emittable,
         MaxNumCpus \in Nat \ {0}
  PROVE  StructsRight(StructBlocks)
<1>1. PICK n \in Nat : /\ DOMAIN input.c_structs = 1..n /\ StructSizes = [i \in 1..n |-> StructSizes[i]]
                       /\ \A i \in 1..n : StructSizes[i] \in Nat
                       /\ \A i, j \in 1..n : input.c_structs[i].name = input.c_structs[j].name => i = j
  BY StructsListed
<1>2. PICK M \in Nat \ {0} : M = MaxNumCpus
  OBVIOUS
<1>3. PICK labels, zs, cpus : /\ labels = [i \in 1..n |-> input.c_structs[i].name]
                              /\ zs = StructSizes /\ cpus = [c \in 1..M |-> c - 1]
  OBVIOUS
<1>4. PICK seqs : seqs = [i \in 1..n |-> PerCpu(labels[i], zs[i])]
  OBVIOUS
<1>5. PICK m : m = MappingOfSection(StructSection)
  OBVIOUS
<1>6. /\ LinkedAt(m) \in Int /\ MappingSize(m) \in Int
       /\ SectionStart(StructSection) = LinkedAt(m) * 8
       /\ StructsFit(m, StructSizes)
  BY <1>5, StructsMapped
<1>7. PICK at_ \in Int, base \in Int, size \in Int :
        at_ = LinkedAt(m) /\ base = at_ * 8 /\ size = MappingSize(m)
  BY <1>6
<1>8. StructBlocks = Placed(base, FlattenSeq(seqs))
  <2>1. seqs = [i \in DOMAIN input.c_structs |-> PerCpu(input.c_structs[i].name, StructSizes[i])]
    BY <1>1, <1>3, <1>4
  <2> QED
    <3>1. SectionStart(StructSection) = base
      BY <1>7, <1>6
    <3> QED
      BY <2>1, <3>1, Zenon DEF StructBlocks
<1>9. \A i \in 1..n : zs[i] \in Nat
  BY <1>1, <1>3
<1>10. Grid(FlattenSeq(seqs), n, M, labels, cpus, zs)
  BY <1>2, <1>3, <1>4, <1>9, StructsInRows
<1>11. PICK flat : flat = FlattenSeq(seqs) /\ Grid(flat, n, M, labels, cpus, zs)
  BY <1>10
<1>12. PICK b : b = StructBlocks
  OBVIOUS
<1>13. Rows(b, n, M, labels, cpus) /\ \E s, sizes : Laid(b, n, M, base, zs, s, sizes)
  <2>1. \A i, j \in 1..n : labels[i] = labels[j] => i = j
    BY <1>1, <1>3
  <2>2. M \in Nat /\ b = Placed(base, flat)
    BY <1>8, <1>11, <1>12
  <2> QED
    BY <1>11, <1>9, <2>1, <2>2, GridPlaced
<1>14. PICK s, sizes : Laid(b, n, M, base, zs, s, sizes)
  BY <1>13
<1>15. BlocksIn(ToSet(b), m)
  <2>1. zs = [i \in 1..n |-> zs[i]] /\ DOMAIN b = 1..n * M
    BY <1>1, <1>3, <1>13 DEF Rows
  <2>2. PICK end \in Int : end = base + M * Starts(0, zs)[n + 1] /\ AllIn(b, base, end)
    BY <1>9, <1>14, <2>1, GridInside
  <2>3. end <= (at_ + size) * 8
    <3>1. Len(zs) = n
      BY <2>1, FunctionLength
    <3>2. Starts(0, zs)[n + 1] * M <= size * 8
      BY <1>2, <1>3, <1>7, <1>6, <3>1 DEF StructsFit, EntryBytes
    <3>3. Starts(0, zs)[n + 1] \in Int
      <4>1. Follow(Starts(0, zs), 0, zs, n)
        <5>1. \A i \in 1..n : zs[i] \in Int
          BY <1>9
        <5>2. 0 \in Int
          OBVIOUS
        <5> QED
          BY <3>1, <5>1, <5>2, StartsFollow
      <4> QED
        BY <4>1 DEF Follow
    <3>4. PICK x \in Int : x = Starts(0, zs)[n + 1]
      BY <3>3
    <3>5. x * M = M * x /\ M * x \in Int
      OBVIOUS
    <3> QED
      BY <1>7, <2>2, <3>2, <3>4, <3>5
  <2>4. ASSUME NEW x \in ToSet(b)
        PROVE  /\ LinkedAt(m) * EntryBytes <= x.start
               /\ BlockEnd(x) <= (LinkedAt(m) + MappingSize(m)) * EntryBytes
    <3>1. at_ * 8 <= x.start /\ BlockEnd(x) <= (at_ + size) * 8
      <4>1. base <= x.start /\ BlockEnd(x) <= end
        BY <2>2 DEF AllIn
      <4>2. x.start \in Int /\ BlockEnd(x) \in Int
        <5>1. PICK p \in 1..n * M : x = b[p]
          BY <2>1 DEF ToSet
        <5> QED
          BY <1>14, <5>1 DEF Laid, Follow, BlockEnd
      <4> QED
        BY <1>7, <2>3, <4>1, <4>2
    <3> QED
      BY <1>7, <3>1 DEF EntryBytes
  <2> QED
    BY <2>4, Zenon DEF BlocksIn, LinkedAt
<1>16. ASSUME NEW i \in 1..n, NEW cpu \in 0..M - 1
       PROVE  LabelStart(b, labels[i]) + cpu * zs[i] = BlockOf(b, labels[i], cpu).start
  <2>1. PICK c \in 1..M : c = cpu + 1 /\ c - 1 = cpu
    OBVIOUS
  <2>2. cpus[c] = cpu /\ FirstOf(cpus, c, M)
    BY <1>3, <2>1 DEF FirstOf
  <2>3. FoundFor(b, labels[i], cpus[c], c, zs[i])
    BY <1>9, <1>13, <1>14, <2>2, GridFound
  <2> QED
    BY <2>1, <2>2, <2>3 DEF FoundFor
<1>17. ASSUME NEW i \in DOMAIN input.c_structs, NEW cpu \in 0..MaxNumCpus - 1
       PROVE  LabelStart(b, input.c_structs[i].name) + cpu * StructSizes[i] =
                BlockOf(b, input.c_structs[i].name, cpu).start
  <2>1. i \in 1..n /\ cpu \in 0..M - 1
    BY <1>1, <1>2
  <2>2. labels[i] = input.c_structs[i].name /\ zs[i] = StructSizes[i]
    BY <1>3, <2>1
  <2> QED
    BY <1>16, <2>1, <2>2
<1> QED
  BY <1>12, <1>15, <1>17, <1>5, Zenon DEF StructsRight

----------------------------------------------------------------------------
(* The register save areas                                                 *)

(* Of a mode: for every CPU, MaxContextSaves of them.                      *)
SaveBlocks(mode) ==
  FlattenSeq([c \in 1..MaxNumCpus |->
    [s \in 1..MaxContextSaves |->
      [label |-> mode, cpu |-> c - 1, size |-> NumSaveRegisters * 8]]])
IsSaves(g, mode, L, cpus, z) == \A p \in 1..L : g[p] = Block(mode, cpus[p], z)

CpusOfSaves(cpus, L, S) == \A p \in 1..L : cpus[p] = (p - 1) \div S

LEMMA CpuOfSave ==
  ASSUME NEW S \in Nat \ {0}, NEW c \in Nat \ {0}, NEW k \in 1..S, NEW p, p = (c - 1) * S + k
  PROVE  (p - 1) \div S = c - 1
<1>1. PICK q \in Int, r \in Int : q = c - 1 /\ r = k - 1 /\ 0 <= r /\ r < S
  OBVIOUS
<1>2. PICK x \in Int : x = q * S + r
  OBVIOUS
<1>3. p - 1 = x
  <2>1. PICK y \in Int : y = (c - 1) * S
    OBVIOUS
  <2> QED
    BY <1>1, <1>2, <2>1
<1>4. x \div S = q
  BY <1>1, <1>2, QuotientRemainder
<1> QED
  BY <1>1, <1>3, <1>4

SavedAt(seqs, S, g, p, c, k) == p = (c - 1) * S + k /\ g[p] = seqs[c][k]

LEMMA SavesInRows ==
  ASSUME NEW M \in Nat, NEW S \in Nat, NEW seqs, NEW g, Pieces(seqs, M, S, g),
         NEW p \in 1..M * S
  PROVE  \E c \in 1..M, k \in 1..S : SavedAt(seqs, S, g, p, c, k)
<1>1. PICK c \in 1..M, k \in 1..S : p = (c - 1) * S + k
  BY RowOf
<1> QED
  BY <1>1 DEF Pieces, SavedAt

(* The save areas of a mode are rows of MaxContextSaves each.              *)
LEMMA SavesPieces ==
  ASSUME NEW M \in Nat, NEW S \in Nat, NEW mode, NEW z,
         NEW seqs, seqs = [c \in 1..M |-> [s \in 1..S |-> Block(mode, c - 1, z)]],
         NEW g, g = FlattenSeq(seqs)
  PROVE  Pieces(seqs, M, S, g) /\ HasLength(g, M * S)
<1>1. HasLength(seqs, M)
  BY DEF HasLength
<1>2. ASSUME NEW c \in 1..M PROVE HasLength(seqs[c], S)
  <2>1. seqs[c] = [s \in 1..S |-> Block(mode, c - 1, z)]
    OBVIOUS
  <2> QED
    BY <2>1 DEF HasLength
<1> QED
  BY <1>1, <1>2, FlattenGrid

(* Every one of them is as large as the others and its CPU's.              *)
LEMMA SavesOfMode ==
  ASSUME NEW M \in Nat \ {0}, M = MaxNumCpus, NEW S \in Nat \ {0}, S = MaxContextSaves,
         NEW z \in Nat, z = NumSaveRegisters * 8, NEW L \in Nat, L = M * S,
         NEW cpus, CpusOfSaves(cpus, L, S), NEW mode, NEW g, g = SaveBlocks(mode)
  PROVE  HasLength(g, L) /\ IsSaves(g, mode, L, cpus, z)
<1>1. PICK seqs : seqs = [c \in 1..M |-> [s \in 1..S |-> Block(mode, c - 1, z)]]
  OBVIOUS
<1>2. g = FlattenSeq(seqs)
  BY <1>1 DEF SaveBlocks, Block
<1>3. Pieces(seqs, M, S, g) /\ HasLength(g, M * S)
  <2>1. M \in Nat /\ S \in Nat
    OBVIOUS
  <2> QED
    BY <1>1, <1>2, <2>1, SavesPieces
<1>4. ASSUME NEW p \in 1..L PROVE g[p] = Block(mode, cpus[p], z)
  <2>1. PICK c \in 1..M, k \in 1..S : p = (c - 1) * S + k /\ g[p] = seqs[c][k]
    <3>1. M \in Nat /\ S \in Nat /\ p \in 1..M * S
      OBVIOUS
    <3>2. PICK c \in 1..M, k \in 1..S : SavedAt(seqs, S, g, p, c, k)
      BY <1>3, <3>1, SavesInRows, Zenon
    <3> QED
      BY <3>2 DEF SavedAt
  <2>2. seqs[c][k] = Block(mode, c - 1, z)
    BY <1>1
  <2>3. (p - 1) \div S = c - 1
    <3>1. c \in Nat \ {0}
      OBVIOUS
    <3> QED
      BY <2>1, <3>1, CpuOfSave
  <2> QED
    BY <2>1, <2>2, <2>3 DEF CpusOfSaves
<1> QED
  BY <1>3, <1>4 DEF IsSaves

ContextsRight(contexts) ==
  \A mode \in ToSet(ContextModes) : \A cpu \in 0..MaxNumCpus - 1 :
    LabelStart(contexts, mode) + cpu * (NumSaveRegisters * 8 * MaxContextSaves) =
      BlockOf(contexts, mode, cpu).start

(* Each CPU starts with the first of its own.                              *)
FirstOfCpu(cpus, cpu, k, L, S) == k - 1 = cpu * S /\ cpus[k] = cpu /\ FirstOf(cpus, k, L)

LEMMA FirstSave ==
  ASSUME NEW M \in Nat \ {0}, NEW S \in Nat \ {0}, NEW L \in Nat, L = M * S,
         NEW cpus, CpusOfSaves(cpus, L, S), NEW cpu \in 0..M - 1
  PROVE  \E k \in 1..L : FirstOfCpu(cpus, cpu, k, L, S)
<1>1. PICK c \in 1..M : c = cpu + 1 /\ c - 1 = cpu
  OBVIOUS
<1>2. PICK x \in Nat, k \in 1..L : x = cpu * S /\ k = x + 1
  <2>1. (c - 1) * S \in Nat /\ (c - 1) * S + 1 \in 1..M * S
    <3>1. 1 \in 1..S /\ S \in Nat /\ M \in Nat
      OBVIOUS
    <3> QED
      BY <3>1, RowIn
  <2> QED
    BY <1>1, <2>1
<1>3. cpus[k] = cpu
  <2>1. x \div S = cpu
    <3>1. PICK r \in Int : r = 0 /\ 0 <= r /\ r < S /\ x = cpu * S + r
      BY <1>2
    <3> QED
      BY <3>1, QuotientRemainder
  <2> QED
    BY <1>2, <2>1 DEF CpusOfSaves
<1>4. ASSUME NEW l \in 1..L, cpus[l] = cpu PROVE k <= l
  <2>1. PICK y \in Int, q \in Int, r \in Int :
          y = l - 1 /\ q = y \div S /\ r = y % S /\ 0 <= r /\ y = q * S + r
    <3>1. PICK y \in Int : y = l - 1
      OBVIOUS
    <3>2. PICK q \in Int, r \in Int : q = y \div S /\ r = y % S /\ 0 <= r /\ y = q * S + r
      OBVIOUS
    <3> QED
      BY <3>1, <3>2
  <2>2. q = cpu
    BY <1>4, <2>1 DEF CpusOfSaves
  <2> QED
    BY <1>2, <2>1, <2>2
<1> QED
  BY <1>2, <1>3, <1>4 DEF FirstOf, FirstOfCpu

(* The blocks of the save areas are where the trap entry looks for them.   *)
LEMMA ContextsEmitted ==
  ASSUME MaxNumCpus \in Nat \ {0}
  PROVE  ContextsRight(ContextBlocks)
<1>1. PICK M \in Nat \ {0}, S \in Nat \ {0}, z \in Nat, n \in Nat :
        M = MaxNumCpus /\ S = MaxContextSaves /\ z = NumSaveRegisters * 8 /\ n = Len(ContextModes)
  BY SavesAssumption, ContextModesFacts DEF Distinct
<1>2. PICK L \in Nat \ {0} : L = M * S
  <2>1. M * S \in Nat /\ M * S # 0
    OBVIOUS
  <2> QED
    BY <2>1
<1>3. PICK cpus, labels, zs : /\ cpus = [p \in 1..L |-> (p - 1) \div S]
                              /\ labels = ContextModes /\ zs = [i \in 1..n |-> z]
  OBVIOUS
<1>4. /\ DOMAIN labels = 1..n /\ \A i, j \in 1..n : labels[i] = labels[j] => i = j
      /\ \A i \in 1..n : zs[i] \in Nat /\ zs[i] = z
      /\ CpusOfSaves(cpus, L, S)
  BY <1>1, <1>3, ContextModesFacts DEF Distinct, CpusOfSaves
<1>5. PICK seqs : seqs = [i \in 1..n |-> SaveBlocks(labels[i])]
  OBVIOUS
<1>6. ASSUME NEW i \in 1..n
      PROVE  HasLength(seqs[i], L) /\ IsSaves(seqs[i], labels[i], L, cpus, z)
  <2>1. PICK g, mode : g = seqs[i] /\ mode = labels[i]
    OBVIOUS
  <2>2. g = SaveBlocks(mode)
    BY <1>5, <2>1
  <2>3. HasLength(g, L) /\ IsSaves(g, mode, L, cpus, z)
    <3>1. L \in Nat
      OBVIOUS
    <3> QED
      BY <1>1, <1>2, <1>4, <2>2, <3>1, SavesOfMode
  <2> QED
    BY <2>1, <2>3
<1>7. PICK flat : flat = FlattenSeq(seqs)
  OBVIOUS
<1>8. Pieces(seqs, n, L, flat)
  <2>1. HasLength(seqs, n) /\ L \in Nat
    BY <1>5 DEF HasLength
  <2> QED
    BY <1>6, <1>7, <2>1, FlattenGrid
<1>9. Grid(flat, n, L, labels, cpus, zs)
  <2>1. ASSUME NEW i \in 1..n, NEW k \in 1..L
        PROVE  flat[(i - 1) * L + k] = Block(labels[i], cpus[k], zs[i])
    <3>1. flat[(i - 1) * L + k] = seqs[i][k]
      BY <1>8 DEF Pieces
    <3>2. seqs[i][k] = Block(labels[i], cpus[k], z)
      BY <1>6 DEF IsSaves
    <3> QED
      BY <1>4, <3>1, <3>2
  <2> QED
    BY <1>8, <2>1 DEF Grid, Pieces
<1>10. PICK base \in Int : base = 0
  OBVIOUS
<1>11. PICK b : b = ContextBlocks
  OBVIOUS
<1>12. b = Placed(base, flat)
  <2>1. seqs = [i \in DOMAIN ContextModes |->
                  FlattenSeq([c \in 1..MaxNumCpus |->
                    [s \in 1..MaxContextSaves |->
                      [label |-> ContextModes[i], cpu |-> c - 1, size |-> NumSaveRegisters * 8]]])]
    BY <1>3, <1>4, <1>5, Zenon DEF SaveBlocks
  <2> QED
    BY <1>7, <1>11, <1>10, <2>1, Zenon DEF ContextBlocks
<1>13. Rows(b, n, L, labels, cpus) /\ \E s, sizes : Laid(b, n, L, base, zs, s, sizes)
  <2>1. L \in Nat
    OBVIOUS
  <2> QED
    BY <1>4, <1>9, <1>12, <2>1, GridPlaced
<1>14. PICK s, sizes : Laid(b, n, L, base, zs, s, sizes)
  BY <1>13
<1>15. ASSUME NEW i \in 1..n, NEW cpu \in 0..M - 1
       PROVE  LabelStart(b, labels[i]) + cpu * (z * S) = BlockOf(b, labels[i], cpu).start
  <2>1. PICK k \in 1..L : k - 1 = cpu * S /\ cpus[k] = cpu /\ FirstOf(cpus, k, L)
    <3>1. PICK k \in 1..L : FirstOfCpu(cpus, cpu, k, L, S)
      <4>1. L \in Nat
        OBVIOUS
      <4> QED
        BY <1>2, <1>4, <4>1, FirstSave, Zenon
    <3> QED
      BY <3>1 DEF FirstOfCpu
  <2>2. FoundFor(b, labels[i], cpus[k], k, zs[i])
    BY <1>4, <1>13, <1>14, <2>1, GridFound
  <2>3. (k - 1) * z = cpu * (z * S)
    <3>1. (cpu * S) * z = cpu * (z * S)
      OBVIOUS
    <3> QED
      BY <2>1, <3>1
  <2> QED
    BY <1>4, <2>1, <2>2, <2>3 DEF FoundFor
<1>16. ASSUME NEW mode \in ToSet(ContextModes), NEW cpu \in 0..MaxNumCpus - 1
       PROVE  LabelStart(b, mode) + cpu * (NumSaveRegisters * 8 * MaxContextSaves) =
                BlockOf(b, mode, cpu).start
  <2>1. PICK i \in 1..n : mode = labels[i]
    BY <1>3, <1>4 DEF ToSet
  <2> QED
    BY <1>1, <1>15, <2>1
<1> QED
  BY <1>11, <1>16, Zenon DEF ContextsRight

----------------------------------------------------------------------------
(* The areas of the CPUs                                                   *)

AreasRight(a) ==
  StacksRight(a.stacks) /\ StructsRight(a.structs) /\ ContextsRight(a.contexts)

(* The property in these terms.                                            *)
LEMMA CpuAreasRightMeans ==
  CpuAreasRight <=> (phase = "done" => AreasRight(assembly) /\ FieldsRightOf(input.c_structs))
<1>1. StacksRight(assembly.stacks) <=>
        \A i \in DOMAIN StackTypes : LET type == StackTypes[i] IN
          /\ BlocksIn({assembly.stacks[n] : n \in Labelled(assembly.stacks, type)},
                      StackMapping(type))
          /\ \A cpu \in 0..MaxNumCpus - 1 :
               StackPointer(type, cpu) = BlockEnd(BlockOf(assembly.stacks, type, cpu))
  BY Zenon DEF StacksRight, StackPointer
<1>2. StructsRight(assembly.structs) <=>
        /\ BlocksIn(ToSet(assembly.structs), MappingOfSection(StructSection))
        /\ \A i \in DOMAIN input.c_structs : \A cpu \in 0..MaxNumCpus - 1 :
             StructPointer(i, cpu) = BlockOf(assembly.structs, input.c_structs[i].name, cpu).start
  BY Zenon DEF StructsRight, StructPointer
<1>3. ContextsRight(assembly.contexts) <=>
        \A mode \in ToSet(ContextModes) : \A cpu \in 0..MaxNumCpus - 1 :
          ContextPointer(mode, cpu) = BlockOf(assembly.contexts, mode, cpu).start
  BY Zenon DEF ContextsRight, ContextPointer
<1>4. FieldsRightOf(input.c_structs) <=>
        \A i \in DOMAIN input.c_structs : LET fields == input.c_structs[i].fields IN
          \A n \in DOMAIN fields :
            /\ FieldOffset(fields, n) % fields[n].size = 0
            /\ \A k \in 1..n - 1 : FieldEnds(fields)[k] <= FieldOffset(fields, n)
            /\ FieldEnds(fields)[n] <= StructSize(fields)
  BY Zenon DEF FieldsRightOf, FieldsApart
<1> QED
  BY <1>1, <1>2, <1>3, <1>4, Zenon DEF CpuAreasRight, AreasRight

(* All three are emitted right.                                            *)
LEMMA AreasEmitted ==
  ASSUME MapInv, MapChecked, Attributed, Linked(sections), AreasUnshared, SizesSound, Emittable
  PROVE  /\ StacksRight(StackBlocks) /\ StructsRight(StructBlocks) /\ ContextsRight(ContextBlocks)
         /\ FieldsRightOf(input.c_structs)
<1>1. MaxNumCpus \in Nat \ {0}
  BY CpusCountedMeans DEF MapInv
<1> QED
  BY <1>1, StacksEmitted, StructsEmitted, ContextsEmitted, StructsListed

(* Nothing but the input and the map says where they should be.            *)
LEMMA AreasStay ==
  ASSUME UNCHANGED <<input, diag_attributes, memory_map>>, NEW a
  PROVE  /\ AreasRight(a)' <=> AreasRight(a)
         /\ FieldsRightOf(input.c_structs)' <=> FieldsRightOf(input.c_structs)
         /\ AreasUnshared' <=> AreasUnshared
         /\ SizesSound' <=> SizesSound
<1>1. LinkerWork' = LinkerWork /\ (SizesSound' <=> SizesSound)
  BY LinkerWorkStays
<1>2. MaxNumCpus' = MaxNumCpus /\ PrivModes' = PrivModes
  BY DEF MaxNumCpus, PrivModes
<1>3. StackTypes' = StackTypes /\ ContextModes' = ContextModes /\ StructSizes' = StructSizes
  BY <1>2, Zenon DEF StackTypes, ContextModes, StructSizes
<1>4. \A names : MappingOfSection(names)' = MappingOfSection(names)
  BY <1>1, Zenon DEF MappingOfSection
<1>5. \A type : /\ StackMapping(type)' = StackMapping(type)
                /\ StackBytesPerCpu(type)' = StackBytesPerCpu(type)
  BY <1>2, <1>4, Zenon DEF StackMapping, StackBytesPerCpu
<1>6. \A blocks, m : BlocksIn(blocks, m)' <=> BlocksIn(blocks, m)
  BY Zenon DEF BlocksIn, Source, Dest, MappingSize
<1>7. AreasUnshared' <=> AreasUnshared
  BY <1>1, <1>3, Zenon DEF AreasUnshared, AreaSections
<1>8. StacksRight(a.stacks)' <=> StacksRight(a.stacks)
  BY <1>2, <1>3, <1>5, <1>6, Zenon DEF StacksRight
<1>9. StructsRight(a.structs)' <=> StructsRight(a.structs)
  BY <1>2, <1>3, <1>4, <1>6, Zenon DEF StructsRight
<1>10. ContextsRight(a.contexts)' <=> ContextsRight(a.contexts)
  BY <1>2, <1>3, Zenon DEF ContextsRight
<1>11. FieldsRightOf(input.c_structs)' <=> FieldsRightOf(input.c_structs)
  BY Zenon DEF FieldsRightOf
<1> QED
  BY <1>1, <1>7, <1>8, <1>9, <1>10, <1>11, Zenon DEF AreasRight

AreasInv == phase = "done" /\ AreasUnshared /\ SizesSound => CpuAreasRight

(* They are emitted once, and nothing is changed after that.               *)
LEMMA AreasStep ==
  ASSUME TablesInv, SectionsInv, AreasInv, [Next]_vars
  PROVE  AreasInv'
<1> SUFFICES ASSUME phase' = "done", AreasUnshared', SizesSound' PROVE CpuAreasRight'
  BY DEF AreasInv
<1>1. CASE GenerateAssembly /\ UNCHANGED <<tableVars, sections>>
  <2>1. /\ phase = "assembly" /\ Emittable /\ UNCHANGED <<input, diag_attributes, memory_map>>
        /\ assembly'.stacks = StackBlocks /\ assembly'.structs = StructBlocks
        /\ assembly'.contexts = ContextBlocks
    BY <1>1 DEF GenerateAssembly, Reject, Advance
  <2>2. PICK a : a = assembly'
    OBVIOUS
  <2>3. /\ AreasRight(a)' <=> AreasRight(a)
        /\ FieldsRightOf(input.c_structs)' <=> FieldsRightOf(input.c_structs)
        /\ AreasUnshared /\ SizesSound
    BY <2>1, AreasStay
  <2>4. MapInv /\ MapChecked /\ Attributed /\ Linked(sections)
    <3>1. MapInv /\ Linked(sections) /\ MapChecked
      BY <2>1 DEF TablesInv, TileInv, SectionsInv, MapChecked
    <3> QED
      BY <2>1, <3>1 DEF MapInv, MapTyped, Attributed
  <2>5. AreasRight(a) /\ FieldsRightOf(input.c_structs)
    BY <2>1, <2>2, <2>3, <2>4, AreasEmitted DEF AreasRight
  <2>6. (AreasRight(assembly) /\ FieldsRightOf(input.c_structs))'
    BY <2>2, <2>3, <2>5
  <2> QED
    BY <2>6, CpuAreasRightMeans, PTL
<1>2. CASE UNCHANGED vars
  <2>1. phase = "done" /\ UNCHANGED <<input, diag_attributes, memory_map, assembly>>
    BY <1>2 DEF vars, mapVars
  <2>2. PICK a : a = assembly
    OBVIOUS
  <2>3. /\ AreasRight(a)' <=> AreasRight(a)
        /\ FieldsRightOf(input.c_structs)' <=> FieldsRightOf(input.c_structs)
        /\ AreasUnshared /\ SizesSound
    BY <2>1, AreasStay
  <2>4. AreasRight(a) /\ FieldsRightOf(input.c_structs)
    BY <2>1, <2>2, <2>3, CpuAreasRightMeans DEF AreasInv
  <2>5. (AreasRight(assembly) /\ FieldsRightOf(input.c_structs))'
    BY <2>1, <2>2, <2>3, <2>4
  <2> QED
    BY <2>5, CpuAreasRightMeans, PTL
<1>3. CASE MapNext \/ TablesNext \/ SectionsNext
  BY <1>3 DEF MapNext, ProcessDiagAttributes, AddJumpstartSection, AddPagetableMappings,
              AddDiagMapping, CheckMemoryMap, TablesNext, SkipBareStage, BeginStage, WriteEntry,
              FinishStage, FinishTables, RejectTables, SectionsNext, CollectSection,
              FinishLinkerScript, RejectSections, Reject, Advance, StageLeft, mapVars
<1> QED
  BY <1>1, <1>2, <1>3 DEF Next

(* When the generator is done, the stack, the structs and the register save*)
(* areas that the boot code and the trap entry multiply out for a CPU are  *)
(* those emitted for it, inside the memory that was mapped for them, and the*)
(* fields of a struct neither overlap nor leave it                         *)
(* (generate_thread_attributes_code, generate_diag_sources.py:1039, and    *)
(* setup_stack, jumpstart.mmode.S:82) - if every mapping named like an area*)
(* has that name only and no mapping has a negative size: nothing in the   *)
(* generator checks either.                                                *)
THEOREM CpuAreasAreRight == Spec => [](AreasUnshared /\ SizesSound => CpuAreasRight)
<1> DEFINE Inv == SectionsInv /\ AreasInv
<1>1. Init => Inv
  BY DEF Init, MapInit, SectionsInit, SectionsInv, SectionsSound, AreasInv
<1>2. TablesInv /\ Inv /\ [Next]_vars => Inv'
  <2> SUFFICES ASSUME TablesInv, Inv, [Next]_vars PROVE Inv'
    OBVIOUS
  <2> QED
    BY SectionsInvStep, AreasStep
<1>3. Inv => (AreasUnshared /\ SizesSound => CpuAreasRight)
  BY DEF AreasInv, CpuAreasRight
<1> QED
  BY <1>1, <1>2, <1>3, TablesInvHolds, PTL DEF Spec
=============================================================================
