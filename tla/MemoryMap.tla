------------------------------ MODULE MemoryMap ------------------------------
(***************************************************************************)
(* How the source generator lays out memory (generate_diag_sources.py and  *)
(* public/functions.py): the attributes of the diag are merged, the        *)
(* sections of jumpstart are placed one after the other in every stage,    *)
(* the page tables after them, the mappings of the diag after that, and    *)
(* the whole is checked.  An exception anywhere ends the generator: the    *)
(* phase is then "rejected".  rivos_internal_build is False.               *)
(***************************************************************************)
EXTENDS MemoryMapping, SequencesExt

CONSTANTS
  Inputs,           \* what the generator may be run on
  DefaultAttributes,    \* diag_attributes of the source attributes yaml
  JumpstartSections     \* by mode, the sections of jumpstart_<mode>, in order

VARIABLES
  phase,            \* how far main() has come
  at,               \* the next item of the list the phase goes through
  memory_map        \* by stage, the mappings in the order of the list

(* A mask is a number: the CPUs whose bits are 1 are finitely many.        *)
MaskFinite(attributes) ==
  "active_cpu_mask" \in DOMAIN attributes =>
    IsFiniteSet(attributes.active_cpu_mask) /\ attributes.active_cpu_mask \subseteq Nat
ASSUME MasksAssumption ==
  /\ "active_cpu_mask" \in DOMAIN DefaultAttributes /\ MaskFinite(DefaultAttributes)
  /\ \A i \in Inputs : MaskFinite(i.diag) /\ MaskFinite(i.overrides)

mapVars == <<input, diag_attributes, phase, at, memory_map>>

Supported == <<"mmode", "smode", "umode">>
MappingsOf(stage) == ToSet(memory_map[stage])

----------------------------------------------------------------------------
(* Lists                                                                   *)

(* The elements of s at the positions in I, put in order by `before', a    *)
(* set of pairs of positions.                                              *)
Pairs(I) == I \X I
Arranged(s, I, before) ==
  LET rank == [i \in I |-> Cardinality({j \in I : <<j, i>> \in before})]
  IN [n \in 1..Cardinality(I) |-> s[CHOOSE i \in I : rank[i] = n - 1]]

Chosen(s, I) == Arranged(s, I, {p \in Pairs(I) : p[1] < p[2]})
PrivModes == Chosen(Supported, {i \in DOMAIN Supported : Supported[i] \in input.priv_modes})

(* Python's sorted(): equal items keep their order.                        *)
SortedBy(s, field) ==
  LET key(i) == s[i][field]
  IN Arranged(s, DOMAIN s, {p \in Pairs(DOMAIN s) :
       key(p[1]) < key(p[2]) \/ (key(p[1]) = key(p[2]) /\ p[1] < p[2])})

(* Mutation: every mapping is taken to have one page.                      *)
FirstPagesApart(s, field) ==
  \A i \in 1..Len(s) - 1 : s[i][field] + s[i].page_size <= s[i + 1][field]
(* Only neighbours of the sorted list are compared.                        *)
NeighboursApart(s, field) ==
  \A i \in 1..Len(s) - 1 : s[i][field] + MappingSize(s[i]) <= s[i + 1][field]
NoAddressOverlaps(field, s) == NeighboursApart(SortedBy(s, field), field)

----------------------------------------------------------------------------
(* Placement                                                               *)

(* The address after the mapping that was added last, which need not be    *)
(* the one that lies last.                                                 *)
NextAvailable(stage, page_size) ==
  LET m == memory_map[stage][Len(memory_map[stage])]
  IN AlignUp(Dest(m) + MappingSize(m), page_size)

NamesSection(dict, name) ==
  "linker_script_section" \in DOMAIN dict /\ Contains(dict.linker_script_section, name)

OverrideValid(original, overrides) == DOMAIN overrides \subseteq DOMAIN original

(* The diag's attributes and then those of the command line; the primary   *)
(* CPU is the lowest of the mask unless one is named.                      *)
MergedAttributes ==
  LET a == Override(Override(DefaultAttributes, input.diag), input.overrides)
  IN IF a.primary_cpu_id # None \/ a.active_cpu_mask = {} THEN a
     ELSE [a EXCEPT !.primary_cpu_id = LowestCpu(a.active_cpu_mask)]

AttributesValid(a) ==
  /\ OverrideValid(DefaultAttributes, input.diag)
  /\ OverrideValid(DefaultAttributes, input.overrides)
  /\ a.primary_cpu_id \in a.active_cpu_mask
  /\ LET stages == EnabledStages(a.enable_virtualization) IN
     \A i \in DOMAIN stages : a[AtpMode[stages[i]]] \in ValidModes(stages[i])

(* The sections of every mode of every stage, in the order they are added. *)
JumpstartWork ==
  FlattenSeq([i \in DOMAIN Enabled |->
    FlattenSeq([j \in DOMAIN PrivModes |->
      [k \in DOMAIN JumpstartSections[PrivModes[j]] |->
        [stage |-> Enabled[i], mode |-> PrivModes[j], first |-> k = 1,
         section |-> JumpstartSections[PrivModes[j]][k]]]])])

(* The diag may size the sections of jumpstart.                            *)
SizeFields == {"num_pages", "page_size", "num_pages_per_cpu"}
SizeAttribute(w, field) == field \o "_for_jumpstart_" \o w.mode \o "_" \o w.section.name
SizeGiven(w) == {f \in SizeFields : SizeAttribute(w, f) \in DOMAIN diag_attributes}
SizedSection(w) ==
  LET dict == w.section.mapping
      sized == [f \in SizeGiven(w) |-> diag_attributes[SizeAttribute(w, f)]]
      direct == Override([f \in DOMAIN dict \ {"xwr", "umode"} |-> dict[f]],
                         [no_pte_allocation |-> TRUE])
  IN Override(Override(IF Mode(w.stage) = "bare" THEN direct ELSE dict,
                       [translation_stage |-> w.stage]), sized)

AreaStart(w) ==
  IF w.first THEN diag_attributes[w.mode \o "_start_address"] ELSE None

SectionPlaceable(w) ==
  /\ SizeGiven(w) \cap DOMAIN w.section.mapping = {}
  /\ AreaStart(w) # None \/ (memory_map[w.stage] # <<>> /\ "page_size" \in DOMAIN SizedSection(w))

PlacedSection(w) ==
  LET dict == SizedSection(w)
      start == IF AreaStart(w) # None THEN AreaStart(w)
               ELSE NextAvailable(w.stage, dict.page_size)
      dest == IF "alignment" \in DOMAIN dict THEN AlignUp(start, dict.alignment) ELSE start
      direct == "no_pte_allocation" \in DOMAIN dict /\ dict.no_pte_allocation
      addressed == {TranslatesTo[w.stage]} \cup IF direct THEN {} ELSE {TranslatesFrom[w.stage]}
  IN Override(IF w.stage = "g" /\ ~direct THEN Override(dict, [umode |-> 1]) ELSE dict,
              [f \in addressed |-> dest])

----------------------------------------------------------------------------
(* Page tables                                                             *)

Translated == Chosen(Enabled, {i \in DOMAIN Enabled : Mode(Enabled[i]) # "bare"})
TableRegionSize == diag_attributes.max_num_pagetable_pages_per_stage * SIZE_4K

PagetablesStart ==
  LET ends == {NextAvailable(stage, SIZE_4K) : stage \in EnabledSet}
  IN CHOOSE a \in ends : \A b \in ends : b <= a

(* One region after the other, each aligned to the root table.             *)
RegionStart[i \in DOMAIN Translated] ==
  AlignUp(IF i = 1 THEN PagetablesStart ELSE RegionStart[i - 1] + TableRegionSize,
          PagetableSize(Mode(Translated[i]), 0))

TableSection(stage) == <<stage \o "_stage.pagetables">>
ASSUME TableSectionAssumption ==
  /\ \A stage \in Stage : TableSection(stage) # None /\ TableSection(stage)[1] # ".text.startup"
  /\ \A s, t \in Stage : TableSection(s) = TableSection(t) => s = t

(* No section of jumpstart is one of the page tables.                      *)
ASSUME JumpstartAssumption ==
  \A i \in DOMAIN Supported : LET area == JumpstartSections[Supported[i]] IN
    /\ Len(area) \in Nat /\ DOMAIN area = 1..Len(area)
    /\ \A k \in DOMAIN area : \A stage \in Stage :
         ~NamesSection(area[k].mapping, TableSection(stage)[1])

PagetableDict(i) ==
  LET stage == Translated[i] IN
  Override(
    [page_size |-> SIZE_4K,
     num_pages |-> diag_attributes.max_num_pagetable_pages_per_stage,
     umode |-> 0, pma_memory_type |-> "wb",
     xwr |-> IF diag_attributes.allow_page_table_modifications THEN 3 ELSE 1,
     translation_stage |-> stage, linker_script_section |-> TableSection(stage)],
    [f \in {TranslatesFrom[stage], TranslatesTo[stage]} |-> RegionStart[i]])

(* The guest's tables are read through the G stage, and the hypervisor     *)
(* has both of them in its own map.                                        *)
VsTablesInG(vs) ==
  [vs EXCEPT !.translation_stage = "g", !.va = None, !.spa = vs.gpa, !.umode = 1]
GTablesInHs(g) ==
  [g EXCEPT !.translation_stage = "hs", !.va = g.gpa, !.pa = g.spa, !.gpa = None, !.spa = None]
VsTablesInHs(vs) ==
  [vs EXCEPT !.translation_stage = "hs", !.pa = vs.gpa, !.gpa = None]

TablesOf(stage) ==
  LET own == {i \in DOMAIN Translated : Translated[i] = stage}
  IN IF own = {} THEN <<>> ELSE <<NewMapping(PagetableDict(CHOOSE i \in own : TRUE))>>
(* Mutation: each stage maps its own tables and no others.                 *)
OwnTablesOnly(stage) == TablesOf(stage)
TableMappings(stage) ==
  TablesOf(stage) \o
  (CASE stage = "g" -> <<VsTablesInG(TablesOf("vs")[1])>>
     [] stage = "hs" -> <<GTablesInHs(TablesOf("g")[1]), VsTablesInHs(TablesOf("vs")[1])>>
     [] OTHER -> <<>>)

(* With virtualization the code indexes the mappings of vs and g, which    *)
(* are not there when their mode is bare.                                  *)
PagetablesPlaceable ==
  /\ \A stage \in EnabledSet : memory_map[stage] # <<>>
  /\ \A i \in DOMAIN Translated : Accepted(PagetableDict(i))
  /\ "g" \in EnabledSet => {"vs", "g"} \subseteq ToSet(Translated)

----------------------------------------------------------------------------
(* Mappings of the diag                                                    *)

(* By page size, then those without addresses, then by address; a missing  *)
(* value is infinite.                                                      *)
Infinite == 2^Xlen
SortKey(dict) ==
  LET value(f) == IF f \in DOMAIN dict THEN dict[f] ELSE Infinite
  IN IF HasNoAddresses(dict) THEN <<value("page_size"), 0>>
     ELSE <<value("page_size"), 1, value("va"), value("pa"), value("gpa"), value("spa")>>
KeyBefore(k, l) ==
  \E i \in DOMAIN k \cap DOMAIN l : k[i] < l[i] /\ \A j \in 1..i - 1 : k[j] = l[j]
DiagWork ==
  LET dicts == diag_attributes.mappings
      before(i, j) == KeyBefore(SortKey(dicts[i]), SortKey(dicts[j]))
  IN Arranged(dicts, DOMAIN dicts, {p \in Pairs(DOMAIN dicts) :
       before(p[1], p[2]) \/ (~before(p[2], p[1]) /\ p[1] < p[2])})

IsText(dict) == NamesSection(dict, ".text")
AlignsToNapot(dict) == diag_attributes.start_test_in_mmode /\ IsText(dict)

AddressesAssignable(dict) ==
  /\ ~diag_attributes.enable_virtualization
  /\ {"page_size", "pma_memory_type"} \subseteq DOMAIN dict
  /\ AlignsToNapot(dict) => "num_pages" \in DOMAIN dict

AssignAddresses(dict) ==
  LET stage == Enabled[1]
      next == IF memory_map[stage] = <<>> THEN 0 ELSE NextAvailable(stage, dict.page_size)
      address == IF AlignsToNapot(dict)
                 THEN AlignUp(next, NextNapotSize(dict.page_size * dict.num_pages))
                 ELSE next
      addressed == {TranslatesTo[stage]} \cup
                   IF diag_attributes.satp_mode = "bare" THEN {} ELSE {TranslatesFrom[stage]}
  IN Override(dict, [f \in addressed |-> address])

DiagDict(dict) == IF HasNoAddresses(dict) THEN AssignAddresses(dict) ELSE dict
DiagMappable(dict) ==
  /\ HasNoAddresses(dict) => AddressesAssignable(dict)
  /\ Accepted(DiagDict(dict))

----------------------------------------------------------------------------
(* The check of the memory map                                             *)

Aliases(s) == Chosen(s, {i \in DOMAIN s : s[i].alias})
NonAliases(s) == Chosen(s, {i \in DOMAIN s : ~s[i].alias})
WithSource(s) == Chosen(s, {i \in DOMAIN s : Source(s[i]) # None})

Within(m, n) ==
  /\ Dest(n) <= Dest(m)
  /\ Dest(m) + MappingSize(m) <= Dest(n) + MappingSize(n)

SanityCheckMemoryMap(map) ==
  /\ \A stage \in EnabledSet :
       /\ NoAddressOverlaps(TranslatesFrom[stage], WithSource(map[stage]))
       /\ NoAddressOverlaps(TranslatesTo[stage], NonAliases(map[stage]))
       /\ \A m \in ToSet(Aliases(map[stage])) :
            Source(m) # None => \E n \in ToSet(NonAliases(map[stage])) : Within(m, n)
  /\ \E stage \in EnabledSet : \E m \in ToSet(NonAliases(map[stage])) :
       m.linker_script_section # None /\ Contains(m.linker_script_section, ".text")

----------------------------------------------------------------------------
(* The steps                                                               *)

MapInit ==
  /\ input \in Inputs
  /\ diag_attributes = DefaultAttributes
  /\ phase = "attributes" /\ at = 1
  /\ memory_map = <<>>

(* An exception leaves main().                                             *)
Reject ==
  /\ phase' = "rejected"
  /\ UNCHANGED <<input, diag_attributes, at, memory_map>>

Advance(next) == phase' = next /\ at' = 1

ProcessDiagAttributes ==
  /\ phase = "attributes"
  /\ \/ /\ AttributesValid(MergedAttributes)
        /\ diag_attributes' = MergedAttributes
        /\ memory_map' = [stage \in EnabledSet' |-> <<>>]
        /\ Advance("jumpstart")
        /\ UNCHANGED input
     \/ ~AttributesValid(MergedAttributes) /\ Reject

(* A section of no pages is left out, before its fields are looked at.     *)
IsEmptySection(dict) == "num_pages" \in DOMAIN dict /\ dict.num_pages = 0
SectionAccepted(w) ==
  /\ SectionPlaceable(w)
  /\ \E dict \in {PlacedSection(w)} : IsEmptySection(dict) \/ Accepted(dict)

AddJumpstartSection ==
  /\ phase = "jumpstart"
  /\ \E work \in {JumpstartWork} : at <= Len(work) /\ \E w \in {work[at]} :
       \/ /\ SectionAccepted(w)
          /\ at' = at + 1
          /\ \E dict \in {PlacedSection(w)} :
               memory_map' = IF IsEmptySection(dict) THEN memory_map
                             ELSE [memory_map EXCEPT ![w.stage] = Append(@, NewMapping(dict))]
          /\ UNCHANGED <<input, diag_attributes, phase>>
       \/ ~SectionAccepted(w) /\ Reject

AddPagetableMappings ==
  /\ phase = "jumpstart" /\ at > Len(JumpstartWork)
  /\ \/ /\ PagetablesPlaceable
        /\ memory_map' = [stage \in EnabledSet |-> memory_map[stage] \o TableMappings(stage)]
        /\ Advance("diag")
        /\ UNCHANGED <<input, diag_attributes>>
     \/ ~PagetablesPlaceable /\ Reject

DiagMappingLeft == diag_attributes.mappings # None /\ at <= Len(diag_attributes.mappings)
AddDiagMapping ==
  /\ phase = "diag" /\ DiagMappingLeft
  /\ \E dict \in {DiagWork[at]} :
       \/ /\ DiagMappable(dict)
          /\ at' = at + 1
          /\ \E m \in {NewMapping(DiagDict(dict))} :
               memory_map' = [memory_map EXCEPT ![m.translation_stage] = Append(@, m)]
          /\ UNCHANGED <<input, diag_attributes, phase>>
       \/ ~DiagMappable(dict) /\ Reject

(* Sorted by destination, then checked.                                    *)
SortedMap == [stage \in EnabledSet |-> SortedBy(memory_map[stage], TranslatesTo[stage])]
CheckMemoryMap ==
  /\ phase = "diag" /\ ~DiagMappingLeft
  /\ \E sorted \in {SortedMap} :
       \/ /\ diag_attributes.mappings # None /\ SanityCheckMemoryMap(sorted)
          /\ memory_map' = sorted
          /\ Advance("tables")
          /\ UNCHANGED <<input, diag_attributes>>
       \/ ~(diag_attributes.mappings # None /\ SanityCheckMemoryMap(sorted)) /\ Reject

MapNext ==
  \/ ProcessDiagAttributes \/ AddJumpstartSection \/ AddPagetableMappings
  \/ AddDiagMapping \/ CheckMemoryMap
=============================================================================
