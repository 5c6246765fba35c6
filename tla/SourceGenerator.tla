---------------------------- MODULE SourceGenerator ----------------------------
(***************************************************************************)
(* The whole of generate_diag_sources.py: the memory map, the page tables, *)
(* the linker script and the assembly file, one after the other, and what  *)
(* the three outputs must agree on for the diag to run.                    *)
(***************************************************************************)
EXTENDS CpuAreas

vars == <<mapVars, tableVars, sections, assembly>>

Init == MapInit /\ TablesInit /\ SectionsInit /\ AreasInit

(* Only here may it stop: anywhere else a state without a step is a        *)
(* deadlock.                                                               *)
Ended == phase \in {"done", "rejected"}

Next ==
  \/ MapNext /\ UNCHANGED <<tableVars, sections, assembly>>
  \/ TablesNext /\ UNCHANGED <<sections, assembly>>
  \/ SectionsNext /\ UNCHANGED <<tableVars, assembly>>
  \/ GenerateAssembly /\ UNCHANGED <<tableVars, sections>>
  \/ Ended /\ UNCHANGED vars

Spec == Init /\ [][Next]_vars

----------------------------------------------------------------------------
(* Type invariant: every field has a value of its kind, every entry fits   *)
(* the fields of a page table entry and every index is one of its list.    *)

Phases == {"attributes", "jumpstart", "diag", "tables", "sections", "assembly",
           "done", "rejected"}
PteOK(mode, pte) ==
  /\ pte.valid \in 0..1 /\ pte.xwr \in 0..7 /\ pte.umode \in 0..1
  /\ pte.a \in 0..1 /\ pte.d = pte.a
  /\ \A l \in 0..Levels[mode] - 1 :
       LET field == PaPpnBits(mode, l) IN pte.ppn[l] \in 0..2^(field[1] - field[2] + 1) - 1
TableTyped(t) ==
  /\ t.start \in Int /\ Len(t.entries) \in Nat
  /\ \A i \in 1..Len(t.entries) : t.entries[i].src \in Int
TypeOK ==
  /\ phase \in Phases /\ at \in Nat \ {0}
  /\ current_level \in 0..3
  /\ phase = "tables" => stage_id \in 1..Len(Enabled) + 1
  /\ \A stage \in DOMAIN page_tables :
       /\ stage \in EnabledSet /\ Mode(stage) # "bare"
       /\ TableTyped(page_tables[stage])
       /\ \A a \in DOMAIN page_tables[stage].memory :
            a \in Int /\ PteOK(Mode(stage), page_tables[stage].memory[a])

----------------------------------------------------------------------------
(* The memory map                                                          *)

Apart(field, m, n) ==
  m[field] + MappingSize(m) <= n[field] \/ n[field] + MappingSize(n) <= m[field]

(* The checks of neighbours in a sorted list leave no two mappings of a    *)
(* stage at one source address, no two that are not aliases at one         *)
(* destination, and no alias of memory that nothing maps                   *)
(* (sanity_check_memory_map, public/functions.py:34).                      *)
MapChecked == phase \in {"tables", "sections", "assembly", "done"}
AcceptedMapSound ==
  MapChecked =>
    \A stage \in EnabledSet : LET map == memory_map[stage] IN
      \A i, j \in DOMAIN map :
        /\ i # j /\ Source(map[i]) # None /\ Source(map[j]) # None =>
             Apart(TranslatesFrom[stage], map[i], map[j])
        /\ i # j /\ ~map[i].alias /\ ~map[j].alias =>
             Apart(TranslatesTo[stage], map[i], map[j])
        /\ map[i].alias => \E k \in DOMAIN map : ~map[k].alias /\ Within(map[i], map[k])

----------------------------------------------------------------------------
(* The page tables                                                         *)

(* An entry, once written, keeps its value, and a table its place: no      *)
(* mapping changes what was built for another (write_sparse_memory,        *)
(* page_tables.py:451).                                                    *)
EntriesKept ==
  \A stage \in DOMAIN page_tables :
    /\ stage \in DOMAIN page_tables'
    /\ page_tables'[stage].start = page_tables[stage].start
    /\ \A i \in DOMAIN page_tables[stage].pages :
         /\ i \in DOMAIN page_tables'[stage].pages
         /\ page_tables'[stage].pages[i] = page_tables[stage].pages[i]
    /\ \A a \in DOMAIN page_tables[stage].memory :
         /\ a \in DOMAIN page_tables'[stage].memory
         /\ page_tables'[stage].memory[a] = page_tables[stage].memory[a]
PteNeverChanges == [][EntriesKept]_vars

Tile(t) ==
  /\ \A i \in DOMAIN t.pages :
       t.pages[i].pa = IF i = 1 THEN t.start ELSE t.pages[i - 1].pa + t.pages[i - 1].size
  /\ t.pages # <<>> => CurrentSize(t) <= TableRegionSize
  /\ \A a \in DOMAIN t.memory : t.start <= a /\ a < t.start + CurrentSize(t)

(* The tables of a stage follow each other from its start, within the      *)
(* region that was mapped for them, and every entry lies in one of them    *)
(* (get_new_page, page_tables.py:384).                                     *)
TablesTile ==
  \A stage \in DOMAIN page_tables : Tile(page_tables[stage])

(* What the walk of the finished tables finds for an address: what the map *)
(* says, and a fault where it says nothing.  Left out are the stages with  *)
(* a source that is not aligned to its page size, which nothing checks.    *)
WalkBits(mode) == 2^(VaVpnBits(mode, 0)[1] + 1)
Translates(m, mode, va) ==
  /\ ~IsBareMapping(m) /\ m.valid = 1 /\ m.xwr # 0
  /\ (va - Source(m)) % WalkBits(mode) < MappingSize(m)
SourcesAligned(stage) ==
  \A m \in MappingsOf(stage) : ~IsBareMapping(m) => Source(m) % m.page_size = 0
(* The first and the last word of every mapping, and what lies one entry   *)
(* of every level off them.                                                *)
Probes(stage) ==
  LET mode == Mode(stage)
      edges == UNION {{Source(m), Source(m) + MappingSize(m) - 1} :
                        m \in {m \in MappingsOf(stage) : ~IsBareMapping(m)}}
  IN {(edge + n * PageSizes(mode)[level]) % WalkBits(mode) :
        edge \in edges, n \in -1..1, level \in DOMAIN PageSizes(mode)}

(* translate_stage() of the generator and, for 4K pages, translate() of    *)
(* the diag (tablewalk.smode.c:61) both find what the map says: the tables *)
(* hold every mapping and nothing else.                                    *)
WalkMatchesMap ==
  phase = "done" =>
    \A stage \in {s \in ToSet(Translated) : SourcesAligned(s)} :
      LET mode == Mode(stage) IN
      \A va \in Probes(stage) :
        LET mapped == {m \in MappingsOf(stage) : Translates(m, mode, va)} IN
        /\ mapped = {} => TranslateStage(stage, va) = None
        /\ \A m \in mapped :
             LET dest == Dest(m) + ((va - Source(m)) % WalkBits(mode)) IN
             /\ TranslateStage(stage, va) = dest
             /\ m.page_size = SIZE_4K => TranslateInC(stage, va) = dest

(* The tables of every stage can be read where they lie by the code that   *)
(* walks and changes them, in HS-mode also those of the guest, and the     *)
(* guest's tables are where G says (add_pagetable_mappings,                *)
(* generate_diag_sources.py:331).                                          *)
Readers(stage) ==
  (CASE stage \in {"s", "hs"} -> {stage} [] stage = "g" -> {"hs"} [] OTHER -> {"hs", "g"})
  \cap ToSet(Translated)
TablesReadable ==
  phase = "done" =>
    \A stage \in ToSet(Translated) : \A reader \in Readers(stage) :
      \A a \in DOMAIN page_tables[stage].memory : TranslateStage(reader, a) = a

----------------------------------------------------------------------------
(* The linker script                                                       *)

IsGuard(s) == \E n \in 0..Len(sections) : s.top = ".linker_guard_section_" \o ToString(n)
CoveredBy(m, s) ==
  /\ ToSet(SectionNames(m)) \subseteq ToSet(s.names)
  /\ s.phys <= Dest(m) /\ Dest(m) + MappingSize(m) <= PhysEnd(s)
(* No mapping is merged into a section that starts after it: merge() loses *)
(* the end of such a section.                                              *)
MergedUpwards ==
  \A i, j \in DOMAIN LinkerWork :
    i < j /\ ToSet(SectionNames(LinkerWork[j])) \subseteq ToSet(SectionNames(LinkerWork[i])) =>
      Dest(LinkerWork[i]) <= Dest(LinkerWork[j])

(* Nothing keeps a mapping from having a negative number of pages.         *)
SizesSound == \A m \in ToSet(LinkerWork) : MappingSize(m) >= 0

(* The sections of the linker script lie apart, each but the last with     *)
(* another right behind it so that the linker notices when it overflows,   *)
(* and together they cover every mapping that names a section              *)
(* (LinkerScript.__init__, linker_script.py:122).                          *)
SectionsSound ==
  phase \in {"assembly", "done"} =>
    /\ \A i, j \in DOMAIN sections : i < j => PhysEnd(sections[i]) <= sections[j].phys
    /\ SizesSound => \A i \in 1..Len(sections) - 1 :
         IsGuard(sections[i]) \/ PhysEnd(sections[i]) = sections[i + 1].phys
    /\ MergedUpwards =>
         \A m \in ToSet(LinkerWork) : \E s \in ToSet(sections) : CoveredBy(m, s)

----------------------------------------------------------------------------
(* The assembly file                                                       *)

(* The page tables are assembled to the addresses their entries were built *)
(* for, and satp, vsatp and hgatp hold the page their root starts at, in   *)
(* the alignment the mode asks for: what the MMU reads is what was built   *)
(* (generate_page_tables, generate_diag_sources.py:960).                   *)
ImageMatches ==
  phase = "done" =>
    \A stage \in DOMAIN page_tables : LET memory == page_tables[stage].memory IN
      /\ assembly.images[stage] =
           {[address |-> a * EntryBytes, pte |-> memory[a]] : a \in DOMAIN memory}
      /\ assembly.atp[stage].ppn * SIZE_4K = page_tables[stage].start
      /\ page_tables[stage].start % PagetableSize(Mode(stage), 0) = 0

BlockEnd(b) == b.start + b.size
BlocksIn(blocks, m) ==
  LET start == IF Source(m) = None THEN Dest(m) ELSE Source(m) IN
  \A b \in blocks : /\ start * EntryBytes <= b.start
                    /\ BlockEnd(b) <= (start + MappingSize(m)) * EntryBytes
BlockOf(blocks, label, cpu) ==
  blocks[Min({n \in Labelled(blocks, label) : blocks[n].cpu = cpu})]

(* Every CPU finds its own stack, structs and register save area, inside   *)
(* the memory mapped for them: the addresses the boot code multiplies out  *)
(* are those of the blocks the generator emitted                           *)
(* (generate_thread_attributes_code, generate_diag_sources.py:1039, and    *)
(* setup_stack, jumpstart.mmode.S:82), and the fields of a struct neither  *)
(* overlap nor leave it (cstruct.py:48).                                   *)
CpuAreasRight ==
  phase = "done" =>
    /\ \A i \in DOMAIN StackTypes : LET type == StackTypes[i] IN
         /\ BlocksIn({assembly.stacks[n] : n \in Labelled(assembly.stacks, type)},
                     StackMapping(type))
         /\ \A cpu \in 0..MaxNumCpus - 1 :
              StackPointer(type, cpu) = BlockEnd(BlockOf(assembly.stacks, type, cpu))
    /\ BlocksIn(ToSet(assembly.structs), MappingOfSection(StructSection))
    /\ \A i \in DOMAIN input.c_structs : \A cpu \in 0..MaxNumCpus - 1 :
         StructPointer(i, cpu) = BlockOf(assembly.structs, input.c_structs[i].name, cpu).start
    /\ \A mode \in ToSet(ContextModes) : \A cpu \in 0..MaxNumCpus - 1 :
         ContextPointer(mode, cpu) = BlockOf(assembly.contexts, mode, cpu).start
    /\ \A i \in DOMAIN input.c_structs : LET fields == input.c_structs[i].fields IN
         \A n \in DOMAIN fields :
           /\ FieldOffset(fields, n) % fields[n].size = 0
           /\ \A k \in 1..n - 1 : FieldEnds(fields)[k] <= FieldOffset(fields, n)
           /\ FieldEnds(fields)[n] <= StructSize(fields)

=============================================================================
