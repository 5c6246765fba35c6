------------------------------- MODULE CpuAreas -------------------------------
(***************************************************************************)
(* The memory each CPU has to itself, and the page tables, as the assembly *)
(* file of the generator lays them out: stacks, C structs, register save   *)
(* areas and page tables are emitted label by label, block after block,    *)
(* and found again by the code that multiplies a size with the CPU's id.   *)
(* Bytes here are those of the code; a page table entry has EntryBytes.    *)
(***************************************************************************)
EXTENDS PageTables, LinkerScript

CONSTANTS
  NumSaveRegisters,     \* registers of reg_context_to_save_across_exceptions
  MaxContextSaves

ASSUME SavesAssumption == NumSaveRegisters \in Nat /\ MaxContextSaves \in Nat \ {0}

VARIABLE assembly       \* the regions and the images of the page tables

EntryBytes == 8

(* Mutations, one plausible slip each.                                     *)

(* the mapping of the structs is taken for one CPU's *)
StructsFitOnce(mapping, sizes) ==
  \A i \in DOMAIN sizes : sizes[i] <= MappingSize(mapping) * EntryBytes

(* Where areas of these sizes start that follow each other from base, and  *)
(* where the last of them ends.                                            *)
Starts(base, sizes) ==
  LET start[n \in 1..Len(sizes) + 1] ==
        IF n = 1 THEN base ELSE start[n - 1] + sizes[n - 1]
  IN start

----------------------------------------------------------------------------
(* C structs (cstruct.py): every field at the next multiple of its size,   *)
(* the struct padded to 8 bytes.                                           *)

FieldEnds(fields) ==
  LET end[n \in 0..Len(fields)] ==
        IF n = 0 THEN 0
        ELSE AlignUp(end[n - 1], fields[n].size) + fields[n].size * fields[n].num_elements
  IN end
FieldOffset(fields, n) == AlignUp(FieldEnds(fields)[n - 1], fields[n].size)
StructSize(fields) == AlignUp(FieldEnds(fields)[Len(fields)], 8)

(* A struct has a name of its own, its fields the sizes of their types.    *)
StructsTyped(structs) ==
  /\ structs \in Seq({structs[i] : i \in DOMAIN structs})
  /\ \A i, j \in DOMAIN structs : structs[i].name = structs[j].name => i = j
  /\ \A i \in DOMAIN structs :
       structs[i].fields \in Seq([size : {1, 2, 4, 8}, num_elements : Nat])
ASSUME StructsAssumption == \A i \in Inputs : StructsTyped(i.c_structs)

----------------------------------------------------------------------------
(* What is found and what must hold                                        *)

(* find_memory_mapping_by_linker_section(): the first in stage order, the  *)
(* order of LinkerWork.                                                    *)
IsMapped(names) == \E m \in ToSet(LinkerWork) : m.linker_script_section = names
MappingOfSection(names) ==
  LET work == LinkerWork
  IN work[Min({i \in DOMAIN work : work[i].linker_script_section = names})]

Intersection(s, t) == Chosen(s, {i \in DOMAIN s : Contains(t, s[i])})
StackTypes == Intersection(<<"umode">>, PrivModes) \o <<"privileged">>
StackSection(type) == <<".jumpstart.cpu.stack." \o type>>
StructSection == <<".jumpstart.cpu.c_structs.mmode">>
ContextModes == Intersection(<<"mmode", "smode">>, PrivModes)
(* main() is placed in none of them.                                       *)
ASSUME AreaSectionAssumption ==
  \A names \in {StackSection("umode"), StackSection("privileged"), StructSection} :
    names[1] # ".text.startup"

StackMapping(type) == MappingOfSection(StackSection(type))
StackBytesPerCpu(type) ==
  (StackMapping(type).num_pages \div MaxNumCpus) * StackMapping(type).page_size * EntryBytes

StructSizes == [i \in DOMAIN input.c_structs |-> StructSize(input.c_structs[i].fields)]
StructsFit(mapping, sizes) ==
  Starts(0, sizes)[Len(sizes) + 1] * MaxNumCpus <= MappingSize(mapping) * EntryBytes

Emittable ==
  /\ \A i \in DOMAIN StackTypes :
       /\ IsMapped(StackSection(StackTypes[i]))
       /\ StackMapping(StackTypes[i]).num_pages % MaxNumCpus = 0
  /\ IsMapped(StructSection)
  /\ StructsFit(MappingOfSection(StructSection), StructSizes)

----------------------------------------------------------------------------
(* Emission                                                                *)

(* The linker script starts a section at its virtual address.              *)
SectionStart(names) ==
  LET i == CHOOSE i \in DOMAIN sections : ToSet(names) \subseteq ToSet(sections[i].names)
  IN sections[i].virt * EntryBytes

(* .zero blocks one after the other from base.                             *)
Placed(base, blocks) ==
  LET start == Starts(base, [n \in DOMAIN blocks |-> blocks[n].size])
  IN [n \in DOMAIN blocks |-> Override(blocks[n], [start |-> start[n]])]

PerCpu(label, size) ==
  [c \in 1..MaxNumCpus |-> [label |-> label, cpu |-> c - 1, size |-> size]]

StackBlocks ==
  FlattenSeq([i \in DOMAIN StackTypes |->
    LET type == StackTypes[i]
    IN Placed(SectionStart(StackSection(type)), PerCpu(type, StackBytesPerCpu(type)))])

StructBlocks ==
  Placed(SectionStart(StructSection),
    FlattenSeq([i \in DOMAIN input.c_structs |->
                  PerCpu(input.c_structs[i].name, StructSizes[i])]))

(* The save areas share their section with the data of other files: their  *)
(* addresses count from the first label.                                   *)
ContextBlocks ==
  Placed(0, FlattenSeq([i \in DOMAIN ContextModes |->
    FlattenSeq([c \in 1..MaxNumCpus |->
      [s \in 1..MaxContextSaves |->
        [label |-> ContextModes[i], cpu |-> c - 1, size |-> NumSaveRegisters * 8]]])]))

(* The entries in the order of their addresses, with .skip over the gaps:  *)
(* each lands after the one before it.                                     *)
Image(stage) ==
  LET memory == page_tables[stage].memory
      below(a) == {b \in DOMAIN memory : b < a}
      landing[a \in DOMAIN memory] ==
        IF below(a) = {} THEN SectionStart(TableSection(stage))
        ELSE LET b == CHOOSE b \in below(a) : \A c \in below(a) : c <= b
                 skip == IF a # b + 1 THEN a - (b + 1) ELSE 0
             IN landing[b] + (1 + skip) * EntryBytes
  IN {[address |-> landing[a], pte |-> memory[a]] : a \in DOMAIN memory}

(* What setup_mmu_from_{mode} puts into the register of each stage.        *)
Atp(stage) ==
  [mode |-> Mode(stage),
   ppn |-> IF stage \in DOMAIN page_tables
           THEN SectionStart(TableSection(stage)) \div (SIZE_4K * EntryBytes) ELSE 0]

----------------------------------------------------------------------------
(* What the diag computes                                                  *)

Labelled(blocks, label) == {n \in DOMAIN blocks : blocks[n].label = label}
LabelStart(blocks, label) == blocks[Min(Labelled(blocks, label))].start

(* setup_stack, and the switch to U-mode.                                  *)
StackPointer(type, cpu) ==
  LabelStart(assembly.stacks, type) + cpu * StackBytesPerCpu(type) + StackBytesPerCpu(type)

(* tp and the address of the trap overrides.                               *)
StructPointer(i, cpu) ==
  LabelStart(assembly.structs, input.c_structs[i].name) + cpu * StructSizes[i]

ContextPointer(mode, cpu) ==
  LabelStart(assembly.contexts, mode) + cpu * (NumSaveRegisters * 8 * MaxContextSaves)

----------------------------------------------------------------------------
(* The step                                                                *)

AreasInit == assembly = <<>>

GenerateAssembly ==
  /\ phase = "assembly"
  /\ \/ /\ Emittable
        /\ assembly' =
             [stacks |-> StackBlocks, structs |-> StructBlocks, contexts |-> ContextBlocks,
              images |-> [stage \in DOMAIN page_tables |-> Image(stage)],
              atp |-> [stage \in EnabledSet |-> Atp(stage)]]
        /\ Advance("done")
        /\ UNCHANGED <<input, diag_attributes, memory_map>>
     \/ ~Emittable /\ Reject /\ UNCHANGED assembly
=============================================================================
