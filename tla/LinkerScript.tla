----------------------------- MODULE LinkerScript -----------------------------
(***************************************************************************)
(* The sections of the linker script (linker_script.py), collected from    *)
(* the mappings that name one, stage after stage: one step for each of     *)
(* them, then one for all that follows the collection.  The program        *)
(* headers and the text of the script are left out.                        *)
(***************************************************************************)
EXTENDS MemoryMap

VARIABLE sections   \* LinkerScript.sections, in the order of the list

LinkerWork ==
  FlattenSeq([i \in DOMAIN Enabled |->
    LET map == memory_map[Enabled[i]]
    IN Chosen(map, {j \in DOMAIN map : map[j].linker_script_section # None})])

(* Mutations, one plausible slip each.                                     *)

(* the section keeps its size whatever is merged into it *)
MergedWithoutGrowing(a, b) == [a EXCEPT !.phys = IF b.phys < @ THEN b.phys ELSE @]

----------------------------------------------------------------------------
(* Sections                                                                *)

(* main() is placed in .text.startup, which goes to the front of .text.    *)
SectionNames(m) ==
  LET names == m.linker_script_section
  IN IF Contains(names, ".text") /\ ~Contains(names, ".text.startup")
     THEN <<".text.startup">> \o names ELSE names

LinkerScriptSection(m) ==
  [top |-> m.linker_script_section[1], names |-> SectionNames(m),
   virt |-> IF Source(m) = None THEN Dest(m) ELSE Source(m),
   phys |-> Dest(m), size |-> MappingSize(m),
   padded |-> Contains(SectionNames(m), ".bss")]

PhysEnd(s) == s.phys + s.size

(* The existing sections that have every name of s.                        *)
WithSubsections(s) ==
  {i \in DOMAIN sections : ToSet(s.names) \subseteq ToSet(sections[i].names)}

(* merge(): the start moves down first and the end with it, and the size   *)
(* changes only when b ends later than that.  b has no name, padding or    *)
(* type that a has not.                                                    *)
Merged(a, b) ==
  LET start == IF b.phys < a.phys THEN b.phys ELSE a.phys
  IN [a EXCEPT !.phys = start,
               !.size = IF start + @ < PhysEnd(b) THEN PhysEnd(b) - start ELSE @]

(* One 4K page after each section that the next one does not follow.       *)
GuardDict(section, n) ==
  Override(
    [translation_stage |-> Enabled[1], num_pages |-> 1, page_size |-> SIZE_4K,
     linker_script_section |-> <<".linker_guard_section_" \o ToString(n)>>],
    [f \in {TranslatesTo[Enabled[1]]} |-> PhysEnd(section)])

ByAddress(s) == SortedBy(s, "phys")
FollowedByGap(s) == {i \in 1..Len(s) - 1 : PhysEnd(s[i]) < s[i + 1].phys}
GuardSections(s) ==
  [n \in 1..Cardinality(FollowedByGap(s)) |->
    LET i == CHOOSE i \in FollowedByGap(s) :
               Cardinality({j \in FollowedByGap(s) : j < i}) = n - 1
    IN LinkerScriptSection(NewMapping(GuardDict(s[i], n - 1)))]
Guarded(s) == s \o GuardSections(s)

InElfRange(s) ==
  /\ diag_attributes.elf_start_address # None => s.phys >= diag_attributes.elf_start_address
  /\ diag_attributes.elf_end_address # None => PhysEnd(s) <= diag_attributes.elf_end_address

SectionsPlaceable(s) ==
  /\ \A i \in DOMAIN s : InElfRange(s[i])
  /\ \A i \in 1..Len(s) - 1 : PhysEnd(s[i]) <= s[i + 1].phys

(* generate(): no input section is placed twice.                           *)
NamesUnique(s) == IsInjective(FlattenSeq([i \in DOMAIN s |-> s[i].names]))

----------------------------------------------------------------------------
(* The steps                                                               *)

SectionsInit == sections = <<>>

RejectSections == Reject /\ UNCHANGED sections

CollectSection ==
  /\ phase = "sections"
  /\ \E work \in {LinkerWork} : at <= Len(work) /\ \E new \in {LinkerScriptSection(work[at])} :
       \/ /\ Cardinality(WithSubsections(new)) <= 1
          /\ sections' = IF WithSubsections(new) = {} THEN Append(sections, new)
                         ELSE [i \in DOMAIN sections |->
                                 IF i \in WithSubsections(new) THEN Merged(sections[i], new)
                                 ELSE sections[i]]
          /\ at' = at + 1
          /\ UNCHANGED <<input, diag_attributes, phase, memory_map>>
       \/ Cardinality(WithSubsections(new)) > 1 /\ RejectSections

FinishLinkerScript ==
  /\ phase = "sections" /\ at > Len(LinkerWork)
  /\ \E guarded \in {Guarded(s) : s \in {ByAddress(sections)}} : \E s \in {ByAddress(guarded)} :
       \/ /\ SectionsPlaceable(s) /\ NamesUnique(s)
          /\ sections' = s
          /\ Advance("assembly")
          /\ UNCHANGED <<input, diag_attributes, memory_map>>
       \/ ~(SectionsPlaceable(s) /\ NamesUnique(s)) /\ RejectSections

SectionsNext == CollectSection \/ FinishLinkerScript
=============================================================================
