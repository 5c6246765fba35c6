---------------------------- MODULE MemoryMapping ----------------------------
(***************************************************************************)
(* One mapping of the memory map (memory_mapping.py), and the attributes   *)
(* of the diag it is checked against.  A mapping_dict is a function from   *)
(* the fields it gives; a MemoryMapping has them all.  The linker sections *)
(* of a mapping are a sequence of names.  Left out: target_mmu, which can  *)
(* only be "cpu", and pbmt_mode, which is copied into the leaf entries.    *)
(***************************************************************************)
EXTENDS AddressSpace

VARIABLES
  input,            \* what main() is given: diag, overrides, priv_modes
  diag_attributes   \* jumpstart_source_attributes["diag_attributes"]

Mode(stage) == diag_attributes[AtpMode[stage]]
Enabled == EnabledStages(diag_attributes.enable_virtualization)
EnabledSet == {Enabled[i] : i \in DOMAIN Enabled}

(* active_cpu_mask is the set of the CPUs whose bits are 1.                *)
LowestCpu(mask) == CHOOSE c \in mask : \A d \in mask : c <= d
MaxNumCpus == 1 + CHOOSE c \in diag_attributes.active_cpu_mask :
                    \A d \in diag_attributes.active_cpu_mask : d <= c

----------------------------------------------------------------------------
(* Fields                                                                  *)

(* dict.update(fields): what is given twice has the value given last.      *)
Override(dict, fields) ==
  [f \in DOMAIN dict \cup DOMAIN fields |-> IF f \in DOMAIN fields THEN fields[f] ELSE dict[f]]

FieldDefaults ==
  [va |-> None, gpa |-> None, pa |-> None, spa |-> None, xwr |-> None, umode |-> None,
   page_size |-> None, num_pages |-> None, num_pages_per_cpu |-> None, alias |-> FALSE,
   pma_memory_type |-> "uc", linker_script_section |-> None, valid |-> 1,
   no_pte_allocation |-> None, translation_stage |-> None, alignment |-> None]

(* What a field may be given: None is not among the values of any.         *)
Allowed ==
  [va |-> Int, gpa |-> Int, pa |-> Int, spa |-> Int, xwr |-> 0..7, umode |-> 0..1,
   page_size |-> {2^(VpnBits * n) : n \in 1..4}, num_pages |-> Int, num_pages_per_cpu |-> Int,
   alias |-> BOOLEAN, valid |-> 0..1, no_pte_allocation |-> BOOLEAN,
   translation_stage |-> Stage, alignment |-> Int,
   linker_script_section |-> Seq(STRING) \ {<<>>}]
AllowedValues(dict) == \A f \in DOMAIN Allowed \cap DOMAIN dict : dict[f] \in Allowed[f]

AddressTypesOf(m) == {t \in AddressTypes : m[t] # None}
HasNoAddresses(dict) == AddressTypes \cap DOMAIN dict = {}

(* The stages a mapping can be for, by the addresses it gives: a stage's   *)
(* source and destination, or its destination alone (a direct mapping).    *)
DirectFor(m, stage) == AddressTypesOf(m) = {TranslatesTo[stage]}
MatchingStages(m) ==
  {stage \in EnabledSet :
     \/ AddressTypesOf(m) = {TranslatesFrom[stage], TranslatesTo[stage]}
     \/ DirectFor(m, stage)}

StageInferred(m) ==
  \E stage \in MatchingStages(m) :
    m.no_pte_allocation \in {None, DirectFor(m, stage)}

SetTranslationStage(m) ==
  IF m.translation_stage # None THEN m
  ELSE LET stage == CHOOSE s \in MatchingStages(m) : TRUE
       IN [m EXCEPT !.translation_stage = stage, !.no_pte_allocation = DirectFor(m, stage)]

(* What the dict gives, the defaults, and what follows from the two.       *)
Fields(dict) == Override(FieldDefaults, dict)
NewMapping(dict) ==
  LET m == Fields(dict) IN
  SetTranslationStage(
    [m EXCEPT
       !.num_pages = IF m.num_pages_per_cpu = None THEN @
                     ELSE m.num_pages_per_cpu * MaxNumCpus,
       !.pma_memory_type = IF m.alias /\ "pma_memory_type" \notin DOMAIN dict THEN None ELSE @])

Source(m) == m[TranslatesFrom[m.translation_stage]]
Dest(m) == m[TranslatesTo[m.translation_stage]]
IsBareMapping(m) == Dest(m) # None /\ Source(m) = None
MappingSize(m) == m.page_size * m.num_pages

SanityCheckFieldValues(m) ==
  LET stage == m.translation_stage
      allowed == {TranslatesTo[stage]} \cup
                 (IF Mode(stage) = "bare" THEN {} ELSE {TranslatesFrom[stage]})
  IN /\ stage \in EnabledSet
     /\ Dest(m) # None
     /\ Dest(m) % m.page_size = 0
     /\ AddressTypesOf(m) \subseteq allowed
     /\ IF IsBareMapping(m) THEN m.xwr = None /\ m.umode = None /\ ~m.alias
                            ELSE m.xwr # None
     /\ m.alias => m.linker_script_section = None /\ m.pma_memory_type = None
     /\ m.no_pte_allocation = FALSE /\ stage = "g" => m.umode = 1
     /\ Source(m) # None => Canonical(Mode(stage), Source(m))

(* MemoryMapping(dict) raises nothing.                                     *)
Accepted(dict) ==
  /\ DOMAIN dict \subseteq DOMAIN FieldDefaults
  /\ "page_size" \in DOMAIN dict
  /\ AllowedValues(dict)
  /\ ("num_pages" \in DOMAIN dict) # ("num_pages_per_cpu" \in DOMAIN dict)
  /\ Fields(dict).translation_stage = None => StageInferred(Fields(dict))
  /\ SanityCheckFieldValues(NewMapping(dict))
=============================================================================
