--------------------------- MODULE MCSourceGenerator ---------------------------
(* A small instance of SourceGenerator: pages of eight entries, sections of   *)
(* one or two pages, and families of inputs around every check.              *)
EXTENDS SourceGenerator

Page == SIZE_4K
Mega == SIZE_4K * SIZE_4K

----------------------------------------------------------------------------
(* The source attributes                                                     *)

Data(name) ==
  [page_size |-> Page, xwr |-> 3, umode |-> 0, pma_memory_type |-> "wb",
   linker_script_section |-> name]
Text(name) == [Data(name) EXCEPT !.xwr = 5]
Section(name, dict) == [name |-> name, mapping |-> dict]

MCJumpstartSections ==
  [mmode |->
     <<Section("text", [page_size |-> Page, pma_memory_type |-> "wb", no_pte_allocation |-> TRUE,
                        linker_script_section |-> <<".init.mmode", ".text.mmode">>]),
       Section("stack", Data(<<".jumpstart.cpu.stack.privileged">>)),
       Section("c_structs", Data(StructSection) @@ [num_pages_per_cpu |-> 1]),
       Section("data", Data(<<".data.privileged">>))>>,
   smode |->
     <<Section("text", Text(<<".text.smode">>)),
       Section("bss", Data(<<".bss", ".sbss">>)),
       Section("heap", [f \in DOMAIN Data(<<".heap">>) \ {"page_size"} |-> Data(<<".heap">>)[f]])>>,
   umode |->
     <<Section("stack", [Data(<<".jumpstart.cpu.stack.umode">>) EXCEPT !.umode = 1])>>]

MCDefaultAttributes ==
  [start_test_in_mmode |-> FALSE, enable_virtualization |-> FALSE,
   mmode_start_address |-> 2 * Page, smode_start_address |-> None, umode_start_address |-> None,
   num_pages_for_jumpstart_mmode_text |-> 1,
   num_pages_per_cpu_for_jumpstart_mmode_stack |-> 1,
   num_pages_per_cpu_for_jumpstart_mmode_data |-> 1,
   num_pages_for_jumpstart_smode_text |-> 1,
   num_pages_for_jumpstart_smode_bss |-> 1,
   page_size_for_jumpstart_smode_heap |-> Mega,
   num_pages_for_jumpstart_smode_heap |-> 1,
   num_pages_per_cpu_for_jumpstart_umode_stack |-> 1,
   max_num_pagetable_pages_per_stage |-> 8, allow_page_table_modifications |-> FALSE,
   active_cpu_mask |-> {0}, primary_cpu_id |-> None,
   satp_mode |-> "sv39", vsatp_mode |-> "sv39", hgatp_mode |-> "sv39x4",
   mappings |-> None, elf_start_address |-> None, elf_end_address |-> None]

Structs(counts) ==
  <<[name |-> "thread_attributes",
     fields |-> <<[size |-> 1, num_elements |-> 1], [size |-> 8, num_elements |-> counts]>>],
    [name |-> "trap_override_attributes", fields |-> <<[size |-> 2, num_elements |-> 3]>>]>>

----------------------------------------------------------------------------
(* Mappings of a diag: the sections of jumpstart and the tables end before   *)
(* page 40, and page 256 is the first that is not canonical in sv39.         *)

Map(va, pa, section) ==
  [va |-> va * Page, pa |-> pa * Page, num_pages |-> 1] @@ Data(section)
Without(dict, fields) == [f \in DOMAIN dict \ fields |-> dict[f]]
Top == 2^(Xlen - VpnBits) - 1

DiagText == [Map(40, 40, <<".text", ".text.end">>) EXCEPT !.xwr = 5]

HighHalf == Map(Top, 43, <<".data">>)
NotCanonical == Map(300, 43, <<".data">>)
Alias == [va |-> 50 * Page, pa |-> 40 * Page, num_pages |-> 1, page_size |-> Page,
          xwr |-> 1, alias |-> TRUE]
AliasOfNothing == [Alias EXCEPT !.pa = 60 * Page]
Crossing == Map(46, 41, <<".data">>)
CrossingUnder == [Map(45, 44, <<".text.end">>) EXCEPT !.num_pages = 2]
OverlapsPa == Map(47, 40, <<".data">>)
Superpage == [Map(48, 56, <<".super">>) EXCEPT !.page_size = Mega]
Misaligned == [Map(41, 64, <<".misaligned">>) EXCEPT !.page_size = Mega]
MisalignedApart == [Misaligned EXCEPT !.va = 57 * Page]
Reserved == [Map(47, 47, <<".data">>) EXCEPT !.xwr = 2]
NoAccess == [Reserved EXCEPT !.xwr = 0]
Invalid == [valid |-> 0] @@ Map(47, 47, <<".data">>)
PerCpuPages == [num_pages_per_cpu |-> 1] @@ Without(Map(52, 52, <<".percpu">>), {"num_pages"})
NoAddress == Without(Map(0, 0, <<".placed">>), {"va", "pa"})
Unsized == Without(Map(52, 52, <<".data">>), {"num_pages"})

Pool ==
  {HighHalf, NotCanonical, Alias, AliasOfNothing, Crossing, CrossingUnder, OverlapsPa,
   Superpage, Misaligned, MisalignedApart, Reserved, NoAccess, Invalid, PerCpuPages,
   NoAddress, Unsized}

(* Three sections of which the third has its name in the other two, and a    *)
(* section with a name that another has too.                                 *)
Ambiguous == <<Map(41, 41, <<".a", ".x">>), Map(42, 42, <<".b", ".x">>), Map(44, 44, <<".x">>)>>
Twice == <<Map(42, 42, <<".a", ".text.end">>)>>

Direct(dict) == Without(dict, {"va", "xwr", "umode"})
Guest(va, gpa, section) ==
  [va |-> va * Page, gpa |-> gpa * Page] @@ Without(Map(0, 0, section), {"va", "pa"})
Host(gpa, spa) ==
  [gpa |-> gpa * Page, spa |-> spa * Page, umode |-> 1]
  @@ Without(Map(0, 0, <<>>), {"va", "pa", "linker_script_section"})

----------------------------------------------------------------------------
(* Inputs                                                                    *)

Input(diag, overrides, modes, structs) ==
  [diag |-> diag, overrides |-> overrides, priv_modes |-> modes, c_structs |-> Structs(structs)]
Plain(diag) == Input(diag, <<>>, {"mmode", "smode"}, 2)
WithMappings(s) == [mappings |-> s]

(* Every pair of the pool beside .text; in sv48 one at a time.               *)
Mappings ==
  {Plain(WithMappings(<<DiagText>> \o SetToSeq({m, n}))) : m \in Pool, n \in Pool}
  \cup {Plain([satp_mode |-> "sv48", mappings |-> <<DiagText, m>>]) : m \in Pool}
  \cup {Plain(WithMappings(s)) : s \in {<<>>, <<NoAddress>>, <<DiagText>>,
          <<[DiagText EXCEPT !.va = 41 * Page], Map(48, 48, <<".data">>)>>,
          <<DiagText>> \o Ambiguous, <<DiagText>> \o Twice}}
  \cup {Plain([satp_mode |-> "bare", mappings |-> s]) :
          s \in {<<DiagText>>, <<Direct(DiagText)>>, <<Direct(DiagText), Direct(NoAddress)>>,
                 <<Direct(DiagText), Direct(Superpage), Direct(PerCpuPages)>>}}

(* CPUs, modes and structs.                                                  *)
Cpus ==
  {Input([active_cpu_mask |-> mask, primary_cpu_id |-> cpu] @@ WithMappings(<<DiagText>>),
         <<>>, modes, structs) :
     mask \in {{}, {0}, {1}, {0, 1}}, cpu \in {None, 0, 1}, structs \in {2, 7},
     modes \in {{}, {"smode"}, {"mmode"}, {"mmode", "smode", "umode"}}}

(* Limits, and attributes that are not there.                                *)
Attributes ==
  {[max_num_pagetable_pages_per_stage |-> n] : n \in 0..7}
  \cup {[elf_start_address |-> n * Page] : n \in {2, 3}}
  \cup {[elf_end_address |-> n * Page] : n \in {40, 41}}
  \cup {[num_pages_for_jumpstart_smode_bss |-> 0], [no_such_attribute |-> 0],
        [mmode_start_address |-> 2 * Page + 1], [smode_start_address |-> 3 * Page],
        [smode_start_address |-> 80 * Page], [satp_mode |-> "sv39x4"],
        [allow_page_table_modifications |-> TRUE], [mappings |-> None]}
Limits ==
  {Plain(a @@ WithMappings(<<DiagText>>)) : a \in Attributes}
  \cup {Input(WithMappings(<<DiagText>>), a, {"mmode", "smode"}, 2) : a \in Attributes}
  \cup {Plain([start_test_in_mmode |-> TRUE, mappings |-> <<Without(m, {"va", "pa"})>>]) :
          m \in {[DiagText EXCEPT !.num_pages = 3], PerCpuPages,
                 [PerCpuPages EXCEPT !.linker_script_section = <<".text">>]}}
  \cup {Plain([satp_mode |-> "bare", start_test_in_mmode |-> TRUE, mappings |->
                 <<[Direct(DiagText) EXCEPT !.pa = 41 * Page],
                   Direct(Without([DiagText EXCEPT !.num_pages = 3], {"pa"}))>>])}
  \cup {Plain([mmode_start_address |-> 70 * Page,
               mappings |-> <<[DiagText EXCEPT !.va = 110 * Page, !.pa = 110 * Page]>>])}
  \cup {Input([umode_start_address |-> 2 * Page, max_num_pagetable_pages_per_stage |-> 0,
               num_pages_per_cpu_for_jumpstart_umode_stack |-> 0,
               mappings |-> <<Direct(DiagText)>>], <<>>, {"umode"}, 2)}

(* A guest; the tables of sv48x4 need more pages, and the mappings of the    *)
(* diag then lie after them.                                                 *)
Virtual ==
  {Plain([enable_virtualization |-> TRUE, satp_mode |-> satp, vsatp_mode |-> vsatp,
          hgatp_mode |-> hgatp, mappings |-> s]) :
     satp \in {"bare", "sv39"}, vsatp \in {"bare", "sv39", "sv48"},
     hgatp \in {"bare", "sv39x4", "sv48x4"},
     s \in {<<Guest(40, 44, <<".text">>), Host(44, 48)>>,
            <<Guest(40, 44, <<".text">>), Host(Top, 48)>>,
            <<Guest(40, 44, <<".text">>), Direct(Map(0, 46, <<".text">>)), NoAddress>>,
            <<Guest(40, 44, <<".text">>), Direct(Map(0, 46, <<".text">>))>>}}
  \cup {Plain([enable_virtualization |-> TRUE, satp_mode |-> satp, vsatp_mode |-> vsatp,
               hgatp_mode |-> "sv48x4", max_num_pagetable_pages_per_stage |-> 12,
               mappings |-> <<Guest(80, 84, <<".text">>), Direct(Map(0, 86, <<".text">>))>>]) :
          satp \in {"bare", "sv39"}, vsatp \in {"sv39", "sv48"}}

MCInputs == Mappings \cup Cpus \cup Limits \cup Virtual
=============================================================================
