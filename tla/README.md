# A TLA+ development of JumpStart

JumpStart is a bare-metal kernel and build infrastructure for RISC-V directed
tests ("diags"). A Python generator turns a diag's attributes into assembly,
page tables and a linker script; a small runtime in assembly and C boots the
harts, moves code between privilege modes, synchronises the harts, offers a
heap and a console, and turns what the harts return into the verdict a
simulator reads; a host-side factory builds and runs many diags at once.

This directory holds models of those parts, TLC configurations that check them
on small instances, and TLAPS proofs of the theorems that hold whatever the
number of harts, or the number and place of a diag's mappings. Paths are relative to the repository (`src/` here is its
root).

## 1. Inventory

| component | state it keeps | operations | what makes it hard | what makes it correct |
|---|---|---|---|---|
| CPU barrier (`scripts/generate_diag_sources.py` 824-915) | one word per sync point | `sync_cpus_in_mask_from_{m,s}mode`, `sync_all_cpus_*` | rounds of the same word follow each other, masks overlap | nobody leaves before all entered; its own checks never fail; calls return |
| M-mode boot and end of simulation (`jumpstart.mmode.S`, `public/exit.mmode.S`) | a status byte per CPU, `tohost` | `_mmode_start`, `jump_to_main`, `_mmode_end`, `jumpstart_mmode_fail` | harts start, fail and end in any order; the primary scans while they do | a PASS speaks for all harts; one verdict; a verdict at all |
| SBI boot (`sbi_firmware_boot.smode.S`) | the firmware's HSM state, the status bytes | trampoline loop, `_smode_start`, `_smode_end`, system reset | which harts are up when; refusals of the firmware | every active hart starts; no start is refused |
| Mode switching (`jumpstart.{m,s,vs,u,vu}mode.S`) | two stacks of saved contexts, counts, `current_mode`, `current_v_bit` | `run_function_in_{s,u,vs,vu}mode`, trap entry and exit, the ecalls out, the fail calls | calls and traps nest across modes that share a stack | what resumes has its own registers; contexts are not overwritten or leaked |
| Trap override tables (`trap_handler.{m,s}mode.c`) | tables of handlers per hart and mode | register, deregister, get, the default handlers | ranges per mode, mode chosen by the thread attributes | the handler called is the last one registered for that cause and mode |
| Heap (`heap.smode.c`) | a list of chunks, `last_allocated`, a lock, per memory type | malloc, calloc, memalign, free, set up, deregister | several harts; tests before the lock; splitting and merging | blocks are disjoint, large enough and stay; nothing is lost; null only when full |
| Spinlock (`lock.h`) | a word | acquire, release | not reentrant, not fair | mutual exclusion; released on each way out |
| printk and UART (`uart.h`, `uart.{s,m}mode.c`) | a lock, a shared buffer | `printk`, `puts` | a trap taken while the lock is held prints | a line is printed whole; no self-deadlock |
| Table walk (`tablewalk.smode.c`) | none | `translate_VA`, `translate_GVA`, `translate_GPA` | superpages, G-stage widths | agrees with the generator's walk |
| Memory map (`generate_diag_sources.py`, `memory_mapping.py`, `public/functions.py`) | the attributes, a list of mappings per stage | merge attributes, place the sections of jumpstart, of the page tables and of the diag, check | several stages, page sizes and modes; addresses taken from the mapping added last; checks of neighbours only | no two mappings overlap in a stage, every alias lies in memory, the tables are mapped where they are read |
| Page tables (`page_tables.py`) | pages allocated, PTEs | find or allocate a table, write an entry, walk | fixed room; x4 roots; superpages over 4K pages | every mapping is walked to its address and nothing else is; written entries stay |
| Linker script (`linker_script.py`) | sections | collect, merge, guard, check | order, adjacency, subsets of names | sections cover the mappings, are disjoint, and overflow into a guard |
| Thread attributes, C structs, stacks (the generator, `cstruct.py`) | one block per CPU and area | emit the blocks and the code that finds them | layout agreed between C, assembly and Python | a CPU finds its own block; fields disjoint and aligned |
| Diag factory (`build_tools/*.py`) | compile and run state of each unit | validate, compile all, run all, summarise | a thread pool; partial failure; batch and single mode | the summary says what happened; one bad unit does not take others along |
| Subprocess clean up (`system/functions.py`) | a registry of process groups | register, unregister, SIGINT and atexit clean up | a signal against worker threads | no process outlives the program |
| Bit fields, NAPOT, dict and list helpers | none | pure functions | widths | inverse of each other |
| printf, delays, CSR accessors | none worth a model | | | |

How they interact. The generator writes the barrier, the thread attributes,
the fail functions and the page tables the runtime uses. Boot marks a hart
RUNNING and calls `main()` (in M-mode directly, in S-mode through
`run_function_in_smode`); `main()` uses barriers, heap, console and mode
switches; every way out of it, `jumpstart_smode_fail` through the ecall of mode
switching included, ends in `_mmode_end`, which reads the status bytes of the
others. Trap handlers are entered through mode switching and picked from the
override tables. The host factory starts the simulator and reads the verdict.

The full list of hazards, each at its line with the properties aimed at it, is
in `PROJECT.json`.

## 2. The modules

| module | models | abstract counterpart | checked by | proofs |
|---|---|---|---|---|
| `SyncBarrier` | the barrier, one action per access to the word | `Barrier` | `MCSyncBarrier` | `SyncBarrierProofs` |
| `EndOfSim` | `_mmode_end` / `_smode_end`, the status bytes, `tohost` | | through the next two | through `DiagRunProofs` |
| `DiagRun` | a run booted in M-mode; uses `Barrier` for the barriers of `main()` | | `MCDiagRun` | `DiagRunProofs` |
| `SbiBoot` | a run booted by SBI firmware | | `MCSbiBoot` | `SbiBootProofs` |
| `ModeSwitch` | mode changes of one hart | | itself | `ModeSwitchProofs` |
| `Heap` | one heap, its lock and its callers | `Allocator` | `MCHeap` | `HeapProofs` |
| `AddressSpace` | stages, modes, address fields, NAPOT and alignment | | through `SourceGenerator` | through the next |
| `MemoryMapping` | one mapping: its stage, its fields and their checks | | through `SourceGenerator` | `LayoutProofs` |
| `MemoryMap` | attributes, placement, the check of the whole map | | through `SourceGenerator` | `LayoutProofs` |
| `PageTables` | the construction of the tables, and the two walks | the map itself | through `SourceGenerator` | `LayoutProofs` |
| `LinkerScript` | the sections of the linker script | the map itself | through `SourceGenerator` | through `SourceGeneratorProofs` |
| `CpuAreas` | the assembly file: images, stacks, structs, save areas | | through `SourceGenerator` | `SourceGeneratorProofs` |
| `SourceGenerator` | the pipeline of the five above | | `MCSourceGenerator` | `SourceGeneratorProofs` |
| `HostRun` | `build_diag.py`: the pool, `run_command`, the SIGINT handler | | `MCHostRun` | `HostRunProofs` |

### SyncBarrier

`word[s]` is the sync word as the set of its bits. `Enter` is the code up to
the `amoor` and the test of the bit it returns; `SeeAll` is the driver's `lw`
that ends its loop; `Swap` the `amoswap` of zero and the test of what it
returned; `SeeClear` the `lw` that ends another member's loop. A spin that
loads and loops changes nothing, so it is the guard. A branch to
`jumpstart_{mode}_fail` goes to `"failed"`. `Program` says which sync points
each CPU calls, in order; `MaskAt` gives each sync point one mask, as
`docs/reference_manual.md` 394-410 asks of the diag. `entered` and `left` are
history counters. `Loaded` is the width of the comparison: the word has 32 bits and
`lw` and `amoswap.w` extend its sign over a 64-bit register, the mask is a positive
64-bit number.

`Barrier` is what is promised: members gather, the point opens for all of them
in one step, and they depart. The refinement reads "gathered" as the bits of the word
and "released" as those inside whose bit is gone.

### EndOfSim, DiagRun, SbiBoot

`EndOfSim` has the code both boots share: `StoreStatus` (the `sb` that keeps the
low byte of what `main()` returned), the primary's scan (`SkipInactive`,
`SeeStarted`, `SeeEnded`, one load each) and `WriteToHost`. `DiagRun` adds
`handle_inactive_cpus`, the start of `main()`, a number of `sync_all_cpus`
rounds, an early return, and `jumpstart_mmode_fail`. `main()` is the diag's own:
the model lets it return any of `MainReturn` at any moment but a pass, which it
returns only past its last barrier. `jumpstart_smode_fail` returns DIAG_FAILED through
the ecall into `_mmode_end`, so it is one of those returns.

`SbiBoot` starts with one CPU in the trampoline. `StartMask` is register `t2` as
the code leaves it: `ACTIVE_CPU_MASK` is loaded and then overwritten by the
boot CPU's id. `StartHart`, `PollStarted` and `LeaveLoop` are the three places
it calls the firmware; `CanStart` and `FirmwareStarts` are the firmware, known
only from how it is called. `jumpstart_smode_fail` in such a build is a system
reset, after which nothing runs.

### ModeSwitch

`calls` is the list of activations (functions and handlers) of one hart, the
last of which runs. What is saved in a context is abstracted to the number of
the activation whose registers it holds. `saved["M"]` and `saved["S"]` are the
parts of the save region below the pointer, `left[r]` the counts. `RunFunction`
covers the four calls down, `TakeTrap` the three trap entries, `ReturnFromTrap`
`restore_context`, `ReturnFromFunction` and `Fail` the ecalls. An ecall first
saves a context of its own; the completion restores the one below and frees both
(`SecondContext`, `Pop`, `PutBack`). An entry that finds no context left calls
the fail function of its mode, which is itself an ecall to the mode below:
`LeaveVU`, `LeaveVS`, `LeaveU` and `LeaveS` follow that chain until M-mode
halts.

### Heap

Addresses count 8-byte units. `chunk` maps the address of a header to its
size, its used bit and its next pointer. Each call has a step up to the lock,
with the tests made there (`is_valid_heap`, `setup_done`, then `head`), the
`amoswap` that gets the lock, and steps under it: a search and a carving for
malloc and memalign, one step for the others. A failed check stops the CPU, and
keeps the lock where the code does. `live` holds the pointers the diag has;
a pointer leaves it when it is handed to free. `Allocator` is the abstract
promise: disjoint blocks inside an open region that stay put until given back,
and a region that closes only when empty.

### HostRun

The threads of the pool, the commands they wait for and the main thread.
`Submit` and `StartTask` are the pool; `Spawn`, `Register`, `Reap` and `Leave` are
`run_command` at the points where another thread or the signal can be in between, and
`Leave` ends with what `meson.py` and `diag.py` make of the return code
(`PassCommand`, `FailUnit`, `RunStateAfter`): the next command, or the unit's state.
`PoolDone` is the end of `compile_all` or of `run_all`. `Interrupt` puts the main
thread in the handler: `CopyRegistry`, one `Signal` for each group, `ClearRegistry`, and
`Unwind`, where the `KeyboardInterrupt` leaves the pool, which waits for all that was
submitted. `registered` is the set of process groups, a group named by its
unit and command. `ProcessEnds` is the world's. `succeeded` and `signalled` are history.

### The source generator

`generate_diag_sources.py` is one program that takes its input and writes three files,
or stops at an exception. `input` is what it is given: the diag's attributes, those of
the command line, the privilege modes and the C structs. `phase` and `at` say how far
`main()` has come and which item of its list is next; an exception sets the phase to
`"rejected"`. Each item is one step, so a check that fails on the third mapping leaves
what the first two did.

- `MemoryMap`: `ProcessDiagAttributes` merges the attributes, `AddJumpstartSection`
  places the next section of the next mode of the next stage, `AddPagetableMappings`
  the regions of the tables, with the guest's also in the G and HS stages,
  `AddDiagMapping` a mapping of the diag with the addresses it was given or the next
  free ones, `CheckMemoryMap` sorts and checks. `MemoryMapping` has what the class of
  that name does: `NewMapping` infers the stage and fills the defaults,
  `SanityCheckFieldValues` and `Accepted` are its assertions.
- `PageTables`: `BeginStage` opens the region of a stage (`SkipBareStage` when it has
  none), `WriteEntry` makes the entry of one level for one page of one mapping,
  allocating the table below it where none covers the address, `FinishStage` adds the
  zero entries at the two ends, `FinishTables` goes on. A table is
  `[start, pages, memory, entries]`, `memory` from addresses to entries, an entry a
  record of the fields of a PTE. `TranslateStage` is the walk of the
  generator, `TranslateInC` that of `tablewalk.smode.c` on one stage.
- `LinkerScript`: `CollectSection` takes the next mapping, merging it into a section that
  has its names; `FinishLinkerScript` adds the guards, sorts and checks.
- `CpuAreas`: `GenerateAssembly` emits the stacks, structs, save areas and page table images as
  lists of blocks with their addresses; `StackPointer`, `StructPointer` and
  `ContextPointer` are what the boot code computes from a CPU's id.

Addresses count page table entries (8 bytes), and the width of a VPN field is the
constant `VpnBits`: a page, a table and a VPN field have the same size in the code (512
entries) and in the model.

## 3. What the runs check

| run | instance | distinct states | result |
|---|---|---|---|
| `sync_barrier` | 5 CPUs, one of them CPU 31, 5 words, the schedule of `tests/common/test019` and a point of CPU 31 | 3 262 | all hold |
| `diag_run` | 4 CPUs, 3 active, primary in the middle, 2 rounds, 6 return values | 12 610 | all hold |
| `diag_run_hang` | as above, 1 round, returns 0 and 1 | | violated (finding) |
| `sbi_boot` | 4 CPUs, 3 active, firmware boots on any | 1 750 | all hold |
| `sbi_start` | as above, firmware boots on CPU 0 | | violated (finding) |
| `mode_switch` | 4 contexts per region, every mode may give up | 51 152 | all hold |
| `mode_switch_vs` | 5 contexts, only VS-mode gives up | | violated (finding) |
| `heap` | 2 CPUs, ranges of 11, 6 and 5 units, sizes 0, 5, 16, alignments 8, 32 | 555 337 | all hold |
| `heap_setup` | 2 CPUs, one range | | violated (finding) |
| `host_run` | 3 diags, 2 threads, diag 2 may be one expected to fail, one Ctrl+C | 633 000 | all hold |
| `host_interrupt` | 2 diags, 2 threads | | violated (finding) |
| `source_generator` | 380 inputs, 3-bit VPN fields | 18 604 | all hold |

Barrier. `NobodyLeavesEarly`: a CPU that has left a point n times has been
preceded into it n times by every member. `NoSpuriousFail`: the two checks on
the word never fail a diag that keeps one mask per point. `ImplementsBarrier`: the refinement, with the fairness
of every point whose mask has no CPU 31. `EveryCallReturns`: with programs that agree on
the order of shared points every call returns, but for the calls at a point whose mask has
CPU 31, from which nobody comes back (`SignedStaysShut`).

A run. `PassMeansAllPassed`: `tohost` says PASSED only when every active CPU
returned a value whose low byte is 0. `VerdictIsFinal`: several CPUs may write
`tohost`, always the same value, so it does not matter which write the simulator reads.
`CheckedStaysChecked`: the byte of a CPU the primary has gone past is final.
`VerdictUnlessStranded`: a run lacks a verdict only when a CPU waits in a
barrier for one that has left `main()`, or when `main()` returned a value whose low
byte is 2 or 3.

SBI. `BootNeverFails`: no start is refused. `LoopEnds`: the loop is left and
all of its mask is up. `VerdictUnlessNotStarted`: the only other reason for a
run without an end is an active CPU that was never started.

Mode switching. `CountMatchesPointer`: count and pointer agree in both regions, so
the end of a hart's part is never passed. `ContextsNeeded`: the contexts in use are
exactly those the activations in progress will need, in order: M-mode's whatever gives
up, those of the shared S/VS region until something gives up inside a handler or a
call. `RegistersRight`: until then the code that resumes has its own registers.
`ModeTracked`: the two mode attributes agree with the mode that runs.

Heap. `ListSound`: chunks lie end to end over the whole heap, no two neighbours are both
free, and the next-fit pointer names a used chunk. `PointersValid`: pointers held are
distinct used chunks, large enough, and no used chunk is without a holder.
`LockMatches`: who is inside holds the lock, and a CPU outside does not unless it failed.
`NullOnlyWhenFull`: a refused malloc had no room anywhere. `ImplementsAllocator`: the
refinement.

Source generator. `AcceptedMapSound`: the checks compare neighbours of a sorted list, and
yet no two mappings of an accepted map overlap in a stage, by source or (aliases apart) by
destination, and each alias lies in memory that is mapped. `TablesTile`: tables follow each other inside
the region mapped for them, and every entry is in one of them. `WalkMatchesMap`: at
the edges of every mapping and one page of every level off them, both walks find what the
map says, and fault where it says nothing. `PteNeverChanges`: no mapping changes an entry
made for another. `TablesReadable`: every entry of every table is mapped one to one where
the code that walks or modifies it runs. `SectionsSound`: the linker sections are
disjoint, each but the last has another right behind it, and they cover the mappings.
`ImageMatches`: the `.skip`s and words of the assembly put every entry at the address the
pointers name, and the atp registers hold the root, aligned as its mode asks.
`CpuAreasRight`: what the boot code multiplies out is the block that was emitted for that
CPU, inside the mapped section, and the fields of a struct are aligned and disjoint.

Host. `RegistryMatches`: the registry names only commands in progress, so the clean up
never signals a group of the past, and all that are waited for until the handler
clears it. `NothingOutlives`: at the end no process is left, however the program ends.
`ExitStatusTruthful`: exit status 0 means that all commands of all diags returned 0
and that none was expected to fail (an expected failure is shown in the summary as such and
still counts among the failed runs); and no diag keeps another from its compile result.
`EndsUnlessStuck`: the program ends, unless Ctrl+C arrives inside the locked section of the
exit handler.

### Findings

1. `src/public/exit.mmode.S:57`. A CPU that gives up by `jumpstart_smode_fail`
   while another waits for it in a barrier leaves that CPU's byte RUNNING: the
   primary waits for ever and no verdict is written
   (`FailureEndsSimulation`, against `docs/reference_manual.md:34`).
2. `src/common/sbi_firmware_boot.smode.S:27`. The active mask is overwritten by
   the boot CPU's id, so booted on CPU 0 no other CPU is started
   (`EveryActiveCpuStarts`, against the comment above it).
3. `src/common/jumpstart.vsmode.S:109`. `jumpstart_vsmode_fail` in a VS-mode trap
   handler makes S-mode restore the context of the trap, not that of the caller
   (`CallerContextRestored`, against `jumpstart.smode.S:361`).
4. `src/common/heap.smode.c:331`. `setup_heap` reads `setup_done` and `head`
   without the lock: a deregistration in between makes a set up of the same range
   fail (`SameRangeNeverFails`, against the comment above it).
5. `scripts/system/functions.py:176`. A process that a worker has started and not yet
   registered when the SIGINT handler copies the registry is not signalled
   (`SingleInterruptKillsAll`, against the docstring at line 18). Nor does the pool drop the
   units still queued: they are started after the Ctrl+C, which the same docstring does not
   speak of.

The five above have a run that TLC finds violated. What follows was met while the models were
written; the models do as the code does, and the properties say where they leave it out.

6. `generate_diag_sources.py:872`. A mask with CPU 31 never equals the word loaded with
   its sign extended, so the driver spins and all of them hang (checked and proved:
   `SignedStaysShut`).
7. `src/common/tablewalk.smode.c:140`. The walk in C adds only `va[11:0]`, so inside a
   superpage it returns the superpage's first 4K page; its comment at 63 calls it a
   reimplementation of the generator's. `WalkMatchesMap` asks it for 4K pages only.
8. `memory_mapping.py:235` checks the destination's alignment to `page_size` and nothing
   checks the source's: a misaligned superpage is accepted and translated to another
   address than the map says. `WalkMatchesMap` leaves those stages out.
9. `linker_script.py:106`. `merge()` loses the section's end when the other one starts
   lower, and keeps the virtual start of the first; it happens only across stages.
   `SectionsSound` asks for the cover of mappings where it does not (`MergedUpwards`).
   At 162 the last section gets no guard.
   The search for sections to merge into is one way: names of the mapping that the section
   does not have make it a section of its own, and then the assertion at 290 stops it.
10. `page_tables.py:273`. The comments say the x4 modes have two more bits, `va_mask` has
    one, and the top one is taken for a sign: guest physical addresses from the first of
    the extra bits on are refused, or, sign-extended, stopped by the assertion at 516.
11. `generate_diag_sources.py:401`. Virtualization with `vsatp_mode` or `hgatp_mode` bare,
    which `docs/reference_manual.md:63` lists, ends in a KeyError. So does a `.text` mapping with
    `num_pages_per_cpu`, without addresses, when the test starts in M-mode.
12. `generate_diag_sources.py:503`. The next free address is the end of the mapping added
    last, not of the highest. The overlap check then refuses what that breaks.
13. Overlaps of destinations are checked stage by stage: an `hs` mapping and a `g` mapping may
    share memory (deliberately so for the guest's tables).
14. A mapping with an explicit `translation_stage` keeps `no_pte_allocation` unset, which
    skips the check that G-stage leaves have U set. Only the start of a mapping is checked
    to be canonical, and destinations are cut to the width of the PPN fields.

### Bounds and why they are enough

- Barrier: CPUs 0 to 3 give a driver, two other members and a CPU outside the
  mask; each point but CPU 31's is met at least twice in succession, which is what lets two
  rounds of one word touch, and the masks overlap without being equal. CPU 31 has the
  one bit that is a sign. The programs are finite, so nothing is cut off.
- Runs: an inactive CPU between active ones makes the scan skip; the primary has
  CPUs on both sides; return values include 256 and -1 (low bytes 0 and 255) and the
  two values that read as another status. Two rounds let a CPU be in a barrier
  others have left.
- SBI: boot ids 0 to 3 give every mask their bits can make, an inactive boot CPU
  included.
- Mode switching: four contexts hold every pair of nested calls and traps in every
  pair of modes with one more above; the code's five was checked too (1.5 million
  states, same result). The bound is the code's own.
- Heap: 11 units hold three minimum blocks with holes between, or an aligned
  block with a chunk in front; a range of 14 units was checked too (3.6 million states,
  same result). The other two ranges differ in their end and in their start from the
  first. `Bytes` covers zero, a size that is rounded up and one that is not.
- Source generator: a VPN field of 3 bits makes pages and tables of 8 entries; the
  modes keep their three or four fields and the two more bits at an x4 root, and a physical
  address (`PaBits = 14`) and a register (`Xlen = 18`) are wider than an address of
  the smallest mode, so that addresses can be canonical or not, truncated and sign-extended.
  TLC's 32-bit integers leave no room for the code's widths. `Mappings` puts every pair of a
  pool of 16 mappings beside `.text`: high half, not canonical, aliases of something
  and of nothing, crossing by source or by destination, aligned and misaligned superpages,
  reserved and no permissions, invalid, per CPU, without addresses. `Cpus` varies masks,
  primary, modes and structs. `Limits` goes through each number of table pages from none to
  enough, both ends of the ELF range one page off, and the attributes that are
  refused. `Virtual` has all combinations of the modes of the three stages. A save area has 2 contexts of
  3 registers.
- Host: three units on two threads keep one queued while the others run, and leave units
  not yet submitted when the signal comes. One Ctrl+C: the second meets Python's own
  handler.

### Fairness

Every CPU takes the steps it can (weak fairness per CPU): a hart keeps executing
instructions, and each spin loop is a guard that is either enabled for good or waits
for another hart. The SBI firmware brings up a CPU it has agreed to start. In
`DiagRun` the point opens when all are in, which `SyncBarrier` is checked to do under
per-CPU fairness. `main()` itself is the diag's: its steps are in the fairness of
the CPU, that is, a diag ends or fails in the end. `Heap` and `ModeSwitch` have no
liveness properties: the spinlock is unfair, and a hart may nest calls as long as it
likes. In `HostRun` the main thread, each thread of the pool and each command is
treated weakly fairly: the operating system schedules them and a command ends, by
itself or by the time-out meson gives it. Nobody has to press Ctrl+C.

The source generator runs alone and needs no fairness: its properties are about what it
leaves behind. Deadlock is checked for it, where it may stop only when done or rejected.
The other configurations turn it off because the system does stop: after the verdict, after a
fail, when every context is in use and M-mode halts, or at a point of CPU 31.

## 4. Proofs

Each module has an inductive invariant `IInv`, which the runs' properties follow from.

`SyncBarrierProofs`, for any CPUs of a 32-bit word, any sync
points with nonempty masks, and any programs that keep one mask per point
(`CpuAssumption`, `MaskAssumption`, `ProgramAssumption`). The invariant
`IInv` adds to `TypeOK` and `NoSpuriousFail`: a set bit belongs to a waiting member
(`BitsOfWaiters`); only the driver is in its loop, and at its swap the word is the
whole mask and the mask has no sign (`DriverLoop`); a CPU's counters differ by the call it is in (`Counters`);
all members are at the same level, where a level is the number of entries less the
one whose bit is still set (`SameLevel`). `NobodyLeavesEarly` is not inductive: that a
bit gone means everybody's bit went with it is what `SameLevel` records. From `IInv`:
`TypeCorrect`, `BarrierSafety`, `ChecksNeverFail`, `ClearedTogether` (bits leave a word only
all at once), `NobodyPassesSigned`, and `Refinement`, that every step is a step or a stutter of `Barrier`.

`DiagRunProofs`, for any machine, any active CPUs and primary among them, any values
of `main()` and any number of rounds (`MachineAssumption`, `RoundsAssumption`). The
invariant ties each status byte to where its CPU is and to what it returned
(`StatusFollows`), says what is behind the cursor has returned and passed (`Scanned`),
that only the primary scans (`OnlyPrimaryScans`), that any other CPU on the fail path
never stored a status (`FailedAlone`), and that each verdict has a CPU that stopped for it
(`StoppedFor`), which is why two CPUs cannot write different verdicts. From it:
`TypeCorrect`, `PassIsSound`, `OneVerdict`, `CheckedIsFinal`.

`SbiBootProofs`, for any CPUs, mask and return values. The invariant says that only the
boot CPU is in the trampoline (`OneBoots`), that the CPUs its loop has not come to are still
stopped, so that no start is refused (`LoopSound`), that a CPU that is not up runs nothing (`DownIsOff`), and, as
in `DiagRunProofs`, what the status bytes, the cursor and a verdict stand for. From it
`TypeCorrect`, `PassIsSound` and, where the ids below a boot CPU name CPUs,
`TrampolineNeverFails`. That condition is the model's: firmware refuses a hart that does not exist.

`ModeSwitchProofs`, for any number of contexts and any set of modes that give up. What was
entered from what (`Floor`, `EnteredRight`, `CallerBelow`) and what each region holds
(`Kept`: every activation that will resume finds its context, above it only those of later ones;
`Exact`: until somebody gives up there are no others) carry `RegistersRight`, which is not
inductive without knowing which context is second from the top at each return. From it
`TypeCorrect`, `CountsAgree`, `RegistersAreRight`, `ModeIsTracked` and, with `NoOthers` (M-mode's
contexts hold no others whatever gives up), `ContextsAreNeeded`: contexts that all have an
owner, in increasing order and with no owner left out, are the list of the owners.

`HeapProofs`, for any CPUs, ranges, sizes and alignments. The list is tiled and free chunks stand
alone, as predicates of any list, so that a mark, a split, a carving in front and a merge are one lemma
each; the lock is held by who is inside; and a chunk found under the lock still fits when it is
carved (`RequestsReal`). From it `TypeCorrect`, `LockIsExclusive`, `ListIsSound` and
`HeapIsAllocator`, that every step is a step or a stutter of `Allocator`. `PointersAreValid` needs a
second invariant on top and a counting argument: pointers are distinct, each names a used chunk,
and the numbers agree, so no used chunk is lost. `NullMeansFull` is about the search: a place that no
used chunk touches lies inside one free chunk, because two free ones are never neighbours, and
that chunk is one the search goes past, wherever it starts.

`LayoutProofs`, for any inputs, sections of jumpstart and widths of the fields. The assumptions are
that the fields fit in one another (`WidthsAssumption`), that `None` is no address and no name
(`NoneAssumption`), that the page tables of each stage have a section name of their own, which
no section of jumpstart has (`TableSectionAssumption`, `JumpstartAssumption`), that a mask is a number, so that finitely many
of its bits are set (`MasksAssumption`), and, as arithmetic the provers lack, that powers of two are positive
naturals, that they multiply by adding the exponents, as far as the registers are wide, and that 2^2 is 4 (`PowersAssumption`). Lists are what is hard here, because filters, sorts and
`FlattenSeq` are recursive in the libraries. `MemoryMap` filters and sorts by counting what comes
before (`Arranged`), and `RanksAreNumbers` shows that for any strict order on finitely many positions the counts
are 0, 1, 2, ... each once. `FlattenSeq` stays the library's, a recursive function: that there is one, and
what its elements are, is shown from the least number for which it failed. `MapInv`: whatever
the map is built from, each list of it holds mappings of its own stage whose sizes, addresses and permissions are numbers
(`MapTyped`); nothing can be said of the tables before that. From it `AcceptedMapIsSound`: in a list sorted by a
field with no neighbours overlapping no two overlap (`NeighboursSuffice`, for sizes of either sign), the filter by which
the check drops aliases and direct mappings loses none of the others, and so what the check of neighbours
lets through satisfies `AcceptedMapSound`.

On top of that, in the same module, the tables. `EntriesAreFinal` needs no more than their
shape: written entries never change. `TypesAreRight` and `TablesAlwaysTile`: a region was placed for every stage with tables, its
entries are numbers that fit the fields of their mode, and each table begins where the one before ends, so that tables
never leave the region mapped for them. The module ends with what holds of any finished tables, apart from the generator: an address
is its index at a level and an offset (`IndexFacts`, `InPage`), the fields of an entry put together give back the address they
were cut from (`TargetOfPte`), and so a walk reaches the leaf of every page that was written (`WalkReaches`) and no other (`WalkFinds`).

`SourceGeneratorProofs`, from there. `SectionsAreSound` has one invariant for the collection
(`Collected`): each section stems from a mapping that has its names and, where no mapping is merged into a
section that starts after it, its start, and it covers what was merged into it. The last step sorts, adds the guards behind the
gaps and sorts again; `FollowedByNext` is that argument about plain numbers: behind a section
comes the guard made for it, or the section that left no gap.

`ImagesMatch` joins the three outputs: the addresses the entries were built for, those the linker gives the section of the
tables, and those the `.skip`s of the assembly file lead to. It needs to know that the section of a stage's tables starts
at the region its tables were built for, and that goes through names: the loop over the stages takes the first mapping with the name,
the linker script one of those merged into the section with it. So `NamesInv`: every mapping
named like the tables of a stage, in whatever stage's map, is at one address (`Together`); `Linked`: no name is in two sections, and a section
starts where a mapping with its names does; `RootsInv`: a stage that is finished has an entry at its start, and its
root, the first page to be allocated, passed the check of its alignment. `LandsRight` is then the induction over
the entries of an image. The premise `DiagNamesNoTable` is about the diag: none of its mappings is named like page tables.
Nothing in the generator checks that, and a diag that does name one so moves the tables away from where
their entries point. It holds in every run that reaches the assembly file.

`TablesAreReadable` and `WalksMatchTheMap` join the map to the tables. `WalkInv` follows the loop over pages and levels: the
pages before the current one, and the levels of the current one that are done, have their entries (`Held`), and no
entry is there that no page accounts for (`Accounted`); it is not inductive without knowing that a table has one place among the tables
(`PagesRight`). When the loop is done these are the conditions of `WalkReaches` and `WalkFinds`. `ReadersInv` says a mapping of the
whole region of a stage's tables is in the map of every stage that reads it, and stays there until the map is checked; by `Together` all of them
are at the region's address, so that the walk of one stage can be followed through the tables of the next, first for G, which then makes
VS's entries readable for `translate_stage()`, then for every stage. The second premise, `DestinationsFit`, says no destination lies beyond the
physical addresses: nothing in the generator checks that either, and an address too wide for its PPN fields is cut (14 of the
list above). Both premises hold together in the runs that get to the end.

`CpuAreasAreRight` is about the addresses the boot code multiplies out of a CPU's id. Areas emitted one after the other are a
recursive function of their number (`Starts`), so that they follow each other is an induction (`StartsExist`, `StartsFollow` by
least number), and so is that a list flattened from pieces of one length is a row that can be indexed by piece and place
(`FlattenPieces`). Of such a row the first block with a label is where the multiplication starts, and the first of
a CPU with it where it leads (`GridFound`, `LabelFound`). The linker puts the section of an area where the first
mapping of that name is, which is the one the code asked for its size (`AreaLinked`), and the check of that size (`StructsFit`, and for
stacks the division among the CPUs) keeps the last block inside. `FieldsRight` is the padding of a struct: its fields are aligned, disjoint and end
before it does. The assumptions are what the generator's own data has: struct names are distinct, as keys of a dictionary are, and field sizes those
of the four integer types (`StructsAssumption`), a context has room for one save or more (`SavesAssumption`), no area is in the section of
`main()` (`AreaSectionAssumption`). Of the two premises, `AreasUnshared` says that a mapping that names the section of an area names
no other: the linker script may merge sections that share a name, and an area then starts where the lower of the two does. `SizesSound` says no mapping has a negative number of
pages. Nothing in the generator checks either, and both hold in every run of the generator that gets to the end.

`HostRunProofs`, for any number of diags and threads and any manifest of
expected failures (`NAssumption`, `ExpectationsAssumption`). The invariant says a unit has a
process only from `Popen` to the wait (`ProcFollows`), that the main thread is past the pool
only when nothing submitted is unfinished (`PastPool`), that a return code of 0 was counted
(`CodesCounted`), and that each unit's command and states go with the phase and with the
commands that returned 0 (`PhaseCommand`, `PhaseResult`, `ResultsEarned`): an exit status is
read off the states two phases later, so it needs the history they stand for. From it:
`TypeCorrect`, `RegistryIsExact`, `NoOrphans`, `SuccessIsSound`.

Only model-checked is liveness (`EveryCallReturns`, `VerdictUnlessStranded`, `LoopEnds`, `VerdictUnlessNotStarted`,
`EndsUnlessStuck` and the fairness in `ImplementsBarrier`): TLAPS here proves neither liveness under fairness nor
ENABLED. Every invariant and action property a passing run checks is stated by a theorem.

Recursion over data is proved where the model has a recursive function of a number, by the least number for which
the claim fails (`FlattensExists`, `FlattenType`, `StartsExist`, `EndsExist`). The library's induction theorems take an operator as
parameter, which the installed provers cannot instantiate.

## 5. What is not modelled

- Weak memory. All models are sequentially consistent; the plain loads and stores of
  the barrier's release side and of `setup_heap` would need RVWMO.
- Trap override tables (`trap_handler.{m,s}mode.c`): every call is a range check and one
  load or store of an entry of the calling CPU, so there is nothing to interleave.
- `printk` and the UART: formatting and polled device registers around one lock. A trap taken
  under the lock whose handler prints waits for itself; it needs no model to see.
- Interrupts, the EPC and STATUS accessors, and the window at trap entry in which
  `mscratch`/`sscratch` hold `gp`: `ModeSwitch` takes an entry and an exit as one step each.
- A failure with the heap's lock held is modelled, but not what it does to the
  verdict of the run, which would need `Heap` composed with `DiagRun`. `DiagRun` for its part
  takes barriers that open, as they do where no mask has CPU 31.
- The two-stage walk in C, which reads guest tables through `hlv`; PBMT bits; program headers
  and the text of the linker script; the encodings of `napot_utils.py`, which nothing
  calls; accessors of single attributes.
- The code of internal builds, which is not in the repository.
- The string library, delays and CSR accessors: no control worth a model.
- On the host: batch mode and the oswis target, whose code is not in the repository; the
  time-out of `run_command`, which no caller asks for; build-only environments; the
  validation of the manifest and the layout of the summary.

## 6. What could be added

The trap entry split at `mscratch`/`sscratch` with nested traps; `Heap` composed with
`DiagRun`, so that a failure under the lock is seen in the verdict; the combined two-stage
walk against `TranslateStage` of two stages; and that `DiagRun`'s verdict is sound over
`SyncBarrier` by the refinement proved above.
