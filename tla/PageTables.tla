------------------------------ MODULE PageTables ------------------------------
(***************************************************************************)
(* The page tables of every stage that is not bare (page_tables.py), built *)
(* from the checked memory map: one step is one turn of the loop over the  *)
(* levels of one page.  Then what a walk of the finished tables finds:     *)
(* translate_stage() of the generator, and translate() of the diag, which  *)
(* tablewalk.smode.c says is the same walk.                                *)
(***************************************************************************)
EXTENDS MemoryMap

VARIABLES
  page_tables,      \* by stage: start, the split mappings, the pages in the order
                    \* they were allocated in, and the sparse memory
  stage_id,         \* the stage the loop is at; `at' is its next page
  current_level     \* the level of that page's next entry

tableVars == <<page_tables, stage_id, current_level>>

----------------------------------------------------------------------------
(* Mutations, one plausible slip each.                                     *)

(* a table is taken to cover the first address of the next as well *)
CoversOnePast(page, mode, va, level) ==
  /\ page.level = level
  /\ page.va <= va /\ va <= page.va + 2^(VaVpnBits(mode, level)[1] + 1)
(* a later write of an entry wins *)
AnyWrite(t, address, pte) == TRUE
(* every table is taken to have one page *)
SizeInPages(t) == Len(t.pages) * SIZE_4K
(* the bits of a PPN field above its width stay *)
UnmaskedPpns(mode, pa) ==
  [l \in 0..Levels[mode] - 1 |-> pa \div 2^PaPpnBits(mode, l)[2]]
(* only the last word of the tables is made sure of *)
EndOnly(t) == {t.pages[Len(t.pages)].pa + t.pages[Len(t.pages)].size - 1}

----------------------------------------------------------------------------
(* Table pages                                                             *)

(* A table covers the addresses that agree with va above its own VPN.      *)
TableRange(mode, level) == 2^(VaVpnBits(mode, level)[1] + 1)
Covers(page, mode, va, level) ==
  /\ page.level = level
  /\ page.va <= va /\ va < page.va + TableRange(mode, level)

Tables(t, mode, va, level) ==
  {i \in DOMAIN t.pages : Covers(t.pages[i], mode, MaskVa(mode, va), level)}
Table(t, mode, va, level) == t.pages[CHOOSE i \in Tables(t, mode, va, level) : TRUE]

(* The sum of the sizes of the pages: they follow each other from start.   *)
CurrentSize(t) ==
  IF t.pages = <<>> THEN 0
  ELSE LET last == t.pages[Len(t.pages)] IN last.pa + last.size - t.start

RoomFor(t, mode, va, level) ==
  \/ Tables(t, mode, va, level) # {}
  \/ CurrentSize(t) + PagetableSize(mode, level) <= TableRegionSize

(* get_new_page(): the page that covers va, or a new one after the last.   *)
WithTable(t, mode, va, level) ==
  IF Tables(t, mode, va, level) # {} THEN t
  ELSE LET range == TableRange(mode, level)
           page == [pa |-> t.start + CurrentSize(t), size |-> PagetableSize(mode, level),
                    va |-> (MaskVa(mode, va) \div range) * range, level |-> level]
       IN [t EXCEPT !.pages = Append(@, page)]

----------------------------------------------------------------------------
(* Entries                                                                 *)

(* Every page of every mapping that is not bare, in the map's order.       *)
PagesOfMapping(m) ==
  [n \in 1..m.num_pages |->
    [src |-> Source(m) + (n - 1) * m.page_size, dst |-> Dest(m) + (n - 1) * m.page_size,
     page_size |-> m.page_size, xwr |-> m.xwr, umode |-> m.umode, valid |-> m.valid]]
Entries(stage) ==
  LET map == memory_map[stage]
  IN FlattenSeq([i \in DOMAIN map |->
       IF IsBareMapping(map[i]) THEN <<>> ELSE PagesOfMapping(map[i])])

Ppns(mode, pa) == [l \in 0..Levels[mode] - 1 |-> ExtractBits(pa, PaPpnBits(mode, l))]

Pte(mode, valid, xwr, umode, ad, pa) ==
  [valid |-> valid, xwr |-> xwr, umode |-> umode, a |-> ad, d |-> ad, ppn |-> Ppns(mode, pa)]
ZeroPte(mode) == Pte(mode, 0, 0, 0, 0, 0)
PointerPte(mode, pa) == Pte(mode, 1, 0, 0, 0, pa)
LeafPte(mode, e) ==
  Pte(mode, e.valid, e.xwr, IF e.umode = None THEN 0 ELSE e.umode, 1, e.dst)

PteOffset(mode, va, level) == ExtractBits(va, VaVpnBits(mode, level))

----------------------------------------------------------------------------
(* write_sparse_memory                                                     *)

MayWrite(t, address, pte) == address \in DOMAIN t.memory => t.memory[address] = pte
Write(t, address, pte) ==
  [t EXCEPT !.memory =
     [a \in DOMAIN t.memory \cup {address} |-> IF a = address THEN pte ELSE t.memory[a]]]

(* The stage of the loop over the enabled stages.                          *)
Building == Enabled[stage_id]
StageLeft == phase = "tables" /\ stage_id <= Len(Enabled)
EntriesLeft == at <= Len(page_tables[Building].entries)

LeafLevel(mode, e) == CHOOSE l \in DOMAIN PageSizes(mode) : PageSizes(mode)[l] = e.page_size
SizeSupported(mode, e) == \E l \in DOMAIN PageSizes(mode) : PageSizes(mode)[l] = e.page_size

(* One turn of the loop for a page e whose leaf is deeper, and at the leaf:*)
(* the tables it needs, the entry it writes and what must not fail.        *)
(* What a pointer adds to the address of the next table falls into the     *)
(* bits of the page offset, which an entry does not hold.                  *)
PointerAddress(t, mode, va, level) ==
  Table(t, mode, va, level + 1).pa + PteOffset(mode, va, level)
PteAddress(t, mode, va, level) ==
  Table(t, mode, va, level).pa + PteOffset(mode, va, level)

Allocatable(t, mode, e, level) ==
  /\ RoomFor(t, mode, e.src, level)
  /\ level < LeafLevel(mode, e) =>
       RoomFor(WithTable(t, mode, e.src, level), mode, e.src, level + 1)
Allocated(t, mode, e, level) ==
  LET here == WithTable(t, mode, e.src, level)
  IN IF level < LeafLevel(mode, e) THEN WithTable(here, mode, e.src, level + 1) ELSE here

EntryFor(t, mode, e, level) ==
  IF level < LeafLevel(mode, e)
  THEN PointerPte(mode, PointerAddress(t, mode, e.src, level))
  ELSE LeafPte(mode, e)

InRange(t, mode, e, level) ==
  LET here == Table(t, mode, e.src, level)
      next == Table(t, mode, e.src, level + 1)
  IN /\ here.pa % here.size = 0
     /\ PteAddress(t, mode, e.src, level) < here.pa + here.size
     /\ IF level = LeafLevel(mode, e) THEN e.xwr \notin {2, 6}
        ELSE PointerAddress(t, mode, e.src, level) < next.pa + next.size

EntryAllowed(tables, mode, e) ==
  /\ SizeSupported(mode, e)
  /\ Allocatable(tables, mode, e, current_level)
  /\ \E t \in {Allocated(tables, mode, e, current_level)} :
       /\ InRange(t, mode, e, current_level)
       /\ MayWrite(t, PteAddress(t, mode, e.src, current_level),
                   EntryFor(t, mode, e, current_level))

----------------------------------------------------------------------------
(* The steps                                                               *)

TablesInit == page_tables = <<>> /\ stage_id = 1 /\ current_level = 0

RejectTables == Reject /\ UNCHANGED tableVars

(* PageTables(): the region is the first section of that name, and         *)
(* AddPagetableMappings has put one in the map of every such stage.        *)
RegionsOf(stage) ==
  {i \in DOMAIN memory_map[stage] : LET names == memory_map[stage][i].linker_script_section
                                    IN names # None /\ Contains(names, TableSection(stage)[1])}
RegionOf(stage) ==
  memory_map[stage][CHOOSE i \in RegionsOf(stage) : \A j \in RegionsOf(stage) : i <= j]

SkipBareStage ==
  /\ StageLeft
  /\ Mode(Building) = "bare"
  /\ stage_id' = stage_id + 1
  /\ UNCHANGED <<mapVars, page_tables, current_level>>

BeginStage ==
  /\ StageLeft
  /\ Mode(Building) # "bare" /\ Building \notin DOMAIN page_tables
  /\ page_tables' = [s \in DOMAIN page_tables \cup {Building} |->
       IF s = Building THEN [start |-> Dest(RegionOf(Building)), entries |-> Entries(Building),
                        pages |-> <<>>, memory |-> <<>>]
                       ELSE page_tables[s]]
  /\ UNCHANGED <<mapVars, stage_id, current_level>>

WriteEntry ==
  /\ StageLeft
  /\ Building \in DOMAIN page_tables
  /\ EntriesLeft
  /\ \E mode \in {Mode(Building)}, e \in {page_tables[Building].entries[at]} :
       \/ /\ EntryAllowed(page_tables[Building], mode, e)
          /\ \E t \in {Allocated(page_tables[Building], mode, e, current_level)} :
               page_tables' = [page_tables EXCEPT ![Building] =
                 Write(t, PteAddress(t, mode, e.src, current_level),
                          EntryFor(t, mode, e, current_level))]
          /\ IF current_level < LeafLevel(mode, e)
             THEN current_level' = current_level + 1 /\ at' = at
             ELSE current_level' = 0 /\ at' = at + 1
          /\ UNCHANGED <<input, diag_attributes, phase, memory_map, stage_id>>
       \/ ~EntryAllowed(page_tables[Building], mode, e) /\ RejectTables

(* The first and the last word of the tables are always there.             *)
Bounds(t) == {t.start, t.start + CurrentSize(t) - 1}
WithBounds(t, mode) ==
  [t EXCEPT !.memory = [a \in DOMAIN t.memory \cup Bounds(t) |->
     IF a \in DOMAIN t.memory THEN t.memory[a] ELSE ZeroPte(mode)]]

(* Without a page there is no root to take the bounds from.                *)
FinishStage ==
  /\ StageLeft
  /\ Building \in DOMAIN page_tables
  /\ ~EntriesLeft
  /\ \/ /\ page_tables[Building].pages # <<>>
        /\ page_tables' =
             [page_tables EXCEPT ![Building] = WithBounds(@, Mode(Building))]
        /\ at' = 1 /\ stage_id' = stage_id + 1
        /\ UNCHANGED <<input, diag_attributes, phase, memory_map, current_level>>
     \/ page_tables[Building].pages = <<>> /\ RejectTables

FinishTables ==
  /\ phase = "tables" /\ stage_id > Len(Enabled)
  /\ Advance("sections")
  /\ UNCHANGED <<input, diag_attributes, memory_map, tableVars>>

TablesNext == SkipBareStage \/ BeginStage \/ WriteEntry \/ FinishStage \/ FinishTables

----------------------------------------------------------------------------
(* Walks                                                                   *)

Fault == [kind |-> "fault"]

(* The address an entry holds: its PPN fields put in place one by one.     *)
PteTarget(mode, pte) ==
  LET placed[l \in 0..Levels[mode]] ==
        IF l = 0 THEN 0
        ELSE PlaceBits(placed[l - 1], pte.ppn[l - 1], PaPpnBits(mode, l - 1))
  IN placed[Levels[mode]]

(* Valid, not reserved, and A and D clear in a pointer.                    *)
Walkable(pte) ==
  /\ pte.valid = 1 /\ pte.xwr \notin {2, 6}
  /\ pte.xwr = 0 => pte.a = 0 /\ pte.d = 0

(* What the walk holds when it has read the entry of each level.           *)
Walk(stage, va, Readable(_)) ==
  LET mode == Mode(stage)
      memory == page_tables[stage].memory
      visit[l \in 0..Levels[mode]] ==
        IF l = 0 THEN [kind |-> "table", a |-> page_tables[stage].start]
        ELSE LET from == visit[l - 1]
                 address == from.a + PteOffset(mode, va, l - 1)
             IN IF from.kind # "table" THEN from
                ELSE IF ~Readable(address) \/ address \notin DOMAIN memory THEN Fault
                ELSE IF ~Walkable(memory[address]) THEN Fault
                ELSE [kind |-> IF memory[address].xwr = 0 THEN "table" ELSE "leaf",
                      a |-> PteTarget(mode, memory[address]), level |-> l - 1,
                      xwr |-> memory[address].xwr, umode |-> memory[address].umode]
      last == visit[Levels[mode]]
  IN IF last.kind = "leaf" THEN last ELSE Fault

(* translate_stage(): an entry of a VS table must itself be mapped by G.   *)
StageWalk(stage, va) ==
  Walk(stage, va, LAMBDA a : NextStage[stage] = None
                             \/ Walk("g", a, LAMBDA b : TRUE) # Fault)

OffsetBelow(mode, level, va) == ExtractBits(va, <<VpnLsb(mode, level) - 1, 0>>)
TranslateStage(stage, va) ==
  LET w == StageWalk(stage, va)
  IN IF w = Fault THEN None ELSE w.a + OffsetBelow(Mode(stage), w.level, va)

(* translate() of the diag: entries are read where they are, and whatever  *)
(* the size of the page only the offset in a 4K page is added.             *)
TranslateInC(stage, va) ==
  LET w == Walk(stage, va, LAMBDA a : TRUE)
  IN IF w = Fault THEN None ELSE w.a + (va % SIZE_4K)
=============================================================================
