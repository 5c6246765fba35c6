------------------------------- MODULE Heap -------------------------------
(***************************************************************************)
(* One of the S-mode heaps of src/common/heap.smode.c, its spinlock        *)
(* (lock.h), and the CPUs that call it.  Addresses count units of 8 bytes, *)
(* MIN_HEAP_ALLOCATION_SIZE, which every chunk is a multiple of.           *)
(*                                                                         *)
(* A call tests is_valid_heap or setup_done before it takes the lock, and  *)
(* changes the list under it; malloc and memalign search in one step and   *)
(* carve in another.  Walks of the list are written in address order,      *)
(* which the invariant Tiles says is the order of the next pointers.       *)
(* is_valid_heap is one step: the writes of setup_done and head keep the   *)
(* order that makes reading both in turn give what some instant had.       *)
(*                                                                         *)
(* A diag hands a pointer it was given to free once; it calls everything   *)
(* else at any time.                                                       *)
(***************************************************************************)
EXTENDS Integers, FiniteSets, FiniteSetsExt

CONSTANTS
  Cpu, NoCpu,   \* the CPUs, and what the lock holds when it is free
  HeapRange,    \* ranges [from, to] that setup_heap is called with
  Bytes,        \* sizes asked of malloc and memalign
  Alignment     \* alignments asked of memalign, in bytes

NULL == 0

ASSUME CpuAssumption == NoCpu \notin Cpu
ASSUME RangeAssumption ==
  HeapRange \subseteq {r \in [from : Nat \ {NULL}, to : Nat] : r.to > r.from + 2}
ASSUME BytesAssumption == Bytes \subseteq Nat /\ Alignment \subseteq Nat

VARIABLES
  head, last, size, setupDone,  \* heap_info, last being last_allocated
  chunk,        \* chunk headers of the list: address -> [size, used, next]
  lock,         \* the CPU holding the lock
  pc, req,      \* where each CPU is and the call it is in
  found,        \* the chunk each CPU's search ended at
  live          \* pointers the diag holds: [ptr, want]

heapVars == <<head, last, size, setupDone, chunk>>
vars == <<head, last, size, setupDone, chunk, lock, pc, req, found, live>>

Metadata == 2                 \* PER_HEAP_ALLOCATION_METADATA_SIZE
MinSegment == Metadata + 1    \* MIN_HEAP_SEGMENT_BYTES

(* ALIGN_TO_MIN_ALLOC, in units; 0 bytes give 0 by the wrap of size - 1.   *)
AlignToMinAlloc(n) == (n + 7) \div 8

Idle == [op |-> "none"]

Init ==
  /\ head = NULL /\ last = NULL /\ size = 0 /\ setupDone = FALSE
  /\ chunk = <<>>
  /\ lock = NoCpu
  /\ pc = [c \in Cpu |-> "diag"]
  /\ req = [c \in Cpu |-> Idle]
  /\ found = [c \in Cpu |-> NULL]
  /\ live = {}

Goto(c, l) == pc' = [pc EXCEPT ![c] = l]

Used(a) == chunk[a].used
UsedChunks == {a \in DOMAIN chunk : Used(a)}
FreeChunks == DOMAIN chunk \ UsedChunks
Payload(a) == a + Metadata

----------------------------------------------------------------------------
(* Mutations of the definitions below, one plausible slip of the code each. *)

(* the pass over the chunks before the start is forgotten *)
OnePass(fits, start) ==
  LET ahead == {a \in fits : a >= start}
  IN IF ahead # {} THEN Min(ahead) ELSE NULL
(* every chunk is split, with room for a header or not *)
AlwaysSplit(n, asked) == TRUE
(* chunks one unit too small are taken *)
FitsShort(n, asked) == n + 1 >= asked
(* the chunk before is not looked at *)
NoPrevious(a) == {}
(* the early exit of a search forgets the lock *)
ExitLocked(c) == UNCHANGED lock
(* a block still in use does not stop the heap from going *)
NeverInUse(c) == FALSE

----------------------------------------------------------------------------
(* Calls, up to the lock                                                   *)

IsValidHeap == setupDone /\ head # NULL

Call(c, r, l) ==
  /\ pc[c] = "diag"
  /\ req' = [req EXCEPT ![c] = r]
  /\ Goto(c, l)

CallMalloc(c) ==
  /\ \E n \in Bytes :
       Call(c, [op |-> "malloc", n |-> n, align |-> 1],
            IF IsValidHeap /\ n # 0 THEN "lock" ELSE "failed")
  /\ UNCHANGED <<heapVars, lock, found, live>>

(* An alignment that is no power of two returns at once and is left out;   *)
(* one of up to 8 bytes makes the call malloc's.                           *)
CallMemalign(c) ==
  /\ \E n \in Bytes, al \in Alignment :
       LET small == al <= 8 IN
       Call(c, [op |-> "malloc", n |-> n, align |-> IF small THEN 1 ELSE al \div 8],
            IF IsValidHeap /\ (small => n # 0) THEN "lock" ELSE "failed")
  /\ UNCHANGED <<heapVars, lock, found, live>>

CallFree(c) ==
  /\ \E b \in live :
       /\ Call(c, [op |-> "free", ptr |-> b.ptr],
               IF IsValidHeap THEN "lock" ELSE "failed")
       /\ live' = live \ {b}
  /\ UNCHANGED <<heapVars, lock, found>>

(* setup_heap tests setup_done, then, where it is set, the address.        *)
CallSetup(c) ==
  /\ \E r \in HeapRange :
       Call(c, [op |-> "setup", range |-> r], IF setupDone THEN "compare" ELSE "lock")
  /\ UNCHANGED <<heapVars, lock, found, live>>

CompareHead(c) ==
  /\ pc[c] = "compare"
  /\ IF head = req[c].range.from
     THEN Goto(c, "diag") /\ req' = [req EXCEPT ![c] = Idle]
     ELSE Goto(c, "failed") /\ UNCHANGED req
  /\ UNCHANGED <<heapVars, lock, found, live>>

(* With no heap set up deregister_heap returns at once.                    *)
CallDeregister(c) ==
  /\ setupDone
  /\ Call(c, [op |-> "deregister"], "lock")
  /\ UNCHANGED <<heapVars, lock, found, live>>

----------------------------------------------------------------------------
(* The lock                                                                *)

(* The amoswap that finds the lock free.                                   *)
AcquireLock(c) ==
  /\ pc[c] = "lock"
  /\ lock = NoCpu
  /\ lock' = c
  /\ Goto(c, "inside")
  /\ UNCHANGED <<heapVars, req, found, live>>

ReleaseLock(c) == lock' = NoCpu

(* The release at exit_malloc and exit_memalign when nothing was found.    *)
ReleaseUnfound(c) == ReleaseLock(c)

Return(c) ==
  /\ ReleaseLock(c)
  /\ Goto(c, "diag")
  /\ req' = [req EXCEPT ![c] = Idle]

(* jumpstart_smode_fail with the lock held.                                *)
FailLocked(c) ==
  /\ Goto(c, "failed")
  /\ UNCHANGED <<heapVars, lock, req, found, live>>

----------------------------------------------------------------------------
(* malloc and memalign                                                     *)

Enough(n, asked) == n >= asked
SplitWorthIt(n, asked) == n >= asked + MinSegment
RestAfter(n, asked) == n - asked - Metadata

RoundUp(x, al) == ((x + al - 1) \div al) * al

(* The address memalign uses in chunk a: that of its payload, or the first *)
(* aligned one that leaves room for a chunk in front.                      *)
AlignedStart(a, al) ==
  IF Payload(a) % al = 0 THEN Payload(a)
                         ELSE RoundUp(Payload(a) + MinSegment, al)

Fits(a, n, al) ==
  LET start == AlignedStart(a, al)
      end == Payload(a) + chunk[a].size
  IN /\ Enough(chunk[a].size, n)
     /\ start = Payload(a) \/ (start < end /\ start + n <= end)

(* init_chunk_iterator and next_chunk: from the chunk after last_allocated *)
(* to the end, then from the head.                                         *)
SearchStart ==
  IF last # NULL /\ chunk[last].next # NULL THEN chunk[last].next ELSE head

FirstFrom(fits, start) ==
  LET ahead == {a \in fits : a >= start}
  IN IF fits = {} THEN NULL ELSE Min(IF ahead # {} THEN ahead ELSE fits)

Search(c) ==
  /\ pc[c] = "inside" /\ req[c].op = "malloc"
  /\ LET n == AlignToMinAlloc(req[c].n)
         fits == {a \in FreeChunks : Fits(a, n, req[c].align)}
         a == FirstFrom(fits, SearchStart)
     IN IF a = NULL
        THEN /\ ReleaseUnfound(c)
             /\ Goto(c, "diag")
             /\ req' = [req EXCEPT ![c] = Idle]
             /\ UNCHANGED found
        ELSE /\ found' = [found EXCEPT ![c] = a]
             /\ Goto(c, "carve")
             /\ UNCHANGED <<lock, req>>
  /\ UNCHANGED <<heapVars, live>>

(* Chunk a of the list cs becomes two, the second with its header at b.    *)
SplitAt(cs, a, b, rest) ==
  [x \in DOMAIN cs \cup {b} |->
     IF x = a THEN [cs[a] EXCEPT !.size = b - Payload(a), !.next = b]
     ELSE IF x = b THEN [size |-> rest, used |-> FALSE, next |-> cs[a].next]
     ELSE cs[x]]

Carve(c) ==
  /\ pc[c] = "carve"
  /\ LET n == AlignToMinAlloc(req[c].n)
         whole == found[c]
         a == AlignedStart(whole, req[c].align) - Metadata
         inFront == IF a = whole THEN chunk
                    ELSE SplitAt(chunk, whole, a, Payload(whole) + chunk[whole].size - Payload(a))
         s == inFront[a].size
         trimmed == IF ~SplitWorthIt(s, n) THEN inFront
                    ELSE SplitAt(inFront, a, Payload(a) + n, RestAfter(s, n))
     IN /\ chunk' = [trimmed EXCEPT ![a].used = TRUE]
        /\ last' = a
        /\ live' = live \cup {[ptr |-> Payload(a), want |-> n]}
  /\ found' = [found EXCEPT ![c] = NULL]
  /\ Return(c)
  /\ UNCHANGED <<head, size, setupDone>>

----------------------------------------------------------------------------
(* free                                                                    *)

(* Chunk a takes in the chunk that follows it.                             *)
Merge(cs, a) ==
  LET b == cs[a].next
  IN [x \in DOMAIN cs \ {b} |->
        IF x = a THEN [cs[a] EXCEPT !.size = @ + Metadata + cs[b].size, !.next = cs[b].next]
        ELSE cs[x]]

FreeAmong(cs) == {x \in DOMAIN cs : ~cs[x].used}

(* The free chunk whose next is a, if there is one.                        *)
FreePrevious(a) == {p \in FreeChunks : chunk[p].next = a}

LastAfter(a) == IF last = a THEN NULL ELSE last

(* Where last_allocated was freed, the next used chunk after a, or the     *)
(* last one before it.                                                     *)
Replacement(cs, a) ==
  LET used == DOMAIN cs \ FreeAmong(cs)
      after == {x \in used : x > a}
  IN IF after # {} THEN Min(after) ELSE IF used # {} THEN Max(used) ELSE NULL

Release(a) ==
  LET marked == [chunk EXCEPT ![a].used = FALSE]
      next == chunk[a].next
      onward == IF next # NULL /\ next \in FreeAmong(marked) THEN Merge(marked, a) ELSE marked
      b == IF FreePrevious(a) = {} THEN a ELSE CHOOSE p \in FreePrevious(a) : TRUE
  IN /\ chunk' = IF b = a THEN onward ELSE Merge(onward, b)
     /\ last' = IF LastAfter(a) = NULL THEN Replacement(chunk', b) ELSE LastAfter(a)

Free(c) ==
  LET a == req[c].ptr - Metadata IN
  /\ pc[c] = "inside" /\ req[c].op = "free"
  /\ IF head = NULL \/ a < head
     THEN Return(c) /\ UNCHANGED <<heapVars, found, live>>
     ELSE IF a \notin UsedChunks
     THEN FailLocked(c)
     ELSE /\ Release(a)
          /\ Return(c)
          /\ UNCHANGED <<head, size, setupDone, found, live>>

----------------------------------------------------------------------------
(* setup_heap and deregister_heap                                          *)

(* The range is mapped with the memory type of the heap: translate_VA's    *)
(* answer, the same for every caller, is taken to be right.                *)
Setup(c) ==
  LET r == req[c].range IN
  /\ pc[c] = "inside" /\ req[c].op = "setup"
  /\ IF setupDone
     THEN IF head = r.from /\ size = r.to - r.from
          THEN Return(c) /\ UNCHANGED <<heapVars, found, live>>
          ELSE FailLocked(c)
     ELSE /\ head' = r.from /\ last' = NULL /\ size' = r.to - r.from
          /\ setupDone' = TRUE
          /\ chunk' = [a \in {r.from} |->
                        [size |-> r.to - r.from - Metadata, used |-> FALSE, next |-> NULL]]
          /\ Return(c)
          /\ UNCHANGED <<found, live>>

InUse(c) == UsedChunks # {}
SizeOfAllChunks == MapThenSumSet(LAMBDA a : chunk[a].size + Metadata, DOMAIN chunk)

Deregister(c) ==
  /\ pc[c] = "inside" /\ req[c].op = "deregister"
  /\ IF InUse(c) \/ SizeOfAllChunks # size
     THEN FailLocked(c)
     ELSE /\ head' = NULL /\ last' = NULL /\ size' = 0 /\ setupDone' = FALSE
          /\ chunk' = <<>>
          /\ Return(c)
          /\ UNCHANGED <<found, live>>

Next ==
  \E c \in Cpu :
    \/ CallMalloc(c) \/ CallMemalign(c) \/ CallFree(c) \/ CallSetup(c)
    \/ CompareHead(c) \/ CallDeregister(c)
    \/ AcquireLock(c)
    \/ Search(c) \/ Carve(c) \/ Free(c) \/ Setup(c) \/ Deregister(c)

Spec == Init /\ [][Next]_vars

----------------------------------------------------------------------------
Location == {"diag", "compare", "lock", "inside", "carve", "failed"}
Request ==
  [op : {"none", "deregister"}] \cup [op : {"free"}, ptr : Nat]
    \cup [op : {"malloc"}, n : Bytes, align : Nat] \cup [op : {"setup"}, range : HeapRange]
Header == [size : Nat, used : BOOLEAN, next : Nat]

TypeOK ==
  /\ head \in Nat /\ last \in Nat /\ size \in Nat /\ setupDone \in BOOLEAN
  /\ DOMAIN chunk \subseteq Nat /\ chunk \in [DOMAIN chunk -> Header]
  /\ lock \in Cpu \cup {NoCpu}
  /\ pc \in [Cpu -> Location] /\ req \in [Cpu -> Request] /\ found \in [Cpu -> Nat]
  /\ live \subseteq [ptr : Nat, want : Nat]

(* The chunks are laid end to end from the head to the end of the heap,    *)
(* whatever has been split and merged, and next is always the chunk that   *)
(* starts where this one stops: no byte of the heap is ever lost.          *)
Tiles ==
  IF ~setupDone THEN head = NULL /\ chunk = <<>>
  ELSE /\ head \in DOMAIN chunk
       /\ \A a \in DOMAIN chunk :
            LET stop == Payload(a) + chunk[a].size IN
            /\ a >= head
            /\ IF stop = head + size THEN chunk[a].next = NULL
                                     ELSE chunk[a].next = stop /\ stop \in DOMAIN chunk
            /\ \A b \in DOMAIN chunk : b > a => b >= stop

(* Two free chunks are never neighbours: free merges both ways, and what a *)
(* split leaves over is never next to a free chunk.                        *)
NoTwoFree ==
  \A a \in FreeChunks : chunk[a].next # NULL => chunk[a].next \in UsedChunks

(* last_allocated, which the next search starts from, is a used chunk of   *)
(* the list as long as there is one: never a header that was merged away.  *)
LastIsUsed == IF UsedChunks = {} THEN last = NULL ELSE last \in UsedChunks

(* The list is sound in all three ways at once.                            *)
ListSound == Tiles /\ NoTwoFree /\ LastIsUsed

(* Pointers the diag holds or is giving back.                              *)
BeingFreed == {c \in Cpu : req[c].op = "free"}

(* Each pointer the diag holds is a used chunk of its own, as large as was *)
(* asked; one that is being freed still is one, so the tests in free are   *)
(* passed; and every used chunk has a pointer to it, so none has leaked.   *)
PointersValid ==
  /\ \A b \in live : /\ b.ptr - Metadata \in UsedChunks
                     /\ chunk[b.ptr - Metadata].size >= b.want
  /\ \A c \in BeingFreed : req[c].ptr - Metadata \in UsedChunks
  /\ Cardinality(UsedChunks) = Cardinality(live) + Cardinality(BeingFreed)

(* The CPU that holds the lock is inside a call that will release it or    *)
(* has failed in one, and no one is inside without it.                     *)
LockMatches ==
  \A c \in Cpu :
    /\ pc[c] \in {"inside", "carve"} => lock = c
    /\ lock = c => pc[c] \in {"inside", "carve", "failed"}

(* malloc returns 0 only when no place is left for the block and a header: *)
(* wherever the search started, and however the heap was cut up before.    *)
Taken == UNION {a .. (Payload(a) + chunk[a].size - 1) : a \in UsedChunks}
Room(n) ==
  \E at \in head .. (head + size - n - Metadata) :
    Taken \cap (at .. (at + n + Metadata - 1)) = {}
NullOnlyWhenFull ==
  [][\A c \in Cpu :
       pc[c] = "inside" /\ req[c].op = "malloc" /\ req[c].align = 1 /\ pc'[c] = "diag"
         => ~Room(AlignToMinAlloc(req[c].n))]_vars

(* The heap is an allocator: blocks lie apart and stay put.                *)
Promise == INSTANCE Allocator WITH
  Regions <- {r.from .. (r.to - 1) : r \in HeapRange},
  region <- IF setupDone THEN head .. (head + size - 1) ELSE {},
  blocks <- {[at |-> Payload(a), len |-> chunk[a].size] : a \in UsedChunks}
ImplementsAllocator == Promise!Spec

(* heap.smode.c:330: "Verify the heap address matches what was previously  *)
(* set up": a CPU that sets up the range every CPU sets up has no address  *)
(* to disagree with.                                                       *)
SameRangeNeverFails ==
  \A c \in Cpu : pc[c] = "failed" => req[c].op # "setup"
=============================================================================
