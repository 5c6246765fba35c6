----------------------------- MODULE HeapProofs -----------------------------
(***************************************************************************)
(* Proofs about the heap for any CPUs, ranges, sizes and alignments: the   *)
(* lock admits one CPU at a time, the list of chunks stays sound through   *)
(* every split and merge, and what the heap does is what an allocator may  *)
(* do.                                                                     *)
(***************************************************************************)
EXTENDS Heap, FiniteSetTheorems, WellFoundedInduction, TLAPS

(***************************************************************************)
(* The list invariant of the specification, of any list cs of chunks from  *)
(* address h to h + s; a split, a merge and a mark are then one lemma each.*)
(***************************************************************************)
ListTyped(cs) == DOMAIN cs \subseteq Nat \ {NULL} /\ cs \in [DOMAIN cs -> Header]
Stop(cs, a) == Payload(a) + cs[a].size
LaidOut(cs, h, s, a) ==
  /\ a >= h /\ Payload(a) < h + s /\ Stop(cs, a) <= h + s
  /\ IF Stop(cs, a) = h + s THEN cs[a].next = NULL
                            ELSE cs[a].next = Stop(cs, a) /\ Stop(cs, a) \in DOMAIN cs
  /\ \A b \in DOMAIN cs : b > a => b >= Stop(cs, a)
Tiled(cs, h, s) == h \in DOMAIN cs /\ \A a \in DOMAIN cs : LaidOut(cs, h, s, a)
(* Chunk a is free only between chunks that are used. *)
Alone(cs, a) == ~cs[a].used /\ cs[a].next # NULL => cs[cs[a].next].used

LEMMA ChunkFacts ==
  ASSUME NEW cs, ListTyped(cs), NEW a \in DOMAIN cs
  PROVE  /\ a \in Nat /\ a # NULL /\ cs[a] \in Header
         /\ cs[a].size \in Nat /\ cs[a].used \in BOOLEAN /\ cs[a].next \in Nat
         /\ Payload(a) \in Nat /\ Stop(cs, a) \in Nat
         /\ Payload(a) = a + 2 /\ Stop(cs, a) = a + 2 + cs[a].size
<1>1. a \in Nat /\ a # NULL /\ cs[a] \in Header
  BY DEF ListTyped
<1> QED
  BY <1>1 DEF Header, Payload, Metadata, Stop

(* The next of a chunk that has one starts where the chunk stops.          *)
LEMMA NextFacts ==
  ASSUME NEW cs, ListTyped(cs), NEW h \in Nat, NEW s \in Nat, Tiled(cs, h, s),
         NEW a \in DOMAIN cs, cs[a].next # NULL
  PROVE  /\ cs[a].next \in DOMAIN cs /\ cs[a].next = Stop(cs, a) /\ cs[a].next > a
         /\ \A x \in DOMAIN cs : cs[x].next = cs[a].next => x = a
<1>1. ASSUME NEW x \in DOMAIN cs, cs[x].next # NULL
      PROVE  cs[x].next \in DOMAIN cs /\ cs[x].next = Stop(cs, x)
  BY <1>1 DEF Tiled, LaidOut
<1>2. cs[a].next > a
  BY <1>1, ChunkFacts
<1>3. ASSUME NEW x \in DOMAIN cs, cs[x].next = cs[a].next
      PROVE  x = a
  <2>1. Stop(cs, x) = Stop(cs, a)
    BY <1>1, <1>3
  <2>2. x \in Nat /\ a \in Nat /\ Stop(cs, a) \in Nat /\ Stop(cs, x) > x /\ Stop(cs, a) > a
    BY ChunkFacts
  <2>3. (x > a => x >= Stop(cs, a)) /\ (a > x => a >= Stop(cs, x))
    BY DEF Tiled, LaidOut
  <2> QED
    BY <2>1, <2>2, <2>3
<1> QED
  BY <1>1, <1>2, <1>3

(* What each leaves as it was, and what not.                               *)
Marked(ds, cs, a, u) ==
  /\ DOMAIN ds = DOMAIN cs /\ ds[a].used = u
  /\ \A x \in DOMAIN cs : /\ ds[x].size = cs[x].size /\ ds[x].next = cs[x].next
                          /\ x # a => ds[x] = cs[x]
Split(ds, cs, a, b, rest) ==
  /\ DOMAIN ds = DOMAIN cs \cup {b} /\ b \notin DOMAIN cs
  /\ ds[a].next = b /\ ds[a].used = cs[a].used
  /\ ds[b] = [size |-> rest, used |-> FALSE, next |-> cs[a].next]
  /\ \A x \in DOMAIN cs : x # a => ds[x] = cs[x]
Merged(ds, cs, a) ==
  /\ DOMAIN ds = DOMAIN cs \ {cs[a].next} /\ a \in DOMAIN ds
  /\ ds[a].next = cs[cs[a].next].next /\ ds[a].used = cs[a].used
  /\ \A x \in DOMAIN ds : x # a => ds[x] = cs[x]

IsMarked(ds, cs, a, u) == ds = [cs EXCEPT ![a].used = u]
IsSplit(ds, cs, a, b, rest) == ds = SplitAt(cs, a, b, rest)
IsMerged(ds, cs, a) == ds = Merge(cs, a)

LEMMA MarkKeeps ==
  ASSUME NEW cs, ListTyped(cs), NEW h \in Nat, NEW s \in Nat, Tiled(cs, h, s),
         NEW a \in DOMAIN cs, NEW u \in BOOLEAN, NEW ds, IsMarked(ds, cs, a, u)
  PROVE  ListTyped(ds) /\ Tiled(ds, h, s) /\ Marked(ds, cs, a, u)
<1>1. ds = [cs EXCEPT ![a].used = u]
  BY DEF IsMarked
<1>2. DOMAIN ds = DOMAIN cs
  BY <1>1
<1>3. \A x \in DOMAIN cs : cs[x] \in Header
  BY ChunkFacts
<1>4. ds[a] = [cs[a] EXCEPT !.used = u] /\ \A x \in DOMAIN cs : x # a => ds[x] = cs[x]
  BY <1>1
<1>5. ds[a].used = u /\ ds[a].size = cs[a].size /\ ds[a].next = cs[a].next /\ ds[a] \in Header
  BY <1>3, <1>4 DEF Header
<1>6. \A x \in DOMAIN cs : /\ ds[x].size = cs[x].size /\ ds[x].next = cs[x].next
                           /\ Stop(ds, x) = Stop(cs, x) /\ ds[x] \in Header
  BY <1>3, <1>4, <1>5 DEF Stop
<1>7. ListTyped(ds)
  <2>1. ds = [x \in DOMAIN ds |-> ds[x]]
    BY <1>1
  <2> QED
    BY <1>2, <1>6, <2>1 DEF ListTyped
<1>8. Tiled(ds, h, s)
  BY <1>2, <1>6 DEF Tiled, LaidOut
<1> QED
  BY <1>2, <1>4, <1>5, <1>6, <1>7, <1>8 DEF Marked

LEMMA Resized ==
  ASSUME NEW r \in Header, NEW n \in Nat, NEW m \in Nat
  PROVE  [r EXCEPT !.size = n, !.next = m] = [size |-> n, used |-> r.used, next |-> m]
<1> DEFINE e == [r EXCEPT !.size = n, !.next = m]
<1>1. r = [f \in {"size", "used", "next"} |-> r[f]]
  BY DEF Header
<1>2. DOMAIN e = {"size", "used", "next"} /\ e = [f \in DOMAIN e |-> e[f]]
  BY <1>1
<1>3. e.size = n /\ e.next = m /\ e.used = r.used
  BY <1>1
<1>4. [size |-> n, used |-> r.used, next |-> m]
        = [f \in {"size", "used", "next"} |->
             IF f = "size" THEN n ELSE IF f = "used" THEN r.used ELSE m]
  OBVIOUS
<1> HIDE DEF e
<1>5. e = [f \in {"size", "used", "next"} |->
             IF f = "size" THEN n ELSE IF f = "used" THEN r.used ELSE m]
  BY <1>2, <1>3
<1> QED
  BY <1>4, <1>5 DEF e

(* A chunk is cut in two at b.                                             *)
LEMMA SplitKeeps ==
  ASSUME NEW cs, ListTyped(cs), NEW h \in Nat, NEW s \in Nat, Tiled(cs, h, s),
         NEW a \in DOMAIN cs, NEW b \in Nat, NEW rest \in Nat \ {0},
         b >= Payload(a), Payload(b) + rest = Stop(cs, a),
         NEW ds, IsSplit(ds, cs, a, b, rest)
  PROVE  ListTyped(ds) /\ Tiled(ds, h, s) /\ Split(ds, cs, a, b, rest)
<1>1. /\ a \in Nat /\ cs[a] \in Header /\ cs[a].size \in Nat /\ cs[a].next \in Nat
      /\ Payload(a) = a + 2 /\ Stop(cs, a) = a + 2 + cs[a].size
  BY ChunkFacts
<1>2. b > a /\ b + 2 + rest = Stop(cs, a) /\ b - Payload(a) \in Nat /\ b # NULL
  BY <1>1 DEF Payload, Metadata, NULL
<1>3. b \notin DOMAIN cs
  <2>1. b \in DOMAIN cs => b >= Stop(cs, a)
    BY <1>2 DEF Tiled, LaidOut
  <2> QED
    BY <1>2, <2>1
<1>4. /\ DOMAIN ds = DOMAIN cs \cup {b}
      /\ ds[a] = [cs[a] EXCEPT !.size = b - Payload(a), !.next = b]
      /\ ds[b] = [size |-> rest, used |-> FALSE, next |-> cs[a].next]
      /\ \A x \in DOMAIN cs : x # a => ds[x] = cs[x]
  BY <1>3 DEF SplitAt, IsSplit
<1>5. /\ ds[a] \in Header /\ ds[a].size = b - Payload(a) /\ ds[a].next = b
      /\ ds[a].used = cs[a].used /\ ds[b] \in Header
  <2>1. [size |-> rest, used |-> FALSE, next |-> cs[a].next] \in Header
    BY <1>1 DEF Header
  <2>2. PICK n \in Nat : n = b - Payload(a)
    BY <1>2
  <2>3. [cs[a] EXCEPT !.size = n, !.next = b]
          = [size |-> n, used |-> cs[a].used, next |-> b]
    BY <1>1, Resized
  <2>4. ds[a] = [size |-> n, used |-> cs[a].used, next |-> b]
    BY <1>4, <2>2, <2>3
  <2>5. cs[a].used \in BOOLEAN
    BY ChunkFacts
  <2> QED
    BY <1>4, <2>1, <2>2, <2>4, <2>5 DEF Header
<1>6. Stop(ds, a) = b /\ Stop(ds, b) = Stop(cs, a)
      /\ \A x \in DOMAIN cs : x # a => Stop(ds, x) = Stop(cs, x)
  BY <1>1, <1>2, <1>4, <1>5 DEF Stop, Payload, Metadata
<1>7. ListTyped(ds)
  <2>1. \A x \in DOMAIN ds : ds[x] \in Header /\ x \in Nat \ {NULL}
    <3>1. \A x \in DOMAIN cs : cs[x] \in Header /\ x \in Nat \ {NULL}
      BY ChunkFacts
    <3> QED
      BY <1>1, <1>2, <1>4, <1>5, <3>1
  <2>2. ds = [x \in DOMAIN ds |-> ds[x]]
    BY DEF SplitAt, IsSplit
  <2> QED
    BY <2>1, <2>2 DEF ListTyped
<1>8. \A x \in DOMAIN cs : LaidOut(cs, h, s, x) /\ x \in Nat /\ Stop(cs, x) \in Nat
  BY ChunkFacts DEF Tiled
<1>9. LaidOut(ds, h, s, a)
  BY <1>1, <1>2, <1>4, <1>5, <1>6, <1>8 DEF LaidOut
<1>10. LaidOut(ds, h, s, b)
  <2>1. b >= h /\ Payload(b) < h + s /\ Stop(ds, b) <= h + s
    BY <1>1, <1>2, <1>6, <1>8 DEF LaidOut, Payload, Metadata
  <2> QED
    BY <1>1, <1>2, <1>4, <1>6, <1>8, <2>1 DEF LaidOut
<1>11. ASSUME NEW x \in DOMAIN cs, x # a PROVE LaidOut(ds, h, s, x)
  <2>1. b > x => b >= Stop(cs, x)
    BY <1>1, <1>2, <1>8, <1>11 DEF LaidOut
  <2> QED
    BY <1>4, <1>6, <1>8, <1>11, <2>1 DEF LaidOut
<1>12. Tiled(ds, h, s)
  BY <1>4, <1>9, <1>10, <1>11 DEF Tiled
<1> QED
  BY <1>3, <1>4, <1>5, <1>7, <1>12 DEF Split

(* A chunk takes in the one that follows it.                               *)
LEMMA MergeKeeps ==
  ASSUME NEW cs, ListTyped(cs), NEW h \in Nat, NEW s \in Nat, Tiled(cs, h, s),
         NEW a \in DOMAIN cs, cs[a].next # NULL, NEW ds, IsMerged(ds, cs, a)
  PROVE  ListTyped(ds) /\ Tiled(ds, h, s) /\ Merged(ds, cs, a)
<1> DEFINE b == cs[a].next
<1>1. b \in DOMAIN cs /\ b = Stop(cs, a) /\ b > a
      /\ \A x \in DOMAIN cs : cs[x].next = b => x = a
  BY NextFacts
<1>2. /\ a \in Nat /\ b \in Nat /\ cs[a] \in Header /\ cs[b] \in Header
      /\ cs[a].size \in Nat /\ cs[b].size \in Nat /\ cs[b].next \in Nat
      /\ Stop(cs, a) = a + 2 + cs[a].size /\ Stop(cs, b) = b + 2 + cs[b].size
  BY <1>1, ChunkFacts
<1>3. /\ DOMAIN ds = DOMAIN cs \ {b} /\ a \in DOMAIN ds
      /\ ds[a] = [cs[a] EXCEPT !.size = @ + Metadata + cs[b].size, !.next = cs[b].next]
      /\ \A x \in DOMAIN ds : x # a => ds[x] = cs[x]
  BY <1>1, <1>2 DEF Merge, IsMerged
<1> HIDE DEF b
<1>4. /\ ds[a] \in Header /\ ds[a].size = cs[a].size + 2 + cs[b].size
      /\ ds[a].next = cs[b].next /\ ds[a].used = cs[a].used
  <2>1. PICK n \in Nat : n = cs[a].size + 2 + cs[b].size
    BY <1>2
  <2>2. ds[a] = [cs[a] EXCEPT !.size = n, !.next = cs[b].next]
    BY <1>3, <2>1 DEF Metadata
  <2>3. [cs[a] EXCEPT !.size = n, !.next = cs[b].next]
          = [size |-> n, used |-> cs[a].used, next |-> cs[b].next]
    BY <1>2, Resized
  <2>4. cs[a].used \in BOOLEAN
    BY ChunkFacts
  <2> QED
    BY <1>2, <2>1, <2>2, <2>3, <2>4 DEF Header
<1>5. Stop(ds, a) = Stop(cs, b) /\ \A x \in DOMAIN ds : x # a => Stop(ds, x) = Stop(cs, x)
  BY <1>1, <1>2, <1>3, <1>4 DEF Stop, Payload, Metadata
<1>6. ListTyped(ds)
  <2>1. \A x \in DOMAIN ds : ds[x] \in Header /\ x \in Nat \ {NULL}
    BY <1>3, <1>4, ChunkFacts
  <2>2. ds = [x \in DOMAIN ds |-> ds[x]]
    BY DEF Merge, IsMerged
  <2> QED
    BY <2>1, <2>2 DEF ListTyped
<1>7. \A x \in DOMAIN cs : LaidOut(cs, h, s, x) /\ x \in Nat /\ Stop(cs, x) \in Nat
  BY ChunkFacts DEF Tiled
<1>8. LaidOut(ds, h, s, a)
  <2>1. b \in DOMAIN cs /\ Stop(cs, b) # b
    BY <1>1, <1>2
  <2>2. a >= h /\ Payload(a) < h + s /\ Stop(ds, a) <= h + s
    BY <1>1, <1>5, <1>7 DEF LaidOut
  <2>3. IF Stop(ds, a) = h + s THEN ds[a].next = NULL
                               ELSE ds[a].next = Stop(ds, a) /\ Stop(ds, a) \in DOMAIN ds
    BY <1>1, <1>3, <1>4, <1>5, <1>7, <2>1 DEF LaidOut
  <2>4. ASSUME NEW x \in DOMAIN ds, x > a PROVE x >= Stop(ds, a)
    <3>1. x \in DOMAIN cs /\ x # b /\ x >= b
      BY <1>1, <1>3, <1>7, <2>4 DEF LaidOut
    <3> QED
      BY <1>1, <1>2, <1>5, <1>7, <3>1 DEF LaidOut
  <2> QED
    BY <2>2, <2>3, <2>4 DEF LaidOut
<1>9. ASSUME NEW x \in DOMAIN ds, x # a PROVE LaidOut(ds, h, s, x)
  <2>1. cs[x].next # b /\ x \in DOMAIN cs
    BY <1>1, <1>3, <1>9
  <2> QED
    BY <1>3, <1>5, <1>7, <1>9, <2>1 DEF LaidOut
<1>10. h \in DOMAIN ds
  <2>1. h \in DOMAIN cs /\ b # h
    BY <1>1, <1>2, <1>7 DEF Tiled, LaidOut
  <2> QED
    BY <1>3, <2>1
<1>11. Tiled(ds, h, s)
  BY <1>8, <1>9, <1>10 DEF Tiled
<1> QED
  BY <1>3, <1>4, <1>6, <1>11 DEF b, Merged

----------------------------------------------------------------------------
(***************************************************************************)
(* The inductive invariant: the list is sound, one CPU is inside at most,  *)
(* and the chunk a search has ended at still fits when it is carved.       *)
(***************************************************************************)
InList == IF setupDone THEN Tiled(chunk, head, size)
                      ELSE head = NULL /\ size = 0 /\ chunk = <<>>
ListInv == /\ ListTyped(chunk) /\ InList /\ LastIsUsed
           /\ \A a \in DOMAIN chunk : Alone(chunk, a)
FoundFits(c) ==
  /\ req[c].op = "malloc" /\ found[c] \in FreeChunks
  /\ Fits(found[c], AlignToMinAlloc(req[c].n), req[c].align)
RequestsReal ==
  \A c \in Cpu :
    /\ req[c].op = "malloc" => req[c].align # 0
    /\ pc[c] = "carve" => FoundFits(c)
IInv == TypeOK /\ LockMatches /\ ListInv /\ RequestsReal

LEMMA InListFacts ==
  ASSUME IInv, NEW a \in DOMAIN chunk
  PROVE  setupDone /\ Tiled(chunk, head, size) /\ head \in Nat /\ size \in Nat
<1>1. chunk # <<>>
  OBVIOUS
<1> QED
  BY <1>1 DEF IInv, ListInv, InList, TypeOK

LEMMA MallocTyped ==
  ASSUME NEW q \in Request, q.op = "malloc"
  PROVE  q.n \in Nat /\ q.align \in Nat
BY BytesAssumption DEF Request

LEMMA AlignToMinAllocTyped ==
  ASSUME NEW n \in Nat
  PROVE  AlignToMinAlloc(n) \in Nat
BY DEF AlignToMinAlloc

(* An aligned start is the payload's, or leaves room for a chunk.          *)
LEMMA AlignedStartFacts ==
  ASSUME NEW a \in Nat, NEW al \in Nat \ {0}
  PROVE  /\ AlignedStart(a, al) \in Nat
         /\ AlignedStart(a, al) = Payload(a) \/ AlignedStart(a, al) >= Payload(a) + 3
<1>1. ASSUME NEW x \in Nat PROVE RoundUp(x, al) \in Nat /\ RoundUp(x, al) >= x
  BY DEF RoundUp
<1>2. PICK x \in Nat : x = Payload(a) + 3 /\ Payload(a) \in Nat
  BY DEF Payload, Metadata
<1>3. Payload(a) + MinSegment = x
  BY <1>2 DEF MinSegment, Metadata
<1> QED
  BY <1>1, <1>2, <1>3 DEF AlignedStart

(* A step that leaves the heap alone: a call that begins or gives up, the  *)
(* lock taken, or a return empty-handed.                                   *)
LEMMA QuietKeeps ==
  ASSUME IInv, NEW c \in Cpu, NEW l \in Location \ {"carve"},
         UNCHANGED <<heapVars, found>>, Goto(c, l),
         req' \in [Cpu -> Request], \A d \in Cpu \ {c} : req'[d] = req[d],
         req'[c].op = "malloc" => req'[c].align # 0,
         live' \subseteq [ptr : Nat, want : Nat],
         \/ lock' = lock /\ pc[c] \in {"diag", "compare"} /\ l # "inside"
         \/ lock' = lock /\ pc[c] \in {"inside", "carve"} /\ l = "failed"
         \/ lock = NoCpu /\ lock' = c /\ l = "inside"
         \/ pc[c] \in {"inside", "carve"} /\ lock' = NoCpu /\ l = "diag"
  PROVE  IInv'
<1> USE DEF IInv
<1>1. /\ pc \in [Cpu -> Location] /\ pc'[c] = l /\ pc' \in [Cpu -> Location]
      /\ \A d \in Cpu \ {c} : pc'[d] = pc[d]
  BY DEF TypeOK, Goto
<1>2. /\ head' = head /\ last' = last /\ size' = size /\ setupDone' = setupDone
      /\ chunk' = chunk /\ found' = found
  BY DEF heapVars
<1>3. lock' \in Cpu \cup {NoCpu}
  BY DEF TypeOK
<1>4. TypeOK'
  BY <1>1, <1>2, <1>3 DEF TypeOK
<1>5. LockMatches'
  BY <1>1, CpuAssumption DEF LockMatches
<1>6. ListInv'
  BY <1>2 DEF ListInv, InList, LastIsUsed, UsedChunks, Used
<1>7. RequestsReal'
  BY <1>1, <1>2 DEF RequestsReal, FoundFits, FreeChunks, UsedChunks, Used, Fits
<1> QED
  BY <1>4, <1>5, <1>6, <1>7

(* A step that changes the heap and returns.                               *)
LEMMA ReturnKeeps ==
  ASSUME IInv, NEW c \in Cpu, pc[c] \in {"inside", "carve"}, Return(c), ListInv',
         head' \in Nat, size' \in Nat, setupDone' \in BOOLEAN, last' \in Nat,
         found' \in [Cpu -> Nat], \A d \in Cpu \ {c} : found'[d] = found[d],
         live' \subseteq [ptr : Nat, want : Nat]
  PROVE  IInv'
<1> USE DEF IInv
<1>1. /\ pc' \in [Cpu -> Location] /\ pc'[c] = "diag" /\ \A d \in Cpu \ {c} : pc'[d] = pc[d]
      /\ req' \in [Cpu -> Request] /\ req'[c] = Idle /\ \A d \in Cpu \ {c} : req'[d] = req[d]
      /\ lock' = NoCpu
  <2>1. Idle \in Request /\ "diag" \in Location
    BY DEF Idle, Request, Location
  <2> QED
    BY <2>1 DEF TypeOK, Return, Goto, ReleaseLock
<1>2. \A d \in Cpu \ {c} : pc[d] \notin {"inside", "carve"}
  BY DEF LockMatches
<1>3. DOMAIN chunk' \subseteq Nat /\ chunk' \in [DOMAIN chunk' -> Header]
  BY DEF ListInv, ListTyped
<1>4. TypeOK'
  BY <1>1, <1>3 DEF TypeOK
<1>5. LockMatches'
  BY <1>1, <1>2, CpuAssumption DEF LockMatches
<1>6. Idle.op # "malloc"
  BY DEF Idle
<1>7. RequestsReal'
  BY <1>1, <1>2, <1>6 DEF RequestsReal
<1> QED
  BY <1>4, <1>5, <1>7

LEMMA CallKeeps ==
  ASSUME IInv, NEW c \in Cpu,
         CallMalloc(c) \/ CallMemalign(c) \/ CallFree(c) \/ CallSetup(c)
           \/ CompareHead(c) \/ CallDeregister(c) \/ AcquireLock(c)
  PROVE  IInv'
<1> USE DEF IInv
<1>1. req \in [Cpu -> Request] /\ live \subseteq [ptr : Nat, want : Nat]
  BY DEF TypeOK
<1>2. req[c].op = "malloc" => req[c].align # 0
  BY DEF RequestsReal
<1>3. ASSUME NEW r \in Request, NEW l \in {"lock", "failed", "compare"}, Call(c, r, l),
             UNCHANGED <<heapVars, lock, found>>, live' \subseteq live,
             r.op = "malloc" => r.align # 0
      PROVE  IInv'
  <2>1. pc[c] = "diag" /\ Goto(c, l) /\ req' = [req EXCEPT ![c] = r] /\ l \in Location \ {"carve"}
    BY <1>3 DEF Call, Location
  <2>2. /\ req' \in [Cpu -> Request] /\ req'[c] = r
        /\ \A d \in Cpu \ {c} : req'[d] = req[d]
    BY <1>1, <2>1
  <2> QED
    BY <1>1, <1>3, <2>1, <2>2, QuietKeeps
<1>4. CASE CallMalloc(c)
  <2>1. PICK n \in Bytes : Call(c, [op |-> "malloc", n |-> n, align |-> 1],
                                IF IsValidHeap /\ n # 0 THEN "lock" ELSE "failed")
    BY <1>4 DEF CallMalloc
  <2>2. [op |-> "malloc", n |-> n, align |-> 1] \in Request
    BY DEF Request
  <2> QED
    BY <1>3, <1>4, <2>1, <2>2 DEF CallMalloc
<1>5. CASE CallMemalign(c)
  <2>1. PICK n \in Bytes, al \in Alignment :
          Call(c, [op |-> "malloc", n |-> n, align |-> IF al <= 8 THEN 1 ELSE al \div 8],
               IF IsValidHeap /\ (al <= 8 => n # 0) THEN "lock" ELSE "failed")
    BY <1>5 DEF CallMemalign
  <2>2. PICK k \in Nat \ {0} : k = IF al <= 8 THEN 1 ELSE al \div 8
    <3>1. al \in Nat
      BY BytesAssumption
    <3> QED
      BY <3>1
  <2>3. [op |-> "malloc", n |-> n, align |-> k] \in Request
    BY DEF Request
  <2> QED
    BY <1>3, <1>5, <2>1, <2>2, <2>3 DEF CallMemalign
<1>6. CASE CallFree(c)
  <2>1. PICK b \in live : /\ Call(c, [op |-> "free", ptr |-> b.ptr],
                                  IF IsValidHeap THEN "lock" ELSE "failed")
                          /\ live' = live \ {b}
    BY <1>6 DEF CallFree
  <2>2. [op |-> "free", ptr |-> b.ptr] \in Request
    BY <1>1 DEF Request
  <2> QED
    BY <1>3, <1>6, <2>1, <2>2 DEF CallFree
<1>7. CASE CallSetup(c)
  <2>1. PICK r \in HeapRange : Call(c, [op |-> "setup", range |-> r],
                                    IF setupDone THEN "compare" ELSE "lock")
    BY <1>7 DEF CallSetup
  <2>2. [op |-> "setup", range |-> r] \in Request
    BY DEF Request
  <2> QED
    BY <1>3, <1>7, <2>1, <2>2 DEF CallSetup
<1>8. CASE CallDeregister(c)
  <2>1. [op |-> "deregister"] \in Request
    BY DEF Request
  <2> QED
    BY <1>3, <1>8, <2>1 DEF CallDeregister
<1>9. CASE CompareHead(c)
  <2>1. Idle \in Request /\ Idle.op # "malloc"
    BY DEF Idle, Request
  <2>2. /\ req' \in [Cpu -> Request] /\ \A d \in Cpu \ {c} : req'[d] = req[d]
        /\ req'[c].op = "malloc" => req'[c].align # 0
    BY <1>1, <1>2, <1>9, <2>1 DEF CompareHead
  <2>3. PICK l \in {"diag", "failed"} : Goto(c, l)
    BY <1>9 DEF CompareHead
  <2> QED
    BY <1>1, <1>9, <2>2, <2>3, QuietKeeps DEF CompareHead, Location
<1>10. CASE AcquireLock(c)
  BY <1>1, <1>2, <1>10, QuietKeeps DEF AcquireLock, Location
<1> QED
  BY <1>4, <1>5, <1>6, <1>7, <1>8, <1>9, <1>10

----------------------------------------------------------------------------
(* The search ends at a chunk that fits, or has none to end at.            *)

Less == {ss \in Nat \X Nat : ss[1] < ss[2]}

LEMMA MinFacts ==
  ASSUME NEW N \in SUBSET Nat, N # {}
  PROVE  Min(N) \in N /\ \A y \in N : Min(N) <= y
<1>1. OpToRel(<, Nat) = Less
  BY Zenon DEF OpToRel, Less
<1>2. PICK x \in N : \A y \in N : <<y, x>> \notin Less
  BY <1>1, NatLessThanWellFounded, WFMin
<1>3. ASSUME NEW y \in N PROVE x <= y
  <2>1. x \in Nat /\ y \in Nat
    OBVIOUS
  <2>2. y < x => <<y, x>> \in Less
    BY <2>1 DEF Less
  <2> QED
    BY <1>2, <2>1, <2>2
<1> QED
  BY <1>3 DEF Min

LEMMA MaxFacts ==
  ASSUME NEW top \in Nat, NEW N \in SUBSET (0..top), N # {}
  PROVE  Max(N) \in N /\ \A y \in N : y <= Max(N)
<1> DEFINE Distance == {top - k : k \in N}
<1>1. \A k \in N : top - k \in Nat /\ k \in Nat
  OBVIOUS
<1>2. PICK k \in N : TRUE
  OBVIOUS
<1>3. Distance \in SUBSET Nat /\ Distance # {}
  BY <1>1, <1>2
<1>4. Min(Distance) \in Distance /\ \A y \in Distance : Min(Distance) <= y
  BY <1>3, MinFacts
<1>5. PICK n \in N : Min(Distance) = top - n
  BY <1>4
<1>6. ASSUME NEW j \in N PROVE n >= j
  <2>1. top - n <= top - j
    BY <1>4, <1>5
  <2> QED
    BY <1>1, <2>1
<1> QED
  BY <1>6 DEF Max

LEMMA FirstFromFacts ==
  ASSUME NEW N \in SUBSET (Nat \ {NULL}), NEW start
  PROVE  IF N = {} THEN FirstFrom(N, start) = NULL ELSE FirstFrom(N, start) \in N
<1>1. CASE N = {}
  BY <1>1 DEF FirstFrom
<1>2. CASE N # {}
  <2> DEFINE ahead == {a \in N : a >= start}
             pool == IF ahead # {} THEN ahead ELSE N
  <2>1. pool \in SUBSET Nat /\ pool # {} /\ pool \subseteq N
    BY <1>2
  <2>2. FirstFrom(N, start) = Min(pool)
    BY <1>2 DEF FirstFrom
  <2> HIDE DEF pool
  <2> QED
    BY <1>2, <2>1, <2>2, MinFacts
<1> QED
  BY <1>1, <1>2

LEMMA SearchKeeps ==
  ASSUME IInv, NEW c \in Cpu, Search(c)
  PROVE  IInv'
<1> USE DEF IInv
<1> DEFINE n == AlignToMinAlloc(req[c].n)
           fits == {x \in FreeChunks : Fits(x, n, req[c].align)}
<1>1. PICK a : a = FirstFrom(fits, SearchStart)
  OBVIOUS
<1>2. pc[c] = "inside" /\ req[c].op = "malloc" /\ UNCHANGED <<heapVars, live>>
  BY DEF Search
<1>3. /\ pc \in [Cpu -> Location] /\ req \in [Cpu -> Request] /\ found \in [Cpu -> Nat]
      /\ live \subseteq [ptr : Nat, want : Nat]
  BY DEF TypeOK
<1>4. CASE a = NULL
  <2>1. /\ lock' = NoCpu /\ Goto(c, "diag") /\ req' = [req EXCEPT ![c] = Idle] /\ found' = found
    BY <1>1, <1>4 DEF Search, ReleaseUnfound, ReleaseLock
  <2>2. Idle \in Request /\ Idle.op # "malloc"
    BY DEF Idle, Request
  <2>3. req' \in [Cpu -> Request] /\ req'[c] = Idle /\ \A d \in Cpu \ {c} : req'[d] = req[d]
    BY <1>3, <2>1, <2>2
  <2> QED
    BY <1>2, <1>3, <2>1, <2>2, <2>3, QuietKeeps DEF Location
<1>5. CASE a # NULL
  <2>1. /\ found' = [found EXCEPT ![c] = a] /\ Goto(c, "carve") /\ lock' = lock /\ req' = req
        /\ chunk' = chunk /\ live' = live
    BY <1>1, <1>2, <1>5 DEF Search, heapVars
  <2>2. a \in fits
    <3>1. fits \in SUBSET (Nat \ {NULL})
      BY DEF FreeChunks, ListInv, ListTyped
    <3> HIDE DEF fits
    <3> QED
      BY <1>1, <1>5, <3>1, FirstFromFacts
  <2>3. a \in Nat
    BY <2>2 DEF FreeChunks, ListInv, ListTyped
  <2>4. /\ pc' \in [Cpu -> Location] /\ pc'[c] = "carve"
        /\ \A d \in Cpu \ {c} : pc'[d] = pc[d]
        /\ found' \in [Cpu -> Nat] /\ found'[c] = a
        /\ \A d \in Cpu \ {c} : found'[d] = found[d]
    BY <1>3, <2>1, <2>3 DEF Goto, Location
  <2>5. TypeOK'
    BY <1>2, <2>1, <2>4 DEF TypeOK, heapVars
  <2>6. LockMatches'
    BY <1>2, <2>1, <2>4 DEF LockMatches
  <2>7. ListInv'
    BY <1>2 DEF heapVars, ListInv, InList, LastIsUsed, UsedChunks, Used
  <2>8. FoundFits(c)'
    BY <1>2, <2>1, <2>2, <2>4 DEF FoundFits, FreeChunks, UsedChunks, Used, Fits
  <2>9. ASSUME NEW d \in Cpu \ {c}, pc'[d] = "carve" PROVE FoundFits(d)'
    BY <2>1, <2>4, <2>9 DEF RequestsReal, FoundFits, FreeChunks, UsedChunks, Used, Fits
  <2>10. RequestsReal'
    BY <2>1, <2>8, <2>9 DEF RequestsReal
  <2> QED
    BY <2>5, <2>6, <2>7, <2>10
<1> QED
  BY <1>4, <1>5

----------------------------------------------------------------------------
(* Carving: one block more, the others as they were.                       *)

UsedIn(cs) == {x \in DOMAIN cs : cs[x].used}

(* Chunk a is about to be used: its own neighbours need not be.            *)
AloneBut(cs, a) ==
  \A x \in DOMAIN cs : ~cs[x].used /\ cs[x].next \notin {NULL, a} => cs[cs[x].next].used

LEMMA CutInFront ==
  ASSUME IInv, NEW whole \in FreeChunks, NEW a \in Nat,
         a = whole \/ (a >= whole + 3 /\ Payload(a) < Stop(chunk, whole)),
         NEW cs, cs = (IF a = whole THEN chunk
                       ELSE SplitAt(chunk, whole, a, Stop(chunk, whole) - Payload(a)))
  PROVE  /\ ListTyped(cs) /\ Tiled(cs, head, size) /\ AloneBut(cs, a)
         /\ a \in DOMAIN cs /\ ~cs[a].used /\ Stop(cs, a) = Stop(chunk, whole)
         /\ UsedIn(cs) = UsedChunks /\ \A x \in UsedChunks : cs[x] = chunk[x]
<1> USE DEF IInv
<1>1. /\ whole \in DOMAIN chunk /\ ~chunk[whole].used
      /\ Tiled(chunk, head, size) /\ head \in Nat /\ size \in Nat /\ ListTyped(chunk)
      /\ \A x \in DOMAIN chunk : Alone(chunk, x)
  BY InListFacts DEF FreeChunks, UsedChunks, Used, ListInv
<1>2. CASE a = whole
  BY <1>1, <1>2 DEF Alone, AloneBut, UsedIn, UsedChunks, Used
<1>3. CASE a # whole
  <2>1. PICK rest \in Nat \ {0} : rest = Stop(chunk, whole) - Payload(a)
    BY <1>1, <1>3, ChunkFacts DEF Payload, Metadata
  <2>2. a >= Payload(whole) /\ Payload(a) + rest = Stop(chunk, whole)
    BY <1>1, <1>3, <2>1, ChunkFacts DEF Payload, Metadata
  <2>3. IsSplit(cs, chunk, whole, a, rest)
    BY <1>3, <2>1 DEF IsSplit
  <2>4. ListTyped(cs) /\ Tiled(cs, head, size) /\ Split(cs, chunk, whole, a, rest)
    BY <1>1, <2>2, <2>3, SplitKeeps
  <2>5. /\ DOMAIN cs = DOMAIN chunk \cup {a} /\ a \notin DOMAIN chunk
        /\ cs[whole].next = a /\ cs[whole].used = chunk[whole].used
        /\ cs[a] = [size |-> rest, used |-> FALSE, next |-> chunk[whole].next]
        /\ \A x \in DOMAIN chunk : x # whole => cs[x] = chunk[x]
    BY <2>4 DEF Split
  <2>6. UsedIn(cs) = UsedChunks /\ \A x \in UsedChunks : cs[x] = chunk[x]
    BY <1>1, <2>5 DEF UsedIn, UsedChunks, Used
  <2>7. Stop(cs, a) = Stop(chunk, whole)
    BY <2>2, <2>5 DEF Stop
  <2>8. ASSUME NEW x \in DOMAIN chunk, ~chunk[x].used, chunk[x].next # NULL
        PROVE  /\ chunk[x].next \in DOMAIN chunk /\ chunk[chunk[x].next].used
               /\ cs[chunk[x].next].used
    <3>1. chunk[x].next \in DOMAIN chunk
      BY <1>1, <2>8, NextFacts
    <3>2. chunk[chunk[x].next].used
      BY <1>1, <2>8 DEF Alone
    <3> QED
      BY <1>1, <2>5, <3>1, <3>2
  <2>9. AloneBut(cs, a)
    BY <1>1, <2>5, <2>8 DEF AloneBut
  <2> QED
    BY <2>4, <2>5, <2>6, <2>7, <2>9
<1> QED
  BY <1>2, <1>3

IsTrimmed(es, cs, a, n) ==
  es = [(IF ~SplitWorthIt(cs[a].size, n) THEN cs
         ELSE SplitAt(cs, a, Payload(a) + n, RestAfter(cs[a].size, n))) EXCEPT ![a].used = TRUE]
Trimmed(es, cs, a, n) ==
  /\ \A x \in DOMAIN es : Alone(es, x)
  /\ a \in DOMAIN es /\ es[a].size >= n
  /\ UsedIn(es) = UsedIn(cs) \cup {a} /\ \A x \in UsedIn(cs) : es[x] = cs[x]

LEMMA TrimKeeps ==
  ASSUME NEW cs, ListTyped(cs), NEW h \in Nat, NEW s \in Nat, Tiled(cs, h, s),
         NEW a \in DOMAIN cs, AloneBut(cs, a), ~cs[a].used,
         NEW n \in Nat, cs[a].size >= n, NEW es, IsTrimmed(es, cs, a, n)
  PROVE  ListTyped(es) /\ Tiled(es, h, s) /\ Trimmed(es, cs, a, n)
<1>1. PICK ds : ds = IF ~SplitWorthIt(cs[a].size, n) THEN cs
                     ELSE SplitAt(cs, a, Payload(a) + n, RestAfter(cs[a].size, n))
  OBVIOUS
<1>2. es = [ds EXCEPT ![a].used = TRUE]
  BY <1>1 DEF IsTrimmed
<1>3. /\ a \in Nat /\ cs[a].size \in Nat /\ cs[a].next \in Nat
      /\ Payload(a) = a + 2 /\ Stop(cs, a) = a + 2 + cs[a].size
  BY ChunkFacts
<1>4. ASSUME NEW x \in DOMAIN cs, cs[x].next # NULL
      PROVE  cs[x].next \in DOMAIN cs /\ cs[x].next # x /\ cs[x].next \in Nat
  BY <1>4, NextFacts, ChunkFacts
<1>5. CASE ~SplitWorthIt(cs[a].size, n)
  <2>1. ds = cs /\ ListTyped(ds) /\ Tiled(ds, h, s) /\ a \in DOMAIN ds /\ IsMarked(es, ds, a, TRUE)
    BY <1>5, <1>1, <1>2 DEF IsMarked
  <2>2. ListTyped(es) /\ Tiled(es, h, s) /\ Marked(es, ds, a, TRUE)
    BY <2>1, MarkKeeps
  <2>3. /\ DOMAIN es = DOMAIN cs /\ es[a].used
        /\ \A x \in DOMAIN cs : /\ es[x].size = cs[x].size /\ es[x].next = cs[x].next
                                /\ x # a => es[x] = cs[x]
    BY <2>2, <2>1 DEF Marked
  <2>4. \A x \in DOMAIN es : Alone(es, x)
    BY <1>4, <2>3 DEF Alone, AloneBut
  <2>5. UsedIn(es) = UsedIn(cs) \cup {a} /\ \A x \in UsedIn(cs) : es[x] = cs[x]
    BY <2>3 DEF UsedIn
  <2> QED
    BY <2>2, <2>3, <2>4, <2>5 DEF Trimmed
<1>6. CASE SplitWorthIt(cs[a].size, n)
  <2>1. PICK rest \in Nat \ {0} : rest = RestAfter(cs[a].size, n)
    BY <1>3, <1>6 DEF SplitWorthIt, RestAfter, MinSegment, Metadata
  <2>2. PICK b \in Nat : b = Payload(a) + n
    BY <1>3
  <2>3. b >= Payload(a) /\ Payload(b) + rest = Stop(cs, a)
    BY <1>3, <1>6, <2>1, <2>2 DEF SplitWorthIt, RestAfter, MinSegment, Metadata, Payload
  <2>4. IsSplit(ds, cs, a, b, rest)
    BY <1>6, <1>1, <2>1, <2>2 DEF IsSplit
  <2>5. ListTyped(ds) /\ Tiled(ds, h, s) /\ Split(ds, cs, a, b, rest)
    BY <2>3, <2>4, SplitKeeps
  <2>6. /\ DOMAIN ds = DOMAIN cs \cup {b} /\ b \notin DOMAIN cs
        /\ ds[a].next = b /\ ds[a].used = cs[a].used
        /\ ds[b] = [size |-> rest, used |-> FALSE, next |-> cs[a].next]
        /\ \A x \in DOMAIN cs : x # a => ds[x] = cs[x]
    BY <2>5 DEF Split
  <2>7. ListTyped(es) /\ Tiled(es, h, s) /\ Marked(es, ds, a, TRUE)
    <3>1. a \in DOMAIN ds /\ IsMarked(es, ds, a, TRUE)
      BY <1>2, <2>6 DEF IsMarked
    <3> QED
      BY <2>5, <3>1, MarkKeeps
  <2>8. /\ DOMAIN es = DOMAIN ds /\ es[a].used
        /\ \A x \in DOMAIN ds : /\ es[x].size = ds[x].size /\ es[x].next = ds[x].next
                                /\ x # a => es[x] = ds[x]
    BY <2>7 DEF Marked
  <2>9. ds[a].size = n
    <3>1. cs[a] \in Header
      BY ChunkFacts
    <3>2. ds[a] = [cs[a] EXCEPT !.size = b - Payload(a), !.next = b]
      BY <2>4, <2>6 DEF SplitAt, IsSplit
    <3>3. b - Payload(a) = n
      BY <1>3, <2>2
    <3>4. ds[a] = [size |-> n, used |-> cs[a].used, next |-> b]
      BY <3>1, <3>2, <3>3, Resized
    <3> QED
      BY <3>4
  <2>10. b # a /\ es[b].next = cs[a].next /\ ~es[b].used
    BY <2>6, <2>8
  <2>11. \A x \in DOMAIN es : Alone(es, x)
    <3> SUFFICES ASSUME NEW x \in DOMAIN es, ~es[x].used, es[x].next # NULL
                 PROVE  es[es[x].next].used
      BY DEF Alone
    <3>1. CASE x = b
      BY <1>4, <2>6, <2>8, <2>10, <3>1 DEF AloneBut
    <3>2. CASE x # b
      <4>1. x \in DOMAIN cs /\ x # a /\ es[x] = cs[x]
        BY <2>6, <2>8, <3>2
      <4> QED
        BY <1>4, <2>6, <2>8, <4>1 DEF AloneBut
    <3> QED
      BY <3>1, <3>2
  <2>12. UsedIn(es) = UsedIn(cs) \cup {a} /\ \A x \in UsedIn(cs) : es[x] = cs[x]
    BY <2>6, <2>8, <2>10 DEF UsedIn
  <2>13. a \in DOMAIN es /\ es[a].size >= n
    BY <2>6, <2>8, <2>9
  <2> QED
    BY <2>11, <2>12, <2>7, <2>13 DEF Trimmed
<1> QED
  BY <1>5, <1>6

(* What a carved block, at a for n units, does to the heap.                *)
Carved(a, n) ==
  /\ setupDone /\ a \in Nat /\ a \notin UsedChunks
  /\ ListTyped(chunk') /\ Tiled(chunk', head, size) /\ \A x \in DOMAIN chunk' : Alone(chunk', x)
  /\ UsedChunks' = UsedChunks \cup {a} /\ \A x \in UsedChunks : chunk'[x] = chunk[x]
  /\ n \in Nat /\ a \in DOMAIN chunk' /\ chunk'[a].size >= n
  /\ last' = a /\ live' = live \cup {[ptr |-> Payload(a), want |-> n]}

LEMMA CarveFacts ==
  ASSUME IInv, NEW c \in Cpu, Carve(c)
  PROVE  \E a, n : Carved(a, n)
<1> USE DEF IInv
<1>1. PICK whole : whole = found[c]
  OBVIOUS
<1>2. PICK al : al = req[c].align
  OBVIOUS
<1>3. PICK n : n = AlignToMinAlloc(req[c].n)
  OBVIOUS
<1>4. /\ req[c].op = "malloc" /\ whole \in FreeChunks /\ Fits(whole, n, al)
  BY <1>1, <1>2, <1>3 DEF Carve, RequestsReal, FoundFits
<1>5. al \in Nat \ {0} /\ n \in Nat
  <2>1. req[c] \in Request /\ al # 0
    BY <1>2, <1>4 DEF TypeOK, RequestsReal
  <2> QED
    BY <1>2, <1>3, <1>4, <2>1, MallocTyped, AlignToMinAllocTyped
<1>6. /\ whole \in DOMAIN chunk /\ setupDone /\ head \in Nat /\ size \in Nat
      /\ ListTyped(chunk) /\ Tiled(chunk, head, size)
  BY <1>4, InListFacts DEF FreeChunks, ListInv
<1>7. /\ whole \in Nat /\ chunk[whole].size \in Nat /\ Payload(whole) = whole + 2
      /\ Stop(chunk, whole) = whole + 2 + chunk[whole].size
  BY <1>6, ChunkFacts
<1>8. PICK start \in Nat : start = AlignedStart(whole, al)
  BY <1>5, <1>7, AlignedStartFacts
<1>9. start = whole + 2 \/ start >= whole + 5
  BY <1>5, <1>7, <1>8, AlignedStartFacts
<1>10. PICK a \in Nat : a = start - Metadata
  BY <1>7, <1>9 DEF Metadata
<1>11. Payload(a) = start /\ (a = whole \/ a >= whole + 3)
  BY <1>7, <1>9, <1>10 DEF Payload, Metadata
<1>12. /\ chunk[whole].size >= n
       /\ a = whole \/ (start < Stop(chunk, whole) /\ start + n <= Stop(chunk, whole))
  BY <1>4, <1>7, <1>8, <1>10 DEF Fits, Enough, Stop, Payload, Metadata
<1> DEFINE cs == IF a = whole THEN chunk
                 ELSE SplitAt(chunk, whole, a, Stop(chunk, whole) - Payload(a))
           ds == IF ~SplitWorthIt(cs[a].size, n) THEN cs
                 ELSE SplitAt(cs, a, Payload(a) + n, RestAfter(cs[a].size, n))
           es == [ds EXCEPT ![a].used = TRUE]
<1>13. /\ chunk' = es /\ last' = a /\ live' = live \cup {[ptr |-> Payload(a), want |-> n]}
  <2>1. last' = a /\ live' = live \cup {[ptr |-> Payload(a), want |-> n]}
    BY <1>1, <1>2, <1>3, <1>8, <1>10 DEF Carve
  <2>2. chunk' = es
    <3> DEFINE first == AlignedStart(found[c], req[c].align) - Metadata
               front == IF first = found[c] THEN chunk
                        ELSE SplitAt(chunk, found[c], first,
                               Payload(found[c]) + chunk[found[c]].size - Payload(first))
               m == AlignToMinAlloc(req[c].n)
               trimmed == IF ~SplitWorthIt(front[first].size, m) THEN front
                          ELSE SplitAt(front, first, Payload(first) + m,
                                       RestAfter(front[first].size, m))
    <3>1. chunk' = [trimmed EXCEPT ![first].used = TRUE]
      BY DEF Carve
    <3>2. first = a /\ found[c] = whole /\ m = n
      BY <1>1, <1>2, <1>3, <1>8, <1>10
    <3> HIDE DEF first
    <3>3. front = cs
      <4>1. Payload(found[c]) + chunk[found[c]].size - Payload(first)
              = Stop(chunk, whole) - Payload(first)
        BY <1>7, <1>11, <3>2
      <4>2. front = IF first = found[c] THEN chunk
                    ELSE SplitAt(chunk, found[c], first, Stop(chunk, whole) - Payload(first))
        BY <4>1, Zenon
      <4> QED
        BY <3>2, <4>2
    <3> HIDE DEF front, m, cs
    <3>4. trimmed = ds
      BY <3>2, <3>3
    <3> HIDE DEF trimmed, ds
    <3> QED
      BY <3>1, <3>2, <3>4
  <2> QED
    BY <2>1, <2>2
<1>14. /\ ListTyped(cs) /\ Tiled(cs, head, size) /\ AloneBut(cs, a)
       /\ a \in DOMAIN cs /\ ~cs[a].used /\ Stop(cs, a) = Stop(chunk, whole)
       /\ UsedIn(cs) = UsedChunks /\ \A x \in UsedChunks : cs[x] = chunk[x]
  <2>1. a = whole \/ (a >= whole + 3 /\ Payload(a) < Stop(chunk, whole))
    BY <1>6, <1>7, <1>11, <1>12
  <2>2. PICK fs : fs = cs
    OBVIOUS
  <2>3. fs = (IF a = whole THEN chunk
              ELSE SplitAt(chunk, whole, a, Stop(chunk, whole) - Payload(a)))
    BY <2>2
  <2>4. /\ ListTyped(fs) /\ Tiled(fs, head, size) /\ AloneBut(fs, a)
        /\ a \in DOMAIN fs /\ ~fs[a].used /\ Stop(fs, a) = Stop(chunk, whole)
        /\ UsedIn(fs) = UsedChunks /\ \A x \in UsedChunks : fs[x] = chunk[x]
    BY <1>4, <2>1, <2>3, CutInFront
  <2> HIDE DEF cs
  <2> QED
    BY <2>2, <2>4
<1> HIDE DEF cs
<1>15. cs[a].size >= n
  <2>1. cs[a].size \in Nat /\ Stop(cs, a) = a + 2 + cs[a].size
    BY <1>14, ChunkFacts
  <2>2. a + 2 = start
    BY <1>11 DEF Payload, Metadata
  <2> QED
    BY <1>5, <1>7, <1>12, <1>14, <2>1, <2>2
<1>16. /\ ListTyped(es) /\ Tiled(es, head, size) /\ \A x \in DOMAIN es : Alone(es, x)
       /\ a \in DOMAIN es /\ es[a].size >= n
       /\ UsedIn(es) = UsedIn(cs) \cup {a} /\ \A x \in UsedIn(cs) : es[x] = cs[x]
  <2>1. IsTrimmed(es, cs, a, n)
    BY DEF IsTrimmed
  <2> HIDE DEF es
  <2>2. ListTyped(es) /\ Tiled(es, head, size) /\ Trimmed(es, cs, a, n)
    BY <1>5, <1>6, <1>14, <1>15, <2>1, TrimKeeps
  <2> QED
    BY <2>2 DEF Trimmed
<1> HIDE DEF es
<1>17. UsedChunks' = UsedIn(chunk') /\ a \notin UsedIn(cs)
  BY <1>14 DEF UsedChunks, Used, UsedIn
<1>18. Carved(a, n)
  BY <1>5, <1>6, <1>13, <1>14, <1>16, <1>17 DEF Carved
<1> QED
  BY <1>18

LEMMA CarveKeeps ==
  ASSUME IInv, NEW c \in Cpu, Carve(c)
  PROVE  IInv'
<1> USE DEF IInv
<1>1. PICK a, n : Carved(a, n)
  BY CarveFacts
<1>2. /\ pc[c] = "carve" /\ Return(c) /\ UNCHANGED <<head, size, setupDone>>
      /\ found' = [found EXCEPT ![c] = NULL]
  BY DEF Carve
<1>3. ListInv'
  BY <1>1, <1>2 DEF ListInv, InList, LastIsUsed, Carved
<1>4. found' \in [Cpu -> Nat] /\ \A d \in Cpu \ {c} : found'[d] = found[d]
  BY <1>2 DEF TypeOK, NULL
<1>5. live' \subseteq [ptr : Nat, want : Nat]
  <2>1. Payload(a) \in Nat /\ n \in Nat
    BY <1>1 DEF Carved, Payload, Metadata
  <2> QED
    BY <1>1, <2>1 DEF Carved, TypeOK
<1>6. head' \in Nat /\ size' \in Nat /\ setupDone' \in BOOLEAN /\ last' \in Nat
  BY <1>1, <1>2 DEF Carved, TypeOK
<1> QED
  BY <1>2, <1>3, <1>4, <1>5, <1>6, ReturnKeeps

----------------------------------------------------------------------------
(* Freeing: one block less, the others as they were.                       *)

Released(a) ==
  /\ ListTyped(chunk') /\ Tiled(chunk', head, size) /\ \A x \in DOMAIN chunk' : Alone(chunk', x)
  /\ UsedChunks' = UsedChunks \ {a} /\ \A x \in UsedChunks' : chunk'[x] = chunk[x]
  /\ last' \in Nat /\ IF UsedChunks' = {} THEN last' = NULL ELSE last' \in UsedChunks'

LEMMA ReleaseFacts ==
  ASSUME IInv, NEW a \in UsedChunks, Release(a)
  PROVE  Released(a)
<1> USE DEF IInv
<1>1. /\ a \in DOMAIN chunk /\ chunk[a].used
      /\ Tiled(chunk, head, size) /\ head \in Nat /\ size \in Nat /\ ListTyped(chunk)
      /\ \A x \in DOMAIN chunk : Alone(chunk, x)
  BY InListFacts DEF UsedChunks, Used, ListInv
<1>2. \A x \in DOMAIN chunk : chunk[x].next # NULL =>
        /\ chunk[x].next \in DOMAIN chunk /\ chunk[x].next # x
        /\ \A y \in DOMAIN chunk : chunk[y].next = chunk[x].next => y = x
  <2>1. ASSUME NEW x \in DOMAIN chunk, chunk[x].next # NULL
        PROVE  chunk[x].next \in DOMAIN chunk /\ chunk[x].next > x /\ x \in Nat
               /\ \A y \in DOMAIN chunk : chunk[y].next = chunk[x].next => y = x
    BY <1>1, <2>1, NextFacts, ChunkFacts
  <2> QED
    BY <2>1
<1> DEFINE ms == [chunk EXCEPT ![a].used = FALSE]
           nxt == chunk[a].next
           joins == nxt # NULL /\ nxt \in FreeAmong(ms)
           os == IF joins THEN Merge(ms, a) ELSE ms
           b == IF FreePrevious(a) = {} THEN a ELSE CHOOSE p \in FreePrevious(a) : TRUE
           fs == IF b = a THEN os ELSE Merge(os, b)
<1>3. chunk' = fs /\ last' = IF LastAfter(a) = NULL THEN Replacement(chunk', b) ELSE LastAfter(a)
  BY DEF Release
<1>4. IsMarked(ms, chunk, a, FALSE) /\ (joins => IsMerged(os, ms, a)) /\ (~joins => os = ms)
  BY DEF IsMarked, IsMerged
<1>5. (b # a => IsMerged(fs, os, b)) /\ (b = a => fs = os)
  BY DEF IsMerged
<1>6. b # a => b \in FreePrevious(a)
  OBVIOUS
<1>7. b = a => FreePrevious(a) = {}
  BY <1>1 DEF FreePrevious, FreeChunks, UsedChunks, Used
<1>8. joins <=> nxt # NULL /\ nxt \in DOMAIN ms /\ ~ms[nxt].used
  BY DEF FreeAmong
<1> HIDE DEF ms, joins, os, b, fs
<1>9. ListTyped(ms) /\ Tiled(ms, head, size) /\ Marked(ms, chunk, a, FALSE)
  BY <1>1, <1>4, MarkKeeps
<1>10. /\ DOMAIN ms = DOMAIN chunk /\ ~ms[a].used
       /\ \A x \in DOMAIN chunk : /\ ms[x].size = chunk[x].size /\ ms[x].next = chunk[x].next
                                  /\ x # a => ms[x] = chunk[x]
  BY <1>9 DEF Marked
<1>11. joins => ListTyped(os) /\ Tiled(os, head, size) /\ Merged(os, ms, a)
  <2> SUFFICES ASSUME joins PROVE ListTyped(os) /\ Tiled(os, head, size) /\ Merged(os, ms, a)
    OBVIOUS
  <2>1. a \in DOMAIN ms /\ ms[a].next # NULL
    BY <1>1, <1>8, <1>10
  <2> QED
    BY <1>1, <1>4, <1>9, <2>1, MergeKeeps
(* The list with a freed and what follows it taken in. *)
<1>12. /\ ListTyped(os) /\ Tiled(os, head, size) /\ a \in DOMAIN os /\ ~os[a].used
       /\ DOMAIN os \subseteq DOMAIN chunk
       /\ \A x \in DOMAIN os : x # a => os[x] = chunk[x]
       /\ \A x \in DOMAIN chunk : x \notin DOMAIN os => ~chunk[x].used /\ x = nxt
       /\ os[a].next # NULL => /\ os[a].next \in DOMAIN os /\ os[a].next # a
                               /\ os[os[a].next].used
  <2>1. CASE joins
    <3>1. /\ DOMAIN os = DOMAIN chunk \ {nxt} /\ a \in DOMAIN os
          /\ os[a].next = ms[nxt].next /\ ~os[a].used
          /\ \A x \in DOMAIN os : x # a => os[x] = ms[x]
      BY <1>1, <1>10, <1>11, <2>1 DEF Merged
    <3>2. nxt \in DOMAIN chunk /\ nxt # a /\ ~chunk[nxt].used
      BY <1>1, <1>8, <1>10, <2>1, <3>1
    <3>3. ms[nxt] = chunk[nxt]
      BY <1>10, <3>2
    <3>4. os[a].next # NULL => /\ os[a].next \in DOMAIN chunk /\ os[a].next # nxt
                               /\ chunk[os[a].next].used
      BY <1>1, <1>2, <3>1, <3>2, <3>3 DEF Alone
    <3>5. os[a].next # NULL => os[a].next # a
      <4>1. ListTyped(os) /\ Tiled(os, head, size) /\ head \in Nat /\ size \in Nat /\ a \in Nat
        BY <1>1, <1>11, <2>1, ChunkFacts
      <4> QED
        BY <3>1, <4>1, NextFacts
    <3> QED
      BY <1>10, <1>11, <2>1, <3>1, <3>2, <3>4, <3>5
  <2>2. CASE ~joins
    <3>1. os = ms
      BY <1>4, <2>2
    <3>2. nxt # NULL => nxt \in DOMAIN ms /\ nxt # a /\ ms[nxt].used
      BY <1>1, <1>2, <1>8, <1>10, <2>2
    <3> QED
      BY <1>1, <1>9, <1>10, <3>1, <3>2
  <2> QED
    BY <2>1, <2>2
<1>13. b # a => /\ b \in DOMAIN chunk /\ ~chunk[b].used /\ chunk[b].next = a /\ b \in DOMAIN os
  <2> SUFFICES ASSUME b # a
               PROVE  b \in DOMAIN chunk /\ ~chunk[b].used /\ chunk[b].next = a /\ b \in DOMAIN os
    OBVIOUS
  <2>1. b \in DOMAIN chunk /\ ~chunk[b].used /\ chunk[b].next = a
    BY <1>6 DEF FreePrevious, FreeChunks, UsedChunks, Used
  <2>2. b # nxt
    <3>1. b < a
      BY <1>1, <2>1, NextFacts, ChunkFacts DEF ListTyped
    <3>2. nxt # NULL => nxt > a
      BY <1>1, NextFacts
    <3>3. b \in Nat /\ a \in Nat /\ b # NULL
      BY <1>1, <2>1, ChunkFacts
    <3> QED
      BY <3>1, <3>2, <3>3
  <2> QED
    BY <1>12, <2>1, <2>2
<1>14. b # a => ListTyped(fs) /\ Tiled(fs, head, size) /\ Merged(fs, os, b)
  <2> SUFFICES ASSUME b # a PROVE ListTyped(fs) /\ Tiled(fs, head, size) /\ Merged(fs, os, b)
    OBVIOUS
  <2>1. b \in DOMAIN os /\ os[b].next # NULL
    BY <1>1, <1>12, <1>13 DEF ListTyped
  <2> QED
    BY <1>1, <1>5, <1>12, <2>1, MergeKeeps
<1>15. /\ ListTyped(fs) /\ Tiled(fs, head, size) /\ b \in DOMAIN fs /\ ~fs[b].used
       /\ DOMAIN fs \subseteq DOMAIN chunk
       /\ \A x \in DOMAIN fs : x # b => fs[x] = chunk[x] /\ x # a
       /\ \A x \in DOMAIN chunk : x \notin DOMAIN fs => ~chunk[x].used \/ x = a
       /\ fs[b].next # NULL => fs[b].next \in DOMAIN fs /\ fs[b].next # b /\ fs[fs[b].next].used
  <2>1. CASE b = a
    BY <1>5, <1>12, <2>1
  <2>2. CASE b # a
    <3>1. os[b] = chunk[b] /\ os[b].next = a
      BY <1>12, <1>13, <2>2
    <3>2. /\ DOMAIN fs = DOMAIN os \ {a} /\ b \in DOMAIN fs
          /\ fs[b].next = os[a].next /\ ~fs[b].used
          /\ \A x \in DOMAIN fs : x # b => fs[x] = os[x]
      BY <1>13, <1>14, <2>2, <3>1 DEF Merged
    <3>3. fs[b].next # NULL => fs[b].next \in DOMAIN fs /\ fs[b].next # b
      BY <1>12, <1>13, <2>2, <3>1, <3>2
    <3> QED
      BY <1>12, <1>14, <2>2, <3>2, <3>3
  <2> QED
    BY <2>1, <2>2
<1>16. UsedIn(fs) = UsedChunks \ {a} /\ \A x \in UsedIn(fs) : fs[x] = chunk[x]
  BY <1>1, <1>12, <1>13, <1>15 DEF UsedIn, UsedChunks, Used
<1>17. ASSUME NEW x \in DOMAIN fs PROVE Alone(fs, x)
  <2>1. CASE x = b
    BY <1>15, <2>1 DEF Alone
  <2>2. CASE x # b
    <3> SUFFICES ASSUME ~fs[x].used, fs[x].next # NULL PROVE fs[fs[x].next].used
      BY DEF Alone
    <3>1. x \in DOMAIN chunk /\ fs[x] = chunk[x] /\ ~chunk[x].used /\ chunk[x].next # NULL
      BY <1>15, <2>2
    <3>2. chunk[x].next \in DOMAIN chunk /\ chunk[chunk[x].next].used
      BY <1>1, <1>2, <3>1 DEF Alone
    <3>3. chunk[x].next # a
      <4>1. ASSUME chunk[x].next = a PROVE FALSE
        <5>1. x \in FreePrevious(a)
          BY <3>1, <4>1 DEF FreePrevious, FreeChunks, UsedChunks, Used
        <5>2. b # a
          BY <1>7, <5>1
        <5>3. chunk[b].next = a /\ b \in DOMAIN chunk
          BY <1>13, <5>2
        <5>4. b = x
          BY <1>2, <3>1, <4>1, <5>3
        <5> QED
          BY <2>2, <5>4
      <4> QED
        BY <4>1
    <3>4. chunk[x].next \in UsedIn(fs)
      BY <1>16, <3>2, <3>3 DEF UsedChunks, Used
    <3> QED
      BY <3>1, <3>4 DEF UsedIn
  <2> QED
    BY <2>1, <2>2
<1>18. UsedChunks' = UsedChunks \ {a}
  BY <1>3, <1>16 DEF UsedIn, UsedChunks, Used
<1>19. last' \in Nat /\ IF UsedChunks' = {} THEN last' = NULL ELSE last' \in UsedChunks'
  <2>1. last \in UsedChunks /\ UsedChunks \subseteq Nat \ {NULL}
    BY <1>1 DEF ListInv, LastIsUsed, UsedChunks, ListTyped
  <2>2. CASE last # a
    <3>1. last' = last
      BY <1>3, <2>1, <2>2 DEF LastAfter
    <3> QED
      BY <1>18, <2>1, <2>2, <3>1
  <2>3. CASE last = a
    <3> DEFINE used == UsedChunks \ {a}
               after == {x \in used : x > b}
    <3>1. last' = Replacement(fs, b)
      BY <1>3, <2>3 DEF LastAfter
    <3>2. DOMAIN fs \ FreeAmong(fs) = used
      BY <1>16 DEF UsedIn, FreeAmong
    <3>3. Replacement(fs, b) = IF after # {} THEN Min(after)
                               ELSE IF used # {} THEN Max(used) ELSE NULL
      BY <3>2 DEF Replacement
    <3>4. used \in SUBSET Nat /\ after \in SUBSET Nat /\ after \subseteq used
      BY <2>1
    <3>5. used \in SUBSET (0..head + size)
      <4>1. ASSUME NEW x \in UsedChunks PROVE x \in 0..head + size
        <5>1. x \in DOMAIN chunk
          BY DEF UsedChunks
        <5>2. Stop(chunk, x) <= head + size
          BY <1>1, <5>1 DEF Tiled, LaidOut
        <5> QED
          BY <1>1, <5>1, <5>2, ChunkFacts
      <4> QED
        BY <4>1
    <3> HIDE DEF used, after
    <3>6. after # {} => Min(after) \in used
      BY <3>4, MinFacts
    <3>7. used # {} => Max(used) \in used
      <4>1. head + size \in Nat
        BY <1>1
      <4> QED
        BY <3>5, <4>1, MaxFacts
    <3>8. last' \in Nat /\ IF used = {} THEN last' = NULL ELSE last' \in used
      <4>1. CASE used = {}
        <5>1. after = {}
          BY <3>4, <4>1
        <5> QED
          BY <3>1, <3>3, <4>1, <5>1 DEF NULL
      <4>2. CASE used # {}
        <5>1. last' \in used
          BY <3>1, <3>3, <3>6, <3>7, <4>2
        <5> QED
          BY <3>4, <4>2, <5>1
      <4> QED
        BY <4>1, <4>2
    <3> QED
      BY <1>18, <3>8 DEF used
  <2> QED
    BY <2>2, <2>3
<1> QED
  BY <1>3, <1>15, <1>16, <1>17, <1>18, <1>19 DEF Released

(* The places in free, setup_heap and deregister_heap that fail or find    *)
(* nothing to do.                                                          *)
LEMMA LeftAloneKeeps ==
  ASSUME IInv, NEW c \in Cpu, pc[c] = "inside",
         \/ FailLocked(c)
         \/ Return(c) /\ UNCHANGED <<heapVars, found, live>>
  PROVE  IInv'
<1> USE DEF IInv
<1>1. req \in [Cpu -> Request] /\ live \subseteq [ptr : Nat, want : Nat]
  BY DEF TypeOK
<1>2. CASE FailLocked(c)
  <2>1. req[c].op = "malloc" => req[c].align # 0
    BY DEF RequestsReal
  <2> QED
    BY <1>1, <1>2, <2>1, QuietKeeps DEF FailLocked, Location
<1>3. CASE Return(c) /\ UNCHANGED <<heapVars, found, live>>
  <2>1. Idle \in Request /\ Idle.op # "malloc"
    BY DEF Idle, Request
  <2>2. Goto(c, "diag") /\ lock' = NoCpu /\ req' = [req EXCEPT ![c] = Idle]
    BY <1>3 DEF Return, ReleaseLock
  <2>3. req' \in [Cpu -> Request] /\ req'[c] = Idle /\ \A d \in Cpu \ {c} : req'[d] = req[d]
    BY <1>1, <2>1, <2>2
  <2> QED
    BY <1>1, <1>3, <2>1, <2>2, <2>3, QuietKeeps DEF Location
<1> QED
  BY <1>2, <1>3

LEMMA FreeKeeps ==
  ASSUME IInv, NEW c \in Cpu, Free(c)
  PROVE  IInv'
<1> USE DEF IInv
<1>1. PICK a : a = req[c].ptr - Metadata
  OBVIOUS
<1>2. pc[c] = "inside"
  BY DEF Free
<1>3. CASE FailLocked(c) \/ (Return(c) /\ UNCHANGED <<heapVars, found, live>>)
  BY <1>2, <1>3, LeftAloneKeeps
<1>4. CASE /\ a \in UsedChunks /\ Release(a) /\ Return(c)
           /\ UNCHANGED <<head, size, setupDone, found, live>>
  <2>1. Released(a)
    BY <1>4, ReleaseFacts
  <2>2. setupDone
    BY <1>4, InListFacts DEF UsedChunks
  <2>3. ListInv'
    BY <1>4, <2>1, <2>2 DEF ListInv, InList, LastIsUsed, Released
  <2>4. /\ head' \in Nat /\ size' \in Nat /\ setupDone' \in BOOLEAN /\ last' \in Nat
        /\ found' \in [Cpu -> Nat] /\ found' = found /\ live' \subseteq [ptr : Nat, want : Nat]
    BY <1>4, <2>1 DEF TypeOK, Released
  <2> QED
    BY <1>2, <1>4, <2>3, <2>4, ReturnKeeps
<1> QED
  BY <1>1, <1>3, <1>4 DEF Free

(* What setting the heap up does: one free chunk from end to end.          *)
Opened(r) ==
  /\ r \in HeapRange /\ ~setupDone /\ setupDone'
  /\ head' = r.from /\ last' = NULL /\ size' = r.to - r.from
  /\ head' \in Nat \ {NULL} /\ size' \in Nat
  /\ ListTyped(chunk') /\ Tiled(chunk', head', size') /\ UsedChunks' = {}
  /\ \A a \in DOMAIN chunk' : Alone(chunk', a)

LEMMA SetupFacts ==
  ASSUME IInv, NEW c \in Cpu, Setup(c), ~setupDone
  PROVE  Opened(req[c].range) /\ Return(c) /\ found' = found /\ live' = live
<1> DEFINE r == req[c].range
           header == [size |-> r.to - r.from - Metadata, used |-> FALSE, next |-> NULL]
<1>1. r \in HeapRange
  <2>1. req[c] \in Request /\ req[c].op = "setup"
    BY DEF IInv, TypeOK, Setup
  <2> QED
    BY <2>1 DEF Request
<1>2. r.from \in Nat \ {NULL} /\ r.to \in Nat /\ r.to > r.from + 2
  BY <1>1, RangeAssumption
<1>3. /\ head' = r.from /\ last' = NULL /\ size' = r.to - r.from /\ setupDone'
      /\ chunk' = [a \in {r.from} |-> header]
      /\ Return(c) /\ found' = found /\ live' = live
  BY DEF Setup
<1>4. /\ header \in Header /\ header.size = r.to - r.from - 2 /\ ~header.used
      /\ header.next = NULL
  BY <1>2 DEF Header, Metadata, NULL
<1> HIDE DEF header, r
<1>5. DOMAIN chunk' = {r.from} /\ chunk'[r.from] = header
  BY <1>3
<1>6. ListTyped(chunk')
  BY <1>2, <1>3, <1>4, <1>5 DEF ListTyped
<1>7. head' = r.from /\ size' = r.to - r.from /\ head' \in Nat \ {NULL} /\ size' \in Nat
  BY <1>2, <1>3
<1>8. Payload(r.from) = r.from + 2 /\ Stop(chunk', r.from) = r.to /\ head' + size' = r.to
  BY <1>2, <1>4, <1>5, <1>7 DEF Payload, Stop, Metadata
<1>9. LaidOut(chunk', head', size', r.from)
  BY <1>2, <1>4, <1>5, <1>7, <1>8 DEF LaidOut
<1>10. Tiled(chunk', head', size')
  BY <1>5, <1>7, <1>9 DEF Tiled
<1>11. UsedChunks' = {} /\ \A a \in DOMAIN chunk' : Alone(chunk', a)
  BY <1>4, <1>5 DEF UsedChunks, Used, Alone
<1> QED
  BY <1>1, <1>3, <1>6, <1>7, <1>10, <1>11 DEF Opened, r

LEMMA SetupKeeps ==
  ASSUME IInv, NEW c \in Cpu, Setup(c)
  PROVE  IInv'
<1> USE DEF IInv
<1>1. pc[c] = "inside"
  BY DEF Setup
<1>2. CASE setupDone
  <2>1. FailLocked(c) \/ (Return(c) /\ UNCHANGED <<heapVars, found, live>>)
    BY <1>2 DEF Setup
  <2> QED
    BY <1>1, <2>1, LeftAloneKeeps
<1>3. CASE ~setupDone
  <2>1. Opened(req[c].range) /\ Return(c) /\ found' = found /\ live' = live
    BY <1>3, SetupFacts
  <2>2. ListInv'
    BY <2>1 DEF Opened, ListInv, InList, LastIsUsed
  <2>3. /\ head' \in Nat /\ size' \in Nat /\ setupDone' \in BOOLEAN /\ last' \in Nat
        /\ found' \in [Cpu -> Nat] /\ live' \subseteq [ptr : Nat, want : Nat]
    <3>1. setupDone' = TRUE
      BY <1>3 DEF Setup
    <3> QED
      BY <2>1, <3>1 DEF Opened, TypeOK, NULL
  <2> QED
    BY <1>1, <2>1, <2>2, <2>3, ReturnKeeps
<1> QED
  BY <1>2, <1>3

Closed ==
  /\ UsedChunks = {} /\ chunk' = <<>> /\ head' = NULL /\ last' = NULL /\ size' = 0
  /\ setupDone' = FALSE

LEMMA DeregisterKeeps ==
  ASSUME IInv, NEW c \in Cpu, Deregister(c)
  PROVE  IInv'
<1> USE DEF IInv
<1>1. pc[c] = "inside"
  BY DEF Deregister
<1>2. CASE FailLocked(c)
  BY <1>1, <1>2, LeftAloneKeeps
<1>3. CASE Closed /\ Return(c) /\ UNCHANGED <<found, live>>
  <2>1. DOMAIN chunk' = {} /\ ListTyped(chunk')
    BY <1>3 DEF Closed, ListTyped
  <2>2. ListInv'
    BY <1>3, <2>1 DEF Closed, ListInv, InList, LastIsUsed, UsedChunks
  <2>3. /\ head' \in Nat /\ size' \in Nat /\ setupDone' \in BOOLEAN /\ last' \in Nat
        /\ found' \in [Cpu -> Nat] /\ found' = found /\ live' \subseteq [ptr : Nat, want : Nat]
    BY <1>3 DEF Closed, TypeOK, NULL
  <2> QED
    BY <1>1, <1>3, <2>2, <2>3, ReturnKeeps
<1> QED
  BY <1>2, <1>3 DEF Deregister, InUse, Closed

----------------------------------------------------------------------------
LEMMA Inductive == IInv /\ [Next]_vars => IInv'
<1> SUFFICES ASSUME IInv, [Next]_vars PROVE IInv'
  OBVIOUS
<1>1. ASSUME NEW c \in Cpu,
             CallMalloc(c) \/ CallMemalign(c) \/ CallFree(c) \/ CallSetup(c)
               \/ CompareHead(c) \/ CallDeregister(c) \/ AcquireLock(c)
      PROVE  IInv'
  BY <1>1, CallKeeps
<1>2. ASSUME NEW c \in Cpu, Search(c) PROVE IInv'
  BY <1>2, SearchKeeps
<1>3. ASSUME NEW c \in Cpu, Carve(c) PROVE IInv'
  BY <1>3, CarveKeeps
<1>4. ASSUME NEW c \in Cpu, Free(c) PROVE IInv'
  BY <1>4, FreeKeeps
<1>5. ASSUME NEW c \in Cpu, Setup(c) PROVE IInv'
  BY <1>5, SetupKeeps
<1>6. ASSUME NEW c \in Cpu, Deregister(c) PROVE IInv'
  BY <1>6, DeregisterKeeps
<1>7. ASSUME UNCHANGED vars PROVE IInv'
  BY <1>7 DEF vars, heapVars, IInv, TypeOK, LockMatches, ListInv, InList, LastIsUsed, UsedChunks,
              Used, RequestsReal, FoundFits, FreeChunks, Fits
<1> QED
  BY <1>1, <1>2, <1>3, <1>4, <1>5, <1>6, <1>7 DEF Next

LEMMA InitIInv == Init => IInv
<1> SUFFICES ASSUME Init PROVE IInv
  OBVIOUS
<1>1. DOMAIN chunk = {} /\ chunk = <<>> /\ ListTyped(chunk)
  BY DEF Init, ListTyped
<1>2. TypeOK
  <2>1. Idle \in Request /\ "diag" \in Location
    BY DEF Idle, Request, Location
  <2>2. chunk \in [DOMAIN chunk -> Header] /\ DOMAIN chunk \subseteq Nat
    BY <1>1 DEF ListTyped
  <2> QED
    BY <2>1, <2>2 DEF Init, TypeOK, NULL
<1>3. LockMatches
  BY CpuAssumption DEF Init, LockMatches
<1>4. ListInv
  BY <1>1 DEF Init, ListInv, InList, LastIsUsed, UsedChunks
<1>5. RequestsReal
  BY DEF Init, RequestsReal, Idle
<1> QED
  BY <1>2, <1>3, <1>4, <1>5 DEF IInv

(* The invariant holds of every reachable state.                           *)
THEOREM Invariance == Spec => []IInv
BY InitIInv, Inductive, PTL DEF Spec

(* Every variable keeps its type, whatever is allocated and given back.    *)
THEOREM TypeCorrect == Spec => []TypeOK
<1>1. IInv => TypeOK
  BY DEF IInv
<1> QED
  BY <1>1, Invariance, PTL

(* heap.smode.c never has two CPUs between an acquire and its release, and *)
(* a lock is only ever held by a CPU inside a call or failed in one.       *)
THEOREM LockIsExclusive == Spec => []LockMatches
<1>1. IInv => LockMatches
  BY DEF IInv
<1> QED
  BY <1>1, Invariance, PTL

(* The list of chunks covers the heap from end to end, has no two free     *)
(* neighbours and a zallocated that is used, for any heap, any sizes   *)
(* and alignments, and any order of malloc, memalign and free.             *)
THEOREM ListIsSound == Spec => []ListSound
<1>1. ASSUME IInv PROVE Tiles
  <2>1. setupDone => Tiled(chunk, head, size)
    BY <1>1 DEF IInv, ListInv, InList
  <2> QED
    BY <1>1, <2>1 DEF IInv, ListInv, InList, Tiles, Tiled, LaidOut, Stop
<1>2. ASSUME IInv PROVE NoTwoFree
  <2> SUFFICES ASSUME NEW a \in FreeChunks, chunk[a].next # NULL
               PROVE  chunk[a].next \in UsedChunks
    BY DEF NoTwoFree
  <2>1. a \in DOMAIN chunk /\ ~chunk[a].used
    BY DEF FreeChunks, UsedChunks, Used
  <2>2. chunk[a].next \in DOMAIN chunk
    BY <1>2, <2>1, InListFacts, NextFacts DEF IInv, ListInv
  <2> QED
    BY <1>2, <2>1, <2>2 DEF IInv, ListInv, Alone, UsedChunks, Used
<1>3. IInv => ListSound
  BY <1>1, <1>2 DEF IInv, ListInv, ListSound
<1> QED
  BY <1>3, Invariance, PTL

----------------------------------------------------------------------------
(***************************************************************************)
(* A search that ends with nothing.  Free room for a block and a header    *)
(* lies in the chunk that starts last at or before it and in no other:     *)
(* that chunk is free, so the next one is not, and it is large enough.     *)
(***************************************************************************)
LEMMA RoomIsFound ==
  ASSUME IInv, NEW n \in Nat, Room(n)
  PROVE  \E a \in FreeChunks : Fits(a, n, 1)
<1> USE DEF IInv
<1>1. PICK at \in head .. (head + size - n - Metadata) :
         Taken \cap (at .. (at + n + Metadata - 1)) = {}
  BY DEF Room
<1>2. head \in Nat /\ size \in Nat
  BY DEF TypeOK
<1>3. PICK end \in Nat : end = head + size
  BY <1>2
<1>4. at \in Nat /\ head <= at /\ at + n + 2 <= end
  BY <1>1, <1>2, <1>3 DEF Metadata
<1>5. ListTyped(chunk) /\ Tiled(chunk, head, size)
  BY <1>2, <1>3, <1>4 DEF ListInv, InList, NULL
<1> DEFINE before == {x \in DOMAIN chunk : x <= at}
<1>6. PICK a \in before : \A x \in before : x <= a
  <2>1. before \in SUBSET (0..at) /\ head \in before
    BY <1>4, <1>5 DEF ListTyped, Tiled
  <2> QED
    BY <1>4, <2>1, MaxFacts
<1>7. PICK stop : stop = Stop(chunk, a)
  OBVIOUS
<1>8. /\ a \in DOMAIN chunk /\ a \in Nat /\ a <= at /\ stop \in Nat
      /\ chunk[a].size \in Nat /\ stop = a + 2 + chunk[a].size
  BY <1>5, <1>7, ChunkFacts
<1>9. stop # end => chunk[a].next = stop /\ stop \in DOMAIN chunk
  BY <1>3, <1>5, <1>7 DEF Tiled, LaidOut
<1>10. at < stop
  <2>1. stop <= at => stop \in before
    BY <1>4, <1>8, <1>9
  <2> QED
    BY <1>4, <1>6, <1>8, <2>1
<1>11. ASSUME NEW x \in UsedChunks
       PROVE  x..Stop(chunk, x) - 1 \cap at..at + n + 1 = {}
  <2>1. x..Stop(chunk, x) - 1 \subseteq Taken
    <3>1. PICK z : z = Payload(x) + chunk[x].size - 1
      OBVIOUS
    <3>2. x..z \subseteq Taken
      BY <3>1 DEF Taken
    <3>3. z = Stop(chunk, x) - 1
      <4>1. x \in DOMAIN chunk
        BY DEF UsedChunks
      <4> QED
        BY <1>5, <3>1, <4>1, ChunkFacts
    <3> QED
      BY <3>2, <3>3
  <2>2. at + n + Metadata - 1 = at + n + 1
    BY <1>4 DEF Metadata
  <2> QED
    BY <1>1, <2>1, <2>2
<1>12. a \in FreeChunks
  <2>1. at \in a..stop - 1 /\ at \in at..at + n + 1
    BY <1>4, <1>8, <1>10
  <2> QED
    BY <1>7, <1>8, <1>11, <2>1 DEF FreeChunks
<1>13. at + n + 2 <= stop
  <2> SUFFICES ASSUME stop < at + n + 2 PROVE FALSE
    BY <1>4, <1>8
  <2>1. chunk[a].next = stop /\ stop \in DOMAIN chunk /\ stop # NULL
    BY <1>3, <1>4, <1>5, <1>8, <1>9, ChunkFacts
  <2>2. stop \in UsedChunks
    BY <1>8, <1>12, <2>1 DEF ListInv, Alone, FreeChunks, UsedChunks, Used
  <2>3. Stop(chunk, stop) \in Nat /\ Stop(chunk, stop) >= stop + 2
    BY <1>5, <2>1, ChunkFacts
  <2>4. stop \in stop..Stop(chunk, stop) - 1 /\ stop \in at..at + n + 1
    BY <1>4, <1>8, <1>10, <2>3
  <2> QED
    BY <1>11, <2>2, <2>4
<1>14. Fits(a, n, 1)
  <2>1. Payload(a) \in Nat /\ Payload(a) % 1 = 0
    BY <1>8 DEF Payload, Metadata
  <2>2. AlignedStart(a, 1) = Payload(a)
    BY <2>1 DEF AlignedStart
  <2> QED
    BY <1>4, <1>8, <1>13, <2>2 DEF Fits, Enough
<1> QED
  BY <1>12, <1>14

(* Only a search that finds no chunk takes a malloc from the lock back to  *)
(* the diag.                                                               *)
LEMMA NothingFound ==
  ASSUME IInv, [Next]_vars, NEW c \in Cpu,
         pc[c] = "inside", req[c].op = "malloc", pc'[c] = "diag"
  PROVE  {a \in FreeChunks : Fits(a, AlignToMinAlloc(req[c].n), req[c].align)} = {}
<1> USE DEF IInv
<1>1. pc \in [Cpu -> Location]
  BY DEF TypeOK
<1>2. ASSUME NEW d \in Cpu, NEW l, Goto(d, l) PROVE d # c => pc'[c] = pc[c]
  BY <1>1, <1>2 DEF Goto
<1>3. Search(c)
  <2>1. ASSUME NEW d \in Cpu,
               CallMalloc(d) \/ CallMemalign(d) \/ CallFree(d) \/ CallSetup(d) \/ CallDeregister(d)
        PROVE  FALSE
    <3>1. pc[d] = "diag" /\ \E l : Goto(d, l)
      BY <2>1 DEF CallMalloc, CallMemalign, CallFree, CallSetup, CallDeregister, Call
    <3> QED
      BY <1>2, <3>1
  <2>2. ASSUME NEW d \in Cpu, CompareHead(d) \/ AcquireLock(d) PROVE FALSE
    BY <1>2, <2>2 DEF CompareHead, AcquireLock
  <2>3. ASSUME NEW d \in Cpu, Carve(d) PROVE FALSE
    BY <1>2, <2>3 DEF Carve, Return
  <2>4. ASSUME NEW d \in Cpu, Free(d) \/ Setup(d) \/ Deregister(d) PROVE FALSE
    BY <1>2, <2>4 DEF Free, Setup, Deregister, Return, FailLocked
  <2>5. ASSUME NEW d \in Cpu, Search(d) PROVE d = c
    BY <1>2, <2>5 DEF Search
  <2>6. pc' # pc
    OBVIOUS
  <2> QED
    BY <2>1, <2>2, <2>3, <2>4, <2>5, <2>6 DEF Next, vars
<1> DEFINE fits == {a \in FreeChunks : Fits(a, AlignToMinAlloc(req[c].n), req[c].align)}
<1>4. FirstFrom(fits, SearchStart) = NULL
  <2> SUFFICES ASSUME Goto(c, "carve") PROVE FALSE
    BY <1>3 DEF Search
  <2> QED
    BY <1>1 DEF Goto
<1>5. fits \in SUBSET (Nat \ {NULL})
  BY DEF ListInv, ListTyped, FreeChunks
<1> HIDE DEF fits
<1>6. fits = {}
  BY <1>4, <1>5, FirstFromFacts
<1> QED
  BY <1>6 DEF fits

(* malloc of heap.smode.c returns 0 only when nowhere in the heap there is *)
(* room for the block and a header, for any heap, any CPUs and sizes, and  *)
(* after any order of allocating and freeing: no free space is ever lost   *)
(* to the order in which blocks came and went, or to where a search starts.*)
THEOREM NullMeansFull == Spec => NullOnlyWhenFull
<1>1. IInv /\ [Next]_vars =>
        \A c \in Cpu :
          pc[c] = "inside" /\ req[c].op = "malloc" /\ req[c].align = 1 /\ pc'[c] = "diag"
            => ~Room(AlignToMinAlloc(req[c].n))
  <2> SUFFICES ASSUME IInv, [Next]_vars, NEW c \in Cpu, pc[c] = "inside",
                      req[c].op = "malloc", req[c].align = 1, pc'[c] = "diag"
               PROVE  ~Room(AlignToMinAlloc(req[c].n))
    OBVIOUS
  <2>1. AlignToMinAlloc(req[c].n) \in Nat
    <3>1. req[c] \in Request
      BY DEF IInv, TypeOK
    <3> QED
      BY <3>1, MallocTyped, AlignToMinAllocTyped
  <2> QED
    BY <2>1, NothingFound, RoomIsFound
<1> QED
  BY <1>1, Invariance, PTL DEF Spec, NullOnlyWhenFull

----------------------------------------------------------------------------
(* What the heap does, seen as regions and blocks.                         *)

HeapRegion == IF setupDone THEN head .. (head + size - 1) ELSE {}
Block(a) == [at |-> Payload(a), len |-> chunk[a].size]
HeapBlocks == {Block(a) : a \in UsedChunks}

(* Where the chunks of a list lie.                                         *)
LEMMA Places ==
  ASSUME NEW cs, ListTyped(cs), NEW h \in Nat, NEW s \in Nat, Tiled(cs, h, s), NEW a \in DOMAIN cs
  PROVE  /\ Payload(a) \in h .. (h + s - 1)
         /\ Payload(a) .. (Payload(a) + cs[a].size - 1) \subseteq h .. (h + s - 1)
         /\ \A b \in DOMAIN cs : b # a =>
              /\ Payload(b) # Payload(a)
              /\ (Payload(a) .. (Payload(a) + cs[a].size - 1))
                   \cap (Payload(b) .. (Payload(b) + cs[b].size - 1)) = {}
<1>1. \A b \in DOMAIN cs : /\ b \in Nat /\ cs[b].size \in Nat
                           /\ Payload(b) = b + 2 /\ Stop(cs, b) = b + 2 + cs[b].size
                           /\ LaidOut(cs, h, s, b)
  BY ChunkFacts DEF Tiled
<1>2. a >= h /\ Payload(a) < h + s /\ Stop(cs, a) <= h + s
  BY <1>1 DEF LaidOut
<1>3. Payload(a) \in h .. (h + s - 1)
  BY <1>1, <1>2
<1>4. ASSUME NEW x \in Payload(a) .. (Payload(a) + cs[a].size - 1) PROVE x \in h .. (h + s - 1)
  BY <1>1, <1>2
<1>5. ASSUME NEW b \in DOMAIN cs, b # a
      PROVE  /\ Payload(b) # Payload(a)
             /\ (Payload(a) .. (Payload(a) + cs[a].size - 1))
                  \cap (Payload(b) .. (Payload(b) + cs[b].size - 1)) = {}
  <2>1. b >= Stop(cs, a) \/ a >= Stop(cs, b)
    BY <1>1, <1>5 DEF LaidOut
  <2>2. Payload(b) # Payload(a)
    BY <1>1, <1>5
  <2>3. ASSUME NEW x \in Payload(a) .. (Payload(a) + cs[a].size - 1),
               x \in Payload(b) .. (Payload(b) + cs[b].size - 1)
        PROVE  FALSE
    BY <1>1, <2>1, <2>3
  <2> QED
    BY <2>2, <2>3
<1> QED
  BY <1>3, <1>4, <1>5

LEMMA BlockFacts ==
  ASSUME IInv
  PROVE  \A a, b \in UsedChunks : Block(a) = Block(b) => a = b
<1> SUFFICES ASSUME NEW a \in UsedChunks, NEW b \in UsedChunks, Block(a) = Block(b) PROVE a = b
  OBVIOUS
<1>1. a \in Nat /\ b \in Nat
  BY DEF UsedChunks, IInv, ListInv, ListTyped
<1>2. Payload(a) = Payload(b)
  BY DEF Block
<1> QED
  BY <1>1, <1>2 DEF Payload, Metadata

LEMMA CarveIsAlloc ==
  ASSUME IInv, NEW c \in Cpu, Carve(c)
  PROVE  Promise!Alloc
<1> USE DEF IInv
<1>1. PICK a, n : Carved(a, n)
  BY CarveFacts
<1>2. UNCHANGED <<head, size, setupDone>> /\ head \in Nat /\ size \in Nat
  BY DEF Carve, TypeOK
<1>3. UNCHANGED HeapRegion
  BY <1>2 DEF HeapRegion
<1> DEFINE new == [at |-> Payload(a), len |-> chunk'[a].size]
<1>4. HeapBlocks' = HeapBlocks \cup {new}
  BY <1>1 DEF HeapBlocks, Block, Carved
<1>5. ListTyped(chunk') /\ Tiled(chunk', head, size) /\ a \in DOMAIN chunk' /\ setupDone
  BY <1>1 DEF Carved
<1>6. new.at \in HeapRegion /\ Promise!Span(new) \subseteq HeapRegion
  BY <1>2, <1>5, Places DEF HeapRegion, Promise!Span
<1>7. \A d \in HeapBlocks : new.at # d.at /\ Promise!Span(new) \cap Promise!Span(d) = {}
  <2> SUFFICES ASSUME NEW b \in UsedChunks
               PROVE  /\ Payload(a) # Payload(b)
                      /\ (Payload(a) .. (Payload(a) + chunk'[a].size - 1))
                           \cap (Payload(b) .. (Payload(b) + chunk[b].size - 1)) = {}
    BY DEF HeapBlocks, Block, Promise!Span
  <2>1. b # a /\ b \in DOMAIN chunk' /\ chunk'[b] = chunk[b]
    BY <1>1 DEF Carved, UsedChunks
  <2> QED
    BY <1>2, <1>5, <2>1, Places
<1>8. new \in HeapBlocks' \ HeapBlocks
  BY <1>4, <1>7
<1> HIDE DEF new
<1> QED
  BY <1>3, <1>4, <1>6, <1>7, <1>8 DEF Promise!Alloc, HeapRegion, HeapBlocks, Block

LEMMA FreeIsGiveBack ==
  ASSUME IInv, NEW a \in UsedChunks, Released(a), UNCHANGED <<head, size, setupDone>>
  PROVE  Promise!GiveBack
<1>1. UNCHANGED HeapRegion
  BY DEF HeapRegion
<1>2. HeapBlocks' = HeapBlocks \ {Block(a)}
  <2>1. UsedChunks' = UsedChunks \ {a} /\ \A x \in UsedChunks' : Block(x)' = Block(x)
    BY DEF Released, Block
  <2> QED
    BY <2>1, BlockFacts DEF HeapBlocks
<1>3. Block(a) \in HeapBlocks
  BY DEF HeapBlocks
<1> QED
  BY <1>1, <1>2, <1>3 DEF Promise!GiveBack, HeapRegion, HeapBlocks, Block

LEMMA SetupIsOpen ==
  ASSUME IInv, NEW r, Opened(r)
  PROVE  Promise!Open
<1>1. chunk = <<>> /\ UsedChunks = {} /\ UsedChunks' = {}
  BY DEF IInv, ListInv, InList, Opened, UsedChunks
<1>2. HeapBlocks = {} /\ HeapBlocks' = {}
  BY <1>1 DEF HeapBlocks
<1>3. HeapRegion = {} /\ HeapRegion' = r.from .. (r.to - 1)
  <2>1. r.from \in Nat /\ r.to \in Nat
    BY RangeAssumption DEF Opened
  <2> QED
    BY <2>1 DEF HeapRegion, Opened
<1> QED
  BY <1>2, <1>3 DEF Promise!Open, HeapRegion, HeapBlocks, Block, Opened

LEMMA DeregisterIsClose ==
  ASSUME IInv, Closed
  PROVE  Promise!Close
<1>1. UsedChunks = {} /\ UsedChunks' = {}
  BY DEF Closed, UsedChunks
<1>2. HeapBlocks = {} /\ HeapBlocks' = {} /\ HeapRegion' = {}
  BY <1>1 DEF HeapBlocks, HeapRegion, Closed
<1> QED
  BY <1>2 DEF Promise!Close, HeapRegion, HeapBlocks, Block

LEMMA StepIsPromised ==
  ASSUME IInv, [Next]_vars
  PROVE  Promise!Next \/ UNCHANGED <<HeapRegion, HeapBlocks>>
<1>1. ASSUME UNCHANGED heapVars PROVE UNCHANGED <<HeapRegion, HeapBlocks>>
  BY <1>1 DEF heapVars, HeapRegion, HeapBlocks, Block, UsedChunks, Used
<1>2. ASSUME NEW c \in Cpu,
             CallMalloc(c) \/ CallMemalign(c) \/ CallFree(c) \/ CallSetup(c)
               \/ CompareHead(c) \/ CallDeregister(c) \/ AcquireLock(c) \/ Search(c)
      PROVE  UNCHANGED heapVars
  BY <1>2 DEF CallMalloc, CallMemalign, CallFree, CallSetup, CompareHead, CallDeregister,
              AcquireLock, Search
<1>3. ASSUME NEW c \in Cpu, Carve(c) PROVE Promise!Next
  BY <1>3, CarveIsAlloc DEF Promise!Next
<1>4. ASSUME NEW c \in Cpu, Free(c) PROVE Promise!Next \/ UNCHANGED heapVars
  <2>1. PICK a : a = req[c].ptr - Metadata
    OBVIOUS
  <2>2. CASE a \in UsedChunks /\ Release(a) /\ UNCHANGED <<head, size, setupDone>>
    BY <2>2, ReleaseFacts, FreeIsGiveBack DEF Promise!Next
  <2>3. CASE FailLocked(c) \/ UNCHANGED heapVars
    BY <2>3 DEF FailLocked
  <2> QED
    BY <1>4, <2>1, <2>2, <2>3 DEF Free
<1>5. ASSUME NEW c \in Cpu, Setup(c) PROVE Promise!Next \/ UNCHANGED heapVars
  <2>1. CASE setupDone
    BY <1>5, <2>1 DEF Setup, FailLocked
  <2>2. CASE ~setupDone
    BY <1>5, <2>2, SetupFacts, SetupIsOpen DEF Promise!Next
  <2> QED
    BY <2>1, <2>2
<1>6. ASSUME NEW c \in Cpu, Deregister(c) PROVE Promise!Next \/ UNCHANGED heapVars
  <2>1. Closed \/ UNCHANGED heapVars
    BY <1>6 DEF Deregister, InUse, Closed, FailLocked
  <2> QED
    BY <2>1, DeregisterIsClose DEF Promise!Next
<1>7. ASSUME UNCHANGED vars PROVE UNCHANGED heapVars
  BY <1>7 DEF vars, heapVars
<1> QED
  BY <1>1, <1>2, <1>3, <1>4, <1>5, <1>6, <1>7 DEF Next

(* The heap is an allocator: what malloc and memalign hand out lies in the *)
(* heap and apart from everything handed out before, and neither a split   *)
(* nor a merge moves or shrinks a block until it is given back.            *)
THEOREM HeapIsAllocator == Spec => ImplementsAllocator
<1>1. Init => Promise!Init
  <2> SUFFICES ASSUME Init PROVE Promise!Init
    OBVIOUS
  <2>1. UsedChunks = {} /\ ~setupDone
    BY DEF Init, UsedChunks
  <2> QED
    BY <2>1 DEF Promise!Init
<1>2. IInv /\ [Next]_vars
        => [Promise!Next]_<<IF setupDone THEN head .. (head + size - 1) ELSE {},
                            {[at |-> Payload(a), len |-> chunk[a].size] : a \in UsedChunks}>>
  BY StepIsPromised DEF HeapRegion, HeapBlocks, Block
<1> QED
  BY <1>1, <1>2, Invariance, PTL DEF Spec, ImplementsAllocator, Promise!Spec

----------------------------------------------------------------------------
(***************************************************************************)
(* Pointers.  Those the diag holds and those it is giving back are all     *)
(* different, and there are as many as there are used chunks.              *)
(***************************************************************************)
Counted(n, m) ==
  /\ IsFiniteSet(UsedChunks) /\ Cardinality(UsedChunks) = n + m
  /\ IsFiniteSet(live) /\ Cardinality(live) = n /\ n \in Nat
  /\ IsFiniteSet(BeingFreed) /\ Cardinality(BeingFreed) = m /\ m \in Nat
Different ==
  /\ \A b, d \in live : b.ptr = d.ptr => b = d
  /\ \A b \in live, c \in BeingFreed : b.ptr # req[c].ptr
  /\ \A c, d \in BeingFreed : req[c].ptr = req[d].ptr => c = d
Valid ==
  /\ \A b \in live : /\ b.ptr - Metadata \in UsedChunks
                     /\ chunk[b.ptr - Metadata].size >= b.want
  /\ \A c \in BeingFreed : req[c].ptr - Metadata \in UsedChunks
NoneAtRest == \A c \in Cpu : pc[c] \in {"diag", "compare"} => c \notin BeingFreed
PointerInv == (\E n, m : Counted(n, m)) /\ Different /\ Valid /\ NoneAtRest

(* A step after which the same pointers are held and given back.           *)
LEMMA SamePointers ==
  ASSUME PointerInv, UsedChunks' = UsedChunks, \A x \in UsedChunks : chunk'[x] = chunk[x],
         live' = live, BeingFreed' = BeingFreed, \A c \in BeingFreed : req'[c] = req[c],
         NoneAtRest'
  PROVE  PointerInv'
<1>1. Different' /\ Valid'
  BY DEF PointerInv, Different, Valid
<1>2. PICK n, m : Counted(n, m)
  BY DEF PointerInv
<1>3. Counted(n, m)'
  BY <1>2 DEF Counted
<1> QED
  BY <1>1, <1>3 DEF PointerInv

(* A call that is no free begins or ends, in a CPU that was not freeing.   *)
LEMMA OtherCallKeepsPointers ==
  ASSUME IInv, PointerInv, NEW c \in Cpu, c \notin BeingFreed, NEW r, r.op # "free",
         req' = [req EXCEPT ![c] = r], NEW l, Goto(c, l), live' = live,
         UsedChunks' = UsedChunks, \A x \in UsedChunks : chunk'[x] = chunk[x]
  PROVE  PointerInv'
<1>1. req'[c] = r /\ \A d \in Cpu \ {c} : req'[d] = req[d] /\ pc'[d] = pc[d]
  BY DEF IInv, TypeOK, Goto
<1>2. BeingFreed' = BeingFreed /\ \A d \in BeingFreed : req'[d] = req[d]
  BY <1>1 DEF BeingFreed
<1>3. NoneAtRest'
  BY <1>1, <1>2 DEF NoneAtRest, PointerInv
<1> QED
  BY <1>2, <1>3, SamePointers

LEMMA CallFreeKeepsPointers ==
  ASSUME IInv, PointerInv, NEW c \in Cpu, CallFree(c)
  PROVE  PointerInv'
<1> USE DEF IInv
<1>1. PICK b \in live : /\ Call(c, [op |-> "free", ptr |-> b.ptr],
                                IF IsValidHeap THEN "lock" ELSE "failed")
                        /\ live' = live \ {b}
  BY DEF CallFree
<1>2. /\ c \notin BeingFreed /\ UsedChunks' = UsedChunks /\ chunk' = chunk
      /\ req'[c] = [op |-> "free", ptr |-> b.ptr] /\ pc'[c] \notin {"diag", "compare"}
      /\ \A d \in Cpu \ {c} : req'[d] = req[d] /\ pc'[d] = pc[d]
  <2>1. c \notin BeingFreed
    BY <1>1 DEF Call, PointerInv, NoneAtRest
  <2>2. chunk' = chunk
    BY DEF CallFree, heapVars
  <2>3. UsedChunks' = UsedChunks
    BY <2>2 DEF UsedChunks, Used
  <2> QED
    BY <1>1, <2>1, <2>2, <2>3 DEF Call, Goto, TypeOK
<1>3. BeingFreed' = BeingFreed \cup {c}
  BY <1>2 DEF BeingFreed
<1>4. PICK n, m : Counted(n, m)
  BY DEF PointerInv
<1>5. IsFiniteSet(BeingFreed') /\ Cardinality(BeingFreed') = m + 1
  BY <1>2, <1>3, <1>4, FS_AddElement DEF Counted
<1>6. IsFiniteSet(live') /\ Cardinality(live') = n - 1
  BY <1>1, <1>4, FS_RemoveElement DEF Counted
<1>7. n - 1 \in Nat
  <2>1. Cardinality(live') \in Nat
    BY <1>6, FS_CardinalityType
  <2> QED
    BY <1>6, <2>1
<1>8. Counted(n - 1, m + 1)'
  BY <1>2, <1>4, <1>5, <1>6, <1>7 DEF Counted
<1>9. Different'
  BY <1>1, <1>2, <1>3 DEF Different, PointerInv, BeingFreed
<1>10. Valid'
  BY <1>1, <1>2, <1>3 DEF Valid, PointerInv, BeingFreed
<1>11. NoneAtRest'
  BY <1>2, <1>3 DEF NoneAtRest, PointerInv
<1> QED
  BY <1>8, <1>9, <1>10, <1>11 DEF PointerInv

LEMMA CarveKeepsPointers ==
  ASSUME IInv, PointerInv, NEW c \in Cpu, Carve(c)
  PROVE  PointerInv'
<1> USE DEF IInv
<1>1. PICK a, k : Carved(a, k)
  BY CarveFacts
<1>2. /\ req[c].op = "malloc" /\ req'[c] = Idle
      /\ \A d \in Cpu \ {c} : req'[d] = req[d] /\ pc'[d] = pc[d]
  <2>1. req[c].op = "malloc"
    BY DEF Carve, RequestsReal, FoundFits
  <2> QED
    BY <2>1 DEF Carve, Return, Goto, TypeOK
<1>3. BeingFreed' = BeingFreed /\ c \notin BeingFreed
  BY <1>2 DEF BeingFreed, Idle
<1>4. PICK n, m : Counted(n, m)
  BY DEF PointerInv
<1> DEFINE new == [ptr |-> Payload(a), want |-> k]
<1>5. /\ a \in Nat /\ a \notin UsedChunks /\ UsedChunks' = UsedChunks \cup {a}
      /\ \A x \in UsedChunks : chunk'[x] = chunk[x]
      /\ chunk'[a].size >= k /\ live' = live \cup {new}
      /\ new.ptr - Metadata = a /\ new.want = k
  BY <1>1 DEF Carved, Payload, Metadata
<1> HIDE DEF new
<1>6. new \notin live /\ \A b \in live : b.ptr # new.ptr
  BY <1>5 DEF PointerInv, Valid
<1>7. \A d \in BeingFreed : req[d].ptr # new.ptr /\ d # c
  BY <1>3, <1>5 DEF PointerInv, Valid
<1>8. IsFiniteSet(live') /\ Cardinality(live') = n + 1
  BY <1>4, <1>5, <1>6, FS_AddElement DEF Counted
<1>9. IsFiniteSet(UsedChunks') /\ Cardinality(UsedChunks') = n + m + 1
  <2>1. IsFiniteSet(UsedChunks) /\ Cardinality(UsedChunks) = n + m
    BY <1>4 DEF Counted
  <2> QED
    BY <1>5, <2>1, FS_AddElement
<1>10. Counted(n + 1, m)'
  <2>1. n \in Nat /\ m \in Nat
    BY <1>4 DEF Counted
  <2>2. n + 1 \in Nat /\ n + m + 1 = n + 1 + m
    BY <2>1
  <2> QED
    BY <1>3, <1>4, <1>8, <1>9, <2>2 DEF Counted
<1>11. \A d \in BeingFreed : req'[d] = req[d]
  BY <1>2, <1>7 DEF BeingFreed
<1>12. Different'
  BY <1>3, <1>5, <1>6, <1>7, <1>11 DEF Different, PointerInv
<1>13. Valid'
  BY <1>3, <1>5, <1>11 DEF Valid, PointerInv
<1>14. NoneAtRest'
  BY <1>2, <1>3 DEF NoneAtRest, PointerInv
<1> QED
  BY <1>10, <1>12, <1>13, <1>14 DEF PointerInv

(* The tests of free let every pointer pass, so that it is released.       *)
LEMMA FreeKeepsPointers ==
  ASSUME IInv, PointerInv, NEW c \in Cpu, Free(c)
  PROVE  PointerInv'
<1> USE DEF IInv
<1>1. PICK a : a = req[c].ptr - Metadata
  OBVIOUS
<1>2. c \in BeingFreed /\ a \in UsedChunks
  BY <1>1 DEF Free, BeingFreed, PointerInv, Valid
<1>3. a >= head /\ head # NULL /\ a \in Nat /\ head \in Nat
  <2>1. a \in DOMAIN chunk
    BY <1>2 DEF UsedChunks
  <2>2. Tiled(chunk, head, size) /\ ListTyped(chunk)
    BY <2>1, InListFacts DEF ListInv
  <2> QED
    BY <2>1, <2>2 DEF Tiled, LaidOut, ListTyped, TypeOK
<1>4. Release(a) /\ Return(c) /\ live' = live
  BY <1>1, <1>2, <1>3 DEF Free
<1>5. UsedChunks' = UsedChunks \ {a} /\ \A x \in UsedChunks' : chunk'[x] = chunk[x]
  BY <1>2, <1>4, ReleaseFacts DEF Released
<1>6. req'[c] = Idle /\ \A d \in Cpu \ {c} : req'[d] = req[d] /\ pc'[d] = pc[d]
  BY <1>4 DEF Return, Goto, TypeOK
<1>7. BeingFreed' = BeingFreed \ {c} /\ \A d \in BeingFreed' : req'[d] = req[d]
  BY <1>6 DEF BeingFreed, Idle
<1>8. PICK n, m : Counted(n, m)
  BY DEF PointerInv
<1>9. IsFiniteSet(BeingFreed') /\ Cardinality(BeingFreed') = m - 1
  BY <1>2, <1>7, <1>8, FS_RemoveElement DEF Counted
<1>10. IsFiniteSet(UsedChunks') /\ Cardinality(UsedChunks') = n + m - 1
  BY <1>2, <1>5, <1>8, FS_RemoveElement DEF Counted
<1>11. m - 1 \in Nat
  <2>1. Cardinality(BeingFreed') \in Nat
    BY <1>9, FS_CardinalityType
  <2> QED
    BY <1>9, <2>1
<1>12. Counted(n, m - 1)'
  BY <1>4, <1>8, <1>9, <1>10, <1>11 DEF Counted
<1>13. Different'
  BY <1>4, <1>7 DEF Different, PointerInv
<1>14. \A b \in live : b.ptr - Metadata # a
  <2>1. \A b \in live : b.ptr \in Nat /\ b.ptr # req[c].ptr
    BY <1>2 DEF PointerInv, Different, TypeOK
  <2>2. req[c].ptr \in Nat
    <3>1. req[c] \in Request /\ req[c].op = "free"
      BY DEF Free, TypeOK
    <3> QED
      BY <3>1 DEF Request
  <2> QED
    BY <1>1, <2>1, <2>2 DEF Metadata
<1>15. \A d \in BeingFreed' : req[d].ptr - Metadata # a
  <2>1. ASSUME NEW d \in BeingFreed' PROVE req[d].ptr - Metadata # a
    <3>1. d \in BeingFreed /\ d # c /\ d \in Cpu
      BY <1>7 DEF BeingFreed
    <3>2. req[d].ptr # req[c].ptr
      BY <1>2, <3>1 DEF PointerInv, Different
    <3>3. req[d] \in Request /\ req[d].op = "free" /\ req[c] \in Request /\ req[c].op = "free"
      BY <1>2, <3>1 DEF BeingFreed, TypeOK
    <3>4. req[d].ptr \in Nat /\ req[c].ptr \in Nat
      BY <3>3 DEF Request
    <3> QED
      BY <1>1, <3>2, <3>4 DEF Metadata
  <2> QED
    BY <2>1
<1>16. Valid'
  BY <1>4, <1>5, <1>7, <1>14, <1>15 DEF Valid, PointerInv
<1>17. NoneAtRest'
  BY <1>6, <1>7 DEF NoneAtRest, PointerInv
<1> QED
  BY <1>12, <1>13, <1>16, <1>17 DEF PointerInv

LEMMA PointersInductive == IInv /\ PointerInv /\ [Next]_vars => PointerInv'
<1> SUFFICES ASSUME IInv, PointerInv, [Next]_vars PROVE PointerInv'
  OBVIOUS
<1> USE DEF IInv
<1>1. \A c \in Cpu : pc[c] \in {"diag", "compare"} \/ req[c].op # "free" => c \notin BeingFreed
  BY DEF PointerInv, NoneAtRest, BeingFreed
<1>2. UNCHANGED heapVars => UsedChunks' = UsedChunks /\ chunk' = chunk
  BY DEF heapVars, UsedChunks, Used
<1>3. ASSUME UNCHANGED heapVars, live' = live, req' = req, NoneAtRest'
      PROVE  PointerInv'
  <2>1. BeingFreed' = BeingFreed
    BY <1>3 DEF BeingFreed
  <2> QED
    BY <1>2, <1>3, <2>1, SamePointers
<1>4. ASSUME NEW c \in Cpu, NEW l, l \notin {"diag", "compare"}, Goto(c, l), req' = req
      PROVE  NoneAtRest'
  BY <1>4 DEF Goto, NoneAtRest, PointerInv, BeingFreed, TypeOK
<1>5. ASSUME NEW c \in Cpu, FailLocked(c) PROVE PointerInv'
  BY <1>3, <1>4, <1>5 DEF FailLocked
<1>6. ASSUME NEW c \in Cpu, req[c].op # "free", Return(c), live' = live,
             UsedChunks' = UsedChunks, \A x \in UsedChunks : chunk'[x] = chunk[x]
      PROVE  PointerInv'
  <2>1. Idle.op # "free"
    BY DEF Idle
  <2> QED
    BY <1>1, <1>6, <2>1, OtherCallKeepsPointers DEF Return
<1>7. ASSUME NEW c \in Cpu, NEW r, r.op # "free", NEW l, Call(c, r, l), UNCHANGED heapVars,
             live' = live
      PROVE  PointerInv'
  BY <1>1, <1>2, <1>7, OtherCallKeepsPointers DEF Call
<1>8. ASSUME NEW c \in Cpu, CallMalloc(c) \/ CallMemalign(c) \/ CallSetup(c) \/ CallDeregister(c)
      PROVE  PointerInv'
  <2>1. CASE CallMalloc(c)
    BY <1>7, <2>1 DEF CallMalloc
  <2>2. CASE CallMemalign(c)
    BY <1>7, <2>2 DEF CallMemalign
  <2>3. CASE CallSetup(c)
    BY <1>7, <2>3 DEF CallSetup
  <2>4. CASE CallDeregister(c)
    BY <1>7, <2>4 DEF CallDeregister
  <2> QED
    BY <1>8, <2>1, <2>2, <2>3, <2>4
<1>9. ASSUME NEW c \in Cpu, CompareHead(c) PROVE PointerInv'
  <2>1. CASE head = req[c].range.from
    <3>1. Idle.op # "free" /\ c \notin BeingFreed
      BY <1>1, <1>9 DEF CompareHead, Idle
    <3> QED
      BY <1>2, <1>9, <2>1, <3>1, OtherCallKeepsPointers DEF CompareHead
  <2>2. CASE head # req[c].range.from
    BY <1>3, <1>4, <1>9, <2>2 DEF CompareHead
  <2> QED
    BY <2>1, <2>2
<1>10. ASSUME NEW c \in Cpu, AcquireLock(c) PROVE PointerInv'
  BY <1>3, <1>4, <1>10 DEF AcquireLock
<1>11. ASSUME NEW c \in Cpu, Search(c) PROVE PointerInv'
  <2>1. req[c].op = "malloc" /\ UNCHANGED heapVars /\ live' = live
    BY <1>11 DEF Search
  <2>2. CASE Goto(c, "carve") /\ req' = req
    BY <1>3, <1>4, <2>1, <2>2
  <2>3. CASE Goto(c, "diag") /\ req' = [req EXCEPT ![c] = Idle]
    <3>1. Idle.op # "free"
      BY DEF Idle
    <3> QED
      BY <1>1, <1>2, <2>1, <2>3, <3>1, OtherCallKeepsPointers
  <2> QED
    BY <1>11, <2>2, <2>3 DEF Search
<1>12. ASSUME NEW c \in Cpu, Setup(c) PROVE PointerInv'
  <2>1. req[c].op # "free"
    BY <1>12 DEF Setup
  <2>2. CASE setupDone
    BY <1>2, <1>5, <1>6, <1>12, <2>1, <2>2 DEF Setup
  <2>3. CASE ~setupDone
    <3>1. Opened(req[c].range) /\ Return(c) /\ live' = live
      BY <1>12, <2>3, SetupFacts
    <3>2. UsedChunks = {} /\ UsedChunks' = {}
      BY <2>3, <3>1 DEF ListInv, InList, UsedChunks, Opened
    <3> QED
      BY <1>6, <2>1, <3>1, <3>2
  <2> QED
    BY <2>2, <2>3
<1>13. ASSUME NEW c \in Cpu, Deregister(c) PROVE PointerInv'
  <2>1. req[c].op # "free"
    BY <1>13 DEF Deregister
  <2>2. CASE Closed /\ Return(c) /\ live' = live
    <3>1. UsedChunks = {} /\ UsedChunks' = {}
      BY <2>2 DEF Closed, UsedChunks
    <3> QED
      BY <1>6, <2>1, <2>2, <3>1
  <2> QED
    BY <1>5, <1>13, <2>2 DEF Deregister, InUse, Closed
<1>14. ASSUME UNCHANGED vars PROVE PointerInv'
  <2>1. UNCHANGED heapVars /\ live' = live /\ req' = req /\ pc' = pc
    BY <1>14 DEF vars, heapVars
  <2>2. NoneAtRest'
    BY <2>1 DEF PointerInv, NoneAtRest, BeingFreed
  <2> QED
    BY <1>3, <2>1, <2>2
<1> QED
  BY <1>8, <1>9, <1>10, <1>11, <1>12, <1>13, <1>14, CallFreeKeepsPointers, CarveKeepsPointers,
     FreeKeepsPointers DEF Next

LEMMA InitPointers == Init => PointerInv
<1> SUFFICES ASSUME Init PROVE PointerInv
  OBVIOUS
<1>1. UsedChunks = {} /\ live = {} /\ BeingFreed = {}
  BY DEF Init, UsedChunks, BeingFreed, Idle
<1>2. Counted(0, 0)
  BY <1>1, FS_EmptySet DEF Counted
<1> QED
  BY <1>1, <1>2 DEF PointerInv, Different, Valid, NoneAtRest

(* Every pointer the diag holds is a used chunk of its own, as large as it *)
(* asked for, one that it frees passes the tests of free, and no used      *)
(* chunk is without a pointer, for any number of CPUs.                     *)
THEOREM PointersAreValid == Spec => []PointersValid
<1>1. IInv /\ PointerInv => PointersValid
  <2> SUFFICES ASSUME PointerInv PROVE PointersValid
    OBVIOUS
  <2>1. Cardinality(UsedChunks) = Cardinality(live) + Cardinality(BeingFreed)
    BY DEF PointerInv, Counted
  <2> QED
    BY <2>1 DEF PointerInv, Valid, PointersValid
<1> QED
  BY <1>1, InitIInv, Inductive, InitPointers, PointersInductive, PTL DEF Spec
=============================================================================
