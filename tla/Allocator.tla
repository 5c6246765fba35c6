----------------------------- MODULE Allocator -----------------------------
(***************************************************************************)
(* What a heap promises its callers, whatever its bookkeeping: blocks of   *)
(* memory inside the region it was opened on, no two of which share an     *)
(* address, and which stay where they are, at the size they have, until    *)
(* they are given back.  A region is closed only when no block is left.    *)
(***************************************************************************)
EXTENDS Naturals

CONSTANTS
  Regions           \* the regions, as sets of addresses, that may be opened

VARIABLES
  region,           \* addresses of the open region, {} when none is
  blocks            \* blocks handed out: [at, len]

Span(b) == b.at .. (b.at + b.len - 1)

Init == region = {} /\ blocks = {}

Open ==
  /\ region = {}
  /\ region' \in Regions
  /\ UNCHANGED blocks

Close ==
  /\ blocks = {}
  /\ region' = {}
  /\ UNCHANGED blocks

(* A new block overlaps none in use; its address tells it from the others  *)
(* even when it is empty.                                                  *)
Alloc ==
  /\ \E b \in (blocks' \ blocks) :
       /\ blocks' = blocks \cup {b}
       /\ b.at \in region /\ Span(b) \subseteq region
       /\ \A d \in blocks : b.at # d.at /\ Span(b) \cap Span(d) = {}
  /\ UNCHANGED region

GiveBack ==
  /\ \E b \in blocks : blocks' = blocks \ {b}
  /\ UNCHANGED region

Next == Open \/ Close \/ Alloc \/ GiveBack

Spec == Init /\ [][Next]_<<region, blocks>>
=============================================================================
