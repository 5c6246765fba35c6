---------------------------- MODULE AddressSpace ----------------------------
(***************************************************************************)
(* What every part of the source generator knows of addresses: the         *)
(* translation stages and modes of page_tables.py, the layout of an        *)
(* address in each mode, bit fields and alignment.                         *)
(*                                                                         *)
(* An address counts page table entries (8 bytes in the code), so that a   *)
(* 4K table, a 4K page and the span of one VPN field are all 2^VpnBits     *)
(* (512 in the code).  All widths scale with it.                           *)
(***************************************************************************)
EXTENDS Integers, Sequences, FiniteSets

CONSTANTS
  VpnBits,          \* bits of a VPN field, and of a page offset (9)
  PaBits,           \* bits of a physical address (56 - 3)
  Xlen,             \* bits of an address field (64 - 3)
  None              \* a field that is not given

(* A physical address has the page number fields of four levels, an        *)
(* address field the bits of any address and of a root table.              *)
ASSUME WidthsAssumption ==
  /\ VpnBits \in Nat \ {0} /\ PaBits \in Nat /\ Xlen \in Nat
  /\ 4 * VpnBits <= PaBits /\ PaBits <= Xlen /\ 5 * VpnBits + 2 <= Xlen

(* Arithmetic the provers do not know, up to the width of an address field.*)
ASSUME PowersAssumption ==
  /\ 2^2 = 4 /\ \A n \in 0..Xlen : 2^n \in Nat \ {0}
  /\ \A m, n \in 0..Xlen : m + n <= Xlen => 2^(m + n) = 2^m * 2^n

ASSUME NoneAssumption == None \notin Int /\ None \notin {"s", "hs", "vs", "g"}

----------------------------------------------------------------------------
(* Bit fields, NAPOT sizes and alignment                                   *)

ExtractBits(value, range) == (value \div 2^range[2]) % 2^(range[1] - range[2] + 1)

PlaceBits(value, bits, range) ==
  value + (bits - ExtractBits(value, range)) * 2^range[2]

(* The next multiple of size at or after an address; where the code does   *)
(* it with masks, size is a power of two.                                  *)
AlignUp(address, size) ==
  IF address % size = 0 THEN address ELSE (address \div size + 1) * size

IsNapotSize(size) == \E n \in 0..Xlen : size = 2^n

NextNapotSize(size) ==
  IF size <= 0 THEN 1
  ELSE CHOOSE n \in {2^i : i \in 0..Xlen} : size <= n /\ n < 2 * size

----------------------------------------------------------------------------
(* Stages and modes                                                        *)

AddressTypes == {"va", "pa", "gpa", "spa"}

Stage == {"s", "hs", "vs", "g"}
TranslatesFrom == [s |-> "va", hs |-> "va", vs |-> "va", g |-> "gpa"]
TranslatesTo == [s |-> "pa", hs |-> "pa", vs |-> "gpa", g |-> "spa"]
AtpMode == [s |-> "satp_mode", hs |-> "satp_mode", vs |-> "vsatp_mode", g |-> "hgatp_mode"]
NextStage == [s |-> None, hs |-> None, vs |-> "g", g |-> None]
ValidModes(stage) ==
  IF stage = "g" THEN {"bare", "sv39x4", "sv48x4"} ELSE {"bare", "sv39", "sv48"}

(* In the order of TranslationStage.stages.                                *)
EnabledStages(virtualization) == IF virtualization THEN <<"hs", "vs", "g">> ELSE <<"s">>

SIZE_4K == 2^VpnBits

Levels == [sv39 |-> 3, sv48 |-> 4, sv39x4 |-> 3, sv48x4 |-> 4]
IsX4(mode) == mode \in {"sv39x4", "sv48x4"}

(* Level 0 is the root; the x4 modes have two more bits in its VPN and a   *)
(* root table of four pages.                                               *)
VpnLsb(mode, level) == VpnBits * (Levels[mode] - level)
VaVpnBits(mode, level) ==
  <<VpnLsb(mode, level) + VpnBits - 1 + (IF level = 0 /\ IsX4(mode) THEN 2 ELSE 0),
    VpnLsb(mode, level)>>
PaPpnBits(mode, level) ==
  <<IF level = 0 THEN PaBits - 1 ELSE VpnLsb(mode, level) + VpnBits - 1,
    VpnLsb(mode, level)>>
PageSizes(mode) == [level \in 0..Levels[mode] - 1 |-> 2^VpnLsb(mode, level)]
PagetableSize(mode, level) == (IF level = 0 /\ IsX4(mode) THEN 4 ELSE 1) * SIZE_4K

(* The width of va_mask: one bit more in the x4 modes, not two.            *)
VaBits(mode) == VpnLsb(mode, 0) + VpnBits + (IF IsX4(mode) THEN 1 ELSE 0)
MaskVa(mode, va) == va % 2^VaBits(mode)

(* Bits VaBits and up of a canonical address equal the bit below them.     *)
Canonical(mode, va) ==
  LET upper == va \div 2^VaBits(mode)
      sign == ExtractBits(va, <<VaBits(mode) - 1, VaBits(mode) - 1>>)
  IN upper = IF sign = 1 THEN 2^(Xlen - VaBits(mode)) - 1 ELSE 0
=============================================================================
