------------------------------ MODULE EndOfSim ------------------------------
(***************************************************************************)
(* How a diag reaches its verdict (_mmode_end of exit.mmode.S and, line    *)
(* for line the same, _smode_end of sbi_firmware_boot.smode.S).  A CPU     *)
(* that comes out of main() stores main's result in its byte of            *)
(* cpu_status_tracker; the primary CPU then goes over the bytes of the     *)
(* active CPUs in id order, spinning on each until it is neither INACTIVE  *)
(* nor RUNNING, and writes tohost.  DiagRun and SbiBoot add how a CPU gets *)
(* to main() and what main() does.                                         *)
(***************************************************************************)
EXTENDS Integers, FiniteSets, FiniteSetsExt

CONSTANTS
  Cpu,              \* ids of the CPUs of the machine
  ActiveMask,       \* ACTIVE_CPU_MASK, as a set of ids
  PrimaryCpuId,     \* PRIMARY_CPU_ID
  MainReturn        \* the values main() returns in a0

(* The generator takes the lowest active CPU for primary unless told, and  *)
(* refuses a primary that is not active.                                   *)
ASSUME MachineAssumption ==
  /\ Cpu \subseteq Nat
  /\ ActiveMask \subseteq Cpu
  /\ IsFiniteSet(ActiveMask)
  /\ PrimaryCpuId \in ActiveMask
  /\ MainReturn \subseteq Int

DIAG_PASSED == 0
DIAG_FAILED == 1
CPU_RUNNING == 2
CPU_INACTIVE == 3

VARIABLES
  pc,               \* where each CPU is
  status,           \* cpu_status_tracker, a byte per CPU
  cursor,           \* t1 of the primary: the CPU it is looking at
  tohost,           \* the doubleword the simulator watches, 0 at first
  returned          \* history: {} or {what main() returned}, per CPU

endVars == <<pc, status, cursor, tohost, returned>>

Goto(c, l) == pc' = [pc EXCEPT ![c] = l]

(* Where a CPU that has left main() can be.  "wfi" is where every inactive *)
(* CPU and every secondary that has finished ends, "stopped" the endless   *)
(* loop after the write of tohost.                                         *)
EndLocation ==
  {"waitInactive", "waitRunning", "passed", "failed", "wfi", "stopped"}

EndInit ==
  /\ status = [c \in Cpu |-> CPU_INACTIVE]
  /\ cursor = 0
  /\ tohost = 0
  /\ returned = [c \in Cpu |-> {}]

----------------------------------------------------------------------------
(* Mutations, one plausible slip each.                                     *)

(* sd for sb: the whole register is kept *)
WholeWord(v) == v
(* sb of t2, the register that held CPU_RUNNING *)
StaysRunning(v) == CPU_RUNNING
(* slli/ori missing: the raw status is written to tohost *)
RawCode(s) == s
(* the loop is left one CPU early *)
AllButLast(c) == {d \in ActiveMask : d > c}

----------------------------------------------------------------------------
(* sb keeps the low byte of main's result.                                 *)
ToByte(v) == v % 256
(* slli 1, ori 1 *)
ToHostCode(s) == 2 * s + 1
(* a0 of the scan after cursor shifts: the active CPUs from c on.          *)
ToCheck(c) == {d \in ActiveMask : d >= c}

(* main() returns v: the first instructions of _mmode_end.                 *)
StoreStatus(c, v) ==
  /\ returned' = [returned EXCEPT ![c] = {v}]
  /\ status' = [status EXCEPT ![c] = ToByte(v)]
  /\ Goto(c, IF c = PrimaryCpuId THEN "waitInactive" ELSE "wfi")
  /\ UNCHANGED <<cursor, tohost>>

(* srli, addi, bnez at done_with_current_cpu.                              *)
NextCpu(c) ==
  /\ cursor' = cursor + 1
  /\ Goto(c, IF ToCheck(cursor + 1) = {} THEN "passed" ELSE "waitInactive")

SkipInactive(c) ==
  /\ pc[c] = "waitInactive"
  /\ cursor \notin ActiveMask
  /\ NextCpu(c)
  /\ UNCHANGED <<status, tohost, returned>>

(* lb that finds the CPU started.                                          *)
SeeStarted(c) ==
  /\ pc[c] = "waitInactive"
  /\ cursor \in ActiveMask
  /\ status[cursor] # CPU_INACTIVE
  /\ Goto(c, "waitRunning")
  /\ UNCHANGED <<status, cursor, tohost, returned>>

(* Mutation: no running loop, and only DIAG_FAILED is a failure.           *)
SeeNotFailed(c) ==
  /\ pc[c] = "waitRunning"
  /\ IF status[cursor] # DIAG_FAILED
     THEN NextCpu(c)
     ELSE Goto(c, "failed") /\ UNCHANGED cursor
  /\ UNCHANGED <<status, tohost, returned>>

(* lb that finds it has ended, and the check of the byte just loaded.      *)
SeeEnded(c) ==
  /\ pc[c] = "waitRunning"
  /\ status[cursor] # CPU_RUNNING
  /\ IF status[cursor] = DIAG_PASSED
     THEN NextCpu(c)
     ELSE Goto(c, "failed") /\ UNCHANGED cursor
  /\ UNCHANGED <<status, tohost, returned>>

(* run_end_of_sim_sequence, from jumpstart_mmode_fail or past the scan.    *)
WriteToHost(c) ==
  /\ pc[c] \in {"passed", "failed"}
  /\ tohost' = ToHostCode(IF pc[c] = "passed" THEN DIAG_PASSED ELSE DIAG_FAILED)
  /\ Goto(c, "stopped")
  /\ UNCHANGED <<status, cursor, returned>>

EndStep(c) ==
  SkipInactive(c) \/ SeeStarted(c) \/ SeeEnded(c) \/ WriteToHost(c)

----------------------------------------------------------------------------
EndTypeOK ==
  /\ status \in [Cpu -> 0..255]
  /\ cursor \in Nat
  /\ tohost \in {0, 1, 3}
  /\ returned \in [Cpu -> SUBSET MainReturn]

(* A PASS verdict speaks for the whole diag: when tohost says PASSED every *)
(* active CPU, the late ones included, has started, run main() and         *)
(* returned a value whose low byte is DIAG_PASSED.                         *)
PassMeansAllPassed ==
  tohost = 1 =>
    \A c \in ActiveMask : \E v \in returned[c] : v % 256 = DIAG_PASSED

(* Any number of CPUs may write tohost, and the simulator may read it      *)
(* after any of the writes: they all write the same verdict.               *)
VerdictIsFinal == [][tohost # 0 => tohost' = tohost]_tohost

(* The bytes the primary has gone past do not change behind it: they are   *)
(* final when it reads them.                                               *)
CheckedStaysChecked ==
  [][\A d \in ActiveMask : d < cursor => status'[d] = status[d]]_<<status, cursor>>

(* A main() that returns a value whose low byte says that the CPU has not  *)
(* ended: the primary may wait for it for ever.                            *)
ReturnedRunning ==
  \E c \in ActiveMask : \E v \in returned[c] :
    v % 256 \in {CPU_RUNNING, CPU_INACTIVE}
=============================================================================
