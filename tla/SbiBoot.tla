------------------------------ MODULE SbiBoot ------------------------------
(***************************************************************************)
(* A run of a diag booted by SBI firmware (sbi_firmware_boot.smode.S).     *)
(* The firmware enters sbi_firmware_trampoline on one CPU, the others      *)
(* stopped.  The trampoline starts CPUs through SBI HSM calls, waiting for *)
(* each to be running before the next, and joins them in _smode_start;     *)
(* main() runs in S-mode and _smode_end is EndOfSim again.                 *)
(*                                                                         *)
(* The firmware is outside the repository: its HSM calls are modelled as   *)
(* the trampoline uses them.  Nothing runs once it has shut the system     *)
(* down.                                                                   *)
(***************************************************************************)
EXTENDS EndOfSim

CONSTANT BootCpus       \* CPUs the firmware may enter the trampoline on

ASSUME BootAssumption == BootCpus \subseteq Cpu

VARIABLES
  boot,             \* t0: the CPU the trampoline runs on
  hart,             \* t1: the CPU the loop is at
  hsm,              \* firmware: HSM state of each CPU
  shutdown          \* firmware: sbi_system_reset has been called

bootVars == <<boot, hart, hsm, shutdown>>
vars == <<endVars, bootVars>>

(* Bit i of the register b.                                                *)
Bit(b, i) == (b \div 2^i) % 2 = 1

----------------------------------------------------------------------------
(* Mutation: addi left out, the loop stays at the CPU it has started.      *)
SameHart == hart

----------------------------------------------------------------------------
(* t2, the mask the loop shifts through.  ACTIVE_CPU_MASK is loaded into   *)
(* it and at once overwritten: mv t2, a0, the id of the boot CPU.          *)
StartMask(b) == {h \in 0..b : Bit(b, h)}

Init ==
  /\ EndInit
  /\ boot \in BootCpus
  /\ pc = [c \in Cpu |-> IF c = boot THEN "loop" ELSE "off"]
  /\ hart = 0
  /\ hsm = [c \in Cpu |-> IF c = boot THEN "started" ELSE "stopped"]
  /\ shutdown = FALSE

(* The end of an iteration: srli, and the loop or what follows it.         *)
NextHart == hart + 1

(* Mutation: the mask is shifted once more before it is tested.            *)
AdvanceShort ==
  IF \E h \in StartMask(boot) : h > hart + 1
  THEN Goto(boot, "loop") /\ hart' = NextHart
  ELSE Goto(boot, "loopEnd") /\ UNCHANGED hart

Advance ==
  IF \E h \in StartMask(boot) : h > hart
  THEN Goto(boot, "loop") /\ hart' = NextHart
  ELSE Goto(boot, "loopEnd") /\ UNCHANGED hart

SkipHart ==
  /\ ~shutdown
  /\ pc[boot] = "loop"
  /\ hart = boot \/ hart \notin StartMask(boot)
  /\ Advance
  /\ UNCHANGED <<status, cursor, tohost, returned, boot, hsm, shutdown>>

(* sbi_hart_start accepts a CPU of the machine that is stopped.            *)
CanStart(h) == h \in Cpu /\ hsm[h] = "stopped"

(* sbi_cpu_start; bnez a0, jumpstart_smode_fail calls sbi_system_reset.    *)
StartHart ==
  /\ ~shutdown
  /\ pc[boot] = "loop"
  /\ hart # boot /\ hart \in StartMask(boot)
  /\ IF CanStart(hart)
     THEN /\ hsm' = [hsm EXCEPT ![hart] = "pending"]
          /\ Goto(boot, "poll")
          /\ UNCHANGED shutdown
     ELSE /\ shutdown' = TRUE
          /\ Goto(boot, "bootFailed")
          /\ UNCHANGED hsm
  /\ UNCHANGED <<status, cursor, tohost, returned, boot, hart>>

(* The firmware brings the CPU up at _smode_start.                         *)
FirmwareStarts(c) ==
  /\ ~shutdown
  /\ hsm[c] = "pending"
  /\ hsm' = [hsm EXCEPT ![c] = "started"]
  /\ Goto(c, "smodeStart")
  /\ UNCHANGED <<status, cursor, tohost, returned, boot, hart, shutdown>>

(* sbi_cpu_get_status that returns 0.                                      *)
PollStarted ==
  /\ ~shutdown
  /\ pc[boot] = "poll"
  /\ hsm[hart] = "started"
  /\ Advance
  /\ UNCHANGED <<status, cursor, tohost, returned, boot, hsm, shutdown>>

(* start_active_cpus_loop_end: join the diag, or sbi_cpu_stop.             *)
LeaveLoop ==
  /\ ~shutdown
  /\ pc[boot] = "loopEnd"
  /\ IF boot \in ActiveMask
     THEN Goto(boot, "smodeStart") /\ UNCHANGED hsm
     ELSE /\ Goto(boot, "off")
          /\ hsm' = [hsm EXCEPT ![boot] = "stopped"]
  /\ UNCHANGED <<status, cursor, tohost, returned, boot, hart, shutdown>>

Trampoline == SkipHart \/ StartHart \/ PollStarted \/ LeaveLoop

(* _smode_start *)
StartMain(c) ==
  /\ ~shutdown
  /\ pc[c] = "smodeStart"
  /\ IF c \in ActiveMask
     THEN /\ status' = [status EXCEPT ![c] = CPU_RUNNING]
          /\ Goto(c, "main")
     ELSE Goto(c, "wfi") /\ UNCHANGED status
  /\ UNCHANGED <<cursor, tohost, returned, bootVars>>

ReturnFromMain(c) ==
  /\ ~shutdown
  /\ pc[c] = "main"
  /\ \E v \in MainReturn : StoreStatus(c, v)
  /\ UNCHANGED bootVars

(* jumpstart_smode_fail of a build without M-mode.                         *)
SmodeFail(c) ==
  /\ ~shutdown
  /\ pc[c] = "main"
  /\ Goto(c, "shutdown")
  /\ shutdown' = TRUE
  /\ UNCHANGED <<status, cursor, tohost, returned, boot, hart, hsm>>

End(c) == ~shutdown /\ EndStep(c) /\ UNCHANGED bootVars

Step(c) == StartMain(c) \/ ReturnFromMain(c) \/ SmodeFail(c) \/ End(c)

Next == Trampoline \/ \E c \in Cpu : FirmwareStarts(c) \/ Step(c)

(* Harts keep executing, and the firmware does what it has accepted to do. *)
Fairness ==
  /\ WF_vars(Trampoline)
  /\ \A c \in Cpu : WF_vars(FirmwareStarts(c)) /\ WF_vars(Step(c))

Spec == Init /\ [][Next]_vars
FairSpec == Spec /\ Fairness

----------------------------------------------------------------------------
BootLocation ==
  {"off", "loop", "poll", "loopEnd", "bootFailed", "smodeStart", "main", "shutdown"}

TypeOK ==
  /\ EndTypeOK
  /\ pc \in [Cpu -> EndLocation \cup BootLocation]
  /\ boot \in Cpu /\ hart \in Nat
  /\ hsm \in [Cpu -> {"started", "stopped", "pending"}]
  /\ shutdown \in BOOLEAN

(* With one CPU running when the firmware hands over, the trampoline asks  *)
(* for no CPU twice and never for itself: its own checks do not shut the   *)
(* system down.                                                            *)
BootNeverFails == \A c \in Cpu : pc[c] # "bootFailed"

(* The trampoline gets through its loop, and every CPU of its mask is up   *)
(* by then: polling for one CPU cannot hold back the others for ever.      *)
LoopEnds ==
  /\ <>(shutdown \/ pc[boot] \notin {"loop", "poll", "loopEnd"})
  /\ \A h \in Cpu : h \in StartMask(boot) ~> shutdown \/ hsm[h] = "started"

(* Apart from a main() that returns a status of its own making, the only   *)
(* thing that leaves a run without an end is an active CPU that was not    *)
(* started.                                                                *)
NotStarted == \E c \in ActiveMask : hsm[c] = "stopped"
VerdictUnlessNotStarted ==
  <>[]NotStarted \/ <>(tohost # 0 \/ shutdown \/ ReturnedRunning)

(* sbi_firmware_boot.smode.S:18: "The running cpu will make SBI HSM calls  *)
(* to wake up the other cpus and start them running in S-mode."            *)
EveryActiveCpuStarts == \A c \in ActiveMask : <>(shutdown \/ hsm[c] = "started")
=============================================================================
