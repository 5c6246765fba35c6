------------------------------ MODULE DiagRun ------------------------------
(***************************************************************************)
(* A whole run of a diag booted in M-mode: _mmode_start parks the inactive *)
(* CPUs and marks the others RUNNING, main() runs on every active CPU and  *)
(* meets the others at sync_all_cpus a number of times, and _mmode_end     *)
(* (EndOfSim) turns what the CPUs returned into a verdict.                 *)
(*                                                                         *)
(* main() itself is the diag's: it may return early with an error, or give *)
(* up through jumpstart_mmode_fail; it returns DIAG_PASSED only past its   *)
(* last barrier.  jumpstart_smode_fail is a return of DIAG_FAILED here     *)
(* (it leaves S-mode with that value, and jump_to_main goes on to          *)
(* _mmode_end).  The barrier is taken at the level of Barrier, which       *)
(* SyncBarrier is shown to implement.                                      *)
(***************************************************************************)
EXTENDS EndOfSim

CONSTANT Rounds     \* calls of sync_all_cpus main() makes on each CPU

ASSUME RoundsAssumption == Rounds \in Nat

VARIABLES
  met,              \* barriers each CPU has come out of
  gathered,         \* Barrier: who has arrived and waits
  released          \* Barrier: who is let go and still inside

diagVars == <<met, gathered, released>>
vars == <<endVars, diagVars>>

All == "cpu_sync_point"
Gate == INSTANCE Barrier WITH
          Point <- {All}, Members <- [s \in {All} |-> ActiveMask]

Init ==
  /\ EndInit
  /\ pc = [c \in Cpu |-> "reset"]
  /\ met = [c \in Cpu |-> 0]
  /\ Gate!BInit

----------------------------------------------------------------------------
(* handle_inactive_cpus *)
ParkInactive(c) ==
  /\ pc[c] = "reset"
  /\ c \notin ActiveMask
  /\ Goto(c, "wfi")
  /\ UNCHANGED <<status, cursor, tohost, returned, diagVars>>

(* The rest of _mmode_start and jump_to_main: it touches no other state    *)
(* that CPUs share than the byte of this one.                              *)
StartMain(c) ==
  /\ pc[c] = "reset"
  /\ c \in ActiveMask
  /\ status' = [status EXCEPT ![c] = CPU_RUNNING]
  /\ Goto(c, "main")
  /\ UNCHANGED <<cursor, tohost, returned, diagVars>>

EnterSync(c) ==
  /\ pc[c] = "main" /\ met[c] < Rounds
  /\ Gate!Arrive(All, c)
  /\ Goto(c, "sync")
  /\ UNCHANGED <<status, cursor, tohost, met, returned>>

OpenSync ==
  /\ Gate!Open(All)
  /\ UNCHANGED <<endVars, met>>

LeaveSync(c) ==
  /\ pc[c] = "sync"
  /\ Gate!Depart(All, c)
  /\ met' = [met EXCEPT ![c] = @ + 1]
  /\ Goto(c, "main")
  /\ UNCHANGED <<status, cursor, tohost, returned>>

ReturnFromMain(c) ==
  /\ pc[c] = "main"
  /\ \E v \in MainReturn :
       /\ v = DIAG_PASSED => met[c] = Rounds
       /\ StoreStatus(c, v)
  /\ UNCHANGED diagVars

(* A failed check, or a trap nobody expects, in M-mode.                    *)
MmodeFail(c) ==
  /\ pc[c] = "main"
  /\ Goto(c, "failed")
  /\ UNCHANGED <<status, cursor, tohost, returned, diagVars>>

Boot(c) == ParkInactive(c) \/ StartMain(c)
Main(c) == EnterSync(c) \/ LeaveSync(c) \/ ReturnFromMain(c) \/ MmodeFail(c)
End(c) == EndStep(c) /\ UNCHANGED diagVars
Step(c) == Boot(c) \/ Main(c) \/ End(c)

Next == OpenSync \/ \E c \in Cpu : Step(c)

(* Harts keep executing, and a driver with everybody in opens the point.   *)
Fairness == WF_vars(OpenSync) /\ \A c \in Cpu : WF_vars(Step(c))

Spec == Init /\ [][Next]_vars
FairSpec == Spec /\ Fairness

----------------------------------------------------------------------------
DiagLocation == {"reset", "main", "sync"}

TypeOK ==
  /\ EndTypeOK
  /\ pc \in [Cpu -> EndLocation \cup DiagLocation]
  /\ met \in [Cpu -> 0..Rounds]
  /\ gathered \in [{All} -> SUBSET ActiveMask]
  /\ released \in [{All} -> SUBSET ActiveMask]

(* A CPU waits in a barrier for one that has left main() early.            *)
StrandedInSync ==
  \E c \in gathered[All], d \in ActiveMask \ gathered[All] : returned[d] # {}
(* Two things leave a run without a verdict, a CPU stranded in a barrier   *)
(* and a main() that returned a status of its own making.  Every other run *)
(* ends with one, in whatever order the CPUs fail, return and are seen.    *)
VerdictUnlessStranded == <>(tohost # 0 \/ StrandedInSync \/ ReturnedRunning)

(* reference_manual.md: the diag may give up with jumpstart_smode_fail,    *)
(* and "On return from the diag, JumpStart will exit the simulation with   *)
(* the appropriate exit code".  A CPU that fails ends the simulation.      *)
FailureEndsSimulation ==
  \A c \in ActiveMask : returned[c] = {DIAG_FAILED} ~> tohost # 0
=============================================================================
