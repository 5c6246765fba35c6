--------------------------- MODULE DiagRunProofs ---------------------------
(***************************************************************************)
(* Proofs about a run of a diag: for any CPUs, any active mask and primary *)
(* in it, any values main() returns and any number of barriers, the        *)
(* verdict is sound and final.                                             *)
(***************************************************************************)
EXTENDS DiagRun, TLAPS

(***************************************************************************)
(* The inductive invariant.  The status byte of a CPU follows where it is  *)
(* and what its main() returned; only the primary scans, and what is       *)
(* behind its cursor has returned and passed; a CPU on the fail path other *)
(* than the primary has not returned from main(); and each verdict has a   *)
(* CPU that has stopped for it.                                            *)
(***************************************************************************)
StatusFollows == \A c \in Cpu :
  /\ pc[c] = "reset" => status[c] = CPU_INACTIVE /\ returned[c] = {}
  /\ pc[c] \in {"main", "sync"} =>
       c \in ActiveMask /\ status[c] = CPU_RUNNING /\ returned[c] = {}
  /\ status[c] \notin {CPU_RUNNING, CPU_INACTIVE} => returned[c] # {}
  /\ \A v \in returned[c] : status[c] = ToByte(v)

Behind(d) == returned[d] # {} /\ status[d] = DIAG_PASSED
Scanned == \A d \in ActiveMask : d < cursor => Behind(d)
Scanning == {"waitInactive", "waitRunning", "passed"}
OnlyPrimaryScans == \A c \in Cpu :
  /\ pc[c] \in Scanning => c = PrimaryCpuId /\ returned[c] # {}
  /\ pc[c] = "passed" => \A d \in ActiveMask : d < cursor
FailedAlone == \A c \in Cpu :
  /\ pc[c] = "failed" => c \in ActiveMask
  /\ pc[c] = "failed" /\ c # PrimaryCpuId => returned[c] = {}
StoppedFor ==
  /\ tohost = 1 => /\ pc[PrimaryCpuId] = "stopped"
                   /\ \A d \in ActiveMask : d < cursor
  /\ tohost = 3 => \E c \in ActiveMask :
                     /\ pc[c] = "stopped"
                     /\ c = PrimaryCpuId \/ returned[c] = {}

SyncsLeft == \A c \in Cpu : pc[c] = "sync" => met[c] < Rounds

IInv == /\ TypeOK /\ StatusFollows /\ Scanned /\ OnlyPrimaryScans
        /\ FailedAlone /\ StoppedFor /\ SyncsLeft

(* sb leaves a byte.                                                       *)
LEMMA ByteRange == \A v \in MainReturn : ToByte(v) \in 0..255
BY MachineAssumption DEF ToByte

USE DEF DIAG_PASSED, DIAG_FAILED, CPU_RUNNING, CPU_INACTIVE

LEMMA InitIInv == Init => IInv
<1> SUFFICES ASSUME Init PROVE IInv
  OBVIOUS
<1> USE MachineAssumption DEF Init, EndInit
<1>1. TypeOK
  BY RoundsAssumption
     DEF Gate!BInit, TypeOK, EndTypeOK, EndLocation, DiagLocation
<1>2. StatusFollows
  BY DEF StatusFollows
<1>3. Scanned /\ OnlyPrimaryScans
  BY DEF Scanned, Scanning, OnlyPrimaryScans
<1>4. FailedAlone /\ StoppedFor /\ SyncsLeft
  BY DEF FailedAlone, StoppedFor, SyncsLeft
<1> QED
  BY <1>1, <1>2, <1>3, <1>4 DEF IInv

(* Steps that move one CPU among places that mean the same to the end of   *)
(* sim, and the barrier's own step.                                        *)
LEMMA SyncKeepsIInv ==
  ASSUME IInv, OpenSync \/ \E c \in Cpu : EnterSync(c) \/ LeaveSync(c)
  PROVE  IInv'
<1> USE DEF IInv, EndTypeOK
<1>1. CASE OpenSync
  <2>1. TypeOK'
    BY <1>1 DEF OpenSync, TypeOK, Gate!Open, endVars
  <2> QED
    BY <1>1, <2>1 DEF OpenSync, endVars, StatusFollows, Scanned, Behind,
       OnlyPrimaryScans, FailedAlone, StoppedFor, SyncsLeft
<1>2. ASSUME NEW c \in Cpu, EnterSync(c) \/ LeaveSync(c) PROVE IInv'
  <2>1. /\ pc[c] \in {"main", "sync"} /\ pc'[c] \in {"main", "sync"}
        /\ pc' = [pc EXCEPT ![c] = pc'[c]]
        /\ UNCHANGED <<status, cursor, tohost, returned>>
    BY <1>2 DEF EnterSync, LeaveSync, Goto, TypeOK
  <2>2. met' \in [Cpu -> 0..Rounds] /\ SyncsLeft'
    <3>1. CASE EnterSync(c)
      BY <3>1 DEF EnterSync, Goto, TypeOK, SyncsLeft
    <3>2. CASE LeaveSync(c)
      <4>1. /\ met[c] \in 0..Rounds /\ met[c] < Rounds
            /\ met' = [met EXCEPT ![c] = @ + 1]
            /\ pc' = [pc EXCEPT ![c] = "main"]
        BY <3>2 DEF LeaveSync, Goto, TypeOK, SyncsLeft
      <4> QED
        BY <4>1, RoundsAssumption DEF TypeOK, SyncsLeft
    <3> QED
      BY <1>2, <3>1, <3>2
  <2>3. gathered' \in [{All} -> SUBSET ActiveMask]
    BY <1>2 DEF EnterSync, LeaveSync, TypeOK, Gate!Arrive, Gate!Depart
  <2>4. released' \in [{All} -> SUBSET ActiveMask]
    BY <1>2 DEF EnterSync, LeaveSync, TypeOK, Gate!Arrive, Gate!Depart
  <2>5. TypeOK'
    BY <2>1, <2>2, <2>3, <2>4 DEF TypeOK, DiagLocation
  <2>6. StatusFollows'
    BY <2>1 DEF StatusFollows, TypeOK
  <2>7. \A d \in Cpu :
          pc'[d] = pc[d] \/ (pc[d] \in {"main", "sync"} /\ pc'[d] \in {"main", "sync"})
    BY <2>1 DEF TypeOK
  <2>8. Scanned' /\ OnlyPrimaryScans'
    BY <2>1, <2>7 DEF Scanned, Behind, Scanning, OnlyPrimaryScans
  <2>9. FailedAlone' /\ StoppedFor'
    BY <2>1, <2>7, MachineAssumption DEF FailedAlone, StoppedFor
  <2> QED
    BY <2>2, <2>5, <2>6, <2>8, <2>9
<1> QED
  BY <1>1, <1>2

(* _mmode_start *)
LEMMA BootKeepsIInv ==
  ASSUME IInv, NEW c \in Cpu, Boot(c)
  PROVE  IInv'
<1> USE DEF IInv, EndTypeOK
<1>1. /\ pc[c] = "reset" /\ returned[c] = {} /\ status[c] = CPU_INACTIVE
      /\ pc'[c] = IF c \in ActiveMask THEN "main" ELSE "wfi"
      /\ pc' = [pc EXCEPT ![c] = pc'[c]]
      /\ status' = IF c \in ActiveMask
                   THEN [status EXCEPT ![c] = CPU_RUNNING] ELSE status
      /\ UNCHANGED <<cursor, tohost, returned, diagVars>>
  BY DEF Boot, ParkInactive, StartMain, Goto, TypeOK, StatusFollows
<1>2. TypeOK'
  BY <1>1 DEF TypeOK, EndLocation, DiagLocation, diagVars
<1>3. StatusFollows'
  BY <1>1 DEF TypeOK, StatusFollows, diagVars
<1>4. \A d \in Cpu : pc'[d] # pc[d] => d = c
  BY <1>1 DEF TypeOK
<1>5. \A d \in ActiveMask : status'[d] # status[d] => returned[d] = {}
  BY <1>1, MachineAssumption DEF TypeOK
<1>6. Scanned'
  BY <1>1, <1>5 DEF Scanned, Behind, diagVars
<1>7. OnlyPrimaryScans' /\ SyncsLeft'
  BY <1>1, <1>4 DEF OnlyPrimaryScans, Scanning, SyncsLeft, diagVars
<1>8. FailedAlone' /\ StoppedFor'
  BY <1>1, <1>4, MachineAssumption DEF FailedAlone, StoppedFor, diagVars
<1> QED
  BY <1>2, <1>3, <1>6, <1>7, <1>8

(* A return from main() and the store at _mmode_end.                       *)
LEMMA ReturnKeepsIInv ==
  ASSUME IInv, NEW c \in Cpu, ReturnFromMain(c)
  PROVE  IInv'
<1> USE DEF IInv, EndTypeOK
<1>1. PICK v \in MainReturn :
        /\ StoreStatus(c, v)
        /\ returned' = [returned EXCEPT ![c] = {v}]
  BY DEF ReturnFromMain, StoreStatus
<1>2. /\ pc[c] = "main" /\ returned[c] = {} /\ c \in ActiveMask
      /\ ToByte(v) \in 0..255
      /\ status' = [status EXCEPT ![c] = ToByte(v)]
      /\ pc'[c] = IF c = PrimaryCpuId THEN "waitInactive" ELSE "wfi"
      /\ pc' = [pc EXCEPT ![c] = pc'[c]]
      /\ returned'[c] = {v}
      /\ UNCHANGED <<cursor, tohost, met, gathered, released>>
  BY <1>1, ByteRange DEF ReturnFromMain, StoreStatus, Goto, TypeOK, StatusFollows, diagVars
<1>3. TypeOK'
  BY <1>1, <1>2 DEF TypeOK, EndLocation
<1>4. StatusFollows'
  BY <1>1, <1>2 DEF TypeOK, StatusFollows
<1>5. \A d \in Cpu : d # c =>
        pc'[d] = pc[d] /\ status'[d] = status[d] /\ returned'[d] = returned[d]
  BY <1>1, <1>2 DEF TypeOK
<1>6. Scanned'
  BY <1>2, <1>5, MachineAssumption DEF Scanned, Behind
<1>7. OnlyPrimaryScans' /\ SyncsLeft'
  BY <1>2, <1>5 DEF OnlyPrimaryScans, Scanning, SyncsLeft
<1>8. FailedAlone'
  BY <1>2, <1>5 DEF FailedAlone
<1>9. StoppedFor'
  BY <1>2, <1>5, MachineAssumption DEF StoppedFor, Scanned, Behind
<1> QED
  BY <1>3, <1>4, <1>6, <1>7, <1>8, <1>9

LEMMA MmodeFailKeepsIInv ==
  ASSUME IInv, NEW c \in Cpu, MmodeFail(c)
  PROVE  IInv'
<1> USE DEF IInv, EndTypeOK
<1>1. /\ pc[c] = "main" /\ returned[c] = {} /\ c \in ActiveMask
      /\ pc'[c] = "failed"
      /\ pc' = [pc EXCEPT ![c] = "failed"]
      /\ UNCHANGED <<status, cursor, tohost, returned, diagVars>>
  BY DEF MmodeFail, Goto, TypeOK, StatusFollows
<1>2. TypeOK'
  BY <1>1 DEF TypeOK, EndLocation, diagVars
<1>3. StatusFollows'
  BY <1>1 DEF TypeOK, StatusFollows, diagVars
<1>4. \A d \in Cpu : pc'[d] # pc[d] => d = c
  BY <1>1 DEF TypeOK
<1>5. Scanned' /\ OnlyPrimaryScans' /\ SyncsLeft'
  BY <1>1, <1>4 DEF Scanned, Behind, OnlyPrimaryScans, Scanning, SyncsLeft, diagVars
<1>6. FailedAlone' /\ StoppedFor'
  BY <1>1, <1>4, MachineAssumption DEF FailedAlone, StoppedFor, diagVars
<1> QED
  BY <1>2, <1>3, <1>5, <1>6

(* What the scan's steps have in common: only the primary moves, and its   *)
(* cursor passes nobody that has not returned and passed.                  *)
LEMMA ScanKeepsIInv ==
  ASSUME IInv, NEW c \in Cpu,
         SkipInactive(c) \/ SeeStarted(c) \/ SeeEnded(c),
         UNCHANGED diagVars
  PROVE  IInv'
<1> USE DEF IInv, EndTypeOK
<1>1. /\ pc[c] \in {"waitInactive", "waitRunning"}
      /\ pc'[c] \in {"waitInactive", "waitRunning", "passed", "failed"}
      /\ pc' = [pc EXCEPT ![c] = pc'[c]]
      /\ UNCHANGED <<status, tohost, met, gathered, released, returned>>
  BY DEF SkipInactive, SeeStarted, SeeEnded, NextCpu, Goto, TypeOK, diagVars
<1>2. c = PrimaryCpuId /\ returned[c] # {}
  BY <1>1 DEF OnlyPrimaryScans, Scanning
<1>3. cursor \in Nat /\ cursor' \in {cursor, cursor + 1}
  BY DEF SkipInactive, SeeStarted, SeeEnded, NextCpu, TypeOK
<1>4. cursor' = cursor + 1 /\ cursor \in ActiveMask =>
        status[cursor] = DIAG_PASSED
  BY <1>3 DEF SkipInactive, SeeStarted, SeeEnded
<1>5. pc'[c] = "passed" => ToCheck(cursor') = {}
  BY <1>1 DEF SkipInactive, SeeStarted, SeeEnded, NextCpu, Goto, TypeOK
<1>6. TypeOK'
  BY <1>1, <1>3 DEF TypeOK, EndLocation
<1>7. StatusFollows'
  BY <1>1 DEF StatusFollows, TypeOK
<1>8. \A d \in Cpu : d # c => pc'[d] = pc[d]
  BY <1>1 DEF TypeOK
<1>9. Scanned'
  <2> SUFFICES ASSUME NEW d \in ActiveMask, d < cursor' PROVE Behind(d)
    BY <1>1 DEF Scanned, Behind
  <2>1. d \in Nat /\ d \in Cpu
    BY MachineAssumption
  <2>2. d < cursor \/ (d = cursor /\ cursor' = cursor + 1)
    BY <1>3, <2>1
  <2> QED
    BY <1>4, <2>1, <2>2 DEF Scanned, Behind, StatusFollows
<1>10. OnlyPrimaryScans'
  <2>1. pc'[c] = "passed" => \A d \in ActiveMask : d < cursor'
    BY <1>3, <1>5, MachineAssumption DEF ToCheck
  <2> QED
    BY <1>1, <1>2, <1>8, <2>1 DEF OnlyPrimaryScans, Scanning
<1>11. FailedAlone' /\ SyncsLeft'
  BY <1>1, <1>2, <1>8, MachineAssumption DEF FailedAlone, SyncsLeft
<1>12. StoppedFor'
  BY <1>1, <1>2, <1>8, MachineAssumption DEF StoppedFor
<1> QED
  BY <1>6, <1>7, <1>9, <1>10, <1>11, <1>12

(* Everyone has returned once the primary has passed, so a CPU that fails  *)
(* then is the primary: the two ends of the run exclude each other.        *)
LEMMA VerdictsAgree ==
  ASSUME IInv, NEW c \in Cpu
  PROVE  /\ pc[c] = "passed" => tohost # 3
         /\ pc[c] = "failed" => tohost # 1
<1> USE DEF IInv
<1>1. CASE pc[c] = "passed"
  BY <1>1, MachineAssumption
     DEF OnlyPrimaryScans, Scanning, Scanned, Behind, StoppedFor
<1>2. CASE pc[c] = "failed"
  BY <1>2, MachineAssumption DEF FailedAlone, Scanned, Behind, StoppedFor
<1> QED
  BY <1>1, <1>2

LEMMA WriteKeepsIInv ==
  ASSUME IInv, NEW c \in Cpu, WriteToHost(c), UNCHANGED diagVars
  PROVE  IInv'
<1> USE DEF IInv, EndTypeOK
<1>1. /\ pc[c] \in {"passed", "failed"}
      /\ pc'[c] = "stopped"
      /\ pc' = [pc EXCEPT ![c] = "stopped"]
      /\ tohost' = IF pc[c] = "passed" THEN 1 ELSE 3
      /\ UNCHANGED <<status, cursor, met, gathered, released, returned>>
  BY DEF WriteToHost, Goto, ToHostCode, TypeOK, diagVars
<1>2. TypeOK'
  BY <1>1 DEF TypeOK, EndLocation
<1>3. StatusFollows'
  BY <1>1 DEF TypeOK, StatusFollows
<1>4. \A d \in Cpu : d # c => pc'[d] = pc[d]
  BY <1>1 DEF TypeOK
<1>5. Scanned' /\ OnlyPrimaryScans' /\ FailedAlone' /\ SyncsLeft'
  BY <1>1, <1>4 DEF Scanned, Behind, OnlyPrimaryScans, Scanning, FailedAlone, SyncsLeft
<1>6. StoppedFor'
  <2>1. CASE pc[c] = "passed"
    BY <1>1, <2>1, MachineAssumption DEF StoppedFor, OnlyPrimaryScans, Scanning
  <2>2. CASE pc[c] = "failed"
    BY <1>1, <2>2, MachineAssumption DEF StoppedFor, FailedAlone
  <2> QED
    BY <1>1, <2>1, <2>2
<1> QED
  BY <1>2, <1>3, <1>5, <1>6

LEMMA NextKeepsIInv ==
  ASSUME IInv, [Next]_vars
  PROVE  IInv'
<1>1. CASE UNCHANGED vars
  BY <1>1 DEF vars, endVars, diagVars, IInv, TypeOK, EndTypeOK, StatusFollows, Scanned, Behind,
     OnlyPrimaryScans, FailedAlone, StoppedFor, SyncsLeft
<1>2. CASE OpenSync
  BY <1>2, SyncKeepsIInv
<1>3. ASSUME NEW c \in Cpu, Step(c) PROVE IInv'
  <2>1. CASE Boot(c)
    BY <2>1, BootKeepsIInv
  <2>2. CASE Main(c)
    BY <2>2, SyncKeepsIInv, ReturnKeepsIInv, MmodeFailKeepsIInv DEF Main
  <2>3. CASE End(c)
    BY <2>3, ScanKeepsIInv, WriteKeepsIInv DEF End, EndStep
  <2> QED
    BY <1>3, <2>1, <2>2, <2>3 DEF Step
<1> QED
  BY <1>1, <1>2, <1>3 DEF Next

(* Every reachable state satisfies the inductive invariant.                *)
THEOREM Invariance == Spec => []IInv
<1> QED
  BY InitIInv, NextKeepsIInv, PTL DEF Spec

(* Status bytes, the cursor and tohost stay in their ranges.               *)
THEOREM TypeCorrect == Spec => []TypeOK
<1>1. IInv => TypeOK
  BY DEF IInv
<1> QED
  BY <1>1, Invariance, PTL

(* The scan of _mmode_end is sound: it announces a pass only when main()   *)
(* has returned, with a low byte of DIAG_PASSED, on every active CPU.      *)
THEOREM PassIsSound == Spec => []PassMeansAllPassed
<1>1. IInv => PassMeansAllPassed
  <2> SUFFICES ASSUME IInv, tohost = 1, NEW c \in ActiveMask
               PROVE  \E v \in returned[c] : v % 256 = DIAG_PASSED
    BY DEF PassMeansAllPassed
  <2>1. c \in Cpu /\ returned[c] # {} /\ status[c] = DIAG_PASSED
    BY MachineAssumption DEF IInv, StoppedFor, Scanned, Behind
  <2> QED
    BY <2>1 DEF IInv, StatusFollows, ToByte
<1> QED
  BY <1>1, Invariance, PTL

(* However many CPUs write tohost, they write one verdict.                 *)
THEOREM OneVerdict == Spec => VerdictIsFinal
<1>1. IInv /\ [Next]_vars => (tohost # 0 => tohost' = tohost)
  <2> SUFFICES ASSUME IInv, [Next]_vars, tohost # 0 PROVE tohost' = tohost
    OBVIOUS
  <2>1. ASSUME NEW c \in Cpu, WriteToHost(c) PROVE tohost' = tohost
    BY <2>1, VerdictsAgree DEF WriteToHost, ToHostCode, IInv, TypeOK, EndTypeOK
  <2> QED
    BY <2>1 DEF Next, OpenSync, Step, Boot, ParkInactive, StartMain, Main, EnterSync,
       LeaveSync, ReturnFromMain, StoreStatus, MmodeFail, End, EndStep, SkipInactive,
       SeeStarted, SeeEnded, vars, endVars
<1> QED
  BY <1>1, Invariance, PTL DEF Spec, VerdictIsFinal

(* The primary reads each byte once, so a byte it has passed must not      *)
(* change: no CPU stores its status after the primary has gone by.         *)
THEOREM CheckedIsFinal == Spec => CheckedStaysChecked
<1>1. ASSUME IInv, [Next]_vars, NEW d \in ActiveMask, d < cursor
      PROVE  status'[d] = status[d]
  <2>1. d \in Cpu /\ returned[d] # {}
    BY <1>1, MachineAssumption DEF IInv, Scanned, Behind
  <2>2. pc[d] \notin {"reset", "main"}
    BY <1>1, <2>1 DEF IInv, StatusFollows
  <2>3. ASSUME NEW c \in Cpu, StartMain(c) \/ ReturnFromMain(c)
        PROVE  status'[d] = status[d]
    BY <1>1, <2>1, <2>2, <2>3
       DEF StartMain, ReturnFromMain, StoreStatus, IInv, TypeOK, EndTypeOK
  <2> QED
    BY <1>1, <2>3 DEF Next, OpenSync, Step, Boot, ParkInactive, Main, EnterSync,
       LeaveSync, MmodeFail, End, EndStep, SkipInactive, SeeStarted, SeeEnded,
       WriteToHost, vars, endVars
<1>2. IInv /\ [Next]_vars =>
        (\A d \in ActiveMask : d < cursor => status'[d] = status[d])
  BY <1>1
<1> QED
  BY <1>2, Invariance, PTL DEF Spec, CheckedStaysChecked
=============================================================================
