--------------------------- MODULE SbiBootProofs ---------------------------
(***************************************************************************)
(* Proofs about a diag booted by SBI firmware: for any CPUs, any active    *)
(* mask and any CPU the firmware hands over on, a pass is sound, and the   *)
(* trampoline's own checks never shut the system down.                     *)
(***************************************************************************)
EXTENDS SbiBoot, TLAPS

(***************************************************************************)
(* The inductive invariant, in two halves.  The trampoline runs on one     *)
(* CPU, and the CPUs its loop has not come to are still stopped, so it     *)
(* asks for none of them twice.  The scan at the end is as in a diag that  *)
(* M-mode boots: what is behind the cursor has returned and passed.        *)
(***************************************************************************)
Booting == {"loop", "poll", "loopEnd", "bootFailed"}
Unstarted == Booting \cup {"off", "smodeStart"}
Ahead == {h \in Cpu : h > hart /\ h # boot}

OneBoots == \A c \in Cpu : pc[c] \in Booting => c = boot
LoopSound ==
  /\ pc[boot] \in {"loop", "poll"} => hart <= boot /\ \A h \in Ahead : hsm[h] = "stopped"
  /\ pc[boot] = "loop" /\ hart # boot /\ hart \in Cpu => hsm[hart] = "stopped"
  /\ pc[boot] = "poll" => hart \in Cpu /\ hart # boot
  /\ hsm[boot] # "pending"
DownIsOff == \A c \in Cpu : hsm[c] # "started" => pc[c] = "off"

StatusFollows == \A c \in Cpu :
  /\ pc[c] \in Unstarted => status[c] = CPU_INACTIVE /\ returned[c] = {}
  /\ pc[c] = "main" => status[c] = CPU_RUNNING /\ returned[c] = {}
  /\ status[c] \notin {CPU_RUNNING, CPU_INACTIVE} => returned[c] # {}
  /\ \A v \in returned[c] : status[c] = ToByte(v)
Scanned == \A d \in ActiveMask : d < cursor => returned[d] # {} /\ status[d] = DIAG_PASSED
PassedAll == \A c \in Cpu : pc[c] = "passed" => \A d \in ActiveMask : d < cursor
PassStands == tohost = 1 => \A d \in ActiveMask : d < cursor

IInv == /\ TypeOK /\ OneBoots /\ LoopSound /\ DownIsOff
        /\ StatusFollows /\ Scanned /\ PassedAll /\ PassStands

USE DEF DIAG_PASSED, DIAG_FAILED, CPU_RUNNING, CPU_INACTIVE

LEMMA InitIInv == Init => IInv
<1> SUFFICES ASSUME Init PROVE IInv
  OBVIOUS
<1> USE MachineAssumption, BootAssumption DEF Init, EndInit
<1>1. TypeOK
  <2>1. boot \in Cpu
    OBVIOUS
  <2>2. EndTypeOK
    BY DEF EndTypeOK
  <2> QED
    BY <2>1, <2>2 DEF TypeOK, BootLocation
<1>2. OneBoots /\ LoopSound /\ DownIsOff
  BY DEF OneBoots, LoopSound, DownIsOff, Booting, Ahead
<1>3. StatusFollows /\ Scanned /\ PassedAll /\ PassStands
  BY DEF StatusFollows, Scanned, PassedAll, PassStands
<1> QED
  BY <1>1, <1>2, <1>3 DEF IInv

(* Before main() nothing of the end of sim changes.                        *)
LEMMA TrampolineKeepsIInv ==
  ASSUME IInv, Trampoline
  PROVE  IInv'
<1> USE DEF IInv
<1>1. /\ boot' = boot /\ boot \in Cpu /\ boot \in Nat /\ hart \in Nat
      /\ pc[boot] \in Booting
      /\ pc'[boot] \in {"loop", "poll", "loopEnd", "bootFailed", "smodeStart", "off"}
      /\ pc' = [pc EXCEPT ![boot] = pc'[boot]]
      /\ UNCHANGED <<status, cursor, tohost, returned>>
  BY MachineAssumption DEF Trampoline, SkipHart, StartHart, PollStarted, LeaveLoop, Advance,
     Goto, Booting, TypeOK
<1>2. \A c \in Cpu : c # boot => pc'[c] = pc[c]
  BY <1>1 DEF TypeOK
<1>3. hart' \in {hart, hart + 1} /\ shutdown' \in BOOLEAN
  BY DEF Trampoline, SkipHart, StartHart, PollStarted, LeaveLoop, Advance, NextHart, TypeOK
<1>4. hsm' \in [Cpu -> {"started", "stopped", "pending"}]
  <2>1. hsm \in [Cpu -> {"started", "stopped", "pending"}]
    BY DEF TypeOK
  <2>2. CASE SkipHart \/ PollStarted
    BY <2>1, <2>2 DEF SkipHart, PollStarted
  <2>3. CASE StartHart
    BY <2>1, <2>3 DEF StartHart
  <2>4. CASE LeaveLoop
    BY <2>1, <2>4 DEF LeaveLoop
  <2> QED
    BY <2>2, <2>3, <2>4 DEF Trampoline
<1>5. TypeOK'
  <2>1. EndTypeOK'
    BY <1>1 DEF TypeOK, EndTypeOK
  <2>2. pc' \in [Cpu -> EndLocation \cup BootLocation]
    BY <1>1 DEF TypeOK, BootLocation
  <2>3. boot' \in Cpu /\ hart' \in Nat
    BY <1>1, <1>3
  <2> QED
    BY <1>3, <1>4, <2>1, <2>2, <2>3 DEF TypeOK
<1>6. StatusFollows' /\ Scanned' /\ PassedAll' /\ PassStands'
  BY <1>1, <1>2 DEF StatusFollows, Unstarted, Booting, Scanned, PassedAll, PassStands
<1>7. OneBoots'
  BY <1>1, <1>2 DEF OneBoots
<1>8. ASSUME Advance, UNCHANGED hsm,
             \A h \in Ahead : hsm[h] = "stopped", pc[boot] # "off"
      PROVE  LoopSound' /\ DownIsOff'
  <2>1. pc'[boot] # "poll"
    BY <1>1, <1>8 DEF Advance, Goto, TypeOK
  <2>2. pc'[boot] = "loop" => hart' = hart + 1 /\ \E h \in StartMask(boot) : h > hart
    BY <1>1, <1>8 DEF Advance, Goto, TypeOK, NextHart
  <2>3. pc'[boot] = "loop" => hart' <= boot /\ (\A h \in Ahead' : h \in Ahead)
    BY <1>1, <2>2, MachineAssumption DEF StartMask, Ahead
  <2>4. pc'[boot] = "loop" /\ hart' # boot /\ hart' \in Cpu => hart' \in Ahead
    BY <1>1, <2>2 DEF Ahead
  <2>5. LoopSound'
    BY <1>1, <1>8, <2>1, <2>3, <2>4 DEF LoopSound
  <2>6. hsm[boot] = "started"
    BY <1>1, <1>8 DEF DownIsOff, TypeOK
  <2> QED
    BY <1>1, <1>2, <1>8, <2>5, <2>6 DEF DownIsOff
<1>9. pc[boot] # "off"
  BY <1>1 DEF Booting
<1>10. CASE SkipHart
  BY <1>8, <1>9, <1>10, <1>5, <1>6, <1>7 DEF SkipHart, LoopSound
<1>11. CASE StartHart
  <2>1. /\ pc[boot] = "loop" /\ hart # boot /\ hart' = hart
        /\ IF CanStart(hart)
           THEN hsm' = [hsm EXCEPT ![hart] = "pending"] /\ pc'[boot] = "poll"
           ELSE hsm' = hsm /\ pc'[boot] = "bootFailed"
    BY <1>1, <1>11 DEF StartHart, Goto, TypeOK
  <2>2. \A h \in Ahead : h # hart
    BY <1>1, MachineAssumption DEF Ahead
  <2>3. LoopSound'
    <3>1. CASE CanStart(hart)
      BY <1>1, <2>1, <2>2, <3>1 DEF LoopSound, Ahead, CanStart, TypeOK
    <3>2. CASE ~CanStart(hart)
      BY <1>1, <2>1, <3>2 DEF LoopSound
    <3> QED
      BY <3>1, <3>2
  <2>4. DownIsOff'
    <3>1. hsm[boot] = "started"
      BY <1>1, <1>9 DEF DownIsOff, TypeOK
    <3>2. CASE CanStart(hart)
      <4>1. pc[hart] = "off" /\ hart \in Cpu
        BY <3>2 DEF DownIsOff, CanStart
      <4> QED
        BY <1>1, <1>2, <2>1, <3>1, <3>2, <4>1 DEF DownIsOff, TypeOK
    <3>3. CASE ~CanStart(hart)
      BY <1>1, <1>2, <2>1, <3>1, <3>3 DEF DownIsOff
    <3> QED
      BY <3>2, <3>3
  <2> QED
    BY <1>5, <1>6, <1>7, <2>3, <2>4
<1>12. CASE PollStarted
  BY <1>8, <1>9, <1>12, <1>5, <1>6, <1>7 DEF PollStarted, LoopSound
<1>13. CASE LeaveLoop
  <2>1. /\ pc[boot] = "loopEnd"
        /\ IF boot \in ActiveMask
           THEN hsm' = hsm /\ pc'[boot] = "smodeStart"
           ELSE hsm' = [hsm EXCEPT ![boot] = "stopped"] /\ pc'[boot] = "off"
    BY <1>1, <1>13 DEF LeaveLoop, Goto, TypeOK
  <2>2. LoopSound'
    BY <1>1, <2>1 DEF LoopSound, TypeOK
  <2>3. hsm[boot] = "started"
    BY <1>1, <1>9 DEF DownIsOff, TypeOK
  <2>4. DownIsOff'
    BY <1>1, <1>2, <2>1, <2>3 DEF DownIsOff, TypeOK
  <2> QED
    BY <1>5, <1>6, <1>7, <2>2, <2>4
<1> QED
  BY <1>10, <1>11, <1>12, <1>13 DEF Trampoline

LEMMA FirmwareKeepsIInv ==
  ASSUME IInv, NEW c \in Cpu, FirmwareStarts(c)
  PROVE  IInv'
<1> USE DEF IInv
<1>1. /\ hsm[c] = "pending" /\ pc[c] = "off" /\ c # boot /\ boot \in Cpu
      /\ hsm' = [hsm EXCEPT ![c] = "started"]
      /\ pc' = [pc EXCEPT ![c] = "smodeStart"]
      /\ UNCHANGED <<status, cursor, tohost, returned, boot, hart, shutdown>>
  BY DEF FirmwareStarts, Goto, DownIsOff, LoopSound, TypeOK
<1>2. TypeOK'
  BY <1>1 DEF TypeOK, EndTypeOK, BootLocation
<1>3. StatusFollows' /\ Scanned' /\ PassedAll' /\ PassStands'
  BY <1>1 DEF TypeOK, StatusFollows, Unstarted, Booting, Scanned, PassedAll, PassStands
<1>4. OneBoots' /\ DownIsOff'
  BY <1>1 DEF TypeOK, OneBoots, Booting, DownIsOff
<1>5. LoopSound'
  <2>1. pc[boot] = "loop" /\ hart # boot /\ hart \in Cpu => hart # c
    BY <1>1 DEF LoopSound
  <2>2. pc[boot] \in {"loop", "poll"} => c \notin Ahead
    BY <1>1 DEF LoopSound
  <2>3. pc'[boot] = pc[boot] /\ hsm'[boot] = hsm[boot] /\ Ahead' = Ahead
    BY <1>1 DEF TypeOK, Ahead
  <2>4. \A h \in Cpu : h # c => hsm'[h] = hsm[h]
    BY <1>1 DEF TypeOK
  <2> QED
    BY <1>1, <2>1, <2>2, <2>3, <2>4 DEF LoopSound, Ahead
<1> QED
  BY <1>2, <1>3, <1>4, <1>5

(* A CPU past the trampoline moves, and no CPU starts or stops.            *)
LEMMA PastBoot ==
  ASSUME IInv, NEW c \in Cpu,
         pc[c] \notin Booting \cup {"off"}, pc'[c] \notin Booting,
         pc' = [pc EXCEPT ![c] = pc'[c]],
         UNCHANGED <<boot, hart, hsm>>
  PROVE  OneBoots' /\ LoopSound' /\ DownIsOff'
<1> USE DEF IInv
<1>1. \A d \in Cpu : d # c => pc'[d] = pc[d]
  BY DEF TypeOK
<1>2. boot \in Cpu
  BY DEF TypeOK
<1>3. pc'[boot] # pc[boot] => pc'[boot] \notin Booting
  BY <1>1, <1>2
<1>4. Ahead' = Ahead
  BY DEF Ahead
<1>5. LoopSound'
  BY <1>2, <1>3, <1>4 DEF LoopSound, Booting
<1> QED
  BY <1>1, <1>5 DEF OneBoots, DownIsOff

LEMMA StartKeepsIInv ==
  ASSUME IInv, NEW c \in Cpu, StartMain(c)
  PROVE  IInv'
<1> USE DEF IInv
<1>1. /\ pc[c] = "smodeStart"
      /\ pc'[c] \in {"main", "wfi"}
      /\ pc' = [pc EXCEPT ![c] = pc'[c]]
      /\ status' = IF c \in ActiveMask THEN [status EXCEPT ![c] = CPU_RUNNING] ELSE status
      /\ pc'[c] = "main" => c \in ActiveMask
      /\ UNCHANGED <<cursor, tohost, returned, boot, hart, hsm, shutdown>>
  BY DEF StartMain, Goto, TypeOK, bootVars
<1>2. status[c] = CPU_INACTIVE /\ returned[c] = {}
  BY <1>1 DEF StatusFollows, Unstarted
<1>3. TypeOK'
  BY <1>1 DEF TypeOK, EndTypeOK, BootLocation, EndLocation
<1>4. OneBoots' /\ LoopSound' /\ DownIsOff'
  BY <1>1, PastBoot DEF Booting
<1>5. \A d \in Cpu : d # c => pc'[d] = pc[d] /\ status'[d] = status[d]
  BY <1>1 DEF TypeOK, EndTypeOK
<1>6. status'[c] = IF pc'[c] = "main" THEN CPU_RUNNING ELSE status'[c]
  BY <1>1 DEF TypeOK, EndTypeOK
<1>7. StatusFollows'
  BY <1>1, <1>2, <1>5, <1>6 DEF StatusFollows, Unstarted, Booting, TypeOK, EndTypeOK
<1>8. Scanned' /\ PassedAll' /\ PassStands'
  BY <1>1, <1>2, <1>5, MachineAssumption DEF Scanned, PassedAll, PassStands
<1> QED
  BY <1>3, <1>4, <1>7, <1>8

LEMMA ReturnKeepsIInv ==
  ASSUME IInv, NEW c \in Cpu, ReturnFromMain(c)
  PROVE  IInv'
<1> USE DEF IInv
<1>1. PICK v \in MainReturn : StoreStatus(c, v)
  BY DEF ReturnFromMain
<1>2. ToByte(v) \in 0..255
  BY MachineAssumption DEF ToByte
<1>3. /\ pc[c] = "main"
      /\ pc'[c] \in {"waitInactive", "wfi"}
      /\ pc' = [pc EXCEPT ![c] = pc'[c]]
      /\ status' = [status EXCEPT ![c] = ToByte(v)]
      /\ returned' = [returned EXCEPT ![c] = {v}]
      /\ UNCHANGED <<cursor, tohost, boot, hart, hsm, shutdown>>
  BY <1>1 DEF ReturnFromMain, StoreStatus, Goto, TypeOK, bootVars
<1>4. status[c] = CPU_RUNNING /\ returned[c] = {}
  BY <1>3 DEF StatusFollows
<1>5. TypeOK'
  BY <1>2, <1>3 DEF TypeOK, EndTypeOK, EndLocation
<1>6. OneBoots' /\ LoopSound' /\ DownIsOff'
  BY <1>3, PastBoot DEF Booting
<1>7. \A d \in Cpu : d # c =>
        pc'[d] = pc[d] /\ status'[d] = status[d] /\ returned'[d] = returned[d]
  BY <1>3 DEF TypeOK, EndTypeOK
<1>8. status'[c] = ToByte(v) /\ returned'[c] = {v}
  BY <1>3 DEF TypeOK, EndTypeOK
<1>9. StatusFollows'
  BY <1>3, <1>7, <1>8 DEF StatusFollows, Unstarted, Booting
<1>10. Scanned' /\ PassedAll' /\ PassStands'
  BY <1>3, <1>4, <1>7, MachineAssumption DEF Scanned, PassedAll, PassStands
<1> QED
  BY <1>5, <1>6, <1>9, <1>10

LEMMA SmodeFailKeepsIInv ==
  ASSUME IInv, NEW c \in Cpu, SmodeFail(c)
  PROVE  IInv'
<1> USE DEF IInv
<1>1. /\ pc[c] = "main" /\ pc'[c] = "shutdown"
      /\ pc' = [pc EXCEPT ![c] = pc'[c]]
      /\ shutdown' = TRUE
      /\ UNCHANGED <<status, cursor, tohost, returned, boot, hart, hsm>>
  BY DEF SmodeFail, Goto, TypeOK
<1>2. TypeOK'
  BY <1>1 DEF TypeOK, EndTypeOK, BootLocation
<1>3. OneBoots' /\ LoopSound' /\ DownIsOff'
  BY <1>1, PastBoot DEF Booting
<1>4. \A d \in Cpu : d # c => pc'[d] = pc[d]
  BY <1>1 DEF TypeOK
<1>5. StatusFollows' /\ Scanned' /\ PassedAll' /\ PassStands'
  BY <1>1, <1>4 DEF StatusFollows, Unstarted, Booting, Scanned, PassedAll, PassStands
<1> QED
  BY <1>2, <1>3, <1>5

(* The scan of _smode_end passes nobody that has not returned and passed.  *)
LEMMA EndKeepsIInv ==
  ASSUME IInv, NEW c \in Cpu, End(c)
  PROVE  IInv'
<1> USE DEF IInv
<1>1. EndStep(c) /\ UNCHANGED <<boot, hart, hsm, shutdown>>
  BY DEF End, bootVars
<1>2. /\ pc[c] \in {"waitInactive", "waitRunning", "passed", "failed"}
      /\ pc'[c] \in EndLocation
      /\ pc' = [pc EXCEPT ![c] = pc'[c]]
      /\ UNCHANGED <<status, returned>>
  BY <1>1 DEF EndStep, SkipInactive, SeeStarted, SeeEnded, WriteToHost, NextCpu, Goto, TypeOK,
     EndLocation
<1>3. cursor \in Nat /\ cursor' \in {cursor, cursor + 1}
  BY <1>1 DEF EndStep, SkipInactive, SeeStarted, SeeEnded, WriteToHost, NextCpu, TypeOK,
     EndTypeOK
<1>4. tohost' \in {tohost, IF pc[c] = "passed" THEN 1 ELSE 3}
  BY <1>1 DEF EndStep, SkipInactive, SeeStarted, SeeEnded, WriteToHost, ToHostCode
<1>5. TypeOK'
  BY <1>1, <1>2, <1>3, <1>4 DEF TypeOK, EndTypeOK, EndLocation
<1>6. OneBoots' /\ LoopSound' /\ DownIsOff'
  BY <1>1, <1>2, PastBoot DEF Booting, EndLocation
<1>7. \A d \in Cpu : d # c => pc'[d] = pc[d]
  BY <1>2 DEF TypeOK
<1>8. StatusFollows'
  BY <1>2, <1>7 DEF StatusFollows, Unstarted, Booting, EndLocation
<1>9. Scanned'
  <2>1. cursor' = cursor + 1 /\ cursor \in ActiveMask => status[cursor] = DIAG_PASSED
    BY <1>1, <1>3 DEF EndStep, SkipInactive, SeeStarted, SeeEnded, WriteToHost
  <2> SUFFICES ASSUME NEW d \in ActiveMask, d < cursor'
               PROVE  returned[d] # {} /\ status[d] = DIAG_PASSED
    BY <1>2 DEF Scanned
  <2>2. d \in Nat /\ d \in Cpu
    BY MachineAssumption
  <2>3. d < cursor \/ (d = cursor /\ cursor' = cursor + 1)
    BY <1>3, <2>2
  <2> QED
    BY <2>1, <2>2, <2>3 DEF Scanned, StatusFollows
<1>10. PassedAll'
  <2>1. pc'[c] = "passed" => ToCheck(cursor') = {}
    BY <1>1, <1>2 DEF EndStep, SkipInactive, SeeStarted, SeeEnded, WriteToHost, NextCpu, Goto,
       TypeOK
  <2>2. pc'[c] = "passed" => \A d \in ActiveMask : d < cursor'
    BY <1>3, <2>1, MachineAssumption DEF ToCheck
  <2>3. \A d \in ActiveMask : d < cursor => d < cursor'
    BY <1>3, MachineAssumption
  <2> QED
    BY <1>7, <2>2, <2>3 DEF PassedAll
<1>11. PassStands'
  <2>1. \A d \in ActiveMask : d < cursor => d < cursor'
    BY <1>3, MachineAssumption
  <2>2. tohost' = 1 => tohost = 1 \/ pc[c] = "passed"
    BY <1>4
  <2> QED
    BY <2>1, <2>2 DEF PassStands, PassedAll
<1> QED
  BY <1>5, <1>6, <1>8, <1>9, <1>10, <1>11

LEMMA NextKeepsIInv ==
  ASSUME IInv, [Next]_vars
  PROVE  IInv'
<1>1. CASE UNCHANGED vars
  BY <1>1 DEF vars, endVars, bootVars, IInv, TypeOK, EndTypeOK, OneBoots, LoopSound, Ahead,
     DownIsOff, StatusFollows, Scanned, PassedAll, PassStands
<1>2. CASE Trampoline
  BY <1>2, TrampolineKeepsIInv
<1>3. ASSUME NEW c \in Cpu, FirmwareStarts(c) \/ Step(c) PROVE IInv'
  BY <1>3, FirmwareKeepsIInv, StartKeepsIInv, ReturnKeepsIInv, SmodeFailKeepsIInv,
     EndKeepsIInv DEF Step
<1> QED
  BY <1>1, <1>2, <1>3 DEF Next

(* Every reachable state satisfies the inductive invariant.                *)
THEOREM Invariance == Spec => []IInv
<1> QED
  BY InitIInv, NextKeepsIInv, PTL DEF Spec

(* The registers of the trampoline, the HSM states and the status bytes    *)
(* stay in their ranges.                                                   *)
THEOREM TypeCorrect == Spec => []TypeOK
<1>1. IInv => TypeOK
  BY DEF IInv
<1> QED
  BY <1>1, Invariance, PTL

(* The scan of _smode_end is sound: it announces a pass only when main()   *)
(* has returned, with a low byte of DIAG_PASSED, on every active CPU,      *)
(* whichever of them the trampoline did not start.                         *)
THEOREM PassIsSound == Spec => []PassMeansAllPassed
<1>1. IInv => PassMeansAllPassed
  <2> SUFFICES ASSUME IInv, tohost = 1, NEW c \in ActiveMask
               PROVE  \E v \in returned[c] : v % 256 = DIAG_PASSED
    BY DEF PassMeansAllPassed
  <2>1. c \in Cpu /\ returned[c] # {} /\ status[c] = DIAG_PASSED
    BY MachineAssumption DEF IInv, PassStands, Scanned
  <2> QED
    BY <2>1 DEF IInv, StatusFollows, ToByte
<1> QED
  BY <1>1, Invariance, PTL

(* On a machine whose CPUs are numbered from 0 without a gap, up to the    *)
(* one the firmware hands over on, no HSM call of the trampoline is        *)
(* refused (sbi_firmware_boot.smode.S:47).                                 *)
THEOREM TrampolineNeverFails ==
  ASSUME \A b \in BootCpus : 0..b \subseteq Cpu
  PROVE  Spec => []BootNeverFails
<1> DEFINE Whole == boot \in BootCpus /\ BootNeverFails
<1>1. Init => Whole
  BY BootAssumption DEF Init, BootNeverFails
<1>2. ASSUME IInv, Whole, [Next]_vars
      PROVE  Whole'
  <2>1. boot' = boot
    BY <1>2 DEF Next, Trampoline, SkipHart, StartHart, PollStarted, LeaveLoop, FirmwareStarts,
       Step, StartMain, ReturnFromMain, SmodeFail, End, bootVars, vars
  <2>2. boot \in Nat /\ 0..boot \subseteq Cpu
    BY <1>2, BootAssumption, MachineAssumption
  <2>3. ASSUME StartHart PROVE CanStart(hart)
    <3>1. hart \in Cpu
      BY <2>2, <2>3 DEF StartHart, StartMask
    <3> QED
      BY <1>2, <2>3, <3>1 DEF StartHart, IInv, LoopSound, CanStart
  <2>4. ASSUME NEW c \in Cpu PROVE pc'[c] # "bootFailed"
    <3>1. pc \in [Cpu -> EndLocation \cup BootLocation] /\ pc[c] # "bootFailed"
      BY <1>2 DEF IInv, TypeOK, BootNeverFails
    <3>2. CASE Trampoline
      BY <2>3, <3>1, <3>2 DEF Trampoline, SkipHart, StartHart, PollStarted, LeaveLoop, Advance,
         Goto
    <3>3. ASSUME NEW d \in Cpu, FirmwareStarts(d) \/ StartMain(d) \/ ReturnFromMain(d)
                                 \/ SmodeFail(d)
          PROVE  pc'[c] # "bootFailed"
      BY <3>1, <3>3 DEF FirmwareStarts, StartMain, ReturnFromMain, StoreStatus, SmodeFail, Goto
    <3>4. ASSUME NEW d \in Cpu, End(d) PROVE pc'[c] # "bootFailed"
      BY <3>1, <3>4 DEF End, EndStep, SkipInactive, SeeStarted, SeeEnded, NextCpu, WriteToHost,
         Goto
    <3>5. CASE UNCHANGED vars
      BY <3>1, <3>5 DEF vars, endVars
    <3> QED
      BY <1>2, <3>2, <3>3, <3>4, <3>5 DEF Next, Step
  <2>5. boot' \in BootCpus
    BY <1>2, <2>1
  <2> QED
    BY <2>4, <2>5 DEF BootNeverFails
<1>3. Whole => BootNeverFails
  OBVIOUS
<1> QED
  BY <1>1, <1>2, <1>3, Invariance, PTL DEF Spec
=============================================================================
