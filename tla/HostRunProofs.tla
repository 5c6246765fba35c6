--------------------------- MODULE HostRunProofs ---------------------------
(***************************************************************************)
(* Proofs about build_diag.py for any number of diags and threads: the     *)
(* registry, what is left when the program ends, and its exit status.      *)
(***************************************************************************)
EXTENDS HostRun, TLAPS

(***************************************************************************)
(* The inductive invariant.  A unit has a process from Popen to the wait;  *)
(* the main thread is past the pool only when all units are done, and in   *)
(* the handler only after the signal; a return code of 0 was counted; the  *)
(* unit's command and its states go with the phase and with the commands   *)
(* that returned 0; and the verdict was taken from them.                   *)
(***************************************************************************)
ProcFollows == \A u \in Unit :
  task[u] \in {"unsubmitted", "queued", "spawn", "unregister", "done"} => proc[u] = "none"
PastPool == main \in {"summary", "atexit", "exited", "stuck"} => PoolShutDown
InHandler == main \in {"handler", "signalling", "unwinding"} => interrupted
CodesCounted == \A u \in Unit :
  (proc[u] = "ended" \/ task[u] = "unregister") /\ code[u] = 0 =>
    Group(u) \in succeeded

PhaseCommand == \A u \in Unit :
  /\ phase = "compile" => cmd[u] \in {"setup", "compile"}
  /\ phase = "run" /\ task[u] \notin {"unsubmitted", "queued"} => cmd[u] = "test"
PhaseResult == \A u \in Unit :
  /\ phase = "compile" /\ task[u] = "done" => compileState[u] # "PENDING"
  /\ phase = "run" => compileState[u] = "PASS"
ResultsEarned == \A u \in Unit :
  /\ cmd[u] = "compile" /\ phase = "compile" /\ u \in Busy => <<u, "setup">> \in succeeded
  /\ compileState[u] = "PASS" => {<<u, "setup">>, <<u, "compile">>} \subseteq succeeded
  /\ runState[u] = "PASS" => <<u, "test">> \in succeeded /\ u \notin expectedFail

IInv == /\ TypeOK /\ RegistryMatches /\ ProcFollows /\ PastPool /\ InHandler
        /\ CodesCounted /\ PhaseCommand /\ PhaseResult /\ ResultsEarned
        /\ ExitStatusTruthful

LEMMA InitIInv == Init => IInv
<1> SUFFICES ASSUME Init PROVE IInv
  OBVIOUS
<1> USE DEF Init
<1>1. TypeOK
  BY ExpectationsAssumption DEF TypeOK, Command
<1>2. RegistryMatches
  BY DEF RegistryMatches, Waited, Group
<1>3. ProcFollows /\ PastPool /\ InHandler /\ CodesCounted
  BY DEF ProcFollows, PastPool, PoolShutDown, InHandler, CodesCounted
<1>4. PhaseCommand /\ PhaseResult /\ ResultsEarned /\ ExitStatusTruthful
  BY DEF PhaseCommand, PhaseResult, ResultsEarned, Busy, ExitStatusTruthful
<1> QED
  BY <1>1, <1>2, <1>3, <1>4 DEF IInv

----------------------------------------------------------------------------
LEMMA StartKeepsIInv ==
  ASSUME IInv, NEW u \in Unit, StartTask(u)
  PROVE  IInv'
<1> USE DEF IInv, StartTask, procVars, groupVars, mainVars
<1>1. TypeOK'
  BY DEF TypeOK, Command
<1>2. Waited' = Waited
  BY DEF Waited, Group, TypeOK
<1>3. RegistryMatches'
  BY <1>2 DEF RegistryMatches
<1>4. ProcFollows' /\ InHandler' /\ PastPool'
  BY DEF ProcFollows, InHandler, PastPool, PoolShutDown, AllDone, TypeOK
<1>5. CodesCounted'
  BY DEF CodesCounted, ProcFollows, Group, TypeOK
<1>6. PhaseCommand' /\ PhaseResult'
  BY DEF PhaseCommand, PhaseResult, TypeOK
<1>7. ResultsEarned' /\ ExitStatusTruthful'
  BY DEF ResultsEarned, Busy, ExitStatusTruthful, TypeOK
<1> QED
  BY <1>1, <1>3, <1>4, <1>5, <1>6, <1>7

(* What a unit's failure does to the parts of the invariant about results. *)
LEMMA FailKeepsResults ==
  ASSUME IInv, NEW u \in Unit, NEW rc \in {1, NoReturnCode}, FailUnit(u, rc),
         task[u] \in {"spawn", "unregister"},
         UNCHANGED <<succeeded, mainVars>>
  PROVE  /\ task' = [task EXCEPT ![u] = "done"] /\ cmd' = cmd
         /\ compileState' \in [Unit -> {"PENDING", "PASS", "FAILED"}]
         /\ runState' \in [Unit -> {"PENDING", "PASS", "EXPECTED_FAIL", "FAILED"}]
         /\ (PhaseCommand /\ PhaseResult /\ ResultsEarned /\ ExitStatusTruthful)'
<1> USE DEF IInv, FailUnit, EndTask, mainVars
<1>1. RunStateAfter(u, rc) \in {"EXPECTED_FAIL", "FAILED"}
  BY DEF RunStateAfter, NoReturnCode
<1>2. cmd[u] = "test" <=> phase = "run"
  BY DEF PhaseCommand, TypeOK
<1>3. /\ task' = [task EXCEPT ![u] = "done"] /\ cmd' = cmd
      /\ compileState' \in [Unit -> {"PENDING", "PASS", "FAILED"}]
      /\ runState' \in [Unit -> {"PENDING", "PASS", "EXPECTED_FAIL", "FAILED"}]
  BY <1>1 DEF TypeOK
<1>4. PhaseCommand' /\ PhaseResult'
  BY <1>2 DEF PhaseCommand, PhaseResult, TypeOK
<1>5. ResultsEarned'
  <2>1. phase' = phase /\ succeeded' = succeeded /\ expectedFail' = expectedFail
    OBVIOUS
  <2>2. Busy' \subseteq Busy
    BY <1>3 DEF Busy, TypeOK
  <2>3. \A w \in Unit :
          /\ cmd'[w] = cmd[w]
          /\ compileState'[w] = "PASS" => compileState[w] = "PASS"
          /\ runState'[w] = "PASS" => runState[w] = "PASS"
    BY <1>1, <1>3 DEF TypeOK
  <2>4. ResultsEarned
    OBVIOUS
  <2> HIDE DEF IInv, FailUnit, EndTask, mainVars
  <2> QED
    BY <2>1, <2>2, <2>3, <2>4 DEF ResultsEarned
<1>6. ExitStatusTruthful'
  BY DEF ExitStatusTruthful, TypeOK
<1> QED
  BY <1>3, <1>4, <1>5, <1>6

LEMMA SpawnKeepsIInv ==
  ASSUME IInv, NEW u \in Unit, Spawn(u)
  PROVE  IInv'
<1> USE DEF IInv, Spawn, groupVars
<1>1. Waited' = Waited
  BY DEF Waited, Group, TypeOK, FailUnit, EndTask
<1>2. RegistryMatches' /\ InHandler' /\ PastPool'
  BY <1>1 DEF RegistryMatches, InHandler, PastPool, PoolShutDown, AllDone, mainVars
<1>3. CASE proc' = [proc EXCEPT ![u] = "running"] /\ task' = [task EXCEPT ![u] = "register"]
           /\ UNCHANGED <<compileState, runState, cmd>>
  <2>1. TypeOK' /\ ProcFollows'
    BY <1>3 DEF TypeOK, ProcFollows, mainVars
  <2>2. CodesCounted'
    BY <1>3 DEF CodesCounted, Group, TypeOK
  <2>3. (PhaseCommand /\ PhaseResult)'
    BY <1>3 DEF PhaseCommand, PhaseResult, TypeOK, mainVars
  <2>4. (ResultsEarned /\ ExitStatusTruthful)'
    BY <1>3 DEF ResultsEarned, Busy, ExitStatusTruthful, TypeOK, mainVars
  <2> QED
    BY <1>2, <2>1, <2>2, <2>3, <2>4
<1>4. CASE FailUnit(u, NoReturnCode) /\ UNCHANGED proc
  <2>1. /\ task' = [task EXCEPT ![u] = "done"] /\ cmd' = cmd
        /\ compileState' \in [Unit -> {"PENDING", "PASS", "FAILED"}]
        /\ runState' \in [Unit -> {"PENDING", "PASS", "EXPECTED_FAIL", "FAILED"}]
        /\ (PhaseCommand /\ PhaseResult /\ ResultsEarned /\ ExitStatusTruthful)'
    BY <1>4, FailKeepsResults
  <2>2. TypeOK'
    BY <1>4, <2>1 DEF TypeOK, mainVars
  <2>3. ProcFollows' /\ CodesCounted'
    BY <1>4, <2>1 DEF ProcFollows, CodesCounted, Group, TypeOK
  <2> QED
    BY <1>2, <2>1, <2>2, <2>3
<1> QED
  BY <1>3, <1>4

LEMMA RegisterKeepsIInv ==
  ASSUME IInv, NEW u \in Unit, Register(u)
  PROVE  IInv'
<1> USE DEF IInv, Register, procVars, mainVars
<1>1. TypeOK'
  BY DEF TypeOK, Group
<1>2. Waited' = Waited \cup {Group(u)}
  BY DEF Waited, Group, TypeOK
<1>3. RegistryMatches'
  BY <1>2 DEF RegistryMatches
<1>4. ProcFollows' /\ InHandler' /\ PastPool' /\ CodesCounted'
  BY DEF ProcFollows, InHandler, PastPool, PoolShutDown, AllDone, CodesCounted, Group, TypeOK
<1>5. PhaseCommand' /\ PhaseResult'
  BY DEF PhaseCommand, PhaseResult, TypeOK
<1>6. ResultsEarned' /\ ExitStatusTruthful'
  BY DEF ResultsEarned, Busy, ExitStatusTruthful, TypeOK
<1> QED
  BY <1>1, <1>3, <1>4, <1>5, <1>6

LEMMA EndKeepsIInv ==
  ASSUME IInv, NEW u \in Unit, ProcessEnds(u)
  PROVE  IInv'
<1> USE DEF IInv, ProcessEnds, unitVars, groupVars, mainVars
<1>1. PICK rc \in {0, 1} :
        /\ code' = [code EXCEPT ![u] = rc]
        /\ succeeded' = IF rc = 0 THEN succeeded \cup {Group(u)} ELSE succeeded
  BY DEF ProcessEnds
<1>2. TypeOK'
  BY <1>1 DEF TypeOK, Group
<1>3. RegistryMatches'
  BY DEF RegistryMatches, Waited, Group
<1>4. ProcFollows' /\ InHandler' /\ PastPool'
  BY DEF ProcFollows, InHandler, PastPool, PoolShutDown, AllDone, TypeOK
<1>5. CodesCounted'
  BY <1>1 DEF CodesCounted, Group, TypeOK
<1>6. PhaseCommand' /\ PhaseResult'
  BY DEF PhaseCommand, PhaseResult
<1>7. ResultsEarned'
  BY <1>1 DEF ResultsEarned, Busy
<1>8. ExitStatusTruthful'
  BY <1>1, <1>2 DEF ExitStatusTruthful, TypeOK
<1> QED
  BY <1>2, <1>3, <1>4, <1>5, <1>6, <1>7, <1>8

LEMMA ReapKeepsIInv ==
  ASSUME IInv, NEW u \in Unit, Reap(u)
  PROVE  IInv'
<1> USE DEF IInv, Reap, groupVars, mainVars
<1>1. TypeOK'
  BY DEF TypeOK
<1>2. Waited' = Waited
  BY DEF Waited, Group, TypeOK
<1>3. RegistryMatches'
  BY <1>2 DEF RegistryMatches
<1>4. ProcFollows' /\ InHandler' /\ PastPool'
  BY DEF ProcFollows, InHandler, PastPool, PoolShutDown, AllDone, TypeOK
<1>5. CodesCounted'
  BY DEF CodesCounted, Group, TypeOK
<1>6. PhaseCommand' /\ PhaseResult'
  BY DEF PhaseCommand, PhaseResult, TypeOK
<1>7. ResultsEarned' /\ ExitStatusTruthful'
  BY DEF ResultsEarned, Busy, ExitStatusTruthful, TypeOK
<1> QED
  BY <1>1, <1>3, <1>4, <1>5, <1>6, <1>7

(* A command that has returned 0 earns its unit the next step.             *)
LEMMA PassKeepsResults ==
  ASSUME IInv, NEW u \in Unit, PassCommand(u), task[u] = "unregister", code[u] = 0,
         UNCHANGED <<procVars, mainVars>>
  PROVE  /\ \E l \in {"spawn", "done"} : task' = [task EXCEPT ![u] = l]
         /\ \E k \in Command : cmd' = [cmd EXCEPT ![u] = k]
         /\ compileState' \in [Unit -> {"PENDING", "PASS", "FAILED"}]
         /\ runState' \in [Unit -> {"PENDING", "PASS", "EXPECTED_FAIL", "FAILED"}]
         /\ (PhaseCommand /\ PhaseResult /\ ResultsEarned /\ ExitStatusTruthful)'
<1> USE DEF IInv, PassCommand, EndTask, procVars, mainVars
<1>1. Group(u) \in succeeded
  BY DEF CodesCounted
<1>2. cmd[u] \in {"setup", "compile", "test"} /\ (cmd[u] = "test" <=> phase = "run")
  BY DEF PhaseCommand, TypeOK, Command
<1>3. CASE cmd[u] = "setup"
  <2>1. /\ cmd' = [cmd EXCEPT ![u] = "compile"] /\ task' = [task EXCEPT ![u] = "spawn"]
        /\ UNCHANGED <<compileState, runState>>
    BY <1>3
  <2>2. (PhaseCommand /\ PhaseResult)'
    BY <1>2, <1>3, <2>1 DEF PhaseCommand, PhaseResult, TypeOK
  <2>3. (ResultsEarned /\ ExitStatusTruthful)'
    BY <1>1, <1>3, <2>1 DEF ResultsEarned, Busy, ExitStatusTruthful, Group, TypeOK
  <2> QED
    BY <2>1, <2>2, <2>3 DEF TypeOK, Command
<1>4. CASE cmd[u] = "compile"
  <2>1. /\ compileState' = [compileState EXCEPT ![u] = "PASS"]
        /\ task' = [task EXCEPT ![u] = "done"]
        /\ UNCHANGED <<runState, cmd>>
    BY <1>4
  <2>2. (PhaseCommand /\ PhaseResult)'
    BY <1>2, <1>4, <2>1 DEF PhaseCommand, PhaseResult, TypeOK
  <2>3. phase = "compile"
    BY <1>2, <1>4 DEF TypeOK
  <2>4. (ResultsEarned /\ ExitStatusTruthful)'
    BY <1>1, <1>4, <2>1, <2>3 DEF ResultsEarned, Busy, ExitStatusTruthful, Group, TypeOK
  <2>5. cmd' = [cmd EXCEPT ![u] = "compile"]
    BY <1>4, <2>1 DEF TypeOK
  <2> QED
    BY <2>1, <2>2, <2>4, <2>5 DEF TypeOK, Command
<1>5. CASE cmd[u] = "test"
  <2>1. /\ runState' = [runState EXCEPT ![u] = RunStateAfter(u, 0)]
        /\ task' = [task EXCEPT ![u] = "done"]
        /\ UNCHANGED <<compileState, cmd>>
    BY <1>5
  <2>2. RunStateAfter(u, 0) = IF u \in expectedFail THEN "FAILED" ELSE "PASS"
    BY DEF RunStateAfter, NoReturnCode
  <2>3. (PhaseCommand /\ PhaseResult)'
    BY <1>2, <1>5, <2>1 DEF PhaseCommand, PhaseResult, TypeOK
  <2>4. (ResultsEarned /\ ExitStatusTruthful)'
    BY <1>1, <1>5, <2>1, <2>2 DEF ResultsEarned, Busy, ExitStatusTruthful, Group, TypeOK
  <2>5. cmd' = [cmd EXCEPT ![u] = "test"]
    BY <1>5, <2>1 DEF TypeOK
  <2> QED
    BY <2>1, <2>2, <2>3, <2>4, <2>5 DEF TypeOK, Command
<1> QED
  BY <1>2, <1>3, <1>4, <1>5

LEMMA LeaveKeepsIInv ==
  ASSUME IInv, NEW u \in Unit, Leave(u)
  PROVE  IInv'
<1> USE DEF IInv, Leave
<1>1. /\ \E l \in {"spawn", "done"} : task' = [task EXCEPT ![u] = l]
      /\ \E k \in Command : cmd' = [cmd EXCEPT ![u] = k]
      /\ compileState' \in [Unit -> {"PENDING", "PASS", "FAILED"}]
      /\ runState' \in [Unit -> {"PENDING", "PASS", "EXPECTED_FAIL", "FAILED"}]
      /\ (PhaseCommand /\ PhaseResult /\ ResultsEarned /\ ExitStatusTruthful)'
  <2>1. CASE code[u] = 0 /\ PassCommand(u)
    BY <2>1, PassKeepsResults
  <2>2. CASE \E rc \in {1, NoReturnCode} :
                (rc = NoReturnCode => code[u] = 0) /\ FailUnit(u, rc)
    <3>1. /\ task' = [task EXCEPT ![u] = "done"] /\ cmd' = cmd
          /\ compileState' \in [Unit -> {"PENDING", "PASS", "FAILED"}]
          /\ runState' \in [Unit -> {"PENDING", "PASS", "EXPECTED_FAIL", "FAILED"}]
          /\ (PhaseCommand /\ PhaseResult /\ ResultsEarned /\ ExitStatusTruthful)'
      BY <2>2, FailKeepsResults DEF procVars
    <3>2. cmd' = [cmd EXCEPT ![u] = cmd[u]] /\ cmd[u] \in Command
      BY <3>1 DEF TypeOK
    <3> QED
      BY <3>1, <3>2
  <2> QED
    BY <2>1, <2>2
<1>2. PICK l \in {"spawn", "done"}, k \in Command :
        task' = [task EXCEPT ![u] = l] /\ cmd' = [cmd EXCEPT ![u] = k]
  BY <1>1
<1>3. TypeOK'
  BY <1>1, <1>2 DEF TypeOK, procVars, mainVars, Unregister
<1>4. Waited' = Waited \ {Group(u)}
  BY <1>2 DEF Waited, Group, TypeOK
<1>5. RegistryMatches'
  BY <1>4 DEF RegistryMatches, Unregister, mainVars
<1>6. ProcFollows' /\ InHandler' /\ PastPool'
  BY <1>2 DEF ProcFollows, InHandler, PastPool, PoolShutDown, AllDone, TypeOK, procVars, mainVars
<1>7. CodesCounted'
  BY <1>2 DEF CodesCounted, ProcFollows, Group, TypeOK, procVars
<1> QED
  BY <1>1, <1>3, <1>5, <1>6, <1>7

----------------------------------------------------------------------------
LEMMA SubmitKeepsIInv ==
  ASSUME IInv, Submit
  PROVE  IInv'
<1> USE DEF IInv, procVars, groupVars, mainVars
<1>1. PICK u \in Unit : task[u] = "unsubmitted" /\ task' = [task EXCEPT ![u] = "queued"]
  BY DEF Submit
<1>2. main = "pool" /\ UNCHANGED <<compileState, runState, cmd, procVars, groupVars, mainVars>>
  BY DEF Submit
<1>3. TypeOK'
  BY <1>1, <1>2 DEF TypeOK
<1>4. Waited' = Waited
  BY <1>1, <1>2 DEF Waited, Group, TypeOK
<1>5. RegistryMatches'
  BY <1>2, <1>4 DEF RegistryMatches
<1>6. ProcFollows' /\ InHandler' /\ PastPool' /\ CodesCounted'
  BY <1>1, <1>2 DEF ProcFollows, InHandler, PastPool, CodesCounted, Group, TypeOK
<1>7. PhaseCommand' /\ PhaseResult'
  BY <1>1, <1>2 DEF PhaseCommand, PhaseResult, TypeOK
<1>8. ResultsEarned' /\ ExitStatusTruthful'
  BY <1>1, <1>2 DEF ResultsEarned, Busy, ExitStatusTruthful, TypeOK
<1> QED
  BY <1>3, <1>5, <1>6, <1>7, <1>8

LEMMA PoolDoneKeepsIInv ==
  ASSUME IInv, PoolDone
  PROVE  IInv'
<1> USE DEF IInv, PoolDone, procVars, groupVars
<1>1. TypeOK'
  BY DEF TypeOK
<1>2. Waited = {} /\ Waited' = {}
  BY DEF Waited, AllDone, TypeOK
<1>3. RegistryMatches'
  BY <1>2 DEF RegistryMatches
<1>4. ProcFollows' /\ InHandler' /\ PastPool' /\ CodesCounted'
  BY DEF ProcFollows, InHandler, PastPool, PoolShutDown, AllDone, CodesCounted, Group, TypeOK
<1>5. PhaseCommand' /\ PhaseResult'
  BY DEF PhaseCommand, PhaseResult, CompilePassed, AllDone, TypeOK
<1>6. ResultsEarned'
  BY DEF ResultsEarned, Busy, AllDone, TypeOK
<1>7. verdict' \in {"passed", "failed"} => \A u \in Unit : compileState[u] # "PENDING"
  BY DEF PhaseResult, AllDone, ExitStatusTruthful, TypeOK
<1>8. ASSUME verdict' = "passed" PROVE succeeded = Unit \X Command /\ expectedFail = {}
  <2>1. CASE verdict' = verdict
    BY <1>8, <2>1 DEF ExitStatusTruthful
  <2>2. CASE phase = "run" /\ \A u \in Unit : RunPassed(u)
    <3>1. \A u \in Unit : {<<u, "setup">>, <<u, "compile">>, <<u, "test">>} \subseteq succeeded
                          /\ u \notin expectedFail
      BY <2>2 DEF RunPassed, PhaseResult, ResultsEarned
    <3>2. \A u \in Unit, k \in Command : <<u, k>> \in succeeded
      BY <3>1 DEF Command
    <3>3. succeeded \subseteq Unit \X Command /\ expectedFail \subseteq Unit
      BY DEF TypeOK
    <3>4. succeeded = Unit \X Command
      BY <3>2, <3>3
    <3>5. expectedFail = {}
      BY <3>1, <3>3
    <3> QED
      BY <3>4, <3>5
  <2> QED
    BY <1>8, <2>1, <2>2
<1>9. ExitStatusTruthful'
  BY <1>7, <1>8 DEF ExitStatusTruthful
<1> QED
  BY <1>1, <1>3, <1>4, <1>5, <1>6, <1>9

(* The steps of the main thread that leave the units alone.                *)
LEMMA MainKeepsIInv ==
  ASSUME IInv,
         Summarise \/ Exit \/ Interrupt \/ CopyRegistry \/ Signal \/ ClearRegistry \/ Unwind
  PROVE  IInv'
<1> USE DEF IInv
<1>1. UNCHANGED <<unitVars, procVars, phase, expectedFail>>
  BY DEF Summarise, Exit, Interrupt, CopyRegistry, Signal, ClearRegistry, Unwind, mainVars
<1>2. TypeOK'
  <2>1. CASE Signal
    BY <2>1 DEF Signal, TypeOK, unitVars, procVars, mainVars, Group
  <2>2. CASE Summarise \/ Exit \/ Interrupt \/ CopyRegistry \/ ClearRegistry \/ Unwind
    BY <2>2 DEF Summarise, Exit, Interrupt, CopyRegistry, ClearRegistry, Unwind,
         TypeOK, unitVars, procVars, groupVars
  <2> QED
    BY <2>1, <2>2
<1>3. Waited' = Waited
  BY <1>1 DEF Waited, Group, unitVars
<1>4. /\ registered' \in {registered, {}}
      /\ ~interrupted' => registered' = registered /\ ~interrupted
  BY DEF Summarise, Exit, Interrupt, CopyRegistry, Signal, ClearRegistry, Unwind,
       groupVars, mainVars, InHandler, TypeOK
<1>5. RegistryMatches'
  BY <1>3, <1>4 DEF RegistryMatches
<1>6. ProcFollows' /\ CodesCounted' /\ PhaseCommand' /\ PhaseResult' /\ ResultsEarned'
  BY <1>1 DEF ProcFollows, CodesCounted, PhaseCommand, PhaseResult, ResultsEarned, Busy,
       Group, unitVars, procVars
<1>7. InHandler' /\ PastPool'
  BY <1>1 DEF InHandler, PastPool, PoolShutDown, AllDone, unitVars, mainVars,
       Summarise, Exit, Interrupt, CopyRegistry, Signal, ClearRegistry, Unwind
<1>8. ExitStatusTruthful'
  <2>1. CASE Unwind
    BY <2>1, <1>1 DEF Unwind, ExitStatusTruthful, unitVars
  <2>2. CASE Summarise \/ Exit \/ Interrupt \/ CopyRegistry \/ Signal \/ ClearRegistry
    BY <2>2, <1>1 DEF Summarise, Exit, Interrupt, CopyRegistry, Signal, ClearRegistry,
         ExitStatusTruthful, unitVars, procVars, mainVars
  <2> QED
    BY <2>1, <2>2
<1> QED
  BY <1>2, <1>5, <1>6, <1>7, <1>8

LEMMA NextKeepsIInv == IInv /\ [Next]_vars => IInv'
<1> SUFFICES ASSUME IInv, [Next]_vars PROVE IInv'
  OBVIOUS
<1>1. CASE UNCHANGED vars
  BY <1>1 DEF vars, unitVars, procVars, groupVars, mainVars, IInv, TypeOK, RegistryMatches,
       Waited, Group, ProcFollows, PastPool, PoolShutDown, Busy, InHandler, CodesCounted, PhaseCommand,
       PhaseResult, ResultsEarned, ExitStatusTruthful
<1>2. ASSUME NEW u \in Unit, Worker(u) \/ ProcessEnds(u) PROVE IInv'
  BY <1>2, StartKeepsIInv, SpawnKeepsIInv, RegisterKeepsIInv, EndKeepsIInv, ReapKeepsIInv,
     LeaveKeepsIInv DEF Worker
<1>3. CASE Main \/ Interrupt
  BY <1>3, SubmitKeepsIInv, PoolDoneKeepsIInv, MainKeepsIInv DEF Main
<1> QED
  BY <1>1, <1>2, <1>3 DEF Next

----------------------------------------------------------------------------
(* The invariant holds in every state build_diag.py reaches.               *)
THEOREM Invariance == Spec => []IInv
<1> QED
  BY InitIInv, NextKeepsIInv, PTL DEF Spec

(* Every variable keeps its type.                                          *)
THEOREM TypeCorrect == Spec => []TypeOK
<1>1. IInv => TypeOK
  BY DEF IInv
<1> QED
  BY Invariance, <1>1, PTL

(* The registry names only commands in progress, and until the handler     *)
(* clears it all the commands run_command waits for.                       *)
THEOREM RegistryIsExact == Spec => []RegistryMatches
<1>1. IInv => RegistryMatches
  BY DEF IInv
<1> QED
  BY Invariance, <1>1, PTL

(* No process outlives the program, whatever ends it.                      *)
THEOREM NoOrphans == Spec => []NothingOutlives
<1>1. IInv => NothingOutlives
  BY DEF IInv, NothingOutlives, PastPool, PoolShutDown, ProcFollows
<1> QED
  BY Invariance, <1>1, PTL

(* Exit status 0 is the truth about every diag.                            *)
THEOREM SuccessIsSound == Spec => []ExitStatusTruthful
<1>1. IInv => ExitStatusTruthful
  BY DEF IInv
<1> QED
  BY Invariance, <1>1, PTL
=============================================================================
