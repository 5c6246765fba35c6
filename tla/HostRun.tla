------------------------------ MODULE HostRun ------------------------------
(***************************************************************************)
(* build_diag.py on the host: DiagFactory compiles and then runs its diags *)
(* on a pool of threads (diag_factory.py, diag.py, meson.py), every meson  *)
(* command goes through run_command, and a SIGINT handler kills the        *)
(* process groups registered at that moment (system/functions.py).         *)
(*                                                                         *)
(* A unit is compiled by "setup" and "compile" and run by "test".  A       *)
(* command and all that it starts is one process group.  Sections under    *)
(* _process_groups_lock wait for nothing and are one step each, the one of *)
(* the exit handler apart, which a signal can land in.  The environment is *)
(* one that runs on spike.  Left out: batch mode and the oswis target,     *)
(* whose code is not in the repository, and time-outs, which no caller of  *)
(* run_command asks for.  Ctrl+C is pressed at most once.                  *)
(***************************************************************************)
EXTENDS Naturals, FiniteSets

CONSTANTS
  N,                \* diags of the manifest, numbered in its order
  Jobs,             \* threads of the pool
  Expectations      \* which diags may have expected_fail True: sets of them

ASSUME NAssumption == N \in Nat \ {0} /\ Jobs \in Nat \ {0}
Unit == 1..N
ASSUME ExpectationsAssumption == Expectations \subseteq SUBSET Unit

VARIABLES
  expectedFail,     \* the diags whose expected_fail is True in this manifest
  compileState, runState,   \* of each unit
  task,             \* how far the pool is with each unit, in this phase
  cmd,              \* the command each unit is at
  proc,             \* its process: "none" when there is none to wait for
  code,             \* what the process returned: 0, or 1 for any failure
  registered,       \* _active_process_groups, as <<unit, command>>
  main,             \* where the main thread is
  phase,            \* the pool's phase: "compile" or "run"
  interrupted,      \* SIGINT has come and the handler is reset
  toSignal,         \* the handler's copy of the registry, less those signalled
  signalled,        \* history: groups that were sent SIGTERM
  verdict,          \* how the program ends
  succeeded         \* history: the commands that returned 0

unitVars == <<compileState, runState, task, cmd>>
procVars == <<proc, code, succeeded>>
groupVars == <<registered, toSignal, signalled>>
mainVars == <<main, phase, interrupted, verdict, expectedFail>>
vars == <<unitVars, procVars, groupVars, mainVars>>

Group(u) == <<u, cmd[u]>>

Init ==
  /\ expectedFail \in Expectations
  /\ compileState = [u \in Unit |-> "PENDING"]
  /\ runState = [u \in Unit |-> "PENDING"]
  /\ task = [u \in Unit |-> "unsubmitted"]
  /\ cmd = [u \in Unit |-> "setup"]
  /\ proc = [u \in Unit |-> "none"]
  /\ code = [u \in Unit |-> 0]
  /\ registered = {} /\ toSignal = {} /\ signalled = {}
  /\ main = "pool" /\ phase = "compile"
  /\ interrupted = FALSE /\ verdict = "none"
  /\ succeeded = {}

----------------------------------------------------------------------------
(* Mutations, one plausible slip each.                                     *)

(* a run that fails is taken for one that passes *)
LenientRun(u, rc) == IF rc = 0 \/ u \notin expectedFail THEN "PASS" ELSE "EXPECTED_FAIL"
(* the finally of run_command is forgotten *)
NotUnregistered(u) == UNCHANGED registered
(* shutdown(wait=False) *)
NoWait == TRUE
(* the exception of a failed unit ends its thread of the pool *)
ThreadDies(u) == task' = [task EXCEPT ![u] = "stopped"]

----------------------------------------------------------------------------
(* A thread of the pool                                                    *)

Busy == {u \in Unit : task[u] \notin {"unsubmitted", "queued", "done"}}

(* The pool takes tasks in the order they were submitted.                  *)
StartTask(u) ==
  /\ task[u] = "queued"
  /\ Cardinality(Busy) < Jobs
  /\ \A v \in Unit : v < u => task[v] # "queued"
  /\ task' = [task EXCEPT ![u] = "spawn"]
  /\ cmd' = [cmd EXCEPT ![u] = IF phase = "compile" THEN "setup" ELSE "test"]
  /\ UNCHANGED <<compileState, runState, procVars, groupVars, mainVars>>

NoReturnCode == 2

(* run_state as the finally of DiagBuildUnit.run leaves it; a run has an   *)
(* error just when its return code is not 0.                               *)
RunStateAfter(u, rc) ==
  CASE u \in expectedFail -> IF rc \in {0, NoReturnCode} THEN "FAILED" ELSE "EXPECTED_FAIL"
    [] OTHER -> IF rc = 0 THEN "PASS" ELSE "FAILED"

EndTask(u) == task' = [task EXCEPT ![u] = "done"]

(* The command has failed, by its return code or by an exception.          *)
FailUnit(u, rc) ==
  /\ IF cmd[u] = "test"
     THEN /\ runState' = [runState EXCEPT ![u] = RunStateAfter(u, rc)]
          /\ UNCHANGED compileState
     ELSE /\ compileState' = [compileState EXCEPT ![u] = "FAILED"]
          /\ UNCHANGED runState
  /\ EndTask(u)
  /\ UNCHANGED cmd

PassCommand(u) ==
  CASE cmd[u] = "setup" ->
         /\ cmd' = [cmd EXCEPT ![u] = "compile"]
         /\ task' = [task EXCEPT ![u] = "spawn"]
         /\ UNCHANGED <<compileState, runState>>
    [] cmd[u] = "compile" ->
         /\ compileState' = [compileState EXCEPT ![u] = "PASS"]
         /\ EndTask(u)
         /\ UNCHANGED <<runState, cmd>>
    [] cmd[u] = "test" ->
         /\ runState' = [runState EXCEPT ![u] = RunStateAfter(u, 0)]
         /\ EndTask(u)
         /\ UNCHANGED <<compileState, cmd>>

(* Popen, which raises when the command cannot be started.                 *)
Spawn(u) ==
  /\ task[u] = "spawn"
  /\ \/ /\ proc' = [proc EXCEPT ![u] = "running"]
        /\ task' = [task EXCEPT ![u] = "register"]
        /\ UNCHANGED <<compileState, runState, cmd>>
     \/ FailUnit(u, NoReturnCode) /\ UNCHANGED proc
  /\ UNCHANGED <<code, succeeded, groupVars, mainVars>>

Register(u) ==
  /\ task[u] = "register"
  /\ registered' = registered \cup {Group(u)}
  /\ task' = [task EXCEPT ![u] = "wait"]
  /\ UNCHANGED <<compileState, runState, cmd, procVars, toSignal, signalled, mainVars>>

(* Outside the program: a command ends, by itself or by the signal.        *)
ProcessEnds(u) ==
  /\ proc[u] = "running"
  /\ proc' = [proc EXCEPT ![u] = "ended"]
  /\ \E rc \in {0, 1} :
       /\ code' = [code EXCEPT ![u] = rc]
       /\ succeeded' = IF rc = 0 THEN succeeded \cup {Group(u)} ELSE succeeded
  /\ UNCHANGED <<unitVars, groupVars, mainVars>>

(* p.wait() and the joins of the reader threads.                           *)
Reap(u) ==
  /\ task[u] = "wait"
  /\ proc[u] = "ended"
  /\ proc' = [proc EXCEPT ![u] = "none"]
  /\ task' = [task EXCEPT ![u] = "unregister"]
  /\ UNCHANGED <<compileState, runState, cmd, code, succeeded, groupVars, mainVars>>

Unregister(u) == registered' = registered \ {Group(u)}

(* The finally of run_command, and what meson.py makes of the return code; *)
(* after a 0 its own checks (introspect, the elf, the trace) may fail, or  *)
(* the copy of the assets, which leaves no return code.                    *)
Leave(u) ==
  /\ task[u] = "unregister"
  /\ Unregister(u)
  /\ \/ code[u] = 0 /\ PassCommand(u)
     \/ \E rc \in {1, NoReturnCode} :
          (rc = NoReturnCode => code[u] = 0) /\ FailUnit(u, rc)
  /\ UNCHANGED <<procVars, toSignal, signalled, mainVars>>

Worker(u) == StartTask(u) \/ Spawn(u) \/ Register(u) \/ Reap(u) \/ Leave(u)

----------------------------------------------------------------------------
(* The main thread                                                         *)

AllDone == \A u \in Unit : task[u] = "done"

CompilePassed(u) == compileState[u] = "PASS"
RunPassed(u) == runState[u] = "PASS"

(* executor.submit, in the order of the manifest.                          *)
Submit ==
  /\ main = "pool"
  /\ \E u \in Unit :
       /\ task[u] = "unsubmitted"
       /\ \A v \in Unit : v < u => task[v] # "unsubmitted"
       /\ task' = [task EXCEPT ![u] = "queued"]
  /\ UNCHANGED <<compileState, runState, cmd, procVars, groupVars, mainVars>>

(* as_completed and the exit of the pool's context; then compile_all goes  *)
(* on to run_all, or one of them raises after all the units are done.      *)
PoolDone ==
  /\ main = "pool"
  /\ AllDone
  /\ IF phase = "compile" /\ \A u \in Unit : CompilePassed(u)
     THEN /\ phase' = "run"
          /\ task' = [u \in Unit |-> "unsubmitted"]
          /\ UNCHANGED <<main, verdict>>
     ELSE /\ main' = "summary"
          /\ verdict' = IF phase = "run" /\ \A u \in Unit : RunPassed(u)
                        THEN "passed" ELSE "failed"
          /\ UNCHANGED <<phase, task>>
  /\ UNCHANGED <<compileState, runState, cmd, procVars, groupVars, interrupted, expectedFail>>

(* The exit handler begins: it holds the lock of the registry.             *)
Summarise ==
  /\ main = "summary"
  /\ main' = "atexit"
  /\ UNCHANGED <<unitVars, procVars, groupVars, phase, interrupted, verdict, expectedFail>>

(* cleanup_all_process_groups at exit finds nothing to kill: no command    *)
(* is left then (NothingOutlives).                                         *)
Exit ==
  /\ main = "atexit"
  /\ registered = {}
  /\ main' = "exited"
  /\ UNCHANGED <<unitVars, procVars, groupVars, phase, interrupted, verdict, expectedFail>>

(* The signal runs the handler on the main thread; in the exit handler it  *)
(* asks for the lock the thread itself holds.                              *)
Interrupt ==
  /\ ~interrupted
  /\ main \in {"pool", "summary", "atexit"}
  /\ interrupted' = TRUE
  /\ main' = IF main = "atexit" THEN "stuck" ELSE "handler"
  /\ UNCHANGED <<unitVars, procVars, groupVars, phase, verdict, expectedFail>>

CopyRegistry ==
  /\ main = "handler"
  /\ toSignal' = registered
  /\ main' = IF registered = {} THEN "unwinding" ELSE "signalling"
  /\ UNCHANGED <<unitVars, procVars, registered, signalled, phase, interrupted, verdict, expectedFail>>

(* killpg; a group that is gone in the meantime is passed over.            *)
Signal ==
  /\ main = "signalling"
  /\ \E g \in toSignal :
       /\ toSignal' = toSignal \ {g}
       /\ signalled' = IF Group(g[1]) = g /\ proc[g[1]] # "none"
                       THEN signalled \cup {g} ELSE signalled
  /\ UNCHANGED <<unitVars, procVars, registered, mainVars>>

ClearRegistry ==
  /\ main = "signalling"
  /\ toSignal = {}
  /\ registered' = {}
  /\ main' = "unwinding"
  /\ UNCHANGED <<unitVars, procVars, toSignal, signalled, phase, interrupted, verdict, expectedFail>>

PoolShutDown == \A u \in Unit : task[u] \in {"unsubmitted", "done"}

(* KeyboardInterrupt leaves the pool's context, which waits for every task *)
(* submitted, those still queued included, and passes by the summary.      *)
Unwind ==
  /\ main = "unwinding"
  /\ PoolShutDown
  /\ main' = "atexit"
  /\ verdict' = "interrupted"
  /\ UNCHANGED <<unitVars, procVars, groupVars, phase, interrupted, expectedFail>>

Main ==
  \/ Submit \/ PoolDone \/ Summarise \/ Exit
  \/ CopyRegistry \/ Signal \/ ClearRegistry \/ Unwind

Next ==
  \/ Main \/ Interrupt
  \/ \E u \in Unit : Worker(u) \/ ProcessEnds(u)

(* Threads run, and every command ends; nobody has to press Ctrl+C.        *)
Fairness ==
  /\ WF_vars(Main)
  /\ \A u \in Unit : WF_vars(Worker(u)) /\ WF_vars(ProcessEnds(u))

Spec == Init /\ [][Next]_vars
FairSpec == Spec /\ Fairness

----------------------------------------------------------------------------
Command == {"setup", "compile", "test"}
TypeOK ==
  /\ expectedFail \subseteq Unit
  /\ compileState \in [Unit -> {"PENDING", "PASS", "FAILED"}]
  /\ runState \in [Unit -> {"PENDING", "PASS", "EXPECTED_FAIL", "FAILED"}]
  /\ task \in [Unit -> {"unsubmitted", "queued", "spawn", "register", "wait",
                         "unregister", "done"}]
  /\ cmd \in [Unit -> Command]
  /\ proc \in [Unit -> {"none", "running", "ended"}]
  /\ code \in [Unit -> {0, 1}]
  /\ registered \subseteq Unit \X Command
  /\ toSignal \subseteq Unit \X Command /\ signalled \subseteq Unit \X Command
  /\ main \in {"pool", "summary", "atexit", "exited", "stuck",
               "handler", "signalling", "unwinding"}
  /\ phase \in {"compile", "run"}
  /\ interrupted \in BOOLEAN
  /\ verdict \in {"none", "passed", "failed", "interrupted"}
  /\ succeeded \subseteq Unit \X Command

(* The registry against the threads: a group is in it only while the       *)
(* run_command that started it is in progress, so the clean up never       *)
(* signals a group of the past; and until a clean up clears it, every      *)
(* command that is waited for is in it.                                    *)
Waited == {Group(u) : u \in {v \in Unit : task[v] \in {"wait", "unregister"}}}
RegistryMatches ==
  /\ registered \subseteq Waited
  /\ ~interrupted => registered = Waited

(* However the program ends, by success, failure or Ctrl+C, no process it  *)
(* has started outlives it, and none is left unreaped.                     *)
NothingOutlives ==
  main \in {"atexit", "exited", "stuck"} => \A u \in Unit : proc[u] = "none"

(* Exit status 0 means that all commands of all diags returned 0 and that  *)
(* no diag was expected to fail; and the failure of one diag leaves no     *)
(* other without its own compile result.                                   *)
ExitStatusTruthful ==
  /\ verdict = "passed" => succeeded = Unit \X Command /\ expectedFail = {}
  /\ verdict \in {"passed", "failed"} => \A u \in Unit : compileState[u] # "PENDING"

(* The program ends, unless the signal arrives while the exit handler      *)
(* holds the lock.                                                         *)
EndsUnlessStuck == <>(main \in {"exited", "stuck"})

(* system/functions.py:18: "This ensures single Ctrl+C kills all Spike     *)
(* processes across all threads": when the handler is through, every       *)
(* process that runs has been signalled.                                   *)
SingleInterruptKillsAll ==
  [][main # "unwinding" /\ main' = "unwinding" =>
       \A u \in Unit : proc[u] = "running" => Group(u) \in signalled]_vars
=============================================================================
