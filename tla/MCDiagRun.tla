----------------------------- MODULE MCDiagRun -----------------------------
(***************************************************************************)
(* Four CPUs of which 0, 1 and 3 are active, the primary neither the first *)
(* nor the last of them.  main() returns a pass, a failure, or one of the  *)
(* values whose low byte looks like another status.                        *)
(***************************************************************************)
EXTENDS DiagRun

MCCpu == 0..3
MCActive == {0, 1, 3}
MCReturn == {DIAG_PASSED, DIAG_FAILED, CPU_RUNNING, CPU_INACTIVE, 256, -1}
=============================================================================
