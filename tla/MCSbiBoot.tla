----------------------------- MODULE MCSbiBoot -----------------------------
(* Four CPUs, 0, 1 and 3 active with 1 primary; the firmware may hand over *)
(* on any of them, the inactive one included.                              *)
EXTENDS SbiBoot

MCCpu == 0..3
MCActive == {0, 1, 3}
MCReturn == {DIAG_PASSED, DIAG_FAILED, CPU_RUNNING, CPU_INACTIVE, 256}
=============================================================================
