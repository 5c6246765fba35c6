----------------------------- MODULE MCHostRun -----------------------------
(* Three diags on two threads, so that one is queued behind the others; in *)
(* one manifest the second is expected to fail.                            *)
EXTENDS HostRun

MCExpectations == {{}, {2}}
=============================================================================
