--------------------------- MODULE MCSyncBarrier ---------------------------
(***************************************************************************)
(* The schedule of tests/common/test019 on four CPUs: rounds of all four   *)
(* on one word, then a pair, another pair and a subset of three on words   *)
(* of their own, each twice, the way main() branches on its cpu id.  Two   *)
(* of them meet CPU 31 at the end.                                         *)
(***************************************************************************)
EXTENDS SyncBarrier

MCCpu == 0..3 \cup {31}
MCSyncPoint == {"all", "pair01", "pair13", "subset012", "with31"}
MCMaskAt == [s \in MCSyncPoint |->
               CASE s = "all" -> 0..3
                 [] s = "pair01" -> {0, 1}
                 [] s = "pair13" -> {1, 3}
                 [] s = "subset012" -> 0..2
                 [] s = "with31" -> {0, 2, 31}]
Schedule == <<"all", "all", "pair01", "pair01", "pair13", "pair13",
              "subset012", "subset012", "all", "with31">>
MCProgram == [c \in MCCpu |-> SelectSeq(Schedule, LAMBDA s : c \in MCMaskAt[s])]
============================================================================
