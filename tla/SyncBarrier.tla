---------------------------- MODULE SyncBarrier ----------------------------
(***************************************************************************)
(* sync_cpus_in_mask_from_{mmode,smode}, the barrier the generator emits   *)
(* (scripts/generate_diag_sources.py).  A sync point is one 4-byte word of *)
(* memory, modelled as the set of the bits set in it; the masks are 64-bit *)
(* registers.  The lowest numbered CPU of the mask drives the round: every *)
(* member ors its own bit in, the driver waits for all of them and swaps   *)
(* the word back to zero, and the others wait to see their own bit gone.   *)
(*                                                                         *)
(* Each action is one access to the shared word with the register work     *)
(* around it; a spin that reads the word and loops changes nothing and is  *)
(* the action's guard.  What the CPUs run between barriers is Program, the *)
(* sync points each one calls in turn.                                     *)
(***************************************************************************)
EXTENDS Integers, Sequences, FiniteSets, FiniteSetsExt

CONSTANTS
  Cpu,          \* ids of the CPUs running the diag
  SyncPoint,    \* the sync point words
  MaskAt,       \* MaskAt[s]: the mask every caller passes for s
  Program       \* Program[c]: the sync points c calls, in order

(* reference_manual.md: each CPU combination uses a sync point of its own, *)
(* so a sync point has one mask, and only CPUs of that mask call it.  The  *)
(* word has a bit for each of them.                                        *)
SignBit == 31
ASSUME CpuAssumption == Cpu \subseteq 0..SignBit
ASSUME MaskAssumption == MaskAt \in [SyncPoint -> (SUBSET Cpu) \ {{}}]
ASSUME ProgramAssumption ==
  /\ Program \in [Cpu -> Seq(SyncPoint)]
  /\ \A c \in Cpu : \A i \in DOMAIN Program[c] : c \in MaskAt[Program[c][i]]

VARIABLES
  pc,           \* where each CPU is
  done,         \* calls of its program each CPU has returned from
  word,         \* bits set in each sync point
  entered,      \* history: entered[s][c] counts the bits c has set in s
  left          \* history: left[s][c] counts the returns of c from s

vars == <<pc, done, word, entered, left>>

Location == {"diag", "waitAll", "swap", "waitClear", "return", "failed"}

(* The sync point of the call c makes next or is inside of.                *)
Finished(c) == done[c] = Len(Program[c])
At(c) == Program[c][done[c] + 1]

(* ctz of the mask.                                                        *)
Driver(s) == Min(MaskAt[s])

Init ==
  /\ pc = [c \in Cpu |-> "diag"]
  /\ done = [c \in Cpu |-> 0]
  /\ word = [s \in SyncPoint |-> {}]
  /\ entered = [s \in SyncPoint |-> [c \in Cpu |-> 0]]
  /\ left = [s \in SyncPoint |-> [c \in Cpu |-> 0]]

Goto(c, l) == pc' = [pc EXCEPT ![c] = l]

----------------------------------------------------------------------------
(* Mutations of the definitions below, one plausible slip of the code each. *)

(* the swap stores nothing back: bits stay set *)
NoClear(c) == UNCHANGED word
(* beq for bne: the driver leaves its loop at the first bit it sees *)
AnyArrived(c) == word[At(c)] # {}
(* the non-driver loop tests the driver's bit instead of its own *)
DriverBitClear(c) == Driver(At(c)) \notin word[At(c)]
(* the bit is made by shifting 2, not 1, by the id *)
OrNextBit(c) == word' = [word EXCEPT ![At(c)] = @ \cup {c + 1}]

----------------------------------------------------------------------------
(* What lw and amoswap.w leave in a register: the upper half is the sign.  *)
Loaded(bits) == bits \cup (IF SignBit \in bits THEN SignBit + 1..63 ELSE {})

OrOwnBit(c) == word' = [word EXCEPT ![At(c)] = @ \cup {c}]
AllArrived(c) == Loaded(word[At(c)]) = MaskAt[At(c)]
ClearWord(c) == word' = [word EXCEPT ![At(c)] = {}]
OwnBitClear(c) == c \notin word[At(c)]

(* The checks that the caller and the driver are in the mask, the amoor    *)
(* and the check of the bit it returns.                                    *)
Enter(c) ==
  /\ pc[c] = "diag" /\ ~Finished(c)
  /\ LET s == At(c) IN
     IF ~({c, Driver(s)} \subseteq MaskAt[s])
     THEN /\ Goto(c, "failed")
          /\ UNCHANGED <<word, entered>>
     ELSE /\ OrOwnBit(c)
          /\ entered' = [entered EXCEPT ![s][c] = @ + 1]
          /\ Goto(c, IF c \in word[s] THEN "failed"
                     ELSE IF c = Driver(s) THEN "waitAll" ELSE "waitClear")
  /\ UNCHANGED <<done, left>>

(* The driver's lw that finds every bit of the mask set.                   *)
SeeAll(c) ==
  /\ pc[c] = "waitAll"
  /\ AllArrived(c)
  /\ Goto(c, "swap")
  /\ UNCHANGED <<done, word, entered, left>>

(* The amoswap of zero, and the check of the word it returns.              *)
Swap(c) ==
  /\ pc[c] = "swap"
  /\ ClearWord(c)
  /\ Goto(c, IF Loaded(word[At(c)]) = MaskAt[At(c)] THEN "return" ELSE "failed")
  /\ UNCHANGED <<done, entered, left>>

(* Another member's lw that finds its own bit cleared.                     *)
SeeClear(c) ==
  /\ pc[c] = "waitClear"
  /\ OwnBitClear(c)
  /\ Goto(c, "return")
  /\ UNCHANGED <<done, word, entered, left>>

Return(c) ==
  /\ pc[c] = "return"
  /\ Goto(c, "diag")
  /\ left' = [left EXCEPT ![At(c)][c] = @ + 1]
  /\ done' = [done EXCEPT ![c] = @ + 1]
  /\ UNCHANGED <<word, entered>>

Step(c) == Enter(c) \/ SeeAll(c) \/ Swap(c) \/ SeeClear(c) \/ Return(c)

(* What the diag does after its last barrier is not in the model.          *)
Next == \E c \in Cpu : Step(c)

(* A hart keeps executing instructions.                                    *)
Fairness == \A c \in Cpu : WF_vars(Step(c))

Spec == Init /\ [][Next]_vars
FairSpec == Spec /\ Fairness

----------------------------------------------------------------------------
TypeOK ==
  /\ pc \in [Cpu -> Location]
  /\ done \in [Cpu -> Nat]
  /\ \A c \in Cpu :
       /\ done[c] <= Len(Program[c])
       /\ pc[c] # "diag" => ~Finished(c)
  /\ word \in [SyncPoint -> SUBSET Cpu]
  /\ entered \in [SyncPoint -> [Cpu -> Nat]]
  /\ left \in [SyncPoint -> [Cpu -> Nat]]

(* A CPU that has come out of a sync point n times has been preceded into  *)
(* it n times by every member of the mask: sync_cpus_in_mask holds each    *)
(* round for all of them, however far the fast CPUs run ahead.             *)
NobodyLeavesEarly ==
  \A s \in SyncPoint : \A c, d \in MaskAt[s] : left[s][c] <= entered[s][d]

(* The two jumpstart_{mode}_fail checks on the word, "this bit should not  *)
(* be already set" and the value swapped out, never fail a diag that keeps *)
(* one mask per sync point: no interleaving of two rounds trips them.      *)
NoSpuriousFail == \A c \in Cpu : pc[c] # "failed"

(* Only the driver's swap takes a bit out of the word, and it takes all of *)
(* them at once: a CPU slow to look cannot find its bit set again by the   *)
(* next round of the others.                                               *)
BitsClearTogether ==
  [][\A s \in SyncPoint :
       word[s] \subseteq word'[s] \/ (word[s] = MaskAt[s] /\ word'[s] = {})]_vars

(* The sync points implement Barrier: the gathered members of a point are  *)
(* the bits set in its word, the released ones those past the swap that    *)
(* are not yet back in the diag.  Its fairness is implemented too, whatever *)
(* the programs, where no mask has CPU 31: a point everybody has entered   *)
(* opens and lets all out.                                                 *)
Signed(s) == SignBit \in MaskAt[s]
Inside(s) == {c \in Cpu : pc[c] # "diag" /\ At(c) = s}
Gate == INSTANCE Barrier WITH
          Point <- SyncPoint,
          Members <- MaskAt,
          gathered <- word,
          released <- [s \in SyncPoint |-> Inside(s) \ word[s]]
ImplementsBarrier ==
  Gate!BSafety /\ \A s \in SyncPoint : ~Signed(s) => Gate!BFairnessAt(s)

(* The mask of CPU 31 is a positive number, which the driver compares with *)
(* a word it has loaded as a negative one: nobody comes out of such a sync *)
(* point (generate_diag_sources.py:872).                                   *)
SignedStaysShut ==
  \A s \in SyncPoint : Signed(s) => \A c \in Cpu : left[s][c] = 0

(* Where the programs agree on the order of the points they share, and a   *)
(* point of CPU 31 is the last of its callers, every call returns but the  *)
(* calls there, and every CPU comes to its end or to such a point.         *)
EveryCallReturns ==
  /\ \A c \in Cpu : pc[c] # "diag" ~> pc[c] = "diag" \/ Signed(At(c))
  /\ <>(\A c \in Cpu : Finished(c) \/ Signed(At(c)))
  /\ []SignedStaysShut
============================================================================
