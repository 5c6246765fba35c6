------------------------- MODULE SyncBarrierProofs -------------------------
(***************************************************************************)
(* Proofs about sync_cpus_in_mask for any set of CPUs, any sync points and *)
(* masks, and any programs that keep one mask per point.                   *)
(***************************************************************************)
EXTENDS SyncBarrier, WellFoundedInduction, TLAPS

(* Less-than on the naturals, as WFMin wants it: a set of pairs.           *)
LT == {ss \in Nat \X Nat : ss[1] < ss[2]}

(* ctz of a mask that is not zero is the number of one of its bits.        *)
LEMMA DriverInMask ==
  ASSUME NEW s \in SyncPoint
  PROVE  Driver(s) \in MaskAt[s]
<1> DEFINE M == MaskAt[s]
<1>1. M \subseteq Nat /\ M # {}
  <2>1. 0..SignBit \subseteq Nat
    BY DEF SignBit
  <2> QED
    BY <2>1, MaskAssumption, CpuAssumption
<1>2. OpToRel(<, Nat) = LT
  BY Zenon DEF OpToRel, LT
<1>3. PICK x \in M : \A y \in M : <<y, x>> \notin LT
  BY <1>1, <1>2, NatLessThanWellFounded, WFMin
<1>4. ASSUME NEW y \in M PROVE x =< y
  <2>1. x \in Nat /\ y \in Nat
    BY <1>1
  <2>2. y < x => <<y, x>> \in LT
    BY <2>1 DEF LT
  <2> QED
    BY <1>3, <2>1, <2>2
<1> QED
  BY <1>3, <1>4 DEF Driver, Min

(* The programs name sync points, and each caller is in the mask it passes. *)
LEMMA AtType ==
  ASSUME TypeOK, NEW c \in Cpu, ~Finished(c)
  PROVE  At(c) \in SyncPoint /\ c \in MaskAt[At(c)]
<1>1. Program[c] \in Seq(SyncPoint)
  BY ProgramAssumption
<1>2. done[c] \in Nat /\ done[c] <= Len(Program[c])
  BY DEF TypeOK
<1>3. done[c] + 1 \in DOMAIN Program[c]
  BY <1>1, <1>2 DEF Finished
<1> QED
  BY <1>1, <1>3, ProgramAssumption DEF At

(***************************************************************************)
(* The inductive invariant.  A bit is set for a CPU that waits inside;     *)
(* only the driver is in its loop, and once it has seen every bit they     *)
(* stay until its swap; each CPU's counters differ by the call it is       *)
(* inside of; and all members of a point are at the same level, where a    *)
(* member's level counts its entries less the one whose bit is still set.  *)
(***************************************************************************)
Waits(c) == pc[c] \in {"waitAll", "swap", "waitClear"}
CallsInside(s, c) == IF pc[c] # "diag" /\ At(c) = s THEN 1 ELSE 0
Level(s, c) == entered[s][c] - (IF c \in word[s] THEN 1 ELSE 0)

BitsOfWaiters == \A s \in SyncPoint : \A c \in word[s] :
  c \in MaskAt[s] /\ Waits(c) /\ At(c) = s
DriverLoop == \A c \in Cpu :
  /\ pc[c] \in {"waitAll", "swap"} => c \in word[At(c)] /\ c = Driver(At(c))
  /\ pc[c] = "swap" => word[At(c)] = MaskAt[At(c)] /\ ~Signed(At(c))
  /\ pc[c] = "waitClear" => c # Driver(At(c))
Counters == \A s \in SyncPoint : \A c \in Cpu :
  entered[s][c] = left[s][c] + CallsInside(s, c)
SameLevel == \A s \in SyncPoint : \A c, d \in MaskAt[s] : Level(s, c) = Level(s, d)

IInv == TypeOK /\ NoSpuriousFail /\ BitsOfWaiters /\ DriverLoop /\ Counters /\ SameLevel

LEMMA InitIInv == Init => IInv
<1> SUFFICES ASSUME Init PROVE IInv
  OBVIOUS
<1> USE DEF Init
<1>1. TypeOK
  <2>1. \A c \in Cpu : Len(Program[c]) \in Nat
    BY ProgramAssumption
  <2> QED
    BY <2>1 DEF TypeOK, Location
<1>2. NoSpuriousFail
  BY DEF NoSpuriousFail
<1>3. BitsOfWaiters
  BY DEF BitsOfWaiters
<1>4. DriverLoop
  BY DEF DriverLoop
<1>5. Counters
  BY DEF Counters, CallsInside
<1>6. SameLevel
  BY MaskAssumption DEF SameLevel, Level
<1> QED
  BY <1>1, <1>2, <1>3, <1>4, <1>5, <1>6 DEF IInv

(* The range facts every step below starts from.                           *)
LEMMA CounterType ==
  ASSUME TypeOK, NEW s \in SyncPoint, NEW c \in Cpu
  PROVE  entered[s][c] \in Nat /\ left[s][c] \in Nat
BY DEF TypeOK

LEMMA MembersAreCpus == \A s \in SyncPoint : MaskAt[s] \subseteq Cpu
BY MaskAssumption

(* What is loaded of a word equals the mask only if the word does and its  *)
(* sign bit is clear.                                                      *)
LEMMA LoadedIsMask ==
  ASSUME NEW w \in SUBSET Cpu, NEW s \in SyncPoint, Loaded(w) = MaskAt[s]
  PROVE  w = MaskAt[s] /\ ~Signed(s)
<1>1. SignBit \notin w
  <2>1. SignBit \in w => 32 \in MaskAt[s]
    BY DEF Loaded, SignBit
  <2> QED
    BY <2>1, MembersAreCpus, CpuAssumption DEF SignBit
<1> QED
  BY <1>1 DEF Loaded, Signed

LEMMA EnterKeepsIInv ==
  ASSUME IInv, NEW c \in Cpu, Enter(c)
  PROVE  IInv'
<1> DEFINE s == At(c)
<1> USE DEF IInv
<1>1. s \in SyncPoint /\ c \in MaskAt[s] /\ Driver(s) \in MaskAt[s] /\ pc[c] = "diag"
  BY AtType, DriverInMask DEF Enter
<1>2. c \notin word[s]
  BY <1>1 DEF BitsOfWaiters, Waits
<1>3. /\ word' = [word EXCEPT ![s] = @ \cup {c}]
      /\ entered' = [entered EXCEPT ![s][c] = @ + 1]
      /\ pc' = [pc EXCEPT ![c] = IF c = Driver(s) THEN "waitAll" ELSE "waitClear"]
      /\ UNCHANGED <<done, left>>
  BY <1>1, <1>2 DEF Enter, OrOwnBit, Goto
<1>4. \A d \in Cpu : At(d)' = At(d) /\ (d # c => pc'[d] = pc[d])
  BY <1>3 DEF At, TypeOK
<1>5. pc'[c] = IF c = Driver(s) THEN "waitAll" ELSE "waitClear"
  BY <1>3 DEF TypeOK
<1>6. /\ word'[s] = word[s] \cup {c}
      /\ \A r \in SyncPoint : r # s => word'[r] = word[r] /\ entered'[r] = entered[r]
      /\ entered'[s][c] = entered[s][c] + 1
      /\ \A d \in Cpu : d # c => entered'[s][d] = entered[s][d]
  BY <1>1, <1>3 DEF TypeOK
<1>7. TypeOK'
  BY <1>1, <1>3 DEF TypeOK, Location, Enter, Finished
<1>8. NoSpuriousFail'
  BY <1>4, <1>5 DEF NoSpuriousFail
<1>9. BitsOfWaiters'
  BY <1>1, <1>4, <1>5, <1>6, MembersAreCpus DEF BitsOfWaiters, Waits
<1>10. DriverLoop'
  <2> SUFFICES ASSUME NEW d \in Cpu PROVE DriverLoop!(d)'
    BY DEF DriverLoop
  <2>1. CASE d = c
    BY <2>1, <1>1, <1>4, <1>5, <1>6 DEF Driver
  <2>2. CASE d # c
    <3>1. pc[d] # "diag" => At(d) \in SyncPoint
      BY AtType DEF TypeOK
    <3> QED
      BY <2>2, <3>1, <1>1, <1>2, <1>4, <1>6 DEF DriverLoop, Driver
  <2> QED
    BY <2>1, <2>2
<1>11. Counters'
  BY <1>1, <1>3, <1>4, <1>5, <1>6, CounterType DEF Counters, CallsInside
<1>12. SameLevel'
  BY <1>2, <1>6, MembersAreCpus, CounterType DEF SameLevel, Level
<1> QED
  BY <1>7, <1>8, <1>9, <1>10, <1>11, <1>12

LEMMA SeeAllKeepsIInv ==
  ASSUME IInv, NEW c \in Cpu, SeeAll(c)
  PROVE  IInv'
<1> USE DEF IInv
<1>1. /\ pc' = [pc EXCEPT ![c] = "swap"]
      /\ UNCHANGED <<done, word, entered, left>>
      /\ pc[c] = "waitAll" /\ word[At(c)] = MaskAt[At(c)] /\ ~Signed(At(c))
  <2>1. At(c) \in SyncPoint /\ word[At(c)] \in SUBSET Cpu
    BY AtType DEF SeeAll, TypeOK
  <2> QED
    BY <2>1, LoadedIsMask DEF SeeAll, Goto, AllArrived
<1>2. \A d \in Cpu : At(d)' = At(d) /\ (d # c => pc'[d] = pc[d])
  BY <1>1 DEF At, TypeOK
<1>3. pc'[c] = "swap"
  BY <1>1 DEF TypeOK
<1>4. TypeOK'
  BY <1>1 DEF TypeOK, Location, Finished
<1>5. NoSpuriousFail'
  BY <1>2, <1>3 DEF NoSpuriousFail
<1>6. BitsOfWaiters'
  BY <1>1, <1>2, <1>3, MembersAreCpus DEF BitsOfWaiters, Waits
<1>7. DriverLoop'
  BY <1>1, <1>2, <1>3 DEF DriverLoop, Driver
<1>8. Counters'
  BY <1>1, <1>2, <1>3 DEF Counters, CallsInside
<1>9. SameLevel'
  BY <1>1 DEF SameLevel, Level
<1> QED
  BY <1>4, <1>5, <1>6, <1>7, <1>8, <1>9

LEMMA SwapKeepsIInv ==
  ASSUME IInv, NEW c \in Cpu, Swap(c)
  PROVE  IInv'
<1> DEFINE s == At(c)
<1> USE DEF IInv
<1>1. s \in SyncPoint /\ pc[c] = "swap" /\ word[s] = MaskAt[s] /\ Loaded(word[s]) = MaskAt[s]
  BY AtType DEF Swap, TypeOK, DriverLoop, Loaded, Signed
<1>2. /\ pc' = [pc EXCEPT ![c] = "return"]
      /\ word' = [word EXCEPT ![s] = {}]
      /\ UNCHANGED <<done, entered, left>>
  BY <1>1 DEF Swap, Goto, ClearWord
<1>3. \A d \in Cpu : At(d)' = At(d) /\ (d # c => pc'[d] = pc[d])
  BY <1>2 DEF At, TypeOK
<1>4. pc'[c] = "return"
  BY <1>2 DEF TypeOK
<1>5. word'[s] = {} /\ \A r \in SyncPoint : r # s => word'[r] = word[r]
  BY <1>1, <1>2 DEF TypeOK
<1>6. TypeOK'
  BY <1>1, <1>2 DEF TypeOK, Location, Finished
<1>7. NoSpuriousFail'
  BY <1>3, <1>4 DEF NoSpuriousFail
<1>8. BitsOfWaiters'
  BY <1>1, <1>3, <1>5, MembersAreCpus DEF BitsOfWaiters, Waits
<1>9. DriverLoop'
  (* the only driver of s is c, so no other CPU of s is in the loop *)
  <2> SUFFICES ASSUME NEW d \in Cpu PROVE DriverLoop!(d)'
    BY DEF DriverLoop
  <2>1. CASE d = c
    BY <2>1, <1>4
  <2>2. CASE d # c
    <3>1. pc[d] # "diag" => At(d) \in SyncPoint
      BY AtType DEF TypeOK
    <3>2. At(d) = s => pc[d] \notin {"waitAll", "swap"}
      BY <2>2, <1>1 DEF DriverLoop
    <3> QED
      BY <2>2, <3>1, <3>2, <1>3, <1>5 DEF DriverLoop, Driver
  <2> QED
    BY <2>1, <2>2
<1>10. Counters'
  BY <1>1, <1>2, <1>3, <1>4 DEF Counters, CallsInside
<1>11. SameLevel'
  BY <1>1, <1>2, <1>5, MembersAreCpus, CounterType DEF SameLevel, Level
<1> QED
  BY <1>6, <1>7, <1>8, <1>9, <1>10, <1>11

LEMMA SeeClearKeepsIInv ==
  ASSUME IInv, NEW c \in Cpu, SeeClear(c)
  PROVE  IInv'
<1> USE DEF IInv
<1>1. /\ pc' = [pc EXCEPT ![c] = "return"]
      /\ UNCHANGED <<done, word, entered, left>>
      /\ pc[c] = "waitClear" /\ c \notin word[At(c)]
  BY DEF SeeClear, Goto, OwnBitClear
<1>2. \A d \in Cpu : At(d)' = At(d) /\ (d # c => pc'[d] = pc[d])
  BY <1>1 DEF At, TypeOK
<1>3. pc'[c] = "return"
  BY <1>1 DEF TypeOK
<1>4. TypeOK'
  BY <1>1 DEF TypeOK, Location, Finished
<1>5. NoSpuriousFail'
  BY <1>2, <1>3 DEF NoSpuriousFail
<1>6. BitsOfWaiters'
  BY <1>1, <1>2, MembersAreCpus DEF BitsOfWaiters, Waits
<1>7. DriverLoop'
  BY <1>1, <1>2, <1>3 DEF DriverLoop, Driver
<1>8. Counters'
  BY <1>1, <1>2, <1>3 DEF Counters, CallsInside
<1>9. SameLevel'
  BY <1>1 DEF SameLevel, Level
<1> QED
  BY <1>4, <1>5, <1>6, <1>7, <1>8, <1>9

LEMMA ReturnKeepsIInv ==
  ASSUME IInv, NEW c \in Cpu, Return(c)
  PROVE  IInv'
<1> DEFINE s == At(c)
<1> USE DEF IInv
<1>1. s \in SyncPoint /\ pc[c] = "return" /\ ~Finished(c)
  BY AtType DEF Return, TypeOK
<1>2. /\ pc' = [pc EXCEPT ![c] = "diag"]
      /\ left' = [left EXCEPT ![s][c] = @ + 1]
      /\ done' = [done EXCEPT ![c] = @ + 1]
      /\ UNCHANGED <<word, entered>>
  BY DEF Return, Goto
<1>3. \A d \in Cpu : d # c => At(d)' = At(d) /\ pc'[d] = pc[d] /\ done'[d] = done[d]
  BY <1>2 DEF At, TypeOK
<1>4. pc'[c] = "diag" /\ done'[c] = done[c] + 1
  BY <1>2 DEF TypeOK
<1>5. /\ left'[s][c] = left[s][c] + 1
      /\ \A d \in Cpu : d # c => left'[s][d] = left[s][d]
      /\ \A r \in SyncPoint : r # s => left'[r] = left[r]
  BY <1>1, <1>2 DEF TypeOK
<1>6. TypeOK'
  <2>1. \A d \in Cpu : Len(Program[d]) \in Nat
    BY ProgramAssumption
  <2>2. done'[c] <= Len(Program[c])
    BY <2>1, <1>1, <1>4 DEF TypeOK, Finished
  <2>3. \A d \in Cpu : done'[d] <= Len(Program[d]) /\ (pc'[d] # "diag" => ~Finished(d)')
    BY <2>2, <1>3, <1>4 DEF TypeOK, Finished
  <2>4. /\ pc' \in [Cpu -> Location] /\ done' \in [Cpu -> Nat]
        /\ left' \in [SyncPoint -> [Cpu -> Nat]]
    BY <1>1, <1>2 DEF TypeOK, Location
  <2> QED
    BY <2>3, <2>4, <1>2 DEF TypeOK
<1>7. NoSpuriousFail'
  BY <1>3, <1>4 DEF NoSpuriousFail
<1>8. BitsOfWaiters'
  BY <1>1, <1>2, <1>3, <1>4, MembersAreCpus DEF BitsOfWaiters, Waits
<1>9. DriverLoop'
  BY <1>2, <1>3, <1>4 DEF DriverLoop, Driver
<1>10. Counters'
  BY <1>1, <1>2, <1>3, <1>4, <1>5, CounterType DEF Counters, CallsInside
<1>11. SameLevel'
  BY <1>2 DEF SameLevel, Level
<1> QED
  BY <1>6, <1>7, <1>8, <1>9, <1>10, <1>11

LEMMA StutterKeepsIInv == IInv /\ UNCHANGED vars => IInv'
BY DEF vars, IInv, TypeOK, NoSpuriousFail, BitsOfWaiters, Waits, DriverLoop, Driver,
       Counters, CallsInside, SameLevel, Level, At, Finished

LEMMA NextKeepsIInv == IInv /\ [Next]_vars => IInv'
<1> SUFFICES ASSUME IInv, [Next]_vars PROVE IInv'
  OBVIOUS
<1>1. CASE \E c \in Cpu : Step(c)
  BY <1>1, EnterKeepsIInv, SeeAllKeepsIInv, SwapKeepsIInv, SeeClearKeepsIInv,
     ReturnKeepsIInv DEF Step
<1>2. CASE UNCHANGED vars
  BY <1>2, StutterKeepsIInv
<1> QED
  BY <1>1, <1>2 DEF Next

THEOREM Invariance == Spec => []IInv
BY InitIInv, NextKeepsIInv, PTL DEF Spec

----------------------------------------------------------------------------
(* The variables keep their types and no CPU is past its program.          *)
THEOREM TypeCorrect == Spec => []TypeOK
<1>1. IInv => TypeOK
  BY DEF IInv
<1> QED
  BY <1>1, Invariance, PTL

(* sync_cpus_in_mask never lets a CPU out of a round that another member   *)
(* of the mask has not entered.                                            *)
THEOREM BarrierSafety == Spec => []NobodyLeavesEarly
<1>1. IInv => NobodyLeavesEarly
  <2> SUFFICES ASSUME IInv, NEW s \in SyncPoint, NEW c \in MaskAt[s], NEW d \in MaskAt[s]
               PROVE  left[s][c] <= entered[s][d]
    BY DEF NobodyLeavesEarly
  <2>1. c \in Cpu /\ d \in Cpu
    BY MembersAreCpus
  <2>2. left[s][c] <= Level(s, c)
    BY <2>1, CounterType DEF IInv, BitsOfWaiters, Waits, Counters, CallsInside, Level
  <2>3. Level(s, c) = Level(s, d)
    BY DEF IInv, SameLevel
  <2>4. Level(s, d) <= entered[s][d]
    BY <2>1, CounterType DEF IInv, Level
  <2>5. Level(s, c) \in Int /\ Level(s, d) \in Int
    BY <2>1, CounterType DEF IInv, Level
  <2> QED
    BY <2>1, <2>2, <2>3, <2>4, <2>5, CounterType DEF IInv
<1> QED
  BY <1>1, Invariance, PTL

(* Neither jumpstart_fail check of the barrier is ever taken.              *)
THEOREM ChecksNeverFail == Spec => []NoSpuriousFail
<1>1. IInv => NoSpuriousFail
  BY DEF IInv
<1> QED
  BY <1>1, Invariance, PTL

(* Bits leave a word only all together, once all are set.                  *)
THEOREM ClearedTogether == Spec => BitsClearTogether
<1> DEFINE OneStep == \A s \in SyncPoint :
             word[s] \subseteq word'[s] \/ (word[s] = MaskAt[s] /\ word'[s] = {})
<1>1. IInv /\ [Next]_vars => [OneStep]_vars
  <2> SUFFICES ASSUME IInv, Next PROVE OneStep
    OBVIOUS
  <2>1. CASE \E c \in Cpu : Swap(c)
    BY <2>1 DEF Swap, ClearWord, IInv, TypeOK, DriverLoop
  <2>2. CASE \E c \in Cpu : Enter(c)
    <3>1. PICK c \in Cpu : word' = word \/ word' = [word EXCEPT ![At(c)] = @ \cup {c}]
      BY <2>2 DEF Enter, OrOwnBit
    <3> QED
      BY <3>1 DEF IInv, TypeOK
  <2>3. CASE UNCHANGED word
    BY <2>3
  <2> QED
    BY <2>1, <2>2, <2>3 DEF Next, Step, SeeAll, SeeClear, Return, vars
<1> HIDE DEF OneStep
<1>2. Spec => [][OneStep]_vars
  BY <1>1, Invariance, PTL DEF Spec
<1> QED
  BY <1>2 DEF OneStep, BitsClearTogether

----------------------------------------------------------------------------
(***************************************************************************)
(* SyncBarrier implements the safety of Barrier: setting a bit arrives,    *)
(* the driver's swap opens, the return departs, and the two loops that     *)
(* wait stutter.                                                           *)
(***************************************************************************)
Released == [s \in SyncPoint |-> Inside(s) \ word[s]]

LEMMA InitMaps == Init => Gate!BInit
<1> SUFFICES ASSUME Init PROVE Gate!BInit
  OBVIOUS
<1>1. \A s \in SyncPoint : Inside(s) = {}
  BY DEF Init, Inside
<1> QED
  BY <1>1 DEF Init, Gate!BInit

LEMMA EnterArrives ==
  ASSUME IInv, NEW c \in Cpu, Enter(c)
  PROVE  Gate!BNext
<1> DEFINE s == At(c)
<1> USE DEF IInv
<1>1. s \in SyncPoint /\ c \in MaskAt[s] /\ Driver(s) \in MaskAt[s] /\ pc[c] = "diag"
  BY AtType, DriverInMask DEF Enter
<1>2. c \notin word[s] /\ c \notin Inside(s)
  BY <1>1 DEF BitsOfWaiters, Waits, Inside
<1>3. /\ word' = [word EXCEPT ![s] = @ \cup {c}]
      /\ pc' = [pc EXCEPT ![c] = IF c = Driver(s) THEN "waitAll" ELSE "waitClear"]
      /\ UNCHANGED done
  BY <1>1, <1>2 DEF Enter, OrOwnBit, Goto
<1>4. \A d \in Cpu : At(d)' = At(d) /\ (d # c => pc'[d] = pc[d])
  BY <1>3 DEF At, TypeOK
<1>5. pc'[c] # "diag"
  BY <1>3 DEF TypeOK
<1>6. \A r \in SyncPoint : Inside(r)' \ word'[r] = Inside(r) \ word[r]
  <2> SUFFICES ASSUME NEW r \in SyncPoint
               PROVE Inside(r)' \ word'[r] = Inside(r) \ word[r]
    OBVIOUS
  <2>1. CASE r = s
    BY <2>1, <1>1, <1>3, <1>4, <1>5 DEF TypeOK, Inside
  <2>2. CASE r # s
    BY <2>2, <1>1, <1>3, <1>4 DEF TypeOK, Inside
  <2> QED
    BY <2>1, <2>2
<1>7. Gate!Arrive(s, c)
  BY <1>1, <1>2, <1>3, <1>6 DEF Gate!Arrive
<1> QED
  BY <1>1, <1>7 DEF Gate!BNext

LEMMA SwapOpens ==
  ASSUME IInv, NEW c \in Cpu, Swap(c)
  PROVE  Gate!BNext
<1> DEFINE s == At(c)
<1> USE DEF IInv
<1>1. s \in SyncPoint /\ pc[c] = "swap" /\ word[s] = MaskAt[s] /\ Loaded(word[s]) = MaskAt[s]
  BY AtType DEF Swap, TypeOK, DriverLoop, Loaded, Signed
<1>2. /\ pc' = [pc EXCEPT ![c] = "return"]
      /\ word' = [word EXCEPT ![s] = {}]
      /\ UNCHANGED done
  BY <1>1 DEF Swap, Goto, ClearWord
<1>3. \A d \in Cpu : At(d)' = At(d) /\ (pc'[d] # "diag" <=> pc[d] # "diag")
  BY <1>1, <1>2 DEF At, TypeOK
<1>4. \A r \in SyncPoint : Inside(r)' = Inside(r)
  BY <1>3 DEF Inside
<1>5. Inside(s) = MaskAt[s]
  <2>1. \A d \in MaskAt[s] : d \in Inside(s)
    BY <1>1, MembersAreCpus DEF BitsOfWaiters, Waits, Inside
  <2>2. \A d \in Inside(s) : d \in MaskAt[s]
    BY AtType DEF Inside, TypeOK
  <2> QED
    BY <2>1, <2>2
<1>6. Released' = [Released EXCEPT ![s] = MaskAt[s]]
  <2>1. \A r \in SyncPoint : Inside(r)' \ word'[r] =
                             IF r = s THEN MaskAt[s] ELSE Inside(r) \ word[r]
    BY <1>1, <1>2, <1>4, <1>5 DEF TypeOK
  <2> QED
    BY <2>1, <1>1 DEF Released
<1>7. Gate!Open(s)
  BY <1>1, <1>2, <1>6 DEF Gate!Open, Released
<1> QED
  BY <1>1, <1>7 DEF Gate!BNext, Gate!Open

LEMMA ReturnDeparts ==
  ASSUME IInv, NEW c \in Cpu, Return(c)
  PROVE  Gate!BNext
<1> DEFINE s == At(c)
<1> USE DEF IInv
<1>1. s \in SyncPoint /\ pc[c] = "return" /\ c \in MaskAt[s]
  BY AtType DEF Return, TypeOK
<1>2. pc' = [pc EXCEPT ![c] = "diag"] /\ done' = [done EXCEPT ![c] = @ + 1] /\ UNCHANGED word
  BY DEF Return, Goto
<1>3. \A d \in Cpu : d # c => At(d)' = At(d) /\ pc'[d] = pc[d]
  BY <1>2 DEF At, TypeOK
<1>4. pc'[c] = "diag"
  BY <1>2 DEF TypeOK
<1>5. c \in Inside(s) /\ c \notin word[s]
  BY <1>1 DEF BitsOfWaiters, Waits, Inside
<1>6. \A r \in SyncPoint : Inside(r)' = IF r = s THEN Inside(s) \ {c} ELSE Inside(r)
  BY <1>1, <1>3, <1>4, <1>5 DEF Inside
<1>7. Released' = [Released EXCEPT ![s] = @ \ {c}]
  <2>1. \A r \in SyncPoint : Inside(r)' \ word'[r] =
          IF r = s THEN (Inside(s) \ word[s]) \ {c} ELSE Inside(r) \ word[r]
    BY <1>2, <1>6
  <2> QED
    BY <2>1, <1>1 DEF Released
<1>8. Gate!Depart(s, c)
  BY <1>1, <1>2, <1>5, <1>7 DEF Gate!Depart, Released
<1> QED
  BY <1>1, <1>8 DEF Gate!BNext

(* The steps that touch no word and leave nobody's call stutter.           *)
LEMMA WaitStutters ==
  ASSUME IInv, NEW c \in Cpu, SeeAll(c) \/ SeeClear(c)
  PROVE  UNCHANGED Gate!bvars
<1>1. /\ UNCHANGED <<word, done>>
      /\ \A d \in Cpu : pc'[d] # "diag" <=> pc[d] # "diag"
  BY DEF SeeAll, SeeClear, Goto, IInv, TypeOK
<1>2. \A s \in SyncPoint : Inside(s)' = Inside(s)
  BY <1>1 DEF Inside, At
<1> QED
  BY <1>1, <1>2 DEF Gate!bvars

(* Every behaviour of the assembly is one of the abstract barrier: nobody  *)
(* is released but by an opening that found all members gathered.          *)
THEOREM Refinement == Spec => Gate!BSafety
<1>1. IInv /\ [Next]_vars => [Gate!BNext]_(Gate!bvars)
  <2> SUFFICES ASSUME IInv, [Next]_vars PROVE [Gate!BNext]_(Gate!bvars)
    OBVIOUS
  <2>1. CASE \E c \in Cpu : Step(c)
    BY <2>1, EnterArrives, SwapOpens, ReturnDeparts, WaitStutters DEF Step
  <2>2. CASE UNCHANGED vars
    BY <2>2 DEF vars, Gate!bvars, Inside, At
  <2> QED
    BY <2>1, <2>2 DEF Next
<1> QED
  BY <1>1, InitMaps, Invariance, PTL DEF Spec, Gate!BSafety

----------------------------------------------------------------------------
(* A bit set in a word with CPU 31 in its mask stays: nobody swaps it out. *)
SignedKept ==
  \A s \in SyncPoint : Signed(s) =>
    \A c \in Cpu : left[s][c] = 0 /\ (pc[c] # "diag" /\ At(c) = s => c \in word[s])

(* Nobody comes out of a sync point with CPU 31 in its mask, because the   *)
(* driver never takes the word it loads for the mask.                      *)
THEOREM NobodyPassesSigned == Spec => []SignedStaysShut
<1>1. Init => SignedKept
  BY DEF Init, SignedKept
<1>2. IInv /\ SignedKept /\ [Next]_vars => SignedKept'
  <2> SUFFICES ASSUME IInv, SignedKept, [Next]_vars PROVE SignedKept'
    OBVIOUS
  <2> USE DEF IInv
  <2>1. ASSUME NEW c \in Cpu, Enter(c) PROVE SignedKept'
    <3>1. At(c) \in SyncPoint /\ c \in MaskAt[At(c)] /\ Driver(At(c)) \in MaskAt[At(c)]
      BY <2>1, AtType, DriverInMask DEF Enter
    <3>2. word' = [word EXCEPT ![At(c)] = @ \cup {c}] /\ UNCHANGED <<done, left>>
      BY <2>1, <3>1 DEF Enter, OrOwnBit
    <3>3. \A d \in Cpu : d # c => pc'[d] = pc[d]
      BY <2>1 DEF Enter, Goto, TypeOK
    <3>4. \A s \in SyncPoint : word[s] \subseteq word'[s]
      BY <3>1, <3>2 DEF TypeOK
    <3>5. c \in word'[At(c)]
      BY <3>1, <3>2 DEF TypeOK
    <3>6. \A d \in Cpu : At(d)' = At(d)
      BY <3>2 DEF At
    <3> QED
      BY <3>2, <3>3, <3>4, <3>5, <3>6 DEF SignedKept
  <2>2. ASSUME NEW c \in Cpu, SeeAll(c) PROVE SignedKept'
    <3>1. /\ \A d \in Cpu : At(d)' = At(d) /\ (pc'[d] # "diag" => pc[d] # "diag")
          /\ UNCHANGED <<word, left>>
      BY <2>2 DEF SeeAll, Goto, At, TypeOK
    <3> QED
      BY <3>1 DEF SignedKept
  <2>3. ASSUME NEW c \in Cpu, Swap(c) PROVE SignedKept'
    <3>1. At(c) \in SyncPoint /\ ~Signed(At(c))
      BY <2>3, AtType DEF Swap, TypeOK, DriverLoop
    <3>2. \A d \in Cpu : At(d)' = At(d) /\ (pc'[d] # "diag" => pc[d] # "diag")
      BY <2>3 DEF Swap, Goto, At, TypeOK
    <3>3. \A s \in SyncPoint : left' = left /\ (s # At(c) => word'[s] = word[s])
      BY <2>3, <3>1 DEF Swap, ClearWord, TypeOK
    <3> QED
      BY <3>1, <3>2, <3>3 DEF SignedKept
  <2>4. ASSUME NEW c \in Cpu, SeeClear(c) PROVE SignedKept'
    <3>1. /\ \A d \in Cpu : At(d)' = At(d) /\ (pc'[d] # "diag" => pc[d] # "diag")
          /\ UNCHANGED <<word, left>>
      BY <2>4 DEF SeeClear, Goto, At, TypeOK
    <3> QED
      BY <3>1 DEF SignedKept
  <2>5. ASSUME NEW c \in Cpu, Return(c) PROVE SignedKept'
    <3>1. At(c) \in SyncPoint /\ c \notin word[At(c)] /\ pc[c] # "diag"
      BY <2>5, AtType DEF Return, TypeOK, BitsOfWaiters, Waits
    <3>2. ~Signed(At(c))
      BY <3>1 DEF SignedKept
    <3>3. /\ \A d \in Cpu : d # c => At(d)' = At(d) /\ pc'[d] = pc[d]
          /\ pc'[c] = "diag" /\ word' = word
          /\ \A s \in SyncPoint : s # At(c) => left'[s] = left[s]
      BY <2>5, <3>1 DEF Return, Goto, At, TypeOK
    <3> QED
      BY <3>1, <3>2, <3>3 DEF SignedKept
  <2>6. CASE UNCHANGED vars
    BY <2>6 DEF vars, SignedKept, At
  <2> QED
    BY <2>1, <2>2, <2>3, <2>4, <2>5, <2>6 DEF Next, Step
<1>3. SignedKept => SignedStaysShut
  BY DEF SignedKept, SignedStaysShut
<1> QED
  BY <1>1, <1>2, <1>3, Invariance, PTL DEF Spec
=============================================================================
