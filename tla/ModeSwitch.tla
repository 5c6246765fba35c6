----------------------------- MODULE ModeSwitch -----------------------------
(***************************************************************************)
(* How one CPU moves between privilege modes: run_function_in_{s,u,vs,vu}- *)
(* mode, the trap handlers of M, S and VS mode, and the environment calls  *)
(* that end a function or give up in it (jumpstart.{m,s,vs,u,vu}mode.S).   *)
(*                                                                         *)
(* Every call down and every trap saves the registers in a stack of        *)
(* MAX_NUM_CONTEXT_SAVES contexts.  M-mode has one; S and VS mode share    *)
(* the other.  Leaving a function takes two contexts off, the one of the   *)
(* ecall and the one below it, which the code takes to be its caller's.    *)
(* All of this is per CPU, so one CPU is the whole story.                  *)
(*                                                                         *)
(* What is on a context is abstracted to whose registers it holds: the     *)
(* number of the activation, the functions and handlers in progress being  *)
(* numbered from main() up.  Interrupts are left out (S-mode's are off     *)
(* across a switch), a trap is an exception of the code that runs.         *)
(***************************************************************************)
EXTENDS Naturals, Sequences, SequencesExt

CONSTANTS
  MaxContextSaves,      \* MAX_NUM_CONTEXT_SAVES
  GiveUp                \* modes whose jumpstart_*_fail the diag calls

ASSUME SavesAssumption == MaxContextSaves \in Nat \ {0}

Mode == {"M", "S", "VS", "U", "VU"}
Region == {"M", "S"}
ASSUME GiveUpAssumption == GiveUp \subseteq Mode

VARIABLES
  calls,            \* activations in progress: [mode, trap], the last one runs
  regs,             \* the activation whose registers are live
  saved,            \* saved[r]: the contexts in use of region r
  left,             \* num_context_saves_remaining_in_{m,s}mode
  curMode,          \* the current_mode thread attribute
  curV,             \* the current_v_bit thread attribute
  halted,           \* jumpstart_mmode_fail has been reached
  gaveUp            \* history: a fail call has left handlers or calls behind

vars == <<calls, regs, saved, left, curMode, curV, halted, gaveUp>>

depth == Len(calls)
Running == calls[depth]

(* The stack a mode's traps and calls go to.                               *)
RegionOf(m) == IF m = "M" THEN "M" ELSE "S"

(* SPP/MPP and SPV/MPV of code interrupted in mode m.                      *)
Privilege(m) == CASE m = "M" -> "M" [] m \in {"S", "VS"} -> "S" [] OTHER -> "U"
Virtual(m) == IF m \in {"VS", "VU"} THEN 1 ELSE 0

Init ==
  /\ calls = <<[mode |-> "M", trap |-> FALSE]>>
  /\ regs = 1
  /\ saved = [r \in Region |-> <<>>]
  /\ left = [r \in Region |-> MaxContextSaves]
  /\ curMode = "M" /\ curV = 0
  /\ halted = FALSE /\ gaveUp = FALSE

(* The CPU goes on only with the registers of the code it returns to.      *)
Alive == ~halted /\ regs = depth

----------------------------------------------------------------------------
(* Mutations, one plausible slip each.                                     *)

(* the pointer moves back two contexts, the count only one *)
PutBackOne(r) == UNCHANGED left
(* the ecall that ends a function does not count its own context *)
PutBackTwo(r) == left' = [left EXCEPT ![r] = @ + 2]
(* the pointer moves back over the ecall's context only *)
PopEcallOnly(r) == UNCHANGED saved
(* the attribute is left alone on the way out of an S-mode handler *)
StaysInS(h, m) == CASE h = "M" /\ m # "M" -> Privilege(m) [] OTHER -> curMode
(* stvec_trap_handler without the clear of the V bit *)
KeepsV(h) == IF h = "M" THEN 0 ELSE curV
(* the ecall's own context is taken for the caller's *)
OwnContext(r) == depth

----------------------------------------------------------------------------
(* SAVE_ALL_GPRS, with what is saved of the status registers, and the      *)
(* count and pointer of region r moved on by one.                          *)
Save(r) ==
  /\ saved' = [saved EXCEPT ![r] = Append(@, [regs |-> regs, mode |-> Running.mode])]
  /\ left' = [left EXCEPT ![r] = @ - 1]

Halt ==
  /\ halted' = TRUE
  /\ UNCHANGED <<calls, regs, saved, left, curMode, curV, gaveUp>>

(* The activation a function of mode m was started from.                   *)
CallerOf(m) ==
  LET callers == {k \in 1..(depth - 1) :
                    calls[k].mode = (CASE m = "S" -> "M" [] m \in {"U", "VS"} -> "S"
                                       [] m = "VU" -> "VS")}
  IN CHOOSE k \in callers : \A j \in callers : j <= k

(* The ecall that ends a function saved a context too: the count goes up   *)
(* by two for the two the pointer is moved back by.                        *)
PutBack(r) == left' = [left EXCEPT ![r] = (@ - 1) + 2]

(* The pointer, moved on by the ecall and back by two.                     *)
Pop(r) == saved' = [saved EXCEPT ![r] = Front(@)]

(* The registers a completion restores, from the second context down: the  *)
(* first is the ecall's, saved on top of what is there.                    *)
SecondContext(r) == Last(saved[r]).regs

(* handle_syscall_run_func_in_*_complete: back in mode `into`, a function  *)
(* of mode m having returned or given up.                                  *)
Complete(m, into) ==
  LET r == RegionOf(into) IN
  /\ regs' = SecondContext(r)
  /\ Pop(r)
  /\ PutBack(r)
  /\ calls' = SubSeq(calls, 1, CallerOf(m))
  /\ curMode' = Privilege(into)
  /\ curV' = Virtual(into)
  /\ gaveUp' = (gaveUp \/ depth > CallerOf(m) + 1)
  /\ UNCHANGED halted

(* exit_from_smode and jumpstart_smode_fail: an ecall to M-mode.           *)
LeaveS == IF left["M"] = 0 THEN Halt ELSE Complete("S", "M")
(* exit_from_vsmode and jumpstart_vsmode_fail: an ecall to S-mode.         *)
LeaveVS == IF left["S"] = 0 THEN LeaveS ELSE Complete("VS", "S")
(* The ecalls out of U mode, to S-mode, and out of VU mode, to VS-mode.    *)
LeaveU == IF left["S"] = 0 THEN LeaveS ELSE Complete("U", "S")
LeaveVU == IF left["S"] = 0 THEN LeaveVS ELSE Complete("VU", "VS")

Leave(m) ==
  \/ m = "S" /\ LeaveS
  \/ m = "VS" /\ LeaveVS
  \/ m = "U" /\ LeaveU
  \/ m = "VU" /\ LeaveVU

(* jumpstart_*_fail from whatever runs in mode m.                          *)
FailIn(m) == IF m = "M" THEN Halt ELSE Leave(m)

----------------------------------------------------------------------------
(* run_function_in_*: from mode m, a function of mode f.                   *)
MayRun == {<<"M", "S">>, <<"S", "U">>, <<"S", "VS">>, <<"VS", "VU">>}

ModeAsExpected(m) == curMode = Privilege(m) /\ (m = "VS" => curV = 1)

RunFunction(f) ==
  LET m == Running.mode IN
  /\ Alive
  /\ <<m, f>> \in MayRun
  /\ IF ~ModeAsExpected(m) \/ left[RegionOf(m)] = 0
     THEN FailIn(m)
     ELSE /\ Save(RegionOf(m))
          /\ calls' = Append(calls, [mode |-> f, trap |-> FALSE])
          /\ regs' = depth + 1
          /\ curMode' = Privilege(f)
          /\ curV' = IF f = "VS" THEN 1 ELSE curV
          /\ UNCHANGED <<halted, gaveUp>>

(* The function returns to the code that makes its environment call.       *)
ReturnFromFunction ==
  /\ Alive
  /\ ~Running.trap /\ depth > 1
  /\ Leave(Running.mode)

(* The diag, a handler of it, or the default handler gives up.             *)
Fail ==
  /\ Alive
  /\ Running.mode \in GiveUp
  /\ FailIn(Running.mode)

(* The modes an exception in mode m may be taken in, by medeleg and        *)
(* hedeleg.                                                                *)
TakenIn(m) == {"M"} \cup (IF m # "M" THEN {"S"} ELSE {})
                    \cup (IF m \in {"VS", "VU"} THEN {"VS"} ELSE {})

(* The V bit after the entry of handler h.                                 *)
EntryV(h) == IF h = "VS" THEN curV ELSE 0

(* {m,s,vs}tvec_trap_handler up to the handler the diag has registered.    *)
(* Where it has registered none, the handler is the fail call that the     *)
(* action Fail makes.                                                      *)
TakeTrap(h) ==
  /\ Alive
  /\ h \in TakenIn(Running.mode)
  /\ LET r == RegionOf(h) IN
     IF left[r] = 0
     THEN FailIn(h)
     ELSE /\ Save(r)
          /\ calls' = Append(calls, [mode |-> h, trap |-> TRUE])
          /\ regs' = depth + 1
          /\ curMode' = Privilege(h)
          /\ curV' = EntryV(h)
          /\ UNCHANGED <<halted, gaveUp>>

(* What a handler of mode h sets current_mode to when it returns to m.     *)
ExitMode(h, m) ==
  CASE h = "M" /\ m # "M" -> Privilege(m)
    [] h # "M" /\ Privilege(m) = "U" -> "U"
    [] OTHER -> curMode

(* restore_context *)
ReturnFromTrap ==
  LET h == Running.mode
      r == RegionOf(h)
      c == Last(saved[r])
  IN
  /\ Alive
  /\ Running.trap
  /\ regs' = c.regs
  /\ saved' = [saved EXCEPT ![r] = Front(@)]
  /\ left' = [left EXCEPT ![r] = @ + 1]
  /\ calls' = Front(calls)
  /\ curMode' = ExitMode(h, c.mode)
  /\ curV' = IF h = "VS" THEN curV ELSE Virtual(c.mode)
  /\ UNCHANGED <<halted, gaveUp>>

Next ==
  \/ \E f \in Mode : RunFunction(f)
  \/ ReturnFromFunction
  \/ Fail
  \/ \E h \in {"M", "S", "VS"} : TakeTrap(h)
  \/ ReturnFromTrap

Spec == Init /\ [][Next]_vars

----------------------------------------------------------------------------
Activation == [mode : Mode, trap : BOOLEAN]
Context == [regs : Nat, mode : Mode]

TypeOK ==
  /\ calls \in Seq(Activation) /\ calls # <<>>
  /\ regs \in Nat
  /\ saved \in [Region -> Seq(Context)]
  /\ left \in [Region -> 0..MaxContextSaves]
  /\ curMode \in {"M", "S", "U"} /\ curV \in {0, 1}
  /\ halted \in BOOLEAN /\ gaveUp \in BOOLEAN

(* The pointer into a region and the count of contexts remaining are kept  *)
(* in two attributes and moved in eight places: they never disagree, so a  *)
(* context is never saved past the end of this CPU's part of the region.   *)
CountMatchesPointer ==
  \A r \in Region : left[r] + Len(saved[r]) = MaxContextSaves

(* The region activation k saved its interrupted code's registers in.      *)
SavedIn(k) == IF calls[k].trap THEN RegionOf(calls[k].mode)
                               ELSE RegionOf(calls[k - 1].mode)

(* The activations whose end will put a context of region r back.          *)
Users(r) == {k \in 2..depth : SavedIn(k) = r}

(* The contexts of region r are those, one each, in the order of entry.    *)
HoldsNeeded(r) ==
  /\ {saved[r][i].regs + 1 : i \in 1..Len(saved[r])} = Users(r)
  /\ \A i, j \in 1..Len(saved[r]) : i < j => saved[r][i].regs < saved[r][j].regs

(* M-mode's contexts are one for each call and trap in progress that       *)
(* entered through it, in order, whatever gives up wherever: an ecall out  *)
(* of S-mode always finds the context of the run_function_in_smode that    *)
(* started it, however deep S-mode was in its own handlers.                *)
MContextsNeeded == regs = depth => HoldsNeeded("M")

(* The same of the contexts S and VS mode share, as long as nobody gave up *)
(* inside a handler or a call of the function it gave up.                  *)
SContextsNeeded == ~gaveUp => HoldsNeeded("S")

(* Both regions hold what will be put back from them.                      *)
ContextsNeeded == MContextsNeeded /\ SContextsNeeded

(* The code that resumes has its own registers.                            *)
RegistersRight == ~gaveUp => regs = depth

(* current_mode and current_v_bit, which pick the checks and the handler   *)
(* tables, are those of the mode the CPU runs in, through any nesting.     *)
ModeTracked ==
  Alive => curMode = Privilege(Running.mode) /\ curV = Virtual(Running.mode)

(* jumpstart.smode.S:361: "Restore S mode context from before the          *)
(* run_function_in_vsmode() call."  A function that ends, by a return or   *)
(* by jumpstart_vsmode_fail, gives its caller its own registers back.      *)
CallerContextRestored == regs = depth
=============================================================================
