------------------------------- MODULE Barrier -------------------------------
(***************************************************************************)
(* What a synchronisation point promises, with no word of memory in it:    *)
(* its members gather, the point opens once for all of them together, and  *)
(* nobody gathers for the next round before walking out of this one.       *)
(* SyncBarrier implements it.                                              *)
(***************************************************************************)
CONSTANTS
  Point,                \* the synchronisation points
  Members               \* Members[s]: the CPUs that synchronise at s

VARIABLES
  gathered,             \* gathered[s]: members that have arrived and wait
  released              \* released[s]: members let go, not yet in their own code

bvars == <<gathered, released>>

BInit ==
  /\ gathered = [s \in Point |-> {}]
  /\ released = [s \in Point |-> {}]

Arrive(s, c) ==
  /\ c \in Members[s] \ (gathered[s] \cup released[s])
  /\ gathered' = [gathered EXCEPT ![s] = @ \cup {c}]
  /\ UNCHANGED released

(* The only step that lets anyone go, and it needs every member.           *)
Open(s) ==
  /\ gathered[s] = Members[s]
  /\ gathered' = [gathered EXCEPT ![s] = {}]
  /\ released' = [released EXCEPT ![s] = Members[s]]

Depart(s, c) ==
  /\ c \in released[s]
  /\ released' = [released EXCEPT ![s] = @ \ {c}]
  /\ UNCHANGED gathered

BNext == \E s \in Point :
  \/ Open(s)
  \/ \E c \in Members[s] : Arrive(s, c) \/ Depart(s, c)

(* A point with everybody in it opens, and those let go walk out.          *)
BFairnessAt(s) ==
  /\ WF_bvars(Open(s))
  /\ \A c \in Members[s] : WF_bvars(Depart(s, c))
BFairness == \A s \in Point : BFairnessAt(s)

BSafety == BInit /\ [][BNext]_bvars
BSpec == BSafety /\ BFairness
==============================================================================
