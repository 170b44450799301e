------------------------------- MODULE InOrder -------------------------------
(***************************************************************************)
(* What the instruction window promises: instructions retire one after     *)
(* the other along the path that the program takes without a pipeline.     *)
(* The state is a pair of program counters, for the delay slots.  A load   *)
(* that was executed too early does not retire: it is executed again,      *)
(* after the branch before it when it sits in a delay slot                 *)
(* (src/commit.c, pipeline_flush).                                         *)
(***************************************************************************)
EXTENDS Isa

VARIABLES
  last,  \* the instruction retired last, Outside when it is to be repeated
  pc,    \* the next instruction
  npc,   \* the one after it
  bd     \* the next instruction is in a delay slot

vars == <<program, last, pc, npc, bd>>

Init == program \in Programs /\ last = Outside /\ pc = 0 /\ npc = Plus(0, 1) /\ bd = FALSE

Retire ==
  /\ last' = pc /\ UNCHANGED program
  /\ \E taken \in Outcomes(pc) :
       IF ~ IsCtrl(pc)
       THEN pc' = npc /\ npc' = Plus(npc, 1) /\ bd' = FALSE
       ELSE IF IsLikely(pc) /\ ~ taken
       THEN pc' = Plus(pc, 2) /\ npc' = Plus(pc, 3) /\ bd' = FALSE
       ELSE pc' = npc /\ npc' = AfterBranch(pc, taken) /\ bd' = TRUE

Repeat ==
  /\ Kind(pc) = "load"
  /\ last' = Outside /\ UNCHANGED program
  /\ pc' = IF bd THEN Plus(pc, -1) ELSE pc
  /\ npc' = Plus(pc', 1)
  /\ bd' = FALSE

Next == Retire \/ Repeat

Spec == Init /\ [][Next]_vars
=============================================================================
