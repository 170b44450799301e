----------------------------- MODULE CycleLoop ------------------------------
(***************************************************************************)
(* What the simulator's parts assume of the event queue (src/eventq.c,     *)
(* src/simulate.c): time advances one cycle at a time; every event queued  *)
(* for a cycle is handled in that cycle, once, and before the next cpu     *)
(* executes; every cpu executes once in a cycle, in the order of their     *)
(* numbers.  Module Noc is written over this order.                        *)
(***************************************************************************)
EXTENDS Integers

CONSTANTS total_cpus, Handlers, MaxDelay

Cpus == 0 .. total_cpus - 1

VARIABLES
  now,        \* the cycle
  left,       \* cpus whose turn in this cycle is not over
  executing,  \* the cpu that executes, as a set
  due         \* due[h][k]: events h queued for the cycle now + k

vars == <<now, left, executing, due>>

NoneDue(events) == \A h \in Handlers : events[h][0] = 0

NextCycle(events) ==
  [h \in Handlers |-> [k \in 0 .. MaxDelay |->
     IF k < MaxDelay THEN events[h][k + 1] ELSE 0]]

\* The cycle ends with the last turn and the last event of the cycle.
Settle(turns, events) ==
  IF turns = {} /\ NoneDue(events)
  THEN now' = now + 1 /\ left' = Cpus /\ due' = NextCycle(events)
  ELSE now' = now /\ left' = turns /\ due' = events

Init ==
  /\ now = 0
  /\ left = Cpus
  /\ executing = {}
  /\ due = [h \in Handlers |-> [k \in 0 .. MaxDelay |-> 0]]

Handle(h) ==
  /\ executing = {}
  /\ due[h][0] > 0
  /\ Settle(left, [due EXCEPT ![h][0] = @ - 1])
  /\ UNCHANGED executing

Start(c) ==
  /\ executing = {}
  /\ NoneDue(due)
  /\ c \in left /\ \A d \in left : c <= d
  /\ executing' = {c}
  /\ UNCHANGED <<now, left, due>>

Queue(h, k) ==
  /\ executing # {}
  /\ due' = [due EXCEPT ![h][k] = @ + 1]
  /\ UNCHANGED <<now, left, executing>>

Finish(c) ==
  /\ executing = {c}
  /\ executing' = {}
  /\ Settle(left \ {c}, due)

Next == \/ \E h \in Handlers : Handle(h) \/ \E k \in 0 .. MaxDelay : Queue(h, k)
        \/ \E c \in Cpus : Start(c) \/ Finish(c)

Spec == Init /\ [][Next]_vars
=============================================================================
