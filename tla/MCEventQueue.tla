---------------------------- MODULE MCEventQueue ----------------------------
(***************************************************************************)
(* The event queue implements the cycle loop.                              *)
(***************************************************************************)
EXTENDS EventQueue, FiniteSets

Pending(a, w) ==
  {i \in 1 .. Len(eventq_pending) : action(i) = a /\ when(i) = w}

\* Between two events the cycle is that of the next event.
Now == IF executing # {} THEN sim_cycle ELSE when(1)

Loop == INSTANCE CycleLoop WITH
  now <- Now,
  left <- executing \cup {c \in Cpus : Pending(cpu_execute(c), Now) # {}},
  due <- [h \in Handlers |-> [k \in 0 .. MaxDelay |->
            Cardinality(Pending(handler(h), Now + k))]]

\* eventq.c sorts by time only, with one rule for cpu_execute and another for
\* everything else; together with the rescheduling at the end of cpu_execute
\* this yields the cycle loop: no event is lost, late, early or run twice,
\* and the cpus take turns in the same order in every cycle.
ImplementsCycleLoop == Loop!Spec
=============================================================================
