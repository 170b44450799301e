----------------------------- MODULE EventQueue -----------------------------
(***************************************************************************)
(* The event queue of src/eventq.c, as the multi-core simulator uses it:   *)
(* sim_main queues one cpu_execute per cpu, eventq_service_events takes    *)
(* the first descriptor of a list sorted by time until the list is empty,  *)
(* cpu_execute queues ordinary events (update_credit, flit_arrive,         *)
(* scache_probe, scache_refill, scache_writeback) and, last, itself.       *)
(*                                                                         *)
(* The event identifiers are left out: eventq_execute and eventq_remove,   *)
(* the only readers of an identifier, have no callers.                     *)
(***************************************************************************)
EXTENDS Integers, Sequences

CONSTANTS
  total_cpus,
  Handlers,     \* ordinary events: a function with its arguments
  MaxDelay,     \* the longest delay an ordinary event is queued with
  MaxPending,   \* bound: events pending at once
  MaxCycle      \* bound: simulated cycles

ASSUME QueueAssumption ==
  /\ total_cpus \in Nat \ {0}
  /\ MaxDelay \in Nat
  /\ MaxPending \in Nat
  /\ MaxCycle \in Nat

Cpus == 0 .. total_cpus - 1
period == 1

\* What a descriptor's action does: fn is cpu_execute or an ordinary handler.
Actions == [fn : {"cpu_execute"}, arg : Cpus] \cup [fn : {"handler"}, arg : Handlers]

cpu_execute(c) == [fn |-> "cpu_execute", arg |-> c]
handler(h) == [fn |-> "handler", arg |-> h]

VARIABLES
  desc,            \* the descriptors allocated so far, by number
  eventq_pending,  \* numbers of the pending descriptors, in list order
  eventq_free,     \* numbers of the free descriptors, in list order
  sim_cycle,
  executing        \* the cpu whose cpu_execute is running, as a set

vars == <<desc, eventq_pending, eventq_free, sim_cycle, executing>>

-----------------------------------------------------------------------------
(***************************************************************************)
(* __QUEUE_EVENT                                                           *)
(***************************************************************************)
when(i) == desc[eventq_pending[i]].when
action(i) == desc[eventq_pending[i]].action

\* Variant: an ordinary event goes behind the events of its time.
GoesAfter_Last(w, a, i) == when(i) <= w

\* Variant: cpu_execute is inserted by the rule of the ordinary events.
GoesAfter_First(w, a, i) == when(i) < w

\* The insertion scan passes over the i-th pending event: cpu_execute goes
\* behind the events of its own time, an ordinary event ahead of them.
GoesAfter(w, a, i) == IF a.fn = "cpu_execute" THEN when(i) <= w ELSE when(i) < w

Position(w, a) ==
  CHOOSE k \in 0 .. Len(eventq_pending) :
    /\ \A i \in 1 .. k : GoesAfter(w, a, i)
    /\ k < Len(eventq_pending) => ~ GoesAfter(w, a, k + 1)

\* The list with descriptor d put where the scan stops.
Insert(d, w, a) ==
  LET k == Position(w, a)
  IN  SubSeq(eventq_pending, 1, k) \o <<d>>
        \o SubSeq(eventq_pending, k + 1, Len(eventq_pending))

\* Variant: the reused descriptor stays on the free list.
QUEUE_EVENT_StaysFree(w, a) ==
  LET new == IF eventq_free = <<>> THEN Len(desc) + 1 ELSE Head(eventq_free)
      event == [when |-> w, action |-> a]
  IN  /\ desc' = IF eventq_free = <<>> THEN Append(desc, event)
                 ELSE [desc EXCEPT ![new] = event]
      /\ eventq_free' = eventq_free
      /\ eventq_pending' = Insert(new, w, a)

\* Take a free descriptor, or allocate one, fill it in and insert it.
QUEUE_EVENT(w, a) ==
  LET new == IF eventq_free = <<>> THEN Len(desc) + 1 ELSE Head(eventq_free)
      event == [when |-> w, action |-> a]
  IN  /\ desc' = IF eventq_free = <<>> THEN Append(desc, event)
                 ELSE [desc EXCEPT ![new] = event]
      /\ eventq_free' = IF eventq_free = <<>> THEN <<>> ELSE Tail(eventq_free)
      /\ eventq_pending' = Insert(new, w, a)

-----------------------------------------------------------------------------
\* sim_main, up to its call of eventq_service_events.
Init ==
  /\ desc = [i \in 1 .. total_cpus |-> [when |-> 0, action |-> cpu_execute(i - 1)]]
  /\ eventq_pending = [i \in 1 .. total_cpus |-> i]
  /\ eventq_free = <<>>
  /\ sim_cycle = 0
  /\ executing = {}

\* One turn of the loop: the descriptor goes back to the free list before its
\* action starts.  An ordinary handler runs to its end and queues nothing.
eventq_service_events ==
  LET ev == Head(eventq_pending) IN
  /\ executing = {}
  /\ eventq_pending # <<>>
  /\ when(1) <= MaxCycle
  /\ sim_cycle' = when(1)
  /\ eventq_pending' = Tail(eventq_pending)
  /\ eventq_free' = <<ev>> \o eventq_free
  /\ executing' = IF action(1).fn = "cpu_execute" THEN {action(1).arg} ELSE {}
  /\ UNCHANGED desc

\* Variant: the delay is counted from the cycle before.
eventq_queue_callback_Early(h, delay) ==
  /\ executing # {}
  /\ Len(eventq_pending) < MaxPending
  /\ QUEUE_EVENT(sim_cycle + delay - period, handler(h))
  /\ UNCHANGED <<sim_cycle, executing>>

\* The stages of the running cpu queue an event for this cycle or a later one.
eventq_queue_callback(h, delay) ==
  /\ executing # {}
  /\ Len(eventq_pending) < MaxPending
  /\ QUEUE_EVENT(sim_cycle + delay, handler(h))
  /\ UNCHANGED <<sim_cycle, executing>>

\* The last thing cpu_execute does.
reschedule(c) ==
  /\ executing = {c}
  /\ QUEUE_EVENT(sim_cycle + period, cpu_execute(c))
  /\ executing' = {}
  /\ UNCHANGED sim_cycle

Next ==
  \/ eventq_service_events
  \/ \E h \in Handlers, delay \in 0 .. MaxDelay : eventq_queue_callback(h, delay)
  \/ \E c \in Cpus : reschedule(c)

Spec == Init /\ [][Next]_vars

-----------------------------------------------------------------------------
\* The type invariant.
TypeOK ==
  /\ desc \in Seq([when : Nat, action : Actions])
  /\ eventq_pending \in Seq(1 .. Len(desc))
  /\ eventq_free \in Seq(1 .. Len(desc))
  /\ sim_cycle \in Nat
  /\ executing \in SUBSET Cpus

\* The pending list and the free list share the next field of a descriptor:
\* every descriptor is on exactly one of them, exactly once, although it is
\* released while its action has yet to run and to queue further events.
DescriptorsOnce ==
  LET onPending(d) == {i \in 1 .. Len(eventq_pending) : eventq_pending[i] = d}
      onFree(d) == {i \in 1 .. Len(eventq_free) : eventq_free[i] = d}
  IN  /\ \A d \in 1 .. Len(desc) : (onPending(d) = {}) # (onFree(d) = {})
      /\ Len(eventq_pending) + Len(eventq_free) = Len(desc)

\* The list eventq_service_events takes from the front of is sorted: by time,
\* and the cpu_execute events of a time behind its ordinary events, although
\* each insertion scan compares against the times alone.
Sorted ==
  \A i \in 2 .. Len(eventq_pending) :
    /\ when(i - 1) <= when(i)
    /\ when(i - 1) = when(i) /\ action(i - 1).fn = "cpu_execute"
         => action(i).fn = "cpu_execute"
=============================================================================
