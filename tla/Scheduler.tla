------------------------------ MODULE Scheduler ------------------------------
(***************************************************************************)
(* Dynamic scheduling in one cpu: how an instruction waits for its operand,*)
(* becomes ready, is issued to a functional unit and wakes those that wait *)
(* for it (src/decode.c, src/map.c, src/issue.c, src/writeback.c,          *)
(* src/resource.c), while branches that were predicted wrongly squash the  *)
(* younger instructions and loads that mis-speculated flush all of them.   *)
(*                                                                         *)
(* Descriptors are reused.  Whoever refers to one keeps an RS_link with    *)
(* the tag that the descriptor had; squashing increments the tag, and only *)
(* links of equal tag are valid.  Here a link carries that comparison.     *)
(*                                                                         *)
(* A step is one stage of a cycle.  The sizes of the queues and the delay  *)
(* slots are module Reorder's: a wrong prediction takes effect at once.    *)
(* A unit accepts one operation per cycle: every issue latency is one      *)
(* (that of a division is set to one when it issues), and release_fu has   *)
(* given the unit back before the next cycle's issue.                      *)
(***************************************************************************)
EXTENDS Integers, Sequences, FiniteSetsExt, Functions

CONSTANTS
  Descs,         \* instruction descriptors
  Regs,          \* architected registers
  Units,         \* functional units (fu_config)
  CanRun,        \* [Units -> SUBSET classes]: what a unit can execute
  Instructions,  \* [class, in, out, mis_predict]; loads may mis-speculate
  oplat(_),      \* latencies of a class
  MaxLevel,      \* levels of speculation (brq_ifq_size)
  commit_width,
  sim_has_bypass

NA == "NA"
NoDesc == "none"
Levels == 0 .. MaxLevel

\* Only branches are predicted wrongly.
SchedulerAssumption ==
  /\ IsFiniteSet(Descs) /\ IsFiniteSet(Units) /\ NoDesc \notin Descs /\ NA \notin Regs
  /\ {MaxLevel, commit_width} \subseteq Nat /\ sim_has_bypass \in BOOLEAN
  /\ \A op \in Instructions :
       /\ {op.in, op.out} \subseteq Regs \cup {NA} /\ op.mis_predict \in BOOLEAN
       /\ op.mis_predict => op.class = "IntBR"
       /\ oplat(op.class) \subseteq Nat
ASSUME SchedulerAssumption

Status == {"decoded", "queued", "issued", "brcompleted", "completed"}
NoInst == [status |-> "free"]

VARIABLES
  stage,
  inst,           \* the descriptors
  decode_data, roq,   \* descriptors, oldest first
  spec_level,
  create_vector,  \* last creator of each register, at each level
  odep_list,      \* links to those that wait for a descriptor's result
  ready_queue,    \* for each unit, links to ready instructions
  event_queue,    \* links, with the cycles until the operation completes
  busy            \* the unit's divider is in use

window == <<decode_data, roq>>
vars == <<stage, inst, window, spec_level, create_vector, odep_list,
          ready_queue, event_queue, busy>>

Init ==
  /\ stage = "commit"
  /\ inst = [d \in Descs |-> NoInst]
  /\ decode_data = <<>> /\ roq = <<>>
  /\ spec_level = 0
  /\ create_vector = [l \in Levels |-> [r \in Regs |-> NoDesc]]
  /\ odep_list = [d \in Descs |-> {}]
  /\ ready_queue = [u \in Units |-> <<>>]
  /\ event_queue = <<>>
  /\ busy = [u \in Units |-> FALSE]

------------------------------------------------------------------------------
IsDiv(d) == inst[d].op.class = "IntDIV"
IsCtrl(d) == inst[d].op.class = "IntBR"
DivUnits(S) == {inst[d].fu : d \in {d \in S : IsDiv(d)}}

\* From the k-th element on.
From(q, k) == SubSeq(q, k, Len(q))

\* How many of the first positions are in K, up to the first that is not.
Prefix(K) == Cardinality({i \in K : 1 .. i \subseteq K})

\* x is put behind the longest prefix whose positions are in K.
InsertAfter(q, K, x) == SubSeq(q, 1, Prefix(K)) \o <<x>> \o From(q, Prefix(K) + 1)

\* Variant: the tag is not incremented.
Outdated_Never(link, S) == link

\* tag++ for the descriptors in S.
Outdated(link, S) == IF link.rs \in S THEN [link EXCEPT !.valid = FALSE] ELSE link

Invalidate(S, freed) ==
  /\ odep_list' = [d \in Descs |-> IF d \in freed THEN {}
                                   ELSE {Outdated(link, S) : link \in odep_list[d]}]
  /\ ready_queue' = [u \in Units |-> [i \in DOMAIN ready_queue[u] |-> Outdated(ready_queue[u][i], S)]]
  /\ event_queue' = [i \in DOMAIN event_queue |-> Outdated(event_queue[i], S)]

\* Those of S are squashed: their own lists are freed, the links to them become
\* invalid.
Squash(S) == Invalidate(S, S)

\* Variant: a squashed division keeps the divider.
FreeDividers_Forgotten(S) == UNCHANGED busy

\* The dividers that those of S occupy, or would have, are freed.
FreeDividers(S) == busy' = [u \in Units |-> busy[u] /\ u \notin DivUnits(S)]

------------------------------------------------------------------------------
\* commit_stage

Completed(d) == inst[d].status = "completed"
Retiring == Prefix({i \in DOMAIN roq : i <= commit_width /\ Completed(roq[i]) /\ ~ inst[roq[i]].ex})

\* The loop ends at a load that mis-speculated.
Flushes == Retiring < commit_width /\ Retiring < Len(roq) /\ Completed(roq[Retiring + 1])

\* Variant: a descriptor does not come back to the pool.
Freed_Leaked(S) == inst

Freed(S) == [d \in Descs |-> IF d \in S THEN NoInst ELSE inst[d]]

commit ==
  /\ stage = "commit" /\ ~ Flushes
  /\ LET retired == Range(SubSeq(roq, 1, Retiring)) IN
       /\ inst' = Freed(retired)
       /\ Invalidate(retired, {})
  /\ roq' = From(roq, Retiring + 1)
  /\ stage' = "check_brq"
  /\ UNCHANGED <<decode_data, spec_level, create_vector, busy>>

\* Variant: a flush leaves the creators.
clear_create_vector_Missing == create_vector

clear_create_vector == [create_vector EXCEPT ![0] = [r \in Regs |-> NoDesc]]

\* Everything is squashed, beginning with what is not mapped (tracer_recover).
pipeline_flush ==
  /\ stage = "commit" /\ Flushes
  /\ LET flushed == Range(From(roq, Retiring + 1)) IN
       /\ Squash(flushed \cup Range(decode_data))
       /\ FreeDividers(flushed)
  /\ inst' = [d \in Descs |-> NoInst]
  /\ roq' = <<>> /\ decode_data' = <<>>
  /\ spec_level' = 0
  /\ create_vector' = clear_create_vector
  /\ stage' = "check_brq"

------------------------------------------------------------------------------
\* check_brq: the oldest branch that has written back completes.

Resolving == {i \in DOMAIN roq : /\ inst[roq[i]].status = "brcompleted"
                                 /\ \A j \in 1 .. i - 1 : inst[roq[j]].status # "brcompleted"}

Wrong(i) == inst[roq[i]].op.mis_predict

check_brq ==
  /\ stage = "check_brq" /\ \A i \in Resolving : ~ Wrong(i)
  /\ inst' = [d \in Descs |-> IF \E i \in Resolving : roq[i] = d
                              THEN [inst[d] EXCEPT !.status = "completed"] ELSE inst[d]]
  /\ stage' = "writeback"
  /\ UNCHANGED <<window, spec_level, create_vector, odep_list, ready_queue, event_queue, busy>>

brerr_recover ==
  /\ stage = "check_brq"
  /\ \E i \in Resolving :
       /\ Wrong(i)
       /\ LET gone == Range(From(roq, i + 1)) IN
            /\ Squash(gone \cup Range(decode_data))
            /\ FreeDividers(gone)
            /\ inst' = [Freed(gone \cup Range(decode_data)) EXCEPT ![roq[i]].status = "completed"]
       /\ roq' = SubSeq(roq, 1, i)
       /\ spec_level' = inst[roq[i]].level
  /\ decode_data' = <<>>
  /\ stage' = "writeback"
  /\ UNCHANGED create_vector

------------------------------------------------------------------------------
\* Variant: the queue is in the order of arrival.
Enqueued_AtEnd(q, d) ==
  Append(q, [rs |-> d, seq |-> inst[d].seq, valid |-> TRUE, next |-> FALSE])

\* readyq_enqueue: a unit's ready queue is kept in program order.
Enqueued(q, d) ==
  InsertAfter(q, {i \in DOMAIN q : q[i].seq < inst[d].seq},
              [rs |-> d, seq |-> inst[d].seq, valid |-> TRUE, next |-> FALSE])

readyq_enqueue(S, fu) ==
  ready_queue' = [u \in Units |->
    FoldSet(LAMBDA d, q : Enqueued(q, d), ready_queue[u], {d \in S : fu[d] = u})]

------------------------------------------------------------------------------
\* writeback_stage

\* Events are taken from the head of the queue as long as they are due; those of
\* instructions that were squashed are passed over.
Expired == Prefix({i \in DOMAIN event_queue : event_queue[i].wait <= 0})
Due == {event_queue[i].rs : i \in {i \in 1 .. Expired : event_queue[i].valid}}

\* Variant: only the creator's own level is cleared.
Clears_OwnLevel(d, l) == l = inst[d].level /\ create_vector[l][inst[d].op.out] = d

\* update_create_vector walks up from the creator's level to the current one,
\* as long as it is still the creator.
Clears(d, l) ==
  /\ l \in inst[d].level .. spec_level
  /\ \A k \in inst[d].level .. l : create_vector[k][inst[d].op.out] = d

update_create_vector(S) ==
  create_vector' = [l \in Levels |-> [r \in Regs |->
    IF \E d \in S : inst[d].op.out = r /\ Clears(d, l) THEN NoDesc ELSE create_vector[l][r]]]

\* Those that wait for a result of S.
Woken(S) == {link.rs : link \in {link \in UNION {odep_list[d] : d \in S} : link.valid}}

writeback ==
  /\ stage = "writeback"
  /\ LET woken == Woken(Due) IN
       /\ inst' = [d \in Descs |->
            IF d \in Due
            THEN [inst[d] EXCEPT !.status = IF IsCtrl(d) THEN "brcompleted" ELSE "completed"]
            ELSE IF d \in woken THEN [inst[d] EXCEPT !.idep_ready = TRUE] ELSE inst[d]]
       /\ readyq_enqueue({d \in woken : inst[d].status = "queued"}, [d \in woken |-> inst[d].fu])
  /\ event_queue' = From(event_queue, Expired + 1)
  /\ busy' = [u \in Units |-> busy[u] /\ u \notin DivUnits(Due)]
  /\ update_create_vector(Due)
  /\ odep_list' = [d \in Descs |-> IF d \in Due THEN {} ELSE odep_list[d]]
  /\ stage' = "issue"
  /\ UNCHANGED <<window, spec_level>>

------------------------------------------------------------------------------
\* issue_stage

\* Variant: squashed links stay at the head.
next_valid_node_Squashed(q) == q

\* next_valid_node frees the links at the head that are not valid.
next_valid_node(q) == From(q, 1 + Prefix({i \in DOMAIN q : ~ q[i].valid}))

\* Where the instruction to issue is in the ready queue of its unit.  Without
\* bypass it was chosen a cycle before (next_issue_item); with bypass it is the
\* first one.
Candidates(u) ==
  LET q == ready_queue[u]
  IN {i \in DOMAIN q : /\ q[i].valid
                       /\ IF sim_has_bypass THEN \A j \in 1 .. i - 1 : ~ q[j].valid
                                            ELSE q[i].next}

Issuing(u) == {i \in Candidates(u) : ~ (IsDiv(ready_queue[u][i].rs) /\ busy[u])}

\* A unit issues one instruction.
delete_node(q, i) == SubSeq(q, 1, i - 1) \o From(q, i + 1)

Rechosen(q) ==
  LET first == next_valid_node(q)
  IN [i \in DOMAIN first |-> [first[i] EXCEPT !.next = ~ sim_has_bypass /\ i = 1]]

\* A new event is put before those of the same cycle.
eventq_queue_event(q, d, wait) ==
  InsertAfter(q, {i \in DOMAIN q : q[i].wait < wait}, [rs |-> d, wait |-> wait, valid |-> TRUE])

issue ==
  /\ stage = "issue"
  /\ LET issued == UNION {{ready_queue[u][i].rs : i \in Issuing(u)} : u \in Units} IN
       /\ inst' = [d \in Descs |-> IF d \in issued
                                   THEN [inst[d] EXCEPT !.status = "issued"] ELSE inst[d]]
       /\ \E wait \in [issued -> UNION {oplat(inst[d].op.class) : d \in issued}] :
            /\ \A d \in issued : wait[d] \in oplat(inst[d].op.class)
            /\ event_queue' = FoldSet(LAMBDA d, q : eventq_queue_event(q, d, wait[d]),
                                      event_queue, issued)
       /\ busy' = [u \in Units |-> busy[u] \/ u \in DivUnits(issued)]
  /\ ready_queue' = [u \in Units |-> Rechosen(
       IF Issuing(u) = {} THEN ready_queue[u]
       ELSE delete_node(ready_queue[u], CHOOSE i \in Issuing(u) : TRUE))]
  /\ stage' = "map"
  /\ UNCHANGED <<window, spec_level, create_vector, odep_list>>

\* lsq_stage may find, before the cycle's issue, that a load was too early.
mis_speculate ==
  /\ stage = "issue"
  /\ \E d \in Range(roq) :
       /\ inst[d].op.class = "RdPort" /\ inst[d].status \in {"issued", "completed"}
       /\ ~ inst[d].ex
       /\ inst' = [inst EXCEPT ![d].ex = TRUE]
  /\ UNCHANGED <<stage, window, spec_level, create_vector, odep_list,
                 ready_queue, event_queue, busy>>

------------------------------------------------------------------------------
\* map_stage: an instruction gets a unit, whether that is busy or not
\* (res_alloc), and is put in the ready queue when its operand is there.

map ==
  /\ stage = "map" /\ decode_data # <<>>
  /\ LET d == decode_data[1] IN
       \E u \in {u \in Units : inst[d].op.class \in CanRun[u]} :
         /\ inst' = [inst EXCEPT ![d].status = "queued", ![d].fu = u]
         /\ readyq_enqueue({e \in {d} : inst[e].idep_ready}, [e \in {d} |-> u])
  /\ decode_data' = Tail(decode_data)
  /\ roq' = Append(roq, decode_data[1])
  /\ stage' = "decode"
  /\ UNCHANGED <<spec_level, create_vector, odep_list, event_queue, busy>>

map_none ==
  /\ stage = "map"
  /\ stage' = "decode"
  /\ UNCHANGED <<inst, window, spec_level, create_vector, odep_list,
                 ready_queue, event_queue, busy>>

------------------------------------------------------------------------------
\* decode_stage, the last one here: the next cycle begins.

NextCycle ==
  /\ stage' = "commit"
  /\ event_queue' = [i \in DOMAIN event_queue |-> [event_queue[i] EXCEPT !.wait = @ - 1]]

\* Sequence numbers matter by their order: the model counts those in use.
Used == {d \in Descs : inst[d] # NoInst}
Seqs == {inst[d].seq : d \in Used} \cup
        {link.seq : link \in UNION {Range(ready_queue[u]) : u \in Units}}
Rank(s) == Cardinality({t \in Seqs : t < s})

\* roq_link_idep: wait for the creator of the operand, if there is one.
Creator(op) == IF op.in = NA THEN NoDesc ELSE create_vector[spec_level][op.in]

\* roq_install_odep, and prepare_create_vector when a new level begins.
Installed(d, op) ==
  LET here == [create_vector EXCEPT ![spec_level] =
                 [r \in Regs |-> IF r = op.out THEN d ELSE @[r]]]
  IN IF op.mis_predict THEN [here EXCEPT ![spec_level + 1] = here[spec_level]] ELSE here

decode(d, op) ==
  /\ stage = "decode" /\ inst[d] = NoInst
  /\ op.mis_predict => spec_level < MaxLevel
  /\ inst' = [e \in Descs |->
       IF e = d THEN [op |-> op, seq |-> Cardinality(Seqs), level |-> spec_level,
                      idep_ready |-> Creator(op) = NoDesc, status |-> "decoded",
                      ex |-> FALSE, fu |-> NoDesc]
       ELSE IF e \in Used THEN [inst[e] EXCEPT !.seq = Rank(@)] ELSE NoInst]
  /\ odep_list' = [e \in Descs |-> IF e = Creator(op)
                                   THEN odep_list[e] \cup {[rs |-> d, valid |-> TRUE]}
                                   ELSE odep_list[e]]
  /\ create_vector' = Installed(d, op)
  /\ spec_level' = IF op.mis_predict THEN spec_level + 1 ELSE spec_level
  /\ decode_data' = Append(decode_data, d)
  /\ ready_queue' = [u \in Units |-> [i \in DOMAIN ready_queue[u] |->
                                       [ready_queue[u][i] EXCEPT !.seq = Rank(@)]]]
  /\ NextCycle
  /\ UNCHANGED <<roq, busy>>

decode_none ==
  /\ stage = "decode"
  /\ NextCycle
  /\ UNCHANGED <<inst, window, spec_level, create_vector, odep_list, ready_queue, busy>>

------------------------------------------------------------------------------
Decode == \E d \in Descs, op \in Instructions : decode(d, op)

Next == \/ commit \/ pipeline_flush \/ check_brq \/ brerr_recover
        \/ writeback \/ mis_speculate \/ issue
        \/ map \/ map_none \/ Decode \/ decode_none

Spec == Init /\ [][Next]_vars

\* The cpu runs every cycle; the window has room and the fetch queue an
\* instruction again and again.
FairSpec == Spec /\ WF_vars(Next) /\ SF_vars(map) /\ SF_vars(Decode)
==============================================================================
