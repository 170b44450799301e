------------------------------ MODULE MCReorder ------------------------------
(***************************************************************************)
(* Small programs for the instruction window, and its properties.          *)
(***************************************************************************)
EXTENDS Reorder

AsText(seq) == [pc \in 0 .. Len(seq) - 1 |-> seq[pc + 1]]

\* A loop whose branches go back to its first instruction.
Loop(seq) == [size |-> Len(seq), text |-> AsText(seq),
              target |-> [pc \in 0 .. Len(seq) - 1 |-> 0]]

\* A branch likely with a load in its delay slot; a system call before an indirect
\* jump, which may be predicted anywhere.
LikelyAndJump == {Loop(<<"store", "likely", "load">>),
                  Loop(<<"syscall", "jump_reg", "store">>)}

\* The instructions in flight, oldest first.
InFlight ==
  [i \in 1 .. roq_num |-> roq[(roq_head + i - 1) % roq_ifq_size]] \o decode_data

TypeOK ==
  /\ stage \in {"commit", "check_brq", "execute", "map", "decode", "fetch"}
  /\ n \in Nat
  /\ fetch_reg_PC \in PCs /\ stall \in BOOLEAN
  /\ fetch_data \in Seq(PCs) /\ Len(fetch_data) <= fetch_ifq_size
  /\ decode_data \in Seq(Insts) /\ Len(decode_data) <= decode_ifq_size
  /\ spec_level \in Nat
  /\ roq \in [RoqSlots -> Insts \cup {NoInst}]
  /\ {roq_head, roq_tail} \subseteq RoqSlots /\ roq_num \in 0 .. roq_ifq_size
  /\ brq \in [BrqSlots -> RoqSlots \cup {NoSlot}]
  /\ {brq_head, brq_tail} \subseteq BrqSlots /\ brq_num \in 0 .. brq_ifq_size
  /\ int_issue_num \in 0 .. int_issue_ifq_size
  /\ int_rename_reg_num \in 0 .. int_rename_reg_size
  /\ lsq_committed \in 0 .. lsq_ifq_size

\* Through commits, squashes of any length and flushes that restart the reorder
\* queue but not the branch queue, the two queues stay aligned: simulate.c does
\* not panic, every occupied slot is between head and tail, the branch queue
\* lists the branches of the reorder queue in program order with the indices
\* they remember, and the resource counters are what the queues hold.
QueuesAgree ==
  /\ (roq_head + roq_num) % roq_ifq_size = roq_tail
  /\ (brq_head + brq_num) % brq_ifq_size = brq_tail
  /\ Live = {s \in RoqSlots : roq[s] # NoInst}
  /\ brq_num = Cardinality(Ctrl(Live))
  /\ \A i \in 0 .. brq_ifq_size - 1 :
       IF i >= brq_num
       THEN brq[Nth(i)] = NoSlot
       ELSE /\ brq[Nth(i)] \in Ctrl(Live)
            /\ roq[brq[Nth(i)]].brqid = Nth(i)
            /\ \A j \in 0 .. i - 1 : Age(brq[Nth(j)]) < Age(brq[Nth(i)])
  /\ int_issue_num = Cardinality(Queued(Live))
  /\ int_rename_reg_num = Cardinality(Renamed(Live))

\* The level of an instruction, in the queues or next to be decoded, is the
\* number of older branches, predicted wrongly and not resolved yet, whose
\* delay slot it is not: a recovery never leaves an instruction of a path that
\* was given up, nor drops one that was not.
LevelAt(i) ==
  Cardinality({j \in 1 .. i - 1 :
    LET rs == InFlight[j] IN
      /\ rs.mis_predict /\ rs.status # "completed"
      /\ IsLikely(rs.pc) \/ j + 1 < i})

LevelsAgree ==
  /\ \A i \in 1 .. Len(InFlight) : InFlight[i].spec_level = LevelAt(i)
  /\ spec_level = LevelAt(Len(InFlight) + 1)

\* Instructions retire along the path of the program, each delay slot with its
\* branch, none twice unless the window was flushed for it, none of a wrong path.
Path == INSTANCE InOrder WITH
  last <- arch.last, pc <- arch.pc, npc <- arch.npc, bd <- arch.bd
RetiresInOrder == Path!Spec

\* The program keeps going round: no queue, delay slot, recovery or flush stops
\* it.
Progress == []<><<arch.pc = 0 /\ arch'.pc # 0>>_vars
==============================================================================
