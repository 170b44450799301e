----------------------------- MODULE MCScheduler -----------------------------
(***************************************************************************)
(* Small instruction mixes for the scheduler, and its properties.          *)
(***************************************************************************)
EXTENDS Scheduler

Inst(class, in, out) == [class |-> class, in |-> in, out |-> out, mis_predict |-> FALSE]
BadBranch(in) == [class |-> "IntBR", in |-> in, out |-> NA, mis_predict |-> TRUE]

\* Chains through one register, with wrong paths behind branches and loads that
\* may have to be executed again.
Mix == {Inst("IntDIV", NA, "r"), Inst("RdPort", "r", "r"), BadBranch("r")}

Latency(class) ==
  CASE class = "IntDIV" -> {2, 3} [] class = "RdPort" -> {1, 2} [] OTHER -> {1}

TwoUnits == [u \in {"alu1", "alu2"} |-> IF u = "alu1" THEN {"IntALU", "IntBR"}
                                         ELSE {"IntALU", "IntDIV", "RdPort"}]

InFlight == roq \o decode_data
Live == Range(InFlight)

InstType == [op : Instructions, seq : Nat, level : Levels, idep_ready : BOOLEAN,
             status : Status, ex : BOOLEAN, fu : Units \cup {NoDesc}]

TypeOK ==
  /\ stage \in {"commit", "check_brq", "writeback", "issue", "map", "decode"}
  /\ inst \in [Descs -> InstType \cup {NoInst}]
  /\ Used = Live /\ Cardinality(Live) = Len(InFlight)
  /\ spec_level \in Levels
  /\ create_vector \in [Levels -> [Regs -> Descs \cup {NoDesc}]]
  /\ odep_list \in [Descs -> SUBSET [rs : Descs, valid : BOOLEAN]]
  /\ busy \in [Units -> BOOLEAN]

\* An operand is ready exactly when the last older instruction in flight that
\* writes its register has written back: neither a squashed writer, nor one of
\* a wrong path, nor the next instruction in the writer's descriptor counts.
Writers(i) == {j \in 1 .. i - 1 : inst[InFlight[j]].op.out = inst[InFlight[i]].op.in}
Written(d) == inst[d].status \in {"brcompleted", "completed"}

OperandsExact ==
  \A i \in 1 .. Len(InFlight) :
    inst[InFlight[i]].op.in # NA =>
      (inst[InFlight[i]].idep_ready <=>
         \A j \in Writers(i) : Written(InFlight[j]) \/ \E k \in Writers(i) : k > j)

\* The valid links in the ready queue of a unit are, each once and in program
\* order, the mapped instructions that wait for that unit and have their
\* operand: none is lost, none is issued twice, and issue_stage does not panic.
ReadyExact ==
  \A u \in Units :
    LET q == ready_queue[u]
        valid == {i \in DOMAIN q : q[i].valid}
    IN /\ {q[i].rs : i \in valid} =
            {d \in Range(roq) : inst[d].status = "queued" /\ inst[d].idep_ready /\ inst[d].fu = u}
       /\ \A i, j \in DOMAIN q : i < j => q[i].seq < q[j].seq
       /\ \A i \in valid : q[i].seq = inst[q[i].rs].seq

\* Every operation in flight has one valid event and no other instruction has
\* any, so writeback_stage does not panic and nothing stays issued for ever.
EventsExact ==
  LET events == {i \in DOMAIN event_queue : event_queue[i].valid} IN
    /\ {event_queue[i].rs : i \in events} = {d \in Live : inst[d].status = "issued"}
    /\ Cardinality(events) = Cardinality({d \in Live : inst[d].status = "issued"})

\* Only what has yet to write back has instructions waiting for it ("retired
\* instruction has odeps").
NoOrphans ==
  \A d \in Descs : odep_list[d] # {} => d \in Live /\ ~ Written(d)

\* A divider that is marked busy is in use.
DividersReturned ==
  \A u \in Units : busy[u] =>
    \E d \in Live : IsDiv(d) /\ inst[d].status = "issued" /\ inst[d].fu = u

\* Unless loads mis-speculate for ever the window keeps committing: no link that
\* a squash made invalid, event, divider or wake-up that was lost stops it.
Progress == []<><<mis_speculate>>_vars \/ []<><<commit /\ Retiring > 0>>_vars
==============================================================================
