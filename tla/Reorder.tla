------------------------------- MODULE Reorder -------------------------------
(***************************************************************************)
(* The instruction window of one cpu: fetch queue, decode queue, reorder   *)
(* queue (roq) and branch queue (brq), from fetch to commit (src/fetch.c,  *)
(* src/decode.c, src/map.c, src/writeback.c, src/commit.c).                *)
(*                                                                         *)
(* Instructions are executed functionally when they are decoded, so the    *)
(* outcome of a branch is known there; the window learns of it when the    *)
(* branch writes back.  From a mispredicted branch's delay slot until then *)
(* the decoder runs a wrong path, one level of speculation deeper.         *)
(*                                                                         *)
(* A cycle runs the stages from the last to the first; `stage' is the one  *)
(* that runs.  Each step is one iteration of a stage's loop, or its end.   *)
(* Which instructions issue and when they complete is left open: that is   *)
(* module Scheduler.                                                       *)
(***************************************************************************)
EXTENDS Isa, Sequences

CONSTANTS
  fetch_width, fetch_speed, fetch_ifq_size, decode_width, decode_ifq_size, decode_speed,
  map_width, commit_width,
  roq_ifq_size, brq_ifq_size, lsq_ifq_size, int_issue_ifq_size, int_rename_reg_size

\* Sizes of queues and widths of stages.  map_width is 4 by default: the branch
\* queue is tested before the loop for one slot more than a branch, and the delay
\* slots leave map_stage two branches in four instructions, no more.
WindowAssumption ==
  /\ {fetch_width, fetch_speed, fetch_ifq_size, decode_width, decode_ifq_size, decode_speed,
      commit_width, lsq_ifq_size, int_issue_ifq_size, int_rename_reg_size} \subseteq Nat
  /\ {roq_ifq_size, brq_ifq_size} \subseteq Nat \ {0}
  /\ map_width \in 1 .. 4
ASSUME WindowAssumption

NoPC == Outside + 1
NoSlot == -1

RoqSlots == 0 .. roq_ifq_size - 1
BrqSlots == 0 .. brq_ifq_size - 1

Status == {"decoded", "queued", "issued", "brcompleted", "completed", "trap"}

\* An instruction descriptor (struct inst_descript).
Insts == [pc : PCs, npc : PCs, spec_level : Nat, bd : BOOLEAN,
          taken : BOOLEAN, mis_predict : BOOLEAN,
          status : Status, ex : BOOLEAN, brqid : BrqSlots \cup {NoSlot}]

NoInst == [pc |-> NoPC]

VARIABLES
  stage,          \* the stage that runs
  n,              \* iterations of its loop so far
  fetch_reg_PC, stall,
  fetch_data,     \* the fetch queue: program counters
  front,          \* what decode keeps between instructions
  spec_level,
  decode_data,    \* the decode queue: instructions
  roq, roq_head, roq_tail, roq_num,
  brq, brq_head, brq_tail, brq_num,  \* brq holds roq slots
  int_issue_num, int_rename_reg_num,
  lsq_committed,  \* retired accesses still in the load/store queue
  arch            \* history: the instruction retired last, what must follow

loop == <<stage, n>>
fetchVars == <<fetch_reg_PC, stall, fetch_data>>
decodeVars == <<front, spec_level, decode_data>>
roqVars == <<roq, roq_head, roq_tail, roq_num>>
brqVars == <<brq, brq_head, brq_tail, brq_num>>
counts == <<int_issue_num, int_rename_reg_num, lsq_committed>>
vars == <<loop, fetchVars, decodeVars, roqVars, brqVars, counts, arch, program>>

\* Between instructions decode remembers whether the last one was a branch and
\* where it goes (lastIsBranch, jump), a fetch pc to correct after the delay
\* slot (redirect), and that the delay slot ends the current level (entering).
\* branches and sameCycle are local to one call of decode_stage.
Idle == [lastIsBranch |-> FALSE, jump |-> NoPC, redirect |-> NoPC,
         entering |-> FALSE, branches |-> 0, sameCycle |-> FALSE]

Init ==
  /\ program \in Programs
  /\ stage = "commit" /\ n = 0
  /\ fetch_reg_PC = 0 /\ stall = FALSE /\ fetch_data = <<>>
  /\ front = Idle /\ spec_level = 0 /\ decode_data = <<>>
  /\ roq = [s \in RoqSlots |-> NoInst] /\ roq_head = 0 /\ roq_tail = 0 /\ roq_num = 0
  /\ brq = [s \in BrqSlots |-> NoSlot] /\ brq_head = 0 /\ brq_tail = 0 /\ brq_num = 0
  /\ int_issue_num = 0 /\ int_rename_reg_num = 0 /\ lsq_committed = 0
  /\ arch = [last |-> Outside, pc |-> 0, npc |-> Plus(0, 1), bd |-> FALSE]

------------------------------------------------------------------------------
\* Slots of the reorder queue, by age.
Age(s) == (s - roq_head) % roq_ifq_size
Live == {s \in RoqSlots : Age(s) < roq_num}
Younger(s) == {t \in Live : Age(t) > Age(s)}

Ctrl(S) == {s \in S : IsCtrl(roq[s].pc)}
Queued(S) == {s \in S : roq[s].status = "queued"}
RenameRegs(rs) == IF Kind(rs.pc) \in {"alu", "load"} THEN 1 ELSE 0
Accesses(S) == {s \in S : Kind(roq[s].pc) \in {"load", "store"}}
Renamed(S) == {s \in S : RenameRegs(roq[s]) = 1}

Goto(next) == stage' = next /\ n' = 0

\* The next iteration of a stage's loop, or the next stage.
Iterate(more, next) == IF more THEN n' = n + 1 /\ UNCHANGED stage ELSE Goto(next)

\* Variant: the level is not restored.
tracer_recover_KeepsLevel(level, pc) ==
  /\ spec_level' = spec_level
  /\ fetch_data' = <<>> /\ decode_data' = <<>>
  /\ fetch_reg_PC' = pc
  /\ front' = Idle

\* tracer_recover: back to a level, everything not mapped yet is dropped.
tracer_recover(level, pc) ==
  /\ spec_level' = level
  /\ fetch_data' = <<>> /\ decode_data' = <<>>
  /\ fetch_reg_PC' = pc
  /\ front' = Idle

\* Variant: the tail of the branch queue stays where it is.
Squash_KeepsTail(S) ==
  /\ brq' = [b \in BrqSlots |-> IF \E s \in Ctrl(S) : roq[s].brqid = b
                                THEN NoSlot ELSE brq[b]]
  /\ brq_num' = brq_num - Cardinality(Ctrl(S))
  /\ UNCHANGED <<brq_head, brq_tail, lsq_committed>>
  /\ int_rename_reg_num' = int_rename_reg_num - Cardinality(Renamed(S))
  /\ int_issue_num' = int_issue_num - Cardinality(Queued(S))

\* Variant: what is squashed stays counted in the issue queue.
Squash_LeaksIssueEntries(S) ==
  /\ brq' = [b \in BrqSlots |-> IF \E s \in Ctrl(S) : roq[s].brqid = b
                                THEN NoSlot ELSE brq[b]]
  /\ brq_tail' = (brq_tail - Cardinality(Ctrl(S))) % brq_ifq_size
  /\ brq_num' = brq_num - Cardinality(Ctrl(S))
  /\ UNCHANGED <<brq_head, int_issue_num, lsq_committed>>
  /\ int_rename_reg_num' = int_rename_reg_num - Cardinality(Renamed(S))

\* Squash the instructions in slots S, the youngest ones: the reorder queue
\* then ends at `tail', and the branch queue is cut by as many branches.
Squash(S) ==
  /\ brq' = [b \in BrqSlots |-> IF \E s \in Ctrl(S) : roq[s].brqid = b
                                THEN NoSlot ELSE brq[b]]
  /\ brq_tail' = (brq_tail - Cardinality(Ctrl(S))) % brq_ifq_size
  /\ brq_num' = brq_num - Cardinality(Ctrl(S))
  /\ UNCHANGED <<brq_head, lsq_committed>>
  /\ int_rename_reg_num' = int_rename_reg_num - Cardinality(Renamed(S))
  /\ int_issue_num' = int_issue_num - Cardinality(Queued(S))

------------------------------------------------------------------------------
\* commit_stage

Oldest == roq[roq_head]
CanCommit == n < commit_width /\ roq_num > 0 /\ Oldest.status = "completed"

\* What follows a retired instruction.
Follows(rs) ==
  IF ~ IsCtrl(rs.pc)
  THEN [last |-> rs.pc, pc |-> rs.npc, npc |-> Plus(rs.npc, 1), bd |-> FALSE]
  ELSE IF IsLikely(rs.pc) /\ ~ rs.taken
  THEN [last |-> rs.pc, pc |-> Plus(rs.pc, 2), npc |-> Plus(rs.pc, 3), bd |-> FALSE]
  ELSE [last |-> rs.pc, pc |-> Plus(rs.pc, 1), npc |-> AfterBranch(rs.pc, rs.taken), bd |-> TRUE]

commit ==
  /\ stage = "commit" /\ CanCommit /\ ~ Oldest.ex
  /\ IF IsCtrl(Oldest.pc)
     THEN /\ brq' = [brq EXCEPT ![brq_head] = NoSlot]
          /\ brq_head' = (brq_head + 1) % brq_ifq_size
          /\ brq_num' = brq_num - 1
          /\ brq_tail' = brq_tail
     ELSE UNCHANGED brqVars
  /\ int_rename_reg_num' = int_rename_reg_num - RenameRegs(Oldest)
  /\ lsq_committed' = lsq_committed + IF Kind(Oldest.pc) \in {"load", "store"} THEN 1 ELSE 0
  /\ roq' = [roq EXCEPT ![roq_head] = NoInst]
  /\ roq_head' = (roq_head + 1) % roq_ifq_size
  /\ roq_num' = roq_num - 1
  /\ Iterate(n + 1 < commit_width, "check_brq")
  /\ arch' = Follows(Oldest)
  /\ UNCHANGED <<fetchVars, decodeVars, roq_tail, int_issue_num, program>>

\* Variant: a load in a delay slot is fetched again without its branch.
recover_PC_InDelaySlot(rs) == rs.pc

\* A load in a delay slot is fetched again with its branch.
recover_PC(rs) == IF rs.bd THEN Plus(rs.pc, -1) ELSE rs.pc

\* A load that mis-speculated flushes everything and the loop ends.
pipeline_flush ==
  /\ stage = "commit" /\ CanCommit /\ Oldest.ex
  /\ tracer_recover(0, recover_PC(Oldest))
  /\ arch' = [last |-> Outside, pc |-> recover_PC(Oldest),
              npc |-> Plus(recover_PC(Oldest), 1), bd |-> FALSE]
  /\ Squash(Live)
  /\ roq' = [s \in RoqSlots |-> NoInst]
  /\ roq_head' = 0 /\ roq_tail' = 0 /\ roq_num' = 0
  /\ stall' = TRUE
  /\ Goto("check_brq")
  /\ UNCHANGED program

commit_end ==
  /\ stage = "commit" /\ ~ CanCommit
  /\ Goto("check_brq")
  /\ UNCHANGED <<fetchVars, decodeVars, roqVars, brqVars, counts, arch, program>>

------------------------------------------------------------------------------
\* check_brq: the oldest branch that has written back leaves the branch bus,
\* when its delay slot is in the queue or its prediction was right.

Nth(i) == (brq_head + i) % brq_ifq_size

\* The scan of check_brq stops at an empty slot or a completed branch.
Stops(i) == brq[Nth(i)] = NoSlot \/ roq[brq[Nth(i)]].status = "brcompleted"
Scanned == {i \in 0 .. brq_num : Stops(i) /\ \A j \in 0 .. i - 1 : ~ Stops(j)}
Resolving == {brq[Nth(i)] : i \in Scanned} \ {NoSlot}

HasDelaySlot(s) ==
  LET t == (s + 1) % roq_ifq_size IN roq[t] # NoInst /\ t # roq_head

Resolvable(s) == roq[s].mis_predict => HasDelaySlot(s)

Resolve(s) == [roq EXCEPT ![s].status = "completed"]

check_brq_right ==
  \E s \in Resolving :
    /\ stage = "check_brq" /\ ~ roq[s].mis_predict
    /\ roq' = Resolve(s)
    /\ Goto("execute")
    /\ UNCHANGED <<fetchVars, decodeVars, roq_head, roq_tail, roq_num, brqVars, counts, arch, program>>

\* Variant: the delay slot is kept behind a branch likely too.
LastKept_KeepsLikelySlot(s) == (s + 1) % roq_ifq_size

\* brerr_recover keeps the delay slot of the branch, unless it is a branch
\* likely: then the branch is not taken and its delay slot is wrong.
LastKept(s) == IF IsLikely(roq[s].pc) THEN s ELSE (s + 1) % roq_ifq_size

brerr_recover ==
  \E s \in Resolving :
    /\ stage = "check_brq" /\ roq[s].mis_predict /\ HasDelaySlot(s)
    /\ LET gone == Younger(LastKept(s)) IN
         /\ Squash(gone)
         /\ roq' = [t \in RoqSlots |-> IF t \in gone THEN NoInst ELSE Resolve(s)[t]]
         /\ roq_tail' = (LastKept(s) + 1) % roq_ifq_size
         /\ roq_num' = roq_num - Cardinality(gone)
    /\ tracer_recover(roq[s].spec_level, AfterBranch(roq[s].pc, roq[s].taken))
    /\ stall' = TRUE
    /\ Goto("execute")
    /\ UNCHANGED <<roq_head, arch, program>>

check_brq_none ==
  /\ stage = "check_brq" /\ \A s \in Resolving : ~ Resolvable(s)
  /\ Goto("execute")
  /\ UNCHANGED <<fetchVars, decodeVars, roqVars, brqVars, counts, arch, program>>

------------------------------------------------------------------------------
\* writeback_stage, lsq_stage and issue_stage: instructions whose events are
\* due complete and ready instructions that find a unit issue.  A store that
\* reaches its tag comparison finds younger loads that have read too early.  A
\* load that is not written back when a younger load gets there is flagged
\* when its block is taken away before it retires; nobody looks at the flag
\* until then, so it may rise at once.

Issued == {s \in Live : roq[s].status = "issued"}
AreLoads(S) == {s \in S : Kind(roq[s].pc) = "load"}

TooEarly(done) ==
  LET running == Issued \ done
      read == {s \in AreLoads(Live) : roq[s].status \in {"issued", "completed"}}
      unread == AreLoads(running \cup Queued(Live))
  IN {s \in read : \E t \in running : Kind(roq[t].pc) = "store" /\ s \in Younger(t)}
     \cup {s \in unread : Younger(s) \cap AreLoads(running) # {}}

WrittenBack(rs) == IF IsCtrl(rs.pc) THEN "brcompleted" ELSE "completed"

execute(done, early, ready, left) ==
  /\ stage = "execute"
  /\ roq' = [s \in RoqSlots |->
       IF s \in done THEN [roq[s] EXCEPT !.status = WrittenBack(roq[s]), !.ex = @ \/ s \in early]
       ELSE IF s \in ready THEN [roq[s] EXCEPT !.status = "issued"]
       ELSE IF s \in early THEN [roq[s] EXCEPT !.ex = TRUE]
       ELSE roq[s]]
  /\ int_issue_num' = int_issue_num - Cardinality(ready)
  /\ lsq_committed' = lsq_committed - left
  /\ Goto("map")
  /\ UNCHANGED <<fetchVars, decodeVars, roq_head, roq_tail, roq_num, brqVars,
                 int_rename_reg_num, arch, program>>

------------------------------------------------------------------------------
\* map_stage

LsqOpen == Cardinality(Accesses(Live)) + lsq_committed + map_width <= lsq_ifq_size

\* Variant: one more instruction than fits.
MapOpen_OneTooMany ==
  /\ roq_num + map_width <= roq_ifq_size + 1
  /\ brq_num < brq_ifq_size - 1
  /\ int_issue_num + map_width <= int_issue_ifq_size
  /\ int_rename_reg_num + map_width <= int_rename_reg_size
  /\ LsqOpen

\* The resources are compared with map_width once, before the loop.
MapOpen == /\ roq_num + map_width <= roq_ifq_size
           /\ brq_num < brq_ifq_size - 1
           /\ int_issue_num + map_width <= int_issue_ifq_size
           /\ int_rename_reg_num + map_width <= int_rename_reg_size
           /\ LsqOpen

CanMap == decode_data # <<>> /\ n < map_width /\ (n = 0 => MapOpen)

Enter(rs, slot) ==
  [rs EXCEPT !.status = IF Kind(rs.pc) = "bogus" THEN "trap" ELSE "queued",
             !.brqid = IF IsCtrl(rs.pc) THEN slot ELSE NoSlot]

map_one ==
  /\ stage = "map" /\ CanMap
  /\ LET rs == decode_data[1] IN
       /\ roq' = [roq EXCEPT ![roq_tail] = Enter(rs, brq_tail)]
       /\ IF IsCtrl(rs.pc)
          THEN /\ brq' = [brq EXCEPT ![brq_tail] = roq_tail]
               /\ brq_tail' = (brq_tail + 1) % brq_ifq_size
               /\ brq_num' = brq_num + 1
               /\ brq_head' = brq_head
          ELSE UNCHANGED brqVars
       /\ int_rename_reg_num' = int_rename_reg_num + RenameRegs(rs)
       /\ int_issue_num' = IF Kind(rs.pc) = "bogus" THEN int_issue_num ELSE int_issue_num + 1
  /\ roq_tail' = (roq_tail + 1) % roq_ifq_size
  /\ roq_num' = roq_num + 1
  /\ decode_data' = Tail(decode_data)
  /\ Iterate(Len(decode_data) > 1 /\ n + 1 < map_width, "decode")
  /\ UNCHANGED <<fetchVars, front, spec_level, roq_head, lsq_committed, arch, program>>

map_end ==
  /\ stage = "map" /\ ~ CanMap
  /\ Goto("decode")
  /\ UNCHANGED <<fetchVars, decodeVars, roqVars, brqVars, counts, arch, program>>

------------------------------------------------------------------------------
\* decode_stage

\* What the predictor may say of a branch: direct branches go to their target
\* or fall through, likely ones are always predicted taken, and an indirect
\* jump goes wherever the return stack or the target buffer says.
Predictions(pc) ==
  CASE Kind(pc) = "branch" -> {Target[pc], Plus(pc, 1)}
    [] Kind(pc) = "likely" -> {Target[pc]}
    [] Kind(pc) = "jump_reg" -> PCs
    [] OTHER -> {Plus(pc, 1)}

PredTaken(pc, pred) == Kind(pc) \in {"likely", "jump_reg"} \/ (IsCtrl(pc) /\ pred # Plus(pc, 1))

\* A trap waits until the reorder queue is empty.
Drains(pc) == Kind(pc) = "syscall" /\ roq_num # 0

CanDecode ==
  /\ n = 0 => Len(decode_data) + decode_width <= decode_ifq_size
  /\ fetch_data # <<>>
  /\ Len(decode_data) < decode_ifq_size
  /\ front.branches < decode_speed
  /\ ~ Drains(fetch_data[1])

\* A wrongly predicted branch ends its level: a branch likely at once, the
\* others after their delay slot.
DeeperNow(rs) == front.entering \/ (rs.mis_predict /\ IsLikely(rs.pc))

Decoded(pc, taken, pred) ==
  [pc |-> pc,
   npc |-> IF front.jump # NoPC THEN front.jump ELSE Plus(pc, 1),
   spec_level |-> spec_level,
   bd |-> front.lastIsBranch,
   taken |-> taken,
   mis_predict |-> IsCtrl(pc) /\ pred # (IF taken THEN Target[pc] ELSE Plus(pc, 1)),
   status |-> "decoded", ex |-> FALSE, brqid |-> NoSlot]

decode_one ==
  /\ stage = "decode" /\ CanDecode
  /\ LET pc == fetch_data[1]
         corrects == front.redirect # NoPC
     IN \E taken \in Outcomes(pc), pred \in Predictions(pc) :
          LET rs == Decoded(pc, taken, pred)
              redirects == ~ corrects /\ IsCtrl(pc) /\ PredTaken(pc, pred)
          IN /\ decode_data' = Append(decode_data, rs)
             /\ spec_level' = IF DeeperNow(rs) THEN spec_level + 1 ELSE spec_level
             /\ front' = [lastIsBranch |-> IsCtrl(pc),
                          jump |-> IF taken THEN Target[pc] ELSE NoPC,
                          redirect |-> IF redirects THEN pred ELSE NoPC,
                          entering |-> ~ DeeperNow(rs) /\ rs.mis_predict,
                          branches |-> front.branches + IF front.lastIsBranch THEN 1 ELSE 0,
                          sameCycle |-> front.sameCycle \/ redirects]
  /\ IF front.redirect # NoPC
     THEN /\ fetch_data' = <<>>
          /\ fetch_reg_PC' = front.redirect
          /\ stall' = (stall \/ front.sameCycle)
     ELSE /\ fetch_data' = Tail(fetch_data)
          /\ UNCHANGED <<fetch_reg_PC, stall>>
  /\ n' = n + 1
  /\ UNCHANGED <<stage, roqVars, brqVars, counts, arch, program>>

decode_end ==
  /\ stage = "decode" /\ ~ CanDecode
  /\ front' = [front EXCEPT !.branches = 0, !.sameCycle = FALSE]
  /\ Goto("fetch")
  /\ UNCHANGED <<fetchVars, spec_level, decode_data, roqVars, brqVars, counts, arch, program>>

------------------------------------------------------------------------------
\* fetch_stage; a stall lasts one cycle.  A cache or TLB miss and the end of a
\* cache line end its loop after k instructions.

\* The loop is entered when fetch_width instructions fit, and tests at each one
\* that the queue is not full.
CanFetch(k) ==
  /\ k <= fetch_width * fetch_speed /\ Len(fetch_data) + k <= fetch_ifq_size
  /\ k > 0 => ~ stall /\ Len(fetch_data) + fetch_width <= fetch_ifq_size

fetch_stage(k) ==
  /\ stage = "fetch" /\ CanFetch(k)
  /\ fetch_data' = fetch_data \o [i \in 1 .. k |-> Plus(fetch_reg_PC, i - 1)]
  /\ fetch_reg_PC' = Plus(fetch_reg_PC, k)
  /\ stall' = FALSE
  /\ Goto("commit")
  /\ UNCHANGED <<decodeVars, roqVars, brqVars, counts, arch, program>>

------------------------------------------------------------------------------
\* What execute does when condition Cond(done, ready, left) holds.
Execution(Cond(_, _, _)) ==
  \E done \in SUBSET Issued, ready \in SUBSET Queued(Live), left \in 0 .. lsq_committed :
    /\ Cond(done, ready, left)
    /\ \E early \in SUBSET TooEarly(done) : execute(done, early, ready, left)

Execute == Execution(LAMBDA done, ready, left : TRUE)

Next ==
  \/ commit \/ pipeline_flush \/ commit_end
  \/ check_brq_right \/ brerr_recover \/ check_brq_none
  \/ Execute
  \/ map_one \/ map_end \/ decode_one \/ decode_end
  \/ \E k \in 0 .. fetch_ifq_size : fetch_stage(k)

Spec == Init /\ [][Next]_vars

OldestIssues == Execution(LAMBDA done, ready, left : roq_head \in ready)
OldestCompletes == Execution(LAMBDA done, ready, left : roq_head \in done)
OneLeaves == Execution(LAMBDA done, ready, left : left > 0)

\* The cpu runs every cycle.  The oldest instruction waits for no operand and
\* its unit has a finite latency; an access that has retired leaves the
\* load/store queue, and instruction cache misses do not last for ever.
Fairness ==
  /\ WF_vars(Next)
  /\ SF_vars(OldestIssues)
  /\ SF_vars(OldestCompletes)
  /\ SF_vars(OneLeaves)
  /\ SF_vars(map_one)
  /\ SF_vars(\E k \in 1 .. fetch_ifq_size : fetch_stage(k))

FairSpec == Spec /\ Fairness
=============================================================================
