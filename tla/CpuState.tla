------------------------------ MODULE CpuState ------------------------------
(***************************************************************************)
(* The part of struct godson2_cpu that takes part in the coherence of the  *)
(* caches: miss queue, write-back queue, memory queue, the L2 slice with   *)
(* its directory, the data cache, the load/store queue, the refill packets *)
(* between them, and the instruction cache with the miss of the fetch      *)
(* stage (src/godson2_cpu.h, src/cache.h).                                 *)
(*                                                                         *)
(* The functions of the program that update a cpu are operators from such  *)
(* a record, st, to the updated one.  All blocks of one owner fall into    *)
(* one set of the L2, and all blocks into one set of every L1.             *)
(***************************************************************************)
EXTENDS Integers, Sequences, FiniteSets, FiniteSetsExt

CONSTANTS
  total_cpus,
  Blocks, Owner,      \* memory blocks, and PADDR_OWNER of each
  Dwords,             \* double words of a block (4 in the code)
  missq_ifq_size, wtbkq_ifq_size, memq_ifq_size, lsq_ifq_size, router_ifq_size,
  dcache_assoc, icache_assoc, dl2_assoc,
  L2_delay,           \* L2_probe_delay and L2_write_delay (4 in the code)
  Programs            \* what the cpus may run: a set of accesses for each cpu

Cpus == 0 .. total_cpus - 1
Types == {"REQ", "INVN", "WTBK", "RESP"}
Entries == 0 .. missq_ifq_size - 1
Slots == 0 .. wtbkq_ifq_size - 1
L1Ways == 0 .. dcache_assoc - 1
IWays == 0 .. icache_assoc - 1
L2Ways == 0 .. dl2_assoc - 1
Words == 0 .. Dwords - 1
None == -1

ASSUME SizesAssumption ==
  /\ total_cpus \in Nat \ {0} /\ Dwords \in {1, 2, 4}
  /\ missq_ifq_size \in Nat \ {0} /\ wtbkq_ifq_size \in Nat \ {0}
  /\ memq_ifq_size \in Nat \ {0} /\ lsq_ifq_size \in Nat \ {0}
  /\ router_ifq_size \in Nat \ {0} /\ L2_delay \in Nat \ {0}
  /\ dcache_assoc \in Nat \ {0} /\ icache_assoc \in Nat \ {0}
  /\ dl2_assoc \in Nat \ {0}

\* A load or store of a double word, or the fetch of an instruction.  Loads
\* and stores issue in the order of their steps, those of one step in any
\* order; so do fetches.
Accesses == [op : {"load", "store", "fetch"}, blk : Blocks, word : Words, step : Nat]
Fetches(program) == {a \in program : a.op = "fetch"}

\* The two L1 caches of a cpu.  data_directory and inst_directory are one
\* set of such pairs, and so are the interventions sent and the acks.
DataL1(n) == <<n, "dcache">>
InstL1(n) == <<n, "icache">>
Caches == Cpus \X {"dcache", "icache"}

NoBlock == "none"

ASSUME ProgramAssumption ==
  /\ Owner \in [Blocks -> Cpus] /\ NoBlock \notin Blocks
  /\ \A program \in Programs, n \in Cpus : program[n] \subseteq Accesses

Interventions == {"INTERVENTION_SHD", "INTERVENTION_EXC", "INVALIDATE"}
Writes == {"READ_EX", "UPGRADE"}
Owning == {"EXCLUSIVE", "MODIFIED"}

\* status | DIRTY
Dirtied(status) ==
  CASE status \in Owning -> "MODIFIED"
    [] status \in {"INVALID", "DIRTY_INVALID"} -> "DIRTY_INVALID"
    [] status \in {"SHARED", "DIRTY_SHARED"} -> "DIRTY_SHARED"

-----------------------------------------------------------------------------
\* struct miss_queue, as the memset of missq_change_state leaves it.
FreeEntry ==
  [state |-> "EMPTY", req |-> "NO_REQ", ack |-> "NO_REQ", cpuid |-> None,
   cache |-> "dcache", qid |-> None, blk |-> NoBlock, word |-> 0, cache_status |-> "UNTOUCHED",
   directory |-> {}, sent |-> {}, acked |-> {}, intervention_type |-> "NO_REQ",
   L2_way |-> None, L2_replace |-> NoBlock, cachecnt |-> 0, data |-> FALSE,
   reissue |-> FALSE, wait |-> 0, local |-> FALSE, invn_match |-> {},
   modify_l1 |-> FALSE, wtbkq_checked |-> FALSE, conflict_checked |-> FALSE,
   memread_sent |-> FALSE, memwrite_sent |-> FALSE, scache_refilled |-> FALSE]

\* The cache an entry, slot or packet is about (the flag inst).
L1Of(e) == <<e.cpuid, e.cache>>

FreeSlot == [valid |-> FALSE, cpuid |-> None, cache |-> "dcache", req |-> "NO_REQ",
             blk |-> NoBlock, cache_status |-> "UNTOUCHED", intervention |-> FALSE]

NoRefill == [kind |-> "none", blk |-> NoBlock, word |-> 0, cnt |-> 0,
             req |-> "NO_REQ", cache_status |-> "UNTOUCHED", ack |-> "NO_REQ",
             missqid |-> None, way |-> None]

\* A load or store on its way from memaddr to dcache (LSQ_DCACHE).
LsqEntry(a) == [state |-> "DCACHE", op |-> a.op, blk |-> a.blk, word |-> a.word,
                req |-> "NO_REQ", way |-> None, rdy |-> FALSE, fetching |-> FALSE,
                miss |-> FALSE]

\* The packets of one cycle, by type and destination.
NothingSent == [t \in Types |-> [d \in Cpus |-> <<>>]]

InitialCpu(n, program) ==
  [cpuid |-> n, todo |-> program[n] \ Fetches(program[n]), text |-> Fetches(program[n]),
   missq |-> [i \in Entries |-> FreeEntry], missq_num |-> 0,
   wtbkq |-> [j \in Slots |-> FreeSlot], wtbkq_num |-> 0, wtbkq_replacei |-> 0,
   memq |-> {},
   events |-> [k \in 1 .. L2_delay |-> <<>>],  \* due in k cycles, latest first
   dl2 |-> [w \in L2Ways |->
     [tag |-> NoBlock, status |-> "INVALID", directory |-> {}, dirty |-> FALSE]],
   dcache |-> [w \in L1Ways |-> [tag |-> NoBlock, status |-> "INVALID"]],
   icache |-> [w \in IWays |-> [tag |-> NoBlock, status |-> "INVALID"]],
   irepbuf |-> [state |-> "EMPTY", blk |-> NoBlock, way |-> 0],
   icache_refill_blk |-> None,
   refill_blk |-> None, refill_bitmap |-> {}, refill_new_status |-> "UNTOUCHED",
   replace_blk |-> NoBlock,
   refilltag |-> FALSE, refilli |-> 0, refill_delay |-> 0, replace_delay |-> 0,
   lsq |-> <<>>,
   lsq_refill |-> NoRefill, dcache_refill |-> NoRefill, dtagcmp_refill |-> NoRefill,
   \* what one cycle of the cpu leaves for others: packets handed to
   \* noc_request, room in the HOME buffers, assertions that failed; istall:
   \* the icache is busy with a refill in this cycle (REFILL_STALL)
   out |-> NothingSent, room |-> [t \in Types |-> router_ifq_size], failed |-> {},
   istall |-> FALSE]

-----------------------------------------------------------------------------
\* assert(b)
Asserted(name, b, st) == IF b THEN st ELSE [st EXCEPT !.failed = @ \cup {name}]

\* States above MQ_L1_MISS: the request has been issued to the directory.
Issued(e) == e.state \notin {"EMPTY", "L1_MISS"}

External(e) == e.req \in Interventions

missq_change_state(st, i, state) == [st EXCEPT !.missq[i].state = state]

\* The entry becomes MQ_EMPTY and missq_num is decremented.
missq_leave(st, i) ==
  [st EXCEPT !.missq[i] = FreeEntry, !.missq_num = @ - 1]

\* A request or intervention takes the first empty entry; the code goes on from
\* the last one taken, and no choice depends on the number of an entry.
missq_enter(st, e) ==
  LET i == Min({k \in Entries : st.missq[k].state = "EMPTY"})
  IN  [st EXCEPT !.missq[i] = e, !.missq_num = @ + 1]

\* Variant: the slot is free but still counted.
wtbkq_leave_Counted(st, j) == [st EXCEPT !.wtbkq[j] = FreeSlot]

\* The slot is invalid again and wtbkq_num is decremented.
wtbkq_leave(st, j) == [st EXCEPT !.wtbkq[j] = FreeSlot, !.wtbkq_num = @ - 1]

\* Variant: the slot is not counted in advance.
wtbkq_reserve_Late(st) == st

\* A slot is counted before the write-back that takes it enters.
wtbkq_reserve(st) == [st EXCEPT !.wtbkq_num = @ + 1]

\* The slots from wtbkq_replacei on, the first free one is taken.
wtbkq_enter(st, l1, req, blk, cache_status, invn) ==
  LET At(k) == (st.wtbkq_replacei + k) % wtbkq_ifq_size
      free == {k \in Slots : ~st.wtbkq[At(k)].valid}
      j == At(Min(free))
  IN  IF free = {} THEN Asserted("wtbkq_enter", FALSE, st)
      ELSE [st EXCEPT !.wtbkq[j] = [valid |-> TRUE, cpuid |-> l1[1], cache |-> l1[2],
                                    req |-> req, blk |-> blk, cache_status |-> cache_status,
                                    intervention |-> invn],
                      !.wtbkq_replacei = (j + 1) % wtbkq_ifq_size]

\* memq_enter, when it returns 1.
memq_enter(st, kind, i) ==
  [st EXCEPT !.memq = @ \cup {[kind |-> kind, qid |-> i]}]
MemqOpen(st) == Cardinality(st.memq) < memq_ifq_size

\* noc_request, when it returns 1.
noc_request(st, type, dst, req, cache_status, qid, blk, cache) ==
  [st EXCEPT !.room[type] = @ - 1,
             !.out[type][dst] = Append(@, [cpuid |-> st.cpuid, req |-> req,
                                           cache_status |-> cache_status, qid |-> qid,
                                           blk |-> blk, cache |-> cache])]
Room(st, type) == st.room[type] > 0

\* eventq_queue_callback at sim_cycle + L2_delay.
Schedule(st, event) == [st EXCEPT !.events[L2_delay] = <<event>> \o @]
=============================================================================
