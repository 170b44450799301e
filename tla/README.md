# A verification development for the Godson multi-core simulator

The simulator (`src/`) runs MIPS programs on a simulated chip multiprocessor:
out-of-order Godson-2 cores, private L1 caches, a shared L2 distributed over the
cpus, a directory MESI protocol and an on-chip mesh network.  Everything runs in
one host process, driven by one event queue; the concurrency that matters is the
one of the *simulated* machine: cpus, routers and delayed events interleaved cycle
by cycle.  The default build is meant throughout (`-DDEBUG -DMESI`, router
`noc_rr`, no DVFS, no split router): `period` and `wire_delay` are 1.

## Inventory

| component | source | state | operations | interacts by |
|---|---|---|---|---|
| event queue, cycle loop | `eventq.c`, `simulate.c` | sorted list, free list, `sim_cycle` | `eventq_queue_*`, `eventq_service_events`, `cpu_execute` | callbacks |
| on-chip network | `noc.c`, `noc_rr.c` | input ring buffers, credits, grants | `noc_request`, `flit_arrive`, `update_credit`, `flit_traverse`, `arbitrate`, `home_enter` | events; writes into miss queues |
| coherence, L2 | `cache2mem.c`, `cache.c` | miss queue, write-back queue, memory queue, directory, L1/L2 blocks | `cache2mem`, `scache_probe/refill/writeback`, `check_memq`, `replace_block` | `noc_request`, events |
| load/store queue | `lsq.c` | lsq entries, refill packets | `lsq_enqueue`, `lsq_issue`, `lsq_stage`, `lsq_cancel_one` | miss queue, L1 |
| pipeline | `fetch.c`, `decode.c`, `map.c`, `issue.c`, `writeback.c`, `commit.c`, `resource.c` | fetch queue, reorder queue, branch queue, rename maps, functional units, instruction pool | one stage function each | shared queues |
| predictor, TLB, timing caches | `bpred.c`, `tlb.c`, `cache_timing.c` | tables | lookups | calls |
| functional simulation, loader, system calls, statistics, power, vendored code | the rest | | | |

What is hard here: a decision taken in one cycle and used in the next (grants,
credits, reserved queue entries) while the owner of the queue goes on using it;
credits that return late; queues at their limit and who may take the last entry;
callbacks executed between two cpus of one cycle; transient states of a miss that
meets an intervention, a write-back or a refill of the same block; recovery from a
mispredicted branch while stages hold pointers.  `PROJECT.json` lists each such
hazard at its line with the properties that cover it.

## Modules

| module | what it is |
|---|---|
| `Noc` | network: `noc.c`, `noc_rr.c` |
| `Channels` | abstract: a FIFO channel per type, source, destination |
| `MCNoc` | refinement mapping, fairness, instances for TLC |
| `NocProof` | theorems about `Noc` for every mesh, buffer size and traffic, `Channels` among them |
| `EventQueue` | list of `eventq.c` driven as `sim_main`/`cpu_execute` drive it |
| `CycleLoop` | abstract: cpus in turn, every event in its cycle |
| `MCEventQueue` | refinement mapping, instance for TLC |
| `EventQueueProof` | theorems about `EventQueue` for any number of cpus, handlers and events, `CycleLoop` among them |
| `CpuState` | the part of `struct godson2_cpu` that coherence needs, with the helpers of its queues |
| `Directory` | L2 slice as home: `scache_probe/refill/writeback`, `check_memq`, `home_enter` |
| `Dcache` | L1 data cache and the coherence side of the load/store queue: `cache_probe`, `replace_block`, interventions, `lsq_stage` |
| `Icache` | L1 instruction cache and the miss of the fetch stage: `fetch_stage`, `tracer_recover`, `replace_block` for it |
| `MissQueue` | `cache2mem`: miss queue, write-back queue, refill bus |
| `Coherence` | composes the five above over channels; the protocol's properties |
| `MCCoherence` | programs and instances for TLC |
| `MissQueueProof` | one cpu's `cache2mem`, L2 and arrivals keep an invariant, whatever the others do |
| `CoherenceProof` | theorems about `Coherence` for any cpus, blocks, queue sizes and programs |
| `Isa` | programs: kinds of instructions, branches with delay slots |
| `InOrder` | abstract: instructions retire along the path of the program |
| `Reorder` | instruction window: fetch, decode, reorder and branch queues, recovery and flush |
| `MCReorder` | programs, properties and the refinement of `InOrder` |
| `Scheduler` | dynamic scheduling: dependences, ready queues, units, completion events |
| `MCScheduler` | instruction mixes and properties |
| `Lsq` | order of the accesses of one cpu in the load/store queue |
| `MCLsq` | accesses and properties |
| `Rings` | lemmas about positions, ages and windows on a ring of any size |
| `LsqProof` | theorems about `Lsq` for every queue, width and set of accesses |
| `ReorderProof` | the queues of `Reorder` stay aligned, its levels of speculation are right, and it implements `InOrder`, for every program and queue size |
| `SchedulerProof` | the structures of `Scheduler` agree with the instructions in flight, for any instructions, units and descriptors |

`Noc`, `EventQueue` and `Reorder` are each shown to implement a short abstract module
(`Channels`, `CycleLoop`, `InOrder`), and `Coherence` is built on what the first two
promise: FIFO channels of any delay, cpus that execute in turn, events in their cycle.
`Reorder`, `Scheduler` and `Lsq` look at the same pipeline from three sides, each with
the other two reduced to what they may do to it.

### Noc

`ingress`, `credit`, `grant`, `last_grant` are the arrays of `struct router_t`; a
ring buffer is a sequence (the slots and the head are abstracted, so is
`ingress_num`).  `wire` and `credit_ev` are the `flit_arrive` and `update_credit`
events in the event queue: both take one cycle, except credits of the HOME egress,
which arrive in the cycle that frees the entry.  A step of the model is a call:
`noc_stage` of one cpu (traverse, then arbitrate), each `noc_request` of the stages
that follow, `cache2mem` for what these stages do to the occupancy of the queues,
and one event each for arrivals and credits.  `done` and `executing` keep the order
of the cycle loop: events first, then the cpus by number; this order is what
`CycleLoop` states and `EventQueue` is shown to implement.

Abstracted: the packet's payload (a member of `Msgs`), what `home_enter` writes into
the entry it takes, and *when* a cache frees entries or reserves one, which is
nondeterministic within the guards the code tests.  `Flows` and `Missing` restrict
which cpus talk and miss; the theorems quantify over them.

### EventQueue

Descriptors are numbers; `eventq_pending` and `eventq_free` are the two linked lists.
`eventq_service_events` is one turn of its loop: set `sim_cycle`, release the
descriptor, start the action.  A running `cpu_execute` may queue any ordinary event
for this cycle or up to `MaxDelay` later, and finally queues itself.

### Coherence

A cpu is a record `st`; a function of the program that updates a cpu is an operator
from `st` to the updated record, so that one step of `Coherence` is one whole
`cpu_execute`, in the order of the code: events due (`eventq_service_events`),
redirection (`tracer_recover`), memory (`check_memq`), arrivals (`home_enter`),
`cache2mem`, `lsq_stage` in its own order (write back, miss, write, dtagcmp, commit,
dcache, memaddr), `fetch_stage`.  What such a
cycle leaves for others is collected in `out` (calls of `noc_request`), `events`
and `failed` (the assertions that did not hold).

| code | model |
|---|---|
| `missq[]`, `missq_num` | `missq`, `missq_num`; `data_directory` with `inst_directory`, and the sent and the received interventions, are sets of caches, the pairs of a cpu and "dcache" or "icache" |
| `wtbkq[]`, `wtbkq_num`, `wtbkq_replacei` | the same |
| `memq_head` list | set `memq` of accesses under way, each completes after any delay |
| `eventq_queue_callback*(sim_cycle + L2_*_delay, ...)` | `events`, a shift register of `L2_delay` cycles, latest first as `eventq.c` inserts |
| L2 set of the home, with directory | `dl2` |
| one set of the data cache | `dcache`; `refill_blk`, `refill_bitmap`, `refill_new_status`, `replace_paddr` as in `cache.c` |
| one set of the instruction cache, `irepbuf` | `icache`, `icache_refill_blk`, `irepbuf`; `istall` is a cycle in which the fetch stage rests |
| `lsq[]`, `lsq_refill`, `lsq_dcache_refill`, `lsq_dtagcmp_refill`, `replace_delay` | the same, as a sequence and three packets |
| round robin (`lasti`), L2 victim, LRU | any choice |

Abstracted: data; addresses (all blocks fall into one L1 set, those of one owner into
one L2 set, the case in which they conflict); byte masks (an access is a double
word); address generation and commit, which are the pipeline's (accesses issue in
the order of their `step`, a store is committed at any time after it is ready, and
nothing is cancelled); credits towards HOME, which `Noc` models and proves
sufficient: here a packet arrives only when its queue has room.  A fetch is of a whole
block and enters `MISS` when it is looked up, a cycle before the code offers it.
`missq_enter` takes the lowest empty entry where the code searches on from the last one
taken (`find_missq_empty_entry`): which entries act in a cycle is any choice, so the
number of an entry decides nothing, and no property depends on it.

### Reorder

The window of one cpu.  `stage` says which stage of the cycle runs, from commit back
to fetch as in `cpu_execute`; a step is one iteration of that stage's loop (`n` counts
them) or its end, so that what a stage sees of its own earlier iterations is what the
code sees.

| code | model |
|---|---|
| `roq[]`, `roq_head/tail/num`; `brq[]`, `brq_head/tail/num` | the same rings; `brq` holds slots of `roq` |
| `fetch_data[]`, `decode_data[]` | sequences (the slots are abstracted) |
| `last_is_branch`, `is_jump`/`target_PC`, `need_to_correct_pc`/`correct_PC`, `entering_spec` | `front`; two locals of `decode_stage` are in it as well |
| `fetch_istall_buf` | `stall` |
| `commit_stage`, `pipeline_flush` | `commit`, `pipeline_flush`, `commit_end` |
| `check_brq`, `brerr_recover`, `tracer_recover` | `check_brq_right`, `brerr_recover`, `check_brq_none` |
| `writeback_stage`, `lsq_stage`, `issue_stage` | `execute`: any instructions complete, any issue, any load turns out to be early |
| `map_stage`, `decode_stage`, `fetch_stage` | `map_one`, `decode_one`, `fetch_stage(k)` and the ends |

Instructions execute functionally when they are decoded, so decoding chooses the
outcome of a branch; the predictor chooses what a branch of its kind can be predicted.
An instruction cache or TLB miss and the end of a cache line are the choice of `k`.
`arch` is history: what retired last and what must follow.  Floating point counters,
register values and statistics are left out.

### Scheduler

A step is one stage of a cycle.  The code refers to instructions by `RS_link`s that
carry the tag of the descriptor; a link is valid while the tags agree.  The model
keeps that comparison (`valid`) in the link instead of the tag: squashing makes all
links to the descriptor invalid, for good, and the descriptor may be reused at once.
`create_vector` has one level per level of speculation, as in the code; `ready_queue`
is one list per unit in the order of `readyq_enqueue`; `event_queue` is ordered by the
cycles that remain; `busy` is the divider of a unit.  Choosing among units of equal
load is left open.  An instruction has one input and one output (three and two in the
code), so it is ready or not, never in part.  `FreeDividers` frees the unit of a squashed
division; the code clears `busy` of the template of any instruction, but templates are per
operation class and only divisions set it (`issue.c:382`).  Queue sizes and delay slots are `Reorder`'s.

### Lsq

The queue of one cpu with the stages that touch it, cut at the places where they do:
commit (with cancelling and write back), `cache2mem`, tag comparison, the pipeline
registers, issue, map.  Any access of `Accesses` may enter.  The memory system is open
too: it answers what was asked, may take any block away as `Taking` says, and refills
in the order of the refill bus (replacement, refill, four cycles without an
intervention).  Bytes are those of one double word, `byterdy` and `bytemask` sets of
them.  `early` and `lost` are history: the access read before an older store to its
bytes was known; its block was taken away after it had read and before an older load
had.  `Dcache` models the same queue for its effects on coherence, with refills in
parts but without reordering or cancelling.  `Hit` also finds the entries in
`LSQ_DELAY1`, which `lsq_head` has passed (`lsq.c:345`); nobody reads them again.  `Victims`
leaves out that an `INVALID` victim compares the stale `replace_paddr` of an earlier one:
that makes an access ask or execute once more, which other packets do as well.

## Runs

| run | instance | shows |
|---|---|---|
| `noc_home` | 2x1, buffers of 1, miss queue 4, write-back queue 3, all types towards one home that misses and replaces itself | `TypeOK`, `HomeCredit`, `HomeHasRoom`, `NoOverflow`, `LastEntryForIntervention` |
| `noc_mesh` | 2x2, buffers of 2, flows that turn and merge, fair | `GrantSound`, `NoUTurn`, `LinkCredit`, `ImplementsChannels`, `NoStarvation` |
| `eventq` | 2 cpus, 2 handlers, delays 0..2, 4 pending, cycles 0..2 | `TypeOK`, `Sorted`, `DescriptorsOnce`, `ImplementsCycleLoop` |
| `coh` | 2 cpus, blocks of two parts, one-way data cache, two-way L2, 2 write-back slots; six programs: both load `a`, then `b`, which evicts it; both store `a` and one `b`; both store both parts of `a`; one fetches `a`, which a store to `b` evicts; one fetches `b`, the other `a` and `b`; one fetches `b`, the other `a`, its own `c` and `a` again | `TypeOK`, `SWMR`, `DirectoryCovers`, `AssertionsHold`, `QueueCounts`, `MatchesWait`, `WritesOwned`, `NoMoreContains` |
| `coh_upgrade` | cpu 0 loads and stores `a`, cpu 1 loads it | `NoMoreContains` violated |
| `coh_int3` | cpu 1 loads and stores `a`, cpu 0 stores it | `NoInt3` violated |
| `coh_reissue` | both load `a`; cpu 1 evicts it, both store it | `ReissueEnds` violated |
| `reorder` | two loops: store, branch likely, load in its delay slot; system call, indirect jump, store in its delay slot; widths 1, 3 reorder, 3 branch and 2 load/store entries, fair | `TypeOK`, `QueuesAgree`, `LevelsAgree`, `RetiresInOrder`, `Progress` |
| `sched` | 3 descriptors, 2 units, 1 register; divisions, loads that may mis-speculate, wrongly predicted branches; 2 levels, fair | `TypeOK`, `OperandsExact`, `ReadyExact`, `EventsExact`, `NoOrphans`, `DividersReturned`, `Progress` |
| `lsq_store` | 3 entries, 2 bytes; loads of both, stores of one; nothing is taken away | `NoMissedStore`, `RingAgrees` |
| `lsq_taken` | 2 entries; a load, a store, another access; replacements and both interventions | `TypeOK`, `NoMissedStore`, `RingAgrees`, `WritesOwned` |
| `lsq_order` | 2 entries, loads of two double words, invalidations | `LoadsInOrder` violated |

The bounds are the smallest in which the interesting case exists.  In the network, four
miss queue entries let requests, a local miss (which keeps two entries free) and an
intervention compete, and a 2x2 mesh has turns and routers that merge traffic from
their own cpu and a neighbour.  In `eventq` the bounds on pending events and cycles cut
the behaviours off, so deadlock is not checked there.

The coherence instances have two cpus, cpu 0 the home of `a` and `b`, so that
its L2 serves one local and one remote cpu; four miss queue entries (own misses leave
two, requests one); an L2 delay of one cycle; a one-way data cache, so that the
second block evicts the first.  The L2 has two ways where a data cache is to evict
by itself: with one way the L2 victim's intervention always empties the data cache
first.  Two parts of a block make early refills possible.  In the sixth
program cpu 1 is the home of a third block `c`: its fetch of `c` empties its cache without
the home of `a` knowing, so that the intervention for `a` meets the new miss of `a` before it
is sent, and waits with it for cycles (`MatchesWait`).  With data in blocks of both homes,
or with three cpus, the state space exceeds what a run of minutes can explore.

In `reorder` the branch queue has three entries because `map_stage` keeps one free and
a branch may be in flight with one of its wrong path; three reorder entries hold a branch,
its delay slot and that instruction.  `decode_speed` is 1 (see
below), and so is `fetch_speed`, its default.  With three entries no inner mispredicted
branch is resolved before an outer one, and one load is in the window at a time:
recoveries in that order are covered by the theorems `LevelsCorrect` and `InProgramOrder`
only, and `Progress` says nothing of loads that flush one another again and again.

In `sched` three descriptors are a producer, a consumer and a squashed
instruction whose descriptor is reused while links to it are still queued.  In
`lsq_store` three entries are a load, a store behind which it may not be early, and a
store between them that shadows the first.

Every property of a passing run has a mutant in `PROJECT.json`, an operator named
`<definition>_<what goes wrong>` before the definition it would replace.

Fairness.  In `noc_mesh`: weak fairness of `noc_stage`, `cache2mem` and the two kinds of
event, because `cpu_execute` always reschedules itself and the queue executes every
event; nothing is assumed about `noc_request`.  In `reorder`: the cycle goes on (weak,
`Next`); the oldest instruction issues and completes, accesses that have retired leave
the load/store queue, an instruction that may be mapped is, and fetch is not always
stopped by a miss (strong, because the stages take turns).  The first two are what
`sched` shows from the latencies of the units, under weak fairness of `Next` and strong
fairness of mapping and decoding.  `Progress` of `sched` excepts loads that mis-speculate
for ever, which the scheduler alone cannot exclude.

## Findings

Four runs state what the code says of itself and are violated.

* `coh_upgrade`: the answer to an UPGRADE makes `replace_block` choose the
  requester's own SHARED copy as the victim (`cache.c:648`); the copy is announced to
  the home by an ELIMINATE, and `scache_writeback` removes the cpu from the directory
  under the comment "no more contain this block" (`cache2mem.c:596`), while the refill
  has made it the owner.  The next requester is then granted the block without an
  intervention.
* `coh_int3`: the check before `__asm__("int3")` (`cache2mem.c:1515`) stops the program
  when a read is granted EXCLUSIVE after an intervention has moved the waiting
  UPGRADE to `MQ_DELAY1`.
* `coh_reissue`: a miss that is made to wait for an external intervention
  (`cache2mem.c:913`) waits for ever when that intervention is answered from the
  write-back queue (`cache2mem.c:931`), which skips the place that releases it.

* `lsq_order`: the loops commented "for processor consistency" (`lsq.c:234`, `268`) make
  a load that has read execute again when its block is taken away, if its `loadspec` is
  set.  When a load reads before an older one, `lsq.c:426` sets the flag of the older
  load, not of the one that overtook it; the younger load keeps its old value and
  retires after the older one has read a newer one.

In all three programs of the coherence runs a cpu loads a block and stores to it afterwards.  Once the
directory has lost an owner, `SWMR` and `DirectoryCovers` fail as a consequence;
the passing runs therefore show them for programs in which no cpu upgrades a block:
one it has read, or one that a load of the other cpu takes before its store is written.

Seen while modelling, not run:

* With `decode_speed` 2 two wrongly predicted branches can be decoded in one cycle while
  `map_stage` has stopped, so that `spec_level` outgrows the `brq_ifq_size + 1` levels
  that are allocated for `spec_regs` and `create_vector` (`decode.c:184`, "spec_level
  may increase to brq_ifq_size"): only `map_stage` looks at the branch queue.
* A trap waits in `decode_stage` until `roq_num` is 0 (`decode.c:899`), but older
  instructions may still be in the decode queue; and when that queue is longer than one
  group, a wrongly predicted branch may wait in it while the reorder queue is empty,
  which the next lines take for an error ("drained and speculative", `decode.c:905`).
* A branch queue of two entries stops the cpu: `map_stage` maps nothing while one of
  them is used (`map.c:129`), so a wrongly predicted branch waits for ever for its delay
  slot.
* A division that is squashed while it waits clears the `busy` flag of its unit
  (`writeback.c:245`, `commit.c:304`), also when an older division is using the divider,
  so that a third may start early.  This costs accuracy of timing only;
  `DividersReturned` states the other direction, which holds.
* An intervention of another home that arrives while an accepted instruction miss of its
  block has not been sent frees that entry (`cache2mem.c:1438`), but `irepbuf` stays in
  `IREP_REFILL` ("this can be cancel,while IREP_REFILL cannot", `fetch.c:139`), so that the
  cpu never fetches again.  The program `Crossing` of `coh` gets there; `MatchesWait`
  says what is right of it, that no answer is under way for the freed entry.
* A SHARED text block that one cpu loads as data becomes EXCLUSIVE (`cache2mem.c:422`
  counts the data caches only) while instruction caches hold it.  Its replacement in the
  L2 waits for their answers, but sends remote instruction interventions only while it is
  SHARED (`cache2mem.c:1056`).

## Proofs

`NocProof` proves, for every mesh size, buffer and queue size, payload set and set of
flows, the eight safety properties of the Noc runs, one theorem each.  Assumed:
sizes are positive (`MeshAssumption`, `SizeAssumption`) and no cpu sends to itself
through the network (`FlowAssumption`, the callers in `cache2mem.c` and `lsq.c` test
it).  The argument is one inductive invariant `IInv`:

* `GrantSound` alone is not inductive: to keep a grant valid across a cycle one
  needs that two egresses never hold the same flit (both would have to be the route
  of its destination) and that arrivals only append;
* `LinkCredit` needs `NoUTurn` (the credit of a flit that turned back would not be
  sent) and `BorderIdle` (nothing is on a wire from, or granted towards, the outside
  of the mesh, where the border tests of `flit_traverse` are off by one);
* `HomeHasRoom` needs `HomeCredit`, `HomeEvents` (`REQ` and `INVN` share one counter)
  and `HomeBounds`: when `arbitrate` grants, the credits leave an entry for every
  granted packet, and `cache2mem` of the same cpu, the only step in between that
  takes entries, keeps a margin of two miss queue entries and one write-back entry.

Each action has one lemma, each conjunct of `IInv` one step in it.

It also proves, under the same assumptions, `Spec => ImplementsChannels`: the network
is one first-in first-out channel per flow.  The mapping of `MCNoc` reads a flow from its
destination back along its X-Y path, at each station the flits of the flow in the
buffer and then those on the wire into it, and joins these segments.  The proof:

* `IInv` does not say where a flit is.  `KeepsPath` does: every flit, in a buffer or on a
  wire, is at a station of the path of its flow (theorem `FlitsKeepPath`).  A router
  computes an egress from the destination alone; `PathRoute`, `PathInputs` and
  `OnPathNext` show that these choices add up to the path that the mapping computes from
  both ends, and `PathOnce` that no station is on it twice.  `HomeWireIdle` says that the
  wire behind a HOME port, which no router drives, is empty.
* `request` adds a flit at the end of the last segment, which is at the end of the
  sequence (`RequestSends`).  An arrival moves a flit within one segment
  (`ArriveSame`).  `noc_stage` forwards the granted flits of all ports of a router together, but
  `GrantSound` and `NoUTurn` leave each flow one input and one egress there: the flit
  leaves the head of one segment and joins the end of the next, and what the segments
  form together stays the same (`FlattenMoved`, `StageMoves`); or it leaves through HOME,
  which is the head of the first segment and of the sequence (`StageDelivers`).
* The mapping is a recursive function over positions.  That such a function exists and obeys
  its equations is `FoldExists` and `FoldFlattens`, by `Counting`: from 1 to n along the
  well-founded order of the naturals, since the library's induction theorems cannot be
  used.

`EventQueueProof` proves `TypeOK`, `DescriptorsOnce` and `Sorted` of `EventQueue` for any
number of cpus, handlers, delays and pending events.  `IInv` is `TypeOK`, `Sorted` and
`Once`, which says of the two lists together what `DescriptorsOnce` says by counting:
no descriptor at two places, every one at some place.  Counting is not inductive for a
prover; places are.  The insertion scan of `QUEUE_EVENT` is a smallest position, and the
library's induction theorems cannot be used here, so `LeastNat` (a set of naturals has a
least element) takes their place, from the fact that `<` is well-founded on the
naturals.

The same module proves the refinement itself, `Spec => ImplementsCycleLoop`.  The
mapping counts: how many events of a handler are due after each delay, and which cpus
are still to run.  `IInv` does not know that a cpu has one `cpu_execute` event, for this
cycle or the next, with those of this cycle behind all handlers and in the order of the
cpus' numbers; that is the additional invariant `Turns`.  The lemmas about inserting into
and removing from a list are stated for constants (`At`, `LeftIn`, `DueIn` of any list),
so that one of them serves every action, and `View` relates them to the variables.

Assumed is only that there is a cpu and that the bounds are natural numbers
(`QueueAssumption`).

`LsqProof` proves `TypeOK`, `RingAgrees`, `WritesOwned` and `NoMissedStore` of `Lsq` for any
ring size, map width, set of accesses and bytes, refill delay and set of packets that
take blocks away.  Assumed (`LsqAssumption`): the ring holds what `map_stage` may take in a
cycle, a store writes at least one byte (`get_bytemask`).  `IInv` has nine parts:

* `Placed` is the ring: what is held is a window of ages 0 to `lsq_num` - 1, what has left
  is a window in front of it, and while `map_stage` runs there is room for the accesses
  it may still take (it tests the room once per cycle, `map.c`).  A squash cuts the
  window at an age, so its effect on `lsq_num` is the size of a window; `Rings` states
  these facts for a ring by itself (`WindowSize`, `PrefixWindow`, `AgeShift`).
* `Registers` and `Chosen` are the pipeline: each register names the entry in its state,
  and what one step of `lsq_stage` chose is still so when a later step uses it.
* `Flow`, `Owned` and `Believed` give `WritesOwned`.  `blk` of an entry alone says nothing
  of the cache: the packet that takes the block away changes the cache one cycle before
  it is compared with the entries.  `Flow` says that a packet stays a cycle in each place
  and that what it did still holds when it is compared, with `replace_delay` above zero,
  which keeps the store from being written in between; `Owned` says that nothing is asked
  for or under way to a block that is owned, so no second refill undoes it.
* `Early` gives `NoMissedStore`: a load that read early is either marked to execute again,
  or the youngest store before it to one of its bytes is still unknown (`Hidden`), so the
  comparison of that store has yet to come and no younger store shadows it.  `Writing`
  excludes stores that write nothing, which would be compared with no load.

`ReorderProof` proves `TypeOK` and `QueuesAgree` of `Reorder` for any program, widths and
queue sizes.  Assumed: delay slots hold no branch and no trap (`ProgramAssumption`) and
`map_width` is at most 4 (`WindowAssumption`).  The parts of `IInv`:

* `Window` and `Branches`: each queue is a window of its ring, an entry of the branch queue
  and its branch name one another, and both are in program order.  A squash removes the
  youngest instructions and cuts the branch queue by their number of branches;
  `YoungestBranches` shows that these are the same entries, by counting both with
  `WindowSize` and `PrefixWindow` of `Rings`.  After `pipeline_flush` the reorder queue
  starts again at slot 0, the branch queue where it was: the ages are relative to
  each queue's own head, so nothing else changes.
* `Counted`: the issue and rename counters are what the window holds.
* `Space`: what `map_stage` tested before its loop, less the iterations run.  The branch
  queue is tested for one slot more than a branch, not for `map_width`, so `TypeOK` needs
  to know how many branches the next instructions can hold (`MostBranches`).  That is
  `DelaySlots`: fetch runs straight on, so the instruction after a branch is its delay
  slot, and at most two of four are branches.  `simulate.c` takes any power of two
  for `max_map_width`; with 8 four branches could enter two free slots, which is why
  the width is assumed and not left open.

The module also proves `LevelsAgree` and `Spec => RetiresInOrder`, the refinement of `InOrder`,
under the same assumptions.  Its invariant `FInv` adds `Flows` to `IInv`, said of the
sequence of the instructions in flight (reorder queue, then decode queue), whatever slots
they are in:

* `Levelled`: the level of an instruction is the number of open branches before it that it
  `Waits` for.  `LevelsAgree` alone is not inductive.  Between a mispredicted branch and
  its delay slot the next level is kept in `entering_spec` only, so the invariant ties
  what decode keeps to the youngest instruction; and a delay slot is not a branch, so that
  cutting behind it closes one branch and takes none of the others' waits
  (`brerr_recover` gives decode the level of the branch: `Cut`).
* `Chained`: each instruction that waits for no branch is what `Follows` the one before it,
  the oldest is what `arch` says must retire, and at level 0 the fetch queue and `front`
  (`jump`, `redirect`) hold what follows the youngest.  Instructions of a deeper level are
  on no path, and nothing is said of them; when a branch is resolved, what is left of
  its level is its delay slot, which is on the path either way.
* `Made`: what the fields of an instruction say of one another, as decode filled them in.
* `Fresh`: an instruction that is not mapped is as decode left it.

Every action has a lemma about lists of instructions (`Copied`, `Dropped`, `Emptied`, `Cut`,
`Appended`) and one that places the two queues in the list (`Flight`, `FlightNext`).

`ProgramAssumption` also excludes a branch to its own delay slot.  `decode.c:1261` compares
addresses only (`pred_PC != st->regs.regs_NPC`): such a branch, predicted to fall through
and taken, would pass for rightly predicted, and the instruction after its delay slot
would be fetched in place of the delay slot again.  No compiler emits one.

`SchedulerProof` proves the six invariants of `Scheduler` for any number of descriptors,
registers, units, instructions and latencies, with and without bypass.  Assumed
(`SchedulerAssumption`): finitely many descriptors and units, and only branches are
predicted wrongly.  `IInv` is said of the sequence of the descriptors in flight
(`InFlight`: reorder queue, then decode queue) and of what they contain:

* `Ordered`: what is in use is in flight, once; sequence numbers and levels go up, the level
  behind an open mispredicted branch; exactly the mapped instructions have a unit.
* `Creators`: at each level up to the current one, `create_vector` names the last writer
  among the instructions of that level and below, until it has written.  The
  levels above are stale and nothing is said of them: `decode` copies a level before it
  is used.  This is why recovery only has to set `spec_level`, and why
  `update_create_vector` must clear every level up to the current one.
* `Operands` and `Awaited`: an operand is ready when its `Source`, the last older writer in
  flight, has written, and until then the list of the source holds a valid link to it.
  Valid links in a list go to nothing else, so a descriptor that is reused wakes no
  one by its old links.
* `Readies`: `ReadyExact`, and also that an invalid link has the sequence number of no
  instruction, which keeps the order strict when an instruction is put in, and that at
  most one link of a queue is chosen to be next.
* `Running` and `InUse`: one valid event for each operation, an operation for each busy
  divider.

`commit`, `pipeline_flush` and `brerr_recover` take instructions off one end of `InFlight`
or both; one lemma (`KeptStep`) serves the three.  Commit takes the oldest: an
instruction whose source retires keeps its operand because the source had written.  Recovery
takes what is behind a branch: what that wrote was of a deeper level, so it was no source
of what stays.  `readyq_enqueue` and `eventq_queue_event` put a set into a list
by a fold over the set; the fold equations come from `FoldExists`, by the number of
elements with `LeastNat`, and every insertion keeps `MergedIn` and `PairsOf` (the old links in their
order, the new ones each once).

`CoherenceProof`, with `MissQueueProof`, proves `QueueCounts` and `MatchesWait` of `Coherence`,
and three facts that no run checks, for any number of cpus, blocks, ways and queue
entries, any L2 delay and any packet delay:

* `QueuesBounded`: the queues hold no more than their sizes;
* `HomeServesOne`: a home has issued one request of a set of its L2;
* `InterventionsAwaited`: an intervention is in one place, the only one of its home to
  that cache, and the entry that its answer names waits for it.

Assumed are positive sizes (`SizesAssumption`) and, in the theorems themselves, `Separate`: no block is both executed and loaded or stored in the program.
Without it `QueueCounts` is false.  An intervention frees the `invn_match` entries of its
block in whatever state they are (`cache2mem.c:1438`): if a cpu waits for a block that both
its caches held, the data intervention frees the entry and the instruction intervention
decrements `missq_num` again.

The counters cannot be proved by themselves.  That the instruction branch frees just
entries in use is `MatchesWait`; this needs that a match is not issued while its
intervention is in the queue, hence that there is one intervention for a block at a time,
hence that the home has one round for it and waits for exactly the caches it has asked;
and an answer that came twice, or late, would end a round that is another's.  So the
invariant is about all cpus:

* `Good(st, v)` is what a cpu keeps: `EntryOK`, `RoundOK`, `OneServed`, `MatchOK`, `OneAsks` of
  the entries, `SlotsOK` of the write-back slots with those counted in advance,
  `Evs` and `Outs` of what it has scheduled and sent.  Of the other cpus it knows `v` only:
  the rounds of others that wait for it (`asked`), whose interventions to it or answers
  from it are in channels (`others`), and the interventions of its own that exist (`sent`).
* `Env` computes `v` from the state.  An intervention is a token (`Tokens`): in the channel
  INVN, in the miss queue of the cpu asked, or, answered, in the channel RESP.  `OneToken`
  says that there is one for each home, cpu and cache; `Good` of the home says that each is
  awaited, `Good` of the cpu asked that what it has in its queue is one.

Every operator from `st` to `st` has a lemma: it keeps `Good` for the same `v`, or for a `v`
with the intervention that it sends or ends.  `cache2mem` and `cpu_execute` are chains of
these lemmas in the order of the code.  A step of `Coherence` changes one cpu and its
channels; the lemmas about `Env` show that a token moves, begins or ends with it, and that
`v` of every other cpu changes only by what it does not rely on.

Only model-checked: liveness, which is out of the prover's reach, and what is said of the
caches in `Coherence`:

* `AssertionsHold`, `SWMR` and `DirectoryCovers` are false in general: the runs `coh_int3` and
  `coh_upgrade` show how programs reach a false assertion or two owners.
* `TypeOK` of `Coherence`, of which `QueuesBounded` is a part.
* `WritesOwned` of `Coherence` for programs with separate text and data; `LsqProof` proves it
  of `Lsq`.
* `NoMoreContains`, which holds of programs without upgrades only.

## Plan

Done: `Noc`, `Channels`, `EventQueue`, `CycleLoop`, `Lsq`, `Reorder`, `Scheduler` and `Coherence`
with their proofs.  Open, in this order:

1. Proof: `WritesOwned` of `Coherence`, for programs with separate text and data.
2. An abstract coherent memory for `Coherence` to implement.
3. Slots and head of an input buffer implement the sequence of `Noc`.

Hazards that no property covers are in `PROJECT.json` with the reason.

## Not modelled

* Liveness of `Coherence` (every miss is answered, the write-back queue drains): the fair
  state graph is out of TLC's reach in the smallest instances that have the conflicts.
* Data: values of registers and memory, what `recover_data` and `spec_mem_access`
  restore.  They belong to functional simulation.
* Branch predictor, TLB and `cache_timing.c`: numeric tables that affect timing; what they
  can answer is a choice in `Reorder`.
* DRAM and bus latencies: any delay in `Directory`.
* Alternative routers (not built by default), DVFS, split routers, the unused
  external-intervention queue.
* Sampling modes, options, statistics, power models.
* Functional simulation, loader, symbol tables and system calls: sequential data
  transformation and I/O inherited from SimpleScalar.
* CACTI, libexo and the unused copy of the target definition (`target-mips/`).

The parts of the last four items are most of the repository's lines; the models cover
most of the lines of the parts that carry the simulated machine's control
(`cache2mem.c`, `lsq.c`, `noc.c`, `noc_rr.c`, `eventq.c`, `decode.c`, `map.c`, `issue.c`,
`writeback.c`, `commit.c`, `fetch.c`).
