----------------------------- MODULE Coherence ------------------------------
(***************************************************************************)
(* The directory MESI protocol: every cpu runs one cycle in turn, as the   *)
(* event queue makes cpu_execute do (module EventQueue), and packets       *)
(* travel through first-in first-out channels, one for every type, source  *)
(* and destination, with any delay (modules Noc and Channels).             *)
(***************************************************************************)
EXTENDS MissQueue

VARIABLES
  cpu,    \* cpu[n]: the state of module CpuState
  chan,   \* chan[t][s][d]: packets of type t from s to d, oldest first
  turn    \* the cpu that runs next

vars == <<cpu, chan, turn>>

Init ==
  /\ \E program \in Programs : cpu = [n \in Cpus |-> InitialCpu(n, program)]
  /\ chan = [t \in Types |-> [s \in Cpus |-> [d \in Cpus |-> <<>>]]]
  /\ turn = 0

\* For every type, the source whose packet n takes in this cycle, or None.
Sources(n, t) == {None} \cup {s \in Cpus : chan[t][s][n] # <<>>}
Arrivals(n) ==
  {[REQ |-> s1, INVN |-> s2, WTBK |-> s3, RESP |-> s4] :
     s1 \in Sources(n, "REQ"), s2 \in Sources(n, "INVN"),
     s3 \in Sources(n, "WTBK"), s4 \in Sources(n, "RESP")}

\* home_enter for the packets that arrive, as far as the queues are open, in
\* the order in which noc_stage looks at the types.
EnterType(st, n, f, t) ==
  IF f[t] = None THEN st ELSE home_enter(st, Head(chan[t][f[t]][n]))

Enter(st, n, f) ==
  LET s1 == EnterType(st, n, f, "REQ")
      s2 == EnterType(s1, n, f, "INVN")
      s3 == EnterType(s2, n, f, "WTBK")
  IN  EnterType(s3, n, f, "RESP")

Open(st, f) == \A t \in Types : f[t] # None => HomeOpen(st, t)

\* Packets of type t from n that are under way.
UnderWay(n, t) == Cardinality(UNION {{d} \X DOMAIN chan[t][n][d] : d \in Cpus})

\* chan after n took f and sent out.
Transported(n, f, out) ==
  [t \in Types |-> [s \in Cpus |-> [d \in Cpus |->
     LET left == IF d = n /\ f[t] = s THEN Tail(chan[t][s][d]) ELSE chan[t][s][d]
     IN  IF s = n THEN left \o out[t][d] ELSE left]]]

\* Nothing of what a cycle leaves for others stays in the cpu.
Settled(st) ==
  [st EXCEPT !.out = NothingSent, !.room = [t \in Types |-> router_ifq_size], !.istall = FALSE]

\* The way of the L2 that a probe of this cycle replaces, if there is one.
L2Victims(st) ==
  IF Head(st.events) # <<>> \/ \E i \in Entries : st.missq[i].wait = 2
  THEN L2Ways ELSE {0}

\* A pending instruction miss may be cancelled in this cycle.
Redirects(st) == IF st.irepbuf.state = "MISS" THEN BOOLEAN ELSE {FALSE}

\* One cpu_execute: due events, redirection, memory and the network; then
\* cache2mem; then lsq_stage; then fetch_stage.
cpu_execute(n) ==
  /\ turn = n
  /\ turn' = (n + 1) % total_cpus
  /\ \E victim2 \in L2Victims(cpu[n]), victim1 \in L1Ways, done \in SUBSET cpu[n].memq,
        f \in Arrivals(n), redirect \in Redirects(cpu[n]) :
       LET ready == [cpu[n] EXCEPT !.room = [t \in Types |-> router_ifq_size - UnderWay(n, t)]]
           st == check_memq(tracer_recover(eventq_service_events(ready, victim2), redirect),
                            done)
           entered == Enter(st, n, f)
       IN  /\ Open(st, f)
           /\ \E p \in Picks(entered) :
                LET passed == cache2mem(entered, p, victim2) IN
                \E write \in {FALSE} \cup (IF CanWrite(lsq_wtbk(passed)) THEN {TRUE} ELSE {}),
                   issue \in Issue(passed), fetch \in Fetch(passed), iway \in IWays :
                  LET final == fetch_stage(lsq_stage(passed, write, victim1, issue), fetch, iway)
                  IN  /\ cpu' = [cpu EXCEPT ![n] = Settled(final)]
                      /\ chan' = Transported(n, f, final.out)

Next == \E n \in Cpus : cpu_execute(n)

Spec == Init /\ [][Next]_vars

-----------------------------------------------------------------------------
(***************************************************************************)
(* Properties.                                                             *)
(***************************************************************************)
MissStates == {"EMPTY", "L1_MISS", "READ_L2", "MODIFY_L1", "REPLACE_L1", "EXTRDY",
               "REFILL_L1", "L2_MISS", "MEMREF", "REFILL_L2", "DELAY1", "DELAY2", "DELAY3"}
L1Statuses == {"INVALID", "DIRTY_INVALID"} \cup Valid

\* The queues, caches and channels hold what their types allow, within
\* their sizes (struct godson2_cpu and the asserts on the queue counters).
TypeOK ==
  /\ turn \in Cpus
  /\ \A n \in Cpus :
       /\ cpu[n].missq_num \in 0 .. missq_ifq_size
       /\ cpu[n].wtbkq_num \in 0 .. wtbkq_ifq_size
       /\ Cardinality(cpu[n].memq) <= memq_ifq_size
       /\ Len(cpu[n].lsq) <= lsq_ifq_size
       /\ \A i \in Entries : /\ cpu[n].missq[i].state \in MissStates
                             /\ cpu[n].missq[i].directory \subseteq Caches
       /\ \A w \in L1Ways : cpu[n].dcache[w].status \in L1Statuses
       /\ \A w \in IWays : cpu[n].icache[w].status \in {"INVALID", "SHARED"}
       /\ \A w \in L2Ways : cpu[n].dl2[w].status \in {"INVALID", "SHARED", "EXCLUSIVE"}
       /\ \A t \in Types : UnderWay(n, t) <= router_ifq_size

\* The ways of cpu n that hold block b.
Holds(n, b) == L1Hit(cpu[n], b, Valid)
Owns(n, b) == L1Hit(cpu[n], b, Owning) # {}

\* A single writer or many readers: while one data cache holds a block
\* EXCLUSIVE or MODIFIED, no other holds it.  Interventions, acks, refills
\* and write-backs of scache_probe, modify_L1 and lsq_stage together keep it.
SWMR == \A b \in Blocks, n \in Cpus : Owns(n, b) => \A m \in Cpus \ {n} : Holds(m, b) = {}

\* Whatever a data cache holds is in the L2 of its home, whose directory
\* lists that cache and knows of an owner, and whatever an instruction cache
\* holds is there SHARED and listed: scache_probe and the replacement of the
\* L2 block ask no other cache.
Listed(l1, b, S) ==
  \E w \in L2Hit(cpu[Owner[b]], b) : /\ l1 \in cpu[Owner[b]].dl2[w].directory
                                     /\ cpu[Owner[b]].dl2[w].status \in S
HoldsText(n, b) == \E w \in IWays : cpu[n].icache[w] = [tag |-> b, status |-> "SHARED"]

DirectoryCovers ==
  \A n \in Cpus, b \in Blocks :
    /\ Owns(n, b) => Listed(DataL1(n), b, {"EXCLUSIVE"})
    /\ Holds(n, b) # {} => Listed(DataL1(n), b, {"SHARED", "EXCLUSIVE"})
    /\ HoldsText(n, b) => Listed(InstL1(n), b, {"SHARED"})

\* No assertion of the code fails: the write-back queue has a slot for what
\* enters it (wtbkq_enter), acks and statuses agree (home_enter, lsq_stage,
\* invalidate), a replaced block is whole (replace_block), a store is written
\* to a block it has (lsq_stage), an EXCLUSIVE grant meets only waiting
\* writes (cache2mem).
AssertionsHold == \A n \in Cpus : cpu[n].failed = {}

\* The counters that admit packets and misses agree with the queues; the
\* slot of a replacement on its way to the dcache is counted in advance
\* (bus_replace, replace_block).
Reserved(st) == Cardinality({r \in {"lsq", "dcache"} :
  (IF r = "lsq" THEN st.lsq_refill ELSE st.dcache_refill).kind = "replace"})

QueueCounts ==
  \A n \in Cpus :
    /\ cpu[n].missq_num =
         Cardinality({i \in Entries : cpu[n].missq[i].state # "EMPTY"})
    /\ cpu[n].wtbkq_num =
         Cardinality({j \in Slots : cpu[n].wtbkq[j].valid}) + Reserved(cpu[n])

\* The own misses that an intervention to the instruction cache frees, without
\* looking at them again (bus_external_inst), are those check_conflict found:
\* misses of its block that have not been issued.
MatchesWait ==
  \A n \in Cpus, i, j \in Entries :
    LET e == cpu[n].missq[i]
        f == cpu[n].missq[j]
    IN  External(e) /\ e.cache = "icache" /\ e.modify_l1 /\ j \in e.invn_match =>
          f.state = "L1_MISS" /\ f.blk = e.blk

\* A store is written only to a block its cpu owns, or whose refill will make
\* it the owner (dcachewrite in lsq_stage, mark_valid).
WritesOwned ==
  \A n \in Cpus, w \in L1Ways :
    /\ cpu[n].dcache[w].status # "DIRTY_SHARED"
    /\ cpu[n].dcache[w].status = "DIRTY_INVALID" =>
         cpu[n].refill_blk = w /\ cpu[n].refill_new_status = "EXCLUSIVE"

\* A cache that a directory drops holds the block no more ("no more contain
\* this block", scache_writeback).
NoMoreContains ==
  [][\A b \in Blocks, n \in Cpus, w \in L2Ways :
       LET old == cpu[Owner[b]].dl2[w]
           new == cpu'[Owner[b]].dl2[w]
           Dropped(l1) == /\ old.tag = b /\ new.tag = b
                          /\ l1 \in old.directory \ new.directory
       IN  /\ Dropped(DataL1(n)) => L1Hit(cpu'[n], b, Valid) = {}
           /\ Dropped(InstL1(n)) =>
                \A v \in IWays : cpu'[n].icache[v] # [tag |-> b, status |-> "SHARED"]]_vars

\* No read that is granted EXCLUSIVE meets a write of its block that has
\* already left for the directory (the int3 of cache2mem).
NoInt3 == \A n \in Cpus : "int3" \notin cpu[n].failed

\* A miss that waits for the completion of an external intervention has one
\* to wait for: it is reissued when the intervention is done (cache2mem).
ReissueEnds ==
  \A n \in Cpus, i \in Entries :
    LET e == cpu[n].missq[i] IN
    e.state = "L1_MISS" /\ e.reissue =>
      \E j \in Entries :
        LET f == cpu[n].missq[j] IN External(f) /\ f.state = "MODIFY_L1" /\ f.blk = e.blk
=============================================================================
