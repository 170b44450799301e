----------------------------- MODULE Directory ------------------------------
(***************************************************************************)
(* The L2 slice of a cpu as the home of its blocks: the delayed L2         *)
(* operations of src/cache2mem.c, memory, and what the packets that arrive *)
(* from the network do (home_enter of src/noc.c).                          *)
(***************************************************************************)
EXTENDS CpuState, SequencesExt

\* The way that holds blk, as a set.
L2Hit(st, blk) ==
  {w \in L2Ways : st.dl2[w].tag = blk /\ st.dl2[w].status # "INVALID"}

\* A fresh round of interventions to the caches in directory.
Intervene(e, directory, type, way) ==
  [e EXCEPT !.directory = directory, !.sent = {}, !.acked = {},
            !.intervention_type = type, !.L2_way = way]

\* The requester has the data: the home itself, or a remote cpu.
Answer(st, e) ==
  [e EXCEPT !.state = IF e.cpuid = st.cpuid THEN "REPLACE_L1" ELSE "EXTRDY",
            !.data = TRUE]

-----------------------------------------------------------------------------
(***************************************************************************)
(* scache_probe: the request of entry i, which was req when the probe was  *)
(* issued, looks up the directory.  A miss takes way victim.               *)
(***************************************************************************)
InterventionFor(req, status) ==
  CASE req = "READ_SHD" -> "INTERVENTION_SHD"
    [] req # "READ_SHD" /\ status = "SHARED" -> "INVALIDATE"
    [] req # "READ_SHD" /\ status = "EXCLUSIVE" -> "INTERVENTION_EXC"

scache_miss(st, i, victim) ==
  LET repl == st.dl2[victim]
  IN  [st EXCEPT !.missq[i] =
        [Intervene(@, repl.directory, "INTERVENTION_EXC", victim)
           EXCEPT !.state = "L2_MISS", !.L2_replace = repl.tag]]

DataSharers(directory) == {l1 \in directory : l1[2] = "dcache"}

\* READ_SHD of a SHARED block needs no intervention.  Only data caches are
\* counted for the status.
scache_grant(st, i, way) ==
  LET e == st.missq[i]
      sharers == st.dl2[way].directory \cup {L1Of(e)}
      alone == e.cache = "dcache" /\ Cardinality(DataSharers(sharers)) = 1
      status == IF alone THEN "EXCLUSIVE" ELSE "SHARED"
  IN  [st EXCEPT !.missq[i] = [Answer(st, e) EXCEPT !.local = FALSE, !.wait = 0,
                   !.cache_status = IF e.cache = "icache" THEN @ ELSE status],
                 !.dl2[way].directory = sharers,
                 !.dl2[way].status = status]

scache_modify(st, i, req, way) ==
  LET e == st.missq[i]
      blk == st.dl2[way]
      asked == IF blk.status = "EXCLUSIVE" THEN DataSharers(blk.directory) ELSE blk.directory
      others == asked \ {DataL1(e.cpuid), InstL1(e.cpuid)}
      type == InterventionFor(req, st.dl2[way].status)
  IN  [st EXCEPT !.missq[i] =
        [Intervene(e, others, type, way) EXCEPT
           !.state = "MODIFY_L1", !.wait = 0,
           !.local = @ /\ type = "INVALIDATE" /\ req = "UPGRADE",
           !.cache_status = IF req # "READ_SHD" THEN @
                            ELSE IF others = {} /\ e.cache = "dcache" THEN "EXCLUSIVE"
                            ELSE "SHARED"]]

\* Variant: a requester that the directory still lists is served at once.
Stale_Never(st, i, req, way) == FALSE

\* The directory still lists the cache that asks: its write-back is on the way.
Stale(st, i, req, way) ==
  /\ L1Of(st.missq[i]) \in st.dl2[way].directory
  /\ ~(req = "UPGRADE" /\ st.dl2[way].status = "SHARED")

scache_probe(st, i, req, blk, victim) ==
  IF L2Hit(st, blk) = {} THEN scache_miss(st, i, victim)
  ELSE LET way == CHOOSE w \in L2Hit(st, blk) : TRUE IN
       IF Stale(st, i, req, way)
       THEN [st EXCEPT !.missq[i].wait = 1, !.missq[i].local = FALSE]
       ELSE IF req = "READ_SHD" /\ st.dl2[way].status = "SHARED"
       THEN scache_grant(st, i, way)
       ELSE scache_modify(st, i, req, way)

-----------------------------------------------------------------------------
\* scache_refill: the block of entry i replaces the victim in the L2.
scache_refill(st, i) ==
  LET e == st.missq[i]
      inst == e.cache = "icache"
  IN  [st EXCEPT !.dl2[e.L2_way] = [tag |-> e.blk, directory |-> {L1Of(e)}, dirty |-> FALSE,
                                    status |-> IF inst THEN "SHARED" ELSE "EXCLUSIVE"],
                 !.missq[i] = [Answer(st, e) EXCEPT
                   !.cache_status = IF inst THEN @ ELSE "EXCLUSIVE"]]

\* scache_writeback: the cache l1 no longer contains the block.
scache_writeback(st, l1, req, blk) ==
  [st EXCEPT !.dl2 = [w \in L2Ways |->
     IF w \in L2Hit(st, blk)
     THEN [st.dl2[w] EXCEPT !.directory = @ \ {l1}, !.dirty = @ \/ req = "WRITEBACK"]
     ELSE st.dl2[w]]]

\* Run the events due in this cycle.
RunEvent(st, ev, victim) ==
  CASE ev.fn = "scache_probe" -> scache_probe(st, ev.qid, ev.req, ev.blk, victim)
    [] ev.fn = "scache_refill" -> scache_refill(st, ev.qid)
    [] ev.fn = "scache_writeback" -> scache_writeback(st, ev.l1, ev.req, ev.blk)

eventq_service_events(st, victim) ==
  LET due == Head(st.events)
      ran[k \in 0 .. Len(due)] ==
        IF k = 0 THEN [st EXCEPT !.events = Append(Tail(@), <<>>)]
        ELSE RunEvent(ran[k - 1], due[k], victim)
  IN  ran[Len(due)]

\* check_memq: the accesses in done complete in this cycle.
check_memq(st, done) ==
  [st EXCEPT !.memq = @ \ done,
             !.missq = [i \in Entries |->
               IF [kind |-> "read", qid |-> i] \in done
               THEN [@[i] EXCEPT !.data = TRUE] ELSE @[i]]]

-----------------------------------------------------------------------------
(***************************************************************************)
(* An ack tells in which status an L1 held the block (L1_status).  It      *)
(* counts when that agrees with the L2; otherwise the write-back or the    *)
(* refill of that L1 is still under way, and the intervention is repeated. *)
(* home_enter and lsq_stage have one copy of this each.                    *)
(***************************************************************************)

\* Variant: an ack of a cpu that no longer holds the block counts as well.
Agrees_Always(e, L2_status, L1_status) == TRUE

Agrees(e, L2_status, L1_status) ==
  IF e.intervention_type = "INTERVENTION_SHD" THEN L1_status \in Owning
  ELSE \/ L1_status = L2_status
       \/ /\ e.intervention_type = "INTERVENTION_EXC"
          /\ L2_status = "EXCLUSIVE" /\ L1_status = "MODIFIED"

\* The asserts: the status of an L1 is never above that of the L2, ...
AckAsserts(e, L2_status, L1_status) ==
  \/ e.state = "MODIFY_L1" /\ Agrees(e, L2_status, L1_status)
  \/ /\ L2_status # "INVALID"
     /\ ~(L2_status = "SHARED" /\ L1_status \in Owning)
     /\ e.state = "MODIFY_L1" =>
          CASE e.intervention_type = "INTERVENTION_SHD" -> L2_status # "SHARED"
            [] e.intervention_type = "INVALIDATE" -> L2_status # "EXCLUSIVE"
            [] e.intervention_type = "INTERVENTION_EXC" -> TRUE

ack_received(st, i, l1, L1_status) ==
  LET e == st.missq[i]
      L2_status == st.dl2[e.L2_way].status
      agrees == Agrees(e, L2_status, L1_status)
      written == L1_status = "MODIFIED" /\ e.intervention_type # "INVALIDATE"
  IN  Asserted("ack", AckAsserts(e, L2_status, L1_status),
        [st EXCEPT !.missq[i].acked = IF agrees THEN @ \cup {l1} ELSE @,
                   !.missq[i].sent = IF agrees THEN @ ELSE @ \ {l1},
                   !.dl2[e.L2_way].dirty = @ \/ written])

\* A response: an ack for a round of interventions, or data for a miss.
home_enter_RESP(st, p) ==
  LET e == st.missq[p.qid] IN
  IF \/ e.state = "MODIFY_L1" /\ e.blk = p.blk
     \/ e.state = "L2_MISS" /\ e.L2_replace = p.blk
  THEN ack_received(st, p.qid, L1Of(p), p.cache_status)
  ELSE IF e.state = "READ_L2" /\ e.blk = p.blk
  THEN [st EXCEPT !.missq[p.qid] = [@ EXCEPT !.data = TRUE,
                     !.state = "REPLACE_L1", !.cache_status = p.cache_status]]
  ELSE st

home_enter_WTBK(st, p) ==
  wtbkq_enter(wtbkq_reserve(st), L1Of(p), p.req, p.blk,
              IF p.req = "WRITEBACK" THEN "INVALID" ELSE "UNTOUCHED", FALSE)

\* Requests and interventions take a miss queue entry.
Incoming(p) == [FreeEntry EXCEPT
  !.state = IF p.req \in Interventions THEN "MODIFY_L1" ELSE "L1_MISS",
  !.modify_l1 = p.req \in Interventions,
  !.req = p.req, !.qid = p.qid, !.cpuid = p.cpuid, !.cache = p.cache, !.blk = p.blk]

home_enter(st, p) ==
  CASE p.req \in {"ACK", "ACK_DATA"} -> home_enter_RESP(st, p)
    [] p.req \in {"WRITEBACK", "ELIMINATE"} -> home_enter_WTBK(st, p)
    [] p.req \in {"READ_SHD", "READ_EX", "UPGRADE"} \cup Interventions ->
         missq_enter(st, Incoming(p))

\* The network delivers what the queues have room for: a request leaves the
\* last entry of the miss queue to interventions.
HomeOpen(st, type) ==
  CASE type = "REQ" -> st.missq_num < missq_ifq_size - 1
    [] type = "INVN" -> st.missq_num < missq_ifq_size
    [] type = "WTBK" -> st.wtbkq_num < wtbkq_ifq_size
    [] type = "RESP" -> TRUE
=============================================================================
