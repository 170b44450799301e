------------------------------- MODULE Dcache -------------------------------
(***************************************************************************)
(* The data cache and the load/store queue of a cpu: cache_probe,          *)
(* replace_block and mark_valid of src/cache.c, the interventions of       *)
(* src/cache2mem.c, and lsq_stage of src/lsq.c.                            *)
(*                                                                         *)
(* Abstracted in the load/store queue: accesses are whole double words,    *)
(* issue in program order and are never cancelled; a load leaves when its  *)
(* data is there; a store is committed at any time after it is ready.      *)
(***************************************************************************)
EXTENDS Directory

\* The ways of the data cache that hold blk in a status of S.
L1Hit(st, blk, S) ==
  {w \in L1Ways : st.dcache[w].tag = blk /\ st.dcache[w].status \in S}
Valid == {"SHARED", "DIRTY_SHARED", "EXCLUSIVE", "MODIFIED"}

\* READ_SHD brings the status of the answer, READ_EX and UPGRADE ownership.
NewStatus(r) == IF r.req = "READ_SHD" THEN r.cache_status ELSE "EXCLUSIVE"

-----------------------------------------------------------------------------
(***************************************************************************)
(* cache_probe: the access at lsq[k] looks up the cache; a store that hits *)
(* an EXCLUSIVE block makes it MODIFIED.                                   *)
(***************************************************************************)
Refilling(st, a) ==
  /\ st.refill_blk # None
  /\ st.dcache[st.refill_blk].tag = a.blk
  /\ a.word \in st.refill_bitmap

cache_probe(st, k) ==
  LET a == st.lsq[k]
      hit == L1Hit(st, a.blk, Valid)
      w == CHOOSE v \in hit : TRUE
      store == a.op = "store"
      miss == IF store THEN "READ_EX" ELSE "READ_SHD"
      Result(req, way) == [st EXCEPT !.lsq[k].req = req, !.lsq[k].way = way]
  IN  IF hit # {} THEN
        IF store /\ st.dcache[w].status = "SHARED" THEN Result("UPGRADE", None)
        ELSE IF store /\ st.dcache[w].status = "EXCLUSIVE"
        THEN [Result("NO_REQ", w) EXCEPT !.dcache[w].status = "MODIFIED"]
        ELSE Result("NO_REQ", w)
      ELSE IF Refilling(st, a) THEN
        IF store /\ st.refill_new_status = "SHARED" THEN Result("UPGRADE", None)
        ELSE Result(miss, st.refill_blk)
      ELSE Result(miss, None)

-----------------------------------------------------------------------------
(***************************************************************************)
(* What the refill packet in the dcache stage does to the data cache.      *)
(***************************************************************************)

WritebackKind(status) == IF status = "MODIFIED" THEN "WRITEBACK" ELSE "ELIMINATE"

\* The way replace_block empties: a SHARED copy of the block itself first.
Victim(cache, blk, way) ==
  LET copies == {w \in DOMAIN cache : cache[w] = [tag |-> blk, status |-> "SHARED"]}
  IN  IF copies = {} THEN way ELSE CHOOSE w \in copies : TRUE

\* replace_block, for data: the victim goes to the slot reserved in the write-back
\* queue, or frees it.
replace_block(st, r, way) ==
  LET w == Victim(st.dcache, r.blk, way)
      repl == st.dcache[w]
      evicted ==
        IF repl.status = "INVALID"
        THEN [st EXCEPT !.wtbkq_num = @ - 1, !.replace_blk = NoBlock]
        ELSE [wtbkq_enter(st, DataL1(st.cpuid), WritebackKind(repl.status),
                          repl.tag, repl.status, FALSE)
                EXCEPT !.replace_blk = repl.tag]
  IN  Asserted("replace_block", repl.status # "DIRTY_INVALID",
        [evicted EXCEPT
           !.dcache[w] = [tag |-> r.blk, status |-> "INVALID"],
           !.refill_blk = w, !.refill_bitmap = {},
           !.refill_new_status = NewStatus(r),
           !.dcache_refill.way = w,
           !.replace_delay = 2])

\* Variant: an exclusive intervention leaves a shared copy behind.
Downgraded_Shared(req, status) == "SHARED"

\* The status an intervention leaves the block in.
Downgraded(req, status) ==
  IF req = "INTERVENTION_SHD" THEN "SHARED" ELSE "INVALID"

\* intervention_shared, intervention_exclusive, invalidate.
intervention(st, r) ==
  LET hit == L1Hit(st, r.blk, Valid \cup {"DIRTY_INVALID"})
      w == CHOOSE v \in hit : TRUE
      status == IF hit = {} THEN "INVALID" ELSE st.dcache[w].status
      answer == [st EXCEPT
        !.dcache_refill.way = IF hit = {} THEN None ELSE w,
        !.dcache_refill.cache_status = status,
        !.dcache_refill.ack = IF status = "MODIFIED" /\ r.req # "INVALIDATE"
                              THEN "ACK_DATA" ELSE "ACK",
        !.replace_delay = 2]
  IN  Asserted("invalidate", r.req = "INVALIDATE" => status \notin Owning,
        IF hit = {} THEN answer
        ELSE [answer EXCEPT !.dcache[w].status = Downgraded(r.req, @)])

\* mark_bitmap, and mark_valid on the last double word.
refill(st, r) ==
  LET w == st.refill_blk
      marked == [st EXCEPT !.refill_bitmap = @ \cup {r.word}, !.dcache_refill.way = w]
  IN  IF r.cnt < Dwords THEN marked
      ELSE [marked EXCEPT !.refill_blk = None,
              !.dcache[w].status = IF @ = "DIRTY_INVALID" THEN Dirtied(NewStatus(r))
                                   ELSE NewStatus(r)]

-----------------------------------------------------------------------------
(***************************************************************************)
(* What the packet in the dtagcmp stage does to the load/store queue.      *)
(***************************************************************************)

\* An access that is LSQ_READCACHE or later, and not written yet.
Waits(a) == a.state = "READCACHE"

Update(st, Cond(_), New(_)) ==
  [st EXCEPT !.lsq = [k \in DOMAIN @ |->
     IF Waits(@[k]) /\ Cond(@[k]) THEN New(@[k]) ELSE @[k]]]

\* The access has lost its block and asks again.
Reissue(a, req) ==
  [a EXCEPT !.rdy = FALSE, !.fetching = FALSE, !.way = None, !.req = req]

lsq_replaced(st) ==
  LET Hit(a) == a.op = "store" /\ a.blk = st.replace_blk
      New(a) == Reissue(a, "READ_EX")
  IN  Update(st, Hit, New)

lsq_intervention(st, r) ==
  LET Hit(a) == a.blk = r.blk /\ (a.op = "store" \/ a.fetching)
      kept == r.way # None /\ st.dcache[r.way].status # "INVALID"
      New(a) == Reissue(a, IF a.op = "load" THEN "READ_SHD"
                           ELSE IF kept THEN "UPGRADE" ELSE "READ_EX")
      e == st.missq[r.missqid]
      told == Update(st, Hit, New)
  IN  IF External(e)
      THEN [told EXCEPT !.missq[r.missqid] = [@ EXCEPT
              !.state = "EXTRDY", !.ack = r.ack, !.cache_status = r.cache_status]]
      ELSE IF e.state \in {"MODIFY_L1", "L2_MISS"}
      THEN ack_received(told, r.missqid, DataL1(st.cpuid), r.cache_status)
      ELSE told

lsq_refilled(st, r) ==
  LET Hit(a) == a.blk = r.blk /\ a.word = r.word
      New(a) == IF a.op = "store" /\ NewStatus(r) = "SHARED"
                THEN [a EXCEPT !.req = "UPGRADE"]
                ELSE [a EXCEPT !.rdy = TRUE, !.fetching = FALSE, !.miss = FALSE,
                               !.way = r.way]
  IN  Update(st, Hit, New)

\* A store forwards to the later loads of its double word.
Forwards(a, b) ==
  /\ a.op = "store" /\ a.state \in {"READCACHE", "WRITTEN", "DELAY1"}
  /\ b.op = "load" /\ a.blk = b.blk /\ a.word = b.word

lsq_dtagcmp(st, k) ==
  LET a == [st.lsq[k] EXCEPT !.state = "READCACHE", !.fetching = FALSE]
      q == [st.lsq EXCEPT ![k] = a]
  IN  [st EXCEPT !.lsq = [i \in DOMAIN q |->
         IF i = k THEN [a EXCEPT !.rdy = a.way # None
                                         \/ \E j \in 1 .. k - 1 : Forwards(q[j], a)]
         ELSE IF i > k /\ Waits(q[i]) /\ Forwards(a, q[i])
         THEN [q[i] EXCEPT !.rdy = TRUE]
         ELSE q[i]]]

-----------------------------------------------------------------------------
(***************************************************************************)
(* lsq_stage, in the order of its parts.                                   *)
(***************************************************************************)
Indices(st, Cond(_)) == {k \in DOMAIN st.lsq : Cond(st.lsq[k])}

\* The queue q without the accesses in gone.
Without(q, gone) ==
  LET kept[k \in 0 .. Len(q)] ==
        IF k = 0 THEN <<>>
        ELSE IF q[k] \in gone THEN kept[k - 1] ELSE Append(kept[k - 1], q[k])
  IN  kept[Len(q)]

\* Ready loads go on to write back.
lsq_wtbk(st) ==
  [st EXCEPT !.lsq = Without(@, {a \in Range(@) : Waits(a) /\ a.op = "load" /\ a.rdy})]

\* The oldest miss is offered to the miss queue (lsq_missi).
lsq_miss(st) ==
  LET Missing(a) == Waits(a) /\ ~a.fetching /\ ~a.rdy
      k == IF Indices(st, Missing) = {} THEN None ELSE Min(Indices(st, Missing))
  IN  [st EXCEPT !.lsq = [i \in DOMAIN @ |-> [@[i] EXCEPT !.miss = (i = k)]]]

\* Variant: a store is written while its block is being taken away.
WriteOpen_Always(st) == TRUE

\* No refill, replacement or intervention is in the way of a write.
WriteOpen(st) == st.lsq_refill.kind = "none" /\ st.replace_delay = 0

\* The committed store at the head of the queue may be written.
CanWrite(st) ==
  /\ WriteOpen(st)
  /\ \E k \in DOMAIN st.lsq :
       /\ st.lsq[k].op = "store" /\ Waits(st.lsq[k]) /\ st.lsq[k].rdy
       /\ \A j \in 1 .. k - 1 : st.lsq[j].state = "DELAY1"

\* dcachewrite, if it is chosen: the write marks the block dirty.
dcachewrite(st, write) ==
  LET k == Min(Indices(st, LAMBDA a : a.state # "DELAY1"))
      w == st.lsq[k].way
  IN  IF ~write THEN st
      ELSE IF w = None THEN Asserted("dcachewrite", FALSE, st)
      ELSE [st EXCEPT !.dcache[w].status = Dirtied(@), !.lsq[k].state = "WRITTEN"]

\* dtagcmp to lsq
lsq_from_dtagcmp(st) ==
  LET r == st.dtagcmp_refill
      s == [st EXCEPT !.dtagcmp_refill = NoRefill]
      InDtagcmp(a) == a.state = "DTAGCMP"
  IN  CASE r.kind = "replace" -> lsq_replaced(s)
        [] r.kind = "intervention" -> lsq_intervention(s, r)
        [] r.kind = "refill" -> lsq_refilled(s, r)
        [] r.kind = "none" ->
             IF Indices(st, InDtagcmp) = {} THEN st
             ELSE lsq_dtagcmp(st, Min(Indices(st, InDtagcmp)))

\* Stores written a cycle ago leave; one written now is LSQ_DELAY1.
lsq_commit(st) ==
  LET left == Without(st.lsq, {a \in Range(st.lsq) : a.state = "DELAY1"})
  IN  [st EXCEPT !.lsq = [k \in DOMAIN left |->
         IF left[k].state = "WRITTEN" THEN [left[k] EXCEPT !.state = "DELAY1"]
         ELSE left[k]],
       !.replace_delay = IF @ > 0 THEN @ - 1 ELSE 0]

\* dcache to dtagcmp; a replacement takes way victim.
lsq_from_dcache(st, victim) ==
  LET r == st.dcache_refill
      InDcache(a) == a.state = "DCACHE"
      k == Min(Indices(st, InDcache))
      s == CASE r.kind = "replace" -> replace_block(st, r, victim)
             [] r.kind = "intervention" -> intervention(st, r)
             [] r.kind = "refill" -> refill(st, r)
             [] r.kind = "none" -> st
  IN  IF r.kind # "none"
      THEN [s EXCEPT !.dtagcmp_refill = s.dcache_refill, !.dcache_refill = NoRefill]
      ELSE IF Indices(st, InDcache) = {} THEN st
      ELSE [cache_probe(st, k) EXCEPT !.lsq[k].state = "DTAGCMP"]

\* memaddr to dcache: the refill packet, or else the next access, if any.
lsq_from_memaddr(st, issue) ==
  IF st.lsq_refill.kind # "none"
  THEN [st EXCEPT !.dcache_refill = st.lsq_refill, !.lsq_refill = NoRefill]
  ELSE [st EXCEPT !.todo = @ \ issue,
                  !.lsq = @ \o SetToSeq({LsqEntry(a) : a \in issue})]

\* The accesses that may enter now: at most one.
Issue(st) ==
  IF st.lsq_refill.kind # "none" \/ Len(st.lsq) >= lsq_ifq_size THEN {{}}
  ELSE {{}} \cup {{a} : a \in {x \in st.todo : \A y \in st.todo : x.step <= y.step}}

lsq_stage(st, write, victim, issue) ==
  lsq_from_memaddr(
    lsq_from_dcache(
      lsq_commit(lsq_from_dtagcmp(dcachewrite(lsq_miss(lsq_wtbk(st)), write))),
      victim),
    issue)
=============================================================================
