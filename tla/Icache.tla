------------------------------- MODULE Icache -------------------------------
(***************************************************************************)
(* The instruction cache of a cpu: the miss of the fetch stage (irepbuf of *)
(* src/fetch.c, cancelled by tracer_recover of src/decode.c), and          *)
(* replace_block and mark_valid of src/cache.c for it.  No packet passes   *)
(* to it: cache2mem changes it at once, and the fetch stage rests for the  *)
(* cycle (REFILL_STALL).                                                   *)
(***************************************************************************)
EXTENDS Dcache

\* The way that replace_block looks at holds the block.
Found(repl, blk) == repl.tag = blk

\* replace_block: an intervention about blk is answered by an ELIMINATE with
\* the status found; a replacement sends its victim, or frees its slot.
replace_iblock(st, blk, invn) ==
  LET w == Victim(st.icache, blk, st.irepbuf.way)
      repl == st.icache[w]
      Eliminate(b, status) ==
        wtbkq_enter(st, InstL1(st.cpuid), "ELIMINATE", b, status, invn)
      told == IF invn
              THEN Eliminate(blk, IF Found(repl, blk) THEN repl.status ELSE "INVALID")
              ELSE IF repl.status = "INVALID" THEN [st EXCEPT !.wtbkq_num = @ - 1]
              ELSE Eliminate(repl.tag, repl.status)
  IN  [told EXCEPT !.istall = TRUE,
         !.icache[w] = IF invn /\ repl.tag # blk THEN @
                       ELSE [tag |-> blk, status |-> "INVALID"],
         !.icache_refill_blk = IF invn THEN @ ELSE w]

\* A double word arrives, and with the last one the block is valid.
irefill(st, last) ==
  IF ~last THEN [st EXCEPT !.istall = TRUE]
  ELSE [st EXCEPT !.istall = TRUE, !.icache[st.icache_refill_blk].status = "SHARED",
                  !.icache_refill_blk = None, !.irepbuf.state = "EMPTY"]

\* A redirection cancels a miss that the miss queue has not accepted.
tracer_recover(st, redirect) ==
  IF redirect /\ st.irepbuf.state = "MISS" THEN [st EXCEPT !.irepbuf.state = "EMPTY"]
  ELSE st

\* The fetches that may look up the instruction cache now: at most one, and
\* none while a miss is pending.
Fetch(st) ==
  IF st.istall \/ st.irepbuf.state # "EMPTY" THEN {{}}
  ELSE {{}} \cup {{f} : f \in {x \in st.text : \A y \in st.text : x.step <= y.step}}

\* fetch_stage: a fetch that misses leaves its block in irepbuf, where cache2mem
\* finds it a cycle later, with the way to be replaced.
fetch_stage(st, fetch, way) ==
  LET f == CHOOSE x \in fetch : TRUE
      hit == \E w \in IWays : st.icache[w] = [tag |-> f.blk, status |-> "SHARED"]
      fetched == [st EXCEPT !.text = @ \ fetch]
  IN  IF fetch = {} THEN st
      ELSE IF hit THEN fetched
      ELSE [fetched EXCEPT !.irepbuf = [state |-> "MISS", blk |-> f.blk, way |-> way]]
=============================================================================
