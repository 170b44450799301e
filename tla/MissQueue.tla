----------------------------- MODULE MissQueue ------------------------------
(***************************************************************************)
(* cache2mem of src/cache2mem.c: one cycle of the miss queue and of the    *)
(* write-back queue of a cpu.  Each part of the function is an operator;   *)
(* cache2mem composes them in the order of the code.                       *)
(*                                                                         *)
(* At the start the code picks one entry of every state, round robin; the  *)
(* record p holds any such choice, None where no entry is in the state.     *)
(***************************************************************************)
EXTENDS Icache

InState(st, s) == {i \in Entries : st.missq[i].state = s}
Candidates(st, s) == IF InState(st, s) = {} THEN {None} ELSE InState(st, s)
Picks(st) ==
  {[L1_MISS |-> i1, READ_L2 |-> i2, MODIFY_L1 |-> i3, REPLACE_L1 |-> i4,
    EXTRDY |-> i5, L2_MISS |-> i6, MEMREF |-> i7, REFILL_L2 |-> i8] :
     i1 \in Candidates(st, "L1_MISS"), i2 \in Candidates(st, "READ_L2"),
     i3 \in Candidates(st, "MODIFY_L1"), i4 \in Candidates(st, "REPLACE_L1"),
     i5 \in Candidates(st, "EXTRDY"), i6 \in Candidates(st, "L2_MISS"),
     i7 \in Candidates(st, "MEMREF"), i8 \in Candidates(st, "REFILL_L2")}

\* An entry of this cpu's own misses.
Own(st, i) == st.missq[i].state # "EMPTY" /\ st.missq[i].cpuid = st.cpuid

-----------------------------------------------------------------------------
(***************************************************************************)
(* The miss that lsq offers enters the queue, or joins an entry of the     *)
(* same block.  A write joins a read that is already issued by following   *)
(* it as an UPGRADE.                                                       *)
(***************************************************************************)
accept_miss(st) ==
  LET k == Min({j \in DOMAIN st.lsq : st.lsq[j].miss})
      a == st.lsq[k]
      same == {i \in Entries : /\ Own(st, i) /\ st.missq[i].cache = "dcache"
                               /\ st.missq[i].blk = a.blk}
      reads == {i \in same : /\ Issued(st.missq[i]) /\ st.missq[i].req = "READ_SHD"
                             /\ a.req \in Writes}
      \* the scan stops at the first other entry
      last == IF same = reads THEN None ELSE Min(same \ reads)
      upgrade == \E i \in reads : last = None \/ i < last
      req == IF upgrade THEN "UPGRADE" ELSE a.req
      joined == last # None /\ st.missq[last].req \in Writes
      promoted == /\ last # None /\ req = "READ_EX"
                  /\ st.missq[last].state = "L1_MISS"
                  /\ st.missq[last].req = "READ_SHD"
      taken == [st EXCEPT !.lsq[k] = [@ EXCEPT !.req = req, !.fetching = TRUE,
                                               !.miss = FALSE]]
  IN  IF last = None \/ (upgrade /\ ~joined)
      THEN missq_enter(taken, [FreeEntry EXCEPT !.state = "L1_MISS",
             !.req = req, !.cpuid = st.cpuid, !.blk = a.blk, !.word = a.word])
      ELSE IF promoted THEN [taken EXCEPT !.missq[last].req = "READ_EX"]
      ELSE taken

\* The miss of the fetch stage enters.
accept_imiss(st) ==
  [missq_enter(st, [FreeEntry EXCEPT !.state = "L1_MISS", !.req = "READ_SHD",
                      !.cpuid = st.cpuid, !.cache = "icache", !.blk = st.irepbuf.blk])
     EXCEPT !.irepbuf.state = "REFILL"]

\* Own misses leave two entries for requests and interventions; those of
\* lsq go first.
receive_miss(st) ==
  IF st.missq_num >= missq_ifq_size - 2 THEN st
  ELSE IF \E k \in DOMAIN st.lsq : st.lsq[k].miss THEN accept_miss(st)
  ELSE IF st.irepbuf.state = "MISS" THEN accept_imiss(st)
  ELSE st

SameSet(e, f) == Owner[e.blk] = Owner[f.blk]

\* Another request of the set is under way, or a read that an UPGRADE follows.
Blocked(st, i) ==
  LET e == st.missq[i] IN
  \E j \in Entries \ {i} :
    LET f == st.missq[j] IN
    \/ f.state # "EMPTY" /\ Issued(f) /\ SameSet(e, f)
    \/ /\ Own(st, i) /\ Own(st, j) /\ e.blk = f.blk
       /\ e.req = "UPGRADE" /\ f.req = "READ_SHD"

\* A request is issued to the local L2, after L2_delay, or to its home.
issue_miss(st, i) ==
  LET e == st.missq[i]
      home == Owner[e.blk]
      local == home = st.cpuid
      issued == [st EXCEPT !.missq[i].state = "READ_L2", !.missq[i].local = local]
  IN  IF i = None \/ e.reissue \/ Blocked(st, i) THEN st
      ELSE IF local
      THEN Schedule(issued, [fn |-> "scache_probe", qid |-> i, req |-> e.req, blk |-> e.blk])
      ELSE IF Room(st, "REQ")
      THEN noc_request(issued, "REQ", home, e.req, "UNTOUCHED", i, e.blk, e.cache)
      ELSE st

\* The write-back that a stale request waited for has arrived.
reprobe(st, i, victim) ==
  IF i # None /\ st.missq[i].wait = 2
  THEN scache_probe(st, i, st.missq[i].req, st.missq[i].blk, victim) ELSE st

-----------------------------------------------------------------------------
(***************************************************************************)
(* MQ_MODIFY_L1.                                                           *)
(***************************************************************************)

\* Variant: a miss that has been issued is found, too.
NotIssued_Any(st, i) ==
  {j \in Entries \ {i} : Own(st, j) /\ st.missq[j].blk = st.missq[i].blk}

\* The misses of the block of entry i that are not issued yet.
NotIssued(st, i) ==
  {j \in Entries \ {i} : /\ st.missq[j].state = "L1_MISS"
                         /\ st.missq[j].blk = st.missq[i].blk}

\* They wait for the outcome of an intervention from outside.
check_conflict(st, i) ==
  LET found == NotIssued(st, i)
  IN  IF st.missq[i].conflict_checked THEN st
      ELSE [st EXCEPT !.missq = [j \in Entries |->
             IF j = i THEN [@[j] EXCEPT !.conflict_checked = TRUE,
               !.invn_match = IF found = {} THEN {} ELSE {Min(found), Max(found)}]
             ELSE IF j \in found THEN [@[j] EXCEPT !.reissue = TRUE]
             ELSE @[j]]]

\* The slots that hold a write-back of the block of entry i by the same cache.
Conflicting(st, i) ==
  {j \in Slots : /\ st.wtbkq[j].valid /\ st.wtbkq[j].blk = st.missq[i].blk
                 /\ st.wtbkq[j].cache = st.missq[i].cache}
AnsweredByWtbkq(st, i) == ~st.missq[i].wtbkq_checked /\ Conflicting(st, i) # {}

\* A write-back that has not left yet answers the intervention.  It is
\* cancelled, but not when a shared intervention meets an owner's.
check_wtbkq(st, i) ==
  LET j == Min(Conflicting(st, i))
      w == st.wtbkq[j]
      kept == st.missq[i].req = "INTERVENTION_SHD" /\ w.cache_status \in Owning
      answered == [st EXCEPT !.missq[i] = [@ EXCEPT
        !.ack = IF w.req = "WRITEBACK" THEN "ACK_DATA" ELSE "ACK",
        !.cache_status = w.cache_status, !.state = "EXTRDY", !.wtbkq_checked = TRUE]]
  IN  IF ~AnsweredByWtbkq(st, i) THEN [st EXCEPT !.missq[i].wtbkq_checked = TRUE]
      ELSE IF kept THEN answered
      ELSE wtbkq_leave(answered, j)

\* One intervention a cycle to the remote caches in the entry's directory, in
\* the order of the cpus and to data caches first.  Instruction caches are
\* told of a block only while it is SHARED.
intervene(st, i, type, blk) ==
  LET e == st.missq[i]
      shared == st.dl2[e.L2_way].status = "SHARED"
      targets == {l1 \in e.directory \ e.sent :
                    l1[1] # st.cpuid /\ (shared \/ l1[2] = "dcache")}
      n == Min({l1[1] : l1 \in targets})
      first == IF DataL1(n) \in targets THEN DataL1(n) ELSE InstL1(n)
  IN  IF targets = {} \/ ~Room(st, "INVN") THEN st
      ELSE [noc_request(st, "INVN", n, type, "UNTOUCHED", i, blk, first[2])
              EXCEPT !.missq[i].sent = @ \cup {first}]

AllAcked(e) == e.directory \subseteq e.acked /\ e.sent = e.acked

\* Variant: a shared grant drops the other sharers from the directory.
GrantedTo_Alone(e) == {L1Of(e)}

\* The directory after the grant.
GrantedTo(e) == IF e.req = "READ_SHD" THEN e.directory \cup {L1Of(e)} ELSE {DataL1(e.cpuid)}

grant(st, i) ==
  LET e == st.missq[i]
  IN  [st EXCEPT !.dl2[e.L2_way] = [@ EXCEPT
                   !.directory = GrantedTo(e),
                   !.status = IF e.req = "READ_SHD" THEN e.cache_status ELSE "EXCLUSIVE"],
                 !.missq[i] = Answer(st, e)]

modify_L1(st, i) ==
  IF i = None THEN st
  ELSE IF External(st.missq[i]) THEN check_wtbkq(check_conflict(st, i), i)
  ELSE LET s == intervene(st, i, st.missq[i].intervention_type, st.missq[i].blk)
       IN  IF AllAcked(s.missq[i]) THEN grant(s, i) ELSE s

-----------------------------------------------------------------------------
(***************************************************************************)
(* MQ_L2_MISS, MQ_MEMREF, MQ_REFILL_L2: empty the victim's L1 copies and   *)
(* read memory; write the victim back; refill.                             *)
(***************************************************************************)
L2_miss(st, i) ==
  LET e == st.missq[i]
      s == IF st.dl2[e.L2_way].status = "INVALID" THEN st
           ELSE intervene(st, i, "INTERVENTION_EXC", e.L2_replace)
      ask == ~e.memread_sent /\ MemqOpen(s)
      asked == IF ask THEN [memq_enter(s, "read", i) EXCEPT !.missq[i].memread_sent = TRUE]
               ELSE s
  IN  IF i = None THEN st
      ELSE IF AllAcked(asked.missq[i]) /\ asked.missq[i].memread_sent
      THEN missq_change_state(asked, i, "MEMREF")
      ELSE asked

memref(st, i) ==
  IF i = None \/ ~st.missq[i].data THEN st
  ELSE [st EXCEPT !.missq[i] = [@ EXCEPT !.state = "REFILL_L2",
          !.scache_refilled = FALSE, !.memwrite_sent = FALSE]]

refill_L2(st, i) ==
  LET e == st.missq[i] IN
  IF i = None THEN st
  ELSE IF st.dl2[e.L2_way].dirty /\ ~e.memwrite_sent
  THEN IF MemqOpen(st)
       THEN [memq_enter(st, "write", i) EXCEPT !.missq[i].memwrite_sent = TRUE]
       ELSE st
  ELSE IF e.scache_refilled THEN st
  ELSE Schedule([st EXCEPT !.missq[i].scache_refilled = TRUE],
                [fn |-> "scache_refill", qid |-> i])

-----------------------------------------------------------------------------
(***************************************************************************)
(* The write-back queue: the first valid slot is issued.                   *)
(***************************************************************************)

\* Entries of this home that a write-back of blk must not overtake.
Meets(e, blk) == \/ e.state \in {"MODIFY_L1", "READ_L2"} /\ e.blk = blk
                 \/ e.state = "L2_MISS" /\ e.L2_replace = blk

\* Write-back w meets a round of interventions: it is the ack of the local
\* instruction cache, or says that a cache has dropped the block.
acked_by_wtbkq(st, w, i) ==
  IF ~w.intervention THEN [st EXCEPT !.missq[i].directory = @ \ {L1Of(w)}]
  ELSE IF w.cache_status = "SHARED" THEN [st EXCEPT !.missq[i].acked = @ \cup {L1Of(w)}]
  ELSE Asserted("ack of the icache", w.cache_status = "INVALID",
         [st EXCEPT !.missq[i].sent = @ \ {L1Of(w)}])

\* Write-back w of slot j meets request i of the block in the miss queue.
wtbk_meets(st, w, j, i) ==
  LET e == st.missq[i]
      woken == [st EXCEPT !.missq[i].wait = IF e.cpuid = w.cpuid THEN 2 ELSE @]
  IN  IF e.state # "READ_L2" THEN wtbkq_leave(acked_by_wtbkq(st, w, i), j)
      ELSE IF e.local THEN st
      ELSE IF e.wait = 0 THEN Asserted("writeback meets READ_L2", FALSE, st)
      ELSE wtbkq_leave(scache_writeback(woken, L1Of(w), w.req, w.blk), j)

\* The answer of the instruction cache to an intervention from outside.
wtbkq_answers(st, w) ==
  LET asking == {i \in Entries : /\ st.missq[i].state = "MODIFY_L1"
                                 /\ st.missq[i].blk = w.blk}
  IN  Asserted("found", asking # {},
        [st EXCEPT !.missq = [i \in Entries |->
           IF i \in asking
           THEN [@[i] EXCEPT !.state = "EXTRDY", !.cache_status = w.cache_status,
                   !.ack = IF w.cache_status = "MODIFIED" THEN "ACK_DATA" ELSE "ACK"]
           ELSE @[i]]])

\* No probe of the local L2 is under way or starts in this cycle (port).
WtbkOpen(st, port) ==
  ~port /\ \A i \in Entries : ~(st.missq[i].state = "READ_L2" /\ st.missq[i].local)

issue_wtbk(st, port) ==
  LET valid == {j \in Slots : st.wtbkq[j].valid}
      j == Min(valid)
      w == st.wtbkq[j]
      met == {i \in Entries : Meets(st.missq[i], w.blk)}
      \* the entries in the order of the queue
      passed[i \in 0 .. missq_ifq_size] ==
        IF i = 0 THEN st
        ELSE IF i - 1 \in met THEN wtbk_meets(passed[i - 1], w, j, i - 1)
        ELSE passed[i - 1]
  IN  IF valid = {} THEN st
      ELSE IF Owner[w.blk] # st.cpuid
      THEN IF w.intervention THEN wtbkq_leave(wtbkq_answers(st, w), j)
           ELSE IF Room(st, "WTBK")
           THEN noc_request(wtbkq_leave(st, j), "WTBK", Owner[w.blk], w.req,
                            "UNTOUCHED", j, w.blk, w.cache)
           ELSE st
      ELSE IF met # {} THEN passed[missq_ifq_size]
      ELSE IF ~WtbkOpen(st, port) THEN st
      ELSE Schedule(wtbkq_leave(st, j),
                    [fn |-> "scache_writeback", l1 |-> L1Of(w), req |-> w.req,
                     blk |-> w.blk])

\* An answer leaves for the cpu that asked, and its entry is free.
extrdy(st, i) ==
  LET e == st.missq[i]
      kind == IF External(e) THEN e.ack ELSE "ACK_DATA"
  IN  IF i = None THEN st
      ELSE Asserted("extrdy", kind # "NO_REQ",
             IF Room(st, "RESP")
             THEN noc_request(missq_leave(st, i), "RESP", e.cpuid, kind,
                              e.cache_status, e.qid, e.blk, e.cache)
             ELSE st)

-----------------------------------------------------------------------------
(***************************************************************************)
(* The refill bus to the L1: one of a refill in progress, an intervention  *)
(* from outside, one of this home, a replacement, an L2 replacement.       *)
(***************************************************************************)

\* k-th double word in critical word first order: k ^ word.
RefillWord(word, k) ==
  2 * (((k \div 2) + (word \div 2)) % 2) + ((k + word) % 2)

bus_refill(st) ==
  LET i == st.refilli
      e == st.missq[i]
      last == e.cachecnt + 1 >= Dwords
      packet == [NoRefill EXCEPT !.kind = "refill", !.blk = e.blk,
                   !.word = RefillWord(e.word, e.cachecnt), !.cnt = e.cachecnt + 1,
                   !.req = e.req, !.cache_status = e.cache_status]
      passed == IF e.cache = "icache" THEN irefill(st, last)
                ELSE [st EXCEPT !.lsq_refill = packet]
      sent == [passed EXCEPT !.missq[i].cachecnt = @ + 1]
  IN  IF ~last THEN sent
      ELSE [missq_change_state(sent, i, "DELAY1")
              EXCEPT !.refilltag = FALSE, !.refill_delay = 4]

\* Interventions of entry i that its own cpu has not seen.
ToOwnL1(st, i) ==
  IF i = None THEN {}
  ELSE {l1 \in st.missq[i].directory \ st.missq[i].sent : l1[1] = st.cpuid}

InterventionPacket(req, blk, i) ==
  [NoRefill EXCEPT !.kind = "intervention", !.req = req, !.blk = blk, !.missqid = i]

\* An intervention from outside to the instruction cache: it is answered
\* through the write-back queue.  The own misses of the block found when the
\* intervention came are freed, in whatever state they are by now.
bus_external_inst(st, i) ==
  LET s == replace_iblock(wtbkq_reserve(st), st.missq[i].blk, TRUE)
      matches == st.missq[i].invn_match
  IN  [s EXCEPT !.missq_num = @ - Cardinality(matches),
         !.missq = [j \in Entries |-> IF j = i THEN [@[j] EXCEPT !.modify_l1 = FALSE]
                                     ELSE IF j \in matches THEN FreeEntry ELSE @[j]]]

\* To the data cache: own misses of the block that are not issued go away,
\* lsq will ask again.  exit_missq: check_wtbkq has answered the intervention
\* in this cycle.
bus_external(st, i, exit_missq) ==
  LET e == st.missq[i] IN
  IF st.refill_delay > 0 \/ exit_missq THEN st
  ELSE IF e.cache = "icache" THEN bus_external_inst(st, i)
  ELSE [st EXCEPT
    !.missq = [j \in Entries |->
      IF j = i THEN [@[j] EXCEPT !.modify_l1 = FALSE]
      ELSE IF j \in e.invn_match /\ @[j].state = "L1_MISS" /\ @[j].blk = e.blk
      THEN [@[j] EXCEPT !.state = "DELAY1"]
      ELSE @[j]],
    !.lsq_refill = InterventionPacket(e.req, e.blk, i)]

\* An intervention this home sends to its own L1 about blk, to the
\* instruction cache first.
bus_local(st, i, blk) ==
  IF InstL1(st.cpuid) \in ToOwnL1(st, i)
  THEN replace_iblock([wtbkq_reserve(st) EXCEPT !.missq[i].sent = @ \cup {InstL1(st.cpuid)}],
                      blk, TRUE)
  ELSE IF st.refill_delay > 0 THEN st
  ELSE [st EXCEPT !.missq[i].sent = @ \cup {DataL1(st.cpuid)},
          !.lsq_refill = InterventionPacket(st.missq[i].intervention_type, blk, i)]

\* A replacement starts a refill; a slot of the write-back queue is reserved.
\* A read that is granted EXCLUSIVE serves the waiting writes of the block.
bus_replace(st, i) ==
  LET e == st.missq[i]
      inst == e.cache = "icache"
      exclusive == ~inst /\ e.req = "READ_SHD" /\ e.cache_status = "EXCLUSIVE"
      served == IF exclusive
                THEN {j \in Entries \ {i} : Own(st, j) /\ st.missq[j].blk = e.blk}
                ELSE {}
      packet == [NoRefill EXCEPT !.kind = "replace", !.blk = e.blk, !.req = e.req,
                                 !.cache_status = e.cache_status]
      replaced == IF inst THEN replace_iblock(wtbkq_reserve(st), e.blk, FALSE)
                  ELSE [wtbkq_reserve(st) EXCEPT !.lsq_refill = packet]
  IN  Asserted("int3",
        \A j \in served : st.missq[j].req \in Writes /\ st.missq[j].state = "L1_MISS",
        [replaced EXCEPT !.refilltag = TRUE, !.refilli = i,
           !.missq_num = @ - Cardinality(served),
           !.missq = [j \in Entries |->
             IF j = i THEN [st.missq[j] EXCEPT !.state = "REFILL_L1",
                              !.req = IF exclusive THEN "READ_EX" ELSE @]
             ELSE IF j \in served THEN FreeEntry ELSE st.missq[j]]])

\* Everything but a refill waits for room in the write-back queue, and for
\* the miss that was refilled last.
BusOpen(two_empty, delayed) == two_empty /\ ~delayed

refill_bus(st, p, two_empty, delayed, exit_missq) ==
  LET m == p.MODIFY_L1  r == p.REPLACE_L1  l == p.L2_MISS
      s == [st EXCEPT !.refill_delay = IF @ > 0 THEN @ - 1 ELSE 0]
      open == BusOpen(two_empty, delayed)
  IN  IF s.refilltag THEN bus_refill(s)
      ELSE IF ~open THEN s
      ELSE IF m # None /\ External(s.missq[m]) /\ s.missq[m].modify_l1
      THEN bus_external(s, m, exit_missq)
      ELSE IF ToOwnL1(s, m) # {} THEN bus_local(s, m, s.missq[m].blk)
      ELSE IF r # None THEN bus_replace(s, r)
      ELSE IF ToOwnL1(s, l) # {} /\ s.dl2[s.missq[l].L2_way].status # "INVALID"
      THEN bus_local(s, l, s.missq[l].L2_replace)
      ELSE s

\* A refilled entry stays three cycles, while the data passes the pipeline.
delay(st) ==
  LET gone == InState(st, "DELAY3") IN
  [st EXCEPT !.missq_num = @ - Cardinality(gone),
     !.missq = [i \in Entries |->
       CASE @[i].state = "DELAY3" -> FreeEntry
         [] @[i].state = "DELAY2" -> [@[i] EXCEPT !.state = "DELAY3"]
         [] @[i].state = "DELAY1" -> [@[i] EXCEPT !.state = "DELAY2"]
         [] OTHER -> @[i]]]

cache2mem(st, p, victim) ==
  LET s1 == issue_miss(receive_miss(st), p.L1_MISS)
      port == p.L1_MISS # None /\ s1.events # st.events
      s2 == reprobe(s1, p.READ_L2, victim)
      exit_missq == /\ p.MODIFY_L1 # None
                    /\ External(s2.missq[p.MODIFY_L1]) /\ AnsweredByWtbkq(s2, p.MODIFY_L1)
      s3 == modify_L1(s2, p.MODIFY_L1)
      s4 == refill_L2(memref(L2_miss(s3, p.L2_MISS), p.MEMREF), p.REFILL_L2)
      two_empty == s4.wtbkq_num < wtbkq_ifq_size - 1
      s5 == extrdy(issue_wtbk(s4, port), p.EXTRDY)
      delayed == InState(st, "DELAY1") # {}
  IN  delay(refill_bus(s5, p, two_empty, delayed, exit_missq))
=============================================================================
