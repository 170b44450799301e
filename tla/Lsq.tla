--------------------------------- MODULE Lsq ---------------------------------
(***************************************************************************)
(* The order of accesses in the load/store queue of one cpu: src/lsq.c,    *)
(* and what commit, write back, issue, map and the miss queue do to it.    *)
(*                                                                         *)
(* The cycle of the cpu is cut at the places where the queue is touched;   *)
(* `stage' says which comes next.  The program is open: any access may     *)
(* enter.  So is the rest of the memory system, except that it answers     *)
(* only what was asked, and refills in the order of cache2mem: a           *)
(* replacement, a refill, then no intervention for refill_cycles.  The     *)
(* cache block of an access is one double word here: module Dcache covers  *)
(* refills in parts.                                                       *)
(***************************************************************************)
EXTENDS Integers, FiniteSets

CONSTANTS
  lsq_ifq_size, map_width,
  Bytes,     \* the bytes of a double word
  Accesses,  \* the accesses that may enter: [op, addr, bytes]
  NoAddr,    \* the victim of a replacement that finds an empty way
  refill_cycles,  \* 4 in the code
  Taking     \* what may take a block away: of "replace", "shared", "exclusive"

Slots == 0 .. lsq_ifq_size - 1
NoSlot == -1
Ops == {"load", "store", "move"}
Addrs == {a.addr : a \in Accesses}

LsqAssumption ==
  /\ lsq_ifq_size \in Nat /\ map_width \in 1 .. lsq_ifq_size /\ refill_cycles \in Nat
  /\ \A a \in Accesses : a.op \in Ops /\ a.bytes \subseteq Bytes
  /\ \A a \in Accesses : a.op = "store" => a.bytes # {}  \* get_bytemask
  /\ Taking \subseteq {"replace", "shared", "exclusive"}
ASSUME LsqAssumption

Stages == {"commit", "cache2mem", "dtagcmp", "advance", "issue", "map"}

States == {"ENTER", "ISSUE", "DCACHE", "DTAGCMP", "READCACHE", "WRITEBACK",
           "COMMIT", "DELAY1"}

NoEntry == [state |-> "EMPTY"]

\* struct load_store_queue; byterdy and bytemask are sets of bytes, blk says
\* whether there is a block.  early and lost are history: the access read
\* before an older store to its bytes was known; its block was taken away after
\* it had read and before an older load did.
Entries == [op : Ops, addr : Addrs, bytes : SUBSET Bytes, state : States,
            byterdy : SUBSET Bytes, fetching : BOOLEAN, blk : BOOLEAN,
            ex : BOOLEAN, loadspec : BOOLEAN, early : BOOLEAN, lost : BOOLEAN]

Statuses == {"INVALID", "SHARED", "EXCLUSIVE"}
Requests == {"READ_SHD", "READ_EX"}
NoPacket == [kind |-> "none"]
Packets == {NoPacket} \cup
           [kind : {"replace"}, addr : Addrs \cup {NoAddr}] \cup
           [kind : {"shared", "exclusive"}, addr : Addrs] \cup
           [kind : {"refill"}, addr : Addrs, status : Statuses]

VARIABLES
  stage, n,       \* where the cycle is, and iterations of a stage's loop
  lsq, lsq_head1, lsq_head, lsq_tail, lsq_num,
  lsq_issuei, lsq_dcachei, lsq_dtagcmpi, lsq_missi, lsq_wtbki,
  lsq_refill, dcache_refill, dtagcmp_refill,
  dcachewrite,    \* the store at the head is written in this cycle
  replace_delay, refill_delay,
  dcache,         \* [Addrs -> Statuses]
  wanted,         \* [Addrs -> SUBSET Requests], not answered yet
  refilling       \* {} or the refill that a replacement makes room for

ring == <<lsq, lsq_head1, lsq_head, lsq_tail, lsq_num>>
regs == <<lsq_issuei, lsq_dcachei, lsq_dtagcmpi, lsq_missi, lsq_wtbki>>
packets == <<lsq_refill, dcache_refill, dtagcmp_refill>>
delays == <<replace_delay, refill_delay>>
memory == <<dcache, wanted, refilling>>
vars == <<stage, n, ring, regs, packets, dcachewrite, delays, memory>>

Init ==
  /\ stage = "commit" /\ n = 0
  /\ lsq = [i \in Slots |-> NoEntry]
  /\ lsq_head1 = 0 /\ lsq_head = 0 /\ lsq_tail = 0 /\ lsq_num = 0
  /\ lsq_issuei = NoSlot /\ lsq_dcachei = NoSlot /\ lsq_dtagcmpi = NoSlot
  /\ lsq_missi = NoSlot /\ lsq_wtbki = NoSlot
  /\ lsq_refill = NoPacket /\ dcache_refill = NoPacket /\ dtagcmp_refill = NoPacket
  /\ dcachewrite = FALSE /\ replace_delay = 0 /\ refill_delay = 0
  /\ dcache = [a \in Addrs |-> "INVALID"] /\ wanted = [a \in Addrs |-> {}]
  /\ refilling = {}

------------------------------------------------------------------------------
\* Slots by age, from lsq_head1.
Age(i) == (i - lsq_head1) % lsq_ifq_size
Held == {i \in Slots : lsq[i].state # "EMPTY"}
Older(i) == {j \in Held : Age(j) < Age(i)}
Younger(i) == {j \in Held : Age(j) > Age(i)}
Between(i, j) == Younger(i) \cap Older(j)

In(S) == {i \in Held : lsq[i].state \in S}
Loads(S) == {i \in S : lsq[i].op = "load"}
Stores(S) == {i \in S : lsq[i].op = "store"}

\* The oldest and the youngest slot of a set.
Oldest(S) == IF S = {} THEN NoSlot ELSE CHOOSE i \in S : \A j \in S : Age(i) <= Age(j)
Youngest(S) == IF S = {} THEN NoSlot ELSE CHOOSE i \in S : \A j \in S : Age(j) <= Age(i)

Goto(next) == stage' = next /\ n' = 0

------------------------------------------------------------------------------
\* commit_stage, the recovery from a branch or from a load that was early, and
\* writeback_stage.

Uncommitted == Held \ In({"COMMIT", "DELAY1"})
Committing == Oldest(Uncommitted)
CanCommit == Uncommitted # {} /\ lsq[Committing].state = "WRITEBACK"

\* Variant: a load that was too early retires.
commit_IgnoresEx ==
  /\ stage = "commit" /\ CanCommit
  /\ lsq' = [lsq EXCEPT ![Committing].state = "COMMIT"]
  /\ UNCHANGED <<stage, n, lsq_head1, lsq_head, lsq_tail, lsq_num, regs, packets,
                 dcachewrite, delays, memory>>

commit ==
  /\ stage = "commit" /\ CanCommit /\ ~ lsq[Committing].ex
  /\ lsq' = [lsq EXCEPT ![Committing].state = "COMMIT"]
  /\ UNCHANGED <<stage, n, lsq_head1, lsq_head, lsq_tail, lsq_num, regs, packets,
                 dcachewrite, delays, memory>>

\* Variant: a cancelled access stays in its pipeline register.
Kept_Always(reg, S) == reg

\* A register of the pipeline when the entries of S are cancelled.
Kept(reg, S) == IF reg \in S THEN NoSlot ELSE reg

\* lsq_cancel_one for the entries of S, from the youngest to the oldest, and
\* then writeback_stage: the event of a cancelled access is not valid.
Proceed(S) ==
  LET Keep(reg) == Kept(reg, S)
  IN  /\ lsq' = [i \in Slots |->
           IF i \in S THEN NoEntry
           ELSE IF i = lsq_wtbki /\ i \in Held THEN [lsq[i] EXCEPT !.state = "WRITEBACK"]
           ELSE lsq[i]]
      /\ lsq_num' = lsq_num - Cardinality(S)
      /\ lsq_tail' = IF S = {} THEN lsq_tail ELSE Oldest(S)
      /\ lsq_issuei' = Keep(lsq_issuei) /\ lsq_dcachei' = Keep(lsq_dcachei)
      /\ lsq_dtagcmpi' = Keep(lsq_dtagcmpi) /\ lsq_missi' = Keep(lsq_missi)
      /\ Goto("cache2mem")
      /\ UNCHANGED <<lsq_head1, lsq_head, lsq_wtbki, packets, dcachewrite, delays, memory>>

\* Other instructions and commit_width may hold the next access back.
commit_end == stage = "commit" /\ Proceed({})

pipeline_flush ==
  stage = "commit" /\ CanCommit /\ lsq[Committing].ex /\ Proceed(Uncommitted)

\* A branch may be older than any access that is not committed.
brerr_recover ==
  stage = "commit" /\ \E i \in Uncommitted : Proceed({i} \cup Younger(i))

------------------------------------------------------------------------------
(***************************************************************************)
(* The miss queue, seen from here: it takes the access that lsq_missi      *)
(* offers when it has room, and sends at most one packet.                  *)
(***************************************************************************)

RequestOf(i) == IF lsq[i].op = "load" THEN "READ_SHD" ELSE "READ_EX"

\* A request is in the miss queue until its refill has passed dtagcmp.
RefillsOf(a) ==
  {p \in {dcache_refill, dtagcmp_refill} \cup refilling : p.kind = "refill" /\ p.addr = a}
Pending(a) ==
  wanted[a] \cup {IF p.status = "SHARED" THEN "READ_SHD" ELSE "READ_EX" : p \in RefillsOf(a)}

\* What is wanted after request r for a: it merges with one that covers it, it
\* may turn a read that has not been sent into a write, or it is added.
Merged(a, r) ==
  IF {r, "READ_EX"} \cap Pending(a) # {} THEN {wanted[a]}
  ELSE {wanted[a] \cup {r}} \cup (IF "READ_SHD" \in wanted[a] THEN {{r}} ELSE {})

WantedAfter(taken) ==
  IF ~ taken THEN {wanted}
  ELSE LET a == lsq[lsq_missi].addr
       IN  {[wanted EXCEPT ![a] = m] : m \in Merged(a, RequestOf(lsq_missi))}

Answers(r) == IF r = "READ_SHD" THEN {"SHARED", "EXCLUSIVE"} ELSE {"EXCLUSIVE"}

\* A shared copy of the block itself is the first to be replaced.
Victims(a) ==
  IF dcache[a] = "SHARED" THEN {a}
  ELSE {NoAddr} \cup {v \in Addrs \ {a} : "replace" \in Taking /\ dcache[v] # "INVALID"}

RefillDelay == IF refill_delay > 0 THEN refill_delay - 1 ELSE 0

send_refill(w) ==
  \E p \in refilling :
    /\ lsq_refill' = p /\ refilling' = {}
    /\ wanted' = w /\ refill_delay' = refill_cycles

\* An intervention may find the request for its block unsent, and clears it.
send_intervention(w) ==
  /\ refilling = {} /\ RefillDelay = 0
  /\ \E a \in Addrs, kind \in Taking \ {"replace"} :
       /\ lsq_refill' = [kind |-> kind, addr |-> a]
       /\ wanted' \in {w, [w EXCEPT ![a] = {}]}
  /\ UNCHANGED refilling /\ refill_delay' = RefillDelay

send_replace(w) ==
  /\ refilling = {}
  /\ \E a \in Addrs : \E r \in w[a], v \in Victims(a) : \E status \in Answers(r) :
       /\ lsq_refill' = [kind |-> "replace", addr |-> v]
       /\ refilling' = {[kind |-> "refill", addr |-> a, status |-> status]}
       /\ wanted' = [w EXCEPT ![a] = IF status = "SHARED" THEN @ \ {r} ELSE {}]
  /\ refill_delay' = RefillDelay

send_nothing(w) ==
  /\ wanted' = w /\ refill_delay' = RefillDelay
  /\ UNCHANGED <<lsq_refill, refilling>>

cache2mem ==
  /\ stage = "cache2mem"
  /\ \E taken \in {FALSE, lsq_missi # NoSlot} :
       /\ lsq' = IF taken THEN [lsq EXCEPT ![lsq_missi].fetching = TRUE] ELSE lsq
       /\ lsq_missi' = IF taken THEN NoSlot ELSE lsq_missi
       /\ \E w \in WantedAfter(taken) :
            send_refill(w) \/ send_intervention(w) \/ send_replace(w) \/ send_nothing(w)
  /\ Goto("dtagcmp")
  /\ UNCHANGED <<lsq_head1, lsq_head, lsq_tail, lsq_num, lsq_issuei, lsq_dcachei,
                 lsq_dtagcmpi, lsq_wtbki, dcache_refill, dtagcmp_refill, dcachewrite,
                 replace_delay, dcache>>

------------------------------------------------------------------------------
\* lsq_stage: the access to write back, the miss to offer, the store to write.

FromHead == Held \ In({"DELAY1"})

\* Variant: an access that was chosen to write back may be chosen again.
Ready_Again == {i \in FromHead \ {lsq_wtbki} :
                  /\ lsq[i].state \in {"READCACHE", "WRITEBACK"}
                  /\ lsq[i].op = "load" => lsq[i].byterdy = Bytes}

Ready == {i \in FromHead \ {lsq_wtbki} :
            lsq[i].state = "READCACHE" /\ (lsq[i].op = "load" => lsq[i].byterdy = Bytes)}

cache_miss ==
  {i \in FromHead :
     /\ ~ lsq[i].fetching /\ ~ lsq[i].ex /\ lsq[i].byterdy # Bytes
     /\ \/ lsq[i].op = "load" /\ lsq[i].state = "READCACHE"
        \/ lsq[i].op = "store" /\ lsq[i].state \in {"READCACHE", "WRITEBACK", "COMMIT"}}

HeadIs(op, state) == lsq[lsq_head].state = state /\ lsq[lsq_head].op = op

\* Whether the access that issued has its eye on the same bank.
BankConflict ==
  IF lsq_issuei \notin Loads(Held) THEN {FALSE}
  ELSE IF lsq[lsq_issuei].addr = lsq[lsq_head].addr THEN {TRUE} ELSE BOOLEAN

\* Variant: a store is written while its block is being taken away.
WriteOpen_Always == TRUE

WriteOpen == lsq_refill = NoPacket /\ replace_delay = 0

select_write ==
  IF HeadIs("store", "COMMIT") /\ lsq[lsq_head].byterdy = Bytes
  THEN \E conflict \in BankConflict : dcachewrite' = (WriteOpen /\ ~ conflict)
  ELSE dcachewrite' = FALSE

------------------------------------------------------------------------------
\* lsq_stage: what reaches the tag comparison, a packet or an access.

Known == In({"READCACHE", "WRITEBACK", "COMMIT", "DELAY1"})
Hit(a) == {i \in Known : lsq[i].addr = a}
Unready(e) == Bytes \ e.bytes

\* The entry has lost its block and asks again.
Reask(e) == [e EXCEPT !.byterdy = Unready(e), !.fetching = FALSE, !.blk = FALSE]

\* History: entries that have read the block that goes, before an older load.
Overtaken(a) ==
  {i \in Loads(Hit(a)) \cap In({"WRITEBACK"}) :
     (Older(i) \cap Loads(In({"ENTER", "ISSUE", "DCACHE", "DTAGCMP", "READCACHE"})))
       \ {Oldest(Ready)} # {}}

Speculative(a) == {i \in Loads(Hit(a)) \cap In({"WRITEBACK"}) : lsq[i].loadspec}

\* A packet takes block a away; the entries of `again' have to ask again.
Taken(a, again, gone) ==
  [i \in Slots |->
     LET e == lsq[i]
         f == IF i \in again THEN Reask(e)
              ELSE IF i \in Speculative(a) THEN [e EXCEPT !.ex = TRUE] ELSE e
     IN  IF gone /\ i \in Overtaken(a) THEN [f EXCEPT !.lost = TRUE] ELSE f]

Fetching(S) == {i \in S \cap In({"READCACHE"}) : lsq[i].fetching}

\* History: a load reads when it is chosen for write back; it reads early when
\* the youngest older store to one of its bytes is not known yet.
Misses(i) ==
  \E b \in lsq[i].bytes :
    LET writers == {j \in Stores(Older(i)) : lsq[j].addr = lsq[i].addr /\ b \in lsq[j].bytes}
    IN  writers # {} /\ Youngest(writers) \notin Known

Reading(q, i) ==
  IF i = NoSlot \/ lsq[i].op # "load" THEN q ELSE [q EXCEPT ![i].early = Misses(i)]

\* The part of lsq_stage up to the tag comparison.
Select ==
  /\ stage = "dtagcmp"
  /\ select_write
  /\ Goto("advance")
  /\ UNCHANGED <<lsq_head1, lsq_head, lsq_tail, lsq_num, lsq_issuei, lsq_dcachei,
                 lsq_refill, dcache_refill, delays, memory>>

dtagcmp_packet ==
  /\ Select /\ dtagcmp_refill # NoPacket
  /\ LET p == dtagcmp_refill
         filled == {i \in Hit(p.addr) : lsq[i].op # "move"
                      /\ ~ (lsq[i].op = "store" /\ p.status = "SHARED")}
         after ==
           CASE p.kind = "replace" -> Taken(p.addr, Stores(Hit(p.addr)), TRUE)
             [] p.kind = "refill" ->
                  [i \in Slots |-> IF i \in filled
                     THEN [lsq[i] EXCEPT !.byterdy = Bytes, !.fetching = FALSE, !.blk = TRUE]
                     ELSE lsq[i]]
             [] OTHER -> Taken(p.addr, Stores(Hit(p.addr)) \cup Fetching(Loads(Hit(p.addr))),
                               p.kind = "exclusive")
     IN  /\ lsq_wtbki' = Oldest(Ready)
         /\ lsq' = Reading(after, Oldest(Ready))
         /\ lsq_missi' = IF p.kind = "refill" /\ Oldest(cache_miss) \in filled
                         THEN NoSlot ELSE Oldest(cache_miss)
  /\ dtagcmp_refill' = NoPacket
  /\ UNCHANGED lsq_dtagcmpi

\* Stores that are known to write byte b of the address of i.
Writers(b, i) == {j \in Stores(Hit(lsq[i].addr)) : b \in lsq[j].bytes}

\* Bytes of load i that an older store forwards.
Forwarded(i) == {b \in lsq[i].bytes : Older(i) \cap Writers(b, i) # {}}

\* Bytes that store i forwards to the younger load j: no store between them is
\* known to write them.
Exposed(i, j) ==
  {b \in lsq[i].bytes \cap lsq[j].bytes : Between(i, j) \cap Writers(b, i) = {}}

Receivers(i) == {j \in Younger(i) \cap Loads(Hit(lsq[i].addr)) : Exposed(i, j) # {}}

\* The older load that a load finds not written back.
Unread(i) ==
  Youngest(Older(i) \cap Loads(Held \ In({"WRITEBACK", "COMMIT", "DELAY1"})))

TagChecked(i, forwarded) ==
  [lsq[i] EXCEPT !.state = "READCACHE", !.fetching = FALSE,
                 !.byterdy = IF lsq[i].blk \/ lsq[i].op = "move" THEN Bytes
                             ELSE Unready(lsq[i]) \cup forwarded]

Compared(i, op) ==
  /\ Select /\ dtagcmp_refill = NoPacket
  /\ lsq_dtagcmpi = i /\ lsq[i].op = op
  /\ lsq_dtagcmpi' = NoSlot
  /\ lsq_missi' = Oldest(cache_miss)
  /\ UNCHANGED dtagcmp_refill

\* A load that hits is written back next.
dtagcmp_load(i) ==
  /\ Compared(i, "load")
  /\ LET next == IF ~ lsq[i].ex /\ lsq[i].blk THEN i ELSE Oldest(Ready)
         after == [j \in Slots |->
           IF j = i THEN TagChecked(i, Forwarded(i))
           ELSE IF j = Unread(i) THEN [lsq[j] EXCEPT !.loadspec = TRUE] ELSE lsq[j]]
     IN  lsq_wtbki' = next /\ lsq' = Reading(after, next)

\* Variant: only what has written back has read.
HasRead_WrittenBack(next) == In({"WRITEBACK"})

\* Entries that have read, when `next' is to be written back.
HasRead(next) == In({"WRITEBACK"}) \cup {next}

\* A store finds the younger loads that have read without it.
dtagcmp_store(i) ==
  /\ Compared(i, "store")
  /\ LET next == Oldest(Ready)
         after == [j \in Slots |->
           IF j = i THEN TagChecked(i, {})
           ELSE IF j \in Receivers(i)
           THEN [lsq[j] EXCEPT !.byterdy = @ \cup Exposed(i, j),
                               !.ex = @ \/ j \in HasRead(next)]
           ELSE lsq[j]]
     IN  lsq_wtbki' = next /\ lsq' = Reading(after, next)

dtagcmp_move(i) ==
  /\ Compared(i, "move")
  /\ lsq_wtbki' = Oldest(Ready)
  /\ lsq' = Reading([lsq EXCEPT ![i] = TagChecked(i, {})], Oldest(Ready))

dtagcmp_nothing ==
  /\ Select /\ dtagcmp_refill = NoPacket /\ lsq_dtagcmpi = NoSlot
  /\ lsq_wtbki' = Oldest(Ready) /\ lsq_missi' = Oldest(cache_miss)
  /\ lsq' = Reading(lsq, Oldest(Ready))
  /\ UNCHANGED <<lsq_dtagcmpi, dtagcmp_refill>>

------------------------------------------------------------------------------
\* The rest of lsq_stage: accesses that are done leave, and the pipeline in
\* front of the tag comparison advances.

\* The head that is done, and up to three committed loads behind it.
Passed ==
  LET behind(k) == (lsq_head + k) % lsq_ifq_size
      follows(k) == \A j \in 1 .. k : LET e == lsq[behind(j)] IN
                      e.state = "COMMIT" /\ e.op = "load"
      done == dcachewrite \/ (lsq[lsq_head].state = "COMMIT" /\ lsq[lsq_head].op # "store")
  IN  IF done THEN {lsq_head} \cup {behind(k) : k \in {j \in 1 .. 3 : follows(j)}} ELSE {}

CacheHit(e) ==
  CASE e.op = "load" -> dcache[e.addr] # "INVALID"
    [] e.op = "store" -> dcache[e.addr] = "EXCLUSIVE"
    [] e.op = "move" -> FALSE

Probed(i) == [lsq[i] EXCEPT !.state = "DTAGCMP", !.blk = CacheHit(lsq[i])]

AfterPacket(p) ==
  CASE p.kind = "none" -> dcache
    [] p.kind = "replace" -> [a \in Addrs |-> IF a = p.addr THEN "INVALID" ELSE dcache[a]]
    [] p.kind = "exclusive" -> [dcache EXCEPT ![p.addr] = "INVALID"]
    [] p.kind = "shared" ->
         [dcache EXCEPT ![p.addr] = IF @ = "INVALID" THEN @ ELSE "SHARED"]
    [] p.kind = "refill" -> [dcache EXCEPT ![p.addr] = p.status]

\* dcache to dtagcmp, and memaddr to dcache: packets go first.
advance ==
  /\ stage = "advance"
  /\ LET freed == In({"DELAY1"})
         issues == IF lsq_refill = NoPacket THEN lsq_issuei ELSE NoSlot
     IN  /\ lsq' = [i \in Slots |->
              CASE i \in freed -> NoEntry
                [] i \in Passed -> [lsq[i] EXCEPT !.state = "DELAY1"]
                [] i = lsq_dcachei /\ dcache_refill = NoPacket -> Probed(i)
                [] i = issues -> [lsq[i] EXCEPT !.state = "DCACHE"]
                [] OTHER -> lsq[i]]
         /\ lsq_num' = lsq_num - Cardinality(freed)
         /\ lsq_head1' = (lsq_head1 + Cardinality(freed)) % lsq_ifq_size
         /\ lsq_head' = (lsq_head + Cardinality(Passed)) % lsq_ifq_size
         /\ IF dcache_refill = NoPacket /\ lsq_dcachei # NoSlot
            THEN lsq_dtagcmpi' = lsq_dcachei /\ lsq_dcachei' = issues
            ELSE /\ UNCHANGED lsq_dtagcmpi
                 /\ lsq_dcachei' = IF issues = NoSlot THEN lsq_dcachei ELSE issues
         /\ lsq_issuei' = IF issues = NoSlot THEN lsq_issuei ELSE NoSlot
  /\ dcache' = AfterPacket(dcache_refill)
  /\ replace_delay' = IF dcache_refill.kind \in {"replace", "shared", "exclusive"} THEN 2
                      ELSE IF replace_delay > 0 THEN replace_delay - 1 ELSE 0
  /\ dtagcmp_refill' = dcache_refill
  /\ dcache_refill' = lsq_refill
  /\ lsq_refill' = NoPacket
  /\ dcachewrite' = FALSE
  /\ Goto("issue")
  /\ UNCHANGED <<lsq_tail, lsq_missi, lsq_wtbki, refill_delay, wanted, refilling>>

------------------------------------------------------------------------------
\* issue_stage and map_stage

\* The unit is busy while an access waits for the cache.
lsq_issue ==
  /\ stage = "issue" /\ lsq_issuei = NoSlot
  /\ \E i \in In({"ENTER"}) :
       /\ lsq' = [lsq EXCEPT ![i].state = "ISSUE"]
       /\ lsq_issuei' = i
  /\ Goto("map")
  /\ UNCHANGED <<lsq_head1, lsq_head, lsq_tail, lsq_num, lsq_dcachei, lsq_dtagcmpi,
                 lsq_missi, lsq_wtbki, packets, dcachewrite, delays, memory>>

issue_none ==
  /\ stage = "issue"
  /\ Goto("map")
  /\ UNCHANGED <<ring, regs, packets, dcachewrite, delays, memory>>

\* Variant: one more access than fits.
MapOpen_OneTooMany == lsq_num + map_width <= lsq_ifq_size + 1

MapOpen == lsq_num + map_width <= lsq_ifq_size

lsq_enqueue ==
  /\ stage = "map" /\ n < map_width /\ (n = 0 => MapOpen)
  /\ \E a \in Accesses :
       lsq' = [lsq EXCEPT ![lsq_tail] =
                 [op |-> a.op, addr |-> a.addr, bytes |-> a.bytes, state |-> "ENTER",
                  byterdy |-> {}, fetching |-> FALSE, blk |-> FALSE, ex |-> FALSE,
                  loadspec |-> FALSE, early |-> FALSE, lost |-> FALSE]]
  /\ lsq_num' = lsq_num + 1
  /\ lsq_tail' = (lsq_tail + 1) % lsq_ifq_size
  /\ n' = n + 1
  /\ UNCHANGED <<stage, lsq_head1, lsq_head, regs, packets, dcachewrite, delays, memory>>

map_end ==
  /\ stage = "map"
  /\ Goto("commit")
  /\ UNCHANGED <<ring, regs, packets, dcachewrite, delays, memory>>

------------------------------------------------------------------------------
Next ==
  \/ commit \/ commit_end \/ pipeline_flush \/ brerr_recover
  \/ cache2mem
  \/ dtagcmp_packet \/ dtagcmp_nothing
  \/ \E i \in Slots : dtagcmp_load(i) \/ dtagcmp_store(i) \/ dtagcmp_move(i)
  \/ advance \/ lsq_issue \/ issue_none \/ lsq_enqueue \/ map_end

Spec == Init /\ [][Next]_vars
=============================================================================
