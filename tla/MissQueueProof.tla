--------------------------- MODULE MissQueueProof ---------------------------
(***************************************************************************)
(* The memory side of one cpu keeps an invariant: the miss queue, the      *)
(* write-back queue, the L2 with its directory, the events in flight, and  *)
(* what the cpu sends.  The invariant speaks of the other cpus through v:  *)
(* which of their interventions ask this cpu, and which of its own are     *)
(* under way.  Every step of cache2mem up to the refill of an L1 is here;  *)
(* CoherenceProof has the rest and puts the cpus together.                 *)
(***************************************************************************)
EXTENDS MissQueue, Rings, FiniteSetTheorems, SequenceTheorems, WellFoundedInduction, TLAPS

\* The fields of an entry of the miss queue.
EntryFields ==
  {"state", "req", "ack", "cpuid", "cache", "qid", "blk", "word", "cache_status",
   "directory", "sent", "acked", "intervention_type", "L2_way", "L2_replace",
   "cachecnt", "data", "reissue", "wait", "local", "invn_match", "modify_l1",
   "wtbkq_checked", "conflict_checked", "memread_sent", "memwrite_sent",
   "scache_refilled"}

\* What a cpu asks a home for, what an intervention is answered with, and
\* what the write-back queue sends.
Requests == {"READ_SHD", "READ_EX", "UPGRADE"}
Acks == {"ACK", "ACK_DATA"}
Writebacks == {"WRITEBACK", "ELIMINATE"}

\* The L1 that a block belongs to.
CacheOf(b, T) == IF b \in T THEN "icache" ELSE "dcache"

\* The states of a miss at a cpu that is not the home of its block.
RemoteStates == {"L1_MISS", "READ_L2", "REPLACE_L1", "REFILL_L1", "DELAY1", "DELAY2", "DELAY3"}

\* Entry e is a request that cpu n, its home, is serving.
Serves(n, e) == Issued(e) /\ Owner[e.blk] = n
\* Entry e is asking caches for a block, and l1 has not answered yet.
Round(e) == e.state \in {"MODIFY_L1", "L2_MISS"} /\ ~External(e)
Pending(e, l1) == Round(e) /\ l1 \in e.sent /\ l1 \notin e.acked
\* The block a round is about.
Target(e) == IF e.state = "L2_MISS" THEN e.L2_replace ELSE e.blk

\* An intervention from outside: it is one that its home has under way
\* (v.asked), and no other of that home to the same cache is in a channel
\* (v.others).
AskOK(n, e, v) ==
  /\ Owner[e.blk] = e.cpuid /\ e.cpuid # n
  /\ e.state \in {"MODIFY_L1", "EXTRDY"}
  /\ e.directory = {}
  /\ e.state = "EXTRDY" => e.ack \in Acks
  /\ <<e.cpuid, e.cache, e.qid>> \in v.asked
  /\ <<e.cpuid, e.cache>> \notin v.others

\* A request: at another cpu than its home it is that cpu's own miss.
OwnOK(n, e) ==
  /\ Owner[e.blk] # n => e.cpuid = n /\ e.state \in RemoteStates /\ e.wait = 0
  /\ e.cache = "icache" => e.req = "READ_SHD"
  /\ e.state = "EXTRDY" => e.cpuid # n
  /\ e.state = "L1_MISS" => e.wait = 0
  /\ e.state = "READ_L2" /\ e.wait # 0 => ~e.local

\* An entry is free, an intervention from outside or a request; text goes to
\* instruction caches and data to data caches.
EntryOK(n, e, v) ==
  /\ DOMAIN e = EntryFields
  /\ e.state = "EMPTY" => ~External(e)
  /\ e.state # "EMPTY" =>
       /\ e.blk \in Blocks /\ e.cpuid \in Cpus /\ (e.cpuid # n => e.qid \in Entries)
       /\ e.cache = CacheOf(e.blk, v.text)
       /\ e.req \in Requests \cup Interventions
       /\ e.invn_match \subseteq Entries
       /\ IF External(e) THEN AskOK(n, e, v) ELSE OwnOK(n, e)

\* The caches that may hold block b.
DirectoryOK(D, b, T) == D \subseteq Cpus \X {CacheOf(b, T)}

\* A round is about the L2 block it has looked up, and only a cache that was
\* asked has answered.
RoundOK(n, e, dl2, v) ==
  Round(e) =>
    /\ e.L2_way \in L2Ways /\ dl2[e.L2_way].tag = Target(e)
    /\ DirectoryOK(e.directory, Target(e), v.text)
    /\ \A l1 \in e.acked : l1[1] # n => l1 \in e.sent
    /\ e.state = "MODIFY_L1" =>
         /\ e.intervention_type \in Interventions
         /\ e.req = "READ_SHD" => e.cache_status \in {"SHARED", "EXCLUSIVE"}

\* The home serves one request at a time: issue_miss lets no other of the
\* same home go.
OneServed(n, q) ==
  \A i, j \in Entries : Serves(n, q[i]) /\ Serves(n, q[j]) => i = j

\* The entries in use.
Occupied(q) == {i \in Entries : q[i].state # "EMPTY"}

L2Fields == {"tag", "status", "directory", "dirty"}
\* An L2 block of cpu n.
L2OK(n, b, T) ==
  /\ DOMAIN b = L2Fields
  /\ b.status \in {"INVALID", "SHARED", "EXCLUSIVE"}
  /\ DirectoryOK(b.directory, b.tag, T)
  /\ b.status # "INVALID" => b.tag \in Blocks
  /\ b.tag \in Blocks => Owner[b.tag] = n

\* s is a sequence.
IsSeq(s) == s \in Seq({s[k] : k \in DOMAIN s})

\* An event that is due for a request, and what the request waits for.
Due(x) == x.fn # "scache_writeback"
Awaits(n, e, x) ==
  /\ Serves(n, e) /\ ~External(e)
  /\ x.fn = "scache_probe" => e.state = "READ_L2" /\ e.local /\ x.req = e.req /\ x.blk = e.blk
  /\ x.fn = "scache_refill" => e.state = "REFILL_L2" /\ e.scache_refilled
\* Events are due for requests that wait for them, ...
EventOK(n, q, x) ==
  /\ x.fn \in {"scache_probe", "scache_refill", "scache_writeback"}
  /\ Due(x) => x.qid \in Entries /\ Awaits(n, q[x.qid], x)

\* ... within L2_delay cycles, ...
EventsShape(ev) ==
  /\ IsSeq(ev) /\ Len(ev) = L2_delay
  /\ \A k \in 1 .. L2_delay : IsSeq(ev[k])
\* ... and at most one is due for requests.
OneDue(ev) ==
  \A k1, k2 \in 1 .. L2_delay : \A m1 \in DOMAIN ev[k1], m2 \in DOMAIN ev[k2] :
    Due(ev[k1][m1]) /\ Due(ev[k2][m2]) => k1 = k2 /\ m1 = m2
EventsOK(n, q, ev) ==
  \A k \in 1 .. L2_delay : \A m \in DOMAIN ev[k] : EventOK(n, q, ev[k][m])

InstAsks(e) == External(e) /\ e.cache = "icache" /\ e.modify_l1
\* What check_conflict has found for an intervention to the instruction
\* cache is still there and waits (invn_match, wait_for_reissue).
MatchOK(q) ==
  \A i, j \in Entries : InstAsks(q[i]) /\ j \in q[i].invn_match =>
    j # i /\ q[j].state = "L1_MISS" /\ q[j].reissue /\ q[j].blk = q[i].blk

SameAsk(e, h, c) == External(e) /\ e.cpuid = h /\ e.cache = c
\* A home has one intervention to each cache in the queue.
OneAsks(q) ==
  \A i, j \in Entries : External(q[i]) /\ SameAsk(q[j], q[i].cpuid, q[i].cache) => i = j

\* Every intervention of this home that is under way (v.sent) is one its
\* round waits for.
SentOK(n, q, v) ==
  \A t \in v.sent : t[2] \in Entries /\ t[1][1] # n /\ Pending(q[t[2]], t[1])

\* A packet of type t from s to d.
PacketOK(t, s, d, p, T) ==
  /\ p.cpuid = s
  /\ t # "WTBK" =>
       /\ s # d /\ p.blk \in Blocks /\ p.qid \in Entries /\ p.cache = CacheOf(p.blk, T)
       /\ t = "REQ" => /\ p.req \in Requests /\ Owner[p.blk] = d
                       /\ p.cache = "icache" => p.req = "READ_SHD"
       /\ t = "INVN" => p.req \in Interventions /\ Owner[p.blk] = s
       /\ t = "RESP" => p.req \in Acks /\ Owner[p.blk] \in {s, d}
  /\ t = "WTBK" => p.req \in Writebacks

\* What a cpu has sent in a cycle: packets, ...
OutShape(out) ==
  /\ DOMAIN out = Types
  /\ \A t \in Types : DOMAIN out[t] = Cpus /\ \A d \in Cpus : IsSeq(out[t][d])
OutTyped(n, out, v) ==
  \A t \in Types, d \in Cpus : \A k \in DOMAIN out[t][d] : PacketOK(t, n, d, out[t][d][k], v.text)
\* ... interventions of its rounds, one to each cache, that are not under
\* way yet, ...
InvnsOut(q, out, v) ==
  \A d \in Cpus : \A k \in DOMAIN out["INVN"][d] :
    LET p == out["INVN"][d][k] IN
    /\ Pending(q[p.qid], <<d, p.cache>>)
    /\ \A t \in v.sent : t[1] # <<d, p.cache>>
    /\ \A m \in DOMAIN out["INVN"][d] : out["INVN"][d][m].cache = p.cache => m = k
\* ... and answers to interventions that have left its queue.
RespsOut(q, out, v) ==
  \A d \in Cpus : \A k \in DOMAIN out["RESP"][d] :
    LET p == out["RESP"][d][k] IN
    Owner[p.blk] = d =>
      /\ <<d, p.cache, p.qid>> \in v.asked /\ <<d, p.cache>> \notin v.others
      /\ \A i \in Entries : ~SameAsk(q[i], d, p.cache)
      /\ \A m \in DOMAIN out["RESP"][d] :
           Owner[out["RESP"][d][m].blk] = d /\ out["RESP"][d][m].cache = p.cache => m = k

\* An entry that keeps its part in the protocol, or ends it, while it stays.
Calm(n, e, f, v) ==
  /\ EntryOK(n, f, v) /\ e.state # "EMPTY" /\ f.state # "EMPTY"
  /\ f.blk = e.blk /\ f.cpuid = e.cpuid /\ f.cache = e.cache
  /\ External(f) <=> External(e)
  /\ InstAsks(f) => InstAsks(e) /\ f.invn_match = e.invn_match
  /\ e.state = "L1_MISS" /\ e.reissue /\ e.cache = "icache" => f.state = "L1_MISS" /\ f.reissue
KeepsServed(n, e, f) == Issued(f) => Issued(e) \/ Owner[e.blk] # n
KeepsPending(n, e, f) == \A l1 : l1[1] # n /\ Pending(e, l1) => Pending(f, l1)
Quiet(n, e, f, v) == Calm(n, e, f, v) /\ KeepsServed(n, e, f) /\ KeepsPending(n, e, f)

\* An entry that an event may be due for, and how it stays so.
Awaited(n, e) ==
  /\ Serves(n, e) /\ ~External(e)
  /\ \/ e.state = "READ_L2" /\ e.local
     \/ e.state = "REFILL_L2" /\ e.scache_refilled
KeepsAwait(n, e, f) ==
  Awaited(n, e) =>
    /\ f.state = e.state /\ f.req = e.req /\ f.blk = e.blk
    /\ e.state = "READ_L2" => f.local
    /\ e.state = "REFILL_L2" => f.scache_refilled

\* A flag.
On(flag) == flag

\* The part of the invariant about the entries of cpu n, their number and
\* the L2.
Core(n, q, num, dl2, tag, ri, v) ==
  /\ n \in Cpus /\ n = v.self /\ DOMAIN q = Entries /\ num = Cardinality(Occupied(q))
  /\ DOMAIN dl2 = L2Ways /\ \A w \in L2Ways : L2OK(n, dl2[w], v.text)
  /\ \A i \in Entries : EntryOK(n, q[i], v)
  /\ \A i \in Entries : RoundOK(n, q[i], dl2, v)
  /\ OneServed(n, q)
  /\ On(tag) => ri \in Entries /\ q[ri].state = "REFILL_L1"
  /\ MatchOK(q) /\ OneAsks(q) /\ SentOK(n, q, v)

Evs(n, q, ev) == EventsShape(ev) /\ OneDue(ev) /\ EventsOK(n, q, ev)

Outs(n, q, out, v) ==
  OutShape(out) /\ OutTyped(n, out, v) /\ InvnsOut(q, out, v) /\ RespsOut(q, out, v)

MissOK(n, q, num, dl2, ev, tag, ri, out, v) ==
  Core(n, q, num, dl2, tag, ri, v) /\ Evs(n, q, ev) /\ Outs(n, q, out, v)

\* ---- write-back queue
SlotFields == {"valid", "cpuid", "cache", "req", "blk", "cache_status", "intervention"}
\* A slot of the write-back queue.
SlotOK(n, w) ==
  /\ DOMAIN w = SlotFields /\ w.valid \in BOOLEAN
  /\ w.valid => w.req \in Writebacks /\ (w.intervention = TRUE => w.cpuid = n)
\* The slots counted for replacements on their way to the data cache.
Held(k1, k2) == (IF k1 = "replace" THEN 1 ELSE 0) + (IF k2 = "replace" THEN 1 ELSE 0)
ValidSlots(wq) == {j \in Slots : wq[j].valid}
\* h slots are counted for write-backs that have not entered.
SlotsIn(n, wq, num, next, h) ==
  /\ DOMAIN wq = Slots /\ \A j \in Slots : SlotOK(n, wq[j])
  /\ num = Cardinality(ValidSlots(wq)) + h /\ num <= wtbkq_ifq_size
  /\ next \in Slots
SlotsOK(n, wq, num, next, k1, k2) == SlotsIn(n, wq, num, next, Held(k1, k2))

\* ---- load/store queue and refill packets
LsqFields == {"state", "op", "blk", "word", "req", "way", "rdy", "fetching", "miss"}
\* An access to data.
AccessOK(a, v) ==
  /\ DOMAIN a = LsqFields
  /\ a.blk \in Blocks /\ a.blk \notin v.text
  /\ a.req \in Requests \cup {"NO_REQ"}
  /\ a.state = "READCACHE" /\ a.req = "NO_REQ" => a.rdy
  /\ a.state = "DTAGCMP" /\ a.req = "NO_REQ" => a.way # None
  /\ a.miss => a.req # "NO_REQ" /\ a.state # "DCACHE"
RefillFields == {"kind", "blk", "word", "cnt", "req", "cache_status", "ack", "missqid", "way"}
\* A packet on its way to the data cache.
PassedOK(r) ==
  /\ DOMAIN r = RefillFields
  /\ r.kind \in {"none", "refill", "replace", "intervention"}
  /\ r.kind = "intervention" => r.missqid \in Entries
\* The load/store queue, what is still to be issued and fetched, and the
\* packets in the pipeline.
LsqOK(lsq, todo, text, irep, r1, r2, r3, v) ==
  /\ IsSeq(lsq) /\ \A k \in DOMAIN lsq : AccessOK(lsq[k], v)
  /\ \A a \in todo : a.blk \in Blocks /\ a.blk \notin v.text
  /\ \A a \in text : a.blk \in Blocks /\ a.blk \in v.text
  /\ DOMAIN irep = {"state", "blk", "way"}
  /\ irep.state = "MISS" => irep.blk \in Blocks /\ irep.blk \in v.text
  /\ PassedOK(r1) /\ PassedOK(r2) /\ PassedOK(r3)
  /\ r3.kind = "intervention" => r3.ack \in Acks

\* The fields of a cpu.
CpuFields ==
  {"cpuid", "todo", "text", "missq", "missq_num", "wtbkq", "wtbkq_num", "wtbkq_replacei",
   "memq", "events", "dl2", "dcache", "icache", "irepbuf", "icache_refill_blk",
   "refill_blk", "refill_bitmap", "refill_new_status", "replace_blk", "refilltag",
   "refilli", "refill_delay", "replace_delay", "lsq", "lsq_refill", "dcache_refill",
   "dtagcmp_refill", "out", "room", "failed", "istall"}

\* The parts of st that the write-back queue and the load/store queue take up.
WPart(st) == <<st.cpuid, st.wtbkq, st.wtbkq_num, st.wtbkq_replacei, st.lsq_refill, st.dcache_refill>>
LPart(st) == <<st.lsq, st.todo, st.text, st.irepbuf, st.lsq_refill, st.dcache_refill,
               st.dtagcmp_refill>>
MPart(st) == <<st.cpuid, st.missq, st.missq_num, st.dl2, st.events, st.refilltag,
               st.refilli, st.out>>

\* The invariant of cpu st, whose surroundings are v: who asks it, and what
\* it has under way.
M(st, v) == MissOK(st.cpuid, st.missq, st.missq_num, st.dl2, st.events, st.refilltag,
                   st.refilli, st.out, v)
W(st) == SlotsOK(st.cpuid, st.wtbkq, st.wtbkq_num, st.wtbkq_replacei, st.lsq_refill.kind,
                 st.dcache_refill.kind)
L(st, v) == LsqOK(st.lsq, st.todo, st.text, st.irepbuf, st.lsq_refill, st.dcache_refill,
                  st.dtagcmp_refill, v)
Good(st, v) == DOMAIN st = CpuFields /\ M(st, v) /\ W(st) /\ L(st, v)

-----------------------------------------------------------------------------
(***************************************************************************)
(* The entries of the miss queue.                                          *)
(***************************************************************************)

\* The entries of the miss queue, and any of them, can be counted.
LEMMA EntriesFinite ==
  /\ IsFiniteSet(Entries) /\ missq_ifq_size \in Nat
  /\ \A S \in SUBSET Entries : IsFiniteSet(S) /\ Cardinality(S) \in Nat
<1>1. IsFiniteSet(0 .. missq_ifq_size - 1)
  BY FS_Interval, SizesAssumption
<1>2. IsFiniteSet(Entries)  BY <1>1 DEF Entries
<1>3. QED  BY <1>2, FS_Subset, FS_CardinalityType, SizesAssumption

\* A free entry takes no part.
LEMMA Free ==
  ASSUME NEW n, NEW v, NEW dl2
  PROVE  /\ FreeEntry.state = "EMPTY" /\ FreeEntry.req = "NO_REQ" /\ EntryOK(n, FreeEntry, v)
         /\ ~Serves(n, FreeEntry) /\ ~External(FreeEntry) /\ ~Round(FreeEntry)
         /\ RoundOK(n, FreeEntry, dl2, v) /\ ~InstAsks(FreeEntry)
         /\ \A l1 : ~Pending(FreeEntry, l1)
<1>1. FreeEntry.state = "EMPTY" /\ FreeEntry.req = "NO_REQ" /\ EntryOK(n, FreeEntry, v)
  BY DEF FreeEntry, EntryOK, EntryFields, External, Interventions
<1>2. QED
  BY <1>1 DEF Serves, Issued, External, Interventions, Round, Pending, RoundOK, InstAsks

\* The entries outside G change quietly and those of G are freed.
LEMMA CoreStep ==
  ASSUME NEW n, NEW v, NEW q, NEW r, NEW num, NEW dl2, NEW dl2b, NEW tag, NEW ri,
         NEW tagb, NEW rib, NEW G \in SUBSET Entries,
         Core(n, q, num, dl2, tag, ri, v), DOMAIN r = Entries,
         \A i \in Entries \ G : r[i] = q[i] \/ Calm(n, q[i], r[i], v),
         \A i \in G : r[i] = FreeEntry /\ q[i].state # "EMPTY",
         OneServed(n, r), SentOK(n, r, v),
         \A i \in Entries \ G : \A j \in G : InstAsks(r[i]) => j \notin r[i].invn_match,
         DOMAIN dl2b = L2Ways, \A w \in L2Ways : L2OK(n, dl2b[w], v.text),
         \A i \in Entries \ G : RoundOK(n, r[i], dl2b, v),
         On(tagb) => rib \in Entries /\ r[rib].state = "REFILL_L1"
  PROVE  Core(n, r, num - Cardinality(G), dl2b, tagb, rib, v)
<1> DEFINE U == Entries \ G
<1>a. /\ n \in Cpus /\ DOMAIN q = Entries /\ num = Cardinality(Occupied(q))
      /\ \A i \in Entries : EntryOK(n, q[i], v)
      /\ MatchOK(q) /\ OneAsks(q)
  BY DEF Core
<1>0. /\ FreeEntry.state = "EMPTY" /\ EntryOK(n, FreeEntry, v) 
      /\ ~External(FreeEntry) /\ ~InstAsks(FreeEntry) /\ RoundOK(n, FreeEntry, dl2b, v)
      /\ \A l1 : ~Pending(FreeEntry, l1)
  BY Free
<1>1. num - Cardinality(G) = Cardinality(Occupied(r))
  <2>1. \A i \in U : q[i].state # "EMPTY" <=> r[i].state # "EMPTY"
    BY DEF Calm
  <2>2. \A i \in G : q[i].state # "EMPTY" /\ r[i].state = "EMPTY"
    BY <1>0
  <2>3. Occupied(r) = Occupied(q) \ G /\ Occupied(q) \cap G = G
    BY <2>1, <2>2 DEF Occupied
  <2>4. IsFiniteSet(Occupied(q)) /\ IsFiniteSet(G)
    BY EntriesFinite DEF Occupied
  <2>5. QED  BY <1>a, <2>3, <2>4, FS_Difference, FS_CardinalityType
<1>2. \A i \in Entries : EntryOK(n, r[i], v)
  BY <1>a, <1>0 DEF Calm
<1>3. \A i \in Entries : RoundOK(n, r[i], dl2b, v)
  BY <1>0
<1>7. MatchOK(r)
  <2> SUFFICES ASSUME NEW i \in Entries, NEW j \in Entries, InstAsks(r[i]), j \in r[i].invn_match
               PROVE  j # i /\ r[j].state = "L1_MISS" /\ r[j].reissue /\ r[j].blk = r[i].blk
    BY DEF MatchOK
  <2>1. i \notin G /\ j \notin G  BY <1>0
  <2>2. InstAsks(q[i]) /\ r[i].invn_match = q[i].invn_match /\ r[i].blk = q[i].blk
    BY <2>1 DEF Calm
  <2>3. j # i /\ q[j].state = "L1_MISS" /\ q[j].reissue /\ q[j].blk = q[i].blk
    BY <1>a, <2>2 DEF MatchOK
  <2>4. q[j].cache = "icache"
    <3>0. q[i].state # "EMPTY" /\ q[i].cache = "icache"  BY <1>a, <2>2 DEF InstAsks, EntryOK
    <3>1. q[i].cache = CacheOf(q[i].blk, v.text) /\ q[j].cache = CacheOf(q[j].blk, v.text)
      BY <1>a, <2>3, <3>0 DEF EntryOK
    <3>2. QED  BY <2>3, <3>0, <3>1
  <2>5. r[j].state = "L1_MISS" /\ r[j].reissue /\ r[j].blk = q[j].blk
    BY <2>1, <2>3, <2>4 DEF Calm
  <2>6. QED  BY <2>2, <2>3, <2>5
<1>8. OneAsks(r)
  <2>1. \A i \in Entries : External(r[i]) =>
          External(q[i]) /\ r[i].cpuid = q[i].cpuid /\ r[i].cache = q[i].cache
    BY <1>0 DEF Calm
  <2>2. QED  BY <1>a, <2>1 DEF OneAsks, SameAsk
<1>10. QED
  BY <1>a, <1>1, <1>2, <1>3, <1>7, <1>8 DEF Core

\* The events in flight stay due while what they wait for stays.
LEMMA EvStep ==
  ASSUME NEW n, NEW q, NEW r, NEW ev, Evs(n, q, ev),
         \A i \in Entries : r[i] = q[i] \/ KeepsAwait(n, q[i], r[i])
  PROVE  Evs(n, r, ev)
<1> SUFFICES EventsOK(n, r, ev)  BY DEF Evs
<1> SUFFICES ASSUME NEW k \in 1 .. L2_delay, NEW m \in DOMAIN ev[k] PROVE EventOK(n, r, ev[k][m])
  BY DEF EventsOK
<1> DEFINE x == ev[k][m]  e == q[x.qid]  f == r[x.qid]
<1>1. EventOK(n, q, x)  BY DEF Evs, EventsOK
<1>2. SUFFICES ASSUME Due(x) PROVE Awaits(n, f, x)  BY <1>1 DEF EventOK
<1>3. x.qid \in Entries /\ Awaits(n, e, x) /\ x.fn \in {"scache_probe", "scache_refill"}
  BY <1>1, <1>2 DEF EventOK, Due
<1>4. CASE f = e  BY <1>3, <1>4
<1>5. CASE KeepsAwait(n, e, f)
  <2>1. Awaited(n, e)  BY <1>3 DEF Awaits, Awaited
  <2>2. /\ f.state = e.state /\ f.req = e.req /\ f.blk = e.blk
        /\ e.state = "READ_L2" => f.local
        /\ e.state = "REFILL_L2" => f.scache_refilled
    BY <1>5, <2>1 DEF KeepsAwait
  <2>3. Serves(n, f) /\ ~External(f)  BY <2>1, <2>2 DEF Awaited, Serves, Issued, External
  <2>4. QED  BY <1>3, <2>2, <2>3 DEF Awaits
<1>6. QED  BY <1>3, <1>4, <1>5

\* What was sent in this cycle stays accounted for while no round ends.
LEMMA OutStep ==
  ASSUME NEW n, NEW q, NEW r, NEW out, NEW v, Outs(n, q, out, v),
         \A i \in Entries : \A l1 : l1[1] # n /\ Pending(q[i], l1) => Pending(r[i], l1),
         \A i \in Entries : External(r[i]) =>
           External(q[i]) /\ r[i].cpuid = q[i].cpuid /\ r[i].cache = q[i].cache
  PROVE  Outs(n, r, out, v)
<1>1. InvnsOut(r, out, v)
  <2> SUFFICES ASSUME NEW d \in Cpus, NEW k \in DOMAIN out["INVN"][d]
               PROVE  Pending(r[out["INVN"][d][k].qid], <<d, out["INVN"][d][k].cache>>)
    BY DEF InvnsOut, Outs
  <2> DEFINE p == out["INVN"][d][k]
  <2>1. p.qid \in Entries /\ n # d  BY DEF Outs, OutTyped, PacketOK, Types
  <2>2. Pending(q[p.qid], <<d, p.cache>>)  BY DEF Outs, InvnsOut
  <2>3. <<d, p.cache>>[1] # n  BY <2>1
  <2>4. QED  BY <2>1, <2>2, <2>3
<1>2. RespsOut(r, out, v)
  <2>1. \A i \in Entries : \A h, c : SameAsk(r[i], h, c) => SameAsk(q[i], h, c)  BY DEF SameAsk
  <2>2. QED  BY <2>1 DEF RespsOut, Outs
<1>3. QED  BY <1>1, <1>2 DEF Outs

\* All entries change quietly, those of G are freed.
LEMMA CalmStep ==
  ASSUME NEW n, NEW v, NEW q, NEW r, NEW num, NEW dl2, NEW dl2b, NEW tag, NEW ri,
         NEW tagb, NEW rib, NEW out, NEW G \in SUBSET Entries,
         Core(n, q, num, dl2, tag, ri, v), Outs(n, q, out, v), DOMAIN r = Entries,
         \A i \in Entries \ G : r[i] = q[i] \/ Quiet(n, q[i], r[i], v),
         \A i \in G : /\ r[i] = FreeEntry /\ q[i].state # "EMPTY"
                      /\ \A l1 : l1[1] # n => ~Pending(q[i], l1),
         \A i \in Entries \ G : \A j \in G : InstAsks(r[i]) => j \notin r[i].invn_match,
         DOMAIN dl2b = L2Ways, \A w \in L2Ways : L2OK(n, dl2b[w], v.text),
         \A i \in Entries \ G : RoundOK(n, r[i], dl2b, v),
         On(tagb) => rib \in Entries /\ r[rib].state = "REFILL_L1"
  PROVE  Core(n, r, num - Cardinality(G), dl2b, tagb, rib, v) /\ Outs(n, r, out, v)
<1>0. /\ ~External(FreeEntry) /\ ~Serves(n, FreeEntry)
      /\ \A l1 : ~Pending(FreeEntry, l1)
  BY Free
<1>k. \A i \in Entries : \A l1 : l1[1] # n /\ Pending(q[i], l1) => Pending(r[i], l1)
  BY DEF Quiet, KeepsPending
<1>1. Core(n, r, num - Cardinality(G), dl2b, tagb, rib, v)
  <2>1. SentOK(n, r, v)  BY <1>k DEF Core, SentOK
  <2>2. OneServed(n, r)
    <3>1. \A i \in Entries : Serves(n, r[i]) => Serves(n, q[i])
      BY <1>0 DEF Quiet, Calm, KeepsServed, Serves
    <3>2. OneServed(n, q)  BY DEF Core
    <3>3. QED  BY <3>1, <3>2 DEF OneServed
  <2>3. \A i \in Entries \ G : r[i] = q[i] \/ Calm(n, q[i], r[i], v)  BY DEF Quiet
  <2>4. QED  BY <2>1, <2>2, <2>3, CoreStep
<1>3. Outs(n, r, out, v)
  <2>2. \A i \in Entries : External(r[i]) =>
          External(q[i]) /\ r[i].cpuid = q[i].cpuid /\ r[i].cache = q[i].cache
    BY <1>0 DEF Quiet, Calm
  <2>4. QED  BY <1>k, <2>2, OutStep
<1>4. QED  BY <1>1, <1>3

\* A round looks only at the tags of the L2.
LEMMA RoundKept ==
  ASSUME NEW n, NEW v, NEW e, NEW f, NEW dl2, NEW dl2b, RoundOK(n, e, dl2, v),
         \A w \in L2Ways : dl2b[w].tag = dl2[w].tag,
         Round(f) =>
           /\ f.state = e.state /\ Round(e) /\ f.blk = e.blk /\ f.req = e.req /\ f.L2_way = e.L2_way
           /\ f.L2_replace = e.L2_replace /\ f.intervention_type = e.intervention_type
           /\ f.cache_status = e.cache_status /\ f.directory \subseteq e.directory
           /\ \A l1 \in f.acked : l1[1] # n => l1 \in f.sent
  PROVE  RoundOK(n, f, dl2b, v)
<1> SUFFICES ASSUME Round(f) PROVE RoundOK(n, f, dl2b, v)  BY DEF RoundOK
<1>1. Target(f) = Target(e)  BY DEF Target
<1>2. DirectoryOK(f.directory, Target(f), v.text)  BY <1>1 DEF RoundOK, DirectoryOK
<1>3. QED  BY <1>1, <1>2 DEF RoundOK

\* One entry changes quietly; the L2 keeps its tags.
LEMMA OneStep ==
  ASSUME NEW n, NEW v, NEW q, NEW num, NEW dl2, NEW dl2b, NEW tag, NEW ri,
         NEW tagb, NEW rib, NEW out, NEW i \in Entries, NEW f,
         Core(n, q, num, dl2, tag, ri, v), Outs(n, q, out, v),
         Quiet(n, q[i], f, v), RoundOK(n, f, dl2b, v),
         DOMAIN dl2b = L2Ways, \A w \in L2Ways : L2OK(n, dl2b[w], v.text),
         \/ \A w \in L2Ways : dl2b[w].tag = dl2[w].tag
         \/ \A j \in Entries \ {i} : ~Round(q[j]),
         \/ tagb = tag /\ rib = ri /\ (q[i].state = "REFILL_L1" => f.state = "REFILL_L1")
         \/ ~On(tagb)
         \/ rib = i /\ f.state = "REFILL_L1"
  PROVE  LET r == [q EXCEPT ![i] = f]
         IN  Core(n, r, num, dl2b, tagb, rib, v) /\ Outs(n, r, out, v)
<1> DEFINE r == [q EXCEPT ![i] = f]
<1>a. /\ DOMAIN q = Entries /\ num = Cardinality(Occupied(q))
      /\ \A j \in Entries : RoundOK(n, q[j], dl2, v)
      /\ On(tag) => ri \in Entries /\ q[ri].state = "REFILL_L1"
  BY DEF Core
<1>0. DOMAIN r = Entries /\ r[i] = f /\ \A j \in Entries \ {i} : r[j] = q[j]
  BY <1>a
<1>1. num - Cardinality({}) = num
  BY <1>a, EntriesFinite, FS_EmptySet DEF Occupied
<1>2. \A j \in Entries : RoundOK(n, r[j], dl2b, v)
  <2> SUFFICES ASSUME NEW j \in Entries, j # i PROVE RoundOK(n, q[j], dl2b, v)  BY <1>0
  <2>1. CASE Round(q[j])  BY <1>a, <2>1, RoundKept DEF RoundOK
  <2>2. CASE ~Round(q[j])  BY <2>2 DEF RoundOK
  <2>3. QED  BY <2>1, <2>2
<1>3. On(tagb) => rib \in Entries /\ r[rib].state = "REFILL_L1"
  BY <1>a, <1>0
<1> HIDE DEF r
<1>4. Core(n, r, num - Cardinality({}), dl2b, tagb, rib, v) /\ Outs(n, r, out, v)
  BY <1>0, <1>2, <1>3, CalmStep
<1>5. QED  BY <1>1, <1>4 DEF r

\* ... and no event is due for it, or it still is what the event is due for.
LEMMA OneKept ==
  ASSUME NEW n, NEW v, NEW q, NEW num, NEW dl2, NEW dl2b, NEW ev, NEW tag, NEW ri,
         NEW tagb, NEW rib, NEW out, NEW i \in Entries, NEW f,
         MissOK(n, q, num, dl2, ev, tag, ri, out, v),
         Quiet(n, q[i], f, v), KeepsAwait(n, q[i], f), RoundOK(n, f, dl2b, v),
         DOMAIN dl2b = L2Ways, \A w \in L2Ways : L2OK(n, dl2b[w], v.text),
         \/ \A w \in L2Ways : dl2b[w].tag = dl2[w].tag
         \/ \A j \in Entries \ {i} : ~Round(q[j]),
         \/ tagb = tag /\ rib = ri /\ (q[i].state = "REFILL_L1" => f.state = "REFILL_L1")
         \/ ~On(tagb)
         \/ rib = i /\ f.state = "REFILL_L1"
  PROVE  MissOK(n, [q EXCEPT ![i] = f], num, dl2b, ev, tagb, rib, out, v)
<1> DEFINE r == [q EXCEPT ![i] = f]
<1>0. Core(n, q, num, dl2, tag, ri, v) /\ Outs(n, q, out, v) /\ Evs(n, q, ev)  BY DEF MissOK
<1>1. Core(n, r, num, dl2b, tagb, rib, v) /\ Outs(n, r, out, v)
  BY <1>0, OneStep
<1>2. Evs(n, r, ev)
  <2>1. DOMAIN q = Entries  BY <1>0 DEF Core
  <2>2. \A j \in Entries : r[j] = q[j] \/ KeepsAwait(n, q[j], r[j])  BY <2>1
  <2> HIDE DEF r
  <2>3. QED  BY <1>0, <2>2, EvStep
<1>3. QED  BY <1>1, <1>2 DEF MissOK

\* The least number of a set is in it ...
LEMMA LeastIn ==
  ASSUME NEW T \in SUBSET Nat, T # {}
  PROVE  Min(T) \in T /\ \A y \in T : Min(T) <= y
BY LeastNat DEF Min

\* ... and so is the greatest entry.
LEMMA GreatestEntry ==
  ASSUME NEW T \in SUBSET Entries, T # {}
  PROVE  Max(T) \in T
<1> DEFINE U == {missq_ifq_size - x : x \in T}
<1>0. missq_ifq_size \in Nat  BY EntriesFinite
<1>1. U \in SUBSET Nat /\ U # {}
  <2>1. \A x \in T : x \in 0 .. missq_ifq_size - 1  BY DEF Entries
  <2>2. \A x \in T : missq_ifq_size - x \in Nat  BY <1>0, <2>1
  <2>3. QED  BY <2>2
<1>2. Min(U) \in U /\ \A y \in U : Min(U) <= y
  <2> HIDE DEF U
  <2> QED  BY <1>1, LeastIn
<1>3. PICK x \in T : Min(U) = missq_ifq_size - x  BY <1>2
<1>4. \A y \in T : x >= y
  <2> SUFFICES ASSUME NEW y \in T PROVE x >= y  OBVIOUS
  <2>1. missq_ifq_size - y \in U  OBVIOUS
  <2>2. missq_ifq_size - x <= missq_ifq_size - y  BY <1>2, <1>3, <2>1
  <2>3. QED  BY <1>0, <2>2 DEF Entries
<1>5. QED  BY <1>4 DEF Max

FreeEntries(q) == {k \in Entries : q[k].state = "EMPTY"}

\* There is a free entry when the counter says so.
LEMMA FirstFree ==
  ASSUME NEW n, NEW v, NEW q, NEW num, NEW dl2, NEW tag, NEW ri,
         Core(n, q, num, dl2, tag, ri, v), num < missq_ifq_size
  PROVE  LET i == Min(FreeEntries(q))
         IN  i \in Entries /\ q[i].state = "EMPTY"
<1> DEFINE E == FreeEntries(q)
<1>1. E # {}
  <2> SUFFICES ASSUME E = {} PROVE FALSE  OBVIOUS
  <2>1. Occupied(q) = 0 .. missq_ifq_size - 1  BY DEF Occupied, Entries, FreeEntries
  <2>2. Cardinality(0 .. missq_ifq_size - 1) = missq_ifq_size  BY EntriesFinite, FS_Interval
  <2>3. num = missq_ifq_size  BY <2>1, <2>2 DEF Core
  <2>4. QED  BY <2>3, EntriesFinite
<1>2. E \in SUBSET Nat  BY DEF Entries, FreeEntries
<1> HIDE DEF E
<1>3. Min(E) \in E  BY <1>1, <1>2, LeastIn
<1>4. QED  BY <1>3 DEF E, FreeEntries

\* Before anything is sent there is nothing to account for.
LEMMA NothingOut ==
  ASSUME NEW n, NEW q, NEW v
  PROVE  Outs(n, q, NothingSent, v)
<1>1. /\ DOMAIN NothingSent = Types
      /\ \A t \in Types : DOMAIN NothingSent[t] = Cpus
      /\ \A t \in Types, d \in Cpus : NothingSent[t][d] = <<>>
  BY DEF NothingSent
<1>2. IsSeq(<<>>) /\ DOMAIN <<>> = {}
  BY EmptySeq DEF IsSeq
<1>3. \A t \in Types, d \in Cpus : DOMAIN NothingSent[t][d] = {} /\ IsSeq(NothingSent[t][d])
  BY <1>1, <1>2
<1>4. "INVN" \in Types /\ "RESP" \in Types  BY DEF Types
<1> DEFINE out == NothingSent
<1>5. OutShape(out)  BY <1>1, <1>3 DEF OutShape
<1> HIDE DEF out
<1>6. \A t \in Types, d \in Cpus : DOMAIN out[t][d] = {}  BY <1>3 DEF out
<1>7. OutTyped(n, out, v)  BY <1>6 DEF OutTyped
<1>8. InvnsOut(q, out, v)
  <2>1. \A d \in Cpus : DOMAIN out["INVN"][d] = {}  BY <1>4, <1>6
  <2>2. QED  BY <2>1 DEF InvnsOut
<1>9. RespsOut(q, out, v)
  <2>1. \A d \in Cpus : DOMAIN out["RESP"][d] = {}  BY <1>4, <1>6
  <2>2. QED  BY <2>1 DEF RespsOut
<1>10. QED  BY <1>5, <1>7, <1>8, <1>9 DEF Outs, out

\* An entry is taken, for a request or for an intervention from outside.
LEMMA NewEntry ==
  ASSUME NEW n, NEW v, NEW q, NEW num, NEW dl2, NEW ev, NEW tag, NEW ri, NEW out,
         NEW i \in Entries, NEW f,
         MissOK(n, q, num, dl2, ev, tag, ri, out, v), q[i].state = "EMPTY", EntryOK(n, f, v),
         f.invn_match = {},
         \/ f.state = "L1_MISS" /\ ~External(f)
         \/ /\ f.state = "MODIFY_L1" /\ External(f) /\ out = NothingSent
            /\ \A j \in Entries : ~SameAsk(q[j], f.cpuid, f.cache)
  PROVE  MissOK(n, [q EXCEPT ![i] = f], num + 1, dl2, ev, tag, ri, out, v)
<1> DEFINE r == [q EXCEPT ![i] = f]
<1>a. /\ n \in Cpus /\ DOMAIN q = Entries /\ num = Cardinality(Occupied(q))
      /\ DOMAIN dl2 = L2Ways /\ \A w \in L2Ways : L2OK(n, dl2[w], v.text)
      /\ \A j \in Entries : EntryOK(n, q[j], v)
      /\ \A j \in Entries : RoundOK(n, q[j], dl2, v)
      /\ OneServed(n, q) /\ MatchOK(q) /\ OneAsks(q) /\ SentOK(n, q, v)
      /\ On(tag) => ri \in Entries /\ q[ri].state = "REFILL_L1"
      /\ Evs(n, q, ev) /\ Outs(n, q, out, v)
  BY DEF MissOK, Core
<1>0. DOMAIN r = Entries /\ r[i] = f /\ \A j \in Entries \ {i} : r[j] = q[j]
  BY <1>a
<1>b. q[i].state = "EMPTY" /\ ~External(q[i])  BY <1>a DEF EntryOK
<1>c. ~Serves(n, q[i]) /\ ~External(q[i]) /\ ~InstAsks(q[i]) /\ \A l1 : ~Pending(q[i], l1)
  BY <1>b DEF Serves, Issued, InstAsks, Pending, Round
<1>d. f.state # "EMPTY" /\ ~Serves(n, f) /\ ~Round(f)
  BY DEF Serves, Issued, Round, EntryOK, AskOK
<1> HIDE DEF r
<1>1. num + 1 = Cardinality(Occupied(r))
  <2>1. Occupied(r) = Occupied(q) \cup {i} /\ i \notin Occupied(q)
    BY <1>0, <1>d DEF Occupied
  <2>2. IsFiniteSet(Occupied(q))  BY EntriesFinite DEF Occupied
  <2>3. QED  BY <1>a, <2>1, <2>2, FS_AddElement
<1>2. \A j \in Entries : EntryOK(n, r[j], v) /\ RoundOK(n, r[j], dl2, v)
  BY <1>a, <1>0, <1>d DEF RoundOK
<1>3. OneServed(n, r)
  BY <1>a, <1>0, <1>d DEF OneServed
<1>4. MatchOK(r)
  <2> SUFFICES ASSUME NEW k \in Entries, NEW j \in Entries, InstAsks(r[k]), j \in r[k].invn_match
               PROVE  j # k /\ r[j].state = "L1_MISS" /\ r[j].reissue /\ r[j].blk = r[k].blk
    BY DEF MatchOK
  <2>1. k # i  BY <1>0
  <2>2. j # k /\ q[j].state = "L1_MISS" /\ q[j].reissue /\ q[j].blk = q[k].blk
    BY <1>a, <1>0, <2>1 DEF MatchOK
  <2>3. QED  BY <1>0, <2>1, <2>2
<1>5. OneAsks(r)
  BY <1>a, <1>0, <1>c DEF OneAsks, SameAsk
<1>6. SentOK(n, r, v)
  BY <1>a, <1>0, <1>c DEF SentOK
<1>7. On(tag) => ri \in Entries /\ r[ri].state = "REFILL_L1"
  BY <1>a, <1>0
<1>8. Evs(n, r, ev)
  <2>1. \A j \in Entries : r[j] = q[j] \/ KeepsAwait(n, q[j], r[j])
    BY <1>0, <1>c DEF KeepsAwait, Awaited
  <2>2. QED  BY <1>a, <2>1, EvStep
<1>9. Outs(n, r, out, v)
  <2>1. CASE out = NothingSent  BY <2>1, NothingOut
  <2>2. CASE ~External(f)
    <3>1. \A j \in Entries : \A l1 : l1[1] # n /\ Pending(q[j], l1) => Pending(r[j], l1)
      BY <1>0, <1>c
    <3>2. \A j \in Entries : External(r[j]) =>
            External(q[j]) /\ r[j].cpuid = q[j].cpuid /\ r[j].cache = q[j].cache
      BY <1>0, <2>2
    <3>3. QED  BY <1>a, <3>1, <3>2, OutStep
  <2>3. QED  BY <2>1, <2>2
<1>10. QED
  BY <1>a, <1>1, <1>2, <1>3, <1>4, <1>5, <1>6, <1>7, <1>8, <1>9 DEF MissOK, Core, r

\* Fewer obligations to others.
LEMMA Weaker ==
  ASSUME NEW n, NEW v, NEW u, NEW q, NEW num, NEW dl2, NEW ev, NEW tag, NEW ri, NEW out,
         MissOK(n, q, num, dl2, ev, tag, ri, out, v),
         u.self = v.self, u.text = v.text, u.asked = v.asked, u.others \subseteq v.others, u.sent \subseteq v.sent
  PROVE  MissOK(n, q, num, dl2, ev, tag, ri, out, u)
<1>1. \A i \in Entries : EntryOK(n, q[i], u) /\ RoundOK(n, q[i], dl2, u)
  <2> SUFFICES ASSUME NEW i \in Entries PROVE EntryOK(n, q[i], u) /\ RoundOK(n, q[i], dl2, u)
    OBVIOUS
  <2>1. EntryOK(n, q[i], v) /\ RoundOK(n, q[i], dl2, v)  BY DEF MissOK, Core
  <2>2. AskOK(n, q[i], v) => AskOK(n, q[i], u)  BY DEF AskOK
  <2>3. EntryOK(n, q[i], u)  BY <2>1, <2>2 DEF EntryOK
  <2>4. RoundOK(n, q[i], dl2, u)  BY <2>1 DEF RoundOK
  <2>5. QED  BY <2>3, <2>4
<1>2. SentOK(n, q, u)  BY DEF MissOK, Core, SentOK
<1>3. Core(n, q, num, dl2, tag, ri, u)  BY <1>1, <1>2 DEF MissOK, Core
<1>4. Outs(n, q, out, u)
  <2>1. OutTyped(n, out, u)  BY DEF MissOK, Outs, OutTyped
  <2>2. InvnsOut(q, out, u)  BY DEF MissOK, Outs, InvnsOut
  <2>3. RespsOut(q, out, u)  BY DEF MissOK, Outs, RespsOut
  <2>4. QED  BY <2>1, <2>2, <2>3 DEF MissOK, Outs
<1>5. QED  BY <1>3, <1>4 DEF MissOK

-----------------------------------------------------------------------------
(***************************************************************************)
(* The write-back queue, and the packets that arrive at a home.            *)
(***************************************************************************)

\* The slots of the write-back queue, and any of them, can be counted.
LEMMA SlotsFinite ==
  /\ wtbkq_ifq_size \in Nat \ {0} /\ Slots = 0 .. wtbkq_ifq_size - 1
  /\ IsFiniteSet(Slots) /\ Cardinality(Slots) = wtbkq_ifq_size
  /\ \A S \in SUBSET Slots : IsFiniteSet(S) /\ Cardinality(S) \in Nat
<1>1. wtbkq_ifq_size \in Nat \ {0} /\ Slots = 0 .. wtbkq_ifq_size - 1
  BY SizesAssumption DEF Slots
<1>2. IsFiniteSet(Slots) /\ Cardinality(Slots) = wtbkq_ifq_size
  BY <1>1, FS_Interval
<1>3. QED  BY <1>1, <1>2, FS_Subset, FS_CardinalityType

FreeAt(wq, next) == {k \in Slots : ~wq[(next + k) % wtbkq_ifq_size].valid}
FirstAt(wq, next) == (next + Min(FreeAt(wq, next))) % wtbkq_ifq_size

\* A slot that is counted in advance is free.
LEMMA SlotFree ==
  ASSUME NEW n, NEW wq, NEW num, NEW next, NEW h \in Nat, SlotsIn(n, wq, num, next, h), h > 0
  PROVE  LET j == FirstAt(wq, next)
         IN  /\ FreeAt(wq, next) # {} /\ j \in Slots /\ ~wq[j].valid
             /\ (j + 1) % wtbkq_ifq_size \in Slots
<1> DEFINE N == wtbkq_ifq_size
           At(k) == (next + k) % N
           free == {k \in Slots : ~wq[At(k)].valid}
<1>a. N \in Nat \ {0} /\ Slots = 0 .. N - 1 /\ next \in 0 .. N - 1
  BY SlotsFinite DEF SlotsIn
<1>1. PICK s \in Slots : ~wq[s].valid
  <2> SUFFICES ASSUME \A s \in Slots : wq[s].valid PROVE FALSE  OBVIOUS
  <2>1. ValidSlots(wq) = Slots  BY DEF ValidSlots
  <2>2. QED  BY <2>1, SlotsFinite DEF SlotsIn
<1>2. \A k \in Slots : At(k) \in Slots
  BY <1>a, SlotOfAge
<1>3. AgeOn(N, next, s) \in free
  <2> DEFINE k == AgeOn(N, next, s)
  <2>1. k \in 0 .. N - 1  BY <1>a, AgeValue
  <2> HIDE DEF k
  <2>2. At(k) \in 0 .. N - 1 /\ AgeOn(N, next, At(k)) = k  BY <1>a, <2>1, SlotOfAge
  <2> HIDE DEF At
  <2>3. At(k) = s  BY <1>a, <2>2, AgeUnique DEF k
  <2>4. k \in free  BY <1>a, <1>1, <2>1, <2>3
  <2>5. QED  BY <2>4 DEF k
<1>4. Min(free) \in free
  <2>1. free \in SUBSET Nat  BY <1>a
  <2> HIDE DEF free
  <2>2. QED  BY <1>3, <2>1, LeastIn
<1>5. At(Min(free)) \in Slots /\ ~wq[At(Min(free))].valid
  BY <1>2, <1>4
<1>6. \A j \in Slots : (j + 1) % N \in Slots
  BY <1>a
<1>7. FreeAt(wq, next) = free /\ FirstAt(wq, next) = At(Min(free))  BY DEF FreeAt, FirstAt
<1>8. QED  BY <1>3, <1>5, <1>6, <1>7

\* A write-back enters a slot that was counted for it (wtbkq_enter).
LEMMA SlotTaken ==
  ASSUME NEW n, NEW wq, NEW num, NEW next, NEW h \in Nat, SlotsIn(n, wq, num, next, h), h > 0,
         NEW j \in Slots, ~wq[j].valid, NEW w, SlotOK(n, w), w.valid, NEW after \in Slots
  PROVE  SlotsIn(n, [wq EXCEPT ![j] = w], num, after, h - 1)
<1> DEFINE x == [wq EXCEPT ![j] = w]
<1>1. DOMAIN x = Slots /\ x[j] = w /\ \A k \in Slots \ {j} : x[k] = wq[k]  BY DEF SlotsIn
<1> HIDE DEF x
<1>2. ValidSlots(x) = ValidSlots(wq) \cup {j} /\ j \notin ValidSlots(wq)
  BY <1>1 DEF ValidSlots
<1>3. IsFiniteSet(ValidSlots(wq)) /\ Cardinality(ValidSlots(wq)) \in Nat
  BY SlotsFinite DEF ValidSlots
<1>4. Cardinality(ValidSlots(x)) = Cardinality(ValidSlots(wq)) + 1
  BY <1>2, <1>3, FS_AddElement
<1>5. QED  BY <1>1, <1>3, <1>4 DEF SlotsIn, x

\* A write-back leaves its slot, which is counted no more (wtbkq_leave).
LEMMA SlotLeft ==
  ASSUME NEW n, NEW wq, NEW num, NEW next, NEW h \in Nat, SlotsIn(n, wq, num, next, h),
         NEW j \in Slots, wq[j].valid
  PROVE  SlotsIn(n, [wq EXCEPT ![j] = FreeSlot], num - 1, next, h)
<1> DEFINE x == [wq EXCEPT ![j] = FreeSlot]
<1>1. DOMAIN x = Slots /\ x[j] = FreeSlot /\ \A k \in Slots \ {j} : x[k] = wq[k]  BY DEF SlotsIn
<1> HIDE DEF x
<1>0. SlotOK(n, FreeSlot) /\ ~FreeSlot.valid  BY DEF FreeSlot, SlotOK, SlotFields
<1>2. ValidSlots(x) = ValidSlots(wq) \ {j} /\ j \in ValidSlots(wq)
  BY <1>0, <1>1 DEF ValidSlots
<1>3. IsFiniteSet(ValidSlots(wq)) /\ Cardinality(ValidSlots(wq)) \in Nat
  BY SlotsFinite DEF ValidSlots
<1>4. Cardinality(ValidSlots(x)) = Cardinality(ValidSlots(wq)) - 1
  BY <1>2, <1>3, FS_RemoveElement
<1>5. \A k \in Slots : SlotOK(n, x[k])  BY <1>0, <1>1 DEF SlotsIn
<1>6. num \in Int /\ wtbkq_ifq_size \in Nat  BY <1>3, SlotsFinite DEF SlotsIn
<1>7. QED  BY <1>1, <1>3, <1>4, <1>5, <1>6 DEF SlotsIn, x

\* wtbkq_reserve, and its end without a write-back.
LEMMA SlotReserved ==
  ASSUME NEW n, NEW wq, NEW num, NEW next, NEW h \in Nat, SlotsIn(n, wq, num, next, h)
  PROVE  /\ num \in Nat
         /\ num < wtbkq_ifq_size => SlotsIn(n, wq, num + 1, next, h + 1)
         /\ h > 0 => SlotsIn(n, wq, num - 1, next, h - 1)
<1>1. Cardinality(ValidSlots(wq)) \in Nat /\ wtbkq_ifq_size \in Nat
  BY SlotsFinite DEF ValidSlots
<1>2. QED  BY <1>1 DEF SlotsIn

NewSlot(l1, req, blk, cache_status, invn) ==
  [valid |-> TRUE, cpuid |-> l1[1], cache |-> l1[2], req |-> req, blk |-> blk,
   cache_status |-> cache_status, intervention |-> invn]

\* What wtbkq_enter writes to a slot is a write-back.
LEMMA NewSlotOK ==
  ASSUME NEW n, NEW l1, NEW req \in Writebacks, NEW blk, NEW cache_status
  PROVE  /\ SlotOK(n, NewSlot(l1, req, blk, cache_status, FALSE))
         /\ l1[1] = n => SlotOK(n, NewSlot(l1, req, blk, cache_status, TRUE))
BY DEF SlotOK, SlotFields, NewSlot

\* wtbkq_enter, for a write-back that was counted in advance.
LEMMA Enters ==
  ASSUME NEW st, DOMAIN st = CpuFields, NEW l1, NEW req, NEW blk, NEW cache_status, NEW invn,
         SlotOK(st.cpuid, NewSlot(l1, req, blk, cache_status, invn)), NEW h \in Nat, h > 0,
         SlotsIn(st.cpuid, st.wtbkq, st.wtbkq_num, st.wtbkq_replacei, h),
         NEW x, x = wtbkq_enter(st, l1, req, blk, cache_status, invn)
  PROVE      /\ DOMAIN x = CpuFields /\ MPart(x) = MPart(st) /\ LPart(x) = LPart(st)
             /\ SlotsIn(x.cpuid, x.wtbkq, x.wtbkq_num, x.wtbkq_replacei, h - 1)
             /\ x.refill_delay = st.refill_delay /\ x.dcache = st.dcache /\ x.icache = st.icache
<1> DEFINE At(k) == (st.wtbkq_replacei + k) % wtbkq_ifq_size
           free == {k \in Slots : ~st.wtbkq[At(k)].valid}
           j == At(Min(free))
           w == NewSlot(l1, req, blk, cache_status, invn)
           y == [st EXCEPT !.wtbkq[j] = w, !.wtbkq_replacei = (j + 1) % wtbkq_ifq_size]
<1>0. free = FreeAt(st.wtbkq, st.wtbkq_replacei) /\ j = FirstAt(st.wtbkq, st.wtbkq_replacei)
  BY DEF FreeAt, FirstAt
<1>1. free # {} /\ j \in Slots /\ ~st.wtbkq[j].valid /\ (j + 1) % wtbkq_ifq_size \in Slots
  <2> HIDE DEF free, j
  <2> QED  BY <1>0, SlotFree
<1>2. SlotOK(st.cpuid, w) /\ w.valid  BY DEF NewSlot
<1>3. wtbkq_enter(st, l1, req, blk, cache_status, invn) = y
  <2> HIDE DEF free
  <2> QED  BY <1>1 DEF wtbkq_enter, free, NewSlot
<1> HIDE DEF j, w, free, At
<1>4. SlotsIn(st.cpuid, [st.wtbkq EXCEPT ![j] = w], st.wtbkq_num, (j + 1) % wtbkq_ifq_size, h - 1)
  BY <1>1, <1>2, SlotTaken
<1>5. /\ y.wtbkq = [st.wtbkq EXCEPT ![j] = w] /\ y.wtbkq_num = st.wtbkq_num
      /\ y.wtbkq_replacei = (j + 1) % wtbkq_ifq_size
      /\ DOMAIN y = CpuFields /\ MPart(y) = MPart(st) /\ LPart(y) = LPart(st)
      /\ y.refill_delay = st.refill_delay /\ y.dcache = st.dcache /\ y.icache = st.icache
      /\ y.cpuid = st.cpuid
  BY DEF CpuFields, MPart, LPart
<1>6. QED  BY <1>3, <1>4, <1>5

\* The miss queue and the L2 depend on their own fields only ...
LEMMA SameM ==
  ASSUME NEW st, NEW x, NEW v, MPart(x) = MPart(st)
  PROVE  M(x, v) <=> M(st, v)
BY DEF MPart, M
\* ... so does the write-back queue ...
LEMMA SameW ==
  ASSUME NEW st, NEW x, WPart(x) = WPart(st)
  PROVE  W(x) <=> W(st)
BY DEF WPart, W
\* ... and so do the load/store queue and the refill packets.
LEMMA SameL ==
  ASSUME NEW st, NEW x, NEW v, LPart(x) = LPart(st)
  PROVE  L(x, v) <=> L(st, v)
BY DEF LPart, L

\* An assertion changes nothing but the list of those that failed.
LEMMA Asserts ==
  ASSUME NEW st, DOMAIN st = CpuFields, NEW name, NEW b
  PROVE  LET x == Asserted(name, b, st)
         IN  /\ DOMAIN x = CpuFields /\ MPart(x) = MPart(st) /\ LPart(x) = LPart(st)
             /\ WPart(x) = WPart(st)
             /\ \A f \in CpuFields \ {"failed"} : x[f] = st[f]
BY DEF Asserted, CpuFields, MPart, LPart, WPart

\* An assertion keeps the invariant, whether it holds or not.
LEMMA AssertedGood ==
  ASSUME NEW st, NEW v, Good(st, v), NEW name, NEW b
  PROVE  Good(Asserted(name, b, st), v)
BY Asserts, SameM, SameW, SameL DEF Good

\* Counting the slot and entering the write-back in one step.
LEMMA HeldNat == ASSUME NEW a, NEW b PROVE Held(a, b) \in Nat
BY DEF Held

\* A slot is counted and its write-back enters in the same step.
LEMMA ReserveEnters ==
  ASSUME NEW st, NEW v, Good(st, v), NEW l1, NEW req, NEW blk,
         NEW cache_status, NEW invn, SlotOK(st.cpuid, NewSlot(l1, req, blk, cache_status, invn)),
         st.wtbkq_num < wtbkq_ifq_size,
         NEW x, x = wtbkq_enter(wtbkq_reserve(st), l1, req, blk, cache_status, invn)
  PROVE  Good(x, v) /\ MPart(x) = MPart(st) /\ LPart(x) = LPart(st)
<1> DEFINE y == wtbkq_reserve(st)
           h == Held(st.lsq_refill.kind, st.dcache_refill.kind)
<1>1. /\ DOMAIN y = CpuFields /\ MPart(y) = MPart(st) /\ LPart(y) = LPart(st)
      /\ y.cpuid = st.cpuid /\ y.wtbkq = st.wtbkq /\ y.wtbkq_num = st.wtbkq_num + 1
      /\ y.wtbkq_replacei = st.wtbkq_replacei
  BY DEF wtbkq_reserve, Good, CpuFields, MPart, LPart
<1>2. h \in Nat  BY HeldNat
<1>3. SlotsIn(st.cpuid, st.wtbkq, st.wtbkq_num, st.wtbkq_replacei, h)
  BY DEF Good, W, SlotsOK
<1> HIDE DEF y, h
<1>4. SlotsIn(y.cpuid, y.wtbkq, y.wtbkq_num, y.wtbkq_replacei, h + 1)
  BY <1>1, <1>2, <1>3, SlotReserved
<1>5. /\ DOMAIN x = CpuFields /\ MPart(x) = MPart(y) /\ LPart(x) = LPart(y)
      /\ SlotsIn(x.cpuid, x.wtbkq, x.wtbkq_num, x.wtbkq_replacei, (h + 1) - 1)
  <2>1. h + 1 \in Nat /\ h + 1 > 0  BY <1>2
  <2>2. SlotOK(y.cpuid, NewSlot(l1, req, blk, cache_status, invn))  BY <1>1
  <2>3. x = wtbkq_enter(y, l1, req, blk, cache_status, invn)  BY DEF y
  <2>4. QED  BY <1>1, <1>4, <2>1, <2>2, <2>3, Enters
<1>6. (h + 1) - 1 = h /\ LPart(x) = LPart(st) /\ MPart(x) = MPart(st)  BY <1>1, <1>2, <1>5
<1>7. W(x)
  <2>1. x.lsq_refill = st.lsq_refill /\ x.dcache_refill = st.dcache_refill  BY <1>6 DEF LPart
  <2>2. QED  BY <1>5, <1>6, <2>1 DEF W, SlotsOK, h
<1>8. QED  BY <1>5, <1>6, <1>7, SameM, SameL DEF Good

\* A write-back from outside enters while there is a slot (home_enter,
\* WTBK).
LEMMA EntersW ==
  ASSUME NEW st, NEW v, Good(st, v), NEW s \in Cpus, NEW p,
         PacketOK("WTBK", s, st.cpuid, p, v.text), HomeOpen(st, "WTBK")
  PROVE  LET x == home_enter(st, p)
         IN  Good(x, v) /\ MPart(x) = MPart(st) /\ LPart(x) = LPart(st)
<1>1. p.req \in Writebacks /\ p.req \notin Acks  BY DEF PacketOK, Writebacks, Acks
<1>2. home_enter(st, p) = home_enter_WTBK(st, p)  BY <1>1 DEF home_enter, Writebacks, Acks, Requests, Interventions
<1>3. st.wtbkq_num < wtbkq_ifq_size  BY DEF HomeOpen
<1> DEFINE cs == IF p.req = "WRITEBACK" THEN "INVALID" ELSE "UNTOUCHED"  l1 == L1Of(p)  no == FALSE
<1>4. home_enter_WTBK(st, p) = wtbkq_enter(wtbkq_reserve(st), l1, p.req, p.blk, cs, no)
  BY DEF home_enter_WTBK
<1>5. SlotOK(st.cpuid, NewSlot(l1, p.req, p.blk, cs, no))  BY <1>1, NewSlotOK
<1> HIDE DEF cs, l1, no
<1>6. QED  BY <1>2, <1>3, <1>4, <1>5, ReserveEnters

\* missq_enter.
LEMMA MissEnters ==
  ASSUME NEW st, NEW v, Good(st, v), NEW f, EntryOK(st.cpuid, f, v),
         st.missq_num < missq_ifq_size, f.invn_match = {},
         \/ f.state = "L1_MISS" /\ ~External(f)
         \/ /\ f.state = "MODIFY_L1" /\ External(f) /\ st.out = NothingSent
            /\ \A j \in Entries : ~SameAsk(st.missq[j], f.cpuid, f.cache)
  PROVE  LET x == missq_enter(st, f)
         IN  /\ Good(x, v) /\ WPart(x) = WPart(st) /\ LPart(x) = LPart(st)
             /\ x.out = st.out /\ x.cpuid = st.cpuid
             /\ \A g \in CpuFields \ {"missq", "missq_num"} : x[g] = st[g]
             /\ \E i \in Entries : /\ st.missq[i].state = "EMPTY"
                                   /\ x.missq = [st.missq EXCEPT ![i] = f]
<1> DEFINE i == Min(FreeEntries(st.missq))
           x == [st EXCEPT !.missq[i] = f, !.missq_num = @ + 1]
<1>1. i \in Entries /\ st.missq[i].state = "EMPTY"
  <2>1. Core(st.cpuid, st.missq, st.missq_num, st.dl2, st.refilltag, st.refilli, v)
    BY DEF Good, M, MissOK
  <2>2. QED  BY <2>1, FirstFree
<1> HIDE DEF i
<1>2. MissOK(st.cpuid, [st.missq EXCEPT ![i] = f], st.missq_num + 1, st.dl2, st.events,
             st.refilltag, st.refilli, st.out, v)
  <2>1. MissOK(st.cpuid, st.missq, st.missq_num, st.dl2, st.events, st.refilltag, st.refilli,
               st.out, v)
    BY DEF Good, M
  <2>2. QED  BY <1>1, <2>1, NewEntry
<1>3. /\ x.missq = [st.missq EXCEPT ![i] = f] /\ x.missq_num = st.missq_num + 1
      /\ x.cpuid = st.cpuid /\ x.dl2 = st.dl2 /\ x.events = st.events
      /\ x.refilltag = st.refilltag /\ x.refilli = st.refilli /\ x.out = st.out
      /\ DOMAIN x = CpuFields /\ WPart(x) = WPart(st) /\ LPart(x) = LPart(st)
      /\ \A g \in CpuFields \ {"missq", "missq_num"} : x[g] = st[g]
  BY DEF Good, CpuFields, WPart, LPart
<1>4. missq_enter(st, f) = x  BY DEF missq_enter, i, FreeEntries
<1> HIDE DEF x
<1>5. M(x, v)  BY <1>2, <1>3 DEF M
<1>6. QED  BY <1>1, <1>3, <1>4, <1>5, SameW, SameL DEF Good

\* A request from outside enters while an entry is left (home_enter, REQ).
LEMMA EntersReq ==
  ASSUME NEW st, NEW v, Good(st, v), NEW s \in Cpus, NEW p, st.cpuid \in Cpus,
         PacketOK("REQ", s, st.cpuid, p, v.text), HomeOpen(st, "REQ")
  PROVE  LET x == home_enter(st, p)
         IN  Good(x, v) /\ WPart(x) = WPart(st) /\ LPart(x) = LPart(st) /\ x.out = st.out
<1> DEFINE n == st.cpuid  f == Incoming(p)
<1>1. /\ p.cpuid = s /\ s # n /\ p.blk \in Blocks /\ p.cache = CacheOf(p.blk, v.text)
      /\ p.qid \in Entries
      /\ p.req \in Requests /\ Owner[p.blk] = n /\ (p.cache = "icache" => p.req = "READ_SHD")
  BY DEF PacketOK
<1>2. p.req \notin Acks /\ p.req \notin Writebacks /\ p.req \notin Interventions
  BY <1>1 DEF Requests, Acks, Writebacks, Interventions
<1>3. home_enter(st, p) = missq_enter(st, f)
  BY <1>1, <1>2 DEF home_enter, Requests, Acks, Writebacks
<1>4. /\ DOMAIN f = EntryFields /\ f.state = "L1_MISS" /\ f.req = p.req /\ f.cpuid = s
      /\ f.cache = p.cache /\ f.blk = p.blk /\ f.qid = p.qid /\ f.wait = 0 /\ f.invn_match = {}
  BY <1>1, <1>2 DEF Incoming, FreeEntry, EntryFields
<1> HIDE DEF f
<1>5. ~External(f) /\ f.state # "EMPTY"  BY <1>2, <1>4 DEF External
<1>6. EntryOK(n, f, v)
  <2>1. OwnOK(n, f)  BY <1>1, <1>4 DEF OwnOK
  <2>2. QED  BY <1>1, <1>4, <1>5, <2>1 DEF EntryOK
<1>7. st.missq_num < missq_ifq_size
  <2>1. st.missq_num < missq_ifq_size - 1  BY DEF HomeOpen
  <2>2. st.missq_num \in Nat /\ missq_ifq_size \in Nat
    BY EntriesFinite DEF Good, M, MissOK, Core, Occupied
  <2>3. QED  BY <2>1, <2>2
<1>8. QED  BY <1>3, <1>4, <1>5, <1>6, <1>7, MissEnters

\* An intervention arrives: v is what held while it was under way.
LEMMA EntersInvn ==
  ASSUME NEW st, NEW v, NEW u, Good(st, v), NEW s \in Cpus, NEW p,
         PacketOK("INVN", s, st.cpuid, p, v.text), HomeOpen(st, "INVN"), st.out = NothingSent,
         <<s, p.cache, p.qid>> \in v.asked, <<s, p.cache>> \in v.others,
         u.self = v.self, u.text = v.text, u.asked = v.asked, u.sent = v.sent,
         u.others = v.others \ {<<s, p.cache>>}
  PROVE  LET x == home_enter(st, p)
         IN  Good(x, u) /\ WPart(x) = WPart(st) /\ LPart(x) = LPart(st) /\ x.out = st.out
<1> DEFINE n == st.cpuid  f == Incoming(p)
<1>1. /\ p.cpuid = s /\ s # n /\ p.blk \in Blocks /\ p.cache = CacheOf(p.blk, v.text)
      /\ p.qid \in Entries
      /\ p.req \in Interventions /\ Owner[p.blk] = s
  BY DEF PacketOK
<1>2. p.req \notin Acks /\ p.req \notin Writebacks
  BY <1>1 DEF Acks, Writebacks, Interventions
<1>3. home_enter(st, p) = missq_enter(st, f)
  BY <1>1, <1>2 DEF home_enter, Acks, Writebacks
<1>4. /\ DOMAIN f = EntryFields /\ f.state = "MODIFY_L1" /\ f.req = p.req /\ f.cpuid = s
      /\ f.cache = p.cache /\ f.blk = p.blk /\ f.invn_match = {} /\ f.directory = {}
      /\ f.qid = p.qid
  BY <1>1, <1>2 DEF Incoming, FreeEntry, EntryFields
<1> HIDE DEF f
<1>5. External(f) /\ f.state # "EMPTY"  BY <1>1, <1>4 DEF External
<1>6. EntryOK(n, f, u)
  <2>1. AskOK(n, f, u)  BY <1>1, <1>4 DEF AskOK
  <2>2. QED  BY <1>1, <1>4, <1>5, <2>1 DEF EntryOK
<1>7. \A j \in Entries : ~SameAsk(st.missq[j], f.cpuid, f.cache)
  <2> SUFFICES ASSUME NEW j \in Entries, SameAsk(st.missq[j], s, p.cache) PROVE FALSE  BY <1>4
  <2> DEFINE e == st.missq[j]
  <2>1. EntryOK(n, e, v)  BY DEF Good, M, MissOK, Core
  <2>2. External(e) /\ e.cpuid = s /\ e.cache = p.cache  BY DEF SameAsk
  <2>3. e.state # "EMPTY"  BY <2>1, <2>2 DEF EntryOK
  <2>4. AskOK(n, e, v)  BY <2>1, <2>2, <2>3 DEF EntryOK
  <2>5. QED  BY <2>2, <2>4 DEF AskOK
<1>8. Good(st, u)
  <2>1. M(st, u)  BY Weaker DEF Good, M
  <2>2. L(st, u)  BY DEF Good, L, LsqOK, AccessOK
  <2>3. QED  BY <2>1, <2>2 DEF Good
<1>9. st.missq_num < missq_ifq_size  BY DEF HomeOpen
<1>10. QED  BY <1>3, <1>4, <1>5, <1>6, <1>7, <1>8, <1>9, MissEnters

-----------------------------------------------------------------------------
(***************************************************************************)
(* Acks and answers that arrive.                                           *)
(***************************************************************************)

\* The parts of the invariant of one cpu.
LEMMA CoreOf ==
  ASSUME NEW st, NEW v, Good(st, v)
  PROVE  /\ DOMAIN st = CpuFields
         /\ MissOK(st.cpuid, st.missq, st.missq_num, st.dl2, st.events, st.refilltag, st.refilli,
                   st.out, v)
         /\ Core(st.cpuid, st.missq, st.missq_num, st.dl2, st.refilltag, st.refilli, v)
         /\ Evs(st.cpuid, st.missq, st.events) /\ Outs(st.cpuid, st.missq, st.out, v)
         /\ DOMAIN st.missq = Entries /\ DOMAIN st.dl2 = L2Ways /\ st.cpuid \in Cpus
         /\ \A w \in L2Ways : L2OK(st.cpuid, st.dl2[w], v.text)
         /\ \A i \in Entries : EntryOK(st.cpuid, st.missq[i], v)
                               /\ RoundOK(st.cpuid, st.missq[i], st.dl2, v)
BY DEF Good, M, MissOK, Core

\* A block of the L2 that changes in nothing but dirty.
SameBlock(b, c) ==
  DOMAIN c = L2Fields /\ c.tag = b.tag /\ c.status = b.status /\ c.directory = b.directory

AckWays(e, f, l1) ==
  \/ f = [e EXCEPT !.acked = @ \cup {l1}]
  \/ f = [e EXCEPT !.sent = @ \ {l1}]

AckedAs(q, i, l1, r) == \E f : AckWays(q[i], f, l1) /\ r = [q EXCEPT ![i] = f]

\* ack_received changes the entry and its L2 block only.
LEMMA AckShape ==
  ASSUME NEW st, DOMAIN st = CpuFields, DOMAIN st.missq = Entries, DOMAIN st.dl2 = L2Ways,
         NEW i \in Entries, DOMAIN st.missq[i] = EntryFields, NEW l1, NEW status,
         \A w \in L2Ways : DOMAIN st.dl2[w] = L2Fields,
         NEW x, x = ack_received(st, i, l1, status)
  PROVE  /\ DOMAIN x = CpuFields /\ WPart(x) = WPart(st) /\ LPart(x) = LPart(st)
         /\ x.cpuid = st.cpuid /\ x.missq_num = st.missq_num /\ x.events = st.events
         /\ x.refilltag = st.refilltag /\ x.refilli = st.refilli /\ x.out = st.out
         /\ AckedAs(st.missq, i, l1, x.missq)
         /\ DOMAIN x.dl2 = L2Ways
         /\ \A w \in L2Ways : SameBlock(st.dl2[w], x.dl2[w])
<1> DEFINE e == st.missq[i]
           L2_status == st.dl2[e.L2_way].status
           agrees == Agrees(e, L2_status, status)
           written == status = "MODIFIED" /\ e.intervention_type # "INVALIDATE"
           y == [st EXCEPT !.missq[i].acked = IF agrees THEN @ \cup {l1} ELSE @,
                   !.missq[i].sent = IF agrees THEN @ ELSE @ \ {l1},
                   !.dl2[e.L2_way].dirty = @ \/ written]
           f == [[e EXCEPT !.acked = IF agrees THEN @ \cup {l1} ELSE @]
                   EXCEPT !.sent = IF agrees THEN @ ELSE @ \ {l1}]
           b == st.dl2[e.L2_way].dirty \/ written
<1>1. x = Asserted("ack", AckAsserts(e, L2_status, status), y)
  BY DEF ack_received
<1>2. /\ DOMAIN y = CpuFields /\ WPart(y) = WPart(st) /\ LPart(y) = LPart(st)
      /\ y.cpuid = st.cpuid /\ y.missq_num = st.missq_num /\ y.events = st.events
      /\ y.refilltag = st.refilltag /\ y.refilli = st.refilli /\ y.out = st.out
  BY DEF CpuFields, WPart, LPart
<1>3. y.missq = [st.missq EXCEPT ![i] = f]
  BY DEF CpuFields, EntryFields
<1>4. y.dl2 = [st.dl2 EXCEPT ![e.L2_way].dirty = b]
  BY DEF CpuFields
<1>5. AckWays(e, f, l1)
  BY DEF AckWays
<1> HIDE DEF y, f, b, agrees, written, L2_status, e
<1>6. DOMAIN y.dl2 = L2Ways
  BY <1>4
<1>7. \A w \in L2Ways : SameBlock(st.dl2[w], y.dl2[w])
  BY <1>4 DEF SameBlock, L2Fields
<1>8. /\ DOMAIN x = CpuFields /\ MPart(x) = MPart(y) /\ LPart(x) = LPart(y)
      /\ WPart(x) = WPart(y)
  BY <1>1, <1>2, Asserts
<1>9. x.missq = y.missq /\ x.dl2 = y.dl2 /\ x.cpuid = y.cpuid /\ x.missq_num = y.missq_num
      /\ x.events = y.events /\ x.refilltag = y.refilltag /\ x.refilli = y.refilli
      /\ x.out = y.out
  BY <1>8 DEF MPart
<1>10. AckedAs(st.missq, i, l1, x.missq)
  BY <1>3, <1>5, <1>9 DEF e, AckedAs
<1>11. \A w \in L2Ways : SameBlock(st.dl2[w], x.dl2[w])
  BY <1>7, <1>9
<1>12. QED  BY <1>2, <1>6, <1>8, <1>9, <1>10, <1>11

\* What an ack leaves alone.
AckFields(e, f) ==
  /\ DOMAIN f = EntryFields /\ f.state = e.state /\ f.req = e.req /\ f.ack = e.ack
  /\ f.cpuid = e.cpuid /\ f.cache = e.cache /\ f.qid = e.qid /\ f.blk = e.blk
  /\ f.cache_status = e.cache_status /\ f.directory = e.directory
  /\ f.intervention_type = e.intervention_type /\ f.L2_way = e.L2_way
  /\ f.L2_replace = e.L2_replace /\ f.reissue = e.reissue /\ f.wait = e.wait
  /\ f.local = e.local /\ f.invn_match = e.invn_match /\ f.modify_l1 = e.modify_l1

\* An ack leaves the entry in its round.
LEMMA AckCalm ==
  ASSUME NEW n, NEW e, NEW f, NEW v, EntryOK(n, e, v), AckFields(e, f),
         e.state \in {"MODIFY_L1", "L2_MISS"}
  PROVE  Calm(n, e, f, v)
<1>1. External(f) <=> External(e)  BY DEF AckFields, External
<1>2. InstAsks(f) <=> InstAsks(e)  BY <1>1 DEF AckFields, InstAsks
<1>3. AskOK(n, e, v) => AskOK(n, f, v)  BY DEF AckFields, AskOK
<1>4. OwnOK(n, e) => OwnOK(n, f)  BY DEF AckFields, OwnOK
<1>5. EntryOK(n, f, v)  BY <1>1, <1>3, <1>4 DEF AckFields, EntryOK
<1>6. QED  BY <1>1, <1>2, <1>5 DEF AckFields, Calm

\* A block that keeps its tag and loses caches is still an L2 block.
LEMMA SameBlockOK ==
  ASSUME NEW n, NEW T, NEW b, NEW c, SameBlock(b, c), L2OK(n, b, T)
  PROVE  L2OK(n, c, T)
BY DEF SameBlock, L2OK

\* The own data cache, or a write-back, acks: the round goes on.
LEMMA OwnAck ==
  ASSUME NEW st, NEW v, Good(st, v), NEW i \in Entries, Round(st.missq[i]), NEW l1,
         l1[1] = st.cpuid, NEW status, NEW x, x = ack_received(st, i, l1, status)
  PROVE  Good(x, v) /\ WPart(x) = WPart(st) /\ LPart(x) = LPart(st)
<1> DEFINE n == st.cpuid  q == st.missq  e == q[i]
<1>0. /\ DOMAIN st = CpuFields /\ DOMAIN q = Entries /\ DOMAIN st.dl2 = L2Ways
      /\ \A w \in L2Ways : L2OK(n, st.dl2[w], v.text)
      /\ EntryOK(n, e, v) /\ RoundOK(n, e, st.dl2, v)
      /\ MissOK(n, q, st.missq_num, st.dl2, st.events, st.refilltag, st.refilli, st.out, v)
  BY CoreOf
<1>1. e.state \in {"MODIFY_L1", "L2_MISS"} /\ ~External(e)  BY DEF Round
<1>2. DOMAIN e = EntryFields /\ \A w \in L2Ways : DOMAIN st.dl2[w] = L2Fields
  BY <1>0 DEF EntryOK, L2OK
<1>3. PICK f : AckWays(e, f, l1) /\ x.missq = [q EXCEPT ![i] = f]
  BY <1>0, <1>2, AckShape DEF AckedAs
<1>4. /\ DOMAIN x = CpuFields /\ WPart(x) = WPart(st) /\ LPart(x) = LPart(st)
      /\ x.cpuid = n /\ x.missq_num = st.missq_num /\ x.events = st.events
      /\ x.refilltag = st.refilltag /\ x.refilli = st.refilli /\ x.out = st.out
      /\ DOMAIN x.dl2 = L2Ways /\ \A w \in L2Ways : SameBlock(st.dl2[w], x.dl2[w])
  BY <1>0, <1>2, AckShape
<1>5. AckFields(e, f) /\ (\A m \in f.acked : m[1] # n => m \in e.acked)
      /\ (\A m : m[1] # n => (m \in f.sent <=> m \in e.sent))
  BY <1>2, <1>3 DEF AckWays, AckFields, EntryFields
<1>6. Quiet(n, e, f, v) /\ KeepsAwait(n, e, f) /\ RoundOK(n, f, x.dl2, v)
  <2>1. Calm(n, e, f, v)  BY <1>0, <1>1, <1>5, AckCalm
  <2>2. KeepsServed(n, e, f)  BY <1>5 DEF AckFields, KeepsServed, Issued
  <2>3. KeepsPending(n, e, f)  BY <1>5 DEF AckFields, KeepsPending, Pending, Round, External
  <2>4. KeepsAwait(n, e, f)  BY <1>1 DEF KeepsAwait, Awaited
  <2>5. RoundOK(n, f, x.dl2, v)
    <3>1. \A m \in f.acked : m[1] # n => m \in f.sent  BY <1>0, <1>5 DEF RoundOK
    <3>2. \A w \in L2Ways : x.dl2[w].tag = st.dl2[w].tag  BY <1>4 DEF SameBlock
    <3>3. QED  BY <1>0, <1>5, <3>1, <3>2, RoundKept DEF AckFields
  <2>6. QED  BY <2>1, <2>2, <2>3, <2>4, <2>5 DEF Quiet
<1>7. MissOK(n, [q EXCEPT ![i] = f], st.missq_num, x.dl2, st.events, st.refilltag, st.refilli,
             st.out, v)
  <2>1. \A w \in L2Ways : x.dl2[w].tag = st.dl2[w].tag /\ L2OK(n, x.dl2[w], v.text)
    BY <1>0, <1>4, SameBlockOK DEF SameBlock
  <2>2. e.state # "REFILL_L1"  BY <1>1
  <2>3. QED  BY <1>0, <1>4, <1>6, <2>1, <2>2, OneKept
<1>8. M(x, v)  BY <1>3, <1>4, <1>7 DEF M
<1>9. QED  BY <1>4, <1>8, SameW, SameL DEF Good

\* The invariant of a cpu keeps with fewer interventions under way.
LEMMA GoodWeaker ==
  ASSUME NEW st, NEW v, NEW u, Good(st, v),
         u.self = v.self, u.text = v.text, u.asked = v.asked, u.others \subseteq v.others, u.sent \subseteq v.sent
  PROVE  Good(st, u)
<1>1. M(st, u)  BY Weaker DEF Good, M
<1>2. L(st, u)  BY DEF Good, L, LsqOK, AccessOK
<1>3. QED  BY <1>1, <1>2 DEF Good

\* An ack that was under way arrives.
LEMMA ForeignAck ==
  ASSUME NEW st, NEW u, Good(st, u), NEW i \in Entries, NEW l1, l1[1] # st.cpuid,
         Pending(st.missq[i], l1), \A t \in u.sent : t[1] # l1, st.out = NothingSent,
         NEW status, NEW x, x = ack_received(st, i, l1, status)
  PROVE  Good(x, u) /\ WPart(x) = WPart(st) /\ LPart(x) = LPart(st) /\ x.out = st.out
<1> DEFINE n == st.cpuid  q == st.missq  e == q[i]
<1>0. /\ DOMAIN st = CpuFields /\ DOMAIN q = Entries /\ DOMAIN st.dl2 = L2Ways
      /\ \A w \in L2Ways : L2OK(n, st.dl2[w], u.text)
      /\ \A j \in Entries : EntryOK(n, q[j], u) /\ RoundOK(n, q[j], st.dl2, u)
      /\ Core(n, q, st.missq_num, st.dl2, st.refilltag, st.refilli, u)
      /\ Evs(n, q, st.events)
  BY CoreOf
<1>1. Round(e) /\ e.state \in {"MODIFY_L1", "L2_MISS"} /\ ~External(e) /\ l1 \in e.sent
      /\ l1 \notin e.acked
  BY DEF Round, Pending
<1>2. DOMAIN e = EntryFields /\ \A w \in L2Ways : DOMAIN st.dl2[w] = L2Fields
  BY <1>0 DEF EntryOK, L2OK
<1>3. PICK f : AckWays(e, f, l1) /\ x.missq = [q EXCEPT ![i] = f]
  BY <1>0, <1>2, AckShape DEF AckedAs
<1>4. /\ DOMAIN x = CpuFields /\ WPart(x) = WPart(st) /\ LPart(x) = LPart(st)
      /\ x.cpuid = n /\ x.missq_num = st.missq_num /\ x.events = st.events
      /\ x.refilltag = st.refilltag /\ x.refilli = st.refilli /\ x.out = st.out
      /\ DOMAIN x.dl2 = L2Ways /\ \A w \in L2Ways : SameBlock(st.dl2[w], x.dl2[w])
  BY <1>0, <1>2, AckShape
<1>5. /\ AckFields(e, f)
      /\ \A m : m # l1 => (m \in f.sent <=> m \in e.sent) /\ (m \in f.acked <=> m \in e.acked)
      /\ l1 \in f.acked => l1 \in f.sent
  <2>1. CASE f = [e EXCEPT !.acked = @ \cup {l1}]
    <3>1. f.acked = e.acked \cup {l1} /\ f.sent = e.sent  BY <1>2, <2>1 DEF EntryFields
    <3>2. AckFields(e, f)  BY <1>2, <2>1 DEF AckFields, EntryFields
    <3>3. QED  BY <1>1, <3>1, <3>2
  <2>2. CASE f = [e EXCEPT !.sent = @ \ {l1}]
    <3>1. f.acked = e.acked /\ f.sent = e.sent \ {l1}  BY <1>2, <2>2 DEF EntryFields
    <3>2. AckFields(e, f)  BY <1>2, <2>2 DEF AckFields, EntryFields
    <3>3. QED  BY <1>1, <3>1, <3>2
  <2>3. QED  BY <1>3, <2>1, <2>2 DEF AckWays
<1> DEFINE r == [q EXCEPT ![i] = f]
<1>6. DOMAIN r = Entries /\ r[i] = f /\ \A j \in Entries \ {i} : r[j] = q[j]  BY <1>0
<1> HIDE DEF r
<1>7. Calm(n, e, f, u)  BY <1>0, <1>1, <1>5, AckCalm
<1>8. \A w \in L2Ways : x.dl2[w].tag = st.dl2[w].tag /\ L2OK(n, x.dl2[w], u.text)
  BY <1>0, <1>4, SameBlockOK DEF SameBlock
<1>9. \A j \in Entries : RoundOK(n, r[j], x.dl2, u)
  <2>1. RoundOK(n, f, x.dl2, u)
    <3>1. \A m \in f.acked : m[1] # n => m \in f.sent  BY <1>0, <1>1, <1>5 DEF RoundOK
    <3>2. RoundOK(n, e, st.dl2, u) /\ Round(e)  BY <1>0, <1>1
    <3>3. QED  BY <1>5, <1>8, <3>1, <3>2, RoundKept DEF AckFields
  <2>2. ASSUME NEW j \in Entries, j # i PROVE RoundOK(n, q[j], x.dl2, u)
    <3>1. CASE Round(q[j])
      <4>1. RoundOK(n, q[j], st.dl2, u)  BY <1>0
      <4>2. \A m \in q[j].acked : m[1] # n => m \in q[j].sent  BY <3>1, <4>1 DEF RoundOK
      <4>3. QED  BY <1>8, <3>1, <4>1, <4>2, RoundKept
    <3>2. CASE ~Round(q[j])  BY <3>2 DEF RoundOK
    <3>3. QED  BY <3>1, <3>2
  <2>3. QED  BY <1>6, <2>1, <2>2
<1>10. OneServed(n, r)
  <2>1. Serves(n, f) <=> Serves(n, e)  BY <1>5 DEF AckFields, Serves, Issued
  <2>2. \A j \in Entries : Serves(n, r[j]) <=> Serves(n, q[j])  BY <1>6, <2>1
  <2>3. OneServed(n, q)  BY <1>0 DEF Core
  <2>4. QED  BY <2>2, <2>3 DEF OneServed
<1>11. SentOK(n, r, u)
  <2>1. \A m : m # l1 /\ Pending(e, m) => Pending(f, m)
    BY <1>5 DEF AckFields, Pending, Round, External
  <2>2. \A t \in u.sent : Pending(q[t[2]], t[1]) /\ t[2] \in Entries /\ t[1][1] # n
    BY <1>0 DEF Core, SentOK
  <2>3. \A t \in u.sent : Pending(r[t[2]], t[1])
    BY <1>6, <2>1, <2>2
  <2>4. QED  BY <2>2, <2>3 DEF SentOK
<1>12. Core(n, r, st.missq_num, x.dl2, st.refilltag, st.refilli, u)
  <2>1. st.missq_num - Cardinality({}) = st.missq_num
    BY <1>0, EntriesFinite, FS_EmptySet DEF Occupied, Core
  <2>2. On(st.refilltag) => st.refilli \in Entries /\ r[st.refilli].state = "REFILL_L1"
    <3>1. On(st.refilltag) => st.refilli \in Entries /\ q[st.refilli].state = "REFILL_L1"
      BY <1>0 DEF Core
    <3>2. e.state # "REFILL_L1"  BY <1>1
    <3>3. QED  BY <1>6, <3>1, <3>2
  <2>3. \A j \in Entries \ {} : r[j] = q[j] \/ Calm(n, q[j], r[j], u)  BY <1>6, <1>7
  <2>4. Core(n, r, st.missq_num - Cardinality({}), x.dl2, st.refilltag, st.refilli, u)
    BY <1>0, <1>4, <1>6, <1>8, <1>9, <1>10, <1>11, <2>2, <2>3, CoreStep
  <2>5. QED  BY <2>1, <2>4
<1>13. Evs(n, r, st.events)
  <2>1. \A j \in Entries : r[j] = q[j] \/ KeepsAwait(n, q[j], r[j])
    BY <1>1, <1>6 DEF KeepsAwait, Awaited
  <2>2. QED  BY <1>0, <2>1, EvStep
<1>14. Outs(n, r, st.out, u)  BY NothingOut
<1>15. M(x, u)  BY <1>3, <1>4, <1>12, <1>13, <1>14 DEF M, MissOK, r
<1>16. QED  BY <1>4, <1>15, SameW, SameL DEF Good

\* A response finds a cpu that is not the home of its block.
LEMMA DataArrives ==
  ASSUME NEW st, NEW v, Good(st, v), NEW s \in Cpus, NEW p,
         PacketOK("RESP", s, st.cpuid, p, v.text), Owner[p.blk] # st.cpuid,
         NEW x, x = home_enter_RESP(st, p)
  PROVE  Good(x, v) /\ WPart(x) = WPart(st) /\ LPart(x) = LPart(st) /\ x.out = st.out
<1> DEFINE n == st.cpuid  q == st.missq  i == p.qid  e == q[i]
<1>0. /\ DOMAIN st = CpuFields /\ DOMAIN q = Entries /\ DOMAIN st.dl2 = L2Ways
      /\ \A w \in L2Ways : L2OK(n, st.dl2[w], v.text)
      /\ \A j \in Entries : EntryOK(n, q[j], v) /\ RoundOK(n, q[j], st.dl2, v)
      /\ MissOK(n, q, st.missq_num, st.dl2, st.events, st.refilltag, st.refilli, st.out, v)
  BY CoreOf
<1>1. i \in Entries /\ p.blk \in Blocks  BY DEF PacketOK
<1>2. EntryOK(n, e, v) /\ DOMAIN e = EntryFields /\ (\A w \in L2Ways : DOMAIN st.dl2[w] = L2Fields)
  BY <1>0, <1>1 DEF EntryOK, L2OK
<1>3. ~(e.state = "L2_MISS" /\ e.L2_replace = p.blk)
  <2> SUFFICES ASSUME e.state = "L2_MISS", e.L2_replace = p.blk PROVE FALSE  OBVIOUS
  <2>1. ~External(e)  BY <1>2 DEF EntryOK, AskOK
  <2>2. Round(e) /\ Target(e) = p.blk  BY <2>1 DEF Round, Target
  <2>3. e.L2_way \in L2Ways /\ st.dl2[e.L2_way].tag = p.blk  BY <1>0, <1>1, <2>2 DEF RoundOK
  <2>4. QED  BY <1>0, <1>1, <2>3 DEF L2OK
<1>4. CASE e.state = "MODIFY_L1" /\ e.blk = p.blk
  <2>1. External(e)  BY <1>2, <1>4 DEF EntryOK, OwnOK, RemoteStates
  <2> DEFINE l1 == L1Of(p)
  <2>2. x = ack_received(st, i, l1, p.cache_status)  BY <1>4 DEF home_enter_RESP
  <2> HIDE DEF l1
  <2>3. PICK f : AckWays(e, f, l1) /\ x.missq = [q EXCEPT ![i] = f]
    <3>1. AckedAs(q, i, l1, x.missq)  BY <1>0, <1>1, <1>2, <2>2, AckShape
    <3>2. QED  BY <3>1 DEF AckedAs
  <2>4. /\ DOMAIN x = CpuFields /\ WPart(x) = WPart(st) /\ LPart(x) = LPart(st)
        /\ x.cpuid = n /\ x.missq_num = st.missq_num /\ x.events = st.events
        /\ x.refilltag = st.refilltag /\ x.refilli = st.refilli /\ x.out = st.out
        /\ DOMAIN x.dl2 = L2Ways /\ \A w \in L2Ways : SameBlock(st.dl2[w], x.dl2[w])
    BY <1>0, <1>1, <1>2, <2>2, AckShape
  <2>5. AckFields(e, f)  BY <1>2, <2>3 DEF AckWays, AckFields, EntryFields
  <2>6. Calm(n, e, f, v)  BY <1>2, <1>4, <2>5, AckCalm
  <2>7. KeepsServed(n, e, f) /\ KeepsPending(n, e, f) /\ KeepsAwait(n, e, f)
    BY <1>4, <2>1, <2>5 DEF AckFields, KeepsServed, Issued, KeepsPending, Pending, Round, External,
         KeepsAwait, Awaited
  <2>8. RoundOK(n, f, x.dl2, v)  BY <2>1, <2>5 DEF AckFields, External, Round, RoundOK
  <2>9. \A w \in L2Ways : x.dl2[w].tag = st.dl2[w].tag /\ L2OK(n, x.dl2[w], v.text)
    BY <1>0, <2>4, SameBlockOK DEF SameBlock
  <2>10. Quiet(n, e, f, v)  BY <2>6, <2>7 DEF Quiet
  <2>11. e.state # "REFILL_L1"  BY <1>4
  <2>12. MissOK(n, [q EXCEPT ![i] = f], st.missq_num, x.dl2, st.events, st.refilltag, st.refilli,
               st.out, v)
    BY <1>0, <1>1, <2>4, <2>7, <2>8, <2>9, <2>10, <2>11, OneKept
  <2>13. M(x, v)  BY <2>3, <2>4, <2>12 DEF M
  <2>14. QED  BY <2>4, <2>13, SameW, SameL DEF Good
<1>5. CASE ~(e.state = "MODIFY_L1" /\ e.blk = p.blk) /\ e.state = "READ_L2" /\ e.blk = p.blk
  <2> DEFINE f == [e EXCEPT !.data = TRUE, !.state = "REPLACE_L1", !.cache_status = p.cache_status]
             y == [st EXCEPT !.missq[p.qid] = f]
  <2>1. x = y  BY <1>3, <1>5 DEF home_enter_RESP
  <2>2. /\ DOMAIN f = EntryFields /\ f.state = "REPLACE_L1" /\ f.req = e.req /\ f.cpuid = e.cpuid
        /\ f.cache = e.cache /\ f.blk = e.blk /\ f.qid = e.qid /\ f.wait = e.wait
        /\ f.invn_match = e.invn_match
    BY <1>2 DEF EntryFields
  <2> HIDE DEF f
  <2>3. ~External(e) /\ ~External(f) /\ OwnOK(n, e) /\ e.state # "EMPTY" /\ Owner[e.blk] # n
    BY <1>2, <1>5, <2>2 DEF EntryOK, AskOK, External
  <2>4. EntryOK(n, f, v)
    <3>1. OwnOK(n, f)  BY <2>2, <2>3 DEF OwnOK, RemoteStates
    <3>2. QED  BY <1>2, <2>2, <2>3, <3>1 DEF EntryOK
  <2>5. Quiet(n, e, f, v)
    <3>1. Calm(n, e, f, v)  BY <1>5, <2>2, <2>3, <2>4 DEF Calm, InstAsks
    <3>2. QED  BY <1>5, <2>2, <2>3, <3>1 DEF Quiet, KeepsServed, Issued, KeepsPending, Pending, Round
  <2>6. KeepsAwait(n, e, f) /\ RoundOK(n, f, st.dl2, v)
    BY <2>2, <2>3 DEF KeepsAwait, Awaited, Serves, RoundOK, Round
  <2>7. MissOK(n, [q EXCEPT ![i] = f], st.missq_num, st.dl2, st.events, st.refilltag, st.refilli,
               st.out, v)
    <3>1. e.state # "REFILL_L1"  BY <1>5
    <3>2. QED  BY <1>0, <1>1, <2>5, <2>6, <3>1, OneKept
  <2>8. /\ DOMAIN y = CpuFields /\ WPart(y) = WPart(st) /\ LPart(y) = LPart(st)
        /\ y.cpuid = n /\ y.missq_num = st.missq_num /\ y.events = st.events
        /\ y.refilltag = st.refilltag /\ y.refilli = st.refilli /\ y.out = st.out
        /\ y.dl2 = st.dl2 /\ y.missq = [q EXCEPT ![i] = f]
    BY <1>0 DEF CpuFields, WPart, LPart
  <2>9. M(y, v)  BY <2>7, <2>8 DEF M
  <2>10. QED  BY <2>1, <2>8, <2>9, SameW, SameL DEF Good
<1>6. CASE ~(e.state = "MODIFY_L1" /\ e.blk = p.blk) /\ ~(e.state = "READ_L2" /\ e.blk = p.blk)
  <2>1. x = st  BY <1>3, <1>6 DEF home_enter_RESP
  <2>2. QED  BY <2>1
<1>7. QED  BY <1>4, <1>5, <1>6

\* An answer arrives: data for an own miss, or an ack for a round
\* (home_enter, RESP).
LEMMA EntersResp ==
  ASSUME NEW st, NEW v, NEW u, Good(st, v), NEW s \in Cpus, NEW p,
         PacketOK("RESP", s, st.cpuid, p, v.text), st.out = NothingSent,
         u.self = v.self, u.text = v.text, u.asked = v.asked, u.sent \subseteq v.sent, u.others = v.others,
         Owner[p.blk] = st.cpuid =>
           /\ <<L1Of(p), p.qid>> \in v.sent
           /\ \A t \in u.sent : t[1] # L1Of(p)
  PROVE  LET x == home_enter(st, p)
         IN  Good(x, u) /\ WPart(x) = WPart(st) /\ LPart(x) = LPart(st) /\ x.out = st.out
<1> DEFINE n == st.cpuid  q == st.missq  i == p.qid  e == q[i]  x == home_enter_RESP(st, p)
<1>1. home_enter(st, p) = x
  <2>1. p.req \in Acks  BY DEF PacketOK
  <2>2. QED  BY <2>1 DEF home_enter, Acks, Requests, Interventions
<1>2. Good(st, u)  BY GoodWeaker
<1>3. CASE Owner[p.blk] # n
  <2>1. PacketOK("RESP", s, n, p, u.text)  OBVIOUS
  <2>2. QED  BY <1>1, <1>2, <1>3, <2>1, DataArrives
<1>4. CASE Owner[p.blk] = n
  <2> DEFINE l1 == L1Of(p)
  <2>1. l1[1] # n  BY DEF PacketOK, L1Of
  <2>2. Pending(e, l1) /\ i \in Entries
    <3>1. SentOK(n, q, v)  BY CoreOf DEF Core
    <3>2. <<l1, i>> \in v.sent /\ <<l1, i>>[1] = l1 /\ <<l1, i>>[2] = i  BY <1>4
    <3> HIDE DEF l1
    <3>3. QED  BY <3>1, <3>2 DEF SentOK
  <2>3. \A t \in u.sent : t[1] # l1  BY <1>4
  <2>4. CASE x = ack_received(st, i, l1, p.cache_status)
    <3> HIDE DEF x, l1
    <3>1. QED  BY <1>1, <1>2, <2>1, <2>2, <2>3, <2>4, ForeignAck
  <2>5. CASE x = st  BY <1>1, <1>2, <2>5
  <2>6. QED
    <3>1. e.state # "READ_L2"  BY <2>2 DEF Pending, Round
    <3>2. QED  BY <2>4, <2>5, <3>1 DEF home_enter_RESP
<1>5. QED  BY <1>3, <1>4

-----------------------------------------------------------------------------
(***************************************************************************)
(* scache_probe.                                                           *)
(***************************************************************************)

\* Good, but for the events.
Solid(st, v) ==
  /\ DOMAIN st = CpuFields /\ W(st) /\ L(st, v)
  /\ Core(st.cpuid, st.missq, st.missq_num, st.dl2, st.refilltag, st.refilli, v)
  /\ Outs(st.cpuid, st.missq, st.out, v)

\* The invariant without the events, and the events.
LEMMA GoodParts ==
  ASSUME NEW st, NEW v
  PROVE  Good(st, v) <=> Solid(st, v) /\ Evs(st.cpuid, st.missq, st.events)
BY DEF Good, Solid, M, MissOK

\* A step of cpu st to x that leaves the two other queues and the packets.
Frame(st, x) ==
  /\ DOMAIN x = CpuFields /\ x.cpuid = st.cpuid /\ x.missq_num = st.missq_num
  /\ x.out = st.out /\ WPart(x) = WPart(st) /\ LPart(x) = LPart(st)

SolidStep(st, x, i, f, v) ==
  /\ Frame(st, x) /\ x.missq = [st.missq EXCEPT ![i] = f]
  /\ Quiet(st.cpuid, st.missq[i], f, v) /\ RoundOK(st.cpuid, f, x.dl2, v)
  /\ DOMAIN x.dl2 = L2Ways /\ \A w \in L2Ways : L2OK(st.cpuid, x.dl2[w], v.text)
  /\ \/ \A w \in L2Ways : x.dl2[w].tag = st.dl2[w].tag
     \/ \A j \in Entries \ {i} : ~Round(st.missq[j])
  /\ \/ /\ x.refilltag = st.refilltag /\ x.refilli = st.refilli
        /\ st.missq[i].state = "REFILL_L1" => f.state = "REFILL_L1"
     \/ ~On(x.refilltag)
     \/ x.refilli = i /\ f.state = "REFILL_L1"

\* A step of one entry and the L2 block it has looked up.
LEMMA SolidChange ==
  ASSUME NEW st, NEW v, Solid(st, v), NEW i \in Entries, NEW f, NEW x, SolidStep(st, x, i, f, v)
  PROVE  Solid(x, v)
<1> DEFINE n == st.cpuid  q == st.missq  r == [q EXCEPT ![i] = f]
<1>1. /\ Core(n, q, st.missq_num, st.dl2, st.refilltag, st.refilli, v)
      /\ Outs(n, q, st.out, v)
  BY DEF Solid
<1>2. Core(n, r, st.missq_num, x.dl2, x.refilltag, x.refilli, v) /\ Outs(n, r, st.out, v)
  BY <1>1, OneStep DEF SolidStep
<1>3. W(x) /\ L(x, v)  BY SameW, SameL DEF SolidStep, Frame, Solid
<1>4. QED  BY <1>2, <1>3 DEF Solid, SolidStep, Frame

\* The same while the events wait as before.
LEMMA GoodChange ==
  ASSUME NEW st, NEW v, Good(st, v), NEW i \in Entries, NEW f, NEW x, SolidStep(st, x, i, f, v),
         KeepsAwait(st.cpuid, st.missq[i], f), x.events = st.events
  PROVE  Good(x, v)
<1>1. Solid(st, v) /\ Evs(st.cpuid, st.missq, st.events)  BY GoodParts
<1>2. Solid(x, v)  BY <1>1, SolidChange
<1>3. DOMAIN st.missq = Entries  BY <1>1 DEF Solid, Core
<1>4. /\ x.cpuid = st.cpuid /\ DOMAIN x.missq = Entries
      /\ \A j \in Entries : x.missq[j] = IF j = i THEN f ELSE st.missq[j]
  BY <1>3 DEF SolidStep, Frame
<1>5. \A j \in Entries :
        x.missq[j] = st.missq[j] \/ KeepsAwait(st.cpuid, st.missq[j], x.missq[j])
  BY <1>4
<1>6. Evs(st.cpuid, x.missq, st.events)  BY <1>1, <1>5, EvStep
<1>7. QED  BY <1>2, <1>4, <1>6, GoodParts

-----------------------------------------------------------------------------
\* The fields of an entry that say who it is for.
Names(e, f) ==
  DOMAIN f = EntryFields /\ f.req = e.req /\ f.cpuid = e.cpuid /\ f.cache = e.cache
  /\ f.blk = e.blk /\ f.qid = e.qid /\ f.invn_match = e.invn_match /\ f.reissue = e.reissue

\* A request of this home goes on to another of its states.
LEMMA HomeEntry ==
  ASSUME NEW n, NEW v, NEW e, NEW f, EntryOK(n, e, v), Names(e, f), ~External(e), Serves(n, e),
         f.state \notin {"EMPTY", "L1_MISS"}, f.state = "EXTRDY" => e.cpuid # n,
         f.state = "READ_L2" /\ f.wait # 0 => ~f.local
  PROVE  EntryOK(n, f, v) /\ Calm(n, e, f, v) /\ KeepsServed(n, e, f) /\ ~External(f)
<1>1. ~External(f) /\ e.state # "EMPTY" /\ Owner[e.blk] = n
  BY DEF Names, External, Serves, Issued
<1>2. OwnOK(n, f)  BY <1>1 DEF Names, OwnOK, EntryOK
<1>3. EntryOK(n, f, v)  BY <1>1, <1>2 DEF Names, EntryOK
<1>4. Calm(n, e, f, v)  BY <1>1, <1>3 DEF Names, Calm, InstAsks, Serves, Issued
<1>5. KeepsServed(n, e, f)  BY DEF KeepsServed, Serves
<1>6. QED  BY <1>1, <1>3, <1>4, <1>5

Probes(n, e) == Serves(n, e) /\ ~External(e) /\ e.state = "READ_L2"

ProbeDone(st, x, i, v) ==
  \E f : SolidStep(st, x, i, f, v) /\ x.events = st.events

\* scache_probe misses: the entry replaces an L2 block.
LEMMA ProbeMiss ==
  ASSUME NEW st, NEW v, Solid(st, v), NEW i \in Entries, Probes(st.cpuid, st.missq[i]),
         NEW victim \in L2Ways, NEW x, x = scache_miss(st, i, victim)
  PROVE  ProbeDone(st, x, i, v)
<1> DEFINE n == st.cpuid  e == st.missq[i]  repl == st.dl2[victim]
           f == [Intervene(e, repl.directory, "INTERVENTION_EXC", victim)
                   EXCEPT !.state = "L2_MISS", !.L2_replace = repl.tag]
<1>0. /\ DOMAIN st = CpuFields /\ DOMAIN st.missq = Entries /\ DOMAIN st.dl2 = L2Ways
      /\ \A w \in L2Ways : L2OK(n, st.dl2[w], v.text)
      /\ EntryOK(n, e, v) /\ RoundOK(n, e, st.dl2, v)
  BY DEF Solid, Core
<1>1. DOMAIN e = EntryFields /\ Serves(n, e) /\ ~External(e) /\ e.state = "READ_L2"
  BY <1>0 DEF Probes, EntryOK
<1>2. /\ x.missq = [st.missq EXCEPT ![i] = f] /\ x.dl2 = st.dl2 /\ x.events = st.events
      /\ x.refilltag = st.refilltag /\ x.refilli = st.refilli /\ Frame(st, x)
  BY <1>0 DEF scache_miss, CpuFields, Frame, WPart, LPart
<1>3. /\ Names(e, f) /\ f.state = "L2_MISS" /\ f.directory = repl.directory /\ f.acked = {}
      /\ f.L2_way = victim /\ f.L2_replace = repl.tag
  BY <1>1 DEF Intervene, EntryFields, Names
<1> HIDE DEF f
<1>4. EntryOK(n, f, v) /\ Calm(n, e, f, v) /\ KeepsServed(n, e, f) /\ ~External(f)
  BY <1>0, <1>1, <1>3, HomeEntry
<1>5. RoundOK(n, f, st.dl2, v)  BY <1>0, <1>3 DEF RoundOK, Target, L2OK
<1>6. Quiet(n, e, f, v)  BY <1>1, <1>4 DEF Quiet, KeepsPending, Pending, Round
<1>7. QED  BY <1>0, <1>1, <1>2, <1>5, <1>6 DEF ProbeDone, SolidStep

\* scache_probe meets a cpu that is listed: the request waits for its
\* write-back.
LEMMA ProbeStale ==
  ASSUME NEW st, NEW v, Solid(st, v), NEW i \in Entries, Probes(st.cpuid, st.missq[i]),
         NEW x, x = [st EXCEPT !.missq[i].wait = 1, !.missq[i].local = FALSE]
  PROVE  ProbeDone(st, x, i, v)
<1> DEFINE n == st.cpuid  e == st.missq[i]
           f == [e EXCEPT !.wait = 1, !.local = FALSE]
<1>0. /\ DOMAIN st = CpuFields /\ DOMAIN st.missq = Entries /\ DOMAIN st.dl2 = L2Ways
      /\ \A w \in L2Ways : L2OK(n, st.dl2[w], v.text)
      /\ EntryOK(n, e, v) /\ RoundOK(n, e, st.dl2, v)
  BY DEF Solid, Core
<1>1. DOMAIN e = EntryFields /\ Serves(n, e) /\ ~External(e) /\ e.state = "READ_L2"
  BY <1>0 DEF Probes, EntryOK
<1>2. /\ x.missq = [st.missq EXCEPT ![i] = f] /\ x.dl2 = st.dl2 /\ x.events = st.events
      /\ x.refilltag = st.refilltag /\ x.refilli = st.refilli /\ Frame(st, x)
  BY <1>0 DEF CpuFields, Frame, WPart, LPart
<1>3. Names(e, f) /\ f.state = "READ_L2" /\ ~f.local
  BY <1>1 DEF EntryFields, Names
<1> HIDE DEF f
<1>4. EntryOK(n, f, v) /\ Calm(n, e, f, v) /\ KeepsServed(n, e, f) /\ ~External(f)
  BY <1>0, <1>1, <1>3, HomeEntry
<1>5. RoundOK(n, f, st.dl2, v)  BY <1>3 DEF RoundOK, Round
<1>6. Quiet(n, e, f, v)  BY <1>1, <1>4 DEF Quiet, KeepsPending, Pending, Round
<1>7. QED  BY <1>0, <1>1, <1>2, <1>5, <1>6 DEF ProbeDone, SolidStep

\* scache_probe grants the block without asking another cache.
LEMMA ProbeGrant ==
  ASSUME NEW st, NEW v, Solid(st, v), NEW i \in Entries, Probes(st.cpuid, st.missq[i]),
         NEW w \in L2Ways, st.dl2[w].tag = st.missq[i].blk, st.dl2[w].status # "INVALID",
         NEW x, x = scache_grant(st, i, w)
  PROVE  ProbeDone(st, x, i, v)
<1> DEFINE n == st.cpuid  e == st.missq[i]
           sharers == st.dl2[w].directory \cup {L1Of(e)}
           alone == e.cache = "dcache" /\ Cardinality(DataSharers(sharers)) = 1
           status == IF alone THEN "EXCLUSIVE" ELSE "SHARED"
           f == [Answer(st, e) EXCEPT !.local = FALSE, !.wait = 0,
                   !.cache_status = IF e.cache = "icache" THEN @ ELSE status]
           b == [[st.dl2[w] EXCEPT !.directory = sharers] EXCEPT !.status = status]
<1>0. /\ DOMAIN st = CpuFields /\ DOMAIN st.missq = Entries /\ DOMAIN st.dl2 = L2Ways
      /\ \A k \in L2Ways : L2OK(n, st.dl2[k], v.text)
      /\ EntryOK(n, e, v) /\ RoundOK(n, e, st.dl2, v)
  BY DEF Solid, Core
<1>1. /\ DOMAIN e = EntryFields /\ Serves(n, e) /\ ~External(e) /\ e.state = "READ_L2"
      /\ e.cpuid \in Cpus /\ e.cache = CacheOf(e.blk, v.text)
  BY <1>0 DEF Probes, EntryOK
<1>2. /\ x.missq = [st.missq EXCEPT ![i] = f] /\ x.events = st.events
      /\ x.dl2 = [st.dl2 EXCEPT ![w] = b]
      /\ x.refilltag = st.refilltag /\ x.refilli = st.refilli /\ Frame(st, x)
  <2> HIDE DEF f, status, sharers
  <2>1. x = [st EXCEPT !.missq[i] = f, !.dl2[w].directory = sharers, !.dl2[w].status = status]
    BY DEF scache_grant, f, status, sharers
  <2>2. x.missq = [st.missq EXCEPT ![i] = f] /\ x.events = st.events
    BY <1>0, <2>1 DEF CpuFields
  <2>3. x.refilltag = st.refilltag /\ x.refilli = st.refilli /\ Frame(st, x)
    BY <1>0, <2>1 DEF CpuFields, Frame, WPart, LPart
  <2>4. x.dl2 = [[st.dl2 EXCEPT ![w].directory = sharers] EXCEPT ![w].status = status]
    BY <1>0, <2>1 DEF CpuFields
  <2>5. [[st.dl2 EXCEPT ![w].directory = sharers] EXCEPT ![w].status = status]
          = [st.dl2 EXCEPT ![w] = b]
    BY <1>0
  <2>6. QED  BY <2>2, <2>3, <2>4, <2>5
<1>3. /\ Names(e, f)
      /\ f.state = IF e.cpuid = n THEN "REPLACE_L1" ELSE "EXTRDY"
  BY <1>1 DEF Answer, EntryFields, Names
<1>b. L2OK(n, b, v.text) /\ b.tag = st.dl2[w].tag
  <2>1. L2OK(n, st.dl2[w], v.text)  BY <1>0
  <2>2. /\ DOMAIN b = L2Fields /\ b.tag = st.dl2[w].tag /\ b.status \in {"SHARED", "EXCLUSIVE"}
        /\ b.directory = sharers
    BY <2>1 DEF L2OK, L2Fields
  <2>3. L1Of(e) \in Cpus \X {CacheOf(st.dl2[w].tag, v.text)}  BY <1>1 DEF L1Of
  <2>4. DirectoryOK(sharers, st.dl2[w].tag, v.text)  BY <2>1, <2>3 DEF L2OK, DirectoryOK
  <2> HIDE DEF b, sharers
  <2>5. QED  BY <2>1, <2>2, <2>4 DEF L2OK
<1> HIDE DEF f, b
<1>4. EntryOK(n, f, v) /\ Calm(n, e, f, v) /\ KeepsServed(n, e, f) /\ ~External(f)
  BY <1>0, <1>1, <1>3, HomeEntry
<1>5. RoundOK(n, f, x.dl2, v)  BY <1>3 DEF RoundOK, Round
<1>6. Quiet(n, e, f, v)  BY <1>1, <1>4 DEF Quiet, KeepsPending, Pending, Round
<1>7. /\ DOMAIN x.dl2 = L2Ways
      /\ \A k \in L2Ways : x.dl2[k].tag = st.dl2[k].tag /\ L2OK(n, x.dl2[k], v.text)
  BY <1>0, <1>2, <1>b
<1>8. QED  BY <1>1, <1>2, <1>5, <1>6, <1>7 DEF ProbeDone, SolidStep

\* scache_probe starts a round of interventions.
LEMMA ProbeModify ==
  ASSUME NEW st, NEW v, Solid(st, v), NEW i \in Entries, Probes(st.cpuid, st.missq[i]),
         NEW w \in L2Ways, st.dl2[w].tag = st.missq[i].blk, st.dl2[w].status # "INVALID",
         NEW x, x = scache_modify(st, i, st.missq[i].req, w)
  PROVE  ProbeDone(st, x, i, v)
<1> DEFINE n == st.cpuid  e == st.missq[i]  blk == st.dl2[w]
           asked == IF blk.status = "EXCLUSIVE" THEN DataSharers(blk.directory) ELSE blk.directory
           others == asked \ {DataL1(e.cpuid), InstL1(e.cpuid)}
           type == InterventionFor(e.req, blk.status)
           local == e.local /\ type = "INVALIDATE" /\ e.req = "UPGRADE"
           status == IF e.req # "READ_SHD" THEN e.cache_status
                     ELSE IF others = {} /\ e.cache = "dcache" THEN "EXCLUSIVE" ELSE "SHARED"
           f == [Intervene(e, others, type, w) EXCEPT
                   !.state = "MODIFY_L1", !.wait = 0, !.local = local, !.cache_status = status]
<1>0. /\ DOMAIN st = CpuFields /\ DOMAIN st.missq = Entries /\ DOMAIN st.dl2 = L2Ways
      /\ \A k \in L2Ways : L2OK(n, st.dl2[k], v.text)
      /\ EntryOK(n, e, v) /\ RoundOK(n, e, st.dl2, v)
  BY DEF Solid, Core
<1>1. DOMAIN e = EntryFields /\ Serves(n, e) /\ ~External(e) /\ e.state = "READ_L2"
  BY <1>0 DEF Probes, EntryOK
<1>2. /\ x.missq = [st.missq EXCEPT ![i] = f] /\ x.dl2 = st.dl2 /\ x.events = st.events
      /\ x.refilltag = st.refilltag /\ x.refilli = st.refilli /\ Frame(st, x)
  <2>1. f = [Intervene(e, others, type, w) EXCEPT
              !.state = "MODIFY_L1", !.wait = 0,
              !.local = @ /\ type = "INVALIDATE" /\ e.req = "UPGRADE",
              !.cache_status = IF e.req # "READ_SHD" THEN @
                               ELSE IF others = {} /\ e.cache = "dcache" THEN "EXCLUSIVE"
                               ELSE "SHARED"]
    <3> HIDE DEF others, type
    <3>1. QED  BY <1>1 DEF Intervene, EntryFields
  <2>2. x = [st EXCEPT !.missq[i] = f]  
    <3> HIDE DEF f
    <3>1. QED BY <2>1 DEF scache_modify
  <2> HIDE DEF f, status, others, type, local
  <2>3. QED  BY <1>0, <2>2 DEF CpuFields, Frame, WPart, LPart
<1>3. /\ Names(e, f) /\ f.state = "MODIFY_L1" /\ f.directory = others /\ f.acked = {}
      /\ f.L2_way = w /\ f.intervention_type = type /\ f.cache_status = status
  <2> HIDE DEF status, others, type, local
  <2>1. QED  BY <1>1 DEF Intervene, EntryFields, Names
<1>t. type \in Interventions
  <2>1. blk.status \in {"SHARED", "EXCLUSIVE"}  BY <1>0 DEF L2OK
  <2>2. QED  BY <2>1 DEF InterventionFor, Interventions
<1>s. e.req = "READ_SHD" => status \in {"SHARED", "EXCLUSIVE"}  OBVIOUS
<1>d. DirectoryOK(others, e.blk, v.text)
  <2>1. others \subseteq blk.directory  BY DEF DataSharers
  <2>2. DirectoryOK(blk.directory, e.blk, v.text)  BY <1>0 DEF L2OK
  <2>3. QED  BY <2>1, <2>2 DEF DirectoryOK
<1> HIDE DEF f, others, status, type
<1>4. EntryOK(n, f, v) /\ Calm(n, e, f, v) /\ KeepsServed(n, e, f) /\ ~External(f)
  BY <1>0, <1>1, <1>3, HomeEntry
<1>5. RoundOK(n, f, st.dl2, v)
  <2>1. Target(f) = e.blk  BY <1>3 DEF Target, Names
  <2>2. f.req = e.req  BY <1>3 DEF Names
  <2>3. QED  BY <1>3, <1>t, <1>s, <1>d, <2>1, <2>2 DEF RoundOK
<1>6. Quiet(n, e, f, v)  BY <1>1, <1>4 DEF Quiet, KeepsPending, Pending, Round
<1>7. QED  BY <1>0, <1>1, <1>2, <1>5, <1>6 DEF ProbeDone, SolidStep

\* scache_probe in all its cases.
LEMMA ProbeSolid ==
  ASSUME NEW st, NEW v, Solid(st, v), NEW i \in Entries, Probes(st.cpuid, st.missq[i]),
         NEW req, req = st.missq[i].req, NEW blk, blk = st.missq[i].blk,
         NEW victim \in L2Ways, NEW x, x = scache_probe(st, i, req, blk, victim)
  PROVE  ProbeDone(st, x, i, v)
<1>1. CASE L2Hit(st, blk) = {}
  <2>1. x = scache_miss(st, i, victim)  BY <1>1 DEF scache_probe
  <2>2. QED  BY <2>1, ProbeMiss
<1>2. CASE L2Hit(st, blk) # {}
  <2> DEFINE w == CHOOSE w \in L2Hit(st, blk) : TRUE
  <2>1. w \in L2Ways /\ st.dl2[w].tag = blk /\ st.dl2[w].status # "INVALID"
    BY <1>2 DEF L2Hit
  <2>2. x = IF Stale(st, i, req, w)
            THEN [st EXCEPT !.missq[i].wait = 1, !.missq[i].local = FALSE]
            ELSE IF req = "READ_SHD" /\ st.dl2[w].status = "SHARED"
            THEN scache_grant(st, i, w)
            ELSE scache_modify(st, i, req, w)
    BY <1>2 DEF scache_probe
  <2> HIDE DEF w
  <2>3. CASE Stale(st, i, req, w)  BY <2>2, <2>3, ProbeStale
  <2>4. CASE ~Stale(st, i, req, w) /\ req = "READ_SHD" /\ st.dl2[w].status = "SHARED"
    <3>1. x = scache_grant(st, i, w)  BY <2>2, <2>4
    <3>2. QED  BY <2>1, <3>1, ProbeGrant
  <2>5. CASE ~Stale(st, i, req, w) /\ ~(req = "READ_SHD" /\ st.dl2[w].status = "SHARED")
    <3>1. x = scache_modify(st, i, req, w)  BY <2>2, <2>5
    <3>2. QED  BY <2>1, <3>1, ProbeModify
  <2>6. QED  BY <2>3, <2>4, <2>5
<1>3. QED  BY <1>1, <1>2

\* A request that waited for a write-back probes again: no event is due for it.
LEMMA ReprobeGood ==
  ASSUME NEW st, NEW v, Good(st, v), NEW i,
         i # None => i \in Entries /\ st.missq[i].state = "READ_L2",
         NEW victim \in L2Ways, NEW x, x = reprobe(st, i, victim)
  PROVE  /\ Good(x, v) /\ WPart(x) = WPart(st) /\ LPart(x) = LPart(st) /\ x.events = st.events
         /\ x.out = st.out
         /\ DOMAIN x.missq = Entries
         /\ \A j \in Entries : j # i => x.missq[j] = st.missq[j]
<1> DEFINE n == st.cpuid  e == st.missq[i]
<1>0. DOMAIN st.missq = Entries  BY CoreOf
<1>1. CASE ~(i # None /\ e.wait = 2)
  <2>1. x = st  BY <1>1 DEF reprobe
  <2>2. QED  BY <1>0, <2>1
<1>2. CASE i # None /\ e.wait = 2
  <2>0. i \in Entries /\ e.state = "READ_L2"  BY <1>2
  <2>1. EntryOK(n, e, v)  BY <2>0, CoreOf
  <2>2. ~External(e) /\ OwnOK(n, e)  BY <2>0, <2>1 DEF EntryOK, AskOK
  <2>3. Owner[e.blk] = n /\ ~e.local  BY <1>2, <2>0, <2>2 DEF OwnOK
  <2>4. Probes(n, e)  BY <2>0, <2>2, <2>3 DEF Probes, Serves, Issued
  <2>5. Solid(st, v)  BY GoodParts
  <2>6. x = scache_probe(st, i, e.req, e.blk, victim)  BY <1>2 DEF reprobe
  <2>7. ProbeDone(st, x, i, v)  BY <2>0, <2>4, <2>5, <2>6, ProbeSolid
  <2>8. PICK f : SolidStep(st, x, i, f, v) /\ x.events = st.events  BY <2>7 DEF ProbeDone
  <2>9. KeepsAwait(n, e, f)  BY <2>0, <2>3 DEF KeepsAwait, Awaited
  <2>10. Good(x, v)  BY <2>0, <2>8, <2>9, GoodChange
  <2>11. /\ WPart(x) = WPart(st) /\ LPart(x) = LPart(st) /\ x.out = st.out
         /\ x.missq = [st.missq EXCEPT ![i] = f]
    BY <2>8 DEF SolidStep, Frame
  <2>12. QED  BY <1>0, <2>8, <2>10, <2>11
<1>3. QED  BY <1>1, <1>2

-----------------------------------------------------------------------------
(***************************************************************************)
(* Sequences.                                                              *)
(***************************************************************************)

Members(s) == {s[k] : k \in DOMAIN s}

\* A sequence is one of its members.
LEMMA SeqShape ==
  ASSUME NEW s, IsSeq(s)
  PROVE  s \in Seq(Members(s)) /\ Len(s) \in Nat /\ DOMAIN s = 1 .. Len(s)
<1>1. s \in Seq(Members(s))  BY DEF IsSeq, Members
<1>2. QED  BY <1>1, LenProperties

\* A sequence over any set is a sequence.
LEMMA SeqFrom ==
  ASSUME NEW S, NEW s \in Seq(S)
  PROVE  IsSeq(s)
<1>0. Len(s) \in Nat /\ s \in [1 .. Len(s) -> S]  BY LenProperties
<1> DEFINE T == {s[k] : k \in DOMAIN s}
<1>1. s \in [1 .. Len(s) -> T]  BY <1>0
<1> HIDE DEF T
<1>2. s \in Seq(T)  BY <1>0, <1>1, SeqDef
<1>3. QED  BY <1>2 DEF IsSeq, T

\* Append adds one place at the end.
LEMMA SeqAppend ==
  ASSUME NEW s, IsSeq(s), NEW e
  PROVE  /\ IsSeq(Append(s, e)) /\ Len(Append(s, e)) = Len(s) + 1 /\ Len(s) \in Nat
         /\ \A k \in 1 .. Len(s) : Append(s, e)[k] = s[k]
         /\ Append(s, e)[Len(s) + 1] = e
<1> DEFINE S == Members(s) \cup {e}
<1>1. s \in Seq(S) /\ e \in S  BY SeqShape, SeqMonotonic
<1> HIDE DEF S
<1>2. /\ Append(s, e) \in Seq(S) /\ Len(Append(s, e)) = Len(s) + 1
      /\ \A k \in 1 .. Len(s) : Append(s, e)[k] = s[k]
      /\ Append(s, e)[Len(s) + 1] = e
  BY <1>1, AppendProperties
<1>3. IsSeq(Append(s, e))
  <2> DEFINE t == Append(s, e)
  <2>1. t \in Seq(S)  BY <1>2
  <2> HIDE DEF t
  <2>2. IsSeq(t)  BY <2>1, SeqFrom
  <2>3. QED  BY <2>2 DEF t
<1>4. QED  BY <1>2, <1>3, SeqShape

\* Tail drops the first place.
LEMMA SeqTail ==
  ASSUME NEW s, IsSeq(s), Len(s) > 0
  PROVE  /\ IsSeq(Tail(s)) /\ Len(Tail(s)) = Len(s) - 1 /\ Len(s) \in Nat
         /\ \A k \in 1 .. Len(s) - 1 : Tail(s)[k] = s[k + 1]
         /\ Head(s) = s[1]
<1>1. s \in Seq(Members(s)) /\ Len(s) \in Nat  BY SeqShape
<1>2. s # <<>>  BY EmptySeq
<1> DEFINE t == Tail(s)
<1>3. /\ t \in Seq(Members(s)) /\ Len(t) = Len(s) - 1
      /\ \A k \in 1 .. Len(t) : t[k] = s[k + 1]
  BY <1>1, <1>2, HeadTailProperties
<1>4. Head(s) = s[1]  BY <1>1, <1>2
<1> HIDE DEF t
<1>5. IsSeq(t)  BY <1>3, SeqFrom
<1>6. QED  BY <1>1, <1>3, <1>4, <1>5 DEF t

\* Concatenation puts one sequence after the other.
LEMMA SeqConcat ==
  ASSUME NEW s, NEW t, IsSeq(s), IsSeq(t)
  PROVE  /\ IsSeq(s \o t) /\ Len(s \o t) = Len(s) + Len(t) /\ Len(s) \in Nat /\ Len(t) \in Nat
         /\ \A k \in 1 .. Len(s) + Len(t) :
              (s \o t)[k] = IF k <= Len(s) THEN s[k] ELSE t[k - Len(s)]
<1> DEFINE S == Members(s) \cup Members(t)
<1>1. s \in Seq(S) /\ t \in Seq(S)  BY SeqShape, SeqMonotonic
<1> HIDE DEF S
<1>2. QED  BY <1>1, ConcatProperties, SeqFrom, SeqShape

\* The empty sequence.
LEMMA NoneIsSeq == IsSeq(<<>>) /\ Len(<<>>) = 0 /\ DOMAIN <<>> = {}
<1>1. <<>> \in Seq({})  BY EmptySeq
<1>2. Len(<<>>) = 0  BY EmptySeq
<1> DEFINE s == <<>>
<1> HIDE DEF s
<1>3. IsSeq(s)  BY <1>1, SeqFrom DEF s
<1>4. DOMAIN s = 1 .. Len(s)  BY <1>3, SeqShape
<1>5. QED  BY <1>2, <1>3, <1>4 DEF s

\* A sequence of one place.
LEMMA OneIsSeq ==
  ASSUME NEW e
  PROVE  IsSeq(<<e>>) /\ Len(<<e>>) = 1 /\ <<e>>[1] = e
<1>1. <<e>> \in Seq({e})  OBVIOUS
<1>2. QED  BY <1>1, SeqFrom

\* The events move up.
Rotated(ev) == Append(Tail(ev), <<>>)
\* The events of the next cycle come to the front, and a free cycle to the
\* end.
LEMMA RotatedShape ==
  ASSUME NEW ev, EventsShape(ev)
  PROVE  /\ EventsShape(Rotated(ev)) /\ L2_delay \in Nat \ {0} /\ Head(ev) = ev[1]
         /\ 1 \in 1 .. L2_delay
         /\ \A k \in 1 .. L2_delay - 1 : Rotated(ev)[k] = ev[k + 1]
         /\ Rotated(ev)[L2_delay] = <<>>
<1>0. L2_delay \in Nat \ {0} /\ IsSeq(ev) /\ Len(ev) = L2_delay  BY SizesAssumption DEF EventsShape
<1> DEFINE t == Tail(ev)
<1>1. IsSeq(t) /\ Len(t) = L2_delay - 1 /\ Head(ev) = ev[1]
      /\ \A k \in 1 .. L2_delay - 1 : t[k] = ev[k + 1]
  BY <1>0, SeqTail
<1> HIDE DEF t
<1>2. /\ IsSeq(Rotated(ev)) /\ Len(Rotated(ev)) = L2_delay
      /\ \A k \in 1 .. L2_delay - 1 : Rotated(ev)[k] = t[k]
      /\ Rotated(ev)[L2_delay] = <<>>
  <2>1. (L2_delay - 1) + 1 = L2_delay  BY <1>0
  <2>2. Rotated(ev) = Append(t, <<>>)  BY DEF Rotated, t
  <2>3. QED  BY <1>1, <2>1, <2>2, SeqAppend
<1>3. \A k \in 1 .. L2_delay : IsSeq(Rotated(ev)[k])
  <2> SUFFICES ASSUME NEW k \in 1 .. L2_delay PROVE IsSeq(Rotated(ev)[k])  OBVIOUS
  <2>1. CASE k = L2_delay  BY <1>2, <2>1, NoneIsSeq
  <2>2. CASE k # L2_delay
    <3>1. k \in 1 .. L2_delay - 1 /\ k + 1 \in 1 .. L2_delay  BY <1>0, <2>2
    <3>2. QED  BY <1>1, <1>2, <3>1 DEF EventsShape
  <2>3. QED  BY <2>1, <2>2
<1>4. 1 \in 1 .. L2_delay  BY <1>0
<1>5. QED  BY <1>0, <1>1, <1>2, <1>3, <1>4 DEF EventsShape

-----------------------------------------------------------------------------
(***************************************************************************)
(* The events of a cycle.                                                  *)
(***************************************************************************)

\* Only a request of this home is in a round of interventions.
LEMMA RoundServes ==
  ASSUME NEW n, NEW v, NEW e, EntryOK(n, e, v), Round(e)
  PROVE  Serves(n, e)
<1>1. e.state \in {"MODIFY_L1", "L2_MISS"} /\ ~External(e)  BY DEF Round
<1>2. OwnOK(n, e)  BY <1>1 DEF EntryOK
<1>3. QED  BY <1>1, <1>2 DEF OwnOK, RemoteStates, Serves, Issued

\* scache_refill.
LEMMA RefillDone ==
  ASSUME NEW st, NEW v, Solid(st, v), NEW i \in Entries, Serves(st.cpuid, st.missq[i]),
         ~External(st.missq[i]), st.missq[i].state = "REFILL_L2",
         NEW x, x = scache_refill(st, i)
  PROVE  ProbeDone(st, x, i, v)
<1> DEFINE n == st.cpuid  e == st.missq[i]
           inst == e.cache = "icache"
           f == [Answer(st, e) EXCEPT !.cache_status = IF inst THEN @ ELSE "EXCLUSIVE"]
           b == [tag |-> e.blk, directory |-> {L1Of(e)}, dirty |-> FALSE,
                 status |-> IF inst THEN "SHARED" ELSE "EXCLUSIVE"]
<1>0. /\ DOMAIN st = CpuFields /\ DOMAIN st.missq = Entries /\ DOMAIN st.dl2 = L2Ways
      /\ \A k \in L2Ways : L2OK(n, st.dl2[k], v.text)
      /\ \A j \in Entries : EntryOK(n, st.missq[j], v)
      /\ OneServed(n, st.missq)
  BY DEF Solid, Core
<1>1. /\ DOMAIN e = EntryFields /\ e.cpuid \in Cpus /\ e.cache = CacheOf(e.blk, v.text)
      /\ e.blk \in Blocks /\ Owner[e.blk] = n
  BY <1>0 DEF EntryOK, Serves
<1>2. /\ x.missq = [st.missq EXCEPT ![i] = f] /\ x.events = st.events
      /\ x.dl2 = [st.dl2 EXCEPT ![e.L2_way] = b]
      /\ x.refilltag = st.refilltag /\ x.refilli = st.refilli /\ Frame(st, x)
  <2>1. x = [st EXCEPT !.dl2[e.L2_way] = b, !.missq[i] = f]  BY DEF scache_refill
  <2> HIDE DEF f, b
  <2>2. x.missq = [st.missq EXCEPT ![i] = f] /\ x.events = st.events
    BY <1>0, <2>1 DEF CpuFields
  <2>3. x.refilltag = st.refilltag /\ x.refilli = st.refilli /\ Frame(st, x)
    BY <1>0, <2>1 DEF CpuFields, Frame, WPart, LPart
  <2>4. x.dl2 = [st.dl2 EXCEPT ![e.L2_way] = b]
    BY <1>0, <2>1 DEF CpuFields
  <2>5. QED  BY <2>2, <2>3, <2>4
<1>3. Names(e, f) /\ f.state = IF e.cpuid = n THEN "REPLACE_L1" ELSE "EXTRDY"
  BY <1>1 DEF Answer, EntryFields, Names
<1>b. L2OK(n, b, v.text)
  <2>1. DirectoryOK(b.directory, b.tag, v.text)  BY <1>1 DEF DirectoryOK, L1Of
  <2>2. QED  BY <1>1, <2>1 DEF L2OK, L2Fields
<1> HIDE DEF f, b
<1>4. EntryOK(n, f, v) /\ Calm(n, e, f, v) /\ KeepsServed(n, e, f) /\ ~External(f)
  BY <1>0, <1>3, HomeEntry
<1>5. RoundOK(n, f, x.dl2, v)  BY <1>3 DEF RoundOK, Round
<1>6. Quiet(n, e, f, v)  BY <1>4 DEF Quiet, KeepsPending, Pending, Round
<1>7. DOMAIN x.dl2 = L2Ways /\ \A k \in L2Ways : L2OK(n, x.dl2[k], v.text)
  BY <1>0, <1>2, <1>b
<1>8. \A j \in Entries \ {i} : ~Round(st.missq[j])
  BY <1>0, RoundServes DEF OneServed
<1>9. QED  BY <1>2, <1>5, <1>6, <1>7, <1>8 DEF ProbeDone, SolidStep

\* The L2 changes, but not its tags.
HomeStep(st, x, v) ==
  /\ Frame(st, x) /\ x.missq = st.missq /\ x.refilltag = st.refilltag /\ x.refilli = st.refilli
  /\ DOMAIN x.dl2 = L2Ways
  /\ \A w \in L2Ways : x.dl2[w].tag = st.dl2[w].tag /\ L2OK(st.cpuid, x.dl2[w], v.text)

\* A step of the L2 and of the entry served keeps the rest.
LEMMA SolidHome ==
  ASSUME NEW st, NEW v, Solid(st, v), NEW x, HomeStep(st, x, v)
  PROVE  Solid(x, v)
<1> DEFINE n == st.cpuid  q == st.missq
<1>0. Core(n, q, st.missq_num, st.dl2, st.refilltag, st.refilli, v) /\ Outs(n, q, st.out, v)
  BY DEF Solid
<1>1. \A i \in Entries : RoundOK(n, q[i], x.dl2, v)
  <2> SUFFICES ASSUME NEW i \in Entries PROVE RoundOK(n, q[i], x.dl2, v)  OBVIOUS
  <2>1. RoundOK(n, q[i], st.dl2, v)  BY <1>0 DEF Core
  <2>2. CASE Round(q[i])  BY <2>1, <2>2, RoundKept DEF HomeStep, RoundOK
  <2>3. CASE ~Round(q[i])  BY <2>3 DEF RoundOK
  <2>4. QED  BY <2>2, <2>3
<1>2. Core(n, q, st.missq_num, x.dl2, st.refilltag, st.refilli, v)
  BY <1>0, <1>1 DEF Core, HomeStep
<1>3. W(x) /\ L(x, v)  BY SameW, SameL DEF HomeStep, Frame, Solid
<1>4. QED  BY <1>0, <1>2, <1>3 DEF Solid, HomeStep, Frame

\* scache_writeback drops a cache from the directory only.
LEMMA WritebackDone ==
  ASSUME NEW st, NEW v, Solid(st, v), NEW l1, NEW req, NEW blk,
         NEW x, x = scache_writeback(st, l1, req, blk)
  PROVE  HomeStep(st, x, v) /\ x.events = st.events
<1> DEFINE New(w) == [st.dl2[w] EXCEPT !.directory = @ \ {l1}, !.dirty = @ \/ req = "WRITEBACK"]
           d == [w \in L2Ways |-> IF w \in L2Hit(st, blk) THEN New(w) ELSE st.dl2[w]]
<1>0. /\ DOMAIN st = CpuFields /\ DOMAIN st.dl2 = L2Ways
      /\ \A k \in L2Ways : L2OK(st.cpuid, st.dl2[k], v.text)
  BY DEF Solid, Core
<1>1. x = [st EXCEPT !.dl2 = d]
  <2>1. x = [st EXCEPT !.dl2 = [w \in L2Ways |->
               IF w \in L2Hit(st, blk)
               THEN [st.dl2[w] EXCEPT !.directory = st.dl2[w].directory \ {l1},
                                      !.dirty = st.dl2[w].dirty \/ req = "WRITEBACK"]
               ELSE st.dl2[w]]]
    BY DEF scache_writeback
  <2>2. QED  BY <2>1
<1>2. \A w \in L2Ways : New(w).tag = st.dl2[w].tag /\ L2OK(st.cpuid, New(w), v.text)
  <2> SUFFICES ASSUME NEW w \in L2Ways
               PROVE  New(w).tag = st.dl2[w].tag /\ L2OK(st.cpuid, New(w), v.text)
    OBVIOUS
  <2>1. L2OK(st.cpuid, st.dl2[w], v.text)  BY <1>0
  <2>2. /\ DOMAIN New(w) = L2Fields /\ New(w).tag = st.dl2[w].tag
        /\ New(w).status = st.dl2[w].status
        /\ New(w).directory \subseteq st.dl2[w].directory
    BY <2>1 DEF L2OK, L2Fields
  <2> HIDE DEF New
  <2>3. QED  BY <2>1, <2>2 DEF L2OK, DirectoryOK
<1> HIDE DEF New
<1>3. DOMAIN d = L2Ways
      /\ \A w \in L2Ways : d[w].tag = st.dl2[w].tag /\ L2OK(st.cpuid, d[w], v.text)
  BY <1>0, <1>2
<1> HIDE DEF d
<1>4. /\ x.dl2 = d /\ Frame(st, x) /\ x.missq = st.missq /\ x.refilltag = st.refilltag
      /\ x.refilli = st.refilli /\ x.events = st.events
  BY <1>0, <1>1 DEF CpuFields, Frame, WPart, LPart
<1>5. QED  BY <1>3, <1>4 DEF HomeStep

\* The events due run one after the other.
Runs(g, a, due, victim) ==
  g = [k \in 0 .. Len(due) |-> IF k = 0 THEN a ELSE RunEvent(g[k - 1], due[k], victim)]

\* The events of a cycle can be run one after the other.
LEMMA RunsExist ==
  ASSUME NEW a, NEW due, Len(due) \in Nat, NEW victim
  PROVE  \E g : Runs(g, a, due, victim)
<1> DEFINE Rec(g, m) ==
      g = [k \in 0 .. m |-> IF k = 0 THEN a ELSE RunEvent(g[k - 1], due[k], victim)]
           T == {m \in Nat : ~ \E g : Rec(g, m)}
<1>1. ASSUME T # {} PROVE FALSE
  <2>1. PICK m \in T : \A y \in T : m <= y
    <3> HIDE DEF Rec
    <3>1. T \in SUBSET Nat  OBVIOUS
    <3> HIDE DEF T
    <3>2. QED  BY <1>1, <3>1, LeastNat
  <2>2. m # 0
    <3>1. Rec([k \in 0 .. 0 |-> a], 0)  OBVIOUS
    <3> HIDE DEF Rec
    <3>2. QED  BY <3>1
  <2>3. m - 1 \in Nat /\ m - 1 \notin T /\ m \in Nat
    <3> HIDE DEF Rec
    <3>1. m \in Nat  OBVIOUS
    <3> HIDE DEF T
    <3>2. QED  BY <2>1, <2>2, <3>1
  <2>4. PICK g : Rec(g, m - 1)
    <3> HIDE DEF Rec
    <3>1. QED  BY <2>3
  <2> DEFINE h == [k \in 0 .. m |-> IF k < m THEN g[k] ELSE RunEvent(g[m - 1], due[m], victim)]
  <2>5. \A k \in 0 .. m - 1 : g[k] = IF k = 0 THEN a ELSE RunEvent(g[k - 1], due[k], victim)
    BY <2>4
  <2>6. ASSUME NEW k \in 0 .. m
        PROVE  h[k] = IF k = 0 THEN a ELSE RunEvent(h[k - 1], due[k], victim)
    <3>1. CASE k < m
      <4>1. k \in 0 .. m - 1 /\ h[k] = g[k] /\ (k # 0 => k - 1 \in 0 .. m /\ k - 1 < m)
        BY <2>3, <3>1
      <4>2. k # 0 => h[k - 1] = g[k - 1]  BY <4>1
      <4>3. QED  BY <2>5, <4>1, <4>2
    <3>2. CASE ~ (k < m)
      <4>1. k = m /\ k # 0 /\ m - 1 \in 0 .. m /\ m - 1 < m  BY <2>2, <2>3, <3>2
      <4>2. h[m] = RunEvent(g[m - 1], due[m], victim) /\ h[m - 1] = g[m - 1]  BY <2>3, <4>1
      <4>3. QED  BY <4>1, <4>2
    <3>3. QED  BY <3>1, <3>2
  <2>7. Rec(h, m)
    <3>1. h = [k \in 0 .. m |-> h[k]]  OBVIOUS
    <3> HIDE DEF h
    <3>2. QED  BY <2>6, <3>1
  <2>8. \E x : Rec(x, m)
    <3> HIDE DEF Rec, h
    <3>1. QED  BY <2>7
  <2>9. QED
    <3> HIDE DEF Rec
    <3>1. QED  BY <2>8
<1>2. \E g : Rec(g, Len(due))
  <2> HIDE DEF Rec
  <2>1. QED  BY <1>1
<1>3. QED  BY <1>2 DEF Runs

\* The last of a chain of states, each from the one before.
LEMMA RanAll ==
  ASSUME NEW st, NEW victim, Len(Head(st.events)) \in Nat
  PROVE  \E g : /\ Runs(g, [st EXCEPT !.events = Rotated(st.events)], Head(st.events), victim)
                /\ eventq_service_events(st, victim) = g[Len(Head(st.events))]
<1> DEFINE due == Head(st.events)
           a == [st EXCEPT !.events = Append(Tail(@), <<>>)]
           Rec(g) == Runs(g, a, due, victim)
           c == CHOOSE g : Rec(g)
<1>1. a = [st EXCEPT !.events = Rotated(st.events)]  BY DEF Rotated
<1>2. eventq_service_events(st, victim) = c[Len(due)]
  BY DEF eventq_service_events, Runs
<1>3. Rec(c)
  <2>1. \E g : Rec(g)
    <3> HIDE DEF a, due
    <3>1. Len(due) \in Nat  BY DEF due
    <3>2. QED  BY <3>1, RunsExist
  <2> HIDE DEF Rec
  <2>2. QED  BY <2>1
<1> HIDE DEF c
<1>4. QED  BY <1>1, <1>2, <1>3

\* An event that is due keeps the invariant without the events.
LEMMA EventRuns ==
  ASSUME NEW s, NEW v, Solid(s, v), NEW x, EventOK(s.cpuid, s.missq, x), NEW victim \in L2Ways,
         NEW y, y = RunEvent(s, x, victim)
  PROVE  /\ Solid(y, v) /\ Frame(s, y) /\ y.events = s.events
         /\ ~Due(x) => y.missq = s.missq
<1> DEFINE n == s.cpuid  i == x.qid  e == s.missq[i]
<1>1. CASE x.fn = "scache_probe"
  <2>1. Due(x) /\ i \in Entries /\ Awaits(n, e, x)  BY <1>1 DEF Due, EventOK
  <2>2. Probes(n, e) /\ x.req = e.req /\ x.blk = e.blk  BY <1>1, <2>1 DEF Awaits, Probes
  <2>3. y = scache_probe(s, i, x.req, x.blk, victim)  BY <1>1 DEF RunEvent
  <2>4. ProbeDone(s, y, i, v)  BY <2>1, <2>2, <2>3, ProbeSolid
  <2>5. QED  BY <2>1, <2>4, SolidChange DEF ProbeDone, SolidStep
<1>2. CASE x.fn = "scache_refill"
  <2>1. Due(x) /\ i \in Entries /\ Awaits(n, e, x)  BY <1>2 DEF Due, EventOK
  <2>2. Serves(n, e) /\ ~External(e) /\ e.state = "REFILL_L2"  BY <1>2, <2>1 DEF Awaits
  <2>3. y = scache_refill(s, i)  BY <1>2 DEF RunEvent
  <2>4. ProbeDone(s, y, i, v)  BY <2>1, <2>2, <2>3, RefillDone
  <2>5. QED  BY <2>1, <2>4, SolidChange DEF ProbeDone, SolidStep
<1>3. CASE x.fn = "scache_writeback"
  <2>1. y = scache_writeback(s, x.l1, x.req, x.blk)  BY <1>3 DEF RunEvent
  <2>2. HomeStep(s, y, v) /\ y.events = s.events  BY <2>1, WritebackDone
  <2>3. QED  BY <2>2, SolidHome DEF HomeStep
<1>4. QED  BY <1>1, <1>2, <1>3 DEF EventOK

\* After k of the events due, the others may still run.
Served(st, v, g, k) ==
  LET s == g[k] IN
  /\ Solid(s, v) /\ s.cpuid = st.cpuid /\ s.out = st.out
  /\ WPart(s) = WPart(st) /\ LPart(s) = LPart(st) /\ s.events = Rotated(st.events)
  /\ EventsOK(st.cpuid, s.missq, Rotated(st.events))
  /\ \A m \in DOMAIN Head(st.events) : m > k => EventOK(st.cpuid, s.missq, Head(st.events)[m])

\* Before the first event of a cycle is run ...
LEMMA ServedFirst ==
  ASSUME NEW st, NEW v, Good(st, v), NEW g,
         g[0] = [st EXCEPT !.events = Rotated(st.events)]
  PROVE  Served(st, v, g, 0)
<1> DEFINE n == st.cpuid  ev == st.events  s == [st EXCEPT !.events = Rotated(ev)]
<1>0. Solid(st, v) /\ EventsShape(ev) /\ EventsOK(n, st.missq, ev)  BY GoodParts DEF Evs
<1>1. DOMAIN st = CpuFields  BY <1>0 DEF Solid
<1>2. /\ DOMAIN s = CpuFields /\ \A f \in CpuFields \ {"events"} : s[f] = st[f]
      /\ s.events = Rotated(ev)
  BY <1>1 DEF CpuFields
<1>3. WPart(s) = WPart(st) /\ LPart(s) = LPart(st)  BY <1>2 DEF CpuFields, WPart, LPart
<1>4. /\ s.cpuid = n /\ s.out = st.out /\ s.missq = st.missq /\ s.missq_num = st.missq_num
      /\ s.dl2 = st.dl2 /\ s.refilltag = st.refilltag /\ s.refilli = st.refilli
  BY <1>2 DEF CpuFields
<1> HIDE DEF s
<1>5. Solid(s, v)  BY <1>0, <1>2, <1>3, <1>4, SameW, SameL DEF Solid
<1>6. EventsOK(n, st.missq, Rotated(ev))
  <2> SUFFICES ASSUME NEW k \in 1 .. L2_delay, NEW m \in DOMAIN Rotated(ev)[k]
               PROVE  EventOK(n, st.missq, Rotated(ev)[k][m])
    BY DEF EventsOK
  <2>1. CASE k = L2_delay
    <3>1. DOMAIN Rotated(ev)[k] = {}  BY <1>0, <2>1, RotatedShape, NoneIsSeq
    <3>2. QED  BY <3>1
  <2>2. CASE k # L2_delay
    <3>1. k \in 1 .. L2_delay - 1 /\ k + 1 \in 1 .. L2_delay  BY <1>0, <2>2, RotatedShape
    <3>2. Rotated(ev)[k] = ev[k + 1]  BY <1>0, <3>1, RotatedShape
    <3>3. QED  BY <1>0, <3>1, <3>2 DEF EventsOK
  <2>3. QED  BY <2>1, <2>2
<1>7. \A m \in DOMAIN Head(ev) : EventOK(n, st.missq, Head(ev)[m])
  <2>1. Head(ev) = ev[1] /\ 1 \in 1 .. L2_delay  BY <1>0, RotatedShape
  <2>2. QED  BY <1>0, <2>1 DEF EventsOK
<1>8. g[0] = s  BY DEF s
<1>9. QED  BY <1>2, <1>3, <1>4, <1>5, <1>6, <1>7, <1>8 DEF Served

\* ... and after each of them, those that are left still wait for their
\* requests.
LEMMA ServedNext ==
  ASSUME NEW st, NEW v, Good(st, v), NEW g, NEW k \in Nat, k > 0, k \in DOMAIN Head(st.events),
         Served(st, v, g, k - 1), NEW victim \in L2Ways,
         g[k] = RunEvent(g[k - 1], Head(st.events)[k], victim)
  PROVE  Served(st, v, g, k)
<1> DEFINE n == st.cpuid  ev == st.events  due == Head(ev)  s == g[k - 1]  y == g[k]  x == due[k]
<1>0. EventsShape(ev) /\ OneDue(ev)  BY GoodParts DEF Evs
<1>1. /\ Solid(s, v) /\ s.cpuid = n /\ s.out = st.out
      /\ WPart(s) = WPart(st) /\ LPart(s) = LPart(st) /\ s.events = Rotated(ev)
      /\ EventsOK(n, s.missq, Rotated(ev))
      /\ \A m \in DOMAIN due : m > k - 1 => EventOK(n, s.missq, due[m])
  BY DEF Served
<1>2. EventOK(n, s.missq, x)  BY <1>1
<1>3. /\ Solid(y, v) /\ Frame(s, y) /\ y.events = s.events
      /\ ~Due(x) => y.missq = s.missq
  BY <1>1, <1>2, EventRuns
<1>4. y.cpuid = n /\ y.out = st.out /\ WPart(y) = WPart(st) /\ LPart(y) = LPart(st)
      /\ y.events = Rotated(ev)
  BY <1>1, <1>3 DEF Frame
<1>5. EventsOK(n, y.missq, Rotated(ev))
      /\ \A m \in DOMAIN due : m > k => EventOK(n, y.missq, due[m])
  <2>0. \A m \in DOMAIN due : m > k => EventOK(n, s.missq, due[m])
    <3>1. \A m \in DOMAIN due : m > k => m > k - 1
      <4>1. Len(due) \in Nat /\ DOMAIN due = 1 .. Len(due)
        <5>1. due = ev[1] /\ 1 \in 1 .. L2_delay  BY <1>0, RotatedShape
        <5>2. IsSeq(due)  BY <1>0, <5>1 DEF EventsShape
        <5>3. QED  BY <5>2, SeqShape
      <4>2. QED  BY <4>1
    <3>2. QED  BY <1>1, <3>1
  <2>1. CASE ~Due(x)  BY <1>1, <1>3, <2>0, <2>1
  <2>2. CASE Due(x)
    <3>0. due = ev[1] /\ 1 \in 1 .. L2_delay  BY <1>0, RotatedShape
    <3>1. \A j \in 1 .. L2_delay : \A m \in DOMAIN ev[j] : Due(ev[j][m]) => j = 1 /\ m = k
      BY <1>0, <2>2, <3>0 DEF OneDue
    <3>2. \A m \in DOMAIN due : m > k => ~Due(due[m])  BY <3>0, <3>1
    <3>3. ASSUME NEW j \in 1 .. L2_delay, NEW m \in DOMAIN Rotated(ev)[j]
          PROVE  ~Due(Rotated(ev)[j][m])
      <4>1. CASE j = L2_delay
        <5>1. DOMAIN Rotated(ev)[j] = {}  BY <1>0, <4>1, RotatedShape, NoneIsSeq
        <5>2. QED  BY <3>3, <5>1
      <4>2. CASE j # L2_delay
        <5>1. j \in 1 .. L2_delay - 1 /\ j + 1 \in 1 .. L2_delay /\ j + 1 # 1
          BY <1>0, <4>2, RotatedShape
        <5>2. Rotated(ev)[j] = ev[j + 1]  BY <1>0, <5>1, RotatedShape
        <5>3. QED  BY <3>1, <3>3, <5>1, <5>2
      <4>3. QED  BY <4>1, <4>2
    <3>4. QED  BY <1>1, <2>0, <3>2, <3>3 DEF EventsOK, EventOK
  <2>3. QED  BY <2>1, <2>2
<1>6. QED  BY <1>3, <1>4, <1>5 DEF Served

\* eventq_service_events keeps the invariant.
LEMMA EventsServed ==
  ASSUME NEW st, NEW v, Good(st, v), NEW victim \in L2Ways,
         NEW x, x = eventq_service_events(st, victim)
  PROVE  Good(x, v) /\ WPart(x) = WPart(st) /\ LPart(x) = LPart(st) /\ x.out = st.out
<1> DEFINE n == st.cpuid  ev == st.events  due == Head(ev)
<1>0. EventsShape(ev) /\ OneDue(ev)  BY GoodParts DEF Evs
<1>1. Len(due) \in Nat /\ DOMAIN due = 1 .. Len(due)
  <2>1. due = ev[1] /\ 1 \in 1 .. L2_delay  BY <1>0, RotatedShape
  <2>2. IsSeq(due)  BY <1>0, <2>1 DEF EventsShape
  <2>3. QED  BY <2>2, SeqShape
<1>2. PICK g : Runs(g, [st EXCEPT !.events = Rotated(ev)], due, victim) /\ x = g[Len(due)]
  BY <1>1, RanAll
<1>3. /\ g[0] = [st EXCEPT !.events = Rotated(ev)]
      /\ \A k \in 1 .. Len(due) : g[k] = RunEvent(g[k - 1], due[k], victim)
  <2> DEFINE a == [st EXCEPT !.events = Rotated(ev)]
  <2>1. g = [k \in 0 .. Len(due) |-> IF k = 0 THEN a ELSE RunEvent(g[k - 1], due[k], victim)]
    BY <1>2 DEF Runs
  <2> HIDE DEF a
  <2>2. g[0] = a  BY <1>1, <2>1
  <2>3. ASSUME NEW k \in 1 .. Len(due) PROVE g[k] = RunEvent(g[k - 1], due[k], victim)
    <3>1. k \in 0 .. Len(due) /\ k # 0  BY <1>1
    <3>2. QED  BY ONLY <2>1, <3>1
  <2>4. QED  BY <2>2, <2>3 DEF a
<1> HIDE DEF due
<1> DEFINE T == {k \in Nat : k <= Len(due) /\ ~Served(st, v, g, k)}
<1>4. T = {}
  <2> SUFFICES ASSUME T # {} PROVE FALSE  OBVIOUS
  <2>1. PICK k \in T : \A y \in T : k <= y
    <3>1. T \in SUBSET Nat  OBVIOUS
    <3> HIDE DEF T
    <3>2. QED  BY <3>1, LeastNat
  <2>2. k # 0  BY <1>3, ServedFirst
  <2>3. k - 1 \in Nat /\ k - 1 \notin T /\ k \in 1 .. Len(due)  BY <1>1, <2>1, <2>2
  <2>4. Served(st, v, g, k - 1)  BY <1>1, <2>3
  <2>5. Served(st, v, g, k)  BY <1>1, <1>3, <2>3, <2>4, ServedNext DEF due
  <2>6. QED  BY <2>1, <2>5
<1>5. Served(st, v, g, Len(due))  BY <1>1, <1>4
<1>6. /\ Solid(x, v) /\ x.cpuid = n /\ x.out = st.out
      /\ WPart(x) = WPart(st) /\ LPart(x) = LPart(st) /\ x.events = Rotated(ev)
      /\ EventsOK(n, x.missq, Rotated(ev))
  BY <1>2, <1>5 DEF Served
<1>7. OneDue(Rotated(ev))
  <2> SUFFICES ASSUME NEW k1 \in 1 .. L2_delay, NEW k2 \in 1 .. L2_delay,
                      NEW m1 \in DOMAIN Rotated(ev)[k1], NEW m2 \in DOMAIN Rotated(ev)[k2],
                      Due(Rotated(ev)[k1][m1]), Due(Rotated(ev)[k2][m2])
               PROVE  k1 = k2 /\ m1 = m2
    BY DEF OneDue
  <2>1. L2_delay \in Nat \ {0}  BY <1>0, RotatedShape
  <2>2. k1 # L2_delay /\ k2 # L2_delay
    <3>1. DOMAIN Rotated(ev)[L2_delay] = {}  BY <1>0, RotatedShape, NoneIsSeq
    <3>2. QED  BY <3>1
  <2>3. /\ k1 \in 1 .. L2_delay - 1 /\ k1 + 1 \in 1 .. L2_delay
        /\ k2 \in 1 .. L2_delay - 1 /\ k2 + 1 \in 1 .. L2_delay
    BY <2>1, <2>2
  <2>4. Rotated(ev)[k1] = ev[k1 + 1] /\ Rotated(ev)[k2] = ev[k2 + 1]
    BY <1>0, <2>3, RotatedShape
  <2>5. k1 + 1 = k2 + 1 /\ m1 = m2  BY <1>0, <2>3, <2>4 DEF OneDue
  <2>6. QED  BY <2>3, <2>5
<1>8. EventsShape(Rotated(ev))  BY <1>0, RotatedShape
<1>9. QED  BY <1>6, <1>7, <1>8, GoodParts DEF Evs

-----------------------------------------------------------------------------
(***************************************************************************)
(* Memory and redirection.                                                 *)
(***************************************************************************)

\* An entry that changes in nothing the invariant looks at.
LooksAs(e, f) ==
  AckFields(e, f) /\ f.sent = e.sent /\ f.acked = e.acked /\ f.scache_refilled = e.scache_refilled

\* A change to the fields that only the L2 and the memory look at is none to
\* the protocol.
LEMMA Looks ==
  ASSUME NEW n, NEW v, NEW dl2, NEW e, NEW f, LooksAs(e, f), EntryOK(n, e, v), RoundOK(n, e, dl2, v)
  PROVE  /\ EntryOK(n, f, v) /\ RoundOK(n, f, dl2, v)
         /\ Serves(n, f) <=> Serves(n, e)
         /\ External(f) <=> External(e)
         /\ InstAsks(f) <=> InstAsks(e)
         /\ KeepsAwait(n, e, f)
         /\ \A l1 : Pending(f, l1) <=> Pending(e, l1)
<1>0. AckFields(e, f)  BY DEF LooksAs
<1>1. /\ External(f) <=> External(e)
      /\ Serves(n, f) <=> Serves(n, e)
      /\ Round(f) <=> Round(e)
  BY <1>0 DEF AckFields, External, Serves, Issued, Round
<1>2. InstAsks(f) <=> InstAsks(e)  BY <1>0, <1>1 DEF AckFields, InstAsks
<1>3. AskOK(n, e, v) => AskOK(n, f, v)  BY <1>0 DEF AckFields, AskOK
<1>4. OwnOK(n, e) => OwnOK(n, f)  BY <1>0 DEF AckFields, OwnOK
<1>5. EntryOK(n, f, v)  BY <1>0, <1>1, <1>3, <1>4 DEF AckFields, EntryOK
<1>6. RoundOK(n, f, dl2, v)
  <2>1. Target(f) = Target(e)  BY <1>0 DEF AckFields, Target
  <2>2. QED  BY <1>0, <1>1, <2>1 DEF AckFields, LooksAs, RoundOK
<1>7. \A l1 : Pending(f, l1) <=> Pending(e, l1)  BY <1>1 DEF Pending, LooksAs
<1>8. KeepsAwait(n, e, f)  BY DEF KeepsAwait, LooksAs, AckFields, Awaited
<1>9. QED  BY <1>1, <1>2, <1>5, <1>6, <1>7, <1>8

\* The same for the whole queue.
LEMMA LooksGood ==
  ASSUME NEW n, NEW v, NEW q, NEW r, NEW num, NEW dl2, NEW ev, NEW tag, NEW ri, NEW out,
         MissOK(n, q, num, dl2, ev, tag, ri, out, v), DOMAIN r = Entries,
         \A i \in Entries : r[i] = q[i] \/ LooksAs(q[i], r[i])
  PROVE  MissOK(n, r, num, dl2, ev, tag, ri, out, v)
<1>0. Core(n, q, num, dl2, tag, ri, v) /\ Evs(n, q, ev) /\ Outs(n, q, out, v)  BY DEF MissOK
<1>1. \A i \in Entries :
         /\ EntryOK(n, r[i], v) /\ RoundOK(n, r[i], dl2, v)
         /\ Serves(n, r[i]) <=> Serves(n, q[i])
         /\ External(r[i]) <=> External(q[i])
         /\ InstAsks(r[i]) <=> InstAsks(q[i])
         /\ r[i] = q[i] \/ KeepsAwait(n, q[i], r[i])
         /\ \A l1 : Pending(r[i], l1) <=> Pending(q[i], l1)
  <2> SUFFICES ASSUME NEW i \in Entries
               PROVE  /\ EntryOK(n, r[i], v) /\ RoundOK(n, r[i], dl2, v)
                      /\ Serves(n, r[i]) <=> Serves(n, q[i])
                      /\ External(r[i]) <=> External(q[i])
                      /\ InstAsks(r[i]) <=> InstAsks(q[i])
                      /\ r[i] = q[i] \/ KeepsAwait(n, q[i], r[i])
                      /\ \A l1 : Pending(r[i], l1) <=> Pending(q[i], l1)
    OBVIOUS
  <2>1. EntryOK(n, q[i], v) /\ RoundOK(n, q[i], dl2, v)  BY <1>0 DEF Core
  <2>2. CASE r[i] = q[i]  BY <2>1, <2>2
  <2>3. CASE LooksAs(q[i], r[i])  BY <2>1, <2>3, Looks
  <2>4. QED  BY <2>2, <2>3
<1>2. \A i \in Entries : /\ r[i].state = q[i].state /\ r[i].cpuid = q[i].cpuid
                         /\ r[i].cache = q[i].cache /\ r[i].blk = q[i].blk
                         /\ r[i].reissue = q[i].reissue /\ r[i].invn_match = q[i].invn_match
  BY DEF LooksAs, AckFields
<1>3. Occupied(r) = Occupied(q)  BY <1>2 DEF Occupied
<1>4. MatchOK(r)
  <2> SUFFICES ASSUME NEW i \in Entries, NEW j \in Entries, InstAsks(r[i]), j \in r[i].invn_match
               PROVE  j # i /\ r[j].state = "L1_MISS" /\ r[j].reissue /\ r[j].blk = r[i].blk
    BY DEF MatchOK
  <2>1. InstAsks(q[i]) /\ j \in q[i].invn_match  BY <1>1, <1>2
  <2>2. j # i /\ q[j].state = "L1_MISS" /\ q[j].reissue /\ q[j].blk = q[i].blk
    BY <1>0, <2>1 DEF Core, MatchOK
  <2>3. QED  BY <1>2, <2>2
<1>5. OneAsks(r) /\ OneServed(n, r) /\ SentOK(n, r, v)
  BY <1>0, <1>1, <1>2 DEF Core, OneAsks, SameAsk, OneServed, SentOK
<1>6. Core(n, r, num, dl2, tag, ri, v)
  BY <1>0, <1>1, <1>2, <1>3, <1>4, <1>5 DEF Core
<1>7. Evs(n, r, ev)  BY <1>0, <1>1, EvStep
<1>8. Outs(n, r, out, v)  BY <1>0, <1>1, <1>2, OutStep
<1>9. QED  BY <1>6, <1>7, <1>8 DEF MissOK

\* check_memq.
LEMMA MemoryGood ==
  ASSUME NEW st, NEW v, Good(st, v), NEW done, NEW x, x = check_memq(st, done)
  PROVE  Good(x, v) /\ WPart(x) = WPart(st) /\ LPart(x) = LPart(st) /\ x.out = st.out
<1> DEFINE Read(i) == [kind |-> "read", qid |-> i] \in done
           r == [i \in Entries |-> IF Read(i) THEN [st.missq[i] EXCEPT !.data = TRUE]
                                  ELSE st.missq[i]]
<1>0. DOMAIN st = CpuFields /\ \A i \in Entries : DOMAIN st.missq[i] = EntryFields
  BY CoreOf DEF EntryOK
<1>1. x = [st EXCEPT !.memq = st.memq \ done, !.missq = r]  BY DEF check_memq
<1>2. \A i \in Entries : r[i] = st.missq[i] \/ LooksAs(st.missq[i], r[i])
  BY <1>0 DEF LooksAs, AckFields, EntryFields
<1>3. DOMAIN r = Entries  OBVIOUS
<1> HIDE DEF r
<1>4. /\ DOMAIN x = CpuFields /\ x.missq = r /\ WPart(x) = WPart(st) /\ LPart(x) = LPart(st)
      /\ x.cpuid = st.cpuid /\ x.missq_num = st.missq_num /\ x.dl2 = st.dl2
      /\ x.events = st.events /\ x.refilltag = st.refilltag /\ x.refilli = st.refilli
      /\ x.out = st.out
  BY <1>0, <1>1 DEF CpuFields, WPart, LPart
<1>5. M(x, v)  BY <1>2, <1>3, <1>4, CoreOf, LooksGood DEF M
<1>6. QED  BY <1>4, <1>5, SameW, SameL DEF Good

\* tracer_recover cancels a fetch miss that has not entered the queue.
LEMMA RecoverGood ==
  ASSUME NEW st, NEW v, Good(st, v), NEW redirect, NEW x, x = tracer_recover(st, On(redirect))
  PROVE  Good(x, v) /\ WPart(x) = WPart(st) /\ MPart(x) = MPart(st) /\ x.out = st.out
<1>0. DOMAIN st = CpuFields /\ L(st, v)  BY DEF Good
<1>1. CASE x = st  BY <1>1
<1>2. CASE x = [st EXCEPT !.irepbuf.state = "EMPTY"]
  <2>1. /\ DOMAIN x = CpuFields /\ WPart(x) = WPart(st) /\ MPart(x) = MPart(st)
        /\ x.out = st.out /\ x.lsq = st.lsq /\ x.todo = st.todo /\ x.text = st.text
        /\ x.lsq_refill = st.lsq_refill /\ x.dcache_refill = st.dcache_refill
        /\ x.dtagcmp_refill = st.dtagcmp_refill
    BY <1>0, <1>2 DEF CpuFields, WPart, MPart
  <2>2. DOMAIN st.irepbuf = {"state", "blk", "way"}  BY <1>0 DEF L, LsqOK
  <2>3. x.irepbuf = [st.irepbuf EXCEPT !.state = "EMPTY"]  BY <1>0, <1>2 DEF CpuFields
  <2>4. DOMAIN x.irepbuf = {"state", "blk", "way"} /\ x.irepbuf.state = "EMPTY"  BY <2>2, <2>3
  <2>5. L(x, v)  BY <1>0, <2>1, <2>4 DEF L, LsqOK
  <2>6. QED  BY <2>1, <2>5, SameM, SameW DEF Good
<1>3. QED  BY <1>1, <1>2 DEF tracer_recover

-----------------------------------------------------------------------------
(***************************************************************************)
(* receive_miss: an own miss enters.                                       *)
(***************************************************************************)

\* No entry goes, and only those in a state of C leave it.
StatesKept(q, r, C) ==
  \A i \in Entries : q[i].state # "EMPTY" =>
    r[i].state # "EMPTY" /\ (q[i].state \notin C => r[i].state = q[i].state)

\* A function on an interval from 1 is a sequence.
LEMMA MapIsSeq ==
  ASSUME NEW n \in Nat, NEW s, DOMAIN s = 1 .. n, s = [k \in 1 .. n |-> s[k]]
  PROVE  IsSeq(s) /\ Len(s) = n
<1> DEFINE T == {s[k] : k \in 1 .. n}
<1>1. s \in [1 .. n -> T]  OBVIOUS
<1> HIDE DEF T
<1>2. s \in Seq(T)  BY <1>1, SeqDef
<1>3. QED  BY <1>2, SeqFrom, LenProperties

\* A sequence with one place changed is one.
LEMMA SeqExcept ==
  ASSUME NEW s, IsSeq(s), NEW k \in DOMAIN s, NEW e
  PROVE  /\ IsSeq([s EXCEPT ![k] = e]) /\ DOMAIN [s EXCEPT ![k] = e] = DOMAIN s
         /\ \A j \in DOMAIN s : [s EXCEPT ![k] = e][j] = IF j = k THEN e ELSE s[j]
<1>0. Len(s) \in Nat /\ DOMAIN s = 1 .. Len(s)  BY SeqShape
<1> DEFINE r == [s EXCEPT ![k] = e]  n == Len(s)
<1>1. DOMAIN r = 1 .. n /\ r = [j \in 1 .. n |-> r[j]]  BY <1>0
<1>2. \A j \in DOMAIN s : r[j] = IF j = k THEN e ELSE s[j]  OBVIOUS
<1> HIDE DEF r, n
<1>3. IsSeq(r)  BY <1>0, <1>1, MapIsSeq DEF n
<1>4. QED  BY <1>0, <1>1, <1>2, <1>3 DEF r, n

\* The load/store queue changes, and nothing else that the invariant looks at.
LsqStep(st, x, v) ==
  /\ DOMAIN x = CpuFields /\ MPart(x) = MPart(st) /\ WPart(x) = WPart(st)
  /\ x.todo = st.todo /\ x.text = st.text /\ x.irepbuf = st.irepbuf
  /\ x.dtagcmp_refill = st.dtagcmp_refill
  /\ IsSeq(x.lsq) /\ \A k \in DOMAIN x.lsq : AccessOK(x.lsq[k], v)
\* A step of the load/store queue leaves the other parts alone.
LEMMA LsqGood ==
  ASSUME NEW st, NEW v, Good(st, v), NEW x, LsqStep(st, x, v)
  PROVE  Good(x, v)
<1>1. x.lsq_refill = st.lsq_refill /\ x.dcache_refill = st.dcache_refill  BY DEF LsqStep, WPart
<1>2. L(x, v)  BY <1>1 DEF LsqStep, L, LsqOK, Good
<1>3. QED  BY <1>2, SameM, SameW DEF LsqStep, Good

\* What lsq offers has an entry to be in, or takes one.
Offered(st) == {j \in DOMAIN st.lsq : st.lsq[j].miss}
\* The miss that is received is one that lsq offers.
LEMMA FirstOffered ==
  ASSUME NEW st, NEW v, Good(st, v), Offered(st) # {}
  PROVE  Min(Offered(st)) \in DOMAIN st.lsq /\ st.lsq[Min(Offered(st))].miss
<1>1. IsSeq(st.lsq)  BY DEF Good, L, LsqOK
<1>2. DOMAIN st.lsq = 1 .. Len(st.lsq) /\ Len(st.lsq) \in Nat  BY <1>1, SeqShape
<1> DEFINE S == Offered(st)
<1>3. S \in SUBSET Nat  BY <1>2 DEF Offered
<1> HIDE DEF S
<1>4. Min(S) \in S  BY <1>3, LeastIn DEF S
<1>5. QED  BY <1>4 DEF S, Offered

TakenAs(st, k, req) ==
  [st EXCEPT !.lsq[k] = [@ EXCEPT !.req = req, !.fetching = TRUE, !.miss = FALSE]]
\* The access whose miss is received waits for its block.
LEMMA TakenGood ==
  ASSUME NEW st, NEW v, Good(st, v), NEW k \in DOMAIN st.lsq, NEW req \in Requests,
         NEW x, x = TakenAs(st, k, req)
  PROVE  Good(x, v) /\ MPart(x) = MPart(st) /\ WPart(x) = WPart(st)
<1> DEFINE a == st.lsq[k]
           b == [a EXCEPT !.req = req, !.fetching = TRUE, !.miss = FALSE]
<1>0. /\ DOMAIN st = CpuFields /\ IsSeq(st.lsq) /\ \A j \in DOMAIN st.lsq : AccessOK(st.lsq[j], v)
  BY DEF Good, L, LsqOK
<1>1. /\ DOMAIN b = LsqFields /\ b.blk = a.blk /\ b.state = a.state /\ b.req = req
      /\ b.miss = FALSE
  BY <1>0 DEF AccessOK, LsqFields
<1>2. x = [st EXCEPT !.lsq = [@ EXCEPT ![k] = b]]  BY DEF TakenAs
<1> HIDE DEF b
<1>3. AccessOK(b, v)
  <2>1. req # "NO_REQ"  BY DEF Requests
  <2>2. AccessOK(a, v)  BY <1>0
  <2>3. QED  BY <1>1, <2>1, <2>2 DEF AccessOK
<1>4. /\ DOMAIN x = CpuFields /\ MPart(x) = MPart(st) /\ WPart(x) = WPart(st)
      /\ x.todo = st.todo /\ x.text = st.text /\ x.irepbuf = st.irepbuf
      /\ x.dtagcmp_refill = st.dtagcmp_refill /\ x.lsq = [st.lsq EXCEPT ![k] = b]
  BY <1>0, <1>2 DEF CpuFields, MPart, WPart
<1>5. IsSeq(x.lsq) /\ \A j \in DOMAIN x.lsq : AccessOK(x.lsq[j], v)
  BY <1>0, <1>3, <1>4, SeqExcept
<1>6. LsqStep(st, x, v)  BY <1>4, <1>5 DEF LsqStep
<1>7. QED  BY <1>4, <1>6, LsqGood

\* A miss of this cpu takes an entry.
OwnEntry(n, req, cache, blk, word) ==
  IF cache = "icache"
  THEN [FreeEntry EXCEPT !.state = "L1_MISS", !.req = req, !.cpuid = n, !.cache = "icache",
                         !.blk = blk]
  ELSE [FreeEntry EXCEPT !.state = "L1_MISS", !.req = req, !.cpuid = n, !.blk = blk,
                         !.word = word]
\* An own miss takes a free entry (missq_enter).
LEMMA OwnEnters ==
  ASSUME NEW st, NEW v, Good(st, v), NEW req \in Requests, NEW cache, NEW blk \in Blocks, NEW word,
         cache = CacheOf(blk, v.text), cache = "icache" => req = "READ_SHD",
         st.missq_num < missq_ifq_size,
         NEW x, x = missq_enter(st, OwnEntry(st.cpuid, req, cache, blk, word))
  PROVE  /\ Good(x, v) /\ WPart(x) = WPart(st) /\ LPart(x) = LPart(st) /\ x.out = st.out
         /\ x.cpuid = st.cpuid /\ x.missq_num = st.missq_num + 1
         /\ \A g \in CpuFields \ {"missq", "missq_num"} : x[g] = st[g]
         /\ StatesKept(st.missq, x.missq, {})
<1> DEFINE n == st.cpuid  f == OwnEntry(n, req, cache, blk, word)
<1>0. n \in Cpus /\ DOMAIN st.missq = Entries /\ DOMAIN st = CpuFields  BY CoreOf
<1>1. /\ DOMAIN f = EntryFields /\ f.state = "L1_MISS" /\ f.req = req /\ f.cpuid = n
      /\ f.cache = cache /\ f.blk = blk /\ f.wait = 0 /\ f.invn_match = {}
  BY DEF OwnEntry, FreeEntry, EntryFields, CacheOf
<1> HIDE DEF f
<1>2. ~External(f)  BY <1>1 DEF External, Requests, Interventions
<1>3. OwnOK(n, f)  BY <1>1 DEF OwnOK, RemoteStates
<1>4. EntryOK(n, f, v)  BY <1>0, <1>1, <1>2, <1>3 DEF EntryOK
<1>5. x = missq_enter(st, f)  BY DEF f
<1>6. /\ Good(x, v) /\ WPart(x) = WPart(st) /\ LPart(x) = LPart(st)
      /\ x.out = st.out /\ x.cpuid = st.cpuid
      /\ \A g \in CpuFields \ {"missq", "missq_num"} : x[g] = st[g]
      /\ \E i \in Entries : /\ st.missq[i].state = "EMPTY"
                            /\ x.missq = [st.missq EXCEPT ![i] = f]
  BY <1>1, <1>2, <1>4, <1>5, MissEnters
<1>7. StatesKept(st.missq, x.missq, {})  BY <1>0, <1>6 DEF StatesKept
<1>8. x.missq_num = st.missq_num + 1  BY <1>0, <1>5 DEF missq_enter, CpuFields
<1>9. QED  BY <1>6, <1>7, <1>8

\* A read that is not issued becomes a READ_EX.
PromotedAs(st, i) == [st EXCEPT !.missq[i].req = "READ_EX"]
\* A write joins a read that is not issued (accept_miss).
LEMMA PromotedGood ==
  ASSUME NEW st, NEW v, Good(st, v), NEW i \in Entries, st.missq[i].state = "L1_MISS",
         st.missq[i].cache = "dcache", ~External(st.missq[i]),
         NEW x, x = PromotedAs(st, i)
  PROVE  /\ Good(x, v) /\ WPart(x) = WPart(st) /\ LPart(x) = LPart(st) /\ x.out = st.out
         /\ StatesKept(st.missq, x.missq, {})
<1> DEFINE n == st.cpuid  e == st.missq[i]  f == [e EXCEPT !.req = "READ_EX"]
<1>0. /\ DOMAIN st = CpuFields /\ DOMAIN st.missq = Entries /\ DOMAIN st.dl2 = L2Ways
      /\ \A w \in L2Ways : L2OK(n, st.dl2[w], v.text)
      /\ EntryOK(n, e, v)
  BY CoreOf
<1>1. DOMAIN e = EntryFields /\ e.state # "EMPTY" /\ OwnOK(n, e)  BY <1>0 DEF EntryOK
<1>2. /\ x.missq = [st.missq EXCEPT ![i] = f] /\ x.dl2 = st.dl2 /\ x.events = st.events
      /\ x.refilltag = st.refilltag /\ x.refilli = st.refilli /\ Frame(st, x)
  BY <1>0 DEF CpuFields, Frame, WPart, LPart, PromotedAs
<1>3. /\ DOMAIN f = EntryFields /\ f.req = "READ_EX" /\ f.state = "L1_MISS" /\ f.cpuid = e.cpuid
      /\ f.cache = "dcache" /\ f.blk = e.blk /\ f.qid = e.qid /\ f.wait = e.wait
      /\ f.invn_match = e.invn_match /\ f.reissue = e.reissue
  BY <1>1 DEF EntryFields
<1> HIDE DEF f
<1>4. ~External(f)  BY <1>3 DEF External, Interventions
<1>5. EntryOK(n, f, v)
  <2>1. OwnOK(n, f)  BY <1>1, <1>3 DEF OwnOK, RemoteStates
  <2>2. QED  BY <1>0, <1>1, <1>3, <1>4, <2>1 DEF EntryOK, Requests
<1>6. Calm(n, e, f, v)  BY <1>1, <1>3, <1>4, <1>5 DEF Calm, InstAsks
<1>7. Quiet(n, e, f, v)
  BY <1>3, <1>6 DEF Quiet, KeepsServed, Issued, KeepsPending, Pending, Round
<1>8. RoundOK(n, f, x.dl2, v) /\ KeepsAwait(n, e, f)
  BY <1>3 DEF RoundOK, Round, KeepsAwait, Awaited
<1>9. SolidStep(st, x, i, f, v)  BY <1>0, <1>2, <1>7, <1>8 DEF SolidStep
<1>10. Good(x, v)  BY <1>2, <1>8, <1>9, GoodChange
<1>11. StatesKept(st.missq, x.missq, {})  BY <1>0, <1>2, <1>3 DEF StatesKept
<1>12. QED  BY <1>2, <1>10, <1>11 DEF Frame

Received(st, x, v) ==
  /\ Good(x, v) /\ WPart(x) = WPart(st) /\ x.out = st.out /\ StatesKept(st.missq, x.missq, {})

\* accept_miss.
LEMMA AcceptGood ==
  ASSUME NEW st, NEW v, Good(st, v), Offered(st) # {}, st.missq_num < missq_ifq_size,
         NEW x, x = accept_miss(st)
  PROVE  Received(st, x, v)
<1> DEFINE n == st.cpuid
           k == Min({j \in DOMAIN st.lsq : st.lsq[j].miss})
           a == st.lsq[k]
           same == {i \in Entries : /\ Own(st, i) /\ st.missq[i].cache = "dcache"
                                    /\ st.missq[i].blk = a.blk}
           reads == {i \in same : /\ Issued(st.missq[i]) /\ st.missq[i].req = "READ_SHD"
                                  /\ a.req \in Writes}
           last == IF same = reads THEN None ELSE Min(same \ reads)
           upgrade == \E i \in reads : last = None \/ i < last
           req == IF upgrade THEN "UPGRADE" ELSE a.req
           taken == TakenAs(st, k, req)
           enters == last = None \/ (upgrade /\ ~(last # None /\ st.missq[last].req \in Writes))
           promoted == /\ last # None /\ req = "READ_EX" /\ st.missq[last].state = "L1_MISS"
                       /\ st.missq[last].req = "READ_SHD"
<1>1. k \in DOMAIN st.lsq /\ a.miss
  <2>1. k = Min(Offered(st))  BY DEF Offered
  <2>2. QED  BY <2>1, FirstOffered
<1>2. AccessOK(a, v)  BY <1>1 DEF Good, L, LsqOK
<1>3. a.req \in Requests /\ a.blk \in Blocks /\ a.blk \notin v.text
  BY <1>1, <1>2 DEF AccessOK
<1>4. req \in Requests
  <2> HIDE DEF upgrade
  <2>1. QED  BY <1>3 DEF Requests
<1>5. last # None => last \in same
  <2>1. same \ reads \in SUBSET Nat  BY DEF Entries
  <2>2. same # reads => same \ reads # {}  OBVIOUS
  <2> DEFINE S == same \ reads
  <2> HIDE DEF same, reads
  <2>3. S # {} => Min(S) \in S  BY <2>1, LeastIn
  <2>4. QED  BY <2>2, <2>3
<1>6. x = IF enters
          THEN missq_enter(taken, [FreeEntry EXCEPT !.state = "L1_MISS",
                 !.req = req, !.cpuid = st.cpuid, !.blk = a.blk, !.word = a.word])
          ELSE IF promoted THEN [taken EXCEPT !.missq[last].req = "READ_EX"]
          ELSE taken
  BY DEF accept_miss, TakenAs
<1>7. last # None => /\ last \in Entries /\ Own(st, last) /\ st.missq[last].cache = "dcache"
  BY <1>5
<1> HIDE DEF k, same, reads, last, upgrade, req
<1>8. Good(taken, v) /\ MPart(taken) = MPart(st) /\ WPart(taken) = WPart(st)
  BY <1>1, <1>4, TakenGood
<1>9. /\ taken.missq = st.missq /\ taken.missq_num = st.missq_num /\ taken.cpuid = n
      /\ taken.out = st.out
  BY <1>8 DEF MPart
<1>10. StatesKept(st.missq, st.missq, {})  BY DEF StatesKept
<1>11. CASE enters
  <2> DEFINE c == "dcache"
  <2>1. x = missq_enter(taken, OwnEntry(n, req, c, a.blk, a.word))
    BY <1>6, <1>11 DEF OwnEntry
  <2>2. c = CacheOf(a.blk, v.text) /\ c # "icache"  BY <1>3 DEF CacheOf
  <2> HIDE DEF c, taken
  <2>3. Received(taken, x, v)
    BY <1>3, <1>4, <1>8, <1>9, <2>1, <2>2, OwnEnters DEF Received
  <2>4. QED  BY <1>8, <1>9, <2>3 DEF Received
<1>12. CASE ~enters /\ promoted
  <2>1. x = PromotedAs(taken, last)  BY <1>6, <1>12 DEF PromotedAs
  <2>2. /\ last \in Entries /\ st.missq[last].cache = "dcache"
        /\ st.missq[last].state = "L1_MISS" /\ ~External(st.missq[last])
    BY <1>7, <1>12 DEF External, Interventions
  <2> HIDE DEF taken
  <2>a. /\ taken.missq[last].cache = "dcache" /\ taken.missq[last].state = "L1_MISS"
        /\ ~External(taken.missq[last])
    BY <1>9, <2>2
  <2>b. /\ Good(x, v) /\ WPart(x) = WPart(taken) /\ x.out = taken.out
        /\ StatesKept(taken.missq, x.missq, {})
    BY <1>8, <2>1, <2>2, <2>a, PromotedGood
  <2>3. Received(taken, x, v)  BY <2>b DEF Received
  <2>4. QED  BY <1>8, <1>9, <2>3 DEF Received
<1>13. CASE ~enters /\ ~promoted
  <2>1. x = taken  BY <1>6, <1>13
  <2>2. QED  BY <1>8, <1>9, <1>10, <2>1 DEF Received
<1>14. QED  BY <1>11, <1>12, <1>13

\* accept_imiss.
LEMMA AcceptInstGood ==
  ASSUME NEW st, NEW v, Good(st, v), st.irepbuf.state = "MISS", st.missq_num < missq_ifq_size,
         NEW x, x = accept_imiss(st)
  PROVE  Received(st, x, v)
<1> DEFINE n == st.cpuid  c == "icache"  r == "READ_SHD"  b == st.irepbuf.blk  w == 0
           y == missq_enter(st, OwnEntry(n, r, c, b, w))
<1>0. /\ b \in Blocks /\ b \in v.text /\ DOMAIN st.irepbuf = {"state", "blk", "way"}
  BY DEF Good, L, LsqOK
<1>1. x = [y EXCEPT !.irepbuf.state = "REFILL"]
  BY DEF accept_imiss, OwnEntry
<1>2. c = CacheOf(b, v.text) /\ r \in Requests  BY <1>0 DEF CacheOf, Requests
<1> HIDE DEF y
<1>3. Received(st, y, v) /\ LPart(y) = LPart(st)
  <2> HIDE DEF c, r, b, w
  <2>1. c = "icache" => r = "READ_SHD"  BY DEF r
  <2>2. QED  BY <1>0, <1>2, <2>1, OwnEnters DEF Received, y
<1>4. DOMAIN y = CpuFields /\ L(y, v)  BY <1>3 DEF Received, Good
<1>5. /\ DOMAIN x = CpuFields /\ WPart(x) = WPart(y) /\ MPart(x) = MPart(y)
      /\ x.missq = y.missq /\ x.out = y.out /\ x.lsq = y.lsq /\ x.todo = y.todo
      /\ x.text = y.text /\ x.irepbuf = [y.irepbuf EXCEPT !.state = "REFILL"]
      /\ x.lsq_refill = y.lsq_refill /\ x.dcache_refill = y.dcache_refill
      /\ x.dtagcmp_refill = y.dtagcmp_refill
  BY <1>1, <1>4 DEF CpuFields, WPart, MPart
<1>6. DOMAIN x.irepbuf = {"state", "blk", "way"} /\ x.irepbuf.state = "REFILL"
  BY <1>4, <1>5 DEF L, LsqOK
<1>7. L(x, v)  BY <1>4, <1>5, <1>6 DEF L, LsqOK
<1>8. Good(x, v)  BY <1>3, <1>5, <1>7, SameM, SameW DEF Received, Good
<1>9. QED  BY <1>3, <1>5, <1>8 DEF Received

\* receive_miss keeps the invariant and the states of the other entries.
LEMMA ReceiveGood ==
  ASSUME NEW st, NEW v, Good(st, v), NEW x, x = receive_miss(st)
  PROVE  Received(st, x, v)
<1>1. st.missq_num \in Nat /\ missq_ifq_size \in Nat
  <2>1. st.missq_num = Cardinality(Occupied(st.missq))  BY CoreOf DEF Core
  <2>2. QED  BY <2>1, EntriesFinite DEF Occupied
<1>2. Received(st, st, v)  BY DEF Received, StatesKept
<1>3. CASE st.missq_num >= missq_ifq_size - 2  BY <1>2, <1>3 DEF receive_miss
<1>4. CASE ~(st.missq_num >= missq_ifq_size - 2)
  <2>1. st.missq_num < missq_ifq_size  BY <1>1, <1>4
  <2>2. CASE \E k \in DOMAIN st.lsq : st.lsq[k].miss
    <3>1. Offered(st) # {}  BY <2>2 DEF Offered
    <3>2. x = accept_miss(st)  BY <1>4, <2>2 DEF receive_miss
    <3>3. QED  BY <2>1, <3>1, <3>2, AcceptGood
  <2>3. CASE ~(\E k \in DOMAIN st.lsq : st.lsq[k].miss) /\ st.irepbuf.state = "MISS"
    <3>1. x = accept_imiss(st)  BY <1>4, <2>3 DEF receive_miss
    <3>2. QED  BY <2>1, <2>3, <3>1, AcceptInstGood
  <2>4. CASE ~(\E k \in DOMAIN st.lsq : st.lsq[k].miss) /\ ~(st.irepbuf.state = "MISS")
    <3>1. x = st  BY <1>4, <2>4 DEF receive_miss
    <3>2. QED  BY <1>2, <3>1
  <2>5. QED  BY <2>2, <2>3, <2>4
<1>5. QED  BY <1>3, <1>4

-----------------------------------------------------------------------------
(***************************************************************************)
(* issue_miss: a request is sent.                                          *)
(***************************************************************************)

Scheduled(ev, x) == [ev EXCEPT ![L2_delay] = <<x>> \o @]
NothingDue(ev) == \A k \in 1 .. L2_delay : \A m \in DOMAIN ev[k] : ~Due(ev[k][m])

\* An event is scheduled for a request that has none.
LEMMA ScheduleEvs ==
  ASSUME NEW n, NEW q, NEW ev, Evs(n, q, ev), NEW x, EventOK(n, q, x), Due(x) => NothingDue(ev)
  PROVE  Evs(n, q, Scheduled(ev, x))
<1> DEFINE D == L2_delay  s == ev[D]  t == <<x>> \o s  r == Scheduled(ev, x)
<1>0. /\ D \in Nat \ {0} /\ D \in 1 .. D /\ IsSeq(ev) /\ Len(ev) = D /\ DOMAIN ev = 1 .. D
      /\ \A k \in 1 .. D : IsSeq(ev[k])
      /\ OneDue(ev) /\ EventsOK(n, q, ev)
  <2>1. EventsShape(ev) /\ OneDue(ev) /\ EventsOK(n, q, ev)  BY DEF Evs
  <2>2. D \in Nat \ {0}  BY SizesAssumption
  <2>3. IsSeq(ev) /\ Len(ev) = D /\ \A k \in 1 .. D : IsSeq(ev[k])  BY <2>1 DEF EventsShape
  <2>4. DOMAIN ev = 1 .. D  BY <2>3, SeqShape
  <2>5. QED  BY <2>1, <2>2, <2>3, <2>4
<1>1. /\ IsSeq(t) /\ Len(s) \in Nat /\ DOMAIN s = 1 .. Len(s) /\ DOMAIN t = 1 .. Len(s) + 1
      /\ \A k \in 1 .. Len(s) + 1 : t[k] = IF k = 1 THEN x ELSE s[k - 1]
  <2> DEFINE o == <<x>>
  <2>1. IsSeq(o) /\ Len(o) = 1 /\ o[1] = x  BY OneIsSeq
  <2>2. IsSeq(s) /\ Len(s) \in Nat /\ DOMAIN s = 1 .. Len(s)  BY <1>0, SeqShape
  <2> HIDE DEF o, s
  <2>3. /\ IsSeq(o \o s) /\ Len(o \o s) = 1 + Len(s)
        /\ \A k \in 1 .. 1 + Len(s) : (o \o s)[k] = IF k <= 1 THEN o[k] ELSE s[k - 1]
    BY <2>1, <2>2, SeqConcat
  <2>4. DOMAIN (o \o s) = 1 .. Len(s) + 1
    <3> DEFINE u == o \o s
    <3>1. IsSeq(u) /\ Len(u) = Len(s) + 1  BY <2>2, <2>3
    <3> HIDE DEF u
    <3>2. DOMAIN u = 1 .. Len(s) + 1  BY <3>1, SeqShape
    <3>3. QED  BY <3>2 DEF u
  <2>5. t = o \o s  BY DEF o
  <2> HIDE DEF t
  <2>6. \A k \in 1 .. Len(s) + 1 : t[k] = IF k = 1 THEN x ELSE s[k - 1]
    BY <2>1, <2>2, <2>3, <2>5
  <2>7. QED  BY <2>2, <2>3, <2>4, <2>5, <2>6
<1>2. /\ IsSeq(r) /\ DOMAIN r = DOMAIN ev /\ r[D] = t
      /\ \A k \in 1 .. D : k # D => r[k] = ev[k]
  <2>1. r = [ev EXCEPT ![D] = t]  BY DEF Scheduled
  <2> HIDE DEF t, r
  <2>2. QED  BY <1>0, <2>1, SeqExcept
<1>3. Len(r) = D
  <2> HIDE DEF r
  <2>1. Len(r) \in Nat /\ 1 .. Len(r) = 1 .. D  BY <1>0, <1>2, SeqShape
  <2>2. QED  BY <1>0, <2>1
<1> HIDE DEF r, t
<1>4. EventsShape(r)
  <2>1. \A k \in 1 .. D : IsSeq(r[k])  BY <1>0, <1>1, <1>2
  <2>2. QED  BY <1>2, <1>3, <2>1 DEF EventsShape
\* every event is x or was there
<1>5. \A k \in 1 .. D : \A m \in DOMAIN r[k] :
        \/ k = D /\ m = 1 /\ r[k][m] = x
        \/ k = D /\ m # 1 /\ m \in Nat /\ m - 1 \in DOMAIN ev[k] /\ r[k][m] = ev[k][m - 1]
        \/ k # D /\ m \in DOMAIN ev[k] /\ r[k][m] = ev[k][m]
  <2> SUFFICES ASSUME NEW k \in 1 .. D, NEW m \in DOMAIN r[k]
               PROVE  \/ k = D /\ m = 1 /\ r[k][m] = x
                      \/ k = D /\ m # 1 /\ m \in Nat /\ m - 1 \in DOMAIN ev[k]
                           /\ r[k][m] = ev[k][m - 1]
                      \/ k # D /\ m \in DOMAIN ev[k] /\ r[k][m] = ev[k][m]
    OBVIOUS
  <2>1. CASE k # D  BY <1>2, <2>1
  <2>2. CASE k = D
    <3>1. r[k] = t /\ m \in 1 .. Len(s) + 1  BY <1>1, <1>2, <2>2
    <3>2. CASE m = 1  BY <1>1, <2>2, <3>1, <3>2
    <3>3. CASE m # 1
      <4>1. m - 1 \in 1 .. Len(s)  BY <1>1, <3>1, <3>3
      <4>2. QED  BY <1>1, <2>2, <3>1, <3>3, <4>1
    <3>4. QED  BY <3>2, <3>3
  <2>3. QED  BY <2>1, <2>2
<1>6. EventsOK(n, q, r)
  BY <1>0, <1>5 DEF EventsOK
<1>7. OneDue(r)
  <2> SUFFICES ASSUME NEW k1 \in 1 .. D, NEW k2 \in 1 .. D,
                      NEW m1 \in DOMAIN r[k1], NEW m2 \in DOMAIN r[k2],
                      Due(r[k1][m1]), Due(r[k2][m2])
               PROVE  k1 = k2 /\ m1 = m2
    BY DEF OneDue
  <2>1. CASE Due(x)
    <3>1. \A k \in 1 .. D : \A m \in DOMAIN ev[k] : ~Due(ev[k][m])  BY <2>1 DEF NothingDue
    <3>2. k1 = D /\ m1 = 1 /\ k2 = D /\ m2 = 1  BY <1>5, <3>1
    <3>3. QED  BY <3>2
  <2>2. CASE ~Due(x)
    <3>1. \/ k1 = D /\ m1 \in Nat /\ m1 - 1 \in DOMAIN ev[k1] /\ Due(ev[k1][m1 - 1])
          \/ k1 # D /\ m1 \in DOMAIN ev[k1] /\ Due(ev[k1][m1])
      BY <1>5, <2>2
    <3>2. \/ k2 = D /\ m2 \in Nat /\ m2 - 1 \in DOMAIN ev[k2] /\ Due(ev[k2][m2 - 1])
          \/ k2 # D /\ m2 \in DOMAIN ev[k2] /\ Due(ev[k2][m2])
      BY <1>5, <2>2
    <3>3. k1 = k2  BY <1>0, <3>1, <3>2 DEF OneDue
    <3>4. CASE k1 = D
      <4>1. m1 \in Nat /\ m2 \in Nat /\ m1 - 1 = m2 - 1  BY <1>0, <3>1, <3>2, <3>3, <3>4 DEF OneDue
      <4>2. QED  BY <3>3, <4>1
    <3>5. CASE k1 # D  BY <1>0, <3>1, <3>2, <3>3, <3>5 DEF OneDue
    <3>6. QED  BY <3>4, <3>5
  <2>3. QED  BY <2>1, <2>2
<1>8. QED  BY <1>4, <1>6, <1>7 DEF Evs, r

\* No event is due while no request of this home is served.
LEMMA NoneDue ==
  ASSUME NEW n, NEW q, NEW ev, Evs(n, q, ev), \A i \in Entries : ~Awaited(n, q[i])
  PROVE  NothingDue(ev)
<1> SUFFICES ASSUME NEW k \in 1 .. L2_delay, NEW m \in DOMAIN ev[k], Due(ev[k][m]) PROVE FALSE
  BY DEF NothingDue
<1>1. EventOK(n, q, ev[k][m])  BY DEF Evs, EventsOK
<1>2. ev[k][m].qid \in Entries /\ Awaits(n, q[ev[k][m].qid], ev[k][m])  BY <1>1 DEF EventOK
<1>3. Awaited(n, q[ev[k][m].qid])  BY <1>1, <1>2 DEF EventOK, Due, Awaits, Awaited
<1>4. QED  BY <1>2, <1>3

-----------------------------------------------------------------------------
\* A packet is handed to the network.
Posted(out, t, d, p) == [out EXCEPT ![t][d] = Append(@, p)]
\* A packet is sent to one cpu.
LEMMA PostedShape ==
  ASSUME NEW n, NEW v, NEW out, OutShape(out), OutTyped(n, out, v), NEW t \in Types, NEW d \in Cpus,
         NEW p, PacketOK(t, n, d, p, v.text)
  PROVE  LET r == Posted(out, t, d, p)
         IN  /\ OutShape(r) /\ OutTyped(n, r, v)
             /\ \A u \in Types, c \in Cpus : u # t \/ c # d => r[u][c] = out[u][c]
             /\ DOMAIN r[t][d] = DOMAIN out[t][d] \cup {Len(out[t][d]) + 1}
             /\ Len(out[t][d]) + 1 \notin DOMAIN out[t][d]
             /\ \A k \in DOMAIN out[t][d] : r[t][d][k] = out[t][d][k]
             /\ r[t][d][Len(out[t][d]) + 1] = p
<1> DEFINE s == out[t][d]  a == Append(s, p)  r == Posted(out, t, d, p)
<1>0. /\ DOMAIN out = Types /\ IsSeq(s)
      /\ \A u \in Types : DOMAIN out[u] = Cpus /\ \A c \in Cpus : IsSeq(out[u][c])
  BY DEF OutShape
<1>1. /\ IsSeq(a) /\ Len(a) = Len(s) + 1 /\ Len(s) \in Nat /\ DOMAIN s = 1 .. Len(s)
      /\ \A k \in 1 .. Len(s) : a[k] = s[k]
      /\ a[Len(s) + 1] = p
  BY <1>0, SeqAppend, SeqShape
<1>2. DOMAIN a = 1 .. Len(s) + 1
  <2> HIDE DEF a
  <2>1. QED  BY <1>1, SeqShape
<1>3. DOMAIN a = DOMAIN s \cup {Len(s) + 1} /\ Len(s) + 1 \notin DOMAIN s
  BY <1>1, <1>2
<1>4. r = [out EXCEPT ![t] = [out[t] EXCEPT ![d] = a]]  BY DEF Posted
<1> HIDE DEF a
<1>5. /\ DOMAIN r = Types /\ r[t][d] = a /\ \A u \in Types : DOMAIN r[u] = Cpus
      /\ \A u \in Types, c \in Cpus : u # t \/ c # d => r[u][c] = out[u][c]
  BY <1>0, <1>4
<1> HIDE DEF r
<1>6. OutShape(r)  BY <1>0, <1>1, <1>5 DEF OutShape
<1>7. OutTyped(n, r, v)
  <2> SUFFICES ASSUME NEW u \in Types, NEW c \in Cpus, NEW k \in DOMAIN r[u][c]
               PROVE  PacketOK(u, n, c, r[u][c][k], v.text)
    BY DEF OutTyped
  <2>1. CASE u # t \/ c # d  BY <1>5, <2>1 DEF OutTyped
  <2>2. CASE u = t /\ c = d
    <3>1. k \in DOMAIN s \/ k = Len(s) + 1  BY <1>3, <1>5, <2>2
    <3>2. CASE k \in DOMAIN s  BY <1>1, <1>5, <2>2, <3>2 DEF OutTyped
    <3>3. CASE k = Len(s) + 1  BY <1>1, <1>5, <2>2, <3>3
    <3>4. QED  BY <3>1, <3>2, <3>3
  <2>3. QED  BY <2>1, <2>2
<1>8. QED  BY <1>1, <1>3, <1>5, <1>6, <1>7 DEF r

\* A request or a write-back.
LEMMA PostPlain ==
  ASSUME NEW n, NEW v, NEW q, NEW out, Outs(n, q, out, v), NEW t \in {"REQ", "WTBK"},
         NEW d \in Cpus, NEW p, PacketOK(t, n, d, p, v.text)
  PROVE  Outs(n, q, Posted(out, t, d, p), v)
<1> DEFINE r == Posted(out, t, d, p)
<1>0. t \in Types /\ OutShape(out) /\ OutTyped(n, out, v)  BY DEF Types, Outs
<1>1. /\ OutShape(r) /\ OutTyped(n, r, v)
      /\ \A u \in Types, c \in Cpus : u # t \/ c # d => r[u][c] = out[u][c]
  BY <1>0, PostedShape
<1>2. \A c \in Cpus : r["INVN"][c] = out["INVN"][c] /\ r["RESP"][c] = out["RESP"][c]
  <2>1. "INVN" \in Types /\ "RESP" \in Types /\ "INVN" # t /\ "RESP" # t  BY DEF Types
  <2> HIDE DEF r
  <2>2. QED  BY <1>1, <2>1
<1> HIDE DEF r
<1>3. InvnsOut(q, r, v)  BY <1>2 DEF Outs, InvnsOut
<1>4. RespsOut(q, r, v)  BY <1>2 DEF Outs, RespsOut
<1>5. QED  BY <1>1, <1>3, <1>4 DEF Outs, r

IssuedAs(e, local) == [[e EXCEPT !.state = "READ_L2"] EXCEPT !.local = local]

\* The request of an entry whose set is free is issued.
LEMMA IssuedCore ==
  ASSUME NEW st, NEW v, Good(st, v), NEW i \in Entries, st.missq[i].state = "L1_MISS",
         ~st.missq[i].reissue, ~Blocked(st, i),
         NEW f, f = IssuedAs(st.missq[i], Owner[st.missq[i].blk] = st.cpuid),
         NEW r, r = [st.missq EXCEPT ![i] = f]
  PROVE  /\ Core(st.cpuid, r, st.missq_num, st.dl2, st.refilltag, st.refilli, v)
         /\ Outs(st.cpuid, r, st.out, v) /\ Evs(st.cpuid, r, st.events)
         /\ DOMAIN r = Entries /\ r[i] = f
         /\ ~External(f) /\ f.state = "READ_L2" /\ f.req = st.missq[i].req
         /\ f.blk = st.missq[i].blk
         /\ Owner[f.blk] = st.cpuid => f.local /\ NothingDue(st.events)
         /\ StatesKept(st.missq, r, {"L1_MISS"})
<1> DEFINE n == st.cpuid  q == st.missq  e == q[i]  local == Owner[e.blk] = n
           num == st.missq_num  dl2 == st.dl2  tag == st.refilltag  ri == st.refilli
           ev == st.events  out == st.out
<1>0. /\ Core(n, q, num, dl2, tag, ri, v) /\ Evs(n, q, ev) /\ Outs(n, q, out, v)
      /\ DOMAIN q = Entries /\ DOMAIN dl2 = L2Ways
      /\ \A w \in L2Ways : L2OK(n, dl2[w], v.text)
      /\ \A j \in Entries : EntryOK(n, q[j], v) /\ RoundOK(n, q[j], dl2, v)
  BY CoreOf
<1>1. /\ DOMAIN e = EntryFields /\ e.state = "L1_MISS" /\ ~External(e) /\ OwnOK(n, e)
      /\ e.wait = 0
  <2>1. EntryOK(n, e, v)  BY <1>0
  <2>2. ~External(e)  BY <2>1 DEF EntryOK, AskOK
  <2>3. QED  BY <2>1, <2>2 DEF EntryOK, OwnOK
<1>2. /\ DOMAIN f = EntryFields /\ f.state = "READ_L2" /\ f.local = local
      /\ f.req = e.req /\ f.cpuid = e.cpuid /\ f.cache = e.cache /\ f.blk = e.blk
      /\ f.qid = e.qid /\ f.invn_match = e.invn_match /\ f.wait = 0
  BY <1>1 DEF IssuedAs, EntryFields
<1>3. ~External(f)  BY <1>1, <1>2 DEF External
<1>4. EntryOK(n, f, v)
  <2>1. OwnOK(n, f)  BY <1>1, <1>2 DEF OwnOK, RemoteStates
  <2>2. /\ e.blk \in Blocks /\ e.cpuid \in Cpus /\ (e.cpuid # n => e.qid \in Entries)
        /\ e.cache = CacheOf(e.blk, v.text) /\ e.req \in Requests \cup Interventions
        /\ e.invn_match \subseteq Entries
    <3>1. EntryOK(n, e, v) /\ e.state # "EMPTY"  BY <1>0, <1>1
    <3>2. QED  BY <3>1 DEF EntryOK
  <2> HIDE DEF e, q, n
  <2>3. f.state # "EMPTY"  BY <1>2
  <2>4. QED  BY <1>2, <1>3, <2>1, <2>2, <2>3 DEF EntryOK
<1>5. Calm(n, e, f, v)  BY <1>1, <1>2, <1>3, <1>4 DEF Calm, InstAsks
<1>6. r[i] = f /\ DOMAIN r = Entries /\ \A j \in Entries \ {i} : r[j] = q[j]  BY <1>0
<1>7. local => \A j \in Entries \ {i} : ~Serves(n, q[j])
  BY DEF Blocked, Serves, Issued, SameSet
<1>8. OneServed(n, r)
  <2>1. CASE local  BY <1>6, <1>7, <2>1 DEF OneServed
  <2>2. CASE ~local
    <3>1. ~Serves(n, r[i])  BY <1>2, <1>6, <2>2 DEF Serves
    <3>2. OneServed(n, q)  BY <1>0 DEF Core
    <3>3. QED  BY <1>6, <3>1, <3>2 DEF OneServed
  <2>3. QED  BY <2>1, <2>2
<1>9. \A j \in Entries : \A l1 : Pending(q[j], l1) => Pending(r[j], l1)
  BY <1>1, <1>6 DEF Pending, Round
<1>10. SentOK(n, r, v)  BY <1>0, <1>9 DEF Core, SentOK
<1>11. num - Cardinality({}) = num
  BY <1>0, EntriesFinite, FS_EmptySet DEF Core, Occupied
<1>12. \A j \in Entries : RoundOK(n, r[j], dl2, v)
  BY <1>0, <1>2, <1>6 DEF RoundOK, Round
<1>13. On(tag) => ri \in Entries /\ r[ri].state = "REFILL_L1"
  <2>1. On(tag) => ri \in Entries /\ q[ri].state = "REFILL_L1"  BY <1>0 DEF Core
  <2>2. QED  BY <1>1, <1>6, <2>1
<1>14. Core(n, r, num, dl2, tag, ri, v)
  <2>1. \A j \in Entries : r[j] = q[j] \/ Calm(n, q[j], r[j], v)  BY <1>5, <1>6
  <2> DEFINE G == {}
  <2>2. Core(n, r, num - Cardinality(G), dl2, tag, ri, v)
    <3>1. G \in SUBSET Entries /\ \A j : j \notin G  OBVIOUS
    <3> HIDE DEF G, n, q, num, dl2, tag, ri
    <3>2. QED  BY <1>0, <1>6, <1>8, <1>10, <1>12, <1>13, <2>1, <3>1, CoreStep
  <2>3. QED  BY <1>11, <2>2
<1>15. Outs(n, r, out, v)
  <2>1. \A j \in Entries : External(r[j]) =>
          External(q[j]) /\ r[j].cpuid = q[j].cpuid /\ r[j].cache = q[j].cache
    BY <1>3, <1>6
  <2>2. QED  BY <1>0, <1>9, <2>1, OutStep
<1>16. ~Awaited(n, e)  BY <1>1 DEF Awaited
<1>17. Evs(n, r, ev)
  <2>1. \A j \in Entries : r[j] = q[j] \/ KeepsAwait(n, q[j], r[j])
    BY <1>6, <1>16 DEF KeepsAwait
  <2>2. QED  BY <1>0, <2>1, EvStep
<1>18. local => NothingDue(ev)
  <2>1. local => \A j \in Entries : ~Awaited(n, q[j])  BY <1>7, <1>16 DEF Awaited
  <2>2. QED  BY <1>0, <2>1, NoneDue
<1>19. StatesKept(q, r, {"L1_MISS"})  BY <1>1, <1>2, <1>6 DEF StatesKept
<1>20. QED  BY <1>2, <1>3, <1>6, <1>14, <1>15, <1>17, <1>18, <1>19

\* A step that leaves the two other queues.
Moved(st, x, v, C) ==
  /\ Good(x, v) /\ WPart(x) = WPart(st) /\ LPart(x) = LPart(st)
  /\ StatesKept(st.missq, x.missq, C)

\* Nothing happens to any entry.
LEMMA MovedNot ==
  ASSUME NEW st, NEW v, Good(st, v), NEW C
  PROVE  Moved(st, st, v, C)
BY DEF Moved, StatesKept

\* issue_miss sends a request to its home, or to the local L2.
LEMMA IssueGood ==
  ASSUME NEW st, NEW v, Good(st, v), NEW i,
         i # None => i \in Entries /\ st.missq[i].state = "L1_MISS",
         NEW x, x = issue_miss(st, i)
  PROVE  Moved(st, x, v, {"L1_MISS"})
<1> DEFINE n == st.cpuid  q == st.missq  e == q[i]  home == Owner[e.blk]  local == home = n
           f == IssuedAs(e, local)
           r == [q EXCEPT ![i] = f]
           issued == [st EXCEPT !.missq[i].state = "READ_L2", !.missq[i].local = local]
           a == [fn |-> "scache_probe", qid |-> i, req |-> e.req, blk |-> e.blk]
           p == [cpuid |-> n, req |-> e.req, cache_status |-> "UNTOUCHED", qid |-> i,
                 blk |-> e.blk, cache |-> e.cache]
<1>0. DOMAIN st = CpuFields /\ DOMAIN q = Entries /\ n \in Cpus  BY CoreOf
<1>1. CASE i = None \/ e.reissue \/ Blocked(st, i)
  <2>1. x = st  BY <1>1 DEF issue_miss
  <2>2. QED  BY <2>1, MovedNot
<1>2. CASE ~(i = None \/ e.reissue \/ Blocked(st, i))
  <2>1. /\ Core(n, r, st.missq_num, st.dl2, st.refilltag, st.refilli, v)
        /\ Outs(n, r, st.out, v) /\ Evs(n, r, st.events)
        /\ r[i] = f /\ ~External(f) /\ f.state = "READ_L2" /\ f.req = e.req /\ f.blk = e.blk
        /\ local => f.local /\ NothingDue(st.events)
        /\ StatesKept(q, r, {"L1_MISS"})
    <3> HIDE DEF f, r
    <3>1. f = IssuedAs(e, local) /\ r = [q EXCEPT ![i] = f]  BY DEF f, r
    <3>2. QED  BY <1>2, <3>1, IssuedCore
  <2>2. /\ i \in Entries /\ EntryOK(n, e, v) /\ e.state = "L1_MISS" /\ ~External(e)
        /\ OwnOK(n, e)
    <3>1. i \in Entries /\ EntryOK(n, e, v) /\ e.state = "L1_MISS"  BY <1>2, CoreOf
    <3>2. ~External(e)  BY <3>1 DEF EntryOK, AskOK
    <3>3. QED  BY <3>1, <3>2 DEF EntryOK
  <2>3. issued = [st EXCEPT !.missq = r]
    BY <1>0, <2>2 DEF IssuedAs, CpuFields
  <2> HIDE DEF issued, r, f
  <2>4. CASE local
    <3> DEFINE ev == Scheduled(st.events, a)
    <3>1. x = Schedule(issued, a)  BY <1>2, <2>4 DEF issue_miss, issued
    <3>2. EventOK(n, r, a)
      <4>1. Serves(n, f) /\ f.local  BY <2>1, <2>4 DEF Serves, Issued
      <4>2. Awaits(n, f, a)  BY <2>1, <4>1 DEF Awaits
      <4>3. QED  BY <2>1, <2>2, <4>2 DEF EventOK
    <3>3. Evs(n, r, ev)
      <4> HIDE DEF a
      <4>1. QED  BY <2>1, <2>4, <3>2, ScheduleEvs
    <3> HIDE DEF a
    <3>4. x = [issued EXCEPT !.events = ev]  BY <1>0, <2>3, <3>1 DEF Schedule, Scheduled
    <3> HIDE DEF ev
    <3>5. /\ DOMAIN x = CpuFields /\ WPart(x) = WPart(st) /\ LPart(x) = LPart(st)
          /\ x.cpuid = n /\ x.missq = r /\ x.missq_num = st.missq_num /\ x.dl2 = st.dl2
          /\ x.refilltag = st.refilltag /\ x.refilli = st.refilli /\ x.out = st.out
          /\ x.events = ev
      BY <1>0, <2>3, <3>4 DEF CpuFields, WPart, LPart
    <3>6. M(x, v)  BY <2>1, <3>3, <3>5 DEF M, MissOK
    <3>7. QED  BY <2>1, <3>5, <3>6, SameW, SameL DEF Moved, Good
  <2>5. CASE ~local /\ Room(st, "REQ")
    <3> DEFINE out == Posted(st.out, "REQ", home, p)
    <3>1. x = noc_request(issued, "REQ", home, e.req, "UNTOUCHED", i, e.blk, e.cache)
      BY <1>2, <2>5 DEF issue_miss, issued
    <3>2. home \in Cpus  BY <2>2, ProgramAssumption DEF EntryOK
    <3>3. PacketOK("REQ", n, home, p, v.text)
      <4>1. e.req \in Requests  BY <2>2 DEF EntryOK, External
      <4>2. QED  BY <2>2, <2>5, <4>1 DEF PacketOK, EntryOK, OwnOK
    <3>4. Outs(n, r, out, v)
      <4> HIDE DEF p
      <4>1. QED  BY <2>1, <3>2, <3>3, PostPlain
    <3>5. /\ DOMAIN x = CpuFields /\ WPart(x) = WPart(st) /\ LPart(x) = LPart(st)
          /\ x.cpuid = n /\ x.missq = r /\ x.missq_num = st.missq_num /\ x.dl2 = st.dl2
          /\ x.refilltag = st.refilltag /\ x.refilli = st.refilli /\ x.out = out
          /\ x.events = st.events
      BY <1>0, <2>3, <3>1 DEF noc_request, Posted, CpuFields, WPart, LPart
    <3> HIDE DEF out
    <3>6. M(x, v)  BY <2>1, <3>4, <3>5 DEF M, MissOK
    <3>7. QED  BY <2>1, <3>5, <3>6, SameW, SameL DEF Moved, Good
  <2>6. CASE ~local /\ ~Room(st, "REQ")
    <3>1. x = st  BY <1>2, <2>6 DEF issue_miss
    <3>2. QED  BY <3>1, MovedNot
  <2>7. QED  BY <2>4, <2>5, <2>6
<1>3. QED  BY <1>1, <1>2

-----------------------------------------------------------------------------
(***************************************************************************)
(* Interventions from outside: check_conflict and check_wtbkq.             *)
(***************************************************************************)

\* A step that leaves the load/store queue and takes no slot.
Went(st, x, v, C) ==
  /\ Good(x, v) /\ LPart(x) = LPart(st) /\ x.wtbkq_num <= st.wtbkq_num
  /\ StatesKept(st.missq, x.missq, C)

\* The write-back queue is well formed.
LEMMA SlotCount ==
  ASSUME NEW st, NEW v, Good(st, v)
  PROVE  /\ st.wtbkq_num \in Nat /\ DOMAIN st.wtbkq = Slots
         /\ \A j \in Slots : SlotOK(st.cpuid, st.wtbkq[j])
<1> DEFINE h == Held(st.lsq_refill.kind, st.dcache_refill.kind)
<1>1. SlotsIn(st.cpuid, st.wtbkq, st.wtbkq_num, st.wtbkq_replacei, h)
  BY DEF Good, W, SlotsOK
<1>2. h \in Nat  BY HeldNat
<1> HIDE DEF h
<1>3. st.wtbkq_num \in Nat  BY <1>1, <1>2, SlotReserved
<1>4. QED  BY <1>1, <1>3 DEF SlotsIn

\* A step of the miss queue alone is a step of both queues.
LEMMA MovedWent ==
  ASSUME NEW st, NEW v, Good(st, v), NEW C, NEW x, Moved(st, x, v, C)
  PROVE  Went(st, x, v, C)
<1>1. st.wtbkq_num \in Nat  BY SlotCount
<1>2. x.wtbkq_num = st.wtbkq_num  BY DEF Moved, WPart
<1>3. QED  BY <1>1, <1>2 DEF Moved, Went

\* Nothing happens to either queue.
LEMMA WentNot ==
  ASSUME NEW st, NEW v, Good(st, v), NEW C
  PROVE  Went(st, st, v, C)
BY MovedNot, MovedWent

\* wtbkq_leave gives back one slot.
LEMMA LeaveGood ==
  ASSUME NEW st, NEW v, Good(st, v), NEW j \in Slots, st.wtbkq[j].valid,
         NEW x, x = wtbkq_leave(st, j)
  PROVE  /\ Good(x, v) /\ LPart(x) = LPart(st) /\ MPart(x) = MPart(st)
         /\ x.wtbkq_num <= st.wtbkq_num /\ x.wtbkq_num = st.wtbkq_num - 1
         /\ x.wtbkq = [st.wtbkq EXCEPT ![j] = FreeSlot]
         /\ \A f \in CpuFields \ {"wtbkq", "wtbkq_num"} : x[f] = st[f]
<1> DEFINE h == Held(st.lsq_refill.kind, st.dcache_refill.kind)
<1>1. /\ SlotsIn(st.cpuid, st.wtbkq, st.wtbkq_num, st.wtbkq_replacei, h)
      /\ DOMAIN st = CpuFields
  BY DEF Good, W, SlotsOK
<1>2. h \in Nat  BY HeldNat
<1>3. SlotsIn(st.cpuid, [st.wtbkq EXCEPT ![j] = FreeSlot], st.wtbkq_num - 1,
              st.wtbkq_replacei, h)
  <2> HIDE DEF h
  <2>1. QED  BY <1>1, <1>2, SlotLeft
<1>4. /\ DOMAIN x = CpuFields /\ LPart(x) = LPart(st) /\ MPart(x) = MPart(st)
      /\ x.wtbkq = [st.wtbkq EXCEPT ![j] = FreeSlot] /\ x.wtbkq_num = st.wtbkq_num - 1
      /\ x.wtbkq_replacei = st.wtbkq_replacei /\ x.cpuid = st.cpuid
      /\ x.lsq_refill = st.lsq_refill /\ x.dcache_refill = st.dcache_refill
      /\ \A f \in CpuFields \ {"wtbkq", "wtbkq_num"} : x[f] = st[f]
  BY <1>1 DEF wtbkq_leave, CpuFields, LPart, MPart
<1>5. W(x)  BY <1>3, <1>4 DEF W, SlotsOK
<1>6. st.wtbkq_num \in Nat  BY SlotCount
<1>7. QED  BY <1>4, <1>5, <1>6, SameM, SameL DEF Good

\* The entries that check_conflict marks, as values.
Marked(e) == [e EXCEPT !.reissue = TRUE]
Matched(e, S) == [e EXCEPT !.conflict_checked = TRUE, !.invn_match = S]

SameMiss(e, f) ==
  /\ DOMAIN f = EntryFields /\ f.state = e.state /\ f.req = e.req /\ f.ack = e.ack
  /\ f.cpuid = e.cpuid /\ f.cache = e.cache /\ f.qid = e.qid /\ f.blk = e.blk
  /\ f.cache_status = e.cache_status /\ f.directory = e.directory /\ f.sent = e.sent
  /\ f.acked = e.acked /\ f.intervention_type = e.intervention_type /\ f.L2_way = e.L2_way
  /\ f.L2_replace = e.L2_replace /\ f.wait = e.wait /\ f.local = e.local
  /\ f.modify_l1 = e.modify_l1 /\ f.scache_refilled = e.scache_refilled

\* A change of the marks check_conflict makes is none to the protocol.
LEMMA SameMissOK ==
  ASSUME NEW n, NEW v, NEW dl2, NEW e, NEW f, SameMiss(e, f), EntryOK(n, e, v),
         RoundOK(n, e, dl2, v), e.state # "EMPTY" => f.invn_match \subseteq Entries
  PROVE  /\ EntryOK(n, f, v) /\ RoundOK(n, f, dl2, v)
         /\ Serves(n, f) <=> Serves(n, e)
         /\ External(f) <=> External(e)
         /\ InstAsks(f) <=> InstAsks(e)
         /\ KeepsAwait(n, e, f)
         /\ \A l1 : Pending(f, l1) <=> Pending(e, l1)
<1>1. External(f) <=> External(e)  BY DEF SameMiss, External
<1>2. AskOK(n, e, v) => AskOK(n, f, v)  BY DEF SameMiss, AskOK
<1>3. OwnOK(n, e) => OwnOK(n, f)  BY DEF SameMiss, OwnOK
<1>4. EntryOK(n, f, v)
  <2>1. CASE e.state = "EMPTY"  BY <1>1, <2>1 DEF SameMiss, EntryOK
  <2>2. CASE e.state # "EMPTY"
    <3>1. /\ e.blk \in Blocks /\ e.cpuid \in Cpus /\ (e.cpuid # n => e.qid \in Entries)
          /\ e.cache = CacheOf(e.blk, v.text) /\ e.req \in Requests \cup Interventions
          /\ IF External(e) THEN AskOK(n, e, v) ELSE OwnOK(n, e)
      BY <2>2 DEF EntryOK
    <3>2. QED  BY <1>1, <1>2, <1>3, <2>2, <3>1 DEF SameMiss, EntryOK
  <2>3. QED  BY <2>1, <2>2
<1>5. Round(f) <=> Round(e)  BY <1>1 DEF SameMiss, Round
<1>6. RoundOK(n, f, dl2, v)  BY <1>5 DEF SameMiss, RoundOK, Target
<1>7. QED
  BY <1>1, <1>4, <1>5, <1>6
  DEF SameMiss, Serves, Issued, InstAsks, KeepsAwait, Awaited, Pending

Found_(q, i) == {j \in Entries \ {i} : q[j].state = "L1_MISS" /\ q[j].blk = q[i].blk}
FirstLast(S) == IF S = {} THEN {} ELSE {Min(S), Max(S)}
ConflictsOf(q, i) ==
  [j \in Entries |-> IF j = i THEN Matched(q[j], FirstLast(Found_(q, i)))
                     ELSE IF j \in Found_(q, i) THEN Marked(q[j]) ELSE q[j]]

\* check_conflict notes two of the misses it finds.
LEMMA EndsIn == ASSUME NEW S \in SUBSET Entries PROVE FirstLast(S) \subseteq S
<1>1. Entries \subseteq Nat  BY DEF Entries
<1>2. QED  BY <1>1, LeastIn, GreatestEntry DEF FirstLast

\* check_conflict notes misses that are not issued, and makes them wait.
LEMMA ConflictsGood ==
  ASSUME NEW st, NEW v, Good(st, v), NEW i \in Entries, st.missq[i].state = "MODIFY_L1",
         NEW r, r = ConflictsOf(st.missq, i)
  PROVE  /\ MissOK(st.cpuid, r, st.missq_num, st.dl2, st.events, st.refilltag, st.refilli,
                   st.out, v)
         /\ \A j \in Entries : r[j].state = st.missq[j].state /\ r[j].req = st.missq[j].req
<1> DEFINE n == st.cpuid  q == st.missq  num == st.missq_num  dl2 == st.dl2  ev == st.events
           tag == st.refilltag  ri == st.refilli  out == st.out  found == Found_(q, i)
<1>0. /\ Core(n, q, num, dl2, tag, ri, v) /\ Evs(n, q, ev) /\ Outs(n, q, out, v)
      /\ DOMAIN q = Entries /\ DOMAIN dl2 = L2Ways
      /\ \A j \in Entries : EntryOK(n, q[j], v) /\ RoundOK(n, q[j], dl2, v)
  BY CoreOf
<1>1. FirstLast(found) \subseteq found /\ found \subseteq Entries  BY EndsIn DEF Found_
<1>2. \A j \in Entries : DOMAIN q[j] = EntryFields  BY <1>0 DEF EntryOK
<1>3. /\ DOMAIN r = Entries
      /\ \A j \in Entries : r[j] = IF j = i THEN Matched(q[j], FirstLast(found))
                                   ELSE IF j \in found THEN Marked(q[j]) ELSE q[j]
  BY DEF ConflictsOf
<1>4. \A e : DOMAIN e = EntryFields =>
        /\ SameMiss(e, e) /\ SameMiss(e, Marked(e))
        /\ Marked(e).reissue = TRUE /\ Marked(e).invn_match = e.invn_match
        /\ \A S : SameMiss(e, Matched(e, S)) /\ Matched(e, S).invn_match = S
                  /\ Matched(e, S).reissue = e.reissue
  BY DEF SameMiss, Marked, Matched, EntryFields
<1>5. \A j \in Entries :
        /\ SameMiss(q[j], r[j])
        /\ r[j].invn_match = IF j = i THEN FirstLast(found) ELSE q[j].invn_match
        /\ r[j].reissue = IF j \in found THEN TRUE ELSE q[j].reissue
  <2>1. i \notin found  BY DEF Found_
  <2>2. SUFFICES ASSUME NEW j \in Entries
        PROVE  /\ SameMiss(q[j], r[j])
               /\ r[j].invn_match = IF j = i THEN FirstLast(found) ELSE q[j].invn_match
               /\ r[j].reissue = IF j \in found THEN TRUE ELSE q[j].reissue
    OBVIOUS
  <2> DEFINE e == q[j]  f == r[j]  S == FirstLast(found)
  <2>3. DOMAIN e = EntryFields  BY <1>2
  <2>4. f = IF j = i THEN Matched(e, S) ELSE IF j \in found THEN Marked(e) ELSE e  BY <1>3
  <2> HIDE DEF e, f, S, found
  <2>5. /\ SameMiss(e, f) /\ f.invn_match = IF j = i THEN S ELSE e.invn_match
        /\ f.reissue = IF j \in found THEN TRUE ELSE e.reissue
    BY <1>4, <2>1, <2>3, <2>4
  <2>6. QED  BY <2>5 DEF e, f, S, found
<1>6. \A j \in Entries : q[j].state # "EMPTY" => r[j].invn_match \subseteq Entries
  BY <1>0, <1>1, <1>5 DEF EntryOK
<1>7. \A j \in Entries :
        /\ EntryOK(n, r[j], v) /\ RoundOK(n, r[j], dl2, v)
        /\ Serves(n, r[j]) <=> Serves(n, q[j])
        /\ External(r[j]) <=> External(q[j])
        /\ InstAsks(r[j]) <=> InstAsks(q[j])
        /\ KeepsAwait(n, q[j], r[j])
        /\ \A l1 : Pending(r[j], l1) <=> Pending(q[j], l1)
  <2> HIDE DEF q, n, dl2
  <2>1. QED  BY <1>0, <1>5, <1>6, SameMissOK
<1>8. \A j \in Entries : /\ r[j].state = q[j].state /\ r[j].cpuid = q[j].cpuid
                         /\ r[j].cache = q[j].cache /\ r[j].blk = q[j].blk /\ r[j].req = q[j].req
  BY <1>5 DEF SameMiss
<1>9. MatchOK(r)
  <2>1. SUFFICES ASSUME NEW a \in Entries, NEW b \in Entries, InstAsks(r[a]),
                        b \in r[a].invn_match
        PROVE  b # a /\ r[b].state = "L1_MISS" /\ r[b].reissue /\ r[b].blk = r[a].blk
    BY DEF MatchOK
  <2>2. CASE a = i
    <3>1. b \in found  BY <1>1, <1>5, <2>1, <2>2
    <3>2. QED  BY <1>5, <1>8, <2>2, <3>1 DEF Found_
  <2>3. CASE a # i
    <3>1. MatchOK(q)  BY <1>0 DEF Core
    <3>2. b # a /\ q[b].state = "L1_MISS" /\ q[b].reissue /\ q[b].blk = q[a].blk
      BY <1>5, <1>7, <2>1, <2>3, <3>1 DEF MatchOK
    <3>3. QED  BY <1>5, <1>8, <3>2
  <2>4. QED  BY <2>2, <2>3
<1>10. Core(n, r, num, dl2, tag, ri, v)
  <2>1. Occupied(r) = Occupied(q)  BY <1>8 DEF Occupied
  <2>2. OneServed(n, r)  BY <1>0, <1>7 DEF Core, OneServed
  <2>3. On(tag) => ri \in Entries /\ r[ri].state = "REFILL_L1"  BY <1>0, <1>8 DEF Core
  <2>4. OneAsks(r)  BY <1>0, <1>7, <1>8 DEF Core, OneAsks, SameAsk
  <2>5. SentOK(n, r, v)  BY <1>0, <1>7 DEF Core, SentOK
  <2>6. /\ n \in Cpus /\ num = Cardinality(Occupied(q))
        /\ \A w \in L2Ways : L2OK(n, dl2[w], v.text)
    BY <1>0 DEF Core
  <2> HIDE DEF n, q, num, dl2, tag, ri
  <2>7. QED  BY <1>0, <1>3, <1>7, <1>9, <2>1, <2>2, <2>3, <2>4, <2>5, <2>6 DEF Core
<1>11. Outs(n, r, out, v)
  <2>1. /\ \A j \in Entries : \A l1 : l1[1] # n /\ Pending(q[j], l1) => Pending(r[j], l1)
        /\ \A j \in Entries : External(r[j]) =>
             External(q[j]) /\ r[j].cpuid = q[j].cpuid /\ r[j].cache = q[j].cache
    BY <1>7, <1>8
  <2> HIDE DEF n, q, out
  <2>2. QED  BY <1>0, <2>1, OutStep
<1>12. Evs(n, r, ev)
  <2> HIDE DEF n, q, ev
  <2>1. QED  BY <1>0, <1>7, EvStep
<1>13. QED  BY <1>8, <1>10, <1>11, <1>12 DEF MissOK

\* check_conflict keeps the invariant.
LEMMA ConflictGood ==
  ASSUME NEW st, NEW v, Good(st, v), NEW i \in Entries, st.missq[i].state = "MODIFY_L1",
         NEW x, x = check_conflict(st, i)
  PROVE  /\ Moved(st, x, v, {})
         /\ External(x.missq[i]) <=> External(st.missq[i])
<1> DEFINE q == st.missq  r == ConflictsOf(q, i)
<1>1. CASE q[i].conflict_checked
  <2>1. x = st  BY <1>1 DEF check_conflict
  <2>2. QED  BY <2>1, MovedNot
<1>2. CASE ~q[i].conflict_checked
  <2>1. x = [st EXCEPT !.missq = r]
    BY <1>2 DEF check_conflict, NotIssued, ConflictsOf, Found_, FirstLast, Marked, Matched
  <2> HIDE DEF r
  <2>2. /\ MissOK(st.cpuid, r, st.missq_num, st.dl2, st.events, st.refilltag, st.refilli,
                  st.out, v)
        /\ \A j \in Entries : r[j].state = q[j].state /\ r[j].req = q[j].req
    BY ConflictsGood DEF r
  <2>3. DOMAIN st = CpuFields  BY CoreOf
  <2>4. /\ DOMAIN x = CpuFields /\ WPart(x) = WPart(st) /\ LPart(x) = LPart(st)
        /\ x.cpuid = st.cpuid /\ x.missq = r /\ x.missq_num = st.missq_num /\ x.dl2 = st.dl2
        /\ x.refilltag = st.refilltag /\ x.refilli = st.refilli /\ x.out = st.out
        /\ x.events = st.events
    BY <2>1, <2>3 DEF CpuFields, WPart, LPart
  <2>5. M(x, v)  BY <2>2, <2>4 DEF M
  <2>6. Good(x, v)  BY <2>4, <2>5, SameW, SameL DEF Good
  <2>7. StatesKept(q, x.missq, {})  BY <2>2, <2>4 DEF StatesKept
  <2>8. QED  BY <2>2, <2>4, <2>6, <2>7 DEF Moved, External
<1>3. QED  BY <1>1, <1>2

AnswersAs(e, f) ==
  /\ DOMAIN f = EntryFields /\ f.state = "EXTRDY" /\ f.ack \in Acks
  /\ f.req = e.req /\ f.cpuid = e.cpuid /\ f.cache = e.cache /\ f.qid = e.qid
  /\ f.blk = e.blk /\ f.directory = e.directory /\ f.invn_match = e.invn_match
  /\ f.modify_l1 = e.modify_l1

\* An intervention from outside is answered.
LEMMA AnswersOK ==
  ASSUME NEW n, NEW v, NEW dl2, NEW e, NEW f, EntryOK(n, e, v), External(e), AnswersAs(e, f)
  PROVE  Quiet(n, e, f, v) /\ KeepsAwait(n, e, f) /\ RoundOK(n, f, dl2, v) /\ External(f)
         /\ e.state \in {"MODIFY_L1", "EXTRDY"}
<1>1. External(f)  BY DEF AnswersAs, External
<1>2. e.state # "EMPTY"  BY DEF EntryOK
<1>3. AskOK(n, e, v)  BY <1>2 DEF EntryOK
<1>4. AskOK(n, f, v)  BY <1>3 DEF AnswersAs, AskOK
<1>5. EntryOK(n, f, v)  BY <1>1, <1>2, <1>4 DEF AnswersAs, EntryOK
<1>6. e.state \in {"MODIFY_L1", "EXTRDY"}  BY <1>3 DEF AskOK
<1>7. Calm(n, e, f, v)  BY <1>1, <1>5, <1>6 DEF AnswersAs, Calm, InstAsks
<1>8. QED
  BY <1>1, <1>6, <1>7
  DEF AnswersAs, Quiet, KeepsServed, KeepsPending, KeepsAwait, Awaited, Pending, Round,
      RoundOK, Issued

\* ... and the invariant keeps.
LEMMA AnswersGood ==
  ASSUME NEW st, NEW v, Good(st, v), NEW i \in Entries, External(st.missq[i]),
         NEW f, AnswersAs(st.missq[i], f),
         NEW x, x = [st EXCEPT !.missq = [st.missq EXCEPT ![i] = f]]
  PROVE  Moved(st, x, v, {"MODIFY_L1"})
<1> DEFINE n == st.cpuid  q == st.missq  e == q[i]  r == [q EXCEPT ![i] = f]
<1>1. DOMAIN st = CpuFields /\ DOMAIN q = Entries /\ EntryOK(n, e, v)  BY CoreOf
<1>2. /\ Quiet(n, e, f, v) /\ KeepsAwait(n, e, f) /\ RoundOK(n, f, st.dl2, v)
      /\ e.state \in {"MODIFY_L1", "EXTRDY"}
  <2> HIDE DEF n, e
  <2>1. External(e) /\ AnswersAs(e, f)  BY DEF e
  <2>2. QED  BY <1>1, <2>1, AnswersOK
<1>3. f.state = "EXTRDY"  BY DEF AnswersAs
<1> HIDE DEF r
<1>4. /\ Frame(st, x) /\ x.missq = r /\ x.dl2 = st.dl2 /\ x.events = st.events
      /\ x.refilltag = st.refilltag /\ x.refilli = st.refilli
  BY <1>1 DEF Frame, CpuFields, WPart, LPart, r
<1>5. SolidStep(st, x, i, f, v)
  BY <1>2, <1>4, CoreOf DEF SolidStep, r
<1>6. Good(x, v)
  <2>1. x.events = st.events /\ KeepsAwait(st.cpuid, st.missq[i], f)  BY <1>2, <1>4
  <2>2. QED  BY <1>5, <2>1, GoodChange
<1>7. StatesKept(q, x.missq, {"MODIFY_L1"})
  BY <1>1, <1>2, <1>3, <1>4 DEF StatesKept, r
<1>8. QED  BY <1>4, <1>6, <1>7 DEF Moved, Frame

WtbkAnswer(e, w) ==
  [e EXCEPT !.ack = IF w.req = "WRITEBACK" THEN "ACK_DATA" ELSE "ACK",
            !.cache_status = w.cache_status, !.state = "EXTRDY", !.wtbkq_checked = TRUE]

\* check_wtbkq answers from a write-back, which may be cancelled.
LEMMA CheckWtbkqGood ==
  ASSUME NEW st, NEW v, Good(st, v), NEW i \in Entries, External(st.missq[i]),
         st.missq[i].state = "MODIFY_L1", NEW x, x = check_wtbkq(st, i)
  PROVE  Went(st, x, v, {"MODIFY_L1"})
<1> DEFINE q == st.missq  e == q[i]  j == Min(Conflicting(st, i))  w == st.wtbkq[j]
           f == WtbkAnswer(e, w)
           answered == [st EXCEPT !.missq = [q EXCEPT ![i] = f]]
<1>1. DOMAIN st = CpuFields /\ DOMAIN q = Entries /\ EntryOK(st.cpuid, e, v)
      /\ DOMAIN e = EntryFields
  BY CoreOf DEF EntryOK
<1>2. CASE ~AnsweredByWtbkq(st, i)
  <2> DEFINE g == [e EXCEPT !.wtbkq_checked = TRUE]  r == [q EXCEPT ![i] = g]
  <2>1. x = [st EXCEPT !.missq = r]  BY <1>1, <1>2 DEF check_wtbkq, CpuFields
  <2>2. LooksAs(e, g)  BY <1>1 DEF LooksAs, AckFields, EntryFields
  <2>3. DOMAIN r = Entries /\ \A k \in Entries : r[k] = q[k] \/ LooksAs(q[k], r[k])
    <3> HIDE DEF g
    <3>1. QED  BY <1>1, <2>2
  <2>4. StatesKept(q, r, {"MODIFY_L1"})
    <3>1. g.state = e.state  BY <1>1 DEF EntryFields
    <3> HIDE DEF g
    <3>2. QED  BY <1>1, <3>1 DEF StatesKept
  <2> HIDE DEF r
  <2>5. MissOK(st.cpuid, r, st.missq_num, st.dl2, st.events, st.refilltag, st.refilli,
               st.out, v)
    <3>1. MissOK(st.cpuid, q, st.missq_num, st.dl2, st.events, st.refilltag, st.refilli,
               st.out, v)
      BY CoreOf
    <3> HIDE DEF q
    <3>2. QED  BY <2>3, <3>1, LooksGood
  <2>6. /\ DOMAIN x = CpuFields /\ WPart(x) = WPart(st) /\ LPart(x) = LPart(st)
        /\ x.cpuid = st.cpuid /\ x.missq = r /\ x.missq_num = st.missq_num /\ x.dl2 = st.dl2
        /\ x.refilltag = st.refilltag /\ x.refilli = st.refilli /\ x.out = st.out
        /\ x.events = st.events
    BY <1>1, <2>1 DEF CpuFields, WPart, LPart
  <2>7. M(x, v)  BY <2>5, <2>6 DEF M
  <2>8. Moved(st, x, v, {"MODIFY_L1"})  BY <2>4, <2>6, <2>7, SameW, SameL DEF Good, Moved
  <2>9. QED  BY <2>8, MovedWent
<1>3. CASE AnsweredByWtbkq(st, i)
  <2>1. j \in Slots /\ w.valid
    <3>1. Conflicting(st, i) \in SUBSET Nat /\ Conflicting(st, i) # {}
      BY <1>3, SlotsFinite DEF AnsweredByWtbkq, Conflicting
    <3>2. j \in Conflicting(st, i)  BY <3>1, LeastIn
    <3>3. QED  BY <3>2 DEF Conflicting
  <2>2. AnswersAs(e, f)  BY <1>1 DEF AnswersAs, WtbkAnswer, EntryFields, Acks
  <2>3. Moved(st, answered, v, {"MODIFY_L1"})
    <3> HIDE DEF f
    <3>1. QED  BY <2>2, AnswersGood
  <2>4. x = answered \/ x = wtbkq_leave(answered, j)
    BY <1>1, <1>3 DEF check_wtbkq, WtbkAnswer, CpuFields
  <2>5. /\ answered.wtbkq = st.wtbkq /\ answered.wtbkq_num = st.wtbkq_num
        /\ DOMAIN answered = CpuFields
    BY <1>1 DEF CpuFields
  <2> HIDE DEF answered, j
  <2>6. CASE x = answered
    BY <2>3, <2>6, MovedWent
  <2>7. CASE x = wtbkq_leave(answered, j)
    <3>1. Good(answered, v) /\ answered.wtbkq[j].valid  BY <2>1, <2>3, <2>5 DEF Moved
    <3>2. /\ Good(x, v) /\ LPart(x) = LPart(answered) /\ MPart(x) = MPart(answered)
          /\ x.wtbkq_num <= answered.wtbkq_num
      <4> DEFINE s == answered
      <4>1. Good(s, v) /\ s.wtbkq[j].valid /\ j \in Slots /\ x = wtbkq_leave(s, j)
        BY <2>1, <2>7, <3>1
      <4> HIDE DEF s
      <4>2. Good(x, v) /\ LPart(x) = LPart(s) /\ MPart(x) = MPart(s) /\ x.wtbkq_num <= s.wtbkq_num
        BY ONLY <4>1, LeaveGood
      <4>3. QED  BY <4>2 DEF s
    <3>3. x.missq = answered.missq  BY <3>2 DEF MPart
    <3>4. QED  BY <2>3, <2>5, <3>2, <3>3 DEF Moved, Went
  <2>8. QED  BY <2>4, <2>6, <2>7
<1>4. QED  BY <1>2, <1>3

-----------------------------------------------------------------------------
(***************************************************************************)
(* Rounds of interventions, and the grant that ends them.                  *)
(***************************************************************************)

\* An intervention for a cache that none is under way to.
LEMMA PostInvn ==
  ASSUME NEW n, NEW v, NEW q, NEW out, Outs(n, q, out, v), NEW d \in Cpus, NEW p,
         PacketOK("INVN", n, d, p, v.text), Pending(q[p.qid], <<d, p.cache>>),
         \A t \in v.sent : t[1] # <<d, p.cache>>,
         \A k \in DOMAIN out["INVN"][d] : out["INVN"][d][k].cache # p.cache
  PROVE  Outs(n, q, Posted(out, "INVN", d, p), v)
<1> DEFINE r == Posted(out, "INVN", d, p)  s == out["INVN"][d]  new == Len(s) + 1
<1>0. /\ "INVN" \in Types /\ "RESP" \in Types /\ OutShape(out) /\ OutTyped(n, out, v)
      /\ InvnsOut(q, out, v) /\ RespsOut(q, out, v)
  BY DEF Types, Outs
<1>1. /\ OutShape(r) /\ OutTyped(n, r, v)
      /\ \A u \in Types, c \in Cpus : u # "INVN" \/ c # d => r[u][c] = out[u][c]
      /\ DOMAIN r["INVN"][d] = DOMAIN s \cup {new} /\ new \notin DOMAIN s
      /\ \A k \in DOMAIN s : r["INVN"][d][k] = s[k]
      /\ r["INVN"][d][new] = p
  BY <1>0, PostedShape
<1> HIDE DEF r
<1>2. \A c \in Cpus : r["RESP"][c] = out["RESP"][c]  BY <1>0, <1>1
<1>3. \A c \in Cpus \ {d} : r["INVN"][c] = out["INVN"][c]  BY <1>0, <1>1
<1>4. RespsOut(q, r, v)  BY <1>0, <1>2 DEF RespsOut
<1>5. InvnsOut(q, r, v)
  <2>1. SUFFICES ASSUME NEW c \in Cpus, NEW k \in DOMAIN r["INVN"][c]
        PROVE  LET y == r["INVN"][c][k] IN
               /\ Pending(q[y.qid], <<c, y.cache>>)
               /\ \A t \in v.sent : t[1] # <<c, y.cache>>
               /\ \A m \in DOMAIN r["INVN"][c] : r["INVN"][c][m].cache = y.cache => m = k
    BY DEF InvnsOut
  <2>2. CASE c # d  BY <1>0, <1>3, <2>2 DEF InvnsOut
  <2>3. CASE c = d /\ k \in DOMAIN s
    <3>1. r["INVN"][c][k] = s[k]  BY <1>1, <2>3
    <3>2. /\ Pending(q[s[k].qid], <<d, s[k].cache>>)
          /\ \A t \in v.sent : t[1] # <<d, s[k].cache>>
          /\ \A m \in DOMAIN s : s[m].cache = s[k].cache => m = k
      BY <1>0, <2>3 DEF InvnsOut
    <3>3. \A m \in DOMAIN r["INVN"][c] : r["INVN"][c][m].cache = s[k].cache => m = k
      BY <1>1, <2>3, <3>2
    <3>4. QED  BY <2>3, <3>1, <3>2, <3>3
  <2>4. CASE c = d /\ k = new
    <3>1. r["INVN"][c][k] = p  BY <1>1, <2>4
    <3>2. \A m \in DOMAIN r["INVN"][c] : r["INVN"][c][m].cache = p.cache => m = k
      BY <1>1, <2>4
    <3>3. QED  BY <2>4, <3>1, <3>2
  <2>5. QED  BY <1>1, <2>2, <2>3, <2>4
<1>6. QED  BY <1>1, <1>4, <1>5 DEF Outs, r

\* An answer of this cpu, and one for the home of its block that nobody else
\* has or gives.
LEMMA PostResp ==
  ASSUME NEW n, NEW v, NEW q, NEW out, Outs(n, q, out, v), NEW d \in Cpus, NEW p,
         PacketOK("RESP", n, d, p, v.text),
         Owner[p.blk] = d =>
           /\ <<d, p.cache, p.qid>> \in v.asked /\ <<d, p.cache>> \notin v.others
           /\ \A i \in Entries : ~SameAsk(q[i], d, p.cache)
           /\ \A k \in DOMAIN out["RESP"][d] :
                Owner[out["RESP"][d][k].blk] = d => out["RESP"][d][k].cache # p.cache
  PROVE  Outs(n, q, Posted(out, "RESP", d, p), v)
<1> DEFINE r == Posted(out, "RESP", d, p)  s == out["RESP"][d]  new == Len(s) + 1
<1>0. /\ "INVN" \in Types /\ "RESP" \in Types /\ OutShape(out) /\ OutTyped(n, out, v)
      /\ InvnsOut(q, out, v) /\ RespsOut(q, out, v)
  BY DEF Types, Outs
<1>1. /\ OutShape(r) /\ OutTyped(n, r, v)
      /\ \A u \in Types, c \in Cpus : u # "RESP" \/ c # d => r[u][c] = out[u][c]
      /\ DOMAIN r["RESP"][d] = DOMAIN s \cup {new} /\ new \notin DOMAIN s
      /\ \A k \in DOMAIN s : r["RESP"][d][k] = s[k]
      /\ r["RESP"][d][new] = p
  BY <1>0, PostedShape
<1> HIDE DEF r
<1>2. \A c \in Cpus : r["INVN"][c] = out["INVN"][c]  BY <1>0, <1>1
<1>3. \A c \in Cpus \ {d} : r["RESP"][c] = out["RESP"][c]  BY <1>0, <1>1
<1>4. InvnsOut(q, r, v)  BY <1>0, <1>2 DEF InvnsOut
<1>5. RespsOut(q, r, v)
  <2>1. SUFFICES ASSUME NEW c \in Cpus, NEW k \in DOMAIN r["RESP"][c],
                        Owner[r["RESP"][c][k].blk] = c
        PROVE  LET y == r["RESP"][c][k] IN
               /\ <<c, y.cache, y.qid>> \in v.asked /\ <<c, y.cache>> \notin v.others
               /\ \A i \in Entries : ~SameAsk(q[i], c, y.cache)
               /\ \A m \in DOMAIN r["RESP"][c] :
                    Owner[r["RESP"][c][m].blk] = c /\ r["RESP"][c][m].cache = y.cache => m = k
    BY DEF RespsOut
  <2>2. CASE c # d  BY <1>0, <1>3, <2>1, <2>2 DEF RespsOut
  <2>3. CASE c = d /\ k \in DOMAIN s
    <3>1. r["RESP"][c][k] = s[k]  BY <1>1, <2>3
    <3>2. /\ <<d, s[k].cache, s[k].qid>> \in v.asked /\ <<d, s[k].cache>> \notin v.others
          /\ \A i \in Entries : ~SameAsk(q[i], d, s[k].cache)
          /\ \A m \in DOMAIN s : Owner[s[m].blk] = d /\ s[m].cache = s[k].cache => m = k
      BY <1>0, <2>1, <2>3, <3>1 DEF RespsOut
    <3>3. \A m \in DOMAIN r["RESP"][c] :
            Owner[r["RESP"][c][m].blk] = c /\ r["RESP"][c][m].cache = s[k].cache => m = k
      BY <1>1, <2>1, <2>3, <3>1, <3>2
    <3>4. QED  BY <2>3, <3>1, <3>2, <3>3
  <2>4. CASE c = d /\ k = new
    <3>1. r["RESP"][c][k] = p  BY <1>1, <2>4
    <3>2. \A m \in DOMAIN r["RESP"][c] :
            Owner[r["RESP"][c][m].blk] = c /\ r["RESP"][c][m].cache = p.cache => m = k
      BY <1>1, <2>1, <2>4, <3>1
    <3>3. QED  BY <2>1, <2>4, <3>1, <3>2
  <2>5. QED  BY <1>1, <2>2, <2>3, <2>4
<1>6. QED  BY <1>1, <1>4, <1>5 DEF Outs, r

-----------------------------------------------------------------------------
\* The targets of a round, and the one that is asked first.
Targets(st, i) ==
  LET e == st.missq[i]
      shared == st.dl2[e.L2_way].status = "SHARED"
  IN  {l1 \in e.directory \ e.sent : l1[1] # st.cpuid /\ (shared \/ l1[2] = "dcache")}
FirstTarget(n, targets) == IF DataL1(n) \in targets THEN DataL1(n) ELSE InstL1(n)

\* intervene asks the first cpu that has not been asked.
LEMMA FirstIn ==
  ASSUME NEW targets \in SUBSET (Cpus \X {"dcache", "icache"}), targets # {},
         NEW n, n = Min({l1[1] : l1 \in targets})
  PROVE  FirstTarget(n, targets) \in targets /\ FirstTarget(n, targets)[1] = n
<1> DEFINE C == {l1[1] : l1 \in targets}
<1>1. C \in SUBSET Nat /\ C # {}  BY SizesAssumption DEF Cpus
<1>2. n \in C  BY <1>1, LeastIn
<1>3. PICK l1 \in targets : l1[1] = n  BY <1>2
<1>4. l1 = DataL1(n) \/ l1 = InstL1(n)  BY <1>3 DEF DataL1, InstL1
<1>5. QED  BY <1>3, <1>4 DEF FirstTarget, DataL1, InstL1

AskedAs(e, l1) == [e EXCEPT !.sent = @ \cup {l1}]

\* The entry of a round notes whom it has asked.
LEMMA AskedOK ==
  ASSUME NEW n, NEW v, NEW dl2, NEW e, NEW l1, NEW f, f = AskedAs(e, l1), EntryOK(n, e, v),
         RoundOK(n, e, dl2, v), Round(e)
  PROVE  /\ Quiet(n, e, f, v) /\ RoundOK(n, f, dl2, v) /\ KeepsAwait(n, e, f)
         /\ f.state = e.state /\ f.acked = e.acked /\ f.sent = e.sent \cup {l1} /\ Round(f)
         /\ Serves(n, f) /\ AckFields(e, f)
<1>1. /\ AckFields(e, f) /\ f.sent = e.sent \cup {l1} /\ f.acked = e.acked
      /\ f.scache_refilled = e.scache_refilled
  BY DEF AskedAs, AckFields, EntryOK, EntryFields
<1>2. e.state \in {"MODIFY_L1", "L2_MISS"} /\ e.state # "EMPTY"  BY DEF Round
<1>3. Calm(n, e, f, v)  BY <1>1, <1>2, AckCalm
<1>4. Round(f)  BY <1>1 DEF Round, AckFields, External
<1>5. KeepsServed(n, e, f) /\ KeepsPending(n, e, f) /\ KeepsAwait(n, e, f)
  BY <1>1, <1>2, <1>4
  DEF KeepsServed, KeepsPending, KeepsAwait, Awaited, Pending, Issued, AckFields
<1>6. RoundOK(n, f, dl2, v)
  <2>1. \A m \in f.acked : m[1] # n => m \in f.sent  BY <1>1 DEF RoundOK
  <2>2. /\ f.state = e.state /\ f.blk = e.blk /\ f.req = e.req /\ f.L2_way = e.L2_way
        /\ f.L2_replace = e.L2_replace /\ f.intervention_type = e.intervention_type
        /\ f.cache_status = e.cache_status /\ f.directory \subseteq e.directory
    BY <1>1 DEF AckFields
  <2>3. QED  BY <2>1, <2>2, RoundKept
<1>7. Serves(n, e)  BY RoundServes
<1>8. Serves(n, f)  BY <1>1, <1>7 DEF Serves, Issued, AckFields
<1>9. QED  BY <1>1, <1>3, <1>4, <1>5, <1>6, <1>8 DEF Quiet, AckFields

Intervened(st, x, i, v) ==
  /\ Moved(st, x, v, {}) /\ x.dl2 = st.dl2 /\ x.events = st.events
  /\ Round(x.missq[i]) /\ AckFields(st.missq[i], x.missq[i])

\* intervene asks at most one cache, and no cache twice.
LEMMA InterveneGood ==
  ASSUME NEW st, NEW v, Good(st, v), NEW i \in Entries, Round(st.missq[i]),
         NEW type \in Interventions, NEW blk \in Blocks, blk = Target(st.missq[i]),
         Owner[blk] = st.cpuid, NEW x, x = intervene(st, i, type, blk)
  PROVE  Intervened(st, x, i, v)
<1> DEFINE n == st.cpuid  q == st.missq  e == q[i]  T == Targets(st, i)
           d == Min({l1[1] : l1 \in T})  first == FirstTarget(d, T)
           f == AskedAs(e, first)  r == [q EXCEPT ![i] = f]
           y == [st EXCEPT !.missq = r]
           p == [cpuid |-> n, req |-> type, cache_status |-> "UNTOUCHED", qid |-> i,
                 blk |-> blk, cache |-> first[2]]
           out == Posted(st.out, "INVN", d, p)
<1>0. /\ DOMAIN st = CpuFields /\ DOMAIN q = Entries /\ n \in Cpus
      /\ EntryOK(n, e, v) /\ RoundOK(n, e, st.dl2, v) /\ DOMAIN e = EntryFields
      /\ Core(n, q, st.missq_num, st.dl2, st.refilltag, st.refilli, v)
      /\ Outs(n, q, st.out, v) /\ DOMAIN st.dl2 = L2Ways
      /\ \A w \in L2Ways : L2OK(n, st.dl2[w], v.text)
      /\ \A j \in Entries : EntryOK(n, q[j], v)
  BY CoreOf DEF EntryOK
<1>1. CASE T = {} \/ ~Room(st, "INVN")
  <2>1. x = st  BY <1>1 DEF intervene, Targets
  <2>2. AckFields(e, e)  BY <1>0 DEF AckFields
  <2>3. QED  BY <2>1, <2>2, MovedNot DEF Intervened
<1>2. CASE ~(T = {} \/ ~Room(st, "INVN"))
  <2>1. x = [noc_request(st, "INVN", d, type, "UNTOUCHED", i, blk, first[2])
               EXCEPT !.missq[i].sent = @ \cup {first}]
    BY <1>2 DEF intervene, Targets, FirstTarget
  <2>2. /\ T \in SUBSET (Cpus \X {"dcache", "icache"})
        /\ \A l1 \in T : l1[2] = CacheOf(blk, v.text)
    <3>1. DirectoryOK(e.directory, blk, v.text)  BY <1>0 DEF RoundOK
    <3>2. QED  BY <3>1 DEF Targets, DirectoryOK, CacheOf
  <2>3. first \in T /\ first[1] = d
    <3> HIDE DEF T
    <3>1. QED  BY <1>2, <2>2, FirstIn
  <2>4. /\ d \in Cpus /\ first = <<d, first[2]>> /\ first[2] = CacheOf(blk, v.text)
        /\ d # n /\ first \notin e.sent
    <3>1. first \in Cpus \X {"dcache", "icache"}  BY <2>2, <2>3
    <3>2. first[1] # n /\ first \notin e.sent /\ first \in e.directory  BY <2>3 DEF Targets
    <3> HIDE DEF first, d, T
    <3>3. QED  BY <2>2, <2>3, <3>1, <3>2
  <2> HIDE DEF T, d, first
  <2>5. /\ Quiet(n, e, f, v) /\ RoundOK(n, f, st.dl2, v) /\ KeepsAwait(n, e, f)
        /\ f.state = e.state /\ f.acked = e.acked /\ f.sent = e.sent \cup {first} /\ Round(f)
        /\ Serves(n, f) /\ AckFields(e, f)
    BY <1>0, AskedOK
  <2>6. x = [y EXCEPT !.out = out, !.room["INVN"] = @ - 1]
    BY <1>0, <2>1 DEF noc_request, Posted, AskedAs, CpuFields
  <2> HIDE DEF f
  <2>7. /\ Frame(st, y) /\ y.missq = r /\ y.dl2 = st.dl2 /\ y.events = st.events
        /\ y.refilltag = st.refilltag /\ y.refilli = st.refilli
    BY <1>0 DEF Frame, CpuFields, WPart, LPart
  <2> HIDE DEF y
  <2>8. Good(y, v)
    <3>1. SolidStep(st, y, i, f, v)  BY <1>0, <2>5, <2>7 DEF SolidStep
    <3>2. y.events = st.events /\ KeepsAwait(st.cpuid, st.missq[i], f)  BY <2>5, <2>7
    <3>3. QED  BY <3>1, <3>2, GoodChange
  <2>9. r[i] = f /\ \A j \in Entries \ {i} : r[j] = q[j]  BY <1>0
  <2>10. \A j \in Entries : Pending(q[j], first) => FALSE
    <3>1. SUFFICES ASSUME NEW j \in Entries, Pending(q[j], first) PROVE FALSE  OBVIOUS
    <3>2. Round(q[j]) /\ first \in q[j].sent  BY <3>1 DEF Pending
    <3>3. Serves(n, q[j])  BY <1>0, <3>2, RoundServes
    <3>4. Serves(n, e)  BY <1>0, RoundServes
    <3>5. j = i  BY <1>0, <3>3, <3>4 DEF Core, OneServed
    <3>6. QED  BY <2>4, <3>2, <3>5
  <2>11. first \notin f.acked
    <3>1. first \in e.acked => first \in e.sent  BY <1>0, <2>4 DEF RoundOK
    <3>2. QED  BY <2>4, <2>5, <3>1
  <2>12. Outs(n, r, out, v)
    <3>1. Outs(n, r, st.out, v)
      <4>1. Outs(y.cpuid, y.missq, y.out, v)  BY <2>8, CoreOf
      <4>2. y.cpuid = n /\ y.missq = r /\ y.out = st.out  BY <2>7 DEF Frame
      <4>3. QED  BY <4>1, <4>2
    <3>2. PacketOK("INVN", n, d, p, v.text)
      BY <1>0, <2>4 DEF PacketOK
    <3>3. Pending(r[p.qid], <<d, p.cache>>)
      BY <2>4, <2>5, <2>9, <2>11 DEF Pending
    <3>4. \A t \in v.sent : t[1] # <<d, p.cache>>
      BY <1>0, <2>4, <2>10 DEF Core, SentOK
    <3>5. \A k \in DOMAIN st.out["INVN"][d] : st.out["INVN"][d][k].cache # p.cache
      <4>1. SUFFICES ASSUME NEW k \in DOMAIN st.out["INVN"][d],
                            st.out["INVN"][d][k].cache = p.cache
            PROVE FALSE
        OBVIOUS
      <4> DEFINE z == st.out["INVN"][d][k]
      <4>2. Pending(q[z.qid], <<d, z.cache>>)  BY <1>0, <2>4 DEF Outs, InvnsOut
      <4>3. z.qid \in Entries
        <5>1. "INVN" \in Types  BY DEF Types
        <5>2. PacketOK("INVN", n, d, z, v.text)  BY <1>0, <2>4, <5>1 DEF Outs, OutTyped
        <5>3. QED  BY <5>2 DEF PacketOK
      <4>4. QED  BY <2>4, <2>10, <4>1, <4>2, <4>3
    <3> HIDE DEF r, p, n
    <3>6. QED  BY <2>4, <3>1, <3>2, <3>3, <3>4, <3>5, PostInvn
  <2> HIDE DEF out, p
  <2>13. /\ DOMAIN x = CpuFields /\ WPart(x) = WPart(y) /\ LPart(x) = LPart(y)
         /\ x.cpuid = y.cpuid /\ x.missq = y.missq /\ x.missq_num = y.missq_num
         /\ x.dl2 = y.dl2 /\ x.refilltag = y.refilltag /\ x.refilli = y.refilli
         /\ x.events = y.events /\ x.out = out
    <3>1. DOMAIN y = CpuFields  BY <2>7 DEF Frame
    <3>2. QED  BY <2>6, <3>1 DEF CpuFields, WPart, LPart
  <2>14. M(x, v)
    <3>1. M(y, v)  BY <2>8 DEF Good
    <3>2. Outs(x.cpuid, x.missq, x.out, v)  BY <2>7, <2>12, <2>13 DEF Frame
    <3>3. QED  BY <2>13, <3>1, <3>2 DEF M, MissOK
  <2>15. Good(x, v)  BY <2>8, <2>13, <2>14, SameW, SameL DEF Good
  <2>16. StatesKept(q, x.missq, {})
    BY <1>0, <2>5, <2>7, <2>9, <2>13 DEF StatesKept
  <2>17. WPart(x) = WPart(st) /\ LPart(x) = LPart(st)  BY <2>7, <2>13 DEF Frame
  <2>18. Moved(st, x, v, {})  BY <2>15, <2>16, <2>17 DEF Moved
  <2>19. x.missq[i] = f /\ x.dl2 = st.dl2 /\ x.events = st.events
    BY <2>7, <2>9, <2>13
  <2> HIDE DEF r
  <2>20. QED  BY <2>5, <2>18, <2>19 DEF Intervened
<1>3. QED  BY <1>1, <1>2

GrantStatus(e) == IF e.req = "READ_SHD" THEN e.cache_status ELSE "EXCLUSIVE"
Granted(st, e) ==
  [st.dl2 EXCEPT ![e.L2_way] = [@ EXCEPT !.directory = GrantedTo(e), !.status = GrantStatus(e)]]

\* The grant that ends a round keeps the invariant.
LEMMA GrantGood ==
  ASSUME NEW st, NEW v, Good(st, v), NEW i \in Entries, Round(st.missq[i]),
         st.missq[i].state = "MODIFY_L1", AllAcked(st.missq[i]), NEW x, x = grant(st, i)
  PROVE  Moved(st, x, v, {"MODIFY_L1"})
<1> DEFINE n == st.cpuid  q == st.missq  e == q[i]  f == Answer(st, e)  T == v.text
           c == [st.dl2[e.L2_way] EXCEPT !.directory = GrantedTo(e), !.status = GrantStatus(e)]
           g == [st.dl2 EXCEPT ![e.L2_way] = c]
           r == [q EXCEPT ![i] = f]
<1>0. /\ DOMAIN st = CpuFields /\ DOMAIN q = Entries /\ n \in Cpus
      /\ EntryOK(n, e, v) /\ RoundOK(n, e, st.dl2, v) /\ DOMAIN e = EntryFields
      /\ DOMAIN st.dl2 = L2Ways /\ \A w \in L2Ways : L2OK(n, st.dl2[w], T)
  BY CoreOf DEF EntryOK
<1>1. x = [st EXCEPT !.dl2 = g, !.missq = r]
  BY <1>0 DEF grant, CpuFields, GrantStatus
<1>2. /\ ~External(e) /\ Serves(n, e) /\ e.state # "EMPTY" /\ e.blk \in Blocks
      /\ e.cpuid \in Cpus /\ e.cache = CacheOf(e.blk, T) /\ OwnOK(n, e)
  <2>1. ~External(e) /\ Serves(n, e)  BY <1>0, RoundServes DEF Round
  <2>2. QED  BY <1>0, <2>1 DEF EntryOK
<1>3. /\ DOMAIN f = EntryFields /\ f.state = (IF e.cpuid = n THEN "REPLACE_L1" ELSE "EXTRDY")
      /\ Names(e, f) /\ f.wait = e.wait
  BY <1>0 DEF Answer, EntryFields, Names
<1>4. EntryOK(n, f, v) /\ Calm(n, e, f, v) /\ KeepsServed(n, e, f) /\ ~External(f)
  <2>1. f.state \notin {"EMPTY", "L1_MISS"} /\ (f.state = "EXTRDY" => e.cpuid # n)
        /\ f.state # "READ_L2"
    BY <1>3
  <2> HIDE DEF f, e, n
  <2>2. QED  BY <1>0, <1>2, <1>3, <2>1, HomeEntry
<1>5. e.L2_way \in L2Ways /\ st.dl2[e.L2_way].tag = e.blk
      /\ DirectoryOK(e.directory, e.blk, T)
      /\ (e.req = "READ_SHD" => e.cache_status \in {"SHARED", "EXCLUSIVE"})
  BY <1>0 DEF RoundOK, Target
<1>6. DirectoryOK(GrantedTo(e), e.blk, T)
  <2>1. CASE e.req = "READ_SHD"
    BY <1>2, <1>5, <2>1 DEF DirectoryOK, GrantedTo, L1Of
  <2>2. CASE e.req # "READ_SHD"
    <3>1. CacheOf(e.blk, T) = "dcache"  BY <1>2, <2>2 DEF OwnOK, CacheOf
    <3>2. QED  BY <1>2, <2>2, <3>1 DEF DirectoryOK, GrantedTo, DataL1
  <2>3. QED  BY <2>1, <2>2
<1>7. /\ DOMAIN c = L2Fields /\ c.tag = e.blk /\ c.directory = GrantedTo(e)
      /\ c.status = GrantStatus(e)
  BY <1>0, <1>5 DEF L2OK, L2Fields
<1>8. L2OK(n, c, T)
  <2>1. c.status \in {"SHARED", "EXCLUSIVE"}  BY <1>5, <1>7 DEF GrantStatus
  <2>2. Owner[e.blk] = n  BY <1>2 DEF Serves
  <2>3. QED  BY <1>2, <1>6, <1>7, <2>1, <2>2 DEF L2OK
<1> HIDE DEF c, f
<1>9. /\ DOMAIN g = L2Ways /\ \A w \in L2Ways : L2OK(n, g[w], T) /\ g[w].tag = st.dl2[w].tag
  BY <1>0, <1>5, <1>7, <1>8
<1>10. KeepsPending(n, e, f)
  BY DEF AllAcked, KeepsPending, Pending
<1>11. KeepsAwait(n, e, f)  BY DEF KeepsAwait, Awaited
<1> HIDE DEF g, r
<1>12. /\ Frame(st, x) /\ x.missq = r /\ x.dl2 = g /\ x.events = st.events
       /\ x.refilltag = st.refilltag /\ x.refilli = st.refilli
  BY <1>0, <1>1 DEF Frame, CpuFields, WPart, LPart
<1>13. SolidStep(st, x, i, f, v)
  <2>1. RoundOK(n, f, x.dl2, v)  BY <1>3 DEF RoundOK, Round
  <2>2. Quiet(n, e, f, v)  BY <1>4, <1>10 DEF Quiet
  <2>3. QED  BY <1>9, <1>12, <2>1, <2>2 DEF SolidStep, r
<1>14. Good(x, v)
  <2>1. x.events = st.events /\ KeepsAwait(st.cpuid, st.missq[i], f)  BY <1>11, <1>12
  <2>2. QED  BY <1>13, <2>1, GoodChange
<1>15. StatesKept(q, x.missq, {"MODIFY_L1"})
  BY <1>0, <1>2, <1>3, <1>12 DEF StatesKept, r
<1>16. QED  BY <1>12, <1>14, <1>15 DEF Moved, Frame

\* States kept by two steps are kept by both.
LEMMA KeptTwice ==
  ASSUME NEW q, NEW r, NEW s, NEW C, StatesKept(q, r, C), StatesKept(r, s, C)
  PROVE  StatesKept(q, s, C)
BY DEF StatesKept

\* States kept but for C are kept but for more.
LEMMA KeptMore ==
  ASSUME NEW q, NEW r, NEW C, NEW D, C \subseteq D, StatesKept(q, r, C)
  PROVE  StatesKept(q, r, D)
BY DEF StatesKept

\* Two steps of the queues are one ...
LEMMA WentTwice ==
  ASSUME NEW st, NEW y, NEW x, NEW v, NEW C, Good(st, v), Went(st, y, v, C), Went(y, x, v, C)
  PROVE  Went(st, x, v, C)
<1>1. st.wtbkq_num \in Nat /\ y.wtbkq_num \in Nat /\ x.wtbkq_num \in Nat
  BY SlotCount DEF Went
<1>2. StatesKept(st.missq, x.missq, C)  BY KeptTwice DEF Went
<1>3. QED  BY <1>1, <1>2 DEF Went

\* ... that may change more states.
LEMMA WentMore ==
  ASSUME NEW st, NEW x, NEW v, NEW C, NEW D, C \subseteq D, Went(st, x, v, C)
  PROVE  Went(st, x, v, D)
BY KeptMore DEF Went

\* modify_L1 keeps the invariant.
LEMMA ModifyGood ==
  ASSUME NEW st, NEW v, Good(st, v), NEW i,
         i # None => i \in Entries /\ st.missq[i].state = "MODIFY_L1",
         NEW x, x = modify_L1(st, i)
  PROVE  Went(st, x, v, {"MODIFY_L1"})
<1> DEFINE n == st.cpuid  e == st.missq[i]  C == {"MODIFY_L1"}
<1>1. CASE i = None
  BY <1>1, WentNot DEF modify_L1
<1>2. CASE i # None /\ External(e)
  <2> DEFINE y == check_conflict(st, i)
  <2>1. Moved(st, y, v, {}) /\ (External(y.missq[i]) <=> External(e))
    <3> HIDE DEF e
    <3>1. i \in Entries /\ st.missq[i].state = "MODIFY_L1"  BY <1>2
    <3>2. QED  BY <3>1, ConflictGood DEF e
  <2>2. Went(st, y, v, {})
    <3> HIDE DEF y
    <3>1. QED  BY <2>1, MovedWent
  <2>3. Went(st, y, v, C)  BY ONLY <2>2, WentMore
  <2>4. y.missq[i].state = "MODIFY_L1"  BY <1>2, <2>1 DEF Moved, StatesKept
  <2>5. x = check_wtbkq(y, i)  BY <1>2 DEF modify_L1
  <2> HIDE DEF y
  <2>6. Went(y, x, v, C)  BY <1>2, <2>1, <2>4, <2>5, CheckWtbkqGood DEF Moved
  <2>7. QED
    <3>1. QED  BY ONLY <2>3, <2>6, WentTwice, Good(st, v)
<1>3. CASE i # None /\ ~External(e)
  <2> DEFINE y == intervene(st, i, e.intervention_type, e.blk)
  <2>1. Round(e) /\ i \in Entries  BY <1>3 DEF Round
  <2>2. /\ EntryOK(n, e, v) /\ RoundOK(n, e, st.dl2, v) /\ Serves(n, e)
    BY <2>1, CoreOf, RoundServes
  <2>3. /\ e.intervention_type \in Interventions /\ e.blk \in Blocks /\ e.blk = Target(e)
        /\ Owner[e.blk] = n
    BY <1>3, <2>1, <2>2 DEF RoundOK, EntryOK, Serves, Target
  <2>4. Intervened(st, y, i, v)
    <3> DEFINE type == e.intervention_type  blk == e.blk
    <3>1. type \in Interventions /\ blk \in Blocks /\ blk = Target(st.missq[i])
          /\ Owner[blk] = st.cpuid /\ y = intervene(st, i, type, blk)
          /\ Round(st.missq[i])
      BY <2>1, <2>3
    <3> HIDE DEF type, blk, y
    <3>2. QED  BY <2>1, <3>1, InterveneGood
  <2>5. x = IF AllAcked(y.missq[i]) THEN grant(y, i) ELSE y  BY <1>3 DEF modify_L1
  <2> HIDE DEF y
  <2>6. Good(y, v) /\ Went(st, y, v, C)
    <3>1. Moved(st, y, v, {}) /\ Good(y, v)  BY <2>4 DEF Intervened, Moved
    <3>2. Went(st, y, v, {})  BY <3>1, MovedWent
    <3>3. QED  BY ONLY <3>1, <3>2, WentMore
  <2>7. y.missq[i].state = "MODIFY_L1" /\ Round(y.missq[i])
    BY <1>3, <2>4 DEF Intervened, AckFields
  <2>8. Went(y, x, v, C)
    <3>1. CASE AllAcked(y.missq[i])
      <4>1. Moved(y, x, v, C)  BY <2>1, <2>5, <2>6, <2>7, <3>1, GrantGood
      <4>2. QED  BY <2>6, <4>1, MovedWent
    <3>2. CASE ~AllAcked(y.missq[i])
      BY <2>5, <2>6, <3>2, WentNot
    <3>3. QED  BY <3>1, <3>2
  <2>9. QED
    <3>1. QED  BY ONLY <2>6, <2>8, WentTwice, Good(st, v)
<1>4. QED  BY <1>1, <1>2, <1>3

-----------------------------------------------------------------------------
(***************************************************************************)
(* L2 misses: victims, memory and the refill of the L2.                    *)
(***************************************************************************)

\* A step that changes nothing of the miss queue's state but the entries.
OnlyMissq(st, x, r) ==
  /\ Frame(st, x) /\ x.missq = r /\ x.dl2 = st.dl2 /\ x.events = st.events
  /\ x.refilltag = st.refilltag /\ x.refilli = st.refilli

\* One entry changes what only the L2 and the memory look at.
LEMMA LooksMoved ==
  ASSUME NEW st, NEW v, Good(st, v), NEW i \in Entries, NEW g, LooksAs(st.missq[i], g),
         NEW x, OnlyMissq(st, x, [st.missq EXCEPT ![i] = g])
  PROVE  Moved(st, x, v, {}) /\ x.missq[i] = g
<1> DEFINE q == st.missq  r == [q EXCEPT ![i] = g]
<1>1. /\ DOMAIN q = Entries
      /\ MissOK(st.cpuid, q, st.missq_num, st.dl2, st.events, st.refilltag, st.refilli, st.out, v)
  BY CoreOf
<1>2. /\ DOMAIN r = Entries /\ \A k \in Entries : r[k] = q[k] \/ LooksAs(q[k], r[k])
      /\ r[i] = g
  BY <1>1
<1>3. StatesKept(q, r, {})  BY <1>2 DEF StatesKept, LooksAs, AckFields
<1>4. x.missq = r  BY DEF OnlyMissq
<1> HIDE DEF r, q
<1>5. MissOK(st.cpuid, r, st.missq_num, st.dl2, st.events, st.refilltag, st.refilli, st.out, v)
  BY <1>1, <1>2, LooksGood
<1>6. /\ DOMAIN x = CpuFields /\ WPart(x) = WPart(st) /\ LPart(x) = LPart(st)
      /\ x.cpuid = st.cpuid /\ x.missq = r /\ x.missq_num = st.missq_num /\ x.dl2 = st.dl2
      /\ x.refilltag = st.refilltag /\ x.refilli = st.refilli /\ x.out = st.out
      /\ x.events = st.events
  BY <1>4 DEF OnlyMissq, Frame
<1>7. M(x, v)  BY <1>5, <1>6 DEF M
<1>8. QED  BY <1>2, <1>3, <1>6, <1>7, SameW, SameL DEF Good, Moved, q

\* A request of this home goes on to a state with no round.
HomeMoves(n, e, f) ==
  /\ Serves(n, e) /\ ~External(e) /\ Names(e, f) /\ ~Awaited(n, e)
  /\ f.state \notin {"EMPTY", "L1_MISS", "READ_L2", "MODIFY_L1", "L2_MISS"}
  /\ f.state = "EXTRDY" => e.cpuid # n
  /\ \A l1 : l1[1] # n => ~Pending(e, l1)
  /\ e.state # "REFILL_L1"

\* One request of this home goes on to its next state.
LEMMA HomeMove ==
  ASSUME NEW st, NEW v, Good(st, v), NEW i \in Entries, NEW f, HomeMoves(st.cpuid, st.missq[i], f),
         NEW C, st.missq[i].state \in C \/ f.state = st.missq[i].state,
         NEW x, OnlyMissq(st, x, [st.missq EXCEPT ![i] = f])
  PROVE  Moved(st, x, v, C) /\ x.missq[i] = f
<1> DEFINE n == st.cpuid  q == st.missq  e == q[i]
<1>1. /\ DOMAIN q = Entries /\ EntryOK(n, e, v) /\ DOMAIN st.dl2 = L2Ways
      /\ \A w \in L2Ways : L2OK(st.cpuid, st.dl2[w], v.text)
  BY CoreOf
<1>2. EntryOK(n, f, v) /\ Calm(n, e, f, v) /\ KeepsServed(n, e, f) /\ ~External(f)
  <2> HIDE DEF n, e
  <2>1. /\ ~External(e) /\ Serves(n, e) /\ Names(e, f) /\ f.state \notin {"EMPTY", "L1_MISS"}
        /\ f.state = "EXTRDY" => e.cpuid # n
        /\ f.state # "READ_L2"
    BY DEF HomeMoves, n, e
  <2>2. QED  BY <1>1, <2>1, HomeEntry
<1>3. /\ Quiet(n, e, f, v) /\ KeepsAwait(n, e, f) /\ RoundOK(n, f, x.dl2, v)
  BY <1>2 DEF HomeMoves, Quiet, KeepsPending, KeepsAwait, RoundOK, Round
<1>4. SolidStep(st, x, i, f, v)
  BY <1>1, <1>3 DEF SolidStep, OnlyMissq, HomeMoves
<1>5. Good(x, v)
  <2>1. x.events = st.events /\ KeepsAwait(st.cpuid, st.missq[i], f)  BY <1>3 DEF OnlyMissq
  <2>2. QED  BY <1>4, <2>1, GoodChange
<1>6. x.missq = [q EXCEPT ![i] = f]  BY DEF OnlyMissq
<1>7. StatesKept(q, x.missq, C) /\ x.missq[i] = f
  BY <1>1, <1>6 DEF StatesKept, HomeMoves
<1>8. QED  BY <1>5, <1>7 DEF Moved, OnlyMissq, Frame

\* Two steps of the miss queue are one.
LEMMA MovedTwice ==
  ASSUME NEW st, NEW y, NEW x, NEW v, NEW C, NEW D, Moved(st, y, v, D), Moved(y, x, v, C),
         D \subseteq C
  PROVE  Moved(st, x, v, C)
<1>1. StatesKept(st.missq, y.missq, C)  BY KeptMore DEF Moved
<1>2. StatesKept(st.missq, x.missq, C)  BY <1>1, KeptTwice DEF Moved
<1>3. QED  BY <1>2 DEF Moved

\* L2_miss keeps the invariant.
LEMMA L2MissGood ==
  ASSUME NEW st, NEW v, Good(st, v), NEW i,
         i # None => i \in Entries /\ st.missq[i].state = "L2_MISS",
         NEW x, x = L2_miss(st, i)
  PROVE  Moved(st, x, v, {"L2_MISS"})
<1> DEFINE n == st.cpuid  e == st.missq[i]  C == {"L2_MISS"}
           s == IF st.dl2[e.L2_way].status = "INVALID" THEN st
                ELSE intervene(st, i, "INTERVENTION_EXC", e.L2_replace)
           ask == ~e.memread_sent /\ MemqOpen(s)
           sentread == [memq_enter(s, "read", i) EXCEPT !.missq[i].memread_sent = TRUE]
           asked == IF ask THEN sentread ELSE s
           f == [asked.missq[i] EXCEPT !.state = "MEMREF"]
<1>1. CASE i = None  BY <1>1, MovedNot DEF L2_miss
<1>2. CASE i # None
  <2>1. EntryOK(n, e, v) /\ RoundOK(n, e, st.dl2, v) /\ i \in Entries /\ DOMAIN st.dl2 = L2Ways
        /\ \A w \in L2Ways : L2OK(st.cpuid, st.dl2[w], v.text)
    BY <1>2, CoreOf
  <2>2. Round(e) /\ ~External(e)
    <3>1. ~External(e)  BY <1>2, <2>1 DEF EntryOK, AskOK
    <3>2. QED  BY <1>2, <3>1 DEF Round
  <2>3. Serves(n, e)  BY <2>1, <2>2, RoundServes
  <2>4. Moved(st, s, v, {}) /\ Round(s.missq[i]) /\ AckFields(e, s.missq[i])
    <3>1. CASE st.dl2[e.L2_way].status = "INVALID"
      <4>1. AckFields(e, e)  BY <2>1 DEF AckFields, EntryOK
      <4>2. s = st  BY <3>1
      <4>3. QED  BY <2>2, <4>1, <4>2, MovedNot
    <3>2. CASE st.dl2[e.L2_way].status # "INVALID"
      <4> DEFINE blk == e.L2_replace
      <4>1. blk \in Blocks /\ blk = Target(st.missq[i]) /\ Owner[blk] = st.cpuid
            /\ "INTERVENTION_EXC" \in Interventions /\ s = intervene(st, i, "INTERVENTION_EXC", blk)
            /\ Round(st.missq[i]) /\ i \in Entries
        BY <1>2, <2>1, <2>2, <3>2 DEF RoundOK, Target, L2OK, Interventions
      <4> HIDE DEF blk, s
      <4>2. Intervened(st, s, i, v)  BY <4>1, InterveneGood
      <4>3. QED  BY <4>2 DEF Intervened
    <3>3. QED  BY <3>1, <3>2
  <2> HIDE DEF s
  <2>5. /\ Moved(s, asked, v, {}) /\ Round(asked.missq[i]) /\ AckFields(e, asked.missq[i])
    <3>1. Good(s, v)  BY <2>4 DEF Moved
    <3>2. CASE ~ask
      BY <2>4, <3>1, <3>2, MovedNot
    <3>3. CASE ask
      <4> DEFINE d == s.missq[i]  g == [d EXCEPT !.memread_sent = TRUE]
                 r == [s.missq EXCEPT ![i] = g]
      <4>1. DOMAIN s = CpuFields /\ DOMAIN d = EntryFields  BY <2>4, <3>1, CoreOf DEF AckFields
      <4>2. LooksAs(d, g) /\ AckFields(e, g) /\ Round(g)
        BY <2>4, <4>1 DEF LooksAs, AckFields, EntryFields, Round, External
      <4>3. OnlyMissq(s, sentread, r)
        BY <4>1 DEF OnlyMissq, Frame, memq_enter, CpuFields, WPart, LPart
      <4> HIDE DEF sentread, g
      <4>4. Moved(s, sentread, v, {}) /\ sentread.missq[i] = g
        BY <2>1, <3>1, <4>2, <4>3, LooksMoved
      <4>5. asked = sentread  BY <3>3
      <4>6. QED  BY <4>2, <4>4, <4>5
    <3>4. QED  BY <3>2, <3>3
  <2>6. x = IF AllAcked(asked.missq[i]) /\ asked.missq[i].memread_sent
            THEN missq_change_state(asked, i, "MEMREF") ELSE asked
    BY <1>2 DEF L2_miss, s
  <2> HIDE DEF asked
  <2>7. Good(asked, v) /\ Moved(st, asked, v, {})  BY ONLY <2>4, <2>5, MovedTwice DEF Moved
  <2>8. Moved(asked, x, v, C)
    <3>1. CASE AllAcked(asked.missq[i]) /\ asked.missq[i].memread_sent
      <4> DEFINE d == asked.missq[i]  r == [asked.missq EXCEPT ![i] = f]
      <4>1. DOMAIN asked = CpuFields /\ asked.cpuid = n
        BY <2>7, CoreOf DEF Moved, WPart
      <4>2. x = [asked EXCEPT !.missq = r]  BY <2>6, <3>1, <4>1 DEF missq_change_state, CpuFields
      <4>3. HomeMoves(n, d, f) /\ d.state = "L2_MISS"
        <5>1. Serves(n, d) /\ ~External(d) /\ d.state = "L2_MISS"
          BY <1>2, <2>3, <2>5 DEF AckFields, Serves, Issued, Round
        <5>2. Names(d, f) /\ f.state = "MEMREF"  BY <2>5 DEF Names, AckFields, EntryFields
        <5>3. \A l1 : l1[1] # n => ~Pending(d, l1)  BY <3>1 DEF AllAcked, Pending
        <5>4. QED  BY <5>1, <5>2, <5>3 DEF HomeMoves, Awaited
      <4> HIDE DEF f
      <4>4. OnlyMissq(asked, x, r)
        BY <4>1, <4>2 DEF OnlyMissq, Frame, CpuFields, WPart, LPart
      <4>5. QED  BY <2>1, <2>7, <4>1, <4>3, <4>4, HomeMove
    <3>2. CASE ~(AllAcked(asked.missq[i]) /\ asked.missq[i].memread_sent)
      BY <2>6, <2>7, <3>2, MovedNot
    <3>3. QED  BY <3>1, <3>2
  <2>9. QED  BY ONLY <2>7, <2>8, MovedTwice
<1>3. QED  BY <1>1, <1>2

\* memref keeps the invariant.
LEMMA MemrefGood ==
  ASSUME NEW st, NEW v, Good(st, v), NEW i,
         i # None => i \in Entries /\ st.missq[i].state = "MEMREF",
         NEW x, x = memref(st, i)
  PROVE  Moved(st, x, v, {"MEMREF"})
<1> DEFINE n == st.cpuid  e == st.missq[i]
           f == [e EXCEPT !.state = "REFILL_L2", !.scache_refilled = FALSE, !.memwrite_sent = FALSE]
           r == [st.missq EXCEPT ![i] = f]
<1>1. CASE i = None \/ ~e.data  BY <1>1, MovedNot DEF memref
<1>2. CASE ~(i = None \/ ~e.data)
  <2>1. EntryOK(n, e, v) /\ DOMAIN e = EntryFields /\ i \in Entries /\ DOMAIN st = CpuFields
        /\ e.state = "MEMREF" /\ DOMAIN st.missq = Entries
    BY <1>2, CoreOf DEF EntryOK
  <2>2. ~External(e) /\ Serves(n, e)
    <3>1. ~External(e)  BY <2>1 DEF EntryOK, AskOK
    <3>2. OwnOK(n, e)  BY <2>1, <3>1 DEF EntryOK
    <3>3. QED  BY <2>1, <3>1, <3>2 DEF OwnOK, RemoteStates, Serves, Issued
  <2>3. HomeMoves(n, e, f)
    <3>1. Names(e, f) /\ f.state = "REFILL_L2"  BY <2>1 DEF Names, EntryFields
    <3> HIDE DEF f
    <3>2. QED  BY <2>1, <2>2, <3>1 DEF HomeMoves, Awaited, Pending, Round
  <2>4. OnlyMissq(st, x, r)
    BY <1>2, <2>1 DEF memref, OnlyMissq, Frame, CpuFields, WPart, LPart
  <2> HIDE DEF f
  <2>5. QED  BY <2>1, <2>3, <2>4, HomeMove
<1>3. QED  BY <1>1, <1>2

\* Only a request that an event is due for could await one.
LEMMA NotDue ==
  ASSUME NEW st, NEW v, Good(st, v), NEW i \in Entries, Serves(st.cpuid, st.missq[i]),
         ~Awaited(st.cpuid, st.missq[i])
  PROVE  NothingDue(st.events)
<1> DEFINE n == st.cpuid  q == st.missq
<1>1. OneServed(n, q) /\ Evs(n, q, st.events)  BY CoreOf DEF Core
<1>2. \A j \in Entries : ~Awaited(n, q[j])  BY <1>1 DEF Awaited, OneServed
<1> HIDE DEF n, q
<1>3. QED  BY <1>1, <1>2, NoneDue

\* An event is posted for L2_delay cycles later.
LEMMA ScheduleGood ==
  ASSUME NEW st, NEW v, Good(st, v), NEW a, EventOK(st.cpuid, st.missq, a),
         Due(a) => NothingDue(st.events), NEW x, x = Schedule(st, a)
  PROVE  /\ Good(x, v) /\ WPart(x) = WPart(st) /\ LPart(x) = LPart(st) /\ x.missq = st.missq
         /\ Moved(st, x, v, {})
<1> DEFINE ev == Scheduled(st.events, a)
<1>1. DOMAIN st = CpuFields /\ Evs(st.cpuid, st.missq, st.events)  BY CoreOf
<1>2. Evs(st.cpuid, st.missq, ev)  BY <1>1, ScheduleEvs
<1>3. x = [st EXCEPT !.events = ev]  BY <1>1 DEF Schedule, Scheduled
<1> HIDE DEF ev
<1>4. /\ DOMAIN x = CpuFields /\ WPart(x) = WPart(st) /\ LPart(x) = LPart(st)
      /\ x.cpuid = st.cpuid /\ x.missq = st.missq /\ x.missq_num = st.missq_num
      /\ x.dl2 = st.dl2 /\ x.refilltag = st.refilltag /\ x.refilli = st.refilli
      /\ x.out = st.out /\ x.events = ev
  BY <1>1, <1>3 DEF CpuFields, WPart, LPart
<1>5. M(st, v)  BY DEF Good
<1>6. M(x, v)  BY <1>2, <1>4, <1>5 DEF M, MissOK
<1>7. Good(x, v)  BY <1>4, <1>6, SameW, SameL DEF Good
<1>8. QED  BY <1>4, <1>7 DEF Moved, StatesKept

\* refill_L2 schedules the refill of the L2 once.
LEMMA RefillL2Good ==
  ASSUME NEW st, NEW v, Good(st, v), NEW i,
         i # None => i \in Entries /\ st.missq[i].state = "REFILL_L2",
         NEW x, x = refill_L2(st, i)
  PROVE  Moved(st, x, v, {})
<1> DEFINE n == st.cpuid  e == st.missq[i]  writes == st.dl2[e.L2_way].dirty /\ ~e.memwrite_sent
<1>1. CASE \/ i = None
           \/ (writes /\ ~MemqOpen(st))
           \/ (i # None /\ ~writes /\ e.scache_refilled)
  <2>1. x = st  BY <1>1 DEF refill_L2
  <2>2. QED  BY <2>1, MovedNot
<1>2. CASE i # None /\ writes /\ MemqOpen(st)
  <2> DEFINE g == [e EXCEPT !.memwrite_sent = TRUE]  r == [st.missq EXCEPT ![i] = g]
  <2>1. DOMAIN st = CpuFields /\ DOMAIN e = EntryFields /\ i \in Entries
    BY <1>2, CoreOf DEF EntryOK
  <2>2. LooksAs(e, g)  BY <2>1 DEF LooksAs, AckFields, EntryFields
  <2>3. OnlyMissq(st, x, r)
    BY <1>2, <2>1 DEF refill_L2, memq_enter, OnlyMissq, Frame, CpuFields, WPart, LPart
  <2> HIDE DEF g
  <2>4. QED  BY <2>1, <2>2, <2>3, LooksMoved
<1>3. CASE i # None /\ ~writes /\ ~e.scache_refilled
  <2> DEFINE f == [e EXCEPT !.scache_refilled = TRUE]  r == [st.missq EXCEPT ![i] = f]
             y == [st EXCEPT !.missq = r]  a == [fn |-> "scache_refill", qid |-> i]
  <2>1. EntryOK(n, e, v) /\ DOMAIN e = EntryFields /\ i \in Entries /\ DOMAIN st = CpuFields
        /\ e.state = "REFILL_L2" /\ DOMAIN st.missq = Entries
    BY <1>3, CoreOf DEF EntryOK
  <2>2. ~External(e) /\ Serves(n, e)
    <3>1. ~External(e)  BY <2>1 DEF EntryOK, AskOK
    <3>2. OwnOK(n, e)  BY <2>1, <3>1 DEF EntryOK
    <3>3. QED  BY <2>1, <3>1, <3>2 DEF OwnOK, RemoteStates, Serves, Issued
  <2>3. Names(e, f) /\ f.state = "REFILL_L2" /\ f.scache_refilled = TRUE
    BY <2>1 DEF Names, EntryFields
  <2>4. x = Schedule(y, a)
    <3>1. y = [st EXCEPT !.missq[i].scache_refilled = TRUE]  BY <2>1 DEF CpuFields
    <3> HIDE DEF y, f
    <3>2. QED  BY <1>3, <3>1 DEF refill_L2
  <2> HIDE DEF f
  <2>5. HomeMoves(n, e, f)
    BY <1>3, <2>1, <2>2, <2>3 DEF HomeMoves, Awaited, Pending, Round
  <2>6. OnlyMissq(st, y, r)
    BY <2>1 DEF OnlyMissq, Frame, CpuFields, WPart, LPart
  <2> HIDE DEF y
  <2>7. Moved(st, y, v, {}) /\ y.missq[i] = f
    <3>1. /\ i \in Entries /\ HomeMoves(st.cpuid, st.missq[i], f)
          /\ st.missq[i].state \in {} \/ f.state = st.missq[i].state
          /\ OnlyMissq(st, y, [st.missq EXCEPT ![i] = f])
      BY <2>1, <2>3, <2>5, <2>6
    <3>2. QED  BY ONLY <3>1, HomeMove, Good(st, v)
  <2>8. NothingDue(y.events)
    <3>1. ~Awaited(n, e)  BY <1>3, <2>1 DEF Awaited
    <3>2. NothingDue(st.events)  BY <2>1, <2>2, <3>1, NotDue
    <3>3. QED  BY <2>6, <3>2 DEF OnlyMissq
  <2>9. EventOK(y.cpuid, y.missq, a)
    <3>1. y.cpuid = n  BY <2>6 DEF OnlyMissq, Frame
    <3>2. Serves(n, f) /\ ~External(f)
      BY <2>2, <2>3 DEF Names, Serves, Issued, External
    <3>3. QED  BY <2>1, <2>3, <2>7, <3>1, <3>2 DEF EventOK, Awaits
  <2> HIDE DEF a
  <2>10. Moved(y, x, v, {})
    BY <2>4, <2>7, <2>8, <2>9, ScheduleGood DEF Moved
  <2>11. QED  BY ONLY <2>7, <2>10, MovedTwice
<1>4. QED  BY <1>1, <1>2, <1>3

-----------------------------------------------------------------------------
(***************************************************************************)
(* issue_wtbk: a write-back leaves.                                        *)
(***************************************************************************)

\* Several entries change.
LEMMA GoodAll ==
  ASSUME NEW st, NEW v, Good(st, v), NEW r, DOMAIN r = Entries,
         \A i \in Entries : \/ r[i] = st.missq[i]
                            \/ /\ Quiet(st.cpuid, st.missq[i], r[i], v)
                               /\ KeepsAwait(st.cpuid, st.missq[i], r[i])
                               /\ RoundOK(st.cpuid, r[i], st.dl2, v),
         \A i \in Entries : st.missq[i].state = "REFILL_L1" => r[i].state = "REFILL_L1",
         NEW x, OnlyMissq(st, x, r)
  PROVE  Good(x, v)
<1> DEFINE n == st.cpuid  q == st.missq  num == st.missq_num  dl2 == st.dl2  ev == st.events
           tag == st.refilltag  ri == st.refilli  out == st.out  G == {}
<1>0. /\ Core(n, q, num, dl2, tag, ri, v) /\ Evs(n, q, ev) /\ Outs(n, q, out, v)
      /\ DOMAIN q = Entries /\ DOMAIN dl2 = L2Ways
      /\ \A w \in L2Ways : L2OK(n, dl2[w], v.text)
      /\ \A j \in Entries : RoundOK(n, q[j], dl2, v)
  BY CoreOf
<1>1. num - Cardinality({}) = num
  BY <1>0, EntriesFinite, FS_EmptySet DEF Core, Occupied
<1>2. On(tag) => ri \in Entries /\ r[ri].state = "REFILL_L1"
  <2>1. On(tag) => ri \in Entries /\ q[ri].state = "REFILL_L1"  BY <1>0 DEF Core
  <2>2. QED  BY <2>1
<1>3. \A j \in Entries : RoundOK(n, r[j], dl2, v)  BY <1>0
<1>4. Core(n, r, num - Cardinality(G), dl2, tag, ri, v) /\ Outs(n, r, out, v)
  <2>1. G \in SUBSET Entries /\ \A j : j \notin G  OBVIOUS
  <2>2. \A i \in Entries \ G : r[i] = q[i] \/ Quiet(n, q[i], r[i], v)  OBVIOUS
  <2> HIDE DEF G, n, q, num, dl2, tag, ri, out
  <2>3. QED  BY <1>0, <1>2, <1>3, <2>1, <2>2, CalmStep
<1>5. Evs(n, r, ev)
  <2>1. \A i \in Entries : r[i] = q[i] \/ KeepsAwait(n, q[i], r[i])  OBVIOUS
  <2> HIDE DEF n, q, ev
  <2>2. QED  BY <1>0, <2>1, EvStep
<1>6. MissOK(n, r, num, dl2, ev, tag, ri, out, v)  BY <1>1, <1>4, <1>5 DEF MissOK
<1>7. /\ DOMAIN x = CpuFields /\ WPart(x) = WPart(st) /\ LPart(x) = LPart(st)
      /\ x.cpuid = n /\ x.missq = r /\ x.missq_num = num /\ x.dl2 = dl2
      /\ x.refilltag = tag /\ x.refilli = ri /\ x.out = out /\ x.events = ev
  BY DEF OnlyMissq, Frame
<1>8. M(x, v)  BY <1>6, <1>7 DEF M
<1>9. QED  BY <1>7, <1>8, SameW, SameL DEF Good

\* A write-back whose home is unknown goes nowhere.
LEMMA PostNowhere ==
  ASSUME NEW n, NEW v, NEW q, NEW out, Outs(n, q, out, v), NEW t \in Types,
         NEW d, d \notin Cpus, NEW p
  PROVE  Outs(n, q, Posted(out, t, d, p), v)
<1> DEFINE r == Posted(out, t, d, p)
<1>0. /\ DOMAIN out = Types /\ \A u \in Types : DOMAIN out[u] = Cpus
      /\ OutShape(out) /\ OutTyped(n, out, v) /\ InvnsOut(q, out, v) /\ RespsOut(q, out, v)
  BY DEF OutShape, Outs
<1>1. /\ DOMAIN r = Types /\ \A u \in Types : DOMAIN r[u] = Cpus
      /\ \A u \in Types, c \in Cpus : r[u][c] = out[u][c]
  <2> DEFINE g == [out[t] EXCEPT ![d] = Append(@, p)]
  <2>1. r = [out EXCEPT ![t] = g]  BY DEF Posted
  <2>2. DOMAIN g = Cpus /\ \A c \in Cpus : g[c] = out[t][c]  BY <1>0
  <2> HIDE DEF g, r
  <2>3. QED  BY <1>0, <2>1, <2>2
<1> HIDE DEF r
<1>2. OutShape(r)  BY <1>0, <1>1 DEF OutShape
<1>3. OutTyped(n, r, v)  BY <1>0, <1>1 DEF OutTyped
<1>4. "INVN" \in Types /\ "RESP" \in Types  BY DEF Types
<1>5. InvnsOut(q, r, v)  BY <1>0, <1>1, <1>4 DEF InvnsOut
<1>6. RespsOut(q, r, v)  BY <1>0, <1>1, <1>4 DEF RespsOut
<1>7. QED  BY <1>2, <1>3, <1>5, <1>6 DEF Outs, r

\* The write-back of the icache is the answer of the entries that ask.
IcacheAnswer(e, w) ==
  [e EXCEPT !.state = "EXTRDY", !.cache_status = w.cache_status,
            !.ack = IF w.cache_status = "MODIFIED" THEN "ACK_DATA" ELSE "ACK"]

\* The answer of the own instruction cache leaves through the asking entry.
LEMMA WtbkqAnswersGood ==
  ASSUME NEW st, NEW v, Good(st, v), NEW w, Owner[w.blk] # st.cpuid,
         NEW x, x = wtbkq_answers(st, w)
  PROVE  Moved(st, x, v, {"MODIFY_L1"}) /\ x.wtbkq = st.wtbkq
<1> DEFINE n == st.cpuid  q == st.missq
           asking == {i \in Entries : q[i].state = "MODIFY_L1" /\ q[i].blk = w.blk}
           r == [i \in Entries |-> IF i \in asking THEN IcacheAnswer(q[i], w) ELSE q[i]]
           y == [st EXCEPT !.missq = r]
<1>0. DOMAIN st = CpuFields /\ DOMAIN q = Entries /\ \A i \in Entries : EntryOK(n, q[i], v)
  BY CoreOf
<1>1. \A i \in asking : External(q[i]) /\ AnswersAs(q[i], IcacheAnswer(q[i], w))
  <2>1. SUFFICES ASSUME NEW i \in asking
        PROVE  External(q[i]) /\ AnswersAs(q[i], IcacheAnswer(q[i], w))
    OBVIOUS
  <2>2. EntryOK(n, q[i], v) /\ q[i].state = "MODIFY_L1" /\ q[i].blk = w.blk  BY <1>0
  <2>3. External(q[i])  BY <2>2 DEF EntryOK, OwnOK, RemoteStates
  <2>4. AnswersAs(q[i], IcacheAnswer(q[i], w))
    BY <2>2 DEF AnswersAs, IcacheAnswer, EntryOK, EntryFields, Acks
  <2>5. QED  BY <2>3, <2>4
<1>2. \A i \in asking : /\ Quiet(n, q[i], r[i], v) /\ KeepsAwait(n, q[i], r[i])
                        /\ RoundOK(n, r[i], st.dl2, v)
  <2>1. SUFFICES ASSUME NEW i \in asking
        PROVE  /\ Quiet(n, q[i], r[i], v) /\ KeepsAwait(n, q[i], r[i])
               /\ RoundOK(n, r[i], st.dl2, v)
    OBVIOUS
  <2> DEFINE e == q[i]  f == IcacheAnswer(e, w)
  <2>2. EntryOK(n, e, v) /\ External(e) /\ AnswersAs(e, f)  BY <1>0, <1>1
  <2>3. r[i] = f  OBVIOUS
  <2> HIDE DEF e, f, r, n
  <2>4. Quiet(n, e, f, v) /\ KeepsAwait(n, e, f) /\ RoundOK(n, f, st.dl2, v)
    BY <2>2, AnswersOK
  <2>5. QED  BY <2>3, <2>4 DEF e
<1>3. \A i \in Entries \ asking : r[i] = q[i]  OBVIOUS
<1>4. \A i \in asking : q[i].state = "MODIFY_L1" /\ r[i].state = "EXTRDY"
  BY <1>1 DEF AnswersAs
<1>5. DOMAIN r = Entries  OBVIOUS
<1>6. x = Asserted("found", asking # {}, y)  BY DEF wtbkq_answers, IcacheAnswer
<1> HIDE DEF r, asking
<1>7. OnlyMissq(st, y, r)
  BY <1>0 DEF OnlyMissq, Frame, CpuFields, WPart, LPart
<1>8. y.wtbkq = st.wtbkq  BY <1>0
<1> HIDE DEF y
<1>9. Good(y, v)
  <2>1. \A i \in Entries : \/ r[i] = st.missq[i]
                           \/ /\ Quiet(st.cpuid, st.missq[i], r[i], v)
                              /\ KeepsAwait(st.cpuid, st.missq[i], r[i])
                              /\ RoundOK(st.cpuid, r[i], st.dl2, v)
    BY <1>2, <1>3
  <2>2. \A i \in Entries : st.missq[i].state = "REFILL_L1" => r[i].state = "REFILL_L1"
    BY <1>3, <1>4
  <2>3. QED  BY ONLY Good(st, v), <1>5, <1>7, <2>1, <2>2, GoodAll
<1>10. StatesKept(q, y.missq, {"MODIFY_L1"})
  BY <1>3, <1>4, <1>7 DEF StatesKept, OnlyMissq
<1>11. Good(x, v)  BY <1>6, <1>9, AssertedGood
<1>12. DOMAIN y = CpuFields /\ x = IF asking # {} THEN y ELSE [y EXCEPT !.failed = @ \cup {"found"}]
  BY <1>6, <1>7 DEF Asserted, OnlyMissq, Frame
<1>13. /\ WPart(x) = WPart(y) /\ LPart(x) = LPart(y) /\ x.missq = y.missq /\ x.wtbkq = y.wtbkq
  BY <1>12 DEF WPart, LPart, CpuFields
<1>14. QED  BY <1>7, <1>8, <1>10, <1>11, <1>13 DEF Moved, OnlyMissq, Frame

\* An entry of a round that goes on with fewer caches to ask or more acks.
RoundsOn(n, e, f) ==
  /\ DOMAIN f = EntryFields /\ f.state = e.state /\ f.req = e.req /\ f.ack = e.ack
  /\ f.cpuid = e.cpuid /\ f.cache = e.cache /\ f.qid = e.qid /\ f.blk = e.blk
  /\ f.cache_status = e.cache_status /\ f.directory \subseteq e.directory
  /\ f.intervention_type = e.intervention_type /\ f.L2_way = e.L2_way
  /\ f.L2_replace = e.L2_replace /\ f.reissue = e.reissue /\ f.wait = e.wait
  /\ f.local = e.local /\ f.invn_match = e.invn_match /\ f.modify_l1 = e.modify_l1
  /\ \A l1 : l1[1] # n => (l1 \in f.sent <=> l1 \in e.sent) /\ (l1 \in f.acked <=> l1 \in e.acked)

\* An entry stays in its round while its acks are counted.
LEMMA RoundsOnGood ==
  ASSUME NEW st, NEW v, Good(st, v), NEW i \in Entries, Round(st.missq[i]),
         NEW f, RoundsOn(st.cpuid, st.missq[i], f),
         NEW x, OnlyMissq(st, x, [st.missq EXCEPT ![i] = f])
  PROVE  Moved(st, x, v, {})
<1> DEFINE n == st.cpuid  q == st.missq  e == q[i]
<1>1. /\ DOMAIN q = Entries /\ EntryOK(n, e, v) /\ RoundOK(n, e, st.dl2, v)
      /\ DOMAIN st.dl2 = L2Ways /\ \A w \in L2Ways : L2OK(st.cpuid, st.dl2[w], v.text)
  BY CoreOf
<1>2. ~External(e) /\ ~External(f) /\ Round(f) /\ e.state \in {"MODIFY_L1", "L2_MISS"}
      /\ e.state # "EMPTY" /\ Serves(n, e)
  BY <1>1, RoundServes DEF Round, RoundsOn, External
<1>3. EntryOK(n, f, v)
  <2>1. OwnOK(n, e)  BY <1>1, <1>2 DEF EntryOK
  <2>2. OwnOK(n, f)  BY <2>1 DEF RoundsOn, OwnOK
  <2>3. /\ e.blk \in Blocks /\ e.cpuid \in Cpus /\ (e.cpuid # n => e.qid \in Entries)
        /\ e.cache = CacheOf(e.blk, v.text) /\ e.req \in Requests \cup Interventions
        /\ e.invn_match \subseteq Entries
    BY <1>1, <1>2 DEF EntryOK
  <2>4. QED  BY <1>2, <2>2, <2>3 DEF RoundsOn, EntryOK
<1>4. Calm(n, e, f, v)  BY <1>2, <1>3 DEF Calm, RoundsOn, InstAsks
<1>5. Quiet(n, e, f, v)
  BY <1>2, <1>4 DEF Quiet, KeepsServed, KeepsPending, Pending, RoundsOn, Issued
<1>6. KeepsAwait(n, e, f)  BY <1>2 DEF KeepsAwait, Awaited
<1>7. RoundOK(n, f, x.dl2, v)
  <2>1. \A l1 \in f.acked : l1[1] # n => l1 \in f.sent  BY <1>1, <1>2 DEF RoundsOn, RoundOK
  <2>2. /\ f.state = e.state /\ f.blk = e.blk /\ f.req = e.req /\ f.L2_way = e.L2_way
        /\ f.L2_replace = e.L2_replace /\ f.intervention_type = e.intervention_type
        /\ f.cache_status = e.cache_status /\ f.directory \subseteq e.directory
    BY DEF RoundsOn
  <2>3. x.dl2 = st.dl2  BY DEF OnlyMissq
  <2>4. QED  BY <1>1, <1>2, <2>1, <2>2, <2>3, RoundKept
<1>8. SolidStep(st, x, i, f, v)
  BY <1>1, <1>2, <1>5, <1>7 DEF SolidStep, OnlyMissq
<1>9. Good(x, v)
  <2>1. x.events = st.events /\ KeepsAwait(st.cpuid, st.missq[i], f)  BY <1>6 DEF OnlyMissq
  <2>2. QED  BY <1>8, <2>1, GoodChange
<1>10. x.missq = [q EXCEPT ![i] = f]  BY DEF OnlyMissq
<1>11. StatesKept(q, x.missq, {})
  BY <1>1, <1>10 DEF StatesKept, RoundsOn
<1>12. QED  BY <1>9, <1>11 DEF Moved, OnlyMissq, Frame

\* An assertion fails.
FailedAs(y, name) == [y EXCEPT !.failed = @ \cup {name}]

\* An assertion that fails keeps the invariant ...
LEMMA FailedGood ==
  ASSUME NEW y, NEW v, Good(y, v), NEW name, NEW x, x = FailedAs(y, name)
  PROVE  /\ Good(x, v) /\ WPart(x) = WPart(y) /\ LPart(x) = LPart(y) /\ MPart(x) = MPart(y)
         /\ \A g \in CpuFields \ {"failed"} : x[g] = y[g]
<1>1. DOMAIN y = CpuFields  BY CoreOf
<1>2. /\ DOMAIN x = CpuFields /\ WPart(x) = WPart(y) /\ LPart(x) = LPart(y)
      /\ MPart(x) = MPart(y) /\ \A g \in CpuFields \ {"failed"} : x[g] = y[g]
  BY <1>1 DEF FailedAs, WPart, LPart, MPart, CpuFields
<1>3. QED  BY <1>2, SameM, SameW, SameL DEF Good

\* ... and the states of the entries.
LEMMA FailedMoved ==
  ASSUME NEW st, NEW v, NEW C, NEW y, Moved(st, y, v, C), NEW name,
         NEW x, x = FailedAs(y, name)
  PROVE  Moved(st, x, v, C) /\ x.wtbkq = y.wtbkq /\ x.wtbkq_num = y.wtbkq_num
<1>1. Good(y, v)  BY DEF Moved
<1>2. /\ Good(x, v) /\ WPart(x) = WPart(y) /\ LPart(x) = LPart(y) /\ MPart(x) = MPart(y)
      /\ \A g \in CpuFields \ {"failed"} : x[g] = y[g]
  BY <1>1, FailedGood
<1>3. x.missq = y.missq /\ x.wtbkq = y.wtbkq /\ x.wtbkq_num = y.wtbkq_num
  BY <1>2 DEF CpuFields
<1>4. QED  BY <1>2, <1>3 DEF Moved

\* A write-back counts as an ack of its cache (acked_by_wtbkq).
LEMMA AckedByGood ==
  ASSUME NEW st, NEW v, Good(st, v), NEW i \in Entries, Round(st.missq[i]),
         NEW w, w.intervention = TRUE => w.cpuid = st.cpuid,
         NEW x, x = acked_by_wtbkq(st, w, i)
  PROVE  Moved(st, x, v, {}) /\ x.wtbkq = st.wtbkq
<1> DEFINE n == st.cpuid  q == st.missq  e == q[i]
<1>0. DOMAIN st = CpuFields /\ DOMAIN e = EntryFields /\ DOMAIN q = Entries
  BY CoreOf DEF EntryOK
<1>1. CASE ~w.intervention
  <2> DEFINE f == [e EXCEPT !.directory = @ \ {L1Of(w)}]  r == [q EXCEPT ![i] = f]
  <2>1. RoundsOn(n, e, f)  BY <1>0 DEF RoundsOn, EntryFields
  <2>2. x = [st EXCEPT !.missq = r]  BY <1>0, <1>1 DEF acked_by_wtbkq, CpuFields
  <2> HIDE DEF f
  <2>3. OnlyMissq(st, x, r) /\ x.wtbkq = st.wtbkq
    BY <1>0, <2>2 DEF OnlyMissq, Frame, CpuFields, WPart, LPart
  <2>4. QED  BY <2>1, <2>3, RoundsOnGood
<1>2. CASE w.intervention /\ w.cache_status = "SHARED"
  <2> DEFINE f == [e EXCEPT !.acked = @ \cup {L1Of(w)}]  r == [q EXCEPT ![i] = f]
  <2>1. RoundsOn(n, e, f)
    <3>1. L1Of(w)[1] = n  BY <1>2 DEF L1Of
    <3>2. QED  BY <1>0, <3>1 DEF RoundsOn, EntryFields
  <2>2. x = [st EXCEPT !.missq = r]  BY <1>0, <1>2 DEF acked_by_wtbkq, CpuFields
  <2> HIDE DEF f
  <2>3. OnlyMissq(st, x, r) /\ x.wtbkq = st.wtbkq
    BY <1>0, <2>2 DEF OnlyMissq, Frame, CpuFields, WPart, LPart
  <2>4. QED  BY <2>1, <2>3, RoundsOnGood
<1>3. CASE w.intervention /\ w.cache_status # "SHARED"
  <2> DEFINE f == [e EXCEPT !.sent = @ \ {L1Of(w)}]  r == [q EXCEPT ![i] = f]
             y == [st EXCEPT !.missq = r]
  <2>1. RoundsOn(n, e, f)
    <3>1. L1Of(w)[1] = n  BY <1>3 DEF L1Of
    <3>2. QED  BY <1>0, <3>1 DEF RoundsOn, EntryFields
  <2>2. x = Asserted("ack of the icache", w.cache_status = "INVALID", y)
    BY <1>0, <1>3 DEF acked_by_wtbkq, CpuFields
  <2> HIDE DEF f
  <2>3. OnlyMissq(st, y, r) /\ y.wtbkq = st.wtbkq
    BY <1>0 DEF OnlyMissq, Frame, CpuFields, WPart, LPart
  <2> HIDE DEF y
  <2>4. Moved(st, y, v, {})  BY <2>1, <2>3, RoundsOnGood
  <2>5. x = y \/ x = FailedAs(y, "ack of the icache")  BY <2>2 DEF Asserted, FailedAs
  <2> DEFINE name == "ack of the icache"
  <2>6. Moved(st, x, v, {}) /\ x.wtbkq = y.wtbkq
    <3>1. CASE x = y  BY <2>4, <3>1
    <3>2. CASE x = FailedAs(y, name)
      <4> HIDE DEF name
      <4>1. QED  BY ONLY <2>4, <3>2, FailedMoved
    <3>3. QED  BY <2>5, <3>1, <3>2
  <2>7. QED  BY <2>3, <2>6
<1>4. QED  BY <1>1, <1>2, <1>3

\* A write-back leaves after the entry it meets has changed.
LEMMA MovedLeaves ==
  ASSUME NEW st, NEW y, NEW v, NEW C, Moved(st, y, v, C), NEW j \in Slots, st.wtbkq[j].valid,
         NEW x, x = wtbkq_leave(y, j)
  PROVE  Went(st, x, v, C)
<1>1. Good(y, v) /\ y.wtbkq = st.wtbkq /\ y.wtbkq_num = st.wtbkq_num  BY DEF Moved, WPart
<1>2. y.wtbkq[j].valid  BY <1>1
<1>3. /\ Good(x, v) /\ LPart(x) = LPart(y) /\ MPart(x) = MPart(y)
      /\ x.wtbkq_num <= y.wtbkq_num
  BY ONLY <1>1, <1>2, j \in Slots, x = wtbkq_leave(y, j), LeaveGood
<1>4. x.missq = y.missq  BY <1>3 DEF MPart
<1>5. QED  BY <1>1, <1>3, <1>4 DEF Moved, Went

\* The write-back that a stale request waits for.
WokenAs(e, w) == [e EXCEPT !.wait = IF e.cpuid = w.cpuid THEN 2 ELSE @]

\* The write-back that a stale request waits for wakes it.
LEMMA WokenGood ==
  ASSUME NEW st, NEW v, Good(st, v), NEW i \in Entries, Serves(st.cpuid, st.missq[i]),
         ~External(st.missq[i]), st.missq[i].state = "READ_L2", ~st.missq[i].local,
         NEW w, NEW x, OnlyMissq(st, x, [st.missq EXCEPT ![i] = WokenAs(st.missq[i], w)])
  PROVE  Moved(st, x, v, {})
<1> DEFINE n == st.cpuid  q == st.missq  e == q[i]  f == WokenAs(e, w)
<1>1. /\ DOMAIN q = Entries /\ EntryOK(n, e, v) /\ DOMAIN e = EntryFields
      /\ DOMAIN st.dl2 = L2Ways /\ \A k \in L2Ways : L2OK(st.cpuid, st.dl2[k], v.text)
  BY CoreOf DEF EntryOK
<1>2. Names(e, f) /\ f.state = "READ_L2" /\ f.local = e.local
  BY <1>1 DEF Names, WokenAs, EntryFields
<1>3. EntryOK(n, f, v) /\ Calm(n, e, f, v) /\ KeepsServed(n, e, f) /\ ~External(f)
  <2>1. /\ ~External(e) /\ Serves(n, e) /\ f.state \notin {"EMPTY", "L1_MISS"}
        /\ f.state # "EXTRDY" /\ ~f.local
    BY <1>2
  <2> HIDE DEF n, e, f
  <2>2. QED  BY <1>1, <1>2, <2>1, HomeEntry
<1> HIDE DEF f
<1>4. /\ Quiet(n, e, f, v) /\ KeepsAwait(n, e, f) /\ RoundOK(n, f, x.dl2, v)
  BY <1>2, <1>3
  DEF Quiet, KeepsPending, Pending, KeepsAwait, Awaited, RoundOK, Round
<1>5. SolidStep(st, x, i, f, v)
  BY <1>1, <1>4 DEF SolidStep, OnlyMissq, f
<1>6. Good(x, v)
  <2>1. x.events = st.events /\ KeepsAwait(st.cpuid, st.missq[i], f)  BY <1>4 DEF OnlyMissq
  <2>2. QED  BY <1>5, <2>1, GoodChange
<1>7. x.missq = [q EXCEPT ![i] = f]  BY DEF OnlyMissq, f
<1>8. StatesKept(q, x.missq, {})  BY <1>1, <1>2, <1>7 DEF StatesKept
<1>9. QED  BY <1>6, <1>8 DEF Moved, OnlyMissq, Frame

\* scache_writeback keeps the invariant.
LEMMA WritebackGood ==
  ASSUME NEW st, NEW v, Good(st, v), NEW l1, NEW req, NEW blk,
         NEW x, x = scache_writeback(st, l1, req, blk)
  PROVE  Moved(st, x, v, {})
<1>1. Solid(st, v) /\ Evs(st.cpuid, st.missq, st.events)  BY GoodParts
<1>2. HomeStep(st, x, v) /\ x.events = st.events  BY <1>1, WritebackDone
<1>3. Solid(x, v)  BY <1>1, <1>2, SolidHome
<1>4. x.cpuid = st.cpuid /\ x.missq = st.missq /\ WPart(x) = WPart(st) /\ LPart(x) = LPart(st)
  BY <1>2 DEF HomeStep, Frame
<1>5. Good(x, v)
  <2>1. Evs(x.cpuid, x.missq, x.events)  BY <1>1, <1>2, <1>4
  <2>2. QED  BY <1>3, <2>1, GoodParts
<1>6. QED  BY <1>4, <1>5 DEF Moved, StatesKept

\* wtbk_meets keeps the invariant.
LEMMA WtbkMeetsGood ==
  ASSUME NEW st, NEW v, Good(st, v), NEW j \in Slots, st.wtbkq[j].valid,
         NEW w, w = st.wtbkq[j], NEW i \in Entries, Serves(st.cpuid, st.missq[i]),
         ~External(st.missq[i]), Meets(st.missq[i], w.blk),
         NEW x, x = wtbk_meets(st, w, j, i)
  PROVE  Went(st, x, v, {})
<1> DEFINE n == st.cpuid  q == st.missq  e == q[i]
<1>0. DOMAIN st = CpuFields /\ DOMAIN e = EntryFields /\ DOMAIN q = Entries
  BY CoreOf DEF EntryOK
<1>1. CASE e.state # "READ_L2"
  <2> DEFINE y == acked_by_wtbkq(st, w, i)
  <2>1. Round(e)  BY <1>1 DEF Meets, Round
  <2>2. w.intervention = TRUE => w.cpuid = st.cpuid  BY SlotCount DEF SlotOK
  <2>3. x = wtbkq_leave(y, j)  BY <1>1 DEF wtbk_meets
  <2> HIDE DEF y
  <2>4. Moved(st, y, v, {})
    <3>1. y = acked_by_wtbkq(st, w, i)  BY DEF y
    <3>2. QED  BY <2>1, <2>2, <3>1, AckedByGood
  <2>5. QED  BY ONLY <2>3, <2>4, MovedLeaves, j \in Slots, st.wtbkq[j].valid
<1>2. CASE e.state = "READ_L2" /\ e.local
  <2>1. x = st  BY <1>2 DEF wtbk_meets
  <2>2. QED  BY <2>1, WentNot
<1>3. CASE e.state = "READ_L2" /\ ~e.local /\ e.wait = 0
  <2> DEFINE name == "writeback meets READ_L2"
  <2>1. x = FailedAs(st, name)  BY <1>3 DEF wtbk_meets, Asserted, FailedAs
  <2>2. Moved(st, st, v, {})  BY MovedNot
  <2> HIDE DEF name
  <2>3. Moved(st, x, v, {})  BY ONLY <2>1, <2>2, FailedMoved
  <2>4. QED  BY <2>3, MovedWent
<1>4. CASE e.state = "READ_L2" /\ ~e.local /\ e.wait # 0
  <2> DEFINE f == WokenAs(e, w)  r == [q EXCEPT ![i] = f]  y == [st EXCEPT !.missq = r]
             l1 == L1Of(w)  req == w.req  blk == w.blk
             z == scache_writeback(y, l1, req, blk)
  <2>1. x = wtbkq_leave(z, j)
    <3>1. y = [st EXCEPT !.missq[i].wait = IF e.cpuid = w.cpuid THEN 2 ELSE @]
      BY <1>0 DEF WokenAs, CpuFields
    <3> HIDE DEF y, f
    <3>2. QED  BY <1>4, <3>1 DEF wtbk_meets
  <2>2. OnlyMissq(st, y, r)
    <3> HIDE DEF f
    <3>1. QED  BY <1>0 DEF OnlyMissq, Frame, CpuFields, WPart, LPart
  <2> HIDE DEF y
  <2>3. Moved(st, y, v, {})  BY <1>4, <2>2, WokenGood
  <2> HIDE DEF l1, req, blk
  <2>4. Moved(y, z, v, {})
    <3>1. Good(y, v)  BY <2>3 DEF Moved
    <3>2. QED  BY <3>1, WritebackGood
  <2> HIDE DEF z
  <2>5. Moved(st, z, v, {})  BY ONLY <2>3, <2>4, MovedTwice
  <2>6. QED  BY ONLY <2>1, <2>5, MovedLeaves, j \in Slots, st.wtbkq[j].valid
<1>5. QED  BY <1>1, <1>2, <1>3, <1>4

\* The write-back passes the entries that it meets, in the order of the queue.
Passes(g, st, w, j, met) ==
  g = [k \in 0 .. missq_ifq_size |->
         IF k = 0 THEN st
         ELSE IF k - 1 \in met THEN wtbk_meets(g[k - 1], w, j, k - 1) ELSE g[k - 1]]

\* A write-back that meets one entry is treated by that one.
LEMMA PassesOne ==
  ASSUME NEW st, NEW w, NEW j, NEW i \in Entries,
         NEW c, c = CHOOSE g : Passes(g, st, w, j, {i})
  PROVE  c[missq_ifq_size] = wtbk_meets(st, w, j, i)
<1> DEFINE N == missq_ifq_size  y == wtbk_meets(st, w, j, i)
           h == [k \in 0 .. N |-> IF k <= i THEN st ELSE y]
<1>0. N \in Nat \ {0} /\ i \in 0 .. N - 1 /\ Entries = 0 .. N - 1
  BY SizesAssumption DEF Entries
<1>1. \A k \in 0 .. N : h[k] = IF k <= i THEN st ELSE y  OBVIOUS
<1> HIDE DEF y
<1>2. Passes(h, st, w, j, {i})
  <2>1. \A k \in 0 .. N : h[k] = IF k = 0 THEN st
          ELSE IF k - 1 \in {i} THEN wtbk_meets(h[k - 1], w, j, k - 1) ELSE h[k - 1]
    <3> SUFFICES ASSUME NEW k \in 0 .. N
                 PROVE  h[k] = IF k = 0 THEN st
                          ELSE IF k - 1 \in {i} THEN wtbk_meets(h[k - 1], w, j, k - 1) ELSE h[k - 1]
      OBVIOUS
    <3>1. CASE k = 0  BY <1>0, <1>1, <3>1
    <3>2. CASE k # 0 /\ k - 1 = i
      <4>1. k - 1 \in 0 .. N /\ k - 1 <= i /\ ~(k <= i)  BY <1>0, <3>2
      <4>2. h[k - 1] = st /\ h[k] = y  BY <1>1, <4>1
      <4>3. h[k] = wtbk_meets(h[k - 1], w, j, k - 1)  BY <3>2, <4>2 DEF y
      <4> HIDE DEF h
      <4>4. QED  BY <3>2, <4>3
    <3>3. CASE k # 0 /\ k - 1 # i
      <4>1. k - 1 \in 0 .. N /\ (k - 1 <= i <=> k <= i)  BY <1>0, <3>3
      <4>2. h[k - 1] = h[k]  BY <1>1, <4>1
      <4> HIDE DEF h
      <4>3. QED  BY <3>3, <4>2
    <3>4. QED  BY <3>1, <3>2, <3>3
  <2>2. h = [k \in 0 .. N |-> h[k]]  OBVIOUS
  <2> HIDE DEF h
  <2>3. QED  BY <2>1, <2>2 DEF Passes
<1>3. Passes(c, st, w, j, {i})
  <2> HIDE DEF h
  <2>1. QED  BY <1>2
<1>4. \A k \in 0 .. N : c[k] = IF k = 0 THEN st
        ELSE IF k - 1 \in {i} THEN wtbk_meets(c[k - 1], w, j, k - 1) ELSE c[k - 1]
  BY <1>3 DEF Passes
<1> DEFINE T == {k \in Nat : k <= N /\ c[k] # h[k]}
<1>5. ASSUME T # {} PROVE FALSE
  <2>1. PICK k \in T : \A m \in T : k <= m
    <3>1. T \in SUBSET Nat  OBVIOUS
    <3> HIDE DEF T
    <3>2. QED  BY <1>5, <3>1, LeastNat
  <2> HIDE DEF h
  <2>2. k \in 0 .. N /\ c[k] # h[k] /\ k \in Nat  BY <1>0
  <2>3. \A m \in 0 .. N : h[m] = IF m = 0 THEN st
          ELSE IF m - 1 \in {i} THEN wtbk_meets(h[m - 1], w, j, m - 1) ELSE h[m - 1]
    BY <1>2 DEF Passes
  <2>4. k # 0  BY <1>4, <2>2, <2>3
  <2>5. k - 1 \in Nat /\ k - 1 <= N /\ k - 1 \notin T
    <3> HIDE DEF T
    <3>1. QED  BY <1>0, <2>1, <2>2, <2>4
  <2>6. c[k - 1] = h[k - 1]  BY <2>5
  <2>7. c[k] = h[k]
    <3>1. h[k] = IF k - 1 \in {i} THEN wtbk_meets(h[k - 1], w, j, k - 1) ELSE h[k - 1]
      BY <2>2, <2>3, <2>4
    <3>2. c[k] = IF k - 1 \in {i} THEN wtbk_meets(c[k - 1], w, j, k - 1) ELSE c[k - 1]
      BY <1>4, <2>2, <2>4
    <3>3. QED  BY ONLY <2>6, <3>1, <3>2
  <2>8. QED  BY <2>2, <2>7
<1>6. N \notin T /\ N \in Nat  BY <1>0, <1>5
<1>7. c[N] = h[N]
  <2> HIDE DEF h
  <2>1. QED  BY <1>0, <1>6
<1>8. h[N] = y  BY <1>0, <1>1
<1>9. QED  BY <1>7, <1>8 DEF y

\* A write-back meets at most one request: the home serves one at a time.
LEMMA OneMet ==
  ASSUME NEW st, NEW v, Good(st, v), NEW blk, Owner[blk] = st.cpuid,
         NEW met, met = {i \in Entries : Meets(st.missq[i], blk)}, met # {}
  PROVE  \E i \in Entries : /\ met = {i} /\ Serves(st.cpuid, st.missq[i])
                            /\ ~External(st.missq[i]) /\ Meets(st.missq[i], blk)
<1> DEFINE n == st.cpuid  q == st.missq
<1>0. OneServed(n, q) /\ \A i \in Entries : EntryOK(n, q[i], v)
  BY CoreOf DEF Core
<1>1. \A i \in met : Serves(n, q[i]) /\ ~External(q[i])
  <2> SUFFICES ASSUME NEW i \in met PROVE Serves(n, q[i]) /\ ~External(q[i])  OBVIOUS
  <2> DEFINE e == q[i]
  <2>1. i \in Entries /\ Meets(e, blk) /\ EntryOK(n, e, v)  BY <1>0
  <2> HIDE DEF e, n
  <2>2. e.state \notin {"EMPTY", "L1_MISS"} /\ e.state # "EXTRDY"  BY <2>1 DEF Meets
  <2>3. ~External(e)
    <3>1. External(e) => AskOK(n, e, v)  BY <2>1, <2>2 DEF EntryOK
    <3>2. AskOK(n, e, v) => Owner[e.blk] # n /\ e.state = "MODIFY_L1"  BY <2>2 DEF AskOK
    <3>3. e.state = "MODIFY_L1" => e.blk = blk  BY <2>1 DEF Meets
    <3>4. Owner[blk] = n  BY DEF n
    <3>5. QED  BY <3>1, <3>2, <3>3, <3>4
  <2>4. OwnOK(n, e)  BY <2>1, <2>2, <2>3 DEF EntryOK
  <2>5. Owner[e.blk] = n
    <3>1. (e.state \in {"MODIFY_L1", "READ_L2"} /\ e.blk = blk) \/ e.state = "L2_MISS"
      BY <2>1 DEF Meets
    <3>2. Owner[blk] = n  BY DEF n
    <3>3. QED  BY <2>4, <3>1, <3>2 DEF OwnOK, RemoteStates
  <2>6. QED  BY <2>2, <2>3, <2>5 DEF Serves, Issued, e, n
<1>2. PICK i \in met : TRUE  OBVIOUS
<1>3. \A k \in met : k = i  BY <1>0, <1>1 DEF OneServed
<1>4. QED  BY <1>1, <1>2, <1>3

\* The write-back that is issued is one.
LEMMA FirstValid ==
  ASSUME NEW st, NEW valid, valid = {j \in Slots : st.wtbkq[j].valid}, valid # {}
  PROVE  Min(valid) \in Slots /\ st.wtbkq[Min(valid)].valid
<1>1. valid \in SUBSET Nat  BY SlotsFinite
<1>2. Min(valid) \in valid  BY <1>1, LeastIn
<1>3. QED  BY <1>2

\* A write-back that leaves for its home.
LEMMA WtbkSent ==
  ASSUME NEW st, NEW v, Good(st, v), NEW j \in Slots, st.wtbkq[j].valid, NEW w, w = st.wtbkq[j],
         NEW x, x = noc_request(wtbkq_leave(st, j), "WTBK", Owner[w.blk], w.req,
                                "UNTOUCHED", j, w.blk, w.cache)
  PROVE  Went(st, x, v, {})
<1> DEFINE n == st.cpuid  y == wtbkq_leave(st, j)  d == Owner[w.blk]
           p == [cpuid |-> n, req |-> w.req, cache_status |-> "UNTOUCHED", qid |-> j,
                 blk |-> w.blk, cache |-> w.cache]
           out == Posted(st.out, "WTBK", d, p)
<1>0. DOMAIN st = CpuFields  BY CoreOf
<1>1. Went(st, y, v, {}) /\ Good(y, v) /\ MPart(y) = MPart(st) /\ DOMAIN y = CpuFields
  <2>1. y = wtbkq_leave(st, j)  OBVIOUS
  <2> HIDE DEF y
  <2>2. /\ Good(y, v) /\ LPart(y) = LPart(st) /\ MPart(y) = MPart(st)
        /\ y.wtbkq_num <= st.wtbkq_num
    BY <2>1, LeaveGood
  <2>3. y.missq = st.missq  BY <2>2 DEF MPart
  <2>4. QED  BY <2>2, <2>3 DEF Went, StatesKept, Good
<1>2. y.cpuid = n /\ y.missq = st.missq /\ y.out = st.out  BY <1>1 DEF MPart
<1> HIDE DEF y
<1>3. PacketOK("WTBK", n, d, p, v.text)
  <2>1. w.req \in Writebacks  BY SlotCount DEF SlotOK
  <2>2. QED  BY <2>1 DEF PacketOK
<1>4. Outs(n, st.missq, out, v)
  <2>1. Outs(n, st.missq, st.out, v)  BY CoreOf
  <2>2. "WTBK" \in Types  BY DEF Types
  <2> HIDE DEF p, d
  <2>3. CASE d \in Cpus  BY <1>3, <2>1, <2>3, PostPlain
  <2>4. CASE d \notin Cpus  BY <2>1, <2>2, <2>4, PostNowhere
  <2>5. QED  BY <2>3, <2>4
<1>5. x = [y EXCEPT !.out = out, !.room["WTBK"] = @ - 1]
  BY <1>1, <1>2 DEF noc_request, Posted, CpuFields, y
<1> HIDE DEF out, p
<1>6. /\ DOMAIN x = CpuFields /\ WPart(x) = WPart(y) /\ LPart(x) = LPart(y)
      /\ x.cpuid = y.cpuid /\ x.missq = y.missq /\ x.missq_num = y.missq_num
      /\ x.dl2 = y.dl2 /\ x.refilltag = y.refilltag /\ x.refilli = y.refilli
      /\ x.events = y.events /\ x.out = out /\ x.wtbkq_num = y.wtbkq_num
  BY <1>1, <1>5 DEF CpuFields, WPart, LPart
<1>7. M(x, v)
  <2>1. M(y, v)  BY <1>1 DEF Good
  <2>2. Outs(x.cpuid, x.missq, x.out, v)  BY <1>2, <1>4, <1>6
  <2>3. QED  BY <1>6, <2>1, <2>2 DEF M, MissOK
<1>8. Good(x, v)  BY <1>1, <1>6, <1>7, SameW, SameL DEF Good
<1>9. QED  BY <1>1, <1>6, <1>8 DEF Went

\* issue_wtbk keeps the invariant.
LEMMA IssueWtbkGood ==
  ASSUME NEW st, NEW v, Good(st, v), NEW port, NEW x, x = issue_wtbk(st, On(port))
  PROVE  Went(st, x, v, {"MODIFY_L1"})
<1> DEFINE n == st.cpuid  C == {"MODIFY_L1"}
           valid == {j \in Slots : st.wtbkq[j].valid}
           j == Min(valid)
           w == st.wtbkq[j]
           met == {i \in Entries : Meets(st.missq[i], w.blk)}
<1>1. CASE valid = {}
  <2>1. x = st  BY <1>1 DEF issue_wtbk
  <2>2. QED  BY <2>1, WentNot
<1>2. CASE valid # {}
  <2>1. j \in Slots /\ w.valid  BY <1>2, FirstValid
  <2>2. CASE Owner[w.blk] # n /\ w.intervention
    <3> DEFINE y == wtbkq_answers(st, w)
    <3>1. x = wtbkq_leave(y, j)  BY <1>2, <2>2 DEF issue_wtbk
    <3> HIDE DEF y, j
    <3>2. Moved(st, y, v, C)
      <4>1. Owner[w.blk] # st.cpuid /\ y = wtbkq_answers(st, w)  BY <2>2 DEF y
      <4> HIDE DEF w
      <4>2. QED  BY <4>1, WtbkqAnswersGood
    <3>3. j \in Slots /\ st.wtbkq[j].valid  BY <2>1
    <3>4. QED  BY ONLY <3>1, <3>2, <3>3, MovedLeaves
  <2>3. CASE Owner[w.blk] # n /\ ~w.intervention /\ Room(st, "WTBK")
    <3>1. x = noc_request(wtbkq_leave(st, j), "WTBK", Owner[w.blk], w.req, "UNTOUCHED", j,
                          w.blk, w.cache)
      BY <1>2, <2>3 DEF issue_wtbk
    <3>2. w = st.wtbkq[j] /\ st.wtbkq[j].valid  BY <2>1
    <3> HIDE DEF w, j
    <3>3. Went(st, x, v, {})  BY <2>1, <3>1, <3>2, WtbkSent
    <3>4. QED  BY ONLY <3>3, WentMore
  <2>4. CASE Owner[w.blk] # n /\ ~w.intervention /\ ~Room(st, "WTBK")
    <3>1. x = st  BY <1>2, <2>4 DEF issue_wtbk
    <3>2. QED  BY <3>1, WentNot
  <2>5. CASE Owner[w.blk] = n /\ met # {}
    <3> DEFINE c == CHOOSE g : Passes(g, st, w, j, met)
    <3>1. x = c[missq_ifq_size]  BY <1>2, <2>5 DEF issue_wtbk, Passes
    <3>2. PICK i \in Entries : /\ met = {i} /\ Serves(n, st.missq[i])
                               /\ ~External(st.missq[i]) /\ Meets(st.missq[i], w.blk)
      <4> DEFINE blk == w.blk
      <4>1. Owner[blk] = st.cpuid /\ met = {i \in Entries : Meets(st.missq[i], blk)} /\ met # {}
        BY <2>5
      <4> HIDE DEF blk, met
      <4>2. \E i \in Entries : /\ met = {i} /\ Serves(st.cpuid, st.missq[i])
                               /\ ~External(st.missq[i]) /\ Meets(st.missq[i], blk)
        BY <4>1, OneMet
      <4>3. QED  BY <4>2 DEF blk
    <3>3. w = st.wtbkq[j] /\ st.wtbkq[j].valid  BY <2>1
    <3>4. c = CHOOSE g : Passes(g, st, w, j, {i})  BY <3>2
    <3> HIDE DEF w, j, met, c
    <3>5. x = wtbk_meets(st, w, j, i)  BY <3>1, <3>4, PassesOne
    <3>6. Went(st, x, v, {})  BY <2>1, <3>2, <3>3, <3>5, WtbkMeetsGood
    <3>7. QED  BY ONLY <3>6, WentMore
  <2>6. CASE Owner[w.blk] = n /\ met = {} /\ ~WtbkOpen(st, On(port))
    <3>1. x = st  BY <1>2, <2>6 DEF issue_wtbk
    <3>2. QED  BY <3>1, WentNot
  <2>7. CASE Owner[w.blk] = n /\ met = {} /\ WtbkOpen(st, On(port))
    <3> DEFINE y == wtbkq_leave(st, j)
               a == [fn |-> "scache_writeback", l1 |-> L1Of(w), req |-> w.req, blk |-> w.blk]
    <3>1. x = Schedule(y, a)  BY <1>2, <2>7 DEF issue_wtbk
    <3>2. y = wtbkq_leave(st, j) /\ st.wtbkq[j].valid /\ j \in Slots  BY <2>1
    <3> HIDE DEF y, j
    <3>3. Good(y, v) /\ LPart(y) = LPart(st) /\ MPart(y) = MPart(st)
          /\ y.wtbkq_num <= st.wtbkq_num
      BY ONLY <3>2, Good(st, v), LeaveGood
    <3>4. EventOK(y.cpuid, y.missq, a) /\ ~Due(a)  BY DEF EventOK, Due
    <3> HIDE DEF a
    <3>5. Good(x, v) /\ WPart(x) = WPart(y) /\ LPart(x) = LPart(y) /\ x.missq = y.missq
      BY <3>1, <3>3, <3>4, ScheduleGood
    <3>6. y.missq = st.missq /\ x.wtbkq_num = y.wtbkq_num  BY <3>3, <3>5 DEF MPart, WPart
    <3>7. QED  BY <3>3, <3>5, <3>6 DEF Went, StatesKept
  <2>8. QED  BY <2>2, <2>3, <2>4, <2>5, <2>6, <2>7
<1>3. QED  BY <1>1, <1>2

-----------------------------------------------------------------------------
(***************************************************************************)
(* extrdy: an answer leaves.                                               *)
(***************************************************************************)

\* Entries change, those in G are freed, and a refill may start or end.
Freed(st, x, r, G, v) ==
  /\ x.cpuid = st.cpuid /\ x.missq = r /\ x.missq_num = st.missq_num - Cardinality(G)
  /\ x.dl2 = st.dl2 /\ x.events = st.events /\ x.out = st.out
  /\ On(x.refilltag) => x.refilli \in Entries /\ r[x.refilli].state = "REFILL_L1"
  /\ DOMAIN r = Entries
  /\ \A i \in Entries \ G :
       \/ r[i] = st.missq[i]
       \/ /\ Quiet(st.cpuid, st.missq[i], r[i], v)
          /\ KeepsAwait(st.cpuid, st.missq[i], r[i])
          /\ RoundOK(st.cpuid, r[i], st.dl2, v)
  /\ \A i \in G :
       /\ r[i] = FreeEntry /\ st.missq[i].state # "EMPTY"
       /\ ~Awaited(st.cpuid, st.missq[i])
       /\ \A l1 : l1[1] # st.cpuid => ~Pending(st.missq[i], l1)
  /\ \A i \in Entries \ G : \A j \in G : InstAsks(r[i]) => j \notin r[i].invn_match

\* Entries that take no part in the protocol any more are freed.
LEMMA FreedM ==
  ASSUME NEW st, NEW v, Good(st, v), NEW G \in SUBSET Entries, NEW r, NEW x, Freed(st, x, r, G, v)
  PROVE  M(x, v)
<1> DEFINE n == st.cpuid  q == st.missq  num == st.missq_num  dl2 == st.dl2  ev == st.events
           tag == st.refilltag  ri == st.refilli  out == st.out
           tagb == x.refilltag  rib == x.refilli
<1>0. /\ Core(n, q, num, dl2, tag, ri, v) /\ Evs(n, q, ev) /\ Outs(n, q, out, v)
      /\ DOMAIN q = Entries /\ DOMAIN dl2 = L2Ways
      /\ \A w \in L2Ways : L2OK(n, dl2[w], v.text)
      /\ \A j \in Entries : RoundOK(n, q[j], dl2, v)
  BY CoreOf
<1>1. \A j \in Entries \ G : RoundOK(n, r[j], dl2, v)  BY <1>0 DEF Freed
<1>2. Core(n, r, num - Cardinality(G), dl2, tagb, rib, v) /\ Outs(n, r, out, v)
  <2>1. /\ DOMAIN r = Entries
        /\ \A i \in Entries \ G : r[i] = q[i] \/ Quiet(n, q[i], r[i], v)
        /\ \A i \in G : /\ r[i] = FreeEntry /\ q[i].state # "EMPTY"
                        /\ \A l1 : l1[1] # n => ~Pending(q[i], l1)
        /\ \A i \in Entries \ G : \A j \in G : InstAsks(r[i]) => j \notin r[i].invn_match
        /\ On(tagb) => rib \in Entries /\ r[rib].state = "REFILL_L1"
    BY DEF Freed
  <2> HIDE DEF n, q, num, dl2, tag, ri, out, tagb, rib
  <2>2. QED  BY <1>0, <1>1, <2>1, CalmStep
<1>3. Evs(n, r, ev)
  <2>1. \A i \in Entries : r[i] = q[i] \/ KeepsAwait(n, q[i], r[i])
    BY DEF Freed, KeepsAwait
  <2> HIDE DEF n, q, ev
  <2>2. QED  BY <1>0, <2>1, EvStep
<1>4. MissOK(n, r, num - Cardinality(G), dl2, ev, tagb, rib, out, v)  BY <1>2, <1>3 DEF MissOK
<1>5. QED  BY <1>4 DEF M, Freed

LeftAs(st, i) == [st EXCEPT !.missq = [st.missq EXCEPT ![i] = FreeEntry], !.missq_num = @ - 1]

\* A served request leaves its entry.
LEMMA LeftGood ==
  ASSUME NEW st, NEW v, Good(st, v), NEW i \in Entries, st.missq[i].state = "EXTRDY",
         NEW x, x = LeftAs(st, i)
  PROVE  Good(x, v) /\ WPart(x) = WPart(st) /\ LPart(x) = LPart(st)
<1> DEFINE n == st.cpuid  q == st.missq  e == q[i]  G == {i}  r == [q EXCEPT ![i] = FreeEntry]
<1>1. /\ DOMAIN st = CpuFields /\ DOMAIN q = Entries /\ MatchOK(q)
      /\ On(st.refilltag) => st.refilli \in Entries /\ q[st.refilli].state = "REFILL_L1"
      /\ st.missq_num = Cardinality(Occupied(q))
  BY CoreOf DEF Core
<1>2. st.missq_num - 1 = st.missq_num - Cardinality(G)  BY FS_Singleton
<1>3. r[i] = FreeEntry /\ DOMAIN r = Entries /\ \A j \in Entries \ G : r[j] = q[j]  BY <1>1
<1>4. \A k \in Entries \ G : \A j \in G : InstAsks(r[k]) => j \notin r[k].invn_match
  BY <1>1, <1>3 DEF MatchOK
<1>5. On(st.refilltag) => st.refilli \in Entries /\ r[st.refilli].state = "REFILL_L1"
  <2>1. On(st.refilltag) => st.refilli # i  BY <1>1
  <2>2. QED  BY <1>1, <1>3, <2>1
<1> HIDE DEF r
<1>6. /\ DOMAIN x = CpuFields /\ x.cpuid = n /\ x.missq = r /\ x.missq_num = st.missq_num - 1
      /\ x.dl2 = st.dl2 /\ x.events = st.events /\ x.out = st.out
      /\ x.refilltag = st.refilltag /\ x.refilli = st.refilli
      /\ WPart(x) = WPart(st) /\ LPart(x) = LPart(st)
  BY <1>1 DEF LeftAs, CpuFields, WPart, LPart, r
<1>7. ~Awaited(n, e) /\ \A l1 : ~Pending(e, l1)  BY DEF Awaited, Pending, Round
<1>8. Freed(st, x, r, G, v)
  BY <1>2, <1>3, <1>4, <1>5, <1>6, <1>7 DEF Freed
<1>9. M(x, v)
  <2>1. G \in SUBSET Entries  OBVIOUS
  <2> HIDE DEF G
  <2>2. QED  BY <1>8, <2>1, FreedM
<1>10. QED  BY <1>6, <1>9, SameW, SameL DEF Good

OthersKept(q, r, i) == \A j \in Entries \ {i} : r[j] = q[j]

\* extrdy sends the answer and frees the entry.
LEMMA ExtrdyGood ==
  ASSUME NEW st, NEW v, Good(st, v), NEW i,
         i # None => i \in Entries /\ st.missq[i].state = "EXTRDY",
         NEW x, x = extrdy(st, i)
  PROVE  /\ Good(x, v) /\ WPart(x) = WPart(st) /\ LPart(x) = LPart(st)
         /\ OthersKept(st.missq, x.missq, i)
<1> DEFINE n == st.cpuid  q == st.missq  e == q[i]
           kind == IF External(e) THEN e.ack ELSE "ACK_DATA"
           y == missq_leave(st, i)
           p == [cpuid |-> n, req |-> kind, cache_status |-> e.cache_status, qid |-> e.qid,
                 blk |-> e.blk, cache |-> e.cache]
           out == Posted(st.out, "RESP", e.cpuid, p)
           z == noc_request(y, "RESP", e.cpuid, kind, e.cache_status, e.qid, e.blk, e.cache)
           r == [q EXCEPT ![i] = FreeEntry]
<1>1. CASE i = None
  BY <1>1 DEF extrdy, OthersKept
<1>2. CASE i # None
  <2>0. /\ DOMAIN st = CpuFields /\ DOMAIN q = Entries /\ EntryOK(n, e, v) /\ i \in Entries
        /\ e.state = "EXTRDY" /\ Outs(n, q, st.out, v) /\ OneAsks(q)
    BY <1>2, CoreOf DEF Core
  <2>1. /\ e.cpuid \in Cpus /\ e.cpuid # n /\ e.qid \in Entries /\ e.blk \in Blocks
        /\ e.cache = CacheOf(e.blk, v.text)
        /\ External(e) => AskOK(n, e, v)
        /\ ~External(e) => Owner[e.blk] = n
    <3>1. e.cpuid # n  BY <2>0 DEF EntryOK, AskOK, OwnOK
    <3>2. ~External(e) => Owner[e.blk] = n  BY <2>0 DEF EntryOK, OwnOK, RemoteStates
    <3>3. QED  BY <2>0, <3>1, <3>2 DEF EntryOK
  <2>2. kind \in Acks  BY <2>0, <2>1 DEF AskOK, Acks
  <2>3. PacketOK("RESP", n, e.cpuid, p, v.text)
    BY <2>1, <2>2 DEF PacketOK, AskOK
  <2>4. y = LeftAs(st, i)  BY <2>0 DEF missq_leave, LeftAs, CpuFields
  <2>5. Good(y, v) /\ WPart(y) = WPart(st) /\ LPart(y) = LPart(st)
    <3> HIDE DEF y
    <3>1. QED  BY <2>0, <2>4, LeftGood
  <2>6. y.cpuid = n /\ y.missq = r /\ y.out = st.out /\ DOMAIN y = CpuFields
    BY <2>0, <2>4 DEF LeftAs, CpuFields
  <2>7. r[i] = FreeEntry /\ \A k \in Entries \ {i} : r[k] = q[k]  BY <2>0
  <2> HIDE DEF y, r
  <2>8. Outs(n, r, out, v)
    <3> DEFINE d == e.cpuid
    <3>1. Outs(n, r, st.out, v)  BY <2>5, <2>6, CoreOf
    <3>2. Owner[p.blk] = d =>
            /\ <<d, p.cache, p.qid>> \in v.asked /\ <<d, p.cache>> \notin v.others
            /\ \A k \in Entries : ~SameAsk(r[k], d, p.cache)
            /\ \A k \in DOMAIN st.out["RESP"][d] :
                 Owner[st.out["RESP"][d][k].blk] = d => st.out["RESP"][d][k].cache # p.cache
      <4>1. SUFFICES ASSUME Owner[e.blk] = d
            PROVE  /\ <<d, e.cache, e.qid>> \in v.asked /\ <<d, e.cache>> \notin v.others
                   /\ \A k \in Entries : ~SameAsk(r[k], d, e.cache)
                   /\ \A k \in DOMAIN st.out["RESP"][d] :
                        Owner[st.out["RESP"][d][k].blk] = d => st.out["RESP"][d][k].cache # e.cache
        OBVIOUS
      <4>2. External(e) /\ AskOK(n, e, v)  BY <2>1, <4>1
      <4>3. SameAsk(e, d, e.cache)  BY <4>2 DEF SameAsk
      <4>4. \A k \in Entries : ~SameAsk(r[k], d, e.cache)
        <5>1. \A k \in Entries : SameAsk(q[k], d, e.cache) => k = i
          BY <2>0, <4>2 DEF OneAsks
        <5>2. ~SameAsk(FreeEntry, d, e.cache)  BY Free DEF SameAsk
        <5>3. QED  BY <2>7, <5>1, <5>2
      <4>5. \A k \in DOMAIN st.out["RESP"][d] :
              Owner[st.out["RESP"][d][k].blk] = d => st.out["RESP"][d][k].cache # e.cache
        BY <2>0, <2>1, <4>3 DEF Outs, RespsOut
      <4>6. QED  BY <4>2, <4>4, <4>5 DEF AskOK
    <3>3. d \in Cpus /\ PacketOK("RESP", n, d, p, v.text)  BY <2>1, <2>3
    <3> HIDE DEF d, p, n
    <3>4. Outs(n, r, Posted(st.out, "RESP", d, p), v)  BY <3>1, <3>2, <3>3, PostResp
    <3>5. QED  BY <3>4 DEF d
  <2>9. z = [y EXCEPT !.out = out, !.room["RESP"] = @ - 1]
    BY <2>6 DEF noc_request, Posted, CpuFields
  <2> HIDE DEF out, p, z
  <2>10. /\ DOMAIN z = CpuFields /\ WPart(z) = WPart(y) /\ LPart(z) = LPart(y)
         /\ z.cpuid = y.cpuid /\ z.missq = y.missq /\ z.missq_num = y.missq_num
         /\ z.dl2 = y.dl2 /\ z.refilltag = y.refilltag /\ z.refilli = y.refilli
         /\ z.events = y.events /\ z.out = out
    BY <2>6, <2>9 DEF CpuFields, WPart, LPart
  <2>11. M(z, v)
    <3>1. M(y, v)  BY <2>5 DEF Good
    <3>2. Outs(z.cpuid, z.missq, z.out, v)  BY <2>6, <2>8, <2>10
    <3>3. QED  BY <2>10, <3>1, <3>2 DEF M, MissOK
  <2>12. Good(z, v)  BY <2>5, <2>10, <2>11, SameW, SameL DEF Good
  <2>13. OthersKept(q, z.missq, i)
    BY <2>0, <2>6, <2>7, <2>10 DEF OthersKept
  <2>14. x = IF Room(st, "RESP") THEN z ELSE st
    <3>1. kind # "NO_REQ"  BY <2>2 DEF Acks
    <3>2. x = Asserted("extrdy", kind # "NO_REQ", IF Room(st, "RESP") THEN z ELSE st)
      BY <1>2 DEF extrdy, z, y
    <3> HIDE DEF kind
    <3>3. QED  BY <3>1, <3>2 DEF Asserted
  <2>15. QED
    <3>1. CASE Room(st, "RESP")  BY <2>5, <2>10, <2>12, <2>13, <2>14, <3>1
    <3>2. CASE ~Room(st, "RESP")  BY <2>14, <3>2 DEF OthersKept
    <3>3. QED  BY <3>1, <3>2
<1>3. QED  BY <1>1, <1>2

-----------------------------------------------------------------------------
(***************************************************************************)
(* The instruction cache and the refill of an L1.                          *)
(***************************************************************************)

\* A packet passes to the lsq: nothing else did before it in this cycle.
LEMMA PutW ==
  ASSUME NEW st, W(st), st.lsq_refill.kind = "none", NEW x, x.cpuid = st.cpuid,
         x.wtbkq = st.wtbkq, x.wtbkq_replacei = st.wtbkq_replacei,
         x.dcache_refill = st.dcache_refill,
         \/ x.wtbkq_num = st.wtbkq_num /\ x.lsq_refill.kind # "replace"
         \/ /\ x.wtbkq_num = st.wtbkq_num + 1 /\ x.lsq_refill.kind = "replace"
            /\ st.wtbkq_num < wtbkq_ifq_size
  PROVE  W(x)
<1> DEFINE k2 == st.dcache_refill.kind  h == Held("none", k2)
<1>1. SlotsIn(st.cpuid, st.wtbkq, st.wtbkq_num, st.wtbkq_replacei, h)  BY DEF W, SlotsOK
<1>2. h \in Nat  BY HeldNat
<1>3. CASE x.wtbkq_num = st.wtbkq_num /\ x.lsq_refill.kind # "replace"
  <2>1. Held(x.lsq_refill.kind, x.dcache_refill.kind) = h  BY <1>3 DEF Held
  <2>2. QED  BY <1>1, <1>3, <2>1 DEF W, SlotsOK
<1>4. CASE /\ x.wtbkq_num = st.wtbkq_num + 1 /\ x.lsq_refill.kind = "replace"
           /\ st.wtbkq_num < wtbkq_ifq_size
  <2>1. Held(x.lsq_refill.kind, x.dcache_refill.kind) = h + 1  BY <1>4 DEF Held
  <2> HIDE DEF h
  <2>2. SlotsIn(st.cpuid, st.wtbkq, st.wtbkq_num + 1, st.wtbkq_replacei, h + 1)
    BY <1>1, <1>2, <1>4, SlotReserved
  <2>3. QED  BY <1>4, <2>1, <2>2 DEF W, SlotsOK
<1>5. QED  BY <1>3, <1>4

\* A packet is passed to the load/store queue.
LEMMA PutL ==
  ASSUME NEW st, NEW v, L(st, v), NEW x,
         x.lsq = st.lsq, x.todo = st.todo, x.text = st.text, x.irepbuf = st.irepbuf,
         x.dcache_refill = st.dcache_refill, x.dtagcmp_refill = st.dtagcmp_refill,
         PassedOK(x.lsq_refill)
  PROVE  L(x, v)
<1>1. QED  BY DEF L, LsqOK

\* replace_iblock.
SameParts(y, x) ==
  DOMAIN x = CpuFields /\ MPart(x) = MPart(y) /\ WPart(x) = WPart(y) /\ LPart(x) = LPart(y)

\* A change of other fields keeps the invariant.
LEMMA SameGood ==
  ASSUME NEW y, NEW v, Good(y, v), NEW x, SameParts(y, x)
  PROVE  Good(x, v) /\ MPart(x) = MPart(y) /\ LPart(x) = LPart(y)
<1>1. QED  BY SameM, SameW, SameL DEF Good, SameParts

\* The fetch stall and the instruction cache are other fields.
LEMMA Stalls ==
  ASSUME NEW y, DOMAIN y = CpuFields, NEW g, NEW h,
         NEW x, x = [y EXCEPT !.istall = TRUE, !.icache = g, !.icache_refill_blk = h]
  PROVE  SameParts(y, x)
<1>1. QED  BY DEF CpuFields, MPart, WPart, LPart, SameParts

Told(y, blk, w, invn) ==
  wtbkq_enter(y, InstL1(y.cpuid), "ELIMINATE", blk,
              IF Found(y.icache[w], blk) THEN y.icache[w].status ELSE "INVALID", invn)

\* replace_iblock for an intervention enters a write-back, and changes other
\* fields.
LEMMA AnswerShape ==
  ASSUME NEW y, NEW blk, NEW w, w = Victim(y.icache, blk, y.irepbuf.way),
         DOMAIN Told(y, blk, w, TRUE) = CpuFields, NEW x, x = replace_iblock(y, blk, TRUE)
  PROVE  SameParts(Told(y, blk, w, TRUE), x)
<1> DEFINE t == Told(y, blk, w, TRUE)
           c == IF y.icache[w].tag # blk THEN t.icache[w] ELSE [tag |-> blk, status |-> "INVALID"]
           g == [t.icache EXCEPT ![w] = c]
           h == t.icache_refill_blk
<1>1. x = [t EXCEPT !.istall = TRUE, !.icache[w] = c, !.icache_refill_blk = h]
  BY DEF replace_iblock, Told
<1>2. x = [t EXCEPT !.istall = TRUE, !.icache = g, !.icache_refill_blk = h]
  <2> HIDE DEF t, c, h
  <2>1. QED  BY <1>1
<1> HIDE DEF t, g, h
<1>3. DOMAIN t = CpuFields  BY DEF t
<1>4. QED  BY <1>2, <1>3, Stalls DEF t

\* The instruction cache answers an intervention through the slot counted
\* for it.
LEMMA AnswerEnters ==
  ASSUME NEW st, NEW v, Good(st, v), NEW blk, st.wtbkq_num < wtbkq_ifq_size,
         NEW x, x = replace_iblock(wtbkq_reserve(st), blk, TRUE)
  PROVE  Good(x, v) /\ MPart(x) = MPart(st) /\ LPart(x) = LPart(st)
<1> DEFINE yes == TRUE
           y == wtbkq_reserve(st)
           w == Victim(y.icache, blk, y.irepbuf.way)
           status == IF Found(y.icache[w], blk) THEN y.icache[w].status ELSE "INVALID"
           l1 == InstL1(st.cpuid)
           told == wtbkq_enter(wtbkq_reserve(st), l1, "ELIMINATE", blk, status, yes)
<1>1. y.cpuid = st.cpuid /\ DOMAIN st = CpuFields
  BY CoreOf DEF wtbkq_reserve, CpuFields
<1>2. SlotOK(st.cpuid, NewSlot(l1, "ELIMINATE", blk, status, yes))
  <2>1. l1[1] = st.cpuid /\ "ELIMINATE" \in Writebacks  BY DEF InstL1, Writebacks
  <2> HIDE DEF l1, status
  <2>2. QED  BY <2>1, NewSlotOK
<1>3. told = Told(y, blk, w, TRUE)  BY <1>1 DEF Told
<1>4. Good(told, v) /\ MPart(told) = MPart(st) /\ LPart(told) = LPart(st)
  <2> HIDE DEF l1, status, yes
  <2>1. QED  BY ONLY Good(st, v), st.wtbkq_num < wtbkq_ifq_size, <1>2, ReserveEnters
<1> HIDE DEF told, w
<1>5. DOMAIN told = CpuFields  BY <1>4 DEF Good
<1>6. SameParts(told, x)
  <2>1. w = Victim(y.icache, blk, y.irepbuf.way) /\ x = replace_iblock(y, blk, TRUE)  BY DEF w
  <2> HIDE DEF y
  <2>2. QED  BY <1>3, <1>5, <2>1, AnswerShape
<1>7. QED  BY <1>4, <1>6, SameGood

\* The instruction cache drops the block a refill replaces through the slot
\* counted for it.
LEMMA VictimEnters ==
  ASSUME NEW st, NEW v, Good(st, v), NEW blk, st.wtbkq_num < wtbkq_ifq_size,
         NEW x, x = replace_iblock(wtbkq_reserve(st), blk, FALSE)
  PROVE  Good(x, v) /\ MPart(x) = MPart(st) /\ LPart(x) = LPart(st)
<1> DEFINE no == FALSE
           y == wtbkq_reserve(st)
           w == Victim(y.icache, blk, y.irepbuf.way)
           repl == y.icache[w]
           l1 == InstL1(st.cpuid)
           sent == wtbkq_enter(wtbkq_reserve(st), l1, "ELIMINATE", repl.tag, repl.status, no)
           z == [y EXCEPT !.wtbkq_num = @ - 1]
           told == IF repl.status = "INVALID" THEN z ELSE sent
<1>1. y.cpuid = st.cpuid /\ DOMAIN st = CpuFields
  BY CoreOf DEF wtbkq_reserve, CpuFields
<1>2. SlotOK(st.cpuid, NewSlot(l1, "ELIMINATE", repl.tag, repl.status, no))
  <2>1. "ELIMINATE" \in Writebacks  BY DEF Writebacks
  <2> HIDE DEF l1, repl
  <2>2. QED  BY <2>1, NewSlotOK
<1>3. DOMAIN told = CpuFields => SameParts(told, x)
  <2>1. x = [told EXCEPT !.istall = TRUE,
               !.icache = [@ EXCEPT ![w] = [tag |-> blk, status |-> "INVALID"]],
               !.icache_refill_blk = w]
    BY <1>1 DEF replace_iblock
  <2> HIDE DEF told, w, y
  <2>2. QED  BY <2>1, Stalls
<1>4. Good(told, v) /\ MPart(told) = MPart(st) /\ LPart(told) = LPart(st)
  <2>1. Good(sent, v) /\ MPart(sent) = MPart(st) /\ LPart(sent) = LPart(st)
    <3> HIDE DEF l1, repl, no
    <3>1. QED  BY ONLY Good(st, v), st.wtbkq_num < wtbkq_ifq_size, <1>2, ReserveEnters
  <2>2. SameParts(st, z)
    <3>1. st.wtbkq_num \in Nat  BY SlotCount
    <3>2. QED  BY <1>1, <3>1 DEF wtbkq_reserve, CpuFields, MPart, WPart, LPart, SameParts
  <2>3. Good(z, v) /\ MPart(z) = MPart(st) /\ LPart(z) = LPart(st)
    <3> HIDE DEF z
    <3>1. QED  BY <2>2, SameGood
  <2> HIDE DEF sent, z
  <2>4. QED  BY <2>1, <2>3
<1> HIDE DEF told
<1>5. QED
  <2>1. DOMAIN told = CpuFields  BY <1>4 DEF Good
  <2>2. QED  BY <1>3, <1>4, <2>1, SameGood

\* A double word passes to the cache that the refill is for.
LEMMA PassedGood ==
  ASSUME NEW st, NEW v, Good(st, v), st.lsq_refill.kind = "none", NEW packet,
         PassedOK(packet), packet.kind # "replace", NEW x, x = [st EXCEPT !.lsq_refill = packet]
  PROVE  Good(x, v) /\ MPart(x) = MPart(st)
<1>1. DOMAIN st = CpuFields /\ W(st) /\ L(st, v)  BY DEF Good
<1>2. /\ DOMAIN x = CpuFields /\ x.lsq_refill = packet
      /\ \A f \in CpuFields \ {"lsq_refill"} : x[f] = st[f]
  BY <1>1 DEF CpuFields
<1>3. MPart(x) = MPart(st)  BY <1>2 DEF MPart, CpuFields
<1>4. /\ x.cpuid = st.cpuid /\ x.wtbkq = st.wtbkq /\ x.wtbkq_replacei = st.wtbkq_replacei
      /\ x.wtbkq_num = st.wtbkq_num
      /\ x.lsq = st.lsq /\ x.todo = st.todo /\ x.text = st.text /\ x.irepbuf = st.irepbuf
      /\ x.dcache_refill = st.dcache_refill /\ x.dtagcmp_refill = st.dtagcmp_refill
  BY <1>2 DEF CpuFields
<1>5. W(x)  BY <1>1, <1>2, <1>4, PutW
<1>6. L(x, v)  BY <1>1, <1>2, <1>4, PutL
<1>7. QED  BY <1>2, <1>3, <1>5, <1>6, SameM DEF Good

\* A double word reaches the instruction cache.
LEMMA InstRefillGood ==
  ASSUME NEW st, NEW v, Good(st, v), NEW last, NEW x, x = irefill(st, On(last))
  PROVE  Good(x, v) /\ MPart(x) = MPart(st)
<1>1. DOMAIN st = CpuFields /\ L(st, v)  BY DEF Good
<1>2. CASE ~On(last)
  <2>1. SameParts(st, x)
    BY <1>1, <1>2 DEF irefill, SameParts, CpuFields, MPart, WPart, LPart
  <2>2. QED  BY <2>1, SameGood
<1>3. CASE On(last)
  <2>1. x = [st EXCEPT !.istall = TRUE, !.icache[st.icache_refill_blk].status = "SHARED",
                       !.icache_refill_blk = None, !.irepbuf.state = "EMPTY"]
    BY <1>3 DEF irefill
  <2>2. /\ DOMAIN x = CpuFields /\ x.irepbuf = [st.irepbuf EXCEPT !.state = "EMPTY"]
        /\ WPart(x) = WPart(st) /\ MPart(x) = MPart(st)
        /\ x.lsq = st.lsq /\ x.todo = st.todo /\ x.text = st.text /\ x.lsq_refill = st.lsq_refill
        /\ x.dcache_refill = st.dcache_refill /\ x.dtagcmp_refill = st.dtagcmp_refill
    BY <1>1, <2>1 DEF CpuFields, MPart, WPart
  <2>3. DOMAIN x.irepbuf = {"state", "blk", "way"} /\ x.irepbuf.state = "EMPTY"
    BY <1>1, <2>2 DEF L, LsqOK
  <2>4. L(x, v)  BY <1>1, <2>2, <2>3 DEF L, LsqOK
  <2>5. QED  BY <2>2, <2>4, SameM, SameW DEF Good
<1>4. QED  BY <1>2, <1>3

CountedAs(e) == [e EXCEPT !.cachecnt = @ + 1]
DoneAs(e) == [CountedAs(e) EXCEPT !.state = "DELAY1"]

\* The refilled entry counts its double words, and is done after the last.
LEMMA CountedOK ==
  ASSUME NEW n, NEW v, NEW dl2, NEW e, EntryOK(n, e, v), RoundOK(n, e, dl2, v),
         e.state = "REFILL_L1", NEW f, f \in {CountedAs(e), DoneAs(e)}
  PROVE  /\ Quiet(n, e, f, v) /\ KeepsAwait(n, e, f) /\ RoundOK(n, f, dl2, v)
         /\ f.state = IF f = DoneAs(e) THEN "DELAY1" ELSE "REFILL_L1"
<1>1. DOMAIN e = EntryFields /\ ~External(e) /\ OwnOK(n, e)
  BY DEF EntryOK, AskOK
<1>2. /\ Names(e, CountedAs(e)) /\ CountedAs(e).state = "REFILL_L1" /\ CountedAs(e).wait = e.wait
      /\ Names(e, DoneAs(e)) /\ DoneAs(e).state = "DELAY1" /\ DoneAs(e).wait = e.wait
  BY <1>1 DEF Names, CountedAs, DoneAs, EntryFields
<1>3. /\ Names(e, f) /\ f.state \in {"REFILL_L1", "DELAY1"} /\ f.wait = e.wait
      /\ f.state = IF f = DoneAs(e) THEN "DELAY1" ELSE "REFILL_L1"
  BY <1>2
<1> HIDE DEF CountedAs, DoneAs
<1>4. External(f) <=> External(e)  BY <1>3 DEF Names, External
<1>5. OwnOK(n, f)  BY <1>1, <1>3 DEF OwnOK, Names, RemoteStates
<1>6. EntryOK(n, f, v)  BY <1>1, <1>3, <1>4, <1>5 DEF EntryOK, Names
<1>7. Calm(n, e, f, v)  BY <1>1, <1>3, <1>4, <1>6 DEF Calm, Names, InstAsks
<1>8. QED  BY <1>1, <1>3, <1>7 DEF Quiet, KeepsServed, KeepsPending, KeepsAwait, Awaited,
                              Pending, Round, RoundOK, Issued

\* bus_refill keeps the invariant.
LEMMA BusRefillGood ==
  ASSUME NEW st, NEW v, Good(st, v), On(st.refilltag), st.lsq_refill.kind = "none",
         NEW x, x = bus_refill(st)
  PROVE  Good(x, v)
<1> DEFINE i == st.refilli
           e == st.missq[i]
           last == e.cachecnt + 1 >= Dwords
           packet == [NoRefill EXCEPT !.kind = "refill", !.blk = e.blk,
                        !.word = RefillWord(e.word, e.cachecnt), !.cnt = e.cachecnt + 1,
                        !.req = e.req, !.cache_status = e.cache_status]
           y == IF e.cache = "icache" THEN irefill(st, On(last)) ELSE [st EXCEPT !.lsq_refill = packet]
           f == IF last THEN DoneAs(e) ELSE CountedAs(e)
           r == [st.missq EXCEPT ![i] = f]
<1>1. /\ i \in Entries /\ e.state = "REFILL_L1" /\ DOMAIN st.missq = Entries
      /\ EntryOK(st.cpuid, e, v) /\ RoundOK(st.cpuid, e, st.dl2, v)
  BY CoreOf DEF Core
<1>2. Good(y, v) /\ MPart(y) = MPart(st)
  <2>1. CASE e.cache = "icache"
    <3> HIDE DEF last
    <3>1. QED  BY <2>1, InstRefillGood
  <2>2. CASE e.cache # "icache"
    <3>1. PassedOK(packet) /\ packet.kind # "replace"
      BY DEF PassedOK, NoRefill, RefillFields
    <3> HIDE DEF packet
    <3>2. QED  BY <2>2, <3>1, PassedGood
  <2>3. QED  BY <2>1, <2>2
<1>3. /\ y.missq = st.missq /\ y.cpuid = st.cpuid /\ y.dl2 = st.dl2 /\ y.refilli = i
      /\ DOMAIN y = CpuFields
  BY <1>2 DEF MPart, Good
<1>4. x = IF last
          THEN [[y EXCEPT !.missq = r] EXCEPT !.refilltag = FALSE, !.refill_delay = 4]
          ELSE [y EXCEPT !.missq = r]
  <2>1. y = IF e.cache = "icache" THEN irefill(st, last) ELSE [st EXCEPT !.lsq_refill = packet]
    BY DEF On
  <2>2. x = IF ~last THEN [y EXCEPT !.missq[i].cachecnt = @ + 1]
            ELSE [missq_change_state([y EXCEPT !.missq[i].cachecnt = @ + 1], i, "DELAY1")
                    EXCEPT !.refilltag = FALSE, !.refill_delay = 4]
    <3> DEFINE z == [y EXCEPT !.missq[i].cachecnt = @ + 1]
               g == [missq_change_state(z, i, "DELAY1") EXCEPT !.refilltag = FALSE, !.refill_delay = 4]
    <3> HIDE DEF y
    <3>1. CASE e.cache = "icache"
      <4>1. y = irefill(st, last)  BY <2>1, <3>1
      <4>2. CASE last  BY <3>1, <4>1, <4>2 DEF bus_refill
      <4>3. CASE ~last  BY <3>1, <4>1, <4>3 DEF bus_refill
      <4>4. QED  BY <4>2, <4>3
    <3>2. CASE e.cache # "icache"
      <4>1. y = [st EXCEPT !.lsq_refill = packet]  BY <2>1, <3>2
      <4>2. CASE last  BY <3>2, <4>1, <4>2 DEF bus_refill
      <4>3. CASE ~last  BY <3>2, <4>1, <4>3 DEF bus_refill
      <4>4. QED  BY <4>2, <4>3
    <3>3. QED  BY <3>1, <3>2
  <2> HIDE DEF y
  <2>3. [y EXCEPT !.missq[i].cachecnt = @ + 1] = [y EXCEPT !.missq = [st.missq EXCEPT ![i] = CountedAs(e)]]
    BY <1>1, <1>3 DEF CountedAs
  <2>4. missq_change_state([y EXCEPT !.missq = [st.missq EXCEPT ![i] = CountedAs(e)]], i, "DELAY1")
          = [y EXCEPT !.missq = [st.missq EXCEPT ![i] = DoneAs(e)]]
    BY <1>1, <1>3 DEF missq_change_state, DoneAs, CpuFields
  <2>5. QED  BY <2>2, <2>3, <2>4
<1>5. Quiet(st.cpuid, e, f, v) /\ KeepsAwait(st.cpuid, e, f) /\ RoundOK(st.cpuid, f, st.dl2, v)
  <2>1. f \in {CountedAs(e), DoneAs(e)}  OBVIOUS
  <2> HIDE DEF f
  <2>2. QED  BY <1>1, <2>1, CountedOK
<1>6. ~last => f.state = "REFILL_L1"
  BY <1>1 DEF CountedAs, EntryOK, EntryFields
<1> HIDE DEF y, f, last
<1>7. /\ DOMAIN x = CpuFields /\ x.cpuid = y.cpuid /\ x.missq = r /\ x.missq_num = y.missq_num
      /\ x.dl2 = y.dl2 /\ x.events = y.events /\ x.out = y.out /\ x.refilli = y.refilli
      /\ (x.refilltag = y.refilltag /\ ~last) \/ ~On(x.refilltag)
      /\ WPart(x) = WPart(y) /\ LPart(x) = LPart(y)
  <2>1. CASE last
    <3>1. x = [[y EXCEPT !.missq = r] EXCEPT !.refilltag = FALSE, !.refill_delay = 4]
      BY <1>4, <2>1
    <3> HIDE DEF r
    <3>2. x.refilltag = FALSE /\ DOMAIN x = CpuFields  BY <1>3, <3>1 DEF CpuFields
    <3>3. ~On(x.refilltag)  BY <3>2 DEF On
    <3>4. /\ x.cpuid = y.cpuid /\ x.missq = r /\ x.missq_num = y.missq_num
          /\ x.dl2 = y.dl2 /\ x.events = y.events /\ x.out = y.out /\ x.refilli = y.refilli
          /\ WPart(x) = WPart(y) /\ LPart(x) = LPart(y)
      BY <1>3, <3>1 DEF CpuFields, WPart, LPart
    <3>5. QED  BY <3>2, <3>3, <3>4
  <2>2. CASE ~last
    <3>1. x = [y EXCEPT !.missq = r]  BY <1>4, <2>2
    <3> HIDE DEF r
    <3>2. QED  BY <1>3, <2>2, <3>1 DEF CpuFields, WPart, LPart
  <2>3. QED  BY <2>1, <2>2
<1>8. M(x, v)
  <2>1. MissOK(y.cpuid, y.missq, y.missq_num, y.dl2, y.events, y.refilltag, y.refilli, y.out, v)
    BY <1>2, CoreOf
  <2>2. DOMAIN y.dl2 = L2Ways /\ \A w \in L2Ways : L2OK(y.cpuid, y.dl2[w], v.text)
    BY <1>2, CoreOf
  <2>3. \/ x.refilltag = y.refilltag /\ x.refilli = y.refilli
           /\ (y.missq[i].state = "REFILL_L1" => f.state = "REFILL_L1")
        \/ ~On(x.refilltag)
    BY <1>6, <1>7
  <2>4. MissOK(y.cpuid, [y.missq EXCEPT ![i] = f], y.missq_num, y.dl2, y.events, x.refilltag,
               x.refilli, y.out, v)
    BY <1>1, <1>3, <1>5, <2>1, <2>2, <2>3, OneKept
  <2>5. QED  BY <1>3, <1>7, <2>4 DEF M
<1>9. QED  BY <1>2, <1>7, <1>8, SameW, SameL DEF Good
=============================================================================
