--------------------------- MODULE CoherenceProof ---------------------------
(***************************************************************************)
(* Coherence keeps the counters of its queues.  First the last steps of    *)
(* cache2mem; then the invariant of each cpu (MissQueueProof) with the     *)
(* interventions between the cpus, each in one place, a channel, the miss  *)
(* queue of the cpu asked or the channel back, while its home waits for    *)
(* it; then the other stages of a cycle and the steps of Coherence.        *)
(***************************************************************************)
EXTENDS Coherence, MissQueueProof

-----------------------------------------------------------------------------
(***************************************************************************)
(* The refill bus: interventions and replacements.                         *)
(***************************************************************************)

\* Entry i changes and nothing else.
WithEntry(st, i, f) == [st EXCEPT !.missq = [st.missq EXCEPT ![i] = f]]

\* A step of one entry keeps the invariant.
LEMMA EntryGood ==
  ASSUME NEW st, NEW v, Good(st, v), NEW i \in Entries, NEW f,
         Quiet(st.cpuid, st.missq[i], f, v), KeepsAwait(st.cpuid, st.missq[i], f),
         RoundOK(st.cpuid, f, st.dl2, v),
         st.missq[i].state = "REFILL_L1" => f.state = "REFILL_L1",
         NEW x, x = WithEntry(st, i, f)
  PROVE  /\ Good(x, v) /\ x.cpuid = st.cpuid /\ x.lsq_refill = st.lsq_refill
         /\ x.wtbkq_num = st.wtbkq_num /\ DOMAIN x = CpuFields
         /\ x.missq = [st.missq EXCEPT ![i] = f] /\ x.refilltag = st.refilltag
<1> DEFINE r == [st.missq EXCEPT ![i] = f]
<1>1. DOMAIN st = CpuFields /\ DOMAIN st.missq = Entries  BY CoreOf
<1>2. DOMAIN r = Entries /\ r[i] = f /\ \A j \in Entries \ {i} : r[j] = st.missq[j]
  BY <1>1
<1> HIDE DEF r
<1>3. OnlyMissq(st, x, r) /\ x.lsq_refill = st.lsq_refill /\ x.wtbkq_num = st.wtbkq_num
  BY <1>1 DEF OnlyMissq, Frame, CpuFields, WPart, LPart, r, WithEntry
<1>4. Good(x, v)
  <2>1. \A j \in Entries : \/ r[j] = st.missq[j]
                           \/ /\ Quiet(st.cpuid, st.missq[j], r[j], v)
                              /\ KeepsAwait(st.cpuid, st.missq[j], r[j])
                              /\ RoundOK(st.cpuid, r[j], st.dl2, v)
    BY <1>2
  <2>2. \A j \in Entries : st.missq[j].state = "REFILL_L1" => r[j].state = "REFILL_L1"
    BY <1>2
  <2>3. QED  BY <1>2, <1>3, <2>1, <2>2, GoodAll
<1>5. QED  BY <1>3, <1>4 DEF OnlyMissq, Frame, r

\* The entry notes that it has told an own L1.
LEMMA ToldOK ==
  ASSUME NEW n, NEW v, NEW dl2, NEW e, EntryOK(n, e, v), RoundOK(n, e, dl2, v),
         e.state # "EMPTY", NEW l1, l1[1] = n, NEW f, f = AskedAs(e, l1)
  PROVE  Quiet(n, e, f, v) /\ KeepsAwait(n, e, f) /\ RoundOK(n, f, dl2, v) /\ f.state = e.state
<1>1. DOMAIN e = EntryFields  BY DEF EntryOK
<1>2. /\ AckFields(e, f) /\ f.acked = e.acked /\ f.sent = e.sent \cup {l1}
      /\ f.scache_refilled = e.scache_refilled
  BY <1>1 DEF AskedAs, AckFields, EntryFields
<1>3. External(f) <=> External(e)  BY <1>2 DEF AckFields, External
<1>4. EntryOK(n, f, v)
  <2>1. AskOK(n, e, v) <=> AskOK(n, f, v)  BY <1>2 DEF AckFields, AskOK
  <2>2. OwnOK(n, e) <=> OwnOK(n, f)  BY <1>2 DEF AckFields, OwnOK
  <2>3. QED  BY <1>2, <1>3, <2>1, <2>2 DEF EntryOK, AckFields
<1>5. Calm(n, e, f, v)  BY <1>2, <1>3, <1>4 DEF Calm, AckFields, InstAsks
<1>6. Round(f) <=> Round(e)  BY <1>2, <1>3 DEF Round, AckFields
<1>7. RoundOK(n, f, dl2, v)  BY <1>2, <1>6 DEF RoundOK, AckFields, Target
<1>8. KeepsServed(n, e, f) /\ KeepsPending(n, e, f) /\ KeepsAwait(n, e, f)
  BY <1>2, <1>6 DEF KeepsServed, KeepsPending, KeepsAwait, Pending, AckFields, Issued, Awaited
<1>9. QED  BY <1>2, <1>5, <1>7, <1>8 DEF Quiet, AckFields

\* An intervention packet reserves no slot.
LEMMA PacketPassed ==
  ASSUME NEW req, NEW blk, NEW i \in Entries
  PROVE  LET p == InterventionPacket(req, blk, i)
         IN  PassedOK(p) /\ p.kind # "replace"
BY DEF InterventionPacket, PassedOK, NoRefill, RefillFields

\* bus_local.
LEMMA LocalGood ==
  ASSUME NEW st, NEW v, Good(st, v), NEW i \in Entries, st.missq[i].state # "EMPTY", NEW blk,
         st.lsq_refill.kind = "none", st.wtbkq_num < wtbkq_ifq_size,
         NEW x, x = bus_local(st, i, blk)
  PROVE  Good(x, v)
<1> DEFINE n == st.cpuid  e == st.missq[i]  d == DataL1(n)  l == InstL1(n)
           p == InterventionPacket(e.intervention_type, blk, i)
           Told_(l1) == [st EXCEPT !.missq = [st.missq EXCEPT ![i] = AskedAs(e, l1)]]
           ya == Told_(l)
           yd == Told_(d)
<1>1. EntryOK(n, e, v) /\ RoundOK(n, e, st.dl2, v) /\ DOMAIN st.missq = Entries
      /\ DOMAIN st = CpuFields
  BY CoreOf
<1>2. d[1] = n /\ l[1] = n  BY DEF DataL1, InstL1
<1> HIDE DEF d, l
<1>3. /\ Good(ya, v) /\ ya.lsq_refill = st.lsq_refill /\ ya.wtbkq_num = st.wtbkq_num
  <2> DEFINE f == AskedAs(e, l)
  <2>1. Quiet(n, e, f, v) /\ KeepsAwait(n, e, f) /\ RoundOK(n, f, st.dl2, v) /\ f.state = e.state
    BY <1>1, <1>2, ToldOK
  <2>2. ya = WithEntry(st, i, f)  BY DEF WithEntry
  <2> HIDE DEF f, ya
  <2>3. st.missq[i].state = "REFILL_L1" => f.state = "REFILL_L1"  BY <2>1
  <2> HIDE DEF e
  <2>4. Quiet(st.cpuid, st.missq[i], f, v) /\ KeepsAwait(st.cpuid, st.missq[i], f) /\ RoundOK(st.cpuid, f, st.dl2, v)
    BY <2>1 DEF e
  <2>5. Good(ya, v)  BY ONLY Good(st, v), i \in Entries, <2>2, <2>3, <2>4, EntryGood
  <2>6. ya.lsq_refill = st.lsq_refill /\ ya.wtbkq_num = st.wtbkq_num
    BY <1>1, <2>2 DEF WithEntry, CpuFields
  <2>7. QED  BY <2>5, <2>6
<1>4. /\ Good(yd, v) /\ yd.lsq_refill = st.lsq_refill /\ yd.wtbkq_num = st.wtbkq_num
  <2> DEFINE f == AskedAs(e, d)
  <2>1. Quiet(n, e, f, v) /\ KeepsAwait(n, e, f) /\ RoundOK(n, f, st.dl2, v) /\ f.state = e.state
    BY <1>1, <1>2, ToldOK
  <2>2. yd = WithEntry(st, i, f)  BY DEF WithEntry
  <2> HIDE DEF f, yd
  <2>3. st.missq[i].state = "REFILL_L1" => f.state = "REFILL_L1"  BY <2>1
  <2> HIDE DEF e
  <2>4. Quiet(st.cpuid, st.missq[i], f, v) /\ KeepsAwait(st.cpuid, st.missq[i], f) /\ RoundOK(st.cpuid, f, st.dl2, v)
    BY <2>1 DEF e
  <2>5. Good(yd, v)  BY ONLY Good(st, v), i \in Entries, <2>2, <2>3, <2>4, EntryGood
  <2>6. yd.lsq_refill = st.lsq_refill /\ yd.wtbkq_num = st.wtbkq_num
    BY <1>1, <2>2 DEF WithEntry, CpuFields
  <2>7. QED  BY <2>5, <2>6
<1>5. CASE l \in ToOwnL1(st, i)
  <2>1. x = replace_iblock([wtbkq_reserve(st) EXCEPT !.missq[i].sent = @ \cup {l}], blk, TRUE)
    BY <1>5 DEF bus_local, l
  <2>2. [wtbkq_reserve(st) EXCEPT !.missq[i].sent = @ \cup {l}] = wtbkq_reserve(ya)
    BY <1>1 DEF wtbkq_reserve, AskedAs, CpuFields
  <2> HIDE DEF ya
  <2>3. x = replace_iblock(wtbkq_reserve(ya), blk, TRUE)  BY <2>1, <2>2
  <2>4. QED  BY <1>3, <2>3, AnswerEnters
<1>6. CASE l \notin ToOwnL1(st, i) /\ ~(st.refill_delay > 0)
  <2>1. x = [st EXCEPT !.missq[i].sent = @ \cup {d}, !.lsq_refill = p]
    BY <1>6 DEF bus_local, l, d
  <2>2. x = [yd EXCEPT !.lsq_refill = p]
    <3> HIDE DEF p
    <3>1. QED  BY <1>1, <2>1 DEF AskedAs, CpuFields
  <2>3. PassedOK(p) /\ p.kind # "replace"  BY PacketPassed
  <2> HIDE DEF yd, p
  <2>4. QED  BY <1>4, <2>2, <2>3, PassedGood
<1>7. CASE l \notin ToOwnL1(st, i) /\ st.refill_delay > 0
  BY <1>7 DEF bus_local, l
<1>8. QED  BY <1>5, <1>6, <1>7

SeenAs(e) == [e EXCEPT !.modify_l1 = FALSE]

\* An intervention from outside has been passed to the L1.
LEMMA SeenOK ==
  ASSUME NEW n, NEW v, NEW dl2, NEW e, EntryOK(n, e, v), External(e), NEW f, f = SeenAs(e)
  PROVE  /\ Quiet(n, e, f, v) /\ KeepsAwait(n, e, f) /\ RoundOK(n, f, dl2, v) /\ ~InstAsks(f)
         /\ e.state \in {"MODIFY_L1", "EXTRDY"} /\ f.state = e.state
<1>1. DOMAIN e = EntryFields /\ AskOK(n, e, v) /\ e.state # "EMPTY"  BY DEF EntryOK
<1>2. /\ DOMAIN f = EntryFields /\ f.modify_l1 = FALSE
      /\ \A g \in EntryFields \ {"modify_l1"} : f[g] = e[g]
  BY <1>1 DEF SeenAs, EntryFields
<1>3. /\ f.state = e.state /\ f.req = e.req /\ f.ack = e.ack /\ f.cpuid = e.cpuid
      /\ f.cache = e.cache /\ f.qid = e.qid /\ f.blk = e.blk /\ f.directory = e.directory
      /\ f.invn_match = e.invn_match
  BY <1>2 DEF EntryFields
<1>4. External(f) /\ ~InstAsks(f)  BY <1>2, <1>3 DEF External, InstAsks
<1>5. EntryOK(n, f, v)  BY <1>1, <1>2, <1>3, <1>4 DEF EntryOK, AskOK
<1>6. Calm(n, e, f, v)  BY <1>1, <1>3, <1>4, <1>5 DEF Calm, AskOK
<1>7. ~Round(f) /\ ~Round(e)  BY <1>4 DEF Round
<1>8. QED
  BY <1>1, <1>3, <1>4, <1>6, <1>7 DEF Quiet, KeepsServed, KeepsPending, KeepsAwait, RoundOK,
     Pending, Issued, Awaited, AskOK

\* Own misses that an intervention to the instruction cache frees.
LEMMA MatchedFree ==
  ASSUME NEW st, NEW v, Good(st, v), NEW i \in Entries, InstAsks(st.missq[i]),
         NEW j \in st.missq[i].invn_match
  PROVE  /\ j \in Entries /\ j # i /\ st.missq[j].state = "L1_MISS"
         /\ ~Awaited(st.cpuid, st.missq[j]) /\ \A l1 : ~Pending(st.missq[j], l1)
         /\ \A k \in Entries \ {i} : InstAsks(st.missq[k]) => j \notin st.missq[k].invn_match
<1> DEFINE n == st.cpuid  q == st.missq
<1>1. MatchOK(q) /\ OneAsks(q) /\ \A k \in Entries : EntryOK(n, q[k], v)
  BY CoreOf DEF Core
<1>2. q[i].state # "EMPTY" /\ External(q[i])  BY <1>1 DEF InstAsks, EntryOK
<1>3. j \in Entries  BY <1>1, <1>2 DEF EntryOK
<1>4. j # i /\ q[j].state = "L1_MISS" /\ q[j].blk = q[i].blk  BY <1>1, <1>3 DEF MatchOK
<1>5. ~Awaited(n, q[j]) /\ \A l1 : ~Pending(q[j], l1)
  BY <1>4 DEF Awaited, Pending, Round
<1>6. ASSUME NEW k \in Entries \ {i}, InstAsks(q[k]), j \in q[k].invn_match  PROVE FALSE
  <2>1. q[j].blk = q[k].blk  BY <1>1, <1>3, <1>6 DEF MatchOK
  <2>2. AskOK(n, q[k], v) /\ AskOK(n, q[i], v) /\ External(q[k])
    BY <1>1, <1>2, <1>6 DEF InstAsks, EntryOK
  <2>3. q[k].cpuid = q[i].cpuid /\ q[k].cache = q[i].cache
    BY <1>4, <1>6, <2>1, <2>2 DEF AskOK, InstAsks
  <2>4. SameAsk(q[k], q[i].cpuid, q[i].cache)  BY <2>2, <2>3 DEF SameAsk
  <2>5. QED  BY <1>1, <1>2, <1>6, <2>4 DEF OneAsks
<1>7. QED  BY <1>3, <1>4, <1>5, <1>6

FreesMatched(q, i) ==
  [j \in Entries |-> IF j = i THEN SeenAs(q[j])
                     ELSE IF j \in q[i].invn_match THEN FreeEntry ELSE q[j]]

\* bus_external_inst frees own misses, each of which is counted, once.
LEMMA ExternalInstGood ==
  ASSUME NEW st, NEW v, Good(st, v), NEW i \in Entries, InstAsks(st.missq[i]),
         ~On(st.refilltag), st.wtbkq_num < wtbkq_ifq_size,
         NEW x, x = bus_external_inst(st, i)
  PROVE  Good(x, v)
<1> DEFINE n == st.cpuid  q == st.missq  G == q[i].invn_match  r == FreesMatched(q, i)
           s == replace_iblock(wtbkq_reserve(st), q[i].blk, TRUE)
<1>1. Good(s, v) /\ MPart(s) = MPart(st) /\ LPart(s) = LPart(st)
  <2>1. s = replace_iblock(wtbkq_reserve(st), q[i].blk, TRUE)  OBVIOUS
  <2> HIDE DEF s, q
  <2>2. QED  BY ONLY Good(st, v), st.wtbkq_num < wtbkq_ifq_size, <2>1, AnswerEnters
<1>2. /\ s.cpuid = n /\ s.missq = q /\ s.missq_num = st.missq_num /\ s.dl2 = st.dl2
      /\ s.events = st.events /\ s.out = st.out /\ s.refilltag = st.refilltag
      /\ DOMAIN s = CpuFields /\ DOMAIN q = Entries
  BY <1>1, CoreOf DEF MPart
<1>3. x = [s EXCEPT !.missq_num = @ - Cardinality(G), !.missq = r]
  BY <1>2 DEF bus_external_inst, FreesMatched, SeenAs
<1> HIDE DEF s
<1>4. /\ DOMAIN x = CpuFields /\ x.missq = r /\ x.missq_num = s.missq_num - Cardinality(G)
      /\ x.cpuid = s.cpuid /\ x.dl2 = s.dl2 /\ x.events = s.events /\ x.out = s.out
      /\ x.refilltag = s.refilltag /\ WPart(x) = WPart(s) /\ LPart(x) = LPart(s)
  <2> HIDE DEF r, G
  <2>1. QED  BY <1>2, <1>3 DEF CpuFields, WPart, LPart
<1>5. EntryOK(n, q[i], v) /\ External(q[i]) /\ G \in SUBSET Entries /\ i \notin G
  <2>1. EntryOK(n, q[i], v) /\ External(q[i]) /\ q[i].state # "EMPTY"  BY CoreOf DEF InstAsks, EntryOK
  <2>2. G \in SUBSET Entries  BY <2>1 DEF EntryOK
  <2>3. i \notin G  BY MatchedFree
  <2>4. QED  BY <2>1, <2>2, <2>3
<1>6. /\ DOMAIN r = Entries /\ r[i] = SeenAs(q[i])
      /\ \A j \in G : r[j] = FreeEntry
      /\ \A j \in Entries \ (G \cup {i}) : r[j] = q[j]
  BY <1>5 DEF FreesMatched
<1> HIDE DEF r
<1>7. /\ Quiet(n, q[i], r[i], v) /\ KeepsAwait(n, q[i], r[i])
      /\ RoundOK(n, r[i], st.dl2, v) /\ ~InstAsks(r[i])
  <2> DEFINE f == SeenAs(q[i])
  <2>1. r[i] = f  BY <1>6
  <2> HIDE DEF f
  <2>2. QED  BY <1>5, <2>1, SeenOK DEF f
<1>8. \A j \in G : /\ q[j].state # "EMPTY" /\ ~Awaited(n, q[j])
                   /\ \A l1 : ~Pending(q[j], l1)
                   /\ \A k \in Entries \ {i} : InstAsks(q[k]) => j \notin q[k].invn_match
  BY MatchedFree
<1>9. \A k \in Entries \ G : \A j \in G : InstAsks(r[k]) => j \notin r[k].invn_match
  BY <1>6, <1>7, <1>8
<1>10. Freed(s, x, r, G, v)
  <2> HIDE DEF n, q, G
  <2>1. \A k \in Entries \ G :
          \/ r[k] = s.missq[k]
          \/ /\ Quiet(s.cpuid, s.missq[k], r[k], v)
             /\ KeepsAwait(s.cpuid, s.missq[k], r[k])
             /\ RoundOK(s.cpuid, r[k], s.dl2, v)
    BY <1>2, <1>5, <1>6, <1>7
  <2>2. \A k \in G :
          /\ r[k] = FreeEntry /\ s.missq[k].state # "EMPTY"
          /\ ~Awaited(s.cpuid, s.missq[k])
          /\ \A l1 : l1[1] # s.cpuid => ~Pending(s.missq[k], l1)
    BY <1>2, <1>6, <1>8
  <2>3. ~On(x.refilltag)  BY <1>2, <1>4
  <2>4. QED  BY <1>4, <1>6, <1>9, <2>1, <2>2, <2>3 DEF Freed
<1>11. M(x, v)
  <2> HIDE DEF G
  <2>1. QED  BY <1>1, <1>5, <1>10, FreedM
<1>12. QED  BY <1>1, <1>4, <1>11, SameW, SameL DEF Good

GoesAs(e) == [e EXCEPT !.state = "DELAY1"]

\* An own miss that an intervention from outside meets before it is issued.
LEMMA GoesOK ==
  ASSUME NEW n, NEW v, NEW dl2, NEW e, EntryOK(n, e, v), e.state = "L1_MISS",
         Owner[e.blk] # n, e.cache = "dcache", NEW f, f = GoesAs(e)
  PROVE  Quiet(n, e, f, v) /\ KeepsAwait(n, e, f) /\ RoundOK(n, f, dl2, v)
<1>1. DOMAIN e = EntryFields /\ ~External(e) /\ OwnOK(n, e)
  BY DEF EntryOK, AskOK
<1>2. Names(e, f) /\ f.state = "DELAY1" /\ f.wait = e.wait
  BY <1>1 DEF Names, GoesAs, EntryFields
<1>3. ~External(f)  BY <1>1, <1>2 DEF Names, External
<1>4. OwnOK(n, f)  BY <1>1, <1>2 DEF OwnOK, Names, RemoteStates
<1>5. EntryOK(n, f, v)  BY <1>1, <1>2, <1>3, <1>4 DEF EntryOK, Names
<1>6. Calm(n, e, f, v)  BY <1>1, <1>2, <1>3, <1>5 DEF Calm, Names, InstAsks
<1>7. QED  BY <1>2, <1>6 DEF Quiet, KeepsServed, KeepsPending, KeepsAwait, Awaited, Names,
                         Pending, Round, RoundOK, Issued, Serves

SendsAway(q, i) ==
  [j \in Entries |->
     IF j = i THEN SeenAs(q[j])
     ELSE IF j \in q[i].invn_match /\ q[j].state = "L1_MISS" /\ q[j].blk = q[i].blk
     THEN GoesAs(q[j]) ELSE q[j]]

PassedTo(st, r, p) == [st EXCEPT !.missq = r, !.lsq_refill = p]

\* An intervention from outside is passed to the data cache.
LEMMA ExternalDataGood ==
  ASSUME NEW st, NEW v, Good(st, v), NEW i \in Entries, External(st.missq[i]),
         st.missq[i].cache = "dcache",
         st.lsq_refill.kind = "none", NEW r, r = SendsAway(st.missq, i),
         NEW p, p = InterventionPacket(st.missq[i].req, st.missq[i].blk, i),
         NEW x, x = PassedTo(st, r, p)
  PROVE  Good(x, v)
<1> DEFINE n == st.cpuid  q == st.missq  e == q[i]
           z == [st EXCEPT !.missq = r]
<1>1. /\ DOMAIN st = CpuFields /\ DOMAIN q = Entries
      /\ \A j \in Entries : EntryOK(n, q[j], v) /\ RoundOK(n, q[j], st.dl2, v)
  BY CoreOf
<1>2. e.cache = CacheOf(e.blk, v.text) /\ Owner[e.blk] # n
  BY <1>1 DEF EntryOK, AskOK
<1>3. DOMAIN r = Entries /\ r[i] = SeenAs(e)
      /\ \A j \in Entries \ {i} :
           r[j] = IF j \in e.invn_match /\ q[j].state = "L1_MISS" /\ q[j].blk = e.blk
                  THEN GoesAs(q[j]) ELSE q[j]
  BY DEF SendsAway
<1> HIDE DEF q
<1>4. ASSUME NEW j \in Entries
      PROVE  /\ \/ r[j] = q[j]
                \/ Quiet(n, q[j], r[j], v) /\ KeepsAwait(n, q[j], r[j]) /\ RoundOK(n, r[j], st.dl2, v)
             /\ q[j].state = "REFILL_L1" => r[j].state = "REFILL_L1"
  <2>1. CASE j = i
    <3> DEFINE f == SeenAs(e)
    <3>1. r[j] = f  BY <1>3, <2>1
    <3>2. EntryOK(n, e, v) /\ External(e)  BY <1>1 DEF q
    <3> HIDE DEF f
    <3>3. Quiet(n, e, f, v) /\ KeepsAwait(n, e, f) /\ RoundOK(n, f, st.dl2, v)
            /\ e.state \in {"MODIFY_L1", "EXTRDY"}
      BY <3>2, SeenOK DEF f
    <3>4. QED  BY <2>1, <3>1, <3>3 DEF q
  <2>2. CASE j # i /\ j \in e.invn_match /\ q[j].state = "L1_MISS" /\ q[j].blk = e.blk
    <3> DEFINE f == GoesAs(q[j])
    <3>1. r[j] = f  BY <1>3, <2>2
    <3>2. q[j].cache = CacheOf(q[j].blk, v.text)  BY <1>1, <2>2 DEF EntryOK
    <3>3. q[j].cache = "dcache" /\ Owner[q[j].blk] # n  BY <1>2, <2>2, <3>2 DEF q
    <3> HIDE DEF f
    <3>4. Quiet(n, q[j], f, v) /\ KeepsAwait(n, q[j], f) /\ RoundOK(n, f, st.dl2, v)
      BY <1>1, <2>2, <3>3, GoesOK DEF f
    <3>5. QED  BY <2>2, <3>1, <3>4
  <2>3. CASE j # i /\ ~(j \in e.invn_match /\ q[j].state = "L1_MISS" /\ q[j].blk = e.blk)
    BY <1>3, <2>3
  <2>4. QED  BY <2>1, <2>2, <2>3
<1>5. OnlyMissq(st, z, r) /\ z.lsq_refill = st.lsq_refill /\ x = [z EXCEPT !.lsq_refill = p]
  BY <1>1 DEF OnlyMissq, Frame, CpuFields, WPart, LPart, q, PassedTo
<1>6. PassedOK(p) /\ p.kind # "replace"  BY PacketPassed
<1> HIDE DEF z, e
<1>7. Good(z, v)
  <2>1. \A j \in Entries : \/ r[j] = st.missq[j]
                           \/ /\ Quiet(st.cpuid, st.missq[j], r[j], v)
                              /\ KeepsAwait(st.cpuid, st.missq[j], r[j])
                              /\ RoundOK(st.cpuid, r[j], st.dl2, v)
    BY <1>4 DEF q
  <2>2. \A j \in Entries : st.missq[j].state = "REFILL_L1" => r[j].state = "REFILL_L1"
    BY <1>4 DEF q
  <2>3. QED  BY ONLY Good(st, v), <1>3, <1>5, <2>1, <2>2, GoodAll
<1>8. QED  BY <1>5, <1>6, <1>7, PassedGood

\* bus_external.
LEMMA ExternalGood ==
  ASSUME NEW st, NEW v, Good(st, v), NEW i \in Entries, External(st.missq[i]),
         st.missq[i].modify_l1, ~On(st.refilltag), st.lsq_refill.kind = "none",
         st.wtbkq_num < wtbkq_ifq_size, NEW t, NEW x, x = bus_external(st, i, On(t))
  PROVE  Good(x, v)
<1> DEFINE e == st.missq[i]
<1>1. CASE st.refill_delay > 0 \/ On(t)
  BY <1>1 DEF bus_external
<1>2. CASE ~(st.refill_delay > 0 \/ On(t)) /\ e.cache = "icache"
  <2>1. x = bus_external_inst(st, i)  BY <1>2 DEF bus_external
  <2>2. InstAsks(e)  BY <1>2 DEF InstAsks
  <2>3. QED  BY <2>1, <2>2, ExternalInstGood
<1>3. CASE ~(st.refill_delay > 0 \/ On(t)) /\ e.cache # "icache"
  <2> DEFINE r == SendsAway(st.missq, i)
  <2>1. e.cache = "dcache"  BY <1>3, CoreOf DEF EntryOK, CacheOf
  <2>2. DOMAIN st.missq = Entries  BY CoreOf
  <2> DEFINE p == InterventionPacket(e.req, e.blk, i)
  <2>3. x = PassedTo(st, r, p)
    BY <1>3, <2>2 DEF bus_external, SendsAway, SeenAs, GoesAs, PassedTo
  <2>4. r = SendsAway(st.missq, i) /\ p = InterventionPacket(st.missq[i].req, st.missq[i].blk, i)
    OBVIOUS
  <2>5. External(st.missq[i]) /\ st.missq[i].cache = "dcache"
    BY <1>3, <2>1
  <2> HIDE DEF r, p
  <2>6. QED  BY ONLY Good(st, v), i \in Entries, st.lsq_refill.kind = "none", <2>3, <2>4, <2>5, ExternalDataGood
<1>4. QED  BY <1>1, <1>2, <1>3

StartsAs(e, req) == [e EXCEPT !.state = "REFILL_L1", !.req = req]

\* The refill of an entry starts.
LEMMA StartsOK ==
  ASSUME NEW n, NEW v, NEW dl2, NEW e, EntryOK(n, e, v), e.state = "REPLACE_L1",
         NEW req \in {e.req, "READ_EX"}, req # e.req => e.cache # "icache",
         NEW f, f = StartsAs(e, req)
  PROVE  /\ Quiet(n, e, f, v) /\ KeepsAwait(n, e, f) /\ RoundOK(n, f, dl2, v)
         /\ f.state = "REFILL_L1" /\ ~External(f)
<1>1. DOMAIN e = EntryFields /\ ~External(e) /\ OwnOK(n, e)
  BY DEF EntryOK, AskOK
<1>2. /\ DOMAIN f = EntryFields /\ f.state = "REFILL_L1" /\ f.req = req /\ f.wait = e.wait
      /\ f.cpuid = e.cpuid /\ f.cache = e.cache /\ f.blk = e.blk /\ f.qid = e.qid
      /\ f.invn_match = e.invn_match
  BY <1>1 DEF StartsAs, EntryFields
<1>3. ~External(f) /\ f.req \in Requests \cup Interventions
  <2>1. "READ_EX" \notin Interventions /\ "READ_EX" \in Requests  BY DEF Interventions, Requests
  <2>2. QED  BY <1>1, <1>2, <2>1 DEF External, EntryOK
<1>4. OwnOK(n, f)  BY <1>1, <1>2 DEF OwnOK, RemoteStates
<1>5. EntryOK(n, f, v)  BY <1>1, <1>2, <1>3, <1>4 DEF EntryOK
<1>6. Calm(n, e, f, v)  BY <1>1, <1>2, <1>3, <1>5 DEF Calm, InstAsks
<1>7. QED  BY <1>2, <1>3, <1>6 DEF Quiet, KeepsServed, KeepsPending, KeepsAwait, Awaited,
                              Pending, Round, RoundOK, Issued

ServedBy(st, i) == {j \in Entries \ {i} : Own(st, j) /\ st.missq[j].blk = st.missq[i].blk}

\* The own misses that a refill serves.
LEMMA ServedFree ==
  ASSUME NEW st, NEW v, Good(st, v), NEW i \in Entries, st.missq[i].state = "REPLACE_L1",
         st.missq[i].cache # "icache", NEW j \in ServedBy(st, i)
  PROVE  /\ st.missq[j].state # "EMPTY" /\ ~Awaited(st.cpuid, st.missq[j])
         /\ \A l1 : ~Pending(st.missq[j], l1)
         /\ \A k \in Entries : InstAsks(st.missq[k]) => j \notin st.missq[k].invn_match
<1> DEFINE n == st.cpuid  q == st.missq
<1>1. /\ MatchOK(q) /\ OneServed(n, q) /\ \A k \in Entries : EntryOK(n, q[k], v)
  BY CoreOf DEF Core
<1>2. /\ j \in Entries /\ j # i /\ q[j].state # "EMPTY" /\ q[j].cpuid = n /\ q[j].blk = q[i].blk
  BY DEF ServedBy, Own
<1>3. ~External(q[j]) /\ OwnOK(n, q[j]) /\ q[j].cache = q[i].cache
  BY <1>1, <1>2 DEF EntryOK, AskOK
<1>4. Serves(n, q[j]) => FALSE
  BY <1>1, <1>2 DEF OneServed, Serves, Issued
<1>5. ~Awaited(n, q[j])  BY <1>4 DEF Awaited
<1>6. ~Round(q[j])
  <2>1. q[j].state \in {"MODIFY_L1", "L2_MISS"} => Serves(n, q[j])
    BY <1>2, <1>3 DEF OwnOK, Serves, Issued, RemoteStates
  <2>2. QED  BY <1>4, <2>1 DEF Round
<1>7. ASSUME NEW k \in Entries, InstAsks(q[k]), j \in q[k].invn_match  PROVE FALSE
  <2>1. q[j].blk = q[k].blk  BY <1>1, <1>2, <1>7 DEF MatchOK
  <2>2. q[k].cache = CacheOf(q[k].blk, v.text) /\ q[j].cache = CacheOf(q[j].blk, v.text)
    BY <1>1, <1>2, <1>7 DEF EntryOK, InstAsks
  <2>3. QED  BY <1>3, <1>7, <2>1, <2>2 DEF InstAsks
<1>8. QED  BY <1>2, <1>5, <1>6, <1>7 DEF Pending

\* The slot of the victim is reserved, and the replacement passes to its cache.
LEMMA ReservedGood ==
  ASSUME NEW st, NEW v, Good(st, v), st.lsq_refill.kind = "none", st.wtbkq_num < wtbkq_ifq_size,
         NEW p, PassedOK(p), p.kind = "replace",
         NEW x, x = [wtbkq_reserve(st) EXCEPT !.lsq_refill = p]
  PROVE  Good(x, v) /\ MPart(x) = MPart(st)
<1>1. DOMAIN st = CpuFields /\ W(st) /\ L(st, v)  BY DEF Good
<1>2. /\ DOMAIN x = CpuFields /\ x.lsq_refill = p /\ x.wtbkq_num = st.wtbkq_num + 1
      /\ \A f \in CpuFields \ {"lsq_refill", "wtbkq_num"} : x[f] = st[f]
  BY <1>1 DEF CpuFields, wtbkq_reserve
<1>3. MPart(x) = MPart(st)  BY <1>2 DEF MPart, CpuFields
<1>4. /\ x.cpuid = st.cpuid /\ x.wtbkq = st.wtbkq /\ x.wtbkq_replacei = st.wtbkq_replacei
      /\ x.lsq = st.lsq /\ x.todo = st.todo /\ x.text = st.text /\ x.irepbuf = st.irepbuf
      /\ x.dcache_refill = st.dcache_refill /\ x.dtagcmp_refill = st.dtagcmp_refill
  BY <1>2 DEF CpuFields
<1>5. W(x)  BY <1>1, <1>2, <1>4, PutW
<1>6. L(x, v)  BY <1>1, <1>2, <1>4, PutL
<1>7. QED  BY <1>2, <1>3, <1>5, <1>6, SameM DEF Good

StartsRefill(q, i, S, req) ==
  [j \in Entries |-> IF j = i THEN StartsAs(q[i], req) ELSE IF j \in S THEN FreeEntry ELSE q[j]]
StartedAs(s, r, i, S) ==
  [s EXCEPT !.refilltag = TRUE, !.refilli = i, !.missq_num = @ - Cardinality(S), !.missq = r]

\* A refill starts, and the writes it serves are freed.
LEMMA StartedGood ==
  ASSUME NEW st, NEW v, Good(st, v), NEW i \in Entries, st.missq[i].state = "REPLACE_L1",
         NEW s, Good(s, v), MPart(s) = MPart(st),
         NEW S, S = {} \/ (S = ServedBy(st, i) /\ st.missq[i].cache # "icache"),
         NEW req \in {st.missq[i].req, "READ_EX"},
         req # st.missq[i].req => st.missq[i].cache # "icache",
         NEW r, r = StartsRefill(st.missq, i, S, req),
         NEW x, x = StartedAs(s, r, i, S)
  PROVE  Good(x, v)
<1> DEFINE n == st.cpuid  q == st.missq
<1>1. /\ s.cpuid = n /\ s.missq = q /\ s.missq_num = st.missq_num /\ s.dl2 = st.dl2
      /\ s.events = st.events /\ s.out = st.out
      /\ DOMAIN s = CpuFields /\ DOMAIN q = Entries
  BY CoreOf DEF MPart
<1>2. /\ DOMAIN x = CpuFields /\ x.missq = r /\ x.missq_num = s.missq_num - Cardinality(S)
      /\ x.cpuid = s.cpuid /\ x.dl2 = s.dl2 /\ x.events = s.events /\ x.out = s.out
      /\ x.refilli = i /\ WPart(x) = WPart(s) /\ LPart(x) = LPart(s)
  BY <1>1 DEF CpuFields, WPart, LPart, StartedAs
<1>3. S \in SUBSET Entries /\ i \notin S  BY DEF ServedBy
<1>4. /\ DOMAIN r = Entries /\ r[i] = StartsAs(q[i], req)
      /\ \A j \in S : r[j] = FreeEntry
      /\ \A j \in Entries \ (S \cup {i}) : r[j] = q[j]
  BY <1>3 DEF StartsRefill
<1>5. /\ Quiet(n, q[i], r[i], v) /\ KeepsAwait(n, q[i], r[i])
      /\ RoundOK(n, r[i], st.dl2, v) /\ r[i].state = "REFILL_L1" /\ ~External(r[i])
  <2> DEFINE f == StartsAs(q[i], req)
  <2>1. r[i] = f /\ EntryOK(n, q[i], v)  BY <1>4, CoreOf
  <2> HIDE DEF f
  <2>2. QED  BY <2>1, StartsOK DEF f
<1>6. \A j \in S : /\ q[j].state # "EMPTY" /\ ~Awaited(n, q[j])
                   /\ \A l1 : ~Pending(q[j], l1)
                   /\ \A k \in Entries : InstAsks(q[k]) => j \notin q[k].invn_match
  BY ServedFree
<1>7. \A k \in Entries \ S : \A j \in S : InstAsks(r[k]) => j \notin r[k].invn_match
  <2>1. ~InstAsks(r[i])  BY <1>5 DEF InstAsks
  <2>2. QED  BY <1>4, <1>6, <2>1
<1>8. Freed(s, x, r, S, v)
  <2> HIDE DEF n, q
  <2>1. \A k \in Entries \ S :
          \/ r[k] = s.missq[k]
          \/ /\ Quiet(s.cpuid, s.missq[k], r[k], v)
             /\ KeepsAwait(s.cpuid, s.missq[k], r[k])
             /\ RoundOK(s.cpuid, r[k], s.dl2, v)
    BY <1>1, <1>3, <1>4, <1>5
  <2>2. \A k \in S :
          /\ r[k] = FreeEntry /\ s.missq[k].state # "EMPTY"
          /\ ~Awaited(s.cpuid, s.missq[k])
          /\ \A l1 : l1[1] # s.cpuid => ~Pending(s.missq[k], l1)
    BY <1>1, <1>4, <1>6
  <2>3. x.refilli \in Entries /\ r[x.refilli].state = "REFILL_L1"  BY <1>2, <1>5
  <2>4. QED  BY <1>2, <1>4, <1>7, <2>1, <2>2, <2>3 DEF Freed
<1>9. M(x, v)  BY <1>3, <1>8, FreedM
<1>10. QED  BY <1>2, <1>9, SameW, SameL DEF Good

\* bus_replace.
LEMMA ReplaceGood ==
  ASSUME NEW st, NEW v, Good(st, v), NEW i \in Entries, st.missq[i].state = "REPLACE_L1",
         st.lsq_refill.kind = "none", st.wtbkq_num < wtbkq_ifq_size,
         NEW x, x = bus_replace(st, i)
  PROVE  Good(x, v)
<1> DEFINE q == st.missq  e == q[i]
           exclusive == /\ e.cache # "icache" /\ e.req = "READ_SHD"
                        /\ e.cache_status = "EXCLUSIVE"
           S == IF exclusive THEN ServedBy(st, i) ELSE {}
           req == IF exclusive THEN "READ_EX" ELSE e.req
           p == [NoRefill EXCEPT !.kind = "replace", !.blk = e.blk, !.req = e.req,
                                 !.cache_status = e.cache_status]
           s == IF e.cache = "icache" THEN replace_iblock(wtbkq_reserve(st), e.blk, FALSE)
                ELSE [wtbkq_reserve(st) EXCEPT !.lsq_refill = p]
           r == StartsRefill(q, i, S, req)
           y == StartedAs(s, r, i, S)
           name == "int3"
<1>1. Good(s, v) /\ MPart(s) = MPart(st)
  <2>1. CASE e.cache = "icache"
    <3>1. s = replace_iblock(wtbkq_reserve(st), e.blk, FALSE)  BY <2>1
    <3> HIDE DEF s, e
    <3>2. QED  BY ONLY Good(st, v), st.wtbkq_num < wtbkq_ifq_size, <3>1, VictimEnters
  <2>2. CASE e.cache # "icache"
    <3>1. s = [wtbkq_reserve(st) EXCEPT !.lsq_refill = p]  BY <2>2
    <3>2. PassedOK(p) /\ p.kind = "replace"
      BY DEF PassedOK, NoRefill, RefillFields
    <3> HIDE DEF s, p
    <3>3. QED  BY <3>1, <3>2, ReservedGood
  <2>3. QED  BY <2>1, <2>2
<1>2. x = y \/ x = FailedAs(y, name)
  <2> DEFINE b == \A j \in S : q[j].req \in Writes /\ q[j].state = "L1_MISS"
  <2>1. x = Asserted(name, b, y)
    <3>1. DOMAIN q = Entries  BY CoreOf
    <3>2. \A j \in Entries : (IF j = i THEN [q[j] EXCEPT !.state = "REFILL_L1", !.req = IF exclusive THEN "READ_EX" ELSE @]
                              ELSE IF j \in S THEN FreeEntry ELSE q[j]) = r[j]
      BY DEF StartsRefill, StartsAs
    <3>3. r = [j \in Entries |-> IF j = i THEN [q[j] EXCEPT !.state = "REFILL_L1", !.req = IF exclusive THEN "READ_EX" ELSE @]
                              ELSE IF j \in S THEN FreeEntry ELSE q[j]]
      BY <3>2 DEF StartsRefill
    <3>4. CASE exclusive
      BY <3>3, <3>4 DEF bus_replace, StartedAs, ServedBy
    <3>5. CASE ~exclusive
      BY <3>3, <3>5 DEF bus_replace, StartedAs, ServedBy
    <3>6. QED  BY <3>4, <3>5
  <2> HIDE DEF y, b, name
  <2>2. QED  BY <2>1 DEF Asserted, FailedAs
<1>3. Good(y, v)
  <2>1. S = {} \/ (S = ServedBy(st, i) /\ e.cache # "icache")  OBVIOUS
  <2>2. req \in {e.req, "READ_EX"} /\ (req # e.req => e.cache # "icache")  OBVIOUS
  <2>3. y = StartedAs(s, r, i, S) /\ r = StartsRefill(st.missq, i, S, req)  OBVIOUS
  <2> HIDE DEF y, r, s, S, req
  <2>4. QED  BY <1>1, <2>1, <2>2, <2>3, StartedGood
<1>4. CASE x = y  BY <1>3, <1>4
<1>5. CASE x = FailedAs(y, name)
  <2> HIDE DEF y, name
  <2>1. QED  BY <1>3, <1>5, FailedGood
<1>6. QED  BY <1>2, <1>4, <1>5

\* The entries that refill_bus works on.
BusPicks(st, p) ==
  /\ p.MODIFY_L1 # None => p.MODIFY_L1 \in Entries /\ st.missq[p.MODIFY_L1].state # "EMPTY"
  /\ p.REPLACE_L1 # None => /\ p.REPLACE_L1 \in Entries
                            /\ st.missq[p.REPLACE_L1].state = "REPLACE_L1"
  /\ p.L2_MISS # None => p.L2_MISS \in Entries /\ st.missq[p.L2_MISS].state # "EMPTY"

\* refill_bus keeps the invariant: one user of the bus per cycle.
LEMMA RefillBusGood ==
  ASSUME NEW st, NEW v, Good(st, v), NEW p, BusPicks(st, p), st.lsq_refill.kind = "none",
         NEW two_empty, On(two_empty) => st.wtbkq_num < wtbkq_ifq_size, NEW delayed,
         NEW t, NEW x, x = refill_bus(st, p, On(two_empty), On(delayed), On(t))
  PROVE  Good(x, v)
<1> DEFINE m == p.MODIFY_L1  r == p.REPLACE_L1  l == p.L2_MISS
           c == IF st.refill_delay > 0 THEN st.refill_delay - 1 ELSE 0
           s == [st EXCEPT !.refill_delay = c]
           open == BusOpen(On(two_empty), On(delayed))
<1>1. SameParts(st, s) /\ DOMAIN s = CpuFields
  <2>1. DOMAIN st = CpuFields  BY CoreOf
  <2> HIDE DEF c
  <2>2. QED  BY <2>1 DEF SameParts, CpuFields, MPart, WPart, LPart
<1>2. /\ Good(s, v) /\ s.missq = st.missq /\ s.lsq_refill = st.lsq_refill
      /\ s.wtbkq_num = st.wtbkq_num
  <2> HIDE DEF s
  <2>1. QED  BY <1>1, SameGood DEF SameParts, MPart, WPart
<1>3. open => s.wtbkq_num < wtbkq_ifq_size  BY <1>2 DEF BusOpen
<1> HIDE DEF open
<1>4. x = IF s.refilltag THEN bus_refill(s)
          ELSE IF ~open THEN s
          ELSE IF m # None /\ External(s.missq[m]) /\ s.missq[m].modify_l1
          THEN bus_external(s, m, On(t))
          ELSE IF ToOwnL1(s, m) # {} THEN bus_local(s, m, s.missq[m].blk)
          ELSE IF r # None THEN bus_replace(s, r)
          ELSE IF ToOwnL1(s, l) # {} /\ s.dl2[s.missq[l].L2_way].status # "INVALID"
          THEN bus_local(s, l, s.missq[l].L2_replace)
          ELSE s
  BY DEF refill_bus, open
<1> HIDE DEF s
<1>5. CASE s.refilltag
  <2>1. x = bus_refill(s) /\ On(s.refilltag)  BY <1>4, <1>5 DEF On
  <2>2. QED  BY <1>2, <2>1, BusRefillGood
<1>6. CASE ~s.refilltag /\ ~open
  BY <1>2, <1>4, <1>6
<1>7. CASE ~s.refilltag /\ open
  <2>1. ~On(s.refilltag) /\ s.wtbkq_num < wtbkq_ifq_size /\ s.lsq_refill.kind = "none"
    BY <1>2, <1>3, <1>7 DEF On
  <2>2. CASE m # None /\ External(s.missq[m]) /\ s.missq[m].modify_l1
    <3>1. x = bus_external(s, m, On(t)) /\ m \in Entries  BY <1>4, <1>7, <2>2 DEF BusPicks
    <3> HIDE DEF m
    <3>2. QED  BY ONLY <1>2, <2>1, <2>2, <3>1, ExternalGood
  <2> DEFINE out == m # None /\ External(s.missq[m]) /\ s.missq[m].modify_l1
  <2>3. CASE ~out /\ ToOwnL1(s, m) # {}
    <3>1. x = bus_local(s, m, s.missq[m].blk)  BY <1>4, <1>7, <2>3
    <3>2. m \in Entries /\ s.missq[m].state # "EMPTY"  BY <1>2, <2>3 DEF BusPicks, ToOwnL1
    <3> HIDE DEF m
    <3>3. QED  BY ONLY <1>2, <2>1, <3>1, <3>2, LocalGood
  <2>4. CASE ~out /\ ToOwnL1(s, m) = {} /\ r # None
    <3>1. x = bus_replace(s, r)  BY <1>4, <1>7, <2>4
    <3>2. r \in Entries /\ s.missq[r].state = "REPLACE_L1"  BY <1>2, <2>4 DEF BusPicks
    <3> HIDE DEF r
    <3>3. QED  BY ONLY <1>2, <2>1, <3>1, <3>2, ReplaceGood
  <2> DEFINE own == ToOwnL1(s, l) # {} /\ s.dl2[s.missq[l].L2_way].status # "INVALID"
  <2>5. CASE ~out /\ ToOwnL1(s, m) = {} /\ r = None /\ own
    <3>1. x = bus_local(s, l, s.missq[l].L2_replace)  BY <1>4, <1>7, <2>5
    <3>2. l \in Entries /\ s.missq[l].state # "EMPTY"  BY <1>2, <2>5 DEF BusPicks, ToOwnL1
    <3> HIDE DEF l
    <3>3. QED  BY ONLY <1>2, <2>1, <3>1, <3>2, LocalGood
  <2>6. CASE ~out /\ ToOwnL1(s, m) = {} /\ r = None /\ ~own
    <3>1. x = s  BY <1>4, <1>7, <2>6
    <3>2. QED  BY <1>2, <3>1
  <2>7. QED  BY <2>2, <2>3, <2>4, <2>5, <2>6
<1>8. QED  BY <1>5, <1>6, <1>7

-----------------------------------------------------------------------------
(***************************************************************************)
(* The end of cache2mem, and cache2mem.                                    *)
(***************************************************************************)

DelayedAs(e) == [e EXCEPT !.state = IF @ = "DELAY1" THEN "DELAY2" ELSE "DELAY3"]

\* A refilled entry passes the delay states ...
LEMMA DelayedOK ==
  ASSUME NEW n, NEW v, NEW dl2, NEW e, EntryOK(n, e, v), e.state \in {"DELAY1", "DELAY2"},
         NEW f, f = DelayedAs(e)
  PROVE  Quiet(n, e, f, v) /\ KeepsAwait(n, e, f) /\ RoundOK(n, f, dl2, v)
<1>1. DOMAIN e = EntryFields /\ ~External(e) /\ OwnOK(n, e)
  BY DEF EntryOK, AskOK
<1>2. Names(e, f) /\ f.state \in {"DELAY2", "DELAY3"} /\ f.wait = e.wait
  BY <1>1 DEF Names, DelayedAs, EntryFields
<1>3. ~External(f)  BY <1>1, <1>2 DEF Names, External
<1>4. OwnOK(n, f)  BY <1>1, <1>2 DEF OwnOK, Names, RemoteStates
<1>5. EntryOK(n, f, v)  BY <1>1, <1>2, <1>3, <1>4 DEF EntryOK, Names
<1>6. Calm(n, e, f, v)  BY <1>1, <1>2, <1>3, <1>5 DEF Calm, Names, InstAsks
<1>7. QED  BY <1>2, <1>6 DEF Quiet, KeepsServed, KeepsPending, KeepsAwait, Awaited, Names,
                         Pending, Round, RoundOK, Issued, Serves

DelaysOf(q) ==
  [i \in Entries |-> IF q[i].state = "DELAY3" THEN FreeEntry
                     ELSE IF q[i].state \in {"DELAY1", "DELAY2"} THEN DelayedAs(q[i]) ELSE q[i]]

\* ... and is freed after the last.
LEMMA DelayGood ==
  ASSUME NEW st, NEW v, Good(st, v), NEW x, x = delay(st)
  PROVE  Good(x, v) /\ x.wtbkq_num = st.wtbkq_num
<1> DEFINE n == st.cpuid  q == st.missq  r == DelaysOf(q)  G == InState(st, "DELAY3")
<1>1. /\ DOMAIN st = CpuFields /\ DOMAIN q = Entries /\ MatchOK(q)
      /\ On(st.refilltag) => st.refilli \in Entries /\ q[st.refilli].state = "REFILL_L1"
      /\ \A j \in Entries : EntryOK(n, q[j], v) /\ RoundOK(n, q[j], st.dl2, v)
  BY CoreOf DEF Core
<1>2. x = [st EXCEPT !.missq_num = @ - Cardinality(G), !.missq = r]
  <2>1. r = [i \in Entries |-> CASE q[i].state = "DELAY3" -> FreeEntry
                                 [] q[i].state = "DELAY2" -> [q[i] EXCEPT !.state = "DELAY3"]
                                 [] q[i].state = "DELAY1" -> [q[i] EXCEPT !.state = "DELAY2"]
                                 [] OTHER -> q[i]]
    <3>1. ASSUME NEW i \in Entries
          PROVE  (IF q[i].state = "DELAY3" THEN FreeEntry
                  ELSE IF q[i].state \in {"DELAY1", "DELAY2"} THEN DelayedAs(q[i]) ELSE q[i])
                 = (CASE q[i].state = "DELAY3" -> FreeEntry
                      [] q[i].state = "DELAY2" -> [q[i] EXCEPT !.state = "DELAY3"]
                      [] q[i].state = "DELAY1" -> [q[i] EXCEPT !.state = "DELAY2"]
                      [] OTHER -> q[i])
      <4>1. CASE q[i].state = "DELAY3"  BY <4>1
      <4>2. CASE q[i].state = "DELAY2"  BY <4>2 DEF DelayedAs
      <4>3. CASE q[i].state = "DELAY1"  BY <4>3 DEF DelayedAs
      <4>4. CASE q[i].state \notin {"DELAY1", "DELAY2", "DELAY3"}  BY <4>4
      <4>5. QED  BY <4>1, <4>2, <4>3, <4>4
    <3>2. QED  BY <3>1 DEF DelaysOf
  <2>2. QED  BY <2>1 DEF delay
<1>3. /\ DOMAIN x = CpuFields /\ x.missq = r /\ x.missq_num = st.missq_num - Cardinality(G)
      /\ x.cpuid = n /\ x.dl2 = st.dl2 /\ x.events = st.events /\ x.out = st.out
      /\ x.refilltag = st.refilltag /\ x.refilli = st.refilli /\ x.wtbkq_num = st.wtbkq_num
      /\ WPart(x) = WPart(st) /\ LPart(x) = LPart(st)
  <2> HIDE DEF r, G
  <2>1. QED  BY <1>1, <1>2 DEF CpuFields, WPart, LPart
<1>4. /\ DOMAIN r = Entries /\ G \in SUBSET Entries
      /\ \A i \in G : r[i] = FreeEntry /\ q[i].state = "DELAY3"
      /\ \A i \in Entries \ G : IF q[i].state \in {"DELAY1", "DELAY2"} THEN r[i] = DelayedAs(q[i])
                                ELSE r[i] = q[i]
  BY DEF DelaysOf, InState
<1> HIDE DEF r, G
<1>5. ASSUME NEW i \in Entries \ G
      PROVE  \/ r[i] = q[i]
             \/ Quiet(n, q[i], r[i], v) /\ KeepsAwait(n, q[i], r[i]) /\ RoundOK(n, r[i], st.dl2, v)
  <2>1. CASE q[i].state \in {"DELAY1", "DELAY2"}
    <3> DEFINE f == DelayedAs(q[i])
    <3>1. r[i] = f  BY <1>4, <2>1
    <3> HIDE DEF f
    <3>2. QED  BY <1>1, <2>1, <3>1, DelayedOK DEF f
  <2>2. QED  BY <1>4, <2>1
<1>6. \A k \in Entries \ G : \A j \in G : InstAsks(r[k]) => j \notin r[k].invn_match
  <2>1. ASSUME NEW k \in Entries \ G, InstAsks(r[k])  PROVE InstAsks(q[k]) /\ r[k].invn_match = q[k].invn_match
    <3>1. r[k] = q[k] \/ Quiet(n, q[k], r[k], v)  BY <1>5
    <3>2. QED  BY <2>1, <3>1 DEF Quiet, Calm
  <2>2. QED  BY <1>1, <1>4, <2>1 DEF MatchOK
<1>7. On(x.refilltag) => x.refilli \in Entries /\ r[x.refilli].state = "REFILL_L1"
  BY <1>1, <1>3, <1>4
<1>8. \A i \in G : ~Awaited(n, q[i]) /\ \A l1 : ~Pending(q[i], l1)
  BY <1>4 DEF Awaited, Pending, Round
<1>9. Freed(st, x, r, G, v)
  BY <1>3, <1>4, <1>5, <1>6, <1>7, <1>8 DEF Freed
<1>10. M(x, v)  BY <1>4, <1>9, FreedM
<1>11. QED  BY <1>3, <1>10, SameW, SameL DEF Good

\* The entry that was picked for a state, and one that is at least in use.
PickAt(st, i, s) == i # None => i \in Entries /\ st.missq[i].state = s
PickIn(st, i) == i # None => i \in Entries /\ st.missq[i].state # "EMPTY"

\* A picked entry keeps its state while others move ...
LEMMA PickKept ==
  ASSUME NEW st, NEW x, NEW C, StatesKept(st.missq, x.missq, C), NEW i, NEW s, s # "EMPTY",
         PickAt(st, i, s)
  PROVE  /\ s \notin C => PickAt(x, i, s)
         /\ PickIn(x, i)
BY DEF PickAt, PickIn, StatesKept

\* ... or stays in the queue.
LEMMA PickStays ==
  ASSUME NEW st, NEW x, NEW C, StatesKept(st.missq, x.missq, C), NEW i, PickIn(st, i)
  PROVE  PickIn(x, i)
BY DEF PickIn, StatesKept

PickFields == {"L1_MISS", "READ_L2", "MODIFY_L1", "REPLACE_L1", "EXTRDY", "L2_MISS", "MEMREF",
               "REFILL_L2"}

\* The entries of a cycle are picked by their states.
LEMMA Picked ==
  ASSUME NEW st, NEW p \in Picks(st)
  PROVE  \A s \in PickFields : PickAt(st, p[s], s)
<1>1. \A s : \A i \in Candidates(st, s) : PickAt(st, i, s)
  BY DEF Candidates, InState, PickAt
<1>2. PICK i1 \in Candidates(st, "L1_MISS"), i2 \in Candidates(st, "READ_L2"),
           i3 \in Candidates(st, "MODIFY_L1"), i4 \in Candidates(st, "REPLACE_L1"),
           i5 \in Candidates(st, "EXTRDY"), i6 \in Candidates(st, "L2_MISS"),
           i7 \in Candidates(st, "MEMREF"), i8 \in Candidates(st, "REFILL_L2") :
        p = [L1_MISS |-> i1, READ_L2 |-> i2, MODIFY_L1 |-> i3, REPLACE_L1 |-> i4,
             EXTRDY |-> i5, L2_MISS |-> i6, MEMREF |-> i7, REFILL_L2 |-> i8]
  BY DEF Picks
<1>3. QED  BY <1>1, <1>2 DEF PickFields

\* cache2mem keeps the invariant, whichever entries are picked.
LEMMA Cache2memGood ==
  ASSUME NEW st, NEW v, Good(st, v), st.lsq_refill.kind = "none", NEW p \in Picks(st),
         NEW victim \in L2Ways, NEW x, x = cache2mem(st, p, victim)
  PROVE  Good(x, v)
<1> DEFINE i1 == p.L1_MISS  i2 == p.READ_L2  i3 == p.MODIFY_L1  i4 == p.REPLACE_L1
           i5 == p.EXTRDY  i6 == p.L2_MISS  i7 == p.MEMREF  i8 == p.REFILL_L2
           a == receive_miss(st)
           b == issue_miss(a, i1)
           c == reprobe(b, i2, victim)
           exit == i3 # None /\ External(c.missq[i3]) /\ AnsweredByWtbkq(c, i3)
           d == modify_L1(c, i3)
           e == L2_miss(d, i6)
           f == memref(e, i7)
           g == refill_L2(f, i8)
           port == i1 # None /\ b.events # st.events
           two == g.wtbkq_num < wtbkq_ifq_size - 1
           h == issue_wtbk(g, On(port))
           k == extrdy(h, i5)
           late == InState(st, "DELAY1") # {}
           y == refill_bus(k, p, On(two), On(late), On(exit))
<1>1. x = delay(y)
  BY DEF cache2mem, On
<1>2. /\ PickAt(st, i1, "L1_MISS") /\ PickAt(st, i2, "READ_L2") /\ PickAt(st, i3, "MODIFY_L1")
      /\ PickAt(st, i4, "REPLACE_L1") /\ PickAt(st, i5, "EXTRDY") /\ PickAt(st, i6, "L2_MISS")
      /\ PickAt(st, i7, "MEMREF") /\ PickAt(st, i8, "REFILL_L2")
  BY Picked DEF PickFields
<1>3. Received(st, a, v)  BY ReceiveGood
<1> HIDE DEF a
<1>4. /\ Good(a, v) /\ WPart(a) = WPart(st)
      /\ PickAt(a, i1, "L1_MISS") /\ PickAt(a, i2, "READ_L2") /\ PickAt(a, i3, "MODIFY_L1")
      /\ PickAt(a, i4, "REPLACE_L1") /\ PickAt(a, i5, "EXTRDY") /\ PickAt(a, i6, "L2_MISS")
      /\ PickAt(a, i7, "MEMREF") /\ PickAt(a, i8, "REFILL_L2")
  BY <1>2, <1>3, PickKept DEF Received
<1> HIDE DEF exit
<1> HIDE DEF i1, i2, i3, i4, i5, i6, i7, i8
<1>5. Moved(a, b, v, {"L1_MISS"})
  BY <1>4, IssueGood DEF PickAt
<1>6. /\ Good(b, v) /\ LPart(b) = LPart(a)
      /\ PickAt(b, i2, "READ_L2") /\ PickAt(b, i3, "MODIFY_L1")
      /\ PickAt(b, i4, "REPLACE_L1") /\ PickAt(b, i5, "EXTRDY") /\ PickAt(b, i6, "L2_MISS")
      /\ PickAt(b, i7, "MEMREF") /\ PickAt(b, i8, "REFILL_L2")
  BY <1>4, <1>5, PickKept DEF Moved
<1> HIDE DEF b
<1>7. /\ Good(c, v) /\ LPart(c) = LPart(b) /\ \A j \in Entries : j # i2 => c.missq[j] = b.missq[j]
  <2>1. i2 # None => i2 \in Entries /\ b.missq[i2].state = "READ_L2"  BY <1>6 DEF PickAt
  <2>2. c = reprobe(b, i2, victim) /\ Good(b, v)  BY <1>6
  <2> HIDE DEF c
  <2>3. QED  BY ONLY <2>1, <2>2, victim \in L2Ways, ReprobeGood
<1> HIDE DEF c
<1>8. /\ PickAt(c, i3, "MODIFY_L1")
      /\ PickAt(c, i4, "REPLACE_L1") /\ PickAt(c, i5, "EXTRDY") /\ PickAt(c, i6, "L2_MISS")
      /\ PickAt(c, i7, "MEMREF") /\ PickAt(c, i8, "REFILL_L2")
  BY <1>6, <1>7 DEF PickAt
<1>9. Went(c, d, v, {"MODIFY_L1"})
  BY <1>7, <1>8, ModifyGood DEF PickAt
<1>10. /\ Good(d, v) /\ LPart(d) = LPart(c) /\ PickIn(d, i3)
       /\ PickAt(d, i4, "REPLACE_L1") /\ PickAt(d, i5, "EXTRDY") /\ PickAt(d, i6, "L2_MISS")
       /\ PickAt(d, i7, "MEMREF") /\ PickAt(d, i8, "REFILL_L2")
  <2>1. StatesKept(c.missq, d.missq, {"MODIFY_L1"})  BY <1>9 DEF Went
  <2>2. \A i, s : s # "EMPTY" /\ s \notin {"MODIFY_L1"} /\ PickAt(c, i, s) => PickAt(d, i, s)
    BY ONLY <2>1, PickKept
  <2>3. \A i, s : s # "EMPTY" /\ PickAt(c, i, s) => PickIn(d, i)
    BY ONLY <2>1, PickKept
  <2>4. \A i : PickIn(c, i) => PickIn(d, i)
    BY ONLY <2>1, PickStays
  <2>5. QED  BY <1>8, <1>9, <2>2, <2>3, <2>4 DEF Went
<1> HIDE DEF d
<1>11. Moved(d, e, v, {"L2_MISS"})
  BY <1>10, L2MissGood DEF PickAt
<1>12. /\ Good(e, v) /\ LPart(e) = LPart(d) /\ PickIn(e, i3) /\ PickIn(e, i6)
       /\ PickAt(e, i4, "REPLACE_L1") /\ PickAt(e, i5, "EXTRDY")
       /\ PickAt(e, i7, "MEMREF") /\ PickAt(e, i8, "REFILL_L2")
  <2>1. StatesKept(d.missq, e.missq, {"L2_MISS"})  BY <1>11 DEF Moved
  <2>2. \A i, s : s # "EMPTY" /\ s \notin {"L2_MISS"} /\ PickAt(d, i, s) => PickAt(e, i, s)
    BY ONLY <2>1, PickKept
  <2>3. \A i, s : s # "EMPTY" /\ PickAt(d, i, s) => PickIn(e, i)
    BY ONLY <2>1, PickKept
  <2>4. \A i : PickIn(d, i) => PickIn(e, i)
    BY ONLY <2>1, PickStays
  <2>5. QED  BY <1>10, <1>11, <2>2, <2>3, <2>4 DEF Moved
<1> HIDE DEF e
<1>13. Moved(e, f, v, {"MEMREF"})
  BY <1>12, MemrefGood DEF PickAt
<1>14. /\ Good(f, v) /\ LPart(f) = LPart(e) /\ PickIn(f, i3) /\ PickIn(f, i6)
       /\ PickAt(f, i4, "REPLACE_L1") /\ PickAt(f, i5, "EXTRDY") /\ PickAt(f, i8, "REFILL_L2")
  <2>1. StatesKept(e.missq, f.missq, {"MEMREF"})  BY <1>13 DEF Moved
  <2>2. \A i, s : s # "EMPTY" /\ s \notin {"MEMREF"} /\ PickAt(e, i, s) => PickAt(f, i, s)
    BY ONLY <2>1, PickKept
  <2>3. \A i, s : s # "EMPTY" /\ PickAt(e, i, s) => PickIn(f, i)
    BY ONLY <2>1, PickKept
  <2>4. \A i : PickIn(e, i) => PickIn(f, i)
    BY ONLY <2>1, PickStays
  <2>5. QED  BY <1>12, <1>13, <2>2, <2>3, <2>4 DEF Moved
<1> HIDE DEF f
<1>15. Moved(f, g, v, {})
  BY <1>14, RefillL2Good DEF PickAt
<1>16. /\ Good(g, v) /\ LPart(g) = LPart(f) /\ PickIn(g, i3) /\ PickIn(g, i6)
       /\ PickAt(g, i4, "REPLACE_L1") /\ PickAt(g, i5, "EXTRDY")
  <2>1. StatesKept(f.missq, g.missq, {})  BY <1>15 DEF Moved
  <2>2. \A i, s : s # "EMPTY" /\ s \notin {} /\ PickAt(f, i, s) => PickAt(g, i, s)
    BY ONLY <2>1, PickKept
  <2>3. \A i, s : s # "EMPTY" /\ PickAt(f, i, s) => PickIn(g, i)
    BY ONLY <2>1, PickKept
  <2>4. \A i : PickIn(f, i) => PickIn(g, i)
    BY ONLY <2>1, PickStays
  <2>5. QED  BY <1>14, <1>15, <2>2, <2>3, <2>4 DEF Moved
<1> HIDE DEF g, port
<1>17. Went(g, h, v, {"MODIFY_L1"})
  BY <1>16, IssueWtbkGood
<1>18. /\ Good(h, v) /\ LPart(h) = LPart(g) /\ PickIn(h, i3) /\ PickIn(h, i6)
       /\ PickAt(h, i4, "REPLACE_L1") /\ PickAt(h, i5, "EXTRDY") /\ h.wtbkq_num <= g.wtbkq_num
  <2>1. StatesKept(g.missq, h.missq, {"MODIFY_L1"})  BY <1>17 DEF Went
  <2>2. \A i, s : s # "EMPTY" /\ s \notin {"MODIFY_L1"} /\ PickAt(g, i, s) => PickAt(h, i, s)
    BY ONLY <2>1, PickKept
  <2>3. \A i, s : s # "EMPTY" /\ PickAt(g, i, s) => PickIn(h, i)
    BY ONLY <2>1, PickKept
  <2>4. \A i : PickIn(g, i) => PickIn(h, i)
    BY ONLY <2>1, PickStays
  <2>5. QED  BY <1>16, <1>17, <2>2, <2>3, <2>4 DEF Went
<1> HIDE DEF h
<1>19. Good(k, v) /\ WPart(k) = WPart(h) /\ LPart(k) = LPart(h) /\ OthersKept(h.missq, k.missq, i5)
  BY <1>18, ExtrdyGood DEF PickAt
<1> HIDE DEF k
<1>20. BusPicks(k, p)
  <2>1. i4 # None => i4 # i5  BY <1>18 DEF PickAt, None
  <2>2. i3 # None => i3 # i5  BY <1>2 DEF PickAt, None
  <2>3. i6 # None => i6 # i5  BY <1>2 DEF PickAt, None
  <2>4. QED  BY <1>18, <1>19, <2>1, <2>2, <2>3 DEF BusPicks, PickAt, PickIn, OthersKept, i3, i4, i6
<1>21. On(two) => k.wtbkq_num < wtbkq_ifq_size
  <2>1. k.wtbkq_num = h.wtbkq_num  BY <1>19 DEF WPart
  <2>2. h.wtbkq_num \in Nat /\ g.wtbkq_num \in Nat /\ wtbkq_ifq_size \in Nat
    BY <1>16, <1>18, SlotCount, SlotsFinite
  <2>3. QED  BY <1>18, <2>1, <2>2 DEF On
<1>22. k.lsq_refill.kind = "none"
  <2>1. a.lsq_refill = st.lsq_refill  BY <1>4 DEF WPart
  <2>2. k.lsq_refill = a.lsq_refill
    BY <1>6, <1>7, <1>10, <1>12, <1>14, <1>16, <1>18, <1>19 DEF LPart
  <2>3. QED  BY <2>1, <2>2
<1> HIDE DEF two, late
<1>23. Good(y, v)
  BY ONLY <1>19, <1>20, <1>21, <1>22, RefillBusGood
<1> HIDE DEF y
<1>24. QED  BY <1>1, <1>23, DelayGood

-----------------------------------------------------------------------------
(***************************************************************************)
(* The invariant of all cpus.                                              *)
(***************************************************************************)

Kinds == {"dcache", "icache"}

\* An intervention that h sends to an L1 of d is on its way, or asks there, or
\* its answer is on its way: c are the cpus, ch the channels.
Invns(ch, h, d) == {<<"INVN", k>> : k \in DOMAIN ch["INVN"][h][d]}
Asks(c, h, d) ==
  {<<"missq", i>> : i \in {j \in Entries : External(c[d].missq[j]) /\ c[d].missq[j].cpuid = h}}
Answers(ch, h, d) ==
  {<<"RESP", k>> : k \in {j \in DOMAIN ch["RESP"][d][h] : Owner[ch["RESP"][d][h][j].blk] = h}}
Tokens(c, ch, h, d) == Invns(ch, h, d) \cup Asks(c, h, d) \cup Answers(ch, h, d)
At(c, ch, h, d, x) ==
  CASE x[1] = "INVN" -> ch["INVN"][h][d][x[2]]
    [] x[1] = "missq" -> c[d].missq[x[2]]
    [] x[1] = "RESP" -> ch["RESP"][d][h][x[2]]
OneToken(c, ch) ==
  \A h, d \in Cpus : \A x, y \in Tokens(c, ch, h, d) :
    At(c, ch, h, d, x).cache = At(c, ch, h, d, y).cache => x = y

\* What cpu n relies on of the others.
Env(c, ch, n, T) ==
  [self |-> n, text |-> T,
   asked |-> {t \in Cpus \X Kinds \X Entries : Pending(c[t[1]].missq[t[3]], <<n, t[2]>>)},
   others |-> UNION {{<<h, At(c, ch, h, n, x).cache>> : x \in Invns(ch, h, n) \cup Answers(ch, h, n)} :
                     h \in Cpus},
   sent |-> UNION {{<<<<d, At(c, ch, n, d, x).cache>>, At(c, ch, n, d, x).qid>> : x \in Tokens(c, ch, n, d)} :
                   d \in Cpus}]
ChanOK(ch, T) ==
  \A t \in Types, s, d \in Cpus :
    IsSeq(ch[t][s][d]) /\ \A k \in DOMAIN ch[t][s][d] : PacketOK(t, s, d, ch[t][s][d][k], T)
Rest(c, n) == c[n].cpuid = n /\ c[n].out = NothingSent /\ c[n].lsq_refill.kind = "none"

\* The blocks that a program executes, and those it loads and stores; the
\* theorems are about programs where no block is both.
TextOf(program) == UNION {{a.blk : a \in Fetches(program[n])} : n \in Cpus}
DataOf(program) == UNION {{a.blk : a \in program[n] \ Fetches(program[n])} : n \in Cpus}
Separate == \A program \in Programs : DataOf(program) \cap TextOf(program) = {}
\* The invariant, T the blocks of text: each cpu is in order for what the
\* others have under way, the channels hold packets that are meant to exist,
\* and an intervention is in one place.
Inv(c, ch, T) ==
  /\ DOMAIN c = Cpus
  /\ \A n \in Cpus : Good(c[n], Env(c, ch, n, T)) /\ Rest(c, n)
  /\ ChanOK(ch, T) /\ OneToken(c, ch)
IndInv == \E T \in SUBSET Blocks : Inv(cpu, chan, T)

-----------------------------------------------------------------------------
(***************************************************************************)
(* The load/store queue and the data cache: lsq_stage, and fetch_stage.    *)
(***************************************************************************)

\* The accesses that stay in a queue.
Keeps(g, q, gone, n) ==
  g = [k \in 0 .. n |-> IF k = 0 THEN <<>>
                        ELSE IF q[k] \in gone THEN g[k - 1] ELSE Append(g[k - 1], q[k])]

\* The accesses that stay can be collected one by one.
LEMMA KeepsExist ==
  ASSUME NEW q, NEW gone, NEW n \in Nat
  PROVE  \E g : Keeps(g, q, gone, n)
<1> DEFINE T == {m \in Nat : ~ \E g : Keeps(g, q, gone, m)}
<1>1. ASSUME T # {} PROVE FALSE
  <2>1. PICK m \in T : \A y \in T : m <= y
    <3>1. T \in SUBSET Nat  OBVIOUS
    <3> HIDE DEF T
    <3>2. QED  BY <1>1, <3>1, LeastNat
  <2>2. m # 0
    <3>1. Keeps([k \in 0 .. 0 |-> <<>>], q, gone, 0)  BY DEF Keeps
    <3>2. QED  BY <3>1
  <2>3. m - 1 \in Nat /\ m - 1 \notin T /\ m \in Nat
    <3>1. m \in Nat  OBVIOUS
    <3> HIDE DEF T
    <3>2. QED  BY <2>1, <2>2, <3>1
  <2>4. PICK g : Keeps(g, q, gone, m - 1)  BY <2>3
  <2> DEFINE last == IF q[m] \in gone THEN g[m - 1] ELSE Append(g[m - 1], q[m])
             h == [k \in 0 .. m |-> IF k < m THEN g[k] ELSE last]
  <2>5. \A k \in 0 .. m - 1 :
          g[k] = IF k = 0 THEN <<>>
                 ELSE IF q[k] \in gone THEN g[k - 1] ELSE Append(g[k - 1], q[k])
    BY <2>4 DEF Keeps
  <2>6. ASSUME NEW k \in 0 .. m
        PROVE  h[k] = IF k = 0 THEN <<>>
                      ELSE IF q[k] \in gone THEN h[k - 1] ELSE Append(h[k - 1], q[k])
    <3>1. CASE k < m
      <4>1. k \in 0 .. m - 1 /\ h[k] = g[k] /\ (k # 0 => k - 1 \in 0 .. m /\ k - 1 < m)
        BY <2>3, <3>1
      <4>2. k # 0 => h[k - 1] = g[k - 1]  BY <4>1
      <4>3. QED  BY <2>5, <4>1, <4>2
    <3>2. CASE ~ (k < m)
      <4>1. k = m /\ k # 0 /\ m - 1 \in 0 .. m /\ m - 1 < m  BY <2>2, <2>3, <3>2
      <4>2. h[m] = last /\ h[m - 1] = g[m - 1]  BY <2>3, <4>1
      <4>3. QED  BY <4>1, <4>2
    <3>3. QED  BY <3>1, <3>2
  <2>7. Keeps(h, q, gone, m)
    <3>1. h = [k \in 0 .. m |-> h[k]]  OBVIOUS
    <3> HIDE DEF h
    <3>2. QED  BY <2>6, <3>1 DEF Keeps
  <2>8. QED  BY <2>7
<1>2. QED  BY <1>1

\* What a queue keeps are accesses of the queue.
Part(s, q) == IsSeq(s) /\ \A k \in DOMAIN s : \E j \in DOMAIN q : s[k] = q[j]

\* What is collected is part of the queue.
LEMMA PartAppend ==
  ASSUME NEW s, NEW q, Part(s, q), NEW j \in DOMAIN q
  PROVE  Part(Append(s, q[j]), q)
<1> DEFINE r == Append(s, q[j])
<1>1. /\ IsSeq(r) /\ Len(r) = Len(s) + 1 /\ Len(s) \in Nat
      /\ \A k \in 1 .. Len(s) : r[k] = s[k]
      /\ r[Len(s) + 1] = q[j]
  BY SeqAppend DEF Part
<1> HIDE DEF r
<1>2. DOMAIN r = 1 .. Len(s) + 1 /\ DOMAIN s = 1 .. Len(s)  BY <1>1, SeqShape DEF Part
<1>3. \A k \in DOMAIN r : \E i \in DOMAIN q : r[k] = q[i]
  <2>1. TAKE k \in DOMAIN r
  <2>2. CASE k = Len(s) + 1  BY <1>1, <2>2
  <2>3. CASE k # Len(s) + 1
    <3>1. k \in 1 .. Len(s)  BY <1>1, <1>2, <2>3
    <3>2. QED  BY <1>1, <1>2, <3>1 DEF Part
  <2>4. QED  BY <2>2, <2>3
<1>4. QED  BY <1>1, <1>3 DEF Part, r

\* The collection is part of the queue.
LEMMA KeptPart ==
  ASSUME NEW q, IsSeq(q), NEW gone, NEW g, Keeps(g, q, gone, Len(q))
  PROVE  Part(g[Len(q)], q)
<1> DEFINE n == Len(q)  T == {m \in 0 .. n : ~ Part(g[m], q)}
<1>0. n \in Nat /\ DOMAIN q = 1 .. n  BY SeqShape
<1>1. \A k \in 0 .. n :
        g[k] = IF k = 0 THEN <<>>
               ELSE IF q[k] \in gone THEN g[k - 1] ELSE Append(g[k - 1], q[k])
  BY DEF Keeps
<1> HIDE DEF n
<1>2. ASSUME T # {} PROVE FALSE
  <2>1. PICK m \in T : \A y \in T : m <= y
    <3>1. T \in SUBSET Nat  BY <1>0
    <3> HIDE DEF T
    <3>2. QED  BY <1>2, <3>1, LeastNat
  <2>2. m \in 0 .. n /\ m \in Nat  BY <1>0
  <2>3. m # 0
    <3>1. g[0] = <<>>  BY <1>0, <1>1
    <3>2. Part(<<>>, q)  BY NoneIsSeq DEF Part
    <3>3. QED  BY <2>1, <3>1, <3>2
  <2>4. m - 1 \in 0 .. n /\ m - 1 < m /\ m \in DOMAIN q  BY <1>0, <2>2, <2>3
  <2>5. Part(g[m - 1], q)
    <3>1. m - 1 \notin T
      <4> HIDE DEF T
      <4>1. QED  BY <2>1, <2>2, <2>4
    <3>2. QED  BY <2>4, <3>1
  <2>6. g[m] = g[m - 1] \/ g[m] = Append(g[m - 1], q[m])
    BY <1>1, <2>2, <2>3
  <2>7. Part(g[m], q)
    <3>1. CASE g[m] = g[m - 1]  BY <2>5, <3>1
    <3>2. CASE g[m] = Append(g[m - 1], q[m])
      <4>1. Part(Append(g[m - 1], q[m]), q)  BY <2>4, <2>5, PartAppend
      <4>2. QED  BY <3>2, <4>1
    <3>3. QED  BY <2>6, <3>1, <3>2
  <2>8. QED  BY <2>7
<1>3. Part(g[n], q)
  <2>1. n \in 0 .. n  BY <1>0
  <2>2. QED  BY <1>2, <2>1
<1>4. QED  BY <1>3 DEF n

\* A queue without some accesses is part of it.
LEMMA WithoutPart ==
  ASSUME NEW q, IsSeq(q), NEW gone
  PROVE  Part(Without(q, gone), q)
<1> DEFINE n == Len(q)  Rec(g) == Keeps(g, q, gone, n)
           c == CHOOSE g : Rec(g)
<1>1. Without(q, gone) = c[n]  BY DEF Without, Keeps
<1>2. Rec(c)
  <2>1. n \in Nat  BY SeqShape
  <2>2. \E g : Rec(g)
    <3> HIDE DEF n
    <3>1. QED  BY <2>1, KeepsExist
  <2> HIDE DEF Rec
  <2>3. QED  BY <2>2
<1> HIDE DEF c
<1>3. Keeps(c, q, gone, Len(q))  BY <1>2
<1>4. Part(c[Len(q)], q)  BY <1>3, KeptPart
<1>5. QED  BY <1>1, <1>4

WithLsq(st, s) == [st EXCEPT !.lsq = s]
Accesses_(s, v) == IsSeq(s) /\ \A k \in DOMAIN s : AccessOK(s[k], v)

\* The load/store queue is well formed.
LEMMA QueueOf ==
  ASSUME NEW st, NEW v, Good(st, v)
  PROVE  /\ Accesses_(st.lsq, v) /\ Len(st.lsq) \in Nat /\ DOMAIN st.lsq = 1 .. Len(st.lsq)
         /\ DOMAIN st = CpuFields
BY SeqShape DEF Good, L, LsqOK, Accesses_

\* Another queue of accesses to data keeps the invariant.
LEMMA WithLsqGood ==
  ASSUME NEW st, NEW v, Good(st, v), NEW s, Accesses_(s, v), NEW x, x = WithLsq(st, s)
  PROVE  Good(x, v) /\ x.lsq_refill = st.lsq_refill /\ x.dcache_refill = st.dcache_refill
<1>0. DOMAIN st = CpuFields  BY DEF Good
<1>1. /\ DOMAIN x = CpuFields /\ MPart(x) = MPart(st) /\ WPart(x) = WPart(st)
      /\ x.todo = st.todo /\ x.text = st.text /\ x.irepbuf = st.irepbuf
      /\ x.dtagcmp_refill = st.dtagcmp_refill /\ x.lsq = s
      /\ x.lsq_refill = st.lsq_refill /\ x.dcache_refill = st.dcache_refill
  BY <1>0 DEF CpuFields, MPart, WPart, WithLsq
<1>2. LsqStep(st, x, v)  BY <1>1 DEF LsqStep, Accesses_
<1>3. QED  BY <1>1, <1>2, LsqGood

\* Accesses that are part of a queue of such accesses.
LEMMA PartOK ==
  ASSUME NEW s, NEW q, NEW v, Part(s, q), Accesses_(q, v)
  PROVE  Accesses_(s, v)
BY DEF Part, Accesses_

\* A queue changed access by access.
LEMMA MapOK ==
  ASSUME NEW q, NEW v, Accesses_(q, v), NEW s, DOMAIN s = DOMAIN q, s = [k \in DOMAIN q |-> s[k]],
         \A k \in DOMAIN q : AccessOK(s[k], v)
  PROVE  Accesses_(s, v)
<1>1. Len(q) \in Nat /\ DOMAIN q = 1 .. Len(q)  BY SeqShape DEF Accesses_
<1> DEFINE n == Len(q)
<1>2. DOMAIN s = 1 .. n /\ s = [k \in 1 .. n |-> s[k]] /\ n \in Nat  BY <1>1
<1> HIDE DEF n
<1>3. IsSeq(s)  BY <1>2, MapIsSeq
<1>4. QED  BY <1>3 DEF Accesses_

\* lsq_wtbk drops finished loads.
LEMMA LsqWtbkGood ==
  ASSUME NEW st, NEW v, Good(st, v), NEW x, x = lsq_wtbk(st)
  PROVE  Good(x, v)
<1> DEFINE s == Without(st.lsq, {a \in Range(st.lsq) : Waits(a) /\ a.op = "load" /\ a.rdy})
<1>1. x = WithLsq(st, s)  BY DEF lsq_wtbk, WithLsq
<1>2. Accesses_(st.lsq, v)  BY QueueOf
<1>3. Part(s, st.lsq)  BY <1>2, WithoutPart DEF Accesses_
<1> HIDE DEF s
<1>4. Accesses_(s, v)  BY <1>2, <1>3, PartOK
<1>5. QED  BY <1>1, <1>4, WithLsqGood

OfferedAs(a, flag) == [a EXCEPT !.miss = flag]

\* A waiting access offers its miss.
LEMMA OfferedOK ==
  ASSUME NEW v, NEW a, AccessOK(a, v), NEW flag,
         On(flag) => Waits(a) /\ ~a.rdy, NEW b, b = OfferedAs(a, On(flag))
  PROVE  AccessOK(b, v)
<1>1. /\ DOMAIN b = LsqFields /\ b.blk = a.blk /\ b.req = a.req /\ b.state = a.state
      /\ b.rdy = a.rdy /\ b.way = a.way
  BY DEF AccessOK, LsqFields, OfferedAs
<1>2. b.miss = On(flag)  BY DEF AccessOK, LsqFields, OfferedAs
<1>3. b.miss => Waits(a) /\ ~a.rdy  BY <1>2
<1>4. QED  BY <1>1, <1>3 DEF AccessOK, Waits

\* lsq_miss keeps the invariant.
LEMMA LsqMissGood ==
  ASSUME NEW st, NEW v, Good(st, v), NEW x, x = lsq_miss(st)
  PROVE  Good(x, v)
<1> DEFINE Missing(a) == Waits(a) /\ ~a.fetching /\ ~a.rdy
           I == {k \in DOMAIN st.lsq : Missing(st.lsq[k])}
           k == IF I = {} THEN None ELSE Min(I)
           s == [i \in DOMAIN st.lsq |-> OfferedAs(st.lsq[i], On(i = k))]
<1>1. x = WithLsq(st, s)  BY DEF lsq_miss, WithLsq, Indices, OfferedAs, On
<1>2. Accesses_(st.lsq, v) /\ DOMAIN st.lsq = 1 .. Len(st.lsq) /\ Len(st.lsq) \in Nat  BY QueueOf
<1>3. \A i \in DOMAIN st.lsq : i = k => Waits(st.lsq[i]) /\ ~st.lsq[i].rdy
  <2>1. I \in SUBSET Nat  BY <1>2
  <2>2. I # {} => Min(I) \in I
    <3> HIDE DEF I
    <3>1. QED  BY <2>1, LeastIn
  <2>3. None \notin DOMAIN st.lsq  BY <1>2 DEF None
  <2>4. QED  BY <2>2, <2>3
<1> HIDE DEF k
<1>4. ASSUME NEW i \in DOMAIN st.lsq PROVE AccessOK(s[i], v)
  <2> DEFINE a == st.lsq[i]  flag == (i = k)
  <2>1. AccessOK(a, v) /\ (flag => Waits(a) /\ ~a.rdy)  BY <1>2, <1>3 DEF Accesses_
  <2>2. s[i] = OfferedAs(a, On(flag))  OBVIOUS
  <2> HIDE DEF a, flag, s
  <2>3. QED  BY <2>1, <2>2, OfferedOK DEF On
<1>5. DOMAIN s = DOMAIN st.lsq /\ s = [i \in DOMAIN st.lsq |-> s[i]]  OBVIOUS
<1> HIDE DEF s
<1>6. Accesses_(s, v)  BY <1>2, <1>4, <1>5, MapOK
<1>7. QED  BY <1>1, <1>6, WithLsqGood

WrittenAs(a) == [a EXCEPT !.state = "WRITTEN"]

\* A committed store is written and leaves.
LEMMA WriteGood ==
  ASSUME NEW st, NEW v, Good(st, v), NEW write, NEW x, x = dcachewrite(st, On(write))
  PROVE  Good(x, v)
<1> DEFINE k == Min(Indices(st, LAMBDA a : a.state # "DELAY1"))  w == st.lsq[k].way
           y == [st EXCEPT !.dcache[w].status = Dirtied(@), !.lsq[k].state = "WRITTEN"]
           s == [i \in DOMAIN st.lsq |-> IF i = k THEN WrittenAs(st.lsq[i]) ELSE st.lsq[i]]
<1>1. \/ x = st
      \/ x = Asserted("dcachewrite", FALSE, st)
      \/ x = y
  BY DEF dcachewrite, On
<1>2. CASE x = Asserted("dcachewrite", FALSE, st)
  <2>1. x = FailedAs(st, "dcachewrite")  BY <1>2 DEF Asserted, FailedAs
  <2>2. QED  BY <2>1, FailedGood
<1>3. CASE x = y
  <2>1. DOMAIN st = CpuFields /\ Accesses_(st.lsq, v)  BY QueueOf
  <2> HIDE DEF k, w
  <2>2. /\ DOMAIN y = CpuFields /\ MPart(y) = MPart(st) /\ WPart(y) = WPart(st)
        /\ y.todo = st.todo /\ y.text = st.text /\ y.irepbuf = st.irepbuf
        /\ y.dtagcmp_refill = st.dtagcmp_refill
    BY <2>1 DEF CpuFields, MPart, WPart
  <2>3. y.lsq = s  BY <2>1 DEF CpuFields, WrittenAs
  <2> HIDE DEF y
  <2>4. ASSUME NEW i \in DOMAIN st.lsq PROVE AccessOK(s[i], v)
    <3> DEFINE a == st.lsq[i]
    <3>1. AccessOK(a, v)  BY <2>1 DEF Accesses_
    <3>2. s[i] = a \/ s[i] = WrittenAs(a)  OBVIOUS
    <3> HIDE DEF a, s
    <3>3. AccessOK(WrittenAs(a), v)  BY <3>1 DEF AccessOK, WrittenAs, LsqFields
    <3>4. CASE s[i] = a  BY <3>1, <3>4
    <3>5. CASE s[i] = WrittenAs(a)  BY <3>3, <3>5
    <3>6. QED  BY <3>2, <3>4, <3>5
  <2>5. DOMAIN s = DOMAIN st.lsq /\ s = [i \in DOMAIN st.lsq |-> s[i]]  OBVIOUS
  <2> HIDE DEF s
  <2>6. Accesses_(s, v)  BY <2>1, <2>4, <2>5, MapOK
  <2>7. LsqStep(st, y, v)  BY <2>2, <2>3, <2>6 DEF LsqStep, Accesses_
  <2>8. QED  BY <1>3, <2>7, LsqGood
<1>4. QED  BY <1>1, <1>2, <1>3

\* A waiting access looks the cache up once more.
LEMMA ReissueOK ==
  ASSUME NEW v, NEW a, AccessOK(a, v), Waits(a), NEW req \in Requests
  PROVE  AccessOK(Reissue(a, req), v)
BY DEF AccessOK, Reissue, LsqFields, Waits, Requests

\* An update changes the accesses that wait, each to one that may be there.
Updated(q, s, v) ==
  /\ DOMAIN s = DOMAIN q /\ s = [k \in DOMAIN q |-> s[k]]
  /\ \A k \in DOMAIN q : s[k] = q[k] \/ (Waits(q[k]) /\ AccessOK(s[k], v))

\* Waiting accesses change what they wait for.
LEMMA UpdatedGood ==
  ASSUME NEW st, NEW v, Good(st, v), NEW s, Updated(st.lsq, s, v), NEW x, x = WithLsq(st, s)
  PROVE  Good(x, v)
<1>1. Accesses_(st.lsq, v)  BY QueueOf
<1>2. \A k \in DOMAIN st.lsq : AccessOK(s[k], v)  BY <1>1 DEF Updated, Accesses_
<1>3. Accesses_(s, v)  BY <1>1, <1>2, MapOK DEF Updated
<1>4. QED  BY <1>3, WithLsqGood

\* A replacement makes accesses of its block wait (lsq_replaced).
LEMMA ReplacedGood ==
  ASSUME NEW st, NEW v, Good(st, v), NEW x, x = lsq_replaced(st)
  PROVE  Good(x, v)
<1> DEFINE s == [k \in DOMAIN st.lsq |->
             IF Waits(st.lsq[k]) /\ st.lsq[k].op = "store" /\ st.lsq[k].blk = st.replace_blk
             THEN Reissue(st.lsq[k], "READ_EX") ELSE st.lsq[k]]
<1>1. x = WithLsq(st, s)  BY DEF lsq_replaced, Update, WithLsq
<1>2. Accesses_(st.lsq, v)  BY QueueOf
<1>3. Updated(st.lsq, s, v)
  <2>1. \A k \in DOMAIN st.lsq :
          s[k] = st.lsq[k] \/ (Waits(st.lsq[k]) /\ s[k] = Reissue(st.lsq[k], "READ_EX"))
    OBVIOUS
  <2>2. DOMAIN s = DOMAIN st.lsq /\ s = [k \in DOMAIN st.lsq |-> s[k]]  OBVIOUS
  <2> HIDE DEF s
  <2>3. "READ_EX" \in Requests  BY DEF Requests
  <2>4. ASSUME NEW k \in DOMAIN st.lsq
        PROVE  s[k] = st.lsq[k] \/ (Waits(st.lsq[k]) /\ AccessOK(s[k], v))
    <3> DEFINE a == st.lsq[k]
    <3>1. AccessOK(a, v)  BY <1>2 DEF Accesses_
    <3>2. CASE s[k] = a  BY <3>2
    <3>3. CASE Waits(a) /\ s[k] = Reissue(a, "READ_EX")
      <4>1. AccessOK(Reissue(a, "READ_EX"), v)
        <5> HIDE DEF a
        <5>1. QED  BY <2>3, <3>1, <3>3, ReissueOK
      <4>2. QED  BY <3>3, <4>1
    <3>4. QED  BY <2>1, <3>2, <3>3
  <2>5. QED  BY <2>2, <2>4 DEF Updated
<1> HIDE DEF s
<1>4. QED  BY <1>1, <1>3, UpdatedGood

RefilledAs(a, r) == [a EXCEPT !.rdy = TRUE, !.fetching = FALSE, !.miss = FALSE, !.way = r.way]
UpgradedAs(a) == [a EXCEPT !.req = "UPGRADE"]

\* A double word reaches the accesses that wait for it (lsq_refilled).
LEMMA RefilledGood ==
  ASSUME NEW st, NEW v, Good(st, v), NEW r, NEW x, x = lsq_refilled(st, r)
  PROVE  Good(x, v)
<1> DEFINE New(a) == IF a.op = "store" /\ NewStatus(r) = "SHARED" THEN UpgradedAs(a)
                     ELSE RefilledAs(a, r)
           s == [k \in DOMAIN st.lsq |->
             IF Waits(st.lsq[k]) /\ st.lsq[k].blk = r.blk /\ st.lsq[k].word = r.word
             THEN New(st.lsq[k]) ELSE st.lsq[k]]
<1>1. x = WithLsq(st, s)  BY DEF lsq_refilled, Update, WithLsq, UpgradedAs, RefilledAs
<1>2. Accesses_(st.lsq, v)  BY QueueOf
<1>3. Updated(st.lsq, s, v)
  <2>1. \A k \in DOMAIN st.lsq :
          \/ s[k] = st.lsq[k]
          \/ Waits(st.lsq[k]) /\ s[k] \in {UpgradedAs(st.lsq[k]), RefilledAs(st.lsq[k], r)}
    OBVIOUS
  <2>2. DOMAIN s = DOMAIN st.lsq /\ s = [k \in DOMAIN st.lsq |-> s[k]]  OBVIOUS
  <2> HIDE DEF s
  <2>4. ASSUME NEW k \in DOMAIN st.lsq
        PROVE  s[k] = st.lsq[k] \/ (Waits(st.lsq[k]) /\ AccessOK(s[k], v))
    <3> DEFINE a == st.lsq[k]
    <3>1. AccessOK(a, v)  BY <1>2 DEF Accesses_
    <3>2. CASE s[k] = a  BY <3>2
    <3>3. CASE Waits(a) /\ s[k] \in {UpgradedAs(a), RefilledAs(a, r)}
      <4>1. AccessOK(UpgradedAs(a), v) /\ AccessOK(RefilledAs(a, r), v)
        <5> HIDE DEF a
        <5>1. AccessOK(UpgradedAs(a), v)
          BY <3>1, <3>3 DEF AccessOK, UpgradedAs, LsqFields, Waits, Requests
        <5>2. AccessOK(RefilledAs(a, r), v)
          BY <3>1, <3>3 DEF AccessOK, RefilledAs, LsqFields, Waits
        <5>3. QED  BY <5>1, <5>2
      <4>2. QED  BY <3>3, <4>1
    <3>4. QED  BY <2>1, <3>2, <3>3
  <2>5. QED  BY <2>2, <2>4 DEF Updated
<1> HIDE DEF s
<1>4. QED  BY <1>1, <1>3, UpdatedGood

\* Another queue leaves the entries alone.
LEMMA WithLsqParts ==
  ASSUME NEW st, DOMAIN st = CpuFields, NEW s, NEW x, x = WithLsq(st, s)
  PROVE  x.missq = st.missq /\ x.cpuid = st.cpuid /\ DOMAIN x = CpuFields
BY DEF WithLsq, CpuFields

RdyAs(e, r) == [e EXCEPT !.state = "EXTRDY", !.ack = r.ack, !.cache_status = r.cache_status]

\* lsq_intervention: the answer of the data cache goes to the entry that
\* asked.
LEMMA InterventionGood ==
  ASSUME NEW st, NEW v, Good(st, v), NEW r, r.missqid \in Entries, r.ack \in Acks,
         NEW x, x = lsq_intervention(st, r)
  PROVE  Good(x, v)
<1> DEFINE i == r.missqid  e == st.missq[i]
           kept == r.way # None /\ st.dcache[r.way].status # "INVALID"
           New(a) == Reissue(a, IF a.op = "load" THEN "READ_SHD"
                                ELSE IF kept THEN "UPGRADE" ELSE "READ_EX")
           s == [k \in DOMAIN st.lsq |->
             IF Waits(st.lsq[k]) /\ st.lsq[k].blk = r.blk /\ (st.lsq[k].op = "store" \/ st.lsq[k].fetching)
             THEN New(st.lsq[k]) ELSE st.lsq[k]]
           told == WithLsq(st, s)
           y == [told EXCEPT !.missq[i] = RdyAs(@, r)]
           z == ack_received(told, i, DataL1(st.cpuid), r.cache_status)
<1>1. /\ External(e) => x = y
      /\ ~External(e) /\ e.state \in {"MODIFY_L1", "L2_MISS"} => x = z
      /\ ~External(e) /\ e.state \notin {"MODIFY_L1", "L2_MISS"} => x = told
  BY DEF lsq_intervention, Update, WithLsq, RdyAs
<1>2. Accesses_(st.lsq, v) /\ DOMAIN st = CpuFields  BY QueueOf
<1>3. Updated(st.lsq, s, v)
  <2> HIDE DEF kept
  <2>1. \A k \in DOMAIN st.lsq :
          \/ s[k] = st.lsq[k]
          \/ Waits(st.lsq[k]) /\ \E req \in Requests : s[k] = Reissue(st.lsq[k], req)
    BY DEF Requests
  <2>2. DOMAIN s = DOMAIN st.lsq /\ s = [k \in DOMAIN st.lsq |-> s[k]]  OBVIOUS
  <2> HIDE DEF s
  <2>4. ASSUME NEW k \in DOMAIN st.lsq
        PROVE  s[k] = st.lsq[k] \/ (Waits(st.lsq[k]) /\ AccessOK(s[k], v))
    <3> DEFINE a == st.lsq[k]
    <3>1. AccessOK(a, v)  BY <1>2 DEF Accesses_
    <3>2. CASE s[k] = a  BY <3>2
    <3>3. CASE Waits(a) /\ \E req \in Requests : s[k] = Reissue(a, req)
      <4>1. \A req \in Requests : AccessOK(Reissue(a, req), v)
        <5> HIDE DEF a
        <5>1. QED  BY <3>1, <3>3, ReissueOK
      <4>2. QED  BY <3>3, <4>1
    <3>4. QED  BY <2>1, <3>2, <3>3
  <2>5. QED  BY <2>2, <2>4 DEF Updated
<1> HIDE DEF s
<1>4. Good(told, v)  BY <1>3, UpdatedGood
<1>5. told.missq = st.missq /\ told.cpuid = st.cpuid /\ DOMAIN told = CpuFields
  BY <1>2, WithLsqParts
<1>6. EntryOK(st.cpuid, e, v) /\ DOMAIN st.missq = Entries  BY CoreOf
<1> HIDE DEF told
<1>7. CASE External(e)
  <2> DEFINE f == RdyAs(e, r)
  <2>1. y = WithEntry(told, i, f)  BY <1>5 DEF WithEntry
  <2>2. DOMAIN e = EntryFields  BY <1>6 DEF EntryOK
  <2>3. AnswersAs(e, f)  BY <2>2 DEF AnswersAs, RdyAs, EntryFields
  <2>4. x = y  BY <1>1, <1>7
  <2> HIDE DEF f, y
  <2>5. x = [told EXCEPT !.missq = [told.missq EXCEPT ![i] = f]]  BY <2>1, <2>4 DEF WithEntry
  <2>6. told.missq[i] = e  BY <1>5
  <2> HIDE DEF e, i
  <2>7. i \in Entries  BY DEF i
  <2>8. External(told.missq[i]) /\ AnswersAs(told.missq[i], f)  BY <1>7, <2>3, <2>6
  <2>9. Moved(told, x, v, {"MODIFY_L1"})
    BY ONLY <1>4, <2>5, <2>7, <2>8, AnswersGood
  <2>10. QED  BY <2>9 DEF Moved
<1>8. CASE ~External(e) /\ e.state \in {"MODIFY_L1", "L2_MISS"}
  <2> DEFINE l1 == DataL1(st.cpuid)  status == r.cache_status
  <2>1. Round(told.missq[i])  BY <1>5, <1>8 DEF Round
  <2>2. l1[1] = told.cpuid  BY <1>5 DEF DataL1
  <2>3. x = ack_received(told, i, l1, status)  BY <1>1, <1>8
  <2>4. i \in Entries  OBVIOUS
  <2> HIDE DEF l1, status, i
  <2>5. QED  BY ONLY <1>4, <2>1, <2>2, <2>3, <2>4, OwnAck
<1>9. CASE ~External(e) /\ e.state \notin {"MODIFY_L1", "L2_MISS"}
  BY <1>1, <1>4, <1>9
<1>10. QED  BY <1>7, <1>8, <1>9

ReadAs(a, rdy) == [[a EXCEPT !.state = "READCACHE", !.fetching = FALSE] EXCEPT !.rdy = rdy]
ForwardedAs(a) == [a EXCEPT !.rdy = TRUE]

\* A compared access reads the cache or waits for a miss.
LEMMA ReadOK ==
  ASSUME NEW v, NEW a, AccessOK(a, v), a.state = "DTAGCMP", NEW rdy, a.way # None => On(rdy),
         NEW b, b = ReadAs(a, On(rdy))
  PROVE  AccessOK(b, v)
<1>1. /\ DOMAIN b = LsqFields /\ b.blk = a.blk /\ b.req = a.req /\ b.state = "READCACHE"
      /\ b.rdy = On(rdy) /\ b.way = a.way /\ b.miss = a.miss
  BY DEF AccessOK, LsqFields, ReadAs
<1>2. a.way # None => b.rdy  BY <1>1
<1>3. QED  BY <1>1, <1>2 DEF AccessOK

\* A load takes the value of an older store.
LEMMA ForwardedOK ==
  ASSUME NEW v, NEW a, AccessOK(a, v)
  PROVE  AccessOK(ForwardedAs(a), v)
BY DEF AccessOK, ForwardedAs, LsqFields

\* lsq_dtagcmp keeps the invariant.
LEMMA DtagcmpGood ==
  ASSUME NEW st, NEW v, Good(st, v), NEW k \in DOMAIN st.lsq, st.lsq[k].state = "DTAGCMP",
         NEW x, x = lsq_dtagcmp(st, k)
  PROVE  Good(x, v)
<1> DEFINE a == [st.lsq[k] EXCEPT !.state = "READCACHE", !.fetching = FALSE]
           q == [st.lsq EXCEPT ![k] = a]
           ready == a.way # None \/ \E j \in 1 .. k - 1 : Forwards(q[j], a)
           s == [i \in DOMAIN q |->
                   IF i = k THEN [a EXCEPT !.rdy = a.way # None
                                     \/ \E j \in 1 .. k - 1 : Forwards(q[j], a)]
                   ELSE IF i > k /\ Waits(q[i]) /\ Forwards(a, q[i])
                   THEN [q[i] EXCEPT !.rdy = TRUE] ELSE q[i]]
<1>1. x = WithLsq(st, s)  BY DEF lsq_dtagcmp, WithLsq
<1>2. Accesses_(st.lsq, v)  BY QueueOf
<1>3. DOMAIN q = DOMAIN st.lsq /\ \A i \in DOMAIN st.lsq : i # k => q[i] = st.lsq[i]
  OBVIOUS
<1>4. s[k] = ReadAs(st.lsq[k], ready)  BY <1>3 DEF ReadAs
<1>5. a.way = st.lsq[k].way
  <2>1. DOMAIN st.lsq[k] = LsqFields  BY <1>2 DEF Accesses_, AccessOK
  <2>2. QED  BY <2>1 DEF LsqFields
<1> HIDE DEF a
<1>6. \A i \in DOMAIN st.lsq : i # k => s[i] = st.lsq[i] \/ s[i] = ForwardedAs(st.lsq[i])
  <2> HIDE DEF q
  <2>1. QED  BY <1>3 DEF ForwardedAs
<1>7. DOMAIN s = DOMAIN st.lsq /\ s = [i \in DOMAIN st.lsq |-> s[i]]
  <2> HIDE DEF q
  <2>1. QED  BY <1>3
<1>8. st.lsq[k].way # None => ready  BY <1>5
<1> HIDE DEF s, ready, q
<1>9. AccessOK(s[k], v)
  <2> DEFINE b == st.lsq[k]
  <2>1. AccessOK(b, v) /\ b.state = "DTAGCMP"  BY <1>2 DEF Accesses_
  <2>2. s[k] = ReadAs(b, On(ready))  BY <1>4 DEF On
  <2>3. b.way # None => On(ready)  BY <1>8 DEF On
  <2> HIDE DEF b
  <2>4. QED  BY ONLY <2>1, <2>2, <2>3, ReadOK
<1>10. ASSUME NEW i \in DOMAIN st.lsq PROVE AccessOK(s[i], v)
  <2> DEFINE b == st.lsq[i]
  <2>1. AccessOK(b, v)  BY <1>2 DEF Accesses_
  <2>2. AccessOK(ForwardedAs(b), v)
    <3> HIDE DEF b
    <3>1. QED  BY <2>1, ForwardedOK
  <2>3. CASE i = k  BY <1>9, <2>3
  <2>4. CASE i # k  BY <1>6, <2>1, <2>2, <2>4
  <2>5. QED  BY <2>3, <2>4
<1>11. Accesses_(s, v)  BY <1>2, <1>7, <1>10, MapOK
<1>12. QED  BY <1>1, <1>11, WithLsqGood

NoneCompared(st) == [st EXCEPT !.dtagcmp_refill = NoRefill]

\* The empty packet.
LEMMA NonePassed == PassedOK(NoRefill) /\ NoRefill.kind = "none"
BY DEF PassedOK, NoRefill, RefillFields

\* No packet is left in the tag comparison.
LEMMA NoneComparedGood ==
  ASSUME NEW st, NEW v, Good(st, v), NEW x, x = NoneCompared(st)
  PROVE  Good(x, v) /\ x.missq = st.missq
<1>0. DOMAIN st = CpuFields  BY DEF Good
<1>1. /\ DOMAIN x = CpuFields /\ MPart(x) = MPart(st) /\ WPart(x) = WPart(st)
      /\ x.lsq = st.lsq /\ x.todo = st.todo /\ x.text = st.text /\ x.irepbuf = st.irepbuf
      /\ x.lsq_refill = st.lsq_refill /\ x.dcache_refill = st.dcache_refill
      /\ x.dtagcmp_refill = NoRefill
  BY <1>0 DEF NoneCompared, CpuFields, MPart, WPart
<1>2. L(x, v)
  <2>1. L(st, v)  BY DEF Good
  <2> HIDE DEF NoneCompared
  <2>2. QED  BY <1>1, <2>1, NonePassed DEF L, LsqOK
<1>3. x.missq = st.missq  BY <1>1 DEF MPart
<1>4. QED  BY <1>1, <1>2, <1>3, SameM, SameW DEF Good

\* lsq_from_dtagcmp keeps the invariant.
LEMMA FromDtagcmpGood ==
  ASSUME NEW st, NEW v, Good(st, v), NEW x, x = lsq_from_dtagcmp(st)
  PROVE  Good(x, v)
<1> DEFINE r == st.dtagcmp_refill  s == NoneCompared(st)
           I == {k \in DOMAIN st.lsq : st.lsq[k].state = "DTAGCMP"}
<1>1. /\ r.kind = "replace" => x = lsq_replaced(s)
      /\ r.kind = "intervention" => x = lsq_intervention(s, r)
      /\ r.kind = "refill" => x = lsq_refilled(s, r)
      /\ r.kind = "none" => IF I = {} THEN x = st ELSE x = lsq_dtagcmp(st, Min(I))
  BY DEF lsq_from_dtagcmp, NoneCompared, Indices
<1>2. PassedOK(r) /\ (r.kind = "intervention" => r.ack \in Acks)  BY DEF Good, L, LsqOK
<1>3. Good(s, v)  BY NoneComparedGood
<1>4. DOMAIN st.lsq = 1 .. Len(st.lsq) /\ Len(st.lsq) \in Nat  BY QueueOf
<1>5. CASE r.kind = "replace"
  <2> HIDE DEF s, r
  <2>1. QED  BY <1>1, <1>3, <1>5, ReplacedGood
<1>6. CASE r.kind = "intervention"
  <2>1. r.missqid \in Entries /\ r.ack \in Acks  BY <1>2, <1>6 DEF PassedOK
  <2> HIDE DEF s, r
  <2>2. QED  BY <1>1, <1>3, <1>6, <2>1, InterventionGood
<1>7. CASE r.kind = "refill"
  <2> HIDE DEF s, r
  <2>1. QED  BY <1>1, <1>3, <1>7, RefilledGood
<1>8. CASE r.kind = "none"
  <2>1. CASE I = {}  BY <1>1, <1>8, <2>1
  <2>2. CASE I # {}
    <3>1. I \in SUBSET Nat  BY <1>4
    <3>2. Min(I) \in I
      <4> HIDE DEF I
      <4>1. QED  BY <2>2, <3>1, LeastIn
    <3>3. Min(I) \in DOMAIN st.lsq /\ st.lsq[Min(I)].state = "DTAGCMP"  BY <3>2
    <3>4. x = lsq_dtagcmp(st, Min(I))  BY <1>1, <1>8, <2>2
    <3> HIDE DEF I
    <3>5. QED  BY <3>3, <3>4, DtagcmpGood
  <2>3. QED  BY <2>1, <2>2
<1>9. r.kind \in {"none", "refill", "replace", "intervention"}  BY <1>2 DEF PassedOK
<1>10. QED  BY <1>5, <1>6, <1>7, <1>8, <1>9

CommittedAs(a) == [a EXCEPT !.state = "DELAY1"]

\* lsq_commit lets a load go or a store be written.
LEMMA CommitGood ==
  ASSUME NEW st, NEW v, Good(st, v), NEW x, x = lsq_commit(st)
  PROVE  Good(x, v)
<1> DEFINE left == Without(st.lsq, {a \in Range(st.lsq) : a.state = "DELAY1"})
           s == [k \in DOMAIN left |->
             IF left[k].state = "WRITTEN" THEN CommittedAs(left[k]) ELSE left[k]]
           d == IF st.replace_delay > 0 THEN st.replace_delay - 1 ELSE 0
<1>1. x = [st EXCEPT !.lsq = s, !.replace_delay = d]  BY DEF lsq_commit, CommittedAs
<1>2. Accesses_(st.lsq, v) /\ DOMAIN st = CpuFields  BY QueueOf
<1>3. Part(left, st.lsq)  BY <1>2, WithoutPart DEF Accesses_
<1> HIDE DEF left, d
<1>4. Accesses_(left, v)  BY <1>2, <1>3, PartOK
<1>5. ASSUME NEW k \in DOMAIN left PROVE AccessOK(s[k], v)
  <2> DEFINE a == left[k]
  <2>1. AccessOK(a, v)  BY <1>4 DEF Accesses_
  <2>2. s[k] = a \/ s[k] = CommittedAs(a)  OBVIOUS
  <2> HIDE DEF a, s
  <2>3. AccessOK(CommittedAs(a), v)  BY <2>1 DEF AccessOK, CommittedAs, LsqFields
  <2>4. CASE s[k] = a  BY <2>1, <2>4
  <2>5. CASE s[k] = CommittedAs(a)  BY <2>3, <2>5
  <2>6. QED  BY <2>2, <2>4, <2>5
<1>6. DOMAIN s = DOMAIN left /\ s = [k \in DOMAIN left |-> s[k]]  OBVIOUS
<1> HIDE DEF s
<1>7. Accesses_(s, v)  BY <1>4, <1>5, <1>6, MapOK
<1>8. /\ DOMAIN x = CpuFields /\ MPart(x) = MPart(st) /\ WPart(x) = WPart(st)
      /\ x.todo = st.todo /\ x.text = st.text /\ x.irepbuf = st.irepbuf
      /\ x.dtagcmp_refill = st.dtagcmp_refill /\ x.lsq = s
  BY <1>1, <1>2 DEF CpuFields, MPart, WPart
<1>9. LsqStep(st, x, v)  BY <1>7, <1>8 DEF LsqStep, Accesses_
<1>10. QED  BY <1>9, LsqGood

\* The packet in the dcache stage has done its part.
Passing(st, y, v) ==
  /\ DOMAIN y = CpuFields /\ MPart(y) = MPart(st)
  /\ y.lsq = st.lsq /\ y.todo = st.todo /\ y.text = st.text /\ y.irepbuf = st.irepbuf
  /\ y.lsq_refill = st.lsq_refill
  /\ PassedOK(y.dcache_refill)
  /\ y.dcache_refill.kind = "intervention" => y.dcache_refill.ack \in Acks
  /\ SlotsIn(y.cpuid, y.wtbkq, y.wtbkq_num, y.wtbkq_replacei, Held(st.lsq_refill.kind, "none"))
Advanced(y) == [y EXCEPT !.dtagcmp_refill = y.dcache_refill, !.dcache_refill = NoRefill]
AtRest(st, x) == x.dcache_refill.kind = "none" /\ x.lsq_refill = st.lsq_refill

\* The packet in the cache stage goes on to the tag comparison.
LEMMA AdvancedGood ==
  ASSUME NEW st, NEW v, Good(st, v), NEW y, Passing(st, y, v), NEW x, x = Advanced(y)
  PROVE  Good(x, v) /\ AtRest(st, x)
<1>0. DOMAIN y = CpuFields  BY DEF Passing
<1>1. /\ DOMAIN x = CpuFields /\ MPart(x) = MPart(y) /\ x.cpuid = y.cpuid
      /\ x.wtbkq = y.wtbkq /\ x.wtbkq_num = y.wtbkq_num /\ x.wtbkq_replacei = y.wtbkq_replacei
      /\ x.lsq = y.lsq /\ x.todo = y.todo /\ x.text = y.text /\ x.irepbuf = y.irepbuf
      /\ x.lsq_refill = y.lsq_refill /\ x.dcache_refill = NoRefill
      /\ x.dtagcmp_refill = y.dcache_refill
  BY <1>0 DEF Advanced, CpuFields, MPart
<1> HIDE DEF Advanced
<1>2. L(x, v)
  <2>1. L(st, v)  BY DEF Good
  <2>2. QED  BY <1>1, <2>1, NonePassed DEF L, LsqOK, Passing
<1>3. W(x)
  <2>1. x.lsq_refill.kind = st.lsq_refill.kind /\ x.dcache_refill.kind = "none"
    BY <1>1, NonePassed DEF Passing
  <2>2. QED  BY <1>1, <2>1 DEF W, SlotsOK, Passing
<1>4. M(x, v)
  <2>1. MPart(x) = MPart(st)  BY <1>1 DEF Passing
  <2>2. QED  BY <2>1, SameM DEF Good
<1>5. QED  BY <1>1, <1>2, <1>3, <1>4, NonePassed DEF Good, AtRest, Passing

\* A packet that has been given its way.
LEMMA WayPassed ==
  ASSUME NEW r, PassedOK(r), NEW w, NEW p, p = [r EXCEPT !.way = w]
  PROVE  PassedOK(p) /\ p.kind = r.kind /\ p.ack = r.ack
BY DEF PassedOK, RefillFields

\* The packet is in the dcache stage, and has no slot.
LEMMA Unreserved ==
  ASSUME NEW st, NEW v, Good(st, v), st.dcache_refill.kind # "replace"
  PROVE  SlotsIn(st.cpuid, st.wtbkq, st.wtbkq_num, st.wtbkq_replacei,
                 Held(st.lsq_refill.kind, "none"))
<1>1. W(st)  BY DEF Good
<1>2. Held(st.lsq_refill.kind, st.dcache_refill.kind) = Held(st.lsq_refill.kind, "none")
  BY DEF Held
<1>3. QED  BY <1>1, <1>2 DEF W, SlotsOK

\* A refill packet passes the cache stage (refill).
LEMMA RefillPasses ==
  ASSUME NEW st, NEW v, Good(st, v), st.dcache_refill.kind = "refill",
         NEW y, y = refill(st, st.dcache_refill)
  PROVE  Passing(st, y, v)
<1> DEFINE r == st.dcache_refill  w == st.refill_blk
           p == [r EXCEPT !.way = w]
           marked == [st EXCEPT !.refill_bitmap = @ \cup {r.word}, !.dcache_refill.way = w]
           done == [marked EXCEPT !.refill_blk = None,
                      !.dcache[w].status = IF @ = "DIRTY_INVALID" THEN Dirtied(NewStatus(r))
                                           ELSE NewStatus(r)]
<1>0. DOMAIN st = CpuFields /\ PassedOK(r)  BY DEF Good, L, LsqOK
<1>1. y = marked \/ y = done  BY DEF refill
<1>2. /\ DOMAIN marked = CpuFields /\ MPart(marked) = MPart(st)
      /\ marked.lsq = st.lsq /\ marked.todo = st.todo /\ marked.text = st.text
      /\ marked.irepbuf = st.irepbuf /\ marked.lsq_refill = st.lsq_refill
      /\ marked.dcache_refill = p /\ marked.cpuid = st.cpuid
      /\ marked.wtbkq = st.wtbkq /\ marked.wtbkq_num = st.wtbkq_num
      /\ marked.wtbkq_replacei = st.wtbkq_replacei
  BY <1>0 DEF CpuFields, MPart
<1> HIDE DEF marked
<1>3. /\ DOMAIN y = CpuFields /\ MPart(y) = MPart(marked)
      /\ y.lsq = marked.lsq /\ y.todo = marked.todo /\ y.text = marked.text
      /\ y.irepbuf = marked.irepbuf /\ y.lsq_refill = marked.lsq_refill
      /\ y.dcache_refill = marked.dcache_refill /\ y.cpuid = marked.cpuid
      /\ y.wtbkq = marked.wtbkq /\ y.wtbkq_num = marked.wtbkq_num
      /\ y.wtbkq_replacei = marked.wtbkq_replacei
  <2>1. CASE y = marked  BY <1>2, <2>1
  <2>2. CASE y = done  BY <1>2, <2>2 DEF CpuFields, MPart
  <2>3. QED  BY <1>1, <2>1, <2>2
<1>4. PassedOK(p) /\ p.kind = "refill"
  <2> HIDE DEF r, w
  <2>1. PassedOK(p) /\ p.kind = r.kind  BY <1>0, WayPassed
  <2>2. QED  BY <2>1 DEF r
<1>5. SlotsIn(st.cpuid, st.wtbkq, st.wtbkq_num, st.wtbkq_replacei,
              Held(st.lsq_refill.kind, "none"))
  BY Unreserved
<1> HIDE DEF p
<1>6. QED  BY <1>2, <1>3, <1>4, <1>5 DEF Passing

\* An intervention passes the cache stage (intervention).
LEMMA InterventionPasses ==
  ASSUME NEW st, NEW v, Good(st, v), st.dcache_refill.kind = "intervention",
         NEW y, y = intervention(st, st.dcache_refill)
  PROVE  Passing(st, y, v)
<1> DEFINE r == st.dcache_refill
           hit == L1Hit(st, r.blk, Valid \cup {"DIRTY_INVALID"})
           w == CHOOSE u \in hit : TRUE
           status == IF hit = {} THEN "INVALID" ELSE st.dcache[w].status
           way == IF hit = {} THEN None ELSE w
           ack == IF status = "MODIFIED" /\ r.req # "INVALIDATE" THEN "ACK_DATA" ELSE "ACK"
           answer == [st EXCEPT !.dcache_refill.way = way, !.dcache_refill.cache_status = status,
                                !.dcache_refill.ack = ack, !.replace_delay = 2]
           z == [answer EXCEPT !.dcache[w].status = Downgraded(r.req, @)]
           b == r.req = "INVALIDATE" => status \notin Owning
           p == [r EXCEPT !.way = way, !.cache_status = status, !.ack = ack]
           told == IF hit = {} THEN answer ELSE z
<1>0. DOMAIN st = CpuFields /\ PassedOK(r)  BY DEF Good, L, LsqOK
<1>1. y = Asserted("invalidate", b, told)  BY DEF intervention
<1>2. ack \in Acks  BY DEF Acks
<1> HIDE DEF hit, w, status, way, ack, b
<1>3. /\ DOMAIN answer = CpuFields /\ MPart(answer) = MPart(st)
      /\ answer.lsq = st.lsq /\ answer.todo = st.todo /\ answer.text = st.text
      /\ answer.irepbuf = st.irepbuf /\ answer.lsq_refill = st.lsq_refill
      /\ answer.dcache_refill = p /\ answer.cpuid = st.cpuid
      /\ answer.wtbkq = st.wtbkq /\ answer.wtbkq_num = st.wtbkq_num
      /\ answer.wtbkq_replacei = st.wtbkq_replacei
  BY <1>0 DEF CpuFields, MPart
<1> HIDE DEF answer
<1>4. /\ DOMAIN told = CpuFields /\ MPart(told) = MPart(answer)
      /\ told.lsq = answer.lsq /\ told.todo = answer.todo /\ told.text = answer.text
      /\ told.irepbuf = answer.irepbuf /\ told.lsq_refill = answer.lsq_refill
      /\ told.dcache_refill = answer.dcache_refill /\ told.cpuid = answer.cpuid
      /\ told.wtbkq = answer.wtbkq /\ told.wtbkq_num = answer.wtbkq_num
      /\ told.wtbkq_replacei = answer.wtbkq_replacei
  <2>1. CASE told = answer  BY <1>3, <2>1
  <2>2. CASE told = z  BY <1>3, <2>2 DEF CpuFields, MPart
  <2>3. QED  BY <2>1, <2>2
<1> HIDE DEF told
<1>5. DOMAIN y = CpuFields /\ MPart(y) = MPart(told) /\ \A f \in CpuFields \ {"failed"} : y[f] = told[f]
  <2> DEFINE name == "invalidate"
  <2>1. y = Asserted(name, b, told)  BY <1>1
  <2> HIDE DEF name
  <2>2. DOMAIN told = CpuFields  BY <1>3, <1>4
  <2>3. QED  BY <2>1, <2>2, Asserts
<1>6. /\ y.lsq = told.lsq /\ y.todo = told.todo /\ y.text = told.text
      /\ y.irepbuf = told.irepbuf /\ y.lsq_refill = told.lsq_refill
      /\ y.dcache_refill = told.dcache_refill /\ y.cpuid = told.cpuid
      /\ y.wtbkq = told.wtbkq /\ y.wtbkq_num = told.wtbkq_num
      /\ y.wtbkq_replacei = told.wtbkq_replacei
  BY <1>5 DEF CpuFields
<1>7. PassedOK(p) /\ p.ack \in Acks
  BY <1>0, <1>2 DEF PassedOK, RefillFields
<1>8. SlotsIn(st.cpuid, st.wtbkq, st.wtbkq_num, st.wtbkq_replacei,
              Held(st.lsq_refill.kind, "none"))
  BY Unreserved
<1> HIDE DEF p, r
<1>9. QED  BY <1>3, <1>4, <1>5, <1>6, <1>7, <1>8 DEF Passing

\* The victim of the packet in the dcache stage goes to its slot, or frees it.
Evicted(st, repl) ==
  IF repl.status = "INVALID" THEN [st EXCEPT !.wtbkq_num = @ - 1, !.replace_blk = NoBlock]
  ELSE [wtbkq_enter(st, DataL1(st.cpuid), WritebackKind(repl.status), repl.tag, repl.status, FALSE)
          EXCEPT !.replace_blk = repl.tag]

\* A victim that leaves takes the slot counted for it, or gives it back.
LEMMA EvictedShape ==
  ASSUME NEW st, NEW v, Good(st, v), st.dcache_refill.kind = "replace", NEW repl,
         NEW y, y = Evicted(st, repl)
  PROVE  /\ DOMAIN y = CpuFields /\ MPart(y) = MPart(st) /\ LPart(y) = LPart(st)
         /\ SlotsIn(y.cpuid, y.wtbkq, y.wtbkq_num, y.wtbkq_replacei,
                    Held(st.lsq_refill.kind, "none"))
<1> DEFINE h == Held(st.lsq_refill.kind, "replace")  g == Held(st.lsq_refill.kind, "none")
<1>0. DOMAIN st = CpuFields /\ W(st)  BY DEF Good
<1>1. h \in Nat /\ h > 0 /\ h - 1 = g  BY DEF Held
<1>2. SlotsIn(st.cpuid, st.wtbkq, st.wtbkq_num, st.wtbkq_replacei, h)
  BY <1>0 DEF W, SlotsOK
<1> HIDE DEF h, g
<1>3. CASE repl.status = "INVALID"
  <2>1. /\ DOMAIN y = CpuFields /\ MPart(y) = MPart(st) /\ LPart(y) = LPart(st)
        /\ y.cpuid = st.cpuid /\ y.wtbkq = st.wtbkq /\ y.wtbkq_replacei = st.wtbkq_replacei
        /\ y.wtbkq_num = st.wtbkq_num - 1
    BY <1>0, <1>3 DEF Evicted, CpuFields, MPart, LPart
  <2>2. SlotsIn(st.cpuid, st.wtbkq, st.wtbkq_num - 1, st.wtbkq_replacei, h - 1)
    BY <1>1, <1>2, SlotReserved
  <2>3. QED  BY <1>1, <2>1, <2>2 DEF g
<1>4. CASE repl.status # "INVALID"
  <2> DEFINE l1 == DataL1(st.cpuid)  req == WritebackKind(repl.status)  blk == repl.tag
             status == repl.status  no == FALSE
             z == wtbkq_enter(st, l1, req, blk, status, no)
  <2>1. y = [z EXCEPT !.replace_blk = blk]  BY <1>4 DEF Evicted
  <2>2. req \in Writebacks  BY DEF WritebackKind, Writebacks
  <2>3. no = FALSE  OBVIOUS
  <2> HIDE DEF l1, req, blk, status, no
  <2>4. SlotOK(st.cpuid, NewSlot(l1, req, blk, status, no))
    <3>1. SlotOK(st.cpuid, NewSlot(l1, req, blk, status, FALSE))  BY <2>2, NewSlotOK
    <3>2. QED  BY <2>3, <3>1
  <2>5. /\ DOMAIN z = CpuFields /\ MPart(z) = MPart(st) /\ LPart(z) = LPart(st)
        /\ SlotsIn(z.cpuid, z.wtbkq, z.wtbkq_num, z.wtbkq_replacei, h - 1)
    BY ONLY <1>0, <1>1, <1>2, <2>4, Enters
  <2> HIDE DEF z
  <2>6. /\ DOMAIN y = CpuFields /\ MPart(y) = MPart(z) /\ LPart(y) = LPart(z)
        /\ y.cpuid = z.cpuid /\ y.wtbkq = z.wtbkq /\ y.wtbkq_replacei = z.wtbkq_replacei
        /\ y.wtbkq_num = z.wtbkq_num
    BY <2>1, <2>5 DEF CpuFields, MPart, LPart
  <2>7. QED  BY <1>1, <2>5, <2>6 DEF g
<1>5. QED  BY <1>3, <1>4

\* A replacement passes the cache stage (replace_block).
LEMMA ReplacePasses ==
  ASSUME NEW st, NEW v, Good(st, v), st.dcache_refill.kind = "replace", NEW way,
         NEW y, y = replace_block(st, st.dcache_refill, way)
  PROVE  Passing(st, y, v)
<1> DEFINE r == st.dcache_refill  w == Victim(st.dcache, r.blk, way)  repl == st.dcache[w]
           e == Evicted(st, repl)  b == repl.status # "DIRTY_INVALID"
           p == [r EXCEPT !.way = w]
           new == NewStatus(r)  slot == [tag |-> r.blk, status |-> "INVALID"]
           z == [e EXCEPT !.dcache[w] = slot, !.refill_blk = w, !.refill_bitmap = {},
                          !.refill_new_status = new, !.dcache_refill.way = w, !.replace_delay = 2]
<1>0. DOMAIN st = CpuFields /\ PassedOK(r)  BY DEF Good, L, LsqOK
<1>1. y = Asserted("replace_block", b, z)  BY DEF replace_block, Evicted
<1> HIDE DEF w, repl
<1>2. /\ DOMAIN e = CpuFields /\ MPart(e) = MPart(st) /\ LPart(e) = LPart(st)
      /\ SlotsIn(e.cpuid, e.wtbkq, e.wtbkq_num, e.wtbkq_replacei,
                 Held(st.lsq_refill.kind, "none"))
  BY EvictedShape
<1> HIDE DEF e, b, new, slot
<1>3. e.dcache_refill = r  BY <1>2 DEF LPart
<1>4. /\ DOMAIN z = CpuFields /\ MPart(z) = MPart(e)
      /\ z.lsq = e.lsq /\ z.todo = e.todo /\ z.text = e.text
      /\ z.irepbuf = e.irepbuf /\ z.lsq_refill = e.lsq_refill
      /\ z.dcache_refill = p /\ z.cpuid = e.cpuid
      /\ z.wtbkq = e.wtbkq /\ z.wtbkq_num = e.wtbkq_num
      /\ z.wtbkq_replacei = e.wtbkq_replacei
  BY <1>2, <1>3 DEF CpuFields, MPart
<1> HIDE DEF z
<1>5. DOMAIN y = CpuFields /\ MPart(y) = MPart(z) /\ \A f \in CpuFields \ {"failed"} : y[f] = z[f]
  <2> DEFINE name == "replace_block"
  <2>1. y = Asserted(name, b, z)  BY <1>1
  <2> HIDE DEF name
  <2>2. DOMAIN z = CpuFields  BY <1>4
  <2>3. QED  BY <2>1, <2>2, Asserts
<1>6. /\ y.lsq = z.lsq /\ y.todo = z.todo /\ y.text = z.text
      /\ y.irepbuf = z.irepbuf /\ y.lsq_refill = z.lsq_refill
      /\ y.dcache_refill = z.dcache_refill /\ y.cpuid = z.cpuid
      /\ y.wtbkq = z.wtbkq /\ y.wtbkq_num = z.wtbkq_num
      /\ y.wtbkq_replacei = z.wtbkq_replacei
  BY <1>5 DEF CpuFields
<1>7. PassedOK(p) /\ p.kind = "replace"
  <2>1. r.kind = "replace"  OBVIOUS
  <2> HIDE DEF r
  <2>2. PassedOK(p) /\ p.kind = r.kind  BY <1>0, WayPassed
  <2>3. QED  BY <2>1, <2>2
<1> HIDE DEF p, r
<1>8. e.lsq = st.lsq /\ e.todo = st.todo /\ e.text = st.text /\ e.irepbuf = st.irepbuf
      /\ e.lsq_refill = st.lsq_refill
  BY <1>2 DEF LPart
<1>9. QED  BY <1>2, <1>4, <1>5, <1>6, <1>7, <1>8 DEF Passing

\* What a probe finds: a request, or the way that has the block.
Finding(req, way) == req \in Requests \/ (req = "NO_REQ" /\ way \in L1Ways)
ProbedAs(a, req, way) == [a EXCEPT !.req = req, !.way = way]
Looked(st, k, req, way) == [st EXCEPT !.lsq[k].req = req, !.lsq[k].way = way]
LookedDirty(st, k, req, way) == [Looked(st, k, req, way) EXCEPT !.dcache[way].status = "MODIFIED"]
LooksUp(st, y, k, req, way) ==
  Finding(req, way) /\ (y = Looked(st, k, req, way) \/ y = LookedDirty(st, k, req, way))

\* A lookup finds a way or asks for a request.
LEMMA ProbeFinds ==
  ASSUME NEW st, NEW k, NEW y, y = cache_probe(st, k)
  PROVE  \E req, way : LooksUp(st, y, k, req, way)
<1> DEFINE a == st.lsq[k]  hit == L1Hit(st, a.blk, Valid)
           w == CHOOSE u \in hit : TRUE
           store == a.op = "store"
           miss == IF store THEN "READ_EX" ELSE "READ_SHD"
<1>1. \/ hit # {} /\ \/ y = Looked(st, k, "UPGRADE", None)
                     \/ y = Looked(st, k, "NO_REQ", w)
                     \/ y = LookedDirty(st, k, "NO_REQ", w)
      \/ y = Looked(st, k, "UPGRADE", None)
      \/ y = Looked(st, k, miss, st.refill_blk)
      \/ y = Looked(st, k, miss, None)
  BY DEF cache_probe, Looked, LookedDirty
<1>2. hit # {} => w \in L1Ways  BY DEF L1Hit
<1>3. miss \in Requests /\ "UPGRADE" \in Requests  BY DEF Requests
<1> HIDE DEF hit, w, miss
<1>4. CASE hit # {} /\ (y = Looked(st, k, "NO_REQ", w) \/ y = LookedDirty(st, k, "NO_REQ", w))
  <2>1. Finding("NO_REQ", w)  BY <1>2, <1>4 DEF Finding
  <2>2. QED  BY <1>4, <2>1 DEF LooksUp
<1>5. CASE y = Looked(st, k, "UPGRADE", None)
  <2>1. Finding("UPGRADE", None)  BY <1>3 DEF Finding
  <2>2. QED  BY <1>5, <2>1 DEF LooksUp
<1>6. CASE y = Looked(st, k, miss, st.refill_blk)
  <2>1. Finding(miss, st.refill_blk)  BY <1>3 DEF Finding
  <2>2. QED  BY <1>6, <2>1 DEF LooksUp
<1>7. CASE y = Looked(st, k, miss, None)
  <2>1. Finding(miss, None)  BY <1>3 DEF Finding
  <2>2. QED  BY <1>7, <2>1 DEF LooksUp
<1>8. QED  BY <1>1, <1>4, <1>5, <1>6, <1>7

Compares(y, k) == [y EXCEPT !.lsq[k].state = "DTAGCMP"]
ComparesAs(a, req, way) == [ProbedAs(a, req, way) EXCEPT !.state = "DTAGCMP"]

\* A looked up access goes on to the tag comparison.
LEMMA ComparesOK ==
  ASSUME NEW v, NEW a, AccessOK(a, v), a.state = "DCACHE", NEW req, NEW way, Finding(req, way),
         NEW b, b = ComparesAs(a, req, way)
  PROVE  AccessOK(b, v)
<1>1. way \in L1Ways => way # None  BY SizesAssumption DEF L1Ways, None
<1>2. /\ DOMAIN b = LsqFields /\ b.blk = a.blk /\ b.req = req /\ b.way = way
      /\ b.state = "DTAGCMP" /\ b.miss = a.miss
  BY DEF AccessOK, LsqFields, ComparesAs, ProbedAs
<1>3. req \in Requests => req # "NO_REQ"  BY DEF Requests
<1>4. QED  BY <1>1, <1>2, <1>3 DEF AccessOK, Finding

\* The same for the queue.
LEMMA ProbedGood ==
  ASSUME NEW st, NEW v, Good(st, v), NEW k \in DOMAIN st.lsq, st.lsq[k].state = "DCACHE",
         NEW req, NEW way, NEW y, LooksUp(st, y, k, req, way),
         NEW x, x = Compares(y, k)
  PROVE  Good(x, v) /\ x.dcache_refill = st.dcache_refill /\ x.lsq_refill = st.lsq_refill
<1> DEFINE a == st.lsq[k]  b == ComparesAs(a, req, way)
           z == Looked(st, k, req, way)
<1>0. DOMAIN st = CpuFields /\ Accesses_(st.lsq, v)  BY QueueOf
<1>1. /\ DOMAIN z = CpuFields /\ MPart(z) = MPart(st) /\ WPart(z) = WPart(st)
      /\ z.todo = st.todo /\ z.text = st.text /\ z.irepbuf = st.irepbuf
      /\ z.dtagcmp_refill = st.dtagcmp_refill
      /\ z.dcache_refill = st.dcache_refill /\ z.lsq_refill = st.lsq_refill
      /\ z.lsq = [st.lsq EXCEPT ![k] = ProbedAs(a, req, way)]
  BY <1>0 DEF Looked, CpuFields, MPart, WPart, ProbedAs
<1>2. y = z \/ y = [z EXCEPT !.dcache[way].status = "MODIFIED"]  BY DEF LooksUp, LookedDirty
<1> HIDE DEF z
<1>3. /\ DOMAIN y = CpuFields /\ MPart(y) = MPart(z) /\ WPart(y) = WPart(z)
      /\ y.todo = z.todo /\ y.text = z.text /\ y.irepbuf = z.irepbuf
      /\ y.dtagcmp_refill = z.dtagcmp_refill /\ y.lsq = z.lsq
      /\ y.dcache_refill = z.dcache_refill /\ y.lsq_refill = z.lsq_refill
  <2>1. CASE y = z  BY <1>1, <2>1
  <2>2. CASE y = [z EXCEPT !.dcache[way].status = "MODIFIED"]
    BY <1>1, <2>2 DEF CpuFields, MPart, WPart
  <2>3. QED  BY <1>2, <2>1, <2>2
<1>4. /\ DOMAIN x = CpuFields /\ MPart(x) = MPart(y) /\ WPart(x) = WPart(y)
      /\ x.todo = y.todo /\ x.text = y.text /\ x.irepbuf = y.irepbuf
      /\ x.dtagcmp_refill = y.dtagcmp_refill
      /\ x.dcache_refill = y.dcache_refill /\ x.lsq_refill = y.lsq_refill
      /\ x.lsq = [y.lsq EXCEPT ![k] = [@ EXCEPT !.state = "DTAGCMP"]]
  BY <1>3 DEF Compares, CpuFields, MPart, WPart
<1>5. x.lsq = [st.lsq EXCEPT ![k] = b]
  <2> DEFINE c == ProbedAs(a, req, way)
  <2>1. b = [c EXCEPT !.state = "DTAGCMP"]  BY DEF ComparesAs
  <2>2. y.lsq = [st.lsq EXCEPT ![k] = c]  BY <1>1, <1>3
  <2> HIDE DEF b, c
  <2>3. y.lsq[k] = c /\ x.lsq = [y.lsq EXCEPT ![k] = b]  BY <1>4, <2>1, <2>2
  <2>4. QED  BY <2>2, <2>3
<1>6. AccessOK(b, v)
  <2>1. AccessOK(a, v) /\ a.state = "DCACHE"  BY <1>0 DEF Accesses_
  <2>2. b = ComparesAs(a, req, way)  OBVIOUS
  <2> HIDE DEF a, b
  <2>3. Finding(req, way)  BY DEF LooksUp
  <2>4. QED  BY <2>1, <2>2, <2>3, ComparesOK
<1> HIDE DEF b
<1>7. IsSeq(x.lsq) /\ \A j \in DOMAIN x.lsq : AccessOK(x.lsq[j], v)
  <2>1. IsSeq(st.lsq)  BY <1>0 DEF Accesses_
  <2>2. /\ IsSeq(x.lsq) /\ DOMAIN x.lsq = DOMAIN st.lsq
        /\ \A j \in DOMAIN st.lsq : x.lsq[j] = IF j = k THEN b ELSE st.lsq[j]
    BY <1>5, <2>1, SeqExcept
  <2>3. QED  BY <1>0, <1>6, <2>2 DEF Accesses_
<1>8. LsqStep(st, x, v)  BY <1>1, <1>3, <1>4, <1>7 DEF LsqStep
<1>9. Good(x, v)  BY <1>8, LsqGood
<1>10. QED  BY <1>1, <1>3, <1>4, <1>9

\* lsq_from_dcache keeps the invariant.
LEMMA FromDcacheGood ==
  ASSUME NEW st, NEW v, Good(st, v), NEW victim, NEW x, x = lsq_from_dcache(st, victim)
  PROVE  Good(x, v) /\ AtRest(st, x)
<1> DEFINE r == st.dcache_refill  I == {k \in DOMAIN st.lsq : st.lsq[k].state = "DCACHE"}
           s1 == replace_block(st, r, victim)  s2 == intervention(st, r)  s3 == refill(st, r)
<1>1. /\ r.kind = "replace" => x = Advanced(s1)
      /\ r.kind = "intervention" => x = Advanced(s2)
      /\ r.kind = "refill" => x = Advanced(s3)
      /\ r.kind = "none" =>
           IF I = {} THEN x = st
           ELSE x = Compares(cache_probe(st, Min(I)), Min(I))
  BY DEF lsq_from_dcache, Advanced, Indices, Compares
<1>2. PassedOK(r)  BY DEF Good, L, LsqOK
<1>3. DOMAIN st.lsq = 1 .. Len(st.lsq) /\ Len(st.lsq) \in Nat  BY QueueOf
<1>4. CASE r.kind = "replace"
  <2>1. Passing(st, s1, v)  BY <1>4, ReplacePasses
  <2> HIDE DEF s1
  <2>2. QED  BY <1>1, <1>4, <2>1, AdvancedGood
<1>5. CASE r.kind = "intervention"
  <2>1. Passing(st, s2, v)  BY <1>5, InterventionPasses
  <2> HIDE DEF s2
  <2>2. QED  BY <1>1, <1>5, <2>1, AdvancedGood
<1>6. CASE r.kind = "refill"
  <2>1. Passing(st, s3, v)  BY <1>6, RefillPasses
  <2> HIDE DEF s3
  <2>2. QED  BY <1>1, <1>6, <2>1, AdvancedGood
<1>7. CASE r.kind = "none"
  <2>1. CASE I = {}  BY <1>1, <1>7, <2>1 DEF AtRest
  <2>2. CASE I # {}
    <3> DEFINE k == Min(I)  y == cache_probe(st, k)
    <3>1. I \in SUBSET Nat  BY <1>3
    <3>2. k \in I
      <4> HIDE DEF I
      <4>1. QED  BY <2>2, <3>1, LeastIn
    <3>3. k \in DOMAIN st.lsq /\ st.lsq[k].state = "DCACHE"  BY <3>2
    <3>4. x = Compares(y, k)  BY <1>1, <1>7, <2>2
    <3> HIDE DEF k
    <3>5. PICK req, way : LooksUp(st, y, k, req, way)
      BY ProbeFinds
    <3> HIDE DEF y
    <3>6. Good(x, v) /\ x.dcache_refill = st.dcache_refill /\ x.lsq_refill = st.lsq_refill
      BY ONLY Good(st, v), <3>3, <3>4, <3>5, ProbedGood
    <3>7. QED  BY <1>7, <3>6 DEF AtRest
  <2>3. QED  BY <2>1, <2>2
<1>8. r.kind \in {"none", "refill", "replace", "intervention"}  BY <1>2 DEF PassedOK
<1>9. QED  BY <1>4, <1>5, <1>6, <1>7, <1>8

\* The empty set has no order ...
LEMMA NoneToSeq == IsSeq(SetToSeq({})) /\ Len(SetToSeq({})) = 0
<1> DEFINE F == [1 .. 0 -> {}]  c == CHOOSE f \in F : IsInjective(f)
<1>1. SetToSeq({}) = c
  <2>1. Cardinality({}) = 0  BY FS_EmptySet
  <2>2. QED  BY <2>1 DEF SetToSeq
<1>2. c \in F
  <2>1. [k \in 1 .. 0 |-> 0] \in F /\ IsInjective([k \in 1 .. 0 |-> 0])  BY DEF IsInjective
  <2> HIDE DEF F
  <2>2. QED  BY <2>1
<1> HIDE DEF c
<1>3. c = [k \in 1 .. 0 |-> c[k]] /\ DOMAIN c = 1 .. 0  BY <1>2
<1>4. QED  BY <1>1, <1>3, MapIsSeq

\* ... and a set of one element has one.
LEMMA OneToSeq ==
  ASSUME NEW e
  PROVE  LET s == SetToSeq({e}) IN IsSeq(s) /\ Len(s) = 1 /\ s[1] = e
<1> DEFINE F == [1 .. 1 -> {e}]  c == CHOOSE f \in F : IsInjective(f)
<1>1. SetToSeq({e}) = c
  <2>1. Cardinality({e}) = 1  BY FS_Singleton
  <2>2. QED  BY <2>1 DEF SetToSeq
<1>2. c \in F
  <2>1. [k \in 1 .. 1 |-> e] \in F /\ IsInjective([k \in 1 .. 1 |-> e])  BY DEF IsInjective
  <2> HIDE DEF F
  <2>2. QED  BY <2>1
<1> HIDE DEF c
<1>3. c = [k \in 1 .. 1 |-> c[k]] /\ DOMAIN c = 1 .. 1 /\ c[1] = e  BY <1>2
<1>4. IsSeq(c) /\ Len(c) = 1  BY <1>3, MapIsSeq
<1>5. QED  BY <1>1, <1>3, <1>4

\* At most one access enters the queue.
IssueOK(issue, v) ==
  issue = {} \/ \E a : issue = {a} /\ a.blk \in Blocks /\ a.blk \notin v.text
EntrySeq(issue) == SetToSeq({LsqEntry(a) : a \in issue})

\* The access that enters the queue is one to data.
LEMMA EntrySeqOK ==
  ASSUME NEW v, NEW issue, IssueOK(issue, v)
  PROVE  Accesses_(EntrySeq(issue), v)
<1>1. CASE issue = {}
  <2>1. EntrySeq(issue) = SetToSeq({})
    <3>1. {LsqEntry(a) : a \in issue} = {}  BY <1>1
    <3>2. QED  BY <3>1 DEF EntrySeq
  <2>2. IsSeq(EntrySeq(issue)) /\ Len(EntrySeq(issue)) = 0  BY <2>1, NoneToSeq
  <2>3. DOMAIN EntrySeq(issue) = 1 .. 0  BY <2>2, SeqShape
  <2>4. QED  BY <2>2, <2>3 DEF Accesses_
<1>2. ASSUME NEW a, issue = {a}, a.blk \in Blocks, a.blk \notin v.text
      PROVE  Accesses_(EntrySeq(issue), v)
  <2> DEFINE b == LsqEntry(a)
  <2>1. {LsqEntry(c) : c \in issue} = {b}  BY <1>2
  <2>2. AccessOK(b, v)  BY <1>2 DEF AccessOK, LsqEntry, LsqFields
  <2> HIDE DEF b
  <2>3. EntrySeq(issue) = SetToSeq({b})  BY <2>1 DEF EntrySeq
  <2>4. IsSeq(EntrySeq(issue)) /\ Len(EntrySeq(issue)) = 1 /\ EntrySeq(issue)[1] = b
    BY <2>3, OneToSeq
  <2>5. DOMAIN EntrySeq(issue) = 1 .. 1  BY <2>4, SeqShape
  <2>6. QED  BY <2>2, <2>4, <2>5 DEF Accesses_
<1>3. QED  BY <1>1, <1>2 DEF IssueOK

\* Accesses after accesses.
LEMMA ConcatOK ==
  ASSUME NEW v, NEW s, Accesses_(s, v), NEW t, Accesses_(t, v)
  PROVE  Accesses_(s \o t, v)
<1> DEFINE r == s \o t
<1>1. /\ IsSeq(r) /\ Len(r) = Len(s) + Len(t) /\ Len(s) \in Nat /\ Len(t) \in Nat
      /\ \A k \in 1 .. Len(s) + Len(t) : r[k] = IF k <= Len(s) THEN s[k] ELSE t[k - Len(s)]
  BY SeqConcat DEF Accesses_
<1> HIDE DEF r
<1>2. DOMAIN r = 1 .. Len(s) + Len(t) /\ DOMAIN s = 1 .. Len(s) /\ DOMAIN t = 1 .. Len(t)
  BY <1>1, SeqShape DEF Accesses_
<1>3. ASSUME NEW k \in DOMAIN r PROVE AccessOK(r[k], v)
  <2>1. k \in 1 .. Len(s) + Len(t)  BY <1>2
  <2>2. CASE k <= Len(s)
    <3>1. k \in DOMAIN s /\ r[k] = s[k]  BY <1>1, <1>2, <2>1, <2>2
    <3>2. QED  BY <3>1 DEF Accesses_
  <2>3. CASE ~(k <= Len(s))
    <3>1. k - Len(s) \in DOMAIN t /\ r[k] = t[k - Len(s)]  BY <1>1, <1>2, <2>1, <2>3
    <3>2. QED  BY <3>1 DEF Accesses_
  <2>4. QED  BY <2>2, <2>3
<1>4. QED  BY <1>1, <1>3 DEF Accesses_, r

\* lsq_from_memaddr lets an access or a packet enter.
LEMMA FromMemaddrGood ==
  ASSUME NEW st, NEW v, Good(st, v), st.dcache_refill.kind = "none",
         NEW issue, IssueOK(issue, v), NEW x, x = lsq_from_memaddr(st, issue)
  PROVE  Good(x, v) /\ x.lsq_refill.kind = "none"
<1> DEFINE s == st.lsq \o EntrySeq(issue)
<1>0. DOMAIN st = CpuFields /\ M(st, v) /\ W(st) /\ L(st, v)  BY DEF Good
<1>1. CASE st.lsq_refill.kind # "none"
  <2>1. x = [st EXCEPT !.dcache_refill = st.lsq_refill, !.lsq_refill = NoRefill]
    BY <1>1 DEF lsq_from_memaddr
  <2>2. /\ DOMAIN x = CpuFields /\ MPart(x) = MPart(st)
        /\ x.lsq = st.lsq /\ x.todo = st.todo /\ x.text = st.text /\ x.irepbuf = st.irepbuf
        /\ x.lsq_refill = NoRefill /\ x.dcache_refill = st.lsq_refill
        /\ x.dtagcmp_refill = st.dtagcmp_refill /\ x.cpuid = st.cpuid
        /\ x.wtbkq = st.wtbkq /\ x.wtbkq_num = st.wtbkq_num
        /\ x.wtbkq_replacei = st.wtbkq_replacei
    BY <1>0, <2>1 DEF CpuFields, MPart
  <2>3. L(x, v)  BY <1>0, <2>2, NonePassed DEF L, LsqOK
  <2>4. W(x)
    <3>1. Held(x.lsq_refill.kind, x.dcache_refill.kind) = Held(st.lsq_refill.kind, st.dcache_refill.kind)
      BY <2>2, NonePassed DEF Held
    <3>2. QED  BY <1>0, <2>2, <3>1 DEF W, SlotsOK
  <2>5. QED  BY <1>0, <2>2, <2>3, <2>4, SameM, NonePassed DEF Good
<1>2. CASE st.lsq_refill.kind = "none"
  <2>1. x = [st EXCEPT !.todo = @ \ issue, !.lsq = s]
    BY <1>2 DEF lsq_from_memaddr, EntrySeq
  <2>2. Accesses_(s, v)  BY QueueOf, EntrySeqOK, ConcatOK
  <2> HIDE DEF s
  <2>3. /\ DOMAIN x = CpuFields /\ MPart(x) = MPart(st) /\ WPart(x) = WPart(st)
        /\ x.lsq = s /\ x.todo = st.todo \ issue /\ x.text = st.text /\ x.irepbuf = st.irepbuf
        /\ x.lsq_refill = st.lsq_refill /\ x.dcache_refill = st.dcache_refill
        /\ x.dtagcmp_refill = st.dtagcmp_refill
    BY <1>0, <2>1 DEF CpuFields, MPart, WPart
  <2>4. L(x, v)  BY <1>0, <2>2, <2>3 DEF L, LsqOK, Accesses_
  <2>5. QED  BY <1>0, <1>2, <2>3, <2>4, SameM, SameW DEF Good
<1>3. QED  BY <1>1, <1>2

\* lsq_stage keeps the invariant.
LEMMA LsqStageGood ==
  ASSUME NEW st, NEW v, Good(st, v), NEW write, NEW victim, NEW issue, IssueOK(issue, v),
         NEW x, x = lsq_stage(st, On(write), victim, issue)
  PROVE  Good(x, v) /\ x.lsq_refill.kind = "none"
<1> DEFINE a == lsq_wtbk(st)  b == lsq_miss(a)  c == dcachewrite(b, On(write))
           d == lsq_from_dtagcmp(c)  e == lsq_commit(d)  f == lsq_from_dcache(e, victim)
<1>1. x = lsq_from_memaddr(f, issue)  BY DEF lsq_stage
<1>2. Good(a, v)  BY LsqWtbkGood
<1> HIDE DEF a
<1>3. Good(b, v)  BY <1>2, LsqMissGood
<1> HIDE DEF b
<1>4. Good(c, v)  BY <1>3, WriteGood
<1> HIDE DEF c
<1>5. Good(d, v)  BY <1>4, FromDtagcmpGood
<1> HIDE DEF d
<1>6. Good(e, v)  BY <1>5, CommitGood
<1> HIDE DEF e
<1>7. Good(f, v) /\ AtRest(e, f)  BY <1>6, FromDcacheGood
<1> HIDE DEF f
<1>8. f.dcache_refill.kind = "none"  BY <1>7 DEF AtRest
<1>9. QED  BY <1>1, <1>7, <1>8, FromMemaddrGood

\* At most one instruction is fetched.
FetchOK(fetch, v) == \A f \in fetch : f.blk \in Blocks /\ f.blk \in v.text

\* fetch_stage keeps the invariant.
LEMMA FetchGood ==
  ASSUME NEW st, NEW v, Good(st, v), NEW fetch, FetchOK(fetch, v), NEW way,
         NEW x, x = fetch_stage(st, fetch, way)
  PROVE  Good(x, v) /\ x.lsq_refill = st.lsq_refill
<1> DEFINE f == CHOOSE y \in fetch : TRUE
           fetched == [st EXCEPT !.text = @ \ fetch]
           miss == [state |-> "MISS", blk |-> f.blk, way |-> way]
           z == [fetched EXCEPT !.irepbuf = miss]
<1>0. DOMAIN st = CpuFields /\ M(st, v) /\ W(st) /\ L(st, v)  BY DEF Good
<1>1. x = st \/ (fetch # {} /\ (x = fetched \/ x = z))  BY DEF fetch_stage
<1>2. fetch # {} => f \in fetch  OBVIOUS
<1>3. fetch # {} => f.blk \in Blocks /\ f.blk \in v.text  BY <1>2 DEF FetchOK
<1> HIDE DEF f
<1>4. /\ DOMAIN miss = {"state", "blk", "way"}
      /\ fetch # {} => miss.blk \in Blocks /\ miss.blk \in v.text
  BY <1>3
<1> HIDE DEF miss
<1>5. CASE x = st  BY <1>5
<1>6. CASE fetch # {} /\ x = fetched
  <2>1. /\ DOMAIN x = CpuFields /\ MPart(x) = MPart(st) /\ WPart(x) = WPart(st)
        /\ x.lsq = st.lsq /\ x.todo = st.todo /\ x.text = st.text \ fetch
        /\ x.irepbuf = st.irepbuf
        /\ x.lsq_refill = st.lsq_refill /\ x.dcache_refill = st.dcache_refill
        /\ x.dtagcmp_refill = st.dtagcmp_refill
    BY <1>0, <1>6 DEF CpuFields, MPart, WPart
  <2>2. L(x, v)  BY <1>0, <2>1 DEF L, LsqOK
  <2>3. QED  BY <1>0, <2>1, <2>2, SameM, SameW DEF Good
<1>7. CASE fetch # {} /\ x = z
  <2>1. /\ DOMAIN x = CpuFields /\ MPart(x) = MPart(st) /\ WPart(x) = WPart(st)
        /\ x.lsq = st.lsq /\ x.todo = st.todo /\ x.text = st.text \ fetch
        /\ x.irepbuf = miss
        /\ x.lsq_refill = st.lsq_refill /\ x.dcache_refill = st.dcache_refill
        /\ x.dtagcmp_refill = st.dtagcmp_refill
    BY <1>0, <1>7 DEF CpuFields, MPart, WPart
  <2>2. L(x, v)  BY <1>0, <1>4, <1>7, <2>1 DEF L, LsqOK
  <2>3. QED  BY <1>0, <2>1, <2>2, SameM, SameW DEF Good
<1>8. QED  BY <1>1, <1>5, <1>6, <1>7

-----------------------------------------------------------------------------
(***************************************************************************)
(* What arrives at a cpu in a cycle.                                       *)
(***************************************************************************)

\* The surroundings of a cpu: itself, the blocks of text, ...
LEMMA EnvText ==
  ASSUME NEW c, NEW ch, NEW n, NEW T
  PROVE  Env(c, ch, n, T).text = T /\ Env(c, ch, n, T).self = n
BY DEF Env

\* ... the rounds of other homes that have asked it, ...
LEMMA EnvAsked ==
  ASSUME NEW c, NEW ch, NEW n, NEW T, NEW a, NEW b, NEW e
  PROVE  <<a, b, e>> \in Env(c, ch, n, T).asked <=>
           a \in Cpus /\ b \in Kinds /\ e \in Entries /\ Pending(c[a].missq[e], <<n, b>>)
<1> DEFINE S == {t \in Cpus \X Kinds \X Entries : Pending(c[t[1]].missq[t[3]], <<n, t[2]>>)}
<1>1. Env(c, ch, n, T).asked = S  BY DEF Env
<1>2. <<a, b, e>>[1] = a /\ <<a, b, e>>[2] = b /\ <<a, b, e>>[3] = e  OBVIOUS
<1>3. <<a, b, e>> \in S <=> <<a, b, e>> \in Cpus \X Kinds \X Entries
                            /\ Pending(c[a].missq[e], <<n, b>>)
  BY <1>2
<1>4. QED  BY <1>1, <1>3

\* ... the interventions and answers that are not in its queue, ...
LEMMA EnvOthers ==
  ASSUME NEW c, NEW ch, NEW n, NEW T, NEW t
  PROVE  t \in Env(c, ch, n, T).others <=>
           \E h \in Cpus : \E x \in Invns(ch, h, n) \cup Answers(ch, h, n) : t = <<h, At(c, ch, h, n, x).cache>>
<1> DEFINE S == UNION {{<<h, At(c, ch, h, n, x).cache>> : x \in Invns(ch, h, n) \cup Answers(ch, h, n)} : h \in Cpus}
<1>1. Env(c, ch, n, T).others = S  BY DEF Env
<1>2. t \in S <=> \E h \in Cpus : \E x \in Invns(ch, h, n) \cup Answers(ch, h, n) : t = <<h, At(c, ch, h, n, x).cache>>
  OBVIOUS
<1>3. QED  BY <1>1, <1>2

\* ... and what its own rounds have under way.
LEMMA EnvSent ==
  ASSUME NEW c, NEW ch, NEW n, NEW T, NEW t
  PROVE  t \in Env(c, ch, n, T).sent <=>
           \E d \in Cpus : \E x \in Tokens(c, ch, n, d) : t = <<<<d, At(c, ch, n, d, x).cache>>, At(c, ch, n, d, x).qid>>
<1> DEFINE S == UNION {{<<<<d, At(c, ch, n, d, x).cache>>, At(c, ch, n, d, x).qid>> : x \in Tokens(c, ch, n, d)} : d \in Cpus}
<1>1. Env(c, ch, n, T).sent = S  BY DEF Env
<1>2. t \in S <=> \E d \in Cpus : \E x \in Tokens(c, ch, n, d) : t = <<<<d, At(c, ch, n, d, x).cache>>, At(c, ch, n, d, x).qid>>
  OBVIOUS
<1>3. QED  BY <1>1, <1>2

\* The invariant for one cpu.
LEMMA CpuGood ==
  ASSUME NEW T, Inv(cpu, chan, T), NEW n \in Cpus
  PROVE  Good(cpu[n], Env(cpu, chan, n, T)) /\ Rest(cpu, n)
BY DEF Inv

\* The packets a cpu takes in a cycle.
InvnGone(n, f) ==
  IF f["INVN"] = None THEN {} ELSE {<<f["INVN"], Head(chan["INVN"][f["INVN"]][n]).cache>>}
AnswerGone(n, f) ==
  IF f["RESP"] = None \/ Owner[Head(chan["RESP"][f["RESP"]][n]).blk] # n THEN {}
  ELSE {L1Of(Head(chan["RESP"][f["RESP"]][n]))}
AfterInvn(n, T, f) ==
  [self |-> n, text |-> T, asked |-> Env(cpu, chan, n, T).asked, others |-> Env(cpu, chan, n, T).others \ InvnGone(n, f),
   sent |-> Env(cpu, chan, n, T).sent]
After(n, T, f) ==
  [self |-> n, text |-> T, asked |-> Env(cpu, chan, n, T).asked, others |-> Env(cpu, chan, n, T).others \ InvnGone(n, f),
   sent |-> {t \in Env(cpu, chan, n, T).sent : t[1] \notin AnswerGone(n, f)}]

\* A packet that arrives is one of its type.
LEMMA ArrivesOK ==
  ASSUME NEW T, Inv(cpu, chan, T), NEW n \in Cpus, NEW f \in Arrivals(n), NEW t \in Types, f[t] # None
  PROVE  LET s == f[t]  p == Head(chan[t][s][n])
         IN  /\ s \in Cpus /\ p = chan[t][s][n][1] /\ 1 \in DOMAIN chan[t][s][n]
             /\ PacketOK(t, s, n, p, T) /\ IsSeq(chan[t][s][n]) /\ Len(chan[t][s][n]) > 0
<1>1. f[t] \in Sources(n, t)  BY DEF Arrivals, Types
<1>2. f[t] \in Cpus /\ chan[t][f[t]][n] # <<>>  BY <1>1 DEF Sources
<1> DEFINE c == chan[t][f[t]][n]
<1>3. IsSeq(c) /\ \A k \in DOMAIN c : PacketOK(t, f[t], n, c[k], T)
  BY <1>2 DEF Inv, ChanOK
<1>4. c # <<>>  BY <1>2
<1> HIDE DEF c
<1>5. DOMAIN c = 1 .. Len(c) /\ Len(c) \in Nat /\ c \in Seq(Members(c))  BY <1>3, SeqShape
<1>6. Len(c) > 0
  <2>1. Len(c) # 0  BY <1>4, <1>5, EmptySeq
  <2>2. QED  BY <1>5, <2>1
<1>7. Head(c) = c[1] /\ 1 \in DOMAIN c  BY <1>3, <1>5, <1>6, SeqTail
<1>8. QED  BY <1>2, <1>3, <1>6, <1>7 DEF c

\* An arriving intervention is one a home asked for, an answer one of its own.
LEMMA InvnAsked ==
  ASSUME NEW T, Inv(cpu, chan, T), NEW n \in Cpus, NEW f \in Arrivals(n), f["INVN"] # None,
         NEW s, s = f["INVN"], NEW p, p = Head(chan["INVN"][s][n])
  PROVE  <<s, p.cache, p.qid>> \in Env(cpu, chan, n, T).asked /\ <<s, p.cache>> \in Env(cpu, chan, n, T).others
<1>1. "INVN" \in Types  BY DEF Types
<1>2. /\ s \in Cpus /\ p = chan["INVN"][s][n][1] /\ 1 \in DOMAIN chan["INVN"][s][n]
      /\ PacketOK("INVN", s, n, p, T)
  BY <1>1, ArrivesOK
<1> DEFINE x == <<"INVN", 1>>
<1>3. x \in Invns(chan, s, n) /\ At(cpu, chan, s, n, x) = p /\ x \in Tokens(cpu, chan, s, n)
  BY <1>2 DEF Invns, At, Tokens
<1> HIDE DEF x
<1>4. <<s, p.cache>> \in Env(cpu, chan, n, T).others  BY <1>2, <1>3, EnvOthers
<1>5. <<<<n, p.cache>>, p.qid>> \in Env(cpu, chan, s, T).sent  BY <1>3, EnvSent
<1>6. Good(cpu[s], Env(cpu, chan, s, T)) /\ cpu[s].cpuid = s  BY <1>2, CpuGood DEF Rest
<1>7. SentOK(s, cpu[s].missq, Env(cpu, chan, s, T))  BY <1>6, CoreOf DEF Core
<1>8. p.qid \in Entries /\ Pending(cpu[s].missq[p.qid], <<n, p.cache>>)
  BY <1>5, <1>7 DEF SentOK
<1>9. p.cache \in Kinds  BY <1>2 DEF PacketOK, CacheOf, Kinds
<1>10. QED  BY <1>2, <1>4, <1>8, <1>9, EnvAsked

\* An answer that arrives is one of an intervention under way.
LEMMA AnswerSent ==
  ASSUME NEW T, Inv(cpu, chan, T), NEW n \in Cpus, NEW f \in Arrivals(n), f["RESP"] # None,
         NEW s, s = f["RESP"], NEW p, p = Head(chan["RESP"][s][n]), Owner[p.blk] = n
  PROVE  <<L1Of(p), p.qid>> \in Env(cpu, chan, n, T).sent
<1>1. "RESP" \in Types  BY DEF Types
<1>2. /\ s \in Cpus /\ p = chan["RESP"][s][n][1] /\ 1 \in DOMAIN chan["RESP"][s][n]
      /\ PacketOK("RESP", s, n, p, T)
  BY <1>1, ArrivesOK
<1> DEFINE x == <<"RESP", 1>>
<1>3. x \in Answers(chan, n, s) /\ At(cpu, chan, n, s, x) = p /\ x \in Tokens(cpu, chan, n, s)
  BY <1>2 DEF Answers, At, Tokens
<1> HIDE DEF x
<1>4. L1Of(p) = <<s, p.cache>>  BY <1>2 DEF PacketOK, L1Of
<1>5. QED  BY <1>2, <1>3, <1>4, EnvSent

Entered_(st, x) == x.cpuid = st.cpuid /\ x.out = st.out /\ x.lsq_refill = st.lsq_refill

\* A request enters.
LEMMA EnterReq ==
  ASSUME NEW T, Inv(cpu, chan, T), NEW n \in Cpus, NEW f \in Arrivals(n),
         NEW st, Good(st, Env(cpu, chan, n, T)), st.cpuid = n, Open(st, f),
         NEW x, x = EnterType(st, n, f, "REQ")
  PROVE  /\ Good(x, Env(cpu, chan, n, T)) /\ Entered_(st, x) /\ WPart(x) = WPart(st)
         /\ f["INVN"] # None => HomeOpen(x, "INVN")
<1> DEFINE v == Env(cpu, chan, n, T)  s == f["REQ"]  p == Head(chan["REQ"][s][n])
<1>0. "REQ" \in Types /\ "INVN" \in Types  BY DEF Types
<1>1. CASE s = None
  <2>1. x = st  BY <1>1 DEF EnterType
  <2>2. QED  BY <1>0, <2>1 DEF Entered_, Open
<1>2. CASE s # None
  <2>1. x = home_enter(st, p)  BY <1>2 DEF EnterType
  <2>2. s \in Cpus /\ PacketOK("REQ", s, n, p, T)  BY <1>0, <1>2, ArrivesOK
  <2>3. HomeOpen(st, "REQ")  BY <1>0, <1>2 DEF Open
  <2>4. v.text = T  BY EnvText
  <2>5. x.missq_num = st.missq_num + 1
    <3>1. p.req \in Requests  BY <2>2 DEF PacketOK
    <3>2. x = missq_enter(st, Incoming(p))
      BY <2>1, <3>1 DEF home_enter, Requests
    <3>3. DOMAIN st = CpuFields  BY DEF Good
    <3>4. QED  BY <3>2, <3>3 DEF missq_enter, CpuFields
  <2>6. HomeOpen(x, "INVN")
    <3>1. st.missq_num < missq_ifq_size - 1  BY <2>3 DEF HomeOpen
    <3>2. st.missq_num = Cardinality(Occupied(st.missq))  BY CoreOf DEF Core
    <3>3. st.missq_num \in Nat /\ missq_ifq_size \in Nat
      BY <3>2, EntriesFinite DEF Occupied
    <3>4. QED  BY <2>5, <3>1, <3>3 DEF HomeOpen
  <2> HIDE DEF v, s, p
  <2>7. PacketOK("REQ", s, st.cpuid, p, v.text) /\ st.cpuid \in Cpus  BY <2>2, <2>4
  <2>8. Good(st, v)  BY DEF v
  <2>9. Good(x, v) /\ WPart(x) = WPart(st) /\ LPart(x) = LPart(st) /\ x.out = st.out
    BY ONLY <2>1, <2>2, <2>3, <2>7, <2>8, EntersReq
  <2>10. QED  BY <2>6, <2>9 DEF v, Entered_, WPart
<1>3. QED  BY <1>1, <1>2

\* An intervention enters, and is not under way any more.
LEMMA EnterInvn ==
  ASSUME NEW T, Inv(cpu, chan, T), NEW n \in Cpus, NEW f \in Arrivals(n),
         NEW st, Good(st, Env(cpu, chan, n, T)), st.cpuid = n, st.out = NothingSent,
         f["INVN"] # None => HomeOpen(st, "INVN"),
         NEW x, x = EnterType(st, n, f, "INVN")
  PROVE  Good(x, AfterInvn(n, T, f)) /\ Entered_(st, x) /\ WPart(x) = WPart(st)
<1> DEFINE v == Env(cpu, chan, n, T)  u == AfterInvn(n, T, f)  s == f["INVN"]  p == Head(chan["INVN"][s][n])
<1>0. "INVN" \in Types  BY DEF Types
<1>1. v.self = n /\ u.self = n /\ v.text = T /\ u.text = T /\ u.asked = v.asked /\ u.sent = v.sent
  BY EnvText DEF AfterInvn
<1>2. u.others = v.others \ InvnGone(n, f)  BY DEF AfterInvn
<1> HIDE DEF v, u
<1>3. CASE s = None
  <2>1. x = st  BY <1>3 DEF EnterType
  <2>2. u.others \subseteq v.others /\ u.sent \subseteq v.sent /\ u.self = v.self  BY <1>1, <1>2
  <2>3. Good(st, v)  BY DEF v
  <2>4. Good(st, u)  BY ONLY <1>1, <2>2, <2>3, GoodWeaker
  <2>5. QED  BY <2>1, <2>4 DEF Entered_, u
<1>4. CASE s # None
  <2>1. x = home_enter(st, p)  BY <1>4 DEF EnterType
  <2>2. s \in Cpus /\ PacketOK("INVN", s, n, p, T)  BY <1>0, <1>4, ArrivesOK
  <2>3. <<s, p.cache, p.qid>> \in v.asked /\ <<s, p.cache>> \in v.others
    BY <1>4, InvnAsked DEF v
  <2>4. u.others = v.others \ {<<s, p.cache>>}  BY <1>2, <1>4 DEF InvnGone
  <2>5. HomeOpen(st, "INVN")  BY <1>4
  <2> HIDE DEF s, p
  <2>6. PacketOK("INVN", s, st.cpuid, p, v.text)  BY <1>1, <2>2
  <2>7. Good(st, v)  BY DEF v
  <2>8. u.text = v.text /\ u.self = v.self  BY <1>1
  <2>9. st.out = NothingSent  OBVIOUS
  <2>10. Good(x, u) /\ WPart(x) = WPart(st) /\ LPart(x) = LPart(st) /\ x.out = st.out
    BY ONLY <1>1, <2>1, <2>2, <2>3, <2>4, <2>5, <2>6, <2>7, <2>8, <2>9, EntersInvn
  <2>11. QED  BY <2>10 DEF u, Entered_, WPart
<1>5. QED  BY <1>3, <1>4

\* A write-back enters.
LEMMA EnterWtbk ==
  ASSUME NEW T, Inv(cpu, chan, T), NEW n \in Cpus, NEW f \in Arrivals(n),
         NEW u, u.text = T, NEW st, Good(st, u), st.cpuid = n,
         f["WTBK"] # None => HomeOpen(st, "WTBK"),
         NEW x, x = EnterType(st, n, f, "WTBK")
  PROVE  Good(x, u) /\ Entered_(st, x)
<1> DEFINE s == f["WTBK"]  p == Head(chan["WTBK"][s][n])
<1>0. "WTBK" \in Types  BY DEF Types
<1>1. CASE s = None
  <2>1. x = st  BY <1>1 DEF EnterType
  <2>2. QED  BY <2>1 DEF Entered_
<1>2. CASE s # None
  <2>1. x = home_enter(st, p)  BY <1>2 DEF EnterType
  <2>2. s \in Cpus /\ PacketOK("WTBK", s, n, p, T)  BY <1>0, <1>2, ArrivesOK
  <2>3. HomeOpen(st, "WTBK")  BY <1>2
  <2> HIDE DEF s, p
  <2>4. PacketOK("WTBK", s, st.cpuid, p, u.text)  BY <2>2
  <2>5. Good(st, u)  OBVIOUS
  <2>6. Good(x, u) /\ MPart(x) = MPart(st) /\ LPart(x) = LPart(st)
    BY ONLY <2>1, <2>2, <2>3, <2>4, <2>5, EntersW
  <2>7. QED  BY <2>6 DEF Entered_, MPart, LPart
<1>3. QED  BY <1>1, <1>2

\* An answer enters, and is not under way any more.
LEMMA EnterResp ==
  ASSUME NEW T, Inv(cpu, chan, T), NEW n \in Cpus, NEW f \in Arrivals(n),
         NEW st, Good(st, AfterInvn(n, T, f)), st.cpuid = n, st.out = NothingSent,
         NEW x, x = EnterType(st, n, f, "RESP")
  PROVE  Good(x, After(n, T, f)) /\ Entered_(st, x)
<1> DEFINE v == AfterInvn(n, T, f)  u == After(n, T, f)  s == f["RESP"]  p == Head(chan["RESP"][s][n])
<1>0. "RESP" \in Types  BY DEF Types
<1>1. /\ u.self = v.self /\ v.text = T /\ u.text = v.text /\ u.asked = v.asked /\ u.others = v.others
      /\ u.sent \subseteq v.sent /\ v.sent = Env(cpu, chan, n, T).sent
      /\ \A t \in u.sent : t[1] \notin AnswerGone(n, f)
  BY DEF AfterInvn, After
<1>2. Good(st, v)  OBVIOUS
<1> HIDE DEF v, u
<1>3. CASE s = None
  <2>1. x = st  BY <1>3 DEF EnterType
  <2>2. u.others \subseteq v.others  BY <1>1
  <2>3. Good(st, u)  BY ONLY <1>1, <1>2, <2>2, GoodWeaker
  <2>4. QED  BY <2>1, <2>3 DEF Entered_, u
<1>4. CASE s # None
  <2>1. x = home_enter(st, p)  BY <1>4 DEF EnterType
  <2>2. s \in Cpus /\ PacketOK("RESP", s, n, p, T)  BY <1>0, <1>4, ArrivesOK
  <2>3. Owner[p.blk] = n => <<L1Of(p), p.qid>> \in v.sent
    BY <1>1, <1>4, AnswerSent
  <2>4. Owner[p.blk] = n => \A t \in u.sent : t[1] # L1Of(p)
    BY <1>1, <1>4 DEF AnswerGone
  <2> HIDE DEF s, p
  <2>5. PacketOK("RESP", s, st.cpuid, p, v.text)  BY <1>1, <2>2
  <2>6. Owner[p.blk] = st.cpuid =>
          <<L1Of(p), p.qid>> \in v.sent /\ \A t \in u.sent : t[1] # L1Of(p)
    BY <2>3, <2>4
  <2>7. st.out = NothingSent  OBVIOUS
  <2>8. Good(x, u) /\ WPart(x) = WPart(st) /\ LPart(x) = LPart(st) /\ x.out = st.out
    BY ONLY <1>1, <1>2, <2>1, <2>2, <2>5, <2>6, <2>7, EntersResp
  <2>9. QED  BY <2>8 DEF u, Entered_, WPart
<1>5. QED  BY <1>3, <1>4

\* All that arrives in a cycle enters.
LEMMA EnterGood ==
  ASSUME NEW T, Inv(cpu, chan, T), NEW n \in Cpus, NEW f \in Arrivals(n),
         NEW st, Good(st, Env(cpu, chan, n, T)), st.cpuid = n, st.out = NothingSent, Open(st, f),
         NEW x, x = Enter(st, n, f)
  PROVE  Good(x, After(n, T, f)) /\ Entered_(st, x)
<1> DEFINE s1 == EnterType(st, n, f, "REQ")  s2 == EnterType(s1, n, f, "INVN")
           s3 == EnterType(s2, n, f, "WTBK")
<1>1. x = EnterType(s3, n, f, "RESP")  BY DEF Enter
<1>2. /\ Good(s1, Env(cpu, chan, n, T)) /\ Entered_(st, s1) /\ WPart(s1) = WPart(st)
      /\ f["INVN"] # None => HomeOpen(s1, "INVN")
  BY EnterReq
<1> HIDE DEF s1
<1>3. Good(s2, AfterInvn(n, T, f)) /\ Entered_(s1, s2) /\ WPart(s2) = WPart(s1)
  BY <1>2, EnterInvn DEF Entered_
<1> HIDE DEF s2
<1>4. f["WTBK"] # None => HomeOpen(s2, "WTBK")
  <2>1. s2.wtbkq_num = st.wtbkq_num  BY <1>2, <1>3 DEF WPart
  <2>2. "WTBK" \in Types  BY DEF Types
  <2>3. QED  BY <2>1, <2>2 DEF Open, HomeOpen
<1>5. AfterInvn(n, T, f).text = T  BY DEF AfterInvn
<1>6. Good(s3, AfterInvn(n, T, f)) /\ Entered_(s2, s3)
  <2> DEFINE u == AfterInvn(n, T, f)
  <2>1. u.text = T /\ Good(s2, u) /\ s2.cpuid = n  BY <1>2, <1>3, <1>5 DEF Entered_
  <2> HIDE DEF u
  <2>2. Good(s3, u) /\ Entered_(s2, s3)  BY <1>4, <2>1, EnterWtbk
  <2>3. QED  BY <2>2 DEF u
<1> HIDE DEF s3
<1>7. Good(x, After(n, T, f)) /\ Entered_(s3, x)
  BY <1>1, <1>2, <1>3, <1>6, EnterResp DEF Entered_
<1>8. QED  BY <1>2, <1>3, <1>6, <1>7 DEF Entered_

-----------------------------------------------------------------------------
(***************************************************************************)
(* A cycle of one cpu keeps what that cpu promises.                        *)
(***************************************************************************)

\* A cpu knows itself.
LEMMA SelfIs ==
  ASSUME NEW st, NEW v, Good(st, v)
  PROVE  st.cpuid = v.self
BY CoreOf DEF Core

\* The room in the network is another field.
LEMMA ReadyGood ==
  ASSUME NEW st, NEW v, Good(st, v), NEW room, NEW x, x = [st EXCEPT !.room = room]
  PROVE  Good(x, v) /\ WPart(x) = WPart(st) /\ LPart(x) = LPart(st) /\ x.out = st.out
<1>0. DOMAIN st = CpuFields  BY DEF Good
<1>1. /\ DOMAIN x = CpuFields /\ MPart(x) = MPart(st) /\ WPart(x) = WPart(st)
      /\ LPart(x) = LPart(st) /\ x.out = st.out
  BY <1>0 DEF CpuFields, MPart, WPart, LPart
<1>2. SameParts(st, x)  BY <1>1 DEF SameParts
<1>3. QED  BY <1>1, <1>2, SameGood

\* What lsq issues is an access to data ...
LEMMA IssuesOK ==
  ASSUME NEW st, NEW v, Good(st, v), NEW issue \in Issue(st)
  PROVE  IssueOK(issue, v)
<1>1. \A a \in st.todo : a.blk \in Blocks /\ a.blk \notin v.text  BY DEF Good, L, LsqOK
<1>2. issue = {} \/ \E a \in st.todo : issue = {a}  BY DEF Issue
<1>3. QED  BY <1>1, <1>2 DEF IssueOK

\* ... and what the fetch stage asks for is text.
LEMMA FetchesOK ==
  ASSUME NEW st, NEW v, Good(st, v), NEW fetch \in Fetch(st)
  PROVE  FetchOK(fetch, v)
<1>1. \A a \in st.text : a.blk \in Blocks /\ a.blk \in v.text  BY DEF Good, L, LsqOK
<1>2. fetch = {} \/ \E a \in st.text : fetch = {a}  BY DEF Fetch
<1>3. QED  BY <1>1, <1>2 DEF FetchOK

\* The state of a cpu before the packets of a cycle arrive.
Before(st, room, victim, redirect, done) ==
  check_memq(tracer_recover(eventq_service_events([st EXCEPT !.room = room], victim), redirect), done)

\* Events, redirection, room and the memory keep the invariant.
LEMMA BeforeGood ==
  ASSUME NEW st, NEW v, Good(st, v), NEW room, NEW victim \in L2Ways, NEW redirect, NEW done,
         NEW x, x = Before(st, room, victim, On(redirect), done)
  PROVE  Good(x, v) /\ WPart(x) = WPart(st) /\ x.out = st.out
<1> DEFINE a == [st EXCEPT !.room = room]  b == eventq_service_events(a, victim)
           c == tracer_recover(b, On(redirect))
<1>1. x = check_memq(c, done)  BY DEF Before
<1>2. Good(a, v) /\ WPart(a) = WPart(st) /\ a.out = st.out  BY ReadyGood
<1> HIDE DEF a
<1>3. Good(b, v) /\ WPart(b) = WPart(a) /\ b.out = a.out  BY <1>2, EventsServed
<1> HIDE DEF b
<1>4. Good(c, v) /\ WPart(c) = WPart(b) /\ c.out = b.out  BY <1>3, RecoverGood
<1> HIDE DEF c
<1>5. Good(x, v) /\ WPart(x) = WPart(c) /\ x.out = c.out  BY <1>1, <1>4, MemoryGood
<1>6. QED  BY <1>2, <1>3, <1>4, <1>5

\* One cycle of a cpu.
Cycled(st, p, victim2, write, victim1, issue, fetch, iway) ==
  fetch_stage(lsq_stage(cache2mem(st, p, victim2), write, victim1, issue), fetch, iway)

\* cache2mem, lsq_stage and fetch_stage keep the invariant.
LEMMA CycleGood ==
  ASSUME NEW st, NEW v, Good(st, v), st.lsq_refill.kind = "none", NEW p \in Picks(st),
         NEW victim2 \in L2Ways, NEW write, NEW victim1,
         NEW issue \in Issue(cache2mem(st, p, victim2)),
         NEW fetch \in Fetch(cache2mem(st, p, victim2)), NEW iway,
         NEW x, x = Cycled(st, p, victim2, On(write), victim1, issue, fetch, iway)
  PROVE  Good(x, v) /\ x.lsq_refill.kind = "none"
<1> DEFINE a == cache2mem(st, p, victim2)  b == lsq_stage(a, On(write), victim1, issue)
<1>1. x = fetch_stage(b, fetch, iway)  BY DEF Cycled
<1>2. Good(a, v)  BY Cache2memGood
<1> HIDE DEF a
<1>3. IssueOK(issue, v) /\ FetchOK(fetch, v)  BY <1>2, IssuesOK, FetchesOK DEF a
<1>4. Good(b, v) /\ b.lsq_refill.kind = "none"  BY <1>2, <1>3, LsqStageGood
<1> HIDE DEF b
<1>5. Good(x, v) /\ x.lsq_refill = b.lsq_refill  BY <1>1, <1>3, <1>4, FetchGood
<1>6. QED  BY <1>4, <1>5

\* The victim of the L2 is one of its ways.
LEMMA VictimIn ==
  ASSUME NEW st, NEW victim \in L2Victims(st)
  PROVE  victim \in L2Ways
BY SizesAssumption DEF L2Victims, L2Ways

\* What a step of the specification does, by its parts.
Steps(n, f, final) ==
  /\ turn = n /\ turn' = (n + 1) % total_cpus
  /\ f \in Arrivals(n)
  /\ cpu' = [cpu EXCEPT ![n] = Settled(final)]
  /\ chan' = Transported(n, f, final.out)

Finishes(n, f, e, victim2, victim1) ==
  \E p \in Picks(e) :
    LET passed == cache2mem(e, p, victim2) IN
    \E write \in {FALSE} \cup (IF CanWrite(lsq_wtbk(passed)) THEN {TRUE} ELSE {}),
       issue \in Issue(passed), fetch \in Fetch(passed), iway \in IWays :
      LET final == fetch_stage(lsq_stage(passed, write, victim1, issue), fetch, iway)
      IN  /\ cpu' = [cpu EXCEPT ![n] = Settled(final)]
          /\ chan' = Transported(n, f, final.out)

\* A cpu_execute keeps the invariant of its cpu.
LEMMA StepGood ==
  ASSUME NEW T, Inv(cpu, chan, T), NEW n \in Cpus, cpu_execute(n)
  PROVE  \E f, final : /\ Steps(n, f, final)
                       /\ Good(final, After(n, T, f)) /\ final.lsq_refill.kind = "none"
<1> DEFINE room == [t \in Types |-> router_ifq_size - UnderWay(n, t)]
           ready == [cpu[n] EXCEPT !.room = room]
<1>1. PICK victim2 \in L2Victims(cpu[n]), victim1 \in L1Ways, done \in SUBSET cpu[n].memq,
           f \in Arrivals(n), redirect \in Redirects(cpu[n]) :
       LET st == check_memq(tracer_recover(eventq_service_events(ready, victim2), redirect),
                            done)
       IN  Open(st, f) /\ Finishes(n, f, Enter(st, n, f), victim2, victim1)
  BY DEF cpu_execute, Finishes
<1> DEFINE st == Before(cpu[n], room, victim2, On(redirect), done)
           entered == Enter(st, n, f)
<1>2. Open(st, f) /\ Finishes(n, f, entered, victim2, victim1)
  BY <1>1 DEF Before, On
<1>3. Good(cpu[n], Env(cpu, chan, n, T)) /\ Rest(cpu, n)  BY CpuGood
<1>4. victim2 \in L2Ways  BY VictimIn
<1> HIDE DEF room
<1>5. Good(st, Env(cpu, chan, n, T)) /\ WPart(st) = WPart(cpu[n]) /\ st.out = cpu[n].out
  BY <1>3, <1>4, BeforeGood
<1>6. st.cpuid = n /\ st.out = NothingSent /\ st.lsq_refill.kind = "none"
  BY <1>3, <1>5 DEF Rest, WPart
<1> HIDE DEF st
<1>7. Good(entered, After(n, T, f)) /\ Entered_(st, entered)
  BY <1>2, <1>5, <1>6, EnterGood
<1>8. entered.lsq_refill.kind = "none"  BY <1>6, <1>7 DEF Entered_
<1> HIDE DEF entered
<1>9. PICK p \in Picks(entered) :
        LET passed == cache2mem(entered, p, victim2) IN
        \E write \in {FALSE} \cup (IF CanWrite(lsq_wtbk(passed)) THEN {TRUE} ELSE {}),
           issue \in Issue(passed), fetch \in Fetch(passed), iway \in IWays :
          LET final == fetch_stage(lsq_stage(passed, write, victim1, issue), fetch, iway)
          IN  /\ cpu' = [cpu EXCEPT ![n] = Settled(final)]
              /\ chan' = Transported(n, f, final.out)
  BY <1>2 DEF Finishes
<1> DEFINE passed == cache2mem(entered, p, victim2)
<1>10. PICK write \in {FALSE} \cup (IF CanWrite(lsq_wtbk(passed)) THEN {TRUE} ELSE {}),
            issue \in Issue(passed), fetch \in Fetch(passed), iway \in IWays :
          LET final == fetch_stage(lsq_stage(passed, write, victim1, issue), fetch, iway)
          IN  /\ cpu' = [cpu EXCEPT ![n] = Settled(final)]
              /\ chan' = Transported(n, f, final.out)
  BY <1>9
<1> DEFINE final == Cycled(entered, p, victim2, On(write), victim1, issue, fetch, iway)
           v == After(n, T, f)
<1>11. cpu' = [cpu EXCEPT ![n] = Settled(final)] /\ chan' = Transported(n, f, final.out)
  BY <1>10 DEF Cycled, On
<1>12. Good(final, v) /\ final.lsq_refill.kind = "none"
  <2>1. Good(entered, v)  BY <1>7
  <2> HIDE DEF v
  <2>2. QED  BY <1>4, <1>8, <2>1, CycleGood
<1> HIDE DEF final
<1>13. turn = n /\ turn' = (n + 1) % total_cpus  BY DEF cpu_execute
<1>14. QED  BY <1>11, <1>12, <1>13 DEF Steps, v

-----------------------------------------------------------------------------
(***************************************************************************)
(* What is under way after the cycle.                                      *)
(***************************************************************************)

\* The channels after a cycle: what was taken, what stays, what was sent.
Taken(n, f, t, s, d) == IF d = n /\ f[t] = s THEN 1 ELSE 0
Stay(n, f, t, s, d) == Len(chan[t][s][d]) - Taken(n, f, t, s, d)
Added(n, out, t, s, d) == IF s = n THEN Len(out[t][d]) ELSE 0

ChanStep(n, f, out, ch, t, s, d) ==
  LET c == chan[t][s][d]  e == ch[t][s][d]
      sh == Taken(n, f, t, s, d)  l == Stay(n, f, t, s, d)  a == Added(n, out, t, s, d)
  IN  /\ IsSeq(e) /\ DOMAIN e = 1 .. l + a /\ l \in Nat /\ a \in Nat
      /\ DOMAIN c = 1 .. l + sh
      /\ \A k \in 1 .. l : e[k] = c[k + sh]
      /\ \A k \in 1 .. a : e[l + k] = out[t][d][k]
      /\ s = n => DOMAIN out[t][d] = 1 .. a

\* A channel loses what is taken and gains what is sent.
LEMMA ChanSteps ==
  ASSUME NEW T, Inv(cpu, chan, T), NEW n \in Cpus, NEW f \in Arrivals(n), NEW out, OutShape(out),
         NEW ch, ch = Transported(n, f, out), NEW t \in Types, NEW s \in Cpus, NEW d \in Cpus
  PROVE  ChanStep(n, f, out, ch, t, s, d)
<1> DEFINE c == chan[t][s][d]  e == ch[t][s][d]
           sh == Taken(n, f, t, s, d)  l == Stay(n, f, t, s, d)  a == Added(n, out, t, s, d)
           left == IF d = n /\ f[t] = s THEN Tail(c) ELSE c
           o == out[t][d]
<1>1. e = IF s = n THEN left \o o ELSE left  BY DEF Transported
<1>2. IsSeq(c) /\ IsSeq(o)  BY DEF Inv, ChanOK, OutShape
<1>3. d = n /\ f[t] = s => Len(c) > 0 /\ f[t] # None
  <2>1. ASSUME d = n, f[t] = s PROVE Len(c) > 0 /\ f[t] # None
    <3>1. f[t] # None  BY <2>1, SizesAssumption DEF Cpus, None
    <3>2. QED  BY <2>1, <3>1, ArrivesOK
  <2>2. QED  BY <2>1
<1>4. sh = (IF d = n /\ f[t] = s THEN 1 ELSE 0) /\ l = Len(c) - sh
      /\ a = (IF s = n THEN Len(o) ELSE 0)
  BY DEF Taken, Stay, Added
<1> HIDE DEF c, e, sh, l, a, o
<1>5. Len(c) \in Nat /\ DOMAIN c = 1 .. Len(c) /\ Len(o) \in Nat /\ DOMAIN o = 1 .. Len(o)
  BY <1>2, SeqShape
<1>4a. l = Len(c) - sh  BY DEF Stay, l, c, sh
<1>0. /\ d = n /\ f[t] = s => left = Tail(c) /\ sh = 1
      /\ ~(d = n /\ f[t] = s) => left = c /\ sh = 0
  BY <1>4
<1> HIDE DEF left
<1>6. IsSeq(left) /\ Len(left) = l /\ l \in Nat /\ DOMAIN c = 1 .. l + sh
      /\ \A k \in 1 .. l : left[k] = c[k + sh]
  <2>1. CASE d = n /\ f[t] = s
    <3>1. left = Tail(c) /\ sh = 1 /\ Len(c) > 0  BY <1>0, <1>3, <2>1
    <3>2. IsSeq(Tail(c)) /\ Len(Tail(c)) = Len(c) - 1
          /\ \A k \in 1 .. Len(c) - 1 : Tail(c)[k] = c[k + 1]
      BY <1>2, <3>1, SeqTail
    <3>3. l = Len(c) - 1 /\ l + sh = Len(c) /\ l \in Nat  BY <1>4a, <1>5, <3>1
    <3>4. DOMAIN c = 1 .. l + sh  BY <1>5, <3>3
    <3>5. \A k \in 1 .. l : left[k] = c[k + sh]  BY <3>1, <3>2, <3>3
    <3>6. IsSeq(left) /\ Len(left) = l  BY <3>1, <3>2, <3>3
    <3>7. QED  BY <3>3, <3>4, <3>5, <3>6
  <2>2. CASE ~(d = n /\ f[t] = s)
    <3>1. left = c /\ sh = 0  BY <1>0, <2>2
    <3>2. l = Len(c) /\ l + sh = Len(c)  BY <1>4a, <1>5, <3>1
    <3>3. \A k \in 1 .. l : k + sh = k  BY <1>5, <3>1, <3>2
    <3>4. \A k \in 1 .. l : left[k] = c[k + sh]  BY <3>1, <3>3
    <3>5. QED  BY <1>2, <1>5, <3>1, <3>2, <3>4
  <2>3. QED  BY <2>1, <2>2
<1>7. DOMAIN left = 1 .. l  BY <1>6, SeqShape
<1>8. CASE s = n
  <2>1. e = left \o o /\ a = Len(o)  BY <1>1, <1>4, <1>8
  <2>2. /\ IsSeq(left \o o) /\ Len(left \o o) = l + a
        /\ \A k \in 1 .. l + a : (left \o o)[k] = IF k <= l THEN left[k] ELSE o[k - l]
    BY <1>2, <1>6, <2>1, SeqConcat
  <2>3. DOMAIN e = 1 .. l + a  BY <2>1, <2>2, SeqShape
  <2>4. \A k \in 1 .. l : e[k] = left[k]
    <3>1. \A k \in 1 .. l : k \in 1 .. l + a /\ k <= l  BY <1>5, <1>6, <2>1
    <3>2. QED  BY <2>1, <2>2, <3>1
  <2>5. \A k \in 1 .. a : e[l + k] = o[k]
    <3>1. SUFFICES ASSUME NEW k \in 1 .. a PROVE e[l + k] = o[k]
      OBVIOUS
    <3>2. l + k \in 1 .. l + a /\ ~(l + k <= l) /\ (l + k) - l = k
      BY <1>5, <1>6, <2>1
    <3>3. (left \o o)[l + k] = o[(l + k) - l]  BY <2>2, <3>2
    <3>4. QED  BY <2>1, <3>2, <3>3
  <2>6. QED  BY <1>5, <1>6, <2>1, <2>2, <2>3, <2>4, <2>5 DEF ChanStep, c, e, sh, l, a, o
<1>9. CASE s # n
  <2>1. e = left /\ a = 0  BY <1>1, <1>4, <1>9
  <2>2. DOMAIN e = 1 .. l + a  BY <1>6, <1>7, <2>1
  <2>3. QED  BY <1>6, <1>9, <2>1, <2>2 DEF ChanStep, c, e, sh, l, a, o
<1>10. QED  BY <1>8, <1>9

\* The channels hold packets of their kind.
LEMMA ChanOKStep ==
  ASSUME NEW T, Inv(cpu, chan, T), NEW n \in Cpus, NEW f \in Arrivals(n),
         NEW out, OutShape(out), NEW u, u.text = T, OutTyped(n, out, u),
         NEW ch, ch = Transported(n, f, out)
  PROVE  ChanOK(ch, T)
<1> SUFFICES ASSUME NEW t \in Types, NEW s \in Cpus, NEW d \in Cpus
             PROVE  /\ IsSeq(ch[t][s][d])
                    /\ \A k \in DOMAIN ch[t][s][d] : PacketOK(t, s, d, ch[t][s][d][k], T)
  BY DEF ChanOK
<1> DEFINE c == chan[t][s][d]  e == ch[t][s][d]
           sh == Taken(n, f, t, s, d)  l == Stay(n, f, t, s, d)  a == Added(n, out, t, s, d)
<1>1. ChanStep(n, f, out, ch, t, s, d)  BY ChanSteps
<1>2. /\ IsSeq(e) /\ DOMAIN e = 1 .. l + a /\ l \in Nat /\ a \in Nat
      /\ DOMAIN c = 1 .. l + sh
      /\ \A k \in 1 .. l : e[k] = c[k + sh]
      /\ \A k \in 1 .. a : e[l + k] = out[t][d][k]
      /\ s = n => DOMAIN out[t][d] = 1 .. a
  BY <1>1 DEF ChanStep
<1>3. sh \in {0, 1} /\ (s # n => a = 0)  BY DEF Taken, Added
<1>4. \A k \in DOMAIN c : PacketOK(t, s, d, c[k], T)  BY DEF Inv, ChanOK
<1>5. s = n => \A k \in DOMAIN out[t][d] : PacketOK(t, s, d, out[t][d][k], T)
  BY DEF OutTyped
<1> HIDE DEF c, e, sh, l, a
<1>6. ASSUME NEW k \in DOMAIN e PROVE PacketOK(t, s, d, e[k], T)
  <2>1. CASE k <= l
    <3>1. k \in 1 .. l /\ k + sh \in 1 .. l + sh  BY <1>2, <1>3, <2>1
    <3>2. QED  BY <1>2, <1>4, <3>1
  <2>2. CASE ~(k <= l)
    <3>1. k - l \in 1 .. a /\ l + (k - l) = k  BY <1>2, <2>2
    <3>2. s = n  BY <1>2, <1>3, <3>1
    <3>3. e[k] = out[t][d][k - l]  BY <1>2, <3>1
    <3>4. QED  BY <1>2, <1>5, <3>1, <3>2, <3>3
  <2>3. QED  BY <2>1, <2>2
<1>7. QED  BY <1>2, <1>6 DEF e

\* A cycle of cpu n that ends in state z.
Cycle(T, n, f, z, c, ch) ==
  /\ Inv(cpu, chan, T) /\ n \in Cpus /\ f \in Arrivals(n)
  /\ Good(z, After(n, T, f)) /\ z.lsq_refill.kind = "none"
  /\ c = [cpu EXCEPT ![n] = Settled(z)] /\ ch = Transported(n, f, z.out)

\* The end of a cycle changes other fields.
LEMMA SettledIs ==
  ASSUME NEW z, NEW v, Good(z, v)
  PROVE  LET x == Settled(z)
         IN  /\ DOMAIN x = CpuFields /\ x.out = NothingSent
             /\ x.cpuid = z.cpuid /\ x.missq = z.missq /\ x.missq_num = z.missq_num
             /\ x.dl2 = z.dl2 /\ x.events = z.events /\ x.refilltag = z.refilltag
             /\ x.refilli = z.refilli /\ WPart(x) = WPart(z) /\ LPart(x) = LPart(z)
             /\ x.lsq_refill = z.lsq_refill
<1>1. DOMAIN z = CpuFields  BY DEF Good
<1>2. QED  BY <1>1 DEF Settled, CpuFields, WPart, LPart

\* What is under way after the arrivals of a cycle.
LEMMA AfterIs ==
  ASSUME NEW T, NEW n, NEW f, NEW u, u = After(n, T, f)
  PROVE  /\ u.self = n /\ u.text = T /\ u.asked = Env(cpu, chan, n, T).asked
         /\ u.others = Env(cpu, chan, n, T).others \ InvnGone(n, f)
         /\ u.sent = {t \in Env(cpu, chan, n, T).sent : t[1] \notin AnswerGone(n, f)}
BY DEF After

\* A cycle of one cpu and what it changes.
LEMMA CycleIs ==
  ASSUME NEW T, NEW n, NEW f, NEW z, NEW c, NEW ch, Cycle(T, n, f, z, c, ch),
         NEW u, u = After(n, T, f)
  PROVE  /\ DOMAIN c = Cpus /\ c[n] = Settled(z) /\ \A d \in Cpus : d # n => c[d] = cpu[d]
         /\ c[n].missq = z.missq /\ z.cpuid = n /\ n \in Cpus /\ f \in Arrivals(n)
         /\ OutShape(z.out) /\ OutTyped(n, z.out, u) /\ InvnsOut(z.missq, z.out, u)
         /\ RespsOut(z.missq, z.out, u) /\ OneAsks(z.missq) /\ SentOK(n, z.missq, u)
         /\ \A i \in Entries : EntryOK(n, z.missq[i], u)
         /\ ch = Transported(n, f, z.out) /\ Good(z, u) /\ ChanOK(ch, T) /\ Inv(cpu, chan, T)
<1>1. DOMAIN cpu = Cpus  BY DEF Cycle, Inv
<1>2. /\ DOMAIN c = Cpus /\ c[n] = Settled(z) /\ n \in Cpus /\ f \in Arrivals(n)
      /\ \A d \in Cpus : d # n => c[d] = cpu[d]
  BY <1>1 DEF Cycle
<1>3. ch = Transported(n, f, z.out) /\ Good(z, u) /\ Inv(cpu, chan, T)  BY DEF Cycle
<1>4. u.self = n /\ u.text = T  BY AfterIs
<1>5. z.cpuid = n  BY <1>3, <1>4, SelfIs
<1>6. c[n].missq = z.missq  BY <1>2, <1>3, SettledIs
<1>7. /\ Core(n, z.missq, z.missq_num, z.dl2, z.refilltag, z.refilli, u)
      /\ Outs(n, z.missq, z.out, u)
  BY <1>3, <1>5, CoreOf
<1>8. OneAsks(z.missq) /\ SentOK(n, z.missq, u) /\ \A i \in Entries : EntryOK(n, z.missq[i], u)
  BY <1>7 DEF Core
<1>9. /\ OutShape(z.out) /\ OutTyped(n, z.out, u) /\ InvnsOut(z.missq, z.out, u)
      /\ RespsOut(z.missq, z.out, u)
  BY <1>7 DEF Outs
<1>10. ChanOK(ch, T)  BY ONLY <1>2, <1>3, <1>4, <1>9, ChanOKStep
<1>11. QED  BY <1>2, <1>3, <1>5, <1>6, <1>8, <1>9, <1>10

\* A packet of a channel was there before, or was sent in the cycle.
LEMMA PacketStep ==
  ASSUME NEW T, NEW n, NEW f, NEW z, NEW c, NEW ch, Cycle(T, n, f, z, c, ch),
         NEW t \in Types, NEW s \in Cpus, NEW d \in Cpus,
         NEW sh, sh = Taken(n, f, t, s, d), NEW l, l = Stay(n, f, t, s, d),
         NEW k \in DOMAIN ch[t][s][d]
  PROVE  /\ k \in Nat \ {0} /\ l \in Nat /\ sh \in {0, 1}
         /\ \/ /\ k <= l /\ k + sh \in DOMAIN chan[t][s][d]
               /\ ch[t][s][d][k] = chan[t][s][d][k + sh]
            \/ /\ k > l /\ s = n /\ k - l \in DOMAIN z.out[t][d]
               /\ ch[t][s][d][k] = z.out[t][d][k - l]
<1> DEFINE o == chan[t][s][d]  e == ch[t][s][d]  a == Added(n, z.out, t, s, d)
           u == After(n, T, f)
<1>0. /\ Inv(cpu, chan, T) /\ n \in Cpus /\ f \in Arrivals(n) /\ OutShape(z.out)
      /\ ch = Transported(n, f, z.out)
  BY CycleIs
<1>1. ChanStep(n, f, z.out, ch, t, s, d)  BY <1>0, ChanSteps
<1>2. /\ DOMAIN e = 1 .. l + a /\ l \in Nat /\ a \in Nat
      /\ DOMAIN o = 1 .. l + sh
      /\ \A j \in 1 .. l : e[j] = o[j + sh]
      /\ \A j \in 1 .. a : e[l + j] = z.out[t][d][j]
      /\ s = n => DOMAIN z.out[t][d] = 1 .. a
  BY <1>1 DEF ChanStep
<1>3. sh \in {0, 1} /\ (s # n => a = 0)  BY DEF Taken, Added
<1> HIDE DEF o, e, a
<1>4. k \in 1 .. l + a  BY <1>2 DEF e
<1>5. k \in Nat \ {0}  BY <1>2, <1>4
<1>6. CASE k <= l
  <2>1. k \in 1 .. l /\ k + sh \in 1 .. l + sh  BY <1>2, <1>3, <1>4, <1>6
  <2>2. e[k] = o[k + sh] /\ k + sh \in DOMAIN o  BY <1>2, <2>1
  <2>3. QED  BY <1>2, <1>3, <1>5, <1>6, <2>2 DEF e, o
<1>7. CASE ~(k <= l)
  <2>1. k - l \in 1 .. a /\ l + (k - l) = k /\ k > l  BY <1>2, <1>4, <1>7
  <2>2. s = n  BY <1>2, <1>3, <2>1
  <2>3. e[k] = z.out[t][d][k - l]
    <3>1. e[l + (k - l)] = z.out[t][d][k - l]  BY <1>2, <2>1
    <3>2. QED  BY <2>1, <3>1
  <2>4. QED  BY <1>2, <1>3, <1>5, <2>1, <2>2, <2>3 DEF e
<1>8. QED  BY <1>6, <1>7

\* What a token of the old state says.
LEMMA OldToken ==
  ASSUME NEW T, Inv(cpu, chan, T), NEW h \in Cpus, NEW d \in Cpus,
         NEW x \in Tokens(cpu, chan, h, d), NEW p, p = At(cpu, chan, h, d, x)
  PROVE  /\ <<<<d, p.cache>>, p.qid>> \in Env(cpu, chan, h, T).sent
         /\ p.qid \in Entries /\ h # d /\ Pending(cpu[h].missq[p.qid], <<d, p.cache>>)
<1>1. <<<<d, p.cache>>, p.qid>> \in Env(cpu, chan, h, T).sent  BY EnvSent
<1>2. Good(cpu[h], Env(cpu, chan, h, T)) /\ cpu[h].cpuid = h  BY CpuGood DEF Rest
<1>3. SentOK(h, cpu[h].missq, Env(cpu, chan, h, T))  BY <1>2, CoreOf DEF Core
<1>4. QED  BY <1>1, <1>3 DEF SentOK

\* An intervention under way is one to a data or an instruction cache.
LEMMA OldKind ==
  ASSUME NEW T, Inv(cpu, chan, T), NEW h \in Cpus, NEW d \in Cpus,
         NEW x \in Tokens(cpu, chan, h, d), NEW p, p = At(cpu, chan, h, d, x)
  PROVE  p.cache \in Kinds
<1>0. \A b : CacheOf(b, T) \in Kinds  BY DEF CacheOf, Kinds
<1>1. CASE x \in Invns(chan, h, d)
  <2>1. PICK k \in DOMAIN chan["INVN"][h][d] : x = <<"INVN", k>>  BY <1>1 DEF Invns
  <2>2. p = chan["INVN"][h][d][k]  BY <2>1 DEF At
  <2>3. PacketOK("INVN", h, d, p, T)  BY <2>2 DEF Inv, ChanOK, Types
  <2>4. QED  BY <1>0, <2>3 DEF PacketOK
<1>2. CASE x \in Answers(chan, h, d)
  <2>1. PICK k \in DOMAIN chan["RESP"][d][h] : x = <<"RESP", k>>  BY <1>2 DEF Answers
  <2>2. p = chan["RESP"][d][h][k]  BY <2>1 DEF At
  <2>3. PacketOK("RESP", d, h, p, T)  BY <2>2 DEF Inv, ChanOK, Types
  <2>4. QED  BY <1>0, <2>3 DEF PacketOK
<1>3. CASE x \in Asks(cpu, h, d)
  <2>1. PICK i \in Entries : x = <<"missq", i>> /\ External(cpu[d].missq[i])  BY <1>3 DEF Asks
  <2>2. p = cpu[d].missq[i]  BY <2>1 DEF At
  <2>3. Good(cpu[d], Env(cpu, chan, d, T))  BY CpuGood
  <2>4. EntryOK(cpu[d].cpuid, p, Env(cpu, chan, d, T))  BY <2>2, <2>3, CoreOf
  <2>5. External(p)  BY <2>1, <2>2
  <2>6. p.cache = CacheOf(p.blk, Env(cpu, chan, d, T).text)  BY <2>4, <2>5 DEF EntryOK
  <2>7. QED  BY <1>0, <2>6, EnvText
<1>4. QED  BY <1>1, <1>2, <1>3 DEF Tokens

\* A packet of the new channels that was there before, where it was, and what it is.
Shift(n, f, h, d, x) ==
  IF x[1] = "INVN" THEN Taken(n, f, "INVN", h, d) ELSE Taken(n, f, "RESP", d, h)
Back(n, f, h, d, x) == <<x[1], x[2] + Shift(n, f, h, d, x)>>
Packets(ch, h, d) == Invns(ch, h, d) \cup Answers(ch, h, d)
Old(n, f, c, ch, h, d, x) ==
  /\ x = <<x[1], x[2]>> /\ x[1] \in {"INVN", "RESP"} /\ x[2] \in Nat \ {0}
  /\ Back(n, f, h, d, x) \in Packets(chan, h, d)
  /\ At(cpu, chan, h, d, Back(n, f, h, d, x)) = At(c, ch, h, d, x)
NewInvn(n, f, z, h, d, x, p) ==
  /\ h = n /\ x = <<"INVN", x[2]>> /\ x[2] \in Nat
  /\ x[2] - Stay(n, f, "INVN", h, d) \in DOMAIN z.out["INVN"][d]
  /\ p = z.out["INVN"][d][x[2] - Stay(n, f, "INVN", h, d)]
NewResp(n, f, z, h, d, x, p) ==
  /\ d = n /\ x = <<"RESP", x[2]>> /\ x[2] \in Nat
  /\ x[2] - Stay(n, f, "RESP", d, h) \in DOMAIN z.out["RESP"][h]
  /\ p = z.out["RESP"][h][x[2] - Stay(n, f, "RESP", d, h)] /\ Owner[p.blk] = h

\* How many packets of a channel stay.
LEMMA StayNat ==
  ASSUME NEW T, Inv(cpu, chan, T), NEW n \in Cpus, NEW f \in Arrivals(n), NEW out, OutShape(out),
         NEW t \in Types, NEW s \in Cpus, NEW d \in Cpus
  PROVE  Stay(n, f, t, s, d) \in Nat /\ Taken(n, f, t, s, d) \in {0, 1}
<1>1. ChanStep(n, f, out, Transported(n, f, out), t, s, d)  BY ChanSteps
<1>2. QED  BY <1>1 DEF ChanStep, Taken

\* An intervention in a channel was there before or has been sent.
LEMMA InvnTok ==
  ASSUME NEW T, NEW n, NEW f, NEW z, NEW c, NEW ch, Cycle(T, n, f, z, c, ch),
         NEW h \in Cpus, NEW d \in Cpus, NEW x \in Invns(ch, h, d),
         NEW p, p = At(c, ch, h, d, x)
  PROVE  Old(n, f, c, ch, h, d, x) \/ NewInvn(n, f, z, h, d, x, p)
<1> DEFINE sh == Taken(n, f, "INVN", h, d)  l == Stay(n, f, "INVN", h, d)
<1>1. PICK k \in DOMAIN ch["INVN"][h][d] : x = <<"INVN", k>>  BY DEF Invns
<1>2. x[1] = "INVN" /\ x[2] = k /\ p = ch["INVN"][h][d][k] /\ "INVN" \in Types
  BY <1>1 DEF At, Types
<1>s. sh = Taken(n, f, "INVN", h, d) /\ l = Stay(n, f, "INVN", h, d)  OBVIOUS
<1> HIDE DEF sh, l
<1>3. /\ k \in Nat \ {0} /\ l \in Nat /\ sh \in {0, 1}
      /\ \/ /\ k <= l /\ k + sh \in DOMAIN chan["INVN"][h][d]
            /\ ch["INVN"][h][d][k] = chan["INVN"][h][d][k + sh]
         \/ /\ k > l /\ h = n /\ k - l \in DOMAIN z.out["INVN"][d]
            /\ ch["INVN"][h][d][k] = z.out["INVN"][d][k - l]
  BY <1>2, <1>s, PacketStep
<1>4. CASE k + sh \in DOMAIN chan["INVN"][h][d] /\ ch["INVN"][h][d][k] = chan["INVN"][h][d][k + sh]
  <2> DEFINE y == <<"INVN", k + sh>>
  <2>1. Back(n, f, h, d, x) = y  BY <1>2, <1>s DEF Back, Shift
  <2>2. y \in Packets(chan, h, d)  BY <1>4 DEF Packets, Invns
  <2>3. At(cpu, chan, h, d, y) = p  BY <1>2, <1>4 DEF At
  <2>4. QED  BY <1>1, <1>2, <1>3, <2>1, <2>2, <2>3 DEF Old
<1>5. CASE h = n /\ k - l \in DOMAIN z.out["INVN"][d] /\ ch["INVN"][h][d][k] = z.out["INVN"][d][k - l]
  BY <1>1, <1>2, <1>3, <1>5, <1>s DEF NewInvn
<1>6. QED  BY <1>3, <1>4, <1>5

\* An answer in a channel was there before or has been sent.
LEMMA RespTok ==
  ASSUME NEW T, NEW n, NEW f, NEW z, NEW c, NEW ch, Cycle(T, n, f, z, c, ch),
         NEW h \in Cpus, NEW d \in Cpus, NEW x \in Answers(ch, h, d),
         NEW p, p = At(c, ch, h, d, x)
  PROVE  Old(n, f, c, ch, h, d, x) \/ NewResp(n, f, z, h, d, x, p)
<1> DEFINE sh == Taken(n, f, "RESP", d, h)  l == Stay(n, f, "RESP", d, h)
<1>1. PICK k \in DOMAIN ch["RESP"][d][h] : x = <<"RESP", k>> /\ Owner[ch["RESP"][d][h][k].blk] = h
  BY DEF Answers
<1>2. x[1] = "RESP" /\ x[2] = k /\ p = ch["RESP"][d][h][k] /\ "RESP" \in Types /\ Owner[p.blk] = h
  BY <1>1 DEF At, Types
<1>s. sh = Taken(n, f, "RESP", d, h) /\ l = Stay(n, f, "RESP", d, h)  OBVIOUS
<1> HIDE DEF sh, l
<1>3. /\ k \in Nat \ {0} /\ l \in Nat /\ sh \in {0, 1}
      /\ \/ /\ k <= l /\ k + sh \in DOMAIN chan["RESP"][d][h]
            /\ ch["RESP"][d][h][k] = chan["RESP"][d][h][k + sh]
         \/ /\ k > l /\ d = n /\ k - l \in DOMAIN z.out["RESP"][h]
            /\ ch["RESP"][d][h][k] = z.out["RESP"][h][k - l]
  BY <1>2, <1>s, PacketStep
<1>4. CASE k + sh \in DOMAIN chan["RESP"][d][h] /\ ch["RESP"][d][h][k] = chan["RESP"][d][h][k + sh]
  <2> DEFINE y == <<"RESP", k + sh>>
  <2>1. Back(n, f, h, d, x) = y  BY <1>2, <1>s DEF Back, Shift
  <2>2. y \in Packets(chan, h, d)  BY <1>2, <1>4 DEF Packets, Answers
  <2>3. At(cpu, chan, h, d, y) = p  BY <1>2, <1>4 DEF At
  <2>4. QED  BY <1>1, <1>2, <1>3, <2>1, <2>2, <2>3 DEF Old
<1>5. CASE d = n /\ k - l \in DOMAIN z.out["RESP"][h] /\ ch["RESP"][d][h][k] = z.out["RESP"][h][k - l]
  BY <1>1, <1>2, <1>3, <1>5, <1>s DEF NewResp
<1>6. QED  BY <1>3, <1>4, <1>5

\* Two packets that were there before are one, if they are of one cache.
LEMMA OldOne ==
  ASSUME NEW T, NEW n, NEW f, NEW z, NEW c, NEW ch, Cycle(T, n, f, z, c, ch),
         NEW h \in Cpus, NEW d \in Cpus, NEW x, NEW y,
         Old(n, f, c, ch, h, d, x), Old(n, f, c, ch, h, d, y),
         At(c, ch, h, d, x).cache = At(c, ch, h, d, y).cache
  PROVE  x = y
<1> DEFINE a == Back(n, f, h, d, x)  b == Back(n, f, h, d, y)
<1>1. a \in Tokens(cpu, chan, h, d) /\ b \in Tokens(cpu, chan, h, d)  BY DEF Old, Packets, Tokens
<1>2. At(cpu, chan, h, d, a).cache = At(cpu, chan, h, d, b).cache  BY DEF Old
<1>3. Inv(cpu, chan, T) /\ n \in Cpus /\ f \in Arrivals(n) /\ OutShape(z.out)  BY CycleIs
<1>4. a = b
  <2> HIDE DEF a, b
  <2>1. OneToken(cpu, chan)  BY <1>3 DEF Inv
  <2>2. QED  BY <1>1, <1>2, <2>1 DEF OneToken
<1>5. x[1] = y[1] /\ x[2] + Shift(n, f, h, d, x) = y[2] + Shift(n, f, h, d, y)
  BY <1>4 DEF Back
<1>6. Shift(n, f, h, d, x) = Shift(n, f, h, d, y) /\ Shift(n, f, h, d, x) \in {0, 1}
  <2>1. "INVN" \in Types /\ "RESP" \in Types  BY DEF Types
  <2>2. Taken(n, f, "INVN", h, d) \in {0, 1} /\ Taken(n, f, "RESP", d, h) \in {0, 1}
    BY DEF Taken
  <2>3. QED  BY <1>5, <2>2 DEF Shift
<1>7. x[2] \in Nat /\ y[2] \in Nat  BY DEF Old
<1>8. x[2] = y[2]  BY <1>5, <1>6, <1>7
<1>9. x = <<x[1], x[2]>> /\ y = <<y[1], y[2]>>  BY DEF Old
<1>10. QED  BY <1>5, <1>8, <1>9

\* The packet that cpu n takes is not among them.
LEMMA InvnKept ==
  ASSUME NEW T, NEW n, NEW f, NEW z, NEW c, NEW ch, Cycle(T, n, f, z, c, ch),
         NEW h \in Cpus, NEW x, Old(n, f, c, ch, h, n, x),
         NEW p, p = At(c, ch, h, n, x), NEW u, u = After(n, T, f)
  PROVE  <<h, p.cache>> \in u.others
<1> DEFINE a == Back(n, f, h, n, x)
<1>1. a \in Packets(chan, h, n) /\ At(cpu, chan, h, n, a) = p  BY DEF Old
<1>2. Inv(cpu, chan, T) /\ n \in Cpus /\ f \in Arrivals(n)  BY CycleIs
<1>3. <<h, p.cache>> \in Env(cpu, chan, n, T).others
  <2> HIDE DEF a
  <2>1. QED  BY <1>1, <1>2, EnvOthers DEF Packets
<1>4. ASSUME <<h, p.cache>> \in InvnGone(n, f) PROVE FALSE
  <2> DEFINE s == f["INVN"]  g == Head(chan["INVN"][s][n])  b == <<"INVN", 1>>
  <2>1. s # None /\ h = s /\ p.cache = g.cache  BY <1>4 DEF InvnGone
  <2>2. "INVN" \in Types  BY DEF Types
  <2>3. g = chan["INVN"][s][n][1] /\ 1 \in DOMAIN chan["INVN"][s][n]
    BY <1>2, <2>1, <2>2, ArrivesOK
  <2>4. b \in Tokens(cpu, chan, h, n) /\ At(cpu, chan, h, n, b) = g
    BY <2>1, <2>3 DEF Tokens, Invns, At
  <2>5. a \in Tokens(cpu, chan, h, n)  BY <1>1 DEF Packets, Tokens
  <2>6. a = b
    <3>1. OneToken(cpu, chan)  BY <1>2 DEF Inv
    <3> HIDE DEF a, b, g
    <3>2. At(cpu, chan, h, n, a).cache = At(cpu, chan, h, n, b).cache  BY <1>1, <2>1, <2>4
    <3>3. QED  BY <1>2, <2>4, <2>5, <3>1, <3>2 DEF OneToken
  <2>7. x[1] = "INVN" /\ x[2] + Taken(n, f, "INVN", h, n) = 1
    BY <2>6 DEF Back, Shift
  <2>8. Taken(n, f, "INVN", h, n) = 1  BY <2>1 DEF Taken
  <2>9. x[2] \in Nat \ {0}  BY DEF Old
  <2>10. QED  BY <2>7, <2>8, <2>9
<1>5. u.others = Env(cpu, chan, n, T).others \ InvnGone(n, f)  BY AfterIs
<1>6. QED  BY <1>3, <1>4, <1>5

\* An intervention of this home that stays under way.
LEMMA RespKept ==
  ASSUME NEW T, NEW n, NEW f, NEW z, NEW c, NEW ch, Cycle(T, n, f, z, c, ch),
         NEW d \in Cpus, d # n, NEW x, NEW a \in Tokens(cpu, chan, n, d),
         \/ Old(n, f, c, ch, n, d, x) /\ a = Back(n, f, n, d, x)
         \/ a[1] = "missq",
         NEW p, p = At(cpu, chan, n, d, a), NEW u, u = After(n, T, f)
  PROVE  <<<<d, p.cache>>, p.qid>> \in u.sent
<1>2. Inv(cpu, chan, T) /\ n \in Cpus /\ f \in Arrivals(n)  BY CycleIs
<1>3. <<<<d, p.cache>>, p.qid>> \in Env(cpu, chan, n, T).sent  BY <1>2, OldToken
<1>4. ASSUME <<d, p.cache>> \in AnswerGone(n, f) PROVE FALSE
  <2> DEFINE s == f["RESP"]  g == Head(chan["RESP"][s][n])  b == <<"RESP", 1>>
  <2>1. s # None /\ Owner[g.blk] = n /\ <<d, p.cache>> = L1Of(g)  BY <1>4 DEF AnswerGone
  <2>2. "RESP" \in Types  BY DEF Types
  <2>3. /\ g = chan["RESP"][s][n][1] /\ 1 \in DOMAIN chan["RESP"][s][n] /\ s \in Cpus
        /\ PacketOK("RESP", s, n, g, T)
    BY <1>2, <2>1, <2>2, ArrivesOK
  <2>4. d = s /\ p.cache = g.cache  BY <2>1, <2>3 DEF L1Of, PacketOK
  <2>5. b \in Tokens(cpu, chan, n, d) /\ At(cpu, chan, n, d, b) = g
    BY <2>1, <2>3, <2>4 DEF Tokens, Answers, At
  <2>6. a = b
    <3>1. OneToken(cpu, chan)  BY <1>2 DEF Inv
    <3> HIDE DEF b, g
    <3>2. At(cpu, chan, n, d, a).cache = At(cpu, chan, n, d, b).cache  BY <2>4, <2>5
    <3>3. QED  BY <1>2, <2>5, <3>1, <3>2 DEF OneToken
  <2>7. Old(n, f, c, ch, n, d, x) /\ <<"RESP", 1>> = Back(n, f, n, d, x)
    BY <2>6
  <2>8. x[1] = "RESP" /\ x[2] + Taken(n, f, "RESP", d, n) = 1  BY <2>7 DEF Back, Shift
  <2>9. Taken(n, f, "RESP", d, n) = 1  BY <2>4 DEF Taken
  <2>10. x[2] \in Nat \ {0}  BY <2>7 DEF Old
  <2>11. QED  BY <2>8, <2>9, <2>10
<1>5. u.sent = {t \in Env(cpu, chan, n, T).sent : t[1] \notin AnswerGone(n, f)}  BY AfterIs
<1>6. QED  BY <1>3, <1>4, <1>5

AskTok(c, h, d, x, p) ==
  /\ x = <<"missq", x[2]>> /\ x[2] \in Entries /\ p = c[d].missq[x[2]]
  /\ External(p) /\ p.cpuid = h

\* What a home relies on of a token.
TokOK(c, h, d, p) ==
  /\ h # d /\ p.cache \in Kinds /\ p.qid \in Entries
  /\ Pending(c[h].missq[p.qid], <<d, p.cache>>)

\* An intervention that asks at its cpu.
LEMMA AskToks ==
  ASSUME NEW c, NEW ch, NEW h, NEW d, NEW x, NEW p, p = At(c, ch, h, d, x)
  PROVE  x \in Asks(c, h, d) <=> AskTok(c, h, d, x, p)
<1>1. ASSUME x \in Asks(c, h, d) PROVE AskTok(c, h, d, x, p)
  <2>1. PICK i \in Entries : x = <<"missq", i>> /\ External(c[d].missq[i]) /\ c[d].missq[i].cpuid = h
    BY <1>1 DEF Asks
  <2>2. QED  BY <2>1 DEF AskTok, At
<1>2. ASSUME AskTok(c, h, d, x, p) PROVE x \in Asks(c, h, d)
  BY <1>2 DEF AskTok, Asks
<1>3. QED  BY <1>1, <1>2

\* What is under way after a cycle: old, sent in it, or asking.
LEMMA TokClass ==
  ASSUME NEW T, NEW n, NEW f, NEW z, NEW c, NEW ch, Cycle(T, n, f, z, c, ch),
         NEW h \in Cpus, NEW d \in Cpus, NEW x \in Tokens(c, ch, h, d),
         NEW p, p = At(c, ch, h, d, x)
  PROVE  \/ Old(n, f, c, ch, h, d, x)
         \/ NewInvn(n, f, z, h, d, x, p)
         \/ NewResp(n, f, z, h, d, x, p)
         \/ AskTok(c, h, d, x, p)
<1>1. CASE x \in Invns(ch, h, d)  BY <1>1, InvnTok
<1>2. CASE x \in Answers(ch, h, d)  BY <1>2, RespTok
<1>3. CASE x \in Asks(c, h, d)  BY <1>3, AskToks
<1>4. QED  BY <1>1, <1>2, <1>3 DEF Tokens

\* What two cpus have to do with each other changes in their cycles only.
LEMMA Untouched ==
  ASSUME NEW T, NEW n, NEW f, NEW z, NEW c, NEW ch, Cycle(T, n, f, z, c, ch),
         NEW h \in Cpus, NEW d \in Cpus, h # n, d # n
  PROVE  /\ Tokens(c, ch, h, d) = Tokens(cpu, chan, h, d)
         /\ \A x : At(c, ch, h, d, x) = At(cpu, chan, h, d, x)
<1>1. ch["INVN"][h][d] = chan["INVN"][h][d] /\ ch["RESP"][d][h] = chan["RESP"][d][h]
  BY DEF Cycle, Transported, Types
<1>2. c[d] = cpu[d] /\ c[h] = cpu[h]  BY CycleIs
<1>3. Invns(ch, h, d) = Invns(chan, h, d)  BY <1>1 DEF Invns
<1>4. Answers(ch, h, d) = Answers(chan, h, d)  BY <1>1 DEF Answers
<1>5. Asks(c, h, d) = Asks(cpu, h, d)  BY <1>2 DEF Asks
<1>6. \A x : At(c, ch, h, d, x) = At(cpu, chan, h, d, x)  BY <1>1, <1>2 DEF At
<1>7. QED  BY <1>3, <1>4, <1>5, <1>6 DEF Tokens

\* Two cpus that do nothing in the cycle.
LEMMA UntouchedOK ==
  ASSUME NEW T, NEW n, NEW f, NEW z, NEW c, NEW ch, Cycle(T, n, f, z, c, ch),
         NEW h \in Cpus, NEW d \in Cpus, h # n, d # n
  PROVE  /\ \A x \in Tokens(c, ch, h, d) : TokOK(c, h, d, At(c, ch, h, d, x))
         /\ \A x, y \in Tokens(c, ch, h, d) :
              At(c, ch, h, d, x).cache = At(c, ch, h, d, y).cache => x = y
<1>1. Inv(cpu, chan, T) /\ c[h] = cpu[h]  BY CycleIs
<1>2. /\ Tokens(c, ch, h, d) = Tokens(cpu, chan, h, d)
      /\ \A x : At(c, ch, h, d, x) = At(cpu, chan, h, d, x)
  BY Untouched
<1>3. ASSUME NEW x \in Tokens(cpu, chan, h, d) PROVE TokOK(c, h, d, At(cpu, chan, h, d, x))
  <2> DEFINE p == At(cpu, chan, h, d, x)
  <2>1. p.qid \in Entries /\ h # d /\ Pending(cpu[h].missq[p.qid], <<d, p.cache>>)
    BY <1>1, OldToken
  <2>2. p.cache \in Kinds  BY <1>1, OldKind
  <2> HIDE DEF p
  <2>3. TokOK(c, h, d, p)  BY <1>1, <2>1, <2>2 DEF TokOK
  <2>4. QED  BY <2>3 DEF p
<1>4. OneToken(cpu, chan)  BY <1>1 DEF Inv
<1>5. \A x, y \in Tokens(cpu, chan, h, d) :
        At(cpu, chan, h, d, x).cache = At(cpu, chan, h, d, y).cache => x = y
  BY <1>4 DEF OneToken
<1>6. QED  BY <1>2, <1>3, <1>5

\* A cpu asks nothing of itself.
LEMMA NoSelf ==
  ASSUME NEW T, NEW n, NEW f, NEW z, NEW c, NEW ch, Cycle(T, n, f, z, c, ch)
  PROVE  Tokens(c, ch, n, n) = {}
<1> DEFINE u == After(n, T, f)
<1>0. /\ ChanOK(ch, T) /\ c[n].missq = z.missq /\ n \in Cpus
      /\ \A i \in Entries : EntryOK(n, z.missq[i], u)
  BY CycleIs
<1>1. "INVN" \in Types /\ "RESP" \in Types  BY DEF Types
<1>2. DOMAIN ch["INVN"][n][n] = {}
  <2>1. \A k \in DOMAIN ch["INVN"][n][n] : PacketOK("INVN", n, n, ch["INVN"][n][n][k], T)
    BY <1>0, <1>1 DEF ChanOK
  <2>2. QED  BY <2>1 DEF PacketOK
<1>3. DOMAIN ch["RESP"][n][n] = {}
  <2>1. \A k \in DOMAIN ch["RESP"][n][n] : PacketOK("RESP", n, n, ch["RESP"][n][n][k], T)
    BY <1>0, <1>1 DEF ChanOK
  <2>2. QED  BY <2>1 DEF PacketOK
<1>4. ASSUME NEW i \in Entries, External(z.missq[i]), z.missq[i].cpuid = n PROVE FALSE
  <2>1. EntryOK(n, z.missq[i], u)  BY <1>0
  <2>2. z.missq[i].state # "EMPTY"  BY <1>4, <2>1 DEF EntryOK
  <2>3. AskOK(n, z.missq[i], u)  BY <1>4, <2>1, <2>2 DEF EntryOK
  <2>4. QED  BY <1>4, <2>3 DEF AskOK
<1>5. Asks(c, n, n) = {}  BY <1>0, <1>4 DEF Asks
<1>6. Invns(ch, n, n) = {} /\ Answers(ch, n, n) = {}  BY <1>2, <1>3 DEF Invns, Answers
<1>7. QED  BY <1>5, <1>6 DEF Tokens

-----------------------------------------------------------------------------
(***************************************************************************)
(* Interventions of the home that had the cycle.                           *)
(***************************************************************************)

\* Cpu n as the home: a token of the new state is one that was there, or an
\* intervention that n sends in the cycle.
Was(n, f, d, x) == IF x[1] = "missq" THEN x ELSE Back(n, f, n, d, x)
Kept(n, f, c, ch, d, x) ==
  \/ Old(n, f, c, ch, n, d, x)
  \/ AskTok(c, n, d, x, At(c, ch, n, d, x))

\* At its home, an intervention under way was so before or has been sent ...
LEMMA HomeClass ==
  ASSUME NEW T, NEW n, NEW f, NEW z, NEW c, NEW ch, Cycle(T, n, f, z, c, ch),
         NEW d \in Cpus, d # n, NEW x \in Tokens(c, ch, n, d),
         NEW p, p = At(c, ch, n, d, x)
  PROVE  Kept(n, f, c, ch, d, x) \/ NewInvn(n, f, z, n, d, x, p)
<1>1. n \in Cpus  BY CycleIs
<1>2. ~NewResp(n, f, z, n, d, x, p)  BY DEF NewResp
<1>3. QED  BY <1>1, <1>2, TokClass DEF Kept

\* ... where what was so before ...
LEMMA HomeWas ==
  ASSUME NEW T, NEW n, NEW f, NEW z, NEW c, NEW ch, Cycle(T, n, f, z, c, ch),
         NEW d \in Cpus, d # n, NEW x, Kept(n, f, c, ch, d, x),
         NEW y, y = Was(n, f, d, x)
  PROVE  y \in Tokens(cpu, chan, n, d) /\ At(cpu, chan, n, d, y) = At(c, ch, n, d, x)
<1> DEFINE p == At(c, ch, n, d, x)
<1>0. c[d] = cpu[d] /\ n \in Cpus  BY CycleIs
<1>1. CASE Old(n, f, c, ch, n, d, x)
  <2>1. y = Back(n, f, n, d, x)  BY <1>1 DEF Was, Old
  <2>2. QED  BY <1>1, <2>1 DEF Old, Packets, Tokens
<1>2. CASE AskTok(c, n, d, x, p)
  <2>1. x[1] = "missq" /\ y = x  BY <1>2 DEF AskTok, Was
  <2>2. AskTok(cpu, n, d, x, p)  BY <1>0, <1>2 DEF AskTok
  <2>3. At(cpu, chan, n, d, x) = p  BY <2>1, <2>2 DEF At, AskTok
  <2>4. x \in Tokens(cpu, chan, n, d)  BY <2>2, <2>3, AskToks DEF Tokens
  <2>5. QED  BY <2>1, <2>3, <2>4
<1>3. QED  BY <1>1, <1>2 DEF Kept

\* ... still has its entry in a round ...
LEMMA HomeKept ==
  ASSUME NEW T, NEW n, NEW f, NEW z, NEW c, NEW ch, Cycle(T, n, f, z, c, ch),
         NEW d \in Cpus, d # n, NEW x, Kept(n, f, c, ch, d, x),
         NEW p, p = At(c, ch, n, d, x), NEW u, u = After(n, T, f)
  PROVE  /\ Was(n, f, d, x) \in Tokens(cpu, chan, n, d)
         /\ At(cpu, chan, n, d, Was(n, f, d, x)) = p
         /\ <<<<d, p.cache>>, p.qid>> \in u.sent
<1> DEFINE y == Was(n, f, d, x)
<1>0. c[d] = cpu[d] /\ n \in Cpus  BY CycleIs
<1>1. CASE Old(n, f, c, ch, n, d, x)
  <2>1. y = Back(n, f, n, d, x)  BY <1>1 DEF Was, Old
  <2>2. y \in Tokens(cpu, chan, n, d) /\ At(cpu, chan, n, d, y) = p
    BY <1>1, <2>1 DEF Old, Packets, Tokens
  <2> HIDE DEF y
  <2>3. <<<<d, p.cache>>, p.qid>> \in u.sent
    BY ONLY <1>1, <2>1, <2>2, RespKept, Cycle(T, n, f, z, c, ch), d \in Cpus, d # n,
            u = After(n, T, f)
  <2>4. QED  BY <2>2, <2>3 DEF y
<1>2. CASE AskTok(c, n, d, x, p)
  <2>1. x[1] = "missq" /\ y = x  BY <1>2 DEF AskTok, Was
  <2>2. AskTok(cpu, n, d, x, p)  BY <1>0, <1>2 DEF AskTok
  <2>3. At(cpu, chan, n, d, x) = p  BY <2>1, <2>2 DEF At, AskTok
  <2>4. x \in Tokens(cpu, chan, n, d)  BY <2>2, <2>3, AskToks DEF Tokens
  <2>5. <<<<d, p.cache>>, p.qid>> \in u.sent
    BY ONLY <2>1, <2>3, <2>4, RespKept, Cycle(T, n, f, z, c, ch), d \in Cpus, d # n,
            u = After(n, T, f)
  <2>6. QED  BY <2>1, <2>3, <2>4, <2>5
<1>3. QED  BY <1>1, <1>2 DEF Kept

\* ... and is the only one to its cache, ...
LEMMA HomeKeptOne ==
  ASSUME NEW T, NEW n, NEW f, NEW z, NEW c, NEW ch, Cycle(T, n, f, z, c, ch),
         NEW d \in Cpus, d # n, NEW x, NEW y,
         Kept(n, f, c, ch, d, x), Kept(n, f, c, ch, d, y),
         At(c, ch, n, d, x).cache = At(c, ch, n, d, y).cache
  PROVE  x = y
<1> DEFINE a == Was(n, f, d, x)  b == Was(n, f, d, y)
<1>0. n \in Cpus /\ OneToken(cpu, chan)  BY CycleIs DEF Inv
<1>1. /\ a \in Tokens(cpu, chan, n, d) /\ b \in Tokens(cpu, chan, n, d)
      /\ At(cpu, chan, n, d, a) = At(c, ch, n, d, x) /\ At(cpu, chan, n, d, b) = At(c, ch, n, d, y)
  BY HomeWas
<1>2. a = b
  <2> HIDE DEF a, b
  <2>1. QED  BY <1>0, <1>1 DEF OneToken
<1>3. CASE Old(n, f, c, ch, n, d, x) /\ Old(n, f, c, ch, n, d, y)
  BY <1>0, <1>3, OldOne
<1>4. ASSUME NEW w, ~Old(n, f, c, ch, n, d, w), Kept(n, f, c, ch, d, w)
      PROVE  w[1] = "missq" /\ Was(n, f, d, w) = w
  BY <1>4 DEF Kept, AskTok, Was
<1>5. ASSUME NEW w, Old(n, f, c, ch, n, d, w)
      PROVE  Was(n, f, d, w)[1] # "missq"
  BY <1>5 DEF Old, Was, Back
<1>6. CASE ~Old(n, f, c, ch, n, d, x)
  <2>1. a = x /\ a[1] = "missq"  BY <1>4, <1>6
  <2>2. ~Old(n, f, c, ch, n, d, y)  BY <1>2, <1>5, <2>1
  <2>3. b = y  BY <1>4, <2>2
  <2>4. QED  BY <1>2, <2>1, <2>3
<1>7. CASE ~Old(n, f, c, ch, n, d, y)
  <2>1. b = y /\ b[1] = "missq"  BY <1>4, <1>7
  <2>2. ~Old(n, f, c, ch, n, d, x)  BY <1>2, <1>5, <2>1
  <2>3. a = x  BY <1>4, <2>2
  <2>4. QED  BY <1>2, <2>1, <2>3
<1>8. QED  BY <1>3, <1>6, <1>7

\* Every block belongs to a data or an instruction cache.
LEMMA KindOf ==
  ASSUME NEW b, NEW T
  PROVE  CacheOf(b, T) \in Kinds
BY DEF CacheOf, Kinds

\* ... and what has been sent is the only one to its cache ...
LEMMA HomeNew ==
  ASSUME NEW T, NEW n, NEW f, NEW z, NEW c, NEW ch, Cycle(T, n, f, z, c, ch),
         NEW d \in Cpus, d # n, NEW x, NEW p, NewInvn(n, f, z, n, d, x, p),
         NEW u, u = After(n, T, f)
  PROVE  /\ TokOK(c, n, d, p)
         /\ \A t \in u.sent : t[1] # <<d, p.cache>>
         /\ \A y, r : NewInvn(n, f, z, n, d, y, r) /\ r.cache = p.cache => x = y
<1> DEFINE o == z.out["INVN"][d]  l == Stay(n, f, "INVN", n, d)
<1>0. /\ c[n].missq = z.missq /\ n \in Cpus /\ OutTyped(n, z.out, u)
      /\ InvnsOut(z.missq, z.out, u) /\ OutShape(z.out) /\ f \in Arrivals(n) /\ Inv(cpu, chan, T)
  BY CycleIs
<1>t. "INVN" \in Types  BY DEF Types
<1>1. x = <<"INVN", x[2]>> /\ x[2] \in Nat /\ x[2] - l \in DOMAIN o /\ p = o[x[2] - l]
  BY DEF NewInvn
<1>2. l \in Nat  BY <1>0, <1>t, StayNat
<1>3. PacketOK("INVN", n, d, p, u.text)  BY <1>0, <1>1, <1>t DEF OutTyped
<1>4. p.qid \in Entries /\ p.cache \in Kinds  BY <1>3, KindOf DEF PacketOK
<1>5. /\ Pending(z.missq[p.qid], <<d, p.cache>>) /\ \A t \in u.sent : t[1] # <<d, p.cache>>
      /\ \A m \in DOMAIN o : o[m].cache = p.cache => m = x[2] - l
  BY <1>0, <1>1 DEF InvnsOut
<1>6. TokOK(c, n, d, p)  BY <1>0, <1>4, <1>5 DEF TokOK
<1>7. ASSUME NEW y, NEW r, NewInvn(n, f, z, n, d, y, r), r.cache = p.cache PROVE x = y
  <2>1. y = <<"INVN", y[2]>> /\ y[2] \in Nat /\ y[2] - l \in DOMAIN o /\ r = o[y[2] - l]
    BY <1>7 DEF NewInvn
  <2>2. y[2] - l = x[2] - l  BY <1>5, <1>7, <2>1
  <2> HIDE DEF l
  <2>3. y[2] = x[2]  BY <1>1, <1>2, <2>1, <2>2
  <2>4. QED  BY <1>1, <2>1, <2>3
<1>8. QED  BY <1>5, <1>6, <1>7

\* ... so that the home of the cycle has one to each cache.
LEMMA HomeOK ==
  ASSUME NEW T, NEW n, NEW f, NEW z, NEW c, NEW ch, Cycle(T, n, f, z, c, ch),
         NEW d \in Cpus, d # n
  PROVE  /\ \A x \in Tokens(c, ch, n, d) : TokOK(c, n, d, At(c, ch, n, d, x))
         /\ \A x, y \in Tokens(c, ch, n, d) :
              At(c, ch, n, d, x).cache = At(c, ch, n, d, y).cache => x = y
<1> DEFINE u == After(n, T, f)
<1>0. /\ c[n].missq = z.missq /\ n \in Cpus /\ Inv(cpu, chan, T) /\ SentOK(n, z.missq, u)
  BY CycleIs
<1>u. u = After(n, T, f)  OBVIOUS
<1> HIDE DEF u
<1>1. ASSUME NEW x \in Tokens(c, ch, n, d) PROVE TokOK(c, n, d, At(c, ch, n, d, x))
  <2> DEFINE p == At(c, ch, n, d, x)
  <2>0. p = At(c, ch, n, d, x)  OBVIOUS
  <2> HIDE DEF p
  <2>1. CASE Kept(n, f, c, ch, d, x)
    <3> DEFINE a == Was(n, f, d, x)
    <3>1. /\ a \in Tokens(cpu, chan, n, d) /\ At(cpu, chan, n, d, a) = p
          /\ <<<<d, p.cache>>, p.qid>> \in u.sent
      BY <1>u, <2>0, <2>1, HomeKept
    <3> HIDE DEF a
    <3>2. p.cache \in Kinds  BY <1>0, <3>1, OldKind
    <3>3. p.qid \in Entries /\ Pending(z.missq[p.qid], <<d, p.cache>>)
      BY <1>0, <3>1 DEF SentOK
    <3>4. TokOK(c, n, d, p)  BY <1>0, <3>2, <3>3 DEF TokOK
    <3>5. QED  BY <2>0, <3>4
  <2>2. CASE NewInvn(n, f, z, n, d, x, p)
    <3>1. TokOK(c, n, d, p)  BY <1>u, <2>2, HomeNew
    <3>2. QED  BY <2>0, <3>1
  <2>3. QED  BY <2>0, <2>1, <2>2, HomeClass
<1>2. ASSUME NEW x \in Tokens(c, ch, n, d), NEW y \in Tokens(c, ch, n, d),
             At(c, ch, n, d, x).cache = At(c, ch, n, d, y).cache
      PROVE  x = y
  <2> DEFINE p == At(c, ch, n, d, x)  r == At(c, ch, n, d, y)
  <2>0. p = At(c, ch, n, d, x) /\ r = At(c, ch, n, d, y) /\ p.cache = r.cache  BY <1>2
  <2> HIDE DEF p, r
  <2>1. /\ Kept(n, f, c, ch, d, x) => <<<<d, p.cache>>, p.qid>> \in u.sent
        /\ Kept(n, f, c, ch, d, y) => <<<<d, r.cache>>, r.qid>> \in u.sent
    BY <1>u, <2>0, HomeKept
  <2>2. /\ Kept(n, f, c, ch, d, x) \/ NewInvn(n, f, z, n, d, x, p)
        /\ Kept(n, f, c, ch, d, y) \/ NewInvn(n, f, z, n, d, y, r)
    BY <2>0, HomeClass
  <2>3. /\ NewInvn(n, f, z, n, d, x, p) => \A t \in u.sent : t[1] # <<d, p.cache>>
        /\ NewInvn(n, f, z, n, d, y, r) => \A t \in u.sent : t[1] # <<d, r.cache>>
    BY <1>u, HomeNew
  <2>4. CASE Kept(n, f, c, ch, d, x) /\ Kept(n, f, c, ch, d, y)
    BY <2>0, <2>4, HomeKeptOne
  <2>5. CASE NewInvn(n, f, z, n, d, x, p) /\ NewInvn(n, f, z, n, d, y, r)
    BY <1>u, <2>0, <2>5, HomeNew
  <2>6. QED  BY <2>0, <2>1, <2>2, <2>3, <2>4, <2>5
<1>3. QED  BY <1>1, <1>2

-----------------------------------------------------------------------------
(***************************************************************************)
(* Interventions that the cpu of the cycle is asked.                       *)
(***************************************************************************)

\* Cpu n as the one asked: what the home h asked for and has no answer of is an
\* intervention or an answer that was under way, one that asks in the miss
\* queue of n, or an answer that n sends in the cycle.
LEMMA SideClass ==
  ASSUME NEW T, NEW n, NEW f, NEW z, NEW c, NEW ch, Cycle(T, n, f, z, c, ch),
         NEW h \in Cpus, h # n, NEW x \in Tokens(c, ch, h, n),
         NEW p, p = At(c, ch, h, n, x)
  PROVE  \/ Old(n, f, c, ch, h, n, x)
         \/ AskTok(c, h, n, x, p)
         \/ NewResp(n, f, z, h, n, x, p)
<1>1. n \in Cpus  BY CycleIs
<1>2. ~NewInvn(n, f, z, h, n, x, p)  BY DEF NewInvn
<1>3. QED  BY <1>1, <1>2, TokClass

\* At the cpu asked, what was in a channel before is awaited, ...
LEMMA SideOld ==
  ASSUME NEW T, NEW n, NEW f, NEW z, NEW c, NEW ch, Cycle(T, n, f, z, c, ch),
         NEW h \in Cpus, h # n, NEW x, Old(n, f, c, ch, h, n, x),
         NEW p, p = At(c, ch, h, n, x)
  PROVE  TokOK(c, h, n, p)
<1> DEFINE y == Back(n, f, h, n, x)
<1>0. n \in Cpus /\ c[h] = cpu[h] /\ Inv(cpu, chan, T)  BY CycleIs
<1>1. y \in Tokens(cpu, chan, h, n) /\ At(cpu, chan, h, n, y) = p
  BY DEF Old, Packets, Tokens
<1> HIDE DEF y
<1>2. p.cache \in Kinds  BY <1>0, <1>1, OldKind
<1>3. p.qid \in Entries /\ Pending(cpu[h].missq[p.qid], <<n, p.cache>>)
  BY <1>0, <1>1, OldToken
<1>4. QED  BY <1>0, <1>2, <1>3 DEF TokOK

\* ... what asks in its queue is awaited and not in a channel, ...
LEMMA SideAsk ==
  ASSUME NEW T, NEW n, NEW f, NEW z, NEW c, NEW ch, Cycle(T, n, f, z, c, ch),
         NEW h \in Cpus, h # n, NEW x, NEW p, AskTok(c, h, n, x, p)
  PROVE  /\ TokOK(c, h, n, p) /\ <<h, p.cache>> \notin After(n, T, f).others
         /\ <<h, p.cache, p.qid>> \in Env(cpu, chan, n, T).asked
<1> DEFINE u == After(n, T, f)
<1>u. u = After(n, T, f)  OBVIOUS
<1> HIDE DEF u
<1>0. /\ n \in Cpus /\ c[h] = cpu[h] /\ c[n].missq = z.missq /\ Inv(cpu, chan, T)
      /\ OneAsks(z.missq) /\ \A i \in Entries : EntryOK(n, z.missq[i], u)
  BY <1>u, CycleIs
<1>1. /\ x = <<"missq", x[2]>> /\ x[2] \in Entries /\ p = z.missq[x[2]]
      /\ External(p) /\ p.cpuid = h
  BY <1>0 DEF AskTok
<1>2. EntryOK(n, p, u)  BY <1>0, <1>1
<1>3. p.state # "EMPTY"  BY <1>1, <1>2 DEF EntryOK
<1>4. AskOK(n, p, u)  BY <1>1, <1>2, <1>3 DEF EntryOK
<1>5. <<h, p.cache, p.qid>> \in u.asked /\ <<h, p.cache>> \notin u.others
  BY <1>1, <1>4 DEF AskOK
<1>6. u.asked = Env(cpu, chan, n, T).asked  BY <1>u, AfterIs
<1>7. p.cache \in Kinds /\ p.qid \in Entries /\ Pending(cpu[h].missq[p.qid], <<n, p.cache>>)
  BY <1>5, <1>6, EnvAsked
<1>8. TokOK(c, h, n, p)  BY <1>0, <1>7 DEF TokOK
<1>9. QED  BY <1>u, <1>5, <1>6, <1>8

\* ... at most one asks for each home and cache, ...
LEMMA SideAskOne ==
  ASSUME NEW T, NEW n, NEW f, NEW z, NEW c, NEW ch, Cycle(T, n, f, z, c, ch),
         NEW h \in Cpus, NEW x, NEW p, AskTok(c, h, n, x, p),
         NEW y, NEW r, AskTok(c, h, n, y, r), r.cache = p.cache
  PROVE  x = y
<1>1. c[n].missq = z.missq /\ OneAsks(z.missq)  BY CycleIs
<1>2. /\ x = <<"missq", x[2]>> /\ x[2] \in Entries /\ p = z.missq[x[2]]
      /\ External(p) /\ p.cpuid = h
  BY <1>1 DEF AskTok
<1>3. /\ y = <<"missq", y[2]>> /\ y[2] \in Entries /\ r = z.missq[y[2]]
      /\ External(r) /\ r.cpuid = h
  BY <1>1 DEF AskTok
<1>4. SameAsk(z.missq[y[2]], z.missq[x[2]].cpuid, z.missq[x[2]].cache)
  BY <1>2, <1>3 DEF SameAsk
<1>5. External(z.missq[x[2]])  BY <1>2
<1>6. x[2] = y[2]  BY <1>1, <1>2, <1>3, <1>4, <1>5 DEF OneAsks
<1>7. QED  BY <1>2, <1>3, <1>6

\* ... an answer that is sent is awaited, ...
LEMMA SideNew ==
  ASSUME NEW T, NEW n, NEW f, NEW z, NEW c, NEW ch, Cycle(T, n, f, z, c, ch),
         NEW h \in Cpus, h # n, NEW x, NEW p, NewResp(n, f, z, h, n, x, p)
  PROVE  /\ TokOK(c, h, n, p) /\ <<h, p.cache>> \notin After(n, T, f).others
         /\ \A i \in Entries : ~SameAsk(z.missq[i], h, p.cache)
         /\ \A y, r : NewResp(n, f, z, h, n, y, r) /\ r.cache = p.cache => x = y
<1> DEFINE o == z.out["RESP"][h]  l == Stay(n, f, "RESP", n, h)  u == After(n, T, f)
<1>u. u = After(n, T, f)  OBVIOUS
<1> HIDE DEF u
<1>0. /\ n \in Cpus /\ c[h] = cpu[h] /\ c[n].missq = z.missq /\ Inv(cpu, chan, T)
      /\ OutShape(z.out) /\ RespsOut(z.missq, z.out, u) /\ f \in Arrivals(n)
  BY <1>u, CycleIs
<1>t. "RESP" \in Types  BY DEF Types
<1>1. /\ x = <<"RESP", x[2]>> /\ x[2] \in Nat /\ x[2] - l \in DOMAIN o /\ p = o[x[2] - l]
      /\ Owner[p.blk] = h
  BY DEF NewResp
<1>2. l \in Nat  BY <1>0, <1>t, StayNat
<1>3. /\ <<h, p.cache, p.qid>> \in u.asked /\ <<h, p.cache>> \notin u.others
      /\ \A i \in Entries : ~SameAsk(z.missq[i], h, p.cache)
      /\ \A m \in DOMAIN o : Owner[o[m].blk] = h /\ o[m].cache = p.cache => m = x[2] - l
  BY <1>0, <1>1 DEF RespsOut
<1>4. u.asked = Env(cpu, chan, n, T).asked  BY <1>u, AfterIs
<1>5. p.cache \in Kinds /\ p.qid \in Entries /\ Pending(cpu[h].missq[p.qid], <<n, p.cache>>)
  BY <1>3, <1>4, EnvAsked
<1>6. TokOK(c, h, n, p)  BY <1>0, <1>5 DEF TokOK
<1>7. ASSUME NEW y, NEW r, NewResp(n, f, z, h, n, y, r), r.cache = p.cache PROVE x = y
  <2>1. /\ y = <<"RESP", y[2]>> /\ y[2] \in Nat /\ y[2] - l \in DOMAIN o /\ r = o[y[2] - l]
        /\ Owner[r.blk] = h
    BY <1>7 DEF NewResp
  <2>2. y[2] - l = x[2] - l  BY <1>3, <1>7, <2>1
  <2> HIDE DEF l
  <2>3. y[2] = x[2]  BY <1>1, <1>2, <2>1, <2>2
  <2>4. QED  BY <1>1, <2>1, <2>3
<1>8. QED  BY <1>u, <1>3, <1>6, <1>7

\* ... and is not one of an intervention that still asks ...
LEMMA SideAskNew ==
  ASSUME NEW T, NEW n, NEW f, NEW z, NEW c, NEW ch, Cycle(T, n, f, z, c, ch),
         NEW h \in Cpus, h # n, NEW x, NEW p, AskTok(c, h, n, x, p),
         NEW y, NEW r, NewResp(n, f, z, h, n, y, r), r.cache = p.cache
  PROVE  FALSE
<1>1. c[n].missq = z.missq  BY CycleIs
<1>2. \E i \in Entries : SameAsk(z.missq[i], h, p.cache)  BY <1>1 DEF AskTok, SameAsk
<1>3. \A i \in Entries : ~SameAsk(z.missq[i], h, r.cache)  BY SideNew
<1>4. QED  BY <1>2, <1>3

\* ... so that the cpu of the cycle has one for each home and cache.
LEMMA SideOK ==
  ASSUME NEW T, NEW n, NEW f, NEW z, NEW c, NEW ch, Cycle(T, n, f, z, c, ch),
         NEW h \in Cpus, h # n
  PROVE  /\ \A x \in Tokens(c, ch, h, n) : TokOK(c, h, n, At(c, ch, h, n, x))
         /\ \A x, y \in Tokens(c, ch, h, n) :
              At(c, ch, h, n, x).cache = At(c, ch, h, n, y).cache => x = y
<1>0. n \in Cpus  BY CycleIs
<1>1. ASSUME NEW x \in Tokens(c, ch, h, n) PROVE TokOK(c, h, n, At(c, ch, h, n, x))
  <2> DEFINE p == At(c, ch, h, n, x)
  <2>0. p = At(c, ch, h, n, x)  OBVIOUS
  <2> HIDE DEF p
  <2>1. CASE Old(n, f, c, ch, h, n, x)  BY <2>0, <2>1, SideOld
  <2>2. CASE AskTok(c, h, n, x, p)
    <3>1. AskTok(c, h, n, x, p) => TokOK(c, h, n, p)  BY SideAsk
    <3>2. QED  BY <2>0, <2>2, <3>1
  <2>3. CASE NewResp(n, f, z, h, n, x, p)
    <3>1. NewResp(n, f, z, h, n, x, p) => TokOK(c, h, n, p)  BY SideNew
    <3>2. QED  BY <2>0, <2>3, <3>1
  <2>4. QED  BY <2>0, <2>1, <2>2, <2>3, SideClass
<1>2. ASSUME NEW x \in Tokens(c, ch, h, n), NEW y \in Tokens(c, ch, h, n),
             At(c, ch, h, n, x).cache = At(c, ch, h, n, y).cache
      PROVE  x = y
  <2> DEFINE p == At(c, ch, h, n, x)  r == At(c, ch, h, n, y)
  <2>0. p = At(c, ch, h, n, x) /\ r = At(c, ch, h, n, y) /\ p.cache = r.cache  BY <1>2
  <2> HIDE DEF p, r
  <2>1. /\ Old(n, f, c, ch, h, n, x) => <<h, p.cache>> \in After(n, T, f).others
        /\ Old(n, f, c, ch, h, n, y) => <<h, r.cache>> \in After(n, T, f).others
    BY <2>0, InvnKept
  <2>2. /\ AskTok(c, h, n, x, p) => <<h, p.cache>> \notin After(n, T, f).others
        /\ AskTok(c, h, n, y, r) => <<h, r.cache>> \notin After(n, T, f).others
    BY SideAsk
  <2>3. /\ NewResp(n, f, z, h, n, x, p) => <<h, p.cache>> \notin After(n, T, f).others
        /\ NewResp(n, f, z, h, n, y, r) => <<h, r.cache>> \notin After(n, T, f).others
    BY SideNew
  <2>4. /\ \/ Old(n, f, c, ch, h, n, x) \/ AskTok(c, h, n, x, p) \/ NewResp(n, f, z, h, n, x, p)
        /\ \/ Old(n, f, c, ch, h, n, y) \/ AskTok(c, h, n, y, r) \/ NewResp(n, f, z, h, n, y, r)
    BY <2>0, SideClass
  <2>5. CASE Old(n, f, c, ch, h, n, x) /\ Old(n, f, c, ch, h, n, y)
    BY <1>0, <2>0, <2>5, OldOne
  <2>6. CASE AskTok(c, h, n, x, p) /\ AskTok(c, h, n, y, r)
    BY <2>0, <2>6, SideAskOne
  <2>7. CASE NewResp(n, f, z, h, n, x, p) /\ NewResp(n, f, z, h, n, y, r)
    <3>1. NewResp(n, f, z, h, n, x, p)
            => \A w, q : NewResp(n, f, z, h, n, w, q) /\ q.cache = p.cache => x = w
      BY SideNew
    <3>2. QED  BY <2>0, <2>7, <3>1
  <2>8. /\ ~(AskTok(c, h, n, x, p) /\ NewResp(n, f, z, h, n, y, r))
        /\ ~(AskTok(c, h, n, y, r) /\ NewResp(n, f, z, h, n, x, p))
    BY <2>0, SideAskNew
  <2>9. QED  BY <2>0, <2>1, <2>2, <2>3, <2>4, <2>5, <2>6, <2>7, <2>8
<1>3. QED  BY <1>1, <1>2

\* After a cycle every cpu is asked once, and the home waits for what it asked.
LEMMA TokensStep ==
  ASSUME NEW T, NEW n, NEW f, NEW z, NEW c, NEW ch, Cycle(T, n, f, z, c, ch)
  PROVE  /\ OneToken(c, ch)
         /\ \A h, d \in Cpus : \A x \in Tokens(c, ch, h, d) : TokOK(c, h, d, At(c, ch, h, d, x))
<1>1. ASSUME NEW h \in Cpus, NEW d \in Cpus
      PROVE  /\ \A x \in Tokens(c, ch, h, d) : TokOK(c, h, d, At(c, ch, h, d, x))
             /\ \A x, y \in Tokens(c, ch, h, d) :
                  At(c, ch, h, d, x).cache = At(c, ch, h, d, y).cache => x = y
  <2>1. CASE h = n /\ d = n
    <3>1. Tokens(c, ch, h, d) = {}  BY <2>1, NoSelf
    <3>2. QED  BY <3>1
  <2>2. CASE h = n /\ d # n
    BY <2>2, HomeOK
  <2>3. CASE h # n /\ d = n
    BY <2>3, SideOK
  <2>4. CASE h # n /\ d # n
    BY <2>4, UntouchedOK
  <2>5. QED  BY <2>1, <2>2, <2>3, <2>4
<1>2. QED  BY <1>1 DEF OneToken

-----------------------------------------------------------------------------
(***************************************************************************)
(* A cycle of one cpu keeps the invariant of all.                          *)
(***************************************************************************)

\* What a cpu relies on of the others may change between its cycles.
LEMMA EnvChange ==
  ASSUME NEW st, NEW v, NEW w, Good(st, w), st.out = NothingSent,
         v.self = w.self, v.text = w.text,
         \A i \in Entries : External(st.missq[i]) /\ st.missq[i].cpuid \in Cpus =>
           LET e == st.missq[i]
           IN  <<e.cpuid, e.cache, e.qid>> \in v.asked /\ <<e.cpuid, e.cache>> \notin v.others,
         SentOK(st.cpuid, st.missq, v)
  PROVE  Good(st, v)
<1> DEFINE n == st.cpuid  q == st.missq
<1>0. /\ Core(n, q, st.missq_num, st.dl2, st.refilltag, st.refilli, w)
      /\ Evs(n, q, st.events) /\ DOMAIN st = CpuFields
  BY CoreOf
<1>1. ASSUME NEW i \in Entries PROVE EntryOK(n, q[i], v) /\ RoundOK(n, q[i], st.dl2, v)
  <2>1. EntryOK(n, q[i], w) /\ RoundOK(n, q[i], st.dl2, w)  BY <1>0 DEF Core
  <2>2. External(q[i]) => q[i].state # "EMPTY"  BY <2>1 DEF EntryOK
  <2>3. External(q[i]) => AskOK(n, q[i], w) /\ q[i].cpuid \in Cpus  BY <2>1, <2>2 DEF EntryOK
  <2>4. External(q[i]) => AskOK(n, q[i], v)  BY <2>3 DEF AskOK
  <2>5. EntryOK(n, q[i], v)  BY <2>1, <2>4 DEF EntryOK
  <2>6. RoundOK(n, q[i], st.dl2, v)  BY <2>1 DEF RoundOK
  <2>7. QED  BY <2>5, <2>6
<1>2. Core(n, q, st.missq_num, st.dl2, st.refilltag, st.refilli, v)
  BY <1>0, <1>1 DEF Core
<1>3. Outs(n, q, st.out, v)  BY NothingOut
<1>4. M(st, v)  BY <1>0, <1>2, <1>3 DEF M, MissOK
<1>5. L(st, v)  BY DEF Good, L, LsqOK, AccessOK
<1>6. QED  BY <1>0, <1>4, <1>5 DEF Good

\* The end of a cycle keeps the invariant.
LEMMA SettledGood ==
  ASSUME NEW z, NEW v, Good(z, v), NEW x, x = Settled(z)
  PROVE  Good(x, v) /\ x.out = NothingSent /\ x.cpuid = v.self /\ x.lsq_refill = z.lsq_refill
<1>1. /\ DOMAIN x = CpuFields /\ x.out = NothingSent
      /\ x.cpuid = z.cpuid /\ x.missq = z.missq /\ x.missq_num = z.missq_num
      /\ x.dl2 = z.dl2 /\ x.events = z.events /\ x.refilltag = z.refilltag
      /\ x.refilli = z.refilli /\ WPart(x) = WPart(z) /\ LPart(x) = LPart(z)
      /\ x.lsq_refill = z.lsq_refill
  BY SettledIs
<1>2. /\ Core(z.cpuid, z.missq, z.missq_num, z.dl2, z.refilltag, z.refilli, v)
      /\ Evs(z.cpuid, z.missq, z.events)
  BY CoreOf
<1>3. Outs(z.cpuid, z.missq, NothingSent, v)  BY NothingOut
<1>4. M(x, v)  BY <1>1, <1>2, <1>3 DEF M, MissOK
<1>5. W(z) /\ L(z, v)  BY DEF Good
<1>6. W(x)  BY <1>1, <1>5 DEF W, WPart
<1>7. L(x, v)  BY <1>1, <1>5 DEF L, LPart
<1>8. x.cpuid = v.self  BY <1>1, SelfIs
<1>9. QED  BY <1>1, <1>4, <1>6, <1>7, <1>8 DEF Good

\* What an intervention in the miss queue of m relies on.
LEMMA AskStep ==
  ASSUME NEW T, NEW c, NEW ch, OneToken(c, ch), NEW h \in Cpus, NEW m \in Cpus,
         \A x \in Tokens(c, ch, h, m) : TokOK(c, h, m, At(c, ch, h, m, x)),
         NEW i \in Entries, NEW e, e = c[m].missq[i], External(e), e.cpuid = h,
         NEW v, v = Env(c, ch, m, T)
  PROVE  <<h, e.cache, e.qid>> \in v.asked /\ <<h, e.cache>> \notin v.others
<1> DEFINE x == <<"missq", i>>
<1>1. x \in Tokens(c, ch, h, m) /\ At(c, ch, h, m, x) = e  BY DEF Tokens, Asks, At
<1>2. x[1] = "missq"  OBVIOUS
<1> HIDE DEF x
<1>3. TokOK(c, h, m, e)  BY <1>1
<1>4. <<h, e.cache, e.qid>> \in v.asked  BY <1>3, EnvAsked DEF TokOK
<1>5. ASSUME <<h, e.cache>> \in v.others PROVE FALSE
  <2>1. PICK k \in Cpus : \E y \in Packets(ch, k, m) : <<h, e.cache>> = <<k, At(c, ch, k, m, y).cache>>
    BY <1>5, EnvOthers DEF Packets
  <2>2. PICK y \in Packets(ch, k, m) : <<h, e.cache>> = <<k, At(c, ch, k, m, y).cache>>
    BY <2>1
  <2>3. k = h /\ At(c, ch, h, m, y).cache = e.cache  BY <2>2
  <2>4. y \in Tokens(c, ch, h, m)  BY <2>2, <2>3 DEF Packets, Tokens
  <2>5. y = x  BY <1>1, <2>3, <2>4 DEF OneToken
  <2>6. y[1] # "missq"  BY <2>2 DEF Packets, Invns, Answers
  <2>7. QED  BY <1>2, <2>5, <2>6
<1>6. QED  BY <1>4, <1>5

\* What a round has under way is noted in its entry.
LEMMA SentStep ==
  ASSUME NEW T, NEW c, NEW ch, NEW m \in Cpus,
         \A d \in Cpus : \A x \in Tokens(c, ch, m, d) : TokOK(c, m, d, At(c, ch, m, d, x)),
         NEW v, v = Env(c, ch, m, T)
  PROVE  SentOK(m, c[m].missq, v)
<1> SUFFICES ASSUME NEW t \in v.sent
             PROVE  t[2] \in Entries /\ t[1][1] # m /\ Pending(c[m].missq[t[2]], t[1])
  BY DEF SentOK
<1>1. PICK d \in Cpus : \E x \in Tokens(c, ch, m, d) :
        t = <<<<d, At(c, ch, m, d, x).cache>>, At(c, ch, m, d, x).qid>>
  BY EnvSent
<1>2. PICK x \in Tokens(c, ch, m, d) :
        t = <<<<d, At(c, ch, m, d, x).cache>>, At(c, ch, m, d, x).qid>>
  BY <1>1
<1> DEFINE p == At(c, ch, m, d, x)
<1>3. TokOK(c, m, d, p)  BY <1>2
<1>4. t = <<<<d, p.cache>>, p.qid>>  BY <1>2
<1> HIDE DEF p
<1>5. t[2] = p.qid /\ t[1] = <<d, p.cache>> /\ t[1][1] = d  BY <1>4
<1>6. QED  BY <1>3, <1>5 DEF TokOK

\* A cycle of one cpu keeps the invariant of all.
LEMMA CycleInv ==
  ASSUME NEW T, NEW n, NEW f, NEW z, NEW c, NEW ch, Cycle(T, n, f, z, c, ch)
  PROVE  Inv(c, ch, T)
<1>1. /\ DOMAIN c = Cpus /\ c[n] = Settled(z) /\ \A d \in Cpus : d # n => c[d] = cpu[d]
      /\ ChanOK(ch, T) /\ Inv(cpu, chan, T) /\ Good(z, After(n, T, f)) /\ n \in Cpus
  BY CycleIs
<1>2. /\ OneToken(c, ch)
      /\ \A h, d \in Cpus : \A x \in Tokens(c, ch, h, d) : TokOK(c, h, d, At(c, ch, h, d, x))
  BY TokensStep
<1>3. z.lsq_refill.kind = "none"  BY DEF Cycle
<1>4. ASSUME NEW m \in Cpus PROVE Good(c[m], Env(c, ch, m, T)) /\ Rest(c, m)
  <2> DEFINE st == c[m]  v == Env(c, ch, m, T)
             w == IF m = n THEN After(n, T, f) ELSE Env(cpu, chan, m, T)
  <2>1. v.self = m /\ v.text = T  BY EnvText
  <2>2. /\ Good(st, w) /\ st.out = NothingSent /\ st.cpuid = m /\ w.self = m /\ w.text = T
        /\ st.lsq_refill.kind = "none"
    <3>1. CASE m = n
      <4> DEFINE u == After(n, T, f)
      <4>1. w = u /\ st = Settled(z) /\ Good(z, u)  BY <1>1, <3>1
      <4>2. u.self = n /\ u.text = T  BY AfterIs
      <4> HIDE DEF w, st, u
      <4>3. Good(st, u) /\ st.out = NothingSent /\ st.cpuid = u.self /\ st.lsq_refill = z.lsq_refill
        BY <4>1, SettledGood
      <4>4. QED  BY <1>3, <3>1, <4>1, <4>2, <4>3
    <3>2. CASE m # n
      <4>1. st = cpu[m] /\ w = Env(cpu, chan, m, T)  BY <1>1, <3>2
      <4>2. Good(cpu[m], Env(cpu, chan, m, T)) /\ Rest(cpu, m)  BY <1>1, CpuGood
      <4>3. Env(cpu, chan, m, T).self = m /\ Env(cpu, chan, m, T).text = T  BY EnvText
      <4>4. QED  BY <4>1, <4>2, <4>3 DEF Rest
    <3>3. QED  BY <3>1, <3>2
  <2> HIDE DEF w
  <2>s. st = c[m] /\ v = Env(c, ch, m, T)  OBVIOUS
  <2> HIDE DEF v, st
  <2>3. ASSUME NEW i \in Entries, External(st.missq[i]), st.missq[i].cpuid \in Cpus
        PROVE  LET e == st.missq[i]
               IN  <<e.cpuid, e.cache, e.qid>> \in v.asked /\ <<e.cpuid, e.cache>> \notin v.others
    <3> DEFINE e == st.missq[i]  h == e.cpuid
    <3>1. e = c[m].missq[i] /\ External(e) /\ h \in Cpus /\ e.cpuid = h  BY <2>3, <2>s
    <3> HIDE DEF e, h
    <3>2. \A x \in Tokens(c, ch, h, m) : TokOK(c, h, m, At(c, ch, h, m, x))  BY <1>2, <3>1
    <3>3. <<h, e.cache, e.qid>> \in v.asked /\ <<h, e.cache>> \notin v.others
      BY ONLY <1>2, <2>s, <3>1, <3>2, AskStep, m \in Cpus, i \in Entries
    <3>4. QED  BY <3>1, <3>3 DEF e, h
  <2>4. SentOK(m, c[m].missq, v)  BY <1>2, <2>s, SentStep
  <2>5. Good(st, v)
    <3>1. SentOK(st.cpuid, st.missq, v)  BY <2>2, <2>4, <2>s
    <3>2. v.self = w.self /\ v.text = w.text  BY <2>1, <2>2, <2>s
    <3>3. QED  BY <2>2, <2>3, <3>1, <3>2, EnvChange
  <2>6. QED  BY <2>2, <2>5, <2>s DEF Rest
<1>5. QED  BY <1>1, <1>2, <1>4 DEF Inv

\* The inductive invariant is kept by every step.
LEMMA IndStep ==
  ASSUME IndInv, Next
  PROVE  IndInv'
<1>1. PICK T \in SUBSET Blocks : Inv(cpu, chan, T)  BY DEF IndInv
<1>2. PICK n \in Cpus : cpu_execute(n)  BY DEF Next
<1>3. PICK f, z : /\ Steps(n, f, z) /\ Good(z, After(n, T, f)) /\ z.lsq_refill.kind = "none"
  BY <1>1, <1>2, StepGood
<1>4. Cycle(T, n, f, z, cpu', chan')  BY <1>1, <1>3 DEF Steps, Cycle
<1>5. Inv(cpu', chan', T)  BY <1>4, CycleInv
<1>6. QED  BY <1>1, <1>5 DEF IndInv

-----------------------------------------------------------------------------
(***************************************************************************)
(* The invariant at the start.                                             *)
(***************************************************************************)

\* At the start nothing is under way ...
LEMMA InitialEnv ==
  ASSUME NEW c, NEW ch, NEW T,
         \A n \in Cpus, i \in Entries : ~External(c[n].missq[i]),
         \A t \in Types, s, d \in Cpus : ch[t][s][d] = <<>>
  PROVE  /\ \A h, d \in Cpus : Tokens(c, ch, h, d) = {}
         /\ \A n \in Cpus : Env(c, ch, n, T).sent = {}
<1>1. "INVN" \in Types /\ "RESP" \in Types  BY DEF Types
<1>2. DOMAIN <<>> = {}  OBVIOUS
<1>3. ASSUME NEW h \in Cpus, NEW d \in Cpus PROVE Tokens(c, ch, h, d) = {}
  <2>1. DOMAIN ch["INVN"][h][d] = {} /\ DOMAIN ch["RESP"][d][h] = {}  BY <1>1, <1>2
  <2>2. Invns(ch, h, d) = {} /\ Answers(ch, h, d) = {}  BY <2>1 DEF Invns, Answers
  <2>3. Asks(c, h, d) = {}  BY DEF Asks
  <2>4. QED  BY <2>2, <2>3 DEF Tokens
<1>4. ASSUME NEW n \in Cpus PROVE Env(c, ch, n, T).sent = {}
  <2>1. \A t : t \notin Env(c, ch, n, T).sent  BY <1>3, EnvSent
  <2>2. QED  BY <2>1
<1>5. QED  BY <1>3, <1>4

\* ... the miss queue and the L2 are empty ...
LEMMA InitialMiss ==
  ASSUME NEW program, NEW n \in Cpus, NEW st, st = InitialCpu(n, program),
         NEW v, v.self = n, v.sent = {}
  PROVE  M(st, v)
<1> DEFINE q == st.missq  ev == st.events
<1>1. /\ st.cpuid = n /\ q = [i \in Entries |-> FreeEntry] /\ st.missq_num = 0
      /\ st.dl2 = [w \in L2Ways |-> [tag |-> NoBlock, status |-> "INVALID", directory |-> {},
                                     dirty |-> FALSE]]
      /\ ev = [k \in 1 .. L2_delay |-> <<>>] /\ st.refilltag = FALSE /\ st.out = NothingSent
  BY DEF InitialCpu
<1>2. /\ DOMAIN q = Entries
      /\ \A i \in Entries : q[i] = FreeEntry
  BY <1>1
<1> HIDE DEF q, ev
<1>3. /\ DOMAIN FreeEntry = EntryFields /\ FreeEntry.state = "EMPTY" /\ ~External(FreeEntry)
      /\ ~Round(FreeEntry) /\ ~Issued(FreeEntry)
  BY DEF FreeEntry, EntryFields, External, Interventions, Round, Issued
<1>4. \A i \in Entries : EntryOK(n, q[i], v) /\ RoundOK(n, q[i], st.dl2, v)
  BY <1>2, <1>3 DEF EntryOK, RoundOK
<1>5. \A w \in L2Ways : L2OK(n, st.dl2[w], v.text)
  <2> SUFFICES ASSUME NEW w \in L2Ways PROVE L2OK(n, st.dl2[w], v.text)
    OBVIOUS
  <2>1. st.dl2[w] = [tag |-> NoBlock, status |-> "INVALID", directory |-> {}, dirty |-> FALSE]
    BY <1>1
  <2>2. QED  BY <2>1, ProgramAssumption DEF L2OK, L2Fields, DirectoryOK
<1>6. st.missq_num = Cardinality(Occupied(q))
  <2>1. Occupied(q) = {}  BY <1>2, <1>3 DEF Occupied
  <2>2. QED  BY <1>1, <2>1, FS_EmptySet
<1>7. OneServed(n, q) /\ MatchOK(q) /\ OneAsks(q) /\ SentOK(n, q, v)
  BY <1>2, <1>3 DEF OneServed, Serves, MatchOK, InstAsks, OneAsks, SentOK
<1>8. ~On(st.refilltag)  BY <1>1 DEF On
<1>9. Core(n, q, st.missq_num, st.dl2, st.refilltag, st.refilli, v)
  BY <1>1, <1>2, <1>4, <1>5, <1>6, <1>7, <1>8 DEF Core
<1>10. /\ IsSeq(<<>>) /\ DOMAIN <<>> = {}  BY EmptySeq DEF IsSeq
<1>11. EventsShape(ev)
  <2>1. ev \in Seq({<<>>}) /\ Len(ev) = L2_delay
    <3>1. L2_delay \in Nat  BY SizesAssumption
    <3>2. ev \in [1 .. L2_delay -> {<<>>}]  BY <1>1
    <3>3. QED  BY <3>1, <3>2
  <2>2. IsSeq(ev)  BY <2>1, SeqFrom
  <2>3. \A k \in 1 .. L2_delay : ev[k] = <<>>  BY <1>1
  <2>4. QED  BY <1>10, <2>1, <2>2, <2>3 DEF EventsShape
<1>12. \A k \in 1 .. L2_delay : DOMAIN ev[k] = {}  BY <1>1, <1>10
<1>13. OneDue(ev) /\ EventsOK(n, q, ev)  BY <1>12 DEF OneDue, EventsOK
<1>14. Outs(n, q, st.out, v)  BY <1>1, NothingOut
<1>15. QED  BY <1>1, <1>9, <1>11, <1>13, <1>14 DEF M, MissOK, Evs, q, ev

\* ... and so are the other queues ...
LEMMA InitialQueues ==
  ASSUME NEW program, NEW n \in Cpus, NEW st, st = InitialCpu(n, program),
         NEW v, \A a \in st.todo : a.blk \in Blocks /\ a.blk \notin v.text,
         \A a \in st.text : a.blk \in Blocks /\ a.blk \in v.text
  PROVE  W(st) /\ L(st, v)
<1>1. /\ st.wtbkq = [j \in Slots |-> FreeSlot] /\ st.wtbkq_num = 0 /\ st.wtbkq_replacei = 0
      /\ st.lsq_refill = NoRefill /\ st.dcache_refill = NoRefill /\ st.dtagcmp_refill = NoRefill
      /\ st.lsq = <<>> /\ st.irepbuf = [state |-> "EMPTY", blk |-> NoBlock, way |-> 0]
      /\ st.cpuid = n
  BY DEF InitialCpu
<1>2. /\ DOMAIN NoRefill = RefillFields /\ NoRefill.kind = "none"
  BY DEF NoRefill, RefillFields
<1>3. PassedOK(NoRefill)  BY <1>2 DEF PassedOK
<1>4. IsSeq(<<>>) /\ DOMAIN <<>> = {}  BY EmptySeq DEF IsSeq
<1>5. L(st, v)  BY <1>1, <1>2, <1>3, <1>4 DEF L, LsqOK
<1>6. /\ DOMAIN FreeSlot = SlotFields /\ FreeSlot.valid = FALSE
  BY DEF FreeSlot, SlotFields
<1>7. SlotOK(n, FreeSlot)  BY <1>6 DEF SlotOK
<1>8. Held("none", "none") = 0  BY DEF Held
<1>9. ValidSlots(st.wtbkq) = {}  BY <1>1, <1>6 DEF ValidSlots
<1>10. 0 \in Slots /\ wtbkq_ifq_size \in Nat  BY SizesAssumption DEF Slots
<1>11. SlotsIn(n, st.wtbkq, 0, 0, 0)
  <2>1. Cardinality({}) = 0  BY FS_EmptySet
  <2>2. DOMAIN st.wtbkq = Slots /\ \A j \in Slots : SlotOK(n, st.wtbkq[j])  BY <1>1, <1>7
  <2>3. QED  BY <1>9, <1>10, <2>1, <2>2 DEF SlotsIn
<1>12. W(st)  BY <1>1, <1>2, <1>8, <1>11 DEF W, SlotsOK
<1>13. QED  BY <1>5, <1>12

\* ... of every cpu.
LEMMA InitialGood ==
  ASSUME Separate, NEW program \in Programs, NEW n \in Cpus, NEW T, T = TextOf(program),
         NEW st, st = InitialCpu(n, program), NEW v, v.self = n, v.text = T, v.sent = {}
  PROVE  Good(st, v)
<1>1. program[n] \subseteq Accesses  BY ProgramAssumption
<1>2. st.todo = program[n] \ Fetches(program[n]) /\ st.text = Fetches(program[n])
      /\ DOMAIN st = CpuFields
  BY DEF InitialCpu, CpuFields
<1>3. \A a \in program[n] : a.blk \in Blocks  BY <1>1 DEF Accesses
<1>4. Fetches(program[n]) \subseteq program[n]  BY DEF Fetches
<1>5. \A a \in st.text : a.blk \in Blocks /\ a.blk \in T
  <2>1. \A a \in Fetches(program[n]) : a.blk \in TextOf(program)  BY DEF TextOf
  <2>2. QED  BY <1>2, <1>3, <1>4, <2>1
<1>6. \A a \in st.todo : a.blk \in Blocks /\ a.blk \notin T
  <2>1. \A a \in program[n] \ Fetches(program[n]) : a.blk \in DataOf(program)  BY DEF DataOf
  <2>2. DataOf(program) \cap TextOf(program) = {}  BY DEF Separate
  <2>3. QED  BY <1>2, <1>3, <2>1, <2>2
<1>7. M(st, v)  BY InitialMiss
<1>8. W(st) /\ L(st, v)  BY <1>5, <1>6, InitialQueues
<1>9. QED  BY <1>2, <1>7, <1>8 DEF Good

\* The invariant holds at the start.
LEMMA IndInit ==
  ASSUME Separate, Init
  PROVE  IndInv
<1>1. PICK program \in Programs : cpu = [n \in Cpus |-> InitialCpu(n, program)]  BY DEF Init
<1>2. \A t \in Types, s, d \in Cpus : chan[t][s][d] = <<>>  BY DEF Init
<1> DEFINE T == TextOf(program)
<1>3. T \in SUBSET Blocks
  <2>1. \A n \in Cpus : program[n] \subseteq Accesses  BY ProgramAssumption
  <2>2. \A n \in Cpus : \A a \in Fetches(program[n]) : a.blk \in Blocks
    BY <2>1 DEF Fetches, Accesses
  <2>3. QED  BY <2>2 DEF TextOf
<1>4. DOMAIN cpu = Cpus /\ \A n \in Cpus : cpu[n] = InitialCpu(n, program)  BY <1>1
<1>5. \A n \in Cpus, i \in Entries : ~External(cpu[n].missq[i])
  <2>1. ~External(FreeEntry)  BY DEF FreeEntry, External, Interventions
  <2>2. \A n \in Cpus : cpu[n].missq = [i \in Entries |-> FreeEntry]  BY <1>4 DEF InitialCpu
  <2>3. QED  BY <2>1, <2>2
<1> HIDE DEF T
<1>6. /\ \A h, d \in Cpus : Tokens(cpu, chan, h, d) = {}
      /\ \A n \in Cpus : Env(cpu, chan, n, T).sent = {}
  BY <1>2, <1>5, InitialEnv
<1>7. ASSUME NEW n \in Cpus PROVE Good(cpu[n], Env(cpu, chan, n, T)) /\ Rest(cpu, n)
  <2> DEFINE v == Env(cpu, chan, n, T)  st == cpu[n]
  <2>1. v.self = n /\ v.text = T /\ v.sent = {}  BY <1>6, EnvText
  <2>2. st = InitialCpu(n, program)  BY <1>4
  <2>3. Rest(cpu, n)  BY <2>2 DEF Rest, InitialCpu, NoRefill
  <2> HIDE DEF v, st
  <2>4. Good(st, v)  BY <2>1, <2>2, InitialGood DEF T
  <2>5. QED  BY <2>3, <2>4 DEF v, st
<1>8. ChanOK(chan, T)
  <2>1. IsSeq(<<>>) /\ DOMAIN <<>> = {}  BY EmptySeq DEF IsSeq
  <2>2. QED  BY <1>2, <2>1 DEF ChanOK
<1>9. OneToken(cpu, chan)  BY <1>6 DEF OneToken
<1>10. QED  BY <1>3, <1>4, <1>7, <1>8, <1>9 DEF Inv, IndInv

\* The invariant says how the counters and the queues relate.
LEMMA IndCounts ==
  ASSUME IndInv
  PROVE  QueueCounts
<1>1. PICK T \in SUBSET Blocks : Inv(cpu, chan, T)  BY DEF IndInv
<1> SUFFICES ASSUME NEW n \in Cpus
             PROVE  /\ cpu[n].missq_num =
                         Cardinality({i \in Entries : cpu[n].missq[i].state # "EMPTY"})
                    /\ cpu[n].wtbkq_num =
                         Cardinality({j \in Slots : cpu[n].wtbkq[j].valid}) + Reserved(cpu[n])
  BY DEF QueueCounts
<1> DEFINE st == cpu[n]  v == Env(cpu, chan, n, T)
<1>2. Good(st, v) /\ st.lsq_refill.kind = "none"  BY <1>1, CpuGood DEF Rest
<1> HIDE DEF st, v
<1>3. st.missq_num = Cardinality({i \in Entries : st.missq[i].state # "EMPTY"})
  BY <1>2, CoreOf DEF Core, Occupied
<1>4. st.wtbkq_num = Cardinality({j \in Slots : st.wtbkq[j].valid})
                     + Held(st.lsq_refill.kind, st.dcache_refill.kind)
  BY <1>2 DEF Good, W, SlotsOK, SlotsIn, ValidSlots
<1>5. Reserved(st) = Held(st.lsq_refill.kind, st.dcache_refill.kind)
  <2> DEFINE R == {r \in {"lsq", "dcache"} :
                     (IF r = "lsq" THEN st.lsq_refill ELSE st.dcache_refill).kind = "replace"}
  <2>1. Reserved(st) = Cardinality(R)  BY DEF Reserved
  <2>2. CASE st.dcache_refill.kind = "replace"
    <3>1. R = {"dcache"}  BY <1>2, <2>2
    <3>2. Cardinality({"dcache"}) = 1  BY FS_Singleton
    <3>3. QED  BY <1>2, <2>1, <2>2, <3>1, <3>2 DEF Held
  <2>3. CASE st.dcache_refill.kind # "replace"
    <3>1. R = {}  BY <1>2, <2>3
    <3>2. Cardinality({}) = 0  BY FS_EmptySet
    <3>3. QED  BY <1>2, <2>1, <2>3, <3>1, <3>2 DEF Held
  <2>4. QED  BY <2>2, <2>3
<1>6. QED  BY <1>3, <1>4, <1>5 DEF st

\* The invariant keeps while nothing happens.
LEMMA IndStay ==
  ASSUME IndInv, UNCHANGED vars
  PROVE  IndInv'
BY DEF IndInv, vars

-----------------------------------------------------------------------------
(***************************************************************************)
(* The theorems.  As the queues of cache2mem.c know an L1 by its cpu and   *)
(* cache, they are about programs whose text is not written (Separate).    *)
(***************************************************************************)

\* The invariant holds in every reachable state, for every number of cpus, of
\* blocks and of entries, and every program.
THEOREM Inductive == Separate => (Spec => []IndInv)
<1> SUFFICES ASSUME Separate PROVE Spec => []IndInv
  OBVIOUS
<1>1. Init => IndInv  BY IndInit
<1>2. IndInv /\ [Next]_vars => IndInv'  BY IndStep, IndStay
<1>3. QED  BY <1>1, <1>2, PTL DEF Spec

\* The counters that admit an access to the queues (missq_num, wtbkq_num) count
\* what is in them, whatever order the stages, the network and the write-backs
\* act in (cache2mem.c:609, dcache_stage, noc_rr.c:97).
THEOREM CountsKept == Separate => (Spec => []QueueCounts)
<1>1. IndInv => QueueCounts  BY IndCounts
<1>2. QED  BY <1>1, Inductive, PTL

\* The invariant holds of the misses an intervention will free.
LEMMA IndMatches ==
  ASSUME IndInv
  PROVE  MatchesWait
<1>1. PICK T \in SUBSET Blocks : Inv(cpu, chan, T)  BY DEF IndInv
<1> SUFFICES ASSUME NEW n \in Cpus, NEW i \in Entries, NEW j \in Entries,
                    External(cpu[n].missq[i]), cpu[n].missq[i].cache = "icache",
                    cpu[n].missq[i].modify_l1, j \in cpu[n].missq[i].invn_match
             PROVE  cpu[n].missq[j].state = "L1_MISS" /\ cpu[n].missq[j].blk = cpu[n].missq[i].blk
  BY DEF MatchesWait
<1> DEFINE st == cpu[n]  v == Env(cpu, chan, n, T)
<1>2. Good(st, v)  BY <1>1, CpuGood
<1> HIDE DEF v
<1>3. MatchOK(st.missq)  BY <1>2, CoreOf DEF Core
<1>4. InstAsks(st.missq[i])  BY DEF InstAsks
<1>5. QED  BY <1>3, <1>4 DEF MatchOK

\* A miss that an intervention to the instruction cache frees (cache2mem.c:1438)
\* has not been issued, and is about the block taken: no request of this cpu is
\* under way for an entry that becomes empty.
THEOREM MatchesKept == Separate => (Spec => []MatchesWait)
<1>1. IndInv => MatchesWait  BY IndMatches
<1>2. QED  BY <1>1, Inductive, PTL

\* A home has issued one request of its blocks, which share a set of its L2: the
\* others of the set wait in MQ_L1_MISS (same_set, cache2mem.c:855-873).
ServedOnce == \A n \in Cpus : OneServed(n, cpu[n].missq)

\* So two requests never race for one entry of the directory, and a block that
\* is replaced in the L2 is no other request's.
THEOREM HomeServesOne == Separate => (Spec => []ServedOnce)
<1>1. ASSUME IndInv PROVE ServedOnce
  <2>1. PICK T \in SUBSET Blocks : Inv(cpu, chan, T)  BY <1>1 DEF IndInv
  <2>2. \A n \in Cpus : Good(cpu[n], Env(cpu, chan, n, T))  BY <2>1, CpuGood
  <2>3. \A n \in Cpus : OneServed(n, cpu[n].missq)
    <3> TAKE n \in Cpus
    <3> DEFINE st == cpu[n]  v == Env(cpu, chan, n, T)
    <3>1. Good(st, v)  BY <2>2
    <3> HIDE DEF st, v
    <3>2. OneServed(st.cpuid, st.missq)  BY <3>1, CoreOf DEF Core
    <3>3. st.cpuid = n  BY <2>1 DEF Inv, Rest, st
    <3>4. QED  BY <3>2, <3>3 DEF st
  <2>4. QED  BY <2>3 DEF ServedOnce
<1>2. QED  BY <1>1, Inductive, PTL

\* An intervention of home h to an L1 of cpu d is in one place (INVN channel,
\* miss queue of d, RESP channel), there is no other to the same L1, and the
\* round of h that it names by qid still waits for that L1.
AskedOnce ==
  /\ OneToken(cpu, chan)
  /\ \A h, d \in Cpus : \A x \in Tokens(cpu, chan, h, d) :
       LET p == At(cpu, chan, h, d, x) IN
       d # h /\ p.qid \in Entries /\ Pending(cpu[h].missq[p.qid], <<d, p.cache>>)

\* An answer is never counted by a round other than the one that asked, although
\* an entry is freed and taken again while packets are in the network
\* (memory_resp_network writes the entry the packet names).
THEOREM InterventionsAwaited == Separate => (Spec => []AskedOnce)
<1>1. ASSUME IndInv PROVE AskedOnce
  <2>1. PICK T \in SUBSET Blocks : Inv(cpu, chan, T)  BY <1>1 DEF IndInv
  <2>2. OneToken(cpu, chan)  BY <2>1 DEF Inv
  <2>3. ASSUME NEW h \in Cpus, NEW d \in Cpus, NEW x \in Tokens(cpu, chan, h, d)
        PROVE  /\ d # h /\ At(cpu, chan, h, d, x).qid \in Entries
               /\ Pending(cpu[h].missq[At(cpu, chan, h, d, x).qid],
                          <<d, At(cpu, chan, h, d, x).cache>>)
    <3> DEFINE st == cpu[h]  v == Env(cpu, chan, h, T)  p == At(cpu, chan, h, d, x)
               t == <<<<d, p.cache>>, p.qid>>
    <3>1. t \in v.sent  BY EnvSent
    <3>2. Good(st, v) /\ st.cpuid = h  BY <2>1, CpuGood DEF Inv, Rest
    <3> HIDE DEF st, v, p
    <3>3. SentOK(h, st.missq, v)  BY <3>2, CoreOf DEF Core
    <3>4. t[2] \in Entries /\ t[1][1] # h /\ Pending(st.missq[t[2]], t[1])
      <4> HIDE DEF t
      <4>1. QED  BY <3>1, <3>3 DEF SentOK
    <3>5. d # h /\ p.qid \in Entries /\ Pending(st.missq[p.qid], <<d, p.cache>>)  BY <3>4
    <3>6. QED  BY <3>5 DEF st, p
  <2>4. QED  BY <2>2, <2>3 DEF AskedOnce
<1>2. QED  BY <1>1, Inductive, PTL

\* The counters stay within the sizes of the queues.
QueuesFit ==
  \A n \in Cpus : /\ cpu[n].missq_num \in 0 .. missq_ifq_size
                  /\ cpu[n].wtbkq_num \in 0 .. wtbkq_ifq_size

\* With QueueCounts: no access, request, intervention or write-back overruns its
\* queue, and no search for an empty entry fails (cache2mem.c:616, wtbkq_enter).
THEOREM QueuesBounded == Separate => (Spec => []QueuesFit)
<1>1. ASSUME IndInv PROVE QueuesFit
  <2>1. PICK T \in SUBSET Blocks : Inv(cpu, chan, T)  BY <1>1 DEF IndInv
  <2> SUFFICES ASSUME NEW n \in Cpus
               PROVE  /\ cpu[n].missq_num \in 0 .. missq_ifq_size
                      /\ cpu[n].wtbkq_num \in 0 .. wtbkq_ifq_size
    BY DEF QueuesFit
  <2> DEFINE st == cpu[n]  v == Env(cpu, chan, n, T)
  <2>2. Good(st, v)  BY <2>1, CpuGood
  <2> HIDE DEF st, v
  <2>3. st.missq_num \in 0 .. missq_ifq_size
    <3>1. st.missq_num = Cardinality(Occupied(st.missq))  BY <2>2, CoreOf DEF Core
    <3>2. Occupied(st.missq) \in SUBSET Entries  BY DEF Occupied
    <3>3. missq_ifq_size \in Nat  BY SizesAssumption
    <3>4. IsFiniteSet(Entries) /\ Cardinality(Entries) = missq_ifq_size
      <4>1. Entries = 0 .. missq_ifq_size - 1  BY DEF Entries
      <4>2. QED  BY <3>3, <4>1, FS_Interval
    <3>5. Cardinality(Occupied(st.missq)) <= missq_ifq_size /\ IsFiniteSet(Occupied(st.missq))
      BY <3>2, <3>4, FS_Subset
    <3>6. QED  BY <3>1, <3>3, <3>5, FS_CardinalityType
  <2>4. st.wtbkq_num \in 0 .. wtbkq_ifq_size
    <3>1. st.wtbkq_num \in Nat /\ wtbkq_ifq_size \in Nat  BY <2>2, SlotCount, SlotsFinite
    <3>2. st.wtbkq_num <= wtbkq_ifq_size  BY <2>2 DEF Good, W, SlotsOK, SlotsIn
    <3>3. QED  BY <3>1, <3>2
  <2>5. QED  BY <2>3, <2>4 DEF st
<1>2. QED  BY <1>1, Inductive, PTL
=============================================================================
