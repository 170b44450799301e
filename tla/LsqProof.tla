------------------------------ MODULE LsqProof ------------------------------
(***************************************************************************)
(* The load/store queue keeps its ring, writes stores only to blocks the   *)
(* cpu owns and retires no load that missed a store, for any queue, width  *)
(* and set of accesses: proofs about Lsq.                                  *)
(***************************************************************************)
EXTENDS MCLsq, Rings

-----------------------------------------------------------------------------
(***************************************************************************)
(* The inductive invariant.                                                *)
(***************************************************************************)

\* What has left or has retired.
Retired == In({"COMMIT", "DELAY1"})

\* The entries held are those from head1 to tail, DELAY1 and COMMIT in front,
\* and map_stage has room for the accesses it may still take.
Placed ==
  /\ Held = {i \in Slots : Age(i) < lsq_num}
  /\ (lsq_head1 + lsq_num) % lsq_ifq_size = lsq_tail
  /\ (lsq_head1 + Cardinality(In({"DELAY1"}))) % lsq_ifq_size = lsq_head
  /\ \A i \in In({"DELAY1"}) : Older(i) \subseteq In({"DELAY1"})
  /\ \A i \in In({"COMMIT"}) : Older(i) \subseteq Retired
  /\ stage = "map" /\ n > 0 => lsq_num + map_width - n <= lsq_ifq_size

\* Each register of the pipeline names the entry in its state.
Registers ==
  /\ {lsq_issuei} \ {NoSlot} = In({"ISSUE"})
  /\ {lsq_dcachei} \ {NoSlot} = In({"DCACHE"})
  /\ {lsq_dtagcmpi} \ {NoSlot} = In({"DTAGCMP"})

\* What lsq_stage chose stays what it was until it is used.
Chosen ==
  /\ stage \notin {"cache2mem", "dtagcmp"} /\ lsq_wtbki # NoSlot =>
       lsq[lsq_wtbki].state = "READCACHE"
  /\ lsq_missi # NoSlot =>
       /\ lsq_missi \in Known /\ ~ lsq[lsq_missi].blk /\ lsq[lsq_missi].op # "move"
       /\ stage = "advance" => lsq_missi \notin In({"DELAY1"})
  /\ dcachewrite => stage = "advance" /\ HeadIs("store", "COMMIT") /\ lsq[lsq_head].blk

Takes == {"replace", "shared", "exclusive"}
Grants(p, a) == p.kind = "refill" /\ p.addr = a /\ p.status = "EXCLUSIVE"
Refills(p, a) == p.kind = "refill" /\ p.addr = a

\* A packet stays a cycle in each place; what it did to the data cache still
\* holds when it is compared with the entries.
Flow ==
  /\ stage \notin {"dtagcmp", "advance"} => lsq_refill = NoPacket
  /\ stage = "advance" => dtagcmp_refill = NoPacket
  /\ dcache_refill # NoPacket => lsq_dcachei = NoSlot
  /\ stage = "advance" \/ dtagcmp_refill # NoPacket => lsq_dtagcmpi = NoSlot
  /\ dtagcmp_refill.kind \in Takes =>
       /\ replace_delay > 0
       /\ dtagcmp_refill.addr \in Addrs => dcache[dtagcmp_refill.addr] # "EXCLUSIVE"
  /\ dtagcmp_refill.kind = "refill" => dcache[dtagcmp_refill.addr] = dtagcmp_refill.status
  /\ \A p \in refilling : p.kind = "refill"
  /\ \A p \in refilling \cup {lsq_refill, dcache_refill, dtagcmp_refill} :
       p.kind = "refill" => p.status # "INVALID"

\* Nothing is wanted of, and nothing is under way to, a block that is owned or
\* about to be.
Owned ==
  \A a \in Addrs :
    /\ dcache[a] = "EXCLUSIVE" =>
         /\ wanted[a] = {} /\ ~ Refills(dcache_refill, a) /\ ~ Refills(lsq_refill, a)
         /\ \A p \in refilling : ~ Refills(p, a)
    /\ Grants(dcache_refill, a) =>
         wanted[a] = {} /\ ~ Refills(lsq_refill, a) /\ \A p \in refilling : ~ Refills(p, a)
    /\ Grants(lsq_refill, a) => wanted[a] = {} /\ \A p \in refilling : ~ Refills(p, a)
    /\ \A p \in refilling : Grants(p, a) => wanted[a] = {}

\* What an entry believes of its block.
Believed ==
  /\ \A i \in Known :
       /\ lsq[i].blk => lsq[i].byterdy = Bytes
       /\ lsq[i].op = "store" /\ ~ lsq[i].blk => lsq[i].byterdy # Bytes
  /\ \A i \in Known \cup In({"DTAGCMP"}) :
       /\ lsq[i].op # "move" /\ dcache[lsq[i].addr] = "EXCLUSIVE" =>
            lsq[i].blk \/ Grants(dtagcmp_refill, lsq[i].addr)
       /\ lsq[i].op = "store" /\ lsq[i].blk =>
            \/ dcache[lsq[i].addr] = "EXCLUSIVE"
            \/ dtagcmp_refill.kind \in Takes /\ dtagcmp_refill.addr = lsq[i].addr

\* The store j is the youngest before i to write b, and is not known.
Hidden(i, j, b) ==
  /\ j \in Older(i) /\ lsq[j].op = "store" /\ lsq[j].addr = lsq[i].addr /\ b \in lsq[j].bytes
  /\ j \notin Known
  /\ \A k \in Between(j, i) : lsq[k].op = "store" /\ lsq[k].addr = lsq[i].addr => b \notin lsq[k].bytes

\* A load that read early executes again, or its store is still to come.
Early ==
  \A i \in Held : lsq[i].early =>
    /\ lsq[i].op = "load"
    /\ \/ lsq[i].state = "WRITEBACK"
       \/ lsq[i].state = "READCACHE" /\ i = lsq_wtbki /\ stage \notin {"cache2mem", "dtagcmp"}
    /\ lsq[i].ex \/ \E j \in Slots, b \in lsq[i].bytes : Hidden(i, j, b)

\* A store writes something.
Writing == \A i \in Held : lsq[i].op = "store" => lsq[i].bytes # {}

IInv ==
  TypeOK /\ Placed /\ Registers /\ Chosen /\ Flow /\ Owned /\ Believed /\ Early /\ Writing

-----------------------------------------------------------------------------
(***************************************************************************)
(* Entries and their ages.                                                 *)
(***************************************************************************)

LEMMA Size ==
  /\ lsq_ifq_size \in Nat \ {0} /\ map_width \in 1 .. lsq_ifq_size
  /\ Slots = 0 .. lsq_ifq_size - 1 /\ NoSlot \notin Slots
  /\ refill_cycles \in Nat
BY LsqAssumption DEF LsqAssumption, Slots, NoSlot

\* Ages differ, and are below the size of the ring.
LEMMA Ages ==
  ASSUME TypeOK
  PROVE  /\ \A i \in Slots : Age(i) = AgeOn(lsq_ifq_size, lsq_head1, i) /\ Age(i) \in 0 .. lsq_ifq_size - 1
         /\ \A i, j \in Slots : Age(i) = Age(j) => i = j
<1>1. lsq_head1 \in 0 .. lsq_ifq_size - 1  BY Size DEF TypeOK
<1>2. ASSUME NEW i \in Slots
      PROVE  Age(i) = AgeOn(lsq_ifq_size, lsq_head1, i) /\ Age(i) \in 0 .. lsq_ifq_size - 1
  <2>1. i \in 0 .. lsq_ifq_size - 1  BY Size
  <2>2. Age(i) = AgeOn(lsq_ifq_size, lsq_head1, i)  BY DEF Age, AgeOn
  <2>3. QED  BY <1>1, <2>1, <2>2, AgeValue, Size
<1>3. ASSUME NEW i \in Slots, NEW j \in Slots, Age(i) = Age(j) PROVE i = j
  <2>1. i \in 0 .. lsq_ifq_size - 1 /\ j \in 0 .. lsq_ifq_size - 1  BY Size
  <2>2. AgeOn(lsq_ifq_size, lsq_head1, i) = AgeOn(lsq_ifq_size, lsq_head1, j)  BY <1>2, <1>3
  <2>3. QED  BY <1>1, <2>1, <2>2, AgeUnique, Size
<1>4. QED  BY <1>2, <1>3

\* What is held is an entry.
LEMMA HeldEntry ==
  ASSUME TypeOK
  PROVE  /\ Held \subseteq Slots
         /\ \A i \in Held : lsq[i] \in Entries
         /\ \A i \in Slots \ Held : lsq[i] = NoEntry
<1>1. \A i \in Slots : lsq[i] \in Entries \/ lsq[i] = NoEntry  BY DEF TypeOK
<1>2. \A e \in Entries : e.state # "EMPTY"  BY DEF Entries, States
<1>3. QED  BY <1>1, <1>2 DEF Held, NoEntry

\* The oldest and the youngest of a set, and nothing of the empty set.
LEMMA OldestIs ==
  ASSUME TypeOK, NEW S \in SUBSET Slots
  PROVE  /\ S = {} => Oldest(S) = NoSlot
         /\ S # {} => Oldest(S) \in S /\ \A j \in S : Age(Oldest(S)) <= Age(j)
<1>1. CASE S = {}  BY <1>1 DEF Oldest
<1>2. CASE S # {}
  <2>1. lsq_head1 \in 0 .. lsq_ifq_size - 1 /\ S \in SUBSET (0 .. lsq_ifq_size - 1)
    BY Size DEF TypeOK
  <2>2. PICK i \in S : \A j \in S : AgeOn(lsq_ifq_size, lsq_head1, i) <= AgeOn(lsq_ifq_size, lsq_head1, j)
    BY <1>2, <2>1, Ends, Size
  <2>3. \A j \in S : Age(i) <= Age(j)  BY <2>2, Ages
  <2>4. Oldest(S) = CHOOSE k \in S : \A j \in S : Age(k) <= Age(j)  BY <1>2 DEF Oldest
  <2>5. QED  BY <1>2, <2>3, <2>4
<1>3. QED  BY <1>1, <1>2

LEMMA YoungestIs ==
  ASSUME TypeOK, NEW S \in SUBSET Slots, S # {}
  PROVE  Youngest(S) \in S /\ \A j \in S : Age(j) <= Age(Youngest(S))
<1>1. lsq_head1 \in 0 .. lsq_ifq_size - 1 /\ S \in SUBSET (0 .. lsq_ifq_size - 1)
  BY Size DEF TypeOK
<1>2. PICK i \in S : \A j \in S : AgeOn(lsq_ifq_size, lsq_head1, j) <= AgeOn(lsq_ifq_size, lsq_head1, i)
  BY <1>1, Ends, Size
<1>3. \A j \in S : Age(j) <= Age(i)  BY <1>2, Ages
<1>4. Youngest(S) = CHOOSE k \in S : \A j \in S : Age(j) <= Age(k)  BY DEF Youngest
<1>5. QED  BY <1>3, <1>4

\* Slots of an age below the number of entries are as many.
LEMMA YoungerThan ==
  ASSUME TypeOK, NEW a \in 0 .. lsq_ifq_size, NEW b \in a .. lsq_ifq_size
  PROVE  /\ IsFiniteSet({i \in Slots : a <= Age(i) /\ Age(i) < b})
         /\ Cardinality({i \in Slots : a <= Age(i) /\ Age(i) < b}) = b - a
<1>1. lsq_head1 \in 0 .. lsq_ifq_size - 1  BY Size DEF TypeOK
<1>2. {i \in Slots : a <= Age(i) /\ Age(i) < b} = WindowOn(lsq_ifq_size, lsq_head1, a, b)
  BY Ages, Size DEF WindowOn
<1>3. /\ IsFiniteSet(WindowOn(lsq_ifq_size, lsq_head1, a, b))
      /\ Cardinality(WindowOn(lsq_ifq_size, lsq_head1, a, b)) = b - a
  BY <1>1, WindowSize, Size
<1>4. QED  BY <1>2, <1>3

-----------------------------------------------------------------------------
(***************************************************************************)
(* What the operators of lsq_stage do to the entries.                      *)
(***************************************************************************)

Contents == [Slots -> Entries \cup {NoEntry}]

\* f is entry e with other flags: the access and its state are the same.
Alike(e, f) == /\ f.op = e.op /\ f.addr = e.addr /\ f.bytes = e.bytes /\ f.state = e.state
               /\ e.ex => f.ex

\* The fields of an entry.
LEMMA EntryFields ==
  ASSUME NEW e \in Entries
  PROVE  /\ e.op \in Ops /\ e.addr \in Addrs /\ e.bytes \subseteq Bytes /\ e.state \in States
         /\ e.byterdy \subseteq Bytes
         /\ {e.fetching, e.blk, e.ex, e.loadspec, e.early, e.lost} \subseteq BOOLEAN
         /\ e # NoEntry /\ e.state # "EMPTY"
BY DEF Entries, States, NoEntry

\* A load is told whether it reads early, nothing else changes.
LEMMA ReadingEffect ==
  ASSUME TypeOK, NEW q \in Contents, NEW i \in Held \cup {NoSlot}, i \in Held => q[i] \in Entries
  PROVE  LET r == Reading(q, i) IN
         /\ r \in Contents
         /\ \A j \in Slots : j # i => r[j] = q[j]
         /\ i \in Held =>
              /\ r[i] \in Entries /\ Alike(q[i], r[i])
              /\ r[i].blk = q[i].blk /\ r[i].byterdy = q[i].byterdy
              /\ r[i].early = IF lsq[i].op = "load" THEN Misses(i) ELSE q[i].early
<1>1. Held \subseteq Slots  BY HeldEntry
<1>2. CASE i = NoSlot \/ lsq[i].op # "load"
  <2>1. Reading(q, i) = q  BY <1>2 DEF Reading
  <2>2. i \in Held => lsq[i].op # "load"  BY <1>1, <1>2, Size
  <2>3. QED  BY <2>1, <2>2 DEF Alike
<1>3. CASE ~ (i = NoSlot \/ lsq[i].op # "load")
  <2> DEFINE m == Misses(i)
             f == [q[i] EXCEPT !.early = m]
  <2>1. i \in Held /\ i \in Slots /\ q[i] \in Entries  BY <1>1, <1>3
  <2>2. m \in BOOLEAN  BY DEF Misses
  <2>3. Reading(q, i) = [q EXCEPT ![i] = f]  BY <1>3 DEF Reading
  <2> HIDE DEF m
  <2>4. f \in Entries /\ Alike(q[i], f) /\ f.blk = q[i].blk /\ f.byterdy = q[i].byterdy /\ f.early = m
    BY <2>1, <2>2 DEF Entries, Alike
  <2> HIDE DEF f
  <2>5. [q EXCEPT ![i] = f] \in Contents  BY <2>1, <2>4 DEF Contents
  <2>6. \A j \in Slots : [q EXCEPT ![i] = f][j] = IF j = i THEN f ELSE q[j]  BY DEF Contents
  <2>7. QED  BY <1>3, <2>1, <2>3, <2>4, <2>5, <2>6 DEF m
<1>4. QED  BY <1>2, <1>3

\* A packet that takes a block away makes entries ask again or execute again.
LEMMA TakenEffect ==
  ASSUME TypeOK, NEW a, NEW again \in SUBSET Held, NEW gone
  PROVE  LET q == Taken(a, again, gone) IN
         /\ q \in Contents
         /\ \A j \in Slots \ Held : q[j] = NoEntry
         /\ \A j \in Held :
              /\ q[j] \in Entries /\ Alike(lsq[j], q[j]) /\ q[j].early = lsq[j].early
              /\ q[j].blk = (lsq[j].blk /\ j \notin again)
              /\ q[j].byterdy = IF j \in again THEN Unready(lsq[j]) ELSE lsq[j].byterdy
<1> DEFINE q == Taken(a, again, gone)
           F(i) == IF i \in again THEN Reask(lsq[i])
                   ELSE IF i \in Speculative(a) THEN [lsq[i] EXCEPT !.ex = TRUE] ELSE lsq[i]
           G(i) == IF gone /\ i \in Overtaken(a) THEN [F(i) EXCEPT !.lost = TRUE] ELSE F(i)
<1>1. q = [i \in Slots |-> G(i)]  BY DEF Taken
<1>2. Held \subseteq Slots /\ Speculative(a) \subseteq Held /\ Overtaken(a) \subseteq Held
  BY HeldEntry DEF Speculative, Overtaken, Loads, Hit, Known, In
<1>3. ASSUME NEW j \in Slots \ Held PROVE q[j] = NoEntry
  BY <1>1, <1>2, HeldEntry
<1>4. ASSUME NEW j \in Held
      PROVE  /\ q[j] \in Entries /\ Alike(lsq[j], q[j]) /\ q[j].early = lsq[j].early
             /\ q[j].blk = (lsq[j].blk /\ j \notin again)
             /\ q[j].byterdy = IF j \in again THEN Unready(lsq[j]) ELSE lsq[j].byterdy
  <2>1. lsq[j] \in Entries  BY HeldEntry
  <2>2. /\ F(j) \in Entries /\ Alike(lsq[j], F(j)) /\ F(j).early = lsq[j].early
        /\ F(j).blk = (lsq[j].blk /\ j \notin again)
        /\ F(j).byterdy = IF j \in again THEN Unready(lsq[j]) ELSE lsq[j].byterdy
    <3>1. Unready(lsq[j]) \in SUBSET Bytes  BY DEF Unready
    <3>2. CASE j \in again
      <4> DEFINE u == Unready(lsq[j])
      <4>1. F(j) = [lsq[j] EXCEPT !.byterdy = u, !.fetching = FALSE, !.blk = FALSE]
        BY <3>2 DEF Reask
      <4> HIDE DEF F, u
      <4>2. QED  BY <2>1, <3>1, <3>2, <4>1 DEF Entries, Alike, u
    <3>3. CASE j \notin again /\ j \in Speculative(a)
      <4>1. F(j) = [lsq[j] EXCEPT !.ex = TRUE]  BY <3>3
      <4> HIDE DEF F
      <4>2. QED  BY <2>1, <3>3, <4>1 DEF Entries, Alike
    <3>4. CASE j \notin again /\ j \notin Speculative(a)
      <4>1. F(j) = lsq[j]  BY <3>4
      <4> HIDE DEF F
      <4>2. QED  BY <2>1, <3>4, <4>1, EntryFields DEF Alike
    <3>5. QED  BY <3>2, <3>3, <3>4
  <2> HIDE DEF F
  <2>3. /\ G(j) \in Entries /\ Alike(F(j), G(j)) /\ G(j).early = F(j).early
        /\ G(j).blk = F(j).blk /\ G(j).byterdy = F(j).byterdy
    <3>1. CASE gone /\ j \in Overtaken(a)
      <4>1. G(j) = [F(j) EXCEPT !.lost = TRUE]  BY <3>1
      <4> HIDE DEF G
      <4>2. QED  BY <2>2, <4>1 DEF Entries, Alike
    <3>2. CASE ~ (gone /\ j \in Overtaken(a))
      BY <2>2, <3>2 DEF Alike
    <3>3. QED  BY <3>1, <3>2
  <2>4. q[j] = G(j)  BY <1>1, <1>2
  <2> HIDE DEF G, q
  <2>5. QED  BY <2>2, <2>3, <2>4 DEF Alike
<1>5. q \in Contents  BY <1>1, <1>2, <1>3, <1>4 DEF Contents
<1> HIDE DEF q
<1>6. QED  BY <1>3, <1>4, <1>5 DEF q

\* A refill makes the entries it fills ready.
LEMMA FilledEffect ==
  ASSUME TypeOK, NEW filled \in SUBSET Held
  PROVE  LET q == [i \in Slots |-> IF i \in filled
                     THEN [lsq[i] EXCEPT !.byterdy = Bytes, !.fetching = FALSE, !.blk = TRUE]
                     ELSE lsq[i]] IN
         /\ q \in Contents
         /\ \A j \in Slots \ Held : q[j] = NoEntry
         /\ \A j \in Held :
              /\ q[j] \in Entries /\ Alike(lsq[j], q[j]) /\ q[j].early = lsq[j].early
              /\ q[j].blk = (lsq[j].blk \/ j \in filled)
              /\ q[j].byterdy = IF j \in filled THEN Bytes ELSE lsq[j].byterdy
<1> DEFINE F(i) == IF i \in filled
                   THEN [lsq[i] EXCEPT !.byterdy = Bytes, !.fetching = FALSE, !.blk = TRUE]
                   ELSE lsq[i]
           q == [i \in Slots |-> F(i)]
<1>1. Held \subseteq Slots  BY HeldEntry
<1>2. ASSUME NEW j \in Slots \ Held PROVE q[j] = NoEntry
  BY <1>1, HeldEntry
<1>3. ASSUME NEW j \in Held
      PROVE  /\ F(j) \in Entries /\ Alike(lsq[j], F(j)) /\ F(j).early = lsq[j].early
             /\ F(j).blk = (lsq[j].blk \/ j \in filled)
             /\ F(j).byterdy = IF j \in filled THEN Bytes ELSE lsq[j].byterdy
  <2>1. lsq[j] \in Entries  BY HeldEntry
  <2>2. CASE j \in filled
    <3>1. F(j) = [lsq[j] EXCEPT !.byterdy = Bytes, !.fetching = FALSE, !.blk = TRUE]  BY <2>2
    <3> HIDE DEF F
    <3>2. QED  BY <2>1, <2>2, <3>1 DEF Entries, Alike
  <2>3. CASE j \notin filled
    <3>1. F(j) = lsq[j]  BY <2>3
    <3> HIDE DEF F
    <3>2. QED  BY <2>1, <2>3, <3>1, EntryFields DEF Alike
  <2>4. QED  BY <2>2, <2>3
<1> HIDE DEF F
<1>4. \A j \in Held : q[j] = F(j)  BY <1>1
<1>5. q \in Contents  BY <1>1, <1>2, <1>3, <1>4 DEF Contents
<1>6. \A j \in Held :
        /\ q[j] \in Entries /\ Alike(lsq[j], q[j]) /\ q[j].early = lsq[j].early
        /\ q[j].blk = (lsq[j].blk \/ j \in filled)
        /\ q[j].byterdy = IF j \in filled THEN Bytes ELSE lsq[j].byterdy
  BY <1>3, <1>4
<1> HIDE DEF q
<1>7. QED  BY <1>2, <1>5, <1>6 DEF q, F

\* What a packet may be.
LEMMA PacketFields ==
  ASSUME NEW p \in Packets
  PROVE  /\ p.kind \in {"none", "refill"} \cup Takes
         /\ p.kind = "none" <=> p = NoPacket
         /\ p.kind \in {"shared", "exclusive"} => p.addr \in Addrs
         /\ p.kind = "refill" => p.addr \in Addrs /\ p.status \in Statuses
         /\ p.kind \in {"replace", "shared", "exclusive"} => p.addr \in Addrs \cup {NoAddr}
<1>1. CASE p = NoPacket  BY <1>1 DEF NoPacket, Takes
<1>2. CASE p \in [kind : {"replace"}, addr : Addrs \cup {NoAddr}]  BY <1>2 DEF NoPacket, Takes
<1>3. CASE p \in [kind : {"shared", "exclusive"}, addr : Addrs]  BY <1>3 DEF NoPacket, Takes
<1>4. CASE p \in [kind : {"refill"}, addr : Addrs, status : Statuses]  BY <1>4 DEF NoPacket, Takes
<1>5. QED  BY <1>1, <1>2, <1>3, <1>4 DEF Packets

-----------------------------------------------------------------------------
(***************************************************************************)
(* The tag comparison.                                                     *)
(***************************************************************************)

\* What lsq_stage chooses: an access that may write back, and a miss.
LEMMA Choices ==
  ASSUME IInv
  PROVE  /\ Ready \subseteq Held /\ cache_miss \subseteq Held
         /\ \/ Oldest(Ready) = NoSlot
            \/ Oldest(Ready) \in Ready /\ Oldest(Ready) \in Held /\ lsq[Oldest(Ready)].state = "READCACHE"
         /\ \/ Oldest(cache_miss) = NoSlot
            \/ /\ Oldest(cache_miss) \in cache_miss /\ Oldest(cache_miss) \in Held
               /\ ~ lsq[Oldest(cache_miss)].blk
         /\ \A i \in cache_miss :
              /\ lsq[i].state \in {"READCACHE", "WRITEBACK", "COMMIT"}
              /\ lsq[i].op # "move" /\ ~ lsq[i].blk
<1>1. TypeOK /\ Believed  BY DEF IInv
<1>2. Held \subseteq Slots  BY <1>1, HeldEntry
<1>3. Ready \subseteq Held /\ cache_miss \subseteq Held  BY DEF Ready, cache_miss, FromHead
<1>4. Ready \in SUBSET Slots /\ cache_miss \in SUBSET Slots  BY <1>2, <1>3
<1>5. Oldest(Ready) = NoSlot \/ Oldest(Ready) \in Ready  BY <1>1, <1>4, OldestIs
<1>6. Oldest(cache_miss) = NoSlot \/ Oldest(cache_miss) \in cache_miss  BY <1>1, <1>4, OldestIs
<1>7. \A i \in Ready : lsq[i].state = "READCACHE"  BY DEF Ready
<1>8. ASSUME NEW i \in cache_miss
      PROVE  /\ lsq[i].state \in {"READCACHE", "WRITEBACK", "COMMIT"}
             /\ lsq[i].op # "move" /\ ~ lsq[i].blk
  <2>1. /\ lsq[i].state \in {"READCACHE", "WRITEBACK", "COMMIT"} /\ lsq[i].op # "move"
        /\ lsq[i].byterdy # Bytes
    BY DEF cache_miss
  <2>2. i \in Known  BY <1>3, <2>1 DEF Known, In
  <2>3. QED  BY <1>1, <2>1, <2>2 DEF Believed
<1>9. QED  BY <1>3, <1>5, <1>6, <1>7, <1>8

\* What the steps of the tag comparison have in common: x has been compared, or
\* is NoSlot.
Comparison(x) ==
  /\ stage = "dtagcmp" /\ stage' = "advance" /\ n' = 0
  /\ UNCHANGED <<lsq_head1, lsq_head, lsq_tail, lsq_num, lsq_issuei, lsq_dcachei,
                 lsq_refill, dcache_refill, delays, memory>>
  /\ dtagcmp_refill' = NoPacket /\ lsq_dtagcmpi' = NoSlot
  /\ lsq' \in Contents /\ \A j \in Slots \ Held : lsq'[j] = NoEntry
  /\ {x} \ {NoSlot} = In({"DTAGCMP"})
  /\ \A j \in Held :
       LET e == lsq[j]
           f == lsq'[j]
       IN  /\ f \in Entries
           /\ f.op = e.op /\ f.addr = e.addr /\ f.bytes = e.bytes
           /\ f.state = (IF j = x THEN "READCACHE" ELSE e.state)
           /\ e.ex => f.ex
           /\ f.early = (IF j = lsq_wtbki' /\ e.op = "load" THEN Misses(j) ELSE e.early)
  /\ lsq_wtbki' = NoSlot \/ (lsq_wtbki' \in Held /\ lsq'[lsq_wtbki'].state = "READCACHE")
  /\ lsq_missi' = NoSlot \/ (lsq_missi' \in cache_miss /\ ~ lsq'[lsq_missi'].blk)
  /\ dcachewrite' \in BOOLEAN
  /\ dcachewrite' => WriteOpen /\ HeadIs("store", "COMMIT") /\ lsq[lsq_head].byterdy = Bytes

\* The store at the head is written only when it is committed and has its block.
LEMMA SelectWrite ==
  ASSUME select_write
  PROVE  /\ dcachewrite' \in BOOLEAN
         /\ dcachewrite' => WriteOpen /\ HeadIs("store", "COMMIT") /\ lsq[lsq_head].byterdy = Bytes
<1>1. CASE HeadIs("store", "COMMIT") /\ lsq[lsq_head].byterdy = Bytes
  <2>1. PICK c \in BankConflict : dcachewrite' = (WriteOpen /\ ~ c)  BY <1>1 DEF select_write
  <2>2. QED  BY <1>1, <2>1
<1>2. CASE ~ (HeadIs("store", "COMMIT") /\ lsq[lsq_head].byterdy = Bytes)
  BY <1>2 DEF select_write
<1>3. QED  BY <1>1, <1>2

\* q has the entries of the queue, x compared, before the reading is noted.
Prepared(q, x) ==
  /\ q \in Contents /\ \A j \in Slots \ Held : q[j] = NoEntry
  /\ \A j \in Held :
       /\ q[j] \in Entries
       /\ q[j].op = lsq[j].op /\ q[j].addr = lsq[j].addr /\ q[j].bytes = lsq[j].bytes
       /\ q[j].state = (IF j = x THEN "READCACHE" ELSE lsq[j].state)
       /\ lsq[j].ex => q[j].ex
       /\ q[j].early = lsq[j].early

\* What the entries keep of q.
Noted(q) ==
  \A j \in Held : /\ lsq'[j].blk = q[j].blk /\ lsq'[j].byterdy = q[j].byterdy
                  /\ q[j].ex => lsq'[j].ex

\* A step that chooses `next' and prepares q is such a comparison.
LEMMA ComparisonOf ==
  ASSUME IInv, Select, dtagcmp_refill' = NoPacket, lsq_dtagcmpi' = NoSlot,
         NEW x, {x} \ {NoSlot} = In({"DTAGCMP"}),
         NEW q, Prepared(q, x),
         NEW next, next = NoSlot \/ (next \in Held /\ q[next].state = "READCACHE"),
         lsq' = Reading(q, next), lsq_wtbki' = next,
         lsq_missi' = NoSlot \/ (lsq_missi' \in cache_miss /\ ~ q[lsq_missi'].blk)
  PROVE  Comparison(x) /\ Noted(q)
<1>1. TypeOK  BY DEF IInv
<1>2. Held \subseteq Slots /\ NoSlot \notin Slots  BY <1>1, HeldEntry, Size
<1>a. /\ q \in Contents /\ \A j \in Slots \ Held : q[j] = NoEntry
      /\ \A j \in Held :
           /\ q[j] \in Entries
           /\ q[j].op = lsq[j].op /\ q[j].addr = lsq[j].addr /\ q[j].bytes = lsq[j].bytes
           /\ q[j].state = (IF j = x THEN "READCACHE" ELSE lsq[j].state)
           /\ lsq[j].ex => q[j].ex
           /\ q[j].early = lsq[j].early
  BY DEF Prepared
<1> DEFINE r == Reading(q, next)
<1>3. /\ r \in Contents
      /\ \A j \in Slots : j # next => r[j] = q[j]
      /\ next \in Held =>
           /\ r[next] \in Entries /\ Alike(q[next], r[next])
           /\ r[next].blk = q[next].blk /\ r[next].byterdy = q[next].byterdy
           /\ r[next].early = IF lsq[next].op = "load" THEN Misses(next) ELSE q[next].early
  BY <1>1, <1>a, ReadingEffect
<1> HIDE DEF r
<1>4. lsq' = r  BY DEF r
<1>5. \A j \in Slots \ Held : r[j] = NoEntry  BY <1>2, <1>3, <1>a
<1>6. ASSUME NEW j \in Held
      PROVE  /\ r[j] \in Entries /\ Alike(q[j], r[j])
             /\ r[j].blk = q[j].blk /\ r[j].byterdy = q[j].byterdy
             /\ r[j].early = IF j = next /\ lsq[j].op = "load" THEN Misses(j) ELSE q[j].early
  <2>1. CASE j = next  BY <1>3, <1>a, <2>1
  <2>2. CASE j # next
    <3>1. r[j] = q[j]  BY <1>2, <1>3, <2>2
    <3>2. QED  BY <1>a, <2>2, <3>1 DEF Alike
  <2>3. QED  BY <2>1, <2>2
<1>7. \A j \in Held :
        /\ r[j] \in Entries
        /\ r[j].op = lsq[j].op /\ r[j].addr = lsq[j].addr /\ r[j].bytes = lsq[j].bytes
        /\ r[j].state = (IF j = x THEN "READCACHE" ELSE lsq[j].state)
        /\ lsq[j].ex => r[j].ex
        /\ r[j].early = (IF j = lsq_wtbki' /\ lsq[j].op = "load" THEN Misses(j) ELSE lsq[j].early)
  BY <1>6, <1>a DEF Alike
<1>8. lsq_wtbki' = NoSlot \/ (lsq_wtbki' \in Held /\ r[lsq_wtbki'].state = "READCACHE")
  <2>1. next \in Held /\ q[next].state = "READCACHE" => r[next].state = "READCACHE"
    BY <1>6 DEF Alike
  <2>2. QED  BY <2>1
<1>9. lsq_missi' = NoSlot \/ (lsq_missi' \in cache_miss /\ ~ r[lsq_missi'].blk)
  <2>1. cache_miss \subseteq Held  BY Choices
  <2>2. \A j \in Held : r[j].blk = q[j].blk  BY <1>6
  <2>3. QED  BY <2>1, <2>2
<1>10. /\ stage = "dtagcmp" /\ stage' = "advance" /\ n' = 0
       /\ UNCHANGED <<lsq_head1, lsq_head, lsq_tail, lsq_num, lsq_issuei, lsq_dcachei,
                       lsq_refill, dcache_refill, delays, memory>>
  BY DEF Select, Goto
<1>11. /\ dcachewrite' \in BOOLEAN
       /\ dcachewrite' => WriteOpen /\ HeadIs("store", "COMMIT") /\ lsq[lsq_head].byterdy = Bytes
  BY SelectWrite DEF Select
<1>12. Comparison(x)
  BY <1>3, <1>4, <1>5, <1>7, <1>8, <1>9, <1>10, <1>11 DEF Comparison
<1>13. QED  BY <1>4, <1>6, <1>12 DEF Alike, Noted

\* What the entries believe after a comparison.
LEMMA BelievedAfter ==
  ASSUME NEW x, Comparison(x),
         \A j \in Held : lsq[j].state \in {"READCACHE", "WRITEBACK", "COMMIT", "DELAY1", "DTAGCMP"} =>
           /\ lsq'[j].blk => lsq'[j].byterdy = Bytes
           /\ lsq[j].op = "store" /\ ~ lsq'[j].blk => lsq'[j].byterdy # Bytes
           /\ lsq[j].op # "move" /\ dcache[lsq[j].addr] = "EXCLUSIVE" => lsq'[j].blk
           /\ lsq[j].op = "store" /\ lsq'[j].blk => dcache[lsq[j].addr] = "EXCLUSIVE"
  PROVE  Believed'
<1>1. \A j \in Slots \ Held : lsq'[j].state = "EMPTY"  BY DEF Comparison, NoEntry
<1>2. dcache' = dcache  BY DEF Comparison, memory
<1>3. \A j \in Held : /\ lsq'[j].op = lsq[j].op /\ lsq'[j].addr = lsq[j].addr
                      /\ lsq'[j].state = (IF j = x THEN "READCACHE" ELSE lsq[j].state)
  BY DEF Comparison
<1>4. x \in Held => lsq[x].state = "DTAGCMP"
  <2>1. {x} \ {NoSlot} = In({"DTAGCMP"})  BY DEF Comparison
  <2>2. NoSlot \notin Held  BY Size DEF Held
  <2>3. QED  BY <2>1, <2>2 DEF In
<1>5. ASSUME NEW j \in Slots, lsq'[j].state \in {"READCACHE", "WRITEBACK", "COMMIT", "DELAY1", "DTAGCMP"}
      PROVE  /\ lsq'[j].blk => lsq'[j].byterdy = Bytes
             /\ lsq'[j].op = "store" /\ ~ lsq'[j].blk => lsq'[j].byterdy # Bytes
             /\ lsq'[j].op # "move" /\ dcache'[lsq'[j].addr] = "EXCLUSIVE" => lsq'[j].blk
             /\ lsq'[j].op = "store" /\ lsq'[j].blk => dcache'[lsq'[j].addr] = "EXCLUSIVE"
  <2>1. j \in Held  BY <1>1, <1>5
  <2>2. lsq[j].state \in {"READCACHE", "WRITEBACK", "COMMIT", "DELAY1", "DTAGCMP"}
    BY <1>3, <1>4, <1>5, <2>1
  <2>3. QED  BY <1>2, <1>3, <2>1, <2>2
<1>6. QED  BY <1>5 DEF Believed, Known, In, Held

\* A packet is compared.
LEMMA PacketCompared ==
  ASSUME IInv, dtagcmp_packet
  PROVE  Comparison(NoSlot) /\ Believed'
<1>1. TypeOK /\ Registers /\ Flow /\ Believed  BY DEF IInv
<1>2. Select /\ dtagcmp_refill # NoPacket /\ dtagcmp_refill' = NoPacket
  BY DEF dtagcmp_packet
<1>3. lsq_dtagcmpi = NoSlot /\ lsq_dtagcmpi' = NoSlot  BY <1>1, <1>2 DEF Flow, dtagcmp_packet
<1>4. {NoSlot} \ {NoSlot} = In({"DTAGCMP"})  BY <1>1, <1>3 DEF Registers
<1> DEFINE p == dtagcmp_refill
           next == Oldest(Ready)
           miss == Oldest(cache_miss)
           hit == Hit(p.addr)
           filled == {i \in hit : lsq[i].op # "move" /\ ~ (lsq[i].op = "store" /\ p.status = "SHARED")}
           Fill == [i \in Slots |-> IF i \in filled
                     THEN [lsq[i] EXCEPT !.byterdy = Bytes, !.fetching = FALSE, !.blk = TRUE]
                     ELSE lsq[i]]
           again == Stores(hit) \cup Fetching(Loads(hit))
<1>5. p \in Packets /\ p.kind \in Takes \cup {"refill"}
  BY <1>1, <1>2, PacketFields DEF TypeOK
<1>6. /\ lsq_wtbki' = next
      /\ lsq_missi' = IF p.kind = "refill" /\ miss \in filled THEN NoSlot ELSE miss
      /\ p.kind = "replace" => lsq' = Reading(Taken(p.addr, Stores(hit), TRUE), next)
      /\ p.kind = "refill" => lsq' = Reading(Fill, next)
      /\ p.kind \in {"shared", "exclusive"} =>
           lsq' = Reading(Taken(p.addr, again, p.kind = "exclusive"), next)
  BY <1>5 DEF dtagcmp_packet, Takes
<1>7. hit \subseteq Held /\ filled \subseteq hit /\ Stores(hit) \subseteq hit /\ again \subseteq hit
  BY DEF Hit, Known, In, Stores, Loads, Fetching
<1>8. \A j \in hit : lsq[j].addr = p.addr /\ lsq[j].state # "DTAGCMP"
  BY DEF Hit, Known, In
<1>9. \A j \in Held : lsq[j].state \in {"READCACHE", "WRITEBACK", "COMMIT", "DELAY1", "DTAGCMP"} =>
        lsq[j].state # "DTAGCMP" /\ j \in Known /\ (lsq[j].addr = p.addr => j \in hit)
  BY <1>4 DEF Hit, Known, In
<1>10. /\ next = NoSlot \/ (next \in Held /\ lsq[next].state = "READCACHE")
       /\ miss = NoSlot \/ (miss \in cache_miss /\ miss \in Held /\ ~ lsq[miss].blk)
  BY Choices
<1> HIDE DEF next, miss
<1>11. \A j \in Known :
         /\ lsq[j] \in Entries
         /\ lsq[j].blk => lsq[j].byterdy = Bytes
         /\ lsq[j].op = "store" /\ ~ lsq[j].blk => lsq[j].byterdy # Bytes
         /\ lsq[j].op # "move" /\ dcache[lsq[j].addr] = "EXCLUSIVE" =>
              lsq[j].blk \/ Grants(dtagcmp_refill, lsq[j].addr)
         /\ lsq[j].op = "store" /\ lsq[j].blk =>
              \/ dcache[lsq[j].addr] = "EXCLUSIVE"
              \/ dtagcmp_refill.kind \in Takes /\ dtagcmp_refill.addr = lsq[j].addr
  BY <1>1, HeldEntry DEF Believed, Known, In
<1>12. NoSlot \notin Held  BY Size DEF Held
<1>13. CASE p.kind = "refill"
  <2>1. /\ Fill \in Contents
        /\ \A j \in Slots \ Held : Fill[j] = NoEntry
        /\ \A j \in Held :
             /\ Fill[j] \in Entries /\ Alike(lsq[j], Fill[j]) /\ Fill[j].early = lsq[j].early
             /\ Fill[j].blk = (lsq[j].blk \/ j \in filled)
             /\ Fill[j].byterdy = IF j \in filled THEN Bytes ELSE lsq[j].byterdy
    BY <1>1, <1>7, FilledEffect
  <2> HIDE DEF Fill
  <2>2. lsq_missi' = NoSlot \/ (lsq_missi' \in cache_miss /\ ~ Fill[lsq_missi'].blk)
    BY <1>6, <1>10, <1>13, <2>1
  <2>3. /\ Comparison(NoSlot)
        /\ \A j \in Held : lsq'[j].blk = Fill[j].blk /\ lsq'[j].byterdy = Fill[j].byterdy
    <3>1. Prepared(Fill, NoSlot)  BY <1>12, <2>1 DEF Alike, Prepared
    <3>2. next = NoSlot \/ (next \in Held /\ Fill[next].state = "READCACHE")
      BY <1>10, <2>1 DEF Alike
    <3>3. lsq' = Reading(Fill, next) /\ lsq_wtbki' = next  BY <1>6, <1>13
    <3>4. Comparison(NoSlot) /\ Noted(Fill)  BY <1>2, <1>3, <1>4, <2>2, <3>1, <3>2, <3>3, ComparisonOf
    <3>5. QED  BY <3>4 DEF Noted
  <2>4. ASSUME NEW j \in Held,
               lsq[j].state \in {"READCACHE", "WRITEBACK", "COMMIT", "DELAY1", "DTAGCMP"}
        PROVE  /\ lsq'[j].blk => lsq'[j].byterdy = Bytes
               /\ lsq[j].op = "store" /\ ~ lsq'[j].blk => lsq'[j].byterdy # Bytes
               /\ lsq[j].op # "move" /\ dcache[lsq[j].addr] = "EXCLUSIVE" => lsq'[j].blk
               /\ lsq[j].op = "store" /\ lsq'[j].blk => dcache[lsq[j].addr] = "EXCLUSIVE"
    <3>1. j \in Known /\ (lsq[j].addr = p.addr => j \in hit)  BY <1>9, <2>4
    <3>2. p.status = dcache[p.addr] /\ p.status \in {"SHARED", "EXCLUSIVE"} /\ p.kind \notin Takes
      BY <1>1, <1>5, <1>13, PacketFields DEF Flow, Statuses, Takes
    <3>3. lsq'[j].blk = (lsq[j].blk \/ j \in filled) /\ lsq'[j].byterdy = IF j \in filled THEN Bytes ELSE lsq[j].byterdy
      BY <2>1, <2>3
    <3>4. CASE j \in filled
      <4>1. lsq[j].addr = p.addr /\ ~ (lsq[j].op = "store" /\ p.status = "SHARED")  BY <1>7, <1>8, <3>4
      <4>2. QED  BY <3>2, <3>3, <3>4, <4>1
    <3>5. CASE j \notin filled
      <4>1. lsq[j].addr = p.addr => lsq[j].op = "move" \/ (lsq[j].op = "store" /\ p.status = "SHARED")
        BY <3>1, <3>5
      <4> HIDE DEF filled
      <4>2. QED  BY <1>11, <3>1, <3>2, <3>3, <3>5, <4>1 DEF Grants
    <3>6. QED  BY <3>4, <3>5
  <2>5. Believed'  BY <2>3, <2>4, BelievedAfter
  <2>6. QED  BY <2>3, <2>5
<1>14. ASSUME p.kind # "refill",
              NEW S \in SUBSET Held, Stores(hit) \subseteq S, S \subseteq hit,
              NEW gone \in BOOLEAN, lsq' = Reading(Taken(p.addr, S, gone), next)
       PROVE  Comparison(NoSlot) /\ Believed'
  <2> DEFINE q == Taken(p.addr, S, gone)
  <2>1. /\ q \in Contents
        /\ \A j \in Slots \ Held : q[j] = NoEntry
        /\ \A j \in Held :
             /\ q[j] \in Entries /\ Alike(lsq[j], q[j]) /\ q[j].early = lsq[j].early
             /\ q[j].blk = (lsq[j].blk /\ j \notin S)
             /\ q[j].byterdy = IF j \in S THEN Unready(lsq[j]) ELSE lsq[j].byterdy
    BY <1>1, TakenEffect
  <2>2. lsq' = Reading(q, next) /\ lsq_wtbki' = next  BY <1>6, <1>14
  <2> HIDE DEF q
  <2>3. lsq_missi' = NoSlot \/ (lsq_missi' \in cache_miss /\ ~ q[lsq_missi'].blk)
    BY <1>6, <1>10, <1>14, <2>1
  <2>4. /\ Comparison(NoSlot)
        /\ \A j \in Held : lsq'[j].blk = q[j].blk /\ lsq'[j].byterdy = q[j].byterdy
    <3>1. Prepared(q, NoSlot)  BY <1>12, <2>1 DEF Alike, Prepared
    <3>2. next = NoSlot \/ (next \in Held /\ q[next].state = "READCACHE")
      BY <1>10, <2>1 DEF Alike
    <3>3. Comparison(NoSlot) /\ Noted(q)  BY <1>2, <1>3, <1>4, <2>2, <2>3, <3>1, <3>2, ComparisonOf
    <3>4. QED  BY <3>3 DEF Noted
  <2>5. ASSUME NEW j \in Held,
               lsq[j].state \in {"READCACHE", "WRITEBACK", "COMMIT", "DELAY1", "DTAGCMP"}
        PROVE  /\ lsq'[j].blk => lsq'[j].byterdy = Bytes
               /\ lsq[j].op = "store" /\ ~ lsq'[j].blk => lsq'[j].byterdy # Bytes
               /\ lsq[j].op # "move" /\ dcache[lsq[j].addr] = "EXCLUSIVE" => lsq'[j].blk
               /\ lsq[j].op = "store" /\ lsq'[j].blk => dcache[lsq[j].addr] = "EXCLUSIVE"
    <3>1. j \in Known /\ (lsq[j].addr = p.addr => j \in hit)  BY <1>9, <2>5
    <3>2. lsq'[j].blk = (lsq[j].blk /\ j \notin S) /\ lsq'[j].byterdy = IF j \in S THEN Unready(lsq[j]) ELSE lsq[j].byterdy
      BY <2>1, <2>4
    <3>3. lsq[j].op = "store" /\ lsq[j].addr = p.addr => j \in S  BY <1>14, <3>1 DEF Stores
    <3>4. p.kind \in Takes /\ ~ Grants(p, lsq[j].addr)  BY <1>5, <1>14 DEF Grants
    <3>5. j \in S => lsq[j].addr = p.addr /\ dcache[p.addr] # "EXCLUSIVE"
      <4>1. lsq[j].addr \in Addrs  BY <1>11, <3>1, EntryFields
      <4>2. j \in S => lsq[j].addr = p.addr  BY <1>8, <1>14
      <4>3. QED  BY <1>1, <3>4, <4>1, <4>2 DEF Flow
    <3>6. lsq[j].op = "store" => Unready(lsq[j]) # Bytes
      <4>1. lsq[j] \in Entries  BY <1>11, <3>1
      <4>2. lsq[j].bytes \subseteq Bytes  BY <4>1, EntryFields
      <4>3. lsq[j].op = "store" => lsq[j].bytes # {}  BY DEF IInv, Writing
      <4>4. QED  BY <4>2, <4>3 DEF Unready
    <3>7. CASE j \in S
      <4>1. ~ lsq'[j].blk /\ lsq'[j].byterdy = Unready(lsq[j])  BY <3>2, <3>7
      <4>2. QED  BY <3>5, <3>6, <3>7, <4>1
    <3>8. CASE j \notin S
      <4>1. lsq'[j].blk = lsq[j].blk /\ lsq'[j].byterdy = lsq[j].byterdy
        <5>1. lsq[j].blk \in BOOLEAN  BY <1>11, <3>1, EntryFields
        <5>2. QED  BY <3>2, <3>8, <5>1
      <4>2. ~ (lsq[j].op = "store" /\ lsq[j].addr = p.addr)  BY <3>3, <3>8
      <4>3. QED  BY <1>11, <3>1, <3>4, <4>1, <4>2
    <3>9. QED  BY <3>7, <3>8
  <2>6. Believed'  BY <2>4, <2>5, BelievedAfter
  <2>7. QED  BY <2>4, <2>6
<1>15. CASE p.kind = "replace"
  BY <1>6, <1>7, <1>14, <1>15
<1>16. CASE p.kind \in {"shared", "exclusive"}
  BY <1>6, <1>7, <1>14, <1>16
<1>17. QED  BY <1>5, <1>13, <1>15, <1>16 DEF Takes

\* What the entries believe when no packet is there.
LEMMA Settled ==
  ASSUME IInv, dtagcmp_refill = NoPacket
  PROVE  /\ \A j \in Known :
              /\ lsq[j].blk => lsq[j].byterdy = Bytes
              /\ lsq[j].op = "store" /\ ~ lsq[j].blk => lsq[j].byterdy # Bytes
         /\ \A j \in Known \cup In({"DTAGCMP"}) :
              /\ lsq[j].op # "move" /\ dcache[lsq[j].addr] = "EXCLUSIVE" => lsq[j].blk
              /\ lsq[j].op = "store" /\ lsq[j].blk => dcache[lsq[j].addr] = "EXCLUSIVE"
<1>1. dtagcmp_refill.kind = "none"  BY DEF NoPacket
<1>2. \A a : ~ Grants(dtagcmp_refill, a)  BY <1>1 DEF Grants
<1>3. dtagcmp_refill.kind \notin Takes  BY <1>1 DEF Takes
<1>4. QED  BY <1>2, <1>3 DEF IInv, Believed

\* Nothing is compared.
LEMMA NothingCompared ==
  ASSUME IInv, dtagcmp_nothing
  PROVE  Comparison(NoSlot) /\ Believed'
<1>1. TypeOK /\ Registers  BY DEF IInv
<1>2. Select /\ dtagcmp_refill = NoPacket /\ dtagcmp_refill' = NoPacket /\ lsq_dtagcmpi = NoSlot
      /\ lsq_dtagcmpi' = NoSlot
  BY DEF dtagcmp_nothing
<1>3. {NoSlot} \ {NoSlot} = In({"DTAGCMP"})  BY <1>1, <1>2 DEF Registers
<1> DEFINE next == Oldest(Ready)
<1>4. lsq' = Reading(lsq, next) /\ lsq_wtbki' = next /\ lsq_missi' = Oldest(cache_miss)
  BY DEF dtagcmp_nothing
<1>5. /\ next = NoSlot \/ (next \in Held /\ lsq[next].state = "READCACHE")
      /\ lsq_missi' = NoSlot \/ (lsq_missi' \in cache_miss /\ ~ lsq[lsq_missi'].blk)
  BY <1>4, Choices
<1> HIDE DEF next
<1>6. lsq \in Contents /\ \A j \in Slots \ Held : lsq[j] = NoEntry  BY <1>1, HeldEntry DEF TypeOK, Contents
<1>7. NoSlot \notin Held  BY Size DEF Held
<1>8. Prepared(lsq, NoSlot)  BY <1>1, <1>6, <1>7, HeldEntry DEF Prepared
<1>9. Comparison(NoSlot) /\ Noted(lsq)  BY <1>2, <1>3, <1>4, <1>5, <1>8, ComparisonOf
<1>10. ASSUME NEW j \in Held,
              lsq[j].state \in {"READCACHE", "WRITEBACK", "COMMIT", "DELAY1", "DTAGCMP"}
       PROVE  /\ lsq'[j].blk => lsq'[j].byterdy = Bytes
              /\ lsq[j].op = "store" /\ ~ lsq'[j].blk => lsq'[j].byterdy # Bytes
              /\ lsq[j].op # "move" /\ dcache[lsq[j].addr] = "EXCLUSIVE" => lsq'[j].blk
              /\ lsq[j].op = "store" /\ lsq'[j].blk => dcache[lsq[j].addr] = "EXCLUSIVE"
  <2>1. j \in Known  BY <1>3, <1>10 DEF Known, In
  <2>2. lsq'[j].blk = lsq[j].blk /\ lsq'[j].byterdy = lsq[j].byterdy  BY <1>9 DEF Noted
  <2>3. QED  BY <1>2, <2>1, <2>2, Settled
<1>11. QED  BY <1>9, <1>10, BelievedAfter

\* The entry that has been compared.
LEMMA TagCheckedFields ==
  ASSUME NEW i \in Slots, lsq[i] \in Entries, NEW fw \in SUBSET Bytes
  PROVE  LET f == TagChecked(i, fw) IN
         /\ f \in Entries
         /\ f.op = lsq[i].op /\ f.addr = lsq[i].addr /\ f.bytes = lsq[i].bytes
         /\ f.state = "READCACHE" /\ f.ex = lsq[i].ex /\ f.early = lsq[i].early
         /\ f.blk = lsq[i].blk
         /\ f.byterdy = IF lsq[i].blk \/ lsq[i].op = "move" THEN Bytes ELSE Unready(lsq[i]) \cup fw
<1> DEFINE b == IF lsq[i].blk \/ lsq[i].op = "move" THEN Bytes ELSE Unready(lsq[i]) \cup fw
           f == [lsq[i] EXCEPT !.state = "READCACHE", !.fetching = FALSE, !.byterdy = b]
<1>1. TagChecked(i, fw) = f  BY DEF TagChecked
<1>2. b \in SUBSET Bytes  BY DEF Unready
<1> HIDE DEF b
<1>3. /\ f \in Entries
      /\ f.op = lsq[i].op /\ f.addr = lsq[i].addr /\ f.bytes = lsq[i].bytes
      /\ f.state = "READCACHE" /\ f.ex = lsq[i].ex /\ f.early = lsq[i].early
      /\ f.blk = lsq[i].blk /\ f.byterdy = b
  BY <1>2 DEF Entries, States
<1> HIDE DEF f
<1>4. QED  BY <1>1, <1>3 DEF b

\* q has entry i compared; others may be told something, or forwarded bytes.
Forwards(q, i, fw) ==
  /\ q \in Contents /\ (\A j \in Slots \ Held : q[j] = NoEntry) /\ q[i] = TagChecked(i, fw)
  /\ \A j \in Held \ {i} :
       /\ q[j] \in Entries /\ Alike(lsq[j], q[j]) /\ q[j].early = lsq[j].early
       /\ q[j].blk = lsq[j].blk
       /\ lsq[j].byterdy \subseteq q[j].byterdy
       /\ lsq[j].op = "store" => q[j].byterdy = lsq[j].byterdy

\* Access i is compared.
LEMMA OneCompared ==
  ASSUME IInv, NEW i \in Slots, NEW op, Compared(i, op),
         NEW fw \in SUBSET Bytes, op = "store" => fw = {},
         NEW q, Forwards(q, i, fw),
         NEW next, next = i \/ next = Oldest(Ready),
         lsq' = Reading(q, next), lsq_wtbki' = next
  PROVE  Comparison(i) /\ Believed' /\ Noted(q)
<1>1. TypeOK /\ Registers /\ Writing  BY DEF IInv
<1>2. /\ Select /\ dtagcmp_refill = NoPacket /\ dtagcmp_refill' = NoPacket
      /\ lsq_dtagcmpi = i /\ lsq_dtagcmpi' = NoSlot /\ lsq[i].op = op
      /\ lsq_missi' = Oldest(cache_miss)
  BY DEF Compared
<1>3. NoSlot \notin Slots /\ Held \subseteq Slots  BY <1>1, HeldEntry, Size
<1>4. {i} \ {NoSlot} = In({"DTAGCMP"})  BY <1>1, <1>2 DEF Registers
<1>5. i \in Held /\ lsq[i].state = "DTAGCMP" /\ lsq[i] \in Entries
  BY <1>1, <1>3, <1>4, HeldEntry DEF In
<1>a. q[i] = TagChecked(i, fw)  BY DEF Forwards
<1>b. \A j \in Held \ {i} :
        /\ q[j] \in Entries /\ Alike(lsq[j], q[j]) /\ q[j].early = lsq[j].early
        /\ q[j].blk = lsq[j].blk
        /\ lsq[j].byterdy \subseteq q[j].byterdy
        /\ lsq[j].op = "store" => q[j].byterdy = lsq[j].byterdy
  BY DEF Forwards
<1>6. /\ q[i] \in Entries
      /\ q[i].op = lsq[i].op /\ q[i].addr = lsq[i].addr /\ q[i].bytes = lsq[i].bytes
      /\ q[i].state = "READCACHE" /\ q[i].ex = lsq[i].ex /\ q[i].early = lsq[i].early
      /\ q[i].blk = lsq[i].blk
      /\ q[i].byterdy = IF lsq[i].blk \/ lsq[i].op = "move" THEN Bytes ELSE Unready(lsq[i]) \cup fw
  BY <1>5, <1>a, TagCheckedFields
<1>7. \A j \in Held :
        /\ q[j] \in Entries
        /\ q[j].op = lsq[j].op /\ q[j].addr = lsq[j].addr /\ q[j].bytes = lsq[j].bytes
        /\ q[j].state = (IF j = i THEN "READCACHE" ELSE lsq[j].state)
        /\ lsq[j].ex => q[j].ex
        /\ q[j].early = lsq[j].early
        /\ q[j].blk = lsq[j].blk
  <2>1. ASSUME NEW j \in Held
        PROVE  /\ q[j] \in Entries
               /\ q[j].op = lsq[j].op /\ q[j].addr = lsq[j].addr /\ q[j].bytes = lsq[j].bytes
               /\ q[j].state = (IF j = i THEN "READCACHE" ELSE lsq[j].state)
               /\ lsq[j].ex => q[j].ex
               /\ q[j].early = lsq[j].early
               /\ q[j].blk = lsq[j].blk
    <3>1. CASE j = i  BY <1>6, <3>1
    <3>2. CASE j # i  BY <1>b, <3>2 DEF Alike
    <3>3. QED  BY <3>1, <3>2
  <2>2. QED  BY <2>1
<1>8. next = NoSlot \/ (next \in Held /\ q[next].state = "READCACHE")
  <2>1. CASE next = i  BY <1>5, <1>6, <2>1
  <2>2. CASE next = Oldest(Ready)
    <3>1. next = NoSlot \/ (next \in Held /\ lsq[next].state = "READCACHE")  BY <2>2, Choices
    <3>2. QED  BY <1>7, <3>1
  <2>3. QED  BY <2>1, <2>2
<1>9. lsq_missi' = NoSlot \/ (lsq_missi' \in cache_miss /\ ~ q[lsq_missi'].blk)
  <2>1. \/ Oldest(cache_miss) = NoSlot
        \/ /\ Oldest(cache_miss) \in cache_miss /\ Oldest(cache_miss) \in Held
           /\ ~ lsq[Oldest(cache_miss)].blk
    BY Choices
  <2>2. QED  BY <1>2, <1>7, <2>1
<1>c. Prepared(q, i)  BY <1>7 DEF Forwards, Prepared
<1>10. Comparison(i) /\ Noted(q)  BY <1>2, <1>4, <1>8, <1>9, <1>c, ComparisonOf
<1>11. ASSUME NEW j \in Held,
              lsq[j].state \in {"READCACHE", "WRITEBACK", "COMMIT", "DELAY1", "DTAGCMP"}
       PROVE  /\ lsq'[j].blk => lsq'[j].byterdy = Bytes
              /\ lsq[j].op = "store" /\ ~ lsq'[j].blk => lsq'[j].byterdy # Bytes
              /\ lsq[j].op # "move" /\ dcache[lsq[j].addr] = "EXCLUSIVE" => lsq'[j].blk
              /\ lsq[j].op = "store" /\ lsq'[j].blk => dcache[lsq[j].addr] = "EXCLUSIVE"
  <2>1. lsq'[j].blk = lsq[j].blk /\ lsq'[j].byterdy = q[j].byterdy  BY <1>7, <1>10 DEF Noted
  <2>2. CASE j = i
    <3>1. i \in In({"DTAGCMP"})  BY <1>5 DEF In
    <3>2. /\ lsq[i].op # "move" /\ dcache[lsq[i].addr] = "EXCLUSIVE" => lsq[i].blk
          /\ lsq[i].op = "store" /\ lsq[i].blk => dcache[lsq[i].addr] = "EXCLUSIVE"
      BY <1>2, <3>1, Settled
    <3>3. lsq[i].blk => q[i].byterdy = Bytes  BY <1>6
    <3>4. lsq[i].op = "store" /\ ~ lsq[i].blk => q[i].byterdy # Bytes
      <4>1. lsq[i].op = "store" => lsq[i].bytes # {} /\ lsq[i].bytes \subseteq Bytes /\ fw = {}
        BY <1>1, <1>2, <1>5, EntryFields DEF Writing
      <4>2. lsq[i].op = "store" /\ ~ lsq[i].blk => q[i].byterdy = Bytes \ lsq[i].bytes
        BY <1>6, <4>1 DEF Unready
      <4>3. QED  BY <4>1, <4>2
    <3>5. QED  BY <2>1, <2>2, <3>2, <3>3, <3>4
  <2>3. CASE j # i
    <3>1. j \in Known  BY <1>4, <1>11, <2>3 DEF Known, In
    <3>2. /\ lsq[j].byterdy \subseteq q[j].byterdy /\ q[j].byterdy \subseteq Bytes
          /\ lsq[j].op = "store" => q[j].byterdy = lsq[j].byterdy
      BY <1>7, <1>b, <2>3, EntryFields
    <3>3. /\ lsq[j].blk => lsq[j].byterdy = Bytes
          /\ lsq[j].op = "store" /\ ~ lsq[j].blk => lsq[j].byterdy # Bytes
          /\ lsq[j].op # "move" /\ dcache[lsq[j].addr] = "EXCLUSIVE" => lsq[j].blk
          /\ lsq[j].op = "store" /\ lsq[j].blk => dcache[lsq[j].addr] = "EXCLUSIVE"
      BY <1>2, <3>1, Settled
    <3>4. QED  BY <2>1, <3>2, <3>3
  <2>4. QED  BY <2>2, <2>3
<1>12. QED  BY <1>10, <1>11, BelievedAfter

\* A load, a store and a move are compared.
LEMMA MoveCompared ==
  ASSUME IInv, NEW i \in Slots, dtagcmp_move(i)
  PROVE  Comparison(i) /\ Believed'
<1>1. TypeOK /\ Registers  BY DEF IInv
<1> DEFINE q == [lsq EXCEPT ![i] = TagChecked(i, {})]
           next == Oldest(Ready)
<1>2. Compared(i, "move") /\ lsq_wtbki' = next /\ lsq' = Reading(q, next)  BY DEF dtagcmp_move
<1>3. i \in Held /\ lsq[i] \in Entries /\ lsq \in Contents
  BY <1>1, <1>2, HeldEntry, Size DEF Compared, Registers, In, TypeOK, Contents
<1>4. TagChecked(i, {}) \in Entries  BY <1>3, TagCheckedFields
<1>5. q \in Contents /\ q[i] = TagChecked(i, {}) /\ \A j \in Slots : j # i => q[j] = lsq[j]
  BY <1>3, <1>4 DEF Contents
<1> HIDE DEF q, next
<1>6. \A j \in Slots \ Held : q[j] = NoEntry  BY <1>1, <1>3, <1>5, HeldEntry
<1>7. \A j \in Held \ {i} :
        /\ q[j] \in Entries /\ Alike(lsq[j], q[j]) /\ q[j].early = lsq[j].early
        /\ q[j].blk = lsq[j].blk
        /\ lsq[j].byterdy \subseteq q[j].byterdy
        /\ lsq[j].op = "store" => q[j].byterdy = lsq[j].byterdy
  BY <1>1, <1>5, HeldEntry DEF Alike
<1>8. next = i \/ next = Oldest(Ready)  BY DEF next
<1>9. Forwards(q, i, {})  BY <1>5, <1>6, <1>7 DEF Forwards
<1>10. QED  BY <1>2, <1>8, <1>9, OneCompared

LEMMA LoadCompared ==
  ASSUME IInv, NEW i \in Slots, dtagcmp_load(i)
  PROVE  Comparison(i) /\ Believed'
<1>1. TypeOK /\ Registers  BY DEF IInv
<1> DEFINE Q(j) == IF j = i THEN TagChecked(i, Forwarded(i))
                   ELSE IF j = Unread(i) THEN [lsq[j] EXCEPT !.loadspec = TRUE] ELSE lsq[j]
           q == [j \in Slots |-> Q(j)]
           next == IF ~ lsq[i].ex /\ lsq[i].blk THEN i ELSE Oldest(Ready)
<1>2. Compared(i, "load") /\ lsq_wtbki' = next /\ lsq' = Reading(q, next)  BY DEF dtagcmp_load
<1>3. i \in Held /\ lsq[i] \in Entries /\ Held \subseteq Slots
  BY <1>1, <1>2, HeldEntry, Size DEF Compared, Registers, In
<1>4. Forwarded(i) \in SUBSET Bytes  BY <1>3, EntryFields DEF Forwarded
<1>5. TagChecked(i, Forwarded(i)) \in Entries  BY <1>3, <1>4, TagCheckedFields
<1>6. Unread(i) \in Held \cup {NoSlot}
  <2> DEFINE S == Older(i) \cap Loads(Held \ In({"WRITEBACK", "COMMIT", "DELAY1"}))
  <2>1. S \subseteq Held /\ S \in SUBSET Slots  BY <1>3 DEF Older
  <2>2. Unread(i) = Youngest(S)  BY DEF Unread
  <2>3. CASE S = {}  BY <2>2, <2>3 DEF Youngest
  <2>4. CASE S # {}
    <3> HIDE DEF S
    <3>1. Youngest(S) \in S  BY <1>1, <2>1, <2>4, YoungestIs
    <3>2. QED  BY <2>1, <2>2, <3>1
  <2>5. QED  BY <2>3, <2>4
<1>7. q[i] = TagChecked(i, Forwarded(i))  BY <1>3
<1>8. ASSUME NEW j \in Held \ {i}
      PROVE  /\ q[j] \in Entries /\ Alike(lsq[j], q[j]) /\ q[j].early = lsq[j].early
             /\ q[j].blk = lsq[j].blk
             /\ q[j].byterdy = lsq[j].byterdy
  <2>1. lsq[j] \in Entries  BY <1>1, HeldEntry
  <2>2. CASE j = Unread(i)
    <3>1. q[j] = [lsq[j] EXCEPT !.loadspec = TRUE]  BY <1>3, <2>2
    <3> HIDE DEF q
    <3>2. QED  BY <2>1, <3>1 DEF Entries, Alike
  <2>3. CASE j # Unread(i)
    <3>1. q[j] = lsq[j]  BY <1>3, <2>3
    <3> HIDE DEF q
    <3>2. QED  BY <2>1, <3>1 DEF Alike
  <2>4. QED  BY <2>2, <2>3
<1>9. \A j \in Slots \ Held : q[j] = NoEntry
  <2>1. \A j \in Slots \ Held : j # i /\ j # Unread(i)  BY <1>3, <1>6, Size
  <2>2. \A j \in Slots \ Held : lsq[j] = NoEntry  BY <1>1, HeldEntry
  <2>3. QED  BY <2>1, <2>2
<1>10. q \in Contents
  <2>1. \A j \in Slots : q[j] \in Entries \cup {NoEntry}
    <3> HIDE DEF q
    <3>1. QED  BY <1>3, <1>5, <1>7, <1>8, <1>9
  <2>2. \A j \in Slots : q[j] = Q(j)  OBVIOUS
  <2> HIDE DEF Q
  <2>3. QED  BY <2>1, <2>2 DEF Contents
<1>11. next = i \/ next = Oldest(Ready)  OBVIOUS
<1> HIDE DEF q, next
<1>12. \A j \in Held \ {i} :
        /\ q[j] \in Entries /\ Alike(lsq[j], q[j]) /\ q[j].early = lsq[j].early
        /\ q[j].blk = lsq[j].blk
        /\ lsq[j].byterdy \subseteq q[j].byterdy
        /\ lsq[j].op = "store" => q[j].byterdy = lsq[j].byterdy
  BY <1>8
<1>13. Forwards(q, i, Forwarded(i))  BY <1>7, <1>9, <1>10, <1>12 DEF Forwards
<1>14. QED  BY <1>2, <1>4, <1>11, <1>13, OneCompared

\* A store also tells the loads it reaches that have read.
LEMMA StoreCompared ==
  ASSUME IInv, NEW i \in Slots, dtagcmp_store(i)
  PROVE  /\ Comparison(i) /\ Believed'
         /\ \A j \in Receivers(i) : j \in In({"WRITEBACK"}) \/ j = lsq_wtbki' => lsq'[j].ex
<1>1. TypeOK /\ Registers  BY DEF IInv
<1> DEFINE next == Oldest(Ready)
           Q(j) == IF j = i THEN TagChecked(i, {})
                   ELSE IF j \in Receivers(i)
                   THEN [lsq[j] EXCEPT !.byterdy = @ \cup Exposed(i, j),
                                       !.ex = @ \/ j \in HasRead(next)]
                   ELSE lsq[j]
           q == [j \in Slots |-> Q(j)]
<1>2. Compared(i, "store") /\ lsq_wtbki' = next /\ lsq' = Reading(q, next)  BY DEF dtagcmp_store
<1>3. i \in Held /\ lsq[i] \in Entries /\ Held \subseteq Slots
  BY <1>1, <1>2, HeldEntry, Size DEF Compared, Registers, In
<1>4. TagChecked(i, {}) \in Entries  BY <1>3, TagCheckedFields
<1>5. Receivers(i) \subseteq Held /\ \A j \in Receivers(i) : lsq[j].op = "load" /\ j # i
  <2>1. Receivers(i) \subseteq Held /\ \A j \in Receivers(i) : lsq[j].op = "load"
    BY DEF Receivers, Younger, Loads
  <2>2. lsq[i].op = "store"  BY <1>2 DEF Compared
  <2>3. QED  BY <2>1, <2>2
<1>6. q[i] = TagChecked(i, {})  BY <1>3
<1>7. ASSUME NEW j \in Held \ {i}
      PROVE  /\ q[j] \in Entries /\ Alike(lsq[j], q[j]) /\ q[j].early = lsq[j].early
             /\ q[j].blk = lsq[j].blk
             /\ lsq[j].byterdy \subseteq q[j].byterdy
             /\ lsq[j].op = "store" => q[j].byterdy = lsq[j].byterdy
             /\ j \in Receivers(i) /\ j \in HasRead(next) => q[j].ex
  <2>1. lsq[j] \in Entries /\ lsq[j].byterdy \subseteq Bytes /\ lsq[j].ex \in BOOLEAN
    BY <1>1, HeldEntry, EntryFields
  <2>2. CASE j \in Receivers(i)
    <3> DEFINE b == lsq[j].byterdy \cup Exposed(i, j)
               x == lsq[j].ex \/ j \in HasRead(next)
    <3>1. q[j] = [lsq[j] EXCEPT !.byterdy = b, !.ex = x]  BY <1>3, <2>2
    <3>2. b \in SUBSET Bytes /\ lsq[j].byterdy \subseteq b
      <4>1. Exposed(i, j) \subseteq Bytes  BY <1>3, EntryFields DEF Exposed
      <4>2. QED  BY <2>1, <4>1
    <3>3. x \in BOOLEAN /\ (lsq[j].ex => x) /\ (j \in HasRead(next) => x)  OBVIOUS
    <3> HIDE DEF q, b, x
    <3>4. q[j] \in Entries /\ q[j].ex = x /\ q[j].byterdy = b /\ q[j].early = lsq[j].early
          /\ q[j].blk = lsq[j].blk /\ q[j].op = lsq[j].op /\ q[j].addr = lsq[j].addr
          /\ q[j].bytes = lsq[j].bytes /\ q[j].state = lsq[j].state
      BY <2>1, <3>1, <3>2, <3>3 DEF Entries
    <3>5. lsq[j].op = "load"  BY <1>5, <2>2
    <3>6. QED  BY <3>2, <3>3, <3>4, <3>5 DEF Alike
  <2>3. CASE j \notin Receivers(i)
    <3>1. q[j] = lsq[j]  BY <1>3, <2>3
    <3> HIDE DEF q
    <3>2. QED  BY <2>1, <2>3, <3>1 DEF Alike
  <2>4. QED  BY <2>2, <2>3
<1>8. \A j \in Slots \ Held : q[j] = NoEntry
  <2>1. \A j \in Slots \ Held : j # i /\ j \notin Receivers(i)  BY <1>3, <1>5
  <2>2. \A j \in Slots \ Held : lsq[j] = NoEntry  BY <1>1, HeldEntry
  <2>3. QED  BY <2>1, <2>2
<1>9. q \in Contents
  <2>1. \A j \in Slots : q[j] \in Entries \cup {NoEntry}
    <3> HIDE DEF q
    <3>1. QED  BY <1>3, <1>4, <1>6, <1>7, <1>8
  <2>2. \A j \in Slots : q[j] = Q(j)  OBVIOUS
  <2> HIDE DEF Q
  <2>3. QED  BY <2>1, <2>2 DEF Contents
<1> HIDE DEF q
<1>10. Forwards(q, i, {})  BY <1>6, <1>7, <1>8, <1>9 DEF Forwards
<1>11. Comparison(i) /\ Believed' /\ Noted(q)
  <2>1. next = i \/ next = Oldest(Ready)  OBVIOUS
  <2> HIDE DEF next
  <2>2. QED  BY <1>2, <1>10, <2>1, OneCompared
<1>12. ASSUME NEW j \in Receivers(i), j \in In({"WRITEBACK"}) \/ j = lsq_wtbki'
       PROVE  lsq'[j].ex
  <2>1. j \in HasRead(next)  BY <1>2, <1>12 DEF HasRead
  <2>2. j \in Held \ {i}  BY <1>5
  <2>3. q[j].ex  BY <1>7, <2>1, <2>2
  <2>4. QED  BY <1>11, <2>2, <2>3 DEF Noted
<1>13. QED  BY <1>11, <1>12

-----------------------------------------------------------------------------
(***************************************************************************)
(* What keeps the parts of the invariant.                                  *)
(***************************************************************************)

\* The same slots are held, in the same order.
SameRing ==
  /\ lsq_head1' = lsq_head1
  /\ \A i \in Slots : lsq'[i].state = "EMPTY" <=> lsq[i].state = "EMPTY"

LEMMA SameOrder ==
  ASSUME SameRing
  PROVE  /\ Held' = Held
         /\ \A i : Age(i)' = Age(i) /\ Older(i)' = Older(i) /\ Younger(i)' = Younger(i)
         /\ \A i, j : Between(i, j)' = Between(i, j)
<1>1. Held' = Held  BY DEF SameRing, Held
<1>2. \A i : Age(i)' = Age(i)  BY DEF SameRing, Age
<1>3. \A i : Older(i)' = Older(i) /\ Younger(i)' = Younger(i)  BY <1>1, <1>2 DEF Older, Younger
<1>4. QED  BY <1>1, <1>2, <1>3 DEF Between

\* The ring stays as it is when nothing enters, retires or leaves.
LEMMA PlacedKept ==
  ASSUME IInv, SameRing, UNCHANGED <<lsq_head, lsq_tail, lsq_num>>,
         \A i \in Slots : /\ lsq'[i].state = "COMMIT" <=> lsq[i].state = "COMMIT"
                          /\ lsq'[i].state = "DELAY1" <=> lsq[i].state = "DELAY1",
         stage' = "map" => n' = 0
  PROVE  Placed'
<1>1. /\ Held' = Held
      /\ \A i : Age(i)' = Age(i) /\ Older(i)' = Older(i)
  BY SameOrder
<1>2. In({"DELAY1"})' = In({"DELAY1"}) /\ In({"COMMIT"})' = In({"COMMIT"}) /\ Retired' = Retired
  BY <1>1 DEF In, Held, Retired
<1>3. lsq_head1' = lsq_head1  BY DEF SameRing
<1>4. n' = 0 => ~ (n' > 0)  OBVIOUS
<1>5. /\ Held = {i \in Slots : Age(i) < lsq_num}
      /\ (lsq_head1 + lsq_num) % lsq_ifq_size = lsq_tail
      /\ (lsq_head1 + Cardinality(In({"DELAY1"}))) % lsq_ifq_size = lsq_head
      /\ \A i \in In({"DELAY1"}) : Older(i) \subseteq In({"DELAY1"})
      /\ \A i \in In({"COMMIT"}) : Older(i) \subseteq Retired
  BY DEF IInv, Placed
<1>6. Held' = {i \in Slots : Age(i) < lsq_num}'  BY <1>1, <1>5
<1>7. /\ ((lsq_head1 + lsq_num) % lsq_ifq_size = lsq_tail)'
      /\ ((lsq_head1 + Cardinality(In({"DELAY1"}))) % lsq_ifq_size = lsq_head)'
  BY <1>2, <1>3, <1>5
<1>8. /\ (\A i \in In({"DELAY1"}) : Older(i) \subseteq In({"DELAY1"}))'
      /\ (\A i \in In({"COMMIT"}) : Older(i) \subseteq Retired)'
  BY <1>1, <1>2, <1>5
<1>9. (stage = "map" /\ n > 0)' => FALSE  BY <1>4
<1>10. QED  BY <1>6, <1>7, <1>8, <1>9 DEF Placed

\* The accesses are the same.
SameAccesses ==
  \A j \in Held : lsq'[j].op = lsq[j].op /\ lsq'[j].addr = lsq[j].addr /\ lsq'[j].bytes = lsq[j].bytes

\* A store that a load has missed stays missed until it is known.
LEMMA HiddenKept ==
  ASSUME SameRing, SameAccesses, NEW i \in Held, NEW j \in Slots, NEW b, Hidden(i, j, b), j \notin Known'
  PROVE  Hidden(i, j, b)'
<1>1. /\ Held' = Held
      /\ Older(i)' = Older(i) /\ Between(j, i)' = Between(j, i)
  BY SameOrder
<1>2. j \in Held /\ Between(j, i) \subseteq Held  BY DEF Hidden, Older, Between, Younger
<1>3. QED  BY <1>1, <1>2 DEF Hidden, SameAccesses

\* A load that misses a store: the youngest of its writers is hidden.
LEMMA MissHidden ==
  ASSUME TypeOK, NEW i \in Held, Misses(i)
  PROVE  \E j \in Slots, b \in lsq[i].bytes : Hidden(i, j, b)
<1> DEFINE writers(b) == {j \in Stores(Older(i)) : lsq[j].addr = lsq[i].addr /\ b \in lsq[j].bytes}
<1>1. PICK b \in lsq[i].bytes : writers(b) # {} /\ Youngest(writers(b)) \notin Known
  BY DEF Misses
<1> DEFINE W == writers(b)
           j == Youngest(W)
<1>2. Held \subseteq Slots  BY HeldEntry
<1>3. W \subseteq Older(i) /\ Older(i) \subseteq Held /\ W \in SUBSET Slots
  BY <1>2 DEF Older, Stores
<1>4. \A k \in W : lsq[k].op = "store" /\ lsq[k].addr = lsq[i].addr /\ b \in lsq[k].bytes
  BY DEF Stores
<1>5. \A k \in Older(i) : lsq[k].op = "store" /\ lsq[k].addr = lsq[i].addr /\ b \in lsq[k].bytes => k \in W
  BY DEF Stores
<1>6. W # {} /\ j \notin Known  BY <1>1
<1> HIDE DEF W
<1>7. j \in W /\ \A k \in W : Age(k) <= Age(j)  BY <1>3, <1>6, YoungestIs
<1> HIDE DEF j
<1>8. ASSUME NEW k \in Between(j, i), lsq[k].op = "store", lsq[k].addr = lsq[i].addr
      PROVE  b \notin lsq[k].bytes
  <2>1. k \in Older(i) /\ k \in Held /\ Age(k) > Age(j)  BY DEF Between, Younger, Older
  <2>2. Age(k) \in Int /\ Age(j) \in Int  BY <1>2, <1>3, <1>7, <2>1, Ages, Size
  <2>3. k \notin W  BY <1>7, <2>1, <2>2
  <2>4. QED  BY <1>5, <1>8, <2>1, <2>3
<1>9. Hidden(i, j, b)  BY <1>3, <1>4, <1>6, <1>7, <1>8 DEF Hidden
<1>10. QED  BY <1>3, <1>7, <1>9

\* A comparison changes no state but that of x.
LEMMA ComparedStates ==
  ASSUME IInv, NEW x, Comparison(x)
  PROVE  /\ SameRing /\ SameAccesses
         /\ \A i \in Slots : \A S \in SUBSET {"ENTER", "ISSUE", "DCACHE", "WRITEBACK", "COMMIT", "DELAY1"} :
              lsq'[i].state \in S <=> lsq[i].state \in S
         /\ Known' = Known \cup In({"DTAGCMP"}) /\ In({"DTAGCMP"})' = {}
<1>1. TypeOK  BY DEF IInv
<1>2. Held \subseteq Slots /\ NoSlot \notin Slots /\ \A i \in Slots \ Held : lsq[i] = NoEntry
  BY <1>1, HeldEntry, Size
<1>3. \A i \in Slots \ Held : lsq'[i].state = "EMPTY" /\ lsq[i].state = "EMPTY"
  BY <1>2 DEF Comparison, NoEntry
<1>4. \A j \in Held : /\ lsq'[j].op = lsq[j].op /\ lsq'[j].addr = lsq[j].addr
                      /\ lsq'[j].bytes = lsq[j].bytes
                      /\ lsq'[j].state = (IF j = x THEN "READCACHE" ELSE lsq[j].state)
  BY DEF Comparison
<1>5. \A j \in Held : j = x <=> lsq[j].state = "DTAGCMP"
  <2>1. {x} \ {NoSlot} = In({"DTAGCMP"})  BY DEF Comparison
  <2>2. QED  BY <1>2, <2>1 DEF In
<1>6. SameAccesses  BY <1>4 DEF SameAccesses
<1>7. SameRing
  <2>1. \A i \in Held : lsq'[i].state # "EMPTY" /\ lsq[i].state # "EMPTY"  BY <1>4 DEF Held
  <2>2. QED  BY <1>3, <2>1 DEF SameRing, Comparison
<1>8. \A i \in Slots : \A S \in SUBSET {"ENTER", "ISSUE", "DCACHE", "WRITEBACK", "COMMIT", "DELAY1"} :
        lsq'[i].state \in S <=> lsq[i].state \in S
  BY <1>3, <1>4, <1>5
<1>9. Held' = Held  BY <1>7, SameOrder
<1>10. Known' = Known \cup In({"DTAGCMP"}) /\ In({"DTAGCMP"})' = {}
  BY <1>4, <1>5, <1>9 DEF Known, In
<1>11. QED  BY <1>6, <1>7, <1>8, <1>10

\* The store that has been compared has been found by the loads that missed it.
LEMMA EarlyAfter ==
  ASSUME IInv, NEW x, Comparison(x),
         \A i \in Held : \A b : Hidden(i, x, b) /\ lsq[i].op = "load" /\ b \in lsq[i].bytes
                              /\ (i \in In({"WRITEBACK"}) \/ i = lsq_wtbki') => lsq'[i].ex
  PROVE  Early'
<1>1. TypeOK /\ Early  BY DEF IInv
<1>2. SameRing /\ SameAccesses /\ Known' = Known \cup In({"DTAGCMP"})  BY ComparedStates
<1>3. Held' = Held /\ Held \subseteq Slots /\ NoSlot \notin Slots  BY <1>1, <1>2, SameOrder, HeldEntry, Size
<1>4. {x} \ {NoSlot} = In({"DTAGCMP"}) /\ stage = "dtagcmp" /\ stage' = "advance"  BY DEF Comparison
<1>5. ASSUME NEW i \in Held, lsq'[i].early
      PROVE  /\ lsq'[i].op = "load"
             /\ \/ lsq'[i].state = "WRITEBACK"
                \/ lsq'[i].state = "READCACHE" /\ i = lsq_wtbki'
             /\ lsq'[i].ex \/ \E j \in Slots, b \in lsq'[i].bytes : Hidden(i, j, b)'
  <2>1. /\ lsq'[i].op = lsq[i].op /\ lsq'[i].bytes = lsq[i].bytes
        /\ lsq'[i].state = (IF i = x THEN "READCACHE" ELSE lsq[i].state)
        /\ lsq[i].ex => lsq'[i].ex
        /\ lsq'[i].early = (IF i = lsq_wtbki' /\ lsq[i].op = "load" THEN Misses(i) ELSE lsq[i].early)
    BY DEF Comparison
  <2>2. ASSUME NEW j \in Slots, NEW b \in lsq[i].bytes, Hidden(i, j, b), lsq[i].op = "load",
               i \in In({"WRITEBACK"}) \/ i = lsq_wtbki'
        PROVE  lsq'[i].ex \/ Hidden(i, j, b)'
    <3>1. CASE j \in Known'
      <4>1. j \notin Known  BY <2>2 DEF Hidden
      <4>2. j = x  BY <1>2, <1>4, <3>1, <4>1
      <4>3. QED  BY <2>2, <4>2
    <3>2. CASE j \notin Known'
      BY <1>2, <2>2, <3>2, HiddenKept
    <3>3. QED  BY <3>1, <3>2
  <2>3. CASE i = lsq_wtbki' /\ lsq[i].op = "load"
    <3>1. Misses(i)  BY <1>5, <2>1, <2>3
    <3>2. PICK j \in Slots, b \in lsq[i].bytes : Hidden(i, j, b)  BY <1>1, <3>1, MissHidden
    <3>3. lsq'[i].ex \/ Hidden(i, j, b)'  BY <2>2, <2>3, <3>2
    <3>4. lsq'[i].state = "READCACHE"  BY <1>3, <2>3 DEF Comparison
    <3>5. QED  BY <2>1, <2>3, <3>3, <3>4
  <2>4. CASE ~ (i = lsq_wtbki' /\ lsq[i].op = "load")
    <3>1. lsq[i].early  BY <1>5, <2>1, <2>4
    <3>2. /\ lsq[i].op = "load" /\ lsq[i].state = "WRITEBACK"
          /\ lsq[i].ex \/ \E j \in Slots, b \in lsq[i].bytes : Hidden(i, j, b)
      BY <1>1, <1>4, <3>1 DEF Early
    <3>3. i # x /\ i \in In({"WRITEBACK"})  BY <1>3, <1>4, <3>2 DEF In
    <3>4. lsq'[i].ex \/ \E j \in Slots, b \in lsq[i].bytes : Hidden(i, j, b)'
      BY <2>1, <2>2, <3>2, <3>3
    <3>5. QED  BY <2>1, <3>2, <3>3, <3>4
  <2>5. QED  BY <2>3, <2>4
<1>6. QED  BY <1>3, <1>4, <1>5 DEF Early

\* A comparison keeps the invariant but for what the entries believe and what
\* has read early.
LEMMA ComparisonKeeps ==
  ASSUME IInv, NEW x, Comparison(x), Believed', Early'
  PROVE  IInv'
<1>1. TypeOK /\ Placed /\ Registers /\ Chosen /\ Flow /\ Owned /\ Believed /\ Writing  BY DEF IInv
<1>2. /\ SameRing /\ SameAccesses /\ Known' = Known \cup In({"DTAGCMP"}) /\ In({"DTAGCMP"})' = {}
      /\ \A i \in Slots : \A S \in SUBSET {"ENTER", "ISSUE", "DCACHE", "WRITEBACK", "COMMIT", "DELAY1"} :
           lsq'[i].state \in S <=> lsq[i].state \in S
  BY ComparedStates
<1>3. Held' = Held /\ Held \subseteq Slots /\ NoSlot \notin Slots  BY <1>1, <1>2, SameOrder, HeldEntry, Size
<1>4. /\ stage = "dtagcmp" /\ stage' = "advance" /\ n' = 0
      /\ lsq_head1' = lsq_head1 /\ lsq_head' = lsq_head /\ lsq_tail' = lsq_tail /\ lsq_num' = lsq_num
      /\ lsq_issuei' = lsq_issuei /\ lsq_dcachei' = lsq_dcachei
      /\ lsq_refill' = lsq_refill /\ dcache_refill' = dcache_refill
      /\ replace_delay' = replace_delay /\ refill_delay' = refill_delay
      /\ dcache' = dcache /\ wanted' = wanted /\ refilling' = refilling
      /\ dtagcmp_refill' = NoPacket /\ lsq_dtagcmpi' = NoSlot
      /\ lsq' \in Contents
      /\ lsq_wtbki' = NoSlot \/ (lsq_wtbki' \in Held /\ lsq'[lsq_wtbki'].state = "READCACHE")
      /\ lsq_missi' = NoSlot \/ (lsq_missi' \in cache_miss /\ ~ lsq'[lsq_missi'].blk)
      /\ dcachewrite' \in BOOLEAN
      /\ dcachewrite' => WriteOpen /\ HeadIs("store", "COMMIT") /\ lsq[lsq_head].byterdy = Bytes
  BY DEF Comparison, delays, memory
<1>5. TypeOK'
  <2>1. lsq_missi' \in Slots \cup {NoSlot}  BY <1>3, <1>4, Choices
  <2>2. stage' \in Stages /\ n' \in 0 .. map_width /\ NoPacket \in Packets
    BY <1>4, Size DEF Stages, Packets
  <2>3. QED  BY <1>1, <1>3, <1>4, <2>1, <2>2 DEF TypeOK, Contents
<1>6. Placed'
  <2>1. \A i \in Slots : /\ lsq'[i].state = "COMMIT" <=> lsq[i].state = "COMMIT"
                         /\ lsq'[i].state = "DELAY1" <=> lsq[i].state = "DELAY1"
    <3>1. {"COMMIT"} \in SUBSET {"ENTER", "ISSUE", "DCACHE", "WRITEBACK", "COMMIT", "DELAY1"} /\
          {"DELAY1"} \in SUBSET {"ENTER", "ISSUE", "DCACHE", "WRITEBACK", "COMMIT", "DELAY1"}
      OBVIOUS
    <3>2. \A i \in Slots : /\ lsq'[i].state \in {"COMMIT"} <=> lsq[i].state \in {"COMMIT"}
                           /\ lsq'[i].state \in {"DELAY1"} <=> lsq[i].state \in {"DELAY1"}
      BY <1>2, <3>1
    <3>3. QED  BY <3>2
  <2>2. QED  BY <1>2, <1>4, <2>1, PlacedKept
<1>7. Registers'
  <2>1. In({"ISSUE"})' = In({"ISSUE"}) /\ In({"DCACHE"})' = In({"DCACHE"})
    <3>1. {"ISSUE"} \in SUBSET {"ENTER", "ISSUE", "DCACHE", "WRITEBACK", "COMMIT", "DELAY1"} /\
          {"DCACHE"} \in SUBSET {"ENTER", "ISSUE", "DCACHE", "WRITEBACK", "COMMIT", "DELAY1"}
      OBVIOUS
    <3>2. QED  BY <1>2, <1>3, <3>1 DEF In
  <2>2. QED  BY <1>1, <1>2, <1>4, <2>1 DEF Registers
<1>8. Chosen'
  <2>1. (stage \notin {"cache2mem", "dtagcmp"} /\ lsq_wtbki # NoSlot => lsq[lsq_wtbki].state = "READCACHE")'
    BY <1>4
  <2>2. (lsq_missi # NoSlot =>
           /\ lsq_missi \in Known /\ ~ lsq[lsq_missi].blk /\ lsq[lsq_missi].op # "move"
           /\ stage = "advance" => lsq_missi \notin In({"DELAY1"}))'
    <3> SUFFICES ASSUME lsq_missi' # NoSlot
                 PROVE  /\ lsq_missi' \in Known' /\ ~ lsq'[lsq_missi'].blk /\ lsq'[lsq_missi'].op # "move"
                        /\ lsq_missi' \notin In({"DELAY1"})'
      OBVIOUS
    <3> DEFINE m == lsq_missi'
    <3>1. m \in cache_miss /\ ~ lsq'[m].blk  BY <1>4
    <3>2. m \in Held /\ lsq[m].state \in {"READCACHE", "WRITEBACK", "COMMIT"} /\ lsq[m].op # "move"
      BY <3>1, Choices
    <3>3. m \in Known  BY <3>2 DEF Known, In
    <3>4. lsq'[m].state # "DELAY1"
      <4>1. {"DELAY1"} \in SUBSET {"ENTER", "ISSUE", "DCACHE", "WRITEBACK", "COMMIT", "DELAY1"}  OBVIOUS
      <4>2. lsq'[m].state \in {"DELAY1"} <=> lsq[m].state \in {"DELAY1"}  BY <1>2, <1>3, <3>2, <4>1
      <4>3. QED  BY <3>2, <4>2
    <3>5. lsq'[m].op = lsq[m].op  BY <1>2, <3>2 DEF SameAccesses
    <3>6. QED  BY <1>2, <3>1, <3>2, <3>3, <3>4, <3>5 DEF In
  <2>3. (dcachewrite => stage = "advance" /\ HeadIs("store", "COMMIT") /\ lsq[lsq_head].blk)'
    <3> SUFFICES ASSUME dcachewrite'
                 PROVE  lsq'[lsq_head].state = "COMMIT" /\ lsq'[lsq_head].op = "store" /\ lsq'[lsq_head].blk
      BY <1>4 DEF HeadIs
    <3>1. /\ lsq_refill = NoPacket /\ replace_delay = 0
          /\ lsq[lsq_head].state = "COMMIT" /\ lsq[lsq_head].op = "store" /\ lsq[lsq_head].byterdy = Bytes
      BY <1>4 DEF WriteOpen, HeadIs
    <3>2. lsq_head \in Slots  BY <1>1 DEF TypeOK
    <3>3. lsq_head \in Held /\ lsq_head \in Known  BY <3>1, <3>2 DEF Held, Known, In
    <3>4. dtagcmp_refill.kind \notin Takes  BY <1>1, <3>1 DEF Flow
    <3>5. dcache[lsq[lsq_head].addr] = "EXCLUSIVE"  BY <1>1, <3>1, <3>3, <3>4 DEF Believed
    <3>6. lsq'[lsq_head].state = "COMMIT"
      <4>1. {"COMMIT"} \in SUBSET {"ENTER", "ISSUE", "DCACHE", "WRITEBACK", "COMMIT", "DELAY1"}  OBVIOUS
      <4>2. lsq'[lsq_head].state \in {"COMMIT"} <=> lsq[lsq_head].state \in {"COMMIT"}  BY <1>2, <3>2, <4>1
      <4>3. QED  BY <3>1, <4>2
    <3>7. lsq'[lsq_head].op = "store" /\ lsq'[lsq_head].addr = lsq[lsq_head].addr
      BY <1>2, <3>1, <3>3 DEF SameAccesses
    <3>8. ~ Grants(dtagcmp_refill', lsq[lsq_head].addr)  BY <1>4 DEF Grants, NoPacket
    <3>9. lsq_head \in Known'  BY <1>2, <3>3
    <3>10. lsq'[lsq_head].op # "move" /\ dcache'[lsq'[lsq_head].addr] = "EXCLUSIVE" =>
             lsq'[lsq_head].blk \/ Grants(dtagcmp_refill', lsq'[lsq_head].addr)
      BY <3>9 DEF Believed, Grants
    <3>11. QED  BY <1>4, <3>5, <3>6, <3>7, <3>8, <3>10
  <2>4. QED  BY <2>1, <2>2, <2>3 DEF Chosen
<1>9. Flow'
  <2>1. NoPacket.kind = "none" /\ "none" \notin Takes  BY DEF NoPacket, Takes
  <2>2. QED  BY <1>1, <1>4, <2>1 DEF Flow
<1>10. Owned'  BY <1>1, <1>4 DEF Owned, Refills, Grants
<1>11. Writing'  BY <1>1, <1>2, <1>3 DEF Writing, SameAccesses
<1>12. QED  BY <1>5, <1>6, <1>7, <1>8, <1>9, <1>10, <1>11 DEF IInv

\* Each of them keeps the invariant.
LEMMA PacketKeeps ==
  ASSUME IInv, dtagcmp_packet
  PROVE  IInv'
<1>1. Comparison(NoSlot) /\ Believed'  BY PacketCompared
<1>2. \A i, b : ~ Hidden(i, NoSlot, b)  BY Size DEF Hidden, Older, Held
<1>3. Early'  BY <1>1, <1>2, EarlyAfter
<1>4. QED  BY <1>1, <1>3, ComparisonKeeps

LEMMA NothingKeeps ==
  ASSUME IInv, dtagcmp_nothing
  PROVE  IInv'
<1>1. Comparison(NoSlot) /\ Believed'  BY NothingCompared
<1>2. \A i, b : ~ Hidden(i, NoSlot, b)  BY Size DEF Hidden, Older, Held
<1>3. Early'  BY <1>1, <1>2, EarlyAfter
<1>4. QED  BY <1>1, <1>3, ComparisonKeeps

LEMMA MoveKeeps ==
  ASSUME IInv, NEW i \in Slots, dtagcmp_move(i)
  PROVE  IInv'
<1>1. Comparison(i) /\ Believed'  BY MoveCompared
<1>2. lsq[i].op = "move"  BY DEF dtagcmp_move, Compared
<1>3. \A k, b : ~ Hidden(k, i, b)  BY <1>2 DEF Hidden
<1>4. Early'  BY <1>1, <1>3, EarlyAfter
<1>5. QED  BY <1>1, <1>4, ComparisonKeeps

LEMMA LoadKeeps ==
  ASSUME IInv, NEW i \in Slots, dtagcmp_load(i)
  PROVE  IInv'
<1>1. Comparison(i) /\ Believed'  BY LoadCompared
<1>2. lsq[i].op = "load"  BY DEF dtagcmp_load, Compared
<1>3. \A k, b : ~ Hidden(k, i, b)  BY <1>2 DEF Hidden
<1>4. Early'  BY <1>1, <1>3, EarlyAfter
<1>5. QED  BY <1>1, <1>4, ComparisonKeeps

\* The loads that missed the store are among its receivers.
LEMMA StoreKeeps ==
  ASSUME IInv, NEW i \in Slots, dtagcmp_store(i)
  PROVE  IInv'
<1>1. Comparison(i) /\ Believed' /\
      \A j \in Receivers(i) : j \in In({"WRITEBACK"}) \/ j = lsq_wtbki' => lsq'[j].ex
  BY StoreCompared
<1>2. TypeOK  BY DEF IInv
<1>3. ASSUME NEW k \in Held, NEW b, Hidden(k, i, b), lsq[k].op = "load", b \in lsq[k].bytes,
             k \in In({"WRITEBACK"}) \/ k = lsq_wtbki'
      PROVE  lsq'[k].ex
  <2>1. k \in Known
    <3>1. CASE k \in In({"WRITEBACK"})  BY <3>1 DEF In, Known
    <3>2. CASE k = lsq_wtbki'
      <4>1. lsq_wtbki' = Oldest(Ready)  BY DEF dtagcmp_store
      <4>2. lsq[k].state = "READCACHE"  BY <1>2, <3>2, <4>1, Choices, HeldEntry, Size
      <4>3. QED  BY <4>2 DEF In, Known
    <3>3. QED  BY <1>3, <3>1, <3>2
  <2>2. /\ i \in Older(k) /\ lsq[i].addr = lsq[k].addr /\ b \in lsq[i].bytes
        /\ \A m \in Between(i, k) : lsq[m].op = "store" /\ lsq[m].addr = lsq[k].addr => b \notin lsq[m].bytes
    BY <1>3 DEF Hidden
  <2>3. k \in Younger(i)
    <3>1. Age(i) < Age(k)  BY <2>2 DEF Older
    <3>2. Age(i) \in Int /\ Age(k) \in Int  BY <1>2, Ages, HeldEntry, Size
    <3>3. QED  BY <3>1, <3>2 DEF Younger
  <2>4. k \in Loads(Hit(lsq[i].addr))  BY <1>3, <2>1, <2>2 DEF Loads, Hit
  <2>5. Between(i, k) \cap Writers(b, i) = {}  BY <2>2 DEF Writers, Stores, Hit
  <2>6. b \in Exposed(i, k)  BY <1>3, <2>2, <2>5 DEF Exposed
  <2>7. k \in Receivers(i)  BY <2>3, <2>4, <2>6 DEF Receivers
  <2>8. QED  BY <1>1, <1>3, <2>7
<1>4. Early'  BY <1>1, <1>3, EarlyAfter
<1>5. QED  BY <1>1, <1>4, ComparisonKeeps

-----------------------------------------------------------------------------
(***************************************************************************)
(* The other steps.                                                        *)
(***************************************************************************)

\* What is early stays so for a store that is still hidden.
LEMMA EarlyKept ==
  ASSUME IInv, SameRing, SameAccesses, Known' = Known,
         \A i \in Held : lsq'[i].early =>
           /\ lsq[i].early /\ (lsq[i].ex => lsq'[i].ex)
           /\ \/ lsq'[i].state = "WRITEBACK"
              \/ lsq'[i].state = "READCACHE" /\ i = lsq_wtbki' /\ stage' \notin {"cache2mem", "dtagcmp"}
  PROVE  Early'
<1>1. Held' = Held  BY SameOrder
<1>2. ASSUME NEW i \in Held, lsq'[i].early
      PROVE  /\ lsq'[i].op = "load"
             /\ lsq'[i].ex \/ \E j \in Slots, b \in lsq'[i].bytes : Hidden(i, j, b)'
  <2>1. /\ lsq[i].op = "load"
        /\ lsq[i].ex \/ \E j \in Slots, b \in lsq[i].bytes : Hidden(i, j, b)
    BY <1>2 DEF IInv, Early
  <2>2. lsq'[i].op = lsq[i].op /\ lsq'[i].bytes = lsq[i].bytes  BY DEF SameAccesses
  <2>3. \A j \in Slots, b \in lsq[i].bytes : Hidden(i, j, b) => Hidden(i, j, b)'
    <3>1. ASSUME NEW j \in Slots, NEW b \in lsq[i].bytes, Hidden(i, j, b) PROVE Hidden(i, j, b)'
      <4>1. j \notin Known'  BY <3>1 DEF Hidden
      <4>2. QED  BY <3>1, <4>1, HiddenKept
    <3>2. QED  BY <3>1
  <2>4. QED  BY <1>2, <2>1, <2>2, <2>3
<1>3. QED  BY <1>1, <1>2 DEF Early

\* The next stage without a step of the queue.
LEMMA IdleKeeps ==
  ASSUME IInv, UNCHANGED <<ring, regs, packets, dcachewrite, delays, memory>>,
         \/ stage = "issue" /\ stage' = "map" /\ n' = 0
         \/ stage = "map" /\ stage' = "commit" /\ n' = 0
         \/ stage' = stage /\ n' = n
  PROVE  IInv'
<1>1. TypeOK /\ Placed /\ Registers /\ Chosen /\ Flow /\ Owned /\ Believed /\ Early /\ Writing
  BY DEF IInv
<1>2. /\ lsq' = lsq /\ lsq_head1' = lsq_head1 /\ lsq_head' = lsq_head /\ lsq_tail' = lsq_tail
      /\ lsq_num' = lsq_num /\ lsq_issuei' = lsq_issuei /\ lsq_dcachei' = lsq_dcachei
      /\ lsq_dtagcmpi' = lsq_dtagcmpi /\ lsq_missi' = lsq_missi /\ lsq_wtbki' = lsq_wtbki
      /\ lsq_refill' = lsq_refill /\ dcache_refill' = dcache_refill /\ dtagcmp_refill' = dtagcmp_refill
      /\ dcachewrite' = dcachewrite /\ replace_delay' = replace_delay /\ refill_delay' = refill_delay
      /\ dcache' = dcache /\ wanted' = wanted /\ refilling' = refilling
  BY DEF ring, regs, packets, delays, memory
<1>3. SameRing /\ SameAccesses  BY <1>2 DEF SameRing, SameAccesses
<1>4. Held' = Held /\ \A i : Age(i)' = Age(i) /\ Older(i)' = Older(i)  BY <1>3, SameOrder
<1>5. Known' = Known /\ \A S : In(S)' = In(S)  BY <1>2, <1>4 DEF Known, In
<1>6. TypeOK'
  <2>1. stage' \in Stages /\ n' \in 0 .. map_width  BY <1>1, Size DEF TypeOK, Stages
  <2>2. QED  BY <1>1, <1>2, <2>1 DEF TypeOK
<1>7. Placed'
  <2>1. CASE stage' = "map" => n' = 0
    BY <1>2, <1>3, <2>1, PlacedKept
  <2>2. CASE stage' = stage /\ n' = n
    BY <1>1, <1>2, <1>4, <1>5, <2>2 DEF Placed, Retired
  <2>3. QED  BY <2>1, <2>2
<1>8. Registers'  BY <1>1, <1>2, <1>5 DEF Registers
<1>9. Chosen'  BY <1>1, <1>2, <1>5 DEF Chosen, HeadIs
<1>10. Flow'  BY <1>1, <1>2 DEF Flow
<1>11. Owned'  BY <1>1, <1>2 DEF Owned, Refills, Grants
<1>12. Believed'  BY <1>1, <1>2, <1>5 DEF Believed, Grants
<1>13. Early'
  <2>1. \A i \in Held : lsq'[i].early =>
           /\ lsq[i].early /\ (lsq[i].ex => lsq'[i].ex)
           /\ \/ lsq'[i].state = "WRITEBACK"
              \/ lsq'[i].state = "READCACHE" /\ i = lsq_wtbki' /\ stage' \notin {"cache2mem", "dtagcmp"}
    BY <1>1, <1>2 DEF Early
  <2>2. QED  BY <1>3, <1>5, <2>1, EarlyKept
<1>14. Writing'  BY <1>1, <1>2, <1>4 DEF Writing
<1>15. QED  BY <1>6, <1>7, <1>8, <1>9, <1>10, <1>11, <1>12, <1>13, <1>14 DEF IInv

\* An access issues.
LEMMA IssueKeeps ==
  ASSUME IInv, lsq_issue
  PROVE  IInv'
<1>1. TypeOK /\ Placed /\ Registers /\ Chosen /\ Flow /\ Owned /\ Believed /\ Early /\ Writing
  BY DEF IInv
<1>2. PICK i \in In({"ENTER"}) : lsq' = [lsq EXCEPT ![i].state = "ISSUE"] /\ lsq_issuei' = i
  BY DEF lsq_issue
<1>3. /\ stage = "issue" /\ stage' = "map" /\ n' = 0 /\ lsq_issuei = NoSlot
      /\ lsq_head1' = lsq_head1 /\ lsq_head' = lsq_head /\ lsq_tail' = lsq_tail
      /\ lsq_num' = lsq_num /\ lsq_dcachei' = lsq_dcachei
      /\ lsq_dtagcmpi' = lsq_dtagcmpi /\ lsq_missi' = lsq_missi /\ lsq_wtbki' = lsq_wtbki
      /\ lsq_refill' = lsq_refill /\ dcache_refill' = dcache_refill /\ dtagcmp_refill' = dtagcmp_refill
      /\ dcachewrite' = dcachewrite /\ replace_delay' = replace_delay /\ refill_delay' = refill_delay
      /\ dcache' = dcache /\ wanted' = wanted /\ refilling' = refilling
  BY DEF lsq_issue, Goto, packets, delays, memory
<1> DEFINE f == [lsq[i] EXCEPT !.state = "ISSUE"]
<1>4. i \in Held /\ i \in Slots /\ lsq[i] \in Entries /\ lsq[i].state = "ENTER" /\ NoSlot \notin Slots
      /\ Held \subseteq Slots
  BY <1>1, HeldEntry, Size DEF In
<1>5. /\ f \in Entries /\ f.state = "ISSUE" /\ f.op = lsq[i].op /\ f.addr = lsq[i].addr
      /\ f.bytes = lsq[i].bytes /\ f.early = lsq[i].early
  BY <1>4 DEF Entries, States
<1>6. lsq \in Contents /\ lsq' = [lsq EXCEPT ![i] = f]  BY <1>1, <1>2 DEF TypeOK, Contents
<1> HIDE DEF f
<1>7. lsq' \in Contents /\ lsq'[i] = f /\ \A j \in Slots : j # i => lsq'[j] = lsq[j]
  BY <1>4, <1>5, <1>6 DEF Contents
<1>8. SameRing /\ SameAccesses
  BY <1>3, <1>4, <1>5, <1>7 DEF SameRing, SameAccesses
<1>9. Held' = Held  BY <1>8, SameOrder
<1>10. Known' = Known /\ In({"DCACHE"})' = In({"DCACHE"}) /\ In({"DTAGCMP"})' = In({"DTAGCMP"})
       /\ In({"DELAY1"})' = In({"DELAY1"}) /\ In({"ISSUE"})' = In({"ISSUE"}) \cup {i}
  BY <1>4, <1>5, <1>7, <1>9 DEF Known, In
<1>11. \A j \in Known \cup In({"DTAGCMP"}) : j # i /\ lsq'[j] = lsq[j]
  BY <1>4, <1>7 DEF Known, In
<1>12. TypeOK'
  <2>1. stage' \in Stages /\ n' \in 0 .. map_width  BY <1>3, Size DEF Stages
  <2>2. QED  BY <1>1, <1>2, <1>3, <1>4, <1>7, <2>1 DEF TypeOK, Contents
<1>13. Placed'
  <2>1. \A j \in Slots : /\ lsq'[j].state = "COMMIT" <=> lsq[j].state = "COMMIT"
                         /\ lsq'[j].state = "DELAY1" <=> lsq[j].state = "DELAY1"
    BY <1>4, <1>5, <1>7
  <2>2. UNCHANGED <<lsq_head, lsq_tail, lsq_num>> /\ (stage' = "map" => n' = 0)  BY <1>3
  <2>3. QED  BY <1>8, <2>1, <2>2, PlacedKept
<1>14. Registers'  BY <1>1, <1>2, <1>3, <1>4, <1>10 DEF Registers
<1>15. Chosen'
  <2>1. lsq_wtbki # NoSlot => lsq'[lsq_wtbki].state = "READCACHE"
    <3>1. lsq_wtbki # NoSlot => lsq_wtbki \in Slots /\ lsq[lsq_wtbki].state = "READCACHE"
      BY <1>1, <1>3 DEF Chosen, TypeOK
    <3>2. QED  BY <1>4, <1>7, <3>1
  <2>2. lsq_missi # NoSlot => lsq_missi \in Known /\ ~ lsq'[lsq_missi].blk /\ lsq'[lsq_missi].op # "move"
    BY <1>1, <1>11 DEF Chosen
  <2>3. ~ dcachewrite  BY <1>1, <1>3 DEF Chosen
  <2>4. QED  BY <1>3, <1>10, <2>1, <2>2, <2>3 DEF Chosen
<1>16. Flow'  BY <1>1, <1>3 DEF Flow
<1>17. Owned'  BY <1>1, <1>3 DEF Owned, Refills, Grants
<1>18. Believed'  BY <1>1, <1>3, <1>10, <1>11 DEF Believed, Grants
<1>19. Early'
  <2>1. \A j \in Held : lsq'[j].early =>
           /\ lsq[j].early /\ (lsq[j].ex => lsq'[j].ex)
           /\ \/ lsq'[j].state = "WRITEBACK"
              \/ lsq'[j].state = "READCACHE" /\ j = lsq_wtbki' /\ stage' \notin {"cache2mem", "dtagcmp"}
    BY <1>1, <1>3, <1>4, <1>5, <1>7 DEF Early
  <2>2. QED  BY <1>8, <1>10, <2>1, EarlyKept
<1>20. Writing'  BY <1>1, <1>8, <1>9 DEF Writing, SameAccesses
<1>21. QED  BY <1>12, <1>13, <1>14, <1>15, <1>16, <1>17, <1>18, <1>19, <1>20 DEF IInv

\* The oldest access that has not retired does, when it need not execute again:
\* every older store is known, so it did not read early.
LEMMA CommitKeeps ==
  ASSUME IInv, commit
  PROVE  IInv'
<1>1. TypeOK /\ Placed /\ Registers /\ Chosen /\ Flow /\ Owned /\ Believed /\ Early /\ Writing
  BY DEF IInv
<1> DEFINE i == Committing
           f == [lsq[i] EXCEPT !.state = "COMMIT"]
<1>2. /\ Uncommitted # {} /\ lsq[i].state = "WRITEBACK" /\ ~ lsq[i].ex
      /\ lsq' = [lsq EXCEPT ![i].state = "COMMIT"]
  BY DEF commit, CanCommit
<1>3. /\ stage = "commit" /\ stage' = stage /\ n' = n /\ lsq_issuei' = lsq_issuei
      /\ lsq_head1' = lsq_head1 /\ lsq_head' = lsq_head /\ lsq_tail' = lsq_tail
      /\ lsq_num' = lsq_num /\ lsq_dcachei' = lsq_dcachei
      /\ lsq_dtagcmpi' = lsq_dtagcmpi /\ lsq_missi' = lsq_missi /\ lsq_wtbki' = lsq_wtbki
      /\ lsq_refill' = lsq_refill /\ dcache_refill' = dcache_refill /\ dtagcmp_refill' = dtagcmp_refill
      /\ dcachewrite' = dcachewrite /\ replace_delay' = replace_delay /\ refill_delay' = refill_delay
      /\ dcache' = dcache /\ wanted' = wanted /\ refilling' = refilling
  BY DEF commit, regs, packets, delays, memory
<1>4. Held \subseteq Slots /\ NoSlot \notin Slots  BY <1>1, HeldEntry, Size
<1>5. Uncommitted = Held \ Retired  BY DEF Uncommitted, Retired
<1>6. i \in Uncommitted /\ \A j \in Uncommitted : Age(i) <= Age(j)
  <2>1. Uncommitted \in SUBSET Slots  BY <1>4, <1>5
  <2>2. QED  BY <1>1, <1>2, <2>1, OldestIs DEF Committing
<1> HIDE DEF i
<1>7. i \in Held /\ i \in Slots /\ lsq[i] \in Entries  BY <1>1, <1>4, <1>5, <1>6, HeldEntry
<1>8. Older(i) \subseteq Retired
  <2>1. ASSUME NEW j \in Older(i), j \notin Retired PROVE FALSE
    <3>1. j \in Held /\ Age(j) < Age(i)  BY DEF Older
    <3>2. Age(i) <= Age(j)  BY <1>5, <1>6, <2>1, <3>1
    <3>3. Age(i) \in Int /\ Age(j) \in Int  BY <1>1, <1>4, <1>7, <3>1, Ages, Size
    <3>4. QED  BY <3>1, <3>2, <3>3
  <2>2. QED  BY <2>1
<1>9. ~ lsq[i].early
  <2>1. Retired \subseteq Known  BY DEF Retired, Known, In
  <2>2. \A j, b : ~ Hidden(i, j, b)  BY <1>8, <2>1 DEF Hidden
  <2>3. QED  BY <1>1, <1>2, <1>7, <2>2 DEF Early
<1>10. /\ f \in Entries /\ f.state = "COMMIT" /\ f.op = lsq[i].op /\ f.addr = lsq[i].addr
       /\ f.bytes = lsq[i].bytes /\ f.early = lsq[i].early /\ f.blk = lsq[i].blk
       /\ f.byterdy = lsq[i].byterdy
  BY <1>7 DEF Entries, States
<1>11. lsq \in Contents /\ lsq' = [lsq EXCEPT ![i] = f]  BY <1>1, <1>2 DEF TypeOK, Contents
<1> HIDE DEF f
<1>12. lsq' \in Contents /\ lsq'[i] = f /\ \A j \in Slots : j # i => lsq'[j] = lsq[j]
  BY <1>7, <1>10, <1>11 DEF Contents
<1>13. SameRing /\ SameAccesses
  BY <1>2, <1>3, <1>4, <1>7, <1>10, <1>12 DEF SameRing, SameAccesses
<1>14. Held' = Held /\ \A j : Age(j)' = Age(j) /\ Older(j)' = Older(j)  BY <1>13, SameOrder
<1>15. /\ Known' = Known /\ In({"DCACHE"})' = In({"DCACHE"}) /\ In({"DTAGCMP"})' = In({"DTAGCMP"})
       /\ In({"DELAY1"})' = In({"DELAY1"}) /\ In({"ISSUE"})' = In({"ISSUE"})
       /\ In({"COMMIT"})' = In({"COMMIT"}) \cup {i} /\ Retired' = Retired \cup {i}
  BY <1>2, <1>4, <1>7, <1>10, <1>12, <1>14 DEF Known, In, Retired
<1>16. TypeOK'
  BY <1>1, <1>3, <1>12 DEF TypeOK, Contents
<1>17. Placed'
  <2>1. /\ Held' = {j \in Slots : Age(j) < lsq_num}'
        /\ (\A j \in In({"DELAY1"}) : Older(j) \subseteq In({"DELAY1"}))'
    BY <1>1, <1>3, <1>14, <1>15 DEF Placed
  <2>2. (\A j \in In({"COMMIT"}) : Older(j) \subseteq Retired)'
    BY <1>1, <1>8, <1>14, <1>15 DEF Placed
  <2>3. QED  BY <1>1, <1>3, <1>15, <2>1, <2>2 DEF Placed
<1>18. Registers'  BY <1>1, <1>3, <1>15 DEF Registers
<1>19. Chosen'
  <2>1. lsq_wtbki # NoSlot => lsq'[lsq_wtbki].state = "READCACHE"
    <3>1. lsq_wtbki # NoSlot => lsq_wtbki \in Slots /\ lsq[lsq_wtbki].state = "READCACHE"
      BY <1>1, <1>3 DEF Chosen, TypeOK
    <3>2. QED  BY <1>2, <1>12, <3>1
  <2>2. lsq_missi # NoSlot => lsq_missi \in Known /\ ~ lsq'[lsq_missi].blk /\ lsq'[lsq_missi].op # "move"
    <3>1. lsq_missi # NoSlot => lsq_missi \in Slots  BY <1>1 DEF TypeOK
    <3>2. QED  BY <1>1, <1>10, <1>12, <3>1 DEF Chosen
  <2>3. ~ dcachewrite  BY <1>1, <1>3 DEF Chosen
  <2>4. QED  BY <1>3, <1>15, <2>1, <2>2, <2>3 DEF Chosen
<1>20. Flow'  BY <1>1, <1>3 DEF Flow
<1>21. Owned'  BY <1>1, <1>3 DEF Owned, Refills, Grants
<1>22. Believed'
  <2>1. \A j \in Slots : /\ lsq'[j].blk = lsq[j].blk /\ lsq'[j].byterdy = lsq[j].byterdy
                         /\ lsq'[j].op = lsq[j].op /\ lsq'[j].addr = lsq[j].addr
    BY <1>10, <1>12
  <2>2. Known \subseteq Slots /\ In({"DTAGCMP"}) \subseteq Slots  BY <1>4 DEF Known, In
  <2>3. QED  BY <1>1, <1>3, <1>15, <2>1, <2>2 DEF Believed, Grants
<1>23. Early'
  <2>1. \A j \in Held : lsq'[j].early =>
           /\ lsq[j].early /\ (lsq[j].ex => lsq'[j].ex)
           /\ \/ lsq'[j].state = "WRITEBACK"
              \/ lsq'[j].state = "READCACHE" /\ j = lsq_wtbki' /\ stage' \notin {"cache2mem", "dtagcmp"}
    BY <1>1, <1>3, <1>4, <1>9, <1>10, <1>12 DEF Early
  <2>2. QED  BY <1>13, <1>15, <2>1, EarlyKept
<1>24. Writing'  BY <1>1, <1>13, <1>14 DEF Writing, SameAccesses
<1>25. QED  BY <1>16, <1>17, <1>18, <1>19, <1>20, <1>21, <1>22, <1>23, <1>24 DEF IInv

\* The slot of the age of i.
LEMMA SlotOf ==
  ASSUME TypeOK, NEW i \in Slots
  PROVE  (lsq_head1 + Age(i)) % lsq_ifq_size = i
<1>1. lsq_head1 \in 0 .. lsq_ifq_size - 1 /\ i \in 0 .. lsq_ifq_size - 1  BY Size DEF TypeOK
<1>2. Age(i) = AgeOn(lsq_ifq_size, lsq_head1, i) /\ Age(i) \in 0 .. lsq_ifq_size - 1  BY Ages
<1> DEFINE k == (lsq_head1 + Age(i)) % lsq_ifq_size
<1>3. k \in 0 .. lsq_ifq_size - 1 /\ AgeOn(lsq_ifq_size, lsq_head1, k) = Age(i)
  BY <1>1, <1>2, SlotOfAge, Size
<1> HIDE DEF k
<1>4. k = i  BY <1>1, <1>2, <1>3, AgeUnique, Size
<1>5. QED  BY <1>4 DEF k

\* The youngest accesses are cancelled, and what was to write back does.
LEMMA ProceedKeeps ==
  ASSUME IInv, stage = "commit", NEW S \in SUBSET Uncommitted,
         \A i \in S : Younger(i) \subseteq S, Proceed(S)
  PROVE  IInv'
<1>1. TypeOK /\ Placed /\ Registers /\ Chosen /\ Flow /\ Owned /\ Believed /\ Early /\ Writing
  BY DEF IInv
<1>2. Held \subseteq Slots /\ NoSlot \notin Slots /\ (\A i \in Held : lsq[i] \in Entries)
      /\ \A i \in Slots \ Held : lsq[i] = NoEntry
  BY <1>1, HeldEntry, Size
<1>3. S \subseteq Held /\ S \subseteq Slots /\ S \cap Retired = {}  BY <1>2 DEF Uncommitted, Retired
<1> DEFINE Q(i) == IF i \in S THEN NoEntry
                   ELSE IF i = lsq_wtbki /\ i \in Held THEN [lsq[i] EXCEPT !.state = "WRITEBACK"]
                   ELSE lsq[i]
<1>4. /\ lsq' = [i \in Slots |-> Q(i)]
      /\ lsq_num' = lsq_num - Cardinality(S)
      /\ lsq_tail' = IF S = {} THEN lsq_tail ELSE Oldest(S)
      /\ lsq_issuei' = Kept(lsq_issuei, S) /\ lsq_dcachei' = Kept(lsq_dcachei, S)
      /\ lsq_dtagcmpi' = Kept(lsq_dtagcmpi, S) /\ lsq_missi' = Kept(lsq_missi, S)
      /\ stage' = "cache2mem" /\ n' = 0
      /\ lsq_head1' = lsq_head1 /\ lsq_head' = lsq_head /\ lsq_wtbki' = lsq_wtbki
      /\ lsq_refill' = lsq_refill /\ dcache_refill' = dcache_refill /\ dtagcmp_refill' = dtagcmp_refill
      /\ dcachewrite' = dcachewrite /\ replace_delay' = replace_delay /\ refill_delay' = refill_delay
      /\ dcache' = dcache /\ wanted' = wanted /\ refilling' = refilling
  BY DEF Proceed, Goto, packets, delays, memory
<1>5. \A i \in Slots : lsq'[i] = Q(i)  BY <1>4
<1>6. \A i \in Slots \ (Held \ S) : lsq'[i] = NoEntry  BY <1>2, <1>5
<1>7. lsq_wtbki # NoSlot => lsq[lsq_wtbki].state = "READCACHE"  BY <1>1 DEF Chosen
<1>8. \A i \in Held \ S :
        /\ lsq'[i] \in Entries
        /\ lsq'[i].state = (IF i = lsq_wtbki THEN "WRITEBACK" ELSE lsq[i].state)
        /\ lsq'[i].op = lsq[i].op /\ lsq'[i].addr = lsq[i].addr /\ lsq'[i].bytes = lsq[i].bytes
        /\ lsq'[i].blk = lsq[i].blk /\ lsq'[i].byterdy = lsq[i].byterdy
        /\ lsq'[i].early = lsq[i].early /\ lsq'[i].ex = lsq[i].ex
  <2>1. ASSUME NEW i \in Held \ S
        PROVE  /\ lsq'[i] \in Entries
               /\ lsq'[i].state = (IF i = lsq_wtbki THEN "WRITEBACK" ELSE lsq[i].state)
               /\ lsq'[i].op = lsq[i].op /\ lsq'[i].addr = lsq[i].addr /\ lsq'[i].bytes = lsq[i].bytes
               /\ lsq'[i].blk = lsq[i].blk /\ lsq'[i].byterdy = lsq[i].byterdy
               /\ lsq'[i].early = lsq[i].early /\ lsq'[i].ex = lsq[i].ex
    <3>1. lsq[i] \in Entries  BY <1>2
    <3>2. CASE i = lsq_wtbki
      <4> DEFINE f == [lsq[i] EXCEPT !.state = "WRITEBACK"]
      <4>1. lsq'[i] = f  BY <1>2, <1>5, <2>1, <3>2
      <4>2. /\ f \in Entries /\ f.state = "WRITEBACK" /\ f.op = lsq[i].op /\ f.addr = lsq[i].addr
            /\ f.bytes = lsq[i].bytes /\ f.blk = lsq[i].blk /\ f.byterdy = lsq[i].byterdy
            /\ f.early = lsq[i].early /\ f.ex = lsq[i].ex
        BY <3>1 DEF Entries, States
      <4> HIDE DEF f
      <4>3. QED  BY <3>2, <4>1, <4>2
    <3>3. CASE i # lsq_wtbki
      <4>1. lsq'[i] = lsq[i]  BY <1>2, <1>5, <2>1, <3>3
      <4>2. QED  BY <3>1, <3>3, <4>1
    <3>4. QED  BY <3>2, <3>3
  <2>2. QED  BY <2>1
<1>9. lsq' \in Contents
  <2>1. \A i \in Slots : lsq'[i] \in Entries \cup {NoEntry}  BY <1>6, <1>8
  <2> HIDE DEF Q
  <2>2. QED  BY <1>4, <1>5, <2>1 DEF Contents
<1> HIDE DEF Q
<1>10. Held' = Held \ S
  <2>1. \A i \in Slots : lsq'[i].state # "EMPTY" <=> i \in Held \ S
    <3>1. \A i \in Held \ S : lsq'[i].state # "EMPTY"  BY <1>8, EntryFields
    <3>2. NoEntry.state = "EMPTY"  BY DEF NoEntry
    <3>3. QED  BY <1>6, <3>1, <3>2
  <2>2. QED  BY <1>3, <2>1 DEF Held
<1>11. \A i : Age(i)' = Age(i)  BY <1>4 DEF Age
<1>12. \A i \in Held, j \in Slots : Age(i) \in Int /\ Age(j) \in Int  BY <1>1, <1>2, Ages, Size
<1>13. \A i \in Held \ S : Older(i) \cap S = {}
  <2>1. ASSUME NEW i \in Held \ S, NEW j \in Older(i) \cap S PROVE FALSE
    <3>1. j \in Held /\ Age(j) < Age(i)  BY DEF Older
    <3>2. i \in Younger(j)  BY <1>2, <1>12, <3>1 DEF Younger
    <3>3. QED  BY <3>2
  <2>2. QED  BY <2>1
<1>14. \A i \in Held \ S : Older(i)' = Older(i)
  <2>1. \A i : Older(i)' = {j \in Held \ S : Age(j) < Age(i)}  BY <1>10, <1>11 DEF Older
  <2>2. QED  BY <1>13, <2>1 DEF Older
<1>15. \A i, j : Between(j, i)' \subseteq Between(j, i)
  BY <1>10, <1>11 DEF Between, Older, Younger
<1>16. /\ Known' = Known \ S /\ In({"ISSUE"})' = In({"ISSUE"}) \ S
       /\ In({"DCACHE"})' = In({"DCACHE"}) \ S /\ In({"DTAGCMP"})' = In({"DTAGCMP"}) \ S
       /\ In({"DELAY1"})' = In({"DELAY1"}) /\ In({"COMMIT"})' = In({"COMMIT"}) /\ Retired' = Retired
  <2>1. \A i \in Held \ S : i = lsq_wtbki => lsq[i].state = "READCACHE"  BY <1>2, <1>7
  <2>2. Known' = Known \ S  BY <1>8, <1>10, <2>1 DEF Known, In
  <2>3. In({"ISSUE"})' = In({"ISSUE"}) \ S  BY <1>8, <1>10, <2>1 DEF In
  <2>4. In({"DCACHE"})' = In({"DCACHE"}) \ S  BY <1>8, <1>10, <2>1 DEF In
  <2>5. In({"DTAGCMP"})' = In({"DTAGCMP"}) \ S  BY <1>8, <1>10, <2>1 DEF In
  <2>6. In({"DELAY1"})' = In({"DELAY1"}) \ S  BY <1>8, <1>10, <2>1 DEF In
  <2>7. In({"COMMIT"})' = In({"COMMIT"}) \ S  BY <1>8, <1>10, <2>1 DEF In
  <2>8. Retired' = Retired \ S  BY <1>8, <1>10, <2>1 DEF In, Retired
  <2>9. In({"DELAY1"}) \cap S = {} /\ In({"COMMIT"}) \cap S = {}  BY <1>3 DEF Retired, In
  <2>10. QED  BY <1>3, <2>2, <2>3, <2>4, <2>5, <2>6, <2>7, <2>8, <2>9
<1>17. /\ lsq_num' \in 0 .. lsq_ifq_size
       /\ Held \ S = {i \in Slots : Age(i) < lsq_num'}
       /\ (lsq_head1 + lsq_num') % lsq_ifq_size = lsq_tail'
       /\ lsq_tail' \in Slots
  <2>1. CASE S = {}
    <3>1. Cardinality(S) = 0  BY <2>1, FS_EmptySet
    <3>2. lsq_num' = lsq_num /\ lsq_tail' = lsq_tail  BY <1>1, <1>4, <2>1, <3>1, Size DEF TypeOK
    <3>3. QED  BY <1>1, <2>1, <3>2 DEF TypeOK, Placed
  <2>2. CASE S # {}
    <3> DEFINE o == Oldest(S)
               a == Age(o)
    <3>1. o \in S /\ \A j \in S : a <= Age(j)  BY <1>1, <1>3, <2>2, OldestIs
    <3> HIDE DEF o
    <3>2. o \in Held /\ o \in Slots  BY <1>3, <3>1
    <3>3. a \in 0 .. lsq_ifq_size - 1  BY <1>1, <3>2, Ages
    <3>4. lsq_num \in 0 .. lsq_ifq_size /\ Held = {i \in Slots : Age(i) < lsq_num}
      BY <1>1 DEF TypeOK, Placed
    <3>5. a < lsq_num  BY <3>2, <3>4
    <3>6. a \in 0 .. lsq_ifq_size /\ lsq_num \in a .. lsq_ifq_size  BY <3>3, <3>4, <3>5, Size
    <3>7. S = {i \in Slots : a <= Age(i) /\ Age(i) < lsq_num}
      <4>1. \A i \in S : a <= Age(i) /\ Age(i) < lsq_num  BY <1>3, <3>1, <3>4
      <4>2. ASSUME NEW i \in Slots, a <= Age(i), Age(i) < lsq_num PROVE i \in S
        <5>1. i \in Held  BY <3>4, <4>2
        <5>2. CASE Age(i) = a
          <6>1. i = o  BY <1>1, <3>2, <5>2, Ages
          <6>2. QED  BY <3>1, <6>1
        <5>3. CASE Age(i) # a
          <6>1. Age(i) > a  BY <1>12, <3>2, <4>2, <5>1, <5>3
          <6>2. i \in Younger(o)  BY <5>1, <6>1 DEF Younger
          <6>3. QED  BY <3>1, <6>2
        <5>4. QED  BY <5>2, <5>3
      <4>3. QED  BY <1>3, <4>1, <4>2
    <3>8. Cardinality(S) = lsq_num - a
      <4>1. Cardinality({i \in Slots : a <= Age(i) /\ Age(i) < lsq_num}) = lsq_num - a
        BY <1>1, <3>6, YoungerThan
      <4> HIDE DEF a
      <4>2. QED  BY <3>7, <4>1
    <3>9. lsq_num' = a  BY <1>4, <3>3, <3>4, <3>8, Size
    <3>10. lsq_tail' = o  BY <1>4, <2>2 DEF o
    <3>11. (lsq_head1 + a) % lsq_ifq_size = o  BY <1>1, <3>2, SlotOf
    <3>12. Held \ S = {i \in Slots : Age(i) < a}
      <4>1. ASSUME NEW i \in Slots PROVE i \in Held /\ i \notin S <=> Age(i) < a
        <5>1. Age(i) \in 0 .. lsq_ifq_size - 1  BY <1>1, Ages
        <5>2. i \in Held <=> Age(i) < lsq_num  BY <3>4
        <5>3. i \in S <=> a <= Age(i) /\ Age(i) < lsq_num  BY <3>7
        <5> HIDE DEF a
        <5>4. QED  BY <3>3, <3>4, <3>5, <5>1, <5>2, <5>3, Size
      <4>2. QED  BY <1>2, <4>1
    <3> HIDE DEF a
    <3>13. QED  BY <3>2, <3>6, <3>9, <3>10, <3>11, <3>12
  <2>3. QED  BY <2>1, <2>2
<1>18. TypeOK'
  <2>1. stage' \in Stages /\ n' \in 0 .. map_width  BY <1>4, Size DEF Stages
  <2>2. {lsq_issuei', lsq_dcachei', lsq_dtagcmpi', lsq_missi'} \subseteq Slots \cup {NoSlot}
    BY <1>1, <1>4 DEF TypeOK, Kept
  <2>3. QED  BY <1>1, <1>4, <1>9, <1>17, <2>1, <2>2 DEF TypeOK, Contents
<1>19. Placed'
  <2>1. Held' = {i \in Slots : Age(i) < lsq_num}'  BY <1>10, <1>11, <1>17
  <2>2. (\A i \in In({"DELAY1"}) : Older(i) \subseteq In({"DELAY1"}))'
    <3>1. \A i \in In({"DELAY1"}) : i \in Held \ S  BY <1>3 DEF In, Retired
    <3>2. QED  BY <1>1, <1>14, <1>16, <3>1 DEF Placed
  <2>3. (\A i \in In({"COMMIT"}) : Older(i) \subseteq Retired)'
    <3>1. \A i \in In({"COMMIT"}) : i \in Held \ S  BY <1>3 DEF In, Retired
    <3>2. QED  BY <1>1, <1>14, <1>16, <3>1 DEF Placed
  <2>4. ((lsq_head1 + lsq_num) % lsq_ifq_size = lsq_tail)'  BY <1>4, <1>17
  <2>5. ((lsq_head1 + Cardinality(In({"DELAY1"}))) % lsq_ifq_size = lsq_head)'
    BY <1>1, <1>4, <1>16 DEF Placed
  <2>6. QED  BY <1>4, <2>1, <2>2, <2>3, <2>4, <2>5 DEF Placed
<1>20. Registers'
  <2>1. NoSlot \notin S  BY <1>2, <1>3
  <2>2. QED  BY <1>1, <1>4, <1>16, <2>1 DEF Registers, Kept
<1>21. Chosen'
  <2>1. ~ dcachewrite'  BY <1>1, <1>4 DEF Chosen
  <2>2. lsq_missi' # NoSlot =>
          lsq_missi' \in Known' /\ ~ lsq'[lsq_missi'].blk /\ lsq'[lsq_missi'].op # "move"
    <3> SUFFICES ASSUME lsq_missi' # NoSlot
                 PROVE  lsq_missi' \in Known' /\ ~ lsq'[lsq_missi'].blk /\ lsq'[lsq_missi'].op # "move"
      OBVIOUS
    <3>1. lsq_missi' = lsq_missi /\ lsq_missi \notin S  BY <1>4 DEF Kept
    <3>2. lsq_missi \in Known /\ ~ lsq[lsq_missi].blk /\ lsq[lsq_missi].op # "move"
      BY <1>1, <3>1 DEF Chosen
    <3>3. lsq_missi \in Held \ S  BY <3>1, <3>2 DEF Known, In
    <3>4. QED  BY <1>8, <1>16, <3>1, <3>2, <3>3
  <2>3. QED  BY <1>4, <2>1, <2>2 DEF Chosen
<1>22. Flow'
  <2>1. lsq_dcachei = NoSlot => lsq_dcachei' = NoSlot  BY <1>4 DEF Kept
  <2>2. lsq_dtagcmpi = NoSlot => lsq_dtagcmpi' = NoSlot  BY <1>4 DEF Kept
  <2>3. QED  BY <1>1, <1>4, <2>1, <2>2 DEF Flow
<1>23. Owned'  BY <1>1, <1>4 DEF Owned, Refills, Grants
<1>24. Believed'
  <2>1. Known \subseteq Held /\ In({"DTAGCMP"}) \subseteq Held  BY DEF Known, In
  <2>2. \A i \in (Known \cup In({"DTAGCMP"})) \ S :
          /\ lsq'[i].op = lsq[i].op /\ lsq'[i].addr = lsq[i].addr
          /\ lsq'[i].blk = lsq[i].blk /\ lsq'[i].byterdy = lsq[i].byterdy
    BY <1>8, <2>1
  <2>3. QED  BY <1>1, <1>4, <1>16, <2>2 DEF Believed, Grants
<1>25. Early'
  <2>1. ASSUME NEW i \in Held \ S, lsq'[i].early
        PROVE  /\ lsq'[i].op = "load" /\ lsq'[i].state = "WRITEBACK"
               /\ lsq'[i].ex \/ \E j \in Slots, b \in lsq'[i].bytes : Hidden(i, j, b)'
    <3>1. lsq[i].early  BY <1>8, <2>1
    <3>2. /\ lsq[i].op = "load"
          /\ lsq[i].state = "WRITEBACK" \/ (lsq[i].state = "READCACHE" /\ i = lsq_wtbki)
          /\ lsq[i].ex \/ \E j \in Slots, b \in lsq[i].bytes : Hidden(i, j, b)
      BY <1>1, <3>1 DEF Early
    <3>3. ASSUME NEW j \in Slots, NEW b \in lsq[i].bytes, Hidden(i, j, b)
          PROVE  Hidden(i, j, b)'
      <4>1. /\ j \in Older(i) /\ lsq[j].op = "store" /\ lsq[j].addr = lsq[i].addr /\ b \in lsq[j].bytes
            /\ j \notin Known
            /\ \A k \in Between(j, i) :
                 lsq[k].op = "store" /\ lsq[k].addr = lsq[i].addr => b \notin lsq[k].bytes
        BY <3>3 DEF Hidden
      <4>2. j \in Older(i)' /\ j \in Held \ S  BY <1>13, <1>14, <4>1 DEF Older
      <4>3. \A k \in Between(j, i)' : k \in Between(j, i) /\ k \in Held \ S
        BY <1>10, <1>15 DEF Between, Older
      <4>4. QED  BY <1>8, <1>16, <4>1, <4>2, <4>3 DEF Hidden
    <3>4. QED  BY <1>8, <3>2, <3>3
  <2>2. QED  BY <1>10, <2>1 DEF Early
<1>26. Writing'  BY <1>1, <1>8, <1>10 DEF Writing
<1>27. QED  BY <1>18, <1>19, <1>20, <1>21, <1>22, <1>23, <1>24, <1>25, <1>26 DEF IInv

\* The cancellations of commit_stage and brerr_recover.
LEMMA FlushKeeps ==
  ASSUME IInv, commit_end \/ pipeline_flush \/ brerr_recover
  PROVE  IInv'
<1>1. TypeOK  BY DEF IInv
<1>2. CASE commit_end
  <2>1. {} \in SUBSET Uncommitted /\ \A i \in {} : Younger(i) \subseteq {}  OBVIOUS
  <2>2. stage = "commit" /\ Proceed({})  BY <1>2 DEF commit_end
  <2>3. QED  BY <2>1, <2>2, ProceedKeeps
<1>3. Held \subseteq Slots /\ \A i, j \in Held : Age(i) \in Int /\ Age(j) \in Int
  BY <1>1, HeldEntry, Ages, Size
<1>4. \A i \in Uncommitted : Younger(i) \subseteq Uncommitted
  <2>1. ASSUME NEW i \in Uncommitted, NEW j \in Younger(i), j \notin Uncommitted PROVE FALSE
    <3>1. i \in Held /\ i \notin Retired /\ j \in Held /\ j \in Retired /\ Age(j) > Age(i)
      BY <2>1 DEF Uncommitted, Retired, Younger
    <3>2. i \in Older(j)  BY <1>3, <3>1 DEF Older
    <3>3. j \in In({"COMMIT"}) \/ j \in In({"DELAY1"})  BY <3>1 DEF Retired, In
    <3>4. In({"DELAY1"}) \subseteq Retired  BY DEF Retired, In
    <3>5. QED  BY <3>1, <3>2, <3>3, <3>4 DEF IInv, Placed
  <2>2. QED  BY <2>1
<1>5. CASE pipeline_flush
  <2>1. stage = "commit" /\ Proceed(Uncommitted)  BY <1>5 DEF pipeline_flush
  <2>2. QED  BY <1>4, <2>1, ProceedKeeps
<1>6. CASE brerr_recover
  <2>1. PICK i \in Uncommitted : stage = "commit" /\ Proceed({i} \cup Younger(i))
    BY <1>6 DEF brerr_recover
  <2>2. {i} \cup Younger(i) \in SUBSET Uncommitted  BY <1>4
  <2>3. \A j \in {i} \cup Younger(i) : Younger(j) \subseteq {i} \cup Younger(i)
    <3>1. ASSUME NEW j \in Younger(i), NEW k \in Younger(j) PROVE k \in Younger(i)
      <4>1. j \in Held /\ k \in Held /\ Age(j) > Age(i) /\ Age(k) > Age(j)  BY DEF Younger
      <4>2. i \in Held  BY DEF Uncommitted
      <4>3. Age(k) > Age(i)  BY <1>3, <4>1, <4>2
      <4>4. QED  BY <4>1, <4>3 DEF Younger
    <3>2. QED  BY <3>1
  <2>4. QED  BY <2>1, <2>2, <2>3, ProceedKeeps
<1>7. QED  BY <1>2, <1>5, <1>6

\* Nothing is wanted, after w, of a block that is owned or about to be.
Quiet(w) ==
  \A a \in Addrs :
    dcache[a] = "EXCLUSIVE" \/ Grants(dcache_refill, a) \/ (\E p \in refilling : Grants(p, a))
      => w[a] = {}

\* A miss asks for nothing that is owned: it merges with the request that brings it.
LEMMA RequestKept ==
  ASSUME IInv, stage = "cache2mem", NEW taken, taken = FALSE \/ taken = (lsq_missi # NoSlot),
         NEW w \in WantedAfter(taken)
  PROVE  w \in [Addrs -> SUBSET Requests] /\ Quiet(w)
<1>1. TypeOK /\ Chosen /\ Flow /\ Owned /\ Believed  BY DEF IInv
<1>2. wanted \in [Addrs -> SUBSET Requests]  BY <1>1 DEF TypeOK
<1>3. Quiet(wanted)  BY <1>1 DEF Owned, Quiet
<1>4. CASE ~ taken
  BY <1>2, <1>3, <1>4 DEF WantedAfter
<1>5. CASE taken
  <2> DEFINE a == lsq[lsq_missi].addr
             r == RequestOf(lsq_missi)
  <2>1. lsq_missi # NoSlot  BY <1>5
  <2>2. PICK m \in Merged(a, r) : w = [wanted EXCEPT ![a] = m]  BY <1>5 DEF WantedAfter
  <2>3. lsq_missi \in Known /\ ~ lsq[lsq_missi].blk /\ lsq[lsq_missi].op # "move"
    BY <1>1, <2>1 DEF Chosen
  <2>4. a \in Addrs
    <3>1. lsq_missi \in Held  BY <2>3 DEF Known, In
    <3>2. lsq[lsq_missi] \in Entries  BY <1>1, <3>1, HeldEntry
    <3>3. QED  BY <3>2, EntryFields
  <2>5. r \in Requests  BY DEF RequestOf, Requests
  <2> HIDE DEF r
  <2>6. m \in SUBSET Requests
    <3>1. m = wanted[a] \/ m = wanted[a] \cup {r} \/ m = {r}  BY <2>2 DEF Merged
    <3> HIDE DEF a
    <3>2. QED  BY <1>2, <2>4, <2>5, <3>1
  <2>7. ASSUME dcache[a] = "EXCLUSIVE" \/ Grants(dcache_refill, a) \/ (\E p \in refilling : Grants(p, a))
        PROVE  m = {}
    <3>1. \E p \in {dcache_refill, dtagcmp_refill} \cup refilling : Grants(p, a)
      <4>1. dcache[a] = "EXCLUSIVE" => Grants(dtagcmp_refill, a)  BY <1>1, <2>3 DEF Believed
      <4>2. QED  BY <2>7, <4>1
    <3>2. "READ_EX" \in Pending(a)
      <4>1. PICK p \in {dcache_refill, dtagcmp_refill} \cup refilling : Grants(p, a)  BY <3>1
      <4>2. p \in RefillsOf(a) /\ p.status # "SHARED"  BY <4>1 DEF RefillsOf, Grants
      <4> HIDE DEF a
      <4>3. QED  BY <4>2 DEF Pending
    <3>3. Merged(a, r) = {wanted[a]}  BY <3>2 DEF Merged
    <3>4. m = wanted[a]  BY <2>2, <3>3
    <3>5. wanted[a] = {}  BY <1>3, <2>4, <2>7 DEF Quiet
    <3>6. QED  BY <3>4, <3>5
  <2> HIDE DEF a
  <2>8. w \in [Addrs -> SUBSET Requests] /\ w[a] = m /\ \A x \in Addrs : x # a => w[x] = wanted[x]
    BY <1>2, <2>2, <2>4, <2>6
  <2>9. Quiet(w)
    <3>1. ASSUME NEW x \in Addrs,
                 dcache[x] = "EXCLUSIVE" \/ Grants(dcache_refill, x) \/ (\E p \in refilling : Grants(p, x))
          PROVE  w[x] = {}
      <4>1. CASE x = a  BY <2>7, <2>8, <3>1, <4>1
      <4>2. CASE x # a  BY <1>3, <2>8, <3>1, <4>2 DEF Quiet
      <4>3. QED  BY <4>1, <4>2
    <3>2. QED  BY <3>1 DEF Quiet
  <2>10. QED  BY <2>8, <2>9
<1>6. QED  BY <1>4, <1>5

\* What the miss queue sends, and what is wanted then.
Sent ==
  /\ lsq_refill' \in Packets
  /\ refilling' \subseteq Packets /\ Cardinality(refilling') <= 1
  /\ refill_delay' \in 0 .. refill_cycles
  /\ wanted' \in [Addrs -> SUBSET Requests]
  /\ lsq_refill'.kind = "refill" => lsq_refill'.status # "INVALID"
  /\ \A p \in refilling' : p.kind = "refill" /\ p.status # "INVALID"
  /\ Owned'

LEMMA SendsOwned ==
  ASSUME IInv, stage = "cache2mem", UNCHANGED <<dcache, dcache_refill>>,
         NEW w \in [Addrs -> SUBSET Requests], Quiet(w),
         send_refill(w) \/ send_intervention(w) \/ send_replace(w) \/ send_nothing(w)
  PROVE  Sent
<1>1. TypeOK /\ Flow /\ Owned  BY DEF IInv
<1>2. lsq_refill = NoPacket /\ NoPacket \in Packets /\ NoPacket.kind = "none"
  BY <1>1 DEF Flow, NoPacket, Packets
<1>3. dcache' = dcache /\ dcache_refill' = dcache_refill  OBVIOUS
<1>4. /\ refilling \subseteq Packets /\ Cardinality(refilling) <= 1
      /\ \A p \in refilling : p.kind = "refill" /\ p.status # "INVALID"
      /\ refill_delay \in 0 .. refill_cycles /\ refill_cycles \in Nat
  BY <1>1, Size DEF TypeOK, Flow
<1>5. RefillDelay \in 0 .. refill_cycles
  <2>1. CASE refill_delay > 0  BY <1>4, <2>1 DEF RefillDelay
  <2>2. CASE ~ (refill_delay > 0)  BY <1>4, <2>2 DEF RefillDelay
  <2>3. QED  BY <2>1, <2>2
<1>6. /\ \A a \in Addrs : dcache[a] = "EXCLUSIVE" =>
           /\ w[a] = {} /\ ~ Refills(dcache_refill, a) /\ \A p \in refilling : ~ Refills(p, a)
      /\ \A a \in Addrs : Grants(dcache_refill, a) => w[a] = {} /\ \A p \in refilling : ~ Refills(p, a)
      /\ \A a \in Addrs : \A p \in refilling : Grants(p, a) => w[a] = {}
  BY <1>1 DEF Owned, Quiet
<1>7. Cardinality({}) = 0 /\ \A p : Cardinality({p}) = 1
  BY FS_EmptySet, FS_Singleton
<1>8. CASE send_refill(w)
  <2>1. PICK p \in refilling : lsq_refill' = p /\ refilling' = {} /\ wanted' = w /\ refill_delay' = refill_cycles
    BY <1>8 DEF send_refill
  <2>2. Owned'
    BY <1>3, <1>6, <2>1 DEF Owned, Refills, Grants
  <2>3. QED  BY <1>4, <1>7, <2>1, <2>2 DEF Sent
<1>9. CASE send_intervention(w)
  <2>1. PICK a \in Addrs, kind \in Taking \ {"replace"} :
          lsq_refill' = [kind |-> kind, addr |-> a] /\ wanted' \in {w, [w EXCEPT ![a] = {}]}
    BY <1>9 DEF send_intervention
  <2>2. refilling' = refilling /\ refill_delay' = RefillDelay  BY <1>9 DEF send_intervention
  <2>3. lsq_refill'.kind # "refill"
    <3>1. kind \in {"shared", "exclusive"}  BY LsqAssumption DEF LsqAssumption
    <3>2. QED  BY <2>1, <3>1
  <2>4. lsq_refill' \in Packets
    <3>1. kind \in {"shared", "exclusive"}  BY LsqAssumption DEF LsqAssumption
    <3>2. QED  BY <2>1, <3>1 DEF Packets
  <2>5. wanted' \in [Addrs -> SUBSET Requests] /\ \A x \in Addrs : wanted'[x] = w[x] \/ wanted'[x] = {}
    BY <2>1
  <2>6. Owned'
    BY <1>3, <1>6, <2>2, <2>3, <2>5 DEF Owned, Refills, Grants
  <2>7. QED  BY <1>4, <1>5, <2>2, <2>3, <2>4, <2>5, <2>6 DEF Sent
<1>10. CASE send_replace(w)
  <2>1. PICK a \in Addrs : \E r \in w[a], v \in Victims(a) : \E status \in Answers(r) :
          /\ lsq_refill' = [kind |-> "replace", addr |-> v]
          /\ refilling' = {[kind |-> "refill", addr |-> a, status |-> status]}
          /\ wanted' = [w EXCEPT ![a] = IF status = "SHARED" THEN @ \ {r} ELSE {}]
    BY <1>10 DEF send_replace
  <2>2. PICK r \in w[a], v \in Victims(a) : \E status \in Answers(r) :
          /\ lsq_refill' = [kind |-> "replace", addr |-> v]
          /\ refilling' = {[kind |-> "refill", addr |-> a, status |-> status]}
          /\ wanted' = [w EXCEPT ![a] = IF status = "SHARED" THEN @ \ {r} ELSE {}]
    BY <2>1
  <2>3. PICK status \in Answers(r) :
          /\ lsq_refill' = [kind |-> "replace", addr |-> v]
          /\ refilling' = {[kind |-> "refill", addr |-> a, status |-> status]}
          /\ wanted' = [w EXCEPT ![a] = IF status = "SHARED" THEN @ \ {r} ELSE {}]
    BY <2>2
  <2>4. refilling = {} /\ refill_delay' = RefillDelay  BY <1>10 DEF send_replace
  <2>5. v \in Addrs \cup {NoAddr}  BY DEF Victims
  <2>6. status \in {"SHARED", "EXCLUSIVE"}  BY DEF Answers
  <2> DEFINE p == [kind |-> "refill", addr |-> a, status |-> status]
             t == IF status = "SHARED" THEN w[a] \ {r} ELSE {}
  <2>7. p \in Packets /\ p.kind = "refill" /\ p.addr = a /\ p.status = status
    BY <2>6 DEF Packets, Statuses
  <2>8. lsq_refill' \in Packets /\ lsq_refill'.kind = "replace"  BY <2>3, <2>5 DEF Packets
  <2>9. refilling' = {p} /\ wanted' = [w EXCEPT ![a] = t]  BY <2>3
  <2>10. t \in SUBSET Requests /\ (status = "EXCLUSIVE" => t = {})  OBVIOUS
  <2> HIDE DEF p, t
  <2>11. wanted' \in [Addrs -> SUBSET Requests] /\ wanted'[a] = t /\ \A x \in Addrs : x # a => wanted'[x] = w[x]
    BY <2>9, <2>10
  <2>12. w[a] # {}  OBVIOUS
  <2>13. dcache[a] # "EXCLUSIVE" /\ ~ Grants(dcache_refill, a)  BY <1>6, <2>12
  <2>14. \A x \in Addrs : x # a => ~ Refills(p, x)  BY <2>7 DEF Refills
  <2>15. \A x : ~ Refills(lsq_refill', x) /\ ~ Grants(lsq_refill', x)  BY <2>8 DEF Refills, Grants
  <2>16. \A x \in Addrs : Grants(p, x) => wanted'[x] = {}
    BY <2>7, <2>10, <2>11 DEF Grants
  <2>17. ASSUME NEW x \in Addrs
         PROVE  /\ dcache[x] = "EXCLUSIVE" =>
                     /\ wanted'[x] = {} /\ ~ Refills(dcache_refill, x) /\ ~ Refills(lsq_refill', x)
                     /\ \A m \in refilling' : ~ Refills(m, x)
                /\ Grants(dcache_refill, x) =>
                     wanted'[x] = {} /\ ~ Refills(lsq_refill', x) /\ \A m \in refilling' : ~ Refills(m, x)
                /\ ~ Grants(lsq_refill', x)
                /\ \A m \in refilling' : Grants(m, x) => wanted'[x] = {}
    <3>1. CASE x = a  BY <2>9, <2>13, <2>15, <2>16, <3>1
    <3>2. CASE x # a  BY <1>6, <2>9, <2>11, <2>14, <2>15, <2>16, <3>2
    <3>3. QED  BY <3>1, <3>2
  <2>18. Owned'  BY <1>3, <2>17 DEF Owned, Refills, Grants
  <2>19. Cardinality(refilling') <= 1
    <3>1. Cardinality({p}) = 1  BY FS_Singleton
    <3>2. QED  BY <2>9, <3>1
  <2>20. QED  BY <1>5, <2>4, <2>6, <2>7, <2>8, <2>9, <2>11, <2>18, <2>19 DEF Sent
<1>11. CASE send_nothing(w)
  <2>1. wanted' = w /\ refill_delay' = RefillDelay /\ lsq_refill' = lsq_refill /\ refilling' = refilling
    BY <1>11 DEF send_nothing
  <2>2. Owned'
    BY <1>2, <1>3, <1>6, <2>1 DEF Owned, Refills, Grants
  <2>3. QED  BY <1>2, <1>4, <1>5, <2>1, <2>2 DEF Sent
<1>12. QED  BY <1>8, <1>9, <1>10, <1>11

\* The miss queue takes a miss and sends a packet.
LEMMA MemoryKeeps ==
  ASSUME IInv, cache2mem
  PROVE  IInv'
<1>1. TypeOK /\ Placed /\ Registers /\ Chosen /\ Flow /\ Owned /\ Believed /\ Early /\ Writing
  BY DEF IInv
<1>2. PICK taken \in {FALSE, lsq_missi # NoSlot} :
        /\ lsq' = IF taken THEN [lsq EXCEPT ![lsq_missi].fetching = TRUE] ELSE lsq
        /\ lsq_missi' = IF taken THEN NoSlot ELSE lsq_missi
        /\ \E w \in WantedAfter(taken) :
             send_refill(w) \/ send_intervention(w) \/ send_replace(w) \/ send_nothing(w)
  BY DEF cache2mem
<1>3. /\ stage = "cache2mem" /\ stage' = "dtagcmp" /\ n' = 0 /\ lsq_issuei' = lsq_issuei
      /\ lsq_head1' = lsq_head1 /\ lsq_head' = lsq_head /\ lsq_tail' = lsq_tail
      /\ lsq_num' = lsq_num /\ lsq_dcachei' = lsq_dcachei
      /\ lsq_dtagcmpi' = lsq_dtagcmpi /\ lsq_wtbki' = lsq_wtbki
      /\ dcache_refill' = dcache_refill /\ dtagcmp_refill' = dtagcmp_refill
      /\ dcachewrite' = dcachewrite /\ replace_delay' = replace_delay
      /\ dcache' = dcache
  BY DEF cache2mem, Goto
<1>4. Sent
  <2>1. taken = FALSE \/ taken = (lsq_missi # NoSlot)  OBVIOUS
  <2>2. PICK w \in WantedAfter(taken) :
          send_refill(w) \/ send_intervention(w) \/ send_replace(w) \/ send_nothing(w)
    BY <1>2
  <2>3. w \in [Addrs -> SUBSET Requests] /\ Quiet(w)  BY <1>3, <2>1, RequestKept
  <2>4. UNCHANGED <<dcache, dcache_refill>>  BY <1>3
  <2>5. QED  BY <1>3, <2>2, <2>3, <2>4, SendsOwned
<1>5. Held \subseteq Slots /\ NoSlot \notin Slots /\ (\A i \in Held : lsq[i] \in Entries)
  BY <1>1, HeldEntry, Size
<1>6. /\ lsq' \in Contents
      /\ \A i \in Slots : /\ lsq'[i].op = lsq[i].op /\ lsq'[i].addr = lsq[i].addr
                           /\ lsq'[i].bytes = lsq[i].bytes /\ lsq'[i].state = lsq[i].state
                           /\ lsq'[i].blk = lsq[i].blk /\ lsq'[i].byterdy = lsq[i].byterdy
                           /\ lsq'[i].early = lsq[i].early /\ lsq'[i].ex = lsq[i].ex
  <2>1. lsq \in Contents  BY <1>1 DEF TypeOK, Contents
  <2>2. CASE ~ taken  BY <1>2, <2>1, <2>2
  <2>3. CASE taken
    <3> DEFINE m == lsq_missi
               f == [lsq[m] EXCEPT !.fetching = TRUE]
    <3>1. m # NoSlot  BY <2>3
    <3>2. m \in Slots /\ lsq[m] \in Entries  BY <1>1, <1>5, <3>1 DEF Chosen, Known, In
    <3>3. /\ f \in Entries /\ f.op = lsq[m].op /\ f.addr = lsq[m].addr
          /\ f.bytes = lsq[m].bytes /\ f.state = lsq[m].state
          /\ f.blk = lsq[m].blk /\ f.byterdy = lsq[m].byterdy
          /\ f.early = lsq[m].early /\ f.ex = lsq[m].ex
      BY <3>2 DEF Entries
    <3>4. lsq' = [lsq EXCEPT ![m] = f]  BY <1>2, <2>3
    <3> HIDE DEF f
    <3>5. lsq' \in Contents /\ lsq'[m] = f /\ \A j \in Slots : j # m => lsq'[j] = lsq[j]
      BY <2>1, <3>2, <3>3, <3>4 DEF Contents
    <3>6. QED  BY <3>3, <3>5
  <2>4. QED  BY <2>2, <2>3
<1>7. lsq_missi' = NoSlot \/ lsq_missi' = lsq_missi  BY <1>2
<1>8. SameRing /\ SameAccesses  BY <1>3, <1>5, <1>6 DEF SameRing, SameAccesses
<1>9. Held' = Held  BY <1>8, SameOrder
<1>10. Known' = Known /\ \A S : In(S)' = In(S)  BY <1>5, <1>6, <1>9 DEF Known, In
<1>11. TypeOK'
  <2>1. stage' \in Stages /\ n' \in 0 .. map_width  BY <1>3, Size DEF Stages
  <2>2. QED  BY <1>1, <1>3, <1>4, <1>6, <1>7, <2>1 DEF TypeOK, Contents, Sent
<1>12. Placed'
  <2>1. UNCHANGED <<lsq_head, lsq_tail, lsq_num>> /\ (stage' = "map" => n' = 0)  BY <1>3
  <2>2. QED  BY <1>6, <1>8, <2>1, PlacedKept
<1>13. Registers'  BY <1>1, <1>3, <1>10 DEF Registers
<1>14. Chosen'
  <2>1. ~ dcachewrite  BY <1>1, <1>3 DEF Chosen
  <2>2. lsq_missi # NoSlot => lsq_missi \in Known /\ lsq_missi \in Slots
                              /\ ~ lsq[lsq_missi].blk /\ lsq[lsq_missi].op # "move"
    BY <1>1, <1>5 DEF Chosen, Known, In
  <2>3. QED  BY <1>3, <1>6, <1>7, <1>10, <2>1, <2>2 DEF Chosen
<1>15. Flow'  BY <1>1, <1>3, <1>4 DEF Flow, Sent
<1>16. Owned'  BY <1>4 DEF Sent
<1>17. Believed'
  <2>1. Known \subseteq Slots /\ In({"DTAGCMP"}) \subseteq Slots  BY <1>5 DEF Known, In
  <2>2. QED  BY <1>1, <1>3, <1>6, <1>10, <2>1 DEF Believed, Grants
<1>18. Early'
  <2>1. \A j \in Held : lsq'[j].early =>
           /\ lsq[j].early /\ (lsq[j].ex => lsq'[j].ex)
           /\ \/ lsq'[j].state = "WRITEBACK"
              \/ lsq'[j].state = "READCACHE" /\ j = lsq_wtbki' /\ stage' \notin {"cache2mem", "dtagcmp"}
    BY <1>1, <1>3, <1>5, <1>6 DEF Early
  <2>2. QED  BY <1>8, <1>10, <2>1, EarlyKept
<1>19. Writing'  BY <1>1, <1>5, <1>6, <1>9 DEF Writing
<1>20. QED  BY <1>11, <1>12, <1>13, <1>14, <1>15, <1>16, <1>17, <1>18, <1>19 DEF IInv

\* An access enters behind the others.
LEMMA EnqueueKeeps ==
  ASSUME IInv, lsq_enqueue
  PROVE  IInv'
<1>1. TypeOK /\ Placed /\ Registers /\ Chosen /\ Flow /\ Owned /\ Believed /\ Early /\ Writing
  BY DEF IInv
<1> DEFINE t == lsq_tail
<1>2. PICK a \in Accesses :
        lsq' = [lsq EXCEPT ![t] =
                  [op |-> a.op, addr |-> a.addr, bytes |-> a.bytes, state |-> "ENTER",
                   byterdy |-> {}, fetching |-> FALSE, blk |-> FALSE, ex |-> FALSE,
                   loadspec |-> FALSE, early |-> FALSE, lost |-> FALSE]]
  BY DEF lsq_enqueue
<1>3. /\ stage = "map" /\ n < map_width /\ (n = 0 => MapOpen) /\ stage' = stage /\ n' = n + 1
      /\ lsq_num' = lsq_num + 1 /\ lsq_tail' = (lsq_tail + 1) % lsq_ifq_size
      /\ lsq_head1' = lsq_head1 /\ lsq_head' = lsq_head /\ lsq_issuei' = lsq_issuei
      /\ lsq_dcachei' = lsq_dcachei
      /\ lsq_dtagcmpi' = lsq_dtagcmpi /\ lsq_missi' = lsq_missi /\ lsq_wtbki' = lsq_wtbki
      /\ lsq_refill' = lsq_refill /\ dcache_refill' = dcache_refill /\ dtagcmp_refill' = dtagcmp_refill
      /\ dcachewrite' = dcachewrite /\ replace_delay' = replace_delay /\ refill_delay' = refill_delay
      /\ dcache' = dcache /\ wanted' = wanted /\ refilling' = refilling
  BY DEF lsq_enqueue, regs, packets, delays, memory
<1> DEFINE e == [op |-> a.op, addr |-> a.addr, bytes |-> a.bytes, state |-> "ENTER",
                 byterdy |-> {}, fetching |-> FALSE, blk |-> FALSE, ex |-> FALSE,
                 loadspec |-> FALSE, early |-> FALSE, lost |-> FALSE]
<1>4. /\ e \in Entries /\ e.state = "ENTER" /\ e.early = FALSE
      /\ (e.op = "store" => e.bytes # {})
  <2>1. /\ a.op \in Ops /\ a.bytes \subseteq Bytes /\ a.addr \in Addrs
        /\ a.op = "store" => a.bytes # {}
    BY LsqAssumption DEF LsqAssumption, Addrs
  <2>2. QED  BY <2>1 DEF Entries, States
<1>5. lsq' = [lsq EXCEPT ![t] = e]  BY <1>2
<1> HIDE DEF e
<1>6. /\ t \in Slots /\ Held \subseteq Slots /\ NoSlot \notin Slots /\ lsq \in Contents
      /\ lsq_num \in 0 .. lsq_ifq_size /\ n \in 0 .. map_width
      /\ Held = {i \in Slots : Age(i) < lsq_num} /\ (lsq_head1 + lsq_num) % lsq_ifq_size = t
  BY <1>1, HeldEntry, Size DEF TypeOK, Placed, Contents
<1> HIDE DEF t
<1>7. lsq' \in Contents /\ lsq'[t] = e /\ \A j \in Slots : j # t => lsq'[j] = lsq[j]
  BY <1>4, <1>5, <1>6 DEF Contents
<1>8. /\ lsq_num < lsq_ifq_size /\ lsq_num + 1 + map_width - (n + 1) <= lsq_ifq_size
      /\ n + 1 \in 0 .. map_width
  <2>1. map_width \in 1 .. lsq_ifq_size /\ lsq_ifq_size \in Nat  BY Size
  <2>2. CASE n = 0
    <3>1. lsq_num + map_width <= lsq_ifq_size  BY <1>3, <2>2 DEF MapOpen
    <3>2. QED  BY <1>3, <1>6, <2>1, <2>2, <3>1
  <2>3. CASE n # 0
    <3>1. lsq_num + map_width - n <= lsq_ifq_size  BY <1>1, <1>3, <1>6, <2>1, <2>3 DEF Placed
    <3>2. QED  BY <1>3, <1>6, <2>1, <2>3, <3>1
  <2>4. QED  BY <2>2, <2>3
<1>9. Age(t) = lsq_num
  <2>1. lsq_head1 \in 0 .. lsq_ifq_size - 1 /\ lsq_num \in 0 .. lsq_ifq_size - 1
    BY <1>1, <1>6, <1>8, Size DEF TypeOK
  <2>2. AgeOn(lsq_ifq_size, lsq_head1, (lsq_head1 + lsq_num) % lsq_ifq_size) = lsq_num
    BY <2>1, SlotOfAge, Size
  <2>3. Age(t) = AgeOn(lsq_ifq_size, lsq_head1, t)  BY <1>1, <1>6, Ages
  <2>4. QED  BY <1>6, <2>2, <2>3
<1>10. \A i \in Slots : Age(i) \in 0 .. lsq_ifq_size - 1 /\ (Age(i) = lsq_num => i = t)
  BY <1>1, <1>6, <1>9, Ages
<1>11. t \notin Held  BY <1>6, <1>9, Size
<1>12. Held' = Held \cup {t}
  <2>1. \A i \in Slots : lsq'[i].state # "EMPTY" <=> i \in Held \cup {t}
    BY <1>4, <1>7 DEF Held
  <2>2. QED  BY <1>6, <2>1 DEF Held
<1>13. \A i : Age(i)' = Age(i)  BY <1>3 DEF Age
<1>14. \A i \in Held : Older(i)' = Older(i)
  <2>1. ASSUME NEW i \in Held PROVE ~ (Age(t) < Age(i))
    <3>1. Age(i) < lsq_num /\ Age(i) \in Int  BY <1>6, <1>10, Size
    <3>2. QED  BY <1>6, <1>9, <3>1, Size
  <2>2. \A i : Older(i)' = {j \in Held \cup {t} : Age(j) < Age(i)}  BY <1>12, <1>13 DEF Older
  <2>3. QED  BY <2>1, <2>2 DEF Older
<1>15. \A i \in Held, j \in Held : Between(j, i)' = Between(j, i)
  <2>1. \A j : Younger(j)' \subseteq Younger(j) \cup {t} /\ Younger(j) \subseteq Younger(j)'
    BY <1>12, <1>13 DEF Younger
  <2>2. \A i \in Held : t \notin Older(i)  BY <1>11 DEF Older
  <2>3. QED  BY <1>14, <2>1, <2>2 DEF Between
<1>16. /\ Known' = Known /\ In({"ISSUE"})' = In({"ISSUE"}) /\ In({"DCACHE"})' = In({"DCACHE"})
       /\ In({"DTAGCMP"})' = In({"DTAGCMP"}) /\ In({"DELAY1"})' = In({"DELAY1"})
       /\ In({"COMMIT"})' = In({"COMMIT"}) /\ Retired' = Retired
  <2>1. ASSUME NEW S, "ENTER" \notin S PROVE In(S)' = In(S)
    <3>1. \A i \in Held : lsq'[i] = lsq[i]  BY <1>6, <1>7, <1>11
    <3>2. QED  BY <1>4, <1>7, <1>12, <2>1, <3>1 DEF In
  <2>2. "ENTER" \notin {"READCACHE", "WRITEBACK", "COMMIT", "DELAY1"}  OBVIOUS
  <2>3. Known' = Known  BY <2>1, <2>2 DEF Known
  <2>4. Retired' = Retired  BY <2>1 DEF Retired
  <2>5. QED  BY <2>1, <2>3, <2>4
<1>17. \A i \in Held : lsq'[i] = lsq[i]  BY <1>6, <1>7, <1>11
<1>18. TypeOK'
  <2>1. lsq_tail' \in Slots
    <3>1. (t + 1) % lsq_ifq_size \in 0 .. lsq_ifq_size - 1
      <4>1. t \in 0 .. lsq_ifq_size - 1 /\ 1 \in 0 .. lsq_ifq_size  BY <1>6, Size
      <4>2. QED  BY <4>1, SlotAt, Size
    <3>2. QED  BY <1>3, <3>1, Size DEF t
  <2>2. n' \in 0 .. map_width /\ lsq_num' \in 0 .. lsq_ifq_size  BY <1>3, <1>6, <1>8, Size
  <2>3. QED  BY <1>1, <1>3, <1>7, <2>1, <2>2 DEF TypeOK, Contents
<1>19. Placed'
  <2>1. Held' = {i \in Slots : Age(i) < lsq_num}'
    <3>1. ASSUME NEW i \in Slots PROVE Age(i) < lsq_num + 1 <=> i \in Held \cup {t}
      <4> DEFINE a_i == Age(i)
      <4>a. a_i \in Int /\ lsq_num \in Int  BY <1>6, <1>10, Size
      <4> HIDE DEF a_i
      <4>b. a_i < lsq_num + 1 <=> (a_i < lsq_num \/ a_i = lsq_num)  BY <4>a
      <4>1. Age(i) < lsq_num + 1 <=> (Age(i) < lsq_num \/ Age(i) = lsq_num)  BY <4>b DEF a_i
      <4>2. Age(i) = lsq_num <=> i = t  BY <1>9, <1>10
      <4>3. QED  BY <1>6, <4>1, <4>2
    <3>2. QED  BY <1>3, <1>6, <1>12, <1>13, <3>1
  <2>2. ((lsq_head1 + lsq_num) % lsq_ifq_size = lsq_tail)'
    <3>1. lsq_head1 \in 0 .. lsq_ifq_size - 1 /\ lsq_num \in 0 .. lsq_ifq_size /\ 1 \in 0 .. lsq_ifq_size
      BY <1>1, <1>6, Size DEF TypeOK
    <3>2. (((lsq_head1 + lsq_num) % lsq_ifq_size) + 1) % lsq_ifq_size = (lsq_head1 + lsq_num + 1) % lsq_ifq_size
      BY <3>1, StepsAdd, Size
    <3>3. lsq_head1 + (lsq_num + 1) = lsq_head1 + lsq_num + 1  BY <3>1, Size
    <3>4. QED  BY <1>3, <1>6, <3>2, <3>3 DEF t
  <2>3. ((lsq_head1 + Cardinality(In({"DELAY1"}))) % lsq_ifq_size = lsq_head)'
    BY <1>1, <1>3, <1>16 DEF Placed
  <2>4. (\A i \in In({"DELAY1"}) : Older(i) \subseteq In({"DELAY1"}))'
    <3>1. \A i \in In({"DELAY1"}) : i \in Held  BY DEF In
    <3>2. QED  BY <1>1, <1>14, <1>16, <3>1 DEF Placed
  <2>5. (\A i \in In({"COMMIT"}) : Older(i) \subseteq Retired)'
    <3>1. \A i \in In({"COMMIT"}) : i \in Held  BY DEF In
    <3>2. QED  BY <1>1, <1>14, <1>16, <3>1 DEF Placed
  <2>6. (stage = "map" /\ n > 0 => lsq_num + map_width - n <= lsq_ifq_size)'
    BY <1>3, <1>8
  <2>7. QED  BY <2>1, <2>2, <2>3, <2>4, <2>5, <2>6 DEF Placed
<1>20. Registers'  BY <1>1, <1>3, <1>16 DEF Registers
<1>21. Chosen'
  <2>1. lsq_wtbki # NoSlot => lsq'[lsq_wtbki].state = "READCACHE"
    <3>1. lsq_wtbki # NoSlot => lsq_wtbki \in Slots /\ lsq[lsq_wtbki].state = "READCACHE"
      BY <1>1, <1>3 DEF Chosen, TypeOK
    <3>2. lsq_wtbki # NoSlot => lsq_wtbki \in Held  BY <3>1 DEF Held
    <3>3. QED  BY <1>17, <3>1, <3>2
  <2>2. lsq_missi # NoSlot => lsq_missi \in Known /\ ~ lsq'[lsq_missi].blk /\ lsq'[lsq_missi].op # "move"
    <3>1. Known \subseteq Held  BY DEF Known, In
    <3>2. QED  BY <1>1, <1>17, <3>1 DEF Chosen
  <2>3. ~ dcachewrite  BY <1>1, <1>3 DEF Chosen
  <2>4. QED  BY <1>3, <1>16, <2>1, <2>2, <2>3 DEF Chosen
<1>22. Flow'  BY <1>1, <1>3 DEF Flow
<1>23. Owned'  BY <1>1, <1>3 DEF Owned, Refills, Grants
<1>24. Believed'
  <2>1. \A i \in Known \cup In({"DTAGCMP"}) : lsq'[i] = lsq[i]  BY <1>17 DEF Known, In
  <2>2. QED  BY <1>1, <1>3, <1>16, <2>1 DEF Believed, Grants
<1>25. Early'
  <2>1. ASSUME NEW i \in Held, lsq'[i].early
        PROVE  /\ lsq'[i].op = "load"
               /\ \/ lsq'[i].state = "WRITEBACK"
                  \/ lsq'[i].state = "READCACHE" /\ i = lsq_wtbki' /\ stage' \notin {"cache2mem", "dtagcmp"}
               /\ lsq'[i].ex \/ \E j \in Slots, b \in lsq'[i].bytes : Hidden(i, j, b)'
    <3>1. lsq'[i] = lsq[i]  BY <1>17
    <3>2. /\ lsq[i].op = "load"
          /\ lsq[i].state = "WRITEBACK" \/ (lsq[i].state = "READCACHE" /\ i = lsq_wtbki)
          /\ lsq[i].ex \/ \E j \in Slots, b \in lsq[i].bytes : Hidden(i, j, b)
      BY <1>1, <2>1, <3>1 DEF Early
    <3>3. ASSUME NEW j \in Slots, NEW b \in lsq[i].bytes, Hidden(i, j, b)
          PROVE  Hidden(i, j, b)'
      <4>1. /\ j \in Older(i) /\ lsq[j].op = "store" /\ lsq[j].addr = lsq[i].addr /\ b \in lsq[j].bytes
            /\ j \notin Known
            /\ \A k \in Between(j, i) :
                 lsq[k].op = "store" /\ lsq[k].addr = lsq[i].addr => b \notin lsq[k].bytes
        BY <3>3 DEF Hidden
      <4>2. j \in Held /\ \A k \in Between(j, i) : k \in Held  BY <4>1 DEF Between, Older
      <4>3. Older(i)' = Older(i) /\ Between(j, i)' = Between(j, i)  BY <1>14, <1>15, <4>2
      <4>4. QED  BY <1>16, <1>17, <4>1, <4>2, <4>3 DEF Hidden
    <3>4. QED  BY <1>3, <3>1, <3>2, <3>3
  <2>2. ~ lsq'[t].early  BY <1>4, <1>7
  <2>3. QED  BY <1>12, <2>1, <2>2 DEF Early
<1>26. Writing'  BY <1>1, <1>4, <1>7, <1>12, <1>17 DEF Writing
<1>27. QED  BY <1>18, <1>19, <1>20, <1>21, <1>22, <1>23, <1>24, <1>25, <1>26 DEF IInv

\* What leaves the head is committed, and nothing between stays.
LEMMA PassedFacts ==
  ASSUME IInv, stage = "advance"
  PROVE  /\ Passed \subseteq In({"COMMIT"})
         /\ \A i \in Passed, j \in Slots :
              AgeOn(lsq_ifq_size, lsq_head, j) < AgeOn(lsq_ifq_size, lsq_head, i) => j \in Passed
<1>1. TypeOK /\ Chosen  BY DEF IInv
<1>2. lsq_ifq_size \in Nat \ {0} /\ lsq_head \in Slots /\ lsq_head \in 0 .. lsq_ifq_size - 1
      /\ Slots = 0 .. lsq_ifq_size - 1
  BY <1>1, Size DEF TypeOK
<1> DEFINE N == lsq_ifq_size
           behind(k) == (lsq_head + k) % lsq_ifq_size
           follows(k) == \A j \in 1 .. k : LET e == lsq[behind(j)] IN e.state = "COMMIT" /\ e.op = "load"
           done == dcachewrite \/ (lsq[lsq_head].state = "COMMIT" /\ lsq[lsq_head].op # "store")
           P == {lsq_head} \cup {behind(k) : k \in {j \in 1 .. 3 : follows(j)}}
<1>3. CASE ~ done
  <2>1. Passed = {}  BY <1>3 DEF Passed
  <2>2. QED  BY <2>1
<1>4. CASE done
  <2>1. Passed = P  BY <1>4 DEF Passed
  <2>2. lsq[lsq_head].state = "COMMIT"
    <3>1. dcachewrite => HeadIs("store", "COMMIT")  BY <1>1 DEF Chosen
    <3>2. QED  BY <1>4, <3>1 DEF HeadIs
  <2>3. ASSUME NEW k \in 1 .. 3, follows(k)
        PROVE  /\ behind(k) \in Slots /\ lsq[behind(k)].state = "COMMIT"
               /\ AgeOn(N, lsq_head, behind(k)) \in 0 .. k
    <3>1. behind(k) \in 0 .. N - 1
      <4>1. lsq_head + k \in Int /\ N \in Int /\ N > 0  BY <1>2
      <4>2. QED  BY <4>1
    <3>2. lsq[behind(k)].state = "COMMIT"  BY <2>3
    <3>3. AgeOn(N, lsq_head, behind(k)) \in 0 .. N - 1
      <4> HIDE DEF behind
      <4>1. QED  BY <1>2, <3>1, AgeValue
    <3>4. CASE k < N
      <4>1. k \in 0 .. N - 1  BY <1>2, <3>4
      <4>2. AgeOn(N, lsq_head, behind(k)) = k  BY <1>2, <4>1, SlotOfAge
      <4>3. QED  BY <1>2, <3>1, <3>2, <4>2
    <3>5. CASE ~ (k < N)
      <4> HIDE DEF behind
      <4>1. AgeOn(N, lsq_head, behind(k)) \in 0 .. k  BY <1>2, <3>3, <3>5
      <4>2. QED  BY <1>2, <3>1, <3>2, <4>1
    <3>6. QED  BY <3>4, <3>5
  <2>4. Passed \subseteq In({"COMMIT"})
    <3>1. \A i \in P : i \in Slots /\ lsq[i].state = "COMMIT"  BY <1>2, <2>2, <2>3
    <3> HIDE DEF P
    <3>2. QED  BY <2>1, <3>1 DEF In, Held
  <2>5. AgeOn(N, lsq_head, lsq_head) = 0  BY <1>2, AgeValue
  <2>6. ASSUME NEW i \in P, NEW j \in Slots, AgeOn(N, lsq_head, j) < AgeOn(N, lsq_head, i)
        PROVE  j \in P
    <3> DEFINE m == AgeOn(N, lsq_head, j)
    <3>1. m \in 0 .. N - 1  BY <1>2, AgeValue
    <3>2. (lsq_head + m) % N = j
      <4> DEFINE z == (lsq_head + m) % N
      <4>1. z \in 0 .. N - 1 /\ AgeOn(N, lsq_head, z) = m  BY <1>2, <3>1, SlotOfAge
      <4> HIDE DEF z
      <4>2. z = j  BY <1>2, <4>1, AgeUnique
      <4>3. QED  BY <4>2 DEF z
    <3>3. CASE i = lsq_head
      BY <1>2, <2>5, <2>6, <3>1, <3>3
    <3>4. CASE i # lsq_head
      <4>1. PICK k \in 1 .. 3 : follows(k) /\ i = behind(k)  BY <3>4
      <4>2. AgeOn(N, lsq_head, i) \in 0 .. k  BY <2>3, <4>1
      <4> HIDE DEF m
      <4>3. m < k  BY <1>2, <2>6, <3>1, <4>2 DEF m
      <4>4. CASE m = 0
        <5>1. AgeOn(N, lsq_head, j) = AgeOn(N, lsq_head, lsq_head)  BY <2>5, <4>4 DEF m
        <5>2. j = lsq_head  BY <1>2, <5>1, AgeUnique
        <5>3. QED  BY <5>2
      <4>5. CASE m # 0
        <5>1. m \in 1 .. 3 /\ m \in 1 .. k /\ 1 .. m \subseteq 1 .. k  BY <1>2, <3>1, <4>3, <4>5
        <5>2. follows(m)  BY <4>1, <5>1
        <5>3. j = behind(m)  BY <3>2
        <5> HIDE DEF behind, follows
        <5>4. QED  BY <5>1, <5>2, <5>3
      <4>6. QED  BY <4>4, <4>5
    <3>5. QED  BY <3>3, <3>4
  <2> HIDE DEF P
  <2>7. QED  BY <2>1, <2>4, <2>6
<1>5. QED  BY <1>3, <1>4

\* The entry that goes to the cache.
Issues == IF lsq_refill = NoPacket THEN lsq_issuei ELSE NoSlot

\* What the rest of lsq_stage does to the entries that stay.
LEMMA AdvanceEntries ==
  ASSUME IInv, advance
  PROVE  /\ lsq' \in Contents
         /\ \A i \in Slots \ (Held \ In({"DELAY1"})) : lsq'[i] = NoEntry
         /\ \A i \in Held \ In({"DELAY1"}) :
              /\ lsq'[i] \in Entries
              /\ lsq'[i].op = lsq[i].op /\ lsq'[i].addr = lsq[i].addr /\ lsq'[i].bytes = lsq[i].bytes
              /\ lsq'[i].byterdy = lsq[i].byterdy /\ lsq'[i].early = lsq[i].early /\ lsq'[i].ex = lsq[i].ex
              /\ i \in Passed => lsq[i].state = "COMMIT" /\ lsq'[i].state = "DELAY1" /\ lsq'[i].blk = lsq[i].blk
              /\ i = lsq_dcachei /\ dcache_refill = NoPacket =>
                   lsq[i].state = "DCACHE" /\ lsq'[i].state = "DTAGCMP" /\ lsq'[i].blk = CacheHit(lsq[i])
              /\ i = Issues => lsq[i].state = "ISSUE" /\ lsq'[i].state = "DCACHE" /\ lsq'[i].blk = lsq[i].blk
              /\ i \notin Passed /\ ~ (i = lsq_dcachei /\ dcache_refill = NoPacket) /\ i # Issues =>
                   lsq'[i].state = lsq[i].state /\ lsq'[i].blk = lsq[i].blk
<1>1. TypeOK /\ Registers /\ Flow  BY DEF IInv
<1>2. Held \subseteq Slots /\ NoSlot \notin Slots /\ (\A i \in Held : lsq[i] \in Entries)
      /\ \A i \in Slots \ Held : lsq[i] = NoEntry
  BY <1>1, HeldEntry, Size
<1> DEFINE freed == In({"DELAY1"})
           Q(i) == CASE i \in freed -> NoEntry
                     [] i \in Passed -> [lsq[i] EXCEPT !.state = "DELAY1"]
                     [] i = lsq_dcachei /\ dcache_refill = NoPacket -> Probed(i)
                     [] i = Issues -> [lsq[i] EXCEPT !.state = "DCACHE"]
                     [] OTHER -> lsq[i]
<1>3. lsq' = [i \in Slots |-> Q(i)] /\ stage = "advance"  BY DEF advance, Issues
<1>4. \A i \in Slots : lsq'[i] = Q(i)  BY <1>3
<1>5. \A i \in Passed : i \in Held /\ lsq[i].state = "COMMIT"  BY <1>3, PassedFacts DEF In
<1>6. \A i \in Slots : /\ i = lsq_dcachei => i \in Held /\ lsq[i].state = "DCACHE"
                       /\ i = Issues => i \in Held /\ lsq[i].state = "ISSUE"
  <2>1. {lsq_dcachei} \ {NoSlot} = In({"DCACHE"}) /\ {lsq_issuei} \ {NoSlot} = In({"ISSUE"})
    BY <1>1 DEF Registers
  <2>2. \A i \in Slots : i # NoSlot  BY <1>2
  <2>3. QED  BY <2>1, <2>2 DEF In, Issues
<1>7. \A i \in freed : i \in Held /\ lsq[i].state = "DELAY1"  BY DEF In
<1>8. ASSUME NEW i \in Slots \ (Held \ freed) PROVE lsq'[i] = NoEntry
  <2>1. CASE i \in freed
    <3>1. i \notin Passed /\ i # lsq_dcachei /\ i # Issues  BY <1>5, <1>6, <1>7, <2>1
    <3>2. Q(i) = NoEntry  BY <2>1, <3>1
    <3>3. QED  BY <1>4, <3>2
  <2>2. CASE i \notin freed
    <3>1. i \notin Held  BY <2>2
    <3>2. i \notin Passed /\ i # lsq_dcachei /\ i # Issues  BY <1>5, <1>6, <3>1
    <3>3. Q(i) = lsq[i]  BY <2>2, <3>2
    <3>4. QED  BY <1>2, <1>4, <3>1, <3>3
  <2>3. QED  BY <2>1, <2>2
<1>9. ASSUME NEW i \in Held \ freed
      PROVE  /\ lsq'[i] \in Entries
             /\ lsq'[i].op = lsq[i].op /\ lsq'[i].addr = lsq[i].addr /\ lsq'[i].bytes = lsq[i].bytes
             /\ lsq'[i].byterdy = lsq[i].byterdy /\ lsq'[i].early = lsq[i].early /\ lsq'[i].ex = lsq[i].ex
             /\ i \in Passed => lsq[i].state = "COMMIT" /\ lsq'[i].state = "DELAY1" /\ lsq'[i].blk = lsq[i].blk
             /\ i = lsq_dcachei /\ dcache_refill = NoPacket =>
                  lsq[i].state = "DCACHE" /\ lsq'[i].state = "DTAGCMP" /\ lsq'[i].blk = CacheHit(lsq[i])
             /\ i = Issues => lsq[i].state = "ISSUE" /\ lsq'[i].state = "DCACHE" /\ lsq'[i].blk = lsq[i].blk
             /\ i \notin Passed /\ ~ (i = lsq_dcachei /\ dcache_refill = NoPacket) /\ i # Issues =>
                  lsq'[i].state = lsq[i].state /\ lsq'[i].blk = lsq[i].blk
  <2>1. lsq[i] \in Entries /\ lsq'[i] = Q(i) /\ i \in Slots  BY <1>2, <1>4
  <2>2. CASE i \in Passed
    <3> DEFINE f == [lsq[i] EXCEPT !.state = "DELAY1"]
    <3>1. i # lsq_dcachei /\ i # Issues /\ lsq[i].state = "COMMIT"  BY <1>2, <1>5, <1>6, <2>2
    <3>2. Q(i) = f  BY <1>9, <2>2, <3>1
    <3>3. /\ f \in Entries /\ f.op = lsq[i].op /\ f.addr = lsq[i].addr /\ f.bytes = lsq[i].bytes
          /\ f.byterdy = lsq[i].byterdy /\ f.early = lsq[i].early /\ f.ex = lsq[i].ex
          /\ f.state = "DELAY1" /\ f.blk = lsq[i].blk
      BY <2>1 DEF Entries, States
    <3> HIDE DEF f, Q
    <3>4. QED  BY <2>1, <2>2, <3>1, <3>2, <3>3
  <2>3. CASE i \notin Passed /\ i = lsq_dcachei /\ dcache_refill = NoPacket
    <3> DEFINE hit == CacheHit(lsq[i])
               f == [lsq[i] EXCEPT !.state = "DTAGCMP", !.blk = hit]
    <3>1. i # Issues /\ lsq[i].state = "DCACHE"  BY <1>2, <1>6, <2>3
    <3>2. Q(i) = f  BY <1>9, <2>3, <3>1 DEF Probed
    <3>3. hit \in BOOLEAN
      <4>1. lsq[i].op \in Ops  BY <2>1, EntryFields
      <4>2. QED  BY <4>1 DEF CacheHit, Ops
    <3> HIDE DEF hit
    <3>4. /\ f \in Entries /\ f.op = lsq[i].op /\ f.addr = lsq[i].addr /\ f.bytes = lsq[i].bytes
          /\ f.byterdy = lsq[i].byterdy /\ f.early = lsq[i].early /\ f.ex = lsq[i].ex
          /\ f.state = "DTAGCMP" /\ f.blk = hit
      BY <2>1, <3>3 DEF Entries, States
    <3> HIDE DEF f, Q
    <3>5. QED  BY <2>1, <2>3, <3>1, <3>2, <3>4 DEF hit
  <2>4. CASE i \notin Passed /\ ~ (i = lsq_dcachei /\ dcache_refill = NoPacket) /\ i = Issues
    <3> DEFINE f == [lsq[i] EXCEPT !.state = "DCACHE"]
    <3>1. lsq[i].state = "ISSUE"  BY <1>2, <1>6, <2>4
    <3>2. Q(i) = f  BY <1>9, <2>4
    <3>3. /\ f \in Entries /\ f.op = lsq[i].op /\ f.addr = lsq[i].addr /\ f.bytes = lsq[i].bytes
          /\ f.byterdy = lsq[i].byterdy /\ f.early = lsq[i].early /\ f.ex = lsq[i].ex
          /\ f.state = "DCACHE" /\ f.blk = lsq[i].blk
      BY <2>1 DEF Entries, States
    <3> HIDE DEF f, Q
    <3>4. QED  BY <2>1, <2>4, <3>1, <3>2, <3>3
  <2>5. CASE i \notin Passed /\ ~ (i = lsq_dcachei /\ dcache_refill = NoPacket) /\ i # Issues
    <3>1. Q(i) = lsq[i]  BY <1>9, <2>5
    <3> HIDE DEF Q
    <3>2. QED  BY <2>1, <2>5, <3>1
  <2>6. QED  BY <2>2, <2>3, <2>4, <2>5
<1>10. lsq' \in Contents
  <2>1. \A i \in Slots : lsq'[i] \in Entries \cup {NoEntry}  BY <1>8, <1>9
  <2> HIDE DEF Q
  <2>2. QED  BY <1>3, <1>4, <2>1 DEF Contents
<1>11. QED  BY <1>8, <1>9, <1>10

\* The states after it.
LEMMA AdvanceStates ==
  ASSUME IInv, advance
  PROVE  /\ Held' = Held \ In({"DELAY1"})
         /\ In({"DELAY1"})' = Passed /\ In({"COMMIT"})' = In({"COMMIT"}) \ Passed
         /\ Known' = Known \ In({"DELAY1"})
         /\ In({"ISSUE"})' = {lsq_issuei'} \ {NoSlot}
         /\ In({"DCACHE"})' = {lsq_dcachei'} \ {NoSlot}
         /\ In({"DTAGCMP"})' = {lsq_dtagcmpi'} \ {NoSlot}
<1>1. TypeOK /\ Registers /\ Flow  BY DEF IInv
<1>2. Held \subseteq Slots /\ NoSlot \notin Slots  BY <1>1, HeldEntry, Size
<1> DEFINE D == In({"DELAY1"})
           moved == dcache_refill = NoPacket
<1>3. /\ \A i \in Slots \ (Held \ D) : lsq'[i] = NoEntry
      /\ \A i \in Held \ D :
           /\ lsq'[i] \in Entries
           /\ i \in Passed => lsq[i].state = "COMMIT" /\ lsq'[i].state = "DELAY1"
           /\ i = lsq_dcachei /\ dcache_refill = NoPacket =>
                lsq[i].state = "DCACHE" /\ lsq'[i].state = "DTAGCMP"
           /\ i = Issues => lsq[i].state = "ISSUE" /\ lsq'[i].state = "DCACHE"
           /\ i \notin Passed /\ ~ (i = lsq_dcachei /\ dcache_refill = NoPacket) /\ i # Issues =>
                lsq'[i].state = lsq[i].state
  BY AdvanceEntries
<1>4. stage = "advance"  BY DEF advance
<1>5. Passed \subseteq In({"COMMIT"})  BY <1>4, PassedFacts
<1>6. \A i \in Held : i \in D <=> lsq[i].state = "DELAY1"  BY DEF In
<1>7. Held' = Held \ D
  <2>1. \A i \in Held \ D : lsq'[i].state # "EMPTY"  BY <1>3, EntryFields
  <2>2. NoEntry.state = "EMPTY"  BY DEF NoEntry
  <2>3. \A i \in Slots : lsq'[i].state # "EMPTY" <=> i \in Held \ D  BY <1>2, <1>3, <2>1, <2>2
  <2>4. QED  BY <1>2, <2>3 DEF Held
<1>8. \A i \in Passed : i \in Held \ D  BY <1>5, <1>6 DEF In
<1>9. In({"DELAY1"})' = Passed
  <2>1. \A i \in Held \ D : lsq'[i].state = "DELAY1" <=> i \in Passed  BY <1>3, <1>6
  <2>2. QED  BY <1>7, <1>8, <2>1 DEF In
<1>10. In({"COMMIT"})' = In({"COMMIT"}) \ Passed
  <2>1. \A i \in Held \ D : lsq'[i].state = "COMMIT" <=> lsq[i].state = "COMMIT" /\ i \notin Passed
    BY <1>3
  <2>2. In({"COMMIT"}) \subseteq Held \ D  BY <1>6 DEF In
  <2>3. QED  BY <1>7, <2>1, <2>2 DEF In
<1>11. Known' = Known \ D
  <2>1. \A i \in Held \ D : lsq'[i].state \in {"READCACHE", "WRITEBACK", "COMMIT", "DELAY1"}
                            <=> lsq[i].state \in {"READCACHE", "WRITEBACK", "COMMIT", "DELAY1"}
    BY <1>3
  <2>2. QED  BY <1>7, <2>1 DEF Known, In
<1>12. /\ {lsq_issuei} \ {NoSlot} = In({"ISSUE"}) /\ {lsq_dcachei} \ {NoSlot} = In({"DCACHE"})
       /\ In({"DTAGCMP"}) = {} /\ lsq_dtagcmpi = NoSlot
  BY <1>1, <1>4 DEF Registers, Flow
<1>13. /\ lsq_issuei' = IF Issues = NoSlot THEN lsq_issuei ELSE NoSlot
       /\ IF dcache_refill = NoPacket /\ lsq_dcachei # NoSlot
          THEN lsq_dtagcmpi' = lsq_dcachei /\ lsq_dcachei' = Issues
          ELSE /\ lsq_dtagcmpi' = lsq_dtagcmpi
               /\ lsq_dcachei' = IF Issues = NoSlot THEN lsq_dcachei ELSE Issues
  BY DEF advance, Issues
<1>14. Issues = NoSlot \/ Issues = lsq_issuei  BY DEF Issues
<1>15. lsq_dcachei = NoSlot \/ (lsq_dcachei \in Held \ D /\ lsq[lsq_dcachei].state = "DCACHE" /\ lsq_dcachei \notin Passed)
  BY <1>5, <1>6, <1>12 DEF In
<1>16. Issues = NoSlot \/ (Issues \in Held \ D /\ lsq[Issues].state = "ISSUE" /\ Issues \notin Passed)
  BY <1>5, <1>6, <1>12, <1>14 DEF In
<1>17. dcache_refill # NoPacket => lsq_dcachei = NoSlot  BY <1>1 DEF Flow
<1>18. In({"ISSUE"})' = {lsq_issuei'} \ {NoSlot}
  <2>1. \A i \in Held \ D : lsq'[i].state = "ISSUE" <=> lsq[i].state = "ISSUE" /\ i # Issues
    BY <1>3
  <2>2. In({"ISSUE"})' = In({"ISSUE"}) \ {Issues}  BY <1>6, <1>7, <2>1 DEF In
  <2>3. QED  BY <1>12, <1>13, <1>14, <2>2
<1>19. In({"DTAGCMP"})' = {lsq_dtagcmpi'} \ {NoSlot}
  <2>1. \A i \in Held \ D : lsq'[i].state = "DTAGCMP" <=> i = lsq_dcachei /\ dcache_refill = NoPacket
    <3>1. \A i \in Held : lsq[i].state # "DTAGCMP"  BY <1>12 DEF In
    <3>2. QED  BY <1>3, <3>1
  <2>2. QED  BY <1>2, <1>7, <1>12, <1>13, <1>15, <2>1 DEF In
<1>20. In({"DCACHE"})' = {lsq_dcachei'} \ {NoSlot}
  <2>1. \A i \in Held \ D : lsq'[i].state = "DCACHE" <=>
          \/ i = Issues
          \/ i = lsq_dcachei /\ dcache_refill # NoPacket
    <3>1. \A i \in Held \ D : lsq[i].state = "DCACHE" => i = lsq_dcachei  BY <1>12 DEF In
    <3>2. \A i \in Held \ D : i = lsq_dcachei => lsq[i].state = "DCACHE" /\ i \notin Passed /\ i # Issues
      BY <1>2, <1>15, <1>16
    <3>3. QED  BY <1>3, <3>1, <3>2
  <2>2. \A i \in Held \ D : lsq'[i].state = "DCACHE" <=> i = Issues  BY <1>2, <1>17, <2>1
  <2>3. In({"DCACHE"})' = {Issues} \ {NoSlot}
    BY <1>2, <1>7, <1>16, <2>2 DEF In
  <2>4. lsq_dcachei' = Issues  BY <1>13, <1>17
  <2>5. QED  BY <2>3, <2>4
<1>21. QED  BY <1>7, <1>9, <1>10, <1>11, <1>18, <1>19, <1>20

\* The ring after it: what has left makes room in front, the head was next.
LEMMA AdvanceRing ==
  ASSUME IInv, advance
  PROVE  /\ lsq_head1' \in Slots /\ lsq_head' \in Slots /\ lsq_num' \in 0 .. lsq_ifq_size
         /\ \A i, j \in Held \ In({"DELAY1"}) : Age(i)' < Age(j)' <=> Age(i) < Age(j)
         /\ Placed'
<1>1. TypeOK /\ Placed  BY DEF IInv
<1>2. Held \subseteq Slots  BY <1>1, HeldEntry
<1> DEFINE D == In({"DELAY1"})
           d == Cardinality(D)
           N == lsq_ifq_size
           h == lsq_head1
<1>3. /\ stage = "advance" /\ stage' = "issue"
      /\ lsq_num' = lsq_num - d /\ lsq_head1' = (h + d) % N
      /\ lsq_head' = (lsq_head + Cardinality(Passed)) % N /\ lsq_tail' = lsq_tail
  BY DEF advance, Goto
<1>4. /\ N \in Nat \ {0} /\ h \in 0 .. N - 1 /\ Slots = 0 .. N - 1
      /\ lsq_num \in 0 .. N /\ lsq_head \in 0 .. N - 1
      /\ Held = {i \in Slots : Age(i) < lsq_num}
      /\ (h + lsq_num) % N = lsq_tail /\ (h + d) % N = lsq_head
  BY <1>1, Size DEF TypeOK, Placed
<1>5. \A i \in Slots : Age(i) = AgeOn(N, h, i) /\ Age(i) \in 0 .. N - 1  BY <1>1, Ages
<1>6. D \subseteq Held /\ D \in SUBSET (0 .. N - 1)  BY <1>2, <1>4 DEF In
<1>7. \A i \in D, j \in 0 .. N - 1 : AgeOn(N, h, j) < AgeOn(N, h, i) => j \in D
  <2>1. ASSUME NEW i \in D, NEW j \in 0 .. N - 1, AgeOn(N, h, j) < AgeOn(N, h, i) PROVE j \in D
    <3>1. Age(j) < Age(i) /\ Age(i) < lsq_num /\ i \in Slots /\ j \in Slots
      BY <1>2, <1>4, <1>5, <1>6, <2>1
    <3>2. j \in Held
      <4>1. Age(j) \in 0 .. N - 1 /\ Age(i) \in 0 .. N - 1  BY <1>5, <3>1
      <4>2. Age(j) < lsq_num  BY <1>4, <3>1, <4>1
      <4>3. QED  BY <1>4, <3>1, <4>2
    <3>3. j \in Older(i)  BY <3>1, <3>2 DEF Older
    <3>4. QED  BY <1>1, <3>3 DEF Placed
  <2>2. QED  BY <2>1
<1>8. d \in 0 .. N /\ D = WindowOn(N, h, 0, d)  BY <1>4, <1>6, <1>7, PrefixWindow
<1> HIDE DEF d
<1>9. \A i \in Slots : i \in D <=> Age(i) < d
  <2>1. ASSUME NEW i \in Slots PROVE i \in D <=> Age(i) < d
    <3>1. i \in D <=> 0 <= AgeOn(N, h, i) /\ AgeOn(N, h, i) < d  BY <1>4, <1>8 DEF WindowOn
    <3>2. Age(i) = AgeOn(N, h, i) /\ Age(i) \in 0 .. N - 1  BY <1>5
    <3>3. 0 <= Age(i)  BY <1>4, <3>2
    <3>4. QED  BY <3>1, <3>2, <3>3
  <2>2. QED  BY <2>1
<1>10. d <= lsq_num
  <2>1. CASE d = 0  BY <1>4, <2>1
  <2>2. CASE d # 0
    <3> DEFINE z == (h + (d - 1)) % N
    <3>1. d - 1 \in 0 .. N - 1  BY <1>4, <1>8, <2>2
    <3>2. z \in 0 .. N - 1 /\ AgeOn(N, h, z) = d - 1  BY <1>4, <3>1, SlotOfAge
    <3> HIDE DEF z
    <3>3. z \in Slots /\ Age(z) = d - 1  BY <1>4, <1>5, <3>2
    <3>4. z \in D  BY <1>8, <1>9, <3>3
    <3>5. d - 1 < lsq_num  BY <1>4, <1>6, <3>3, <3>4
    <3>6. QED  BY <1>4, <1>8, <3>5
  <2>3. QED  BY <2>1, <2>2
<1>11. lsq_head1' = lsq_head  BY <1>3, <1>4
<1>12. \A i \in Slots : Age(i)' = IF Age(i) >= d THEN Age(i) - d ELSE Age(i) - d + N
  <2>1. ASSUME NEW i \in Slots
        PROVE  Age(i)' = IF Age(i) >= d THEN Age(i) - d ELSE Age(i) - d + N
    <3>1. Age(i)' = AgeOn(N, lsq_head1', i)  BY DEF Age, AgeOn
    <3>2. AgeOn(N, (h + d) % N, i) = IF AgeOn(N, h, i) >= d THEN AgeOn(N, h, i) - d ELSE AgeOn(N, h, i) - d + N
      BY <1>4, <1>8, AgeShift
    <3>3. Age(i)' = AgeOn(N, (h + d) % N, i)  BY <1>3, <3>1
    <3>4. Age(i) = AgeOn(N, h, i)  BY <1>5
    <3>5. QED  BY <3>2, <3>3, <3>4
  <2>2. QED  BY <2>1
<1>13. \A i \in Slots : Age(i) \in 0 .. N - 1  BY <1>5
<1>14. \A i, j \in Held \ D : Age(i)' < Age(j)' <=> Age(i) < Age(j)
  <2>1. ASSUME NEW i \in Held \ D, NEW j \in Held \ D PROVE Age(i)' < Age(j)' <=> Age(i) < Age(j)
    <3>1. i \in Slots /\ j \in Slots  BY <1>2
    <3>2. Age(i) \in Int /\ Age(j) \in Int /\ d \in Int  BY <1>4, <1>8, <1>13, <3>1
    <3>3. ~ (Age(i) < d) /\ ~ (Age(j) < d)  BY <1>9, <3>1
    <3>4. Age(i) >= d /\ Age(j) >= d  BY <3>2, <3>3
    <3>5. Age(i)' = Age(i) - d /\ Age(j)' = Age(j) - d  BY <1>12, <3>1, <3>4
    <3>6. QED  BY <3>2, <3>5
  <2>2. QED  BY <2>1
<1>15. /\ Held' = Held \ D /\ In({"DELAY1"})' = Passed /\ In({"COMMIT"})' = In({"COMMIT"}) \ Passed
  BY AdvanceStates
<1>16. lsq_num' \in 0 .. N  BY <1>3, <1>4, <1>8, <1>10
<1>17. Held' = {i \in Slots : Age(i) < lsq_num}'
  <2>1. ASSUME NEW i \in Slots PROVE i \in Held \ D <=> Age(i)' < lsq_num'
    <3>1. Age(i) \in 0 .. N - 1 /\ (i \in D <=> Age(i) < d) /\ (i \in Held <=> Age(i) < lsq_num)
      BY <1>4, <1>9, <1>13
    <3>2. CASE Age(i) >= d
      <4>1. Age(i)' = Age(i) - d  BY <1>12, <3>2
      <4>2. QED  BY <1>3, <1>4, <1>8, <3>1, <3>2, <4>1
    <3>3. CASE ~ (Age(i) >= d)
      <4>1. Age(i)' = Age(i) - d + N  BY <1>12, <3>3
      <4>2. QED  BY <1>3, <1>4, <1>8, <3>1, <3>3, <4>1
    <3>4. QED  BY <3>2, <3>3
  <2>2. QED  BY <1>2, <1>15, <2>1
<1>18. ((lsq_head1 + lsq_num) % lsq_ifq_size = lsq_tail)'
  <2>1. lsq_num - d \in 0 .. N  BY <1>4, <1>8, <1>10
  <2>2. (((h + d) % N) + (lsq_num - d)) % N = (h + d + (lsq_num - d)) % N
    BY <1>4, <1>8, <2>1, StepsAdd
  <2>3. h + d + (lsq_num - d) = h + lsq_num  BY <1>4, <1>8
  <2>4. QED  BY <1>3, <1>4, <2>2, <2>3
<1>19. ((lsq_head1 + Cardinality(In({"DELAY1"}))) % lsq_ifq_size = lsq_head)'
  BY <1>3, <1>11, <1>15
<1>20. (\A i \in In({"DELAY1"}) : Older(i) \subseteq In({"DELAY1"}))'
  <2>1. ASSUME NEW i \in Passed, NEW j \in Older(i)' PROVE j \in Passed
    <3>1. j \in Held' /\ Age(j)' < Age(i)'  BY DEF Older
    <3>2. j \in Slots /\ i \in Slots  BY <1>2, <1>3, <1>15, <3>1, PassedFacts DEF In
    <3>3. AgeOn(N, lsq_head, j) < AgeOn(N, lsq_head, i)
      <4>1. Age(j)' = AgeOn(N, lsq_head1', j) /\ Age(i)' = AgeOn(N, lsq_head1', i)  BY DEF Age, AgeOn
      <4>2. QED  BY <1>11, <3>1, <4>1
    <3>4. QED  BY <1>3, <3>2, <3>3, PassedFacts
  <2>2. QED  BY <1>15, <2>1
<1>21. (\A i \in In({"COMMIT"}) : Older(i) \subseteq Retired)'
  <2>1. ASSUME NEW i \in In({"COMMIT"}), i \notin Passed, NEW j \in Older(i)'
        PROVE  j \in Retired'
    <3>1. j \in Held \ D /\ Age(j)' < Age(i)'  BY <1>15 DEF Older
    <3>2. i \in Held \ D  BY <2>1 DEF In
    <3>3. j \in Older(i)  BY <1>14, <3>1, <3>2 DEF Older
    <3>4. j \in Retired  BY <1>1, <2>1, <3>3 DEF Placed
    <3>5. j \in In({"COMMIT"})  BY <3>1, <3>4 DEF Retired, In
    <3>6. j \in In({"COMMIT"})' \/ j \in In({"DELAY1"})'  BY <1>15, <3>5
    <3>7. QED  BY <3>6 DEF Retired, In
  <2>2. QED  BY <1>15, <2>1
<1>22. lsq_head' \in Slots
  <2>1. Passed \in SUBSET (0 .. N - 1)  BY <1>2, <1>3, <1>4, PassedFacts DEF In
  <2>2. \A i \in Passed, j \in 0 .. N - 1 :
          AgeOn(N, lsq_head, j) < AgeOn(N, lsq_head, i) => j \in Passed
    BY <1>3, <1>4, PassedFacts
  <2>3. Cardinality(Passed) \in 0 .. N  BY <1>4, <2>1, <2>2, PrefixWindow
  <2>4. (lsq_head + Cardinality(Passed)) % N \in 0 .. N - 1  BY <1>4, <2>3, SlotAt
  <2>5. QED  BY <1>3, <1>4, <2>4
<1>23. Placed'
  <2>1. ~ (stage = "map" /\ n > 0)'  BY <1>3
  <2>2. QED  BY <1>17, <1>18, <1>19, <1>20, <1>21, <2>1 DEF Placed
<1>24. lsq_head1' \in Slots  BY <1>4, <1>11
<1>25. QED  BY <1>14, <1>16, <1>22, <1>23, <1>24

\* What a packet does to the data cache.
LEMMA PacketEffect ==
  ASSUME TypeOK, NEW p \in Packets
  PROVE  /\ AfterPacket(p) \in [Addrs -> Statuses]
         /\ \A a \in Addrs : AfterPacket(p)[a] = "EXCLUSIVE" => dcache[a] = "EXCLUSIVE" \/ Grants(p, a)
         /\ \A a \in Addrs : dcache[a] = "EXCLUSIVE" =>
              \/ AfterPacket(p)[a] = "EXCLUSIVE"
              \/ p.kind \in Takes /\ p.addr = a
              \/ Refills(p, a)
         /\ p.kind \in Takes /\ p.addr \in Addrs => AfterPacket(p)[p.addr] # "EXCLUSIVE"
         /\ p.kind = "refill" => AfterPacket(p)[p.addr] = p.status
         /\ p = NoPacket => AfterPacket(p) = dcache
<1>1. dcache \in [Addrs -> Statuses] /\ {"INVALID", "SHARED", "EXCLUSIVE"} \subseteq Statuses
  BY DEF TypeOK, Statuses
<1>2. /\ p.kind \in {"none", "refill"} \cup Takes
      /\ p.kind = "none" <=> p = NoPacket
      /\ p.kind \in {"shared", "exclusive"} => p.addr \in Addrs
      /\ p.kind = "refill" => p.addr \in Addrs /\ p.status \in Statuses
  BY PacketFields
<1>3. CASE p.kind = "none"
  <2>1. AfterPacket(p) = dcache  BY <1>3 DEF AfterPacket
  <2>2. QED  BY <1>1, <1>2, <1>3, <2>1 DEF Takes
<1>4. CASE p.kind = "replace"
  <2>1. AfterPacket(p) = [a \in Addrs |-> IF a = p.addr THEN "INVALID" ELSE dcache[a]]
    BY <1>4 DEF AfterPacket
  <2>2. QED  BY <1>1, <1>2, <1>4, <2>1 DEF Takes
<1>5. CASE p.kind = "exclusive"
  <2>1. AfterPacket(p) = [dcache EXCEPT ![p.addr] = "INVALID"]  BY <1>5 DEF AfterPacket
  <2>2. QED  BY <1>1, <1>2, <1>5, <2>1 DEF Takes
<1>6. CASE p.kind = "shared"
  <2>1. AfterPacket(p) = [dcache EXCEPT ![p.addr] = IF @ = "INVALID" THEN @ ELSE "SHARED"]
    BY <1>6 DEF AfterPacket
  <2>2. QED  BY <1>1, <1>2, <1>6, <2>1 DEF Takes
<1>7. CASE p.kind = "refill"
  <2>1. AfterPacket(p) = [dcache EXCEPT ![p.addr] = p.status]  BY <1>7 DEF AfterPacket
  <2>2. QED  BY <1>1, <1>2, <1>7, <2>1 DEF Takes, Grants, Refills
<1>8. QED  BY <1>2, <1>3, <1>4, <1>5, <1>6, <1>7 DEF Takes

\* The pipeline in front of the tag comparison advances.
LEMMA AdvanceKeeps ==
  ASSUME IInv, advance
  PROVE  IInv'
<1>1. TypeOK /\ Placed /\ Registers /\ Chosen /\ Flow /\ Owned /\ Believed /\ Early /\ Writing
  BY DEF IInv
<1>2. /\ stage = "advance" /\ stage' = "issue" /\ n' = 0
      /\ dcache' = AfterPacket(dcache_refill)
      /\ replace_delay' = IF dcache_refill.kind \in {"replace", "shared", "exclusive"} THEN 2
                          ELSE IF replace_delay > 0 THEN replace_delay - 1 ELSE 0
      /\ dtagcmp_refill' = dcache_refill /\ dcache_refill' = lsq_refill /\ lsq_refill' = NoPacket
      /\ dcachewrite' = FALSE
      /\ lsq_tail' = lsq_tail /\ lsq_missi' = lsq_missi /\ lsq_wtbki' = lsq_wtbki
      /\ refill_delay' = refill_delay /\ wanted' = wanted /\ refilling' = refilling
  BY DEF advance, Goto
<1>3. Held \subseteq Slots /\ NoSlot \notin Slots /\ (\A i \in Held : lsq[i] \in Entries)
  BY <1>1, HeldEntry, Size
<1> DEFINE D == In({"DELAY1"})
<1>4. /\ lsq' \in Contents
      /\ \A i \in Held \ D :
           /\ lsq'[i] \in Entries
           /\ lsq'[i].op = lsq[i].op /\ lsq'[i].addr = lsq[i].addr /\ lsq'[i].bytes = lsq[i].bytes
           /\ lsq'[i].byterdy = lsq[i].byterdy /\ lsq'[i].early = lsq[i].early /\ lsq'[i].ex = lsq[i].ex
           /\ i \in Passed => lsq[i].state = "COMMIT" /\ lsq'[i].state = "DELAY1" /\ lsq'[i].blk = lsq[i].blk
           /\ i = lsq_dcachei /\ dcache_refill = NoPacket =>
                lsq[i].state = "DCACHE" /\ lsq'[i].state = "DTAGCMP" /\ lsq'[i].blk = CacheHit(lsq[i])
           /\ i = Issues => lsq[i].state = "ISSUE" /\ lsq'[i].state = "DCACHE" /\ lsq'[i].blk = lsq[i].blk
           /\ i \notin Passed /\ ~ (i = lsq_dcachei /\ dcache_refill = NoPacket) /\ i # Issues =>
                lsq'[i].state = lsq[i].state /\ lsq'[i].blk = lsq[i].blk
  BY AdvanceEntries
<1>5. /\ Held' = Held \ D
      /\ In({"DELAY1"})' = Passed /\ In({"COMMIT"})' = In({"COMMIT"}) \ Passed
      /\ Known' = Known \ D
      /\ In({"ISSUE"})' = {lsq_issuei'} \ {NoSlot}
      /\ In({"DCACHE"})' = {lsq_dcachei'} \ {NoSlot}
      /\ In({"DTAGCMP"})' = {lsq_dtagcmpi'} \ {NoSlot}
  BY AdvanceStates
<1>6. /\ lsq_head1' \in Slots /\ lsq_head' \in Slots /\ lsq_num' \in 0 .. lsq_ifq_size
      /\ \A i, j \in Held \ D : Age(i)' < Age(j)' <=> Age(i) < Age(j)
      /\ Placed'
  BY AdvanceRing
<1>7. /\ lsq_issuei' = IF Issues = NoSlot THEN lsq_issuei ELSE NoSlot
      /\ IF dcache_refill = NoPacket /\ lsq_dcachei # NoSlot
         THEN lsq_dtagcmpi' = lsq_dcachei /\ lsq_dcachei' = Issues
         ELSE /\ lsq_dtagcmpi' = lsq_dtagcmpi
              /\ lsq_dcachei' = IF Issues = NoSlot THEN lsq_dcachei ELSE Issues
  BY DEF advance, Issues
<1>8. dcache_refill \in Packets /\ lsq_refill \in Packets /\ NoPacket \in Packets
  BY <1>1 DEF TypeOK, Packets
<1>9. /\ dcache' \in [Addrs -> Statuses]
      /\ \A a \in Addrs : dcache'[a] = "EXCLUSIVE" => dcache[a] = "EXCLUSIVE" \/ Grants(dcache_refill, a)
      /\ \A a \in Addrs : dcache[a] = "EXCLUSIVE" =>
           \/ dcache'[a] = "EXCLUSIVE"
           \/ dcache_refill.kind \in Takes /\ dcache_refill.addr = a
           \/ Refills(dcache_refill, a)
      /\ dcache_refill.kind \in Takes /\ dcache_refill.addr \in Addrs => dcache'[dcache_refill.addr] # "EXCLUSIVE"
      /\ dcache_refill.kind = "refill" => dcache'[dcache_refill.addr] = dcache_refill.status
      /\ dcache_refill = NoPacket => dcache' = dcache
  BY <1>1, <1>2, <1>8, PacketEffect
<1>10. dtagcmp_refill = NoPacket /\ \A a : ~ Grants(dtagcmp_refill, a)
  BY <1>1, <1>2 DEF Flow, Grants, NoPacket
<1>11. NoPacket.kind = "none" /\ "none" \notin Takes /\ "none" # "refill"  BY DEF NoPacket, Takes
<1>12. TypeOK'
  <2>1. stage' \in Stages /\ n' \in 0 .. map_width  BY <1>2, Size DEF Stages
  <2>2. {lsq_issuei', lsq_dcachei', lsq_dtagcmpi'} \subseteq Slots \cup {NoSlot}
    <3>1. Issues \in Slots \cup {NoSlot}  BY <1>1 DEF TypeOK, Issues
    <3>2. QED  BY <1>1, <1>7, <3>1 DEF TypeOK
  <2>3. replace_delay' \in 0 .. 2
    <3>1. replace_delay \in 0 .. 2  BY <1>1 DEF TypeOK
    <3>2. CASE dcache_refill.kind \in {"replace", "shared", "exclusive"}  BY <1>2, <3>2
    <3>3. CASE ~ (dcache_refill.kind \in {"replace", "shared", "exclusive"}) /\ replace_delay > 0
      <4>1. replace_delay' = replace_delay - 1  BY <1>2, <3>3
      <4>2. QED  BY <3>1, <3>3, <4>1
    <3>4. CASE ~ (dcache_refill.kind \in {"replace", "shared", "exclusive"}) /\ ~ (replace_delay > 0)
      BY <1>2, <3>4
    <3>5. QED  BY <3>2, <3>3, <3>4
  <2>4. lsq' \in [Slots -> Entries \cup {NoEntry}]  BY <1>4 DEF Contents
  <2>5. lsq_tail' \in Slots /\ {lsq_missi', lsq_wtbki'} \subseteq Slots \cup {NoSlot}
    BY <1>1, <1>2 DEF TypeOK
  <2>6. {lsq_refill', dcache_refill', dtagcmp_refill'} \subseteq Packets  BY <1>2, <1>8
  <2>7. /\ refilling' \subseteq Packets /\ Cardinality(refilling') <= 1
        /\ refill_delay' \in 0 .. refill_cycles /\ wanted' \in [Addrs -> SUBSET Requests]
    BY <1>1, <1>2 DEF TypeOK
  <2>8. dcachewrite' \in BOOLEAN  BY <1>2
  <2>9. QED  BY <1>6, <1>9, <2>1, <2>2, <2>3, <2>4, <2>5, <2>6, <2>7, <2>8 DEF TypeOK
<1>13. Registers'  BY <1>5 DEF Registers
<1>14. \A i \in Known : i \in Held /\ lsq[i].state \in {"READCACHE", "WRITEBACK", "COMMIT", "DELAY1"}
  BY DEF Known, In
<1>15. \A i \in Held : i \in D <=> lsq[i].state = "DELAY1"  BY DEF In
<1>16. \A i \in Known \ D : lsq'[i].blk = lsq[i].blk /\ lsq'[i].op = lsq[i].op
                           /\ lsq'[i].addr = lsq[i].addr /\ lsq'[i].byterdy = lsq[i].byterdy
  BY <1>4, <1>14
<1>17. \A i \in Held \ D : lsq[i].state \in {"READCACHE", "WRITEBACK"} => lsq'[i].state = lsq[i].state
  BY <1>4
<1>18. Chosen'
  <2>1. lsq_wtbki # NoSlot => lsq'[lsq_wtbki].state = "READCACHE"
    <3>1. lsq_wtbki # NoSlot => lsq_wtbki \in Slots /\ lsq[lsq_wtbki].state = "READCACHE"
      BY <1>1, <1>2 DEF Chosen, TypeOK
    <3>2. lsq_wtbki # NoSlot => lsq_wtbki \in Held \ D  BY <1>15, <3>1 DEF Held
    <3>3. QED  BY <1>17, <3>1, <3>2
  <2>2. lsq_missi # NoSlot => lsq_missi \in Known \ D /\ ~ lsq'[lsq_missi].blk /\ lsq'[lsq_missi].op # "move"
    BY <1>1, <1>2, <1>16 DEF Chosen
  <2>3. QED  BY <1>2, <1>5, <2>1, <2>2 DEF Chosen
<1>19. Flow'
  <2>1. lsq_refill # NoPacket => lsq_dcachei' = NoSlot
    <3>1. lsq_refill # NoPacket => Issues = NoSlot  BY DEF Issues
    <3>2. dcache_refill # NoPacket => lsq_dcachei = NoSlot  BY <1>1 DEF Flow
    <3>3. QED  BY <1>7, <3>1, <3>2
  <2>2. dcache_refill # NoPacket => lsq_dtagcmpi' = NoSlot
    BY <1>1, <1>2, <1>7 DEF Flow
  <2>3. dcache_refill.kind \in Takes => replace_delay' > 0  BY <1>2 DEF Takes
  <2>4. QED  BY <1>1, <1>2, <1>9, <1>11, <2>1, <2>2, <2>3 DEF Flow
<1>20. Owned'
  <2>1. \A a : ~ Refills(lsq_refill', a) /\ ~ Grants(lsq_refill', a)  BY <1>2, <1>11 DEF Refills, Grants
  <2>2. ASSUME NEW a \in Addrs
        PROVE  /\ dcache'[a] = "EXCLUSIVE" =>
                    /\ wanted'[a] = {} /\ ~ Refills(dcache_refill', a) /\ ~ Refills(lsq_refill', a)
                    /\ \A p \in refilling' : ~ Refills(p, a)
               /\ Grants(dcache_refill', a) =>
                    wanted'[a] = {} /\ ~ Refills(lsq_refill', a) /\ \A p \in refilling' : ~ Refills(p, a)
               /\ ~ Grants(lsq_refill', a)
               /\ \A p \in refilling' : Grants(p, a) => wanted'[a] = {}
    <3>1. /\ dcache[a] = "EXCLUSIVE" \/ Grants(dcache_refill, a) =>
               wanted[a] = {} /\ ~ Refills(lsq_refill, a) /\ \A p \in refilling : ~ Refills(p, a)
          /\ Grants(lsq_refill, a) => wanted[a] = {} /\ \A p \in refilling : ~ Refills(p, a)
          /\ \A p \in refilling : Grants(p, a) => wanted[a] = {}
      BY <1>1 DEF Owned
    <3>2. QED  BY <1>2, <1>9, <2>1, <3>1
  <2>3. QED  BY <2>2 DEF Owned, Refills, Grants
<1>21. Believed'
  <2>1. ASSUME NEW i \in Known'
        PROVE  /\ lsq'[i].blk => lsq'[i].byterdy = Bytes
               /\ lsq'[i].op = "store" /\ ~ lsq'[i].blk => lsq'[i].byterdy # Bytes
    <3>1. i \in Known \ D  BY <1>5
    <3>2. QED  BY <1>1, <1>16, <3>1 DEF Believed
  <2>2. ASSUME NEW i \in Known' \cup In({"DTAGCMP"})'
        PROVE  /\ lsq'[i].op # "move" /\ dcache'[lsq'[i].addr] = "EXCLUSIVE" =>
                    lsq'[i].blk \/ Grants(dtagcmp_refill', lsq'[i].addr)
               /\ lsq'[i].op = "store" /\ lsq'[i].blk =>
                    \/ dcache'[lsq'[i].addr] = "EXCLUSIVE"
                    \/ dtagcmp_refill'.kind \in Takes /\ dtagcmp_refill'.addr = lsq'[i].addr
    <3>1. CASE i \in Known'
      <4>1. i \in Known \ D  BY <1>5, <3>1
      <4> DEFINE a == lsq[i].addr
      <4>2. a \in Addrs  BY <1>3, <1>14, <4>1, EntryFields
      <4>3. /\ lsq[i].op # "move" /\ dcache[a] = "EXCLUSIVE" => lsq[i].blk
            /\ lsq[i].op = "store" /\ lsq[i].blk => dcache[a] = "EXCLUSIVE"
        BY <1>10, <4>1, Settled
      <4>4. dcache[a] = "EXCLUSIVE" => ~ Refills(dcache_refill, a)  BY <1>1, <4>2 DEF Owned
      <4>5. lsq'[i].addr = a /\ lsq'[i].op = lsq[i].op /\ lsq'[i].blk = lsq[i].blk  BY <1>16, <4>1
      <4> HIDE DEF a
      <4>6. QED  BY <1>2, <1>9, <4>2, <4>3, <4>4, <4>5
    <3>2. CASE i \notin Known'
      <4>1. i = lsq_dtagcmpi' /\ i # NoSlot  BY <1>5, <3>2
      <4>2. i = lsq_dcachei /\ dcache_refill = NoPacket  BY <1>1, <1>2, <1>7, <4>1 DEF Flow
      <4>3. i \in Held \ D
        <5>1. i \in In({"DCACHE"})  BY <1>1, <4>1, <4>2 DEF Registers
        <5>2. QED  BY <5>1 DEF In
      <4>4. lsq'[i].op = lsq[i].op /\ lsq'[i].addr = lsq[i].addr /\ lsq'[i].blk = CacheHit(lsq[i])
        BY <1>4, <4>2, <4>3
      <4>5. lsq[i].op \in Ops  BY <1>3, <4>3, EntryFields
      <4>6. dcache' = dcache  BY <1>9, <4>2
      <4>7. QED  BY <4>4, <4>5, <4>6 DEF CacheHit, Ops
    <3>3. QED  BY <3>1, <3>2
  <2>3. QED  BY <2>1, <2>2 DEF Believed, Grants
<1>22. Early'
  <2>1. ASSUME NEW i \in Held \ D, lsq'[i].early
        PROVE  /\ lsq'[i].op = "load"
               /\ \/ lsq'[i].state = "WRITEBACK"
                  \/ lsq'[i].state = "READCACHE" /\ i = lsq_wtbki' /\ stage' \notin {"cache2mem", "dtagcmp"}
               /\ lsq'[i].ex \/ \E j \in Slots, b \in lsq'[i].bytes : Hidden(i, j, b)'
    <3>1. /\ lsq[i].op = "load"
          /\ lsq[i].state = "WRITEBACK" \/ (lsq[i].state = "READCACHE" /\ i = lsq_wtbki)
          /\ lsq[i].ex \/ \E j \in Slots, b \in lsq[i].bytes : Hidden(i, j, b)
      BY <1>1, <1>4, <2>1 DEF Early
    <3>2. /\ lsq'[i].op = lsq[i].op /\ lsq'[i].bytes = lsq[i].bytes /\ lsq'[i].ex = lsq[i].ex
          /\ lsq'[i].addr = lsq[i].addr
      BY <1>4
    <3>3. ASSUME NEW j \in Slots, NEW b \in lsq[i].bytes, Hidden(i, j, b)
          PROVE  Hidden(i, j, b)'
      <4>1. /\ j \in Older(i) /\ lsq[j].op = "store" /\ lsq[j].addr = lsq[i].addr /\ b \in lsq[j].bytes
            /\ j \notin Known
            /\ \A k \in Between(j, i) :
                 lsq[k].op = "store" /\ lsq[k].addr = lsq[i].addr => b \notin lsq[k].bytes
        BY <3>3 DEF Hidden
      <4>2. j \in Held \ D
        <5>1. j \in Held  BY <4>1 DEF Older
        <5>2. D \subseteq Known  BY DEF Known, In
        <5>3. QED  BY <4>1, <5>1, <5>2
      <4>3. j \in Older(i)'  BY <1>5, <1>6, <4>1, <4>2 DEF Older
      <4>4. \A k \in Between(j, i)' : k \in Between(j, i) /\ k \in Held \ D
        <5>1. ASSUME NEW k \in Between(j, i)' PROVE k \in Between(j, i) /\ k \in Held \ D
          <6>1. k \in Held' /\ Age(k)' > Age(j)' /\ Age(k)' < Age(i)'  BY DEF Between, Younger, Older
          <6>2. k \in Held \ D  BY <1>5, <6>1
          <6>3. \A x \in Held \ D : Age(x)' \in Int /\ Age(x) \in Int
            <7>1. \A x \in Slots : Age(x) \in Int  BY <1>1, Ages, Size
            <7>2. \A x \in Slots : Age(x)' \in Int
              <8>1. TypeOK'  BY <1>12
              <8>2. \A x \in Slots : (Age(x) \in 0 .. lsq_ifq_size - 1)'
                <9>1. lsq_head1' \in 0 .. lsq_ifq_size - 1 /\ Slots = 0 .. lsq_ifq_size - 1  BY <1>6, Size
                <9>2. \A x \in Slots : AgeOn(lsq_ifq_size, lsq_head1', x) \in 0 .. lsq_ifq_size - 1
                  BY <9>1, AgeValue, Size
                <9>3. QED  BY <9>2 DEF Age, AgeOn
              <8>3. QED  BY <8>2, Size
            <7>3. QED  BY <1>3, <7>1, <7>2
          <6>4. Age(j)' < Age(k)'  BY <4>2, <6>1, <6>2, <6>3
          <6>5. Age(j) < Age(k) /\ Age(k) < Age(i)  BY <1>6, <4>2, <6>1, <6>2, <6>4
          <6>6. Age(k) > Age(j)  BY <4>2, <6>2, <6>3, <6>5
          <6>7. QED  BY <6>2, <6>5, <6>6 DEF Between, Younger, Older
        <5>2. QED  BY <5>1
      <4>5. QED  BY <1>4, <1>5, <3>2, <4>1, <4>2, <4>3, <4>4 DEF Hidden
    <3>4. lsq'[i].state = lsq[i].state  BY <1>17, <3>1
    <3>5. QED  BY <1>2, <3>1, <3>2, <3>3, <3>4
  <2>2. QED  BY <1>5, <2>1 DEF Early
<1>23. Writing'  BY <1>1, <1>4, <1>5 DEF Writing
<1>24. QED  BY <1>6, <1>12, <1>13, <1>18, <1>19, <1>20, <1>21, <1>22, <1>23 DEF IInv

-----------------------------------------------------------------------------
(***************************************************************************)
(* The theorems.                                                           *)
(***************************************************************************)

LEMMA Start == Init => IInv
<1> SUFFICES ASSUME Init PROVE IInv
  OBVIOUS
<1>1. lsq = [i \in Slots |-> NoEntry] /\ NoEntry.state = "EMPTY"  BY DEF Init, NoEntry
<1>2. Held = {} /\ \A S : In(S) = {}  BY <1>1 DEF Held, In
<1>3. /\ lsq_ifq_size \in Nat \ {0} /\ map_width \in 1 .. lsq_ifq_size /\ Slots = 0 .. lsq_ifq_size - 1
      /\ NoSlot \notin Slots /\ refill_cycles \in Nat
  BY Size
<1>4. /\ stage = "commit" /\ n = 0 /\ lsq_head1 = 0 /\ lsq_head = 0 /\ lsq_tail = 0 /\ lsq_num = 0
      /\ lsq_issuei = NoSlot /\ lsq_dcachei = NoSlot /\ lsq_dtagcmpi = NoSlot
      /\ lsq_missi = NoSlot /\ lsq_wtbki = NoSlot
      /\ lsq_refill = NoPacket /\ dcache_refill = NoPacket /\ dtagcmp_refill = NoPacket
      /\ dcachewrite = FALSE /\ replace_delay = 0 /\ refill_delay = 0
      /\ dcache = [a \in Addrs |-> "INVALID"] /\ wanted = [a \in Addrs |-> {}]
      /\ refilling = {}
  BY DEF Init
<1>5. NoPacket.kind = "none" /\ NoPacket \in Packets  BY DEF NoPacket, Packets
<1>6. TypeOK
  <2>1. lsq \in [Slots -> Entries \cup {NoEntry}]  BY <1>1
  <2>2. 0 \in Slots /\ 0 \in 0 .. lsq_ifq_size /\ 0 \in 0 .. map_width /\ 0 \in 0 .. refill_cycles  BY <1>3
  <2>3. Cardinality(refilling) <= 1  BY <1>4, FS_EmptySet
  <2>4. dcache \in [Addrs -> Statuses] /\ wanted \in [Addrs -> SUBSET Requests]  BY <1>4 DEF Statuses
  <2>5. stage \in Stages /\ n \in 0 .. map_width  BY <1>4, <2>2 DEF Stages
  <2>6. {lsq_head1, lsq_head, lsq_tail} \subseteq Slots /\ lsq_num \in 0 .. lsq_ifq_size
    BY <1>4, <2>2
  <2>7. {lsq_issuei, lsq_dcachei, lsq_dtagcmpi, lsq_missi, lsq_wtbki} \subseteq Slots \cup {NoSlot}
    BY <1>4
  <2>8. {lsq_refill, dcache_refill, dtagcmp_refill} \subseteq Packets /\ refilling \subseteq Packets
    BY <1>4, <1>5
  <2>9. dcachewrite \in BOOLEAN /\ replace_delay \in 0 .. 2 /\ refill_delay \in 0 .. refill_cycles
    <3>1. dcachewrite \in BOOLEAN  BY <1>4
    <3>2. replace_delay \in 0 .. 2  BY <1>4
    <3>3. refill_delay \in 0 .. refill_cycles  BY <1>4, <2>2
    <3>4. QED  BY <3>1, <3>2, <3>3
  <2>10. QED  BY <2>1, <2>3, <2>4, <2>5, <2>6, <2>7, <2>8, <2>9 DEF TypeOK
<1>7. Placed
  <2>1. ASSUME NEW i \in Slots PROVE ~ (Age(i) < lsq_num)
    <3>1. Age(i) \in 0 .. lsq_ifq_size - 1  BY <1>6, Ages
    <3>2. QED  BY <1>3, <1>4, <3>1
  <2>2. Cardinality(In({"DELAY1"})) = 0  BY <1>2, FS_EmptySet
  <2>3. (0 + 0) % lsq_ifq_size = 0  BY <1>3
  <2>4. QED  BY <1>2, <1>4, <2>1, <2>2, <2>3 DEF Placed
<1>8. Registers  BY <1>2, <1>4 DEF Registers
<1>9. Chosen  BY <1>4 DEF Chosen
<1>10. Flow  BY <1>4, <1>5 DEF Flow, Takes
<1>11. Owned  BY <1>4, <1>5 DEF Owned, Refills, Grants
<1>12. Believed  BY <1>2 DEF Believed, Known
<1>13. Early /\ Writing  BY <1>2 DEF Early, Writing
<1>14. QED  BY <1>6, <1>7, <1>8, <1>9, <1>10, <1>11, <1>12, <1>13 DEF IInv

LEMMA Step == IInv /\ [Next]_vars => IInv'
<1> SUFFICES ASSUME IInv, [Next]_vars PROVE IInv'
  OBVIOUS
<1>1. CASE commit  BY <1>1, CommitKeeps
<1>2. CASE commit_end \/ pipeline_flush \/ brerr_recover  BY <1>2, FlushKeeps
<1>3. CASE cache2mem  BY <1>3, MemoryKeeps
<1>4. CASE dtagcmp_packet  BY <1>4, PacketKeeps
<1>5. CASE dtagcmp_nothing  BY <1>5, NothingKeeps
<1>6. CASE \E i \in Slots : dtagcmp_load(i) \/ dtagcmp_store(i) \/ dtagcmp_move(i)
  BY <1>6, LoadKeeps, StoreKeeps, MoveKeeps
<1>7. CASE advance  BY <1>7, AdvanceKeeps
<1>8. CASE lsq_issue  BY <1>8, IssueKeeps
<1>9. CASE issue_none  BY <1>9, IdleKeeps DEF issue_none, Goto
<1>10. CASE lsq_enqueue  BY <1>10, EnqueueKeeps
<1>11. CASE map_end  BY <1>11, IdleKeeps DEF map_end, Goto
<1>12. CASE UNCHANGED vars  BY <1>12, IdleKeeps DEF vars
<1>13. QED
  BY <1>1, <1>2, <1>3, <1>4, <1>5, <1>6, <1>7, <1>8, <1>9, <1>10, <1>11, <1>12 DEF Next

LEMMA Invariance == Spec => []IInv
BY Start, Step, PTL DEF Spec

\* The type invariant: the ring, the registers of the pipeline and the packets
\* stay in range.
THEOREM TypeCorrect == Spec => []TypeOK
<1>1. IInv => TypeOK  BY DEF IInv
<1>2. QED  BY <1>1, Invariance, PTL

\* The ring of lsq.c: its counters, its order and the registers of the pipeline
\* agree with the states of the entries, through squashes of any length.
THEOREM RingCorrect == Spec => []RingAgrees
<1>1. IInv => RingAgrees
  <2> SUFFICES ASSUME IInv PROVE RingAgrees
    OBVIOUS
  <2>1. TypeOK /\ Placed /\ Registers /\ Chosen  BY DEF IInv
  <2>2. lsq_num \in 0 .. lsq_ifq_size /\ Held = {i \in Slots : Age(i) < lsq_num}
    BY <2>1 DEF TypeOK, Placed
  <2>3. lsq_num = Cardinality(Held)
    <3>1. 0 \in 0 .. lsq_ifq_size /\ lsq_num \in 0 .. lsq_ifq_size  BY <2>2, Size
    <3>2. Cardinality({i \in Slots : 0 <= Age(i) /\ Age(i) < lsq_num}) = lsq_num - 0
      BY <2>1, <3>1, YoungerThan
    <3>3. \A i \in Slots : 0 <= Age(i)  BY <2>1, Ages, Size
    <3>4. Held = {i \in Slots : 0 <= Age(i) /\ Age(i) < lsq_num}  BY <2>2, <3>3
    <3>5. Cardinality(Held) = lsq_num - 0  BY <3>2, <3>4
    <3>6. lsq_num - 0 = lsq_num  BY <3>1, Size
    <3>7. QED  BY <3>5, <3>6
  <2>4. stage \notin {"cache2mem", "dtagcmp"} /\ lsq_wtbki \in Held => lsq[lsq_wtbki].state = "READCACHE"
    BY <2>1, HeldEntry, Size DEF Chosen
  <2>5. QED  BY <2>1, <2>3, <2>4 DEF RingAgrees, Placed, Registers, Chosen, Retired
<1>2. QED  BY <1>1, Invariance, PTL

\* dcachewrite of lsq_stage: a store is written only to a block that the cpu
\* owns, whatever packets arrive meanwhile.
THEOREM StoresOwned == Spec => []WritesOwned
<1>1. IInv => WritesOwned
  <2> SUFFICES ASSUME IInv, dcachewrite
               PROVE  lsq[lsq_head].blk /\ dcache[lsq[lsq_head].addr] = "EXCLUSIVE"
    BY DEF WritesOwned
  <2>1. stage = "advance" /\ HeadIs("store", "COMMIT") /\ lsq[lsq_head].blk  BY DEF IInv, Chosen
  <2>2. dtagcmp_refill = NoPacket  BY <2>1 DEF IInv, Flow
  <2>3. lsq_head \in Known  BY <2>1 DEF IInv, TypeOK, HeadIs, Known, In, Held
  <2>4. QED  BY <2>1, <2>2, <2>3, Settled DEF HeadIs
<1>2. QED  BY <1>1, Invariance, PTL

\* The comparison of a store with the younger loads: a load that read before an
\* older store to its bytes was known does not retire.
THEOREM LoadsSeeStores == Spec => []NoMissedStore
<1>1. IInv => NoMissedStore
  <2> SUFFICES ASSUME IInv, NEW i \in In({"COMMIT", "DELAY1"}) PROVE ~ lsq[i].early
    BY DEF NoMissedStore
  <2>1. i \in Held /\ lsq[i].state \in {"COMMIT", "DELAY1"}  BY DEF In
  <2>2. QED  BY <2>1 DEF IInv, Early
<1>2. QED  BY <1>1, Invariance, PTL
=============================================================================
