-------------------------------- MODULE MCLsq --------------------------------
(***************************************************************************)
(* Accesses for the load/store queue, and its properties.                  *)
(***************************************************************************)
EXTENDS Lsq

CONSTANTS A, B  \* two double words
TwoBytes == {0, 1}
Access(op, addr, bytes) == [op |-> op, addr |-> addr, bytes |-> bytes]

\* Loads of two double words.
Reads == {Access("load", A, TwoBytes), Access("load", B, TwoBytes)}

\* A load, a store, and an access that is neither.
OneOfEach == {Access("load", A, TwoBytes), Access("store", A, TwoBytes), Access("move", A, {})}

\* What takes blocks away in a run.
Nothing == {}
Invalidations == {"exclusive"}
Everything == {"replace", "shared", "exclusive"}

\* Loads, and stores to one of the bytes.
Narrow == {Access("load", A, TwoBytes), Access("store", A, {0})}

\* The ring, the registers of the pipeline and the packets stay in range.
TypeOK ==
  /\ stage \in Stages /\ n \in 0 .. map_width
  /\ lsq \in [Slots -> Entries \cup {NoEntry}]
  /\ {lsq_head1, lsq_head, lsq_tail} \subseteq Slots /\ lsq_num \in 0 .. lsq_ifq_size
  /\ {lsq_issuei, lsq_dcachei, lsq_dtagcmpi, lsq_missi, lsq_wtbki} \subseteq Slots \cup {NoSlot}
  /\ {lsq_refill, dcache_refill, dtagcmp_refill} \subseteq Packets
  /\ refilling \subseteq Packets /\ Cardinality(refilling) <= 1
  /\ dcachewrite \in BOOLEAN /\ replace_delay \in 0 .. 2 /\ refill_delay \in 0 .. refill_cycles
  /\ dcache \in [Addrs -> Statuses] /\ wanted \in [Addrs -> SUBSET Requests]

\* Through squashes of any length and a ring that wraps: the entries held are
\* those from head1 to tail, what has committed is older than what has not, what
\* has left is older than the head, each register of the pipeline names the
\* entry in its stage and no other, what is to write back was not written back
\* before (eventq_queue_event does not panic), and the miss that is offered is
\* one of an access that has been compared.
RingAgrees ==
  /\ lsq_num = Cardinality(Held) /\ Held = {i \in Slots : Age(i) < lsq_num}
  /\ (lsq_head1 + lsq_num) % lsq_ifq_size = lsq_tail
  /\ (lsq_head1 + Cardinality(In({"DELAY1"}))) % lsq_ifq_size = lsq_head
  /\ \A i \in In({"DELAY1"}) : Older(i) \subseteq In({"DELAY1"})
  /\ \A i \in In({"COMMIT"}) : Older(i) \subseteq In({"COMMIT", "DELAY1"})
  /\ {lsq_issuei} \ {NoSlot} = In({"ISSUE"})
  /\ {lsq_dcachei} \ {NoSlot} = In({"DCACHE"})
  /\ {lsq_dtagcmpi} \ {NoSlot} = In({"DTAGCMP"})
  /\ stage \notin {"cache2mem", "dtagcmp"} /\ lsq_wtbki \in Held =>
       lsq[lsq_wtbki].state = "READCACHE"
  /\ stage = "cache2mem" => lsq_missi \in Known \cup {NoSlot}

\* A store is written to the cache only while the cpu owns its block: the assert
\* of dcachewrite holds, and no packet takes the block between the check and the
\* write.
WritesOwned ==
  dcachewrite => lsq[lsq_head].blk /\ dcache[lsq[lsq_head].addr] = "EXCLUSIVE"

\* A load that read before an older store to its bytes was known, with no store
\* between them to shadow it, does not retire: the store finds it, whatever the
\* order in which they issue, miss and are refilled.
NoMissedStore == \A i \in In({"COMMIT", "DELAY1"}) : ~ lsq[i].early

\* "For processor consistency" (lsq.c:234): a load whose block is taken away
\* after it has read and before an older load has read does not retire.
LoadsInOrder == \A i \in In({"COMMIT", "DELAY1"}) : ~ lsq[i].lost
==============================================================================
