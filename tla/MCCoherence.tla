----------------------------- MODULE MCCoherence ----------------------------
(***************************************************************************)
(* Instances of the coherence protocol: which cpu is the home of which     *)
(* block, and what the cpus load and store.                                *)
(***************************************************************************)
EXTENDS Coherence

\* cpu 0 is the home of a and b, for which cpu 1 is remote, and cpu 1 of c.
Home == [b \in Blocks |-> IF b = "c" THEN 1 ELSE 0]

Load(b, k) == [op |-> "load", blk |-> b, word |-> 0, step |-> k]
Store(b, k) == [op |-> "store", blk |-> b, word |-> 0, step |-> k]
StoreWord(b, w, k) == [op |-> "store", blk |-> b, word |-> w, step |-> k]

\* Both cpus load a, and cpu 1 then a block that evicts it from both levels.
Sharing == [n \in Cpus |-> {Load("a", 1)} \cup (IF n = 1 THEN {Load("b", 2)} ELSE {})]

\* The same with stores to a.
Evicting == [n \in Cpus |-> {Store("a", 1)} \cup (IF n = 1 THEN {Load("b", 2)} ELSE {})]

\* Both cpus store to a, cpu 1 to both double words.
Halves == [n \in Cpus |->
  IF n = 0 THEN {Store("a", 1)} ELSE {StoreWord("a", 1, 1), Store("a", 2)}]

\* cpu 0 fetches a, which a store of cpu 1 to b may evict from the L2.
Text(b, k) == [op |-> "fetch", blk |-> b, word |-> 0, step |-> k]
Fetching == [n \in Cpus |-> IF n = 0 THEN {Text("a", 1)} ELSE {Store("b", 1)}]

\* cpu 1 fetches b, which evicts a from its cache, while cpu 0 fetches b.
Refetching == [n \in Cpus |-> IF n = 0 THEN {Text("b", 1)} ELSE {Text("a", 1), Text("b", 2)}]

\* cpu 1 fetches a again after c, of which it is the home, while the fetch of
\* b by cpu 0 takes a from its cache: the intervention meets its new miss.
Crossing == [n \in Cpus |->
  IF n = 0 THEN {Text("b", 1)} ELSE {Text("a", 1), Text("c", 2), Text("a", 3)}]

Conflicts == {Sharing, Evicting, Halves, Fetching, Refetching, Crossing}

\* cpu 0 upgrades a block that cpu 1 reads.
Upgrading == {[n \in Cpus |-> IF n = 0 THEN {Load("a", 1), Store("a", 1)} ELSE {Load("a", 1)}]}

\* cpu 1 upgrades a block that cpu 0 writes.
Racing == {[n \in Cpus |-> IF n = 1 THEN {Load("a", 1), Store("a", 1)} ELSE {Store("a", 1)}]}

\* cpu 1 evicts a block it also wants to upgrade, and cpu 0 upgrades it.
Reissuing == {[n \in Cpus |->
  IF n = 0 THEN {Load("a", 1), Store("a", 2)}
  ELSE {Load("a", 1), Load("b", 2), Store("a", 3)}]}
=============================================================================
