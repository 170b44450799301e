---------------------------- MODULE ReorderProof ----------------------------
(***************************************************************************)
(* The instruction window keeps its two queues aligned, and its counters   *)
(* true, through commits, squashes of any length and flushes; the levels   *)
(* of speculation are right at every moment, and instructions retire along *)
(* the path of the program; all for any program and any size of the        *)
(* queues: proofs about Reorder.                                           *)
(***************************************************************************)
EXTENDS MCReorder, Rings, SequenceTheorems

-----------------------------------------------------------------------------
(***************************************************************************)
(* The inductive invariant.                                                *)
(***************************************************************************)

RAge(s) == AgeOn(roq_ifq_size, roq_head, s)
BAge(b) == AgeOn(brq_ifq_size, brq_head, b)

\* What decode keeps between instructions.
Fronts == [lastIsBranch : BOOLEAN, jump : PCs \cup {NoPC}, redirect : PCs \cup {NoPC},
           entering : BOOLEAN, branches : Nat, sameCycle : BOOLEAN]
Front ==
  /\ program \in Programs /\ front \in Fronts
  /\ front.redirect # NoPC => front.lastIsBranch

\* The reorder queue is a window of the ring.
Window ==
  /\ (roq_head + roq_num) % roq_ifq_size = roq_tail
  /\ Live = {s \in RoqSlots : roq[s] # NoInst}

\* The branch queue is a window of its ring, in the order of the reorder queue;
\* an entry and its branch name one another.
Branches ==
  /\ (brq_head + brq_num) % brq_ifq_size = brq_tail
  /\ \A b \in BrqSlots :
       IF BAge(b) < brq_num THEN brq[b] \in Ctrl(Live) /\ roq[brq[b]].brqid = b
                            ELSE brq[b] = NoSlot
  /\ \A s \in Ctrl(Live) : roq[s].brqid \in BrqSlots /\ brq[roq[s].brqid] = s
  /\ \A b, c \in BrqSlots :
       BAge(b) < BAge(c) /\ BAge(c) < brq_num => RAge(brq[b]) < RAge(brq[c])

\* The counters are what the window holds.
Counted ==
  /\ int_issue_num = Cardinality(Queued(Live))
  /\ int_rename_reg_num = Cardinality(Renamed(Live))

\* The branches that may be among the next k instructions to map, from queue d.
MostBranches(d, k) ==
  IF d # <<>> /\ ~ IsCtrl(d[1].pc) THEN k \div 2 ELSE (k + 1) \div 2

\* What map_stage tested before its loop still holds of the iterations left.
Space ==
  /\ Cardinality(Accesses(Live)) + lsq_committed <= lsq_ifq_size
  /\ stage = "map" /\ n > 0 =>
       /\ n <= map_width
       /\ roq_num + map_width - n <= roq_ifq_size
       /\ int_issue_num + map_width - n <= int_issue_ifq_size
       /\ int_rename_reg_num + map_width - n <= int_rename_reg_size
       /\ Cardinality(Accesses(Live)) + lsq_committed + map_width - n <= lsq_ifq_size
       /\ brq_num + MostBranches(decode_data, map_width - n) <= brq_ifq_size

\* Fetch runs straight on from queue f to pc, so the instruction after a branch
\* is its delay slot, which holds no branch; b says whether the one decoded last,
\* at the end of queue d, is a branch.
SlotsFollow(f, pc, b, d) ==
  /\ \A i \in 1 .. Len(f) - 1 : f[i + 1] = Plus(f[i], 1)
  /\ f # <<>> => pc = Plus(f[Len(f)], 1)
  /\ b => ~ IsCtrl(IF f = <<>> THEN pc ELSE f[1])
  /\ \A i \in 1 .. Len(d) - 1 : IsCtrl(d[i].pc) => ~ IsCtrl(d[i + 1].pc)
  /\ d # <<>> => (b <=> IsCtrl(d[Len(d)].pc))

DelaySlots == SlotsFollow(fetch_data, fetch_reg_PC, front.lastIsBranch, decode_data)

IInv == TypeOK /\ Front /\ Window /\ Branches /\ Counted /\ Space /\ DelaySlots

-----------------------------------------------------------------------------
(***************************************************************************)
(* Programs and instructions.                                              *)
(***************************************************************************)

LEMMA Sizes ==
  /\ roq_ifq_size \in Nat \ {0} /\ brq_ifq_size \in Nat \ {0} /\ map_width \in 1 .. 4
  /\ fetch_width \in Nat /\ fetch_speed \in Nat /\ fetch_ifq_size \in Nat /\ decode_width \in Nat
  /\ decode_ifq_size \in Nat /\ commit_width \in Nat /\ lsq_ifq_size \in Nat
  /\ int_issue_ifq_size \in Nat /\ int_rename_reg_size \in Nat
  /\ RoqSlots = 0 .. roq_ifq_size - 1 /\ BrqSlots = 0 .. brq_ifq_size - 1
  /\ NoSlot \notin RoqSlots /\ NoSlot \notin BrqSlots
BY WindowAssumption DEF WindowAssumption, RoqSlots, BrqSlots, NoSlot

\* The text, and where its branches go.
LEMMA TheText ==
  ASSUME program \in Programs
  PROVE  /\ Outside \in Nat \ {0} /\ PCs = 0 .. Outside /\ NoPC \notin PCs
         /\ \A pc \in PCs : IsCtrl(pc) =>
              /\ pc \in 0 .. Outside - 1 /\ Target[pc] \in 0 .. Outside - 1
              /\ program.text[(pc + 1) % Outside] \notin Controls \cup {"syscall"}
         /\ \A pc \in PCs : pc # Outside => Kind(pc) = program.text[pc]
         /\ Kind(Outside) = "bogus" /\ ~ IsCtrl(Outside)
<1>1. /\ program.size \in Nat \ {0}
      /\ program.target \in [0 .. program.size - 1 -> 0 .. program.size - 1]
      /\ \A pc \in 0 .. program.size - 1 :
           program.text[pc] \in Controls =>
             program.text[(pc + 1) % program.size] \notin Controls \cup {"syscall"}
  BY ProgramAssumption DEF ProgramAssumption
<1>2. Outside = program.size /\ Target = program.target  BY DEF Outside, Target
<1>3. Outside \in Nat \ {0} /\ PCs = 0 .. Outside /\ NoPC \notin PCs
  BY <1>1, <1>2 DEF PCs, NoPC
<1>4. ASSUME NEW pc \in PCs, pc # Outside PROVE Kind(pc) = program.text[pc] /\ pc \in 0 .. Outside - 1
  <2>1. pc \in 0 .. Outside /\ pc < Outside  BY <1>3, <1>4
  <2>2. QED  BY <1>3, <2>1 DEF Kind
<1>5. Kind(Outside) = "bogus" /\ "bogus" \notin Controls
  BY <1>3 DEF Kind, Controls
<1>6. ASSUME NEW pc \in PCs, IsCtrl(pc)
      PROVE  /\ pc \in 0 .. Outside - 1 /\ Target[pc] \in 0 .. Outside - 1
             /\ program.text[(pc + 1) % Outside] \notin Controls \cup {"syscall"}
  <2>1. pc # Outside /\ Kind(pc) \in Controls  BY <1>5, <1>6 DEF IsCtrl
  <2>2. pc \in 0 .. program.size - 1 /\ program.text[pc] \in Controls  BY <1>2, <1>4, <2>1
  <2>3. QED  BY <1>1, <1>2, <2>2
<1>7. QED  BY <1>3, <1>4, <1>5, <1>6 DEF IsCtrl

\* The text is a ring.
LEMMA Steps ==
  ASSUME program \in Programs
  PROVE  /\ \A pc \in PCs, k \in Int : Plus(pc, k) \in PCs
         /\ \A pc \in PCs : IsCtrl(pc) => ~ IsCtrl(Plus(pc, 1)) /\ Kind(Plus(pc, 1)) # "syscall"
         /\ \A pc \in PCs, k \in Nat : Plus(pc, k + 1) = Plus(Plus(pc, k), 1)
<1>1. Outside \in Nat \ {0} /\ PCs = 0 .. Outside  BY TheText
<1>2. \A x \in Int : x % Outside \in 0 .. Outside - 1  BY <1>1
<1>3. ASSUME NEW pc \in PCs, NEW k \in Int PROVE Plus(pc, k) \in PCs
  <2>1. CASE pc = Outside  BY <1>1, <2>1 DEF Plus
  <2>2. CASE pc # Outside
    <3>1. pc + k \in Int  BY <1>1
    <3>2. Plus(pc, k) = (pc + k) % Outside  BY <2>2 DEF Plus
    <3>3. QED  BY <1>1, <1>2, <3>1, <3>2
  <2>3. QED  BY <2>1, <2>2
<1>4. ASSUME NEW pc \in PCs, IsCtrl(pc)
      PROVE  ~ IsCtrl(Plus(pc, 1)) /\ Kind(Plus(pc, 1)) # "syscall"
  <2>1. /\ pc \in 0 .. Outside - 1
        /\ program.text[(pc + 1) % Outside] \notin Controls \cup {"syscall"}
    BY <1>4, TheText
  <2>2. pc # Outside /\ pc + 1 \in Int  BY <1>1, <2>1
  <2>3. Plus(pc, 1) = (pc + 1) % Outside /\ Plus(pc, 1) \in 0 .. Outside - 1
    BY <1>2, <2>2 DEF Plus
  <2>4. Plus(pc, 1) \in PCs /\ Plus(pc, 1) # Outside  BY <1>1, <2>3
  <2>5. Kind(Plus(pc, 1)) = program.text[(pc + 1) % Outside]  BY <2>3, <2>4, TheText
  <2>6. QED  BY <2>1, <2>5 DEF IsCtrl
<1>5. ASSUME NEW pc \in PCs, NEW k \in Nat PROVE Plus(pc, k + 1) = Plus(Plus(pc, k), 1)
  <2>1. CASE pc = Outside  BY <2>1 DEF Plus
  <2>2. CASE pc # Outside
    <3>1. pc + k \in Nat /\ pc + (k + 1) = (pc + k) + 1  BY <1>1
    <3>2. Plus(pc, k + 1) = ((pc + k) + 1) % Outside /\ Plus(pc, k) = (pc + k) % Outside
      BY <2>2, <3>1 DEF Plus
    <3>3. (pc + k) % Outside \in 0 .. Outside - 1  BY <1>2, <3>1
    <3>4. Plus(Plus(pc, k), 1) = (((pc + k) % Outside) + 1) % Outside
      <4>1. (pc + k) % Outside # Outside  BY <1>1, <3>3
      <4>2. QED  BY <3>2, <4>1 DEF Plus
    <3>5. (((pc + k) % Outside) + 1) % Outside = ((pc + k) + 1) % Outside
      BY <1>1, <3>1, NextStep
    <3>6. QED  BY <3>2, <3>4, <3>5
  <2>3. QED  BY <2>1, <2>2
<1>6. QED  BY <1>3, <1>4, <1>5

\* The program does not change.
LEMMA SameProgram ==
  ASSUME program' = program
  PROVE  /\ PCs' = PCs /\ NoPC' = NoPC /\ NoInst' = NoInst /\ Insts' = Insts /\ Fronts' = Fronts
         /\ Outside' = Outside
         /\ Ctrl(Live)' = {s \in Live' : IsCtrl(roq'[s].pc)}
         /\ Renamed(Live)' = {s \in Live' : RenameRegs(roq'[s]) = 1}
         /\ Accesses(Live)' = {s \in Live' : Kind(roq'[s].pc) \in {"load", "store"}}
         /\ Queued(Live)' = {s \in Live' : roq'[s].status = "queued"}
BY DEF PCs, NoPC, NoInst, Insts, Outside, Fronts, Ctrl, IsCtrl, Kind, Renamed, RenameRegs, Accesses, Queued

LEMMA SameText ==
  ASSUME program' = program
  PROVE  /\ DelaySlots' <=> SlotsFollow(fetch_data', fetch_reg_PC', front'.lastIsBranch, decode_data')
         /\ \A k : MostBranches(decode_data, k)' = MostBranches(decode_data', k)
BY DEF DelaySlots, SlotsFollow, MostBranches, Plus, IsCtrl, Kind, Outside

LEMMA InstFields ==
  ASSUME program \in Programs, NEW rs \in Insts
  PROVE  /\ rs.pc \in PCs /\ rs.npc \in PCs /\ rs.spec_level \in Nat /\ rs.status \in Status
         /\ rs.bd \in BOOLEAN /\ rs.taken \in BOOLEAN /\ rs.mis_predict \in BOOLEAN /\ rs.ex \in BOOLEAN
         /\ rs.brqid \in BrqSlots \cup {NoSlot} /\ rs # NoInst
<1>1. rs.pc \in PCs  BY DEF Insts
<1>2. NoInst.pc \notin PCs  BY TheText DEF NoInst
<1>3. QED  BY <1>1, <1>2 DEF Insts

-----------------------------------------------------------------------------
(***************************************************************************)
(* Slots and ages.                                                         *)
(***************************************************************************)

LEMMA RoqAges ==
  ASSUME TypeOK
  PROVE  /\ \A s \in RoqSlots : RAge(s) \in 0 .. roq_ifq_size - 1 /\ Age(s) = RAge(s)
         /\ \A s, t \in RoqSlots : RAge(s) = RAge(t) => s = t
         /\ Live = {s \in RoqSlots : RAge(s) < roq_num}
<1>1. roq_head \in 0 .. roq_ifq_size - 1  BY Sizes DEF TypeOK
<1>2. \A s \in RoqSlots : RAge(s) \in 0 .. roq_ifq_size - 1  BY <1>1, Sizes, AgeValue DEF RAge
<1>3. \A s : Age(s) = RAge(s)  BY DEF Age, RAge, AgeOn
<1>4. \A s, t \in RoqSlots : RAge(s) = RAge(t) => s = t  BY <1>1, Sizes, AgeUnique DEF RAge
<1>5. QED  BY <1>2, <1>3, <1>4 DEF Live

LEMMA BrqAges ==
  ASSUME TypeOK
  PROVE  /\ \A b \in BrqSlots : BAge(b) \in 0 .. brq_ifq_size - 1
         /\ \A b, c \in BrqSlots : BAge(b) = BAge(c) => b = c
<1>1. brq_head \in 0 .. brq_ifq_size - 1  BY Sizes DEF TypeOK
<1>2. QED  BY <1>1, Sizes, AgeValue, AgeUnique DEF BAge

\* The slots in use hold instructions.
LEMMA Held ==
  ASSUME TypeOK, Window
  PROVE  \A s \in Live : s \in RoqSlots /\ roq[s] \in Insts
BY DEF TypeOK, Window

\* What is counted is finite.
LEMMA Finite ==
  ASSUME TypeOK, NEW S \in SUBSET Live
  PROVE  /\ IsFiniteSet(S) /\ IsFiniteSet(Ctrl(S)) /\ IsFiniteSet(Queued(S))
         /\ IsFiniteSet(Renamed(S)) /\ IsFiniteSet(Accesses(S))
<1>1. IsFiniteSet(0 .. roq_ifq_size - 1)  BY FS_Interval, Sizes
<1>2. S \in SUBSET (0 .. roq_ifq_size - 1)  BY Sizes DEF Live
<1>3. IsFiniteSet(S)  BY <1>1, <1>2, FS_Subset
<1>4. /\ Ctrl(S) \in SUBSET S /\ Queued(S) \in SUBSET S /\ Renamed(S) \in SUBSET S
      /\ Accesses(S) \in SUBSET S
  BY DEF Ctrl, Queued, Renamed, Accesses
<1>5. QED  BY <1>3, <1>4, FS_Subset

\* The youngest instructions own the youngest entries of the branch queue.
LEMMA YoungestBranches ==
  ASSUME TypeOK, Branches, NEW G \in SUBSET Live,
         \A s \in G, t \in Live : RAge(t) > RAge(s) => t \in G
  PROVE  /\ Cardinality(Ctrl(G)) \in 0 .. brq_num
         /\ \A b \in BrqSlots : BAge(b) < brq_num =>
              (brq[b] \in G <=> BAge(b) >= brq_num - Cardinality(Ctrl(G)))
<1> DEFINE N == brq_ifq_size
           W == {b \in BrqSlots : BAge(b) < brq_num}
           Kept == {b \in W : brq[b] \notin G}
           Cut == {b \in W : brq[b] \in G}
<1>1. /\ N \in Nat \ {0} /\ brq_head \in 0 .. N - 1 /\ brq_num \in 0 .. N /\ BrqSlots = 0 .. N - 1
      /\ \A b \in BrqSlots : BAge(b) \in 0 .. N - 1 /\ BAge(b) = AgeOn(N, brq_head, b)
  BY Sizes, BrqAges DEF TypeOK, BAge
<1>2. \A s \in Live : RAge(s) \in Int  BY Sizes, RoqAges DEF Live
<1>3. \A b \in W : brq[b] \in Ctrl(Live) /\ roq[brq[b]].brqid = b /\ brq[b] \in Live
  BY DEF Branches, Ctrl
<1>4. W = WindowOn(N, brq_head, 0, brq_num) /\ IsFiniteSet(W) /\ Cardinality(W) = brq_num
  <2>1. W = WindowOn(N, brq_head, 0, brq_num)  BY <1>1 DEF WindowOn
  <2>2. 0 \in 0 .. N /\ brq_num \in 0 .. N /\ brq_num - 0 = brq_num  BY <1>1
  <2> HIDE DEF W, N
  <2>3. QED  BY <1>1, <2>1, <2>2, WindowSize
<1>5. \A i \in Kept, j \in 0 .. N - 1 : AgeOn(N, brq_head, j) < AgeOn(N, brq_head, i) => j \in Kept
  <2>1. SUFFICES ASSUME NEW i \in Kept, NEW j \in BrqSlots, BAge(j) < BAge(i) PROVE j \in Kept
    BY <1>1
  <2>2. i \in W /\ j \in W  BY <1>1, <2>1
  <2>3. RAge(brq[j]) < RAge(brq[i])  BY <2>1, <2>2 DEF Branches
  <2>4. brq[j] \notin G
    <3>1. SUFFICES ASSUME brq[j] \in G PROVE FALSE  OBVIOUS
    <3>2. RAge(brq[i]) > RAge(brq[j])  BY <1>2, <1>3, <2>2, <2>3
    <3>3. brq[i] \in G  BY <1>3, <2>2, <3>1, <3>2
    <3>4. QED  BY <2>1, <3>3
  <2>5. QED  BY <2>2, <2>4
<1>6. Kept \in SUBSET (0 .. N - 1)  BY <1>1
<1> DEFINE m == Cardinality(Kept)
<1>7. IsFiniteSet(Kept) /\ m \in 0 .. N /\ Kept = WindowOn(N, brq_head, 0, m)
  <2> HIDE DEF Kept, N
  <2>1. QED  BY <1>1, <1>5, <1>6, PrefixWindow
<1>8. \A b \in W : brq[b] \in G <=> ~ (BAge(b) < m)
  <2>1. \A b \in W : b \in Kept <=> ~ (brq[b] \in G)  OBVIOUS
  <2>2. \A b \in W : b \in 0 .. N - 1 /\ 0 <= BAge(b) /\ BAge(b) = AgeOn(N, brq_head, b)  BY <1>1
  <2> HIDE DEF Kept, m
  <2>3. QED  BY <1>7, <2>1, <2>2 DEF WindowOn
<1>9. IsFiniteSet(Cut) /\ Cardinality(Cut) = brq_num - m
  <2>1. Cut = W \ Kept /\ W \cap Kept = Kept  OBVIOUS
  <2> HIDE DEF Cut, Kept, W
  <2>2. QED  BY <1>4, <2>1, FS_Difference
<1>10. Cardinality(Ctrl(G)) = Cardinality(Cut)
  <2> DEFINE f == [b \in Cut |-> brq[b]]
  <2>1. \A b \in Cut : f[b] \in Ctrl(G)
    <3>1. \A b \in Cut : brq[b] \in Ctrl(Live) /\ brq[b] \in G  BY <1>3
    <3>2. QED  BY <3>1 DEF Ctrl
  <2>2. \A b, c \in Cut : f[b] = f[c] => b = c
    <3>1. \A b \in Cut : roq[brq[b]].brqid = b  BY <1>3
    <3>2. QED  BY <3>1
  <2>3. \A s \in Ctrl(G) : \E b \in Cut : f[b] = s
    <3>1. SUFFICES ASSUME NEW s \in Ctrl(G) PROVE \E b \in Cut : f[b] = s  OBVIOUS
    <3>2. s \in Ctrl(Live) /\ s \in G  BY DEF Ctrl
    <3>3. roq[s].brqid \in BrqSlots /\ brq[roq[s].brqid] = s  BY <3>2 DEF Branches
    <3>4. s # NoSlot  BY <3>2, Sizes DEF Live
    <3>5. BAge(roq[s].brqid) < brq_num  BY <3>3, <3>4 DEF Branches
    <3>6. roq[s].brqid \in Cut  BY <3>2, <3>3, <3>5
    <3>7. QED  BY <3>3, <3>6
  <2>4. f \in Bijection(Cut, Ctrl(G))
    <3> HIDE DEF Cut
    <3>1. f \in [Cut -> Ctrl(G)]  BY <2>1
    <3> HIDE DEF f
    <3>2. QED  BY <2>2, <2>3, <3>1 DEF Bijection, Injection, Surjection, IsInjective
  <2>5. ExistsBijection(Cut, Ctrl(G))  BY <2>4 DEF ExistsBijection
  <2> HIDE DEF Cut, f
  <2>6. QED  BY <1>9, <2>5, FS_Bijection
<1>11. m \in 0 .. brq_num
  <2>1. Kept \in SUBSET W  OBVIOUS
  <2> HIDE DEF Kept, W
  <2>2. m <= brq_num  BY <1>4, <2>1, FS_Subset
  <2>3. QED  BY <1>1, <1>7, <2>2
<1> HIDE DEF m, Kept, Cut
<1>12. Cardinality(Ctrl(G)) = brq_num - m  BY <1>9, <1>10
<1>13. Cardinality(Ctrl(G)) \in 0 .. brq_num /\ brq_num - Cardinality(Ctrl(G)) = m
  BY <1>1, <1>11, <1>12
<1>14. QED
  <2>1. SUFFICES ASSUME NEW b \in BrqSlots, BAge(b) < brq_num
                 PROVE  brq[b] \in G <=> BAge(b) >= m
    BY <1>13
  <2>2. b \in W /\ BAge(b) \in Int /\ m \in Int  BY <1>1, <1>11, <2>1
  <2>3. brq[b] \in G <=> ~ (BAge(b) < m)  BY <1>8, <2>2
  <2>4. QED  BY <2>2, <2>3

\* What a squash leaves of the branch queue.
LEMMA SquashQueue ==
  ASSUME TypeOK, Branches, NEW G \in SUBSET Live,
         \A s \in G, t \in Live : RAge(t) > RAge(s) => t \in G,
         Squash(G)
  PROVE  /\ brq' \in [BrqSlots -> RoqSlots \cup {NoSlot}] /\ brq_head' = brq_head
         /\ brq_tail' \in BrqSlots /\ brq_num' \in 0 .. brq_num
         /\ (brq_head' + brq_num') % brq_ifq_size = brq_tail'
         /\ \A b \in BrqSlots :
              IF BAge(b) < brq_num' THEN BAge(b) < brq_num /\ brq'[b] = brq[b] /\ brq[b] \notin G
                                    ELSE brq'[b] = NoSlot
         /\ \A s \in Ctrl(Live) \ G : brq'[roq[s].brqid] = s
<1> DEFINE N == brq_ifq_size
           k == Cardinality(Ctrl(G))
<1>1. /\ N \in Nat \ {0} /\ brq_head \in 0 .. N - 1 /\ brq_num \in 0 .. N /\ BrqSlots = 0 .. N - 1
      /\ \A b \in BrqSlots : BAge(b) \in 0 .. N - 1
      /\ brq \in [BrqSlots -> RoqSlots \cup {NoSlot}]
  BY Sizes, BrqAges DEF TypeOK
<1>2. k \in 0 .. brq_num
  BY YoungestBranches
<1>3. \A b \in BrqSlots : BAge(b) < brq_num => (brq[b] \in G <=> BAge(b) >= brq_num - k)
  BY YoungestBranches
<1>4. /\ brq' = [b \in BrqSlots |-> IF \E s \in Ctrl(G) : roq[s].brqid = b THEN NoSlot ELSE brq[b]]
      /\ brq_tail' = (brq_tail - k) % N /\ brq_num' = brq_num - k /\ brq_head' = brq_head
  BY DEF Squash
<1> HIDE DEF k
<1>5. brq_num' \in 0 .. brq_num /\ brq_num' \in 0 .. N  BY <1>1, <1>2, <1>4
<1>6. brq_tail' = (brq_head + brq_num') % N /\ brq_tail' \in BrqSlots
  <2>1. brq_tail = (brq_head + brq_num) % N  BY DEF Branches
  <2>2. (((brq_head + brq_num) % N) - k) % N = (brq_head + (brq_num - k)) % N
    BY <1>1, <1>2, StepsBack
  <2>3. brq_tail' = (brq_head + brq_num') % N  BY <1>4, <2>1, <2>2
  <2>4. (brq_head + brq_num') % N \in 0 .. N - 1  BY <1>1, <1>5, SlotAt
  <2>5. QED  BY <1>1, <2>3, <2>4
<1>7. \A s \in Ctrl(G) : s \in Ctrl(Live) /\ s \in G  BY DEF Ctrl
<1>8. ASSUME NEW b \in BrqSlots
      PROVE  IF BAge(b) < brq_num' THEN BAge(b) < brq_num /\ brq'[b] = brq[b] /\ brq[b] \notin G
                                   ELSE brq'[b] = NoSlot
  <2>1. (\E s \in Ctrl(G) : roq[s].brqid = b) <=> BAge(b) < brq_num /\ brq[b] \in G
    <3>1. ASSUME NEW s \in Ctrl(G), roq[s].brqid = b PROVE BAge(b) < brq_num /\ brq[b] \in G
      <4>1. brq[b] = s /\ s # NoSlot  BY <1>7, <3>1, Sizes DEF Branches, Ctrl, Live
      <4>2. QED  BY <1>7, <3>1, <4>1 DEF Branches
    <3>2. ASSUME BAge(b) < brq_num, brq[b] \in G PROVE \E s \in Ctrl(G) : roq[s].brqid = b
      <4>1. brq[b] \in Ctrl(Live) /\ roq[brq[b]].brqid = b  BY <3>2 DEF Branches
      <4>2. brq[b] \in Ctrl(G)  BY <3>2, <4>1 DEF Ctrl
      <4>3. QED  BY <4>1, <4>2
    <3>3. QED  BY <3>1, <3>2
  <2>2. brq'[b] = IF BAge(b) < brq_num /\ brq[b] \in G THEN NoSlot ELSE brq[b]  BY <1>4, <2>1
  <2>3. CASE BAge(b) < brq_num'
    <3>1. BAge(b) < brq_num /\ ~ (BAge(b) >= brq_num - k)
      <4>1. BAge(b) \in Int /\ brq_num \in Int /\ k \in Int /\ k >= 0  BY <1>1, <1>2
      <4>2. brq_num' = brq_num - k  BY <1>4
      <4>3. QED  BY ONLY <2>3, <4>1, <4>2
    <3>2. brq[b] \notin G  BY <1>3, <3>1
    <3>3. QED  BY <2>2, <2>3, <3>1, <3>2
  <2>4. CASE ~ (BAge(b) < brq_num')
    <3>1. CASE BAge(b) < brq_num
      <4>1. BAge(b) >= brq_num - k  BY <1>1, <1>2, <1>4, <2>4
      <4>2. QED  BY <1>3, <2>2, <2>4, <3>1, <4>1
    <3>2. CASE ~ (BAge(b) < brq_num)
      <4>1. brq[b] = NoSlot  BY <3>2 DEF Branches
      <4>2. QED  BY <2>2, <2>4, <4>1
    <3>3. QED  BY <3>1, <3>2
  <2>5. QED  BY <2>3, <2>4
<1>9. ASSUME NEW s \in Ctrl(Live) \ G PROVE brq'[roq[s].brqid] = s
  <2>1. roq[s].brqid \in BrqSlots /\ brq[roq[s].brqid] = s  BY DEF Branches
  <2>2. ~ \E t \in Ctrl(G) : roq[t].brqid = roq[s].brqid
    <3>1. SUFFICES ASSUME NEW t \in Ctrl(G), roq[t].brqid = roq[s].brqid PROVE FALSE  OBVIOUS
    <3>2. brq[roq[t].brqid] = t  BY <1>7 DEF Branches
    <3>3. QED  BY <1>7, <2>1, <3>1, <3>2
  <2>3. QED  BY <1>4, <2>1, <2>2
<1>10. brq' \in [BrqSlots -> RoqSlots \cup {NoSlot}]  BY <1>1, <1>4
<1>11. QED  BY <1>4, <1>5, <1>6, <1>8, <1>9, <1>10

\* The branches that stay, with what they are and where.
LEMMA BranchesKept ==
  ASSUME TypeOK, Branches, program' = program, NEW G \in SUBSET Live,
         Live' = Live \ G, roq_head' = roq_head, brq_head' = brq_head,
         (brq_head' + brq_num') % brq_ifq_size = brq_tail',
         \A b \in BrqSlots :
           IF BAge(b) < brq_num' THEN BAge(b) < brq_num /\ brq'[b] = brq[b] /\ brq[b] \notin G
                                 ELSE brq'[b] = NoSlot,
         \A s \in Ctrl(Live) \ G : brq'[roq[s].brqid] = s,
         \A s \in Live \ G : roq'[s].pc = roq[s].pc /\ roq'[s].brqid = roq[s].brqid,
         brq_num' \in Nat
  PROVE  Branches'
<1>1. Ctrl(Live)' = Ctrl(Live) \ G
  <2>1. Ctrl(Live)' = {s \in Live \ G : IsCtrl(roq'[s].pc)}  BY SameProgram
  <2>2. QED  BY <2>1 DEF Ctrl
<1>2. \A b : BAge(b)' = BAge(b) /\ RAge(b)' = RAge(b)  BY DEF BAge, RAge
<1>3. (\A b \in BrqSlots :
         IF BAge(b) < brq_num THEN brq[b] \in Ctrl(Live) /\ roq[brq[b]].brqid = b
                              ELSE brq[b] = NoSlot)'
  <2>1. SUFFICES ASSUME NEW b \in BrqSlots
                 PROVE  IF BAge(b)' < brq_num' THEN brq'[b] \in Ctrl(Live)' /\ roq'[brq'[b]].brqid = b
                                               ELSE brq'[b] = NoSlot
    OBVIOUS
  <2>2. CASE BAge(b) < brq_num'
    <3>1. BAge(b) < brq_num /\ brq'[b] = brq[b] /\ brq[b] \notin G  BY <2>2
    <3>2. brq[b] \in Ctrl(Live) /\ roq[brq[b]].brqid = b  BY <1>1, <3>1 DEF Branches
    <3>3. brq[b] \in Live \ G  BY <3>1, <3>2 DEF Ctrl
    <3>4. QED  BY <1>1, <1>2, <2>2, <3>1, <3>2, <3>3
  <2>3. CASE ~ (BAge(b) < brq_num')  BY <1>2, <2>3
  <2>4. QED  BY <2>2, <2>3
<1>4. (\A s \in Ctrl(Live) : roq[s].brqid \in BrqSlots /\ brq[roq[s].brqid] = s)'
  <2>1. SUFFICES ASSUME NEW s \in Ctrl(Live) \ G
                 PROVE  roq'[s].brqid \in BrqSlots /\ brq'[roq'[s].brqid] = s
    BY <1>1
  <2>2. roq'[s].brqid = roq[s].brqid  BY DEF Ctrl
  <2>3. QED  BY <2>2 DEF Branches
<1>5. (\A b, c \in BrqSlots :
         BAge(b) < BAge(c) /\ BAge(c) < brq_num => RAge(brq[b]) < RAge(brq[c]))'
  <2>1. SUFFICES ASSUME NEW b \in BrqSlots, NEW c \in BrqSlots, BAge(b) < BAge(c), BAge(c) < brq_num'
                 PROVE  AgeOn(roq_ifq_size, roq_head', brq'[b]) < AgeOn(roq_ifq_size, roq_head', brq'[c])
    BY <1>2 DEF RAge
  <2>2. BAge(b) \in Int /\ BAge(c) \in Int  BY BrqAges, Sizes
  <2>3. BAge(b) < brq_num'  BY <2>1, <2>2
  <2>4. brq'[b] = brq[b] /\ brq'[c] = brq[c] /\ BAge(c) < brq_num  BY <2>1, <2>3
  <2>5. RAge(brq[b]) < RAge(brq[c])  BY <2>1, <2>4 DEF Branches
  <2>6. QED  BY <2>4, <2>5 DEF RAge
<1>6. QED  BY <1>3, <1>4, <1>5 DEF Branches

\* What is removed is no longer counted.
LEMMA Removed ==
  ASSUME TypeOK, program' = program, NEW G \in SUBSET Live, Live' = Live \ G,
         \A s \in Live \ G : /\ roq'[s].pc = roq[s].pc
                             /\ roq'[s].status = "queued" <=> roq[s].status = "queued"
  PROVE  /\ Cardinality(Queued(Live)') = Cardinality(Queued(Live)) - Cardinality(Queued(G))
         /\ Cardinality(Renamed(Live)') = Cardinality(Renamed(Live)) - Cardinality(Renamed(G))
         /\ Cardinality(Accesses(Live)') = Cardinality(Accesses(Live)) - Cardinality(Accesses(G))
         /\ Cardinality(Queued(Live)') \in Nat /\ Cardinality(Renamed(Live)') \in Nat
         /\ Cardinality(Accesses(Live)') \in Nat
<1>1. Queued(Live)' = Queued(Live) \ Queued(G) /\ Queued(Live) \cap Queued(G) = Queued(G)
  <2>1. Queued(Live)' = {s \in Live \ G : roq'[s].status = "queued"}  BY SameProgram
  <2>2. QED  BY <2>1 DEF Queued
<1>2. Renamed(Live)' = Renamed(Live) \ Renamed(G) /\ Renamed(Live) \cap Renamed(G) = Renamed(G)
  <2>1. Renamed(Live)' = {s \in Live \ G : RenameRegs(roq'[s]) = 1}  BY SameProgram
  <2>2. \A s \in Live \ G : RenameRegs(roq'[s]) = RenameRegs(roq[s])  BY DEF RenameRegs
  <2>3. QED  BY <2>1, <2>2 DEF Renamed
<1>3. Accesses(Live)' = Accesses(Live) \ Accesses(G) /\ Accesses(Live) \cap Accesses(G) = Accesses(G)
  <2>1. Accesses(Live)' = {s \in Live \ G : Kind(roq'[s].pc) \in {"load", "store"}}  BY SameProgram
  <2>2. QED  BY <2>1 DEF Accesses
<1>4. IsFiniteSet(Queued(Live)) /\ IsFiniteSet(Renamed(Live)) /\ IsFiniteSet(Accesses(Live))
  BY Finite
<1>5. /\ Cardinality(Queued(Live)') = Cardinality(Queued(Live)) - Cardinality(Queued(G))
      /\ IsFiniteSet(Queued(Live)')
  <2>1. /\ IsFiniteSet(Queued(Live) \ Queued(G))
        /\ Cardinality(Queued(Live) \ Queued(G)) =
             Cardinality(Queued(Live)) - Cardinality(Queued(Live) \cap Queued(G))
    BY <1>4, FS_Difference
  <2>2. QED  BY <1>1, <2>1
<1>6. /\ Cardinality(Renamed(Live)') = Cardinality(Renamed(Live)) - Cardinality(Renamed(G))
      /\ IsFiniteSet(Renamed(Live)')
  <2>1. /\ IsFiniteSet(Renamed(Live) \ Renamed(G))
        /\ Cardinality(Renamed(Live) \ Renamed(G)) =
             Cardinality(Renamed(Live)) - Cardinality(Renamed(Live) \cap Renamed(G))
    BY <1>4, FS_Difference
  <2>2. QED  BY <1>2, <2>1
<1>7. /\ Cardinality(Accesses(Live)') = Cardinality(Accesses(Live)) - Cardinality(Accesses(G))
      /\ IsFiniteSet(Accesses(Live)')
  <2>1. /\ IsFiniteSet(Accesses(Live) \ Accesses(G))
        /\ Cardinality(Accesses(Live) \ Accesses(G)) =
             Cardinality(Accesses(Live)) - Cardinality(Accesses(Live) \cap Accesses(G))
    BY <1>4, FS_Difference
  <2>2. QED  BY <1>3, <2>1
<1>8. QED  BY <1>5, <1>6, <1>7, FS_CardinalityType

\* Instructions change, but what the queues hold of them does not.
LEMMA Rewritten ==
  ASSUME TypeOK, Window, Branches, program' = program,
         UNCHANGED <<roq_head, roq_tail, roq_num, brq, brq_head, brq_tail, brq_num>>,
         \A s \in Live : roq'[s] \in Insts /\ roq'[s].pc = roq[s].pc /\ roq'[s].brqid = roq[s].brqid,
         \A s \in RoqSlots \ Live : roq'[s] = roq[s],
         program \in Programs
  PROVE  /\ Live' = Live /\ Window' /\ Branches'
         /\ Renamed(Live)' = Renamed(Live) /\ Accesses(Live)' = Accesses(Live)
<1>1. Live' = Live  BY DEF Live, Age
<1>2. Window'
  <2>1. \A s \in RoqSlots : roq'[s] # NoInst <=> s \in Live
    <3>1. \A s \in Live : roq'[s] # NoInst  BY InstFields
    <3>2. QED  BY <3>1 DEF Window
  <2>2. Live \subseteq RoqSlots /\ NoInst' = NoInst  BY SameProgram DEF Live
  <2>3. QED  BY <1>1, <2>1, <2>2 DEF Window
<1>3. Branches'
  <2>1. {} \in SUBSET Live /\ Live' = Live \ {}  BY <1>1
  <2>2. \A b \in BrqSlots :
          IF BAge(b) < brq_num' THEN BAge(b) < brq_num /\ brq'[b] = brq[b] /\ brq[b] \notin {}
                                ELSE brq'[b] = NoSlot
    BY DEF Branches
  <2>3. \A s \in Ctrl(Live) \ {} : brq'[roq[s].brqid] = s  BY DEF Branches
  <2>4. brq_num' \in Nat  BY Sizes DEF TypeOK
  <2>5. (brq_head' + brq_num') % brq_ifq_size = brq_tail'  BY DEF Branches
  <2>6. QED  BY <2>1, <2>2, <2>3, <2>4, <2>5, BranchesKept
<1>4. Renamed(Live)' = Renamed(Live)
  <2>1. \A s \in Live : RenameRegs(roq'[s]) = RenameRegs(roq[s])  BY DEF RenameRegs
  <2>2. QED  BY <1>1, <2>1, SameProgram DEF Renamed
<1>5. Accesses(Live)' = Accesses(Live)  BY <1>1, SameProgram DEF Accesses
<1>6. QED  BY <1>1, <1>2, <1>3, <1>4, <1>5

\* A step that leaves the queues and the counters alone.
LEMMA Untouched ==
  ASSUME IInv, program' = program, UNCHANGED <<roqVars, brqVars, counts>>, stage' # "map" \/ n' = 0
  PROVE  Window' /\ Branches' /\ Counted' /\ Space' /\ Live' = Live
<1>1. TypeOK /\ Front /\ Window /\ Branches /\ Counted /\ Space  BY DEF IInv
<1>2. /\ UNCHANGED <<roq, roq_head, roq_tail, roq_num, brq, brq_head, brq_tail, brq_num>>
      /\ UNCHANGED <<int_issue_num, int_rename_reg_num, lsq_committed>>
  BY DEF roqVars, brqVars, counts
<1>3. \A s \in Live : roq'[s] \in Insts /\ roq'[s].pc = roq[s].pc /\ roq'[s].brqid = roq[s].brqid
  BY <1>1, <1>2, Held
<1>4. /\ Live' = Live /\ Window' /\ Branches'
      /\ Renamed(Live)' = Renamed(Live) /\ Accesses(Live)' = Accesses(Live)
  BY <1>1, <1>2, <1>3, Rewritten DEF Front
<1>5. Queued(Live)' = Queued(Live)  BY <1>2, <1>4 DEF Queued
<1>6. Counted'  BY <1>1, <1>2, <1>4, <1>5 DEF Counted
<1>7. Space'  BY <1>1, <1>2, <1>4 DEF Space
<1>8. QED  BY <1>4, <1>6, <1>7

-----------------------------------------------------------------------------
(***************************************************************************)
(* The steps that leave the queues alone.                                  *)
(***************************************************************************)

LEMMA IdleKeeps ==
  ASSUME IInv, commit_end \/ check_brq_none \/ map_end \/ UNCHANGED vars
  PROVE  IInv'
<1>1. TypeOK /\ Front /\ Window /\ Branches /\ Counted /\ Space /\ DelaySlots  BY DEF IInv
<1>2. /\ UNCHANGED <<fetchVars, decodeVars, roqVars, brqVars, counts, arch, program>>
      /\ \/ stage' \in {"check_brq", "execute", "decode"} /\ n' = 0
         \/ UNCHANGED <<stage, n>>
  BY DEF commit_end, check_brq_none, map_end, vars, loop, Goto
<1>3. /\ UNCHANGED <<fetch_reg_PC, stall, fetch_data, front, spec_level, decode_data, program>>
      /\ UNCHANGED <<roq, roq_head, roq_tail, roq_num, brq, brq_head, brq_tail, brq_num>>
      /\ UNCHANGED <<int_issue_num, int_rename_reg_num, lsq_committed>>
  BY <1>2 DEF fetchVars, decodeVars, roqVars, brqVars, counts
<1>4. TypeOK'  BY <1>1, <1>2, <1>3, SameProgram DEF TypeOK
<1>5. Front'  BY <1>1, <1>3, SameProgram DEF Front
<1>6. DelaySlots'  BY <1>1, <1>3, SameText DEF DelaySlots
<1>7. CASE stage' # "map" \/ n' = 0
  BY <1>2, <1>3, <1>4, <1>5, <1>6, <1>7, Untouched DEF IInv
<1>8. CASE UNCHANGED <<stage, n>>
  <2>1. Live' = Live  BY <1>3 DEF Live, Age
  <2>2. /\ Ctrl(Live)' = Ctrl(Live) /\ Renamed(Live)' = Renamed(Live)
        /\ Accesses(Live)' = Accesses(Live) /\ Queued(Live)' = Queued(Live)
    BY <1>3, <2>1, SameProgram DEF Ctrl, Renamed, Accesses, Queued
  <2>3. Window'  BY <1>1, <1>3, <2>1, SameProgram DEF Window
  <2>4. Branches'  BY <1>1, <1>3, <2>2 DEF Branches, BAge, RAge
  <2>5. Counted'  BY <1>1, <1>3, <2>2 DEF Counted
  <2>6. Space'  BY <1>1, <1>3, <1>8, <2>2, SameText DEF Space
  <2>7. QED  BY <1>4, <1>5, <1>6, <2>3, <2>4, <2>5, <2>6 DEF IInv
<1>9. QED  BY <1>2, <1>7, <1>8

LEMMA DecodeEndKeeps ==
  ASSUME IInv, decode_end
  PROVE  IInv'
<1>1. TypeOK /\ Front /\ Window /\ Branches /\ Counted /\ Space /\ DelaySlots  BY DEF IInv
<1>2. /\ UNCHANGED <<fetchVars, spec_level, decode_data, roqVars, brqVars, counts, arch, program>>
      /\ stage' = "fetch" /\ n' = 0
      /\ front' = [front EXCEPT !.branches = 0, !.sameCycle = FALSE]
  BY DEF decode_end, Goto
<1>3. /\ UNCHANGED <<fetch_reg_PC, stall, fetch_data, spec_level, decode_data, program>>
      /\ UNCHANGED <<roq, roq_head, roq_tail, roq_num, brq, brq_head, brq_tail, brq_num>>
      /\ UNCHANGED <<int_issue_num, int_rename_reg_num, lsq_committed>>
  BY <1>2 DEF fetchVars, roqVars, brqVars, counts
<1>4. TypeOK'  BY <1>1, <1>2, <1>3, SameProgram DEF TypeOK
<1>5. /\ front' \in Fronts /\ front'.lastIsBranch = front.lastIsBranch
      /\ front'.redirect = front.redirect
  BY <1>1, <1>2 DEF Front, Fronts
<1>6. Front'  BY <1>1, <1>3, <1>5, SameProgram DEF Front
<1>7. DelaySlots'  BY <1>1, <1>3, <1>5, SameText DEF DelaySlots
<1>8. QED  BY <1>2, <1>4, <1>6, <1>7, Untouched DEF IInv

LEMMA FetchKeeps ==
  ASSUME IInv, NEW k \in 0 .. fetch_ifq_size, fetch_stage(k)
  PROVE  IInv'
<1>1. TypeOK /\ Front /\ Window /\ Branches /\ Counted /\ Space /\ DelaySlots  BY DEF IInv
<1> DEFINE new == [i \in 1 .. k |-> Plus(fetch_reg_PC, i - 1)]
<1>2. /\ UNCHANGED <<decodeVars, roqVars, brqVars, counts, arch, program>>
      /\ stage' = "commit" /\ n' = 0 /\ stall' = FALSE
      /\ fetch_data' = fetch_data \o new
      /\ fetch_reg_PC' = Plus(fetch_reg_PC, k)
      /\ CanFetch(k)
  BY DEF fetch_stage, Goto
<1>3. /\ UNCHANGED <<front, spec_level, decode_data, program>>
      /\ UNCHANGED <<roq, roq_head, roq_tail, roq_num, brq, brq_head, brq_tail, brq_num>>
      /\ UNCHANGED <<int_issue_num, int_rename_reg_num, lsq_committed>>
  BY <1>2 DEF decodeVars, roqVars, brqVars, counts
<1>4. program \in Programs /\ k \in Nat /\ fetch_reg_PC \in PCs /\ fetch_data \in Seq(PCs)
  BY <1>1, Sizes DEF Front, TypeOK
<1>5. fetch_reg_PC' \in PCs  BY <1>2, <1>4, Steps
<1>6. /\ new \in Seq(PCs) /\ Len(new) = k
      /\ \A i \in 1 .. k : new[i] = Plus(fetch_reg_PC, i - 1)
  <2>1. \A i \in 1 .. k : Plus(fetch_reg_PC, i - 1) \in PCs  BY <1>4, Steps
  <2>2. new \in [1 .. k -> PCs]  BY <2>1
  <2>3. new \in Seq(PCs)  BY <1>4, <2>2, SeqDef
  <2>4. Len(new) = k  BY <1>4, <2>2, <2>3, LenProperties
  <2>5. QED  BY <2>3, <2>4
<1> HIDE DEF new
<1> DEFINE m == Len(fetch_data)
<1>7. m \in Nat /\ (fetch_data # <<>> <=> m > 0) /\ \A i \in 1 .. m : fetch_data[i] \in PCs
  BY <1>4
<1>8. /\ fetch_data' \in Seq(PCs) /\ Len(fetch_data') = m + k
      /\ \A i \in 1 .. m + k : fetch_data'[i] = IF i <= m THEN fetch_data[i] ELSE new[i - m]
  BY <1>2, <1>4, <1>6, ConcatProperties
<1>9. Len(fetch_data') <= fetch_ifq_size
  <2>1. m + k <= fetch_ifq_size
    BY <1>2 DEF CanFetch
  <2>2. QED  BY <1>8, <2>1
<1>10. TypeOK'  BY <1>1, <1>2, <1>3, <1>5, <1>8, <1>9, SameProgram DEF TypeOK
<1>11. Front'  BY <1>1, <1>3, SameProgram DEF Front
<1>12. Plus(fetch_reg_PC, 0) = fetch_reg_PC
  <2>1. fetch_reg_PC \in 0 .. Outside /\ Outside \in Nat \ {0}  BY <1>4, TheText
  <2>2. QED  BY <2>1 DEF Plus
<1>13. SlotsFollow(fetch_data', fetch_reg_PC', front.lastIsBranch, decode_data)
  <2>1. SlotsFollow(fetch_data, fetch_reg_PC, front.lastIsBranch, decode_data)
    BY <1>1 DEF DelaySlots
  <2>2. ASSUME NEW i \in 1 .. Len(fetch_data') - 1
        PROVE  fetch_data'[i + 1] = Plus(fetch_data'[i], 1)
    <3>1. i \in 1 .. m + k /\ i + 1 \in 1 .. m + k  BY <1>4, <1>7, <1>8
    <3>2. CASE i + 1 <= m
      <4>1. i \in 1 .. Len(fetch_data) - 1  BY <1>7, <3>1, <3>2
      <4>2. QED  BY <1>7, <1>8, <2>1, <3>1, <3>2, <4>1 DEF SlotsFollow
    <3>3. CASE i = m
      <4>1. m > 0 /\ fetch_data'[i] = fetch_data[m] /\ fetch_data'[i + 1] = new[1] /\ 1 \in 1 .. k
        BY <1>4, <1>7, <1>8, <3>1, <3>3
      <4>2. new[1] = fetch_reg_PC  BY <1>6, <1>12, <4>1
      <4>3. fetch_reg_PC = Plus(fetch_data[m], 1)  BY <1>7, <2>1, <4>1 DEF SlotsFollow
      <4>4. QED  BY <4>1, <4>2, <4>3
    <3>4. CASE i > m
      <4>1. /\ i - m \in 1 .. k /\ i + 1 - m \in 1 .. k /\ i - m - 1 \in Nat
            /\ (i + 1 - m) - 1 = (i - m - 1) + 1
        BY <1>4, <1>7, <3>1, <3>4
      <4>2. fetch_data'[i] = new[i - m] /\ fetch_data'[i + 1] = new[i + 1 - m]
        BY <1>4, <1>7, <1>8, <3>1, <3>4
      <4>3. /\ new[i - m] = Plus(fetch_reg_PC, i - m - 1)
            /\ new[i + 1 - m] = Plus(fetch_reg_PC, (i - m - 1) + 1)
        BY <1>6, <4>1
      <4>4. QED  BY <1>4, <4>1, <4>2, <4>3, Steps
    <3>5. QED  BY <1>7, <3>1, <3>2, <3>3, <3>4
  <2>3. fetch_data' # <<>> => fetch_reg_PC' = Plus(fetch_data'[Len(fetch_data')], 1)
    <3>1. SUFFICES ASSUME fetch_data' # <<>>
                   PROVE  fetch_reg_PC' = Plus(fetch_data'[m + k], 1)
      BY <1>8
    <3>2. m + k > 0  BY <1>4, <1>7, <1>8, <3>1
    <3>3. CASE k = 0
      <4>1. fetch_data'[m + k] = fetch_data[m] /\ m > 0  BY <1>4, <1>7, <1>8, <3>2, <3>3
      <4>2. QED  BY <1>2, <1>7, <1>12, <2>1, <3>3, <4>1 DEF SlotsFollow
    <3>4. CASE k > 0
      <4>1. m + k \in 1 .. m + k /\ ~ (m + k <= m) /\ m + k - m = k /\ k \in 1 .. k /\ k - 1 \in Nat
            /\ (k - 1) + 1 = k
        BY <1>4, <1>7, <3>4
      <4>2. fetch_data'[m + k] = Plus(fetch_reg_PC, k - 1)  BY <1>6, <1>8, <4>1
      <4>3. Plus(fetch_reg_PC, k) = Plus(Plus(fetch_reg_PC, k - 1), 1)  BY <1>4, <4>1, Steps
      <4>4. QED  BY <1>2, <4>2, <4>3
    <3>5. QED  BY <1>4, <3>3, <3>4
  <2>4. front.lastIsBranch => ~ IsCtrl(IF fetch_data' = <<>> THEN fetch_reg_PC' ELSE fetch_data'[1])
    <3>1. CASE m > 0
      <4>1. fetch_data' # <<>> /\ fetch_data'[1] = fetch_data[1] /\ fetch_data # <<>>
        BY <1>4, <1>7, <1>8, <3>1
      <4>2. QED  BY <2>1, <4>1 DEF SlotsFollow
    <3>2. CASE m = 0 /\ k > 0
      <4>1. fetch_data' # <<>> /\ fetch_data'[1] = new[1] /\ fetch_data = <<>> /\ 1 \in 1 .. k
        BY <1>4, <1>7, <1>8, <3>2
      <4>2. new[1] = fetch_reg_PC  BY <1>6, <1>12, <4>1
      <4>3. QED  BY <2>1, <4>1, <4>2 DEF SlotsFollow
    <3>3. CASE m = 0 /\ k = 0
      <4>1. fetch_data' = <<>> /\ fetch_data = <<>>  BY <1>4, <1>7, <1>8, <3>3
      <4>2. fetch_reg_PC' = fetch_reg_PC  BY <1>2, <1>12, <3>3
      <4>3. QED  BY <2>1, <4>1, <4>2 DEF SlotsFollow
    <3>4. QED  BY <1>4, <1>7, <3>1, <3>2, <3>3
  <2>5. QED  BY <2>1, <2>2, <2>3, <2>4 DEF SlotsFollow
<1>14. DelaySlots'  BY <1>3, <1>13, SameText
<1>15. QED  BY <1>2, <1>3, <1>10, <1>11, <1>14, Untouched DEF IInv

-----------------------------------------------------------------------------
(***************************************************************************)
(* Resolving a branch, executing, decoding.                                *)
(***************************************************************************)

\* The branch that check_brq resolves.
LEMMA ResolvingBranch ==
  ASSUME TypeOK, Window, Branches, NEW s \in Resolving
  PROVE  /\ s \in Ctrl(Live) /\ s \in Live /\ s \in RoqSlots /\ roq[s] \in Insts
         /\ roq[s].status = "brcompleted"
<1>1. PICK i \in Scanned : s = brq[Nth(i)]  BY DEF Resolving
<1>2. i \in 0 .. brq_num /\ Stops(i) /\ s # NoSlot  BY <1>1 DEF Scanned, Resolving
<1>3. roq[s].status = "brcompleted"  BY <1>1, <1>2 DEF Stops
<1>4. Nth(i) \in BrqSlots
  <2>1. brq_head \in 0 .. brq_ifq_size - 1 /\ i \in 0 .. brq_ifq_size
    BY <1>2, Sizes DEF TypeOK
  <2>2. QED  BY <2>1, Sizes, SlotAt DEF Nth
<1>5. s \in Ctrl(Live)  BY <1>1, <1>2, <1>4 DEF Branches
<1>6. s \in Live  BY <1>5 DEF Ctrl
<1>7. QED  BY <1>3, <1>5, <1>6, Held

LEMMA ResolveKeeps ==
  ASSUME IInv, check_brq_right
  PROVE  IInv'
<1>1. TypeOK /\ Front /\ Window /\ Branches /\ Counted /\ Space /\ DelaySlots  BY DEF IInv
<1>2. PICK s \in Resolving :
        /\ roq' = [roq EXCEPT ![s].status = "completed"]
        /\ stage' = "execute" /\ n' = 0
        /\ UNCHANGED <<fetchVars, decodeVars, roq_head, roq_tail, roq_num, brqVars, counts, arch, program>>
  BY DEF check_brq_right, Resolve, Goto
<1>3. /\ UNCHANGED <<fetch_reg_PC, stall, fetch_data, front, spec_level, decode_data, program>>
      /\ UNCHANGED <<roq_head, roq_tail, roq_num, brq, brq_head, brq_tail, brq_num>>
      /\ UNCHANGED <<int_issue_num, int_rename_reg_num, lsq_committed>>
  BY <1>2 DEF fetchVars, decodeVars, brqVars, counts
<1>4. /\ s \in Live /\ s \in RoqSlots /\ roq[s] \in Insts /\ roq[s].status = "brcompleted"
      /\ roq \in [RoqSlots -> Insts \cup {NoInst}]
  BY <1>1, ResolvingBranch DEF TypeOK
<1> DEFINE rs == [roq[s] EXCEPT !.status = "completed"]
<1>5. rs \in Insts /\ rs.pc = roq[s].pc /\ rs.brqid = roq[s].brqid /\ rs.status = "completed"
  BY <1>4 DEF Insts, Status
<1>6. roq'[s] = rs /\ \A t \in RoqSlots : t # s => roq'[t] = roq[t]  BY <1>2, <1>4
<1>7. roq' \in [RoqSlots -> Insts \cup {NoInst}]  BY <1>2, <1>4, <1>5, <1>6
<1> HIDE DEF rs
<1>8. \A t \in Live : /\ roq'[t] \in Insts /\ roq'[t].pc = roq[t].pc /\ roq'[t].brqid = roq[t].brqid
                      /\ roq'[t].status = "queued" <=> roq[t].status = "queued"
  <2>1. \A t \in Live : t \in RoqSlots /\ roq[t] \in Insts  BY <1>1, Held
  <2>2. QED  BY <1>4, <1>5, <1>6, <2>1
<1>9. \A t \in RoqSlots \ Live : roq'[t] = roq[t]  BY <1>4, <1>6
<1>10. /\ Live' = Live /\ Window' /\ Branches'
       /\ Renamed(Live)' = Renamed(Live) /\ Accesses(Live)' = Accesses(Live)
  BY <1>1, <1>3, <1>8, <1>9, Rewritten DEF Front
<1>11. Queued(Live)' = Queued(Live)  BY <1>3, <1>8, <1>10, SameProgram DEF Queued
<1>12. Counted'  BY <1>1, <1>3, <1>10, <1>11 DEF Counted
<1>13. Space'  BY <1>1, <1>2, <1>3, <1>10 DEF Space
<1>14. TypeOK'  BY <1>1, <1>2, <1>3, <1>7, SameProgram DEF TypeOK
<1>15. Front'  BY <1>1, <1>3, SameProgram DEF Front
<1>16. DelaySlots'  BY <1>1, <1>3, SameText DEF DelaySlots
<1>17. QED  BY <1>10, <1>12, <1>13, <1>14, <1>15, <1>16 DEF IInv

LEMMA ExecuteKeeps ==
  ASSUME IInv, NEW done \in SUBSET Issued, NEW ready \in SUBSET Queued(Live),
         NEW left \in 0 .. lsq_committed, NEW early \in SUBSET TooEarly(done),
         execute(done, early, ready, left)
  PROVE  IInv'
<1>1. TypeOK /\ Front /\ Window /\ Branches /\ Counted /\ Space /\ DelaySlots  BY DEF IInv
<1>2. /\ stage' = "map" /\ n' = 0
      /\ int_issue_num' = int_issue_num - Cardinality(ready)
      /\ lsq_committed' = lsq_committed - left
      /\ UNCHANGED <<fetchVars, decodeVars, roq_head, roq_tail, roq_num, brqVars,
                     int_rename_reg_num, arch, program>>
  BY DEF execute, Goto
<1> DEFINE New(s) ==
       IF s \in done THEN [roq[s] EXCEPT !.status = WrittenBack(roq[s]), !.ex = @ \/ s \in early]
       ELSE IF s \in ready THEN [roq[s] EXCEPT !.status = "issued"]
       ELSE IF s \in early THEN [roq[s] EXCEPT !.ex = TRUE]
       ELSE roq[s]
<1>3. roq' = [s \in RoqSlots |-> New(s)]  BY DEF execute
<1>4. /\ UNCHANGED <<fetch_reg_PC, stall, fetch_data, front, spec_level, decode_data, program>>
      /\ UNCHANGED <<roq_head, roq_tail, roq_num, brq, brq_head, brq_tail, brq_num>>
      /\ UNCHANGED int_rename_reg_num
  BY <1>2 DEF fetchVars, decodeVars, brqVars
<1>5. \A s \in Live : s \in RoqSlots /\ roq[s] \in Insts  BY <1>1, Held
<1>6. done \subseteq Live /\ ready \subseteq Live /\ early \subseteq Live
  BY DEF Issued, Queued, TooEarly, AreLoads
<1>7. \A s \in done : roq[s].status = "issued"  BY DEF Issued
<1>8. \A s \in ready : roq[s].status = "queued"  BY DEF Queued
<1>9. ASSUME NEW s \in Live
      PROVE  /\ roq'[s] \in Insts /\ roq'[s].pc = roq[s].pc /\ roq'[s].brqid = roq[s].brqid
             /\ roq'[s].status = "queued" <=> roq[s].status = "queued" /\ s \notin ready
  <2>1. roq'[s] = New(s) /\ roq[s] \in Insts  BY <1>3, <1>5
  <2>2. CASE s \in done
    <3>1. roq'[s] = [roq[s] EXCEPT !.status = WrittenBack(roq[s]), !.ex = @ \/ s \in early]
      BY <2>1, <2>2
    <3>2. WrittenBack(roq[s]) \in Status /\ WrittenBack(roq[s]) # "queued"  BY DEF WrittenBack, Status
    <3>3. roq[s].status = "issued" /\ s \notin ready  BY <1>7, <1>8, <2>2
    <3> DEFINE x == roq[s].ex \/ s \in early
               r == [roq[s] EXCEPT !.status = WrittenBack(roq[s]), !.ex = x]
    <3>4. x \in BOOLEAN  OBVIOUS
    <3> HIDE DEF x
    <3>5. r \in Insts /\ r.pc = roq[s].pc /\ r.brqid = roq[s].brqid /\ r.status = WrittenBack(roq[s])
      BY <2>1, <3>2, <3>4 DEF Insts
    <3>6. roq'[s] = r  BY <3>1 DEF x
    <3> HIDE DEF r
    <3>7. QED  BY <3>2, <3>3, <3>5, <3>6
  <2>3. CASE s \notin done /\ s \in ready
    <3> DEFINE r == [roq[s] EXCEPT !.status = "issued"]
    <3>1. r \in Insts /\ r.pc = roq[s].pc /\ r.brqid = roq[s].brqid /\ r.status = "issued"
      BY <2>1 DEF Insts, Status
    <3>2. roq'[s] = r  BY <2>1, <2>3
    <3> HIDE DEF r
    <3>3. QED  BY <2>3, <3>1, <3>2
  <2>4. CASE s \notin done /\ s \notin ready /\ s \in early
    <3> DEFINE r == [roq[s] EXCEPT !.ex = TRUE]
    <3>1. r \in Insts /\ r.pc = roq[s].pc /\ r.brqid = roq[s].brqid /\ r.status = roq[s].status
      BY <2>1 DEF Insts
    <3>2. roq'[s] = r  BY <2>1, <2>4
    <3> HIDE DEF r
    <3>3. QED  BY <2>4, <3>1, <3>2
  <2>5. CASE s \notin done /\ s \notin ready /\ s \notin early
    <3>1. roq'[s] = roq[s]  BY <2>1, <2>5
    <3>2. QED  BY <2>1, <2>5, <3>1
  <2>6. QED  BY <2>2, <2>3, <2>4, <2>5
<1>10. \A s \in RoqSlots \ Live : roq'[s] = roq[s]  BY <1>3, <1>6
<1> HIDE DEF New
<1>11. roq' \in [RoqSlots -> Insts \cup {NoInst}]
  <2>1. \A s \in RoqSlots : roq'[s] \in Insts \cup {NoInst}
    <3>1. roq \in [RoqSlots -> Insts \cup {NoInst}]  BY <1>1 DEF TypeOK
    <3>2. QED  BY <1>9, <1>10, <3>1
  <2>2. QED  BY <1>3, <2>1
<1>12. /\ Live' = Live /\ Window' /\ Branches'
       /\ Renamed(Live)' = Renamed(Live) /\ Accesses(Live)' = Accesses(Live)
  BY <1>1, <1>4, <1>9, <1>10, Rewritten DEF Front
<1>13. Queued(Live)' = Queued(Live) \ ready
  <2>1. Queued(Live)' = {s \in Live : roq'[s].status = "queued"}  BY <1>4, <1>12, SameProgram
  <2>2. QED  BY <1>9, <2>1 DEF Queued
<1>14. /\ int_issue_num' = Cardinality(Queued(Live)')
       /\ int_issue_num' \in Nat /\ int_issue_num' <= int_issue_num
  <2>1. IsFiniteSet(Queued(Live))  BY <1>1, Finite
  <2>2. IsFiniteSet(ready) /\ Queued(Live) \cap ready = ready  BY <2>1, FS_Subset
  <2>3. IsFiniteSet(Queued(Live) \ ready)
        /\ Cardinality(Queued(Live) \ ready) = Cardinality(Queued(Live)) - Cardinality(ready)
    BY <2>1, <2>2, FS_Difference
  <2>4. int_issue_num' = Cardinality(Queued(Live) \ ready)  BY <1>1, <1>2, <2>3 DEF Counted
  <2>5. int_issue_num' \in Nat /\ Cardinality(ready) \in Nat  BY <2>2, <2>3, <2>4, FS_CardinalityType
  <2>6. int_issue_num \in Nat  BY <1>1, Sizes DEF TypeOK
  <2>7. QED  BY <1>2, <1>13, <2>4, <2>5, <2>6
<1>15. Counted'  BY <1>1, <1>4, <1>12, <1>14 DEF Counted
<1>16. lsq_committed' \in 0 .. lsq_committed  BY <1>1, <1>2, Sizes DEF TypeOK
<1>17. Space'
  <2>1. Cardinality(Accesses(Live)) \in Nat
    <3>1. IsFiniteSet(Accesses(Live))  BY <1>1, Finite
    <3>2. QED  BY <3>1, FS_CardinalityType
  <2>2. lsq_committed \in Nat /\ lsq_ifq_size \in Nat  BY <1>1, Sizes DEF TypeOK
  <2>3. Cardinality(Accesses(Live)) + lsq_committed' <= lsq_ifq_size
    BY <1>1, <1>16, <2>1, <2>2 DEF Space
  <2>4. QED  BY <1>2, <1>12, <2>3 DEF Space
<1>18. TypeOK'
  <2>1. int_issue_num' \in 0 .. int_issue_ifq_size  BY <1>1, <1>14, Sizes DEF TypeOK
  <2>2. lsq_committed' \in 0 .. lsq_ifq_size  BY <1>1, <1>16, Sizes DEF TypeOK
  <2>3. QED  BY <1>1, <1>2, <1>4, <1>11, <2>1, <2>2, SameProgram DEF TypeOK
<1>19. Front'  BY <1>1, <1>4, SameProgram DEF Front
<1>20. DelaySlots'  BY <1>1, <1>4, SameText DEF DelaySlots
<1>21. QED  BY <1>12, <1>15, <1>17, <1>18, <1>19, <1>20 DEF IInv

\* Where a prediction may point.
LEMMA PredictedPCs ==
  ASSUME program \in Programs, NEW pc \in PCs, NEW pred \in Predictions(pc)
  PROVE  pred \in PCs
<1>1. Outside \in Nat \ {0} /\ PCs = 0 .. Outside /\ Plus(pc, 1) \in PCs
  <2>1. Outside \in Nat \ {0} /\ PCs = 0 .. Outside  BY TheText
  <2>2. Plus(pc, 1) \in PCs  BY Steps
  <2>3. QED  BY <2>1, <2>2
<1>2. ASSUME Kind(pc) \in Controls PROVE Target[pc] \in PCs
  <2>1. Target[pc] \in 0 .. Outside - 1  BY <1>2, TheText DEF IsCtrl
  <2>2. QED  BY <1>1, <2>1
<1>3. CASE Kind(pc) = "branch"
  <2>1. Predictions(pc) = {Target[pc], Plus(pc, 1)}  BY <1>3 DEF Predictions
  <2>2. QED  BY <1>1, <1>2, <1>3, <2>1 DEF Controls
<1>4. CASE Kind(pc) = "likely"
  <2>1. Predictions(pc) = {Target[pc]}  BY <1>4 DEF Predictions
  <2>2. QED  BY <1>2, <1>4, <2>1 DEF Controls
<1>5. CASE Kind(pc) = "jump_reg"
  <2>1. Predictions(pc) = PCs  BY <1>5 DEF Predictions
  <2>2. QED  BY <2>1
<1>6. CASE Kind(pc) \notin {"branch", "likely", "jump_reg"}
  <2>1. Predictions(pc) = {Plus(pc, 1)}  BY <1>6 DEF Predictions
  <2>2. QED  BY <1>1, <2>1
<1>7. QED  BY <1>3, <1>4, <1>5, <1>6

\* Only a branch is taken.
LEMMA OutcomesOf ==
  ASSUME NEW pc, NEW taken \in Outcomes(pc)
  PROVE  taken \in BOOLEAN /\ (taken => IsCtrl(pc))
<1>1. CASE Kind(pc) \in {"branch", "likely"}
  <2>1. Outcomes(pc) = BOOLEAN  BY <1>1 DEF Outcomes
  <2>2. QED  BY <1>1, <2>1 DEF IsCtrl, Controls
<1>2. CASE Kind(pc) = "jump_reg"
  <2>1. Outcomes(pc) = {TRUE}  BY <1>2 DEF Outcomes
  <2>2. QED  BY <1>2, <2>1 DEF IsCtrl, Controls
<1>3. CASE Kind(pc) \notin {"branch", "likely", "jump_reg"}
  <2>1. Outcomes(pc) = {FALSE}  BY <1>3 DEF Outcomes
  <2>2. QED  BY <2>1
<1>4. QED  BY <1>1, <1>2, <1>3

\* What decode makes of an instruction.
LEMMA DecodedInst ==
  ASSUME Front, TypeOK, NEW pc \in PCs, NEW taken \in Outcomes(pc), NEW pred \in Predictions(pc)
  PROVE  /\ Decoded(pc, taken, pred) \in Insts /\ Decoded(pc, taken, pred).pc = pc
         /\ Decoded(pc, taken, pred).mis_predict => IsCtrl(pc)
<1> DEFINE next == IF front.jump # NoPC THEN front.jump ELSE Plus(pc, 1)
           mis == IsCtrl(pc) /\ pred # (IF taken THEN Target[pc] ELSE Plus(pc, 1))
           rs == [pc |-> pc, npc |-> next, spec_level |-> spec_level, bd |-> front.lastIsBranch,
                  taken |-> taken, mis_predict |-> mis, status |-> "decoded", ex |-> FALSE,
                  brqid |-> NoSlot]
<1>1. next \in PCs
  <2>1. Plus(pc, 1) \in PCs  BY Steps DEF Front
  <2>2. front.jump \in PCs \cup {NoPC}  BY DEF Front, Fronts
  <2>3. QED  BY <2>1, <2>2
<1>2. mis \in BOOLEAN /\ (mis => IsCtrl(pc))  OBVIOUS
<1>3. front.lastIsBranch \in BOOLEAN /\ taken \in BOOLEAN  BY OutcomesOf DEF Front, Fronts
<1>4. spec_level \in Nat  BY DEF TypeOK
<1>5. Decoded(pc, taken, pred) = rs  BY DEF Decoded
<1> HIDE DEF next, mis
<1>6. rs \in Insts  BY <1>1, <1>2, <1>3, <1>4 DEF Insts, Status
<1>7. rs.pc = pc /\ rs.mis_predict = mis  OBVIOUS
<1> HIDE DEF rs
<1>8. QED  BY <1>2, <1>5, <1>6, <1>7

LEMMA DecodeKeeps ==
  ASSUME IInv, decode_one
  PROVE  IInv'
<1>1. TypeOK /\ Front /\ Window /\ Branches /\ Counted /\ Space /\ DelaySlots  BY DEF IInv
<1> DEFINE pc == fetch_data[1]
<1>2. PICK taken \in Outcomes(pc), pred \in Predictions(pc) :
        LET rs == Decoded(pc, taken, pred)
            redirects == ~ (front.redirect # NoPC) /\ IsCtrl(pc) /\ PredTaken(pc, pred)
        IN /\ decode_data' = Append(decode_data, rs)
           /\ spec_level' = IF DeeperNow(rs) THEN spec_level + 1 ELSE spec_level
           /\ front' = [lastIsBranch |-> IsCtrl(pc),
                        jump |-> IF taken THEN Target[pc] ELSE NoPC,
                        redirect |-> IF redirects THEN pred ELSE NoPC,
                        entering |-> ~ DeeperNow(rs) /\ rs.mis_predict,
                        branches |-> front.branches + IF front.lastIsBranch THEN 1 ELSE 0,
                        sameCycle |-> front.sameCycle \/ redirects]
  BY DEF decode_one
<1>3. /\ stage = "decode" /\ CanDecode /\ stage' = stage /\ n' = n + 1
      /\ UNCHANGED <<roqVars, brqVars, counts, arch, program>>
      /\ IF front.redirect # NoPC
         THEN /\ fetch_data' = <<>> /\ fetch_reg_PC' = front.redirect
              /\ stall' = (stall \/ front.sameCycle)
         ELSE fetch_data' = Tail(fetch_data) /\ fetch_reg_PC' = fetch_reg_PC /\ stall' = stall
  BY DEF decode_one
<1>4. /\ UNCHANGED <<roq, roq_head, roq_tail, roq_num, brq, brq_head, brq_tail, brq_num>>
      /\ UNCHANGED <<int_issue_num, int_rename_reg_num, lsq_committed, program>>
  BY <1>3 DEF roqVars, brqVars, counts
<1>5. /\ fetch_data \in Seq(PCs) /\ fetch_data # <<>> /\ Len(decode_data) < decode_ifq_size
      /\ decode_data \in Seq(Insts) /\ fetch_reg_PC \in PCs /\ spec_level \in Nat /\ n \in Nat
      /\ program \in Programs /\ front \in Fronts /\ Len(fetch_data) <= fetch_ifq_size
  BY <1>1, <1>3 DEF CanDecode, TypeOK, Front
<1>6. pc \in PCs /\ Len(fetch_data) \in Nat /\ Len(fetch_data) >= 1 /\ 1 \in 1 .. Len(fetch_data)
  BY <1>5, EmptySeq, ElementOfSeq
<1> HIDE DEF pc
<1> DEFINE rs == Decoded(pc, taken, pred)
           redirects == ~ (front.redirect # NoPC) /\ IsCtrl(pc) /\ PredTaken(pc, pred)
<1>7. rs \in Insts /\ rs.pc = pc /\ (rs.mis_predict => IsCtrl(pc))
  BY <1>1, <1>6, DecodedInst
<1>8. /\ decode_data' = Append(decode_data, rs)
      /\ spec_level' \in {spec_level, spec_level + 1}
      /\ front' = [lastIsBranch |-> IsCtrl(pc),
                   jump |-> IF taken THEN Target[pc] ELSE NoPC,
                   redirect |-> IF redirects THEN pred ELSE NoPC,
                   entering |-> ~ DeeperNow(rs) /\ rs.mis_predict,
                   branches |-> front.branches + IF front.lastIsBranch THEN 1 ELSE 0,
                   sameCycle |-> front.sameCycle \/ redirects]
  BY <1>2
<1> HIDE DEF rs, redirects
<1>9. /\ front' \in Fronts /\ front'.lastIsBranch = IsCtrl(pc)
      /\ front'.redirect # NoPC => IsCtrl(pc)
  <2> DEFINE jump == IF taken THEN Target[pc] ELSE NoPC
             redirect == IF redirects THEN pred ELSE NoPC
             entering == ~ DeeperNow(rs) /\ rs.mis_predict
             branches == front.branches + IF front.lastIsBranch THEN 1 ELSE 0
             same == front.sameCycle \/ redirects
             last == IsCtrl(pc)
  <2>1. last \in BOOLEAN /\ entering \in BOOLEAN /\ same \in BOOLEAN  BY DEF IsCtrl
  <2>2. jump \in PCs \cup {NoPC}
    <3>1. taken => Target[pc] \in 0 .. Outside - 1  BY <1>5, <1>6, OutcomesOf, TheText
    <3>2. PCs = 0 .. Outside /\ Outside \in Nat  BY <1>5, TheText
    <3>3. QED  BY <3>1, <3>2
  <2>3. redirect \in PCs \cup {NoPC}  BY <1>5, <1>6, PredictedPCs
  <2>4. branches \in Nat
    <3>1. front.branches \in Nat  BY <1>5 DEF Fronts
    <3>2. QED  BY <3>1
  <2>5. redirect # NoPC => last  BY DEF redirects
  <2>6. front' = [lastIsBranch |-> last, jump |-> jump, redirect |-> redirect,
                  entering |-> entering, branches |-> branches, sameCycle |-> same]
    BY <1>8
  <2> HIDE DEF jump, redirect, entering, branches, same, last
  <2>7. front' \in Fronts  BY <2>1, <2>2, <2>3, <2>4, <2>6 DEF Fronts
  <2>8. front'.lastIsBranch = last /\ front'.redirect = redirect  BY <2>6
  <2>9. QED  BY <2>5, <2>7, <2>8 DEF last
<1>10. Front'  BY <1>4, <1>5, <1>9, SameProgram DEF Front
<1>11. /\ decode_data' \in Seq(Insts) /\ Len(decode_data') = Len(decode_data) + 1
       /\ \A i \in 1 .. Len(decode_data) + 1 :
            decode_data'[i] = IF i <= Len(decode_data) THEN decode_data[i] ELSE rs
       /\ Len(decode_data) \in Nat
  BY <1>5, <1>7, <1>8
<1>12. fetch_data' \in Seq(PCs) /\ Len(fetch_data') <= fetch_ifq_size /\ fetch_reg_PC' \in PCs
  <2>1. CASE front.redirect # NoPC
    <3>1. front.redirect \in PCs  BY <1>5, <2>1 DEF Fronts
    <3>2. QED  BY <1>3, <2>1, <3>1, EmptySeq, Sizes
  <2>2. CASE ~ (front.redirect # NoPC)
    <3>1. Tail(fetch_data) \in Seq(PCs) /\ Len(Tail(fetch_data)) = Len(fetch_data) - 1
      BY <1>5, HeadTailProperties
    <3>2. QED  BY <1>3, <1>5, <1>6, <2>2, <3>1, Sizes
  <2>3. QED  BY <2>1, <2>2
<1>13. TypeOK'
  <2>1. stall' \in BOOLEAN  BY <1>1, <1>3 DEF TypeOK
  <2>2. Len(decode_data') <= decode_ifq_size /\ spec_level' \in Nat /\ n' \in Nat
    BY <1>3, <1>5, <1>8, <1>11, Sizes
  <2>3. QED  BY <1>1, <1>3, <1>4, <1>11, <1>12, <2>1, <2>2, SameProgram DEF TypeOK
<1>14. SlotsFollow(fetch_data', fetch_reg_PC', front'.lastIsBranch, decode_data')
  <2>1. SlotsFollow(fetch_data, fetch_reg_PC, front.lastIsBranch, decode_data)
    BY <1>1 DEF DelaySlots
  <2>2. front.lastIsBranch => ~ IsCtrl(pc)  BY <1>5, <2>1 DEF SlotsFollow, pc
  <2>3. ASSUME NEW i \in 1 .. Len(decode_data') - 1, IsCtrl(decode_data'[i].pc)
        PROVE  ~ IsCtrl(decode_data'[i + 1].pc)
    <3>1. CASE i < Len(decode_data)
      <4>1. i \in 1 .. Len(decode_data) - 1 /\ i <= Len(decode_data) /\ i + 1 <= Len(decode_data)
            /\ i \in 1 .. Len(decode_data) + 1 /\ i + 1 \in 1 .. Len(decode_data) + 1
        BY <1>11, <3>1
      <4>2. QED  BY <1>11, <2>1, <2>3, <4>1 DEF SlotsFollow
    <3>2. CASE ~ (i < Len(decode_data))
      <4>1. i = Len(decode_data) /\ i \in 1 .. Len(decode_data) + 1 /\ i + 1 \in 1 .. Len(decode_data) + 1
            /\ ~ (i + 1 <= Len(decode_data)) /\ i <= Len(decode_data) /\ decode_data # <<>>
        BY <1>5, <1>11, <3>2
      <4>2. decode_data'[i] = decode_data[Len(decode_data)] /\ decode_data'[i + 1].pc = pc
        BY <1>7, <1>11, <4>1
      <4>3. front.lastIsBranch  BY <2>1, <2>3, <4>1, <4>2 DEF SlotsFollow
      <4>4. QED  BY <2>2, <4>2, <4>3
    <3>3. QED  BY <3>1, <3>2
  <2>4. decode_data' # <<>> => (front'.lastIsBranch <=> IsCtrl(decode_data'[Len(decode_data')].pc))
    <3>1. decode_data'[Len(decode_data')] = rs
      <4>1. Len(decode_data) + 1 \in 1 .. Len(decode_data) + 1 /\ ~ (Len(decode_data) + 1 <= Len(decode_data))
        BY <1>11
      <4>2. QED  BY <1>11, <4>1
    <3>2. QED  BY <1>7, <1>9, <3>1
  <2>5. CASE front.redirect # NoPC
    <3>1. ~ IsCtrl(pc)  BY <1>1, <2>2, <2>5 DEF Front
    <3>2. fetch_data' = <<>>  BY <1>3, <2>5
    <3>3. \A i \in 1 .. Len(fetch_data') - 1 : FALSE  BY <3>2, EmptySeq
    <3>4. QED  BY <1>9, <2>3, <2>4, <3>1, <3>2, <3>3 DEF SlotsFollow
  <2>6. CASE ~ (front.redirect # NoPC)
    <3> DEFINE g == Tail(fetch_data)
    <3>1. /\ fetch_data' = g /\ fetch_reg_PC' = fetch_reg_PC
          /\ g \in Seq(PCs) /\ Len(g) = Len(fetch_data) - 1
          /\ \A i \in 1 .. Len(g) : g[i] = fetch_data[i + 1]
      BY <1>3, <1>5, <2>6, HeadTailProperties
    <3> HIDE DEF g
    <3>2. \A i \in 1 .. Len(g) - 1 : g[i + 1] = Plus(g[i], 1)
      <4>1. SUFFICES ASSUME NEW i \in 1 .. Len(g) - 1 PROVE g[i + 1] = Plus(g[i], 1)  OBVIOUS
      <4>2. i \in 1 .. Len(g) /\ i + 1 \in 1 .. Len(g) /\ i + 1 \in 1 .. Len(fetch_data) - 1
        BY <1>6, <3>1
      <4>3. g[i] = fetch_data[i + 1] /\ g[i + 1] = fetch_data[(i + 1) + 1]  BY <3>1, <4>2
      <4>4. QED  BY <2>1, <4>2, <4>3 DEF SlotsFollow
    <3>3. g # <<>> => fetch_reg_PC = Plus(g[Len(g)], 1)
      <4>1. SUFFICES ASSUME g # <<>> PROVE fetch_reg_PC = Plus(g[Len(g)], 1)  OBVIOUS
      <4>2. Len(g) \in 1 .. Len(g) /\ Len(g) + 1 = Len(fetch_data)
        BY <1>6, <3>1, <4>1, EmptySeq
      <4>3. g[Len(g)] = fetch_data[Len(fetch_data)]  BY <3>1, <4>2
      <4>4. QED  BY <1>5, <2>1, <4>3 DEF SlotsFollow
    <3>4. (IF g = <<>> THEN fetch_reg_PC ELSE g[1]) = Plus(pc, 1)
      <4>1. CASE g = <<>>
        <5>1. Len(fetch_data) = 1  BY <1>6, <3>1, <4>1, EmptySeq
        <5>2. fetch_reg_PC = Plus(fetch_data[1], 1)  BY <1>5, <2>1, <5>1 DEF SlotsFollow
        <5>3. QED  BY <4>1, <5>2 DEF pc
      <4>2. CASE g # <<>>
        <5>1. Len(g) \in Nat \ {0}  BY <3>1, <4>2, EmptySeq
        <5>2. 1 \in 1 .. Len(g) /\ 1 \in 1 .. Len(fetch_data) - 1  BY <1>6, <3>1, <5>1
        <5>3. g[1] = fetch_data[1 + 1]  BY <3>1, <5>2
        <5>4. fetch_data[1 + 1] = Plus(fetch_data[1], 1)  BY <2>1, <5>2 DEF SlotsFollow
        <5>5. QED  BY <4>2, <5>3, <5>4 DEF pc
      <4>3. QED  BY <4>1, <4>2
    <3>5. IsCtrl(pc) => ~ IsCtrl(IF g = <<>> THEN fetch_reg_PC ELSE g[1])
      BY <1>5, <1>6, <3>4, Steps
    <3>6. QED  BY <1>9, <2>3, <2>4, <3>1, <3>2, <3>3, <3>5 DEF SlotsFollow
  <2>7. QED  BY <2>5, <2>6
<1>15. DelaySlots'  BY <1>4, <1>14, SameText
<1>16. QED  BY <1>3, <1>4, <1>10, <1>13, <1>15, Untouched DEF IInv

-----------------------------------------------------------------------------
(***************************************************************************)
(* Retiring, flushing, recovering.                                         *)
(***************************************************************************)

\* Counters after a removal of what they count.
LEMMA Lowered ==
  ASSUME IInv, program' = program, NEW G \in SUBSET Live, Live' = Live \ G,
         \A s \in Live \ G : /\ roq'[s].pc = roq[s].pc
                             /\ roq'[s].status = "queued" <=> roq[s].status = "queued",
         int_issue_num' = int_issue_num - Cardinality(Queued(G)),
         int_rename_reg_num' = int_rename_reg_num - Cardinality(Renamed(G))
  PROVE  /\ Counted'
         /\ int_issue_num' \in 0 .. int_issue_ifq_size
         /\ int_rename_reg_num' \in 0 .. int_rename_reg_size
<1>1. TypeOK /\ Counted  BY DEF IInv
<1>2. /\ Cardinality(Queued(Live)') = Cardinality(Queued(Live)) - Cardinality(Queued(G))
      /\ Cardinality(Renamed(Live)') = Cardinality(Renamed(Live)) - Cardinality(Renamed(G))
      /\ Cardinality(Queued(Live)') \in Nat /\ Cardinality(Renamed(Live)') \in Nat
  BY <1>1, Removed
<1>3. /\ int_issue_num' = Cardinality(Queued(Live)')
      /\ int_rename_reg_num' = Cardinality(Renamed(Live)')
  BY <1>1, <1>2 DEF Counted
<1>4. Cardinality(Queued(G)) \in Nat /\ Cardinality(Renamed(G)) \in Nat
  <2>1. IsFiniteSet(Queued(G)) /\ IsFiniteSet(Renamed(G))  BY <1>1, Finite
  <2>2. QED  BY <2>1, FS_CardinalityType
<1>5. /\ int_issue_num \in 0 .. int_issue_ifq_size /\ int_rename_reg_num \in 0 .. int_rename_reg_size
      /\ int_issue_ifq_size \in Nat /\ int_rename_reg_size \in Nat
  BY <1>1, Sizes DEF TypeOK
<1>6. int_issue_num' \in 0 .. int_issue_ifq_size  BY <1>2, <1>3, <1>4, <1>5
<1>7. int_rename_reg_num' \in 0 .. int_rename_reg_size  BY <1>2, <1>3, <1>4, <1>5
<1>8. QED  BY <1>3, <1>6, <1>7 DEF Counted

LEMMA FlushKeeps ==
  ASSUME IInv, pipeline_flush
  PROVE  IInv'
<1>1. TypeOK /\ Front /\ Window /\ Branches /\ Counted /\ Space /\ DelaySlots  BY DEF IInv
<1>2. /\ stage = "commit" /\ roq_num > 0 /\ stage' = "check_brq" /\ n' = 0
      /\ spec_level' = 0 /\ fetch_data' = <<>> /\ decode_data' = <<>>
      /\ fetch_reg_PC' = recover_PC(Oldest) /\ front' = Idle
      /\ Squash(Live)
      /\ roq' = [s \in RoqSlots |-> NoInst]
      /\ roq_head' = 0 /\ roq_tail' = 0 /\ roq_num' = 0 /\ stall' = TRUE
      /\ program' = program
  BY DEF pipeline_flush, CanCommit, tracer_recover, Goto
<1>3. Live' = {}
  <2>1. \A s \in RoqSlots : AgeOn(roq_ifq_size, 0, s) \in 0 .. roq_ifq_size - 1
    <3>1. 0 \in 0 .. roq_ifq_size - 1  BY Sizes
    <3>2. QED  BY <3>1, Sizes, AgeValue
  <2>2. \A s \in RoqSlots : ~ (AgeOn(roq_ifq_size, 0, s) < 0)  BY <2>1, Sizes
  <2>3. QED  BY <1>2, <2>2 DEF Live, Age, AgeOn
<1>4. /\ brq' \in [BrqSlots -> RoqSlots \cup {NoSlot}] /\ brq_head' = brq_head
      /\ brq_tail' \in BrqSlots /\ brq_num' \in 0 .. brq_num
      /\ (brq_head' + brq_num') % brq_ifq_size = brq_tail'
      /\ \A b \in BrqSlots :
           IF BAge(b) < brq_num' THEN BAge(b) < brq_num /\ brq'[b] = brq[b] /\ brq[b] \notin Live
                                 ELSE brq'[b] = NoSlot
  BY <1>1, <1>2, SquashQueue
<1>5. \A b \in BrqSlots : ~ (BAge(b) < brq_num') /\ brq'[b] = NoSlot
  BY <1>1, <1>4 DEF Branches, Ctrl
<1>6. Branches'
  <2>1. Ctrl(Live)' = {}  BY <1>3 DEF Ctrl
  <2>2. \A b : BAge(b)' = BAge(b)  BY <1>4 DEF BAge
  <2>3. \A b \in BrqSlots : ~ (BAge(b)' < brq_num')  BY <1>5, <2>2
  <2>4. QED  BY <1>4, <1>5, <2>1, <2>3 DEF Branches
<1>7. Window'
  <2>1. (0 + 0) % roq_ifq_size = 0  BY Sizes
  <2>2. {} = {s \in RoqSlots : roq'[s] # NoInst'}  BY <1>2, SameProgram
  <2>3. QED  BY <1>2, <1>3, <2>1, <2>2 DEF Window
<1>8. /\ Counted' /\ int_issue_num' \in 0 .. int_issue_ifq_size
      /\ int_rename_reg_num' \in 0 .. int_rename_reg_size
  <2>1. Live \in SUBSET Live /\ Live' = Live \ Live  BY <1>3
  <2>2. /\ int_issue_num' = int_issue_num - Cardinality(Queued(Live))
        /\ int_rename_reg_num' = int_rename_reg_num - Cardinality(Renamed(Live))
    BY <1>2 DEF Squash
  <2>3. QED  BY <1>2, <2>1, <2>2, Lowered
<1>9. lsq_committed' = lsq_committed  BY <1>2 DEF Squash
<1>10. Space'
  <2>1. Accesses(Live)' = {}  BY <1>3 DEF Accesses
  <2>2. Cardinality(Accesses(Live)') = 0  BY <2>1, FS_EmptySet
  <2>3. 0 + lsq_committed <= lsq_ifq_size  BY <1>1, Sizes DEF TypeOK
  <2>4. QED  BY <1>2, <1>9, <2>2, <2>3 DEF Space
<1>11. fetch_reg_PC' \in PCs
  <2>1. roq_head \in RoqSlots /\ roq_head \in Live
    <3>1. roq_head \in 0 .. roq_ifq_size - 1 /\ roq_head - roq_head = 0  BY <1>1, Sizes DEF TypeOK
    <3>2. 0 % roq_ifq_size = 0  BY Sizes
    <3>3. Age(roq_head) = 0  BY <3>1, <3>2 DEF Age
    <3>4. QED  BY <1>2, <3>1, <3>3, Sizes DEF Live
  <2>2. Oldest \in Insts  BY <1>1, <2>1, Held DEF Oldest
  <2>3. Oldest.pc \in PCs  BY <1>1, <2>2, InstFields DEF Front
  <2>4. -1 \in Int  OBVIOUS
  <2>5. Plus(Oldest.pc, -1) \in PCs  BY <1>1, <2>3, <2>4, Steps DEF Front
  <2>6. QED  BY <1>2, <2>3, <2>5 DEF recover_PC
<1>12. TypeOK'
  <2>1. roq' \in [RoqSlots -> Insts \cup {NoInst}]  BY <1>2
  <2>2. 0 \in RoqSlots /\ roq_num' \in 0 .. roq_ifq_size  BY <1>2, Sizes
  <2>3. brq_num' \in 0 .. brq_ifq_size /\ brq_head' \in BrqSlots  BY <1>1, <1>4, Sizes DEF TypeOK
  <2>4. /\ fetch_data' \in Seq(PCs) /\ Len(fetch_data') <= fetch_ifq_size
        /\ decode_data' \in Seq(Insts) /\ Len(decode_data') <= decode_ifq_size
    BY <1>2, EmptySeq, Sizes
  <2>5. n' \in Nat /\ spec_level' \in Nat /\ stall' \in BOOLEAN  BY <1>2
  <2>6. QED  BY <1>1, <1>2, <1>4, <1>8, <1>9, <1>11, <2>1, <2>2, <2>3, <2>4, <2>5, SameProgram DEF TypeOK
<1>13. Front'
  <2>1. Idle \in Fronts  BY DEF Idle, Fronts
  <2>2. Idle.redirect = NoPC  BY DEF Idle
  <2>3. QED  BY <1>1, <1>2, <2>1, <2>2, SameProgram DEF Front
<1>14. DelaySlots'
  <2>1. SlotsFollow(<<>>, fetch_reg_PC', FALSE, <<>>)  BY EmptySeq DEF SlotsFollow
  <2>2. front'.lastIsBranch = FALSE  BY <1>2 DEF Idle
  <2>3. QED  BY <1>2, <2>1, <2>2, SameText
<1>15. QED  BY <1>6, <1>7, <1>8, <1>10, <1>12, <1>13, <1>14 DEF IInv

\* A slot is where its age says.
LEMMA WhereAgeSays ==
  ASSUME TypeOK, NEW s \in RoqSlots
  PROVE  (roq_head + RAge(s)) % roq_ifq_size = s
<1>1. roq_ifq_size \in Nat \ {0} /\ roq_head \in 0 .. roq_ifq_size - 1 /\ s \in 0 .. roq_ifq_size - 1
  BY Sizes DEF TypeOK
<1>2. RAge(s) \in 0 .. roq_ifq_size - 1  BY RoqAges
<1> DEFINE t == (roq_head + RAge(s)) % roq_ifq_size
<1>3. t \in 0 .. roq_ifq_size - 1 /\ AgeOn(roq_ifq_size, roq_head, t) = RAge(s)
  BY <1>1, <1>2, SlotOfAge
<1> HIDE DEF t
<1>4. t = s  BY <1>1, <1>3, AgeUnique DEF RAge
<1>5. QED  BY <1>4 DEF t

\* The reorder queue cut behind slot k.
LEMMA CutBehind ==
  ASSUME TypeOK, Window, NEW k \in Live
  PROVE  /\ Younger(k) \in SUBSET Live /\ k \notin Younger(k)
         /\ Younger(k) = {t \in Live : RAge(t) > RAge(k)}
         /\ \A s \in Younger(k), t \in Live : RAge(t) > RAge(s) => t \in Younger(k)
         /\ roq_num - Cardinality(Younger(k)) = RAge(k) + 1
         /\ RAge(k) + 1 \in 1 .. roq_num
         /\ (roq_head + (RAge(k) + 1)) % roq_ifq_size = (k + 1) % roq_ifq_size
         /\ (k + 1) % roq_ifq_size \in RoqSlots
         /\ Live \ Younger(k) = {t \in RoqSlots : RAge(t) < RAge(k) + 1}
<1> DEFINE N == roq_ifq_size
           a == RAge(k)
<1>1. /\ N \in Nat \ {0} /\ roq_head \in 0 .. N - 1 /\ roq_num \in 0 .. N /\ RoqSlots = 0 .. N - 1
      /\ \A s \in RoqSlots : RAge(s) \in 0 .. N - 1 /\ Age(s) = RAge(s)
      /\ Live = {s \in RoqSlots : RAge(s) < roq_num}
  BY Sizes, RoqAges DEF TypeOK
<1>2. k \in RoqSlots /\ a \in 0 .. N - 1 /\ a < roq_num  BY <1>1
<1>3. Younger(k) = {t \in Live : RAge(t) > a}  BY <1>1 DEF Younger
<1>4. Younger(k) = WindowOn(N, roq_head, a + 1, roq_num)
  <2>1. ASSUME NEW t \in RoqSlots PROVE RAge(t) > a <=> a + 1 <= RAge(t)
    <3>1. RAge(t) \in Int /\ a \in Int  BY <1>1, <1>2
    <3> HIDE DEF a
    <3>2. QED  BY <3>1
  <2>2. WindowOn(N, roq_head, a + 1, roq_num) = {t \in RoqSlots : a + 1 <= RAge(t) /\ RAge(t) < roq_num}
    BY <1>1 DEF WindowOn, RAge
  <2>3. QED  BY <1>1, <1>3, <2>1, <2>2
<1>5. a + 1 \in 0 .. N /\ roq_num \in a + 1 .. N /\ a + 1 \in 1 .. roq_num /\ 1 \in 0 .. N /\ a \in 0 .. N
  <2>1. N \in Nat \ {0} /\ roq_num \in 0 .. N /\ a \in 0 .. N - 1 /\ a < roq_num  BY <1>1, <1>2
  <2> HIDE DEF N, a
  <2>2. a + 1 \in 0 .. N /\ a \in 0 .. N /\ 1 \in 0 .. N  BY <2>1
  <2>3. roq_num \in a + 1 .. N /\ a + 1 \in 1 .. roq_num  BY <2>1
  <2>4. QED  BY <2>2, <2>3
<1>6. Cardinality(Younger(k)) = roq_num - (a + 1)
  <2> HIDE DEF N, a
  <2>1. QED  BY <1>1, <1>4, <1>5, WindowSize
<1>7. roq_num - Cardinality(Younger(k)) = a + 1
  BY <1>1, <1>5, <1>6
<1>8. (roq_head + (a + 1)) % N = (k + 1) % N
  <2>1. (roq_head + a) % N = k  BY <1>2, WhereAgeSays
  <2>2. (((roq_head + a) % N) + 1) % N = (roq_head + a + 1) % N
    <3> HIDE DEF N, a
    <3>1. QED  BY <1>1, <1>5, StepsAdd
  <2>3. roq_head + (a + 1) = roq_head + a + 1  BY <1>1, <1>5
  <2>4. QED  BY <2>1, <2>2, <2>3
<1>9. (k + 1) % N \in RoqSlots
  <2>1. k \in Int  BY <1>1, <1>2
  <2>2. QED  BY <1>1, <2>1
<1>10. \A s \in Younger(k), t \in Live : RAge(t) > RAge(s) => t \in Younger(k)
  <2>1. \A s \in Live : RAge(s) \in Int  BY <1>1
  <2>2. a \in Int  BY <1>2
  <2>3. QED  BY <1>3, <2>1, <2>2
<1>11. Live \ Younger(k) = {t \in RoqSlots : RAge(t) < a + 1}
  <2>1. ASSUME NEW t \in RoqSlots PROVE (t \in Live /\ ~ (RAge(t) > a)) <=> RAge(t) < a + 1
    <3>1. RAge(t) \in Int /\ a \in Int /\ roq_num \in Int /\ a < roq_num  BY <1>1, <1>2
    <3>2. t \in Live <=> RAge(t) < roq_num  BY <1>1, <2>1
    <3>3. QED  BY <3>1, <3>2
  <2>2. Live \subseteq RoqSlots  BY <1>1
  <2>3. QED  BY <1>3, <2>1, <2>2
<1>12. k \notin Younger(k)  BY <1>2, <1>3
<1>13. Younger(k) \in SUBSET Live  BY <1>3
<1>14. QED  BY <1>3, <1>5, <1>7, <1>8, <1>9, <1>10, <1>11, <1>12, <1>13

\* The slot that a recovery keeps last is in use.
LEMMA KeptLast ==
  ASSUME TypeOK, Window, NEW s \in Live, HasDelaySlot(s)
  PROVE  /\ LastKept(s) \in Live /\ RAge(s) <= RAge(LastKept(s))
         /\ ~ IsLikely(roq[s].pc) => RAge(LastKept(s)) = RAge(s) + 1
<1> DEFINE N == roq_ifq_size
           t == (s + 1) % N
<1>1. /\ N \in Nat \ {0} /\ roq_head \in 0 .. N - 1 /\ RoqSlots = 0 .. N - 1
      /\ s \in RoqSlots /\ RAge(s) \in 0 .. N - 1
  BY Sizes, RoqAges, Held DEF TypeOK
<1>2. roq[t] # NoInst /\ t # roq_head  BY DEF HasDelaySlot
<1>3. t \in RoqSlots  BY <1>1
<1>4. t \in Live  BY <1>2, <1>3 DEF Window
<1>5. RAge(t) = RAge(s) + 1
  <2>1. (roq_head + RAge(s)) % N = s  BY <1>1, WhereAgeSays
  <2>2. RAge(s) \in 0 .. N /\ 1 \in 0 .. N  BY <1>1
  <2>3. t = (roq_head + RAge(s) + 1) % N
    <3>1. (((roq_head + RAge(s)) % N) + 1) % N = (roq_head + RAge(s) + 1) % N
      <4> HIDE DEF N
      <4>1. QED  BY <1>1, <2>2, StepsAdd
    <3>2. QED  BY <2>1, <3>1
  <2>4. CASE RAge(s) + 1 = N
    <3>1. roq_head + RAge(s) + 1 = roq_head + N  BY <1>1, <2>4
    <3>2. (roq_head + N) % N = roq_head  BY <1>1
    <3>3. QED  BY <1>2, <2>3, <3>1, <3>2
  <2>5. CASE RAge(s) + 1 # N
    <3>1. RAge(s) + 1 \in 0 .. N - 1 /\ roq_head + RAge(s) + 1 = roq_head + (RAge(s) + 1)
      BY <1>1, <2>5
    <3>2. AgeOn(N, roq_head, (roq_head + (RAge(s) + 1)) % N) = RAge(s) + 1
      <4> HIDE DEF N
      <4>1. QED  BY <1>1, <3>1, SlotOfAge
    <3>3. QED  BY <2>3, <3>1, <3>2 DEF RAge
  <2>6. QED  BY <2>4, <2>5
<1> HIDE DEF t
<1>6. CASE IsLikely(roq[s].pc)
  <2>1. LastKept(s) = s  BY <1>6 DEF LastKept
  <2>2. QED  BY <1>1, <1>6, <2>1
<1>7. CASE ~ IsLikely(roq[s].pc)
  <2>1. LastKept(s) = t  BY <1>7 DEF LastKept, t
  <2>2. QED  BY <1>1, <1>4, <1>5, <1>7, <2>1
<1>8. QED  BY <1>6, <1>7

LEMMA RecoverKeeps ==
  ASSUME IInv, brerr_recover
  PROVE  IInv'
<1>1. TypeOK /\ Front /\ Window /\ Branches /\ Counted /\ Space /\ DelaySlots  BY DEF IInv
<1>2. PICK s \in Resolving :
        /\ HasDelaySlot(s)
        /\ Squash(Younger(LastKept(s)))
        /\ roq' = [t \in RoqSlots |-> IF t \in Younger(LastKept(s)) THEN NoInst ELSE Resolve(s)[t]]
        /\ roq_tail' = (LastKept(s) + 1) % roq_ifq_size
        /\ roq_num' = roq_num - Cardinality(Younger(LastKept(s)))
        /\ tracer_recover(roq[s].spec_level, AfterBranch(roq[s].pc, roq[s].taken))
        /\ stall' = TRUE /\ stage' = "execute" /\ n' = 0
        /\ UNCHANGED <<roq_head, arch, program>>
  BY DEF brerr_recover, Goto
<1> DEFINE k == LastKept(s)
           gone == Younger(k)
<1>3. /\ s \in Live /\ s \in Ctrl(Live) /\ s \in RoqSlots /\ roq[s] \in Insts
      /\ roq[s].status = "brcompleted"
  BY <1>1, ResolvingBranch
<1>4. k \in Live  BY <1>1, <1>2, <1>3, KeptLast
<1> HIDE DEF k
<1>5. /\ gone \in SUBSET Live
      /\ \A t \in gone, u \in Live : RAge(u) > RAge(t) => u \in gone
      /\ roq_num' = RAge(k) + 1 /\ RAge(k) + 1 \in 1 .. roq_num
      /\ (roq_head + (RAge(k) + 1)) % roq_ifq_size = roq_tail' /\ roq_tail' \in RoqSlots
      /\ Live \ gone = {t \in RoqSlots : RAge(t) < RAge(k) + 1}
  BY <1>1, <1>2, <1>4, CutBehind DEF k
<1>6. /\ Squash(gone)
      /\ roq' = [t \in RoqSlots |-> IF t \in gone THEN NoInst ELSE Resolve(s)[t]]
      /\ spec_level' = roq[s].spec_level
      /\ fetch_data' = <<>> /\ decode_data' = <<>> /\ front' = Idle
      /\ fetch_reg_PC' = AfterBranch(roq[s].pc, roq[s].taken)
      /\ stall' = TRUE /\ stage' = "execute" /\ n' = 0
      /\ roq_head' = roq_head /\ program' = program
  BY <1>2 DEF k, tracer_recover
<1> HIDE DEF gone
<1>7. Live' = Live \ gone
  <2>1. Live' = {t \in RoqSlots : (t - roq_head') % roq_ifq_size < roq_num'}  BY DEF Live, Age
  <2>2. \A t : (t - roq_head') % roq_ifq_size = RAge(t)  BY <1>6 DEF RAge, AgeOn
  <2>3. QED  BY <1>5, <2>1, <2>2
<1> DEFINE rs == [roq[s] EXCEPT !.status = "completed"]
<1>8. /\ rs \in Insts /\ rs.pc = roq[s].pc /\ rs.brqid = roq[s].brqid /\ rs.status = "completed"
      /\ rs # NoInst
  <2>1. rs \in Insts /\ rs.pc = roq[s].pc /\ rs.brqid = roq[s].brqid /\ rs.status = "completed"
    BY <1>3 DEF Insts, Status
  <2> HIDE DEF rs
  <2>2. rs # NoInst  BY <1>1, <2>1, InstFields DEF Front
  <2>3. QED  BY <2>1, <2>2
<1>9. \A t \in RoqSlots : roq'[t] = IF t \in gone THEN NoInst ELSE IF t = s THEN rs ELSE roq[t]
  <2>1. roq \in [RoqSlots -> Insts \cup {NoInst}]  BY <1>1 DEF TypeOK
  <2>2. QED  BY <1>3, <1>6, <2>1 DEF Resolve
<1> HIDE DEF rs
<1>10. roq' \in [RoqSlots -> Insts \cup {NoInst}]
  <2>1. \A t \in RoqSlots : roq'[t] \in Insts \cup {NoInst}
    <3>1. \A t \in RoqSlots : roq[t] \in Insts \cup {NoInst}  BY <1>1 DEF TypeOK
    <3>2. QED  BY <1>8, <1>9, <3>1
  <2>2. QED  BY <1>6, <2>1
<1>11. \A t \in Live \ gone : /\ roq'[t].pc = roq[t].pc /\ roq'[t].brqid = roq[t].brqid
                              /\ roq'[t].status = "queued" <=> roq[t].status = "queued"
  <2>1. \A t \in Live \ gone : roq'[t] = IF t = s THEN rs ELSE roq[t]  BY <1>1, <1>9, Held
  <2>2. QED  BY <1>3, <1>8, <2>1
<1>12. Window'
  <2>1. ASSUME NEW t \in RoqSlots PROVE t \in Live \ gone <=> roq'[t] # NoInst
    <3>1. t \in Live <=> roq[t] # NoInst  BY <1>1 DEF Window
    <3>2. CASE t \in gone  BY <1>9, <3>2
    <3>3. CASE t \notin gone /\ t = s  BY <1>3, <1>8, <1>9, <3>3
    <3>4. CASE t \notin gone /\ t # s  BY <1>9, <3>1, <3>4
    <3>5. QED  BY <3>2, <3>3, <3>4
  <2>2. Live \ gone \subseteq RoqSlots  BY DEF Live
  <2>3. Live' = {t \in RoqSlots : roq'[t] # NoInst'}
    <3>1. NoInst' = NoInst  BY <1>6, SameProgram
    <3>2. QED  BY <1>7, <2>1, <2>2, <3>1
  <2>4. QED  BY <1>5, <1>6, <2>3 DEF Window
<1>13. /\ brq' \in [BrqSlots -> RoqSlots \cup {NoSlot}] /\ brq_head' = brq_head
       /\ brq_tail' \in BrqSlots /\ brq_num' \in 0 .. brq_num
       /\ (brq_head' + brq_num') % brq_ifq_size = brq_tail'
       /\ \A b \in BrqSlots :
            IF BAge(b) < brq_num' THEN BAge(b) < brq_num /\ brq'[b] = brq[b] /\ brq[b] \notin gone
                                  ELSE brq'[b] = NoSlot
       /\ \A t \in Ctrl(Live) \ gone : brq'[roq[t].brqid] = t
  BY <1>1, <1>5, <1>6, SquashQueue
<1>14. brq_num' \in 0 .. brq_ifq_size /\ brq_num' \in Nat  BY <1>1, <1>13, Sizes DEF TypeOK
<1>15. Branches'
  BY <1>1, <1>5, <1>6, <1>7, <1>11, <1>13, <1>14, BranchesKept
<1>16. /\ Counted' /\ int_issue_num' \in 0 .. int_issue_ifq_size
       /\ int_rename_reg_num' \in 0 .. int_rename_reg_size
  <2>1. /\ int_issue_num' = int_issue_num - Cardinality(Queued(gone))
        /\ int_rename_reg_num' = int_rename_reg_num - Cardinality(Renamed(gone))
    BY <1>6 DEF Squash
  <2>2. QED  BY <1>5, <1>6, <1>7, <1>11, <2>1, Lowered
<1>17. lsq_committed' = lsq_committed  BY <1>6 DEF Squash
<1>18. Space'
  <2>1. /\ Cardinality(Accesses(Live)') = Cardinality(Accesses(Live)) - Cardinality(Accesses(gone))
        /\ Cardinality(Accesses(Live)') \in Nat
    BY <1>1, <1>5, <1>6, <1>7, <1>11, Removed
  <2>2. Cardinality(Accesses(gone)) \in Nat /\ Cardinality(Accesses(Live)) \in Nat
    <3>1. IsFiniteSet(Accesses(gone)) /\ IsFiniteSet(Accesses(Live))  BY <1>1, <1>5, Finite
    <3>2. QED  BY <3>1, FS_CardinalityType
  <2>3. /\ Cardinality(Accesses(Live)) + lsq_committed <= lsq_ifq_size
        /\ lsq_committed \in Nat /\ lsq_ifq_size \in Nat
    BY <1>1, Sizes DEF Space, TypeOK
  <2>4. Cardinality(Accesses(Live)') + lsq_committed' <= lsq_ifq_size
    BY <1>17, <2>1, <2>2, <2>3
  <2>5. QED  BY <1>6, <2>4 DEF Space
<1>19. fetch_reg_PC' \in PCs /\ spec_level' \in Nat
  <2>1. roq[s].pc \in PCs /\ roq[s].spec_level \in Nat  BY <1>1, <1>3, InstFields DEF Front
  <2>2. IsCtrl(roq[s].pc)  BY <1>3 DEF Ctrl
  <2>3. Target[roq[s].pc] \in 0 .. Outside - 1 /\ PCs = 0 .. Outside /\ Outside \in Nat
    BY <1>1, <2>1, <2>2, TheText DEF Front
  <2>4. 2 \in Int  OBVIOUS
  <2>5. Plus(roq[s].pc, 2) \in PCs  BY <1>1, <2>1, <2>4, Steps DEF Front
  <2>6. Target[roq[s].pc] \in PCs  BY <2>3
  <2>7. QED  BY <1>6, <2>1, <2>5, <2>6 DEF AfterBranch
<1>20. TypeOK'
  <2>1. roq_num' \in 0 .. roq_ifq_size
    <3>1. roq_num \in 0 .. roq_ifq_size /\ roq_ifq_size \in Nat  BY <1>1, Sizes DEF TypeOK
    <3>2. roq_num' \in 1 .. roq_num  BY <1>5
    <3>3. QED  BY <3>1, <3>2
  <2>2. brq_head' \in BrqSlots /\ roq_head' \in RoqSlots  BY <1>1, <1>6, <1>13 DEF TypeOK
  <2>3. /\ fetch_data' \in Seq(PCs) /\ Len(fetch_data') <= fetch_ifq_size
        /\ decode_data' \in Seq(Insts) /\ Len(decode_data') <= decode_ifq_size
    BY <1>6, EmptySeq, Sizes
  <2>4. stage' \in {"commit", "check_brq", "execute", "map", "decode", "fetch"} /\ n' \in Nat
        /\ stall' \in BOOLEAN
    BY <1>6
  <2>5. lsq_committed' \in 0 .. lsq_ifq_size  BY <1>1, <1>17 DEF TypeOK
  <2>6. QED  BY <1>5, <1>6, <1>10, <1>13, <1>14, <1>16, <1>19, <2>1, <2>2, <2>3, <2>4, <2>5, SameProgram DEF TypeOK
<1>21. Front'
  <2>1. Idle \in Fronts  BY DEF Idle, Fronts
  <2>2. Idle.redirect = NoPC  BY DEF Idle
  <2>3. QED  BY <1>1, <1>6, <2>1, <2>2, SameProgram DEF Front
<1>22. DelaySlots'
  <2>1. SlotsFollow(<<>>, fetch_reg_PC', FALSE, <<>>)  BY EmptySeq DEF SlotsFollow
  <2>2. front'.lastIsBranch = FALSE  BY <1>6 DEF Idle
  <2>3. QED  BY <1>6, <2>1, <2>2, SameText
<1>23. QED  BY <1>12, <1>15, <1>16, <1>18, <1>20, <1>21, <1>22 DEF IInv

\* The oldest instruction is at the head.
LEMMA TheOldest ==
  ASSUME TypeOK, Window, roq_num > 0
  PROVE  /\ roq_head \in Live /\ roq_head \in RoqSlots /\ RAge(roq_head) = 0
         /\ Oldest = roq[roq_head] /\ Oldest \in Insts /\ roq_num \in 1 .. roq_ifq_size
<1>1. /\ roq_ifq_size \in Nat \ {0} /\ roq_head \in 0 .. roq_ifq_size - 1
      /\ roq_num \in 1 .. roq_ifq_size /\ RoqSlots = 0 .. roq_ifq_size - 1
  BY Sizes DEF TypeOK
<1>2. RAge(roq_head) = 0  BY <1>1, HeadMoves DEF RAge
<1>3. roq_head \in Live  BY <1>1, <1>2, RoqAges
<1>4. QED  BY <1>1, <1>2, <1>3, Held DEF Oldest

\* A branch that retires is at the head of the branch queue.
LEMMA OldestBranch ==
  ASSUME TypeOK, Window, Branches, roq_num > 0, IsCtrl(Oldest.pc)
  PROVE  /\ brq_num \in 1 .. brq_ifq_size /\ brq[brq_head] = roq_head
         /\ \A b \in BrqSlots : BAge(b) < brq_num => (brq[b] = roq_head <=> b = brq_head)
<1>1. /\ roq_head \in Live /\ roq_head \in RoqSlots /\ RAge(roq_head) = 0 /\ Oldest = roq[roq_head]
  BY TheOldest
<1>2. roq_head \in Ctrl(Live)  BY <1>1 DEF Ctrl
<1> DEFINE b0 == roq[roq_head].brqid
<1>3. b0 \in BrqSlots /\ brq[b0] = roq_head  BY <1>2 DEF Branches
<1>4. BAge(b0) < brq_num  BY <1>1, <1>3, Sizes DEF Branches
<1>5. /\ brq_ifq_size \in Nat \ {0} /\ brq_head \in 0 .. brq_ifq_size - 1
      /\ brq_num \in 0 .. brq_ifq_size /\ BrqSlots = 0 .. brq_ifq_size - 1
      /\ BAge(b0) \in 0 .. brq_ifq_size - 1
  BY <1>3, Sizes, BrqAges DEF TypeOK
<1> HIDE DEF b0
<1>6. BAge(brq_head) = 0
  <2>1. 1 \in 1 .. brq_ifq_size  BY <1>5
  <2>2. QED  BY <1>5, <2>1, HeadMoves DEF BAge
<1>7. BAge(b0) = 0
  <2>1. SUFFICES ASSUME BAge(brq_head) < BAge(b0) PROVE FALSE  BY <1>5, <1>6
  <2>2. brq_head \in BrqSlots /\ BAge(brq_head) < brq_num  BY <1>4, <1>5, <1>6
  <2>3. RAge(brq[brq_head]) < RAge(roq_head)  BY <1>3, <1>4, <2>1, <2>2 DEF Branches
  <2>4. brq[brq_head] \in RoqSlots  BY <2>2 DEF Branches, Ctrl, Live
  <2>5. RAge(brq[brq_head]) \in Nat  BY <2>4, RoqAges, Sizes
  <2>6. QED  BY <1>1, <2>3, <2>5
<1>8. b0 = brq_head  BY <1>3, <1>5, <1>6, <1>7, BrqAges
<1>9. ASSUME NEW b \in BrqSlots, BAge(b) < brq_num PROVE brq[b] = roq_head <=> b = brq_head
  <2>1. roq[brq[b]].brqid = b  BY <1>9 DEF Branches
  <2>2. QED  BY <1>3, <1>8, <2>1 DEF b0
<1>10. brq_num \in 1 .. brq_ifq_size  BY <1>4, <1>5, <1>7
<1>11. QED  BY <1>3, <1>8, <1>9, <1>10

\* The branch queue after a commit.
LEMMA CommittedBranches ==
  ASSUME TypeOK, Window, Branches, roq_num > 0,
         IF IsCtrl(Oldest.pc)
         THEN /\ brq' = [brq EXCEPT ![brq_head] = NoSlot]
              /\ brq_head' = (brq_head + 1) % brq_ifq_size
              /\ brq_num' = brq_num - 1
              /\ brq_tail' = brq_tail
         ELSE UNCHANGED brqVars
  PROVE  /\ brq' \in [BrqSlots -> RoqSlots \cup {NoSlot}] /\ brq_head' \in BrqSlots
         /\ brq_tail' = brq_tail /\ brq_num' \in 0 .. brq_num
         /\ (brq_head' + brq_num') % brq_ifq_size = brq_tail'
         /\ \A b \in BrqSlots :
              /\ BAge(b)' < brq_num' <=> BAge(b) < brq_num /\ brq[b] # roq_head
              /\ brq'[b] = IF BAge(b)' < brq_num' THEN brq[b] ELSE NoSlot
         /\ \A b, c \in BrqSlots :
              BAge(b)' < BAge(c)' /\ BAge(c)' < brq_num' => BAge(b) < BAge(c) /\ BAge(b)' < brq_num'
<1>1. /\ brq_ifq_size \in Nat \ {0} /\ brq_head \in 0 .. brq_ifq_size - 1
      /\ brq_num \in 0 .. brq_ifq_size /\ BrqSlots = 0 .. brq_ifq_size - 1
      /\ \A b \in BrqSlots : BAge(b) \in 0 .. brq_ifq_size - 1
      /\ brq \in [BrqSlots -> RoqSlots \cup {NoSlot}]
      /\ (brq_head + brq_num) % brq_ifq_size = brq_tail
  BY Sizes, BrqAges DEF TypeOK, Branches
<1>2. CASE IsCtrl(Oldest.pc)
  <2>1. /\ brq' = [brq EXCEPT ![brq_head] = NoSlot]
        /\ brq_head' = (brq_head + 1) % brq_ifq_size
        /\ brq_num' = brq_num - 1
        /\ brq_tail' = brq_tail
    BY <1>2
  <2>2. /\ brq_num \in 1 .. brq_ifq_size
        /\ \A b \in BrqSlots : BAge(b) < brq_num => (brq[b] = roq_head <=> b = brq_head)
    BY <1>2, OldestBranch
  <2>3. /\ brq_head' \in BrqSlots /\ (brq_head' + brq_num') % brq_ifq_size = brq_tail'
        /\ BAge(brq_head) = 0
        /\ \A b \in BrqSlots :
             /\ BAge(b)' < brq_num' <=> BAge(b) < brq_num /\ b # brq_head
             /\ b # brq_head => BAge(b)' = BAge(b) - 1
    <3>1. \A b : /\ BAge(b)' = AgeOn(brq_ifq_size, NextOn(brq_ifq_size, brq_head), b)
                 /\ BAge(b) = AgeOn(brq_ifq_size, brq_head, b)
      BY <2>1 DEF BAge, NextOn
    <3>2. /\ (brq_head + 1) % brq_ifq_size \in 0 .. brq_ifq_size - 1
          /\ (((brq_head + 1) % brq_ifq_size) + (brq_num - 1)) % brq_ifq_size =
               (brq_head + brq_num) % brq_ifq_size
          /\ AgeOn(brq_ifq_size, brq_head, brq_head) = 0
      BY <1>1, <2>2, HeadMoves
    <3>3. ASSUME NEW b \in BrqSlots
          PROVE  /\ BAge(b)' < brq_num' <=> BAge(b) < brq_num /\ b # brq_head
                 /\ b # brq_head => BAge(b)' = BAge(b) - 1
      <4>1. AgeOn(brq_ifq_size, NextOn(brq_ifq_size, brq_head), b) < brq_num - 1 <=>
              AgeOn(brq_ifq_size, brq_head, b) < brq_num /\ b # brq_head
        BY <1>1, <2>2, HeadLeaves
      <4>2. b # brq_head => AgeOn(brq_ifq_size, NextOn(brq_ifq_size, brq_head), b) =
                              AgeOn(brq_ifq_size, brq_head, b) - 1
        BY <1>1, <2>2, HeadLeaves
      <4>3. QED  BY <2>1, <3>1, <4>1, <4>2
    <3>4. QED  BY <1>1, <2>1, <3>1, <3>2, <3>3
  <2>4. ASSUME NEW b \in BrqSlots
        PROVE  /\ BAge(b)' < brq_num' <=> BAge(b) < brq_num /\ brq[b] # roq_head
               /\ brq'[b] = IF BAge(b)' < brq_num' THEN brq[b] ELSE NoSlot
    <3>1. BAge(b)' < brq_num' <=> BAge(b) < brq_num /\ brq[b] # roq_head  BY <2>2, <2>3
    <3>2. brq'[b] = IF b = brq_head THEN NoSlot ELSE brq[b]  BY <1>1, <2>1
    <3>3. ~ (BAge(b) < brq_num) => brq[b] = NoSlot  BY DEF Branches
    <3>4. QED  BY <2>3, <3>1, <3>2, <3>3
  <2>5. ASSUME NEW b \in BrqSlots, NEW c \in BrqSlots, BAge(b)' < BAge(c)', BAge(c)' < brq_num'
        PROVE  BAge(b) < BAge(c) /\ BAge(b)' < brq_num'
    <3>1. c # brq_head /\ BAge(c) < brq_num /\ BAge(c)' = BAge(c) - 1  BY <2>3, <2>5
    <3>2. /\ BAge(b) \in 0 .. brq_ifq_size - 1 /\ BAge(c) \in 0 .. brq_ifq_size - 1
          /\ brq_num' \in Int
      BY <1>1, <2>1
    <3>3. CASE b = brq_head
      <4>1. BAge(c) # 0  BY <1>1, <2>3, <3>1, BrqAges
      <4>2. BAge(b) < BAge(c)  BY <2>3, <3>2, <3>3, <4>1
      <4>3. BAge(b)' \in Int
        <5>1. brq_head' \in 0 .. brq_ifq_size - 1  BY <1>1, <2>3
        <5>2. AgeOn(brq_ifq_size, brq_head', b) \in 0 .. brq_ifq_size - 1  BY <1>1, <5>1, AgeValue
        <5>3. BAge(b)' = AgeOn(brq_ifq_size, brq_head', b)  BY DEF BAge
        <5>4. QED  BY <5>2, <5>3
      <4>4. BAge(c)' \in Int  BY <3>1, <3>2
      <4>5. BAge(b)' < brq_num'  BY <2>5, <3>2, <4>3, <4>4
      <4>6. QED  BY <4>2, <4>5
    <3>4. CASE b # brq_head
      <4>1. BAge(b)' = BAge(b) - 1  BY <2>3, <3>4
      <4>2. QED  BY <2>5, <3>1, <3>2, <4>1
    <3>5. QED  BY <3>3, <3>4
  <2>6. brq' \in [BrqSlots -> RoqSlots \cup {NoSlot}]  BY <1>1, <2>1
  <2>7. brq_num' \in 0 .. brq_num  BY <2>1, <2>2
  <2>8. QED  BY <2>1, <2>3, <2>4, <2>5, <2>6, <2>7
<1>3. CASE ~ IsCtrl(Oldest.pc)
  <2>1. UNCHANGED <<brq, brq_head, brq_tail, brq_num>>  BY <1>3 DEF brqVars
  <2>2. \A b : BAge(b)' = BAge(b)  BY <2>1 DEF BAge
  <2>3. \A b \in BrqSlots : BAge(b) < brq_num => brq[b] # roq_head
    BY <1>3, TheOldest DEF Branches, Ctrl
  <2>4. \A b \in BrqSlots : ~ (BAge(b) < brq_num) => brq[b] = NoSlot  BY DEF Branches
  <2>5. \A b, c \in BrqSlots : BAge(b) < BAge(c) /\ BAge(c) < brq_num => BAge(b) < brq_num
    <3>1. SUFFICES ASSUME NEW b \in BrqSlots, NEW c \in BrqSlots, BAge(b) < BAge(c), BAge(c) < brq_num
                   PROVE  BAge(b) < brq_num
      OBVIOUS
    <3>2. BAge(b) \in Int /\ BAge(c) \in Int /\ brq_num \in Int  BY <1>1
    <3>3. QED  BY <3>1, <3>2
  <2>6. brq_num' \in 0 .. brq_num /\ brq_head' \in BrqSlots  BY <1>1, <2>1
  <2>7. QED  BY <1>1, <2>1, <2>2, <2>3, <2>4, <2>5, <2>6
<1>4. QED  BY <1>2, <1>3

\* What one slot counts for.
LEMMA CountsOne ==
  ASSUME NEW s
  PROVE  /\ Cardinality(Renamed({s})) = RenameRegs(roq[s])
         /\ Cardinality(Accesses({s})) = IF Kind(roq[s].pc) \in {"load", "store"} THEN 1 ELSE 0
         /\ roq[s].status # "queued" => Cardinality(Queued({s})) = 0
<1>1. Cardinality({s}) = 1  BY FS_Singleton
<1>2. Cardinality({}) = 0  BY FS_EmptySet
<1>3. Cardinality(Renamed({s})) = RenameRegs(roq[s])
  <2>1. CASE RenameRegs(roq[s]) = 1
    <3>1. Renamed({s}) = {s}  BY <2>1 DEF Renamed
    <3>2. QED  BY <1>1, <2>1, <3>1
  <2>2. CASE RenameRegs(roq[s]) # 1
    <3>1. Renamed({s}) = {}  BY <2>2 DEF Renamed
    <3>2. RenameRegs(roq[s]) = 0  BY <2>2 DEF RenameRegs
    <3>3. QED  BY <1>2, <3>1, <3>2
  <2>3. QED  BY <2>1, <2>2
<1>4. Cardinality(Accesses({s})) = IF Kind(roq[s].pc) \in {"load", "store"} THEN 1 ELSE 0
  <2>1. CASE Kind(roq[s].pc) \in {"load", "store"}
    <3>1. Accesses({s}) = {s}  BY <2>1 DEF Accesses
    <3>2. QED  BY <1>1, <2>1, <3>1
  <2>2. CASE Kind(roq[s].pc) \notin {"load", "store"}
    <3>1. Accesses({s}) = {}  BY <2>2 DEF Accesses
    <3>2. QED  BY <1>2, <2>2, <3>1
  <2>3. QED  BY <2>1, <2>2
<1>5. ASSUME roq[s].status # "queued" PROVE Cardinality(Queued({s})) = 0
  <2>1. Queued({s}) = {}  BY <1>5 DEF Queued
  <2>2. QED  BY <1>2, <2>1
<1>6. QED  BY <1>3, <1>4, <1>5

LEMMA CommitKeeps ==
  ASSUME IInv, commit
  PROVE  IInv'
<1>1. TypeOK /\ Front /\ Window /\ Branches /\ Counted /\ Space /\ DelaySlots  BY DEF IInv
<1>2. /\ stage = "commit" /\ roq_num > 0 /\ Oldest.status = "completed"
      /\ IF IsCtrl(Oldest.pc)
         THEN /\ brq' = [brq EXCEPT ![brq_head] = NoSlot]
              /\ brq_head' = (brq_head + 1) % brq_ifq_size
              /\ brq_num' = brq_num - 1
              /\ brq_tail' = brq_tail
         ELSE UNCHANGED brqVars
      /\ int_rename_reg_num' = int_rename_reg_num - RenameRegs(Oldest)
      /\ lsq_committed' = lsq_committed + IF Kind(Oldest.pc) \in {"load", "store"} THEN 1 ELSE 0
      /\ roq' = [roq EXCEPT ![roq_head] = NoInst]
      /\ roq_head' = (roq_head + 1) % roq_ifq_size
      /\ roq_num' = roq_num - 1
      /\ UNCHANGED <<fetchVars, decodeVars, roq_tail, int_issue_num, program>>
      /\ \/ n' = n + 1 /\ stage' = stage
         \/ stage' = "check_brq" /\ n' = 0
  BY DEF commit, CanCommit, Iterate, Goto
<1>3. /\ UNCHANGED <<fetch_reg_PC, stall, fetch_data, front, spec_level, decode_data>>
      /\ UNCHANGED <<roq_tail, int_issue_num, program>>
      /\ stage' \in {"commit", "check_brq"} /\ n' \in Nat
  BY <1>1, <1>2 DEF fetchVars, decodeVars, TypeOK
<1>4. /\ roq_head \in Live /\ roq_head \in RoqSlots /\ RAge(roq_head) = 0
      /\ Oldest = roq[roq_head] /\ Oldest \in Insts /\ roq_num \in 1 .. roq_ifq_size
      /\ roq_ifq_size \in Nat \ {0} /\ RoqSlots = 0 .. roq_ifq_size - 1
      /\ roq_head \in 0 .. roq_ifq_size - 1
  BY <1>1, <1>2, TheOldest, Sizes
<1> DEFINE G == {roq_head}
<1>5. /\ roq_head' \in RoqSlots /\ (roq_head' + roq_num') % roq_ifq_size = roq_tail'
      /\ Live' = Live \ G
      /\ \A t \in RoqSlots : t # roq_head => RAge(t)' = RAge(t) - 1
  <2>1. \A t : /\ RAge(t)' = AgeOn(roq_ifq_size, NextOn(roq_ifq_size, roq_head), t)
               /\ RAge(t) = AgeOn(roq_ifq_size, roq_head, t)
    BY <1>2 DEF RAge, NextOn
  <2>2. /\ (roq_head + 1) % roq_ifq_size \in 0 .. roq_ifq_size - 1
        /\ (((roq_head + 1) % roq_ifq_size) + (roq_num - 1)) % roq_ifq_size =
             (roq_head + roq_num) % roq_ifq_size
    BY <1>4, HeadMoves
  <2>3. ASSUME NEW t \in RoqSlots
        PROVE  /\ RAge(t)' < roq_num' <=> RAge(t) < roq_num /\ t # roq_head
               /\ t # roq_head => RAge(t)' = RAge(t) - 1
    <3>1. AgeOn(roq_ifq_size, NextOn(roq_ifq_size, roq_head), t) < roq_num - 1 <=>
            AgeOn(roq_ifq_size, roq_head, t) < roq_num /\ t # roq_head
      BY <1>4, HeadLeaves
    <3>2. t # roq_head => AgeOn(roq_ifq_size, NextOn(roq_ifq_size, roq_head), t) =
                            AgeOn(roq_ifq_size, roq_head, t) - 1
      BY <1>4, HeadLeaves
    <3>3. QED  BY <1>2, <2>1, <3>1, <3>2
  <2>4. Live' = {t \in RoqSlots : RAge(t)' < roq_num'}
    <3>1. \A t : Age(t)' = RAge(t)'  BY DEF Age, RAge, AgeOn
    <3>2. Live' = {t \in RoqSlots : Age(t)' < roq_num'}  BY DEF Live
    <3>3. QED  BY <3>1, <3>2
  <2>5. Live' = Live \ G
    <3>1. Live = {t \in RoqSlots : RAge(t) < roq_num}  BY <1>1, RoqAges
    <3>2. QED  BY <2>3, <2>4, <3>1
  <2>6. (roq_head + roq_num) % roq_ifq_size = roq_tail  BY <1>1 DEF Window
  <2>7. QED  BY <1>2, <1>3, <1>4, <2>2, <2>3, <2>5, <2>6
<1>6. /\ roq' \in [RoqSlots -> Insts \cup {NoInst}]
      /\ \A t \in RoqSlots : roq'[t] = IF t = roq_head THEN NoInst ELSE roq[t]
  <2>1. roq \in [RoqSlots -> Insts \cup {NoInst}]  BY <1>1 DEF TypeOK
  <2>2. QED  BY <1>2, <1>4, <2>1
<1>7. G \in SUBSET Live /\ \A t \in Live \ G : t \in RoqSlots /\ roq'[t] = roq[t]
  BY <1>1, <1>4, <1>6, Held
<1>8. Window'
  <2>1. NoInst' = NoInst  BY <1>3, SameProgram
  <2>2. Live' = {t \in RoqSlots : roq'[t] # NoInst}  BY <1>1, <1>5, <1>6 DEF Window
  <2>3. QED  BY <1>5, <2>1, <2>2 DEF Window
<1>9. /\ brq' \in [BrqSlots -> RoqSlots \cup {NoSlot}] /\ brq_head' \in BrqSlots
      /\ brq_tail' = brq_tail /\ brq_num' \in 0 .. brq_num
      /\ (brq_head' + brq_num') % brq_ifq_size = brq_tail'
      /\ \A b \in BrqSlots :
           /\ BAge(b)' < brq_num' <=> BAge(b) < brq_num /\ brq[b] # roq_head
           /\ brq'[b] = IF BAge(b)' < brq_num' THEN brq[b] ELSE NoSlot
      /\ \A b, c \in BrqSlots :
           BAge(b)' < BAge(c)' /\ BAge(c)' < brq_num' => BAge(b) < BAge(c) /\ BAge(b)' < brq_num'
  BY <1>1, <1>2, CommittedBranches
<1>10. Branches'
  <2>1. Ctrl(Live)' = Ctrl(Live) \ G
    <3>1. Ctrl(Live)' = {t \in Live \ G : IsCtrl(roq'[t].pc)}  BY <1>3, <1>5, SameProgram
    <3>2. QED  BY <1>7, <3>1 DEF Ctrl
  <2>2. ASSUME NEW b \in BrqSlots, BAge(b)' < brq_num'
        PROVE  /\ brq[b] \in Ctrl(Live) \ G /\ brq'[b] = brq[b] /\ brq[b] \in RoqSlots
               /\ roq'[brq'[b]].brqid = b /\ BAge(b) < brq_num
    <3>1. BAge(b) < brq_num /\ brq[b] # roq_head /\ brq'[b] = brq[b]  BY <1>9, <2>2
    <3>2. brq[b] \in Ctrl(Live) /\ roq[brq[b]].brqid = b  BY <1>1, <3>1 DEF Branches
    <3>3. brq[b] \in Live \ G  BY <3>1, <3>2 DEF Ctrl
    <3>4. QED  BY <1>7, <3>1, <3>2, <3>3
  <2>3. \A b \in BrqSlots :
          IF BAge(b)' < brq_num' THEN brq'[b] \in Ctrl(Live)' /\ roq'[brq'[b]].brqid = b
                                 ELSE brq'[b] = NoSlot
    BY <1>9, <2>1, <2>2
  <2>4. ASSUME NEW t \in Ctrl(Live) \ G
        PROVE  roq'[t].brqid \in BrqSlots /\ brq'[roq'[t].brqid] = t
    <3>1. t \in Live \ G  BY DEF Ctrl
    <3>2. roq'[t] = roq[t] /\ t # roq_head /\ t # NoSlot  BY <1>7, <3>1, Sizes
    <3>3. roq[t].brqid \in BrqSlots /\ brq[roq[t].brqid] = t  BY <1>1 DEF Branches
    <3>4. BAge(roq[t].brqid) < brq_num  BY <1>1, <3>2, <3>3 DEF Branches
    <3>5. QED  BY <1>9, <3>2, <3>3, <3>4
  <2>5. ASSUME NEW b \in BrqSlots, NEW c \in BrqSlots, BAge(b)' < BAge(c)', BAge(c)' < brq_num'
        PROVE  RAge(brq[b])' < RAge(brq[c])' /\ brq'[b] = brq[b] /\ brq'[c] = brq[c]
    <3>1. BAge(b)' < brq_num' /\ BAge(b) < BAge(c)  BY <1>9, <2>5
    <3>2. /\ brq[b] \in RoqSlots /\ brq[c] \in RoqSlots /\ brq[b] # roq_head /\ brq[c] # roq_head
          /\ BAge(c) < brq_num /\ brq'[b] = brq[b] /\ brq'[c] = brq[c]
      BY <2>2, <2>5, <3>1
    <3>3. RAge(brq[b]) < RAge(brq[c])  BY <1>1, <3>1, <3>2 DEF Branches
    <3>4. RAge(brq[b]) \in Int /\ RAge(brq[c]) \in Int  BY <1>1, <3>2, RoqAges, Sizes
    <3>5. /\ AgeOn(roq_ifq_size, roq_head', brq[b]) = RAge(brq[b]) - 1
          /\ AgeOn(roq_ifq_size, roq_head', brq[c]) = RAge(brq[c]) - 1
      BY <1>5, <3>2 DEF RAge
    <3>6. AgeOn(roq_ifq_size, roq_head', brq[b]) < AgeOn(roq_ifq_size, roq_head', brq[c])
      BY <3>3, <3>4, <3>5
    <3>7. QED  BY <3>2, <3>6 DEF RAge
  <2>6. QED  BY <1>9, <2>1, <2>3, <2>4, <2>5 DEF Branches
<1>11. /\ Cardinality(Renamed(G)) = RenameRegs(Oldest) /\ Cardinality(Queued(G)) = 0
       /\ Cardinality(Accesses(G)) = IF Kind(Oldest.pc) \in {"load", "store"} THEN 1 ELSE 0
  BY <1>2, <1>4, CountsOne
<1>12. /\ Counted' /\ int_issue_num' \in 0 .. int_issue_ifq_size
       /\ int_rename_reg_num' \in 0 .. int_rename_reg_size
  <2>1. int_issue_num' = int_issue_num - Cardinality(Queued(G))
    <3>1. int_issue_num \in Int  BY <1>1, Sizes DEF TypeOK
    <3>2. QED  BY <1>3, <1>11, <3>1
  <2>2. int_rename_reg_num' = int_rename_reg_num - Cardinality(Renamed(G))  BY <1>2, <1>11
  <2>3. \A t \in Live \ G : /\ roq'[t].pc = roq[t].pc
                            /\ roq'[t].status = "queued" <=> roq[t].status = "queued"
    BY <1>7
  <2> HIDE DEF G
  <2>4. QED  BY <1>3, <1>5, <1>7, <2>1, <2>2, <2>3, Lowered
<1>13. /\ Cardinality(Accesses(Live)') + lsq_committed' <= lsq_ifq_size
       /\ lsq_committed' \in 0 .. lsq_ifq_size
  <2>1. /\ Cardinality(Accesses(Live)') = Cardinality(Accesses(Live)) - Cardinality(Accesses(G))
        /\ Cardinality(Accesses(Live)') \in Nat
    <3>1. \A t \in Live \ G : /\ roq'[t].pc = roq[t].pc
                              /\ roq'[t].status = "queued" <=> roq[t].status = "queued"
      BY <1>7
    <3> HIDE DEF G
    <3>2. QED  BY <1>1, <1>3, <1>5, <1>7, <3>1, Removed
  <2>2. lsq_committed' = lsq_committed + Cardinality(Accesses(G))  BY <1>2, <1>11
  <2>3. Cardinality(Accesses(G)) \in Nat /\ Cardinality(Accesses(Live)) \in Nat
    <3>1. IsFiniteSet(Accesses(Live))  BY <1>1, Finite
    <3>2. QED  BY <1>11, <3>1, FS_CardinalityType
  <2>4. /\ Cardinality(Accesses(Live)) + lsq_committed <= lsq_ifq_size
        /\ lsq_committed \in Nat /\ lsq_ifq_size \in Nat
    BY <1>1, Sizes DEF Space, TypeOK
  <2> HIDE DEF G
  <2>5. Cardinality(Accesses(Live)') + lsq_committed' <= lsq_ifq_size  BY <2>1, <2>2, <2>3, <2>4
  <2>6. lsq_committed' \in Nat  BY <2>2, <2>3, <2>4
  <2>7. lsq_committed' <= lsq_ifq_size  BY <2>1, <2>4, <2>5, <2>6
  <2>8. QED  BY <2>4, <2>5, <2>6, <2>7
<1>14. Space'  BY <1>3, <1>13 DEF Space
<1>15. TypeOK'
  <2>1. roq_num' \in 0 .. roq_ifq_size  BY <1>2, <1>4
  <2>2. brq_num' \in 0 .. brq_ifq_size /\ brq_tail' \in BrqSlots  BY <1>1, <1>9, Sizes DEF TypeOK
  <2>3. QED  BY <1>1, <1>3, <1>5, <1>6, <1>9, <1>12, <1>13, <2>1, <2>2, SameProgram DEF TypeOK
<1>16. Front'  BY <1>1, <1>3, SameProgram DEF Front
<1>17. DelaySlots'  BY <1>1, <1>3, SameText DEF DelaySlots
<1>18. QED  BY <1>8, <1>10, <1>12, <1>14, <1>15, <1>16, <1>17 DEF IInv

-----------------------------------------------------------------------------
(***************************************************************************)
(* Mapping.                                                                *)
(***************************************************************************)

\* What map_stage tested leaves room for every iteration of its loop.
LEMMA MapRoom ==
  ASSUME IInv, stage = "map", CanMap
  PROVE  /\ n \in Nat /\ map_width - n \in 1 .. 4 /\ decode_data # <<>>
         /\ roq_num + (map_width - n) <= roq_ifq_size
         /\ int_issue_num + (map_width - n) <= int_issue_ifq_size
         /\ int_rename_reg_num + (map_width - n) <= int_rename_reg_size
         /\ Cardinality(Accesses(Live)) + lsq_committed + (map_width - n) <= lsq_ifq_size
         /\ brq_num + MostBranches(decode_data, map_width - n) <= brq_ifq_size
<1>1. TypeOK /\ Space  BY DEF IInv
<1>2. n \in Nat /\ n < map_width /\ decode_data # <<>> /\ (n = 0 => MapOpen)
  BY <1>1 DEF CanMap, TypeOK
<1>3. map_width - n \in 1 .. 4  BY <1>2, Sizes
<1>4. /\ roq_num \in Nat /\ int_issue_num \in Nat /\ int_rename_reg_num \in Nat /\ brq_num \in Nat
      /\ lsq_committed \in Nat /\ Cardinality(Accesses(Live)) \in Nat
      /\ map_width \in 1 .. 4 /\ brq_ifq_size \in Nat
  <2>1. IsFiniteSet(Accesses(Live))  BY <1>1, Finite
  <2>2. Cardinality(Accesses(Live)) \in Nat  BY <2>1, FS_CardinalityType
  <2>3. QED  BY <1>1, <2>2, Sizes DEF TypeOK
<1>5. CASE n = 0
  <2>1. map_width - n = map_width  BY <1>4, <1>5
  <2>2. /\ roq_num + map_width <= roq_ifq_size
        /\ brq_num < brq_ifq_size - 1
        /\ int_issue_num + map_width <= int_issue_ifq_size
        /\ int_rename_reg_num + map_width <= int_rename_reg_size
        /\ Cardinality(Accesses(Live)) + lsq_committed + map_width <= lsq_ifq_size
    BY <1>2, <1>5 DEF MapOpen, LsqOpen
  <2>3. MostBranches(decode_data, map_width) \in 0 .. 2
    <3>1. map_width \div 2 \in 0 .. 2 /\ (map_width + 1) \div 2 \in 0 .. 2  BY <1>4
    <3>2. QED  BY <3>1 DEF MostBranches
  <2>4. brq_num + MostBranches(decode_data, map_width) <= brq_ifq_size  BY <1>4, <2>2, <2>3
  <2>5. QED  BY <1>2, <1>3, <2>1, <2>2, <2>4
<1>6. CASE n # 0
  <2>1. n > 0  BY <1>2, <1>6
  <2>2. /\ roq_num + map_width - n <= roq_ifq_size
        /\ int_issue_num + map_width - n <= int_issue_ifq_size
        /\ int_rename_reg_num + map_width - n <= int_rename_reg_size
        /\ Cardinality(Accesses(Live)) + lsq_committed + map_width - n <= lsq_ifq_size
        /\ brq_num + MostBranches(decode_data, map_width - n) <= brq_ifq_size
    BY <1>1, <2>1 DEF Space
  <2>3. /\ roq_num + map_width - n = roq_num + (map_width - n)
        /\ int_issue_num + map_width - n = int_issue_num + (map_width - n)
        /\ int_rename_reg_num + map_width - n = int_rename_reg_num + (map_width - n)
        /\ Cardinality(Accesses(Live)) + lsq_committed + map_width - n =
             Cardinality(Accesses(Live)) + lsq_committed + (map_width - n)
    BY <1>2, <1>4
  <2>4. QED  BY <1>2, <1>3, <2>2, <2>3
<1>7. QED  BY <1>5, <1>6

LEMMA OneMore ==
  ASSUME NEW S, IsFiniteSet(S), NEW x, NEW c \in BOOLEAN, c => x \notin S, NEW T,
         T = IF c THEN S \cup {x} ELSE S
  PROVE  Cardinality(T) = Cardinality(S) + IF c THEN 1 ELSE 0
<1>1. Cardinality(S) \in Nat  BY FS_CardinalityType
<1>2. CASE c
  <2>1. T = S \cup {x}  BY <1>2
  <2>2. QED  BY <1>2, <2>1, FS_AddElement
<1>3. CASE ~ c
  <2>1. T = S  BY <1>3
  <2>2. QED  BY <1>1, <1>3, <2>1
<1>4. QED  BY <1>2, <1>3

\* An instruction enters the reorder queue at its tail.
LEMMA Entered ==
  ASSUME TypeOK, Window, program' = program, program \in Programs, roq_num < roq_ifq_size,
         NEW rs \in Insts, roq' = [roq EXCEPT ![roq_tail] = rs], roq_head' = roq_head,
         roq_num' = roq_num + 1, roq_tail' = (roq_tail + 1) % roq_ifq_size
  PROVE  /\ roq_tail \in RoqSlots /\ roq_tail \notin Live /\ RAge(roq_tail) = roq_num
         /\ Live' = Live \cup {roq_tail} /\ Window' /\ roq' \in [RoqSlots -> Insts \cup {NoInst}]
         /\ roq_tail' \in RoqSlots /\ roq_num' \in 0 .. roq_ifq_size
         /\ roq'[roq_tail] = rs /\ \A s \in Live : roq'[s] = roq[s]
<1> DEFINE N == roq_ifq_size
<1>1. /\ N \in Nat \ {0} /\ roq_head \in 0 .. N - 1 /\ roq_num \in 0 .. N - 1 /\ RoqSlots = 0 .. N - 1
      /\ roq_tail = (roq_head + roq_num) % N /\ roq \in [RoqSlots -> Insts \cup {NoInst}]
  BY Sizes DEF TypeOK, Window
<1>2. roq_tail \in RoqSlots /\ RAge(roq_tail) = roq_num
  <2>1. /\ (roq_head + roq_num) % N \in 0 .. N - 1
        /\ AgeOn(N, roq_head, (roq_head + roq_num) % N) = roq_num
    <3> HIDE DEF N
    <3>1. QED  BY <1>1, SlotOfAge
  <2>2. QED  BY <1>1, <2>1 DEF RAge
<1>3. \A s \in RoqSlots : /\ RAge(s) \in 0 .. N - 1
                          /\ s \in Live <=> RAge(s) < roq_num
                          /\ RAge(s) = roq_num => s = roq_tail
  BY <1>2, RoqAges
<1>4. roq_tail \notin Live  BY <1>1, <1>2, <1>3
<1>5. Live' = Live \cup {roq_tail}
  <2>1. Live' = {s \in RoqSlots : RAge(s) < roq_num + 1}
    <3>1. \A s : Age(s)' = RAge(s)  BY DEF Age, RAge, AgeOn
    <3>2. Live' = {s \in RoqSlots : Age(s)' < roq_num'}  BY DEF Live
    <3>3. QED  BY <3>1, <3>2
  <2>2. ASSUME NEW s \in RoqSlots PROVE RAge(s) < roq_num + 1 <=> s \in Live \/ s = roq_tail
    <3>1. RAge(s) \in Int /\ roq_num \in Int  BY <1>1, <1>3
    <3>2. RAge(s) < roq_num + 1 <=> RAge(s) < roq_num \/ RAge(s) = roq_num  BY <3>1
    <3>3. QED  BY <1>2, <1>3, <3>2
  <2>3. Live \subseteq RoqSlots  BY DEF Live
  <2>4. QED  BY <1>2, <2>1, <2>2, <2>3
<1>6. /\ roq'[roq_tail] = rs /\ roq' \in [RoqSlots -> Insts \cup {NoInst}]
      /\ \A s \in RoqSlots : s # roq_tail => roq'[s] = roq[s]
  BY <1>1, <1>2
<1>7. \A s \in Live : roq'[s] = roq[s]  BY <1>4, <1>6 DEF Live
<1>8. roq_tail' = (roq_head' + roq_num') % N /\ roq_tail' \in RoqSlots
  <2>1. (((roq_head + roq_num) % N) + 1) % N = (roq_head + roq_num + 1) % N
    <3>1. roq_num \in 0 .. N /\ 1 \in 0 .. N  BY <1>1
    <3> HIDE DEF N
    <3>2. QED  BY <1>1, <3>1, StepsAdd
  <2>2. roq_head + roq_num + 1 = roq_head + (roq_num + 1)  BY <1>1
  <2>3. roq_tail' = (roq_head' + roq_num') % N  BY <1>1, <2>1, <2>2
  <2>4. (roq_head + (roq_num + 1)) % N \in 0 .. N - 1
    <3>1. roq_num + 1 \in 0 .. N  BY <1>1
    <3> HIDE DEF N
    <3>2. QED  BY <1>1, <3>1, SlotAt
  <2>5. QED  BY <1>1, <2>3, <2>4
<1>9. Window'
  <2>1. NoInst' = NoInst  BY SameProgram
  <2>2. rs # NoInst  BY InstFields
  <2>3. Live = {s \in RoqSlots : roq[s] # NoInst}  BY DEF Window
  <2>4. Live' = {s \in RoqSlots : roq'[s] # NoInst}  BY <1>2, <1>5, <1>6, <2>2, <2>3
  <2>5. QED  BY <1>8, <2>1, <2>4 DEF Window
<1>10. roq_num' \in 0 .. roq_ifq_size  BY <1>1
<1>11. QED  BY <1>2, <1>4, <1>5, <1>6, <1>7, <1>8, <1>9, <1>10

\* It is counted from then on.
LEMMA EnteredCounts ==
  ASSUME TypeOK, program' = program, NEW rs, NEW t, t \notin Live, Live' = Live \cup {t},
         roq'[t] = rs, \A s \in Live : roq'[s] = roq[s]
  PROVE  /\ Cardinality(Queued(Live)') =
              Cardinality(Queued(Live)) + IF rs.status = "queued" THEN 1 ELSE 0
         /\ Cardinality(Renamed(Live)') = Cardinality(Renamed(Live)) + RenameRegs(rs)
         /\ Cardinality(Accesses(Live)') =
              Cardinality(Accesses(Live)) + IF Kind(rs.pc) \in {"load", "store"} THEN 1 ELSE 0
<1>1. IsFiniteSet(Queued(Live)) /\ IsFiniteSet(Renamed(Live)) /\ IsFiniteSet(Accesses(Live))
  BY Finite
<1>2. t \notin Queued(Live) /\ t \notin Renamed(Live) /\ t \notin Accesses(Live)
  BY DEF Queued, Renamed, Accesses
<1>3. Cardinality(Queued(Live)') = Cardinality(Queued(Live)) + IF rs.status = "queued" THEN 1 ELSE 0
  <2> DEFINE c == rs.status = "queued"
             T == Queued(Live)'
  <2>1. T = {s \in Live \cup {t} : roq'[s].status = "queued"}  BY SameProgram
  <2>2. T = IF c THEN Queued(Live) \cup {t} ELSE Queued(Live)  BY <2>1 DEF Queued
  <2>3. c \in BOOLEAN  OBVIOUS
  <2> HIDE DEF c, T
  <2>4. Cardinality(T) = Cardinality(Queued(Live)) + IF c THEN 1 ELSE 0
    BY <1>1, <1>2, <2>2, <2>3, OneMore
  <2>5. QED  BY <2>4 DEF c, T
<1>4. Cardinality(Renamed(Live)') = Cardinality(Renamed(Live)) + RenameRegs(rs)
  <2> DEFINE c == RenameRegs(rs) = 1
             T == Renamed(Live)'
  <2>1. T = {s \in Live \cup {t} : RenameRegs(roq'[s]) = 1}  BY SameProgram
  <2>2. T = IF c THEN Renamed(Live) \cup {t} ELSE Renamed(Live)  BY <2>1 DEF Renamed
  <2>3. c \in BOOLEAN  OBVIOUS
  <2>4. RenameRegs(rs) = IF c THEN 1 ELSE 0  BY DEF RenameRegs
  <2> HIDE DEF c, T
  <2>5. Cardinality(T) = Cardinality(Renamed(Live)) + IF c THEN 1 ELSE 0
    BY <1>1, <1>2, <2>2, <2>3, OneMore
  <2>6. QED  BY <2>4, <2>5 DEF T
<1>5. Cardinality(Accesses(Live)') =
        Cardinality(Accesses(Live)) + IF Kind(rs.pc) \in {"load", "store"} THEN 1 ELSE 0
  <2> DEFINE c == Kind(rs.pc) \in {"load", "store"}
             T == Accesses(Live)'
  <2>1. T = {s \in Live \cup {t} : Kind(roq'[s].pc) \in {"load", "store"}}  BY SameProgram
  <2>2. T = IF c THEN Accesses(Live) \cup {t} ELSE Accesses(Live)  BY <2>1 DEF Accesses
  <2>3. c \in BOOLEAN  OBVIOUS
  <2> HIDE DEF c, T
  <2>4. Cardinality(T) = Cardinality(Accesses(Live)) + IF c THEN 1 ELSE 0
    BY <1>1, <1>2, <2>2, <2>3, OneMore
  <2>5. QED  BY <2>4 DEF c, T
<1>6. QED  BY <1>3, <1>4, <1>5

\* A branch enters the branch queue with it.
LEMMA EnteredBranches ==
  ASSUME TypeOK, Branches, program' = program, NEW rs,
         roq_tail \in RoqSlots, roq_tail \notin Live, RAge(roq_tail) = roq_num,
         Live' = Live \cup {roq_tail}, roq_head' = roq_head,
         roq'[roq_tail] = rs, \A s \in Live : roq'[s] = roq[s],
         IF IsCtrl(rs.pc)
         THEN /\ brq' = [brq EXCEPT ![brq_tail] = roq_tail]
              /\ brq_tail' = (brq_tail + 1) % brq_ifq_size
              /\ brq_num' = brq_num + 1
              /\ brq_head' = brq_head
         ELSE UNCHANGED brqVars,
         IsCtrl(rs.pc) => brq_num < brq_ifq_size /\ rs.brqid = brq_tail
  PROVE  /\ Branches'
         /\ brq' \in [BrqSlots -> RoqSlots \cup {NoSlot}] /\ brq_head' \in BrqSlots
         /\ brq_tail' \in BrqSlots /\ brq_num' \in 0 .. brq_ifq_size
<1> DEFINE B == brq_ifq_size
<1>1. /\ B \in Nat \ {0} /\ brq_head \in 0 .. B - 1 /\ brq_num \in 0 .. B /\ BrqSlots = 0 .. B - 1
      /\ brq \in [BrqSlots -> RoqSlots \cup {NoSlot}] /\ brq_tail = (brq_head + brq_num) % B
      /\ \A b \in BrqSlots : BAge(b) \in 0 .. B - 1
      /\ brq_tail \in BrqSlots
  BY Sizes, BrqAges DEF TypeOK, Branches
<1>2. Ctrl(Live)' = {s \in Live \cup {roq_tail} : IsCtrl(roq'[s].pc)}  BY SameProgram
<1>3. \A s : RAge(s)' = RAge(s)  BY DEF RAge
<1>4. CASE ~ IsCtrl(rs.pc)
  <2>1. UNCHANGED <<brq, brq_head, brq_tail, brq_num>>  BY <1>4 DEF brqVars
  <2>2. \A b : BAge(b)' = BAge(b)  BY <2>1 DEF BAge
  <2>3. Ctrl(Live)' = Ctrl(Live) /\ \A s \in Ctrl(Live) : roq'[s] = roq[s]
    BY <1>2, <1>4 DEF Ctrl
  <2>4. ASSUME NEW b \in BrqSlots
        PROVE  IF BAge(b) < brq_num THEN brq[b] \in Ctrl(Live) /\ roq'[brq[b]].brqid = b
                                    ELSE brq[b] = NoSlot
    BY <2>3 DEF Branches
  <2>5. \A s \in Ctrl(Live) : roq'[s].brqid \in BrqSlots /\ brq[roq'[s].brqid] = s
    BY <2>3 DEF Branches
  <2>6. ASSUME NEW b \in BrqSlots, NEW c \in BrqSlots, BAge(b) < BAge(c), BAge(c) < brq_num
        PROVE  AgeOn(roq_ifq_size, roq_head', brq'[b]) < AgeOn(roq_ifq_size, roq_head', brq'[c])
    <3>1. RAge(brq[b]) < RAge(brq[c])  BY <2>6 DEF Branches
    <3>2. QED  BY <2>1, <3>1 DEF RAge
  <2>7. Branches'
    <3>1. \A b, c \in BrqSlots :
            BAge(b)' < BAge(c)' /\ BAge(c)' < brq_num' =>
              AgeOn(roq_ifq_size, roq_head', brq'[b]) < AgeOn(roq_ifq_size, roq_head', brq'[c])
      BY <2>1, <2>2, <2>6
    <3>2. \A b \in BrqSlots :
            IF BAge(b)' < brq_num' THEN brq'[b] \in Ctrl(Live)' /\ roq'[brq'[b]].brqid = b
                                   ELSE brq'[b] = NoSlot
      BY <2>1, <2>2, <2>3, <2>4
    <3>3. \A s \in Ctrl(Live)' : roq'[s].brqid \in BrqSlots /\ brq'[roq'[s].brqid] = s
      BY <2>1, <2>3, <2>5
    <3>4. (brq_head' + brq_num') % brq_ifq_size = brq_tail'  BY <1>1, <2>1
    <3>5. QED  BY <3>1, <3>2, <3>3, <3>4 DEF Branches, RAge
  <2>8. QED  BY <1>1, <2>1, <2>7
<1>5. CASE IsCtrl(rs.pc)
  <2>1. /\ brq' = [brq EXCEPT ![brq_tail] = roq_tail]
        /\ brq_tail' = (brq_tail + 1) % B /\ brq_num' = brq_num + 1 /\ brq_head' = brq_head
        /\ brq_num \in 0 .. B - 1 /\ rs.brqid = brq_tail
    BY <1>1, <1>5
  <2>2. \A b : BAge(b)' = BAge(b)  BY <2>1 DEF BAge
  <2>3. BAge(brq_tail) = brq_num
    <3>1. AgeOn(B, brq_head, (brq_head + brq_num) % B) = brq_num
      <4> HIDE DEF B
      <4>1. QED  BY <1>1, <2>1, SlotOfAge
    <3>2. QED  BY <1>1, <3>1 DEF BAge
  <2>4. ASSUME NEW b \in BrqSlots
        PROVE  /\ BAge(b) < brq_num + 1 <=> BAge(b) < brq_num \/ b = brq_tail
               /\ BAge(b) < brq_num => b # brq_tail
    <3>1. BAge(b) \in Int /\ brq_num \in Int  BY <1>1
    <3>2. BAge(b) = brq_num <=> b = brq_tail  BY <1>1, <2>3, BrqAges
    <3>3. BAge(b) < brq_num + 1 <=> BAge(b) < brq_num \/ BAge(b) = brq_num  BY <3>1
    <3>4. BAge(b) < brq_num => BAge(b) # brq_num  BY <3>1
    <3>5. QED  BY <3>2, <3>3, <3>4
  <2>5. brq'[brq_tail] = roq_tail /\ \A b \in BrqSlots : b # brq_tail => brq'[b] = brq[b]
    BY <1>1, <2>1
  <2>6. /\ Ctrl(Live)' = Ctrl(Live) \cup {roq_tail}
        /\ \A s \in Ctrl(Live) : roq'[s] = roq[s] /\ s \in Live
    BY <1>2, <1>5 DEF Ctrl
  <2>7. ASSUME NEW b \in BrqSlots, BAge(b) < brq_num
        PROVE  brq'[b] = brq[b] /\ brq[b] \in Ctrl(Live) /\ brq[b] \in Live /\ roq'[brq[b]].brqid = b
    <3>1. brq'[b] = brq[b]  BY <2>4, <2>5, <2>7
    <3>2. brq[b] \in Ctrl(Live) /\ roq[brq[b]].brqid = b  BY <2>7 DEF Branches
    <3>3. QED  BY <2>6, <3>1, <3>2
  <2>8. ASSUME NEW b \in BrqSlots
        PROVE  IF BAge(b) < brq_num + 1 THEN brq'[b] \in Ctrl(Live)' /\ roq'[brq'[b]].brqid = b
                                        ELSE brq'[b] = NoSlot
    <3>1. CASE BAge(b) < brq_num  BY <2>4, <2>6, <2>7, <3>1
    <3>2. CASE b = brq_tail  BY <2>1, <2>4, <2>5, <2>6, <3>2
    <3>3. CASE ~ (BAge(b) < brq_num) /\ b # brq_tail
      <4>1. brq[b] = NoSlot  BY <3>3 DEF Branches
      <4>2. QED  BY <2>4, <2>5, <3>3, <4>1
    <3>4. QED  BY <3>1, <3>2, <3>3
  <2>9. ASSUME NEW s \in Ctrl(Live)'
        PROVE  roq'[s].brqid \in BrqSlots /\ brq'[roq'[s].brqid] = s
    <3>1. CASE s = roq_tail  BY <1>1, <2>1, <2>5, <3>1
    <3>2. CASE s \in Ctrl(Live)
      <4>1. roq[s].brqid \in BrqSlots /\ brq[roq[s].brqid] = s  BY <3>2 DEF Branches
      <4>2. s # NoSlot /\ roq'[s] = roq[s]  BY <2>6, <3>2, Sizes DEF Live
      <4>3. BAge(roq[s].brqid) < brq_num  BY <4>1, <4>2 DEF Branches
      <4>4. QED  BY <2>7, <4>1, <4>2, <4>3
    <3>3. QED  BY <2>6, <3>1, <3>2
  <2>10. ASSUME NEW b \in BrqSlots, NEW c \in BrqSlots, BAge(b) < BAge(c), BAge(c) < brq_num + 1
         PROVE  AgeOn(roq_ifq_size, roq_head', brq'[b]) < AgeOn(roq_ifq_size, roq_head', brq'[c])
    <3>1. BAge(b) \in Int /\ BAge(c) \in Int /\ brq_num \in Int  BY <1>1
    <3>2. BAge(b) < brq_num  BY <2>10, <3>1
    <3>3. brq'[b] = brq[b] /\ brq[b] \in Live  BY <2>7, <3>2
    <3>4. CASE c = brq_tail
      <4>1. RAge(brq[b]) < roq_num  BY <3>3, RoqAges
      <4>2. brq'[c] = roq_tail  BY <2>5, <3>4
      <4>3. QED  BY <3>3, <4>1, <4>2 DEF RAge
    <3>5. CASE c # brq_tail
      <4>1. BAge(c) < brq_num  BY <2>4, <2>10, <3>5
      <4>2. brq'[c] = brq[c]  BY <2>7, <4>1
      <4>3. RAge(brq[b]) < RAge(brq[c])  BY <2>10, <4>1 DEF Branches
      <4>4. QED  BY <3>3, <4>2, <4>3 DEF RAge
    <3>6. QED  BY <3>4, <3>5
  <2>11. brq_tail' = (brq_head' + brq_num') % B /\ brq_tail' \in BrqSlots
    <3>1. (((brq_head + brq_num) % B) + 1) % B = (brq_head + brq_num + 1) % B
      <4>1. brq_num \in 0 .. B /\ 1 \in 0 .. B  BY <1>1
      <4> HIDE DEF B
      <4>2. QED  BY <1>1, <4>1, StepsAdd
    <3>2. brq_head + brq_num + 1 = brq_head + (brq_num + 1)  BY <1>1
    <3>3. (brq_head + (brq_num + 1)) % B \in 0 .. B - 1
      <4>1. brq_num + 1 \in 0 .. B  BY <1>1, <2>1
      <4> HIDE DEF B
      <4>2. QED  BY <1>1, <4>1, SlotAt
    <3>4. QED  BY <1>1, <2>1, <3>1, <3>2, <3>3
  <2>12. Branches'
    <3>1. \A b, c \in BrqSlots :
            BAge(b)' < BAge(c)' /\ BAge(c)' < brq_num' =>
              AgeOn(roq_ifq_size, roq_head', brq'[b]) < AgeOn(roq_ifq_size, roq_head', brq'[c])
      BY <2>1, <2>2, <2>10
    <3>2. \A b \in BrqSlots :
            IF BAge(b)' < brq_num' THEN brq'[b] \in Ctrl(Live)' /\ roq'[brq'[b]].brqid = b
                                   ELSE brq'[b] = NoSlot
      BY <2>1, <2>2, <2>8
    <3>3. QED  BY <2>9, <2>11, <3>1, <3>2 DEF Branches, RAge
  <2>13. brq_num' \in 0 .. B /\ brq' \in [BrqSlots -> RoqSlots \cup {NoSlot}]
    BY <1>1, <2>1
  <2>14. QED  BY <1>1, <2>1, <2>11, <2>12, <2>13
<1>6. QED  BY <1>4, <1>5

\* What the rest of the decode queue says of delay slots.
LEMMA TailFollows ==
  ASSUME NEW f, NEW pc, NEW b, NEW d \in Seq(Insts), d # <<>>, SlotsFollow(f, pc, b, d)
  PROVE  /\ Tail(d) \in Seq(Insts) /\ Len(Tail(d)) = Len(d) - 1 /\ Len(d) \in Nat \ {0}
         /\ \A i \in 1 .. Len(d) - 1 : Tail(d)[i] = d[i + 1]
         /\ SlotsFollow(f, pc, b, Tail(d))
         /\ Tail(d) # <<>> /\ IsCtrl(d[1].pc) => ~ IsCtrl(Tail(d)[1].pc)
<1> DEFINE g == Tail(d)
<1>1. /\ g \in Seq(Insts) /\ Len(g) = Len(d) - 1 /\ Len(d) \in Nat \ {0}
      /\ \A i \in 1 .. Len(d) - 1 : g[i] = d[i + 1]
  BY HeadTailProperties, EmptySeq
<1> HIDE DEF g
<1>2. ASSUME NEW i \in 1 .. Len(g) - 1, IsCtrl(g[i].pc) PROVE ~ IsCtrl(g[i + 1].pc)
  <2>1. i \in 1 .. Len(d) - 1 /\ i + 1 \in 1 .. Len(d) - 1  BY <1>1
  <2>2. g[i] = d[i + 1] /\ g[i + 1] = d[(i + 1) + 1]  BY <1>1, <2>1
  <2>3. QED  BY <1>2, <2>1, <2>2 DEF SlotsFollow
<1>3. ASSUME g # <<>> PROVE b <=> IsCtrl(g[Len(g)].pc)
  <2>1. Len(g) \in 1 .. Len(d) - 1 /\ Len(g) + 1 = Len(d)  BY <1>1, <1>3, EmptySeq
  <2>2. g[Len(g)] = d[Len(d)]  BY <1>1, <2>1
  <2>3. QED  BY <2>2 DEF SlotsFollow
<1>4. ASSUME g # <<>>, IsCtrl(d[1].pc) PROVE ~ IsCtrl(g[1].pc)
  <2>1. 1 \in 1 .. Len(d) - 1  BY <1>1, <1>4, EmptySeq
  <2>2. g[1] = d[1 + 1]  BY <1>1, <2>1
  <2>3. QED  BY <1>4, <2>1, <2>2 DEF SlotsFollow
<1>5. SlotsFollow(f, pc, b, g)  BY <1>2, <1>3 DEF SlotsFollow
<1>6. QED  BY <1>1, <1>4, <1>5 DEF g

LEMMA MapKeeps ==
  ASSUME IInv, map_one
  PROVE  IInv'
<1>1. TypeOK /\ Front /\ Window /\ Branches /\ Counted /\ Space /\ DelaySlots  BY DEF IInv
<1> DEFINE d == decode_data
           old == d[1]
           rs == Enter(old, brq_tail)
           D == map_width - n
<1>2. /\ stage = "map" /\ CanMap
      /\ roq' = [roq EXCEPT ![roq_tail] = rs]
      /\ IF IsCtrl(old.pc)
         THEN /\ brq' = [brq EXCEPT ![brq_tail] = roq_tail]
              /\ brq_tail' = (brq_tail + 1) % brq_ifq_size
              /\ brq_num' = brq_num + 1
              /\ brq_head' = brq_head
         ELSE UNCHANGED brqVars
      /\ int_rename_reg_num' = int_rename_reg_num + RenameRegs(old)
      /\ int_issue_num' = IF Kind(old.pc) = "bogus" THEN int_issue_num ELSE int_issue_num + 1
      /\ roq_tail' = (roq_tail + 1) % roq_ifq_size
      /\ roq_num' = roq_num + 1
      /\ decode_data' = Tail(d)
      /\ \/ Len(d) > 1 /\ n + 1 < map_width /\ n' = n + 1 /\ stage' = stage
         \/ stage' = "decode" /\ n' = 0
      /\ UNCHANGED <<fetchVars, front, spec_level, roq_head, lsq_committed, program>>
  BY DEF map_one, Iterate, Goto
<1>3. /\ UNCHANGED <<fetch_reg_PC, stall, fetch_data, front, spec_level, roq_head, program>>
      /\ UNCHANGED lsq_committed
      /\ stage' \in {"map", "decode"} /\ n' \in Nat
  BY <1>1, <1>2 DEF fetchVars, TypeOK
<1>4. /\ n \in Nat /\ D \in 1 .. 4 /\ d # <<>>
      /\ roq_num + D <= roq_ifq_size
      /\ int_issue_num + D <= int_issue_ifq_size
      /\ int_rename_reg_num + D <= int_rename_reg_size
      /\ Cardinality(Accesses(Live)) + lsq_committed + D <= lsq_ifq_size
      /\ brq_num + MostBranches(d, D) <= brq_ifq_size
  BY <1>2, MapRoom
<1>5. /\ roq_num \in Nat /\ int_issue_num \in Nat /\ int_rename_reg_num \in Nat /\ brq_num \in Nat
      /\ lsq_committed \in Nat /\ Cardinality(Accesses(Live)) \in Nat
      /\ roq_ifq_size \in Nat /\ brq_ifq_size \in Nat /\ int_issue_ifq_size \in Nat
      /\ int_rename_reg_size \in Nat /\ lsq_ifq_size \in Nat /\ map_width \in 1 .. 4
      /\ d \in Seq(Insts) /\ Len(d) <= decode_ifq_size /\ decode_ifq_size \in Nat
      /\ program \in Programs
  <2>1. IsFiniteSet(Accesses(Live))  BY <1>1, Finite
  <2>2. Cardinality(Accesses(Live)) \in Nat  BY <2>1, FS_CardinalityType
  <2>3. QED  BY <1>1, <2>2, Sizes DEF TypeOK, Front
<1>6. /\ Tail(d) \in Seq(Insts) /\ Len(Tail(d)) = Len(d) - 1 /\ Len(d) \in Nat \ {0}
      /\ SlotsFollow(fetch_data, fetch_reg_PC, front.lastIsBranch, Tail(d))
      /\ Tail(d) # <<>> /\ IsCtrl(d[1].pc) => ~ IsCtrl(Tail(d)[1].pc)
  <2>1. SlotsFollow(fetch_data, fetch_reg_PC, front.lastIsBranch, d)  BY <1>1 DEF DelaySlots
  <2> HIDE DEF d
  <2>2. QED  BY <1>4, <1>5, <2>1, TailFollows
<1>7. old \in Insts
  <2>1. 1 \in 1 .. Len(d)  BY <1>6
  <2>2. QED  BY <1>5, <2>1, ElementOfSeq
<1> HIDE DEF d, old, D
<1>8. /\ rs \in Insts /\ rs.pc = old.pc
      /\ rs.status = (IF Kind(old.pc) = "bogus" THEN "trap" ELSE "queued")
      /\ IsCtrl(rs.pc) => rs.brqid = brq_tail
  <2> DEFINE st == IF Kind(old.pc) = "bogus" THEN "trap" ELSE "queued"
             bq == IF IsCtrl(old.pc) THEN brq_tail ELSE NoSlot
             r == [old EXCEPT !.status = st, !.brqid = bq]
  <2>1. st \in Status /\ bq \in BrqSlots \cup {NoSlot}  BY <1>1 DEF TypeOK, Status
  <2>2. rs = r  BY DEF Enter
  <2> HIDE DEF st, bq
  <2>3. r \in Insts /\ r.pc = old.pc /\ r.status = st /\ r.brqid = bq  BY <1>7, <2>1 DEF Insts
  <2> HIDE DEF r, rs
  <2>4. QED  BY <2>2, <2>3 DEF st, bq
<1> HIDE DEF rs
<1>9. /\ roq_tail \in RoqSlots /\ roq_tail \notin Live /\ RAge(roq_tail) = roq_num
      /\ Live' = Live \cup {roq_tail} /\ Window' /\ roq' \in [RoqSlots -> Insts \cup {NoInst}]
      /\ roq_tail' \in RoqSlots /\ roq_num' \in 0 .. roq_ifq_size
      /\ roq'[roq_tail] = rs /\ \A s \in Live : roq'[s] = roq[s]
  <2>1. roq_num < roq_ifq_size  BY <1>4, <1>5
  <2>2. QED  BY <1>1, <1>2, <1>3, <1>5, <1>8, <2>1, Entered
<1>10. /\ Branches'
       /\ brq' \in [BrqSlots -> RoqSlots \cup {NoSlot}] /\ brq_head' \in BrqSlots
       /\ brq_tail' \in BrqSlots /\ brq_num' \in 0 .. brq_ifq_size
  <2>1. ASSUME IsCtrl(rs.pc) PROVE brq_num < brq_ifq_size
    <3>1. MostBranches(d, D) = (D + 1) \div 2  BY <1>8, <2>1 DEF MostBranches, old
    <3>2. (D + 1) \div 2 >= 1 /\ (D + 1) \div 2 \in Int  BY <1>4
    <3>3. QED  BY <1>4, <1>5, <3>1, <3>2
  <2>2. QED  BY <1>1, <1>2, <1>3, <1>8, <1>9, <2>1, EnteredBranches
<1>11. /\ Cardinality(Queued(Live)') =
            Cardinality(Queued(Live)) + IF Kind(old.pc) = "bogus" THEN 0 ELSE 1
       /\ Cardinality(Renamed(Live)') = Cardinality(Renamed(Live)) + RenameRegs(old)
       /\ Cardinality(Accesses(Live)') =
            Cardinality(Accesses(Live)) + IF Kind(old.pc) \in {"load", "store"} THEN 1 ELSE 0
  <2>1. /\ Cardinality(Queued(Live)') =
             Cardinality(Queued(Live)) + IF rs.status = "queued" THEN 1 ELSE 0
        /\ Cardinality(Renamed(Live)') = Cardinality(Renamed(Live)) + RenameRegs(rs)
        /\ Cardinality(Accesses(Live)') =
             Cardinality(Accesses(Live)) + IF Kind(rs.pc) \in {"load", "store"} THEN 1 ELSE 0
    BY <1>1, <1>3, <1>9, EnteredCounts
  <2>2. RenameRegs(rs) = RenameRegs(old)  BY <1>8 DEF RenameRegs
  <2>3. rs.status = "queued" <=> Kind(old.pc) # "bogus"  BY <1>8
  <2>4. QED  BY <1>8, <2>1, <2>2, <2>3
<1>12. RenameRegs(old) \in 0 .. 1  BY DEF RenameRegs
<1>13. Counted'
  <2>1. int_rename_reg_num' = Cardinality(Renamed(Live)')  BY <1>1, <1>2, <1>11 DEF Counted
  <2>2. int_issue_num' = Cardinality(Queued(Live)')
    <3>1. CASE Kind(old.pc) = "bogus"  BY <1>1, <1>2, <1>5, <1>11, <3>1 DEF Counted
    <3>2. CASE Kind(old.pc) # "bogus"  BY <1>1, <1>2, <1>11, <3>2 DEF Counted
    <3>3. QED  BY <3>1, <3>2
  <2>3. QED  BY <2>1, <2>2 DEF Counted
<1>14. /\ int_issue_num' \in int_issue_num .. int_issue_num + 1
       /\ int_rename_reg_num' \in int_rename_reg_num .. int_rename_reg_num + 1
       /\ Cardinality(Accesses(Live)') \in Cardinality(Accesses(Live)) .. Cardinality(Accesses(Live)) + 1
  BY <1>2, <1>5, <1>11, <1>12
<1>15. Space'
  <2>1. Cardinality(Accesses(Live)') + lsq_committed' <= lsq_ifq_size
    BY <1>3, <1>4, <1>5, <1>14
  <2>2. ASSUME stage' = "map", n' > 0
        PROVE  /\ n' <= map_width
               /\ roq_num' + map_width - n' <= roq_ifq_size
               /\ int_issue_num' + map_width - n' <= int_issue_ifq_size
               /\ int_rename_reg_num' + map_width - n' <= int_rename_reg_size
               /\ Cardinality(Accesses(Live)') + lsq_committed' + map_width - n' <= lsq_ifq_size
               /\ brq_num' + MostBranches(decode_data', map_width - n') <= brq_ifq_size
    <3>1. n' = n + 1 /\ n + 1 < map_width /\ Len(d) > 1  BY <1>2, <2>2
    <3>2. D = map_width - n /\ map_width - n' = D - 1 /\ D - 1 \in 1 .. 3
      BY <1>4, <1>5, <3>1 DEF D
    <3>3. n' <= map_width  BY <1>4, <1>5, <3>1
    <3>4. roq_num' + map_width - n' <= roq_ifq_size  BY <1>2, <1>4, <1>5, <3>1, <3>2
    <3> DEFINE Fits(a, b, c) == a \in Nat /\ b \in a .. a + 1 /\ c \in Nat /\ a + D <= c
                                  => b + map_width - n' <= c
    <3>5. \A a, b, c : Fits(a, b, c)
      <4>1. SUFFICES ASSUME NEW a \in Nat, NEW b \in a .. a + 1, NEW c \in Nat, a + D <= c
                     PROVE  b + map_width - n' <= c
        OBVIOUS
      <4>2. n' \in Nat /\ b + map_width - n' = b + (D - 1)  BY <1>3, <1>5, <3>2
      <4>3. b + (D - 1) <= c  BY <1>4, <4>1
      <4>4. QED  BY <4>2, <4>3
    <3>6. int_issue_num' + map_width - n' <= int_issue_ifq_size
      <4>1. Fits(int_issue_num, int_issue_num', int_issue_ifq_size)  BY <3>5
      <4>2. QED  BY <1>4, <1>5, <1>14, <4>1
    <3>7. int_rename_reg_num' + map_width - n' <= int_rename_reg_size
      <4>1. Fits(int_rename_reg_num, int_rename_reg_num', int_rename_reg_size)  BY <3>5
      <4>2. QED  BY <1>4, <1>5, <1>14, <4>1
    <3>8. Cardinality(Accesses(Live)') + lsq_committed' + map_width - n' <= lsq_ifq_size
      BY <1>3, <1>4, <1>5, <1>14, <3>1, <3>2
    <3>9. brq_num' + MostBranches(Tail(d), D - 1) <= brq_ifq_size
      <4>1. Tail(d) # <<>>
        <5> DEFINE g == Tail(d)
        <5>1. Len(g) \in Nat \ {0}  BY <1>6, <3>1
        <5> HIDE DEF g
        <5>2. g # <<>>  BY <5>1, EmptySeq
        <5>3. QED  BY <5>2 DEF g
      <4>2. /\ (D - 1) \div 2 \in Nat /\ D \div 2 \in Nat /\ ((D - 1) + 1) \div 2 = D \div 2
            /\ (D + 1) \div 2 = (D - 1) \div 2 + 1 /\ (D - 1) \div 2 <= D \div 2
        BY <1>4
      <4>3. CASE IsCtrl(old.pc)
        <5>1. brq_num' = brq_num + 1  BY <1>2, <4>3
        <5>2. MostBranches(Tail(d), D - 1) = (D - 1) \div 2
          BY <1>6, <4>1, <4>3 DEF MostBranches, old
        <5>3. MostBranches(d, D) = (D + 1) \div 2  BY <4>3 DEF MostBranches, old
        <5>4. QED  BY <1>4, <1>5, <4>2, <5>1, <5>2, <5>3
      <4>4. CASE ~ IsCtrl(old.pc)
        <5>1. brq_num' = brq_num  BY <1>2, <4>4 DEF brqVars
        <5>2. MostBranches(Tail(d), D - 1) \in {(D - 1) \div 2, ((D - 1) + 1) \div 2}
          BY DEF MostBranches
        <5>3. MostBranches(d, D) = D \div 2  BY <1>4, <4>4 DEF MostBranches, old
        <5>4. QED  BY <1>4, <1>5, <4>2, <5>1, <5>2, <5>3
      <4>5. QED  BY <4>3, <4>4
    <3>10. QED  BY <1>2, <3>2, <3>3, <3>4, <3>6, <3>7, <3>8, <3>9
  <2>3. \A k : MostBranches(decode_data, k)' = MostBranches(decode_data', k)
    BY <1>3, SameText
  <2>4. QED  BY <2>1, <2>2, <2>3 DEF Space
<1>16. TypeOK'
  <2>1. int_issue_num' \in 0 .. int_issue_ifq_size  BY <1>4, <1>5, <1>14
  <2>2. int_rename_reg_num' \in 0 .. int_rename_reg_size  BY <1>4, <1>5, <1>14
  <2>3. decode_data' \in Seq(Insts) /\ Len(decode_data') <= decode_ifq_size
    BY <1>2, <1>5, <1>6
  <2>4. QED  BY <1>1, <1>3, <1>9, <1>10, <2>1, <2>2, <2>3, SameProgram DEF TypeOK
<1>17. Front'  BY <1>1, <1>3, SameProgram DEF Front
<1>18. DelaySlots'  BY <1>2, <1>3, <1>6, SameText
<1>19. QED  BY <1>9, <1>10, <1>13, <1>15, <1>16, <1>17, <1>18 DEF IInv

-----------------------------------------------------------------------------
(***************************************************************************)
(* The invariant, and what it says.                                        *)
(***************************************************************************)

LEMMA Start ==
  ASSUME Init
  PROVE  IInv
<1>1. /\ program \in Programs /\ stage = "commit" /\ n = 0
      /\ fetch_reg_PC = 0 /\ stall = FALSE /\ fetch_data = <<>>
      /\ front = Idle /\ spec_level = 0 /\ decode_data = <<>>
      /\ roq = [s \in RoqSlots |-> NoInst] /\ roq_head = 0 /\ roq_tail = 0 /\ roq_num = 0
      /\ brq = [s \in BrqSlots |-> NoSlot] /\ brq_head = 0 /\ brq_tail = 0 /\ brq_num = 0
      /\ int_issue_num = 0 /\ int_rename_reg_num = 0 /\ lsq_committed = 0
  BY DEF Init
<1>2. 0 \in RoqSlots /\ 0 \in BrqSlots  BY Sizes
<1>3. TypeOK
  <2>1. 0 \in PCs  BY <1>1, TheText
  <2>2. /\ fetch_data \in Seq(PCs) /\ Len(fetch_data) <= fetch_ifq_size
        /\ decode_data \in Seq(Insts) /\ Len(decode_data) <= decode_ifq_size
    BY <1>1, EmptySeq, Sizes
  <2>3. /\ roq \in [RoqSlots -> Insts \cup {NoInst}] /\ brq \in [BrqSlots -> RoqSlots \cup {NoSlot}]
    BY <1>1
  <2>4. /\ roq_num \in 0 .. roq_ifq_size /\ brq_num \in 0 .. brq_ifq_size
        /\ int_issue_num \in 0 .. int_issue_ifq_size /\ int_rename_reg_num \in 0 .. int_rename_reg_size
        /\ lsq_committed \in 0 .. lsq_ifq_size
    BY <1>1, Sizes
  <2>5. QED  BY <1>1, <1>2, <2>1, <2>2, <2>3, <2>4 DEF TypeOK
<1>4. Live = {}
  <2>1. \A s \in RoqSlots : RAge(s) \in 0 .. roq_ifq_size - 1  BY <1>3, RoqAges
  <2>2. \A s \in RoqSlots : ~ (RAge(s) < roq_num)  BY <1>1, <2>1, Sizes
  <2>3. QED  BY <1>3, <2>2, RoqAges
<1>5. Front
  <2>1. Idle \in Fronts /\ Idle.redirect = NoPC  BY DEF Idle, Fronts
  <2>2. QED  BY <1>1, <2>1 DEF Front
<1>6. Window
  <2>1. (0 + 0) % roq_ifq_size = 0  BY Sizes
  <2>2. QED  BY <1>1, <1>4, <2>1 DEF Window
<1>7. Branches
  <2>1. \A b \in BrqSlots : ~ (BAge(b) < brq_num) /\ brq[b] = NoSlot
    <3>1. \A b \in BrqSlots : BAge(b) \in 0 .. brq_ifq_size - 1  BY <1>3, BrqAges
    <3>2. QED  BY <1>1, <3>1, Sizes
  <2>2. Ctrl(Live) = {}  BY <1>4 DEF Ctrl
  <2>3. (0 + 0) % brq_ifq_size = 0  BY Sizes
  <2>4. QED  BY <1>1, <2>1, <2>2, <2>3 DEF Branches
<1>8. Queued(Live) = {} /\ Renamed(Live) = {} /\ Accesses(Live) = {}
  BY <1>4 DEF Queued, Renamed, Accesses
<1>9. Cardinality({}) = 0  BY FS_EmptySet
<1>10. Counted  BY <1>1, <1>8, <1>9 DEF Counted
<1>11. Space
  <2>1. 0 + 0 <= lsq_ifq_size  BY Sizes
  <2>2. QED  BY <1>1, <1>8, <1>9, <2>1 DEF Space
<1>12. DelaySlots
  <2>1. SlotsFollow(<<>>, fetch_reg_PC, FALSE, <<>>)  BY EmptySeq DEF SlotsFollow
  <2>2. front.lastIsBranch = FALSE  BY <1>1 DEF Idle
  <2>3. QED  BY <1>1, <2>1, <2>2 DEF DelaySlots
<1>13. QED  BY <1>3, <1>5, <1>6, <1>7, <1>10, <1>11, <1>12 DEF IInv

LEMMA Step ==
  ASSUME IInv, [Next]_vars
  PROVE  IInv'
<1>1. CASE commit  BY <1>1, CommitKeeps
<1>2. CASE pipeline_flush  BY <1>2, FlushKeeps
<1>3. CASE commit_end \/ check_brq_none \/ map_end \/ UNCHANGED vars  BY <1>3, IdleKeeps
<1>4. CASE check_brq_right  BY <1>4, ResolveKeeps
<1>5. CASE brerr_recover  BY <1>5, RecoverKeeps
<1>6. CASE Execute
  <2>1. PICK done \in SUBSET Issued, ready \in SUBSET Queued(Live), left \in 0 .. lsq_committed :
          \E early \in SUBSET TooEarly(done) : execute(done, early, ready, left)
    BY <1>6 DEF Execute, Execution
  <2>2. QED  BY <2>1, ExecuteKeeps
<1>7. CASE map_one  BY <1>7, MapKeeps
<1>8. CASE decode_one  BY <1>8, DecodeKeeps
<1>9. CASE decode_end  BY <1>9, DecodeEndKeeps
<1>10. CASE \E k \in 0 .. fetch_ifq_size : fetch_stage(k)  BY <1>10, FetchKeeps
<1>11. QED
  BY <1>1, <1>2, <1>3, <1>4, <1>5, <1>6, <1>7, <1>8, <1>9, <1>10 DEF Next

LEMMA Invariance == Spec => []IInv
<1>1. Init => IInv  BY Start
<1>2. IInv /\ [Next]_vars => IInv'  BY Step
<1>3. QED  BY <1>1, <1>2, PTL DEF Spec

\* No counter of the window leaves its range: the loops of map_stage, which look
\* at the room once for map_width instructions, never overfill a queue, and no
\* squash takes back more than was given out (src/map.c, src/commit.c).
THEOREM TypeCorrect == Spec => []TypeOK
<1>1. IInv => TypeOK  BY DEF IInv
<1>2. QED  BY <1>1, Invariance, PTL

\* The branch queue holds as many entries as there are branches in the window.
LEMMA AllBranches ==
  ASSUME TypeOK, Branches
  PROVE  brq_num = Cardinality(Ctrl(Live))
<1>1. \A s \in Live, t \in Live : RAge(t) > RAge(s) => t \in Live  OBVIOUS
<1>2. Live \in SUBSET Live  OBVIOUS
<1> DEFINE c == Cardinality(Ctrl(Live))
<1>3. c \in 0 .. brq_num  BY <1>1, <1>2, YoungestBranches
<1>4. \A b \in BrqSlots : BAge(b) < brq_num => BAge(b) >= brq_num - c
  <2>1. \A b \in BrqSlots : BAge(b) < brq_num => (brq[b] \in Live <=> BAge(b) >= brq_num - c)
    BY <1>1, <1>2, YoungestBranches
  <2>2. \A b \in BrqSlots : BAge(b) < brq_num => brq[b] \in Live  BY DEF Branches, Ctrl
  <2>3. QED  BY <2>1, <2>2
<1> HIDE DEF c
<1>5. /\ brq_num \in Nat /\ brq_ifq_size \in Nat \ {0} /\ brq_head \in 0 .. brq_ifq_size - 1
      /\ brq_head \in BrqSlots /\ 1 \in 1 .. brq_ifq_size
  BY Sizes DEF TypeOK
<1>6. BAge(brq_head) = 0  BY <1>5, HeadMoves DEF BAge
<1>7. brq_num = c
  <2>1. SUFFICES ASSUME c < brq_num PROVE FALSE  BY <1>3, <1>5
  <2>2. BAge(brq_head) < brq_num /\ ~ (BAge(brq_head) >= brq_num - c)
    BY <1>3, <1>5, <1>6, <2>1
  <2>3. QED  BY <1>4, <1>5, <2>2
<1>8. QED  BY <1>7 DEF c

\* The two queues stay aligned through commits, squashes of any length and
\* flushes that restart the reorder queue but not the branch queue: simulate.c
\* does not panic, and the resource counters are what the queues hold
\* (src/commit.c, pipeline_flush; src/writeback.c, brerr_recover).
THEOREM QueuesAligned == Spec => []QueuesAgree
<1>1. ASSUME IInv PROVE QueuesAgree
  <2>1. TypeOK /\ Window /\ Branches /\ Counted  BY <1>1 DEF IInv
  <2>2. brq_num = Cardinality(Ctrl(Live))  BY <2>1, AllBranches
  <2>3. /\ brq_ifq_size \in Nat \ {0} /\ brq_head \in 0 .. brq_ifq_size - 1
        /\ brq_num \in 0 .. brq_ifq_size /\ BrqSlots = 0 .. brq_ifq_size - 1
    BY <2>1, Sizes DEF TypeOK
  <2>4. \A i \in 0 .. brq_ifq_size - 1 : Nth(i) \in BrqSlots /\ BAge(Nth(i)) = i
    BY <2>3, SlotOfAge DEF Nth, BAge
  <2>5. ASSUME NEW i \in 0 .. brq_ifq_size - 1
        PROVE  IF i >= brq_num
               THEN brq[Nth(i)] = NoSlot
               ELSE /\ brq[Nth(i)] \in Ctrl(Live)
                    /\ roq[brq[Nth(i)]].brqid = Nth(i)
                    /\ \A j \in 0 .. i - 1 : Age(brq[Nth(j)]) < Age(brq[Nth(i)])
    <3>1. Nth(i) \in BrqSlots /\ BAge(Nth(i)) = i  BY <2>4
    <3>2. CASE i >= brq_num
      <4>1. ~ (BAge(Nth(i)) < brq_num)  BY <2>3, <3>1, <3>2
      <4>2. QED  BY <2>1, <3>1, <3>2, <4>1 DEF Branches
    <3>3. CASE ~ (i >= brq_num)
      <4>1. BAge(Nth(i)) < brq_num  BY <2>3, <3>1, <3>3
      <4>2. brq[Nth(i)] \in Ctrl(Live) /\ roq[brq[Nth(i)]].brqid = Nth(i)
        BY <2>1, <3>1, <4>1 DEF Branches
      <4>3. ASSUME NEW j \in 0 .. i - 1 PROVE Age(brq[Nth(j)]) < Age(brq[Nth(i)])
        <5>1. j \in 0 .. brq_ifq_size - 1 /\ j < i  BY <2>3
        <5>2. Nth(j) \in BrqSlots /\ BAge(Nth(j)) = j  BY <2>4, <5>1
        <5>3. RAge(brq[Nth(j)]) < RAge(brq[Nth(i)])  BY <2>1, <3>1, <4>1, <5>1, <5>2 DEF Branches
        <5>4. QED  BY <5>3 DEF Age, RAge, AgeOn
      <4>4. QED  BY <3>3, <4>2, <4>3
    <3>4. QED  BY <3>2, <3>3
  <2>6. QED  BY <2>1, <2>2, <2>5 DEF QueuesAgree, Window, Branches, Counted
<1>2. QED  BY <1>1, Invariance, PTL

-----------------------------------------------------------------------------
(***************************************************************************)
(* The invariant of the program's order, said of the sequence q of the     *)
(* instructions in flight, what decode keeps (f), the level of the next    *)
(* instruction, its address and what should retire next (a).               *)
(***************************************************************************)

\* A mispredicted branch that check_brq has not resolved yet.
Open(rs) == rs.mis_predict /\ rs.status # "completed"

\* The open branches that instruction i of q is speculative of.
Waits(q, i) == {j \in 1 .. i - 1 : Open(q[j]) /\ (IsLikely(q[j].pc) \/ j + 1 < i)}

\* What decode makes of an instruction; only a load may have to be repeated.
Made(rs) ==
  /\ rs.taken \in Outcomes(rs.pc)
  /\ rs.mis_predict => IsCtrl(rs.pc)
  /\ IsLikely(rs.pc) => (rs.mis_predict <=> ~ rs.taken)
  /\ IsCtrl(rs.pc) => rs.npc = Plus(rs.pc, 1)
  /\ rs.ex => Kind(rs.pc) = "load"

\* An open branch is followed by its delay slot, and decode knows of it until then.
Levelled(q, f, level) ==
  /\ \A i \in 1 .. Len(q) : q[i].spec_level = Cardinality(Waits(q, i)) /\ Made(q[i])
  /\ level = Cardinality(Waits(q, Len(q) + 1))
  /\ \A i \in 1 .. Len(q) - 1 : Open(q[i]) => ~ IsCtrl(q[i + 1].pc)
  /\ Len(q) > 0 /\ Open(q[Len(q)]) => f.lastIsBranch
  /\ f.entering <=> Len(q) > 0 /\ Open(q[Len(q)]) /\ ~ IsLikely(q[Len(q)].pc)

\* What follows a instruction that has retired or will retire fits an instruction.
Fits(a, rs) == rs.pc = a.pc /\ rs.npc = a.npc /\ rs.bd = a.bd

\* What follows the youngest instruction in flight.
Ahead(q, a) == IF Len(q) = 0 THEN a ELSE Follows(q[Len(q)])

JumpOr(f, pc) == IF f.jump # NoPC THEN f.jump ELSE pc

\* Instructions that depend on no open branch are on the path of the program.
Chained(q, f, level, next, a) ==
  /\ Len(q) > 0 => Fits(a, q[1])
  /\ \A i \in 1 .. Len(q) - 1 : q[i + 1].spec_level = 0 => Fits(Follows(q[i]), q[i + 1])
  /\ level = 0 =>
       /\ next = Ahead(q, a).pc /\ f.lastIsBranch = Ahead(q, a).bd
       /\ JumpOr(f, Plus(next, 1)) = Ahead(q, a).npc
       /\ f.lastIsBranch /\ ~ f.entering => f.redirect = f.jump
  /\ ~ f.lastIsBranch => f.jump = NoPC

NextPC == IF fetch_data = <<>> THEN fetch_reg_PC ELSE fetch_data[1]

\* What retires next, as a record of InOrder's variables.
Archs == [last : PCs, pc : PCs, npc : PCs, bd : BOOLEAN]

\* Nothing that is not mapped has gone further than decode.
Fresh(d) == \A i \in 1 .. Len(d) : d[i].status = "decoded"

Flows ==
  /\ arch \in Archs /\ Fresh(decode_data)
  /\ Levelled(InFlight, front, spec_level)
  /\ Chained(InFlight, front, spec_level, NextPC, arch)

FInv == IInv /\ Flows

-----------------------------------------------------------------------------
(***************************************************************************)
(* Counting the branches waited for.                                       *)
(***************************************************************************)

\* A taken branch leaves its delay slot behind.
LEMMA BranchAway ==
  ASSUME program \in Programs, NEW pc \in PCs, IsCtrl(pc)
  PROVE  Target[pc] # Plus(pc, 1)
<1>1. /\ \A x \in 0 .. program.size - 1 :
           program.text[x] \in Controls => program.target[x] # (x + 1) % program.size
      /\ Outside = program.size /\ Target = program.target
  BY ProgramAssumption DEF ProgramAssumption, Outside, Target
<1>2. pc \in 0 .. Outside - 1 /\ Outside \in Nat \ {0} /\ Kind(pc) = program.text[pc]
  <2>1. pc \in 0 .. Outside - 1 /\ Outside \in Nat \ {0}  BY TheText
  <2>2. pc # Outside  BY <2>1
  <2>3. QED  BY <2>1, <2>2, TheText
<1>3. Plus(pc, 1) = (pc + 1) % Outside  BY <1>2 DEF Plus
<1>4. QED  BY <1>1, <1>2, <1>3 DEF IsCtrl

LEMMA WaitsFinite ==
  ASSUME NEW q, NEW i \in Nat
  PROVE  /\ IsFiniteSet(Waits(q, i)) /\ Cardinality(Waits(q, i)) \in Nat
         /\ Waits(q, i) \in SUBSET (1 .. i - 1)
         /\ i = 1 => Waits(q, i) = {} /\ Cardinality(Waits(q, i)) = 0
<1>1. Waits(q, i) \in SUBSET (1 .. i - 1)  BY DEF Waits
<1>2. IsFiniteSet(1 .. i - 1)  BY FS_Interval
<1>3. IsFiniteSet(Waits(q, i))  BY <1>1, <1>2, FS_Subset
<1>4. ASSUME i = 1 PROVE Waits(q, i) = {}
  <2>1. 1 .. i - 1 = {}  BY <1>4
  <2>2. QED  BY <1>1, <2>1
<1>5. QED  BY <1>1, <1>3, <1>4, FS_CardinalityType, FS_EmptySet

LEMMA SameWaits ==
  ASSUME NEW q, NEW r, NEW i \in Nat,
         \A j \in 1 .. i - 1 : (Open(r[j]) <=> Open(q[j])) /\ r[j].pc = q[j].pc
  PROVE  Waits(r, i) = Waits(q, i)
BY DEF Waits

\* The first instruction leaves, and no one waited for it.
LEMMA ShiftWaits ==
  ASSUME NEW q, NEW r, NEW i \in Nat \ {0}, \A j \in 1 .. i - 1 : r[j] = q[j + 1], ~ Open(q[1])
  PROVE  Cardinality(Waits(r, i)) = Cardinality(Waits(q, i + 1))
<1> DEFINE A == Waits(r, i)
           B == Waits(q, i + 1)
           f == [j \in A |-> j + 1]
<1>1. ASSUME NEW j \in A PROVE j + 1 \in B
  <2>1. j \in 1 .. i - 1 /\ Open(r[j]) /\ (IsLikely(r[j].pc) \/ j + 1 < i)  BY DEF Waits
  <2>2. j + 1 \in 1 .. (i + 1) - 1 /\ (j + 1 < i => (j + 1) + 1 < i + 1)  BY <2>1
  <2>3. QED  BY <2>1, <2>2 DEF Waits
<1>2. ASSUME NEW k \in B PROVE \E j \in A : j + 1 = k
  <2>1. k \in 1 .. (i + 1) - 1 /\ Open(q[k]) /\ (IsLikely(q[k].pc) \/ k + 1 < i + 1)  BY DEF Waits
  <2>2. k # 1  BY <2>1
  <2>3. k - 1 \in 1 .. i - 1 /\ (k - 1) + 1 = k /\ (k + 1 < i + 1 => (k - 1) + 1 < i)  BY <2>1, <2>2
  <2>4. k - 1 \in A  BY <2>1, <2>3 DEF Waits
  <2>5. QED  BY <2>3, <2>4
<1>3. \A j \in A : j \in Int  BY DEF Waits
<1> HIDE DEF A, B
<1>4. f \in [A -> B] /\ \A j \in A : f[j] = j + 1  BY <1>1
<1> HIDE DEF f
<1>5. \A j, k \in A : f[j] = f[k] => j = k
  <2>1. SUFFICES ASSUME NEW j \in A, NEW k \in A, f[j] = f[k] PROVE j = k  OBVIOUS
  <2>2. j \in Int /\ k \in Int /\ j + 1 = k + 1  BY <1>3, <1>4, <2>1
  <2>3. QED  BY <2>2
<1>6. \A k \in B : \E j \in A : f[j] = k  BY <1>2, <1>4
<1>7. f \in Bijection(A, B)
  BY <1>4, <1>5, <1>6 DEF Bijection, Injection, Surjection, IsInjective
<1>8. IsFiniteSet(A)  BY WaitsFinite DEF A
<1>9. Cardinality(B) = Cardinality(A)
  BY <1>7, <1>8, FS_Bijection DEF ExistsBijection
<1>10. QED  BY <1>9 DEF A, B

-----------------------------------------------------------------------------
(***************************************************************************)
(* What the steps do to the sequence of the instructions in flight.        *)
(***************************************************************************)

\* The same instruction, at another stage.
Alike(x, y) ==
  /\ y.pc = x.pc /\ y.npc = x.npc /\ y.spec_level = x.spec_level /\ y.bd = x.bd
  /\ y.taken = x.taken /\ y.mis_predict = x.mis_predict

LEMMA AlikeIs ==
  ASSUME NEW x, NEW y, Alike(x, y)
  PROVE  /\ Follows(y) = Follows(x)
         /\ \A a : Fits(a, y) <=> Fits(a, x)
         /\ Made(x) /\ (y.ex => x.ex \/ Kind(y.pc) = "load") => Made(y)
<1>1. Follows(y) = Follows(x)  BY DEF Alike, Follows
<1>2. \A a : Fits(a, y) <=> Fits(a, x)  BY DEF Alike, Fits
<1>3. Made(x) /\ (y.ex => x.ex \/ Kind(y.pc) = "load") => Made(y)  BY DEF Alike, Made
<1>4. QED  BY <1>1, <1>2, <1>3

\* Instructions move on.
LEMMA Copied ==
  ASSUME NEW q, NEW r, Len(q) \in Nat, Len(r) = Len(q),
         \A i \in 1 .. Len(q) : /\ Alike(q[i], r[i]) /\ (Open(r[i]) <=> Open(q[i]))
                                /\ r[i].ex => q[i].ex \/ Kind(r[i].pc) = "load",
         NEW f, NEW g, g.lastIsBranch = f.lastIsBranch, g.entering = f.entering,
         g.jump = f.jump, g.redirect = f.redirect,
         NEW level, NEW next, NEW a, Levelled(q, f, level), Chained(q, f, level, next, a)
  PROVE  Levelled(r, g, level) /\ Chained(r, g, level, next, a)
<1> DEFINE L == Len(q)
<1>1. L \in Nat /\ Len(r) = L  OBVIOUS
<1> HIDE DEF L
<1>2. \A i \in 1 .. L :
        /\ r[i].pc = q[i].pc /\ r[i].spec_level = q[i].spec_level /\ (Open(r[i]) <=> Open(q[i]))
        /\ Follows(r[i]) = Follows(q[i]) /\ \A b : Fits(b, r[i]) <=> Fits(b, q[i])
        /\ Made(q[i]) => Made(r[i])
  BY AlikeIs DEF Alike, L
<1>3. ASSUME NEW i \in 1 .. L + 1 PROVE Waits(r, i) = Waits(q, i)
  <2>1. i \in Nat /\ \A j \in 1 .. i - 1 : j \in 1 .. L  BY <1>1
  <2>2. QED  BY <1>2, <2>1, SameWaits
<1>4. L + 1 \in 1 .. L + 1 /\ (\A i \in 1 .. L : i \in 1 .. L + 1) /\ (L > 0 => 1 \in 1 .. L /\ L \in 1 .. L)
      /\ (\A i \in 1 .. L - 1 : i \in 1 .. L /\ i + 1 \in 1 .. L) /\ (L = 0 \/ L > 0)
  BY <1>1
<1>5. Levelled(r, g, level)
  <2>1. \A i \in 1 .. L : r[i].spec_level = Cardinality(Waits(r, i)) /\ Made(r[i])
    BY <1>2, <1>3, <1>4 DEF Levelled, L
  <2>2. level = Cardinality(Waits(r, L + 1))  BY <1>3, <1>4 DEF Levelled, L
  <2>3. \A i \in 1 .. L - 1 : Open(r[i]) => ~ IsCtrl(r[i + 1].pc)
    BY <1>2, <1>4 DEF Levelled, L
  <2>4. L > 0 /\ Open(r[L]) => g.lastIsBranch  BY <1>2, <1>4 DEF Levelled, L
  <2>5. g.entering <=> L > 0 /\ Open(r[L]) /\ ~ IsLikely(r[L].pc)
    BY <1>2, <1>4 DEF Levelled, L
  <2>6. QED  BY <1>1, <2>1, <2>2, <2>3, <2>4, <2>5 DEF Levelled
<1>6. Chained(r, g, level, next, a)
  <2>1. L > 0 => Fits(a, r[1])  BY <1>2, <1>4 DEF Chained, L
  <2>2. \A i \in 1 .. L - 1 : r[i + 1].spec_level = 0 => Fits(Follows(r[i]), r[i + 1])
    <3>1. SUFFICES ASSUME NEW i \in 1 .. L - 1, r[i + 1].spec_level = 0
                   PROVE  Fits(Follows(r[i]), r[i + 1])
      OBVIOUS
    <3>2. q[i + 1].spec_level = 0  BY <1>2, <1>4, <3>1
    <3>3. Fits(Follows(q[i]), q[i + 1])  BY <3>2 DEF Chained, L
    <3>4. QED  BY <1>2, <1>4, <3>3
  <2>3. Ahead(r, a) = Ahead(q, a)  BY <1>1, <1>2, <1>4 DEF Ahead, L
  <2>4. \A pc : JumpOr(g, pc) = JumpOr(f, pc)  BY DEF JumpOr
  <2>5. QED  BY <1>1, <2>1, <2>2, <2>3, <2>4 DEF Chained
<1>7. QED  BY <1>5, <1>6

\* The oldest instruction leaves.
LEMMA Dropped ==
  ASSUME NEW q, NEW r, Len(q) \in Nat \ {0}, Len(r) = Len(q) - 1,
         \A i \in 1 .. Len(r) : r[i] = q[i + 1], ~ Open(q[1]),
         NEW f, NEW level, NEW next, NEW a, Levelled(q, f, level), Chained(q, f, level, next, a)
  PROVE  Levelled(r, f, level) /\ Chained(r, f, level, next, Follows(q[1]))
<1> DEFINE L == Len(r)
<1>1. L \in Nat /\ Len(q) = L + 1 /\ \A i \in 1 .. L : r[i] = q[i + 1]  OBVIOUS
<1> HIDE DEF L
<1>2. ASSUME NEW i \in 1 .. L + 1
      PROVE  Cardinality(Waits(r, i)) = Cardinality(Waits(q, i + 1)) /\ i + 1 \in 1 .. Len(q) + 1
  <2>1. i \in Nat \ {0} /\ \A j \in 1 .. i - 1 : j \in 1 .. L  BY <1>1
  <2>2. i + 1 \in 1 .. Len(q) + 1  BY <1>1
  <2>3. QED  BY <1>1, <2>1, <2>2, ShiftWaits
<1>3. /\ L + 1 \in 1 .. L + 1 /\ \A i \in 1 .. L : i \in 1 .. L + 1 /\ i + 1 \in 1 .. Len(q)
      /\ \A i \in 1 .. L - 1 : i \in 1 .. L /\ i + 1 \in 1 .. L /\ i + 1 \in 1 .. Len(q) - 1
      /\ L > 0 => L \in 1 .. L /\ 1 \in 1 .. L /\ 1 \in 1 .. Len(q) - 1
      /\ L = 0 \/ L > 0 
      /\ Len(q) > 0 /\ L + 1 + 1 = Len(q) + 1
  BY <1>1
<1>4. Levelled(r, f, level)
  <2>1. \A i \in 1 .. L : r[i].spec_level = Cardinality(Waits(r, i)) /\ Made(r[i])
    BY <1>1, <1>2, <1>3 DEF Levelled
  <2>2. level = Cardinality(Waits(r, L + 1))  BY <1>2, <1>3 DEF Levelled
  <2>3. \A i \in 1 .. L - 1 : Open(r[i]) => ~ IsCtrl(r[i + 1].pc)
    <3>1. SUFFICES ASSUME NEW i \in 1 .. L - 1, Open(r[i]) PROVE ~ IsCtrl(r[i + 1].pc)  OBVIOUS
    <3>2. r[i] = q[i + 1] /\ r[i + 1] = q[(i + 1) + 1] /\ i + 1 \in 1 .. Len(q) - 1  BY <1>1, <1>3
    <3>3. QED  BY <3>1, <3>2 DEF Levelled
  <2>4. L > 0 => r[L] = q[Len(q)]  BY <1>1, <1>3
  <2>5. L = 0 => ~ Open(q[Len(q)])  BY <1>1
  <2>6. L > 0 /\ Open(r[L]) => f.lastIsBranch  BY <1>3, <2>4 DEF Levelled
  <2>7. f.entering <=> L > 0 /\ Open(r[L]) /\ ~ IsLikely(r[L].pc)
    BY <1>3, <2>4, <2>5 DEF Levelled
  <2>8. QED  BY <2>1, <2>2, <2>3, <2>6, <2>7 DEF Levelled, L
<1>5. Chained(r, f, level, next, Follows(q[1]))
  <2>1. L > 0 => Fits(Follows(q[1]), r[1])
    <3>1. SUFFICES ASSUME L > 0 PROVE Fits(Follows(q[1]), q[1 + 1])  BY <1>1, <1>3
    <3>2. r[1].spec_level = 0
      <4>1. Cardinality(Waits(r, 1)) = 0  BY WaitsFinite
      <4>2. QED  BY <1>3, <1>4, <3>1, <4>1 DEF Levelled, L
    <3>3. 1 \in 1 .. Len(q) - 1 /\ q[1 + 1].spec_level = 0  BY <1>1, <1>3, <3>1, <3>2
    <3>4. QED  BY <3>3 DEF Chained
  <2>2. \A i \in 1 .. L - 1 : r[i + 1].spec_level = 0 => Fits(Follows(r[i]), r[i + 1])
    <3>1. SUFFICES ASSUME NEW i \in 1 .. L - 1, r[i + 1].spec_level = 0
                   PROVE  Fits(Follows(r[i]), r[i + 1])
      OBVIOUS
    <3>2. r[i] = q[i + 1] /\ r[i + 1] = q[(i + 1) + 1] /\ i + 1 \in 1 .. Len(q) - 1  BY <1>1, <1>3
    <3>3. QED  BY <3>1, <3>2 DEF Chained
  <2>3. Ahead(r, Follows(q[1])) = Ahead(q, a)
    <3>1. Ahead(q, a) = Follows(q[Len(q)])  BY <1>3 DEF Ahead
    <3>2. CASE L = 0
      <4>1. Len(q) = 1  BY <1>1, <3>2
      <4>2. QED  BY <3>1, <3>2, <4>1 DEF Ahead, L
    <3>3. CASE L > 0
      <4>1. r[L] = q[Len(q)]  BY <1>1, <1>3, <3>3
      <4>2. QED  BY <1>1, <3>1, <3>3, <4>1 DEF Ahead, L
    <3>4. QED  BY <1>3, <3>2, <3>3
  <2>4. QED  BY <2>1, <2>2, <2>3 DEF Chained, L
<1>6. QED  BY <1>4, <1>5

\* No instruction is in flight.
LEMMA Emptied ==
  ASSUME program \in Programs, NEW q, Len(q) = 0, NEW pc \in PCs,
         NEW a, a.pc = pc, a.npc = Plus(pc, 1), a.bd = FALSE
  PROVE  Levelled(q, Idle, 0) /\ Chained(q, Idle, 0, pc, a)
<1>1. 1 .. Len(q) = {} /\ 1 .. Len(q) - 1 = {} /\ Len(q) + 1 = 1 /\ ~ (Len(q) > 0)  OBVIOUS
<1>2. Cardinality(Waits(q, Len(q) + 1)) = 0  BY <1>1, WaitsFinite
<1>3. /\ Idle.lastIsBranch = FALSE /\ Idle.entering = FALSE /\ Idle.jump = NoPC
      /\ Idle.redirect = NoPC
  BY DEF Idle
<1>4. Levelled(q, Idle, 0)  BY <1>1, <1>2, <1>3 DEF Levelled
<1>5. Ahead(q, a) = a /\ JumpOr(Idle, Plus(pc, 1)) = Plus(pc, 1)  BY <1>3 DEF Ahead, JumpOr
<1>6. Chained(q, Idle, 0, pc, a)  BY <1>1, <1>3, <1>5 DEF Chained
<1>7. QED  BY <1>4, <1>6

\* Open branch p of q is resolved; r keeps k instructions, its delay slot with it.
Cuts(q, r, p, k) ==
  /\ Len(q) \in Nat /\ p \in 1 .. Len(q) /\ q[p].pc \in PCs /\ Open(q[p])
  /\ k \in 1 .. Len(q) /\ k = (IF IsLikely(q[p].pc) THEN p ELSE p + 1) /\ Len(r) = k
  /\ \A i \in 1 .. k : /\ Alike(q[i], r[i]) /\ (r[i].ex => q[i].ex)
                       /\ Open(r[i]) <=> Open(q[i]) /\ i # p

\* The instructions of the wrong path go.
LEMMA Cut ==
  ASSUME program \in Programs, NEW q, NEW r, NEW p, NEW k, Cuts(q, r, p, k),
         NEW f, NEW level, NEW next, NEW a, Levelled(q, f, level), Chained(q, f, level, next, a)
  PROVE  /\ Levelled(r, Idle, q[p].spec_level)
         /\ Chained(r, Idle, q[p].spec_level, AfterBranch(q[p].pc, q[p].taken), a)
<1> USE DEF Cuts
<1> DEFINE L == Len(q)
<1>1. L \in Nat /\ p \in 1 .. L /\ k \in 1 .. L /\ k \in p .. p + 1 /\ p \in 1 .. k  OBVIOUS
<1> HIDE DEF L
<1>2. \A i \in 1 .. k :
        /\ r[i].pc = q[i].pc /\ r[i].spec_level = q[i].spec_level /\ (Open(r[i]) <=> Open(q[i]) /\ i # p)
        /\ Follows(r[i]) = Follows(q[i]) /\ \A b : Fits(b, r[i]) <=> Fits(b, q[i])
        /\ Made(q[i]) => Made(r[i])
  BY AlikeIs DEF Alike
<1>3. /\ \A i \in 1 .. L : Made(q[i]) /\ q[i].spec_level = Cardinality(Waits(q, i))
      /\ \A i \in 1 .. L - 1 : Open(q[i]) => ~ IsCtrl(q[i + 1].pc)
  BY DEF Levelled, L
<1>4. IsCtrl(q[p].pc) /\ q[p].mis_predict  BY <1>1, <1>3 DEF Made, Open
<1>5. \A j \in 1 .. p - 1 : Open(q[j]) => j + 1 < p
  <2>1. SUFFICES ASSUME NEW j \in 1 .. p - 1, Open(q[j]), ~ (j + 1 < p) PROVE FALSE  OBVIOUS
  <2>2. j \in 1 .. L - 1 /\ j + 1 = p  BY <1>1, <2>1
  <2>3. ~ IsCtrl(q[p].pc)  BY <1>3, <2>1, <2>2
  <2>4. QED  BY <1>4, <2>3
<1>6. k = p + 1 => ~ IsCtrl(q[p + 1].pc) /\ ~ Open(q[p + 1])
  <2>1. SUFFICES ASSUME k = p + 1 PROVE ~ IsCtrl(q[p + 1].pc) /\ ~ Open(q[p + 1])  OBVIOUS
  <2>2. p \in 1 .. L - 1 /\ p + 1 \in 1 .. L  BY <1>1, <2>1
  <2>3. ~ IsCtrl(q[p + 1].pc)  BY <1>3, <2>2
  <2>4. QED  BY <1>3, <2>2, <2>3 DEF Made, Open
<1>7. ASSUME NEW i \in 1 .. k PROVE Waits(r, i) = Waits(q, i)
  <2>1. ASSUME NEW j \in 1 .. i - 1 PROVE j \in 1 .. k /\ (j = p => ~ IsLikely(q[p].pc) /\ j + 1 = i)
    <3>1. j \in 1 .. k /\ (j = p => k = p + 1 /\ j + 1 = i)  BY <1>1
    <3>2. k = p + 1 => ~ IsLikely(q[p].pc)  BY <1>1
    <3>3. QED  BY <3>1, <3>2
  <2>2. ASSUME NEW j \in 1 .. i - 1
        PROVE  /\ Open(r[j]) /\ (IsLikely(r[j].pc) \/ j + 1 < i)
                    <=> Open(q[j]) /\ (IsLikely(q[j].pc) \/ j + 1 < i)
    <3>1. j = p => ~ (IsLikely(q[j].pc) \/ j + 1 < i)  BY <1>1, <2>1
    <3>2. r[j].pc = q[j].pc /\ (Open(r[j]) <=> Open(q[j]) /\ j # p)  BY <1>2, <2>1
    <3>3. QED  BY <3>1, <3>2
  <2>3. QED  BY <2>2 DEF Waits
<1>8. Waits(r, k + 1) = Waits(q, p)
  <2>1. ASSUME NEW j \in Waits(r, k + 1) PROVE j \in Waits(q, p)
    <3>1. j \in 1 .. k /\ Open(r[j])  BY <1>1 DEF Waits
    <3>2. Open(q[j]) /\ j # p  BY <1>2, <3>1
    <3>3. j # p + 1
      <4>1. SUFFICES ASSUME j = p + 1 PROVE FALSE  OBVIOUS
      <4>2. k = p + 1  BY <1>1, <3>1, <4>1
      <4>3. QED  BY <1>6, <3>2, <4>1, <4>2
    <3>4. j \in 1 .. p - 1  BY <1>1, <3>1, <3>2, <3>3
    <3>5. QED  BY <1>5, <3>2, <3>4 DEF Waits
  <2>2. ASSUME NEW j \in Waits(q, p) PROVE j \in Waits(r, k + 1)
    <3>1. j \in 1 .. p - 1 /\ Open(q[j])  BY DEF Waits
    <3>2. j \in 1 .. k /\ j \in 1 .. (k + 1) - 1 /\ j # p /\ (j + 1 < p => j + 1 < k + 1)  BY <1>1, <3>1
    <3>3. j + 1 < p  BY <1>5, <3>1
    <3>4. QED  BY <1>2, <3>1, <3>2, <3>3 DEF Waits
  <2>3. QED  BY <2>1, <2>2
<1>9. ~ Open(r[k])
  <2>1. CASE k = p  BY <1>1, <1>2, <2>1
  <2>2. CASE k = p + 1  BY <1>1, <1>2, <1>6, <2>2
  <2>3. QED  BY <1>1, <2>1, <2>2
<1>10. /\ Idle.lastIsBranch = FALSE /\ Idle.entering = FALSE /\ Idle.jump = NoPC
       /\ Idle.redirect = NoPC
  BY DEF Idle
<1>11. /\ \A i \in 1 .. k - 1 : i \in 1 .. k /\ i + 1 \in 1 .. k /\ i \in 1 .. L - 1
       /\ 1 \in 1 .. k /\ k \in 1 .. k /\ k > 0 /\ L > 0 /\ \A i \in 1 .. k : i \in 1 .. L
  BY <1>1
<1>12. Levelled(r, Idle, q[p].spec_level)
  <2>1. \A i \in 1 .. k : r[i].spec_level = Cardinality(Waits(r, i)) /\ Made(r[i])
    BY <1>2, <1>3, <1>7, <1>11
  <2>2. q[p].spec_level = Cardinality(Waits(r, k + 1))  BY <1>1, <1>3, <1>8
  <2>3. \A i \in 1 .. k - 1 : Open(r[i]) => ~ IsCtrl(r[i + 1].pc)  BY <1>2, <1>3, <1>11
  <2>4. QED  BY <1>9, <1>10, <2>1, <2>2, <2>3 DEF Levelled
<1> DEFINE pc == q[p].pc
           taken == q[p].taken
<1>13. ASSUME q[p].spec_level = 0
       PROVE  /\ Follows(r[k]).pc = AfterBranch(pc, taken) /\ Follows(r[k]).bd = FALSE
              /\ Follows(r[k]).npc = Plus(AfterBranch(pc, taken), 1)
  <2>1. Follows(r[k]) = Follows(q[k])  BY <1>2, <1>11
  <2>2. CASE IsLikely(pc)
    <3>1. k = p /\ ~ taken  BY <1>1, <1>3, <1>4, <2>2 DEF Made
    <3>2. /\ Follows(q[p]).pc = Plus(pc, 2) /\ Follows(q[p]).npc = Plus(pc, 3)
          /\ Follows(q[p]).bd = FALSE
      BY <1>4, <2>2, <3>1 DEF Follows
    <3>3. Plus(pc, 2 + 1) = Plus(Plus(pc, 2), 1)  BY Steps
    <3>4. AfterBranch(pc, taken) = Plus(pc, 2)  BY <3>1 DEF AfterBranch
    <3>5. QED  BY <2>1, <3>1, <3>2, <3>3, <3>4
  <2>3. CASE ~ IsLikely(pc)
    <3>1. k = p + 1 /\ p \in 1 .. L - 1 /\ p + 1 \in 1 .. L  BY <1>1, <2>3
    <3>2. q[p + 1].spec_level = 0
      <4>1. ASSUME NEW j \in 1 .. p
            PROVE  Open(q[j]) /\ (IsLikely(q[j].pc) \/ j + 1 < p + 1)
                     <=> j \in 1 .. p - 1 /\ Open(q[j]) /\ (IsLikely(q[j].pc) \/ j + 1 < p)
        <5>1. CASE j = p
          <6>1. ~ (j + 1 < p + 1) /\ ~ (j \in 1 .. p - 1)  BY <1>1, <5>1
          <6>2. QED  BY <2>3, <5>1, <6>1
        <5>2. CASE j # p
          <6>1. j \in 1 .. p - 1 /\ j + 1 < p + 1  BY <1>1, <5>2
          <6>2. QED  BY <1>5, <6>1
        <5>3. QED  BY <5>1, <5>2
      <4>2. (p + 1) - 1 = p /\ \A j \in 1 .. p - 1 : j \in 1 .. p  BY <1>1
      <4>3. Waits(q, p + 1) = Waits(q, p)  BY <4>1, <4>2 DEF Waits
      <4>4. QED  BY <1>1, <1>3, <1>13, <3>1, <4>3
    <3>3. Fits(Follows(q[p]), q[p + 1])  BY <3>1, <3>2 DEF Chained, L
    <3>4. q[p + 1].npc = AfterBranch(pc, taken)
      BY <1>4, <2>3, <3>3 DEF Follows, Fits
    <3>5. ~ IsCtrl(q[p + 1].pc)  BY <1>6, <3>1
    <3>6. /\ Follows(q[p + 1]).pc = q[p + 1].npc /\ Follows(q[p + 1]).bd = FALSE
          /\ Follows(q[p + 1]).npc = Plus(q[p + 1].npc, 1)
      BY <3>5 DEF Follows
    <3>7. QED  BY <2>1, <3>1, <3>4, <3>6
  <2>4. QED  BY <2>2, <2>3
<1>14. Chained(r, Idle, q[p].spec_level, AfterBranch(pc, taken), a)
  <2>1. Fits(a, r[1])  BY <1>2, <1>11 DEF Chained, L
  <2>2. \A i \in 1 .. k - 1 : r[i + 1].spec_level = 0 => Fits(Follows(r[i]), r[i + 1])
    <3>1. SUFFICES ASSUME NEW i \in 1 .. k - 1, r[i + 1].spec_level = 0
                   PROVE  Fits(Follows(r[i]), r[i + 1])
      OBVIOUS
    <3>2. q[i + 1].spec_level = 0  BY <1>2, <1>11, <3>1
    <3>3. Fits(Follows(q[i]), q[i + 1])  BY <1>11, <3>2 DEF Chained, L
    <3>4. QED  BY <1>2, <1>11, <3>3
  <2>3. Ahead(r, a) = Follows(r[k])  BY <1>11 DEF Ahead
  <2>4. \A x : JumpOr(Idle, x) = x  BY <1>10 DEF JumpOr
  <2> HIDE DEF pc, taken
  <2>5. QED  BY <1>10, <1>13, <2>1, <2>2, <2>3, <2>4 DEF Chained
<1>15. QED  BY <1>12, <1>14

\* Where decode has left off.
Leaves(f, level, next, rs, g, level2, next2) ==
  /\ rs.npc = JumpOr(f, Plus(rs.pc, 1)) /\ rs.spec_level = level /\ rs.bd = f.lastIsBranch
  /\ rs.pc = next /\ rs.status = "decoded" /\ rs.ex = FALSE
  /\ level2 = IF f.entering \/ (rs.mis_predict /\ IsLikely(rs.pc)) THEN level + 1 ELSE level
  /\ next2 = IF f.redirect # NoPC THEN f.redirect ELSE Plus(rs.pc, 1)
  /\ g.lastIsBranch = IsCtrl(rs.pc)
  /\ g.jump = IF rs.taken THEN Target[rs.pc] ELSE NoPC
  /\ g.entering = (~ (f.entering \/ (rs.mis_predict /\ IsLikely(rs.pc))) /\ rs.mis_predict)

\* A branch is mispredicted when fetch does not go where it goes.
Predicted(f, rs, g) ==
  \E pred \in Predictions(rs.pc) :
    /\ rs.mis_predict =
         (IsCtrl(rs.pc) /\ pred # (IF rs.taken THEN Target[rs.pc] ELSE Plus(rs.pc, 1)))
    /\ g.redirect = IF ~ (f.redirect # NoPC) /\ IsCtrl(rs.pc) /\ PredTaken(rs.pc, pred)
                    THEN pred ELSE NoPC

\* What an instruction is that decode makes, and what it leaves for the next one.
LEMMA MadeOf ==
  ASSUME program \in Programs, NEW rs, rs.pc \in PCs, rs.taken \in Outcomes(rs.pc),
         NEW f, NEW g, NEW level, NEW level2, NEW next, NEW next2,
         f.redirect # NoPC => f.lastIsBranch, f.lastIsBranch => ~ IsCtrl(rs.pc),
         ~ f.lastIsBranch => f.jump = NoPC,
         Leaves(f, level, next, rs, g, level2, next2), Predicted(f, rs, g)
  PROVE  /\ Made(rs) /\ (Open(rs) <=> rs.mis_predict)
         /\ rs.mis_predict => IsCtrl(rs.pc)
         /\ ~ g.lastIsBranch => g.jump = NoPC
         /\ IsCtrl(rs.pc) /\ ~ rs.mis_predict => g.redirect = g.jump
<1> DEFINE pc == rs.pc
           taken == rs.taken
           goes == IF taken THEN Target[pc] ELSE Plus(pc, 1)
<1>1. PICK pred \in Predictions(pc) :
        /\ rs.mis_predict = (IsCtrl(pc) /\ pred # goes)
        /\ g.redirect = IF ~ (f.redirect # NoPC) /\ IsCtrl(pc) /\ PredTaken(pc, pred)
                        THEN pred ELSE NoPC
  BY DEF Predicted
<1>2. IsCtrl(pc) => Target[pc] # Plus(pc, 1)  BY BranchAway
<1>3. taken \in BOOLEAN /\ (~ IsCtrl(pc) => ~ taken)
  BY DEF Outcomes, IsCtrl, Controls
<1>4. IsLikely(pc) => IsCtrl(pc) /\ pred = Target[pc] /\ PredTaken(pc, pred)
  BY <1>1 DEF IsLikely, IsCtrl, Controls, Predictions, PredTaken
<1>5. rs.mis_predict => IsCtrl(pc)  BY <1>1
<1>6. IsLikely(pc) => (rs.mis_predict <=> ~ taken)  BY <1>1, <1>2, <1>3, <1>4
<1>7. IsCtrl(pc) => rs.npc = Plus(pc, 1)  BY DEF Leaves, JumpOr
<1>8. Made(rs)  BY <1>5, <1>6, <1>7 DEF Made, Leaves
<1>9. Open(rs) <=> rs.mis_predict  BY DEF Open, Leaves
<1>10. ~ g.lastIsBranch => g.jump = NoPC  BY <1>3 DEF Leaves
<1>11. ASSUME IsCtrl(pc), ~ rs.mis_predict PROVE g.redirect = g.jump
  <2>1. pred = goes /\ f.redirect = NoPC  BY <1>1, <1>11
  <2>2. CASE taken
    <3>1. pred = Target[pc] /\ pred # Plus(pc, 1)  BY <1>2, <1>11, <2>1, <2>2
    <3>2. PredTaken(pc, pred)  BY <1>11, <3>1 DEF PredTaken
    <3>3. QED  BY <1>1, <1>11, <2>1, <2>2, <3>1, <3>2 DEF Leaves
  <2>3. CASE ~ taken
    <3>1. pred = Plus(pc, 1)  BY <2>1, <2>3
    <3>2. Kind(pc) \notin {"likely", "jump_reg"}
      <4>1. Kind(pc) # "jump_reg"  BY <2>3 DEF Outcomes
      <4>2. Kind(pc) # "likely"  BY <1>6, <1>11, <2>3 DEF IsLikely
      <4>3. QED  BY <4>1, <4>2
    <3>3. ~ PredTaken(pc, pred)  BY <3>1, <3>2 DEF PredTaken
    <3>4. QED  BY <1>1, <2>3, <3>3 DEF Leaves
  <2>4. QED  BY <2>2, <2>3
<1>12. QED  BY <1>5, <1>8, <1>9, <1>10, <1>11

\* The branches that the next instruction waits for.
LEMMA OneMoreWait ==
  ASSUME NEW q, NEW r, Len(q) \in Nat, \A i \in 1 .. Len(q) : r[i] = q[i],
         NEW rs, r[Len(q) + 1] = rs, NEW deeper \in BOOLEAN,
         NEW entering \in BOOLEAN, deeper <=> entering \/ (Open(rs) /\ IsLikely(rs.pc)),
         entering <=> Len(q) > 0 /\ Open(q[Len(q)]) /\ ~ IsLikely(q[Len(q)].pc),
         ~ (entering /\ Open(rs))
  PROVE  /\ \A i \in 1 .. Len(q) + 1 : Waits(r, i) = Waits(q, i)
         /\ Cardinality(Waits(r, Len(q) + 2)) =
              Cardinality(Waits(q, Len(q) + 1)) + IF deeper THEN 1 ELSE 0
<1> DEFINE L == Len(q)
           x == IF entering THEN L ELSE L + 1
           S == Waits(q, L + 1)
           T == Waits(r, L + 2)
<1>1. L \in Nat /\ L + 1 \in Nat  OBVIOUS
<1>2. ASSUME NEW i \in 1 .. L + 1 PROVE Waits(r, i) = Waits(q, i)
  <2>1. i \in Nat /\ \A j \in 1 .. i - 1 : j \in 1 .. L  BY <1>1
  <2>2. QED  BY <2>1, SameWaits
<1> HIDE DEF L
<1>3. ASSUME NEW j \in 1 .. L + 1
      PROVE  j \in T <=> j \in S \/ (deeper /\ j = x)
  <2>1. j \in T <=> Open(r[j]) /\ (IsLikely(r[j].pc) \/ j + 1 < L + 2)
    <3>1. (L + 2) - 1 = L + 1  BY <1>1
    <3>2. QED  BY <3>1 DEF Waits
  <2>2. j \in S <=> j \in 1 .. L /\ Open(q[j]) /\ (IsLikely(q[j].pc) \/ j + 1 < L + 1)
    <3>1. (L + 1) - 1 = L  BY <1>1
    <3>2. QED  BY <3>1 DEF Waits
  <2>3. CASE j = L + 1
    <3>1. r[j] = rs /\ ~ (j + 1 < L + 2) /\ ~ (j \in 1 .. L) /\ j # L  BY <1>1, <2>3 DEF L
    <3>2. QED  BY <2>1, <2>2, <2>3, <3>1
  <2>4. CASE j = L
    <3>1. r[j] = q[j] /\ j + 1 < L + 2 /\ ~ (j + 1 < L + 1) /\ j \in 1 .. L /\ L > 0 /\ j # L + 1
      BY <1>1, <2>4 DEF L
    <3>2. entering <=> Open(q[j]) /\ ~ IsLikely(q[j].pc)  BY <2>4, <3>1 DEF L
    <3>3. QED  BY <2>1, <2>2, <2>4, <3>1, <3>2
  <2>5. CASE j # L /\ j # L + 1
    <3>1. r[j] = q[j] /\ j + 1 < L + 2 /\ j + 1 < L + 1 /\ j \in 1 .. L  BY <1>1, <2>5 DEF L
    <3>2. QED  BY <2>1, <2>2, <2>5, <3>1
  <2>6. QED  BY <2>3, <2>4, <2>5
<1>4. /\ T \in SUBSET (1 .. (L + 2) - 1) /\ S \in SUBSET (1 .. (L + 1) - 1) /\ IsFiniteSet(S)
      /\ (L + 2) - 1 = L + 1 /\ (L + 1) - 1 = L /\ \A j \in 1 .. L : j \in 1 .. L + 1
  <2>1. L + 2 \in Nat  BY <1>1
  <2>2. QED  BY <1>1, <2>1, WaitsFinite
<1>5. deeper => x \in 1 .. L + 1 /\ x \notin S
  <2>1. CASE entering
    <3>1. L > 0 /\ x = L /\ ~ IsLikely(q[L].pc)  BY <2>1 DEF L
    <3>2. x \in 1 .. L + 1 /\ ~ (L + 1 < L + 1)  BY <1>1, <3>1
    <3>3. QED  BY <3>1, <3>2 DEF Waits
  <2>2. CASE ~ entering
    <3>1. x = L + 1 /\ x \in 1 .. L + 1 /\ x \notin 1 .. L  BY <1>1, <2>2
    <3>2. QED  BY <1>4, <3>1
  <2>3. QED  BY <2>1, <2>2
<1> HIDE DEF S, T, x
<1>6. T = IF deeper THEN S \cup {x} ELSE S  BY <1>3, <1>4, <1>5
<1>7. Cardinality(T) = Cardinality(S) + IF deeper THEN 1 ELSE 0  BY <1>4, <1>5, <1>6, OneMore
<1>8. QED  BY <1>2, <1>7 DEF S, T, L

Extends(q, r, rs) ==
  /\ Len(q) \in Nat /\ Len(r) = Len(q) + 1
  /\ \A i \in 1 .. Len(q) : r[i] = q[i]
  /\ r[Len(q) + 1] = rs

\* Decode takes the instructions one by one, and the delay slots with their branches.
InTurn(f, rs) ==
  /\ rs.pc \in PCs /\ rs.taken \in Outcomes(rs.pc) /\ rs.mis_predict \in BOOLEAN
  /\ f.entering \in BOOLEAN
  /\ f.redirect # NoPC => f.lastIsBranch
  /\ f.lastIsBranch => ~ IsCtrl(rs.pc)

\* Decode adds an instruction.
LEMMA Appended ==
  ASSUME program \in Programs, NEW q, NEW r, NEW rs, NEW f, Extends(q, r, rs), InTurn(f, rs),
         NEW g, NEW level, NEW level2, NEW next, NEW next2, NEW a,
         Leaves(f, level, next, rs, g, level2, next2), Predicted(f, rs, g),
         Levelled(q, f, level), Chained(q, f, level, next, a)
  PROVE  Levelled(r, g, level2) /\ Chained(r, g, level2, next2, a)
<1> USE DEF Extends, InTurn
<1> DEFINE L == Len(q)
           deeper == f.entering \/ (rs.mis_predict /\ IsLikely(rs.pc))
<1>1. /\ L \in Nat /\ Len(r) = L + 1 /\ L + 1 \in 1 .. L + 1 /\ L + 1 > 0
      /\ L > 0 => 1 \in 1 .. L /\ L \in 1 .. L /\ 1 \in 1 .. L + 1
      /\ L = 0 \/ L > 0
      /\ \A i \in 1 .. L + 1 : i \in 1 .. L \/ i = L + 1
      /\ (L + 1) - 1 = L /\ (L + 1) + 1 = L + 2
      /\ \A i \in 1 .. L : (i \in 1 .. L - 1 /\ i + 1 \in 1 .. L) \/ i = L
      /\ L = 0 => L + 1 = 1
  OBVIOUS
<1>2. ~ f.lastIsBranch => f.jump = NoPC  BY DEF Chained
<1>3. /\ Made(rs) /\ (Open(rs) <=> rs.mis_predict)
      /\ rs.mis_predict => IsCtrl(rs.pc)
      /\ ~ g.lastIsBranch => g.jump = NoPC
      /\ IsCtrl(rs.pc) /\ ~ rs.mis_predict => g.redirect = g.jump
  BY <1>2, MadeOf
<1>4. /\ L > 0 /\ Open(q[L]) => f.lastIsBranch
      /\ f.entering <=> L > 0 /\ Open(q[L]) /\ ~ IsLikely(q[L].pc)
      /\ level = Cardinality(Waits(q, L + 1))
      /\ \A i \in 1 .. L : q[i].spec_level = Cardinality(Waits(q, i)) /\ Made(q[i])
      /\ \A i \in 1 .. L - 1 : Open(q[i]) => ~ IsCtrl(q[i + 1].pc)
  BY DEF Levelled
<1>5. ~ (f.entering /\ Open(rs))  BY <1>3, <1>4
<1>6. deeper \in BOOLEAN /\ (deeper <=> f.entering \/ (Open(rs) /\ IsLikely(rs.pc)))
  BY <1>3
<1>7. /\ \A i \in 1 .. L + 1 : Waits(r, i) = Waits(q, i)
      /\ Cardinality(Waits(r, L + 2)) = Cardinality(Waits(q, L + 1)) + IF deeper THEN 1 ELSE 0
  <2> HIDE DEF deeper
  <2>1. QED  BY <1>4, <1>5, <1>6, OneMoreWait
<1>8. level \in Nat
  <2>1. L \in Nat  BY <1>1
  <2> HIDE DEF L
  <2>2. L + 1 \in Nat  BY <2>1
  <2>3. Cardinality(Waits(q, L + 1)) \in Nat  BY <2>2, WaitsFinite
  <2>4. QED  BY <1>4, <2>3
<1>9. /\ level2 = IF deeper THEN level + 1 ELSE level
      /\ rs.npc = JumpOr(f, Plus(rs.pc, 1)) /\ rs.spec_level = level /\ rs.bd = f.lastIsBranch
      /\ rs.pc = next
      /\ next2 = IF f.redirect # NoPC THEN f.redirect ELSE Plus(rs.pc, 1)
      /\ g.lastIsBranch = IsCtrl(rs.pc)
      /\ g.jump = IF rs.taken THEN Target[rs.pc] ELSE NoPC
      /\ g.entering = (~ deeper /\ rs.mis_predict)
  BY DEF Leaves
<1> HIDE DEF L, deeper
<1>10. /\ \A i \in 1 .. L : r[i] = q[i]
       /\ r[L + 1] = rs /\ Len(r) = L + 1
  BY DEF L
<1>11. Levelled(r, g, level2)
  <2>1. \A i \in 1 .. L + 1 : r[i].spec_level = Cardinality(Waits(r, i)) /\ Made(r[i])
    BY <1>1, <1>3, <1>4, <1>7, <1>9, <1>10
  <2>2. level2 = Cardinality(Waits(r, (L + 1) + 1))
    BY <1>1, <1>4, <1>7, <1>8, <1>9
  <2>3. \A i \in 1 .. L : Open(r[i]) => ~ IsCtrl(r[i + 1].pc)
    <3>1. SUFFICES ASSUME NEW i \in 1 .. L, Open(r[i]) PROVE ~ IsCtrl(r[i + 1].pc)  OBVIOUS
    <3>2. CASE i = L
      <4>1. L > 0 /\ r[L + 1] = rs /\ Open(q[L])  BY <1>1, <1>10, <3>1, <3>2
      <4>2. QED  BY <1>4, <3>2, <4>1
    <3>3. CASE i # L
      <4>1. i \in 1 .. L - 1 /\ i + 1 \in 1 .. L  BY <1>1, <3>3
      <4>2. QED  BY <1>4, <1>10, <3>1, <4>1
    <3>4. QED  BY <3>2, <3>3
  <2>4. Open(r[L + 1]) => g.lastIsBranch  BY <1>3, <1>9, <1>10
  <2>5. g.entering <=> Open(r[L + 1]) /\ ~ IsLikely(r[L + 1].pc)
    BY <1>3, <1>5, <1>6, <1>9, <1>10
  <2>6. QED  BY <1>1, <1>10, <2>1, <2>2, <2>3, <2>4, <2>5 DEF Levelled
<1>12. level = 0 => Fits(Ahead(q, a), rs)
  <2>1. SUFFICES ASSUME level = 0 PROVE Fits(Ahead(q, a), rs)  OBVIOUS
  <2>2. /\ next = Ahead(q, a).pc /\ f.lastIsBranch = Ahead(q, a).bd
        /\ JumpOr(f, Plus(next, 1)) = Ahead(q, a).npc
    BY <2>1 DEF Chained
  <2>3. QED  BY <1>9, <2>2 DEF Fits
<1>13. Ahead(r, a) = Follows(rs)  BY <1>1, <1>10 DEF Ahead
<1>14. ASSUME level2 = 0
       PROVE  /\ next2 = Follows(rs).pc /\ g.lastIsBranch = Follows(rs).bd
              /\ JumpOr(g, Plus(next2, 1)) = Follows(rs).npc
              /\ g.lastIsBranch /\ ~ g.entering => g.redirect = g.jump
  <2>1. ~ deeper /\ level = 0  BY <1>8, <1>9, <1>14
  <2>2. f.lastIsBranch => f.redirect = f.jump
    <3>1. ~ f.entering  BY <2>1 DEF deeper
    <3>2. QED  BY <2>1, <3>1 DEF Chained
  <2>3. Target[rs.pc] # NoPC \/ ~ IsCtrl(rs.pc)
    <3>1. IsCtrl(rs.pc) => Target[rs.pc] \in 0 .. Outside - 1 /\ Outside \in Nat  BY TheText
    <3>2. QED  BY <3>1 DEF NoPC
  <2>4. g.lastIsBranch /\ ~ g.entering => g.redirect = g.jump  BY <1>3, <1>9, <2>1
  <2>5. CASE IsCtrl(rs.pc)
    <3>1. next2 = Plus(rs.pc, 1)  BY <1>9, <2>5
    <3>2. ~ (IsLikely(rs.pc) /\ ~ rs.taken)
      BY <1>3, <2>1 DEF Made, deeper
    <3>3. /\ Follows(rs).pc = Plus(rs.pc, 1) /\ Follows(rs).bd = TRUE
          /\ Follows(rs).npc = AfterBranch(rs.pc, rs.taken)
      BY <2>5, <3>2 DEF Follows
    <3>4. Plus(rs.pc, 1 + 1) = Plus(Plus(rs.pc, 1), 1)  BY Steps
    <3>5. JumpOr(g, Plus(next2, 1)) = AfterBranch(rs.pc, rs.taken)
      BY <1>9, <2>3, <2>5, <3>1, <3>4 DEF JumpOr, AfterBranch
    <3>6. QED  BY <1>9, <2>4, <2>5, <3>1, <3>3, <3>5
  <2>6. CASE ~ IsCtrl(rs.pc)
    <3>1. /\ Follows(rs).pc = rs.npc /\ Follows(rs).bd = FALSE
          /\ Follows(rs).npc = Plus(rs.npc, 1)
      BY <2>6 DEF Follows
    <3>2. next2 = rs.npc  BY <1>2, <1>9, <2>2 DEF JumpOr
    <3>3. g.jump = NoPC  BY <1>3, <1>9, <2>6
    <3>4. JumpOr(g, Plus(next2, 1)) = Plus(next2, 1)  BY <3>3 DEF JumpOr
    <3>5. g.lastIsBranch = FALSE
      <4>1. IsCtrl(rs.pc) = FALSE  BY <2>6 DEF IsCtrl
      <4>2. g.lastIsBranch = IsCtrl(rs.pc)  BY <1>9
      <4>3. QED  BY <4>1, <4>2
    <3>6. QED  BY <2>4, <3>1, <3>2, <3>4, <3>5
  <2>7. QED  BY <2>5, <2>6
<1>15. Chained(r, g, level2, next2, a)
  <2>1. Fits(a, r[1])
    <3>1. CASE L = 0
      <4>1. level = 0
        <5>1. Cardinality(Waits(q, 1)) = 0  BY WaitsFinite
        <5>2. QED  BY <1>1, <1>4, <3>1, <5>1
      <4>2. Ahead(q, a) = a  BY <3>1 DEF Ahead, L
      <4>3. QED  BY <1>1, <1>10, <1>12, <3>1, <4>1, <4>2
    <3>2. CASE L > 0  BY <1>1, <1>10, <3>2 DEF Chained, L
    <3>3. QED  BY <1>1, <3>1, <3>2
  <2>2. \A i \in 1 .. L : r[i + 1].spec_level = 0 => Fits(Follows(r[i]), r[i + 1])
    <3>1. SUFFICES ASSUME NEW i \in 1 .. L, r[i + 1].spec_level = 0
                   PROVE  Fits(Follows(r[i]), r[i + 1])
      OBVIOUS
    <3>2. CASE i = L
      <4>1. L > 0 /\ r[i] = q[L] /\ r[i + 1] = rs  BY <1>1, <1>10, <3>2
      <4>2. Ahead(q, a) = Follows(q[L])
        <5>1. L # 0  BY <1>1, <4>1
        <5>2. QED  BY <5>1 DEF Ahead, L
      <4>3. QED  BY <1>9, <1>12, <3>1, <4>1, <4>2
    <3>3. CASE i # L
      <4>1. i \in 1 .. L - 1 /\ i + 1 \in 1 .. L  BY <1>1, <3>3
      <4>2. r[i] = q[i] /\ r[i + 1] = q[i + 1]  BY <1>10, <4>1
      <4>3. QED  BY <3>1, <4>1, <4>2 DEF Chained, L
    <3>4. QED  BY <3>2, <3>3
  <2>3. QED  BY <1>1, <1>3, <1>10, <1>13, <1>14, <2>1, <2>2 DEF Chained
<1>16. QED  BY <1>11, <1>15

-----------------------------------------------------------------------------
(***************************************************************************)
(* The sequence of the instructions in flight, from the queues.            *)
(***************************************************************************)

At(N, h, i) == (h + i - 1) % N
FlightOf(N, h, m, r, d) == [i \in 1 .. m |-> r[At(N, h, i)]] \o d

\* Sequence q lists the m slots from h on, then d.
Lists(q, N, h, m, r, d) ==
  /\ Len(q) = m + Len(d) /\ Len(d) \in Nat
  /\ \A i \in 1 .. m : q[i] = r[At(N, h, i)]
  /\ \A i \in 1 .. Len(d) : q[m + i] = d[i]

LEMMA Positions ==
  ASSUME NEW N \in Nat \ {0}, NEW h \in 0 .. N - 1, NEW m \in 0 .. N
  PROVE  /\ \A i \in 1 .. m : At(N, h, i) \in 0 .. N - 1 /\ AgeOn(N, h, At(N, h, i)) = i - 1
         /\ \A s \in 0 .. N - 1 :
              AgeOn(N, h, s) < m => AgeOn(N, h, s) + 1 \in 1 .. m /\ At(N, h, AgeOn(N, h, s) + 1) = s
<1>1. N \in Nat /\ N >= 1 /\ h \in Nat /\ m \in 0 .. N  OBVIOUS
<1>2. ASSUME NEW i \in 1 .. m
      PROVE  At(N, h, i) \in 0 .. N - 1 /\ AgeOn(N, h, At(N, h, i)) = i - 1
  <2>1. i - 1 \in 0 .. N - 1 /\ h + i - 1 = h + (i - 1)  BY <1>1
  <2>2. QED  BY <2>1, SlotOfAge DEF At
<1>3. ASSUME NEW s \in 0 .. N - 1, AgeOn(N, h, s) < m
      PROVE  AgeOn(N, h, s) + 1 \in 1 .. m /\ At(N, h, AgeOn(N, h, s) + 1) = s
  <2> DEFINE i == AgeOn(N, h, s) + 1
  <2>1. AgeOn(N, h, s) \in 0 .. N - 1  BY AgeValue
  <2>2. i \in 1 .. m /\ i - 1 = AgeOn(N, h, s)  BY <1>1, <1>3, <2>1
  <2>3. At(N, h, i) \in 0 .. N - 1 /\ AgeOn(N, h, At(N, h, i)) = AgeOn(N, h, s)
    BY <1>2, <2>2
  <2>4. At(N, h, i) = s  BY <2>3, AgeUnique
  <2>5. QED  BY <2>2, <2>4
<1>4. QED  BY <1>2, <1>3

LEMMA FlightSeq ==
  ASSUME NEW N \in Nat \ {0}, NEW h \in 0 .. N - 1, NEW m \in 0 .. N, NEW S, NEW x, x \notin S,
         NEW r \in [0 .. N - 1 -> S \cup {x}], NEW d \in Seq(S),
         \A s \in 0 .. N - 1 : AgeOn(N, h, s) < m => r[s] # x
  PROVE  /\ FlightOf(N, h, m, r, d) \in Seq(S)
         /\ Lists(FlightOf(N, h, m, r, d), N, h, m, r, d)
<1> DEFINE f == [i \in 1 .. m |-> r[At(N, h, i)]]
<1>1. m \in Nat /\ Len(d) \in Nat  BY LenProperties
<1>2. ASSUME NEW i \in 1 .. m PROVE r[At(N, h, i)] \in S
  <2>1. At(N, h, i) \in 0 .. N - 1 /\ AgeOn(N, h, At(N, h, i)) = i - 1  BY Positions
  <2>2. i - 1 < m  BY <1>1
  <2>3. QED  BY <2>1, <2>2
<1>3. f \in [1 .. m -> S] /\ \A i \in 1 .. m : f[i] = r[At(N, h, i)]  BY <1>2
<1> HIDE DEF f
<1>4. f \in Seq(S) /\ Len(f) = m
  <2>1. f \in Seq(S)  BY <1>1, <1>3, SeqDef
  <2>2. DOMAIN f = 1 .. m /\ DOMAIN f = 1 .. Len(f) /\ Len(f) \in Nat  BY <1>3, <2>1, LenProperties
  <2>3. QED  BY <1>1, <2>1, <2>2
<1>5. /\ f \o d \in Seq(S) /\ Len(f \o d) = m + Len(d)
      /\ \A i \in 1 .. m + Len(d) : (f \o d)[i] = IF i <= m THEN f[i] ELSE d[i - m]
  BY <1>4, ConcatProperties
<1>6. ASSUME NEW i \in 1 .. m PROVE (f \o d)[i] = r[At(N, h, i)]
  <2>1. i \in 1 .. m + Len(d) /\ i <= m  BY <1>1
  <2>2. QED  BY <1>3, <1>5, <2>1
<1>7. ASSUME NEW i \in 1 .. Len(d) PROVE (f \o d)[m + i] = d[i]
  <2>1. m + i \in 1 .. m + Len(d) /\ ~ (m + i <= m) /\ (m + i) - m = i  BY <1>1
  <2>2. QED  BY <1>5, <2>1
<1>8. FlightOf(N, h, m, r, d) = f \o d  BY DEF FlightOf, f
<1>9. Lists(f \o d, N, h, m, r, d)  BY <1>1, <1>5, <1>6, <1>7 DEF Lists
<1>10. QED  BY <1>5, <1>8, <1>9

Spot(i) == At(roq_ifq_size, roq_head, i)

\* The queues and the sequence.
LEMMA Flight ==
  ASSUME TypeOK, Window, program \in Programs
  PROVE  /\ InFlight \in Seq(Insts) /\ Len(InFlight) = roq_num + Len(decode_data)
         /\ roq_num \in Nat /\ Len(decode_data) \in Nat
         /\ \A i \in 1 .. roq_num :
              /\ InFlight[i] = roq[Spot(i)] /\ Spot(i) \in Live /\ Spot(i) \in RoqSlots
              /\ RAge(Spot(i)) = i - 1
         /\ \A i \in 1 .. Len(decode_data) : InFlight[roq_num + i] = decode_data[i]
         /\ \A s \in Live : RAge(s) + 1 \in 1 .. roq_num /\ Spot(RAge(s) + 1) = s
<1>1. /\ roq_ifq_size \in Nat \ {0} /\ roq_head \in 0 .. roq_ifq_size - 1 /\ roq_num \in 0 .. roq_ifq_size
      /\ RoqSlots = 0 .. roq_ifq_size - 1 /\ roq \in [RoqSlots -> Insts \cup {NoInst}]
      /\ decode_data \in Seq(Insts)
  BY Sizes DEF TypeOK
<1>2. Live = {s \in RoqSlots : RAge(s) < roq_num}  BY RoqAges
<1>3. \A s \in RoqSlots : RAge(s) < roq_num => roq[s] # NoInst  BY <1>2 DEF Window
<1>4. NoInst \notin Insts  BY InstFields
<1>5. InFlight = FlightOf(roq_ifq_size, roq_head, roq_num, roq, decode_data)
  BY DEF InFlight, FlightOf, At
<1>6. /\ InFlight \in Seq(Insts) /\ Len(InFlight) = roq_num + Len(decode_data)
      /\ Len(decode_data) \in Nat
      /\ \A i \in 1 .. roq_num : InFlight[i] = roq[Spot(i)]
      /\ \A i \in 1 .. Len(decode_data) : InFlight[roq_num + i] = decode_data[i]
  <2> DEFINE q == FlightOf(roq_ifq_size, roq_head, roq_num, roq, decode_data)
  <2>1. roq \in [0 .. roq_ifq_size - 1 -> Insts \cup {NoInst}]  BY <1>1
  <2>2. \A s \in 0 .. roq_ifq_size - 1 :
          AgeOn(roq_ifq_size, roq_head, s) < roq_num => roq[s] # NoInst
    BY <1>1, <1>3 DEF RAge
  <2>3. /\ q \in Seq(Insts)
        /\ Len(q) = roq_num + Len(decode_data) /\ Len(decode_data) \in Nat
        /\ \A i \in 1 .. roq_num : q[i] = roq[At(roq_ifq_size, roq_head, i)]
        /\ \A i \in 1 .. Len(decode_data) : q[roq_num + i] = decode_data[i]
    <3>1. q \in Seq(Insts) /\ Lists(q, roq_ifq_size, roq_head, roq_num, roq, decode_data)
      BY <1>1, <1>4, <2>1, <2>2, FlightSeq
    <3> HIDE DEF q
    <3>2. QED  BY <3>1 DEF Lists
  <2> HIDE DEF q
  <2>4. InFlight = q  BY <1>5 DEF q
  <2>5. QED  BY <2>3, <2>4 DEF Spot
<1>7. /\ \A i \in 1 .. roq_num : Spot(i) \in RoqSlots /\ RAge(Spot(i)) = i - 1
      /\ \A s \in RoqSlots : RAge(s) < roq_num => RAge(s) + 1 \in 1 .. roq_num /\ Spot(RAge(s) + 1) = s
  BY <1>1, Positions DEF RAge, Spot
<1>8. roq_num \in Nat /\ \A i \in 1 .. roq_num : i - 1 < roq_num  BY <1>1
<1>9. QED  BY <1>2, <1>6, <1>7, <1>8

\* The same after a step.
LEMMA FlightNext ==
  ASSUME IInv', program' = program, program \in Programs
  PROVE  /\ InFlight' \in Seq(Insts) /\ Len(InFlight') = roq_num' + Len(decode_data')
         /\ roq_num' \in Nat /\ Len(decode_data') \in Nat
         /\ \A i \in 1 .. roq_num' : InFlight'[i] = roq'[At(roq_ifq_size, roq_head', i)]
         /\ \A i \in 1 .. Len(decode_data') : InFlight'[roq_num' + i] = decode_data'[i]
<1>1. TypeOK' /\ Window'  BY DEF IInv
<1>2. /\ roq_ifq_size \in Nat \ {0} /\ roq_head' \in 0 .. roq_ifq_size - 1
      /\ roq_num' \in 0 .. roq_ifq_size /\ RoqSlots = 0 .. roq_ifq_size - 1
      /\ roq' \in [RoqSlots -> Insts \cup {NoInst}] /\ decode_data' \in Seq(Insts)
  BY <1>1, Sizes, SameProgram DEF TypeOK
<1>3. Live' = {s \in RoqSlots : AgeOn(roq_ifq_size, roq_head', s) < roq_num'}
  BY DEF Live, Age, AgeOn
<1>4. \A s \in RoqSlots : AgeOn(roq_ifq_size, roq_head', s) < roq_num' => roq'[s] # NoInst
  BY <1>1, <1>3, SameProgram DEF Window
<1>5. NoInst \notin Insts  BY InstFields
<1>6. InFlight' = FlightOf(roq_ifq_size, roq_head', roq_num', roq', decode_data')
  BY DEF InFlight, FlightOf, At
<1>7. roq_num' \in Nat  BY <1>2
<1> DEFINE q == FlightOf(roq_ifq_size, roq_head', roq_num', roq', decode_data')
<1>8. roq' \in [0 .. roq_ifq_size - 1 -> Insts \cup {NoInst}]  BY <1>2
<1>9. \A s \in 0 .. roq_ifq_size - 1 :
        AgeOn(roq_ifq_size, roq_head', s) < roq_num' => roq'[s] # NoInst
  BY <1>2, <1>4
<1>10. /\ q \in Seq(Insts)
       /\ Len(q) = roq_num' + Len(decode_data') /\ Len(decode_data') \in Nat
       /\ \A i \in 1 .. roq_num' : q[i] = roq'[At(roq_ifq_size, roq_head', i)]
       /\ \A i \in 1 .. Len(decode_data') : q[roq_num' + i] = decode_data'[i]
  <2>1. q \in Seq(Insts) /\ Lists(q, roq_ifq_size, roq_head', roq_num', roq', decode_data')
    BY <1>2, <1>5, <1>8, <1>9, FlightSeq
  <2> HIDE DEF q
  <2>2. QED  BY <2>1 DEF Lists
<1> HIDE DEF q
<1>11. InFlight' = q  BY <1>6 DEF q
<1>12. QED  BY <1>7, <1>10, <1>11

\* The program is the same after a step.
LEMMA SameFlows ==
  ASSUME program' = program
  PROVE  Flows' <=> /\ arch' \in Archs /\ Fresh(decode_data')
                    /\ Levelled(InFlight', front', spec_level')
                    /\ Chained(InFlight', front', spec_level',
                               IF fetch_data' = <<>> THEN fetch_reg_PC' ELSE fetch_data'[1], arch')
<1>1. Archs' = Archs  BY SameProgram DEF Archs
<1>2. (Fresh(decode_data))' <=> Fresh(decode_data')  BY DEF Fresh
<1>3. Levelled(InFlight, front, spec_level)' <=> Levelled(InFlight', front', spec_level')
  BY DEF Levelled, Waits, Open, Made, Outcomes, Plus, IsCtrl, IsLikely, Kind, Outside
<1>4. Chained(InFlight, front, spec_level, NextPC, arch)'
        <=> Chained(InFlight', front', spec_level',
                    IF fetch_data' = <<>> THEN fetch_reg_PC' ELSE fetch_data'[1], arch')
  BY DEF Chained, Fits, Ahead, JumpOr, Follows, AfterBranch, Target, NextPC, NoPC,
         Plus, IsCtrl, IsLikely, Kind, Outside
<1>5. QED  BY <1>1, <1>2, <1>3, <1>4 DEF Flows

-----------------------------------------------------------------------------
(***************************************************************************)
(* One lemma for each kind of step.                                        *)
(***************************************************************************)

\* The instructions stay in their slots.
LEMMA StillFlows ==
  ASSUME FInv, IInv', program' = program, roq_head' = roq_head, roq_num' = roq_num,
         decode_data' = decode_data, spec_level' = spec_level, arch' = arch,
         front'.lastIsBranch = front.lastIsBranch, front'.entering = front.entering,
         front'.jump = front.jump, front'.redirect = front.redirect, NextPC' = NextPC,
         \A s \in Live : /\ Alike(roq[s], roq'[s]) /\ (Open(roq'[s]) <=> Open(roq[s]))
                         /\ roq'[s].ex => roq[s].ex \/ Kind(roq'[s].pc) = "load"
  PROVE  Flows'
<1>1. /\ TypeOK /\ Window /\ program \in Programs /\ arch \in Archs /\ Fresh(decode_data)
      /\ Levelled(InFlight, front, spec_level)
      /\ Chained(InFlight, front, spec_level, NextPC, arch)
  BY DEF FInv, Flows, IInv, Front
<1> DEFINE q == InFlight
           r == InFlight'
<1>2. /\ Len(q) = roq_num + Len(decode_data) /\ roq_num \in Nat /\ Len(decode_data) \in Nat
      /\ \A i \in 1 .. roq_num : q[i] = roq[Spot(i)] /\ Spot(i) \in Live
      /\ \A i \in 1 .. Len(decode_data) : q[roq_num + i] = decode_data[i]
  BY <1>1, Flight
<1>3. /\ Len(r) = roq_num + Len(decode_data)
      /\ \A i \in 1 .. roq_num : r[i] = roq'[Spot(i)]
      /\ \A i \in 1 .. Len(decode_data) : r[roq_num + i] = decode_data[i]
  BY <1>1, FlightNext DEF Spot
<1> HIDE DEF q, r
<1>4. ASSUME NEW i \in 1 .. Len(q)
      PROVE  /\ Alike(q[i], r[i]) /\ (Open(r[i]) <=> Open(q[i]))
             /\ r[i].ex => q[i].ex \/ Kind(r[i].pc) = "load"
  <2>1. CASE i \in 1 .. roq_num  BY <1>2, <1>3, <2>1
  <2>2. CASE i \notin 1 .. roq_num
    <3>1. i - roq_num \in 1 .. Len(decode_data) /\ roq_num + (i - roq_num) = i  BY <1>2, <2>2
    <3>2. q[i] = r[i]  BY <1>2, <1>3, <3>1
    <3>3. Alike(q[i], q[i])  BY DEF Alike
    <3>4. QED  BY <3>2, <3>3
  <2>3. QED  BY <2>1, <2>2
<1>5. Levelled(q, front, spec_level) /\ Chained(q, front, spec_level, NextPC, arch)
  BY <1>1 DEF q
<1>6. Len(q) \in Nat /\ Len(r) = Len(q)  BY <1>2, <1>3
<1>7. Levelled(r, front', spec_level) /\ Chained(r, front', spec_level, NextPC, arch)
  BY <1>4, <1>5, <1>6, Copied
<1>8. NextPC = IF fetch_data' = <<>> THEN fetch_reg_PC' ELSE fetch_data'[1]  BY DEF NextPC
<1>9. QED  BY <1>1, <1>7, <1>8, SameFlows DEF r

LEMMA IdleFlows ==
  ASSUME FInv, IInv', commit_end \/ check_brq_none \/ map_end \/ UNCHANGED vars
  PROVE  Flows'
<1>1. UNCHANGED <<fetchVars, decodeVars, roqVars, arch, program>>
  BY DEF commit_end, check_brq_none, map_end, vars, loop
<1>2. /\ UNCHANGED <<fetch_reg_PC, fetch_data, front, spec_level, decode_data>>
      /\ UNCHANGED <<roq, roq_head, roq_num, arch, program>>
  BY <1>1 DEF fetchVars, decodeVars, roqVars
<1>3. \A s \in Live : Alike(roq[s], roq'[s])  BY <1>2 DEF Alike
<1>4. NextPC' = NextPC  BY <1>2 DEF NextPC
<1>5. \A s \in Live : (Open(roq'[s]) <=> Open(roq[s])) /\ (roq'[s].ex => roq[s].ex)  BY <1>2
<1>6. QED  BY <1>2, <1>3, <1>4, <1>5, StillFlows

LEMMA DecodeEndFlows ==
  ASSUME FInv, IInv', decode_end
  PROVE  Flows'
<1>1. /\ UNCHANGED <<fetchVars, spec_level, decode_data, roqVars, arch, program>>
      /\ front' = [front EXCEPT !.branches = 0, !.sameCycle = FALSE]
  BY DEF decode_end
<1>2. /\ UNCHANGED <<fetch_reg_PC, fetch_data, spec_level, decode_data>>
      /\ UNCHANGED <<roq, roq_head, roq_num, arch, program>>
  BY <1>1 DEF fetchVars, roqVars
<1>3. front \in Fronts  BY DEF FInv, IInv, Front
<1>4. /\ front'.lastIsBranch = front.lastIsBranch /\ front'.entering = front.entering
      /\ front'.jump = front.jump /\ front'.redirect = front.redirect
  BY <1>1, <1>3 DEF Fronts
<1>5. \A s \in Live : Alike(roq[s], roq'[s])  BY <1>2 DEF Alike
<1>6. NextPC' = NextPC  BY <1>2 DEF NextPC
<1>7. \A s \in Live : (Open(roq'[s]) <=> Open(roq[s])) /\ (roq'[s].ex => roq[s].ex)  BY <1>2
<1>8. QED  BY <1>2, <1>4, <1>5, <1>6, <1>7, StillFlows

LEMMA FetchFlows ==
  ASSUME FInv, IInv', NEW k \in 0 .. fetch_ifq_size, fetch_stage(k)
  PROVE  Flows'
<1>1. /\ fetch_data' = fetch_data \o [i \in 1 .. k |-> Plus(fetch_reg_PC, i - 1)]
      /\ fetch_reg_PC' = Plus(fetch_reg_PC, k)
      /\ UNCHANGED <<decodeVars, roqVars, arch, program>>
  BY DEF fetch_stage
<1>2. /\ UNCHANGED <<front, spec_level, decode_data>>
      /\ UNCHANGED <<roq, roq_head, roq_num, arch, program>>
  BY <1>1 DEF decodeVars, roqVars
<1>3. fetch_data \in Seq(PCs) /\ fetch_reg_PC \in PCs /\ program \in Programs /\ k \in Nat
  <2>1. fetch_ifq_size \in Nat  BY Sizes
  <2>2. QED  BY <2>1 DEF FInv, IInv, TypeOK, Front
<1>4. Plus(fetch_reg_PC, 0) = fetch_reg_PC
  <2>1. Outside \in Nat \ {0} /\ PCs = 0 .. Outside  BY <1>3, TheText
  <2>2. CASE fetch_reg_PC = Outside  BY <2>2 DEF Plus
  <2>3. CASE fetch_reg_PC # Outside
    <3>1. fetch_reg_PC \in 0 .. Outside - 1  BY <1>3, <2>1, <2>3
    <3>2. (fetch_reg_PC + 0) % Outside = fetch_reg_PC  BY <2>1, <3>1
    <3>3. QED  BY <2>3, <3>2 DEF Plus
  <2>4. QED  BY <2>2, <2>3
<1> DEFINE m == [i \in 1 .. k |-> Plus(fetch_reg_PC, i - 1)]
<1>5. m \in Seq(PCs) /\ Len(m) = k /\ (k > 0 => m[1] = fetch_reg_PC)
  <2>1. \A i \in 1 .. k : i - 1 \in Int /\ Plus(fetch_reg_PC, i - 1) \in PCs
    <3>1. \A i \in 1 .. k : i - 1 \in Int  BY <1>3
    <3>2. QED  BY <1>3, <3>1, Steps
  <2>2. m \in [1 .. k -> PCs]  BY <2>1
  <2>3. k > 0 => 1 \in 1 .. k /\ 1 - 1 = 0  BY <1>3
  <2>4. k > 0 => m[1] = fetch_reg_PC  BY <1>4, <2>3
  <2> HIDE DEF m
  <2>5. m \in Seq(PCs)  BY <1>3, <2>2, SeqDef
  <2>6. DOMAIN m = 1 .. k /\ DOMAIN m = 1 .. Len(m) /\ Len(m) \in Nat  BY <2>2, <2>5, LenProperties
  <2>7. Len(m) = k  BY <1>3, <2>6
  <2>8. QED  BY <2>4, <2>5, <2>7
<1> HIDE DEF m
<1>6. fetch_data' = fetch_data \o m  BY <1>1 DEF m
<1>7. /\ fetch_data \o m \in Seq(PCs) /\ Len(fetch_data \o m) = Len(fetch_data) + k
      /\ \A i \in 1 .. Len(fetch_data) + k :
           (fetch_data \o m)[i] = IF i <= Len(fetch_data) THEN fetch_data[i] ELSE m[i - Len(fetch_data)]
  BY <1>3, <1>5, ConcatProperties
<1>8. NextPC' = NextPC
  <2>1. NextPC' = IF fetch_data' = <<>> THEN fetch_reg_PC' ELSE fetch_data'[1]  BY DEF NextPC
  <2>2. CASE fetch_data # <<>>
    <3>1. Len(fetch_data) \in Nat \ {0}  BY <1>3, <2>2, EmptySeq
    <3>2. 1 \in 1 .. Len(fetch_data) + k /\ 1 <= Len(fetch_data) /\ Len(fetch_data) + k # 0
      BY <1>3, <3>1
    <3>3. fetch_data'[1] = fetch_data[1]  BY <1>6, <1>7, <3>2
    <3>4. fetch_data' # <<>>  BY <1>6, <1>7, <3>2, EmptySeq
    <3>5. QED  BY <2>1, <2>2, <3>3, <3>4 DEF NextPC
  <2>3. CASE fetch_data = <<>>
    <3>1. Len(fetch_data) = 0  BY <2>3, EmptySeq
    <3>2. NextPC = fetch_reg_PC  BY <2>3 DEF NextPC
    <3>3. CASE k = 0
      <4>1. fetch_data' = <<>>
        <5>1. Len(fetch_data') = 0 /\ fetch_data' \in Seq(PCs)  BY <1>6, <1>7, <3>1, <3>3
        <5>2. QED  BY <5>1, EmptySeq
      <4>2. QED  BY <1>1, <1>4, <2>1, <3>2, <3>3, <4>1
    <3>4. CASE k # 0
      <4>1. 1 \in 1 .. 0 + k /\ ~ (1 <= 0) /\ 1 - 0 = 1 /\ 0 + k # 0 /\ k > 0  BY <1>3, <3>4
      <4>2. fetch_data'[1] = m[1]  BY <1>6, <1>7, <3>1, <4>1
      <4>3. fetch_data' # <<>>  BY <1>6, <1>7, <3>1, <4>1, EmptySeq
      <4>4. QED  BY <1>5, <2>1, <3>2, <4>1, <4>2, <4>3
    <3>5. QED  BY <3>3, <3>4
  <2>4. QED  BY <2>2, <2>3
<1>9. \A s \in Live : Alike(roq[s], roq'[s])  BY <1>2 DEF Alike
<1>10. \A s \in Live : (Open(roq'[s]) <=> Open(roq[s])) /\ (roq'[s].ex => roq[s].ex)  BY <1>2
<1>11. QED  BY <1>2, <1>8, <1>9, <1>10, StillFlows

\* What is known of an instruction in the reorder queue.
LEMMA InQueue ==
  ASSUME FInv, NEW s \in Live
  PROVE  /\ Made(roq[s]) /\ roq[s] \in Insts /\ s \in RoqSlots
         /\ RAge(s) + 1 \in 1 .. roq_num /\ RAge(s) + 1 \in 1 .. Len(InFlight)
         /\ Spot(RAge(s) + 1) = s /\ InFlight[RAge(s) + 1] = roq[s]
<1>1. TypeOK /\ Window /\ program \in Programs /\ Levelled(InFlight, front, spec_level)
  BY DEF FInv, Flows, IInv, Front
<1> DEFINE i == RAge(s) + 1
<1>2. /\ i \in 1 .. roq_num /\ Spot(i) = s /\ InFlight[i] = roq[Spot(i)]
      /\ Len(InFlight) = roq_num + Len(decode_data) /\ roq_num \in Nat /\ Len(decode_data) \in Nat
  BY <1>1, Flight
<1> HIDE DEF i
<1>3. i \in 1 .. Len(InFlight)  BY <1>2
<1>4. Made(InFlight[i])  BY <1>1, <1>3 DEF Levelled
<1>5. roq[s] \in Insts /\ s \in RoqSlots  BY <1>1, Held
<1>6. QED  BY <1>2, <1>3, <1>4, <1>5 DEF i

LEMMA ResolveFlows ==
  ASSUME FInv, IInv', check_brq_right
  PROVE  Flows'
<1>1. PICK s \in Resolving :
        /\ ~ roq[s].mis_predict
        /\ roq' = [roq EXCEPT ![s].status = "completed"]
        /\ UNCHANGED <<fetchVars, decodeVars, roq_head, roq_tail, roq_num, brqVars, counts, arch, program>>
  BY DEF check_brq_right, Resolve, Goto
<1>2. /\ UNCHANGED <<fetch_reg_PC, fetch_data, front, spec_level, decode_data>>
      /\ UNCHANGED <<roq_head, roq_num, arch, program>>
  BY <1>1 DEF fetchVars, decodeVars
<1>3. /\ s \in Live /\ s \in RoqSlots /\ roq[s] \in Insts
      /\ roq \in [RoqSlots -> Insts \cup {NoInst}]
  BY ResolvingBranch DEF FInv, IInv, TypeOK
<1> DEFINE rs == [roq[s] EXCEPT !.status = "completed"]
<1>4. Alike(roq[s], rs) /\ rs.ex = roq[s].ex  BY <1>3 DEF Alike, Insts
<1>5. roq'[s] = rs /\ \A t \in RoqSlots : t # s => roq'[t] = roq[t]  BY <1>1, <1>3
<1> HIDE DEF rs
<1>6. ~ Open(roq[s]) /\ ~ Open(rs)  BY <1>1, <1>4 DEF Open, Alike
<1>7. ASSUME NEW t \in Live
      PROVE  Alike(roq[t], roq'[t]) /\ (Open(roq'[t]) <=> Open(roq[t])) /\ (roq'[t].ex => roq[t].ex)
  <2>1. CASE t = s  BY <1>4, <1>5, <1>6, <2>1
  <2>2. CASE t # s
    <3>1. roq'[t] = roq[t]  BY <1>5, <2>2 DEF Live
    <3>2. QED  BY <3>1 DEF Alike
  <2>3. QED  BY <2>1, <2>2
<1>8. NextPC' = NextPC  BY <1>2 DEF NextPC
<1>9. QED  BY <1>2, <1>7, <1>8, StillFlows

LEMMA ExecuteFlows ==
  ASSUME FInv, IInv', NEW done \in SUBSET Issued, NEW ready \in SUBSET Queued(Live),
         NEW left \in 0 .. lsq_committed, NEW early \in SUBSET TooEarly(done),
         execute(done, early, ready, left)
  PROVE  Flows'
<1>1. UNCHANGED <<fetchVars, decodeVars, roq_head, roq_num, arch, program>>
  BY DEF execute
<1>2. /\ UNCHANGED <<fetch_reg_PC, fetch_data, front, spec_level, decode_data>>
      /\ UNCHANGED <<roq_head, roq_num, arch, program>>
  BY <1>1 DEF fetchVars, decodeVars
<1> DEFINE New(s) ==
       IF s \in done THEN [roq[s] EXCEPT !.status = WrittenBack(roq[s]), !.ex = @ \/ s \in early]
       ELSE IF s \in ready THEN [roq[s] EXCEPT !.status = "issued"]
       ELSE IF s \in early THEN [roq[s] EXCEPT !.ex = TRUE]
       ELSE roq[s]
<1>3. roq' = [s \in RoqSlots |-> New(s)]  BY DEF execute
<1>4. \A s \in done : roq[s].status = "issued"  BY DEF Issued
<1>5. \A s \in ready : roq[s].status = "queued"  BY DEF Queued
<1>6. \A s \in early : Kind(roq[s].pc) = "load"  BY DEF TooEarly, AreLoads
<1>7. ASSUME NEW s \in Live
      PROVE  /\ Alike(roq[s], roq'[s]) /\ (Open(roq'[s]) <=> Open(roq[s]))
             /\ roq'[s].ex => roq[s].ex \/ Kind(roq'[s].pc) = "load"
  <2>1. roq[s] \in Insts /\ Made(roq[s]) /\ s \in RoqSlots  BY InQueue
  <2>2. roq'[s] = New(s)  BY <1>3, <2>1
  <2>3. CASE s \in done
    <3> DEFINE st == WrittenBack(roq[s])
               x == roq[s].ex \/ s \in early
               r == [roq[s] EXCEPT !.status = st, !.ex = x]
    <3>1. st = "completed" => ~ IsCtrl(roq[s].pc)  BY DEF WrittenBack
    <3>2. roq'[s] = r  BY <2>2, <2>3
    <3>3. x => roq[s].ex \/ Kind(roq[s].pc) = "load"  BY <1>6
    <3> HIDE DEF st, x
    <3>4. Alike(roq[s], r) /\ r.status = st /\ r.ex = x  BY <2>1 DEF Alike, Insts
    <3> HIDE DEF r
    <3>5. Open(roq[s]) <=> roq[s].mis_predict  BY <1>4, <2>3 DEF Open
    <3>6. Open(r) <=> r.mis_predict /\ st # "completed"  BY <3>4 DEF Open
    <3>7. r.mis_predict = roq[s].mis_predict /\ r.pc = roq[s].pc  BY <3>4 DEF Alike
    <3>8. roq[s].mis_predict => st # "completed"  BY <2>1, <3>1 DEF Made
    <3>9. Open(r) <=> Open(roq[s])  BY <3>5, <3>6, <3>7, <3>8
    <3>10. QED  BY <3>2, <3>3, <3>4, <3>7, <3>9
  <2>4. CASE s \notin done /\ s \in ready
    <3> DEFINE r == [roq[s] EXCEPT !.status = "issued"]
    <3>1. roq'[s] = r  BY <2>2, <2>4
    <3>2. Alike(roq[s], r) /\ r.ex = roq[s].ex /\ r.status = "issued"  BY <2>1 DEF Alike, Insts
    <3> HIDE DEF r
    <3>3. roq[s].status = "queued"  BY <1>5, <2>4
    <3>4. Open(r) <=> Open(roq[s])  BY <3>2, <3>3 DEF Open, Alike
    <3>5. QED  BY <3>1, <3>2, <3>4
  <2>5. CASE s \notin done /\ s \notin ready /\ s \in early
    <3> DEFINE r == [roq[s] EXCEPT !.ex = TRUE]
    <3>1. roq'[s] = r  BY <2>2, <2>5
    <3>2. Alike(roq[s], r) /\ r.status = roq[s].status  BY <2>1 DEF Alike, Insts
    <3> HIDE DEF r
    <3>3. Open(r) <=> Open(roq[s])  BY <3>2 DEF Open, Alike
    <3>4. r.pc = roq[s].pc  BY <3>2 DEF Alike
    <3>5. QED  BY <1>6, <2>5, <3>1, <3>2, <3>3, <3>4
  <2>6. CASE s \notin done /\ s \notin ready /\ s \notin early
    <3>1. roq'[s] = roq[s]  BY <2>2, <2>6
    <3>2. QED  BY <3>1 DEF Alike
  <2>7. QED  BY <2>3, <2>4, <2>5, <2>6
<1>8. NextPC' = NextPC  BY <1>2 DEF NextPC
<1>9. QED  BY <1>2, <1>7, <1>8, StillFlows

LEMMA MapFlows ==
  ASSUME FInv, IInv', map_one
  PROVE  Flows'
<1>1. /\ TypeOK /\ Window /\ program \in Programs /\ arch \in Archs /\ Fresh(decode_data)
      /\ Levelled(InFlight, front, spec_level)
      /\ Chained(InFlight, front, spec_level, NextPC, arch)
  BY DEF FInv, Flows, IInv, Front
<1> DEFINE old == decode_data[1]
           rs == Enter(old, brq_tail)
<1>2. /\ decode_data # <<>> /\ roq' = [roq EXCEPT ![roq_tail] = rs]
      /\ roq_num' = roq_num + 1 /\ decode_data' = Tail(decode_data)
      /\ UNCHANGED <<fetchVars, front, spec_level, roq_head, arch, program>>
  BY DEF map_one, CanMap
<1>3. UNCHANGED <<fetch_reg_PC, fetch_data, front, spec_level, roq_head, arch, program>>
  BY <1>2 DEF fetchVars
<1>4. /\ decode_data \in Seq(Insts) /\ Len(decode_data) \in Nat \ {0} /\ 1 \in 1 .. Len(decode_data)
      /\ Len(Tail(decode_data)) = Len(decode_data) - 1
      /\ \A i \in 1 .. Len(decode_data) - 1 : Tail(decode_data)[i] = decode_data[i + 1]
  BY <1>1, <1>2, EmptySeq, HeadTailProperties DEF TypeOK
<1>5. old \in Insts /\ old.status = "decoded"  BY <1>1, <1>4, ElementOfSeq DEF Fresh
<1> HIDE DEF old
<1>6. Alike(old, rs) /\ (Open(rs) <=> Open(old)) /\ rs.ex = old.ex
  <2> DEFINE st == IF Kind(old.pc) = "bogus" THEN "trap" ELSE "queued"
             bq == IF IsCtrl(old.pc) THEN brq_tail ELSE NoSlot
             r == [old EXCEPT !.status = st, !.brqid = bq]
  <2>1. rs = r /\ st # "completed"  BY DEF Enter
  <2> HIDE DEF st, bq
  <2>2. Alike(old, r) /\ r.ex = old.ex /\ r.status = st  BY <1>5 DEF Alike, Insts
  <2> HIDE DEF r, rs
  <2>3. Open(r) <=> Open(old)  BY <1>5, <2>1, <2>2 DEF Open, Alike
  <2>4. QED  BY <2>1, <2>2, <2>3
<1> HIDE DEF rs
<1> DEFINE q == InFlight
           r == InFlight'
<1>7. /\ Len(q) = roq_num + Len(decode_data) /\ roq_num \in Nat
      /\ \A i \in 1 .. roq_num : q[i] = roq[Spot(i)] /\ Spot(i) \in Live /\ Spot(i) \in RoqSlots
      /\ \A i \in 1 .. Len(decode_data) : q[roq_num + i] = decode_data[i]
  BY <1>1, Flight
<1>8. /\ Len(r) = roq_num' + Len(decode_data')
      /\ \A i \in 1 .. roq_num' : r[i] = roq'[Spot(i)]
      /\ \A i \in 1 .. Len(decode_data') : r[roq_num' + i] = decode_data'[i]
  BY <1>1, <1>3, FlightNext DEF Spot
<1> HIDE DEF q, r
<1>9. /\ Spot(roq_num + 1) = roq_tail /\ roq_tail \in RoqSlots /\ roq_tail \notin Live
      /\ roq \in [RoqSlots -> Insts \cup {NoInst}]
  <2>1. /\ roq_tail = (roq_head + roq_num) % roq_ifq_size /\ roq_head \in Int /\ roq_num \in Nat
        /\ roq_tail \in RoqSlots /\ roq \in [RoqSlots -> Insts \cup {NoInst}]
    BY <1>1, Sizes DEF TypeOK, Window
  <2>2. roq_head + (roq_num + 1) - 1 = roq_head + roq_num  BY <2>1
  <2>3. Spot(roq_num + 1) = roq_tail  BY <2>1, <2>2 DEF Spot, At
  <2>4. roq_num < roq_ifq_size
    <3>1. roq_num' \in 0 .. roq_ifq_size /\ roq_ifq_size \in Nat  BY Sizes DEF IInv, TypeOK
    <3>2. QED  BY <1>2, <2>1, <3>1
  <2>5. roq_tail \notin Live
    <3>1. /\ roq_ifq_size \in Nat \ {0} /\ roq_head \in 0 .. roq_ifq_size - 1
          /\ roq_num \in 0 .. roq_ifq_size - 1
      BY <1>1, <2>4, Sizes DEF TypeOK
    <3>2. AgeOn(roq_ifq_size, roq_head, (roq_head + roq_num) % roq_ifq_size) = roq_num
      BY <3>1, SlotOfAge
    <3>3. RAge(roq_tail) = roq_num  BY <2>1, <3>2 DEF RAge
    <3>4. QED  BY <1>1, <3>1, <3>3, RoqAges
  <2>6. QED  BY <2>1, <2>3, <2>5
<1>10. ASSUME NEW i \in 1 .. Len(q)
       PROVE  /\ Alike(q[i], r[i]) /\ (Open(r[i]) <=> Open(q[i]))
              /\ r[i].ex => q[i].ex \/ Kind(r[i].pc) = "load"
  <2>1. CASE i \in 1 .. roq_num
    <3>1. i \in 1 .. roq_num'  BY <1>2, <1>7, <2>1
    <3>2. r[i] = roq'[Spot(i)] /\ q[i] = roq[Spot(i)] /\ Spot(i) # roq_tail /\ Spot(i) \in RoqSlots
      BY <1>7, <1>8, <1>9, <2>1, <3>1
    <3>3. r[i] = q[i]  BY <1>2, <1>9, <3>2
    <3>4. QED  BY <3>3 DEF Alike
  <2>2. CASE i = roq_num + 1
    <3>1. i \in 1 .. roq_num'  BY <1>2, <1>7, <2>2
    <3>2. r[i] = roq'[roq_tail]  BY <1>8, <1>9, <2>2, <3>1
    <3>3. r[i] = rs  BY <1>2, <1>9, <3>2
    <3>4. q[i] = old  BY <1>4, <1>7, <2>2 DEF old
    <3>5. QED  BY <1>6, <3>3, <3>4
  <2>3. CASE i \notin 1 .. roq_num /\ i # roq_num + 1
    <3> DEFINE j == i - roq_num - 1
    <3>1. /\ j \in 1 .. Len(decode_data) - 1 /\ i = roq_num + (j + 1) /\ i = (roq_num + 1) + j
          /\ j + 1 \in 1 .. Len(decode_data)
      BY <1>4, <1>7, <2>3
    <3> HIDE DEF j
    <3>2. q[i] = decode_data[j + 1]  BY <1>7, <3>1
    <3>3. j \in 1 .. Len(decode_data') /\ i = roq_num' + j  BY <1>2, <1>4, <3>1
    <3>4. r[i] = decode_data'[j]  BY <1>8, <3>3
    <3>5. r[i] = q[i]  BY <1>2, <1>4, <3>1, <3>2, <3>4
    <3>6. QED  BY <3>5 DEF Alike
  <2>4. QED  BY <1>7, <2>1, <2>2, <2>3
<1>11. Len(q) \in Nat /\ Len(r) = Len(q)  BY <1>2, <1>4, <1>7, <1>8
<1>12. Levelled(q, front, spec_level) /\ Chained(q, front, spec_level, NextPC, arch)
  BY <1>1 DEF q
<1>13. Levelled(r, front, spec_level) /\ Chained(r, front, spec_level, NextPC, arch)
  BY <1>10, <1>11, <1>12, Copied
<1>14. Fresh(decode_data')
  <2>1. ASSUME NEW i \in 1 .. Len(decode_data') PROVE decode_data'[i].status = "decoded"
    <3>1. i \in 1 .. Len(decode_data) - 1 /\ i + 1 \in 1 .. Len(decode_data)  BY <1>2, <1>4
    <3>2. decode_data'[i] = decode_data[i + 1]  BY <1>2, <1>4, <3>1
    <3>3. QED  BY <1>1, <3>1, <3>2 DEF Fresh
  <2>2. QED  BY <2>1 DEF Fresh
<1>15. NextPC = IF fetch_data' = <<>> THEN fetch_reg_PC' ELSE fetch_data'[1]  BY <1>3 DEF NextPC
<1>16. QED  BY <1>1, <1>3, <1>13, <1>14, <1>15, SameFlows DEF r

\* The next program counter when decode has taken one.
LEMMA NextFetched ==
  ASSUME TypeOK, Front, DelaySlots, fetch_data # <<>>, fetch_data' = Tail(fetch_data),
         fetch_reg_PC' = fetch_reg_PC
  PROVE  NextPC' = Plus(fetch_data[1], 1)
<1>1. /\ fetch_data \in Seq(PCs) /\ Len(fetch_data) \in Nat \ {0} /\ 1 \in 1 .. Len(fetch_data)
      /\ Tail(fetch_data) \in Seq(PCs) /\ Len(Tail(fetch_data)) = Len(fetch_data) - 1
      /\ \A i \in 1 .. Len(fetch_data) - 1 : Tail(fetch_data)[i] = fetch_data[i + 1]
  BY EmptySeq, HeadTailProperties DEF TypeOK
<1>2. /\ \A i \in 1 .. Len(fetch_data) - 1 : fetch_data[i + 1] = Plus(fetch_data[i], 1)
      /\ fetch_reg_PC = Plus(fetch_data[Len(fetch_data)], 1)
  BY DEF DelaySlots, SlotsFollow
<1>3. NextPC' = IF fetch_data' = <<>> THEN fetch_reg_PC' ELSE fetch_data'[1]  BY DEF NextPC
<1>4. CASE Len(fetch_data) = 1
  <2>1. Tail(fetch_data) = <<>>  BY <1>1, <1>4, EmptySeq
  <2>2. QED  BY <1>2, <1>3, <1>4, <2>1
<1>5. CASE Len(fetch_data) # 1
  <2>1. 1 \in 1 .. Len(fetch_data) - 1 /\ Len(fetch_data) - 1 # 0  BY <1>1, <1>5
  <2>2. Tail(fetch_data) # <<>>  BY <1>1, <2>1, EmptySeq
  <2>3. fetch_data'[1] = fetch_data[1 + 1]  BY <1>1, <2>1
  <2>4. QED  BY <1>2, <1>3, <2>1, <2>2, <2>3
<1>6. QED  BY <1>4, <1>5

LEMMA DecodeFlows ==
  ASSUME FInv, IInv', decode_one
  PROVE  Flows'
<1>1. /\ TypeOK /\ Window /\ Front /\ DelaySlots /\ program \in Programs
      /\ arch \in Archs /\ Fresh(decode_data)
      /\ Levelled(InFlight, front, spec_level)
      /\ Chained(InFlight, front, spec_level, NextPC, arch)
  BY DEF FInv, Flows, IInv, Front
<1> DEFINE pc == fetch_data[1]
<1>2. PICK taken \in Outcomes(pc), pred \in Predictions(pc) :
        LET rs == Decoded(pc, taken, pred)
            redirects == ~ (front.redirect # NoPC) /\ IsCtrl(pc) /\ PredTaken(pc, pred)
        IN /\ decode_data' = Append(decode_data, rs)
           /\ spec_level' = IF DeeperNow(rs) THEN spec_level + 1 ELSE spec_level
           /\ front' = [lastIsBranch |-> IsCtrl(pc),
                        jump |-> IF taken THEN Target[pc] ELSE NoPC,
                        redirect |-> IF redirects THEN pred ELSE NoPC,
                        entering |-> ~ DeeperNow(rs) /\ rs.mis_predict,
                        branches |-> front.branches + IF front.lastIsBranch THEN 1 ELSE 0,
                        sameCycle |-> front.sameCycle \/ redirects]
  BY DEF decode_one
<1>3. /\ fetch_data # <<>> /\ UNCHANGED <<roqVars, arch, program>>
      /\ IF front.redirect # NoPC
         THEN fetch_data' = <<>> /\ fetch_reg_PC' = front.redirect
         ELSE fetch_data' = Tail(fetch_data) /\ fetch_reg_PC' = fetch_reg_PC
  BY DEF decode_one, CanDecode
<1>4. UNCHANGED <<roq, roq_head, roq_num, arch, program>>  BY <1>3 DEF roqVars
<1>5. /\ fetch_data \in Seq(PCs) /\ 1 \in 1 .. Len(fetch_data) /\ decode_data \in Seq(Insts)
      /\ front \in Fronts
  BY <1>1, <1>3, EmptySeq DEF TypeOK, Front
<1>6. pc \in PCs /\ NextPC = pc  BY <1>3, <1>5, ElementOfSeq DEF NextPC
<1>7. /\ front.redirect # NoPC => front.lastIsBranch
      /\ front.lastIsBranch => ~ IsCtrl(pc)
      /\ front.entering \in BOOLEAN
  BY <1>1, <1>3, <1>5 DEF Front, DelaySlots, SlotsFollow, Fronts
<1> DEFINE next == IF fetch_data' = <<>> THEN fetch_reg_PC' ELSE fetch_data'[1]
<1>8. next = IF front.redirect # NoPC THEN front.redirect ELSE Plus(pc, 1)
  <2>1. CASE front.redirect # NoPC  BY <1>3, <2>1
  <2>2. CASE ~ (front.redirect # NoPC)
    <3>1. NextPC' = Plus(pc, 1)  BY <1>1, <1>3, <2>2, NextFetched
    <3>2. QED  BY <2>2, <3>1 DEF NextPC
  <2>3. QED  BY <2>1, <2>2
<1> HIDE DEF pc, next
<1> DEFINE rs == Decoded(pc, taken, pred)
           redirects == ~ (front.redirect # NoPC) /\ IsCtrl(pc) /\ PredTaken(pc, pred)
<1>9. /\ rs \in Insts /\ rs.pc = pc /\ rs.taken = taken /\ rs.spec_level = spec_level
      /\ rs.npc = JumpOr(front, Plus(pc, 1)) /\ rs.bd = front.lastIsBranch
      /\ rs.status = "decoded" /\ rs.ex = FALSE /\ rs.mis_predict \in BOOLEAN
      /\ rs.mis_predict = (IsCtrl(pc) /\ pred # (IF taken THEN Target[pc] ELSE Plus(pc, 1)))
  <2>1. rs \in Insts /\ rs.pc = pc  BY <1>1, <1>6, DecodedInst
  <2>2. rs.mis_predict \in BOOLEAN  BY <1>1, <2>1, InstFields
  <2> DEFINE mis == IsCtrl(pc) /\ pred # (IF taken THEN Target[pc] ELSE Plus(pc, 1))
             npc == IF front.jump # NoPC THEN front.jump ELSE Plus(pc, 1)
  <2>3. rs = [pc |-> pc, npc |-> npc, spec_level |-> spec_level, bd |-> front.lastIsBranch,
              taken |-> taken, mis_predict |-> mis, status |-> "decoded", ex |-> FALSE,
              brqid |-> NoSlot]
    BY DEF Decoded
  <2> HIDE DEF mis, npc, rs
  <2>4. /\ rs.taken = taken /\ rs.spec_level = spec_level /\ rs.npc = npc
        /\ rs.bd = front.lastIsBranch /\ rs.status = "decoded" /\ rs.ex = FALSE
        /\ rs.mis_predict = mis
    BY <2>3
  <2>5. QED  BY <2>1, <2>2, <2>4 DEF mis, npc, JumpOr
<1>10. /\ decode_data' = Append(decode_data, rs)
       /\ spec_level' = IF DeeperNow(rs) THEN spec_level + 1 ELSE spec_level
       /\ front'.lastIsBranch = IsCtrl(pc)
       /\ front'.jump = IF taken THEN Target[pc] ELSE NoPC
       /\ front'.redirect = IF redirects THEN pred ELSE NoPC
       /\ front'.entering = (~ DeeperNow(rs) /\ rs.mis_predict)
  BY <1>2
<1> HIDE DEF rs
<1>11. DeeperNow(rs) <=> front.entering \/ (rs.mis_predict /\ IsLikely(rs.pc))  BY DEF DeeperNow
<1>12. Leaves(front, spec_level, NextPC, rs, front', spec_level', next)
  <2>1. front'.entering = (~ (front.entering \/ (rs.mis_predict /\ IsLikely(rs.pc))) /\ rs.mis_predict)
    BY <1>10 DEF DeeperNow
  <2>2. spec_level' = IF front.entering \/ (rs.mis_predict /\ IsLikely(rs.pc))
                      THEN spec_level + 1 ELSE spec_level
    BY <1>10, <1>11
  <2>3. QED  BY <1>6, <1>8, <1>9, <1>10, <2>1, <2>2 DEF Leaves
<1>13. Predicted(front, rs, front')
  <2>1. front'.redirect = IF ~ (front.redirect # NoPC) /\ IsCtrl(rs.pc) /\ PredTaken(rs.pc, pred)
                          THEN pred ELSE NoPC
    BY <1>9, <1>10
  <2>2. pred \in Predictions(rs.pc)
        /\ rs.mis_predict =
             (IsCtrl(rs.pc) /\ pred # (IF rs.taken THEN Target[rs.pc] ELSE Plus(rs.pc, 1)))
    BY <1>9
  <2>3. QED  BY <2>1, <2>2 DEF Predicted
<1> DEFINE q == InFlight
           r == InFlight'
<1>14. /\ Len(q) = roq_num + Len(decode_data) /\ roq_num \in Nat /\ Len(decode_data) \in Nat
       /\ \A i \in 1 .. roq_num : q[i] = roq[Spot(i)]
       /\ \A i \in 1 .. Len(decode_data) : q[roq_num + i] = decode_data[i]
  BY <1>1, Flight
<1>15. /\ Len(r) = roq_num + Len(decode_data')
       /\ \A i \in 1 .. roq_num : r[i] = roq[Spot(i)]
       /\ \A i \in 1 .. Len(decode_data') : r[roq_num + i] = decode_data'[i]
  BY <1>1, <1>4, FlightNext DEF Spot
<1>16. /\ Len(decode_data') = Len(decode_data) + 1
       /\ \A i \in 1 .. Len(decode_data) : decode_data'[i] = decode_data[i]
       /\ decode_data'[Len(decode_data) + 1] = rs
  BY <1>5, <1>9, <1>10
<1> HIDE DEF q, r
<1>17. ASSUME NEW i \in 1 .. Len(q) PROVE r[i] = q[i]
  <2>1. CASE i \in 1 .. roq_num  BY <1>14, <1>15, <2>1
  <2>2. CASE i \notin 1 .. roq_num
    <3> DEFINE j == i - roq_num
    <3>1. j \in 1 .. Len(decode_data) /\ j \in 1 .. Len(decode_data) + 1 /\ i = roq_num + j
      BY <1>14, <2>2
    <3> HIDE DEF j
    <3>2. QED  BY <1>14, <1>15, <1>16, <3>1
  <2>3. QED  BY <2>1, <2>2
<1>18. Len(r) = Len(q) + 1 /\ Len(q) \in Nat /\ r[Len(q) + 1] = rs
  <2>1. /\ Len(decode_data) + 1 \in 1 .. Len(decode_data')
        /\ Len(q) + 1 = roq_num + (Len(decode_data) + 1) /\ Len(q) \in Nat
    BY <1>14, <1>16
  <2>2. r[Len(q) + 1] = rs  BY <1>15, <1>16, <2>1
  <2>3. QED  BY <1>15, <1>16, <2>1, <2>2
<1>19. Levelled(q, front, spec_level) /\ Chained(q, front, spec_level, NextPC, arch)
  BY <1>1 DEF q
<1>20. rs.pc \in PCs /\ rs.taken \in Outcomes(rs.pc) /\ rs.mis_predict \in BOOLEAN
       /\ (front.lastIsBranch => ~ IsCtrl(rs.pc))
  BY <1>6, <1>7, <1>9
<1>21. Levelled(r, front', spec_level') /\ Chained(r, front', spec_level', next, arch)
  <2>1. Extends(q, r, rs)  BY <1>17, <1>18 DEF Extends
  <2>2. InTurn(front, rs)  BY <1>7, <1>20 DEF InTurn
  <2>3. QED  BY <1>1, <1>12, <1>13, <1>19, <2>1, <2>2, Appended
<1>22. Fresh(decode_data')
  <2>1. ASSUME NEW i \in 1 .. Len(decode_data') PROVE decode_data'[i].status = "decoded"
    <3>1. i \in 1 .. Len(decode_data) \/ i = Len(decode_data) + 1  BY <1>14, <1>16
    <3>2. QED  BY <1>1, <1>9, <1>16, <3>1 DEF Fresh
  <2>2. QED  BY <2>1 DEF Fresh
<1>23. QED  BY <1>1, <1>4, <1>21, <1>22, SameFlows DEF r, next

\* What follows an instruction is a pair of addresses of the text.
LEMMA FollowsTyped ==
  ASSUME program \in Programs, NEW rs \in Insts
  PROVE  Follows(rs) \in Archs /\ recover_PC(rs) \in PCs
         /\ (IsCtrl(rs.pc) => AfterBranch(rs.pc, rs.taken) \in PCs)
<1>1. /\ rs.pc \in PCs /\ rs.npc \in PCs
      /\ \A pc \in PCs, k \in Int : Plus(pc, k) \in PCs
  BY InstFields, Steps
<1>2. /\ Plus(rs.npc, 1) \in PCs /\ Plus(rs.pc, 1) \in PCs /\ Plus(rs.pc, 2) \in PCs
      /\ Plus(rs.pc, 3) \in PCs /\ Plus(rs.pc, -1) \in PCs
  BY <1>1
<1>3. IsCtrl(rs.pc) => AfterBranch(rs.pc, rs.taken) \in PCs
  <2>1. SUFFICES ASSUME IsCtrl(rs.pc) PROVE AfterBranch(rs.pc, rs.taken) \in PCs  OBVIOUS
  <2>2. Target[rs.pc] \in 0 .. Outside - 1 /\ Outside \in Nat /\ PCs = 0 .. Outside
    BY <1>1, <2>1, TheText
  <2>3. Target[rs.pc] \in PCs  BY <2>2
  <2>4. QED  BY <1>2, <2>3 DEF AfterBranch
<1>4. recover_PC(rs) \in PCs  BY <1>1, <1>2 DEF recover_PC
<1>5. Follows(rs) \in Archs
  <2>1. CASE ~ IsCtrl(rs.pc)
    <3>1. Follows(rs) = [last |-> rs.pc, pc |-> rs.npc, npc |-> Plus(rs.npc, 1), bd |-> FALSE]
      BY <2>1 DEF Follows
    <3>2. QED  BY <1>1, <1>2, <3>1 DEF Archs
  <2>2. CASE IsCtrl(rs.pc) /\ IsLikely(rs.pc) /\ ~ rs.taken
    <3>1. Follows(rs) = [last |-> rs.pc, pc |-> Plus(rs.pc, 2), npc |-> Plus(rs.pc, 3), bd |-> FALSE]
      BY <2>2 DEF Follows
    <3>2. QED  BY <1>1, <1>2, <3>1 DEF Archs
  <2>3. CASE IsCtrl(rs.pc) /\ ~ (IsLikely(rs.pc) /\ ~ rs.taken)
    <3>1. Follows(rs) = [last |-> rs.pc, pc |-> Plus(rs.pc, 1),
                         npc |-> AfterBranch(rs.pc, rs.taken), bd |-> TRUE]
      BY <2>3 DEF Follows
    <3>2. QED  BY <1>1, <1>2, <1>3, <2>3, <3>1 DEF Archs
  <2>4. QED  BY <2>1, <2>2, <2>3
<1>6. QED  BY <1>3, <1>4, <1>5

LEMMA FlushFlows ==
  ASSUME FInv, IInv', pipeline_flush
  PROVE  Flows'
<1>1. TypeOK /\ Window /\ program \in Programs  BY DEF FInv, IInv, Front
<1>2. /\ roq_num > 0 /\ spec_level' = 0 /\ fetch_data' = <<>> /\ decode_data' = <<>>
      /\ fetch_reg_PC' = recover_PC(Oldest) /\ front' = Idle /\ roq_num' = 0
      /\ arch' = [last |-> Outside, pc |-> recover_PC(Oldest),
                  npc |-> Plus(recover_PC(Oldest), 1), bd |-> FALSE]
      /\ program' = program
  BY DEF pipeline_flush, CanCommit, tracer_recover
<1>3. Oldest \in Insts  BY <1>1, <1>2, TheOldest
<1> DEFINE pc == recover_PC(Oldest)
<1>4. pc \in PCs  BY <1>1, <1>3, FollowsTyped
<1>5. Plus(pc, 1) \in PCs /\ Outside \in PCs
  <2>1. Plus(pc, 1) \in PCs  BY <1>1, <1>4, Steps
  <2>2. PCs = 0 .. Outside /\ Outside \in Nat  BY <1>1, TheText
  <2>3. QED  BY <2>1, <2>2
<1> HIDE DEF pc
<1>6. /\ arch' \in Archs /\ arch'.pc = pc /\ arch'.npc = Plus(pc, 1) /\ arch'.bd = FALSE
      /\ fetch_reg_PC' = pc
  BY <1>2, <1>4, <1>5 DEF Archs, pc
<1>7. Len(InFlight') = 0
  <2>1. Len(InFlight') = roq_num' + Len(decode_data')  BY <1>1, <1>2, FlightNext
  <2>2. QED  BY <1>2, <2>1, EmptySeq
<1>8. Levelled(InFlight', Idle, 0) /\ Chained(InFlight', Idle, 0, pc, arch')
  BY <1>1, <1>4, <1>6, <1>7, Emptied
<1>9. Fresh(decode_data')
  <2>1. Fresh(<<>>)  BY EmptySeq DEF Fresh
  <2>2. QED  BY <1>2, <2>1
<1>10. QED  BY <1>2, <1>6, <1>8, <1>9, SameFlows

LEMMA StartFlows ==
  ASSUME Init, IInv
  PROVE  Flows
<1>1. TypeOK /\ Window /\ program \in Programs  BY DEF IInv, Front
<1>2. /\ fetch_reg_PC = 0 /\ fetch_data = <<>> /\ front = Idle /\ spec_level = 0
      /\ decode_data = <<>> /\ roq_num = 0
      /\ arch = [last |-> Outside, pc |-> 0, npc |-> Plus(0, 1), bd |-> FALSE]
  BY DEF Init
<1>3. 0 \in PCs /\ Outside \in PCs
  <2>1. PCs = 0 .. Outside /\ Outside \in Nat  BY <1>1, TheText
  <2>2. QED  BY <2>1
<1>4. Plus(0, 1) \in PCs  BY <1>1, <1>3, Steps
<1>5. arch \in Archs /\ arch.pc = 0 /\ arch.npc = Plus(0, 1) /\ arch.bd = FALSE
  BY <1>2, <1>3, <1>4 DEF Archs
<1>6. Len(InFlight) = 0
  <2>1. Len(InFlight) = roq_num + Len(decode_data)  BY <1>1, Flight
  <2>2. QED  BY <1>2, <2>1, EmptySeq
<1>7. Levelled(InFlight, Idle, 0) /\ Chained(InFlight, Idle, 0, 0, arch)
  BY <1>1, <1>3, <1>5, <1>6, Emptied
<1>8. Fresh(decode_data)
  <2>1. Fresh(<<>>)  BY EmptySeq DEF Fresh
  <2>2. QED  BY <1>2, <2>1
<1>9. NextPC = 0  BY <1>2 DEF NextPC
<1>10. QED  BY <1>2, <1>5, <1>7, <1>8, <1>9 DEF Flows

\* The oldest instruction in flight.
LEMMA FirstInFlight ==
  ASSUME FInv, roq_num > 0
  PROVE  /\ roq_head \in Live /\ RAge(roq_head) = 0 /\ Oldest \in Insts /\ Made(Oldest)
         /\ Len(InFlight) \in Nat \ {0} /\ InFlight[1] = Oldest /\ Fits(arch, Oldest)
<1>1. /\ TypeOK /\ Window /\ program \in Programs
      /\ Chained(InFlight, front, spec_level, NextPC, arch)
  BY DEF FInv, Flows, IInv, Front
<1>2. /\ roq_head \in Live /\ RAge(roq_head) = 0 /\ Oldest = roq[roq_head] /\ Oldest \in Insts
  BY <1>1, TheOldest
<1>3. /\ Made(roq[roq_head]) /\ InFlight[RAge(roq_head) + 1] = roq[roq_head]
      /\ RAge(roq_head) + 1 \in 1 .. Len(InFlight)
  BY <1>2, InQueue
<1>4. InFlight[1] = Oldest /\ 1 \in 1 .. Len(InFlight)  BY <1>2, <1>3
<1>5. Len(InFlight) \in Nat \ {0} /\ Len(InFlight) > 0
  <2>1. InFlight \in Seq(Insts)  BY <1>1, Flight
  <2>2. Len(InFlight) \in Nat  BY <2>1, LenProperties
  <2>3. QED  BY <1>4, <2>2
<1>6. QED  BY <1>1, <1>2, <1>3, <1>4, <1>5 DEF Chained

LEMMA CommitFlows ==
  ASSUME FInv, IInv', commit
  PROVE  Flows'
<1>1. /\ TypeOK /\ Window /\ program \in Programs /\ arch \in Archs /\ Fresh(decode_data)
      /\ Levelled(InFlight, front, spec_level)
      /\ Chained(InFlight, front, spec_level, NextPC, arch)
  BY DEF FInv, Flows, IInv, Front
<1>2. /\ roq_num > 0 /\ Oldest.status = "completed"
      /\ roq' = [roq EXCEPT ![roq_head] = NoInst]
      /\ roq_head' = (roq_head + 1) % roq_ifq_size /\ roq_num' = roq_num - 1
      /\ arch' = Follows(Oldest)
      /\ UNCHANGED <<fetchVars, decodeVars, program>>
  BY DEF commit, CanCommit
<1>3. UNCHANGED <<fetch_reg_PC, fetch_data, front, spec_level, decode_data, program>>
  BY <1>2 DEF fetchVars, decodeVars
<1> DEFINE q == InFlight
           r == InFlight'
<1>4. /\ roq_head \in Live /\ RAge(roq_head) = 0 /\ Oldest \in Insts
      /\ Len(q) \in Nat \ {0} /\ q[1] = Oldest
  BY <1>2, FirstInFlight
<1>5. /\ Len(q) = roq_num + Len(decode_data) /\ roq_num \in Nat /\ Len(decode_data) \in Nat
      /\ \A i \in 1 .. roq_num : /\ q[i] = roq[Spot(i)] /\ Spot(i) \in RoqSlots
                                 /\ RAge(Spot(i)) = i - 1
      /\ \A i \in 1 .. Len(decode_data) : q[roq_num + i] = decode_data[i]
  BY <1>1, Flight
<1>6. /\ Len(r) = roq_num' + Len(decode_data)
      /\ \A i \in 1 .. roq_num' : r[i] = roq'[At(roq_ifq_size, roq_head', i)]
      /\ \A i \in 1 .. Len(decode_data) : r[roq_num' + i] = decode_data[i]
  BY <1>1, <1>3, FlightNext
<1> HIDE DEF q, r
<1>7. /\ roq_ifq_size \in Nat \ {0} /\ roq_head \in 0 .. roq_ifq_size - 1
      /\ roq_num \in 0 .. roq_ifq_size /\ roq \in [RoqSlots -> Insts \cup {NoInst}]
  BY <1>1, Sizes DEF TypeOK
<1>8. ASSUME NEW i \in 1 .. roq_num - 1
      PROVE  r[i] = q[i + 1]
  <2>1. i + 1 \in 1 .. roq_num /\ i \in 1 .. roq_num' /\ i - 1 \in 0 .. roq_ifq_size
        /\ 1 \in 0 .. roq_ifq_size /\ roq_head + 1 + (i - 1) = roq_head + (i + 1) - 1
        /\ (i + 1) - 1 = i /\ i # 0
    BY <1>2, <1>7
  <2>2. (((roq_head + 1) % roq_ifq_size) + (i - 1)) % roq_ifq_size
          = (roq_head + 1 + (i - 1)) % roq_ifq_size
    BY <1>7, <2>1, StepsAdd
  <2>3. roq_head' + i - 1 = roq_head' + (i - 1)
    <3>1. roq_head' \in Int /\ i \in Int  BY <1>2, <1>7
    <3>2. QED  BY <3>1
  <2>4. At(roq_ifq_size, roq_head', i) = Spot(i + 1)  BY <1>2, <2>1, <2>2, <2>3 DEF At, Spot
  <2>5. Spot(i + 1) # roq_head /\ Spot(i + 1) \in RoqSlots  BY <1>4, <1>5, <2>1
  <2>6. roq'[Spot(i + 1)] = roq[Spot(i + 1)]  BY <1>2, <1>7, <2>5
  <2>7. r[i] = roq'[Spot(i + 1)]  BY <1>6, <2>1, <2>4
  <2>8. QED  BY <1>5, <2>1, <2>6, <2>7
<1>9. ASSUME NEW i \in 1 .. Len(r) PROVE r[i] = q[i + 1]
  <2>1. CASE i \in 1 .. roq_num - 1  BY <1>8, <2>1
  <2>2. CASE i \notin 1 .. roq_num - 1
    <3> DEFINE j == i - (roq_num - 1)
    <3>1. j \in 1 .. Len(decode_data) /\ i = roq_num' + j /\ i + 1 = roq_num + j
      BY <1>2, <1>5, <1>6, <2>2
    <3> HIDE DEF j
    <3>2. r[i] = decode_data[j] /\ q[i + 1] = decode_data[j]  BY <1>5, <1>6, <3>1
    <3>3. QED  BY <3>2
  <2>3. QED  BY <2>1, <2>2
<1>10. Len(r) = Len(q) - 1  BY <1>2, <1>5, <1>6
<1>11. ~ Open(q[1])  BY <1>2, <1>4 DEF Open
<1>12. Levelled(q, front, spec_level) /\ Chained(q, front, spec_level, NextPC, arch)
  BY <1>1 DEF q
<1>13. Levelled(r, front, spec_level) /\ Chained(r, front, spec_level, NextPC, Follows(q[1]))
  BY <1>4, <1>9, <1>10, <1>11, <1>12, Dropped
<1>14. arch' = Follows(q[1]) /\ arch' \in Archs  BY <1>1, <1>2, <1>4, FollowsTyped
<1>15. NextPC = IF fetch_data' = <<>> THEN fetch_reg_PC' ELSE fetch_data'[1]  BY <1>3 DEF NextPC
<1>16. Levelled(InFlight', front', spec_level')  BY <1>3, <1>13 DEF r
<1>17. Chained(InFlight', front', spec_level', NextPC, arch')  BY <1>3, <1>13, <1>14 DEF r
<1>18. QED  BY <1>1, <1>3, <1>14, <1>15, <1>16, <1>17, SameFlows

LEMMA RecoverFlows ==
  ASSUME FInv, IInv', brerr_recover
  PROVE  Flows'
<1>1. /\ TypeOK /\ Window /\ Branches /\ program \in Programs /\ arch \in Archs
      /\ Levelled(InFlight, front, spec_level)
      /\ Chained(InFlight, front, spec_level, NextPC, arch)
  BY DEF FInv, Flows, IInv, Front
<1>2. PICK s \in Resolving :
        /\ roq[s].mis_predict /\ HasDelaySlot(s)
        /\ roq' = [t \in RoqSlots |-> IF t \in Younger(LastKept(s)) THEN NoInst ELSE Resolve(s)[t]]
        /\ roq_num' = roq_num - Cardinality(Younger(LastKept(s)))
        /\ tracer_recover(roq[s].spec_level, AfterBranch(roq[s].pc, roq[s].taken))
        /\ UNCHANGED <<roq_head, arch, program>>
  BY DEF brerr_recover
<1>3. s \in Live /\ s \in Ctrl(Live) /\ roq[s].status = "brcompleted"  BY <1>1, ResolvingBranch
<1> DEFINE p == RAge(s) + 1
           k == roq_num'
<1>4. /\ roq[s] \in Insts /\ s \in RoqSlots /\ p \in 1 .. roq_num /\ p \in 1 .. Len(InFlight)
      /\ Spot(p) = s /\ InFlight[p] = roq[s]
  BY <1>3, InQueue
<1>5. LastKept(s) \in Live /\ (~ IsLikely(roq[s].pc) => RAge(LastKept(s)) = RAge(s) + 1)
  BY <1>1, <1>2, <1>3, KeptLast
<1>6. /\ k = RAge(LastKept(s)) + 1 /\ k \in 1 .. roq_num
      /\ Younger(LastKept(s)) = {t \in Live : RAge(t) > RAge(LastKept(s))}
  BY <1>1, <1>2, <1>5, CutBehind
<1>7. k = IF IsLikely(roq[s].pc) THEN p ELSE p + 1
  <2>1. CASE IsLikely(roq[s].pc)
    <3>1. LastKept(s) = s  BY <2>1 DEF LastKept
    <3>2. QED  BY <1>6, <2>1, <3>1
  <2>2. CASE ~ IsLikely(roq[s].pc)  BY <1>5, <1>6, <2>2
  <2>3. QED  BY <2>1, <2>2
<1>8. /\ spec_level' = roq[s].spec_level /\ fetch_data' = <<>> /\ decode_data' = <<>>
      /\ fetch_reg_PC' = AfterBranch(roq[s].pc, roq[s].taken) /\ front' = Idle
      /\ roq_head' = roq_head /\ arch' = arch /\ program' = program
  BY <1>2 DEF tracer_recover
<1> DEFINE q == InFlight
           r == InFlight'
<1>9. /\ Len(q) = roq_num + Len(decode_data) /\ roq_num \in Nat /\ Len(decode_data) \in Nat
      /\ \A i \in 1 .. roq_num : /\ q[i] = roq[Spot(i)] /\ Spot(i) \in RoqSlots
                                 /\ RAge(Spot(i)) = i - 1
  BY <1>1, Flight
<1>10. Len(r) = k /\ \A i \in 1 .. k : r[i] = roq'[Spot(i)]
  <2>1. /\ Len(r) = roq_num' + Len(decode_data') /\ roq_num' \in Nat
        /\ \A i \in 1 .. roq_num' : r[i] = roq'[At(roq_ifq_size, roq_head', i)]
    BY <1>1, <1>8, FlightNext
  <2>2. Len(decode_data') = 0  BY <1>8, EmptySeq
  <2> HIDE DEF r
  <2>3. QED  BY <1>8, <2>1, <2>2 DEF Spot
<1> DEFINE rs == [roq[s] EXCEPT !.status = "completed"]
<1>11. Alike(roq[s], rs) /\ rs.ex = roq[s].ex /\ rs.status = "completed"
  BY <1>4 DEF Alike, Insts
<1>12. \A t \in RoqSlots : t \notin Younger(LastKept(s)) => roq'[t] = IF t = s THEN rs ELSE roq[t]
  <2>1. roq \in [RoqSlots -> Insts \cup {NoInst}]  BY <1>1 DEF TypeOK
  <2>2. \A t \in RoqSlots : Resolve(s)[t] = IF t = s THEN rs ELSE roq[t]
    BY <1>4, <2>1 DEF Resolve
  <2>3. QED  BY <1>2, <2>2
<1> HIDE DEF p, k, q, r, rs
<1>13. p \in Int /\ RAge(s) = p - 1 /\ k \in Int /\ RAge(LastKept(s)) = k - 1
  <2>1. RAge(s) \in Int /\ RAge(LastKept(s)) \in Int
    <3>1. LastKept(s) \in RoqSlots  BY <1>1, <1>5, Held
    <3>2. roq_ifq_size \in Nat  BY Sizes
    <3>3. RAge(s) \in 0 .. roq_ifq_size - 1 /\ RAge(LastKept(s)) \in 0 .. roq_ifq_size - 1
      BY <1>1, <1>4, <3>1, RoqAges
    <3>4. QED  BY <3>2, <3>3
  <2>2. QED  BY <1>6, <2>1 DEF p
<1>14. Open(q[p]) /\ q[p] = roq[s] /\ p \in 1 .. Len(q) /\ k \in 1 .. Len(q) /\ Len(q) \in Nat
  <2>1. q[p] = roq[s] /\ p \in 1 .. Len(q)  BY <1>4 DEF q
  <2>2. Open(q[p])  BY <1>2, <1>3, <2>1 DEF Open
  <2>3. QED  BY <1>6, <1>9, <2>1, <2>2
<1>15. ASSUME NEW i \in 1 .. k
       PROVE  /\ Alike(q[i], r[i]) /\ (r[i].ex => q[i].ex)
              /\ Open(r[i]) <=> Open(q[i]) /\ i # p
  <2>1. /\ i \in 1 .. roq_num /\ i - 1 \in Int /\ ~ (i - 1 > k - 1)
    BY <1>6, <1>9, <1>13
  <2>2. /\ Spot(i) \in RoqSlots /\ q[i] = roq[Spot(i)] /\ RAge(Spot(i)) = i - 1
        /\ r[i] = roq'[Spot(i)]
    BY <1>9, <1>10, <2>1
  <2>3. Spot(i) \notin Younger(LastKept(s))  BY <1>6, <1>13, <2>1, <2>2
  <2>4. r[i] = IF Spot(i) = s THEN rs ELSE roq[Spot(i)]  BY <1>12, <2>2, <2>3
  <2>5. Spot(i) = s <=> i = p
    <3>1. Spot(i) = s => i - 1 = p - 1  BY <1>13, <2>2
    <3>2. QED  BY <1>4, <1>13, <3>1
  <2>6. CASE i = p
    <3>1. r[i] = rs /\ q[i] = roq[s]  BY <2>2, <2>4, <2>5, <2>6
    <3>2. ~ Open(rs)  BY <1>11 DEF Open
    <3>3. QED  BY <1>11, <2>6, <3>1, <3>2
  <2>7. CASE i # p
    <3>1. r[i] = q[i]  BY <2>2, <2>4, <2>5, <2>7
    <3>2. QED  BY <2>7, <3>1 DEF Alike
  <2>8. QED  BY <2>6, <2>7
<1>16. q[p].pc \in PCs  BY <1>1, <1>4, <1>14, InstFields
<1>17. Levelled(q, front, spec_level) /\ Chained(q, front, spec_level, NextPC, arch)
  BY <1>1 DEF q
<1>18. k = IF IsLikely(q[p].pc) THEN p ELSE p + 1  BY <1>7, <1>14
<1>19. /\ Levelled(r, Idle, q[p].spec_level)
       /\ Chained(r, Idle, q[p].spec_level, AfterBranch(q[p].pc, q[p].taken), arch)
  <2>1. Cuts(q, r, p, k)  BY <1>10, <1>14, <1>15, <1>16, <1>18 DEF Cuts
  <2>2. QED  BY <1>1, <1>17, <2>1, Cut
<1>20. Fresh(decode_data')
  <2>1. Fresh(<<>>)  BY EmptySeq DEF Fresh
  <2>2. QED  BY <1>8, <2>1
<1>21. arch' \in Archs  BY <1>1, <1>8
<1>22. Levelled(InFlight', front', spec_level')  BY <1>8, <1>14, <1>19 DEF r
<1>23. Chained(InFlight', front', spec_level', fetch_reg_PC', arch')  BY <1>8, <1>14, <1>19 DEF r
<1>24. QED  BY <1>8, <1>20, <1>21, <1>22, <1>23, SameFlows

-----------------------------------------------------------------------------
(***************************************************************************)
(* The invariant, and what it says.                                        *)
(***************************************************************************)

LEMMA FlightStart ==
  ASSUME Init
  PROVE  FInv
BY Start, StartFlows DEF FInv

LEMMA FlightStep ==
  ASSUME FInv, [Next]_vars
  PROVE  FInv'
<1>1. IInv'  BY Step DEF FInv
<1>2. CASE commit  BY <1>1, <1>2, CommitFlows DEF FInv
<1>3. CASE pipeline_flush  BY <1>1, <1>3, FlushFlows DEF FInv
<1>4. CASE commit_end \/ check_brq_none \/ map_end \/ UNCHANGED vars
  BY <1>1, <1>4, IdleFlows DEF FInv
<1>5. CASE check_brq_right  BY <1>1, <1>5, ResolveFlows DEF FInv
<1>6. CASE brerr_recover  BY <1>1, <1>6, RecoverFlows DEF FInv
<1>7. CASE Execute
  <2>1. PICK done \in SUBSET Issued, ready \in SUBSET Queued(Live), left \in 0 .. lsq_committed :
          \E early \in SUBSET TooEarly(done) : execute(done, early, ready, left)
    BY <1>7 DEF Execute, Execution
  <2>2. QED  BY <1>1, <2>1, ExecuteFlows DEF FInv
<1>8. CASE map_one  BY <1>1, <1>8, MapFlows DEF FInv
<1>9. CASE decode_one  BY <1>1, <1>9, DecodeFlows DEF FInv
<1>10. CASE decode_end  BY <1>1, <1>10, DecodeEndFlows DEF FInv
<1>11. CASE \E k \in 0 .. fetch_ifq_size : fetch_stage(k)  BY <1>1, <1>11, FetchFlows DEF FInv
<1>12. QED
  BY <1>2, <1>3, <1>4, <1>5, <1>6, <1>7, <1>8, <1>9, <1>10, <1>11 DEF Next

LEMMA Flowing == Spec => []FInv
<1>1. Init => FInv  BY FlightStart
<1>2. FInv /\ [Next]_vars => FInv'  BY FlightStep
<1>3. QED  BY <1>1, <1>2, PTL DEF Spec

\* The level of every instruction in flight, and of the next to be decoded, is
\* the number of the wrongly predicted branches that it still depends on: a
\* recovery, which cuts the queues and gives decode a level back, never leaves an
\* instruction of a path that was given up, nor drops one that was not
\* (src/decode.c, spec_level; src/writeback.c, brerr_recover).
THEOREM LevelsCorrect == Spec => []LevelsAgree
<1>1. ASSUME FInv PROVE LevelsAgree
  <2>1. Levelled(InFlight, front, spec_level)  BY <1>1 DEF FInv, Flows
  <2>2. \A i : LevelAt(i) = Cardinality(Waits(InFlight, i))  BY DEF LevelAt, Waits, Open
  <2>3. QED  BY <2>1, <2>2 DEF LevelsAgree, Levelled
<1>2. QED  BY <1>1, Flowing, PTL

-----------------------------------------------------------------------------
(***************************************************************************)
(* The window implements InOrder.                                          *)
(***************************************************************************)

\* InOrder's program is the window's.
LEMMA SameIsa ==
  /\ Path!Outside = Outside
  /\ \A pc : /\ Path!Kind(pc) = Kind(pc) /\ (Path!IsCtrl(pc) <=> IsCtrl(pc))
             /\ (Path!IsLikely(pc) <=> IsLikely(pc)) /\ Path!Outcomes(pc) = Outcomes(pc)
  /\ \A pc, k : Path!Plus(pc, k) = Plus(pc, k)
  /\ \A pc, taken : Path!AfterBranch(pc, taken) = AfterBranch(pc, taken)
<1>1. Path!Outside = Outside  BY DEF Path!Outside, Outside
<1>2. \A pc : Path!Kind(pc) = Kind(pc)  BY <1>1 DEF Path!Kind, Kind
<1>3. \A pc : /\ Path!IsCtrl(pc) <=> IsCtrl(pc)
              /\ Path!IsLikely(pc) <=> IsLikely(pc)
  BY <1>2 DEF Path!IsCtrl, IsCtrl, Path!IsLikely, IsLikely, Path!Controls, Controls
<1>4. \A pc : Path!Outcomes(pc) = Outcomes(pc)  BY <1>2 DEF Path!Outcomes, Outcomes
<1>5. \A pc, k : Path!Plus(pc, k) = Plus(pc, k)  BY <1>1 DEF Path!Plus, Plus
<1>6. \A pc, taken : Path!AfterBranch(pc, taken) = AfterBranch(pc, taken)
  BY <1>5 DEF Path!AfterBranch, AfterBranch, Path!Target, Target
<1>7. QED  BY <1>1, <1>2, <1>3, <1>4, <1>5, <1>6

\* An instruction that retires is the next of the path.
LEMMA CommitRetires ==
  ASSUME FInv, commit
  PROVE  Path!Retire
<1>1. roq_num > 0 /\ arch' = Follows(Oldest) /\ program' = program
  BY DEF commit, CanCommit
<1> DEFINE pc == Oldest.pc
           taken == Oldest.taken
<1>2. Made(Oldest) /\ Fits(arch, Oldest)  BY <1>1, FirstInFlight
<1>3. arch.pc = pc /\ arch.npc = Oldest.npc /\ arch.bd = Oldest.bd  BY <1>2 DEF Fits
<1>4. taken \in Outcomes(pc) /\ (IsCtrl(pc) => Oldest.npc = Plus(pc, 1))  BY <1>2 DEF Made
<1>5. /\ arch'.last = pc
      /\ IF ~ IsCtrl(pc)
         THEN arch'.pc = arch.npc /\ arch'.npc = Plus(arch.npc, 1) /\ arch'.bd = FALSE
         ELSE IF IsLikely(pc) /\ ~ taken
         THEN arch'.pc = Plus(pc, 2) /\ arch'.npc = Plus(pc, 3) /\ arch'.bd = FALSE
         ELSE arch'.pc = arch.npc /\ arch'.npc = AfterBranch(pc, taken) /\ arch'.bd = TRUE
  <2>1. CASE ~ IsCtrl(pc)
    <3>1. arch' = [last |-> pc, pc |-> Oldest.npc, npc |-> Plus(Oldest.npc, 1), bd |-> FALSE]
      BY <1>1, <2>1 DEF Follows
    <3>2. QED  BY <1>3, <2>1, <3>1
  <2>2. CASE IsCtrl(pc) /\ IsLikely(pc) /\ ~ taken
    <3>1. arch' = [last |-> pc, pc |-> Plus(pc, 2), npc |-> Plus(pc, 3), bd |-> FALSE]
      BY <1>1, <2>2 DEF Follows
    <3>2. QED  BY <2>2, <3>1
  <2>3. CASE IsCtrl(pc) /\ ~ (IsLikely(pc) /\ ~ taken)
    <3>1. arch' = [last |-> pc, pc |-> Plus(pc, 1), npc |-> AfterBranch(pc, taken), bd |-> TRUE]
      BY <1>1, <2>3 DEF Follows
    <3>2. QED  BY <1>3, <1>4, <2>3, <3>1
  <2>4. QED  BY <2>1, <2>2, <2>3
<1> HIDE DEF pc, taken
<1>6. taken \in Path!Outcomes(arch.pc)  BY <1>3, <1>4, SameIsa
<1>7. IF ~ Path!IsCtrl(arch.pc)
      THEN arch'.pc = arch.npc /\ arch'.npc = Path!Plus(arch.npc, 1) /\ arch'.bd = FALSE
      ELSE IF Path!IsLikely(arch.pc) /\ ~ taken
      THEN arch'.pc = Path!Plus(arch.pc, 2) /\ arch'.npc = Path!Plus(arch.pc, 3) /\ arch'.bd = FALSE
      ELSE arch'.pc = arch.npc /\ arch'.npc = Path!AfterBranch(arch.pc, taken) /\ arch'.bd = TRUE
  BY <1>3, <1>5, SameIsa
<1>8. QED  BY <1>1, <1>3, <1>5, <1>6, <1>7 DEF Path!Retire

\* A flush is for a load, which comes next again, after its branch if it has one.
LEMMA FlushRepeats ==
  ASSUME FInv, pipeline_flush
  PROVE  Path!Repeat
<1>1. /\ roq_num > 0 /\ Oldest.ex /\ program' = program
      /\ arch' = [last |-> Outside, pc |-> recover_PC(Oldest),
                  npc |-> Plus(recover_PC(Oldest), 1), bd |-> FALSE]
  BY DEF pipeline_flush, CanCommit
<1>2. Made(Oldest) /\ Fits(arch, Oldest)  BY <1>1, FirstInFlight
<1>3. arch.pc = Oldest.pc /\ arch.bd = Oldest.bd /\ Kind(Oldest.pc) = "load"
  BY <1>1, <1>2 DEF Fits, Made
<1>4. /\ arch'.last = Outside /\ arch'.pc = recover_PC(Oldest)
      /\ arch'.npc = Plus(arch'.pc, 1) /\ arch'.bd = FALSE
  BY <1>1
<1>5. recover_PC(Oldest) = IF arch.bd THEN Plus(arch.pc, -1) ELSE arch.pc
  BY <1>3 DEF recover_PC
<1>6. QED  BY <1>1, <1>3, <1>4, <1>5, SameIsa DEF Path!Repeat

\* Nothing else moves what has retired.
LEMMA OthersStutter ==
  ASSUME [Next]_vars, ~ commit, ~ pipeline_flush
  PROVE  UNCHANGED Path!vars
<1>1. arch' = arch /\ program' = program
  <2>1. CASE commit_end \/ check_brq_none \/ map_end \/ UNCHANGED vars
    BY <2>1 DEF commit_end, check_brq_none, map_end, vars
  <2>2. CASE check_brq_right \/ brerr_recover  BY <2>2 DEF check_brq_right, brerr_recover
  <2>3. CASE Execute  BY <2>3 DEF Execute, Execution, execute
  <2>4. CASE map_one  BY <2>4 DEF map_one
  <2>5. CASE decode_one \/ decode_end  BY <2>5 DEF decode_one, decode_end
  <2>6. CASE \E k \in 0 .. fetch_ifq_size : fetch_stage(k)  BY <2>6 DEF fetch_stage
  <2>7. QED  BY <2>1, <2>2, <2>3, <2>4, <2>5, <2>6 DEF Next
<1>2. QED  BY <1>1 DEF Path!vars

\* Instructions retire one after the other along the path that the program takes
\* without a pipeline, each delay slot with its branch, none of a wrong path, and
\* none twice unless the window was flushed for it (src/commit.c, commit_stage
\* and pipeline_flush, over decode, map and brerr_recover).
THEOREM InProgramOrder == Spec => RetiresInOrder
<1>1. Init => Path!Init
  <2>1. ASSUME Init PROVE Path!Init
    <3>1. /\ program \in Programs
          /\ arch = [last |-> Outside, pc |-> 0, npc |-> Plus(0, 1), bd |-> FALSE]
      BY <2>1 DEF Init
    <3>2. arch.last = Outside /\ arch.pc = 0 /\ arch.npc = Plus(0, 1) /\ arch.bd = FALSE  BY <3>1
    <3>3. QED  BY <3>1, <3>2, SameIsa DEF Path!Init
  <2>2. QED  BY <2>1
<1>2. FInv /\ [Next]_vars => [Path!Next]_(Path!vars)
  <2>1. ASSUME FInv, [Next]_vars PROVE [Path!Next]_(Path!vars)
    <3>1. CASE commit  BY <2>1, <3>1, CommitRetires DEF Path!Next
    <3>2. CASE pipeline_flush  BY <2>1, <3>2, FlushRepeats DEF Path!Next
    <3>3. CASE ~ commit /\ ~ pipeline_flush  BY <2>1, <3>3, OthersStutter
    <3>4. QED  BY <3>1, <3>2, <3>3
  <2>2. QED  BY <2>1
<1>3. QED  BY <1>1, <1>2, Flowing, PTL DEF Spec, RetiresInOrder, Path!Spec
=============================================================================
