---------------------------- MODULE SchedulerProof ----------------------------
(***************************************************************************)
(* Operands, ready queues, events, waiting instructions and dividers agree *)
(* with the instructions in flight, for any instructions, any units and    *)
(* any number of descriptors: proofs about Scheduler.                      *)
(***************************************************************************)
EXTENDS MCScheduler, SequenceTheorems, Rings

-----------------------------------------------------------------------------
(***************************************************************************)
(* The inductive invariant.  Its parts are said of the sequence f of the   *)
(* descriptors in flight, oldest first, and of what the descriptors        *)
(* contain (s).                                                            *)
(***************************************************************************)

Links == [rs : Descs, seq : Nat, valid : BOOLEAN, next : BOOLEAN]
Events == [rs : Descs, wait : Int, valid : BOOLEAN]
Waiters == [rs : Descs, valid : BOOLEAN]

Types ==
  /\ stage \in {"commit", "check_brq", "writeback", "issue", "map", "decode"}
  /\ inst \in [Descs -> InstType \cup {NoInst}]
  /\ roq \in Seq(Descs) /\ decode_data \in Seq(Descs)
  /\ spec_level \in Levels
  /\ create_vector \in [Levels -> [Regs -> Descs \cup {NoDesc}]]
  /\ odep_list \in [Descs -> SUBSET Waiters]
  /\ ready_queue \in [Units -> Seq(Links)]
  /\ event_queue \in Seq(Events)
  /\ busy \in [Units -> BOOLEAN]

\* It has written its register, or is a branch whose direction is known.
DoneIn(s, d) == s[d].status \in {"brcompleted", "completed"}

\* A mispredicted branch that has not been recovered from.
OpenIn(s, d) == s[d].op.mis_predict /\ s[d].status # "completed"

\* The first m instructions are mapped; only those wait for their operand that
\* have not been issued; an open branch is below the current level.
Placed(f, s, m, level) ==
  \A i \in 1 .. Len(f) :
    /\ s[f[i]].level <= level /\ (OpenIn(s, f[i]) => s[f[i]].level < level)
    /\ s[f[i]].status = "decoded" <=> i > m
    /\ i <= m => s[f[i]].fu \in Units
    /\ s[f[i]].status \in {"decoded", "queued"} \/ s[f[i]].idep_ready

\* Numbers and levels go up, the level behind an open branch.
Increasing(f, s) ==
  \A i \in 1 .. Len(f) : \A j \in i + 1 .. Len(f) :
    /\ f[i] # f[j] /\ s[f[i]].seq < s[f[j]].seq /\ s[f[i]].level <= s[f[j]].level
    /\ OpenIn(s, f[i]) => s[f[i]].level < s[f[j]].level

\* The descriptors in use are those in flight.
Ordered(f, s, m, level) ==
  /\ {d \in Descs : s[d] # NoInst} = {f[i] : i \in 1 .. Len(f)}
  /\ Placed(f, s, m, level) /\ Increasing(f, s)

\* Instruction i reads what instruction j writes.
Source(f, s, j, i) ==
  /\ s[f[i]].op.in # NA /\ s[f[j]].op.out = s[f[i]].op.in
  /\ \A k \in j + 1 .. i - 1 : s[f[k]].op.out # s[f[i]].op.in

Operands(f, s) ==
  \A i \in 1 .. Len(f) :
    s[f[i]].idep_ready <=> \A j \in 1 .. i - 1 : Source(f, s, j, i) => DoneIn(s, f[j])

\* Each waits for its source, and what is valid in a list waits for nothing else.
Awaited(f, s, o) ==
  /\ \A d \in Descs : \A link \in o[d] : link.valid =>
       \E i \in 1 .. Len(f), j \in 1 .. Len(f) :
         j < i /\ f[j] = d /\ f[i] = link.rs /\ Source(f, s, j, i)
  /\ \A i \in 1 .. Len(f), j \in 1 .. Len(f) :
       j < i /\ Source(f, s, j, i) /\ ~ DoneIn(s, f[j]) =>
         [rs |-> f[i], valid |-> TRUE] \in o[f[j]]
  /\ \A d \in Descs : o[d] # {} => s[d] # NoInst /\ ~ DoneIn(s, d)

\* The last writer of r among the instructions of level l and below.
Creates(f, s, l, r, j) ==
  /\ s[f[j]].op.out = r /\ s[f[j]].level <= l
  /\ \A k \in j + 1 .. Len(f) : s[f[k]].op.out = r => s[f[k]].level > l

\* The levels in use name the last writer until it has written.
Creators(f, s, cv, level) ==
  \A l \in 0 .. level, r \in Regs :
    /\ \A j \in 1 .. Len(f) :
         Creates(f, s, l, r, j) => cv[l][r] = IF DoneIn(s, f[j]) THEN NoDesc ELSE f[j]
    /\ cv[l][r] # NoDesc => \E j \in 1 .. Len(f) : Creates(f, s, l, r, j)

\* Valid links of unit u's queue are the instructions that it may issue; others
\* have the number of no instruction.
Ready(s, u, d) == s[d].status = "queued" /\ s[d].idep_ready /\ s[d].fu = u

BySeq(q) == \A k \in 1 .. Len(q) : \A i \in k + 1 .. Len(q) : q[k].seq < q[i].seq
OneNext(q) == \A k \in 1 .. Len(q) : \A i \in k + 1 .. Len(q) : ~ (q[k].next /\ q[i].next)

Readies(q, u, s) ==
  /\ \A k \in 1 .. Len(q) :
       IF q[k].valid THEN Ready(s, u, q[k].rs) /\ s[q[k].rs].seq = q[k].seq
       ELSE \A d \in Descs : s[d] # NoInst => s[d].seq # q[k].seq
  /\ \A d \in Descs : Ready(s, u, d) => \E k \in 1 .. Len(q) : q[k].valid /\ q[k].rs = d
  /\ BySeq(q) /\ OneNext(q)

OneEach(q) ==
  \A k \in 1 .. Len(q) : \A i \in k + 1 .. Len(q) : q[k].valid /\ q[i].valid => q[k].rs # q[i].rs

\* Each operation in flight has one valid event.
Running(q, s) ==
  /\ \A k \in 1 .. Len(q) : q[k].valid => s[q[k].rs].status = "issued"
  /\ \A d \in Descs : s[d].status = "issued" =>
       \E k \in 1 .. Len(q) : q[k].valid /\ q[k].rs = d
  /\ OneEach(q)

InUse(b, s) ==
  \A u \in Units : b[u] =>
    \E d \in Descs : s[d].status = "issued" /\ s[d].op.class = "IntDIV" /\ s[d].fu = u

IInv ==
  /\ Types
  /\ Ordered(InFlight, inst, Len(roq), spec_level)
  /\ Operands(InFlight, inst)
  /\ Awaited(InFlight, inst, odep_list)
  /\ Creators(InFlight, inst, create_vector, spec_level)
  /\ \A u \in Units : Readies(ready_queue[u], u, inst)
  /\ Running(event_queue, inst)
  /\ InUse(busy, inst)

-----------------------------------------------------------------------------
(***************************************************************************)
(* Prefixes, insertions and removals.                                      *)
(***************************************************************************)

LEMMA PrefixEnds ==
  ASSUME NEW n \in Nat, NEW K \in SUBSET (1 .. n)
  PROVE  /\ Prefix(K) \in 0 .. n /\ Prefix(K) + 1 \notin K
         /\ \A i \in 1 .. Prefix(K) : i \in K
<1> DEFINE T == {m \in Nat : m + 1 \notin K}
<1>1. n \in T /\ T \in SUBSET Nat /\ T # {}  OBVIOUS
<1>2. PICK p \in T : \A m \in T : p <= m
  <2> HIDE DEF T
  <2>1. QED  BY <1>1, LeastNat
<1>3. p \in 0 .. n /\ p + 1 \notin K  BY <1>1, <1>2
<1>4. ASSUME NEW i \in 1 .. p PROVE i \in K
  <2>1. i - 1 \in Nat /\ ~ (p <= i - 1) /\ (i - 1) + 1 = i  BY <1>3
  <2>2. QED  BY <1>2, <2>1
<1>5. {i \in K : 1 .. i \subseteq K} = 1 .. p
  <2>1. ASSUME NEW i \in K, 1 .. i \subseteq K PROVE i \in 1 .. p
    <3>1. i \in 1 .. n /\ p \in Nat  BY <1>3
    <3>2. SUFFICES ASSUME i > p PROVE FALSE  BY <3>1
    <3>3. p + 1 \in 1 .. i  BY <3>1, <3>2
    <3>4. QED  BY <1>3, <2>1, <3>3
  <2>2. ASSUME NEW i \in 1 .. p PROVE i \in K /\ 1 .. i \subseteq K
    <3>1. 1 .. i \subseteq 1 .. p  BY <1>3
    <3>2. QED  BY <1>4, <3>1
  <2>3. QED  BY <2>1, <2>2
<1>6. Cardinality(1 .. p) = p
  <2>1. 1 \in Int /\ p \in Int /\ (1 > p => p = 0) /\ p - 1 + 1 = p  BY <1>3
  <2>2. QED  BY <2>1, FS_Interval
<1>7. Prefix(K) = p  BY <1>5, <1>6 DEF Prefix
<1>8. QED  BY <1>3, <1>4, <1>7

LEMMA Rest ==
  ASSUME NEW A, NEW q \in Seq(A), NEW k \in 0 .. Len(q)
  PROVE  /\ From(q, k + 1) \in Seq(A) /\ Len(From(q, k + 1)) = Len(q) - k
         /\ \A i \in 1 .. Len(q) - k : From(q, k + 1)[i] = q[k + i]
<1>1. Len(q) \in Nat /\ \A i \in 1 .. Len(q) : q[i] \in A  BY LenProperties, ElementOfSeq
<1>2. /\ k + 1 \in Int /\ Len(q) \in Int /\ \A i \in k + 1 .. Len(q) : q[i] \in A
  BY <1>1
<1>3. /\ SubSeq(q, k + 1, Len(q)) \in Seq(A)
      /\ Len(SubSeq(q, k + 1, Len(q))) =
           IF k + 1 <= Len(q) THEN Len(q) - (k + 1) + 1 ELSE 0
      /\ \A i \in 1 .. Len(q) - (k + 1) + 1 : SubSeq(q, k + 1, Len(q))[i] = q[(k + 1) + i - 1]
  BY <1>2, SubSeqProperties
<1>4. /\ Len(q) - (k + 1) + 1 = Len(q) - k /\ (~ (k + 1 <= Len(q)) => Len(q) - k = 0)
      /\ \A i \in 1 .. Len(q) - k : (k + 1) + i - 1 = k + i
  BY <1>1
<1>5. QED  BY <1>3, <1>4 DEF From

LEMMA Front ==
  ASSUME NEW A, NEW q \in Seq(A), NEW k \in 0 .. Len(q)
  PROVE  /\ SubSeq(q, 1, k) \in Seq(A) /\ Len(SubSeq(q, 1, k)) = k
         /\ \A i \in 1 .. k : SubSeq(q, 1, k)[i] = q[i]
<1>1. Len(q) \in Nat /\ \A i \in 1 .. Len(q) : q[i] \in A  BY LenProperties, ElementOfSeq
<1>2. 1 \in Int /\ k \in Int /\ \A i \in 1 .. k : q[i] \in A  BY <1>1
<1>3. /\ SubSeq(q, 1, k) \in Seq(A)
      /\ Len(SubSeq(q, 1, k)) = IF 1 <= k THEN k - 1 + 1 ELSE 0
      /\ \A i \in 1 .. k - 1 + 1 : SubSeq(q, 1, k)[i] = q[1 + i - 1]
  BY <1>2, SubSeqProperties
<1>4. k - 1 + 1 = k /\ (~ (1 <= k) => k = 0) /\ \A i \in 1 .. k : 1 + i - 1 = i  BY <1>1
<1>5. QED  BY <1>3, <1>4

\* r is q with x behind position p.
Inserts(q, x, p, r) ==
  /\ p \in 0 .. Len(q) /\ Len(r) = Len(q) + 1 /\ r[p + 1] = x
  /\ \A i \in 1 .. p : r[i] = q[i]
  /\ \A i \in p + 1 .. Len(q) : r[i + 1] = q[i]

LEMMA Inserting ==
  ASSUME NEW A, NEW q \in Seq(A), NEW x \in A, NEW K \in SUBSET (1 .. Len(q))
  PROVE  /\ InsertAfter(q, K, x) \in Seq(A)
         /\ Inserts(q, x, Prefix(K), InsertAfter(q, K, x))
         /\ \A i \in 1 .. Prefix(K) : i \in K
         /\ Prefix(K) + 1 \notin K
<1> DEFINE p == Prefix(K)
           a == SubSeq(q, 1, p)
           b == From(q, p + 1)
<1>1. Len(q) \in Nat  BY LenProperties
<1>2. p \in 0 .. Len(q) /\ p + 1 \notin K /\ \A i \in 1 .. p : i \in K  BY <1>1, PrefixEnds
<1>3. a \in Seq(A) /\ Len(a) = p /\ \A i \in 1 .. p : a[i] = q[i]
  <2> HIDE DEF p
  <2>1. QED  BY <1>2, Front
<1>4. b \in Seq(A) /\ Len(b) = Len(q) - p /\ \A i \in 1 .. Len(q) - p : b[i] = q[p + i]
  <2> HIDE DEF p
  <2>1. QED  BY <1>2, Rest
<1>5. InsertAfter(q, K, x) = a \o <<x>> \o b  BY DEF InsertAfter
<1> HIDE DEF p, a, b
<1> DEFINE c == a \o <<x>>
<1>6. <<x>> \in Seq(A) /\ Len(<<x>>) = 1 /\ <<x>>[1] = x  OBVIOUS
<1>7. /\ c \in Seq(A) /\ Len(c) = p + 1
      /\ \A i \in 1 .. p + 1 : c[i] = IF i <= p THEN a[i] ELSE <<x>>[i - p]
  <2>1. /\ c \in Seq(A) /\ Len(c) = Len(a) + Len(<<x>>)
        /\ \A i \in 1 .. Len(a) + Len(<<x>>) :
             c[i] = IF i <= Len(a) THEN a[i] ELSE <<x>>[i - Len(a)]
    BY <1>3, <1>6, ConcatProperties
  <2> HIDE DEF c
  <2>2. QED  BY <1>3, <1>6, <2>1
<1>8. c[p + 1] = x /\ \A i \in 1 .. p : c[i] = q[i]
  <2> HIDE DEF c
  <2>1. p + 1 \in 1 .. p + 1 /\ ~ (p + 1 <= p) /\ p + 1 - p = 1  BY <1>2
  <2>2. \A i \in 1 .. p : i \in 1 .. p + 1 /\ i <= p  BY <1>2
  <2>3. QED  BY <1>3, <1>6, <1>7, <2>1, <2>2
<1> HIDE DEF c
<1> DEFINE r == c \o b
<1>9. /\ r \in Seq(A) /\ Len(r) = (p + 1) + (Len(q) - p)
      /\ \A i \in 1 .. (p + 1) + (Len(q) - p) :
           r[i] = IF i <= p + 1 THEN c[i] ELSE b[i - (p + 1)]
  <2>1. /\ r \in Seq(A) /\ Len(r) = Len(c) + Len(b)
        /\ \A i \in 1 .. Len(c) + Len(b) : r[i] = IF i <= Len(c) THEN c[i] ELSE b[i - Len(c)]
    BY <1>4, <1>7, ConcatProperties
  <2> HIDE DEF r
  <2>2. QED  BY <1>4, <1>7, <2>1
<1> HIDE DEF r
<1>10. Len(r) = Len(q) + 1  BY <1>1, <1>2, <1>9
<1>11. r[p + 1] = x /\ \A i \in 1 .. p : r[i] = q[i]
  <2>1. \A i \in 1 .. p + 1 : i <= p + 1 /\ i \in 1 .. (p + 1) + (Len(q) - p)  BY <1>1, <1>2
  <2>2. p + 1 \in 1 .. p + 1 /\ 1 .. p \subseteq 1 .. p + 1  BY <1>2
  <2>3. QED  BY <1>8, <1>9, <2>1, <2>2
<1>12. ASSUME NEW i \in p + 1 .. Len(q) PROVE r[i + 1] = q[i]
  <2>1. /\ i + 1 \in 1 .. (p + 1) + (Len(q) - p) /\ ~ (i + 1 <= p + 1)
        /\ (i + 1) - (p + 1) = i - p /\ i - p \in 1 .. Len(q) - p /\ p + (i - p) = i
    BY <1>1, <1>2
  <2>2. QED  BY <1>4, <1>9, <2>1
<1>13. InsertAfter(q, K, x) = r  BY <1>5 DEF r, c
<1>14. QED  BY <1>2, <1>9, <1>10, <1>11, <1>12, <1>13 DEF Inserts, p

\* A sequence without position k.
LEMMA Deleting ==
  ASSUME NEW A, NEW q \in Seq(A), NEW k \in 1 .. Len(q)
  PROVE  /\ delete_node(q, k) \in Seq(A) /\ Len(delete_node(q, k)) = Len(q) - 1
         /\ \A i \in 1 .. Len(q) - 1 :
              delete_node(q, k)[i] = IF i < k THEN q[i] ELSE q[i + 1]
<1> DEFINE a == SubSeq(q, 1, k - 1)
           b == From(q, k + 1)
           r == delete_node(q, k)
<1>1. Len(q) \in Nat /\ k - 1 \in 0 .. Len(q) /\ k \in 0 .. Len(q)  BY LenProperties
<1>2. a \in Seq(A) /\ Len(a) = k - 1 /\ \A i \in 1 .. k - 1 : a[i] = q[i]  BY <1>1, Front
<1>3. b \in Seq(A) /\ Len(b) = Len(q) - k /\ \A i \in 1 .. Len(q) - k : b[i] = q[k + i]
  BY <1>1, Rest
<1>4. r = a \o b  BY DEF delete_node
<1> HIDE DEF a, b, r
<1>5. /\ r \in Seq(A) /\ Len(r) = (k - 1) + (Len(q) - k)
      /\ \A i \in 1 .. (k - 1) + (Len(q) - k) :
           r[i] = IF i <= k - 1 THEN a[i] ELSE b[i - (k - 1)]
  <2>1. /\ r \in Seq(A) /\ Len(r) = Len(a) + Len(b)
        /\ \A i \in 1 .. Len(a) + Len(b) : r[i] = IF i <= Len(a) THEN a[i] ELSE b[i - Len(a)]
    BY <1>2, <1>3, <1>4, ConcatProperties
  <2>2. QED  BY <1>2, <1>3, <2>1
<1>6. (k - 1) + (Len(q) - k) = Len(q) - 1  BY <1>1
<1>7. ASSUME NEW i \in 1 .. Len(q) - 1 PROVE r[i] = IF i < k THEN q[i] ELSE q[i + 1]
  <2>1. CASE i < k
    <3>1. i <= k - 1 /\ i \in 1 .. k - 1  BY <1>1, <2>1
    <3>2. QED  BY <1>2, <1>5, <1>6, <2>1, <3>1
  <2>2. CASE ~ (i < k)
    <3>1. ~ (i <= k - 1) /\ i - (k - 1) \in 1 .. Len(q) - k /\ k + (i - (k - 1)) = i + 1
      BY <1>1, <2>2
    <3>2. QED  BY <1>3, <1>5, <1>6, <2>2, <3>1
  <2>3. QED  BY <2>1, <2>2
<1>8. QED  BY <1>5, <1>6, <1>7 DEF r

-----------------------------------------------------------------------------
(***************************************************************************)
(* Folds over finite sets.                                                 *)
(***************************************************************************)

Some(S) == CHOOSE x \in S : TRUE
Without(S) == S \ {Some(S)}

\* A set of sets that holds the empty one, and each whose rest it holds.
LEMMA BySize ==
  ASSUME NEW T, IsFiniteSet(T), NEW G, {} \in G,
         \A S \in SUBSET T : S # {} /\ Without(S) \in G => S \in G
  PROVE  T \in G
<1> DEFINE N == {Cardinality(S) : S \in {S \in SUBSET T : S \notin G}}
<1>1. SUFFICES ASSUME T \notin G PROVE FALSE  OBVIOUS
<1>2. \A S \in SUBSET T : IsFiniteSet(S) /\ Cardinality(S) \in Nat
  BY FS_Subset, FS_CardinalityType
<1>3. N \in SUBSET Nat /\ N # {}  BY <1>1, <1>2
<1>4. PICK m \in N : \A k \in N : m <= k
  <2> HIDE DEF N
  <2>1. QED  BY <1>3, LeastNat
<1>5. PICK S \in SUBSET T : S \notin G /\ m = Cardinality(S)  OBVIOUS
<1>6. S # {} /\ Some(S) \in S  BY <1>5 DEF Some
<1>7. IsFiniteSet(S) /\ Cardinality(S \ {Some(S)}) = Cardinality(S) - 1
  BY <1>2, <1>6, FS_RemoveElement
<1>8. Without(S) \in SUBSET T /\ Without(S) \notin G  BY <1>5, <1>6 DEF Without
<1>9. m <= Cardinality(Without(S))  BY <1>4, <1>8
<1>10. QED  BY <1>2, <1>5, <1>7, <1>9 DEF Without

\* f is the fold with op, from base.
FoldsOver(f, T, base, op) ==
  \A S \in SUBSET T : f[S] = IF S = {} THEN base ELSE op[<<Some(S), f[Without(S)]>>]

LEMMA FoldExists ==
  ASSUME NEW T, IsFiniteSet(T), NEW A, NEW base \in A, NEW op \in [T \X A -> A]
  PROVE  \E f \in [SUBSET T -> A] : FoldsOver(f, T, base, op)
<1> DEFINE Upto(f, n) ==
       \A S \in SUBSET T : Cardinality(S) <= n =>
         f[S] = IF S = {} THEN base ELSE op[<<Some(S), f[Without(S)]>>]
           N == {n \in Nat : ~ \E f \in [SUBSET T -> A] : Upto(f, n)}
<1>1. \A S \in SUBSET T : IsFiniteSet(S) /\ Cardinality(S) \in Nat /\ Cardinality(S) <= Cardinality(T)
  BY FS_Subset, FS_CardinalityType
<1>2. \A S \in SUBSET T : S # {} =>
        /\ Some(S) \in T /\ Without(S) \in SUBSET T
        /\ Cardinality(Without(S)) = Cardinality(S) - 1
  <2>1. SUFFICES ASSUME NEW S \in SUBSET T, S # {}
                 PROVE  /\ Some(S) \in T /\ Without(S) \in SUBSET T
                        /\ Cardinality(Without(S)) = Cardinality(S) - 1
    OBVIOUS
  <2>2. Some(S) \in S  BY <2>1 DEF Some
  <2>3. Cardinality(S \ {Some(S)}) = Cardinality(S) - 1  BY <1>1, <2>2, FS_RemoveElement
  <2>4. QED  BY <2>2, <2>3 DEF Without
<1>3. N = {}
  <2>1. SUFFICES ASSUME N # {} PROVE FALSE  OBVIOUS
  <2>2. PICK n \in N : \A k \in N : n <= k
    <3>1. N \in SUBSET Nat  OBVIOUS
    <3> HIDE DEF N
    <3>2. QED  BY <2>1, <3>1, LeastNat
  <2>3. n \in Nat /\ ~ \E f \in [SUBSET T -> A] : Upto(f, n)  OBVIOUS
  <2> DEFINE base0 == [S \in SUBSET T |-> base]
  <2>4. PICK f \in [SUBSET T -> A] : n # 0 => Upto(f, n - 1)
    <3>1. CASE n = 0
      <4>1. base0 \in [SUBSET T -> A]  OBVIOUS
      <4>2. QED  BY <3>1, <4>1
    <3>2. CASE n # 0
      <4>1. n - 1 \in Nat /\ ~ (n <= n - 1)  BY <2>3, <3>2
      <4>2. n - 1 \notin N  BY <2>2, <4>1
      <4>3. \E f \in [SUBSET T -> A] : Upto(f, n - 1)  BY <4>1, <4>2
      <4>4. QED  BY <4>3
    <3>3. QED  BY <3>1, <3>2
  <2> DEFINE g == [S \in SUBSET T |-> IF S = {} THEN base ELSE op[<<Some(S), f[Without(S)]>>]]
  <2>5. g \in [SUBSET T -> A]
    <3>1. \A S \in SUBSET T : S # {} => op[<<Some(S), f[Without(S)]>>] \in A  BY <1>2
    <3>2. QED  BY <3>1
  <2>6. \A S \in SUBSET T : g[S] = IF S = {} THEN base ELSE op[<<Some(S), f[Without(S)]>>]
    OBVIOUS
  <2>7. ASSUME NEW S \in SUBSET T, Cardinality(S) <= n, S # {}
        PROVE  g[Without(S)] = f[Without(S)]
    <3> DEFINE R == Without(S)
    <3>1. R \in SUBSET T /\ Cardinality(R) = Cardinality(S) - 1  BY <1>2, <2>7
    <3>2. Cardinality(R) <= n - 1 /\ n # 0  BY <1>1, <2>3, <2>7, <3>1
    <3>3. Upto(f, n - 1)  BY <2>4, <3>2
    <3> HIDE DEF R
    <3>4. f[R] = IF R = {} THEN base ELSE op[<<Some(R), f[Without(R)]>>]  BY <3>1, <3>2, <3>3
    <3>5. g[R] = f[R]  BY <2>6, <3>1, <3>4
    <3>6. QED  BY <3>5 DEF R
  <2> HIDE DEF g
  <2>8. Upto(g, n)  BY <2>6, <2>7
  <2>9. QED  BY <2>3, <2>5, <2>8
<1>4. Cardinality(T) \in Nat  BY FS_CardinalityType
<1>5. PICK f \in [SUBSET T -> A] : Upto(f, Cardinality(T))  BY <1>3, <1>4
<1>6. FoldsOver(f, T, base, op)  BY <1>1, <1>5 DEF FoldsOver
<1>7. QED  BY <1>6

-----------------------------------------------------------------------------
(***************************************************************************)
(* The ready queues and the event queue after insertions.                  *)
(***************************************************************************)

\* r has the elements of q and those of X.
MergedIn(q, r, X) ==
  /\ \A k \in 1 .. Len(r) : r[k] \in X \/ \E i \in 1 .. Len(q) : r[k] = q[i]
  /\ \A x \in X : \E k \in 1 .. Len(r) : r[k] = x
  /\ \A i \in 1 .. Len(q) : \E k \in 1 .. Len(r) : r[k] = q[i]

\* Two elements of r, the first one first.
PairsOf(q, x, p, r) ==
  \A k \in 1 .. Len(r) : \A i \in k + 1 .. Len(r) :
    \/ \E k0 \in 1 .. Len(q) : \E i0 \in k0 + 1 .. Len(q) : r[k] = q[k0] /\ r[i] = q[i0]
    \/ r[k] = x /\ \E i0 \in p + 1 .. Len(q) : r[i] = q[i0]
    \/ r[i] = x /\ \E k0 \in 1 .. p : r[k] = q[k0]

LEMMA InsertsOne ==
  ASSUME NEW A, NEW q \in Seq(A), NEW x, NEW p, NEW r, Inserts(q, x, p, r)
  PROVE  MergedIn(q, r, {x}) /\ PairsOf(q, x, p, r)
<1>1. /\ p \in 0 .. Len(q) /\ Len(r) = Len(q) + 1 /\ r[p + 1] = x
      /\ \A i \in 1 .. p : r[i] = q[i]
      /\ \A i \in p + 1 .. Len(q) : r[i + 1] = q[i]
  BY DEF Inserts
<1>2. Len(q) \in Nat  BY LenProperties
<1>3. \A k \in 1 .. Len(r) : k > p + 1 => k - 1 \in p + 1 .. Len(q) /\ r[k] = q[k - 1]
  <2>1. SUFFICES ASSUME NEW k \in 1 .. Len(r), k > p + 1
                 PROVE  k - 1 \in p + 1 .. Len(q) /\ r[k] = q[k - 1]
    OBVIOUS
  <2>2. k - 1 \in p + 1 .. Len(q) /\ (k - 1) + 1 = k  BY <1>1, <1>2, <2>1
  <2>3. QED  BY <1>1, <2>2
<1>4. \A k \in 1 .. Len(r) : k <= p \/ k = p + 1 \/ k > p + 1  BY <1>1, <1>2
<1>5. MergedIn(q, r, {x})
  <2>1. ASSUME NEW k \in 1 .. Len(r) PROVE r[k] = x \/ \E i \in 1 .. Len(q) : r[k] = q[i]
    <3>1. CASE k <= p
      <4>1. k \in 1 .. p /\ k \in 1 .. Len(q)  BY <1>1, <1>2, <3>1
      <4>2. QED  BY <1>1, <4>1
    <3>2. CASE k = p + 1  BY <1>1, <3>2
    <3>3. CASE k > p + 1
      <4>1. k - 1 \in 1 .. Len(q) /\ r[k] = q[k - 1]
        <5>1. k - 1 \in p + 1 .. Len(q) /\ r[k] = q[k - 1]  BY <1>3, <3>3
        <5>2. QED  BY <1>1, <1>2, <5>1
      <4>2. QED  BY <4>1
    <3>4. QED  BY <1>4, <3>1, <3>2, <3>3
  <2>2. p + 1 \in 1 .. Len(r)  BY <1>1, <1>2
  <2>3. ASSUME NEW i \in 1 .. Len(q) PROVE \E k \in 1 .. Len(r) : r[k] = q[i]
    <3>1. CASE i <= p
      <4>1. i \in 1 .. p /\ i \in 1 .. Len(r)  BY <1>1, <1>2, <3>1
      <4>2. QED  BY <1>1, <4>1
    <3>2. CASE ~ (i <= p)
      <4>1. i \in p + 1 .. Len(q) /\ i + 1 \in 1 .. Len(r)  BY <1>1, <1>2, <3>2
      <4>2. QED  BY <1>1, <4>1
    <3>3. QED  BY <3>1, <3>2
  <2>4. QED  BY <1>1, <2>1, <2>2, <2>3 DEF MergedIn
<1>6. ASSUME NEW k \in 1 .. Len(r), NEW i \in k + 1 .. Len(r)
      PROVE  \/ \E k0 \in 1 .. Len(q) : \E i0 \in k0 + 1 .. Len(q) : r[k] = q[k0] /\ r[i] = q[i0]
             \/ r[k] = x /\ \E i0 \in p + 1 .. Len(q) : r[i] = q[i0]
             \/ r[i] = x /\ \E k0 \in 1 .. p : r[k] = q[k0]
  <2>1. i \in 1 .. Len(r) /\ k < i  BY <1>1, <1>2
  <2>2. CASE i <= p
    <3>1. k \in 1 .. p /\ i \in 1 .. p /\ k \in 1 .. Len(q) /\ i \in k + 1 .. Len(q)
      BY <1>1, <1>2, <2>1, <2>2
    <3>2. QED  BY <1>1, <3>1
  <2>3. CASE i = p + 1
    <3>1. k \in 1 .. p  BY <1>1, <2>1, <2>3
    <3>2. QED  BY <1>1, <2>3, <3>1
  <2>4. CASE i > p + 1
    <3>1. i - 1 \in p + 1 .. Len(q) /\ r[i] = q[i - 1]  BY <1>3, <2>1, <2>4
    <3>2. CASE k <= p
      <4>1. k \in 1 .. p /\ k \in 1 .. Len(q) /\ i - 1 \in k + 1 .. Len(q)
        BY <1>1, <1>2, <3>1, <3>2
      <4>2. QED  BY <1>1, <3>1, <4>1
    <3>3. CASE k = p + 1  BY <1>1, <3>1, <3>3
    <3>4. CASE k > p + 1
      <4>1. k - 1 \in p + 1 .. Len(q) /\ r[k] = q[k - 1]  BY <1>3, <3>4
      <4>2. k - 1 \in 1 .. Len(q) /\ i - 1 \in (k - 1) + 1 .. Len(q)
        BY <1>1, <1>2, <2>1, <3>1, <4>1
      <4>3. QED  BY <3>1, <4>1, <4>2
    <3>5. QED  BY <1>4, <3>2, <3>3, <3>4
  <2>5. QED  BY <1>4, <2>1, <2>2, <2>3, <2>4
<1>7. QED  BY <1>5, <1>6 DEF PairsOf

LEMMA MergedTwice ==
  ASSUME NEW q, NEW r, NEW t, NEW X, NEW x, MergedIn(q, r, X), MergedIn(r, t, {x})
  PROVE  MergedIn(q, t, X \cup {x})
<1>1. \A k \in 1 .. Len(t) : t[k] \in X \cup {x} \/ \E i \in 1 .. Len(q) : t[k] = q[i]
  <2>1. SUFFICES ASSUME NEW k \in 1 .. Len(t)
                 PROVE  t[k] \in X \cup {x} \/ \E i \in 1 .. Len(q) : t[k] = q[i]
    OBVIOUS
  <2>2. t[k] = x \/ \E j \in 1 .. Len(r) : t[k] = r[j]  BY DEF MergedIn
  <2>3. \A j \in 1 .. Len(r) : r[j] \in X \/ \E i \in 1 .. Len(q) : r[j] = q[i]  BY DEF MergedIn
  <2>4. QED  BY <2>2, <2>3
<1>2. \A j \in 1 .. Len(r) : \E k \in 1 .. Len(t) : t[k] = r[j]  BY DEF MergedIn
<1>3. \A y \in X \cup {x} : \E k \in 1 .. Len(t) : t[k] = y
  <2>1. \A y \in X : \E j \in 1 .. Len(r) : r[j] = y  BY DEF MergedIn
  <2>2. \E k \in 1 .. Len(t) : t[k] = x  BY DEF MergedIn
  <2>3. QED  BY <1>2, <2>1, <2>2
<1>4. \A i \in 1 .. Len(q) : \E k \in 1 .. Len(t) : t[k] = q[i]
  <2>1. \A i \in 1 .. Len(q) : \E j \in 1 .. Len(r) : r[j] = q[i]  BY DEF MergedIn
  <2>2. QED  BY <1>2, <2>1
<1>5. QED  BY <1>1, <1>3, <1>4 DEF MergedIn

NewLink(d) == [rs |-> d, seq |-> inst[d].seq, valid |-> TRUE, next |-> FALSE]

LEMMA EnqueueOne ==
  ASSUME NEW q \in Seq(Links), NEW d \in Descs, inst[d].seq \in Nat
  PROVE  /\ Enqueued(q, d) \in Seq(Links) /\ MergedIn(q, Enqueued(q, d), {NewLink(d)})
         /\ BySeq(q) /\ (\A i \in 1 .. Len(q) : q[i].seq # inst[d].seq) => BySeq(Enqueued(q, d))
<1> DEFINE x == NewLink(d)
           K == {i \in DOMAIN q : q[i].seq < inst[d].seq}
           r == InsertAfter(q, K, x)
           p == Prefix(K)
<1>1. Enqueued(q, d) = r  BY DEF Enqueued, NewLink
<1>2. x \in Links /\ x.seq = inst[d].seq  BY DEF NewLink, Links
<1>3. DOMAIN q = 1 .. Len(q) /\ Len(q) \in Nat /\ K \in SUBSET (1 .. Len(q))  BY LenProperties
<1>4. \A i \in 1 .. Len(q) : q[i] \in Links /\ q[i].seq \in Nat
  <2>1. \A link \in Links : link.seq \in Nat  BY DEF Links
  <2>2. \A i \in 1 .. Len(q) : q[i] \in Links  BY ElementOfSeq
  <2>3. QED  BY <2>1, <2>2
<1> HIDE DEF x
<1>5. r \in Seq(Links) /\ Inserts(q, x, p, r) /\ (\A i \in 1 .. p : i \in K) /\ p + 1 \notin K
  <2> HIDE DEF K
  <2>1. QED  BY <1>2, <1>3, Inserting
<1>6. \A i \in 1 .. p : i \in 1 .. Len(q) /\ q[i].seq < x.seq  BY <1>2, <1>3, <1>5
<1>7. p \in 0 .. Len(q)  BY <1>5 DEF Inserts
<1> HIDE DEF p, r
<1>8. ASSUME BySeq(q), \A i \in 1 .. Len(q) : q[i].seq # inst[d].seq
      PROVE  \A i \in p + 1 .. Len(q) : i \in 1 .. Len(q) /\ x.seq < q[i].seq
  <2>1. SUFFICES ASSUME NEW i \in p + 1 .. Len(q) PROVE i \in 1 .. Len(q) /\ x.seq < q[i].seq
    OBVIOUS
  <2>2. i \in 1 .. Len(q) /\ p + 1 \in 1 .. Len(q) /\ (i = p + 1 \/ i \in (p + 1) + 1 .. Len(q))
    BY <1>3, <1>7
  <2>3. ~ (q[p + 1].seq < x.seq) /\ q[p + 1].seq # x.seq  BY <1>2, <1>3, <1>5, <1>8, <2>2
  <2>4. x.seq < q[p + 1].seq  BY <1>2, <1>4, <2>2, <2>3
  <2>5. i # p + 1 => q[p + 1].seq < q[i].seq  BY <1>8, <2>2 DEF BySeq
  <2>6. QED  BY <1>2, <1>4, <2>2, <2>4, <2>5
<1>9. MergedIn(q, r, {x})  BY <1>5, InsertsOne
<1>12. PairsOf(q, x, p, r)  BY <1>5, InsertsOne
<1>10. ASSUME BySeq(q), \A i \in 1 .. Len(q) : q[i].seq # inst[d].seq
       PROVE  BySeq(r)
  <2>1. SUFFICES ASSUME NEW k \in 1 .. Len(r), NEW i \in k + 1 .. Len(r)
                 PROVE  r[k].seq < r[i].seq
    BY DEF BySeq
  <2>2. \/ \E k0 \in 1 .. Len(q) : \E i0 \in k0 + 1 .. Len(q) : r[k] = q[k0] /\ r[i] = q[i0]
        \/ r[k] = x /\ \E i0 \in p + 1 .. Len(q) : r[i] = q[i0]
        \/ r[i] = x /\ \E k0 \in 1 .. p : r[k] = q[k0]
    BY <1>12 DEF PairsOf
  <2>3. QED  BY <1>6, <1>8, <1>10, <2>2 DEF BySeq
<1>11. QED  BY <1>1, <1>5, <1>9, <1>10 DEF x

\* readyq_enqueue for each of a set of instructions.
LEMMA EnqueueAll ==
  ASSUME NEW S \in SUBSET Descs, IsFiniteSet(S), NEW q0 \in Seq(Links), BySeq(q0),
         \A d \in S : inst[d].seq \in Nat /\ \A i \in 1 .. Len(q0) : q0[i].seq # inst[d].seq,
         \A d \in S, e \in S : d # e => inst[d].seq # inst[e].seq
  PROVE  LET r == FoldSet(LAMBDA d, q : Enqueued(q, d), q0, S)
         IN  r \in Seq(Links) /\ BySeq(r) /\ MergedIn(q0, r, {NewLink(d) : d \in S})
<1> DEFINE A == Seq(Links)
           op == [p \in S \X A |-> Enqueued(p[2], p[1])]
           Steps(f) == f = [R \in SUBSET S |-> IF R = {} THEN q0
                              ELSE Enqueued(f[R \ {CHOOSE x \in R : TRUE}], CHOOSE x \in R : TRUE)]
           Good(q, R) == q \in A /\ BySeq(q) /\ MergedIn(q0, q, {NewLink(d) : d \in R})
<1>1. \A d \in S, q \in A : op[<<d, q>>] = Enqueued(q, d) /\ Enqueued(q, d) \in A
  BY EnqueueOne
<1>2. op \in [S \X A -> A]  BY EnqueueOne
<1>3. \A R \in SUBSET S : R # {} => Some(R) \in R /\ Without(R) \in SUBSET S /\ Some(R) \in S
  BY DEF Some, Without
<1> HIDE DEF A, op
<1>4. \E f : Steps(f)
  <2>1. PICK f \in [SUBSET S -> A] : FoldsOver(f, S, q0, op)  BY <1>2, FoldExists DEF A
  <2>2. ASSUME NEW R \in SUBSET S
        PROVE  f[R] = IF R = {} THEN q0 ELSE Enqueued(f[Without(R)], Some(R))
    <3>1. f[R] = IF R = {} THEN q0 ELSE op[<<Some(R), f[Without(R)]>>]  BY <2>1 DEF FoldsOver
    <3>2. R # {} => op[<<Some(R), f[Without(R)]>>] = Enqueued(f[Without(R)], Some(R))
      BY <1>1, <1>3
    <3>3. QED  BY <3>1, <3>2
  <2>3. f = [R \in SUBSET S |-> IF R = {} THEN q0
                              ELSE Enqueued(f[R \ {CHOOSE x \in R : TRUE}], CHOOSE x \in R : TRUE)]
    BY <2>2 DEF Some, Without
  <2>4. Steps(f)  BY <2>3
  <2> HIDE DEF Steps
  <2>5. QED  BY <2>4
<1>5. PICK f : Steps(f) /\ FoldSet(LAMBDA d, q : Enqueued(q, d), q0, S) = f[S]
  BY <1>4 DEF FoldSet, MapThenFoldSet
<1>6. \A R \in SUBSET S : f[R] = IF R = {} THEN q0 ELSE Enqueued(f[Without(R)], Some(R))
  BY <1>5 DEF Some, Without
<1> HIDE DEF Steps
<1> DEFINE G == {R \in SUBSET S : Good(f[R], R)}
<1>7. {} \in G
  <2>1. f[{}] = q0  BY <1>6
  <2>2. MergedIn(q0, q0, {})  BY DEF MergedIn
  <2>3. QED  BY <2>1, <2>2 DEF A
<1>8. ASSUME NEW R \in SUBSET S, R # {}, Without(R) \in G
      PROVE  R \in G
  <2> DEFINE q == f[Without(R)]
             d == Some(R)
             Y == {NewLink(e) : e \in Without(R)}
  <2>1. Good(q, Without(R)) /\ f[R] = Enqueued(q, d)  BY <1>6, <1>8
  <2>2. d \in R /\ d \in S /\ d \in Descs /\ d \notin Without(R) /\ inst[d].seq \in Nat
        /\ \A e \in Without(R) : e \in S /\ e # d
    BY <1>3, <1>8 DEF Without
  <2> HIDE DEF q, d
  <2>3. q \in Seq(Links) /\ BySeq(q) /\ MergedIn(q0, q, Y)  BY <2>1 DEF A
  <2>4. \A i \in 1 .. Len(q) : q[i].seq # inst[d].seq
    <3>1. SUFFICES ASSUME NEW i \in 1 .. Len(q) PROVE q[i].seq # inst[d].seq  OBVIOUS
    <3>2. q[i] \in Y \/ \E k \in 1 .. Len(q0) : q[i] = q0[k]  BY <2>3 DEF MergedIn
    <3>3. CASE q[i] \in Y
      <4>1. PICK e \in Without(R) : q[i] = NewLink(e)  BY <3>3
      <4>2. q[i].seq = inst[e].seq  BY <4>1 DEF NewLink
      <4>3. QED  BY <2>2, <4>2
    <3>4. CASE \E k \in 1 .. Len(q0) : q[i] = q0[k]  BY <2>2, <3>4
    <3>5. QED  BY <3>2, <3>3, <3>4
  <2> DEFINE r == Enqueued(q, d)
  <2>5. r \in Seq(Links) /\ BySeq(r) /\ MergedIn(q, r, {NewLink(d)})
    BY <2>2, <2>3, <2>4, EnqueueOne
  <2> HIDE DEF r
  <2>6. MergedIn(q0, r, Y \cup {NewLink(d)})  BY <2>3, <2>5, MergedTwice
  <2>7. Y \cup {NewLink(d)} = {NewLink(e) : e \in R}
    <3>1. R = Without(R) \cup {d}  BY <2>2 DEF Without, d
    <3>2. QED  BY <3>1
  <2>8. Good(r, R)  BY <2>5, <2>6, <2>7 DEF A
  <2>9. QED  BY <2>1, <2>8 DEF r
<1>9. S \in G
  <2> HIDE DEF G
  <2>1. QED  BY <1>7, <1>8, BySize
<1>10. QED  BY <1>5, <1>9 DEF A

NewEvent(d, wait) == [rs |-> d, wait |-> wait, valid |-> TRUE]
NoneOf(q, d) == \A i \in 1 .. Len(q) : q[i].valid => q[i].rs # d

LEMMA EventOne ==
  ASSUME NEW q \in Seq(Events), NEW d \in Descs, NEW wait \in Int
  PROVE  LET r == eventq_queue_event(q, d, wait)
         IN  /\ r \in Seq(Events) /\ MergedIn(q, r, {NewEvent(d, wait)})
             /\ OneEach(q) /\ NoneOf(q, d) => OneEach(r)
<1> DEFINE x == NewEvent(d, wait)
           K == {i \in DOMAIN q : q[i].wait < wait}
           r == InsertAfter(q, K, x)
           p == Prefix(K)
<1>1. eventq_queue_event(q, d, wait) = r  BY DEF eventq_queue_event, NewEvent
<1>2. x \in Events /\ x.rs = d /\ x.valid = TRUE  BY DEF NewEvent, Events
<1>3. DOMAIN q = 1 .. Len(q) /\ Len(q) \in Nat /\ K \in SUBSET (1 .. Len(q))  BY LenProperties
<1> HIDE DEF x
<1>4. r \in Seq(Events) /\ Inserts(q, x, p, r)
  <2> HIDE DEF K
  <2>1. QED  BY <1>2, <1>3, Inserting
<1>5. p \in 0 .. Len(q)  BY <1>4 DEF Inserts
<1> HIDE DEF p, r
<1>6. MergedIn(q, r, {x}) /\ PairsOf(q, x, p, r)  BY <1>4, InsertsOne
<1>7. ASSUME OneEach(q), NoneOf(q, d) PROVE OneEach(r)
  <2>1. SUFFICES ASSUME NEW k \in 1 .. Len(r), NEW i \in k + 1 .. Len(r), r[k].valid, r[i].valid
                 PROVE  r[k].rs # r[i].rs
    BY DEF OneEach
  <2>2. \/ \E k0 \in 1 .. Len(q) : \E i0 \in k0 + 1 .. Len(q) : r[k] = q[k0] /\ r[i] = q[i0]
        \/ r[k] = x /\ \E i0 \in p + 1 .. Len(q) : r[i] = q[i0]
        \/ r[i] = x /\ \E k0 \in 1 .. p : r[k] = q[k0]
    BY <1>6 DEF PairsOf
  <2>3. p + 1 .. Len(q) \subseteq 1 .. Len(q) /\ 1 .. p \subseteq 1 .. Len(q)  BY <1>3, <1>5
  <2>4. CASE \E k0 \in 1 .. Len(q) : \E i0 \in k0 + 1 .. Len(q) : r[k] = q[k0] /\ r[i] = q[i0]
    BY <1>7, <2>1, <2>4 DEF OneEach
  <2>5. CASE r[k] = x /\ \E i0 \in p + 1 .. Len(q) : r[i] = q[i0]
    BY <1>2, <1>7, <2>1, <2>3, <2>5 DEF NoneOf
  <2>6. CASE r[i] = x /\ \E k0 \in 1 .. p : r[k] = q[k0]
    BY <1>2, <1>7, <2>1, <2>3, <2>6 DEF NoneOf
  <2>7. QED  BY <2>2, <2>4, <2>5, <2>6
<1>8. QED  BY <1>1, <1>4, <1>6, <1>7 DEF x

\* eventq_queue_event for each of a set of instructions.
LEMMA EventAll ==
  ASSUME NEW S \in SUBSET Descs, IsFiniteSet(S), NEW q0 \in Seq(Events), OneEach(q0),
         NEW wait \in [S -> Int], \A d \in S : NoneOf(q0, d)
  PROVE  LET r == FoldSet(LAMBDA d, q : eventq_queue_event(q, d, wait[d]), q0, S)
         IN  r \in Seq(Events) /\ OneEach(r) /\ MergedIn(q0, r, {NewEvent(d, wait[d]) : d \in S})
<1> DEFINE A == Seq(Events)
           op == [p \in S \X A |-> eventq_queue_event(p[2], p[1], wait[p[1]])]
           Steps(f) == f = [R \in SUBSET S |-> IF R = {} THEN q0
                              ELSE eventq_queue_event(f[R \ {CHOOSE x \in R : TRUE}],
                                                      CHOOSE x \in R : TRUE,
                                                      wait[CHOOSE x \in R : TRUE])]
           Good(q, R) == q \in A /\ OneEach(q) /\ MergedIn(q0, q, {NewEvent(d, wait[d]) : d \in R})
<1>1. \A d \in S, q \in A : /\ op[<<d, q>>] = eventq_queue_event(q, d, wait[d])
                            /\ eventq_queue_event(q, d, wait[d]) \in A
  BY EventOne
<1>2. op \in [S \X A -> A]  BY EventOne
<1>3. \A R \in SUBSET S : R # {} => Some(R) \in R /\ Without(R) \in SUBSET S /\ Some(R) \in S
  BY DEF Some, Without
<1> HIDE DEF A, op
<1>4. \E f : Steps(f)
  <2>1. PICK f \in [SUBSET S -> A] : FoldsOver(f, S, q0, op)  BY <1>2, FoldExists DEF A
  <2>2. ASSUME NEW R \in SUBSET S
        PROVE  f[R] = IF R = {} THEN q0
                      ELSE eventq_queue_event(f[Without(R)], Some(R), wait[Some(R)])
    <3>1. f[R] = IF R = {} THEN q0 ELSE op[<<Some(R), f[Without(R)]>>]  BY <2>1 DEF FoldsOver
    <3>2. R # {} => op[<<Some(R), f[Without(R)]>>]
                      = eventq_queue_event(f[Without(R)], Some(R), wait[Some(R)])
      BY <1>1, <1>3
    <3>3. QED  BY <3>1, <3>2
  <2>3. f = [R \in SUBSET S |-> IF R = {} THEN q0
                              ELSE eventq_queue_event(f[R \ {CHOOSE x \in R : TRUE}],
                                                      CHOOSE x \in R : TRUE,
                                                      wait[CHOOSE x \in R : TRUE])]
    BY <2>2 DEF Some, Without
  <2>4. Steps(f)  BY <2>3
  <2> HIDE DEF Steps
  <2>5. QED  BY <2>4
<1>5. PICK f : Steps(f) /\ FoldSet(LAMBDA d, q : eventq_queue_event(q, d, wait[d]), q0, S) = f[S]
  BY <1>4 DEF FoldSet, MapThenFoldSet
<1>6. \A R \in SUBSET S : f[R] = IF R = {} THEN q0
                                 ELSE eventq_queue_event(f[Without(R)], Some(R), wait[Some(R)])
  BY <1>5 DEF Some, Without
<1> HIDE DEF Steps
<1> DEFINE G == {R \in SUBSET S : Good(f[R], R)}
<1>7. {} \in G
  <2>1. f[{}] = q0  BY <1>6
  <2>2. MergedIn(q0, q0, {})  BY DEF MergedIn
  <2>3. QED  BY <2>1, <2>2 DEF A
<1>8. ASSUME NEW R \in SUBSET S, R # {}, Without(R) \in G
      PROVE  R \in G
  <2> DEFINE q == f[Without(R)]
             d == Some(R)
             Y == {NewEvent(e, wait[e]) : e \in Without(R)}
  <2>1. Good(q, Without(R)) /\ f[R] = eventq_queue_event(q, d, wait[d])  BY <1>6, <1>8
  <2>2. d \in R /\ d \in S /\ d \in Descs /\ d \notin Without(R) /\ wait[d] \in Int
        /\ \A e \in Without(R) : e \in S /\ e # d
    BY <1>3, <1>8 DEF Without
  <2> HIDE DEF q, d
  <2>3. q \in Seq(Events) /\ OneEach(q) /\ MergedIn(q0, q, Y)  BY <2>1 DEF A
  <2>4. NoneOf(q, d)
    <3>1. SUFFICES ASSUME NEW i \in 1 .. Len(q), q[i].valid PROVE q[i].rs # d  BY DEF NoneOf
    <3>2. q[i] \in Y \/ \E k \in 1 .. Len(q0) : q[i] = q0[k]  BY <2>3 DEF MergedIn
    <3>3. CASE q[i] \in Y
      <4>1. PICK e \in Without(R) : q[i] = NewEvent(e, wait[e])  BY <3>3
      <4>2. q[i].rs = e  BY <4>1 DEF NewEvent
      <4>3. QED  BY <2>2, <4>2
    <3>4. CASE \E k \in 1 .. Len(q0) : q[i] = q0[k]  BY <2>2, <3>1, <3>4 DEF NoneOf
    <3>5. QED  BY <3>2, <3>3, <3>4
  <2> DEFINE r == eventq_queue_event(q, d, wait[d])
  <2>5. r \in Seq(Events) /\ OneEach(r) /\ MergedIn(q, r, {NewEvent(d, wait[d])})
    BY <2>2, <2>3, <2>4, EventOne
  <2> HIDE DEF r
  <2>6. MergedIn(q0, r, Y \cup {NewEvent(d, wait[d])})  BY <2>3, <2>5, MergedTwice
  <2>7. Y \cup {NewEvent(d, wait[d])} = {NewEvent(e, wait[e]) : e \in R}
    <3>1. R = Without(R) \cup {d}  BY <2>2 DEF Without, d
    <3>2. QED  BY <3>1
  <2>8. Good(r, R)  BY <2>5, <2>6, <2>7 DEF A
  <2>9. QED  BY <2>1, <2>8 DEF r
<1>9. S \in G
  <2> HIDE DEF G
  <2>1. QED  BY <1>7, <1>8, BySize
<1>10. QED  BY <1>5, <1>9 DEF A

-----------------------------------------------------------------------------
(***************************************************************************)
(* What is left of the window when the oldest and the youngest leave it.   *)
(***************************************************************************)

LEMMA Assumed ==
  /\ IsFiniteSet(Descs) /\ IsFiniteSet(Units) /\ NoDesc \notin Descs /\ NA \notin Regs
  /\ MaxLevel \in Nat /\ sim_has_bypass \in BOOLEAN
  /\ \A op \in Instructions :
       /\ op.in \in Regs \cup {NA} /\ op.out \in Regs \cup {NA} /\ op.mis_predict \in BOOLEAN
       /\ op.mis_predict => op.class = "IntBR"
       /\ oplat(op.class) \subseteq Nat
BY SchedulerAssumption DEF SchedulerAssumption

\* A descriptor that is in use is of type InstType, any other is NoInst.
LEMMA Fields ==
  ASSUME NEW s \in [Descs -> InstType \cup {NoInst}], NEW d \in Descs
  PROVE  /\ s[d] # NoInst => /\ s[d] \in InstType /\ s[d].op \in Instructions
                             /\ s[d].seq \in Nat /\ s[d].level \in Levels /\ s[d].level \in Nat
                             /\ s[d].idep_ready \in BOOLEAN /\ s[d].status \in Status
                             /\ s[d].fu \in Units \cup {NoDesc}
         /\ s[d].status \in Status => s[d] # NoInst
         /\ s[d].status # "free" => s[d] # NoInst
<1>1. \A x \in InstType : /\ x.op \in Instructions /\ x.seq \in Nat /\ x.level \in Levels
                          /\ x.idep_ready \in BOOLEAN /\ x.status \in Status
                          /\ x.fu \in Units \cup {NoDesc}
  BY DEF InstType
<1>2. NoInst.status = "free" /\ "free" \notin Status  BY DEF NoInst, Status
<1>3. \A l \in Levels : l \in Nat  BY DEF Levels
<1>4. s[d] \in InstType \cup {NoInst}  OBVIOUS
<1>5. QED  BY <1>1, <1>2, <1>3, <1>4

Similar(s, t, d) ==
  /\ t[d].op = s[d].op /\ t[d].seq = s[d].seq /\ t[d].level = s[d].level
  /\ t[d].idep_ready = s[d].idep_ready
  /\ DoneIn(t, d) <=> DoneIn(s, d)
  /\ OpenIn(t, d) => OpenIn(s, d)

\* The first a of f are done and leave it, those above level leave it at the end.
Keeps(f, s, g, t, a, level) ==
  /\ f \in Seq(Descs) /\ g \in Seq(Descs) /\ a \in Nat /\ a + Len(g) <= Len(f)
  /\ \A i \in 1 .. Len(g) : g[i] = f[a + i] /\ Similar(s, t, g[i])
  /\ \A i \in 1 .. a : DoneIn(s, f[i])
  /\ level \in Nat
  /\ \A k \in a + Len(g) + 1 .. Len(f) : s[f[k]].level \in Nat /\ level < s[f[k]].level

LEMMA SourceKept ==
  ASSUME NEW f, NEW s, NEW g, NEW t, NEW a, NEW level, Keeps(f, s, g, t, a, level),
         NEW i \in 1 .. Len(g), NEW j \in 1 .. Len(g)
  PROVE  Source(g, t, j, i) <=> Source(f, s, a + j, a + i)
<1>1. /\ a \in Nat /\ Len(g) \in Nat
      /\ \A k \in 1 .. Len(g) : g[k] = f[a + k] /\ t[g[k]].op = s[f[a + k]].op
  BY LenProperties DEF Keeps, Similar
<1>2. ASSUME NEW k \in j + 1 .. i - 1
      PROVE  a + k \in (a + j) + 1 .. (a + i) - 1 /\ k \in 1 .. Len(g)
  BY <1>1
<1>3. ASSUME NEW k \in (a + j) + 1 .. (a + i) - 1
      PROVE  k - a \in j + 1 .. i - 1 /\ k - a \in 1 .. Len(g) /\ a + (k - a) = k
  BY <1>1
<1>4. ASSUME Source(g, t, j, i) PROVE Source(f, s, a + j, a + i)
  <2>1. ASSUME NEW k \in (a + j) + 1 .. (a + i) - 1 PROVE s[f[k]].op.out # s[f[a + i]].op.in
    <3>1. k - a \in j + 1 .. i - 1 /\ k - a \in 1 .. Len(g) /\ a + (k - a) = k  BY <1>3
    <3>2. t[g[k - a]].op.out # t[g[i]].op.in  BY <1>4, <3>1 DEF Source
    <3>3. t[g[k - a]].op = s[f[k]].op  BY <1>1, <3>1
    <3>4. QED  BY <1>1, <3>2, <3>3
  <2>2. QED  BY <1>1, <1>4, <2>1 DEF Source
<1>5. ASSUME Source(f, s, a + j, a + i) PROVE Source(g, t, j, i)
  <2>1. ASSUME NEW k \in j + 1 .. i - 1 PROVE t[g[k]].op.out # t[g[i]].op.in
    BY <1>1, <1>2, <1>5 DEF Source
  <2>2. QED  BY <1>1, <1>5, <2>1 DEF Source
<1>6. QED  BY <1>4, <1>5

LEMMA OperandsKept ==
  ASSUME NEW f, NEW s, NEW g, NEW t, NEW a, NEW level, Keeps(f, s, g, t, a, level),
         Operands(f, s)
  PROVE  Operands(g, t)
<1>1. /\ a \in Nat /\ Len(g) \in Nat /\ Len(f) \in Nat /\ a + Len(g) <= Len(f)
      /\ \A k \in 1 .. Len(g) : g[k] = f[a + k] /\ Similar(s, t, g[k])
      /\ \A k \in 1 .. a : DoneIn(s, f[k])
  BY LenProperties DEF Keeps
<1>2. SUFFICES ASSUME NEW i \in 1 .. Len(g)
               PROVE  t[g[i]].idep_ready <=> \A j \in 1 .. i - 1 : Source(g, t, j, i) => DoneIn(t, g[j])
  BY DEF Operands
<1>3. a + i \in 1 .. Len(f)  BY <1>1
<1>4. s[f[a + i]].idep_ready <=>
        \A j \in 1 .. (a + i) - 1 : Source(f, s, j, a + i) => DoneIn(s, f[j])
  BY <1>3 DEF Operands
<1>5. t[g[i]].idep_ready = s[f[a + i]].idep_ready  BY <1>1 DEF Similar
<1>6. ASSUME \A j \in 1 .. (a + i) - 1 : Source(f, s, j, a + i) => DoneIn(s, f[j]),
             NEW j \in 1 .. i - 1, Source(g, t, j, i)
      PROVE  DoneIn(t, g[j])
  <2>1. j \in 1 .. Len(g) /\ a + j \in 1 .. (a + i) - 1  BY <1>1
  <2>2. Source(f, s, a + j, a + i)  BY <1>6, <2>1, SourceKept
  <2>3. QED  BY <1>1, <1>6, <2>1, <2>2 DEF Similar
<1>7. ASSUME \A j \in 1 .. i - 1 : Source(g, t, j, i) => DoneIn(t, g[j]),
             NEW j \in 1 .. (a + i) - 1, Source(f, s, j, a + i)
      PROVE  DoneIn(s, f[j])
  <2>1. CASE j <= a  BY <1>1, <2>1
  <2>2. CASE ~ (j <= a)
    <3>1. j - a \in 1 .. i - 1 /\ j - a \in 1 .. Len(g) /\ a + (j - a) = j  BY <1>1, <2>2
    <3>2. Source(g, t, j - a, i)  BY <1>7, <3>1, SourceKept
    <3>3. QED  BY <1>1, <1>7, <3>1, <3>2 DEF Similar
  <2>3. QED  BY <2>1, <2>2
<1>8. QED  BY <1>4, <1>5, <1>6, <1>7

LEMMA CreatesKept ==
  ASSUME NEW f, NEW s, NEW g, NEW t, NEW a, NEW level, Keeps(f, s, g, t, a, level),
         NEW l \in 0 .. level, NEW r, NEW j \in 1 .. Len(g)
  PROVE  Creates(g, t, l, r, j) <=> Creates(f, s, l, r, a + j)
<1>1. /\ a \in Nat /\ Len(g) \in Nat /\ Len(f) \in Nat /\ a + Len(g) <= Len(f)
      /\ \A k \in 1 .. Len(g) : g[k] = f[a + k] /\ t[g[k]].op = s[f[a + k]].op
                                /\ t[g[k]].level = s[f[a + k]].level
      /\ level \in Nat
      /\ \A k \in a + Len(g) + 1 .. Len(f) : s[f[k]].level \in Nat /\ level < s[f[k]].level
  BY LenProperties DEF Keeps, Similar
<1>2. ASSUME Creates(g, t, l, r, j) PROVE Creates(f, s, l, r, a + j)
  <2>1. ASSUME NEW k \in (a + j) + 1 .. Len(f), s[f[k]].op.out = r PROVE s[f[k]].level > l
    <3>1. CASE k <= a + Len(g)
      <4>1. k - a \in j + 1 .. Len(g) /\ k - a \in 1 .. Len(g) /\ a + (k - a) = k  BY <1>1, <3>1
      <4>2. t[g[k - a]].op.out = r => t[g[k - a]].level > l  BY <1>2, <4>1 DEF Creates
      <4>3. QED  BY <1>1, <2>1, <4>1, <4>2
    <3>2. CASE ~ (k <= a + Len(g))
      <4>1. k \in a + Len(g) + 1 .. Len(f)  BY <1>1, <3>2
      <4>2. QED  BY <1>1, <4>1
    <3>3. QED  BY <3>1, <3>2
  <2>2. QED  BY <1>1, <1>2, <2>1 DEF Creates
<1>3. ASSUME Creates(f, s, l, r, a + j) PROVE Creates(g, t, l, r, j)
  <2>1. ASSUME NEW k \in j + 1 .. Len(g), t[g[k]].op.out = r PROVE t[g[k]].level > l
    <3>1. k \in 1 .. Len(g) /\ a + k \in (a + j) + 1 .. Len(f)  BY <1>1
    <3>2. QED  BY <1>1, <1>3, <2>1, <3>1 DEF Creates
  <2>2. QED  BY <1>1, <1>3, <2>1 DEF Creates
<1>4. QED  BY <1>2, <1>3

LEMMA CreatorsKept ==
  ASSUME NEW f, NEW s, NEW g, NEW t, NEW a, NEW level, Keeps(f, s, g, t, a, level),
         NEW cv, NEW above \in Nat, level <= above, Creators(f, s, cv, above)
  PROVE  Creators(g, t, cv, level)
<1>1. /\ a \in Nat /\ Len(g) \in Nat /\ Len(f) \in Nat /\ a + Len(g) <= Len(f) /\ level \in Nat
      /\ \A k \in 1 .. Len(g) : g[k] = f[a + k] /\ (DoneIn(t, g[k]) <=> DoneIn(s, f[a + k]))
      /\ \A k \in 1 .. a : DoneIn(s, f[k])
      /\ \A k \in a + Len(g) + 1 .. Len(f) : s[f[k]].level \in Nat /\ level < s[f[k]].level
  BY LenProperties DEF Keeps, Similar
<1>2. SUFFICES ASSUME NEW l \in 0 .. level, NEW r \in Regs
               PROVE  /\ \A j \in 1 .. Len(g) :
                           Creates(g, t, l, r, j) => cv[l][r] = IF DoneIn(t, g[j]) THEN NoDesc ELSE g[j]
                      /\ cv[l][r] # NoDesc => \E j \in 1 .. Len(g) : Creates(g, t, l, r, j)
  BY DEF Creators
<1>3. l \in 0 .. above  BY <1>1
<1>4. /\ \A j \in 1 .. Len(f) :
           Creates(f, s, l, r, j) => cv[l][r] = IF DoneIn(s, f[j]) THEN NoDesc ELSE f[j]
      /\ cv[l][r] # NoDesc => \E j \in 1 .. Len(f) : Creates(f, s, l, r, j)
  BY <1>3 DEF Creators
<1>5. ASSUME NEW j \in 1 .. Len(g), Creates(g, t, l, r, j)
      PROVE  cv[l][r] = IF DoneIn(t, g[j]) THEN NoDesc ELSE g[j]
  <2>1. Creates(f, s, l, r, a + j)  BY <1>5, CreatesKept
  <2>3. a + j \in 1 .. Len(f)  BY <1>1
  <2>2. QED  BY <1>1, <1>4, <2>1
<1>6. ASSUME cv[l][r] # NoDesc PROVE \E j \in 1 .. Len(g) : Creates(g, t, l, r, j)
  <2>1. PICK j \in 1 .. Len(f) : Creates(f, s, l, r, j)  BY <1>4, <1>6
  <2>2. ~ (j <= a)  BY <1>1, <1>4, <1>6, <2>1
  <2>3. ~ (j > a + Len(g))
    <3>1. SUFFICES ASSUME j > a + Len(g) PROVE FALSE  OBVIOUS
    <3>2. j \in a + Len(g) + 1 .. Len(f)  BY <1>1, <3>1
    <3>3. s[f[j]].level <= l  BY <2>1 DEF Creates
    <3>4. QED  BY <1>1, <3>2, <3>3
  <2>4. j - a \in 1 .. Len(g) /\ a + (j - a) = j  BY <1>1, <2>2, <2>3
  <2>5. Creates(g, t, l, r, j - a)  BY <2>1, <2>4, CreatesKept
  <2>6. QED  BY <2>4, <2>5
<1>7. QED  BY <1>5, <1>6

\* Only those that leave the window lose their lists (freed) or become invalid
\* in others (S), the youngest both.
Leaving(f, g, a, freed, S) ==
  /\ freed \cup S \subseteq {f[i] : i \in {i \in 1 .. Len(f) : i <= a \/ i > a + Len(g)}}
  /\ \A i \in 1 .. Len(f) : i > a + Len(g) => f[i] \in freed /\ f[i] \in S

Distinct(f) == \A i \in 1 .. Len(f) : \A j \in i + 1 .. Len(f) : f[i] # f[j]
Pruned(o, freed, S) ==
  [d \in Descs |-> IF d \in freed THEN {} ELSE {Outdated(link, S) : link \in o[d]}]

LEMMA AwaitedKept ==
  ASSUME NEW f, NEW s, NEW g, NEW t, NEW a, NEW level, Keeps(f, s, g, t, a, level),
         NEW freed, NEW S, Leaving(f, g, a, freed, S), Distinct(f),
         NEW o \in [Descs -> SUBSET Waiters], Awaited(f, s, o),
         \A i \in 1 .. Len(g) : t[g[i]] # NoInst,
         \A d \in Descs : s[d] # NoInst => \E i \in 1 .. Len(f) : d = f[i]
  PROVE  Awaited(g, t, Pruned(o, freed, S))
<1> DEFINE p == Pruned(o, freed, S)
<1>1. /\ a \in Nat /\ Len(g) \in Nat /\ Len(f) \in Nat /\ a + Len(g) <= Len(f)
      /\ \A k \in 1 .. Len(g) : g[k] = f[a + k] /\ (DoneIn(t, g[k]) <=> DoneIn(s, f[a + k]))
      /\ \A k \in 1 .. Len(f) : f[k] \in Descs
  BY LenProperties, ElementOfSeq DEF Keeps, Similar
<1>2. /\ \A d \in Descs : \A link \in o[d] : link.valid =>
           \E i \in 1 .. Len(f), j \in 1 .. Len(f) :
             j < i /\ f[j] = d /\ f[i] = link.rs /\ Source(f, s, j, i)
      /\ \A i \in 1 .. Len(f), j \in 1 .. Len(f) :
           j < i /\ Source(f, s, j, i) /\ ~ DoneIn(s, f[j]) =>
             [rs |-> f[i], valid |-> TRUE] \in o[f[j]]
      /\ \A d \in Descs : o[d] # {} => s[d] # NoInst /\ ~ DoneIn(s, d)
  BY DEF Awaited
<1>3. /\ \A i \in 1 .. Len(f) : i > a + Len(g) => f[i] \in freed /\ f[i] \in S
      /\ \A i \in 1 .. a : DoneIn(s, f[i])
  BY DEF Leaving, Keeps
<1>4. \A i \in 1 .. Len(f) : f[i] \in freed \cup S => i <= a \/ i > a + Len(g)
  <2>1. SUFFICES ASSUME NEW i \in 1 .. Len(f), f[i] \in freed \cup S
                 PROVE  i <= a \/ i > a + Len(g)
    OBVIOUS
  <2>2. PICK k \in 1 .. Len(f) : f[k] = f[i] /\ (k <= a \/ k > a + Len(g))  BY <2>1 DEF Leaving
  <2>3. k = i \/ k \in i + 1 .. Len(f) \/ i \in k + 1 .. Len(f)  BY <1>1
  <2>4. k = i  BY <2>2, <2>3 DEF Distinct
  <2>5. QED  BY <2>2, <2>4
<1>5. \A d \in Descs : p[d] = IF d \in freed THEN {} ELSE {Outdated(link, S) : link \in o[d]}
  BY DEF Pruned
<1> HIDE DEF p
<1>6. ASSUME NEW d \in Descs, NEW new \in p[d], new.valid
      PROVE  \E i \in 1 .. Len(g), j \in 1 .. Len(g) :
               j < i /\ g[j] = d /\ g[i] = new.rs /\ Source(g, t, j, i)
  <2>1. d \notin freed  BY <1>5, <1>6
  <2>10. p[d] = {Outdated(link, S) : link \in o[d]}  BY <1>5, <2>1
  <2>2. PICK link \in o[d] : new = Outdated(link, S)  BY <1>6, <2>10
  <2>3. link \in Waiters  OBVIOUS
  <2>4. new = link /\ link.rs \notin S /\ link.valid
    <3>1. [link EXCEPT !.valid = FALSE].valid = FALSE  BY <2>3 DEF Waiters
    <3>2. QED  BY <1>6, <2>2, <3>1 DEF Outdated
  <2>5. PICK i \in 1 .. Len(f), j \in 1 .. Len(f) :
               j < i /\ f[j] = d /\ f[i] = link.rs /\ Source(f, s, j, i)
    BY <1>2, <2>4
  <2>11. ~ DoneIn(s, d)  BY <1>2
  <2>6. ~ (j <= a) /\ ~ (i > a + Len(g))  BY <1>3, <2>4, <2>5, <2>11
  <2>7. /\ i - a \in 1 .. Len(g) /\ j - a \in 1 .. Len(g) /\ j - a < i - a
        /\ a + (i - a) = i /\ a + (j - a) = j
    BY <1>1, <2>5, <2>6
  <2>8. Source(g, t, j - a, i - a)  BY <2>5, <2>7, SourceKept
  <2>9. QED  BY <1>1, <2>4, <2>5, <2>7, <2>8
<1>7. ASSUME NEW i \in 1 .. Len(g), NEW j \in 1 .. Len(g),
             j < i, Source(g, t, j, i), ~ DoneIn(t, g[j])
      PROVE  [rs |-> g[i], valid |-> TRUE] \in p[g[j]]
  <2> DEFINE link == [rs |-> g[i], valid |-> TRUE]
  <2>1. /\ a + i \in 1 .. Len(f) /\ a + j \in 1 .. Len(f) /\ a + j < a + i
        /\ ~ (a + i <= a) /\ ~ (a + i > a + Len(g)) /\ ~ (a + j <= a) /\ ~ (a + j > a + Len(g))
    BY <1>1, <1>7
  <2>2. Source(f, s, a + j, a + i)  BY <1>7, SourceKept
  <2>3. link \in o[f[a + j]]  BY <1>1, <1>2, <1>7, <2>1, <2>2
  <2>4. f[a + j] \notin freed /\ f[a + i] \notin S  BY <1>4, <2>1
  <2>5. Outdated(link, S) = link  BY <1>1, <2>4 DEF Outdated
  <2> HIDE DEF link
  <2>6. g[j] = f[a + j] /\ g[j] \in Descs  BY <1>1, <2>1
  <2>7. p[g[j]] = {Outdated(x, S) : x \in o[g[j]]}  BY <1>5, <2>4, <2>6
  <2>8. Outdated(link, S) \in p[g[j]]  BY <2>3, <2>6, <2>7
  <2>9. QED  BY <2>5, <2>8 DEF link
<1>8. ASSUME NEW d \in Descs, p[d] # {}
      PROVE  t[d] # NoInst /\ ~ DoneIn(t, d)
  <2>1. d \notin freed /\ o[d] # {}
    <3>1. p[d] = IF d \in freed THEN {} ELSE {Outdated(link, S) : link \in o[d]}  BY <1>5
    <3>2. QED  BY <1>8, <3>1
  <2>2. PICK i \in 1 .. Len(f) : d = f[i]  BY <1>2, <2>1
  <2>7. ~ DoneIn(s, d)  BY <1>2, <2>1
  <2>3. i - a \in 1 .. Len(g) /\ a + (i - a) = i  BY <1>1, <1>3, <2>1, <2>2, <2>7
  <2>4. g[i - a] = d /\ t[g[i - a]] # NoInst /\ (DoneIn(t, g[i - a]) <=> DoneIn(s, d))
    BY <1>1, <2>2, <2>3
  <2>6. QED  BY <2>4, <2>7
<1>9. QED  BY <1>6, <1>7, <1>8 DEF Awaited, p

LEMMA IncreasingKept ==
  ASSUME NEW f, NEW s, NEW g, NEW t, NEW a, NEW level, Keeps(f, s, g, t, a, level),
         Increasing(f, s)
  PROVE  Increasing(g, t)
<1>1. /\ a \in Nat /\ Len(g) \in Nat /\ Len(f) \in Nat /\ a + Len(g) <= Len(f)
      /\ \A k \in 1 .. Len(g) : g[k] = f[a + k] /\ Similar(s, t, g[k])
  BY LenProperties DEF Keeps
<1>2. SUFFICES ASSUME NEW i \in 1 .. Len(g), NEW j \in i + 1 .. Len(g)
               PROVE  /\ g[i] # g[j] /\ t[g[i]].seq < t[g[j]].seq /\ t[g[i]].level <= t[g[j]].level
                      /\ OpenIn(t, g[i]) => t[g[i]].level < t[g[j]].level
  BY DEF Increasing
<1>3. j \in 1 .. Len(g) /\ a + i \in 1 .. Len(f) /\ a + j \in (a + i) + 1 .. Len(f)  BY <1>1
<1>4. g[i] = f[a + i] /\ g[j] = f[a + j] /\ Similar(s, t, g[i]) /\ Similar(s, t, g[j])
  BY <1>1, <1>3
<1>5. /\ f[a + i] # f[a + j] /\ s[f[a + i]].seq < s[f[a + j]].seq
      /\ s[f[a + i]].level <= s[f[a + j]].level
      /\ OpenIn(s, f[a + i]) => s[f[a + i]].level < s[f[a + j]].level
  BY <1>3 DEF Increasing
<1>6. QED  BY <1>4, <1>5 DEF Similar

-----------------------------------------------------------------------------
(***************************************************************************)
(* What a squash leaves in the queues.                                     *)
(***************************************************************************)

LEMMA OutdatedLink ==
  ASSUME NEW link \in Links, NEW S
  PROVE  /\ Outdated(link, S) \in Links /\ Outdated(link, S).rs = link.rs
         /\ Outdated(link, S).seq = link.seq /\ Outdated(link, S).next = link.next
         /\ Outdated(link, S).valid <=> link.valid /\ link.rs \notin S
BY DEF Outdated, Links

LEMMA OutdatedEvent ==
  ASSUME NEW link \in Events, NEW S
  PROVE  /\ Outdated(link, S) \in Events /\ Outdated(link, S).rs = link.rs
         /\ Outdated(link, S).valid <=> link.valid /\ link.rs \notin S
BY DEF Outdated, Events

\* No two descriptors in use have the same number.
OneNumber(s) ==
  \A d \in Descs, e \in Descs : s[d] # NoInst /\ s[e] # NoInst /\ d # e => s[d].seq # s[e].seq

\* Those of S are not in use any more, what is in use keeps its number.
NumbersKept(s, t, S) ==
  \A d \in Descs : t[d] # NoInst => s[d] # NoInst /\ t[d].seq = s[d].seq /\ d \notin S

UsedOnly(s) == \A d \in Descs : s[d].status # "free" => s[d] # NoInst
ReadyKept(s, t, S) ==
  \A u \in Units, d \in Descs : Ready(t, u, d) <=> Ready(s, u, d) /\ d \notin S
IssuedKept(s, t, S) ==
  \A d \in Descs : t[d].status = "issued" <=> s[d].status = "issued" /\ d \notin S

LEMMA ReadiesKept ==
  ASSUME NEW q \in Seq(Links), NEW u \in Units, NEW s, NEW t, NEW S, Readies(q, u, s),
         OneNumber(s), NumbersKept(s, t, S), ReadyKept(s, t, S), UsedOnly(s), UsedOnly(t)
  PROVE  LET r == [i \in DOMAIN q |-> Outdated(q[i], S)]
         IN  r \in Seq(Links) /\ Readies(r, u, t)
<1> DEFINE r == [i \in DOMAIN q |-> Outdated(q[i], S)]
<1>1. DOMAIN q = 1 .. Len(q) /\ Len(q) \in Nat  BY LenProperties
<1>2. \A i \in 1 .. Len(q) : q[i] \in Links  BY ElementOfSeq
<1>3. \A i \in 1 .. Len(q) :
        /\ r[i] \in Links /\ r[i].rs = q[i].rs /\ r[i].seq = q[i].seq /\ r[i].next = q[i].next
        /\ r[i].valid <=> q[i].valid /\ q[i].rs \notin S
  BY <1>1, <1>2, OutdatedLink
<1>4. r \in Seq(Links) /\ Len(r) = Len(q)
  <2>1. r = [i \in 1 .. Len(q) |-> r[i]]  BY <1>1
  <2> HIDE DEF r
  <2>2. r \in [1 .. Len(q) -> Links]  BY <1>3, <2>1
  <2>3. QED  BY <1>1, <2>2, SeqDef, LenProperties
<1> HIDE DEF r
<1>5. \A i \in 1 .. Len(q) : q[i].rs \in Descs
  <2>1. \A link \in Links : link.rs \in Descs  BY DEF Links
  <2>2. QED  BY <1>2, <2>1
<1>11. \A d \in Descs : /\ Ready(t, u, d) <=> Ready(s, u, d) /\ d \notin S
                        /\ Ready(s, u, d) => s[d] # NoInst
                        /\ Ready(t, u, d) => t[d] # NoInst
  BY DEF ReadyKept, UsedOnly, Ready
<1>6. ASSUME NEW k \in 1 .. Len(q)
      PROVE  IF r[k].valid THEN Ready(t, u, r[k].rs) /\ t[r[k].rs].seq = r[k].seq
             ELSE \A d \in Descs : t[d] # NoInst => t[d].seq # r[k].seq
  <2>1. CASE q[k].valid /\ q[k].rs \notin S
    <3>1. Ready(s, u, q[k].rs) /\ s[q[k].rs].seq = q[k].seq  BY <2>1 DEF Readies
    <3>2. Ready(t, u, q[k].rs) /\ t[q[k].rs].seq = q[k].seq
      BY <1>5, <1>11, <2>1, <3>1 DEF NumbersKept
    <3>3. QED  BY <1>3, <2>1, <3>2
  <2>2. CASE q[k].valid /\ q[k].rs \in S
    <3>1. Ready(s, u, q[k].rs) /\ s[q[k].rs].seq = q[k].seq /\ s[q[k].rs] # NoInst
      BY <1>5, <1>11, <2>2 DEF Readies
    <3>2. ASSUME NEW d \in Descs, t[d] # NoInst PROVE t[d].seq # q[k].seq
      <4>1. s[d] # NoInst /\ t[d].seq = s[d].seq /\ d # q[k].rs  BY <2>2, <3>2 DEF NumbersKept
      <4>2. QED  BY <1>5, <3>1, <4>1 DEF OneNumber
    <3>3. QED  BY <1>3, <2>2, <3>2
  <2>3. CASE ~ q[k].valid
    <3>1. \A d \in Descs : s[d] # NoInst => s[d].seq # q[k].seq  BY <2>3 DEF Readies
    <3>2. QED  BY <1>3, <2>3, <3>1 DEF NumbersKept
  <2>4. QED  BY <2>1, <2>2, <2>3
<1>7. ASSUME NEW d \in Descs, Ready(t, u, d)
      PROVE  \E k \in 1 .. Len(q) : r[k].valid /\ r[k].rs = d
  <2>3. Ready(s, u, d) /\ d \notin S  BY <1>7, <1>11
  <2>1. PICK k \in 1 .. Len(q) : q[k].valid /\ q[k].rs = d  BY <2>3 DEF Readies
  <2>2. QED  BY <1>3, <2>1, <2>3
<1>8. BySeq(r) /\ OneNext(r)
  <2>1. BySeq(q) /\ OneNext(q)  BY DEF Readies
  <2>2. \A k \in 1 .. Len(q) : \A i \in k + 1 .. Len(q) : i \in 1 .. Len(q)  BY <1>1
  <2>3. QED  BY <1>3, <1>4, <2>1, <2>2 DEF BySeq, OneNext
<1>9. Readies(r, u, t)  BY <1>4, <1>6, <1>7, <1>8 DEF Readies
<1>10. QED  BY <1>4, <1>9 DEF r

LEMMA RunningKept ==
  ASSUME NEW q \in Seq(Events), NEW s, NEW t, NEW S, Running(q, s), IssuedKept(s, t, S)
  PROVE  LET r == [i \in DOMAIN q |-> Outdated(q[i], S)]
         IN  r \in Seq(Events) /\ Running(r, t)
<1> DEFINE r == [i \in DOMAIN q |-> Outdated(q[i], S)]
<1>1. DOMAIN q = 1 .. Len(q) /\ Len(q) \in Nat  BY LenProperties
<1>2. \A i \in 1 .. Len(q) : q[i] \in Events  BY ElementOfSeq
<1>3. \A i \in 1 .. Len(q) :
        /\ r[i] \in Events /\ r[i].rs = q[i].rs
        /\ r[i].valid <=> q[i].valid /\ q[i].rs \notin S
  BY <1>1, <1>2, OutdatedEvent
<1>4. r \in Seq(Events) /\ Len(r) = Len(q)
  <2>1. r = [i \in 1 .. Len(q) |-> r[i]]  BY <1>1
  <2> HIDE DEF r
  <2>2. r \in [1 .. Len(q) -> Events]  BY <1>3, <2>1
  <2>3. QED  BY <1>1, <2>2, SeqDef, LenProperties
<1> HIDE DEF r
<1>5. \A i \in 1 .. Len(q) : q[i].rs \in Descs
  <2>1. \A link \in Events : link.rs \in Descs  BY DEF Events
  <2>2. QED  BY <1>2, <2>1
<1>11. \A d \in Descs : t[d].status = "issued" <=> s[d].status = "issued" /\ d \notin S
  BY DEF IssuedKept
<1>6. \A k \in 1 .. Len(q) : r[k].valid => t[r[k].rs].status = "issued"
  BY <1>3, <1>5, <1>11 DEF Running
<1>7. ASSUME NEW d \in Descs, t[d].status = "issued"
      PROVE  \E k \in 1 .. Len(q) : r[k].valid /\ r[k].rs = d
  <2>3. s[d].status = "issued" /\ d \notin S  BY <1>7, <1>11
  <2>1. PICK k \in 1 .. Len(q) : q[k].valid /\ q[k].rs = d  BY <2>3 DEF Running
  <2>2. QED  BY <1>3, <2>1, <2>3
<1>8. OneEach(r)
  <2>1. OneEach(q)  BY DEF Running
  <2>2. \A k \in 1 .. Len(q) : \A i \in k + 1 .. Len(q) : i \in 1 .. Len(q)  BY <1>1
  <2>3. QED  BY <1>3, <1>4, <2>1, <2>2 DEF OneEach
<1>9. Running(r, t)  BY <1>4, <1>6, <1>7, <1>8 DEF Running
<1>10. QED  BY <1>4, <1>9 DEF r

ReadyAdded(t, u, D) == \A d \in Descs : Ready(t, u, d) <=> Ready(inst, u, d) \/ d \in D

\* readyq_enqueue for D, whose instructions become ready.
LEMMA ReadiesMerged ==
  ASSUME NEW q \in Seq(Links), NEW r \in Seq(Links), NEW u, NEW t, NEW D \in SUBSET Descs,
         Readies(q, u, inst), BySeq(r), MergedIn(q, r, {NewLink(d) : d \in D}),
         NumbersKept(inst, t, {}), UsedOnly(t), ReadyAdded(t, u, D)
  PROVE  Readies(r, u, t)
<1>1. Len(q) \in Nat /\ Len(r) \in Nat  BY LenProperties
<1>2. \A i \in 1 .. Len(q) : q[i] \in Links /\ q[i].seq \in Nat /\ q[i].rs \in Descs
  <2>1. \A link \in Links : link.seq \in Nat /\ link.rs \in Descs  BY DEF Links
  <2>2. \A i \in 1 .. Len(q) : q[i] \in Links  BY ElementOfSeq
  <2>3. QED  BY <2>1, <2>2
<1>3. /\ \A k \in 1 .. Len(r) :
           (\E d \in D : r[k] = NewLink(d)) \/ \E i \in 1 .. Len(q) : r[k] = q[i]
      /\ \A d \in D : \E k \in 1 .. Len(r) : r[k] = NewLink(d)
      /\ \A i \in 1 .. Len(q) : \E k \in 1 .. Len(r) : r[k] = q[i]
  BY DEF MergedIn
<1>9. \A d \in Descs : /\ Ready(t, u, d) <=> Ready(inst, u, d) \/ d \in D
                       /\ Ready(t, u, d) => t[d] # NoInst
  BY DEF ReadyAdded, UsedOnly, Ready
<1>4. \A d \in D : /\ NewLink(d).rs = d /\ NewLink(d).seq = inst[d].seq
                   /\ NewLink(d).valid = TRUE /\ NewLink(d).next = FALSE
  BY DEF NewLink
<1>5. ASSUME NEW k \in 1 .. Len(r)
      PROVE  IF r[k].valid THEN Ready(t, u, r[k].rs) /\ t[r[k].rs].seq = r[k].seq
             ELSE \A d \in Descs : t[d] # NoInst => t[d].seq # r[k].seq
  <2>1. CASE \E d \in D : r[k] = NewLink(d)
    <3>1. PICK d \in D : r[k] = NewLink(d)  BY <2>1
    <3>2. Ready(t, u, d) /\ t[d].seq = inst[d].seq  BY <1>9 DEF NumbersKept
    <3>3. QED  BY <1>4, <3>1, <3>2
  <2>2. CASE \E i \in 1 .. Len(q) : r[k] = q[i]
    <3>1. PICK i \in 1 .. Len(q) : r[k] = q[i]  BY <2>2
    <3>2. CASE q[i].valid
      <4>1. Ready(inst, u, q[i].rs) /\ inst[q[i].rs].seq = q[i].seq  BY <3>2 DEF Readies
      <4>2. Ready(t, u, q[i].rs) /\ t[q[i].rs].seq = q[i].seq
        BY <1>2, <1>9, <4>1 DEF NumbersKept
      <4>3. QED  BY <3>1, <3>2, <4>2
    <3>3. CASE ~ q[i].valid
      <4>1. \A d \in Descs : inst[d] # NoInst => inst[d].seq # q[i].seq  BY <3>3 DEF Readies
      <4>2. QED  BY <3>1, <3>3, <4>1 DEF NumbersKept
    <3>4. QED  BY <3>2, <3>3
  <2>3. QED  BY <1>3, <2>1, <2>2
<1>6. ASSUME NEW d \in Descs, Ready(t, u, d)
      PROVE  \E k \in 1 .. Len(r) : r[k].valid /\ r[k].rs = d
  <2>1. CASE d \in D
    <3>1. PICK k \in 1 .. Len(r) : r[k] = NewLink(d)  BY <1>3, <2>1
    <3>2. r[k].valid = TRUE /\ r[k].rs = d  BY <1>4, <2>1, <3>1
    <3>3. QED  BY <3>2
  <2>2. CASE Ready(inst, u, d)
    <3>1. PICK i \in 1 .. Len(q) : q[i].valid /\ q[i].rs = d  BY <2>2 DEF Readies
    <3>2. QED  BY <1>3, <3>1
  <2>3. QED  BY <1>6, <1>9, <2>1, <2>2
<1>7. OneNext(r)
  <2>1. SUFFICES ASSUME NEW k \in 1 .. Len(r), NEW i \in k + 1 .. Len(r), r[k].next, r[i].next
                 PROVE  FALSE
    BY DEF OneNext
  <2>2. i \in 1 .. Len(r)  BY <1>1
  <2>3. \A j \in 1 .. Len(r) : r[j].next => \E h \in 1 .. Len(q) : r[j] = q[h]  BY <1>3, <1>4
  <2>4. PICK k0 \in 1 .. Len(q) : r[k] = q[k0]  BY <2>1, <2>3
  <2>5. PICK i0 \in 1 .. Len(q) : r[i] = q[i0]  BY <2>1, <2>2, <2>3
  <2>6. q[k0].seq < q[i0].seq  BY <2>4, <2>5 DEF BySeq
  <2>7. k0 # i0  BY <1>2, <2>6
  <2>8. i0 \in k0 + 1 .. Len(q) \/ k0 \in i0 + 1 .. Len(q)  BY <1>1, <2>7
  <2>9. OneNext(q)  BY DEF Readies
  <2>10. QED  BY <2>1, <2>4, <2>5, <2>8, <2>9 DEF OneNext
<1>8. QED  BY <1>5, <1>6, <1>7 DEF Readies

OperationsKept(t, S) ==
  \A d \in Descs : inst[d].status = "issued" /\ d \notin S =>
    t[d].status = "issued" /\ t[d].op = inst[d].op /\ t[d].fu = inst[d].fu

LEMMA InUseKept ==
  ASSUME NEW b, NEW t, NEW S, InUse(b, inst), OperationsKept(t, S)
  PROVE  InUse([u \in Units |-> b[u] /\ u \notin DivUnits(S)], t)
<1>1. SUFFICES ASSUME NEW u \in Units, b[u], u \notin DivUnits(S)
               PROVE  \E d \in Descs : t[d].status = "issued" /\ t[d].op.class = "IntDIV" /\ t[d].fu = u
  BY DEF InUse
<1>2. PICK d \in Descs : inst[d].status = "issued" /\ inst[d].op.class = "IntDIV" /\ inst[d].fu = u
  BY <1>1 DEF InUse
<1>3. d \notin S  BY <1>1, <1>2 DEF DivUnits, IsDiv
<1>4. QED  BY <1>2, <1>3 DEF OperationsKept

-----------------------------------------------------------------------------
(***************************************************************************)
(* The window and what is in use.                                          *)
(***************************************************************************)

LEMMA Elements ==
  ASSUME NEW A, NEW q \in Seq(A)
  PROVE  Range(q) = {q[i] : i \in 1 .. Len(q)}
BY LenProperties DEF Range

\* Instructions that are not mapped come behind those that are.
LEMMA Joined ==
  ASSUME NEW A, NEW x \in Seq(A), NEW y \in Seq(A)
  PROVE  /\ x \o y \in Seq(A) /\ Len(x \o y) = Len(x) + Len(y)
         /\ \A i \in 1 .. Len(x) : (x \o y)[i] = x[i]
         /\ \A i \in 1 .. Len(y) : (x \o y)[Len(x) + i] = y[i]
<1>1. Len(x) \in Nat /\ Len(y) \in Nat  BY LenProperties
<1>2. /\ x \o y \in Seq(A) /\ Len(x \o y) = Len(x) + Len(y)
      /\ \A i \in 1 .. Len(x) + Len(y) : (x \o y)[i] = IF i <= Len(x) THEN x[i] ELSE y[i - Len(x)]
  BY ConcatProperties
<1>3. \A i \in 1 .. Len(x) : i \in 1 .. Len(x) + Len(y) /\ i <= Len(x)  BY <1>1
<1>4. \A i \in 1 .. Len(y) : /\ Len(x) + i \in 1 .. Len(x) + Len(y) /\ ~ (Len(x) + i <= Len(x))
                             /\ (Len(x) + i) - Len(x) = i
  BY <1>1
<1>5. ASSUME NEW i \in 1 .. Len(y) PROVE (x \o y)[Len(x) + i] = y[i]
  <2>1. (x \o y)[Len(x) + i] = y[(Len(x) + i) - Len(x)]  BY <1>2, <1>4
  <2>2. QED  BY <1>4, <2>1
<1>6. QED  BY <1>2, <1>3, <1>5

LEMMA UsedFields ==
  ASSUME NEW f \in Seq(Descs), NEW s \in [Descs -> InstType \cup {NoInst}], NEW m, NEW level,
         Ordered(f, s, m, level)
  PROVE  /\ OneNumber(s) /\ UsedOnly(s) /\ Distinct(f)
         /\ \A i \in 1 .. Len(f) : f[i] \in Descs /\ s[f[i]] # NoInst
         /\ \A d \in Descs : s[d] # NoInst => \E i \in 1 .. Len(f) : d = f[i]
<1>1. \A i \in 1 .. Len(f) : f[i] \in Descs  BY ElementOfSeq
<1>2. {d \in Descs : s[d] # NoInst} = {f[i] : i \in 1 .. Len(f)}  BY DEF Ordered
<1>3. \A i \in 1 .. Len(f) : s[f[i]] # NoInst  BY <1>2
<1>4. \A d \in Descs : s[d] # NoInst => \E i \in 1 .. Len(f) : d = f[i]  BY <1>2
<1>5. \A i \in 1 .. Len(f) : s[f[i]].seq \in Nat  BY <1>1, <1>3, Fields
<1>6. OneNumber(s)
  <2>1. SUFFICES ASSUME NEW d \in Descs, NEW e \in Descs, s[d] # NoInst, s[e] # NoInst, d # e
                 PROVE  s[d].seq # s[e].seq
    BY DEF OneNumber
  <2>2. PICK i \in 1 .. Len(f) : d = f[i]  BY <1>4, <2>1
  <2>3. PICK j \in 1 .. Len(f) : e = f[j]  BY <1>4, <2>1
  <2>4. j \in i + 1 .. Len(f) \/ i \in j + 1 .. Len(f)  BY <2>1, <2>2, <2>3, LenProperties
  <2>5. s[d].seq < s[e].seq \/ s[e].seq < s[d].seq  BY <2>2, <2>3, <2>4 DEF Ordered, Increasing
  <2>6. QED  BY <1>5, <2>2, <2>3, <2>5
<1>7. Distinct(f)  BY DEF Ordered, Increasing, Distinct
<1>8. UsedOnly(s)  BY Fields DEF UsedOnly
<1>9. QED  BY <1>1, <1>3, <1>4, <1>6, <1>7, <1>8

LEMMA Window ==
  ASSUME Types
  PROVE  /\ InFlight \in Seq(Descs) /\ Len(InFlight) = Len(roq) + Len(decode_data)
         /\ Len(roq) \in Nat /\ Len(decode_data) \in Nat
         /\ \A i \in 1 .. Len(roq) : InFlight[i] = roq[i]
         /\ \A i \in 1 .. Len(decode_data) : InFlight[Len(roq) + i] = decode_data[i]
<1>1. roq \in Seq(Descs) /\ decode_data \in Seq(Descs)  BY DEF Types
<1>2. QED  BY <1>1, Joined, LenProperties DEF InFlight

LEMMA PrunedType ==
  ASSUME NEW o \in [Descs -> SUBSET Waiters], NEW freed, NEW S
  PROVE  Pruned(o, freed, S) \in [Descs -> SUBSET Waiters]
<1>1. \A link \in Waiters : Outdated(link, S) \in Waiters  BY DEF Outdated, Waiters
<1>2. QED  BY <1>1 DEF Pruned

\* The state without its links: whatever removes or completes instructions and
\* makes links invalid in all queues.
LEMMA KeptStep ==
  ASSUME IInv, NEW a, NEW freed, NEW S,
         stage' \in {"commit", "check_brq", "writeback", "issue", "map", "decode"},
         inst' \in [Descs -> InstType \cup {NoInst}],
         roq' \in Seq(Descs), decode_data' \in Seq(Descs),
         spec_level' \in Levels, spec_level' <= spec_level,
         create_vector' = create_vector, odep_list' = Pruned(odep_list, freed, S),
         ready_queue' = [u \in Units |-> [i \in DOMAIN ready_queue[u] |-> Outdated(ready_queue[u][i], S)]],
         event_queue' = [i \in DOMAIN event_queue |-> Outdated(event_queue[i], S)],
         busy' \in [Units -> BOOLEAN], InUse(busy', inst'),
         Keeps(InFlight, inst, InFlight', inst', a, spec_level'),
         Leaving(InFlight, InFlight', a, freed, S),
         {d \in Descs : inst'[d] # NoInst} = {InFlight'[i] : i \in 1 .. Len(InFlight')},
         Placed(InFlight', inst', Len(roq'), spec_level'),
         NumbersKept(inst, inst', S), ReadyKept(inst, inst', S), IssuedKept(inst, inst', S)
  PROVE  IInv'
<1>1. /\ Types /\ Ordered(InFlight, inst, Len(roq), spec_level)
      /\ Operands(InFlight, inst) /\ Awaited(InFlight, inst, odep_list)
      /\ Creators(InFlight, inst, create_vector, spec_level)
      /\ \A u \in Units : Readies(ready_queue[u], u, inst)
      /\ Running(event_queue, inst)
  BY DEF IInv
<1>2. /\ inst \in [Descs -> InstType \cup {NoInst}] /\ odep_list \in [Descs -> SUBSET Waiters]
      /\ create_vector \in [Levels -> [Regs -> Descs \cup {NoDesc}]]
      /\ \A u \in Units : ready_queue[u] \in Seq(Links)
      /\ event_queue \in Seq(Events) /\ spec_level \in Nat
  BY <1>1 DEF Types, Levels
<1>3. InFlight \in Seq(Descs)  BY <1>1, Window
<1>4. /\ OneNumber(inst) /\ Distinct(InFlight)
      /\ UsedOnly(inst)
      /\ \A d \in Descs : inst[d] # NoInst => \E i \in 1 .. Len(InFlight) : d = InFlight[i]
  BY <1>1, <1>2, <1>3, UsedFields
<1>5. UsedOnly(inst')  BY Fields DEF UsedOnly
<1>6. ASSUME NEW u \in Units
      PROVE  ready_queue'[u] \in Seq(Links) /\ Readies(ready_queue'[u], u, inst')
  <2>1. ready_queue'[u] = [i \in DOMAIN ready_queue[u] |-> Outdated(ready_queue[u][i], S)]
    OBVIOUS
  <2>2. QED  BY <1>1, <1>2, <1>4, <1>5, <2>1, ReadiesKept
<1>7. event_queue' \in Seq(Events) /\ Running(event_queue', inst')
  BY <1>1, <1>2, RunningKept
<1>8. Types'
  <2>1. odep_list' \in [Descs -> SUBSET Waiters]  BY <1>2, PrunedType
  <2>2. ready_queue' \in [Units -> Seq(Links)]  BY <1>6
  <2>3. QED  BY <1>2, <1>7, <2>1, <2>2 DEF Types
<1>9. Ordered(InFlight', inst', Len(roq'), spec_level')
  BY <1>1, IncreasingKept DEF Ordered
<1>10. Operands(InFlight', inst')  BY <1>1, OperandsKept
<1>11. Awaited(InFlight', inst', odep_list')
  <2>1. \A i \in 1 .. Len(InFlight') : inst'[InFlight'[i]] # NoInst  OBVIOUS
  <2>2. QED  BY <1>1, <1>2, <1>4, <2>1, AwaitedKept
<1>12. Creators(InFlight', inst', create_vector', spec_level')
  BY <1>1, <1>2, CreatorsKept
<1>13. QED  BY <1>6, <1>7, <1>8, <1>9, <1>10, <1>11, <1>12 DEF IInv

-----------------------------------------------------------------------------
(***************************************************************************)
(* The steps preserve the invariant: commit_stage.                         *)
(***************************************************************************)

LEMMA FreedType ==
  ASSUME Types, NEW S
  PROVE  /\ Freed(S) \in [Descs -> InstType \cup {NoInst}]
         /\ \A d \in Descs : Freed(S)[d] = IF d \in S THEN NoInst ELSE inst[d]
BY DEF Freed, Types

LEMMA Committing ==
  ASSUME IInv, commit
  PROVE  IInv'
<1> DEFINE a == Retiring
           K == {i \in DOMAIN roq : i <= commit_width /\ Completed(roq[i]) /\ ~ inst[roq[i]].ex}
           retired == Range(SubSeq(roq, 1, a))
           f == InFlight
           g == InFlight'
<1>1. Types /\ Ordered(f, inst, Len(roq), spec_level)  BY DEF IInv
<1>2. /\ inst \in [Descs -> InstType \cup {NoInst}] /\ roq \in Seq(Descs)
      /\ decode_data \in Seq(Descs) /\ spec_level \in Levels /\ spec_level \in Nat
      /\ \A u \in Units : ready_queue[u] \in Seq(Links)
  BY <1>1 DEF Types, Levels
<1>3. /\ f \in Seq(Descs) /\ Len(f) = Len(roq) + Len(decode_data)
      /\ Len(roq) \in Nat /\ Len(decode_data) \in Nat
      /\ \A i \in 1 .. Len(roq) : f[i] = roq[i]
      /\ \A i \in 1 .. Len(decode_data) : f[Len(roq) + i] = decode_data[i]
  BY <1>1, Window
<1>4. /\ UsedOnly(inst) /\ Distinct(f)
      /\ \A i \in 1 .. Len(f) : f[i] \in Descs /\ inst[f[i]] # NoInst
      /\ \A d \in Descs : inst[d] # NoInst => \E i \in 1 .. Len(f) : d = f[i]
  BY <1>1, <1>2, <1>3, UsedFields
<1>5. a \in 0 .. Len(roq) /\ \A i \in 1 .. a : inst[roq[i]].status = "completed"
  <2>1. DOMAIN roq = 1 .. Len(roq) /\ K \in SUBSET (1 .. Len(roq))  BY <1>2, LenProperties
  <2>2. a = Prefix(K)  BY DEF Retiring
  <2> HIDE DEF a
  <2>3. a \in 0 .. Len(roq) /\ \A i \in 1 .. a : i \in K  BY <1>3, <2>1, <2>2, PrefixEnds
  <2>4. QED  BY <2>3 DEF Completed
<1> HIDE DEF a, K
<1>6. retired = {f[i] : i \in 1 .. a}
  <2>1. /\ SubSeq(roq, 1, a) \in Seq(Descs) /\ Len(SubSeq(roq, 1, a)) = a
        /\ \A i \in 1 .. a : SubSeq(roq, 1, a)[i] = roq[i]
    BY <1>2, <1>5, Front
  <2>2. retired = {SubSeq(roq, 1, a)[i] : i \in 1 .. a}  BY <2>1, Elements
  <2>3. \A i \in 1 .. a : SubSeq(roq, 1, a)[i] = f[i]  BY <1>3, <1>5, <2>1
  <2>4. QED  BY <2>2, <2>3
<1> HIDE DEF retired
<1>7. /\ inst' = Freed(retired) /\ roq' = From(roq, a + 1) /\ stage' = "check_brq"
      /\ odep_list' = Pruned(odep_list, {}, retired)
      /\ ready_queue' = [u \in Units |-> [i \in DOMAIN ready_queue[u] |-> Outdated(ready_queue[u][i], retired)]]
      /\ event_queue' = [i \in DOMAIN event_queue |-> Outdated(event_queue[i], retired)]
      /\ decode_data' = decode_data /\ spec_level' = spec_level
      /\ create_vector' = create_vector /\ busy' = busy
  <2>1. /\ inst' = Freed(retired) /\ Invalidate(retired, {})
        /\ roq' = From(roq, a + 1) /\ stage' = "check_brq"
        /\ decode_data' = decode_data /\ spec_level' = spec_level
        /\ create_vector' = create_vector /\ busy' = busy
    BY DEF commit, retired, a
  <2>2. Invalidate(retired, {})  BY <2>1
  <2>3. odep_list' = Pruned(odep_list, {}, retired)  BY <2>2 DEF Invalidate, Pruned
  <2>4. ready_queue' = [u \in Units |-> [i \in DOMAIN ready_queue[u] |-> Outdated(ready_queue[u][i], retired)]]
    BY <2>2 DEF Invalidate
  <2>5. event_queue' = [i \in DOMAIN event_queue |-> Outdated(event_queue[i], retired)]
    BY <2>2 DEF Invalidate
  <2>6. QED  BY <2>1, <2>3, <2>4, <2>5
<1>8. /\ roq' \in Seq(Descs) /\ Len(roq') = Len(roq) - a
      /\ \A i \in 1 .. Len(roq) - a : roq'[i] = roq[a + i]
  BY <1>2, <1>5, <1>7, Rest
<1>9. /\ g \in Seq(Descs) /\ Len(g) = Len(f) - a
      /\ \A i \in 1 .. Len(g) : g[i] = f[a + i]
  <2>1. g = roq' \o decode_data  BY <1>7 DEF InFlight
  <2>2. /\ g \in Seq(Descs) /\ Len(g) = Len(roq') + Len(decode_data)
        /\ \A i \in 1 .. Len(roq') : g[i] = roq'[i]
        /\ \A i \in 1 .. Len(decode_data) : g[Len(roq') + i] = decode_data[i]
    <3> DEFINE y == roq'
    <3>1. y \in Seq(Descs)  BY <1>8
    <3> HIDE DEF y
    <3>2. /\ y \o decode_data \in Seq(Descs) /\ Len(y \o decode_data) = Len(y) + Len(decode_data)
          /\ \A i \in 1 .. Len(y) : (y \o decode_data)[i] = y[i]
          /\ \A i \in 1 .. Len(decode_data) : (y \o decode_data)[Len(y) + i] = decode_data[i]
      BY <1>2, <3>1, Joined
    <3>3. QED  BY <2>1, <3>2 DEF y
  <2>3. Len(g) = Len(f) - a  BY <1>3, <1>5, <1>8, <2>2
  <2>4. ASSUME NEW i \in 1 .. Len(g) PROVE g[i] = f[a + i]
    <3>1. CASE i <= Len(roq')
      <4>1. i \in 1 .. Len(roq') /\ a + i \in 1 .. Len(roq)  BY <1>3, <1>5, <1>8, <3>1
      <4>2. QED  BY <1>3, <1>8, <2>2, <4>1
    <3>2. CASE ~ (i <= Len(roq'))
      <4>1. /\ i - Len(roq') \in 1 .. Len(decode_data) /\ Len(roq') + (i - Len(roq')) = i
            /\ Len(roq) + (i - Len(roq')) = a + i
        BY <1>3, <1>5, <1>8, <2>2, <3>2
      <4>2. QED  BY <1>3, <2>2, <4>1
    <3>3. QED  BY <3>1, <3>2
  <2>5. QED  BY <2>2, <2>3, <2>4
<1> DEFINE t == inst'
<1>10. t \in [Descs -> InstType \cup {NoInst}]
       /\ \A d \in Descs : t[d] = IF d \in retired THEN NoInst ELSE inst[d]
  BY <1>1, <1>7, FreedType
<1>11. \A i \in 1 .. Len(f) : f[i] \in retired <=> i <= a
  <2>1. SUFFICES ASSUME NEW i \in 1 .. Len(f) PROVE f[i] \in retired <=> i <= a  OBVIOUS
  <2>2. ASSUME i <= a PROVE f[i] \in retired  BY <1>5, <1>6, <2>2
  <2>3. ASSUME f[i] \in retired PROVE i <= a
    <3>1. PICK k \in 1 .. a : f[k] = f[i]  BY <1>6, <2>3
    <3>2. k \in 1 .. Len(f) /\ (k = i \/ k \in i + 1 .. Len(f) \/ i \in k + 1 .. Len(f))
      BY <1>3, <1>5
    <3>3. k = i  BY <3>1, <3>2, <1>4 DEF Distinct
    <3>4. QED  BY <1>5, <3>3
  <2>4. QED  BY <2>2, <2>3
<1>12. \A i \in 1 .. Len(g) : /\ a + i \in 1 .. Len(f) /\ ~ (a + i <= a)
                              /\ g[i] \in Descs /\ t[g[i]] = inst[g[i]] /\ t[g[i]] # NoInst
  <2>1. \A i \in 1 .. Len(g) : a + i \in 1 .. Len(f) /\ ~ (a + i <= a)  BY <1>3, <1>5, <1>9
  <2>2. SUFFICES ASSUME NEW i \in 1 .. Len(g)
                 PROVE  g[i] \in Descs /\ t[g[i]] = inst[g[i]] /\ t[g[i]] # NoInst
    BY <2>1
  <2>3. g[i] = f[a + i] /\ f[a + i] \in Descs /\ inst[f[a + i]] # NoInst  BY <1>4, <1>9, <2>1
  <2>4. f[a + i] \notin retired  BY <1>11, <2>1
  <2> HIDE DEF f, g, t
  <2>5. QED  BY <1>10, <2>3, <2>4
<1>13. \A d \in Descs : d \in retired => inst[d].status = "completed"
  BY <1>3, <1>5, <1>6
<1>14. Keeps(f, inst, g, t, a, spec_level)
  <2>1. \A i \in 1 .. Len(g) : Similar(inst, t, g[i])  BY <1>12 DEF Similar, DoneIn, OpenIn
  <2>2. \A i \in 1 .. a : DoneIn(inst, f[i])
    <3>1. \A i \in 1 .. a : i \in 1 .. Len(roq)  BY <1>3, <1>5
    <3>2. QED  BY <1>3, <1>5, <3>1 DEF DoneIn
  <2>3. a \in Nat /\ a + Len(g) = Len(f)  BY <1>3, <1>5, <1>9
  <2>4. \A k \in a + Len(g) + 1 .. Len(f) : FALSE  BY <1>3, <2>3
  <2>5. QED  BY <1>2, <1>3, <1>9, <2>1, <2>2, <2>3, <2>4 DEF Keeps
<1>15. Leaving(f, g, a, {}, retired)
  <2>1. \A i \in 1 .. Len(f) : ~ (i > a + Len(g))  BY <1>3, <1>5, <1>9
  <2>2. {f[i] : i \in {i \in 1 .. Len(f) : i <= a \/ i > a + Len(g)}} = {f[i] : i \in 1 .. a}
    <3>1. {i \in 1 .. Len(f) : i <= a \/ i > a + Len(g)} = 1 .. a  BY <1>3, <1>5, <2>1
    <3>2. QED  BY <3>1
  <2>3. QED  BY <1>6, <2>1, <2>2 DEF Leaving
<1>16. {d \in Descs : t[d] # NoInst} = {g[i] : i \in 1 .. Len(g)}
  <2>1. ASSUME NEW d \in Descs, t[d] # NoInst PROVE \E i \in 1 .. Len(g) : d = g[i]
    <3>1. d \notin retired /\ inst[d] # NoInst  BY <1>10, <2>1
    <3>2. PICK k \in 1 .. Len(f) : d = f[k]  BY <1>4, <3>1
    <3>3. ~ (k <= a)  BY <1>11, <3>1, <3>2
    <3>4. k - a \in 1 .. Len(g) /\ a + (k - a) = k  BY <1>3, <1>5, <1>9, <3>3
    <3>5. QED  BY <1>9, <3>2, <3>4
  <2>2. QED  BY <1>12, <2>1
<1>17. Placed(g, t, Len(roq'), spec_level)
  <2>1. SUFFICES ASSUME NEW i \in 1 .. Len(g)
                 PROVE  /\ t[g[i]].level <= spec_level /\ (OpenIn(t, g[i]) => t[g[i]].level < spec_level)
                        /\ t[g[i]].status = "decoded" <=> i > Len(roq')
                        /\ i <= Len(roq') => t[g[i]].fu \in Units
                        /\ t[g[i]].status \in {"decoded", "queued"} \/ t[g[i]].idep_ready
    BY DEF Placed
  <2>2. /\ inst[f[a + i]].level <= spec_level
        /\ (OpenIn(inst, f[a + i]) => inst[f[a + i]].level < spec_level)
        /\ inst[f[a + i]].status = "decoded" <=> a + i > Len(roq)
        /\ a + i <= Len(roq) => inst[f[a + i]].fu \in Units
        /\ inst[f[a + i]].status \in {"decoded", "queued"} \/ inst[f[a + i]].idep_ready
    BY <1>1, <1>12 DEF Ordered, Placed
  <2>3. (a + i > Len(roq) <=> i > Len(roq')) /\ (a + i <= Len(roq) <=> i <= Len(roq'))
    BY <1>3, <1>5, <1>8
  <2>4. t[g[i]] = inst[f[a + i]] /\ g[i] = f[a + i]  BY <1>9, <1>12
  <2>5. QED  BY <2>2, <2>3, <2>4 DEF OpenIn
<1>18. NumbersKept(inst, t, retired)  BY <1>10 DEF NumbersKept
<1>19. ReadyKept(inst, t, retired) /\ IssuedKept(inst, t, retired)
  BY <1>10, <1>13 DEF ReadyKept, IssuedKept, Ready, NoInst
<1>20. InUse(busy, t)
  <2>1. InUse(busy, inst)  BY DEF IInv
  <2>2. QED  BY <1>10, <1>13, <2>1 DEF InUse
<1>21. busy' \in [Units -> BOOLEAN]  BY <1>1, <1>7 DEF Types
<1>22. QED
  <2>1. /\ stage' \in {"commit", "check_brq", "writeback", "issue", "map", "decode"}
        /\ spec_level' \in Levels /\ spec_level' <= spec_level
        /\ decode_data' \in Seq(Descs) /\ InUse(busy', inst')
        /\ Keeps(InFlight, inst, InFlight', inst', a, spec_level')
        /\ Placed(InFlight', inst', Len(roq'), spec_level')
    BY <1>2, <1>7, <1>14, <1>17, <1>20
  <2>2. /\ inst' \in [Descs -> InstType \cup {NoInst}]
        /\ roq' \in Seq(Descs) /\ busy' \in [Units -> BOOLEAN]
        /\ Leaving(InFlight, InFlight', a, {}, retired)
        /\ {d \in Descs : inst'[d] # NoInst} = {InFlight'[i] : i \in 1 .. Len(InFlight')}
        /\ NumbersKept(inst, inst', retired)
        /\ ReadyKept(inst, inst', retired) /\ IssuedKept(inst, inst', retired)
    BY <1>8, <1>10, <1>15, <1>16, <1>18, <1>19, <1>21
  <2> HIDE DEF f, g, t
  <2>3. QED  BY ONLY IInv, <1>7, <2>1, <2>2, KeptStep

LEMMA Facts ==
  ASSUME IInv
  PROVE  /\ inst \in [Descs -> InstType \cup {NoInst}] /\ roq \in Seq(Descs)
         /\ decode_data \in Seq(Descs) /\ spec_level \in Levels /\ spec_level \in Nat
         /\ InFlight \in Seq(Descs) /\ Len(InFlight) = Len(roq) + Len(decode_data)
         /\ Len(roq) \in Nat /\ Len(decode_data) \in Nat
         /\ \A i \in 1 .. Len(roq) : InFlight[i] = roq[i]
         /\ \A i \in 1 .. Len(decode_data) : InFlight[Len(roq) + i] = decode_data[i]
         /\ OneNumber(inst) /\ UsedOnly(inst) /\ Distinct(InFlight)
         /\ \A i \in 1 .. Len(InFlight) : InFlight[i] \in Descs /\ inst[InFlight[i]] # NoInst
         /\ \A d \in Descs : inst[d] # NoInst => \E i \in 1 .. Len(InFlight) : d = InFlight[i]
<1>1. Types /\ Ordered(InFlight, inst, Len(roq), spec_level)  BY DEF IInv
<1>2. /\ inst \in [Descs -> InstType \cup {NoInst}] /\ roq \in Seq(Descs)
      /\ decode_data \in Seq(Descs) /\ spec_level \in Levels /\ spec_level \in Nat
  BY <1>1 DEF Types, Levels
<1>3. /\ InFlight \in Seq(Descs) /\ Len(InFlight) = Len(roq) + Len(decode_data)
      /\ Len(roq) \in Nat /\ Len(decode_data) \in Nat
      /\ \A i \in 1 .. Len(roq) : InFlight[i] = roq[i]
      /\ \A i \in 1 .. Len(decode_data) : InFlight[Len(roq) + i] = decode_data[i]
  BY <1>1, Window
<1>4. QED  BY <1>1, <1>2, <1>3, UsedFields

\* The state of each instruction in flight.
LEMMA Places ==
  ASSUME IInv, NEW i \in 1 .. Len(InFlight)
  PROVE  LET d == InFlight[i] IN
         /\ inst[d].op \in Instructions /\ inst[d].seq \in Nat /\ inst[d].level \in Nat
         /\ inst[d].idep_ready \in BOOLEAN /\ inst[d].status \in Status
         /\ inst[d].fu \in Units \cup {NoDesc} /\ inst[d] \in InstType
         /\ inst[d].level <= spec_level /\ (OpenIn(inst, d) => inst[d].level < spec_level)
         /\ inst[d].status = "decoded" <=> i > Len(roq)
         /\ i <= Len(roq) => inst[d].fu \in Units
         /\ inst[d].status \in {"decoded", "queued"} \/ inst[d].idep_ready
<1>1. InFlight[i] \in Descs /\ inst[InFlight[i]] # NoInst /\ inst \in [Descs -> InstType \cup {NoInst}]
  BY Facts
<1>2. Placed(InFlight, inst, Len(roq), spec_level)  BY DEF IInv, Ordered
<1>3. QED  BY <1>1, <1>2, Fields DEF Placed

\* What a squash removes: the mapped instructions after the b-th, and the others.
LEMMA Younger ==
  ASSUME IInv, NEW b \in 0 .. Len(roq)
  PROVE  /\ Range(From(roq, b + 1)) = {InFlight[k] : k \in b + 1 .. Len(roq)}
         /\ Range(From(roq, b + 1)) \cup Range(decode_data)
              = {InFlight[k] : k \in b + 1 .. Len(InFlight)}
<1> DEFINE f == InFlight
           gone == Range(From(roq, b + 1))
           S == gone \cup Range(decode_data)
<1>2. /\ roq \in Seq(Descs) /\ decode_data \in Seq(Descs)
      /\ Len(f) = Len(roq) + Len(decode_data)
      /\ Len(roq) \in Nat /\ Len(decode_data) \in Nat
      /\ \A i \in 1 .. Len(roq) : f[i] = roq[i]
      /\ \A i \in 1 .. Len(decode_data) : f[Len(roq) + i] = decode_data[i]
  BY Facts
<1>3. b \in 0 .. Len(roq)  OBVIOUS
<1> HIDE DEF f
<1>4. gone = {f[k] : k \in b + 1 .. Len(roq)}
  <2>1. /\ From(roq, b + 1) \in Seq(Descs) /\ Len(From(roq, b + 1)) = Len(roq) - b
        /\ \A i \in 1 .. Len(roq) - b : From(roq, b + 1)[i] = roq[b + i]
    BY <1>2, <1>3, Rest
  <2>2. gone = {From(roq, b + 1)[i] : i \in 1 .. Len(roq) - b}  BY <2>1, Elements
  <2>3. \A i \in 1 .. Len(roq) - b : b + i \in 1 .. Len(roq) /\ b + i \in b + 1 .. Len(roq)
    BY <1>2, <1>3
  <2>4. \A i \in 1 .. Len(roq) - b : From(roq, b + 1)[i] = f[b + i] /\ b + i \in b + 1 .. Len(roq)
    BY ONLY <1>2, <2>1, <2>3
  <2>5. \A k \in b + 1 .. Len(roq) : k - b \in 1 .. Len(roq) - b /\ b + (k - b) = k
    BY <1>2, <1>3
  <2>6. \A k \in b + 1 .. Len(roq) : From(roq, b + 1)[k - b] = f[k]  BY <2>4, <2>5
  <2>7. \A d \in gone : \E k \in b + 1 .. Len(roq) : d = f[k]  BY <2>2, <2>4
  <2>8. \A k \in b + 1 .. Len(roq) : f[k] \in gone  BY <2>2, <2>5, <2>6
  <2>9. QED  BY <2>7, <2>8
<1>5. S = {f[k] : k \in b + 1 .. Len(f)}
  <2>1. Range(decode_data) = {decode_data[i] : i \in 1 .. Len(decode_data)}  BY <1>2, Elements
  <2>2. \A i \in 1 .. Len(decode_data) : /\ Len(roq) + i \in b + 1 .. Len(f)
                                         /\ f[Len(roq) + i] = decode_data[i]
    BY <1>2, <1>3
  <2>3. \A k \in b + 1 .. Len(f) :
          k \in b + 1 .. Len(roq) \/ (k - Len(roq) \in 1 .. Len(decode_data) /\ Len(roq) + (k - Len(roq)) = k)
    BY <1>2, <1>3
  <2>4. \A k \in b + 1 .. Len(f) : f[k] \in S
    <3>1. SUFFICES ASSUME NEW k \in b + 1 .. Len(f) PROVE f[k] \in S  OBVIOUS
    <3>2. CASE k \in b + 1 .. Len(roq)  BY <1>4, <3>2
    <3>3. CASE k - Len(roq) \in 1 .. Len(decode_data) /\ Len(roq) + (k - Len(roq)) = k
      BY <2>1, <2>2, <3>3
    <3>4. QED  BY <2>3, <3>2, <3>3
  <2>5. b + 1 .. Len(roq) \subseteq b + 1 .. Len(f)  BY <1>2, <1>3
  <2>6. \A d \in S : \E k \in b + 1 .. Len(f) : d = f[k]  BY <1>4, <2>1, <2>2, <2>5
  <2>7. QED  BY <2>4, <2>6
<1>6. QED  BY <1>4, <1>5 DEF f

LEMMA Recovering ==
  ASSUME IInv, brerr_recover
  PROVE  IInv'
<1> DEFINE f == InFlight
           g == InFlight'
           t == inst'
<1>1. PICK b \in Resolving :
        /\ Wrong(b)
        /\ Squash(Range(From(roq, b + 1)) \cup Range(decode_data))
        /\ FreeDividers(Range(From(roq, b + 1)))
        /\ inst' = [Freed(Range(From(roq, b + 1)) \cup Range(decode_data))
                      EXCEPT ![roq[b]].status = "completed"]
        /\ roq' = SubSeq(roq, 1, b)
        /\ spec_level' = inst[roq[b]].level
  BY DEF brerr_recover
<1> DEFINE gone == Range(From(roq, b + 1))
           S == gone \cup Range(decode_data)
<1>2. /\ inst \in [Descs -> InstType \cup {NoInst}] /\ roq \in Seq(Descs)
      /\ decode_data \in Seq(Descs) /\ spec_level \in Levels /\ spec_level \in Nat
      /\ f \in Seq(Descs) /\ Len(f) = Len(roq) + Len(decode_data)
      /\ Len(roq) \in Nat /\ Len(decode_data) \in Nat
      /\ \A i \in 1 .. Len(roq) : f[i] = roq[i]
      /\ \A i \in 1 .. Len(decode_data) : f[Len(roq) + i] = decode_data[i]
      /\ UsedOnly(inst) /\ Distinct(f)
      /\ \A i \in 1 .. Len(f) : f[i] \in Descs /\ inst[f[i]] # NoInst
      /\ \A d \in Descs : inst[d] # NoInst => \E i \in 1 .. Len(f) : d = f[i]
  BY Facts
<1>3. /\ b \in 1 .. Len(roq) /\ b \in 1 .. Len(f) /\ f[b] = roq[b]
      /\ inst[f[b]].status = "brcompleted" /\ inst[f[b]].op.mis_predict
  BY <1>1, <1>2, LenProperties DEF Resolving, Wrong
<1>4. gone = {f[k] : k \in b + 1 .. Len(roq)} /\ S = {f[k] : k \in b + 1 .. Len(f)}
  <2>1. b \in 0 .. Len(roq)  BY <1>2, <1>3
  <2> HIDE DEF f, g, t
  <2>2. QED  BY <2>1, Younger DEF f
<1>5. S = {f[k] : k \in b + 1 .. Len(f)}  BY <1>4
<1> HIDE DEF gone
<1>6. /\ inst' = [Freed(S) EXCEPT ![f[b]].status = "completed"]
      /\ odep_list' = Pruned(odep_list, S, S)
      /\ ready_queue' = [u \in Units |-> [i \in DOMAIN ready_queue[u] |-> Outdated(ready_queue[u][i], S)]]
      /\ event_queue' = [i \in DOMAIN event_queue |-> Outdated(event_queue[i], S)]
      /\ busy' = [u \in Units |-> busy[u] /\ u \notin DivUnits(gone)]
      /\ roq' = SubSeq(roq, 1, b) /\ spec_level' = inst[f[b]].level
      /\ decode_data' = <<>> /\ create_vector' = create_vector /\ stage' = "writeback"
  <2>1. /\ Squash(S) /\ FreeDividers(gone)
        /\ inst' = [Freed(S) EXCEPT ![f[b]].status = "completed"]
        /\ roq' = SubSeq(roq, 1, b) /\ spec_level' = inst[f[b]].level
    BY <1>1, <1>3 DEF gone
  <2> HIDE DEF S
  <2>2. decode_data' = <<>> /\ create_vector' = create_vector /\ stage' = "writeback"
    BY DEF brerr_recover
  <2>3. odep_list' = Pruned(odep_list, S, S)  BY <2>1 DEF Squash, Invalidate, Pruned
  <2>4. ready_queue' = [u \in Units |-> [i \in DOMAIN ready_queue[u] |-> Outdated(ready_queue[u][i], S)]]
    BY <2>1 DEF Squash, Invalidate
  <2>5. event_queue' = [i \in DOMAIN event_queue |-> Outdated(event_queue[i], S)]
    BY <2>1 DEF Squash, Invalidate
  <2>6. busy' = [u \in Units |-> busy[u] /\ u \notin DivUnits(gone)]  BY <2>1 DEF FreeDividers
  <2>7. QED  BY <2>1, <2>2, <2>3, <2>4, <2>5, <2>6
<1> HIDE DEF S
<1>7. \A i \in 1 .. Len(f) : f[i] \in S <=> i > b
  <2>1. SUFFICES ASSUME NEW i \in 1 .. Len(f) PROVE f[i] \in S <=> i > b  OBVIOUS
  <2>2. ASSUME i > b PROVE f[i] \in S
    <3>1. i \in b + 1 .. Len(f)  BY <1>2, <1>3, <2>2
    <3>2. QED  BY <1>5, <3>1
  <2>3. ASSUME f[i] \in S PROVE i > b
    <3>1. PICK k \in b + 1 .. Len(f) : f[k] = f[i]  BY <1>5, <2>3
    <3>2. k \in 1 .. Len(f) /\ (k = i \/ k \in i + 1 .. Len(f) \/ i \in k + 1 .. Len(f))
      BY <1>2, <1>3
    <3>3. k = i  BY <3>1, <3>2, <1>2 DEF Distinct
    <3>4. QED  BY <1>3, <3>3
  <2>4. QED  BY <2>2, <2>3
<1>8. /\ t \in [Descs -> InstType \cup {NoInst}]
      /\ \A d \in Descs : d \in S => t[d] = NoInst
      /\ \A d \in Descs : d \notin S /\ d # f[b] => t[d] = inst[d]
      /\ t[f[b]] = [inst[f[b]] EXCEPT !.status = "completed"]
  <2>1. /\ Freed(S) \in [Descs -> InstType \cup {NoInst}]
        /\ \A d \in Descs : Freed(S)[d] = IF d \in S THEN NoInst ELSE inst[d]
    BY FreedType DEF IInv
  <2>2. f[b] \in Descs /\ f[b] \notin S /\ inst[f[b]] \in InstType
    BY <1>2, <1>3, <1>7, Places
  <2>3. [inst[f[b]] EXCEPT !.status = "completed"] \in InstType
    BY <2>2 DEF InstType, Status
  <2>4. Freed(S)[f[b]] = inst[f[b]]  BY <2>1, <2>2
  <2>5. t = [d \in Descs |-> IF d = f[b] THEN [inst[f[b]] EXCEPT !.status = "completed"] ELSE Freed(S)[d]]
    BY <1>6, <2>1, <2>4
  <2> HIDE DEF t
  <2>6. QED  BY <2>1, <2>2, <2>3, <2>5
<1>9. /\ g \in Seq(Descs) /\ Len(g) = b /\ \A i \in 1 .. b : g[i] = f[i]
      /\ roq' \in Seq(Descs) /\ Len(roq') = b
  <2> DEFINE y == SubSeq(roq, 1, b)
  <2>1. y \in Seq(Descs) /\ Len(y) = b /\ \A i \in 1 .. b : y[i] = roq[i]
    BY <1>2, <1>3, Front
  <2>2. roq' = y /\ g = y \o <<>>  BY <1>6 DEF InFlight
  <2> HIDE DEF y
  <2>3. y \o <<>> = y  BY <2>1
  <2>4. g = y  BY <2>2, <2>3
  <2>7. \A i \in 1 .. b : i \in 1 .. Len(roq)  BY <1>2, <1>3
  <2>5. \A i \in 1 .. b : y[i] = f[i]  BY <1>2, <2>1, <2>7
  <2> HIDE DEF g, f
  <2>6. QED  BY <2>1, <2>2, <2>4, <2>5
<1>10. \A i \in 1 .. b : i \in 1 .. Len(f) /\ g[i] = f[i] /\ f[i] \in Descs /\ f[i] \notin S
                         /\ (i # b => f[i] # f[b] /\ t[f[i]] = inst[f[i]])
  <2>1. SUFFICES ASSUME NEW i \in 1 .. b
                 PROVE  /\ i \in 1 .. Len(f) /\ g[i] = f[i] /\ f[i] \in Descs /\ f[i] \notin S
                        /\ (i # b => f[i] # f[b] /\ t[f[i]] = inst[f[i]])
    OBVIOUS
  <2>2. i \in 1 .. Len(f) /\ ~ (i > b) /\ (i # b => b \in i + 1 .. Len(f))  BY <1>2, <1>3
  <2>3. f[i] \notin S /\ (i # b => f[i] # f[b])  BY <1>2, <1>7, <2>2 DEF Distinct
  <2>4. QED  BY <1>2, <1>8, <1>9, <2>2, <2>3
<1>11. /\ t[f[b]].op = inst[f[b]].op /\ t[f[b]].seq = inst[f[b]].seq
       /\ t[f[b]].level = inst[f[b]].level /\ t[f[b]].idep_ready = inst[f[b]].idep_ready
       /\ t[f[b]].fu = inst[f[b]].fu /\ t[f[b]].status = "completed" /\ t[f[b]] # NoInst
  <2>1. inst[f[b]] \in InstType  BY <1>3, Places
  <2>2. t[f[b]].status = "completed"  BY <1>8, <2>1 DEF InstType
  <2>3. QED  BY <1>8, <2>1, <2>2 DEF InstType, NoInst
<1>12. inst[f[b]].level \in Levels /\ inst[f[b]].level \in Nat /\ inst[f[b]].level <= spec_level
  BY <1>2, <1>3, Fields, Places
<1> DEFINE level == inst[f[b]].level
<1>13. Keeps(f, inst, g, t, 0, level)
  <2>1. \A i \in 1 .. b : Similar(inst, t, g[i])
    <3>1. SUFFICES ASSUME NEW i \in 1 .. b PROVE Similar(inst, t, f[i])  BY <1>9
    <3>2. CASE i = b  BY <1>3, <1>11, <3>2 DEF Similar, DoneIn, OpenIn
    <3>3. CASE i # b  BY <1>10, <3>3 DEF Similar, DoneIn, OpenIn
    <3>4. QED  BY <3>2, <3>3
  <2>2. \A k \in b + 1 .. Len(f) : inst[f[k]].level \in Nat /\ level < inst[f[k]].level
    <3>1. SUFFICES ASSUME NEW k \in b + 1 .. Len(f)
                   PROVE  inst[f[k]].level \in Nat /\ level < inst[f[k]].level
      OBVIOUS
    <3>2. OpenIn(inst, f[b]) /\ Increasing(f, inst)  BY <1>3 DEF OpenIn, IInv, Ordered
    <3>3. k \in 1 .. Len(f)  BY <1>2, <1>3
    <3>4. QED  BY <1>3, <3>2, <3>3, Places DEF Increasing
  <2>3. 0 \in Nat /\ 0 + Len(g) <= Len(f) /\ 0 + Len(g) + 1 = b + 1 /\ \A i \in 1 .. b : 0 + i = i
    BY <1>2, <1>3, <1>9
  <2>4. \A i \in 1 .. 0 : FALSE  OBVIOUS
  <2> HIDE DEF t, g, f, level
  <2>5. /\ \A i \in 1 .. Len(g) : g[i] = f[0 + i] /\ Similar(inst, t, g[i])
        /\ \A k \in 0 + Len(g) + 1 .. Len(f) : inst[f[k]].level \in Nat /\ level < inst[f[k]].level
    BY <1>9, <2>1, <2>2, <2>3
  <2>6. level \in Nat  BY <1>12 DEF level
  <2>7. QED  BY <1>2, <1>9, <2>3, <2>4, <2>5, <2>6 DEF Keeps
<1>14. Leaving(f, g, 0, S, S)
  <2>1. \A i \in 1 .. Len(f) : (i <= 0 \/ i > 0 + Len(g)) <=> i > b  BY <1>2, <1>3, <1>9
  <2>2. \A d \in S : \E i \in {i \in 1 .. Len(f) : i <= 0 \/ i > 0 + Len(g)} : d = f[i]
    <3>1. SUFFICES ASSUME NEW d \in S
                   PROVE  \E i \in {i \in 1 .. Len(f) : i <= 0 \/ i > 0 + Len(g)} : d = f[i]
      OBVIOUS
    <3>2. PICK k \in b + 1 .. Len(f) : d = f[k]  BY <1>5
    <3>3. k \in 1 .. Len(f) /\ k > b  BY <1>3
    <3>4. QED  BY <2>1, <3>2, <3>3
  <2>3. QED  BY <1>7, <2>1, <2>2 DEF Leaving
<1>15. {d \in Descs : t[d] # NoInst} = {g[i] : i \in 1 .. Len(g)}
  <2>1. ASSUME NEW d \in Descs, t[d] # NoInst PROVE \E i \in 1 .. Len(g) : d = g[i]
    <3>1. d \notin S  BY <1>8, <2>1
    <3>2. inst[d] # NoInst  BY <1>2, <1>3, <1>8, <2>1, <3>1
    <3>3. PICK k \in 1 .. Len(f) : d = f[k]  BY <1>2, <3>2
    <3>4. k \in 1 .. b  BY <1>3, <1>7, <3>1, <3>3
    <3>5. QED  BY <1>9, <3>3, <3>4
  <2>2. \A i \in 1 .. b : g[i] \in Descs /\ t[g[i]] # NoInst
    <3>1. SUFFICES ASSUME NEW i \in 1 .. b PROVE f[i] \in Descs /\ t[f[i]] # NoInst  BY <1>9
    <3>2. QED  BY <1>2, <1>10, <1>11
  <2>3. QED  BY <1>9, <2>1, <2>2
<1>16. Placed(g, t, Len(roq'), level)
  <2>1. SUFFICES ASSUME NEW i \in 1 .. b
                 PROVE  /\ t[f[i]].level <= level /\ (OpenIn(t, f[i]) => t[f[i]].level < level)
                        /\ t[f[i]].status = "decoded" <=> i > b
                        /\ i <= b => t[f[i]].fu \in Units
                        /\ t[f[i]].status \in {"decoded", "queued"} \/ t[f[i]].idep_ready
    BY <1>9 DEF Placed
  <2>2. i \in 1 .. Len(f) /\ i <= b /\ ~ (i > b) /\ i <= Len(roq) /\ ~ (i > Len(roq))
    BY <1>2, <1>3
  <2>3. CASE i = b
    <3>1. inst[f[b]].fu \in Units /\ inst[f[b]].idep_ready  BY <1>3, <2>2, <2>3, Places
    <3>2. t[f[b]].level <= level  BY <1>11, <1>12
    <3>3. ~ OpenIn(t, f[b]) /\ t[f[b]].status # "decoded"  BY <1>11 DEF OpenIn
    <3>4. t[f[b]].fu \in Units /\ t[f[b]].idep_ready  BY <1>11, <3>1
    <3> HIDE DEF f, t, level
    <3>5. QED  BY <2>2, <2>3, <3>2, <3>3, <3>4
  <2>4. CASE i # b
    <3>1. b \in i + 1 .. Len(f)  BY <1>2, <1>3, <2>4
    <3>2. inst[f[i]].level <= level /\ (OpenIn(inst, f[i]) => inst[f[i]].level < level)
      BY <2>2, <3>1 DEF IInv, Ordered, Increasing
    <3>3. t[f[i]] = inst[f[i]]  BY <1>10, <2>4
    <3>4. QED  BY <2>2, <3>2, <3>3, Places DEF OpenIn
  <2>5. QED  BY <2>3, <2>4
<1>17. NumbersKept(inst, t, S)
  <2>1. SUFFICES ASSUME NEW d \in Descs, t[d] # NoInst
                 PROVE  inst[d] # NoInst /\ t[d].seq = inst[d].seq /\ d \notin S
    BY DEF NumbersKept
  <2>2. f[b] \in Descs /\ inst[f[b]] # NoInst /\ f[b] \notin S
    <3>1. ~ (b > b)  BY <1>3
    <3>2. QED  BY <1>2, <1>3, <1>7, <3>1
  <2>3. t[f[b]].seq = inst[f[b]].seq  BY <1>11
  <2> HIDE DEF f, t, S
  <2>4. CASE d = f[b]  BY <2>4, <2>2, <2>3
  <2>5. CASE d # f[b]  BY <1>8, <2>1, <2>5
  <2>6. QED  BY <2>4, <2>5
<1>18. ReadyKept(inst, t, S) /\ IssuedKept(inst, t, S)
  <2>1. f[b] \notin S  BY <1>3, <1>7
  <2>2. \A d \in Descs : d \in S => t[d].status = "free"  BY <1>8 DEF NoInst
  <2>3. QED  BY <1>3, <1>8, <1>11, <2>1, <2>2 DEF ReadyKept, IssuedKept, Ready
<1>19. busy' \in [Units -> BOOLEAN] /\ InUse(busy', t)
  <2>1. OperationsKept(t, gone)
    <3>1. SUFFICES ASSUME NEW d \in Descs, inst[d].status = "issued", d \notin gone
                   PROVE  t[d].status = "issued" /\ t[d].op = inst[d].op /\ t[d].fu = inst[d].fu
      BY DEF OperationsKept
    <3>2. inst[d] # NoInst  BY <1>2, <3>1 DEF UsedOnly
    <3>3. PICK k \in 1 .. Len(f) : d = f[k]  BY <1>2, <3>2
    <3>4. k <= Len(roq)  BY <1>2, <3>1, <3>3, Places
    <3>5. ~ (k \in b + 1 .. Len(roq))  BY <1>4, <3>1, <3>3
    <3>6. k <= b /\ k # b  BY <1>2, <1>3, <3>1, <3>3, <3>4, <3>5
    <3>7. k \in 1 .. b  BY <1>3, <3>6
    <3>8. QED  BY <1>10, <3>1, <3>3, <3>6, <3>7
  <2>2. InUse(busy, inst)  BY DEF IInv
  <2>3. InUse([u \in Units |-> busy[u] /\ u \notin DivUnits(gone)], t)
    BY <2>1, <2>2, InUseKept
  <2>4. QED  BY <1>6, <2>3 DEF IInv, Types
<1>20. QED
  <2>1. /\ stage' \in {"commit", "check_brq", "writeback", "issue", "map", "decode"}
        /\ spec_level' \in Levels /\ spec_level' <= spec_level
        /\ decode_data' \in Seq(Descs) /\ InUse(busy', inst')
        /\ Keeps(InFlight, inst, InFlight', inst', 0, spec_level')
        /\ Placed(InFlight', inst', Len(roq'), spec_level')
    <3>1. spec_level' = level /\ stage' = "writeback"  BY <1>6
    <3>2. decode_data' \in Seq(Descs)  BY <1>6
    <3> HIDE DEF level
    <3>3. QED  BY <1>12, <1>13, <1>16, <1>19, <3>1, <3>2 DEF level
  <2>2. /\ create_vector' = create_vector /\ odep_list' = Pruned(odep_list, S, S)
        /\ ready_queue' = [u \in Units |-> [i \in DOMAIN ready_queue[u] |-> Outdated(ready_queue[u][i], S)]]
        /\ event_queue' = [i \in DOMAIN event_queue |-> Outdated(event_queue[i], S)]
    BY <1>6
  <2>3. /\ inst' \in [Descs -> InstType \cup {NoInst}] /\ roq' \in Seq(Descs)
        /\ busy' \in [Units -> BOOLEAN]
    BY <1>8, <1>9, <1>19
  <2> HIDE DEF f, g, t, level
  <2>4. QED
    BY <1>14, <1>15, <1>17, <1>18, <2>1, <2>2, <2>3, KeptStep DEF f, g, t

LEMMA Flushing ==
  ASSUME IInv, pipeline_flush
  PROVE  IInv'
<1> DEFINE a == Retiring
           K == {i \in DOMAIN roq : i <= commit_width /\ Completed(roq[i]) /\ ~ inst[roq[i]].ex}
           flushed == Range(From(roq, a + 1))
           S == flushed \cup Range(decode_data)
           f == InFlight
           t == inst'
<1>1. /\ inst \in [Descs -> InstType \cup {NoInst}] /\ roq \in Seq(Descs)
      /\ Len(f) = Len(roq) + Len(decode_data)
      /\ Len(roq) \in Nat /\ Len(decode_data) \in Nat
      /\ \A i \in 1 .. Len(roq) : f[i] = roq[i]
      /\ OneNumber(inst) /\ UsedOnly(inst)
      /\ \A d \in Descs : inst[d] # NoInst => \E i \in 1 .. Len(f) : d = f[i]
  BY Facts
<1>2. a \in 0 .. Len(roq) /\ \A i \in 1 .. a : inst[roq[i]].status = "completed"
  <2>1. DOMAIN roq = 1 .. Len(roq) /\ K \in SUBSET (1 .. Len(roq))  BY <1>1, LenProperties
  <2>2. a = Prefix(K)  BY DEF Retiring
  <2> HIDE DEF a
  <2>3. a \in 0 .. Len(roq) /\ \A i \in 1 .. a : i \in K  BY <1>1, <2>1, <2>2, PrefixEnds
  <2>4. QED  BY <2>3 DEF Completed
<1> HIDE DEF a, K
<1>3. flushed = {f[k] : k \in a + 1 .. Len(roq)} /\ S = {f[k] : k \in a + 1 .. Len(f)}
  <2> HIDE DEF f, t
  <2>1. QED  BY <1>2, Younger DEF f
<1> HIDE DEF flushed, S
<1>4. /\ odep_list' = Pruned(odep_list, S, S)
      /\ ready_queue' = [u \in Units |-> [i \in DOMAIN ready_queue[u] |-> Outdated(ready_queue[u][i], S)]]
      /\ event_queue' = [i \in DOMAIN event_queue |-> Outdated(event_queue[i], S)]
      /\ busy' = [u \in Units |-> busy[u] /\ u \notin DivUnits(flushed)]
  <2>1. Squash(S) /\ FreeDividers(flushed)  BY DEF pipeline_flush, S, flushed, a
  <2>2. odep_list' = Pruned(odep_list, S, S)  BY <2>1 DEF Squash, Invalidate, Pruned
  <2>3. ready_queue' = [u \in Units |-> [i \in DOMAIN ready_queue[u] |-> Outdated(ready_queue[u][i], S)]]
    BY <2>1 DEF Squash, Invalidate
  <2>4. event_queue' = [i \in DOMAIN event_queue |-> Outdated(event_queue[i], S)]
    BY <2>1 DEF Squash, Invalidate
  <2>5. busy' = [u \in Units |-> busy[u] /\ u \notin DivUnits(flushed)]  BY <2>1 DEF FreeDividers
  <2>6. QED  BY <2>2, <2>3, <2>4, <2>5
<1>5. /\ t = [d \in Descs |-> NoInst] /\ roq' = <<>> /\ decode_data' = <<>>
      /\ spec_level' = 0 /\ stage' = "check_brq"
      /\ create_vector' = [create_vector EXCEPT ![0] = [r \in Regs |-> NoDesc]]
  BY DEF pipeline_flush, clear_create_vector
<1>6. /\ InFlight' = <<>> /\ \A d \in Descs : t[d] = NoInst /\ t[d].status = "free"
      /\ InFlight' \in Seq(Descs) /\ Len(InFlight') = 0
  <2>1. InFlight' = <<>> \o <<>>  BY <1>5 DEF InFlight
  <2>2. <<>> \o <<>> = <<>>  OBVIOUS
  <2>3. InFlight' = <<>>  BY <2>1, <2>2
  <2>4. QED  BY <1>5, <2>3 DEF NoInst
\* Whatever is in use after the first a, or waits for a result, is squashed.
<1>7. ASSUME NEW k \in 1 .. Len(f), ~ (k <= a)
      PROVE  f[k] \in S /\ (k <= Len(roq) => f[k] \in flushed)
  <2>1. k \in a + 1 .. Len(f) /\ (k <= Len(roq) => k \in a + 1 .. Len(roq))  BY <1>1, <1>2, <1>7
  <2>2. QED  BY <1>3, <2>1
<1>8. ASSUME NEW d \in Descs, inst[d] # NoInst, inst[d].status # "completed"
      PROVE  d \in S /\ (inst[d].status = "issued" => d \in flushed)
  <2>1. PICK k \in 1 .. Len(f) : d = f[k]  BY <1>1, <1>8
  <2>2. ~ (k <= a)  BY <1>1, <1>2, <1>8, <2>1
  <2>3. inst[d].status = "issued" => k <= Len(roq)  BY <1>1, <2>1, Places
  <2>4. QED  BY <1>7, <2>1, <2>2, <2>3
<1>9. /\ NumbersKept(inst, t, S) /\ ReadyKept(inst, t, S) /\ IssuedKept(inst, t, S)
      /\ UsedOnly(t)
  <2>1. NumbersKept(inst, t, S) /\ UsedOnly(t)  BY <1>6 DEF NumbersKept, UsedOnly
  <2>2. \A d \in Descs : inst[d].status \in {"queued", "issued"} => d \in S
    BY <1>1, <1>8 DEF UsedOnly
  <2>3. QED  BY <1>6, <2>1, <2>2 DEF ReadyKept, IssuedKept, Ready
<1>10. /\ Types /\ Awaited(f, inst, odep_list)
       /\ \A u \in Units : Readies(ready_queue[u], u, inst)
       /\ Running(event_queue, inst) /\ InUse(busy, inst)
  BY DEF IInv
<1>11. ASSUME NEW u \in Units
       PROVE  ready_queue'[u] \in Seq(Links) /\ Readies(ready_queue'[u], u, t)
  <2>1. ready_queue'[u] = [i \in DOMAIN ready_queue[u] |-> Outdated(ready_queue[u][i], S)]
    BY <1>4
  <2>2. ready_queue[u] \in Seq(Links)  BY <1>10 DEF Types
  <2>3. Readies(ready_queue[u], u, inst) /\ OneNumber(inst) /\ UsedOnly(inst)  BY <1>1, <1>10
  <2>4. NumbersKept(inst, t, S) /\ ReadyKept(inst, t, S) /\ UsedOnly(t)  BY <1>9
  <2> HIDE DEF t
  <2>5. QED  BY <2>1, <2>2, <2>3, <2>4, ReadiesKept
<1>12. event_queue' \in Seq(Events) /\ Running(event_queue', t)
  <2>1. event_queue \in Seq(Events)  BY <1>10 DEF Types
  <2> HIDE DEF t
  <2>2. QED  BY <1>4, <1>9, <1>10, <2>1, RunningKept
<1>13. ASSUME NEW d \in Descs PROVE odep_list'[d] = {}
  <2>1. odep_list'[d] = IF d \in S THEN {} ELSE {Outdated(link, S) : link \in odep_list[d]}
    BY <1>4 DEF Pruned
  <2>2. SUFFICES ASSUME d \notin S, odep_list[d] # {} PROVE FALSE  BY <2>1
  <2>3. inst[d] # NoInst /\ ~ DoneIn(inst, d)  BY <1>10, <2>2 DEF Awaited
  <2>4. QED  BY <1>8, <2>2, <2>3 DEF DoneIn
<1>14. InUse(busy', t)
  <2>1. \A d \in Descs : inst[d].status = "issued" => d \in flushed  BY <1>1, <1>8 DEF UsedOnly
  <2>2. OperationsKept(t, flushed)  BY <2>1 DEF OperationsKept
  <2> HIDE DEF t
  <2>3. InUse([u \in Units |-> busy[u] /\ u \notin DivUnits(flushed)], t)
    BY <1>10, <2>2, InUseKept
  <2>4. QED  BY <1>4, <2>3
<1>15. 0 \in Levels /\ Levels = 0 .. MaxLevel
  <2>1. MaxLevel \in Nat  BY Assumed
  <2>2. QED  BY <2>1 DEF Levels
<1>16. Types'
  <2>1. odep_list' \in [Descs -> SUBSET Waiters]  BY <1>4, <1>10, PrunedType DEF Types
  <2>2. ready_queue' \in [Units -> Seq(Links)]  BY <1>4, <1>11
  <2>3. create_vector' \in [Levels -> [Regs -> Descs \cup {NoDesc}]]
    <3>1. create_vector \in [Levels -> [Regs -> Descs \cup {NoDesc}]]  BY <1>10 DEF Types
    <3>2. [r \in Regs |-> NoDesc] \in [Regs -> Descs \cup {NoDesc}]  OBVIOUS
    <3>3. QED  BY <1>5, <3>1, <3>2
  <2>4. busy' \in [Units -> BOOLEAN]  BY <1>4, <1>10 DEF Types
  <2>5. inst' \in [Descs -> InstType \cup {NoInst}]  BY <1>5
  <2>6. roq' \in Seq(Descs) /\ decode_data' \in Seq(Descs)  BY <1>5
  <2>7. QED  BY <1>5, <1>12, <1>15, <2>1, <2>2, <2>3, <2>4, <2>5, <2>6 DEF Types
<1>17. \A i \in 1 .. Len(InFlight') : FALSE  BY <1>6
<1>18. Ordered(InFlight', t, Len(roq'), spec_level')
  BY <1>6, <1>17 DEF Ordered, Placed, Increasing
<1>19. Operands(InFlight', t)  BY <1>17 DEF Operands
<1>20. Awaited(InFlight', t, odep_list')  BY <1>13, <1>17 DEF Awaited
<1>21. Creators(InFlight', t, create_vector', spec_level')
  <2>1. ASSUME NEW l \in 0 .. spec_level', NEW r \in Regs PROVE create_vector'[l][r] = NoDesc
    <3>1. l = 0  BY <1>5
    <3>2. create_vector \in [Levels -> [Regs -> Descs \cup {NoDesc}]]  BY <1>10 DEF Types
    <3>3. QED  BY <1>5, <1>15, <3>1, <3>2
  <2>2. QED  BY <1>17, <2>1 DEF Creators
<1>22. QED
  BY <1>11, <1>12, <1>14, <1>16, <1>18, <1>19, <1>20, <1>21 DEF IInv

-----------------------------------------------------------------------------
(***************************************************************************)
(* Steps that change only the status of some instructions: check_brq, and  *)
(* what lsq_stage finds out.                                               *)
(***************************************************************************)

Alike(s, t) ==
  \A d \in Descs : /\ s[d] = NoInst => t[d] = NoInst
                   /\ s[d] # NoInst => t[d] # NoInst /\ Similar(s, t, d)

LEMMA WindowStep ==
  ASSUME IInv, InFlight' = InFlight, spec_level' = spec_level, odep_list' = odep_list,
         create_vector' = create_vector, Alike(inst, inst'),
         Placed(InFlight', inst', Len(roq'), spec_level')
  PROVE  /\ Ordered(InFlight', inst', Len(roq'), spec_level')
         /\ Operands(InFlight', inst') /\ Awaited(InFlight', inst', odep_list')
         /\ Creators(InFlight', inst', create_vector', spec_level')
<1> DEFINE f == InFlight
           t == inst'
<1>1. /\ Types /\ Ordered(f, inst, Len(roq), spec_level)
      /\ Operands(f, inst) /\ Awaited(f, inst, odep_list)
      /\ Creators(f, inst, create_vector, spec_level)
      /\ odep_list \in [Descs -> SUBSET Waiters]
  BY DEF IInv, Types
<1>2. /\ f \in Seq(Descs) /\ Len(f) \in Nat /\ spec_level \in Nat /\ Distinct(f)
      /\ \A i \in 1 .. Len(f) : f[i] \in Descs /\ inst[f[i]] # NoInst
      /\ \A d \in Descs : inst[d] # NoInst => \E i \in 1 .. Len(f) : d = f[i]
  BY Facts
<1>3. \A i \in 1 .. Len(f) : t[f[i]] # NoInst /\ Similar(inst, t, f[i])  BY <1>2 DEF Alike
<1> HIDE DEF f, t
<1>4. Keeps(f, inst, f, t, 0, spec_level)
  <2>1. 0 \in Nat /\ 0 + Len(f) <= Len(f) /\ \A i \in 1 .. Len(f) : 0 + i = i  BY <1>2
  <2>2. (\A i \in 1 .. 0 : FALSE) /\ \A i \in 0 + Len(f) + 1 .. Len(f) : FALSE  BY <1>2
  <2>3. QED  BY <1>2, <1>3, <2>1, <2>2 DEF Keeps
<1>5. Leaving(f, f, 0, {}, {})
  <2>1. \A i \in 1 .. Len(f) : ~ (i > 0 + Len(f))  BY <1>2
  <2>2. QED  BY <2>1 DEF Leaving
<1>6. Pruned(odep_list, {}, {}) = odep_list
  <2>1. \A link : Outdated(link, {}) = link  BY DEF Outdated
  <2>2. \A d \in Descs : {Outdated(link, {}) : link \in odep_list[d]} = odep_list[d]  BY <2>1
  <2>3. Pruned(odep_list, {}, {}) = [d \in Descs |-> odep_list[d]]  BY <2>2 DEF Pruned
  <2>4. QED  BY <1>1, <2>3
<1>7. {d \in Descs : t[d] # NoInst} = {d \in Descs : inst[d] # NoInst}  BY DEF Alike, t
<1>8. Increasing(f, t) /\ Operands(f, t) /\ Creators(f, t, create_vector, spec_level)
  BY <1>1, <1>2, <1>4, IncreasingKept, OperandsKept, CreatorsKept DEF Ordered
<1>9. Awaited(f, t, odep_list)
  <2>1. \A i \in 1 .. Len(f) : t[f[i]] # NoInst  BY <1>3
  <2>2. Awaited(f, t, Pruned(odep_list, {}, {}))
    BY <1>1, <1>2, <1>4, <1>5, <2>1, AwaitedKept
  <2>3. QED  BY <1>6, <2>2
<1>10. Ordered(f, t, Len(roq'), spec_level')
  <2>1. {d \in Descs : inst[d] # NoInst} = {f[i] : i \in 1 .. Len(f)}  BY <1>1 DEF Ordered
  <2>2. Placed(f, t, Len(roq'), spec_level')  BY DEF f, t
  <2>3. QED  BY <1>7, <1>8, <2>1, <2>2 DEF Ordered
<1>11. QED  BY <1>8, <1>9, <1>10 DEF f, t

LEMMA SameQueues ==
  ASSUME IInv, inst' \in [Descs -> InstType \cup {NoInst}], NumbersKept(inst, inst', {}),
         ReadyKept(inst, inst', {}), IssuedKept(inst, inst', {})
  PROVE  /\ \A u \in Units : Readies(ready_queue[u], u, inst')
         /\ Running(event_queue, inst')
<1> DEFINE t == inst'
<1>1. /\ OneNumber(inst) /\ UsedOnly(inst) /\ UsedOnly(t)  BY Facts, Fields DEF UsedOnly
<1>2. /\ \A u \in Units : Readies(ready_queue[u], u, inst)
      /\ \A u \in Units : ready_queue[u] \in Seq(Links)
      /\ Running(event_queue, inst) /\ event_queue \in Seq(Events)
  BY DEF IInv, Types
<1>3. \A link : Outdated(link, {}) = link  BY DEF Outdated
<1> HIDE DEF t
<1>4. ASSUME NEW u \in Units PROVE Readies(ready_queue[u], u, t)
  <2> DEFINE q == ready_queue[u]
  <2>1. q \in Seq(Links) /\ Readies(q, u, inst)  BY <1>2
  <2> HIDE DEF q
  <2>2. [i \in DOMAIN q |-> Outdated(q[i], {})] = q
    <3>1. [i \in DOMAIN q |-> Outdated(q[i], {})] = [i \in DOMAIN q |-> q[i]]  BY <1>3
    <3>2. q \in [1 .. Len(q) -> Links] /\ DOMAIN q = 1 .. Len(q)  BY <2>1, LenProperties, SeqDef
    <3>3. QED  BY <3>1, <3>2
  <2>3. Readies([i \in DOMAIN q |-> Outdated(q[i], {})], u, t)
    <3>1. NumbersKept(inst, t, {}) /\ ReadyKept(inst, t, {})  BY DEF t
    <3>2. QED  BY <1>1, <2>1, <3>1, ReadiesKept
  <2>4. QED  BY <2>2, <2>3 DEF q
<1>5. Running(event_queue, t)
  <2>1. [i \in DOMAIN event_queue |-> Outdated(event_queue[i], {})] = event_queue
    <3>1. [i \in DOMAIN event_queue |-> Outdated(event_queue[i], {})]
            = [i \in DOMAIN event_queue |-> event_queue[i]]
      BY <1>3
    <3>2. event_queue \in [1 .. Len(event_queue) -> Events]
          /\ DOMAIN event_queue = 1 .. Len(event_queue)
      BY <1>2, LenProperties, SeqDef
    <3>3. QED  BY <3>1, <3>2
  <2>2. IssuedKept(inst, t, {})  BY DEF t
  <2>3. QED  BY <1>2, <2>1, <2>2, RunningKept
<1>6. QED  BY <1>4, <1>5 DEF t

\* Instructions whose operation is completed or found too early.
LEMMA StatusStep ==
  ASSUME IInv, inst' \in [Descs -> InstType \cup {NoInst}],
         stage' \in {"commit", "check_brq", "writeback", "issue", "map", "decode"},
         UNCHANGED <<window, spec_level, create_vector, odep_list, ready_queue, event_queue, busy>>,
         Alike(inst, inst'),
         \A d \in Descs : inst[d] # NoInst =>
           /\ inst'[d].fu = inst[d].fu
           /\ inst'[d].status = inst[d].status
              \/ (inst[d].status = "brcompleted" /\ inst'[d].status = "completed")
  PROVE  IInv'
<1> DEFINE f == InFlight
           t == inst'
<1>1. /\ roq' = roq /\ decode_data' = decode_data /\ spec_level' = spec_level
      /\ create_vector' = create_vector /\ odep_list' = odep_list
      /\ ready_queue' = ready_queue /\ event_queue' = event_queue /\ busy' = busy
      /\ InFlight' = InFlight
  BY DEF window, InFlight
<1>2. /\ UsedOnly(inst)
      /\ \A i \in 1 .. Len(f) : f[i] \in Descs /\ inst[f[i]] # NoInst
  BY Facts
<1>3. \A d \in Descs : /\ inst[d] = NoInst => t[d] = NoInst
                       /\ inst[d] # NoInst =>
                            /\ t[d] # NoInst /\ Similar(inst, t, d) /\ t[d].fu = inst[d].fu
                            /\ t[d].status = inst[d].status
                               \/ (inst[d].status = "brcompleted" /\ t[d].status = "completed")
  BY DEF Alike
<1>4. Placed(f, t, Len(roq), spec_level)
  <2>1. SUFFICES ASSUME NEW i \in 1 .. Len(f)
                 PROVE  /\ t[f[i]].level <= spec_level /\ (OpenIn(t, f[i]) => t[f[i]].level < spec_level)
                        /\ t[f[i]].status = "decoded" <=> i > Len(roq)
                        /\ i <= Len(roq) => t[f[i]].fu \in Units
                        /\ t[f[i]].status \in {"decoded", "queued"} \/ t[f[i]].idep_ready
    BY DEF Placed
  <2> DEFINE d == f[i]
  <2>2. Similar(inst, t, d) /\ t[d].fu = inst[d].fu
        /\ (t[d].status = inst[d].status
              \/ (inst[d].status = "brcompleted" /\ t[d].status = "completed"))
    BY <1>2, <1>3
  <2>3. /\ inst[d].level <= spec_level /\ (OpenIn(inst, d) => inst[d].level < spec_level)
        /\ inst[d].status = "decoded" <=> i > Len(roq)
        /\ i <= Len(roq) => inst[d].fu \in Units
        /\ inst[d].status \in {"decoded", "queued"} \/ inst[d].idep_ready
    BY Places
  <2> HIDE DEF d, t
  <2>4. QED  BY <2>2, <2>3 DEF Similar, d
<1>5. /\ Ordered(f, t, Len(roq), spec_level) /\ Operands(f, t) /\ Awaited(f, t, odep_list)
      /\ Creators(f, t, create_vector, spec_level)
  <2>1. Placed(InFlight', inst', Len(roq'), spec_level')  BY <1>1, <1>4
  <2>2. /\ Ordered(InFlight', inst', Len(roq'), spec_level')
        /\ Operands(InFlight', inst') /\ Awaited(InFlight', inst', odep_list')
        /\ Creators(InFlight', inst', create_vector', spec_level')
    BY <1>1, <2>1, WindowStep
  <2>3. QED  BY <1>1, <2>2
<1>6. NumbersKept(inst, t, {})  BY <1>3 DEF NumbersKept, Similar
<1>7. ReadyKept(inst, t, {}) /\ IssuedKept(inst, t, {})
  <2>1. ASSUME NEW d \in Descs
        PROVE  /\ t[d].status = "issued" <=> inst[d].status = "issued"
               /\ \A u \in Units : Ready(t, u, d) <=> Ready(inst, u, d)
    <3>1. CASE inst[d] = NoInst  BY <1>3, <3>1 DEF Ready
    <3>2. CASE inst[d] # NoInst  BY <1>3, <3>2 DEF Ready, Similar
    <3>3. QED  BY <3>1, <3>2
  <2>2. QED  BY <2>1 DEF ReadyKept, IssuedKept
<1>8. (\A u \in Units : Readies(ready_queue[u], u, t)) /\ Running(event_queue, t)
  BY <1>6, <1>7, SameQueues
<1>9. InUse(busy, t)
  <2>1. InUse(busy, inst)  BY DEF IInv
  <2>2. \A d \in Descs : inst[d].status = "issued" =>
          t[d].status = "issued" /\ t[d].op = inst[d].op /\ t[d].fu = inst[d].fu
    BY <1>2, <1>3 DEF UsedOnly, Similar
  <2>3. QED  BY <2>1, <2>2 DEF InUse
<1>10. Types'  BY <1>1 DEF IInv, Types
<1>11. QED  BY <1>1, <1>5, <1>8, <1>9, <1>10 DEF IInv

LEMMA Checking ==
  ASSUME IInv, check_brq
  PROVE  IInv'
<1> DEFINE t == inst'
           R(d) == \E i \in Resolving : roq[i] = d
<1>1. inst \in [Descs -> InstType \cup {NoInst}] /\ roq \in Seq(Descs) /\ UsedOnly(inst)
  BY Facts
<1>2. /\ t = [d \in Descs |-> IF R(d) THEN [inst[d] EXCEPT !.status = "completed"] ELSE inst[d]]
      /\ stage' = "writeback"
      /\ UNCHANGED <<window, spec_level, create_vector, odep_list, ready_queue, event_queue, busy>>
  BY DEF check_brq
<1>3. \A d \in Descs : R(d) => /\ inst[d].status = "brcompleted" /\ inst[d] # NoInst
                               /\ inst[d] \in InstType
  <2>1. \A d \in Descs : R(d) => inst[d].status = "brcompleted"  BY DEF Resolving
  <2>2. QED  BY <1>1, <2>1, Fields DEF UsedOnly
<1> HIDE DEF R
<1>4. \A x \in InstType :
        LET y == [x EXCEPT !.status = "completed"]
        IN  /\ y \in InstType /\ y # NoInst /\ y.op = x.op /\ y.seq = x.seq /\ y.level = x.level
            /\ y.idep_ready = x.idep_ready /\ y.fu = x.fu /\ y.status = "completed"
  <2>1. \A x \in InstType :
          LET y == [x EXCEPT !.status = "completed"]
          IN  /\ y \in InstType /\ y.op = x.op /\ y.seq = x.seq /\ y.level = x.level
              /\ y.idep_ready = x.idep_ready /\ y.fu = x.fu /\ y.status = "completed"
    BY DEF InstType, Status
  <2>2. NoInst.status = "free"  BY DEF NoInst
  <2>3. QED  BY <2>1, <2>2
<1> HIDE DEF t
<1>5. t \in [Descs -> InstType \cup {NoInst}]  BY <1>1, <1>2, <1>3, <1>4
<1>6. ASSUME NEW d \in Descs
      PROVE  /\ inst[d] = NoInst => t[d] = NoInst
             /\ inst[d] # NoInst =>
                  /\ t[d] # NoInst /\ Similar(inst, t, d)
                  /\ t[d].fu = inst[d].fu
                  /\ t[d].status = inst[d].status
                     \/ (inst[d].status = "brcompleted" /\ t[d].status = "completed")
  <2>1. CASE ~ R(d)  BY <1>2, <2>1 DEF Similar, DoneIn, OpenIn
  <2>2. CASE R(d)
    <3>1. t[d] = [inst[d] EXCEPT !.status = "completed"]  BY <1>2, <2>2
    <3>2. QED  BY <1>3, <1>4, <2>2, <3>1 DEF Similar, DoneIn, OpenIn
  <2>3. QED  BY <2>1, <2>2
<1>7. Alike(inst, t)  BY <1>6 DEF Alike
<1>8. \A d \in Descs : inst[d] # NoInst =>
           /\ t[d].fu = inst[d].fu
           /\ t[d].status = inst[d].status
              \/ (inst[d].status = "brcompleted" /\ t[d].status = "completed")
  BY <1>6
<1>9. QED  BY <1>2, <1>5, <1>7, <1>8, StatusStep DEF t

LEMMA MisSpeculating ==
  ASSUME IInv, mis_speculate
  PROVE  IInv'
<1> DEFINE t == inst'
<1>1. PICK d \in Range(roq) : /\ inst[d].status \in {"issued", "completed"}
                              /\ inst' = [inst EXCEPT ![d].ex = TRUE]
  BY DEF mis_speculate
<1>2. inst \in [Descs -> InstType \cup {NoInst}] /\ roq \in Seq(Descs) /\ UsedOnly(inst)
  BY Facts
<1>3. d \in Descs  BY <1>1, <1>2, Elements, ElementOfSeq
<1>4. inst[d] # NoInst /\ inst[d] \in InstType
  <2>1. inst[d].status # "free"  BY <1>1
  <2>2. QED  BY <1>2, <1>3, <2>1, Fields
<1>5. /\ t[d] \in InstType /\ t[d].op = inst[d].op /\ t[d].seq = inst[d].seq
      /\ t[d].level = inst[d].level /\ t[d].idep_ready = inst[d].idep_ready
      /\ t[d].fu = inst[d].fu /\ t[d].status = inst[d].status
  <2>1. t[d] = [inst[d] EXCEPT !.ex = TRUE]  BY <1>1, <1>2, <1>3
  <2> HIDE DEF t
  <2>2. QED  BY <1>4, <2>1 DEF InstType
<1>6. \A e \in Descs : e # d => t[e] = inst[e]  BY <1>1, <1>2
<1>7. t \in [Descs -> InstType \cup {NoInst}]
  <2>1. t = [e \in Descs |-> t[e]]  BY <1>1, <1>2
  <2> HIDE DEF t
  <2>2. \A e \in Descs : t[e] \in InstType \cup {NoInst}  BY <1>2, <1>5, <1>6
  <2>3. QED  BY <2>1, <2>2
<1>8. t[d] # NoInst  BY <1>1, <1>5 DEF NoInst
<1>9. /\ stage' = stage
      /\ UNCHANGED <<window, spec_level, create_vector, odep_list, ready_queue, event_queue, busy>>
  BY DEF mis_speculate
<1> HIDE DEF t
<1>10. Alike(inst, t)
  <2>1. ASSUME NEW e \in Descs
        PROVE  /\ inst[e] = NoInst => t[e] = NoInst
               /\ inst[e] # NoInst => t[e] # NoInst /\ Similar(inst, t, e)
    <3>1. CASE e = d  BY <1>4, <1>5, <1>8, <3>1 DEF Similar, DoneIn, OpenIn
    <3>2. CASE e # d  BY <1>6, <3>2 DEF Similar, DoneIn, OpenIn
    <3>3. QED  BY <3>1, <3>2
  <2>2. QED  BY <2>1 DEF Alike
<1>11. \A e \in Descs : inst[e] # NoInst =>
           /\ t[e].fu = inst[e].fu
           /\ t[e].status = inst[e].status
              \/ (inst[e].status = "brcompleted" /\ t[e].status = "completed")
  BY <1>5, <1>6
<1>12. stage' \in {"commit", "check_brq", "writeback", "issue", "map", "decode"}
  BY <1>9 DEF IInv, Types
<1>13. QED  BY <1>7, <1>9, <1>10, <1>11, <1>12, StatusStep DEF t

-----------------------------------------------------------------------------
(***************************************************************************)
(* Cycles without an instruction to map or to decode.                      *)
(***************************************************************************)

LEMMA Ticking ==
  ASSUME NEW q \in Seq(Events), NEW s, NEW t, Running(q, s), IssuedKept(s, t, {})
  PROVE  LET r == [i \in DOMAIN q |-> [q[i] EXCEPT !.wait = @ - 1]]
         IN  r \in Seq(Events) /\ Running(r, t)
<1> DEFINE r == [i \in DOMAIN q |-> [q[i] EXCEPT !.wait = @ - 1]]
<1>1. DOMAIN q = 1 .. Len(q) /\ Len(q) \in Nat  BY LenProperties
<1>2. \A i \in 1 .. Len(q) : q[i] \in Events  BY ElementOfSeq
<1>3. \A x \in Events : LET y == [x EXCEPT !.wait = @ - 1]
                        IN  y \in Events /\ y.rs = x.rs /\ y.valid = x.valid
  BY DEF Events
<1>4. \A i \in 1 .. Len(q) : r[i] \in Events /\ r[i].rs = q[i].rs /\ r[i].valid = q[i].valid
  BY <1>1, <1>2, <1>3
<1>5. r \in Seq(Events) /\ Len(r) = Len(q)
  <2>1. r = [i \in 1 .. Len(q) |-> r[i]]  BY <1>1
  <2> HIDE DEF r
  <2>2. r \in [1 .. Len(q) -> Events]  BY <1>4, <2>1
  <2>3. QED  BY <1>1, <2>2, SeqDef, LenProperties
<1> HIDE DEF r
<1>6. \A i \in 1 .. Len(q) : q[i].rs \in Descs
  <2>1. \A link \in Events : link.rs \in Descs  BY DEF Events
  <2>2. QED  BY <1>2, <2>1
<1>7. \A d \in Descs : t[d].status = "issued" <=> s[d].status = "issued"  BY DEF IssuedKept
<1>8. \A k \in 1 .. Len(q) : r[k].valid => t[r[k].rs].status = "issued"
  BY <1>4, <1>6, <1>7 DEF Running
<1>9. ASSUME NEW d \in Descs, t[d].status = "issued"
      PROVE  \E k \in 1 .. Len(q) : r[k].valid /\ r[k].rs = d
  <2>1. s[d].status = "issued"  BY <1>7, <1>9
  <2>2. PICK k \in 1 .. Len(q) : q[k].valid /\ q[k].rs = d  BY <2>1 DEF Running
  <2>3. QED  BY <1>4, <2>2
<1>10. OneEach(r)
  <2>1. OneEach(q)  BY DEF Running
  <2>2. \A k \in 1 .. Len(q) : \A i \in k + 1 .. Len(q) : i \in 1 .. Len(q)  BY <1>1
  <2>3. QED  BY <1>4, <1>5, <2>1, <2>2 DEF OneEach
<1>11. Running(r, t)  BY <1>5, <1>8, <1>9, <1>10 DEF Running
<1>12. QED  BY <1>5, <1>11 DEF r

LEMMA MappingNone ==
  ASSUME IInv, map_none
  PROVE  IInv'
<1>1. /\ roq' = roq /\ decode_data' = decode_data /\ spec_level' = spec_level /\ inst' = inst
      /\ create_vector' = create_vector /\ odep_list' = odep_list
      /\ ready_queue' = ready_queue /\ event_queue' = event_queue /\ busy' = busy
      /\ InFlight' = InFlight /\ stage' = "decode"
  BY DEF map_none, window, InFlight
<1>2. Types'  BY <1>1 DEF IInv, Types
<1>3. QED  BY <1>1, <1>2 DEF IInv

LEMMA DecodingNone ==
  ASSUME IInv, decode_none
  PROVE  IInv'
<1>1. /\ roq' = roq /\ decode_data' = decode_data /\ spec_level' = spec_level /\ inst' = inst
      /\ create_vector' = create_vector /\ odep_list' = odep_list
      /\ ready_queue' = ready_queue /\ busy' = busy
      /\ event_queue' = [i \in DOMAIN event_queue |-> [event_queue[i] EXCEPT !.wait = @ - 1]]
      /\ InFlight' = InFlight /\ stage' = "commit"
  BY DEF decode_none, NextCycle, window, InFlight
<1>2. event_queue \in Seq(Events) /\ Running(event_queue, inst)  BY DEF IInv, Types
<1>3. IssuedKept(inst, inst, {})  BY DEF IssuedKept
<1>4. event_queue' \in Seq(Events) /\ Running(event_queue', inst)
  BY <1>1, <1>2, <1>3, Ticking
<1>5. Types'  BY <1>1, <1>4 DEF IInv, Types
<1>6. QED  BY <1>1, <1>4, <1>5 DEF IInv

-----------------------------------------------------------------------------
(***************************************************************************)
(* writeback_stage.                                                        *)
(***************************************************************************)

\* An instruction has one source at most.
LEMMA OneSource ==
  ASSUME NEW f, NEW s, NEW i \in Nat, NEW j \in 1 .. i - 1, NEW k \in 1 .. i - 1,
         Source(f, s, j, i), Source(f, s, k, i)
  PROVE  j = k
<1>1. SUFFICES ASSUME j # k PROVE FALSE  OBVIOUS
<1>2. k \in j + 1 .. i - 1 \/ j \in k + 1 .. i - 1  BY <1>1
<1>3. QED  BY <1>2 DEF Source

SameOps(f, s, t) ==
  \A i \in 1 .. Len(f) : t[f[i]].op = s[f[i]].op /\ t[f[i]].level = s[f[i]].level

LEMMA SourceSame ==
  ASSUME NEW A, NEW f \in Seq(A), NEW s, NEW t, SameOps(f, s, t),
         NEW i \in 1 .. Len(f), NEW j \in 1 .. Len(f)
  PROVE  Source(f, t, j, i) <=> Source(f, s, j, i)
<1>1. \A k \in j + 1 .. i - 1 : k \in 1 .. Len(f)  BY LenProperties
<1>2. \A k \in 1 .. Len(f) : t[f[k]].op = s[f[k]].op  BY DEF SameOps
<1>3. QED  BY <1>1, <1>2 DEF Source

LEMMA CreatesSame ==
  ASSUME NEW A, NEW f \in Seq(A), NEW s, NEW t, SameOps(f, s, t),
         NEW l, NEW r, NEW j \in 1 .. Len(f)
  PROVE  Creates(f, t, l, r, j) <=> Creates(f, s, l, r, j)
<1>1. \A k \in j + 1 .. Len(f) : k \in 1 .. Len(f)  BY LenProperties
<1>2. \A k \in 1 .. Len(f) : t[f[k]].op = s[f[k]].op /\ t[f[k]].level = s[f[k]].level
  BY DEF SameOps
<1>3. QED  BY <1>1, <1>2 DEF Creates

Enqueue(q0, S) == FoldSet(LAMBDA d, q : Enqueued(q, d), q0, S)

\* Those that are due are in flight and issued; what waits for them is not.
LEMMA DueAndWoken ==
  ASSUME IInv
  PROVE  /\ \A d \in Due : d \in Descs /\ inst[d].status = "issued" /\ inst[d] # NoInst
         /\ \A d \in Descs : d \in Due <=>
              \E k \in 1 .. Expired : event_queue[k].valid /\ event_queue[k].rs = d
         /\ Expired \in 0 .. Len(event_queue)
         /\ \A d \in Woken(Due) : /\ d \in Descs /\ inst[d] # NoInst /\ ~ inst[d].idep_ready
                                  /\ inst[d].status \in {"decoded", "queued"}
         /\ \A i \in 1 .. Len(InFlight) : InFlight[i] \in Woken(Due) <=>
              \E j \in 1 .. i - 1 : Source(InFlight, inst, j, i) /\ InFlight[j] \in Due
<1> DEFINE f == InFlight
           p == Expired
           D == Due
           W == Woken(Due)
<1>1. /\ f \in Seq(Descs) /\ Len(f) \in Nat /\ UsedOnly(inst)
      /\ inst \in [Descs -> InstType \cup {NoInst}]
      /\ \A i \in 1 .. Len(f) : f[i] \in Descs /\ inst[f[i]] # NoInst
      /\ \A d \in Descs : inst[d] # NoInst => \E i \in 1 .. Len(f) : d = f[i]
  BY Facts, LenProperties
<1>2. /\ event_queue \in Seq(Events) /\ Running(event_queue, inst) /\ Operands(f, inst)
      /\ Awaited(f, inst, odep_list) /\ odep_list \in [Descs -> SUBSET Waiters]
  BY DEF IInv, Types
<1>3. p \in 0 .. Len(event_queue) /\ Len(event_queue) \in Nat
  <2> DEFINE K == {i \in DOMAIN event_queue : event_queue[i].wait <= 0}
  <2>1. Len(event_queue) \in Nat /\ K \in SUBSET (1 .. Len(event_queue))  BY <1>2, LenProperties
  <2>2. p = Prefix(K)  BY DEF Expired
  <2> HIDE DEF p, K
  <2>3. QED  BY <2>1, <2>2, PrefixEnds
<1>4. \A k \in 1 .. Len(event_queue) : event_queue[k].rs \in Descs
  <2>1. \A link \in Events : link.rs \in Descs  BY DEF Events
  <2>2. \A k \in 1 .. Len(event_queue) : event_queue[k] \in Events  BY <1>2, ElementOfSeq
  <2>3. QED  BY <2>1, <2>2
<1>5. \A d \in Descs : d \in D <=> \E k \in 1 .. p : event_queue[k].valid /\ event_queue[k].rs = d
  BY DEF Due
<1>6. \A d \in D : d \in Descs /\ \E k \in 1 .. p : event_queue[k].valid /\ event_queue[k].rs = d
  <2>1. \A k \in 1 .. p : k \in 1 .. Len(event_queue)  BY <1>3
  <2>2. QED  BY <1>4, <2>1 DEF Due
<1>7. ASSUME NEW d \in D
      PROVE  /\ d \in Descs /\ inst[d].status = "issued" /\ inst[d] # NoInst /\ ~ DoneIn(inst, d)
  <2>1. PICK k \in 1 .. p : event_queue[k].valid /\ event_queue[k].rs = d  BY <1>6
  <2>2. k \in 1 .. Len(event_queue)  BY <1>3
  <2>3. d \in Descs /\ inst[d].status = "issued"  BY <1>2, <1>6, <2>1, <2>2 DEF Running
  <2>4. QED  BY <1>1, <2>3 DEF UsedOnly, DoneIn
<1> HIDE DEF p, D
<1>8. ASSUME NEW e \in W
      PROVE  \E i \in 1 .. Len(f) : \E j \in 1 .. i - 1 : f[i] = e /\ Source(f, inst, j, i) /\ f[j] \in D
  <2>1. PICK d \in D : \E link \in odep_list[d] : link.valid /\ link.rs = e  BY DEF Woken, D
  <2>2. PICK link \in odep_list[d] : link.valid /\ link.rs = e  BY <2>1
  <2>3. PICK i \in 1 .. Len(f), j \in 1 .. Len(f) :
              j < i /\ f[j] = d /\ f[i] = link.rs /\ Source(f, inst, j, i)
    BY <1>2, <1>7, <2>2 DEF Awaited
  <2>4. j \in 1 .. i - 1  BY <1>1, <2>3
  <2>5. QED  BY <2>2, <2>3, <2>4
<1>9. ASSUME NEW i \in 1 .. Len(f), NEW j \in 1 .. i - 1, Source(f, inst, j, i), f[j] \in D
      PROVE  f[i] \in W
  <2>1. j \in 1 .. Len(f) /\ j < i  BY <1>1
  <2>2. [rs |-> f[i], valid |-> TRUE] \in odep_list[f[j]]
    BY <1>2, <1>7, <1>9, <2>1 DEF Awaited
  <2>3. QED  BY <1>9, <2>2 DEF Woken, D
<1>10. ASSUME NEW e \in W
       PROVE  /\ e \in Descs /\ inst[e] # NoInst /\ ~ inst[e].idep_ready
              /\ inst[e].status \in {"decoded", "queued"}
  <2>1. PICK i \in 1 .. Len(f) : \E j \in 1 .. i - 1 : f[i] = e /\ Source(f, inst, j, i) /\ f[j] \in D
    BY <1>8
  <2>2. PICK j \in 1 .. i - 1 : f[i] = e /\ Source(f, inst, j, i) /\ f[j] \in D  BY <2>1
  <2>3. ~ DoneIn(inst, f[j])  BY <1>7, <2>2
  <2>4. ~ inst[f[i]].idep_ready
    <3>1. inst[f[i]].idep_ready => \A k \in 1 .. i - 1 : Source(f, inst, k, i) => DoneIn(inst, f[k])
      BY <1>2 DEF Operands
    <3>2. QED  BY <2>2, <2>3, <3>1
  <2>5. inst[f[i]].status \in {"decoded", "queued"} \/ inst[f[i]].idep_ready  BY Places DEF f
  <2>6. QED  BY <1>1, <2>2, <2>4, <2>5
<1>11. \A i \in 1 .. Len(f) :
         f[i] \in W <=> \E j \in 1 .. i - 1 : Source(f, inst, j, i) /\ f[j] \in D
  <2>1. ASSUME NEW i \in 1 .. Len(f), f[i] \in W
        PROVE  \E j \in 1 .. i - 1 : Source(f, inst, j, i) /\ f[j] \in D
    <3>1. PICK h \in 1 .. Len(f) :
                 \E j \in 1 .. h - 1 : f[h] = f[i] /\ Source(f, inst, j, h) /\ f[j] \in D
      BY <1>8, <2>1
    <3>2. Distinct(f)  BY Facts
    <3>3. h = i \/ h \in i + 1 .. Len(f) \/ i \in h + 1 .. Len(f)  BY <1>1
    <3>4. h = i  BY <3>1, <3>2, <3>3 DEF Distinct
    <3>5. QED  BY <3>1, <3>4
  <2>2. QED  BY <1>9, <2>1
<1>12. QED  BY <1>3, <1>5, <1>7, <1>10, <1>11 DEF p, D

\* What writeback_stage makes of a descriptor.
LEMMA WrittenBack ==
  ASSUME IInv, writeback
  PROVE  /\ inst' \in [Descs -> InstType \cup {NoInst}]
         /\ \A d \in Descs : inst[d] = NoInst => inst'[d] = NoInst
         /\ \A d \in Descs : inst[d] # NoInst =>
              /\ inst'[d] # NoInst /\ inst'[d].op = inst[d].op /\ inst'[d].seq = inst[d].seq
              /\ inst'[d].level = inst[d].level /\ inst'[d].fu = inst[d].fu
              /\ inst'[d].status = IF d \in Due
                                   THEN IF IsCtrl(d) THEN "brcompleted" ELSE "completed"
                                   ELSE inst[d].status
              /\ inst'[d].idep_ready = (inst[d].idep_ready \/ d \in Woken(Due))
<1> DEFINE t == inst'
           D == Due
           W == Woken(Due)
<1>1. inst \in [Descs -> InstType \cup {NoInst}]  BY Facts
<1>2. /\ \A d \in D : d \in Descs /\ inst[d].status = "issued" /\ inst[d] # NoInst
      /\ \A d \in W : /\ d \in Descs /\ inst[d] # NoInst /\ ~ inst[d].idep_ready
                      /\ inst[d].status \in {"decoded", "queued"}
  BY DueAndWoken
<1>3. t = [d \in Descs |->
            IF d \in D
            THEN [inst[d] EXCEPT !.status = IF IsCtrl(d) THEN "brcompleted" ELSE "completed"]
            ELSE IF d \in W THEN [inst[d] EXCEPT !.idep_ready = TRUE] ELSE inst[d]]
  BY DEF writeback
<1> HIDE DEF t, D, W
<1>4. \A x \in InstType : \A st \in {"brcompleted", "completed"} :
        LET y == [x EXCEPT !.status = st]
        IN  /\ y \in InstType /\ y.op = x.op /\ y.seq = x.seq /\ y.level = x.level
            /\ y.idep_ready = x.idep_ready /\ y.fu = x.fu /\ y.status = st
  BY DEF InstType, Status
<1>5. \A x \in InstType :
        LET y == [x EXCEPT !.idep_ready = TRUE]
        IN  /\ y \in InstType /\ y.op = x.op /\ y.seq = x.seq /\ y.level = x.level
            /\ y.idep_ready = TRUE /\ y.fu = x.fu /\ y.status = x.status
  BY DEF InstType
<1>6. NoInst \notin InstType
  <2>1. \A x \in InstType : x.status # "free"  BY DEF InstType, Status
  <2>2. QED  BY <2>1 DEF NoInst
<1>7. ASSUME NEW d \in Descs, inst[d] = NoInst PROVE t[d] = NoInst
  BY <1>2, <1>3, <1>7
<1>8. ASSUME NEW d \in Descs, inst[d] # NoInst
      PROVE  /\ t[d] \in InstType /\ t[d].op = inst[d].op /\ t[d].seq = inst[d].seq
             /\ t[d].level = inst[d].level /\ t[d].fu = inst[d].fu
             /\ t[d].status = IF d \in D THEN IF IsCtrl(d) THEN "brcompleted" ELSE "completed"
                              ELSE inst[d].status
             /\ t[d].idep_ready = (inst[d].idep_ready \/ d \in W)
  <2>1. inst[d] \in InstType /\ inst[d].idep_ready \in BOOLEAN  BY <1>1, <1>8, Fields
  <2>2. CASE d \in D
    <3> DEFINE st == IF IsCtrl(d) THEN "brcompleted" ELSE "completed"
    <3>1. st \in {"brcompleted", "completed"}  OBVIOUS
    <3>2. t[d] = [inst[d] EXCEPT !.status = st]  BY <1>3, <2>2
    <3>3. d \notin W  BY <1>2, <2>2
    <3> HIDE DEF st
    <3>4. /\ t[d] \in InstType /\ t[d].op = inst[d].op /\ t[d].seq = inst[d].seq
          /\ t[d].level = inst[d].level /\ t[d].fu = inst[d].fu /\ t[d].status = st
          /\ t[d].idep_ready = inst[d].idep_ready
      <4> DEFINE x == inst[d]
                 y == [x EXCEPT !.status = st]
      <4>1. /\ y \in InstType /\ y.op = x.op /\ y.seq = x.seq /\ y.level = x.level
            /\ y.idep_ready = x.idep_ready /\ y.fu = x.fu /\ y.status = st
        <5> HIDE DEF x
        <5>1. x \in InstType  BY <2>1 DEF x
        <5>2. QED  BY <1>4, <3>1, <5>1
      <4>2. QED  BY <3>2, <4>1
    <3>5. (inst[d].idep_ready \/ d \in W) = inst[d].idep_ready  BY <2>1, <3>3
    <3>6. QED  BY <2>2, <3>4, <3>5 DEF st
  <2>3. CASE d \notin D /\ d \in W
    <3>1. t[d] = [inst[d] EXCEPT !.idep_ready = TRUE]  BY <1>3, <2>3
    <3>2. /\ t[d] \in InstType /\ t[d].op = inst[d].op /\ t[d].seq = inst[d].seq
          /\ t[d].level = inst[d].level /\ t[d].fu = inst[d].fu /\ t[d].status = inst[d].status
          /\ t[d].idep_ready = TRUE
      BY <1>5, <2>1, <3>1
    <3>3. (inst[d].idep_ready \/ d \in W) = TRUE  BY <2>1, <2>3
    <3>4. QED  BY <2>3, <3>2, <3>3
  <2>4. CASE d \notin D /\ d \notin W
    <3>1. t[d] = inst[d]  BY <1>3, <2>4
    <3>2. (inst[d].idep_ready \/ d \in W) = inst[d].idep_ready  BY <2>1, <2>4
    <3>3. QED  BY <2>1, <2>4, <3>1, <3>2
  <2>5. QED  BY <2>2, <2>3, <2>4
<1>9. t \in [Descs -> InstType \cup {NoInst}]
  <2>1. \A d \in Descs : t[d] \in InstType \cup {NoInst}  BY <1>7, <1>8
  <2>2. t = [d \in Descs |-> t[d]]  BY <1>3
  <2>3. QED  BY <2>1, <2>2
<1>10. QED  BY <1>6, <1>7, <1>8, <1>9 DEF t, D, W

LEMMA WritingBackWindow ==
  ASSUME IInv, writeback
  PROVE  /\ Ordered(InFlight', inst', Len(roq'), spec_level')
         /\ Operands(InFlight', inst') /\ Awaited(InFlight', inst', odep_list')
         /\ Creators(InFlight', inst', create_vector', spec_level')
<1> DEFINE f == InFlight
           t == inst'
           D == Due
           W == Woken(Due)
<1>1. /\ f \in Seq(Descs) /\ Len(f) \in Nat /\ UsedOnly(inst) /\ Distinct(f)
      /\ inst \in [Descs -> InstType \cup {NoInst}] /\ spec_level \in Nat
      /\ \A i \in 1 .. Len(f) : f[i] \in Descs /\ inst[f[i]] # NoInst
  BY Facts, LenProperties
<1>2. /\ Operands(f, inst) /\ Awaited(f, inst, odep_list) /\ Ordered(f, inst, Len(roq), spec_level)
      /\ Creators(f, inst, create_vector, spec_level)
      /\ odep_list \in [Descs -> SUBSET Waiters]
      /\ create_vector \in [Levels -> [Regs -> Descs \cup {NoDesc}]]
      /\ spec_level \in Levels
  BY DEF IInv, Types
<1>3. /\ \A d \in D : d \in Descs /\ inst[d].status = "issued" /\ inst[d] # NoInst
      /\ \A i \in 1 .. Len(f) : f[i] \in W <=>
           \E j \in 1 .. i - 1 : Source(f, inst, j, i) /\ f[j] \in D
  BY DueAndWoken
<1>4. /\ \A d \in Descs : inst[d] = NoInst => t[d] = NoInst
      /\ \A d \in Descs : inst[d] # NoInst =>
              /\ t[d] # NoInst /\ t[d].op = inst[d].op /\ t[d].seq = inst[d].seq
              /\ t[d].level = inst[d].level /\ t[d].fu = inst[d].fu
              /\ t[d].status = IF d \in D THEN IF IsCtrl(d) THEN "brcompleted" ELSE "completed"
                               ELSE inst[d].status
              /\ t[d].idep_ready = (inst[d].idep_ready \/ d \in W)
  BY WrittenBack
<1>5. /\ InFlight' = f /\ Len(roq') = Len(roq) /\ spec_level' = spec_level
      /\ odep_list' = [d \in Descs |-> IF d \in D THEN {} ELSE odep_list[d]]
  BY DEF writeback, window, InFlight
<1>6. \A l \in Levels, r \in Regs :
        create_vector'[l][r] = IF \E d \in D : inst[d].op.out = r /\ Clears(d, l) THEN NoDesc
                               ELSE create_vector[l][r]
  <2>1. update_create_vector(D)  BY DEF writeback
  <2>2. create_vector' = [l \in Levels |-> [r \in Regs |->
          IF \E d \in D : inst[d].op.out = r /\ Clears(d, l) THEN NoDesc ELSE create_vector[l][r]]]
    BY <2>1 DEF update_create_vector
  <2> HIDE DEF D
  <2>3. QED  BY <2>2
<1> HIDE DEF f, t, D, W
<1>7. ASSUME NEW i \in 1 .. Len(f)
      PROVE  /\ DoneIn(t, f[i]) <=> DoneIn(inst, f[i]) \/ f[i] \in D
             /\ OpenIn(t, f[i]) => OpenIn(inst, f[i])
  <2> DEFINE d == f[i]
  <2>1. d \in Descs /\ inst[d] # NoInst /\ inst[d].op \in Instructions  BY <1>1, Fields
  <2>2. /\ t[d].op = inst[d].op
        /\ t[d].status = IF d \in D THEN IF IsCtrl(d) THEN "brcompleted" ELSE "completed"
                         ELSE inst[d].status
        /\ d \in D => inst[d].status = "issued"
    BY <1>3, <1>4, <2>1
  <2>3. DoneIn(t, d) <=> DoneIn(inst, d) \/ d \in D  BY <2>2 DEF DoneIn
  <2>4. inst[d].op.mis_predict => IsCtrl(d)  BY <2>1, Assumed DEF IsCtrl
  <2>5. OpenIn(t, d) => OpenIn(inst, d)  BY <2>2, <2>4 DEF OpenIn
  <2>6. QED  BY <2>3, <2>5
<1>8. SameOps(f, inst, t)  BY <1>1, <1>4 DEF SameOps
<1>9. \A i \in 1 .. Len(f), j \in 1 .. Len(f) : Source(f, t, j, i) <=> Source(f, inst, j, i)
  BY <1>1, <1>8, SourceSame
<1>10. Ordered(f, t, Len(roq), spec_level)
  <2>1. {d \in Descs : t[d] # NoInst} = {d \in Descs : inst[d] # NoInst}  BY <1>4
  <2>2. {d \in Descs : inst[d] # NoInst} = {f[i] : i \in 1 .. Len(f)}  BY <1>2 DEF Ordered
  <2>3. Placed(f, t, Len(roq), spec_level)
    <3>1. SUFFICES ASSUME NEW i \in 1 .. Len(f)
                   PROVE  /\ t[f[i]].level <= spec_level
                          /\ (OpenIn(t, f[i]) => t[f[i]].level < spec_level)
                          /\ t[f[i]].status = "decoded" <=> i > Len(roq)
                          /\ i <= Len(roq) => t[f[i]].fu \in Units
                          /\ t[f[i]].status \in {"decoded", "queued"} \/ t[f[i]].idep_ready
      BY DEF Placed
    <3> DEFINE d == f[i]
    <3>2. /\ inst[d].level <= spec_level /\ (OpenIn(inst, d) => inst[d].level < spec_level)
          /\ inst[d].status = "decoded" <=> i > Len(roq)
          /\ i <= Len(roq) => inst[d].fu \in Units
          /\ inst[d].status \in {"decoded", "queued"} \/ inst[d].idep_ready
      BY Places DEF f
    <3>3. /\ t[d].level = inst[d].level /\ t[d].fu = inst[d].fu
          /\ t[d].status = IF d \in D THEN IF IsCtrl(d) THEN "brcompleted" ELSE "completed"
                           ELSE inst[d].status
          /\ t[d].idep_ready = (inst[d].idep_ready \/ d \in W)
          /\ OpenIn(t, d) => OpenIn(inst, d)
      BY <1>1, <1>4, <1>7
    <3>4. d \in D => inst[d].status = "issued"  BY <1>3
    <3> HIDE DEF d
    <3>5. t[d].status = "decoded" <=> i > Len(roq)  BY <3>2, <3>3, <3>4
    <3>6. t[d].status \in {"decoded", "queued"} \/ t[d].idep_ready
      <4>1. CASE d \in D  BY <3>2, <3>3, <3>4, <4>1
      <4>2. CASE d \notin D
        <5>1. t[d].status = inst[d].status  BY <3>3, <4>2
        <5>2. QED  BY <3>2, <3>3, <5>1
      <4>3. QED  BY <4>1, <4>2
    <3>7. QED  BY <3>2, <3>3, <3>5, <3>6 DEF d
  <2>4. Increasing(f, t)
    <3>1. SUFFICES ASSUME NEW i \in 1 .. Len(f), NEW j \in i + 1 .. Len(f)
                   PROVE  /\ f[i] # f[j] /\ t[f[i]].seq < t[f[j]].seq /\ t[f[i]].level <= t[f[j]].level
                          /\ OpenIn(t, f[i]) => t[f[i]].level < t[f[j]].level
      BY DEF Increasing
    <3>2. j \in 1 .. Len(f)  BY <1>1
    <3>3. /\ f[i] # f[j] /\ inst[f[i]].seq < inst[f[j]].seq /\ inst[f[i]].level <= inst[f[j]].level
          /\ OpenIn(inst, f[i]) => inst[f[i]].level < inst[f[j]].level
      BY <1>2 DEF Ordered, Increasing
    <3>4. \A k \in 1 .. Len(f) : t[f[k]].seq = inst[f[k]].seq /\ t[f[k]].level = inst[f[k]].level
      BY <1>1, <1>4
    <3>5. QED  BY <1>7, <3>2, <3>3, <3>4
  <2>5. QED  BY <2>1, <2>2, <2>3, <2>4 DEF Ordered
<1>11. Operands(f, t)
  <2>1. SUFFICES ASSUME NEW i \in 1 .. Len(f)
                 PROVE  t[f[i]].idep_ready <=>
                          \A j \in 1 .. i - 1 : Source(f, t, j, i) => DoneIn(t, f[j])
    BY DEF Operands
  <2>2. /\ \A j \in 1 .. i - 1 : j \in 1 .. Len(f)
        /\ i \in Nat
    BY <1>1
  <2>3. inst[f[i]].idep_ready <=> \A j \in 1 .. i - 1 : Source(f, inst, j, i) => DoneIn(inst, f[j])
    BY <1>2 DEF Operands
  <2>4. t[f[i]].idep_ready <=> inst[f[i]].idep_ready \/ f[i] \in W  BY <1>1, <1>4
  <2>5. \A j \in 1 .. i - 1 : /\ Source(f, t, j, i) <=> Source(f, inst, j, i)
                              /\ DoneIn(t, f[j]) <=> DoneIn(inst, f[j]) \/ f[j] \in D
    BY <1>7, <1>9, <2>2
  <2>6. CASE f[i] \in W
    <3>1. PICK k \in 1 .. i - 1 : Source(f, inst, k, i) /\ f[k] \in D  BY <1>3, <2>6
    <3>2. \A j \in 1 .. i - 1 : Source(f, inst, j, i) => j = k  BY <2>2, <3>1, OneSource
    <3>3. QED  BY <2>4, <2>5, <2>6, <3>1, <3>2
  <2>7. CASE f[i] \notin W
    <3>1. \A j \in 1 .. i - 1 : Source(f, inst, j, i) => f[j] \notin D  BY <1>3, <2>7
    <3>2. QED  BY <2>3, <2>4, <2>5, <2>7, <3>1
  <2>8. QED  BY <2>6, <2>7
<1>12. Awaited(f, t, odep_list')
  <2>1. \A d \in Descs : odep_list'[d] = IF d \in D THEN {} ELSE odep_list[d]  BY <1>5
  <2>2. ASSUME NEW d \in Descs, NEW link \in odep_list'[d], link.valid
        PROVE  \E i \in 1 .. Len(f), j \in 1 .. Len(f) :
                 j < i /\ f[j] = d /\ f[i] = link.rs /\ Source(f, t, j, i)
    <3>1. link \in odep_list[d]
      <4>1. odep_list'[d] = {} \/ odep_list'[d] = odep_list[d]  BY <2>1
      <4>2. QED  BY <2>2, <4>1
    <3>2. \E i \in 1 .. Len(f), j \in 1 .. Len(f) :
                 j < i /\ f[j] = d /\ f[i] = link.rs /\ Source(f, inst, j, i)
      BY <1>2, <2>2, <3>1 DEF Awaited
    <3>3. QED  BY <1>9, <3>2
  <2>3. ASSUME NEW i \in 1 .. Len(f), NEW j \in 1 .. Len(f),
               j < i, Source(f, t, j, i), ~ DoneIn(t, f[j])
        PROVE  [rs |-> f[i], valid |-> TRUE] \in odep_list'[f[j]]
    <3>1. Source(f, inst, j, i) /\ ~ DoneIn(inst, f[j]) /\ f[j] \notin D  BY <1>7, <1>9, <2>3
    <3>2. [rs |-> f[i], valid |-> TRUE] \in odep_list[f[j]]  BY <1>2, <2>3, <3>1 DEF Awaited
    <3>3. odep_list'[f[j]] = odep_list[f[j]]  BY <1>1, <2>1, <3>1
    <3>4. QED  BY <3>2, <3>3
  <2>4. ASSUME NEW d \in Descs, odep_list'[d] # {}
        PROVE  t[d] # NoInst /\ ~ DoneIn(t, d)
    <3>1. d \notin D /\ odep_list[d] # {}
      <4>1. odep_list'[d] = IF d \in D THEN {} ELSE odep_list[d]  BY <2>1
      <4>2. QED  BY <2>4, <4>1
    <3>2. inst[d] # NoInst /\ ~ DoneIn(inst, d)  BY <1>2, <3>1 DEF Awaited
    <3>3. t[d] # NoInst /\ t[d].status = inst[d].status  BY <1>4, <3>1, <3>2
    <3>4. QED  BY <3>2, <3>3 DEF DoneIn
  <2>5. QED  BY <2>2, <2>3, <2>4 DEF Awaited
<1>13. Creators(f, t, create_vector', spec_level)
  <2>1. SUFFICES ASSUME NEW l \in 0 .. spec_level, NEW r \in Regs
                 PROVE  /\ \A j \in 1 .. Len(f) : Creates(f, t, l, r, j) =>
                             create_vector'[l][r] = IF DoneIn(t, f[j]) THEN NoDesc ELSE f[j]
                        /\ create_vector'[l][r] # NoDesc => \E j \in 1 .. Len(f) : Creates(f, t, l, r, j)
    BY DEF Creators
  <2>2. \A k \in 0 .. spec_level : k \in Levels  BY <1>2, Assumed DEF Levels
  <2>3. create_vector'[l][r] = IF \E d \in D : inst[d].op.out = r /\ Clears(d, l) THEN NoDesc
                               ELSE create_vector[l][r]
    BY <1>6, <2>2
  <2>4. \A k \in 0 .. spec_level :
          /\ \A j \in 1 .. Len(f) : Creates(f, inst, k, r, j) =>
               create_vector[k][r] = IF DoneIn(inst, f[j]) THEN NoDesc ELSE f[j]
          /\ create_vector[k][r] # NoDesc => \E j \in 1 .. Len(f) : Creates(f, inst, k, r, j)
    BY <1>2 DEF Creators
  <2>5. \A j \in 1 .. Len(f) : Creates(f, t, l, r, j) <=> Creates(f, inst, l, r, j)
    BY <1>1, <1>8, CreatesSame
  <2>6. ASSUME NEW j \in 1 .. Len(f), Creates(f, t, l, r, j)
        PROVE  create_vector'[l][r] = IF DoneIn(t, f[j]) THEN NoDesc ELSE f[j]
    <3>1. Creates(f, inst, l, r, j)  BY <2>5, <2>6
    <3>2. create_vector[l][r] = IF DoneIn(inst, f[j]) THEN NoDesc ELSE f[j]  BY <2>4, <3>1
    <3>3. CASE DoneIn(inst, f[j])  BY <1>7, <2>3, <3>2, <3>3
    <3>4. CASE ~ DoneIn(inst, f[j]) /\ f[j] \notin D
      <4>1. ASSUME NEW d \in D, inst[d].op.out = r, Clears(d, l) PROVE FALSE
        <5>1. inst[d].level \in Nat /\ l \in inst[d].level .. spec_level  BY <1>1, <1>3, <4>1, Fields DEF Clears
        <5>2. l \in inst[d].level .. l  BY <5>1
        <5>3. create_vector[l][r] = d  BY <4>1, <5>2 DEF Clears
        <5>4. QED  BY <3>2, <3>4, <5>3
      <4>2. create_vector'[l][r] = f[j]  BY <2>3, <3>2, <3>4, <4>1
      <4>3. QED  BY <1>7, <3>4, <4>2
    <3>5. CASE f[j] \in D
      <4>1. inst[f[j]].level \in Nat /\ inst[f[j]].level <= l /\ inst[f[j]].op.out = r
            /\ \A k \in j + 1 .. Len(f) : inst[f[k]].op.out = r => inst[f[k]].level > l
        BY <1>1, <3>1, Fields DEF Creates
      <4>2. ~ DoneIn(inst, f[j])  BY <1>3, <3>5 DEF DoneIn
      <4>3. ASSUME NEW k \in inst[f[j]].level .. l PROVE create_vector[k][r] = f[j]
        <5>1. k \in 0 .. spec_level /\ inst[f[j]].level <= k /\ k <= l  BY <1>1, <4>1
        <5>2. ASSUME NEW h \in j + 1 .. Len(f), inst[f[h]].op.out = r PROVE inst[f[h]].level > k
          <6>1. h \in 1 .. Len(f) /\ inst[f[h]].level > l  BY <1>1, <4>1, <5>2
          <6>2. inst[f[h]].level \in Nat  BY <1>1, <6>1, Fields
          <6>3. QED  BY <1>1, <5>1, <6>1, <6>2
        <5>3. Creates(f, inst, k, r, j)  BY <4>1, <5>1, <5>2 DEF Creates
        <5>4. QED  BY <2>4, <4>2, <5>1, <5>3
      <4>4. l \in inst[f[j]].level .. spec_level  BY <1>1, <4>1
      <4>5. Clears(f[j], l)  BY <4>1, <4>3, <4>4 DEF Clears
      <4>6. create_vector'[l][r] = NoDesc  BY <2>3, <3>5, <4>1, <4>5
      <4>7. QED  BY <1>7, <3>5, <4>6
    <3>6. QED  BY <3>3, <3>4, <3>5
  <2>7. ASSUME create_vector'[l][r] # NoDesc PROVE \E j \in 1 .. Len(f) : Creates(f, t, l, r, j)
    <3>1. create_vector[l][r] # NoDesc  BY <2>3, <2>7
    <3>2. QED  BY <2>4, <2>5, <3>1
  <2>8. QED  BY <2>6, <2>7
<1>14. /\ Ordered(InFlight', inst', Len(roq'), spec_level')
       /\ Operands(InFlight', inst') /\ Awaited(InFlight', inst', odep_list')
  BY <1>5, <1>10, <1>11, <1>12 DEF t
<1>15. Creators(InFlight', inst', create_vector', spec_level')  BY <1>5, <1>13 DEF t
<1>16. QED  BY <1>14, <1>15

\* readyq_enqueue for a unit: A becomes ready.
LEMMA Enqueueing ==
  ASSUME IInv, NEW u \in Units, NEW A \in SUBSET Descs, NEW t,
         \A d \in A : inst[d] # NoInst /\ ~ Ready(inst, u, d),
         NumbersKept(inst, t, {}), UsedOnly(t), ReadyAdded(t, u, A)
  PROVE  LET r == Enqueue(ready_queue[u], A) IN r \in Seq(Links) /\ Readies(r, u, t)
<1> DEFINE q == ready_queue[u]
           r == Enqueue(q, A)
<1>1. q \in Seq(Links) /\ Readies(q, u, inst)  BY DEF IInv, Types
<1>2. /\ UsedOnly(inst) /\ OneNumber(inst)
      /\ inst \in [Descs -> InstType \cup {NoInst}]
  BY Facts
<1>3. IsFiniteSet(A)  BY Assumed, FS_Subset
<1>4. \A d \in A : d \in Descs /\ inst[d] # NoInst /\ inst[d].seq \in Nat  BY <1>2, Fields
<1>5. \A k \in 1 .. Len(q) : q[k].rs \in Descs
  <2>1. \A link \in Links : link.rs \in Descs  BY DEF Links
  <2>2. \A k \in 1 .. Len(q) : q[k] \in Links  BY <1>1, ElementOfSeq
  <2>3. QED  BY <2>1, <2>2
<1> HIDE DEF q, r
<1>6. ASSUME NEW d \in A, NEW k \in 1 .. Len(q) PROVE q[k].seq # inst[d].seq
  <2>1. CASE q[k].valid
    <3>1. Ready(inst, u, q[k].rs) /\ inst[q[k].rs].seq = q[k].seq  BY <1>1, <2>1 DEF Readies
    <3>2. q[k].rs # d /\ inst[q[k].rs] # NoInst
      BY <1>2, <1>5, <3>1 DEF UsedOnly, Ready
    <3>3. QED  BY <1>2, <1>4, <1>5, <3>1, <3>2 DEF OneNumber
  <2>2. CASE ~ q[k].valid  BY <1>1, <1>4, <2>2 DEF Readies
  <2>3. QED  BY <2>1, <2>2
<1>7. \A d \in A, e \in A : d # e => inst[d].seq # inst[e].seq  BY <1>2, <1>4 DEF OneNumber
<1>8. BySeq(q)  BY <1>1 DEF Readies
<1>9. r \in Seq(Links) /\ BySeq(r) /\ MergedIn(q, r, {NewLink(d) : d \in A})
  <2>1. /\ Enqueue(q, A) \in Seq(Links) /\ BySeq(Enqueue(q, A))
        /\ MergedIn(q, Enqueue(q, A), {NewLink(d) : d \in A})
    BY <1>1, <1>3, <1>4, <1>6, <1>7, <1>8, EnqueueAll DEF Enqueue
  <2>2. QED  BY <2>1 DEF r
<1>10. Readies(r, u, t)  BY <1>1, <1>9, ReadiesMerged
<1>11. QED  BY <1>9, <1>10 DEF r, q

LEMMA WritingBackQueues ==
  ASSUME IInv, writeback
  PROVE  /\ ready_queue' \in [Units -> Seq(Links)]
         /\ \A u \in Units : Readies(ready_queue'[u], u, inst')
         /\ event_queue' \in Seq(Events) /\ Running(event_queue', inst')
         /\ busy' \in [Units -> BOOLEAN] /\ InUse(busy', inst')
<1> DEFINE t == inst'
           D == Due
           W == Woken(Due)
           p == Expired
<1>1. /\ UsedOnly(inst) /\ OneNumber(inst)
      /\ inst \in [Descs -> InstType \cup {NoInst}]
  BY Facts
<1>2. /\ \A u \in Units : Readies(ready_queue[u], u, inst)
      /\ ready_queue \in [Units -> Seq(Links)]
      /\ event_queue \in Seq(Events) /\ Running(event_queue, inst)
      /\ busy \in [Units -> BOOLEAN] /\ InUse(busy, inst)
  BY DEF IInv, Types
<1>3. /\ \A d \in D : d \in Descs /\ inst[d].status = "issued" /\ inst[d] # NoInst
      /\ \A d \in Descs : d \in D <=>
           \E k \in 1 .. p : event_queue[k].valid /\ event_queue[k].rs = d
      /\ p \in 0 .. Len(event_queue)
      /\ \A d \in W : /\ d \in Descs /\ inst[d] # NoInst /\ ~ inst[d].idep_ready
                      /\ inst[d].status \in {"decoded", "queued"}
  BY DueAndWoken
<1>4. /\ t \in [Descs -> InstType \cup {NoInst}]
      /\ \A d \in Descs : inst[d] = NoInst => t[d] = NoInst
      /\ \A d \in Descs : inst[d] # NoInst =>
              /\ t[d] # NoInst /\ t[d].op = inst[d].op /\ t[d].seq = inst[d].seq
              /\ t[d].level = inst[d].level /\ t[d].fu = inst[d].fu
              /\ t[d].status = IF d \in D THEN IF IsCtrl(d) THEN "brcompleted" ELSE "completed"
                               ELSE inst[d].status
              /\ t[d].idep_ready = (inst[d].idep_ready \/ d \in W)
  BY WrittenBack
<1>5. /\ event_queue' = From(event_queue, p + 1)
      /\ busy' = [u \in Units |-> busy[u] /\ u \notin DivUnits(D)]
  BY DEF writeback
<1>6. \A u \in Units : ready_queue'[u]
        = Enqueue(ready_queue[u], {d \in W : inst[d].status = "queued" /\ inst[d].fu = u})
  <2>1. SUFFICES ASSUME NEW u \in Units
                 PROVE  ready_queue'[u] = Enqueue(ready_queue[u],
                          {d \in W : inst[d].status = "queued" /\ inst[d].fu = u})
    OBVIOUS
  <2> DEFINE S == {d \in W : inst[d].status = "queued"}
             fu == [d \in W |-> inst[d].fu]
  <2>2. readyq_enqueue(S, fu)  BY DEF writeback
  <2>3. ready_queue'[u] = Enqueue(ready_queue[u], {d \in S : fu[d] = u})
    BY <2>2 DEF readyq_enqueue, Enqueue
  <2>4. {d \in S : fu[d] = u} = {d \in W : inst[d].status = "queued" /\ inst[d].fu = u}  OBVIOUS
  <2>5. QED  BY <2>3, <2>4
<1>7. ready_queue' = [u \in Units |-> ready_queue'[u]]
  <2> DEFINE S == {d \in W : inst[d].status = "queued"}
             fu == [d \in W |-> inst[d].fu]
  <2>1. readyq_enqueue(S, fu)  BY DEF writeback
  <2>2. ready_queue' = [u \in Units |-> Enqueue(ready_queue[u], {d \in S : fu[d] = u})]
    BY <2>1 DEF readyq_enqueue, Enqueue
  <2> HIDE DEF S, fu
  <2>3. QED  BY <2>2
<1> HIDE DEF t, D, W, p
<1>8. NumbersKept(inst, t, {}) /\ UsedOnly(t)
  <2>1. NumbersKept(inst, t, {})  BY <1>4 DEF NumbersKept
  <2>2. UsedOnly(t)  BY <1>4, Fields DEF UsedOnly
  <2>3. QED  BY <2>1, <2>2
<1>9. ASSUME NEW d \in Descs
      PROVE  /\ t[d].status = "queued" <=> inst[d].status = "queued"
             /\ t[d].status = "issued" <=> inst[d].status = "issued" /\ d \notin D
             /\ t[d].status = "queued" => /\ t[d].fu = inst[d].fu
                                          /\ t[d].idep_ready <=> inst[d].idep_ready \/ d \in W
  <2>1. CASE inst[d] = NoInst
    <3>1. t[d] = inst[d]  BY <1>4, <2>1
    <3>2. inst[d].status = "free"  BY <2>1 DEF NoInst
    <3>3. QED  BY <3>1, <3>2
  <2>2. CASE inst[d] # NoInst  BY <1>3, <1>4, <2>2
  <2>3. QED  BY <2>1, <2>2
<1>10. ASSUME NEW u \in Units
       PROVE  ready_queue'[u] \in Seq(Links) /\ Readies(ready_queue'[u], u, t)
  <2> DEFINE A == {d \in W : inst[d].status = "queued" /\ inst[d].fu = u}
             r == ready_queue'[u]
  <2>1. r = Enqueue(ready_queue[u], A) /\ A \in SUBSET Descs  BY <1>3, <1>6
  <2>2. \A d \in A : /\ d \in W /\ inst[d] # NoInst /\ ~ inst[d].idep_ready
                     /\ inst[d].status = "queued" /\ inst[d].fu = u
    BY <1>3
  <2>3. \A d \in Descs : d \in W /\ inst[d].status = "queued" /\ inst[d].fu = u => d \in A
    OBVIOUS
  <2> HIDE DEF A, r
  <2>4. \A d \in A : inst[d] # NoInst /\ ~ Ready(inst, u, d)  BY <2>2 DEF Ready
  <2>5. ReadyAdded(t, u, A)
    <3>1. SUFFICES ASSUME NEW d \in Descs PROVE Ready(t, u, d) <=> Ready(inst, u, d) \/ d \in A
      BY DEF ReadyAdded
    <3>2. QED  BY <1>9, <2>2, <2>3 DEF Ready
  <2>6. LET e == Enqueue(ready_queue[u], A) IN e \in Seq(Links) /\ Readies(e, u, t)
    BY <1>8, <2>1, <2>4, <2>5, Enqueueing
  <2>7. QED  BY <2>1, <2>6 DEF r
<1>11. event_queue' \in Seq(Events) /\ Running(event_queue', t)
  <2> DEFINE q == event_queue
             r == From(q, p + 1)
  <2>1. /\ r \in Seq(Events) /\ Len(r) = Len(q) - p
        /\ \A i \in 1 .. Len(q) - p : r[i] = q[p + i]
    <3>1. q \in Seq(Events) /\ p \in 0 .. Len(q)  BY <1>2, <1>3
    <3> HIDE DEF q
    <3>2. QED  BY <3>1, Rest
  <2>2. Len(q) \in Nat /\ p \in Nat /\ p <= Len(q)  BY <1>2, <1>3, LenProperties
  <2> HIDE DEF r
  <2>3. \A k \in 1 .. Len(r) : /\ p + k \in 1 .. Len(q) /\ r[k] = q[p + k]
                               /\ \A h \in 1 .. p : p + k \in h + 1 .. Len(q) /\ h \in 1 .. Len(q)
    BY <2>1, <2>2
  <2>4. \A k \in 1 .. Len(q) : q[k].rs \in Descs
    <3>1. \A link \in Events : link.rs \in Descs  BY DEF Events
    <3>2. \A k \in 1 .. Len(q) : q[k] \in Events  BY <1>2, ElementOfSeq
    <3>3. QED  BY <3>1, <3>2
  <2>5. ASSUME NEW k \in 1 .. Len(r), r[k].valid PROVE t[r[k].rs].status = "issued"
    <3>4. p + k \in 1 .. Len(q) /\ r[k] = q[p + k]  BY <2>3
    <3>5. \A h \in 1 .. Len(q) : q[h].valid => inst[q[h].rs].status = "issued"
      BY <1>2 DEF Running
    <3>1. inst[r[k].rs].status = "issued" /\ r[k].rs \in Descs  BY <2>4, <2>5, <3>4, <3>5
    <3>2. r[k].rs \notin D
      <4>1. SUFFICES ASSUME r[k].rs \in D PROVE FALSE  OBVIOUS
      <4>2. PICK h \in 1 .. p : q[h].valid /\ q[h].rs = r[k].rs  BY <1>3, <3>1, <4>1
      <4>3. OneEach(q)  BY <1>2 DEF Running
      <4>4. QED  BY <2>3, <2>5, <4>2, <4>3 DEF OneEach
    <3>3. QED  BY <1>9, <3>1, <3>2
  <2>6. ASSUME NEW d \in Descs, t[d].status = "issued"
        PROVE  \E k \in 1 .. Len(r) : r[k].valid /\ r[k].rs = d
    <3>1. inst[d].status = "issued" /\ d \notin D  BY <1>9, <2>6
    <3>2. PICK k \in 1 .. Len(q) : q[k].valid /\ q[k].rs = d  BY <1>2, <3>1 DEF Running
    <3>3. ~ (k \in 1 .. p)  BY <1>3, <3>1, <3>2
    <3>4. k - p \in 1 .. Len(r) /\ p + (k - p) = k  BY <2>1, <2>2, <3>3
    <3>5. QED  BY <2>3, <3>2, <3>4
  <2>7. OneEach(r)
    <3>1. OneEach(q)  BY <1>2 DEF Running
    <3>2. \A k \in 1 .. Len(r) : \A i \in k + 1 .. Len(r) :
            i \in 1 .. Len(r) /\ p + i \in (p + k) + 1 .. Len(q)
      BY <2>1, <2>2
    <3>3. SUFFICES ASSUME NEW k \in 1 .. Len(r), NEW i \in k + 1 .. Len(r),
                          r[k].valid, r[i].valid
                   PROVE  r[k].rs # r[i].rs
      BY DEF OneEach
    <3>4. i \in 1 .. Len(r) /\ p + i \in (p + k) + 1 .. Len(q)  BY <3>2
    <3>5. /\ p + k \in 1 .. Len(q) /\ r[k] = q[p + k] /\ r[i] = q[p + i]  BY <2>3, <3>4
    <3>6. QED  BY <3>1, <3>3, <3>4, <3>5 DEF OneEach
  <2>8. Running(r, t)  BY <2>5, <2>6, <2>7 DEF Running
  <2>9. QED  BY <1>5, <2>1, <2>8 DEF r
<1>12. busy' \in [Units -> BOOLEAN] /\ InUse(busy', t)
  <2>1. OperationsKept(t, D)
    <3>1. SUFFICES ASSUME NEW d \in Descs, inst[d].status = "issued", d \notin D
                   PROVE  t[d].status = "issued" /\ t[d].op = inst[d].op /\ t[d].fu = inst[d].fu
      BY DEF OperationsKept
    <3>2. inst[d] # NoInst  BY <1>1, <3>1 DEF UsedOnly
    <3>3. QED  BY <1>4, <3>1, <3>2
  <2>2. InUse([u \in Units |-> busy[u] /\ u \notin DivUnits(D)], t)
    BY <1>2, <2>1, InUseKept
  <2>3. QED  BY <1>2, <1>5, <2>2
<1>13. ready_queue' \in [Units -> Seq(Links)]  BY <1>7, <1>10
<1>14. QED  BY <1>10, <1>11, <1>12, <1>13 DEF t

LEMMA WritingBack ==
  ASSUME IInv, writeback
  PROVE  IInv'
<1>1. /\ roq' = roq /\ decode_data' = decode_data /\ spec_level' = spec_level
      /\ stage' = "issue"
  BY DEF writeback, window
<1>2. inst' \in [Descs -> InstType \cup {NoInst}]  BY WrittenBack
<1>3. odep_list' \in [Descs -> SUBSET Waiters]
  <2>1. odep_list \in [Descs -> SUBSET Waiters]  BY DEF IInv, Types
  <2>2. odep_list' = [d \in Descs |-> IF d \in Due THEN {} ELSE odep_list[d]]  BY DEF writeback
  <2>3. QED  BY <2>1, <2>2
<1>4. create_vector' \in [Levels -> [Regs -> Descs \cup {NoDesc}]]
  <2>1. create_vector \in [Levels -> [Regs -> Descs \cup {NoDesc}]]  BY DEF IInv, Types
  <2>2. update_create_vector(Due)  BY DEF writeback
  <2>3. create_vector' = [l \in Levels |-> [r \in Regs |->
          IF \E d \in Due : inst[d].op.out = r /\ Clears(d, l) THEN NoDesc ELSE create_vector[l][r]]]
    BY <2>2 DEF update_create_vector
  <2>4. \A l \in Levels, r \in Regs : create_vector[l][r] \in Descs \cup {NoDesc}  BY <2>1
  <2>5. QED  BY <2>3, <2>4
<1>5. Types'  BY <1>1, <1>2, <1>3, <1>4, WritingBackQueues DEF IInv, Types
<1>6. QED  BY <1>5, WritingBackWindow, WritingBackQueues DEF IInv

-----------------------------------------------------------------------------
(***************************************************************************)
(* issue_stage.                                                            *)
(***************************************************************************)

\* The links behind those that are not valid; only next is changed.
LEMMA RechosenLinks ==
  ASSUME NEW q \in Seq(Links)
  PROVE  /\ Rechosen(q) \in Seq(Links)
         /\ \E p \in 0 .. Len(q) :
              /\ \A i \in 1 .. p : ~ q[i].valid
              /\ Len(Rechosen(q)) = Len(q) - p
              /\ \A i \in 1 .. Len(q) - p :
                   /\ Rechosen(q)[i].rs = q[p + i].rs /\ Rechosen(q)[i].seq = q[p + i].seq
                   /\ Rechosen(q)[i].valid = q[p + i].valid
                   /\ Rechosen(q)[i].next => i = 1
<1> DEFINE K == {i \in DOMAIN q : ~ q[i].valid}
           p == Prefix(K)
           g == next_valid_node(q)
           r == Rechosen(q)
<1>1. Len(q) \in Nat /\ K \in SUBSET (1 .. Len(q))  BY LenProperties
<1>2. p \in 0 .. Len(q) /\ \A i \in 1 .. p : i \in K
  <2> HIDE DEF K
  <2>1. QED  BY <1>1, PrefixEnds
<1>3. g = From(q, 1 + p)  BY DEF next_valid_node
<1>4. r = [i \in DOMAIN g |-> [g[i] EXCEPT !.next = ~ sim_has_bypass /\ i = 1]]  BY DEF Rechosen
<1>5. \A i \in 1 .. p : ~ q[i].valid  BY <1>2
<1> HIDE DEF K, p, g, r
<1>6. 1 + p = p + 1  BY <1>1, <1>2
<1>7. g \in Seq(Links) /\ Len(g) = Len(q) - p /\ \A i \in 1 .. Len(q) - p : g[i] = q[p + i]
  <2>1. g = From(q, p + 1)  BY <1>3, <1>6
  <2>2. /\ From(q, p + 1) \in Seq(Links) /\ Len(From(q, p + 1)) = Len(q) - p
        /\ \A i \in 1 .. Len(q) - p : From(q, p + 1)[i] = q[p + i]
    BY <1>2, Rest
  <2>3. QED  BY <2>1, <2>2
<1>8. DOMAIN g = 1 .. Len(q) - p /\ Len(q) - p \in Nat  BY <1>1, <1>2, <1>7, LenProperties
<1>9. \A x \in Links : \A b \in BOOLEAN :
        LET y == [x EXCEPT !.next = b]
        IN  y \in Links /\ y.rs = x.rs /\ y.seq = x.seq /\ y.valid = x.valid /\ y.next = b
  BY DEF Links
<1>10. \A i \in 1 .. Len(q) - p : g[i] \in Links  BY <1>7, ElementOfSeq
<1>11. ASSUME NEW i \in 1 .. Len(q) - p
       PROVE  /\ r[i] \in Links /\ r[i].rs = q[p + i].rs /\ r[i].seq = q[p + i].seq
              /\ r[i].valid = q[p + i].valid /\ (r[i].next => i = 1)
  <2> DEFINE b == ~ sim_has_bypass /\ i = 1
  <2>1. b \in BOOLEAN /\ (b => i = 1)  OBVIOUS
  <2>2. r[i] = [g[i] EXCEPT !.next = b]  BY <1>4, <1>8
  <2> HIDE DEF b
  <2>3. QED  BY <1>7, <1>9, <1>10, <2>1, <2>2
<1>12. r \in [1 .. Len(q) - p -> Links]
  <2>1. DOMAIN r = 1 .. Len(q) - p /\ r = [i \in 1 .. Len(q) - p |-> r[i]]  BY <1>4, <1>8
  <2>2. QED  BY <1>11, <2>1
<1>13. r \in Seq(Links) /\ Len(r) = Len(q) - p  BY <1>8, <1>12, SeqDef, LenProperties
<1>14. QED  BY <1>2, <1>5, <1>11, <1>13 DEF r

LEMMA RechosenReadies ==
  ASSUME NEW q \in Seq(Links), NEW u, NEW t, Readies(q, u, t)
  PROVE  Readies(Rechosen(q), u, t)
<1> DEFINE r == Rechosen(q)
<1>1. PICK p \in 0 .. Len(q) :
        /\ \A i \in 1 .. p : ~ q[i].valid
        /\ Len(r) = Len(q) - p
        /\ \A i \in 1 .. Len(q) - p :
             /\ r[i].rs = q[p + i].rs /\ r[i].seq = q[p + i].seq
             /\ r[i].valid = q[p + i].valid /\ (r[i].next => i = 1)
  BY RechosenLinks
<1>2. Len(q) \in Nat  BY LenProperties
<1> HIDE DEF r
<1>3. \A k \in 1 .. Len(r) : p + k \in 1 .. Len(q) /\ k \in 1 .. Len(q) - p  BY <1>1, <1>2
<1>4. ASSUME NEW k \in 1 .. Len(r)
      PROVE  IF r[k].valid THEN Ready(t, u, r[k].rs) /\ t[r[k].rs].seq = r[k].seq
             ELSE \A d \in Descs : t[d] # NoInst => t[d].seq # r[k].seq
  <2>1. p + k \in 1 .. Len(q) /\ k \in 1 .. Len(q) - p  BY <1>3
  <2>2. /\ r[k].rs = q[p + k].rs /\ r[k].seq = q[p + k].seq
        /\ r[k].valid = q[p + k].valid
    BY <1>1, <2>1
  <2>3. \A h \in 1 .. Len(q) :
          IF q[h].valid THEN Ready(t, u, q[h].rs) /\ t[q[h].rs].seq = q[h].seq
          ELSE \A d \in Descs : t[d] # NoInst => t[d].seq # q[h].seq
    BY DEF Readies
  <2>4. QED  BY ONLY <2>1, <2>2, <2>3
<1>5. ASSUME NEW d \in Descs, Ready(t, u, d)
      PROVE  \E k \in 1 .. Len(r) : r[k].valid /\ r[k].rs = d
  <2>1. PICK k \in 1 .. Len(q) : q[k].valid /\ q[k].rs = d  BY <1>5 DEF Readies
  <2>2. ~ (k \in 1 .. p)  BY <1>1, <2>1
  <2>3. k - p \in 1 .. Len(r) /\ p + (k - p) = k  BY <1>1, <1>2, <2>2
  <2>4. k - p \in 1 .. Len(q) - p  BY <1>3, <2>3
  <2>5. r[k - p].valid /\ r[k - p].rs = d  BY <1>1, <2>1, <2>3, <2>4
  <2>6. QED  BY <2>3, <2>5
<1>6. \A k \in 1 .. Len(r) : \A i \in k + 1 .. Len(r) :
        /\ i \in 1 .. Len(r) /\ p + i \in (p + k) + 1 .. Len(q) /\ i # 1
  BY <1>1, <1>2
<1>7. BySeq(r)
  <2>1. BySeq(q)  BY DEF Readies
  <2>2. QED  BY <1>1, <1>3, <1>6, <2>1 DEF BySeq
<1>8. OneNext(r)  BY <1>1, <1>3, <1>6 DEF OneNext
<1>9. QED  BY <1>4, <1>5, <1>7, <1>8 DEF Readies, r

\* A link that is not valid any more is taken out, with the instruction.
LEMMA DeletedReadies ==
  ASSUME NEW q \in Seq(Links), NEW u, NEW s, NEW t, NEW i \in 1 .. Len(q), q[i].valid,
         Readies(q, u, s), NumbersKept(s, t, {}), UsedOnly(t),
         \A d \in Descs : Ready(t, u, d) <=> Ready(s, u, d) /\ d # q[i].rs
  PROVE  Readies(delete_node(q, i), u, t)
<1> DEFINE r == delete_node(q, i)
           h(k) == IF k < i THEN k ELSE k + 1
<1>1. Len(q) \in Nat  BY LenProperties
<1>2. Len(r) = Len(q) - 1 /\ \A k \in 1 .. Len(q) - 1 : r[k] = IF k < i THEN q[k] ELSE q[k + 1]
  BY Deleting
<1> HIDE DEF r
<1>3. \A k \in 1 .. Len(r) : /\ h(k) \in 1 .. Len(q) /\ r[k] = q[h(k)]
                             /\ h(k) # i /\ (h(k) \in i + 1 .. Len(q) \/ i \in h(k) + 1 .. Len(q))
  BY <1>1, <1>2
<1>4. \A k \in 1 .. Len(r) : \A j \in k + 1 .. Len(r) :
        j \in 1 .. Len(r) /\ h(j) \in h(k) + 1 .. Len(q)
  BY <1>1, <1>2
<1>5. \A k \in 1 .. Len(q) : k # i => \E j \in 1 .. Len(r) : h(j) = k
  <2>1. SUFFICES ASSUME NEW k \in 1 .. Len(q), k # i PROVE \E j \in 1 .. Len(r) : h(j) = k
    OBVIOUS
  <2>2. CASE k < i
    <3>1. k \in 1 .. Len(r) /\ h(k) = k  BY <1>1, <1>2, <2>1, <2>2
    <3>2. QED  BY <3>1
  <2>3. CASE ~ (k < i)
    <3>1. k - 1 \in 1 .. Len(r) /\ h(k - 1) = k  BY <1>1, <1>2, <2>1, <2>3
    <3>2. QED  BY <3>1
  <2>4. QED  BY <2>2, <2>3
<1>6. \A k \in 1 .. Len(q) : q[k].rs \in Descs /\ q[k].seq \in Nat
  <2>1. \A link \in Links : link.rs \in Descs /\ link.seq \in Nat  BY DEF Links
  <2>2. \A k \in 1 .. Len(q) : q[k] \in Links  BY ElementOfSeq
  <2>3. QED  BY <2>1, <2>2
<1> HIDE DEF h
<1>7. BySeq(q) /\ OneNext(q)  BY DEF Readies
<1>8. \A k \in 1 .. Len(q) : q[k].valid => Ready(s, u, q[k].rs) /\ s[q[k].rs].seq = q[k].seq
  BY DEF Readies
<1>9. ASSUME NEW k \in 1 .. Len(r), r[k].valid
      PROVE  Ready(t, u, r[k].rs) /\ t[r[k].rs].seq = r[k].seq
  <2>1. h(k) \in 1 .. Len(q) /\ r[k] = q[h(k)]  BY <1>3
  <2>2. q[h(k)].seq # q[i].seq
    <3>1. h(k) \in i + 1 .. Len(q) \/ i \in h(k) + 1 .. Len(q)  BY <1>3
    <3>2. q[h(k)].seq < q[i].seq \/ q[i].seq < q[h(k)].seq  BY <1>7, <2>1, <3>1 DEF BySeq
    <3>3. QED  BY <1>6, <2>1, <3>2
  <2>3. Ready(s, u, r[k].rs) /\ s[r[k].rs].seq = r[k].seq /\ s[q[i].rs].seq = q[i].seq
    BY <1>8, <1>9, <2>1
  <2>4. r[k].rs # q[i].rs /\ r[k].rs \in Descs  BY <1>6, <2>1, <2>2, <2>3
  <2>5. Ready(t, u, r[k].rs)  BY <2>3, <2>4
  <2>6. t[r[k].rs] # NoInst  BY <2>4, <2>5 DEF Ready, UsedOnly
  <2>7. QED  BY <2>3, <2>4, <2>5, <2>6 DEF NumbersKept
<1>10. ASSUME NEW k \in 1 .. Len(r), ~ r[k].valid, NEW d \in Descs, t[d] # NoInst
       PROVE  t[d].seq # r[k].seq
  <2>1. h(k) \in 1 .. Len(q) /\ r[k] = q[h(k)]  BY <1>3
  <2>2. s[d] # NoInst /\ t[d].seq = s[d].seq  BY <1>10 DEF NumbersKept
  <2>3. s[d].seq # q[h(k)].seq  BY <1>10, <2>1, <2>2 DEF Readies
  <2>4. QED  BY <2>1, <2>2, <2>3
<1>11. ASSUME NEW d \in Descs, Ready(t, u, d)
       PROVE  \E k \in 1 .. Len(r) : r[k].valid /\ r[k].rs = d
  <2>1. Ready(s, u, d) /\ d # q[i].rs  BY <1>11
  <2>2. PICK k \in 1 .. Len(q) : q[k].valid /\ q[k].rs = d  BY <2>1 DEF Readies
  <2>3. PICK j \in 1 .. Len(r) : h(j) = k  BY <1>5, <2>1, <2>2
  <2>4. QED  BY <1>3, <2>2, <2>3
<1>12. BySeq(r)  BY <1>3, <1>4, <1>7 DEF BySeq
<1>13. OneNext(r)  BY <1>3, <1>4, <1>7 DEF OneNext
<1>14. QED  BY <1>9, <1>10, <1>11, <1>12, <1>13 DEF Readies, r

LEMMA SameReadies ==
  ASSUME NEW q \in Seq(Links), NEW u, NEW s, NEW t,
         Readies(q, u, s), NumbersKept(s, t, {}), UsedOnly(t),
         \A d \in Descs : Ready(t, u, d) <=> Ready(s, u, d)
  PROVE  Readies(q, u, t)
<1>1. \A k \in 1 .. Len(q) : q[k].rs \in Descs
  <2>1. \A link \in Links : link.rs \in Descs  BY DEF Links
  <2>2. \A k \in 1 .. Len(q) : q[k] \in Links  BY ElementOfSeq
  <2>3. QED  BY <2>1, <2>2
<1>2. ASSUME NEW k \in 1 .. Len(q), q[k].valid
      PROVE  Ready(t, u, q[k].rs) /\ t[q[k].rs].seq = q[k].seq
  <2>1. Ready(s, u, q[k].rs) /\ s[q[k].rs].seq = q[k].seq  BY <1>2 DEF Readies
  <2>2. Ready(t, u, q[k].rs)  BY <1>1, <2>1
  <2>3. t[q[k].rs] # NoInst  BY <1>1, <2>2 DEF Ready, UsedOnly
  <2>4. QED  BY <1>1, <2>1, <2>2, <2>3 DEF NumbersKept
<1>3. ASSUME NEW k \in 1 .. Len(q), ~ q[k].valid, NEW d \in Descs, t[d] # NoInst
      PROVE  t[d].seq # q[k].seq
  <2>1. s[d] # NoInst /\ t[d].seq = s[d].seq  BY <1>3 DEF NumbersKept
  <2>2. QED  BY <1>3, <2>1 DEF Readies
<1>4. ASSUME NEW d \in Descs, Ready(t, u, d) PROVE \E k \in 1 .. Len(q) : q[k].valid /\ q[k].rs = d
  BY <1>4 DEF Readies
<1>5. BySeq(q) /\ OneNext(q)  BY DEF Readies
<1>6. QED  BY <1>2, <1>3, <1>4, <1>5 DEF Readies

Issued == UNION {{ready_queue[u][i].rs : i \in Issuing(u)} : u \in Units}

\* A unit issues one of its ready instructions, or none.
LEMMA OneIssuing ==
  ASSUME IInv, NEW u \in Units, NEW i \in Issuing(u)
  PROVE  /\ i \in 1 .. Len(ready_queue[u]) /\ ready_queue[u][i].valid
         /\ ready_queue[u][i].rs \in Descs /\ Ready(inst, u, ready_queue[u][i].rs)
         /\ \A j \in Issuing(u) : j = i
<1> DEFINE q == ready_queue[u]
<1>1. q \in Seq(Links) /\ Readies(q, u, inst)  BY DEF IInv, Types
<1>2. Len(q) \in Nat /\ DOMAIN q = 1 .. Len(q)  BY <1>1, LenProperties
<1>3. \A k \in Issuing(u) : /\ k \in 1 .. Len(q) /\ q[k].valid
                            /\ IF sim_has_bypass THEN \A j \in 1 .. k - 1 : ~ q[j].valid
                                                 ELSE q[k].next
  BY <1>2 DEF Issuing, Candidates
<1> HIDE DEF q
<1>4. q[i].rs \in Descs
  <2>1. \A link \in Links : link.rs \in Descs  BY DEF Links
  <2>2. q[i] \in Links  BY <1>1, <1>3, ElementOfSeq
  <2>3. QED  BY <2>1, <2>2
<1>5. Ready(inst, u, q[i].rs)  BY <1>1, <1>3 DEF Readies
<1>6. ASSUME NEW j \in Issuing(u) PROVE j = i
  <2>1. SUFFICES ASSUME j # i PROVE FALSE  OBVIOUS
  <2>2. i \in 1 .. Len(q) /\ j \in 1 .. Len(q) /\ q[i].valid /\ q[j].valid  BY <1>3
  <2>3. CASE sim_has_bypass
    <3>1. i \in 1 .. j - 1 \/ j \in 1 .. i - 1  BY <2>1, <2>2
    <3>2. QED  BY <1>3, <2>2, <2>3, <3>1
  <2>4. CASE ~ sim_has_bypass
    <3>1. j \in i + 1 .. Len(q) \/ i \in j + 1 .. Len(q)  BY <2>1, <2>2
    <3>2. q[i].next /\ q[j].next  BY <1>3, <2>4
    <3>3. OneNext(q)  BY <1>1 DEF Readies
    <3>4. QED  BY <2>2, <3>1, <3>2, <3>3 DEF OneNext
  <2>5. QED  BY <2>3, <2>4
<1>7. QED  BY <1>3, <1>4, <1>5, <1>6 DEF q

LEMMA IssuedReady ==
  ASSUME IInv
  PROVE  /\ Issued \in SUBSET Descs /\ IsFiniteSet(Issued)
         /\ \A d \in Issued : /\ inst[d] # NoInst /\ inst[d].fu \in Units
                              /\ Ready(inst, inst[d].fu, d)
                              /\ \E i \in Issuing(inst[d].fu) : ready_queue[inst[d].fu][i].rs = d
<1>1. ASSUME NEW d \in Issued
      PROVE  /\ d \in Descs /\ inst[d] # NoInst /\ inst[d].fu \in Units
             /\ Ready(inst, inst[d].fu, d)
             /\ \E i \in Issuing(inst[d].fu) : ready_queue[inst[d].fu][i].rs = d
  <2>1. PICK u \in Units : \E i \in Issuing(u) : ready_queue[u][i].rs = d  BY DEF Issued
  <2>2. PICK i \in Issuing(u) : ready_queue[u][i].rs = d  BY <2>1
  <2>3. d \in Descs /\ Ready(inst, u, d)  BY <2>2, OneIssuing
  <2>4. inst[d].fu = u  BY <2>3 DEF Ready
  <2>5. inst[d] # NoInst
    <3>1. UsedOnly(inst)  BY Facts
    <3>2. QED  BY <2>3, <3>1 DEF Ready, UsedOnly
  <2>6. QED  BY <2>2, <2>3, <2>4, <2>5
<1>2. Issued \in SUBSET Descs  BY <1>1
<1>3. IsFiniteSet(Issued)  BY <1>2, Assumed, FS_Subset
<1>4. QED  BY <1>1, <1>2, <1>3

\* What issue_stage makes of a descriptor.
LEMMA IssuedInst ==
  ASSUME IInv, issue
  PROVE  /\ inst' \in [Descs -> InstType \cup {NoInst}]
         /\ \A d \in Descs : d \notin Issued => inst'[d] = inst[d]
         /\ \A d \in Issued :
              /\ inst'[d] # NoInst /\ inst'[d].op = inst[d].op /\ inst'[d].seq = inst[d].seq
              /\ inst'[d].level = inst[d].level /\ inst'[d].fu = inst[d].fu
              /\ inst'[d].idep_ready = inst[d].idep_ready /\ inst'[d].status = "issued"
<1> DEFINE t == inst'
           S == Issued
<1>1. inst \in [Descs -> InstType \cup {NoInst}]  BY Facts
<1>2. S \in SUBSET Descs /\ \A d \in S : inst[d] # NoInst  BY IssuedReady
<1>3. t = [d \in Descs |-> IF d \in S THEN [inst[d] EXCEPT !.status = "issued"] ELSE inst[d]]
  BY DEF issue, Issued
<1> HIDE DEF t, S
<1>4. \A x \in InstType :
        LET y == [x EXCEPT !.status = "issued"]
        IN  /\ y \in InstType /\ y.op = x.op /\ y.seq = x.seq /\ y.level = x.level
            /\ y.idep_ready = x.idep_ready /\ y.fu = x.fu /\ y.status = "issued"
  BY DEF InstType, Status
<1>5. NoInst \notin InstType
  <2>1. \A x \in InstType : x.status # "free"  BY DEF InstType, Status
  <2>2. QED  BY <2>1 DEF NoInst
<1>6. ASSUME NEW d \in S
      PROVE  /\ t[d] \in InstType /\ t[d].op = inst[d].op /\ t[d].seq = inst[d].seq
             /\ t[d].level = inst[d].level /\ t[d].fu = inst[d].fu
             /\ t[d].idep_ready = inst[d].idep_ready /\ t[d].status = "issued"
  <2>1. d \in Descs /\ inst[d] \in InstType  BY <1>1, <1>2, Fields
  <2>2. t[d] = [inst[d] EXCEPT !.status = "issued"]  BY <1>3, <2>1
  <2>3. QED  BY <1>4, <2>1, <2>2
<1>7. \A d \in Descs : d \notin S => t[d] = inst[d]  BY <1>3
<1>8. t \in [Descs -> InstType \cup {NoInst}]
  <2>1. \A d \in Descs : t[d] \in InstType \cup {NoInst}  BY <1>1, <1>6, <1>7
  <2>2. t = [d \in Descs |-> t[d]]  BY <1>3
  <2>3. QED  BY <2>1, <2>2
<1>9. QED  BY <1>5, <1>6, <1>7, <1>8 DEF t, S

LEMMA IssuingWindow ==
  ASSUME IInv, issue
  PROVE  /\ Ordered(InFlight', inst', Len(roq'), spec_level')
         /\ Operands(InFlight', inst') /\ Awaited(InFlight', inst', odep_list')
         /\ Creators(InFlight', inst', create_vector', spec_level')
<1> DEFINE t == inst'
           S == Issued
           f == InFlight
<1>1. /\ \A d \in S : d \in Descs /\ inst[d] # NoInst
                      /\ inst[d].status = "queued" /\ inst[d].idep_ready
  BY IssuedReady DEF Ready
<1>2. /\ \A d \in Descs : d \notin S => t[d] = inst[d]
      /\ \A d \in S :
              /\ t[d] # NoInst /\ t[d].op = inst[d].op /\ t[d].seq = inst[d].seq
              /\ t[d].level = inst[d].level /\ t[d].fu = inst[d].fu
              /\ t[d].idep_ready = inst[d].idep_ready /\ t[d].status = "issued"
  BY IssuedInst
<1>3. /\ InFlight' = f /\ Len(roq') = Len(roq) /\ spec_level' = spec_level
      /\ odep_list' = odep_list /\ create_vector' = create_vector
  BY DEF issue, window, InFlight
<1>4. \A i \in 1 .. Len(f) : f[i] \in Descs  BY Facts
<1> HIDE DEF f, t, S
<1>5. ASSUME NEW d \in S PROVE Similar(inst, t, d)
  BY <1>1, <1>2 DEF Similar, DoneIn, OpenIn
<1>6. Alike(inst, t)
  <2>1. SUFFICES ASSUME NEW d \in Descs
                 PROVE  /\ inst[d] = NoInst => t[d] = NoInst
                        /\ inst[d] # NoInst => t[d] # NoInst /\ Similar(inst, t, d)
    BY DEF Alike
  <2>2. CASE d \in S  BY <1>1, <1>2, <1>5, <2>2
  <2>3. CASE d \notin S
    <3>1. t[d] = inst[d]  BY <1>2, <2>3
    <3>2. QED  BY <3>1 DEF Similar, DoneIn, OpenIn
  <2>4. QED  BY <2>2, <2>3
<1>7. Placed(f, t, Len(roq), spec_level)
  <2>1. SUFFICES ASSUME NEW i \in 1 .. Len(f)
                 PROVE  /\ t[f[i]].level <= spec_level
                        /\ (OpenIn(t, f[i]) => t[f[i]].level < spec_level)
                        /\ t[f[i]].status = "decoded" <=> i > Len(roq)
                        /\ i <= Len(roq) => t[f[i]].fu \in Units
                        /\ t[f[i]].status \in {"decoded", "queued"} \/ t[f[i]].idep_ready
    BY DEF Placed
  <2> DEFINE d == f[i]
  <2>2. /\ inst[d].level <= spec_level /\ (OpenIn(inst, d) => inst[d].level < spec_level)
        /\ inst[d].status = "decoded" <=> i > Len(roq)
        /\ i <= Len(roq) => inst[d].fu \in Units
        /\ inst[d].status \in {"decoded", "queued"} \/ inst[d].idep_ready
    BY Places DEF f
  <2>3. d \in Descs  BY <1>4
  <2> HIDE DEF d
  <2>4. CASE d \in S
    <3>1. OpenIn(t, d) => OpenIn(inst, d)  BY <1>5, <2>4 DEF Similar
    <3>2. QED  BY <1>1, <1>2, <2>2, <2>4, <3>1 DEF d
  <2>5. CASE d \notin S
    <3>1. t[d] = inst[d]  BY <1>2, <2>3, <2>5
    <3>2. OpenIn(t, d) => OpenIn(inst, d)  BY <3>1 DEF OpenIn
    <3>3. QED  BY <2>2, <3>1, <3>2 DEF d
  <2>6. QED  BY <2>4, <2>5
<1>8. Alike(inst, inst') /\ Placed(InFlight', inst', Len(roq'), spec_level')
  BY <1>3, <1>6, <1>7 DEF t
<1>9. InFlight' = InFlight  BY <1>3 DEF f
<1>10. QED  BY <1>3, <1>8, <1>9, WindowStep

LEMMA IssuingReadies ==
  ASSUME IInv, issue
  PROVE  /\ ready_queue' \in [Units -> Seq(Links)]
         /\ \A u \in Units : Readies(ready_queue'[u], u, inst')
<1> DEFINE t == inst'
           S == Issued
           kept(u) == IF Issuing(u) = {} THEN ready_queue[u]
                      ELSE delete_node(ready_queue[u], CHOOSE i \in Issuing(u) : TRUE)
<1>1. /\ \A u \in Units : Readies(ready_queue[u], u, inst)
      /\ ready_queue \in [Units -> Seq(Links)]
  BY DEF IInv, Types
<1>2. /\ t \in [Descs -> InstType \cup {NoInst}]
      /\ \A d \in Descs : d \notin S => t[d] = inst[d]
      /\ \A d \in S : t[d] # NoInst /\ t[d].seq = inst[d].seq /\ t[d].status = "issued"
  BY IssuedInst
<1>3. /\ S \in SUBSET Descs
      /\ \A d \in S : /\ inst[d] # NoInst
                      /\ \E i \in Issuing(inst[d].fu) : ready_queue[inst[d].fu][i].rs = d
  BY IssuedReady
<1>4. ready_queue' = [u \in Units |-> Rechosen(kept(u))]  BY DEF issue
<1>5. \A u \in Units : \A i \in Issuing(u) : ready_queue[u][i].rs \in S  BY DEF Issued
<1>6. \A u \in Units : Issuing(u) = {} => kept(u) = ready_queue[u]  OBVIOUS
<1>7. \A u \in Units : Issuing(u) # {} =>
        \E i \in Issuing(u) : kept(u) = delete_node(ready_queue[u], i)
  OBVIOUS
<1> HIDE DEF t, S, kept
<1>8. NumbersKept(inst, t, {})
  <2>1. SUFFICES ASSUME NEW d \in Descs, t[d] # NoInst
                 PROVE  inst[d] # NoInst /\ t[d].seq = inst[d].seq
    BY DEF NumbersKept
  <2>2. QED  BY <1>2, <1>3, <2>1
<1>9. UsedOnly(t)  BY <1>2, Fields DEF UsedOnly
<1>10. \A u \in Units, d \in Descs : Ready(t, u, d) <=> Ready(inst, u, d) /\ d \notin S
  <2>1. SUFFICES ASSUME NEW u \in Units, NEW d \in Descs
                 PROVE  Ready(t, u, d) <=> Ready(inst, u, d) /\ d \notin S
    OBVIOUS
  <2>2. CASE d \in S  BY <1>2, <2>2 DEF Ready
  <2>3. CASE d \notin S
    <3>1. t[d] = inst[d]  BY <1>2, <2>3
    <3>2. QED  BY <2>3, <3>1 DEF Ready
  <2>4. QED  BY <2>2, <2>3
<1>11. ASSUME NEW u \in Units PROVE kept(u) \in Seq(Links) /\ Readies(kept(u), u, t)
  <2> DEFINE q == ready_queue[u]
  <2>1. q \in Seq(Links) /\ Readies(q, u, inst)  BY <1>1
  <2>2. \A d \in S : Ready(inst, u, d) => \E i \in Issuing(u) : q[i].rs = d
    BY <1>3 DEF Ready
  <2>3. CASE Issuing(u) = {}
    <3>1. \A d \in Descs : Ready(t, u, d) <=> Ready(inst, u, d)  BY <1>10, <2>2, <2>3
    <3>2. kept(u) = q  BY <1>6, <2>3
    <3> HIDE DEF q
    <3>3. Readies(q, u, t)  BY <1>8, <1>9, <2>1, <3>1, SameReadies
    <3>4. QED  BY <2>1, <3>2, <3>3
  <2>4. CASE Issuing(u) # {}
    <3>1. PICK i \in Issuing(u) : kept(u) = delete_node(q, i)  BY <1>7, <2>4
    <3>2. i \in 1 .. Len(q) /\ q[i].valid /\ \A j \in Issuing(u) : j = i  BY OneIssuing
    <3>3. q[i].rs \in S  BY <1>5
    <3>4. \A d \in Descs : Ready(t, u, d) <=> Ready(inst, u, d) /\ d # q[i].rs
      BY <1>10, <2>2, <3>2, <3>3
    <3> HIDE DEF q
    <3>5. Readies(delete_node(q, i), u, t)  BY <1>8, <1>9, <2>1, <3>2, <3>4, DeletedReadies
    <3>6. delete_node(q, i) \in Seq(Links)  BY <2>1, <3>2, Deleting
    <3>7. QED  BY <3>1, <3>5, <3>6
  <2>5. QED  BY <2>3, <2>4
<1>12. ASSUME NEW u \in Units
       PROVE  ready_queue'[u] \in Seq(Links) /\ Readies(ready_queue'[u], u, t)
  <2>1. ready_queue'[u] = Rechosen(kept(u))  BY <1>4
  <2>2. kept(u) \in Seq(Links) /\ Readies(kept(u), u, t)  BY <1>11
  <2>3. Rechosen(kept(u)) \in Seq(Links)  BY <2>2, RechosenLinks
  <2>4. Readies(Rechosen(kept(u)), u, t)  BY <2>2, RechosenReadies
  <2>5. QED  BY <2>1, <2>3, <2>4
<1>13. ready_queue' = [u \in Units |-> ready_queue'[u]]  BY <1>4
<1>14. QED  BY <1>12, <1>13 DEF t

LEMMA IssuingEvents ==
  ASSUME IInv, issue
  PROVE  event_queue' \in Seq(Events) /\ Running(event_queue', inst')
<1> DEFINE t == inst'
           S == Issued
           q == event_queue
           r == event_queue'
<1>1. q \in Seq(Events) /\ Running(q, inst)  BY DEF IInv, Types
<1>2. /\ S \in SUBSET Descs /\ IsFiniteSet(S)
      /\ \A d \in S : inst[d] # NoInst /\ inst[d].status = "queued"
  BY IssuedReady DEF Ready
<1>3. /\ \A d \in Descs : d \notin S => t[d] = inst[d]
      /\ \A d \in S : t[d].status = "issued"
  BY IssuedInst
<1>4. PICK wait \in [S -> UNION {oplat(inst[d].op.class) : d \in S}] :
        r = FoldSet(LAMBDA d, e : eventq_queue_event(e, d, wait[d]), q, S)
  BY DEF issue, Issued
<1>5. wait \in [S -> Int]
  <2>1. \A d \in S : oplat(inst[d].op.class) \subseteq Nat
    <3>1. SUFFICES ASSUME NEW d \in S PROVE oplat(inst[d].op.class) \subseteq Nat  OBVIOUS
    <3>2. inst \in [Descs -> InstType \cup {NoInst}] /\ d \in Descs /\ inst[d] # NoInst
      BY <1>2, Facts
    <3>3. inst[d].op \in Instructions  BY <3>2, Fields
    <3>4. QED  BY <3>3, Assumed
  <2>2. UNION {oplat(inst[d].op.class) : d \in S} \subseteq Int  BY <2>1
  <2>3. QED  BY <1>4, <2>2
<1>6. \A k \in 1 .. Len(q) : q[k].rs \in Descs
  <2>1. \A link \in Events : link.rs \in Descs  BY DEF Events
  <2>2. \A k \in 1 .. Len(q) : q[k] \in Events  BY <1>1, ElementOfSeq
  <2>3. QED  BY <2>1, <2>2
<1> HIDE DEF t, S, q, r
<1>7. \A d \in S : NoneOf(q, d)  BY <1>1, <1>2, <1>6 DEF Running, NoneOf
<1>8. OneEach(q)  BY <1>1 DEF Running
<1>9. r \in Seq(Events) /\ OneEach(r) /\ MergedIn(q, r, {NewEvent(d, wait[d]) : d \in S})
  <2>1. LET r1 == FoldSet(LAMBDA d, e : eventq_queue_event(e, d, wait[d]), q, S)
        IN  r1 \in Seq(Events) /\ OneEach(r1) /\ MergedIn(q, r1, {NewEvent(d, wait[d]) : d \in S})
    BY <1>1, <1>2, <1>5, <1>7, <1>8, EventAll
  <2>2. QED  BY <1>4, <2>1
<1>10. ASSUME NEW k \in 1 .. Len(r), r[k].valid PROVE t[r[k].rs].status = "issued"
  <2>1. CASE r[k] \in {NewEvent(d, wait[d]) : d \in S}
    <3>1. PICK d \in S : r[k] = NewEvent(d, wait[d])  BY <2>1
    <3>2. r[k].rs = d  BY <3>1 DEF NewEvent
    <3>3. QED  BY <1>3, <3>2
  <2>2. CASE \E i \in 1 .. Len(q) : r[k] = q[i]
    <3>1. PICK i \in 1 .. Len(q) : r[k] = q[i]  BY <2>2
    <3>2. inst[r[k].rs].status = "issued" /\ r[k].rs \in Descs  BY <1>1, <1>6, <1>10, <3>1 DEF Running
    <3>3. QED  BY <1>3, <3>2
  <2>3. QED  BY <1>9, <2>1, <2>2 DEF MergedIn
<1>11. ASSUME NEW d \in Descs, t[d].status = "issued"
       PROVE  \E k \in 1 .. Len(r) : r[k].valid /\ r[k].rs = d
  <2>1. CASE d \in S
    <3>1. NewEvent(d, wait[d]) \in {NewEvent(e, wait[e]) : e \in S}  BY <2>1
    <3>2. PICK k \in 1 .. Len(r) : r[k] = NewEvent(d, wait[d])  BY <1>9, <3>1 DEF MergedIn
    <3>3. r[k].valid /\ r[k].rs = d  BY <3>2 DEF NewEvent
    <3>4. QED  BY <3>3
  <2>2. CASE d \notin S
    <3>1. inst[d].status = "issued"  BY <1>3, <1>11, <2>2
    <3>2. PICK i \in 1 .. Len(q) : q[i].valid /\ q[i].rs = d  BY <1>1, <3>1 DEF Running
    <3>3. PICK k \in 1 .. Len(r) : r[k] = q[i]  BY <1>9 DEF MergedIn
    <3>4. QED  BY <3>2, <3>3
  <2>3. QED  BY <2>1, <2>2
<1>12. Running(r, t)  BY <1>9, <1>10, <1>11 DEF Running
<1>13. QED  BY <1>9, <1>12 DEF r, t

LEMMA IssuingBusy ==
  ASSUME IInv, issue
  PROVE  busy' \in [Units -> BOOLEAN] /\ InUse(busy', inst')
<1> DEFINE t == inst'
           S == Issued
<1>1. busy \in [Units -> BOOLEAN] /\ InUse(busy, inst)  BY DEF IInv, Types
<1>2. /\ S \in SUBSET Descs /\ \A d \in S : inst[d].status = "queued"
  BY IssuedReady DEF Ready
<1>3. /\ \A d \in Descs : d \notin S => t[d] = inst[d]
      /\ \A d \in S : t[d].status = "issued" /\ t[d].op = inst[d].op /\ t[d].fu = inst[d].fu
  BY IssuedInst
<1>4. busy' = [u \in Units |-> busy[u] \/ u \in DivUnits(S)]  BY DEF issue, Issued
<1> HIDE DEF t, S
<1>5. ASSUME NEW u \in Units, busy'[u]
      PROVE  \E d \in Descs : t[d].status = "issued" /\ t[d].op.class = "IntDIV" /\ t[d].fu = u
  <2>1. busy[u] \/ u \in DivUnits(S)  BY <1>4, <1>5
  <2>2. CASE busy[u]
    <3>1. PICK d \in Descs : inst[d].status = "issued" /\ inst[d].op.class = "IntDIV" /\ inst[d].fu = u
      BY <1>1, <2>2 DEF InUse
    <3>2. t[d] = inst[d]  BY <1>2, <1>3, <3>1
    <3>3. QED  BY <3>1, <3>2
  <2>3. CASE u \in DivUnits(S)
    <3>1. PICK d \in S : IsDiv(d) /\ u = inst[d].fu  BY <2>3 DEF DivUnits
    <3>2. d \in Descs /\ t[d].status = "issued" /\ t[d].op.class = "IntDIV" /\ t[d].fu = u
      BY <1>2, <1>3, <3>1 DEF IsDiv
    <3>3. QED  BY <3>2
  <2>4. QED  BY <2>1, <2>2, <2>3
<1>6. InUse(busy', t)  BY <1>5 DEF InUse
<1>7. busy' \in [Units -> BOOLEAN]  BY <1>1, <1>4
<1>8. QED  BY <1>6, <1>7 DEF t

LEMMA IssuingStep ==
  ASSUME IInv, issue
  PROVE  IInv'
<1>1. /\ roq' = roq /\ decode_data' = decode_data /\ spec_level' = spec_level
      /\ create_vector' = create_vector /\ odep_list' = odep_list /\ stage' = "map"
  BY DEF issue, window
<1>2. inst' \in [Descs -> InstType \cup {NoInst}]  BY IssuedInst
<1>3. Types'  BY <1>1, <1>2, IssuingReadies, IssuingEvents, IssuingBusy DEF IInv, Types
<1>4. QED  BY <1>3, IssuingWindow, IssuingReadies, IssuingEvents, IssuingBusy DEF IInv

-----------------------------------------------------------------------------
(***************************************************************************)
(* map_stage.                                                              *)
(***************************************************************************)

\* The first instruction that is not mapped becomes the last one that is.
LEMMA Moved ==
  ASSUME NEW A, NEW x \in Seq(A), NEW y \in Seq(A), y # <<>>
  PROVE  /\ y[1] \in A /\ Append(x, y[1]) \in Seq(A) /\ Tail(y) \in Seq(A)
         /\ Len(Append(x, y[1])) = Len(x) + 1
         /\ Append(x, y[1]) \o Tail(y) = x \o y
<1> DEFINE a == Append(x, y[1])
           b == Tail(y)
<1>1. Len(x) \in Nat /\ Len(y) \in Nat /\ Len(y) # 0  BY LenProperties, EmptySeq
<1>2. y[1] \in A  BY <1>1, ElementOfSeq
<1>3. /\ a \in Seq(A) /\ Len(a) = Len(x) + 1
      /\ \A i \in 1 .. Len(x) : a[i] = x[i]
      /\ a[Len(x) + 1] = y[1]
  BY <1>2, AppendProperties
<1>4. b \in Seq(A) /\ Len(b) = Len(y) - 1 /\ \A i \in 1 .. Len(y) - 1 : b[i] = y[i + 1]
  BY HeadTailProperties
<1> HIDE DEF a, b
<1>5. /\ x \o y \in Seq(A) /\ Len(x \o y) = Len(x) + Len(y)
      /\ \A i \in 1 .. Len(x) : (x \o y)[i] = x[i]
      /\ \A i \in 1 .. Len(y) : (x \o y)[Len(x) + i] = y[i]
  BY Joined
<1>6. /\ a \o b \in Seq(A) /\ Len(a \o b) = Len(a) + Len(b)
      /\ \A i \in 1 .. Len(a) : (a \o b)[i] = a[i]
      /\ \A i \in 1 .. Len(b) : (a \o b)[Len(a) + i] = b[i]
  <2>1. a \in Seq(A) /\ b \in Seq(A)  BY <1>3, <1>4
  <2>2. QED  BY ONLY <2>1, Joined
<1>7. Len(a \o b) = Len(x \o y)  BY <1>1, <1>3, <1>4, <1>5, <1>6
<1>8. ASSUME NEW i \in 1 .. Len(a \o b) PROVE (a \o b)[i] = (x \o y)[i]
  <2>1. CASE i <= Len(x)
    <3>1. i \in 1 .. Len(x) /\ i \in 1 .. Len(a)  BY <1>1, <1>3, <2>1
    <3>2. QED  BY <1>3, <1>5, <1>6, <3>1
  <2>2. CASE i = Len(x) + 1
    <3>1. i \in 1 .. Len(a) /\ 1 \in 1 .. Len(y) /\ Len(x) + 1 = i  BY <1>1, <1>3, <2>2
    <3>2. (a \o b)[i] = a[i] /\ a[i] = y[1]  BY <1>3, <1>6, <2>2, <3>1
    <3>3. (x \o y)[Len(x) + 1] = y[1]  BY <1>5, <3>1
    <3>4. QED  BY <2>2, <3>2, <3>3
  <2>3. CASE i > Len(x) + 1
    <3> DEFINE k == i - (Len(x) + 1)
    <3>1. /\ k \in 1 .. Len(y) - 1 /\ k \in 1 .. Len(b) /\ k + 1 \in 1 .. Len(y)
          /\ Len(a) + k = i /\ Len(x) + (k + 1) = i
      BY <1>1, <1>3, <1>4, <1>5, <1>7, <2>3
    <3> HIDE DEF k
    <3>2. (a \o b)[Len(a) + k] = b[k] /\ b[k] = y[k + 1]  BY <1>4, <1>6, <3>1
    <3>3. (x \o y)[Len(x) + (k + 1)] = y[k + 1]  BY <1>5, <3>1
    <3>4. QED  BY <3>1, <3>2, <3>3
  <2>4. i <= Len(x) \/ i = Len(x) + 1 \/ i > Len(x) + 1
    <3>1. i \in Nat /\ Len(x) \in Nat  BY <1>1, <1>5, <1>7
    <3>2. QED  BY <3>1
  <2>5. QED  BY <2>1, <2>2, <2>3, <2>4
<1>9. a \o b = x \o y  BY <1>5, <1>6, <1>7, <1>8, SeqEqual
<1>10. QED  BY <1>2, <1>3, <1>4, <1>9 DEF a, b

LEMMA Mapping ==
  ASSUME IInv, map
  PROVE  IInv'
<1> DEFINE d == decode_data[1]
           t == inst'
           m == Len(roq)
           f == InFlight
<1>1. PICK u \in Units :
        /\ inst' = [inst EXCEPT ![d].status = "queued", ![d].fu = u]
        /\ readyq_enqueue({e \in {d} : inst[e].idep_ready}, [e \in {d} |-> u])
  BY DEF map
<1>2. /\ decode_data # <<>> /\ decode_data' = Tail(decode_data) /\ roq' = Append(roq, d)
      /\ stage' = "decode" /\ spec_level' = spec_level /\ create_vector' = create_vector
      /\ odep_list' = odep_list /\ event_queue' = event_queue /\ busy' = busy
  BY DEF map
<1>3. /\ inst \in [Descs -> InstType \cup {NoInst}] /\ roq \in Seq(Descs)
      /\ decode_data \in Seq(Descs) /\ UsedOnly(inst) /\ spec_level \in Nat
      /\ m \in Nat /\ Len(decode_data) \in Nat /\ Len(f) = m + Len(decode_data)
      /\ \A i \in 1 .. Len(decode_data) : f[m + i] = decode_data[i]
      /\ \A i \in 1 .. Len(f) : f[i] \in Descs /\ inst[f[i]] # NoInst
      /\ Distinct(f)
  BY Facts
<1>4. /\ d \in Descs /\ roq' \in Seq(Descs) /\ decode_data' \in Seq(Descs)
      /\ Len(roq') = m + 1 /\ InFlight' = f
  BY <1>2, <1>3, Moved DEF InFlight
<1>5. /\ m + 1 \in 1 .. Len(f) /\ f[m + 1] = d
      /\ \A i \in 1 .. Len(f) : f[i] = d => i = m + 1
  <2>1. Len(decode_data) # 0  BY <1>2, <1>3, EmptySeq
  <2>2. 1 \in 1 .. Len(decode_data) /\ m + 1 \in 1 .. Len(f)  BY <1>3, <2>1
  <2>3. f[m + 1] = d  BY <1>3, <2>2
  <2>4. ASSUME NEW i \in 1 .. Len(f), f[i] = d PROVE i = m + 1
    <3>1. i = m + 1 \/ m + 1 \in i + 1 .. Len(f) \/ i \in m + 1 + 1 .. Len(f)
      BY <1>3, <2>2
    <3>2. QED  BY <1>3, <2>2, <2>3, <2>4, <3>1 DEF Distinct
  <2>5. QED  BY <2>2, <2>3, <2>4
<1>6. inst[d].status = "decoded" /\ inst[d] # NoInst /\ inst[d] \in InstType
  <2>1. m + 1 > Len(roq)  BY <1>3
  <2>2. inst[f[m + 1]].status = "decoded" <=> m + 1 > Len(roq)  BY <1>5, Places DEF f
  <2>3. QED  BY <1>3, <1>4, <1>5, <2>1, <2>2, Fields
<1>7. /\ t[d] \in InstType /\ t[d].op = inst[d].op /\ t[d].seq = inst[d].seq
      /\ t[d].level = inst[d].level /\ t[d].idep_ready = inst[d].idep_ready
      /\ t[d].fu = u /\ t[d].status = "queued"
  <2>1. t[d] = [inst[d] EXCEPT !.status = "queued", !.fu = u]  BY <1>1, <1>3, <1>4
  <2>2. \A x \in InstType :
          LET y == [x EXCEPT !.status = "queued", !.fu = u]
          IN  /\ y \in InstType /\ y.op = x.op /\ y.seq = x.seq /\ y.level = x.level
              /\ y.idep_ready = x.idep_ready /\ y.fu = u /\ y.status = "queued"
    BY DEF InstType, Status
  <2> HIDE DEF t, d
  <2>3. QED  BY <1>6, <2>1, <2>2
<1>8. \A e \in Descs : e # d => t[e] = inst[e]  BY <1>1, <1>3
<1>9. t \in [Descs -> InstType \cup {NoInst}]
  <2>1. t = [e \in Descs |-> t[e]]  BY <1>1, <1>3
  <2> HIDE DEF t, d
  <2>2. \A e \in Descs : t[e] \in InstType \cup {NoInst}  BY <1>3, <1>7, <1>8
  <2>3. QED  BY <2>1, <2>2
<1>10. \A v \in Units : ready_queue'[v]
         = Enqueue(ready_queue[v], {e \in {d} : inst[d].idep_ready /\ u = v})
  <2>1. SUFFICES ASSUME NEW v \in Units
                 PROVE  ready_queue'[v]
                          = Enqueue(ready_queue[v], {e \in {d} : inst[d].idep_ready /\ u = v})
    OBVIOUS
  <2> DEFINE S == {e \in {d} : inst[e].idep_ready}
             fu == [e \in {d} |-> u]
  <2>2. readyq_enqueue(S, fu)  BY <1>1
  <2>3. ready_queue'[v] = Enqueue(ready_queue[v], {e \in S : fu[e] = v})
    BY <2>2 DEF readyq_enqueue, Enqueue
  <2>4. {e \in S : fu[e] = v} = {e \in {d} : inst[d].idep_ready /\ u = v}  OBVIOUS
  <2>5. QED  BY <2>3, <2>4
<1>11. ready_queue' = [v \in Units |-> ready_queue'[v]]
  <2> DEFINE S == {e \in {d} : inst[e].idep_ready}
             fu == [e \in {d} |-> u]
  <2>1. readyq_enqueue(S, fu)  BY <1>1
  <2>2. ready_queue' = [v \in Units |-> Enqueue(ready_queue[v], {e \in S : fu[e] = v})]
    BY <2>1 DEF readyq_enqueue, Enqueue
  <2> HIDE DEF S, fu
  <2>3. QED  BY <2>2
<1>12. t[d] # NoInst
  <2>1. \A x \in InstType : x.status # "free"  BY DEF InstType, Status
  <2> HIDE DEF t, d
  <2>2. QED  BY <1>7, <2>1 DEF NoInst
<1> HIDE DEF d, t, m, f
<1>13. Alike(inst, t)
  <2>1. ASSUME NEW e \in Descs
        PROVE  /\ inst[e] = NoInst => t[e] = NoInst
               /\ inst[e] # NoInst => t[e] # NoInst /\ Similar(inst, t, e)
    <3>1. CASE e = d  BY <1>6, <1>7, <1>12, <3>1 DEF Similar, DoneIn, OpenIn
    <3>2. CASE e # d
      <4>1. t[e] = inst[e]  BY <1>8, <3>2
      <4>2. QED  BY <4>1 DEF Similar, DoneIn, OpenIn
    <3>3. QED  BY <3>1, <3>2
  <2>2. QED  BY <2>1 DEF Alike
<1>14. Placed(f, t, m + 1, spec_level)
  <2>1. SUFFICES ASSUME NEW i \in 1 .. Len(f)
                 PROVE  /\ t[f[i]].level <= spec_level
                        /\ (OpenIn(t, f[i]) => t[f[i]].level < spec_level)
                        /\ t[f[i]].status = "decoded" <=> i > m + 1
                        /\ i <= m + 1 => t[f[i]].fu \in Units
                        /\ t[f[i]].status \in {"decoded", "queued"} \/ t[f[i]].idep_ready
    BY DEF Placed
  <2> DEFINE e == f[i]
  <2>2. /\ inst[e].level <= spec_level /\ (OpenIn(inst, e) => inst[e].level < spec_level)
        /\ inst[e].status = "decoded" <=> i > m
        /\ i <= m => inst[e].fu \in Units
        /\ inst[e].status \in {"decoded", "queued"} \/ inst[e].idep_ready
    BY Places DEF f, m
  <2>3. e \in Descs /\ (e = d => i = m + 1)  BY <1>3, <1>5
  <2>4. e = d \/ (e # d /\ (i > m + 1 \/ i <= m))  BY <1>3, <1>5
  <2> HIDE DEF e
  <2>5. CASE e = d
    <3>1. OpenIn(t, e) => OpenIn(inst, e)  BY <1>6, <1>7, <2>5 DEF OpenIn
    <3>2. ~ (i > m + 1) /\ t[e].status = "queued" /\ t[e].fu \in Units
      BY <1>3, <1>7, <2>3, <2>5
    <3>3. t[e].level = inst[e].level  BY <1>7, <2>5
    <3>4. QED  BY <2>2, <3>1, <3>2, <3>3 DEF e
  <2>6. CASE e # d /\ i > m + 1
    <3>1. t[e] = inst[e] /\ i > m /\ ~ (i <= m + 1)  BY <1>3, <1>8, <2>3, <2>6
    <3>2. OpenIn(t, e) => OpenIn(inst, e)  BY <3>1 DEF OpenIn
    <3>3. QED  BY <2>2, <2>6, <3>1, <3>2 DEF e
  <2>7. CASE e # d /\ i <= m
    <3>1. t[e] = inst[e] /\ ~ (i > m) /\ ~ (i > m + 1)  BY <1>3, <1>8, <2>3, <2>7
    <3>2. OpenIn(t, e) => OpenIn(inst, e)  BY <3>1 DEF OpenIn
    <3>3. QED  BY <2>2, <2>7, <3>1, <3>2 DEF e
  <2>8. QED  BY <2>4, <2>5, <2>6, <2>7
<1>15. /\ Ordered(InFlight', inst', Len(roq'), spec_level')
       /\ Operands(InFlight', inst') /\ Awaited(InFlight', inst', odep_list')
       /\ Creators(InFlight', inst', create_vector', spec_level')
  <2>1. Alike(inst, inst') /\ Placed(InFlight', inst', Len(roq'), spec_level')
    BY <1>2, <1>4, <1>13, <1>14 DEF t
  <2>2. InFlight' = InFlight  BY <1>4 DEF f
  <2>3. QED  BY <1>2, <2>1, <2>2, WindowStep
<1>16. NumbersKept(inst, t, {}) /\ UsedOnly(t)
  <2>1. ASSUME NEW e \in Descs, t[e] # NoInst PROVE inst[e] # NoInst /\ t[e].seq = inst[e].seq
    <3>1. CASE e = d  BY <1>6, <1>7, <3>1
    <3>2. CASE e # d  BY <1>8, <2>1, <3>2
    <3>3. QED  BY <3>1, <3>2
  <2>2. NumbersKept(inst, t, {})  BY <2>1 DEF NumbersKept
  <2>3. UsedOnly(t)  BY <1>9, Fields DEF UsedOnly
  <2>4. QED  BY <2>2, <2>3
<1>17. ASSUME NEW v \in Units
       PROVE  ready_queue'[v] \in Seq(Links) /\ Readies(ready_queue'[v], v, t)
  <2> DEFINE A == {e \in {d} : inst[d].idep_ready /\ u = v}
  <2>1. ready_queue'[v] = Enqueue(ready_queue[v], A)  BY <1>10
  <2>2. A \in SUBSET Descs /\ \A e \in A : e = d  BY <1>4
  <2>3. \A e \in Descs : e \in A <=> e = d /\ inst[d].idep_ready /\ u = v  OBVIOUS
  <2> HIDE DEF A
  <2>4. ASSUME NEW e \in A PROVE inst[e] # NoInst /\ ~ Ready(inst, v, e)
    BY <1>6, <2>2 DEF Ready
  <2>5. ReadyAdded(t, v, A)
    <3>1. SUFFICES ASSUME NEW e \in Descs PROVE Ready(t, v, e) <=> Ready(inst, v, e) \/ e \in A
      BY DEF ReadyAdded
    <3>2. CASE e = d
      <4>1. Ready(t, v, e) <=> inst[d].idep_ready /\ u = v  BY <1>7, <3>2 DEF Ready
      <4>2. ~ Ready(inst, v, e)  BY <1>6, <3>2 DEF Ready
      <4>3. QED  BY <2>3, <3>2, <4>1, <4>2
    <3>3. CASE e # d
      <4>1. t[e] = inst[e]  BY <1>8, <3>3
      <4>2. QED  BY <2>3, <3>3, <4>1 DEF Ready
    <3>4. QED  BY <3>2, <3>3
  <2>6. LET r == Enqueue(ready_queue[v], A) IN r \in Seq(Links) /\ Readies(r, v, t)
    BY <1>16, <2>2, <2>4, <2>5, Enqueueing
  <2>7. QED  BY <2>1, <2>6
<1>18. Running(event_queue', t)
  <2>1. event_queue \in Seq(Events) /\ Running(event_queue, inst)  BY DEF IInv, Types
  <2>2. \A k \in 1 .. Len(event_queue) : event_queue[k].rs \in Descs
    <3>1. \A link \in Events : link.rs \in Descs  BY DEF Events
    <3>2. \A k \in 1 .. Len(event_queue) : event_queue[k] \in Events  BY <2>1, ElementOfSeq
    <3>3. QED  BY <3>1, <3>2
  <2>3. \A e \in Descs : t[e].status = "issued" <=> inst[e].status = "issued"
    BY <1>6, <1>7, <1>8
  <2>4. Running(event_queue, t)  BY <2>1, <2>2, <2>3 DEF Running
  <2>5. QED  BY <1>2, <2>4
<1>19. InUse(busy', t)
  <2>1. InUse(busy, inst)  BY DEF IInv
  <2>2. \A e \in Descs : inst[e].status = "issued" => t[e] = inst[e]  BY <1>6, <1>8
  <2>3. InUse(busy, t)
    <3>1. SUFFICES ASSUME NEW v \in Units, busy[v]
                   PROVE  \E e \in Descs : /\ t[e].status = "issued"
                                           /\ t[e].op.class = "IntDIV" /\ t[e].fu = v
      BY DEF InUse
    <3>2. PICK e \in Descs : /\ inst[e].status = "issued"
                             /\ inst[e].op.class = "IntDIV" /\ inst[e].fu = v
      BY <2>1, <3>1 DEF InUse
    <3>3. t[e] = inst[e]  BY <2>2, <3>2
    <3>4. QED  BY <3>2, <3>3
  <2>4. QED  BY <1>2, <2>3
<1>20. ready_queue' \in [Units -> Seq(Links)]  BY <1>11, <1>17
<1>21. Types'  BY <1>2, <1>4, <1>9, <1>20 DEF t, IInv, Types
<1>22. QED  BY <1>15, <1>17, <1>18, <1>19, <1>21 DEF t, IInv

-----------------------------------------------------------------------------
(***************************************************************************)
(* decode_stage.                                                           *)
(***************************************************************************)

\* g is f with instruction d behind it, at the current level.
Grown(f, s, g, t, d, op, level) ==
  /\ f \in Seq(Descs) /\ Len(g) = Len(f) + 1 /\ g[Len(f) + 1] = d
  /\ \A i \in 1 .. Len(f) :
       /\ g[i] = f[i] /\ f[i] \in Descs /\ f[i] # d
       /\ t[f[i]].op = s[f[i]].op /\ t[f[i]].level = s[f[i]].level
       /\ t[f[i]].status = s[f[i]].status /\ t[f[i]].idep_ready = s[f[i]].idep_ready
       /\ t[f[i]].fu = s[f[i]].fu
       /\ s[f[i]].level \in Nat /\ s[f[i]].level <= level
       /\ OpenIn(s, f[i]) => s[f[i]].level < level
  /\ level \in Nat
  /\ t[d].op = op /\ t[d].level = level /\ t[d].status = "decoded"

LEMMA GrownSource ==
  ASSUME NEW f, NEW s, NEW g, NEW t, NEW d, NEW op, NEW level, Grown(f, s, g, t, d, op, level),
         NEW j \in 1 .. Len(f)
  PROVE  /\ \A i \in 1 .. Len(f) : Source(g, t, j, i) <=> Source(f, s, j, i)
         /\ Source(g, t, j, Len(f) + 1) <=> op.in # NA /\ Creates(f, s, level, op.in, j)
         /\ DoneIn(t, g[j]) <=> DoneIn(s, f[j])
<1> DEFINE n == Len(f)
<1>1. n \in Nat /\ j \in 1 .. n  BY LenProperties DEF Grown
<1>2. \A k \in 1 .. n : /\ g[k] = f[k] /\ t[f[k]].op = s[f[k]].op
                        /\ t[f[k]].status = s[f[k]].status
                        /\ s[f[k]].level \in Nat /\ s[f[k]].level <= level
  BY DEF Grown
<1>3. g[n + 1] = d /\ t[d].op = op /\ level \in Nat  BY DEF Grown
<1> HIDE DEF n
<1>4. ASSUME NEW i \in 1 .. n PROVE Source(g, t, j, i) <=> Source(f, s, j, i)
  <2>1. \A k \in j + 1 .. i - 1 : k \in 1 .. n  BY <1>1
  <2>2. \A k \in 1 .. n : t[g[k]].op = s[f[k]].op  BY <1>2
  <2> DEFINE a(k) == t[g[k]].op
             b(k) == s[f[k]].op
  <2>3. \A k \in 1 .. n : a(k) = b(k)  BY <2>2
  <2>4. Source(g, t, j, i) <=> /\ a(i).in # NA /\ a(j).out = a(i).in
                               /\ \A k \in j + 1 .. i - 1 : a(k).out # a(i).in
    BY DEF Source
  <2>5. Source(f, s, j, i) <=> /\ b(i).in # NA /\ b(j).out = b(i).in
                               /\ \A k \in j + 1 .. i - 1 : b(k).out # b(i).in
    BY DEF Source
  <2> HIDE DEF a, b
  <2>6. QED  BY <1>1, <2>1, <2>3, <2>4, <2>5
<1>5. Source(g, t, j, n + 1) <=> op.in # NA /\ Creates(f, s, level, op.in, j)
  <2>1. (n + 1) - 1 = n  BY <1>1
  <2>2. \A k \in j + 1 .. n : k \in 1 .. n  BY <1>1
  <2>3. Source(g, t, j, n + 1) <=>
          /\ op.in # NA /\ s[f[j]].op.out = op.in
          /\ \A k \in j + 1 .. n : s[f[k]].op.out # op.in
    BY <1>1, <1>2, <1>3, <2>1, <2>2 DEF Source
  <2>4. \A k \in 1 .. n : ~ (s[f[k]].level > level)  BY <1>2, <1>3
  <2>5. QED  BY <1>1, <1>2, <2>2, <2>3, <2>4 DEF Creates, n
<1>6. DoneIn(t, g[j]) <=> DoneIn(s, f[j])  BY <1>1, <1>2 DEF DoneIn
<1>7. QED  BY <1>4, <1>5, <1>6 DEF n

\* The one that the operand is waited for: none, or the last that writes it.
WaitsFor(f, s, g, t, c) ==
  /\ c = NoDesc <=> \A j \in 1 .. Len(f) : Source(g, t, j, Len(f) + 1) => DoneIn(s, f[j])
  /\ c # NoDesc => \E j \in 1 .. Len(f) :
                     f[j] = c /\ Source(g, t, j, Len(f) + 1) /\ ~ DoneIn(s, f[j])
  /\ \A j \in 1 .. Len(f) : Source(g, t, j, Len(f) + 1) /\ ~ DoneIn(s, f[j]) => c = f[j]

LEMMA TheCreator ==
  ASSUME NEW f, NEW s, NEW g, NEW t, NEW d, NEW op \in Instructions, NEW level,
         Grown(f, s, g, t, d, op, level), NEW cv, Creators(f, s, cv, level)
  PROVE  WaitsFor(f, s, g, t, IF op.in = NA THEN NoDesc ELSE cv[level][op.in])
<1> DEFINE c == IF op.in = NA THEN NoDesc ELSE cv[level][op.in]
           Src(j) == Source(g, t, j, Len(f) + 1)
<1>1. \A j \in 1 .. Len(f) : Src(j) <=> op.in # NA /\ Creates(f, s, level, op.in, j)
  BY GrownSource
<1>2. \A j \in 1 .. Len(f) : f[j] \in Descs /\ f[j] # NoDesc  BY Assumed DEF Grown
<1> HIDE DEF Src
<1>3. CASE op.in = NA
  <2>1. c = NoDesc /\ \A j \in 1 .. Len(f) : ~ Src(j)  BY <1>1, <1>3
  <2> HIDE DEF c
  <2>2. QED  BY <2>1 DEF WaitsFor, Src, c
<1>4. CASE op.in # NA
  <2>1. op.in \in Regs /\ level \in 0 .. level /\ c = cv[level][op.in]
    BY <1>4, Assumed DEF Grown
  <2> HIDE DEF c
  <2>2. /\ \A j \in 1 .. Len(f) : Src(j) => c = IF DoneIn(s, f[j]) THEN NoDesc ELSE f[j]
        /\ c # NoDesc => \E j \in 1 .. Len(f) : Src(j)
    BY <1>1, <1>4, <2>1 DEF Creators
  <2>3. c = NoDesc <=> \A j \in 1 .. Len(f) : Src(j) => DoneIn(s, f[j])  BY <1>2, <2>2
  <2>4. c # NoDesc => \E j \in 1 .. Len(f) : f[j] = c /\ Src(j) /\ ~ DoneIn(s, f[j])
    BY <1>2, <2>2
  <2>5. \A j \in 1 .. Len(f) : Src(j) /\ ~ DoneIn(s, f[j]) => c = f[j]  BY <2>2
  <2>6. QED  BY <2>3, <2>4, <2>5 DEF WaitsFor, Src, c
<1>5. QED  BY <1>3, <1>4

LEMMA GrownOperands ==
  ASSUME NEW f, NEW s, NEW g, NEW t, NEW d, NEW op, NEW level, Grown(f, s, g, t, d, op, level),
         NEW c, WaitsFor(f, s, g, t, c), Operands(f, s), t[d].idep_ready <=> c = NoDesc
  PROVE  Operands(g, t)
<1> DEFINE n == Len(f)
<1>1. /\ n \in Nat /\ Len(g) = n + 1 /\ g[n + 1] = d
      /\ \A i \in 1 .. n : g[i] = f[i] /\ t[f[i]].idep_ready = s[f[i]].idep_ready
  BY LenProperties DEF Grown
<1>2. \A j \in 1 .. n : /\ \A i \in 1 .. n : Source(g, t, j, i) <=> Source(f, s, j, i)
                        /\ DoneIn(t, g[j]) <=> DoneIn(s, f[j])
  BY GrownSource
<1>3. c = NoDesc <=> \A j \in 1 .. n : Source(g, t, j, n + 1) => DoneIn(s, f[j])
  BY DEF WaitsFor
<1>4. \A i \in 1 .. n : s[f[i]].idep_ready <=>
        \A j \in 1 .. i - 1 : Source(f, s, j, i) => DoneIn(s, f[j])
  BY DEF Operands
<1> HIDE DEF n
<1>5. ASSUME NEW i \in 1 .. n
      PROVE  t[g[i]].idep_ready <=> \A j \in 1 .. i - 1 : Source(g, t, j, i) => DoneIn(t, g[j])
  <2>1. \A j \in 1 .. i - 1 : j \in 1 .. n  BY <1>1
  <2>2. QED  BY <1>1, <1>2, <1>4, <2>1
<1>6. t[g[n + 1]].idep_ready <=>
        \A j \in 1 .. (n + 1) - 1 : Source(g, t, j, n + 1) => DoneIn(t, g[j])
  <2>1. (n + 1) - 1 = n  BY <1>1
  <2>2. QED  BY <1>1, <1>2, <1>3, <2>1
<1>7. \A i \in 1 .. Len(g) : i \in 1 .. n \/ i = n + 1  BY <1>1
<1>8. QED  BY <1>5, <1>6, <1>7 DEF Operands

LEMMA GrownAwaited ==
  ASSUME NEW f, NEW s, NEW g, NEW t, NEW d, NEW op, NEW level, Grown(f, s, g, t, d, op, level),
         NEW c, WaitsFor(f, s, g, t, c), NEW o, Awaited(f, s, o),
         \A e \in Descs : s[e] # NoInst => t[e] # NoInst /\ (DoneIn(t, e) => DoneIn(s, e)),
         \A i \in 1 .. Len(f) : s[f[i]] # NoInst,
         NEW o1, \A e \in Descs : o1[e] = IF e = c THEN o[e] \cup {[rs |-> d, valid |-> TRUE]}
                                          ELSE o[e]
  PROVE  Awaited(g, t, o1)
<1> DEFINE n == Len(f)
           x == [rs |-> d, valid |-> TRUE]
<1>1. /\ n \in Nat /\ Len(g) = n + 1 /\ g[n + 1] = d
      /\ \A i \in 1 .. n : g[i] = f[i] /\ f[i] \in Descs
  BY LenProperties DEF Grown
<1>2. \A j \in 1 .. n : /\ \A i \in 1 .. n : Source(g, t, j, i) <=> Source(f, s, j, i)
                        /\ DoneIn(t, g[j]) <=> DoneIn(s, f[j])
  BY GrownSource
<1>3. /\ c # NoDesc => \E j \in 1 .. n :
                     f[j] = c /\ Source(g, t, j, n + 1) /\ ~ DoneIn(s, f[j])
      /\ \A j \in 1 .. n : Source(g, t, j, n + 1) /\ ~ DoneIn(s, f[j]) => c = f[j]
  BY DEF WaitsFor
<1>4. 1 .. n \subseteq 1 .. Len(g) /\ n + 1 \in 1 .. Len(g) /\ \A j \in 1 .. n : j < n + 1
  BY <1>1
<1>5. NoDesc \notin Descs  BY Assumed
<1>6. x.rs = d /\ x.valid = TRUE  OBVIOUS
<1>7. \A e \in Descs : o1[e] = IF e = c THEN o[e] \cup {x} ELSE o[e]  OBVIOUS
<1> HIDE DEF n, x
<1>8. ASSUME NEW e \in Descs, NEW link \in o1[e], link.valid
      PROVE  \E i \in 1 .. Len(g), j \in 1 .. Len(g) :
               j < i /\ g[j] = e /\ g[i] = link.rs /\ Source(g, t, j, i)
  <2>1. link \in o[e] \/ (e = c /\ link = x)
    <3>1. o1[e] = IF e = c THEN o[e] \cup {x} ELSE o[e]  BY <1>7
    <3>2. QED  BY ONLY <3>1, link \in o1[e]
  <2>2. CASE link \in o[e]
    <3>1. PICK i \in 1 .. n, j \in 1 .. n :
                 j < i /\ f[j] = e /\ f[i] = link.rs /\ Source(f, s, j, i)
      BY <1>8, <2>2 DEF Awaited, n
    <3>2. i \in 1 .. Len(g) /\ j \in 1 .. Len(g) /\ g[i] = f[i] /\ g[j] = f[j]
          /\ Source(g, t, j, i)
      BY <1>1, <1>2, <1>4, <3>1
    <3>3. QED  BY <3>1, <3>2
  <2>3. CASE e = c /\ link = x
    <3>1. PICK j \in 1 .. n : f[j] = c /\ Source(g, t, j, n + 1)  BY <1>3, <1>5, <2>3
    <3>2. j \in 1 .. Len(g) /\ n + 1 \in 1 .. Len(g) /\ j < n + 1 /\ g[j] = e
          /\ g[n + 1] = link.rs
      BY <1>1, <1>4, <1>6, <2>3, <3>1
    <3>3. QED  BY <3>1, <3>2
  <2>4. QED  BY <2>1, <2>2, <2>3
<1>9. ASSUME NEW i \in 1 .. Len(g), NEW j \in 1 .. Len(g), j < i,
             Source(g, t, j, i), ~ DoneIn(t, g[j])
      PROVE  [rs |-> g[i], valid |-> TRUE] \in o1[g[j]]
  <2>1. j \in 1 .. n /\ (i \in 1 .. n \/ i = n + 1)  BY <1>1, <1>9
  <2>2. ~ DoneIn(s, f[j]) /\ g[j] = f[j] /\ f[j] \in Descs  BY <1>1, <1>2, <1>9, <2>1
  <2>3. CASE i \in 1 .. n
    <3>1. Source(f, s, j, i) /\ g[i] = f[i]  BY <1>1, <1>2, <1>9, <2>1, <2>3
    <3>2. [rs |-> f[i], valid |-> TRUE] \in o[f[j]]
      BY <1>9, <2>1, <2>2, <2>3, <3>1 DEF Awaited, n
    <3>3. o[f[j]] \subseteq o1[f[j]]  BY <1>7, <2>2
    <3>4. QED  BY <2>2, <3>1, <3>2, <3>3
  <2>4. CASE i = n + 1
    <3>1. c = f[j]  BY <1>3, <1>9, <2>1, <2>2, <2>4
    <3>2. x \in o1[f[j]]  BY <1>7, <2>2, <3>1
    <3>3. x = [rs |-> g[i], valid |-> TRUE]  BY <1>1, <2>4 DEF x
    <3>4. QED  BY <2>2, <3>2, <3>3
  <2>5. QED  BY <2>1, <2>3, <2>4
<1>10. ASSUME NEW e \in Descs, o1[e] # {} PROVE t[e] # NoInst /\ ~ DoneIn(t, e)
  <2>1. s[e] # NoInst /\ ~ DoneIn(s, e)
    <3>1. CASE o[e] # {}  BY <3>1 DEF Awaited
    <3>2. CASE o[e] = {}
      <4>1. e = c  BY <1>7, <1>10, <3>2
      <4>2. PICK j \in 1 .. n : f[j] = c /\ ~ DoneIn(s, f[j])  BY <1>3, <1>5, <4>1
      <4>3. QED  BY <4>1, <4>2 DEF n
    <3>3. QED  BY <3>1, <3>2
  <2>2. QED  BY <2>1
<1>11. QED  BY <1>8, <1>9, <1>10 DEF Awaited

LEMMA GrownCreators ==
  ASSUME NEW f, NEW s, NEW g, NEW t, NEW d, NEW op, NEW level, Grown(f, s, g, t, d, op, level),
         NEW cv, Creators(f, s, cv, level), NEW above \in {level, level + 1}, NEW cv1,
         \A l \in 0 .. above, r \in Regs :
           cv1[l][r] = IF l < level THEN cv[l][r]
                       ELSE IF r = op.out THEN d ELSE cv[level][r]
  PROVE  Creators(g, t, cv1, above)
<1> DEFINE n == Len(f)
<1>1. /\ n \in Nat /\ Len(g) = n + 1 /\ g[n + 1] = d /\ level \in Nat
      /\ t[d].op = op /\ t[d].level = level /\ ~ DoneIn(t, d)
  BY LenProperties DEF Grown, DoneIn
<1>2. \A k \in 1 .. n : /\ g[k] = f[k] /\ t[f[k]].op = s[f[k]].op
                        /\ t[f[k]].level = s[f[k]].level
                        /\ s[f[k]].level \in Nat /\ s[f[k]].level <= level
                        /\ DoneIn(t, f[k]) <=> DoneIn(s, f[k])
  BY DEF Grown, DoneIn
<1>3. \A l \in 0 .. level, r \in Regs :
        /\ \A j \in 1 .. n : Creates(f, s, l, r, j) =>
             cv[l][r] = IF DoneIn(s, f[j]) THEN NoDesc ELSE f[j]
        /\ cv[l][r] # NoDesc => \E j \in 1 .. n : Creates(f, s, l, r, j)
  BY DEF Creators
<1>4. \A l, r, j : Creates(f, s, l, r, j) <=>
        /\ s[f[j]].op.out = r /\ s[f[j]].level <= l
        /\ \A k \in j + 1 .. n : s[f[k]].op.out = r => s[f[k]].level > l
  BY DEF Creates
<1> HIDE DEF n
<1>5. ASSUME NEW l \in 0 .. above, NEW r \in Regs, NEW j \in 1 .. n
      PROVE  Creates(g, t, l, r, j) <=>
               /\ op.out = r => level > l
               /\ s[f[j]].op.out = r /\ s[f[j]].level <= l
               /\ \A k \in j + 1 .. n : s[f[k]].op.out = r => s[f[k]].level > l
  <2>1. \A k \in j + 1 .. n : k \in 1 .. n /\ k \in j + 1 .. Len(g)  BY <1>1
  <2>2. \A k \in j + 1 .. Len(g) : k \in j + 1 .. n \/ k = n + 1  BY <1>1
  <2>3. n + 1 \in j + 1 .. Len(g)  BY <1>1
  <2> DEFINE out(k) == t[g[k]].op.out
             at(k) == t[g[k]].level
  <2>4. Creates(g, t, l, r, j) <=>
          /\ out(j) = r /\ at(j) <= l
          /\ \A k \in j + 1 .. Len(g) : out(k) = r => at(k) > l
    BY DEF Creates
  <2>5. \A k \in 1 .. n : out(k) = s[f[k]].op.out /\ at(k) = s[f[k]].level  BY <1>2
  <2>6. out(n + 1) = op.out /\ at(n + 1) = level  BY <1>1
  <2> HIDE DEF out, at
  <2>7. (\A k \in j + 1 .. Len(g) : out(k) = r => at(k) > l) <=>
          /\ out(n + 1) = r => at(n + 1) > l
          /\ \A k \in j + 1 .. n : out(k) = r => at(k) > l
    BY <2>1, <2>2, <2>3
  <2>8. QED  BY <2>1, <2>4, <2>5, <2>6, <2>7
<1>6. ASSUME NEW l \in 0 .. above, NEW r \in Regs
      PROVE  Creates(g, t, l, r, n + 1) <=> op.out = r /\ level <= l
  <2>1. \A k \in (n + 1) + 1 .. Len(g) : FALSE  BY <1>1
  <2>2. QED  BY <1>1, <2>1 DEF Creates
<1>7. ASSUME NEW l \in 0 .. above, NEW r \in Regs
      PROVE  /\ \A j \in 1 .. Len(g) :
                  Creates(g, t, l, r, j) => cv1[l][r] = IF DoneIn(t, g[j]) THEN NoDesc ELSE g[j]
             /\ cv1[l][r] # NoDesc => \E j \in 1 .. Len(g) : Creates(g, t, l, r, j)
  <2>1. \A j \in 1 .. Len(g) : j \in 1 .. n \/ j = n + 1  BY <1>1
  <2>2. 1 .. n \subseteq 1 .. Len(g) /\ n + 1 \in 1 .. Len(g)  BY <1>1
  <2>3. l \in Nat /\ (l < level \/ level <= l)  BY <1>1
  <2>4. CASE l < level
    <3>1. l \in 0 .. level /\ level > l /\ ~ (level <= l) /\ cv1[l][r] = cv[l][r]
      BY <1>1, <2>3, <2>4
    <3>2. \A j \in 1 .. n : Creates(g, t, l, r, j) <=> Creates(f, s, l, r, j)
      BY <1>4, <1>5, <3>1
    <3>3. ~ Creates(g, t, l, r, n + 1)  BY <1>6, <3>1
    <3>4. QED  BY <1>2, <1>3, <2>1, <2>2, <3>1, <3>2, <3>3
  <2>5. CASE level <= l /\ op.out = r
    <3>1. ~ (l < level) /\ ~ (level > l)  BY <1>1, <2>3, <2>5
    <3>2. cv1[l][r] = d  BY <2>5, <3>1
    <3>3. \A j \in 1 .. n : ~ Creates(g, t, l, r, j)  BY <1>5, <2>5, <3>1
    <3>4. Creates(g, t, l, r, n + 1)  BY <1>6, <2>5
    <3>5. QED  BY <1>1, <2>1, <2>2, <3>2, <3>3, <3>4
  <2>6. CASE level <= l /\ op.out # r
    <3>1. ~ (l < level) /\ level \in 0 .. level  BY <1>1, <2>3, <2>6
    <3>2. cv1[l][r] = cv[level][r]  BY <2>6, <3>1
    <3>3. \A k \in 1 .. n : /\ s[f[k]].level <= l /\ ~ (s[f[k]].level > l)
                            /\ s[f[k]].level <= level /\ ~ (s[f[k]].level > level)
      BY <1>1, <1>2, <2>3, <2>6
    <3>4. \A j \in 1 .. n : Creates(g, t, l, r, j) <=> Creates(f, s, level, r, j)
      <4>1. \A j \in 1 .. n : \A k \in j + 1 .. n : k \in 1 .. n  BY <1>1
      <4>2. QED  BY <1>4, <1>5, <2>6, <3>3, <4>1
    <3>5. ~ Creates(g, t, l, r, n + 1)  BY <1>6, <2>6
    <3>6. QED  BY <1>2, <1>3, <2>1, <2>2, <3>1, <3>2, <3>4, <3>5
  <2>7. QED  BY <2>3, <2>4, <2>5, <2>6
<1>8. QED  BY <1>7 DEF Creators

LEMMA FiniteImage ==
  ASSUME NEW S, IsFiniteSet(S), NEW F
  PROVE  IsFiniteSet({F[x] : x \in S})
<1> DEFINE T == {F[x] : x \in S}
           g == [x \in S |-> F[x]]
<1>1. g \in [S -> T] /\ \A y \in T : \E x \in S : g[x] = y  OBVIOUS
<1> HIDE DEF T, g
<1>2. g \in Surjection(S, T)  BY <1>1 DEF Surjection
<1>3. QED  BY <1>2, FS_Surjection DEF T

LEMMA Smaller ==
  ASSUME NEW S, IsFiniteSet(S), NEW T \in SUBSET S, NEW x \in S, x \notin T
  PROVE  Cardinality(T) \in Nat /\ Cardinality(S) \in Nat /\ Cardinality(T) < Cardinality(S)
<1>1. /\ IsFiniteSet(T) /\ Cardinality(T) <= Cardinality(S)
      /\ Cardinality(S) = Cardinality(T) => S = T
  BY FS_Subset
<1>2. Cardinality(T) \in Nat /\ Cardinality(S) \in Nat  BY <1>1, FS_CardinalityType
<1>3. S # T  OBVIOUS
<1>4. QED  BY <1>1, <1>2, <1>3

\* The rank of a number that is in use keeps the order.
LEMMA Ranks ==
  ASSUME IInv
  PROVE  /\ Seqs \in SUBSET Nat /\ Cardinality(Seqs) \in Nat
         /\ \A x \in Nat : Rank(x) \in Nat
         /\ \A x \in Seqs : Rank(x) < Cardinality(Seqs)
         /\ \A x \in Seqs, y \in Seqs : x < y => Rank(x) < Rank(y)
         /\ \A d \in Descs : inst[d] # NoInst => inst[d].seq \in Seqs
         /\ \A u \in Units : \A i \in 1 .. Len(ready_queue[u]) : ready_queue[u][i].seq \in Seqs
<1> DEFINE A == {inst[d].seq : d \in Used}
           R == UNION {Range(ready_queue[u]) : u \in Units}
           B == {link.seq : link \in R}
<1>1. /\ inst \in [Descs -> InstType \cup {NoInst}]
      /\ ready_queue \in [Units -> Seq(Links)]
  BY DEF IInv, Types
<1>2. Seqs = A \cup B  BY DEF Seqs
<1>3. Used \in SUBSET Descs /\ \A d \in Descs : d \in Used <=> inst[d] # NoInst  BY DEF Used
<1>4. \A u \in Units : /\ Len(ready_queue[u]) \in Nat
                       /\ Range(ready_queue[u]) = {ready_queue[u][i] : i \in 1 .. Len(ready_queue[u])}
                       /\ \A i \in 1 .. Len(ready_queue[u]) : ready_queue[u][i] \in Links
  BY <1>1, LenProperties, Elements, ElementOfSeq
<1>5. A \in SUBSET Nat /\ \A d \in Descs : inst[d] # NoInst => inst[d].seq \in A
  BY <1>1, <1>3, Fields
<1>6. R \in SUBSET Links /\ \A u \in Units : \A i \in 1 .. Len(ready_queue[u]) : ready_queue[u][i] \in R
  <2>1. ASSUME NEW link \in R PROVE link \in Links
    <3>1. PICK u \in Units : link \in Range(ready_queue[u])  OBVIOUS
    <3>2. PICK i \in 1 .. Len(ready_queue[u]) : link = ready_queue[u][i]  BY <1>4, <3>1
    <3>3. QED  BY <1>4, <3>2
  <2>2. ASSUME NEW u \in Units, NEW i \in 1 .. Len(ready_queue[u]) PROVE ready_queue[u][i] \in R
    <3>1. ready_queue[u][i] \in Range(ready_queue[u])  BY <1>4
    <3>2. QED  BY <3>1
  <2> HIDE DEF R
  <2>3. QED  BY <2>1, <2>2
<1>7. \A link \in Links : link.seq \in Nat  BY DEF Links
<1>8. IsFiniteSet(A)
  <2> DEFINE F == [d \in Used |-> inst[d].seq]
  <2>1. IsFiniteSet(Used)  BY <1>3, Assumed, FS_Subset
  <2>2. A = {F[d] : d \in Used}  OBVIOUS
  <2> HIDE DEF F, A
  <2>3. QED  BY <2>1, <2>2, FiniteImage
<1>9. IsFiniteSet(R)
  <2> DEFINE G == [u \in Units |-> Range(ready_queue[u])]
             Q == {G[u] : u \in Units}
  <2>1. R = UNION Q  OBVIOUS
  <2>2. IsFiniteSet(Q)
    <3> HIDE DEF G
    <3>1. QED  BY Assumed, FiniteImage
  <2>3. \A T \in Q : IsFiniteSet(T)
    <3>1. SUFFICES ASSUME NEW u \in Units PROVE IsFiniteSet(Range(ready_queue[u]))  OBVIOUS
    <3> DEFINE q == ready_queue[u]
    <3>2. 1 \in Int /\ Len(q) \in Int  BY <1>4
    <3>3. IsFiniteSet(1 .. Len(q)) /\ Range(q) = {q[i] : i \in 1 .. Len(q)}
      BY <1>4, <3>2, FS_Interval
    <3> HIDE DEF q
    <3>4. IsFiniteSet(Range(q))  BY <3>3, FiniteImage
    <3>5. QED  BY <3>4 DEF q
  <2> HIDE DEF Q, R
  <2>4. QED  BY <2>1, <2>2, <2>3, FS_UNION
<1>10. IsFiniteSet(B)
  <2> HIDE DEF R
  <2> DEFINE F == [link \in R |-> link.seq]
  <2>1. B = {F[link] : link \in R}  OBVIOUS
  <2> HIDE DEF F, B
  <2>2. QED  BY <1>9, <2>1, FiniteImage
<1>11. B \in SUBSET Nat /\ \A link \in R : link.seq \in B  BY <1>6, <1>7
<1> HIDE DEF A, R, B
<1>12. IsFiniteSet(Seqs) /\ Seqs \in SUBSET Nat  BY <1>2, <1>5, <1>8, <1>10, <1>11, FS_Union
<1> DEFINE below(x) == {y \in Seqs : y < x}
<1>13. \A x : Rank(x) = Cardinality(below(x))  BY DEF Rank
<1>14. \A x : below(x) \in SUBSET Seqs /\ IsFiniteSet(below(x)) /\ Cardinality(below(x)) \in Nat
  <2>1. SUFFICES ASSUME NEW x
                 PROVE  /\ below(x) \in SUBSET Seqs /\ IsFiniteSet(below(x))
                        /\ Cardinality(below(x)) \in Nat
    OBVIOUS
  <2>2. below(x) \in SUBSET Seqs  OBVIOUS
  <2> HIDE DEF below
  <2>3. QED  BY <1>12, <2>2, FS_Subset, FS_CardinalityType
<1>15. \A x \in Seqs : x \notin below(x) /\ \A y \in Seqs : x < y => x \in below(y) /\ below(x) \subseteq below(y)
  <2>1. \A x \in Seqs : x \in Nat  BY <1>12
  <2>2. \A x \in Nat : ~ (x < x)  OBVIOUS
  <2>3. \A x \in Nat, y \in Nat, z \in Nat : x < y /\ z < x => z < y  OBVIOUS
  <2>4. \A x \in Seqs : x \notin below(x)  BY <2>1, <2>2
  <2>5. ASSUME NEW x \in Seqs, NEW y \in Seqs, x < y
        PROVE  x \in below(y) /\ below(x) \subseteq below(y)
    <3>1. \A z \in Seqs : z < x => z < y  BY <2>1, <2>3, <2>5
    <3>2. QED  BY <2>5, <3>1
  <2> HIDE DEF below
  <2>6. QED  BY <2>4, <2>5
<1> HIDE DEF below
<1>16. \A x \in Seqs : Rank(x) < Cardinality(Seqs)
  <2>1. SUFFICES ASSUME NEW x \in Seqs PROVE Cardinality(below(x)) < Cardinality(Seqs)
    BY <1>13
  <2>2. QED  BY <1>12, <1>14, <1>15, Smaller
<1>17. ASSUME NEW x \in Seqs, NEW y \in Seqs, x < y PROVE Rank(x) < Rank(y)
  <2>1. /\ x \in below(y) /\ below(x) \in SUBSET below(y) /\ x \notin below(x)
        /\ IsFiniteSet(below(y))
    BY <1>14, <1>15, <1>17
  <2>2. Cardinality(below(x)) < Cardinality(below(y))  BY <2>1, Smaller
  <2>3. QED  BY <1>13, <2>2
<1>18. Cardinality(Seqs) \in Nat  BY <1>12, FS_CardinalityType
<1>19. \A u \in Units : \A i \in 1 .. Len(ready_queue[u]) : ready_queue[u][i].seq \in Seqs
  BY <1>2, <1>6, <1>11
<1>20. QED  BY <1>2, <1>5, <1>12, <1>13, <1>14, <1>16, <1>17, <1>18, <1>19

\* What decode_stage makes of the descriptors.
LEMMA DecodedInst ==
  ASSUME IInv, NEW d \in Descs, NEW op \in Instructions, decode(d, op)
  PROVE  /\ inst' \in [Descs -> InstType \cup {NoInst}] /\ inst[d] = NoInst /\ inst'[d] # NoInst
         /\ inst'[d].op = op /\ inst'[d].seq = Cardinality(Seqs) /\ inst'[d].level = spec_level
         /\ inst'[d].status = "decoded" /\ (inst'[d].idep_ready <=> Creator(op) = NoDesc)
         /\ \A e \in Descs : inst[e] = NoInst /\ e # d => inst'[e] = NoInst
         /\ \A e \in Descs : inst[e] # NoInst =>
              /\ e # d /\ inst'[e] # NoInst /\ inst'[e].op = inst[e].op
              /\ inst'[e].seq = Rank(inst[e].seq) /\ inst'[e].level = inst[e].level
              /\ inst'[e].status = inst[e].status /\ inst'[e].fu = inst[e].fu
              /\ inst'[e].idep_ready = inst[e].idep_ready
<1> DEFINE t == inst'
           N == Cardinality(Seqs)
           x == [op |-> op, seq |-> N, level |-> spec_level,
                 idep_ready |-> Creator(op) = NoDesc, status |-> "decoded",
                 ex |-> FALSE, fu |-> NoDesc]
<1>1. inst \in [Descs -> InstType \cup {NoInst}] /\ spec_level \in Levels  BY Facts
<1>2. N \in Nat /\ \A y \in Nat : Rank(y) \in Nat  BY Ranks
<1>3. /\ inst[d] = NoInst
      /\ t = [e \in Descs |->
                IF e = d THEN x
                ELSE IF e \in Used THEN [inst[e] EXCEPT !.seq = Rank(@)] ELSE NoInst]
  BY DEF decode
<1>4. \A e \in Descs : e \in Used <=> inst[e] # NoInst  BY DEF Used
<1> HIDE DEF t, N
<1>5. /\ x \in InstType /\ x.op = op /\ x.seq = N /\ x.level = spec_level
      /\ x.status = "decoded" /\ (x.idep_ready <=> Creator(op) = NoDesc)
  BY <1>1, <1>2 DEF InstType, Status
<1> HIDE DEF x
<1>6. \A y \in InstType : \A n \in Nat :
        LET z == [y EXCEPT !.seq = n]
        IN  /\ z \in InstType /\ z.op = y.op /\ z.seq = n /\ z.level = y.level
            /\ z.status = y.status /\ z.fu = y.fu /\ z.idep_ready = y.idep_ready
  BY DEF InstType
<1>7. NoInst \notin InstType
  <2>1. \A y \in InstType : y.status # "free"  BY DEF InstType, Status
  <2>2. QED  BY <2>1 DEF NoInst
<1>8. t[d] = x  BY <1>3
<1>9. \A e \in Descs : inst[e] = NoInst /\ e # d => t[e] = NoInst  BY <1>3, <1>4
<1>10. ASSUME NEW e \in Descs, inst[e] # NoInst
       PROVE  /\ e # d /\ t[e] \in InstType /\ t[e].op = inst[e].op
              /\ t[e].seq = Rank(inst[e].seq) /\ t[e].level = inst[e].level
              /\ t[e].status = inst[e].status /\ t[e].fu = inst[e].fu
              /\ t[e].idep_ready = inst[e].idep_ready
  <2>1. e # d /\ e \in Used  BY <1>3, <1>4, <1>10
  <2>2. inst[e] \in InstType /\ inst[e].seq \in Nat  BY <1>1, <1>10, Fields
  <2>3. t[e] = [inst[e] EXCEPT !.seq = Rank(inst[e].seq)]  BY <1>3, <2>1
  <2>4. Rank(inst[e].seq) \in Nat  BY <1>2, <2>2
  <2>5. QED  BY <1>6, <2>1, <2>2, <2>3, <2>4
<1>11. t \in [Descs -> InstType \cup {NoInst}]
  <2>1. \A e \in Descs : t[e] \in InstType \cup {NoInst}  BY <1>5, <1>8, <1>9, <1>10
  <2>2. t = [e \in Descs |-> t[e]]  BY <1>3
  <2>3. QED  BY <2>1, <2>2
<1>12. QED  BY <1>3, <1>5, <1>7, <1>8, <1>9, <1>10, <1>11 DEF t, N

\* roq_install_odep and prepare_create_vector.
LEMMA InstalledVector ==
  ASSUME IInv, NEW d \in Descs, NEW op \in Instructions, op.mis_predict => spec_level < MaxLevel
  PROVE  /\ Installed(d, op) \in [Levels -> [Regs -> Descs \cup {NoDesc}]]
         /\ \A l \in 0 .. IF op.mis_predict THEN spec_level + 1 ELSE spec_level : \A r \in Regs :
              Installed(d, op)[l][r] = IF l < spec_level THEN create_vector[l][r]
                                       ELSE IF r = op.out THEN d ELSE create_vector[spec_level][r]
<1> DEFINE L == spec_level
           cv == create_vector
           T == [Regs -> Descs \cup {NoDesc}]
           v == [r \in Regs |-> IF r = op.out THEN d ELSE cv[L][r]]
           here == [cv EXCEPT ![L] = v]
           w == Installed(d, op)
<1>1. cv \in [Levels -> T] /\ L \in Levels /\ MaxLevel \in Nat  BY Assumed DEF IInv, Types
<1>2. L \in Nat /\ L <= MaxLevel /\ Levels = 0 .. MaxLevel  BY <1>1 DEF Levels
<1>3. w = IF op.mis_predict THEN [here EXCEPT ![L + 1] = here[L]] ELSE here  BY DEF Installed
<1>4. v \in T
  <2>1. cv[L] \in T  BY <1>1
  <2>2. QED  BY <2>1
<1>5. \A r \in Regs : v[r] = IF r = op.out THEN d ELSE cv[L][r]  OBVIOUS
<1> HIDE DEF v, w, T, cv, L
<1>6. here \in [Levels -> T] /\ here[L] = v /\ \A l \in Levels : l # L => here[l] = cv[l]
  BY <1>1, <1>4
<1> HIDE DEF here
<1>7. CASE ~ op.mis_predict
  <2>1. w = here  BY <1>3, <1>7
  <2>2. ASSUME NEW l \in 0 .. L, NEW r \in Regs
        PROVE  w[l][r] = IF l < L THEN cv[l][r] ELSE IF r = op.out THEN d ELSE cv[L][r]
    <3>1. l \in Levels /\ (l < L => l # L) /\ (~ (l < L) => l = L)  BY <1>1, <1>2
    <3>2. QED  BY <1>5, <1>6, <2>1, <3>1
  <2>3. QED  BY <1>6, <1>7, <2>1, <2>2 DEF w, T, cv, L
<1>8. CASE op.mis_predict
  <2>1. L < MaxLevel  BY <1>8 DEF L
  <2>2. L + 1 \in Levels /\ L + 1 # L  BY <1>1, <1>2, <2>1
  <2>3. w = [here EXCEPT ![L + 1] = v]  BY <1>3, <1>6, <1>8
  <2>4. w \in [Levels -> T] /\ w[L + 1] = v /\ \A l \in Levels : l # L + 1 => w[l] = here[l]
    BY <1>4, <1>6, <2>2, <2>3
  <2>5. ASSUME NEW l \in 0 .. L + 1, NEW r \in Regs
        PROVE  w[l][r] = IF l < L THEN cv[l][r] ELSE IF r = op.out THEN d ELSE cv[L][r]
    <3>1. /\ l \in Levels /\ (l < L => l # L /\ l # L + 1)
          /\ (~ (l < L) => l = L \/ l = L + 1)
      BY <1>1, <1>2, <2>1
    <3>2. QED  BY <1>2, <1>5, <1>6, <2>2, <2>4, <3>1
  <2>6. QED  BY <1>8, <2>4, <2>5 DEF w, T, cv, L
<1>9. QED  BY <1>7, <1>8

LEMMA DecodedFlight ==
  ASSUME IInv, NEW d \in Descs, NEW op \in Instructions, decode(d, op)
  PROVE  /\ InFlight' \in Seq(Descs) /\ roq' = roq /\ decode_data' \in Seq(Descs)
         /\ Grown(InFlight, inst, InFlight', inst', d, op, spec_level)
<1> DEFINE f == InFlight
           g == InFlight'
           e == Append(decode_data, d)
           n == Len(roq)
           k == Len(decode_data)
           s == inst
           t == inst'
<1>1. /\ roq \in Seq(Descs) /\ decode_data \in Seq(Descs) /\ f \in Seq(Descs)
      /\ n \in Nat /\ k \in Nat /\ Len(f) = n + k /\ spec_level \in Nat
      /\ \A i \in 1 .. n : f[i] = roq[i]
      /\ \A i \in 1 .. k : f[n + i] = decode_data[i]
      /\ \A i \in 1 .. Len(f) : f[i] \in Descs /\ s[f[i]] # NoInst
  BY Facts
<1>2. roq' = roq /\ decode_data' = e  BY DEF decode
<1>3. g = roq \o e  BY <1>2 DEF InFlight
<1>4. /\ e \in Seq(Descs) /\ Len(e) = k + 1 /\ e[k + 1] = d
      /\ \A i \in 1 .. k : e[i] = decode_data[i]
  BY <1>1, AppendProperties
<1> HIDE DEF e, f, g, n, k
<1>5. /\ g \in Seq(Descs) /\ Len(g) = n + Len(e)
      /\ \A i \in 1 .. n : g[i] = roq[i]
      /\ \A i \in 1 .. Len(e) : g[n + i] = e[i]
  <2>1. roq \in Seq(Descs) /\ e \in Seq(Descs)  BY <1>1, <1>4
  <2>2. /\ roq \o e \in Seq(Descs) /\ Len(roq \o e) = Len(roq) + Len(e)
        /\ \A i \in 1 .. Len(roq) : (roq \o e)[i] = roq[i]
        /\ \A i \in 1 .. Len(e) : (roq \o e)[Len(roq) + i] = e[i]
    BY ONLY <2>1, Joined
  <2>3. QED  BY <1>3, <2>2 DEF n
<1>6. Len(g) = Len(f) + 1 /\ g[Len(f) + 1] = d
  <2>1. k + 1 \in 1 .. Len(e) /\ Len(f) + 1 = n + (k + 1) /\ n + Len(e) = Len(f) + 1
    BY <1>1, <1>4
  <2>2. QED  BY <1>4, <1>5, <2>1
<1>7. ASSUME NEW i \in 1 .. Len(f) PROVE g[i] = f[i]
  <2>1. CASE i \in 1 .. n  BY <1>1, <1>5, <2>1
  <2>2. CASE i \notin 1 .. n
    <3> DEFINE h == i - n
    <3>1. h \in 1 .. k /\ h \in 1 .. Len(e) /\ n + h = i  BY <1>1, <1>4, <2>2
    <3> HIDE DEF h
    <3>2. g[n + h] = e[h] /\ e[h] = decode_data[h] /\ f[n + h] = decode_data[h]
      BY <1>1, <1>4, <1>5, <3>1
    <3>3. QED  BY <3>1, <3>2
  <2>3. QED  BY <2>1, <2>2
<1>8. ASSUME NEW i \in 1 .. Len(f)
      PROVE  /\ f[i] \in Descs /\ f[i] # d /\ t[f[i]].op = s[f[i]].op
             /\ t[f[i]].level = s[f[i]].level
             /\ t[f[i]].status = s[f[i]].status /\ t[f[i]].idep_ready = s[f[i]].idep_ready
             /\ t[f[i]].fu = s[f[i]].fu
  BY <1>1, DecodedInst
<1>9. ASSUME NEW i \in 1 .. Len(f)
      PROVE  /\ s[f[i]].level \in Nat /\ s[f[i]].level <= spec_level
             /\ OpenIn(s, f[i]) => s[f[i]].level < spec_level
  BY Places DEF f
<1>10. t[d].op = op /\ t[d].level = spec_level /\ t[d].status = "decoded"  BY DecodedInst
<1> HIDE DEF s, t
<1>11. Grown(f, s, g, t, d, op, spec_level)
  BY <1>1, <1>6, <1>7, <1>8, <1>9, <1>10 DEF Grown
<1>12. QED  BY <1>2, <1>4, <1>5, <1>11 DEF f, g, s, t

LEMMA DecodingOrdered ==
  ASSUME IInv, NEW d \in Descs, NEW op \in Instructions, decode(d, op)
  PROVE  Ordered(InFlight', inst', Len(roq'), spec_level')
<1> DEFINE f == InFlight
           g == InFlight'
           s == inst
           t == inst'
           m == Len(roq)
           L == spec_level
           L1 == spec_level'
           n == Len(f)
           N == Cardinality(Seqs)
<1>1. /\ g \in Seq(Descs) /\ Len(roq') = m /\ Grown(f, s, g, t, d, op, L)
  BY DecodedFlight
<1>2. /\ n \in Nat /\ m \in Nat /\ m <= n /\ L \in Nat
      /\ \A i \in 1 .. n : f[i] \in Descs /\ s[f[i]] # NoInst
      /\ \A e \in Descs : s[e] # NoInst => \E i \in 1 .. n : e = f[i]
  BY Facts
<1>3. Increasing(f, s)  BY DEF IInv, Ordered
<1>4. /\ s[d] = NoInst /\ t[d] # NoInst
      /\ t[d].seq = N
      /\ \A e \in Descs : s[e] = NoInst /\ e # d => t[e] = NoInst
      /\ \A e \in Descs : s[e] # NoInst => e # d /\ t[e] # NoInst /\ t[e].seq = Rank(s[e].seq)
  BY DecodedInst
<1>5. /\ \A x \in Seqs : Rank(x) < N
      /\ \A x \in Seqs, y \in Seqs : x < y => Rank(x) < Rank(y)
      /\ \A e \in Descs : s[e] # NoInst => s[e].seq \in Seqs
  BY Ranks
<1>6. L1 = IF op.mis_predict THEN L + 1 ELSE L  BY DEF decode
<1>7. \A i \in 1 .. n : /\ s[f[i]].level <= L /\ (OpenIn(s, f[i]) => s[f[i]].level < L)
                        /\ s[f[i]].status = "decoded" <=> i > m
                        /\ i <= m => s[f[i]].fu \in Units
                        /\ s[f[i]].status \in {"decoded", "queued"} \/ s[f[i]].idep_ready
  BY Places
<1> HIDE DEF f, g, s, t, m, L, L1, N
<1>8. /\ Len(g) = n + 1 /\ g[n + 1] = d
      /\ \A i \in 1 .. n :
           /\ g[i] = f[i] /\ f[i] # d
           /\ t[f[i]].op = s[f[i]].op /\ t[f[i]].level = s[f[i]].level
           /\ t[f[i]].status = s[f[i]].status /\ t[f[i]].idep_ready = s[f[i]].idep_ready
           /\ t[f[i]].fu = s[f[i]].fu
           /\ s[f[i]].level \in Nat
      /\ t[d].op = op /\ t[d].level = L /\ t[d].status = "decoded"
  BY <1>1 DEF Grown
<1> HIDE DEF n
<1>9. \A i \in 1 .. Len(g) : i \in 1 .. n \/ i = n + 1  BY <1>2, <1>8
<1>10. {e \in Descs : t[e] # NoInst} = {g[i] : i \in 1 .. Len(g)}
  <2>1. ASSUME NEW e \in Descs, t[e] # NoInst PROVE \E i \in 1 .. Len(g) : e = g[i]
    <3>1. CASE e = d
      <4>1. n + 1 \in 1 .. Len(g)  BY <1>2, <1>8
      <4>2. QED  BY <1>8, <3>1, <4>1
    <3>2. CASE e # d
      <4>1. PICK i \in 1 .. n : e = f[i]  BY <1>2, <1>4, <2>1, <3>2
      <4>2. i \in 1 .. Len(g) /\ g[i] = f[i]  BY <1>2, <1>8
      <4>3. QED  BY <4>1, <4>2
    <3>3. QED  BY <3>1, <3>2
  <2>2. ASSUME NEW i \in 1 .. Len(g) PROVE g[i] \in Descs /\ t[g[i]] # NoInst
    <3>1. CASE i \in 1 .. n  BY <1>2, <1>4, <1>8, <3>1
    <3>2. CASE i = n + 1  BY <1>4, <1>8, <3>2
    <3>3. QED  BY <1>9, <3>1, <3>2
  <2>3. QED  BY <2>1, <2>2
<1>11. L \in Nat /\ L1 \in Nat /\ L <= L1 /\ (op.mis_predict => L < L1)  BY <1>2, <1>6
<1>12. Placed(g, t, m, L1)
  <2>1. SUFFICES ASSUME NEW i \in 1 .. Len(g)
                 PROVE  /\ t[g[i]].level <= L1 /\ (OpenIn(t, g[i]) => t[g[i]].level < L1)
                        /\ t[g[i]].status = "decoded" <=> i > m
                        /\ i <= m => t[g[i]].fu \in Units
                        /\ t[g[i]].status \in {"decoded", "queued"} \/ t[g[i]].idep_ready
    BY DEF Placed
  <2>2. CASE i \in 1 .. n
    <3>1. OpenIn(t, g[i]) <=> OpenIn(s, f[i])  BY <1>8, <2>2 DEF OpenIn
    <3>2. /\ t[g[i]].level = s[f[i]].level /\ s[f[i]].level \in Nat
          /\ s[f[i]].level <= L /\ (OpenIn(s, f[i]) => s[f[i]].level < L)
      BY <1>7, <1>8, <2>2
    <3>3. t[g[i]].level <= L1 /\ (OpenIn(t, g[i]) => t[g[i]].level < L1)
      BY <1>11, <3>1, <3>2
    <3>4. QED  BY <1>7, <1>8, <2>2, <3>3
  <2>3. CASE i = n + 1
    <3>1. g[i] = d /\ i > m /\ ~ (i <= m)  BY <1>2, <1>8, <2>3
    <3>2. OpenIn(t, d) => op.mis_predict  BY <1>8 DEF OpenIn
    <3>3. QED  BY <1>8, <1>11, <3>1, <3>2
  <2>4. QED  BY <1>9, <2>2, <2>3
<1>13. Increasing(g, t)
  <2>1. SUFFICES ASSUME NEW i \in 1 .. Len(g), NEW j \in i + 1 .. Len(g)
                 PROVE  /\ g[i] # g[j] /\ t[g[i]].seq < t[g[j]].seq
                        /\ t[g[i]].level <= t[g[j]].level
                        /\ OpenIn(t, g[i]) => t[g[i]].level < t[g[j]].level
    BY DEF Increasing
  <2>2. i \in 1 .. n /\ (j \in i + 1 .. n \/ j = n + 1)  BY <1>2, <1>8
  <2>3. /\ g[i] = f[i] /\ t[g[i]].seq = Rank(s[f[i]].seq) /\ t[g[i]].level = s[f[i]].level
        /\ OpenIn(t, g[i]) <=> OpenIn(s, f[i])
        /\ s[f[i]].seq \in Seqs
    <3>1. OpenIn(t, f[i]) <=> OpenIn(s, f[i])  BY <1>8, <2>2 DEF OpenIn
    <3>2. QED  BY <1>2, <1>4, <1>5, <1>8, <2>2, <3>1
  <2>4. CASE j \in i + 1 .. n
    <3>1. j \in 1 .. n  BY <1>2, <2>2, <2>4
    <3>2. /\ f[i] # f[j] /\ s[f[i]].seq < s[f[j]].seq /\ s[f[i]].level <= s[f[j]].level
          /\ OpenIn(s, f[i]) => s[f[i]].level < s[f[j]].level
      BY <1>3, <2>2, <2>4 DEF Increasing, n
    <3>3. /\ g[j] = f[j] /\ t[g[j]].seq = Rank(s[f[j]].seq) /\ t[g[j]].level = s[f[j]].level
          /\ s[f[j]].seq \in Seqs
      BY <1>2, <1>4, <1>5, <1>8, <3>1
    <3>4. QED  BY <1>5, <2>3, <3>2, <3>3
  <2>5. CASE j = n + 1
    <3>1. g[j] = d /\ t[g[j]].seq = N /\ t[g[j]].level = L  BY <1>4, <1>8, <2>5
    <3>2. g[i] # d  BY <1>8, <2>2
    <3>3. QED  BY <1>5, <1>7, <2>2, <2>3, <3>1, <3>2
  <2>6. QED  BY <2>2, <2>4, <2>5
<1>14. Ordered(g, t, m, L1)  BY <1>10, <1>12, <1>13 DEF Ordered
<1>15. QED  BY <1>1, <1>14 DEF g, t, L1

LEMMA DecodingWindow ==
  ASSUME IInv, NEW d \in Descs, NEW op \in Instructions, decode(d, op)
  PROVE  /\ Operands(InFlight', inst') /\ Awaited(InFlight', inst', odep_list')
         /\ Creators(InFlight', inst', create_vector', spec_level')
<1> DEFINE f == InFlight
           g == InFlight'
           s == inst
           t == inst'
           L == spec_level
           L1 == spec_level'
           c == Creator(op)
           cv == create_vector
           cv1 == create_vector'
           o == odep_list
           o1 == odep_list'
<1>1. Grown(f, s, g, t, d, op, L)  BY DecodedFlight
<1>2. /\ Operands(f, s) /\ Awaited(f, s, o) /\ Creators(f, s, cv, L)  BY DEF IInv
<1>3. WaitsFor(f, s, g, t, c)
  <2>1. c = IF op.in = NA THEN NoDesc ELSE cv[L][op.in]  BY DEF Creator
  <2> HIDE DEF f, s, g, t, c, cv, L
  <2>2. WaitsFor(f, s, g, t, IF op.in = NA THEN NoDesc ELSE cv[L][op.in])
    BY <1>1, <1>2, TheCreator
  <2>3. QED  BY <2>1, <2>2
<1>4. /\ t[d].idep_ready <=> c = NoDesc
      /\ \A e \in Descs : s[e] # NoInst => t[e] # NoInst /\ t[e].status = s[e].status
  BY DecodedInst
<1>5. \A e \in Descs : o1[e] = IF e = c THEN o[e] \cup {[rs |-> d, valid |-> TRUE]} ELSE o[e]
  BY DEF decode
<1>6. \A i \in 1 .. Len(f) : s[f[i]] # NoInst  BY Facts
<1>7. L1 = (IF op.mis_predict THEN L + 1 ELSE L) /\ cv1 = Installed(d, op)
      /\ (op.mis_predict => L < MaxLevel)
  BY DEF decode
<1>8. \A l \in 0 .. L1, r \in Regs :
        cv1[l][r] = IF l < L THEN cv[l][r] ELSE IF r = op.out THEN d ELSE cv[L][r]
  BY <1>7, InstalledVector
<1>9. L1 \in {L, L + 1}  BY <1>7
<1> HIDE DEF f, g, s, t, L, L1, c, cv, cv1, o, o1
<1>10. Operands(g, t)  BY <1>1, <1>2, <1>3, <1>4, GrownOperands
<1>11. \A e \in Descs : s[e] # NoInst => t[e] # NoInst /\ (DoneIn(t, e) => DoneIn(s, e))
  BY <1>4 DEF DoneIn
<1>12. Awaited(g, t, o1)  BY <1>1, <1>2, <1>3, <1>5, <1>6, <1>11, GrownAwaited
<1>13. Creators(g, t, cv1, L1)  BY <1>1, <1>2, <1>8, <1>9, GrownCreators
<1>14. QED  BY <1>10, <1>12, <1>13 DEF g, t, o1, cv1, L1

LEMMA DecodingQueues ==
  ASSUME IInv, NEW d \in Descs, NEW op \in Instructions, decode(d, op)
  PROVE  /\ ready_queue' \in [Units -> Seq(Links)]
         /\ \A u \in Units : Readies(ready_queue'[u], u, inst')
         /\ event_queue' \in Seq(Events) /\ Running(event_queue', inst')
         /\ busy' \in [Units -> BOOLEAN] /\ InUse(busy', inst')
<1> DEFINE s == inst
           t == inst'
           N == Cardinality(Seqs)
<1>1. /\ s \in [Descs -> InstType \cup {NoInst}] /\ UsedOnly(s)  BY Facts
<1>2. /\ \A u \in Units : Readies(ready_queue[u], u, s)
      /\ ready_queue \in [Units -> Seq(Links)]
      /\ event_queue \in Seq(Events) /\ Running(event_queue, s)
      /\ busy \in [Units -> BOOLEAN] /\ InUse(busy, s)
  BY DEF IInv, Types
<1>3. /\ t \in [Descs -> InstType \cup {NoInst}] /\ s[d] = NoInst
      /\ t[d].seq = N /\ t[d].status = "decoded"
      /\ \A e \in Descs : s[e] = NoInst /\ e # d => t[e] = NoInst
      /\ \A e \in Descs : s[e] # NoInst =>
           /\ e # d /\ t[e].op = s[e].op /\ t[e].seq = Rank(s[e].seq)
           /\ t[e].status = s[e].status /\ t[e].fu = s[e].fu /\ t[e].idep_ready = s[e].idep_ready
  BY DecodedInst
<1>4. /\ Seqs \in SUBSET Nat /\ N \in Nat /\ \A x \in Nat : Rank(x) \in Nat
      /\ \A x \in Seqs : Rank(x) < N
      /\ \A x \in Seqs, y \in Seqs : x < y => Rank(x) < Rank(y)
      /\ \A e \in Descs : s[e] # NoInst => s[e].seq \in Seqs
      /\ \A u \in Units : \A i \in 1 .. Len(ready_queue[u]) : ready_queue[u][i].seq \in Seqs
  BY Ranks
<1>5. /\ ready_queue' = [u \in Units |-> [i \in DOMAIN ready_queue[u] |->
                                       [ready_queue[u][i] EXCEPT !.seq = Rank(@)]]]
      /\ event_queue' = [i \in DOMAIN event_queue |-> [event_queue[i] EXCEPT !.wait = @ - 1]]
      /\ busy' = busy
  BY DEF decode, NextCycle
<1> HIDE DEF s, t, N
<1>6. NoInst.status = "free"  BY DEF NoInst
<1>7. ASSUME NEW e \in Descs
      PROVE  /\ t[e].status = "issued" <=> s[e].status = "issued"
             /\ t[e].status = "queued" <=> s[e].status = "queued"
             /\ s[e].status \in {"issued", "queued"} =>
                  /\ s[e] # NoInst /\ t[e].op = s[e].op /\ t[e].fu = s[e].fu
                  /\ t[e].idep_ready = s[e].idep_ready /\ t[e].seq = Rank(s[e].seq)
  <2>1. CASE e = d  BY <1>3, <1>6, <2>1
  <2>2. CASE e # d /\ s[e] = NoInst  BY <1>3, <1>6, <2>2
  <2>3. CASE s[e] # NoInst  BY <1>3, <2>3
  <2>4. QED  BY <2>1, <2>2, <2>3
<1>8. \A x \in Seqs, y \in Seqs : x # y => Rank(x) # Rank(y)
  <2>1. SUFFICES ASSUME NEW x \in Seqs, NEW y \in Seqs, x # y PROVE Rank(x) # Rank(y)
    OBVIOUS
  <2>2. x \in Nat /\ y \in Nat /\ Rank(x) \in Nat /\ Rank(y) \in Nat  BY <1>4
  <2>3. x < y \/ y < x  BY <2>1, <2>2
  <2>4. QED  BY <1>4, <2>2, <2>3
<1>9. ASSUME NEW u \in Units
      PROVE  ready_queue'[u] \in Seq(Links) /\ Readies(ready_queue'[u], u, t)
  <2> DEFINE q == ready_queue[u]
             r == ready_queue'[u]
  <2>1. q \in Seq(Links) /\ Readies(q, u, s)  BY <1>2
  <2>2. Len(q) \in Nat /\ DOMAIN q = 1 .. Len(q)  BY <2>1, LenProperties
  <2>3. r = [i \in DOMAIN q |-> [q[i] EXCEPT !.seq = Rank(q[i].seq)]]  BY <1>5
  <2>4. \A i \in 1 .. Len(q) : q[i].seq \in Seqs  BY <1>4
  <2> HIDE DEF q, r
  <2>5. \A i \in 1 .. Len(q) : q[i] \in Links  BY <2>1, ElementOfSeq
  <2>6. \A x \in Links : \A y \in Nat :
          LET z == [x EXCEPT !.seq = y]
          IN  /\ z \in Links /\ z.rs = x.rs /\ z.seq = y /\ z.valid = x.valid /\ z.next = x.next
    BY DEF Links
  <2>7. ASSUME NEW i \in 1 .. Len(q)
        PROVE  /\ r[i] \in Links /\ r[i].rs = q[i].rs /\ r[i].seq = Rank(q[i].seq)
               /\ r[i].valid = q[i].valid /\ r[i].next = q[i].next
    <3>1. r[i] = [q[i] EXCEPT !.seq = Rank(q[i].seq)]  BY <2>2, <2>3
    <3>2. Rank(q[i].seq) \in Nat  BY <1>4, <2>4
    <3>3. QED  BY <2>5, <2>6, <3>1, <3>2
  <2>8. r \in Seq(Links) /\ Len(r) = Len(q)
    <3>1. r \in [1 .. Len(q) -> Links]
      <4>1. r = [i \in 1 .. Len(q) |-> r[i]]  BY <2>2, <2>3
      <4>2. QED  BY <2>7, <4>1
    <3>2. QED  BY <2>2, <3>1, SeqDef, LenProperties
  <2>9. \A i \in 1 .. Len(q) : q[i].rs \in Descs
    <3>1. \A link \in Links : link.rs \in Descs  BY DEF Links
    <3>2. QED  BY <2>5, <3>1
  <2>10. \A e \in Descs : Ready(t, u, e) <=> Ready(s, u, e)  BY <1>7 DEF Ready
  <2>11. ASSUME NEW k \in 1 .. Len(r), r[k].valid
         PROVE  Ready(t, u, r[k].rs) /\ t[r[k].rs].seq = r[k].seq
    <3>1. k \in 1 .. Len(q) /\ q[k].valid  BY <2>7, <2>8, <2>11
    <3>2. Ready(s, u, q[k].rs) /\ s[q[k].rs].seq = q[k].seq  BY <2>1, <3>1 DEF Readies
    <3>3. t[q[k].rs].seq = Rank(s[q[k].rs].seq)  BY <1>7, <2>9, <3>1, <3>2 DEF Ready
    <3>4. QED  BY <2>7, <2>9, <2>10, <3>1, <3>2, <3>3
  <2>12. ASSUME NEW k \in 1 .. Len(r), ~ r[k].valid, NEW e \in Descs, t[e] # NoInst
         PROVE  t[e].seq # r[k].seq
    <3>1. k \in 1 .. Len(q) /\ ~ q[k].valid /\ r[k].seq = Rank(q[k].seq) /\ q[k].seq \in Seqs
      BY <2>4, <2>7, <2>8, <2>12
    <3>2. CASE e = d
      <4>1. t[e].seq = N /\ Rank(q[k].seq) < N  BY <1>3, <1>4, <3>1, <3>2
      <4>2. Rank(q[k].seq) \in Nat  BY <1>4, <3>1
      <4>3. QED  BY <1>4, <3>1, <4>1, <4>2
    <3>3. CASE e # d
      <4>1. s[e] # NoInst  BY <1>3, <2>12, <3>3
      <4>2. s[e].seq # q[k].seq  BY <2>1, <3>1, <4>1 DEF Readies
      <4>3. t[e].seq = Rank(s[e].seq) /\ s[e].seq \in Seqs  BY <1>3, <1>4, <4>1
      <4>4. QED  BY <1>8, <3>1, <4>2, <4>3
    <3>4. QED  BY <3>2, <3>3
  <2>13. ASSUME NEW e \in Descs, Ready(t, u, e)
         PROVE  \E k \in 1 .. Len(r) : r[k].valid /\ r[k].rs = e
    <3>1. PICK k \in 1 .. Len(q) : q[k].valid /\ q[k].rs = e
      BY <2>1, <2>10, <2>13 DEF Readies
    <3>2. QED  BY <2>7, <2>8, <3>1
  <2>14. \A k \in 1 .. Len(q) : \A i \in k + 1 .. Len(q) : i \in 1 .. Len(q)  BY <2>2
  <2>15. BySeq(r)
    <3>1. BySeq(q)  BY <2>1 DEF Readies
    <3>2. \A k \in 1 .. Len(q) : \A i \in k + 1 .. Len(q) : Rank(q[k].seq) < Rank(q[i].seq)
      BY <1>4, <2>4, <2>14, <3>1 DEF BySeq
    <3>3. QED  BY <2>7, <2>8, <2>14, <3>2 DEF BySeq
  <2>16. OneNext(r)
    <3>1. OneNext(q)  BY <2>1 DEF Readies
    <3>2. QED  BY <2>7, <2>8, <2>14, <3>1 DEF OneNext
  <2>17. Readies(r, u, t)  BY <2>11, <2>12, <2>13, <2>15, <2>16 DEF Readies
  <2>18. QED  BY <2>8, <2>17 DEF r
<1>10. ready_queue' \in [Units -> Seq(Links)]
  <2>1. ready_queue' = [u \in Units |-> ready_queue'[u]]  BY <1>5
  <2>2. QED  BY <1>9, <2>1
<1>11. event_queue' \in Seq(Events) /\ Running(event_queue', t)
  <2>1. IssuedKept(s, t, {})  BY <1>7 DEF IssuedKept
  <2>2. LET r == [i \in DOMAIN event_queue |-> [event_queue[i] EXCEPT !.wait = @ - 1]]
        IN  r \in Seq(Events) /\ Running(r, t)
    BY <1>2, <2>1, Ticking
  <2>3. QED  BY <1>5, <2>2
<1>12. InUse(busy', t)
  <2>1. SUFFICES ASSUME NEW u \in Units, busy[u]
                 PROVE  \E e \in Descs : /\ t[e].status = "issued"
                                         /\ t[e].op.class = "IntDIV" /\ t[e].fu = u
    BY <1>5 DEF InUse
  <2>2. PICK e \in Descs : /\ s[e].status = "issued"
                           /\ s[e].op.class = "IntDIV" /\ s[e].fu = u
    BY <1>2, <2>1 DEF InUse
  <2>3. t[e].status = "issued" /\ t[e].op = s[e].op /\ t[e].fu = s[e].fu  BY <1>7, <2>2
  <2>4. QED  BY <2>2, <2>3
<1>13. busy' \in [Units -> BOOLEAN]  BY <1>2, <1>5
<1>14. QED  BY <1>9, <1>10, <1>11, <1>12, <1>13 DEF t

LEMMA Decoding ==
  ASSUME IInv, NEW d \in Descs, NEW op \in Instructions, decode(d, op)
  PROVE  IInv'
<1>1. inst' \in [Descs -> InstType \cup {NoInst}]  BY DecodedInst
<1>2. roq' \in Seq(Descs) /\ decode_data' \in Seq(Descs)
  BY DecodedFlight DEF IInv, Types
<1>3. spec_level' \in Levels
  <2>1. spec_level \in Levels /\ MaxLevel \in Nat  BY Assumed DEF IInv, Types
  <2>2. /\ op.mis_predict => spec_level < MaxLevel
        /\ spec_level' = IF op.mis_predict THEN spec_level + 1 ELSE spec_level
    BY DEF decode
  <2>3. QED  BY <2>1, <2>2 DEF Levels
<1>4. create_vector' \in [Levels -> [Regs -> Descs \cup {NoDesc}]]
  <2>1. create_vector' = Installed(d, op) /\ (op.mis_predict => spec_level < MaxLevel)
    BY DEF decode
  <2>2. QED  BY <2>1, InstalledVector
<1>5. odep_list' \in [Descs -> SUBSET Waiters]
  <2>1. odep_list \in [Descs -> SUBSET Waiters]  BY DEF IInv, Types
  <2>2. odep_list' = [e \in Descs |-> IF e = Creator(op)
                                   THEN odep_list[e] \cup {[rs |-> d, valid |-> TRUE]}
                                   ELSE odep_list[e]]
    BY DEF decode
  <2>3. [rs |-> d, valid |-> TRUE] \in Waiters  BY DEF Waiters
  <2>4. QED  BY <2>1, <2>2, <2>3
<1>6. stage' = "commit"  BY DEF decode, NextCycle
<1>7. Types'  BY <1>1, <1>2, <1>3, <1>4, <1>5, <1>6, DecodingQueues DEF Types
<1>8. QED  BY <1>7, DecodingOrdered, DecodingWindow, DecodingQueues DEF IInv

-----------------------------------------------------------------------------
(***************************************************************************)
(* The invariant, and what it says.                                        *)
(***************************************************************************)

LEMMA Start ==
  ASSUME Init
  PROVE  IInv
<1>1. /\ stage = "commit" /\ inst = [d \in Descs |-> NoInst]
      /\ decode_data = <<>> /\ roq = <<>> /\ spec_level = 0
      /\ create_vector = [l \in Levels |-> [r \in Regs |-> NoDesc]]
      /\ odep_list = [d \in Descs |-> {}] /\ ready_queue = [u \in Units |-> <<>>]
      /\ event_queue = <<>> /\ busy = [u \in Units |-> FALSE]
  BY DEF Init
<1>2. <<>> \in Seq(Descs) /\ <<>> \in Seq(Links) /\ <<>> \in Seq(Events) /\ Len(<<>>) = 0
  BY EmptySeq
<1>3. 0 \in Levels  BY Assumed DEF Levels
<1>4. Types
  <2>1. inst \in [Descs -> InstType \cup {NoInst}]  BY <1>1
  <2>2. create_vector \in [Levels -> [Regs -> Descs \cup {NoDesc}]]  BY <1>1
  <2>3. odep_list \in [Descs -> SUBSET Waiters]  BY <1>1
  <2>4. ready_queue \in [Units -> Seq(Links)]  BY <1>1, <1>2
  <2>5. busy \in [Units -> BOOLEAN]  BY <1>1
  <2>6. QED  BY <1>1, <1>2, <1>3, <2>1, <2>2, <2>3, <2>4, <2>5 DEF Types
<1>5. Len(InFlight) = 0 /\ Len(roq) = 0
  <2>1. Len(roq) = 0 /\ Len(decode_data) = 0  BY <1>1, <1>2
  <2>2. QED  BY <1>4, <2>1, Window
<1>6. \A d \in Descs : inst[d] = NoInst /\ inst[d].status = "free"  BY <1>1 DEF NoInst
<1>7. 1 .. Len(InFlight) = {}  BY <1>5
<1>8. Ordered(InFlight, inst, Len(roq), spec_level)
  <2>1. {d \in Descs : inst[d] # NoInst} = {InFlight[i] : i \in 1 .. Len(InFlight)}  BY <1>6, <1>7
  <2>2. QED  BY <1>7, <2>1 DEF Ordered, Placed, Increasing
<1>9. Operands(InFlight, inst)  BY <1>7 DEF Operands
<1>10. Awaited(InFlight, inst, odep_list)
  <2>1. \A d \in Descs : odep_list[d] = {}  BY <1>1
  <2>2. QED  BY <1>7, <2>1 DEF Awaited
<1>11. Creators(InFlight, inst, create_vector, spec_level)
  <2>1. \A l \in 0 .. 0 : \A r \in Regs : create_vector[l][r] = NoDesc  BY <1>1, <1>3
  <2>2. QED  BY <1>1, <1>7, <2>1 DEF Creators
<1>12. ASSUME NEW u \in Units PROVE Readies(ready_queue[u], u, inst)
  <2>1. ready_queue[u] = <<>> /\ 1 .. Len(<<>>) = {}  BY <1>1, <1>2
  <2>2. \A d \in Descs : ~ Ready(inst, u, d)  BY <1>6 DEF Ready
  <2>3. BySeq(<<>>) /\ OneNext(<<>>)  BY <2>1 DEF BySeq, OneNext
  <2>4. QED  BY <2>1, <2>2, <2>3 DEF Readies
<1>13. Running(event_queue, inst)
  <2>1. event_queue = <<>> /\ 1 .. Len(<<>>) = {}  BY <1>1, <1>2
  <2>2. QED  BY <1>6, <2>1 DEF Running, OneEach
<1>14. InUse(busy, inst)  BY <1>1 DEF InUse
<1>15. QED  BY <1>4, <1>8, <1>9, <1>10, <1>11, <1>12, <1>13, <1>14 DEF IInv

LEMMA Stuttering ==
  ASSUME IInv, UNCHANGED vars
  PROVE  IInv'
<1>1. /\ stage' = stage /\ inst' = inst /\ decode_data' = decode_data /\ roq' = roq
      /\ spec_level' = spec_level /\ create_vector' = create_vector /\ odep_list' = odep_list
      /\ ready_queue' = ready_queue /\ event_queue' = event_queue /\ busy' = busy
  BY DEF vars, window
<1>2. InFlight' = InFlight  BY <1>1 DEF InFlight
<1>3. Types'  BY <1>1 DEF IInv, Types
<1>4. QED  BY <1>1, <1>2, <1>3 DEF IInv

LEMMA Step ==
  ASSUME IInv, [Next]_vars
  PROVE  IInv'
<1>1. CASE commit  BY <1>1, Committing
<1>2. CASE pipeline_flush  BY <1>2, Flushing
<1>3. CASE check_brq  BY <1>3, Checking
<1>4. CASE brerr_recover  BY <1>4, Recovering
<1>5. CASE writeback  BY <1>5, WritingBack
<1>6. CASE mis_speculate  BY <1>6, MisSpeculating
<1>7. CASE issue  BY <1>7, IssuingStep
<1>8. CASE map  BY <1>8, Mapping
<1>9. CASE map_none  BY <1>9, MappingNone
<1>10. CASE Decode
  <2>1. PICK d \in Descs, op \in Instructions : decode(d, op)  BY <1>10 DEF Decode
  <2>2. QED  BY <2>1, Decoding
<1>11. CASE decode_none  BY <1>11, DecodingNone
<1>12. CASE UNCHANGED vars  BY <1>12, Stuttering
<1>13. QED
  BY <1>1, <1>2, <1>3, <1>4, <1>5, <1>6, <1>7, <1>8, <1>9, <1>10, <1>11, <1>12 DEF Next

LEMMA Invariance == Spec => []IInv
<1>1. Init => IInv  BY Start
<1>2. IInv /\ [Next]_vars => IInv'  BY Step
<1>3. QED  BY <1>1, <1>2, PTL DEF Spec

-----------------------------------------------------------------------------
(***************************************************************************)
(* The properties.                                                         *)
(***************************************************************************)

\* As many as the positions that hold them, when no two positions hold the same.
LEMMA SameSize ==
  ASSUME NEW S, IsFiniteSet(S), NEW F, \A x, y \in S : F[x] = F[y] => x = y
  PROVE  Cardinality({F[x] : x \in S}) = Cardinality(S)
<1> DEFINE T == {F[x] : x \in S}
           g == [x \in S |-> F[x]]
<1>1. g \in [S -> T] /\ \A y \in T : \E x \in S : g[x] = y  OBVIOUS
<1>2. \A x, y \in S : g[x] = g[y] => x = y  OBVIOUS
<1> HIDE DEF g
<1>3. g \in Bijection(S, T)
  BY <1>1, <1>2 DEF Bijection, Injection, Surjection, IsInjective
<1>4. ExistsBijection(S, T)  BY <1>3 DEF ExistsBijection
<1> HIDE DEF T
<1>5. IsFiniteSet(T) /\ Cardinality(T) = Cardinality(S)
  <2>1. IsFiniteSet(T)  BY FiniteImage DEF T
  <2>2. QED  BY <1>4, <2>1, FS_Bijection
<1>6. QED  BY <1>5 DEF T

LEMMA LiveOnes ==
  ASSUME IInv
  PROVE  /\ Live = {InFlight[i] : i \in 1 .. Len(InFlight)} /\ Used = Live
         /\ \A d \in Live : d \in Descs
         /\ \A d \in Descs : inst[d].status \in Status => d \in Live
<1>1. InFlight \in Seq(Descs)  BY Facts
<1>2. Live = {InFlight[i] : i \in 1 .. Len(InFlight)}  BY <1>1, Elements DEF Live
<1>3. {d \in Descs : inst[d] # NoInst} = {InFlight[i] : i \in 1 .. Len(InFlight)}
  BY DEF IInv, Ordered
<1>4. inst \in [Descs -> InstType \cup {NoInst}]  BY Facts
<1>5. \A d \in Descs : inst[d].status \in Status => inst[d] # NoInst  BY <1>4, Fields
<1>6. QED  BY <1>2, <1>3, <1>5 DEF Used

\* Each descriptor in use is in the window exactly once: commits, squashes and
\* flushes give back what they take out of it, and nothing else (src/commit.c,
\* src/writeback.c), and a descriptor is decoded into only when it is free
\* (src/decode.c).
THEOREM TypeCorrect == Spec => []TypeOK
<1>1. ASSUME IInv PROVE TypeOK
  <2>1. Types  BY <1>1 DEF IInv
  <2>2. Used = Live /\ Live = {InFlight[i] : i \in 1 .. Len(InFlight)}  BY <1>1, LiveOnes
  <2>3. Len(InFlight) \in Nat /\ Distinct(InFlight)
    BY <1>1, Facts, LenProperties
  <2>4. \A i, j \in 1 .. Len(InFlight) : InFlight[i] = InFlight[j] => i = j
    <3>1. SUFFICES ASSUME NEW i \in 1 .. Len(InFlight), NEW j \in 1 .. Len(InFlight), i # j
                   PROVE  InFlight[i] # InFlight[j]
      OBVIOUS
    <3>2. j \in i + 1 .. Len(InFlight) \/ i \in j + 1 .. Len(InFlight)  BY <2>3, <3>1
    <3>3. QED  BY <2>3, <3>2 DEF Distinct
  <2>5. IsFiniteSet(1 .. Len(InFlight)) /\ Cardinality(1 .. Len(InFlight)) = Len(InFlight)
    <3>1. /\ 1 \in Int /\ Len(InFlight) \in Int /\ (1 > Len(InFlight) => Len(InFlight) = 0)
          /\ Len(InFlight) - 1 + 1 = Len(InFlight)
      BY <2>3
    <3>2. QED  BY <3>1, FS_Interval
  <2>6. Cardinality(Live) = Len(InFlight)  BY <2>2, <2>4, <2>5, SameSize
  <2>7. QED  BY <2>1, <2>2, <2>6 DEF TypeOK, Types, Waiters
<1>2. QED  BY <1>1, Invariance, PTL

\* An operand is ready exactly when its last writer in flight has written: a
\* squash restores the creators of the level it returns to, and neither the
\* writers of a wrong path nor the next owner of a descriptor wakes anything
\* (src/decode.c, roq_link_idep and prepare_create_vector; src/writeback.c,
\* update_create_vector and brerr_recover).
THEOREM LastWriterDecides == Spec => []OperandsExact
<1>1. ASSUME IInv PROVE OperandsExact
  <2>1. SUFFICES ASSUME NEW i \in 1 .. Len(InFlight), inst[InFlight[i]].op.in # NA
                 PROVE  inst[InFlight[i]].idep_ready <=>
                          \A j \in Writers(i) : \/ Written(InFlight[j])
                                                \/ \E k \in Writers(i) : k > j
    BY DEF OperandsExact
  <2>2. Len(InFlight) \in Nat /\ i \in Nat  BY <1>1, Facts, LenProperties
  <2>3. inst[InFlight[i]].idep_ready <=>
          \A j \in 1 .. i - 1 : Source(InFlight, inst, j, i) => Written(InFlight[j])
    BY <1>1 DEF IInv, Operands, DoneIn, Written
  <2>4. ASSUME NEW j \in 1 .. i - 1
        PROVE  Source(InFlight, inst, j, i) <=> j \in Writers(i) /\ ~ \E k \in Writers(i) : k > j
    <3>1. \A k \in 1 .. i - 1 : k > j <=> k \in j + 1 .. i - 1  BY <2>2
    <3>2. j + 1 .. i - 1 \subseteq 1 .. i - 1  BY <2>2
    <3>3. QED  BY <2>1, <3>1, <3>2 DEF Source, Writers
  <2>5. Writers(i) \subseteq 1 .. i - 1  BY DEF Writers
  <2>6. QED  BY <2>3, <2>4, <2>5
<1>2. QED  BY <1>1, Invariance, PTL

\* What a unit may issue is in its ready queue, once and in program order,
\* however wake-ups, mappings, squashes and issues interleave (src/map.c,
\* readyq_enqueue; src/issue.c, next_valid_node and delete_node).
THEOREM ReadyOnce == Spec => []ReadyExact
<1>1. ASSUME IInv, NEW u \in Units
      PROVE  LET q == ready_queue[u]
                 valid == {i \in DOMAIN q : q[i].valid}
             IN /\ {q[i].rs : i \in valid} =
                     {d \in Range(roq) : inst[d].status = "queued" /\ inst[d].idep_ready /\ inst[d].fu = u}
                /\ \A i, j \in DOMAIN q : i < j => q[i].seq < q[j].seq
                /\ \A i \in valid : q[i].seq = inst[q[i].rs].seq
  <2> DEFINE q == ready_queue[u]
             valid == {i \in DOMAIN q : q[i].valid}
  <2>1. q \in Seq(Links) /\ Readies(q, u, inst)  BY <1>1 DEF IInv, Types
  <2> HIDE DEF q
  <2>2. DOMAIN q = 1 .. Len(q) /\ Len(q) \in Nat  BY <2>1, LenProperties
  <2>3. \A i \in 1 .. Len(q) : q[i].rs \in Descs
    <3>1. \A link \in Links : link.rs \in Descs  BY DEF Links
    <3>2. QED  BY <2>1, <3>1, ElementOfSeq
  <2>4. \A i \in valid : Ready(inst, u, q[i].rs) /\ inst[q[i].rs].seq = q[i].seq
    BY <2>1, <2>2 DEF Readies
  <2>5. Range(roq) = {roq[i] : i \in 1 .. Len(roq)}
    <3>1. roq \in Seq(Descs)  BY <1>1, Facts
    <3>2. QED  BY <3>1, Elements
  <2>6. ASSUME NEW d \in Descs, Ready(inst, u, d) PROVE d \in Range(roq)
    <3>1. inst[d].status = "queued" /\ inst[d].status \in Status  BY <2>6 DEF Ready, Status
    <3>2. PICK i \in 1 .. Len(InFlight) : d = InFlight[i]  BY <1>1, <3>1, LiveOnes
    <3>3. inst[d].status = "decoded" <=> i > Len(roq)  BY <1>1, <3>2, Places
    <3>4. i \in 1 .. Len(roq)  BY <1>1, <3>1, <3>2, <3>3, Facts
    <3>5. InFlight[i] = roq[i]  BY <1>1, <3>4, Facts
    <3>6. QED  BY <2>5, <3>2, <3>4, <3>5
  <2>7. \A d \in Range(roq) : d \in Descs
    <3>1. roq \in Seq(Descs)  BY <1>1, Facts
    <3>2. QED  BY <2>5, <3>1, ElementOfSeq
  <2>8. ASSUME NEW d \in Descs, Ready(inst, u, d) PROVE \E i \in valid : d = q[i].rs
    BY <2>1, <2>2, <2>8 DEF Readies
  <2>9. {q[i].rs : i \in valid} =
          {d \in Range(roq) : inst[d].status = "queued" /\ inst[d].idep_ready /\ inst[d].fu = u}
    <3>1. \A i \in valid : q[i].rs \in Descs  BY <2>2, <2>3
    <3> HIDE DEF valid
    <3>2. QED  BY <2>4, <2>6, <2>7, <2>8, <3>1 DEF Ready
  <2>10. \A i, j \in DOMAIN q : i < j => q[i].seq < q[j].seq
    <3>1. \A i, j \in DOMAIN q : i < j => i \in 1 .. Len(q) /\ j \in i + 1 .. Len(q)  BY <2>2
    <3>2. BySeq(q)  BY <2>1 DEF Readies
    <3>3. QED  BY <3>1, <3>2 DEF BySeq
  <2>11. QED  BY <2>4, <2>9, <2>10 DEF q
<1>2. IInv => ReadyExact  BY <1>1 DEF ReadyExact
<1>3. QED  BY <1>2, Invariance, PTL

\* Each operation in flight has one event that is still valid, also when what it
\* was issued for was squashed and the descriptor issued again before the old
\* event was due (src/issue.c, eventq_queue_event; src/writeback.c,
\* eventq_next_event).
THEOREM OneEventEach == Spec => []EventsExact
<1>1. ASSUME IInv
      PROVE  LET events == {i \in DOMAIN event_queue : event_queue[i].valid} IN
             /\ {event_queue[i].rs : i \in events} = {d \in Live : inst[d].status = "issued"}
             /\ Cardinality(events) = Cardinality({d \in Live : inst[d].status = "issued"})
  <2> DEFINE q == event_queue
             events == {i \in DOMAIN q : q[i].valid}
  <2>1. q \in Seq(Events) /\ Running(q, inst)  BY <1>1 DEF IInv, Types
  <2> HIDE DEF q
  <2>2. DOMAIN q = 1 .. Len(q) /\ Len(q) \in Nat  BY <2>1, LenProperties
  <2>3. \A i \in 1 .. Len(q) : q[i].rs \in Descs
    <3>1. \A x \in Events : x.rs \in Descs  BY DEF Events
    <3>2. QED  BY <2>1, <3>1, ElementOfSeq
  <2>4. \A i \in events : q[i].rs \in Descs /\ inst[q[i].rs].status = "issued"
    BY <2>1, <2>2, <2>3 DEF Running
  <2>5. \A d \in Descs : inst[d].status = "issued" => \E i \in events : d = q[i].rs
    BY <2>1, <2>2 DEF Running
  <2>6. \A d \in Live : d \in Descs  BY <1>1, LiveOnes
  <2>7. \A d \in Descs : inst[d].status = "issued" => d \in Live
    BY <1>1, LiveOnes DEF Status
  <2>8. \A i, j \in events : q[i].rs = q[j].rs => i = j
    <3>1. SUFFICES ASSUME NEW i \in events, NEW j \in events, i # j PROVE q[i].rs # q[j].rs
      OBVIOUS
    <3>2. /\ i \in 1 .. Len(q) /\ j \in 1 .. Len(q)
          /\ j \in i + 1 .. Len(q) \/ i \in j + 1 .. Len(q)
      BY <2>2, <3>1
    <3>3. OneEach(q)  BY <2>1 DEF Running
    <3>4. q[i].valid /\ q[j].valid  BY <3>1
    <3>5. QED  BY <3>2, <3>3, <3>4 DEF OneEach
  <2>9. IsFiniteSet(events)
    <3>1. IsFiniteSet(1 .. Len(q))  BY <2>2, FS_Interval
    <3>2. events \subseteq 1 .. Len(q)  BY <2>2
    <3>3. QED  BY <3>1, <3>2, FS_Subset
  <2> HIDE DEF events
  <2>10. {q[i].rs : i \in events} = {d \in Live : inst[d].status = "issued"}
    BY <2>4, <2>5, <2>6, <2>7
  <2>11. Cardinality({q[i].rs : i \in events}) = Cardinality(events)
    <3> DEFINE F == [i \in events |-> q[i].rs]
    <3>1. \A i, j \in events : F[i] = F[j] => i = j  BY <2>8
    <3>2. {F[i] : i \in events} = {q[i].rs : i \in events}  OBVIOUS
    <3> HIDE DEF F
    <3>3. Cardinality({F[i] : i \in events}) = Cardinality(events)  BY <2>9, <3>1, SameSize
    <3>4. QED  BY <3>2, <3>3
  <2>12. QED  BY <2>10, <2>11 DEF events, q
<1>2. IInv => EventsExact  BY <1>1 DEF EventsExact
<1>3. QED  BY <1>2, Invariance, PTL

\* Nothing retires, and no descriptor is reused, while instructions wait for it
\* ("retired instruction has odeps", src/commit.c).
THEOREM WaitersServed == Spec => []NoOrphans
<1>1. ASSUME IInv PROVE NoOrphans
  <2>1. \A d \in Descs : odep_list[d] # {} => inst[d] # NoInst /\ ~ DoneIn(inst, d)
    BY <1>1 DEF IInv, Awaited
  <2>2. \A d \in Descs : inst[d] # NoInst => d \in Live
    BY <1>1, Facts, LiveOnes
  <2>3. QED  BY <2>1, <2>2 DEF NoOrphans, DoneIn, Written
<1>2. QED  BY <1>1, Invariance, PTL

\* A divider that is busy belongs to a division in flight: completing, squashing
\* and flushing it all give the divider back (src/writeback.c, src/commit.c,
\* release_fu in src/resource.c).
THEOREM DividersOwned == Spec => []DividersReturned
<1>1. ASSUME IInv PROVE DividersReturned
  <2>1. \A u \in Units : busy[u] =>
          \E d \in Descs : inst[d].status = "issued" /\ inst[d].op.class = "IntDIV" /\ inst[d].fu = u
    BY <1>1 DEF IInv, InUse
  <2>2. \A d \in Descs : inst[d].status = "issued" => d \in Live
    BY <1>1, LiveOnes DEF Status
  <2>3. QED  BY <2>1, <2>2 DEF DividersReturned, IsDiv
<1>2. QED  BY <1>1, Invariance, PTL
=============================================================================
