------------------------------- MODULE Rings -------------------------------
(***************************************************************************)
(* Arithmetic of ring buffers: the age of a slot is its distance from the  *)
(* slot that the head names, once around a ring of N slots.  The queues of *)
(* lsq.c, map.c and decode.c are such rings.                               *)
(***************************************************************************)
EXTENDS FiniteSetTheorems, TLAPS

AgeOn(N, h, i) == (i - h) % N

\* The slots whose distance from h is at least a and less than b.
WindowOn(N, h, a, b) == {i \in 0 .. N - 1 : a <= AgeOn(N, h, i) /\ AgeOn(N, h, i) < b}

\* More rounds are at least a round longer.
LEMMA Product ==
  ASSUME NEW a \in Nat, NEW b \in Nat, NEW m \in Nat, a < b
  PROVE  b * m >= a * m + m
<1>1. PICK d \in Nat : b = a + 1 + d
  <2>1. b - a - 1 \in Nat /\ b = a + 1 + (b - a - 1)  OBVIOUS
  <2>2. QED  BY <2>1
<1>2. b * m = a * m + m + d * m  BY <1>1
<1>3. d * m >= 0  OBVIOUS
<1>4. a * m \in Int /\ d * m \in Int /\ b * m \in Int  OBVIOUS
<1>5. QED  BY <1>2, <1>3, <1>4

\* A number is its rounds and what is left.
LEMMA Division ==
  ASSUME NEW m \in Nat \ {0}, NEW q \in Nat, NEW r \in 0 .. m - 1
  PROVE  (q * m + r) % m = r
<1> DEFINE x == q * m + r
           p == x \div m
           s == x % m
<1>1. x \in Nat /\ m \in Nat /\ m >= 1 /\ q * m \in Nat  OBVIOUS
<1>2. p \in Nat /\ s \in 0 .. m - 1 /\ x = p * m + s /\ p * m \in Nat
  <2> HIDE DEF x
  <2>1. QED  BY <1>1
<1>3. q * m + r = p * m + s  BY <1>2
<1> HIDE DEF p, s
<1>4. ~ (p < q)
  <2>1. SUFFICES ASSUME p < q PROVE FALSE  OBVIOUS
  <2>2. q * m >= p * m + m  BY <1>1, <1>2, <2>1, Product
  <2>3. QED  BY <1>1, <1>2, <1>3, <2>2
<1>5. ~ (q < p)
  <2>1. SUFFICES ASSUME q < p PROVE FALSE  OBVIOUS
  <2>2. p * m >= q * m + m  BY <1>1, <1>2, <2>1, Product
  <2>3. QED  BY <1>1, <1>2, <1>3, <2>2
<1>6. p = q  BY <1>2, <1>4, <1>5
<1>7. s = r  BY <1>1, <1>2, <1>3, <1>6
<1>8. QED  BY <1>7 DEF s

\* One step more, around the ring.
LEMMA NextStep ==
  ASSUME NEW m \in Nat \ {0}, NEW x \in Nat
  PROVE  ((x % m) + 1) % m = (x + 1) % m
<1>1. m \in Nat /\ m >= 1 /\ x \in Nat  OBVIOUS
<1> DEFINE q == x \div m
           r == x % m
<1>2. q \in Nat /\ r \in 0 .. m - 1 /\ x = q * m + r /\ q * m \in Nat  BY <1>1
<1> HIDE DEF q, r
<1>3. CASE r + 1 < m
  <2>1. r + 1 \in 0 .. m - 1 /\ x + 1 = q * m + (r + 1)  BY <1>1, <1>2, <1>3
  <2>2. (x + 1) % m = r + 1  BY <1>2, <2>1, Division
  <2>3. (r + 1) % m = r + 1  BY <1>1, <2>1
  <2>4. QED  BY <2>2, <2>3 DEF r
<1>4. CASE ~ (r + 1 < m)
  <2>1. r + 1 = m /\ x + 1 = q * m + m  BY <1>1, <1>2, <1>4
  <2>2. (q + 1) * m = q * m + m /\ q + 1 \in Nat /\ 0 \in 0 .. m - 1  BY <1>1, <1>2
  <2>3. x + 1 = (q + 1) * m + 0  BY <1>1, <1>2, <2>1, <2>2
  <2>4. (x + 1) % m = 0  BY <2>2, <2>3, Division
  <2>5. m % m = 0  BY <1>1
  <2>6. QED  BY <2>1, <2>4, <2>5 DEF r
<1>5. QED  BY <1>3, <1>4

\* An age is a position on the ring, counted from h and wrapping once.
LEMMA AgeValue ==
  ASSUME NEW N \in Nat \ {0}, NEW h \in 0 .. N - 1, NEW i \in 0 .. N - 1
  PROVE  /\ AgeOn(N, h, i) \in 0 .. N - 1
         /\ AgeOn(N, h, i) = IF i >= h THEN i - h ELSE i - h + N
<1>1. N \in Nat /\ N >= 1 /\ h \in 0 .. N - 1 /\ i \in 0 .. N - 1  OBVIOUS
<1>2. CASE i >= h
  <2>1. i - h \in 0 .. N - 1  BY <1>1, <1>2
  <2>2. (i - h) % N = i - h  BY <1>1, <2>1
  <2>3. QED  BY <1>2, <2>1, <2>2 DEF AgeOn
<1>3. CASE ~ (i >= h)
  <2>1. i - h + N \in 0 .. N - 1  BY <1>1, <1>3
  <2>2. (i - h) % N = i - h + N  BY <1>1, <2>1
  <2>3. QED  BY <1>3, <2>1, <2>2 DEF AgeOn
<1>4. QED  BY <1>2, <1>3

\* Two slots of one age are the same.
LEMMA AgeUnique ==
  ASSUME NEW N \in Nat \ {0}, NEW h \in 0 .. N - 1, NEW i \in 0 .. N - 1, NEW j \in 0 .. N - 1,
         AgeOn(N, h, i) = AgeOn(N, h, j)
  PROVE  i = j
<1>1. AgeOn(N, h, i) = IF i >= h THEN i - h ELSE i - h + N  BY AgeValue
<1>2. AgeOn(N, h, j) = IF j >= h THEN j - h ELSE j - h + N  BY AgeValue
<1>3. i \in Int /\ j \in Int /\ h \in Int /\ N \in Int /\ 0 <= i /\ i < N /\ 0 <= j /\ j < N
  OBVIOUS
<1>4. CASE i >= h /\ j >= h
  <2>1. i - h = j - h  BY <1>1, <1>2, <1>4
  <2>2. QED  BY <1>3, <2>1
<1>5. CASE i >= h /\ ~ (j >= h)
  <2>1. i - h = j - h + N  BY <1>1, <1>2, <1>5
  <2>2. QED  BY <1>3, <2>1
<1>6. CASE ~ (i >= h) /\ j >= h
  <2>1. i - h + N = j - h  BY <1>1, <1>2, <1>6
  <2>2. QED  BY <1>3, <2>1
<1>7. CASE ~ (i >= h) /\ ~ (j >= h)
  <2>1. i - h + N = j - h + N  BY <1>1, <1>2, <1>7
  <2>2. QED  BY <1>3, <2>1
<1>8. QED  BY <1>4, <1>5, <1>6, <1>7

\* Every distance below the size of the ring is the age of a slot.
LEMMA SlotOfAge ==
  ASSUME NEW N \in Nat \ {0}, NEW h \in 0 .. N - 1, NEW k \in 0 .. N - 1
  PROVE  /\ (h + k) % N \in 0 .. N - 1
         /\ AgeOn(N, h, (h + k) % N) = k
<1>1. N \in Nat /\ N >= 1 /\ h \in 0 .. N - 1 /\ k \in 0 .. N - 1  OBVIOUS
<1>2. CASE h + k < N
  <2>1. (h + k) % N = h + k  BY <1>1, <1>2
  <2>2. h + k \in 0 .. N - 1 /\ h + k >= h /\ (h + k) - h = k  BY <1>1, <1>2
  <2>3. QED  BY <2>1, <2>2, AgeValue
<1>3. CASE ~ (h + k < N)
  <2>1. h + k - N \in 0 .. N - 1 /\ ~ (h + k - N >= h) /\ h + k - N - h + N = k  BY <1>1, <1>3
  <2>2. (h + k) % N = h + k - N  BY <1>1, <2>1
  <2>3. QED  BY <1>1, <2>1, <2>2, AgeValue
<1>4. QED  BY <1>2, <1>3

\* The slot at a distance, with the whole ring as a distance too.
LEMMA SlotAt ==
  ASSUME NEW N \in Nat \ {0}, NEW h \in 0 .. N - 1, NEW k \in 0 .. N
  PROVE  /\ (h + k) % N \in 0 .. N - 1
         /\ k = N => (h + k) % N = h
<1>1. N \in Nat /\ N >= 1 /\ h \in 0 .. N - 1 /\ k \in 0 .. N  OBVIOUS
<1>2. CASE k = N
  <2>1. (h + N) % N = h  BY <1>1
  <2>2. QED  BY <1>1, <1>2, <2>1
<1>3. CASE k # N
  <2>1. k \in 0 .. N - 1  BY <1>1, <1>3
  <2>2. QED  BY <1>3, <2>1, SlotOfAge
<1>4. QED  BY <1>2, <1>3

\* Steps along the ring add up.
LEMMA StepsAdd ==
  ASSUME NEW N \in Nat \ {0}, NEW h \in 0 .. N - 1, NEW k \in 0 .. N, NEW m \in 0 .. N
  PROVE  (((h + k) % N) + m) % N = (h + k + m) % N
<1>1. N \in Nat /\ N >= 1 /\ h \in 0 .. N - 1 /\ k \in 0 .. N /\ m \in 0 .. N  OBVIOUS
<1>2. CASE h + k < N
  <2>1. (h + k) % N = h + k  BY <1>1, <1>2
  <2>2. QED  BY <2>1
<1>3. CASE ~ (h + k < N) /\ h + k < 2 * N
  <2>1. h + k - N \in 0 .. N - 1  BY <1>1, <1>3
  <2>2. (h + k) % N = h + k - N  BY <1>1, <2>1
  <2>3. (h + k + m - N) % N = (h + k + m) % N  BY <1>1
  <2>4. h + k - N + m = h + k + m - N  BY <1>1
  <2>5. QED  BY <2>2, <2>3, <2>4
<1>4. QED  BY <1>1, <1>2, <1>3

\* When the first slot moves by d, every age drops by d, and wraps.
LEMMA AgeShift ==
  ASSUME NEW N \in Nat \ {0}, NEW h \in 0 .. N - 1, NEW d \in 0 .. N, NEW i \in 0 .. N - 1
  PROVE  AgeOn(N, (h + d) % N, i) =
           IF AgeOn(N, h, i) >= d THEN AgeOn(N, h, i) - d ELSE AgeOn(N, h, i) - d + N
<1>1. N \in Nat /\ N >= 1 /\ h \in 0 .. N - 1 /\ d \in 0 .. N /\ i \in 0 .. N - 1
  OBVIOUS
<1> DEFINE g == (h + d) % N
<1>2. g \in 0 .. N - 1  BY SlotAt
<1>3. g = IF h + d < N THEN h + d ELSE h + d - N
  <2>1. CASE h + d < N
    <3>1. h + d \in 0 .. N - 1  BY <1>1, <2>1
    <3>2. QED  BY <1>1, <2>1, <3>1
  <2>2. CASE ~ (h + d < N)
    <3>1. h + d - N \in 0 .. N - 1  BY <1>1, <2>2
    <3>2. QED  BY <1>1, <2>2, <3>1
  <2>3. QED  BY <2>1, <2>2
<1>4. AgeOn(N, g, i) = IF i >= g THEN i - g ELSE i - g + N  BY <1>2, AgeValue
<1>5. AgeOn(N, h, i) = IF i >= h THEN i - h ELSE i - h + N  BY AgeValue
<1> HIDE DEF g
<1>6. AgeOn(N, g, i) = IF AgeOn(N, h, i) >= d THEN AgeOn(N, h, i) - d ELSE AgeOn(N, h, i) - d + N
  BY <1>1, <1>3, <1>4, <1>5
<1>7. QED  BY <1>6 DEF g

\* A window holds as many slots as it is wide.
LEMMA WindowSize ==
  ASSUME NEW N \in Nat \ {0}, NEW h \in 0 .. N - 1, NEW a \in 0 .. N, NEW b \in a .. N
  PROVE  IsFiniteSet(WindowOn(N, h, a, b)) /\ Cardinality(WindowOn(N, h, a, b)) = b - a
<1>1. N \in Nat /\ N >= 1 /\ a \in 0 .. N /\ b \in a .. N  OBVIOUS
<1> DEFINE f == [k \in a .. b - 1 |-> (h + k) % N]
           W == WindowOn(N, h, a, b)
<1>2. ASSUME NEW k \in a .. b - 1 PROVE f[k] \in W /\ AgeOn(N, h, f[k]) = k
  <2>1. k \in 0 .. N - 1 /\ a <= k /\ k < b  BY <1>1
  <2>2. f[k] \in 0 .. N - 1 /\ AgeOn(N, h, f[k]) = k  BY <2>1, SlotOfAge
  <2>3. QED  BY <2>1, <2>2 DEF WindowOn
<1>3. ASSUME NEW i \in W PROVE \E k \in a .. b - 1 : f[k] = i
  <2>1. i \in 0 .. N - 1 /\ AgeOn(N, h, i) \in 0 .. N - 1 /\ a <= AgeOn(N, h, i) /\ AgeOn(N, h, i) < b
    BY AgeValue DEF WindowOn
  <2>2. AgeOn(N, h, i) \in a .. b - 1  BY <1>1, <2>1
  <2>3. f[AgeOn(N, h, i)] \in 0 .. N - 1 /\ AgeOn(N, h, f[AgeOn(N, h, i)]) = AgeOn(N, h, i)
    BY <1>2, <2>2 DEF WindowOn
  <2>4. f[AgeOn(N, h, i)] = i  BY <2>1, <2>3, AgeUnique
  <2>5. QED  BY <2>2, <2>4
<1> HIDE DEF f, W
<1>4. f \in [a .. b - 1 -> W]  BY <1>2 DEF f
<1>5. \A k, m \in a .. b - 1 : f[k] = f[m] => k = m  BY <1>2
<1>6. f \in Bijection(a .. b - 1, W)
  BY <1>3, <1>4, <1>5 DEF Bijection, Injection, Surjection, IsInjective
<1>7. IsFiniteSet(a .. b - 1) /\ Cardinality(a .. b - 1) = b - a
  <2>1. a \in Int /\ b - 1 \in Int /\ (a > b - 1 => b - a = 0) /\ b - 1 - a + 1 = b - a  BY <1>1
  <2>2. QED  BY <2>1, FS_Interval
<1>8. ExistsBijection(a .. b - 1, W)  BY <1>6 DEF ExistsBijection
<1>9. QED  BY <1>7, <1>8, FS_Bijection DEF W

\* A set of natural numbers that is not empty has a least element.
LEMMA LeastNat ==
  ASSUME NEW T \in SUBSET Nat, T # {}
  PROVE  \E x \in T : \A y \in T : x <= y
<1> DEFINE R == {ss \in Nat \X Nat : ss[1] < ss[2]}
<1>1. IsWellFoundedOn(R, Nat)
  BY NatLessThanWellFounded DEF OpToRel
<1>2. PICK x \in T : \A y \in T : ~ (<<y, x>> \in R)
  <2> HIDE DEF R
  <2>1. QED  BY <1>1, WFMin
<1>3. ASSUME NEW y \in T PROVE x <= y
  <2>1. x \in Nat /\ y \in Nat  OBVIOUS
  <2>2. <<y, x>> \in Nat \X Nat /\ <<y, x>>[1] = y /\ <<y, x>>[2] = x  BY <2>1
  <2>3. ~ (y < x)  BY <1>2, <2>2
  <2>4. QED  BY <2>1, <2>3
<1>4. QED  BY <1>3

\* A set of slots has an oldest and a youngest one.
LEMMA Ends ==
  ASSUME NEW N \in Nat \ {0}, NEW h \in 0 .. N - 1, NEW S \in SUBSET (0 .. N - 1), S # {}
  PROVE  /\ \E i \in S : \A j \in S : AgeOn(N, h, i) <= AgeOn(N, h, j)
         /\ \E i \in S : \A j \in S : AgeOn(N, h, j) <= AgeOn(N, h, i)
<1>1. N \in Nat /\ N >= 1  OBVIOUS
<1>2. \A i \in S : AgeOn(N, h, i) \in 0 .. N - 1  BY AgeValue
<1>3. \E i \in S : \A j \in S : AgeOn(N, h, i) <= AgeOn(N, h, j)
  <2> DEFINE T == {AgeOn(N, h, i) : i \in S}
  <2>1. T \in SUBSET Nat /\ T # {}
    <3>1. \A i \in S : AgeOn(N, h, i) \in Nat  BY <1>1, <1>2
    <3>2. QED  BY <3>1
  <2>2. PICK x \in T : \A y \in T : x <= y
    <3> HIDE DEF T
    <3>1. QED  BY <2>1, LeastNat
  <2>3. QED  BY <2>2
<1>4. \E i \in S : \A j \in S : AgeOn(N, h, j) <= AgeOn(N, h, i)
  <2> DEFINE T == {N - AgeOn(N, h, i) : i \in S}
  <2>1. T \in SUBSET Nat /\ T # {}
    <3>1. \A i \in S : N - AgeOn(N, h, i) \in Nat  BY <1>1, <1>2
    <3>2. QED  BY <3>1
  <2>2. PICK x \in T : \A y \in T : x <= y
    <3> HIDE DEF T
    <3>1. QED  BY <2>1, LeastNat
  <2>3. PICK i \in S : x = N - AgeOn(N, h, i)  OBVIOUS
  <2>4. ASSUME NEW j \in S PROVE AgeOn(N, h, j) <= AgeOn(N, h, i)
    <3>1. N - AgeOn(N, h, i) <= N - AgeOn(N, h, j)  BY <2>2, <2>3
    <3>2. QED  BY <1>1, <1>2, <3>1
  <2>5. QED  BY <2>4
<1>5. QED  BY <1>3, <1>4

\* A set that holds everything older than its members is a window from 0.
LEMMA PrefixWindow ==
  ASSUME NEW N \in Nat \ {0}, NEW h \in 0 .. N - 1, NEW S \in SUBSET (0 .. N - 1),
         \A i \in S, j \in 0 .. N - 1 : AgeOn(N, h, j) < AgeOn(N, h, i) => j \in S
  PROVE  /\ IsFiniteSet(S) /\ Cardinality(S) \in 0 .. N
         /\ S = WindowOn(N, h, 0, Cardinality(S))
<1>1. N \in Nat /\ N >= 1  OBVIOUS
<1>2. \A i \in 0 .. N - 1 : AgeOn(N, h, i) \in 0 .. N - 1  BY AgeValue
<1>3. \E b \in 0 .. N : S = WindowOn(N, h, 0, b)
  <2>1. CASE S = 0 .. N - 1
    <3>1. S = WindowOn(N, h, 0, N)
      <4>1. QED  BY <1>1, <1>2, <2>1 DEF WindowOn
    <3>2. QED  BY <1>1, <3>1
  <2>2. CASE S # 0 .. N - 1
    <3>1. PICK x \in (0 .. N - 1) \ S : \A j \in (0 .. N - 1) \ S : AgeOn(N, h, x) <= AgeOn(N, h, j)
      <4>1. (0 .. N - 1) \ S \in SUBSET (0 .. N - 1) /\ (0 .. N - 1) \ S # {}  BY <2>2
      <4>2. QED  BY <4>1, Ends
    <3>2. ASSUME NEW i \in 0 .. N - 1 PROVE i \in S <=> AgeOn(N, h, i) < AgeOn(N, h, x)
      <4>1. AgeOn(N, h, i) \in Int /\ AgeOn(N, h, x) \in Int  BY <1>2
      <4>2. ASSUME i \in S PROVE AgeOn(N, h, i) < AgeOn(N, h, x)
        <5>1. i # x /\ ~ (AgeOn(N, h, x) < AgeOn(N, h, i))  BY <4>2
        <5>2. AgeOn(N, h, i) # AgeOn(N, h, x)  BY <5>1, AgeUnique
        <5>3. QED  BY <4>1, <5>1, <5>2
      <4>3. ASSUME i \notin S PROVE ~ (AgeOn(N, h, i) < AgeOn(N, h, x))
        BY <3>1, <4>1, <4>3
      <4>4. QED  BY <4>2, <4>3
    <3>3. AgeOn(N, h, x) \in 0 .. N
      <4>1. AgeOn(N, h, x) \in 0 .. N - 1  BY <1>2
      <4>2. QED  BY <1>1, <4>1
    <3>4. S = WindowOn(N, h, 0, AgeOn(N, h, x))
      <4>1. \A i \in 0 .. N - 1 : 0 <= AgeOn(N, h, i)
        <5>1. QED  BY <1>1, <1>2
      <4>2. QED  BY <3>2, <4>1 DEF WindowOn
    <3>5. QED  BY <3>3, <3>4
  <2>3. QED  BY <2>1, <2>2
<1>4. PICK b \in 0 .. N : S = WindowOn(N, h, 0, b)  BY <1>3
<1>5. 0 \in 0 .. N /\ b \in 0 .. N /\ b - 0 = b
  <2>1. QED  BY <1>1
<1>6. IsFiniteSet(S) /\ Cardinality(S) = b  BY <1>4, <1>5, WindowSize
<1>7. QED  BY <1>4, <1>6

\* Steps along the ring that go back over some of them.
LEMMA StepsBack ==
  ASSUME NEW N \in Nat \ {0}, NEW h \in 0 .. N - 1, NEW k \in 0 .. N, NEW m \in 0 .. k
  PROVE  (((h + k) % N) - m) % N = (h + (k - m)) % N
<1>1. N \in Nat /\ N >= 1 /\ h \in 0 .. N - 1 /\ k \in 0 .. N /\ m \in 0 .. k  OBVIOUS
<1>2. h + (k - m) = h + k - m  BY <1>1
<1>3. CASE h + k < N
  <2>1. (h + k) % N = h + k  BY <1>1, <1>3
  <2>2. QED  BY <1>2, <2>1
<1>4. CASE ~ (h + k < N) /\ h + k < 2 * N
  <2>1. h + k - N \in 0 .. N - 1  BY <1>1, <1>4
  <2>2. (h + k) % N = h + k - N  BY <1>1, <2>1
  <2>3. (h + k - m - N) % N = (h + k - m) % N  BY <1>1
  <2>4. h + k - N - m = h + k - m - N  BY <1>1
  <2>5. QED  BY <1>2, <2>2, <2>3, <2>4
<1>5. QED  BY <1>1, <1>3, <1>4

\* The head moves on.
LEMMA HeadMoves ==
  ASSUME NEW N \in Nat \ {0}, NEW h \in 0 .. N - 1, NEW num \in 1 .. N
  PROVE  /\ (h + 1) % N \in 0 .. N - 1
         /\ (((h + 1) % N) + (num - 1)) % N = (h + num) % N
         /\ AgeOn(N, h, h) = 0
<1>1. N \in Nat /\ N >= 1 /\ num \in 1 .. N /\ 1 \in 0 .. N /\ num - 1 \in 0 .. N /\ h \in 0 .. N - 1
  OBVIOUS
<1>2. (h + 1) % N \in 0 .. N - 1  BY <1>1, SlotAt
<1>3. (((h + 1) % N) + (num - 1)) % N = (h + num) % N
  <2>1. (((h + 1) % N) + (num - 1)) % N = (h + 1 + (num - 1)) % N  BY <1>1, StepsAdd
  <2>2. h + 1 + (num - 1) = h + num  BY <1>1
  <2>3. QED  BY <2>1, <2>2
<1>4. AgeOn(N, h, h) = 0
  <2>1. h >= h /\ h - h = 0  BY <1>1
  <2>2. QED  BY <2>1, AgeValue
<1>5. QED  BY <1>2, <1>3, <1>4

NextOn(N, h) == (h + 1) % N

\* The oldest leaves, and all others are one step younger.
LEMMA HeadLeaves ==
  ASSUME NEW N \in Nat \ {0}, NEW h \in 0 .. N - 1, NEW num \in 1 .. N, NEW i \in 0 .. N - 1
  PROVE  /\ AgeOn(N, NextOn(N, h), i) < num - 1 <=> AgeOn(N, h, i) < num /\ i # h
         /\ i # h => AgeOn(N, NextOn(N, h), i) = AgeOn(N, h, i) - 1
<1> DEFINE a == AgeOn(N, h, i)
           b == AgeOn(N, NextOn(N, h), i)
<1>1. N \in Nat /\ N >= 1 /\ num \in 1 .. N /\ 1 \in 0 .. N  OBVIOUS
<1>2. a \in 0 .. N - 1  BY AgeValue
<1>3. b = IF a >= 1 THEN a - 1 ELSE a - 1 + N  BY <1>1, AgeShift DEF NextOn
<1>4. a = 0 <=> i = h  BY HeadMoves, AgeUnique
<1> HIDE DEF a, b
<1>5. CASE i = h  BY <1>1, <1>2, <1>3, <1>4, <1>5 DEF a, b
<1>6. CASE i # h
  <2>1. a >= 1 /\ b = a - 1  BY <1>1, <1>2, <1>3, <1>4, <1>6
  <2>2. b < num - 1 <=> a < num  BY <1>1, <1>2, <2>1
  <2>3. QED  BY <1>6, <2>1, <2>2 DEF a, b
<1>7. QED  BY <1>5, <1>6
=============================================================================
