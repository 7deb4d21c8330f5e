-------------------------- MODULE EchoAlignerProofs --------------------------
(***************************************************************************)
(* The alignment of system audio with the microphone (EchoAligner), for    *)
(* any ring, tolerance, lead and hold, any host times and any lengths of   *)
(* buffers.                                                                *)
(*                                                                         *)
(* What the ring does is said once, by three lemmas on its operators: what *)
(* is retained after a write was there before, unchanged, or came from the *)
(* samples written (Written); a buffer that was placed, with a gap before  *)
(* it or its beginning trimmed, lies within the tolerance of where it      *)
(* starts (PlacedNearby); a move changes the indices of the reference and  *)
(* not what it holds (MovedKeepsSamples).  All rest on one fact: two       *)
(* indices less than the capacity apart have different slots.              *)
(*                                                                         *)
(* ReferenceIsRight is then inductive with two additions: nothing is held  *)
(* before the first buffer (BeforeTheFirst), and no sample has a host time *)
(* before there is an origin to place it by (OriginFirst).                 *)
(***************************************************************************)
EXTENDS EchoAligner, WellFoundedInduction, TLAPS

-----------------------------------------------------------------------------
(* Integers.                                                                *)

\* A set of naturals has a least element, a bounded one a greatest.
LEMMA LeastNatural ==
  ASSUME NEW T, T \subseteq Nat, T # {}
  PROVE  \E m \in T : \A n \in T : m <= n
<1>1. PICK m \in T : \A n \in T : <<n, m>> \notin OpToRel(<, Nat)
  BY NatLessThanWellFounded, WFMin
<1>2. ASSUME NEW n \in T
      PROVE  m <= n
  <2>1. n \in Nat /\ m \in Nat
    OBVIOUS
  <2>2. <<n, m>> \notin OpToRel(<, Nat)
    BY <1>1
  <2>3. ~ (n < m)
    BY <2>1, <2>2 DEF OpToRel
  <2> QED
    BY <2>1, <2>3
<1> QED
  BY <1>2

LEMMA Greatest ==
  ASSUME NEW len \in Nat, NEW T, T \subseteq 1 .. len, T # {}
  PROVE  \E m \in T : \A n \in T : n <= m
<1> DEFINE D == {len - n : n \in T}
<1>1. D \subseteq Nat /\ D # {}
  <2>1. \A n \in T : len - n \in Nat
    OBVIOUS
  <2> QED
    BY <2>1
<1>2. PICK d \in D : \A e \in D : d <= e
  BY <1>1, LeastNatural
<1>3. PICK m \in T : d = len - m
  OBVIOUS
<1>4. ASSUME NEW n \in T
      PROVE  n <= m
  <2>1. len - n \in D
    OBVIOUS
  <2> QED
    BY <1>2, <1>3, <2>1
<1> QED
  BY <1>4

LEMMA AbsIsNatural ==
  ASSUME NEW n \in Int
  PROVE  Abs(n) \in Nat
BY DEF Abs

LEMMA Modulo ==
  ASSUME NEW n \in Int
  PROVE  n % Capacity \in 0 .. Capacity - 1
BY SizesAssumption

LEMMA CapacityIsPositive == Capacity \in Nat \ {0}
BY SizesAssumption

\* Indices less than the capacity apart are equal if their slots are.
LEMMA NoMultipleBetween ==
  ASSUME NEW C \in Nat \ {0}, NEW p \in Int, NEW q \in Int,
         C * p - C * q < C, C * q - C * p < C
  PROVE  p = q
<1>1. CASE p > q
  <2>1. C * (p - q) >= C
    BY <1>1
  <2> QED
    BY <2>1
<1>2. CASE q > p
  <2>1. C * (q - p) >= C
    BY <1>2
  <2> QED
    BY <2>1
<1> QED
  BY <1>1, <1>2

LEMMA CloseAndCongruent ==
  ASSUME NEW C \in Nat \ {0}, NEW a \in Int, NEW b \in Int,
         a % C = b % C, a - b < C, b - a < C
  PROVE  a = b
<1> DEFINE p == a \div C
           q == b \div C
<1>1. p \in Int /\ q \in Int /\ a = C * p + (a % C) /\ b = C * q + (b % C)
  OBVIOUS
<1>2. a % C \in 0 .. C - 1 /\ b % C \in 0 .. C - 1
  OBVIOUS
<1> HIDE DEF p, q
<1>3. C * p \in Int /\ C * q \in Int
  BY <1>1
<1>4. C * p - C * q < C /\ C * q - C * p < C
  BY <1>1, <1>2, <1>3
<1>5. p = q
  BY <1>1, <1>4, NoMultipleBetween
<1> QED
  BY <1>1, <1>5

\* Moving the offset back by what the indices moved keeps the slot.
LEMMA CongruentBack ==
  ASSUME NEW C \in Nat \ {0}, NEW x \in Int, NEW a \in Int, NEW b \in Int
  PROVE  (x + a + ((b - a) % C)) % C = (x + b) % C
<1> DEFINE p == (b - a) \div C
           w == (b - a) % C
           y == x + b
           z == x + a + w
<1>1. p \in Int /\ b - a = C * p + w /\ w \in 0 .. C - 1
  OBVIOUS
<1> HIDE DEF p, w
<1>2. C * p \in Int
  BY <1>1
<1>3. y \in Int /\ z \in Int /\ y = z + C * p
  BY <1>1, <1>2
<1> DEFINE u == y \div C
           v == z \div C
           d == y % C
           e == z % C
<1> HIDE DEF y, z
<1>4. u \in Int /\ y = C * u + d /\ d \in 0 .. C - 1
  BY <1>3
<1>5. v \in Int /\ z = C * v + e /\ e \in 0 .. C - 1
  BY <1>3
<1> HIDE DEF u, v, d, e
<1>6. C * (v + p) = C * v + C * p /\ v + p \in Int
  BY <1>1, <1>5
<1>7. C * u \in Int /\ C * v \in Int
  BY <1>4, <1>5
<1>8. C * u - C * (v + p) < C /\ C * (v + p) - C * u < C
  BY <1>2, <1>3, <1>4, <1>5, <1>6, <1>7
<1>9. u = v + p
  BY <1>4, <1>6, <1>8, NoMultipleBetween
<1>10. d = e
  BY <1>2, <1>3, <1>4, <1>5, <1>6, <1>7, <1>9
<1> QED
  BY <1>10 DEF d, e, y, z, w

-----------------------------------------------------------------------------
(* The ring.                                                                *)

\* The reference has begun.
Begun(r) == r \in Ref /\ r.end \in Int

\* What the ring still holds are the last count indices before its end.
LEMMA RetainedOf ==
  ASSUME NEW r, Begun(r)
  PROVE  Retained(r) = r.end - r.count .. r.end - 1
BY ValuesAssumption DEF Begun, Retained

LEMMA RetainedBounds ==
  ASSUME NEW r, Begun(r), NEW i \in Retained(r)
  PROVE  i \in Int /\ i < r.end /\ r.end - r.count <= i
<1>1. r.end \in Int /\ r.count \in Int
  BY DEF Begun, Ref
<1>2. Retained(r) = r.end - r.count .. r.end - 1
  BY RetainedOf
<1> QED
  BY <1>1, <1>2

\* Every index has a slot, and two that are close have different ones.
LEMMA SlotInRing ==
  ASSUME NEW r, Begun(r), NEW i \in Int
  PROVE  Slot(r, i) \in 0 .. Capacity - 1
<1>1. i + r.offset \in Int
  BY DEF Begun, Ref
<1> QED
  BY <1>1, Modulo DEF Slot

LEMMA SlotsDiffer ==
  ASSUME NEW r, Begun(r), NEW i \in Int, NEW j \in Int,
         Slot(r, i) = Slot(r, j), i - j < Capacity, j - i < Capacity
  PROVE  i = j
<1>1. i + r.offset \in Int /\ j + r.offset \in Int /\ r.offset \in Int
  BY DEF Begun, Ref
<1>2. i + r.offset = j + r.offset
  BY <1>1, CapacityIsPositive, CloseAndCongruent DEF Slot
<1> QED
  BY <1>1, <1>2

\* Writing: what is new comes from the samples, what is kept is unchanged.
Keeps(q, r) ==
  \A i \in Retained(q) :
    i < r.end => i \in Retained(r) /\ RefAt(q, i) = RefAt(r, i)

LEMMA Written ==
  ASSUME NEW r, Begun(r), NEW samples \in Seq(Content)
  PROVE  LET q == WriteRender(r, samples)
         IN  /\ Begun(q)
             /\ q.end = r.end + Len(samples)
             /\ Keeps(q, r)
             /\ \A i \in Retained(q) :
                  i >= r.end => /\ i - r.end + 1 \in DOMAIN samples
                                /\ RefAt(q, i) = samples[i - r.end + 1]
<1> DEFINE at(s) == {k \in DOMAIN samples : Slot(r, r.end + k - 1) = s}
           last(s) == CHOOSE k \in at(s) : \A j \in at(s) : j <= k
           count == r.count + Len(samples)
           ring == [s \in 0 .. Capacity - 1 |->
                      IF at(s) = {} THEN r.ring[s] ELSE samples[last(s)]]
           end == r.end + Len(samples)
           held == IF count > Capacity THEN Capacity ELSE count
           q == WriteRender(r, samples)
<1>r. /\ r \in Ref /\ r.end \in Int /\ r.count \in 0 .. Capacity
      /\ r.offset \in 0 .. Capacity - 1
      /\ r.ring \in [0 .. Capacity - 1 -> Content]
  BY DEF Begun, Ref
<1>s. /\ Len(samples) \in Nat /\ DOMAIN samples = 1 .. Len(samples)
      /\ \A k \in DOMAIN samples : samples[k] \in Content
  OBVIOUS
<1>1. q = [r EXCEPT !.ring = ring, !.end = end, !.count = held]
  <2>1. DOMAIN r.ring = 0 .. Capacity - 1
    BY <1>r
  <2> QED
    BY <2>1 DEF WriteRender
<1>2. \A s : at(s) # {} => /\ last(s) \in at(s)
                           /\ \A j \in at(s) : j <= last(s)
  <2> TAKE s
  <2> HAVE at(s) # {}
  <2>1. at(s) \subseteq 1 .. Len(samples)
    BY <1>s
  <2> HIDE DEF at
  <2>2. \E k \in at(s) : \A j \in at(s) : j <= k
    BY <1>s, <2>1, Greatest
  <2> QED
    BY <2>2
<1>3. ring \in [0 .. Capacity - 1 -> Content]
  <2> SUFFICES ASSUME NEW s \in 0 .. Capacity - 1
               PROVE  (IF at(s) = {} THEN r.ring[s] ELSE samples[last(s)])
                        \in Content
    OBVIOUS
  <2>1. CASE at(s) = {}
    BY <1>r, <2>1
  <2>2. CASE at(s) # {}
    <3>1. last(s) \in at(s)
      BY <1>2, <2>2
    <3> HIDE DEF last
    <3>2. last(s) \in DOMAIN samples
      BY <3>1
    <3> QED
      BY <1>s, <2>2, <3>2
  <2> QED
    BY <2>1, <2>2
<1>4. end \in Int /\ held \in 0 .. Capacity /\ held <= count /\ count \in Int
  BY <1>r, <1>s, SizesAssumption
<1> HIDE DEF ring, held, end, q
<1>5. /\ q \in Ref /\ q.ring = ring /\ q.end = end /\ q.count = held
      /\ q.offset = r.offset
  BY <1>r, <1>1, <1>3, <1>4 DEF Ref
<1>6. Begun(q)
  BY <1>4, <1>5 DEF Begun
<1>7. Retained(q) = end - held .. end - 1
  BY <1>5, <1>6, RetainedOf
<1>8. \A i \in Int : /\ Slot(q, i) = Slot(r, i)
                     /\ RefAt(q, i) = IF at(Slot(r, i)) = {}
                                        THEN RefAt(r, i)
                                        ELSE samples[last(Slot(r, i))]
  <2> TAKE i \in Int
  <2>1. Slot(q, i) = Slot(r, i)
    BY <1>5 DEF Slot
  <2>2. Slot(r, i) \in 0 .. Capacity - 1
    BY SlotInRing
  <2> HIDE DEF at, last
  <2> QED
    BY <1>5, <2>1, <2>2 DEF RefAt, ring
\* A retained index and a sample written to its slot are the same index, or
\* the sample is older.
<1>9. ASSUME NEW i \in Retained(q), NEW k \in at(Slot(r, i))
      PROVE  i >= r.end + k - 1
  <2>1. /\ k \in Int /\ 1 <= k /\ k <= Len(samples)
        /\ Slot(r, r.end + k - 1) = Slot(r, i)
    BY <1>s
  <2>2. i \in Int /\ i >= end - held /\ i < end
    BY <1>4, <1>7
  <2>3. CASE i < r.end + k - 1
    <3> DEFINE j == r.end + k - 1
    <3>1. j \in Int /\ j < end /\ i < j /\ Slot(r, j) = Slot(r, i)
      BY <1>r, <1>s, <2>1, <2>3 DEF end
    <3> HIDE DEF j, at
    <3>2. j - i < Capacity /\ i - j < Capacity
      BY <1>4, <2>2, <3>1, CapacityIsPositive
    <3>3. j = i
      BY <2>2, <3>1, <3>2, SlotsDiffer
    <3> QED
      BY <2>2, <3>1, <3>3
  <2> QED
    BY <1>r, <2>1, <2>2, <2>3
<1>10. Keeps(q, r)
  <2> SUFFICES ASSUME NEW i \in Retained(q), i < r.end
               PROVE  i \in Retained(r) /\ RefAt(q, i) = RefAt(r, i)
    BY DEF Keeps
  <2>1. i \in Int /\ i >= end - held
    BY <1>4, <1>7
  <2>2. i \in Retained(r)
    <3>1. i >= r.end - r.count
      BY <1>r, <1>s, <1>4, <2>1 DEF end
    <3> QED
      BY <1>r, <2>1, <3>1, RetainedOf
  <2>3. at(Slot(r, i)) = {}
    <3> SUFFICES ASSUME NEW k \in at(Slot(r, i))
                 PROVE  FALSE
      OBVIOUS
    <3>1. k \in Int /\ k >= 1
      BY <1>s
    <3>2. i >= r.end + k - 1
      BY <1>9
    <3> QED
      BY <1>r, <2>1, <3>1, <3>2
  <2> QED
    BY <1>8, <2>1, <2>2, <2>3
<1>11. ASSUME NEW i \in Retained(q), i >= r.end
       PROVE  /\ i - r.end + 1 \in DOMAIN samples
              /\ RefAt(q, i) = samples[i - r.end + 1]
  <2> DEFINE k == i - r.end + 1
             s == Slot(r, i)
  <2>1. i \in Int /\ i < end
    BY <1>4, <1>7
  <2>2. k \in DOMAIN samples /\ r.end + k - 1 = i
    BY <1>r, <1>s, <1>11, <2>1 DEF end
  <2>3. k \in at(s)
    BY <2>2
  <2>4. last(s) \in at(s) /\ k <= last(s)
    BY <1>2, <2>3
  <2>5. i >= r.end + last(s) - 1
    BY <1>9, <2>4
  <2>6. last(s) \in Int
    BY <1>s, <2>4
  <2>7. RefAt(q, i) = samples[last(s)]
    BY <1>8, <2>1, <2>3
  <2> HIDE DEF last, s
  <2>8. last(s) = k
    BY <1>r, <2>1, <2>4, <2>5, <2>6
  <2> QED
    BY <2>2, <2>7, <2>8
<1> QED
  BY <1>5, <1>6, <1>10, <1>11 DEF q, end

\* Silence: only more of it.
LEMMA Silenced ==
  ASSUME NEW r, Begun(r), NEW count \in Nat
  PROVE  LET q == WriteSilence(r, count)
         IN  /\ Begun(q)
             /\ q.end = r.end + count
             /\ Keeps(q, r)
             /\ \A i \in Retained(q) : i >= r.end => RefAt(q, i) = Silence
<1> DEFINE q == WriteSilence(r, count)
<1>r. /\ r \in Ref /\ r.end \in Int /\ r.count \in 0 .. Capacity
      /\ r.offset \in 0 .. Capacity - 1
      /\ r.ring \in [0 .. Capacity - 1 -> Content]
  BY DEF Begun, Ref
<1>1. CASE count >= Capacity
  <2> DEFINE end == r.end + count
  <2>1. end \in Int
    BY <1>r
  <2>2. q = [r EXCEPT !.end = end, !.count = 0]
    BY <1>1 DEF WriteSilence
  <2> HIDE DEF end, q
  <2> DEFINE held == 0
  <2>a. q = [r EXCEPT !.end = end, !.count = held]
    BY <2>2
  <2>b. held \in 0 .. Capacity /\ held = 0
    BY CapacityIsPositive
  <2> HIDE DEF held
  <2>c. q \in Ref /\ q.end = end /\ q.count = held
    BY <1>r, <2>1, <2>a, <2>b DEF Ref
  <2>3. q \in Ref /\ q.end = end /\ q.count = 0
    BY <2>b, <2>c
  <2>4. Begun(q)
    BY <2>1, <2>3 DEF Begun
  <2>5. Retained(q) = {}
    BY <2>1, <2>3, <2>4, RetainedOf
  <2> QED
    BY <2>3, <2>4, <2>5 DEF Keeps, q, end
<1>2. CASE ~ (count >= Capacity)
  <2> DEFINE samples == [k \in 1 .. count |-> Silence]
  <2>1. samples \in Seq(Content) /\ Len(samples) = count
    BY DEF Content
  <2>2. \A k \in DOMAIN samples : samples[k] = Silence
    OBVIOUS
  <2>3. q = WriteRender(r, samples)
    BY <1>2 DEF WriteSilence
  <2> HIDE DEF samples, q
  <2> QED
    BY <2>1, <2>2, <2>3, Written DEF q
<1> QED
  BY <1>1, <1>2

\* A sample belongs at the index where its buffer starts and what follows it.
Nearby(q, r, start, samples) ==
  \A i \in Retained(q) :
    i >= r.end => \/ RefAt(q, i) = Silence
                  \/ \E k \in DOMAIN samples :
                       /\ RefAt(q, i) = samples[k]
                       /\ Abs(i - (start + k - 1)) <= Tolerance

\* Two writes, one after the other, keep what both keep.
LEMMA KeepsIsTransitive ==
  ASSUME NEW r, NEW q, NEW p, Begun(r), Begun(q), Begun(p),
         r.end <= q.end, Keeps(q, r), Keeps(p, q)
  PROVE  Keeps(p, r)
<1> SUFFICES ASSUME NEW i \in Retained(p), i < r.end
             PROVE  i \in Retained(r) /\ RefAt(p, i) = RefAt(r, i)
  BY DEF Keeps
<1>1. i \in Int
  BY RetainedBounds
<1>2. i < q.end
  BY <1>1 DEF Begun
<1>3. i \in Retained(q) /\ RefAt(p, i) = RefAt(q, i)
  BY <1>2 DEF Keeps
<1> QED
  BY <1>3 DEF Keeps

\* A buffer written where the reference ends, close enough to its start.
LEMMA WrittenNearby ==
  ASSUME NEW r, Begun(r), NEW samples \in Seq(Content), NEW start \in Int,
         Abs(start - r.end) <= Tolerance
  PROVE  LET q == WriteRender(r, samples)
         IN  /\ Begun(q)
             /\ q.end >= r.end
             /\ Keeps(q, r)
             /\ Nearby(q, r, start, samples)
<1> DEFINE q == WriteRender(r, samples)
<1>1. r.end \in Int /\ Len(samples) \in Nat
  BY DEF Begun
<1>2. /\ Begun(q) /\ q.end = r.end + Len(samples) /\ Keeps(q, r)
      /\ \A i \in Retained(q) :
           i >= r.end => /\ i - r.end + 1 \in DOMAIN samples
                         /\ RefAt(q, i) = samples[i - r.end + 1]
  BY Written
<1> HIDE DEF q
<1>3. ASSUME NEW i \in Retained(q), i >= r.end
      PROVE  \E k \in DOMAIN samples :
               /\ RefAt(q, i) = samples[k]
               /\ Abs(i - (start + k - 1)) <= Tolerance
  <2>1. i \in Int
    BY <1>2, RetainedBounds
  <2>2. Abs(i - (start + (i - r.end + 1) - 1)) <= Tolerance
    BY <1>1, <2>1, SizesAssumption DEF Abs
  <2> QED
    BY <1>2, <1>3, <2>2
<1>4. q.end >= r.end
  BY <1>1, <1>2
<1> QED
  BY <1>2, <1>3, <1>4 DEF Nearby, q

\* The three cases of a placement: later than the end by more than the tolerance
\* (a gap of silence comes first), earlier (what overlaps is trimmed), or neither.
LEMMA PlacedNearby ==
  ASSUME NEW r, Begun(r), NEW samples \in Seq(Content), NEW start \in Int
  PROVE  LET q == Placed(r, start, samples)
         IN  /\ Begun(q)
             /\ q.end >= r.end
             /\ Keeps(q, r)
             /\ Nearby(q, r, start, samples)
<1> DEFINE q == Placed(r, start, samples)
<1>r. r.end \in Int /\ Tolerance \in Nat /\ Len(samples) \in Nat
  BY SizesAssumption DEF Begun
<1>1. CASE start > r.end + Tolerance
  <2> DEFINE gap == start - r.end
             p == WriteSilence(r, gap)
  <2>1. gap \in Nat
    BY <1>r, <1>1
  <2>2. q = WriteRender(p, samples)
    BY <1>r, <1>1 DEF Placed
  <2> HIDE DEF q
  <2>3. /\ Begun(p) /\ p.end = r.end + gap /\ Keeps(p, r)
        /\ \A i \in Retained(p) : i >= r.end => RefAt(p, i) = Silence
    <3> HIDE DEF gap
    <3> QED
      BY <2>1, Silenced
  <2> HIDE DEF p
  <2>4. p.end = start
    BY <1>r, <2>3
  <2>5. Abs(start - p.end) <= Tolerance
    BY <1>r, <2>4 DEF Abs
  <2>6. /\ Begun(q) /\ q.end >= p.end /\ Keeps(q, p)
        /\ Nearby(q, p, start, samples)
    BY <2>2, <2>3, <2>5, WrittenNearby
  <2>7. p.end >= r.end /\ q.end >= r.end
    BY <1>r, <1>1, <2>4, <2>6 DEF Begun
  <2>8. Keeps(q, r)
    BY <2>3, <2>6, <2>7, KeepsIsTransitive
  <2>9. Nearby(q, r, start, samples)
    <3> SUFFICES ASSUME NEW i \in Retained(q), i >= r.end, i < p.end
                 PROVE  RefAt(q, i) = Silence
      <4>1. \A i \in Retained(q) : i \in Int
        BY <2>6, RetainedBounds
      <4>2. p.end \in Int
        BY <2>3 DEF Begun
      <4>3. \A i \in Retained(q) : i < p.end \/ i >= p.end
        BY <4>1, <4>2
      <4> QED
        BY <2>6, <4>3 DEF Nearby
    <3>1. i \in Retained(p) /\ RefAt(q, i) = RefAt(p, i)
      BY <2>6 DEF Keeps
    <3> QED
      BY <2>3, <3>1
  <2> QED
    BY <2>6, <2>7, <2>8, <2>9 DEF q
<1>2. CASE start < r.end - Tolerance
  <2> DEFINE skip == r.end - start
             rest == SubSeq(samples, skip + 1, Len(samples))
  <2>1. skip \in Nat /\ skip + 1 \in 1 .. skip + 1
    BY <1>r, <1>2
  <2>2. q = WriteRender(r, rest)
    BY <1>r, <1>2 DEF Placed
  <2> HIDE DEF q
  <2>3. /\ rest \in Seq(Content)
        /\ \A k \in DOMAIN rest : /\ k \in Nat /\ k + skip \in DOMAIN samples
                                  /\ rest[k] = samples[k + skip]
    <3> HIDE DEF skip
    <3> QED
      BY <1>r, <2>1
  <2> HIDE DEF rest
  <2>4. /\ Begun(q) /\ q.end = r.end + Len(rest) /\ Keeps(q, r)
        /\ \A i \in Retained(q) :
             i >= r.end => /\ i - r.end + 1 \in DOMAIN rest
                           /\ RefAt(q, i) = rest[i - r.end + 1]
    BY <2>2, <2>3, Written
  <2>5. Nearby(q, r, start, samples)
    <3> SUFFICES ASSUME NEW i \in Retained(q), i >= r.end
                 PROVE  \E k \in DOMAIN samples :
                          /\ RefAt(q, i) = samples[k]
                          /\ Abs(i - (start + k - 1)) <= Tolerance
      BY DEF Nearby
    <3> DEFINE j == i - r.end + 1
    <3>1. i \in Int
      BY <2>4, RetainedBounds
    <3>2. j \in DOMAIN rest /\ RefAt(q, i) = rest[j]
      BY <2>4
    <3>3. j + skip \in DOMAIN samples /\ RefAt(q, i) = samples[j + skip]
      BY <2>3, <3>2
    <3>4. Abs(i - (start + (j + skip) - 1)) <= Tolerance
      BY <1>r, <3>1 DEF Abs
    <3> QED
      BY <3>3, <3>4
  <2>6. q.end >= r.end
    <3>1. Len(rest) \in Nat
      BY <2>3
    <3> QED
      BY <1>r, <2>4, <3>1
  <2> QED
    BY <2>4, <2>5, <2>6 DEF q
<1>3. CASE ~ (start > r.end + Tolerance) /\ ~ (start < r.end - Tolerance)
  <2>1. q = WriteRender(r, samples)
    BY <1>3 DEF Placed
  <2>2. Abs(start - r.end) <= Tolerance
    BY <1>r, <1>3 DEF Abs
  <2> HIDE DEF q
  <2> QED
    BY <2>1, <2>2, WrittenNearby DEF q
<1> QED
  BY <1>1, <1>2, <1>3

\* oweRender only adds silence, up to the index a frame needs.
LEMMA OwedIsSilence ==
  ASSUME NEW r, Begun(r), NEW index \in Int
  PROVE  LET q == Owed(r, index)
         IN  /\ Begun(q)
             /\ q.end >= r.end /\ q.end >= index
             /\ Keeps(q, r)
             /\ \A i \in Retained(q) : i >= r.end => RefAt(q, i) = Silence
<1> DEFINE q == Owed(r, index)
<1>r. r.end \in Int /\ r.end # None
  BY ValuesAssumption DEF Begun
<1>1. CASE index > r.end
  <2> DEFINE n == index - r.end
  <2>1. n \in Nat
    BY <1>r, <1>1
  <2>2. q = WriteSilence(r, n)
    BY <1>r, <1>1 DEF Owed
  <2> HIDE DEF q, n
  <2>3. /\ Begun(q) /\ q.end = r.end + n /\ Keeps(q, r)
        /\ \A i \in Retained(q) : i >= r.end => RefAt(q, i) = Silence
    BY <2>1, <2>2, Silenced
  <2>4. q.end >= r.end /\ q.end >= index
    BY <1>r, <2>1, <2>3 DEF n
  <2> QED
    BY <2>3, <2>4 DEF q
<1>2. CASE ~ (index > r.end)
  <2>1. q = r
    BY <1>r, <1>2 DEF Owed
  <2>2. \A i \in Retained(r) : i \in Int /\ i < r.end
    BY RetainedBounds
  <2> HIDE DEF q
  <2>3. Begun(q) /\ Keeps(q, r)
    BY <2>1 DEF Keeps
  <2>4. q.end >= r.end /\ q.end >= index
    BY <1>r, <1>2, <2>1
  <2>5. \A i \in Retained(q) : ~ (i >= r.end)
    BY <1>r, <2>1, <2>2
  <2> QED
    BY <2>3, <2>4, <2>5 DEF q
<1> QED
  BY <1>1, <1>2

\* A move of the reference changes its indices, not what it holds.
LEMMA MovedKeepsSamples ==
  ASSUME NEW r, Begun(r), NEW shift \in Int
  PROVE  LET q == Moved(r, shift)
         IN  /\ Begun(q)
             /\ q.end = r.end + shift
             /\ \A i \in Retained(q) : /\ i - shift \in Retained(r)
                                       /\ RefAt(q, i) = RefAt(r, i - shift)
<1> DEFINE end == r.end + shift
           offset == (r.offset - shift) % Capacity
           q == Moved(r, shift)
<1>r. /\ r \in Ref /\ r.end \in Int /\ r.end # None /\ r.count \in 0 .. Capacity
      /\ r.offset \in 0 .. Capacity - 1 /\ r.offset \in Int
  BY ValuesAssumption DEF Begun, Ref
<1>1. end \in Int /\ offset \in 0 .. Capacity - 1
  <2>1. r.offset - shift \in Int
    BY <1>r
  <2> QED
    BY <1>r, <2>1, Modulo
<1>2. q = [r EXCEPT !.end = end, !.offset = offset]
  BY <1>r DEF Moved
<1> HIDE DEF end, offset, q
<1>3. /\ q \in Ref /\ q.end = end /\ q.offset = offset /\ q.count = r.count
      /\ q.ring = r.ring
  BY <1>r, <1>1, <1>2 DEF Ref
<1>4. Begun(q)
  BY <1>1, <1>3 DEF Begun
<1>5. ASSUME NEW i \in Retained(q)
      PROVE  i - shift \in Retained(r) /\ RefAt(q, i) = RefAt(r, i - shift)
  <2>1. Retained(q) = end - r.count .. end - 1
    BY <1>3, <1>4, RetainedOf
  <2>2. i \in Int /\ i - shift \in Int
    BY <1>1, <1>r, <2>1
  <2>3. i - shift \in Retained(r)
    BY <1>r, <2>1, <2>2, RetainedOf DEF end
  <2>4. (i - shift + shift + ((r.offset - shift) % Capacity)) % Capacity
          = (i - shift + r.offset) % Capacity
    BY <1>r, <2>2, CapacityIsPositive, CongruentBack
  <2>5. i - shift + shift + ((r.offset - shift) % Capacity)
          = i + ((r.offset - shift) % Capacity)
    BY <1>1, <2>2 DEF offset
  <2>6. Slot(q, i) = Slot(r, i - shift)
    BY <1>3, <2>4, <2>5 DEF Slot, offset
  <2> QED
    BY <1>3, <2>3, <2>6 DEF RefAt
<1> QED
  BY <1>3, <1>4, <1>5 DEF q, end

-----------------------------------------------------------------------------
(* The inductive invariant.                                                 *)

\* Before the first system buffer the ring holds nothing.
BeforeTheFirst == reference.end = None => reference.count = 0
\* The origin comes first: before it neither stream has shown a host time, and
\* what the ring holds was placed without one.
OriginFirst ==
  /\ micAnchor # None => origin # None
  /\ origin = None => \A i \in Retained(reference) :
                        RefAt(reference, i) \in {Silence, Untimed}

IInv == ReferenceIsRight /\ BeforeTheFirst /\ OriginFirst

\* Once there is an origin, a host time has an index.
LEMMA AnchorIsTime ==
  ASSUME TypeOK, OriginFirst, origin # None
  PROVE  Anchor.pts \in Int /\ Anchor.index \in Int
<1>1. CASE micAnchor = None
  BY <1>1, SizesAssumption DEF Anchor, TypeOK
<1>2. CASE micAnchor # None
  BY <1>2, SizesAssumption DEF Anchor, TypeOK
<1> QED
  BY <1>1, <1>2

\* What the ring holds, and that a host time is one.
LEMMA RefAtIsContent ==
  ASSUME NEW r, Begun(r), NEW i \in Int
  PROVE  RefAt(r, i) \in Content
<1>1. r.ring \in [0 .. Capacity - 1 -> Content]
  BY DEF Begun, Ref
<1> QED
  BY <1>1, SlotInRing DEF RefAt

LEMMA ContentIsTime ==
  ASSUME NEW t \in Content, t \notin {Silence, Untimed}
  PROVE  t \in Int
<1>1. PICK u \in Times, k \in UNION {0 .. l - 1 : l \in Lengths} : t = u + k
  BY DEF Content
<1>2. PICK l \in Lengths : k \in 0 .. l - 1
  BY <1>1
<1> QED
  BY <1>1, <1>2, SizesAssumption

\* The tracker may lock on any delay; the lead stays within leadRangeMs.
LEMMA RetargetedInRange ==
  ASSUME NEW lock \in Locks \cup {None}, lead \in LeadRange
  PROVE  Retargeted(lock) \in LeadRange
<1> DEFINE wanted == lead + RetargetDelay - lock
<1>1. CASE lock = None \/ lock \in WorkingWindow
  BY <1>1 DEF Retargeted
<1>2. CASE ~ (lock = None \/ lock \in WorkingWindow)
  <2>1. wanted \in Int
    BY <1>2, SizesAssumption
  <2>2. Retargeted(lock)
          = CHOOSE l \in LeadRange :
              \A k \in LeadRange : Abs(l - wanted) <= Abs(k - wanted)
    BY <1>2 DEF Retargeted
  <2> HIDE DEF wanted
  <2> DEFINE T == {Abs(k - wanted) : k \in LeadRange}
  <2>3. T \subseteq Nat /\ T # {}
    <3>1. \A k \in LeadRange : Abs(k - wanted) \in Nat
      BY <2>1, AbsIsNatural, SizesAssumption
    <3> QED
      BY <3>1, SizesAssumption
  <2>4. \E m \in T : \A n \in T : m <= n
    <3> HIDE DEF T
    <3> QED
      BY <2>3, LeastNatural
  <2>5. \E l \in LeadRange :
           \A k \in LeadRange : Abs(l - wanted) <= Abs(k - wanted)
    BY <2>4
  <2> QED
    BY <2>2, <2>5
<1> QED
  BY <1>1, <1>2

\* What appendRender does to the reference.
Samples(length, pts) ==
  [k \in 1 .. length |-> IF pts = None THEN Untimed ELSE pts + k - 1]
Start(pts) ==
  IF pts # None THEN RenderTarget(pts)
    ELSE IF reference.end = None THEN 0 ELSE reference.end

LEMMA SamplesAreContent ==
  ASSUME NEW length \in Lengths, NEW pts \in Times \cup {None}
  PROVE  /\ Samples(length, pts) \in Seq(Content)
         /\ DOMAIN Samples(length, pts) = 1 .. length
<1>1. ASSUME NEW k \in 1 .. length
      PROVE  (IF pts = None THEN Untimed ELSE pts + k - 1) \in Content
  <2>1. CASE pts = None
    BY <2>1 DEF Content
  <2>2. CASE pts # None
    <3>1. pts \in Times /\ pts \in Int
      BY <2>2, SizesAssumption
    <3>2. k - 1 \in 0 .. length - 1
      BY SizesAssumption
    <3>3. k - 1 \in UNION {0 .. l - 1 : l \in Lengths}
      BY <3>2
    <3> DEFINE j == k - 1
    <3>4. pts + k - 1 = pts + j
      BY <3>1
    <3>5. j \in UNION {0 .. l - 1 : l \in Lengths}
      BY <3>3
    <3> HIDE DEF j
    <3>6. pts + j \in Content
      BY <3>1, <3>5 DEF Content
    <3> QED
      BY <2>2, <3>4, <3>6
  <2> QED
    BY <2>1, <2>2
<1> QED
  BY <1>1, SizesAssumption DEF Samples

LEMMA StartIsIndex ==
  ASSUME TypeOK, OriginFirst, NEW pts \in Times \cup {None}
  PROVE  Start(pts) \in Int
<1>1. CASE pts = None
  BY <1>1 DEF Start, TypeOK, Ref
<1>2. CASE pts # None
  <2>1. pts \in Int
    BY <1>2, SizesAssumption
  <2>2. CASE origin = None
    <3>1. micAnchor = None
      BY <2>2 DEF OriginFirst
    <3> QED
      BY <1>2, <2>2, <3>1 DEF Start, RenderTarget
  <2>3. CASE origin # None
    <3>1. Anchor.pts \in Int /\ Anchor.index \in Int
      BY <2>3, AnchorIsTime
    <3>2. Start(pts) = Anchor.index + pts - Anchor.pts
      BY <1>2, <2>3 DEF Start, RenderTarget
    <3> QED
      BY <2>1, <3>1, <3>2
  <2> QED
    BY <2>2, <2>3
<1> QED
  BY <1>1, <1>2

\* A system buffer keeps what there was, fills with silence, or puts a sample
\* within the tolerance of its own place.
LEMMA SystemReference ==
  ASSUME TypeOK, OriginFirst, BeforeTheFirst,
         NEW length \in Lengths, NEW pts \in Times \cup {None},
         System(length, pts)
  PROVE  /\ Begun(reference')
         /\ reference.end # None =>
              /\ Begun(reference)
              /\ reference'.end >= reference.end
              /\ Keeps(reference', reference)
         /\ \A i \in Retained(reference') :
              \/ /\ i \in Retained(reference)
                 /\ RefAt(reference', i) = RefAt(reference, i)
              \/ RefAt(reference', i) = Silence
              \/ \E k \in 1 .. length :
                   /\ RefAt(reference', i) = Samples(length, pts)[k]
                   /\ Abs(i - (Start(pts) + k - 1)) <= Tolerance
<1> DEFINE samples == Samples(length, pts)
           start == Start(pts)
<1>s. /\ samples \in Seq(Content) /\ DOMAIN samples = 1 .. length
      /\ start \in Int /\ Tolerance \in Nat
  BY SamplesAreContent, StartIsIndex, SizesAssumption
<1>1. CASE reference.end = None
  <2> DEFINE r == [reference EXCEPT !.end = start]
  <2>1. reference' = WriteRender(r, samples)
    BY <1>1 DEF System, Samples, Start
  <2> HIDE DEF samples, start
  <2>2. Begun(r) /\ r.end = start /\ r.count = 0
    BY <1>1, <1>s DEF TypeOK, BeforeTheFirst, Begun, Ref
  <2>3. Retained(r) = {}
    <3>1. Retained(r) = r.end - r.count .. r.end - 1
      BY <2>2, RetainedOf
    <3> QED
      BY <1>s, <2>2, <3>1
  <2> HIDE DEF r
  <2>4. Abs(start - r.end) <= Tolerance
    BY <1>s, <2>2 DEF Abs
  <2>5. /\ Begun(reference') /\ Keeps(reference', r)
        /\ Nearby(reference', r, start, samples)
    BY <1>s, <2>1, <2>2, <2>4, WrittenNearby
  <2>6. \A i \in Retained(reference') : i >= r.end
    <3> SUFFICES ASSUME NEW i \in Retained(reference'), ~ (i >= r.end)
                 PROVE  FALSE
      OBVIOUS
    <3>1. i \in Int
      BY <2>5, RetainedBounds
    <3> QED
      BY <1>s, <2>2, <2>3, <2>5, <3>1 DEF Keeps
  <2> QED
    BY <1>1, <1>s, <2>5, <2>6 DEF Nearby, samples, start
<1>2. CASE reference.end # None
  <2>1. Begun(reference)
    BY <1>2 DEF TypeOK, Begun, Ref
  <2>2. reference' = Placed(reference, start, samples)
    BY <1>2 DEF System, Samples, Start
  <2> HIDE DEF samples, start
  <2>3. /\ Begun(reference') /\ reference'.end >= reference.end
        /\ Keeps(reference', reference)
        /\ Nearby(reference', reference, start, samples)
    BY <1>s, <2>1, <2>2, PlacedNearby
  <2>4. \A i \in Retained(reference') :
          i < reference.end \/ i >= reference.end
    <3>1. \A i \in Retained(reference') : i \in Int
      BY <2>3, RetainedBounds
    <3>2. reference.end \in Int
      BY <2>1 DEF Begun
    <3> QED
      BY <3>1, <3>2
  <2> QED
    BY <1>s, <2>1, <2>3, <2>4 DEF Nearby, Keeps, samples, start
<1> QED
  BY <1>1, <1>2

\* The origin is the first host time, so what follows it is measured from it.
LEMMA SystemTimes ==
  ASSUME IInv, NEW length \in Lengths, NEW pts \in Times \cup {None},
         System(length, pts)
  PROVE  ReferenceKeepsTime' /\ OriginFirst'
<1>i. TypeOK /\ OriginFirst /\ BeforeTheFirst /\ ReferenceKeepsTime
  BY DEF IInv, ReferenceIsRight
<1>1. Begun(reference')
  BY <1>i, SystemReference
<1>2. \A i \in Retained(reference') :
        \/ /\ i \in Retained(reference)
           /\ RefAt(reference', i) = RefAt(reference, i)
        \/ RefAt(reference', i) = Silence
        \/ \E k \in 1 .. length :
             /\ RefAt(reference', i) = Samples(length, pts)[k]
             /\ Abs(i - (Start(pts) + k - 1)) <= Tolerance
  BY <1>i, SystemReference
<1>3. UNCHANGED <<micAnchor, staleEnd>>
  BY DEF System
<1>4. origin' = IF pts # None /\ origin = None THEN pts ELSE origin
  BY DEF System
<1>5. origin # None => origin' = origin /\ Anchor' = Anchor
  BY <1>3, <1>4 DEF Anchor
<1>6. pts # None => Start(pts) = Anchor'.index + pts - Anchor'.pts
                    /\ Anchor'.index \in Int /\ Anchor'.pts \in Int
  <2> SUFFICES ASSUME pts # None
               PROVE  /\ Start(pts) = Anchor'.index + pts - Anchor'.pts
                      /\ Anchor'.index \in Int /\ Anchor'.pts \in Int
    OBVIOUS
  <2>1. pts \in Int
    BY SizesAssumption
  <2>2. CASE origin = None
    <3>1. micAnchor = None /\ micAnchor' = None /\ origin' = pts
      BY <1>i, <1>3, <1>4, <2>2 DEF OriginFirst
    <3>2. Anchor'.pts = pts /\ Anchor'.index = 0
      BY <3>1 DEF Anchor
    <3>3. Start(pts) = 0
      BY <2>2, <3>1 DEF Start, RenderTarget
    <3> QED
      BY <2>1, <3>2, <3>3
  <2>3. CASE origin # None
    BY <1>i, <1>5, <2>3, AnchorIsTime DEF Start, RenderTarget
  <2> QED
    BY <2>2, <2>3
\* What is new is at most the tolerance off.
<1>7. ASSUME NEW i \in Retained(reference'), NEW k \in 1 .. length, pts # None,
             RefAt(reference', i) = Samples(length, pts)[k],
             Abs(i - (Start(pts) + k - 1)) <= Tolerance
      PROVE  Abs(i - (Anchor'.index + RefAt(reference', i) - Anchor'.pts))
               <= Tolerance
  <2>1. pts \in Int /\ k \in Int /\ i \in Int /\ Start(pts) \in Int
    BY <1>1, <1>6, <1>7, RetainedBounds, SizesAssumption
  <2>2. RefAt(reference', i) = pts + k - 1
    BY <1>7 DEF Samples
  <2>3. Anchor'.index + RefAt(reference', i) - Anchor'.pts
          = Start(pts) + k - 1
    BY <1>6, <1>7, <2>1, <2>2
  <2> QED
    BY <1>7, <2>3
\* What was there is where it was.
<1>8. ReferenceKeepsTime'
  <2> SUFFICES ASSUME NEW i \in Retained(reference'),
                      RefAt(reference', i) \notin {Silence, Untimed},
                      staleEnd' = None \/ i >= staleEnd'
               PROVE  Abs(i - (Anchor'.index + RefAt(reference', i)
                                 - Anchor'.pts)) <= Tolerance
    BY DEF ReferenceKeepsTime
  <2>1. CASE /\ i \in Retained(reference)
             /\ RefAt(reference', i) = RefAt(reference, i)
    <3>1. origin # None
      BY <1>i, <2>1 DEF OriginFirst
    <3> QED
      BY <1>i, <1>3, <1>5, <2>1, <3>1 DEF ReferenceKeepsTime
  <2>2. CASE \E k \in 1 .. length :
               /\ RefAt(reference', i) = Samples(length, pts)[k]
               /\ Abs(i - (Start(pts) + k - 1)) <= Tolerance
    <3>1. PICK k \in 1 .. length :
                 /\ RefAt(reference', i) = Samples(length, pts)[k]
                 /\ Abs(i - (Start(pts) + k - 1)) <= Tolerance
      BY <2>2
    <3>2. pts # None
      BY <3>1 DEF Samples
    <3> QED
      BY <1>7, <3>1, <3>2
  <2> QED
    BY <1>2, <2>1, <2>2
<1>9. OriginFirst'
  <2>1. micAnchor' # None => origin' # None
    BY <1>i, <1>3, <1>5 DEF OriginFirst
  <2>2. ASSUME origin' = None, NEW i \in Retained(reference')
        PROVE  RefAt(reference', i) \in {Silence, Untimed}
    <3>1. origin = None /\ pts = None
      BY <1>4, <1>5, <2>2
    <3>2. \A k \in 1 .. length : Samples(length, pts)[k] = Untimed
      BY <3>1 DEF Samples
    <3> QED
      BY <1>i, <1>2, <3>1, <3>2 DEF OriginFirst
  <2> QED
    BY <2>1, <2>2 DEF OriginFirst
<1> QED
  BY <1>8, <1>9

\* The reference only grows: what was fed stays behind its end.
LEMMA SystemSettled ==
  ASSUME IInv, NEW length \in Lengths, NEW pts \in Times \cup {None},
         System(length, pts)
  PROVE  FedIsSettled' /\ BeforeTheFirst'
<1>i. /\ TypeOK /\ OriginFirst /\ BeforeTheFirst /\ FedIsSettled
  BY DEF IInv, ReferenceIsRight
<1>1. Begun(reference')
  BY <1>i, SystemReference
<1>2. reference.end # None => /\ Begun(reference)
                              /\ reference'.end >= reference.end
  BY <1>i, SystemReference
<1>3. reference'.end \in Int /\ reference'.end # None
  BY <1>1, ValuesAssumption DEF Begun
<1>4. ASSUME fedEnd' # None
      PROVE  reference'.end >= fedEnd'
  <2>1. fedEnd' = fedEnd /\ phase = "idle"
    BY DEF System
  <2>2. fedEnd \in Int
    BY <1>i, <1>4, <2>1 DEF TypeOK
  <2>3. reference.end # None /\ reference.end >= fedEnd
    BY <1>i, <1>4, <2>1 DEF FedIsSettled
  <2>4. reference.end \in Int
    BY <1>2, <2>3 DEF Begun
  <2> QED
    BY <1>2, <1>3, <2>1, <2>2, <2>3, <2>4
<1> QED
  BY <1>3, <1>4 DEF FedIsSettled, BeforeTheFirst

-----------------------------------------------------------------------------
(* appendCapture.                                                           *)

\* firstIndex: where the microphone's buffer starts.
First(pts) ==
  CASE micStarted -> pendingStart + pending
    [] ~micStarted /\ pts # None ->
         pts - (IF pts # None /\ origin = None THEN pts ELSE origin)
    [] OTHER -> 0

LEMMA FirstIsIndex ==
  ASSUME TypeOK, NEW pts \in Times \cup {None}
  PROVE  First(pts) \in Int
<1>1. CASE micStarted
  BY <1>1 DEF First, TypeOK
<1>2. CASE ~micStarted /\ pts # None
  BY <1>2, SizesAssumption DEF First, TypeOK
<1>3. CASE ~micStarted /\ pts = None
  BY <1>3 DEF First
<1> QED
  BY <1>1, <1>2, <1>3

\* The reference moves only when the microphone jumps while no frame waits.
LEMMA ShiftIsDistance ==
  ASSUME TypeOK, NEW pts \in Times \cup {None}
  PROVE  /\ MicJump(First(pts), pts) \in Int
         /\ MicJump(First(pts), pts) # 0 =>
              pts # None /\ micAnchor # None /\ arrivals = << >>
<1> DEFINE first == First(pts)
           expected == micAnchor.index + pts - micAnchor.pts
           jumped == /\ pts # None /\ micAnchor # None /\ arrivals = << >>
                     /\ micStarted
                     /\ Abs(expected - first) > Tolerance
           shift == MicJump(first, pts)
<1>1. first \in Int
  BY FirstIsIndex
<1> HIDE DEF first
<1>2. shift = IF jumped THEN first - expected ELSE 0
  BY Zenon DEF MicJump
<1>3. CASE jumped
  <2>1. /\ micAnchor.index \in Int /\ micAnchor.pts \in Int /\ pts \in Int
    BY <1>3, SizesAssumption DEF TypeOK
  <2>2. expected \in Int
    BY <2>1
  <2> HIDE DEF expected
  <2>3. shift \in Int
    BY <1>1, <1>2, <1>3, <2>2
  <2> QED
    BY <1>3, <2>3 DEF first
<1>4. CASE ~ jumped
  <2> HIDE DEF jumped
  <2>1. shift = 0
    BY <1>2, <1>4
  <2> QED
    BY <2>1 DEF first
<1> QED
  BY <1>3, <1>4

\* The step, with its local definitions named.
LEMMA MicrophoneStep ==
  ASSUME TypeOK, NEW length \in Lengths, NEW pts \in Times \cup {None},
         Microphone(length, pts), NEW shift, shift = MicJump(First(pts), pts)
  PROVE  /\ phase = "idle"
         /\ origin' = IF pts # None /\ origin = None THEN pts ELSE origin
         /\ micAnchor' = IF pts = None THEN micAnchor
                           ELSE [pts |-> pts, index |-> First(pts)]
         /\ reference' = Moved(reference, shift)
         /\ fedEnd' = IF fedEnd = None THEN None ELSE fedEnd + shift
         /\ \/ staleEnd' = reference'.end
            \/ /\ staleEnd' = IF staleEnd = None THEN None ELSE staleEnd + shift
               /\ pts # None /\ origin # None =>
                    First(pts) - pts = Anchor.index - Anchor.pts + shift
BY DEF Microphone, First

\* A reference that has not begun does not move.
LEMMA MovedEmpty ==
  ASSUME NEW r, NEW shift, r.end = None
  PROVE  Moved(r, shift) = r
BY DEF Moved

\* Reference and anchor move by the same distance, or what is held is stale.
LEMMA MicrophoneTimes ==
  ASSUME IInv, NEW length \in Lengths, NEW pts \in Times \cup {None},
         Microphone(length, pts)
  PROVE  ReferenceKeepsTime' /\ OriginFirst' /\ BeforeTheFirst'
<1> DEFINE shift == MicJump(First(pts), pts)
           first == First(pts)
<1>i. TypeOK /\ OriginFirst /\ BeforeTheFirst /\ ReferenceKeepsTime
  BY DEF IInv, ReferenceIsRight
<1>1. /\ first \in Int /\ shift \in Int
      /\ shift # 0 => pts # None /\ micAnchor # None /\ arrivals = << >>
  BY <1>i, FirstIsIndex, ShiftIsDistance
<1>2. /\ origin' = IF pts # None /\ origin = None THEN pts ELSE origin
      /\ micAnchor' = IF pts = None THEN micAnchor
                        ELSE [pts |-> pts, index |-> first]
      /\ reference' = Moved(reference, shift)
      /\ \/ staleEnd' = reference'.end
         \/ /\ staleEnd' = IF staleEnd = None THEN None ELSE staleEnd + shift
            /\ pts # None /\ origin # None =>
                 first - pts = Anchor.index - Anchor.pts + shift
  BY <1>i, MicrophoneStep
<1> HIDE DEF shift, first
\* An empty reference stays empty, another one moves as a whole.
<1>3. CASE reference.end = None
  <2>1. reference' = reference
    BY <1>2, <1>3, MovedEmpty
  <2>2. Retained(reference') = {}
    BY <1>3, <2>1 DEF Retained
  <2>3. micAnchor' # None => origin' # None
    BY <1>i, <1>2, SizesAssumption, ValuesAssumption DEF OriginFirst
  <2> QED
    BY <1>i, <2>1, <2>2, <2>3
    DEF ReferenceKeepsTime, OriginFirst, BeforeTheFirst
<1>4. CASE reference.end # None
  <2>1. Begun(reference)
    BY <1>i, <1>4 DEF TypeOK, Begun, Ref
  <2>2. /\ Begun(reference')
        /\ reference'.end = reference.end + shift
        /\ \A i \in Retained(reference') :
             /\ i - shift \in Retained(reference)
             /\ RefAt(reference', i) = RefAt(reference, i - shift)
    BY <1>1, <1>2, <2>1, MovedKeepsSamples
  <2>3. OriginFirst'
    <3>1. micAnchor' # None => origin' # None
      BY <1>i, <1>2, SizesAssumption, ValuesAssumption DEF OriginFirst
    <3>2. origin' = None => origin = None
      BY <1>2
    <3> QED
      BY <1>i, <2>2, <3>1, <3>2 DEF OriginFirst
  <2>4. BeforeTheFirst'
    BY <2>2, ValuesAssumption DEF Begun, BeforeTheFirst
  <2>5. ReferenceKeepsTime'
    <3> SUFFICES ASSUME NEW i \in Retained(reference'),
                        RefAt(reference', i) \notin {Silence, Untimed},
                        staleEnd' = None \/ i >= staleEnd'
                 PROVE  Abs(i - (Anchor'.index + RefAt(reference', i)
                                   - Anchor'.pts)) <= Tolerance
      BY DEF ReferenceKeepsTime
    <3> DEFINE j == i - shift
               t == RefAt(reference, j)
    <3>1. i \in Int /\ i < reference'.end /\ reference'.end \in Int
      BY <2>2, RetainedBounds DEF Begun
    <3>2. j \in Int /\ j \in Retained(reference) /\ RefAt(reference', i) = t
      BY <1>1, <2>2, <3>1
    <3> HIDE DEF t
    <3>3. t \in Int
      BY <2>1, <3>2, RefAtIsContent, ContentIsTime DEF t
    <3>4. origin # None
      BY <1>i, <3>2 DEF OriginFirst, t
    <3>5. Anchor.pts \in Int /\ Anchor.index \in Int
      BY <1>i, <3>4, AnchorIsTime
    <3>6. /\ staleEnd' = IF staleEnd = None THEN None ELSE staleEnd + shift
          /\ pts # None => first - pts = Anchor.index - Anchor.pts + shift
      <4>1. staleEnd' # reference'.end
        BY <3>1, ValuesAssumption
      <4> QED
        BY <1>2, <3>4, <4>1
    <3>7. staleEnd = None \/ j >= staleEnd
      <4>1. CASE staleEnd # None
        <5>1. staleEnd \in Int
          BY <1>i, <4>1 DEF TypeOK
        <5>2. staleEnd' = staleEnd + shift /\ staleEnd' \in Int
          BY <1>1, <3>6, <4>1, <5>1
        <5>3. i >= staleEnd + shift
          BY <5>2, ValuesAssumption
        <5> QED
          BY <1>1, <3>1, <5>1, <5>3
      <4> QED
        BY <4>1
    <3>8. Abs(j - (Anchor.index + t - Anchor.pts)) <= Tolerance
      BY <1>i, <3>2, <3>7 DEF ReferenceKeepsTime, t
    <3>9. Anchor'.index \in Int /\ Anchor'.pts \in Int
          /\ Anchor'.index - Anchor'.pts = Anchor.index - Anchor.pts + shift
      <4>1. CASE pts = None
        <5>1. shift = 0
          BY <1>1, <4>1
        <5>2. Anchor' = Anchor
          BY <1>2, <4>1 DEF Anchor
        <5> QED
          BY <3>5, <5>1, <5>2
      <4>2. CASE pts # None
        <5>1. pts \in Int
          BY <4>2, SizesAssumption
        <5>2. micAnchor' = [pts |-> pts, index |-> first]
          BY <1>2, <4>2
        <5>3. micAnchor' # None
          BY <1>1, <5>1, <5>2, ValuesAssumption
        <5>4. Anchor'.pts = pts /\ Anchor'.index = first
          BY <5>2, <5>3 DEF Anchor
        <5> QED
          BY <1>1, <3>6, <4>2, <5>1, <5>4
      <4> QED
        BY <4>1, <4>2
    <3>10. i - (Anchor'.index + t - Anchor'.pts)
             = j - (Anchor.index + t - Anchor.pts)
      <4> DEFINE index == Anchor.index
                 time == Anchor.pts
                 newIndex == Anchor'.index
                 newTime == Anchor'.pts
      <4>1. /\ index \in Int /\ time \in Int
            /\ newIndex \in Int /\ newTime \in Int
            /\ newIndex - newTime = index - time + shift
        BY <3>5, <3>9
      <4> HIDE DEF index, time, newIndex, newTime
      <4>2. i - (newIndex + t - newTime) = i - shift - (index + t - time)
        BY <1>1, <3>1, <3>3, <4>1
      <4> QED
        BY <4>2 DEF index, time, newIndex, newTime
    <3> QED
      BY <3>2, <3>8, <3>10
  <2> QED
    BY <2>3, <2>4, <2>5
<1> QED
  BY <1>3, <1>4

\* What was fed moves with the reference.
LEMMA MicrophoneSettled ==
  ASSUME IInv, NEW length \in Lengths, NEW pts \in Times \cup {None},
         Microphone(length, pts)
  PROVE  FedIsSettled'
<1> DEFINE shift == MicJump(First(pts), pts)
<1>i. TypeOK /\ FedIsSettled
  BY DEF IInv, ReferenceIsRight
<1>1. shift \in Int
  BY <1>i, ShiftIsDistance
<1>2. /\ reference' = Moved(reference, shift) /\ phase = "idle"
      /\ fedEnd' = IF fedEnd = None THEN None ELSE fedEnd + shift
  BY <1>i, MicrophoneStep
<1> HIDE DEF shift
<1>3. SUFFICES ASSUME fedEnd' # None
               PROVE  reference'.end # None /\ reference'.end >= fedEnd'
  BY DEF FedIsSettled
<1>4. fedEnd # None /\ fedEnd' = fedEnd + shift
  BY <1>2, <1>3
<1>5. reference.end # None /\ reference.end >= fedEnd /\ fedEnd \in Int
  BY <1>i, <1>2, <1>4 DEF FedIsSettled, TypeOK
<1>6. Begun(reference)
  BY <1>i, <1>5 DEF TypeOK, Begun, Ref
<1>7. Begun(reference') /\ reference'.end = reference.end + shift
  BY <1>1, <1>2, <1>6, MovedKeepsSamples
<1> QED
  BY <1>1, <1>4, <1>5, <1>6, <1>7, ValuesAssumption DEF Begun

-----------------------------------------------------------------------------
(* The drain.                                                               *)

\* Which reference a frame needs, and what processing it leaves.
LEMMA NeededIsIndex ==
  ASSUME TypeOK
  PROVE  Needed \in Int /\ pendingStart \in Int
BY SizesAssumption DEF TypeOK, Needed

LEMMA ProcessTypes ==
  ASSUME TypeOK, NEW start \in Int, Process(start)
  PROVE  /\ lead' \in LeadRange /\ failed' \in BOOLEAN
         /\ fedEnd' \in Int \cup {None}
<1>1. lead \in LeadRange /\ failed \in BOOLEAN /\ fedEnd \in Int \cup {None}
  BY DEF TypeOK
<1>2. lead \in Int /\ start + lead + FrameSize \in Int
  BY <1>1, SizesAssumption
<1>3. CASE failed /\ UNCHANGED <<lead, failed, fedEnd>>
  BY <1>1, <1>3
<1>4. CASE /\ ~failed /\ fedEnd' = start + lead + FrameSize
           /\ \E lock \in Locks \cup {None} :
                lead' = Retargeted(lock) /\ UNCHANGED failed
  BY <1>1, <1>2, <1>4, RetargetedInRange
<1>5. CASE /\ ~failed /\ fedEnd' = start + lead + FrameSize
           /\ failed' = TRUE /\ UNCHANGED lead
  BY <1>1, <1>2, <1>5
<1> QED
  BY <1>3, <1>4, <1>5 DEF Process

\* A frame is released with its reference complete or owed as silence, so what
\* is fed is behind the end.
LEMMA DrainFrameRight ==
  ASSUME IInv, DrainFrame
  PROVE  /\ reference' \in Ref
         /\ BeforeTheFirst' /\ OriginFirst' /\ ReferenceKeepsTime'
         /\ FedIsSettled'
<1>i. /\ TypeOK /\ OriginFirst /\ BeforeTheFirst /\ ReferenceKeepsTime
      /\ FedIsSettled /\ reference \in Ref
  BY DEF IInv, ReferenceIsRight, TypeOK
<1>1. UNCHANGED <<origin, micAnchor, staleEnd, phase>>
      /\ Process(pendingStart) /\ phase = "draining"
  BY DEF DrainFrame, Release
<1>2. Anchor' = Anchor
  BY <1>1 DEF Anchor
<1>3. Needed \in Int /\ pendingStart \in Int
  BY <1>i, NeededIsIndex
<1>4. \/ failed /\ fedEnd' = fedEnd
      \/ ~failed /\ fedEnd' = Needed
  BY <1>1 DEF Process, Needed
<1>5. CASE reference' = reference /\ (failed \/ Arrived)
  <2>1. FedIsSettled'
    <3>1. CASE failed
      BY <1>i, <1>1, <1>4, <1>5, <3>1 DEF FedIsSettled
    <3>2. CASE ~failed
      BY <1>1, <1>4, <1>5, <3>2 DEF FedIsSettled, Arrived
    <3> QED
      BY <3>1, <3>2
  <2> QED
    BY <1>i, <1>1, <1>2, <1>5, <2>1
    DEF OriginFirst, BeforeTheFirst, ReferenceKeepsTime
<1>6. CASE reference' = Owed(reference, Needed) /\ ~failed
  <2>0. fedEnd' = Needed
    BY <1>4, <1>6
  <2>1. CASE reference.end = None
    <3> DEFINE end == Needed
    <3>1. reference' = [reference EXCEPT !.end = end]
      BY <1>6, <2>1 DEF Owed
    <3>2. end \in Int
      BY <1>3
    <3> HIDE DEF end
    <3>3. Begun(reference') /\ reference'.end = end /\ reference'.count = 0
      BY <1>i, <2>1, <3>1, <3>2 DEF BeforeTheFirst, Begun, Ref
    <3>4. Retained(reference') = {}
      <4>1. Retained(reference')
              = reference'.end - reference'.count .. reference'.end - 1
        BY <3>3, RetainedOf
      <4> QED
        BY <3>2, <3>3, <4>1
    <3>5. reference'.end # None /\ reference'.end >= Needed
      BY <3>2, <3>3, ValuesAssumption DEF end
    <3> QED
      BY <1>i, <1>1, <2>0, <3>3, <3>4, <3>5
      DEF OriginFirst, BeforeTheFirst, ReferenceKeepsTime, FedIsSettled, Begun
  <2>2. CASE reference.end # None
    <3>1. Begun(reference)
      BY <1>i, <2>2 DEF Begun, Ref
    <3>2. /\ Begun(reference') /\ reference'.end >= Needed
          /\ Keeps(reference', reference)
          /\ \A i \in Retained(reference') :
               i >= reference.end => RefAt(reference', i) = Silence
      BY <1>3, <1>6, <3>1, OwedIsSilence
    <3>3. \A i \in Retained(reference') :
            \/ RefAt(reference', i) = Silence
            \/ /\ i \in Retained(reference)
               /\ RefAt(reference', i) = RefAt(reference, i)
      <4>1. \A i \in Retained(reference') : i \in Int
        BY <3>2, RetainedBounds
      <4>2. \A i \in Retained(reference') :
              i < reference.end \/ i >= reference.end
        BY <3>1, <4>1 DEF Begun
      <4> QED
        BY <3>2, <4>2 DEF Keeps
    <3>4. reference'.end # None
      BY <3>2, ValuesAssumption DEF Begun
    <3>5. ReferenceKeepsTime'
      BY <1>i, <1>1, <1>2, <3>3 DEF ReferenceKeepsTime
    <3>6. OriginFirst'
      BY <1>i, <1>1, <3>3 DEF OriginFirst
    <3> QED
      BY <2>0, <3>2, <3>4, <3>5, <3>6 DEF BeforeTheFirst, FedIsSettled, Begun
  <2> QED
    BY <2>1, <2>2
<1> QED
  BY <1>5, <1>6 DEF DrainFrame

-----------------------------------------------------------------------------
(* Types.                                                                   *)

\* What counts the microphone's samples.
LEMMA FramesReleased ==
  ASSUME TypeOK, arrivals # << >>, Release
  PROVE  /\ pending' \in Nat /\ pendingStart' \in Int
         /\ arrivals' \in Seq(0 .. MaxHold)
         /\ Len(arrivals') = pending' \div FrameSize
<1>1. /\ pending \in Nat /\ pendingStart \in Int
      /\ arrivals \in Seq(0 .. MaxHold)
      /\ Len(arrivals) = pending \div FrameSize
      /\ FrameSize \in Nat \ {0}
  BY SizesAssumption DEF TypeOK
<1>2. Tail(arrivals) \in Seq(0 .. MaxHold)
      /\ Len(Tail(arrivals)) = Len(arrivals) - 1 /\ Len(arrivals) >= 1
  BY <1>1
<1>3. pending >= FrameSize
  BY <1>1, <1>2
<1>4. (pending - FrameSize) \div FrameSize = (pending \div FrameSize) - 1
  BY <1>1
<1> QED
  BY <1>1, <1>2, <1>3, <1>4 DEF Release

LEMMA FramesArrived ==
  ASSUME NEW F \in Nat \ {0}, NEW p \in Nat, NEW n \in Nat
  PROVE  /\ p \div F \in Nat /\ (p + n) \div F \in Nat
         /\ (p + n) \div F - (p \div F) \in Nat
<1> DEFINE a == p \div F
           b == (p + n) \div F
           c == p % F
           d == (p + n) % F
<1>1. /\ a \in Int /\ c \in 0 .. F - 1 /\ p = F * a + c
  OBVIOUS
<1>2. /\ b \in Int /\ d \in 0 .. F - 1 /\ p + n = F * b + d
  OBVIOUS
<1> HIDE DEF a, b, c, d
<1>3. a >= 0
  <2> SUFFICES ASSUME a <= -1
               PROVE  FALSE
    BY <1>1
  <2>1. F * a <= -F
    BY <1>1
  <2> QED
    BY <1>1, <2>1
<1>4. b >= a
  <2> SUFFICES ASSUME b <= a - 1
               PROVE  FALSE
    BY <1>1, <1>2
  <2>1. F * (a - b) >= F
    BY <1>1, <1>2
  <2>2. F * (a - b) = F * a - F * b /\ F * a \in Int /\ F * b \in Int
    BY <1>1, <1>2
  <2> QED
    BY <1>1, <1>2, <2>1, <2>2
<1> QED
  BY <1>1, <1>2, <1>3, <1>4 DEF a, b

LEMMA JoinedSequences ==
  ASSUME NEW S, NEW s \in Seq(S), NEW t \in Seq(S)
  PROVE  s \o t \in Seq(S) /\ Len(s \o t) = Len(s) + Len(t)
OBVIOUS

LEMMA MicrophoneTypes ==
  ASSUME TypeOK, NEW length \in Lengths, NEW pts \in Times \cup {None},
         Microphone(length, pts)
  PROVE  TypeOK'
<1> DEFINE shift == MicJump(First(pts), pts)
           first == First(pts)
           complete == (pending + length) \div FrameSize - pending \div FrameSize
           new == [k \in 1 .. complete |-> 0]
<1>1. first \in Int /\ shift \in Int
  BY FirstIsIndex, ShiftIsDistance
<1>2. /\ origin' = IF pts # None /\ origin = None THEN pts ELSE origin
      /\ micAnchor' = IF pts = None THEN micAnchor
                        ELSE [pts |-> pts, index |-> first]
      /\ reference' = Moved(reference, shift)
      /\ fedEnd' = IF fedEnd = None THEN None ELSE fedEnd + shift
      /\ \/ staleEnd' = reference'.end
         \/ staleEnd' = IF staleEnd = None THEN None ELSE staleEnd + shift
  BY MicrophoneStep
<1>3. /\ micStarted' = TRUE
      /\ pendingStart' = IF micStarted THEN pendingStart ELSE first
      /\ pending' = pending + length
      /\ arrivals' = arrivals \o new
      /\ phase' = "draining" /\ UNCHANGED <<lead, failed>>
  BY DEF Microphone, First
<1>4. /\ arrivals' \in Seq(0 .. MaxHold)
      /\ Len(arrivals') = pending' \div FrameSize
  <2>1. /\ pending \in Nat /\ length \in Nat /\ FrameSize \in Nat \ {0}
        /\ arrivals \in Seq(0 .. MaxHold) /\ MaxHold \in Nat
        /\ Len(arrivals) = pending \div FrameSize
    BY SizesAssumption DEF TypeOK
  <2>2. complete \in Nat /\ pending \div FrameSize \in Nat
        /\ (pending + length) \div FrameSize \in Nat
    BY <2>1, FramesArrived
  <2>3. complete + Len(arrivals) = (pending + length) \div FrameSize
    BY <2>1, <2>2
  <2> HIDE DEF complete
  <2>4. new \in Seq(0 .. MaxHold) /\ Len(new) = complete
    BY <2>1, <2>2
  <2> HIDE DEF new
  <2>5. /\ arrivals \o new \in Seq(0 .. MaxHold)
        /\ Len(arrivals \o new) = Len(arrivals) + Len(new)
    BY <2>1, <2>4, JoinedSequences
  <2>6. Len(arrivals) \in Nat
    BY <2>1
  <2> QED
    BY <1>3, <2>2, <2>3, <2>4, <2>5, <2>6
<1> HIDE DEF shift, first
<1>5. reference' \in Ref
  <2>1. CASE reference.end = None
    BY <1>2, <2>1, MovedEmpty DEF TypeOK
  <2>2. CASE reference.end # None
    <3>1. Begun(reference)
      BY <2>2 DEF TypeOK, Begun, Ref
    <3>2. Begun(reference')
      BY <1>1, <1>2, <3>1, MovedKeepsSamples
    <3> QED
      BY <3>2 DEF Begun
  <2> QED
    BY <2>1, <2>2
<1>6. origin' \in Times \cup {None}
  BY <1>2 DEF TypeOK
<1>7. micAnchor' = None \/ micAnchor' \in [pts : Times, index : Int]
  BY <1>1, <1>2 DEF TypeOK
<1>8. fedEnd' \in Int \cup {None} /\ staleEnd' \in Int \cup {None}
  <2>1. reference'.end \in Int \cup {None}
    BY <1>5 DEF Ref
  <2> QED
    BY <1>1, <1>2, <2>1 DEF TypeOK
<1>9. pending' \in Nat /\ pendingStart' \in Int
  BY <1>1, <1>3, SizesAssumption DEF TypeOK
<1> QED
  BY <1>3, <1>4, <1>5, <1>6, <1>7, <1>8, <1>9 DEF TypeOK

LEMMA SystemTypes ==
  ASSUME IInv, NEW length \in Lengths, NEW pts \in Times \cup {None},
         System(length, pts)
  PROVE  TypeOK'
<1>i. TypeOK /\ OriginFirst /\ BeforeTheFirst
  BY DEF IInv, ReferenceIsRight
<1>1. reference' \in Ref
  BY <1>i, SystemReference DEF Begun
<1>2. /\ origin' = IF pts # None /\ origin = None THEN pts ELSE origin
      /\ phase' = "draining"
      /\ UNCHANGED <<micAnchor, micStarted, pending, pendingStart, arrivals,
                     lead, failed, fedEnd, staleEnd>>
  BY DEF System
<1> QED
  BY <1>i, <1>1, <1>2 DEF TypeOK

LEMMA TickTypes ==
  ASSUME TypeOK, Tick
  PROVE  TypeOK'
<1>1. /\ arrivals' = [k \in DOMAIN arrivals |->
                        IF arrivals[k] < MaxHold THEN arrivals[k] + 1
                                                 ELSE MaxHold]
      /\ UNCHANGED <<origin, micAnchor, micStarted, pending, pendingStart,
                     reference, lead, failed, phase, fedEnd, staleEnd>>
  BY DEF Tick
<1>2. /\ arrivals \in Seq(0 .. MaxHold) /\ Len(arrivals) = pending \div FrameSize
      /\ MaxHold \in Nat
  BY SizesAssumption DEF TypeOK
<1>3. arrivals' \in Seq(0 .. MaxHold) /\ Len(arrivals') = Len(arrivals)
  <2>1. DOMAIN arrivals = 1 .. Len(arrivals) /\ Len(arrivals) \in Nat
    BY <1>2
  <2>2. \A k \in DOMAIN arrivals :
          (IF arrivals[k] < MaxHold THEN arrivals[k] + 1 ELSE MaxHold)
             \in 0 .. MaxHold
    BY <1>2
  <2> QED
    BY <1>1, <2>1, <2>2
<1> QED
  BY <1>1, <1>2, <1>3 DEF TypeOK

LEMMA ReleaseTypes ==
  ASSUME TypeOK, arrivals # << >>, Release, UNCHANGED phase, reference' \in Ref
  PROVE  TypeOK'
<1>1. /\ pending' \in Nat /\ pendingStart' \in Int
      /\ arrivals' \in Seq(0 .. MaxHold)
      /\ Len(arrivals') = pending' \div FrameSize
  BY FramesReleased
<1>2. pendingStart \in Int /\ Process(pendingStart)
  BY DEF Release, TypeOK
<1>3. /\ lead' \in LeadRange /\ failed' \in BOOLEAN
      /\ fedEnd' \in Int \cup {None}
  BY <1>2, ProcessTypes
<1>4. UNCHANGED <<origin, micAnchor, micStarted, staleEnd, phase>>
  BY DEF Release
<1> QED
  BY <1>1, <1>3, <1>4 DEF TypeOK

LEMMA FlushEndTypes ==
  ASSUME TypeOK, FlushEnd
  PROVE  TypeOK'
<1>1. /\ pending' = 0 /\ pendingStart' = pendingStart + pending
      /\ phase' = "finished" /\ arrivals = << >>
      /\ UNCHANGED <<origin, micAnchor, micStarted, arrivals, reference,
                     staleEnd>>
  BY DEF FlushEnd
<1>2. pendingStart \in Int /\ pending \in Nat
  BY DEF TypeOK
<1>3. /\ lead' \in LeadRange /\ failed' \in BOOLEAN
      /\ fedEnd' \in Int \cup {None}
  <2>1. CASE Process(pendingStart)
    BY <1>2, <2>1, ProcessTypes
  <2>2. CASE UNCHANGED <<lead, failed, fedEnd>>
    BY <2>2 DEF TypeOK
  <2> QED
    BY <2>1, <2>2 DEF FlushEnd
<1>4. arrivals' \in Seq(0 .. MaxHold) /\ Len(arrivals') = 0 \div FrameSize
  BY <1>1, SizesAssumption DEF TypeOK
<1>5. pending' \in Nat /\ pendingStart' \in Int
  BY <1>1, <1>2
<1> QED
  BY <1>1, <1>3, <1>4, <1>5 DEF TypeOK

-----------------------------------------------------------------------------
(* The invariant is inductive.                                              *)

\* The empty ring holds nothing that could be wrong.
LEMMA StartsRight == Init => IInv
<1> SUFFICES ASSUME Init
             PROVE  IInv
  OBVIOUS
<1> DEFINE ring == [s \in 0 .. Capacity - 1 |-> Silence]
<1>1. ring \in [0 .. Capacity - 1 -> Content]
  BY DEF Content
<1> HIDE DEF ring
<1>2. reference = [ring |-> ring, end |-> None, count |-> 0, offset |-> 0]
  BY DEF Init, ring
<1>3. reference \in Ref /\ reference.end = None /\ reference.count = 0
  BY <1>1, <1>2, CapacityIsPositive DEF Ref
<1>4. Retained(reference) = {}
  BY <1>3 DEF Retained
<1>5. << >> \in Seq(0 .. MaxHold) /\ Len(<< >>) = 0 \div FrameSize
  BY SizesAssumption
<1>6. TypeOK
  BY <1>3, <1>5, SizesAssumption DEF Init, TypeOK
<1> QED
  BY <1>3, <1>4, <1>6
  DEF Init, IInv, ReferenceIsRight, BeforeTheFirst, OriginFirst,
      ReferenceKeepsTime, FedIsSettled

\* A step that leaves the reference and what places it alone.
LEMMA ReferenceUntouched ==
  ASSUME IInv, TypeOK', UNCHANGED <<reference, origin, micAnchor, staleEnd>>,
         \/ UNCHANGED fedEnd /\ phase \in {"idle", "draining"}
         \/ phase' \notin {"idle", "draining"}
         \/ UNCHANGED <<fedEnd, phase>>
  PROVE  IInv'
BY DEF IInv, ReferenceIsRight, BeforeTheFirst, OriginFirst, ReferenceKeepsTime,
       FedIsSettled, Anchor

\* One step for each action.
LEMMA StaysRight == IInv /\ [Next]_vars => IInv'
<1> SUFFICES ASSUME IInv, [Next]_vars
             PROVE  IInv'
  OBVIOUS
<1>i. TypeOK
  BY DEF IInv, ReferenceIsRight
<1>1. ASSUME NEW length \in Lengths, NEW pts \in Times \cup {None},
             System(length, pts)
      PROVE  IInv'
  BY <1>1, SystemTimes, SystemSettled, SystemTypes DEF IInv, ReferenceIsRight
<1>2. ASSUME NEW length \in Lengths, NEW pts \in Times \cup {None},
             Microphone(length, pts)
      PROVE  IInv'
  BY <1>i, <1>2, MicrophoneTimes, MicrophoneSettled, MicrophoneTypes
  DEF IInv, ReferenceIsRight
<1>3. CASE Poll
  <2>1. TypeOK'
    BY <1>i, <1>3 DEF Poll, mic, TypeOK
  <2> QED
    BY <1>3, <2>1, ReferenceUntouched DEF Poll, mic
<1>4. CASE Tick
  <2>1. TypeOK'
    BY <1>i, <1>4, TickTypes
  <2> QED
    BY <1>4, <2>1, ReferenceUntouched DEF Tick
<1>5. CASE DrainFrame
  <2>1. reference' \in Ref /\ BeforeTheFirst' /\ OriginFirst'
        /\ ReferenceKeepsTime' /\ FedIsSettled'
    BY <1>5, DrainFrameRight
  <2>2. TypeOK'
    BY <1>i, <1>5, <2>1, ReleaseTypes DEF DrainFrame
  <2> QED
    BY <2>1, <2>2 DEF IInv, ReferenceIsRight
<1>6. CASE DrainEnd
  <2>1. TypeOK'
    BY <1>i, <1>6 DEF DrainEnd, mic, TypeOK
  <2> QED
    BY <1>6, <2>1, ReferenceUntouched DEF DrainEnd, mic
<1>7. CASE Finish
  <2>1. TypeOK'
    BY <1>i, <1>7 DEF Finish, mic, TypeOK
  <2> QED
    BY <1>7, <2>1, ReferenceUntouched DEF Finish, mic
<1>8. CASE FlushFrame
  <2>1. reference' \in Ref
    BY <1>i, <1>8 DEF FlushFrame, TypeOK
  <2>2. TypeOK'
    BY <1>i, <1>8, <2>1, ReleaseTypes DEF FlushFrame
  <2> QED
    BY <1>8, <2>2, ReferenceUntouched DEF FlushFrame, Release
<1>9. CASE FlushEnd
  <2>1. TypeOK'
    BY <1>i, <1>9, FlushEndTypes
  <2> QED
    BY <1>9, <2>1, ReferenceUntouched DEF FlushEnd
<1>10. CASE UNCHANGED vars
  <2>1. TypeOK'
    BY <1>i, <1>10 DEF vars, mic, TypeOK
  <2> QED
    BY <1>10, <2>1, ReferenceUntouched DEF vars, mic
<1> QED
  BY <1>1, <1>2, <1>3, <1>4, <1>5, <1>6, <1>7, <1>8, <1>9, <1>10
  DEF Next, Input, Drain, Flush

\* ReferenceIsRight and what makes it inductive, in every reachable state.
THEOREM AlignerInvariant == Spec => []IInv
BY StartsRight, StaysRight, PTL DEF Spec

\* System audio lies where the microphone's host times put its echo, within the
\* tolerance, and reference that was fed is never revised: after any order of
\* buffers, gaps, overlaps, jumps and holds that ran out, and with a ring that
\* wrapped any number of times (appendRender, appendCapture, oweRender, drain).
\* What a contradicted host time had placed is excepted, see staleEnd.
THEOREM ReferenceStaysRight == Spec => []ReferenceIsRight
<1>1. IInv => ReferenceIsRight
  BY DEF IInv
<1> QED
  BY <1>1, AlignerInvariant, PTL

-----------------------------------------------------------------------------
(* What a waiting frame will be paired with.                                *)

\* No reference that is held before and after the step changes in it.
Unheard ==
  \A i \in Retained(reference) \cap Retained(reference') :
    RefAt(reference', i) = RefAt(reference, i)

\* Reference that was kept, that is not there, or that did not change.
LEMMA KeptIsUnheard ==
  ASSUME Begun(reference), Begun(reference'), Keeps(reference', reference)
  PROVE  Unheard
<1> SUFFICES ASSUME NEW i \in Retained(reference),
                    i \in Retained(reference')
             PROVE  RefAt(reference', i) = RefAt(reference, i)
  BY DEF Unheard
<1>1. i < reference.end
  BY RetainedBounds
<1> QED
  BY <1>1 DEF Keeps

LEMMA EmptyIsUnheard ==
  ASSUME reference.end = None
  PROVE  Unheard
BY DEF Unheard, Retained

LEMMA SameIsUnheard ==
  ASSUME reference' = reference
  PROVE  Unheard
BY DEF Unheard

\* System audio and silence only follow what is there; a jump of the microphone
\* moves the reference only when nothing waits.
LEMMA WaitingStep ==
  IInv /\ [Next]_vars => (arrivals # << >> => Unheard)
<1> SUFFICES ASSUME IInv, [Next]_vars, arrivals # << >>
             PROVE  Unheard
  OBVIOUS
<1>i. TypeOK /\ OriginFirst /\ BeforeTheFirst
  BY DEF IInv, ReferenceIsRight
<1>b. reference.end # None => Begun(reference)
  BY <1>i DEF TypeOK, Begun, Ref
<1>1. ASSUME NEW length \in Lengths, NEW pts \in Times \cup {None},
             System(length, pts)
      PROVE  Unheard
  <2>1. CASE reference.end = None
    BY <2>1, EmptyIsUnheard
  <2>2. CASE reference.end # None
    <3>1. Begun(reference) /\ Begun(reference') /\ Keeps(reference', reference)
      BY <1>i, <1>1, <2>2, SystemReference
    <3> QED
      BY <3>1, KeptIsUnheard
  <2> QED
    BY <2>1, <2>2
\* The arrivals.isEmpty guard: nothing moves.
<1>2. ASSUME NEW length \in Lengths, NEW pts \in Times \cup {None},
             Microphone(length, pts)
      PROVE  Unheard
  <2> DEFINE shift == MicJump(First(pts), pts)
  <2>1. shift = 0
    BY <1>i, ShiftIsDistance
  <2>2. reference' = Moved(reference, shift)
    BY <1>i, <1>2, MicrophoneStep
  <2> HIDE DEF shift
  <2>3. CASE reference.end = None
    BY <2>3, EmptyIsUnheard
  <2>4. CASE reference.end # None
    <3>1. \A i \in Retained(reference') :
            RefAt(reference', i) = RefAt(reference, i - shift)
      BY <1>b, <2>1, <2>2, <2>4, MovedKeepsSamples
    <3>2. \A i \in Retained(reference) : i \in Int
      BY <1>b, <2>4, RetainedBounds
    <3>3. \A i \in Retained(reference) : i - shift = i
      BY <2>1, <3>2
    <3> QED
      BY <3>1, <3>3 DEF Unheard
  <2> QED
    BY <2>3, <2>4
<1>3. CASE DrainFrame
  <2>1. reference' = reference \/ reference' = Owed(reference, Needed)
    BY <1>3 DEF DrainFrame
  <2>2. CASE reference' = Owed(reference, Needed) /\ reference.end # None
    <3>1. Needed \in Int
      BY <1>i, NeededIsIndex
    <3>2. Begun(reference') /\ Keeps(reference', reference)
      BY <1>b, <2>2, <3>1, OwedIsSilence
    <3> QED
      BY <1>b, <2>2, <3>2, KeptIsUnheard
  <2> QED
    BY <2>1, <2>2, EmptyIsUnheard, SameIsUnheard
<1>4. CASE \/ Poll \/ Tick \/ DrainEnd \/ Finish \/ FlushFrame \/ FlushEnd
           \/ UNCHANGED vars
  BY <1>4, SameIsUnheard
  DEF Poll, Tick, DrainEnd, Finish, FlushFrame, FlushEnd, vars
<1> QED
  BY <1>1, <1>2, <1>3, <1>4 DEF Next, Input, Drain, Flush

\* As long as a complete microphone frame waits, the reference it will be paired
\* with can be added to but not altered: a jump of the microphone's clock moves
\* the reference only under the arrivals.isEmpty guard of appendCapture.
THEOREM WaitingKeepReference == Spec => WaitingFramesKeepTheirReference
<1>1. IInv /\ [Next]_vars
        => [arrivals # << >> =>
              \A i \in Retained(reference) \cap Retained(reference') :
                RefAt(reference', i) = RefAt(reference, i)]_vars
  BY WaitingStep DEF Unheard
<1> QED
  BY <1>1, AlignerInvariant, PTL DEF Spec, WaitingFramesKeepTheirReference
=============================================================================
