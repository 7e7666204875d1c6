--------------------------- MODULE ByteRangesProofs ---------------------------
(***************************************************************************)
(* What the helpers of ByteRanges and SectionLayout return, for words of   *)
(* any width.                                                              *)
(***************************************************************************)
EXTENDS SectionLayout, Numpy, WellFoundedInduction, TLAPS

\* checkedAdd returns the integer sum, and only one the word holds.
LEMMA CheckedAddLemma ==
  ASSUME NEW m \in U64, NEW n \in U64, NEW sum \in checkedAdd(m, n)
  PROVE  sum = m + n /\ sum \in U64
BY WordAssumption DEF checkedAdd, U64

\* checkedMul returns the integer product.
LEMMA CheckedMulLemma ==
  ASSUME NEW m \in Nat, NEW n \in Nat, NEW product \in checkedMul(m, n)
  PROVE  product = m * n
BY DEF checkedMul

\* checkedAlignUp to the 8 bytes of the constants' payload returns the
\* multiple of 8 that size is padded to.
LEMMA AlignUpLemma ==
  ASSUME NEW size \in U64, NEW padded \in checkedAlignUp(size, 8)
  PROVE  /\ padded \in size .. size + 7
         /\ padded % 8 = 0
         /\ padded \in U64
<1>1. PICK rounded \in checkedAdd(size, 7) : padded = (rounded \div 8) * 8
  BY DEF checkedAlignUp
<1>2. rounded = size + 7 /\ rounded <= U64Max
  BY <1>1, WordAssumption DEF checkedAdd, U64
<1>3. QED
  BY <1>1, <1>2, WordAssumption DEF U64

\* appendAlignedByteRange puts the entry at the end of the payload and moves
\* the end past it, to a multiple of 8 when it was at one.
LEMMA AppendLemma ==
  ASSUME NEW size \in U64, NEW end \in U64, end % 8 = 0,
         NEW placed \in appendAlignedByteRange(size, 8, end)
  PROVE  /\ placed.range = [offset |-> end, size |-> size]
         /\ placed.paddedSize \in size .. size + 7
         /\ placed.paddedSize \in U64
         /\ placed.payloadSize = end + placed.paddedSize
         /\ placed.payloadSize \in U64
         /\ placed.payloadSize % 8 = 0
<1>1. PICK padded \in checkedAlignUp(size, 8) :
        /\ checkedAdd(end, padded) # {}
        /\ placed = [range |-> [offset |-> end, size |-> size],
                     paddedSize |-> padded, payloadSize |-> end + padded]
  BY DEF appendAlignedByteRange
<1>2. padded \in size .. size + 7 /\ padded % 8 = 0 /\ padded \in U64
  BY AlignUpLemma
<1>3. end + padded \in U64
  BY <1>1, <1>2, WordAssumption DEF checkedAdd, U64
<1>4. (end + padded) % 8 = 0
  BY <1>2, WordAssumption DEF U64
<1>5. QED
  BY <1>1, <1>2, <1>3, <1>4

\* splitFixedRecordTable puts the payload right after the records, and both
\* in the section.
LEMMA SplitLemma ==
  ASSUME NEW sectionSize \in U64, NEW offset \in U64, NEW recordSize \in Nat, NEW count \in U64,
         NEW layout \in splitFixedRecordTable(sectionSize, offset, recordSize, count)
  PROVE  /\ layout.payload.offset = offset + count * recordSize
         /\ layout.payload.offset <= sectionSize
         /\ layout.payload.size = sectionSize - layout.payload.offset
         /\ layout.payload.offset \in U64
         /\ byteRangeCanBeAddressed(layout.payload)
<1> DEFINE Split(recordsSize, p) == TableLayout(sectionSize, offset, recordsSize, p)
<1>0. ~(recordSize = 0 \/ offset > sectionSize
          \/ count > (sectionSize - offset) \div recordSize)
  BY DEF splitFixedRecordTable
<1>1. PICK recordsSize \in checkedMul(count, recordSize) :
        layout \in { Split(recordsSize, payloadOffset) :
                       payloadOffset \in { p \in checkedAdd(offset, recordsSize) :
                            /\ p <= sectionSize
                            /\ byteRangeCanBeAddressed(Split(recordsSize, p).records)
                            /\ byteRangeCanBeAddressed(Split(recordsSize, p).payload) } }
  BY <1>0 DEF splitFixedRecordTable
<1>2. PICK p \in checkedAdd(offset, recordsSize) :
        /\ layout = Split(recordsSize, p)
        /\ p <= sectionSize
        /\ byteRangeCanBeAddressed(Split(recordsSize, p).payload)
  BY <1>1
<1>3. recordsSize = count * recordSize
  BY <1>1, CheckedMulLemma, WordAssumption DEF U64
<1>4. p = offset + recordsSize
  BY <1>2 DEF checkedAdd
<1>5. p \in U64
  BY <1>2, <1>3, <1>4, WordAssumption DEF U64
<1>6. layout.payload = [offset |-> p, size |-> sectionSize - p]
  BY <1>2 DEF TableLayout
<1>7. QED
  BY <1>2, <1>3, <1>4, <1>5, <1>6

--------------------------------------------------------------------------------
\* A multiple of the alignment is aligned.
LEMMA MultipleLemma ==
  ASSUME NEW q \in Int, NEW a \in Nat \ {0}
  PROVE  (q * a) % a = 0
OBVIOUS

\* Quotient and remainder, for any divisor.
LEMMA DivLemma ==
  ASSUME NEW n \in Int, NEW a \in Nat \ {0}
  PROVE  /\ n % a \in 0 .. a - 1
         /\ n \div a \in Int
         /\ n = (n \div a) * a + (n % a)
OBVIOUS

\* UpdatePadding pads to the next multiple of the next section's alignment,
\* by less than that: at 0, where EndOfData() - 1 wraps, by nothing.
LEMMA PaddingLemma ==
  ASSUME NEW a \in U64 \ {0}, (U64Max + 1) % a = 0, NEW end \in U64
  PROVE  /\ PaddingBefore(a, end) \in 0 .. a - 1
         /\ (end + PaddingBefore(a, end)) % a = 0
<1>1. U64Max \in Nat /\ a \in Nat \ {0} /\ end \in Nat /\ end <= U64Max
  BY WordAssumption DEF U64
<1> DEFINE last == Wrap(end - 1)
<1>2. PICK q \in Int, r \in 0 .. a - 1 : end - 1 = q * a + r /\ last % a = r
  <2>1. CASE end = 0
    <3>1. last = U64Max
      BY <1>1, <2>1 DEF Wrap
    <3>2. PICK m \in Int : U64Max + 1 = m * a
      <4>1. /\ (U64Max + 1) \div a \in Int
            /\ U64Max + 1 = ((U64Max + 1) \div a) * a + ((U64Max + 1) % a)
        BY <1>1, DivLemma
      <4>2. QED
        BY <1>1, <4>1
    <3>3. U64Max = (m - 1) * a + (a - 1)
      BY <1>1, <3>2
    <3>4. U64Max % a = a - 1
      BY <1>1, <3>3
    <3>5. end - 1 = (-1) * a + (a - 1)
      BY <1>1, <2>1
    <3>6. QED
      BY <1>1, <3>1, <3>4, <3>5
  <2>2. CASE end # 0
    <3>1. last = end - 1
      BY <1>1, <2>2 DEF Wrap
    <3>2. QED
      <4>1. /\ (end - 1) % a \in 0 .. a - 1
            /\ (end - 1) \div a \in Int
            /\ end - 1 = ((end - 1) \div a) * a + ((end - 1) % a)
        BY <1>1, <2>2, DivLemma
      <4>2. QED
        BY <3>1, <4>1
  <2>3. QED
    BY <2>1, <2>2
<1>3. PaddingBefore(a, end) = a - (r + 1)
  BY <1>2 DEF PaddingBefore
<1>4. end + PaddingBefore(a, end) = (q + 1) * a
  BY <1>1, <1>2, <1>3
<1>5. QED
  BY <1>1, <1>2, <1>3, <1>4, MultipleLemma

--------------------------------------------------------------------------------
\* What holds of 0, and of a number's successor when it holds of the number,
\* holds of them all: the library's theorem on well-founded relations, for
\* a set in place of a predicate.
LEMMA SetInduction ==
  ASSUME NEW S, 0 \in S, \A n \in Nat : n \in S => n + 1 \in S
  PROVE  Nat \subseteq S
<1> DEFINE T == Nat \ S
           R == {ss \in Nat \X Nat : ss[1] < ss[2]}
<1>1. SUFFICES ASSUME T # {} PROVE FALSE
  OBVIOUS
<1>2. IsWellFoundedOn(R, Nat)
  BY NatLessThanWellFounded DEF OpToRel
<1> HIDE DEF R
<1>3. PICK m \in T : \A n \in T : ~(<<n, m>> \in R)
  BY <1>1, <1>2, WFMin
<1>4. m - 1 \in Nat /\ m \in Nat /\ m - 1 \notin S
  BY <1>3
<1>5. <<m - 1, m>> \in R
  BY <1>4 DEF R
<1>6. QED
  BY <1>3, <1>4, <1>5

\* The greatest element of a set that has the bound of its elements.
LEMMA MaxLemma ==
  ASSUME NEW k \in Nat, NEW s \in SUBSET (1 .. k + 1), k + 1 \in s
  PROVE  Max(s) = k + 1
<1>1. k + 1 \in s /\ \A y \in s : k + 1 >= y
  OBVIOUS
<1>2. Max(s) \in s /\ \A y \in s : Max(s) >= y
  BY <1>1, Zenon DEF Max
<1>3. Max(s) \in 1 .. k + 1 /\ Max(s) >= k + 1
  BY <1>2
<1>4. QED
  BY <1>3

\* A set of natural numbers below a bound has a greatest element.
LEMMA MaxInSet ==
  ASSUME NEW n \in Nat, NEW s \in SUBSET (1 .. n), s # {}
  PROVE  Max(s) \in s
<1> DEFINE S == {k \in Nat : \A t \in SUBSET (1 .. k) : t # {} => \E x \in t : \A y \in t : x >= y}
<1>1. 0 \in S
  <2>1. 1 .. 0 = {}
    OBVIOUS
  <2>2. QED
    BY <2>1
<1>2. ASSUME NEW k \in Nat, k \in S PROVE k + 1 \in S
  <2>1. SUFFICES ASSUME NEW t \in SUBSET (1 .. k + 1), t # {}
                 PROVE  \E x \in t : \A y \in t : x >= y
    OBVIOUS
  <2>2. CASE k + 1 \in t
    <3>1. \A y \in t : k + 1 >= y
      OBVIOUS
    <3>2. QED
      BY <2>2, <3>1
  <2>3. CASE k + 1 \notin t
    <3>1. t \in SUBSET (1 .. k)
      BY <2>3
    <3>2. QED
      BY <1>2, <2>1, <3>1
  <2>4. QED
    BY <2>2, <2>3
<1> HIDE DEF S
<1>3. n \in S
  BY <1>1, <1>2, SetInduction
<1>4. \E x \in s : \A y \in s : x >= y
  BY <1>3 DEF S
<1>5. QED
  BY <1>4, Zenon DEF Max

\* What FoldLeft iterates: g on a set of indices is one step, with the element
\* at the greatest, from g on the others.
Iterated(step, base, seq, s, g) ==
  IF s = {} THEN base ELSE LET x == Max(s) IN step[<<g[s \ {x}], seq[x]>>]

Folding(step, base, seq, n, g) ==
  g = [s \in SUBSET (1 .. n) |-> Iterated(step, base, seq, s, g)]

\* There is such a function, so the one FoldLeft chooses is one.
LEMMA FoldExists ==
  ASSUME NEW R, NEW D, NEW step \in [R \X D -> R], NEW base \in R,
         NEW n \in Nat, NEW seq \in [1 .. n -> D]
  PROVE  \E g \in [SUBSET (1 .. n) -> R] : Folding(step, base, seq, n, g)
<1> DEFINE Works(k, g) == \A s \in SUBSET (1 .. k) : g[s] = Iterated(step, base, seq, s, g)
           Exists(k) == \E g \in [SUBSET (1 .. k) -> R] : Works(k, g)
           S == {k \in Nat : k <= n => Exists(k)}
<1>1. 0 \in S
  <2> DEFINE g == [s \in SUBSET (1 .. 0) |-> base]
  <2>1. \A s \in SUBSET (1 .. 0) : s = {}
    OBVIOUS
  <2>2. g \in [SUBSET (1 .. 0) -> R] /\ Works(0, g)
    BY <2>1 DEF Iterated
  <2>3. QED
    BY <2>2
<1>2. ASSUME NEW k \in Nat, k \in S PROVE k + 1 \in S
  <2>1. SUFFICES ASSUME k + 1 <= n PROVE Exists(k + 1)
    <3> HIDE DEF Exists
    <3>1. QED
      OBVIOUS
  <2>2. PICK g \in [SUBSET (1 .. k) -> R] : Works(k, g)
    <3>1. Exists(k)
      <4> HIDE DEF Exists
      <4>1. QED
        BY <1>2, <2>1
    <3>2. QED
      BY <3>1, Zenon
  <2> DEFINE h == [s \in SUBSET (1 .. k + 1) |->
                     IF k + 1 \in s THEN step[<<g[s \ {k + 1}], seq[k + 1]>>] ELSE g[s]]
  <2>3. ASSUME NEW s \in SUBSET (1 .. k + 1), k + 1 \in s
        PROVE  /\ s \ {k + 1} \in SUBSET (1 .. k) /\ s # {} /\ Max(s) = k + 1
               /\ h[s] = step[<<g[s \ {k + 1}], seq[k + 1]>>]
               /\ h[s \ {k + 1}] = g[s \ {k + 1}]
               /\ h[s] \in R
    <3>1. s \ {k + 1} \in SUBSET (1 .. k) /\ s # {} /\ Max(s) = k + 1
      BY <2>3, MaxLemma
    <3>2. s \ {k + 1} \in SUBSET (1 .. k + 1)
      OBVIOUS
    <3>3. h[s] = step[<<g[s \ {k + 1}], seq[k + 1]>>] /\ h[s \ {k + 1}] = g[s \ {k + 1}]
      BY <2>3, <3>2
    <3>4. g[s \ {k + 1}] \in R /\ seq[k + 1] \in D
      BY <3>1, <2>1
    <3>5. QED
      BY <3>1, <3>3, <3>4
  <2>4. ASSUME NEW s \in SUBSET (1 .. k + 1), k + 1 \notin s
        PROVE  /\ s \in SUBSET (1 .. k) /\ h[s] = g[s] /\ h[s] \in R
               /\ s # {} => Max(s) \in s /\ h[s \ {Max(s)}] = g[s \ {Max(s)}]
    <3>1. s \in SUBSET (1 .. k)
      BY <2>4
    <3>2. h[s] = g[s] /\ h[s] \in R
      BY <3>1, <2>4
    <3>3. s \ {Max(s)} \in SUBSET (1 .. k + 1) /\ k + 1 \notin s \ {Max(s)}
      BY <2>4
    <3>4. h[s \ {Max(s)}] = g[s \ {Max(s)}]
      BY <3>3
    <3>5. s # {} => Max(s) \in s
      BY <3>1, MaxInSet
    <3>6. QED
      BY <3>1, <3>2, <3>4, <3>5
  <2> HIDE DEF h
  <2>5. h \in [SUBSET (1 .. k + 1) -> R]
    <3>1. \A s \in SUBSET (1 .. k + 1) : h[s] \in R
      BY <2>3, <2>4
    <3>2. QED
      BY <3>1 DEF h
  <2>6. ASSUME NEW s \in SUBSET (1 .. k + 1) PROVE h[s] = Iterated(step, base, seq, s, h)
    <3>1. CASE k + 1 \in s
      BY <2>3, <3>1 DEF Iterated
    <3>2. CASE k + 1 \notin s
      BY <2>2, <2>4, <3>2 DEF Iterated
    <3>3. QED
      BY <3>1, <3>2
  <2>7. QED
    BY <2>5, <2>6
<1> HIDE DEF S
<1>3. n \in S
  BY <1>1, <1>2, SetInduction
<1>4. PICK g \in [SUBSET (1 .. n) -> R] : Works(n, g)
  <2>1. Exists(n)
    <3> HIDE DEF Exists
    <3>1. QED
      BY <1>3 DEF S
  <2>2. QED
    BY <2>1, Zenon
<1>5. Folding(step, base, seq, n, g)
  BY <1>4 DEF Folding
<1>6. QED
  BY <1>5

\* How far such a function has come after k elements.
LEMMA PrefixLemma ==
  ASSUME NEW n \in Nat, NEW k \in 0 .. n - 1
  PROVE  /\ 1 .. k + 1 \in SUBSET (1 .. n) /\ 1 .. k + 1 # {}
         /\ Max(1 .. k + 1) = k + 1
         /\ (1 .. k + 1) \ {k + 1} = 1 .. k
<1>1. 1 .. k + 1 \in SUBSET (1 .. n) /\ k + 1 \in 1 .. k + 1 /\ k \in Nat
  OBVIOUS
<1>2. Max(1 .. k + 1) = k + 1
  BY <1>1, MaxLemma
<1>3. QED
  BY <1>1, <1>2

\* Exact takes one factor after the other.
ExactSteps(shape, itemsize, n, g) ==
  /\ Exact(shape, itemsize) = g[1 .. n]
  /\ g[1 .. 0] = itemsize
  /\ \A k \in 0 .. n - 1 : g[1 .. k + 1] = g[1 .. k] * shape[k + 1]

LEMMA ExactFold ==
  ASSUME NEW n \in Nat, NEW shape \in [1 .. n -> Int], NEW itemsize \in Int
  PROVE  \E g : ExactSteps(shape, itemsize, n, g)
<1> DEFINE step == [x \in Int \X Int |-> x[1] * x[2]]
           Folds(g) == g = [s \in SUBSET (1 .. n) |->
                              IF s = {} THEN itemsize
                              ELSE LET x == Max(s) IN g[s \ {x}] * shape[x]]
<1>1. \E g : Folds(g)
  <2>1. step \in [Int \X Int -> Int]
    OBVIOUS
  <2>2. PICK g \in [SUBSET (1 .. n) -> Int] : Folding(step, itemsize, shape, n, g)
    <3> HIDE DEF step
    <3>1. QED
      BY <2>1, FoldExists
  <2>3. ASSUME NEW s \in SUBSET (1 .. n)
        PROVE  Iterated(step, itemsize, shape, s, g) =
                 IF s = {} THEN itemsize ELSE LET x == Max(s) IN g[s \ {x}] * shape[x]
    <3>1. CASE s = {}
      BY <3>1 DEF Iterated
    <3>2. CASE s # {}
      <4>1. Max(s) \in s
        BY <3>2, MaxInSet
      <4>2. g[s \ {Max(s)}] \in Int /\ shape[Max(s)] \in Int
        BY <4>1
      <4>3. step[<<g[s \ {Max(s)}], shape[Max(s)]>>] = g[s \ {Max(s)}] * shape[Max(s)]
        BY <4>2
      <4>4. QED
        BY <3>2, <4>3 DEF Iterated
    <3>3. QED
      BY <3>1, <3>2
  <2>4. Folds(g)
    BY <2>2, <2>3 DEF Folding
  <2>5. QED
    BY <2>4
<1>2. PICK g : Folds(g) /\ Exact(shape, itemsize) = g[1 .. n]
  <2>1. DOMAIN shape = 1 .. n
    OBVIOUS
  <2>2. QED
    BY <1>1, <2>1 DEF Exact, FoldLeft, MapThenFoldSet
<1>3. g[1 .. 0] = itemsize
  <2>1. 1 .. 0 = {} /\ {} \in SUBSET (1 .. n)
    OBVIOUS
  <2>2. QED
    BY <1>2, <2>1
<1>4. ASSUME NEW k \in 0 .. n - 1 PROVE g[1 .. k + 1] = g[1 .. k] * shape[k + 1]
  <2> DEFINE s == 1 .. k + 1
  <2>1. s \in SUBSET (1 .. n) /\ s # {} /\ Max(s) = k + 1 /\ s \ {k + 1} = 1 .. k
    BY PrefixLemma
  <2> HIDE DEF s
  <2>2. g[s] = g[1 .. k] * shape[k + 1]
    BY <1>2, <2>1
  <2>3. QED
    BY <2>2 DEF s
<1>5. QED
  BY <1>2, <1>3, <1>4 DEF ExactSteps

\* The remainder of what is less than the divisor from a multiple of it.
LEMMA ModUnique ==
  ASSUME NEW w \in Nat \ {0}, NEW q \in Int, NEW r \in 0 .. w - 1
  PROVE  (q * w + r) % w = r
OBVIOUS

\* A product in a word of w values is the product of what the word holds.
LEMMA MulMod ==
  ASSUME NEW w \in Nat \ {0}, NEW m \in Int, NEW n \in Int
  PROVE  ((m % w) * (n % w)) % w = (m * n) % w
<1> DEFINE mq == m \div w  mr == m % w  nq == n \div w  nr == n % w
           p == mr * nr
           pq == p \div w  pr == p % w
<1>1. mq \in Int /\ mr \in 0 .. w - 1 /\ m = mq * w + mr
  BY DivLemma
<1>2. nq \in Int /\ nr \in 0 .. w - 1 /\ n = nq * w + nr
  BY DivLemma
<1> HIDE DEF mq, mr, nq, nr
<1>3. p \in Int
  BY <1>1, <1>2
<1>4. pq \in Int /\ pr \in 0 .. w - 1 /\ p = pq * w + pr
  BY <1>3, DivLemma
<1> HIDE DEF p, pq, pr
<1>5. m * n = (mq * nq * w + mq * nr + nq * mr + pq) * w + pr
  BY <1>1, <1>2, <1>4 DEF p
<1>6. (m * n) % w = pr
  BY <1>1, <1>2, <1>4, <1>5, ModUnique
<1>7. QED
  BY <1>6 DEF pr, p, mr, nr

\* sizeOf wraps with each factor.
SizeSteps(shape, itemsize, n, g) ==
  /\ sizeOf(shape, itemsize) = g[1 .. n]
  /\ g[1 .. 0] = itemsize
  /\ \A k \in 0 .. n - 1 :
       g[1 .. k + 1] = (g[1 .. k] * (shape[k + 1] % (U64Max + 1))) % (U64Max + 1)

LEMMA SizeOfFold ==
  ASSUME NEW n \in Nat, NEW shape \in [1 .. n -> Int], NEW itemsize \in Int
  PROVE  \E g : SizeSteps(shape, itemsize, n, g)
<1> DEFINE w == U64Max + 1
           step == [x \in Int \X Int |-> (x[1] * (x[2] % w)) % w]
           Folds(g) == g = [s \in SUBSET (1 .. n) |->
                              IF s = {} THEN itemsize
                              ELSE LET x == Max(s)
                                   IN  (g[s \ {x}] * (shape[x] % (U64Max + 1))) % (U64Max + 1)]
<1>w. w \in Nat \ {0}
  BY WordAssumption
<1>1. \E g : Folds(g)
  <2>1. step \in [Int \X Int -> Int]
    <3> HIDE DEF w
    <3>1. QED
      BY <1>w
  <2>2. PICK g \in [SUBSET (1 .. n) -> Int] : Folding(step, itemsize, shape, n, g)
    <3> HIDE DEF step
    <3>1. QED
      BY <2>1, FoldExists
  <2>3. ASSUME NEW s \in SUBSET (1 .. n)
        PROVE  Iterated(step, itemsize, shape, s, g) =
                 IF s = {} THEN itemsize
                 ELSE LET x == Max(s)
                      IN  (g[s \ {x}] * (shape[x] % (U64Max + 1))) % (U64Max + 1)
    <3>1. CASE s = {}
      BY <3>1 DEF Iterated
    <3>2. CASE s # {}
      <4>1. Max(s) \in s
        BY <3>2, MaxInSet
      <4>2. g[s \ {Max(s)}] \in Int /\ shape[Max(s)] \in Int
        BY <4>1
      <4>3. step[<<g[s \ {Max(s)}], shape[Max(s)]>>] = (g[s \ {Max(s)}] * (shape[Max(s)] % w)) % w
        BY <4>2
      <4>4. QED
        BY <3>2, <4>3 DEF Iterated
    <3>3. QED
      BY <3>1, <3>2
  <2>4. Folds(g)
    BY <2>2, <2>3 DEF Folding
  <2>5. QED
    BY <2>4
<1>2. PICK g : Folds(g) /\ sizeOf(shape, itemsize) = g[1 .. n]
  <2>1. DOMAIN shape = 1 .. n
    OBVIOUS
  <2>2. QED
    BY <1>1, <2>1 DEF sizeOf, FoldLeft, MapThenFoldSet
<1>3. g[1 .. 0] = itemsize
  <2>1. 1 .. 0 = {} /\ {} \in SUBSET (1 .. n)
    OBVIOUS
  <2>2. QED
    BY <1>2, <2>1
<1>4. ASSUME NEW k \in 0 .. n - 1
      PROVE  g[1 .. k + 1] = (g[1 .. k] * (shape[k + 1] % (U64Max + 1))) % (U64Max + 1)
  <2> DEFINE s == 1 .. k + 1
  <2>1. s \in SUBSET (1 .. n) /\ s # {} /\ Max(s) = k + 1 /\ s \ {k + 1} = 1 .. k
    BY PrefixLemma
  <2> HIDE DEF s
  <2>2. g[s] = (g[1 .. k] * (shape[k + 1] % (U64Max + 1))) % (U64Max + 1)
    BY <1>2, <2>1
  <2>3. QED
    BY <2>2 DEF s
<1>5. QED
  BY <1>2, <1>3, <1>4 DEF SizeSteps

\* numpy::sizeOf is the product of the item and the dimensions in the word:
\* of a product that the word holds, the product itself.
LEMMA SizeOfLemma ==
  ASSUME NEW n \in Nat, NEW shape \in [1 .. n -> Int], NEW itemsize \in U64
  PROVE  /\ Exact(shape, itemsize) \in Int
         /\ sizeOf(shape, itemsize) = Exact(shape, itemsize) % (U64Max + 1)
<1> DEFINE w == U64Max + 1
<1>1. w \in Nat \ {0} /\ itemsize \in Int /\ itemsize \in 0 .. w - 1
  BY WordAssumption DEF U64
<1>2. PICK g : ExactSteps(shape, itemsize, n, g)
  BY <1>1, ExactFold
<1>3. PICK h : SizeSteps(shape, itemsize, n, h)
  BY <1>1, SizeOfFold
<1>4. /\ g[1 .. 0] = itemsize /\ h[1 .. 0] = itemsize
      /\ \A k \in 0 .. n - 1 : g[1 .. k + 1] = g[1 .. k] * shape[k + 1]
      /\ \A k \in 0 .. n - 1 : h[1 .. k + 1] = (h[1 .. k] * (shape[k + 1] % w)) % w
  BY <1>2, <1>3 DEF ExactSteps, SizeSteps
<1> HIDE DEF w
<1> DEFINE S == {k \in Nat : k <= n => g[1 .. k] \in Int /\ h[1 .. k] = g[1 .. k] % w}
<1>5. 0 \in S
  <2>1. itemsize % w = itemsize
    BY <1>1
  <2>2. QED
    BY <1>1, <1>4, <2>1
<1>6. ASSUME NEW k \in Nat, k \in S PROVE k + 1 \in S
  <2> SUFFICES ASSUME k + 1 <= n
               PROVE  g[1 .. k + 1] \in Int /\ h[1 .. k + 1] = g[1 .. k + 1] % w
    OBVIOUS
  <2> DEFINE exact == g[1 .. k]  wrapped == h[1 .. k]  dim == shape[k + 1]
  <2>1. exact \in Int /\ wrapped = exact % w /\ dim \in Int
    BY <1>6
  <2>2. g[1 .. k + 1] = exact * dim /\ h[1 .. k + 1] = (wrapped * (dim % w)) % w
    BY <1>4
  <2> HIDE DEF exact, wrapped, dim
  <2>3. ((exact % w) * (dim % w)) % w = (exact * dim) % w
    BY <1>1, <2>1, MulMod
  <2>4. exact * dim \in Int
    BY <2>1
  <2>5. QED
    BY <2>1, <2>2, <2>3, <2>4
<1> HIDE DEF S
<1>7. n \in S
  BY <1>5, <1>6, SetInduction
<1>8. QED
  BY <1>2, <1>3, <1>7 DEF ExactSteps, SizeSteps, S, w

\* Whatever the shape, it is a number of bytes.
LEMMA SizeOfIsNat ==
  ASSUME NEW n \in Nat, NEW shape \in [1 .. n -> Int], NEW itemsize \in Nat
  PROVE  sizeOf(shape, itemsize) \in Nat
<1> DEFINE w == U64Max + 1
<1>1. w \in Nat \ {0}
  BY WordAssumption
<1>2. PICK h : SizeSteps(shape, itemsize, n, h)
  BY SizeOfFold
<1>3. /\ sizeOf(shape, itemsize) = h[1 .. n] /\ h[1 .. 0] = itemsize
      /\ \A k \in 0 .. n - 1 : h[1 .. k + 1] = (h[1 .. k] * (shape[k + 1] % w)) % w
  BY <1>2 DEF SizeSteps
<1> HIDE DEF w
<1> DEFINE S == {k \in Nat : k <= n => h[1 .. k] \in Nat}
<1>4. 0 \in S
  BY <1>3
<1>5. ASSUME NEW k \in Nat, k \in S PROVE k + 1 \in S
  <2> SUFFICES ASSUME k + 1 <= n PROVE h[1 .. k + 1] \in Nat
    OBVIOUS
  <2> DEFINE p == h[1 .. k]  dim == shape[k + 1] % w
  <2>1. p \in Nat /\ dim \in Nat
    BY <1>1, <1>5
  <2>2. h[1 .. k + 1] = (p * dim) % w
    BY <1>3
  <2> HIDE DEF p, dim
  <2>3. QED
    BY <1>1, <2>1, <2>2
<1> HIDE DEF S
<1>6. n \in S
  BY <1>4, <1>5, SetInduction
<1>7. QED
  BY <1>3, <1>6 DEF S

\* The powers of two, spelled out.
LEMMA PowersAre ==
  Powers = {1, 2, 4, 8, 16, 32, 64, 128, 256, 512, 1024, 2048, 4096, 8192, 16384, 32768, 65536,
            131072, 262144, 524288, 1048576}
<1>1. 0 .. 20 = {0, 1, 2, 3, 4, 5, 6, 7, 8, 9, 10, 11, 12, 13, 14, 15, 16, 17, 18, 19, 20}
  OBVIOUS
<1>2. QED
  BY <1>1 DEF Powers

\* Rounding up the block of ten bytes; the others are powers of two.
LEMMA ElementSizes ==
  /\ elementSizeFromBlockSize(10) = 16
  /\ \A size \in {1, 2, 4, 8} : elementSizeFromBlockSize(size) = size
<1>1. ~isPow2(10)
  BY PowersAre DEF isPow2
<1>2. \A p \in Powers : 10 < p /\ p <= 20 <=> p = 16
  BY PowersAre
<1>3. 16 \in Powers
  BY PowersAre
<1>4. (CHOOSE p \in Powers : 10 < p /\ p <= 2 * 10) = 16
  BY <1>2, <1>3
<1>5. QED
  BY <1>1, <1>4, PowersAre DEF elementSizeFromBlockSize, isPow2

\* The item is a factor of the product.
LEMMA ExactScales ==
  ASSUME NEW n \in Nat, NEW shape \in [1 .. n -> Int], NEW itemsize \in Int
  PROVE  /\ Exact(shape, 1) \in Int
         /\ Exact(shape, itemsize) = itemsize * Exact(shape, 1)
<1>1. PICK g : ExactSteps(shape, itemsize, n, g)
  BY ExactFold
<1>2. PICK h : ExactSteps(shape, 1, n, h)
  BY ExactFold
<1>3. /\ g[1 .. 0] = itemsize /\ h[1 .. 0] = 1
      /\ \A k \in 0 .. n - 1 : g[1 .. k + 1] = g[1 .. k] * shape[k + 1]
      /\ \A k \in 0 .. n - 1 : h[1 .. k + 1] = h[1 .. k] * shape[k + 1]
  BY <1>1, <1>2 DEF ExactSteps
<1> DEFINE S == {k \in Nat : k <= n => h[1 .. k] \in Int /\ g[1 .. k] = itemsize * h[1 .. k]}
<1>4. 0 \in S
  BY <1>3
<1>5. ASSUME NEW k \in Nat, k \in S PROVE k + 1 \in S
  <2> SUFFICES ASSUME k + 1 <= n
               PROVE  h[1 .. k + 1] \in Int /\ g[1 .. k + 1] = itemsize * h[1 .. k + 1]
    OBVIOUS
  <2> DEFINE one == h[1 .. k]  all == g[1 .. k]  dim == shape[k + 1]
  <2>1. one \in Int /\ all = itemsize * one /\ dim \in Int
    BY <1>5
  <2>2. h[1 .. k + 1] = one * dim /\ g[1 .. k + 1] = all * dim
    BY <1>3
  <2> HIDE DEF one, all, dim
  <2>3. one * dim \in Int /\ all * dim = itemsize * (one * dim)
    BY <2>1
  <2>4. QED
    BY <2>2, <2>3
<1> HIDE DEF S
<1>6. n \in S
  BY <1>4, <1>5, SetInduction
<1>7. QED
  BY <1>1, <1>2, <1>6 DEF ExactSteps, S
===============================================================================
