--------------------------- MODULE GameTimerProofs ---------------------------
(***************************************************************************)
(* Proofs about GameTimer, for every size of the wheels, every set of keys *)
(* and delays and any number of timers.                                    *)
(***************************************************************************)
EXTENDS GameTimer, SequenceTheorems, WellFoundedInduction, NaturalsInduction, TLAPS

-----------------------------------------------------------------------------
(* Division                                                                *)

LEMMA Multiple ==
  ASSUME NEW w \in Nat \ {0}, NEW k \in Int, k >= 1
  PROVE  w * k >= w
  <1>1. k - 1 \in Nat /\ w * (k - 1) >= 0
    OBVIOUS
  <1>2. w * k = w * (k - 1) + w
    OBVIOUS
  <1> QED BY <1>1, <1>2

LEMMA Quotient ==
  ASSUME NEW w \in Nat \ {0}, NEW x \in Nat
  PROVE  /\ x \div w \in Nat
         /\ x % w \in 0 .. (w - 1)
         /\ x = w * (x \div w) + (x % w)
  <1>0. x \div w \in Int /\ x % w \in 0 .. (w - 1) /\ x = w * (x \div w) + (x % w)
    OBVIOUS
  <1> DEFINE q == x \div w  m == x % w
  <1>1. q \in Int /\ m \in 0 .. (w - 1) /\ x = w * q + m
    OBVIOUS
  <1> HIDE DEF q, m
  <1>2. ASSUME q < 0 PROVE FALSE
    <2>1. -q \in Int /\ -q >= 1
      BY <1>1, <1>2
    <2>2. w * (-q) >= w
      BY <2>1, Multiple
    <2>3. w * (-q) = -(w * q) /\ w * q \in Int
      BY <1>1
    <2> QED BY <2>2, <2>3, <1>1
  <1>3. q \in Nat
    BY <1>1, <1>2
  <1>4. x \div w \in Nat
    BY <1>3 DEF q
  <1>5. x % w \in 0 .. (w - 1)
    BY <1>1 DEF m
  <1> QED BY <1>0, <1>4, <1>5

\* Of two multiples that are less than w apart, none is the larger.
LEMMA SameMultiple ==
  ASSUME NEW w \in Nat \ {0}, NEW a \in Nat, NEW b \in Nat,
         NEW r \in 0 .. (w - 1), NEW s \in 0 .. (w - 1),
         w * a + r <= w * b + s
  PROVE  a <= b
  <1> SUFFICES ASSUME a - b >= 1 PROVE FALSE
    OBVIOUS
  <1>1. w * (a - b) >= w
    BY Multiple
  <1>2. w * a - w * b = w * (a - b)
    OBVIOUS
  <1>3. w * a \in Int /\ w * b \in Int /\ w * (a - b) \in Int
    OBVIOUS
  <1> QED BY <1>1, <1>2, <1>3

LEMMA DivUnique ==
  ASSUME NEW w \in Nat \ {0}, NEW k \in Nat, NEW r \in 0 .. (w - 1), NEW x \in Nat,
         x = w * k + r
  PROVE  x \div w = k /\ x % w = r
  <1> DEFINE q == x \div w
             m == x % w
  <1>1. q \in Nat /\ m \in 0 .. (w - 1) /\ x = w * q + m
    BY Quotient
  <1> HIDE DEF q, m
  <1>2. w * q + m <= w * k + r /\ w * k + r <= w * q + m
    BY <1>1
  <1>3. q <= k
    BY <1>1, <1>2, SameMultiple
  <1>4. k <= q
    BY <1>1, <1>2, SameMultiple
  <1>5. q = k
    BY <1>1, <1>3, <1>4
  <1>6. m = r
    <2>1. w * q = w * k /\ w * k \in Int
      BY <1>5
    <2> QED BY <2>1, <1>1
  <1> QED BY <1>5, <1>6 DEF q, m

LEMMA DivMono ==
  ASSUME NEW w \in Nat \ {0}, NEW a \in Nat, NEW b \in Nat, a <= b
  PROVE  a \div w <= b \div w
  <1> DEFINE q == a \div w  m == a % w  p == b \div w  n == b % w
  <1>1. q \in Nat /\ m \in 0 .. (w - 1) /\ a = w * q + m
    BY Quotient
  <1>2. p \in Nat /\ n \in 0 .. (w - 1) /\ b = w * p + n
    BY Quotient
  <1> HIDE DEF q, m, p, n
  <1>3. q <= p
    BY <1>1, <1>2, SameMultiple
  <1> QED BY <1>3 DEF q, p

\* The counter enters the next block exactly when it is a multiple of it.
LEMMA DivSucc ==
  ASSUME NEW w \in Nat \ {0}, NEW a \in Nat
  PROVE  \/ (a + 1) \div w = a \div w /\ (a + 1) % w # 0
         \/ (a + 1) \div w = a \div w + 1 /\ (a + 1) % w = 0
  <1> DEFINE q == a \div w  m == a % w
  <1>1. q \in Nat /\ m \in 0 .. (w - 1) /\ a = w * q + m
    BY Quotient
  <1> HIDE DEF q, m
  <1>2. CASE m + 1 < w
    <2>1. a + 1 = w * q + (m + 1) /\ m + 1 \in 0 .. (w - 1)
      BY <1>1, <1>2
    <2>2. (a + 1) \div w = q /\ (a + 1) % w = m + 1
      BY <1>1, <2>1, DivUnique
    <2> QED BY <2>2, <1>1 DEF q
  <1>3. CASE m + 1 = w
    <2>1. w * (q + 1) = w * q + w /\ w * q \in Int
      BY <1>1
    <2>2. a + 1 = w * (q + 1) + 0
      BY <1>1, <1>3, <2>1
    <2>3. (a + 1) \div w = q + 1 /\ (a + 1) % w = 0
      BY <1>1, <2>2, DivUnique
    <2> QED BY <2>3 DEF q
  <1> QED BY <1>1, <1>2, <1>3

\* Blocks nest.
LEMMA DivNest ==
  ASSUME NEW w \in Nat \ {0}, NEW l \in Nat \ {0}, NEW x \in Nat
  PROVE  /\ x \div (w * l) = (x \div w) \div l
         /\ x % (w * l) = 0 <=> x % w = 0 /\ (x \div w) % l = 0
  <1> DEFINE q == x \div w  m == x % w  p == q \div l  n == q % l
  <1>1. q \in Nat /\ m \in 0 .. (w - 1) /\ x = w * q + m
    BY Quotient
  <1>2. p \in Nat /\ n \in 0 .. (l - 1) /\ q = l * p + n
    BY <1>1, Quotient
  <1> HIDE DEF q, m, p, n
  <1>3. w * l \in Nat \ {0}
    <2>1. w * l >= w
      BY Multiple
    <2> QED BY <2>1
  <1>4. w * q = (w * l) * p + w * n
    BY <1>1, <1>2
  <1>5. w * n + m \in 0 .. (w * l - 1)
    <2>1. w * (l - n) >= w
      <3>1. l - n \in Int /\ l - n >= 1
        BY <1>2
      <3> QED BY <3>1, Multiple
    <2>2. w * (l - n) = w * l - w * n /\ w * n \in Nat /\ w * l \in Int
      BY <1>2
    <2> QED BY <2>1, <2>2, <1>1
  <1>6. x = (w * l) * p + (w * n + m)
    <2>1. (w * l) * p \in Int /\ w * n \in Int /\ w * q \in Int
      BY <1>1, <1>2
    <2> QED BY <2>1, <1>1, <1>4
  <1>7. x \div (w * l) = p /\ x % (w * l) = w * n + m
    <2> DEFINE v == w * l  r == w * n + m
    <2>1. v \in Nat \ {0} /\ r \in 0 .. (v - 1) /\ x = v * p + r
      BY <1>3, <1>5, <1>6
    <2> HIDE DEF v, r
    <2>2. x \div v = p /\ x % v = r
      BY <1>2, <2>1, DivUnique
    <2> QED BY <2>2 DEF v, r
  <1>8. x \div (w * l) = (x \div w) \div l
    BY <1>7 DEF q, p
  <1>9. x % (w * l) = 0 <=> m = 0 /\ n = 0
    <2>1. n # 0 => w * n >= w
      BY <1>2, Multiple
    <2>2. w * n \in Nat /\ (n = 0 => w * n = 0)
      BY <1>2
    <2> QED BY <1>1, <1>2, <1>7, <2>1, <2>2
  <1>10. x % (w * l) = 0 <=> x % w = 0 /\ (x \div w) % l = 0
    BY <1>9 DEF q, m, n
  <1> QED BY <1>8, <1>10

\* Numbers a block apart are in different blocks.
LEMMA DivFar ==
  ASSUME NEW w \in Nat \ {0}, NEW a \in Nat, NEW b \in Nat, a + w <= b
  PROVE  a \div w # b \div w
  <1> DEFINE q == a \div w  m == a % w  p == b \div w  n == b % w
  <1>1. q \in Nat /\ m \in 0 .. (w - 1) /\ a = w * q + m
    BY Quotient
  <1>2. p \in Nat /\ n \in 0 .. (w - 1) /\ b = w * p + n
    BY Quotient
  <1> HIDE DEF q, m, p, n
  <1>3. ASSUME q = p PROVE FALSE
    <2>1. w * q = w * p /\ w * p \in Int
      BY <1>1, <1>3
    <2> QED BY <2>1, <1>1, <1>2
  <1> QED BY <1>3 DEF q, p

\* The tick counter has passed its end once or not at all.
LEMMA Wrap ==
  ASSUME NEW w \in Nat \ {0}, NEW x \in Nat, x < w + w
  PROVE  x % w = IF x < w THEN x ELSE x - w
  <1>1. CASE x < w
    <2>1. x = w * 0 + x /\ x \in 0 .. (w - 1)
      BY <1>1
    <2> QED BY <1>1, <2>1, DivUnique
  <1>2. CASE x >= w
    <2>1. x = w * 1 + (x - w) /\ x - w \in 0 .. (w - 1)
      BY <1>2
    <2>2. x % w = x - w
      BY <2>1, DivUnique
    <2> QED BY <1>2, <2>2
  <1> QED BY <1>1, <1>2

-----------------------------------------------------------------------------
(* The wheel                                                               *)

LEMMA Positive ==
  ASSUME NEW a \in Nat \ {0}, NEW b \in Nat \ {0}
  PROVE  a * b \in Nat \ {0}
  <1>1. a * b >= a
    BY Multiple
  <1> QED BY <1>1

LEMMA Widths ==
  /\ \A i \in 1..6 : Width[i] \in Nat \ {0}
  /\ Width[1] = 1 /\ Width[2] = Near /\ Width[6] = TimeRange
  /\ \A i \in 2..5 : Width[i + 1] = Width[i] * Level
  <1> DEFINE w3 == Near * Level  w4 == w3 * Level  w5 == w4 * Level  w6 == w5 * Level
  <1>1. Near \in Nat \ {0} /\ Level \in Nat \ {0}
    BY WheelAssumption
  <1>2. w3 \in Nat \ {0}
    BY <1>1, Positive
  <1>3. w4 \in Nat \ {0}
    <2> HIDE DEF w3
    <2> QED BY <1>1, <1>2, Positive DEF w4
  <1>4. w5 \in Nat \ {0}
    <2> HIDE DEF w4
    <2> QED BY <1>1, <1>3, Positive DEF w5
  <1>5. w6 \in Nat \ {0}
    <2> HIDE DEF w5
    <2> QED BY <1>1, <1>4, Positive DEF w6
  <1>6. Width = <<1, Near, w3, w4, w5, w6>> /\ TimeRange = w6
    BY DEF Width, TimeRange
  <1>7. w4 = w3 * Level /\ w5 = w4 * Level /\ w6 = w5 * Level /\ w3 = Near * Level
    OBVIOUS
  <1> HIDE DEF w3, w4, w5, w6
  <1>8. /\ Width[1] = 1 /\ Width[2] = Near /\ Width[3] = w3 /\ Width[4] = w4
        /\ Width[5] = w5 /\ Width[6] = w6
    BY <1>6
  <1>9. \A i \in 1..6 : i = 1 \/ i = 2 \/ i = 3 \/ i = 4 \/ i = 5 \/ i = 6
    OBVIOUS
  <1>10. \A i \in 1..6 : Width[i] \in Nat \ {0}
    BY <1>1, <1>2, <1>3, <1>4, <1>5, <1>8, <1>9
  <1>11. \A i \in 2..5 : Width[i + 1] = Width[i] * Level
    <2> SUFFICES ASSUME NEW i \in 2..5 PROVE Width[i + 1] = Width[i] * Level
      OBVIOUS
    <2>1. i = 2 \/ i = 3 \/ i = 4 \/ i = 5
      OBVIOUS
    <2>2. CASE i = 2
      BY <1>7, <1>8, <2>2
    <2>3. CASE i = 3
      BY <1>7, <1>8, <2>3
    <2>4. CASE i = 4
      BY <1>7, <1>8, <2>4
    <2>5. CASE i = 5
      BY <1>7, <1>8, <2>5
    <2> QED BY <2>1, <2>2, <2>3, <2>4, <2>5
  <1> QED BY <1>6, <1>8, <1>10, <1>11

\* A level's blocks are no wider than the slots of the top wheel, which are
\* at most half of the counter's range.
LEMMA HalfRange ==
  /\ TimeRange \in Nat \ {0}
  /\ \A i \in 1..5 : Width[i] <= Width[5]
  /\ Width[5] + Width[5] <= TimeRange
  /\ TimeRange \div 2 \in Nat /\ (TimeRange \div 2) + (TimeRange \div 2) <= TimeRange
  /\ TimeRange \div 2 - 1 + Width[5] < TimeRange
  <1>1. Level \in Nat \ {0, 1} /\ Near \in Nat \ {0, 1}
    BY WheelAssumption
  <1>2. \A i \in 2..5 : Width[i] <= Width[i + 1]
    <2> SUFFICES ASSUME NEW i \in 2..5 PROVE Width[i] <= Width[i + 1]
      OBVIOUS
    <2>1. Width[i] \in Nat \ {0} /\ Width[i + 1] = Width[i] * Level
      BY Widths
    <2>2. Width[i] * Level >= Width[i]
      BY <1>1, <2>1, Multiple
    <2> QED BY <2>1, <2>2
  <1>3. Width[1] <= Width[2]
    BY <1>1, Widths
  <1>4. Width[2] <= Width[3] /\ Width[3] <= Width[4] /\ Width[4] <= Width[5]
    <2>1. Width[2] <= Width[2 + 1] /\ Width[3] <= Width[3 + 1] /\ Width[4] <= Width[4 + 1]
      BY <1>2
    <2> QED BY <2>1
  <1>5. \A i \in 1..5 : Width[i] <= Width[5]
    <2>1. /\ Width[1] \in Nat /\ Width[2] \in Nat /\ Width[3] \in Nat
          /\ Width[4] \in Nat /\ Width[5] \in Nat
      BY Widths
    <2>2. \A i \in 1..5 : i = 1 \/ i = 2 \/ i = 3 \/ i = 4 \/ i = 5
      OBVIOUS
    <2>3. /\ Width[1] <= Width[5] /\ Width[2] <= Width[5] /\ Width[3] <= Width[5]
          /\ Width[4] <= Width[5] /\ Width[5] <= Width[5]
      BY <1>3, <1>4, <2>1
    <2> QED BY <2>2, <2>3
  <1>6. Width[5] + Width[5] <= TimeRange /\ TimeRange \in Nat \ {0} /\ Width[5] \in Nat \ {0}
    <2>1. Width[5] \in Nat \ {0} /\ Width[6] \in Nat \ {0} /\ Width[6] = TimeRange
      BY Widths
    <2>2. Width[5 + 1] = Width[5] * Level
      BY Widths
    <2>3. Width[5] * (Level - 1) >= Width[5]
      BY <1>1, <2>1, Multiple
    <2>4. Width[5] * (Level - 1) = Width[5] * Level - Width[5] /\ Width[5] * Level \in Int
      BY <1>1, <2>1
    <2> QED BY <2>1, <2>2, <2>3, <2>4
  <1>7. /\ TimeRange \div 2 \in Nat /\ (TimeRange \div 2) + (TimeRange \div 2) <= TimeRange
        /\ TimeRange \div 2 - 1 + Width[5] < TimeRange
    <2> DEFINE q == TimeRange \div 2  m == TimeRange % 2
    <2>1. q \in Nat /\ m \in 0 .. (2 - 1) /\ TimeRange = 2 * q + m
      BY <1>6, Quotient
    <2> HIDE DEF q, m
    <2>2. q \in Nat /\ q + q <= TimeRange /\ q - 1 + Width[5] < TimeRange
      BY <2>1, <1>6
    <2> QED BY <2>2 DEF q
  <1> QED BY <1>5, <1>6, <1>7

LEMMA SameBlockUp ==
  ASSUME NEW a \in Nat, NEW b \in Nat, NEW i \in 0..3, SameBlock(a, b, i)
  PROVE  SameBlock(a, b, i + 1)
  <1>1. i + 2 \in 2..5 /\ i + 2 \in 1..6 /\ (i + 2) + 1 = (i + 1) + 2
    OBVIOUS
  <1>2. Width[i + 2] \in Nat \ {0} /\ Width[(i + 2) + 1] = Width[i + 2] * Level
    BY <1>1, Widths
  <1>3. Level \in Nat \ {0}
    BY WheelAssumption
  <1>4. /\ a \div (Width[i + 2] * Level) = (a \div Width[i + 2]) \div Level
        /\ b \div (Width[i + 2] * Level) = (b \div Width[i + 2]) \div Level
    BY <1>2, <1>3, DivNest
  <1>5. a \div Width[i + 2] = b \div Width[i + 2]
    BY DEF SameBlock
  <1>6. a \div (Width[i + 2] * Level) = b \div (Width[i + 2] * Level)
    BY <1>4, <1>5
  <1> QED BY <1>1, <1>2, <1>6 DEF SameBlock

LEMMA SameBlockMono ==
  ASSUME NEW a \in Nat, NEW b \in Nat, NEW i \in 0..4, NEW j \in 0..4, i <= j,
         SameBlock(a, b, i)
  PROVE  SameBlock(a, b, j)
  <1>1. \A k \in 0..3 : SameBlock(a, b, k) => SameBlock(a, b, k + 1)
    BY SameBlockUp
  <1>2. /\ SameBlock(a, b, 0) => SameBlock(a, b, 1)
        /\ SameBlock(a, b, 1) => SameBlock(a, b, 2)
        /\ SameBlock(a, b, 2) => SameBlock(a, b, 3)
        /\ SameBlock(a, b, 3) => SameBlock(a, b, 4)
    <2>1. /\ SameBlock(a, b, 0) => SameBlock(a, b, 0 + 1)
          /\ SameBlock(a, b, 1) => SameBlock(a, b, 1 + 1)
          /\ SameBlock(a, b, 2) => SameBlock(a, b, 2 + 1)
          /\ SameBlock(a, b, 3) => SameBlock(a, b, 3 + 1)
      BY <1>1
    <2> QED BY <2>1
  <1>3. /\ i = 0 \/ i = 1 \/ i = 2 \/ i = 3 \/ i = 4
        /\ j = 0 \/ j = 1 \/ j = 2 \/ j = 3 \/ j = 4
    OBVIOUS
  <1> QED BY <1>2, <1>3

LEMMA SameTop ==
  ASSUME NEW a \in 0 .. (TimeRange - 1), NEW b \in 0 .. (TimeRange - 1)
  PROVE  SameBlock(a, b, 4)
  <1>1. TimeRange \in Nat \ {0}
    BY HalfRange
  <1>2. a = TimeRange * 0 + a /\ b = TimeRange * 0 + b /\ a \in Nat /\ b \in Nat
    BY <1>1
  <1>3. a \div TimeRange = 0 /\ b \div TimeRange = 0
    BY <1>1, <1>2, DivUnique
  <1>4. Width[4 + 2] = TimeRange
    BY Widths
  <1> QED BY <1>3, <1>4 DEF SameBlock

\* The level add_node chooses: the first on which the two times agree.
IsLevel(e, now, i) == SameBlock(e, now, i) /\ \A j \in 0 .. (i - 1) : ~SameBlock(e, now, j)
Size(i) == IF i = 0 THEN Near ELSE Level

LEMMA LevelExists ==
  ASSUME NEW e \in 0 .. (TimeRange - 1), NEW now \in 0 .. (TimeRange - 1)
  PROVE  \E i \in 0..4 : IsLevel(e, now, i)
  <1>1. SameBlock(e, now, 4)
    BY SameTop
  <1>2. CASE SameBlock(e, now, 0)
    BY <1>2 DEF IsLevel
  <1>3. CASE ~SameBlock(e, now, 0) /\ SameBlock(e, now, 1)
    BY <1>3 DEF IsLevel
  <1>4. CASE ~SameBlock(e, now, 0) /\ ~SameBlock(e, now, 1) /\ SameBlock(e, now, 2)
    <2>1. \A j \in 0 .. (2 - 1) : j = 0 \/ j = 1
      OBVIOUS
    <2> QED BY <2>1, <1>4 DEF IsLevel
  <1>5. CASE /\ ~SameBlock(e, now, 0) /\ ~SameBlock(e, now, 1) /\ ~SameBlock(e, now, 2)
             /\ SameBlock(e, now, 3)
    <2>1. \A j \in 0 .. (3 - 1) : j = 0 \/ j = 1 \/ j = 2
      OBVIOUS
    <2> QED BY <2>1, <1>5 DEF IsLevel
  <1>6. CASE /\ ~SameBlock(e, now, 0) /\ ~SameBlock(e, now, 1) /\ ~SameBlock(e, now, 2)
             /\ ~SameBlock(e, now, 3)
    <2>1. \A j \in 0 .. (4 - 1) : j = 0 \/ j = 1 \/ j = 2 \/ j = 3
      OBVIOUS
    <2> QED BY <2>1, <1>1, <1>6 DEF IsLevel
  <1> QED BY <1>2, <1>3, <1>4, <1>5, <1>6

LEMMA PlaceIs ==
  ASSUME NEW e \in 0 .. (TimeRange - 1), NEW now \in 0 .. (TimeRange - 1),
         NEW i \in 0..4, IsLevel(e, now, i)
  PROVE  Place(e, now) = <<i, (e \div Width[i + 1]) % Size(i)>>
  <1> DEFINE P(k) == /\ k = 4 \/ SameBlock(e, now, k)
                     /\ \A j \in 0 .. (k - 1) : ~SameBlock(e, now, j)
             l == CHOOSE k \in 0..4 : P(k)
  <1>1. P(i)
    BY DEF IsLevel
  <1>2. \A k \in 0..4 : P(k) => k = i
    <2> SUFFICES ASSUME NEW k \in 0..4, P(k) PROVE k = i
      OBVIOUS
    <2>1. CASE k < i
      <3>1. k \in 0 .. (i - 1) /\ k # 4
        BY <2>1
      <3> QED BY <3>1 DEF IsLevel
    <2>2. CASE i < k
      <3>1. i \in 0 .. (k - 1)
        BY <2>2
      <3> QED BY <3>1 DEF IsLevel
    <2> QED BY <2>1, <2>2
  <1>3. l \in 0..4 /\ P(l)
    BY <1>1
  <1>4. l = i
    <2> HIDE DEF P, l
    <2> QED BY <1>2, <1>3
  <1> DEFINE at == [k \in 0..4 |-> <<k, (e \div Width[k + 1]) % (IF k = 0 THEN Near ELSE Level)>>]
  <1>5. Place(e, now) = at[l]
    BY Zenon DEF Place
  <1>6. at[i] = <<i, (e \div Width[i + 1]) % (IF i = 0 THEN Near ELSE Level)>>
    BY Zenon
  <1> HIDE DEF at, l
  <1> QED BY <1>4, <1>5, <1>6 DEF Size

LEMMA PlaceSlot ==
  ASSUME NEW e \in 0 .. (TimeRange - 1), NEW now \in 0 .. (TimeRange - 1)
  PROVE  Place(e, now) \in Slots
  <1>1. PICK i \in 0..4 : IsLevel(e, now, i)
    BY LevelExists
  <1>2. Place(e, now) = <<i, (e \div Width[i + 1]) % Size(i)>>
    BY <1>1, PlaceIs
  <1>3. Size(i) \in Nat \ {0} /\ Width[i + 1] \in Nat \ {0}
    <2>1. i + 1 \in 1..6
      OBVIOUS
    <2> QED BY <2>1, Widths, WheelAssumption DEF Size
  <1>a. e \in Nat
    BY HalfRange
  <1>4. e \div Width[i + 1] \in Nat
    BY <1>3, <1>a, Quotient
  <1>5. (e \div Width[i + 1]) % Size(i) \in 0 .. (Size(i) - 1)
    BY <1>3, <1>4, Quotient
  <1> DEFINE s == (e \div Width[i + 1]) % Size(i)
  <1> HIDE DEF s
  <1>6. <<i, s>> \in Slots
    <2>1. CASE i = 0
      BY <1>5, <2>1 DEF Slots, Size, s
    <2>2. CASE i \in 1..4
      <3>1. i # 0
        BY <2>2
      <3>2. s \in 0 .. (Level - 1)
        BY <1>5, <3>1 DEF Size, s
      <3> QED BY <2>2, <3>2 DEF Slots
    <2>3. i = 0 \/ i \in 1..4
      OBVIOUS
    <2> QED BY <2>1, <2>2, <2>3
  <1> QED BY <1>2, <1>6 DEF s

\* The lists timer_shift looks at when the counter becomes t.
LevelsDue(t) == { i \in 1..4 : t % Width[i + 1] = 0 /\ (t \div Width[i + 1]) % Level # 0 }

\* On which levels the counter enters a new block.
LEMMA NewBlock ==
  ASSUME NEW now \in Nat, NEW j \in 0..4
  PROVE  \/ now \div Width[j + 2] = (now + 1) \div Width[j + 2] /\ (now + 1) % Width[j + 2] # 0
         \/ /\ (now + 1) \div Width[j + 2] = now \div Width[j + 2] + 1
            /\ (now + 1) % Width[j + 2] = 0
  <1>1. j + 2 \in 1..6
    OBVIOUS
  <1>2. Width[j + 2] \in Nat \ {0}
    BY <1>1, Widths
  <1> QED BY <1>2, DivSucc

\* Two times of which the second wrapped are in different blocks.
LEMMA FarApart ==
  ASSUME NEW a \in Nat, NEW b \in Nat, a + Width[5] <= b, NEW j \in 0..3
  PROVE  ~SameBlock(a, b, j) /\ ~SameBlock(b, a, j)
  <1>1. j + 2 \in 1..5 /\ j + 2 \in 1..6
    OBVIOUS
  <1>2. Width[j + 2] \in Nat \ {0} /\ Width[5] \in Nat /\ Width[j + 2] <= Width[5]
    BY <1>1, Widths, HalfRange
  <1>3. a + Width[j + 2] <= b
    BY <1>2
  <1>4. a \div Width[j + 2] # b \div Width[j + 2]
    BY <1>2, <1>3, DivFar
  <1> QED BY <1>4 DEF SameBlock

\* Only one list can be due.
LEMMA OneDue ==
  ASSUME NEW t \in Nat, NEW i \in LevelsDue(t), NEW j \in LevelsDue(t)
  PROVE  i = j
  <1> SUFFICES ASSUME NEW a \in LevelsDue(t), NEW b \in LevelsDue(t), a < b
               PROVE  FALSE
    BY DEF LevelsDue
  <1>1. a \in 1..3 /\ b \in 2..4
    BY DEF LevelsDue
  <1>2. t % Width[b + 1] = 0
    BY DEF LevelsDue
  <1>3. \A k \in 2..5 : t % Width[k + 1] = 0 => t % Width[k] = 0 /\ (t \div Width[k]) % Level = 0
    <2> SUFFICES ASSUME NEW k \in 2..5, t % Width[k + 1] = 0
                 PROVE  t % Width[k] = 0 /\ (t \div Width[k]) % Level = 0
      OBVIOUS
    <2>1. Width[k] \in Nat \ {0} /\ Width[k + 1] = Width[k] * Level /\ Level \in Nat \ {0}
      BY Widths, WheelAssumption
    <2>2. t % (Width[k] * Level) = 0
      BY <2>1
    <2> QED BY <2>1, <2>2, DivNest
  <1>4. /\ t % Width[5] = 0 => t % Width[4] = 0
        /\ t % Width[4] = 0 => t % Width[3] = 0
    <2>1. /\ t % Width[4 + 1] = 0 => t % Width[4] = 0
          /\ t % Width[3 + 1] = 0 => t % Width[3] = 0
      BY <1>3
    <2> QED BY <2>1
  <1>5. t % Width[(a + 1) + 1] = 0
    <2>1. a = 1 \/ a = 2 \/ a = 3
      BY <1>1
    <2>2. b = 2 \/ b = 3 \/ b = 4
      BY <1>1
    <2> QED BY <2>1, <2>2, <1>2, <1>4
  <1>6. (t \div Width[a + 1]) % Level = 0
    <2>1. a + 1 \in 2..5
      BY <1>1
    <2> QED BY <2>1, <1>3, <1>5
  <1> QED BY <1>6 DEF LevelsDue

\* The place of a node stays the same from one tick to the next, unless the
\* node is in the list that timer_shift moves.
LEMMA PlaceStays ==
  ASSUME NEW now \in 0 .. (TimeRange - 1), now + 1 < TimeRange,
         NEW e \in 0 .. (TimeRange - 1), e > now \/ e + Width[5] <= now
  PROVE  \/ Place(e, now + 1) = Place(e, now)
         \/ \E i \in LevelsDue(now + 1) :
              Place(e, now) = <<i, ((now + 1) \div Width[i + 1]) % Level>>
  <1> DEFINE t == now + 1
  <1>0. t \in 0 .. (TimeRange - 1) /\ TimeRange \in Nat /\ now \in Nat /\ e \in Nat
    BY HalfRange
  <1>1. CASE \A j \in 0..4 : SameBlock(e, t, j) <=> SameBlock(e, now, j)
    <2>1. PICK i \in 0..4 : IsLevel(e, now, i)
      BY LevelExists
    <2>2. IsLevel(e, t, i)
      <3>1. \A j \in 0 .. (i - 1) : j \in 0..4
        OBVIOUS
      <3> HIDE DEF t
      <3> QED BY <1>1, <2>1, <3>1 DEF IsLevel
    <2>3. Place(e, now) = <<i, (e \div Width[i + 1]) % Size(i)>>
      BY <2>1, PlaceIs
    <2>4. Place(e, t) = <<i, (e \div Width[i + 1]) % Size(i)>>
      <3> HIDE DEF t
      <3> QED BY <1>0, <2>2, PlaceIs
    <2> QED BY <2>3, <2>4
  <1>2. ASSUME NEW j \in 0..4, ~(SameBlock(e, t, j) <=> SameBlock(e, now, j))
        PROVE  /\ j \in 0..3 /\ ~SameBlock(e, now, j) /\ SameBlock(e, t, j)
               /\ t % Width[j + 2] = 0
    <2>1. SameBlock(e, t, 4) /\ SameBlock(e, now, 4)
      BY <1>0, SameTop
    <2>2. j # 4 /\ j \in 0..3
      BY <1>2, <2>1
    <2>3. now \div Width[j + 2] # t \div Width[j + 2]
      BY <1>2 DEF SameBlock
    <2>4. /\ t \div Width[j + 2] = now \div Width[j + 2] + 1
          /\ t % Width[j + 2] = 0
      BY <2>3, NewBlock
    <2>5. ~SameBlock(e, now, j)
      <3> SUFFICES ASSUME SameBlock(e, now, j) PROVE FALSE
        OBVIOUS
      <3>1. ~(e + Width[5] <= now)
        BY <2>2, FarApart
      <3>2. t <= e
        BY <3>1
      <3>3. Width[j + 2] \in Nat \ {0}
        <4>1. j + 2 \in 1..6
          OBVIOUS
        <4> QED BY <4>1, Widths
      <3>4. t \div Width[j + 2] <= e \div Width[j + 2]
        BY <3>2, <3>3, <1>0, DivMono
      <3>5. e \div Width[j + 2] = now \div Width[j + 2]
        BY DEF SameBlock
      <3>6. now \div Width[j + 2] \in Nat
        BY <1>0, <3>3, Quotient
      <3> DEFINE q == now \div Width[j + 2]
      <3>7. q + 1 <= q /\ q \in Nat
        BY <3>4, <3>5, <3>6, <2>4
      <3> HIDE DEF q
      <3> QED BY <3>7
    <2> QED BY <1>2, <2>2, <2>4, <2>5
  <1>3. CASE \E j \in 0..4 : ~(SameBlock(e, t, j) <=> SameBlock(e, now, j))
    <2> DEFINE D(j) == ~(SameBlock(e, t, j) <=> SameBlock(e, now, j))
    \* The highest of the levels on which a new block begins.
    <2>1. PICK j \in 0..3 : D(j) /\ ~D(j + 1)
      <3>1. ~D(4)
        BY <1>0, SameTop
      <3>2. D(0) \/ D(1) \/ D(2) \/ D(3)
        <4>1. \A k \in 0..4 : k = 0 \/ k = 1 \/ k = 2 \/ k = 3 \/ k = 4
          OBVIOUS
        <4> HIDE DEF D
        <4>2. \E k \in 0..4 : D(k)
          BY <1>3 DEF D
        <4> QED BY <3>1, <4>1, <4>2
      <3> HIDE DEF D
      <3>3. \/ D(0) /\ ~D(0 + 1)
            \/ D(1) /\ ~D(1 + 1)
            \/ D(2) /\ ~D(2 + 1)
            \/ D(3) /\ ~D(3 + 1)
        BY <3>1, <3>2
      <3> QED BY <3>3
    <2>2. j \in 0..4 /\ j + 1 \in 0..4 /\ j + 1 \in 1..4
      OBVIOUS
    <2>3. ~SameBlock(e, now, j) /\ SameBlock(e, t, j) /\ t % Width[j + 2] = 0
      BY <1>2, <2>1, <2>2
    <2>4. SameBlock(e, t, j + 1)
      <3> HIDE DEF t
      <3> QED BY <1>0, <2>3, SameBlockUp
    <2>5. SameBlock(e, now, j + 1)
      BY <2>1, <2>4
    <2>6. IsLevel(e, now, j + 1)
      <3>1. \A k \in 0 .. ((j + 1) - 1) : k \in 0..4 /\ k <= j
        OBVIOUS
      <3>2. \A k \in 0 .. ((j + 1) - 1) : ~SameBlock(e, now, k)
        BY <2>2, <2>3, <3>1, SameBlockMono
      <3> QED BY <2>5, <3>2 DEF IsLevel
    <2>7. Place(e, now) = <<j + 1, (e \div Width[(j + 1) + 1]) % Size(j + 1)>>
      BY <2>2, <2>6, PlaceIs
    <2>8. Size(j + 1) = Level
      BY <2>2 DEF Size
    <2>9. (j + 1) + 1 = j + 2
      OBVIOUS
    <2>10. e \div Width[j + 2] = t \div Width[j + 2]
      BY <2>3 DEF SameBlock
    <2>11. Place(e, now) = <<j + 1, (t \div Width[(j + 1) + 1]) % Level>>
      BY <2>7, <2>8, <2>9, <2>10
    <2>12. (t \div Width[j + 2]) % Level # 0
      <3> SUFFICES ASSUME (t \div Width[j + 2]) % Level = 0 PROVE FALSE
        OBVIOUS
      <3>1. Width[j + 2] \in Nat \ {0} /\ Width[(j + 2) + 1] = Width[j + 2] * Level
        <4>1. j + 2 \in 2..5 /\ j + 2 \in 1..6
          OBVIOUS
        <4> QED BY <4>1, Widths
      <3>2. t % (Width[j + 2] * Level) = 0
        <4> HIDE DEF t
        <4>1. Level \in Nat \ {0} /\ t \in Nat
          BY <1>0, WheelAssumption
        <4> QED BY <4>1, <2>3, <3>1, DivNest
      <3>3. (j + 2) + 1 = (j + 1) + 2
        OBVIOUS
      <3>4. t % Width[(j + 1) + 2] = 0
        BY <3>1, <3>2, <3>3
      <3>5. t \div Width[(j + 1) + 2] = now \div Width[(j + 1) + 2] + 1
        BY <2>2, <3>4, NewBlock
      <3>6. t \div Width[(j + 1) + 2] = now \div Width[(j + 1) + 2]
        BY <2>4, <2>5 DEF SameBlock
      <3>7. now \div Width[(j + 1) + 2] \in Nat
        <4>1. (j + 1) + 2 \in 1..6
          OBVIOUS
        <4>2. Width[(j + 1) + 2] \in Nat \ {0}
          BY <4>1, Widths
        <4> QED BY <1>0, <4>2, Quotient
      <3> DEFINE q == now \div Width[(j + 1) + 2]
      <3>8. q = q + 1 /\ q \in Nat
        BY <3>5, <3>6, <3>7
      <3> HIDE DEF q
      <3> QED BY <3>8
    <2>13. j + 1 \in LevelsDue(t)
      BY <2>2, <2>3, <2>9, <2>12 DEF LevelsDue
    <2> QED BY <2>11, <2>13
  <1> QED BY <1>1, <1>3

\* When the counter wraps, a node's place stays the same unless it is in the
\* first list of the top wheel.
LEMMA PlaceWraps ==
  ASSUME NEW e \in 0 .. (TimeRange - 1), e + Width[5] <= TimeRange - 1
  PROVE  Place(e, 0) = Place(e, TimeRange - 1) \/ Place(e, TimeRange - 1) = <<4, 0>>
  <1> DEFINE now == TimeRange - 1
  <1>0. now \in 0 .. (TimeRange - 1) /\ 0 \in 0 .. (TimeRange - 1) /\ now \in Nat
    BY HalfRange
  <1> HIDE DEF now
  <1>1. IsLevel(e, now, 4)
    <2>1. SameBlock(e, now, 4)
      BY <1>0, SameTop
    <2>2. \A j \in 0 .. (4 - 1) : ~SameBlock(e, now, j)
      <3>1. e + Width[5] <= now /\ e \in Nat
        BY DEF now
      <3>2. \A j \in 0..3 : ~SameBlock(e, now, j)
        BY <1>0, <3>1, FarApart
      <3> QED BY <3>2
    <2> QED BY <2>1, <2>2 DEF IsLevel
  <1>2. Place(e, now) = <<4, (e \div Width[4 + 1]) % Size(4)>>
    BY <1>0, <1>1, PlaceIs
  <1>3. Width[5] \in Nat \ {0} /\ Size(4) = Level /\ Level \in Nat \ {0, 1}
    BY Widths, WheelAssumption DEF Size
  <1>4. CASE e \div Width[5] = 0
    <2>1. 0 = Level * 0 + 0 /\ 0 \in 0 .. (Level - 1)
      BY <1>3
    <2>2. 0 % Level = 0
      BY <2>1, <1>3, DivUnique
    <2> QED BY <1>2, <1>3, <1>4, <2>2 DEF now
  <1>5. CASE e \div Width[5] # 0
    <2>1. 0 \div Width[5] = 0
      <3>1. 0 = Width[5] * 0 + 0 /\ 0 \in 0 .. (Width[5] - 1)
        BY <1>3
      <3> QED BY <3>1, <1>3, DivUnique
    <2>2. ~SameBlock(e, 0, 3)
      BY <1>5, <2>1 DEF SameBlock
    <2>3. IsLevel(e, 0, 4)
      <3>1. SameBlock(e, 0, 4)
        BY <1>0, SameTop
      <3>2. \A j \in 0 .. (4 - 1) : j \in 0..4 /\ j <= 3
        OBVIOUS
      <3>3. \A j \in 0 .. (4 - 1) : ~SameBlock(e, 0, j)
        BY <2>2, <3>2, SameBlockMono
      <3> QED BY <3>1, <3>3 DEF IsLevel
    <2>4. Place(e, 0) = <<4, (e \div Width[4 + 1]) % Size(4)>>
      BY <1>0, <2>3, PlaceIs
    <2> QED BY <1>2, <2>4 DEF now
  <1> QED BY <1>4, <1>5

\* A node in the list of the near wheel that is executed expires now, and a
\* node that expires now is in that list.
LEMMA NearDue ==
  ASSUME NEW e \in 0 .. (TimeRange - 1), NEW now \in 0 .. (TimeRange - 1)
  PROVE  Place(e, now) = <<0, now % Near>> <=> e = now
  <1>0. Width[0 + 1] = 1 /\ Width[0 + 2] = Near /\ Near \in Nat \ {0}
    BY Widths, WheelAssumption
  <1>1. \A x \in Nat : x \div 1 = x
    <2> SUFFICES ASSUME NEW x \in Nat PROVE x \div 1 = x
      OBVIOUS
    <2>1. x = 1 * x + 0 /\ 0 \in 0 .. (1 - 1)
      OBVIOUS
    <2> QED BY <2>1, DivUnique
  <1>2. ASSUME e = now PROVE Place(e, now) = <<0, now % Near>>
    <2>1. IsLevel(e, now, 0)
      BY <1>2 DEF IsLevel, SameBlock
    <2>2. Place(e, now) = <<0, (e \div Width[0 + 1]) % Size(0)>>
      BY <2>1, PlaceIs
    <2>3. e \div Width[0 + 1] = now
      BY <1>0, <1>1, <1>2
    <2>4. Size(0) = Near
      BY DEF Size
    <2> QED BY <2>2, <2>3, <2>4
  <1>3. ASSUME Place(e, now) = <<0, now % Near>> PROVE e = now
    <2>1. PICK i \in 0..4 : IsLevel(e, now, i)
      BY LevelExists
    <2>2. Place(e, now) = <<i, (e \div Width[i + 1]) % Size(i)>>
      BY <2>1, PlaceIs
    <2>3. i = 0
      BY <1>3, <2>2
    <2>4. (e \div Width[0 + 1]) % Size(0) = now % Near
      BY <1>3, <2>2, <2>3
    <2>5. e % Near = now % Near
      BY <2>4, <1>0, <1>1 DEF Size
    <2>6. e \div Near = now \div Near
      BY <1>0, <2>1, <2>3 DEF IsLevel, SameBlock
    <2>7. e = Near * (e \div Near) + (e % Near)
      BY <1>0, Quotient
    <2>8. now = Near * (now \div Near) + (now % Near)
      BY <1>0, Quotient
    <2> QED BY <2>5, <2>6, <2>7, <2>8
  <1> QED BY <1>2, <1>3

-----------------------------------------------------------------------------
(* Lists                                                                   *)

LEMMA LessWellFounded == IsWellFoundedOn({ss \in Nat \X Nat : ss[1] < ss[2]}, Nat)
  BY NatLessThanWellFounded DEF OpToRel

\* Induction over the naturals, for sets.
LEMMA SetInduction ==
  ASSUME NEW T \in SUBSET Nat, 0 \in T, \A n \in T : n + 1 \in T
  PROVE  T = Nat
  <1> DEFINE R == {ss \in Nat \X Nat : ss[1] < ss[2]}
             U == Nat \ T
  <1>1. IsWellFoundedOn(R, Nat)
    BY LessWellFounded
  <1> SUFFICES ASSUME U # {} PROVE FALSE
    OBVIOUS
  <1>2. U \subseteq Nat
    OBVIOUS
  <1>3. PICK x \in U : \A y \in U : ~(<<y, x>> \in R)
    <2> HIDE DEF R, U
    <2> QED BY <1>1, <1>2, WFMin
  <1>4. x # 0 /\ x - 1 \in Nat /\ x - 1 < x
    OBVIOUS
  <1>5. <<x - 1, x>> \in R
    BY <1>4
  <1>6. x - 1 \in T
    BY <1>3, <1>4, <1>5
  <1> QED BY <1>6, <1>4

\* f lists the set K in increasing order.
Lists(f, m, K) ==
  /\ \A i, j \in 1..m : i < j => f[i] < f[j]
  /\ \A k \in K : \E i \in 1..m : f[i] = k

Listable(K, n) == \E m \in 0..n : \E f \in [1..m -> K] : Lists(f, m, K)

LEMMA ListableAll ==
  ASSUME NEW n \in Nat, NEW K \in SUBSET (1..n)
  PROVE  Listable(K, n)
  <1> DEFINE T == { k \in Nat : \A L \in SUBSET (1..k) : Listable(L, k) }
  <1>1. T \in SUBSET Nat
    OBVIOUS
  <1>2. 0 \in T
    <2> SUFFICES ASSUME NEW L \in SUBSET (1..0) PROVE Listable(L, 0)
      OBVIOUS
    <2>1. L = {}
      OBVIOUS
    <2>2. << >> \in [1..0 -> L] /\ 0 \in 0..0
      OBVIOUS
    <2>3. Lists(<< >>, 0, L)
      BY <2>1 DEF Lists
    <2> QED BY <2>2, <2>3 DEF Listable
  <1>3. \A k \in T : k + 1 \in T
    <2> SUFFICES ASSUME NEW k \in T, NEW L \in SUBSET (1 .. (k + 1))
                 PROVE  Listable(L, k + 1)
      OBVIOUS
    <2> DEFINE M == L \ {k + 1}
    <2>1. k \in Nat /\ M \in SUBSET (1..k)
      OBVIOUS
    <2>2. PICK m \in 0..k : \E f \in [1..m -> M] : Lists(f, m, M)
      BY <2>1 DEF Listable
    <2>3. PICK f \in [1..m -> M] : Lists(f, m, M)
      BY <2>2
    <2>4. CASE k + 1 \notin L
      <3>1. M = L /\ m \in 0 .. (k + 1)
        BY <2>1, <2>4
      <3> QED BY <2>3, <3>1 DEF Listable
    <2>5. CASE k + 1 \in L
      <3> DEFINE g == [i \in 1 .. (m + 1) |-> IF i <= m THEN f[i] ELSE k + 1]
      <3>1. m + 1 \in 0 .. (k + 1) /\ m \in Nat
        BY <2>1
      <3>2. \A i \in 1..m : f[i] \in M /\ f[i] \in 1..k /\ f[i] \in L
        BY <2>1
      <3>3. \A i \in 1 .. (m + 1) : (i \in 1..m /\ i <= m) \/ (i = m + 1 /\ ~(i <= m))
        BY <3>1
      <3>4. \A i \in 1..m : i \in 1 .. (m + 1) /\ g[i] = f[i]
        BY <3>1
      <3>5. m + 1 \in 1 .. (m + 1) /\ g[m + 1] = k + 1
        BY <3>1
      <3>6. g \in [1 .. (m + 1) -> L]
        BY <2>5, <3>2, <3>3
      <3> HIDE DEF g
      <3>7. \A i, j \in 1 .. (m + 1) : i < j => g[i] < g[j]
        <4> SUFFICES ASSUME NEW i \in 1 .. (m + 1), NEW j \in 1 .. (m + 1), i < j
                     PROVE  g[i] < g[j]
          OBVIOUS
        <4>1. i \in 1..m
          BY <3>1
        <4>2. CASE j \in 1..m
          BY <4>1, <4>2, <3>4, <2>3 DEF Lists
        <4>3. CASE j = m + 1
          BY <4>1, <4>3, <3>2, <3>4, <3>5, <2>1
        <4> QED BY <3>3, <4>2, <4>3
      <3>8. \A a \in L : \E i \in 1 .. (m + 1) : g[i] = a
        <4> SUFFICES ASSUME NEW a \in L PROVE \E i \in 1 .. (m + 1) : g[i] = a
          OBVIOUS
        <4>1. CASE a = k + 1
          BY <4>1, <3>5
        <4>2. CASE a # k + 1
          <5>1. PICK i \in 1..m : f[i] = a
            BY <4>2, <2>3 DEF Lists
          <5> QED BY <5>1, <3>4
        <4> QED BY <4>1, <4>2
      <3>9. Lists(g, m + 1, L)
        BY <3>7, <3>8 DEF Lists
      <3> QED BY <3>1, <3>6, <3>9 DEF Listable
    <2> QED BY <2>4, <2>5
  <1>4. T = Nat
    <2> HIDE DEF T
    <2> QED BY <1>1, <1>2, <1>3, SetInduction
  <1> QED BY <1>4

\* Pick returns the elements at the places in K and no others.
LEMMA PickIs ==
  ASSUME NEW S, NEW l \in Seq(S), NEW K \in SUBSET (DOMAIN l)
  PROVE  /\ Pick(l, K) \in Seq(S)
         /\ \A i \in DOMAIN Pick(l, K) : \E k \in K : Pick(l, K)[i] = l[k]
         /\ \A k \in K : \E i \in DOMAIN Pick(l, K) : Pick(l, K)[i] = l[k]
  <1>a. CASE K = {}
    <2>1. Pick(l, K) = <<>>
      BY <1>a, Zenon DEF Pick
    <2>2. Pick(l, K) \in Seq(S)
      BY <2>1
    <2>3. DOMAIN Pick(l, K) = {}
      BY <2>1
    <2> QED BY <1>a, <2>2, <2>3
  <1>b. CASE K # {}
    <2> DEFINE F == UNION { [1..m -> K] : m \in 1..Len(l) }
               P(f) == /\ \A i, j \in DOMAIN f : i < j => f[i] < f[j]
                       /\ \A k \in K : \E i \in DOMAIN f : f[i] = k
               h == CHOOSE f \in F : P(f)
               p == [i \in DOMAIN h |-> l[h[i]]]
    <2>1. Len(l) \in Nat /\ DOMAIN l = 1..Len(l)
      OBVIOUS
    <2>2. \E f \in F : P(f)
      <3>1. PICK m \in 0..Len(l) : \E f \in [1..m -> K] : Lists(f, m, K)
        BY <2>1, ListableAll DEF Listable
      <3>2. PICK f \in [1..m -> K] : Lists(f, m, K)
        BY <3>1
      <3>3. DOMAIN f = 1..m
        OBVIOUS
      <3>4. P(f)
        BY <3>2, <3>3 DEF Lists
      <3>5. m # 0
        BY <1>b, <3>3, <3>4
      <3>6. m \in 1..Len(l)
        BY <2>1, <3>5
      <3>7. f \in F
        BY <3>6
      <3> HIDE DEF P, F
      <3> QED BY <3>4, <3>7
    <2>3. h \in F /\ P(h)
      <3> HIDE DEF F, P
      <3> QED BY <2>2 DEF h
    <2>4. PICK m \in 1..Len(l) : h \in [1..m -> K]
      <3> HIDE DEF h, P
      <3> QED BY <2>3
    <2>5. m \in Nat
      BY <2>1
    <2>6. Pick(l, K) = p
      BY <1>b, Zenon DEF Pick
    <2> HIDE DEF h, F
    <2>7. DOMAIN h = 1..m /\ \A i \in 1..m : h[i] \in K /\ h[i] \in DOMAIN l
      BY <2>4
    <2>8. \A i \in 1..m : l[h[i]] \in S
      BY <2>1, <2>7
    <2>9. p \in [1..m -> S]
      BY <2>7, <2>8
    <2>10. p \in Seq(S) /\ DOMAIN p = 1..m
      BY <2>5, <2>9
    <2>11. \A i \in 1..m : p[i] = l[h[i]]
      BY <2>7
    <2> HIDE DEF p
    <2>12. \A i \in DOMAIN p : \E k \in K : p[i] = l[k]
      BY <2>7, <2>10, <2>11
    <2>13. \A k \in K : \E i \in DOMAIN p : p[i] = l[k]
      <3> SUFFICES ASSUME NEW k \in K PROVE \E i \in DOMAIN p : p[i] = l[k]
        OBVIOUS
      <3>1. PICK i \in DOMAIN h : h[i] = k
        BY <2>3
      <3> QED BY <3>1, <2>7, <2>10, <2>11
    <2> QED BY <2>6, <2>10, <2>12, <2>13
  <1> QED BY <1>a, <1>b

-----------------------------------------------------------------------------
(* What the operations do to the wheel                                     *)

LEMMA NodeFields ==
  ASSUME NEW n \in Node
  PROVE  n.handle \in Handles /\ n.ctx \in Ctx /\ n.expire \in 0 .. (TimeRange - 1)
  BY DEF Node

Wheels == [Slots -> Seq(Node)]

\* w holds the nodes of the wheel, and no others.
SameNodes(w) ==
  /\ \A x \in Slots : \A i \in DOMAIN w[x] :
       \E y \in Slots : \E k \in DOMAIN wheel[y] : w[x][i] = wheel[y][k]
  /\ \A y \in Slots : \A k \in DOMAIN wheel[y] :
       \E x \in Slots : \E i \in DOMAIN w[x] : w[x][i] = wheel[y][k]

\* move_list loses no node and puts each one it moves in its place.
LEMMA MoveListIs ==
  ASSUME wheel \in Wheels, NEW s \in Slots, NEW now \in 0 .. (TimeRange - 1)
  PROVE  /\ MoveList(s, now) \in Wheels
         /\ SameNodes(MoveList(s, now))
         /\ \A x \in Slots : \A i \in DOMAIN MoveList(s, now)[x] :
              \/ x # s /\ \E k \in DOMAIN wheel[x] : MoveList(s, now)[x][i] = wheel[x][k]
              \/ Place(MoveList(s, now)[x][i].expire, now) = x
  <1> DEFINE to(x) == { i \in DOMAIN wheel[s] : Place(wheel[s][i].expire, now) = x }
             old(x) == IF x = s THEN <<>> ELSE wheel[x]
             new(x) == Pick(wheel[s], to(x))
             w == [x \in Slots |-> old(x) \o new(x)]
  <1>1. MoveList(s, now) = IF wheel[s] = <<>> THEN wheel ELSE w
    BY Zenon DEF MoveList
  <1>2. \A x \in Slots : wheel[x] \in Seq(Node)
    BY DEF Wheels
  <1> HIDE DEF Node
  <1>3. ASSUME NEW x \in Slots
        PROVE  /\ new(x) \in Seq(Node)
               /\ \A i \in DOMAIN new(x) : \E k \in to(x) : new(x)[i] = wheel[s][k]
               /\ \A k \in to(x) : \E i \in DOMAIN new(x) : new(x)[i] = wheel[s][k]
    <2>1. to(x) \in SUBSET (DOMAIN wheel[s]) /\ wheel[s] \in Seq(Node)
      BY <1>2
    <2> HIDE DEF to
    <2> QED BY <2>1, PickIs
  <1>4. \A x \in Slots : old(x) \in Seq(Node)
    BY <1>2
  <1>5. \A x \in Slots : w[x] = old(x) \o new(x)
    OBVIOUS
  <1>6. \A x \in Slots : \A k \in to(x) : k \in DOMAIN wheel[s] /\ Place(wheel[s][k].expire, now) = x
    OBVIOUS
  <1>7. \A k \in DOMAIN wheel[s] : k \in to(Place(wheel[s][k].expire, now))
    OBVIOUS
  <1>8. \A x \in Slots : (x = s => old(x) = <<>>) /\ (x # s => old(x) = wheel[x])
    OBVIOUS
  <1>a. w \in Wheels
    <2> HIDE DEF old, new
    <2>1. \A x \in Slots : old(x) \o new(x) \in Seq(Node)
      BY <1>3, <1>4
    <2> QED BY <2>1 DEF Wheels
  <1> HIDE DEF w, old, new, to
  \* Where the nodes of a list of w come from.
  <1>9. ASSUME NEW x \in Slots, NEW i \in DOMAIN w[x]
        PROVE  \/ x # s /\ \E k \in DOMAIN wheel[x] : w[x][i] = wheel[x][k]
               \/ \E k \in to(x) : w[x][i] = wheel[s][k]
    <2>1. old(x) \in Seq(Node) /\ new(x) \in Seq(Node) /\ w[x] = old(x) \o new(x)
      BY <1>3, <1>4, <1>5
    <2>2. /\ Len(old(x)) \in Nat /\ Len(new(x)) \in Nat /\ i \in 1 .. (Len(old(x)) + Len(new(x)))
          /\ w[x][i] = IF i <= Len(old(x)) THEN old(x)[i] ELSE new(x)[i - Len(old(x))]
      BY <2>1
    <2>3. CASE i <= Len(old(x))
      <3>1. i \in DOMAIN old(x) /\ w[x][i] = old(x)[i]
        BY <2>1, <2>2, <2>3
      <3>2. x # s
        BY <1>8, <3>1, <2>2, <2>3
      <3> QED BY <1>8, <3>1, <3>2
    <2>4. CASE i > Len(old(x))
      <3>1. i - Len(old(x)) \in DOMAIN new(x) /\ w[x][i] = new(x)[i - Len(old(x))]
        BY <2>1, <2>2, <2>4
      <3> QED BY <1>3, <3>1
    <2>5. i <= Len(old(x)) \/ i > Len(old(x))
      BY <2>2
    <2> QED BY <2>3, <2>4, <2>5
  \* Where the nodes of the wheel go.
  <1>10. ASSUME NEW y \in Slots, NEW k \in DOMAIN wheel[y]
         PROVE  \E x \in Slots : \E i \in DOMAIN w[x] : w[x][i] = wheel[y][k]
    <2>1. CASE y # s
      <3>1. old(y) = wheel[y] /\ old(y) \in Seq(Node) /\ new(y) \in Seq(Node)
        BY <1>3, <1>4, <1>8, <2>1
      <3>2. w[y] = old(y) \o new(y)
        BY <1>5
      <3>3. k \in DOMAIN w[y] /\ w[y][k] = old(y)[k]
        BY <3>1, <3>2
      <3> QED BY <3>1, <3>3
    <2>2. CASE y = s
      <3> DEFINE x == Place(wheel[s][k].expire, now)
      <3>1. x \in Slots
        <4>1. wheel[s][k] \in Node
          BY <1>2, <2>2
        <4> QED BY <4>1, NodeFields, PlaceSlot
      <3>2. k \in to(x)
        BY <1>7, <2>2
      <3> HIDE DEF x
      <3>3. PICK i \in DOMAIN new(x) : new(x)[i] = wheel[s][k]
        BY <1>3, <3>1, <3>2
      <3>4. old(x) \in Seq(Node) /\ new(x) \in Seq(Node) /\ w[x] = old(x) \o new(x)
        BY <1>3, <1>4, <1>5, <3>1
      <3>5. Len(old(x)) + i \in DOMAIN w[x] /\ w[x][Len(old(x)) + i] = new(x)[i]
        BY <3>4
      <3> QED BY <2>2, <3>1, <3>3, <3>5
    <2> QED BY <2>1, <2>2
  <1>11. SameNodes(w)
    <2>1. \A x \in Slots : \A i \in DOMAIN w[x] :
            \E y \in Slots : \E k \in DOMAIN wheel[y] : w[x][i] = wheel[y][k]
      BY <1>6, <1>9
    <2> QED BY <2>1, <1>10 DEF SameNodes
  <1>12. \A x \in Slots : \A i \in DOMAIN w[x] :
           \/ x # s /\ \E k \in DOMAIN wheel[x] : w[x][i] = wheel[x][k]
           \/ Place(w[x][i].expire, now) = x
    <2> SUFFICES ASSUME NEW x \in Slots, NEW i \in DOMAIN w[x]
                 PROVE  \/ x # s /\ \E k \in DOMAIN wheel[x] : w[x][i] = wheel[x][k]
                        \/ Place(w[x][i].expire, now) = x
      OBVIOUS
    <2>1. CASE \E k \in to(x) : w[x][i] = wheel[s][k]
      BY <2>1, <1>6
    <2> QED BY <1>9, <2>1
  \* An empty list is not moved.
  <1>13. CASE wheel[s] = <<>>
    <2>1. MoveList(s, now) = wheel
      BY <1>1, <1>13
    <2>2. SameNodes(wheel)
      BY DEF SameNodes
    <2>3. \A x \in Slots : \A i \in DOMAIN wheel[x] : x # s
      BY <1>13
    <2> QED BY <2>1, <2>2, <2>3
  <1>14. CASE wheel[s] # <<>>
    <2>1. MoveList(s, now) = w
      BY <1>1, <1>14
    <2> QED BY <2>1, <1>a, <1>11, <1>12
  <1> QED BY <1>13, <1>14

\* What timer_shift moves.
LEMMA ShiftedIs ==
  ASSUME NEW t \in 0 .. (TimeRange - 1)
  PROVE  \/ t = 0 /\ Shifted(t) = MoveList(<<4, 0>>, t)
         \/ t # 0 /\ LevelsDue(t) = {} /\ Shifted(t) = wheel
         \/ t # 0 /\ \E i \in LevelsDue(t) :
              Shifted(t) = MoveList(<<i, (t \div Width[i + 1]) % Level>>, t)
  <1> DEFINE L == LevelsDue(t)
             l == CHOOSE i \in L : \A j \in L : i <= j
  <1>1. Shifted(t) = IF t = 0 THEN MoveList(<<4, 0>>, t)
                     ELSE IF L = {} THEN wheel
                     ELSE MoveList(<<l, (t \div Width[l + 1]) % Level>>, t)
    BY Zenon DEF Shifted, LevelsDue
  <1>2. CASE t = 0
    BY <1>1, <1>2
  <1>3. CASE t # 0 /\ L = {}
    BY <1>1, <1>3
  <1>4. CASE t # 0 /\ L # {}
    <2>1. PICK i \in L : TRUE
      BY <1>4
    <2>2. t \in Nat /\ L \subseteq Nat
      BY HalfRange DEF LevelsDue
    <2>3. \A j \in L : i = j
      BY <2>1, <2>2, OneDue
    <2>4. \A j \in L : i <= j
      BY <2>1, <2>2, <2>3
    <2>5. l \in L
      BY <2>1, <2>4
    <2>6. Shifted(t) = MoveList(<<l, (t \div Width[l + 1]) % Level>>, t)
      BY <1>1, <1>4
    <2> HIDE DEF l
    <2> QED BY <1>4, <2>5, <2>6
  <1> QED BY <1>2, <1>3, <1>4

\* A node that is not due stays in its place when the counter moves.
Waiting(n, x) ==
  /\ Place(n.expire, time) = x
  /\ \E d \in 1 .. (TimeRange \div 2 - 1) : n.expire = (time + d) % TimeRange

LEMMA ShiftKeepsPlaces ==
  ASSUME wheel \in Wheels, time \in 0 .. (TimeRange - 1),
         \A x \in Slots : \A i \in DOMAIN wheel[x] : Waiting(wheel[x][i], x),
         NEW t, t = (time + 1) % TimeRange
  PROVE  /\ t \in 0 .. (TimeRange - 1)
         /\ Shifted(t) \in Wheels
         /\ SameNodes(Shifted(t))
         /\ \A x \in Slots : \A i \in DOMAIN Shifted(t)[x] :
              Place(Shifted(t)[x][i].expire, t) = x
  <1> HIDE DEF Node
  <1> DEFINE half == TimeRange \div 2
  <1>1. /\ TimeRange \in Nat \ {0} /\ Width[5] \in Nat \ {0} /\ half \in Nat
        /\ half - 1 + Width[5] < TimeRange /\ half + half <= TimeRange
    BY HalfRange, Widths
  <1>2. t = IF time + 1 < TimeRange THEN time + 1 ELSE 0
    <2>1. time + 1 \in Nat /\ time + 1 < TimeRange + TimeRange
      BY <1>1
    <2>2. t = IF time + 1 < TimeRange THEN time + 1 ELSE (time + 1) - TimeRange
      <3> DEFINE y == time + 1
      <3> HIDE DEF y
      <3>1. y % TimeRange = IF y < TimeRange THEN y ELSE y - TimeRange
        BY <1>1, <2>1, Wrap DEF y
      <3> QED BY <3>1 DEF y
    <2> QED BY <1>1, <2>2
  <1>3. t \in 0 .. (TimeRange - 1)
    BY <1>1, <1>2
  \* A node whose place changes is in the list that is moved.
  <1>4. ASSUME NEW x \in Slots, NEW i \in DOMAIN wheel[x],
               Place(wheel[x][i].expire, t) # x
        PROVE  \/ t = 0 /\ x = <<4, 0>>
               \/ t # 0 /\ \E j \in LevelsDue(t) : x = <<j, (t \div Width[j + 1]) % Level>>
    <2> DEFINE e == wheel[x][i].expire
    <2>1. e \in 0 .. (TimeRange - 1)
      <3>1. wheel[x][i] \in Node
        BY DEF Wheels
      <3> QED BY <3>1, NodeFields
    <2>2. Place(e, time) = x
      BY DEF Waiting
    <2>3. PICK d \in 1 .. (half - 1) : e = (time + d) % TimeRange
      BY DEF Waiting
    <2> HIDE DEF e, half
    <2>4. e = IF time + d < TimeRange THEN time + d ELSE (time + d) - TimeRange
      <3> DEFINE y == time + d
      <3>1. y \in Nat /\ y < TimeRange + TimeRange
        BY <1>1
      <3> HIDE DEF y
      <3>2. y % TimeRange = IF y < TimeRange THEN y ELSE y - TimeRange
        BY <1>1, <3>1, Wrap
      <3> QED BY <2>3, <3>2 DEF y
    <2>5. e > time \/ e + Width[5] <= time
      BY <1>1, <2>4
    <2>6. CASE time + 1 < TimeRange
      <3>1. t = time + 1 /\ t # 0
        BY <1>1, <1>2, <2>6
      <3>2. \/ Place(e, time + 1) = Place(e, time)
            \/ \E j \in LevelsDue(time + 1) :
                 Place(e, time) = <<j, ((time + 1) \div Width[j + 1]) % Level>>
        BY <2>1, <2>5, <2>6, PlaceStays
      <3>3. Place(e, t) # x
        BY <1>4 DEF e
      <3> QED BY <2>2, <3>1, <3>2, <3>3
    <2>7. CASE ~(time + 1 < TimeRange)
      <3>1. t = 0 /\ time = TimeRange - 1
        BY <1>1, <1>2, <2>7
      <3>2. e + Width[5] <= TimeRange - 1
        BY <1>1, <2>1, <2>5, <3>1
      <3>3. Place(e, 0) = Place(e, TimeRange - 1) \/ Place(e, TimeRange - 1) = <<4, 0>>
        BY <2>1, <3>2, PlaceWraps
      <3>4. Place(e, t) # x
        BY <1>4 DEF e
      <3> QED BY <2>2, <3>1, <3>3, <3>4
    <2> QED BY <2>6, <2>7
  <1> HIDE DEF half
  <1>5. ASSUME NEW s \in Slots, Shifted(t) = MoveList(s, t),
               \A x \in Slots : \A i \in DOMAIN wheel[x] :
                 Place(wheel[x][i].expire, t) # x => x = s
        PROVE  /\ Shifted(t) \in Wheels
               /\ SameNodes(Shifted(t))
               /\ \A x \in Slots : \A i \in DOMAIN Shifted(t)[x] :
                    Place(Shifted(t)[x][i].expire, t) = x
    <2> DEFINE w == MoveList(s, t)
    <2>1. /\ w \in Wheels /\ SameNodes(w)
          /\ \A x \in Slots : \A i \in DOMAIN w[x] :
               \/ x # s /\ \E k \in DOMAIN wheel[x] : w[x][i] = wheel[x][k]
               \/ Place(w[x][i].expire, t) = x
      BY <1>3, MoveListIs
    <2>2. w = Shifted(t)
      BY <1>5
    <2> HIDE DEF w
    <2>3. \A x \in Slots : \A i \in DOMAIN w[x] : Place(w[x][i].expire, t) = x
      BY <1>5, <2>1
    <2> QED BY <2>1, <2>2, <2>3
  <1>6. CASE t = 0 /\ Shifted(t) = MoveList(<<4, 0>>, t)
    <2>1. <<4, 0>> \in Slots
      BY WheelAssumption DEF Slots
    <2> QED BY <1>3, <1>4, <1>5, <1>6, <2>1
  <1>7. CASE t # 0 /\ LevelsDue(t) = {} /\ Shifted(t) = wheel
    <2>1. \A x \in Slots : \A i \in DOMAIN wheel[x] : Place(wheel[x][i].expire, t) = x
      BY <1>4, <1>7
    <2>2. SameNodes(wheel)
      BY DEF SameNodes
    <2> QED BY <1>3, <1>7, <2>1, <2>2
  <1>8. CASE t # 0 /\ \E i \in LevelsDue(t) :
               Shifted(t) = MoveList(<<i, (t \div Width[i + 1]) % Level>>, t)
    <2>1. PICK i \in LevelsDue(t) :
            Shifted(t) = MoveList(<<i, (t \div Width[i + 1]) % Level>>, t)
      BY <1>8
    <2>2. t \in Nat /\ i \in 1..4
      BY <1>1, <1>3 DEF LevelsDue
    <2> DEFINE s == <<i, (t \div Width[i + 1]) % Level>>
    <2>3. s \in Slots
      <3>1. i + 1 \in 1..6
        BY <2>2
      <3>2. Width[i + 1] \in Nat \ {0} /\ Level \in Nat \ {0}
        BY <3>1, Widths, WheelAssumption
      <3>3. t \div Width[i + 1] \in Nat
        BY <2>2, <3>2, Quotient
      <3>4. (t \div Width[i + 1]) % Level \in 0 .. (Level - 1)
        BY <3>2, <3>3, Quotient
      <3> QED BY <2>2, <3>4 DEF Slots
    <2>4. \A j \in LevelsDue(t) : j = i
      BY <2>2, OneDue
    <2>5. \A x \in Slots : \A k \in DOMAIN wheel[x] :
            Place(wheel[x][k].expire, t) # x => x = s
      BY <1>4, <1>8, <2>4
    <2>6. Shifted(t) = MoveList(s, t)
      BY <2>1
    <2> HIDE DEF s
    <2> QED BY <1>3, <1>5, <2>3, <2>5, <2>6
  <1> QED BY <1>3, <1>6, <1>7, <1>8, ShiftedIs

-----------------------------------------------------------------------------
(* What the operations do to the maps                                      *)

\* _RemoveTimerHandle takes a handle out of both maps.
CtxForgets(h0) == [h \in Handles |-> IF h = h0 THEN Nil ELSE ctxMap[h]]
KeysForget(h0) == [k \in Keys |-> IF keyMap[k] = h0 THEN Nil ELSE keyMap[k]]

LEMMA Forgotten ==
  ASSUME TypeOK, MapsAgree, NEW h0 \in Handles
  PROVE  CtxWithout(h0) = CtxForgets(h0) /\ KeysWithout(h0) = KeysForget(h0)
  <1> USE DEF TypeOK
  <1>0. h0 # Nil
    BY HandleAssumption DEF Handles, Nil
  <1>1. CtxWithout(h0) = CtxForgets(h0)
    BY DEF CtxWithout, CtxForgets
  <1>2. CASE ctxMap[h0] = Nil
    <2>1. \A k \in Keys : keyMap[k] # h0
      BY <1>0, <1>2 DEF MapsAgree
    <2>2. KeysWithout(h0) = keyMap
      BY <1>2 DEF KeysWithout
    <2>3. KeysForget(h0) = keyMap
      BY <2>1 DEF KeysForget
    <2> QED BY <1>1, <2>2, <2>3
  <1>3. CASE ctxMap[h0] # Nil
    <2> DEFINE k0 == keyOf[ctxMap[h0]]
    <2>1. ctxMap[h0] \in Ctx /\ k0 \in Keys
      BY <1>3
    <2>2. keyMap[k0] = h0
      BY <1>3 DEF MapsAgree, InUse
    <2>3. \A k \in Keys : keyMap[k] = h0 => k = k0
      BY <1>0, <1>3 DEF MapsAgree
    <2>4. KeysWithout(h0) = [keyMap EXCEPT ![k0] = Nil]
      BY <1>3 DEF KeysWithout
    <2> HIDE DEF k0
    <2>5. [keyMap EXCEPT ![k0] = Nil] = KeysForget(h0)
      BY <2>1, <2>2, <2>3 DEF KeysForget
    <2> QED BY <1>1, <2>4, <2>5
  <1> QED BY <1>2, <1>3

\* _GenerateHandleID counts up.
LEMMA NextHandleIs ==
  ASSUME adds \in Nat, adds < MaxAdds, counter = adds,
         NEW used \in SUBSET (1..adds)
  PROVE  adds + 1 \in Handles /\ adds + 1 \in Ctx /\ NextHandle(used) = adds + 1
  <1> DEFINE rank(h) == IF h > counter THEN h - counter ELSE h + HandleMax
             free == Handles \ used
             P(h) == \A g \in free : rank(h) <= rank(g)
             r == CHOOSE h \in free : P(h)
  <1>1. HandleMax \in Nat /\ MaxAdds \in Nat /\ MaxAdds < HandleMax
    BY HandleAssumption
  <1>2. adds + 1 \in Handles /\ adds + 1 \in Ctx /\ adds + 1 \in free
    BY <1>1 DEF Handles, Ctx
  <1>3. \A g \in free : g \in Nat /\ g >= 1
    BY <1>1 DEF Handles
  <1>4. rank(adds + 1) = 1
    BY <1>1
  <1>5. \A g \in free : g # adds + 1 => rank(g) > 1
    <2> SUFFICES ASSUME NEW g \in free, g # adds + 1 PROVE rank(g) > 1
      OBVIOUS
    <2>1. CASE g > counter
      BY <1>3, <2>1
    <2>2. CASE ~(g > counter)
      BY <1>1, <1>3, <2>2
    <2> QED BY <2>1, <2>2
  <1>6. P(adds + 1)
    <2> HIDE DEF rank
    <2>1. \A g \in free : rank(adds + 1) <= rank(g)
      <3> SUFFICES ASSUME NEW g \in free PROVE rank(adds + 1) <= rank(g)
        OBVIOUS
      <3>1. rank(g) \in Int
        BY <1>1, <1>3 DEF rank
      <3> QED BY <1>4, <1>5, <3>1
    <2> QED BY <2>1
  <1>7. \A h \in free : P(h) => h = adds + 1
    <2> SUFFICES ASSUME NEW h \in free, P(h), h # adds + 1 PROVE FALSE
      OBVIOUS
    <2> HIDE DEF rank
    <2>1. rank(h) <= rank(adds + 1)
      BY <1>2
    <2>2. rank(h) > 1 /\ rank(h) \in Int
      BY <1>1, <1>3, <1>5 DEF rank
    <2> QED BY <1>4, <2>1, <2>2
  <1>8. NextHandle(used) = r
    BY Zenon DEF NextHandle
  <1>9. r \in free /\ P(r)
    <2> HIDE DEF P, free
    <2> QED BY <1>2, <1>6
  <1> HIDE DEF P, r
  <1> QED BY <1>2, <1>7, <1>8, <1>9

-----------------------------------------------------------------------------
(* The inductive invariant                                                 *)

\* A handle is the number of its context: with fewer than HandleMax timers
\* _GenerateHandleID only ever counts up.
HandleInv ==
  /\ counter = adds
  /\ \A h \in Handles : ctxMap[h] # Nil => ctxMap[h] = h /\ h <= adds

\* m_stLock is held exactly while a timer, the newest, is between the maps
\* and the wheel.
AddInv ==
  /\ mLock <=> adding # NoAdd
  /\ adding # NoAdd => /\ adding \in [time : Times, handle : Handles]
                       /\ adding.handle = adds /\ adds \in Ctx

\* A node carries the handle of its context, which has left AddTimer.
NodeOK(n) ==
  /\ n.handle = n.ctx /\ n.ctx <= adds
  /\ adding # NoAdd => n.ctx # adds

\* A node of list x is where add_node would put it now, and its expiry is
\* the tick in which its context is due.
OnTime(n, x) ==
  /\ NodeOK(n)
  /\ Place(n.expire, time) = x
  /\ left[n.ctx] \in 0 .. (TimeRange \div 2 - 1)
  /\ n.expire = (time + left[n.ctx]) % TimeRange
  /\ timerPc \in {"idle", "execute0"} => left[n.ctx] > 0

WheelInv == \A x \in Slots : \A i \in DOMAIN wheel[x] : OnTime(wheel[x][i], x)

\* The timer thread dispatches nodes that are due, after the shift only.
DispatchInv ==
  /\ timerPc # "dispatch0"
  /\ timerPc # "dispatch1" => dispatching = <<>>
  /\ \A i \in DOMAIN dispatching :
       NodeOK(dispatching[i]) /\ left[dispatching[i].ctx] = 0

\* A timer in the maps has a node, on the wheel or on its way out.
HasNode(c) ==
  \/ \E x \in Slots : \E i \in DOMAIN wheel[x] : wheel[x][i].ctx = c
  \/ \E i \in DOMAIN dispatching : dispatching[i].ctx = c

NodesInv == \A c \in Ctx : OnWheel(c) => HasNode(c)

IInv ==
  /\ TypeOK /\ HandleInv /\ MapsAgree /\ AddInv
  /\ WheelInv /\ DispatchInv /\ NodesInv

LEMMA InitInv ==
  ASSUME Init
  PROVE  IInv
  <1> USE DEF Init
  <1>1. HandleMax \in Nat /\ MaxAdds \in Nat /\ MaxAdds < HandleMax
    BY HandleAssumption
  <1>2. TypeOK
    <2>1. wheel \in [Slots -> Seq(Node)] /\ dispatching \in Seq(Node)
      OBVIOUS
    <2>2. time \in 0 .. (TimeRange - 1)
      BY HalfRange
    <2>3. keyOf \in [Ctx -> Keys]
      <3>1. (CHOOSE k \in Keys : TRUE) \in Keys
        BY KeysAssumption
      <3> QED BY <3>1
    <2>4. counter \in 0 .. (HandleMax - 1) /\ adds \in 0..MaxAdds
      BY <1>1
    <2>5. /\ ctxMap \in [Handles -> Ctx \cup {Nil}] /\ keyMap \in [Keys -> Handles \cup {Nil}]
          /\ waitQueue \in Seq(Ctx) /\ execQueue \in Seq(Ctx) /\ delivered \in Seq(Ctx)
          /\ left \in [Ctx -> Int]
      OBVIOUS
    <2> QED BY <2>1, <2>2, <2>3, <2>4, <2>5 DEF TypeOK
  <1>3. HandleInv /\ MapsAgree /\ AddInv
    BY DEF HandleInv, MapsAgree, InUse, AddInv
  <1>4. WheelInv /\ DispatchInv
    BY DEF WheelInv, DispatchInv
  <1>5. NodesInv
    BY DEF NodesInv, OnWheel, Ctx, Nil
  <1> QED BY <1>2, <1>3, <1>4, <1>5 DEF IInv

-----------------------------------------------------------------------------
(* One lemma per action                                                    *)

LEMMA Numbers ==
  /\ HandleMax \in Nat /\ MaxAdds \in Nat /\ MaxAdds < HandleMax
  /\ Nil \notin Ctx /\ Nil \notin Handles /\ Ctx \subseteq Nat /\ Ctx \subseteq Handles
  BY HandleAssumption DEF Nil, Ctx, Handles

\* Steps that leave the wheel, the counter and the contexts alone.
LEMMA WheelFrame ==
  ASSUME WheelInv, UNCHANGED <<wheel, time, left, adds, adding>>,
         timerPc' \in {"idle", "execute0"} => timerPc \in {"idle", "execute0"}
  PROVE  WheelInv'
  <1> SUFFICES ASSUME NEW x \in Slots, NEW i \in DOMAIN wheel[x]
               PROVE  OnTime(wheel[x][i], x)'
    BY DEF WheelInv
  <1>1. OnTime(wheel[x][i], x)
    BY DEF WheelInv
  <1> QED BY <1>1 DEF OnTime, NodeOK

LEMMA NodesFrame ==
  ASSUME NodesInv, UNCHANGED <<wheel, dispatching, adds, adding>>,
         \A h \in Handles : ctxMap'[h] \in {Nil, ctxMap[h]}
  PROVE  NodesInv'
  <1> SUFFICES ASSUME NEW c \in Ctx, OnWheel(c)' PROVE HasNode(c)'
    BY DEF NodesInv
  <1>1. OnWheel(c)
    BY Numbers DEF OnWheel
  <1>2. HasNode(c)
    BY <1>1 DEF NodesInv
  <1> QED BY <1>2 DEF HasNode

LEMMA DispatchFrame ==
  ASSUME DispatchInv, UNCHANGED <<timerPc, dispatching, left, adds, adding>>
  PROVE  DispatchInv'
  BY DEF DispatchInv, NodeOK

\* Steps that leave the maps alone.
LEMMA MapFrame ==
  ASSUME HandleInv, MapsAgree, UNCHANGED mapVars
  PROVE  HandleInv' /\ MapsAgree' /\ \A h \in Handles : ctxMap'[h] \in {Nil, ctxMap[h]}
  BY DEF mapVars, HandleInv, MapsAgree, InUse

\* Steps that take a handle out of both maps.
LEMMA MapForget ==
  ASSUME TypeOK, HandleInv, MapsAgree, NEW h0 \in Handles,
         ctxMap' = CtxForgets(h0), keyMap' = KeysForget(h0),
         UNCHANGED <<counter, keyOf, adds>>
  PROVE  /\ ctxMap' \in [Handles -> Ctx \cup {Nil}] /\ keyMap' \in [Keys -> Handles \cup {Nil}]
         /\ HandleInv' /\ MapsAgree'
         /\ \A h \in Handles : ctxMap'[h] = IF h = h0 THEN Nil ELSE ctxMap[h]
         /\ \A k \in Keys : keyMap'[k] = IF keyMap[k] = h0 THEN Nil ELSE keyMap[k]
  <1>1. /\ \A h \in Handles : ctxMap'[h] = IF h = h0 THEN Nil ELSE ctxMap[h]
        /\ \A k \in Keys : keyMap'[k] = IF keyMap[k] = h0 THEN Nil ELSE keyMap[k]
    BY DEF CtxForgets, KeysForget
  <1>2. ctxMap' \in [Handles -> Ctx \cup {Nil}] /\ keyMap' \in [Keys -> Handles \cup {Nil}]
    BY DEF CtxForgets, KeysForget, TypeOK
  <1>3. HandleInv'
    BY <1>1 DEF HandleInv
  <1>4. MapsAgree'
    <2>1. ASSUME NEW h \in Handles, ctxMap'[h] # Nil
          PROVE  keyMap'[keyOf[ctxMap'[h]]] = h
      <3>1. h # h0 /\ ctxMap'[h] = ctxMap[h] /\ ctxMap[h] # Nil
        BY <1>1, <2>1
      <3>2. keyMap[keyOf[ctxMap[h]]] = h /\ keyOf[ctxMap[h]] \in Keys
        BY <3>1 DEF MapsAgree, InUse, TypeOK
      <3> QED BY <1>1, <3>1, <3>2
    <2>2. ASSUME NEW k \in Keys, keyMap'[k] # Nil
          PROVE  ctxMap'[keyMap'[k]] # Nil /\ keyOf[ctxMap'[keyMap'[k]]] = k
      <3>1. keyMap[k] # h0 /\ keyMap'[k] = keyMap[k] /\ keyMap[k] # Nil
        BY <1>1, <2>2
      <3>2. keyMap[k] \in Handles
        BY <3>1 DEF TypeOK
      <3>3. ctxMap[keyMap[k]] # Nil /\ keyOf[ctxMap[keyMap[k]]] = k
        BY <3>1 DEF MapsAgree
      <3> QED BY <1>1, <3>1, <3>2, <3>3
    <2> QED BY <2>1, <2>2 DEF MapsAgree, InUse
  <1> QED BY <1>1, <1>2, <1>3, <1>4

\* AddTimer: the displaced timer leaves both maps, the new one enters them.
LEMMA AddTimerIs ==
  ASSUME IInv, NEW k \in Keys, NEW d \in Times, AddTimer(k, d)
  PROVE  /\ adds + 1 \in Handles /\ adds + 1 \in Ctx
         /\ adds' = adds + 1 /\ counter' = adds + 1
         /\ adding' = [time |-> d, handle |-> adds + 1]
         /\ ctxMap' \in [Handles -> Ctx \cup {Nil}] /\ keyMap' \in [Keys -> Handles \cup {Nil}]
         /\ \A h \in Handles : ctxMap'[h] = IF h = adds + 1 THEN adds + 1
                                            ELSE IF h = keyMap[k] THEN Nil ELSE ctxMap[h]
         /\ \A j \in Keys : keyMap'[j] = IF j = k THEN adds + 1 ELSE keyMap[j]
  <1> DEFINE h0 == keyMap[k]
             ctx0 == IF h0 = Nil THEN ctxMap ELSE CtxWithout(h0)
             key0 == IF h0 = Nil THEN keyMap ELSE KeysWithout(h0)
             h1 == NextHandle(InUse(ctx0))
  <1>1. TypeOK /\ HandleInv /\ MapsAgree
    BY DEF IInv
  <1>2. h0 \in Handles \cup {Nil} /\ adds \in Nat /\ adds < MaxAdds
    BY <1>1, Numbers DEF TypeOK, AddTimer
  <1>3. /\ adds' = adds + 1 /\ counter' = h1
        /\ ctxMap' = [ctx0 EXCEPT ![h1] = adds + 1]
        /\ keyMap' = [key0 EXCEPT ![k] = IF key0[k] = Nil THEN h1 ELSE key0[k]]
        /\ adding' = [time |-> d, handle |-> h1]
    BY DEF AddTimer
  <1>4. ctx0 = CtxForgets(h0) /\ key0 = KeysForget(h0)
    <2>1. CASE h0 = Nil
      <3>1. CtxForgets(h0) = ctxMap
        BY <1>1, <2>1, Numbers DEF CtxForgets, TypeOK
      <3>2. KeysForget(h0) = keyMap
        BY <1>1, <2>1 DEF KeysForget, TypeOK
      <3> QED BY <2>1, <3>1, <3>2
    <2>2. CASE h0 # Nil
      <3>1. h0 \in Handles
        BY <1>2, <2>2
      <3> HIDE DEF h0
      <3> QED BY <1>1, <2>2, <3>1, Forgotten
    <2> QED BY <2>1, <2>2
  <1> HIDE DEF ctx0, key0, h1
  <1>5. /\ ctx0 \in [Handles -> Ctx \cup {Nil}]
        /\ \A h \in Handles : ctx0[h] = IF h = h0 THEN Nil ELSE ctxMap[h]
    BY <1>1, <1>4 DEF CtxForgets, TypeOK
  <1>6. /\ key0 \in [Keys -> Handles \cup {Nil}]
        /\ \A j \in Keys : key0[j] = IF keyMap[j] = h0 THEN Nil ELSE keyMap[j]
    BY <1>1, <1>4 DEF KeysForget, TypeOK
  <1>7. InUse(ctx0) \in SUBSET (1..adds)
    <2> SUFFICES ASSUME NEW h \in Handles, ctx0[h] # Nil PROVE h \in 1..adds
      BY DEF InUse
    <2>1. ctxMap[h] # Nil /\ h <= adds
      BY <1>1, <1>5 DEF HandleInv
    <2> QED BY <1>2, <2>1, Numbers DEF Handles
  <1>8. h1 = adds + 1 /\ adds + 1 \in Handles /\ adds + 1 \in Ctx
    BY <1>1, <1>2, <1>7, NextHandleIs DEF HandleInv, h1
  <1>9. ctxMap' \in [Handles -> Ctx \cup {Nil}]
    BY <1>3, <1>5, <1>8
  <1>10. \A h \in Handles : ctxMap'[h] = IF h = adds + 1 THEN adds + 1
                                         ELSE IF h = keyMap[k] THEN Nil ELSE ctxMap[h]
    BY <1>3, <1>5, <1>8
  <1>11. key0[k] = Nil
    BY <1>6
  <1>12. keyMap' = [key0 EXCEPT ![k] = adds + 1]
    BY <1>3, <1>8, <1>11
  <1>13. keyMap' \in [Keys -> Handles \cup {Nil}]
    BY <1>6, <1>8, <1>12
  <1>14. \A j \in Keys : keyMap[j] = h0 => j = k \/ keyMap[j] = Nil
    BY <1>1 DEF MapsAgree
  <1>15. \A j \in Keys : keyMap'[j] = IF j = k THEN adds + 1 ELSE keyMap[j]
    BY <1>6, <1>12, <1>14
  <1> QED BY <1>3, <1>8, <1>9, <1>10, <1>13, <1>15

LEMMA AddTimerInv ==
  ASSUME IInv, NEW k \in Keys, NEW d \in Times, AddTimer(k, d)
  PROVE  IInv'
  <1> DEFINE c == adds + 1
  <1>1. TypeOK /\ HandleInv /\ MapsAgree /\ AddInv /\ WheelInv /\ DispatchInv /\ NodesInv
    BY DEF IInv
  <1>2. /\ adds + 1 \in Handles /\ adds + 1 \in Ctx
        /\ adds' = adds + 1 /\ counter' = adds + 1
        /\ adding' = [time |-> d, handle |-> adds + 1]
        /\ ctxMap' \in [Handles -> Ctx \cup {Nil}] /\ keyMap' \in [Keys -> Handles \cup {Nil}]
        /\ \A h \in Handles : ctxMap'[h] = IF h = adds + 1 THEN adds + 1
                                           ELSE IF h = keyMap[k] THEN Nil ELSE ctxMap[h]
        /\ \A j \in Keys : keyMap'[j] = IF j = k THEN adds + 1 ELSE keyMap[j]
    BY AddTimerIs
  <1>3. /\ adding = NoAdd /\ mLock' = TRUE
        /\ keyOf' = [keyOf EXCEPT ![adds + 1] = k]
        /\ UNCHANGED <<wheel, time, tLock, timerPc, dispatching, waitQueue, execQueue, left,
                       delivered>>
    BY DEF AddTimer, timerVars
  <1>4. /\ keyOf' \in [Ctx -> Keys] /\ keyOf'[adds + 1] = k
        /\ \A b \in Ctx : b # adds + 1 => keyOf'[b] = keyOf[b]
    BY <1>1, <1>2, <1>3 DEF TypeOK
  <1>5. adds \in Nat /\ adds + 1 \in 0..MaxAdds /\ adds + 1 \in 0 .. (HandleMax - 1)
    BY <1>1, <1>2, Numbers DEF TypeOK, Ctx
  <1>6. adding' \in [time : Times, handle : Handles]
    BY <1>2
  <1>7. adding' # NoAdd /\ adding'.handle = adds + 1
    <2>1. adding'.handle = adds + 1 /\ NoAdd.handle = Nil
      BY <1>2 DEF NoAdd
    <2> QED BY <1>2, <2>1, Numbers
  <1>8. TypeOK'
    BY <1>1, <1>2, <1>3, <1>4, <1>5, <1>6 DEF TypeOK
  <1>9. AddInv'
    BY <1>2, <1>3, <1>6, <1>7 DEF AddInv
  <1>10. HandleInv'
    BY <1>1, <1>2, <1>5, Numbers DEF HandleInv, Handles
  <1>11. MapsAgree'
    <2>1. ASSUME NEW h \in Handles, ctxMap'[h] # Nil
          PROVE  keyMap'[keyOf'[ctxMap'[h]]] = h
      <3>1. CASE h = adds + 1
        BY <1>2, <1>4, <3>1
      <3>2. CASE h # adds + 1
        <4>1. h # keyMap[k] /\ ctxMap'[h] = ctxMap[h] /\ ctxMap[h] # Nil
          BY <1>2, <2>1, <3>2
        <4>2. ctxMap[h] = h /\ ctxMap[h] \in Ctx
          BY <1>1, <4>1 DEF HandleInv, TypeOK
        <4>3. keyMap[keyOf[h]] = h /\ keyOf[h] \in Keys /\ keyOf'[h] = keyOf[h]
          BY <1>1, <1>4, <3>2, <4>1, <4>2 DEF MapsAgree, InUse, TypeOK
        <4>4. keyOf[h] # k
          BY <4>1, <4>3
        <4> QED BY <1>2, <4>1, <4>2, <4>3, <4>4
      <3> QED BY <3>1, <3>2
    <2>2. ASSUME NEW j \in Keys, keyMap'[j] # Nil
          PROVE  ctxMap'[keyMap'[j]] # Nil /\ keyOf'[ctxMap'[keyMap'[j]]] = j
      <3>1. CASE j = k
        BY <1>2, <1>4, <3>1, Numbers
      <3>2. CASE j # k
        <4>1. keyMap'[j] = keyMap[j] /\ keyMap[j] # Nil /\ keyMap[j] \in Handles
          BY <1>1, <1>2, <2>2, <3>2 DEF TypeOK
        <4>2. ctxMap[keyMap[j]] # Nil /\ keyOf[ctxMap[keyMap[j]]] = j
          BY <1>1, <4>1 DEF MapsAgree
        <4>3. ctxMap[keyMap[j]] = keyMap[j] /\ keyMap[j] <= adds /\ keyMap[j] \in Ctx
          BY <1>1, <4>1, <4>2 DEF HandleInv, TypeOK
        <4>4. keyMap[j] # adds + 1
          BY <1>5, <4>3, Numbers
        <4>5. keyMap[j] # keyMap[k]
          <5> SUFFICES ASSUME keyMap[j] = keyMap[k] PROVE FALSE
            OBVIOUS
          <5>1. keyOf[ctxMap[keyMap[k]]] = k
            BY <1>1, <4>1 DEF MapsAgree
          <5> QED BY <5>1, <4>2, <3>2
        <4>6. ctxMap'[keyMap[j]] = keyMap[j] /\ keyOf'[keyMap[j]] = keyOf[keyMap[j]]
          BY <1>2, <1>4, <4>1, <4>3, <4>4, <4>5
        <4> QED BY <4>1, <4>2, <4>3, <4>6
      <3> QED BY <3>1, <3>2
    <2> QED BY <2>1, <2>2 DEF MapsAgree, InUse
  <1>12. WheelInv'
    <2> SUFFICES ASSUME NEW x \in Slots, NEW i \in DOMAIN wheel[x]
                 PROVE  OnTime(wheel[x][i], x)'
      BY <1>3 DEF WheelInv
    <2>1. OnTime(wheel[x][i], x) /\ wheel[x][i] \in Node
      BY <1>1 DEF WheelInv, TypeOK
    <2> DEFINE n == wheel[x][i]
    <2>2. n' = n
      BY <1>3
    <2>3. n.ctx <= adds /\ n.handle = n.ctx /\ n.ctx \in Nat
      BY <2>1, NodeFields, Numbers DEF OnTime, NodeOK
    <2>4. n.ctx <= adds + 1 /\ n.ctx # adds + 1
      BY <1>5, <2>3
    <2> QED BY <1>2, <1>3, <2>1, <2>3, <2>4 DEF OnTime, NodeOK
  <1>13. DispatchInv'
    <2>1. ASSUME NEW i \in DOMAIN dispatching
          PROVE  NodeOK(dispatching[i])'
      <3>1. dispatching[i] \in Node /\ NodeOK(dispatching[i])
        BY <1>1 DEF DispatchInv, TypeOK
      <3>2. dispatching[i].ctx <= adds /\ dispatching[i].ctx \in Nat
        BY <3>1, NodeFields, Numbers DEF NodeOK
      <3>3. dispatching[i].ctx <= adds + 1 /\ dispatching[i].ctx # adds + 1
        BY <1>5, <3>2
      <3> QED BY <1>2, <1>3, <3>1, <3>3 DEF NodeOK
    <2> QED BY <1>1, <1>3, <2>1 DEF DispatchInv
  <1>14. NodesInv'
    <2> SUFFICES ASSUME NEW b \in Ctx, OnWheel(b)' PROVE HasNode(b)'
      BY DEF NodesInv
    <2>1. b # adds + 1
      BY <1>2, <1>7 DEF OnWheel
    <2>2. PICK h \in Handles : ctxMap'[h] = b
      BY DEF OnWheel
    <2>3. ctxMap[h] = b
      BY <1>2, <2>1, <2>2, Numbers
    <2>4. OnWheel(b)
      BY <1>3, <2>3 DEF OnWheel
    <2>5. HasNode(b)
      BY <1>1, <2>4 DEF NodesInv
    <2> QED BY <1>3, <2>5 DEF HasNode
  <1> QED BY <1>8, <1>9, <1>10, <1>11, <1>12, <1>13, <1>14 DEF IInv

\* timer_add puts the node where add_node wants it.
LEMMA TimerAddInv ==
  ASSUME IInv, timer_add
  PROVE  IInv'
  <1> HIDE DEF Node
  <1> DEFINE d == adding.time
             e == (time + d) % TimeRange
             n == [handle |-> adding.handle, ctx |-> adds, expire |-> e]
             s == Place(e, time)
  <1>1. TypeOK /\ HandleInv /\ MapsAgree /\ AddInv /\ WheelInv /\ DispatchInv /\ NodesInv
    BY DEF IInv
  <1>2. /\ adding # NoAdd /\ d > 0
        /\ wheel' = [wheel EXCEPT ![s] = Append(wheel[s], n)]
        /\ left' = [left EXCEPT ![adds] = d]
        /\ adding' = NoAdd /\ mLock' = FALSE
        /\ UNCHANGED <<time, tLock, timerPc, dispatching, counter, ctxMap, keyMap, keyOf, adds,
                       waitQueue, execQueue, delivered>>
    BY DEF timer_add, timerVars, mapVars
  <1>3. adding.handle = adds /\ adds \in Ctx /\ adding.time \in Times
    BY <1>1, <1>2 DEF AddInv
  <1>4. d \in Int /\ d \in 0 .. (TimeRange \div 2 - 1)
    <2> DEFINE half == TimeRange \div 2
    <2>1. d \in 0 .. (half - 1)
      BY <1>3, TimesAssumption
    <2>2. half \in Nat
      BY HalfRange
    <2> HIDE DEF half, d
    <2>3. d \in Int
      BY <2>1, <2>2
    <2> QED BY <2>1, <2>3 DEF half
  <1>5. e \in 0 .. (TimeRange - 1)
    <2>1. TimeRange \in Nat \ {0} /\ time \in Nat /\ d \in Nat
      BY <1>1, <1>4, HalfRange DEF TypeOK
    <2> DEFINE y == time + d
    <2>2. y \in Nat
      BY <2>1
    <2> HIDE DEF y
    <2>3. y % TimeRange \in 0 .. (TimeRange - 1)
      BY <2>1, <2>2, Quotient
    <2> QED BY <2>3 DEF y
  <1>6. s \in Slots
    BY <1>1, <1>5, PlaceSlot DEF TypeOK
  <1>7. n \in Node
    BY <1>3, <1>5, Numbers DEF Node
  <1>8. n.handle = adds /\ n.ctx = adds /\ n.expire = e
    BY <1>3
  <1>9. Place(n.expire, time) = s
    BY <1>8
  <1>10. n.expire = (time + d) % TimeRange
    BY <1>8
  <1> HIDE DEF n, s, e, d
  <1>11. wheel \in [Slots -> Seq(Node)] /\ wheel[s] \in Seq(Node)
    BY <1>1, <1>6 DEF TypeOK
  <1>12. /\ wheel' \in [Slots -> Seq(Node)]
         /\ \A x \in Slots : x # s => wheel'[x] = wheel[x]
         /\ wheel'[s] = Append(wheel[s], n)
    BY <1>2, <1>6, <1>7, <1>11
  <1>13. left' \in [Ctx -> Int] /\ left'[adds] = d /\ \A c \in Ctx : c # adds => left'[c] = left[c]
    BY <1>1, <1>2, <1>3, <1>4 DEF TypeOK
  <1>14. TypeOK'
    BY <1>1, <1>2, <1>12, <1>13 DEF TypeOK
  <1>15. HandleInv' /\ MapsAgree' /\ AddInv'
    BY <1>1, <1>2 DEF HandleInv, MapsAgree, InUse, AddInv
  \* A node that was there is not touched.
  <1>16. ASSUME NEW x \in Slots, NEW i \in DOMAIN wheel[x], wheel'[x][i] = wheel[x][i]
         PROVE  OnTime(wheel[x][i], x)'
    <2>1. OnTime(wheel[x][i], x) /\ wheel[x][i] \in Node
      BY <1>1 DEF WheelInv, TypeOK
    <2>2. wheel[x][i].ctx \in Ctx /\ wheel[x][i].ctx # adds
      BY <1>2, <2>1, NodeFields DEF OnTime, NodeOK
    <2>3. left'[wheel[x][i].ctx] = left[wheel[x][i].ctx]
      BY <1>13, <2>2
    <2> QED BY <1>2, <1>16, <2>1, <2>3 DEF OnTime, NodeOK
  <1>17. WheelInv'
    <2> SUFFICES ASSUME NEW x \in Slots, NEW i \in DOMAIN wheel'[x]
                 PROVE  OnTime(wheel[x][i], x)'
      BY DEF WheelInv
    <2>1. CASE x # s
      BY <1>12, <1>16, <2>1
    <2>2. CASE x = s
      <3>1. /\ Len(wheel[s]) \in Nat /\ i \in 1 .. (Len(wheel[s]) + 1)
            /\ wheel'[s][i] = IF i <= Len(wheel[s]) THEN wheel[s][i] ELSE n
        BY <1>7, <1>11, <1>12, <2>2
      <3>2. CASE i <= Len(wheel[s])
        <4>1. i \in DOMAIN wheel[s] /\ wheel'[x][i] = wheel[x][i]
          BY <1>11, <2>2, <3>1, <3>2
        <4> QED BY <1>16, <2>2, <4>1
      <3>3. CASE ~(i <= Len(wheel[s]))
        <4>1. wheel'[x][i] = n
          BY <2>2, <3>1, <3>3
        <4>2. /\ n.handle = n.ctx /\ n.ctx <= adds' /\ adding' = NoAdd
          BY <1>2, <1>3, <1>8, Numbers
        <4>3. /\ Place(n.expire, time') = x /\ left'[n.ctx] = d
              /\ n.expire = (time' + d) % TimeRange
          BY <1>2, <1>8, <1>9, <1>10, <1>13, <2>2
        <4>4. d \in 0 .. (TimeRange \div 2 - 1) /\ d > 0
          BY <1>2, <1>4
        <4> QED BY <4>1, <4>2, <4>3, <4>4 DEF OnTime, NodeOK
      <3> QED BY <3>2, <3>3
    <2> QED BY <2>1, <2>2
  <1>18. DispatchInv'
    <2>1. ASSUME NEW i \in DOMAIN dispatching
          PROVE  NodeOK(dispatching[i])' /\ left'[dispatching[i].ctx] = 0
      <3>1. /\ dispatching[i] \in Node /\ NodeOK(dispatching[i])
            /\ left[dispatching[i].ctx] = 0
        BY <1>1 DEF DispatchInv, TypeOK
      <3>2. dispatching[i].ctx \in Ctx /\ dispatching[i].ctx # adds
        BY <1>2, <3>1, NodeFields DEF NodeOK
      <3> QED BY <1>2, <1>13, <3>1, <3>2 DEF NodeOK
    <2> QED BY <1>1, <1>2, <2>1 DEF DispatchInv
  <1>19. NodesInv'
    <2> SUFFICES ASSUME NEW c \in Ctx, OnWheel(c)' PROVE HasNode(c)'
      BY DEF NodesInv
    <2>1. CASE c = adds
      <3>1. Len(wheel[s]) + 1 \in DOMAIN wheel'[s] /\ wheel'[s][Len(wheel[s]) + 1] = n
        BY <1>7, <1>11, <1>12
      <3> QED BY <1>6, <1>8, <2>1, <3>1 DEF HasNode
    <2>2. CASE c # adds
      <3>1. OnWheel(c)
        BY <1>2, <2>2 DEF OnWheel
      <3>2. HasNode(c)
        BY <1>1, <3>1 DEF NodesInv
      <3>3. CASE \E i \in DOMAIN dispatching : dispatching[i].ctx = c
        BY <1>2, <3>3 DEF HasNode
      <3>4. CASE \E x \in Slots : \E i \in DOMAIN wheel[x] : wheel[x][i].ctx = c
        <4>1. PICK x \in Slots : \E i \in DOMAIN wheel[x] : wheel[x][i].ctx = c
          BY <3>4
        <4>2. PICK i \in DOMAIN wheel[x] : wheel[x][i].ctx = c
          BY <4>1
        <4>3. i \in DOMAIN wheel'[x] /\ wheel'[x][i] = wheel[x][i]
          <5>1. CASE x # s
            BY <1>12, <5>1
          <5>2. CASE x = s
            BY <1>7, <1>11, <1>12, <5>2
          <5> QED BY <5>1, <5>2
        <4> QED BY <4>2, <4>3 DEF HasNode
      <3> QED BY <3>2, <3>3, <3>4 DEF HasNode
    <2> QED BY <2>1, <2>2
  <1> QED BY <1>14, <1>15, <1>17, <1>18, <1>19 DEF IInv

LEMMA RemoveTimerInv ==
  ASSUME IInv, NEW k \in Keys, RemoveTimer(k)
  PROVE  /\ IInv'
         /\ \A h \in Handles : ctxMap'[h] = IF h = keyMap[k] THEN Nil ELSE ctxMap[h]
         /\ \A j \in Keys : keyMap'[j] = IF j = k THEN Nil ELSE keyMap[j]
  <1> DEFINE h0 == keyMap[k]
  <1>1. TypeOK /\ HandleInv /\ MapsAgree /\ AddInv /\ WheelInv /\ DispatchInv /\ NodesInv
    BY DEF IInv
  <1>2. /\ adding = NoAdd /\ ~mLock /\ h0 # Nil
        /\ ctxMap' = CtxWithout(h0) /\ keyMap' = [KeysWithout(h0) EXCEPT ![k] = Nil]
        /\ UNCHANGED <<wheel, time, tLock, mLock, timerPc, dispatching, counter, keyOf, adds,
                       adding, waitQueue, execQueue, left, delivered>>
    BY DEF RemoveTimer, timerVars
  <1>3. h0 \in Handles
    BY <1>1, <1>2 DEF TypeOK
  <1>4. CtxWithout(h0) = CtxForgets(h0) /\ KeysWithout(h0) = KeysForget(h0)
    <2> HIDE DEF h0
    <2> QED BY <1>1, <1>3, Forgotten
  <1>5. keyMap' = KeysForget(h0)
    <2>1. /\ KeysForget(h0) \in [Keys -> Handles \cup {Nil}]
          /\ KeysForget(h0)[k] = Nil
      BY <1>1 DEF KeysForget, TypeOK
    <2> QED BY <1>2, <1>4, <2>1
  <1> HIDE DEF h0
  <1>6. /\ ctxMap' \in [Handles -> Ctx \cup {Nil}] /\ keyMap' \in [Keys -> Handles \cup {Nil}]
        /\ HandleInv' /\ MapsAgree'
        /\ \A h \in Handles : ctxMap'[h] = IF h = h0 THEN Nil ELSE ctxMap[h]
        /\ \A j \in Keys : keyMap'[j] = IF keyMap[j] = h0 THEN Nil ELSE keyMap[j]
    BY <1>1, <1>2, <1>3, <1>4, <1>5, MapForget
  <1>7. \A j \in Keys : keyMap[j] = h0 => j = k
    BY <1>1, <1>2 DEF MapsAgree, h0
  <1>8. TypeOK'
    BY <1>1, <1>2, <1>6 DEF TypeOK
  <1>9. AddInv'
    BY <1>1, <1>2 DEF AddInv
  <1>10. WheelInv'
    BY <1>1, <1>2, WheelFrame
  <1>11. DispatchInv'
    BY <1>1, <1>2, DispatchFrame
  <1>12. NodesInv'
    BY <1>1, <1>2, <1>6, NodesFrame
  <1> QED BY <1>6, <1>7, <1>8, <1>9, <1>10, <1>11, <1>12 DEF IInv, h0

\* The node of a handle that is gone is freed and nothing else happens.
LEMMA TimerTimeoutInv ==
  ASSUME IInv, TimerTimeout
  PROVE  /\ IInv'
         /\ \A k \in Keys : keyMap'[k] = IF keyMap[k] = Head(dispatching).handle THEN Nil
                                         ELSE keyMap[k]
  <1> HIDE DEF Node
  <1> DEFINE n == Head(dispatching)
             h0 == n.handle
  <1>1. TypeOK /\ HandleInv /\ MapsAgree /\ AddInv /\ WheelInv /\ DispatchInv /\ NodesInv
    BY DEF IInv
  <1>2. /\ dispatching # <<>> /\ ~mLock
        /\ waitQueue' = (IF ctxMap[h0] # Nil THEN Append(waitQueue, n.ctx) ELSE waitQueue)
        /\ delivered' = (IF ctxMap[h0] # Nil THEN Append(delivered, n.ctx) ELSE delivered)
        /\ ctxMap' = CtxWithout(h0) /\ keyMap' = KeysWithout(h0)
        /\ dispatching' = Tail(dispatching)
        /\ timerPc \in {"dispatch0", "dispatch1"}
        /\ UNCHANGED <<wheel, time, tLock, mLock, timerPc, counter, keyOf, adds, adding,
                       execQueue, left>>
    BY DEF TimerTimeout
  <1>3. dispatching \in Seq(Node) /\ n = dispatching[1] /\ 1 \in DOMAIN dispatching /\ n \in Node
    BY <1>1, <1>2 DEF TypeOK
  <1>4. h0 \in Handles /\ n.ctx \in Ctx /\ n.ctx = h0
    BY <1>1, <1>3, NodeFields DEF DispatchInv, NodeOK
  <1>5. /\ DOMAIN Tail(dispatching) = 1 .. (Len(dispatching) - 1)
        /\ Tail(dispatching) \in Seq(Node)
        /\ \A i \in 1 .. (Len(dispatching) - 1) :
             Tail(dispatching)[i] = dispatching[i + 1] /\ i + 1 \in DOMAIN dispatching
    BY <1>2, <1>3
  <1> HIDE DEF n, h0
  <1>6. CtxWithout(h0) = CtxForgets(h0) /\ KeysWithout(h0) = KeysForget(h0)
    BY <1>1, <1>4, Forgotten
  <1>7. /\ ctxMap' \in [Handles -> Ctx \cup {Nil}] /\ keyMap' \in [Keys -> Handles \cup {Nil}]
        /\ HandleInv' /\ MapsAgree'
        /\ \A h \in Handles : ctxMap'[h] = IF h = h0 THEN Nil ELSE ctxMap[h]
        /\ \A k \in Keys : keyMap'[k] = IF keyMap[k] = h0 THEN Nil ELSE keyMap[k]
    BY <1>1, <1>2, <1>4, <1>6, MapForget
  <1>8. waitQueue' \in Seq(Ctx) /\ delivered' \in Seq(Ctx)
    BY <1>1, <1>2, <1>4 DEF TypeOK
  <1>9. TypeOK'
    BY <1>1, <1>2, <1>5, <1>7, <1>8 DEF TypeOK
  <1>10. AddInv'
    BY <1>1, <1>2 DEF AddInv
  <1>11. WheelInv'
    BY <1>1, <1>2, WheelFrame
  <1>12. DispatchInv'
    <2>1. timerPc = "dispatch1"
      BY <1>1, <1>2 DEF DispatchInv
    <2>2. ASSUME NEW i \in DOMAIN dispatching'
          PROVE  NodeOK(dispatching[i])' /\ left'[dispatching'[i].ctx] = 0
      <3>1. i + 1 \in DOMAIN dispatching /\ dispatching'[i] = dispatching[i + 1]
        BY <1>2, <1>5
      <3>2. NodeOK(dispatching[i + 1]) /\ left[dispatching[i + 1].ctx] = 0
        BY <1>1, <3>1 DEF DispatchInv
      <3> QED BY <1>2, <3>1, <3>2 DEF NodeOK
    <2> QED BY <1>2, <2>1, <2>2 DEF DispatchInv
  <1>13. NodesInv'
    <2> SUFFICES ASSUME NEW c \in Ctx, OnWheel(c)' PROVE HasNode(c)'
      BY DEF NodesInv
    <2>1. PICK h \in Handles : ctxMap'[h] = c
      BY DEF OnWheel
    <2>2. h # h0 /\ ctxMap[h] = c /\ c = h
      BY <1>1, <1>7, <2>1, Numbers DEF HandleInv
    <2>3. OnWheel(c)
      BY <1>2, <2>2 DEF OnWheel
    <2>4. HasNode(c)
      BY <1>1, <2>3 DEF NodesInv
    <2>5. CASE \E x \in Slots : \E i \in DOMAIN wheel[x] : wheel[x][i].ctx = c
      BY <1>2, <2>5 DEF HasNode
    <2>6. CASE \E i \in DOMAIN dispatching : dispatching[i].ctx = c
      <3>1. PICK i \in DOMAIN dispatching : dispatching[i].ctx = c
        BY <2>6
      <3>2. i # 1
        BY <1>3, <1>4, <2>2, <3>1
      <3>3. Len(dispatching) \in Nat /\ i \in 1..Len(dispatching)
        BY <1>3
      <3>4. i - 1 \in 1 .. (Len(dispatching) - 1) /\ (i - 1) + 1 = i
        BY <3>2, <3>3
      <3>5. i - 1 \in DOMAIN dispatching' /\ dispatching'[i - 1] = dispatching[i]
        BY <1>2, <1>5, <3>4
      <3> QED BY <3>1, <3>5 DEF HasNode
    <2> QED BY <2>4, <2>5, <2>6 DEF HasNode
  <1> QED BY <1>7, <1>9, <1>10, <1>11, <1>12, <1>13 DEF IInv, h0, n

\* A node on the wheel expires now exactly when its context is due.
LEMMA DueNow ==
  ASSUME time \in 0 .. (TimeRange - 1), NEW a \in 0 .. (TimeRange \div 2 - 1)
  PROVE  (time + a) % TimeRange = time <=> a = 0
  <1> DEFINE half == TimeRange \div 2
             y == time + a
  <1>1. TimeRange \in Nat \ {0} /\ half \in Nat /\ half + half <= TimeRange
    BY HalfRange
  <1>2. a \in Nat /\ a <= half - 1
    BY <1>1
  <1> HIDE DEF half
  <1>3. y \in Nat /\ y < TimeRange + TimeRange
    BY <1>1, <1>2
  <1>4. y % TimeRange = IF y < TimeRange THEN y ELSE y - TimeRange
    <2> HIDE DEF y
    <2> QED BY <1>1, <1>3, Wrap
  <1>5. y % TimeRange = time <=> a = 0
    BY <1>1, <1>2, <1>4
  <1> QED BY <1>5

LEMMA NearNowDue ==
  ASSUME TypeOK, WheelInv, NEW x \in Slots, NEW i \in DOMAIN wheel[x]
  PROVE  x = NearNow <=> left[wheel[x][i].ctx] = 0
  <1> HIDE DEF Node
  <1> DEFINE n == wheel[x][i]
  <1>1. OnTime(n, x) /\ n \in Node
    BY DEF WheelInv, TypeOK
  <1>2. time \in 0 .. (TimeRange - 1) /\ n.expire \in 0 .. (TimeRange - 1)
    BY <1>1, NodeFields DEF TypeOK
  <1>3. /\ Place(n.expire, time) = x
        /\ left[n.ctx] \in 0 .. (TimeRange \div 2 - 1)
        /\ n.expire = (time + left[n.ctx]) % TimeRange
    BY <1>1 DEF OnTime
  <1>4. n.expire = time <=> left[n.ctx] = 0
    BY <1>2, <1>3, DueNow
  <1>5. Place(n.expire, time) = NearNow <=> n.expire = time
    BY <1>2, NearDue DEF NearNow
  <1> QED BY <1>3, <1>4, <1>5

LEMMA NearNowSlot ==
  ASSUME TypeOK
  PROVE  NearNow \in Slots
  <1>1. Near \in Nat \ {0} /\ time \in Nat
    BY WheelAssumption, HalfRange DEF TypeOK
  <1>2. time % Near \in 0 .. (Near - 1)
    BY <1>1, Quotient
  <1> QED BY <1>2 DEF NearNow, Slots

LEMMA TimerExecuteInv ==
  ASSUME IInv, timer_execute
  PROVE  IInv' /\ timerPc = "execute1"
  <1> HIDE DEF Node
  <1> DEFINE s == NearNow
  <1>1. TypeOK /\ HandleInv /\ MapsAgree /\ AddInv /\ WheelInv /\ DispatchInv /\ NodesInv
    BY DEF IInv
  <1>2. /\ timerPc \in {"execute0", "execute1"} /\ wheel[s] # <<>>
        /\ dispatching' = wheel[s] /\ wheel' = [wheel EXCEPT ![s] = <<>>]
        /\ tLock' = FALSE
        /\ timerPc' = (IF timerPc = "execute0" THEN "dispatch0" ELSE "dispatch1")
        /\ UNCHANGED <<time, mLock, adding, waitQueue, execQueue, left, delivered>>
        /\ UNCHANGED <<counter, ctxMap, keyMap, keyOf, adds>>
    BY DEF timer_execute, mapVars
  <1>3. s \in Slots
    BY <1>1, NearNowSlot
  <1>4. \A i \in DOMAIN wheel[s] : NodeOK(wheel[s][i]) /\ left[wheel[s][i].ctx] = 0
    <2> SUFFICES ASSUME NEW i \in DOMAIN wheel[s]
                 PROVE  NodeOK(wheel[s][i]) /\ left[wheel[s][i].ctx] = 0
      OBVIOUS
    <2>1. left[wheel[s][i].ctx] = 0
      BY <1>1, <1>3, NearNowDue
    <2>2. OnTime(wheel[s][i], s)
      BY <1>1, <1>3 DEF WheelInv
    <2> QED BY <2>1, <2>2 DEF OnTime
  <1> HIDE DEF s
  <1>5. wheel[s] \in Seq(Node)
    BY <1>1, <1>3 DEF TypeOK
  <1>6. timerPc = "execute1"
    <2>1. 1 \in DOMAIN wheel[s]
      BY <1>2, <1>5
    <2>2. left[wheel[s][1].ctx] = 0
      BY <1>4, <2>1
    <2>3. timerPc # "execute0"
      BY <1>1, <1>3, <2>1, <2>2 DEF WheelInv, OnTime
    <2> QED BY <1>2, <2>3
  <1>7. /\ wheel' \in [Slots -> Seq(Node)] /\ wheel'[s] = <<>>
        /\ \A x \in Slots : x # s => wheel'[x] = wheel[x]
    BY <1>1, <1>2, <1>3 DEF TypeOK
  <1>8. TypeOK'
    BY <1>1, <1>2, <1>5, <1>6, <1>7 DEF TypeOK
  <1>9. HandleInv' /\ MapsAgree'
    BY <1>1, <1>2, MapFrame DEF mapVars
  <1>10. AddInv'
    BY <1>1, <1>2 DEF AddInv
  <1>11. WheelInv'
    <2> SUFFICES ASSUME NEW x \in Slots, NEW i \in DOMAIN wheel'[x]
                 PROVE  OnTime(wheel[x][i], x)'
      BY DEF WheelInv
    <2>1. x # s
      <3>1. DOMAIN << >> = {}
        OBVIOUS
      <3> QED BY <1>7, <3>1
    <2>2. wheel'[x] = wheel[x] /\ OnTime(wheel[x][i], x)
      BY <1>1, <1>7, <2>1 DEF WheelInv
    <2> QED BY <1>2, <1>6, <2>2 DEF OnTime, NodeOK
  <1>12. DispatchInv'
    <2>1. ASSUME NEW i \in DOMAIN dispatching'
          PROVE  NodeOK(dispatching[i])' /\ left'[dispatching'[i].ctx] = 0
      <3>1. i \in DOMAIN wheel[s] /\ dispatching'[i] = wheel[s][i]
        BY <1>2
      <3>2. NodeOK(wheel[s][i]) /\ left[wheel[s][i].ctx] = 0
        BY <1>4, <3>1
      <3> QED BY <1>2, <3>1, <3>2 DEF NodeOK
    <2> QED BY <1>2, <1>6, <2>1 DEF DispatchInv
  <1>13. NodesInv'
    <2> SUFFICES ASSUME NEW c \in Ctx, OnWheel(c)' PROVE HasNode(c)'
      BY DEF NodesInv
    <2>1. OnWheel(c)
      BY <1>2 DEF OnWheel
    <2>2. HasNode(c)
      BY <1>1, <2>1 DEF NodesInv
    <2>3. dispatching = <<>>
      BY <1>1, <1>6 DEF DispatchInv
    <2>4. PICK x \in Slots : \E i \in DOMAIN wheel[x] : wheel[x][i].ctx = c
      BY <2>2, <2>3 DEF HasNode
    <2>5. CASE x = s
      BY <1>2, <2>4, <2>5 DEF HasNode
    <2>6. CASE x # s
      BY <1>7, <2>4, <2>6 DEF HasNode
    <2> QED BY <2>5, <2>6
  <1> QED BY <1>6, <1>8, <1>9, <1>10, <1>11, <1>12, <1>13 DEF IInv

LEMMA TimerShiftInv ==
  ASSUME IInv, timer_shift
  PROVE  /\ IInv'
         /\ \A c \in Ctx : HasNode(c) => left[c] > 0
  <1> HIDE DEF Node
  <1> DEFINE half == TimeRange \div 2
  <1>1. TypeOK /\ HandleInv /\ MapsAgree /\ AddInv /\ WheelInv /\ DispatchInv /\ NodesInv
    BY DEF IInv
  <1>2. /\ timerPc = "execute0" /\ timerPc' = "execute1"
        /\ time' = (time + 1) % TimeRange /\ wheel' = Shifted(time')
        /\ left' = [c \in Ctx |-> IF left[c] > 0 THEN left[c] - 1 ELSE left[c]]
        /\ UNCHANGED <<tLock, mLock, dispatching, counter, ctxMap, keyMap, keyOf, adds>>
        /\ UNCHANGED <<adding, waitQueue, execQueue, delivered>>
    BY DEF timer_shift, mapVars
  <1>3. dispatching = <<>>
    BY <1>1, <1>2 DEF DispatchInv
  <1>4. wheel \in Wheels /\ time \in 0 .. (TimeRange - 1) /\ left \in [Ctx -> Int]
    BY <1>1 DEF TypeOK, Wheels
  <1>5. /\ TimeRange \in Nat \ {0} /\ half \in Nat /\ half + half <= TimeRange
    BY HalfRange
  <1>6. ASSUME NEW x \in Slots, NEW i \in DOMAIN wheel[x]
        PROVE  /\ wheel[x][i] \in Node /\ NodeOK(wheel[x][i])
               /\ left[wheel[x][i].ctx] \in 1 .. (half - 1)
               /\ wheel[x][i].expire = (time + left[wheel[x][i].ctx]) % TimeRange
               /\ Waiting(wheel[x][i], x)
    <2>1. OnTime(wheel[x][i], x) /\ wheel[x][i] \in Node
      BY <1>1 DEF WheelInv, TypeOK
    <2> DEFINE a == left[wheel[x][i].ctx]
    <2>2. /\ NodeOK(wheel[x][i]) /\ Place(wheel[x][i].expire, time) = x
          /\ a \in 0 .. (half - 1) /\ a > 0
          /\ wheel[x][i].expire = (time + a) % TimeRange
      BY <1>2, <2>1 DEF OnTime
    <2> HIDE DEF a
    <2>3. a \in 1 .. (half - 1)
      <3> HIDE DEF half
      <3> QED BY <1>5, <2>2
    <2>4. Waiting(wheel[x][i], x)
      BY <2>2, <2>3 DEF Waiting
    <2> QED BY <2>1, <2>2, <2>3, <2>4 DEF a
  <1>7. /\ time' \in 0 .. (TimeRange - 1) /\ wheel' \in Wheels /\ SameNodes(wheel')
        /\ \A x \in Slots : \A i \in DOMAIN wheel'[x] : Place(wheel'[x][i].expire, time') = x
    <2> DEFINE t == (time + 1) % TimeRange
    <2>1. /\ t \in 0 .. (TimeRange - 1) /\ Shifted(t) \in Wheels /\ SameNodes(Shifted(t))
          /\ \A x \in Slots : \A i \in DOMAIN Shifted(t)[x] :
               Place(Shifted(t)[x][i].expire, t) = x
      BY <1>4, <1>6, ShiftKeepsPlaces
    <2>2. time' = t /\ wheel' = Shifted(t)
      BY <1>2
    <2> HIDE DEF t
    <2> QED BY <2>1, <2>2
  <1>8. \A c \in Ctx : left[c] \in Int /\ left'[c] = IF left[c] > 0 THEN left[c] - 1 ELSE left[c]
    BY <1>2, <1>4
  <1>9. left' \in [Ctx -> Int]
    BY <1>2, <1>8
  <1>10. TypeOK'
    BY <1>1, <1>2, <1>7, <1>9 DEF TypeOK, Wheels
  <1>11. HandleInv' /\ MapsAgree'
    BY <1>1, <1>2, MapFrame DEF mapVars
  <1>12. AddInv'
    BY <1>1, <1>2 DEF AddInv
  <1>13. DispatchInv'
    BY <1>1, <1>2, <1>3 DEF DispatchInv
  \* The tick comes off the delay and goes onto the counter.
  <1>14. ASSUME NEW a \in 1 .. (half - 1)
         PROVE  (time' + (a - 1)) % TimeRange = (time + a) % TimeRange
    <2> HIDE DEF half
    <2>1. a \in Nat /\ a >= 1 /\ a < TimeRange /\ time \in Nat /\ time < TimeRange
      BY <1>4, <1>5
    <2>2. time' = IF time + 1 < TimeRange THEN time + 1 ELSE (time + 1) - TimeRange
      <3> DEFINE y == time + 1
      <3>1. y \in Nat /\ y < TimeRange + TimeRange
        BY <1>5, <2>1
      <3> HIDE DEF y
      <3>2. y % TimeRange = IF y < TimeRange THEN y ELSE y - TimeRange
        BY <1>5, <3>1, Wrap
      <3> QED BY <1>2, <3>2 DEF y
    <2> DEFINE u == time + a
               v == time' + (a - 1)
    <2>3. u \in Nat /\ u < TimeRange + TimeRange /\ v \in Nat /\ v < TimeRange + TimeRange
      BY <1>5, <2>1, <2>2
    <2>4. v = u \/ (v = u - TimeRange /\ u >= TimeRange /\ v < TimeRange)
      BY <1>5, <2>1, <2>2
    <2> HIDE DEF u, v
    <2>5. u % TimeRange = (IF u < TimeRange THEN u ELSE u - TimeRange)
      BY <1>5, <2>3, Wrap
    <2>6. v % TimeRange = (IF v < TimeRange THEN v ELSE v - TimeRange)
      BY <1>5, <2>3, Wrap
    <2>7. v % TimeRange = u % TimeRange
      BY <1>5, <2>3, <2>4, <2>5, <2>6
    <2> QED BY <2>7 DEF u, v
  <1>15. WheelInv'
    <2> SUFFICES ASSUME NEW x \in Slots, NEW i \in DOMAIN wheel'[x]
                 PROVE  OnTime(wheel[x][i], x)'
      BY DEF WheelInv
    <2>1. PICK y \in Slots : \E k \in DOMAIN wheel[y] : wheel'[x][i] = wheel[y][k]
      BY <1>7 DEF SameNodes
    <2>2. PICK k \in DOMAIN wheel[y] : wheel'[x][i] = wheel[y][k]
      BY <2>1
    <2> DEFINE n == wheel[y][k]
               a == left[n.ctx]
    <2>3. n \in Node /\ NodeOK(n) /\ a \in 1 .. (half - 1) /\ n.expire = (time + a) % TimeRange
      BY <1>6
    <2>4. n.ctx \in Ctx
      BY <2>3, NodeFields
    <2>5. Place(n.expire, time') = x
      BY <1>7, <2>2
    <2> HIDE DEF n
    <2>6. left'[n.ctx] = a - 1 /\ a - 1 \in 0 .. (half - 1)
      <3> HIDE DEF half
      <3> QED BY <1>5, <1>8, <2>3, <2>4
    <2>7. n.expire = (time' + left'[n.ctx]) % TimeRange
      BY <1>14, <2>3, <2>6
    <2>8. wheel'[x][i] = n
      BY <2>2 DEF n
    <2> HIDE DEF a
    <2> QED BY <1>2, <2>3, <2>5, <2>6, <2>7, <2>8 DEF OnTime, NodeOK
  <1>16. NodesInv'
    <2> SUFFICES ASSUME NEW c \in Ctx, OnWheel(c)' PROVE HasNode(c)'
      BY DEF NodesInv
    <2>1. OnWheel(c)
      BY <1>2 DEF OnWheel
    <2>2. HasNode(c)
      BY <1>1, <2>1 DEF NodesInv
    <2>3. PICK y \in Slots : \E k \in DOMAIN wheel[y] : wheel[y][k].ctx = c
      BY <1>3, <2>2 DEF HasNode
    <2>4. PICK k \in DOMAIN wheel[y] : wheel[y][k].ctx = c
      BY <2>3
    <2>5. \E x \in Slots : \E i \in DOMAIN wheel'[x] : wheel'[x][i] = wheel[y][k]
      BY <1>7 DEF SameNodes
    <2> QED BY <2>4, <2>5 DEF HasNode
  <1>17. ASSUME NEW c \in Ctx, HasNode(c) PROVE left[c] > 0
    <2>1. PICK y \in Slots : \E k \in DOMAIN wheel[y] : wheel[y][k].ctx = c
      BY <1>3, <1>17 DEF HasNode
    <2>2. PICK k \in DOMAIN wheel[y] : wheel[y][k].ctx = c
      BY <2>1
    <2>3. left[c] \in 1 .. (half - 1)
      BY <1>6, <2>2
    <2> HIDE DEF half
    <2> QED BY <1>5, <2>3
  <1> QED BY <1>10, <1>11, <1>12, <1>13, <1>15, <1>16, <1>17 DEF IInv

LEMMA UpdateDoneInv ==
  ASSUME IInv, UpdateDone
  PROVE  IInv'
  <1> HIDE DEF Node
  <1>1. TypeOK /\ HandleInv /\ MapsAgree /\ AddInv /\ WheelInv /\ DispatchInv /\ NodesInv
    BY DEF IInv
  <1>2. /\ timerPc = "execute1" /\ wheel[NearNow] = <<>>
        /\ timerPc' = "idle" /\ tLock' = FALSE
        /\ UNCHANGED <<wheel, time, mLock, dispatching, counter, ctxMap, keyMap, keyOf, adds>>
        /\ UNCHANGED <<adding, waitQueue, execQueue, left, delivered>>
    BY DEF UpdateDone, mapVars
  <1>3. TypeOK'
    BY <1>1, <1>2 DEF TypeOK
  <1>4. HandleInv' /\ MapsAgree' /\ \A h \in Handles : ctxMap'[h] \in {Nil, ctxMap[h]}
    BY <1>1, <1>2, MapFrame DEF mapVars
  <1>5. AddInv'
    BY <1>1, <1>2 DEF AddInv
  <1>6. WheelInv'
    <2> SUFFICES ASSUME NEW x \in Slots, NEW i \in DOMAIN wheel[x]
                 PROVE  OnTime(wheel[x][i], x)'
      BY <1>2 DEF WheelInv
    <2>1. OnTime(wheel[x][i], x)
      BY <1>1 DEF WheelInv
    <2>2. x # NearNow
      <3>1. DOMAIN << >> = {}
        OBVIOUS
      <3> QED BY <1>2, <3>1
    <2> DEFINE a == left[wheel[x][i].ctx]
    <2>3. a # 0
      BY <1>1, <2>2, NearNowDue
    <2>4. a > 0
      <3> DEFINE half == TimeRange \div 2
      <3>1. half \in Nat /\ a \in 0 .. (half - 1)
        BY <2>1, HalfRange DEF OnTime
      <3> HIDE DEF half, a
      <3> QED BY <3>1, <2>3
    <2> QED BY <1>2, <2>1, <2>4 DEF OnTime, NodeOK
  <1>7. DispatchInv'
    BY <1>1, <1>2 DEF DispatchInv, NodeOK
  <1>8. NodesInv'
    BY <1>1, <1>2, <1>4, NodesFrame
  <1> QED BY <1>3, <1>4, <1>5, <1>6, <1>7, <1>8 DEF IInv

\* The timer thread takes the wheel's lock.
LEMMA LockInv ==
  ASSUME IInv, TimerUpdate \/ DispatchDone
  PROVE  IInv'
  <1> HIDE DEF Node
  <1>1. TypeOK /\ HandleInv /\ MapsAgree /\ AddInv /\ WheelInv /\ DispatchInv /\ NodesInv
    BY DEF IInv
  <1>2. /\ \/ timerPc = "idle" /\ timerPc' = "execute0"
           \/ timerPc = "dispatch1" /\ timerPc' = "execute1" /\ dispatching = <<>>
        /\ tLock' = TRUE
        /\ UNCHANGED <<wheel, time, mLock, dispatching, counter, ctxMap, keyMap, keyOf, adds>>
        /\ UNCHANGED <<adding, waitQueue, execQueue, left, delivered>>
    BY <1>1 DEF TimerUpdate, DispatchDone, mapVars, DispatchInv
  <1>3. TypeOK'
    BY <1>1, <1>2 DEF TypeOK
  <1>4. HandleInv' /\ MapsAgree' /\ \A h \in Handles : ctxMap'[h] \in {Nil, ctxMap[h]}
    BY <1>1, <1>2, MapFrame DEF mapVars
  <1>5. AddInv'
    BY <1>1, <1>2 DEF AddInv
  <1>6. WheelInv'
    BY <1>1, <1>2, WheelFrame
  <1>7. DispatchInv'
    BY <1>1, <1>2 DEF DispatchInv, NodeOK
  <1>8. NodesInv'
    BY <1>1, <1>2, <1>4, NodesFrame
  <1> QED BY <1>3, <1>4, <1>5, <1>6, <1>7, <1>8 DEF IInv

\* The logic thread works off the queues.
LEMMA QueueInv ==
  ASSUME IInv, PrepareExecute \/ Callback
  PROVE  IInv'
  <1> HIDE DEF Node
  <1>1. TypeOK /\ HandleInv /\ MapsAgree /\ AddInv /\ WheelInv /\ DispatchInv /\ NodesInv
    BY DEF IInv
  <1>2. /\ waitQueue' \in Seq(Ctx) /\ execQueue' \in Seq(Ctx)
        /\ UNCHANGED <<wheel, time, tLock, mLock, timerPc, dispatching>>
        /\ UNCHANGED <<counter, ctxMap, keyMap, keyOf, adds, adding, left, delivered>>
    <2>1. waitQueue \in Seq(Ctx) /\ execQueue \in Seq(Ctx)
      BY <1>1 DEF TypeOK
    <2>2. CASE PrepareExecute
      BY <2>1, <2>2 DEF PrepareExecute, timerVars, mapVars
    <2>3. CASE Callback
      <3>1. execQueue # <<>> /\ execQueue' = Tail(execQueue) /\ waitQueue' = waitQueue
        BY <2>3 DEF Callback
      <3>2. execQueue' \in Seq(Ctx)
        BY <2>1, <3>1
      <3> QED BY <2>1, <2>3, <3>1, <3>2 DEF Callback, timerVars, mapVars
    <2> QED BY <2>2, <2>3
  <1>3. TypeOK'
    BY <1>1, <1>2 DEF TypeOK
  <1>4. HandleInv' /\ MapsAgree' /\ \A h \in Handles : ctxMap'[h] \in {Nil, ctxMap[h]}
    BY <1>1, <1>2, MapFrame DEF mapVars
  <1>5. AddInv'
    BY <1>1, <1>2 DEF AddInv
  <1>6. WheelInv'
    BY <1>1, <1>2, WheelFrame
  <1>7. DispatchInv'
    BY <1>1, <1>2, DispatchFrame
  <1>8. NodesInv'
    BY <1>1, <1>2, <1>4, NodesFrame
  <1> QED BY <1>3, <1>4, <1>5, <1>6, <1>7, <1>8 DEF IInv

LEMMA StutterInv ==
  ASSUME IInv, UNCHANGED vars
  PROVE  IInv'
  <1>1. TypeOK /\ HandleInv /\ MapsAgree /\ AddInv /\ WheelInv /\ DispatchInv /\ NodesInv
    BY DEF IInv
  <1>2. /\ UNCHANGED <<wheel, time, tLock, mLock, timerPc, dispatching, waitQueue, execQueue>>
        /\ UNCHANGED <<counter, ctxMap, keyMap, keyOf, adds, adding, left, delivered>>
    BY DEF vars, timerVars, mapVars
  <1>3. TypeOK'
    BY <1>1, <1>2 DEF TypeOK
  <1>4. HandleInv' /\ MapsAgree' /\ \A h \in Handles : ctxMap'[h] \in {Nil, ctxMap[h]}
    BY <1>1, <1>2, MapFrame DEF mapVars
  <1>5. AddInv'
    BY <1>1, <1>2 DEF AddInv
  <1>6. WheelInv'
    BY <1>1, <1>2, WheelFrame
  <1>7. DispatchInv'
    BY <1>1, <1>2, DispatchFrame
  <1>8. NodesInv'
    BY <1>1, <1>2, <1>4, NodesFrame
  <1> QED BY <1>3, <1>4, <1>5, <1>6, <1>7, <1>8 DEF IInv

LEMMA StepInv ==
  ASSUME IInv, [Next]_vars
  PROVE  IInv'
  <1>1. ASSUME NEW k \in Keys, NEW d \in Times, AddTimer(k, d) PROVE IInv'
    BY <1>1, AddTimerInv
  <1>2. ASSUME NEW k \in Keys, RemoveTimer(k) PROVE IInv'
    BY <1>2, RemoveTimerInv
  <1>3. CASE timer_add
    BY <1>3, TimerAddInv
  <1>4. CASE PrepareExecute \/ Callback
    BY <1>4, QueueInv
  <1>5. CASE TimerUpdate \/ DispatchDone
    BY <1>5, LockInv
  <1>6. CASE timer_execute
    BY <1>6, TimerExecuteInv
  <1>7. CASE TimerTimeout
    BY <1>7, TimerTimeoutInv
  <1>8. CASE timer_shift
    BY <1>8, TimerShiftInv
  <1>9. CASE UpdateDone
    BY <1>9, UpdateDoneInv
  <1>10. CASE UNCHANGED vars
    BY <1>10, StutterInv
  <1> QED BY <1>1, <1>2, <1>3, <1>4, <1>5, <1>6, <1>7, <1>8, <1>9, <1>10
          DEF Next, TimerThread, LogicLoop, Callers

-----------------------------------------------------------------------------
(* The theorems                                                            *)

\* Every node is where add_node would put it now and expires when its context
\* is due, and every timer in the maps has one, through every AddTimer,
\* RemoveTimer, shift and dispatch.
THEOREM Invariance == Spec => []IInv
  <1>1. Init => IInv
    BY InitInv
  <1>2. IInv /\ [Next]_vars => IInv'
    BY StepInv
  <1> QED BY <1>1, <1>2, PTL DEF Spec

\* Expiry times and the tick counter stay in their width, whatever the size
\* of the wheels.
THEOREM TypeCorrect == Spec => []TypeOK
  <1>1. IInv => TypeOK
    BY DEF IInv
  <1> QED BY <1>1, Invariance, PTL

\* The key map and the context map stay mirror images of each other through
\* every displacement, removal and timeout.
THEOREM MapsStayInAgreement == Spec => []MapsAgree
  <1>1. IInv => MapsAgree
    BY DEF IInv
  <1> QED BY <1>1, Invariance, PTL

\* TimerTimeout never touches the context of a timer that is gone.
THEOREM ContextsAreAlive == Spec => []ContextAlive
  <1>1. IInv => ContextAlive
    <2> HIDE DEF Node
    <2> SUFFICES ASSUME IInv, dispatching # <<>>
                 PROVE  ctxMap[Head(dispatching).handle] \in {Nil, Head(dispatching).ctx}
      BY DEF ContextAlive
    <2>1. TypeOK /\ HandleInv /\ DispatchInv
      BY DEF IInv
    <2>2. /\ Head(dispatching) = dispatching[1] /\ 1 \in DOMAIN dispatching
          /\ Head(dispatching) \in Node
      BY <2>1 DEF TypeOK
    <2>3. Head(dispatching).handle = Head(dispatching).ctx
      BY <2>1, <2>2 DEF DispatchInv, NodeOK
    <2>4. Head(dispatching).handle \in Handles
      BY <2>2, NodeFields
    <2> QED BY <2>1, <2>3, <2>4 DEF HandleInv
  <1> QED BY <1>1, Invariance, PTL

\* A timer is due in the very tick its delay ends, across any number of
\* cascades and wraps of the tick counter.
THEOREM TimersFireOnTime == Spec => []FireOnTime
  <1>1. IInv => FireOnTime
    <2> HIDE DEF Node
    <2> SUFFICES ASSUME IInv PROVE FireOnTime
      OBVIOUS
    <2>1. TypeOK /\ WheelInv /\ DispatchInv /\ NodesInv
      BY DEF IInv
    <2>2. ASSUME NEW c \in Ctx, OnWheel(c), left[c] <= 0
          PROVE  timerPc \in {"execute1", "dispatch1"}
      <3>1. HasNode(c)
        BY <2>1, <2>2 DEF NodesInv
      <3>2. CASE \E i \in DOMAIN dispatching : dispatching[i].ctx = c
        <4>1. dispatching # <<>>
          <5>1. DOMAIN << >> = {}
            OBVIOUS
          <5> QED BY <3>2, <5>1
        <4> QED BY <2>1, <4>1 DEF DispatchInv
      <3>3. CASE \E x \in Slots : \E i \in DOMAIN wheel[x] : wheel[x][i].ctx = c
        <4>1. PICK x \in Slots : \E i \in DOMAIN wheel[x] : wheel[x][i].ctx = c
          BY <3>3
        <4>2. PICK i \in DOMAIN wheel[x] : wheel[x][i].ctx = c
          BY <4>1
        <4>3. OnTime(wheel[x][i], x)
          BY <2>1 DEF WheelInv
        <4>4. timerPc \in {"idle", "execute0"} => left[c] > 0
          BY <4>2, <4>3 DEF OnTime
        <4>5. left[c] \in Int
          BY <2>1 DEF TypeOK
        <4>6. timerPc \notin {"idle", "execute0"}
          BY <2>2, <4>4, <4>5
        <4> QED BY <2>1, <4>6 DEF TypeOK, DispatchInv
      <3> QED BY <3>1, <3>2, <3>3 DEF HasNode
    <2>3. \A i \in 1..Len(dispatching) : i \in DOMAIN dispatching
      BY <2>1 DEF TypeOK
    <2> QED BY <2>1, <2>2, <2>3 DEF FireOnTime, DispatchInv
  <1> QED BY <1>1, Invariance, PTL

-----------------------------------------------------------------------------
(* The timer implements TimerService                                       *)

NoTimer == [id |-> Nil, left |-> Nil]

\* The timer of key k, from the key map alone: a handle is its context.
TimerOf(k) ==
  IF keyMap[k] # Nil /\ ~(adding # NoAdd /\ keyMap[k] = adds)
  THEN [id |-> keyMap[k], left |-> left[keyMap[k]]]
  ELSE NoTimer

\* The map that TimerService is shown.
Armed == [k \in Keys |-> ArmedTimer(k)]

LEMMA ArmedIs == IInv => Armed = [k \in Keys |-> TimerOf(k)]
  <1> SUFFICES ASSUME IInv, NEW k \in Keys PROVE ArmedTimer(k) = TimerOf(k)
    BY Zenon DEF Armed
  <1>1. TypeOK /\ HandleInv /\ MapsAgree
    BY DEF IInv
  <1>2. CASE keyMap[k] = Nil
    BY <1>2 DEF ArmedTimer, TimerOf, NoTimer
  <1>3. CASE keyMap[k] # Nil
    <2>1. keyMap[k] \in Handles /\ ctxMap[keyMap[k]] = keyMap[k]
      BY <1>1, <1>3 DEF TypeOK, MapsAgree, HandleInv
    <2>2. OnWheel(keyMap[k]) <=> ~(adding # NoAdd /\ keyMap[k] = adds)
      BY <2>1 DEF OnWheel
    <2> QED BY <1>3, <2>1, <2>2 DEF ArmedTimer, TimerOf, NoTimer
  <1> QED BY <1>2, <1>3

LEMMA ArmedPrime == IInv' => Armed' = [k \in Keys |-> TimerOf(k)']
  <1>1. IInv' => (Armed = [k \in Keys |-> TimerOf(k)])'
    BY ArmedIs, PTL
  <1> QED BY <1>1

\* A key has a timer when its handle is known and AddTimer is done with it.
LEMMA TimerKnown ==
  ASSUME IInv, NEW k \in Keys
  PROVE  /\ TimerOf(k) # NoTimer <=> keyMap[k] # Nil /\ ~(adding # NoAdd /\ keyMap[k] = adds)
         /\ TimerOf(k) # NoTimer =>
              /\ TimerOf(k) = [id |-> keyMap[k], left |-> left[keyMap[k]]]
              /\ keyMap[k] \in Ctx /\ OnWheel(keyMap[k])
              /\ ctxMap[keyMap[k]] = keyMap[k]
  <1>1. TypeOK /\ HandleInv /\ MapsAgree
    BY DEF IInv
  <1>2. keyMap[k] # Nil => [id |-> keyMap[k], left |-> left[keyMap[k]]] # NoTimer
    <2>1. [id |-> keyMap[k], left |-> left[keyMap[k]]].id = keyMap[k] /\ NoTimer.id = Nil
      BY DEF NoTimer
    <2> QED BY <2>1
  <1>3. keyMap[k] # Nil => /\ keyMap[k] \in Handles /\ ctxMap[keyMap[k]] = keyMap[k]
                           /\ keyMap[k] \in Ctx
    BY <1>1 DEF TypeOK, MapsAgree, HandleInv
  <1> QED BY <1>2, <1>3 DEF TimerOf, OnWheel

LEMMA ServiceInit ==
  ASSUME Init
  PROVE  Service!Init
  <1>1. \A k \in Keys : ArmedTimer(k) = NoTimer
    BY DEF Init, ArmedTimer, NoTimer
  <1> QED BY <1>1 DEF Init, Service!Init, NoTimer

\* Steps that show TimerService nothing.
LEMMA ServiceStutter ==
  ASSUME IInv, IInv', UNCHANGED <<keyMap, adding, adds, left, delivered>>
  PROVE  UNCHANGED Service!vars
  <1>1. \A k \in Keys : TimerOf(k)' = TimerOf(k)
    BY DEF TimerOf
  <1>2. Armed' = Armed
    BY <1>1, ArmedIs, ArmedPrime, Zenon
  <1> QED BY <1>2 DEF Service!vars, Armed

\* AddTimer disarms the key until the new timer is on the wheel.
LEMMA ServiceAddTimer ==
  ASSUME IInv, IInv', NEW k \in Keys, NEW d \in Times, AddTimer(k, d)
  PROVE  Service!Disarm(k) \/ UNCHANGED Service!vars
  <1>1. TypeOK /\ HandleInv /\ MapsAgree
    BY DEF IInv
  <1>2. /\ adds' = adds + 1 /\ adding' = [time |-> d, handle |-> adds + 1]
        /\ adds + 1 \in Handles
        /\ \A j \in Keys : keyMap'[j] = IF j = k THEN adds + 1 ELSE keyMap[j]
    BY AddTimerIs
  <1>3. adding = NoAdd /\ UNCHANGED <<left, delivered>> /\ adds \in Nat
    BY <1>1, Numbers DEF AddTimer, TypeOK
  <1>4. adding' # NoAdd
    <2>1. adding'.handle = adds + 1 /\ NoAdd.handle = Nil
      BY <1>2 DEF NoAdd
    <2> QED BY <1>2, <2>1, Numbers
  <1>5. TimerOf(k)' = NoTimer
    BY <1>2, <1>4 DEF TimerOf, NoTimer
  <1>6. ASSUME NEW j \in Keys, j # k PROVE TimerOf(j)' = TimerOf(j)
    <2>1. keyMap'[j] = keyMap[j]
      BY <1>2, <1>6
    <2>2. keyMap[j] # Nil => keyMap[j] \in Nat /\ keyMap[j] <= adds
      BY <1>1, Numbers DEF TypeOK, MapsAgree, HandleInv, Handles
    <2>3. keyMap[j] # Nil => keyMap[j] # adds + 1
      BY <1>3, <2>2
    <2> QED BY <1>2, <1>3, <1>4, <2>1, <2>3 DEF TimerOf, NoTimer
  <1>7. Armed' = [Armed EXCEPT ![k] = NoTimer]
    <2>1. Armed = [j \in Keys |-> TimerOf(j)] /\ Armed' = [j \in Keys |-> TimerOf(j)']
      BY ArmedIs, ArmedPrime
    <2> QED BY <1>5, <1>6, <2>1
  <1>8. CASE Armed[k] = NoTimer
    <2>1. Armed' = Armed
      BY <1>7, <1>8 DEF Armed
    <2> QED BY <1>3, <2>1 DEF Service!vars, Armed
  <1>9. CASE Armed[k] # NoTimer
    BY <1>3, <1>7, <1>9 DEF Service!Disarm, Armed, NoTimer
  <1> QED BY <1>8, <1>9

\* With timer_add the timer is armed.
LEMMA ServiceTimerAdd ==
  ASSUME IInv, IInv', timer_add
  PROVE  Service!Next \/ UNCHANGED Service!vars
  <1> DEFINE d == adding.time
  <1>1. TypeOK /\ AddInv /\ MapsAgree
    BY DEF IInv
  <1>2. /\ adding # NoAdd /\ adding' = NoAdd
        /\ left' = [left EXCEPT ![adds] = d]
        /\ UNCHANGED <<keyMap, adds, delivered>>
    BY DEF timer_add, mapVars
  <1>3. d \in Times /\ adds \in Ctx
    BY <1>1, <1>2 DEF AddInv
  <1> HIDE DEF d
  <1>4. left'[adds] = d /\ \A c \in Ctx : c # adds => left'[c] = left[c]
    BY <1>1, <1>2, <1>3 DEF TypeOK
  <1>5. ASSUME NEW j \in Keys, keyMap[j] # adds PROVE TimerOf(j)' = TimerOf(j)
    <2>1. keyMap[j] # Nil => keyMap[j] \in Ctx
      BY <1>2, <1>5, TimerKnown DEF TimerOf
    <2>2. keyMap[j] # Nil => left'[keyMap[j]] = left[keyMap[j]]
      BY <1>4, <1>5, <2>1
    <2> QED BY <1>2, <1>5, <2>2 DEF TimerOf, NoTimer
  <1>6. Armed = [j \in Keys |-> TimerOf(j)] /\ Armed' = [j \in Keys |-> TimerOf(j)']
    BY ArmedIs, ArmedPrime
  <1>7. CASE \A j \in Keys : keyMap[j] # adds
    <2>1. Armed' = Armed
      BY <1>5, <1>6, <1>7, Zenon
    <2> QED BY <1>2, <2>1 DEF Service!vars, Armed
  <1>8. CASE \E j \in Keys : keyMap[j] = adds
    <2>1. PICK k \in Keys : keyMap[k] = adds
      BY <1>8
    <2>2. adds # Nil
      BY <1>3, Numbers
    <2>3. \A j \in Keys : j # k => keyMap[j] # adds
      BY <1>1, <2>1, <2>2 DEF MapsAgree
    <2>4. TimerOf(k)' = [id |-> adds, left |-> d]
      BY <1>2, <1>4, <2>1, <2>2 DEF TimerOf
    <2>5. Armed' = [Armed EXCEPT ![k] = [id |-> adds, left |-> d]]
      BY <1>5, <1>6, <2>3, <2>4
    <2>6. Service!Arm(k, adds, d)
      BY <1>2, <2>5 DEF Service!Arm, Armed
    <2> QED BY <1>3, <2>6 DEF Service!Next
  <1> QED BY <1>7, <1>8

LEMMA ServiceRemoveTimer ==
  ASSUME IInv, IInv', NEW k \in Keys, RemoveTimer(k)
  PROVE  Service!Disarm(k)
  <1>1. /\ adding = NoAdd /\ keyMap[k] # Nil
        /\ UNCHANGED <<adding, adds, left, delivered>>
    BY DEF RemoveTimer
  <1>2. \A j \in Keys : keyMap'[j] = IF j = k THEN Nil ELSE keyMap[j]
    BY RemoveTimerInv
  <1>3. TimerOf(k)' = NoTimer /\ \A j \in Keys : j # k => TimerOf(j)' = TimerOf(j)
    BY <1>1, <1>2 DEF TimerOf, NoTimer
  <1>4. Armed = [j \in Keys |-> TimerOf(j)] /\ Armed' = [j \in Keys |-> TimerOf(j)']
    BY ArmedIs, ArmedPrime
  <1>5. Armed' = [Armed EXCEPT ![k] = NoTimer]
    BY <1>3, <1>4
  <1>6. Armed[k] # NoTimer
    BY <1>1, <1>4, TimerKnown
  <1> QED BY <1>1, <1>5, <1>6 DEF Service!Disarm, Armed, NoTimer

\* A known handle is delivered, and with no tick left; another one shows
\* nothing.
LEMMA ServiceTimerTimeout ==
  ASSUME IInv, IInv', TimerTimeout
  PROVE  Service!Next \/ UNCHANGED Service!vars
  <1> HIDE DEF Node
  <1> DEFINE n == Head(dispatching)
             h0 == n.handle
  <1>1. TypeOK /\ HandleInv /\ MapsAgree /\ AddInv /\ DispatchInv
    BY DEF IInv
  <1>2. /\ dispatching # <<>> /\ ~mLock
        /\ delivered' = (IF ctxMap[h0] # Nil THEN Append(delivered, n.ctx) ELSE delivered)
        /\ UNCHANGED <<adding, adds, left>>
    BY DEF TimerTimeout
  <1>3. adding = NoAdd
    BY <1>1, <1>2 DEF AddInv
  <1>4. n = dispatching[1] /\ 1 \in DOMAIN dispatching /\ n \in Node
    BY <1>1, <1>2 DEF TypeOK
  <1>5. h0 \in Handles /\ n.ctx = h0 /\ left[h0] = 0
    <2>1. NodeOK(n) /\ left[n.ctx] = 0
      BY <1>1, <1>4 DEF DispatchInv
    <2> QED BY <1>4, <2>1, NodeFields DEF NodeOK
  <1>6. \A j \in Keys : keyMap'[j] = IF keyMap[j] = h0 THEN Nil ELSE keyMap[j]
    BY TimerTimeoutInv
  <1> HIDE DEF n, h0
  <1>7. Armed = [j \in Keys |-> TimerOf(j)] /\ Armed' = [j \in Keys |-> TimerOf(j)']
    BY ArmedIs, ArmedPrime
  <1>8. \A j \in Keys : keyMap[j] # h0 => TimerOf(j)' = TimerOf(j)
    BY <1>2, <1>6 DEF TimerOf, NoTimer
  <1>9. CASE ctxMap[h0] = Nil
    <2>1. \A j \in Keys : keyMap[j] # h0
      BY <1>1, <1>5, <1>9, Numbers DEF MapsAgree
    <2>2. Armed' = Armed
      BY <1>7, <1>8, <2>1, Zenon
    <2> QED BY <1>2, <1>9, <2>2 DEF Service!vars, Armed
  <1>10. CASE ctxMap[h0] # Nil
    <2>1. PICK k \in Keys : keyMap[k] = h0
      BY <1>1, <1>5, <1>10 DEF MapsAgree, InUse, TypeOK
    <2>2. \A j \in Keys : j # k => keyMap[j] # h0
      BY <1>1, <1>5, <2>1, Numbers DEF MapsAgree
    <2>3. TimerOf(k) # NoTimer /\ TimerOf(k) = [id |-> h0, left |-> left[h0]]
      BY <1>3, <1>5, <2>1, TimerKnown, Numbers
    <2>4. TimerOf(k)' = NoTimer
      BY <1>6, <2>1 DEF TimerOf, NoTimer
    <2>5. Armed' = [Armed EXCEPT ![k] = NoTimer]
      BY <1>7, <1>8, <2>1, <2>2, <2>4
    <2>6. Armed[k] # NoTimer /\ Armed[k].left = 0 /\ Armed[k].id = h0
      BY <1>5, <1>7, <2>1, <2>3
    <2>7. delivered' = Append(delivered, Armed[k].id)
      BY <1>2, <1>5, <1>10, <2>6
    <2>8. Service!Deliver(k)
      BY <2>5, <2>6, <2>7 DEF Service!Deliver, Armed, NoTimer
    <2> QED BY <2>1, <2>8 DEF Service!Next
  <1> QED BY <1>9, <1>10

\* No timer that is due is passed over by a tick.
LEMMA ServiceTick ==
  ASSUME IInv, IInv', timer_shift
  PROVE  Service!Tick
  <1>1. TypeOK /\ NodesInv
    BY DEF IInv
  <1>2. /\ left' = [c \in Ctx |-> IF left[c] > 0 THEN left[c] - 1 ELSE left[c]]
        /\ UNCHANGED <<keyMap, adds, adding, delivered>>
    BY DEF timer_shift, mapVars
  <1>3. Armed = [j \in Keys |-> TimerOf(j)] /\ Armed' = [j \in Keys |-> TimerOf(j)']
    BY ArmedIs, ArmedPrime
  <1>4. ASSUME NEW k \in Keys, Armed[k] # NoTimer
        PROVE  /\ Armed[k].left > 0
               /\ Armed'[k] = [id |-> Armed[k].id, left |-> Armed[k].left - 1]
    <2>1. TimerOf(k) # NoTimer /\ Armed[k] = TimerOf(k)
      BY <1>3, <1>4
    <2>2. /\ keyMap[k] # Nil /\ ~(adding # NoAdd /\ keyMap[k] = adds)
          /\ TimerOf(k) = [id |-> keyMap[k], left |-> left[keyMap[k]]]
          /\ keyMap[k] \in Ctx /\ OnWheel(keyMap[k])
      BY <2>1, TimerKnown
    <2>3. left[keyMap[k]] > 0
      BY <1>1, <2>2, TimerShiftInv DEF NodesInv
    <2>4. left'[keyMap[k]] = left[keyMap[k]] - 1
      BY <1>2, <2>2, <2>3
    <2>5. TimerOf(k)' = [id |-> keyMap[k], left |-> left[keyMap[k]] - 1]
      BY <1>2, <2>2, <2>4 DEF TimerOf
    <2>6. Armed[k].id = keyMap[k] /\ Armed[k].left = left[keyMap[k]]
      BY <2>1, <2>2
    <2> QED BY <1>3, <2>3, <2>5, <2>6
  <1>5. ASSUME NEW k \in Keys, Armed[k] = NoTimer PROVE Armed'[k] = NoTimer
    <2>1. TimerOf(k) = NoTimer
      BY <1>3, <1>5
    <2>2. ~(keyMap[k] # Nil /\ ~(adding # NoAdd /\ keyMap[k] = adds))
      BY <2>1, TimerKnown
    <2>3. TimerOf(k)' = NoTimer
      BY <1>2, <2>2 DEF TimerOf, NoTimer
    <2> QED BY <1>3, <2>3
  <1>6. Armed' = [k \in Keys |-> IF Armed[k] = NoTimer THEN NoTimer
                                 ELSE [id |-> Armed[k].id, left |-> Armed[k].left - 1]]
    <2>1. Armed' = [k \in Keys |-> Armed'[k]]
      BY <1>3
    <2> QED BY <1>4, <1>5, <2>1
  <1> QED BY <1>2, <1>4, <1>6 DEF Service!Tick, Armed, NoTimer

LEMMA ServiceStep ==
  ASSUME IInv, IInv', [Next]_vars
  PROVE  [Service!Next]_(Service!vars)
  <1>1. ASSUME NEW k \in Keys, NEW d \in Times, AddTimer(k, d)
        PROVE  Service!Next \/ UNCHANGED Service!vars
    BY <1>1, ServiceAddTimer DEF Service!Next
  <1>2. ASSUME NEW k \in Keys, RemoveTimer(k)
        PROVE  Service!Next \/ UNCHANGED Service!vars
    BY <1>2, ServiceRemoveTimer DEF Service!Next
  <1>3. CASE timer_add
    BY <1>3, ServiceTimerAdd
  <1>4. CASE PrepareExecute \/ Callback
    BY <1>4, ServiceStutter DEF PrepareExecute, Callback, mapVars
  <1>5. CASE TimerUpdate \/ DispatchDone \/ timer_execute \/ UpdateDone
    BY <1>5, ServiceStutter DEF TimerUpdate, DispatchDone, timer_execute, UpdateDone, mapVars
  <1>6. CASE TimerTimeout
    BY <1>6, ServiceTimerTimeout
  <1>7. CASE timer_shift
    BY <1>7, ServiceTick DEF Service!Next
  <1>8. CASE UNCHANGED vars
    BY <1>8, ServiceStutter DEF vars, mapVars
  <1> QED BY <1>1, <1>2, <1>3, <1>4, <1>5, <1>6, <1>7, <1>8
          DEF Next, TimerThread, LogicLoop, Callers

\* Every step of the wheel, the maps and the locks is a step of TimerService
\* or shows it nothing: a timer is delivered in the tick its delay ends, once,
\* and never after a removal or a displacement.
THEOREM ImplementsTimerSafety == Spec => Service!TimerSafety
  <1>1. Init => Service!Init
    BY ServiceInit
  <1>2. IInv /\ IInv' /\ [Next]_vars => [Service!Next]_(Service!vars)
    BY ServiceStep
  <1> QED BY <1>1, <1>2, Invariance, PTL DEF Spec, Service!TimerSafety
==============================================================================
