------------------------- MODULE CurveEditorProofs -------------------------
(***************************************************************************)
(* Theorems about the policy of FanPolicy, for every curve and every       *)
(* temperature, then about the curve editor and the virtual sensors, for   *)
(* all inputs, files and temperatures.                                     *)
(***************************************************************************)
EXTENDS CurveEditor, FiniteSetTheorems, SequenceTheorems, WellFoundedInduction, TLAPS

(* Every non-empty set of natural numbers has a least element. *)
LEMMA LeastNatural ==
  ASSUME NEW S \in SUBSET Nat, S # {}
  PROVE  \E m \in S : \A n \in S : m <= n
<1>1. PICK m \in S : \A n \in S : ~ (<<n, m>> \in OpToRel(<, Nat))
  BY NatLessThanWellFounded, WFMin, Zenon
<1>2. ASSUME NEW n \in S, n < m PROVE FALSE
  <2>1. <<n, m>> \in OpToRel(<, Nat)
    BY <1>2, SMT DEF OpToRel
  <2>2. QED
    BY <1>1, <2>1
<1>3. QED
  BY <1>2

(* Rounding yields an integer within half a unit of the quotient (round). *)
LEMMA RoundHalfEvenNearest ==
  ASSUME NEW n \in Int, NEW d \in Int, d > 0
  PROVE  /\ RoundHalfEven(n, d) \in Int
         /\ 2 * n - d <= 2 * (d * RoundHalfEven(n, d))
         /\ 2 * (d * RoundHalfEven(n, d)) <= 2 * n + d
<1> DEFINE q == n \div d
           r == n % d
<1>1. q \in Int /\ r \in 0 .. d - 1 /\ n = (d * q) + r
  OBVIOUS
<1>2. \/ RoundHalfEven(n, d) = q /\ 2 * r <= d
      \/ RoundHalfEven(n, d) = q + 1 /\ 2 * r >= d
  BY <1>1 DEF RoundHalfEven
<1>3. d * (q + 1) = (d * q) + d
  BY <1>1
<1> HIDE DEF q, r
<1>4. d * q \in Int
  BY <1>1
<1>5. QED
  BY <1>1, <1>2, <1>3, <1>4

(* On a curve with points, between the first and the last temperature, the *)
(* segment scan of interpolate() finds a segment and never divides by      *)
(* zero, whatever the order of the points: load_config accepts any.        *)
THEOREM ScanFindsProperSegment ==
  ASSUME NEW points \in Seq(Point), NEW temp \in Int, points # <<>>,
         points[1].temp < temp, temp < points[Len(points)].temp
  PROVE  /\ FirstSegment(points, temp) \in 1 .. Len(points) - 1
         /\ points[FirstSegment(points, temp)].temp < temp
         /\ temp <= points[FirstSegment(points, temp) + 1].temp
<1> DEFINE N == Len(points)
           S == Segments(points, temp)
           i == FirstSegment(points, temp)
           Above(n) == { j \in 2 .. n : points[j].temp >= temp }
<1>1. N \in Nat \ {0} /\ \A j \in 1 .. N : points[j].temp \in Int
  <2>1. N \in Nat \ {0} /\ \A j \in 1 .. N : points[j] \in Point
    BY LenProperties, EmptySeq
  <2>2. QED
    BY <2>1 DEF Point
<1>2. ASSUME NEW n \in 2 .. N, points[n].temp >= temp
      PROVE  \E m \in Above(n) : m - 1 \in S /\ points[m - 1].temp < temp
  <2>1. PICK m \in Above(n) : \A j \in Above(n) : m <= j
    <3>1. Above(n) \in SUBSET Nat /\ n \in Above(n)
      BY <1>1, <1>2
    <3>2. QED
      BY <3>1, LeastNatural
  <2>2. m - 1 \in 1 .. N - 1 /\ points[m - 1].temp < temp
    <3>1. CASE m = 2
      BY <3>1, <1>1
    <3>2. CASE m # 2
      <4>1. m - 1 \in 2 .. n /\ m - 1 \notin Above(n)
        BY <3>2, <2>1, <1>1
      <4>2. QED
        BY <4>1, <1>1
    <3>3. QED
      BY <3>1, <3>2
  <2>3. QED
    BY <2>1, <2>2, <1>1 DEF Segments
<1>3. S # {}
  BY <1>1, <1>2
<1>4. i \in S /\ \A j \in S : i <= j
  <2>1. S \in SUBSET Nat
    BY <1>1 DEF Segments
  <2>2. \E m \in S : \A j \in S : m <= j
    BY <2>1, <1>3, LeastNatural
  <2>3. QED
    BY <2>2 DEF FirstSegment
<1>5. i \in 1 .. N - 1 /\ points[i].temp <= temp /\ temp <= points[i + 1].temp
  BY <1>4 DEF Segments
<1>6. PICK m \in Above(i + 1) : m - 1 \in S /\ points[m - 1].temp < temp
  BY <1>1, <1>2, <1>5
<1>7. m - 1 = i
  BY <1>4, <1>5, <1>6, <1>1
<1>8. QED
  BY <1>5, <1>6, <1>7

(* The chord of two points with increasing temperatures is an integer. *)
LEMMA ChordType ==
  ASSUME NEW lo \in Point, NEW hi \in Point, NEW temp \in Int, lo.temp < hi.temp
  PROVE  Chord(lo, hi, temp) \in Int
<1> DEFINE width == hi.temp - lo.temp
           numerator == lo.percent * width + (temp - lo.temp) * (hi.percent - lo.percent)
<1>1. width \in Int /\ width > 0 /\ numerator \in Int
  BY DEF Point
<1>2. RoundHalfEven(numerator, width) \in Int
  BY <1>1, RoundHalfEvenNearest
<1>3. QED
  BY <1>2 DEF Chord

(* interpolate() returns an integer for every curve that has points. *)
THEOREM InterpolateType ==
  ASSUME NEW points \in Seq(Point), NEW temp \in Int, points # <<>>
  PROVE  Interpolate(points, temp) \in Int
<1> DEFINE i == FirstSegment(points, temp)
<1>1. Len(points) \in Nat \ {0} /\ \A j \in 1 .. Len(points) : points[j] \in Point
  BY LenProperties, EmptySeq
<1>2. ASSUME points[1].temp < temp, temp < points[Len(points)].temp
      PROVE  Chord(points[i], points[i + 1], temp) \in Int
  <2>1. /\ i \in 1 .. Len(points) - 1
        /\ points[i].temp < temp /\ temp <= points[i + 1].temp
    BY <1>2, ScanFindsProperSegment
  <2>2. points[i] \in Point /\ points[i + 1] \in Point
    BY <1>1, <2>1
  <2>3. points[i].temp < points[i + 1].temp
    BY <2>1, <2>2 DEF Point
  <2>4. QED
    BY <2>2, <2>3, ChordType
<1>3. /\ points[1].temp \in Int /\ points[1].percent \in Int
      /\ points[Len(points)].temp \in Int /\ points[Len(points)].percent \in Int
  BY <1>1 DEF Point
<1>4. QED
  BY <1>2, <1>3 DEF Interpolate

(* Rounding a quotient between two integers stays between them. *)
LEMMA RoundStaysBetween ==
  ASSUME NEW n \in Int, NEW d \in Int, NEW p \in Int, NEW q \in Int, d > 0,
         (d * p) <= n, n <= (d * q)
  PROVE  p <= RoundHalfEven(n, d) /\ RoundHalfEven(n, d) <= q
<1> DEFINE R == RoundHalfEven(n, d)
<1>1. R \in Int /\ 2 * n - d <= 2 * (d * R) /\ 2 * (d * R) <= 2 * n + d
  BY RoundHalfEvenNearest
<1> HIDE DEF R
<1>2. ASSUME NEW x \in Int, NEW y \in Int, x + 1 <= y PROVE (d * x) + d <= (d * y)
  <2>1. d * (y - x) >= d /\ d * (y - x) = (d * y) - (d * x)
    BY <1>2
  <2>2. d * x \in Int /\ d * y \in Int
    OBVIOUS
  <2>3. QED
    BY <2>1, <2>2
<1>3. d * p \in Int /\ d * q \in Int /\ d * R \in Int
  BY <1>1
<1>4. ASSUME R < p PROVE FALSE
  <2>1. (d * R) + d <= (d * p)
    BY <1>1, <1>2, <1>4
  <2>2. QED
    BY <2>1, <1>1, <1>3
<1>5. ASSUME q < R PROVE FALSE
  <2>1. (d * q) + d <= (d * R)
    BY <1>1, <1>2, <1>5
  <2>2. QED
    BY <2>1, <1>1, <1>3
<1>6. QED
  BY <1>1, <1>4, <1>5 DEF R

(* The chord stays between the speeds of its two points. *)
LEMMA ChordStaysBetween ==
  ASSUME NEW lo \in Point, NEW hi \in Point, NEW temp \in Int,
         lo.temp < temp, temp <= hi.temp
  PROVE  \/ lo.percent <= Chord(lo, hi, temp) /\ Chord(lo, hi, temp) <= hi.percent
         \/ hi.percent <= Chord(lo, hi, temp) /\ Chord(lo, hi, temp) <= lo.percent
<1> DEFINE w == hi.temp - lo.temp
           a == temp - lo.temp
           p == lo.percent
           q == hi.percent
           n == p * w + a * (q - p)
<1>1. w \in Int /\ a \in Int /\ p \in Int /\ q \in Int /\ 0 < a /\ a <= w
  BY DEF Point
<1>2. Chord(lo, hi, temp) = RoundHalfEven(n, w)
  BY DEF Chord
<1> HIDE DEF w, a, p, q
<1>3. n \in Int
  BY <1>1
<1>4. w > 0
  BY <1>1
<1>5. (w * p) + (w * (q - p)) = (w * q) /\ p * w = w * p
  BY <1>1
<1>6. CASE p <= q
  <2>1. 0 <= a * (q - p) /\ a * (q - p) <= w * (q - p)
    BY <1>1, <1>6
  <2>2. (w * p) <= n /\ n <= (w * q)
    BY <2>1, <1>1, <1>5
  <2> HIDE DEF n
  <2>3. p <= RoundHalfEven(n, w) /\ RoundHalfEven(n, w) <= q
    BY <2>2, <1>1, <1>3, <1>4, RoundStaysBetween
  <2>4. QED
    BY <2>3, <1>2 DEF p, q
<1>7. CASE q <= p
  <2>1. 0 >= a * (q - p) /\ a * (q - p) >= w * (q - p)
    BY <1>1, <1>7
  <2>2. (w * q) <= n /\ n <= (w * p)
    BY <2>1, <1>1, <1>5
  <2> HIDE DEF n
  <2>3. q <= RoundHalfEven(n, w) /\ RoundHalfEven(n, w) <= p
    BY <2>2, <1>1, <1>3, <1>4, RoundStaysBetween
  <2>4. QED
    BY <2>3, <1>2 DEF p, q
<1>8. QED
  BY <1>1, <1>6, <1>7

(* interpolate() never leaves the range of the speeds of its points, also  *)
(* when the points are not in order.                                       *)
THEOREM InterpolateStaysWithin ==
  ASSUME NEW points \in Seq(Point), NEW temp \in Int, points # <<>>
  PROVE  \E i, j \in DOMAIN points :
           /\ points[i].percent <= Interpolate(points, temp)
           /\ Interpolate(points, temp) <= points[j].percent
<1> DEFINE N == Len(points)
           k == FirstSegment(points, temp)
<1>1. /\ N \in Nat \ {0} /\ DOMAIN points = 1 .. N
      /\ \A j \in 1 .. N : points[j] \in Point
  BY LenProperties, EmptySeq
<1>2. \A j \in 1 .. N : points[j].temp \in Int /\ points[j].percent \in Int
  BY <1>1 DEF Point
<1>3. 1 \in 1 .. N /\ N \in 1 .. N
  BY <1>1
<1>4. CASE Interpolate(points, temp) \in {points[1].percent, points[N].percent}
  BY <1>1, <1>2, <1>3, <1>4
<1>5. CASE /\ points[1].temp < temp /\ temp < points[N].temp
           /\ Interpolate(points, temp) = Chord(points[k], points[k + 1], temp)
  <2>1. /\ k \in 1 .. N - 1
        /\ points[k].temp < temp /\ temp <= points[k + 1].temp
    BY <1>5, ScanFindsProperSegment
  <2>2. k \in 1 .. N /\ k + 1 \in 1 .. N
    BY <2>1, <1>1
  <2>3. points[k] \in Point /\ points[k + 1] \in Point
    BY <2>2, <1>1
  <2>4. QED
    BY <1>1, <1>5, <2>1, <2>2, <2>3, ChordStaysBetween
<1>6. QED
  BY <1>2, <1>3, <1>4, <1>5 DEF Interpolate

(* The rounded quotient grows with its numerator. *)
LEMMA RoundMonotone ==
  ASSUME NEW m \in Int, NEW n \in Int, NEW d \in Int, d > 0, m <= n
  PROVE  RoundHalfEven(m, d) <= RoundHalfEven(n, d)
<1>1. PICK x, y : x = RoundHalfEven(m, d) /\ y = RoundHalfEven(n, d)
  OBVIOUS
<1>2. /\ x \in Int /\ 2 * (d * x) <= 2 * m + d
      /\ y \in Int /\ 2 * n - d <= 2 * (d * y)
  BY <1>1, RoundHalfEvenNearest
<1>3. ASSUME y < x, m < n PROVE FALSE
  <2>1. (d * y) + d <= (d * x)
    <3>1. d * (y + 1) <= d * x
      BY <1>2, <1>3
    <3>2. d * (y + 1) = (d * y) + d
      BY <1>2
    <3>3. QED
      BY <3>1, <3>2
  <2>2. (d * x) \in Int /\ (d * y) \in Int
    BY <1>2
  <2>3. QED
    BY <1>2, <1>3, <2>1, <2>2
<1>4. QED
  BY <1>1, <1>2, <1>3

(* On a segment whose speeds do not fall, the chord does not fall either. *)
LEMMA ChordMonotone ==
  ASSUME NEW lo \in Point, NEW hi \in Point, NEW t \in Int, NEW u \in Int,
         lo.temp < hi.temp, lo.percent <= hi.percent, t <= u
  PROVE  Chord(lo, hi, t) <= Chord(lo, hi, u)
<1>0. PICK w, c, a, b, p \in Int :
        /\ w = hi.temp - lo.temp /\ c = hi.percent - lo.percent
        /\ a = t - lo.temp /\ b = u - lo.temp /\ p = lo.percent
  BY DEF Point
<1>1. PICK k \in Int : k = p * w
  OBVIOUS
<1>2. w > 0 /\ 0 <= c /\ a <= b
  BY <1>0 DEF Point
<1>3. a * c <= b * c
  BY <1>2
<1>4. /\ k + a * c \in Int /\ k + b * c \in Int
      /\ k + a * c <= k + b * c
  BY <1>1, <1>3
<1>5. RoundHalfEven(k + a * c, w) <= RoundHalfEven(k + b * c, w)
  BY <1>1, <1>2, <1>4, RoundMonotone
<1>6. QED
  BY <1>0, <1>1, <1>5 DEF Chord

(* At its right end the chord has the speed of the right point. *)
LEMMA ChordAtItsEnd ==
  ASSUME NEW lo \in Point, NEW hi \in Point, lo.temp < hi.temp
  PROVE  Chord(lo, hi, hi.temp) = hi.percent
<1>1. PICK w, p, q \in Int :
        w = hi.temp - lo.temp /\ p = lo.percent /\ q = hi.percent
  BY DEF Point
<1>2. w > 0
  BY <1>1 DEF Point
<1>3. PICK n : n = p * w + w * (q - p)
  OBVIOUS
<1>4. n \in Int /\ n = (w * q) /\ (w * q) <= n /\ n <= (w * q)
  <2>1. (w * p) + (w * (q - p)) = (w * q) /\ p * w = w * p /\ (w * q) \in Int
    BY <1>1
  <2>2. n = (w * q)
    BY <1>3, <2>1
  <2>3. QED
    BY <2>1, <2>2
<1>5. q <= RoundHalfEven(n, w) /\ RoundHalfEven(n, w) <= q
  BY <1>1, <1>2, <1>4, RoundStaysBetween
<1>6. RoundHalfEven(n, w) \in Int
  BY <1>1, <1>2, <1>4, RoundHalfEvenNearest
<1>7. RoundHalfEven(n, w) = q
  BY <1>1, <1>5, <1>6
<1>8. QED
  BY <1>1, <1>3, <1>7 DEF Chord

(* What interpolate() does between its end temperatures: the chord of two  *)
(* adjacent points of increasing temperature.                              *)
LEMMA InterpolateIsChord ==
  ASSUME NEW points \in Seq(Point), NEW temp \in Int, points # <<>>,
         points[1].temp < temp, temp < points[Len(points)].temp
  PROVE  \E k \in 1 .. Len(points) - 1 :
           /\ points[k] \in Point /\ points[k + 1] \in Point
           /\ points[k].temp < temp /\ temp <= points[k + 1].temp
           /\ Interpolate(points, temp) = Chord(points[k], points[k + 1], temp)
<1>1. PICK k : k = FirstSegment(points, temp)
  OBVIOUS
<1>2. /\ k \in 1 .. Len(points) - 1
      /\ points[k].temp < temp /\ temp <= points[k + 1].temp
  BY <1>1, ScanFindsProperSegment
<1>3. /\ Len(points) \in Nat \ {0}
      /\ \A j \in 1 .. Len(points) : points[j] \in Point
  BY LenProperties, EmptySeq
<1>4. k \in 1 .. Len(points) /\ k + 1 \in 1 .. Len(points)
  BY <1>2, <1>3
<1>5. points[k] \in Point /\ points[k + 1] \in Point
  BY <1>3, <1>4
<1>6. k \in Segments(points, temp)
  BY <1>2, <1>5 DEF Segments, Point
<1>7. points[1].temp \in Int /\ points[Len(points)].temp \in Int
  BY <1>3 DEF Point
<1>8. Interpolate(points, temp) = Chord(points[k], points[k + 1], temp)
  BY <1>1, <1>6, <1>7 DEF Interpolate
<1>9. QED
  BY <1>2, <1>5, <1>8

(* On a curve in order whose speeds do not fall, more heat never means less *)
(* cooling, over every segment, step and end of the curve.                  *)
THEOREM InterpolateIsMonotone ==
  ASSUME NEW points \in Seq(Point), points # <<>>,
         \A i, j \in 1 .. Len(points) :
           i < j => /\ points[i].temp <= points[j].temp
                    /\ points[i].percent <= points[j].percent,
         NEW t \in Int, NEW u \in Int, t <= u
  PROVE  Interpolate(points, t) <= Interpolate(points, u)
<1>1. PICK N : N = Len(points)
  OBVIOUS
<1>2. /\ N \in Nat \ {0} /\ \A j \in 1 .. N : points[j] \in Point
      /\ 1 \in 1 .. N /\ N \in 1 .. N
  BY <1>1, LenProperties, EmptySeq
<1>3. \A j \in 1 .. N : points[j].temp \in Int /\ points[j].percent \in Int
  BY <1>2 DEF Point
<1>4. \A i, j \in 1 .. N : i <= j => /\ points[i].temp <= points[j].temp
                                     /\ points[i].percent <= points[j].percent
  BY <1>1, <1>2, <1>3
<1>5. ASSUME NEW x \in Int
      PROVE  /\ Interpolate(points, x) \in Int
             /\ points[1].percent <= Interpolate(points, x)
             /\ Interpolate(points, x) <= points[N].percent
             /\ x <= points[1].temp => Interpolate(points, x) = points[1].percent
             /\ x > points[1].temp /\ x >= points[N].temp => Interpolate(points, x) = points[N].percent
  <2>1. PICK v : v = Interpolate(points, x)
    OBVIOUS
  <2>2. v \in Int
    BY <2>1, InterpolateType
  <2>3. PICK i, j \in 1 .. N : points[i].percent <= v /\ v <= points[j].percent
    <3>1. DOMAIN points = 1 .. N
      BY <1>1, LenProperties
    <3>2. QED
      BY <2>1, <3>1, InterpolateStaysWithin
  <2>4. points[1].percent <= points[i].percent /\ points[j].percent <= points[N].percent
    BY <1>2, <1>4
  <2>5. points[1].percent <= v /\ v <= points[N].percent
    BY <1>2, <1>3, <2>2, <2>3, <2>4
  <2>6. /\ x <= points[1].temp => v = points[1].percent
        /\ x > points[1].temp /\ x >= points[N].temp => v = points[N].percent
    BY <1>1, <1>2, <1>3, <2>1 DEF Interpolate
  <2>7. QED
    BY <2>1, <2>2, <2>5, <2>6
<1>6. CASE t <= points[1].temp
  BY <1>5, <1>6
<1>7. CASE u > points[1].temp /\ u >= points[N].temp
  BY <1>5, <1>7
<1>8. CASE points[1].temp < t /\ u < points[N].temp
  <2>1. points[1].temp < u /\ t < points[N].temp
    BY <1>2, <1>3, <1>8
  <2>2. PICK i \in 1 .. N - 1 :
          /\ points[i].temp < t /\ t <= points[i + 1].temp
          /\ Interpolate(points, t) = Chord(points[i], points[i + 1], t)
    BY <1>1, <1>8, <2>1, InterpolateIsChord
  <2>3. PICK j \in 1 .. N - 1 :
          /\ points[j].temp < u /\ u <= points[j + 1].temp
          /\ Interpolate(points, u) = Chord(points[j], points[j + 1], u)
    BY <1>1, <1>8, <2>1, InterpolateIsChord
  <2>4. i \in 1 .. N /\ i + 1 \in 1 .. N /\ j \in 1 .. N /\ j + 1 \in 1 .. N
    BY <1>2
  <2>5. i <= j
    <3>1. ASSUME j + 1 <= i PROVE FALSE
      <4>1. points[j + 1].temp <= points[i].temp
        BY <1>4, <2>4, <3>1
      <4>2. QED
        BY <1>3, <2>2, <2>3, <2>4, <4>1
    <3>2. QED
      BY <1>2, <3>1
  <2>6. points[i].percent <= points[i + 1].percent /\ points[j].percent <= points[j + 1].percent
    BY <1>2, <1>4, <2>4
  <2>7. points[i].temp < points[i + 1].temp /\ points[j].temp < points[j + 1].temp
    BY <1>3, <2>2, <2>3, <2>4
  <2>8. CASE i = j
    <3>1. Chord(points[i], points[i + 1], t) <= Chord(points[i], points[i + 1], u)
      BY <1>2, <2>4, <2>6, <2>7, ChordMonotone
    <3>2. QED
      BY <2>2, <2>3, <2>8, <3>1
  <2>9. CASE i + 1 <= j
    <3>1. PICK v, w : v = Interpolate(points, t) /\ w = Interpolate(points, u)
      OBVIOUS
    <3>2. v \in Int /\ w \in Int
      BY <1>5, <3>1
    <3>3. \/ points[i].percent <= v /\ v <= points[i + 1].percent
          \/ points[i + 1].percent <= v /\ v <= points[i].percent
      BY <1>2, <2>2, <2>4, <3>1, ChordStaysBetween
    <3>4. \/ points[j].percent <= w /\ w <= points[j + 1].percent
          \/ points[j + 1].percent <= w /\ w <= points[j].percent
      BY <1>2, <2>3, <2>4, <3>1, ChordStaysBetween
    <3>5. points[i + 1].percent <= points[j].percent
      BY <1>4, <2>4, <2>9
    <3>6. v <= points[i + 1].percent /\ points[j].percent <= w
      BY <1>3, <2>4, <2>6, <3>2, <3>3, <3>4
    <3>7. QED
      BY <1>3, <2>4, <3>1, <3>2, <3>5, <3>6
  <2>10. QED
    BY <1>2, <2>5, <2>8, <2>9
<1>9. QED
  BY <1>2, <1>3, <1>6, <1>7, <1>8

(* A curve in order gives, at the temperature of each of its points, the   *)
(* speed of a point with that temperature.                                 *)
THEOREM InterpolateMeetsPoints ==
  ASSUME NEW points \in Seq(Point), points # <<>>,
         \A i, j \in 1 .. Len(points) : i < j => points[i].temp <= points[j].temp,
         NEW i \in 1 .. Len(points)
  PROVE  \E j \in 1 .. Len(points) :
           /\ points[j].temp = points[i].temp
           /\ points[j].percent = Interpolate(points, points[i].temp)
<1>1. PICK N, t : N = Len(points) /\ t = points[i].temp
  OBVIOUS
<1>2. /\ N \in Nat \ {0} /\ \A j \in 1 .. N : points[j] \in Point
      /\ 1 \in 1 .. N /\ N \in 1 .. N
  BY <1>1, LenProperties, EmptySeq
<1>3. \A j \in 1 .. N : points[j].temp \in Int /\ points[j].percent \in Int
  BY <1>2 DEF Point
<1>4. \A a, b \in 1 .. N : a <= b => points[a].temp <= points[b].temp
  BY <1>1, <1>2, <1>3
<1>5. t \in Int /\ points[1].temp <= t /\ t <= points[N].temp
  BY <1>1, <1>2, <1>3, <1>4
<1>6. CASE t <= points[1].temp
  BY <1>1, <1>2, <1>3, <1>5, <1>6 DEF Interpolate
<1>7. CASE points[1].temp < t /\ t >= points[N].temp
  BY <1>1, <1>2, <1>3, <1>5, <1>7 DEF Interpolate
<1>8. CASE points[1].temp < t /\ t < points[N].temp
  <2>1. PICK k \in 1 .. N - 1 :
          /\ points[k].temp < t /\ t <= points[k + 1].temp
          /\ Interpolate(points, t) = Chord(points[k], points[k + 1], t)
    BY <1>1, <1>5, <1>8, InterpolateIsChord
  <2>2. k \in 1 .. N /\ k + 1 \in 1 .. N
    BY <1>2
  <2>3. k + 1 <= i
    <3>1. ASSUME i <= k PROVE FALSE
      <4>1. points[i].temp <= points[k].temp
        BY <1>1, <1>4, <2>2, <3>1
      <4>2. QED
        BY <1>1, <1>3, <1>5, <2>1, <2>2, <4>1
    <3>2. QED
      BY <1>1, <1>2, <3>1
  <2>4. points[k + 1].temp = t
    <3>1. points[k + 1].temp <= t
      BY <1>1, <1>4, <2>2, <2>3
    <3>2. QED
      BY <1>3, <1>5, <2>1, <2>2, <3>1
  <2>5. Chord(points[k], points[k + 1], t) = points[k + 1].percent
    BY <1>2, <2>1, <2>2, <2>4, ChordAtItsEnd
  <2>6. QED
    BY <1>1, <2>1, <2>2, <2>4, <2>5
<1>9. QED
  BY <1>2, <1>3, <1>5, <1>6, <1>7, <1>8

(* The register value for any percent, in or out of range, fits the register. *)
THEOREM PwmValueRange ==
  ASSUME NEW percent \in Int
  PROVE  PwmValue(percent) \in 0 .. 255
<1>1. ASSUME NEW n \in Int, 0 <= n, n <= 25500
      PROVE  RoundHalfEven(n, 100) \in 0 .. 255
  <2>1. ASSUME NEW R \in Int,
               2 * n - 100 <= 2 * (100 * R), 2 * (100 * R) <= 2 * n + 100
        PROVE  R \in 0 .. 255
    BY <1>1, <2>1
  <2>2. n \in Int /\ 100 \in Int /\ 100 > 0
    OBVIOUS
  <2>3. QED
    BY <2>1, <2>2, RoundHalfEvenNearest
<1>2. Clamp(percent) \in Int /\ 0 <= Clamp(percent) /\ Clamp(percent) <= 100
  BY DEF Clamp
<1>3. /\ Clamp(percent) * 255 \in Int
      /\ 0 <= Clamp(percent) * 255 /\ Clamp(percent) * 255 <= 25500
  BY <1>2
<1>4. QED
  BY <1>1, <1>3 DEF PwmValue

----------------------------------------------------------------------------
(* The curve editor.                                                       *)

LEMMA NewCurveType == NewCurve \in Seq(Point)
  BY DEF NewCurve, Point

(* What a sequence keeps when an element is removed or replaced. *)
LEMMA RemoveAtType ==
  ASSUME NEW S, NEW s \in Seq(S), NEW i \in DOMAIN s
  PROVE  RemoveAt(s, i) \in Seq(S)
<1>1. i \in 1 .. Len(s) /\ Len(s) \in Nat
  BY LenProperties
<1>2. SubSeq(s, 1, i - 1) \in Seq(S) /\ SubSeq(s, i + 1, Len(s)) \in Seq(S)
  BY <1>1, SubSeqProperties
<1>3. QED
  BY <1>2, ConcatProperties DEF RemoveAt

LEMMA ReplaceType ==
  ASSUME NEW S, NEW s \in Seq(S), NEW i \in DOMAIN s, NEW e \in S
  PROVE  [s EXCEPT ![i] = e] \in Seq(S)
  BY ExceptSeq, LenProperties

(* The tables hold points. *)
THEOREM TypeCorrect == Spec => []TypeOK
<1>1. Init => TypeOK
  BY NewCurveType DEF Init, TypeOK
<1>2. TypeOK /\ [Next]_vars => TypeOK'
  <2> SUFFICES ASSUME TypeOK, [Next]_vars PROVE TypeOK'
    OBVIOUS
  <2> USE DEF TypeOK
  <2>1. CASE AddPoint
    <3>1. ASSUME working # <<>> PROVE Last(working) \in Point
      <4>1. Len(working) \in 1 .. Len(working)
        BY <3>1, LenProperties, EmptySeq
      <4>2. QED
        BY <4>1, LenProperties DEF Last
    <3>2. PICK p : p \in Point /\ working' = Append(working, p)
      <4> DEFINE q == Min({Last(working).percent + 10, 100})
      <4>1. ASSUME working # <<>> PROVE q \in Int
        <5>1. Last(working).percent + 10 \in Int
          BY <3>1, <4>1 DEF Point
        <5>2. \E m \in {Last(working).percent + 10, 100} :
                \A n \in {Last(working).percent + 10, 100} : m <= n
          BY <5>1
        <5>3. q \in {Last(working).percent + 10, 100}
          BY <5>2 DEF Min
        <5>4. QED
          BY <5>1, <5>3
      <4>2. [temp |-> 30, percent |-> 50] \in Point
        BY DEF Point
      <4>3. ASSUME working # <<>>
            PROVE  [temp |-> Last(working).temp + 10, percent |-> q] \in Point
        <5> HIDE DEF q
        <5>1. QED
          BY <3>1, <4>1, <4>3 DEF Point
      <4>4. QED
        BY <2>1, <4>2, <4>3 DEF AddPoint
    <3>3. working' \in Seq(Point)
      BY <3>2, AppendProperties
    <3>4. QED
      BY <2>1, <3>3 DEF AddPoint
  <2>2. CASE UpdateTemp
    <3>1. PICK i \in DOMAIN working, t \in TempInputs :
            working' = [working EXCEPT ![i].temp = t]
      BY <2>2 DEF UpdateTemp
    <3>2. working[i] \in Point
      BY LenProperties, <3>1
    <3>3. [working[i] EXCEPT !.temp = t] \in Point
      BY <3>2, InputsAssumption DEF Point
    <3>4. working' \in Seq(Point)
      BY <3>1, <3>3, ReplaceType
    <3>5. QED
      BY <2>2, <3>4 DEF UpdateTemp
  <2>3. CASE UpdatePercent
    <3>1. PICK i \in DOMAIN working, p \in PercentInputs :
            working' = [working EXCEPT ![i].percent = p]
      BY <2>3 DEF UpdatePercent
    <3>2. working[i] \in Point
      BY LenProperties, <3>1
    <3>3. [working[i] EXCEPT !.percent = p] \in Point
      BY <3>2, InputsAssumption DEF Point
    <3>4. working' \in Seq(Point)
      BY <3>1, <3>3, ReplaceType
    <3>5. QED
      BY <2>3, <3>4 DEF UpdatePercent
  <2>4. CASE RemovePoint
    BY <2>4, RemoveAtType DEF RemovePoint
  <2>5. CASE Discard
    BY <2>5 DEF Discard
  <2>6. CASE Save
    BY <2>6 DEF Save
  <2>7. CASE EditFile
    BY <2>7, FileCurvesAssumption DEF EditFile
  <2>8. CASE UNCHANGED vars
    BY <2>8 DEF vars
  <2>9. QED
    BY <2>1, <2>2, <2>3, <2>4, <2>5, <2>6, <2>7, <2>8 DEF Next
<1>3. QED
  BY <1>1, <1>2, PTL DEF Spec

(* However the points of the stored curve came to be in their order, the   *)
(* speed stays between the lowest and the highest speed in the table.      *)
THEOREM WithinCurveTheorem == Spec => []WithinCurve
<1>1. TypeOK => WithinCurve
  <2> SUFFICES ASSUME TypeOK, saved # <<>>, NEW t \in Readable
               PROVE  \E i, j \in DOMAIN saved :
                        /\ saved[i].percent <= Interpolate(saved, t)
                        /\ Interpolate(saved, t) <= saved[j].percent
    BY DEF WithinCurve
  <2>1. saved \in Seq(Point) /\ t \in Int
    BY ReadableAssumption DEF TypeOK
  <2>2. QED
    BY <2>1, InterpolateStaysWithin
<1>2. QED
  BY <1>1, TypeCorrect, PTL
(* A curve marked as accepted obeys the rules it was accepted by. *)
THEOREM AcceptedInvariant == Spec => []IInv
<1> USE DEF IInv
<1>1. Init => IInv
  <2>1. ValidCurve(NewCurve)
    BY DEF ValidCurve, IsSorted, NewCurve
  <2>2. Init => TypeOK
    BY NewCurveType DEF Init, TypeOK
  <2>3. QED
    BY <2>1, <2>2 DEF Init
<1>2. IInv /\ TypeOK' /\ [Next]_vars => IInv'
  <2> SUFFICES ASSUME IInv, TypeOK', [Next]_vars, checked' PROVE ValidCurve(saved')
    OBVIOUS
  <2>1. CASE Save
    BY <2>1 DEF Save
  <2>2. CASE EditFile
    BY <2>2 DEF EditFile
  <2>3. CASE UNCHANGED <<saved, checked>>
    BY <2>3
  <2>4. QED
    BY <2>1, <2>2, <2>3 DEF Next, vars, AddPoint, UpdateTemp, UpdatePercent, RemovePoint, Discard
<1>3. QED
  BY <1>1, <1>2, TypeCorrect, PTL DEF Spec

(* What acceptance says of the stored curve, point by point. *)
LEMMA AcceptedCurve ==
  ASSUME IInv, checked
  PROVE  /\ saved \in Seq(Point) /\ saved # <<>> /\ Len(saved) \in Nat
         /\ DOMAIN saved = 1 .. Len(saved)
         /\ \A i, j \in 1 .. Len(saved) : i < j => saved[i].temp <= saved[j].temp
<1>1. saved \in Seq(Point) /\ ValidCurve(saved)
  BY DEF IInv, TypeOK
<1>2. Len(saved) >= 2 /\ \A i, j \in 1 .. Len(saved) : i < j => saved[i].temp <= saved[j].temp
  BY <1>1 DEF ValidCurve, IsSorted
<1>3. saved # <<>> /\ Len(saved) \in Nat /\ DOMAIN saved = 1 .. Len(saved)
  BY <1>1, <1>2, LenProperties, EmptySeq
<1>4. QED
  BY <1>1, <1>2, <1>3

(* More heat never means less cooling on an accepted curve whose speeds do *)
(* not fall, for any points and any temperatures.                          *)
THEOREM MonotoneTheorem == Spec => []WarmerIsNeverSlower
<1>1. IInv => WarmerIsNeverSlower
  <2> SUFFICES ASSUME IInv, checked, NonDecreasing(saved),
                      NEW t \in Readable, NEW u \in Readable, t <= u
               PROVE  Interpolate(saved, t) <= Interpolate(saved, u)
    BY DEF WarmerIsNeverSlower
  <2>1. t \in Int /\ u \in Int
    BY ReadableAssumption
  <2>2. \A i, j \in 1 .. Len(saved) : i < j => saved[i].percent <= saved[j].percent
    BY DEF NonDecreasing, IsSorted
  <2>3. QED
    BY <2>1, <2>2, AcceptedCurve, InterpolateIsMonotone
<1>2. QED
  BY <1>1, AcceptedInvariant, PTL

(* Between its ends an accepted curve is followed from point to point. *)
THEOREM NeighboursTheorem == Spec => []BetweenNeighbours
<1>1. IInv => BetweenNeighbours
  <2> SUFFICES ASSUME IInv, checked, NEW t \in Readable,
                      saved[1].temp < t, t < Last(saved).temp
               PROVE  \E i \in 1 .. Len(saved) - 1 :
                        /\ saved[i].temp <= t /\ t <= saved[i + 1].temp
                        /\ LET p == Interpolate(saved, t)
                               pair == {saved[i].percent, saved[i + 1].percent}
                           IN  \E lo, hi \in pair : lo <= p /\ p <= hi
    BY DEF BetweenNeighbours
  <2>1. t \in Int /\ t < saved[Len(saved)].temp
    BY ReadableAssumption DEF Last
  <2>2. PICK k \in 1 .. Len(saved) - 1 :
          /\ saved[k] \in Point /\ saved[k + 1] \in Point
          /\ saved[k].temp < t /\ t <= saved[k + 1].temp
          /\ Interpolate(saved, t) = Chord(saved[k], saved[k + 1], t)
    BY <2>1, AcceptedCurve, InterpolateIsChord
  <2>3. PICK p : p = Interpolate(saved, t)
    OBVIOUS
  <2>4. \/ saved[k].percent <= p /\ p <= saved[k + 1].percent
        \/ saved[k + 1].percent <= p /\ p <= saved[k].percent
    BY <2>1, <2>2, <2>3, ChordStaysBetween
  <2>5. saved[k].temp <= t
    BY <2>1, <2>2 DEF Point
  <2>6. QED
    BY <2>2, <2>3, <2>4, <2>5
<1>2. QED
  BY <1>1, AcceptedInvariant, PTL

(* The speeds at the points of an accepted curve are those in the table. *)
THEOREM PointsTheorem == Spec => []PointsAreMet
<1>1. IInv => PointsAreMet
  <2> SUFFICES ASSUME IInv, checked, NEW i \in DOMAIN saved
               PROVE  \E j \in DOMAIN saved :
                        /\ saved[j].temp = saved[i].temp
                        /\ saved[j].percent = Interpolate(saved, saved[i].temp)
    BY DEF PointsAreMet
  <2>1. QED
    BY AcceptedCurve, InterpolateMeetsPoints
<1>2. QED
  BY <1>1, AcceptedInvariant, PTL

----------------------------------------------------------------------------
(* Virtual sensors.                                                        *)

Picked(s) == CHOOSE x \in s : TRUE

(* One step of the sum over subsets of T, on the sums g of smaller ones. *)
SumStep(T, real, g) ==
  [ s \in SUBSET T |-> IF s = {} THEN 0 ELSE real[Picked(s)] + g[s \ {Picked(s)}] ]

LEMMA SmallerSet ==
  ASSUME NEW T, IsFiniteSet(T), NEW s \in SUBSET T, s # {}
  PROVE  /\ Picked(s) \in s /\ s \ {Picked(s)} \in SUBSET T
         /\ Cardinality(s) \in Nat /\ Cardinality(s) > 0
         /\ Cardinality(s \ {Picked(s)}) = Cardinality(s) - 1
<1>1. Picked(s) \in s
  BY DEF Picked
<1>2. IsFiniteSet(s)
  BY FS_Subset
<1>3. Cardinality(s \ {Picked(s)}) = Cardinality(s) - 1 /\ Cardinality(s) \in Nat
  BY <1>1, <1>2, FS_RemoveElement, FS_CardinalityType
<1>4. IsFiniteSet(s \ {Picked(s)}) /\ Cardinality(s \ {Picked(s)}) \in Nat
  BY <1>2, FS_Subset, FS_CardinalityType
<1>5. QED
  BY <1>1, <1>3, <1>4

(* The recursion of MapThenSumSet has a solution: by least counterexample,  *)
(* one size of subsets after the other.                                    *)
LEMMA SumExists ==
  ASSUME NEW T, IsFiniteSet(T), NEW real, \A x \in T : real[x] \in Int
  PROVE  \E g : g = SumStep(T, real, g)
<1> DEFINE Solved(n) == \E g \in [SUBSET T -> Int] :
             \A s \in SUBSET T : Cardinality(s) <= n => g[s] = SumStep(T, real, g)[s]
<1>1. Solved(0)
  <2>1. PICK g : g = [s \in SUBSET T |-> 0]
    OBVIOUS
  <2>2. ASSUME NEW s \in SUBSET T, Cardinality(s) <= 0 PROVE s = {}
    <3>1. s # {} => Cardinality(s) \in Nat /\ Cardinality(s) > 0
      BY SmallerSet, Zenon
    <3>2. QED
      BY <2>2, <3>1
  <2>3. QED
    BY <2>1, <2>2 DEF SumStep
<1>2. ASSUME NEW n \in Nat, Solved(n) PROVE Solved(n + 1)
  <2>1. PICK g \in [SUBSET T -> Int] :
          \A s \in SUBSET T : Cardinality(s) <= n => g[s] = SumStep(T, real, g)[s]
    BY <1>2
  <2>2. PICK h : h = SumStep(T, real, g)
    OBVIOUS
  <2>3. h \in [SUBSET T -> Int]
    <3>1. ASSUME NEW s \in SUBSET T PROVE h[s] \in Int
      <4>1. CASE s = {}
        BY <2>2, <4>1 DEF SumStep
      <4>2. CASE s # {}
        <5>1. Picked(s) \in T /\ s \ {Picked(s)} \in SUBSET T
          BY <4>2, SmallerSet
        <5>2. h[s] = real[Picked(s)] + g[s \ {Picked(s)}]
          BY <2>2, <4>2 DEF SumStep
        <5>3. QED
          BY <2>1, <5>1, <5>2
      <4>3. QED
        BY <4>1, <4>2
    <3>2. h = [s \in SUBSET T |-> h[s]]
      BY <2>2 DEF SumStep
    <3>3. QED
      BY <3>1, <3>2
  <2>4. ASSUME NEW s \in SUBSET T, Cardinality(s) <= n + 1
        PROVE  h[s] = SumStep(T, real, h)[s]
    <3>1. CASE s = {}
      BY <2>2, <3>1 DEF SumStep
    <3>2. CASE s # {}
      <4>1. PICK u : u = s \ {Picked(s)}
        OBVIOUS
      <4>2. u \in SUBSET T /\ Cardinality(u) <= n
        BY <1>2, <2>4, <3>2, <4>1, SmallerSet
      <4>3. h[u] = g[u]
        BY <2>1, <2>2, <4>2
      <4>4. h[s] = real[Picked(s)] + g[u] /\ SumStep(T, real, h)[s] = real[Picked(s)] + h[u]
        BY <2>2, <3>2, <4>1 DEF SumStep
      <4>5. QED
        BY <4>3, <4>4
    <3>3. QED
      BY <3>1, <3>2
  <2>5. QED
    BY <2>3, <2>4
<1> HIDE DEF Solved
<1>3. ASSUME NEW n \in Nat PROVE Solved(n)
  <2>1. SUFFICES ASSUME ~Solved(n) PROVE FALSE
    OBVIOUS
  <2>2. PICK bad : bad = { k \in Nat : ~Solved(k) }
    OBVIOUS
  <2>3. bad \in SUBSET Nat /\ bad # {}
    BY <2>1, <2>2
  <2>4. PICK m \in bad : \A k \in bad : m <= k
    BY <2>3, LeastNatural
  <2>5. m # 0 /\ m \in Nat /\ ~Solved(m)
    BY <1>1, <2>2, <2>4
  <2>6. m - 1 \in Nat /\ m - 1 \notin bad /\ (m - 1) + 1 = m
    BY <2>3, <2>4, <2>5
  <2>7. QED
    BY <1>2, <2>2, <2>5, <2>6
<1>4. Cardinality(T) \in Nat /\ \A s \in SUBSET T : Cardinality(s) <= Cardinality(T)
  BY FS_CardinalityType, FS_Subset
<1>5. PICK g \in [SUBSET T -> Int] : \A s \in SUBSET T : g[s] = SumStep(T, real, g)[s]
  BY <1>3, <1>4 DEF Solved
<1>6. g = SumStep(T, real, g)
  <2>1. SumStep(T, real, g) = [s \in SUBSET T |-> SumStep(T, real, g)[s]]
    BY DEF SumStep
  <2>2. QED
    BY <1>5, <2>1
<1>7. QED
  BY <1>6

Total(T, real) == MapThenSumSet(LAMBDA x : real[x], T)

(* So a sum lies between as many times the least and the greatest summand. *)
LEMMA SumBounds ==
  ASSUME NEW T, IsFiniteSet(T), NEW real, NEW lo \in Int, NEW hi \in Int,
         \A x \in T : real[x] \in Int /\ lo <= real[x] /\ real[x] <= hi
  PROVE  /\ Total(T, real) \in Int
         /\ (Cardinality(T) * lo) <= Total(T, real)
         /\ Total(T, real) <= (Cardinality(T) * hi)
<1>1. PICK g : g = CHOOSE h : h = SumStep(T, real, h)
  OBVIOUS
<1>2. g = SumStep(T, real, g)
  BY <1>1, SumExists
<1>3. Total(T, real) = g[T]
  BY <1>1 DEF Total, MapThenSumSet, MapThenFoldSet, SumStep, Picked
<1> DEFINE Bounded(n) == \A s \in SUBSET T : Cardinality(s) = n =>
             g[s] \in Int /\ (n * lo) <= g[s] /\ g[s] <= (n * hi)
<1>4. Bounded(0)
  <2>1. ASSUME NEW s \in SUBSET T, Cardinality(s) = 0 PROVE s = {}
    <3>1. s # {} => Cardinality(s) \in Nat /\ Cardinality(s) > 0
      BY SmallerSet, Zenon
    <3>2. QED
      BY <2>1, <3>1
  <2>2. g[{}] = 0
    BY <1>2 DEF SumStep
  <2>3. 0 * lo = 0 /\ 0 * hi = 0
    OBVIOUS
  <2>4. ASSUME NEW s \in SUBSET T, Cardinality(s) = 0
        PROVE  g[s] \in Int /\ (0 * lo) <= g[s] /\ g[s] <= (0 * hi)
    <3>1. g[s] = 0
      BY <2>1, <2>2, <2>4
    <3>2. QED
      BY <2>3, <3>1
  <2>5. QED
    BY <2>4
<1>5. ASSUME NEW n \in Nat, Bounded(n) PROVE Bounded(n + 1)
  <2>1. SUFFICES ASSUME NEW s \in SUBSET T, Cardinality(s) = n + 1
                 PROVE  g[s] \in Int /\ ((n + 1) * lo) <= g[s] /\ g[s] <= ((n + 1) * hi)
    OBVIOUS
  <2>2. s # {}
    <3>1. Cardinality({}) = 0
      BY FS_EmptySet
    <3>2. QED
      BY <2>1, <3>1
  <2>3. PICK u, x : x = Picked(s) /\ u = s \ {Picked(s)}
    OBVIOUS
  <2>4. x \in T /\ u \in SUBSET T /\ Cardinality(u) = n
    BY <2>1, <2>2, <2>3, SmallerSet
  <2>5. g[s] = real[x] + g[u]
    BY <1>2, <2>2, <2>3 DEF SumStep
  <2>6. g[u] \in Int /\ (n * lo) <= g[u] /\ g[u] <= (n * hi)
    BY <1>5, <2>4
  <2>7. real[x] \in Int /\ lo <= real[x] /\ real[x] <= hi
    BY <2>4
  <2>8. (n + 1) * lo = (n * lo) + lo /\ (n + 1) * hi = (n * hi) + hi
    OBVIOUS
  <2>9. PICK a, b : a = n * lo /\ b = n * hi
    OBVIOUS
  <2>10. a \in Int /\ b \in Int
    BY <2>9
  <2>11. QED
    BY <2>5, <2>6, <2>7, <2>8, <2>9, <2>10
<1> HIDE DEF Bounded
<1>6. ASSUME NEW n \in Nat PROVE Bounded(n)
  <2>1. SUFFICES ASSUME ~Bounded(n) PROVE FALSE
    OBVIOUS
  <2>2. PICK bad : bad = { k \in Nat : ~Bounded(k) }
    OBVIOUS
  <2>3. bad \in SUBSET Nat /\ bad # {}
    BY <2>1, <2>2
  <2>4. PICK m \in bad : \A k \in bad : m <= k
    BY <2>3, LeastNatural
  <2>5. m # 0 /\ m \in Nat /\ ~Bounded(m)
    BY <1>4, <2>2, <2>4
  <2>6. m - 1 \in Nat /\ m - 1 \notin bad /\ (m - 1) + 1 = m
    BY <2>3, <2>4, <2>5
  <2>7. QED
    BY <1>5, <2>2, <2>5, <2>6
<1>7. QED
  BY <1>3, <1>6, FS_CardinalityType DEF Bounded

(* A finite set of numbers has a least and a greatest element. *)
LEMMA FiniteExtremes ==
  ASSUME NEW S \in SUBSET Int, IsFiniteSet(S), S # {}
  PROVE  \E lo, hi \in S : \A x \in S : lo <= x /\ x <= hi
<1> DEFINE Ends(T) == \E lo, hi \in T : \A x \in T : lo <= x /\ x <= hi
<1>1. ASSUME NEW T \in SUBSET S, NEW x \in T, Ends(T \ {x}) PROVE Ends(T)
  <2>1. PICK lo, hi \in T \ {x} : \A y \in T \ {x} : lo <= y /\ y <= hi
    BY <1>1
  <2>2. PICK least, most :
          least = (IF x <= lo THEN x ELSE lo) /\ most = (IF hi <= x THEN x ELSE hi)
    OBVIOUS
  <2>3. least \in T /\ most \in T /\ \A y \in T : y \in Int
    BY <2>2
  <2>4. least <= lo /\ least <= x /\ hi <= most /\ x <= most
    BY <2>1, <2>2, <2>3
  <2>5. \A y \in T : least <= y /\ y <= most
    BY <2>1, <2>3, <2>4
  <2>6. QED
    BY <2>3, <2>5
<1>2. ASSUME NEW T \in SUBSET S, T # {}, ~Ends(T)
      PROVE  \E u \in SUBSET S : u # {} /\ ~Ends(u) /\ Cardinality(u) = Cardinality(T) - 1
  <2>1. PICK x : x = Picked(T)
    OBVIOUS
  <2>2. /\ x \in T /\ T \ {x} \in SUBSET S /\ Cardinality(T \ {x}) = Cardinality(T) - 1
    BY <1>2, <2>1, SmallerSet
  <2>3. ASSUME T = {x} PROVE FALSE
    <3>1. x \in Int /\ Ends({x})
      BY <2>2, <2>3
    <3>2. QED
      BY <1>2, <2>3, <3>1
  <2>4. ~Ends(T \ {x})
    BY <1>1, <1>2, <2>2
  <2>5. QED
    BY <2>2, <2>3, <2>4
<1> HIDE DEF Ends
<1>3. SUFFICES ASSUME ~Ends(S) PROVE FALSE
  BY DEF Ends
<1>4. PICK sizes : sizes = { Cardinality(T) : T \in { u \in SUBSET S : u # {} /\ ~Ends(u) } }
  OBVIOUS
<1>5. sizes \in SUBSET Nat /\ sizes # {}
  <2>1. \A T \in SUBSET S : Cardinality(T) \in Nat
    BY FS_Subset, FS_CardinalityType
  <2>2. QED
    BY <1>3, <1>4, <2>1
<1>6. PICK m \in sizes : \A n \in sizes : m <= n
  BY <1>5, LeastNatural
<1>7. PICK T \in SUBSET S : T # {} /\ ~Ends(T) /\ m = Cardinality(T)
  BY <1>4, <1>6
<1>8. PICK u \in SUBSET S : u # {} /\ ~Ends(u) /\ Cardinality(u) = m - 1
  BY <1>2, <1>7
<1>9. m - 1 \in sizes /\ m \in Int
  BY <1>4, <1>5, <1>8
<1>10. QED
  BY <1>6, <1>9

LEMMA ExtremesAre ==
  ASSUME NEW S \in SUBSET Int, NEW lo \in S, NEW hi \in S, \A x \in S : lo <= x /\ x <= hi
  PROVE  Min(S) = lo /\ Max(S) = hi
<1>1. Min(S) \in S /\ \A x \in S : Min(S) <= x
  BY DEF Min
<1>2. Max(S) \in S /\ \A x \in S : Max(S) >= x
  BY DEF Max
<1>3. PICK a, b : a = Min(S) /\ b = Max(S)
  OBVIOUS
<1>4. a \in Int /\ b \in Int /\ lo \in Int /\ hi \in Int
  BY <1>1, <1>2, <1>3
<1>5. a <= lo /\ lo <= a /\ b >= hi /\ b <= hi
  BY <1>1, <1>2, <1>3
<1>6. a = lo /\ b = hi
  BY <1>4, <1>5
<1>7. QED
  BY <1>3, <1>6

(* The mean of the available readings lies between them. *)
LEMMA MeanBetween ==
  ASSUME NEW vs, NEW real, IsFiniteSet(Available(vs, real)), Available(vs, real) # {},
         NEW lo \in Int, NEW hi \in Int,
         \A s \in Available(vs, real) : real[s] \in Int /\ lo <= real[s] /\ real[s] <= hi
  PROVE  Mean(vs, real) \in Int /\ lo <= Mean(vs, real) /\ Mean(vs, real) <= hi
<1>1. PICK T : T = Available(vs, real)
  OBVIOUS
<1>2. PICK n, sum : n = Cardinality(T) /\ sum = Total(T, real)
  OBVIOUS
<1>3. sum \in Int /\ (n * lo) <= sum /\ sum <= (n * hi)
  <2>1. IsFiniteSet(T) /\ \A x \in T : real[x] \in Int /\ lo <= real[x] /\ real[x] <= hi
    BY <1>1
  <2>2. /\ Total(T, real) \in Int
        /\ (Cardinality(T) * lo) <= Total(T, real) /\ Total(T, real) <= (Cardinality(T) * hi)
    BY <2>1, SumBounds
  <2>3. QED
    BY <1>2, <2>2
<1>4. n \in Nat /\ n > 0
  <2>1. T \in SUBSET T /\ T # {} /\ IsFiniteSet(T)
    BY <1>1
  <2>2. QED
    BY <1>2, <2>1, SmallerSet, Zenon
<1>5. PICK q, r : q = sum \div n /\ r = sum % n
  OBVIOUS
<1>6. Mean(vs, real) = q
  BY <1>1, <1>2, <1>5 DEF Mean, Total
<1>7. q \in Int /\ r \in 0 .. n - 1 /\ sum = (n * q) + r
  BY <1>3, <1>4, <1>5
<1>8. lo <= q
  <2>1. SUFFICES ASSUME q + 1 <= lo PROVE FALSE
    BY <1>7
  <2>2. n * (q + 1) <= n * lo
    BY <1>4, <1>7, <2>1
  <2>3. n * (q + 1) = (n * q) + n
    BY <1>4, <1>7
  <2>4. PICK a, b : a = n * q /\ b = n * lo
    OBVIOUS
  <2>5. a \in Int /\ b \in Int
    BY <1>4, <1>7, <2>4
  <2>6. QED
    BY <1>3, <1>4, <1>7, <2>2, <2>3, <2>4, <2>5
<1>9. q <= hi
  <2>1. SUFFICES ASSUME hi + 1 <= q PROVE FALSE
    BY <1>7
  <2>2. n * (hi + 1) <= n * q
    BY <1>4, <1>7, <2>1
  <2>3. n * (hi + 1) = (n * hi) + n
    BY <1>4
  <2>4. PICK a, b : a = n * q /\ b = n * hi
    OBVIOUS
  <2>5. a \in Int /\ b \in Int
    BY <1>4, <1>7, <2>4
  <2>6. QED
    BY <1>3, <1>4, <1>7, <2>2, <2>3, <2>4, <2>5
<1>10. QED
  BY <1>6, <1>7, <1>8, <1>9

(* A fan follows the curve as long as its sensor has a reading. *)
LEMMA SpeedIs ==
  ASSUME saved \in Seq(Point), NEW id, NEW virtual, NEW real, NEW temp,
         temp = SensorMap(virtual, real)[id]
  PROVE  Speed(id, virtual, real) = IF temp # None THEN Interpolate(saved, temp) ELSE Floor
<1>1. PICK cfg, fc :
        /\ cfg = [ curves |-> [n \in {"c"} |-> saved], floor |-> Floor ]
        /\ fc = [ override |-> None, curve_name |-> "c", sensor_id |-> id ]
  OBVIOUS
<1>2. /\ cfg.curves["c"] = saved /\ cfg.floor = Floor
      /\ fc.override = None /\ fc.curve_name = "c" /\ fc.sensor_id = id /\ saved # None
  BY <1>1, NoneIsNoCurve
<1>3. Speed(id, virtual, real) = PercentFor(cfg, fc, SensorMap(virtual, real))
  BY <1>1 DEF Speed
<1>4. QED
  BY <1>2, <1>3 DEF PercentFor, FollowsCurve

(* What a virtual sensor reads, and what the curve makes of it. *)
LEMMA VirtualSpeed ==
  ASSUME saved \in Seq(Point), saved # <<>>,
         \A t, u \in Int : t <= u => Interpolate(saved, t) <= Interpolate(saved, u),
         NEW vs \in VirtualSensor, vs.aggregation # "other",
         NEW real \in [SensorIds -> Readable \cup {None}],
         NEW virtual, virtual = [ id \in VirtualIds |-> vs ], NEW id \in VirtualIds,
         NEW alone, alone = { Speed(s, virtual, real) : s \in Available(vs, real) },
         NEW speed, speed = Speed(id, virtual, real)
  PROVE  IF alone = {} THEN speed = Floor
         ELSE CASE vs.aggregation = "max" -> speed = Max(alone)
                [] vs.aggregation = "min" -> speed = Min(alone)
                [] vs.aggregation = "avg" ->
                     Min(alone) <= speed /\ speed <= Max(alone)
<1>1. PICK A : A = Available(vs, real)
  OBVIOUS
<1>2. /\ A \in SUBSET SensorIds /\ vs.aggregation \in {"avg", "min", "max"}
      /\ \A s \in A : real[s] \in Int
  BY <1>1, ReadableAssumption DEF VirtualSensor, Available
<1>3. IsFiniteSet(A)
  BY <1>2, SensorsAreFinite, FS_Subset
<1>4. id \notin SensorIds /\ vs # None /\ virtual[id] = vs
  BY VirtualIdsAreNoSensors, NoneIsNoSensor
<1>5. SensorMap(virtual, real)[id] = Resolve(vs, real)
  BY <1>4 DEF SensorMap
<1>6. ASSUME NEW s \in A PROVE Speed(s, virtual, real) = Interpolate(saved, real[s])
  <2>1. SensorMap(virtual, real)[s] = real[s]
    BY <1>2 DEF SensorMap
  <2>2. real[s] # None
    BY <1>2, NoneIsNoNumber
  <2>3. QED
    BY <2>1, <2>2, SpeedIs
<1>7. alone = { Interpolate(saved, real[s]) : s \in A }
  BY <1>1, <1>6
<1>8. CASE A = {}
  <2>1. alone = {} /\ Resolve(vs, real) = None
    BY <1>1, <1>7, <1>8 DEF Resolve
  <2>2. speed = Floor
    BY <1>5, <2>1, SpeedIs
  <2>3. QED
    BY <2>1, <2>2
<1>9. CASE A # {}
  <2>1. PICK readings : readings = { real[s] : s \in A }
    OBVIOUS
  <2>2. readings \in SUBSET Int /\ readings # {} /\ IsFiniteSet(readings)
    <3>1. [s \in A |-> real[s]] \in Surjection(A, readings)
      BY <2>1 DEF Surjection
    <3>2. IsFiniteSet(readings)
      BY <1>3, <3>1, FS_Surjection
    <3>3. QED
      BY <1>2, <1>9, <2>1, <3>2
  <2>3. PICK lo, hi \in readings : \A x \in readings : lo <= x /\ x <= hi
    BY <2>2, FiniteExtremes
  <2>4. Min(readings) = lo /\ Max(readings) = hi /\ lo \in Int /\ hi \in Int
    BY <2>2, <2>3, ExtremesAre
  <2>5. PICK v : v = Resolve(vs, real)
    OBVIOUS
  <2>6. /\ vs.aggregation = "max" => v = hi
        /\ vs.aggregation = "min" => v = lo
        /\ vs.aggregation = "avg" => v = Mean(vs, real)
    BY <1>1, <1>9, <2>1, <2>4, <2>5 DEF Resolve, Aggregate
  <2>7. \A s \in A : real[s] \in Int /\ lo <= real[s] /\ real[s] <= hi
    BY <1>2, <2>1, <2>3
  <2>8. Mean(vs, real) \in Int /\ lo <= Mean(vs, real) /\ Mean(vs, real) <= hi
    BY <1>1, <1>3, <1>9, <2>4, <2>7, MeanBetween
  <2>9. v \in Int /\ lo <= v /\ v <= hi
    BY <1>2, <2>2, <2>3, <2>6, <2>8
  <2>10. speed = Interpolate(saved, v)
    BY <1>5, <2>5, <2>9, NoneIsNoNumber, SpeedIs
  <2>11. PICK low, high : low = Interpolate(saved, lo) /\ high = Interpolate(saved, hi)
    OBVIOUS
  <2>12. \A t \in Int : Interpolate(saved, t) \in Int
    BY InterpolateType
  <2>13. low \in alone /\ high \in alone /\ alone \in SUBSET Int /\ alone # {}
    <3>1. PICK s, r \in A : lo = real[s] /\ hi = real[r]
      BY <2>1, <2>3
    <3>2. low \in alone /\ high \in alone
      BY <1>7, <2>11, <3>1
    <3>3. \A x \in alone : x \in Int
      BY <1>7, <2>7, <2>12
    <3>4. QED
      BY <3>2, <3>3
  <2>14. \A x \in alone : low <= x /\ x <= high
    BY <1>7, <2>4, <2>7, <2>11
  <2>15. Min(alone) = low /\ Max(alone) = high
    BY <2>13, <2>14, ExtremesAre
  <2>16. low <= speed /\ speed <= high
    BY <2>4, <2>9, <2>10, <2>11
  <2>17. /\ vs.aggregation = "max" => speed = high
         /\ vs.aggregation = "min" => speed = low
    BY <2>6, <2>10, <2>11
  <2>18. QED
    BY <1>2, <2>13, <2>15, <2>16, <2>17
<1>10. QED
  BY <1>8, <1>9

(* A virtual sensor is followed as its sources would be: the warmest, the   *)
(* coolest or something between, and the safety floor without any of them, *)
(* for any number of sources (resolve_virtual_sensors).                    *)
THEOREM VirtualTheorem == Spec => []VirtualFollowsSources
<1>1. IInv => VirtualFollowsSources
  <2> SUFFICES ASSUME IInv, checked, NonDecreasing(saved),
                      NEW vs \in VirtualSensor, ValidVirtual(vs),
                      NEW real \in [SensorIds -> Readable \cup {None}],
                      NEW virtual, virtual = [ id \in VirtualIds |-> vs ],
                      NEW alone, alone = { Speed(s, virtual, real) : s \in Available(vs, real) },
                      NEW id \in VirtualIds, NEW speed, speed = Speed(id, virtual, real)
               PROVE  IF alone = {} THEN speed = Floor
                      ELSE CASE vs.aggregation = "max" -> speed = Max(alone)
                             [] vs.aggregation = "min" -> speed = Min(alone)
                             [] vs.aggregation = "avg" ->
                                  Min(alone) <= speed /\ speed <= Max(alone)
    BY Zenon DEF VirtualFollowsSources
  <2>1. \A i, j \in 1 .. Len(saved) : i < j => saved[i].percent <= saved[j].percent
    BY DEF NonDecreasing, IsSorted
  <2>2. saved \in Seq(Point) /\ saved # <<>>
    BY AcceptedCurve
  <2>3. \A t, u \in Int : t <= u => Interpolate(saved, t) <= Interpolate(saved, u)
    BY <2>1, AcceptedCurve, InterpolateIsMonotone
  <2>4. vs.aggregation # "other"
    BY DEF ValidVirtual
  <2>5. QED
    BY <2>2, <2>3, <2>4, VirtualSpeed, Zenon
<1>2. QED
  BY <1>1, AcceptedInvariant, PTL
=============================================================================
